------------------------------- MODULE Outbox -------------------------------
(***************************************************************************)
(* The Android device's way of reporting calls, and the server behind it.  *)
(* Two chains of CallLogSyncWorker stage call-log entries in the table      *)
(* pending_interactions; InteractionSyncWorker posts each staged row as a   *)
(* keyed activity and deletes it once it is acknowledged.  SmsBackfillWorker*)
(* and SmsHistoryReader have the shape of CallLogSyncWorker and            *)
(* CallLogReader, with messages for calls.                                 *)
(*                                                                         *)
(* The server's side of a keyed POST is module Idempotency with a whole     *)
(* request as one step: the device posts one row at a time.                *)
(*                                                                         *)
(* A call has at most one row at any time (recordIfNew), so rows and keys   *)
(* are functions of the calls.  A row staged anew has a new key, and of the *)
(* key of a row that is gone nobody asks any more: key, print and posted    *)
(* are of the present row.  The table is below OUTBOX_UNSYNCED_CAP: nothing *)
(* is evicted.                                                             *)
(***************************************************************************)
EXTENDS Naturals, FiniteSets

CONSTANTS
    LastCall,      \* bound: calls are numbered by their time, 1 .. LastCall
    Limit,         \* how many entries CallLogReader returns at most, 50
    Readers,       \* the unique work chains of CallLogSyncWorker
    MaxKills       \* bound: how often Android kills the app's process

ASSUME BoundAssumption == LastCall \in Nat /\ MaxKills \in Nat
ASSUME LimitAssumption == Limit \in Nat \ {0}

VARIABLES
    calls,       \* how many calls the call log holds
    withheld,    \* calls whose entry has no number
    watermark,   \* lastCallLogTimestamp
    missed,      \* calls a watermark passed that no read brought to the outbox
    reader,      \* what each chain has read and not staged yet
    row,         \* the state of each call's row
    linked,      \* the row has a matchedContactId
    sync,        \* the sync worker: rows to post, answer to the last post
    kills,
    \* the server
    contactLive, \* the matched contact exists
    key,         \* the idempotency row under each outbox row's key
    print,       \* the request it was claimed with: linked or not
    posted,      \* activities made under the key the server remembers
    reported     \* whether any activity was made from the call

log == <<calls, withheld>>
device == <<log, watermark, missed, reader, row, linked, sync, kills>>
server == <<contactLive, key, print, posted, reported>>
vars == <<device, server>>

Calls == 1 .. LastCall
Counts == 0 .. 2       \* two stands for "more than one"

Idle == [busy |-> FALSE, todo |-> {}, left |-> {}, top |-> 0]
Asleep == [busy |-> FALSE, batch |-> {}, result |-> "none"]

Chains == [busy : BOOLEAN, todo : SUBSET Calls, left : SUBSET Calls, top : 0 .. LastCall]
Syncs == [busy : BOOLEAN, batch : SUBSET Calls, result : {"none", "ok", "gone", "failed"}]

TypeOK ==
    /\ calls \in 0 .. LastCall /\ watermark \in 0 .. LastCall /\ kills \in 0 .. MaxKills
    /\ withheld \in SUBSET Calls /\ missed \in SUBSET Calls
    /\ reader \in [Readers -> Chains]
    /\ row \in [Calls -> {"absent", "staged", "synced"}]
    /\ sync \in Syncs
    /\ linked \in [Calls -> BOOLEAN] /\ print \in [Calls -> BOOLEAN]
    /\ contactLive \in BOOLEAN
    /\ key \in [Calls -> {"free", "pending", "completed"}]
    /\ posted \in [Calls -> Counts] /\ reported \in [Calls -> BOOLEAN]

-----------------------------------------------------------------------------
Init == /\ calls = 0 /\ watermark = 0 /\ kills = 0
        /\ withheld = {} /\ missed = {}
        /\ reader = [r \in Readers |-> Idle]
        /\ row = [c \in Calls |-> "absent"]
        /\ linked = [c \in Calls |-> FALSE]
        /\ sync = Asleep
        /\ contactLive = TRUE
        /\ key = [c \in Calls |-> "free"]
        /\ print = [c \in Calls |-> FALSE]
        /\ posted = [c \in Calls |-> 0]
        /\ reported = [c \in Calls |-> FALSE]

(* A call ends and appears in the call log, perhaps without a number. *)
Call == /\ calls < LastCall
        /\ calls' = calls + 1
        /\ withheld' \in {withheld, withheld \cup {calls + 1}}
        /\ UNCHANGED <<watermark, missed, reader, row, linked, sync, kills, server>>

First(s) == CHOOSE c \in s : \A d \in s : c <= d
Latest(s) == CHOOSE c \in s : \A d \in s : d <= c

(* The entries of the call log after the watermark. *)
Entries == {c \in Calls : watermark < c /\ c <= calls}

(* readSince: ORDER BY date DESC LIMIT. *)
Newest == {c \in Entries : calls < c + Limit}

(* CallLogSyncWorker.doWork reads the newest entries after the watermark; what
   it leaves out is remembered here only. *)
ReadLog(r) ==
        /\ ~reader[r].busy
        /\ Entries # {}
        /\ reader' = [reader EXCEPT ![r] =
                        [busy |-> TRUE, todo |-> Newest, left |-> Entries \ Newest,
                         top |-> Latest(Newest)]]
        /\ UNCHANGED <<log, watermark, missed, row, linked, sync, kills, server>>

(* The loop of doWork, the newest entry first.  An entry without a number is
   passed over.  recordIfNew: one transaction that stages the entry under a new
   key, unless a row with its kind, number and time is in the table. *)
Stage(r) ==
    LET c == Latest(reader[r].todo)
    IN  /\ reader[r].todo # {}
        /\ reader' = [reader EXCEPT ![r].todo = @ \ {c}]
        /\ IF c \in withheld \/ row[c] # "absent"
           THEN UNCHANGED <<row, linked>>
           ELSE /\ row' = [row EXCEPT ![c] = "staged"]
                /\ \E m \in BOOLEAN : linked' = [linked EXCEPT ![c] = m]
        /\ UNCHANGED <<log, watermark, missed, sync, kills, server>>

(* Mutant: the watermark is advanced before everything is staged. *)
AnyProgress(r) == TRUE

AllStaged(r) == reader[r].todo = {}

(* The call is in the outbox or on the server. *)
Sent(c) == row[c] = "staged" \/ reported[c]

(* setLastCallLogTimestamp: past all that was read, and so past all that was
   left out of it. *)
AdvanceWatermark(r) ==
    /\ reader[r].busy
    /\ AllStaged(r)
    /\ watermark' = reader[r].top
    /\ missed' = missed \cup {c \in reader[r].left : ~Sent(c)}
    /\ reader' = [reader EXCEPT ![r] = Idle]
    /\ UNCHANGED <<log, row, linked, sync, kills, server>>

-----------------------------------------------------------------------------
(* InteractionSyncWorker.doWork takes the unsynced rows, if there are any. *)
StartSync == /\ ~sync.busy
             /\ \E c \in Calls : row[c] = "staged"
             /\ sync' = [busy |-> TRUE, result |-> "none",
                         batch |-> {c \in Calls : row[c] = "staged"}]
             /\ UNCHANGED <<log, watermark, missed, reader, row, linked, kills, server>>

Next2(n) == IF n < 2 THEN n + 1 ELSE 2

Answer(s) == sync' = [sync EXCEPT !.result = s]

(* Mutant: the worker makes up a key for every attempt. *)
FreshKey(c) == "free"

KeyState(c) == key[c]

Claimed(c, state) == /\ key' = [key EXCEPT ![c] = state]
                     /\ print' = [print EXCEPT ![c] = linked[c]]

(* The claim succeeds and the handler finds its contact, or needs none: the
   activity is committed.  The row of the key is completed, left pending by a
   server that dies, or dropped when appending the participants fails; only in
   the first case may the answer arrive. *)
PostCreates(c) ==
    /\ KeyState(c) = "free"
    /\ linked[c] => contactLive
    /\ reported' = [reported EXCEPT ![c] = TRUE]
    /\ \/ /\ Claimed(c, "completed")
          /\ posted' = [posted EXCEPT ![c] = Next2(@)]
          /\ Answer("ok") \/ Answer("failed")
       \/ /\ Claimed(c, "pending")
          /\ posted' = [posted EXCEPT ![c] = Next2(@)]
          /\ Answer("failed")
       \/ /\ linked[c]
          /\ Answer("failed")
          /\ UNCHANGED <<key, print, posted>>

(* The claim succeeds and the handler does not commit: 404 for the contact,
   after which the row of the key is dropped, or the server dies. *)
PostRefused(c) ==
    /\ KeyState(c) = "free"
    /\ \/ /\ linked[c] /\ ~contactLive
          /\ Answer("gone") \/ Answer("failed")
          /\ UNCHANGED <<key, print>>
       \/ Claimed(c, "pending") /\ Answer("failed")
    /\ UNCHANGED <<posted, reported>>

(* The key is taken: a replay for the same request, else 409 or 422; or the
   request does not reach the server. *)
PostAnswered(c) ==
    /\ \/ KeyState(c) = "completed" /\ print[c] = linked[c] /\ Answer("ok")
       \/ Answer("failed")
    /\ UNCHANGED <<key, print, posted, reported>>

(* createFor: one keyed POST for the row at the head of the batch. *)
Post == /\ sync.batch # {}
        /\ sync.result = "none"
        /\ LET c == First(sync.batch)
           IN  PostCreates(c) \/ PostRefused(c) \/ PostAnswered(c)
        /\ UNCHANGED <<log, watermark, missed, reader, row, linked, kills, contactLive>>

(* Mutant: 404 is a failure like any other. *)
NeverStale(c) == FALSE

(* shouldDropStaleContactLink *)
StaleLink(c) == sync.result = "gone" /\ linked[c]

DropLink == LET c == First(sync.batch)
            IN  /\ sync.batch # {}
                /\ StaleLink(c)
                /\ linked' = [linked EXCEPT ![c] = FALSE]
                /\ Answer("none")
                /\ UNCHANGED <<log, watermark, missed, reader, row, kills, server>>

Delivered == sync.result = "ok"

(* markSynced on success; a failed row stays for the next run. *)
CloseRow ==
    LET c == First(sync.batch)
    IN  /\ sync.batch # {}
        /\ sync.result # "none"
        /\ ~StaleLink(c)
        /\ row' = [row EXCEPT ![c] = IF Delivered THEN "synced" ELSE @]
        /\ sync' = [sync EXCEPT !.batch = @ \ {c}, !.result = "none"]
        /\ UNCHANGED <<log, watermark, missed, reader, linked, kills, server>>

(* deleteSynced: the rows go, and with them all that bears their keys. *)
FinishSync ==
    LET of(f, none) == [c \in Calls |-> IF row[c] = "synced" THEN none ELSE f[c]]
    IN  /\ sync.busy
        /\ sync.batch = {}
        /\ row' = of(row, "absent")
        /\ linked' = of(linked, FALSE)
        /\ sync' = Asleep
        /\ key' = of(key, "free")
        /\ print' = of(print, FALSE)
        /\ posted' = of(posted, 0)
        /\ UNCHANGED <<log, watermark, missed, reader, kills, contactLive, reported>>

-----------------------------------------------------------------------------
(* Android kills the app; WorkManager starts every worker over later. *)
Kill == /\ kills < MaxKills
        /\ sync.busy \/ \E r \in Readers : reader[r].busy
        /\ kills' = kills + 1
        /\ reader' = [r \in Readers |-> Idle]
        /\ sync' = Asleep
        /\ UNCHANGED <<log, watermark, missed, row, linked, server>>

Forgettable(c) == key[c] # "free"

(* PurgeExpiredIdempotencyKeys: a day has passed since the key was claimed. *)
ForgetKey(c) == /\ Forgettable(c)
                /\ key' = [key EXCEPT ![c] = "free"]
                /\ print' = [print EXCEPT ![c] = FALSE]
                /\ posted' = [posted EXCEPT ![c] = 0]
                /\ UNCHANGED <<device, contactLive, reported>>

(* The matched contact is deleted on the server. *)
DeleteContact == /\ contactLive
                 /\ contactLive' = FALSE
                 /\ UNCHANGED <<device, key, print, posted, reported>>

Next == \/ Call \/ Kill \/ DeleteContact
        \/ \E r \in Readers : ReadLog(r) \/ Stage(r) \/ AdvanceWatermark(r)
        \/ StartSync \/ Post \/ DropLink \/ CloseRow \/ FinishSync
        \/ \E c \in Calls : ForgetKey(c)

(* WorkManager runs the periodic work, the purge runs every six hours, and a
   device that keeps trying gets through in the end. *)
Fairness ==
    /\ \A r \in Readers : WF_vars(ReadLog(r) \/ Stage(r) \/ AdvanceWatermark(r))
    /\ WF_vars(StartSync \/ Post \/ DropLink \/ CloseRow \/ FinishSync)
    /\ \A c \in Calls :
          /\ SF_vars(Post /\ First(sync.batch) = c /\ sync'.result # "failed")
          /\ WF_vars(ForgetKey(c) /\ key[c] = "pending")

Spec == Init /\ [][Next]_vars

FairSpec == Spec /\ Fairness

-----------------------------------------------------------------------------
(* A call the watermark has passed is in the outbox or on the server, unless
   its number was withheld or a chain that stored the watermark had more to
   read than its limit: no overlapping chain that moves the watermark back and
   forth, no killed process and no lost answer drops it. *)
NothingLost ==
    \A c \in Calls : c <= watermark => Sent(c) \/ c \in withheld \cup missed

(* A row makes one activity while the server remembers its key, whatever
   answers are lost and however often it is posted. *)
OneActivityWhileRemembered == \A c \in Calls : posted[c] <= 1

(* Every call that has a number and was not left out is reported in the end: a
   deleted contact or a key left pending by a crash does not leave its row
   stuck in the queue (issue #479). *)
EveryCallIsReported ==
    \A c \in Calls :
        (calls >= c) ~> (reported[c] \/ c \in withheld \cup missed)

-----------------------------------------------------------------------------
(* Claims of the documentation that the code does not keep; no run names them. *)

(* recordIfNew: "a missed watermark advance can only ever under-report, never
   double-report"; a call that was reported is staged again by a chain that had
   read it before. *)
NeverStagedAgain ==
    [][\A c \in Calls : reported[c] /\ row[c] = "absent" => row'[c] = "absent"]_vars

(* TrackingWorkerScheduler: the periodic catch-up "is the recovery path for
   broadcasts that never fired"; of more calls than Limit since the last run it
   recovers the newest only, and the watermark passes the others. *)
CatchUpRecovers ==
    \A c \in Calls \ withheld : c <= watermark => Sent(c)
=============================================================================
