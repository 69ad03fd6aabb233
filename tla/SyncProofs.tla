------------------------------ MODULE SyncProofs ------------------------------
(***************************************************************************)
(* Proofs about Outbox and ContactSync: two sides that bring their data     *)
(* together over a connection that fails.                                   *)
(*                                                                         *)
(* Outbox, for any number of calls, limit, reader chains and kills.         *)
(* NothingLost is a matter of Read: a chain that works towards a watermark  *)
(* has seen to what it has left behind, or knows that it left it out, and   *)
(* chains share the table, so that the watermark may go back and forth      *)
(* between theirs.  A row leaves the table only as synced, and Honest says  *)
(* that nobody believes a call reported that is not: neither a row, nor the *)
(* worker's answer, nor a completed key.  OneActivityWhileRemembered rests  *)
(* on the key alone: while it is free nothing was made under it.            *)
(*                                                                         *)
(* ContactSync, for any cards, hrefs and limit of a run.                    *)
(* OverwritesAreRecorded needs MineHasBase: an edit that nobody recorded    *)
(* differs from what the reconciliation will compare it with, so it is a    *)
(* conflict when it goes.  TokenTellsNoLie needs that it holds of every     *)
(* copy of the row (TokensTrue), since each may be stored, and that what a  *)
(* run was told and is not so any more (Overtaken) is still to be told by   *)
(* every one of them (ChangesAreTold).                                      *)
(***************************************************************************)
EXTENDS Outbox, ContactSync, WellFoundedInduction, TLAPS

(* The call is sent, or its loss has a name. *)
SeenTo(c) == Sent(c) \/ c \in withheld \cup missed

(* What a chain has read and need not stage any more is seen to. *)
Read == \A r \in Readers, c \in Calls :
           c <= reader[r].top /\ c \notin reader[r].todo \cup reader[r].left => SeenTo(c)

(* Whoever holds a call for reported is right. *)
Honest ==
    /\ \A c \in Calls : row[c] = "synced" \/ key[c] = "completed" => reported[c]
    /\ sync.batch # {} /\ sync.result = "ok" => reported[First(sync.batch)]

(* Nothing was made under a key that nobody holds. *)
Keyed == \A c \in Calls : key[c] = "free" => posted[c] = 0

IInv == TypeOK /\ NothingLost /\ Read /\ Honest /\ Keyed /\ OneActivityWhileRemembered

-----------------------------------------------------------------------------
Earlier == {p \in Nat \X Nat : p[1] < p[2]}

LEMMA NumbersHaveALeast == ASSUME NEW s \in SUBSET Nat, s # {}
                           PROVE  \E x \in s : \A y \in s : x <= y
<1>1. IsWellFoundedOn(Earlier, Nat)
  <2>1. OpToRel(<, Nat) = Earlier
    BY DEF OpToRel, Earlier
  <2> QED
    BY <2>1, NatLessThanWellFounded, Zenon
<1>2. PICK x \in s : \A y \in s : <<y, x>> \notin Earlier
  BY <1>1, WFMin
<1>3. ASSUME NEW y \in s PROVE x <= y
  <2>1. <<y, x>>[1] = y /\ <<y, x>>[2] = x /\ <<y, x>> \in Nat \X Nat
    OBVIOUS
  <2>2. ~ (y < x)
    BY <1>2, <2>1, Zenon DEF Earlier
  <2> QED
    BY <2>2
<1> QED
  BY <1>3

(* The operator of InteractionSyncWorker that takes the head of its list takes
   one of its entries. *)
LEMMA FirstIn == ASSUME NEW s \in SUBSET Calls, s # {}
                 PROVE  First(s) \in s
<1>1. s \in SUBSET Nat
  BY DEF Calls
<1> QED
  BY <1>1, NumbersHaveALeast DEF First

(* And that of CallLogSyncWorker, the newest first. *)
LEMMA LatestIn == ASSUME NEW s \in SUBSET Calls, s # {}
                  PROVE  Latest(s) \in s
<1> DEFINE gaps == {LastCall - c : c \in s}
<1>1. \A c \in s : c \in Nat /\ LastCall - c \in Nat
  BY BoundAssumption DEF Calls
<1>2. gaps \in SUBSET Nat /\ gaps # {}
  BY <1>1
<1>3. PICK g \in gaps : \A h \in gaps : g <= h
  BY <1>2, NumbersHaveALeast
<1>4. PICK x \in s : g = LastCall - x
  BY <1>3
<1>5. ASSUME NEW d \in s PROVE d <= x
  <2>1. LastCall - x <= LastCall - d
    BY <1>3, <1>4
  <2> QED
    BY <1>1, <2>1, BoundAssumption
<1> QED
  BY <1>5 DEF Latest

(* A read brings some of the entries, and those it leaves out are older. *)
LEMMA NewestIn ==
    ASSUME TypeOK, Entries # {}
    PROVE  /\ Newest \in SUBSET Calls /\ Entries \in SUBSET Calls
           /\ Latest(Newest) \in 0 .. LastCall
           /\ Latest(Newest) <= calls
<1>1. calls \in Entries
  BY BoundAssumption DEF TypeOK, Calls, Entries
<1>2. calls \in Newest /\ Newest \subseteq Entries
  BY <1>1, BoundAssumption, LimitAssumption DEF Newest, TypeOK
<1>3. Newest \in SUBSET Calls /\ Latest(Newest) \in Newest
  BY <1>2, LatestIn DEF Entries
<1>4. Latest(Newest) \in Calls /\ Latest(Newest) <= calls
  BY <1>2, <1>3 DEF Entries
<1>5. Entries \in SUBSET Calls
  BY DEF Entries
<1> QED
  BY <1>3, <1>4, <1>5, BoundAssumption DEF Calls

LEMMA TypeStep == TypeOK /\ [Next]_vars => TypeOK'
<1> SUFFICES ASSUME TypeOK, [Next]_vars PROVE TypeOK'
  OBVIOUS
<1> USE DEF TypeOK
<1>0. /\ \A n \in Counts : Next2(n) \in Counts
      /\ 0 \in Counts /\ 0 \in 0 .. LastCall
  BY BoundAssumption DEF Next2, Counts
<1>a. Idle \in Chains /\ Asleep \in Syncs
  BY <1>0 DEF Idle, Asleep, Chains, Syncs
<1>1. CASE Call
  <2>1. withheld' \in SUBSET Calls /\ calls' \in 0 .. LastCall
    BY <1>1, BoundAssumption DEF Call, Calls
  <2> QED
    BY <1>1, <2>1 DEF Call, server
<1>2. CASE Kill
  <2>1. kills' \in 0 .. MaxKills
    BY <1>2, BoundAssumption DEF Kill
  <2> QED
    BY <1>2, <1>a, <2>1 DEF Kill, log, server
<1>3. CASE DeleteContact
  BY <1>3 DEF DeleteContact, device, log
<1>4. ASSUME NEW r \in Readers, ReadLog(r) PROVE TypeOK'
  <2>1. /\ Newest \in SUBSET Calls /\ Entries \ Newest \in SUBSET Calls
        /\ Latest(Newest) \in 0 .. LastCall
    BY <1>4, NewestIn DEF ReadLog
  <2>2. [busy |-> TRUE, todo |-> Newest, left |-> Entries \ Newest,
         top |-> Latest(Newest)] \in Chains
    BY <2>1 DEF Chains
  <2> QED
    BY <1>4, <2>2 DEF ReadLog, log, server
<1>5. ASSUME NEW r \in Readers, Stage(r) PROVE TypeOK'
  <2> DEFINE c == Latest(reader[r].todo)
  <2>1. c \in Calls
    BY <1>5, LatestIn DEF Stage, Chains
  <2>2. PICK new : new = [reader[r] EXCEPT !.todo = @ \ {c}]
    OBVIOUS
  <2>3. new \in Chains
    <3>1. reader[r] \in Chains /\ reader[r].todo \ {c} \in SUBSET Calls
      BY DEF Chains
    <3> QED
      BY <2>2, <3>1 DEF Chains
  <2>4. reader' = [reader EXCEPT ![r] = new]
    BY <1>5, <2>2 DEF Stage
  <2>5. row' \in [Calls -> {"absent", "staged", "synced"}]
    BY <1>5, <2>1 DEF Stage
  <2>6. linked' \in [Calls -> BOOLEAN]
    <3>1. linked' = linked \/ \E m \in BOOLEAN : linked' = [linked EXCEPT ![c] = m]
      BY <1>5 DEF Stage
    <3> HIDE DEF c
    <3> QED
      BY <2>1, <3>1
  <2>7. UNCHANGED <<log, watermark, missed, sync, kills, server>>
    BY <1>5 DEF Stage
  <2> QED
    BY <2>3, <2>4, <2>5, <2>6, <2>7 DEF log, server
<1>6. ASSUME NEW r \in Readers, AdvanceWatermark(r) PROVE TypeOK'
  <2>1. /\ reader[r].top \in 0 .. LastCall
        /\ {c \in reader[r].left : ~Sent(c)} \in SUBSET Calls
    BY DEF Chains
  <2> QED
    BY <1>6, <1>a, <2>1 DEF AdvanceWatermark, log, server
<1>7. CASE StartSync
  <2>1. sync' \in Syncs
    BY <1>7 DEF StartSync, Syncs
  <2> QED
    BY <1>7, <2>1 DEF StartSync, log, server
<1>8. CASE Post
  <2> DEFINE c == First(sync.batch)
  <2>1. c \in Calls
    BY <1>8, FirstIn DEF Post, Syncs
  <2>2. PostCreates(c) \/ PostRefused(c) \/ PostAnswered(c)
    BY <1>8 DEF Post
  <2>3. sync' \in Syncs
    BY <2>2 DEF PostCreates, PostRefused, PostAnswered, Answer, Syncs
  <2>4. key' \in [Calls -> {"free", "pending", "completed"}]
    BY <2>1, <2>2 DEF PostCreates, PostRefused, PostAnswered, Claimed
  <2>5. print' \in [Calls -> BOOLEAN]
    BY <2>1, <2>2 DEF PostCreates, PostRefused, PostAnswered, Claimed
  <2>6. posted' \in [Calls -> Counts]
    <3>1. posted' = posted \/ posted' = [posted EXCEPT ![c] = Next2(@)]
      BY <2>2 DEF PostCreates, PostRefused, PostAnswered
    <3>2. Next2(posted[c]) \in Counts
      BY <1>0, <2>1
    <3> QED
      BY <3>1, <3>2
  <2>7. reported' \in [Calls -> BOOLEAN]
    BY <2>2 DEF PostCreates, PostRefused, PostAnswered
  <2> QED
    BY <1>8, <2>3, <2>4, <2>5, <2>6, <2>7 DEF Post, log
<1>9. CASE DropLink
  <2>1. sync' \in Syncs
    BY <1>9 DEF DropLink, Answer, Syncs
  <2>2. linked' \in [Calls -> BOOLEAN]
    BY <1>9 DEF DropLink
  <2> QED
    BY <1>9, <2>1, <2>2 DEF DropLink, log, server
<1>10. CASE CloseRow
  <2>1. row' \in [Calls -> {"absent", "staged", "synced"}]
    BY <1>10 DEF CloseRow
  <2>2. sync' \in Syncs
    BY <1>10 DEF CloseRow, Syncs
  <2> QED
    BY <1>10, <2>1, <2>2 DEF CloseRow, log, server
<1>11. CASE FinishSync
  <2>1. /\ row' \in [Calls -> {"absent", "staged", "synced"}]
        /\ linked' \in [Calls -> BOOLEAN] /\ print' \in [Calls -> BOOLEAN]
    BY <1>11 DEF FinishSync
  <2>2. key' \in [Calls -> {"free", "pending", "completed"}] /\ posted' \in [Calls -> Counts]
    BY <1>0, <1>11 DEF FinishSync
  <2> QED
    BY <1>11, <1>a, <2>1, <2>2 DEF FinishSync, log
<1>12. ASSUME NEW c \in Calls, ForgetKey(c) PROVE TypeOK'
  BY <1>0, <1>12 DEF ForgetKey, device, log
<1>13. CASE UNCHANGED vars
  BY <1>13 DEF vars, device, log, server
<1> QED
  BY <1>1, <1>2, <1>3, <1>4, <1>5, <1>6, <1>7, <1>8, <1>9, <1>10, <1>11, <1>12, <1>13 DEF Next

-----------------------------------------------------------------------------
(* What is reported stays reported. *)
LEMMA PostReports ==
    ASSUME TypeOK, Post
    PROVE  \A c \in Calls : reported[c] => reported'[c]
<1> DEFINE h == First(sync.batch)
<1>1. h \in Calls
  BY FirstIn DEF Post, TypeOK, Syncs
<1>2. PostCreates(h) \/ PostRefused(h) \/ PostAnswered(h)
  BY DEF Post
<1> QED
  BY <1>1, <1>2 DEF PostCreates, PostRefused, PostAnswered, TypeOK

(* What is sent stays sent, and what is seen to is seen to for good. *)
LEMMA SentStays == TypeOK /\ Honest /\ [Next]_vars => \A c \in Calls : Sent(c) => Sent(c)'
<1> SUFFICES ASSUME TypeOK, Honest, [Next]_vars, NEW c \in Calls, Sent(c)
             PROVE  Sent(c)'
  OBVIOUS
<1> USE DEF Sent
<1>1. CASE Call \/ Kill \/ DeleteContact
  BY <1>1 DEF Call, Kill, DeleteContact, server, device
<1>2. ASSUME NEW r \in Readers, ReadLog(r) \/ AdvanceWatermark(r) PROVE Sent(c)'
  BY <1>2 DEF ReadLog, AdvanceWatermark, server
<1>3. ASSUME NEW r \in Readers, Stage(r) PROVE Sent(c)'
  BY <1>3 DEF Stage, server, TypeOK
<1>4. CASE Post
  BY <1>4, PostReports DEF Post
<1>5. CASE StartSync \/ DropLink
  BY <1>5 DEF StartSync, DropLink, server
<1>6. CASE CloseRow
  <2> DEFINE h == First(sync.batch)
  <2>1. c # h \/ ~Delivered => row'[c] = row[c]
    BY <1>6 DEF CloseRow, TypeOK
  <2>2. Delivered => reported[h]
    BY <1>6 DEF CloseRow, Delivered, Honest
  <2> QED
    BY <1>6, <2>1, <2>2 DEF CloseRow, server
<1>7. CASE FinishSync
  BY <1>7 DEF FinishSync, Honest
<1>8. ASSUME NEW d \in Calls, ForgetKey(d) PROVE Sent(c)'
  BY <1>8 DEF ForgetKey, device
<1>9. CASE UNCHANGED vars
  BY <1>9 DEF vars, device, server
<1> QED
  BY <1>1, <1>2, <1>3, <1>4, <1>5, <1>6, <1>7, <1>8, <1>9 DEF Next

LEMMA SeenToStays ==
    TypeOK /\ Honest /\ [Next]_vars => \A c \in Calls : SeenTo(c) => SeenTo(c)'
<1> SUFFICES ASSUME TypeOK, Honest, [Next]_vars
             PROVE  withheld \subseteq withheld' /\ missed \subseteq missed'
  BY SentStays DEF SeenTo
<1> QED
  BY DEF Next, vars, device, log, server, Call, Kill, DeleteContact, ReadLog, Stage,
         AdvanceWatermark, StartSync, Post, DropLink, CloseRow, FinishSync, ForgetKey

LEMMA HonestStep == TypeOK /\ Honest /\ [Next]_vars => Honest'
<1> SUFFICES ASSUME TypeOK, Honest, [Next]_vars PROVE Honest'
  OBVIOUS
<1>1. CASE Call \/ DeleteContact
  BY <1>1 DEF Call, DeleteContact, server, device, Honest
<1>2. CASE Kill
  BY <1>2 DEF Kill, server, Honest, Asleep
<1>3. ASSUME NEW r \in Readers, ReadLog(r) \/ AdvanceWatermark(r) PROVE Honest'
  BY <1>3 DEF ReadLog, AdvanceWatermark, server, Honest
<1>4. ASSUME NEW r \in Readers, Stage(r) PROVE Honest'
  <2>1. UNCHANGED <<sync, key, reported>>
    BY <1>4 DEF Stage, server
  <2>2. \A c \in Calls : row'[c] = "synced" => row[c] = "synced"
    BY <1>4 DEF Stage, TypeOK
  <2> QED
    BY <2>1, <2>2 DEF Honest
<1>5. CASE Post
  <2> DEFINE h == First(sync.batch)
  <2>1. h \in Calls
    BY <1>5, FirstIn DEF Post, TypeOK, Syncs
  <2>2. PostCreates(h) \/ PostRefused(h) \/ PostAnswered(h)
    BY <1>5 DEF Post
  <2>4. sync'.batch = sync.batch /\ row' = row
    BY <1>5, <2>2 DEF Post, PostCreates, PostRefused, PostAnswered, Answer, TypeOK, Syncs
  <2>5. CASE PostCreates(h)
    <3>1. reported'[h]
      BY <2>1, <2>5 DEF PostCreates, TypeOK
    <3>2. \A c \in Calls : c # h => key'[c] = key[c] /\ reported'[c] = reported[c]
      BY <2>1, <2>5 DEF PostCreates, Claimed, TypeOK
    <3> QED
      BY <2>4, <3>1, <3>2 DEF Honest
  <2>6. CASE PostRefused(h)
    <3>1. sync'.result # "ok"
      BY <2>6 DEF PostRefused, Answer, TypeOK, Syncs
    <3>2. \A c \in Calls : key'[c] = "completed" => key[c] = "completed"
      BY <2>1, <2>6 DEF PostRefused, Claimed, TypeOK
    <3>3. reported' = reported
      BY <2>6 DEF PostRefused
    <3> QED
      BY <2>4, <3>1, <3>2, <3>3 DEF Honest
  <2>7. CASE PostAnswered(h)
    <3>1. sync'.result = "ok" => reported[h]
      BY <2>1, <2>7 DEF PostAnswered, KeyState, Answer, Honest, TypeOK, Syncs
    <3>2. UNCHANGED <<key, reported>>
      BY <2>7 DEF PostAnswered
    <3> QED
      BY <2>4, <3>1, <3>2 DEF Honest
  <2> QED
    BY <2>2, <2>5, <2>6, <2>7
<1>6. CASE StartSync
  BY <1>6 DEF StartSync, server, Honest
<1>7. CASE DropLink
  BY <1>7 DEF DropLink, Answer, server, Honest, TypeOK
<1>8. CASE CloseRow
  <2> DEFINE h == First(sync.batch)
  <2>1. sync'.result = "none" /\ UNCHANGED <<key, reported>>
    BY <1>8 DEF CloseRow, server, TypeOK
  <2>2. Delivered => reported[h]
    BY <1>8 DEF CloseRow, Delivered, Honest
  <2>3. \A c \in Calls : row'[c] = "synced" => row[c] = "synced" \/ (c = h /\ Delivered)
    BY <1>8 DEF CloseRow, TypeOK
  <2> QED
    BY <2>1, <2>2, <2>3 DEF Honest
<1>9. CASE FinishSync
  BY <1>9 DEF FinishSync, Honest, Asleep
<1>10. ASSUME NEW d \in Calls, ForgetKey(d) PROVE Honest'
  BY <1>10 DEF ForgetKey, device, Honest, TypeOK
<1>11. CASE UNCHANGED vars
  BY <1>11 DEF vars, device, server, Honest
<1> QED
  BY <1>1, <1>2, <1>3, <1>4, <1>5, <1>6, <1>7, <1>8, <1>9, <1>10, <1>11 DEF Next

LEMMA ReadStep == TypeOK /\ NothingLost /\ Honest /\ Read /\ [Next]_vars => Read' /\ NothingLost'
<1> SUFFICES ASSUME TypeOK, NothingLost, Honest, Read, [Next]_vars
             PROVE  Read' /\ NothingLost'
  OBVIOUS
<1>0. \A c \in Calls : SeenTo(c) => SeenTo(c)'
  BY SeenToStays
<1>a. \A c \in Calls : c <= watermark => SeenTo(c)
  BY DEF NothingLost, SeenTo
<1>b. SUFFICES /\ Read'
               /\ \A c \in Calls : c <= watermark' => SeenTo(c)'
  BY DEF NothingLost, SeenTo
<1> USE DEF Read
<1>c. \A c \in Calls : ~(c <= 0)
  BY BoundAssumption DEF Calls
<1>1. ASSUME UNCHANGED <<watermark, reader>>
      PROVE  Read' /\ \A c \in Calls : c <= watermark' => SeenTo(c)'
  BY <1>0, <1>a, <1>1
<1>2. CASE Kill
  BY <1>0, <1>a, <1>c, <1>2 DEF Kill, Idle
<1>3. ASSUME NEW r \in Readers, ReadLog(r)
      PROVE  Read' /\ \A c \in Calls : c <= watermark' => SeenTo(c)'
  <2>1. Latest(Newest) \in 0 .. LastCall /\ Latest(Newest) <= calls
    BY <1>3, NewestIn DEF ReadLog
  <2>2. watermark' = watermark
    BY <1>3 DEF ReadLog
  <2>3. \A c \in Calls : c <= Latest(Newest) /\ c \notin Newest \cup (Entries \ Newest)
                            => c <= watermark
    BY <2>1, BoundAssumption DEF Calls, TypeOK, Entries
  <2>4. ASSUME NEW q \in Readers, NEW c \in Calls,
               c <= reader'[q].top, c \notin reader'[q].todo \cup reader'[q].left
        PROVE  SeenTo(c)'
    <3>1. CASE q = r
      <4>1. /\ reader'[r].todo = Newest /\ reader'[r].left = Entries \ Newest
            /\ reader'[r].top = Latest(Newest)
        BY <1>3 DEF ReadLog, TypeOK
      <4> QED
        BY <1>0, <1>a, <2>3, <2>4, <3>1, <4>1
    <3>2. CASE q # r
      <4>1. reader'[q] = reader[q]
        BY <1>3, <3>2 DEF ReadLog, TypeOK
      <4> QED
        BY <1>0, <2>4, <4>1
    <3> QED
      BY <3>1, <3>2
  <2> QED
    BY <1>0, <1>a, <2>2, <2>4
<1>4. ASSUME NEW r \in Readers, Stage(r)
      PROVE  Read' /\ \A c \in Calls : c <= watermark' => SeenTo(c)'
  <2>1. PICK h \in Calls : h = Latest(reader[r].todo)
    BY <1>4, LatestIn DEF Stage, TypeOK, Chains
  <2>2. h \in withheld \/ row'[h] # "absent"
    BY <1>4, <2>1 DEF Stage, TypeOK
  <2>3. UNCHANGED <<withheld, watermark>> /\ reported' = reported
    BY <1>4 DEF Stage, log, server
  <2>4. row'[h] # "absent" => row'[h] = "staged" \/ reported[h]
    BY <1>4, <2>1 DEF Stage, Honest, TypeOK
  <2>5. SeenTo(h)'
    BY <2>2, <2>3, <2>4 DEF SeenTo, Sent
  <2>6. \A q \in Readers : /\ reader'[q].top = reader[q].top
                           /\ reader'[q].left = reader[q].left
                           /\ \A c \in Calls : c # h /\ c \notin reader'[q].todo
                                                  => c \notin reader[q].todo
    BY <1>4, <2>1 DEF Stage, TypeOK
  <2> QED
    BY <1>0, <1>a, <2>3, <2>5, <2>6
<1>5. ASSUME NEW r \in Readers, AdvanceWatermark(r)
      PROVE  Read' /\ \A c \in Calls : c <= watermark' => SeenTo(c)'
  <2>1. /\ watermark' = reader[r].top /\ reader[r].todo = {}
        /\ missed' = missed \cup {c \in reader[r].left : ~Sent(c)}
    BY <1>5 DEF AdvanceWatermark, AllStaged
  <2>2. ASSUME NEW c \in Calls, c <= watermark' PROVE SeenTo(c)'
    <3>1. CASE c \in reader[r].left
      BY <1>0, <2>1, <3>1 DEF SeenTo
    <3>2. CASE c \notin reader[r].left
      BY <1>0, <2>1, <2>2, <3>2
    <3> QED
      BY <3>1, <3>2
  <2>3. reader' = [reader EXCEPT ![r] = Idle]
    BY <1>5 DEF AdvanceWatermark
  <2>4. \A q \in Readers : q # r => reader'[q] = reader[q]
    BY <2>3 DEF TypeOK
  <2>5. reader'[r].top = 0
    BY <2>3 DEF TypeOK, Idle
  <2> QED
    BY <1>0, <1>c, <2>2, <2>4, <2>5
<1>6. CASE Call \/ DeleteContact \/ StartSync \/ Post \/ DropLink \/ CloseRow \/ FinishSync
  BY <1>1, <1>6 DEF Call, DeleteContact, StartSync, Post, DropLink, CloseRow, FinishSync, device
<1>7. ASSUME NEW d \in Calls, ForgetKey(d)
      PROVE  Read' /\ \A c \in Calls : c <= watermark' => SeenTo(c)'
  BY <1>1, <1>7 DEF ForgetKey, device
<1>8. CASE UNCHANGED vars
  BY <1>1, <1>8 DEF vars, device
<1> QED
  BY <1>b, <1>2, <1>3, <1>4, <1>5, <1>6, <1>7, <1>8 DEF Next

LEMMA KeyedStep ==
    TypeOK /\ Keyed /\ OneActivityWhileRemembered /\ [Next]_vars
        => Keyed' /\ OneActivityWhileRemembered'
<1> SUFFICES ASSUME TypeOK, Keyed, OneActivityWhileRemembered, [Next]_vars
             PROVE  Keyed' /\ OneActivityWhileRemembered'
  OBVIOUS
<1> USE DEF Keyed, OneActivityWhileRemembered
<1>1. ASSUME UNCHANGED <<key, posted>>
      PROVE  Keyed' /\ OneActivityWhileRemembered'
  BY <1>1
<1>2. CASE Post
  <2> DEFINE h == First(sync.batch)
  <2>1. h \in Calls
    BY <1>2, FirstIn DEF Post, TypeOK, Syncs
  <2>2. CASE PostCreates(h)
    <3>1. \A c \in Calls : c # h => key'[c] = key[c] /\ posted'[c] = posted[c]
      BY <2>1, <2>2 DEF PostCreates, Claimed, TypeOK
    <3>2. \/ key'[h] = key[h] /\ posted'[h] = posted[h]
          \/ key'[h] # "free" /\ posted'[h] = Next2(posted[h])
      BY <2>1, <2>2 DEF PostCreates, Claimed, TypeOK
    <3>3. posted[h] = 0
      BY <2>1, <2>2 DEF PostCreates, KeyState
    <3>4. Next2(0) = 1
      BY DEF Next2
    <3> QED
      BY <2>1, <3>1, <3>2, <3>3, <3>4
  <2>3. CASE PostRefused(h)
    BY <2>1, <2>3 DEF PostRefused, Claimed, TypeOK
  <2>4. CASE PostAnswered(h)
    BY <1>1, <2>4 DEF PostAnswered
  <2> QED
    BY <1>2, <2>2, <2>3, <2>4 DEF Post
<1>3. ASSUME NEW d \in Calls, ForgetKey(d) PROVE Keyed' /\ OneActivityWhileRemembered'
  BY <1>3 DEF ForgetKey, TypeOK
<1>4. CASE FinishSync
  BY <1>4 DEF FinishSync
<1>5. CASE Call \/ Kill \/ DeleteContact \/ StartSync \/ DropLink \/ CloseRow
  BY <1>1, <1>5 DEF Call, Kill, DeleteContact, StartSync, DropLink, CloseRow, server
<1>6. ASSUME NEW r \in Readers, ReadLog(r) \/ Stage(r) \/ AdvanceWatermark(r)
      PROVE  Keyed' /\ OneActivityWhileRemembered'
  BY <1>1, <1>6 DEF ReadLog, Stage, AdvanceWatermark, server
<1>7. CASE UNCHANGED vars
  BY <1>1, <1>7 DEF vars, server
<1> QED
  BY <1>2, <1>3, <1>4, <1>5, <1>6, <1>7 DEF Next

-----------------------------------------------------------------------------
(* The inductive invariant of device and server together. *)
THEOREM Invariance == Spec => []IInv
<1>1. Init => IInv
  <2> SUFFICES ASSUME Init PROVE IInv
    OBVIOUS
  <2>1. TypeOK
    BY BoundAssumption DEF Init, TypeOK, Chains, Syncs, Idle, Asleep, Counts
  <2>2. \A c \in Calls : ~(c <= 0)
    BY BoundAssumption DEF Calls
  <2>3. NothingLost /\ Read
    BY <2>2 DEF Init, NothingLost, Read, Idle
  <2>4. Honest /\ Keyed /\ OneActivityWhileRemembered
    BY DEF Init, Honest, Keyed, OneActivityWhileRemembered, Asleep
  <2> QED
    BY <2>1, <2>3, <2>4 DEF IInv
<1>2. IInv /\ [Next]_vars => IInv'
  BY TypeStep, HonestStep, ReadStep, KeyedStep DEF IInv
<1> QED
  BY <1>1, <1>2, PTL DEF Spec

(* Device and server keep their types. *)
THEOREM TypeCorrectness == Spec => []TypeOK
<1>1. IInv => TypeOK
  BY DEF IInv
<1> QED
  BY <1>1, Invariance, PTL

(* A call that the watermark has passed is lost only for want of a number or
   beyond the limit of a read: not to an overlapping chain that moves the
   watermark back and forth, nor to a kill, nor to a lost answer. *)
THEOREM NoCallIsLost == Spec => []NothingLost
<1>1. IInv => NothingLost
  BY DEF IInv
<1> QED
  BY <1>1, Invariance, PTL

(* A staged row makes one activity while the server remembers its key. *)
THEOREM OneActivityPerRow == Spec => []OneActivityWhileRemembered
<1>1. IInv => OneActivityWhileRemembered
  BY DEF IInv
<1> QED
  BY <1>1, Invariance, PTL

-----------------------------------------------------------------------------
(* As long as the URL of the subscription is not changed under a request, all
   copies of its row are of one book. *)
SameBook == /\ form # Nil => form.book = sub.book
            /\ ~crossed => /\ copy # Nil => copy.book = sub.book
                           /\ run # Nil => run.book = sub.book

(* An edit that no conflict has recorded differs from what a reconciliation
   would compare it with. *)
MineHasBase ==
    \A h \in Hrefs : mine[h] # Nil =>
        /\ contact[h] = mine[h]
        /\ link[h] # Nil
        /\ link[h].synced # Nil => link[h].synced # mine[h]
        /\ link[h].synced = Nil /\ run # Nil /\ run.phase # "reconciled"
               => run.base[h] \notin {Nil, mine[h]}

(* A link without a contact is of one the user deleted. *)
LeftLinks == \A h \in Hrefs : link[h] # Nil /\ contact[h] = Nil => h \in refused

(* What a run has gathered at each point of it. *)
InOrder ==
    run # Nil =>
        /\ run.phase # "listed" => run.updated = {}
        /\ run.phase # "fetched" => run.got = None /\ ~run.full
        /\ run.phase = "begun" => run.missed = {}
        /\ run.phase \in {"begun", "reconciled"} => run.deleted = {}

(* What the run was told of h is not so any more. *)
Overtaken(h) ==
    \/ run.got[h] \notin {Nil, Card(run.book, h)}
    \/ h \in run.deleted /\ Card(run.book, h) # Nil
    \/ h \in run.updated /\ Card(run.book, h) = Nil
    \/ run.full /\ run.got[h] = Nil /\ h \notin run.missed /\ Card(run.book, h) # Nil

(* Then every token in any copy has still to tell of h. *)
ChangesAreTold ==
    run # Nil => \A h \in Hrefs : Overtaken(h) =>
        /\ h \in sub.since /\ h \in run.since
        /\ copy # Nil => h \in copy.since
        /\ form # Nil => h \in form.since

(* Contact and link of h are as the book has it. *)
UpToDate(book, h) ==
    \/ link[h] = Nil /\ (Card(book, h) = Nil \/ h \in refused)
    \/ link[h] # Nil /\ link[h].hash = Card(book, h)

(* The copy's token has to tell of what is not up to date. *)
TokenTrue(held) ==
    held # Nil /\ held.token = held.book /\ ~crossed =>
        \A h \in Hrefs \ (held.since \cup blind) : UpToDate(held.book, h)

(* The run has still to import h, or leaves it out. *)
InWork(h) == \/ h \in run.updated \cup run.deleted \cup run.missed
             \/ run.full \/ run.got[h] # Nil

TokensTrue ==
    /\ TokenTrue(sub) /\ TokenTrue(copy) /\ TokenTrue(form)
    /\ run # Nil /\ run.token = run.book /\ ~crossed =>
           \A h \in Hrefs \ (run.since \cup blind) : InWork(h) \/ UpToDate(run.book, h)

SyncIInv == /\ SyncTypeOK /\ SameBook /\ MineHasBase /\ LeftLinks /\ InOrder
            /\ ChangesAreTold /\ TokensTrue

-----------------------------------------------------------------------------
(* The copies of the subscription's row. *)
LEMMA NoticedCopy ==
    ASSUME NEW held \in Copies \cup {Nil}, NEW h \in Hrefs
    PROVE  /\ Noticed(held, h) \in Copies \cup {Nil}
           /\ Noticed(held, h) # Nil <=> held # Nil
           /\ held # Nil => /\ Noticed(held, h).book = held.book
                           /\ Noticed(held, h).token = held.token
                           /\ Noticed(held, h).since = held.since \cup {h}
<1>1. CASE held = Nil
  BY <1>1 DEF Noticed
<1>2. CASE held # Nil
  <2>1. held \in Copies /\ Nil \notin Copies
    BY <1>2, SyncAssumption
  <2> QED BY <2>1 DEF Noticed, Copies
<1> QED BY <1>1, <1>2

LEMMA NoticedRun ==
    ASSUME NEW held \in Runs \cup {Nil}, NEW h \in Hrefs
    PROVE  /\ Noticed(held, h) \in Runs \cup {Nil}
           /\ Noticed(held, h) # Nil <=> held # Nil
           /\ held # Nil => /\ Noticed(held, h) = [held EXCEPT !.since = held.since \cup {h}]
                           /\ held \in Runs
<1>1. CASE held = Nil
  BY <1>1 DEF Noticed
<1>2. CASE held # Nil
  <2>1. held \in Runs /\ Nil \notin Runs
    BY <1>2, SyncAssumption
  <2>2. held.since \cup {h} \in SUBSET Hrefs
    BY <2>1 DEF Runs
  <2>3. [held EXCEPT !.since = held.since \cup {h}] \in Runs
    BY <2>1, <2>2 DEF Runs
  <2> QED BY <2>1, <2>3 DEF Noticed
<1> QED BY <1>1, <1>2

(* Each request of a run, and its transaction, leave it a run. *)
LEMMA RunGoesOn ==
    ASSUME SyncTypeOK,
           \/ ListChanges \/ GetChanged \/ \E keepsToken \in BOOLEAN : GetBook(keepsToken)
           \/ \E skipped \in SUBSET Hrefs : Reconcile(skipped)
    PROVE  run \in Runs /\ run' \in Runs
<1> USE SyncAssumption DEF SyncTypeOK
<1>0. run \in Runs
  BY DEF ListChanges, GetChanged, GetBook, Reconcile, InPhase
<1>5. \A book, keep : Fetched(keep, book) \in [Hrefs -> Cards \cup {Nil}]
  BY DEF Fetched, Card
<1>1. CASE ListChanges
  <2> DEFINE listed == Listing(run.book)
             initial == run.token = Nil
             told == IF initial THEN Hrefs ELSE run.since
             updated == told \cap listed
  <2>1. run \in Runs /\ listed \subseteq Hrefs /\ told \subseteq Hrefs /\ run.book \in Tokens
    BY <1>1 DEF ListChanges, InPhase, Listing, Runs, Tokens
  <2>2. run' = [run EXCEPT !.phase = IF updated = {} THEN "fetched" ELSE "listed",
                            !.updated = updated,
                            !.deleted = IF initial THEN {} ELSE told \ listed,
                            !.missed = IF initial THEN Hrefs \ listed ELSE {},
                            !.token = run.book, !.since = {}]
    BY <1>1 DEF ListChanges
  <2>3. /\ updated \in SUBSET Hrefs /\ (IF initial THEN {} ELSE told \ listed) \in SUBSET Hrefs
        /\ (IF initial THEN Hrefs \ listed ELSE {}) \in SUBSET Hrefs
        /\ (IF updated = {} THEN "fetched" ELSE "listed") \in Phases
    BY <2>1 DEF Phases
  <2> HIDE DEF updated, initial, told, listed
  <2>4. run' \in Runs
    BY <2>1, <2>2, <2>3 DEF Runs
  <2> QED BY <1>0, <2>4
<1>2. CASE GetChanged
  <2> DEFINE found == run.updated \cap Listing(run.book)
  <2>1. run \in Runs /\ found \subseteq Hrefs /\ run.missed \subseteq Hrefs
    BY <1>2 DEF GetChanged, InPhase, Listing, Runs
  <2>2. PICK keep \in Kept(found) :
           run' = [run EXCEPT !.phase = "fetched", !.updated = {},
                              !.got = Fetched(keep, run.book),
                              !.missed = @ \cup (found \ keep)]
    BY <1>2 DEF GetChanged
  <2>3. PICK left \in SUBSET Hrefs : left = run.missed \cup (found \ keep)
    BY <2>1
  <2>4. PICK got \in [Hrefs -> Cards \cup {Nil}] : got = Fetched(keep, run.book)
    BY <1>5
  <2>5. run' = [run EXCEPT !.phase = "fetched", !.updated = {}, !.got = got, !.missed = left]
    BY <2>2, <2>3, <2>4
  <2>6. run' \in Runs
    BY <2>1, <2>5 DEF Runs, Phases
  <2> QED BY <1>0, <2>6
<1>3. ASSUME NEW keepsToken \in BOOLEAN, GetBook(keepsToken) PROVE run' \in Runs
  <2> DEFINE found == Listing(run.book)
  <2>1. run \in Runs /\ found \subseteq Hrefs
    BY <1>3 DEF GetBook, InPhase, Listing
  <2>2. PICK keep \in Kept(found) :
           run' = [run EXCEPT !.phase = "fetched", !.full = TRUE,
                              !.got = Fetched(keep, run.book), !.missed = found \ keep,
                              !.token = IF keepsToken THEN @ ELSE Nil,
                              !.since = IF keepsToken THEN @ ELSE {}]
    BY <1>3 DEF GetBook
  <2>3. PICK left \in SUBSET Hrefs : left = found \ keep
    BY <2>1
  <2>4. PICK got \in [Hrefs -> Cards \cup {Nil}] : got = Fetched(keep, run.book)
    BY <1>5
  <2>5. PICK token \in Tokens : token = IF keepsToken THEN run.token ELSE Nil
    BY <2>1 DEF Runs, Tokens
  <2>6. PICK since \in SUBSET Hrefs : since = IF keepsToken THEN run.since ELSE {}
    BY <2>1 DEF Runs
  <2>7. run' = [run EXCEPT !.phase = "fetched", !.full = TRUE, !.got = got, !.missed = left,
                           !.token = token, !.since = since]
    BY <2>2, <2>3, <2>4, <2>5, <2>6
  <2>8. run' \in Runs
    BY <2>1, <2>7 DEF Runs, Phases
  <2> QED BY <2>8
<1>4. ASSUME NEW skipped \in SUBSET Hrefs, Reconcile(skipped) PROVE run' \in Runs
  <2>1. run.missed \cup skipped \in SUBSET Hrefs /\ None \in [Hrefs -> Cards \cup {Nil}]
    BY <1>0 DEF Runs, None
  <2>2. run' = [run EXCEPT !.phase = "reconciled", !.missed = run.missed \cup skipped,
                           !.base = None, !.deleted = {}, !.full = FALSE, !.got = None]
    BY <1>4 DEF Reconcile
  <2> QED BY <1>0, <2>1, <2>2 DEF Runs, Phases
<1> QED BY <1>0, <1>1, <1>2, <1>3, <1>4

LEMMA SyncTypeStep == SyncTypeOK /\ [SyncNext]_syncVars => SyncTypeOK'
<1> SUFFICES ASSUME SyncTypeOK, [SyncNext]_syncVars PROVE SyncTypeOK'
  OBVIOUS
<1> USE SyncAssumption DEF SyncTypeOK
<1>1. ASSUME NEW h \in Hrefs, NEW c \in Cards \cup {Nil}, RemoteChange(h, c) PROVE SyncTypeOK'
  <2>1. remote' \in [Hrefs -> Cards \cup {Nil}] /\ changes' \in 0 .. MaxChanges
    BY <1>1 DEF RemoteChange
  <2>2. copy' \in Copies \cup {Nil} /\ form' \in Copies \cup {Nil} /\ run' \in Runs \cup {Nil}
    BY <1>1, NoticedCopy, NoticedRun DEF RemoteChange
  <2>3. sub' \in Copies
    BY <1>1, NoticedCopy DEF RemoteChange
  <2> QED BY <1>1, <2>1, <2>2, <2>3 DEF RemoteChange, contacts, history
<1>2. CASE Load \/ OpenForm
  BY <1>2 DEF Load, OpenForm, contacts, counters, history
<1>3. CASE Begin
  <2>1. copy \in Copies
    BY <1>3 DEF Begin
  <2>2. Baselines \in [Hrefs -> Cards \cup {Nil}] /\ None \in [Hrefs -> Cards \cup {Nil}]
    BY DEF Baselines, None
  <2>3. run' \in Runs
    BY <1>3, <2>1, <2>2 DEF Begin, Runs, Copies, Phases
  <2>4. mine' \in [Hrefs -> Cards \cup {Nil}]
    BY <1>3 DEF Begin
  <2> QED BY <1>3, <2>3, <2>4 DEF Begin, contacts, counters
<1>4. CASE ListChanges \/ GetChanged \/ (\E keepsToken \in BOOLEAN : GetBook(keepsToken)) \/ Fail
  <2>1. run' \in Runs \cup {Nil}
    BY <1>4, RunGoesOn DEF Fail
  <2>2. OnlyRun
    BY <1>4 DEF ListChanges, GetChanged, GetBook, Fail
  <2> QED BY <2>1, <2>2 DEF OnlyRun, subscription, contacts, counters, history
<1>5. ASSUME NEW skipped \in SUBSET Hrefs, Reconcile(skipped) PROVE SyncTypeOK'
  <2>1. run \in Runs
    BY <1>5 DEF Reconcile, InPhase
  <2>2. \A h \in Hrefs : Imported(h) \in (Cards \cup {Nil}) \X (Links \cup {Nil})
                          \/ run.got[h] = Nil
    BY <2>1 DEF Imported, Links, Runs
  <2>3. contact' \in [Hrefs -> Cards \cup {Nil}] /\ link' \in [Hrefs -> Links \cup {Nil}]
    BY <1>5, <2>2 DEF Reconcile, Arrived
  <2>4. run' \in Runs
    BY <1>5, RunGoesOn
  <2>5. mine' \in [Hrefs -> Cards \cup {Nil}]
    BY <1>5 DEF Reconcile
  <2>6. refused' \subseteq Hrefs /\ blind' \subseteq Hrefs
    BY <1>5, <2>1 DEF Reconcile, Runs
  <2> QED BY <1>5, <2>3, <2>4, <2>5, <2>6 DEF Reconcile, subscription, counters
<1>6. CASE StoreToken
  <2>1. run \in Runs
    BY <1>6 DEF StoreToken, InPhase
  <2> QED BY <1>6, <2>1 DEF StoreToken, Runs, Copies, contacts, counters
<1>7. ASSUME NEW h \in Hrefs, NEW c \in Cards, Edit(h, c) PROVE SyncTypeOK'
  BY <1>7 DEF Edit, subscription
<1>8. ASSUME NEW h \in Hrefs, NEW byDevice \in BOOLEAN, DropContact(h, byDevice)
      PROVE SyncTypeOK'
  BY <1>8 DEF DropContact, subscription
<1>9. ASSUME NEW book \in Books, SaveForm(book) PROVE SyncTypeOK'
  <2>1. form \in Copies
    BY <1>9 DEF SaveForm
  <2> QED BY <1>9, <2>1 DEF SaveForm, TokenFor, Copies, Tokens, contacts, counters
<1>10. CASE UNCHANGED syncVars
  BY <1>10 DEF syncVars, subscription, contacts, counters, history
<1> QED BY <1>1, <1>2, <1>3, <1>4, <1>5, <1>6, <1>7, <1>8, <1>9, <1>10 DEF SyncNext

-----------------------------------------------------------------------------
LEMMA ContactRunInit == SyncInit => SyncIInv
<1> SUFFICES ASSUME SyncInit PROVE SyncIInv
  OBVIOUS
<1> USE SyncAssumption
<1>1. SyncTypeOK
  <2>1. link \in [Hrefs -> Links \cup {Nil}] /\ contact \in [Hrefs -> Cards \cup {Nil}]
    BY DEF SyncInit, None, Links
  <2>2. sub \in Copies
    BY DEF SyncInit, Copies, Books, Tokens
  <2>3. /\ remote \in [Hrefs -> Cards \cup {Nil}] /\ mine \in [Hrefs -> Cards \cup {Nil}]
        /\ copy = Nil /\ form = Nil /\ run = Nil
        /\ refused = {} /\ blind = {} /\ crossed = FALSE
    BY DEF SyncInit, None
  <2>4. changes \in 0 .. MaxChanges /\ edits \in 0 .. MaxEdits /\ forms \in 0 .. MaxForms
    BY DEF SyncInit
  <2> QED BY <2>1, <2>2, <2>3, <2>4 DEF SyncTypeOK
<1>2. mine = None /\ run = Nil /\ copy = Nil /\ form = Nil
  BY DEF SyncInit
<1>3. LeftLinks
  BY DEF SyncInit, LeftLinks, None
<1>4. TokenTrue(sub)
  <2>1. CASE sub.token = Nil
    BY <2>1 DEF SyncInit, TokenTrue, Books
  <2>2. CASE sub.token # Nil
    <3>1. /\ sub = [book |-> "home", token |-> "home", since |-> {}]
          /\ link = [h \in Hrefs |-> IF remote[h] = Nil THEN Nil
                                     ELSE [hash |-> remote[h], synced |-> Nil]]
      BY <2>2 DEF SyncInit
    <3>2. \A h \in Hrefs : remote[h] # Nil => link[h] \in Links
      BY <1>1, <3>1 DEF SyncTypeOK, Links
    <3> QED BY <3>1, <3>2 DEF TokenTrue, UpToDate, Card
  <2> QED BY <2>1, <2>2
<1> QED BY <1>1, <1>2, <1>3, <1>4
        DEF SyncIInv, SameBook, MineHasBase, InOrder, ChangesAreTold, TokensTrue, TokenTrue, None

(* Another client's change is told by every token there is. *)
LEMMA ChangeKeeps ==
    ASSUME SyncIInv, NEW h \in Hrefs, NEW c \in Cards \cup {Nil}, RemoteChange(h, c)
    PROVE  SameBook' /\ MineHasBase' /\ LeftLinks' /\ InOrder' /\ ChangesAreTold' /\ TokensTrue'
<1> USE SyncAssumption
<1>1. /\ sub' = Noticed(sub, h) /\ copy' = Noticed(copy, h)
      /\ form' = Noticed(form, h) /\ run' = Noticed(run, h)
      /\ UNCHANGED <<link, contact, mine, refused, blind, crossed>>
  BY DEF RemoteChange, contacts, history
<1>2. \A g \in Hrefs : \A book : g # h => Card(book, g)' = Card(book, g)
  BY DEF RemoteChange, Card, SyncIInv, SyncTypeOK
<1>3. /\ sub # Nil /\ sub' # Nil
      /\ sub'.book = sub.book /\ sub'.token = sub.token /\ sub'.since = sub.since \cup {h}
  BY <1>1, NoticedCopy DEF SyncIInv, SyncTypeOK
<1>4. /\ copy' # Nil <=> copy # Nil
      /\ copy # Nil => /\ copy'.book = copy.book /\ copy'.token = copy.token
                       /\ copy'.since = copy.since \cup {h}
  BY <1>1, NoticedCopy DEF SyncIInv, SyncTypeOK
<1>5. /\ form' # Nil <=> form # Nil
      /\ form # Nil => /\ form'.book = form.book /\ form'.token = form.token
                       /\ form'.since = form.since \cup {h}
  BY <1>1, NoticedCopy DEF SyncIInv, SyncTypeOK
<1>6. /\ run' # Nil <=> run # Nil
      /\ run # Nil => /\ run'.phase = run.phase /\ run'.book = run.book
                      /\ run'.token = run.token /\ run'.base = run.base
                      /\ run'.updated = run.updated /\ run'.deleted = run.deleted
                      /\ run'.full = run.full /\ run'.got = run.got
                      /\ run'.missed = run.missed /\ run'.since = run.since \cup {h}
  BY <1>1, NoticedRun DEF SyncIInv, SyncTypeOK, Runs
<1>7. SameBook'
  BY <1>1, <1>3, <1>4, <1>5, <1>6 DEF SyncIInv, SameBook
<1>8. MineHasBase' /\ LeftLinks'
  BY <1>1, <1>6 DEF SyncIInv, MineHasBase, LeftLinks
<1>9. InOrder'
  BY <1>6 DEF SyncIInv, InOrder, None
<1>10. ChangesAreTold'
  <2> SUFFICES ASSUME run' # Nil, NEW g \in Hrefs, Overtaken(g)'
               PROVE  /\ g \in sub'.since /\ g \in run'.since
                      /\ copy' # Nil => g \in copy'.since
                      /\ form' # Nil => g \in form'.since
    BY DEF ChangesAreTold
  <2>1. CASE g = h
    BY <2>1, <1>3, <1>4, <1>5, <1>6
  <2>2. CASE g # h
    <3>1. Overtaken(g)
      BY <2>2, <1>2, <1>6 DEF Overtaken
    <3> QED BY <3>1, <1>3, <1>4, <1>5, <1>6 DEF SyncIInv, ChangesAreTold
  <2> QED BY <2>1, <2>2
<1>11. \A g \in Hrefs : g # h => remote'[g] = remote[g]
  BY DEF RemoteChange, SyncIInv, SyncTypeOK
<1>12. TokenTrue(sub)' /\ TokenTrue(copy)' /\ TokenTrue(form)'
  BY <1>1, <1>3, <1>4, <1>5, <1>11 DEF SyncIInv, TokensTrue, TokenTrue, UpToDate, Card
<1>13. TokensTrue'
  BY <1>1, <1>6, <1>12, <1>11 DEF SyncIInv, TokensTrue, InWork, UpToDate, Card
<1> QED BY <1>7, <1>8, <1>9, <1>10, <1>13

(* Copies of the row are as true as the row itself. *)
LEMMA CopyKeeps ==
    ASSUME SyncIInv, Load \/ OpenForm \/ (\E book \in Books : SaveForm(book)) \/ Fail
    PROVE  SameBook' /\ MineHasBase' /\ LeftLinks' /\ InOrder' /\ ChangesAreTold' /\ TokensTrue'
<1> USE SyncAssumption
<1>0. sub # Nil
  BY DEF SyncIInv, SyncTypeOK
<1>1. ASSUME UNCHANGED <<remote, sub, link, contact, mine, refused, blind, crossed, run>>,
             copy' \in {copy, sub}, form' \in {form, sub}
      PROVE  SameBook' /\ MineHasBase' /\ LeftLinks' /\ InOrder' /\ ChangesAreTold' /\ TokensTrue'
  <2>1. SameBook' /\ MineHasBase' /\ LeftLinks' /\ InOrder'
    BY <1>1 DEF SyncIInv, SameBook, MineHasBase, LeftLinks, InOrder, None
  <2>2. ChangesAreTold'
    BY <1>1 DEF SyncIInv, ChangesAreTold, Overtaken, Card
  <2>3. TokensTrue'
    BY <1>0, <1>1 DEF SyncIInv, TokensTrue, TokenTrue, InWork, UpToDate, Card
  <2> QED BY <2>1, <2>2, <2>3
<1>2. CASE Load \/ OpenForm
  BY <1>1, <1>2 DEF Load, OpenForm, contacts, counters, history
<1>3. ASSUME NEW book \in Books, SaveForm(book)
      PROVE  SameBook' /\ MineHasBase' /\ LeftLinks' /\ InOrder' /\ ChangesAreTold' /\ TokensTrue'
  <2>1. /\ form # Nil /\ form' = Nil /\ sub' = [book |-> book, token |-> TokenFor(book), since |-> form.since]
        /\ UNCHANGED <<remote, copy, link, contact, run, mine, refused, blind>>
        /\ crossed' = (crossed \/ (book # form.book /\ (run # Nil \/ copy # Nil)))
    BY <1>3 DEF SaveForm, contacts
  <2>2. SameBook'
    BY <2>1 DEF SyncIInv, SameBook
  <2>3. MineHasBase' /\ LeftLinks' /\ InOrder'
    BY <2>1 DEF SyncIInv, MineHasBase, LeftLinks, InOrder, None
  <2>4. ChangesAreTold'
    BY <2>1 DEF SyncIInv, ChangesAreTold, Overtaken, Card
  <2>5. TokenTrue(sub)'
    BY <2>1 DEF SyncIInv, TokensTrue, TokenTrue, TokenFor, UpToDate, Card
  <2>6. TokensTrue'
    BY <2>1, <2>5 DEF SyncIInv, TokensTrue, TokenTrue, InWork, UpToDate, Card
  <2> QED BY <2>2, <2>3, <2>4, <2>6
<1>4. CASE Fail
  <2>1. run' = Nil /\ UNCHANGED <<remote, sub, copy, form, link, contact, mine, refused, blind, crossed>>
    BY <1>4 DEF Fail, OnlyRun, subscription, contacts, history
  <2> QED BY <2>1 DEF SyncIInv, SameBook, MineHasBase, LeftLinks, InOrder, ChangesAreTold,
                      TokensTrue, TokenTrue, UpToDate, Card
<1> QED BY <1>2, <1>3, <1>4

(* The requests of a run, up to its transaction. *)
LEMMA BeginKeeps ==
    ASSUME SyncIInv, Begin
    PROVE  SameBook' /\ MineHasBase' /\ LeftLinks' /\ InOrder' /\ ChangesAreTold' /\ TokensTrue'
<1> USE SyncAssumption
<1>1. /\ copy # Nil /\ copy' = Nil
      /\ run' = [phase |-> "begun",
                 book |-> copy.book, token |-> copy.token, since |-> copy.since,
                 base |-> Baselines, updated |-> {}, deleted |-> {}, full |-> FALSE,
                 got |-> None, missed |-> {}]
      /\ mine' = [h \in Hrefs |-> IF link[h] # Nil /\ link[h].synced = Nil
                                  THEN Nil ELSE mine[h]]
      /\ UNCHANGED <<remote, sub, form, link, contact, refused, blind, crossed>>
  BY DEF Begin, contacts
<1>2. SameBook' /\ LeftLinks' /\ InOrder' /\ MineHasBase'
  BY <1>1 DEF SyncIInv, SameBook, LeftLinks, InOrder, MineHasBase, None
<1>3. ChangesAreTold'
  BY <1>1 DEF ChangesAreTold, Overtaken, None
<1>4. TokensTrue'
  BY <1>1 DEF SyncIInv, TokensTrue, TokenTrue, UpToDate, Card, InWork
<1> QED BY <1>2, <1>3, <1>4

LEMMA RequestKeeps ==
    ASSUME SyncIInv, ListChanges \/ GetChanged \/ (\E keepsToken \in BOOLEAN : GetBook(keepsToken))
    PROVE  SameBook' /\ MineHasBase' /\ LeftLinks' /\ InOrder' /\ ChangesAreTold' /\ TokensTrue'
<1> USE SyncAssumption
<1>1. /\ run # Nil /\ run \in Runs
      /\ UNCHANGED <<remote, sub, copy, form, link, contact, mine, refused, blind, crossed>>
  BY DEF ListChanges, GetChanged, GetBook, InPhase, OnlyRun, subscription, contacts, history,
         SyncIInv, SyncTypeOK
<1>2. ASSUME run' \in Runs, run'.book = run.book, run'.base = run.base,
             run.phase # "reconciled"
      PROVE  SameBook' /\ MineHasBase' /\ LeftLinks'
  BY <1>1, <1>2 DEF SyncIInv, SameBook, MineHasBase, LeftLinks
<1>3. ASSUME run' # Nil,
             \A h \in Hrefs \ (run'.since \cup blind) :
                run'.token = run'.book /\ ~crossed => InWork(h)' \/ UpToDate(run'.book, h)
      PROVE  TokensTrue'
  BY <1>1, <1>3 DEF SyncIInv, TokensTrue, TokenTrue, UpToDate, Card
<1>4. run' \in Runs
  BY RunGoesOn DEF SyncIInv
<1>5. CASE ListChanges
  <2> DEFINE listed == Listing(run.book)
             initial == run.token = Nil
             told == IF initial THEN Hrefs ELSE run.since
  <2>1. /\ run.phase = "begun" /\ run.token \in {Nil, run.book}
        /\ run'.phase = (IF told \cap listed = {} THEN "fetched" ELSE "listed")
        /\ run'.updated = told \cap listed
        /\ run'.deleted = IF initial THEN {} ELSE told \ listed
        /\ run'.missed = IF initial THEN Hrefs \ listed ELSE {}
        /\ run'.token = run.book /\ run'.since = {}
        /\ run'.book = run.book /\ run'.base = run.base /\ run'.got = run.got
        /\ run'.full = run.full
    BY <1>1, <1>5 DEF ListChanges, InPhase, Runs
  <2>2. run.got = None /\ ~run.full
    BY <1>1, <2>1 DEF SyncIInv, InOrder
  <2>3. SameBook' /\ MineHasBase' /\ LeftLinks'
    BY <1>2, <1>4, <2>1
  <2>4. InOrder'
    BY <2>1, <2>2 DEF InOrder, None
  <2>5. ChangesAreTold'
    BY <1>1, <2>1, <2>2 DEF ChangesAreTold, Overtaken, None, Listing, Card
  <2>6. ASSUME NEW h \in Hrefs \ (run'.since \cup blind), run'.token = run'.book, ~crossed
        PROVE  InWork(h)' \/ UpToDate(run'.book, h)
    <3>1. CASE initial
      BY <2>1, <3>1 DEF InWork
    <3>2. CASE ~initial /\ h \in run.since
      BY <2>1, <3>2 DEF InWork
    <3>3. CASE ~initial /\ h \notin run.since
      <4>1. InWork(h) \/ UpToDate(run.book, h)
        BY <1>1, <2>1, <2>6, <3>3 DEF SyncIInv, TokensTrue
      <4>2. ~InWork(h)
        BY <1>1, <2>1, <2>2 DEF SyncIInv, InOrder, InWork, None
      <4> QED BY <2>1, <4>1, <4>2
    <3> QED BY <3>1, <3>2, <3>3
  <2> QED BY <1>3, <1>4, <2>3, <2>4, <2>5, <2>6
<1>6. CASE GetChanged
  <2> DEFINE found == run.updated \cap Listing(run.book)
  <2>1. PICK keep \in Kept(found) :
          /\ run.phase = "listed"
          /\ run'.phase = "fetched" /\ run'.updated = {} /\ run'.got = Fetched(keep, run.book)
          /\ run'.missed = run.missed \cup (found \ keep)
          /\ run'.book = run.book /\ run'.base = run.base /\ run'.deleted = run.deleted
          /\ run'.full = run.full /\ run'.token = run.token /\ run'.since = run.since
    BY <1>1, <1>6 DEF GetChanged, InPhase, Runs
  <2>2. run.got = None /\ ~run.full /\ keep \subseteq found
    BY <1>1, <2>1 DEF SyncIInv, InOrder, Kept
  <2>3. SameBook' /\ MineHasBase' /\ LeftLinks'
    BY <1>2, <1>4, <2>1
  <2>4. InOrder'
    BY <2>1 DEF InOrder
  <2>5. ASSUME NEW h \in Hrefs, Overtaken(h)' PROVE Overtaken(h)
    BY <1>1, <2>1, <2>2, <2>5 DEF Overtaken, Fetched, Card
  <2>6. ChangesAreTold'
    BY <1>1, <2>1, <2>5 DEF SyncIInv, ChangesAreTold
  <2>7. ASSUME NEW h \in Hrefs \ (run'.since \cup blind), run'.token = run'.book, ~crossed
        PROVE  InWork(h)' \/ UpToDate(run'.book, h)
    <3>1. InWork(h) \/ UpToDate(run.book, h)
      BY <1>1, <2>1, <2>7 DEF SyncIInv, TokensTrue
    <3>2. CASE h \in run.updated
      <4>1. ~Overtaken(h)
        BY <1>1, <2>1, <2>7 DEF SyncIInv, ChangesAreTold
      <4>2. h \in found /\ Card(run.book, h) # Nil
        BY <3>2, <4>1 DEF Overtaken, Listing
      <4> QED BY <2>1, <4>2 DEF InWork, Fetched
    <3>3. CASE h \notin run.updated /\ InWork(h)
      BY <2>1, <2>2, <3>3 DEF InWork, None
    <3> QED BY <2>1, <3>1, <3>2, <3>3
  <2> QED BY <1>3, <1>4, <2>3, <2>4, <2>6, <2>7
<1>7. ASSUME NEW keepsToken \in BOOLEAN, GetBook(keepsToken)
      PROVE  SameBook' /\ MineHasBase' /\ LeftLinks' /\ InOrder' /\ ChangesAreTold' /\ TokensTrue'
  <2> DEFINE found == Listing(run.book)
  <2>0. PICK keep \in Kept(found) :
          run' = [run EXCEPT !.phase = "fetched", !.full = TRUE,
                             !.got = Fetched(keep, run.book), !.missed = found \ keep,
                             !.token = IF keepsToken THEN @ ELSE Nil,
                             !.since = IF keepsToken THEN @ ELSE {}]
    BY <1>7 DEF GetBook
  <2> HIDE DEF found
  <2>1. /\ run.phase = "begun"
        /\ run'.phase = "fetched" /\ run'.full = TRUE /\ run'.got = Fetched(keep, run.book)
        /\ run'.missed = found \ keep
        /\ run'.book = run.book /\ run'.base = run.base /\ run'.deleted = run.deleted
        /\ run'.updated = run.updated
    <3>1. run.phase = "begun"
      BY <1>7 DEF GetBook, InPhase
    <3> QED BY <1>1, <2>0, <3>1 DEF Runs
  <2>2. run.deleted = {} /\ run.updated = {} /\ keep \subseteq found
    BY <1>1, <2>1 DEF SyncIInv, InOrder, Kept
  <2>3. SameBook' /\ MineHasBase' /\ LeftLinks'
    BY <1>2, <1>4, <2>1
  <2>4. InOrder'
    BY <2>1, <2>2 DEF InOrder
  <2>5. \A h \in Hrefs : ~Overtaken(h)'
    BY <1>1, <2>1, <2>2 DEF Overtaken, Fetched, Card, Listing, found
  <2>6. ChangesAreTold'
    BY <2>5 DEF ChangesAreTold
  <2>7. \A h \in Hrefs : InWork(h)'
    BY <2>1 DEF InWork
  <2> QED BY <1>3, <1>4, <2>3, <2>4, <2>6, <2>7
<1> QED BY <1>5, <1>6, <1>7

(* The transaction makes of each card it got a contact that is up to date, or
   the token has to tell of it. *)
LEMMA ReconcileKeeps ==
    ASSUME SyncIInv, NEW skipped \in SUBSET Hrefs, Reconcile(skipped)
    PROVE  SameBook' /\ MineHasBase' /\ LeftLinks' /\ InOrder' /\ ChangesAreTold' /\ TokensTrue'
<1> USE SyncAssumption
<1> DEFINE imported == Arrived \ skipped
           settled == {h \in imported : Changed(h) /\ contact[h] # Nil
                                     /\ (Conflict(h) \/ contact[h] = run.got[h])}
<1>1. /\ run \in Runs /\ run' \in Runs /\ run # Nil /\ run' # Nil
      /\ run.phase = "fetched"
  BY RunGoesOn DEF SyncIInv, Reconcile, InPhase
<1>2. /\ UNCHANGED <<remote, sub, copy, form, crossed>>
      /\ mine' = [h \in Hrefs |-> IF h \in settled \cup Vanished THEN Nil ELSE mine[h]]
      /\ refused' = refused \ Vanished
      /\ blind' = (blind \ (imported \cup Vanished)) \cup (run.missed \cap Vanished)
  BY DEF Reconcile, subscription
<1>3. /\ run'.phase = "reconciled" /\ run'.missed = run.missed \cup skipped
      /\ run'.deleted = {} /\ ~run'.full /\ run'.got = None /\ run'.updated = run.updated
      /\ run'.book = run.book /\ run'.token = run.token /\ run'.since = run.since
  BY <1>1 DEF Reconcile, Runs
<1>4. ASSUME NEW h \in Hrefs
      PROVE  /\ h \in Vanished => contact'[h] = Nil /\ link'[h] = Nil
             /\ h \in imported \ Vanished =>
                   contact'[h] = Imported(h)[1] /\ link'[h] = Imported(h)[2]
             /\ h \notin imported \cup Vanished => contact'[h] = contact[h] /\ link'[h] = link[h]
  BY DEF Reconcile
<1>5. ASSUME NEW h \in imported \ Vanished
      PROVE  /\ contact[h] = Nil \/ contact'[h] # Nil
             /\ link[h] = Nil => contact'[h] # Nil
             /\ Changed(h) /\ contact[h] = Nil => contact'[h] = Nil /\ link'[h] = Nil
             /\ Changed(h) /\ contact[h] # Nil =>
                   /\ contact'[h] = run.got[h] /\ link'[h] \in Links
                   /\ link'[h].hash = run.got[h] /\ link'[h].synced = run.got[h]
             /\ link[h] = Nil => link'[h] \in Links /\ link'[h].hash = run.got[h]
             /\ link[h] # Nil /\ ~Changed(h) => contact'[h] = contact[h] /\ link'[h] = link[h]
  <2>1. run.got[h] \in Cards /\ run.got[h] # Nil /\ h \in Hrefs
    BY <1>1 DEF Arrived, Runs
  <2>2. [hash |-> run.got[h], synced |-> run.got[h]] \in Links
    BY <2>1 DEF Links
  <2>3. contact'[h] = Imported(h)[1] /\ link'[h] = Imported(h)[2]
    BY <1>4, <2>1
  <2>4. CASE link[h] = Nil
    BY <2>1, <2>2, <2>3, <2>4 DEF Imported, Changed
  <2>5. CASE link[h] # Nil /\ Changed(h) /\ contact[h] = Nil
    BY <2>1, <2>2, <2>3, <2>5 DEF Imported
  <2>6. CASE link[h] # Nil /\ Changed(h) /\ contact[h] # Nil
    BY <2>1, <2>2, <2>3, <2>6 DEF Imported
  <2>7. CASE link[h] # Nil /\ ~Changed(h)
    BY <2>1, <2>2, <2>3, <2>7 DEF Imported
  <2> QED BY <2>4, <2>5, <2>6, <2>7 DEF Changed
<1>6. imported \subseteq Hrefs
  BY DEF Arrived
<1> HIDE DEF imported, settled
<1>7. SameBook' /\ InOrder'
  BY <1>1, <1>2, <1>3 DEF SyncIInv, SameBook, InOrder
<1>8. MineHasBase'
  <2> SUFFICES ASSUME NEW h \in Hrefs, mine'[h] # Nil
               PROVE  /\ contact'[h] = mine'[h]
                      /\ link'[h] # Nil
                      /\ link'[h].synced # Nil => link'[h].synced # mine'[h]
    BY <1>3 DEF MineHasBase
  <2>1. h \notin settled \cup Vanished /\ mine'[h] = mine[h]
    BY <1>2
  <2>2. /\ contact[h] = mine[h] /\ link[h] # Nil
        /\ link[h].synced # Nil => link[h].synced # mine[h]
        /\ link[h].synced = Nil => run.base[h] \notin {Nil, mine[h]}
    BY <1>1, <2>1 DEF SyncIInv, MineHasBase
  <2>3. contact'[h] = contact[h] /\ link'[h] = link[h]
    <3>1. CASE h \in imported /\ Changed(h)
      <4>1. BaselineOf(h) \notin {Nil, contact[h]}
        BY <2>2 DEF BaselineOf
      <4>2. h \in settled
        BY <2>1, <2>2, <3>1, <4>1 DEF settled, Conflict
      <4> QED BY <2>1, <4>2
    <3>2. CASE h \in imported /\ ~Changed(h)
      BY <1>5, <2>1, <2>2, <3>2
    <3>3. CASE h \notin imported
      BY <1>4, <2>1, <3>3
    <3> QED BY <3>1, <3>2, <3>3
  <2> QED BY <2>1, <2>2, <2>3
<1>9. LeftLinks'
  <2> SUFFICES ASSUME NEW h \in Hrefs, link'[h] # Nil, contact'[h] = Nil
               PROVE  h \in refused'
    BY DEF LeftLinks
  <2>1. h \notin Vanished
    BY <1>4
  <2>2. link[h] # Nil /\ contact[h] = Nil
    <3>1. CASE h \in imported
      BY <1>5, <2>1, <3>1
    <3>2. CASE h \notin imported
      BY <1>4, <2>1, <3>2
    <3> QED BY <3>1, <3>2
  <2> QED BY <1>2, <2>1, <2>2 DEF SyncIInv, LeftLinks
<1>10. ChangesAreTold'
  <2>1. run.updated = {}
    BY <1>1 DEF SyncIInv, InOrder
  <2> QED BY <1>3, <2>1 DEF ChangesAreTold, Overtaken, None
<1>11. ASSUME NEW h \in Hrefs, ~Overtaken(h),
              h \in imported \cup Vanished \/ UpToDate(run.book, h),
              h \notin blind'
       PROVE  \/ link'[h] = Nil /\ (Card(run.book, h) = Nil \/ h \in refused')
              \/ link'[h] # Nil /\ link'[h].hash = Card(run.book, h)
  <2>1. CASE h \in Vanished
    <3>1. link'[h] = Nil /\ h \notin run.missed
      BY <1>2, <1>4, <1>11, <2>1
    <3>2. Card(run.book, h) = Nil
      BY <1>11, <2>1, <3>1 DEF Vanished, Overtaken, Arrived
    <3> QED BY <3>1, <3>2
  <2>2. CASE h \in imported \ Vanished
    <3>1. run.got[h] # Nil /\ run.got[h] = Card(run.book, h)
      BY <1>11, <2>2 DEF Overtaken, imported, Arrived
    <3>2. CASE Changed(h) /\ contact[h] = Nil
      <4>1. h \in refused /\ h \notin Vanished
        BY <2>2, <3>2 DEF SyncIInv, LeftLinks, Changed
      <4> QED BY <1>2, <1>5, <2>2, <3>2, <4>1
    <3>3. CASE Changed(h) /\ contact[h] # Nil
      BY <1>5, <2>2, <3>1, <3>3
    <3>4. CASE link[h] = Nil
      BY <1>5, <2>2, <3>1, <3>4
    <3>5. CASE link[h] # Nil /\ ~Changed(h)
      BY <1>5, <2>2, <3>1, <3>5 DEF Changed
    <3> QED BY <3>2, <3>3, <3>4, <3>5
  <2>3. CASE h \notin imported \cup Vanished
    BY <1>2, <1>4, <1>11, <2>3 DEF UpToDate
  <2> QED BY <2>1, <2>2, <2>3
<1>12. ASSUME NEW held, held # Nil => held.book = run.book \/ crossed, TokenTrue(held),
              \A h \in Hrefs : held # Nil /\ Overtaken(h) => h \in held.since
       PROVE  held # Nil /\ held.token = held.book /\ ~crossed =>
                 \A h \in Hrefs \ (held.since \cup blind') :
                    \/ link'[h] = Nil /\ (Card(held.book, h) = Nil \/ h \in refused')
                    \/ link'[h] # Nil /\ link'[h].hash = Card(held.book, h)
  <2> SUFFICES ASSUME held # Nil, held.token = held.book, ~crossed,
                      NEW h \in Hrefs, h \notin held.since, h \notin blind'
               PROVE  h \in imported \cup Vanished \/ UpToDate(run.book, h)
    BY <1>11, <1>12
  <2>1. CASE h \in imported \cup Vanished
    BY <2>1
  <2>2. CASE h \notin imported \cup Vanished
    BY <1>2, <1>12, <2>2 DEF TokenTrue
  <2> QED BY <2>1, <2>2
<1>13. TokenTrue(sub)' /\ TokenTrue(copy)' /\ TokenTrue(form)'
  <2>1. \A h \in Hrefs : Overtaken(h) =>
           /\ h \in sub.since
           /\ copy # Nil => h \in copy.since
           /\ form # Nil => h \in form.since
    BY <1>1 DEF SyncIInv, ChangesAreTold
  <2>2. /\ crossed \/ sub.book = run.book
        /\ copy # Nil => crossed \/ copy.book = run.book
        /\ form # Nil => crossed \/ form.book = run.book
    BY <1>1 DEF SyncIInv, SameBook
  <2>3. TokenTrue(sub)'
    BY <1>2, <1>12, <2>1, <2>2 DEF SyncIInv, TokensTrue, TokenTrue, UpToDate, Card
  <2>4. TokenTrue(copy)'
    BY <1>2, <1>12, <2>1, <2>2 DEF SyncIInv, TokensTrue, TokenTrue, UpToDate, Card
  <2>5. TokenTrue(form)'
    BY <1>2, <1>12, <2>1, <2>2 DEF SyncIInv, TokensTrue, TokenTrue, UpToDate, Card
  <2> QED BY <2>3, <2>4, <2>5
<1>14. ASSUME run.token = run.book, ~crossed,
              NEW h \in Hrefs, h \notin run.since, h \notin blind'
       PROVE  \/ h \in run'.missed
              \/ link'[h] = Nil /\ (Card(run.book, h) = Nil \/ h \in refused')
              \/ link'[h] # Nil /\ link'[h].hash = Card(run.book, h)
  <2>1. ~Overtaken(h)
    BY <1>1, <1>14 DEF SyncIInv, ChangesAreTold
  <2>2. CASE h \in imported \cup Vanished
    BY <1>11, <1>14, <2>1, <2>2
  <2>3. CASE h \notin imported \cup Vanished
    <3>1. InWork(h) \/ UpToDate(run.book, h)
      BY <1>1, <1>2, <1>14, <2>3 DEF SyncIInv, TokensTrue
    <3>2. InWork(h) => h \in run.missed \cup skipped
      BY <1>1, <2>3 DEF SyncIInv, InOrder, InWork, Vanished, imported, Arrived
    <3> QED BY <1>3, <1>11, <1>14, <2>1, <3>1, <3>2
  <2> QED BY <2>2, <2>3
<1>15. TokensTrue'
  BY <1>2, <1>3, <1>13, <1>14 DEF TokensTrue, InWork, UpToDate, Card
<1> QED BY <1>7, <1>8, <1>9, <1>10, <1>15

(* The token is stored when what it stands for is imported, or left out. *)
LEMMA StoreKeeps ==
    ASSUME SyncIInv, StoreToken
    PROVE  SameBook' /\ MineHasBase' /\ LeftLinks' /\ InOrder' /\ ChangesAreTold' /\ TokensTrue'
<1> USE SyncAssumption
<1>1. /\ run # Nil /\ run.phase = "reconciled" /\ run' = Nil
      /\ sub' = [sub EXCEPT !.token = run.token, !.since = run.since]
      /\ blind' = blind \cup run.missed
      /\ UNCHANGED <<remote, copy, form, link, contact, mine, refused, crossed>>
  BY DEF StoreToken, InPhase, contacts
<1>2. /\ sub \in Copies
      /\ sub'.book = sub.book /\ sub'.token = run.token /\ sub'.since = run.since
  BY <1>1 DEF SyncIInv, SyncTypeOK, Copies
<1>3. SameBook' /\ MineHasBase' /\ LeftLinks' /\ InOrder' /\ ChangesAreTold'
  BY <1>1, <1>2 DEF SyncIInv, SameBook, MineHasBase, LeftLinks, InOrder, ChangesAreTold
<1>4. ~crossed => run.book = sub.book
  BY <1>1 DEF SyncIInv, SameBook
<1>5. \A h \in Hrefs : InWork(h) => h \in run.missed
  BY <1>1 DEF SyncIInv, InOrder, InWork, None
<1>6. run.token = run.book /\ ~crossed =>
         \A h \in Hrefs \ (run.since \cup blind) : InWork(h) \/ UpToDate(run.book, h)
  BY <1>1 DEF SyncIInv, TokensTrue
<1>7. TokenTrue(sub)'
  BY <1>1, <1>2, <1>4, <1>5, <1>6 DEF TokenTrue, UpToDate, Card
<1>8. TokenTrue(copy)' /\ TokenTrue(form)'
  BY <1>1 DEF SyncIInv, TokensTrue, TokenTrue, UpToDate, Card
<1> QED BY <1>1, <1>3, <1>7, <1>8 DEF TokensTrue

(* What the user does to contacts leaves their links, but for a deletion. *)
LEMMA UserKeeps ==
    ASSUME SyncIInv, NEW h \in Hrefs,
           (\E c \in Cards : Edit(h, c)) \/ (\E byDevice \in BOOLEAN : DropContact(h, byDevice))
    PROVE  SameBook' /\ MineHasBase' /\ LeftLinks' /\ InOrder' /\ ChangesAreTold' /\ TokensTrue'
<1> USE SyncAssumption
<1>1. /\ UNCHANGED <<remote, sub, copy, form, run, blind, crossed>>
      /\ refused \subseteq refused'
      /\ \A g \in Hrefs \ {h} : /\ link'[g] = link[g] /\ contact'[g] = contact[g]
                                /\ mine'[g] = mine[g]
      /\ link'[h] = link[h] \/ (link'[h] = Nil /\ h \in refused')
  BY DEF Edit, DropContact, subscription, SyncIInv, SyncTypeOK
<1>2. SameBook' /\ InOrder' /\ ChangesAreTold'
  BY <1>1 DEF SyncIInv, SameBook, InOrder, None, ChangesAreTold, Overtaken, Card
<1>3. TokensTrue'
  BY <1>1 DEF SyncIInv, TokensTrue, TokenTrue, UpToDate, Card, InWork
<1>4. LeftLinks'
  <2>1. contact'[h] # Nil \/ h \in refused'
    BY DEF Edit, DropContact, SyncIInv, SyncTypeOK
  <2> QED BY <1>1, <2>1 DEF SyncIInv, LeftLinks
<1>5. MineHasBase'
  <2>1. ASSUME NEW c \in Cards, Edit(h, c)
        PROVE  mine'[h] # Nil =>
                  /\ contact'[h] = mine'[h]
                  /\ link'[h] # Nil
                  /\ link'[h].synced # Nil => link'[h].synced # mine'[h]
                  /\ link'[h].synced = Nil /\ run' # Nil /\ run'.phase # "reconciled"
                         => run'.base[h] \notin {Nil, mine'[h]}
    BY <2>1 DEF Edit, SyncIInv, SyncTypeOK
  <2>2. ASSUME NEW byDevice \in BOOLEAN, DropContact(h, byDevice)
        PROVE  mine'[h] = Nil
    BY <2>2 DEF DropContact, SyncIInv, SyncTypeOK
  <2> QED BY <1>1, <2>1, <2>2 DEF SyncIInv, MineHasBase
<1> QED BY <1>2, <1>3, <1>4, <1>5

(* The state of a subscription is consistent throughout. *)
THEOREM SyncInvariance == SyncSpec => []SyncIInv
<1>1. SyncIInv /\ [SyncNext]_syncVars => SyncIInv'
  <2> SUFFICES ASSUME SyncIInv, [SyncNext]_syncVars PROVE SyncIInv'
    OBVIOUS
  <2>1. SyncTypeOK'
    BY SyncTypeStep DEF SyncIInv
  <2>2. SameBook' /\ MineHasBase' /\ LeftLinks' /\ InOrder' /\ ChangesAreTold' /\ TokensTrue'
    <3>1. CASE SyncNext
      BY <3>1, ChangeKeeps, CopyKeeps, BeginKeeps, RequestKeeps, ReconcileKeeps, StoreKeeps,
         UserKeeps DEF SyncNext
    <3>2. CASE UNCHANGED syncVars
      BY <3>2 DEF syncVars, subscription, contacts, counters, history, SyncIInv, SameBook,
                  MineHasBase, LeftLinks, InOrder, None, ChangesAreTold, Overtaken, TokensTrue,
                  TokenTrue, UpToDate, Card, InWork
    <3> QED BY <3>1, <3>2
  <2> QED BY <2>1, <2>2 DEF SyncIInv
<1> QED BY ContactRunInit, <1>1, PTL DEF SyncSpec

(* The rows, links and copies of a subscription have their types. *)
THEOREM SyncTypes == SyncSpec => []SyncTypeOK
<1>1. SyncIInv => SyncTypeOK
  BY DEF SyncIInv
<1> QED BY SyncInvariance, <1>1, PTL

(* What the user last wrote is still there, or a conflict holds it, whatever
   falls between the requests of a run and its transaction. *)
THEOREM EditsAreOverwrittenOnRecord == SyncSpec => []OverwritesAreRecorded
<1>1. SyncIInv => OverwritesAreRecorded
  BY DEF SyncIInv, MineHasBase, OverwritesAreRecorded
<1> QED BY SyncInvariance, <1>1, PTL

(* A stored sync-token hides no change but those the code gives up. *)
THEOREM TokensTellNoLie == SyncSpec => []TokenTellsNoLie
<1>1. SyncIInv => TokenTellsNoLie
  BY SyncAssumption DEF SyncIInv, SyncTypeOK, TokensTrue, TokenTrue, UpToDate, TokenTellsNoLie
<1> QED BY SyncInvariance, <1>1, PTL
=============================================================================
