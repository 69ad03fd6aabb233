----------------------------- MODULE Reminders ------------------------------
(***************************************************************************)
(* One reminder: the requests that complete, skip, delete or update it, and *)
(* the daily runs that notify its user on every channel.  A handler does    *)
(* its writes one by one, outside a transaction; a run reads the rows, then *)
(* the delivery records, and sends from the copies it read.  The job lock   *)
(* (module JobLock) turns some triggers away, but not that of an instance   *)
(* that holds it, nor one that finds it stale: runs may overlap.           *)
(*                                                                         *)
(* An occurrence is one value of remind_at: completing a recurring reminder *)
(* and moving its date make a new one.  Whether its day has come is a flag  *)
(* that time sets; requests and runs are short beside a day.               *)
(***************************************************************************)
EXTENDS Naturals, FiniteSets

CONSTANTS
    Requests,      \* the requests that reach the server
    Channels,      \* the channels that are configured
    Email,         \* the channel that is also recorded in the reminder
    Triggers,      \* of the daily run: the boot, the clock, other instances
    Nil,           \* no run, no channel
    MaxWork        \* bound: requests, and runs that find the reminder due

ASSUME EmailAssumption == Email \in Channels /\ Nil \notin Channels

ASSUME BoundAssumption == IsFiniteSet(Requests) /\ MaxWork \in Nat

VARIABLES
    row,           \* the reminder
    sent,          \* channels with a delivery record of status 'sent'
    suggestion,    \* of the reach-out suggestion that made the reminder
    timeline,      \* ReminderCompletion rows of each occurrence
    request,       \* how far each request has come
    run, runs,     \* what each trigger has under way; how many runs there were
    messages,      \* what the user got, for each channel and occurrence
    excused,       \* where a second message has a cause that is named below
    contested,     \* occurrences whose completion met another request, failed,
                   \* or left the reminder where it is
    blamed         \* what may have gone wrong with records and suggestions

vars == <<row, sent, suggestion, timeline, request, run, runs,
          messages, excused, contested, blamed>>

Occurrences == 1 .. Cardinality(Requests) + 1

(* Once, again some time after its completion, or by dates fixed in advance. *)
Recurrences == {"once", "completion", "fixed"}

Rows == [recurrence : Recurrences, occ : Occurrences, due : BOOLEAN, completed : BOOLEAN,
         emailSent : BOOLEAN, revision : Nat \ {0}, live : BOOLEAN]

Ops == {"complete", "skip", "delete", "update"}
Steps == {"idle", "loaded", "recorded", "cleared", "written", "dismissed", "done"}

Handlers == [op : Ops, step : Steps, copy : Rows]

Runs == [phase : {"rows", "send", "sent", "saved"}, copy : Rows,
         todo : SUBSET Channels, at : Channels \cup {Nil}]

ASSUME NilAssumption == Nil \notin Runs

TypeOK == /\ row \in Rows
          /\ sent \subseteq Channels
          /\ suggestion \in {"none", "pending", "dismissed"}
          /\ timeline \in [Occurrences -> Nat]
          /\ request \in [Requests -> Handlers]
          /\ run \in [Triggers -> Runs \cup {Nil}]
          /\ runs \in 0 .. MaxWork
          /\ messages \in [Channels -> [Occurrences -> Nat]]
          /\ excused \subseteq Channels \X Occurrences
          /\ contested \subseteq Occurrences
          /\ blamed \subseteq {"moved", "overtaken", "undismissed", "kept", "byUser"}

-----------------------------------------------------------------------------
(* A new reminder: one the user made, or one of a reach-out suggestion. *)
Init == /\ \E recurrence \in Recurrences, due \in BOOLEAN :
              row = [recurrence |-> recurrence, occ |-> 1, due |-> due, completed |-> FALSE,
                     emailSent |-> FALSE, revision |-> 1, live |-> TRUE]
        /\ sent = {}
        /\ suggestion \in {"none", "pending"}
        /\ suggestion = "pending" => row.recurrence = "once"
        /\ timeline = [o \in Occurrences |-> 0]
        /\ request = [q \in Requests |-> [op |-> "skip", step |-> "idle", copy |-> row]]
        /\ run = [t \in Triggers |-> Nil] /\ runs = 0
        /\ messages = [ch \in Channels |-> [o \in Occurrences |-> 0]]
        /\ excused = {} /\ contested = {} /\ blamed = {}

InFlight(q) == request[q].step \notin {"idle", "done"}

WorkLeft == runs + Cardinality({q \in Requests : request[q].step # "idle"}) < MaxWork

Running(t) == run[t] # Nil

InPhase(t, p) == Running(t) /\ run[t].phase = p

(* The day of the reminder comes. *)
DayComes == /\ ~row.due
            /\ \A t \in Triggers : ~Running(t)
            /\ \A q \in Requests : ~InFlight(q)
            /\ row' = [row EXCEPT !.due = TRUE]
            /\ UNCHANGED <<sent, suggestion, timeline, request, run, runs,
                           messages, excused, contested, blamed>>

-----------------------------------------------------------------------------
(* The handlers. *)

AtStep(q, s) == request[q].step = s

Goto(q, s) == request' = [request EXCEPT ![q].step = s]

Completing(q) == request[q].op \in {"complete", "skip"}

(* The requests that write, or have written, to the timeline. *)
Recorders == {q \in Requests : InFlight(q) /\ request[q].op = "complete"}

(* Mutant: the handler also finds a deleted reminder. *)
FoundUnscoped == TRUE

Found == row.live

(* First(&reminder): a deleted one is not found, and the request is over. *)
Load(q, op) ==
    /\ AtStep(q, "idle") /\ WorkLeft
    /\ Found
    /\ request' = [request EXCEPT ![q] = [op |-> op, step |-> "loaded", copy |-> row]]
    /\ contested' = contested \cup
          {row.occ : other \in {r \in Recorders : op = "complete" /\ request[r].copy.occ = row.occ}}
    /\ UNCHANGED <<row, sent, suggestion, timeline, run, runs,
                   messages, excused, blamed>>

(* CompleteReminder first writes to the timeline; that this failed is logged. *)
RecordCompletion(q) ==
    /\ AtStep(q, "loaded") /\ request[q].op = "complete"
    /\ \E n \in {0, 1} :
          timeline' = [timeline EXCEPT ![request[q].copy.occ] = @ + n]
    /\ Goto(q, "recorded")
    /\ UNCHANGED <<row, sent, suggestion, run, runs, messages, excused,
                   contested, blamed>>

Ready(q) == AtStep(q, IF request[q].op = "complete" THEN "recorded" ELSE "loaded")

DeletesRow(q) == request[q].op = "delete" \/ (Completing(q) /\ request[q].copy.recurrence = "once")

(* What a run may send again when these records are deleted: the occurrences
   given, and those of runs that are about to read them. *)
Forgotten(occurrences) ==
    sent \X (occurrences \cup {run[t].copy.occ : t \in {u \in Triggers : InPhase(u, "rows")}})

(* DeleteNotificationDeliveries, before the row is deleted. *)
ClearBeforeDelete(q) ==
    /\ Ready(q) /\ DeletesRow(q)
    /\ sent' \in {{}, sent}
    /\ excused' = excused \cup Forgotten({row.occ})
    /\ Goto(q, "cleared")
    /\ UNCHANGED <<row, suggestion, timeline, run, runs, messages, contested, blamed>>

(* The occurrences that some of the requests have written to the timeline. *)
Recorded(qs) == {request[q].copy.occ : q \in qs \cap Recorders}

(* Delete(&reminder): whatever its revision is by now.  When it fails, so does
   the request. *)
DeleteRow(q, ok) ==
    /\ AtStep(q, "cleared")
    /\ row' = [row EXCEPT !.live = @ /\ ~ok]
    /\ contested' = IF ok THEN contested ELSE contested \cup Recorded({q})
    /\ Goto(q, IF ok THEN "written" ELSE "done")
    /\ UNCHANGED <<sent, suggestion, timeline, run, runs, messages, excused, blamed>>

(* bumpRevisionCAS: the row is live and still the one that was loaded. *)
Matches(copy) == row.live /\ row.revision = copy.revision

(* Mutant: the reminder is rescheduled and stays marked as mailed. *)
StillMailed(copy) ==
    IF copy.recurrence = "completion"
    THEN [copy EXCEPT !.occ = @ + 1, !.due = FALSE, !.completed = FALSE, !.revision = @ + 1]
    ELSE [copy EXCEPT !.completed = TRUE, !.revision = @ + 1]

(* What completing makes of a recurring reminder. *)
Completed(copy) ==
    IF copy.recurrence = "completion"
    THEN [copy EXCEPT !.occ = @ + 1, !.due = FALSE, !.completed = FALSE,
                      !.emailSent = FALSE, !.revision = @ + 1]
    ELSE [copy EXCEPT !.completed = TRUE, !.revision = @ + 1]

(* Save(&reminder) of a completion. *)
Save(q) ==
    LET copy == request[q].copy
        new == Completed(copy)
    IN  /\ Ready(q) /\ Completing(q) /\ ~DeletesRow(q)
        /\ Matches(copy)
        /\ row' = new
        /\ request' = [request EXCEPT ![q].step = "written", ![q].copy = new]
        /\ blamed' = blamed \cup {"kept"} \cup {"overtaken" : t \in {u \in Triggers : Running(u)}}
        /\ contested' = IF new.occ = copy.occ THEN contested \cup {copy.occ} ELSE contested
        /\ UNCHANGED <<sent, suggestion, timeline, run, runs, messages, excused>>

(* Updates(&reminder): a new date, due or not, or other columns only, the
   recurrence among them. *)
Update(q, recurrence, moved, due) ==
    LET copy == request[q].copy
    IN  /\ Ready(q) /\ request[q].op = "update"
        /\ Matches(copy)
        /\ row' = [copy EXCEPT !.recurrence = recurrence, !.revision = @ + 1,
                               !.occ = IF moved THEN @ + 1 ELSE @,
                               !.due = IF moved THEN due ELSE @]
        /\ blamed' = IF moved THEN blamed \cup {"moved"} ELSE blamed
        /\ Goto(q, "done")
        /\ UNCHANGED <<sent, suggestion, timeline, run, runs, messages,
                       excused, contested>>

(* The row was written or deleted since it was loaded, or the database fails:
   what is in the timeline stays. *)
Refused(q) ==
    /\ Ready(q) /\ ~DeletesRow(q)
    /\ contested' = contested \cup Recorded({q})
    /\ Goto(q, "done")
    /\ UNCHANGED <<row, sent, suggestion, timeline, run, runs, messages,
                   excused, blamed>>

(* Mutant: the suggestion is dismissed before the delete. *)
WrittenOrNot(q) == request[q].step \in {"cleared", "written"}

Written(q) == AtStep(q, "written")

Rescheduled(q) == Completing(q) /\ request[q].copy.recurrence = "completion"

(* DismissReachOutSuggestionByReminderID; that it failed is logged. *)
Dismiss(q, ok) ==
    /\ Written(q)
    /\ suggestion' = IF ok /\ suggestion = "pending" THEN "dismissed" ELSE suggestion
    /\ blamed' = IF ok THEN blamed ELSE blamed \cup {"undismissed"}
    /\ Goto(q, IF Rescheduled(q) THEN "dismissed" ELSE "done")
    /\ UNCHANGED <<row, sent, timeline, run, runs, messages, excused, contested>>

(* The deliveries of the occurrence before are deleted; that it failed is
   logged. *)
ClearAfterReschedule(q, ok) ==
    /\ AtStep(q, "dismissed")
    /\ sent' = IF ok THEN {} ELSE sent
    /\ blamed' = IF ok THEN blamed ELSE blamed \cup {"overtaken"}
    /\ excused' = excused \cup Forgotten({row.occ} \ {request[q].copy.occ})
    /\ Goto(q, "done")
    /\ UNCHANGED <<row, suggestion, timeline, run, runs, messages, contested>>

(* DismissReachOutSuggestion: the user dismisses the suggestion itself.  The
   reminder stays. *)
DismissSuggestion ==
    /\ suggestion = "pending"
    /\ suggestion' = "dismissed"
    /\ blamed' = blamed \cup {"byUser"}
    /\ UNCHANGED <<row, sent, timeline, request, run, runs, messages, excused, contested>>

(* The handler ends where it is: the server dies, with all that it has under
   way, or a panic is recovered. *)
CutShort(q) ==
    /\ InFlight(q)
    /\ contested' = IF request[q].step \in {"recorded", "cleared"}
                    THEN contested \cup Recorded({q}) ELSE contested
    /\ blamed' = blamed
          \cup (IF Written(q) THEN {"undismissed"} ELSE {})
          \cup (IF request[q].step \in {"written", "dismissed"} /\ Rescheduled(q)
                THEN {"overtaken"} ELSE {})
    /\ Goto(q, "done")
    /\ UNCHANGED <<row, sent, suggestion, timeline, run, runs, messages, excused>>

-----------------------------------------------------------------------------
(* sendRemindersAt. *)

(* A trigger that the job lock lets through: the reminders that are due and not
   completed. *)
ReadRows(t) ==
    /\ ~Running(t) /\ WorkLeft
    /\ row.live /\ row.due /\ ~row.completed
    /\ runs' = runs + 1
    /\ run' = [run EXCEPT ![t] = [phase |-> "rows", copy |-> row, todo |-> {}, at |-> Nil]]
    /\ UNCHANGED <<row, sent, suggestion, timeline, request, messages,
                   excused, contested, blamed>>

(* Mutant: the delivery records are not asked. *)
EveryChannel(t) == Channels

(* Channels without a record, for email also without the legacy mirror. *)
Eligible(t) == {ch \in Channels \ sent : ~(ch = Email /\ run[t].copy.emailSent)}

(* The channels a run has still to send on, and the one it is sending on. *)
Holding(t) == run[t].todo \cup ({run[t].at} \ {Nil})

(* For the properties: other runs that read the records before this one, and
   have not recorded all that they send of the same occurrence. *)
Rivals(t) == {u \in Triggers \ {t} : Running(u) /\ run[u].copy.occ = run[t].copy.occ}

ReadDeliveries(t) ==
    /\ InPhase(t, "rows")
    /\ run' = [run EXCEPT ![t] = [@ EXCEPT !.phase = "send", !.todo = Eligible(t)]]
    /\ excused' = excused \cup
          ((Eligible(t) \cap UNION {Holding(u) : u \in Rivals(t)}) \X {run[t].copy.occ})
    /\ UNCHANGED <<row, sent, suggestion, timeline, request, runs, messages,
                   contested, blamed>>

(* The sender of a channel, email first.  Of a failure it is not known whether
   the message got through; the record of it leaves the reminder due. *)
Send(t, ch, arrived, ok) ==
    /\ InPhase(t, "send")
    /\ ch \in run[t].todo /\ (Email \in run[t].todo => ch = Email)
    /\ ok => arrived
    /\ messages' = IF arrived THEN [messages EXCEPT ![ch][run[t].copy.occ] = @ + 1] ELSE messages
    /\ excused' = IF arrived /\ ~ok THEN excused \cup {<<ch, run[t].copy.occ>>} ELSE excused
    /\ LET rest == run[t].todo \ {ch}
       IN  run' = [run EXCEPT ![t] = IF ok THEN [@ EXCEPT !.todo = rest, !.phase = "sent", !.at = ch]
                                     ELSE [@ EXCEPT !.todo = rest]]
    /\ UNCHANGED <<row, sent, suggestion, timeline, request, runs,
                   contested, blamed>>

(* Save(&r) of the copy, marked as mailed: refused if the row has changed,
   which is only logged. *)
SaveMirror(t) ==
    /\ InPhase(t, "sent") /\ run[t].at = Email
    /\ row' = IF Matches(run[t].copy)
              THEN [run[t].copy EXCEPT !.emailSent = TRUE, !.revision = @ + 1] ELSE row
    /\ run' = [run EXCEPT ![t] = [@ EXCEPT !.phase = "saved"]]
    /\ UNCHANGED <<sent, suggestion, timeline, request, runs, messages,
                   excused, contested, blamed>>

(* recordNotificationDelivery; that it failed is logged. *)
RecordSent(t, ok) ==
    /\ InPhase(t, IF Running(t) /\ run[t].at = Email THEN "saved" ELSE "sent")
    /\ sent' = IF ok THEN sent \cup {run[t].at} ELSE sent
    /\ excused' = IF ok THEN excused ELSE excused \cup {<<run[t].at, run[t].copy.occ>>}
    /\ run' = [run EXCEPT ![t] = [@ EXCEPT !.phase = "send", !.at = Nil]]
    /\ UNCHANGED <<row, suggestion, timeline, request, runs, messages,
                   contested, blamed>>

EndRun(t) == /\ InPhase(t, "send") /\ run[t].todo = {}
             /\ run' = [run EXCEPT ![t] = Nil]
             /\ UNCHANGED <<row, sent, suggestion, timeline, request, runs,
                            messages, excused, contested, blamed>>

(* The run ends where it is: its server dies, or it panics. *)
RunDies(t) ==
    /\ Running(t)
    /\ run' = [run EXCEPT ![t] = Nil]
    /\ excused' = excused \cup (({run[t].at} \ {Nil}) \X {run[t].copy.occ})
    /\ UNCHANGED <<row, sent, suggestion, timeline, request, runs, messages,
                   contested, blamed>>

Handle(q) ==
    \/ \E op \in Ops : Load(q, op)
    \/ RecordCompletion(q) \/ ClearBeforeDelete(q) \/ Save(q) \/ Refused(q)
    \/ \E ok \in BOOLEAN : DeleteRow(q, ok) \/ Dismiss(q, ok) \/ ClearAfterReschedule(q, ok)
    \/ \E recurrence \in Recurrences, moved, due \in BOOLEAN : Update(q, recurrence, moved, due)
    \/ CutShort(q)

RunReminders(t) ==
    \/ ReadRows(t) \/ ReadDeliveries(t) \/ SaveMirror(t) \/ EndRun(t) \/ RunDies(t)
    \/ \E ch \in Channels, arrived, ok \in BOOLEAN : Send(t, ch, arrived, ok)
    \/ \E ok \in BOOLEAN : RecordSent(t, ok)

Next == \/ DayComes \/ DismissSuggestion
        \/ \E q \in Requests : Handle(q)
        \/ \E t \in Triggers : RunReminders(t)

Spec == Init /\ [][Next]_vars

-----------------------------------------------------------------------------
(* A channel tells the user once of an occurrence, over any number of runs.
   A second message takes a send whose outcome was unknown, a record that was
   lost with the server or in the database, records that were deleted ahead of
   a reminder that was still there, or a run that reads the records while
   another one has still to send on the channel, or to record that it did. *)
NoticedOnce ==
    \A ch \in Channels, o \in Occurrences : messages[ch][o] > 1 => <<ch, o>> \in excused

(* A channel that counts as told has told the user of this occurrence, and not
   of the one before.  The record can be of the one before if the run overtook
   the completion, or if the date was moved; the mirror in the row, which is
   saved only over the row that was read, only if the date was moved. *)
NothingSwallowed ==
    row.live => \A ch \in Channels : messages[ch][row.occ] = 0 =>
        /\ ch = Email /\ row.emailSent => "moved" \in blamed
        /\ ch \in sent => \/ blamed \cap {"moved", "overtaken"} # {}
                          \/ \E q \in Requests : request[q].step \in {"written", "dismissed"}

(* Issue #177: a suggestion is dismissed when its reminder is gone, and not
   before, unless the user dismissed it himself; or when the reminder was
   completed and kept, of one that was made to recur. *)
SuggestionFollowsReminder ==
    /\ suggestion = "dismissed" => ~row.live \/ blamed \cap {"kept", "byUser"} # {}
    /\ suggestion = "pending" /\ ~row.live =>
          "undismissed" \in blamed \/ \E q \in Requests : Written(q)

(* An occurrence is in the timeline once, unless a request met another one on
   it, or failed after it had written to the timeline; and unless it recurs by
   fixed dates, when completing it leaves the reminder where it is. *)
TimelineIsTrue == \A o \in Occurrences : timeline[o] > 1 => o \in contested

-----------------------------------------------------------------------------
(* A claim of the documentation that the code does not keep; no run names it. *)

(* Integration matrix: a 'sent' record of a reminder and a channel suppresses
   any further send for that pair. *)
RecordSuppressesSends ==
    [][\A ch \in sent : row.live => messages'[ch][row.occ] = messages[ch][row.occ]]_vars
=============================================================================
