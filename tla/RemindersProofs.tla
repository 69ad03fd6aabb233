--------------------------- MODULE RemindersProofs ---------------------------
(***************************************************************************)
(* Proofs about Reminders, for any number of requests, channels, triggers  *)
(* and runs beside each other.                                             *)
(*                                                                         *)
(* Everything rests on what a copy is worth (CopyTrue): a request or a run *)
(* whose copy has the revision of the live row holds the row itself.  On   *)
(* that stand four invariants of their own: of the timeline, of the        *)
(* suggestion, of what counts as told, and of what is told twice.          *)
(***************************************************************************)
EXTENDS Reminders, FiniteSetTheorems, TLAPS

(* A copy that bears the revision of the live row is the row. *)
CopyTrue(copy, r) == /\ copy.live
                     /\ copy.revision <= r.revision /\ copy.occ <= r.occ
                     /\ r.live /\ copy.revision = r.revision => copy = r

(* The requests whose write, if it was one, is done: each moves the reminder
   one occurrence on at most. *)
Spent == {q \in Requests : request[q].step \in {"written", "dismissed", "done"}}

(* Copies, and the number of occurrences there can be. *)
CopyInv == /\ TypeOK
           /\ \A q \in Requests : InFlight(q) => CopyTrue(request[q].copy, row)
           /\ \A t \in Triggers : Running(t) =>
                 /\ CopyTrue(run[t].copy, row)
                 /\ run[t].at # Nil <=> run[t].phase \in {"sent", "saved"}
           /\ row.occ <= 1 + Cardinality(Spent)

-----------------------------------------------------------------------------
(* A request that completes the reminder is alone on its occurrence, or the
   occurrence is contested; the timeline shows an occurrence that is not over
   only for a request that has just written it. *)
RecordersApart ==
    \A q, r \in Recorders : q # r /\ request[q].copy.occ = request[r].copy.occ
        => request[q].copy.occ \in contested

NotYetRecorded ==
    \A q \in Recorders : AtStep(q, "loaded") /\ request[q].copy.occ \notin contested
        => timeline[request[q].copy.occ] = 0

RecordedByOne ==
    row.live /\ row.occ \notin contested /\ timeline[row.occ] # 0
        => \E q \in Recorders : request[q].copy.occ = row.occ
                                /\ request[q].step \in {"recorded", "cleared"}

NoneAhead == \A o \in Occurrences : o > row.occ => timeline[o] = 0

TimelineInv ==
    RecordersApart /\ NotYetRecorded /\ RecordedByOne /\ NoneAhead /\ TimelineIsTrue

-----------------------------------------------------------------------------
(* A request that has written has deleted the reminder, or kept it. *)
SuggestionInv == /\ \A q \in Requests : Written(q) => ~row.live \/ "kept" \in blamed
                 /\ SuggestionFollowsReminder

-----------------------------------------------------------------------------
(* A request that has moved the reminder on and has not cleared the deliveries yet. *)
Clearing(q) == request[q].step \in {"written", "dismissed"} /\ Rescheduled(q)

(* What counts as told was told, of this occurrence unless the row moved on:
   by a run that has it to record, by the mirror, by the records. *)
ToldByRuns ==
    \A t \in Triggers : Running(t) =>
        /\ run[t].at # Nil => messages[run[t].at][run[t].copy.occ] > 0
        /\ run[t].copy.occ # row.occ => blamed \cap {"moved", "overtaken"} # {}

ToldByMirror == row.emailSent /\ messages[Email][row.occ] = 0 => "moved" \in blamed

ToldByRecords ==
    row.live => \A ch \in sent : messages[ch][row.occ] = 0 =>
        blamed \cap {"moved", "overtaken"} # {} \/ \E q \in Requests : Clearing(q)

ToldInv == ToldByRuns /\ ToldByMirror /\ ToldByRecords

-----------------------------------------------------------------------------
(* A run works on an occurrence whose day has come. *)
DayHasCome ==
    \A t \in Triggers : Running(t) /\ run[t].copy.occ = row.occ => row.due

(* The day of an occurrence that a request has just made has not come; how the
   requests get to their last steps. *)
DayAhead ==
    \A q \in Requests : /\ Clearing(q) /\ request[q].copy.occ = row.occ => ~row.due
                        /\ AtStep(q, "cleared") => DeletesRow(q)
                        /\ AtStep(q, "dismissed") => Rescheduled(q)

(* Nobody is told of a day that has not come. *)
NotYetTold ==
    \A ch \in Channels, o \in Occurrences :
        o > row.occ \/ (o = row.occ /\ ~row.due) => messages[ch][o] = 0

(* A run that has sent on the channel and not recorded it yet. *)
Telling(ch, o) == \E t \in Triggers : Running(t) /\ run[t].at = ch /\ run[t].copy.occ = o

(* Where a message is, there is a record, one is being written, or a second
   message has a named cause; also for a run that is about to read the records. *)
Accounted ==
    \A ch \in Channels : messages[ch][row.occ] > 0 =>
        <<ch, row.occ>> \in excused \/ ch \in sent \/ Telling(ch, row.occ)

AccountedForReader ==
    \A t \in Triggers : InPhase(t, "rows") =>
        \A ch \in Channels : messages[ch][run[t].copy.occ] > 0 =>
            \/ <<ch, run[t].copy.occ>> \in excused \/ ch \in sent
            \/ Telling(ch, run[t].copy.occ)

(* A channel that a run will send on has told nothing of the occurrence yet,
   or may tell it again. *)
AccountedForRun ==
    \A t \in Triggers : Running(t) => \A ch \in run[t].todo :
        messages[ch][run[t].copy.occ] > 0 => <<ch, run[t].copy.occ>> \in excused

(* Two runs that have the same message in hand: the later of them found no
   record of the earlier. *)
RivalsExcused ==
    \A t \in Triggers, u \in Triggers :
        t # u /\ Running(t) /\ Running(u) /\ run[t].copy.occ = run[u].copy.occ
          => \A ch \in Holding(t) \cap Holding(u) : <<ch, run[t].copy.occ>> \in excused

OnceInv == /\ DayHasCome /\ DayAhead /\ NotYetTold
           /\ Accounted /\ AccountedForReader /\ AccountedForRun /\ RivalsExcused
           /\ NoticedOnce

IInv == CopyInv /\ TimelineInv /\ SuggestionInv /\ ToldInv /\ OnceInv

-----------------------------------------------------------------------------
(* Records, one component at a time. *)

(* Rows whose occurrence may lie beyond the last one. *)
AnyRows == [recurrence : Recurrences, occ : Nat, due : BOOLEAN, completed : BOOLEAN,
            emailSent : BOOLEAN, revision : Nat, live : BOOLEAN]

Same(c, d) == c.recurrence = d.recurrence /\ c.live = d.live

LEMMA OccField ==
  ASSUME NEW c \in AnyRows, NEW x \in Nat
  PROVE  LET d == [c EXCEPT !.occ = x]
         IN  /\ d \in AnyRows /\ Same(d, c) /\ d.occ = x /\ d.due = c.due
             /\ d.completed = c.completed /\ d.emailSent = c.emailSent /\ d.revision = c.revision
BY DEF AnyRows, Same

LEMMA DueField ==
  ASSUME NEW c \in AnyRows, NEW x \in BOOLEAN
  PROVE  LET d == [c EXCEPT !.due = x]
         IN  /\ d \in AnyRows /\ Same(d, c) /\ d.occ = c.occ /\ d.due = x
             /\ d.completed = c.completed /\ d.emailSent = c.emailSent /\ d.revision = c.revision
BY DEF AnyRows, Same

LEMMA CompletedField ==
  ASSUME NEW c \in AnyRows, NEW x \in BOOLEAN
  PROVE  LET d == [c EXCEPT !.completed = x]
         IN  /\ d \in AnyRows /\ Same(d, c) /\ d.occ = c.occ /\ d.due = c.due
             /\ d.completed = x /\ d.emailSent = c.emailSent /\ d.revision = c.revision
BY DEF AnyRows, Same

LEMMA EmailSentField ==
  ASSUME NEW c \in AnyRows, NEW x \in BOOLEAN
  PROVE  LET d == [c EXCEPT !.emailSent = x]
         IN  /\ d \in AnyRows /\ Same(d, c) /\ d.occ = c.occ /\ d.due = c.due
             /\ d.completed = c.completed /\ d.emailSent = x /\ d.revision = c.revision
BY DEF AnyRows, Same

LEMMA RevisionField ==
  ASSUME NEW c \in AnyRows, NEW x \in Nat
  PROVE  LET d == [c EXCEPT !.revision = x]
         IN  /\ d \in AnyRows /\ Same(d, c) /\ d.occ = c.occ /\ d.due = c.due
             /\ d.completed = c.completed /\ d.emailSent = c.emailSent /\ d.revision = x
BY DEF AnyRows, Same

LEMMA RecurrenceField ==
  ASSUME NEW c \in AnyRows, NEW x \in Recurrences
  PROVE  LET d == [c EXCEPT !.recurrence = x]
         IN  /\ d \in AnyRows /\ d.recurrence = x /\ d.live = c.live /\ d.occ = c.occ
             /\ d.due = c.due
             /\ d.completed = c.completed /\ d.emailSent = c.emailSent /\ d.revision = c.revision
BY DEF AnyRows

LEMMA Rescheduling ==
  ASSUME NEW c \in AnyRows, c.recurrence = "completion"
  PROVE  LET d == Completed(c)
         IN  /\ d \in AnyRows /\ Same(d, c) /\ d.occ = c.occ + 1 /\ ~d.due
             /\ ~d.completed /\ ~d.emailSent /\ d.revision = c.revision + 1
<1> DEFINE r1 == [c EXCEPT !.occ = c.occ + 1]
           r2 == [r1 EXCEPT !.due = FALSE]
           r3 == [r2 EXCEPT !.completed = FALSE]
           r4 == [r3 EXCEPT !.emailSent = FALSE]
           r5 == [r4 EXCEPT !.revision = c.revision + 1]
<1>0. c.occ + 1 \in Nat /\ c.revision + 1 \in Nat
  BY DEF AnyRows
<1>1. Completed(c) = r5
  BY DEF Completed
<1>2. r1 \in AnyRows /\ Same(r1, c) /\ r1.occ = c.occ + 1
  BY <1>0, OccField
<1>3. r2 \in AnyRows /\ Same(r2, c) /\ r2.occ = c.occ + 1 /\ r2.due = FALSE
  <2> HIDE DEF r1
  <2> QED BY <1>2, DueField DEF Same
<1>4. r3 \in AnyRows /\ Same(r3, c) /\ r3.occ = c.occ + 1 /\ r3.due = FALSE
      /\ r3.completed = FALSE
  <2> HIDE DEF r1, r2
  <2> QED BY <1>3, CompletedField DEF Same
<1>5. r4 \in AnyRows /\ Same(r4, c) /\ r4.occ = c.occ + 1 /\ r4.due = FALSE
      /\ r4.completed = FALSE /\ r4.emailSent = FALSE
  <2> HIDE DEF r1, r2, r3
  <2> QED BY <1>4, EmailSentField DEF Same
<1>6. r5 \in AnyRows /\ Same(r5, c) /\ r5.occ = c.occ + 1 /\ r5.due = FALSE
      /\ r5.completed = FALSE /\ r5.emailSent = FALSE /\ r5.revision = c.revision + 1
  <2> HIDE DEF r1, r2, r3, r4
  <2> QED BY <1>0, <1>5, RevisionField DEF Same
<1> HIDE DEF r5
<1> QED
  BY <1>1, <1>6

LEMMA CompletingInPlace ==
  ASSUME NEW c \in AnyRows, c.recurrence # "completion"
  PROVE  LET d == Completed(c)
         IN  /\ d \in AnyRows /\ Same(d, c) /\ d.occ = c.occ /\ d.due = c.due
             /\ d.completed /\ d.emailSent = c.emailSent /\ d.revision = c.revision + 1
<1> DEFINE r1 == [c EXCEPT !.completed = TRUE]
           r2 == [r1 EXCEPT !.revision = c.revision + 1]
<1>0. c.revision + 1 \in Nat
  BY DEF AnyRows
<1>1. Completed(c) = r2
  BY DEF Completed
<1>2. /\ r1 \in AnyRows /\ Same(r1, c) /\ r1.occ = c.occ /\ r1.due = c.due
      /\ r1.completed = TRUE /\ r1.emailSent = c.emailSent
  BY CompletedField
<1>3. /\ r2 \in AnyRows /\ Same(r2, c) /\ r2.occ = c.occ /\ r2.due = c.due
      /\ r2.completed = TRUE /\ r2.emailSent = c.emailSent /\ r2.revision = c.revision + 1
  <2> HIDE DEF r1
  <2> QED BY <1>0, <1>2, RevisionField DEF Same
<1> HIDE DEF r2
<1> QED
  BY <1>1, <1>3

LEMMA Mirroring ==
  ASSUME NEW c \in AnyRows
  PROVE  LET d == [c EXCEPT !.emailSent = TRUE, !.revision = @ + 1]
         IN  /\ d \in AnyRows /\ Same(d, c) /\ d.occ = c.occ /\ d.due = c.due
             /\ d.emailSent /\ d.revision = c.revision + 1
<1> DEFINE r1 == [c EXCEPT !.emailSent = TRUE]
           r2 == [r1 EXCEPT !.revision = c.revision + 1]
<1>0. c.revision + 1 \in Nat
  BY DEF AnyRows
<1>1. [c EXCEPT !.emailSent = TRUE, !.revision = @ + 1] = r2
  OBVIOUS
<1>2. r1 \in AnyRows /\ Same(r1, c) /\ r1.occ = c.occ /\ r1.due = c.due /\ r1.emailSent = TRUE
  BY EmailSentField
<1>3. /\ r2 \in AnyRows /\ Same(r2, c) /\ r2.occ = c.occ /\ r2.due = c.due
      /\ r2.emailSent = TRUE /\ r2.revision = c.revision + 1
  <2> HIDE DEF r1
  <2> QED BY <1>0, <1>2, RevisionField DEF Same
<1> HIDE DEF r2
<1> QED
  BY <1>1, <1>3

(* What Update makes of the row it has loaded. *)
WithUpdates(c, recurrence, moved, due) ==
    [c EXCEPT !.recurrence = recurrence, !.revision = @ + 1,
              !.occ = IF moved THEN @ + 1 ELSE @,
              !.due = IF moved THEN due ELSE @]

LEMMA Updating ==
  ASSUME NEW c \in AnyRows, NEW recurrence \in Recurrences,
         NEW moved \in BOOLEAN, NEW due \in BOOLEAN
  PROVE  LET d == WithUpdates(c, recurrence, moved, due)
         IN  /\ d \in AnyRows /\ d.live = c.live
             /\ d.occ = (IF moved THEN c.occ + 1 ELSE c.occ)
             /\ d.due = (IF moved THEN due ELSE c.due)
             /\ d.emailSent = c.emailSent /\ d.revision = c.revision + 1
<1> DEFINE occ == IF moved THEN c.occ + 1 ELSE c.occ
           day == IF moved THEN due ELSE c.due
           r1 == [c EXCEPT !.recurrence = recurrence]
           r2 == [r1 EXCEPT !.revision = c.revision + 1]
           r3 == [r2 EXCEPT !.occ = occ]
           r4 == [r3 EXCEPT !.due = day]
<1>0. c.revision + 1 \in Nat /\ occ \in Nat /\ day \in BOOLEAN
  BY DEF AnyRows
<1>1. WithUpdates(c, recurrence, moved, due) = r4
  BY DEF WithUpdates
<1> HIDE DEF occ, day
<1>2. r1 \in AnyRows /\ r1.live = c.live /\ r1.emailSent = c.emailSent
  BY RecurrenceField
<1>3. /\ r2 \in AnyRows /\ r2.live = c.live /\ r2.emailSent = c.emailSent
      /\ r2.revision = c.revision + 1
  <2> HIDE DEF r1
  <2> QED BY <1>0, <1>2, RevisionField DEF Same
<1>4. /\ r3 \in AnyRows /\ r3.live = c.live /\ r3.emailSent = c.emailSent
      /\ r3.revision = c.revision + 1 /\ r3.occ = occ
  <2> HIDE DEF r1, r2
  <2> QED BY <1>0, <1>3, OccField DEF Same
<1>5. /\ r4 \in AnyRows /\ r4.live = c.live /\ r4.emailSent = c.emailSent
      /\ r4.revision = c.revision + 1 /\ r4.occ = occ /\ r4.due = day
  <2> HIDE DEF r1, r2, r3
  <2> QED BY <1>0, <1>4, DueField DEF Same
<1> USE DEF occ, day
<1> HIDE DEF r4
<1> QED
  BY <1>1, <1>5

LEMMA RowRange ==
  ASSUME NEW c
  PROVE  c \in Rows <=> c \in AnyRows /\ c.occ \in Occurrences /\ c.revision # 0
BY BoundAssumption, FS_CardinalityType DEF Rows, AnyRows, Occurrences

(* What one request does leaves the others alone. *)
OthersStay(q) == \A r \in Requests \ {q} : request'[r] = request[r]

GoesTo(q, s) == /\ request' \in [Requests -> Handlers] /\ OthersStay(q)
                /\ request'[q].op = request[q].op
                /\ request'[q].copy = request[q].copy
                /\ request'[q].step = s

LEMMA StepField ==
  ASSUME NEW f \in [Requests -> Handlers], NEW q \in Requests, NEW s \in Steps
  PROVE  LET g == [f EXCEPT ![q].step = s]
         IN  /\ g \in [Requests -> Handlers]
             /\ g[q].op = f[q].op /\ g[q].copy = f[q].copy /\ g[q].step = s
             /\ \A r \in Requests \ {q} : g[r] = f[r]
BY DEF Handlers

LEMMA CopyField ==
  ASSUME NEW f \in [Requests -> Handlers], NEW q \in Requests, NEW c \in Rows
  PROVE  LET g == [f EXCEPT ![q].copy = c]
         IN  /\ g \in [Requests -> Handlers]
             /\ g[q].op = f[q].op /\ g[q].copy = c /\ g[q].step = f[q].step
             /\ \A r \in Requests \ {q} : g[r] = f[r]
BY DEF Handlers

LEMMA Going ==
  ASSUME TypeOK, NEW q \in Requests, NEW s \in Steps, Goto(q, s)
  PROVE  GoesTo(q, s)
BY StepField DEF Goto, GoesTo, OthersStay, TypeOK

-----------------------------------------------------------------------------
(* What the actions do to the row and to their request. *)

LEMMA SpentFinite ==
  ASSUME NEW S \in SUBSET Requests
  PROVE  /\ IsFiniteSet(S) /\ Cardinality(S) \in Nat /\ Cardinality(Requests) \in Nat
         /\ Cardinality(S) <= Cardinality(Requests)
BY BoundAssumption, FS_Subset, FS_CardinalityType

(* There is an occurrence left for a request that has not written. *)
LEMMA Room ==
  ASSUME CopyInv, NEW q \in Requests, q \notin Spent
  PROVE  /\ row.occ + 1 \in Occurrences
         /\ Cardinality(Spent \cup {q}) = Cardinality(Spent) + 1
<1>1. Spent \in SUBSET Requests /\ Spent \cup {q} \in SUBSET Requests
  BY DEF Spent
<1>2. IsFiniteSet(Spent) /\ Cardinality(Spent) \in Nat /\ Cardinality(Requests) \in Nat
  BY <1>1, SpentFinite
<1>3. Cardinality(Spent \cup {q}) <= Cardinality(Requests)
  BY <1>1, SpentFinite
<1>4. Cardinality(Spent \cup {q}) = Cardinality(Spent) + 1
  BY <1>2, FS_AddElement
<1>5. row.occ \in Nat /\ row.occ <= 1 + Cardinality(Spent)
  BY <1>2 DEF CopyInv, TypeOK, Rows, Occurrences
<1> QED
  BY <1>2, <1>3, <1>4, <1>5 DEF Occurrences

(* The rows a state can have, in the forms the lemmas need. *)
LEMMA RowTypes ==
  ASSUME TypeOK
  PROVE  /\ row \in AnyRows /\ row.occ \in Occurrences /\ row.occ \in Nat
         /\ row.revision \in Nat \ {0} /\ row.live \in BOOLEAN /\ row.due \in BOOLEAN
         /\ row.recurrence \in Recurrences /\ row.emailSent \in BOOLEAN
<1>1. row \in Rows
  BY DEF TypeOK
<1>2. row \in AnyRows /\ row.occ \in Occurrences
  BY <1>1, RowRange
<1> QED
  BY <1>1, <1>2 DEF Rows, AnyRows

LEMMA HandlerTypes ==
  ASSUME TypeOK, NEW q \in Requests
  PROVE  /\ request[q].op \in Ops /\ request[q].step \in Steps /\ request[q].copy \in Rows
         /\ request[q].copy \in AnyRows /\ request[q].copy.occ \in Occurrences
<1>1. request[q].op \in Ops /\ request[q].step \in Steps /\ request[q].copy \in Rows
  BY DEF TypeOK, Handlers
<1> QED
  BY <1>1, RowRange

LEMMA ReadyInFlight ==
  ASSUME NEW q \in Requests, Ready(q)
  PROVE  /\ InFlight(q) /\ q \notin Spent
         /\ \/ request[q].step = "recorded" /\ request[q].op = "complete"
            \/ request[q].step = "loaded" /\ request[q].op # "complete"
<1>1. \/ request[q].step = "recorded" /\ request[q].op = "complete"
      \/ request[q].step = "loaded" /\ request[q].op # "complete"
  BY DEF Ready, AtStep
<1> QED
  BY <1>1 DEF InFlight, Spent

LEMMA Saved ==
  ASSUME CopyInv, NEW q \in Requests, Save(q)
  PROVE  /\ request[q].copy = row /\ row.live /\ row.recurrence # "once"
         /\ row' = Completed(row) /\ row' \in Rows /\ row'.live
         /\ row'.recurrence = row.recurrence /\ row'.revision = row.revision + 1
         /\ \/ /\ row.recurrence = "completion" /\ row'.occ = row.occ + 1
               /\ ~row'.due /\ ~row'.emailSent
            \/ /\ row.recurrence = "fixed" /\ row'.occ = row.occ
               /\ row'.due = row.due /\ row'.emailSent = row.emailSent
<1> DEFINE copy == request[q].copy
<1>1. copy = row /\ row.live /\ row' = Completed(row)
  BY ReadyInFlight DEF CopyInv, CopyTrue, Save, Matches
<1>2. row.recurrence # "once"
  BY <1>1 DEF Save, DeletesRow
<1>3. row.occ + 1 \in Occurrences
  BY Room, ReadyInFlight DEF Save
<1>4. /\ row \in AnyRows /\ row.occ \in Occurrences /\ row.revision \in Nat \ {0}
      /\ row.recurrence \in Recurrences
  BY RowTypes DEF CopyInv
<1>5. row.revision + 1 # 0
  BY <1>4
<1>6. CASE row.recurrence = "completion"
  BY <1>1, <1>3, <1>4, <1>5, <1>6, Rescheduling, RowRange DEF Same
<1>7. CASE row.recurrence = "fixed"
  BY <1>1, <1>4, <1>5, <1>7, CompletingInPlace, RowRange DEF Same
<1> QED
  BY <1>1, <1>2, <1>4, <1>6, <1>7 DEF Recurrences

LEMMA SavedRequest ==
  ASSUME CopyInv, NEW q \in Requests, Save(q)
  PROVE  /\ request' \in [Requests -> Handlers] /\ OthersStay(q)
         /\ request'[q].op = request[q].op /\ request'[q].step = "written"
         /\ request'[q].copy = row'
<1> DEFINE f == [request EXCEPT ![q].step = "written"]
<1>1. request' = [f EXCEPT ![q].copy = row']
  BY DEF Save
<1>2. row' \in Rows
  BY Saved
<1>3. /\ f \in [Requests -> Handlers] /\ f[q].op = request[q].op /\ f[q].step = "written"
      /\ \A r \in Requests \ {q} : f[r] = request[r]
  <2>1. request \in [Requests -> Handlers] /\ "written" \in Steps
    BY DEF CopyInv, TypeOK, Steps
  <2> QED
    BY <2>1, StepField
<1> HIDE DEF f
<1> QED
  BY <1>1, <1>2, <1>3, CopyField DEF OthersStay

LEMMA Updated ==
  ASSUME CopyInv, NEW q \in Requests, NEW recurrence \in Recurrences,
         NEW moved \in BOOLEAN, NEW due \in BOOLEAN, Update(q, recurrence, moved, due)
  PROVE  /\ row.live /\ row' \in Rows /\ row'.live /\ row'.revision = row.revision + 1
         /\ row'.occ = (IF moved THEN row.occ + 1 ELSE row.occ)
         /\ row'.due = (IF moved THEN due ELSE row.due)
         /\ row'.emailSent = row.emailSent
<1> DEFINE copy == request[q].copy
           new == WithUpdates(row, recurrence, moved, due)
<1>1. copy = row /\ row.live
  BY ReadyInFlight DEF CopyInv, CopyTrue, Update, Matches
<1>2. row' = new
  BY <1>1 DEF Update, WithUpdates
<1>3. row.occ + 1 \in Occurrences
  BY Room, ReadyInFlight DEF Update
<1>4. row \in AnyRows /\ row.occ \in Occurrences /\ row.revision \in Nat \ {0}
  BY RowTypes DEF CopyInv
<1>5. row.revision + 1 # 0
  BY <1>4
<1>6. /\ new \in AnyRows /\ new.live = row.live
      /\ new.occ = (IF moved THEN row.occ + 1 ELSE row.occ)
      /\ new.due = (IF moved THEN due ELSE row.due)
      /\ new.emailSent = row.emailSent /\ new.revision = row.revision + 1
  BY <1>4, Updating
<1> HIDE DEF new
<1>7. new \in Rows
  BY <1>3, <1>4, <1>5, <1>6, RowRange
<1> QED
  BY <1>1, <1>2, <1>6, <1>7

LEMMA RunTypes ==
  ASSUME TypeOK, NEW t \in Triggers, Running(t)
  PROVE  /\ run[t] \in Runs /\ run[t].phase \in {"rows", "send", "sent", "saved"}
         /\ run[t].copy \in Rows /\ run[t].copy \in AnyRows /\ run[t].copy.occ \in Occurrences
         /\ run[t].todo \subseteq Channels /\ run[t].at \in Channels \cup {Nil}
<1>1. run[t] \in Runs
  BY DEF TypeOK, Running
<1>2. run[t].copy \in Rows
  BY <1>1 DEF Runs
<1> QED
  BY <1>1, <1>2, RowRange DEF Runs

(* The mirror of a delivery in the row, if the row is still the one that was read. *)
LEMMA Mirrored ==
  ASSUME CopyInv, NEW t \in Triggers, SaveMirror(t)
  PROVE  \/ row' = row
         \/ /\ run[t].copy = row /\ row.live /\ row' \in Rows /\ row'.live
            /\ row'.revision = row.revision + 1 /\ row'.occ = row.occ
            /\ row'.due = row.due /\ row'.emailSent /\ row'.recurrence = row.recurrence
<1> DEFINE new == [row EXCEPT !.emailSent = TRUE, !.revision = @ + 1]
<1>1. CASE ~Matches(run[t].copy)
  BY <1>1 DEF SaveMirror
<1>2. CASE Matches(run[t].copy)
  <2>1. run[t].copy = row /\ row.live
    BY <1>2 DEF CopyInv, CopyTrue, SaveMirror, InPhase, Matches
  <2>2. row' = new
    BY <1>2, <2>1 DEF SaveMirror
  <2>3. row \in AnyRows /\ row.occ \in Occurrences /\ row.revision \in Nat \ {0}
    BY RowTypes DEF CopyInv
  <2>4. row.revision + 1 # 0
    BY <2>3
  <2>5. /\ new \in AnyRows /\ Same(new, row) /\ new.occ = row.occ /\ new.due = row.due
        /\ new.emailSent /\ new.revision = row.revision + 1
    BY <2>3, Mirroring
  <2> HIDE DEF new
  <2>6. new \in Rows
    BY <2>3, <2>4, <2>5, RowRange
  <2> QED
    BY <2>1, <2>2, <2>5, <2>6 DEF Same
<1> QED
  BY <1>1, <1>2

LEMMA DayCame ==
  ASSUME TypeOK, DayComes
  PROVE  /\ row' \in Rows /\ row'.live = row.live /\ row'.occ = row.occ /\ row'.due
         /\ row'.emailSent = row.emailSent /\ row'.revision = row.revision
BY DEF TypeOK, DayComes, Rows

LEMMA RowDeleted ==
  ASSUME TypeOK, NEW q \in Requests, NEW ok \in BOOLEAN, DeleteRow(q, ok)
  PROVE  /\ row' \in Rows /\ row'.live = (row.live /\ ~ok) /\ row'.occ = row.occ
         /\ row'.due = row.due /\ row'.emailSent = row.emailSent
         /\ row'.revision = row.revision /\ (~ok => row' = row)
<1> DEFINE x == row.live /\ ~ok
<1>1. row' = [row EXCEPT !.live = x]
  BY DEF DeleteRow
<1>2. x \in BOOLEAN /\ row \in Rows /\ (~ok => x = row.live)
  BY DEF TypeOK, Rows
<1>3. x = (row.live /\ ~ok)
  OBVIOUS
<1> HIDE DEF x
<1>4. /\ row' \in Rows /\ row'.live = x /\ row'.occ = row.occ
      /\ row'.due = row.due /\ row'.emailSent = row.emailSent
      /\ row'.revision = row.revision /\ (x = row.live => row' = row)
  BY <1>1, <1>2 DEF Rows
<1> QED
  BY <1>2, <1>3, <1>4

-----------------------------------------------------------------------------
(* Types. *)

LEMMA ForgottenType ==
  ASSUME TypeOK, NEW S \in SUBSET Occurrences
  PROVE  Forgotten(S) \subseteq Channels \X Occurrences
<1>1. sent \subseteq Channels
  BY DEF TypeOK
<1>2. \A t \in Triggers : InPhase(t, "rows") => run[t].copy.occ \in Occurrences
  BY RunTypes DEF InPhase
<1> QED
  BY <1>1, <1>2 DEF Forgotten

LEMMA RecordedType ==
  ASSUME TypeOK, NEW S
  PROVE  Recorded(S) \subseteq Occurrences
BY HandlerTypes DEF Recorded, Recorders

(* Every handler but Save and Load only moves on. *)
LEMMA TypeMove ==
  ASSUME TypeOK, NEW q \in Requests, NEW s \in Steps, Goto(q, s),
         UNCHANGED <<run, runs, messages>>, row' \in Rows, sent' \subseteq sent,
         suggestion' \in {"none", "pending", "dismissed"}, timeline' \in [Occurrences -> Nat],
         excused' \subseteq Channels \X Occurrences, contested' \subseteq Occurrences,
         blamed' \subseteq blamed \cup {"moved", "overtaken", "undismissed", "kept", "byUser"}
  PROVE  TypeOK'
<1>1. request' \in [Requests -> Handlers]
  BY Going DEF GoesTo
<1> QED
  BY <1>1 DEF TypeOK

LEMMA TypeHandler ==
  ASSUME CopyInv, NEW q \in Requests, Handle(q)
  PROVE  TypeOK'
<1> USE DEF Steps
<1>0. /\ TypeOK /\ row \in Rows /\ row.occ \in Occurrences
      /\ request[q].copy \in Rows /\ request[q].copy.occ \in Occurrences
      /\ Recorded({q}) \subseteq Occurrences
  BY RowTypes, HandlerTypes, RecordedType DEF CopyInv, TypeOK
<1>a. /\ sent \subseteq sent /\ suggestion \in {"none", "pending", "dismissed"}
      /\ timeline \in [Occurrences -> Nat] /\ excused \subseteq Channels \X Occurrences
      /\ contested \subseteq Occurrences
      /\ blamed \subseteq blamed \cup {"moved", "overtaken", "undismissed", "kept", "byUser"}
  BY <1>0 DEF TypeOK
<1>1. ASSUME NEW op \in Ops, Load(q, op)
      PROVE  TypeOK'
  <2>1. [op |-> op, step |-> "loaded", copy |-> row] \in Handlers
    BY <1>0 DEF Handlers
  <2>2. request' \in [Requests -> Handlers]
    BY <1>0, <1>1, <2>1 DEF Load, TypeOK
  <2>3. contested' \subseteq Occurrences
    BY <1>0, <1>a, <1>1 DEF Load
  <2> QED
    BY <1>0, <1>1, <2>2, <2>3 DEF Load, TypeOK
<1>2. CASE RecordCompletion(q)
  <2>1. timeline' \in [Occurrences -> Nat]
    BY <1>0, <1>a, <1>2 DEF RecordCompletion
  <2> QED
    BY <1>0, <1>a, <1>2, <2>1, TypeMove DEF RecordCompletion
<1>3. CASE ClearBeforeDelete(q)
  <2>1. sent' \subseteq sent
    BY <1>3 DEF ClearBeforeDelete
  <2>2. excused' \subseteq Channels \X Occurrences
    BY <1>0, <1>a, <1>3, ForgottenType DEF ClearBeforeDelete
  <2> QED
    BY <1>0, <1>a, <1>3, <2>1, <2>2, TypeMove DEF ClearBeforeDelete
<1>4. CASE Save(q)
  <2>1. row' \in Rows /\ request' \in [Requests -> Handlers]
    BY <1>4, Saved, SavedRequest
  <2>2. contested' \subseteq Occurrences /\ blamed' \subseteq blamed \cup {"kept", "overtaken"}
    BY <1>0, <1>a, <1>4 DEF Save
  <2> QED
    BY <1>0, <1>4, <2>1, <2>2 DEF Save, TypeOK
<1>5. CASE Refused(q)
  BY <1>0, <1>a, <1>5, TypeMove DEF Refused
<1>6. ASSUME NEW ok \in BOOLEAN, DeleteRow(q, ok)
      PROVE  TypeOK'
  <2>1. row' \in Rows
    BY <1>0, <1>6, RowDeleted
  <2>2. contested' \subseteq Occurrences
    BY <1>0, <1>a, <1>6 DEF DeleteRow
  <2> DEFINE s == IF ok THEN "written" ELSE "done"
  <2>3. s \in Steps /\ Goto(q, s)
    BY <1>6 DEF DeleteRow
  <2> QED
    BY <1>0, <1>a, <1>6, <2>1, <2>2, <2>3, TypeMove DEF DeleteRow
<1>7. ASSUME NEW ok \in BOOLEAN, Dismiss(q, ok)
      PROVE  TypeOK'
  <2>1. suggestion' \in {"none", "pending", "dismissed"}
    BY <1>a, <1>7 DEF Dismiss
  <2>2. blamed' \subseteq blamed \cup {"moved", "overtaken", "undismissed", "kept", "byUser"}
    BY <1>7 DEF Dismiss
  <2> DEFINE s == IF Rescheduled(q) THEN "dismissed" ELSE "done"
  <2>3. s \in Steps /\ Goto(q, s)
    BY <1>7 DEF Dismiss
  <2> QED
    BY <1>0, <1>a, <1>7, <2>1, <2>2, <2>3, TypeMove DEF Dismiss
<1>8. ASSUME NEW ok \in BOOLEAN, ClearAfterReschedule(q, ok)
      PROVE  TypeOK'
  <2>1. sent' \subseteq sent
    BY <1>8 DEF ClearAfterReschedule
  <2>2. blamed' \subseteq blamed \cup {"moved", "overtaken", "undismissed", "kept", "byUser"}
    BY <1>8 DEF ClearAfterReschedule
  <2>3. excused' \subseteq Channels \X Occurrences
    BY <1>0, <1>a, <1>8, ForgottenType DEF ClearAfterReschedule
  <2> QED
    BY <1>0, <1>a, <1>8, <2>1, <2>2, <2>3, TypeMove DEF ClearAfterReschedule
<1>9. ASSUME NEW recurrence \in Recurrences, NEW moved \in BOOLEAN, NEW due \in BOOLEAN,
             Update(q, recurrence, moved, due)
      PROVE  TypeOK'
  <2>1. row' \in Rows
    BY <1>9, Updated
  <2>2. blamed' \subseteq blamed \cup {"moved", "overtaken", "undismissed", "kept", "byUser"}
    BY <1>9 DEF Update
  <2> QED
    BY <1>0, <1>a, <1>9, <2>1, <2>2, TypeMove DEF Update
<1>10. CASE CutShort(q)
  <2>1. contested' \subseteq Occurrences
    BY <1>0, <1>a, <1>10 DEF CutShort
  <2>2. blamed' \subseteq blamed \cup {"moved", "overtaken", "undismissed", "kept", "byUser"}
    BY <1>10 DEF CutShort
  <2> QED
    BY <1>0, <1>a, <1>10, <2>1, <2>2, TypeMove DEF CutShort
<1> QED
  BY <1>1, <1>2, <1>3, <1>4, <1>5, <1>6, <1>7, <1>8, <1>9, <1>10 DEF Handle

(* Records of a run. *)
LEMMA PhaseField ==
  ASSUME NEW r \in Runs, NEW p \in {"rows", "send", "sent", "saved"}
  PROVE  LET d == [r EXCEPT !.phase = p]
         IN d \in Runs /\ d.phase = p /\ d.copy = r.copy /\ d.todo = r.todo /\ d.at = r.at
BY DEF Runs

LEMMA TodoField ==
  ASSUME NEW r \in Runs, NEW t \in SUBSET Channels
  PROVE  LET d == [r EXCEPT !.todo = t]
         IN d \in Runs /\ d.phase = r.phase /\ d.copy = r.copy /\ d.todo = t /\ d.at = r.at
BY DEF Runs

LEMMA AtField ==
  ASSUME NEW r \in Runs, NEW x \in Channels \cup {Nil}
  PROVE  LET d == [r EXCEPT !.at = x]
         IN d \in Runs /\ d.phase = r.phase /\ d.copy = r.copy /\ d.todo = r.todo /\ d.at = x
BY DEF Runs

(* What a step of one run leaves alone. *)
OtherRuns(t) == /\ run' \in [Triggers -> Runs \cup {Nil}]
                /\ \A u \in Triggers \ {t} : run'[u] = run[u]

LEMMA RunChange ==
  ASSUME TypeOK, NEW t \in Triggers, NEW x \in Runs \cup {Nil}, run' = [run EXCEPT ![t] = x]
  PROVE  OtherRuns(t) /\ run'[t] = x
BY DEF TypeOK, OtherRuns

LEMMA Asked ==
  ASSUME TypeOK, NEW t \in Triggers, ReadDeliveries(t)
  PROVE  /\ OtherRuns(t) /\ Running(t) /\ run[t].phase = "rows"
         /\ run'[t] \in Runs /\ run'[t].phase = "send" /\ run'[t].copy = run[t].copy
         /\ run'[t].todo = Eligible(t) /\ run'[t].at = run[t].at
<1> DEFINE r1 == [run[t] EXCEPT !.phase = "send"]
           r2 == [r1 EXCEPT !.todo = Eligible(t)]
<1>1. run' = [run EXCEPT ![t] = r2]
  BY DEF ReadDeliveries
<1>2. Running(t) /\ run[t].phase = "rows"
  BY DEF ReadDeliveries, InPhase
<1>3. run[t] \in Runs /\ Eligible(t) \in SUBSET Channels
  BY <1>2, RunTypes DEF Eligible
<1>4. r1 \in Runs /\ r1.phase = "send" /\ r1.copy = run[t].copy /\ r1.at = run[t].at
  BY <1>3, PhaseField
<1>5. /\ r2 \in Runs /\ r2.phase = "send" /\ r2.copy = run[t].copy /\ r2.at = run[t].at
      /\ r2.todo = Eligible(t)
  <2> HIDE DEF r1
  <2> QED BY <1>3, <1>4, TodoField
<1> HIDE DEF r2
<1> QED
  BY <1>1, <1>2, <1>5, RunChange

LEMMA SentTo ==
  ASSUME TypeOK, NEW t \in Triggers, NEW ch \in Channels, NEW arrived \in BOOLEAN,
         NEW ok \in BOOLEAN, Send(t, ch, arrived, ok)
  PROVE  /\ OtherRuns(t) /\ Running(t) /\ run[t].phase = "send" /\ ch \in run[t].todo
         /\ run'[t] \in Runs /\ run'[t].copy = run[t].copy /\ run'[t].todo = run[t].todo \ {ch}
         /\ run'[t].phase = (IF ok THEN "sent" ELSE "send")
         /\ run'[t].at = (IF ok THEN ch ELSE run[t].at)
<1> DEFINE r1 == [run[t] EXCEPT !.todo = run[t].todo \ {ch}]
           r2 == [r1 EXCEPT !.phase = "sent"]
           r3 == [r2 EXCEPT !.at = ch]
<1>1. run' = [run EXCEPT ![t] = IF ok THEN r3 ELSE r1]
  BY DEF Send
<1>2. Running(t) /\ run[t].phase = "send" /\ ch \in run[t].todo
  <2>1. InPhase(t, "send") /\ ch \in run[t].todo
    BY DEF Send
  <2> QED
    BY <2>1 DEF InPhase
<1>3. run[t] \in Runs /\ run[t].todo \ {ch} \in SUBSET Channels
  BY <1>2, RunTypes
<1>4. /\ r1 \in Runs /\ r1.phase = "send" /\ r1.copy = run[t].copy /\ r1.at = run[t].at
      /\ r1.todo = run[t].todo \ {ch}
  BY <1>2, <1>3, TodoField
<1>5. /\ r2 \in Runs /\ r2.phase = "sent" /\ r2.copy = run[t].copy
      /\ r2.todo = run[t].todo \ {ch}
  <2> HIDE DEF r1
  <2> QED BY <1>4, PhaseField
<1>6. /\ r3 \in Runs /\ r3.phase = "sent" /\ r3.copy = run[t].copy
      /\ r3.todo = run[t].todo \ {ch} /\ r3.at = ch
  <2> HIDE DEF r1, r2
  <2> QED BY <1>5, AtField
<1> HIDE DEF r1, r3
<1>7. OtherRuns(t) /\ run'[t] = IF ok THEN r3 ELSE r1
  BY <1>1, <1>4, <1>6, RunChange
<1> QED
  BY <1>2, <1>4, <1>6, <1>7

LEMMA MirrorSaved ==
  ASSUME TypeOK, NEW t \in Triggers, SaveMirror(t)
  PROVE  /\ OtherRuns(t) /\ Running(t) /\ run[t].phase = "sent" /\ run[t].at = Email
         /\ run'[t] \in Runs /\ run'[t].copy = run[t].copy /\ run'[t].todo = run[t].todo
         /\ run'[t].phase = "saved" /\ run'[t].at = run[t].at
<1> DEFINE r1 == [run[t] EXCEPT !.phase = "saved"]
<1>1. Running(t) /\ run[t].phase = "sent" /\ run[t].at = Email
  BY DEF SaveMirror, InPhase
<1>2. run' = [run EXCEPT ![t] = r1]
  BY DEF SaveMirror
<1>3. /\ r1 \in Runs /\ r1.phase = "saved" /\ r1.copy = run[t].copy /\ r1.todo = run[t].todo
      /\ r1.at = run[t].at
  BY <1>1, RunTypes, PhaseField
<1> HIDE DEF r1
<1> QED
  BY <1>1, <1>2, <1>3, RunChange

LEMMA SentRecorded ==
  ASSUME TypeOK, NEW t \in Triggers, NEW ok \in BOOLEAN, RecordSent(t, ok)
  PROVE  /\ OtherRuns(t) /\ Running(t)
         /\ run[t].phase = (IF run[t].at = Email THEN "saved" ELSE "sent")
         /\ run'[t] \in Runs /\ run'[t].copy = run[t].copy /\ run'[t].todo = run[t].todo
         /\ run'[t].phase = "send" /\ run'[t].at = Nil
<1> DEFINE r1 == [run[t] EXCEPT !.phase = "send"]
           r2 == [r1 EXCEPT !.at = Nil]
<1>1. run' = [run EXCEPT ![t] = r2]
  BY DEF RecordSent
<1>2. Running(t) /\ run[t].phase = (IF run[t].at = Email THEN "saved" ELSE "sent")
  BY DEF RecordSent, InPhase
<1>3. run[t] \in Runs
  BY <1>2, RunTypes
<1>4. r1 \in Runs /\ r1.phase = "send" /\ r1.copy = run[t].copy /\ r1.todo = run[t].todo
  BY <1>3, PhaseField
<1>5. /\ r2 \in Runs /\ r2.phase = "send" /\ r2.copy = run[t].copy
      /\ r2.todo = run[t].todo /\ r2.at = Nil
  <2> HIDE DEF r1
  <2> QED BY <1>4, AtField
<1> HIDE DEF r2
<1> QED
  BY <1>1, <1>2, <1>5, RunChange

LEMMA RowsRead ==
  ASSUME TypeOK, NEW t \in Triggers, ReadRows(t)
  PROVE  /\ OtherRuns(t) /\ ~Running(t) /\ run'[t] \in Runs /\ run'[t].phase = "rows"
         /\ run'[t].copy = row /\ run'[t].todo = {} /\ run'[t].at = Nil
         /\ row.live /\ row.due /\ ~row.completed
<1> DEFINE r1 == [phase |-> "rows", copy |-> row, todo |-> {}, at |-> Nil]
<1>1. r1 \in Runs
  BY DEF TypeOK, Runs
<1>2. run' = [run EXCEPT ![t] = r1]
  BY DEF ReadRows
<1>3. OtherRuns(t) /\ run'[t] = r1
  BY <1>1, <1>2, RunChange
<1> QED
  BY <1>1, <1>3 DEF ReadRows

LEMMA RunOver ==
  ASSUME TypeOK, NEW t \in Triggers, EndRun(t) \/ RunDies(t)
  PROVE  OtherRuns(t) /\ Running(t) /\ run'[t] = Nil
BY RunChange DEF EndRun, RunDies, InPhase

LEMMA TypeRun ==
  ASSUME CopyInv, \/ DayComes \/ DismissSuggestion
                  \/ \E t \in Triggers : RunReminders(t)
  PROVE  TypeOK'
<1>0. TypeOK
  BY DEF CopyInv
<1>a. ASSUME NEW t \in Triggers, OtherRuns(t), row' \in Rows, sent' \subseteq Channels,
             messages' \in [Channels -> [Occurrences -> Nat]],
             excused' \subseteq Channels \X Occurrences, runs' \in 0 .. MaxWork,
             UNCHANGED <<suggestion, timeline, request, contested, blamed>>
      PROVE  TypeOK'
  BY <1>0, <1>a DEF TypeOK, OtherRuns
<1>b. /\ row \in Rows /\ sent \subseteq Channels
      /\ messages \in [Channels -> [Occurrences -> Nat]]
      /\ excused \subseteq Channels \X Occurrences /\ runs \in 0 .. MaxWork
  BY <1>0 DEF TypeOK
<1>1. ASSUME NEW t \in Triggers, ReadRows(t) PROVE TypeOK'
  <2>1. runs' \in 0 .. MaxWork
    <3> DEFINE begun == {q \in Requests : request[q].step # "idle"}
    <3>1. Cardinality(begun) \in Nat
      BY SpentFinite
    <3>2. runs + Cardinality(begun) < MaxWork /\ runs' = runs + 1
      BY <1>1 DEF ReadRows, WorkLeft
    <3> HIDE DEF begun
    <3> QED
      BY <1>b, <3>1, <3>2, BoundAssumption
  <2> QED
    BY <1>0, <1>a, <1>b, <1>1, <2>1, RowsRead DEF ReadRows
<1>2. ASSUME NEW t \in Triggers, ReadDeliveries(t) PROVE TypeOK'
  <2>1. run[t].copy.occ \in Occurrences /\ Eligible(t) \subseteq Channels
    BY <1>0, <1>2, Asked, RunTypes DEF Eligible
  <2>2. excused' \subseteq Channels \X Occurrences
    BY <1>b, <1>2, <2>1 DEF ReadDeliveries
  <2> QED
    BY <1>0, <1>a, <1>b, <1>2, <2>2, Asked DEF ReadDeliveries
<1>3. ASSUME NEW t \in Triggers, SaveMirror(t) PROVE TypeOK'
  <2>1. row' \in Rows
    BY <1>b, <1>3, Mirrored
  <2> QED
    BY <1>0, <1>a, <1>b, <1>3, <2>1, MirrorSaved DEF SaveMirror
<1>4. ASSUME NEW t \in Triggers, EndRun(t) PROVE TypeOK'
  BY <1>0, <1>a, <1>b, <1>4, RunOver DEF EndRun
<1>5. ASSUME NEW t \in Triggers, RunDies(t) PROVE TypeOK'
  <2>1. run[t].copy.occ \in Occurrences /\ run[t].at \in Channels \cup {Nil}
    BY <1>0, <1>5, RunOver, RunTypes
  <2>2. excused' \subseteq Channels \X Occurrences
    BY <1>b, <1>5, <2>1 DEF RunDies
  <2> QED
    BY <1>0, <1>a, <1>b, <1>5, <2>2, RunOver DEF RunDies
<1>6. CASE DayComes
  BY <1>0, <1>6, DayCame DEF TypeOK, DayComes
<1>7. ASSUME NEW t \in Triggers, NEW ch \in Channels, NEW arrived \in BOOLEAN, NEW ok \in BOOLEAN,
             Send(t, ch, arrived, ok)
      PROVE  TypeOK'
  <2>1. run[t].copy.occ \in Occurrences
    BY <1>0, <1>7, SentTo, RunTypes
  <2>2. messages' \in [Channels -> [Occurrences -> Nat]]
    <3>1. [messages EXCEPT ![ch][run[t].copy.occ] = @ + 1] \in [Channels -> [Occurrences -> Nat]]
      BY <1>b, <2>1
    <3> QED
      BY <1>b, <1>7, <3>1 DEF Send
  <2>3. excused' \subseteq Channels \X Occurrences
    <3>1. excused' = IF arrived /\ ~ok THEN excused \cup {<<ch, run[t].copy.occ>>} ELSE excused
      BY <1>7 DEF Send
    <3> QED
      BY <1>b, <2>1, <3>1
  <2> QED
    BY <1>0, <1>a, <1>b, <1>7, <2>2, <2>3, SentTo DEF Send
<1>8. ASSUME NEW t \in Triggers, NEW ok \in BOOLEAN, RecordSent(t, ok) PROVE TypeOK'
  <2>1. Running(t) /\ run[t].phase \in {"sent", "saved"}
    BY <1>0, <1>8, SentRecorded
  <2>2. run[t].copy.occ \in Occurrences /\ run[t].at \in Channels
    BY <1>0, <2>1, RunTypes DEF CopyInv
  <2>3. sent' \subseteq Channels /\ excused' \subseteq Channels \X Occurrences
    BY <1>b, <1>8, <2>2 DEF RecordSent
  <2> QED
    BY <1>0, <1>a, <1>b, <1>8, <2>3, SentRecorded DEF RecordSent
<1>9. CASE DismissSuggestion
  BY <1>0, <1>9 DEF TypeOK, DismissSuggestion
<1> QED
  BY <1>1, <1>2, <1>3, <1>4, <1>5, <1>6, <1>7, <1>8, <1>9 DEF RunReminders

-----------------------------------------------------------------------------
(* Copies. *)

(* A row that was written has a revision of its own, and a dead one stays dead. *)
Onward(r, s) == /\ r.occ <= s.occ /\ r.revision <= s.revision
                /\ s.live => r.live /\ (s = r \/ r.revision < s.revision)

LEMMA CopyKept ==
  ASSUME NEW c \in Rows, NEW r \in Rows, NEW s \in Rows, CopyTrue(c, r), Onward(r, s)
  PROVE  CopyTrue(c, s)
<1>1. /\ c.revision \in Nat /\ r.revision \in Nat /\ s.revision \in Nat
      /\ c.occ \in Nat /\ r.occ \in Nat /\ s.occ \in Nat
  BY RowRange DEF AnyRows
<1> QED
  BY <1>1 DEF CopyTrue, Onward

LEMMA StandsOnward ==
  ASSUME NEW r \in Rows
  PROVE  Onward(r, r) /\ (r.live => CopyTrue(r, r))
<1>1. r.revision \in Nat /\ r.occ \in Nat
  BY RowRange DEF AnyRows
<1> QED
  BY <1>1 DEF CopyTrue, Onward

Writes(s) == s \in {"written", "dismissed", "done"}

(* What any handler does to the row, to its copy, and to the count of requests. *)
HandlerMoves(q) ==
    /\ OthersStay(q)
    /\ \/ ~InFlight(q) /\ request'[q].copy = row /\ row.live /\ row' = row
       \/ InFlight(q) /\ request'[q].copy = row' /\ row'.live
       \/ InFlight(q) /\ request'[q].copy = request[q].copy
    /\ q \in Spent => Writes(request'[q].step)
    /\ row'.occ # row.occ =>
          row'.occ = row.occ + 1 /\ q \notin Spent /\ Writes(request'[q].step)
    /\ Onward(row, row')
    /\ UNCHANGED run

LEMMA Moving ==
  ASSUME TypeOK, NEW q \in Requests, NEW s \in Steps, Goto(q, s), InFlight(q),
         q \in Spent => Writes(s), UNCHANGED <<row, run>>
  PROVE  HandlerMoves(q)
<1>1. GoesTo(q, s) /\ row \in Rows
  BY Going DEF TypeOK
<1> QED
  BY <1>1, StandsOnward DEF HandlerMoves, GoesTo

LEMMA HandlersMove ==
  ASSUME CopyInv, NEW q \in Requests, Handle(q)
  PROVE  HandlerMoves(q)
<1> USE DEF Steps
<1>0. /\ TypeOK /\ row \in Rows /\ row.occ \in Nat /\ row.revision \in Nat
      /\ row.live \in BOOLEAN
  BY RowTypes DEF CopyInv, TypeOK
<1>1. ASSUME NEW op \in Ops, Load(q, op)
      PROVE  HandlerMoves(q)
  <2>1. request' = [request EXCEPT ![q] = [op |-> op, step |-> "loaded", copy |-> row]]
    BY <1>1 DEF Load
  <2>2. OthersStay(q) /\ request'[q].copy = row /\ request'[q].step = "loaded"
    BY <1>0, <2>1 DEF OthersStay, TypeOK
  <2> QED
    BY <1>0, <1>1, <2>2, StandsOnward DEF HandlerMoves, Load, AtStep, InFlight, Spent, Found
<1>2. CASE RecordCompletion(q)
  BY <1>0, <1>2, Moving DEF RecordCompletion, AtStep, InFlight, Spent
<1>3. CASE ClearBeforeDelete(q)
  BY <1>0, <1>3, Moving, ReadyInFlight DEF ClearBeforeDelete
<1>4. CASE Save(q)
  <2>1. Onward(row, row')
    BY <1>0, <1>4, Saved DEF Onward
  <2>2. InFlight(q) /\ q \notin Spent
    BY <1>4, ReadyInFlight DEF Save
  <2> QED
    BY <1>0, <1>4, <2>1, <2>2, Saved, SavedRequest DEF HandlerMoves, Writes, Save
<1>5. CASE Refused(q)
  BY <1>0, <1>5, Moving, ReadyInFlight DEF Refused
<1>6. ASSUME NEW ok \in BOOLEAN, DeleteRow(q, ok)
      PROVE  HandlerMoves(q)
  <2> DEFINE s == IF ok THEN "written" ELSE "done"
  <2>1. s \in Steps /\ Goto(q, s) /\ InFlight(q) /\ q \notin Spent
    BY <1>6 DEF DeleteRow, AtStep, InFlight, Spent
  <2>2. GoesTo(q, s)
    BY <1>0, <2>1, Going
  <2>3. Onward(row, row') /\ row'.occ = row.occ
    <3>1. /\ row'.live = (row.live /\ ~ok) /\ row'.occ = row.occ
          /\ row'.revision = row.revision /\ (~ok => row' = row)
      BY <1>0, <1>6, RowDeleted
    <3>2. row'.live => ~ok
      BY <3>1
    <3> QED
      BY <1>0, <3>1, <3>2 DEF Onward
  <2> QED
    BY <1>6, <2>1, <2>2, <2>3 DEF HandlerMoves, GoesTo, DeleteRow
<1>7. ASSUME NEW ok \in BOOLEAN, Dismiss(q, ok)
      PROVE  HandlerMoves(q)
  <2> DEFINE s == IF Rescheduled(q) THEN "dismissed" ELSE "done"
  <2>1. s \in Steps /\ Goto(q, s) /\ InFlight(q) /\ Writes(s)
    BY <1>7 DEF Dismiss, Written, AtStep, InFlight, Writes
  <2> QED
    BY <1>0, <1>7, <2>1, Moving DEF Dismiss
<1>8. ASSUME NEW ok \in BOOLEAN, ClearAfterReschedule(q, ok)
      PROVE  HandlerMoves(q)
  BY <1>0, <1>8, Moving DEF ClearAfterReschedule, AtStep, InFlight, Writes
<1>9. ASSUME NEW recurrence \in Recurrences, NEW moved \in BOOLEAN, NEW due \in BOOLEAN,
             Update(q, recurrence, moved, due)
      PROVE  HandlerMoves(q)
  <2>1. Onward(row, row')
    BY <1>0, <1>9, Updated DEF Onward
  <2>2. InFlight(q) /\ q \notin Spent
    BY <1>9, ReadyInFlight DEF Update
  <2>3. GoesTo(q, "done")
    BY <1>0, <1>9, Going DEF Update
  <2> QED
    BY <1>0, <1>9, <2>1, <2>2, <2>3, Updated DEF HandlerMoves, GoesTo, Writes, Update
<1>10. CASE CutShort(q)
  BY <1>0, <1>10, Moving DEF CutShort, Writes
<1> QED
  BY <1>1, <1>2, <1>3, <1>4, <1>5, <1>6, <1>7, <1>8, <1>9, <1>10 DEF Handle

LEMMA SpentGrows ==
  ASSUME NEW S \in SUBSET Requests, NEW T \in SUBSET Requests, S \subseteq T
  PROVE  /\ Cardinality(S) <= Cardinality(T)
         /\ Cardinality(S) \in Nat /\ Cardinality(T) \in Nat
BY SpentFinite, FS_Subset

LEMMA CopyOfHandlers ==
  ASSUME CopyInv, TypeOK', NEW q \in Requests, HandlerMoves(q)
  PROVE  CopyInv'
<1>1. /\ TypeOK /\ row \in Rows /\ row' \in Rows /\ Onward(row, row') /\ run' = run
      /\ row.occ \in Nat
  BY RowTypes DEF CopyInv, TypeOK, HandlerMoves
<1>2. ASSUME NEW r \in Requests, InFlight(r)'
      PROVE  CopyTrue(request'[r].copy, row')
  <2>1. CASE InFlight(r) /\ request'[r].copy = request[r].copy
    <3>1. request[r].copy \in Rows /\ CopyTrue(request[r].copy, row)
      BY <1>1, <2>1, HandlerTypes DEF CopyInv
    <3> QED
      BY <1>1, <2>1, <3>1, CopyKept
  <2>2. CASE r # q
    BY <1>2, <2>1, <2>2 DEF HandlerMoves, OthersStay, InFlight
  <2>3. CASE r = q /\ row.live /\ request'[q].copy = row /\ row' = row
    BY <1>1, <2>3, StandsOnward
  <2>4. CASE r = q /\ row'.live /\ request'[q].copy = row'
    BY <1>1, <2>4, StandsOnward
  <2> QED
    BY <2>1, <2>2, <2>3, <2>4 DEF HandlerMoves
<1>3. ASSUME NEW t \in Triggers, Running(t)'
      PROVE  /\ CopyTrue(run'[t].copy, row')
             /\ run'[t].at # Nil <=> run'[t].phase \in {"sent", "saved"}
  BY <1>1, <1>3, CopyKept, RunTypes DEF CopyInv, Running
<1>4. row'.occ <= 1 + Cardinality(Spent')
  <2>1. /\ Spent \in SUBSET Requests /\ Spent' \in SUBSET Requests
        /\ Spent \cup {q} \in SUBSET Requests
    BY DEF Spent
  <2>2. Spent \subseteq Spent'
    BY DEF Spent, HandlerMoves, OthersStay, Writes
  <2>3. CASE row'.occ = row.occ
    BY <1>1, <2>1, <2>2, <2>3, SpentGrows DEF CopyInv
  <2>4. CASE row'.occ = row.occ + 1 /\ q \notin Spent /\ Writes(request'[q].step)
    <3>1. Spent \cup {q} \subseteq Spent'
      BY <2>2, <2>4 DEF Spent, Writes
    <3>2. /\ Cardinality(Spent \cup {q}) <= Cardinality(Spent')
          /\ Cardinality(Spent) \in Nat /\ Cardinality(Spent') \in Nat
      BY <2>1, <3>1, SpentGrows
    <3> QED
      BY <1>1, <2>4, <3>2, Room DEF CopyInv
  <2> QED
    BY <2>3, <2>4 DEF HandlerMoves
<1> QED
  BY <1>2, <1>3, <1>4 DEF CopyInv

(* A step of a run, and of no request. *)
LEMMA CopyOfRun ==
  ASSUME CopyInv, TypeOK', NEW t \in Triggers, OtherRuns(t),
         UNCHANGED request, Onward(row, row'), row'.occ = row.occ,
         \/ run'[t] = Nil
         \/ Running(t) /\ run'[t].copy = run[t].copy
         \/ row.live /\ row' = row /\ run'[t].copy = row,
         run'[t] # Nil => (run'[t].at # Nil <=> run'[t].phase \in {"sent", "saved"})
  PROVE  CopyInv'
<1>1. TypeOK /\ row \in Rows /\ row' \in Rows
  BY DEF CopyInv, TypeOK
<1>2. ASSUME NEW r \in Requests, InFlight(r)'
      PROVE  CopyTrue(request'[r].copy, row')
  BY <1>1, <1>2, CopyKept, HandlerTypes DEF CopyInv, InFlight
<1>3. ASSUME NEW u \in Triggers, Running(u)'
      PROVE  /\ CopyTrue(run'[u].copy, row')
             /\ run'[u].at # Nil <=> run'[u].phase \in {"sent", "saved"}
  <2>1. CASE u # t
    <3>1. run'[u] = run[u] /\ Running(u)
      BY <1>3, <2>1 DEF OtherRuns, Running
    <3> QED
      BY <1>1, <3>1, CopyKept, RunTypes DEF CopyInv
  <2>2. CASE u = t /\ Running(t) /\ run'[t].copy = run[t].copy
    BY <1>1, <1>3, <2>2, CopyKept, RunTypes DEF CopyInv, Running
  <2>3. CASE u = t /\ row.live /\ row' = row /\ run'[t].copy = row
    BY <1>1, <1>3, <2>3, StandsOnward DEF Running
  <2> QED
    BY <1>3, <2>1, <2>2, <2>3 DEF Running
<1>4. Spent' = Spent
  BY DEF Spent
<1> QED
  BY <1>2, <1>3, <1>4 DEF CopyInv

LEMMA CopyStep ==
  ASSUME CopyInv, [Next]_vars
  PROVE  CopyInv'
<1>0. /\ TypeOK /\ row \in Rows /\ row.occ \in Nat /\ row.revision \in Nat
      /\ row.live \in BOOLEAN /\ Onward(row, row)
  BY RowTypes, StandsOnward DEF CopyInv, TypeOK
<1>1. ASSUME NEW q \in Requests, Handle(q)
      PROVE  CopyInv'
  BY <1>1, HandlersMove, TypeHandler, CopyOfHandlers
<1>2. ASSUME NEW t \in Triggers, RunReminders(t)
      PROVE  CopyInv'
  <2>0. TypeOK'
    BY <1>2, TypeRun
  <2>1. CASE ReadRows(t)
    BY <1>0, <2>0, <2>1, RowsRead, CopyOfRun DEF ReadRows
  <2>2. CASE ReadDeliveries(t)
    <3>1. run[t].at = Nil
      BY <1>0, <2>2, Asked DEF CopyInv
    <3> QED
      BY <1>0, <2>0, <2>2, <3>1, Asked, CopyOfRun DEF ReadDeliveries
  <2>3. CASE SaveMirror(t)
    <3>1. Onward(row, row') /\ row'.occ = row.occ
      BY <1>0, <2>3, Mirrored DEF Onward
    <3>2. run[t].at # Nil
      BY <1>0, <2>3, MirrorSaved DEF CopyInv
    <3>3. request' = request
      BY <2>3 DEF SaveMirror
    <3> QED
      BY <1>0, <2>0, <2>3, <3>1, <3>2, <3>3, MirrorSaved, CopyOfRun
  <2>4. CASE EndRun(t)
    BY <1>0, <2>0, <2>4, RunOver, CopyOfRun DEF EndRun
  <2>5. CASE RunDies(t)
    BY <1>0, <2>0, <2>5, RunOver, CopyOfRun DEF RunDies
  <2>6. ASSUME NEW ch \in Channels, NEW arrived \in BOOLEAN, NEW ok \in BOOLEAN,
               Send(t, ch, arrived, ok)
        PROVE  CopyInv'
    <3>1. run[t].at = Nil /\ ch # Nil
      BY <1>0, <2>6, SentTo, EmailAssumption DEF CopyInv
    <3>2. UNCHANGED <<row, request>>
      BY <2>6 DEF Send
    <3> QED
      BY <1>0, <2>0, <2>6, <3>1, <3>2, SentTo, CopyOfRun
  <2>7. ASSUME NEW ok \in BOOLEAN, RecordSent(t, ok)
        PROVE  CopyInv'
    BY <1>0, <2>0, <2>7, SentRecorded, CopyOfRun DEF RecordSent
  <2> QED
    BY <1>2, <2>1, <2>2, <2>3, <2>4, <2>5, <2>6, <2>7 DEF RunReminders
<1>3. CASE DayComes
  <2>1. TypeOK'
    BY <1>3, TypeRun
  <2>2. row'.occ = row.occ
    BY <1>0, <1>3, DayCame
  <2>3. /\ request' = request /\ \A q \in Requests : ~InFlight(q)'
        /\ \A t \in Triggers : ~Running(t)'
    BY <1>3 DEF DayComes, InFlight, Running
  <2>4. Spent' = Spent
    BY <2>3 DEF Spent
  <2> QED
    BY <2>1, <2>2, <2>3, <2>4 DEF CopyInv
<1>4. CASE DismissSuggestion \/ UNCHANGED vars
  <2>1. UNCHANGED <<row, request, run>> /\ TypeOK'
    BY <1>0, <1>4, TypeRun DEF DismissSuggestion, vars, TypeOK
  <2> QED
    BY <2>1 DEF CopyInv, InFlight, Running, Spent
<1> QED
  BY <1>1, <1>2, <1>3, <1>4 DEF Next

-----------------------------------------------------------------------------
(* The timeline. *)

LEMMA TimelineTypes ==
  ASSUME CopyInv
  PROVE  /\ row.occ \in Occurrences /\ row.occ \in Nat /\ row.live \in BOOLEAN
         /\ timeline \in [Occurrences -> Nat] /\ contested \subseteq Occurrences
         /\ \A o \in Occurrences : o \in Nat
         /\ \A q \in Recorders : request[q].copy.occ \in Occurrences
                                 /\ request[q].copy.occ <= row.occ
<1>1. TypeOK
  BY DEF CopyInv
<1>2. \A q \in Recorders : request[q].copy.occ <= row.occ
  BY DEF CopyInv, CopyTrue, Recorders
<1> QED
  BY <1>1, <1>2, RowTypes, HandlerTypes DEF TypeOK, Occurrences, Recorders

LEMMA OtherRecorders ==
  ASSUME NEW q \in Requests, OthersStay(q), NEW r \in Requests, r # q
  PROVE  /\ request'[r] = request[r] /\ (r \in Recorders' <=> r \in Recorders)
         /\ AtStep(r, "loaded")' <=> AtStep(r, "loaded")
BY DEF OthersStay, Recorders, InFlight, AtStep

(* Requests stay, or stop recording: their occurrences are contested, or they
   had nothing in the timeline, or the reminder is gone or has moved on. *)
LEMMA TimelineStays ==
  ASSUME CopyInv, TimelineInv, CopyInv', NEW q \in Requests, OthersStay(q),
         UNCHANGED timeline, contested \subseteq contested', Onward(row, row'),
         request'[q].op = request[q].op, request'[q].step # "loaded",
         InFlight(q)' => InFlight(q),
         \/ request'[q].copy.occ = request[q].copy.occ
         \/ request'[q].copy.occ > row.occ
         \/ request'[q].copy.occ \in contested',
         \/ ~row'.live \/ row'.occ # row.occ \/ row.occ \in contested'
         \/ q \notin Recorders
         \/ request[q].step \notin {"recorded", "cleared"}
         \/ request[q].copy.occ # row.occ
         \/ /\ InFlight(q)' /\ request'[q].copy.occ = request[q].copy.occ
            /\ request'[q].step \in {"recorded", "cleared"}
  PROVE  TimelineInv'
<1>1. /\ row.occ \in Nat /\ row'.occ \in Nat /\ row'.occ \in Occurrences
      /\ \A o \in Occurrences : o \in Nat
      /\ timeline \in [Occurrences -> Nat] /\ row.occ <= row'.occ /\ (row'.live => row.live)
      /\ \A r \in Recorders : request[r].copy.occ <= row.occ /\ request[r].copy.occ \in Occurrences
  <2>1. row' \in Rows
    BY DEF CopyInv, TypeOK
  <2> QED
    BY <2>1, TimelineTypes, RowRange DEF Onward, AnyRows
<1>2. q \in Recorders' => q \in Recorders
  BY DEF Recorders
<1>3. RecordersApart'
  <2> SUFFICES ASSUME NEW a \in Recorders', NEW b \in Recorders', a # b,
                      request'[a].copy.occ = request'[b].copy.occ
               PROVE  request'[a].copy.occ \in contested'
    BY DEF RecordersApart
  <2>1. a \in Requests /\ b \in Requests /\ a \in Recorders /\ b \in Recorders
    BY <1>2, OtherRecorders DEF Recorders
  <2>2. CASE /\ request'[a].copy.occ = request[a].copy.occ
             /\ request'[b].copy.occ = request[b].copy.occ
    BY <2>1, <2>2 DEF TimelineInv, RecordersApart
  <2>3. CASE a = q /\ request'[q].copy.occ > row.occ
    BY <1>1, <2>1, <2>3, OtherRecorders
  <2>4. CASE b = q /\ request'[q].copy.occ > row.occ
    BY <1>1, <2>1, <2>4, OtherRecorders
  <2>5. CASE (a = q \/ b = q) /\ request'[q].copy.occ \in contested'
    BY <2>5
  <2> QED
    BY <2>1, <2>2, <2>3, <2>4, <2>5, OtherRecorders
<1>4. NotYetRecorded'
  <2> SUFFICES ASSUME NEW a \in Recorders', AtStep(a, "loaded")',
                      request'[a].copy.occ \notin contested'
               PROVE  timeline'[request'[a].copy.occ] = 0
    BY DEF NotYetRecorded
  <2>1. a \in Requests /\ a # q
    BY DEF Recorders, AtStep
  <2> QED
    BY <2>1, OtherRecorders DEF TimelineInv, NotYetRecorded
<1>5. NoneAhead'
  BY <1>1 DEF TimelineInv, NoneAhead
<1>6. RecordedByOne'
  <2> SUFFICES ASSUME row'.live, row'.occ \notin contested', timeline'[row'.occ] # 0
               PROVE  \E a \in Recorders' : request'[a].copy.occ = row'.occ
                                            /\ request'[a].step \in {"recorded", "cleared"}
    BY DEF RecordedByOne
  <2>1. row'.occ = row.occ
    BY <1>1 DEF TimelineInv, NoneAhead
  <2>2. PICK a \in Recorders : request[a].copy.occ = row.occ
                               /\ request[a].step \in {"recorded", "cleared"}
    BY <1>1, <2>1 DEF TimelineInv, RecordedByOne
  <2>3. CASE a # q
    BY <2>1, <2>2, <2>3, OtherRecorders DEF Recorders
  <2>4. CASE a = q
    BY <2>1, <2>2, <2>4 DEF Recorders
  <2> QED
    BY <2>3, <2>4
<1> QED
  BY <1>3, <1>4, <1>5, <1>6 DEF TimelineInv, TimelineIsTrue

LEMMA TimelineFrame ==
  ASSUME TimelineInv, UNCHANGED <<timeline, request, contested>>,
         row'.occ = row.occ, row'.live => row.live
  PROVE  TimelineInv'
<1>1. Recorders' = Recorders
  BY DEF Recorders, InFlight
<1> QED
  BY <1>1 DEF TimelineInv, RecordersApart, NotYetRecorded, RecordedByOne, NoneAhead,
              TimelineIsTrue, AtStep

LEMMA TimelineOfLoad ==
  ASSUME CopyInv, TimelineInv, NEW q \in Requests, NEW op \in Ops, Load(q, op)
  PROVE  TimelineInv'
<1>1. /\ OthersStay(q) /\ request'[q].op = op /\ request'[q].step = "loaded"
      /\ request'[q].copy = row
  BY DEF Load, OthersStay, CopyInv, TypeOK
<1>2. q \notin Recorders /\ UNCHANGED <<row, timeline>>
  BY DEF Load, AtStep, InFlight, Recorders
<1>3. contested' = contested \cup
          {row.occ : other \in {r \in Recorders : op = "complete" /\ request[r].copy.occ = row.occ}}
  BY DEF Load
<1>4. contested \subseteq contested'
  BY <1>3
<1>5. \A r \in Recorders : op = "complete" /\ request[r].copy.occ = row.occ
                          => row.occ \in contested'
  BY <1>3
<1> HIDE <1>3
<1>6. q \in Recorders' => op = "complete"
  BY <1>1 DEF Recorders
<1>7. RecordersApart'
  <2> SUFFICES ASSUME NEW a \in Recorders', NEW b \in Recorders', a # b,
                      request'[a].copy.occ = request'[b].copy.occ
               PROVE  request'[a].copy.occ \in contested'
    BY DEF RecordersApart
  <2>1. a \in Requests /\ b \in Requests
    BY DEF Recorders
  <2>2. CASE a # q /\ b # q
    BY <1>1, <1>4, <2>1, <2>2, OtherRecorders DEF TimelineInv, RecordersApart
  <2>3. CASE a = q
    BY <1>1, <1>5, <1>6, <2>1, <2>3, OtherRecorders
  <2>4. CASE b = q
    BY <1>1, <1>5, <1>6, <2>1, <2>4, OtherRecorders
  <2> QED
    BY <2>2, <2>3, <2>4
<1>8. NotYetRecorded'
  <2> SUFFICES ASSUME NEW a \in Recorders', AtStep(a, "loaded")',
                      request'[a].copy.occ \notin contested'
               PROVE  timeline'[request'[a].copy.occ] = 0
    BY DEF NotYetRecorded
  <2>1. a \in Requests
    BY DEF Recorders
  <2>2. CASE a # q
    BY <1>1, <1>2, <1>4, <2>1, <2>2, OtherRecorders DEF TimelineInv, NotYetRecorded
  <2>3. CASE a = q
    <3>1. row.live /\ op = "complete" /\ row.occ \notin contested
      BY <1>1, <1>4, <1>6, <2>3 DEF Load, Found
    <3>2. \A r \in Recorders : request[r].copy.occ # row.occ
      BY <1>1, <1>5, <2>3, <3>1
    <3> QED
      BY <1>1, <1>2, <2>3, <3>1, <3>2 DEF TimelineInv, RecordedByOne
  <2> QED
    BY <2>2, <2>3
<1>9. NoneAhead' /\ TimelineIsTrue'
  BY <1>2, <1>4 DEF TimelineInv, NoneAhead, TimelineIsTrue
<1>10. RecordedByOne'
  <2> SUFFICES ASSUME row.live, row.occ \notin contested, timeline[row.occ] # 0
               PROVE  \E a \in Recorders' : request'[a].copy.occ = row.occ
                                            /\ request'[a].step \in {"recorded", "cleared"}
    BY <1>2, <1>4 DEF RecordedByOne
  <2>1. PICK a \in Recorders : request[a].copy.occ = row.occ
                               /\ request[a].step \in {"recorded", "cleared"}
    BY DEF TimelineInv, RecordedByOne
  <2>2. a \in Requests /\ a # q
    BY <1>2 DEF Recorders
  <2> QED
    BY <1>1, <2>1, <2>2, OtherRecorders
<1> QED
  BY <1>7, <1>8, <1>9, <1>10 DEF TimelineInv

LEMMA TimelineOfRecord ==
  ASSUME CopyInv, TimelineInv, NEW q \in Requests, RecordCompletion(q)
  PROVE  TimelineInv'
<1> DEFINE at == request[q].copy.occ
<1>1. /\ OthersStay(q) /\ request'[q].op = "complete" /\ request'[q].step = "recorded"
      /\ request'[q].copy = request[q].copy
  BY Going DEF RecordCompletion, GoesTo, CopyInv, Steps
<1>2. q \in Recorders /\ AtStep(q, "loaded") /\ UNCHANGED <<row, contested>>
  BY DEF RecordCompletion, AtStep, InFlight, Recorders
<1>3. /\ at \in Occurrences /\ at <= row.occ /\ row.occ \in Nat /\ row.occ \in Occurrences
      /\ timeline \in [Occurrences -> Nat] /\ \A o \in Occurrences : o \in Nat
  BY <1>2, TimelineTypes
<1>4. \A o \in Occurrences : o # at => timeline'[o] = timeline[o]
  BY <1>3 DEF RecordCompletion
<1>5. timeline'[at] = timeline[at] \/ timeline'[at] = timeline[at] + 1
  BY <1>3 DEF RecordCompletion
<1>6. at \notin contested => timeline[at] = 0
  BY <1>2 DEF TimelineInv, NotYetRecorded
<1>7. \A r \in Recorders : r # q /\ request[r].copy.occ = at => at \in contested
  BY <1>2 DEF TimelineInv, RecordersApart
<1>8. RecordersApart'
  <2> SUFFICES ASSUME NEW a \in Recorders', NEW b \in Recorders', a # b,
                      request'[a].copy.occ = request'[b].copy.occ
               PROVE  request'[a].copy.occ \in contested
    BY <1>2 DEF RecordersApart
  <2>1. a \in Requests /\ b \in Requests /\ a \in Recorders /\ b \in Recorders
    BY <1>1, <1>2, OtherRecorders DEF Recorders
  <2>2. request'[a].copy = request[a].copy /\ request'[b].copy = request[b].copy
    BY <1>1, <2>1, OtherRecorders
  <2> QED
    BY <2>1, <2>2 DEF TimelineInv, RecordersApart
<1>9. NotYetRecorded'
  <2> SUFFICES ASSUME NEW a \in Recorders', AtStep(a, "loaded")',
                      request'[a].copy.occ \notin contested
               PROVE  timeline'[request'[a].copy.occ] = 0
    BY <1>2 DEF NotYetRecorded
  <2>1. a \in Requests /\ a # q
    BY <1>1 DEF Recorders, AtStep
  <2>2. a \in Recorders /\ request'[a] = request[a] /\ AtStep(a, "loaded")
    BY <1>1, <2>1, OtherRecorders
  <2>3. request[a].copy.occ \in Occurrences /\ timeline[request[a].copy.occ] = 0
        /\ request[a].copy.occ # at
    BY <1>7, <2>1, <2>2, TimelineTypes DEF TimelineInv, NotYetRecorded
  <2> QED
    BY <1>4, <2>2, <2>3
<1>10. NoneAhead'
  BY <1>2, <1>3, <1>4 DEF TimelineInv, NoneAhead
<1>11. TimelineIsTrue'
  BY <1>2, <1>3, <1>4, <1>5, <1>6 DEF TimelineInv, TimelineIsTrue
<1>12. RecordedByOne'
  <2> SUFFICES ASSUME row.live, row.occ \notin contested, timeline'[row.occ] # 0
               PROVE  \E a \in Recorders' : request'[a].copy.occ = row.occ
                                            /\ request'[a].step \in {"recorded", "cleared"}
    BY <1>2 DEF RecordedByOne
  <2>1. CASE at = row.occ
    <3>1. q \in Recorders'
      BY <1>1 DEF Recorders, InFlight
    <3> QED
      BY <1>1, <2>1, <3>1
  <2>2. CASE at # row.occ
    <3>1. PICK a \in Recorders : request[a].copy.occ = row.occ
                                 /\ request[a].step \in {"recorded", "cleared"}
      BY <1>3, <1>4, <2>2 DEF TimelineInv, RecordedByOne
    <3>2. a \in Requests /\ a # q
      BY <2>2, <3>1 DEF Recorders
    <3> QED
      BY <1>1, <3>1, <3>2, OtherRecorders
  <2> QED
    BY <2>1, <2>2
<1> QED
  BY <1>8, <1>9, <1>10, <1>11, <1>12 DEF TimelineInv

LEMMA TimelineOfHandler ==
  ASSUME CopyInv, TimelineInv, CopyInv', NEW q \in Requests, Handle(q)
  PROVE  TimelineInv'
<1> USE DEF Steps
<1>0. TypeOK /\ OthersStay(q) /\ Onward(row, row') /\ row.occ \in Nat
  BY HandlersMove, RowTypes DEF CopyInv, HandlerMoves
<1>1. ASSUME NEW op \in Ops, Load(q, op)
      PROVE  TimelineInv'
  BY <1>1, TimelineOfLoad
<1>2. CASE RecordCompletion(q)
  BY <1>2, TimelineOfRecord
<1>3. CASE ClearBeforeDelete(q)
  <2>1. /\ GoesTo(q, "cleared") /\ InFlight(q) /\ UNCHANGED <<row, timeline, contested>>
        /\ (request[q].op = "complete" => request[q].step = "recorded")
    BY <1>0, <1>3, Going, ReadyInFlight DEF ClearBeforeDelete
  <2> QED
    BY <1>0, <2>1, TimelineStays DEF GoesTo, InFlight
<1>4. CASE Save(q)
  <2>1. /\ request'[q].op = request[q].op /\ request'[q].step = "written"
        /\ request'[q].copy = row' /\ InFlight(q) /\ request[q].copy = row
    BY <1>4, Saved, SavedRequest, ReadyInFlight DEF Save
  <2>2. row'.occ = row.occ + 1 \/ row'.occ = row.occ
    BY <1>4, Saved
  <2>3. contested' = IF row'.occ = row.occ THEN contested \cup {row.occ} ELSE contested
    BY <1>4, <2>1 DEF Save
  <2>4. timeline' = timeline
    BY <1>4 DEF Save
  <2>5. row'.occ = row.occ => row.occ \in contested'
    BY <2>3
  <2>6. contested \subseteq contested'
    BY <2>3
  <2> QED
    BY <1>0, <2>1, <2>2, <2>4, <2>5, <2>6, TimelineStays
<1>5. CASE Refused(q)
  <2>1. /\ GoesTo(q, "done") /\ InFlight(q) /\ UNCHANGED <<row, timeline>>
        /\ contested' = contested \cup Recorded({q})
    BY <1>0, <1>5, Going, ReadyInFlight DEF Refused
  <2>2. q \in Recorders => request[q].copy.occ \in contested'
    BY <2>1 DEF Recorded
  <2> QED
    BY <1>0, <2>1, <2>2, TimelineStays DEF GoesTo, InFlight
<1>6. ASSUME NEW ok \in BOOLEAN, DeleteRow(q, ok)
      PROVE  TimelineInv'
  <2> DEFINE s == IF ok THEN "written" ELSE "done"
  <2>1. s \in Steps /\ Goto(q, s) /\ InFlight(q) /\ UNCHANGED timeline
    BY <1>6 DEF DeleteRow, AtStep, InFlight
  <2>2. GoesTo(q, s)
    BY <1>0, <2>1, Going
  <2>3. row'.occ = row.occ /\ (ok => ~row'.live)
    BY <1>0, <1>6, RowDeleted
  <2>4. ~ok /\ q \in Recorders => request[q].copy.occ \in contested'
    BY <1>6 DEF DeleteRow, Recorded
  <2>5. contested \subseteq contested'
    BY <1>6 DEF DeleteRow
  <2> QED
    BY <1>0, <2>1, <2>2, <2>3, <2>4, <2>5, TimelineStays DEF GoesTo, InFlight
<1>7. ASSUME NEW ok \in BOOLEAN, Dismiss(q, ok)
      PROVE  TimelineInv'
  <2> DEFINE s == IF Rescheduled(q) THEN "dismissed" ELSE "done"
  <2>1. s \in Steps /\ Goto(q, s) /\ request[q].step = "written"
        /\ UNCHANGED <<row, timeline, contested>>
    BY <1>7 DEF Dismiss, Written, AtStep
  <2>2. GoesTo(q, s)
    BY <1>0, <2>1, Going
  <2> QED
    BY <1>0, <2>1, <2>2, TimelineStays DEF GoesTo, InFlight
<1>8. ASSUME NEW ok \in BOOLEAN, ClearAfterReschedule(q, ok)
      PROVE  TimelineInv'
  <2>1. GoesTo(q, "done") /\ request[q].step = "dismissed"
        /\ UNCHANGED <<row, timeline, contested>>
    BY <1>0, <1>8, Going DEF ClearAfterReschedule, AtStep
  <2> QED
    BY <1>0, <2>1, TimelineStays DEF GoesTo, InFlight
<1>9. ASSUME NEW recurrence \in Recurrences, NEW moved \in BOOLEAN, NEW due \in BOOLEAN,
             Update(q, recurrence, moved, due)
      PROVE  TimelineInv'
  <2>1. GoesTo(q, "done") /\ InFlight(q) /\ q \notin Recorders /\ UNCHANGED <<timeline, contested>>
    BY <1>0, <1>9, Going, ReadyInFlight DEF Update, Recorders
  <2> QED
    BY <1>0, <2>1, TimelineStays DEF GoesTo, InFlight
<1>10. CASE CutShort(q)
  <2>1. GoesTo(q, "done") /\ InFlight(q) /\ UNCHANGED <<row, timeline>>
    BY <1>0, <1>10, Going DEF CutShort
  <2>2. request[q].step \in {"recorded", "cleared"} /\ q \in Recorders
          => request[q].copy.occ \in contested'
    BY <1>10 DEF CutShort, Recorded
  <2>3. contested \subseteq contested'
    BY <1>10 DEF CutShort
  <2> QED
    BY <1>0, <2>1, <2>2, <2>3, TimelineStays DEF GoesTo, InFlight
<1> QED
  BY <1>1, <1>2, <1>3, <1>4, <1>5, <1>6, <1>7, <1>8, <1>9, <1>10 DEF Handle

LEMMA TimelineStep ==
  ASSUME CopyInv, TimelineInv, [Next]_vars
  PROVE  TimelineInv'
<1>0. TypeOK
  BY DEF CopyInv
<1>1. CopyInv'
  BY CopyStep
<1>2. ASSUME NEW q \in Requests, Handle(q)
      PROVE  TimelineInv'
  BY <1>1, <1>2, TimelineOfHandler
<1>3. ASSUME NEW t \in Triggers, RunReminders(t)
      PROVE  TimelineInv'
  <2>1. CASE SaveMirror(t)
    <3>1. row'.occ = row.occ /\ (row'.live => row.live)
      BY <2>1, Mirrored
    <3> QED
      BY <2>1, <3>1, TimelineFrame DEF SaveMirror
  <2>2. CASE ReadRows(t) \/ ReadDeliveries(t) \/ EndRun(t) \/ RunDies(t)
    BY <2>2, TimelineFrame DEF ReadRows, ReadDeliveries, EndRun, RunDies
  <2>3. ASSUME NEW ch \in Channels, NEW arrived \in BOOLEAN, NEW ok \in BOOLEAN,
               Send(t, ch, arrived, ok)
        PROVE  TimelineInv'
    BY <2>3, TimelineFrame DEF Send
  <2>4. ASSUME NEW ok \in BOOLEAN, RecordSent(t, ok)
        PROVE  TimelineInv'
    BY <2>4, TimelineFrame DEF RecordSent
  <2> QED
    BY <1>3, <2>1, <2>2, <2>3, <2>4 DEF RunReminders
<1>4. CASE DayComes
  BY <1>0, <1>4, DayCame, TimelineFrame DEF DayComes
<1>5. CASE DismissSuggestion \/ UNCHANGED vars
  BY <1>5, TimelineFrame DEF DismissSuggestion, vars
<1> QED
  BY <1>2, <1>3, <1>4, <1>5 DEF Next

-----------------------------------------------------------------------------
(* The suggestion. *)

(* Nobody begins or ends to have written, and the reminder is not deleted. *)
LEMMA SuggestionFrame ==
  ASSUME SuggestionInv, UNCHANGED suggestion, blamed \subseteq blamed',
         row'.live = row.live,
         \A r \in Requests : request'[r].step = "written" <=> request[r].step = "written"
  PROVE  SuggestionInv'
BY DEF SuggestionInv, SuggestionFollowsReminder, Written, AtStep

LEMMA SuggestionMove ==
  ASSUME TypeOK, SuggestionInv, UNCHANGED suggestion, blamed \subseteq blamed',
         row'.live = row.live, NEW q \in Requests, NEW s \in Steps, Goto(q, s),
         request[q].step # "written", s # "written"
  PROVE  SuggestionInv'
<1>1. \A r \in Requests : request'[r].step = "written" <=> request[r].step = "written"
  BY Going DEF GoesTo, OthersStay
<1> QED
  BY <1>1, SuggestionFrame

LEMMA SuggestionOfHandler ==
  ASSUME CopyInv, SuggestionInv, NEW q \in Requests, Handle(q)
  PROVE  SuggestionInv'
<1> USE DEF Steps
<1>0. TypeOK /\ OthersStay(q)
  BY HandlersMove DEF CopyInv, HandlerMoves
<1>1. ASSUME NEW op \in Ops, Load(q, op)
      PROVE  SuggestionInv'
  <2>1. request'[q].step = "loaded" /\ request[q].step = "idle"
    BY <1>0, <1>1 DEF Load, AtStep, TypeOK
  <2>2. \A r \in Requests : request'[r].step = "written" <=> request[r].step = "written"
    BY <1>0, <2>1 DEF OthersStay
  <2> QED
    BY <1>1, <2>2, SuggestionFrame DEF Load
<1>2. CASE RecordCompletion(q)
  BY <1>0, <1>2, SuggestionMove DEF RecordCompletion, AtStep
<1>3. CASE ClearBeforeDelete(q)
  <2>1. request[q].step # "written"
    BY <1>3, ReadyInFlight DEF ClearBeforeDelete
  <2> QED
    BY <1>0, <1>3, <2>1, SuggestionMove DEF ClearBeforeDelete
<1>4. CASE Save(q)
  <2>1. row'.live /\ "kept" \in blamed' /\ suggestion' = suggestion
    BY <1>4, Saved DEF Save
  <2> QED
    BY <2>1 DEF SuggestionInv, SuggestionFollowsReminder
<1>5. CASE Refused(q)
  <2>1. request[q].step # "written"
    BY <1>5, ReadyInFlight DEF Refused
  <2> QED
    BY <1>0, <1>5, <2>1, SuggestionMove DEF Refused
<1>6. ASSUME NEW ok \in BOOLEAN, DeleteRow(q, ok)
      PROVE  SuggestionInv'
  <2>1. request[q].step = "cleared" /\ UNCHANGED <<suggestion, blamed>>
    BY <1>6 DEF DeleteRow, AtStep
  <2>2. CASE ok
    <3>1. ~row'.live
      BY <1>0, <1>6, <2>2, RowDeleted
    <3>2. Written(q)'
      BY <1>0, <1>6, <2>2, Going DEF DeleteRow, GoesTo, Written, AtStep
    <3> QED
      BY <3>1, <3>2 DEF SuggestionInv, SuggestionFollowsReminder
  <2>3. CASE ~ok
    <3>1. row' = row
      BY <1>0, <1>6, <2>3, RowDeleted
    <3>2. Goto(q, "done")
      BY <1>6, <2>3 DEF DeleteRow
    <3> QED
      BY <1>0, <2>1, <3>1, <3>2, SuggestionMove
  <2> QED
    BY <2>2, <2>3
<1>7. ASSUME NEW ok \in BOOLEAN, Dismiss(q, ok)
      PROVE  SuggestionInv'
  <2>1. /\ Written(q) /\ row' = row /\ blamed \subseteq blamed' /\ (ok \/ "undismissed" \in blamed')
        /\ suggestion' = IF ok /\ suggestion = "pending" THEN "dismissed" ELSE suggestion
    BY <1>7 DEF Dismiss
  <2> DEFINE s == IF Rescheduled(q) THEN "dismissed" ELSE "done"
  <2>2. s \in Steps /\ s # "written" /\ Goto(q, s)
    BY <1>7 DEF Dismiss
  <2>3. GoesTo(q, s)
    BY <1>0, <2>2, Going
  <2>4. \A r \in Requests : Written(r)' => Written(r)
    BY <2>1, <2>2, <2>3 DEF GoesTo, OthersStay, Written, AtStep
  <2>5. ~row.live \/ "kept" \in blamed
    BY <2>1 DEF SuggestionInv
  <2>6. suggestion' = "pending" => suggestion = "pending" /\ ~ok
    BY <2>1
  <2> QED
    BY <2>1, <2>4, <2>5, <2>6 DEF SuggestionInv, SuggestionFollowsReminder
<1>8. ASSUME NEW ok \in BOOLEAN, ClearAfterReschedule(q, ok)
      PROVE  SuggestionInv'
  <2>1. blamed \subseteq blamed'
    BY <1>8 DEF ClearAfterReschedule
  <2> QED
    BY <1>0, <1>8, <2>1, SuggestionMove DEF ClearAfterReschedule, AtStep
<1>9. ASSUME NEW recurrence \in Recurrences, NEW moved \in BOOLEAN, NEW due \in BOOLEAN,
             Update(q, recurrence, moved, due)
      PROVE  SuggestionInv'
  <2>1. blamed \subseteq blamed' /\ Goto(q, "done") /\ suggestion' = suggestion
    BY <1>9 DEF Update
  <2>2. row'.live = row.live
    BY <1>0, <1>9, Updated, RowTypes
  <2>3. request[q].step # "written"
    BY <1>9, ReadyInFlight DEF Update
  <2> QED
    BY <1>0, <2>1, <2>2, <2>3, SuggestionMove
<1>10. CASE CutShort(q)
  <2>1. /\ blamed \subseteq blamed' /\ UNCHANGED <<row, suggestion>>
        /\ Written(q) => "undismissed" \in blamed'
    BY <1>10 DEF CutShort
  <2>2. GoesTo(q, "done")
    BY <1>0, <1>10, Going DEF CutShort
  <2>3. \A r \in Requests : Written(r)' => Written(r) /\ r # q
    BY <2>2 DEF GoesTo, OthersStay, Written, AtStep
  <2>4. (\E r \in Requests : Written(r)) => "undismissed" \in blamed' \/ \E r \in Requests : Written(r)'
    BY <2>1, <2>2 DEF GoesTo, OthersStay, Written, AtStep
  <2> QED
    BY <2>1, <2>3, <2>4 DEF SuggestionInv, SuggestionFollowsReminder
<1> QED
  BY <1>1, <1>2, <1>3, <1>4, <1>5, <1>6, <1>7, <1>8, <1>9, <1>10 DEF Handle

LEMMA SuggestionStep ==
  ASSUME CopyInv, SuggestionInv, [Next]_vars
  PROVE  SuggestionInv'
<1>0. TypeOK
  BY DEF CopyInv
<1>1. ASSUME NEW q \in Requests, Handle(q)
      PROVE  SuggestionInv'
  BY <1>1, SuggestionOfHandler
<1>2. ASSUME NEW t \in Triggers, RunReminders(t)
      PROVE  SuggestionInv'
  <2>1. CASE SaveMirror(t)
    <3>1. row'.live = row.live
      BY <1>0, <2>1, Mirrored, RowTypes
    <3> QED
      BY <2>1, <3>1, SuggestionFrame DEF SaveMirror
  <2>2. CASE ReadRows(t) \/ ReadDeliveries(t) \/ EndRun(t) \/ RunDies(t)
    BY <2>2, SuggestionFrame DEF ReadRows, ReadDeliveries, EndRun, RunDies
  <2>3. ASSUME NEW ch \in Channels, NEW arrived \in BOOLEAN, NEW ok \in BOOLEAN,
               Send(t, ch, arrived, ok)
        PROVE  SuggestionInv'
    BY <2>3, SuggestionFrame DEF Send
  <2>4. ASSUME NEW ok \in BOOLEAN, RecordSent(t, ok)
        PROVE  SuggestionInv'
    BY <2>4, SuggestionFrame DEF RecordSent
  <2> QED
    BY <1>2, <2>1, <2>2, <2>3, <2>4 DEF RunReminders
<1>3. CASE DayComes
  BY <1>0, <1>3, DayCame, SuggestionFrame DEF DayComes
<1>4. CASE DismissSuggestion
  <2>1. UNCHANGED <<row, request>> /\ suggestion' = "dismissed" /\ blamed' = blamed \cup {"byUser"}
    BY <1>4 DEF DismissSuggestion
  <2> QED
    BY <2>1 DEF SuggestionInv, SuggestionFollowsReminder, Written, AtStep
<1>5. CASE UNCHANGED vars
  BY <1>5, SuggestionFrame DEF vars
<1> QED
  BY <1>1, <1>2, <1>3, <1>4, <1>5 DEF Next

-----------------------------------------------------------------------------
(* What counts as told. *)

LEMMA ToldFrame ==
  ASSUME ToldInv, UNCHANGED messages, blamed \subseteq blamed', sent' \subseteq sent,
         row'.occ = row.occ, row'.emailSent = row.emailSent, row'.live => row.live,
         \A t \in Triggers : run'[t] \in {Nil, run[t]}, \A r \in Requests : Clearing(r) => Clearing(r)'
  PROVE  ToldInv'
<1>1. blamed \cap {"moved", "overtaken"} # {} => blamed' \cap {"moved", "overtaken"} # {}
  OBVIOUS
<1>2. (\E q \in Requests : Clearing(q)) => \E q \in Requests : Clearing(q)'
  OBVIOUS
<1>3. ToldByRuns'
  BY <1>1 DEF ToldInv, ToldByRuns, Running
<1>4. ToldByMirror'
  BY DEF ToldInv, ToldByMirror
<1> HIDE DEF Clearing
<1>5. ToldByRecords'
  BY <1>1, <1>2 DEF ToldInv, ToldByRecords
<1> QED
  BY <1>3, <1>4, <1>5 DEF ToldInv

(* A step of one run after which it still works on what it has read. *)
LEMMA ToldByOthers ==
  ASSUME CopyInv, ToldInv, NEW t \in Triggers, OtherRuns(t), row'.occ = row.occ,
         \A c \in Channels, o \in Occurrences : messages[c][o] > 0 => messages'[c][o] > 0,
         UNCHANGED blamed, run'[t] # Nil,
         \/ Running(t) /\ run'[t].copy = run[t].copy
         \/ run'[t].copy.occ = row.occ,
         run'[t].at # Nil => messages'[run'[t].at][run'[t].copy.occ] > 0
  PROVE  ToldByRuns'
<1> SUFFICES ASSUME NEW u \in Triggers, Running(u)'
             PROVE  /\ run'[u].at # Nil => messages'[run'[u].at][run'[u].copy.occ] > 0
                    /\ run'[u].copy.occ # row'.occ => blamed' \cap {"moved", "overtaken"} # {}
  BY DEF ToldByRuns
<1>1. CASE u # t
  <2>1. run'[u] = run[u] /\ Running(u)
    BY <1>1 DEF OtherRuns, Running
  <2>2. run[u].at \in Channels \cup {Nil} /\ run[u].copy.occ \in Occurrences
    BY <2>1, RunTypes DEF CopyInv
  <2> QED
    BY <2>1, <2>2 DEF ToldInv, ToldByRuns
<1>2. CASE u = t
  BY <1>2 DEF ToldInv, ToldByRuns
<1> QED
  BY <1>1, <1>2

LEMMA ToldMove ==
  ASSUME TypeOK, ToldInv, UNCHANGED <<messages, run>>,
         blamed \subseteq blamed', sent' \subseteq sent,
         row'.occ = row.occ, row'.emailSent = row.emailSent, row'.live => row.live,
         NEW q \in Requests, NEW s \in Steps, Goto(q, s),
         request[q].step \in {"written", "dismissed"} => s = "dismissed" \/ ~Rescheduled(q)
  PROVE  ToldInv'
<1>1. \A r \in Requests : Clearing(r) => Clearing(r)'
  BY Going DEF GoesTo, OthersStay, Clearing, Rescheduled, Completing
<1> QED
  BY <1>1, ToldFrame

LEMMA ToldOfHandler ==
  ASSUME CopyInv, ToldInv, NEW q \in Requests, Handle(q)
  PROVE  ToldInv'
<1> USE DEF Steps
<1>0. /\ TypeOK /\ OthersStay(q) /\ Onward(row, row') /\ run' = run
      /\ row.occ \in Nat /\ (row'.live => row.live)
  BY HandlersMove, RowTypes DEF CopyInv, HandlerMoves, Onward
<1>a. \A r \in Requests : r # q /\ Clearing(r) => Clearing(r)'
  BY <1>0 DEF OthersStay, Clearing, Rescheduled, Completing
<1>1. ASSUME NEW op \in Ops, Load(q, op)
      PROVE  ToldInv'
  <2>1. ~Clearing(q)
    BY <1>1 DEF Load, AtStep, Clearing
  <2> QED
    BY <1>0, <1>a, <1>1, <2>1, ToldFrame DEF Load
<1>2. CASE RecordCompletion(q)
  BY <1>0, <1>2, ToldMove DEF RecordCompletion, AtStep
<1>3. CASE ClearBeforeDelete(q)
  <2>1. request[q].step \notin {"written", "dismissed"} /\ sent' \subseteq sent
    BY <1>3, ReadyInFlight DEF ClearBeforeDelete
  <2> QED
    BY <1>0, <1>3, <2>1, ToldMove DEF ClearBeforeDelete
<1>4. CASE Save(q)
  <2>1. /\ ~Clearing(q) /\ blamed \subseteq blamed'
        /\ \A t \in Triggers : Running(t) => "overtaken" \in blamed'
        /\ UNCHANGED <<messages, sent>>
    BY <1>4, ReadyInFlight DEF Save, Clearing
  <2>2. CASE row'.occ = row.occ /\ row'.emailSent = row.emailSent
    BY <1>0, <1>a, <2>1, <2>2, ToldFrame
  <2>3. CASE row.recurrence = "completion" /\ ~row'.emailSent
    <3>1. row'.recurrence = "completion"
      BY <1>4, <2>3, Saved
    <3>2. Clearing(q)'
      BY <1>4, <3>1, SavedRequest DEF Save, Clearing, Rescheduled, Completing
    <3>3. \A t \in Triggers : Running(t)' => blamed' \cap {"moved", "overtaken"} # {}
      BY <1>0, <2>1 DEF Running
    <3>4. ToldByRuns'
      BY <1>0, <2>1, <3>3 DEF ToldInv, ToldByRuns, Running
    <3> QED
      BY <2>3, <3>2, <3>4 DEF ToldInv, ToldByMirror, ToldByRecords
  <2> QED
    BY <1>4, <2>2, <2>3, Saved
<1>5. CASE Refused(q)
  <2>1. request[q].step \notin {"written", "dismissed"}
    BY <1>5, ReadyInFlight DEF Refused
  <2> QED
    BY <1>0, <1>5, <2>1, ToldMove DEF Refused
<1>6. ASSUME NEW ok \in BOOLEAN, DeleteRow(q, ok)
      PROVE  ToldInv'
  <2> DEFINE s == IF ok THEN "written" ELSE "done"
  <2>1. /\ s \in Steps /\ Goto(q, s) /\ request[q].step = "cleared"
        /\ UNCHANGED <<messages, sent, blamed>>
    BY <1>6 DEF DeleteRow, AtStep
  <2>2. row'.occ = row.occ /\ row'.emailSent = row.emailSent
    BY <1>0, <1>6, RowDeleted
  <2> QED
    BY <1>0, <2>1, <2>2, ToldMove
<1>7. ASSUME NEW ok \in BOOLEAN, Dismiss(q, ok)
      PROVE  ToldInv'
  <2> DEFINE s == IF Rescheduled(q) THEN "dismissed" ELSE "done"
  <2>1. /\ s \in Steps /\ Goto(q, s) /\ (s = "dismissed" \/ ~Rescheduled(q))
        /\ UNCHANGED <<row, messages, sent>> /\ blamed \subseteq blamed'
    BY <1>7 DEF Dismiss
  <2> QED
    BY <1>0, <2>1, ToldMove
<1>8. ASSUME NEW ok \in BOOLEAN, ClearAfterReschedule(q, ok)
      PROVE  ToldInv'
  <2>1. /\ blamed \subseteq blamed' /\ (sent' = {} \/ "overtaken" \in blamed')
        /\ UNCHANGED <<row, messages>>
    BY <1>8 DEF ClearAfterReschedule
  <2>2. ToldByRuns' /\ ToldByMirror'
    BY <1>0, <2>1 DEF ToldInv, ToldByRuns, ToldByMirror, Running
  <2> QED
    BY <2>1, <2>2 DEF ToldInv, ToldByRecords
<1>9. ASSUME NEW recurrence \in Recurrences, NEW moved \in BOOLEAN, NEW due \in BOOLEAN,
             Update(q, recurrence, moved, due)
      PROVE  ToldInv'
  <2>1. /\ Goto(q, "done") /\ blamed \subseteq blamed' /\ (moved => "moved" \in blamed')
        /\ UNCHANGED <<messages, sent>>
    BY <1>9 DEF Update
  <2>2. request[q].step \notin {"written", "dismissed"}
    BY <1>9, ReadyInFlight DEF Update
  <2>3. CASE moved
    BY <1>0, <2>1, <2>3 DEF ToldInv, ToldByRuns, ToldByMirror, ToldByRecords, Running
  <2>4. CASE ~moved
    <3>1. row'.occ = row.occ /\ row'.emailSent = row.emailSent
      BY <1>9, <2>4, Updated
    <3> QED
      BY <1>0, <2>1, <2>2, <3>1, ToldMove
  <2> QED
    BY <2>3, <2>4
<1>10. CASE CutShort(q)
  <2>1. /\ blamed \subseteq blamed' /\ (Clearing(q) => "overtaken" \in blamed')
        /\ UNCHANGED <<row, sent, messages>>
    BY <1>10 DEF CutShort, Clearing
  <2>2. CASE Clearing(q)
    BY <1>0, <2>1, <2>2 DEF ToldInv, ToldByRuns, ToldByMirror, ToldByRecords, Running
  <2>3. CASE ~Clearing(q)
    BY <1>0, <1>a, <2>1, <2>3, ToldFrame
  <2> QED
    BY <2>2, <2>3
<1> QED
  BY <1>1, <1>2, <1>3, <1>4, <1>5, <1>6, <1>7, <1>8, <1>9, <1>10 DEF Handle

LEMMA ToldOfSend ==
  ASSUME CopyInv, ToldInv, NEW t \in Triggers, NEW ch \in Channels, NEW arrived \in BOOLEAN,
         NEW ok \in BOOLEAN, Send(t, ch, arrived, ok)
  PROVE  ToldInv'
<1>0. TypeOK /\ messages \in [Channels -> [Occurrences -> Nat]] /\ (ok => arrived)
  BY DEF CopyInv, TypeOK, Send
<1>1. /\ OtherRuns(t) /\ Running(t) /\ run[t].at = Nil /\ run'[t].copy = run[t].copy
      /\ run'[t].at = (IF ok THEN ch ELSE Nil) /\ run'[t] \in Runs
  BY <1>0, SentTo DEF CopyInv
<1>2. run[t].copy.occ \in Occurrences
  BY <1>0, <1>1, RunTypes
<1>3. messages' = IF arrived THEN [messages EXCEPT ![ch][run[t].copy.occ] = @ + 1] ELSE messages
  BY DEF Send
<1>4. UNCHANGED <<row, sent, request, blamed>>
  BY DEF Send
<1>5. arrived => messages'[ch][run[t].copy.occ] > 0
  BY <1>0, <1>2, <1>3
<1>6. \A c \in Channels, o \in Occurrences : messages'[c][o] = 0 => messages[c][o] = 0
  BY <1>0, <1>2, <1>3
<1>6a. \A c \in Channels, o \in Occurrences : messages[c][o] > 0 => messages'[c][o] > 0
  BY <1>0, <1>2, <1>3
<1>7. row.occ \in Occurrences /\ Email \in Channels /\ sent \subseteq Channels
  BY <1>0, RowTypes, EmailAssumption DEF TypeOK
<1>8. \A q \in Requests : Clearing(q)' <=> Clearing(q)
  BY <1>4 DEF Clearing, Rescheduled, Completing
<1>9. ToldByRuns'
  <2>1. run'[t] # Nil
    BY <1>1, NilAssumption
  <2> QED
    BY <1>0, <1>1, <1>4, <1>5, <1>6a, <2>1, ToldByOthers
<1>10. ToldByMirror'
  BY <1>4, <1>6, <1>7 DEF ToldInv, ToldByMirror
<1>11. ToldByRecords'
  <2> HIDE DEF Clearing
  <2> QED
    BY <1>4, <1>6, <1>7, <1>8 DEF ToldInv, ToldByRecords
<1> QED
  BY <1>9, <1>10, <1>11 DEF ToldInv

LEMMA ToldOfMirror ==
  ASSUME CopyInv, ToldInv, NEW t \in Triggers, SaveMirror(t)
  PROVE  ToldInv'
<1>0. TypeOK /\ Email # Nil
  BY EmailAssumption DEF CopyInv
<1>1. /\ OtherRuns(t) /\ Running(t) /\ run[t].at = Email /\ run'[t] # Nil
      /\ run'[t].copy = run[t].copy /\ run'[t].at = run[t].at
  BY <1>0, MirrorSaved, NilAssumption
<1>2. UNCHANGED <<sent, request, messages, blamed>>
  BY DEF SaveMirror
<1>3. row'.occ = row.occ /\ (row'.live => row.live)
  BY Mirrored
<1>4. \A q \in Requests : Clearing(q)' <=> Clearing(q)
  BY <1>2 DEF Clearing, Rescheduled, Completing
<1>5. ToldByMirror'
  <2>1. CASE row' = row
    BY <1>2, <2>1 DEF ToldInv, ToldByMirror
  <2>2. CASE run[t].copy = row
    <3>1. messages[Email][row.occ] > 0
      BY <1>0, <1>1, <2>2 DEF ToldInv, ToldByRuns
    <3>2. messages[Email][row.occ] \in Nat
      BY <1>0, RowTypes, EmailAssumption DEF TypeOK
    <3> QED
      BY <1>2, <1>3, <3>1, <3>2 DEF ToldByMirror
  <2> QED
    BY <2>1, <2>2, Mirrored
<1>6. ToldByRecords'
  <2> HIDE DEF Clearing
  <2> QED
    BY <1>2, <1>3, <1>4 DEF ToldInv, ToldByRecords
<1>7. ToldByRuns'
  <2>1. messages[run[t].at][run[t].copy.occ] > 0
    BY <1>0, <1>1 DEF ToldInv, ToldByRuns
  <2> QED
    BY <1>1, <1>2, <1>3, <2>1, ToldByOthers
<1> QED
  BY <1>5, <1>6, <1>7 DEF ToldInv

LEMMA ToldOfRecord ==
  ASSUME CopyInv, ToldInv, NEW t \in Triggers, NEW ok \in BOOLEAN, RecordSent(t, ok)
  PROVE  ToldInv'
<1>0. TypeOK
  BY DEF CopyInv
<1>1. /\ OtherRuns(t) /\ Running(t) /\ run[t].at # Nil /\ run'[t].copy = run[t].copy
      /\ run'[t].at = Nil /\ run'[t] # Nil
  BY <1>0, SentRecorded, NilAssumption DEF CopyInv
<1>2. run[t].at \in Channels /\ run[t].copy.occ \in Occurrences
  BY <1>0, <1>1, RunTypes
<1>3. UNCHANGED <<row, request, messages, blamed>> /\ sent' \subseteq sent \cup {run[t].at}
  BY DEF RecordSent
<1>4. \A q \in Requests : Clearing(q)' <=> Clearing(q)
  BY <1>3 DEF Clearing, Rescheduled, Completing
<1>5. messages[run[t].at][row.occ] = 0 => blamed \cap {"moved", "overtaken"} # {}
  <2>1. messages[run[t].at][run[t].copy.occ] \in Nat /\ messages[run[t].at][run[t].copy.occ] > 0
    BY <1>0, <1>1, <1>2 DEF ToldInv, ToldByRuns, TypeOK
  <2> QED
    BY <1>1, <2>1 DEF ToldInv, ToldByRuns
<1>6. ToldByRecords'
  <2> HIDE DEF Clearing
  <2> QED
    BY <1>3, <1>4, <1>5 DEF ToldInv, ToldByRecords
<1>7. ToldByRuns'
  BY <1>1, <1>3, ToldByOthers
<1>8. ToldByMirror'
  BY <1>3 DEF ToldInv, ToldByMirror
<1> QED
  BY <1>6, <1>7, <1>8 DEF ToldInv

LEMMA ToldOfRead ==
  ASSUME CopyInv, ToldInv, NEW t \in Triggers, ReadRows(t) \/ ReadDeliveries(t)
  PROVE  ToldInv'
<1>0. TypeOK
  BY DEF CopyInv
<1>1. UNCHANGED <<row, sent, messages, blamed, request>>
  BY DEF ReadRows, ReadDeliveries
<1>2. \A q \in Requests : Clearing(q)' <=> Clearing(q)
  BY <1>1 DEF Clearing, Rescheduled, Completing
<1>3. ToldByRuns'
  <2>1. CASE ReadRows(t)
    BY <1>0, <1>1, <2>1, RowsRead, NilAssumption, ToldByOthers
  <2>2. CASE ReadDeliveries(t)
    <3>1. run[t].at = Nil
      BY <1>0, <2>2, Asked DEF CopyInv
    <3> QED
      BY <1>0, <1>1, <2>2, <3>1, Asked, NilAssumption, ToldByOthers
  <2> QED
    BY <2>1, <2>2
<1>4. ToldByMirror'
  BY <1>1 DEF ToldInv, ToldByMirror
<1>5. ToldByRecords'
  <2> HIDE DEF Clearing
  <2> QED
    BY <1>1, <1>2 DEF ToldInv, ToldByRecords
<1> QED
  BY <1>3, <1>4, <1>5 DEF ToldInv

LEMMA ToldStep ==
  ASSUME CopyInv, ToldInv, [Next]_vars
  PROVE  ToldInv'
<1>0. TypeOK
  BY DEF CopyInv
<1>a. UNCHANGED request => \A q \in Requests : Clearing(q) => Clearing(q)'
  BY DEF Clearing, Rescheduled, Completing
<1>1. ASSUME NEW q \in Requests, Handle(q)
      PROVE  ToldInv'
  BY <1>1, ToldOfHandler
<1>2. ASSUME NEW t \in Triggers, RunReminders(t)
      PROVE  ToldInv'
  <2>1. CASE EndRun(t) \/ RunDies(t)
    <3>1. \A u \in Triggers : run'[u] \in {Nil, run[u]}
      BY <1>0, <2>1, RunOver DEF OtherRuns
    <3>2. UNCHANGED <<row, sent, messages, blamed, request>>
      BY <2>1 DEF EndRun, RunDies
    <3> QED
      BY <1>a, <3>1, <3>2, ToldFrame
  <2>2. ASSUME NEW ch \in Channels, NEW arrived \in BOOLEAN, NEW ok \in BOOLEAN,
               Send(t, ch, arrived, ok)
        PROVE  ToldInv'
    BY <2>2, ToldOfSend
  <2>3. ASSUME NEW ok \in BOOLEAN, RecordSent(t, ok)
        PROVE  ToldInv'
    BY <2>3, ToldOfRecord
  <2> QED
    BY <1>2, <2>1, <2>2, <2>3, ToldOfMirror, ToldOfRead DEF RunReminders
<1>3. CASE DayComes
  BY <1>0, <1>a, <1>3, DayCame, ToldFrame DEF DayComes
<1>4. CASE DismissSuggestion
  <2>1. UNCHANGED <<row, sent, messages, run, request>> /\ blamed \subseteq blamed'
    BY <1>4 DEF DismissSuggestion
  <2> QED
    BY <1>a, <2>1, ToldFrame
<1>5. CASE UNCHANGED vars
  BY <1>a, <1>5, ToldFrame DEF vars
<1> QED
  BY <1>1, <1>2, <1>3, <1>4, <1>5 DEF Next

-----------------------------------------------------------------------------
(* What is told twice. *)

LEMMA OnceTypes ==
  ASSUME CopyInv
  PROVE  /\ TypeOK /\ row.occ \in Occurrences /\ row.occ \in Nat /\ row.due \in BOOLEAN
         /\ messages \in [Channels -> [Occurrences -> Nat]] /\ sent \subseteq Channels
         /\ \A o \in Occurrences : o \in Nat
         /\ \A t \in Triggers : Running(t) =>
               run[t].copy.occ \in Occurrences /\ run[t].copy.occ <= row.occ
               /\ run[t].todo \subseteq Channels /\ run[t].at \in Channels \cup {Nil}
<1>1. TypeOK
  BY DEF CopyInv
<1>2. /\ row.occ \in Occurrences /\ row.occ \in Nat /\ row.due \in BOOLEAN
      /\ \A o \in Occurrences : o \in Nat
  BY <1>1, RowTypes DEF Occurrences
<1>3. messages \in [Channels -> [Occurrences -> Nat]] /\ sent \subseteq Channels
  BY <1>1 DEF TypeOK
<1>4. \A t \in Triggers : Running(t) =>
         run[t].copy.occ \in Occurrences /\ run[t].copy.occ <= row.occ
         /\ run[t].todo \subseteq Channels /\ run[t].at \in Channels \cup {Nil}
  BY <1>1, RunTypes DEF CopyInv, CopyTrue
<1> QED
  BY <1>1, <1>2, <1>3, <1>4

(* The runs stand still, and so do the messages. *)
LEMMA OnceFrame ==
  ASSUME CopyInv, CopyInv', OnceInv, UNCHANGED <<messages, run>>, excused \subseteq excused',
         \/ row'.occ = row.occ /\ row'.due = row.due
         \/ row'.occ = row.occ + 1,
         DayAhead',
         \A ch \in sent \ sent' :
            /\ <<ch, row.occ>> \in excused' \/ messages[ch][row.occ] = 0
            /\ \A t \in Triggers : InPhase(t, "rows") => <<ch, run[t].copy.occ>> \in excused'
  PROVE  OnceInv'
<1>1. /\ row.occ \in Occurrences /\ row.occ \in Nat /\ row'.occ \in Occurrences
      /\ messages \in [Channels -> [Occurrences -> Nat]] /\ sent \subseteq Channels
      /\ \A o \in Occurrences : o \in Nat
      /\ \A t \in Triggers : Running(t) =>
            run[t].copy.occ \in Occurrences /\ run[t].copy.occ <= row.occ
  <2>1. row' \in Rows
    BY DEF CopyInv, TypeOK
  <2> QED
    BY <2>1, OnceTypes, RowRange
<1>2. \A o \in Occurrences : o > row'.occ \/ (o = row'.occ /\ ~row'.due)
        => o > row.occ \/ (o = row.occ /\ ~row.due)
  BY <1>1
<1>3. NotYetTold'
  BY <1>2 DEF OnceInv, NotYetTold
<1>4. DayHasCome'
  BY <1>1 DEF OnceInv, DayHasCome, Running
<1>4a. \A ch, o : Telling(ch, o) => Telling(ch, o)'
  BY DEF Telling, Running
<1>5. Accounted'
  <2>1. CASE row'.occ = row.occ
    <3>1. SUFFICES ASSUME NEW ch \in Channels, messages[ch][row.occ] > 0
                   PROVE  \/ <<ch, row.occ>> \in excused' \/ ch \in sent'
                          \/ Telling(ch, row.occ)
      BY <1>4a, <2>1 DEF Accounted
    <3>2. CASE ch \in sent \ sent'
      <4>1. <<ch, row.occ>> \in excused' \/ messages[ch][row.occ] = 0
        BY <3>2
      <4>2. messages[ch][row.occ] # 0
        BY <3>1
      <4> QED
        BY <4>1, <4>2
    <3> QED
      BY <3>1, <3>2 DEF OnceInv, Accounted
  <2>2. CASE row'.occ = row.occ + 1
    BY <1>1, <2>2 DEF OnceInv, Accounted, NotYetTold
  <2> QED
    BY <2>1, <2>2
<1>6. AccountedForReader'
  <2> SUFFICES ASSUME NEW t \in Triggers, InPhase(t, "rows")', NEW ch \in Channels,
                      messages[ch][run[t].copy.occ] > 0
               PROVE  \/ <<ch, run[t].copy.occ>> \in excused' \/ ch \in sent'
                      \/ Telling(ch, run[t].copy.occ)'
    BY DEF AccountedForReader
  <2>1. InPhase(t, "rows")
    BY DEF InPhase, Running
  <2> QED
    BY <1>4a, <2>1 DEF OnceInv, AccountedForReader
<1>6a. AccountedForRun'
  BY DEF OnceInv, AccountedForRun, Running
<1>6b. RivalsExcused'
  BY DEF OnceInv, RivalsExcused, Running, Holding
<1>7. NoticedOnce'
  BY DEF OnceInv, NoticedOnce
<1> QED
  BY <1>3, <1>4, <1>5, <1>6, <1>6a, <1>6b, <1>7 DEF OnceInv

(* A request that moves on, over a row whose day stays as it was. *)
LEMMA AheadMove ==
  ASSUME CopyInv, OnceInv, NEW q \in Requests, NEW s \in Steps, GoesTo(q, s),
         s = "cleared" => DeletesRow(q), s = "dismissed" => Rescheduled(q),
         s \in {"written", "dismissed"} /\ Rescheduled(q) => Clearing(q),
         \/ row'.occ = row.occ /\ row'.due = row.due
         \/ row'.occ = row.occ + 1
  PROVE  DayAhead'
<1>1. ASSUME NEW r \in Requests
      PROVE  /\ Clearing(r)' => Clearing(r) /\ request'[r].copy.occ = request[r].copy.occ
             /\ AtStep(r, "cleared")' => DeletesRow(r)'
             /\ AtStep(r, "dismissed")' => Rescheduled(r)'
  <2>1. CASE r = q
    BY <2>1 DEF GoesTo, Clearing, Rescheduled, Completing, AtStep, DeletesRow
  <2>2. CASE r # q
    BY <2>2 DEF GoesTo, OthersStay, Clearing, Rescheduled, Completing, AtStep, DeletesRow,
                OnceInv, DayAhead
  <2> QED
    BY <2>1, <2>2
<1>2. ASSUME NEW r \in Requests, Clearing(r)
      PROVE  request[r].copy.occ \in Nat /\ request[r].copy.occ <= row.occ /\ row.occ \in Nat
  BY <1>2, OnceTypes, HandlerTypes DEF CopyInv, CopyTrue, InFlight, Clearing
<1>3. ASSUME NEW r \in Requests, Clearing(r)', request'[r].copy.occ = row'.occ
      PROVE  ~row'.due
  <2>1. Clearing(r) /\ request'[r].copy.occ = request[r].copy.occ
    BY <1>1, <1>3
  <2> HIDE DEF Clearing
  <2> QED
    BY <1>2, <1>3, <2>1 DEF OnceInv, DayAhead
<1> QED
  BY <1>1, <1>3 DEF DayAhead

(* Records that are deleted are excused, for every occurrence they may stand for. *)
LEMMA ForgottenExcused ==
  ASSUME NEW S, excused' = excused \cup Forgotten(S)
  PROVE  /\ excused \subseteq excused'
         /\ \A ch \in sent, o \in S : <<ch, o>> \in excused'
         /\ \A t \in Triggers : InPhase(t, "rows") =>
               \A ch \in sent : <<ch, run[t].copy.occ>> \in excused'
BY DEF Forgotten

LEMMA OnceOfHandler ==
  ASSUME CopyInv, CopyInv', OnceInv, NEW q \in Requests, Handle(q)
  PROVE  OnceInv'
<1> USE DEF Steps
<1>0. TypeOK /\ OthersStay(q) /\ run' = run /\ row.occ \in Nat
  BY HandlersMove, RowTypes DEF CopyInv, HandlerMoves
<1>1. ASSUME NEW op \in Ops, Load(q, op)
      PROVE  OnceInv'
  <2>1. request'[q].step = "loaded" /\ UNCHANGED <<row, messages, sent, excused>>
    BY <1>0, <1>1 DEF Load, TypeOK
  <2>2. ASSUME NEW r \in Requests
        PROVE  /\ Clearing(r)' => Clearing(r) /\ request'[r] = request[r]
               /\ AtStep(r, "cleared")' => AtStep(r, "cleared") /\ request'[r] = request[r]
               /\ AtStep(r, "dismissed")' => AtStep(r, "dismissed") /\ request'[r] = request[r]
    BY <1>0, <2>1 DEF OthersStay, Clearing, Rescheduled, Completing, AtStep
  <2>3. DayAhead'
    BY <2>1, <2>2 DEF OnceInv, DayAhead, DeletesRow, Rescheduled, Completing
  <2> QED
    BY <1>0, <2>1, <2>3, OnceFrame
<1>2. CASE RecordCompletion(q)
  <2>1. GoesTo(q, "recorded") /\ UNCHANGED <<row, messages, sent, excused>>
    BY <1>0, <1>2, Going DEF RecordCompletion
  <2> QED
    BY <1>0, <2>1, AheadMove, OnceFrame
<1>3. CASE ClearBeforeDelete(q)
  <2>1. GoesTo(q, "cleared") /\ DeletesRow(q) /\ UNCHANGED <<row, messages>>
    BY <1>0, <1>3, Going DEF ClearBeforeDelete
  <2>2. excused' = excused \cup Forgotten({row.occ})
    BY <1>3 DEF ClearBeforeDelete
  <2>3. /\ excused \subseteq excused' /\ \A ch \in sent : <<ch, row.occ>> \in excused'
        /\ \A t \in Triggers : InPhase(t, "rows") =>
              \A ch \in sent : <<ch, run[t].copy.occ>> \in excused'
    BY <2>2, ForgottenExcused
  <2> QED
    BY <1>0, <2>1, <2>3, AheadMove, OnceFrame
<1>4. CASE Save(q)
  <2>1. /\ request'[q].copy = row' /\ request'[q].step = "written"
        /\ request'[q].op = request[q].op
    BY <1>4, SavedRequest
  <2>2. UNCHANGED <<messages, sent, excused>>
    BY <1>4 DEF Save
  <2>3. \/ row.recurrence = "completion" /\ row'.occ = row.occ + 1 /\ ~row'.due
        \/ row'.recurrence = "fixed" /\ row'.occ = row.occ /\ row'.due = row.due
    BY <1>4, Saved
  <2>4. ASSUME NEW r \in Requests, Clearing(r)', request'[r].copy.occ = row'.occ
        PROVE  ~row'.due
    <3>1. CASE r = q
      BY <1>4, <2>1, <2>3, <2>4, <3>1, Saved DEF Clearing, Rescheduled
    <3>2. CASE r # q
      <4>1. Clearing(r) /\ request'[r].copy.occ = request[r].copy.occ
        BY <1>0, <2>4, <3>2 DEF OthersStay, Clearing, Rescheduled, Completing
      <4>2. request[r].copy.occ <= row.occ /\ request[r].copy.occ \in Nat
        BY <1>0, <4>1, HandlerTypes, OnceTypes DEF CopyInv, CopyTrue, InFlight, Clearing
      <4> HIDE DEF Clearing
      <4> QED
        BY <1>0, <2>3, <2>4, <4>1, <4>2 DEF OnceInv, DayAhead
    <3> QED
      BY <3>1, <3>2
  <2>5. ASSUME NEW r \in Requests
        PROVE  /\ AtStep(r, "cleared")' => DeletesRow(r)'
               /\ AtStep(r, "dismissed")' => Rescheduled(r)'
    <3>1. CASE r = q
      BY <2>1, <3>1 DEF AtStep
    <3>2. CASE r # q
      BY <1>0, <3>2 DEF OthersStay, AtStep, DeletesRow, Rescheduled, Completing, OnceInv, DayAhead
    <3> QED
      BY <3>1, <3>2
  <2>6. DayAhead'
    BY <2>4, <2>5 DEF DayAhead
  <2> QED
    BY <1>0, <2>2, <2>3, <2>6, OnceFrame
<1>5. CASE Refused(q)
  <2>1. GoesTo(q, "done") /\ UNCHANGED <<row, messages, sent, excused>>
    BY <1>0, <1>5, Going DEF Refused
  <2> QED
    BY <1>0, <2>1, AheadMove, OnceFrame
<1>6. ASSUME NEW ok \in BOOLEAN, DeleteRow(q, ok)
      PROVE  OnceInv'
  <2> DEFINE s == IF ok THEN "written" ELSE "done"
  <2>1. s \in Steps /\ Goto(q, s) /\ UNCHANGED <<messages, sent, excused>>
    BY <1>6 DEF DeleteRow
  <2>2. GoesTo(q, s)
    BY <1>0, <2>1, Going
  <2>3. row'.occ = row.occ /\ row'.due = row.due
    BY <1>0, <1>6, RowDeleted
  <2>4. ~Rescheduled(q)
    <3>1. DeletesRow(q)
      BY <1>6 DEF DeleteRow, OnceInv, DayAhead
    <3> QED
      BY <3>1 DEF DeletesRow, Rescheduled, Completing
  <2>5. s # "cleared"
    OBVIOUS
  <2>6. DayAhead'
    BY <2>1, <2>2, <2>3, <2>4, <2>5, AheadMove
  <2> QED
    BY <1>0, <2>1, <2>3, <2>6, OnceFrame
<1>7. ASSUME NEW ok \in BOOLEAN, Dismiss(q, ok)
      PROVE  OnceInv'
  <2> DEFINE s == IF Rescheduled(q) THEN "dismissed" ELSE "done"
  <2>1. /\ s \in Steps /\ s # "cleared" /\ (s = "dismissed" => Rescheduled(q)) /\ Goto(q, s)
        /\ request[q].step = "written" /\ UNCHANGED <<row, messages, sent, excused>>
    BY <1>7 DEF Dismiss, Written, AtStep
  <2>2. GoesTo(q, s)
    BY <1>0, <2>1, Going
  <2>3. Rescheduled(q) => Clearing(q)
    BY <2>1 DEF Clearing
  <2>4. DayAhead'
    <3> HIDE DEF s
    <3> QED BY <2>1, <2>2, <2>3, AheadMove
  <2> QED
    BY <1>0, <2>1, <2>4, OnceFrame
<1>8. ASSUME NEW ok \in BOOLEAN, ClearAfterReschedule(q, ok)
      PROVE  OnceInv'
  <2>1. GoesTo(q, "done") /\ UNCHANGED <<row, messages>> /\ request[q].step = "dismissed"
    BY <1>0, <1>8, Going DEF ClearAfterReschedule, AtStep
  <2> DEFINE S == {row.occ} \ {request[q].copy.occ}
  <2>2. excused' = excused \cup Forgotten(S)
    BY <1>8 DEF ClearAfterReschedule
  <2>3. /\ excused \subseteq excused' /\ \A ch \in sent, o \in S : <<ch, o>> \in excused'
        /\ \A t \in Triggers : InPhase(t, "rows") =>
              \A ch \in sent : <<ch, run[t].copy.occ>> \in excused'
    BY <2>2, ForgottenExcused
  <2>4. ASSUME NEW ch \in sent
        PROVE  <<ch, row.occ>> \in excused' \/ messages[ch][row.occ] = 0
    <3>1. CASE row.occ # request[q].copy.occ
      BY <2>3, <3>1
    <3>2. CASE row.occ = request[q].copy.occ
      <4>1. Clearing(q)
        BY <2>1 DEF Clearing, OnceInv, DayAhead, AtStep
      <4>2. ~row.due /\ ch \in Channels /\ row.occ \in Occurrences
        BY <3>2, <4>1, OnceTypes DEF OnceInv, DayAhead
      <4> QED
        BY <4>2 DEF OnceInv, NotYetTold
    <3> QED
      BY <3>1, <3>2
  <2>5. DayAhead'
    BY <2>1, AheadMove
  <2> QED
    BY <1>0, <2>1, <2>3, <2>4, <2>5, OnceFrame
<1>9. ASSUME NEW recurrence \in Recurrences, NEW moved \in BOOLEAN, NEW due \in BOOLEAN,
             Update(q, recurrence, moved, due)
      PROVE  OnceInv'
  <2>1. GoesTo(q, "done") /\ UNCHANGED <<messages, sent, excused>>
    BY <1>0, <1>9, Going DEF Update
  <2>2. \/ row'.occ = row.occ /\ row'.due = row.due
        \/ row'.occ = row.occ + 1
    BY <1>9, Updated
  <2>3. DayAhead'
    BY <2>1, <2>2, AheadMove
  <2> QED
    BY <1>0, <2>1, <2>2, <2>3, OnceFrame
<1>10. CASE CutShort(q)
  <2>1. GoesTo(q, "done") /\ UNCHANGED <<row, messages, sent, excused>>
    BY <1>0, <1>10, Going DEF CutShort
  <2> QED
    BY <1>0, <2>1, AheadMove, OnceFrame
<1> QED
  BY <1>1, <1>2, <1>3, <1>4, <1>5, <1>6, <1>7, <1>8, <1>9, <1>10 DEF Handle

LEMMA AheadStays ==
  ASSUME OnceInv, UNCHANGED request, row'.occ = row.occ, row'.due = row.due
  PROVE  DayAhead'
BY DEF OnceInv, DayAhead, Clearing, Rescheduled, Completing, AtStep, DeletesRow

(* A step of one run that sends nothing: what it was to record is recorded or
   excused, and what it has in hand is accounted for. *)
LEMMA OnceOfRun ==
  ASSUME CopyInv, OnceInv, NEW t \in Triggers, OtherRuns(t), UNCHANGED <<request, messages>>,
         row'.occ = row.occ, row'.due = row.due, sent \subseteq sent', excused \subseteq excused',
         Running(t)' => row.due \/ (Running(t) /\ run'[t].copy = run[t].copy),
         Running(t) /\ run[t].at # Nil =>
            \/ <<run[t].at, run[t].copy.occ>> \in excused' \/ run[t].at \in sent'
            \/ (Running(t)' /\ run'[t].at = run[t].at /\ run'[t].copy = run[t].copy),
         InPhase(t, "rows")' => run'[t].copy = row,
         Running(t)' => \A ch \in run'[t].todo :
            messages[ch][run'[t].copy.occ] > 0 => <<ch, run'[t].copy.occ>> \in excused',
         Running(t)' => \A u \in Triggers \ {t} :
            Running(u) /\ run[u].copy.occ = run'[t].copy.occ =>
               \A ch \in Holding(t)' \cap Holding(u) : <<ch, run[u].copy.occ>> \in excused'
  PROVE  OnceInv'
<1>1. \A u \in Triggers \ {t} : run'[u] = run[u]
  BY DEF OtherRuns
<1>2. DayAhead'
  BY AheadStays
<1>3. DayHasCome'
  BY <1>1 DEF OnceInv, DayHasCome, Running
<1>4. NotYetTold' /\ NoticedOnce'
  BY DEF OnceInv, NotYetTold, NoticedOnce
<1>5. ASSUME NEW ch \in Channels, NEW o, Telling(ch, o)
      PROVE  <<ch, o>> \in excused' \/ ch \in sent' \/ Telling(ch, o)'
  <2>1. PICK u \in Triggers : Running(u) /\ run[u].at = ch /\ run[u].copy.occ = o
    BY <1>5 DEF Telling
  <2>2. CASE u # t
    BY <1>1, <2>1, <2>2 DEF Telling, Running
  <2>3. CASE u = t
    <3>1. ch # Nil
      BY EmailAssumption
    <3> QED
      BY <2>1, <2>3, <3>1 DEF Telling
  <2> QED
    BY <2>2, <2>3
<1>6. Accounted'
  <2> SUFFICES ASSUME NEW ch \in Channels, messages[ch][row.occ] > 0
               PROVE  <<ch, row.occ>> \in excused' \/ ch \in sent' \/ Telling(ch, row.occ)'
    BY DEF Accounted
  <2> QED
    BY <1>5 DEF OnceInv, Accounted
<1>7. AccountedForReader'
  <2> SUFFICES ASSUME NEW u \in Triggers, InPhase(u, "rows")', NEW ch \in Channels,
                      messages[ch][run'[u].copy.occ] > 0
               PROVE  \/ <<ch, run'[u].copy.occ>> \in excused' \/ ch \in sent'
                      \/ Telling(ch, run[u].copy.occ)'
    BY DEF AccountedForReader
  <2>1. CASE u = t
    BY <1>6, <2>1 DEF Accounted
  <2>2. CASE u # t
    <3>1. InPhase(u, "rows") /\ run'[u] = run[u]
      BY <1>1, <2>2 DEF InPhase, Running
    <3> QED
      BY <1>5, <3>1 DEF OnceInv, AccountedForReader
  <2> QED
    BY <2>1, <2>2
<1>8. AccountedForRun'
  <2> SUFFICES ASSUME NEW u \in Triggers, Running(u)', NEW ch \in run'[u].todo,
                      messages[ch][run'[u].copy.occ] > 0
               PROVE  <<ch, run'[u].copy.occ>> \in excused'
    BY DEF AccountedForRun
  <2>1. CASE u # t
    BY <1>1, <2>1 DEF OnceInv, AccountedForRun, Running
  <2> QED
    BY <2>1
<1>9. RivalsExcused'
  <2> SUFFICES ASSUME NEW a \in Triggers, NEW b \in Triggers, a # b, Running(a)', Running(b)',
                      run'[a].copy.occ = run'[b].copy.occ,
                      NEW ch \in Holding(a)' \cap Holding(b)'
               PROVE  <<ch, run'[a].copy.occ>> \in excused'
    BY DEF RivalsExcused
  <2>1. CASE a # t /\ b # t
    BY <1>1, <2>1 DEF OnceInv, RivalsExcused, Running, Holding
  <2>2. CASE a = t
    <3>1. Running(b) /\ run'[b] = run[b] /\ ch \in Holding(b)
      BY <1>1, <2>2 DEF Running, Holding
    <3> QED
      BY <2>2, <3>1
  <2>3. CASE b = t
    <3>1. Running(a) /\ run'[a] = run[a] /\ ch \in Holding(a)
      BY <1>1, <2>3 DEF Running, Holding
    <3> QED
      BY <2>3, <3>1
  <2> QED
    BY <2>1, <2>2, <2>3
<1> QED
  BY <1>2, <1>3, <1>4, <1>6, <1>7, <1>8, <1>9 DEF OnceInv

LEMMA OnceOfSend ==
  ASSUME CopyInv, OnceInv, NEW t \in Triggers, NEW ch \in Channels, NEW arrived \in BOOLEAN,
         NEW ok \in BOOLEAN, Send(t, ch, arrived, ok)
  PROVE  OnceInv'
<1> DEFINE at == run[t].copy.occ
<1>0. /\ TypeOK /\ row.occ \in Occurrences /\ row.occ \in Nat
      /\ messages \in [Channels -> [Occurrences -> Nat]] /\ \A o \in Occurrences : o \in Nat
  BY OnceTypes
<1>1. /\ OtherRuns(t) /\ Running(t) /\ run[t].at = Nil /\ run'[t].copy = run[t].copy
      /\ run'[t] # Nil /\ run'[t].phase # "rows" /\ ch \in run[t].todo
      /\ run'[t].todo = run[t].todo \ {ch}
      /\ run'[t].at = (IF ok THEN ch ELSE Nil) /\ run[t].todo \subseteq Channels
  BY <1>0, SentTo, RunTypes, NilAssumption DEF CopyInv
<1>1a. \A u \in Triggers \ {t} : run'[u] = run[u]
  BY <1>1 DEF OtherRuns
<1>2. at \in Occurrences /\ at \in Nat /\ at <= row.occ
  BY <1>0, <1>1, OnceTypes
<1>3. messages' = IF arrived THEN [messages EXCEPT ![ch][at] = @ + 1] ELSE messages
  BY DEF Send
<1>4. excused' = IF arrived /\ ~ok THEN excused \cup {<<ch, at>>} ELSE excused
  BY DEF Send
<1>5. UNCHANGED <<row, sent, request>> /\ (ok => arrived)
  BY DEF Send
<1>6. \A c \in Channels, o \in Occurrences : c # ch \/ o # at => messages'[c][o] = messages[c][o]
  BY <1>0, <1>2, <1>3
<1>7. /\ messages[ch][at] \in Nat
      /\ \/ messages'[ch][at] = messages[ch][at]
         \/ arrived /\ messages'[ch][at] = messages[ch][at] + 1
  BY <1>0, <1>2, <1>3
<1>8. excused \subseteq excused' /\ (arrived /\ ~ok => <<ch, at>> \in excused')
  BY <1>4
<1>9. messages[ch][at] > 0 => <<ch, at>> \in excused
  BY <1>1 DEF OnceInv, AccountedForRun
<1> HIDE <1>3, <1>4
<1>10. at = row.occ => row.due
  BY <1>1 DEF OnceInv, DayHasCome
<1>11. DayHasCome' /\ DayAhead'
  <2>1. DayHasCome'
    BY <1>1, <1>1a, <1>5 DEF OnceInv, DayHasCome, Running
  <2> QED
    BY <1>5, <2>1, AheadStays
<1>12. NotYetTold'
  <2> SUFFICES ASSUME NEW c \in Channels, NEW o \in Occurrences,
                      o > row.occ \/ (o = row.occ /\ ~row.due)
               PROVE  messages'[c][o] = 0
    BY <1>5 DEF NotYetTold
  <2>1. o # at
    BY <1>0, <1>2, <1>10
  <2> QED
    BY <1>6, <2>1 DEF OnceInv, NotYetTold
<1>13. ASSUME NEW c \in Channels, NEW o, Telling(c, o)
       PROVE  Telling(c, o)'
  <2>1. PICK u \in Triggers : Running(u) /\ run[u].at = c /\ run[u].copy.occ = o
    BY <1>13 DEF Telling
  <2>2. u # t
    BY <1>1, <2>1, EmailAssumption
  <2> QED
    BY <1>1a, <2>1, <2>2 DEF Telling, Running
<1>14. messages'[ch][at] > 0 => <<ch, at>> \in excused' \/ Telling(ch, at)'
  <2>1. CASE messages'[ch][at] = messages[ch][at]
    BY <1>8, <1>9, <2>1
  <2>2. CASE arrived /\ ok
    BY <1>1, <2>2 DEF Telling, Running
  <2> QED
    BY <1>7, <1>8, <2>1, <2>2
<1>15. Accounted'
  <2> SUFFICES ASSUME NEW c \in Channels, messages'[c][row.occ] > 0
               PROVE  <<c, row.occ>> \in excused' \/ c \in sent \/ Telling(c, row.occ)'
    BY <1>5 DEF Accounted
  <2>1. CASE c # ch \/ row.occ # at
    <3>1. messages[c][row.occ] > 0
      BY <1>0, <1>6, <2>1
    <3> QED
      BY <1>5, <1>8, <1>13, <3>1 DEF OnceInv, Accounted, Telling
  <2>2. CASE c = ch /\ row.occ = at
    <3>1. <<ch, at>> \in excused' \/ Telling(ch, at)'
      BY <1>14, <2>2
    <3> QED
      BY <1>1, <1>5, <2>2, <3>1 DEF Telling
  <2> QED
    BY <2>1, <2>2
<1>16. AccountedForReader'
  <2> SUFFICES ASSUME NEW u \in Triggers, InPhase(u, "rows")', NEW c \in Channels,
                      messages'[c][run'[u].copy.occ] > 0
               PROVE  \/ <<c, run'[u].copy.occ>> \in excused' \/ c \in sent
                      \/ Telling(c, run[u].copy.occ)'
    BY <1>5 DEF AccountedForReader
  <2>1. InPhase(u, "rows") /\ run'[u] = run[u] /\ run[u].copy.occ \in Occurrences
    <3>1. u # t
      BY <1>1 DEF InPhase
    <3>2. InPhase(u, "rows") /\ run'[u] = run[u]
      BY <1>1a, <3>1 DEF InPhase, Running
    <3> QED
      BY <3>2, OnceTypes DEF InPhase
  <2>2. CASE c # ch \/ run[u].copy.occ # at
    <3>1. messages[c][run[u].copy.occ] > 0
      BY <1>6, <2>1, <2>2
    <3> QED
      BY <1>8, <1>13, <2>1, <3>1 DEF OnceInv, AccountedForReader
  <2>3. CASE c = ch /\ run[u].copy.occ = at
    <3>1. <<ch, at>> \in excused' \/ Telling(ch, at)'
      BY <1>14, <2>1, <2>3
    <3> QED
      BY <1>1, <1>1a, <2>1, <2>3, <3>1 DEF Telling
  <2> QED
    BY <2>2, <2>3
<1>17. AccountedForRun'
  <2> SUFFICES ASSUME NEW u \in Triggers, Running(u)', NEW c \in run'[u].todo,
                      messages'[c][run'[u].copy.occ] > 0
               PROVE  <<c, run'[u].copy.occ>> \in excused'
    BY DEF AccountedForRun
  <2>1. /\ Running(u) /\ c \in run[u].todo /\ run'[u].copy = run[u].copy
        /\ (u = t => c # ch)
    BY <1>1, <1>1a DEF Running
  <2>2. run[u].copy.occ \in Occurrences /\ c \in Channels
    BY <2>1, OnceTypes
  <2>3. CASE c # ch \/ run[u].copy.occ # at
    BY <1>6, <1>8, <2>1, <2>2, <2>3 DEF OnceInv, AccountedForRun
  <2>4. CASE c = ch /\ run[u].copy.occ = at
    <3>1. ch \in Holding(t) \cap Holding(u) /\ u # t
      BY <1>1, <2>1, <2>4 DEF Holding
    <3> QED
      BY <1>1, <1>8, <2>1, <2>4, <3>1 DEF OnceInv, RivalsExcused
  <2> QED
    BY <2>3, <2>4
<1>18. RivalsExcused'
  <2>1. \A u \in Triggers : Running(u)' =>
           Running(u) /\ run'[u].copy = run[u].copy /\ Holding(u)' \subseteq Holding(u)
    BY <1>1, <1>1a DEF Running, Holding
  <2> QED
    BY <1>8, <2>1 DEF OnceInv, RivalsExcused
<1>19. NoticedOnce'
  <2> SUFFICES ASSUME NEW c \in Channels, NEW o \in Occurrences, messages'[c][o] > 1
               PROVE  <<c, o>> \in excused'
    BY DEF NoticedOnce
  <2>1. CASE c # ch \/ o # at
    BY <1>6, <1>8, <2>1 DEF OnceInv, NoticedOnce
  <2>2. CASE c = ch /\ o = at
    BY <1>7, <1>8, <1>9, <2>2
  <2> QED
    BY <2>1, <2>2
<1> QED
  BY <1>11, <1>12, <1>15, <1>16, <1>17, <1>18, <1>19 DEF OnceInv

LEMMA OnceOfReadDeliveries ==
  ASSUME CopyInv, OnceInv, NEW t \in Triggers, ReadDeliveries(t)
  PROVE  OnceInv'
<1> DEFINE at == run[t].copy.occ
           held == UNION {Holding(u) : u \in Rivals(t)}
<1>1. /\ OtherRuns(t) /\ Running(t) /\ run[t].phase = "rows" /\ run'[t] # Nil
      /\ run'[t].phase = "send" /\ run'[t].copy = run[t].copy /\ run'[t].todo = Eligible(t)
      /\ run[t].at = Nil /\ run'[t].at = Nil
  BY Asked, NilAssumption DEF CopyInv
<1>2. UNCHANGED <<row, request, messages, sent>>
  BY DEF ReadDeliveries
<1>3. excused' = excused \cup ((Eligible(t) \cap held) \X {at})
  BY DEF ReadDeliveries
<1>4. excused \subseteq excused' /\ \A ch \in Eligible(t) \cap held : <<ch, at>> \in excused'
  BY <1>3
<1>5. Eligible(t) \subseteq Channels \ sent
  BY DEF Eligible
<1>6. ASSUME NEW u \in Triggers \ {t}, Running(u), run[u].copy.occ = at, NEW ch \in Holding(u)
      PROVE  ch \in held
  BY <1>6 DEF Rivals
<1> HIDE DEF held
<1>7. ASSUME NEW ch \in Eligible(t), messages[ch][at] > 0
      PROVE  <<ch, at>> \in excused'
  <2>1. <<ch, at>> \in excused \/ Telling(ch, at)
    BY <1>1, <1>5, <1>7 DEF OnceInv, AccountedForReader, InPhase
  <2>2. CASE Telling(ch, at)
    <3>1. PICK u \in Triggers : Running(u) /\ run[u].at = ch /\ run[u].copy.occ = at
      BY <2>2 DEF Telling
    <3>2. u # t /\ ch \in Holding(u)
      BY <1>1, <1>5, <3>1, EmailAssumption DEF Holding
    <3> QED
      BY <1>4, <1>6, <3>1, <3>2
  <2> QED
    BY <1>4, <2>1, <2>2
<1>8. ASSUME NEW u \in Triggers \ {t}, Running(u), run[u].copy.occ = at,
             NEW ch \in Holding(t)' \cap Holding(u)
      PROVE  <<ch, at>> \in excused'
  <2>1. ch \in Eligible(t)
    BY <1>1 DEF Holding
  <2> QED
    BY <1>4, <1>6, <1>8, <2>1
<1> QED
  BY <1>1, <1>2, <1>4, <1>7, <1>8, OnceOfRun DEF InPhase

LEMMA OnceStep ==
  ASSUME CopyInv, OnceInv, [Next]_vars
  PROVE  OnceInv'
<1>0. TypeOK /\ CopyInv'
  BY CopyStep DEF CopyInv
<1>1. ASSUME NEW q \in Requests, Handle(q)
      PROVE  OnceInv'
  BY <1>0, <1>1, OnceOfHandler
<1>2. CASE DayComes
  <2>1. /\ \A t \in Triggers : ~Running(t) /\ ~Running(t)'
        /\ UNCHANGED <<request, messages, sent, excused>>
        /\ \A q \in Requests : ~InFlight(q)
    BY <1>2 DEF DayComes, Running
  <2>2. row'.occ = row.occ /\ row'.due
    BY <1>0, <1>2, DayCame
  <2>3. DayAhead'
    BY <2>1 DEF DayAhead, Clearing, InFlight, AtStep
  <2>4. Accounted'
    BY <2>1, <2>2 DEF OnceInv, Accounted, Telling
  <2> QED
    BY <2>1, <2>2, <2>3, <2>4 DEF OnceInv, DayHasCome, NotYetTold, AccountedForReader,
                            AccountedForRun, RivalsExcused, NoticedOnce, InPhase
<1>3. ASSUME NEW t \in Triggers, RunReminders(t)
      PROVE  OnceInv'
  <2>1. CASE ReadRows(t)
    <3>1. /\ OtherRuns(t) /\ ~Running(t) /\ run'[t].copy = row /\ run'[t].todo = {}
          /\ run'[t].at = Nil /\ row.due
      BY <1>0, <2>1, RowsRead
    <3>2. UNCHANGED <<row, request, messages, sent, excused>>
      BY <2>1 DEF ReadRows
    <3>3. Holding(t)' = {}
      BY <3>1 DEF Holding
    <3> QED
      BY <3>1, <3>2, <3>3, OnceOfRun
  <2>2. CASE ReadDeliveries(t)
    BY <2>2, OnceOfReadDeliveries
  <2>3. CASE SaveMirror(t)
    <3>1. /\ OtherRuns(t) /\ Running(t) /\ run'[t] # Nil /\ run'[t].phase # "rows"
          /\ run'[t].copy = run[t].copy /\ run'[t].at = run[t].at /\ run'[t].todo = run[t].todo
      BY <1>0, <2>3, MirrorSaved, NilAssumption
    <3>2. UNCHANGED <<request, messages, sent, excused>>
      BY <2>3 DEF SaveMirror
    <3>3. row'.occ = row.occ /\ row'.due = row.due
      BY <2>3, Mirrored
    <3>4. Running(t)' /\ ~InPhase(t, "rows")' /\ Holding(t)' = Holding(t)
      BY <3>1 DEF Running, InPhase, Holding
    <3>5. \A ch \in run'[t].todo : messages[ch][run'[t].copy.occ] > 0
             => <<ch, run'[t].copy.occ>> \in excused'
      BY <3>1, <3>2 DEF OnceInv, AccountedForRun
    <3>6. \A u \in Triggers \ {t} : Running(u) /\ run[u].copy.occ = run'[t].copy.occ =>
             \A ch \in Holding(t)' \cap Holding(u) : <<ch, run[u].copy.occ>> \in excused'
      BY <3>1, <3>2, <3>4 DEF OnceInv, RivalsExcused
    <3> QED
      BY <3>1, <3>2, <3>3, <3>4, <3>5, <3>6, OnceOfRun
  <2>4. CASE EndRun(t)
    <3>1. OtherRuns(t) /\ Running(t) /\ run'[t] = Nil /\ run[t].at = Nil
      BY <1>0, <2>4, RunOver DEF CopyInv, EndRun, InPhase
    <3>2. UNCHANGED <<row, request, messages, sent, excused>>
      BY <2>4 DEF EndRun
    <3> QED
      BY <3>1, <3>2, OnceOfRun DEF Running, InPhase
  <2>5. CASE RunDies(t)
    <3>1. OtherRuns(t) /\ Running(t) /\ run'[t] = Nil
      BY <1>0, <2>5, RunOver
    <3>2. /\ UNCHANGED <<row, request, messages, sent>>
          /\ excused' = excused \cup (({run[t].at} \ {Nil}) \X {run[t].copy.occ})
      BY <2>5 DEF RunDies
    <3>3. /\ excused \subseteq excused'
          /\ run[t].at # Nil => <<run[t].at, run[t].copy.occ>> \in excused'
      BY <3>2
    <3> QED
      BY <3>1, <3>2, <3>3, OnceOfRun DEF Running, InPhase
  <2>6. ASSUME NEW ch \in Channels, NEW arrived \in BOOLEAN, NEW ok \in BOOLEAN,
               Send(t, ch, arrived, ok)
        PROVE  OnceInv'
    BY <2>6, OnceOfSend
  <2>7. ASSUME NEW ok \in BOOLEAN, RecordSent(t, ok)
        PROVE  OnceInv'
    <3>1. /\ OtherRuns(t) /\ Running(t) /\ run'[t] # Nil /\ run'[t].copy = run[t].copy
          /\ run'[t].phase # "rows" /\ run'[t].todo = run[t].todo /\ run'[t].at = Nil
      BY <1>0, <2>7, SentRecorded, NilAssumption
    <3>2. /\ sent' = IF ok THEN sent \cup {run[t].at} ELSE sent
          /\ excused' = IF ok THEN excused ELSE excused \cup {<<run[t].at, run[t].copy.occ>>}
          /\ UNCHANGED <<row, request, messages>>
      BY <2>7 DEF RecordSent
    <3>3. /\ excused \subseteq excused' /\ sent \subseteq sent'
          /\ run[t].at \in sent' \/ <<run[t].at, run[t].copy.occ>> \in excused'
      BY <3>2
    <3>4. Running(t)' /\ ~InPhase(t, "rows")' /\ Holding(t)' \subseteq Holding(t)
      BY <3>1 DEF Running, InPhase, Holding
    <3>5. \A ch \in run'[t].todo : messages[ch][run'[t].copy.occ] > 0
             => <<ch, run'[t].copy.occ>> \in excused'
      BY <3>1, <3>3 DEF OnceInv, AccountedForRun
    <3>6. \A u \in Triggers \ {t} : Running(u) /\ run[u].copy.occ = run'[t].copy.occ =>
             \A ch \in Holding(t)' \cap Holding(u) : <<ch, run[u].copy.occ>> \in excused'
      BY <3>1, <3>3, <3>4 DEF OnceInv, RivalsExcused
    <3> QED
      BY <3>1, <3>2, <3>3, <3>4, <3>5, <3>6, OnceOfRun
  <2> QED
    BY <1>3, <2>1, <2>2, <2>3, <2>4, <2>5, <2>6, <2>7 DEF RunReminders
<1>4. CASE DismissSuggestion \/ UNCHANGED vars
  <2>1. UNCHANGED <<row, sent, request, run, messages, excused>>
    BY <1>4 DEF DismissSuggestion, vars
  <2>2. DayAhead'
    BY <2>1, AheadStays
  <2> QED
    BY <1>0, <2>1, <2>2, OnceFrame
<1> QED
  BY <1>1, <1>2, <1>3, <1>4 DEF Next

-----------------------------------------------------------------------------
(* The theorems. *)

LEMMA InitCopies == Init => CopyInv
<1> SUFFICES ASSUME Init
             PROVE  CopyInv
  OBVIOUS
<1>1. /\ row \in [recurrence : Recurrences, occ : {1}, due : BOOLEAN, completed : BOOLEAN,
                  emailSent : BOOLEAN, revision : {1}, live : BOOLEAN]
  BY DEF Init
<1>2. row \in AnyRows /\ row.occ = 1 /\ row.revision = 1
  BY <1>1 DEF AnyRows
<1>3. 1 \in Occurrences
  BY BoundAssumption, FS_CardinalityType DEF Occurrences
<1>4. row \in Rows
  BY <1>2, <1>3, RowRange
<1>5. \A q \in Requests : request[q] = [op |-> "skip", step |-> "idle", copy |-> row]
  BY DEF Init
<1>6. request \in [Requests -> Handlers]
  <2>1. [op |-> "skip", step |-> "idle", copy |-> row] \in Handlers
    BY <1>4 DEF Handlers, Ops, Steps
  <2> QED
    BY <2>1 DEF Init
<1>7. TypeOK
  <2>1. runs \in 0 .. MaxWork
    BY BoundAssumption DEF Init
  <2>2. messages \in [Channels -> [Occurrences -> Nat]] /\ timeline \in [Occurrences -> Nat]
    BY DEF Init
  <2> QED
    BY <1>4, <1>6, <2>1, <2>2 DEF Init, TypeOK
<1>8. Spent = {} /\ \A q \in Requests : ~InFlight(q)
  BY <1>5 DEF Spent, InFlight
<1>9. Cardinality(Spent) = 0
  BY <1>8, FS_EmptySet
<1> QED
  BY <1>2, <1>7, <1>8, <1>9 DEF CopyInv, Init, Running

LEMMA InitRest == Init => TimelineInv /\ SuggestionInv /\ ToldInv /\ OnceInv
<1> SUFFICES ASSUME Init
             PROVE  TimelineInv /\ SuggestionInv /\ ToldInv /\ OnceInv
  OBVIOUS
<1>1. /\ row.live /\ ~row.emailSent /\ sent = {} /\ (\A t \in Triggers : ~Running(t))
      /\ suggestion \in {"none", "pending"}
      /\ \A o \in Occurrences : timeline[o] = 0
      /\ \A ch \in Channels, o \in Occurrences : messages[ch][o] = 0
  BY DEF Init, Running
<1>2. \A q \in Requests : request[q].step = "idle"
  BY DEF Init
<1>3. row.occ \in Occurrences
  BY InitCopies, RowTypes DEF CopyInv
<1>4. Recorders = {}
  BY <1>2 DEF Recorders, InFlight
<1>5. TimelineInv
  BY <1>1, <1>3, <1>4 DEF TimelineInv, RecordersApart, NotYetRecorded, RecordedByOne, NoneAhead,
                          TimelineIsTrue
<1>6. SuggestionInv
  BY <1>1, <1>2 DEF SuggestionInv, SuggestionFollowsReminder, Written, AtStep
<1>7. ToldInv
  BY <1>1 DEF ToldInv, ToldByRuns, ToldByMirror, ToldByRecords
<1>8. OnceInv
  BY <1>1, <1>2, <1>3 DEF OnceInv, DayHasCome, DayAhead, NotYetTold, Accounted,
                          AccountedForReader, AccountedForRun, RivalsExcused, NoticedOnce, InPhase, Clearing, AtStep
<1> QED
  BY <1>5, <1>6, <1>7, <1>8

(* The inductive invariant: whatever requests and runs there are, in any order,
   the runs of any number of triggers beside each other, with any write that
   fails, and with any handler and any run cut short where it is. *)
THEOREM Invariance == Spec => []IInv
<1>1. Init => IInv
  BY InitCopies, InitRest DEF IInv
<1>2. IInv /\ [Next]_vars => IInv'
  BY CopyStep, TimelineStep, SuggestionStep, ToldStep, OnceStep DEF IInv
<1> QED
  BY <1>1, <1>2, PTL DEF Spec

(* Types: what the rows, the records of deliveries, the requests and the runs of
   sendRemindersAt hold. *)
THEOREM TypeCorrect == Spec => []TypeOK
<1>1. IInv => TypeOK
  BY DEF IInv, CopyInv
<1> QED
  BY <1>1, Invariance, PTL

(* A request or a run that holds the revision of the live row holds the row:
   what bumpRevisionCAS compares is enough. *)
THEOREM CopiesAreTrue ==
    Spec => [](/\ \A q \in Requests : InFlight(q) => CopyTrue(request[q].copy, row)
               /\ \A t \in Triggers : Running(t) => CopyTrue(run[t].copy, row))
<1>1. IInv => /\ \A q \in Requests : InFlight(q) => CopyTrue(request[q].copy, row)
              /\ \A t \in Triggers : Running(t) => CopyTrue(run[t].copy, row)
  BY DEF IInv, CopyInv
<1> QED
  BY <1>1, Invariance, PTL

(* NoticedOnce: sendRemindersAt does not notify twice of an occurrence on a
   channel, but for the causes that excused names: an overlapping run is one
   only when it reads the records while the other has still to send on the
   channel, or to record that it did. *)
THEOREM OneNotice == Spec => []NoticedOnce
<1>1. IInv => NoticedOnce
  BY DEF IInv, OnceInv
<1> QED
  BY <1>1, Invariance, PTL

(* NothingSwallowed: CompleteReminder clears what stands for a delivery, the
   mirror in the row with the row, the records once it is saved. *)
THEOREM NoticesReach == Spec => []NothingSwallowed
<1>1. IInv => NothingSwallowed
  <2> SUFFICES ASSUME IInv, row.live, NEW ch \in Channels, messages[ch][row.occ] = 0
               PROVE  /\ ch = Email /\ row.emailSent => "moved" \in blamed
                      /\ ch \in sent => \/ blamed \cap {"moved", "overtaken"} # {}
                                        \/ \E q \in Requests :
                                              request[q].step \in {"written", "dismissed"}
    BY DEF NothingSwallowed
  <2>1. ch = Email /\ row.emailSent => "moved" \in blamed
    BY DEF IInv, ToldInv, ToldByMirror
  <2>2. ch \in sent => \/ blamed \cap {"moved", "overtaken"} # {}
                       \/ \E q \in Requests : request[q].step \in {"written", "dismissed"}
    BY DEF IInv, ToldInv, ToldByRecords, Clearing
  <2> QED
    BY <2>1, <2>2
<1> QED
  BY <1>1, Invariance, PTL

(* SuggestionFollowsReminder: CompleteReminder and DeleteReminder dismiss the
   suggestion after their write, the user by DismissReachOutSuggestion, and
   nobody else. *)
THEOREM SuggestionsFollow == Spec => []SuggestionFollowsReminder
<1>1. IInv => SuggestionFollowsReminder
  BY DEF IInv, SuggestionInv
<1> QED
  BY <1>1, Invariance, PTL

(* TimelineIsTrue: CompleteReminder writes an occurrence to the timeline once,
   but for the causes that contested names. *)
THEOREM OneCompletion == Spec => []TimelineIsTrue
<1>1. IInv => TimelineIsTrue
  BY DEF IInv, TimelineInv
<1> QED
  BY <1>1, Invariance, PTL
=============================================================================
