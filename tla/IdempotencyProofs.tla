-------------------------- MODULE IdempotencyProofs --------------------------
(***************************************************************************)
(* Proofs about Idempotency, for any number of attempts and fingerprints.  *)
(*                                                                         *)
(* OneOwner is inductive together with Young: a row old enough to be       *)
(* purged belongs to an attempt that is over, so the purge never frees the *)
(* key under a handler that still runs.  ReplaysAreFaithful needs to know  *)
(* what a completed row stands for (Complete), and that an attempt which   *)
(* is over keeps its answer (Told).  OneEffectWhileRemembered counts the   *)
(* effects by the row: while its conditions hold, every attempt that had   *)
(* an effect owns the one row of the key (Remembered).                     *)
(***************************************************************************)
EXTENDS Idempotency, FiniteSetTheorems, TLAPS

(* A row that can be purged outlives the attempt that claimed it. *)
Young == row # NoRow /\ row.old => phase[row.owner] = "done"

(* A completed row stands for an activity and the answer that reported it. *)
Complete ==
    row # NoRow => /\ row.print = print[row.owner]
                   /\ row.state = "completed" => /\ phase[row.owner] = "done"
                                                 /\ answer[row.owner] = "created"
                                                 /\ row.owner \in effects

(* Attempts answer once, and a success reports an activity. *)
Told ==
    \A a \in Attempts :
        /\ answer[a] # "none" => phase[a] \in {"answered", "done"}
        /\ phase[a] = "inserted" => a \in effects
        /\ answer[a] \in {"created", "large"} => a \in effects
        /\ answer[a] = "replayed" => phase[source[a]] = "done"
        /\ phase[a] = "answered" => answer[a] \in {"created", "large", "failed"}

(* The conditions of OneEffectWhileRemembered, and what they are good for: the
   key is never free again once an attempt had an effect. *)
Unforgotten == ~purged /\ \A a \in effects : answer[a] \notin {"large", "failed"}
Remembered == Unforgotten => \A a \in effects : Owns(a)

(* Whoever has not come to the insert has had no effect. *)
NotYet == \A a \in Attempts :
    phase[a] \in {"idle", "claiming", "reading", "running"} => a \notin effects

IInv == TypeOK /\ OneOwner /\ Young /\ Complete /\ Told /\ Remembered /\ ReplaysAreFaithful
          /\ NotYet

-----------------------------------------------------------------------------
(* A row of the table is a row. *)
LEMMA RowsAreRows == NoRow \notin KeyRows
BY NoRowAssumption DEF KeyRows

LEMMA InitImpliesIInv == Init => IInv
<1> SUFFICES ASSUME Init PROVE IInv
  OBVIOUS
<1>1. TypeOK
  BY DEF Init, TypeOK, Phases, Answers
<1>2. OneOwner
  BY DEF Init, OneOwner, Working
<1>3. Young /\ Complete
  BY DEF Init, Young, Complete
<1>4. Told /\ Remembered /\ ReplaysAreFaithful /\ NotYet
  BY DEF Init, Told, Remembered, ReplaysAreFaithful, NotYet
<1> QED
  BY <1>1, <1>2, <1>3, <1>4 DEF IInv

LEMMA TypeOKStep == TypeOK /\ [Next]_vars => TypeOK'
<1> SUFFICES ASSUME TypeOK, [Next]_vars PROVE TypeOK'
  OBVIOUS
<1> USE DEF TypeOK, Phases, Answers, KeyRows
<1>1. ASSUME NEW a \in Attempts, Arrive(a) PROVE TypeOK'
  BY <1>1 DEF Arrive, Goto
<1>2. ASSUME NEW a \in Attempts, Claim(a) PROVE TypeOK'
  <2>1. phase' \in [Attempts -> Phases]
    BY <1>2 DEF Claim, Goto
  <2>2. row' \in KeyRows \cup {NoRow}
    <3>1. [owner |-> a, print |-> print[a], state |-> "pending", old |-> FALSE] \in KeyRows
      OBVIOUS
    <3>2. CASE Free
      BY <1>2, <3>1, <3>2 DEF Claim
    <3>3. CASE ~Free
      BY <1>2, <3>3 DEF Claim
    <3> QED
      BY <3>2, <3>3
  <2> QED
    BY <1>2, <2>1, <2>2 DEF Claim
<1>3. ASSUME NEW a \in Attempts, ReadStored(a) PROVE TypeOK'
  <2>1. phase' \in [Attempts -> Phases] /\ answer' \in [Attempts -> Answers]
    BY <1>3 DEF ReadStored, Goto, Reply
  <2>2. source' \in [Attempts -> Attempts]
    BY <1>3 DEF ReadStored
  <2> QED
    BY <1>3, <2>1, <2>2 DEF ReadStored
<1>4. ASSUME NEW a \in Attempts, InsertActivity(a) PROVE TypeOK'
  BY <1>4 DEF InsertActivity, Goto, Reply
<1>5. ASSUME NEW a \in Attempts, AppendContacts(a) PROVE TypeOK'
  BY <1>5 DEF AppendContacts, Goto, Reply
<1>6. ASSUME NEW a \in Attempts, Panic(a) PROVE TypeOK'
  BY <1>6 DEF Panic, Goto, Reply
<1>7. ASSUME NEW a \in Attempts, Settle(a) PROVE TypeOK'
  BY <1>7 DEF Settle, Goto, Owns, Completed
<1>8. CASE Crash
  BY <1>8 DEF Crash
<1>9. CASE Expire
  BY <1>9 DEF Expire
<1>10. CASE Purge
  BY <1>10 DEF Purge
<1>11. CASE UNCHANGED vars
  BY <1>11 DEF vars
<1> QED
  BY <1>1, <1>2, <1>3, <1>4, <1>5, <1>6, <1>7, <1>8, <1>9, <1>10, <1>11 DEF Next

(* The claim needs a free key, and a key is never free under a handler that
   runs: what is dropped was settled by its owner, what is purged is old. *)
LEMMA OneOwnerStep ==
    TypeOK /\ OneOwner /\ Young /\ [Next]_vars => OneOwner' /\ Young'
<1> SUFFICES ASSUME TypeOK, OneOwner, Young, [Next]_vars PROVE OneOwner' /\ Young'
  OBVIOUS
<1> USE RowsAreRows DEF TypeOK, OneOwner, Young, Working, Owns
<1>1. ASSUME NEW a \in Attempts, Arrive(a) PROVE OneOwner' /\ Young'
  BY <1>1 DEF Arrive, Goto, KeyRows
<1>2. ASSUME NEW a \in Attempts, Claim(a) PROVE OneOwner' /\ Young'
  <2>1. CASE Free
    <3> DEFINE r == [owner |-> a, print |-> print[a], state |-> "pending", old |-> FALSE]
    <3>1. r \in KeyRows /\ row' = r /\ phase' = [phase EXCEPT ![a] = "running"]
      BY <1>2, <2>1 DEF Claim, Goto, KeyRows
    <3>2. \A b \in Attempts : ~Working(b)
      BY <2>1 DEF Free
    <3>3. row' # NoRow /\ row'.owner = a /\ row'.state = "pending" /\ row'.old = FALSE
      BY <3>1
    <3> QED
      BY <3>1, <3>2, <3>3
  <2>2. CASE ~Free
    BY <1>2, <2>2 DEF Claim, Goto, KeyRows
  <2> QED
    BY <2>1, <2>2
<1>3. ASSUME NEW a \in Attempts, ReadStored(a) PROVE OneOwner' /\ Young'
  BY <1>3 DEF ReadStored, Goto, KeyRows
<1>4. ASSUME NEW a \in Attempts, InsertActivity(a) PROVE OneOwner' /\ Young'
  BY <1>4 DEF InsertActivity, Goto, KeyRows
<1>5. ASSUME NEW a \in Attempts, AppendContacts(a) PROVE OneOwner' /\ Young'
  BY <1>5 DEF AppendContacts, Goto, KeyRows
<1>6. ASSUME NEW a \in Attempts, Panic(a) PROVE OneOwner' /\ Young'
  BY <1>6 DEF Panic, Goto, KeyRows
<1>7. ASSUME NEW a \in Attempts, Settle(a) PROVE OneOwner' /\ Young'
  <2>1. phase' = [phase EXCEPT ![a] = "done"] /\ Working(a)
    BY <1>7 DEF Settle, Goto
  <2>2. \A b \in Attempts : ~Working(b)'
    BY <2>1
  <2>3. row' \in {row, Completed(row), NoRow}
    BY <1>7 DEF Settle
  <2>4. row \in KeyRows /\ row.owner = a
    BY <2>1
  <2>5. row' # NoRow => row'.owner = a
    BY <2>3, <2>4 DEF Completed, KeyRows
  <2> QED
    BY <2>1, <2>2, <2>5
<1>8. CASE Crash
  BY <1>8 DEF Crash, KeyRows
<1>9. CASE Expire
  <2>1. row' = [row EXCEPT !.old = TRUE] /\ row \in KeyRows /\ phase' = phase
    BY <1>9 DEF Expire
  <2>2. row' # NoRow /\ row'.owner = row.owner /\ row'.state = row.state
    BY <2>1 DEF KeyRows
  <2> QED
    BY <1>9, <2>1, <2>2 DEF Expire
<1>10. CASE Purge
  <2>1. \A b \in Attempts : ~Working(b)
    BY <1>10 DEF Purge, Purgeable
  <2> QED
    BY <1>10, <2>1 DEF Purge
<1>11. CASE UNCHANGED vars
  BY <1>11 DEF vars
<1> QED
  BY <1>1, <1>2, <1>3, <1>4, <1>5, <1>6, <1>7, <1>8, <1>9, <1>10, <1>11 DEF Next

(* Complete and Told say of an attempt what its own steps leave behind, so
   each step is a matter of that attempt and of the owner of the row. *)
LEMMA CompleteStep ==
    TypeOK /\ OneOwner /\ Young /\ Complete /\ Told /\ [Next]_vars => Complete'
<1> SUFFICES ASSUME TypeOK, OneOwner, Young, Complete, Told, [Next]_vars PROVE Complete'
  OBVIOUS
<1> USE RowsAreRows DEF TypeOK, Complete, KeyRows
<1>1. ASSUME NEW a \in Attempts, Arrive(a) PROVE Complete'
  BY <1>1 DEF Arrive, Goto
<1>2. ASSUME NEW a \in Attempts, Claim(a) PROVE Complete'
  BY <1>2 DEF Claim, Goto
<1>3. ASSUME NEW a \in Attempts, ReadStored(a) PROVE Complete'
  BY <1>3 DEF ReadStored, Goto, Reply
<1>4. ASSUME NEW a \in Attempts, InsertActivity(a) PROVE Complete'
  BY <1>4 DEF InsertActivity, Goto, Reply
<1>5. ASSUME NEW a \in Attempts, AppendContacts(a) PROVE Complete'
  BY <1>5 DEF AppendContacts, Goto, Reply
<1>6. ASSUME NEW a \in Attempts, Panic(a) PROVE Complete'
  BY <1>6 DEF Panic, Goto, Reply
<1>7. ASSUME NEW a \in Attempts, Settle(a) PROVE Complete'
  <2>1. Owns(a) /\ phase' = [phase EXCEPT ![a] = "done"]
    BY <1>7 DEF Settle, Goto, OneOwner, Working
  <2>2. CASE row' = Completed(row) /\ Cacheable(a)
    BY <1>7, <2>1, <2>2 DEF Settle, Completed, Cacheable, Owns, Told
  <2>3. CASE row' = NoRow \/ row' = row
    BY <1>7, <2>1, <2>3 DEF Settle
  <2> QED
    BY <1>7, <2>1, <2>2, <2>3 DEF Settle
<1>8. CASE Crash
  BY <1>8 DEF Crash
<1>9. CASE Expire
  BY <1>9 DEF Expire
<1>10. CASE Purge
  BY <1>10 DEF Purge
<1>11. CASE UNCHANGED vars
  BY <1>11 DEF vars
<1> QED
  BY <1>1, <1>2, <1>3, <1>4, <1>5, <1>6, <1>7, <1>8, <1>9, <1>10, <1>11 DEF Next

LEMMA ToldStep ==
    TypeOK /\ Complete /\ Told /\ [Next]_vars => Told'
<1> SUFFICES ASSUME TypeOK, Complete, Told, [Next]_vars PROVE Told'
  OBVIOUS
<1> USE RowsAreRows DEF TypeOK, Told
<1>1. ASSUME NEW a \in Attempts, Arrive(a) PROVE Told'
  BY <1>1 DEF Arrive, Goto
<1>2. ASSUME NEW a \in Attempts, Claim(a) PROVE Told'
  BY <1>2 DEF Claim, Goto
<1>3. ASSUME NEW a \in Attempts, ReadStored(a) PROVE Told'
  <2>1. CASE answer' = [answer EXCEPT ![a] = "replayed"]
    BY <1>3, <2>1 DEF ReadStored, Goto, Reply, Complete, KeyRows
  <2>2. CASE answer' # [answer EXCEPT ![a] = "replayed"]
    BY <1>3, <2>2 DEF ReadStored, Goto, Reply
  <2> QED
    BY <2>1, <2>2
<1>4. ASSUME NEW a \in Attempts, InsertActivity(a) PROVE Told'
  BY <1>4 DEF InsertActivity, Goto, Reply
<1>5. ASSUME NEW a \in Attempts, AppendContacts(a) PROVE Told'
  BY <1>5 DEF AppendContacts, Goto, Reply
<1>6. ASSUME NEW a \in Attempts, Panic(a) PROVE Told'
  BY <1>6 DEF Panic, Goto, Reply
<1>7. ASSUME NEW a \in Attempts, Settle(a) PROVE Told'
  BY <1>7 DEF Settle, Goto
<1>8. CASE Crash
  BY <1>8 DEF Crash
<1>9. CASE Expire
  BY <1>9 DEF Expire
<1>10. CASE Purge
  BY <1>10 DEF Purge
<1>11. CASE UNCHANGED vars
  BY <1>11 DEF vars
<1> QED
  BY <1>1, <1>2, <1>3, <1>4, <1>5, <1>6, <1>7, <1>8, <1>9, <1>10, <1>11 DEF Next

(* An answer is final, so conditions that hold after a step held before it. *)
LEMMA UnforgottenBefore ==
    TypeOK /\ Told /\ [Next]_vars /\ Unforgotten' => Unforgotten
<1> SUFFICES ASSUME TypeOK, Told, [Next]_vars, Unforgotten' PROVE Unforgotten
  OBVIOUS
<1>1. ~purged /\ effects \subseteq effects'
  <2>1. purged => purged'
    BY DEF Next, Arrive, Claim, ReadStored, InsertActivity, AppendContacts, Panic, Settle, Crash,
           Expire, Purge, vars
  <2>2. effects \subseteq effects'
    BY DEF Next, Arrive, Claim, ReadStored, InsertActivity, AppendContacts, Panic, Settle, Crash,
           Expire, Purge, vars
  <2> QED BY <2>1, <2>2 DEF Unforgotten
<1>2. ASSUME NEW a \in Attempts, answer[a] # "none" PROVE answer'[a] = answer[a]
  <2>1. phase[a] \in {"answered", "done"}
    BY <1>2 DEF Told
  <2>2. ASSUME NEW b \in Attempts, phase[b] \notin {"answered", "done"}, NEW what, Reply(b, what)
        PROVE  answer'[a] = answer[a]
    BY <2>1, <2>2 DEF Reply, TypeOK
  <2>3. CASE answer' = answer
    BY <2>3
  <2>4. CASE answer' # answer
    <3>1. PICK b \in Attempts : ReadStored(b) \/ InsertActivity(b) \/ AppendContacts(b) \/ Panic(b)
      BY <2>4 DEF Next, Arrive, Claim, Settle, Crash, Expire, Purge, vars
    <3>2. phase[b] \notin {"answered", "done"}
      BY <3>1 DEF ReadStored, InsertActivity, AppendContacts, Panic
    <3>3. \E what : Reply(b, what)
      BY <2>4, <3>1 DEF ReadStored, InsertActivity, AppendContacts, Panic
    <3> QED BY <2>2, <3>2, <3>3
  <2> QED BY <2>3, <2>4
<1> QED BY <1>1, <1>2 DEF Unforgotten, TypeOK

(* Whoever has an effect owns the row, and the row stays until its owner drops
   it, having had none, or the purge takes it. *)
LEMMA RememberedStep ==
    TypeOK /\ OneOwner /\ Told /\ Remembered /\ [Next]_vars => Remembered'
<1> SUFFICES ASSUME TypeOK, OneOwner, Told, Remembered, [Next]_vars, Unforgotten'
             PROVE  \A a \in effects' : Owns(a)'
  BY DEF Remembered
<1>0. /\ \A a \in effects : row # NoRow /\ row.owner = a
      /\ effects \subseteq Attempts
      /\ row # NoRow => row \in KeyRows
  BY UnforgottenBefore DEF Remembered, Owns, TypeOK
<1> USE RowsAreRows DEF Owns
<1>1. ASSUME NEW a \in Attempts, Arrive(a) \/ ReadStored(a) \/ AppendContacts(a) \/ Panic(a)
      PROVE  \A b \in effects' : Owns(b)'
  BY <1>0, <1>1 DEF Arrive, ReadStored, AppendContacts, Panic
<1>2. ASSUME NEW a \in Attempts, Claim(a) PROVE \A b \in effects' : Owns(b)'
  BY <1>0, <1>2 DEF Claim, Free
<1>3. ASSUME NEW a \in Attempts, InsertActivity(a) PROVE \A b \in effects' : Owns(b)'
  BY <1>0, <1>3 DEF InsertActivity, OneOwner, Working
<1>4. ASSUME NEW a \in Attempts, Settle(a) PROVE \A b \in effects' : Owns(b)'
  <2>1. /\ effects' = effects /\ answer' = answer /\ row # NoRow /\ row.owner = a
        /\ phase[a] = "answered"
    BY <1>4 DEF Settle, OneOwner, Working
  <2>2. CASE effects = {}
    BY <2>1, <2>2
  <2>3. CASE effects # {}
    <3>1. effects = {a}
      BY <1>0, <2>1, <2>3
    <3>2. row' = row \/ row' = Completed(row) \/ (row' = NoRow /\ ~Cacheable(a))
      BY <1>4 DEF Settle
    <3>3. answer[a] \notin {"large", "failed"}
      BY <2>1, <3>1 DEF Unforgotten
    <3>4. CASE row' = NoRow /\ ~Cacheable(a)
      (* Only what an attempt was answered, and it was not a replay, settles it. *)
      <4>1. answer[a] \in {"created", "large", "failed"}
        BY <2>1 DEF Told
      <4> QED BY <3>3, <3>4, <4>1 DEF Cacheable
    <3>5. CASE row' = row \/ row' = Completed(row)
      BY <1>0, <2>1, <3>1, <3>5 DEF Completed, KeyRows
    <3> QED BY <3>2, <3>4, <3>5
  <2> QED BY <2>2, <2>3
<1>5. CASE Crash
  BY <1>0, <1>5 DEF Crash
<1>6. CASE Expire
  BY <1>0, <1>6 DEF Expire, KeyRows
<1>7. CASE Purge
  BY <1>7 DEF Purge, Unforgotten
<1>8. CASE UNCHANGED vars
  BY <1>0, <1>8 DEF vars
<1> QED
  BY <1>1, <1>2, <1>3, <1>4, <1>5, <1>6, <1>7, <1>8 DEF Next

(* A replay is right when it is sent, because the row it was read from is
   Complete, and stays right, because its source is over. *)
LEMMA ReplaysStep ==
    TypeOK /\ Complete /\ Told /\ ReplaysAreFaithful /\ [Next]_vars => ReplaysAreFaithful'
<1> SUFFICES ASSUME TypeOK, Complete, Told, ReplaysAreFaithful, [Next]_vars
             PROVE ReplaysAreFaithful'
  OBVIOUS
<1> USE DEF TypeOK, Told, ReplaysAreFaithful
<1>1. ASSUME NEW a \in Attempts, Arrive(a) PROVE ReplaysAreFaithful'
  BY <1>1 DEF Arrive
<1>2. ASSUME NEW a \in Attempts, Claim(a) PROVE ReplaysAreFaithful'
  BY <1>2 DEF Claim
<1>3. ASSUME NEW a \in Attempts, ReadStored(a) PROVE ReplaysAreFaithful'
  <2>1. CASE answer' = [answer EXCEPT ![a] = "replayed"]
    <3>1. /\ row # NoRow /\ row \in KeyRows
          /\ row.print = print[a] /\ row.state = "completed"
          /\ source' = [source EXCEPT ![a] = row.owner]
      BY <1>3, <2>1 DEF ReadStored, Reply, SameRequest
    <3>2. /\ row.owner \in effects /\ answer[row.owner] = "created"
          /\ phase[row.owner] = "done" /\ print[row.owner] = print[a]
      BY <3>1 DEF Complete
    <3>3. row.owner # a /\ row.owner \in Attempts
      BY <1>3, <3>1, <3>2 DEF ReadStored, KeyRows
    <3> QED
      BY <1>3, <2>1, <3>1, <3>2, <3>3 DEF ReadStored
  <2>2. CASE answer' # [answer EXCEPT ![a] = "replayed"]
    BY <1>3, <2>2 DEF ReadStored, Reply
  <2> QED
    BY <2>1, <2>2
<1>4. ASSUME NEW a \in Attempts, InsertActivity(a) PROVE ReplaysAreFaithful'
  BY <1>4 DEF InsertActivity, Reply
<1>5. ASSUME NEW a \in Attempts, AppendContacts(a) PROVE ReplaysAreFaithful'
  BY <1>5 DEF AppendContacts, Reply
<1>6. ASSUME NEW a \in Attempts, Panic(a) PROVE ReplaysAreFaithful'
  BY <1>6 DEF Panic, Reply
<1>7. ASSUME NEW a \in Attempts, Settle(a) PROVE ReplaysAreFaithful'
  BY <1>7 DEF Settle
<1>8. CASE Crash
  BY <1>8 DEF Crash
<1>9. CASE Expire \/ Purge
  BY <1>9 DEF Expire, Purge
<1>10. CASE UNCHANGED vars
  BY <1>10 DEF vars
<1> QED
  BY <1>1, <1>2, <1>3, <1>4, <1>5, <1>6, <1>7, <1>8, <1>9, <1>10 DEF Next

(* The effect comes with the step that leaves the head of the handler. *)
LEMMA NotYetStep == TypeOK /\ NotYet /\ [Next]_vars => NotYet'
<1> SUFFICES ASSUME TypeOK, NotYet, [Next]_vars PROVE NotYet'
  OBVIOUS
<1> USE DEF TypeOK, NotYet
<1>1. ASSUME NEW a \in Attempts,
             Arrive(a) \/ Claim(a) \/ ReadStored(a) \/ AppendContacts(a) \/ Panic(a) \/ Settle(a)
      PROVE  NotYet'
  BY <1>1 DEF Arrive, Claim, ReadStored, AppendContacts, Panic, Settle, Goto
<1>2. ASSUME NEW a \in Attempts, InsertActivity(a) PROVE NotYet'
  BY <1>2 DEF InsertActivity, Goto
<1>3. CASE Crash
  BY <1>3 DEF Crash
<1>4. CASE Expire \/ Purge \/ UNCHANGED vars
  BY <1>4 DEF Expire, Purge, vars
<1> QED
  BY <1>1, <1>2, <1>3, <1>4 DEF Next

-----------------------------------------------------------------------------
(* The inductive invariant. *)
THEOREM Invariance == Spec => []IInv
<1>1. IInv /\ [Next]_vars => IInv'
  BY TypeOKStep, OneOwnerStep, CompleteStep, ToldStep, RememberedStep, ReplaysStep,
     NotYetStep DEF IInv
<1> QED
  BY <1>1, InitImpliesIInv, PTL DEF Spec

(* Every variable keeps its type. *)
THEOREM TypeCorrectness == Spec => []TypeOK
<1>1. IInv => TypeOK
  BY DEF IInv
<1> QED
  BY <1>1, Invariance, PTL

(* However many attempts race, one at a time is past the claim and the row is
   its own (IdempotencyMiddleware). *)
THEOREM OneHandlerAtATime == Spec => []OneOwner
<1>1. IInv => OneOwner
  BY DEF IInv
<1> QED
  BY <1>1, Invariance, PTL

(* A keyed create takes effect once, as long as the row is kept and every answer
   could be stored (IdempotencyMiddleware, CreateActivity). *)
THEOREM OneEffect == Spec => []OneEffectWhileRemembered
<1>1. IInv => OneEffectWhileRemembered
  <2> SUFFICES ASSUME Remembered, Unforgotten PROVE Cardinality(effects) <= 1
    BY DEF IInv, OneEffectWhileRemembered, Unforgotten
  <2>1. effects = {} \/ effects = {row.owner}
    BY DEF Remembered, Owns
  <2>2. Cardinality({}) = 0 /\ Cardinality({row.owner}) = 1
    BY FS_EmptySet, FS_Singleton
  <2> QED BY <2>1, <2>2
<1> QED
  BY <1>1, Invariance, PTL

(* A replay reports an activity that was created by the same request
   (replayStoredResponse). *)
THEOREM ReplaysTellTheTruth == Spec => []ReplaysAreFaithful
<1>1. IInv => ReplaysAreFaithful
  BY DEF IInv
<1> QED
  BY <1>1, Invariance, PTL

-----------------------------------------------------------------------------
(* The attempts implement KeyedRequest.  Each lemma is about the steps of one
   abstract action; what the table and the claims do beside it is a stutter. *)

(* An attempt at work holds the key, alone. *)
LEMMA WorkerHolds ==
    ASSUME IInv, NEW a \in Attempts, Working(a)
    PROVE  /\ {b \in Attempts : Owns(b)} = {a}
           /\ {b \in Attempts : Working(b)} = {a}
           /\ row # NoRow /\ row.owner = a /\ row.state = "pending"
BY DEF IInv, OneOwner, Owns

(* What is said, said is again what was answered. *)
LEMMA SaidOf ==
    ASSUME NEW a \in Attempts, NEW what, answer' = [answer EXCEPT ![a] = what], TypeOK
    PROVE  [b \in Attempts |-> Said(answer[b])]'
             = [[b \in Attempts |-> Said(answer[b])] EXCEPT ![a] = Said(what)]
BY DEF TypeOK, Said, Refusals

LEMMA SaidNothing == \A what : Said(what) = "none" <=> what = "none"
BY DEF Said, Refusals

(* Nothing the clients could notice. *)
LEMMA StutterKeyed ==
    ASSUME IInv, NEW a \in Attempts, Arrive(a) \/ (Claim(a) /\ ~Free) \/ Expire
    PROVE  UNCHANGED Keyed!keyed
<1> USE DEF IInv, TypeOK, Owns, Working
<1>1. CASE Arrive(a)
  BY <1>1 DEF Arrive, Goto, Keyed!keyed, Said
<1>2. CASE Claim(a) /\ ~Free
  BY <1>2 DEF Claim, Goto, Keyed!keyed, Said
<1>3. CASE Expire
  <2>1. row \in KeyRows /\ row' \in KeyRows /\ row'.owner = row.owner /\ row'.state = row.state
    BY <1>3 DEF Expire, KeyRows
  <2>2. row # NoRow /\ row' # NoRow
    BY <2>1, RowsAreRows
  <2> QED BY <1>3, <2>1, <2>2 DEF Expire, Keyed!keyed, Said
<1> QED BY <1>1, <1>2, <1>3

(* The claim that finds no row. *)
LEMMA ClaimAdmits ==
    ASSUME IInv, NEW a \in Attempts, Claim(a), Free
    PROVE  Keyed!Admit(a)
<1>1. /\ phase[a] = "claiming" /\ phase' = [phase EXCEPT ![a] = "running"] /\ row = NoRow
      /\ UNCHANGED <<print, answer, source, effects>>
  BY DEF Claim, Free, Goto
<1>2. {b \in Attempts : Owns(b)} = {} /\ {b \in Attempts : Working(b)} = {}
  BY <1>1 DEF IInv, OneOwner, Owns
<1>3. row' # NoRow /\ row'.owner = a /\ row'.state = "pending"
  <2>1. row' = [owner |-> a, print |-> print[a], state |-> "pending", old |-> FALSE]
    BY DEF Claim
  <2>2. row' \in KeyRows
    BY <2>1 DEF IInv, TypeOK, KeyRows
  <2> QED BY <2>1, <2>2, RowsAreRows
<1>4. {b \in Attempts : Owns(b)}' = {a}
  BY <1>3 DEF Owns
<1>5. {b \in Attempts : Working(b)}' = {a}
  BY <1>1, <1>2 DEF IInv, TypeOK, Working
<1>6. {b \in Attempts : phase[b] = "done"}' = {b \in Attempts : phase[b] = "done"}
  BY <1>1 DEF IInv, TypeOK
<1>7. Said(answer[a]) = "none"
  BY <1>1, SaidNothing DEF IInv, Told
<1>8. UNCHANGED [b \in Attempts |-> Said(answer[b])]
  BY <1>1 DEF Said
<1> QED BY <1>1, <1>2, <1>3, <1>4, <1>5, <1>6, <1>7, <1>8 DEF Keyed!Admit

(* The one at work takes its steps. *)
LEMMA InsertActs ==
    ASSUME IInv, NEW a \in Attempts, InsertActivity(a)
    PROVE  Keyed!Act(a) \/ Keyed!Answer(a)
<1>1. Working(a) /\ phase[a] = "running"
  BY DEF InsertActivity, Working
<1>2. answer[a] = "none" /\ a \notin effects
  BY <1>1 DEF IInv, Told, NotYet
<1>3. /\ {b \in Attempts : Working(b)}' = {b \in Attempts : Working(b)}
      /\ {b \in Attempts : phase[b] = "done"}' = {b \in Attempts : phase[b] = "done"}
      /\ {b \in Attempts : Owns(b)}' = {b \in Attempts : Owns(b)}
      /\ UNCHANGED <<row, print, source>>
  BY <1>1 DEF InsertActivity, Goto, IInv, TypeOK, Working, Owns
<1>4. CASE effects' = effects \cup {a} /\ UNCHANGED answer
  <2>1. UNCHANGED [b \in Attempts |-> Said(answer[b])]
    BY <1>4 DEF Said
  <2>2. Said(answer[a]) = "none"
    BY <1>2, SaidNothing
  <2> QED BY <1>1, <1>2, <1>3, <1>4, <2>1, <2>2 DEF Keyed!Act
<1>5. CASE answer' = [answer EXCEPT ![a] = "failed"] /\ UNCHANGED effects
  <2>1. Keyed!Tell(a, "failed")
    BY <1>2, <1>5, SaidOf DEF Keyed!Tell, IInv, Said, Refusals
  <2> QED BY <1>1, <1>3, <1>5, <2>1 DEF Keyed!Answer
<1> QED BY <1>4, <1>5 DEF InsertActivity, Reply

LEMMA AppendAnswers ==
    ASSUME IInv, NEW a \in Attempts, AppendContacts(a)
    PROVE  Keyed!Answer(a)
<1>1. Working(a) /\ phase[a] = "inserted"
  BY DEF AppendContacts, Working
<1>2. answer[a] = "none" /\ a \in effects
  BY <1>1 DEF IInv, Told
<1>3. /\ {b \in Attempts : Working(b)}' = {b \in Attempts : Working(b)}
      /\ {b \in Attempts : phase[b] = "done"}' = {b \in Attempts : phase[b] = "done"}
      /\ {b \in Attempts : Owns(b)}' = {b \in Attempts : Owns(b)}
      /\ UNCHANGED <<row, print, source, effects>>
  BY <1>1 DEF AppendContacts, Goto, IInv, TypeOK, Working, Owns
<1>4. PICK outcome \in {"created", "large", "failed"} : answer' = [answer EXCEPT ![a] = outcome]
  BY DEF AppendContacts, Reply
<1>5. Keyed!Tell(a, outcome)
  BY <1>2, <1>4, SaidOf DEF Keyed!Tell, IInv, Said, Refusals
<1> QED BY <1>1, <1>2, <1>3, <1>5 DEF Keyed!Answer

(* Where an attempt is over, it is at work no more. *)
LEMMA DoneCloses ==
    ASSUME IInv, NEW a \in Attempts, phase' = [phase EXCEPT ![a] = "done"]
    PROVE  Keyed!Close(a)
BY DEF IInv, TypeOK, Working, Keyed!Close

LEMMA PanicLeaves ==
    ASSUME IInv, NEW a \in Attempts, Panic(a)
    PROVE  Keyed!Leave(a)
<1>1. /\ Working(a) /\ phase[a] \in {"running", "inserted"}
      /\ phase' = [phase EXCEPT ![a] = "done"] /\ answer' = [answer EXCEPT ![a] = "panicked"]
  BY DEF Panic, Working, Goto, Reply
<1>2. Keyed!Close(a)
  BY <1>1, DoneCloses
<1>3. Keyed!Tell(a, "panicked")
  <2>1. Said(answer[a]) = "none"
    BY <1>1, SaidNothing DEF IInv, Told
  <2>2. TypeOK
    BY DEF IInv
  <2>3. Said("panicked") = "panicked"
    BY DEF Said, Refusals
  <2> QED BY <1>1, <2>1, <2>2, <2>3, SaidOf DEF Keyed!Tell
<1> QED BY <1>1, <1>2, <1>3 DEF Panic, Keyed!Leave, Owns

(* The row goes the way of the answer, or stays. *)
LEMMA SettleEnds ==
    ASSUME IInv, NEW a \in Attempts, Settle(a)
    PROVE  Keyed!Keep(a) \/ Keyed!Release(a) \/ Keyed!Leave(a)
<1>1. /\ Working(a) /\ phase[a] = "answered"
      /\ phase' = [phase EXCEPT ![a] = "done"]
      /\ UNCHANGED <<print, answer, source, effects>>
  BY DEF Settle, Working, Goto
<1>2. Keyed!Close(a)
  BY <1>1, DoneCloses
<1>3. /\ {b \in Attempts : Owns(b)} = {a} /\ a \in {b \in Attempts : Working(b)}
      /\ row # NoRow /\ row \in KeyRows /\ row.owner = a /\ row.state = "pending"
  BY <1>1, WorkerHolds DEF IInv, TypeOK
<1>4. answer[a] \in {"created", "large", "failed"} /\ Said(answer[a]) = answer[a]
  BY <1>1 DEF IInv, Told, Said, Refusals
<1>5. UNCHANGED [b \in Attempts |-> Said(answer[b])]
  BY <1>1 DEF Said
<1>6. CASE row' = Completed(row) /\ Cacheable(a)
  <2>1. row' \in KeyRows /\ row'.owner = a /\ row'.state = "completed"
    BY <1>3, <1>6 DEF Completed, KeyRows
  <2>2. row' # NoRow
    BY <2>1, RowsAreRows
  <2>3. {b \in Attempts : Owns(b)}' = {a}
    BY <2>1, <2>2 DEF Owns
  <2> QED BY <1>1, <1>2, <1>3, <1>4, <1>5, <1>6, <2>1, <2>2, <2>3 DEF Keyed!Keep, Cacheable
<1>7. CASE row' = NoRow /\ ~Cacheable(a)
  <2>1. {b \in Attempts : Owns(b)}' = {}
    BY <1>7 DEF Owns
  <2> QED BY <1>1, <1>2, <1>3, <1>4, <1>5, <1>7, <2>1 DEF Keyed!Release, Cacheable
<1>8. CASE row' = row
  <2>1. {b \in Attempts : Owns(b)}' = {b \in Attempts : Owns(b)}
    BY <1>8 DEF Owns
  <2> QED BY <1>1, <1>2, <1>3, <1>4, <1>5, <1>8, <2>1 DEF Keyed!Leave
<1> QED BY <1>3, <1>6, <1>7, <1>8 DEF Settle, Owns

(* Who lost the claim is told what the row says, by then. *)
LEMMA ReadRefusesOrRepeats ==
    ASSUME IInv, NEW a \in Attempts, ReadStored(a)
    PROVE  Keyed!Refuse(a) \/ Keyed!Repeat(a)
<1>1. /\ phase[a] = "reading" /\ phase' = [phase EXCEPT ![a] = "done"]
      /\ UNCHANGED <<row, print, effects>>
      /\ {b \in Attempts : Owns(b)}' = {b \in Attempts : Owns(b)}
  BY DEF ReadStored, Goto, Owns
<1>2. Keyed!Close(a)
  BY <1>1, DoneCloses
<1>3. /\ a \notin {b \in Attempts : phase[b] = "done"} \cup {b \in Attempts : Working(b)}
      /\ Said(answer[a]) = "none"
  BY <1>1, SaidNothing DEF Working, IInv, Told
<1>4. CASE \E what \in Refusals : Reply(a, what) /\ UNCHANGED source
  <2>1. Keyed!Tell(a, "refused")
    BY <1>3, <1>4, SaidOf DEF IInv, Keyed!Tell, Reply, Said
  <2> QED BY <1>1, <1>2, <1>3, <1>4, <2>1 DEF Keyed!Refuse
<1>5. CASE /\ row # NoRow /\ SameRequest(a) /\ row.state = "completed" /\ Reply(a, "replayed")
           /\ source' = [source EXCEPT ![a] = row.owner]
  <2>1. Keyed!Tell(a, "again")
    BY <1>3, <1>5, SaidOf DEF IInv, Keyed!Tell, Reply, Said, Refusals
  <2>2. row.owner \in {b \in Attempts : Owns(b)} /\ print[row.owner] = print[a]
    BY <1>5 DEF IInv, TypeOK, KeyRows, Complete, SameRequest, Owns
  <2> QED BY <1>1, <1>2, <1>3, <1>5, <2>1, <2>2 DEF Keyed!Repeat
<1> QED BY <1>4, <1>5 DEF ReadStored, Refusals

LEMMA CrashDies == ASSUME IInv, Crash PROVE Keyed!Die
<1>1. /\ phase' = [a \in Attempts |-> IF phase[a] = "idle" THEN "idle" ELSE "done"]
      /\ UNCHANGED <<row, print, answer, source, effects>>
  BY DEF Crash
<1>2. {b \in Attempts : Working(b)}' = {}
  BY <1>1 DEF Working
<1> DEFINE lost == {b \in Attempts : phase[b] # "idle"}
<1>3. /\ lost \in SUBSET Attempts /\ {b \in Attempts : Working(b)} \subseteq lost
      /\ {b \in Attempts : phase[b] = "done"}' = {b \in Attempts : phase[b] = "done"} \cup lost
  BY <1>1 DEF Working
<1>4. UNCHANGED <<{b \in Attempts : Owns(b)}, [b \in Attempts |-> Said(answer[b])]>>
  BY <1>1 DEF Owns, Said
<1> QED BY <1>1, <1>2, <1>3, <1>4 DEF Keyed!Die

(* What is purged is old, and nobody works under it. *)
LEMMA PurgeForgets == ASSUME IInv, Purge PROVE Keyed!Forget
<1>1. row # NoRow /\ row.old /\ row' = NoRow /\ UNCHANGED <<phase, print, answer, source, effects>>
  BY DEF Purge, Purgeable
<1>2. {b \in Attempts : Working(b)} = {}
  BY <1>1 DEF IInv, OneOwner, Young, Owns, Working
<1>3. {b \in Attempts : Owns(b)}' = {} /\ UNCHANGED {b \in Attempts : Working(b)}
  BY <1>1 DEF Owns, Working
<1>4. UNCHANGED <<{b \in Attempts : phase[b] = "done"}, [b \in Attempts |-> Said(answer[b])]>>
  BY <1>1 DEF Said
<1> QED BY <1>1, <1>2, <1>3, <1>4 DEF Keyed!Forget

(* Middleware, handler and purge implement the promise of ADR 0010 that a key
   names one operation (IdempotencyMiddleware, PurgeExpiredIdempotencyKeys). *)
THEOREM KeysNameOperations == Spec => KeyedSpec
<1>1. Init => Keyed!Init
  BY SaidNothing DEF Init, Keyed!Init, Owns, Working
<1>2. IInv /\ [Next]_vars => [Keyed!Next]_(Keyed!keyed)
  <2> SUFFICES ASSUME IInv, [Next]_vars PROVE [Keyed!Next]_(Keyed!keyed)
    OBVIOUS
  <2>1. ASSUME NEW a \in Attempts, Arrive(a) PROVE UNCHANGED Keyed!keyed
    BY <2>1, StutterKeyed
  <2>2. ASSUME NEW a \in Attempts, Claim(a) PROVE Keyed!Next \/ UNCHANGED Keyed!keyed
    BY <2>2, StutterKeyed, ClaimAdmits DEF Keyed!Next
  <2>3. ASSUME NEW a \in Attempts,
               InsertActivity(a) \/ AppendContacts(a) \/ Panic(a) \/ Settle(a) \/ ReadStored(a)
        PROVE  Keyed!Next
    BY <2>3, InsertActs, AppendAnswers, PanicLeaves, SettleEnds, ReadRefusesOrRepeats DEF Keyed!Next
  <2>4. CASE Crash \/ Purge
    BY <2>4, CrashDies, PurgeForgets DEF Keyed!Next
  <2>5. CASE Expire
    BY <2>5, StutterKeyed DEF Expire, IInv, TypeOK, KeyRows
  <2>6. CASE UNCHANGED vars
    BY <2>6 DEF vars, Keyed!keyed, Owns, Working, Said
  <2> QED
    BY <2>1, <2>2, <2>3, <2>4, <2>5, <2>6 DEF Next
<1> QED
  BY <1>1, <1>2, Invariance, PTL DEF Spec, KeyedSpec, Keyed!Spec
=============================================================================
