----------------------------- MODULE ContactsProofs -----------------------------
(***************************************************************************)
(* Proofs about ConditionalWrites and ContactGraph: one contact row under  *)
(* the requests that write it, and what hangs on the contacts.             *)
(*                                                                         *)
(* ConditionalWrites, for any number of requests and any values of the     *)
(* columns.  The argument rests on Current: what a client has read and     *)
(* what a handler has loaded are never ahead of the row, and are the row   *)
(* itself whenever their revision is the row's.  It is inductive because   *)
(* the only step that changes the columns, Save, also takes a new          *)
(* revision.                                                               *)
(*                                                                         *)
(* ContactGraph, for any number of contacts, edges, notes, relation types  *)
(* and requests.  A stale copy that Accept writes back, and a suggestion   *)
(* that waits to be inserted, still relate two contacts (RowsApart); that  *)
(* they do not tell a fact twice is for KeyFree to see when they are       *)
(* written.  A merge loses no relationship because telling it the other    *)
(* way round is symmetric: the inverse of an inverse is the relation.      *)
(***************************************************************************)
EXTENDS ConditionalWrites, ContactGraph, FiniteSetTheorems, TLAPS


(* A copy of the row that is either the row or provably out of date. *)
Behind(copy) == /\ copy.revision <= content.revision
                /\ copy.revision = content.revision => copy = content

Current == \A r \in Requests : Behind(seen[r]) /\ Behind(base[r])

(* The handler loads after the client read, and a precondition it accepted
   names the row it loaded. *)
Checked ==
    \A r \in Requests : phase[r] = "loaded" =>
        /\ base[r].revision >= seen[r].revision
        /\ IsConditional(r) => base[r] = seen[r]

(* An answer is given once: a request that is still open has none. *)
Open == \A r \in Requests : phase[r] # "done" => status[r] = "none"

IInv == TypeOK /\ Current /\ Checked /\ RefusalsAreTrue /\ Open

(* The steps a single request takes. *)
Step(r) == Get(r) \/ Load(r) \/ Save(r) \/ SaveConflict(r) \/ Delete(r)

-----------------------------------------------------------------------------
LEMMA InitImpliesIInv == Init => IInv
<1> SUFFICES ASSUME Init PROVE IInv
  OBVIOUS
<1>1. content \in Contents /\ content.revision = 1
  BY DEF Init, Contents
<1>2. TypeOK
  BY <1>1 DEF Init, TypeOK, Phases, Statuses, Asks, Verbs
<1>3. Current
  BY <1>1 DEF Init, Current, Behind, Contents
<1>4. Checked /\ RefusalsAreTrue /\ Open
  BY <1>1 DEF Init, Checked, RefusalsAreTrue, Open
<1> QED
  BY <1>2, <1>3, <1>4 DEF IInv

LEMMA TypeOKStep == TypeOK /\ [Next]_vars => TypeOK'
<1> SUFFICES ASSUME TypeOK, [Next]_vars PROVE TypeOK'
  OBVIOUS
<1> USE DEF TypeOK, Phases, Statuses
<1>1. ASSUME NEW r \in Requests, Get(r) PROVE TypeOK'
  BY <1>1 DEF Get
<1>2. ASSUME NEW r \in Requests, Load(r) PROVE TypeOK'
  <2>1. request' \in [Requests -> Asks]
    BY <1>2 DEF Load, Asks, Contents
  <2>2. phase' \in [Requests -> Phases] /\ status' \in [Requests -> Statuses]
    BY <1>2 DEF Load, LoadMissing, LoadStale, LoadCurrent, Answer
  <2>3. base' \in [Requests -> Contents]
    BY <1>2 DEF Load, LoadMissing, LoadStale, LoadCurrent
  <2> QED
    BY <1>2, <2>1, <2>2, <2>3 DEF Load
<1>3. ASSUME NEW r \in Requests, Save(r) PROVE TypeOK'
  <2>1. content' \in Contents
    BY <1>3 DEF Save, Saved, SavedOver, Contents
  <2> QED
    BY <1>3, <2>1 DEF Save, Answer
<1>4. ASSUME NEW r \in Requests, SaveConflict(r) PROVE TypeOK'
  BY <1>4 DEF SaveConflict, ConflictStatus, Answer
<1>5. ASSUME NEW r \in Requests, Delete(r) PROVE TypeOK'
  BY <1>5 DEF Delete, Answer
<1>6. CASE Crash
  BY <1>6 DEF Crash
<1>7. CASE UNCHANGED vars
  BY <1>7 DEF vars
<1> QED
  BY <1>1, <1>2, <1>3, <1>4, <1>5, <1>6, <1>7 DEF Next

LEMMA SaveReplacesTheLoadedRow ==
  ASSUME IInv, NEW r \in Requests, Save(r)
  PROVE  /\ base[r] = content
         /\ content'.revision = content.revision + 1
         /\ ~deleted
<1>1. Behind(base[r]) /\ base[r].revision = content.revision /\ ~deleted
  BY DEF IInv, Current, Save, CASMatches
<1>2. base[r] = content
  BY <1>1 DEF Behind
<1>3. content'.revision = base[r].revision + 1
  BY DEF Save, Saved, SavedOver
<1> QED
  BY <1>1, <1>2, <1>3

LEMMA CurrentStep == IInv /\ [Next]_vars => Current'
<1> SUFFICES ASSUME IInv, [Next]_vars PROVE Current'
  OBVIOUS
<1> USE DEF Current, Behind
<1>1. ASSUME NEW r \in Requests, Get(r) PROVE Current'
  BY <1>1 DEF IInv, TypeOK, Contents, Get
<1>2. ASSUME NEW r \in Requests, Load(r) PROVE Current'
  <2>1. UNCHANGED <<content, seen>>
    BY <1>2 DEF Load
  <2>2. \A q \in Requests : base'[q] = base[q] \/ base'[q] = content
    BY <1>2 DEF IInv, TypeOK, Load, LoadMissing, LoadStale, LoadCurrent
  <2> QED
    BY <2>1, <2>2 DEF IInv, TypeOK, Contents
<1>3. ASSUME NEW r \in Requests, Save(r) PROVE Current'
  <2>1. content'.revision = content.revision + 1
    BY <1>3, SaveReplacesTheLoadedRow
  <2>2. UNCHANGED <<seen, base>>
    BY <1>3 DEF Save
  <2>3. content.revision \in Nat /\ \A q \in Requests : /\ seen[q].revision \in Nat
                                                        /\ base[q].revision \in Nat
    BY DEF IInv, TypeOK, Contents
  <2> QED
    BY <2>1, <2>2, <2>3 DEF IInv
<1>4. ASSUME NEW r \in Requests, SaveConflict(r) \/ Delete(r) PROVE Current'
  BY <1>4 DEF IInv, SaveConflict, Delete
<1>5. CASE Crash
  BY <1>5 DEF IInv, Crash
<1>6. CASE UNCHANGED vars
  BY <1>6 DEF IInv, vars
<1> QED
  BY <1>1, <1>2, <1>3, <1>4, <1>5, <1>6 DEF Next

LEMMA OpenStep == IInv /\ [Next]_vars => Open'
<1> SUFFICES ASSUME IInv, [Next]_vars PROVE Open'
  OBVIOUS
<1> USE DEF IInv, TypeOK, Open
<1>1. ASSUME NEW r \in Requests, Step(r) PROVE Open'
  <2>1. \A q \in Requests \ {r} : phase'[q] = phase[q] /\ status'[q] = status[q]
    BY <1>1 DEF Step, Get, Load, LoadMissing, LoadStale, LoadCurrent, Save,
                SaveConflict, Delete, Answer
  <2>2. phase'[r] = "done" \/ (status'[r] = status[r] /\ phase[r] # "done")
    BY <1>1 DEF Step, Get, Load, LoadMissing, LoadStale, LoadCurrent, Save,
                SaveConflict, Delete, Answer
  <2> QED
    BY <2>1, <2>2
<1>2. CASE Crash
  BY <1>2 DEF Crash
<1>3. CASE UNCHANGED vars
  BY <1>3 DEF vars
<1> QED
  BY <1>1, <1>2, <1>3 DEF Next, Step

LEMMA CheckedStep == IInv /\ [Next]_vars => Checked'
<1> SUFFICES ASSUME IInv, [Next]_vars PROVE Checked'
  OBVIOUS
<1> USE DEF IInv, TypeOK, Contents, Checked, IsConditional
<1>1. ASSUME NEW r \in Requests, Get(r) PROVE Checked'
  <2>1. \A q \in Requests : phase'[q] = "loaded" => q # r /\ phase[q] = "loaded"
    BY <1>1 DEF Get
  <2> QED
    BY <1>1, <2>1 DEF Get
<1>2. ASSUME NEW r \in Requests, Load(r) PROVE Checked'
  <2>1. \A q \in Requests \ {r} : /\ phase'[q] = phase[q]
                                  /\ base'[q] = base[q]
                                  /\ request'[q] = request[q]
    BY <1>2 DEF Load, LoadMissing, LoadStale, LoadCurrent, Answer
  <2>2. CASE LoadCurrent(r)
    <3>1. base'[r] = content /\ seen' = seen /\ seen[r].revision <= content.revision
      BY <1>2, <2>2 DEF Load, LoadCurrent, Current, Behind
    <3>2. IsConditional(r)' => request'[r].ifMatch = content.revision
      BY <2>2, MatchAssumption DEF LoadCurrent, IfMatchSatisfied
    <3>3. request'[r].ifMatch \in {NoMatch, AnyMatch, seen[r].revision}
      BY <1>2 DEF Load
    <3>4. IsConditional(r)' => base'[r] = seen'[r]
      BY <3>1, <3>2, <3>3, MatchAssumption DEF Current, Behind
    <3> QED
      BY <1>2, <2>1, <3>1, <3>4
  <2>3. CASE LoadMissing(r) \/ LoadStale(r)
    BY <1>2, <2>1, <2>3 DEF Load, LoadMissing, LoadStale, Answer
  <2> QED
    BY <1>2, <2>2, <2>3 DEF Load
<1>3. ASSUME NEW r \in Requests, Save(r) \/ SaveConflict(r) \/ Delete(r) PROVE Checked'
  <2>1. UNCHANGED <<request, seen, base>>
    BY <1>3 DEF Save, SaveConflict, Delete
  <2>2. \A q \in Requests : phase'[q] = "loaded" => phase[q] = "loaded"
    BY <1>3 DEF Save, SaveConflict, Delete, Answer
  <2> QED
    BY <2>1, <2>2
<1>4. CASE Crash
  BY <1>4 DEF Crash
<1>5. CASE UNCHANGED vars
  BY <1>5 DEF vars
<1> QED
  BY <1>1, <1>2, <1>3, <1>4, <1>5 DEF Next

LEMMA RevisionNeverFalls ==
  IInv /\ [Next]_vars => content'.revision >= content.revision /\ (deleted => deleted')
<1> SUFFICES ASSUME IInv, [Next]_vars
             PROVE  content'.revision >= content.revision /\ (deleted => deleted')
  OBVIOUS
<1>1. content.revision \in Nat
  BY DEF IInv, TypeOK, Contents
<1>2. ASSUME NEW r \in Requests, Save(r)
      PROVE  content'.revision = content.revision + 1 /\ deleted' = deleted
  BY <1>2, SaveReplacesTheLoadedRow DEF Save
<1>3. ASSUME NEW r \in Requests, Delete(r)
      PROVE  content' = content /\ deleted'
  BY <1>3 DEF Delete
<1>4. \/ \E r \in Requests : Save(r) \/ Delete(r)
      \/ UNCHANGED <<content, deleted>>
  BY DEF Next, Get, Load, SaveConflict, Crash, vars
<1> QED
  BY <1>1, <1>2, <1>3, <1>4

LEMMA RefusalsStep == IInv /\ [Next]_vars => RefusalsAreTrue'
<1> SUFFICES ASSUME IInv, [Next]_vars PROVE RefusalsAreTrue'
  OBVIOUS
<1> USE DEF IInv, TypeOK, Contents, RefusalsAreTrue
<1>0. /\ content'.revision >= content.revision /\ (deleted => deleted')
      /\ content'.revision \in Nat
  BY RevisionNeverFalls, TypeOKStep
<1>a. /\ content.revision \in Nat
      /\ \A q \in Requests : seen[q].revision \in Nat /\ base[q].revision \in Nat
  OBVIOUS
<1>1. ASSUME NEW r \in Requests, Get(r) PROVE RefusalsAreTrue'
  BY <1>1 DEF Get, Open
<1>2. ASSUME NEW r \in Requests, Load(r) PROVE RefusalsAreTrue'
  <2>1. \A q \in Requests \ {r} : status'[q] = status[q]
    BY <1>2 DEF Load, LoadMissing, LoadStale, LoadCurrent, Answer
  <2>2. status'[r] = "notFound" => deleted
    BY <1>2 DEF Load, LoadMissing, LoadStale, LoadCurrent, Answer, Open
  <2>3. status'[r] = "preconditionFailed" => content.revision > seen[r].revision
    <3>1. SUFFICES ASSUME LoadStale(r) PROVE content.revision > seen[r].revision
      BY <1>2 DEF Load, LoadMissing, LoadCurrent, Answer, Open
    <3>2. request'[r].ifMatch \in {NoMatch, AnyMatch, seen[r].revision}
      BY <1>2 DEF Load
    <3>3. seen[r].revision # content.revision
      BY <3>1, <3>2 DEF LoadStale, IfMatchSatisfied
    <3>4. seen[r].revision <= content.revision
      BY <1>2 DEF Current, Behind
    <3>5. content.revision \in Nat /\ seen[r].revision \in Nat
      BY <1>2, <1>a
    <3> HIDE DEF IInv, TypeOK, Contents, RefusalsAreTrue
    <3> QED
      BY <3>3, <3>4, <3>5
  <2> QED
    BY <1>0, <1>2, <2>1, <2>2, <2>3 DEF Load
<1>3. ASSUME NEW r \in Requests, Save(r) \/ Delete(r) PROVE RefusalsAreTrue'
  <2>1. seen' = seen /\ \A q \in Requests : status'[q] = status[q] \/ status'[q] = "ok"
    BY <1>3 DEF Save, Delete, Answer
  <2> QED
    BY <1>0, <2>1
<1>4. ASSUME NEW r \in Requests, SaveConflict(r) PROVE RefusalsAreTrue'
  <2>1. \A q \in Requests \ {r} : status'[q] = status[q]
    BY <1>4 DEF SaveConflict, Answer
  <2>2. status'[r] = "notFound" => deleted
    BY <1>4 DEF SaveConflict, Answer, ConflictStatus
  <2>3. status'[r] = "preconditionFailed" => content.revision > seen[r].revision
    <3>1. status'[r] = "preconditionFailed" => base[r].revision # content.revision
      BY <1>4 DEF SaveConflict, Answer, ConflictStatus, CASMatches
    <3>2. base[r].revision <= content.revision /\ base[r].revision >= seen[r].revision
      BY <1>4 DEF SaveConflict, Current, Behind, Checked
    <3>3. /\ content.revision \in Nat
          /\ base[r].revision \in Nat
          /\ seen[r].revision \in Nat
      BY <1>4, <1>a
    <3> HIDE DEF IInv, TypeOK, Contents, RefusalsAreTrue
    <3> QED
      BY <3>1, <3>2, <3>3
  <2> QED
    BY <1>4, <2>1, <2>2, <2>3 DEF SaveConflict
<1>5. CASE Crash
  BY <1>5 DEF Crash, Open
<1>6. CASE UNCHANGED vars
  BY <1>6 DEF vars
<1> QED
  BY <1>1, <1>2, <1>3, <1>4, <1>5, <1>6 DEF Next

(* The inductive invariant holds in every reachable state. *)
THEOREM Invariance == Spec => []IInv
<1>1. Init => IInv
  BY InitImpliesIInv
<1>2. IInv /\ [Next]_vars => IInv'
  BY TypeOKStep, CurrentStep, CheckedStep, RefusalsStep, OpenStep DEF IInv
<1> QED
  BY <1>1, <1>2, PTL DEF Spec

(* Every state has the types the module declares. *)
THEOREM TypeCorrectness == Spec => []TypeOK
<1>1. IInv => TypeOK
  BY DEF IInv
<1> QED
  BY <1>1, Invariance, PTL

(* Holding the current revision means holding the current columns. *)
THEOREM RevisionIsAStrongValidator == Spec => []StrongValidator
<1>1. IInv => StrongValidator
  BY DEF IInv, Current, Behind, StrongValidator
<1> QED
  BY <1>1, Invariance, PTL

(* 404 and 412 are only ever answered when the row did move. *)
THEOREM RefusalsTellTheTruth == Spec => []RefusalsAreTrue
<1>1. IInv => RefusalsAreTrue
  BY DEF IInv
<1> QED
  BY <1>1, Invariance, PTL

LEMMA OnlySavesCommit ==
  ASSUME IInv, [Next]_vars, NEW r \in Requests, WriteCommits(r)
  PROVE  Save(r)
<1> USE DEF WriteCommits, IInv, TypeOK
<1>1. ASSUME NEW q \in Requests, Get(q) \/ Load(q) \/ SaveConflict(q) PROVE FALSE
  <2>1. status'[r] # status[r] /\ status[r] = "none"
    BY DEF Open
  <2>2. CASE Get(q)
    BY <2>1, <2>2 DEF Get
  <2>3. CASE Load(q)
    BY <2>1, <2>3 DEF Load, LoadMissing, LoadStale, LoadCurrent, Answer
  <2>4. CASE SaveConflict(q)
    BY <2>1, <2>4 DEF SaveConflict, Answer, ConflictStatus
  <2> QED
    BY <1>1, <2>2, <2>3, <2>4
<1>2. ASSUME NEW q \in Requests, Delete(q) PROVE FALSE
  BY <1>2 DEF Delete, Answer, Writers, Open
<1>3. ASSUME NEW q \in Requests, Save(q) PROVE q = r
  BY <1>3 DEF Save, Answer, Open
<1>4. ~Crash /\ ~UNCHANGED vars
  BY DEF Crash, vars, Open
<1> QED
  BY <1>1, <1>2, <1>3, <1>4 DEF Next

(* An acknowledged write replaced exactly what its handler had loaded. *)
THEOREM UpdatesAreNotLost == Spec => NoLostUpdate
<1>1. IInv /\ [Next]_vars => [\A r \in Requests : WriteCommits(r) => base[r] = content]_vars
  BY OnlySavesCommit, SaveReplacesTheLoadedRow
<1> QED
  BY <1>1, Invariance, PTL DEF Spec, NoLostUpdate

(* A conditional request takes effect only if its handler loaded the row its
   client had read, and a write only over that row. *)
THEOREM IfMatchIsHonoured == Spec => IfMatchHonoured
<1>1. ASSUME IInv, [Next]_vars, NEW r \in Requests, Commits(r), IsConditional(r)
      PROVE  seen[r] = base[r]
  BY <1>1 DEF IInv, Checked, Commits
<1>2. ASSUME IInv, [Next]_vars, NEW r \in Requests, Commits(r),
             request[r].verb \in Writers
      PROVE  base[r] = content
  <2>1. WriteCommits(r)
    BY <1>2 DEF WriteCommits, Commits
  <2> QED
    BY <1>2, <2>1, OnlySavesCommit, SaveReplacesTheLoadedRow
<1>3. IInv /\ [Next]_vars =>
        [\A r \in Requests :
           Commits(r) /\ IsConditional(r) =>
             /\ seen[r] = base[r]
             /\ request[r].verb \in Writers => base[r] = content]_vars
  BY <1>1, <1>2
<1> QED
  BY <1>3, Invariance, PTL DEF Spec, IfMatchHonoured

(* A deleted row stays deleted and unchanged. *)
THEOREM TombstonesAreFinal == Spec => NoResurrection
<1>1. [Next]_vars => [deleted => deleted' /\ content' = content]_vars
  BY DEF Next, Get, Load, Save, CASMatches, SaveConflict, Delete, Crash, vars
<1> QED
  BY <1>1, PTL DEF Spec, NoResurrection

-----------------------------------------------------------------------------
(* The count of acknowledged writes. *)
Counted == IsFiniteSet(Acknowledged) /\ EveryAckHasItsRevision

LEMMA CountedInit == Init => Counted
<1> SUFFICES ASSUME Init PROVE Counted
  OBVIOUS
<1>1. Acknowledged = {} /\ content.revision = 1
  BY DEF Init, Acknowledged
<1> QED
  BY <1>1, FS_EmptySet DEF Counted, EveryAckHasItsRevision

LEMMA CountedStep == IInv /\ Counted /\ [Next]_vars => Counted'
<1> SUFFICES ASSUME IInv, Counted, [Next]_vars PROVE Counted'
  OBVIOUS
<1> USE DEF IInv, TypeOK, Acknowledged
<1>1. ASSUME NEW r \in Requests, Save(r) PROVE Counted'
  <2>1. /\ Acknowledged' = Acknowledged \cup {r}
        /\ r \notin Acknowledged
    BY <1>1 DEF Save, Answer, Open
  <2>2. /\ IsFiniteSet(Acknowledged')
        /\ Cardinality(Acknowledged') = Cardinality(Acknowledged) + 1
    <3>1. IsFiniteSet(Acknowledged)
      BY DEF Counted
    <3> HIDE DEF IInv, TypeOK, Acknowledged
    <3> QED
      BY <2>1, <3>1, FS_AddElement
  <2>3. content'.revision = content.revision + 1
    BY <1>1, SaveReplacesTheLoadedRow
  <2>4. Cardinality(Acknowledged) \in Nat
    BY FS_CardinalityType DEF Counted
  <2> QED
    BY <2>2, <2>3, <2>4 DEF Counted, EveryAckHasItsRevision
<1>2. CASE \E r \in Requests : Get(r) \/ Load(r) \/ SaveConflict(r) \/ Delete(r)
  <2>1. PICK r \in Requests : Get(r) \/ Load(r) \/ SaveConflict(r) \/ Delete(r)
    BY <1>2
  <2>2. content' = content
    BY <2>1 DEF Get, Load, SaveConflict, Delete
  <2>3. \A q \in Requests \ {r} : status'[q] = status[q] /\ request'[q] = request[q]
    BY <2>1 DEF Get, Load, LoadMissing, LoadStale, LoadCurrent, SaveConflict, Delete, Answer
  <2>4. r \notin Acknowledged /\ r \notin Acknowledged'
    <3>1. status[r] = "none"
      BY <2>1 DEF Open, Get, Load, SaveConflict, Delete
    <3>2. CASE Get(r) \/ Load(r) \/ SaveConflict(r)
      BY <3>1, <3>2 DEF Get, Load, LoadMissing, LoadStale, LoadCurrent, SaveConflict,
                        ConflictStatus, Answer
    <3>3. CASE Delete(r)
      BY <3>1, <3>3 DEF Delete, Writers
    <3> QED
      BY <2>1, <3>2, <3>3
  <2>5. Acknowledged' = Acknowledged
    BY <2>3, <2>4
  <2> QED
    BY <2>2, <2>5 DEF Counted, EveryAckHasItsRevision
<1>3. CASE Crash
  <2>1. Acknowledged' = Acknowledged /\ content' = content
    BY <1>3 DEF Crash, Open
  <2> QED
    BY <2>1 DEF Counted, EveryAckHasItsRevision
<1>4. CASE UNCHANGED vars
  BY <1>4 DEF vars, Counted, EveryAckHasItsRevision
<1> QED
  BY <1>1, <1>2, <1>3, <1>4 DEF Next

(* No acknowledged write is dropped and no refused one leaves a trace. *)
THEOREM EveryAckCounts == Spec => []EveryAckHasItsRevision
<1>1. Counted => EveryAckHasItsRevision
  BY DEF Counted
<1> QED
  BY <1>1, CountedInit, CountedStep, Invariance, PTL DEF Spec

-----------------------------------------------------------------------------
LEMMA SaveIsAtomic ==
  ASSUME IInv, NEW r \in Requests, Save(r)
  PROVE  (\E b \in Bodies : Atomic!Edit(b)) \/ (\E m \in Marks : Atomic!Toggle(m))
<1>1. base[r] = content /\ ~deleted /\ deleted' = deleted
  BY SaveReplacesTheLoadedRow DEF Save
<1>2. CASE request[r].verb = "toggle"
  <2>1. PICK m \in Marks : Atomic!NextVersion(content.body, m)
    BY <1>1, <1>2 DEF Save, Saved, SavedOver, Atomic!NextVersion
  <2> QED
    BY <1>1, <2>1 DEF Atomic!Toggle
<1>3. CASE request[r].verb # "toggle"
  <2>1. PICK b \in Bodies : Atomic!NextVersion(b, content.mark)
    BY <1>1, <1>3 DEF Save, Saved, SavedOver, Atomic!NextVersion
  <2> QED
    BY <1>1, <2>1 DEF Atomic!Edit
<1> QED
  BY <1>2, <1>3

(* The loads, checks and transactions of concurrent requests implement a row
   whose edits, toggles and deletions are atomic. *)
THEOREM Linearizable == Spec => AtomicSpec
<1>1. Init => Atomic!Init
  BY DEF Init, Atomic!Init
<1>2. IInv /\ [Next]_vars => [Atomic!Next]_(Atomic!row)
  <2> SUFFICES ASSUME IInv, [Next]_vars PROVE [Atomic!Next]_(Atomic!row)
    OBVIOUS
  <2>1. ASSUME NEW r \in Requests, Save(r) PROVE Atomic!Next
    BY <2>1, SaveIsAtomic DEF Atomic!Next
  <2>2. ASSUME NEW r \in Requests, Delete(r) PROVE Atomic!Next
    BY <2>2 DEF Delete, Atomic!Next, Atomic!Delete
  <2>3. ASSUME NEW r \in Requests, Get(r) \/ Load(r) \/ SaveConflict(r)
        PROVE  UNCHANGED Atomic!row
    BY <2>3 DEF Get, Load, SaveConflict, Atomic!row
  <2>4. CASE Crash
    BY <2>4 DEF Crash, Atomic!row
  <2>5. CASE UNCHANGED vars
    BY <2>5 DEF vars, Atomic!row
  <2> QED
    BY <2>1, <2>2, <2>3, <2>4, <2>5 DEF Next
<1> QED
  BY <1>1, <1>2, Invariance, PTL DEF Spec, AtomicSpec, Atomic!Spec

-----------------------------------------------------------------------------
(* A row that waits to be written relates two contacts. *)
RowsApart ==
    \A r \in Slots : op[r].kind \in {"accept", "suggest", "insertSuggestion"}
                     => op[r].row.source # op[r].row.target

GraphIInv == GraphTypeOK /\ EdgesAreFacts /\ RowsApart

-----------------------------------------------------------------------------
(* A request carries what its kind says. *)
LEMMA RequestCarries ==
    ASSUME NEW x \in Requested \cup {Idle}
    PROVE  /\ x.kind \in {"deleteContact", "createNote"} => x.contact \in Contacts
           /\ x.kind \in {"loadedNote", "saveNote"} => x.note \in Notes /\ x.seen \in Owners
           /\ x.kind = "saveNote" => x.contact \in Owners
           /\ x.kind \in {"update", "accept"} => x.edge \in Edges
           /\ x.kind \in {"accept", "suggest", "insertSuggestion"} => x.row \in EdgeRows
BY DEF Requested, Idle

LEMMA BeginEffect ==
    ASSUME GraphTypeOK, NEW r \in Slots, NEW x \in Requested, Begin(r, x)
    PROVE  op' \in [Slots -> Requested \cup {Idle}] /\ op'[r] = x
           /\ \A q \in Slots \ {r} : op'[q] = op[q]
BY DEF GraphTypeOK, Begin

LEMMA FinishEffect ==
    ASSUME GraphTypeOK, NEW r \in Slots, Finish(r)
    PROVE  op' \in [Slots -> Requested \cup {Idle}] /\ op'[r].kind = "idle"
           /\ \A q \in Slots \ {r} : op'[q] = op[q]
BY DEF GraphTypeOK, Finish, Idle

(* What a sweep notes: the contact, if one of the others carries it. *)
LEMMA SweepEffect ==
    ASSUME GraphTypeOK, NEW c \in Contacts, NEW others, Sweep(c, others)
    PROVE  /\ held' \in SUBSET Contacts
           /\ c \notin held' => \A q \in others : ~Carries(op[q], c)
           /\ \A d \in Contacts \ {c} : d \in held' <=> d \in held
BY DEF GraphTypeOK, Sweep

(* Whatever is taken away leaves facts. *)
LEMMA FewerEdges ==
    ASSUME GraphTypeOK, EdgesAreFacts, edge' \in [Edges -> EdgeRows \cup {New, Gone}],
           \A e \in Edges : edge'[e] \in {edge[e], New, Gone}
    PROVE  EdgesAreFacts'
BY NullAssumption DEF GraphTypeOK, EdgesAreFacts, KeyFree, LiveEdges

(* A row whose key is free is one more fact. *)
LEMMA OneMoreEdge ==
    ASSUME GraphTypeOK, EdgesAreFacts, NEW e \in Edges, NEW row \in EdgeRows,
           row.source # row.target, KeyFree(row, e), edge' = [edge EXCEPT ![e] = row]
    PROVE  edge' \in [Edges -> EdgeRows \cup {New, Gone}] /\ EdgesAreFacts'
<1>1. edge' \in [Edges -> EdgeRows \cup {New, Gone}] /\ edge'[e] = row
      /\ \A f \in Edges \ {e} : edge'[f] = edge[f]
  BY DEF GraphTypeOK
<1> QED
  BY <1>1, NullAssumption DEF GraphTypeOK, EdgesAreFacts, KeyFree, LiveEdges

LEMMA SavedEdgeIsFact ==
    ASSUME GraphTypeOK, EdgesAreFacts, NEW e \in Edges, NEW row \in EdgeRows,
           row.source # row.target, SavedEdge(e, row)
    PROVE  edge' \in [Edges -> EdgeRows \cup {New, Gone}] /\ EdgesAreFacts'
<1>1. CASE KeyFree(row, e)
  BY <1>1, OneMoreEdge DEF SavedEdge
<1>2. CASE ~KeyFree(row, e)
  <2>1. edge' = edge
    BY <1>2 DEF SavedEdge
  <2> QED
    BY <2>1, FewerEdges DEF GraphTypeOK
<1> QED
  BY <1>1, <1>2

LEMMA MovedRowIsRow ==
    ASSUME NEW k \in Contacts, NEW l \in Contacts, NEW row \in EdgeRows
    PROVE  /\ MovedRow(k, l, row) \in EdgeRows
           /\ MovedRow(k, l, row).source = Moved(k, l, row.source)
           /\ MovedRow(k, l, row).target = Moved(k, l, row.target)
           /\ MovedRow(k, l, row).type = row.type
BY DEF MovedRow, Moved, EdgeRows

(* A merge keeps the edges facts: those it moves differ from each other, and
   from the others in having the keeper at an end. *)
LEMMA MergedEdgesAreFacts ==
    ASSUME GraphTypeOK, EdgesAreFacts, NEW k \in Contacts, NEW l \in Contacts, k # l,
           NEW kept \in SUBSET LiveEdges, Survive(k, l, kept), edge' = MergedEdges(k, l, kept)
    PROVE  edge' \in [Edges -> EdgeRows \cup {New, Gone}] /\ EdgesAreFacts'
<1> DEFINE Touches(e) == Ends(edge[e]) \cap {k, l} # {}
           row(e) == MovedRow(k, l, edge[e])
<1>1. \A e \in kept : e \in Edges /\ edge[e] \in EdgeRows /\ Touches(e)
  BY DEF Survive, LiveEdges
<1>2. \A e \in kept : row(e) \in EdgeRows /\ row(e).source # row(e).target
  BY <1>1, MovedRowIsRow DEF Survive
<1>3. edge' \in [Edges -> EdgeRows \cup {New, Gone}]
  BY <1>1, <1>2 DEF MergedEdges, GraphTypeOK
<1>4. \A e \in kept : edge'[e] = row(e)
  BY <1>1 DEF MergedEdges
<1>5. \A e \in Edges \ kept : edge'[e] = IF e \in LiveEdges /\ Touches(e) THEN Gone ELSE edge[e]
  BY DEF MergedEdges
<1>6. ASSUME NEW e \in kept, NEW f \in kept, e # f PROVE Key(row(e)) # Key(row(f))
  BY <1>6 DEF Survive, SameFact
<1>7. ASSUME NEW e \in kept, NEW f \in LiveEdges \ kept, ~Touches(f)
      PROVE  Key(row(e)) # Key(edge[f])
  <2>1. k \in Ends(row(e))
    BY <1>1, MovedRowIsRow DEF Ends, Moved
  <2>2. k \notin Ends(edge[f])
    BY <1>7
  <2> QED
    BY <2>1, <2>2 DEF Key, Ends
<1> HIDE DEF row, Touches
<1>8. ASSUME NEW e \in LiveEdges' PROVE edge'[e].source # edge'[e].target
  <2>1. CASE e \in kept
    BY <1>2, <1>4, <2>1
  <2>2. CASE e \notin kept
    BY <1>5, <1>8, <2>2, NullAssumption DEF LiveEdges, EdgesAreFacts
  <2> QED
    BY <2>1, <2>2
<1>9. ASSUME NEW e \in LiveEdges', NEW f \in LiveEdges' \ {e} PROVE Key(edge'[f]) # Key(edge'[e])
  <2>1. \A g \in LiveEdges' \ kept : g \in LiveEdges \ kept /\ ~Touches(g) /\ edge'[g] = edge[g]
    BY <1>5, NullAssumption DEF LiveEdges
  <2>2. CASE e \in kept /\ f \in kept
    BY <1>4, <1>6, <2>2
  <2>3. CASE e \in kept /\ f \notin kept
    BY <1>4, <1>7, <2>1, <2>3
  <2>4. CASE e \notin kept /\ f \in kept
    BY <1>4, <1>7, <2>1, <2>4
  <2>5. CASE e \notin kept /\ f \notin kept
    BY <2>1, <2>5 DEF EdgesAreFacts, KeyFree
  <2> QED
    BY <2>2, <2>3, <2>4, <2>5
<1> QED
  BY <1>3, <1>8, <1>9 DEF EdgesAreFacts, KeyFree

-----------------------------------------------------------------------------
LEMMA GraphInitImpliesIInv == GraphInit => GraphIInv
BY NullAssumption DEF GraphInit, GraphIInv, GraphTypeOK, EdgesAreFacts, RowsApart, LiveEdges,
   Idle, Owners

(* A step of one request that leaves its slot with x, or empty. *)
LEMMA SlotKeepsRowsApart ==
    ASSUME RowsApart, NEW r \in Slots, \A q \in Slots \ {r} : op'[q] = op[q],
           op'[r].kind \in {"accept", "suggest", "insertSuggestion"}
             => op'[r].row.source # op'[r].row.target
    PROVE  RowsApart'
BY DEF RowsApart

(* The steps that begin a request, one lemma for what they put into a slot. *)
LEMMA BegunKeepsIInv ==
    ASSUME GraphIInv, NEW r \in Slots, NEW x \in Requested, Begin(r, x),
           x.kind \in {"accept", "suggest", "insertSuggestion"} => x.row.source # x.row.target,
           UNCHANGED <<fate, edge, note, held>>
    PROVE  GraphIInv'
<1>1. RowsApart'
  BY BeginEffect, SlotKeepsRowsApart DEF GraphIInv
<1>2. GraphTypeOK'
  BY BeginEffect DEF GraphIInv, GraphTypeOK
<1>3. EdgesAreFacts'
  BY DEF GraphIInv, EdgesAreFacts, KeyFree, LiveEdges
<1> QED
  BY <1>1, <1>2, <1>3 DEF GraphIInv

(* The steps that end one. *)
LEMMA FinishedKeepsIInv ==
    ASSUME GraphIInv, NEW r \in Slots, Finish(r), EdgesAreFacts',
           fate' \in [Contacts -> {"live", "deleted", "merged", "bare"}],
           edge' \in [Edges -> EdgeRows \cup {New, Gone}],
           note' \in [Notes -> Owners \cup {New, Gone}], held' \in SUBSET Contacts
    PROVE  GraphIInv'
<1>1. RowsApart'
  BY FinishEffect, SlotKeepsRowsApart DEF GraphIInv
<1>2. GraphTypeOK'
  BY FinishEffect DEF GraphIInv, GraphTypeOK
<1> QED
  BY <1>1, <1>2 DEF GraphIInv

(* The steps that no request in flight takes. *)
LEMMA OutsideKeepsIInv ==
    ASSUME GraphIInv, EdgesAreFacts', UNCHANGED op,
           fate' \in [Contacts -> {"live", "deleted", "merged", "bare"}],
           edge' \in [Edges -> EdgeRows \cup {New, Gone}],
           note' \in [Notes -> Owners \cup {New, Gone}], held' \in SUBSET Contacts
    PROVE  GraphIInv'
BY DEF GraphIInv, GraphTypeOK, RowsApart

LEMMA EdgeRequestStep ==
    ASSUME GraphIInv, NEW r \in Slots,
           \/ \E e \in Edges : LoadEdge(r, e)
           \/ \E row \in EdgeRows : LoadMembers(r, row)
           \/ UpdateEdge(r) \/ AcceptEdge(r) \/ CountKnown(r) \/ InsertSuggestion(r)
    PROVE  GraphIInv'
<1> USE DEF GraphIInv
<1>1. op[r] \in Requested \cup {Idle}
  BY DEF GraphTypeOK
<1>2. ASSUME NEW e \in Edges, LoadEdge(r, e) PROVE GraphIInv'
  <2>1. e \in LiveEdges /\ edge[e] \in EdgeRows /\ edge[e].source # edge[e].target
    BY <1>2 DEF LoadEdge, LiveEdges, EdgesAreFacts
  <2>2. CASE Begin(r, [kind |-> "update", edge |-> e, status |-> edge[e].status])
    <3>1. [kind |-> "update", edge |-> e, status |-> edge[e].status] \in Requested
      BY <2>1 DEF Requested, EdgeRows
    <3> QED
      BY <1>2, <2>2, <3>1, BegunKeepsIInv DEF LoadEdge
  <2>3. CASE Begin(r, [kind |-> "accept", edge |-> e, row |-> edge[e]])
    <3>1. [kind |-> "accept", edge |-> e, row |-> edge[e]] \in Requested
      BY <2>1 DEF Requested
    <3> QED
      BY <1>2, <2>1, <2>3, <3>1, BegunKeepsIInv DEF LoadEdge
  <2> QED
    BY <1>2, <2>2, <2>3 DEF LoadEdge
<1>3. ASSUME NEW row \in EdgeRows, LoadMembers(r, row) PROVE GraphIInv'
  <2>1. [kind |-> "suggest", row |-> row] \in Requested
    BY DEF Requested
  <2> QED
    BY <1>3, <2>1, BegunKeepsIInv DEF LoadMembers, EndpointsResolve
<1>4. CASE UpdateEdge(r)
  <2>1. edge' \in [Edges -> EdgeRows \cup {New, Gone}] /\ EdgesAreFacts'
    <3>1. CASE UNCHANGED edge
      BY <3>1 DEF GraphTypeOK, EdgesAreFacts, KeyFree, LiveEdges
    <3>2. ASSUME NEW row \in EdgeRows, EndpointsResolve(row), SavedEdge(op[r].edge, row)
          PROVE  edge' \in [Edges -> EdgeRows \cup {New, Gone}] /\ EdgesAreFacts'
      BY <1>1, <1>4, <3>2, RequestCarries, SavedEdgeIsFact DEF UpdateEdge, EndpointsResolve
    <3> QED
      BY <1>4, <3>1, <3>2 DEF UpdateEdge
  <2> QED
    BY <1>4, <2>1, FinishedKeepsIInv DEF UpdateEdge, GraphTypeOK
<1>5. CASE AcceptEdge(r)
  <2>1. op[r].edge \in Edges /\ op[r].row \in EdgeRows /\ op[r].row.source # op[r].row.target
    BY <1>1, <1>5, RequestCarries DEF AcceptEdge, RowsApart
  <2> DEFINE row == [op[r].row EXCEPT !.status = "confirmed"]
  <2>2. row \in EdgeRows /\ row.source # row.target
    BY <2>1 DEF EdgeRows
  <2> HIDE DEF row
  <2>3. edge' \in [Edges -> EdgeRows \cup {New, Gone}] /\ EdgesAreFacts'
    BY <1>5, <2>1, <2>2, SavedEdgeIsFact DEF AcceptEdge, row
  <2> QED
    BY <1>5, <2>3, FinishedKeepsIInv DEF AcceptEdge, GraphTypeOK
<1>6. CASE CountKnown(r)
  <2>1. EdgesAreFacts'
    BY <1>6 DEF CountKnown, EdgesAreFacts, KeyFree, LiveEdges
  <2>2. CASE Finish(r)
    BY <1>6, <2>1, <2>2, FinishedKeepsIInv DEF CountKnown, GraphTypeOK
  <2>3. CASE op' = [op EXCEPT ![r].kind = "insertSuggestion"]
    <3>1. op[r] \in [kind : {"suggest", "insertSuggestion"}, row : EdgeRows]
      BY <1>1, <1>6 DEF CountKnown, Requested, Idle
    <3> DEFINE x == [op[r] EXCEPT !.kind = "insertSuggestion"]
    <3>2. x \in [kind : {"suggest", "insertSuggestion"}, row : EdgeRows] /\ x.row = op[r].row
      BY <3>1
    <3>3. x \in Requested /\ x.row.source # x.row.target
      BY <1>6, <3>2 DEF Requested, CountKnown, RowsApart
    <3>4. op' \in [Slots -> Requested \cup {Idle}] /\ op'[r] = x
          /\ \A q \in Slots \ {r} : op'[q] = op[q]
      BY <2>3, <3>3 DEF GraphTypeOK
    <3>5. GraphTypeOK' /\ RowsApart'
      BY <1>6, <3>3, <3>4, SlotKeepsRowsApart DEF CountKnown, GraphTypeOK
    <3> QED
      BY <2>1, <3>5
  <2> QED
    BY <1>6, <2>2, <2>3 DEF CountKnown
<1>7. CASE InsertSuggestion(r)
  <2>1. PICK e \in Edges : SavedEdge(e, op[r].row)
    BY <1>7 DEF InsertSuggestion
  <2>2. op[r].row \in EdgeRows /\ op[r].row.source # op[r].row.target
    BY <1>1, <1>7, RequestCarries DEF InsertSuggestion, RowsApart
  <2>3. edge' \in [Edges -> EdgeRows \cup {New, Gone}] /\ EdgesAreFacts'
    BY <2>1, <2>2, SavedEdgeIsFact
  <2> QED
    BY <1>7, <2>3, FinishedKeepsIInv DEF InsertSuggestion, GraphTypeOK
<1> QED
  BY <1>2, <1>3, <1>4, <1>5, <1>6, <1>7

LEMMA OutdatedIsRequest ==
    ASSUME NEW x \in Requested, x.kind \in {"loadedNote", "saveNote"}
    PROVE  Outdated(x) \in Requested /\ Outdated(x).kind = x.kind
<1>1. CASE x \in [kind : {"loadedNote"}, note : Notes, seen : Owners, fresh : BOOLEAN]
  BY <1>1 DEF Outdated, Requested, Owners
<1>2. CASE x \in [kind : {"saveNote"}, note : Notes, seen : Owners, fresh : BOOLEAN,
                  contact : Owners]
  BY <1>2 DEF Outdated, Requested, Owners
<1> QED
  BY <1>1, <1>2 DEF Requested

LEMMA OutdatedKeepsContact ==
    ASSUME NEW x \in Requested, x.kind \in {"loadedNote", "saveNote"}
    PROVE  /\ Outdated(x).kind = x.kind
           /\ x.kind = "saveNote" => Outdated(x).contact = x.contact
<1>1. CASE x \in [kind : {"loadedNote"}, note : Notes, seen : Owners, fresh : BOOLEAN]
  BY <1>1 DEF Outdated
<1>2. CASE x \in [kind : {"saveNote"}, note : Notes, seen : Owners, fresh : BOOLEAN,
                  contact : Owners]
  BY <1>2 DEF Outdated
<1> QED
  BY <1>1, <1>2 DEF Requested

LEMMA NoteRequestStep ==
    ASSUME GraphIInv, NEW r \in Slots,
           \/ \E c \in Contacts : LoadContact(r, c)
           \/ \E n \in Notes : LoadNote(r, n)
           \/ \E c \in Owners : FindOwner(r, c)
           \/ CreateNote(r) \/ SaveNote(r) \/ DeleteContact(r)
    PROVE  GraphIInv'
<1> USE DEF GraphIInv
<1>1. op[r] \in Requested \cup {Idle}
  BY DEF GraphTypeOK
<1>2. UNCHANGED edge => EdgesAreFacts'
  BY DEF EdgesAreFacts, KeyFree, LiveEdges
<1>3. ASSUME NEW c \in Contacts, LoadContact(r, c) PROVE GraphIInv'
  <2>1. PICK kind \in {"deleteContact", "createNote"} : Begin(r, [kind |-> kind, contact |-> c])
    BY <1>3 DEF LoadContact
  <2>2. [kind |-> kind, contact |-> c] \in Requested
    BY DEF Requested
  <2> QED
    BY <1>3, <2>1, <2>2, BegunKeepsIInv DEF LoadContact
<1>4. ASSUME NEW n \in Notes, LoadNote(r, n) PROVE GraphIInv'
  <2>1. [kind |-> "loadedNote", note |-> n, seen |-> note[n], fresh |-> TRUE] \in Requested
    BY <1>4 DEF LoadNote, LiveNotes, Requested
  <2> QED
    BY <1>4, <2>1, BegunKeepsIInv DEF LoadNote
<1>5. ASSUME NEW c \in Owners, FindOwner(r, c) PROVE GraphIInv'
  <2>1. CASE Finish(r)
    BY <1>2, <1>5, <2>1, FinishedKeepsIInv DEF FindOwner, GraphTypeOK
  <2>2. CASE ~Finish(r)
    <3> DEFINE x == [kind |-> "saveNote", note |-> op[r].note, seen |-> op[r].seen,
                     fresh |-> op[r].fresh, contact |-> c]
    <3>1. op' = [op EXCEPT ![r] = x]
      BY <1>5, <2>2 DEF FindOwner, GraphTypeOK
    <3>2. op[r].note \in Notes /\ op[r].seen \in Owners /\ op[r].fresh \in BOOLEAN
      BY <1>1, <1>5 DEF FindOwner, Requested, Idle
    <3>3. x \in Requested /\ x.kind = "saveNote"
      BY <3>2 DEF Requested
    <3> HIDE DEF x
    <3>4. GraphTypeOK' /\ RowsApart'
      BY <1>5, <3>1, <3>3 DEF FindOwner, GraphTypeOK, RowsApart
    <3> QED
      BY <1>2, <1>5, <3>4 DEF FindOwner
  <2> QED
    BY <2>1, <2>2
<1>6. CASE CreateNote(r)
  <2>1. note' \in [Notes -> Owners \cup {New, Gone}]
    BY <1>1, <1>6, RequestCarries DEF CreateNote, GraphTypeOK, Owners
  <2> QED
    BY <1>2, <1>6, <2>1, FinishedKeepsIInv DEF CreateNote, GraphTypeOK
<1>7. CASE SaveNote(r)
  <2>1. CASE ~NoteCASMatches(r)
    BY <1>2, <1>7, <2>1, FinishedKeepsIInv DEF SaveNote, GraphTypeOK
  <2>2. CASE NoteCASMatches(r)
    <3>1. note' \in [Notes -> Owners \cup {New, Gone}]
      BY <1>1, <1>7, <2>2, RequestCarries DEF SaveNote, GraphTypeOK
    <3>2. ASSUME NEW q \in Slots
          PROVE  /\ op'[q] \in Requested \cup {Idle}
                 /\ op'[q].kind \in {"accept", "suggest", "insertSuggestion"} => op'[q] = op[q]
      <4>1. op[q] \in Requested \cup {Idle}
        BY DEF GraphTypeOK
      <4>2. CASE q = r
        BY <1>7, <2>2, <4>2 DEF SaveNote, Idle
      <4>3. CASE q # r /\ Holds(q, op[r].note)
        <5>1. op[q] \in Requested /\ op[q].kind \in {"loadedNote", "saveNote"}
          BY <4>1, <4>3 DEF Holds, Idle
        <5>2. op'[q] = Outdated(op[q])
          BY <1>7, <2>2, <4>3 DEF SaveNote
        <5> QED
          BY <5>1, <5>2, OutdatedIsRequest
      <4>4. CASE q # r /\ ~Holds(q, op[r].note)
        BY <1>7, <2>2, <4>1, <4>4 DEF SaveNote
      <4> QED
        BY <4>2, <4>3, <4>4
    <3>3. op' \in [Slots -> Requested \cup {Idle}]
      BY <1>7, <2>2, <3>2 DEF SaveNote
    <3>4. GraphTypeOK' /\ RowsApart'
      BY <1>7, <3>1, <3>2, <3>3 DEF SaveNote, GraphTypeOK, RowsApart
    <3> QED
      BY <1>2, <1>7, <3>4 DEF SaveNote
  <2> QED
    BY <2>1, <2>2
<1>8. CASE DeleteContact(r)
  <2>1. op[r].contact \in Contacts
    BY <1>1, <1>8, RequestCarries DEF DeleteContact
  <2>2. fate' \in [Contacts -> {"live", "deleted", "merged", "bare"}]
    BY <1>8, <2>1 DEF DeleteContact, GraphTypeOK
  <2>3. note' \in [Notes -> Owners \cup {New, Gone}]
    BY <1>8 DEF DeleteContact, GraphTypeOK, NotesWithout
  <2>4. edge' \in [Edges -> EdgeRows \cup {New, Gone}]
        /\ \A e \in Edges : edge'[e] \in {edge[e], New, Gone}
    BY <1>8 DEF DeleteContact, GraphTypeOK, EdgesWithout
  <2>5. EdgesAreFacts'
    BY <2>4, FewerEdges
  <2>6. held' \in SUBSET Contacts
    BY <1>8, <2>1, SweepEffect DEF DeleteContact
  <2> QED
    BY <1>8, <2>2, <2>3, <2>4, <2>5, <2>6, FinishedKeepsIInv DEF DeleteContact
<1> QED
  BY <1>3, <1>4, <1>5, <1>6, <1>7, <1>8

LEMMA OutsideStep ==
    ASSUME GraphIInv,
           \/ \E e \in Edges, row \in EdgeRows : CreateEdge(e, row)
           \/ \E e \in Edges : DeleteEdge(e)
           \/ \E n \in Notes : CreateUnassignedNote(n) \/ DeleteNote(n)
           \/ \E c \in Contacts : DeleteAddressObject(c)
    PROVE  GraphIInv'
<1> USE DEF GraphIInv
<1>1. UNCHANGED edge => EdgesAreFacts'
  BY DEF EdgesAreFacts, KeyFree, LiveEdges
<1>2. ASSUME NEW e \in Edges, NEW row \in EdgeRows, CreateEdge(e, row) PROVE GraphIInv'
  BY <1>2, OneMoreEdge, OutsideKeepsIInv DEF CreateEdge, EndpointsResolve, GraphTypeOK
<1>3. ASSUME NEW e \in Edges, DeleteEdge(e) PROVE GraphIInv'
  <2>1. edge' \in [Edges -> EdgeRows \cup {New, Gone}]
        /\ \A f \in Edges : edge'[f] \in {edge[f], New, Gone}
    BY <1>3 DEF DeleteEdge, GraphTypeOK
  <2>2. EdgesAreFacts'
    BY <2>1, FewerEdges
  <2> QED
    BY <1>3, <2>1, <2>2, OutsideKeepsIInv DEF DeleteEdge, GraphTypeOK
<1>4. ASSUME NEW n \in Notes, CreateUnassignedNote(n) \/ DeleteNote(n) PROVE GraphIInv'
  BY <1>1, <1>4, OutsideKeepsIInv DEF CreateUnassignedNote, DeleteNote, GraphTypeOK, Owners
<1>5. ASSUME NEW c \in Contacts, DeleteAddressObject(c) PROVE GraphIInv'
  BY <1>1, <1>5, OutsideKeepsIInv DEF DeleteAddressObject, GraphTypeOK
<1> QED
  BY <1>2, <1>3, <1>4, <1>5

(* What a merge does to the notes: those of the loser become the keeper's, and
   one that was never created may now document the merge. *)
LEMMA MergedNotes ==
    ASSUME GraphTypeOK, NEW k \in Contacts, NEW l \in Contacts, k # l,
           note' \in WithAudit(MovedNotes(k, l), k)
    PROVE  /\ note' \in [Notes -> Owners \cup {New, Gone}]
           /\ \A n \in LiveNotes : note'[n] \in Owners \ {l}
           /\ \A n \in Notes : note[n] = Gone => note'[n] = Gone
<1> USE NullAssumption DEF Owners
<1> DEFINE moved == MovedNotes(k, l)
<1>1. /\ moved \in [Notes -> Owners \cup {New, Gone}]
      /\ \A n \in Notes : /\ note[n] \in Owners => moved[n] \in Owners \ {l}
                          /\ note[n] = Gone => moved[n] = Gone
  BY DEF MovedNotes, Moved, GraphTypeOK
<1> HIDE DEF moved
<1>2. CASE note' = moved
  BY <1>1, <1>2 DEF LiveNotes
<1>3. ASSUME NEW n \in Notes, moved[n] = New, note' = [moved EXCEPT ![n] = k]
      PROVE  /\ note' \in [Notes -> Owners \cup {New, Gone}]
             /\ \A m \in LiveNotes : note'[m] \in Owners \ {l}
             /\ \A m \in Notes : note[m] = Gone => note'[m] = Gone
  BY <1>1, <1>3 DEF LiveNotes
<1>4. note' = moved \/ \E n \in Notes : moved[n] = New /\ note' = [moved EXCEPT ![n] = k]
  BY DEF WithAudit, moved
<1> QED
  BY <1>2, <1>3, <1>4

LEMMA MergeStep ==
    ASSUME GraphIInv, NEW k \in Contacts, NEW l \in Contacts, Merge(k, l)
    PROVE  GraphIInv'
<1>1. PICK kept \in SUBSET LiveEdges : Survive(k, l, kept) /\ edge' = MergedEdges(k, l, kept)
  BY DEF Merge
<1>2. edge' \in [Edges -> EdgeRows \cup {New, Gone}] /\ EdgesAreFacts'
  BY <1>1, MergedEdgesAreFacts DEF Merge, GraphIInv
<1>3. note' \in [Notes -> Owners \cup {New, Gone}]
  BY MergedNotes DEF Merge, GraphIInv
<1>4. /\ fate' \in [Contacts -> {"live", "deleted", "merged", "bare"}] /\ UNCHANGED op
      /\ held' \in SUBSET Contacts
  BY SweepEffect DEF Merge, GraphIInv, GraphTypeOK
<1> QED
  BY <1>2, <1>3, <1>4, OutsideKeepsIInv

LEMMA GraphIInvStep == GraphIInv /\ [GraphNext]_graphVars => GraphIInv'
<1> SUFFICES ASSUME GraphIInv, [GraphNext]_graphVars PROVE GraphIInv'
  OBVIOUS
<1>1. CASE UNCHANGED graphVars
  BY <1>1 DEF graphVars, GraphIInv, GraphTypeOK, EdgesAreFacts, KeyFree, LiveEdges, RowsApart
<1> QED
  BY <1>1, EdgeRequestStep, NoteRequestStep, OutsideStep, MergeStep DEF GraphNext

(* Whatever is merged, deleted, accepted late or suggested twice: the edges are
   facts, and so is what waits to become one. *)
THEOREM GraphInvariance == GraphSpec => []GraphIInv
BY GraphInitImpliesIInv, GraphIInvStep, PTL DEF GraphSpec

(* Contacts, edges, notes and requests keep their types. *)
THEOREM GraphTypes == GraphSpec => []GraphTypeOK
<1>1. GraphIInv => GraphTypeOK
  BY DEF GraphIInv
<1> QED
  BY <1>1, GraphInvariance, PTL

(* Nobody is related to himself, and no fact is told twice under one key, for
   any number of contacts, edges, relation types and requests. *)
THEOREM EdgesStayFacts == GraphSpec => []EdgesAreFacts
<1>1. GraphIInv => EdgesAreFacts
  BY DEF GraphIInv
<1> QED
  BY <1>1, GraphInvariance, PTL

-----------------------------------------------------------------------------
(* Which step buries a contact as merged. *)
LEMMA WhoMerges ==
    ASSUME GraphIInv, GraphNext, NEW c \in Contacts, Tombstoned(c, "merged")
    PROVE  \E k \in Contacts : Merge(k, c)
<1>1. fate \in [Contacts -> {"live", "deleted", "merged", "bare"}]
      /\ fate[c] = "live" /\ fate'[c] = "merged"
  BY DEF GraphIInv, GraphTypeOK, Live, Tombstoned
<1>2. ~UNCHANGED fate
  BY <1>1
<1>3. ASSUME NEW r \in Slots, DeleteContact(r) PROVE FALSE
  BY <1>1, <1>3 DEF DeleteContact
<1>4. ASSUME NEW d \in Contacts, DeleteAddressObject(d) PROVE FALSE
  BY <1>1, <1>4 DEF DeleteAddressObject
<1>5. ASSUME NEW k \in Contacts, NEW l \in Contacts, Merge(k, l) PROVE l = c
  BY <1>1, <1>5 DEF Merge
<1>6. \/ \E r \in Slots : DeleteContact(r)
      \/ \E d \in Contacts : DeleteAddressObject(d)
      \/ \E k, l \in Contacts : Merge(k, l)
  BY <1>2 DEF GraphNext, LoadEdge, LoadMembers, UpdateEdge, AcceptEdge, CountKnown,
     InsertSuggestion, LoadContact, LoadNote, FindOwner, CreateNote, SaveNote, CreateEdge,
     DeleteEdge, CreateUnassignedNote, DeleteNote
<1> QED
  BY <1>3, <1>4, <1>5, <1>6

(* Two ways to tell one relationship tell each other's: this is where the
   inverse of an inverse has to be the relation itself. *)
LEMMA SameFactIsSymmetric ==
    ASSUME NEW a \in EdgeRows, NEW b \in EdgeRows, SameFact(a, b)
    PROVE  SameFact(b, a)
<1>1. a.type \in Types /\ b.type \in Types
  BY DEF EdgeRows
<1> QED
  BY <1>1, InverseAssumption DEF SameFact, Key, Reciprocal

LEMMA MergedEdgesTellAll ==
    ASSUME GraphIInv, NEW k \in Contacts, NEW l \in Contacts, k # l,
           NEW kept \in SUBSET LiveEdges, Survive(k, l, kept), edge' = MergedEdges(k, l, kept),
           NEW e \in LiveEdges, MovedRow(k, l, edge[e]).source # MovedRow(k, l, edge[e]).target
    PROVE  \E f \in Edges : edge'[f] \in EdgeRows /\ SameFact(edge'[f], MovedRow(k, l, edge[e]))
<1> DEFINE Touches(g) == Ends(edge[g]) \cap {k, l} # {}
           row(g) == MovedRow(k, l, edge[g])
<1>1. \A g \in LiveEdges : g \in Edges /\ edge[g] \in EdgeRows /\ row(g) \in EdgeRows
  BY MovedRowIsRow DEF LiveEdges
<1>2. \A g \in kept : g \in LiveEdges /\ edge'[g] = row(g)
  BY DEF MergedEdges, LiveEdges
<1>3. CASE e \in kept
  BY <1>1, <1>2, <1>3 DEF SameFact
<1>4. CASE e \notin kept /\ Touches(e)
  <2>1. PICK f \in kept : SameFact(row(e), row(f))
    BY <1>4 DEF Survive
  <2> QED
    BY <1>1, <1>2, <2>1, SameFactIsSymmetric
<1>5. CASE e \notin kept /\ ~Touches(e)
  <2>1. edge'[e] = edge[e]
    BY <1>1, <1>5 DEF MergedEdges
  <2>2. Key(row(e)) = Key(edge[e])
    <3>1. edge[e].source # l /\ edge[e].target # l
      BY <1>5 DEF Ends
    <3>2. edge[e] \in EdgeRows
      BY <1>1
    <3> QED
      BY <3>1, <3>2, MovedRowIsRow DEF Key, Moved
  <2> QED
    BY <1>1, <2>1, <2>2 DEF SameFact
<1> QED
  BY <1>3, <1>4, <1>5

(* A merge loses no note and no relationship. *)
THEOREM MergesLoseNothing == GraphSpec => MergeLosesNothing
<1>1. ASSUME GraphIInv, GraphNext, NEW l \in Contacts, Tombstoned(l, "merged")
      PROVE  /\ \A n \in LiveNotes : note'[n] \in Owners \ {l}
             /\ \E k \in Contacts \ {l} : \A e \in LiveEdges :
                  LET row == MovedRow(k, l, edge[e])
                  IN  row.source # row.target =>
                        \E f \in Edges : edge'[f] \in EdgeRows /\ SameFact(edge'[f], row)
  <2>1. PICK k \in Contacts : Merge(k, l)
    BY <1>1, WhoMerges
  <2>2. k # l /\ note' \in WithAudit(MovedNotes(k, l), k)
    BY <2>1 DEF Merge
  <2>3. PICK kept \in SUBSET LiveEdges : Survive(k, l, kept) /\ edge' = MergedEdges(k, l, kept)
    BY <2>1 DEF Merge
  <2>4. \A n \in LiveNotes : note'[n] \in Owners \ {l}
    BY <1>1, <2>2, MergedNotes DEF GraphIInv
  <2> QED
    BY <1>1, <2>2, <2>3, <2>4, MergedEdgesTellAll
<1>2. GraphIInv /\ [GraphNext]_graphVars
      => [\A l \in Contacts : Tombstoned(l, "merged") =>
            /\ \A n \in LiveNotes : note'[n] \in Owners \ {l}
            /\ \E k \in Contacts \ {l} : \A e \in LiveEdges :
                 LET row == MovedRow(k, l, edge[e])
                 IN  row.source # row.target =>
                       \E f \in Edges : edge'[f] \in EdgeRows /\ SameFact(edge'[f], row)]_graphVars
  BY <1>1
<1> QED
  BY <1>2, GraphInvariance, PTL DEF GraphSpec, MergeLosesNothing

-----------------------------------------------------------------------------
(* Nothing refers to the contact, and no request is about to. *)
Unrelated(c) == ~RefersTo(c) /\ \A q \in Slots : ~Carries(op[q], c)

Dead(c) == fate[c] \in {"deleted", "merged"}

(* The property says what is stored; that it lasts rests on what the requests
   in flight carry. *)
Alone == \A c \in Contacts \ held : Dead(c) => Unrelated(c)

LEMMA UnrelatedAvoids ==
    ASSUME NEW c \in Contacts
    PROVE  Unrelated(c) <=> /\ \A e \in Edges : edge[e] \in EdgeRows => c \notin Ends(edge[e])
                            /\ \A n \in Notes : note[n] # c
                            /\ \A q \in Slots : ~Carries(op[q], c)
BY DEF Unrelated, RefersTo, LiveEdges

LEMMA UnrelatedAvoidsThen ==
    ASSUME NEW c \in Contacts
    PROVE  Unrelated(c)' <=> /\ \A e \in Edges : edge'[e] \in EdgeRows => c \notin Ends(edge'[e])
                             /\ \A n \in Notes : note'[n] # c
                             /\ \A q \in Slots : ~Carries(op'[q], c)
BY DEF Unrelated, RefersTo, LiveEdges, Carries

(* A step that begins or advances one request, and one that ends it. *)
LEMMA AdvancedStaysUnrelated ==
    ASSUME NEW c \in Contacts, Unrelated(c), NEW r \in Slots,
           \A q \in Slots \ {r} : op'[q] = op[q], ~Carries(op'[r], c), UNCHANGED <<edge, note>>
    PROVE  Unrelated(c)'
BY UnrelatedAvoids, UnrelatedAvoidsThen

LEMMA FinishedStaysUnrelated ==
    ASSUME GraphTypeOK, NEW c \in Contacts, Unrelated(c), NEW r \in Slots, Finish(r),
           \A e \in Edges : edge'[e] \in EdgeRows => c \notin Ends(edge'[e]),
           \A n \in Notes : note'[n] # c
    PROVE  Unrelated(c)'
<1>1. \A q \in Slots : ~Carries(op'[q], c)
  BY FinishEffect, UnrelatedAvoids DEF Carries
<1> QED
  BY <1>1, UnrelatedAvoidsThen

LEMMA SavedEdgeAvoids ==
    ASSUME GraphTypeOK, NEW c \in Contacts, Unrelated(c), NEW e \in Edges, NEW row \in EdgeRows,
           c \notin Ends(row), SavedEdge(e, row)
    PROVE  \A f \in Edges : edge'[f] \in EdgeRows => c \notin Ends(edge'[f])
BY UnrelatedAvoids DEF GraphTypeOK, SavedEdge

LEMMA EdgeRequestStaysUnrelated ==
    ASSUME GraphIInv, NEW c \in Contacts, Dead(c), Unrelated(c), NEW r \in Slots,
           \/ \E e \in Edges : LoadEdge(r, e)
           \/ \E row \in EdgeRows : LoadMembers(r, row)
           \/ UpdateEdge(r) \/ AcceptEdge(r) \/ CountKnown(r) \/ InsertSuggestion(r)
    PROVE  Unrelated(c)'
<1> USE DEF GraphIInv
<1>1. op[r] \in Requested \cup {Idle} /\ ~Live(c)
  BY DEF GraphTypeOK, Dead, Live
<1>2. /\ \A e \in Edges : edge[e] \in EdgeRows => c \notin Ends(edge[e])
      /\ \A n \in Notes : note[n] # c
      /\ \A q \in Slots : ~Carries(op[q], c)
  BY UnrelatedAvoids
<1>3. ASSUME NEW e \in Edges, LoadEdge(r, e) PROVE Unrelated(c)'
  <2>1. edge[e] \in EdgeRows /\ c \notin Ends(edge[e])
    BY <1>2, <1>3 DEF LoadEdge, LiveEdges
  <2>2. PICK x \in {[kind |-> "update", edge |-> e, status |-> edge[e].status],
                    [kind |-> "accept", edge |-> e, row |-> edge[e]]} : Begin(r, x)
    BY <1>3 DEF LoadEdge
  <2>3. x \in Requested /\ ~Carries(x, c)
    BY <2>1, <2>2 DEF Requested, EdgeRows, Carries
  <2> QED
    BY <1>3, <2>2, <2>3, BeginEffect, AdvancedStaysUnrelated DEF LoadEdge
<1>4. ASSUME NEW row \in EdgeRows, LoadMembers(r, row) PROVE Unrelated(c)'
  <2> DEFINE x == [kind |-> "suggest", row |-> row]
  <2>1. x \in Requested /\ Begin(r, x)
    BY <1>4 DEF LoadMembers, Requested
  <2>2. ~Carries(x, c)
    BY <1>1, <1>4 DEF LoadMembers, EndpointsResolve, Carries
  <2> QED
    BY <1>4, <2>1, <2>2, BeginEffect, AdvancedStaysUnrelated DEF LoadMembers
<1>5. CASE UpdateEdge(r)
  <2>1. ASSUME NEW row \in EdgeRows, EndpointsResolve(row), SavedEdge(op[r].edge, row)
        PROVE  \A f \in Edges : edge'[f] \in EdgeRows => c \notin Ends(edge'[f])
    <3>1. op[r].edge \in Edges
      BY <1>1, <1>5, RequestCarries DEF UpdateEdge
    <3>2. c \notin Ends(row)
      BY <1>1, <2>1 DEF EndpointsResolve
    <3> QED
      BY <2>1, <3>1, <3>2, SavedEdgeAvoids
  <2>2. \A f \in Edges : edge'[f] \in EdgeRows => c \notin Ends(edge'[f])
    BY <1>2, <1>5, <2>1 DEF UpdateEdge
  <2> QED
    BY <1>2, <1>5, <2>2, FinishedStaysUnrelated DEF UpdateEdge
<1>6. CASE AcceptEdge(r)
  <2>1. op[r].edge \in Edges /\ op[r].row \in EdgeRows /\ c \notin Ends(op[r].row)
    BY <1>1, <1>2, <1>6, RequestCarries DEF AcceptEdge, Carries
  <2> DEFINE row == [op[r].row EXCEPT !.status = "confirmed"]
  <2>2. row \in EdgeRows /\ c \notin Ends(row)
    BY <2>1 DEF EdgeRows, Ends
  <2>3. \A f \in Edges : edge'[f] \in EdgeRows => c \notin Ends(edge'[f])
    BY <1>6, <2>1, <2>2, SavedEdgeAvoids DEF AcceptEdge
  <2> QED
    BY <1>2, <1>6, <2>3, FinishedStaysUnrelated DEF AcceptEdge
<1>7. CASE CountKnown(r)
  <2>1. CASE Finish(r)
    BY <1>2, <1>7, <2>1, FinishedStaysUnrelated DEF CountKnown
  <2>2. CASE op' = [op EXCEPT ![r].kind = "insertSuggestion"]
    <3>1. op[r] \in [kind : {"suggest", "insertSuggestion"}, row : EdgeRows]
          /\ ~Carries(op[r], c)
      BY <1>1, <1>2, <1>7 DEF CountKnown, Requested, Idle
    <3>2. op'[r] = [op[r] EXCEPT !.kind = "insertSuggestion"]
          /\ \A q \in Slots \ {r} : op'[q] = op[q]
      BY <2>2 DEF GraphTypeOK
    <3>3. ~Carries(op'[r], c)
      BY <3>1, <3>2 DEF Carries
    <3> QED
      BY <1>7, <3>2, <3>3, AdvancedStaysUnrelated DEF CountKnown
  <2> QED
    BY <1>7, <2>1, <2>2 DEF CountKnown
<1>8. CASE InsertSuggestion(r)
  <2>1. op[r].row \in EdgeRows /\ c \notin Ends(op[r].row)
    BY <1>1, <1>2, <1>8, RequestCarries DEF InsertSuggestion, Carries
  <2>2. PICK e \in Edges : SavedEdge(e, op[r].row)
    BY <1>8 DEF InsertSuggestion
  <2>3. \A f \in Edges : edge'[f] \in EdgeRows => c \notin Ends(edge'[f])
    BY <2>1, <2>2, SavedEdgeAvoids
  <2> QED
    BY <1>2, <1>8, <2>3, FinishedStaysUnrelated DEF InsertSuggestion
<1> QED
  BY <1>3, <1>4, <1>5, <1>6, <1>7, <1>8

LEMMA NoteRequestStaysUnrelated ==
    ASSUME GraphIInv, NEW c \in Contacts, Dead(c), Unrelated(c), NEW r \in Slots,
           \/ \E d \in Contacts : LoadContact(r, d)
           \/ \E n \in Notes : LoadNote(r, n)
           \/ \E d \in Owners : FindOwner(r, d)
           \/ CreateNote(r) \/ SaveNote(r) \/ DeleteContact(r)
    PROVE  Unrelated(c)'
<1> USE DEF GraphIInv
<1>1. op[r] \in Requested \cup {Idle} /\ ~Live(c)
  BY DEF GraphTypeOK, Dead, Live
<1>2. /\ \A e \in Edges : edge[e] \in EdgeRows => c \notin Ends(edge[e])
      /\ \A n \in Notes : note[n] # c
      /\ \A q \in Slots : ~Carries(op[q], c)
  BY UnrelatedAvoids
<1>3. ASSUME NEW d \in Contacts, LoadContact(r, d) PROVE Unrelated(c)'
  <2>1. PICK kind \in {"deleteContact", "createNote"} : Begin(r, [kind |-> kind, contact |-> d])
    BY <1>3 DEF LoadContact
  <2>2. [kind |-> kind, contact |-> d] \in Requested /\ d # c
    BY <1>1, <1>3 DEF LoadContact, Requested
  <2>3. ~Carries([kind |-> kind, contact |-> d], c)
    BY <2>2 DEF Carries
  <2> QED
    BY <1>3, <2>1, <2>2, <2>3, BeginEffect, AdvancedStaysUnrelated DEF LoadContact
<1>4. ASSUME NEW n \in Notes, LoadNote(r, n) PROVE Unrelated(c)'
  <2> DEFINE x == [kind |-> "loadedNote", note |-> n, seen |-> note[n], fresh |-> TRUE]
  <2>1. x \in Requested /\ ~Carries(x, c) /\ Begin(r, x)
    BY <1>4 DEF LoadNote, LiveNotes, Requested, Carries
  <2> HIDE DEF x
  <2> QED
    BY <1>4, <2>1, BeginEffect, AdvancedStaysUnrelated DEF LoadNote
<1>5. ASSUME NEW d \in Owners, FindOwner(r, d) PROVE Unrelated(c)'
  <2>1. CASE Finish(r)
    BY <1>2, <1>5, <2>1, FinishedStaysUnrelated DEF FindOwner
  <2>2. CASE ~Finish(r)
    <3>1. d # c
      BY <1>1, <1>5, <2>2, NullAssumption DEF FindOwner
    <3> DEFINE x == [kind |-> "saveNote", note |-> op[r].note, seen |-> op[r].seen,
                     fresh |-> op[r].fresh, contact |-> d]
    <3>2. op' = [op EXCEPT ![r] = x]
      BY <1>5, <2>2 DEF FindOwner, GraphTypeOK
    <3>3. ~Carries(x, c)
      BY <3>1 DEF Carries
    <3>4. op'[r] = x /\ \A q \in Slots \ {r} : op'[q] = op[q]
      BY <3>2 DEF GraphTypeOK
    <3> QED
      BY <1>5, <3>3, <3>4, AdvancedStaysUnrelated DEF FindOwner
  <2> QED
    BY <2>1, <2>2
<1>6. CASE CreateNote(r)
  <2>1. op[r].contact # c
    BY <1>2, <1>6 DEF CreateNote, Carries
  <2>2. \A n \in Notes : note'[n] # c
    BY <1>2, <1>6, <2>1 DEF CreateNote, GraphTypeOK
  <2> QED
    BY <1>2, <1>6, <2>2, FinishedStaysUnrelated DEF CreateNote
<1>7. CASE SaveNote(r)
  <2>1. CASE ~NoteCASMatches(r)
    BY <1>2, <1>7, <2>1, FinishedStaysUnrelated DEF SaveNote
  <2>2. CASE NoteCASMatches(r)
    <3>1. op[r].contact # c
      BY <1>2, <1>7 DEF SaveNote, Carries
    <3>2. UNCHANGED edge /\ \A n \in Notes : note'[n] # c
      BY <1>2, <1>7, <2>2, <3>1 DEF SaveNote, GraphTypeOK
    <3>3. ASSUME NEW q \in Slots PROVE ~Carries(op'[q], c)
      <4>1. ~Carries(op[q], c) /\ op[q] \in Requested \cup {Idle}
        BY <1>2 DEF GraphTypeOK
      <4>2. CASE q = r
        BY <1>7, <2>2, <4>2 DEF SaveNote, Idle, Carries
      <4>3. CASE q # r /\ Holds(q, op[r].note)
        <5>1. op'[q] = Outdated(op[q]) /\ op[q] \in Requested
              /\ op[q].kind \in {"loadedNote", "saveNote"}
          BY <1>7, <2>2, <4>1, <4>3 DEF SaveNote, Holds, Idle
        <5>2. op'[q].kind = op[q].kind /\ (op[q].kind = "saveNote" => op'[q].contact = op[q].contact)
          BY <5>1, OutdatedKeepsContact
        <5> QED
          BY <4>1, <5>1, <5>2 DEF Carries
      <4>4. CASE q # r /\ ~Holds(q, op[r].note)
        BY <1>7, <2>2, <4>1, <4>4 DEF SaveNote
      <4> QED
        BY <4>2, <4>3, <4>4
    <3> QED
      BY <1>2, <3>2, <3>3, UnrelatedAvoidsThen
  <2> QED
    BY <2>1, <2>2
<1>8. CASE DeleteContact(r)
  <2>1. \A e \in Edges : edge'[e] \in EdgeRows => c \notin Ends(edge'[e])
    BY <1>2, <1>8, NullAssumption DEF DeleteContact, EdgesWithout
  <2>2. \A n \in Notes : note'[n] # c
    BY <1>2, <1>8, NullAssumption DEF DeleteContact, NotesWithout
  <2> QED
    BY <1>8, <2>1, <2>2, FinishedStaysUnrelated DEF DeleteContact
<1> QED
  BY <1>3, <1>4, <1>5, <1>6, <1>7, <1>8

LEMMA OutsideStaysUnrelated ==
    ASSUME GraphIInv, NEW c \in Contacts, Dead(c), Unrelated(c),
           \/ \E e \in Edges, row \in EdgeRows : CreateEdge(e, row)
           \/ \E e \in Edges : DeleteEdge(e)
           \/ \E n \in Notes : CreateUnassignedNote(n) \/ DeleteNote(n)
           \/ \E d \in Contacts : DeleteAddressObject(d)
    PROVE  Unrelated(c)'
<1> USE NullAssumption DEF GraphIInv, GraphTypeOK
<1>1. /\ \A e \in Edges : edge[e] \in EdgeRows => c \notin Ends(edge[e])
      /\ \A n \in Notes : note[n] # c
      /\ \A q \in Slots : ~Carries(op[q], c)
  BY UnrelatedAvoids
<1>2. UNCHANGED op
  BY DEF CreateEdge, DeleteEdge, CreateUnassignedNote, DeleteNote, DeleteAddressObject
<1>3. \A e \in Edges : edge'[e] \in EdgeRows => c \notin Ends(edge'[e])
  BY <1>1 DEF CreateEdge, DeleteEdge, CreateUnassignedNote, DeleteNote, DeleteAddressObject,
     EndpointsResolve, Live, Dead
<1>4. \A n \in Notes : note'[n] # c
  BY <1>1 DEF CreateEdge, DeleteEdge, CreateUnassignedNote, DeleteNote, DeleteAddressObject
<1> QED
  BY <1>1, <1>2, <1>3, <1>4, UnrelatedAvoidsThen

(* A merge puts the keeper, who is live, where the loser was: it adds no other
   reference, and takes away those to the loser. *)
LEMMA MergeMoves ==
    ASSUME GraphIInv, NEW k \in Contacts, NEW l \in Contacts, Merge(k, l), NEW c \in Contacts \ {k},
           \/ c = l
           \/ /\ \A e \in Edges : edge[e] \in EdgeRows => c \notin Ends(edge[e])
              /\ \A n \in Notes : note[n] # c
    PROVE  /\ \A e \in Edges : edge'[e] \in EdgeRows => c \notin Ends(edge'[e])
           /\ \A n \in Notes : note'[n] # c
<1> USE NullAssumption DEF GraphIInv
<1>1. k # l
  BY DEF Merge
<1>2. PICK kept \in SUBSET LiveEdges : edge' = MergedEdges(k, l, kept)
  BY DEF Merge
<1>3. ASSUME NEW e \in Edges, edge'[e] \in EdgeRows PROVE c \notin Ends(edge'[e])
  <2>1. CASE e \in kept
    <3>1. edge[e] \in EdgeRows /\ edge'[e] = MovedRow(k, l, edge[e])
      BY <1>2, <2>1 DEF MergedEdges, LiveEdges
    <3>2. /\ edge'[e].source = Moved(k, l, edge[e].source)
          /\ edge'[e].target = Moved(k, l, edge[e].target)
      BY <3>1, MovedRowIsRow
    <3> QED
      BY <1>1, <3>1, <3>2 DEF Moved, Ends
  <2>2. CASE e \notin kept
    <3>1. edge'[e] = edge[e] /\ (e \in LiveEdges => Ends(edge[e]) \cap {k, l} = {})
      BY <1>2, <1>3, <2>2 DEF MergedEdges
    <3> QED
      BY <1>3, <3>1 DEF LiveEdges
  <2> QED
    BY <2>1, <2>2
<1> DEFINE moved == MovedNotes(k, l)
<1>4. \A n \in Notes : moved[n] # c
  BY <1>1 DEF MovedNotes, Moved
<1>5. note' = moved \/ \E n \in Notes : note' = [moved EXCEPT ![n] = k]
  BY DEF Merge, WithAudit
<1>6. moved = [n \in Notes |-> moved[n]]
  BY DEF MovedNotes
<1> HIDE DEF moved
<1>7. \A n \in Notes : note'[n] # c
  BY <1>4, <1>5, <1>6
<1> QED
  BY <1>3, <1>7

(* The contacts that were swept stay as they are: no handler begins on them. *)
LEMMA DeadStaysUnrelated ==
    ASSUME GraphIInv, GraphNext, NEW c \in Contacts, Dead(c), Unrelated(c)
    PROVE  Unrelated(c)'
<1>1. ASSUME NEW k \in Contacts, NEW l \in Contacts, Merge(k, l) PROVE Unrelated(c)'
  <2>1. c # k /\ UNCHANGED op
    BY <1>1 DEF Merge, Live, Dead
  <2> QED
    BY <1>1, <2>1, MergeMoves, UnrelatedAvoids, UnrelatedAvoidsThen
<1> QED
  BY <1>1, EdgeRequestStaysUnrelated, NoteRequestStaysUnrelated, OutsideStaysUnrelated
     DEF GraphNext

(* Which step sweeps a contact. *)
LEMMA WhoSweeps ==
    ASSUME GraphIInv, GraphNext, NEW c \in Contacts, c \notin held', Dead(c)'
    PROVE  \/ c \notin held /\ Dead(c)
           \/ \E r \in Slots : DeleteContact(r) /\ op[r].contact = c
           \/ \E k \in Contacts : Merge(k, c)
<1> USE DEF GraphIInv
<1>1. CASE UNCHANGED <<fate, held>>
  BY <1>1 DEF Dead
<1>2. ASSUME NEW r \in Slots, DeleteContact(r), op[r].contact # c PROVE c \notin held /\ Dead(c)
  <2>1. op[r].contact \in Contacts
    BY <1>2, RequestCarries DEF DeleteContact, GraphTypeOK
  <2> QED
    BY <1>2, <2>1, SweepEffect DEF DeleteContact, Dead, GraphTypeOK
<1>3. ASSUME NEW d \in Contacts, DeleteAddressObject(d) PROVE c \notin held /\ Dead(c)
  BY <1>3 DEF DeleteAddressObject, Dead, GraphTypeOK
<1>4. ASSUME NEW k \in Contacts, NEW l \in Contacts \ {c}, Merge(k, l)
      PROVE  c \notin held /\ Dead(c)
  BY <1>4, SweepEffect DEF Merge, Dead, GraphTypeOK
<1>5. \/ UNCHANGED <<fate, held>>
      \/ \E r \in Slots : DeleteContact(r)
      \/ \E d \in Contacts : DeleteAddressObject(d)
      \/ \E k, l \in Contacts : Merge(k, l)
  BY DEF GraphNext, LoadEdge, LoadMembers, UpdateEdge, AcceptEdge, CountKnown, InsertSuggestion,
     LoadContact, LoadNote, FindOwner, CreateNote, SaveNote, CreateEdge, DeleteEdge,
     CreateUnassignedNote, DeleteNote
<1> QED
  BY <1>1, <1>2, <1>3, <1>4, <1>5

LEMMA AloneStep == GraphIInv /\ Alone /\ [GraphNext]_graphVars => Alone'
<1> SUFFICES ASSUME GraphIInv, Alone, [GraphNext]_graphVars, NEW c \in Contacts,
                    c \notin held', Dead(c)'
             PROVE  Unrelated(c)'
  BY DEF Alone
<1>1. CASE UNCHANGED graphVars
  BY <1>1, UnrelatedAvoids, UnrelatedAvoidsThen DEF graphVars, Alone, Dead
<1>2. CASE GraphNext /\ c \notin held /\ Dead(c)
  BY <1>2, DeadStaysUnrelated DEF Alone
<1>3. ASSUME NEW r \in Slots, DeleteContact(r), op[r].contact = c PROVE Unrelated(c)'
  <2>1. /\ \A e \in Edges : edge'[e] \in EdgeRows => c \notin Ends(edge'[e])
        /\ \A n \in Notes : note'[n] # c
    BY <1>3, NullAssumption DEF DeleteContact, EdgesWithout, NotesWithout, LiveEdges
  <2>2. \A q \in Slots \ {r} : ~Carries(op[q], c)
    BY <1>3, SweepEffect DEF DeleteContact, GraphIInv
  <2>3. \A q \in Slots : ~Carries(op'[q], c)
    BY <1>3, <2>2, FinishEffect DEF DeleteContact, Carries, GraphIInv
  <2> QED
    BY <2>1, <2>3, UnrelatedAvoidsThen
<1>4. ASSUME NEW k \in Contacts, Merge(k, c) PROVE Unrelated(c)'
  <2>1. c # k /\ UNCHANGED op /\ \A q \in Slots : ~Carries(op[q], c)
    BY <1>4, SweepEffect DEF Merge, GraphIInv
  <2> QED
    BY <1>4, <2>1, MergeMoves, UnrelatedAvoidsThen
<1> QED
  BY <1>1, <1>2, <1>3, <1>4, WhoSweeps

(* Contacts that were deleted through the API or merged away are left alone for
   good, whatever was in flight, but for those that a request at work already
   carried when they were swept. *)
THEOREM DeletedAreLeftAlone == GraphSpec => []NothingRefersToTheDeleted
<1>1. GraphInit => Alone
  BY DEF GraphInit, Alone, Dead
<1>2. Alone => NothingRefersToTheDeleted
  BY DEF Alone, Dead, Unrelated, NothingRefersToTheDeleted
<1> QED
  BY <1>1, <1>2, AloneStep, GraphInvariance, PTL DEF GraphSpec

(* A deleted note stays deleted. *)
THEOREM DeletedNotesStay == GraphSpec => NotesStayDeleted
<1>1. ASSUME GraphIInv, GraphNext, NEW n \in Notes, note[n] = Gone PROVE note'[n] = Gone
  <2> USE NullAssumption DEF GraphIInv, GraphTypeOK
  <2>1. CASE UNCHANGED note
    BY <1>1, <2>1
  <2>2. ASSUME NEW r \in Slots, CreateNote(r) PROVE note'[n] = Gone
    BY <1>1, <2>2 DEF CreateNote
  <2>3. ASSUME NEW r \in Slots, SaveNote(r) PROVE note'[n] = Gone
    BY <1>1, <2>3 DEF SaveNote, NoteCASMatches, LiveNotes, Owners
  <2>4. ASSUME NEW r \in Slots, DeleteContact(r) PROVE note'[n] = Gone
    BY <1>1, <2>4 DEF DeleteContact, NotesWithout
  <2>5. ASSUME NEW m \in Notes, CreateUnassignedNote(m) \/ DeleteNote(m) PROVE note'[n] = Gone
    BY <1>1, <2>5 DEF CreateUnassignedNote, DeleteNote
  <2>6. ASSUME NEW k \in Contacts, NEW l \in Contacts, Merge(k, l) PROVE note'[n] = Gone
    BY <1>1, <2>6, MergedNotes DEF Merge
  <2>7. \/ UNCHANGED note
        \/ \E r \in Slots : CreateNote(r) \/ SaveNote(r) \/ DeleteContact(r)
        \/ \E m \in Notes : CreateUnassignedNote(m) \/ DeleteNote(m)
        \/ \E k, l \in Contacts : Merge(k, l)
    BY <1>1 DEF GraphNext, LoadEdge, LoadMembers, UpdateEdge, AcceptEdge, CountKnown,
       InsertSuggestion, LoadContact, LoadNote, FindOwner, CreateEdge, DeleteEdge,
       DeleteAddressObject
  <2> QED
    BY <2>1, <2>2, <2>3, <2>4, <2>5, <2>6, <2>7
<1>2. GraphIInv /\ [GraphNext]_graphVars
      => [\A n \in Notes : note[n] = Gone => note'[n] = Gone]_graphVars
  BY <1>1
<1> QED
  BY <1>2, GraphInvariance, PTL DEF GraphSpec, NotesStayDeleted
=============================================================================
