-------------------------- MODULE ConditionalWrites --------------------------
(***************************************************************************)
(* One contact row and the HTTP requests that write it concurrently.  The   *)
(* other revision-bearing entities (Note, Activity, LifeEvent, Reminder)   *)
(* share its AfterSave hook and the handler shape, without the flags and   *)
(* CardDAV; the bulk updates that reach some of them past the hook are in  *)
(* module ContactGraph.                                                    *)
(*                                                                         *)
(* A client GETs the row, later sends a write that may carry the revision  *)
(* it saw in If-Match.  The handler loads the row with a plain read        *)
(* (First), checks If-Match against what it loaded, and only then opens a  *)
(* transaction: other requests run between the load and the transaction.   *)
(* The transaction itself is one step: the DSN sets _txlock=immediate, so  *)
(* SQLite runs write transactions one at a time.                           *)
(***************************************************************************)
EXTENDS Naturals, FiniteSets

CONSTANTS
    Requests,      \* the write requests that reach the server
    Bodies,        \* values of the columns a PUT replaces
    Marks,         \* values of the archived and favourite flags
    NoMatch,       \* a request without an If-Match header
    AnyMatch       \* If-Match: *

ASSUME MatchAssumption == /\ NoMatch \notin Nat
                          /\ AnyMatch \notin Nat
                          /\ NoMatch # AnyMatch

VARIABLES
    content,   \* the row's columns, its revision among them
    deleted,   \* deleted_at IS NOT NULL
    phase,     \* how far each request has come
    request,   \* what each request asks for
    seen,      \* the row as the client last read it
    base,      \* the row as the handler loaded it
    status     \* what came of each request, heard by the client or not

vars == <<content, deleted, phase, request, seen, base, status>>

Contents == [revision : Nat \ {0}, body : Bodies, mark : Marks]

(* PUT over REST, PUT over CardDAV, the archive and favourite toggles, and
   DELETE over either protocol. *)
Verbs == {"put", "davput", "toggle", "delete", "davdelete"}
Writers == {"put", "davput", "toggle"}

(* The verbs that read the If-Match header. *)
Conditional == {"put", "davput", "delete"}

Asks == [verb : Verbs, ifMatch : Nat \cup {NoMatch, AnyMatch}]

Phases == {"idle", "read", "loaded", "done"}
Statuses == {"none", "ok", "created", "notFound", "preconditionFailed",
             "error", "lost"}

TypeOK == /\ content \in Contents
          /\ deleted \in BOOLEAN
          /\ phase \in [Requests -> Phases]
          /\ request \in [Requests -> Asks]
          /\ seen \in [Requests -> Contents]
          /\ base \in [Requests -> Contents]
          /\ status \in [Requests -> Statuses]

-----------------------------------------------------------------------------
(* AfterCreate stamps revision 1 on the new row. *)
Init ==
        /\ content \in {[revision |-> 1, body |-> b, mark |-> m] :
                            b \in Bodies, m \in Marks}
        /\ deleted = FALSE
        /\ phase = [r \in Requests |-> "idle"]
        /\ request = [r \in Requests |-> [verb |-> "put", ifMatch |-> NoMatch]]
        /\ seen = [r \in Requests |-> content]
        /\ base = [r \in Requests |-> content]
        /\ status = [r \in Requests |-> "none"]

(* The client reads the row; its answer carries the revision. *)
Get(r) == /\ phase[r] = "idle"
          /\ ~deleted
          /\ phase' = [phase EXCEPT ![r] = "read"]
          /\ seen' = [seen EXCEPT ![r] = content]
          /\ UNCHANGED <<content, deleted, request, base, status>>

(* Mutant: any parsable header satisfies the precondition. *)
IfMatchIgnored(ask, revision) == TRUE

IfMatchSatisfied(ask, revision) ==
    ask.verb \in Conditional => ask.ifMatch \in {NoMatch, AnyMatch, revision}

Answer(r, s) == /\ phase' = [phase EXCEPT ![r] = "done"]
                /\ status' = [status EXCEPT ![r] = s]

(* First(&row): 404 for a row that is gone; a CardDAV PUT creates another
   contact under the same UID instead. *)
LoadMissing(r) ==
    /\ deleted
    /\ Answer(r, IF request'[r].verb = "davput" THEN "created" ELSE "notFound")
    /\ UNCHANGED base

(* checkIfMatch: a stale precondition is refused before the row is touched. *)
LoadStale(r) ==
    /\ ~deleted
    /\ ~IfMatchSatisfied(request'[r], content.revision)
    /\ Answer(r, "preconditionFailed")
    /\ UNCHANGED base

LoadCurrent(r) ==
    /\ ~deleted
    /\ IfMatchSatisfied(request'[r], content.revision)
    /\ phase' = [phase EXCEPT ![r] = "loaded"]
    /\ base' = [base EXCEPT ![r] = content]
    /\ UNCHANGED status

(* The request arrives and its handler loads the row. *)
Load(r) ==
    /\ phase[r] = "read"
    /\ \E v \in Verbs, im \in {NoMatch, AnyMatch, seen[r].revision} :
            request' = [request EXCEPT ![r] = [verb |-> v, ifMatch |-> im]]
    /\ LoadMissing(r) \/ LoadStale(r) \/ LoadCurrent(r)
    /\ UNCHANGED <<content, deleted, seen>>

(* Mutant: the bump of ADR 0006, "revision = ?" missing from its WHERE. *)
CASWithoutRevision(r) == ~deleted

(* The WHERE clause of bumpRevisionCAS. *)
CASMatches(r) == content.revision = base[r].revision /\ ~deleted

(* The columns Save writes: a PUT the client's body and the flags as they
   were loaded, a toggle the client's flag and all else as it was loaded. *)
SavedOver(r, copy) ==
    LET next(b, m) == [revision |-> base[r].revision + 1, body |-> b, mark |-> m]
    IN  IF request[r].verb = "toggle"
        THEN {next(base[r].body, m) : m \in Marks}
        ELSE {next(b, copy.mark) : b \in Bodies}

(* Mutant: a PUT writes the flags of the client's copy too. *)
SavedFromClientCopy(r) == SavedOver(r, seen[r])

Saved(r) == SavedOver(r, base[r])

Save(r) ==
    /\ phase[r] = "loaded"
    /\ request[r].verb \in Writers
    /\ CASMatches(r)
    /\ content' \in Saved(r)
    /\ Answer(r, "ok")
    /\ UNCHANGED <<deleted, request, seen, base>>

(* handleRevisionConflict, on the handlers that call it; the others answer
   with a generic error. *)
ConflictStatus(r) ==
    IF request[r].verb # "put" THEN "error"
    ELSE IF deleted THEN "notFound" ELSE "preconditionFailed"

(* bumpRevisionCAS matches no row: AfterSave returns ErrRevisionConflict and
   the whole transaction, the primary UPDATE included, is rolled back. *)
SaveConflict(r) ==
    /\ phase[r] = "loaded"
    /\ request[r].verb \in Writers
    /\ ~CASMatches(r)
    /\ Answer(r, ConflictStatus(r))
    /\ UNCHANGED <<content, deleted, request, seen, base>>

(* db.Delete(&row): UPDATE ... SET deleted_at WHERE deleted_at IS NULL.  No
   revision in its WHERE clause, and no error when it matches no row. *)
Delete(r) ==
    /\ phase[r] = "loaded"
    /\ request[r].verb \in {"delete", "davdelete"}
    /\ deleted' = TRUE
    /\ Answer(r, "ok")
    /\ UNCHANGED <<content, request, seen, base>>

(* The server process dies: requests between load and commit leave no trace.
   A committed one stays committed, answered or not. *)
Crash == /\ \E r \in Requests : phase[r] = "loaded"
         /\ phase' = [r \in Requests |->
                        IF phase[r] = "loaded" THEN "done" ELSE phase[r]]
         /\ status' = [r \in Requests |->
                        IF phase[r] = "loaded" THEN "lost" ELSE status[r]]
         /\ UNCHANGED <<content, deleted, request, seen, base>>

Next == \/ \E r \in Requests : \/ Get(r) \/ Load(r) \/ Save(r)
                               \/ SaveConflict(r) \/ Delete(r)
        \/ Crash

Spec == Init /\ [][Next]_vars

-----------------------------------------------------------------------------
WriteCommits(r) == /\ phase[r] = "loaded"
                   /\ request[r].verb \in Writers
                   /\ phase'[r] = "done"
                   /\ status'[r] = "ok"

(* A revision number is a strong validator: a client that holds the row's
   current revision holds the row's current columns, whatever was written in
   between (the token of ADR 0006, AfterSave of the five models). *)
StrongValidator ==
    \A r \in Requests : /\ seen[r].revision <= content.revision
                        /\ seen[r].revision = content.revision => seen[r] = content

(* A write that is acknowledged replaced exactly the row its handler had
   loaded, so it cannot drop an edit committed in between (issue #924). *)
NoLostUpdate == [][\A r \in Requests : WriteCommits(r) => base[r] = content]_vars

Commits(r) == phase[r] = "loaded" /\ phase'[r] = "done" /\ status'[r] = "ok"

(* The request names the revision its client has read, and its handler looks. *)
IsConditional(r) == request[r].verb \in Conditional /\ request[r].ifMatch \in Nat

(* A request sent with the revision its client had read, a deletion included,
   takes effect only if its handler loaded what that client read.  A write
   commits only over that very row.  A deletion is promised no more: it may
   take with it what was written after its handler's load (ADR 0018, 5). *)
IfMatchHonoured ==
    [][\A r \in Requests :
          Commits(r) /\ IsConditional(r) =>
             /\ seen[r] = base[r]
             /\ request[r].verb \in Writers => base[r] = content]_vars

(* What ADR 0008 (section 4 and Consequences) says of both: whoever wrote the
   row in between, the request is refused, for a stale delete is a lost update
   too.  It does not hold: DELETE has no revision in its WHERE clause. *)
StaleDeleteRefused ==
    [][\A r \in Requests :
          Commits(r) /\ IsConditional(r) => seen[r] = content]_vars

(* A tombstone is final: no save that loaded the row before its deletion
   brings it back or alters it (issue #920). *)
NoResurrection == [][deleted => deleted' /\ content' = content]_vars

Acknowledged == {r \in Requests : status[r] = "ok" /\ request[r].verb \in Writers}

(* Each write that succeeded took a revision of its own and no refused or lost
   one took any: the counter is one more than the writes that succeeded. *)
EveryAckHasItsRevision == content.revision = 1 + Cardinality(Acknowledged)

(* A refusal tells the client the truth about the row: 404 only of a row
   that is gone, 412 only when someone wrote the row after this client read
   it. *)
RefusalsAreTrue ==
    \A r \in Requests :
        /\ status[r] = "notFound" => deleted
        /\ status[r] = "preconditionFailed" => content.revision > seen[r].revision

(* The row behaves as one whose edits, toggles and deletions are atomic. *)
Atomic == INSTANCE AtomicRow WITH revision <- content.revision,
                                 body <- content.body,
                                 mark <- content.mark,
                                 live <- ~deleted
AtomicSpec == Atomic!Spec
=============================================================================
