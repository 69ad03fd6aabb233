----------------------------- MODULE Idempotency -----------------------------
(***************************************************************************)
(* Keyed POSTs: IdempotencyMiddleware around the handler that creates an    *)
(* activity, for the attempts that carry ONE key of one user (rows of       *)
(* different keys never meet: every statement names the user and the key,   *)
(* or the id of the row).                                                  *)
(*                                                                         *)
(* Each database statement of the middleware and of the handler is a step  *)
(* of its own, none of them shares a transaction with another, and the     *)
(* response reaches the client before the outcome is stored.               *)
(***************************************************************************)
EXTENDS Naturals, FiniteSets

CONSTANTS
    Attempts,      \* the HTTP requests that carry the key
    Prints,        \* request fingerprints: method, route and body
    NoRow          \* no row in idempotency_keys

ASSUME NoRowAssumption == NoRow \notin [owner : Attempts, print : Prints,
                                        state : {"pending", "completed"}, old : BOOLEAN]

VARIABLES
    row,        \* the row of the key
    phase,      \* how far the server is with each attempt
    print,      \* the fingerprint of each attempt
    answer,     \* the response each attempt was sent
    source,     \* for a replay, the attempt whose response was stored
    effects,    \* the attempts whose handler committed an activity
    purged      \* a row has been purged by age

vars == <<row, phase, print, answer, source, effects, purged>>

KeyRows == [owner : Attempts, print : Prints,
            state : {"pending", "completed"}, old : BOOLEAN]

Phases == {"idle", "claiming", "reading", "running", "inserted", "answered", "done"}

Answers == {"none",        \* nothing sent
            "created",     \* 2xx, small enough to store
            "large",       \* 2xx, over maxCachedResponseBytes
            "failed",      \* any other status of the handler
            "panicked",    \* 500 from gin.Recovery
            "replayed", "keyReused", "inProgress", "databaseError"}

TypeOK == /\ row \in KeyRows \cup {NoRow}
          /\ phase \in [Attempts -> Phases]
          /\ print \in [Attempts -> Prints]
          /\ answer \in [Attempts -> Answers]
          /\ source \in [Attempts -> Attempts]
          /\ effects \subseteq Attempts
          /\ purged \in BOOLEAN

-----------------------------------------------------------------------------
Init == /\ row = NoRow
        /\ phase = [a \in Attempts |-> "idle"]
        /\ print \in [Attempts -> Prints]
        /\ answer = [a \in Attempts |-> "none"]
        /\ source = [a \in Attempts |-> a]
        /\ effects = {}
        /\ purged = FALSE

Goto(a, p) == phase' = [phase EXCEPT ![a] = p]

Reply(a, what) == answer' = [answer EXCEPT ![a] = what]

(* A keyed POST reaches the middleware. *)
Arrive(a) == /\ phase[a] = "idle"
             /\ Goto(a, "claiming")
             /\ UNCHANGED <<row, print, answer, source, effects, purged>>

(* Mutant: the claim is not an INSERT under the unique index but an upsert
   that takes over a row still pending. *)
FreeUnlessCompleted == row = NoRow \/ row.state = "pending"

(* No row conflicts on idx_idempotency_keys_user_key. *)
Free == row = NoRow

(* INSERT ... ON CONFLICT DO NOTHING. *)
Claim(a) ==
    /\ phase[a] = "claiming"
    /\ IF Free
       THEN /\ row' = [owner |-> a, print |-> print[a], state |-> "pending", old |-> FALSE]
            /\ Goto(a, "running")
       ELSE /\ Goto(a, "reading")
            /\ UNCHANGED row
    /\ UNCHANGED <<print, answer, source, effects, purged>>

(* Mutant: the stored response is served whatever was asked. *)
AnyRequest(a) == TRUE

SameRequest(a) == row.print = print[a]

(* The claim lost: First(&existing), by then possibly gone, decides. *)
ReadStored(a) ==
    /\ phase[a] = "reading"
    /\ Goto(a, "done")
    /\ \/ row = NoRow /\ Reply(a, "databaseError") /\ UNCHANGED source
       \/ /\ row # NoRow /\ ~SameRequest(a)
          /\ Reply(a, "keyReused") /\ UNCHANGED source
       \/ /\ row # NoRow /\ SameRequest(a) /\ row.state = "pending"
          /\ Reply(a, "inProgress") /\ UNCHANGED source
       \/ /\ row # NoRow /\ SameRequest(a) /\ row.state = "completed"
          /\ Reply(a, "replayed")
          /\ source' = [source EXCEPT ![a] = row.owner]
    /\ UNCHANGED <<row, print, effects, purged>>

(* CreateActivity, first half: the contacts are looked up, then the row is
   inserted and committed.  A missing contact or a database error answers
   before anything is written. *)
InsertActivity(a) ==
    /\ phase[a] = "running"
    /\ \/ Goto(a, "inserted") /\ effects' = effects \cup {a} /\ UNCHANGED answer
       \/ Goto(a, "answered") /\ Reply(a, "failed") /\ UNCHANGED effects
    /\ UNCHANGED <<row, print, source, purged>>

(* CreateActivity, second half: the participants are appended, outside any
   transaction with the insert, and the response is written. *)
AppendContacts(a) ==
    /\ phase[a] = "inserted"
    /\ \E outcome \in {"created", "large", "failed"} : Reply(a, outcome)
    /\ Goto(a, "answered")
    /\ UNCHANGED <<row, print, source, effects, purged>>

(* The handler panics: gin.Recovery, outside the middleware, answers 500 and
   the code after c.Next() does not run. *)
Panic(a) == /\ phase[a] \in {"running", "inserted"}
            /\ Goto(a, "done")
            /\ Reply(a, "panicked")
            /\ UNCHANGED <<row, print, source, effects, purged>>

(* Mutant: only status 200 counts as a success worth storing. *)
NothingCacheable(a) == FALSE

(* A 2xx whose body fits in maxCachedResponseBytes. *)
Cacheable(a) == answer[a] = "created"

Owns(a) == row # NoRow /\ row.owner = a

Completed(r) == [r EXCEPT !.state = "completed"]

(* What becomes of the row after the handler: completed or dropped, both by
   id, and left pending when the statement fails (logged, not answered). *)
Settle(a) ==
    /\ phase[a] = "answered"
    /\ Goto(a, "done")
    /\ \/ row' = IF ~Owns(a) THEN row
                 ELSE IF Cacheable(a) THEN Completed(row)
                 ELSE NoRow
       \/ UNCHANGED row
    /\ UNCHANGED <<print, answer, source, effects, purged>>

(* The server process dies and comes back; only the database survives. *)
Crash == /\ \E a \in Attempts : phase[a] \notin {"idle", "done"}
         /\ phase' = [a \in Attempts |-> IF phase[a] = "idle" THEN "idle" ELSE "done"]
         /\ UNCHANGED <<row, print, answer, source, effects, purged>>

(* created_at falls behind the retention window.  The window is hours, so the
   attempt that claimed the row is over by then. *)
Expire == /\ row # NoRow
          /\ phase[row.owner] = "done"
          /\ ~row.old
          /\ row' = [row EXCEPT !.old = TRUE]
          /\ UNCHANGED <<phase, print, answer, source, effects, purged>>

(* Mutant: only settled rows are purged. *)
PurgeableIfCompleted == row # NoRow /\ row.old /\ row.state = "completed"

(* DELETE ... WHERE created_at < cutoff, whatever the state. *)
Purgeable == row # NoRow /\ row.old

Purge == /\ Purgeable
         /\ row' = NoRow
         /\ purged' = TRUE
         /\ UNCHANGED <<phase, print, answer, source, effects>>

Next == \/ \E a \in Attempts : \/ Arrive(a) \/ Claim(a) \/ ReadStored(a)
                               \/ InsertActivity(a) \/ AppendContacts(a)
                               \/ Panic(a) \/ Settle(a)
        \/ Crash \/ Expire \/ Purge

(* The server runs what it accepted, time passes and the purge job runs every
   six hours; clients need not send anything. *)
Fairness == /\ \A a \in Attempts : WF_vars(Claim(a) \/ ReadStored(a) \/ InsertActivity(a)
                                             \/ AppendContacts(a) \/ Settle(a))
            /\ WF_vars(Expire)
            /\ WF_vars(Purge)

Spec == Init /\ [][Next]_vars

FairSpec == Spec /\ Fairness

-----------------------------------------------------------------------------
Working(a) == phase[a] \in {"running", "inserted", "answered"}

(* However many retries race, one at a time is past the claim, and the row is
   its own: ON CONFLICT DO NOTHING under the unique index is the only lock. *)
OneOwner == \A a \in Attempts : Working(a) => /\ Owns(a) /\ row.state = "pending"
                                              /\ \A b \in Attempts : Working(b) => a = b

(* A replay is the response of an attempt that did create an activity, for the
   very request that is being retried (ADR 0010, "Later caller, same key"). *)
ReplaysAreFaithful ==
    \A a \in Attempts : answer[a] = "replayed" =>
        /\ source[a] \in effects
        /\ answer[source[a]] = "created"
        /\ print[source[a]] = print[a]

(* The handler runs to effect at most once, as long as the retention window
   holds and every execution that committed something answered a cacheable
   2xx, panicked or died unanswered.  The conditions are where the promise of
   models/idempotency_key.go ends. *)
OneEffectWhileRemembered ==
    ~purged /\ (\A a \in effects : answer[a] \notin {"large", "failed"})
       => Cardinality(effects) <= 1

(* A key does not stay blocked: whatever happened to the attempt that claimed
   it, the row is completed, dropped or purged in the end. *)
PendingIsResolved ==
    (row # NoRow /\ row.state = "pending") ~> (row = NoRow \/ row.state = "completed")
(* The responses that tell a retry to come back, or to use another key. *)
Refusals == {"keyReused", "inProgress", "databaseError"}

Said(what) == IF what \in Refusals THEN "refused" ELSE IF what = "replayed" THEN "again" ELSE what

(* The attempts behave as requests that share a key, whatever the steps of
   middleware, handler, purge and clock (ADR 0010, "The one mechanism"): an
   attempt holds the key if the row is its own. *)
Keyed == INSTANCE KeyedRequest WITH
            Requests <- Attempts,
            operation <- print,
            holder <- {a \in Attempts : Owns(a)},
            known <- row # NoRow /\ row.state = "completed",
            running <- {a \in Attempts : Working(a)},
            over <- {a \in Attempts : phase[a] = "done"},
            reply <- [a \in Attempts |-> Said(answer[a])],
            origin <- source
KeyedSpec == Keyed!Spec
=============================================================================
