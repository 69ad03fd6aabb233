----------------------------- MODULE KeyedRequest -----------------------------
(***************************************************************************)
(* What an idempotency key promises (ADR 0010): the requests that carry it  *)
(* are one operation.  The key admits one of them at a time, and none while *)
(* it is held or its outcome is known.  There is no table at this level, no *)
(* claim that is lost and no clock: the others are refused, or hear again   *)
(* what the one that was admitted had been told.                           *)
(*                                                                         *)
(* The promise has limits, and they are actions of their own: an outcome    *)
(* that cannot be kept gives the key back, and a key that nobody works      *)
(* under may be forgotten.                                                 *)
(***************************************************************************)
EXTENDS Naturals

CONSTANTS Requests

VARIABLES
    operation,   \* what each request asks for
    holder,      \* the request that holds the key: nobody or one
    known,       \* the outcome of the holder is kept
    running,     \* the requests whose operation is under way
    over,        \* the requests that are answered, or never will be
    effects,     \* the requests that have had their effect
    reply,       \* what each request was told
    origin       \* whose outcome it was told, if it heard one again

keyed == <<operation, holder, known, running, over, effects, reply, origin>>

Init == /\ holder = {} /\ known = FALSE
        /\ running = {} /\ over = {} /\ effects = {}
        /\ reply = [r \in Requests |-> "none"]
        /\ origin = [r \in Requests |-> r]

Tell(r, what) == /\ reply[r] = "none"
                 /\ reply' = [reply EXCEPT ![r] = what]

Close(r) == /\ over' = over \cup {r}
            /\ running' = running \ {r}

-----------------------------------------------------------------------------
(* The request that gets the key. *)

Admit(r) == /\ holder = {} /\ running = {}
            /\ r \notin over /\ reply[r] = "none"
            /\ holder' = {r} /\ running' = {r}
            /\ UNCHANGED <<operation, known, over, effects, reply, origin>>

Act(r) == /\ r \in running \ effects
          /\ reply[r] = "none"
          /\ effects' = effects \cup {r}
          /\ UNCHANGED <<operation, holder, known, running, over, reply, origin>>

(* A success reports an effect; a failure may follow one. *)
Answer(r) == /\ r \in running
             /\ \/ Tell(r, "failed")
                \/ r \in effects /\ \E what \in {"created", "large"} : Tell(r, what)
             /\ UNCHANGED <<operation, holder, known, running, over, effects, origin>>

(* A success that can be kept is kept; any other outcome frees the key. *)
Keep(r) == /\ r \in running /\ holder = {r} /\ reply[r] = "created"
           /\ known' = TRUE
           /\ Close(r)
           /\ UNCHANGED <<operation, holder, effects, reply, origin>>

Release(r) == /\ r \in running /\ holder = {r} /\ reply[r] \in {"large", "failed"}
              /\ holder' = {}
              /\ Close(r)
              /\ UNCHANGED <<operation, known, effects, reply, origin>>

(* The request ends and its outcome stays unknown: the key is held by nobody
   who could free it. *)
Leave(r) == /\ r \in running
            /\ \/ reply[r] # "none" /\ UNCHANGED reply
               \/ Tell(r, "panicked")
            /\ Close(r)
            /\ UNCHANGED <<operation, holder, known, effects, origin>>

-----------------------------------------------------------------------------
(* The others. *)

Refuse(r) == /\ r \notin over \cup running
             /\ Tell(r, "refused")
             /\ Close(r)
             /\ UNCHANGED <<operation, holder, known, effects, origin>>

Repeat(r) == /\ r \notin over \cup running
             /\ known
             /\ \E h \in holder : /\ operation[h] = operation[r]
                                  /\ origin' = [origin EXCEPT ![r] = h]
             /\ Tell(r, "again")
             /\ Close(r)
             /\ UNCHANGED <<operation, holder, known, effects>>

-----------------------------------------------------------------------------
(* The server dies, with all that runs. *)
Die == /\ running' = {}
       /\ \E lost \in SUBSET Requests : /\ running \subseteq lost
                                        /\ over' = over \cup lost
       /\ UNCHANGED <<operation, holder, known, effects, reply, origin>>

Forget == /\ running = {}
          /\ holder' = {} /\ known' = FALSE
          /\ UNCHANGED <<operation, running, over, effects, reply, origin>>

Next == \/ \E r \in Requests : \/ Admit(r) \/ Act(r) \/ Answer(r) \/ Keep(r) \/ Release(r)
                               \/ Leave(r) \/ Refuse(r) \/ Repeat(r)
        \/ Die \/ Forget

Spec == Init /\ [][Next]_keyed
=============================================================================
