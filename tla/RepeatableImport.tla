--------------------------- MODULE RepeatableImport ---------------------------
(***************************************************************************)
(* What an import promises to a client that may repeat its confirmation:    *)
(* it lands once, whoever asks afterwards hears its result, a refusal means *)
(* that nothing has landed, and "not found" that its time is over.  A share  *)
(* reads accepted only through an import made for it.  There are no         *)
(* sessions, locks or remembered results at this level.                     *)
(***************************************************************************)
EXTENDS Naturals

CONSTANTS Ids, Shares, NoShare, Requests

VARIABLES
    offered,    \* imports a client may ask for
    purpose,    \* the share each is for
    over,       \* imports whose time is over
    imports,    \* how often each has landed
    asking,     \* requests that ask for an import
    about,      \* the import a request asks for, or heard the result of
    answer,     \* what each request heard last
    accepted    \* shares that read accepted

repeatable == <<offered, purpose, over, imports, asking, about, answer, accepted>>

Init == /\ offered = {} /\ over = {} /\ asking = {} /\ accepted = {}
        /\ purpose = [i \in Ids |-> NoShare]
        /\ imports = [i \in Ids |-> 0]
        /\ about = [r \in Requests |-> {}]
        /\ answer = [r \in Requests |-> "none"]

Offer(i, h) == /\ i \notin offered
               /\ offered' = offered \cup {i}
               /\ purpose' = [purpose EXCEPT ![i] = h]
               /\ UNCHANGED <<over, imports, asking, about, answer, accepted>>

Ask(r, i) == /\ r \notin asking
             /\ i \in offered
             /\ asking' = asking \cup {r}
             /\ about' = [about EXCEPT ![r] = {i}]
             /\ answer' = [answer EXCEPT ![r] = "none"]
             /\ UNCHANGED <<offered, purpose, over, imports, accepted>>

(* A request that asks for no import does something else. *)
Turn(r, what) == /\ r \notin asking
                 /\ what \in {"none", "refused"}
                 /\ about' = [about EXCEPT ![r] = {}]
                 /\ answer' = [answer EXCEPT ![r] = what]
                 /\ UNCHANGED <<offered, purpose, over, imports, asking, accepted>>

Land(r, i) == /\ r \in asking /\ about[r] = {i}
              /\ imports[i] = 0
              /\ imports' = [imports EXCEPT ![i] = 1]
              /\ UNCHANGED <<offered, purpose, over, asking, about, answer, accepted>>

-----------------------------------------------------------------------------
(* The answers. *)

Tell(r, i, what) == /\ r \in asking /\ about[r] = {i}
                    /\ asking' = asking \ {r}
                    /\ answer' = [answer EXCEPT ![r] = what]
                    /\ UNCHANGED <<offered, purpose, over, imports>>

Hear(r, i) == /\ Tell(r, i, "result")
              /\ imports[i] = 1
              /\ accepted' \in {accepted, accepted \cup ({purpose[i]} \cap Shares)}
              /\ UNCHANGED about

Refuse(r, i) == /\ Tell(r, i, "refused")
                /\ imports[i] = 0
                /\ about' = [about EXCEPT ![r] = {}]
                /\ UNCHANGED accepted

Miss(r, i) == /\ Tell(r, i, "notFound")
              /\ i \in over
              /\ about' = [about EXCEPT ![r] = {}]
              /\ UNCHANGED accepted

-----------------------------------------------------------------------------
(* A share is declined or purged. *)
Withdraw(h) == /\ accepted' = accepted \ {h}
               /\ UNCHANGED <<offered, purpose, over, imports, asking, about, answer>>

Pass(i) == /\ i \in offered
           /\ over' = over \cup {i}
           /\ UNCHANGED <<offered, purpose, imports, asking, about, answer, accepted>>

(* The server starts again, and knows of no import any more. *)
Restart == /\ over' = over \cup offered
           /\ asking' = {}
           /\ about' = [r \in Requests |-> {}]
           /\ answer' = [r \in Requests |-> "none"]
           /\ UNCHANGED <<offered, purpose, imports, accepted>>

Next == \/ \E i \in Ids, h \in Shares \cup {NoShare} : Offer(i, h)
        \/ \E r \in Requests : \/ \E what \in {"none", "refused"} : Turn(r, what)
                               \/ \E i \in Ids : \/ Ask(r, i) \/ Land(r, i) \/ Hear(r, i)
                                                 \/ Refuse(r, i) \/ Miss(r, i)
        \/ \E h \in Shares : Withdraw(h)
        \/ \E i \in Ids : Pass(i)
        \/ Restart

Spec == Init /\ [][Next]_repeatable
=============================================================================
