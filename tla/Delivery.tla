------------------------------- MODULE Delivery -------------------------------
(***************************************************************************)
(* What the deliveries of a webhook promise its owner: an event is posted,  *)
(* and after a transient failure it waits and is posted again, at most      *)
(* MaxAttempts times, one attempt after the other; a final answer is the    *)
(* last of it.  There are no goroutines, rows or jobs at this level: what   *)
(* can go wrong with those is that an event is lost, and then it says so.   *)
(***************************************************************************)
EXTENDS Naturals

CONSTANTS Events, MaxAttempts

VARIABLES
    begun,      \* events whose delivery has begun, or will not be
    posting,    \* events that are being posted
    waiting,    \* events that are to be posted again
    attempt,    \* the latest attempt of each event
    posts,      \* how often each event was posted
    settled,    \* an answer came that no retry can change
    lost        \* the event may be given up before its attempts are

state == <<begun, posting, waiting, attempt, posts, settled, lost>>

Init == /\ begun = {} /\ posting = {} /\ waiting = {}
        /\ attempt = [e \in Events |-> 0]
        /\ posts = [e \in Events |-> 0]
        /\ settled = [e \in Events |-> FALSE]
        /\ lost = [e \in Events |-> FALSE]

Begin(e) == /\ e \notin begun
            /\ begun' = begun \cup {e}
            /\ posting' = posting \cup {e}
            /\ attempt' = [attempt EXCEPT ![e] = 1]
            /\ UNCHANGED <<waiting, posts, settled, lost>>

(* Nobody listens. *)
Dismiss(e) == /\ e \notin begun
              /\ begun' = begun \cup {e}
              /\ UNCHANGED <<posting, waiting, attempt, posts, settled, lost>>

Posted(e) == posts' = [posts EXCEPT ![e] = @ + 1]

(* The answer is final, or the URL is one that may not be posted to. *)
Settle(e) == /\ e \in posting
             /\ posting' = posting \ {e}
             /\ Posted(e) \/ UNCHANGED posts
             /\ settled' = [settled EXCEPT ![e] = TRUE]
             /\ UNCHANGED <<begun, waiting, attempt, lost>>

(* A transient failure is followed by another attempt, if there is one left. *)
Fail(e) == /\ e \in posting
           /\ posting' = posting \ {e}
           /\ waiting' = IF attempt[e] < MaxAttempts THEN waiting \cup {e} ELSE waiting
           /\ Posted(e)
           /\ UNCHANGED <<begun, attempt, settled, lost>>

Retry(e) == /\ e \in waiting
            /\ waiting' = waiting \ {e}
            /\ posting' = posting \cup {e}
            /\ attempt' = [attempt EXCEPT ![e] = @ + 1]
            /\ UNCHANGED <<begun, posts, settled, lost>>

(* Events are lost, and the delivery of some of them ends here. *)
Lose(losing, ended) == /\ ended \subseteq losing
                       /\ lost' = [e \in Events |-> lost[e] \/ e \in losing]
                       /\ begun' = begun \cup ended
                       /\ posting' = posting \ ended
                       /\ waiting' = waiting \ ended
                       /\ UNCHANGED <<attempt, posts, settled>>

Next == \/ \E e \in Events : Begin(e) \/ Dismiss(e) \/ Settle(e) \/ Fail(e) \/ Retry(e)
        \/ \E losing, ended \in SUBSET Events : Lose(losing, ended)

Spec == Init /\ [][Next]_state
=============================================================================
