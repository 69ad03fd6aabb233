------------------------------- MODULE Webhooks -------------------------------
(***************************************************************************)
(* The deliveries of one webhook: an event is posted by a goroutine of its  *)
(* own, each attempt leaves a row in webhook_deliveries, and a job posts    *)
(* again what failed for a transient reason.                               *)
(*                                                                         *)
(* The goroutines of a server live in its memory only.  Each database       *)
(* statement is a transaction of its own.  One run of ProcessWebhookRetries *)
(* is at work at a time: its job lock (module JobLock) excludes the others, *)
(* since a run only issues short statements and outlives no lock.           *)
(***************************************************************************)
EXTENDS Naturals

CONSTANTS
    Events,        \* what happened to the user's data, or a test delivery
    MaxAttempts    \* maxDeliveryAttempts

ASSUME AttemptsAssumption == MaxAttempts \in Nat \ {0}

VARIABLES
    webhook,    \* the webhook's row: active, switched off, soft-deleted
    editing,    \* an UpdateWebhook has loaded it and not saved it yet
    chain,      \* the goroutine of each event, and its attempt
    delivery,   \* what each row schedules
    batch,      \* the rows the retry job has loaded and not come to yet
    \* history
    sent,       \* how often each event was posted
    settled,    \* an answer came that ends the event's deliveries
    lost        \* the event was dropped: for the ways see NoRetryForgotten

vars == <<webhook, editing, chain, delivery, batch, sent, settled, lost>>

Attempts == 1 .. MaxAttempts
Deliveries == Events \X Attempts

Phases == {"unborn", "triggering", "posting", "answered", "over"}

(* A 2xx; a status no retry can change; a transient failure; a URL that
   resolves to a private address, or not at all. *)
Answers == {"ok", "refused", "failed", "blocked"}

Chains == [phase : Phases, attempt : 0 .. MaxAttempts, answer : Answers \cup {"none"}]

TypeOK == /\ webhook \in {"active", "inactive", "deleted"}
          /\ editing \in BOOLEAN
          /\ chain \in [Events -> Chains]
          /\ delivery \in [Deliveries -> {"none", "waiting", "due", "final"}]
          /\ batch \subseteq Deliveries
          /\ sent \in [Events -> Nat]
          /\ settled \in [Events -> BOOLEAN] /\ lost \in [Events -> BOOLEAN]

Init == /\ webhook = "active" /\ editing = FALSE
        /\ chain = [e \in Events |-> [phase |-> "unborn", attempt |-> 0, answer |-> "none"]]
        /\ delivery = [d \in Deliveries |-> "none"]
        /\ batch = {}
        /\ sent = [e \in Events |-> 0]
        /\ settled = [e \in Events |-> FALSE] /\ lost = [e \in Events |-> FALSE]

Working(e) == chain[e].phase \in {"triggering", "posting", "answered"}

(* next_retry_at is not NULL. *)
Pending(d) == delivery[d] \in {"waiting", "due"}

Over(c) == [c EXCEPT !.phase = "over", !.answer = "none"]
Posting(c, k) == [c EXCEPT !.phase = "posting", !.attempt = k]

-----------------------------------------------------------------------------
(* A handler commits and calls TriggerWebhooksAsync ... *)
Happen(e) == /\ chain[e].phase = "unborn"
             /\ chain' = [chain EXCEPT ![e].phase = "triggering"]
             /\ UNCHANGED <<webhook, editing, delivery, batch, sent, settled, lost>>

(* ... which starts a delivery for each webhook that is active, unless the
   query for them fails. *)
Trigger(e) == /\ chain[e].phase = "triggering"
              /\ \/ /\ webhook = "active"
                    /\ chain' = [chain EXCEPT ![e] = Posting(@, 1)]
                 \/ chain' = [chain EXCEPT ![e] = Over(@)]
              /\ UNCHANGED <<webhook, editing, delivery, batch, sent, settled, lost>>

(* TestWebhookDelivery posts to a webhook that is switched off, too. *)
Test(e) == /\ chain[e].phase = "unborn"
           /\ webhook # "deleted"
           /\ chain' = [chain EXCEPT ![e] = Posting(@, 1)]
           /\ UNCHANGED <<webhook, editing, delivery, batch, sent, settled, lost>>

(* DispositionForHTTPStatus, and the paths without a status. *)
Retryable(answer) == answer = "failed"

(* deliverWebhook, up to the answer.  A URL that is blocked is not posted to,
   and a transient failure may come before or after the receiver was reached. *)
Post(e) ==
    /\ chain[e].phase = "posting"
    /\ \E answer \in Answers :
         /\ chain' = [chain EXCEPT ![e].phase = "answered", ![e].answer = answer]
         /\ sent' = IF answer = "blocked" THEN sent ELSE [sent EXCEPT ![e] = @ + 1]
         /\ settled' = [settled EXCEPT ![e] = answer # "failed"]
    /\ UNCHANGED <<webhook, editing, delivery, batch, lost>>

(* Mutant: the last attempt is given away. *)
HasOneToSpare(k) == k + 1 < MaxAttempts

HasAttemptsLeft(k) == k < MaxAttempts

(* retryAt: will the answer to attempt k be followed by another one? *)
IsRetried(answer, k) == Retryable(answer) /\ HasAttemptsLeft(k)

(* saveDelivery: the row of the attempt is created, with next_retry_at if there
   is to be another one.  An error of the INSERT is logged, and no more. *)
SaveDelivery(e) ==
    LET k == chain[e].attempt
        retried == IsRetried(chain[e].answer, k)
    IN  /\ chain[e].phase = "answered"
        /\ chain' = [chain EXCEPT ![e] = Over(@)]
        /\ \/ /\ delivery' = [delivery EXCEPT ![<<e, k>>] =
                                IF retried THEN "waiting" ELSE "final"]
              /\ UNCHANGED lost
           \/ /\ lost' = [lost EXCEPT ![e] = @ \/ retried]
              /\ UNCHANGED delivery
        /\ UNCHANGED <<webhook, editing, batch, sent, settled>>

-----------------------------------------------------------------------------
(* ProcessWebhookRetries *)

(* The back-off is over. *)
ComeDue(d) == /\ delivery[d] = "waiting"
              /\ delivery' = [delivery EXCEPT ![d] = "due"]
              /\ UNCHANGED <<webhook, editing, chain, batch, sent, settled, lost>>

(* Mutant: the bound of the query is off by one. *)
IsDueEarly(d) == delivery[d] = "due" /\ d[2] + 1 < MaxAttempts

(* next_retry_at <= now AND attempts < maxDeliveryAttempts *)
IsDue(d) == delivery[d] = "due" /\ d[2] < MaxAttempts

LoadDue == /\ batch = {}
           /\ \E d \in Deliveries : IsDue(d)
           /\ batch' = {d \in Deliveries : IsDue(d)}
           /\ UNCHANGED <<webhook, editing, chain, delivery, sent, settled, lost>>

(* Mutant: a time is written where NULL is meant. *)
ClearedToNow(d) == delivery[d]

(* Update("next_retry_at", nil): no row matches when it was purged meanwhile. *)
Cleared(d) == IF Pending(d) THEN "final" ELSE delivery[d]

(* Mutant: the retry is posted under the number of the attempt that failed. *)
FailedAttempt(d) == d[2]

NextAttempt(d) == d[2] + 1

(* The retry is taken off its row and handed to a goroutine that replays the
   payload.  The webhook is looked up one statement earlier. *)
StartRetry(d) ==
    /\ d \in batch
    /\ webhook = "active"
    /\ batch' = batch \ {d}
    /\ delivery' = [delivery EXCEPT ![d] = Cleared(d)]
    /\ chain' = [chain EXCEPT ![d[1]] = Posting(@, NextAttempt(d))]
    /\ UNCHANGED <<webhook, editing, sent, settled, lost>>

(* The webhook is gone or switched off, or its lookup fails: any error of the
   query ends the deliveries of the event. *)
DropRetry(d) ==
    /\ d \in batch
    /\ batch' = batch \ {d}
    /\ delivery' = [delivery EXCEPT ![d] = Cleared(d)]
    /\ lost' = [lost EXCEPT ![d[1]] = TRUE]
    /\ UNCHANGED <<webhook, editing, chain, sent, settled>>

(* The UPDATE fails: the row keeps its time and is loaded again. *)
SkipRetry(d) == /\ d \in batch
                /\ batch' = batch \ {d}
                /\ UNCHANGED <<webhook, editing, chain, delivery, sent, settled, lost>>

-----------------------------------------------------------------------------
(* PurgeExpiredWebhookDeliveries deletes rows by age alone.  A Retry-After may
   schedule a retry beyond the retention window. *)
Purge(d) == /\ delivery[d] # "none"
            /\ delivery' = [delivery EXCEPT ![d] = "none"]
            /\ lost' = [lost EXCEPT ![d[1]] = @ \/ Pending(d)]
            /\ UNCHANGED <<webhook, editing, chain, batch, sent, settled>>

(* A server process dies with some of the goroutines, or with the retry job. *)
Crash == /\ \E dead \in SUBSET {e \in Events : Working(e)} :
              /\ chain' = [e \in Events |-> IF e \in dead THEN Over(chain[e]) ELSE chain[e]]
              /\ lost' = [e \in Events |-> lost[e] \/ e \in dead]
         /\ batch' \in {batch, {}}
         /\ batch' # batch \/ chain' # chain
         /\ UNCHANGED <<webhook, editing, delivery, sent, settled>>

(* UpdateWebhook finds the webhook and saves the copy; GORM's Save inserts it
   when it was deleted in between. *)
LoadWebhook == /\ webhook # "deleted" /\ ~editing
               /\ editing' = TRUE
               /\ UNCHANGED <<webhook, chain, delivery, batch, sent, settled, lost>>

SaveWebhook == /\ editing
               /\ editing' = FALSE
               /\ webhook' \in {"active", "inactive"}
               /\ UNCHANGED <<chain, delivery, batch, sent, settled, lost>>

DeleteWebhook == /\ webhook # "deleted"
                 /\ webhook' = "deleted"
                 /\ UNCHANGED <<editing, chain, delivery, batch, sent, settled, lost>>

Next == \/ \E e \in Events : Happen(e) \/ Trigger(e) \/ Test(e) \/ Post(e) \/ SaveDelivery(e)
        \/ \E d \in Deliveries : \/ ComeDue(d) \/ StartRetry(d) \/ DropRetry(d)
                                 \/ SkipRetry(d) \/ Purge(d)
        \/ LoadDue \/ Crash
        \/ LoadWebhook \/ SaveWebhook \/ DeleteWebhook

Spec == Init /\ [][Next]_vars

(* Goroutines run and posts time out, time passes, the job runs every five
   minutes, and an UPDATE that is tried again and again succeeds at last. *)
Fairness ==
    /\ \A e \in Events : WF_vars(Trigger(e) \/ Post(e) \/ SaveDelivery(e))
    /\ WF_vars(LoadDue)
    /\ \A d \in Deliveries : /\ WF_vars(ComeDue(d))
                             /\ SF_vars(StartRetry(d) \/ DropRetry(d))

FairSpec == Spec /\ Fairness

-----------------------------------------------------------------------------
(* An event has one delivery under way or scheduled at a time: a row with a
   retry, or one the job has in hand, is that of the latest attempt, and no
   goroutine is at work beside it. *)
OneChain ==
    \A d \in Deliveries : Pending(d) \/ d \in batch
        => ~Working(d[1]) /\ chain[d[1]].attempt = d[2]

(* No event is posted more often than the policy allows, whatever crashes and
   failing statements the retries go through. *)
AttemptsBounded == \A e \in Events : sent[e] <= MaxAttempts

(* A success, a permanent refusal or a blocked URL is the last word: the event
   is never posted again (issues #466 and #622). *)
SettledIsFinal == [][\A e \in Events : settled[e] => sent'[e] = sent[e]]_vars

OnItsWay(e) ==
    Working(e) \/ \E d \in Deliveries : d[1] = e /\ (Pending(d) \/ d \in batch)

(* A delivery that failed is retried until the attempts are used up, unless its
   goroutine died with the server, its row could not be written, the webhook
   was not found active, or the row was purged before its retry. *)
NoRetryForgotten ==
    \A e \in Events : chain[e].attempt > 0
        => OnItsWay(e) \/ settled[e] \/ lost[e] \/ chain[e].attempt = MaxAttempts

(* Each delivery comes to an end: no row waits for a retry that is never made. *)
ChainsEnd == \A e \in Events : OnItsWay(e) ~> ~OnItsWay(e)

Held(d) == Pending(d) \/ d \in batch

(* The goroutine has heard of a failure that its row will schedule a retry for,
   or a row does. *)
Awaits(e) == \/ chain[e].phase = "answered" /\ IsRetried(chain[e].answer, chain[e].attempt)
             \/ \E d \in Deliveries : d[1] = e /\ Held(d)

(* Goroutines, rows and the retry job deliver each event as one sequence of
   attempts, in which only what is lost is cut short (INT-03, issue #466). *)
Delivered == INSTANCE Delivery WITH
                begun <- {e \in Events : chain[e].phase \notin {"unborn", "triggering"}},
                posting <- {e \in Events : chain[e].phase = "posting"},
                waiting <- {e \in Events : Awaits(e)},
                attempt <- [e \in Events |-> chain[e].attempt],
                posts <- sent
DeliverySpec == Delivered!Spec
=============================================================================
