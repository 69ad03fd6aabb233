---------------------------- MODULE WebhooksProofs ----------------------------
(***************************************************************************)
(* Proofs about Webhooks, for any events and any number of attempts.        *)
(*                                                                         *)
(* OneChain is the heart: with it a retry that starts is the only one of    *)
(* its event, so that Paced ties the posts to the attempt.  It needs Paced  *)
(* in turn, since an event that begins has no row yet.  Heard and Decided   *)
(* carry a final answer from the goroutine that heard it to all rows.       *)
(***************************************************************************)
EXTENDS Webhooks, TLAPS

(* An event is posted at most once an attempt, and attempts start at one. *)
Paced == \A e \in Events :
            /\ sent[e] <= chain[e].attempt
            /\ chain[e].phase \in {"unborn", "triggering"} => chain[e].attempt = 0
            /\ chain[e].phase = "posting" => sent[e] < chain[e].attempt
            /\ chain[e].phase = "answered" => chain[e].attempt > 0

(* What an answer settles, and what is left to do once it has. *)
Heard == \A e \in Events :
            /\ chain[e].phase = "answered" => chain[e].answer \in Answers
            /\ chain[e].phase = "answered" /\ chain[e].answer # "failed" => settled[e]
            /\ settled[e] => chain[e].phase \in {"answered", "over"}
            /\ settled[e] /\ chain[e].phase = "answered" => chain[e].answer # "failed"

Decided == \A d \in Deliveries : settled[d[1]] => ~Held(d)

(* What the retry job has loaded may be retried, and still is to be, unless its
   row was purged. *)
InHand == \A d \in batch : d[2] < MaxAttempts /\ (Pending(d) \/ lost[d[1]])

IInv == TypeOK /\ OneChain /\ Paced /\ Heard /\ Decided /\ InHand /\ NoRetryForgotten
-----------------------------------------------------------------------------
(* A delivery is one of an event and of an attempt. *)
LEMMA DeliveryParts ==
    ASSUME NEW d \in Deliveries
    PROVE  d[1] \in Events /\ d[2] \in Attempts
BY DEF Deliveries

(* ... and is told by them. *)
LEMMA SameDelivery ==
    ASSUME NEW d \in Deliveries, NEW c \in Deliveries, c[1] = d[1], c[2] = d[2]
    PROVE  c = d
BY DEF Deliveries

(* Where a goroutine is, after it has started or ended. *)
LEMMA OverIsChain ==
    ASSUME NEW c \in Chains
    PROVE  Over(c) \in Chains /\ Over(c).phase = "over" /\ Over(c).attempt = c.attempt
BY DEF Over, Chains, Phases

LEMMA PostingIsChain ==
    ASSUME NEW c \in Chains, NEW k \in Attempts
    PROVE  Posting(c, k) \in Chains /\ Posting(c, k).phase = "posting" /\ Posting(c, k).attempt = k
<1>1. "posting" \in Phases /\ k \in 0 .. MaxAttempts
  BY AttemptsAssumption DEF Phases, Attempts
<1> QED
  BY <1>1 DEF Posting, Chains

-----------------------------------------------------------------------------
(* Nothing has begun. *)
LEMMA InitHolds == Init => IInv
<1> SUFFICES ASSUME Init PROVE IInv
  OBVIOUS
<1> USE DEF Init, Held, Pending, Working
<1>0. [phase |-> "unborn", attempt |-> 0, answer |-> "none"] \in Chains
  BY AttemptsAssumption DEF Chains, Phases
<1>1. TypeOK
  BY <1>0 DEF TypeOK
<1>2. OneChain /\ Decided /\ InHand
  BY DeliveryParts DEF OneChain, Decided, InHand
<1>3. Paced /\ Heard /\ NoRetryForgotten
  BY DEF Paced, Heard, NoRetryForgotten
<1> QED
  BY <1>1, <1>2, <1>3 DEF IInv

(* The goroutine of an event: a row can only be that of an earlier attempt. *)
LEMMA HappenKeeps == ASSUME IInv, NEW e \in Events, Happen(e) PROVE IInv'
<1> USE DEF Happen, Held, Pending, Working
<1>0. chain \in [Events -> Chains] /\ chain[e] \in Chains
  BY DEF IInv, TypeOK
<1>a. /\ chain[e].phase = "unborn" /\ chain'[e].phase = "triggering"
      /\ chain'[e].attempt = chain[e].attempt
  BY <1>0 DEF Chains, Phases, Answers
<1>b. chain' \in [Events -> Chains]
  BY <1>0 DEF Chains, Phases, Answers
<1>c. \A f \in Events : f # e => chain'[f] = chain[f]
  BY <1>0
<1>1. TypeOK'
  BY <1>0, <1>b DEF IInv, TypeOK
<1>2. OneChain'
  BY <1>a, <1>c, DeliveryParts DEF IInv, OneChain, TypeOK, Paced, Attempts
<1>3. Paced'
  BY <1>a, <1>c DEF IInv, Paced, TypeOK, Chains
<1>4. Heard'
  BY <1>a, <1>c DEF IInv, Heard, TypeOK
<1>5. Decided' /\ InHand'
  BY DeliveryParts DEF IInv, TypeOK, Decided, InHand, Heard, OneChain
<1>6. NoRetryForgotten'
  BY <1>a, <1>c, DeliveryParts DEF IInv, TypeOK, NoRetryForgotten, OnItsWay, Heard, InHand, Paced
<1> QED
  BY <1>1, <1>2, <1>3, <1>4, <1>5, <1>6 DEF IInv

(* The first attempt finds no row of the event. *)
LEMMA TriggerKeeps == ASSUME IInv, NEW e \in Events, Trigger(e) PROVE IInv'
<1> USE DEF Trigger, Held, Pending, Working
<1>0. chain \in [Events -> Chains] /\ chain[e] \in Chains
  BY DEF IInv, TypeOK
<1>a. /\ chain[e].phase = "triggering"
      /\ \/ chain'[e].phase = "posting" /\ chain'[e].attempt = 1
         \/ chain'[e].phase = "over" /\ chain'[e].attempt = chain[e].attempt
  BY <1>0, OverIsChain, PostingIsChain, AttemptsAssumption DEF Attempts
<1>b. chain' \in [Events -> Chains]
  BY <1>0, OverIsChain, PostingIsChain, AttemptsAssumption DEF Attempts
<1>c. \A f \in Events : f # e => chain'[f] = chain[f]
  BY <1>0
<1>1. TypeOK'
  BY <1>0, <1>b DEF IInv, TypeOK
<1>2. OneChain'
  BY <1>a, <1>c, DeliveryParts DEF IInv, OneChain, TypeOK, Paced, Attempts
<1>3. Paced'
  BY <1>a, <1>c DEF IInv, Paced, TypeOK, Chains
<1>4. Heard'
  BY <1>a, <1>c DEF IInv, Heard, TypeOK
<1>5. Decided' /\ InHand'
  BY DeliveryParts DEF IInv, TypeOK, Decided, InHand, Heard, OneChain
<1>6. NoRetryForgotten'
  BY <1>a, <1>c, DeliveryParts DEF IInv, TypeOK, NoRetryForgotten, OnItsWay, Heard, InHand, Paced
<1> QED
  BY <1>1, <1>2, <1>3, <1>4, <1>5, <1>6 DEF IInv

(* So does a test delivery. *)
LEMMA TestKeeps == ASSUME IInv, NEW e \in Events, Test(e) PROVE IInv'
<1> USE DEF Test, Held, Pending, Working
<1>0. chain \in [Events -> Chains] /\ chain[e] \in Chains
  BY DEF IInv, TypeOK
<1>a. /\ chain[e].phase = "unborn"
      /\ chain'[e].phase = "posting" /\ chain'[e].attempt = 1
  BY <1>0, PostingIsChain, AttemptsAssumption DEF Attempts
<1>b. chain' \in [Events -> Chains]
  BY <1>0, PostingIsChain, AttemptsAssumption DEF Attempts
<1>c. \A f \in Events : f # e => chain'[f] = chain[f]
  BY <1>0
<1>1. TypeOK'
  BY <1>0, <1>b DEF IInv, TypeOK
<1>2. OneChain'
  BY <1>a, <1>c, DeliveryParts DEF IInv, OneChain, TypeOK, Paced, Attempts
<1>3. Paced'
  BY <1>a, <1>c DEF IInv, Paced, TypeOK, Chains
<1>4. Heard'
  BY <1>a, <1>c DEF IInv, Heard, TypeOK
<1>5. Decided' /\ InHand'
  BY DeliveryParts DEF IInv, TypeOK, Decided, InHand, Heard, OneChain
<1>6. NoRetryForgotten'
  BY <1>a, <1>c, DeliveryParts DEF IInv, TypeOK, NoRetryForgotten, OnItsWay, Heard, InHand, Paced
<1> QED
  BY <1>1, <1>2, <1>3, <1>4, <1>5, <1>6 DEF IInv

(* An answer settles the event or leaves it to be retried. *)
LEMMA PostKeeps == ASSUME IInv, NEW e \in Events, Post(e) PROVE IInv'
<1> USE DEF Post, Held, Pending, Working
<1>0. chain \in [Events -> Chains] /\ chain[e] \in Chains
  BY DEF IInv, TypeOK
<1>1. PICK answer \in Answers :
          /\ chain' = [chain EXCEPT ![e] = [@ EXCEPT !.phase = "answered", !.answer = answer]]
          /\ settled' = [settled EXCEPT ![e] = answer # "failed"]
  BY <1>0
<1>2. [chain[e] EXCEPT !.phase = "answered", !.answer = answer] \in Chains
  BY <1>0 DEF Chains, Phases, Answers
<1>a. /\ chain[e].phase = "posting" /\ chain'[e].phase = "answered"
      /\ chain'[e].attempt = chain[e].attempt /\ chain'[e].answer \in Answers
      /\ settled' = [settled EXCEPT ![e] = chain'[e].answer # "failed"]
  BY <1>0, <1>1 DEF Chains
<1>b. chain' \in [Events -> Chains]
  BY <1>0, <1>1, <1>2
<1>c. \A f \in Events : f # e => chain'[f] = chain[f]
  BY <1>0
<1>3. TypeOK'
  BY <1>0, <1>b DEF IInv, TypeOK
<1>4. OneChain'
  <2> SUFFICES ASSUME NEW d \in Deliveries, Pending(d) \/ d \in batch
               PROVE  (~Working(d[1]) /\ chain[d[1]].attempt = d[2])'
    BY DEF OneChain
  <2>1. d[1] \in Events /\ ~Working(d[1]) /\ chain[d[1]].attempt = d[2]
    BY DeliveryParts DEF IInv, OneChain
  <2>2. d[1] # e
    BY <1>a, <2>1
  <2> QED BY <1>c, <2>1, <2>2
<1>5. Paced'
  BY <1>a, <1>c DEF IInv, Paced, TypeOK, Chains
<1>6. Heard'
  <2>1. settled \in [Events -> BOOLEAN] /\ Heard
    BY DEF IInv, TypeOK
  <2>2. \A f \in Events : f # e => settled'[f] = settled[f]
    BY <1>a, <2>1
  <2>3. settled'[e] = (chain'[e].answer # "failed")
    BY <1>a, <2>1
  <2> QED BY <1>a, <1>c, <2>1, <2>2, <2>3 DEF Heard
<1>7. Decided' /\ InHand'
  BY DeliveryParts DEF IInv, TypeOK, Decided, InHand, Heard, OneChain
<1>8. NoRetryForgotten'
  BY <1>a, <1>c, DeliveryParts DEF IInv, TypeOK, NoRetryForgotten, OnItsWay, Heard, InHand, Paced
<1> QED
  BY <1>3, <1>4, <1>5, <1>6, <1>7, <1>8 DEF IInv

(* The new row takes over from the goroutine, unless its INSERT fails. *)
LEMMA SaveDeliveryKeeps == ASSUME IInv, NEW e \in Events, SaveDelivery(e) PROVE IInv'
<1> USE DEF SaveDelivery, Held, Pending, Working, IsRetried, Retryable, HasAttemptsLeft
<1>0. chain \in [Events -> Chains] /\ chain[e] \in Chains
  BY DEF IInv, TypeOK
<1>a. /\ chain[e].phase = "answered" /\ chain'[e].phase = "over"
      /\ chain'[e].attempt = chain[e].attempt
  BY <1>0, OverIsChain
<1>b. chain' \in [Events -> Chains]
  BY <1>0, OverIsChain
<1>c. \A f \in Events : f # e => chain'[f] = chain[f]
  BY <1>0
<1>1. TypeOK'
  BY <1>0, <1>b DEF IInv, TypeOK
<1>2. OneChain'
  BY <1>a, <1>c, DeliveryParts DEF IInv, OneChain, TypeOK, Paced, Attempts
<1>3. Paced'
  BY <1>a, <1>c DEF IInv, Paced, TypeOK, Chains
<1>4. Heard'
  BY <1>a, <1>c DEF IInv, Heard, TypeOK
<1>5. Decided' /\ InHand'
  BY DeliveryParts DEF IInv, TypeOK, Decided, InHand, Heard, OneChain
<1>6. NoRetryForgotten'
  <2> DEFINE d == <<e, chain[e].attempt>>
  <2>1. d \in Deliveries /\ d[1] = e
    BY <1>0, <1>a DEF IInv, Paced, Chains, Deliveries, Attempts
  <2>2. OnItsWay(e)' \/ settled'[e] \/ lost'[e] \/ chain'[e].attempt = MaxAttempts
    <3>1. CASE chain[e].answer # "failed"
      BY <3>1, <1>a DEF IInv, Heard
    <3>2. CASE ~(chain[e].attempt < MaxAttempts)
      BY <3>2, <1>0, <1>a, AttemptsAssumption DEF Chains
    <3>3. CASE chain[e].answer = "failed" /\ chain[e].attempt < MaxAttempts
      <4>1. delivery'[d] = "waiting" \/ lost'[e]
        BY <3>3, <2>1 DEF IInv, TypeOK
      <4> QED
        BY <4>1, <2>1 DEF OnItsWay
    <3> QED
      BY <3>1, <3>2, <3>3
  <2>3. ASSUME NEW f \in Events, f # e, OnItsWay(f)
        PROVE  OnItsWay(f)' \/ lost'[f]
    <3>1. \A c \in Deliveries : c[1] = f => delivery'[c] = delivery[c]
      BY <2>1, <2>3 DEF IInv, TypeOK
    <3> QED
      BY <3>1, <2>3, <1>c DEF OnItsWay
  <2> QED
    BY <2>2, <2>3, <1>c DEF IInv, TypeOK, NoRetryForgotten
<1> QED
  BY <1>1, <1>2, <1>3, <1>4, <1>5, <1>6 DEF IInv

(* Time changes nothing but the time. *)
LEMMA ComeDueKeeps == ASSUME IInv, NEW d \in Deliveries, ComeDue(d) PROVE IInv'
<1> USE DEF ComeDue, Held, Pending, Working
<1>1. TypeOK'
  BY AttemptsAssumption DEF IInv, TypeOK, Chains, Phases, Answers
<1>2. OneChain'
  BY DeliveryParts DEF IInv, TypeOK, Chains, OneChain
<1>3. Paced' /\ Heard'
  BY DEF IInv, TypeOK, Chains, Paced, Heard, Answers
<1>4. Decided' /\ InHand'
  BY DeliveryParts DEF IInv, TypeOK, Chains, Decided, InHand, Heard, OneChain
<1>5. NoRetryForgotten'
  BY DeliveryParts DEF IInv, TypeOK, Chains, NoRetryForgotten, OnItsWay, Heard, InHand
<1> QED
  BY <1>1, <1>2, <1>3, <1>4, <1>5 DEF IInv

(* What is loaded was pending, and has attempts left. *)
LEMMA LoadDueKeeps == ASSUME IInv, LoadDue PROVE IInv'
<1> USE DEF LoadDue, Held, Pending, Working, IsDue
<1>1. TypeOK'
  BY AttemptsAssumption DEF IInv, TypeOK, Chains, Phases, Answers
<1>2. OneChain'
  BY DeliveryParts DEF IInv, TypeOK, Chains, OneChain
<1>3. Paced' /\ Heard'
  BY DEF IInv, TypeOK, Chains, Paced, Heard, Answers
<1>4. Decided' /\ InHand'
  BY DeliveryParts DEF IInv, TypeOK, Chains, Decided, InHand, Heard, OneChain
<1>5. NoRetryForgotten'
  BY DeliveryParts DEF IInv, TypeOK, Chains, NoRetryForgotten, OnItsWay, Heard, InHand
<1> QED
  BY <1>1, <1>2, <1>3, <1>4, <1>5 DEF IInv

(* The goroutine takes over from the row, which was the only one of its event. *)
LEMMA StartRetryKeeps == ASSUME IInv, NEW d \in Deliveries, StartRetry(d) PROVE IInv'
<1> USE DEF StartRetry, Held, Pending, Working, Cleared, NextAttempt
<1> DEFINE e == d[1]
<1>0. /\ chain \in [Events -> Chains] /\ e \in Events /\ chain[e] \in Chains
      /\ d[2] + 1 \in Attempts /\ d[2] \in Nat
  BY DeliveryParts, AttemptsAssumption DEF IInv, TypeOK, InHand, Attempts
<1>a. /\ ~Working(e) /\ chain[e].attempt = d[2]
      /\ chain'[e].phase = "posting" /\ chain'[e].attempt = d[2] + 1
  BY <1>0, PostingIsChain DEF IInv, OneChain
<1>b. chain' \in [Events -> Chains]
  BY <1>0, PostingIsChain
<1>c. \A f \in Events : f # e => chain'[f] = chain[f]
  BY <1>0
<1>d. \A c \in Deliveries : Held(c)' => Held(c) /\ c[1] # e
  BY <1>a, SameDelivery DEF IInv, TypeOK, OneChain
<1>e. ~settled[e]
  BY DEF IInv, Decided
<1>1. TypeOK'
  BY <1>b DEF IInv, TypeOK
<1>2. OneChain'
  BY <1>c, <1>d, DeliveryParts DEF IInv, OneChain
<1>3. Paced'
  BY <1>0, <1>a, <1>c DEF IInv, Paced, TypeOK, Chains
<1>4. Heard'
  BY <1>a, <1>c, <1>e DEF IInv, Heard
<1>5. Decided'
  BY <1>d DEF IInv, Decided
<1>6. InHand'
  BY SameDelivery DEF IInv, TypeOK, InHand
<1>7. NoRetryForgotten'
  BY <1>a, <1>c, SameDelivery DEF IInv, TypeOK, NoRetryForgotten, OnItsWay
<1> QED
  BY <1>1, <1>2, <1>3, <1>4, <1>5, <1>6, <1>7 DEF IInv

(* A retry that is given up is counted as lost. *)
LEMMA DropRetryKeeps == ASSUME IInv, NEW d \in Deliveries, DropRetry(d) PROVE IInv'
<1> USE DEF DropRetry, Held, Pending, Working, Cleared
<1>1. TypeOK'
  BY AttemptsAssumption DEF IInv, TypeOK, Chains, Phases, Answers
<1>2. OneChain'
  BY DeliveryParts DEF IInv, TypeOK, Chains, OneChain
<1>3. Paced' /\ Heard'
  BY DEF IInv, TypeOK, Chains, Paced, Heard, Answers
<1>4. Decided' /\ InHand'
  BY DeliveryParts DEF IInv, TypeOK, Chains, Decided, InHand, Heard, OneChain
<1>5. NoRetryForgotten'
  BY DeliveryParts DEF IInv, TypeOK, Chains, NoRetryForgotten, OnItsWay, Heard, InHand
<1> QED
  BY <1>1, <1>2, <1>3, <1>4, <1>5 DEF IInv

(* A retry that is skipped is still on its row, unless the row was purged. *)
LEMMA SkipRetryKeeps == ASSUME IInv, NEW d \in Deliveries, SkipRetry(d) PROVE IInv'
<1> USE DEF SkipRetry, Held, Pending, Working
<1>1. TypeOK'
  BY AttemptsAssumption DEF IInv, TypeOK, Chains, Phases, Answers
<1>2. OneChain'
  BY DeliveryParts DEF IInv, TypeOK, Chains, OneChain
<1>3. Paced' /\ Heard'
  BY DEF IInv, TypeOK, Chains, Paced, Heard, Answers
<1>4. Decided' /\ InHand'
  BY DeliveryParts DEF IInv, TypeOK, Chains, Decided, InHand, Heard, OneChain
<1>5. NoRetryForgotten'
  BY DeliveryParts DEF IInv, TypeOK, Chains, NoRetryForgotten, OnItsWay, Heard, InHand
<1> QED
  BY <1>1, <1>2, <1>3, <1>4, <1>5 DEF IInv

(* A purged retry is counted as lost. *)
LEMMA PurgeKeeps == ASSUME IInv, NEW d \in Deliveries, Purge(d) PROVE IInv'
<1> USE DEF Purge, Held, Pending, Working
<1>1. TypeOK'
  BY AttemptsAssumption DEF IInv, TypeOK, Chains, Phases, Answers
<1>2. OneChain'
  BY DeliveryParts DEF IInv, TypeOK, Chains, OneChain
<1>3. Paced' /\ Heard'
  BY DEF IInv, TypeOK, Chains, Paced, Heard, Answers
<1>4. Decided' /\ InHand'
  BY DeliveryParts DEF IInv, TypeOK, Chains, Decided, InHand, Heard, OneChain
<1>5. NoRetryForgotten'
  BY DeliveryParts DEF IInv, TypeOK, Chains, NoRetryForgotten, OnItsWay, Heard, InHand
<1> QED
  BY <1>1, <1>2, <1>3, <1>4, <1>5 DEF IInv

(* The goroutines that die are over, and their events lost. *)
LEMMA CrashKeeps == ASSUME IInv, Crash PROVE IInv'
<1> USE DEF Crash, Held, Pending, Working
<1>0. chain \in [Events -> Chains]
  BY DEF IInv, TypeOK
<1>1. PICK dead \in SUBSET {e \in Events : Working(e)} :
          /\ chain' = [e \in Events |-> IF e \in dead THEN Over(chain[e]) ELSE chain[e]]
          /\ lost' = [e \in Events |-> lost[e] \/ e \in dead]
  OBVIOUS
<1>a. \A e \in Events : /\ chain'[e] \in Chains /\ chain'[e].attempt = chain[e].attempt
                        /\ \/ chain'[e] = chain[e]
                           \/ Working(e) /\ lost'[e] /\ chain'[e].phase = "over"
  <2> SUFFICES ASSUME NEW e \in Events
               PROVE  /\ chain'[e] \in Chains /\ chain'[e].attempt = chain[e].attempt
                      /\ \/ chain'[e] = chain[e]
                         \/ Working(e) /\ lost'[e] /\ chain'[e].phase = "over"
    OBVIOUS
  <2>1. CASE e \in dead
    <3>1. chain'[e] = Over(chain[e]) /\ lost'[e] /\ Working(e)
      BY <1>1, <2>1
    <3> QED
      BY <1>0, <3>1, OverIsChain
  <2>2. CASE e \notin dead
    <3>1. chain'[e] = chain[e]
      BY <1>1, <2>2
    <3>2. chain[e] \in Chains
      BY <1>0
    <3> QED
      BY <3>1, <3>2
  <2> QED
    BY <2>1, <2>2
<1>b. \A e \in Events : lost[e] => lost'[e]
  BY <1>1
<1>c. \A d \in Deliveries : Held(d)' => Held(d)
  OBVIOUS
<1>2. TypeOK'
  <2>1. chain' \in [Events -> Chains]
    BY <1>1, <1>a
  <2>2. lost' \in [Events -> BOOLEAN]
    BY <1>1 DEF IInv, TypeOK
  <2> QED
    BY <2>1, <2>2 DEF IInv, TypeOK
<1>3. OneChain'
  BY <1>a, <1>c, DeliveryParts DEF IInv, OneChain
<1>4. Paced' /\ Heard'
  BY <1>a DEF IInv, Paced, Heard
<1>5. Decided' /\ InHand'
  BY <1>b, <1>c, DeliveryParts DEF IInv, TypeOK, Decided, InHand
<1>6. NoRetryForgotten'
  BY <1>a, <1>b, DeliveryParts DEF IInv, NoRetryForgotten, OnItsWay, InHand
<1> QED
  BY <1>2, <1>3, <1>4, <1>5, <1>6 DEF IInv

(* The webhook's own row occurs in none of the properties. *)
LEMMA StutterKeeps ==
    ASSUME IInv, UNCHANGED <<chain, delivery, batch, sent, settled, lost>>,
           webhook' \in {"active", "inactive", "deleted"}, editing' \in BOOLEAN
    PROVE  IInv'
BY DEF IInv, TypeOK, OneChain, Paced, Heard, Decided, InHand, NoRetryForgotten, OnItsWay,
       Held, Pending, Working

(* Every step keeps the invariant. *)
LEMMA StepKeeps == IInv /\ [Next]_vars => IInv'
<1> SUFFICES ASSUME IInv, [Next]_vars PROVE IInv'
  OBVIOUS
<1>0. webhook \in {"active", "inactive", "deleted"} /\ editing \in BOOLEAN
  BY DEF IInv, TypeOK
<1>1. ASSUME NEW e \in Events,
             Happen(e) \/ Trigger(e) \/ Test(e) \/ Post(e) \/ SaveDelivery(e)
      PROVE  IInv'
  BY <1>1, HappenKeeps, TriggerKeeps, TestKeeps, PostKeeps, SaveDeliveryKeeps
<1>2. ASSUME NEW d \in Deliveries,
             ComeDue(d) \/ StartRetry(d) \/ DropRetry(d) \/ SkipRetry(d) \/ Purge(d)
      PROVE  IInv'
  BY <1>2, ComeDueKeeps, StartRetryKeeps, DropRetryKeeps, SkipRetryKeeps, PurgeKeeps
<1>3. CASE LoadDue
  BY <1>3, LoadDueKeeps
<1>4. CASE Crash
  BY <1>4, CrashKeeps
<1>5. CASE LoadWebhook \/ SaveWebhook \/ DeleteWebhook
  BY <1>0, <1>5, StutterKeeps DEF LoadWebhook, SaveWebhook, DeleteWebhook
<1>6. CASE UNCHANGED vars
  BY <1>0, <1>6, StutterKeeps DEF vars
<1> QED
  BY <1>1, <1>2, <1>3, <1>4, <1>5, <1>6 DEF Next

(* The inductive invariant holds in every state: one chain an event, paced by its
   attempts, and every retry to come accounted for. *)
THEOREM Invariance == Spec => []IInv
<1>1. Init => IInv
  BY InitHolds
<1>2. IInv /\ [Next]_vars => IInv'
  BY StepKeeps
<1> QED
  BY <1>1, <1>2, PTL DEF Spec

-----------------------------------------------------------------------------
(* Rows, goroutines and the webhook keep their types. *)
THEOREM TypeCorrectness == Spec => []TypeOK
<1>1. IInv => TypeOK
  BY DEF IInv
<1> QED
  BY <1>1, Invariance, PTL

(* An event is never delivered by two goroutines, nor by one beside a scheduled
   retry (TriggerWebhooks, ProcessWebhookRetries). *)
THEOREM OneDeliveryAtATime == Spec => []OneChain
<1>1. IInv => OneChain
  BY DEF IInv
<1> QED
  BY <1>1, Invariance, PTL

(* The retry policy bounds the posts of an event through crashes, failing
   statements and purges (retryAt, ProcessWebhookRetries). *)
THEOREM PostsAreBounded == Spec => []AttemptsBounded
<1>1. IInv => AttemptsBounded
  <2> SUFFICES ASSUME IInv, NEW e \in Events PROVE sent[e] <= MaxAttempts
    BY DEF AttemptsBounded
  <2>1. sent[e] \in Nat /\ chain[e].attempt \in 0 .. MaxAttempts
    BY DEF IInv, TypeOK, Chains
  <2>2. sent[e] <= chain[e].attempt
    BY DEF IInv, Paced
  <2> QED
    BY <2>1, <2>2, AttemptsAssumption
<1> QED
  BY <1>1, Invariance, PTL

(* A failed delivery has attempts to come, or has used them up, or was given up
   in one of the ways that NoRetryForgotten names (saveDelivery,
   ProcessWebhookRetries). *)
THEOREM RetriesAreAccountedFor == Spec => []NoRetryForgotten
<1>1. IInv => NoRetryForgotten
  BY DEF IInv
<1> QED
  BY <1>1, Invariance, PTL

(* Nothing is posted after a success, a permanent refusal or a blocked URL
   (deliverWebhook, ProcessWebhookRetries). *)
THEOREM LastWordIsFinal == Spec => SettledIsFinal
<1>1. IInv /\ [Next]_vars => [\A e \in Events : settled[e] => sent'[e] = sent[e]]_vars
  <2> SUFFICES ASSUME IInv, Next, NEW e \in Events, settled[e] PROVE sent'[e] = sent[e]
    BY DEF vars
  <2>1. ASSUME NEW f \in Events, Post(f) PROVE sent'[e] = sent[e]
    BY <2>1 DEF IInv, TypeOK, Heard, Post
  <2>2. CASE UNCHANGED sent
    BY <2>2
  <2> QED
    BY <2>1, <2>2 DEF Next, Happen, Trigger, Test, SaveDelivery, ComeDue, LoadDue, StartRetry,
       DropRetry, SkipRetry, Purge, Crash, LoadWebhook, SaveWebhook, DeleteWebhook
<1> QED
  BY <1>1, Invariance, PTL DEF Spec, SettledIsFinal

-----------------------------------------------------------------------------
(* The deliveries implement Delivery: each step is one of its steps, or one it
   does not see.  An event is seen as begun, posting or waiting by what is true
   of it alone, so a lemma says what its step does to one event and that it
   leaves the others. *)

(* What is scheduled is of an event whose goroutine is over. *)
LEMMA HeldIsOver ==
    ASSUME IInv, NEW d \in Deliveries, Held(d)
    PROVE  d[1] \in Events /\ chain[d[1]].phase = "over" /\ chain[d[1]].attempt = d[2]
<1>1. d[1] \in Events /\ d[2] \in Nat \ {0}
  BY DeliveryParts DEF Attempts
<1>2. ~Working(d[1]) /\ chain[d[1]].attempt = d[2]
  BY DEF IInv, OneChain, Held
<1>3. chain[d[1]] \in Chains
  BY <1>1 DEF IInv, TypeOK
<1>4. chain[d[1]].phase # "unborn"
  BY <1>1, <1>2 DEF IInv, Paced
<1> QED BY <1>1, <1>2, <1>3, <1>4 DEF Chains, Phases, Working

(* So a goroutine at work has nothing scheduled. *)
LEMMA NothingBeside ==
    ASSUME IInv, NEW e \in Events, chain[e].phase # "over"
    PROVE  \A d \in Deliveries : d[1] = e => ~Held(d)
BY HeldIsOver

(* An event waits if its goroutine is to schedule a retry, else if a row does. *)
LEMMA AwaitsBy ==
    ASSUME IInv, NEW e \in Events
    PROVE  /\ chain[e].phase = "answered" =>
                 (Awaits(e) <=> IsRetried(chain[e].answer, chain[e].attempt))
           /\ chain[e].phase \notin {"answered", "over"} => ~Awaits(e)
BY NothingBeside DEF Awaits

(* Where rows and batch stay, an event waits on unless its goroutine moved. *)
LEMMA OthersAwait ==
    ASSUME UNCHANGED <<delivery, batch>>, NEW f \in Events, chain'[f] = chain[f]
    PROVE  Awaits(f)' <=> Awaits(f)
BY DEF Awaits, Held, Pending, IsRetried

(* A commit, and nobody has been told of it. *)
LEMMA HappenIsHidden ==
    ASSUME IInv, NEW e \in Events, Happen(e)
    PROVE  UNCHANGED Delivered!state
<1>0. chain \in [Events -> Chains] /\ chain[e] \in Chains
  BY DEF IInv, TypeOK
<1>1. /\ chain[e].phase = "unborn" /\ chain'[e].phase = "triggering"
      /\ chain'[e].attempt = chain[e].attempt
      /\ \A f \in Events : f # e => chain'[f] = chain[f]
  BY <1>0 DEF Happen, Chains
<1>2. ~Awaits(e)
  BY <1>1, AwaitsBy
<1>3. ~Awaits(e)'
  BY <1>1, NothingBeside DEF Happen, Awaits, Held, Pending
<1>4. \A f \in Events : f # e => (Awaits(f)' <=> Awaits(f))
  BY <1>1, OthersAwait DEF Happen
<1>5. /\ {f \in Events : chain[f].phase \notin {"unborn", "triggering"}}'
           = {f \in Events : chain[f].phase \notin {"unborn", "triggering"}}
      /\ {f \in Events : chain[f].phase = "posting"}' = {f \in Events : chain[f].phase = "posting"}
      /\ {f \in Events : Awaits(f)}' = {f \in Events : Awaits(f)}
      /\ [f \in Events |-> chain[f].attempt]' = [f \in Events |-> chain[f].attempt]
  BY <1>1, <1>2, <1>3, <1>4
<1> QED BY <1>5 DEF Happen, Delivered!state

(* The first attempt. *)
LEMMA FirstBegins ==
    ASSUME IInv, NEW e \in Events,
           chain[e].phase \in {"unborn", "triggering"},
           chain' = [chain EXCEPT ![e] = Posting(@, 1)],
           UNCHANGED <<delivery, batch, sent, settled, lost>>
    PROVE  Delivered!Begin(e)
<1>0. chain \in [Events -> Chains] /\ chain[e] \in Chains /\ 1 \in Attempts
  BY AttemptsAssumption DEF IInv, TypeOK, Attempts
<1>1. /\ chain'[e].phase = "posting" /\ chain'[e].attempt = 1
      /\ \A f \in Events : f # e => chain'[f] = chain[f]
  BY <1>0, PostingIsChain
<1>2. ~Awaits(e)
  BY AwaitsBy
<1>3. ~Awaits(e)'
  BY <1>1, NothingBeside DEF Awaits, Held, Pending
<1>4. \A f \in Events : f # e => (Awaits(f)' <=> Awaits(f))
  BY <1>1, OthersAwait
<1>5. {f \in Events : chain[f].phase \notin {"unborn", "triggering"}}'
        = {f \in Events : chain[f].phase \notin {"unborn", "triggering"}} \cup {e}
  BY <1>1
<1>6. {f \in Events : chain[f].phase = "posting"}' = {f \in Events : chain[f].phase = "posting"} \cup {e}
  BY <1>1
<1>7. {f \in Events : Awaits(f)}' = {f \in Events : Awaits(f)}
  BY <1>2, <1>3, <1>4
<1>8. [f \in Events |-> chain[f].attempt]' = [[f \in Events |-> chain[f].attempt] EXCEPT ![e] = 1]
  <2>1. \A f \in Events : chain'[f].attempt = IF f = e THEN 1 ELSE chain[f].attempt
    BY <1>1
  <2>2. [f \in Events |-> chain'[f].attempt]
          = [f \in Events |-> IF f = e THEN 1 ELSE chain[f].attempt]
    BY <2>1
  <2> QED BY <2>2
<1>9. e \notin {f \in Events : chain[f].phase \notin {"unborn", "triggering"}}
  OBVIOUS
<1> QED BY <1>5, <1>6, <1>7, <1>8, <1>9 DEF Delivered!Begin

LEMMA TriggerBegins ==
    ASSUME IInv, NEW e \in Events, Trigger(e)
    PROVE  Delivered!Begin(e) \/ Delivered!Dismiss(e)
<1>0. chain \in [Events -> Chains] /\ chain[e] \in Chains /\ chain[e].phase = "triggering"
  BY DEF Trigger, IInv, TypeOK
<1>1. CASE chain' = [chain EXCEPT ![e] = Posting(@, 1)]
  BY <1>0, <1>1, FirstBegins DEF Trigger
<1>2. CASE chain' = [chain EXCEPT ![e] = Over(@)]
  <2>1. /\ chain'[e].phase = "over" /\ chain'[e].attempt = chain[e].attempt
        /\ \A f \in Events : f # e => chain'[f] = chain[f]
    BY <1>0, <1>2, OverIsChain
  <2>2. ~Awaits(e)
    BY <1>0, AwaitsBy
  <2>3. ~Awaits(e)'
    BY <1>0, <2>1, NothingBeside DEF Trigger, Awaits, Held, Pending
  <2>4. \A f \in Events : f # e => (Awaits(f)' <=> Awaits(f))
    BY <2>1, OthersAwait DEF Trigger
  <2>5. /\ {f \in Events : chain[f].phase \notin {"unborn", "triggering"}}'
             = {f \in Events : chain[f].phase \notin {"unborn", "triggering"}} \cup {e}
        /\ {f \in Events : chain[f].phase = "posting"}'
             = {f \in Events : chain[f].phase = "posting"}
        /\ {f \in Events : Awaits(f)}' = {f \in Events : Awaits(f)}
        /\ [f \in Events |-> chain[f].attempt]' = [f \in Events |-> chain[f].attempt]
    BY <1>0, <2>1, <2>2, <2>3, <2>4
  <2>6. e \notin {f \in Events : chain[f].phase \notin {"unborn", "triggering"}}
    BY <1>0
  <2> QED BY <2>5, <2>6 DEF Trigger, Delivered!Dismiss
<1> QED BY <1>1, <1>2 DEF Trigger

(* The answer decides, before any row does. *)
LEMMA PostSettlesOrFails ==
    ASSUME IInv, NEW e \in Events, Post(e)
    PROVE  Delivered!Settle(e) \/ Delivered!Fail(e)
<1>0. chain \in [Events -> Chains] /\ chain[e] \in Chains /\ chain[e].phase = "posting"
  BY DEF Post, IInv, TypeOK
<1>1. PICK answer \in Answers :
          /\ chain' = [chain EXCEPT ![e].phase = "answered", ![e].answer = answer]
          /\ sent' = IF answer = "blocked" THEN sent ELSE [sent EXCEPT ![e] = @ + 1]
          /\ settled' = [settled EXCEPT ![e] = answer # "failed"]
  BY DEF Post
<1>2. /\ chain'[e].phase = "answered" /\ chain'[e].answer = answer
      /\ chain'[e].attempt = chain[e].attempt
      /\ \A f \in Events : f # e => chain'[f] = chain[f]
  BY <1>0, <1>1 DEF Chains
<1>3. \A f \in Events : f # e => (Awaits(f)' <=> Awaits(f))
  BY <1>2, OthersAwait DEF Post
<1>4. ~Awaits(e) /\ (Awaits(e)' <=> answer = "failed" /\ chain[e].attempt < MaxAttempts)
  <2>1. ~Awaits(e) /\ \A d \in Deliveries : d[1] = e => ~Held(d)
    BY <1>0, AwaitsBy, NothingBeside
  <2>2. \A d \in Deliveries : d[1] = e => ~Held(d)'
    BY <2>1 DEF Post, Held, Pending
  <2> QED BY <1>2, <2>1, <2>2 DEF Awaits, IsRetried, Retryable, HasAttemptsLeft
<1>5. {f \in Events : chain[f].phase \notin {"unborn", "triggering"}}'
        = {f \in Events : chain[f].phase \notin {"unborn", "triggering"}}
  BY <1>0, <1>2
<1>6. {f \in Events : chain[f].phase = "posting"}' = {f \in Events : chain[f].phase = "posting"} \ {e}
  BY <1>2
<1>7. e \in {f \in Events : chain[f].phase = "posting"}
  BY <1>0
<1>8. [f \in Events |-> chain[f].attempt]' = [f \in Events |-> chain[f].attempt]
  BY <1>2
<1>9. UNCHANGED lost /\ settled \in [Events -> BOOLEAN] /\ ~settled[e]
  BY <1>0 DEF Post, IInv, TypeOK, Heard
<1>10. CASE answer # "failed"
  <2>1. {f \in Events : Awaits(f)}' = {f \in Events : Awaits(f)}
    BY <1>3, <1>4, <1>10
  <2> QED BY <1>1, <1>5, <1>6, <1>7, <1>8, <1>9, <1>10, <2>1 DEF Delivered!Settle, Delivered!Posted
<1>11. CASE answer = "failed"
  <2>1. UNCHANGED settled /\ sent' = [sent EXCEPT ![e] = @ + 1]
    BY <1>1, <1>9, <1>11
  <2>2. {f \in Events : Awaits(f)}' = IF chain[e].attempt < MaxAttempts
                                     THEN {f \in Events : Awaits(f)} \cup {e}
                                     ELSE {f \in Events : Awaits(f)}
    BY <1>3, <1>4, <1>11
  <2>3. [f \in Events |-> chain[f].attempt][e] = chain[e].attempt
    OBVIOUS
  <2> QED BY <1>5, <1>6, <1>7, <1>8, <1>9, <2>1, <2>2, <2>3 DEF Delivered!Fail, Delivered!Posted
<1> QED BY <1>10, <1>11

(* The row that is taken off the schedule was the only one of its event. *)
LEMMA StartRetryRetries ==
    ASSUME IInv, NEW d \in Deliveries, StartRetry(d)
    PROVE  d[1] \in Events /\ Delivered!Retry(d[1])
<1> DEFINE e == d[1]
<1>0. /\ chain \in [Events -> Chains] /\ e \in Events /\ chain[e] \in Chains
      /\ d[2] \in Nat /\ d[2] + 1 \in Attempts
  BY DeliveryParts, AttemptsAssumption DEF StartRetry, IInv, TypeOK, InHand, Attempts
<1>1. Held(d) /\ chain[e].phase = "over" /\ chain[e].attempt = d[2]
  BY HeldIsOver DEF StartRetry, Held
<1>2. /\ chain'[e].phase = "posting" /\ chain'[e].attempt = d[2] + 1
      /\ \A f \in Events : f # e => chain'[f] = chain[f]
  BY <1>0, PostingIsChain DEF StartRetry, NextAttempt
<1>3. \A c \in Deliveries : c # d => (Held(c)' <=> Held(c))
  BY DEF StartRetry, Held, Pending, IInv, TypeOK
<1>4. ~Held(d)'
  BY DEF StartRetry, Held, Pending, Cleared, IInv, TypeOK
<1>5. \A c \in Deliveries : c[1] = e /\ Held(c) => c = d
  BY <1>1, HeldIsOver, SameDelivery
<1>6. Awaits(e) /\ ~Awaits(e)'
  BY <1>1, <1>2, <1>3, <1>4, <1>5 DEF Awaits
<1>7. \A f \in Events : f # e => (Awaits(f)' <=> Awaits(f))
  <2> SUFFICES ASSUME NEW f \in Events, f # e PROVE Awaits(f)' <=> Awaits(f)
    OBVIOUS
  <2>1. \A c \in Deliveries : c[1] = f => (Held(c)' <=> Held(c))
    BY <1>3
  <2> QED BY <1>2, <2>1 DEF Awaits, IsRetried
<1>8. {f \in Events : chain[f].phase \notin {"unborn", "triggering"}}'
        = {f \in Events : chain[f].phase \notin {"unborn", "triggering"}}
  BY <1>1, <1>2
<1>9. {f \in Events : chain[f].phase = "posting"}' = {f \in Events : chain[f].phase = "posting"} \cup {e}
  BY <1>0, <1>2
<1>10. {f \in Events : Awaits(f)}' = {f \in Events : Awaits(f)} \ {e} /\ e \in {f \in Events : Awaits(f)}
  BY <1>0, <1>6, <1>7
<1>11. [f \in Events |-> chain[f].attempt]' = [[f \in Events |-> chain[f].attempt] EXCEPT ![e] = @ + 1]
  <2>1. \A f \in Events : chain'[f].attempt = IF f = e THEN chain[e].attempt + 1 ELSE chain[f].attempt
    BY <1>1, <1>2
  <2>2. [f \in Events |-> chain'[f].attempt]
          = [f \in Events |-> IF f = e THEN chain[e].attempt + 1 ELSE chain[f].attempt]
    BY <2>1
  <2> QED BY <1>0, <2>2
<1> QED BY <1>0, <1>8, <1>9, <1>10, <1>11 DEF StartRetry, Delivered!Retry

(* Whatever ends here without an answer is counted as lost, now or before. *)
LEMMA EndsAreLosses ==
    ASSUME IInv, NEW ended \in SUBSET Events,
           UNCHANGED <<sent, settled>>, lost' \in [Events -> BOOLEAN],
           \A f \in Events : chain'[f].attempt = chain[f].attempt /\ (lost[f] => lost'[f]),
           \A f \in Events \ ended : chain'[f].phase = chain[f].phase /\ (Awaits(f)' <=> Awaits(f)),
           \A f \in ended : lost'[f] /\ chain'[f].phase = "over" /\ ~Awaits(f)'
    PROVE  Delivered!Next
<1> DEFINE losing == {f \in Events : lost'[f]}
<1>1. ended \subseteq losing /\ losing \in SUBSET Events
  OBVIOUS
<1>2. lost' = [f \in Events |-> lost[f] \/ f \in losing]
  OBVIOUS
<1>3. {f \in Events : chain[f].phase \notin {"unborn", "triggering"}}'
        = {f \in Events : chain[f].phase \notin {"unborn", "triggering"}} \cup ended
  OBVIOUS
<1>4. {f \in Events : chain[f].phase = "posting"}' = {f \in Events : chain[f].phase = "posting"} \ ended
  OBVIOUS
<1>5. {f \in Events : Awaits(f)}' = {f \in Events : Awaits(f)} \ ended
  OBVIOUS
<1>6. [f \in Events |-> chain[f].attempt]' = [f \in Events |-> chain[f].attempt]
  OBVIOUS
<1>7. Delivered!Lose(losing, ended)
  BY <1>1, <1>2, <1>3, <1>4, <1>5, <1>6 DEF Delivered!Lose
<1> QED BY <1>1, <1>7 DEF Delivered!Next

(* Steps on the rows and the batch: what is scheduled no more is lost. *)
LEMMA RowsAreLosses ==
    ASSUME IInv, UNCHANGED <<chain, sent, settled>>, lost' \in [Events -> BOOLEAN],
           \A f \in Events : lost[f] => lost'[f],
           \A c \in Deliveries : Held(c)' => Held(c),
           \A c \in Deliveries : Held(c) /\ ~Held(c)' => lost'[c[1]]
    PROVE  Delivered!Next
<1> DEFINE ended == {f \in Events : Awaits(f) /\ ~Awaits(f)'}
<1>1. \A f \in Events : Awaits(f)' => Awaits(f)
  BY DEF Awaits, IsRetried
<1>2. ASSUME NEW f \in ended PROVE lost'[f] /\ chain'[f].phase = "over" /\ ~Awaits(f)'
  <2>1. PICK c \in Deliveries : c[1] = f /\ Held(c)
    BY <1>2 DEF Awaits, IsRetried
  <2>2. ~Held(c)'
    BY <1>2, <2>1 DEF Awaits
  <2> QED BY <1>2, <2>1, <2>2, HeldIsOver
<1> QED BY <1>1, <1>2, EndsAreLosses

LEMMA ComeDueLoses == ASSUME IInv, NEW d \in Deliveries, ComeDue(d) PROVE Delivered!Next
<1>1. \A c \in Deliveries : Held(c)' <=> Held(c)
  BY DEF ComeDue, Held, Pending, IInv, TypeOK
<1> QED BY <1>1, RowsAreLosses DEF ComeDue, IInv, TypeOK

LEMMA LoadDueLoses == ASSUME IInv, LoadDue PROVE Delivered!Next
<1>1. \A c \in Deliveries : Held(c)' <=> Held(c)
  BY DEF LoadDue, Held, Pending, IsDue
<1> QED BY <1>1, RowsAreLosses DEF LoadDue, IInv, TypeOK

LEMMA DropRetryLoses == ASSUME IInv, NEW d \in Deliveries, DropRetry(d) PROVE Delivered!Next
<1>1. d[1] \in Events /\ lost' = [lost EXCEPT ![d[1]] = TRUE] /\ lost \in [Events -> BOOLEAN]
  BY DeliveryParts DEF DropRetry, IInv, TypeOK
<1>2. /\ \A c \in Deliveries : c # d => (Held(c)' <=> Held(c))
      /\ Held(d)
  BY DEF DropRetry, Held, Pending, Cleared, IInv, TypeOK
<1>3. \A c \in Deliveries : Held(c) /\ ~Held(c)' => lost'[c[1]]
  BY <1>1, <1>2
<1> QED BY <1>1, <1>2, <1>3, RowsAreLosses DEF DropRetry

(* A retry whose row was purged goes with the batch, and was lost by then. *)
LEMMA SkipRetryLoses == ASSUME IInv, NEW d \in Deliveries, SkipRetry(d) PROVE Delivered!Next
<1>1. UNCHANGED <<chain, delivery, sent, settled, lost>> /\ batch' = batch \ {d} /\ d \in batch
  BY DEF SkipRetry
<1>2. \A c \in Deliveries : c # d => (Held(c)' <=> Held(c))
  BY <1>1 DEF Held, Pending
<1>3. Held(d) /\ (~Held(d)' => lost[d[1]])
  BY <1>1 DEF IInv, InHand, Held, Pending
<1> QED BY <1>1, <1>2, <1>3, RowsAreLosses DEF IInv, TypeOK

LEMMA PurgeLoses == ASSUME IInv, NEW d \in Deliveries, Purge(d) PROVE Delivered!Next
<1>1. /\ d[1] \in Events /\ lost' = [lost EXCEPT ![d[1]] = @ \/ Pending(d)]
      /\ lost \in [Events -> BOOLEAN] /\ UNCHANGED <<chain, batch, sent, settled>>
      /\ delivery' = [delivery EXCEPT ![d] = "none"]
  BY DeliveryParts DEF Purge, IInv, TypeOK
<1>2. \A c \in Deliveries : c # d => (Held(c)' <=> Held(c))
  BY <1>1 DEF Held, Pending, IInv, TypeOK
<1>3. (Held(d)' => Held(d)) /\ (Held(d) /\ ~Held(d)' => Pending(d))
  BY <1>1 DEF Held, Pending, IInv, TypeOK
<1>4. Pending(d) \in BOOLEAN
  BY DEF Pending
<1>5. lost' \in [Events -> BOOLEAN] /\ \A f \in Events : lost[f] => lost'[f]
  BY <1>1, <1>4
<1>6. \A c \in Deliveries : Held(c) /\ ~Held(c)' => lost'[c[1]]
  BY <1>1, <1>2, <1>3
<1> QED BY <1>1, <1>2, <1>3, <1>5, <1>6, RowsAreLosses

(* What goroutines and batch held when the server died. *)
LEMMA CrashLoses == ASSUME IInv, Crash PROVE Delivered!Next
<1>1. PICK dead \in SUBSET {e \in Events : Working(e)} :
          /\ chain' = [e \in Events |-> IF e \in dead THEN Over(chain[e]) ELSE chain[e]]
          /\ lost' = [e \in Events |-> lost[e] \/ e \in dead]
  BY DEF Crash
<1>2. /\ chain \in [Events -> Chains] /\ lost \in [Events -> BOOLEAN]
      /\ UNCHANGED <<delivery, sent, settled>> /\ batch' \in {batch, {}}
  BY DEF Crash, IInv, TypeOK
<1>3. \A f \in dead : chain'[f].phase = "over" /\ chain'[f].attempt = chain[f].attempt /\ lost'[f]
  BY <1>1, <1>2, OverIsChain
<1>4. \A f \in Events \ dead : chain'[f] = chain[f]
  BY <1>1
<1>5. \A c \in Deliveries : (Held(c)' => Held(c)) /\ (Held(c) /\ ~Held(c)' => lost[c[1]])
  BY <1>2 DEF Held, Pending, IInv, InHand
<1> DEFINE ended == dead \cup {f \in Events \ dead : Awaits(f) /\ ~Awaits(f)'}
<1>6. ASSUME NEW f \in dead PROVE ~Awaits(f)'
  <2>1. \A c \in Deliveries : c[1] = f => ~Held(c)
    BY NothingBeside DEF Working
  <2> QED BY <1>3, <1>5, <2>1 DEF Awaits
<1>7. ASSUME NEW f \in Events \ dead PROVE Awaits(f)' => Awaits(f)
  BY <1>4, <1>5 DEF Awaits, IsRetried
<1>8. ASSUME NEW f \in Events \ dead, Awaits(f), ~Awaits(f)'
      PROVE  lost'[f] /\ chain'[f].phase = "over"
  <2>1. PICK c \in Deliveries : c[1] = f /\ Held(c)
    BY <1>4, <1>8 DEF Awaits, IsRetried
  <2>2. ~Held(c)'
    BY <1>8, <2>1 DEF Awaits
  <2>3. lost[f] /\ chain[f].phase = "over"
    BY <1>5, <2>1, <2>2, HeldIsOver
  <2> QED BY <1>1, <1>4, <2>3
<1>9. ended \in SUBSET Events
  OBVIOUS
<1>10. lost' \in [Events -> BOOLEAN] /\ \A f \in Events : lost[f] => lost'[f]
  BY <1>1, <1>2
<1>11. \A f \in Events : chain'[f].attempt = chain[f].attempt
  BY <1>3, <1>4
<1>12. \A f \in Events \ ended : chain'[f].phase = chain[f].phase /\ (Awaits(f)' <=> Awaits(f))
  BY <1>4, <1>7
<1>13. \A f \in ended : lost'[f] /\ chain'[f].phase = "over" /\ ~Awaits(f)'
  BY <1>3, <1>6, <1>8
<1> QED BY <1>2, <1>9, <1>10, <1>11, <1>12, <1>13, EndsAreLosses

(* The row takes over from the goroutine; without it the retry is lost. *)
LEMMA SaveDeliveryLoses ==
    ASSUME IInv, NEW e \in Events, SaveDelivery(e)
    PROVE  Delivered!Next
<1> SUFFICES ASSUME NEW k, k = chain[e].attempt, NEW d, d = <<e, k>> PROVE Delivered!Next
  OBVIOUS
<1> DEFINE retried == IsRetried(chain[e].answer, k)
<1>0. /\ chain \in [Events -> Chains] /\ chain[e] \in Chains /\ chain[e].phase = "answered"
      /\ chain' = [chain EXCEPT ![e] = Over(@)] /\ lost \in [Events -> BOOLEAN]
      /\ UNCHANGED <<batch, sent, settled>>
      /\ delivery \in [Deliveries -> {"none", "waiting", "due", "final"}]
  BY DEF SaveDelivery, IInv, TypeOK
<1>1. d \in Deliveries /\ d[1] = e
  BY <1>0 DEF IInv, Paced, Chains, Deliveries, Attempts
<1>2. /\ chain'[e].phase = "over" /\ chain'[e].attempt = chain[e].attempt
      /\ \A f \in Events : f # e => chain'[f] = chain[f]
  BY <1>0, OverIsChain
<1>3. (Awaits(e) <=> retried) /\ \A c \in Deliveries : c[1] = e => ~Held(c)
  BY <1>0, AwaitsBy, NothingBeside
<1>4. retried \in BOOLEAN
  BY DEF IsRetried
<1>5. CASE delivery' = [delivery EXCEPT ![d] = IF retried THEN "waiting" ELSE "final"] /\ UNCHANGED lost
  <2>1. \A c \in Deliveries : c # d => (Held(c)' <=> Held(c))
    BY <1>0, <1>5 DEF Held, Pending
  <2>2. Held(d)' <=> retried
    <3>1. delivery'[d] = IF retried THEN "waiting" ELSE "final"
      BY <1>0, <1>1, <1>5
    <3>2. d \notin batch'
      BY <1>0, <1>1, <1>3 DEF Held
    <3> QED BY <1>4, <3>1, <3>2 DEF Held, Pending
  <2>3. Awaits(e)' <=> Awaits(e)
    BY <1>1, <1>2, <1>3, <2>1, <2>2 DEF Awaits
  <2>4. ASSUME NEW f \in Events, f # e PROVE Awaits(f)' <=> Awaits(f)
    <3>1. \A c \in Deliveries : c[1] = f => (Held(c)' <=> Held(c))
      BY <1>1, <2>1, <2>4
    <3> QED BY <1>2, <2>4, <3>1 DEF Awaits, IsRetried
  <2>5. /\ {f \in Events : chain[f].phase \notin {"unborn", "triggering"}}'
             = {f \in Events : chain[f].phase \notin {"unborn", "triggering"}}
        /\ {f \in Events : chain[f].phase = "posting"}' = {f \in Events : chain[f].phase = "posting"}
    BY <1>0, <1>2
  <2>6. {f \in Events : Awaits(f)}' = {f \in Events : Awaits(f)}
    BY <2>3, <2>4
  <2>7. [f \in Events |-> chain[f].attempt]' = [f \in Events |-> chain[f].attempt]
    BY <1>2
  <2>8. Delivered!Lose({}, {})
    BY <1>0, <1>5, <2>5, <2>6, <2>7 DEF Delivered!Lose
  <2> QED BY <2>8 DEF Delivered!Next
<1>6. CASE lost' = [lost EXCEPT ![e] = @ \/ retried] /\ UNCHANGED delivery
  <2>1. ~Awaits(e)'
    BY <1>0, <1>2, <1>3, <1>6 DEF Awaits, Held, Pending
  <2>2. \A f \in Events : f # e => (Awaits(f)' <=> Awaits(f))
    BY <1>0, <1>2, <1>6, OthersAwait
  <2>3. lost' \in [Events -> BOOLEAN] /\ \A f \in Events : lost[f] => lost'[f]
    BY <1>0, <1>4, <1>6
  <2>4. CASE retried
    <3>1. lost'[e]
      BY <1>0, <1>6, <2>4
    <3>2. {e} \in SUBSET Events
      OBVIOUS
    <3>3. \A f \in Events : chain'[f].attempt = chain[f].attempt
      BY <1>2
    <3>4. \A f \in Events \ {e} : chain'[f].phase = chain[f].phase /\ (Awaits(f)' <=> Awaits(f))
      BY <1>2, <2>2
    <3>5. \A f \in {e} : lost'[f] /\ chain'[f].phase = "over" /\ ~Awaits(f)'
      BY <1>2, <2>1, <3>1
    <3> QED BY <1>0, <2>3, <3>2, <3>3, <3>4, <3>5, EndsAreLosses
  <2>5. CASE ~retried
    <3>1. lost' = lost
      BY <1>0, <1>6, <2>5
    <3>2. /\ {f \in Events : chain[f].phase \notin {"unborn", "triggering"}}'
               = {f \in Events : chain[f].phase \notin {"unborn", "triggering"}}
          /\ {f \in Events : chain[f].phase = "posting"}' = {f \in Events : chain[f].phase = "posting"}
      BY <1>0, <1>2
    <3>3. {f \in Events : Awaits(f)}' = {f \in Events : Awaits(f)}
      BY <1>3, <2>1, <2>2, <2>5
    <3>4. [f \in Events |-> chain[f].attempt]' = [f \in Events |-> chain[f].attempt]
      BY <1>2
    <3>5. Delivered!Lose({}, {})
      BY <1>0, <3>1, <3>2, <3>3, <3>4 DEF Delivered!Lose
    <3> QED BY <3>5 DEF Delivered!Next
  <2> QED BY <2>4, <2>5
<1> QED BY <1>5, <1>6 DEF SaveDelivery

(* Goroutines, rows and the retry job deliver an event as one sequence of attempts
   that only a final answer, the last attempt or a loss ends (TriggerWebhooks,
   deliverWebhook, saveDelivery, ProcessWebhookRetries). *)
THEOREM RetriesAreOneDelivery == Spec => DeliverySpec
<1>1. Init => Delivered!Init
  <2> SUFFICES ASSUME Init PROVE Delivered!Init
    OBVIOUS
  <2>1. \A f \in Events : ~Awaits(f) /\ chain[f].phase = "unborn" /\ chain[f].attempt = 0
    BY DEF Init, Awaits, Held, Pending
  <2>2. /\ {f \in Events : chain[f].phase \notin {"unborn", "triggering"}} = {}
        /\ {f \in Events : chain[f].phase = "posting"} = {}
        /\ {f \in Events : Awaits(f)} = {}
    BY <2>1
  <2>3. [f \in Events |-> chain[f].attempt] = [f \in Events |-> 0]
    BY <2>1
  <2> QED BY <2>2, <2>3 DEF Init, Delivered!Init
<1>2. IInv /\ [Next]_vars => [Delivered!Next]_(Delivered!state)
  <2> SUFFICES ASSUME IInv, [Next]_vars PROVE Delivered!Next \/ UNCHANGED Delivered!state
    OBVIOUS
  <2>1. ASSUME NEW e \in Events, Happen(e) PROVE UNCHANGED Delivered!state
    BY <2>1, HappenIsHidden
  <2>2. ASSUME NEW e \in Events, Trigger(e) \/ Test(e) \/ Post(e) PROVE Delivered!Next
    <3>1. CASE Test(e)
      BY <3>1, FirstBegins DEF Test, Delivered!Next
    <3> QED BY <2>2, <3>1, TriggerBegins, PostSettlesOrFails DEF Delivered!Next
  <2>3. ASSUME NEW e \in Events, SaveDelivery(e) PROVE Delivered!Next
    BY <2>3, SaveDeliveryLoses
  <2>4. ASSUME NEW d \in Deliveries, StartRetry(d) PROVE Delivered!Next
    BY <2>4, StartRetryRetries DEF Delivered!Next
  <2>5. ASSUME NEW d \in Deliveries, ComeDue(d) \/ DropRetry(d) \/ SkipRetry(d) \/ Purge(d)
        PROVE  Delivered!Next
    BY <2>5, ComeDueLoses, DropRetryLoses, SkipRetryLoses, PurgeLoses
  <2>6. CASE LoadDue \/ Crash
    BY <2>6, LoadDueLoses, CrashLoses
  <2>7. CASE UNCHANGED <<chain, delivery, batch, sent, settled, lost>>
    BY <2>7 DEF Delivered!state, Awaits, Held, Pending, IsRetried
  <2> QED
    BY <2>1, <2>2, <2>3, <2>4, <2>5, <2>6, <2>7
    DEF Next, LoadWebhook, SaveWebhook, DeleteWebhook, vars
<1> QED
  BY <1>1, <1>2, Invariance, PTL DEF Spec, DeliverySpec, Delivered!Spec
=============================================================================
