-------------------------- MODULE WebhookDelivery --------------------------
(***************************************************************************)
(* Outbound webhooks: lib/services/webhook-service.ts.                     *)
(*                                                                         *)
(* A dispatched event starts one worker per matching subscription.  The    *)
(* worker creates a delivery row, the receipt, and then sends, records and *)
(* sleeps, all in the process that dispatched the event; nothing resumes   *)
(* it after a restart.  An operator may pause or delete the subscription   *)
(* and may send any undelivered receipt once more, also one whose worker   *)
(* is asleep between two attempts.                                         *)
(*                                                                         *)
(* Which subscriptions match an event is a choice: patterns and scopes are *)
(* data.  Out of the model: the counters of a subscription, which are only *)
(* shown, the texts of answers and errors, audit entries.                  *)
(***************************************************************************)
EXTENDS Naturals, FiniteSets

CONSTANTS
    Subs,        \* subscriptions
    Events,      \* dispatches
    Operators,   \* slots for operators' retries
    MaxAttempts, \* MAX_ATTEMPTS
    MaxSent      \* bound: requests of one delivery after which nobody retries

Deliveries == Subs \X Events

AttemptsAssumption ==
    /\ MaxAttempts \in Nat \ {0} /\ MaxSent \in Nat
    /\ Operators \cap Deliveries = {}

VARIABLES
    subStatus, \* WebhookSubscription.status, "none" once deleted
    receipt,   \* [Deliveries -> the WebhookDelivery row, or NoReceipt]
    pc, frame, \* of each delivery's worker and of the operators' retries
    \* history
    sent,      \* requests made for each delivery
    accepted,  \* 2xx answers the platform has seen to them
    disturbed, \* deliveries worked on by two, or whose acceptance was not recorded
    died       \* deliveries a worker or retry left in the middle

vars == <<subStatus, receipt, pc, frame, sent, accepted, disturbed, died>>

NoReceipt == [status |-> "none", attempts |-> 0, deliveredAt |-> FALSE]
NoFrame == [of |-> <<>>, attempt |-> 0, outcome |-> "none"]

Finished == {"unused", "done", "idle"}
Workers == Deliveries \cup Operators

\* Somebody has delivery d in hand.
InHand(d) == pc[d] \notin Finished \/ \E o \in Operators : frame[o].of = d

Goto(w, label) == pc' = [pc EXCEPT ![w] = label]
Stored(d) == receipt[d] # NoReceipt

Write(d, status, attempt) ==
    receipt' = [receipt EXCEPT ![d].status = status, ![d].attempts = attempt]

-----------------------------------------------------------------------------
(***************************************************************************)
(* The subscription: createWebhook has been called, updateWebhookStatus,   *)
(* deleteWebhook, which takes the receipts with it.                        *)
(***************************************************************************)
SetStatus(s, status) ==
    /\ subStatus[s] \notin {"none", status}
    /\ subStatus' = [subStatus EXCEPT ![s] = status]
    /\ UNCHANGED <<receipt, pc, frame, sent, accepted, disturbed, died>>

DeleteWebhook(s) ==
    /\ subStatus[s] # "none"
    /\ subStatus' = [subStatus EXCEPT ![s] = "none"]
    /\ receipt' = [d \in Deliveries |-> IF d[1] = s THEN NoReceipt ELSE receipt[d]]
    /\ UNCHANGED <<pc, frame, sent, accepted, disturbed, died>>

-----------------------------------------------------------------------------
(***************************************************************************)
(* dispatchWebhookEvent and deliverWithRetry.                              *)
(***************************************************************************)
Dispatch(e, matching) ==
    /\ \A s \in Subs : pc[<<s, e>>] = "unused"
    /\ \A s \in matching : subStatus[s] = "active"
    /\ pc' = [w \in Workers |->
                 IF w \notin Subs \X {e} THEN pc[w]
                 ELSE IF w[1] \in matching THEN "create" ELSE "done"]
    /\ UNCHANGED <<subStatus, receipt, frame, sent, accepted, disturbed, died>>

\* The receipt refers to its subscription: without it the insert is rejected,
\* and dispatch swallows that.
Create(d) ==
    /\ pc[d] = "create"
    /\ IF subStatus[d[1]] = "none"
       THEN Goto(d, "done") /\ UNCHANGED <<receipt, frame>>
       ELSE /\ receipt' = [receipt EXCEPT ![d].status = "pending"]
            /\ frame' = [frame EXCEPT ![d].attempt = 1]
            /\ Goto(d, "send")
    /\ UNCHANGED <<subStatus, sent, accepted, disturbed, died>>

\* The request and its answer: 2xx, another status, or none in ten seconds,
\* whether or not the receiver got it.
Answers == {"ok", "refused", "none"}

Count(d, answer) ==
    /\ sent' = [sent EXCEPT ![d] = @ + 1]
    /\ accepted' = [accepted EXCEPT ![d] = IF answer = "ok" THEN @ + 1 ELSE @]

Send(d, answer) ==
    /\ pc[d] = "send"
    /\ Count(d, answer)
    /\ Goto(d, CASE answer = "ok" -> "accepted"
                 [] answer = "refused" -> "refused"
                 [] answer = "none" -> "caught")
    /\ UNCHANGED <<subStatus, receipt, frame, disturbed, died>>

RecordDelivered(d) ==
    /\ pc[d] = "accepted" /\ Stored(d)
    /\ receipt' = [receipt EXCEPT ![d] = [status |-> "delivered", deliveredAt |-> TRUE,
                                          attempts |-> frame[d].attempt]]
    /\ Goto(d, "book")
    /\ UNCHANGED <<subStatus, frame, sent, accepted, disturbed, died>>

\* The subscription's success is noted and the worker returns.
Book(d) ==
    /\ pc[d] = "book" /\ subStatus[d[1]] # "none"
    /\ Goto(d, "done")
    /\ UNCHANGED <<subStatus, receipt, frame, sent, accepted, disturbed, died>>

\* A statement inside the try rejects, also those after a 2xx answer: the
\* catch treats them as a failed request.
Throws(d) ==
    /\ pc[d] \in {"accepted", "book", "refused"}
    /\ Goto(d, "caught")
    /\ disturbed' = IF pc[d] = "refused" THEN disturbed ELSE disturbed \cup {d}
    /\ UNCHANGED <<subStatus, receipt, frame, sent, accepted, died>>

\* Mutant: The catch does not go on with the loop.
RecordAndStop(d) ==
    /\ pc[d] \in {"refused", "caught"} /\ Stored(d)
    /\ LET last == frame[d].attempt = MaxAttempts IN
       /\ Write(d, IF last THEN "abandoned" ELSE "pending", frame[d].attempt)
       /\ IF last THEN Goto(d, "give_up")
                  ELSE Goto(d, IF pc[d] = "caught" THEN "done" ELSE "send")
       /\ frame' = IF last THEN frame ELSE [frame EXCEPT ![d].attempt = @ + 1]
    /\ UNCHANGED <<subStatus, sent, accepted, disturbed, died>>

\* A failed attempt, a refusal in the try, any other in the catch; then the
\* worker sleeps until the next one, or the loop ends.
RecordFailure(d) ==
    /\ pc[d] \in {"refused", "caught"} /\ Stored(d)
    /\ LET last == frame[d].attempt = MaxAttempts IN
       /\ Write(d, IF last THEN "abandoned" ELSE "pending", frame[d].attempt)
       /\ Goto(d, IF last THEN "give_up" ELSE "send")
       /\ frame' = IF last THEN frame ELSE [frame EXCEPT ![d].attempt = @ + 1]
    /\ UNCHANGED <<subStatus, sent, accepted, disturbed, died>>

\* After the loop, whatever the row holds by now.
GiveUp(d) ==
    /\ pc[d] = "give_up" /\ Stored(d)
    /\ receipt' = [receipt EXCEPT ![d].status = "abandoned"]
    /\ Goto(d, "done")
    /\ UNCHANGED <<subStatus, frame, sent, accepted, disturbed, died>>

\* The row is gone with its subscription: the update rejects, outside the try.
ReceiptGone(d) ==
    /\ pc[d] \in {"caught", "give_up"} /\ ~Stored(d)
    /\ Goto(d, "done")
    /\ UNCHANGED <<subStatus, receipt, frame, sent, accepted, disturbed, died>>

-----------------------------------------------------------------------------
(***************************************************************************)
(* retryWebhookDelivery: one attempt, from the row as it was read.         *)
(***************************************************************************)
\* Mutant: The number of the attempt is that of the one before.
RetrySameNumber(o, d) ==
    /\ pc[o] = "idle"
    /\ Stored(d) /\ receipt[d].status # "delivered"
    /\ subStatus[d[1]] = "active" /\ sent[d] < MaxSent
    /\ frame' = [frame EXCEPT ![o] = [NoFrame EXCEPT !.of = d,
                                         !.attempt = receipt[d].attempts]]
    /\ disturbed' = IF InHand(d) THEN disturbed \cup {d} ELSE disturbed
    /\ Goto(o, "resend")
    /\ UNCHANGED <<subStatus, receipt, sent, accepted, died>>

Retry(o, d) ==
    /\ pc[o] = "idle"
    /\ Stored(d) /\ receipt[d].status # "delivered"
    /\ subStatus[d[1]] = "active" /\ sent[d] < MaxSent
    /\ frame' = [frame EXCEPT ![o] = [NoFrame EXCEPT !.of = d,
                                         !.attempt = receipt[d].attempts + 1]]
    /\ disturbed' = IF InHand(d) THEN disturbed \cup {d} ELSE disturbed
    /\ Goto(o, "resend")
    /\ UNCHANGED <<subStatus, receipt, sent, accepted, died>>

Resend(o, answer) ==
    /\ pc[o] = "resend"
    /\ Count(frame[o].of, answer)
    /\ frame' = [frame EXCEPT ![o].outcome = IF answer = "ok" THEN "delivered"
                                             ELSE "abandoned"]
    /\ Goto(o, "record")
    /\ UNCHANGED <<subStatus, receipt, disturbed, died>>

\* What it found is written over whatever the row holds by now.
RecordRetry(o) ==
    LET d == frame[o].of IN
    /\ pc[o] = "record" /\ Stored(d)
    /\ receipt' = [receipt EXCEPT ![d] = [status |-> frame[o].outcome,
                                          attempts |-> frame[o].attempt,
                                          deliveredAt |-> frame[o].outcome = "delivered"]]
    /\ frame' = [frame EXCEPT ![o] = NoFrame]
    /\ Goto(o, "idle")
    /\ UNCHANGED <<subStatus, sent, accepted, disturbed, died>>

-----------------------------------------------------------------------------
\* The process dies, or a statement outside the try rejects.
AbandonWorker(d) ==
    /\ pc[d] \notin Finished
    /\ Goto(d, "done")
    /\ died' = died \cup {d}
    /\ UNCHANGED <<subStatus, receipt, frame, sent, accepted, disturbed>>

AbandonRetry(o) ==
    /\ pc[o] # "idle"
    /\ Goto(o, "idle")
    /\ frame' = [frame EXCEPT ![o] = NoFrame]
    /\ died' = died \cup {frame[o].of}
    /\ UNCHANGED <<subStatus, receipt, sent, accepted, disturbed>>

Init ==
    /\ subStatus = [s \in Subs |-> "active"]
    /\ receipt = [d \in Deliveries |-> NoReceipt]
    /\ pc = [w \in Workers |-> IF w \in Operators THEN "idle" ELSE "unused"]
    /\ frame = [w \in Workers |-> NoFrame]
    /\ sent = [d \in Deliveries |-> 0]
    /\ accepted = [d \in Deliveries |-> 0]
    /\ disturbed = {}
    /\ died = {}

Work(d) ==
    \/ Create(d) \/ \E answer \in Answers : Send(d, answer)
    \/ RecordDelivered(d) \/ Book(d) \/ Throws(d) \/ RecordFailure(d)
    \/ GiveUp(d) \/ ReceiptGone(d)

Next ==
    \/ \E s \in Subs : DeleteWebhook(s)
                       \/ \E status \in {"active", "paused"} : SetStatus(s, status)
    \/ \E e \in Events, matching \in SUBSET Subs : Dispatch(e, matching)
    \/ \E d \in Deliveries : Work(d) \/ AbandonWorker(d)
    \/ \E o \in Operators :
          \/ \E d \in Deliveries : Retry(o, d)
          \/ \E answer \in Answers : Resend(o, answer)
          \/ RecordRetry(o) \/ AbandonRetry(o)

Fairness == \A d \in Deliveries : WF_vars(Work(d))

Spec == Init /\ [][Next]_vars
FairSpec == Spec /\ Fairness

-----------------------------------------------------------------------------
\* What each variable may hold; who is not at work holds nothing.
TypeOK ==
    /\ subStatus \in [Subs -> {"active", "paused", "none"}]
    /\ \A d \in Deliveries :
          /\ receipt[d].status \in {"none", "pending", "delivered", "abandoned"}
          /\ receipt[d].attempts <= sent[d] /\ receipt[d].deliveredAt \in BOOLEAN
          /\ frame[d].attempt \in 0..MaxAttempts
          /\ accepted[d] <= sent[d]
    /\ \A o \in Operators : (pc[o] = "idle") = (frame[o] = NoFrame)
    /\ disturbed \subseteq Deliveries /\ died \subseteq Deliveries

\* A receipt tells the truth once nobody works on it: as many attempts as
\* requests were made, delivered exactly if the receiver's 2xx was seen, and
\* then once only, abandoned only after all attempts.  (Unless two worked on
\* it, a worker died in the middle, or an acceptance could not be recorded.)
\* Whatever happens, "delivered" is never claimed without an acceptance.
ReceiptTellsTheTruth ==
    \A d \in Deliveries :
        LET r == receipt[d] IN
        /\ r.status = "delivered" => accepted[d] > 0
        /\ Stored(d) /\ ~InHand(d) /\ d \notin disturbed \cup died =>
              /\ r.attempts = sent[d]
              /\ r.status = (IF accepted[d] = 1 THEN "delivered" ELSE "abandoned")
              /\ r.deliveredAt = (accepted[d] = 1)
              /\ r.status = "abandoned" => sent[d] >= MaxAttempts

\* No receipt stays pending: a delivery that has begun ends delivered or
\* abandoned, also if receivers hang, statements throw, operators meddle or the
\* subscription is deleted, unless the process dies.
DeliveriesSettle ==
    \A d \in Deliveries :
        pc[d] \notin Finished ~>
            pc[d] = "done" /\ (receipt[d].status # "pending" \/ d \in died)
=============================================================================
