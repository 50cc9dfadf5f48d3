-------------------------- MODULE BackgroundProofs --------------------------
(***************************************************************************)
(* What holds of the services of MCBackground for any numbers of           *)
(* deliveries, operators, passes and webhooks, and at any bounds.          *)
(***************************************************************************)
EXTENDS MCBackground, FiniteSetTheorems, SequenceTheorems, TLAPS

(***************************************************************************)
(* WebhookDelivery.  What a delivery's row says is what its worker or the  *)
(* operator who retries it has seen, as long as only one is at work on it. *)
(***************************************************************************)
Receipt  == [status : {"none", "pending", "delivered", "abandoned"}, attempts : Nat,
             deliveredAt : BOOLEAN]
Hold     == [of : W!Deliveries \cup {<<>>}, attempt : Nat,
             outcome : {"none", "delivered", "abandoned"}]
WorkerAt == {"unused", "create", "send", "accepted", "book", "refused", "caught", "give_up", "done"}
RetryAt  == {"idle", "resend", "record"}

WebhookTypes ==
    /\ subStatus \in [Subs -> {"active", "paused", "none"}]
    /\ receipt \in [W!Deliveries -> Receipt]
    /\ pc \in [W!Workers -> WorkerAt \cup RetryAt]
    /\ frame \in [W!Workers -> Hold]
    /\ sent \in [W!Deliveries -> Nat] /\ accepted \in [W!Deliveries -> Nat]

\* A retry is at work on some delivery that was created, or holds nothing.
RetryOK(o) ==
    /\ pc[o] \in RetryAt
    /\ pc[o] = "idle" <=> frame[o].of = <<>>
    /\ pc[o] = "idle" => frame[o] = W!NoFrame

Retries(d) == {o \in Operators : frame[o].of = d}

\* Before it is created a delivery is nobody's; what is said to have been
\* accepted was.
SeenOK(d) ==
    /\ pc[d] \in WorkerAt
    /\ pc[d] \in {"unused", "create"} =>
          receipt[d] = W!NoReceipt /\ sent[d] = 0 /\ accepted[d] = 0 /\ Retries(d) = {}
    /\ receipt[d].status = "delivered" \/ pc[d] \in {"accepted", "book"}
          \/ (\E o \in Retries(d) : frame[o].outcome = "delivered")
       => accepted[d] > 0

\* What an undisturbed worker has seen, and what is in the row by then.
WorkerSaw(d) ==
    LET r == receipt[d]
        a == frame[d].attempt
        n == sent[d]
    IN /\ a <= MaxAttempts \/ pc[d] = "done"
       /\ pc[d] = "send" => a = n + 1 /\ r.attempts = n
       /\ pc[d] \in {"accepted", "refused", "caught"} => a = n /\ r.attempts + 1 = n
       /\ pc[d] \in {"book", "give_up"} => r.attempts = n
       /\ pc[d] = "give_up" => n = MaxAttempts
       /\ pc[d] \in {"send", "refused", "caught", "give_up"} => accepted[d] = 0
       /\ pc[d] \in {"accepted", "book"} => accepted[d] = 1
       /\ pc[d] \in {"send", "accepted", "refused", "caught"} => r.status = "pending"
       /\ pc[d] = "give_up" => r.status = "abandoned"
       /\ pc[d] = "book" <=> r.deliveredAt /\ pc[d] # "done"
       /\ pc[d] = "book" => r.status = "delivered"

\* What an undisturbed retry has seen.
RetrySaw(o, d) ==
    LET r == receipt[d] IN
    /\ pc[d] = "done" /\ Retries(d) = {o}
    /\ r.status = "abandoned" /\ ~r.deliveredAt /\ r.attempts >= MaxAttempts
    /\ frame[o].attempt = r.attempts + 1
    /\ pc[o] = "resend" => sent[d] = r.attempts /\ accepted[d] = 0
    /\ pc[o] = "record" =>
          /\ sent[d] = frame[o].attempt
          /\ accepted[d] = (IF frame[o].outcome = "delivered" THEN 1 ELSE 0)
          /\ frame[o].outcome \in {"delivered", "abandoned"}

Settled(d) ==
    LET r == receipt[d] IN
    /\ r.attempts = sent[d]
    /\ r.status = (IF accepted[d] = 1 THEN "delivered" ELSE "abandoned")
    /\ r.deliveredAt <=> accepted[d] = 1
    /\ accepted[d] \in {0, 1}
    /\ r.status = "abandoned" => sent[d] >= MaxAttempts

HonestOK(d) ==
    W!Stored(d) /\ d \notin disturbed \cup died =>
        /\ WorkerSaw(d)
        /\ \A o \in Retries(d) : RetrySaw(o, d)
        /\ pc[d] = "done" /\ Retries(d) = {} => Settled(d)

DeliveryOK(d) == SeenOK(d) /\ HonestOK(d)

WebhookInv ==
    /\ WebhookTypes
    /\ \A o \in Operators : RetryOK(o)
    /\ \A d \in W!Deliveries : DeliveryOK(d)

LEMMA OperatorsAreNoDeliveries == Operators \cap W!Deliveries = {} /\ MaxAttempts \in Nat \ {0}
  BY BackgroundAssumption DEF W!AttemptsAssumption

LEMMA NothingIsNoDelivery == <<>> \notin W!Deliveries
  BY DEF W!Deliveries

LEMMA NoRow ==
    /\ W!NoReceipt \in Receipt /\ W!NoReceipt.status = "none"
    /\ W!NoFrame \in Hold /\ W!NoFrame.of = <<>> /\ W!NoFrame.outcome = "none"
  BY DEF W!NoReceipt, Receipt, W!NoFrame, Hold

LEMMA InitWebhooks == W!Init => WebhookInv
<1> SUFFICES ASSUME W!Init PROVE WebhookInv
  OBVIOUS
<1>1. WebhookTypes
  BY NoRow DEF W!Init, WebhookTypes, WorkerAt, RetryAt
<1>2. \A o \in Operators : pc[o] = "idle" /\ frame[o] = W!NoFrame
  BY DEF W!Init, W!Workers
<1>3. \A o \in Operators : RetryOK(o)
  BY <1>2, NoRow DEF RetryOK, RetryAt
<1>4. ASSUME NEW d \in W!Deliveries PROVE DeliveryOK(d)
  <2>1. /\ pc[d] = "unused" /\ receipt[d] = W!NoReceipt /\ sent[d] = 0 /\ accepted[d] = 0
    BY OperatorsAreNoDeliveries DEF W!Init, W!Workers
  <2>2. Retries(d) = {}
    BY <1>2, NoRow, NothingIsNoDelivery DEF Retries
  <2>3. QED
    BY <2>1, <2>2, NoRow DEF DeliveryOK, SeenOK, HonestOK, W!Stored, WorkerAt
<1>5. QED
  BY <1>1, <1>3, <1>4 DEF WebhookInv

\* A step that has nothing to do with a delivery.
LEMMA ElseWhere ==
    ASSUME NEW d \in W!Deliveries, DeliveryOK(d),
           receipt'[d] = receipt[d], pc'[d] = pc[d], frame'[d] = frame[d],
           sent'[d] = sent[d], accepted'[d] = accepted[d],
           disturbed \subseteq disturbed', died \subseteq died',
           \A o \in Operators : frame'[o].of = d <=> frame[o].of = d,
           \A o \in Retries(d) : frame'[o] = frame[o] /\ pc'[o] = pc[o]
    PROVE  DeliveryOK(d)'
<1>1. Retries(d)' = Retries(d)
  BY DEF Retries
<1>2. SeenOK(d)'
  BY <1>1 DEF DeliveryOK, SeenOK, W!NoReceipt
<1>3. ASSUME W!Stored(d)', d \notin disturbed' \cup died'
      PROVE  /\ WorkerSaw(d)' /\ \A o \in Retries(d) : RetrySaw(o, d)'
             /\ pc'[d] = "done" /\ Retries(d) = {} => Settled(d)'
  <2>1. W!Stored(d) /\ d \notin disturbed \cup died
    BY <1>3 DEF W!Stored, W!NoReceipt
  <2>2. WorkerSaw(d)'
    BY <2>1 DEF DeliveryOK, HonestOK, WorkerSaw
  <2>3. \A o \in Retries(d) : RetrySaw(o, d)'
    BY <1>1, <2>1 DEF DeliveryOK, HonestOK, RetrySaw
  <2>4. pc'[d] = "done" /\ Retries(d) = {} => Settled(d)'
    BY <2>1 DEF DeliveryOK, HonestOK, Settled
  <2>5. QED
    BY <2>2, <2>3, <2>4
<1>4. HonestOK(d)'
  BY <1>1, <1>3 DEF HonestOK
<1>5. QED
  BY <1>2, <1>4 DEF DeliveryOK

\* A step that has to do with one delivery and no retry.
LEMMA OneDelivery ==
    ASSUME WebhookInv, NEW d \in W!Deliveries, WebhookTypes',
           \A o \in Operators : pc'[o] = pc[o] /\ frame'[o] = frame[o],
           \A e \in W!Deliveries \ {d} :
              /\ pc'[e] = pc[e] /\ frame'[e] = frame[e] /\ receipt'[e] = receipt[e]
              /\ sent'[e] = sent[e] /\ accepted'[e] = accepted[e],
           disturbed \subseteq disturbed', died \subseteq died',
           DeliveryOK(d)'
    PROVE  WebhookInv'
<1>1. ASSUME NEW e \in W!Deliveries, e # d PROVE DeliveryOK(e)'
  <2>1. DeliveryOK(e)
    BY DEF WebhookInv
  <2>2. QED
    BY <1>1, <2>1, ElseWhere DEF Retries
<1>2. \A o \in Operators : RetryOK(o)'
  BY DEF WebhookInv, RetryOK, W!NoFrame
<1>3. QED
  BY <1>1, <1>2 DEF WebhookInv

\* A worker moves.
LEMMA WorkerMoves ==
    ASSUME WebhookInv, NEW d \in W!Deliveries, NEW l \in WorkerAt, NEW f \in Hold,
           NEW r \in Receipt, NEW n \in Nat, NEW a \in Nat,
           pc' = [pc EXCEPT ![d] = l], frame' = [frame EXCEPT ![d] = f],
           receipt' = [receipt EXCEPT ![d] = r],
           sent' = [sent EXCEPT ![d] = n], accepted' = [accepted EXCEPT ![d] = a],
           subStatus' = subStatus, disturbed \subseteq disturbed', died \subseteq died',
           pc'[d] = l /\ frame'[d] = f /\ receipt'[d] = r /\ sent'[d] = n /\ accepted'[d] = a
              /\ Retries(d)' = Retries(d)
              /\ (\A o \in Operators : pc'[o] = pc[o] /\ frame'[o] = frame[o])
              => DeliveryOK(d)'
    PROVE  WebhookInv'
<1>1. WebhookTypes
  BY DEF WebhookInv
<1>2. d \in W!Workers /\ \A e \in W!Deliveries : e \in W!Workers
  BY DEF W!Workers
<1>3. \A o \in Operators : o \in W!Workers /\ o # d
  BY OperatorsAreNoDeliveries DEF W!Workers
<1>4. \A o \in Operators : pc'[o] = pc[o] /\ frame'[o] = frame[o]
  BY <1>1, <1>3 DEF WebhookTypes
<1>5. /\ pc'[d] = l /\ frame'[d] = f /\ receipt'[d] = r /\ sent'[d] = n /\ accepted'[d] = a
  BY <1>1, <1>2 DEF WebhookTypes
<1>6. Retries(d)' = Retries(d)
  BY <1>4 DEF Retries
<1>7. DeliveryOK(d)'
  BY <1>4, <1>5, <1>6
<1>8. \A e \in W!Deliveries \ {d} :
         /\ pc'[e] = pc[e] /\ frame'[e] = frame[e] /\ receipt'[e] = receipt[e]
         /\ sent'[e] = sent[e] /\ accepted'[e] = accepted[e]
  BY <1>1, <1>2 DEF WebhookTypes
<1>9. WebhookTypes'
  BY <1>1, <1>2 DEF WebhookTypes
<1>10. QED
  BY <1>4, <1>7, <1>8, <1>9, OneDelivery

\* What is known of a worker that moves.
LEMMA AWorker ==
    ASSUME WebhookInv, NEW d \in W!Deliveries
    PROVE  /\ pc[d] \in WorkerAt /\ frame[d] \in Hold /\ frame[d].attempt \in Nat
           /\ receipt[d] \in Receipt /\ receipt[d].attempts \in Nat
           /\ receipt[d].deliveredAt \in BOOLEAN
           /\ sent[d] \in Nat /\ accepted[d] \in Nat /\ DeliveryOK(d)
           /\ pc = [pc EXCEPT ![d] = pc[d]] /\ frame = [frame EXCEPT ![d] = frame[d]]
           /\ receipt = [receipt EXCEPT ![d] = receipt[d]]
           /\ sent = [sent EXCEPT ![d] = sent[d]]
           /\ accepted = [accepted EXCEPT ![d] = accepted[d]]
<1>1. WebhookTypes /\ DeliveryOK(d) /\ d \in W!Workers
  BY DEF WebhookInv, W!Workers
<1>2. frame[d] \in Hold /\ receipt[d] \in Receipt
  BY <1>1 DEF WebhookTypes
<1>3. QED
  BY <1>1, <1>2 DEF WebhookTypes, DeliveryOK, SeenOK, Hold, Receipt

LEMMA CreateKeeps ==
    ASSUME WebhookInv, NEW d \in W!Deliveries, W!Create(d)
    PROVE  WebhookInv'
<1>1. /\ pc[d] = "create" /\ subStatus' = subStatus /\ sent' = sent /\ accepted' = accepted
      /\ disturbed' = disturbed /\ died' = died
  BY DEF W!Create
<1>2. /\ receipt[d] = W!NoReceipt /\ sent[d] = 0 /\ accepted[d] = 0 /\ Retries(d) = {}
      /\ ~W!Stored(d)
  BY <1>1, AWorker DEF DeliveryOK, SeenOK, W!Stored
<1>3. "done" \in WorkerAt /\ "send" \in WorkerAt
  BY DEF WorkerAt
<1>4. CASE subStatus[d[1]] = "none"
  <2>1. pc' = [pc EXCEPT ![d] = "done"] /\ receipt' = receipt /\ frame' = frame
    BY <1>4 DEF W!Create, W!Goto
  <2>2. ASSUME pc'[d] = "done", Retries(d)' = Retries(d) PROVE DeliveryOK(d)'
    BY <1>1, <1>2, <1>3, <2>1, <2>2, NoRow DEF DeliveryOK, SeenOK, HonestOK, W!Stored, W!NoReceipt
  <2>3. /\ receipt' = [receipt EXCEPT ![d] = receipt[d]] /\ frame' = [frame EXCEPT ![d] = frame[d]]
        /\ sent' = [sent EXCEPT ![d] = sent[d]] /\ accepted' = [accepted EXCEPT ![d] = accepted[d]]
        /\ pc' = [pc EXCEPT ![d] = "done"] /\ subStatus' = subStatus
        /\ disturbed \subseteq disturbed' /\ died \subseteq died'
    BY <1>1, <2>1, AWorker
  <2>4. /\ receipt[d] \in Receipt /\ frame[d] \in Hold /\ sent[d] \in Nat /\ accepted[d] \in Nat
    BY AWorker
  <2>5. QED
    BY <1>3, <2>2, <2>3, <2>4, WorkerMoves
<1>5. CASE subStatus[d[1]] # "none"
  <2> DEFINE f == [frame[d] EXCEPT !.attempt = 1]
             r == [receipt[d] EXCEPT !.status = "pending"]
  <2>1. f \in Hold /\ f.attempt = 1
    BY AWorker DEF Hold
  <2>2. r \in Receipt /\ r.status = "pending" /\ r.attempts = 0 /\ ~r.deliveredAt
    <3>1. receipt[d].attempts = 0 /\ ~receipt[d].deliveredAt
      BY <1>2 DEF W!NoReceipt
    <3>2. QED
      BY <3>1, AWorker DEF Receipt
  <2>3. pc' = [pc EXCEPT ![d] = "send"] /\ receipt' = [receipt EXCEPT ![d] = r]
        /\ frame' = [frame EXCEPT ![d] = f]
    BY <1>5, AWorker DEF W!Create, W!Goto, WebhookInv, WebhookTypes
  <2> HIDE DEF f, r
  <2>4. ASSUME pc'[d] = "send", frame'[d] = f, receipt'[d] = r, Retries(d)' = Retries(d)
        PROVE  DeliveryOK(d)'
    <3>1. sent'[d] = 0 /\ accepted'[d] = 0
      BY <1>1, <1>2
    <3>2. WorkerSaw(d)'
      BY <2>1, <2>2, <2>4, <3>1, OperatorsAreNoDeliveries DEF WorkerSaw
    <3>3. QED
      BY <1>2, <1>3, <2>2, <2>4, <3>2 DEF DeliveryOK, SeenOK, HonestOK
  <2>5. /\ sent' = [sent EXCEPT ![d] = sent[d]] /\ accepted' = [accepted EXCEPT ![d] = accepted[d]]
        /\ sent[d] \in Nat /\ accepted[d] \in Nat
    BY <1>1, AWorker
  <2>6. QED
    BY <1>1, <1>3, <2>1, <2>2, <2>3, <2>4, <2>5, WorkerMoves
<1>6. QED
  BY <1>4, <1>5

LEMMA SendKeeps ==
    ASSUME WebhookInv, NEW d \in W!Deliveries, NEW answer \in W!Answers, W!Send(d, answer)
    PROVE  WebhookInv'
<1> DEFINE l == CASE answer = "ok" -> "accepted" [] answer = "refused" -> "refused"
                  [] answer = "none" -> "caught"
           n == sent[d] + 1
           a == IF answer = "ok" THEN accepted[d] + 1 ELSE accepted[d]
<1>1. /\ pc[d] = "send" /\ pc' = [pc EXCEPT ![d] = l] /\ sent' = [sent EXCEPT ![d] = n]
      /\ accepted' = [accepted EXCEPT ![d] = a] /\ frame' = frame /\ receipt' = receipt
      /\ subStatus' = subStatus /\ disturbed' = disturbed /\ died' = died
  <2>1. W!Count(d, answer) /\ W!Goto(d, l) /\ pc[d] = "send"
        /\ UNCHANGED <<subStatus, receipt, frame, disturbed, died>>
    BY DEF W!Send
  <2>2. sent' = [sent EXCEPT ![d] = n] /\ accepted' = [accepted EXCEPT ![d] = a]
    BY <2>1 DEF W!Count, WebhookInv, WebhookTypes
  <2>3. QED
    BY <2>1, <2>2 DEF W!Goto
<1>2. /\ l \in {"accepted", "refused", "caught"} /\ (l = "accepted" <=> answer = "ok")
  BY DEF W!Answers
<1>3. /\ n \in Nat /\ a \in Nat /\ n = sent[d] + 1 /\ sent[d] \in Nat /\ accepted[d] \in Nat
      /\ (answer = "ok" => a = accepted[d] + 1) /\ (answer # "ok" => a = accepted[d])
      /\ frame[d].attempt \in Nat /\ receipt[d].attempts \in Nat
  BY AWorker
<1> HIDE DEF l, n, a
<1>4. l \in WorkerAt
  BY <1>2 DEF WorkerAt
<1>5. ASSUME pc'[d] = l, sent'[d] = n, accepted'[d] = a, Retries(d)' = Retries(d),
             \A o \in Operators : pc'[o] = pc[o] /\ frame'[o] = frame[o]
      PROVE  DeliveryOK(d)'
  <2>1. SeenOK(d)'
    <3>1. accepted[d] > 0 => a > 0
      BY <1>3
    <3>2. answer = "ok" => a > 0
      BY <1>3
    <3>3. \A o \in Retries(d) : frame'[o] = frame[o]
      BY <1>5 DEF Retries
    <3>4. QED
      BY <1>1, <1>2, <1>4, <1>5, <3>1, <3>2, <3>3, AWorker DEF DeliveryOK, SeenOK
  <2>2. HonestOK(d)'
    <3> SUFFICES ASSUME W!Stored(d), d \notin disturbed \cup died
                 PROVE  WorkerSaw(d)' /\ Retries(d) = {}
      BY <1>1, <1>2, <1>5 DEF HonestOK, W!Stored, W!NoReceipt
    <3>1. WorkerSaw(d) /\ \A o \in Retries(d) : RetrySaw(o, d)
      BY AWorker DEF DeliveryOK, HonestOK
    <3>2. Retries(d) = {}
      BY <1>1, <3>1 DEF RetrySaw
    <3>3. /\ frame[d].attempt = sent[d] + 1 /\ receipt[d].attempts = sent[d]
          /\ accepted[d] = 0 /\ receipt[d].status = "pending" /\ ~receipt[d].deliveredAt
          /\ frame[d].attempt <= MaxAttempts
      BY <1>1, <3>1 DEF WorkerSaw
    <3>4. /\ frame[d].attempt = n /\ receipt[d].attempts + 1 = n
          /\ (l = "accepted" => a = 1) /\ (l # "accepted" => a = 0)
      BY <1>2, <1>3, <3>3
    <3>5. WorkerSaw(d)'
      BY <1>1, <1>2, <1>5, <3>3, <3>4 DEF WorkerSaw
    <3>6. QED
      BY <3>2, <3>5
  <2>3. QED
    BY <2>1, <2>2 DEF DeliveryOK
<1>6. /\ receipt' = [receipt EXCEPT ![d] = receipt[d]] /\ frame' = [frame EXCEPT ![d] = frame[d]]
      /\ receipt[d] \in Receipt /\ frame[d] \in Hold
  BY <1>1, AWorker
<1>7. QED
  BY <1>1, <1>3, <1>4, <1>5, <1>6, WorkerMoves

LEMMA WorkerLabels == WorkerAt = {"unused", "create", "send", "accepted", "book", "refused",
                                  "caught", "give_up", "done"}
  BY DEF WorkerAt

\* A worker moves on without writing.
LEMMA LabelMoves ==
    ASSUME WebhookInv, NEW d \in W!Deliveries, NEW l \in WorkerAt,
           pc' = [pc EXCEPT ![d] = l],
           UNCHANGED <<subStatus, receipt, frame, sent, accepted>>,
           disturbed \subseteq disturbed', died \subseteq died',
           pc'[d] = l /\ Retries(d)' = Retries(d)
              /\ (\A o \in Operators : pc'[o] = pc[o] /\ frame'[o] = frame[o])
              => DeliveryOK(d)'
    PROVE  WebhookInv'
<1>1. WebhookTypes /\ d \in W!Workers /\ \A e \in W!Deliveries : e \in W!Workers
  BY DEF WebhookInv, W!Workers
<1>2. \A o \in Operators : o \in W!Workers /\ o # d
  BY OperatorsAreNoDeliveries DEF W!Workers
<1>3. \A o \in Operators : pc'[o] = pc[o] /\ frame'[o] = frame[o]
  BY <1>1, <1>2 DEF WebhookTypes
<1>4. Retries(d)' = Retries(d)
  BY <1>3 DEF Retries
<1>5. pc'[d] = l
  BY <1>1 DEF WebhookTypes
<1>6. DeliveryOK(d)'
  BY <1>3, <1>4, <1>5
<1>7. \A e \in W!Deliveries \ {d} :
         /\ pc'[e] = pc[e] /\ frame'[e] = frame[e] /\ receipt'[e] = receipt[e]
         /\ sent'[e] = sent[e] /\ accepted'[e] = accepted[e]
  BY <1>1 DEF WebhookTypes
<1>8. WebhookTypes'
  BY <1>1 DEF WebhookTypes
<1>9. QED
  BY <1>3, <1>6, <1>7, <1>8, OneDelivery

\* A worker writes the row.
LEMMA RowMoves ==
    ASSUME WebhookInv, NEW d \in W!Deliveries, NEW l \in WorkerAt, NEW r \in Receipt,
           NEW f \in Hold,
           pc' = [pc EXCEPT ![d] = l], receipt' = [receipt EXCEPT ![d] = r],
           frame' = [frame EXCEPT ![d] = f],
           UNCHANGED <<subStatus, sent, accepted, disturbed, died>>,
           pc'[d] = l /\ receipt'[d] = r /\ frame'[d] = f /\ Retries(d)' = Retries(d)
              /\ sent'[d] = sent[d] /\ accepted'[d] = accepted[d]
              /\ (\A o \in Operators : pc'[o] = pc[o] /\ frame'[o] = frame[o])
              => DeliveryOK(d)'
    PROVE  WebhookInv'
<1>1. WebhookTypes /\ d \in W!Workers /\ \A e \in W!Deliveries : e \in W!Workers
  BY DEF WebhookInv, W!Workers
<1>2. \A o \in Operators : o \in W!Workers /\ o # d
  BY OperatorsAreNoDeliveries DEF W!Workers
<1>3. \A o \in Operators : pc'[o] = pc[o] /\ frame'[o] = frame[o]
  BY <1>1, <1>2 DEF WebhookTypes
<1>4. Retries(d)' = Retries(d)
  BY <1>3 DEF Retries
<1>5. pc'[d] = l /\ receipt'[d] = r /\ frame'[d] = f
  BY <1>1 DEF WebhookTypes
<1>6. DeliveryOK(d)'
  BY <1>3, <1>4, <1>5
<1>7. \A e \in W!Deliveries \ {d} :
         /\ pc'[e] = pc[e] /\ frame'[e] = frame[e] /\ receipt'[e] = receipt[e]
         /\ sent'[e] = sent[e] /\ accepted'[e] = accepted[e]
  BY <1>1 DEF WebhookTypes
<1>8. WebhookTypes'
  BY <1>1 DEF WebhookTypes
<1>9. QED
  BY <1>3, <1>6, <1>7, <1>8, OneDelivery

\* The retries of a delivery whose worker is not done: an undisturbed one has none.
LEMMA WorksAlone ==
    ASSUME WebhookInv, NEW d \in W!Deliveries, W!Stored(d), d \notin disturbed \cup died
    PROVE  /\ WorkerSaw(d)
           /\ pc[d] # "done" => Retries(d) = {}
           /\ \A o \in Retries(d) : RetrySaw(o, d)
           /\ pc[d] = "done" /\ Retries(d) = {} => Settled(d)
  BY AWorker DEF DeliveryOK, HonestOK, RetrySaw

LEMMA RecordDeliveredKeeps ==
    ASSUME WebhookInv, NEW d \in W!Deliveries, W!RecordDelivered(d)
    PROVE  WebhookInv'
<1> DEFINE r == [status |-> "delivered", deliveredAt |-> TRUE, attempts |-> frame[d].attempt]
<1>1. /\ pc[d] = "accepted" /\ W!Stored(d) /\ receipt' = [receipt EXCEPT ![d] = r]
      /\ pc' = [pc EXCEPT ![d] = "book"]
      /\ UNCHANGED <<subStatus, sent, accepted, disturbed, died>>
      /\ frame' = [frame EXCEPT ![d] = frame[d]]
  BY AWorker DEF W!RecordDelivered, W!Goto
<1>2. /\ r \in Receipt /\ r.status = "delivered" /\ r.deliveredAt
      /\ r.attempts = frame[d].attempt
  BY AWorker DEF Receipt
<1> HIDE DEF r
<1>3. "book" \in WorkerAt /\ frame[d] \in Hold
  BY AWorker DEF WorkerAt
<1>4. ASSUME pc'[d] = "book", receipt'[d] = r, frame'[d] = frame[d], Retries(d)' = Retries(d),
             sent'[d] = sent[d], accepted'[d] = accepted[d]
      PROVE  DeliveryOK(d)'
  <2>1. accepted[d] > 0
    BY <1>1, AWorker DEF DeliveryOK, SeenOK
  <2>2. SeenOK(d)'
    BY <1>3, <1>4, <2>1 DEF SeenOK
  <2>3. ASSUME d \notin disturbed \cup died PROVE WorkerSaw(d)' /\ Retries(d) = {}
    <3>1. WorkerSaw(d) /\ Retries(d) = {}
      BY <1>1, <2>3, WorksAlone
    <3>2. QED
      BY <1>1, <1>2, <1>4, <3>1 DEF WorkerSaw
  <2>4. HonestOK(d)'
    BY <1>1, <1>4, <2>3 DEF HonestOK
  <2>5. QED
    BY <2>2, <2>4 DEF DeliveryOK
<1>5. QED
  BY <1>1, <1>2, <1>3, <1>4, RowMoves

LEMMA BookKeeps ==
    ASSUME WebhookInv, NEW d \in W!Deliveries, W!Book(d)
    PROVE  WebhookInv'
<1>1. /\ pc[d] = "book" /\ pc' = [pc EXCEPT ![d] = "done"]
      /\ UNCHANGED <<subStatus, receipt, frame, sent, accepted, disturbed, died>>
  BY DEF W!Book, W!Goto
<1>2. "done" \in WorkerAt
  BY DEF WorkerAt
<1>3. ASSUME pc'[d] = "done", Retries(d)' = Retries(d),
             \A o \in Operators : pc'[o] = pc[o] /\ frame'[o] = frame[o]
      PROVE  DeliveryOK(d)'
  <2>1. SeenOK(d)'
    BY <1>1, <1>2, <1>3, AWorker DEF DeliveryOK, SeenOK, Retries
  <2>2. ASSUME W!Stored(d), d \notin disturbed \cup died
        PROVE  WorkerSaw(d)' /\ Retries(d) = {} /\ Settled(d)'
    <3>1. WorkerSaw(d) /\ Retries(d) = {}
      BY <1>1, <2>2, WorksAlone
    <3>2. /\ receipt[d].attempts = sent[d] /\ accepted[d] = 1 /\ receipt[d].deliveredAt
          /\ receipt[d].status = "delivered"
      BY <1>1, <3>1 DEF WorkerSaw
    <3>3. Settled(d)'
      BY <1>1, <3>2 DEF Settled
    <3>4. WorkerSaw(d)'
      BY <1>1, <1>3, <3>2 DEF WorkerSaw
    <3>5. QED
      BY <3>1, <3>3, <3>4
  <2>3. HonestOK(d)'
    BY <1>1, <1>3, <2>2 DEF HonestOK, W!Stored, W!NoReceipt
  <2>4. QED
    BY <2>1, <2>3 DEF DeliveryOK
<1>4. QED
  BY <1>1, <1>2, <1>3, LabelMoves

LEMMA ThrowsKeeps ==
    ASSUME WebhookInv, NEW d \in W!Deliveries, W!Throws(d)
    PROVE  WebhookInv'
<1>1. /\ pc[d] \in {"accepted", "book", "refused"} /\ pc' = [pc EXCEPT ![d] = "caught"]
      /\ UNCHANGED <<subStatus, receipt, frame, sent, accepted, died>>
      /\ disturbed \subseteq disturbed' /\ (pc[d] = "refused" \/ d \in disturbed')
  BY DEF W!Throws, W!Goto
<1>2. "caught" \in WorkerAt
  BY DEF WorkerAt
<1>3. ASSUME pc'[d] = "caught", Retries(d)' = Retries(d),
             \A o \in Operators : pc'[o] = pc[o] /\ frame'[o] = frame[o]
      PROVE  DeliveryOK(d)'
  <2>1. SeenOK(d)'
    BY <1>1, <1>2, <1>3, AWorker DEF DeliveryOK, SeenOK, Retries
  <2>2. ASSUME W!Stored(d), d \notin disturbed' \cup died
        PROVE  WorkerSaw(d)' /\ Retries(d) = {}
    <3>1. WorkerSaw(d) /\ Retries(d) = {} /\ pc[d] = "refused"
      BY <1>1, <2>2, WorksAlone
    <3>2. WorkerSaw(d)'
      BY <1>1, <1>3, <3>1 DEF WorkerSaw
    <3>3. QED
      BY <3>1, <3>2
  <2>3. HonestOK(d)'
    BY <1>1, <1>3, <2>2 DEF HonestOK, W!Stored, W!NoReceipt
  <2>4. QED
    BY <2>1, <2>3 DEF DeliveryOK
<1>4. QED
  BY <1>1, <1>2, <1>3, LabelMoves

LEMMA RecordFailureKeeps ==
    ASSUME WebhookInv, NEW d \in W!Deliveries, W!RecordFailure(d)
    PROVE  WebhookInv'
<1> DEFINE last == frame[d].attempt = MaxAttempts
           t == frame[d].attempt
           l == IF last THEN "give_up" ELSE "send"
           s == IF last THEN "abandoned" ELSE "pending"
           r == [receipt[d] EXCEPT !.status = s, !.attempts = t]
           f == IF last THEN frame[d] ELSE [frame[d] EXCEPT !.attempt = t + 1]
<1>1. /\ pc[d] \in {"refused", "caught"} /\ W!Stored(d) /\ receipt' = [receipt EXCEPT ![d] = r]
      /\ pc' = [pc EXCEPT ![d] = l] /\ frame' = [frame EXCEPT ![d] = f]
      /\ UNCHANGED <<subStatus, sent, accepted, disturbed, died>>
  <2>1. frame' = IF last THEN frame ELSE [frame EXCEPT ![d].attempt = @ + 1]
    BY DEF W!RecordFailure
  <2>2. frame' = [frame EXCEPT ![d] = f]
    BY <2>1, AWorker DEF WebhookInv, WebhookTypes
  <2>3. receipt' = [receipt EXCEPT ![d] = r]
    BY AWorker DEF W!RecordFailure, W!Write, WebhookInv, WebhookTypes
  <2>4. QED
    BY <2>2, <2>3 DEF W!RecordFailure, W!Goto
<1>2. t \in Nat /\ s \in {"pending", "abandoned"} /\ l \in {"give_up", "send"}
      /\ (last <=> t = MaxAttempts) /\ (last <=> s = "abandoned") /\ (last <=> l = "give_up")
  BY AWorker
<1>3. /\ r \in Receipt /\ r.status = s /\ r.attempts = t /\ r.deliveredAt = receipt[d].deliveredAt
  <2> HIDE DEF s, t, l
  <2>1. QED
    BY <1>2, AWorker DEF Receipt
<1>4. f \in Hold /\ (last => f.attempt = t) /\ (~last => f.attempt = t + 1)
  <2>1. CASE last
    BY <2>1, AWorker
  <2>2. CASE ~last
    <3>1. f = [frame[d] EXCEPT !.attempt = t + 1] /\ t + 1 \in Nat
      BY <1>2, <2>2
    <3> HIDE DEF f
    <3>2. QED
      BY <2>2, <3>1, AWorker DEF Hold
  <2>3. QED
    BY <2>1, <2>2
<1>5. frame[d].attempt = t
  OBVIOUS
<1> HIDE DEF last, t, l, s, r, f
<1>6. l \in WorkerAt
  BY <1>2 DEF WorkerAt
<1>7. ASSUME pc'[d] = l, receipt'[d] = r, frame'[d] = f, Retries(d)' = Retries(d),
             sent'[d] = sent[d], accepted'[d] = accepted[d],
             \A o \in Operators : pc'[o] = pc[o] /\ frame'[o] = frame[o]
      PROVE  DeliveryOK(d)'
  <2>1. SeenOK(d)'
    BY <1>1, <1>2, <1>3, <1>6, <1>7, AWorker DEF DeliveryOK, SeenOK, Retries
  <2>2. ASSUME d \notin disturbed \cup died
        PROVE  WorkerSaw(d)' /\ Retries(d) = {}
    <3>1. WorkerSaw(d) /\ Retries(d) = {}
      BY <1>1, <2>2, WorksAlone
    <3>2. /\ sent[d] = t /\ accepted[d] = 0 /\ ~receipt[d].deliveredAt /\ t <= MaxAttempts
      BY <1>1, <1>5, <3>1 DEF WorkerSaw
    <3>3. CASE last
      BY <1>1, <1>2, <1>3, <1>4, <1>7, <3>1, <3>2, <3>3 DEF WorkerSaw
    <3>4. CASE ~last
      <4>1. t + 1 <= MaxAttempts
        BY <1>2, <3>2, <3>4, OperatorsAreNoDeliveries
      <4>2. WorkerSaw(d)'
        BY <1>1, <1>2, <1>3, <1>4, <1>7, <3>2, <3>4, <4>1 DEF WorkerSaw
      <4>3. QED
        BY <3>1, <4>2
    <3>5. QED
      BY <3>1, <3>3, <3>4
  <2>3. HonestOK(d)'
    BY <1>1, <1>2, <1>7, <2>2 DEF HonestOK
  <2>4. QED
    BY <2>1, <2>3 DEF DeliveryOK
<1>8. QED
  BY <1>1, <1>3, <1>4, <1>6, <1>7, RowMoves

LEMMA GiveUpKeeps ==
    ASSUME WebhookInv, NEW d \in W!Deliveries, W!GiveUp(d)
    PROVE  WebhookInv'
<1> DEFINE r == [receipt[d] EXCEPT !.status = "abandoned"]
<1>1. /\ pc[d] = "give_up" /\ W!Stored(d) /\ receipt' = [receipt EXCEPT ![d] = r]
      /\ pc' = [pc EXCEPT ![d] = "done"] /\ frame' = [frame EXCEPT ![d] = frame[d]]
      /\ UNCHANGED <<subStatus, sent, accepted, disturbed, died>>
  BY AWorker DEF W!GiveUp, W!Goto, WebhookInv, WebhookTypes
<1>2. /\ r \in Receipt /\ r.status = "abandoned" /\ r.attempts = receipt[d].attempts
      /\ r.deliveredAt = receipt[d].deliveredAt
  BY AWorker DEF Receipt
<1> HIDE DEF r
<1>3. "done" \in WorkerAt /\ frame[d] \in Hold
  BY AWorker DEF WorkerAt
<1>4. ASSUME pc'[d] = "done", receipt'[d] = r, frame'[d] = frame[d], Retries(d)' = Retries(d),
             sent'[d] = sent[d], accepted'[d] = accepted[d],
             \A o \in Operators : pc'[o] = pc[o] /\ frame'[o] = frame[o]
      PROVE  DeliveryOK(d)'
  <2>1. SeenOK(d)'
    BY <1>1, <1>2, <1>3, <1>4, AWorker DEF DeliveryOK, SeenOK, Retries
  <2>2. ASSUME d \notin disturbed \cup died
        PROVE  WorkerSaw(d)' /\ Retries(d) = {} /\ Settled(d)'
    <3>1. WorkerSaw(d) /\ Retries(d) = {}
      BY <1>1, <2>2, WorksAlone
    <3>2. /\ receipt[d].attempts = sent[d] /\ sent[d] = MaxAttempts /\ accepted[d] = 0
          /\ ~receipt[d].deliveredAt
      BY <1>1, <3>1 DEF WorkerSaw
    <3>3. WorkerSaw(d)'
      BY <1>1, <1>2, <1>4, <3>2 DEF WorkerSaw
    <3>4. Settled(d)'
      BY <1>1, <1>2, <1>4, <3>2, OperatorsAreNoDeliveries DEF Settled
    <3>5. QED
      BY <3>1, <3>3, <3>4
  <2>3. HonestOK(d)'
    BY <1>1, <1>4, <2>2 DEF HonestOK
  <2>4. QED
    BY <2>1, <2>3 DEF DeliveryOK
<1>5. QED
  BY <1>1, <1>2, <1>3, <1>4, RowMoves

\* The receipt is gone, or the worker dies.
LEMMA WorkerStops ==
    ASSUME WebhookInv, NEW d \in W!Deliveries, W!ReceiptGone(d) \/ W!AbandonWorker(d)
    PROVE  WebhookInv'
<1>1. /\ pc' = [pc EXCEPT ![d] = "done"] /\ (~W!Stored(d) \/ d \in died')
      /\ UNCHANGED <<subStatus, receipt, frame, sent, accepted, disturbed>>
      /\ died \subseteq died' /\ disturbed \subseteq disturbed'
  BY DEF W!ReceiptGone, W!AbandonWorker, W!Goto
<1>2. "done" \in WorkerAt
  BY DEF WorkerAt
<1>3. ASSUME pc'[d] = "done", Retries(d)' = Retries(d),
             \A o \in Operators : pc'[o] = pc[o] /\ frame'[o] = frame[o]
      PROVE  DeliveryOK(d)'
  <2>1. SeenOK(d)'
    BY <1>1, <1>2, <1>3, AWorker DEF DeliveryOK, SeenOK, Retries
  <2>2. HonestOK(d)'
    BY <1>1 DEF HonestOK, W!Stored, W!NoReceipt
  <2>3. QED
    BY <2>1, <2>2 DEF DeliveryOK
<1>4. QED
  BY <1>1, <1>2, <1>3, LabelMoves

LEMMA DispatchKeeps ==
    ASSUME WebhookInv, NEW e \in Events, NEW matching \in SUBSET Subs, W!Dispatch(e, matching)
    PROVE  WebhookInv'
<1>1. WebhookTypes
  BY DEF WebhookInv
<1>2. /\ pc' = [w \in W!Workers |-> IF w \notin Subs \X {e} THEN pc[w]
                   ELSE IF w[1] \in matching THEN "create" ELSE "done"]
      /\ \A s \in Subs : pc[<<s, e>>] = "unused"
      /\ UNCHANGED <<subStatus, receipt, frame, sent, accepted, disturbed, died>>
  BY DEF W!Dispatch
<1>3. ASSUME NEW d \in W!Deliveries PROVE DeliveryOK(d)'
  <2>1. DeliveryOK(d) /\ d \in W!Workers
    BY DEF WebhookInv, W!Workers
  <2>2. \A o \in Operators : pc'[o] = pc[o] /\ frame'[o] = frame[o]
    BY <1>2, OperatorsAreNoDeliveries DEF W!Workers, W!Deliveries
  <2>3. CASE d \notin Subs \X {e}
    <3>1. pc'[d] = pc[d]
      BY <1>2, <2>1, <2>3
    <3>2. QED
      BY <1>2, <2>1, <2>2, <3>1, ElseWhere DEF Retries
  <2>4. CASE d \in Subs \X {e}
    <3>1. pc[d] = "unused" /\ pc'[d] \in {"create", "done"}
      BY <1>2, <2>1, <2>4
    <3>2. /\ receipt[d] = W!NoReceipt /\ sent[d] = 0 /\ accepted[d] = 0 /\ Retries(d) = {}
      BY <2>1, <3>1 DEF DeliveryOK, SeenOK
    <3>3. Retries(d)' = Retries(d) /\ pc'[d] \in WorkerAt
      BY <1>2, <3>1 DEF Retries, WorkerAt
    <3>4. QED
      BY <1>2, <3>1, <3>2, <3>3, NoRow
         DEF DeliveryOK, SeenOK, HonestOK, W!Stored, W!NoReceipt
  <2>5. QED
    BY <2>3, <2>4
<1>4. \A o \in Operators : RetryOK(o)'
  <2>1. \A o \in Operators : pc'[o] = pc[o] /\ frame'[o] = frame[o]
    BY <1>2, OperatorsAreNoDeliveries DEF W!Workers, W!Deliveries
  <2>2. QED
    BY <2>1 DEF WebhookInv, RetryOK, W!NoFrame
<1>5. WebhookTypes'
  BY <1>1, <1>2 DEF WebhookTypes, WorkerAt
<1>6. QED
  BY <1>3, <1>4, <1>5 DEF WebhookInv

LEMMA SubscriptionKeeps ==
    ASSUME WebhookInv, NEW s \in Subs,
           W!DeleteWebhook(s) \/ \E status \in {"active", "paused"} : W!SetStatus(s, status)
    PROVE  WebhookInv'
<1>1. WebhookTypes
  BY DEF WebhookInv
<1>2. /\ \A d \in W!Deliveries : receipt'[d] \in {receipt[d], W!NoReceipt}
      /\ receipt' \in [W!Deliveries -> Receipt] /\ subStatus' \in [Subs -> {"active", "paused", "none"}]
      /\ UNCHANGED <<pc, frame, sent, accepted, disturbed, died>>
  <2>1. CASE W!DeleteWebhook(s)
    BY <1>1, <2>1, NoRow DEF W!DeleteWebhook, WebhookTypes
  <2>2. CASE \E status \in {"active", "paused"} : W!SetStatus(s, status)
    BY <1>1, <2>2 DEF W!SetStatus, WebhookTypes
  <2>3. QED
    BY <2>1, <2>2
<1>3. ASSUME NEW d \in W!Deliveries PROVE DeliveryOK(d)'
  <2>1. DeliveryOK(d)
    BY DEF WebhookInv
  <2>2. CASE receipt'[d] = receipt[d]
    BY <1>2, <2>1, <2>2, ElseWhere
  <2>3. CASE receipt'[d] = W!NoReceipt
    BY <1>2, <2>1, <2>3, NoRow
       DEF DeliveryOK, SeenOK, HonestOK, W!Stored, W!NoReceipt, Retries
  <2>4. QED
    BY <1>2, <2>2, <2>3
<1>4. \A o \in Operators : RetryOK(o)'
  BY <1>2 DEF WebhookInv, RetryOK, W!NoFrame
<1>5. WebhookTypes'
  BY <1>1, <1>2 DEF WebhookTypes
<1>6. QED
  BY <1>3, <1>4, <1>5 DEF WebhookInv

\* A step of a retry, and of the delivery it has in hand.
LEMMA OneRetry ==
    ASSUME WebhookInv, NEW o \in Operators, NEW d \in W!Deliveries, WebhookTypes',
           \A w \in W!Workers : w # o => pc'[w] = pc[w] /\ frame'[w] = frame[w],
           \A e \in W!Deliveries \ {d} :
              receipt'[e] = receipt[e] /\ sent'[e] = sent[e] /\ accepted'[e] = accepted[e],
           disturbed \subseteq disturbed', died \subseteq died',
           frame[o].of \in {<<>>, d}, frame'[o].of \in {<<>>, d},
           RetryOK(o)', DeliveryOK(d)'
    PROVE  WebhookInv'
<1>1. ASSUME NEW e \in W!Deliveries, e # d PROVE DeliveryOK(e)'
  <2>1. DeliveryOK(e) /\ e \in W!Workers /\ e # o /\ e # <<>>
    BY OperatorsAreNoDeliveries, NothingIsNoDelivery DEF WebhookInv, W!Workers
  <2>2. \A q \in Operators : frame'[q].of = e <=> frame[q].of = e
    BY <1>1, <2>1 DEF W!Workers
  <2>3. \A q \in Retries(e) : frame'[q] = frame[q] /\ pc'[q] = pc[q]
    BY <1>1, <2>1 DEF W!Workers, Retries
  <2>4. /\ pc'[e] = pc[e] /\ frame'[e] = frame[e] /\ receipt'[e] = receipt[e]
        /\ sent'[e] = sent[e] /\ accepted'[e] = accepted[e]
    BY <1>1, <2>1
  <2>5. QED
    BY <2>1, <2>2, <2>3, <2>4, ElseWhere
<1>2. ASSUME NEW q \in Operators PROVE RetryOK(q)'
  <2>1. CASE q = o
    BY <2>1
  <2>2. CASE q # o
    BY <2>2 DEF WebhookInv, RetryOK, W!NoFrame, W!Workers
  <2>3. QED
    BY <2>1, <2>2
<1>3. QED
  BY <1>1, <1>2 DEF WebhookInv

\* What is known of a retry at work on d.
LEMMA ARetry ==
    ASSUME WebhookInv, NEW o \in Operators
    PROVE  /\ WebhookTypes /\ o \in W!Workers /\ o \notin W!Deliveries /\ RetryOK(o)
           /\ frame[o] \in Hold /\ frame[o].attempt \in Nat
           /\ pc[o] # "idle" => frame[o].of \in W!Deliveries
<1>1. WebhookTypes /\ o \in W!Workers /\ o \notin W!Deliveries /\ RetryOK(o)
  BY OperatorsAreNoDeliveries DEF WebhookInv, W!Workers
<1>2. frame[o] \in Hold
  BY <1>1 DEF WebhookTypes
<1>3. QED
  BY <1>1, <1>2 DEF RetryOK, Hold

LEMMA RetryBegins ==
    ASSUME WebhookInv, NEW o \in Operators, NEW d \in W!Deliveries, W!Retry(o, d)
    PROVE  WebhookInv'
<1> DEFINE t == receipt[d].attempts + 1
           f == [W!NoFrame EXCEPT !.of = d, !.attempt = t]
<1>1. /\ pc[o] = "idle" /\ W!Stored(d) /\ receipt[d].status # "delivered"
      /\ frame' = [frame EXCEPT ![o] = f] /\ pc' = [pc EXCEPT ![o] = "resend"]
      /\ disturbed' = IF W!InHand(d) THEN disturbed \cup {d} ELSE disturbed
      /\ UNCHANGED <<subStatus, receipt, sent, accepted, died>>
  BY DEF W!Retry, W!Goto
<1>2. t \in Nat /\ t = receipt[d].attempts + 1
  BY AWorker
<1> HIDE DEF t
<1>3. f \in Hold /\ f.of = d /\ f.attempt = t /\ f.outcome = "none"
  BY <1>2 DEF W!NoFrame, Hold
<1> HIDE DEF f
<1>4. WebhookTypes /\ o \in W!Workers /\ o \notin W!Deliveries /\ frame[o].of = <<>>
  BY <1>1, ARetry DEF RetryOK
<1>5. /\ WebhookTypes' /\ pc'[o] = "resend" /\ frame'[o] = f
      /\ \A w \in W!Workers : w # o => pc'[w] = pc[w] /\ frame'[w] = frame[w]
  BY <1>1, <1>3, <1>4 DEF WebhookTypes, RetryAt
<1>6. RetryOK(o)'
  BY <1>3, <1>5, NothingIsNoDelivery DEF RetryOK, RetryAt
<1>7. pc'[d] = pc[d] /\ frame'[d] = frame[d] /\ Retries(d)' = Retries(d) \cup {o}
      /\ \A q \in Retries(d) : pc'[q] = pc[q] /\ frame'[q] = frame[q]
  BY <1>3, <1>4, <1>5, NothingIsNoDelivery DEF Retries, W!Workers
<1>8. SeenOK(d)'
  <2>1. pc[d] \notin {"unused", "create"}
    BY <1>1, AWorker DEF DeliveryOK, SeenOK, W!Stored
  <2>2. QED
    BY <1>1, <1>3, <1>5, <1>7, <2>1, AWorker DEF DeliveryOK, SeenOK
<1>9. HonestOK(d)'
  <2> SUFFICES ASSUME d \notin disturbed' \cup died
               PROVE  WorkerSaw(d)' /\ Retries(d)' = {o} /\ RetrySaw(o, d)'
    BY <1>1 DEF HonestOK
  <2>1. ~W!InHand(d) /\ d \notin disturbed
    BY <1>1
  <2>2. Retries(d) = {} /\ pc[d] \in W!Finished
    BY <2>1 DEF W!InHand, Retries
  <2>3. pc[d] = "done"
    BY <1>1, <2>2, AWorker DEF W!Finished, DeliveryOK, SeenOK, WorkerAt, W!Stored
  <2>4. WorkerSaw(d) /\ Settled(d)
    BY <1>1, <2>1, <2>2, <2>3, WorksAlone
  <2>5. /\ receipt[d].status = "abandoned" /\ ~receipt[d].deliveredAt
        /\ receipt[d].attempts = sent[d] /\ accepted[d] = 0 /\ sent[d] >= MaxAttempts
    BY <1>1, <2>4 DEF Settled
  <2>6. WorkerSaw(d)'
    BY <1>1, <1>7, <2>3, <2>5 DEF WorkerSaw
  <2>7. Retries(d)' = {o}
    BY <1>7, <2>2
  <2>8. RetrySaw(o, d)'
    BY <1>1, <1>2, <1>3, <1>5, <1>7, <2>3, <2>5, <2>7 DEF RetrySaw
  <2>9. QED
    BY <2>6, <2>7, <2>8
<1>10. QED
  BY <1>1, <1>3, <1>4, <1>5, <1>6, <1>8, <1>9, OneRetry DEF DeliveryOK

LEMMA ResendKeeps ==
    ASSUME WebhookInv, NEW o \in Operators, NEW answer \in W!Answers, W!Resend(o, answer)
    PROVE  WebhookInv'
<1>0. PICK d \in W!Deliveries : d = frame[o].of
  BY ARetry DEF W!Resend
<1> DEFINE s == IF answer = "ok" THEN "delivered" ELSE "abandoned"
           f == [frame[o] EXCEPT !.outcome = s]
           n == sent[d] + 1
           a == IF answer = "ok" THEN accepted[d] + 1 ELSE accepted[d]
<1>1. pc[o] = "resend"
  BY DEF W!Resend
<1>2. WebhookTypes /\ o \in W!Workers /\ o \notin W!Deliveries /\ d \in W!Deliveries
      /\ frame[o] \in Hold
  BY <1>1, ARetry
<1>3. /\ frame' = [frame EXCEPT ![o] = f] /\ pc' = [pc EXCEPT ![o] = "record"]
      /\ sent' = [sent EXCEPT ![d] = n] /\ accepted' = [accepted EXCEPT ![d] = a]
      /\ UNCHANGED <<subStatus, receipt, disturbed, died>>
  <2>1. W!Count(d, answer) /\ W!Goto(o, "record")
        /\ frame' = [frame EXCEPT ![o].outcome = s]
        /\ UNCHANGED <<subStatus, receipt, disturbed, died>>
    BY <1>0 DEF W!Resend
  <2>2. sent' = [sent EXCEPT ![d] = n] /\ accepted' = [accepted EXCEPT ![d] = a]
    BY <1>2, <2>1 DEF W!Count, WebhookTypes
  <2>3. QED
    BY <1>2, <2>1, <2>2 DEF W!Goto, WebhookTypes
<1>4. s \in {"delivered", "abandoned"} /\ (s = "delivered" <=> answer = "ok")
  OBVIOUS
<1>5. /\ n \in Nat /\ a \in Nat /\ sent[d] \in Nat /\ accepted[d] \in Nat /\ n = sent[d] + 1
      /\ (s = "delivered" => a = accepted[d] + 1) /\ (s # "delivered" => a = accepted[d])
  BY <1>2, <1>4, AWorker
<1> HIDE DEF s, n, a
<1>6. f \in Hold /\ f.of = d /\ f.outcome = s /\ f.attempt = frame[o].attempt
  BY <1>0, <1>2, <1>4 DEF Hold
<1>7. d = frame[o].of
  BY <1>0
<1> HIDE DEF f
<1>8. /\ WebhookTypes' /\ pc'[o] = "record" /\ frame'[o] = f /\ sent'[d] = n /\ accepted'[d] = a
      /\ \A w \in W!Workers : w # o => pc'[w] = pc[w] /\ frame'[w] = frame[w]
      /\ \A e \in W!Deliveries \ {d} : receipt'[e] = receipt[e] /\ sent'[e] = sent[e]
                                      /\ accepted'[e] = accepted[e]
  BY <1>2, <1>3, <1>5, <1>6 DEF WebhookTypes, RetryAt
<1>9. RetryOK(o)'
  BY <1>2, <1>6, <1>8, NothingIsNoDelivery DEF RetryOK, RetryAt
<1>10. pc'[d] = pc[d] /\ frame'[d] = frame[d] /\ Retries(d)' = Retries(d) /\ o \in Retries(d)
       /\ \A q \in Retries(d) : q # o => pc'[q] = pc[q] /\ frame'[q] = frame[q]
  BY <1>2, <1>6, <1>7, <1>8 DEF Retries, W!Workers
<1>11. SeenOK(d)'
  <2>1. accepted[d] > 0 \/ s = "delivered" => a > 0
    BY <1>5
  <2>2. QED
    BY <1>2, <1>3, <1>6, <1>8, <1>10, <2>1, AWorker DEF DeliveryOK, SeenOK
<1>12. HonestOK(d)'
  <2> SUFFICES ASSUME W!Stored(d), d \notin disturbed \cup died
               PROVE  WorkerSaw(d)' /\ Retries(d) = {o} /\ RetrySaw(o, d)'
    BY <1>3, <1>10 DEF HonestOK, W!Stored, W!NoReceipt
  <2>1. WorkerSaw(d) /\ RetrySaw(o, d)
    BY <1>2, <1>10, WorksAlone
  <2>2. /\ pc[d] = "done" /\ Retries(d) = {o}
        /\ receipt[d].status = "abandoned" /\ ~receipt[d].deliveredAt
        /\ receipt[d].attempts >= MaxAttempts /\ frame[o].attempt = receipt[d].attempts + 1
        /\ sent[d] = receipt[d].attempts /\ accepted[d] = 0
    BY <1>1, <2>1 DEF RetrySaw
  <2>3. n = f.attempt /\ a = (IF s = "delivered" THEN 1 ELSE 0)
    BY <1>5, <1>6, <2>2
  <2>4. WorkerSaw(d)'
    BY <1>3, <1>10, <2>2 DEF WorkerSaw
  <2>5. RetrySaw(o, d)'
    BY <1>3, <1>4, <1>6, <1>8, <1>10, <2>2, <2>3 DEF RetrySaw
  <2>6. QED
    BY <2>2, <2>4, <2>5
<1>13. QED
  BY <1>2, <1>3, <1>6, <1>7, <1>8, <1>9, <1>11, <1>12, OneRetry DEF DeliveryOK

LEMMA RecordRetryKeeps ==
    ASSUME WebhookInv, NEW o \in Operators, W!RecordRetry(o)
    PROVE  WebhookInv'
<1>0. PICK d \in W!Deliveries : d = frame[o].of
  BY ARetry DEF W!RecordRetry
<1> DEFINE r == [status |-> frame[o].outcome, attempts |-> frame[o].attempt,
                 deliveredAt |-> frame[o].outcome = "delivered"]
<1>1. pc[o] = "record" /\ W!Stored(d)
  BY <1>0 DEF W!RecordRetry
<1>2. WebhookTypes /\ o \in W!Workers /\ o \notin W!Deliveries /\ d \in W!Deliveries
      /\ frame[o] \in Hold
  BY <1>1, ARetry
<1>3. /\ frame' = [frame EXCEPT ![o] = W!NoFrame] /\ pc' = [pc EXCEPT ![o] = "idle"]
      /\ receipt' = [receipt EXCEPT ![d] = r]
      /\ UNCHANGED <<subStatus, sent, accepted, disturbed, died>>
  BY <1>0 DEF W!RecordRetry, W!Goto
<1>4. r \in Receipt /\ r.status = frame[o].outcome /\ r.attempts = frame[o].attempt
      /\ (r.deliveredAt <=> frame[o].outcome = "delivered")
  BY <1>2 DEF Hold, Receipt
<1>5. d = frame[o].of
  BY <1>0
<1> HIDE DEF r
<1>6. /\ WebhookTypes' /\ pc'[o] = "idle" /\ frame'[o] = W!NoFrame /\ receipt'[d] = r
      /\ \A w \in W!Workers : w # o => pc'[w] = pc[w] /\ frame'[w] = frame[w]
      /\ \A e \in W!Deliveries \ {d} : receipt'[e] = receipt[e] /\ sent'[e] = sent[e]
                                      /\ accepted'[e] = accepted[e]
  BY <1>2, <1>3, <1>4, NoRow DEF WebhookTypes, RetryAt
<1>7. RetryOK(o)'
  BY <1>6, NoRow DEF RetryOK, RetryAt, W!NoFrame
<1>8. pc'[d] = pc[d] /\ frame'[d] = frame[d] /\ Retries(d)' = Retries(d) \ {o} /\ o \in Retries(d)
      /\ \A q \in Retries(d) : q # o => pc'[q] = pc[q] /\ frame'[q] = frame[q]
  BY <1>2, <1>5, <1>6, NoRow, NothingIsNoDelivery DEF Retries, W!Workers
<1>9. SeenOK(d)'
  BY <1>2, <1>3, <1>4, <1>6, <1>8, AWorker DEF DeliveryOK, SeenOK
<1>10. HonestOK(d)'
  <2> SUFFICES ASSUME d \notin disturbed \cup died
               PROVE  WorkerSaw(d)' /\ Retries(d) = {o} /\ Settled(d)'
    BY <1>3, <1>8 DEF HonestOK
  <2>1. WorkerSaw(d) /\ RetrySaw(o, d)
    BY <1>1, <1>2, <1>5, <1>8, WorksAlone
  <2>2. /\ pc[d] = "done" /\ Retries(d) = {o} /\ receipt[d].attempts >= MaxAttempts
        /\ frame[o].attempt = receipt[d].attempts + 1 /\ sent[d] = frame[o].attempt
        /\ accepted[d] = (IF frame[o].outcome = "delivered" THEN 1 ELSE 0)
        /\ frame[o].outcome \in {"delivered", "abandoned"}
    BY <1>1, <2>1 DEF RetrySaw
  <2>3. sent[d] >= MaxAttempts
    BY <1>2, <2>2, AWorker, OperatorsAreNoDeliveries
  <2>4. WorkerSaw(d)'
    BY <1>3, <1>8, <2>2 DEF WorkerSaw
  <2>5. Settled(d)'
    BY <1>3, <1>4, <1>6, <2>2, <2>3 DEF Settled
  <2>6. QED
    BY <2>2, <2>4, <2>5
<1>11. QED
  BY <1>2, <1>3, <1>5, <1>6, <1>7, <1>9, <1>10, NoRow, OneRetry DEF DeliveryOK

LEMMA AbandonRetryKeeps ==
    ASSUME WebhookInv, NEW o \in Operators, W!AbandonRetry(o)
    PROVE  WebhookInv'
<1>0. PICK d \in W!Deliveries : d = frame[o].of
  BY ARetry DEF W!AbandonRetry
<1>1. /\ pc[o] # "idle" /\ pc' = [pc EXCEPT ![o] = "idle"]
      /\ frame' = [frame EXCEPT ![o] = W!NoFrame] /\ died' = died \cup {d}
      /\ UNCHANGED <<subStatus, receipt, sent, accepted, disturbed>>
  BY <1>0 DEF W!AbandonRetry, W!Goto
<1>2. WebhookTypes /\ o \in W!Workers /\ o \notin W!Deliveries /\ d \in W!Deliveries
  BY <1>1, ARetry
<1>3. d = frame[o].of
  BY <1>0
<1>4. /\ WebhookTypes' /\ pc'[o] = "idle" /\ frame'[o] = W!NoFrame
      /\ \A w \in W!Workers : w # o => pc'[w] = pc[w] /\ frame'[w] = frame[w]
  BY <1>1, <1>2, NoRow DEF WebhookTypes, RetryAt
<1>5. RetryOK(o)'
  BY <1>4, NoRow DEF RetryOK, RetryAt, W!NoFrame
<1>6. pc'[d] = pc[d] /\ frame'[d] = frame[d] /\ Retries(d)' = Retries(d) \ {o}
      /\ \A q \in Retries(d) : q # o => pc'[q] = pc[q] /\ frame'[q] = frame[q]
  BY <1>2, <1>3, <1>4, NoRow, NothingIsNoDelivery DEF Retries, W!Workers
<1>7. SeenOK(d)'
  BY <1>1, <1>2, <1>6, AWorker DEF DeliveryOK, SeenOK
<1>8. HonestOK(d)'
  BY <1>1 DEF HonestOK
<1>9. QED
  BY <1>1, <1>2, <1>3, <1>4, <1>5, <1>7, <1>8, NoRow, OneRetry DEF DeliveryOK

LEMMA WebhooksKeep == WebhookInv /\ W!Next => WebhookInv'
<1> SUFFICES ASSUME WebhookInv, W!Next PROVE WebhookInv'
  OBVIOUS
<1>1. \/ \E s \in Subs : W!DeleteWebhook(s)
                         \/ \E status \in {"active", "paused"} : W!SetStatus(s, status)
      \/ \E e \in Events, matching \in SUBSET Subs : W!Dispatch(e, matching)
      \/ \E d \in W!Deliveries : W!Work(d) \/ W!AbandonWorker(d)
      \/ \E o \in Operators :
            \/ \E d \in W!Deliveries : W!Retry(o, d)
            \/ \E answer \in W!Answers : W!Resend(o, answer)
            \/ W!RecordRetry(o) \/ W!AbandonRetry(o)
  BY DEF W!Next
<1>2. ASSUME NEW d \in W!Deliveries, W!Work(d) PROVE WebhookInv'
  BY <1>2, CreateKeeps, SendKeeps, RecordDeliveredKeeps, BookKeeps, ThrowsKeeps,
     RecordFailureKeeps, GiveUpKeeps, WorkerStops DEF W!Work
<1>3. QED
  BY <1>1, <1>2, SubscriptionKeeps, DispatchKeeps, WorkerStops, RetryBegins, ResendKeeps,
     RecordRetryKeeps, AbandonRetryKeeps

LEMMA ReceiptsTell == WebhookInv => W!ReceiptTellsTheTruth
<1> SUFFICES ASSUME WebhookInv, NEW d \in W!Deliveries
             PROVE  /\ receipt[d].status = "delivered" => accepted[d] > 0
                    /\ W!Stored(d) /\ ~W!InHand(d) /\ d \notin disturbed \cup died =>
                          /\ receipt[d].attempts = sent[d]
                          /\ receipt[d].status = (IF accepted[d] = 1 THEN "delivered"
                                                  ELSE "abandoned")
                          /\ receipt[d].deliveredAt = (accepted[d] = 1)
                          /\ receipt[d].status = "abandoned" => sent[d] >= MaxAttempts
  BY DEF W!ReceiptTellsTheTruth
<1>1. receipt[d].status = "delivered" => accepted[d] > 0
  BY AWorker DEF DeliveryOK, SeenOK
<1>2. ASSUME W!Stored(d), ~W!InHand(d), d \notin disturbed \cup died PROVE Settled(d)
  <2>1. Retries(d) = {} /\ pc[d] \in W!Finished
    BY <1>2 DEF W!InHand, Retries
  <2>2. pc[d] = "done"
    BY <1>2, <2>1, AWorker DEF W!Finished, DeliveryOK, SeenOK, WorkerAt, W!Stored
  <2>3. QED
    BY <1>2, <2>1, <2>2, WorksAlone
<1>3. Settled(d) => receipt[d].deliveredAt = (accepted[d] = 1)
  BY AWorker DEF Settled
<1>4. QED
  BY <1>1, <1>2, <1>3 DEF Settled

(***************************************************************************)
(* A receipt that nobody has in hand says how many requests were made and  *)
(* whether the receiver accepted one of them, unless two worked on it, one *)
(* of them died or an acceptance was not recorded; and none says           *)
(* "delivered" without an acceptance (webhook-service.ts).                 *)
(***************************************************************************)
THEOREM ReceiptsTellTheTruth == FairSpec => []ReceiptTellsTheTruth
<1>1. Init => WebhookInv
  BY InitWebhooks DEF Init
<1>2. WebhookInv /\ [Next]_vars => WebhookInv'
  <2> SUFFICES ASSUME WebhookInv, [Next]_vars PROVE WebhookInv'
    OBVIOUS
  <2>1. W!Next \/ UNCHANGED webhookVars
    BY DEF Next, Webhooks, CommandCenter, vars
  <2>2. CASE UNCHANGED webhookVars
    BY <2>2 DEF webhookVars, WebhookInv, WebhookTypes, RetryOK, DeliveryOK, SeenOK, HonestOK,
       WorkerSaw, RetrySaw, Settled, Retries, W!Stored, W!NoReceipt, W!NoFrame
  <2>3. QED
    BY <2>1, <2>2, WebhooksKeep
<1>3. WebhookInv => ReceiptTellsTheTruth
  BY ReceiptsTell DEF ReceiptTellsTheTruth
<1>4. QED
  BY <1>1, <1>2, <1>3, PTL DEF FairSpec

-----------------------------------------------------------------------------
(***************************************************************************)
(* CommandCenter.  A pass that nothing has disturbed knows the world as it *)
(* is, and so does every pass while what was settled stays so; what it has *)
(* behind it is right, and what is left to open and resolve is what sets   *)
(* the open flags apart from those the rules ask for.                      *)
(***************************************************************************)
PassAt == {"idle", "probe", "page", "fetchHead", "storeHead", "listing", "compare",
           "fetchDeployment", "storeResource", "storeSnapshot", "snapshot", "list", "write"}
Deployment == [dep : Nat, status : C!DeployStatuses]

WorldTypes ==
    /\ health \in {"up", "degraded", "down", "missing", "none"} /\ page \in BOOLEAN /\ tells \in BOOLEAN
    /\ head \in Nat /\ live \in Nat /\ marks \in Seq(Marks) /\ Len(marks) = head
    /\ deployed \in Seq(C!DeployStatuses)
    /\ synced \subseteq {"github", "railway"}

MirrorTypes ==
    /\ mirrorHead \in Nat \cup {None} /\ listed \in Nat /\ listed <= head
    /\ resource \in {"none", "unlinked", "active", "inactive"}
    /\ "railway" \notin synced => resource # "active"
    /\ snaps \subseteq Deployment /\ \A a, b \in snaps : a.dep = b.dep => a = b
    /\ snaps # {} => deployed # <<>>

OpenTypes ==
    /\ \A row \in open : row[1] \in C!Categories
    /\ \A a, b \in open : a[1] = b[1] => a = b
    /\ "github" \notin synced => \A row \in open : row[1] \notin C!Owned.repo

HookTypes ==
    /\ railwaySent \subseteq Deployment /\ (railwaySent # {} => deployed # <<>>)
    /\ hookPc \in [Hooks -> {"idle", "snapshot"}]
    /\ \A h \in Hooks : hookPc[h] = "snapshot" => hookFrame[h] \in Deployment /\ deployed # <<>>
    /\ hookFrame \in [Hooks -> Deployment \cup {None}]

PassTypes ==
    /\ passPc \in [Passes -> PassAt] /\ DOMAIN passFrame = Passes
    /\ passFrame = [p \in Passes |-> passFrame[p]]
    /\ settled \in BOOLEAN

\* A frame, whatever it has seen.
IsFrame(f) ==
    /\ f = [leg |-> f.leg, live |-> f.live, got |-> f.got, ok |-> f.ok,
            want |-> f.want, seen |-> f.seen, lone |-> f.lone]
    /\ f.leg \in {"health", "repo", "deploy"} /\ f.live \in Nat \cup {None}
    /\ f.got \in Nat \cup {None} \cup Deployment
    /\ f.ok \in BOOLEAN /\ f.lone \in BOOLEAN
    /\ f.want \subseteq C!Owned[f.leg]

\* Where a pass is and what it holds there.
PassOK(p) ==
    LET f == passFrame[p] IN
    /\ IsFrame(f)
    /\ passPc[p] = "idle" => f = C!NoFrame
    /\ passPc[p] \in {"probe", "page"} => f.leg = "health"
    /\ passPc[p] \in {"fetchHead", "storeHead", "listing", "compare"} => f.leg = "repo"
    /\ f.leg = "repo" => "github" \in synced
    /\ passPc[p] \in {"fetchDeployment", "storeResource", "storeSnapshot", "snapshot"} =>
          f.leg = "deploy"
    /\ passPc[p] \in {"fetchDeployment", "storeResource", "storeSnapshot"} => "railway" \in synced
    /\ passPc[p] = "storeHead" => f.got \in Nat \cup {None}
    /\ passPc[p] = "storeResource" => f.got \in Deployment \cup {None}
    /\ passPc[p] = "storeSnapshot" => f.got \in Deployment
    /\ passPc[p] \in {"storeResource", "storeSnapshot"} /\ f.got # None => deployed # <<>>
    /\ f.lone => \A q \in Passes \ {p} : passPc[q] = "idle"

Due(leg) == {c \in C!Owned[leg] : C!Trigger[c]}
Opened   == C!CategoriesOf(open)
Right(leg) == \A c \in C!Owned[leg] : c \in Opened <=> C!Trigger[c]

RunsNow == IF tells THEN live ELSE None
Deployed == IF deployed # <<>> THEN [dep |-> Len(deployed), status |-> deployed[Len(deployed)]]
            ELSE None

GitMirrored == "github" \in synced => mirrorHead = head /\ listed = head
RailMirrored ==
    "railway" \in synced =>
        /\ resource = "active"
        /\ deployed # <<>> => latest = Len(deployed) /\ Deployed \in snaps

AllRight ==
    /\ GitMirrored /\ RailMirrored
    /\ Right("health") /\ Right("repo") /\ Right("deploy")

\* What a pass holds of the world.
FactsOK(p) ==
    LET f == passFrame[p] IN
    /\ passPc[p] = "page" => f.want = Due("health") \ {"application_error"}
    /\ passPc[p] \in {"page"} \/ (f.leg = "health" /\ passPc[p] \in {"list", "write"})
          \/ f.leg = "repo" => f.live = RunsNow
    /\ passPc[p] = "storeHead" => f.got = head
    /\ passPc[p] = "storeResource" => f.ok
    /\ passPc[p] \in {"storeResource", "storeSnapshot"} => f.got = Deployed
    /\ passPc[p] = "list" => f.want = Due(f.leg)

\* What is left to write.
WriteOK(p) ==
    LET f == passFrame[p]
        listedOpen == C!CategoriesOf(f.seen)
    IN passPc[p] = "write" =>
       /\ f.seen \subseteq open /\ listedOpen \subseteq C!Owned[f.leg]
       /\ f.want \subseteq Due(f.leg)
       /\ \A c \in Due(f.leg) : c \in f.want \cup Opened
       /\ \A c \in Opened \cap C!Owned[f.leg] :
             c \in listedOpen \/ (C!Trigger[c] /\ c \notin f.want)
       /\ \A c \in listedOpen : c \in f.want \/ ~C!Trigger[c]

\* What a pass has behind it.
BehindOK(p) ==
    LET f == passFrame[p] IN
    /\ passPc[p] = "listing" => mirrorHead = head
    /\ passPc[p] = "compare" \/ (f.leg = "repo" /\ passPc[p] \in {"list", "write"})
          \/ f.leg = "deploy" => GitMirrored
    /\ passPc[p] = "storeSnapshot" => resource = "active"
    /\ passPc[p] = "snapshot" \/ (f.leg = "deploy" /\ passPc[p] \in {"list", "write"}) =>
          RailMirrored
    /\ f.leg # "health" => Right("health")
    /\ f.leg = "deploy" => Right("repo")

CommandTypes == WorldTypes /\ MirrorTypes /\ OpenTypes /\ HookTypes /\ PassTypes

CommandInv ==
    /\ CommandTypes
    /\ \A p \in Passes : PassOK(p)
    /\ settled => AllRight
    /\ \A p \in Passes : settled \/ passFrame[p].lone => FactsOK(p) /\ WriteOK(p)
    /\ \A p \in Passes : passFrame[p].lone => BehindOK(p)

LEMMA NoneApart == None \notin Nat /\ None \notin Deployment
  BY BackgroundAssumption DEF C!CommandCenterAssumption, Deployment

LEMMA NoPassFrame ==
    /\ IsFrame(C!NoFrame) /\ ~C!NoFrame.lone /\ C!NoFrame.leg = "health"
    /\ C!NoFrame.want = {} /\ C!NoFrame.live = None /\ C!NoFrame.got = None /\ C!NoFrame.ok
  BY DEF C!NoFrame, IsFrame

\* A frame with one field changed.
LEMMA FrameFields ==
    ASSUME NEW f, IsFrame(f)
    PROVE  /\ \A v : [f EXCEPT !.lone = v] = [leg |-> f.leg, live |-> f.live, got |-> f.got,
                        ok |-> f.ok, want |-> f.want, seen |-> f.seen, lone |-> v]
           /\ \A v : [f EXCEPT !.got = v] = [leg |-> f.leg, live |-> f.live, got |-> v,
                        ok |-> f.ok, want |-> f.want, seen |-> f.seen, lone |-> f.lone]
           /\ \A v : [f EXCEPT !.ok = v] = [leg |-> f.leg, live |-> f.live, got |-> f.got,
                        ok |-> v, want |-> f.want, seen |-> f.seen, lone |-> f.lone]
           /\ \A v : [f EXCEPT !.want = v] = [leg |-> f.leg, live |-> f.live, got |-> f.got,
                        ok |-> f.ok, want |-> v, seen |-> f.seen, lone |-> f.lone]
           /\ \A v : [f EXCEPT !.seen = v] = [leg |-> f.leg, live |-> f.live, got |-> f.got,
                        ok |-> f.ok, want |-> f.want, seen |-> v, lone |-> f.lone]
           /\ [f EXCEPT !.lone = FALSE] = [leg |-> f.leg, live |-> f.live, got |-> f.got,
                        ok |-> f.ok, want |-> f.want, seen |-> f.seen, lone |-> FALSE]
           /\ [f EXCEPT !.ok = TRUE] = [leg |-> f.leg, live |-> f.live, got |-> f.got,
                        ok |-> TRUE, want |-> f.want, seen |-> f.seen, lone |-> f.lone]
<1> DEFINE g == [leg |-> f.leg, live |-> f.live, got |-> f.got, ok |-> f.ok,
                 want |-> f.want, seen |-> f.seen, lone |-> f.lone]
<1>1. f = g
  BY DEF IsFrame
<1>2. \A v : [g EXCEPT !.lone = v] = [leg |-> f.leg, live |-> f.live, got |-> f.got,
                        ok |-> f.ok, want |-> f.want, seen |-> f.seen, lone |-> v]
  OBVIOUS
<1>3. \A v : [g EXCEPT !.got = v] = [leg |-> f.leg, live |-> f.live, got |-> v,
                        ok |-> f.ok, want |-> f.want, seen |-> f.seen, lone |-> f.lone]
  OBVIOUS
<1>4. \A v : [g EXCEPT !.ok = v] = [leg |-> f.leg, live |-> f.live, got |-> f.got,
                        ok |-> v, want |-> f.want, seen |-> f.seen, lone |-> f.lone]
  OBVIOUS
<1>5. \A v : [g EXCEPT !.want = v] = [leg |-> f.leg, live |-> f.live, got |-> f.got,
                        ok |-> f.ok, want |-> v, seen |-> f.seen, lone |-> f.lone]
  OBVIOUS
<1>6. \A v : [g EXCEPT !.seen = v] = [leg |-> f.leg, live |-> f.live, got |-> f.got,
                        ok |-> f.ok, want |-> f.want, seen |-> v, lone |-> f.lone]
  OBVIOUS
<1>7. /\ [g EXCEPT !.lone = FALSE] = [leg |-> f.leg, live |-> f.live, got |-> f.got,
                        ok |-> f.ok, want |-> f.want, seen |-> f.seen, lone |-> FALSE]
      /\ [g EXCEPT !.ok = TRUE] = [leg |-> f.leg, live |-> f.live, got |-> f.got,
                        ok |-> TRUE, want |-> f.want, seen |-> f.seen, lone |-> f.lone]
  <2> HIDE DEF g
  <2>1. QED
    BY <1>2, <1>4, Zenon
<1> HIDE DEF g
<1>8. QED
  BY <1>1, <1>2, <1>3, <1>4, <1>5, <1>6, <1>7

\* The categories, and what each of them is due to.
LEMMA Legs ==
    /\ C!Owned["health"] = {"health_down", "degraded", "missing_health_endpoint",
                            "application_error"}
    /\ C!Owned["repo"] = {"production_behind_main", "failed_workflow",
                          "security_sensitive_change"}
    /\ C!Owned["deploy"] = {"failed_deployment", "crashed_deployment", "stale_deployment",
                            "missing_railway_mapping"}
    /\ C!Owned.repo = C!Owned["repo"]
    /\ C!Categories = C!Owned["health"] \cup C!Owned["repo"] \cup C!Owned["deploy"]
    /\ DOMAIN C!Trigger = C!Categories
<1>1. /\ C!Owned["health"] = {"health_down", "degraded", "missing_health_endpoint",
                            "application_error"}
      /\ C!Owned["repo"] = {"production_behind_main", "failed_workflow",
                          "security_sensitive_change"}
      /\ C!Owned["deploy"] = {"failed_deployment", "crashed_deployment", "stale_deployment",
                            "missing_railway_mapping"}
      /\ C!Owned.repo = C!Owned["repo"]
      /\ DOMAIN C!Owned = {"health", "repo", "deploy"}
  BY DEF C!Owned
<1>2. C!Categories = C!Owned["health"] \cup C!Owned["repo"] \cup C!Owned["deploy"]
  BY <1>1 DEF C!Categories
<1>3. DOMAIN C!Trigger = C!Categories
  BY <1>1, <1>2 DEF C!Trigger
<1>4. QED
  BY <1>1, <1>2, <1>3

LEMMA Triggers ==
    /\ C!Trigger["health_down"] <=> health = "down"
    /\ C!Trigger["degraded"] <=> health = "degraded"
    /\ C!Trigger["missing_health_endpoint"] <=>
          health = "missing" \/ (Production /\ health = "none")
    /\ C!Trigger["application_error"] <=> ~page
    /\ C!Trigger["production_behind_main"] <=>
          "github" \in synced /\ tells /\ live < head
    /\ C!Trigger["failed_workflow"] <=>
          "github" \in synced /\ head > 0 /\ "failed_workflow" \in marks[head]
    /\ C!Trigger["security_sensitive_change"] <=>
          "github" \in synced /\ head > 0 /\ "security_sensitive_change" \in marks[head]
    /\ C!Trigger["failed_deployment"] <=>
          "railway" \in synced /\ deployed # <<>> /\ deployed[Len(deployed)] = "failed"
    /\ C!Trigger["crashed_deployment"] <=>
          "railway" \in synced /\ deployed # <<>> /\ deployed[Len(deployed)] = "crashed"
    /\ C!Trigger["stale_deployment"] <=>
          Production /\ "railway" \in synced /\ deployed = <<>>
    /\ C!Trigger["missing_railway_mapping"] <=> Production /\ "railway" \notin synced
<1>1. C!Last(deployed) = deployed[Len(deployed)]
  BY DEF C!Last
<1>2. QED
  BY <1>1 DEF C!Trigger

LEMMA InitCommand == C!Init => CommandInv
<1> SUFFICES ASSUME C!Init PROVE CommandInv
  OBVIOUS
<1>1. /\ health = "up" /\ page = TRUE /\ tells = TRUE /\ head = 0 /\ live = 0 /\ marks = <<>>
      /\ deployed \in Seq(C!DeployStatuses) /\ synced \subseteq {"github", "railway"}
  BY BackgroundAssumption DEF C!Init, C!CommandCenterAssumption
<1>2. WorldTypes
  BY <1>1, EmptySeq DEF WorldTypes
<1>3. MirrorTypes /\ OpenTypes
  BY DEF C!Init, MirrorTypes, OpenTypes
<1>4. HookTypes
  <2>1. railwaySent = {[dep |-> i, status |-> deployed[i]] : i \in DOMAIN deployed}
    BY DEF C!Init
  <2>2. \A i \in DOMAIN deployed : i \in Nat /\ deployed[i] \in C!DeployStatuses
    BY <1>1, LenProperties, ElementOfSeq
  <2>3. railwaySent \subseteq Deployment /\ (railwaySent # {} => deployed # <<>>)
    BY <1>1, <2>1, <2>2 DEF Deployment
  <2>4. QED
    BY <2>3 DEF C!Init, HookTypes
<1>5. PassTypes
  BY DEF C!Init, PassTypes, PassAt
<1>6. ~settled /\ \A p \in Passes : passPc[p] = "idle" /\ passFrame[p] = C!NoFrame
  BY DEF C!Init
<1>7. \A p \in Passes : PassOK(p) /\ ~passFrame[p].lone
  BY <1>6, NoPassFrame DEF PassOK
<1>8. QED
  BY <1>2, <1>3, <1>4, <1>5, <1>6, <1>7 DEF CommandInv, CommandTypes

LEMMA SameWorld ==
    ASSUME UNCHANGED C!world
    PROVE  /\ C!Trigger' = C!Trigger /\ RunsNow' = RunsNow /\ Deployed' = Deployed
           /\ \A leg : Due(leg)' = Due(leg)
           /\ UNCHANGED <<health, page, tells, head, live, marks, deployed, synced>>
<1>1. UNCHANGED <<health, page, tells, head, live, marks, deployed, synced>>
  BY DEF C!world
<1>2. C!Trigger' = C!Trigger /\ RunsNow' = RunsNow /\ Deployed' = Deployed
  BY <1>1 DEF C!Trigger, C!Last, RunsNow, Deployed
<1>3. QED
  BY <1>1, <1>2 DEF Due, C!Owned

\* A pass moves and leaves the world and the webhooks alone.
LEMMA PassMoves ==
    ASSUME CommandInv, NEW p \in Passes, passPc[p] # "idle", NEW l \in PassAt, NEW f,
           passPc' = [passPc EXCEPT ![p] = l], passFrame' = [passFrame EXCEPT ![p] = f],
           UNCHANGED C!world, UNCHANGED <<railwaySent, hookPc, hookFrame>>,
           MirrorTypes', OpenTypes', settled' \in BOOLEAN,
           f.lone => passFrame[p].lone,
           settled' => settled \/ (l = "idle" /\ passFrame[p].lone),
           passPc'[p] = l /\ passFrame'[p] = f
              /\ (\A q \in Passes \ {p} : passPc'[q] = passPc[q] /\ passFrame'[q] = passFrame[q])
              => PassOK(p)',
           passPc'[p] = l /\ passFrame'[p] = f /\ (settled' \/ f.lone)
              => FactsOK(p)' /\ WriteOK(p)',
           passPc'[p] = l /\ passFrame'[p] = f /\ f.lone => BehindOK(p)',
           settled' => AllRight',
           settled /\ settled' => open' = open
    PROVE  CommandInv'
<1>1. CommandTypes /\ \A q \in Passes : PassOK(q)
  BY DEF CommandInv
<1>2. /\ passPc'[p] = l /\ passFrame'[p] = f
      /\ \A q \in Passes \ {p} : passPc'[q] = passPc[q] /\ passFrame'[q] = passFrame[q]
  BY <1>1 DEF CommandTypes, PassTypes
<1>3. CommandTypes'
  <2>1. WorldTypes' /\ HookTypes'
    BY <1>1, SameWorld DEF CommandTypes, WorldTypes, HookTypes
  <2>2. PassTypes'
    BY <1>1 DEF CommandTypes, PassTypes
  <2>3. QED
    BY <2>1, <2>2 DEF CommandTypes
<1>4. \A q \in Passes \ {p} : ~passFrame[q].lone
  BY <1>1 DEF PassOK
<1>5. ASSUME NEW q \in Passes PROVE PassOK(q)'
  <2>1. CASE q = p
    BY <1>2, <2>1
  <2>2. CASE q # p
    <3>1. PassOK(q) /\ passPc'[q] = passPc[q] /\ passFrame'[q] = passFrame[q]
          /\ ~passFrame[q].lone
      BY <1>1, <1>2, <1>4, <2>2
    <3>2. IsFrame(passFrame[q])' = IsFrame(passFrame'[q])
      BY DEF IsFrame
    <3>3. QED
      BY <3>1, SameWorld DEF PassOK, IsFrame, C!NoFrame, C!Owned
  <2>3. QED
    BY <2>1, <2>2
<1>6. ASSUME NEW q \in Passes, settled' \/ passFrame'[q].lone
      PROVE  FactsOK(q)' /\ WriteOK(q)'
  <2>1. CASE q = p
    BY <1>2, <1>6, <2>1
  <2>2. CASE q # p
    <3>1. settled'
      BY <1>2, <1>4, <1>6, <2>2
    <3>2. CASE settled
      <4>1. FactsOK(q) /\ WriteOK(q) /\ passPc'[q] = passPc[q] /\ passFrame'[q] = passFrame[q]
        BY <1>2, <2>2, <3>2 DEF CommandInv
      <4>2. open' = open
        BY <3>1, <3>2
      <4>3. FactsOK(q)'
        BY <4>1, SameWorld DEF FactsOK
      <4>4. WriteOK(q)'
        BY <4>1, <4>2, SameWorld DEF WriteOK, Opened, C!CategoriesOf
      <4>5. QED
        BY <4>3, <4>4
    <3>3. CASE ~settled
      <4>1. passPc[q] = "idle" /\ passFrame[q] = C!NoFrame
        BY <1>1, <2>2, <3>1, <3>3 DEF PassOK
      <4>2. passPc'[q] = "idle" /\ passFrame'[q].leg = "health"
        BY <1>2, <2>2, <4>1, NoPassFrame
      <4>3. QED
        BY <4>2 DEF FactsOK, WriteOK
    <3>4. QED
      BY <3>2, <3>3
  <2>3. QED
    BY <2>1, <2>2
<1>7. \A q \in Passes : passFrame'[q].lone => BehindOK(q)'
  BY <1>2, <1>4
<1>8. QED
  BY <1>3, <1>5, <1>6, <1>7 DEF CommandInv

\* Everybody is disturbed.
LEMMA Disturbs ==
    ASSUME CommandInv, passFrame' = C!Disturb, ~settled', settled' \in BOOLEAN, passPc' = passPc,
           WorldTypes', MirrorTypes', OpenTypes', HookTypes',
           synced' = synced, deployed # <<>> => deployed' # <<>>
    PROVE  CommandInv'
<1>1. CommandTypes /\ \A q \in Passes : PassOK(q)
  BY DEF CommandInv
<1>2. passFrame' = [q \in Passes |-> [passFrame[q] EXCEPT !.lone = FALSE]]
  BY DEF C!Disturb
<1>3. PassTypes'
  BY <1>1, <1>2 DEF CommandTypes, PassTypes
<1>4. ASSUME NEW q \in Passes PROVE PassOK(q)' /\ ~passFrame'[q].lone
  <2>1. IsFrame(passFrame[q]) /\ PassOK(q)
    BY <1>1 DEF PassOK
  <2>2. passFrame'[q] = [leg |-> passFrame[q].leg, live |-> passFrame[q].live,
                         got |-> passFrame[q].got, ok |-> passFrame[q].ok,
                         want |-> passFrame[q].want, seen |-> passFrame[q].seen, lone |-> FALSE]
    BY <1>2, <2>1, FrameFields
  <2>3. IsFrame(passFrame'[q])
    BY <2>1, <2>2 DEF IsFrame
  <2>4. passPc[q] = "idle" => passFrame'[q] = C!NoFrame
    <3>1. ASSUME passPc[q] = "idle" PROVE passFrame[q] = C!NoFrame
      BY <2>1, <3>1 DEF PassOK
    <3>2. C!NoFrame = [leg |-> C!NoFrame.leg, live |-> C!NoFrame.live, got |-> C!NoFrame.got,
                       ok |-> C!NoFrame.ok, want |-> C!NoFrame.want, seen |-> C!NoFrame.seen,
                       lone |-> FALSE]
      BY DEF C!NoFrame
    <3>3. QED
      BY <2>2, <3>1, <3>2, Zenon
  <2>5. QED
    BY <2>1, <2>2, <2>3, <2>4 DEF PassOK, IsFrame, C!Owned, C!NoFrame
<1>5. QED
  BY <1>1, <1>3, <1>4 DEF CommandInv, CommandTypes

\* What Change leaves alone.
LEMMA Changes ==
    ASSUME CommandInv, C!Change, WorldTypes', synced' = synced, head <= head',
           deployed # <<>> => deployed' # <<>>,
           railwaySent' \subseteq Deployment, railwaySent' # {} => deployed' # <<>>
    PROVE  CommandInv'
<1>1. /\ passFrame' = C!Disturb /\ settled' = FALSE /\ passPc' = passPc
      /\ UNCHANGED <<mirrorHead, listed, resource, snaps, latest, open, hookPc, hookFrame>>
  BY DEF C!Change, C!Disturbed, C!git, C!rail
<1>2. CommandTypes
  BY DEF CommandInv
<1>3. MirrorTypes'
  BY <1>1, <1>2 DEF CommandTypes, MirrorTypes, WorldTypes
<1>4. OpenTypes' /\ HookTypes'
  BY <1>1, <1>2 DEF CommandTypes, OpenTypes, HookTypes, C!Categories, C!Owned
<1>5. QED
  BY <1>1, <1>3, <1>4, Disturbs

LEMMA WorldKeeps == CommandInv /\ C!World => CommandInv'
<1> SUFFICES ASSUME CommandInv, C!World PROVE CommandInv'
  OBVIOUS
<1>1. WorldTypes /\ HookTypes
  BY DEF CommandInv, CommandTypes
<1>2. railwaySent \subseteq Deployment /\ (railwaySent # {} => deployed # <<>>) /\ head \in Nat
  BY <1>1 DEF HookTypes, WorldTypes
<1>3. ASSUME C!BreakPage PROVE CommandInv'
  <2>1. C!Change /\ page' = ~page /\ UNCHANGED <<health, tells, head, live, marks, deployed, synced, railwaySent>>
    BY <1>3 DEF C!BreakPage
  <2>2. WorldTypes' /\ head <= head'
    BY <1>1, <1>2, <2>1 DEF WorldTypes
  <2>3. QED
    BY <1>2, <2>1, <2>2, Changes
<1>4. ASSUME NEW h \in Healths, NEW t \in BOOLEAN, C!Sicken(h, t) PROVE CommandInv'
  <2>1. C!Change /\ health' = h /\ tells' = t
        /\ UNCHANGED <<page, head, live, marks, deployed, synced, railwaySent>>
    BY <1>4 DEF C!Sicken
  <2>2. h \in {"up", "degraded", "down", "missing", "none"}
    BY BackgroundAssumption DEF C!CommandCenterAssumption
  <2>3. WorldTypes' /\ head <= head'
    BY <1>1, <1>2, <2>1, <2>2 DEF WorldTypes
  <2>4. QED
    BY <1>2, <2>1, <2>3, Changes
<1>5. ASSUME NEW ms \in Marks, C!PushCommit(ms) PROVE CommandInv'
  <2>1. /\ C!Change /\ head' = head + 1 /\ marks' = Append(marks, ms)
        /\ UNCHANGED <<health, page, tells, live, deployed, synced, railwaySent>>
    BY <1>5 DEF C!PushCommit
  <2>2. marks' \in Seq(Marks) /\ Len(marks') = head + 1
    BY <1>1, <2>1, AppendProperties DEF WorldTypes
  <2>3. WorldTypes' /\ head <= head'
    BY <1>1, <1>2, <2>1, <2>2 DEF WorldTypes
  <2>4. QED
    BY <1>2, <2>1, <2>3, Changes
<1>6. ASSUME NEW status \in C!DeployStatuses, C!Deploy(status) PROVE CommandInv'
  <2>1. /\ C!Change /\ live' = IF status = "success" THEN head ELSE live
        /\ railwaySent' = railwaySent \cup {[dep |-> Len(deployed'), status |-> status]}
        /\ UNCHANGED <<health, page, tells, head, marks, synced>>
    BY <1>6 DEF C!Deploy
  <2>2. \/ deployed' = Append(deployed, status)
        \/ deployed # <<>> /\ deployed' = [deployed EXCEPT ![Len(deployed)] = status]
    BY <1>6 DEF C!Deploy, C!DeployStatuses
  <2>3. deployed' \in Seq(C!DeployStatuses) /\ deployed' # <<>>
    <3>1. deployed \in Seq(C!DeployStatuses)
      BY <1>1 DEF WorldTypes
    <3>2. CASE deployed' = Append(deployed, status)
      BY <3>1, <3>2, AppendProperties
    <3>3. CASE deployed # <<>> /\ deployed' = [deployed EXCEPT ![Len(deployed)] = status]
      <4>1. Len(deployed) \in 1 .. Len(deployed)
        BY <3>1, <3>3, EmptySeq, LenProperties
      <4>2. deployed' \in Seq(C!DeployStatuses) /\ Len(deployed') = Len(deployed)
        BY <3>1, <3>3, <4>1, ExceptSeq
      <4>3. QED
        BY <4>1, <4>2, EmptySeq
    <3>4. QED
      BY <2>2, <3>2, <3>3
  <2>4. Len(deployed') \in Nat
    BY <2>3, LenProperties
  <2>5. railwaySent' \subseteq Deployment
    BY <1>2, <2>1, <2>4 DEF Deployment
  <2>6. WorldTypes' /\ head <= head'
    BY <1>1, <1>2, <2>1, <2>3 DEF WorldTypes
  <2>7. QED
    BY <2>1, <2>3, <2>5, <2>6, Changes
<1>7. QED
  BY <1>3, <1>4, <1>5, <1>6 DEF C!World

LEMMA SnapshotTypes ==
    ASSUME MirrorTypes, NEW row \in Deployment, deployed # <<>>,
           C!UpsertSnapshot(row.dep, row.status), UNCHANGED <<mirrorHead, listed, resource>>,
           UNCHANGED C!world
    PROVE  /\ MirrorTypes' /\ latest' = row.dep /\ row \in snaps'
<1>1. row = [dep |-> row.dep, status |-> row.status]
  BY DEF Deployment
<1>2. /\ snaps' = {r \in snaps : r.dep # row.dep} \cup {row} /\ latest' = row.dep
  BY <1>1 DEF C!UpsertSnapshot
<1>3. snaps' \subseteq Deployment /\ \A a, b \in snaps' : a.dep = b.dep => a = b
  BY <1>2 DEF MirrorTypes
<1>4. MirrorTypes'
  BY <1>3, SameWorld DEF MirrorTypes
<1>5. QED
  BY <1>2, <1>4

LEMMA HookKeeps ==
    ASSUME CommandInv, NEW h \in Hooks,
           C!DeliverSnapshot(h) \/ \E msg \in railwaySent : C!Deliver(h, msg)
    PROVE  CommandInv'
<1>1. CommandTypes /\ WorldTypes /\ MirrorTypes /\ OpenTypes /\ HookTypes
  BY DEF CommandInv, CommandTypes
<1>2. ASSUME passFrame' = C!Disturb, settled' = FALSE, passPc' = passPc, UNCHANGED C!world,
             open' = open, MirrorTypes', HookTypes'
      PROVE  CommandInv'
  <2>1. WorldTypes' /\ OpenTypes' /\ synced' = synced /\ deployed' = deployed
    BY <1>1, <1>2, SameWorld DEF WorldTypes, OpenTypes, C!Categories, C!Owned
  <2>2. QED
    BY <1>2, <2>1, Disturbs
<1>3. CASE C!DeliverSnapshot(h)
  <2>1. /\ hookPc[h] = "snapshot" /\ C!UpsertSnapshot(hookFrame[h].dep, hookFrame[h].status)
        /\ hookPc' = [hookPc EXCEPT ![h] = "idle"] /\ hookFrame' = [hookFrame EXCEPT ![h] = None]
        /\ passFrame' = C!Disturb /\ settled' = FALSE
        /\ UNCHANGED C!world
        /\ UNCHANGED <<mirrorHead, listed, resource, open, passPc, railwaySent>>
    BY <1>3 DEF C!DeliverSnapshot, C!Disturbed, C!git
  <2>2. hookFrame[h] \in Deployment /\ deployed # <<>>
    BY <1>1, <2>1 DEF HookTypes
  <2>3. MirrorTypes'
    BY <1>1, <2>1, <2>2, SnapshotTypes
  <2>4. HookTypes'
    BY <1>1, <2>1, SameWorld DEF HookTypes
  <2>5. QED
    BY <1>2, <2>1, <2>3, <2>4
<1>4. CASE \E msg \in railwaySent : C!Deliver(h, msg)
  <2>1. PICK msg \in railwaySent : C!Deliver(h, msg)
    BY <1>4
  <2>2. /\ resource' = IF resource = "none" THEN "unlinked" ELSE resource
        /\ hookPc' = [hookPc EXCEPT ![h] = "snapshot"] /\ hookFrame' = [hookFrame EXCEPT ![h] = msg]
        /\ passFrame' = C!Disturb /\ settled' = FALSE
        /\ UNCHANGED C!world
        /\ UNCHANGED <<mirrorHead, listed, snaps, latest, open, passPc, railwaySent>>
    BY <2>1 DEF C!Deliver, C!Disturbed, C!git
  <2>3. msg \in Deployment /\ deployed # <<>>
    BY <1>1 DEF HookTypes
  <2>4. MirrorTypes'
    BY <1>1, <2>2, SameWorld DEF MirrorTypes
  <2>5. HookTypes'
    BY <1>1, <2>2, <2>3, SameWorld DEF HookTypes
  <2>6. QED
    BY <1>2, <2>2, <2>4, <2>5
<1>5. QED
  BY <1>3, <1>4

LEMMA VerdictKeeps ==
    ASSUME CommandInv, NEW row \in open, C!Verdict(row)
    PROVE  CommandInv'
<1>1. WorldTypes /\ MirrorTypes /\ OpenTypes /\ HookTypes
  BY DEF CommandInv, CommandTypes
<1>2. /\ open' = open \ {row} /\ passFrame' = C!Disturb /\ settled' = FALSE
      /\ UNCHANGED C!world
      /\ UNCHANGED <<mirrorHead, listed, resource, snaps, latest, passPc, railwaySent, hookPc,
                     hookFrame>>
  BY DEF C!Verdict, C!Disturbed, C!git, C!rail, C!hook
<1>3. OpenTypes'
  BY <1>1, <1>2, SameWorld DEF OpenTypes, C!Categories, C!Owned
<1>4. WorldTypes' /\ MirrorTypes' /\ HookTypes' /\ synced' = synced /\ deployed' = deployed
  BY <1>1, <1>2, SameWorld DEF WorldTypes, MirrorTypes, HookTypes
<1>5. QED
  BY <1>2, <1>3, <1>4, Disturbs


\* A frame that a disturbance has reached.
LEMMA UnsureFrame ==
    ASSUME CommandInv, NEW q \in Passes, passFrame'[q] = [passFrame[q] EXCEPT !.lone = FALSE],
           passPc'[q] = passPc[q], UNCHANGED C!world
    PROVE  /\ PassOK(q)' /\ ~passFrame'[q].lone
           /\ passFrame'[q].leg = passFrame[q].leg /\ passFrame'[q].live = passFrame[q].live
           /\ passFrame'[q].got = passFrame[q].got /\ passFrame'[q].ok = passFrame[q].ok
           /\ passFrame'[q].want = passFrame[q].want /\ passFrame'[q].seen = passFrame[q].seen
<1>1. IsFrame(passFrame[q]) /\ PassOK(q)
  BY DEF PassOK, CommandInv
<1>2. passFrame'[q] = [leg |-> passFrame[q].leg, live |-> passFrame[q].live,
                       got |-> passFrame[q].got, ok |-> passFrame[q].ok,
                       want |-> passFrame[q].want, seen |-> passFrame[q].seen, lone |-> FALSE]
  BY <1>1, FrameFields
<1>3. IsFrame(passFrame'[q])
  BY <1>1, <1>2 DEF IsFrame
<1>4. passPc[q] = "idle" => passFrame'[q] = C!NoFrame
  <2>1. ASSUME passPc[q] = "idle" PROVE passFrame[q] = C!NoFrame
    BY <1>1, <2>1 DEF PassOK
  <2>2. C!NoFrame = [leg |-> C!NoFrame.leg, live |-> C!NoFrame.live, got |-> C!NoFrame.got,
                     ok |-> C!NoFrame.ok, want |-> C!NoFrame.want, seen |-> C!NoFrame.seen,
                     lone |-> FALSE]
    BY DEF C!NoFrame
  <2>3. QED
    BY <1>2, <2>1, <2>2, Zenon
<1>5. QED
  BY <1>1, <1>2, <1>3, <1>4, SameWorld DEF PassOK, IsFrame, C!Owned, C!NoFrame

\* The mirrors and the flags are as right as they were.
LEMMA SameMirrors ==
    ASSUME UNCHANGED C!world, UNCHANGED C!git, UNCHANGED C!rail, open' = open
    PROVE  /\ GitMirrored' = GitMirrored /\ RailMirrored' = RailMirrored
           /\ Opened' = Opened /\ \A leg : Right(leg)' = Right(leg)
           /\ AllRight' = AllRight
           /\ MirrorTypes' = MirrorTypes /\ OpenTypes' = OpenTypes
<1>1. UNCHANGED <<mirrorHead, listed, resource, snaps, latest>>
  BY DEF C!git, C!rail
<1>2. /\ GitMirrored' = GitMirrored /\ RailMirrored' = RailMirrored
      /\ Opened' = Opened
      /\ MirrorTypes' = MirrorTypes /\ OpenTypes' = OpenTypes
  BY <1>1, SameWorld DEF GitMirrored, RailMirrored, Opened, C!CategoriesOf, MirrorTypes, OpenTypes,
     C!Categories, C!Owned
<1>3. \A leg : Right(leg)' = Right(leg)
  BY <1>2, SameWorld DEF Right, C!Owned
<1>4. QED
  BY <1>2, <1>3 DEF AllRight

\* A pass begins or is thrown off, and all the others learn that they are not alone.
LEMMA PassTurns ==
    ASSUME CommandInv, NEW p \in Passes, NEW l \in PassAt, NEW f,
           passPc' = [passPc EXCEPT ![p] = l], passFrame' = [C!Disturb EXCEPT ![p] = f],
           UNCHANGED C!world, UNCHANGED C!git, UNCHANGED C!rail,
           UNCHANGED <<railwaySent, hookPc, hookFrame>>, open' = open,
           settled' \in BOOLEAN, settled' => settled,
           passPc'[p] = l /\ passFrame'[p] = f => PassOK(p)',
           passPc'[p] = l /\ passFrame'[p] = f /\ (settled' \/ f.lone)
              => FactsOK(p)' /\ WriteOK(p)',
           passPc'[p] = l /\ passFrame'[p] = f /\ f.lone => BehindOK(p)'
    PROVE  CommandInv'
<1>1. CommandTypes /\ \A q \in Passes : PassOK(q)
  BY DEF CommandInv
<1>2. /\ passPc'[p] = l /\ passFrame'[p] = f
      /\ \A q \in Passes \ {p} : /\ passPc'[q] = passPc[q]
                                 /\ passFrame'[q] = [passFrame[q] EXCEPT !.lone = FALSE]
  BY <1>1 DEF CommandTypes, PassTypes, C!Disturb
<1>3. CommandTypes'
  <2>1. WorldTypes' /\ HookTypes'
    BY <1>1, SameWorld DEF CommandTypes, WorldTypes, HookTypes
  <2>2. PassTypes'
    BY <1>1 DEF CommandTypes, PassTypes, C!Disturb
  <2>3. QED
    BY <1>1, <2>1, <2>2, SameMirrors DEF CommandTypes
<1>4. \A q \in Passes \ {p} :
         /\ PassOK(q)' /\ ~passFrame'[q].lone
         /\ passFrame'[q].leg = passFrame[q].leg /\ passFrame'[q].live = passFrame[q].live
         /\ passFrame'[q].got = passFrame[q].got /\ passFrame'[q].ok = passFrame[q].ok
         /\ passFrame'[q].want = passFrame[q].want /\ passFrame'[q].seen = passFrame[q].seen
  BY <1>2, UnsureFrame
<1>5. \A q \in Passes : PassOK(q)'
  BY <1>2, <1>4
<1>6. ASSUME NEW q \in Passes, settled' \/ passFrame'[q].lone
      PROVE  FactsOK(q)' /\ WriteOK(q)'
  <2>1. CASE q = p
    BY <1>2, <1>6, <2>1
  <2>2. CASE q # p
    <3>1. settled /\ FactsOK(q) /\ WriteOK(q) /\ passPc'[q] = passPc[q]
      BY <1>2, <1>4, <1>6, <2>2 DEF CommandInv
    <3>2. FactsOK(q)'
      BY <1>4, <2>2, <3>1, SameWorld DEF FactsOK
    <3>3. WriteOK(q)'
      BY <1>4, <2>2, <3>1, SameWorld DEF WriteOK, Opened, C!CategoriesOf
    <3>4. QED
      BY <3>2, <3>3
  <2>3. QED
    BY <2>1, <2>2
<1>7. \A q \in Passes : passFrame'[q].lone => BehindOK(q)'
  BY <1>2, <1>4
<1>8. settled' => AllRight'
  BY SameMirrors DEF CommandInv
<1>9. QED
  BY <1>3, <1>5, <1>6, <1>7, <1>8 DEF CommandInv

LEMMA StartKeeps ==
    ASSUME CommandInv, NEW p \in Passes, C!Start(p)
    PROVE  CommandInv'
<1> DEFINE alone == C!Active = {} /\ \A h \in Hooks : hookPc[h] = "idle"
<1> DEFINE f == [C!NoFrame EXCEPT !.lone = alone]
<1>1. /\ passPc' = [passPc EXCEPT ![p] = "probe"] /\ passFrame' = [C!Disturb EXCEPT ![p] = f]
      /\ UNCHANGED C!world /\ UNCHANGED C!git /\ UNCHANGED C!rail
      /\ UNCHANGED <<railwaySent, hookPc, hookFrame>> /\ open' = open /\ settled' = settled
      /\ passPc[p] = "idle"
  BY DEF C!Start, C!Goto, C!hook
<1>2. /\ f = [leg |-> C!NoFrame.leg, live |-> C!NoFrame.live, got |-> C!NoFrame.got,
              ok |-> C!NoFrame.ok, want |-> C!NoFrame.want, seen |-> C!NoFrame.seen,
              lone |-> alone]
  <2> DEFINE a == alone
  <2> HIDE DEF alone
  <2>1. QED
    BY NoPassFrame, FrameFields
<1>3. alone \in BOOLEAN /\ (alone => \A q \in Passes : passPc[q] = "idle")
  BY DEF C!Active
<1> HIDE DEF alone
<1>4. IsFrame(f) /\ f.leg = "health" /\ f.lone = alone
  BY <1>2, <1>3, NoPassFrame DEF IsFrame
<1> HIDE DEF f
<1>5. "probe" \in PassAt /\ settled \in BOOLEAN
  BY DEF PassAt, CommandInv, CommandTypes, PassTypes
<1>6. ASSUME passPc'[p] = "probe", passFrame'[p] = f
      PROVE  PassOK(p)' /\ FactsOK(p)' /\ WriteOK(p)' /\ BehindOK(p)'
  <2>1. \A q \in Passes \ {p} : passPc'[q] = passPc[q]
    BY <1>1 DEF CommandInv, CommandTypes, PassTypes
  <2>2. PassOK(p)'
    BY <1>3, <1>4, <1>6, <2>1 DEF PassOK, IsFrame, C!Owned, C!NoFrame
  <2>3. QED
    BY <1>4, <1>6, <2>2 DEF FactsOK, WriteOK, BehindOK
<1>7. QED
  BY <1>1, <1>5, <1>6, PassTurns

LEMMA DieKeeps ==
    ASSUME CommandInv, NEW p \in Passes, C!Die(p)
    PROVE  CommandInv'
<1>1. /\ passPc' = [passPc EXCEPT ![p] = "idle"]
      /\ passFrame' = [C!Disturb EXCEPT ![p] = C!NoFrame]
      /\ UNCHANGED C!world /\ UNCHANGED C!git /\ UNCHANGED C!rail
      /\ UNCHANGED <<railwaySent, hookPc, hookFrame>> /\ open' = open /\ settled' = FALSE
  BY DEF C!Die, C!Goto, C!hook
<1>2. ASSUME passPc'[p] = "idle", passFrame'[p] = C!NoFrame PROVE PassOK(p)'
  <2>1. passFrame'[p] = C!NoFrame'
    BY <1>2 DEF C!NoFrame
  <2>2. IsFrame(C!NoFrame)' = IsFrame(C!NoFrame)
    BY DEF IsFrame, C!NoFrame, C!Owned
  <2>3. QED
    BY <1>2, <2>1, <2>2, NoPassFrame DEF PassOK, IsFrame, C!Owned, C!NoFrame
<1>3. "idle" \in PassAt
  BY DEF PassAt
<1>4. QED
  BY <1>1, <1>2, <1>3, NoPassFrame, PassTurns

\* The first frame of a leg, and where each leg leads to.
LegFrame(leg, at, lone) == [leg |-> leg, live |-> at, got |-> None, ok |-> TRUE,
                            want |-> {}, seen |-> {}, lone |-> lone]

LEMMA LegFrames ==
    ASSUME NEW leg \in {"repo", "deploy"}, NEW at \in Nat \cup {None}, NEW lone \in BOOLEAN
    PROVE  /\ IsFrame(LegFrame(leg, at, lone))
           /\ LegFrame(leg, at, lone).leg = leg /\ LegFrame(leg, at, lone).live = at
           /\ LegFrame(leg, at, lone).lone = lone /\ LegFrame(leg, at, lone).got = None
           /\ LegFrame(leg, at, lone).ok /\ LegFrame(leg, at, lone).want = {}
  BY DEF IsFrame, LegFrame

\* A record with one or more fields changed.
LEMMA MoreFields ==
    ASSUME NEW f, f = [leg |-> f.leg, live |-> f.live, got |-> f.got, ok |-> f.ok, want |-> f.want, seen |-> f.seen, lone |-> f.lone]
    PROVE  /\ \A leg, a, b : [f EXCEPT !.leg = leg, !.lone = b, !.live = a]
                 = [leg |-> leg, live |-> a, got |-> f.got, ok |-> f.ok, want |-> f.want, seen |-> f.seen, lone |-> b]
           /\ \A u, w : [f EXCEPT !.got = u, !.ok = w]
                 = [leg |-> f.leg, live |-> f.live, got |-> u, ok |-> w, want |-> f.want, seen |-> f.seen, lone |-> f.lone]
           /\ \A u, w : [f EXCEPT !.want = u, !.live = w]
                 = [leg |-> f.leg, live |-> w, got |-> f.got, ok |-> f.ok, want |-> u, seen |-> f.seen, lone |-> f.lone]
           /\ \A u, w : [f EXCEPT !.ok = u, !.got = w]
                 = [leg |-> f.leg, live |-> f.live, got |-> w, ok |-> u, want |-> f.want, seen |-> f.seen, lone |-> f.lone]
<1>1. \A vv : [[leg |-> f.leg, live |-> f.live, got |-> f.got, ok |-> f.ok, want |-> f.want, seen |-> f.seen, lone |-> f.lone] EXCEPT !.leg = vv]
         = [leg |-> vv, live |-> f.live, got |-> f.got, ok |-> f.ok, want |-> f.want, seen |-> f.seen, lone |-> f.lone]
  OBVIOUS
<1>2. \A leg, vv : [[leg |-> leg, live |-> f.live, got |-> f.got, ok |-> f.ok, want |-> f.want, seen |-> f.seen, lone |-> f.lone] EXCEPT !.lone = vv]
         = [leg |-> leg, live |-> f.live, got |-> f.got, ok |-> f.ok, want |-> f.want, seen |-> f.seen, lone |-> vv]
  OBVIOUS
<1>3. \A leg, b, vv : [[leg |-> leg, live |-> f.live, got |-> f.got, ok |-> f.ok, want |-> f.want, seen |-> f.seen, lone |-> b] EXCEPT !.live = vv]
         = [leg |-> leg, live |-> vv, got |-> f.got, ok |-> f.ok, want |-> f.want, seen |-> f.seen, lone |-> b]
  OBVIOUS
<1>4. \A vv : [[leg |-> f.leg, live |-> f.live, got |-> f.got, ok |-> f.ok, want |-> f.want, seen |-> f.seen, lone |-> f.lone] EXCEPT !.got = vv]
         = [leg |-> f.leg, live |-> f.live, got |-> vv, ok |-> f.ok, want |-> f.want, seen |-> f.seen, lone |-> f.lone]
  OBVIOUS
<1>5. \A u, vv : [[leg |-> f.leg, live |-> f.live, got |-> u, ok |-> f.ok, want |-> f.want, seen |-> f.seen, lone |-> f.lone] EXCEPT !.ok = vv]
         = [leg |-> f.leg, live |-> f.live, got |-> u, ok |-> vv, want |-> f.want, seen |-> f.seen, lone |-> f.lone]
  OBVIOUS
<1>6. \A vv : [[leg |-> f.leg, live |-> f.live, got |-> f.got, ok |-> f.ok, want |-> f.want, seen |-> f.seen, lone |-> f.lone] EXCEPT !.want = vv]
         = [leg |-> f.leg, live |-> f.live, got |-> f.got, ok |-> f.ok, want |-> vv, seen |-> f.seen, lone |-> f.lone]
  OBVIOUS
<1>7. \A u, vv : [[leg |-> f.leg, live |-> f.live, got |-> f.got, ok |-> f.ok, want |-> u, seen |-> f.seen, lone |-> f.lone] EXCEPT !.live = vv]
         = [leg |-> f.leg, live |-> vv, got |-> f.got, ok |-> f.ok, want |-> u, seen |-> f.seen, lone |-> f.lone]
  OBVIOUS
<1>8. \A vv : [[leg |-> f.leg, live |-> f.live, got |-> f.got, ok |-> f.ok, want |-> f.want, seen |-> f.seen, lone |-> f.lone] EXCEPT !.ok = vv]
         = [leg |-> f.leg, live |-> f.live, got |-> f.got, ok |-> vv, want |-> f.want, seen |-> f.seen, lone |-> f.lone]
  OBVIOUS
<1>9. \A u, vv : [[leg |-> f.leg, live |-> f.live, got |-> f.got, ok |-> u, want |-> f.want, seen |-> f.seen, lone |-> f.lone] EXCEPT !.got = vv]
         = [leg |-> f.leg, live |-> f.live, got |-> vv, ok |-> u, want |-> f.want, seen |-> f.seen, lone |-> f.lone]
  OBVIOUS
<1>10. ASSUME NEW leg, NEW a, NEW b
       PROVE  [f EXCEPT !.leg = leg, !.lone = b, !.live = a]
               = [leg |-> leg, live |-> a, got |-> f.got, ok |-> f.ok, want |-> f.want, seen |-> f.seen, lone |-> b]
  <2>0. f = [leg |-> f.leg, live |-> f.live, got |-> f.got, ok |-> f.ok, want |-> f.want, seen |-> f.seen, lone |-> f.lone]
    OBVIOUS
  <2>1. [f EXCEPT !.leg = leg]
           = [leg |-> leg, live |-> f.live, got |-> f.got, ok |-> f.ok, want |-> f.want, seen |-> f.seen, lone |-> f.lone]
    BY <2>0, <1>1, Zenon
  <2>2. [[f EXCEPT !.leg = leg] EXCEPT !.lone = b]
           = [leg |-> leg, live |-> f.live, got |-> f.got, ok |-> f.ok, want |-> f.want, seen |-> f.seen, lone |-> b]
    BY <2>1, <1>2, Zenon
  <2>3. [[leg |-> leg, live |-> f.live, got |-> f.got, ok |-> f.ok, want |-> f.want, seen |-> f.seen, lone |-> b]
            EXCEPT !.live = a]
           = [leg |-> leg, live |-> a, got |-> f.got, ok |-> f.ok, want |-> f.want, seen |-> f.seen, lone |-> b]
    BY <1>3, Zenon
  <2>4. [[[f EXCEPT !.leg = leg] EXCEPT !.lone = b] EXCEPT !.live = a]
           = [leg |-> leg, live |-> a, got |-> f.got, ok |-> f.ok, want |-> f.want, seen |-> f.seen, lone |-> b]
    BY <2>2, <2>3, Zenon
  <2>5. [f EXCEPT !.leg = leg, !.lone = b, !.live = a] = [[[f EXCEPT !.leg = leg] EXCEPT !.lone = b] EXCEPT !.live = a]
    OBVIOUS
  <2>6. QED
    BY <2>4, <2>5, Zenon
<1>11. ASSUME NEW u, NEW w
       PROVE  [f EXCEPT !.got = u, !.ok = w]
               = [leg |-> f.leg, live |-> f.live, got |-> u, ok |-> w, want |-> f.want, seen |-> f.seen, lone |-> f.lone]
  <2>0. f = [leg |-> f.leg, live |-> f.live, got |-> f.got, ok |-> f.ok, want |-> f.want, seen |-> f.seen, lone |-> f.lone]
    OBVIOUS
  <2>1. [f EXCEPT !.got = u]
           = [leg |-> f.leg, live |-> f.live, got |-> u, ok |-> f.ok, want |-> f.want, seen |-> f.seen, lone |-> f.lone]
    BY <2>0, <1>4, Zenon
  <2>2. [[f EXCEPT !.got = u] EXCEPT !.ok = w]
           = [leg |-> f.leg, live |-> f.live, got |-> u, ok |-> w, want |-> f.want, seen |-> f.seen, lone |-> f.lone]
    BY <2>1, <1>5, Zenon
  <2>3. [f EXCEPT !.got = u, !.ok = w] = [[f EXCEPT !.got = u] EXCEPT !.ok = w]
    OBVIOUS
  <2>4. QED
    BY <2>2, <2>3, Zenon
<1>12. ASSUME NEW u, NEW w
       PROVE  [f EXCEPT !.want = u, !.live = w]
               = [leg |-> f.leg, live |-> w, got |-> f.got, ok |-> f.ok, want |-> u, seen |-> f.seen, lone |-> f.lone]
  <2>0. f = [leg |-> f.leg, live |-> f.live, got |-> f.got, ok |-> f.ok, want |-> f.want, seen |-> f.seen, lone |-> f.lone]
    OBVIOUS
  <2>1. [f EXCEPT !.want = u]
           = [leg |-> f.leg, live |-> f.live, got |-> f.got, ok |-> f.ok, want |-> u, seen |-> f.seen, lone |-> f.lone]
    BY <2>0, <1>6, Zenon
  <2>2. [[f EXCEPT !.want = u] EXCEPT !.live = w]
           = [leg |-> f.leg, live |-> w, got |-> f.got, ok |-> f.ok, want |-> u, seen |-> f.seen, lone |-> f.lone]
    BY <2>1, <1>7, Zenon
  <2>3. [f EXCEPT !.want = u, !.live = w] = [[f EXCEPT !.want = u] EXCEPT !.live = w]
    OBVIOUS
  <2>4. QED
    BY <2>2, <2>3, Zenon
<1>13. ASSUME NEW u, NEW w
       PROVE  [f EXCEPT !.ok = u, !.got = w]
               = [leg |-> f.leg, live |-> f.live, got |-> w, ok |-> u, want |-> f.want, seen |-> f.seen, lone |-> f.lone]
  <2>0. f = [leg |-> f.leg, live |-> f.live, got |-> f.got, ok |-> f.ok, want |-> f.want, seen |-> f.seen, lone |-> f.lone]
    OBVIOUS
  <2>1. [f EXCEPT !.ok = u]
           = [leg |-> f.leg, live |-> f.live, got |-> f.got, ok |-> u, want |-> f.want, seen |-> f.seen, lone |-> f.lone]
    BY <2>0, <1>8, Zenon
  <2>2. [[f EXCEPT !.ok = u] EXCEPT !.got = w]
           = [leg |-> f.leg, live |-> f.live, got |-> w, ok |-> u, want |-> f.want, seen |-> f.seen, lone |-> f.lone]
    BY <2>1, <1>9, Zenon
  <2>3. [f EXCEPT !.ok = u, !.got = w] = [[f EXCEPT !.ok = u] EXCEPT !.got = w]
    OBVIOUS
  <2>4. QED
    BY <2>2, <2>3, Zenon
<1>14. QED
  BY <1>10, <1>11, <1>12, <1>13, Zenon

LEMMA NextLegs ==
    ASSUME NEW p \in Passes, NEW fr, NEW s \in BOOLEAN, C!NextLeg(p, fr, s), IsFrame(fr[p])
    PROVE  \/ /\ fr[p].leg = "health" /\ "github" \in synced /\ settled' = s
              /\ passPc' = [passPc EXCEPT ![p] = "fetchHead"]
              /\ passFrame' = [fr EXCEPT ![p] = LegFrame("repo", fr[p].live, fr[p].lone)]
           \/ /\ fr[p].leg = "repo" \/ (fr[p].leg = "health" /\ "github" \notin synced)
              /\ settled' = s
              /\ passPc' = [passPc EXCEPT ![p] = IF "railway" \in synced THEN "fetchDeployment"
                                                 ELSE "snapshot"]
              /\ passFrame' = [fr EXCEPT ![p] = LegFrame("deploy", None, fr[p].lone)]
           \/ /\ fr[p].leg = "deploy" /\ settled' = (s \/ fr[p].lone)
              /\ passPc' = [passPc EXCEPT ![p] = "idle"]
              /\ passFrame' = [fr EXCEPT ![p] = C!NoFrame]
<1> DEFINE next == IF fr[p].leg = "health" /\ "github" \in synced THEN "repo"
                   ELSE IF fr[p].leg # "deploy" THEN "deploy" ELSE "end"
<1> DEFINE first(leg) == [C!NoFrame EXCEPT !.leg = leg, !.lone = fr[p].lone,
                             !.live = IF leg = "repo" THEN fr[p].live ELSE None]
<1>1. /\ passPc' = [passPc EXCEPT ![p] =
                       CASE next = "repo" -> "fetchHead"
                         [] next = "deploy" /\ "railway" \in synced -> "fetchDeployment"
                         [] next = "deploy" /\ "railway" \notin synced -> "snapshot"
                         [] next = "end" -> "idle"]
      /\ passFrame' = [fr EXCEPT ![p] = IF next = "end" THEN C!NoFrame ELSE first(next)]
      /\ settled' = (s \/ (next = "end" /\ fr[p].lone))
  BY DEF C!NextLeg, C!Goto
<1>2. fr[p].leg \in {"health", "repo", "deploy"} /\ fr[p].lone \in BOOLEAN
  BY DEF IsFrame
<1>3. \A leg : first(leg) = LegFrame(leg, IF leg = "repo" THEN fr[p].live ELSE None, fr[p].lone)
  <2>1. \A leg, a, b : [C!NoFrame EXCEPT !.leg = leg, !.lone = b, !.live = a]
                       = [leg |-> leg, live |-> a, got |-> C!NoFrame.got, ok |-> C!NoFrame.ok,
                          want |-> C!NoFrame.want, seen |-> C!NoFrame.seen, lone |-> b]
    <3>1. C!NoFrame = [leg |-> C!NoFrame.leg, live |-> C!NoFrame.live, got |-> C!NoFrame.got,
                       ok |-> C!NoFrame.ok, want |-> C!NoFrame.want, seen |-> C!NoFrame.seen,
                       lone |-> C!NoFrame.lone]
      BY NoPassFrame DEF IsFrame
    <3>2. QED
      BY <3>1, MoreFields, Zenon
  <2>2. \A leg, a, b : LegFrame(leg, a, b)
                       = [leg |-> leg, live |-> a, got |-> C!NoFrame.got, ok |-> C!NoFrame.ok,
                          want |-> C!NoFrame.want, seen |-> C!NoFrame.seen, lone |-> b]
    BY DEF C!NoFrame, LegFrame
  <2>3. ASSUME NEW leg
        PROVE  first(leg) = LegFrame(leg, IF leg = "repo" THEN fr[p].live ELSE None, fr[p].lone)
    <3> DEFINE at == IF leg = "repo" THEN fr[p].live ELSE None
    <3>1. first(leg) = [C!NoFrame EXCEPT !.leg = leg, !.lone = fr[p].lone, !.live = at]
      OBVIOUS
    <3> HIDE DEF first, at
    <3>2. first(leg) = LegFrame(leg, at, fr[p].lone)
      BY <2>1, <2>2, <3>1, Zenon
    <3>3. QED
      BY <3>2 DEF at
  <2>4. QED
    BY <2>3
<1> HIDE DEF first
<1>4. CASE fr[p].leg = "health" /\ "github" \in synced
  <2>1. next = "repo"
    BY <1>4
  <2> HIDE DEF next
  <2>2. /\ passPc' = [passPc EXCEPT ![p] = "fetchHead"]
        /\ passFrame' = [fr EXCEPT ![p] = first("repo")]
    BY <1>1, <2>1
  <2>3. first("repo") = LegFrame("repo", fr[p].live, fr[p].lone)
    BY <1>3
  <2>4. settled' = s
    <3>1. settled' = (s \/ (next = "end" /\ fr[p].lone)) /\ next # "end"
      BY <1>1, <2>1
    <3>2. (s \/ (next = "end" /\ fr[p].lone)) = s
      BY <3>1, <1>2, Zenon
    <3>3. QED
      BY <3>1, <3>2, Zenon
  <2>5. QED
    BY <1>4, <2>2, <2>3, <2>4, Zenon
<1>5. CASE fr[p].leg = "repo" \/ (fr[p].leg = "health" /\ "github" \notin synced)
  <2>1. next = "deploy"
    BY <1>5
  <2> HIDE DEF next
  <2>2. /\ passPc' = [passPc EXCEPT ![p] = IF "railway" \in synced THEN "fetchDeployment"
                                           ELSE "snapshot"]
        /\ passFrame' = [fr EXCEPT ![p] = first("deploy")]
    BY <1>1, <2>1
  <2>3. first("deploy") = LegFrame("deploy", None, fr[p].lone)
    BY <1>3
  <2>4. settled' = s
    <3>1. settled' = (s \/ (next = "end" /\ fr[p].lone)) /\ next # "end"
      BY <1>1, <2>1
    <3>2. (s \/ (next = "end" /\ fr[p].lone)) = s
      BY <3>1, <1>2, Zenon
    <3>3. QED
      BY <3>1, <3>2, Zenon
  <2>5. QED
    BY <1>5, <2>2, <2>3, <2>4, Zenon
<1>6. CASE fr[p].leg = "deploy"
  <2>1. next = "end"
    BY <1>6
  <2> HIDE DEF next
  <2>2. QED
    BY <1>1, <1>6, <2>1
<1>7. QED
  BY <1>2, <1>4, <1>5, <1>6

LEMMA ThrowKeeps ==
    ASSUME CommandInv, NEW p \in Passes, C!Throw(p)
    PROVE  CommandInv'
<1> DEFINE fr == [C!Disturb EXCEPT ![p].got = None, ![p].ok = TRUE]
<1> DEFINE github == passPc[p] \in {"fetchHead", "storeHead", "listing"}
<1> DEFINE railway == passPc[p] \in {"fetchDeployment", "storeResource", "storeSnapshot"}
<1>1. /\ UNCHANGED C!world /\ UNCHANGED C!git /\ UNCHANGED C!rail
      /\ UNCHANGED <<railwaySent, hookPc, hookFrame>> /\ open' = open
      /\ IF github \/ railway
         THEN /\ passPc' = [passPc EXCEPT ![p] = IF github THEN "compare" ELSE "snapshot"]
              /\ passFrame' = fr /\ settled' = FALSE
         ELSE C!NextLeg(p, fr, FALSE)
  BY DEF C!Throw, C!Goto, C!hook
<1>2. IsFrame(passFrame[p]) /\ PassOK(p) /\ passPc \in [Passes -> PassAt]
      /\ DOMAIN passFrame = Passes
  BY DEF PassOK, CommandInv, CommandTypes, PassTypes
<1> DEFINE g == [leg |-> passFrame[p].leg, live |-> passFrame[p].live, got |-> None,
                 ok |-> TRUE, want |-> passFrame[p].want, seen |-> passFrame[p].seen,
                 lone |-> FALSE]
<1>3. fr = [C!Disturb EXCEPT ![p] = g]
  <2>1. C!Disturb[p] = [leg |-> passFrame[p].leg, live |-> passFrame[p].live,
                        got |-> passFrame[p].got, ok |-> passFrame[p].ok,
                        want |-> passFrame[p].want, seen |-> passFrame[p].seen, lone |-> FALSE]
    BY <1>2, FrameFields DEF C!Disturb
  <2>2. fr = [C!Disturb EXCEPT ![p] = [C!Disturb[p] EXCEPT !.got = None, !.ok = TRUE]]
    BY DEF C!Disturb
  <2>3. [C!Disturb[p] EXCEPT !.got = None, !.ok = TRUE] = g
    <3> DEFINE h == C!Disturb[p]
    <3>1. /\ h = [leg |-> h.leg, live |-> h.live, got |-> h.got, ok |-> h.ok, want |-> h.want,
                  seen |-> h.seen, lone |-> h.lone]
          /\ h.leg = passFrame[p].leg /\ h.live = passFrame[p].live
          /\ h.want = passFrame[p].want /\ h.seen = passFrame[p].seen /\ h.lone = FALSE
      BY <2>1
    <3> HIDE DEF h
    <3>2. \A u, w : [h EXCEPT !.got = u, !.ok = w]
                    = [leg |-> h.leg, live |-> h.live, got |-> u, ok |-> w, want |-> h.want,
                       seen |-> h.seen, lone |-> h.lone]
      BY <3>1, MoreFields
    <3>3. [h EXCEPT !.got = None, !.ok = TRUE]
             = [leg |-> h.leg, live |-> h.live, got |-> None, ok |-> TRUE, want |-> h.want,
                seen |-> h.seen, lone |-> h.lone]
      BY <3>2, Zenon
    <3>4. [leg |-> h.leg, live |-> h.live, got |-> None, ok |-> TRUE, want |-> h.want,
           seen |-> h.seen, lone |-> h.lone] = g
      BY <3>1, Zenon
    <3>5. [h EXCEPT !.got = None, !.ok = TRUE] = g
      BY <3>3, <3>4, Zenon
    <3>6. QED
      BY <3>5 DEF h
  <2>4. QED
    BY <2>2, <2>3
<1>4. IsFrame(g) /\ ~g.lone /\ g.leg = passFrame[p].leg /\ g.live = passFrame[p].live
      /\ g.got = None
  BY <1>2 DEF IsFrame
<1>5. fr[p] = g /\ \A x : [fr EXCEPT ![p] = x] = [C!Disturb EXCEPT ![p] = x]
  BY <1>3 DEF C!Disturb
<1> HIDE DEF fr, g
<1>6. ASSUME NEW l \in PassAt, NEW x, passPc' = [passPc EXCEPT ![p] = l], ~settled',
             settled' \in BOOLEAN,
             passFrame' = [C!Disturb EXCEPT ![p] = x], IsFrame(x), ~x.lone,
             passPc'[p] = l /\ passFrame'[p] = x => PassOK(p)'
      PROVE  CommandInv'
  BY <1>1, <1>6, PassTurns
<1>7. CASE github \/ railway
  <2> DEFINE l == IF github THEN "compare" ELSE "snapshot"
  <2>1. /\ passPc' = [passPc EXCEPT ![p] = l] /\ passFrame' = [C!Disturb EXCEPT ![p] = g]
        /\ settled' = FALSE
    BY <1>1, <1>3, <1>7
  <2>2. l \in PassAt
    BY DEF PassAt
  <2>3. ASSUME passPc'[p] = l, passFrame'[p] = g PROVE PassOK(p)'
    BY <1>1, <1>2, <1>4, <1>7, <2>3, SameWorld DEF PassOK, IsFrame, C!Owned, C!NoFrame
  <2> HIDE DEF l
  <2>4. QED
    BY <1>4, <1>6, <2>1, <2>2, <2>3
<1>8. CASE C!NextLeg(p, fr, FALSE)
  <2> USE LegFrames, NoPassFrame
  <2>1. CASE /\ g.leg = "health" /\ "github" \in synced /\ settled' = FALSE
             /\ passPc' = [passPc EXCEPT ![p] = "fetchHead"]
             /\ passFrame' = [C!Disturb EXCEPT ![p] = LegFrame("repo", g.live, FALSE)]
    <3> DEFINE x == LegFrame("repo", g.live, FALSE)
    <3>1. IsFrame(x) /\ ~x.lone /\ x.leg = "repo" /\ "fetchHead" \in PassAt
      <4>1. g.live \in Nat \cup {None}
        BY <1>4 DEF IsFrame
      <4>2. "fetchHead" \in PassAt
        BY DEF PassAt
      <4>3. "repo" \in {"repo", "deploy"} /\ FALSE \in BOOLEAN
        OBVIOUS
      <4>4. IsFrame(x) /\ x.leg = "repo" /\ x.lone = FALSE
        BY <4>1, <4>3, LegFrames, Zenon
      <4> HIDE DEF x
      <4>5. QED
        BY <4>2, <4>4
    <3> HIDE DEF x
    <3>2. ASSUME passPc'[p] = "fetchHead", passFrame'[p] = x PROVE PassOK(p)'
      BY <1>1, <2>1, <3>1, <3>2, SameWorld DEF PassOK, IsFrame, C!Owned, C!NoFrame
    <3>3. passFrame' = [C!Disturb EXCEPT ![p] = x]
      BY <2>1 DEF x
    <3>4. QED
      BY <1>6, <2>1, <3>1, <3>2, <3>3
  <2>2. CASE /\ settled' = FALSE
             /\ passPc' = [passPc EXCEPT ![p] = IF "railway" \in synced THEN "fetchDeployment"
                                                ELSE "snapshot"]
             /\ passFrame' = [C!Disturb EXCEPT ![p] = LegFrame("deploy", None, FALSE)]
    <3> DEFINE x == LegFrame("deploy", None, FALSE)
    <3> DEFINE l == IF "railway" \in synced THEN "fetchDeployment" ELSE "snapshot"
    <3>1. IsFrame(x) /\ ~x.lone /\ x.leg = "deploy" /\ l \in PassAt
      BY DEF PassAt
    <3> HIDE DEF x
    <3>2. ASSUME passPc'[p] = l, passFrame'[p] = x PROVE PassOK(p)'
      <4>1. \/ passPc'[p] = "fetchDeployment" /\ "railway" \in synced
            \/ passPc'[p] = "snapshot"
        BY <3>2
      <4>2. ~passFrame'[p].lone /\ passFrame'[p].leg = "deploy" /\ IsFrame(passFrame'[p])
        BY <3>1, <3>2
      <4>3. synced' = synced
        BY <1>1, SameWorld
      <4>4. QED
        BY <4>1, <4>2, <4>3 DEF PassOK, IsFrame, C!Owned, C!NoFrame
    <3>3. passFrame' = [C!Disturb EXCEPT ![p] = x] /\ passPc' = [passPc EXCEPT ![p] = l]
      BY <2>2 DEF x
    <3> HIDE DEF l
    <3>4. QED
      BY <1>6, <2>2, <3>1, <3>2, <3>3
  <2>3. CASE /\ settled' = FALSE /\ passPc' = [passPc EXCEPT ![p] = "idle"]
             /\ passFrame' = [C!Disturb EXCEPT ![p] = C!NoFrame]
    <3>1. ASSUME passPc'[p] = "idle", passFrame'[p] = C!NoFrame PROVE PassOK(p)'
      <4>1. passFrame'[p] = C!NoFrame'
        BY <3>1 DEF C!NoFrame
      <4>2. IsFrame(C!NoFrame)' = IsFrame(C!NoFrame)
        BY DEF IsFrame, C!NoFrame, C!Owned
      <4>3. QED
        BY <3>1, <4>1, <4>2, NoPassFrame DEF PassOK, IsFrame, C!Owned, C!NoFrame
    <3>2. "idle" \in PassAt
      BY DEF PassAt
    <3>3. QED
      BY <1>6, <2>3, <3>1, <3>2
  <2>4. IsFrame(fr[p]) /\ fr[p].lone = FALSE
    <3>1. fr[p].lone = FALSE
      BY <1>5 DEF g
    <3>2. QED
      BY <1>4, <1>5, <3>1
  <2>5. fr[p].leg = g.leg /\ fr[p].live = g.live
    BY <1>5
  <2>6. QED
    <3>1. \/ /\ fr[p].leg = "health" /\ "github" \in synced /\ settled' = FALSE
             /\ passPc' = [passPc EXCEPT ![p] = "fetchHead"]
             /\ passFrame' = [fr EXCEPT ![p] = LegFrame("repo", fr[p].live, fr[p].lone)]
          \/ /\ settled' = FALSE
             /\ passPc' = [passPc EXCEPT ![p] = IF "railway" \in synced THEN "fetchDeployment"
                                                ELSE "snapshot"]
             /\ passFrame' = [fr EXCEPT ![p] = LegFrame("deploy", None, fr[p].lone)]
          \/ /\ settled' = (FALSE \/ fr[p].lone)
             /\ passPc' = [passPc EXCEPT ![p] = "idle"]
             /\ passFrame' = [fr EXCEPT ![p] = C!NoFrame]
      BY <1>8, <2>4, NextLegs, Zenon
    <3>2. (FALSE \/ fr[p].lone) = FALSE /\ fr[p].lone = FALSE
      BY <2>4
    <3>3. \A x : [fr EXCEPT ![p] = x] = [C!Disturb EXCEPT ![p] = x]
      BY <1>5
    <3>4. \/ /\ g.leg = "health" /\ "github" \in synced /\ settled' = FALSE
             /\ passPc' = [passPc EXCEPT ![p] = "fetchHead"]
             /\ passFrame' = [C!Disturb EXCEPT ![p] = LegFrame("repo", g.live, FALSE)]
          \/ /\ settled' = FALSE
             /\ passPc' = [passPc EXCEPT ![p] = IF "railway" \in synced THEN "fetchDeployment"
                                                ELSE "snapshot"]
             /\ passFrame' = [C!Disturb EXCEPT ![p] = LegFrame("deploy", None, FALSE)]
          \/ /\ settled' = FALSE
             /\ passPc' = [passPc EXCEPT ![p] = "idle"]
             /\ passFrame' = [C!Disturb EXCEPT ![p] = C!NoFrame]
      <4>1. LegFrame("repo", fr[p].live, fr[p].lone) = LegFrame("repo", g.live, FALSE)
        BY <2>5, <3>2, Zenon
      <4>2. LegFrame("deploy", None, fr[p].lone) = LegFrame("deploy", None, FALSE)
        BY <3>2, Zenon
      <4>3. CASE /\ fr[p].leg = "health" /\ "github" \in synced /\ settled' = FALSE
                 /\ passPc' = [passPc EXCEPT ![p] = "fetchHead"]
                 /\ passFrame' = [fr EXCEPT ![p] = LegFrame("repo", fr[p].live, fr[p].lone)]
        <5>1. passFrame' = [C!Disturb EXCEPT ![p] = LegFrame("repo", g.live, FALSE)]
          BY <3>3, <4>1, <4>3, Zenon
        <5>2. QED
          BY <2>5, <4>3, <5>1, Zenon
      <4>4. CASE /\ settled' = FALSE
                 /\ passPc' = [passPc EXCEPT ![p] = IF "railway" \in synced THEN "fetchDeployment"
                                                    ELSE "snapshot"]
                 /\ passFrame' = [fr EXCEPT ![p] = LegFrame("deploy", None, fr[p].lone)]
        <5>0. passFrame' = [fr EXCEPT ![p] = LegFrame("deploy", None, fr[p].lone)]
          BY <4>4
        <5>1. passFrame' = [C!Disturb EXCEPT ![p] = LegFrame("deploy", None, FALSE)]
          <6>1. [fr EXCEPT ![p] = LegFrame("deploy", None, fr[p].lone)]
                = [fr EXCEPT ![p] = LegFrame("deploy", None, FALSE)]
            BY <4>2, Zenon
          <6>2. [fr EXCEPT ![p] = LegFrame("deploy", None, FALSE)]
                = [C!Disturb EXCEPT ![p] = LegFrame("deploy", None, FALSE)]
            BY <3>3, Zenon
          <6>3. QED
            BY <5>0, <6>1, <6>2, Zenon
        <5>2. QED
          BY <4>4, <5>1, Zenon
      <4>5. CASE /\ settled' = (FALSE \/ fr[p].lone)
                 /\ passPc' = [passPc EXCEPT ![p] = "idle"]
                 /\ passFrame' = [fr EXCEPT ![p] = C!NoFrame]
        <5>1. passFrame' = [C!Disturb EXCEPT ![p] = C!NoFrame] /\ settled' = FALSE
          BY <3>2, <3>3, <4>5, Zenon
        <5>2. QED
          BY <4>5, <5>1, Zenon
      <4>6. QED
        BY <3>1, <4>3, <4>4, <4>5, Zenon
    <3>5. QED
      BY <2>1, <2>2, <2>3, <3>4, Zenon
<1>9. QED
  BY <1>1, <1>7, <1>8

\* A pass that moves within its leg.
Place(l, f) ==
    /\ l \in PassAt \ {"idle"} /\ IsFrame(f)
    /\ l \in {"probe", "page"} => f.leg = "health"
    /\ l \in {"fetchHead", "storeHead", "listing", "compare"} => f.leg = "repo"
    /\ f.leg = "repo" => "github" \in synced
    /\ l \in {"fetchDeployment", "storeResource", "storeSnapshot", "snapshot"} => f.leg = "deploy"
    /\ l \in {"fetchDeployment", "storeResource", "storeSnapshot"} => "railway" \in synced
    /\ l = "storeHead" => f.got \in Nat \cup {None}
    /\ l = "storeResource" => f.got \in Deployment \cup {None}
    /\ l = "storeSnapshot" => f.got \in Deployment
    /\ l \in {"storeResource", "storeSnapshot"} /\ f.got # None => deployed # <<>>

LEMMA Placed ==
    ASSUME CommandInv, NEW p \in Passes, NEW l, NEW f, Place(l, f), UNCHANGED C!world,
           f.lone => passFrame[p].lone, passPc'[p] = l, passFrame'[p] = f,
           \A q \in Passes \ {p} : passPc'[q] = passPc[q]
    PROVE  PassOK(p)'
<1>1. PassOK(p)
  BY DEF CommandInv
<1>2. f.lone => \A q \in Passes \ {p} : passPc'[q] = "idle"
  BY <1>1 DEF PassOK
<1>3. QED
  BY <1>2, SameWorld DEF Place, PassOK, IsFrame, C!Owned, C!NoFrame

LEMMA PassSteps ==
    ASSUME CommandInv, NEW p \in Passes, passPc[p] # "idle", NEW l, NEW f, Place(l, f),
           passPc' = [passPc EXCEPT ![p] = l], passFrame' = [passFrame EXCEPT ![p] = f],
           UNCHANGED C!world, UNCHANGED <<railwaySent, hookPc, hookFrame>>,
           MirrorTypes', OpenTypes', settled' \in BOOLEAN,
           f.lone => passFrame[p].lone, settled' => settled,
           passPc'[p] = l /\ passFrame'[p] = f /\ (settled' \/ f.lone)
              => FactsOK(p)' /\ WriteOK(p)',
           passPc'[p] = l /\ passFrame'[p] = f /\ f.lone => BehindOK(p)',
           settled' => AllRight' /\ open' = open
    PROVE  CommandInv'
<1>1. passPc'[p] = l /\ passFrame'[p] = f
        /\ (\A q \in Passes \ {p} : passPc'[q] = passPc[q] /\ passFrame'[q] = passFrame[q])
        => PassOK(p)'
  BY Placed
<1>2. l \in PassAt
  BY DEF Place
<1>3. QED
  BY <1>1, <1>2, PassMoves

\* A pass that only reads.
LEMMA PassReads ==
    ASSUME CommandInv, NEW p \in Passes, passPc[p] # "idle", NEW l, NEW f, Place(l, f),
           passPc' = [passPc EXCEPT ![p] = l], passFrame' = [passFrame EXCEPT ![p] = f],
           UNCHANGED C!world, UNCHANGED C!git, UNCHANGED C!rail, UNCHANGED C!hook, open' = open,
           settled' \in BOOLEAN, f.lone => passFrame[p].lone, settled' => settled,
           passPc'[p] = l /\ passFrame'[p] = f /\ (settled' \/ f.lone)
              => FactsOK(p)' /\ WriteOK(p)',
           passPc'[p] = l /\ passFrame'[p] = f /\ f.lone => BehindOK(p)'
    PROVE  CommandInv'
<1>1. MirrorTypes' /\ OpenTypes' /\ (settled' => AllRight')
  BY SameMirrors DEF CommandInv, CommandTypes
<1>2. UNCHANGED <<railwaySent, hookPc, hookFrame>>
  BY DEF C!hook
<1>3. QED
  BY <1>1, <1>2, PassSteps

\* What a call leaves in the frame.
Answered(f, ok) == [leg |-> f.leg, live |-> f.live, got |-> f.got, ok |-> f.ok,
                    want |-> f.want, seen |-> f.seen, lone |-> f.lone /\ ok]

LEMMA CalledFrame ==
    ASSUME CommandInv, NEW p \in Passes, NEW ok \in BOOLEAN, NEW f, IsFrame(f), C!Called(p, ok, f)
    PROVE  /\ passFrame' = [passFrame EXCEPT ![p] = Answered(f, ok)]
           /\ IsFrame(Answered(f, ok)) /\ settled' \in BOOLEAN
           /\ settled' => settled /\ ok
           /\ Answered(f, ok).lone => f.lone /\ ok
           /\ Answered(f, ok).leg = f.leg /\ Answered(f, ok).live = f.live
           /\ Answered(f, ok).got = f.got /\ Answered(f, ok).ok = f.ok
           /\ Answered(f, ok).want = f.want /\ Answered(f, ok).seen = f.seen
<1>1. passFrame' = [passFrame EXCEPT ![p] = IF ok THEN f ELSE [f EXCEPT !.lone = FALSE]]
      /\ settled' = (settled /\ ok) /\ settled \in BOOLEAN
  BY DEF C!Called, CommandInv, CommandTypes, PassTypes
<1>2. (IF ok THEN f ELSE [f EXCEPT !.lone = FALSE]) = Answered(f, ok)
  <2>1. CASE ok
    <3>1. f.lone = (f.lone /\ ok)
      BY <2>1 DEF IsFrame
    <3>2. f = [leg |-> f.leg, live |-> f.live, got |-> f.got, ok |-> f.ok,
               want |-> f.want, seen |-> f.seen, lone |-> f.lone]
      BY DEF IsFrame
    <3>3. f = Answered(f, ok)
      BY <3>1, <3>2, Zenon DEF Answered
    <3>4. QED
      BY <2>1, <3>3
  <2>2. CASE ~ok
    <3>1. FALSE = (f.lone /\ ok)
      BY <2>2
    <3>2. [f EXCEPT !.lone = FALSE] = [leg |-> f.leg, live |-> f.live, got |-> f.got, ok |-> f.ok,
                                       want |-> f.want, seen |-> f.seen, lone |-> FALSE]
      BY FrameFields
    <3>3. [f EXCEPT !.lone = FALSE] = Answered(f, ok)
      BY <3>1, <3>2, Zenon DEF Answered
    <3>4. QED
      BY <2>2, <3>3
  <2>3. QED
    BY <2>1, <2>2
<1>3. IsFrame(Answered(f, ok))
  BY DEF IsFrame, Answered
<1>4. QED
  BY <1>1, <1>2, <1>3 DEF Answered

LEMMA Owns ==
    /\ \A h \in {"up", "degraded", "down", "missing", "none"} :
          C!HealthRisks(h) \subseteq C!Owned["health"] \ {"application_error"}
    /\ WorldTypes => C!HealthRisks(health) = Due("health") \ {"application_error"}
<1>1. \A h \in {"up", "degraded", "down", "missing", "none"} :
          C!HealthRisks(h) \subseteq C!Owned["health"] \ {"application_error"}
  BY Legs DEF C!HealthRisks
<1>2. ASSUME WorldTypes PROVE C!HealthRisks(health) = Due("health") \ {"application_error"}
  <2>1. Due("health") \ {"application_error"}
          = {c \in {"health_down", "degraded", "missing_health_endpoint"} : C!Trigger[c]}
    BY Legs DEF Due
  <2>2. health \in {"up", "degraded", "down", "missing", "none"}
    BY <1>2 DEF WorldTypes
  <2>3. CASE health = "up"
    BY <2>1, <2>3, Triggers DEF C!HealthRisks
  <2>4. CASE health = "degraded"
    BY <2>1, <2>4, Triggers DEF C!HealthRisks
  <2>5. CASE health = "down"
    BY <2>1, <2>5, Triggers DEF C!HealthRisks
  <2>6. CASE health = "missing"
    BY <2>1, <2>6, Triggers DEF C!HealthRisks
  <2>7. CASE health = "none"
    BY <2>1, <2>7, Triggers DEF C!HealthRisks
  <2>8. QED
    BY <2>2, <2>3, <2>4, <2>5, <2>6, <2>7
<1>3. QED
  BY <1>1, <1>2

\* What is known of a pass before its step.
LEMMA Known ==
    ASSUME CommandInv, NEW p \in Passes
    PROVE  /\ WorldTypes /\ MirrorTypes /\ OpenTypes /\ settled \in BOOLEAN
           /\ PassOK(p) /\ IsFrame(passFrame[p])
           /\ passFrame[p].leg \in {"health", "repo", "deploy"}
           /\ passFrame[p].live \in Nat \cup {None} /\ passFrame[p].lone \in BOOLEAN
           /\ passFrame[p].want \subseteq C!Owned[passFrame[p].leg]
           /\ passFrame[p].leg = "repo" => "github" \in synced
           /\ settled \/ passFrame[p].lone => FactsOK(p) /\ WriteOK(p)
           /\ passFrame[p].lone => BehindOK(p)
  BY DEF CommandInv, CommandTypes, PassTypes, PassOK, IsFrame

LEMMA ProbeKeeps ==
    ASSUME CommandInv, NEW p \in Passes, NEW ok \in BOOLEAN, C!Probe(p, ok)
    PROVE  CommandInv'
<1> DEFINE h == IF ok \/ health = "none" THEN health ELSE "down"
<1> DEFINE at == IF ok /\ tells THEN live ELSE None
<1> DEFINE f == [passFrame[p] EXCEPT !.want = C!HealthRisks(h), !.live = at]
<1> DEFINE g == Answered(f, ok)
<1>1. /\ passPc[p] = "probe" /\ passPc' = [passPc EXCEPT ![p] = "page"] /\ C!Called(p, ok, f)
      /\ UNCHANGED C!world /\ UNCHANGED C!git /\ UNCHANGED C!rail /\ UNCHANGED C!hook
      /\ open' = open
  BY DEF C!Probe, C!Goto
<1>2. passFrame[p].leg = "health" /\ IsFrame(passFrame[p])
  BY <1>1, Known DEF PassOK
<1>3. /\ C!HealthRisks(h) \subseteq C!Owned["health"]
      /\ at \in Nat \cup {None}
  BY Known, Owns DEF WorldTypes
<1>4. f = [leg |-> passFrame[p].leg, live |-> at, got |-> passFrame[p].got, ok |-> passFrame[p].ok,
           want |-> C!HealthRisks(h), seen |-> passFrame[p].seen, lone |-> passFrame[p].lone]
  <2>1. passFrame[p] = [leg |-> passFrame[p].leg, live |-> passFrame[p].live,
                        got |-> passFrame[p].got, ok |-> passFrame[p].ok,
                        want |-> passFrame[p].want, seen |-> passFrame[p].seen,
                        lone |-> passFrame[p].lone]
    BY <1>2 DEF IsFrame
  <2> HIDE DEF h, at
  <2>2. \A u, w : [passFrame[p] EXCEPT !.want = u, !.live = w]
          = [leg |-> passFrame[p].leg, live |-> w, got |-> passFrame[p].got,
             ok |-> passFrame[p].ok, want |-> u, seen |-> passFrame[p].seen,
             lone |-> passFrame[p].lone]
    BY <2>1, MoreFields
  <2>3. QED
    BY <2>2, Zenon
<1>5. ok => C!HealthRisks(h) = Due("health") \ {"application_error"} /\ at = RunsNow
  BY Known, Owns DEF RunsNow
<1> HIDE DEF f, h, at
<1>6. IsFrame(f) /\ f.leg = "health" /\ f.want = C!HealthRisks(h) /\ f.live = at
      /\ f.lone = passFrame[p].lone
  BY <1>2, <1>3, <1>4 DEF IsFrame
<1>7. /\ passFrame' = [passFrame EXCEPT ![p] = g] /\ IsFrame(g) /\ settled' \in BOOLEAN
      /\ (settled' => settled /\ ok) /\ (g.lone => f.lone /\ ok)
      /\ g.leg = "health" /\ g.live = at /\ g.want = C!HealthRisks(h)
  BY <1>1, <1>6, CalledFrame
<1> HIDE DEF g
<1>8. Place("page", g)
  BY <1>7 DEF Place, PassAt
<1>9. ASSUME passPc'[p] = "page", passFrame'[p] = g, settled' \/ g.lone
      PROVE  FactsOK(p)' /\ WriteOK(p)' /\ BehindOK(p)'
  <2>1. g.want = Due("health")' \ {"application_error"} /\ g.live = RunsNow'
    BY <1>1, <1>5, <1>7, <1>9, SameWorld
  <2>2. QED
    BY <1>7, <1>9, <2>1 DEF FactsOK, WriteOK, BehindOK
<1>10. QED
  BY <1>1, <1>6, <1>7, <1>8, <1>9, PassReads

LEMMA ProbePageKeeps ==
    ASSUME CommandInv, NEW p \in Passes, NEW ok \in BOOLEAN, C!ProbePage(p, ok)
    PROVE  CommandInv'
<1> DEFINE w == IF ok /\ ~page THEN passFrame[p].want \cup {"application_error"}
                ELSE passFrame[p].want
<1> DEFINE f == [passFrame[p] EXCEPT !.want = w]
<1> DEFINE g == Answered(f, ok)
<1>1. /\ passPc[p] = "page" /\ passPc' = [passPc EXCEPT ![p] = "list"] /\ C!Called(p, ok, f)
      /\ UNCHANGED C!world /\ UNCHANGED C!git /\ UNCHANGED C!rail /\ UNCHANGED C!hook
      /\ open' = open
  BY DEF C!ProbePage, C!Goto
<1>2. passFrame[p].leg = "health" /\ IsFrame(passFrame[p])
  BY <1>1, Known DEF PassOK
<1>3. w \subseteq C!Owned["health"]
  BY <1>2, Known, Legs
<1>4. f = [leg |-> passFrame[p].leg, live |-> passFrame[p].live, got |-> passFrame[p].got,
           ok |-> passFrame[p].ok, want |-> w, seen |-> passFrame[p].seen,
           lone |-> passFrame[p].lone]
  <2> HIDE DEF w
  <2>1. QED
    BY <1>2, FrameFields
<1>5. ok /\ FactsOK(p) => w = Due("health") /\ passFrame[p].live = RunsNow
  BY <1>1, Legs, Triggers DEF FactsOK, Due
<1> HIDE DEF f, w
<1>6. IsFrame(f) /\ f.leg = "health" /\ f.want = w /\ f.live = passFrame[p].live
      /\ f.lone = passFrame[p].lone
  BY <1>2, <1>3, <1>4 DEF IsFrame
<1>7. /\ passFrame' = [passFrame EXCEPT ![p] = g] /\ IsFrame(g) /\ settled' \in BOOLEAN
      /\ (settled' => settled /\ ok) /\ (g.lone => f.lone /\ ok)
      /\ g.leg = "health" /\ g.live = passFrame[p].live /\ g.want = w
  BY <1>1, <1>6, CalledFrame
<1> HIDE DEF g
<1>8. Place("list", g)
  BY <1>7 DEF Place, PassAt
<1>9. ASSUME passPc'[p] = "list", passFrame'[p] = g, settled' \/ g.lone
      PROVE  FactsOK(p)' /\ WriteOK(p)' /\ BehindOK(p)'
  <2>1. FactsOK(p) /\ ok
    BY <1>6, <1>7, <1>9, Known
  <2>2. g.want = Due("health")' /\ g.live = RunsNow'
    BY <1>1, <1>5, <1>7, <2>1, SameWorld
  <2>3. QED
    BY <1>7, <1>9, <2>2 DEF FactsOK, WriteOK, BehindOK
<1>10. QED
  BY <1>1, <1>6, <1>7, <1>8, <1>9, PassReads

LEMMA FetchHeadKeeps ==
    ASSUME CommandInv, NEW p \in Passes, NEW repoOk \in BOOLEAN, NEW branchOk \in BOOLEAN,
           C!FetchHead(p, repoOk, branchOk)
    PROVE  CommandInv'
<1> DEFINE ok == repoOk /\ branchOk
<1> DEFINE w == IF ok THEN head ELSE None
<1> DEFINE f == [passFrame[p] EXCEPT !.got = w]
<1> DEFINE g == Answered(f, ok)
<1> DEFINE l == IF repoOk THEN "storeHead" ELSE "compare"
<1>1. /\ passPc[p] = "fetchHead" /\ passPc' = [passPc EXCEPT ![p] = l] /\ C!Called(p, ok, f)
      /\ UNCHANGED C!world /\ UNCHANGED C!git /\ UNCHANGED C!rail /\ UNCHANGED C!hook
      /\ open' = open
  BY DEF C!FetchHead, C!Goto
<1>2. passFrame[p].leg = "repo" /\ IsFrame(passFrame[p]) /\ "github" \in synced
  BY <1>1, Known DEF PassOK
<1>3. w \in Nat \cup {None} /\ ok \in BOOLEAN
  BY Known DEF WorldTypes
<1>4. f = [leg |-> passFrame[p].leg, live |-> passFrame[p].live, got |-> w,
           ok |-> passFrame[p].ok, want |-> passFrame[p].want, seen |-> passFrame[p].seen,
           lone |-> passFrame[p].lone]
  <2> HIDE DEF w
  <2>1. QED
    BY <1>2, FrameFields
<1>5. (ok => w = head /\ l = "storeHead") /\ l \in {"storeHead", "compare"}
  OBVIOUS
<1> HIDE DEF f, w, l, ok
<1>6. IsFrame(f) /\ f.leg = "repo" /\ f.got = w /\ f.live = passFrame[p].live
      /\ f.lone = passFrame[p].lone
  BY <1>2, <1>3, <1>4 DEF IsFrame
<1>7. /\ passFrame' = [passFrame EXCEPT ![p] = g] /\ IsFrame(g) /\ settled' \in BOOLEAN
      /\ (settled' => settled /\ ok) /\ (g.lone => f.lone /\ ok)
      /\ g.leg = "repo" /\ g.live = passFrame[p].live /\ g.got = w
  BY <1>1, <1>3, <1>6, CalledFrame
<1> HIDE DEF g
<1>8. Place(l, g)
  BY <1>2, <1>3, <1>5, <1>7 DEF Place, PassAt
<1>9. ASSUME passPc'[p] = l, passFrame'[p] = g, settled' \/ g.lone
      PROVE  FactsOK(p)' /\ WriteOK(p)' /\ (g.lone => BehindOK(p)')
  <2>1. FactsOK(p) /\ l = "storeHead" /\ w = head
    BY <1>5, <1>6, <1>7, <1>9, Known
  <2>2. g.live = RunsNow' /\ g.got = head'
    BY <1>1, <1>2, <1>7, <2>1, SameWorld DEF FactsOK
  <2>3. FactsOK(p)' /\ WriteOK(p)'
    BY <1>7, <1>9, <2>1, <2>2 DEF FactsOK, WriteOK
  <2>4. ASSUME g.lone PROVE BehindOK(p)'
    <3>1. Right("health")
      BY <1>2, <1>6, <1>7, <2>4, Known DEF BehindOK
    <3>2. Right("health")'
      BY <1>1, <3>1, SameMirrors
    <3>3. QED
      BY <1>7, <1>9, <2>1, <3>2 DEF BehindOK
  <2>5. QED
    BY <2>3, <2>4
<1>10. QED
  BY <1>1, <1>6, <1>7, <1>8, <1>9, PassReads

LEMMA StoreHeadKeeps ==
    ASSUME CommandInv, NEW p \in Passes, C!StoreHead(p)
    PROVE  CommandInv'
<1> DEFINE g == [passFrame[p] EXCEPT !.got = None]
<1>1. /\ passPc[p] = "storeHead" /\ passPc' = [passPc EXCEPT ![p] = "listing"]
      /\ mirrorHead' = passFrame[p].got /\ listed' = listed
      /\ UNCHANGED C!world /\ UNCHANGED C!rail /\ UNCHANGED <<resource, snaps, latest>>
      /\ UNCHANGED <<railwaySent, hookPc, hookFrame>>
      /\ open' = open /\ settled' = settled
  BY DEF C!StoreHead, C!Goto, C!rail, C!hook
<1>2. passFrame' = [passFrame EXCEPT ![p] = g]
  BY DEF C!StoreHead
<1>3. passFrame[p].leg = "repo" /\ IsFrame(passFrame[p]) /\ "github" \in synced
      /\ passFrame[p].got \in Nat \cup {None}
  BY <1>1, Known DEF PassOK
<1>4. g = [leg |-> passFrame[p].leg, live |-> passFrame[p].live, got |-> None,
           ok |-> passFrame[p].ok, want |-> passFrame[p].want, seen |-> passFrame[p].seen,
           lone |-> passFrame[p].lone]
  BY <1>3, FrameFields
<1>5. IsFrame(g) /\ g.leg = "repo" /\ g.live = passFrame[p].live /\ g.lone = passFrame[p].lone
  BY <1>3, <1>4 DEF IsFrame
<1> HIDE DEF g
<1>6. Place("listing", g)
  BY <1>3, <1>5 DEF Place, PassAt
<1>7. MirrorTypes' /\ OpenTypes'
  BY <1>1, <1>3, Known, SameWorld DEF MirrorTypes, OpenTypes, C!Categories, C!Owned
<1>8. ASSUME settled \/ passFrame[p].lone PROVE mirrorHead' = head'
  BY <1>1, <1>8, Known, SameWorld DEF FactsOK
<1>9. \A leg : Right(leg)' = Right(leg)
  BY <1>1, SameWorld DEF Right, Opened, C!CategoriesOf, C!Owned
<1>10. ASSUME passPc'[p] = "listing", passFrame'[p] = g, settled' \/ g.lone
       PROVE  FactsOK(p)' /\ WriteOK(p)' /\ (g.lone => BehindOK(p)')
  <2>1. FactsOK(p)
    BY <1>1, <1>5, <1>10, Known
  <2>2. g.live = RunsNow'
    BY <1>1, <1>3, <1>5, <2>1, SameWorld DEF FactsOK
  <2>3. FactsOK(p)' /\ WriteOK(p)'
    BY <1>5, <1>10, <2>2 DEF FactsOK, WriteOK
  <2>4. ASSUME g.lone PROVE BehindOK(p)'
    <3>1. Right("health") /\ mirrorHead' = head'
      BY <1>3, <1>5, <1>8, <2>4, Known DEF BehindOK
    <3>2. Right("health")'
      BY <1>9, <3>1
    <3>3. QED
      BY <1>5, <1>10, <3>1, <3>2 DEF BehindOK
  <2>5. QED
    BY <2>3, <2>4
<1>11. settled' => AllRight'
  <2> SUFFICES ASSUME settled' PROVE AllRight'
    OBVIOUS
  <2>1. settled /\ AllRight
    BY <1>1 DEF CommandInv
  <2>2. GitMirrored' /\ RailMirrored'
    BY <1>1, <1>8, <2>1, SameWorld DEF AllRight, GitMirrored, RailMirrored
  <2>3. QED
    BY <1>9, <2>1, <2>2 DEF AllRight
<1>12. settled' \in BOOLEAN
  BY <1>1, Known
<1>13. QED
  BY <1>1, <1>2, <1>5, <1>6, <1>7, <1>10, <1>11, <1>12, PassSteps

LEMMA ListCommitsKeeps ==
    ASSUME CommandInv, NEW p \in Passes, NEW ok \in BOOLEAN, C!ListCommits(p, ok)
    PROVE  CommandInv'
<1> DEFINE f == passFrame[p]
<1> DEFINE g == Answered(f, ok)
<1>1. /\ passPc[p] = "listing" /\ passPc' = [passPc EXCEPT ![p] = "compare"] /\ C!Called(p, ok, f)
      /\ listed' = (IF ok THEN head ELSE listed) /\ mirrorHead' = mirrorHead
      /\ UNCHANGED C!world /\ UNCHANGED C!rail /\ UNCHANGED <<resource, snaps, latest>>
      /\ UNCHANGED <<railwaySent, hookPc, hookFrame>>
      /\ open' = open
  BY DEF C!ListCommits, C!Goto, C!rail, C!hook
<1>2. f.leg = "repo" /\ IsFrame(f) /\ "github" \in synced
  BY <1>1, Known DEF PassOK
<1>3. /\ passFrame' = [passFrame EXCEPT ![p] = g] /\ IsFrame(g) /\ settled' \in BOOLEAN
      /\ (settled' => settled /\ ok) /\ (g.lone => passFrame[p].lone /\ ok)
      /\ g.leg = "repo" /\ g.live = passFrame[p].live
  BY <1>1, <1>2, CalledFrame
<1> HIDE DEF g
<1>4. Place("compare", g)
  BY <1>2, <1>3 DEF Place, PassAt
<1>5. MirrorTypes' /\ OpenTypes'
  BY <1>1, Known, SameWorld DEF WorldTypes, MirrorTypes, OpenTypes, C!Categories, C!Owned
<1>6. \A leg : Right(leg)' = Right(leg)
  BY <1>1, SameWorld DEF Right, Opened, C!CategoriesOf, C!Owned
<1>7. ASSUME passPc'[p] = "compare", passFrame'[p] = g, settled' \/ g.lone
      PROVE  FactsOK(p)' /\ WriteOK(p)' /\ (g.lone => BehindOK(p)')
  <2>1. FactsOK(p)
    BY <1>3, <1>7, Known
  <2>2. g.live = RunsNow'
    BY <1>1, <1>2, <1>3, <2>1, SameWorld DEF FactsOK
  <2>3. FactsOK(p)' /\ WriteOK(p)'
    BY <1>3, <1>7, <2>2 DEF FactsOK, WriteOK
  <2>4. ASSUME g.lone PROVE BehindOK(p)'
    <3>1. Right("health") /\ mirrorHead = head /\ ok
      BY <1>1, <1>2, <1>3, <2>4, Known DEF BehindOK
    <3>2. Right("health")' /\ GitMirrored'
      BY <1>1, <1>6, <3>1, SameWorld DEF GitMirrored
    <3>3. QED
      BY <1>3, <1>7, <3>1, <3>2 DEF BehindOK
  <2>5. QED
    BY <2>3, <2>4
<1>8. settled' => AllRight'
  <2> SUFFICES ASSUME settled' PROVE AllRight'
    OBVIOUS
  <2>1. AllRight /\ ok
    BY <1>3 DEF CommandInv
  <2>2. GitMirrored' /\ RailMirrored'
    BY <1>1, <2>1, SameWorld DEF AllRight, GitMirrored, RailMirrored
  <2>3. QED
    BY <1>6, <2>1, <2>2 DEF AllRight
<1>9. QED
  BY <1>1, <1>3, <1>4, <1>5, <1>7, <1>8, PassSteps

\* What the repository's leg wants.
RepoWants(at, ok) ==
    (IF ok /\ (at # None /\ mirrorHead # None) /\ mirrorHead > at
     THEN {"production_behind_main"} ELSE {})
    \cup (IF listed > 0 THEN marks[listed] ELSE {})

LEMMA RepoWantsRight ==
    ASSUME WorldTypes, MirrorTypes, NEW at, NEW ok \in BOOLEAN
    PROVE  /\ RepoWants(at, ok) \subseteq C!Owned["repo"]
           /\ ok /\ at = RunsNow /\ GitMirrored /\ "github" \in synced
                => RepoWants(at, ok) = Due("repo")
<1>1. listed > 0 => marks[listed] \in SUBSET {"failed_workflow", "security_sensitive_change"}
  <2>1. Marks \subseteq SUBSET {"failed_workflow", "security_sensitive_change"}
    BY BackgroundAssumption DEF C!CommandCenterAssumption
  <2>2. listed > 0 => listed \in 1 .. Len(marks)
    BY DEF WorldTypes, MirrorTypes
  <2>3. listed > 0 => marks[listed] \in Marks
    BY <2>2, ElementOfSeq DEF WorldTypes
  <2>4. QED
    BY <2>1, <2>3
<1>2. RepoWants(at, ok) \subseteq C!Owned["repo"]
  BY <1>1, Legs DEF RepoWants
<1>3. ASSUME ok, at = RunsNow, GitMirrored, "github" \in synced
      PROVE  RepoWants(at, ok) = Due("repo")
  <2>1. mirrorHead = head /\ listed = head /\ head \in Nat /\ live \in Nat
    BY <1>3 DEF GitMirrored, WorldTypes
  <2>2. mirrorHead # None /\ (at # None <=> tells)
        /\ (at # None => at = live)
    BY <1>3, <2>1, NoneApart DEF RunsNow
  <2>3. "production_behind_main" \in RepoWants(at, ok) <=> C!Trigger["production_behind_main"]
    <3>1. (listed > 0 => "production_behind_main" \notin marks[listed])
      BY <1>1
    <3>2. CASE at # None
      <4>1. mirrorHead > at <=> live < head
        BY <2>1, <2>2, <3>2
      <4>2. QED
        BY <1>3, <2>2, <3>1, <3>2, <4>1, Triggers DEF RepoWants
    <3>3. CASE at = None
      BY <1>3, <2>2, <3>1, <3>3, Triggers DEF RepoWants
    <3>4. QED
      BY <3>2, <3>3
  <2>4. "failed_workflow" \in RepoWants(at, ok) <=> C!Trigger["failed_workflow"]
    BY <1>3, <2>1, Triggers DEF RepoWants
  <2>5. "security_sensitive_change" \in RepoWants(at, ok)
          <=> C!Trigger["security_sensitive_change"]
    BY <1>3, <2>1, Triggers DEF RepoWants
  <2>6. QED
    BY <1>2, <2>3, <2>4, <2>5, Legs DEF Due
<1>4. QED
  BY <1>2, <1>3

LEMMA CompareKeeps ==
    ASSUME CommandInv, NEW p \in Passes, NEW ok \in BOOLEAN, C!Compare(p, ok)
    PROVE  CommandInv'
<1> DEFINE w == RepoWants(passFrame[p].live, ok)
<1> DEFINE f == [passFrame[p] EXCEPT !.want = w]
<1> DEFINE g == Answered(f, ok)
<1>1. /\ passPc[p] = "compare" /\ passPc' = [passPc EXCEPT ![p] = "list"] /\ C!Called(p, ok, f)
      /\ UNCHANGED C!world /\ UNCHANGED C!git /\ UNCHANGED C!rail /\ UNCHANGED C!hook
      /\ open' = open
  BY DEF C!Compare, C!Goto, RepoWants
<1>2. passFrame[p].leg = "repo" /\ IsFrame(passFrame[p]) /\ "github" \in synced
  BY <1>1, Known DEF PassOK
<1>3. w \subseteq C!Owned["repo"]
  BY Known, RepoWantsRight
<1>4. f = [leg |-> passFrame[p].leg, live |-> passFrame[p].live, got |-> passFrame[p].got,
           ok |-> passFrame[p].ok, want |-> w, seen |-> passFrame[p].seen,
           lone |-> passFrame[p].lone]
  <2> HIDE DEF w
  <2>1. QED
    BY <1>2, FrameFields
<1>5. ok /\ passFrame[p].live = RunsNow /\ GitMirrored => w = Due("repo")
  BY <1>2, Known, RepoWantsRight
<1> HIDE DEF f, w
<1>6. IsFrame(f) /\ f.leg = "repo" /\ f.want = w /\ f.live = passFrame[p].live
      /\ f.lone = passFrame[p].lone
  BY <1>2, <1>3, <1>4 DEF IsFrame
<1>7. /\ passFrame' = [passFrame EXCEPT ![p] = g] /\ IsFrame(g) /\ settled' \in BOOLEAN
      /\ (settled' => settled /\ ok) /\ (g.lone => f.lone /\ ok)
      /\ g.leg = "repo" /\ g.live = passFrame[p].live /\ g.want = w
  BY <1>1, <1>6, CalledFrame
<1> HIDE DEF g
<1>8. Place("list", g)
  BY <1>2, <1>7 DEF Place, PassAt
<1>9. ASSUME passPc'[p] = "list", passFrame'[p] = g, settled' \/ g.lone
      PROVE  FactsOK(p)' /\ WriteOK(p)' /\ (g.lone => BehindOK(p)')
  <2>1. FactsOK(p) /\ ok
    BY <1>6, <1>7, <1>9, Known
  <2>2. passFrame[p].live = RunsNow
    BY <1>2, <2>1 DEF FactsOK
  <2>3. GitMirrored
    <3>1. CASE settled
      BY <3>1 DEF CommandInv, AllRight
    <3>2. CASE passFrame[p].lone
      BY <1>1, <3>2, Known DEF BehindOK
    <3>3. QED
      BY <1>6, <1>7, <1>9, <3>1, <3>2
  <2>4. g.want = Due("repo")' /\ g.live = RunsNow'
    BY <1>1, <1>5, <1>7, <2>1, <2>2, <2>3, SameWorld
  <2>5. FactsOK(p)' /\ WriteOK(p)'
    BY <1>7, <1>9, <2>4 DEF FactsOK, WriteOK
  <2>6. ASSUME g.lone PROVE BehindOK(p)'
    <3>1. Right("health")
      BY <1>2, <1>6, <1>7, <2>6, Known DEF BehindOK
    <3>2. Right("health")' /\ GitMirrored'
      BY <1>1, <2>3, <3>1, SameMirrors
    <3>3. QED
      BY <1>7, <1>9, <3>2 DEF BehindOK
  <2>7. QED
    BY <2>5, <2>6
<1>10. QED
  BY <1>1, <1>6, <1>7, <1>8, <1>9, PassReads

LEMMA FetchDeploymentKeeps ==
    ASSUME CommandInv, NEW p \in Passes, NEW projectOk \in BOOLEAN, NEW latestOk \in BOOLEAN,
           C!FetchDeployment(p, projectOk, latestOk)
    PROVE  CommandInv'
<1> DEFINE ok == projectOk /\ latestOk
<1> DEFINE w == IF latestOk /\ deployed # <<>>
                THEN [dep |-> Len(deployed), status |-> C!Last(deployed)] ELSE None
<1> DEFINE f == [passFrame[p] EXCEPT !.ok = projectOk, !.got = w]
<1> DEFINE g == Answered(f, ok)
<1>1. /\ passPc[p] = "fetchDeployment" /\ passPc' = [passPc EXCEPT ![p] = "storeResource"]
      /\ C!Called(p, ok, f)
      /\ UNCHANGED C!world /\ UNCHANGED C!git /\ UNCHANGED C!rail /\ UNCHANGED C!hook
      /\ open' = open
  BY DEF C!FetchDeployment, C!Goto
<1>2. passFrame[p].leg = "deploy" /\ IsFrame(passFrame[p]) /\ "railway" \in synced
  BY <1>1, Known DEF PassOK
<1>3. /\ w \in Deployment \cup {None} /\ (w # None => deployed # <<>>)
      /\ (latestOk => w = Deployed)
  <2>1. deployed \in Seq(C!DeployStatuses)
    BY Known DEF WorldTypes
  <2>2. deployed # <<>> => Len(deployed) \in Nat /\ deployed[Len(deployed)] \in C!DeployStatuses
    <3>1. Len(deployed) \in Nat /\ (deployed # <<>> => Len(deployed) \in 1 .. Len(deployed))
      BY <2>1, EmptySeq, LenProperties
    <3>2. QED
      BY <2>1, <3>1, ElementOfSeq
  <2>3. C!Last(deployed) = deployed[Len(deployed)]
    BY DEF C!Last
  <2>4. QED
    BY <2>2, <2>3, NoneApart DEF Deployment, Deployed
<1>4. f = [leg |-> passFrame[p].leg, live |-> passFrame[p].live, got |-> w, ok |-> projectOk,
           want |-> passFrame[p].want, seen |-> passFrame[p].seen, lone |-> passFrame[p].lone]
  <2> HIDE DEF w
  <2>1. passFrame[p] = [leg |-> passFrame[p].leg, live |-> passFrame[p].live,
                        got |-> passFrame[p].got, ok |-> passFrame[p].ok,
                        want |-> passFrame[p].want, seen |-> passFrame[p].seen,
                        lone |-> passFrame[p].lone]
    BY <1>2 DEF IsFrame
  <2>2. \A u, v : [passFrame[p] EXCEPT !.ok = u, !.got = v]
          = [leg |-> passFrame[p].leg, live |-> passFrame[p].live, got |-> v, ok |-> u,
             want |-> passFrame[p].want, seen |-> passFrame[p].seen, lone |-> passFrame[p].lone]
    BY <2>1, MoreFields
  <2>3. QED
    BY <2>2, Zenon
<1>5. ok \in BOOLEAN /\ (ok => projectOk /\ w = Deployed)
  BY <1>3
<1> HIDE DEF f, w, ok
<1>6. IsFrame(f) /\ f.leg = "deploy" /\ f.got = w /\ f.ok = projectOk
      /\ f.lone = passFrame[p].lone
  BY <1>2, <1>3, <1>4 DEF IsFrame
<1>7. /\ passFrame' = [passFrame EXCEPT ![p] = g] /\ IsFrame(g) /\ settled' \in BOOLEAN
      /\ (settled' => settled /\ ok) /\ (g.lone => f.lone /\ ok)
      /\ g.leg = "deploy" /\ g.got = w /\ g.ok = projectOk
  BY <1>1, <1>5, <1>6, CalledFrame
<1> HIDE DEF g
<1>8. Place("storeResource", g)
  BY <1>2, <1>3, <1>7 DEF Place, PassAt
<1>9. ASSUME passPc'[p] = "storeResource", passFrame'[p] = g, settled' \/ g.lone
      PROVE  FactsOK(p)' /\ WriteOK(p)' /\ (g.lone => BehindOK(p)')
  <2>1. ok /\ projectOk /\ w = Deployed'
    BY <1>1, <1>5, <1>7, <1>9, SameWorld
  <2>2. FactsOK(p)' /\ WriteOK(p)'
    BY <1>7, <1>9, <2>1 DEF FactsOK, WriteOK
  <2>3. ASSUME g.lone PROVE BehindOK(p)'
    <3>1. Right("health") /\ Right("repo") /\ GitMirrored
      BY <1>2, <1>6, <1>7, <2>3, Known DEF BehindOK
    <3>2. Right("health")' /\ Right("repo")' /\ GitMirrored'
      BY <1>1, <3>1, SameMirrors
    <3>3. QED
      BY <1>7, <1>9, <3>2 DEF BehindOK
  <2>4. QED
    BY <2>2, <2>3
<1>10. QED
  BY <1>1, <1>6, <1>7, <1>8, <1>9, PassReads

LEMMA StoreResourceKeeps ==
    ASSUME CommandInv, NEW p \in Passes, C!StoreResource(p)
    PROVE  CommandInv'
<1> DEFINE g == [passFrame[p] EXCEPT !.ok = TRUE]
<1> DEFINE l == IF passFrame[p].got = None THEN "snapshot" ELSE "storeSnapshot"
<1>1. /\ passPc[p] = "storeResource" /\ passPc' = [passPc EXCEPT ![p] = l]
      /\ resource' = (IF passFrame[p].ok THEN "active" ELSE "inactive")
      /\ UNCHANGED <<mirrorHead, listed, snaps, latest>>
      /\ UNCHANGED C!world /\ UNCHANGED <<railwaySent, hookPc, hookFrame>>
      /\ open' = open /\ settled' = settled
  BY DEF C!StoreResource, C!Goto, C!git, C!hook
<1>2. passFrame' = [passFrame EXCEPT ![p] = g]
  BY DEF C!StoreResource
<1>3. passFrame[p].leg = "deploy" /\ IsFrame(passFrame[p]) /\ "railway" \in synced
      /\ passFrame[p].got \in Deployment \cup {None}
      /\ (passFrame[p].got # None => deployed # <<>>)
  BY <1>1, Known DEF PassOK
<1>4. g = [leg |-> passFrame[p].leg, live |-> passFrame[p].live, got |-> passFrame[p].got,
           ok |-> TRUE, want |-> passFrame[p].want, seen |-> passFrame[p].seen,
           lone |-> passFrame[p].lone]
  BY <1>3, FrameFields
<1>5. IsFrame(g) /\ g.leg = "deploy" /\ g.got = passFrame[p].got /\ g.lone = passFrame[p].lone
  BY <1>3, <1>4 DEF IsFrame
<1>6. l \in {"snapshot", "storeSnapshot"} /\ (l = "snapshot" <=> g.got = None)
  BY <1>5
<1> HIDE DEF g, l
<1>7. Place(l, g)
  BY <1>3, <1>5, <1>6 DEF Place, PassAt
<1>8. MirrorTypes' /\ OpenTypes'
  BY <1>1, <1>3, Known, SameWorld DEF MirrorTypes, OpenTypes, C!Categories, C!Owned
<1>9. ASSUME settled \/ passFrame[p].lone
      PROVE  resource' = "active" /\ g.got = Deployed'
             /\ (l = "snapshot" => deployed' = <<>>)
  <2>1. passFrame[p].ok /\ passFrame[p].got = Deployed
    BY <1>1, <1>9, Known DEF FactsOK
  <2>2. deployed # <<>> => Deployed # None
    <3>1. deployed # <<>> => Len(deployed) \in Nat /\ deployed[Len(deployed)] \in C!DeployStatuses
      <4>1. deployed \in Seq(C!DeployStatuses)
        BY Known DEF WorldTypes
      <4>2. Len(deployed) \in Nat /\ (deployed # <<>> => Len(deployed) \in 1 .. Len(deployed))
        BY <4>1, EmptySeq, LenProperties
      <4>3. QED
        BY <4>1, <4>2, ElementOfSeq
    <3>2. QED
      BY <3>1, NoneApart DEF Deployed, Deployment
  <2>3. QED
    BY <1>1, <1>5, <1>6, <2>1, <2>2, SameWorld
<1>10. \A leg : Right(leg)' = Right(leg)
  BY <1>1, SameWorld DEF Right, Opened, C!CategoriesOf, C!Owned
<1>11. GitMirrored' = GitMirrored
  BY <1>1, SameWorld DEF GitMirrored
<1>12. ASSUME passPc'[p] = l, passFrame'[p] = g, settled' \/ g.lone
       PROVE  FactsOK(p)' /\ WriteOK(p)' /\ (g.lone => BehindOK(p)')
  <2>1. g.got = Deployed' /\ resource' = "active" /\ (l = "snapshot" => deployed' = <<>>)
    BY <1>1, <1>5, <1>9, <1>12
  <2>2. FactsOK(p)' /\ WriteOK(p)'
    BY <1>5, <1>6, <1>12, <2>1 DEF FactsOK, WriteOK
  <2>3. ASSUME g.lone PROVE BehindOK(p)'
    <3>1. Right("health") /\ Right("repo") /\ GitMirrored
      BY <1>3, <1>5, <2>3, Known DEF BehindOK
    <3>2. Right("health")' /\ Right("repo")' /\ GitMirrored'
      BY <1>10, <1>11, <3>1
    <3>3. l = "snapshot" => RailMirrored'
      BY <2>1 DEF RailMirrored
    <3>4. QED
      BY <1>5, <1>6, <1>12, <2>1, <3>2, <3>3 DEF BehindOK
  <2>4. QED
    BY <2>2, <2>3
<1>13. settled' => AllRight'
  <2> SUFFICES ASSUME settled' PROVE AllRight'
    OBVIOUS
  <2>1. settled /\ AllRight
    BY <1>1 DEF CommandInv
  <2>2. RailMirrored'
    <3>1. RailMirrored /\ resource' = "active"
      BY <1>9, <2>1 DEF AllRight
    <3>2. QED
      BY <1>1, <3>1, SameWorld DEF RailMirrored
  <2>3. QED
    BY <1>10, <1>11, <2>1, <2>2 DEF AllRight
<1>14. settled' \in BOOLEAN
  BY <1>1, Known
<1>15. QED
  BY <1>1, <1>2, <1>5, <1>7, <1>8, <1>12, <1>13, <1>14, PassSteps

LEMMA StoreSnapshotKeeps ==
    ASSUME CommandInv, NEW p \in Passes, C!StoreSnapshot(p)
    PROVE  CommandInv'
<1> DEFINE g == [passFrame[p] EXCEPT !.got = None]
<1>1. /\ passPc[p] = "storeSnapshot" /\ passPc' = [passPc EXCEPT ![p] = "snapshot"]
      /\ C!UpsertSnapshot(passFrame[p].got.dep, passFrame[p].got.status)
      /\ UNCHANGED <<mirrorHead, listed, resource>>
      /\ UNCHANGED C!world /\ UNCHANGED <<railwaySent, hookPc, hookFrame>>
      /\ open' = open /\ settled' = settled
  BY DEF C!StoreSnapshot, C!Goto, C!git, C!hook
<1>2. passFrame' = [passFrame EXCEPT ![p] = g]
  BY DEF C!StoreSnapshot
<1>3. passFrame[p].leg = "deploy" /\ IsFrame(passFrame[p]) /\ "railway" \in synced
      /\ passFrame[p].got \in Deployment /\ deployed # <<>>
  <2>1. passFrame[p].got # None => deployed # <<>>
    BY <1>1, Known DEF PassOK
  <2>2. passFrame[p].got \in Deployment
    BY <1>1, Known DEF PassOK
  <2>3. QED
    BY <1>1, <2>1, <2>2, NoneApart, Known DEF PassOK
<1>4. g = [leg |-> passFrame[p].leg, live |-> passFrame[p].live, got |-> None,
           ok |-> passFrame[p].ok, want |-> passFrame[p].want, seen |-> passFrame[p].seen,
           lone |-> passFrame[p].lone]
  BY <1>3, FrameFields
<1>5. IsFrame(g) /\ g.leg = "deploy" /\ g.lone = passFrame[p].lone
  BY <1>3, <1>4 DEF IsFrame
<1> HIDE DEF g
<1>6. Place("snapshot", g)
  BY <1>3, <1>5 DEF Place, PassAt
<1>7. MirrorTypes' /\ latest' = passFrame[p].got.dep /\ passFrame[p].got \in snaps'
  <2>1. MirrorTypes
    BY Known
  <2>2. QED
    BY <1>1, <1>3, <2>1, SnapshotTypes
<1>8. OpenTypes' /\ (\A leg : Right(leg)' = Right(leg)) /\ GitMirrored' = GitMirrored
  BY <1>1, Known, SameWorld DEF OpenTypes, C!Categories, C!Owned, Right, Opened, C!CategoriesOf,
     GitMirrored
<1>9. ASSUME settled \/ passFrame[p].lone PROVE RailMirrored'
  <2>1. passFrame[p].got = Deployed
    BY <1>1, <1>9, Known DEF FactsOK
  <2>2. resource = "active"
    <3>1. CASE settled
      BY <1>3, <3>1 DEF CommandInv, AllRight, RailMirrored
    <3>2. CASE passFrame[p].lone
      BY <1>1, <3>2, Known DEF BehindOK
    <3>3. QED
      BY <1>9, <3>1, <3>2
  <2>3. Deployed.dep = Len(deployed)
    BY <1>3 DEF Deployed
  <2>4. resource' = "active" /\ latest' = Len(deployed)' /\ Deployed' \in snaps'
    BY <1>1, <1>7, <2>1, <2>2, <2>3, SameWorld
  <2>5. QED
    BY <2>4 DEF RailMirrored
<1>10. ASSUME passPc'[p] = "snapshot", passFrame'[p] = g, settled' \/ g.lone
       PROVE  FactsOK(p)' /\ WriteOK(p)' /\ (g.lone => BehindOK(p)')
  <2>1. FactsOK(p)' /\ WriteOK(p)'
    BY <1>5, <1>10 DEF FactsOK, WriteOK
  <2>2. ASSUME g.lone PROVE BehindOK(p)'
    <3>1. Right("health") /\ Right("repo") /\ GitMirrored
      BY <1>3, <1>5, <2>2, Known DEF BehindOK
    <3>2. Right("health")' /\ Right("repo")' /\ GitMirrored' /\ RailMirrored'
      BY <1>5, <1>8, <1>9, <2>2, <3>1
    <3>3. QED
      BY <1>5, <1>10, <3>2 DEF BehindOK
  <2>3. QED
    BY <2>1, <2>2
<1>11. settled' => AllRight'
  BY <1>1, <1>8, <1>9 DEF CommandInv, AllRight
<1>12. settled' \in BOOLEAN
  BY <1>1, Known
<1>13. QED
  BY <1>1, <1>2, <1>5, <1>6, <1>7, <1>8, <1>10, <1>11, <1>12, PassSteps

LEMMA DeploymentRisksRight ==
    ASSUME WorldTypes, MirrorTypes
    PROVE  /\ C!DeploymentRisks \subseteq C!Owned["deploy"]
           /\ RailMirrored => C!DeploymentRisks = Due("deploy")
<1>1. C!DeploymentRisks \subseteq C!Owned["deploy"]
  BY Legs DEF C!DeploymentRisks
<1>2. ASSUME RailMirrored PROVE C!DeploymentRisks = Due("deploy")
  <2>1. CASE "railway" \notin synced
    <3>1. C!DeploymentRisks = IF Production THEN {"missing_railway_mapping"} ELSE {}
      BY <2>1 DEF MirrorTypes, C!DeploymentRisks
    <3>2. QED
      BY <2>1, <3>1, Legs, Triggers DEF Due
  <2>2. CASE "railway" \in synced /\ deployed = <<>>
    <3>1. resource = "active" /\ snaps = {}
      BY <1>2, <2>2 DEF RailMirrored, MirrorTypes
    <3>2. C!DeploymentRisks = IF Production THEN {"stale_deployment"} ELSE {}
      BY <3>1 DEF C!DeploymentRisks
    <3>3. QED
      BY <2>2, <3>2, Legs, Triggers DEF Due
  <2>3. CASE "railway" \in synced /\ deployed # <<>>
    <3>1. resource = "active" /\ latest = Len(deployed) /\ Deployed \in snaps
      BY <1>2, <2>3 DEF RailMirrored
    <3>2. Deployed.dep = Len(deployed) /\ Deployed.status = deployed[Len(deployed)]
      BY <2>3 DEF Deployed
    <3>3. \A status : C!LatestIs(status) <=> deployed[Len(deployed)] = status
      BY <3>1, <3>2 DEF C!LatestIs, MirrorTypes
    <3>4. C!DeploymentRisks = (IF C!LatestIs("failed") THEN {"failed_deployment"} ELSE {})
                              \cup (IF C!LatestIs("crashed") THEN {"crashed_deployment"} ELSE {})
      BY <3>1 DEF C!DeploymentRisks
    <3>5. C!DeploymentRisks
            = (IF deployed[Len(deployed)] = "failed" THEN {"failed_deployment"} ELSE {})
              \cup (IF deployed[Len(deployed)] = "crashed" THEN {"crashed_deployment"} ELSE {})
      BY <3>3, <3>4
    <3>6. QED
      BY <2>3, <3>5, Legs, Triggers DEF Due
  <2>4. QED
    BY <2>1, <2>2, <2>3
<1>3. QED
  BY <1>1, <1>2

LEMMA GetSnapshotKeeps ==
    ASSUME CommandInv, NEW p \in Passes, C!GetSnapshot(p)
    PROVE  CommandInv'
<1> DEFINE w == C!DeploymentRisks
<1> DEFINE g == [passFrame[p] EXCEPT !.want = w]
<1>1. /\ passPc[p] = "snapshot" /\ passPc' = [passPc EXCEPT ![p] = "list"]
      /\ UNCHANGED C!world /\ UNCHANGED C!git /\ UNCHANGED C!rail /\ UNCHANGED C!hook
      /\ open' = open /\ settled' = settled
  BY DEF C!GetSnapshot, C!Goto
<1>2. passFrame' = [passFrame EXCEPT ![p] = g]
  BY DEF C!GetSnapshot
<1>3. passFrame[p].leg = "deploy" /\ IsFrame(passFrame[p])
  BY <1>1, Known DEF PassOK
<1>4. w \subseteq C!Owned["deploy"] /\ (RailMirrored => w = Due("deploy"))
  BY Known, DeploymentRisksRight
<1> HIDE DEF w
<1>5. g = [leg |-> passFrame[p].leg, live |-> passFrame[p].live, got |-> passFrame[p].got,
           ok |-> passFrame[p].ok, want |-> w, seen |-> passFrame[p].seen,
           lone |-> passFrame[p].lone]
  BY <1>3, FrameFields
<1>6. IsFrame(g) /\ g.leg = "deploy" /\ g.want = w /\ g.lone = passFrame[p].lone
  BY <1>3, <1>4, <1>5 DEF IsFrame
<1> HIDE DEF g
<1>7. Place("list", g)
  BY <1>6 DEF Place, PassAt
<1>8. ASSUME passPc'[p] = "list", passFrame'[p] = g, settled' \/ g.lone
      PROVE  FactsOK(p)' /\ WriteOK(p)' /\ (g.lone => BehindOK(p)')
  <2>1. RailMirrored
    <3>1. CASE settled
      BY <3>1 DEF CommandInv, AllRight
    <3>2. CASE passFrame[p].lone
      BY <1>1, <3>2, Known DEF BehindOK
    <3>3. QED
      BY <1>1, <1>6, <1>8, <3>1, <3>2
  <2>2. g.want = Due("deploy")'
    BY <1>1, <1>4, <1>6, <2>1, SameWorld
  <2>3. FactsOK(p)' /\ WriteOK(p)'
    BY <1>6, <1>8, <2>2 DEF FactsOK, WriteOK
  <2>4. ASSUME g.lone PROVE BehindOK(p)'
    <3>1. Right("health") /\ Right("repo") /\ GitMirrored
      BY <1>3, <1>6, <2>4, Known DEF BehindOK
    <3>2. Right("health")' /\ Right("repo")' /\ GitMirrored' /\ RailMirrored'
      BY <1>1, <2>1, <3>1, SameMirrors
    <3>3. QED
      BY <1>6, <1>8, <3>2 DEF BehindOK
  <2>5. QED
    BY <2>3, <2>4
<1>9. settled' \in BOOLEAN
  BY <1>1, Known
<1>10. QED
  BY <1>1, <1>2, <1>6, <1>7, <1>8, <1>9, PassReads

LEMMA ListOpenKeeps ==
    ASSUME CommandInv, NEW p \in Passes, C!ListOpen(p)
    PROVE  CommandInv'
<1> DEFINE s == {row \in open : row[1] \in C!Owned[passFrame[p].leg]}
<1> DEFINE g == [passFrame[p] EXCEPT !.seen = s]
<1>1. /\ passPc[p] = "list" /\ passPc' = [passPc EXCEPT ![p] = "write"]
      /\ UNCHANGED C!world /\ UNCHANGED C!git /\ UNCHANGED C!rail /\ UNCHANGED C!hook
      /\ open' = open /\ settled' = settled
  BY DEF C!ListOpen, C!Goto
<1>2. passFrame' = [passFrame EXCEPT ![p] = g]
  BY DEF C!ListOpen
<1>3. IsFrame(passFrame[p])
  BY Known
<1>4. /\ s \subseteq open
      /\ \A c : c \in C!CategoriesOf(s) <=> c \in Opened /\ c \in C!Owned[passFrame[p].leg]
  BY DEF C!CategoriesOf, Opened
<1> HIDE DEF s
<1>5. g = [leg |-> passFrame[p].leg, live |-> passFrame[p].live, got |-> passFrame[p].got,
           ok |-> passFrame[p].ok, want |-> passFrame[p].want, seen |-> s,
           lone |-> passFrame[p].lone]
  BY <1>3, FrameFields
<1>6. IsFrame(g) /\ g.leg = passFrame[p].leg /\ g.want = passFrame[p].want
      /\ g.lone = passFrame[p].lone /\ g.seen = s /\ g.live = passFrame[p].live
  BY <1>3, <1>5 DEF IsFrame
<1> HIDE DEF g
<1>7. Place("write", g)
  BY <1>6, Known DEF Place, PassAt
<1>8. ASSUME passPc'[p] = "write", passFrame'[p] = g, settled' \/ g.lone
      PROVE  FactsOK(p)' /\ WriteOK(p)' /\ (g.lone => BehindOK(p)')
  <2>1. FactsOK(p)
    BY <1>1, <1>6, <1>8, Known
  <2>2. passFrame[p].want = Due(passFrame[p].leg)
    BY <1>1, <2>1 DEF FactsOK
  <2>3. FactsOK(p)'
    <3>1. passFrame[p].leg \in {"health", "repo"} => g.live = RunsNow'
      BY <1>1, <1>6, <2>1, SameWorld DEF FactsOK
    <3>2. QED
      BY <1>6, <1>8, <3>1 DEF FactsOK
  <2>4. WriteOK(p)'
    <3> DEFINE leg == passFrame[p].leg
    <3>0. passFrame'[p].leg = leg /\ passFrame'[p].want = Due(leg) /\ passFrame'[p].seen = s
      BY <1>6, <1>8, <2>2
    <3> HIDE DEF leg
    <3>1. /\ s \subseteq open /\ C!CategoriesOf(s) \subseteq C!Owned[leg]
          /\ Due(leg) \subseteq Due(leg)
          /\ \A c \in Due(leg) : c \in Due(leg) \cup Opened
          /\ \A c \in Opened \cap C!Owned[leg] : c \in C!CategoriesOf(s)
          /\ \A c \in C!CategoriesOf(s) : c \in Due(leg) \/ ~C!Trigger[c]
      BY <1>4 DEF Due, leg
    <3>2. \A d : /\ Due(d)' = Due(d) /\ (C!Owned')[d] = C!Owned[d]
                 /\ Opened' = Opened /\ C!Trigger' = C!Trigger /\ open' = open
      BY <1>1, SameWorld, SameMirrors DEF C!Owned
    <3>3. C!CategoriesOf(passFrame'[p].seen) = C!CategoriesOf(s)
      BY <3>0
    <3>4. /\ passFrame'[p].seen \subseteq open'
          /\ C!CategoriesOf(passFrame'[p].seen) \subseteq C!Owned[passFrame'[p].leg]
          /\ passFrame'[p].want \subseteq Due(passFrame'[p].leg)
          /\ \A c \in Due(passFrame'[p].leg) : c \in passFrame'[p].want \cup Opened
          /\ \A c \in Opened \cap C!Owned[passFrame'[p].leg] :
                c \in C!CategoriesOf(passFrame'[p].seen)
          /\ \A c \in C!CategoriesOf(passFrame'[p].seen) :
                c \in passFrame'[p].want \/ ~C!Trigger[c]
      BY <3>0, <3>1, <3>2, <3>3
    <3>5. QED
      BY <3>2, <3>4 DEF WriteOK, C!CategoriesOf, Due
  <2>5. ASSUME g.lone PROVE BehindOK(p)'
    <3>1. BehindOK(p)
      BY <1>6, <2>5, Known
    <3>2. QED
      BY <1>1, <1>6, <1>8, <3>1, SameMirrors, SameWorld DEF BehindOK
  <2>6. QED
    BY <2>3, <2>4, <2>5
<1>9. settled' \in BOOLEAN
  BY <1>1, Known
<1>10. QED
  BY <1>1, <1>2, <1>6, <1>7, <1>8, <1>9, PassReads

\* What the leg has written is right; the pass goes on to the next one.
LEMMA LegEnds ==
    ASSUME CommandInv, NEW p \in Passes, passPc[p] = "write",
           C!NextLeg(p, passFrame, settled), open' = open,
           UNCHANGED C!world, UNCHANGED C!git, UNCHANGED C!rail, UNCHANGED C!hook,
           settled \/ passFrame[p].lone => Right(passFrame[p].leg)
    PROVE  CommandInv'
<1> DEFINE lone == passFrame[p].lone
<1> DEFINE at == passFrame[p].live
<1>1. /\ IsFrame(passFrame[p]) /\ passPc[p] # "idle" /\ settled \in BOOLEAN /\ lone \in BOOLEAN
      /\ at \in Nat \cup {None}
      /\ passFrame[p].leg = "repo" => "github" \in synced
      /\ settled \/ lone => FactsOK(p)
      /\ lone => BehindOK(p)
      /\ MirrorTypes /\ OpenTypes
  BY Known
<1>2. /\ MirrorTypes' /\ OpenTypes' /\ (settled => AllRight')
      /\ GitMirrored' = GitMirrored /\ RailMirrored' = RailMirrored
      /\ \A leg : Right(leg)' = Right(leg)
      /\ AllRight' = AllRight
  BY <1>1, SameMirrors DEF CommandInv
<1>3. UNCHANGED <<railwaySent, hookPc, hookFrame>>
  BY DEF C!hook
<1>4. CASE /\ passFrame[p].leg = "health" /\ "github" \in synced /\ settled' = settled
           /\ passPc' = [passPc EXCEPT ![p] = "fetchHead"]
           /\ passFrame' = [passFrame EXCEPT ![p] = LegFrame("repo", at, lone)]
  <2> DEFINE g == LegFrame("repo", at, lone)
  <2>1. IsFrame(g) /\ g.leg = "repo" /\ g.live = at /\ g.lone = lone
    BY <1>1, LegFrames
  <2>2. passFrame' = [passFrame EXCEPT ![p] = g] /\ settled' \in BOOLEAN
        /\ passPc' = [passPc EXCEPT ![p] = "fetchHead"]
    BY <1>1, <1>4
  <2> HIDE DEF g
  <2>3. Place("fetchHead", g)
    BY <1>4, <2>1 DEF Place, PassAt
  <2>4. ASSUME passPc'[p] = "fetchHead", passFrame'[p] = g, settled' \/ g.lone
        PROVE  FactsOK(p)' /\ WriteOK(p)' /\ (g.lone => BehindOK(p)')
    <3>1. at = RunsNow'
      BY <1>1, <1>4, <2>1, <2>4, SameWorld DEF FactsOK
    <3>2. Right("health")'
      BY <1>2, <1>4, <2>1, <2>4
    <3>3. QED
      BY <2>1, <2>4, <3>1, <3>2 DEF FactsOK, WriteOK, BehindOK
  <2>5. QED
    BY <1>1, <1>2, <1>3, <1>4, <2>1, <2>2, <2>3, <2>4, PassSteps
<1>5. CASE /\ passFrame[p].leg = "repo" \/ (passFrame[p].leg = "health" /\ "github" \notin synced)
           /\ settled' = settled
           /\ passPc' = [passPc EXCEPT ![p] = IF "railway" \in synced THEN "fetchDeployment"
                                              ELSE "snapshot"]
           /\ passFrame' = [passFrame EXCEPT ![p] = LegFrame("deploy", None, lone)]
  <2> DEFINE g == LegFrame("deploy", None, lone)
  <2> DEFINE l == IF "railway" \in synced THEN "fetchDeployment" ELSE "snapshot"
  <2>1. IsFrame(g) /\ g.leg = "deploy" /\ g.lone = lone
    BY <1>1, LegFrames
  <2>2. passFrame' = [passFrame EXCEPT ![p] = g] /\ settled' \in BOOLEAN
        /\ passPc' = [passPc EXCEPT ![p] = l]
    BY <1>1, <1>5
  <2>3. l \in {"fetchDeployment", "snapshot"} /\ (l = "fetchDeployment" <=> "railway" \in synced)
    OBVIOUS
  <2> HIDE DEF g, l
  <2>4. Place(l, g)
    BY <2>1, <2>3 DEF Place, PassAt
  <2>5. ASSUME passPc'[p] = l, passFrame'[p] = g, settled' \/ g.lone
        PROVE  FactsOK(p)' /\ WriteOK(p)' /\ (g.lone => BehindOK(p)')
    <3>1. FactsOK(p)' /\ WriteOK(p)'
      BY <2>1, <2>3, <2>5 DEF FactsOK, WriteOK
    <3>2. ASSUME g.lone PROVE BehindOK(p)'
      <4>1. GitMirrored /\ Right("health") /\ Right("repo")
        <5>1. CASE passFrame[p].leg = "repo"
          BY <1>1, <2>1, <3>2, <5>1 DEF BehindOK
        <5>2. CASE passFrame[p].leg = "health" /\ "github" \notin synced
          <6>1. GitMirrored /\ Right("health")
            BY <2>1, <3>2, <5>2 DEF GitMirrored
          <6>2. \A c \in C!Owned["repo"] : c \notin Opened /\ ~C!Trigger[c]
            <7>1. \A c \in C!Owned["repo"] : c \notin Opened
              BY <1>1, <5>2, Legs DEF OpenTypes, Opened, C!CategoriesOf
            <7>2. QED
              BY <5>2, <7>1, Legs, Triggers
          <6>3. QED
            BY <6>1, <6>2 DEF Right
        <5>3. QED
          BY <1>5, <5>1, <5>2
      <4>2. GitMirrored' /\ Right("health")' /\ Right("repo")'
        BY <1>2, <4>1
      <4>3. l = "snapshot" => RailMirrored'
        BY <1>2, <2>3 DEF RailMirrored
      <4>4. QED
        BY <2>1, <2>3, <2>5, <4>2, <4>3 DEF BehindOK
    <3>3. QED
      BY <3>1, <3>2
  <2>6. QED
    BY <1>1, <1>2, <1>3, <1>5, <2>1, <2>2, <2>4, <2>5, PassSteps
<1>6. CASE /\ passFrame[p].leg = "deploy" /\ settled' = (settled \/ lone)
           /\ passPc' = [passPc EXCEPT ![p] = "idle"]
           /\ passFrame' = [passFrame EXCEPT ![p] = C!NoFrame]
  <2>1. settled' \in BOOLEAN /\ (settled' => settled \/ lone)
    BY <1>1, <1>6
  <2>2. settled' => AllRight'
    <3>1. lone => AllRight
      BY <1>1, <1>6 DEF BehindOK, AllRight
    <3>2. QED
      BY <1>2, <2>1, <3>1
  <2>3. ASSUME passPc'[p] = "idle", passFrame'[p] = C!NoFrame
        PROVE  PassOK(p)' /\ FactsOK(p)' /\ WriteOK(p)'
    <3>1. passFrame'[p] = C!NoFrame'
      BY <2>3 DEF C!NoFrame
    <3>2. IsFrame(C!NoFrame)' = IsFrame(C!NoFrame)
      BY DEF IsFrame, C!NoFrame, C!Owned
    <3>3. PassOK(p)'
      BY <2>3, <3>1, <3>2, NoPassFrame DEF PassOK, IsFrame, C!Owned, C!NoFrame
    <3>4. QED
      BY <2>3, <3>3, NoPassFrame DEF FactsOK, WriteOK
  <2>4. "idle" \in PassAt
    BY DEF PassAt
  <2>5. QED
    BY <1>1, <1>2, <1>3, <1>6, <2>1, <2>2, <2>3, <2>4, NoPassFrame, PassMoves
<1>7. QED
  BY <1>1, <1>4, <1>5, <1>6, NextLegs

LEMMA EndLegKeeps ==
    ASSUME CommandInv, NEW p \in Passes, C!EndLeg(p)
    PROVE  CommandInv'
<1>1. /\ passPc[p] = "write" /\ C!Missing(p) = {} /\ C!Unwanted(p) = {}
      /\ C!NextLeg(p, passFrame, settled) /\ open' = open
      /\ UNCHANGED C!world /\ UNCHANGED C!git /\ UNCHANGED C!rail /\ UNCHANGED C!hook
  BY DEF C!EndLeg
<1>2. ASSUME settled \/ passFrame[p].lone PROVE Right(passFrame[p].leg)
  <2>1. WriteOK(p)
    BY <1>2, Known
  <2>2. \A c \in passFrame[p].want : c \in C!CategoriesOf(passFrame[p].seen)
    BY <1>1 DEF C!Missing
  <2>3. \A c \in C!CategoriesOf(passFrame[p].seen) : c \in passFrame[p].want
    BY <1>1 DEF C!Unwanted, C!CategoriesOf
  <2>4. C!CategoriesOf(passFrame[p].seen) \subseteq Opened
    BY <1>1, <2>1 DEF WriteOK, Opened, C!CategoriesOf
  <2>5. passFrame[p].want \subseteq Due(passFrame[p].leg)
    BY <1>1, <2>1 DEF WriteOK
  <2>6. \A c \in Due(passFrame[p].leg) : c \in Opened
    BY <1>1, <2>1, <2>2, <2>4 DEF WriteOK
  <2>7. \A c \in Opened \cap C!Owned[passFrame[p].leg] : C!Trigger[c]
    BY <1>1, <2>1, <2>3, <2>5 DEF WriteOK, Due
  <2>8. QED
    BY <2>6, <2>7 DEF Right, Due
<1>3. QED
  BY <1>1, <1>2, LegEnds

\* WriteOK of the next state, said of that state's parts.
LEMMA WriteNext ==
    ASSUME NEW p \in Passes, UNCHANGED C!world, NEW leg, NEW want, NEW seen, NEW op,
           passFrame'[p].leg = leg, passFrame'[p].want = want, passFrame'[p].seen = seen,
           open' = op,
           seen \subseteq op, C!CategoriesOf(seen) \subseteq C!Owned[leg], want \subseteq Due(leg),
           \A c \in Due(leg) : c \in want \cup C!CategoriesOf(op),
           \A c \in C!CategoriesOf(op) \cap C!Owned[leg] :
              c \in C!CategoriesOf(seen) \/ (C!Trigger[c] /\ c \notin want),
           \A c \in C!CategoriesOf(seen) : c \in want \/ ~C!Trigger[c]
    PROVE  WriteOK(p)'
<1>1. \A d : Due(d)' = Due(d) /\ (C!Owned')[d] = C!Owned[d] /\ C!Trigger' = C!Trigger
  BY SameWorld DEF C!Owned
<1>2. Opened' = C!CategoriesOf(op)
  BY DEF Opened, C!CategoriesOf
<1>3. /\ passFrame'[p].seen \subseteq open'
      /\ C!CategoriesOf(passFrame'[p].seen) \subseteq C!Owned[passFrame'[p].leg]
      /\ passFrame'[p].want \subseteq Due(passFrame'[p].leg)
      /\ \A c \in Due(passFrame'[p].leg) : c \in passFrame'[p].want \cup Opened'
      /\ \A c \in Opened' \cap C!Owned[passFrame'[p].leg] :
            c \in C!CategoriesOf(passFrame'[p].seen)
               \/ (C!Trigger[c] /\ c \notin passFrame'[p].want)
      /\ \A c \in C!CategoriesOf(passFrame'[p].seen) : c \in passFrame'[p].want \/ ~C!Trigger[c]
  BY <1>2
<1>4. QED
  BY <1>1, <1>3 DEF WriteOK, C!CategoriesOf, Due

LEMMA OwnedApart ==
    ASSUME NEW a \in {"health", "repo", "deploy"}, NEW b \in {"health", "repo", "deploy"}, a # b
    PROVE  C!Owned[a] \cap C!Owned[b] = {}
  BY Legs

LEMMA OpenFlagKeeps ==
    ASSUME CommandInv, NEW p \in Passes, NEW c \in C!Categories, C!OpenFlag(p, c)
    PROVE  CommandInv'
<1>1. /\ passPc[p] = "write" /\ c \in passFrame[p].want
      /\ c \notin C!CategoriesOf(passFrame[p].seen)
      /\ UNCHANGED C!world /\ UNCHANGED C!git /\ UNCHANGED C!rail /\ UNCHANGED C!hook
  BY DEF C!OpenFlag, C!Missing
<1>2. settled \/ passFrame[p].lone => WriteOK(p)
  BY Known
<1>3. WriteOK(p) => /\ C!Trigger[c] /\ c \notin Opened
                    /\ c \in Due(passFrame[p].leg)
  BY <1>1 DEF WriteOK, Due
<1>4. CASE c \in C!CategoriesOf(open)
  <2>1. C!NextLeg(p, passFrame, settled) /\ open' = open
    BY <1>4 DEF C!OpenFlag
  <2>2. ~settled /\ ~passFrame[p].lone
    BY <1>2, <1>3, <1>4 DEF Opened
  <2>3. QED
    BY <1>1, <2>1, <2>2, LegEnds
<1>5. CASE c \notin C!CategoriesOf(open)
  <2> DEFINE w == passFrame[p].want \ {c}
  <2> DEFINE g == [passFrame[p] EXCEPT !.want = w]
  <2>1. open' = open \cup {C!NewRow(c)} /\ passPc' = passPc /\ settled' = settled
    BY <1>5 DEF C!OpenFlag
  <2>2. passFrame' = [passFrame EXCEPT ![p] = g]
    BY <1>5 DEF C!OpenFlag
  <2>3. C!NewRow(c)[1] = c
    BY DEF C!NewRow
  <2> DEFINE new == C!NewRow(c)
  <2> HIDE DEF new
  <2>4. new[1] = c /\ open' = open \cup {new}
    BY <2>1, <2>3 DEF new
  <2>5. IsFrame(passFrame[p]) /\ w \subseteq C!Owned[passFrame[p].leg]
        /\ c \in C!Owned[passFrame[p].leg] /\ passFrame[p].leg \in {"health", "repo", "deploy"}
    BY <1>1, Known
  <2>6. ~settled
    BY <1>2, <1>3, <1>5, <2>5 DEF CommandInv, AllRight, Right, Opened
  <2>7. g = [leg |-> passFrame[p].leg, live |-> passFrame[p].live, got |-> passFrame[p].got,
             ok |-> passFrame[p].ok, want |-> w, seen |-> passFrame[p].seen,
             lone |-> passFrame[p].lone]
    <3> HIDE DEF w
    <3>1. QED
      BY <2>5, FrameFields
  <2>8. IsFrame(g) /\ g.leg = passFrame[p].leg /\ g.live = passFrame[p].live /\ g.want = w
        /\ g.seen = passFrame[p].seen /\ g.lone = passFrame[p].lone
    BY <2>5, <2>7 DEF IsFrame
  <2> HIDE DEF g
  <2>9. Place("write", g)
    BY <2>8, Known DEF Place, PassAt
  <2>10. passPc' = [passPc EXCEPT ![p] = "write"]
    <3>1. passPc \in [Passes -> PassAt]
      BY DEF CommandInv, CommandTypes, PassTypes
    <3>2. QED
      BY <1>1, <2>1, <3>1
  <2>11. MirrorTypes'
    BY <1>1, Known, SameWorld DEF MirrorTypes, C!git, C!rail
  <2>12. OpenTypes'
    <3>1. \A row \in open : row[1] # c
      BY <1>5 DEF C!CategoriesOf
    <3>2. "github" \notin synced => c \notin C!Owned["repo"]
      <4>1. "github" \notin synced => passFrame[p].leg # "repo"
        BY Known
      <4>2. QED
        BY <2>5, <4>1, OwnedApart
    <3>3. /\ \A row \in open' : row[1] \in C!Categories
          /\ \A a, b \in open' : a[1] = b[1] => a = b
          /\ "github" \notin synced => \A row \in open' : row[1] \notin C!Owned["repo"]
      BY <2>4, <3>1, <3>2, Known, Legs DEF OpenTypes
    <3>4. QED
      BY <1>1, <3>3, SameWorld, Legs DEF OpenTypes, C!Categories, C!Owned
  <2>13. \A d : d \in Opened' <=> d \in Opened \/ d = c
    BY <2>4 DEF Opened, C!CategoriesOf
  <2>14. ASSUME NEW leg \in {"health", "repo", "deploy"}, leg # passFrame[p].leg, Right(leg)
         PROVE  Right(leg)'
    <3>1. c \notin C!Owned[leg]
      BY <2>5, <2>14, OwnedApart
    <3>2. \A d \in C!Owned[leg] : d \in Opened' <=> C!Trigger[d]
      BY <2>13, <2>14, <3>1 DEF Right
    <3>3. QED
      BY <1>1, <3>2, SameWorld DEF Right, C!Owned
  <2>15. ASSUME passPc'[p] = "write", passFrame'[p] = g, g.lone
         PROVE  FactsOK(p)' /\ WriteOK(p)' /\ BehindOK(p)'
    <3>1. WriteOK(p) /\ FactsOK(p) /\ BehindOK(p)
      BY <2>8, <2>15, Known
    <3>2. FactsOK(p)'
      <4>1. passFrame[p].leg \in {"health", "repo"} => g.live = RunsNow'
        BY <1>1, <2>8, <3>1, SameWorld DEF FactsOK
      <4>2. QED
        BY <2>8, <2>15, <4>1 DEF FactsOK
    <3>3. WriteOK(p)'
      <4> DEFINE leg == passFrame[p].leg
      <4> DEFINE seen == passFrame[p].seen
      <4> DEFINE op == open \cup {new}
      <4>1. \A d : d \in C!CategoriesOf(op) <=> d \in Opened \/ d = c
        BY <2>4 DEF Opened, C!CategoriesOf
      <4>2. /\ seen \subseteq open /\ C!CategoriesOf(seen) \subseteq C!Owned[leg]
            /\ passFrame[p].want \subseteq Due(leg)
            /\ \A d \in Due(leg) : d \in passFrame[p].want \cup Opened
            /\ \A d \in Opened \cap C!Owned[leg] :
                  d \in C!CategoriesOf(seen) \/ (C!Trigger[d] /\ d \notin passFrame[p].want)
            /\ \A d \in C!CategoriesOf(seen) : d \in passFrame[p].want \/ ~C!Trigger[d]
        BY <1>1, <3>1 DEF WriteOK
      <4>3. C!Trigger[c]
        BY <1>3, <3>1
      <4> HIDE DEF leg, seen
      <4>4. /\ seen \subseteq op /\ w \subseteq Due(leg)
            /\ \A d \in Due(leg) : d \in w \cup C!CategoriesOf(op)
            /\ \A d \in C!CategoriesOf(op) \cap C!Owned[leg] :
                  d \in C!CategoriesOf(seen) \/ (C!Trigger[d] /\ d \notin w)
            /\ \A d \in C!CategoriesOf(seen) : d \in w \/ ~C!Trigger[d]
        BY <1>1, <4>1, <4>2, <4>3 DEF seen
      <4>5. passFrame'[p].leg = leg /\ passFrame'[p].want = w /\ passFrame'[p].seen = seen
            /\ open' = op
        BY <2>4, <2>8, <2>15 DEF leg, seen
      <4> HIDE DEF op, w
      <4>6. QED
        BY <1>1, <4>2, <4>4, <4>5, WriteNext
    <3>4. BehindOK(p)'
      <4>1. /\ passFrame[p].leg \in {"repo", "deploy"} => GitMirrored /\ Right("health")
            /\ passFrame[p].leg = "deploy" => RailMirrored /\ Right("repo")
        BY <1>1, <3>1 DEF BehindOK
      <4>2. GitMirrored' = GitMirrored /\ RailMirrored' = RailMirrored
        BY <1>1, SameWorld DEF GitMirrored, RailMirrored, C!git, C!rail
      <4>3. /\ passFrame[p].leg \in {"repo", "deploy"} => GitMirrored' /\ Right("health")'
            /\ passFrame[p].leg = "deploy" => RailMirrored' /\ Right("repo")'
        BY <2>14, <4>1, <4>2
      <4>4. QED
        BY <2>5, <2>8, <2>15, <4>3 DEF BehindOK
    <3>5. QED
      BY <3>2, <3>3, <3>4
  <2>16. UNCHANGED <<railwaySent, hookPc, hookFrame>> /\ ~settled' /\ settled' \in BOOLEAN
    BY <1>1, <2>1, <2>6, Known DEF C!hook
  <2>17. QED
    BY <1>1, <2>2, <2>8, <2>9, <2>10, <2>11, <2>12, <2>15, <2>16, PassSteps
<1>6. QED
  BY <1>4, <1>5

LEMMA ResolveFlagKeeps ==
    ASSUME CommandInv, NEW p \in Passes, NEW row, C!ResolveFlag(p, row)
    PROVE  CommandInv'
<1> DEFINE s == passFrame[p].seen \ {row}
<1> DEFINE g == [passFrame[p] EXCEPT !.seen = s]
<1>1. /\ passPc[p] = "write" /\ row \in passFrame[p].seen /\ row[1] \notin passFrame[p].want
      /\ UNCHANGED C!world /\ UNCHANGED C!git /\ UNCHANGED C!rail /\ UNCHANGED C!hook
      /\ open' = open \ {row} /\ passPc' = passPc /\ settled' = settled
  BY DEF C!ResolveFlag, C!Unwanted
<1>2. passFrame' = [passFrame EXCEPT ![p] = g]
  BY DEF C!ResolveFlag
<1>3. settled \/ passFrame[p].lone => WriteOK(p)
  BY Known
<1>4. WriteOK(p) => /\ row \in open /\ row[1] \in C!CategoriesOf(passFrame[p].seen)
                    /\ row[1] \in Opened /\ row[1] \in C!Owned[passFrame[p].leg]
                    /\ ~C!Trigger[row[1]]
  BY <1>1 DEF WriteOK, Opened, C!CategoriesOf
<1>5. IsFrame(passFrame[p]) /\ passFrame[p].leg \in {"health", "repo", "deploy"}
      /\ passFrame[p].want \subseteq C!Owned[passFrame[p].leg]
  BY Known
<1>6. ~settled
  BY <1>3, <1>4, <1>5 DEF CommandInv, AllRight, Right
<1>7. g = [leg |-> passFrame[p].leg, live |-> passFrame[p].live, got |-> passFrame[p].got,
           ok |-> passFrame[p].ok, want |-> passFrame[p].want, seen |-> s,
           lone |-> passFrame[p].lone]
  <2> HIDE DEF s
  <2>1. QED
    BY <1>5, FrameFields
<1>8. IsFrame(g) /\ g.leg = passFrame[p].leg /\ g.live = passFrame[p].live
      /\ g.want = passFrame[p].want /\ g.seen = s /\ g.lone = passFrame[p].lone
  BY <1>5, <1>7 DEF IsFrame
<1> HIDE DEF g
<1>9. Place("write", g)
  BY <1>8, Known DEF Place, PassAt
<1>10. passPc' = [passPc EXCEPT ![p] = "write"]
  <2>1. passPc \in [Passes -> PassAt]
    BY DEF CommandInv, CommandTypes, PassTypes
  <2>2. QED
    BY <1>1, <2>1
<1>11. MirrorTypes' /\ OpenTypes'
  BY <1>1, Known, SameWorld DEF MirrorTypes, OpenTypes, C!git, C!rail, C!Categories, C!Owned
<1>12. ASSUME passPc'[p] = "write", passFrame'[p] = g, g.lone
       PROVE  FactsOK(p)' /\ WriteOK(p)' /\ BehindOK(p)'
  <2>1. WriteOK(p) /\ FactsOK(p) /\ BehindOK(p)
    BY <1>8, <1>12, Known
  <2>2. \A other \in open : other[1] = row[1] => other = row
    BY <1>4, <2>1, Known DEF OpenTypes
  <2>3. \A d : d \in Opened' <=> d \in Opened /\ d # row[1]
    BY <1>1, <2>2 DEF Opened, C!CategoriesOf
  <2>4. FactsOK(p)'
    <3>1. passFrame[p].leg \in {"health", "repo"} => g.live = RunsNow'
      BY <1>1, <1>8, <2>1, SameWorld DEF FactsOK
    <3>2. QED
      BY <1>8, <1>12, <3>1 DEF FactsOK
  <2>5. WriteOK(p)'
    <3> DEFINE leg == passFrame[p].leg
    <3> DEFINE seen == passFrame[p].seen
    <3> DEFINE want == passFrame[p].want
    <3> DEFINE op == open \ {row}
    <3>1. /\ seen \subseteq open /\ C!CategoriesOf(seen) \subseteq C!Owned[leg]
          /\ want \subseteq Due(leg)
          /\ \A d \in Due(leg) : d \in want \cup Opened
          /\ \A d \in Opened \cap C!Owned[leg] :
                d \in C!CategoriesOf(seen) \/ (C!Trigger[d] /\ d \notin want)
          /\ \A d \in C!CategoriesOf(seen) : d \in want \/ ~C!Trigger[d]
      BY <1>1, <2>1 DEF WriteOK
    <3>2. \A d : d \in C!CategoriesOf(op) <=> d \in Opened /\ d # row[1]
      BY <2>2 DEF Opened, C!CategoriesOf
    <3>3. \A d : d \in C!CategoriesOf(s) <=> d \in C!CategoriesOf(seen) /\ d # row[1]
      <4>1. \A other \in seen : other[1] = row[1] => other = row
        BY <2>2, <3>1
      <4>2. QED
        BY <4>1 DEF C!CategoriesOf
    <3>4. row[1] \notin Due(leg) /\ s \subseteq op
      BY <1>4, <2>1, <3>1 DEF Due
    <3> HIDE DEF seen, s, op
    <3>5. /\ s \subseteq op /\ C!CategoriesOf(s) \subseteq C!Owned[leg]
          /\ want \subseteq Due(leg)
          /\ \A d \in Due(leg) : d \in want \cup C!CategoriesOf(op)
          /\ \A d \in C!CategoriesOf(op) \cap C!Owned[leg] :
                d \in C!CategoriesOf(s) \/ (C!Trigger[d] /\ d \notin want)
          /\ \A d \in C!CategoriesOf(s) : d \in want \/ ~C!Trigger[d]
      BY <3>1, <3>2, <3>3, <3>4
    <3>6. passFrame'[p].leg = leg /\ passFrame'[p].want = want /\ passFrame'[p].seen = s
          /\ open' = op
      BY <1>1, <1>8, <1>12 DEF op
    <3> HIDE DEF leg, want
    <3>7. QED
      BY <1>1, <3>5, <3>6, WriteNext
  <2>6. BehindOK(p)'
    <3>1. /\ passFrame[p].leg \in {"repo", "deploy"} => GitMirrored /\ Right("health")
          /\ passFrame[p].leg = "deploy" => RailMirrored /\ Right("repo")
      BY <1>1, <2>1 DEF BehindOK
    <3>2. GitMirrored' = GitMirrored /\ RailMirrored' = RailMirrored
      BY <1>1, SameWorld DEF GitMirrored, RailMirrored, C!git, C!rail
    <3>3. ASSUME NEW leg \in {"health", "repo", "deploy"}, leg # passFrame[p].leg, Right(leg)
          PROVE  Right(leg)'
      <4>1. row[1] \notin C!Owned[leg]
        BY <1>4, <1>5, <2>1, <3>3, OwnedApart
      <4>2. \A d \in C!Owned[leg] : d \in Opened' <=> C!Trigger[d]
        BY <2>3, <3>3, <4>1 DEF Right
      <4>3. QED
        BY <1>1, <4>2, SameWorld DEF Right, C!Owned
    <3>4. /\ passFrame[p].leg \in {"repo", "deploy"} => GitMirrored' /\ Right("health")'
          /\ passFrame[p].leg = "deploy" => RailMirrored' /\ Right("repo")'
      BY <3>1, <3>2, <3>3
    <3>5. QED
      BY <1>5, <1>8, <1>12, <3>4 DEF BehindOK
  <2>7. QED
    BY <2>4, <2>5, <2>6
<1>13. UNCHANGED <<railwaySent, hookPc, hookFrame>> /\ ~settled' /\ settled' \in BOOLEAN
  BY <1>1, <1>6, Known DEF C!hook
<1>14. QED
  BY <1>1, <1>2, <1>8, <1>9, <1>10, <1>11, <1>12, <1>13, PassSteps

LEMMA CommandKeeps == CommandInv /\ C!Next => CommandInv'
<1> SUFFICES ASSUME CommandInv, C!Next PROVE CommandInv'
  OBVIOUS
<1>1. ASSUME NEW p \in Passes, C!Step(p) PROVE CommandInv'
  <2>1. CASE \E ok \in BOOLEAN : \/ C!Probe(p, ok) \/ C!ProbePage(p, ok)
                                 \/ C!ListCommits(p, ok) \/ C!Compare(p, ok)
    BY <2>1, ProbeKeeps, ProbePageKeeps, ListCommitsKeeps, CompareKeeps
  <2>2. CASE \E ok, ok2 \in BOOLEAN : C!FetchHead(p, ok, ok2) \/ C!FetchDeployment(p, ok, ok2)
    BY <2>2, FetchHeadKeeps, FetchDeploymentKeeps
  <2>3. CASE \/ C!StoreHead(p) \/ C!StoreResource(p) \/ C!StoreSnapshot(p) \/ C!GetSnapshot(p)
             \/ C!ListOpen(p) \/ C!EndLeg(p)
    BY <2>3, StoreHeadKeeps, StoreResourceKeeps, StoreSnapshotKeeps, GetSnapshotKeeps,
       ListOpenKeeps, EndLegKeeps
  <2>4. CASE \E c \in C!Categories : C!OpenFlag(p, c)
    BY <2>4, OpenFlagKeeps
  <2>5. CASE \E row \in open \cup passFrame[p].seen : C!ResolveFlag(p, row)
    BY <2>5, ResolveFlagKeeps
  <2>6. QED
    BY <1>1, <2>1, <2>2, <2>3, <2>4, <2>5 DEF C!Step
<1>2. ASSUME NEW p \in Passes, C!Start(p) \/ C!Step(p) \/ C!Throw(p) \/ C!Die(p)
      PROVE  CommandInv'
  BY <1>1, <1>2, StartKeeps, ThrowKeeps, DieKeeps
<1>3. QED
  BY <1>2, WorldKeeps, HookKeeps, VerdictKeeps DEF C!Next

LEMMA FlagsTell == CommandInv => C!SettledFlagsTellTheTruth
<1> SUFFICES ASSUME CommandInv, settled
             PROVE  C!CategoriesOf(open) = {c \in DOMAIN C!Trigger : C!Trigger[c]}
  BY DEF C!SettledFlagsTellTheTruth, C!FlagsTellTheTruth
<1>1. \A c \in C!Categories : c \in Opened <=> C!Trigger[c]
  BY Legs DEF CommandInv, AllRight, Right
<1>2. Opened \subseteq C!Categories
  BY DEF CommandInv, CommandTypes, OpenTypes, Opened, C!CategoriesOf
<1>3. QED
  BY <1>1, <1>2, Legs DEF Opened

(***************************************************************************)
(* A reconciliation that nothing disturbed leaves exactly the flags open   *)
(* that the code's rules ask for, whatever overlapping, failed or dead     *)
(* passes and late webhooks have left behind, and until something changes  *)
(* no further pass touches them (risk-service.ts, reconcile.ts).           *)
(***************************************************************************)
THEOREM SettledFlagsAreTrue == FairSpec => []SettledFlagsTellTheTruth
<1>1. Init => CommandInv
  BY InitCommand DEF Init
<1>2. CommandInv /\ [Next]_vars => CommandInv'
  <2> SUFFICES ASSUME CommandInv, [Next]_vars PROVE CommandInv'
    OBVIOUS
  <2>1. C!Next \/ UNCHANGED commandVars
    BY DEF Next, Webhooks, CommandCenter, vars
  <2>2. CASE UNCHANGED commandVars
    <3>1. UNCHANGED C!world /\ UNCHANGED C!git /\ UNCHANGED C!rail /\ open' = open
          /\ UNCHANGED <<passPc, passFrame, railwaySent, hookPc, hookFrame, settled>>
      BY <2>2 DEF commandVars, C!world, C!git, C!rail
    <3>2. CommandTypes'
      <4>1. WorldTypes' /\ HookTypes' /\ PassTypes'
        BY <3>1, SameWorld DEF CommandInv, CommandTypes, WorldTypes, HookTypes, PassTypes
      <4>2. QED
        BY <3>1, <4>1, SameMirrors DEF CommandInv, CommandTypes
    <3>3. \A p \in Passes : PassOK(p)' = PassOK(p)
      BY <3>1, SameWorld DEF PassOK, IsFrame, C!Owned, C!NoFrame
    <3>4. ASSUME NEW p \in Passes
          PROVE  (FactsOK(p) => FactsOK(p)') /\ (BehindOK(p) => BehindOK(p)')
      <4>1. FactsOK(p) => FactsOK(p)'
        BY <3>1, SameWorld DEF FactsOK
      <4>2. BehindOK(p) => BehindOK(p)'
        <5>1. /\ GitMirrored' = GitMirrored /\ RailMirrored' = RailMirrored
              /\ Right("health")' = Right("health") /\ Right("repo")' = Right("repo")
          BY <3>1, SameMirrors
        <5>2. mirrorHead' = mirrorHead /\ head' = head /\ resource' = resource
          BY <3>1, SameWorld DEF C!git, C!rail
        <5>3. QED
          BY <3>1, <5>1, <5>2 DEF BehindOK
      <4>3. QED
        BY <4>1, <4>2
    <3>5. \A p \in Passes : WriteOK(p)' = WriteOK(p)
      BY <3>1, SameWorld, SameMirrors DEF WriteOK, C!CategoriesOf, C!Owned
    <3>6. AllRight' = AllRight
      BY <3>1, SameMirrors
    <3>7. QED
      BY <3>1, <3>2, <3>3, <3>4, <3>5, <3>6 DEF CommandInv
  <2>3. QED
    BY <2>1, <2>2, CommandKeeps
<1>3. CommandInv => SettledFlagsTellTheTruth
  BY FlagsTell DEF SettledFlagsTellTheTruth
<1>4. QED
  BY <1>1, <1>2, <1>3, PTL DEF FairSpec
=============================================================================
