----------------------------- MODULE OrderFlow -----------------------------
(***************************************************************************)
(* From an invoiced order to a provisioned organization:                   *)
(* qbo-event-processor.ts, payment-service.ts, provisioning-service.ts.    *)
(*                                                                         *)
(* Three kinds of calls settle an order: the handler the QuickBooks webhook *)
(* starts for the event it stored, the cron sweep over unfinished events,  *)
(* and an operator who records or charges a payment.  All of them record a *)
(* Payment, mark the order paid on the strength of the status they read at *)
(* first, and run provisionOrder.  No transaction spans two statements, so *)
(* a call is a process with a program counter and the calls interleave.    *)
(*                                                                         *)
(* Out of the model: amounts, periods, audit entries and the outbound      *)
(* webhook; what provisioning does in Clerk (the organization, its         *)
(* metadata, the invitation), which goes through tryClerk and touches no   *)
(* row; deliveries with a bad signature, stored as rows that no query of   *)
(* the processor selects; getOrderPaymentContext, which only reads.        *)
(***************************************************************************)
EXTENDS Naturals, Sequences, FiniteSets

CONSTANTS
    Orders,      \* the orders checkout left in payment_pending, with an invoice
    Recurring,   \* those of a package with a billing cycle
    Buyer,       \* what the checkout form said, per order
    FreeDomains, \* mail domains anybody can have an address in
    Payments,    \* ids QuickBooks gives to accounting payments
    MaxEvents,   \* bound: deliveries stored
    MaxEntities, \* bound: entity changes in one delivery
    SweepLimit,  \* events one sweep takes (50 in the code)
    MaxCharges,  \* bound: successful card charges
    MaxForeign,  \* bound: org rows other writers add
    Calls,       \* slots for concurrently running calls
    Operators,   \* the slots that may run an operator's call
    None

Events == 1..MaxEvents

ASSUME OrdersAssumption == Recurring \subseteq Orders /\ Operators \subseteq Calls
ASSUME BoundsAssumption ==
    /\ MaxEvents \in Nat /\ MaxEntities \in Nat /\ MaxCharges \in Nat
    /\ MaxForeign \in Nat /\ SweepLimit \in Nat \ {0}
ASSUME BuyerAssumption ==
    \A o \in Orders : /\ {"typedDomain", "emailDomain", "cage", "company"}
                            = DOMAIN Buyer[o]
                      /\ Buyer[o].emailDomain # None
ASSUME NoneAssumption == None \notin Orders \cup Payments

OrderStatus == {"payment_pending", "paid", "provisioned"}
EventStatus == {"received", "processing", "processed", "failed", "skipped"}

VARIABLES
    \* rows
    status,        \* [Orders -> OrderStatus]
    orgOf,         \* customerOrganizationId of each order, 0 for null
    orgs,          \* CustomerOrganization rows in order of creation
    entitled,      \* <<g, o>>: org g has the apps of order o's package
    subscription,  \* org of the Subscription row of each order, 0 for no row
    recorded,      \* QuickBooks payments with a succeeded Payment row
    unbooked,      \* orders with a succeeded Payment row without a QuickBooks id
    evStatus,      \* status of each stored event, "absent" before delivery
    payload,       \* the payment each of its entities names, None for others
    \* QuickBooks and its gateway
    paidTo,        \* the order whose invoice a payment applies to, or None
    charged,       \* how often the buyer's card was charged, per order
    \* calls
    fresh,         \* events whose inline handler has not started yet
    pc, frame,
    \* history
    provisionings, \* how often each order was marked provisioned
    overlapped,    \* orders two calls worked on at the same time
    raced,         \* domains two calls found no organization for together
    lost           \* events whose handler died

orderRows == <<status, orgOf>>
orgRows   == <<orgs, entitled, subscription>>
money     == <<recorded, unbooked, paidTo, charged>>
eventRows == <<evStatus, payload, fresh>>
history   == <<provisionings, overlapped, raced, lost>>
vars == <<orderRows, orgRows, money, eventRows, pc, frame, history>>

-----------------------------------------------------------------------------
(***************************************************************************)
(* Calls.  An event handler has a queue of events it read, a sweep's list  *)
(* or the one event of an inline call, and a position in the head's        *)
(* payload; an operator's call has an empty queue.                         *)
(***************************************************************************)
NoFrame == [queue |-> <<>>, at |-> 0, order |-> None, seen |-> "none",
            card |-> FALSE, payment |-> None, org |-> 0, slug |-> 0]

Goto(c, label) == pc' = [pc EXCEPT ![c] = label]

Return(c) == Goto(c, "idle") /\ frame' = [frame EXCEPT ![c] = NoFrame]

Provisioning == {"provision", "resolve", "slug", "create_org", "entitle",
                 "subscribe", "finish"}
Settling == {"charge", "book", "record", "settle"} \cup Provisioning

WorkingOn(o) == {c \in Calls : pc[c] \in Settling /\ frame[c].order = o}

\* Call c takes up order o, as it stands.
TakeUp(c, o, f, label) ==
    /\ frame' = [frame EXCEPT ![c] = [f EXCEPT !.order = o, !.seen = status[o]]]
    /\ Goto(c, label)
    /\ overlapped' = IF WorkingOn(o) = {} THEN overlapped
                                          ELSE overlapped \cup {o}

-----------------------------------------------------------------------------
(***************************************************************************)
(* The webhook receiver, the sweep, and runHandler.                        *)
(***************************************************************************)
\* The buyer pays the open invoice by the link QuickBooks sent.
BuyerPays(o, p) ==
    /\ paidTo[p] = None
    /\ \A q \in Payments : paidTo[q] # o
    /\ paidTo' = [paidTo EXCEPT ![p] = o]
    /\ UNCHANGED <<orderRows, orgRows, recorded, unbooked, charged, eventRows,
                   pc, frame, history>>

\* POST /api/webhooks/quickbooks stores a delivery.  QuickBooks may deliver a
\* change any number of times, and every delivery becomes a row.
Deliver(e, entities) ==
    /\ evStatus[e] = "absent"
    /\ \A d \in 1..(e - 1) : evStatus[d] # "absent"
    /\ evStatus' = [evStatus EXCEPT ![e] = "received"]
    /\ payload' = [payload EXCEPT ![e] = entities]
    /\ fresh' = fresh \cup {e}
    /\ UNCHANGED <<orderRows, orgRows, money, pc, frame, history>>

\* void processEventById(event.id): not awaited, so it may also never run.
HandleInline(c, e) ==
    /\ pc[c] = "idle"
    /\ e \in fresh
    /\ fresh' = fresh \ {e}
    /\ frame' = [frame EXCEPT ![c].queue = <<e>>]
    /\ Goto(c, "mark")
    /\ UNCHANGED <<orderRows, orgRows, money, evStatus, payload, history>>

Pending == {e \in Events : evStatus[e] \in {"received", "failed"}}

\* processPendingEvents: the oldest pending events, read once.
Oldest(S) == [i \in 1..(IF Cardinality(S) < SweepLimit THEN Cardinality(S)
                                                       ELSE SweepLimit) |->
                 CHOOSE e \in S : Cardinality({d \in S : d < e}) = i - 1]

Sweep(c) ==
    /\ pc[c] = "idle"
    /\ Pending # {}
    /\ frame' = [frame EXCEPT ![c].queue = Oldest(Pending)]
    /\ Goto(c, "mark")
    /\ UNCHANGED <<orderRows, orgRows, money, eventRows, history>>

EventOf(c) == Head(frame[c].queue)

\* runHandler marks the event whatever its status is by now.
MarkProcessing(c) ==
    /\ pc[c] = "mark"
    /\ evStatus' = [evStatus EXCEPT ![EventOf(c)] = "processing"]
    /\ frame' = [frame EXCEPT ![c].at = 1]
    /\ Goto(c, IF payload[EventOf(c)] = <<>> THEN "skipped" ELSE "entity")
    /\ UNCHANGED <<orderRows, orgRows, money, payload, fresh, history>>

\* An entity that is no payment, or a payment of no invoice of ours.
SkipEntity(c) ==
    /\ pc[c] = "entity"
    /\ frame[c].at <= Len(payload[EventOf(c)])
    /\ payload[EventOf(c)][frame[c].at] = None
    /\ frame' = [frame EXCEPT ![c].at = @ + 1]
    /\ UNCHANGED <<orderRows, orgRows, money, eventRows, pc, history>>

\* Mutant: a payment of an order that is paid already has nothing left to do.
MatchUnpaid(c) ==
    /\ pc[c] = "entity"
    /\ frame[c].at <= Len(payload[EventOf(c)])
    /\ LET p == payload[EventOf(c)][frame[c].at]
       IN  /\ p # None
           /\ IF status[paidTo[p]] = "paid"
              THEN frame' = [frame EXCEPT ![c].at = @ + 1] /\ UNCHANGED <<pc, overlapped>>
              ELSE TakeUp(c, paidTo[p], [frame[c] EXCEPT !.payment = p], "record")
    /\ UNCHANGED <<orderRows, orgRows, money, eventRows, provisionings, raced,
                   lost>>

\* handlePaymentChange fetches the payment and reads the order it pays.
MatchOrder(c) ==
    /\ pc[c] = "entity"
    /\ frame[c].at <= Len(payload[EventOf(c)])
    /\ LET p == payload[EventOf(c)][frame[c].at]
       IN  /\ p # None
           /\ TakeUp(c, paidTo[p], [frame[c] EXCEPT !.payment = p], "record")
    /\ UNCHANGED <<orderRows, orgRows, money, eventRows, provisionings, raced,
                   lost>>

EntitiesDone(c) ==
    /\ pc[c] = "entity"
    /\ frame[c].at > Len(payload[EventOf(c)])
    /\ Goto(c, "processed")
    /\ UNCHANGED <<orderRows, orgRows, money, eventRows, frame, history>>

\* Mutant: an event that failed keeps its status.
OutcomeUnlessFailed(c) ==
    IF pc[c] = "failed" THEN evStatus[EventOf(c)] ELSE pc[c]

Outcome(c) == pc[c]

\* The outcome goes to the event row and the next event of the list is taken.
CloseEvent(c) ==
    /\ pc[c] \in {"processed", "failed", "skipped"}
    /\ evStatus' = [evStatus EXCEPT ![EventOf(c)] = Outcome(c)]
    /\ LET rest == Tail(frame[c].queue)
       IN  /\ frame' = [frame EXCEPT ![c] = [NoFrame EXCEPT !.queue = rest]]
           /\ Goto(c, IF rest = <<>> THEN "idle" ELSE "mark")
    /\ UNCHANGED <<orderRows, orgRows, money, payload, fresh, history>>

-----------------------------------------------------------------------------
(***************************************************************************)
(* The operator's calls: recordManualPayment and chargeOrderPayment.       *)
(***************************************************************************)
LoadChargeable(c, o, card) ==
    /\ c \in Operators
    /\ pc[c] = "idle"
    /\ status[o] \notin {"paid", "provisioned"}
    /\ TakeUp(c, o, [NoFrame EXCEPT !.card = card],
              IF card THEN "charge" ELSE "book")
    /\ UNCHANGED <<orderRows, orgRows, money, eventRows, provisionings, raced,
                   lost>>

ChargeSucceeds(c) ==
    /\ pc[c] = "charge"
    /\ charged[frame[c].order] < MaxCharges
    /\ charged' = [charged EXCEPT ![frame[c].order] = @ + 1]
    /\ Goto(c, "book")
    /\ UNCHANGED <<orderRows, orgRows, recorded, unbooked, paidTo, eventRows,
                   frame, history>>

\* Mutant: a declined charge is settled like a successful one.
DeclinedSettles(c) ==
    /\ pc[c] = "charge"
    /\ Goto(c, "record")
    /\ UNCHANGED <<orderRows, orgRows, money, eventRows, frame, history>>

\* The failed attempt is only filed: no money moved.
ChargeDeclined(c) ==
    /\ pc[c] = "charge"
    /\ Return(c)
    /\ UNCHANGED <<orderRows, orgRows, money, eventRows, history>>

\* createPayment writes the payment to the books.
Book(c, p) ==
    /\ pc[c] = "book"
    /\ paidTo[p] = None
    /\ paidTo' = [paidTo EXCEPT ![p] = frame[c].order]
    /\ frame' = [frame EXCEPT ![c].payment = p]
    /\ Goto(c, "record")
    /\ UNCHANGED <<orderRows, orgRows, recorded, unbooked, charged, eventRows,
                   history>>

\* QuickBooks rejects it: a manual payment ends there, a charge is settled
\* without the books.
BookRejected(c) ==
    /\ pc[c] = "book"
    /\ IF frame[c].card THEN Goto(c, "record") /\ UNCHANGED frame
                        ELSE Return(c)
    /\ UNCHANGED <<orderRows, orgRows, money, eventRows, history>>

-----------------------------------------------------------------------------
(***************************************************************************)
(* settleOrder and the same statements of handlePaymentChange.             *)
(***************************************************************************)
\* Mutant: a charge that is not in the books leaves no Payment row.
UnbookedDropped(c) == unbooked

UnbookedAfter(c) ==
    IF frame[c].payment = None THEN unbooked \cup {frame[c].order} ELSE unbooked

RecordPayment(c) ==
    /\ pc[c] = "record"
    /\ recorded' = recorded \cup ({frame[c].payment} \ {None})
    /\ unbooked' = UnbookedAfter(c)
    /\ Goto(c, "settle")
    /\ UNCHANGED <<orderRows, orgRows, paidTo, charged, eventRows, frame, history>>

\* The status that is looked at is the one read when the order was taken up.
\* provisionOrder is then given the order's id and nothing else.
Settle(c) ==
    /\ pc[c] = "settle"
    /\ status' = IF frame[c].seen \in {"paid", "provisioned"} THEN status
                    ELSE [status EXCEPT ![frame[c].order] = "paid"]
    /\ frame' = [frame EXCEPT ![c] =
          [NoFrame EXCEPT !.queue = frame[c].queue, !.at = frame[c].at,
                          !.order = frame[c].order]]
    /\ Goto(c, "provision")
    /\ UNCHANGED <<orgOf, orgRows, money, eventRows, history>>

-----------------------------------------------------------------------------
(***************************************************************************)
(* provisionOrder.                                                         *)
(***************************************************************************)
\* What checkout stored as companyDomain: the e-mail domain fills a blank.
CompanyDomain(o) == IF Buyer[o].typedDomain # None THEN Buyer[o].typedDomain
                                                   ELSE Buyer[o].emailDomain

\* The name an organization founded by this order gets, and its slug's base.
OrgName(o) == IF Buyer[o].company # None THEN Buyer[o].company ELSE o

SameDomain(o) == {g \in DOMAIN orgs : orgs[g].domain = CompanyDomain(o)}
SameCage(o) == {g \in DOMAIN orgs : Buyer[o].cage # None
                                       /\ orgs[g].cage = Buyer[o].cage}
SameName(o) == {g \in DOMAIN orgs : Buyer[o].company # None
                                       /\ orgs[g].name = Buyer[o].company}
SameMail(o) == {g \in DOMAIN orgs :
                  /\ CompanyDomain(o) \notin FreeDomains
                  /\ CompanyDomain(o) \in {orgs[g].domain, orgs[g].contact}}

\* Mutant: the CAGE code is all that is looked at.
MatchesCageOnly(o) == <<SameCage(o)>>

\* findExistingOrgForBuyer: the first criterion any row meets.
MatchesInOrder(o) == <<SameDomain(o), SameCage(o), SameName(o), SameMail(o)>>

OldestOf(G) == CHOOSE g \in G : \A h \in G : g <= h

ExistingOrg(o) ==
    LET matches == MatchesInOrder(o)
        met == {i \in DOMAIN matches : matches[i] # {}}
    IN  IF met = {} THEN 0 ELSE OldestOf(matches[OldestOf(met)])

\* provisionOrder returned ok: the next entity, or the operator's answer.
Provisioned(c) ==
    IF frame[c].queue = <<>>
       THEN Return(c)
       ELSE /\ Goto(c, "entity")
            /\ frame' = [frame EXCEPT ![c] =
                  [NoFrame EXCEPT !.queue = frame[c].queue, !.at = frame[c].at + 1]]

\* It threw or returned an error: the event fails, the operator is told.
NotProvisioned(c) ==
    IF frame[c].queue = <<>>
       THEN Return(c)
       ELSE /\ Goto(c, "failed")
            /\ frame' = [frame EXCEPT ![c] =
                  [NoFrame EXCEPT !.queue = frame[c].queue]]

\* Mutant: an order is provisioned whenever it is asked for.
AlwaysProvision(o) == "resolve"

\* The idempotency check.
Verdict(o) ==
    IF status[o] = "provisioned" /\ orgOf[o] # 0 THEN "done"
    ELSE IF status[o] \in {"paid", "payment_pending"} THEN "resolve"
    ELSE "refused"

LoadOrder(c) ==
    LET verdict == Verdict(frame[c].order)
    IN  /\ pc[c] = "provision"
        /\ \/ verdict = "done" /\ Provisioned(c)
           \/ verdict = "refused" /\ NotProvisioned(c)
           \/ verdict = "resolve" /\ Goto(c, "resolve") /\ UNCHANGED frame
        /\ UNCHANGED <<orderRows, orgRows, money, eventRows, history>>

\* Calls that found no organization for a domain and have not made one yet.
Founding(d) == {c \in Calls : pc[c] \in {"slug", "create_org"}
                                /\ CompanyDomain(frame[c].order) = d}

ResolveOrg(c) ==
    LET o == frame[c].order
        g == ExistingOrg(o)
        d == CompanyDomain(o)
    IN  /\ pc[c] = "resolve"
        /\ frame' = [frame EXCEPT ![c].org = g]
        /\ Goto(c, IF g = 0 THEN "slug" ELSE "entitle")
        /\ raced' = IF g = 0 /\ Founding(d) # {} THEN raced \cup {d} ELSE raced
        /\ UNCHANGED <<orderRows, orgRows, money, eventRows, provisionings,
                       overlapped, lost>>

SlugTaken(name, n) == \E g \in DOMAIN orgs : orgs[g].name = name /\ orgs[g].slug = n

\* ensureUniqueSlug: the base, or the base with the first free number.
PickSlug(c) ==
    LET name == OrgName(frame[c].order)
    IN  /\ pc[c] = "slug"
        /\ frame' = [frame EXCEPT ![c].slug =
              CHOOSE n \in 1..(Len(orgs) + 1) :
                  /\ ~SlugTaken(name, n)
                  /\ \A m \in 1..(n - 1) : SlugTaken(name, m)]
        /\ Goto(c, "create_org")
        /\ UNCHANGED <<orderRows, orgRows, money, eventRows, history>>

\* A slug that was taken meanwhile violates its unique key.
CreateOrg(c) ==
    LET o == frame[c].order
    IN  /\ pc[c] = "create_org"
        /\ IF SlugTaken(OrgName(o), frame[c].slug)
              THEN NotProvisioned(c) /\ UNCHANGED orgs
              ELSE /\ orgs' = Append(orgs,
                        [domain |-> CompanyDomain(o), cage |-> Buyer[o].cage,
                         name |-> OrgName(o), contact |-> Buyer[o].emailDomain,
                         slug |-> frame[c].slug])
                   /\ frame' = [frame EXCEPT ![c].org = Len(orgs) + 1, ![c].slug = 0]
                   /\ Goto(c, "entitle")
        /\ UNCHANGED <<orderRows, entitled, subscription, money, eventRows,
                       history>>

\* The upserts for the apps of the package.
Entitle(c) ==
    /\ pc[c] = "entitle"
    /\ entitled' = entitled \cup {<<frame[c].org, frame[c].order>>}
    /\ Goto(c, IF frame[c].order \in Recurring THEN "subscribe" ELSE "finish")
    /\ UNCHANGED <<orderRows, orgs, subscription, money, eventRows, frame,
                   history>>

\* Mutant: the subscription row is upserted.
MaySubscribe(o) == TRUE

Unsubscribed(o) == subscription[o] = 0

\* Subscription.orderId is unique: a second create throws.
Subscribe(c) ==
    LET o == frame[c].order
    IN  /\ pc[c] = "subscribe"
        /\ IF Unsubscribed(o)
              THEN /\ subscription' = [subscription EXCEPT ![o] = frame[c].org]
                   /\ Goto(c, "finish")
                   /\ UNCHANGED frame
              ELSE NotProvisioned(c) /\ UNCHANGED subscription
        /\ UNCHANGED <<orderRows, orgs, entitled, money, eventRows, history>>

\* The order is marked; the audit entry after it may still throw.
Finish(c) ==
    LET o == frame[c].order
    IN  /\ pc[c] = "finish"
        /\ status' = [status EXCEPT ![o] = "provisioned"]
        /\ orgOf' = [orgOf EXCEPT ![o] = frame[c].org]
        /\ provisionings' = [provisionings EXCEPT ![o] = @ + 1]
        /\ Provisioned(c) \/ NotProvisioned(c)
        /\ UNCHANGED <<orgRows, money, eventRows, overlapped, raced, lost>>

-----------------------------------------------------------------------------
(***************************************************************************)
(* Failures, and the other writers of organizations.                       *)
(***************************************************************************)
\* A statement of the handler or of provisionOrder throws: QuickBooks or the
\* database does not answer.
Throw(c) ==
    /\ pc[c] \in {"entity", "record", "settle", "processed"} \cup Provisioning
    /\ NotProvisioned(c)
    /\ UNCHANGED <<orderRows, orgRows, money, eventRows, history>>

\* The process dies.
Abandon(c) ==
    /\ pc[c] # "idle"
    /\ Return(c)
    /\ lost' = IF frame[c].queue = <<>> THEN lost ELSE lost \cup {EventOf(c)}
    /\ UNCHANGED <<orderRows, orgRows, money, eventRows, provisionings,
                   overlapped, raced>>

\* upsertOrgFromClerk adds a row for an organization made in Clerk: it has a
\* name and a slug, and no domain.
OrgAppears(name) ==
    /\ Cardinality({g \in DOMAIN orgs : orgs[g].domain = None}) < MaxForeign
    /\ ~SlugTaken(name, 1)
    /\ orgs' = Append(orgs, [domain |-> None, cage |-> None, name |-> name,
                             contact |-> None, slug |-> 1])
    /\ UNCHANGED <<orderRows, entitled, subscription, money, eventRows, pc,
                   frame, history>>

-----------------------------------------------------------------------------
Init ==
    /\ status = [o \in Orders |-> "payment_pending"]
    /\ orgOf = [o \in Orders |-> 0]
    /\ orgs = <<>>
    /\ entitled = {}
    /\ subscription = [o \in Orders |-> 0]
    /\ recorded = {}
    /\ unbooked = {}
    /\ evStatus = [e \in Events |-> "absent"]
    /\ payload = [e \in Events |-> <<>>]
    /\ paidTo = [p \in Payments |-> None]
    /\ charged = [o \in Orders |-> 0]
    /\ fresh = {}
    /\ pc = [c \in Calls |-> "idle"]
    /\ frame = [c \in Calls |-> NoFrame]
    /\ provisionings = [o \in Orders |-> 0]
    /\ overlapped = {}
    /\ raced = {}
    /\ lost = {}

\* A delivery names payments that exist, and changes of other entities.
Deliveries ==
    LET booked == {p \in Payments : paidTo[p] # None}
    IN  UNION {[1..n -> booked \cup {None}] : n \in 0..MaxEntities}

Environment ==
    \/ \E o \in Orders, p \in Payments : BuyerPays(o, p)
    \/ \E e \in Events, entities \in Deliveries : Deliver(e, entities)
    \/ \E o \in Orders : OrgAppears(OrgName(o))

Request(c) ==
    \/ \E e \in Events : HandleInline(c, e)
    \/ Sweep(c)
    \/ \E o \in Orders, card \in BOOLEAN : LoadChargeable(c, o, card)

Handle(c) == MarkProcessing(c) \/ SkipEntity(c) \/ MatchOrder(c)
                \/ EntitiesDone(c) \/ CloseEvent(c)

Pay(c) == \/ ChargeSucceeds(c) \/ ChargeDeclined(c)
          \/ \E p \in Payments : Book(c, p)
          \/ BookRejected(c)
          \/ RecordPayment(c) \/ Settle(c)

Provision(c) == \/ LoadOrder(c) \/ ResolveOrg(c) \/ PickSlug(c)
                \/ CreateOrg(c) \/ Entitle(c) \/ Subscribe(c) \/ Finish(c)

Advance(c) == Handle(c) \/ Pay(c) \/ Provision(c) \/ Throw(c)

Next == \/ Environment
        \/ \E c \in Calls : Request(c) \/ Advance(c) \/ Abandon(c)

Spec == Init /\ [][Next]_vars

\* The event loop serves every settled promise of a call that has started.
FairSpec == Spec /\ \A c \in Calls : WF_vars(Advance(c))

-----------------------------------------------------------------------------
(***************************************************************************)
(* Properties.                                                             *)
(***************************************************************************)
\* The rows and the local variables hold what they should.
TypeOK ==
    /\ status \in [Orders -> OrderStatus]
    /\ orgOf \in [Orders -> 0..Len(orgs)]
    /\ \A g \in DOMAIN orgs : DOMAIN orgs[g] =
          {"domain", "cage", "name", "contact", "slug"}
    /\ entitled \subseteq (DOMAIN orgs) \X Orders
    /\ subscription \in [Orders -> 0..Len(orgs)]
    /\ recorded \subseteq Payments /\ unbooked \subseteq Orders
    /\ evStatus \in [Events -> EventStatus \cup {"absent"}]
    /\ \A e \in Events : payload[e] \in Seq(Payments \cup {None})
    /\ paidTo \in [Payments -> Orders \cup {None}]
    /\ charged \in [Orders -> Nat]
    /\ fresh \subseteq Events /\ lost \subseteq Events
    /\ pc \in [Calls -> {"idle", "mark", "entity", "processed", "failed",
                         "skipped"} \cup Settling]
    /\ \A c \in Calls : /\ frame[c].queue \in Seq(Events)
                        /\ pc[c] \in Settling => frame[c].order \in Orders
                        /\ frame[c].org \in 0..Len(orgs)
    /\ provisionings \in [Orders -> Nat] /\ overlapped \subseteq Orders

\* Nobody gets the apps of a package unless money moved for that very order:
\* provisionOrder itself also accepts payment_pending, so it is its callers
\* that must not come without a payment.
EntitledOnlyIfPaid ==
    \A go \in entitled : charged[go[2]] > 0 \/ \E p \in Payments : paidTo[p] = go[2]

\* An order that counts as paid has a succeeded Payment row to show for it,
\* also when the money was taken and the books refused the payment.
PaidIsRecorded ==
    \A o \in Orders :
        status[o] \in {"paid", "provisioned"} =>
            o \in unbooked \/ \E p \in recorded : paidTo[p] = o

\* A provisioned order is wholly provisioned, in one organization: the apps
\* and the subscription are those of the organization the order points at,
\* however many provisionings raced and founded organizations of their own.
ProvisionedIsComplete ==
    \A o \in Orders :
        status[o] = "provisioned" =>
            /\ <<orgOf[o], o>> \in entitled
            /\ o \in Recurring => subscription[o] = orgOf[o]

\* Two organizations founded for one domain come only from provisionings that
\* raced between the search and the insert: crashes, retries, redelivered
\* events and later orders of the same buyer all find the first one.
OneOrgPerDomain ==
    \A g, h \in DOMAIN orgs :
        (g # h /\ orgs[g].domain = orgs[h].domain)
            => orgs[g].domain \in raced \cup {None}

\* However often its payment is delivered, swept, retried or recorded, an
\* order is provisioned at most once as long as no two calls work on it
\* together.  For a recurring order even that is not needed: the unique key
\* of the subscription lets one attempt through.
ProvisionedOnce ==
    \A o \in Orders : (o \in Recurring \/ o \notin overlapped)
                          => provisionings[o] <= 1

\* An event is only filed as processed when every order it pays for has been
\* provisioned: a failed provisioning fails the event, which the sweep takes up
\* again.  (So the code has it; its comment says that it should not fail the
\* handler.)
ProcessedMeansProvisioned ==
    \A e \in Events :
        evStatus[e] = "processed" =>
            \A i \in DOMAIN payload[e] :
                payload[e][i] # None => provisionings[paidTo[payload[e][i]]] > 0

\* An event does not stay in processing unless its handler died.
EventsSettle ==
    \A e \in Events :
        evStatus[e] = "processing" ~> (evStatus[e] # "processing" \/ e \in lost)

\* "partial provisioning is recorded on the Order (failureReason + a stable
\* resumable state), so an operator can re-trigger": a paid order nobody works
\* on has no subscription row yet, which the next attempt would trip over.
PaidIsResumable ==
    \A o \in Orders :
        (status[o] = "paid" /\ WorkingOn(o) = {}) => subscription[o] = 0
=============================================================================
