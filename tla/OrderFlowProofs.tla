-------------------------- MODULE OrderFlowProofs --------------------------
(***************************************************************************)
(* What holds of OrderFlow for any number of orders, payments, deliveries, *)
(* calls and foreign organizations, and for any answers of the checkout    *)
(* form: the six safety invariants that TLC checks for two orders.         *)
(***************************************************************************)
EXTENDS OrderFlow, FiniteSetTheorems, SequenceTheorems, WellFoundedInduction,
        TLAPS

-----------------------------------------------------------------------------
(***************************************************************************)
(* Types, and what the labels of a call say of its locals.                 *)
(***************************************************************************)
Closing == {"processed", "failed", "skipped"}
Labels  == {"idle", "mark", "entity"} \cup Closing \cup Settling

Frame == [queue   : Seq(Events),
          at      : Nat,
          order   : Orders \cup {None},
          seen    : OrderStatus \cup {"none"},
          card    : BOOLEAN,
          payment : Payments \cup {None},
          org     : Nat,
          slug    : Nat]

Founded(o, n) == [domain |-> CompanyDomain(o), cage |-> Buyer[o].cage,
                  name |-> OrgName(o), contact |-> Buyer[o].emailDomain,
                  slug |-> n]
Foreign(o) == [domain |-> None, cage |-> None, name |-> OrgName(o),
               contact |-> None, slug |-> 1]
OrgRow == {Founded(o, n) : o \in Orders, n \in Nat} \cup {Foreign(o) : o \in Orders}

OrderTypes ==
    /\ status \in [Orders -> OrderStatus]
    /\ orgOf \in [Orders -> Nat]
    /\ subscription \in [Orders -> Nat]
    /\ recorded \subseteq Payments /\ unbooked \subseteq Orders
    /\ charged \in [Orders -> Nat]
    /\ provisionings \in [Orders -> Nat]
    /\ overlapped \subseteq Orders

OrgTypes ==
    /\ orgs \in Seq(OrgRow)
    /\ entitled \subseteq (1 .. Len(orgs)) \X Orders
    /\ \A o \in Orders : orgOf[o] <= Len(orgs) /\ subscription[o] <= Len(orgs)

EventTypes ==
    /\ evStatus \in [Events -> EventStatus \cup {"absent"}]
    /\ payload \in [Events -> Seq(Payments \cup {None})]
    /\ paidTo \in [Payments -> Orders \cup {None}]
    /\ fresh \subseteq Events /\ lost \subseteq Events

CallTypes ==
    /\ pc \in [Calls -> Labels]
    /\ frame \in [Calls -> Frame]

\* An event names payments QuickBooks has, and a payment stays what it is.
EntitiesBooked ==
    \A e \in Events : \A i \in 1 .. Len(payload[e]) :
        payload[e][i] # None => paidTo[payload[e][i]] \in Orders

CallShape(c) ==
    /\ pc[c] \in {"mark", "entity"} \cup Closing => frame[c].queue # <<>>
    /\ pc[c] \in Settling => frame[c].order \in Orders
    /\ pc[c] = "entity" => frame[c].at > 0
    /\ pc[c] \in Settling /\ frame[c].queue # <<>> => frame[c].at > 0
    /\ pc[c] \in {"charge", "book"} => frame[c].queue = <<>>
    /\ pc[c] \in {"entitle", "subscribe", "finish"} => frame[c].org > 0
    /\ frame[c].org <= Len(orgs)

TypeInv ==
    /\ OrderTypes /\ OrgTypes /\ EventTypes /\ CallTypes
    /\ EntitiesBooked
    /\ \A c \in Calls : CallShape(c)

-----------------------------------------------------------------------------
\* Money moved for the order a call settles.
PaidFor(o) == charged[o] > 0 \/ \E p \in Payments : paidTo[p] = o

CallPaid(c) ==
    /\ pc[c] \in Settling \ {"charge", "book"} => PaidFor(frame[c].order)
    /\ pc[c] = "book" /\ frame[c].card => charged[frame[c].order] > 0

PaidInv == EntitledOnlyIfPaid /\ \A c \in Calls : CallPaid(c)

\* Once past its record, a call has a Payment row for its order.
Shown(o) == o \in unbooked \/ \E p \in recorded : paidTo[p] = o

CallShown(c) ==
    /\ pc[c] \in {"charge", "book"} => frame[c].payment = None
    /\ pc[c] \in {"settle"} \cup Provisioning => Shown(frame[c].order)
    /\ pc[c] = "record" /\ frame[c].payment # None
          => paidTo[frame[c].payment] = frame[c].order

ShownInv == PaidIsRecorded /\ \A c \in Calls : CallShown(c)

\* What provisioning has written so far.
CallComplete(c) ==
    /\ pc[c] \in {"subscribe", "finish"}
          => <<frame[c].org, frame[c].order>> \in entitled
    /\ pc[c] = "finish" /\ frame[c].order \in Recurring
          => subscription[frame[c].order] = frame[c].org

CompleteInv == ProvisionedIsComplete /\ \A c \in Calls : CallComplete(c)

-----------------------------------------------------------------------------
Finishing(c, o) == pc[c] = "finish" /\ frame[c].order = o

\* The subscription row lets one call through to the end.
OneSubscriber(o) ==
    /\ subscription[o] = 0 =>
          provisionings[o] = 0 /\ \A c \in Calls : ~Finishing(c, o)
    /\ \A c \in Calls : Finishing(c, o) =>
          provisionings[o] = 0 /\ \A d \in Calls : Finishing(d, o) => d = c
    /\ provisionings[o] <= 1

\* An order without overlap has one worker, who knows its status.
OneWorker(o) ==
    /\ \A c, d \in WorkingOn(o) : c = d
    /\ provisionings[o] <= 1
    /\ provisionings[o] = 1 => status[o] = "provisioned" /\ orgOf[o] # 0
    /\ \A c \in WorkingOn(o) :
          /\ pc[c] \in {"charge", "book", "record", "settle"}
                => frame[c].seen = status[o]
          /\ pc[c] \in Provisioning \ {"provision"} => provisionings[o] = 0

OnceInv ==
    /\ \A o \in Recurring : OneSubscriber(o)
    /\ \A o \in Orders \ overlapped : OneWorker(o)

-----------------------------------------------------------------------------
\* The order an entity of event e pays is provisioned, if it pays one.
EntityDone(e, i) ==
    payload[e][i] # None => provisionings[paidTo[payload[e][i]]] > 0

CallProcessed(c) ==
    frame[c].queue # <<>> =>
       LET e == EventOf(c)
       IN  /\ \A i \in 1 .. Len(frame[c].queue) : evStatus[frame[c].queue[i]] # "absent"
           /\ pc[c] \in {"entity"} \cup Settling =>
                 \A i \in 1 .. Len(payload[e]) : i < frame[c].at => EntityDone(e, i)
           /\ pc[c] \in Settling =>
                 /\ frame[c].at <= Len(payload[e])
                 /\ payload[e][frame[c].at] # None
                 /\ paidTo[payload[e][frame[c].at]] = frame[c].order
           /\ pc[c] = "processed" => \A i \in 1 .. Len(payload[e]) : EntityDone(e, i)

ProcessedInv ==
    /\ ProcessedMeansProvisioned
    /\ \A o \in Orders : status[o] = "provisioned" => provisionings[o] > 0
    /\ \A e \in fresh : evStatus[e] # "absent"
    /\ \A c \in Calls : CallProcessed(c)

-----------------------------------------------------------------------------
\* Whoever founds an organization for a domain nobody raced for is alone.
DomainInv ==
    /\ OneOrgPerDomain
    /\ \A c \in Calls : pc[c] \in {"slug", "create_org"} =>
          LET d == CompanyDomain(frame[c].order)
          IN  d \notin raced =>
                 /\ \A b \in Founding(d) : b = c
                 /\ \A g \in DOMAIN orgs : orgs[g].domain # d

-----------------------------------------------------------------------------
(***************************************************************************)
(* The operators of the model: each CHOOSE finds what it looks for.        *)
(***************************************************************************)

LEMMA LeastNatural ==
    ASSUME NEW G \in SUBSET Nat, G # {}
    PROVE  \E g \in G : \A h \in G : g <= h
<1>1. \E g \in G : \A h \in G : <<h, g>> \notin OpToRel(<, Nat)
  BY WFMin, NatLessThanWellFounded, Zenon
<1>2. PICK g \in G : \A h \in G : <<h, g>> \notin OpToRel(<, Nat)
  BY <1>1
<1>3. \A h \in G : ~(h < g)
  BY <1>2 DEF OpToRel
<1>4. QED
  BY <1>3

LEMMA OldestOfIsLeast ==
    ASSUME NEW G \in SUBSET Nat, G # {}
    PROVE  OldestOf(G) \in G /\ \A h \in G : OldestOf(G) <= h
BY LeastNatural DEF OldestOf

\* findExistingOrgForBuyer returns a row, and none only if none has the domain.
LEMMA ExistingOrgIsARow ==
    ASSUME OrgTypes, NEW o \in Orders
    PROVE  /\ ExistingOrg(o) \in 0 .. Len(orgs)
           /\ ExistingOrg(o) = 0 => \A g \in DOMAIN orgs :
                                       orgs[g].domain # CompanyDomain(o)
<1> DEFINE matches == MatchesInOrder(o)
           met == {i \in DOMAIN matches : matches[i] # {}}
<1>1. DOMAIN orgs = 1 .. Len(orgs) /\ Len(orgs) \in Nat
  BY LenProperties DEF OrgTypes
<1>2. /\ DOMAIN matches = 1 .. 4
      /\ matches[1] = SameDomain(o)
      /\ \A i \in DOMAIN matches : matches[i] \subseteq DOMAIN orgs
  <2>1. /\ DOMAIN matches = 1 .. 4
        /\ matches[1] = SameDomain(o) /\ matches[2] = SameCage(o)
        /\ matches[3] = SameName(o) /\ matches[4] = SameMail(o)
    BY DEF MatchesInOrder
  <2>2. /\ SameDomain(o) \subseteq DOMAIN orgs /\ SameCage(o) \subseteq DOMAIN orgs
        /\ SameName(o) \subseteq DOMAIN orgs /\ SameMail(o) \subseteq DOMAIN orgs
    BY DEF SameDomain, SameCage, SameName, SameMail
  <2>3. \A i \in 1 .. 4 : i = 1 \/ i = 2 \/ i = 3 \/ i = 4
    OBVIOUS
  <2> HIDE DEF matches
  <2>4. QED
    BY <2>1, <2>2, <2>3
<1>3. ExistingOrg(o) = IF met = {} THEN 0 ELSE OldestOf(matches[OldestOf(met)])
  BY DEF ExistingOrg
<1> HIDE DEF matches
<1>4. CASE met = {}
  <2>1. SameDomain(o) = {}
    BY <1>2, <1>4
  <2>2. QED
    BY <1>1, <1>3, <1>4, <2>1 DEF SameDomain
<1>5. CASE met # {}
  <2>1. OldestOf(met) \in met
    BY <1>2, <1>5, OldestOfIsLeast
  <2> DEFINE rows == matches[OldestOf(met)]
  <2>2. rows # {} /\ rows \subseteq DOMAIN orgs
    BY <1>2, <2>1
  <2>3. ExistingOrg(o) = OldestOf(rows)
    BY <1>3, <1>5
  <2> HIDE DEF rows
  <2>4. rows \in SUBSET Nat /\ rows \subseteq 1 .. Len(orgs)
    BY <1>1, <2>2
  <2>5. OldestOf(rows) \in rows
    BY <2>2, <2>4, OldestOfIsLeast
  <2>6. ExistingOrg(o) \in 1 .. Len(orgs)
    BY <2>3, <2>4, <2>5
  <2>7. QED
    BY <1>1, <2>6
<1>6. QED
  BY <1>4, <1>5

\* In a finite set of numbers every rank below its size is taken.
LEMMA RankIsTaken ==
    ASSUME NEW S \in SUBSET Nat, IsFiniteSet(S),
           NEW k \in 0 .. (Cardinality(S) - 1)
    PROVE  \E e \in S : Cardinality({d \in S : d < e}) = k
<1> DEFINE Below(e) == {d \in S : d < e}
           rank == [e \in S |-> Cardinality(Below(e))]
           Ranks == 0 .. (Cardinality(S) - 1)
<1>1. Cardinality(S) \in Nat
  BY FS_CardinalityType
<1>2. IsFiniteSet(Ranks) /\ Cardinality(Ranks) = Cardinality(S)
  <2>1. /\ IsFiniteSet(0 .. (Cardinality(S) - 1))
        /\ Cardinality(0 .. (Cardinality(S) - 1)) =
              IF 0 > Cardinality(S) - 1 THEN 0 ELSE Cardinality(S) - 1 - 0 + 1
    <3>1. 0 \in Int /\ Cardinality(S) - 1 \in Int
      BY <1>1
    <3>2. QED
      BY <3>1, FS_Interval
  <2>2. QED
    BY <1>1, <2>1
<1>3. ASSUME NEW e \in S
      PROVE  IsFiniteSet(Below(e)) /\ Cardinality(Below(e)) \in Ranks
  <2>1. /\ IsFiniteSet(Below(e))
        /\ Cardinality(Below(e)) <= Cardinality(S)
        /\ Cardinality(S) = Cardinality(Below(e)) => S = Below(e)
    BY FS_Subset
  <2>2. Below(e) # S
    OBVIOUS
  <2>3. Cardinality(Below(e)) \in Nat
    BY <2>1, FS_CardinalityType
  <2>4. QED
    BY <1>1, <2>1, <2>2, <2>3
<1>4. ASSUME NEW e \in S, NEW d \in S, d < e
      PROVE  Cardinality(Below(d)) < Cardinality(Below(e))
  <2>1. Below(d) \in SUBSET Below(e) /\ Below(d) # Below(e)
    <3>1. \A x \in S : x < d => x < e
      BY <1>4
    <3>2. d \in Below(e) /\ d \notin Below(d)
      BY <1>4
    <3>3. QED
      BY <3>1, <3>2
  <2>2. /\ Cardinality(Below(d)) <= Cardinality(Below(e))
        /\ Cardinality(Below(e)) = Cardinality(Below(d)) => Below(e) = Below(d)
    BY <1>3, <2>1, FS_Subset
  <2>3. QED
    BY <1>3, <2>1, <2>2
<1>5. rank \in Injection(S, Ranks)
  <2>1. rank \in [S -> Ranks]
    BY <1>3
  <2>2. ASSUME NEW d \in S, NEW e \in S, rank[d] = rank[e]
        PROVE  d = e
    <3>1. Cardinality(Below(d)) = Cardinality(Below(e))
      BY <2>2
    <3>2. d < e \/ e < d \/ d = e
      OBVIOUS
    <3>3. Cardinality(Below(d)) \in Nat /\ Cardinality(Below(e)) \in Nat
      BY <1>3
    <3> HIDE DEF Below
    <3>4. QED
      BY <1>4, <3>1, <3>2, <3>3
  <2>3. QED
    BY <2>1, <2>2 DEF Injection, IsInjective
<1>6. rank \in Surjection(S, Ranks)
  BY <1>2, <1>5, FS_Injection
<1>7. QED
  BY <1>6 DEF Surjection

\* The list a sweep reads is a list of the events it asked for.
LEMMA OldestIsAList ==
    ASSUME NEW S \in SUBSET Events, S # {}
    PROVE  /\ Oldest(S) \in Seq(Events) /\ Oldest(S) # <<>>
           /\ \A i \in 1 .. Len(Oldest(S)) : Oldest(S)[i] \in S
<1> DEFINE n == IF Cardinality(S) < SweepLimit THEN Cardinality(S) ELSE SweepLimit
           Rank(e) == Cardinality({d \in S : d < e})
<1>1. IsFiniteSet(Events) /\ Events \in SUBSET Nat
  BY BoundsAssumption, FS_Interval DEF Events
<1>2. IsFiniteSet(S) /\ S \in SUBSET Nat
  BY <1>1, FS_Subset
<1>3. Cardinality(S) \in Nat \ {0}
  BY <1>2, FS_EmptySet, FS_CardinalityType
<1>4. n \in Nat \ {0} /\ n <= Cardinality(S)
  BY <1>3, BoundsAssumption
<1>5. Oldest(S) = [i \in 1 .. n |-> CHOOSE e \in S : Rank(e) = i - 1]
  BY DEF Oldest
<1>6. ASSUME NEW i \in 1 .. n
      PROVE  (CHOOSE e \in S : Rank(e) = i - 1) \in S
  <2>1. i - 1 \in 0 .. (Cardinality(S) - 1)
    BY <1>3, <1>4
  <2>2. \E e \in S : Rank(e) = i - 1
    BY <1>2, <2>1, RankIsTaken
  <2>3. QED
    BY <2>2, Zenon
<1> HIDE DEF n, Rank
<1>7. Oldest(S) \in [1 .. n -> S]
  BY <1>5, <1>6
<1>8. Oldest(S) \in Seq(S) /\ Len(Oldest(S)) = n
  BY <1>4, <1>7
<1>9. Oldest(S) # <<>>
  BY <1>4, <1>8
<1>10. QED
  BY <1>7, <1>8, <1>9

\* ensureUniqueSlug finds a free number.
LEMMA SlugIsFree ==
    ASSUME OrgTypes, NEW name
    PROVE  \E n \in 1 .. (Len(orgs) + 1) :
              /\ ~SlugTaken(name, n)
              /\ \A m \in 1 .. (n - 1) : SlugTaken(name, m)
<1> DEFINE Free == {n \in 1 .. (Len(orgs) + 1) : ~SlugTaken(name, n)}
<1>1. DOMAIN orgs = 1 .. Len(orgs) /\ Len(orgs) \in Nat
  BY LenProperties DEF OrgTypes
<1>2. Free # {}
  <2> SUFFICES ASSUME \A n \in 1 .. (Len(orgs) + 1) : SlugTaken(name, n)
               PROVE  FALSE
    OBVIOUS
  <2> DEFINE holder == [n \in 1 .. (Len(orgs) + 1) |->
                           CHOOSE g \in 1 .. Len(orgs) : orgs[g].slug = n]
  <2>1. \A n \in 1 .. (Len(orgs) + 1) :
           \E g \in 1 .. Len(orgs) : orgs[g].slug = n
    BY <1>1 DEF SlugTaken
  <2>2. \A n \in 1 .. (Len(orgs) + 1) :
           holder[n] \in 1 .. Len(orgs) /\ orgs[holder[n]].slug = n
    BY <2>1
  <2>3. holder \in [1 .. (Len(orgs) + 1) -> 1 .. Len(orgs)]
    BY <2>2
  <2>4. /\ IsFiniteSet(1 .. (Len(orgs) + 1)) /\ IsFiniteSet(1 .. Len(orgs))
        /\ Cardinality(1 .. Len(orgs)) < Cardinality(1 .. (Len(orgs) + 1))
    <3>1. /\ IsFiniteSet(1 .. Len(orgs))
          /\ Cardinality(1 .. Len(orgs)) = IF 1 > Len(orgs) THEN 0 ELSE Len(orgs) - 1 + 1
      BY <1>1, FS_Interval
    <3>2. /\ IsFiniteSet(1 .. (Len(orgs) + 1))
          /\ Cardinality(1 .. (Len(orgs) + 1)) =
                IF 1 > Len(orgs) + 1 THEN 0 ELSE (Len(orgs) + 1) - 1 + 1
      <4>1. Len(orgs) + 1 \in Int
        BY <1>1
      <4>2. QED
        BY <4>1, FS_Interval
    <3>3. QED
      BY <1>1, <3>1, <3>2
  <2> HIDE DEF holder
  <2>5. PICK m \in 1 .. (Len(orgs) + 1), n \in 1 .. (Len(orgs) + 1) :
           m # n /\ holder[m] = holder[n]
    BY <2>3, <2>4, FS_PigeonHole
  <2>6. QED
    BY <2>2, <2>5
<1>3. PICK n \in Free : \A m \in Free : n <= m
  <2>1. Free \in SUBSET Nat
    BY <1>1
  <2>2. QED
    BY <1>2, <2>1, LeastNatural
<1>4. \A m \in 1 .. (n - 1) : SlugTaken(name, m)
  BY <1>1, <1>3
<1>5. QED
  BY <1>3, <1>4

-----------------------------------------------------------------------------
(***************************************************************************)
(* What each step does to the call that takes it.                          *)
(***************************************************************************)

\* Call c moves and the other calls stay.
Moved(c) ==
    /\ CallTypes'
    /\ \A d \in Calls : d # c => pc'[d] = pc[d] /\ frame'[d] = frame[d]

LEMMA Moving ==
    ASSUME CallTypes, NEW c \in Calls, NEW l \in Labels, NEW f \in Frame,
           pc' = [pc EXCEPT ![c] = l], frame' = [frame EXCEPT ![c] = f]
    PROVE  Moved(c) /\ pc'[c] = l /\ frame'[c] = f
BY DEF CallTypes, Moved

\* A label changes and the locals stay.
LEMMA GotoMoves ==
    ASSUME CallTypes, NEW c \in Calls, NEW l \in Labels, Goto(c, l), UNCHANGED frame
    PROVE  Moved(c) /\ pc'[c] = l /\ frame'[c] = frame[c]
BY DEF CallTypes, Moved, Goto

LEMMA NoFrameIsFrame == NoFrame \in Frame
BY DEF NoFrame, Frame

LEMMA ReturnMoves ==
    ASSUME CallTypes, NEW c \in Calls, Return(c)
    PROVE  Moved(c) /\ pc'[c] = "idle" /\ frame'[c] = NoFrame
BY Moving, NoFrameIsFrame DEF Return, Goto, Labels

LEMMA NotProvisionedMoves ==
    ASSUME CallTypes, NEW c \in Calls, NotProvisioned(c)
    PROVE  /\ Moved(c)
           /\ pc'[c] = IF frame[c].queue = <<>> THEN "idle" ELSE "failed"
           /\ frame'[c].queue = frame[c].queue
           /\ frame'[c].org = 0
<1>1. CASE frame[c].queue = <<>>
  BY <1>1, ReturnMoves DEF NotProvisioned, NoFrame
<1>2. CASE frame[c].queue # <<>>
  <2> DEFINE f == [NoFrame EXCEPT !.queue = frame[c].queue]
  <2>1. f \in Frame /\ f.queue = frame[c].queue /\ f.org = 0
    BY DEF CallTypes, Frame, NoFrame
  <2>2. frame' = [frame EXCEPT ![c] = f] /\ pc' = [pc EXCEPT ![c] = "failed"]
    BY <1>2 DEF NotProvisioned, Goto
  <2> HIDE DEF f
  <2>3. QED
    BY <1>2, <2>1, <2>2, Moving DEF Labels, Closing
<1>3. QED
  BY <1>1, <1>2

LEMMA ProvisionedMoves ==
    ASSUME CallTypes, NEW c \in Calls, Provisioned(c)
    PROVE  /\ Moved(c)
           /\ pc'[c] = IF frame[c].queue = <<>> THEN "idle" ELSE "entity"
           /\ frame'[c].queue = frame[c].queue
           /\ frame[c].queue # <<>> => frame'[c].at = frame[c].at + 1
           /\ frame'[c].org = 0
<1>1. CASE frame[c].queue = <<>>
  BY <1>1, ReturnMoves DEF Provisioned, NoFrame
<1>2. CASE frame[c].queue # <<>>
  <2> DEFINE f == [NoFrame EXCEPT !.queue = frame[c].queue, !.at = frame[c].at + 1]
  <2>1. /\ f \in Frame /\ f.queue = frame[c].queue
        /\ f.at = frame[c].at + 1 /\ f.org = 0
    <3>1. frame[c].queue \in Seq(Events) /\ frame[c].at + 1 \in Nat
      BY DEF CallTypes, Frame
    <3>2. QED
      BY <3>1 DEF Frame, NoFrame
  <2>2. frame' = [frame EXCEPT ![c] = f] /\ pc' = [pc EXCEPT ![c] = "entity"]
    BY <1>2 DEF Provisioned, Goto
  <2> HIDE DEF f
  <2>3. QED
    BY <1>2, <2>1, <2>2, Moving DEF Labels
<1>3. QED
  BY <1>1, <1>2

LEMMA TakeUpMoves ==
    ASSUME CallTypes, OrderTypes, NEW c \in Calls, NEW o \in Orders, NEW f \in Frame,
           NEW l \in Labels, TakeUp(c, o, f, l)
    PROVE  /\ Moved(c) /\ pc'[c] = l
           /\ frame'[c].order = o /\ frame'[c].seen = status[o]
           /\ frame'[c].queue = f.queue /\ frame'[c].at = f.at
           /\ frame'[c].card = f.card /\ frame'[c].payment = f.payment
           /\ frame'[c].org = f.org
<1> DEFINE g == [f EXCEPT !.order = o, !.seen = status[o]]
<1>1. /\ g \in Frame /\ g.order = o /\ g.seen = status[o]
      /\ g.queue = f.queue /\ g.at = f.at /\ g.card = f.card
      /\ g.payment = f.payment /\ g.org = f.org
  BY DEF Frame, OrderTypes
<1>2. frame' = [frame EXCEPT ![c] = g] /\ pc' = [pc EXCEPT ![c] = l]
  BY DEF TakeUp, Goto
<1> HIDE DEF g
<1>3. QED
  BY <1>1, <1>2, Moving

LEMMA HandleInlineMoves ==
    ASSUME CallTypes, NEW c \in Calls, NEW e \in Events, HandleInline(c, e)
    PROVE  /\ Moved(c) /\ pc'[c] = "mark"
           /\ frame'[c].queue = <<e>> /\ frame'[c].queue # <<>>
           /\ frame'[c].org = frame[c].org
<1> DEFINE f == [frame[c] EXCEPT !.queue = <<e>>]
<1>1. f \in Frame /\ f.queue = <<e>> /\ f.org = frame[c].org
  <2>1. <<e>> \in Seq(Events)
    OBVIOUS
  <2>2. QED
    BY <2>1 DEF CallTypes, Frame
<1>2. frame' = [frame EXCEPT ![c] = f] /\ pc' = [pc EXCEPT ![c] = "mark"]
  BY DEF HandleInline, Goto
<1> HIDE DEF f
<1>3. Moved(c) /\ pc'[c] = "mark" /\ frame'[c] = f
  BY <1>1, <1>2, Moving DEF Labels
<1>4. <<e>> # <<>>
  OBVIOUS
<1>5. QED
  BY <1>1, <1>3, <1>4

LEMMA SweepMoves ==
    ASSUME CallTypes, NEW c \in Calls, Sweep(c)
    PROVE  /\ Moved(c) /\ pc'[c] = "mark"
           /\ frame'[c].queue = Oldest(Pending) /\ frame'[c].queue # <<>>
           /\ \A i \in 1 .. Len(frame'[c].queue) : frame'[c].queue[i] \in Pending
           /\ frame'[c].org = frame[c].org
<1> DEFINE f == [frame[c] EXCEPT !.queue = Oldest(Pending)]
<1>1. /\ Oldest(Pending) \in Seq(Events) /\ Oldest(Pending) # <<>>
      /\ \A i \in 1 .. Len(Oldest(Pending)) : Oldest(Pending)[i] \in Pending
  <2>1. Pending \in SUBSET Events /\ Pending # {}
    BY DEF Pending, Sweep
  <2>2. QED
    BY <2>1, OldestIsAList
<1>2. f \in Frame /\ f.queue = Oldest(Pending) /\ f.org = frame[c].org
  BY <1>1 DEF CallTypes, Frame
<1>3. frame' = [frame EXCEPT ![c] = f] /\ pc' = [pc EXCEPT ![c] = "mark"]
  BY DEF Sweep, Goto
<1> HIDE DEF f
<1>4. QED
  BY <1>1, <1>2, <1>3, Moving DEF Labels

LEMMA MarkProcessingMoves ==
    ASSUME CallTypes, NEW c \in Calls, MarkProcessing(c)
    PROVE  /\ Moved(c)
           /\ pc'[c] = IF payload[EventOf(c)] = <<>> THEN "skipped" ELSE "entity"
           /\ frame'[c].queue = frame[c].queue /\ frame'[c].at = 1
           /\ frame'[c].org = frame[c].org
<1> DEFINE f == [frame[c] EXCEPT !.at = 1]
           l == IF payload[EventOf(c)] = <<>> THEN "skipped" ELSE "entity"
<1>1. /\ f \in Frame /\ f.queue = frame[c].queue /\ f.at = 1
      /\ f.org = frame[c].org
  BY DEF CallTypes, Frame
<1>2. frame' = [frame EXCEPT ![c] = f] /\ pc' = [pc EXCEPT ![c] = l]
  BY DEF MarkProcessing, Goto
<1>3. l \in Labels
  BY DEF Labels, Closing
<1> HIDE DEF f, l
<1>4. Moved(c) /\ pc'[c] = l /\ frame'[c] = f
  BY <1>1, <1>2, <1>3, Moving
<1>5. QED
  BY <1>1, <1>4 DEF l

LEMMA SkipEntityMoves ==
    ASSUME CallTypes, NEW c \in Calls, SkipEntity(c)
    PROVE  /\ Moved(c) /\ pc'[c] = "entity"
           /\ frame'[c].queue = frame[c].queue /\ frame'[c].at = frame[c].at + 1
           /\ frame'[c].org = frame[c].org
<1> DEFINE f == [frame[c] EXCEPT !.at = @ + 1]
<1>1. /\ f \in Frame /\ f.queue = frame[c].queue /\ f.at = frame[c].at + 1
      /\ f.org = frame[c].org
  <2>1. frame[c] \in Frame /\ frame[c].at + 1 \in Nat
    BY DEF CallTypes, Frame
  <2>2. QED
    BY <2>1 DEF Frame
<1>2. frame' = [frame EXCEPT ![c] = f] /\ pc' = [pc EXCEPT ![c] = "entity"]
  BY DEF SkipEntity, CallTypes
<1> HIDE DEF f
<1>3. QED
  BY <1>1, <1>2, Moving DEF Labels

LEMMA CloseEventMoves ==
    ASSUME CallTypes, NEW c \in Calls, CloseEvent(c), frame[c].queue # <<>>
    PROVE  /\ Moved(c)
           /\ pc'[c] = IF Tail(frame[c].queue) = <<>> THEN "idle" ELSE "mark"
           /\ frame'[c].queue = Tail(frame[c].queue) /\ frame'[c].org = 0
<1> DEFINE rest == Tail(frame[c].queue)
           f == [NoFrame EXCEPT !.queue = rest]
           l == IF rest = <<>> THEN "idle" ELSE "mark"
<1>1. rest \in Seq(Events)
  BY HeadTailProperties DEF CallTypes, Frame
<1>2. frame' = [frame EXCEPT ![c] = f] /\ pc' = [pc EXCEPT ![c] = l]
  BY DEF CloseEvent, Goto
<1>3. l \in Labels
  BY DEF Labels
<1> HIDE DEF rest, l
<1>4. f \in Frame /\ f.queue = rest /\ f.org = 0
  BY <1>1 DEF NoFrame, Frame
<1> HIDE DEF f
<1>5. Moved(c) /\ pc'[c] = l /\ frame'[c] = f
  BY <1>2, <1>3, <1>4, Moving
<1>6. QED
  BY <1>4, <1>5 DEF rest, l

LEMMA BookMoves ==
    ASSUME CallTypes, NEW c \in Calls, NEW p \in Payments, Book(c, p)
    PROVE  /\ Moved(c) /\ pc'[c] = "record"
           /\ frame'[c].payment = p /\ frame'[c].order = frame[c].order
           /\ frame'[c].seen = frame[c].seen
           /\ frame'[c].queue = frame[c].queue /\ frame'[c].at = frame[c].at
           /\ frame'[c].org = frame[c].org
<1> DEFINE f == [frame[c] EXCEPT !.payment = p]
<1>1. /\ f \in Frame /\ f.payment = p /\ f.order = frame[c].order
      /\ f.seen = frame[c].seen /\ f.queue = frame[c].queue
      /\ f.at = frame[c].at /\ f.org = frame[c].org
  BY DEF CallTypes, Frame
<1>2. frame' = [frame EXCEPT ![c] = f] /\ pc' = [pc EXCEPT ![c] = "record"]
  BY DEF Book, Goto
<1> HIDE DEF f
<1>3. QED
  BY <1>1, <1>2, Moving DEF Labels, Settling

LEMMA SettleMoves ==
    ASSUME CallTypes, NEW c \in Calls, Settle(c)
    PROVE  /\ Moved(c) /\ pc'[c] = "provision"
           /\ frame'[c].order = frame[c].order
           /\ frame'[c].queue = frame[c].queue /\ frame'[c].at = frame[c].at
           /\ frame'[c].org = 0
<1> DEFINE f == [NoFrame EXCEPT !.queue = frame[c].queue, !.at = frame[c].at,
                                !.order = frame[c].order]
<1>1. /\ f \in Frame /\ f.order = frame[c].order
      /\ f.queue = frame[c].queue /\ f.at = frame[c].at /\ f.org = 0
  BY DEF CallTypes, Frame, NoFrame
<1>2. frame' = [frame EXCEPT ![c] = f] /\ pc' = [pc EXCEPT ![c] = "provision"]
  BY DEF Settle, Goto
<1> HIDE DEF f
<1>3. QED
  BY <1>1, <1>2, Moving DEF Labels, Settling, Provisioning

LEMMA ResolveOrgMoves ==
    ASSUME CallTypes, OrgTypes, NEW c \in Calls, ResolveOrg(c), frame[c].order \in Orders
    PROVE  LET g == ExistingOrg(frame[c].order)
           IN  /\ Moved(c) /\ pc'[c] = IF g = 0 THEN "slug" ELSE "entitle"
               /\ g \in 0 .. Len(orgs) /\ frame'[c].org = g
               /\ frame'[c].order = frame[c].order
               /\ frame'[c].queue = frame[c].queue /\ frame'[c].at = frame[c].at
<1> DEFINE g == ExistingOrg(frame[c].order)
           f == [frame[c] EXCEPT !.org = g]
           l == IF g = 0 THEN "slug" ELSE "entitle"
<1>1. g \in 0 .. Len(orgs) /\ g \in Nat
  BY ExistingOrgIsARow
<1>2. frame' = [frame EXCEPT ![c] = f] /\ pc' = [pc EXCEPT ![c] = l]
  BY DEF ResolveOrg, Goto
<1>3. l \in Labels
  BY DEF Labels, Settling, Provisioning
<1> HIDE DEF g
<1>4. /\ f \in Frame /\ f.org = g /\ f.order = frame[c].order
      /\ f.queue = frame[c].queue /\ f.at = frame[c].at
  BY <1>1 DEF CallTypes, Frame
<1> HIDE DEF f, l
<1>5. Moved(c) /\ pc'[c] = l /\ frame'[c] = f
  BY <1>2, <1>3, <1>4, Moving
<1>6. QED
  BY <1>1, <1>4, <1>5 DEF g, l

LEMMA PickSlugMoves ==
    ASSUME CallTypes, OrgTypes, NEW c \in Calls, PickSlug(c)
    PROVE  /\ Moved(c) /\ pc'[c] = "create_org"
           /\ frame'[c].order = frame[c].order /\ frame'[c].org = frame[c].org
           /\ frame'[c].queue = frame[c].queue /\ frame'[c].at = frame[c].at
<1> DEFINE name == OrgName(frame[c].order)
           free == CHOOSE n \in 1 .. (Len(orgs) + 1) :
                      /\ ~SlugTaken(name, n)
                      /\ \A m \in 1 .. (n - 1) : SlugTaken(name, m)
           f == [frame[c] EXCEPT !.slug = free]
<1>1. free \in 1 .. (Len(orgs) + 1) /\ free \in Nat
  <2> HIDE DEF name
  <2>1. \E n \in 1 .. (Len(orgs) + 1) :
           /\ ~SlugTaken(name, n)
           /\ \A m \in 1 .. (n - 1) : SlugTaken(name, m)
    BY SlugIsFree
  <2>2. free \in 1 .. (Len(orgs) + 1)
    BY <2>1, Zenon
  <2> HIDE DEF free
  <2>3. QED
    BY <2>2
<1>2. frame' = [frame EXCEPT ![c] = f] /\ pc' = [pc EXCEPT ![c] = "create_org"]
  BY DEF PickSlug, Goto
<1> HIDE DEF free
<1>3. /\ f \in Frame /\ f.order = frame[c].order /\ f.org = frame[c].org
      /\ f.queue = frame[c].queue /\ f.at = frame[c].at
  BY <1>1 DEF CallTypes, Frame
<1> HIDE DEF f
<1>4. QED
  BY <1>2, <1>3, Moving DEF Labels, Settling, Provisioning

\* The insert succeeds: the row is the last, and the call goes on with it.
LEMMA CreateOrgMoves ==
    ASSUME CallTypes, OrgTypes, NEW c \in Calls, CreateOrg(c), frame[c].order \in Orders
    PROVE  \/ UNCHANGED orgs /\ NotProvisioned(c)
           \/ /\ Moved(c) /\ pc'[c] = "entitle"
              /\ frame'[c].order = frame[c].order
              /\ frame'[c].queue = frame[c].queue /\ frame'[c].at = frame[c].at
              /\ frame'[c].org = Len(orgs) + 1
              /\ orgs' = Append(orgs, Founded(frame[c].order, frame[c].slug))
              /\ Founded(frame[c].order, frame[c].slug) \in OrgRow
<1>1. CASE SlugTaken(OrgName(frame[c].order), frame[c].slug)
  BY <1>1 DEF CreateOrg
<1>2. CASE ~SlugTaken(OrgName(frame[c].order), frame[c].slug)
  <2> DEFINE f == [frame[c] EXCEPT !.org = Len(orgs) + 1, !.slug = 0]
  <2>1. Len(orgs) + 1 \in Nat
    BY LenProperties DEF OrgTypes
  <2>2. /\ f \in Frame /\ f.org = Len(orgs) + 1 /\ f.order = frame[c].order
        /\ f.queue = frame[c].queue /\ f.at = frame[c].at
    BY <2>1 DEF CallTypes, Frame
  <2>3. frame' = [frame EXCEPT ![c] = f] /\ pc' = [pc EXCEPT ![c] = "entitle"]
    BY <1>2 DEF CreateOrg, Goto, CallTypes
  <2>4. orgs' = Append(orgs, Founded(frame[c].order, frame[c].slug))
    BY <1>2 DEF CreateOrg, Founded
  <2>5. Founded(frame[c].order, frame[c].slug) \in OrgRow
    BY DEF CallTypes, Frame, OrgRow
  <2> HIDE DEF f
  <2>6. QED
    BY <2>2, <2>3, <2>4, <2>5, Moving DEF Labels, Settling, Provisioning
<1>3. QED
  BY <1>1, <1>2

-----------------------------------------------------------------------------
(***************************************************************************)
(* Every step keeps the types.                                             *)
(***************************************************************************)

RowsTyped == OrderTypes /\ OrgTypes /\ EventTypes /\ EntitiesBooked

LEMMA TypesAfter ==
    ASSUME TypeInv, NEW c \in Calls, Moved(c), CallShape(c)', RowsTyped',
           Len(orgs) <= Len(orgs')
    PROVE  TypeInv'
<1>1. Len(orgs) \in Nat /\ Len(orgs') \in Nat
  BY LenProperties DEF TypeInv, RowsTyped, OrgTypes
<1>2. ASSUME NEW d \in Calls, d # c
      PROVE  CallShape(d)'
  <2>1. pc'[d] = pc[d] /\ frame'[d] = frame[d] /\ CallShape(d) /\ frame[d].org \in Nat
    BY <1>2 DEF Moved, TypeInv, CallTypes, Frame
  <2>2. QED
    BY <1>1, <2>1 DEF CallShape
<1>3. QED
  BY <1>2 DEF TypeInv, RowsTyped, Moved

\* A step that leaves the rows alone.
LEMMA RowsStay ==
    ASSUME TypeInv, UNCHANGED <<orderRows, orgRows, money, evStatus, payload>>,
           fresh' \subseteq fresh, lost' \subseteq lost \cup Events,
           overlapped' \subseteq Orders, UNCHANGED provisionings
    PROVE  RowsTyped' /\ Len(orgs) <= Len(orgs')
<1>1. Len(orgs) \in Nat
  BY LenProperties DEF TypeInv, OrgTypes
<1>2. QED
  BY <1>1 DEF TypeInv, RowsTyped, OrderTypes, OrgTypes, EventTypes, EntitiesBooked,
     orderRows, orgRows, money

\* A call that handles events has one.
LEMMA EventOfCall ==
    ASSUME TypeInv, NEW c \in Calls, frame[c].queue # <<>>
    PROVE  EventOf(c) \in Events /\ frame[c].queue \in Seq(Events)
<1>1. frame[c].queue \in Seq(Events)
  BY DEF TypeInv, CallTypes, Frame
<1>2. QED
  BY <1>1, HeadTailProperties DEF EventOf

\* The payment an entity names is booked, and its order is one of ours.
LEMMA EntityOfCall ==
    ASSUME TypeInv, NEW c \in Calls, pc[c] = "entity"
    PROVE  /\ EventOf(c) \in Events /\ frame[c].queue # <<>>
           /\ frame[c].at \in Nat \ {0} /\ frame[c] \in Frame
           /\ Len(payload[EventOf(c)]) \in Nat
           /\ frame[c].at <= Len(payload[EventOf(c)]) =>
                 LET p == payload[EventOf(c)][frame[c].at]
                 IN  p # None => p \in Payments /\ paidTo[p] \in Orders
<1>1. frame[c].queue # <<>> /\ frame[c].at > 0 /\ frame[c] \in Frame
  BY DEF TypeInv, CallTypes, CallShape
<1>2. frame[c].queue \in Seq(Events) /\ frame[c].at \in Nat \ {0}
  BY <1>1 DEF Frame
<1>3. EventOf(c) \in Events
  BY <1>1, <1>2, HeadTailProperties DEF EventOf
<1>4. payload[EventOf(c)] \in Seq(Payments \cup {None})
  BY <1>3 DEF TypeInv, EventTypes
<1>5. Len(payload[EventOf(c)]) \in Nat
  BY <1>4, LenProperties
<1>6. ASSUME frame[c].at <= Len(payload[EventOf(c)])
      PROVE  /\ frame[c].at \in 1 .. Len(payload[EventOf(c)])
             /\ payload[EventOf(c)][frame[c].at] \in Payments \cup {None}
  BY <1>2, <1>4, <1>5, <1>6, ElementOfSeq
<1>7. QED
  BY <1>1, <1>2, <1>3, <1>5, <1>6 DEF TypeInv, EntitiesBooked

LEMMA BuyerPaysTypes ==
    ASSUME TypeInv, NEW o \in Orders, NEW p \in Payments, BuyerPays(o, p)
    PROVE  TypeInv'
<1>1. /\ paidTo' = [paidTo EXCEPT ![p] = o] /\ paidTo[p] = None
      /\ UNCHANGED <<orderRows, orgRows, recorded, unbooked, charged, eventRows,
                     pc, frame, history>>
  BY DEF BuyerPays
<1>2. EventTypes' /\ EntitiesBooked'
  BY <1>1, NoneAssumption DEF TypeInv, EventTypes, EntitiesBooked, eventRows, history
<1>3. OrderTypes' /\ OrgTypes' /\ CallTypes'
  BY <1>1 DEF TypeInv, OrderTypes, OrgTypes, CallTypes, orderRows, orgRows, history
<1>4. \A c \in Calls : CallShape(c)'
  BY <1>1 DEF TypeInv, CallShape, orgRows
<1>5. QED
  BY <1>2, <1>3, <1>4 DEF TypeInv

LEMMA DeliverTypes ==
    ASSUME TypeInv, NEW e \in Events, NEW entities \in Deliveries, Deliver(e, entities)
    PROVE  TypeInv'
<1>1. /\ entities \in Seq(Payments \cup {None})
      /\ \A i \in 1 .. Len(entities) :
            entities[i] # None => paidTo[entities[i]] \in Orders
  <2>1. PICK n \in 0 .. MaxEntities :
           entities \in [1 .. n -> {p \in Payments : paidTo[p] # None} \cup {None}]
    BY DEF Deliveries
  <2>2. entities \in Seq({p \in Payments : paidTo[p] # None} \cup {None})
    BY <2>1, BoundsAssumption
  <2>3. \A i \in 1 .. Len(entities) :
           entities[i] \in {p \in Payments : paidTo[p] # None} \cup {None}
    BY <2>2, ElementOfSeq
  <2>4. entities \in Seq(Payments \cup {None})
    BY <2>2, SeqMonotonic
  <2>5. QED
    BY <2>3, <2>4 DEF TypeInv, EventTypes
<1>2. EventTypes' /\ EntitiesBooked'
  BY <1>1 DEF Deliver, TypeInv, EventTypes, EntitiesBooked, EventStatus, money, history
<1>3. QED
  BY <1>2 DEF Deliver, TypeInv, OrderTypes, OrgTypes, CallTypes, CallShape,
     orderRows, orgRows, money, history

LEMMA OrgAppearsTypes ==
    ASSUME TypeInv, NEW o \in Orders, OrgAppears(OrgName(o))
    PROVE  TypeInv'
<1>1. Foreign(o) \in OrgRow
  BY DEF OrgRow
<1>2. orgs' = Append(orgs, Foreign(o))
  BY DEF OrgAppears, Foreign
<1>3. orgs' \in Seq(OrgRow) /\ Len(orgs') = Len(orgs) + 1 /\ Len(orgs) \in Nat
  BY <1>1, <1>2, AppendProperties, LenProperties DEF TypeInv, OrgTypes
<1>4. OrgTypes'
  BY <1>3 DEF OrgAppears, TypeInv, OrderTypes, OrgTypes, orderRows
<1>5. \A c \in Calls : CallShape(c)'
  BY <1>3 DEF OrgAppears, TypeInv, CallTypes, Frame, CallShape
<1>6. QED
  BY <1>4, <1>5 DEF OrgAppears, TypeInv, OrderTypes, EventTypes, CallTypes,
     EntitiesBooked, orderRows, money, eventRows, history

LEMMA HandleInlineTypes ==
    ASSUME TypeInv, NEW c \in Calls, NEW e \in Events, HandleInline(c, e)
    PROVE  TypeInv'
<1>1. RowsTyped' /\ Len(orgs) <= Len(orgs')
  BY RowsStay DEF HandleInline, history, TypeInv, OrderTypes
<1>2. Moved(c) /\ CallShape(c)'
  BY HandleInlineMoves
     DEF HandleInline, TypeInv, CallShape, orgRows, Settling, Provisioning, Closing
<1>3. QED
  BY <1>1, <1>2, TypesAfter

LEMMA SweepTypes ==
    ASSUME TypeInv, NEW c \in Calls, Sweep(c)
    PROVE  TypeInv'
<1>1. RowsTyped' /\ Len(orgs) <= Len(orgs')
  BY RowsStay DEF Sweep, history, eventRows, TypeInv, OrderTypes
<1>2. Moved(c) /\ CallShape(c)'
  BY SweepMoves
     DEF Sweep, TypeInv, CallShape, orgRows, Settling, Provisioning, Closing
<1>3. QED
  BY <1>1, <1>2, TypesAfter

LEMMA MarkProcessingTypes ==
    ASSUME TypeInv, NEW c \in Calls, MarkProcessing(c)
    PROVE  TypeInv'
<1>1. RowsTyped' /\ Len(orgs) <= Len(orgs')
  <2>1. Len(orgs) \in Nat
    BY LenProperties DEF TypeInv, OrgTypes
  <2>2. EventTypes'
    BY DEF MarkProcessing, TypeInv, EventTypes, EventStatus, money, history
  <2>3. QED
    BY <2>1, <2>2 DEF MarkProcessing, RowsTyped, TypeInv, OrderTypes, OrgTypes,
       EntitiesBooked, orderRows, orgRows, money, history
<1>2. Moved(c) /\ CallShape(c)'
  <2>1. /\ Moved(c) /\ pc'[c] \in {"skipped", "entity"}
        /\ frame'[c].queue = frame[c].queue /\ frame'[c].at = 1
        /\ frame'[c].org = frame[c].org
    BY MarkProcessingMoves DEF TypeInv
  <2>2. frame[c].queue # <<>> /\ frame[c].org <= Len(orgs) /\ orgs' = orgs
    BY DEF MarkProcessing, TypeInv, CallShape, orgRows
  <2>3. QED
    BY <2>1, <2>2 DEF CallShape, Settling, Provisioning, Closing
<1>3. QED
  BY <1>1, <1>2, TypesAfter

LEMMA SkipEntityTypes ==
    ASSUME TypeInv, NEW c \in Calls, SkipEntity(c)
    PROVE  TypeInv'
<1>1. RowsTyped' /\ Len(orgs) <= Len(orgs')
  BY RowsStay DEF SkipEntity, history, eventRows, TypeInv, OrderTypes
<1>2. Moved(c) /\ CallShape(c)'
  <2>1. /\ Moved(c) /\ pc'[c] = "entity"
        /\ frame'[c].queue = frame[c].queue /\ frame'[c].at = frame[c].at + 1
        /\ frame'[c].org = frame[c].org
    BY SkipEntityMoves DEF TypeInv
  <2>2. frame[c].queue # <<>> /\ frame[c].at \in Nat
    BY EntityOfCall DEF SkipEntity
  <2>3. frame[c].org <= Len(orgs) /\ orgs' = orgs
    BY DEF SkipEntity, TypeInv, CallShape, orgRows
  <2>4. QED
    BY <2>1, <2>2, <2>3 DEF CallShape, Settling, Provisioning, Closing
<1>3. QED
  BY <1>1, <1>2, TypesAfter

\* MatchOrder takes up the order the entity pays, at the same entity.
LEMMA MatchOrderMoves ==
    ASSUME TypeInv, NEW c \in Calls, MatchOrder(c)
    PROVE  LET p == payload[EventOf(c)][frame[c].at]
           IN  /\ Moved(c) /\ pc'[c] = "record"
               /\ p \in Payments /\ paidTo[p] \in Orders
               /\ frame'[c].order = paidTo[p] /\ frame'[c].seen = status[paidTo[p]]
               /\ frame'[c].payment = p
               /\ frame'[c].queue = frame[c].queue /\ frame'[c].at = frame[c].at
               /\ frame'[c].org = frame[c].org
               /\ overlapped' = IF WorkingOn(paidTo[p]) = {} THEN overlapped
                                ELSE overlapped \cup {paidTo[p]}
<1> DEFINE p == payload[EventOf(c)][frame[c].at]
           f == [frame[c] EXCEPT !.payment = p]
<1>1. frame[c] \in Frame /\ p \in Payments /\ paidTo[p] \in Orders
  BY EntityOfCall DEF MatchOrder
<1>2. TakeUp(c, paidTo[p], f, "record")
  BY DEF MatchOrder
<1> HIDE DEF p
<1>3. /\ f \in Frame /\ f.payment = p /\ f.queue = frame[c].queue
      /\ f.at = frame[c].at /\ f.org = frame[c].org
  BY <1>1 DEF Frame
<1> HIDE DEF f
<1>4. /\ Moved(c) /\ pc'[c] = "record"
      /\ frame'[c].order = paidTo[p] /\ frame'[c].seen = status[paidTo[p]]
      /\ frame'[c].queue = f.queue /\ frame'[c].at = f.at
      /\ frame'[c].payment = f.payment /\ frame'[c].org = f.org
  BY <1>1, <1>2, <1>3, TakeUpMoves DEF TypeInv, Labels, Settling
<1>5. overlapped' = IF WorkingOn(paidTo[p]) = {} THEN overlapped
                    ELSE overlapped \cup {paidTo[p]}
  BY <1>2 DEF TakeUp
<1>6. QED
  BY <1>1, <1>3, <1>4, <1>5 DEF p

LEMMA MatchOrderTypes ==
    ASSUME TypeInv, NEW c \in Calls, MatchOrder(c)
    PROVE  TypeInv'
<1>1. overlapped' \subseteq Orders
  BY MatchOrderMoves DEF TypeInv, OrderTypes
<1>2. RowsTyped' /\ Len(orgs) <= Len(orgs')
  BY <1>1, RowsStay DEF MatchOrder, eventRows
<1>3. Moved(c) /\ CallShape(c)'
  <2>1. frame[c].queue # <<>> /\ frame[c].at \in Nat \ {0}
    BY EntityOfCall DEF MatchOrder
  <2>2. frame[c].org <= Len(orgs) /\ orgs' = orgs
    BY DEF MatchOrder, TypeInv, CallShape, orgRows
  <2>3. /\ Moved(c) /\ pc'[c] = "record" /\ frame'[c].order \in Orders
        /\ frame'[c].queue = frame[c].queue /\ frame'[c].at = frame[c].at
        /\ frame'[c].org = frame[c].org
    BY MatchOrderMoves
  <2>4. QED
    BY <2>1, <2>2, <2>3 DEF CallShape, Settling, Provisioning, Closing
<1>4. QED
  BY <1>2, <1>3, TypesAfter

LEMMA EntitiesDoneTypes ==
    ASSUME TypeInv, NEW c \in Calls, EntitiesDone(c)
    PROVE  TypeInv'
<1>1. RowsTyped' /\ Len(orgs) <= Len(orgs')
  BY RowsStay DEF EntitiesDone, history, eventRows, TypeInv, OrderTypes
<1>2. Moved(c) /\ CallShape(c)'
  BY GotoMoves DEF EntitiesDone, TypeInv, CallShape, orgRows, Labels, Settling,
     Provisioning, Closing
<1>3. QED
  BY <1>1, <1>2, TypesAfter

LEMMA CloseEventTypes ==
    ASSUME TypeInv, NEW c \in Calls, CloseEvent(c)
    PROVE  TypeInv'
<1>1. RowsTyped' /\ Len(orgs) <= Len(orgs')
  <2>1. Len(orgs) \in Nat
    BY LenProperties DEF TypeInv, OrgTypes
  <2>2. EventTypes'
    BY DEF CloseEvent, TypeInv, EventTypes, EventStatus, Outcome, money, history
  <2>3. QED
    BY <2>1, <2>2 DEF CloseEvent, RowsTyped, TypeInv, OrderTypes, OrgTypes,
       EntitiesBooked, orderRows, orgRows, money, history
<1>2. frame[c].queue # <<>>
  BY DEF CloseEvent, TypeInv, CallShape, Closing
<1>3. Moved(c) /\ CallShape(c)'
  <2>1. orgs' = orgs /\ Len(orgs) \in Nat
    BY LenProperties DEF CloseEvent, orgRows, TypeInv, OrgTypes
  <2>2. /\ Moved(c)
        /\ pc'[c] = IF Tail(frame[c].queue) = <<>> THEN "idle" ELSE "mark"
        /\ frame'[c].queue = Tail(frame[c].queue) /\ frame'[c].org = 0
    BY <1>2, CloseEventMoves DEF TypeInv
  <2>3. QED
    BY <2>1, <2>2 DEF CallShape, Settling, Provisioning, Closing
<1>4. QED
  BY <1>1, <1>3, TypesAfter

\* The operator's call begins with an empty queue.
LEMMA LoadChargeableMoves ==
    ASSUME TypeInv, NEW c \in Calls, NEW o \in Orders, NEW card \in BOOLEAN,
           LoadChargeable(c, o, card)
    PROVE  /\ Moved(c) /\ pc'[c] = IF card THEN "charge" ELSE "book"
           /\ frame'[c].order = o /\ frame'[c].seen = status[o]
           /\ frame'[c].card = card /\ frame'[c].payment = None
           /\ frame'[c].queue = <<>> /\ frame'[c].org = 0
           /\ overlapped' = IF WorkingOn(o) = {} THEN overlapped
                            ELSE overlapped \cup {o}
<1> DEFINE f == [NoFrame EXCEPT !.card = card]
           l == IF card THEN "charge" ELSE "book"
<1>1. TakeUp(c, o, f, l)
  BY DEF LoadChargeable
<1>2. /\ f \in Frame /\ f.card = card /\ f.payment = None /\ f.queue = <<>>
      /\ f.org = 0
  <2>1. f \in Frame /\ f.card = card
    BY NoFrameIsFrame DEF Frame
  <2>2. f.payment = None /\ f.queue = <<>> /\ f.org = 0
    BY DEF NoFrame
  <2>3. QED
    BY <2>1, <2>2
<1>3. l \in Labels
  BY DEF Labels, Settling
<1> HIDE DEF f, l
<1>4. /\ Moved(c) /\ pc'[c] = l
      /\ frame'[c].order = o /\ frame'[c].seen = status[o]
      /\ frame'[c].queue = f.queue /\ frame'[c].card = f.card
      /\ frame'[c].payment = f.payment /\ frame'[c].org = f.org
  BY <1>1, <1>2, <1>3, TakeUpMoves DEF TypeInv
<1>5. overlapped' = IF WorkingOn(o) = {} THEN overlapped ELSE overlapped \cup {o}
  BY <1>1 DEF TakeUp
<1>6. QED
  BY <1>2, <1>4, <1>5 DEF l

LEMMA LoadChargeableTypes ==
    ASSUME TypeInv, NEW c \in Calls, NEW o \in Orders, NEW card \in BOOLEAN,
           LoadChargeable(c, o, card)
    PROVE  TypeInv'
<1>1. overlapped' \subseteq Orders
  <2>1. overlapped \subseteq Orders
    BY DEF TypeInv, OrderTypes
  <2>2. QED
    BY <2>1, LoadChargeableMoves
<1>2. RowsTyped' /\ Len(orgs) <= Len(orgs')
  BY <1>1, RowsStay DEF LoadChargeable, eventRows
<1>3. Moved(c) /\ CallShape(c)'
  <2>1. orgs' = orgs /\ Len(orgs) \in Nat
    BY LenProperties DEF LoadChargeable, orgRows, TypeInv, OrgTypes
  <2>2. /\ Moved(c) /\ pc'[c] \in {"charge", "book"}
        /\ frame'[c].order = o /\ frame'[c].queue = <<>> /\ frame'[c].org = 0
    BY LoadChargeableMoves
  <2>3. QED
    BY <2>1, <2>2 DEF CallShape, Settling, Provisioning, Closing
<1>4. QED
  BY <1>2, <1>3, TypesAfter

LEMMA ChargeSucceedsTypes ==
    ASSUME TypeInv, NEW c \in Calls, ChargeSucceeds(c)
    PROVE  TypeInv'
<1>1. RowsTyped' /\ Len(orgs) <= Len(orgs')
  <2>1. Len(orgs) \in Nat
    BY LenProperties DEF TypeInv, OrgTypes
  <2>2. frame[c].order \in Orders
    BY DEF ChargeSucceeds, TypeInv, CallShape, Settling
  <2>3. OrderTypes'
    BY <2>2 DEF ChargeSucceeds, TypeInv, OrderTypes, orderRows, orgRows, history
  <2>4. QED
    BY <2>1, <2>3 DEF ChargeSucceeds, RowsTyped, TypeInv, OrgTypes, EventTypes,
       EntitiesBooked, orderRows, orgRows, eventRows, history
<1>2. Moved(c) /\ CallShape(c)'
  BY GotoMoves DEF ChargeSucceeds, TypeInv, CallShape, orgRows, Labels, Settling,
     Provisioning, Closing
<1>3. QED
  BY <1>1, <1>2, TypesAfter

\* A call that returned has the shape of an idle one.
LEMMA IdleShape ==
    ASSUME TypeInv, NEW c \in Calls, Return(c), Len(orgs') \in Nat
    PROVE  Moved(c) /\ CallShape(c)'
<1>1. Moved(c) /\ pc'[c] = "idle" /\ frame'[c].org = 0
  BY ReturnMoves DEF TypeInv, NoFrame
<1>2. QED
  BY <1>1 DEF CallShape, Settling, Provisioning, Closing

LEMMA FailedShape ==
    ASSUME TypeInv, NEW c \in Calls, NotProvisioned(c), Len(orgs') \in Nat
    PROVE  Moved(c) /\ CallShape(c)'
<1>1. /\ Moved(c)
      /\ pc'[c] = IF frame[c].queue = <<>> THEN "idle" ELSE "failed"
      /\ frame'[c].queue = frame[c].queue /\ frame'[c].org = 0
  BY NotProvisionedMoves DEF TypeInv
<1>2. QED
  BY <1>1 DEF CallShape, Settling, Provisioning, Closing

LEMMA ProvisionedShape ==
    ASSUME TypeInv, NEW c \in Calls, Provisioned(c), Len(orgs') \in Nat
    PROVE  Moved(c) /\ CallShape(c)'
<1>1. /\ Moved(c)
      /\ pc'[c] = IF frame[c].queue = <<>> THEN "idle" ELSE "entity"
      /\ frame'[c].queue = frame[c].queue /\ frame'[c].org = 0
      /\ frame[c].queue # <<>> => frame'[c].at = frame[c].at + 1
      /\ frame[c].at \in Nat
  BY ProvisionedMoves DEF TypeInv, CallTypes, Frame
<1>2. QED
  BY <1>1 DEF CallShape, Settling, Provisioning, Closing

LEMMA ChargeDeclinedTypes ==
    ASSUME TypeInv, NEW c \in Calls, ChargeDeclined(c)
    PROVE  TypeInv'
<1>1. RowsTyped' /\ Len(orgs) <= Len(orgs') /\ Len(orgs') \in Nat
  BY RowsStay, LenProperties
     DEF ChargeDeclined, history, eventRows, TypeInv, OrderTypes, RowsTyped, OrgTypes
<1>2. QED
  BY <1>1, IdleShape, TypesAfter DEF ChargeDeclined

LEMMA BookTypes ==
    ASSUME TypeInv, NEW c \in Calls, NEW p \in Payments, Book(c, p)
    PROVE  TypeInv'
<1>1. frame[c].order \in Orders /\ frame[c].queue = <<>>
  BY DEF Book, TypeInv, CallShape, Settling
<1>2. EventTypes' /\ EntitiesBooked'
  BY <1>1, NoneAssumption DEF Book, TypeInv, EventTypes, EntitiesBooked, eventRows, history
<1>3. Len(orgs) \in Nat
  BY LenProperties DEF TypeInv, OrgTypes
<1>4. RowsTyped' /\ Len(orgs) <= Len(orgs')
  BY <1>2, <1>3 DEF Book, RowsTyped, TypeInv, OrderTypes, OrgTypes, orderRows, orgRows, history
<1>5. Moved(c) /\ CallShape(c)'
  <2>1. /\ Moved(c) /\ pc'[c] = "record"
        /\ frame'[c].order = frame[c].order /\ frame'[c].queue = frame[c].queue
        /\ frame'[c].org = frame[c].org
    BY BookMoves DEF TypeInv
  <2>2. frame[c].org <= Len(orgs) /\ orgs' = orgs
    BY DEF Book, TypeInv, CallShape, orgRows
  <2>3. QED
    BY <1>1, <2>1, <2>2 DEF CallShape, Settling, Provisioning, Closing
<1>6. QED
  BY <1>4, <1>5, TypesAfter

\* A payment the books refused: the call returns, or settles a charge.
LEMMA BookRejectedMoves ==
    ASSUME CallTypes, NEW c \in Calls, BookRejected(c)
    PROVE  \/ ~frame[c].card /\ Return(c)
           \/ /\ frame[c].card
              /\ Moved(c) /\ pc'[c] = "record" /\ frame'[c] = frame[c]
BY GotoMoves DEF BookRejected, Labels, Settling

LEMMA BookRejectedTypes ==
    ASSUME TypeInv, NEW c \in Calls, BookRejected(c)
    PROVE  TypeInv'
<1>1. RowsTyped' /\ Len(orgs) <= Len(orgs') /\ Len(orgs') \in Nat
  BY RowsStay, LenProperties
     DEF BookRejected, history, eventRows, TypeInv, OrderTypes, RowsTyped, OrgTypes
<1>2. CASE Return(c)
  BY <1>1, <1>2, IdleShape, TypesAfter
<1>3. CASE Moved(c) /\ pc'[c] = "record" /\ frame'[c] = frame[c]
  <2>1. CallShape(c)'
    BY <1>3 DEF BookRejected, TypeInv, CallShape, orgRows, Settling, Provisioning, Closing
  <2>2. QED
    BY <1>1, <1>3, <2>1, TypesAfter
<1>4. QED
  BY <1>2, <1>3, BookRejectedMoves DEF TypeInv

LEMMA RecordPaymentTypes ==
    ASSUME TypeInv, NEW c \in Calls, RecordPayment(c)
    PROVE  TypeInv'
<1>1. frame[c].order \in Orders /\ frame[c].payment \in Payments \cup {None}
  BY DEF RecordPayment, TypeInv, CallTypes, Frame, CallShape, Settling
<1>2. Len(orgs) \in Nat
  BY LenProperties DEF TypeInv, OrgTypes
<1>3. OrderTypes'
  BY <1>1 DEF RecordPayment, UnbookedAfter, TypeInv, OrderTypes, orderRows, orgRows, history
<1>4. RowsTyped' /\ Len(orgs) <= Len(orgs')
  BY <1>2, <1>3 DEF RecordPayment, RowsTyped, TypeInv, OrgTypes, EventTypes,
     EntitiesBooked, orderRows, orgRows, eventRows, history
<1>5. Moved(c) /\ CallShape(c)'
  BY GotoMoves DEF RecordPayment, TypeInv, CallShape, orgRows, Labels, Settling,
     Provisioning, Closing
<1>6. QED
  BY <1>4, <1>5, TypesAfter

LEMMA SettleTypes ==
    ASSUME TypeInv, NEW c \in Calls, Settle(c)
    PROVE  TypeInv'
<1>1. /\ frame[c].order \in Orders
      /\ frame[c].queue # <<>> => frame[c].at > 0
  BY DEF Settle, TypeInv, CallShape, Settling
<1>2. Len(orgs) \in Nat
  BY LenProperties DEF TypeInv, OrgTypes
<1>3. OrderTypes'
  BY <1>1 DEF Settle, TypeInv, OrderTypes, OrderStatus, orgRows, money, history
<1>4. RowsTyped' /\ Len(orgs) <= Len(orgs')
  BY <1>2, <1>3 DEF Settle, RowsTyped, TypeInv, OrgTypes, EventTypes,
     EntitiesBooked, orgRows, money, eventRows, history
<1>5. Moved(c) /\ CallShape(c)'
  <2>1. /\ Moved(c) /\ pc'[c] = "provision"
        /\ frame'[c].order = frame[c].order
        /\ frame'[c].queue = frame[c].queue /\ frame'[c].at = frame[c].at
        /\ frame'[c].org = 0
    BY SettleMoves DEF TypeInv
  <2>2. QED
    BY <1>1, <1>2, <2>1 DEF Settle, orgRows, CallShape, Settling, Provisioning, Closing
<1>6. QED
  BY <1>4, <1>5, TypesAfter

LEMMA LoadOrderTypes ==
    ASSUME TypeInv, NEW c \in Calls, LoadOrder(c)
    PROVE  TypeInv'
<1>1. RowsTyped' /\ Len(orgs) <= Len(orgs') /\ Len(orgs') \in Nat
  BY RowsStay, LenProperties
     DEF LoadOrder, history, eventRows, TypeInv, OrderTypes, RowsTyped, OrgTypes
<1>2. CASE Provisioned(c)
  BY <1>1, <1>2, ProvisionedShape, TypesAfter
<1>3. CASE NotProvisioned(c)
  BY <1>1, <1>3, FailedShape, TypesAfter
<1>4. CASE Goto(c, "resolve") /\ UNCHANGED frame
  <2>1. Moved(c) /\ pc'[c] = "resolve" /\ frame'[c] = frame[c]
    BY <1>4, GotoMoves DEF TypeInv, Labels, Settling, Provisioning
  <2>2. CallShape(c)'
    BY <2>1 DEF LoadOrder, TypeInv, CallShape, orgRows, Settling, Provisioning, Closing
  <2>3. QED
    BY <1>1, <2>1, <2>2, TypesAfter
<1>5. QED
  BY <1>2, <1>3, <1>4 DEF LoadOrder

LEMMA ResolveOrgTypes ==
    ASSUME TypeInv, NEW c \in Calls, ResolveOrg(c)
    PROVE  TypeInv'
<1>1. /\ frame[c].order \in Orders
      /\ frame[c].queue # <<>> => frame[c].at > 0
  BY DEF ResolveOrg, TypeInv, CallShape, Settling, Provisioning
<1>2. RowsTyped' /\ Len(orgs) <= Len(orgs') /\ Len(orgs') \in Nat /\ orgs' = orgs
  BY RowsStay, LenProperties
     DEF ResolveOrg, eventRows, orgRows, TypeInv, OrderTypes, RowsTyped, OrgTypes
<1>3. Moved(c) /\ CallShape(c)'
  <2> DEFINE g == ExistingOrg(frame[c].order)
  <2>1. /\ Moved(c) /\ pc'[c] = IF g = 0 THEN "slug" ELSE "entitle"
        /\ g \in 0 .. Len(orgs) /\ frame'[c].org = g
        /\ frame'[c].order = frame[c].order
        /\ frame'[c].queue = frame[c].queue /\ frame'[c].at = frame[c].at
    BY <1>1, ResolveOrgMoves DEF TypeInv
  <2> HIDE DEF g
  <2>2. QED
    BY <1>1, <1>2, <2>1 DEF CallShape, Settling, Provisioning, Closing
<1>4. QED
  BY <1>2, <1>3, TypesAfter

LEMMA PickSlugTypes ==
    ASSUME TypeInv, NEW c \in Calls, PickSlug(c)
    PROVE  TypeInv'
<1>1. /\ frame[c].order \in Orders
      /\ frame[c].queue # <<>> => frame[c].at > 0
      /\ frame[c].org <= Len(orgs)
  BY DEF PickSlug, TypeInv, CallShape, Settling, Provisioning
<1>2. RowsTyped' /\ Len(orgs) <= Len(orgs') /\ orgs' = orgs
  BY RowsStay DEF PickSlug, eventRows, orgRows, history, TypeInv, OrderTypes
<1>3. Moved(c) /\ CallShape(c)'
  <2>1. /\ Moved(c) /\ pc'[c] = "create_org"
        /\ frame'[c].order = frame[c].order /\ frame'[c].org = frame[c].org
        /\ frame'[c].queue = frame[c].queue /\ frame'[c].at = frame[c].at
    BY PickSlugMoves DEF TypeInv
  <2>2. QED
    BY <1>1, <1>2, <2>1 DEF CallShape, Settling, Provisioning, Closing
<1>4. QED
  BY <1>2, <1>3, TypesAfter

LEMMA CreateOrgTypes ==
    ASSUME TypeInv, NEW c \in Calls, CreateOrg(c)
    PROVE  TypeInv'
<1> DEFINE row == Founded(frame[c].order, frame[c].slug)
<1>1. /\ frame[c].order \in Orders
      /\ frame[c].queue # <<>> => frame[c].at > 0
  BY DEF CreateOrg, TypeInv, CallShape, Settling, Provisioning
<1>2. Len(orgs) \in Nat
  BY LenProperties DEF TypeInv, OrgTypes
<1>3. CASE UNCHANGED orgs /\ NotProvisioned(c)
  <2>1. RowsTyped' /\ Len(orgs) <= Len(orgs')
    BY <1>3, RowsStay DEF CreateOrg, orgRows, eventRows, history, TypeInv, OrderTypes
  <2>2. QED
    BY <1>2, <1>3, <2>1, FailedShape, TypesAfter
<1>4. CASE /\ Moved(c) /\ pc'[c] = "entitle"
           /\ frame'[c].order = frame[c].order
           /\ frame'[c].queue = frame[c].queue /\ frame'[c].at = frame[c].at
           /\ frame'[c].org = Len(orgs) + 1
           /\ orgs' = Append(orgs, row) /\ row \in OrgRow
  <2> HIDE DEF row
  <2>1. orgs' \in Seq(OrgRow) /\ Len(orgs') = Len(orgs) + 1
    BY <1>4, AppendProperties DEF TypeInv, OrgTypes
  <2>2. OrgTypes'
    BY <1>2, <2>1 DEF CreateOrg, TypeInv, OrderTypes, OrgTypes, orderRows
  <2>3. RowsTyped' /\ Len(orgs) <= Len(orgs')
    BY <1>2, <2>1, <2>2 DEF CreateOrg, RowsTyped, TypeInv, OrderTypes, EventTypes,
       EntitiesBooked, orderRows, money, eventRows, history
  <2>4. CallShape(c)'
    BY <1>1, <1>2, <1>4, <2>1 DEF CallShape, Settling, Provisioning, Closing
  <2>5. QED
    BY <1>4, <2>3, <2>4, TypesAfter
<1>5. QED
  BY <1>1, <1>3, <1>4, CreateOrgMoves DEF TypeInv

LEMMA EntitleTypes ==
    ASSUME TypeInv, NEW c \in Calls, Entitle(c)
    PROVE  TypeInv'
<1> DEFINE l == IF frame[c].order \in Recurring THEN "subscribe" ELSE "finish"
<1>1. /\ frame[c].order \in Orders /\ frame[c].org \in Nat
      /\ frame[c].queue # <<>> => frame[c].at > 0
      /\ frame[c].org > 0 /\ frame[c].org <= Len(orgs)
  BY DEF Entitle, TypeInv, CallTypes, Frame, CallShape, Settling, Provisioning
<1>2. Len(orgs) \in Nat
  BY LenProperties DEF TypeInv, OrgTypes
<1>3. OrgTypes'
  BY <1>1, <1>2 DEF Entitle, TypeInv, OrgTypes, orderRows
<1>4. RowsTyped' /\ Len(orgs) <= Len(orgs') /\ orgs' = orgs
  BY <1>2, <1>3 DEF Entitle, RowsTyped, TypeInv, OrderTypes, EventTypes,
     EntitiesBooked, orderRows, money, eventRows, history
<1>5. Moved(c) /\ pc'[c] = l /\ frame'[c] = frame[c]
  <2>1. l \in Labels /\ Goto(c, l) /\ UNCHANGED frame
    BY DEF Entitle, Labels, Settling, Provisioning
  <2> HIDE DEF l
  <2>2. QED
    BY <2>1, GotoMoves DEF TypeInv
<1>6. CallShape(c)'
  BY <1>1, <1>4, <1>5 DEF CallShape, Settling, Provisioning, Closing
<1>7. QED
  BY <1>4, <1>5, <1>6, TypesAfter

\* The subscription is made, or there is one already.
LEMMA SubscribeMoves ==
    ASSUME CallTypes, NEW c \in Calls, Subscribe(c)
    PROVE  \/ /\ subscription[frame[c].order] = 0
              /\ subscription' = [subscription EXCEPT ![frame[c].order] = frame[c].org]
              /\ Moved(c) /\ pc'[c] = "finish" /\ frame'[c] = frame[c]
           \/ UNCHANGED subscription /\ NotProvisioned(c)
BY GotoMoves DEF Subscribe, Unsubscribed, Labels, Settling, Provisioning

LEMMA SubscribeTypes ==
    ASSUME TypeInv, NEW c \in Calls, Subscribe(c)
    PROVE  TypeInv'
<1>1. /\ frame[c].order \in Orders /\ frame[c].org \in Nat
      /\ frame[c].org <= Len(orgs)
  BY DEF Subscribe, TypeInv, CallTypes, Frame, CallShape, Settling, Provisioning
<1>2. Len(orgs) \in Nat
  BY LenProperties DEF TypeInv, OrgTypes
<1>3. CASE UNCHANGED subscription /\ NotProvisioned(c)
  <2>1. RowsTyped' /\ Len(orgs) <= Len(orgs') /\ orgs' = orgs
    BY <1>3, RowsStay DEF Subscribe, orgRows, eventRows, history, TypeInv, OrderTypes
  <2>2. QED
    BY <1>2, <1>3, <2>1, FailedShape, TypesAfter
<1>4. CASE /\ subscription' = [subscription EXCEPT ![frame[c].order] = frame[c].org]
           /\ Moved(c) /\ pc'[c] = "finish" /\ frame'[c] = frame[c]
  <2>1. OrderTypes' /\ OrgTypes'
    BY <1>1, <1>2, <1>4 DEF Subscribe, TypeInv, OrderTypes, OrgTypes, orderRows, money, history
  <2>2. RowsTyped' /\ Len(orgs) <= Len(orgs') /\ orgs' = orgs
    BY <1>2, <2>1 DEF Subscribe, RowsTyped, TypeInv, EventTypes,
       EntitiesBooked, money, eventRows, history
  <2>3. CallShape(c)'
    BY <1>4, <2>2 DEF Subscribe, TypeInv, CallShape, Settling, Provisioning, Closing
  <2>4. QED
    BY <1>4, <2>2, <2>3, TypesAfter
<1>5. QED
  BY <1>3, <1>4, SubscribeMoves DEF TypeInv

LEMMA FinishTypes ==
    ASSUME TypeInv, NEW c \in Calls, Finish(c)
    PROVE  TypeInv'
<1>1. /\ frame[c].order \in Orders /\ frame[c].org \in Nat
      /\ frame[c].org <= Len(orgs)
  BY DEF Finish, TypeInv, CallTypes, Frame, CallShape, Settling, Provisioning
<1>2. Len(orgs) \in Nat
  BY LenProperties DEF TypeInv, OrgTypes
<1>3. OrderTypes'
  BY <1>1 DEF Finish, TypeInv, OrderTypes, OrderStatus, orgRows, money
<1>4. OrgTypes'
  BY <1>1, <1>2 DEF Finish, TypeInv, OrderTypes, OrgTypes, orgRows
<1>5. RowsTyped' /\ Len(orgs) <= Len(orgs') /\ orgs' = orgs
  BY <1>2, <1>3, <1>4 DEF Finish, RowsTyped, TypeInv, EventTypes,
     EntitiesBooked, orgRows, money, eventRows
<1>6. CASE Provisioned(c)
  BY <1>2, <1>5, <1>6, ProvisionedShape, TypesAfter
<1>7. CASE NotProvisioned(c)
  BY <1>2, <1>5, <1>7, FailedShape, TypesAfter
<1>8. QED
  BY <1>6, <1>7 DEF Finish

LEMMA ThrowTypes ==
    ASSUME TypeInv, NEW c \in Calls, Throw(c)
    PROVE  TypeInv'
<1>1. RowsTyped' /\ Len(orgs) <= Len(orgs') /\ Len(orgs') \in Nat
  BY RowsStay, LenProperties
     DEF Throw, history, eventRows, TypeInv, OrderTypes, RowsTyped, OrgTypes
<1>2. QED
  BY <1>1, FailedShape, TypesAfter DEF Throw

LEMMA AbandonTypes ==
    ASSUME TypeInv, NEW c \in Calls, Abandon(c)
    PROVE  TypeInv'
<1>1. lost' \subseteq lost \cup Events
  BY EventOfCall DEF Abandon
<1>2. RowsTyped' /\ Len(orgs) <= Len(orgs') /\ Len(orgs') \in Nat
  BY <1>1, RowsStay, LenProperties
     DEF Abandon, eventRows, TypeInv, OrderTypes, RowsTyped, OrgTypes
<1>3. QED
  BY <1>2, IdleShape, TypesAfter DEF Abandon

LEMMA InitTypes == Init => TypeInv
<1> SUFFICES ASSUME Init PROVE TypeInv
  OBVIOUS
<1>1. OrderTypes
  BY DEF Init, OrderTypes, OrderStatus
<1>2. OrgTypes
  BY DEF Init, OrgTypes
<1>3. EventTypes /\ EntitiesBooked
  BY DEF Init, EventTypes, EntitiesBooked
<1>4. CallTypes
  BY NoFrameIsFrame DEF Init, CallTypes, Labels
<1>5. \A c \in Calls : CallShape(c)
  BY DEF Init, CallShape, NoFrame, Settling, Provisioning, Closing
<1>6. QED
  BY <1>1, <1>2, <1>3, <1>4, <1>5 DEF TypeInv

LEMMA StutterTypes == TypeInv /\ UNCHANGED vars => TypeInv'
BY DEF vars, orderRows, orgRows, money, eventRows, history, TypeInv, OrderTypes,
   OrgTypes, EventTypes, CallTypes, EntitiesBooked, CallShape

LEMMA NextTypes == TypeInv /\ [Next]_vars => TypeInv'
<1> SUFFICES ASSUME TypeInv, [Next]_vars PROVE TypeInv'
  OBVIOUS
<1>1. CASE UNCHANGED vars
  BY <1>1, StutterTypes
<1>2. CASE Environment
  BY <1>2, BuyerPaysTypes, DeliverTypes, OrgAppearsTypes DEF Environment
<1>3. ASSUME NEW c \in Calls, Request(c)
      PROVE  TypeInv'
  BY <1>3, HandleInlineTypes, SweepTypes, LoadChargeableTypes DEF Request
<1>4. ASSUME NEW c \in Calls, Handle(c)
      PROVE  TypeInv'
  BY <1>4, MarkProcessingTypes, SkipEntityTypes, MatchOrderTypes, EntitiesDoneTypes,
     CloseEventTypes DEF Handle
<1>5. ASSUME NEW c \in Calls, Pay(c)
      PROVE  TypeInv'
  BY <1>5, ChargeSucceedsTypes, ChargeDeclinedTypes, BookTypes, BookRejectedTypes,
     RecordPaymentTypes, SettleTypes DEF Pay
<1>6. ASSUME NEW c \in Calls, Provision(c)
      PROVE  TypeInv'
  BY <1>6, LoadOrderTypes, ResolveOrgTypes, PickSlugTypes, CreateOrgTypes,
     EntitleTypes, SubscribeTypes, FinishTypes DEF Provision
<1>7. QED
  BY <1>1, <1>2, <1>3, <1>4, <1>5, <1>6, ThrowTypes, AbandonTypes DEF Next, Advance

LEMMA Typed == Spec => []TypeInv
<1>1. Init => TypeInv
  BY InitTypes
<1>2. TypeInv /\ [Next]_vars => TypeInv'
  BY NextTypes
<1>3. QED
  BY <1>1, <1>2, PTL DEF Spec

\* Rows and local variables hold what they should: whatever is matched,
\* picked or searched for is there, and nobody acts on a missing order.
THEOREM OrderTypeCorrect == Spec => []TypeOK
<1>1. TypeInv => TypeOK
  <2> SUFFICES ASSUME TypeInv PROVE TypeOK
    OBVIOUS
  <2>1. /\ Len(orgs) \in Nat /\ DOMAIN orgs = 1 .. Len(orgs)
        /\ \A g \in DOMAIN orgs : orgs[g] \in OrgRow
    BY LenProperties, ElementOfSeq DEF TypeInv, OrgTypes
  <2>2. \A row \in OrgRow : DOMAIN row = {"domain", "cage", "name", "contact", "slug"}
    BY DEF OrgRow, Founded, Foreign
  <2>3. /\ orgOf \in [Orders -> 0 .. Len(orgs)]
        /\ subscription \in [Orders -> 0 .. Len(orgs)]
        /\ entitled \subseteq (DOMAIN orgs) \X Orders
    BY <2>1 DEF TypeInv, OrderTypes, OrgTypes
  <2>4. \A c \in Calls : /\ frame[c].queue \in Seq(Events)
                         /\ pc[c] \in Settling => frame[c].order \in Orders
                         /\ frame[c].org \in 0 .. Len(orgs)
    BY <2>1 DEF TypeInv, CallTypes, CallShape, Frame
  <2>5. QED
    BY <2>1, <2>2, <2>3, <2>4
       DEF TypeInv, OrderTypes, EventTypes, CallTypes, Labels, Closing, TypeOK
<1>2. QED
  BY <1>1, Typed, PTL

-----------------------------------------------------------------------------
(***************************************************************************)
(* The steps, summed up: rows only grow, and a call that settles an order  *)
(* either keeps it on the way from the charge to the finish or leaves it.  *)
(***************************************************************************)

\* No statement takes back a payment, a row or a delivery.
Grows ==
    /\ \A p \in Payments : paidTo[p] # None => paidTo'[p] = paidTo[p]
    /\ \A o \in Orders : charged[o] > 0 => charged'[o] > 0
    /\ \A o \in Orders : provisionings[o] > 0 => provisionings'[o] > 0
    /\ recorded \subseteq recorded' /\ unbooked \subseteq unbooked'
    /\ entitled \subseteq entitled'
    /\ \A e \in Events : evStatus[e] # "absent"
                            => evStatus'[e] # "absent" /\ payload'[e] = payload[e]

CallStep(c) == Request(c) \/ Advance(c) \/ Abandon(c)

LEMMA RowsGrow ==
    ASSUME TypeInv, Next
    PROVE  Grows
<1>1. CASE Environment
  <2>1. ASSUME NEW o \in Orders, NEW p \in Payments, BuyerPays(o, p)
        PROVE  Grows
    BY <2>1 DEF BuyerPays, TypeInv, EventTypes, Grows, orgRows, eventRows, history
  <2>2. ASSUME NEW e \in Events, NEW entities \in Deliveries, Deliver(e, entities)
        PROVE  Grows
    BY <2>2 DEF Deliver, TypeInv, EventTypes, Grows, orgRows, money, history
  <2>3. ASSUME NEW o \in Orders, OrgAppears(OrgName(o))
        PROVE  Grows
    BY <2>3 DEF OrgAppears, Grows, money, eventRows, history
  <2>4. QED
    BY <1>1, <2>1, <2>2, <2>3 DEF Environment
<1>2. ASSUME NEW c \in Calls, Request(c)
      PROVE  Grows
  BY <1>2 DEF Request, HandleInline, Sweep, LoadChargeable, Grows, orgRows, money,
     eventRows, history
<1>3. ASSUME NEW c \in Calls, Handle(c)
      PROVE  Grows
  <2>1. CASE MarkProcessing(c)
    BY <2>1 DEF MarkProcessing, TypeInv, EventTypes, Grows, orgRows, money, history
  <2>2. CASE CloseEvent(c)
    BY <2>2 DEF CloseEvent, Outcome, TypeInv, EventTypes, Grows, orgRows, money, history
  <2>3. CASE SkipEntity(c) \/ MatchOrder(c) \/ EntitiesDone(c)
    BY <2>3 DEF SkipEntity, MatchOrder, EntitiesDone, Grows, orgRows, money,
       eventRows, history
  <2>4. QED
    BY <1>3, <2>1, <2>2, <2>3 DEF Handle
<1>4. ASSUME NEW c \in Calls, Pay(c)
      PROVE  Grows
  <2>1. CASE ChargeSucceeds(c)
    BY <2>1 DEF ChargeSucceeds, TypeInv, OrderTypes, Grows, orgRows, eventRows, history
  <2>2. ASSUME NEW p \in Payments, Book(c, p)
        PROVE  Grows
    BY <2>2 DEF Book, TypeInv, EventTypes, Grows, orgRows, eventRows, history
  <2>3. CASE RecordPayment(c)
    BY <2>3 DEF RecordPayment, UnbookedAfter, Grows, orgRows, eventRows, history
  <2>4. CASE ChargeDeclined(c) \/ BookRejected(c) \/ Settle(c)
    BY <2>4 DEF ChargeDeclined, BookRejected, Settle, Grows, orgRows, money,
       eventRows, history
  <2>5. QED
    BY <1>4, <2>1, <2>2, <2>3, <2>4 DEF Pay
<1>5. ASSUME NEW c \in Calls, Provision(c)
      PROVE  Grows
  <2>1. CASE Entitle(c)
    BY <2>1 DEF Entitle, Grows, money, eventRows, history
  <2>2. CASE Finish(c)
    BY <2>2 DEF Finish, TypeInv, OrderTypes, Grows, orgRows, money, eventRows
  <2>3. CASE LoadOrder(c) \/ ResolveOrg(c) \/ PickSlug(c)
    BY <2>3 DEF LoadOrder, ResolveOrg, PickSlug, Grows, orgRows, money, eventRows, history
  <2>4. CASE CreateOrg(c) \/ Subscribe(c)
    BY <2>4 DEF CreateOrg, Subscribe, Grows, money, eventRows, history
  <2>5. QED
    BY <1>5, <2>1, <2>2, <2>3, <2>4 DEF Provision
<1>6. ASSUME NEW c \in Calls, Throw(c) \/ Abandon(c)
      PROVE  Grows
  BY <1>6 DEF Throw, Abandon, Grows, orgRows, money, eventRows, history
<1>7. QED
  BY <1>1, <1>2, <1>3, <1>4, <1>5, <1>6 DEF Next, Advance

\* One statement after the other, with the same order for the same entity.
Carries(c) ==
    /\ frame'[c].order = frame[c].order
    /\ frame'[c].queue = frame[c].queue /\ frame'[c].at = frame[c].at
    /\ \/ ChargeSucceeds(c) /\ pc'[c] = "book" /\ frame'[c] = frame[c]
       \/ /\ \E p \in Payments : Book(c, p) /\ frame'[c].payment = p
          /\ pc'[c] = "record" /\ frame'[c].seen = frame[c].seen
       \/ BookRejected(c) /\ frame[c].card /\ pc'[c] = "record" /\ frame'[c] = frame[c]
       \/ RecordPayment(c) /\ pc'[c] = "settle" /\ frame'[c] = frame[c]
       \/ Settle(c) /\ pc'[c] = "provision"
       \/ /\ LoadOrder(c) /\ Verdict(frame[c].order) = "resolve"
          /\ pc'[c] = "resolve"
       \/ /\ ResolveOrg(c) /\ frame'[c].org = ExistingOrg(frame[c].order)
          /\ pc'[c] = IF frame'[c].org = 0 THEN "slug" ELSE "entitle"
       \/ PickSlug(c) /\ pc'[c] = "create_org"
       \/ /\ CreateOrg(c) /\ pc'[c] = "entitle"
          /\ orgs' = Append(orgs, Founded(frame[c].order, frame[c].slug))
       \/ /\ Entitle(c) /\ frame'[c] = frame[c]
          /\ pc'[c] = IF frame[c].order \in Recurring THEN "subscribe" ELSE "finish"
       \/ /\ Subscribe(c) /\ frame'[c] = frame[c] /\ pc'[c] = "finish"
          /\ subscription[frame[c].order] = 0
          /\ subscription' = [subscription EXCEPT ![frame[c].order] = frame[c].org]

\* It is done with the order, or it had none.
Leaves(c) == pc'[c] \in Labels \ Settling

LEMMA HandlersStep ==
    ASSUME TypeInv, NEW c \in Calls, Handle(c)
    PROVE  Moved(c) /\ (Leaves(c) \/ MatchOrder(c))
<1>1. CASE MarkProcessing(c)
  BY <1>1, MarkProcessingMoves DEF TypeInv, Leaves, Labels, Closing, Settling, Provisioning
<1>2. CASE SkipEntity(c)
  BY <1>2, SkipEntityMoves DEF TypeInv, Leaves, Labels, Settling, Provisioning
<1>3. CASE EntitiesDone(c)
  BY <1>3, GotoMoves
     DEF EntitiesDone, TypeInv, Leaves, Labels, Closing, Settling, Provisioning
<1>4. CASE CloseEvent(c)
  <2>1. frame[c].queue # <<>>
    BY <1>4 DEF CloseEvent, TypeInv, CallShape, Closing
  <2>2. QED
    BY <1>4, <2>1, CloseEventMoves DEF TypeInv, Leaves, Labels, Settling, Provisioning
<1>5. CASE MatchOrder(c)
  BY <1>5, MatchOrderMoves
<1>6. QED
  BY <1>1, <1>2, <1>3, <1>4, <1>5 DEF Handle

LEMMA ReturnLeaves ==
    ASSUME TypeInv, NEW c \in Calls, Return(c)
    PROVE  Moved(c) /\ Leaves(c)
BY ReturnMoves DEF TypeInv, Leaves, Labels, Settling, Provisioning

LEMMA NotProvisionedLeaves ==
    ASSUME TypeInv, NEW c \in Calls, NotProvisioned(c)
    PROVE  Moved(c) /\ Leaves(c)
BY NotProvisionedMoves DEF TypeInv, Leaves, Labels, Closing, Settling, Provisioning

LEMMA ProvisionedLeaves ==
    ASSUME TypeInv, NEW c \in Calls, Provisioned(c)
    PROVE  Moved(c) /\ Leaves(c)
BY ProvisionedMoves DEF TypeInv, Leaves, Labels, Settling, Provisioning

LEMMA PaymentsStep ==
    ASSUME TypeInv, NEW c \in Calls, Pay(c)
    PROVE  Moved(c) /\ (Leaves(c) \/ Carries(c))
<1>1. CASE ChargeSucceeds(c)
  <2>1. Moved(c) /\ pc'[c] = "book" /\ frame'[c] = frame[c]
    BY <1>1, GotoMoves DEF ChargeSucceeds, TypeInv, Labels, Settling
  <2>2. QED
    BY <1>1, <2>1 DEF Carries
<1>2. CASE ChargeDeclined(c)
  BY <1>2, ReturnLeaves DEF ChargeDeclined
<1>3. ASSUME NEW p \in Payments, Book(c, p)
      PROVE  Moved(c) /\ Carries(c)
  BY <1>3, BookMoves DEF TypeInv, Carries
<1>4. CASE BookRejected(c)
  BY <1>4, BookRejectedMoves, ReturnLeaves DEF TypeInv, Carries
<1>5. CASE RecordPayment(c)
  <2>1. Moved(c) /\ pc'[c] = "settle" /\ frame'[c] = frame[c]
    BY <1>5, GotoMoves DEF RecordPayment, TypeInv, Labels, Settling
  <2>2. QED
    BY <1>5, <2>1 DEF Carries
<1>6. CASE Settle(c)
  BY <1>6, SettleMoves DEF TypeInv, Carries
<1>7. QED
  BY <1>1, <1>2, <1>3, <1>4, <1>5, <1>6 DEF Pay

LEMMA ProvisioningsStep ==
    ASSUME TypeInv, NEW c \in Calls, Provision(c)
    PROVE  Moved(c) /\ (Leaves(c) \/ Carries(c))
<1>1. CASE LoadOrder(c)
  <2>1. CASE Verdict(frame[c].order) = "resolve" /\ Goto(c, "resolve") /\ UNCHANGED frame
    <3>1. Moved(c) /\ pc'[c] = "resolve" /\ frame'[c] = frame[c]
      BY <2>1, GotoMoves DEF TypeInv, Labels, Settling, Provisioning
    <3>2. QED
      BY <1>1, <2>1, <3>1 DEF Carries
  <2>2. QED
    BY <1>1, <2>1, ProvisionedLeaves, NotProvisionedLeaves DEF LoadOrder
<1>2. CASE ResolveOrg(c)
  <2>1. frame[c].order \in Orders
    BY <1>2 DEF ResolveOrg, TypeInv, CallShape, Settling, Provisioning
  <2>2. QED
    BY <1>2, <2>1, ResolveOrgMoves DEF TypeInv, Carries
<1>3. CASE PickSlug(c)
  BY <1>3, PickSlugMoves DEF TypeInv, Carries
<1>4. CASE CreateOrg(c)
  <2>1. frame[c].order \in Orders
    BY <1>4 DEF CreateOrg, TypeInv, CallShape, Settling, Provisioning
  <2>2. QED
    BY <1>4, <2>1, CreateOrgMoves, NotProvisionedLeaves DEF TypeInv, Carries
<1>5. CASE Entitle(c)
  <2> DEFINE l == IF frame[c].order \in Recurring THEN "subscribe" ELSE "finish"
  <2>1. l \in Labels /\ Goto(c, l) /\ UNCHANGED frame
    BY <1>5 DEF Entitle, Labels, Settling, Provisioning
  <2> HIDE DEF l
  <2>2. Moved(c) /\ pc'[c] = l /\ frame'[c] = frame[c]
    BY <2>1, GotoMoves DEF TypeInv
  <2>3. QED
    BY <1>5, <2>2 DEF l, Carries
<1>6. CASE Subscribe(c)
  BY <1>6, SubscribeMoves, NotProvisionedLeaves DEF TypeInv, Carries
<1>7. CASE Finish(c)
  BY <1>7, ProvisionedLeaves, NotProvisionedLeaves DEF Finish
<1>8. QED
  BY <1>1, <1>2, <1>3, <1>4, <1>5, <1>6, <1>7 DEF Provision

\* The kinds of steps a call takes.
LEMMA StepKinds ==
    ASSUME TypeInv, NEW c \in Calls, CallStep(c)
    PROVE  /\ Moved(c)
           /\ \/ Leaves(c) \/ Carries(c) \/ MatchOrder(c)
              \/ \E o \in Orders, card \in BOOLEAN : LoadChargeable(c, o, card)
<1>1. CASE Request(c)
  <2>1. ASSUME NEW e \in Events, HandleInline(c, e)
        PROVE  Moved(c) /\ Leaves(c)
    BY <2>1, HandleInlineMoves DEF TypeInv, Leaves, Labels, Settling, Provisioning
  <2>2. CASE Sweep(c)
    BY <2>2, SweepMoves DEF TypeInv, Leaves, Labels, Settling, Provisioning
  <2>3. QED
    BY <1>1, <2>1, <2>2, LoadChargeableMoves DEF Request
<1>2. CASE Handle(c)
  BY <1>2, HandlersStep
<1>3. CASE Pay(c)
  BY <1>3, PaymentsStep
<1>4. CASE Provision(c)
  BY <1>4, ProvisioningsStep
<1>5. CASE Throw(c)
  BY <1>5, NotProvisionedLeaves DEF Throw
<1>6. CASE Abandon(c)
  BY <1>6, ReturnLeaves DEF Abandon
<1>7. QED
  BY <1>1, <1>2, <1>3, <1>4, <1>5, <1>6 DEF CallStep, Advance

-----------------------------------------------------------------------------
(***************************************************************************)
(* Only the paid are provisioned.                                          *)
(***************************************************************************)

LEMMA PaidStays ==
    ASSUME TypeInv, Grows, NEW o \in Orders, PaidFor(o)
    PROVE  PaidFor(o)'
BY NoneAssumption DEF Grows, PaidFor

LEMMA OwnPaid ==
    ASSUME TypeInv, PaidInv, Grows, NEW c \in Calls, CallStep(c)
    PROVE  CallPaid(c)'
<1> USE DEF Settling, Provisioning
<1>1. Moved(c) /\ CallTypes
  BY StepKinds DEF TypeInv
<1>2. CASE Leaves(c)
  BY <1>2 DEF Leaves, CallPaid
<1>3. CASE MatchOrder(c)
  <2> DEFINE p == payload[EventOf(c)][frame[c].at]
  <2>1. /\ pc'[c] = "record" /\ frame'[c].order = paidTo[p]
        /\ p \in Payments /\ paidTo' = paidTo
    BY <1>3, MatchOrderMoves DEF MatchOrder, money
  <2> HIDE DEF p
  <2>2. QED
    BY <2>1 DEF CallPaid, PaidFor
<1>4. ASSUME NEW o \in Orders, NEW card \in BOOLEAN, LoadChargeable(c, o, card)
      PROVE  CallPaid(c)'
  <2>1. pc'[c] = (IF card THEN "charge" ELSE "book") /\ frame'[c].card = card
    BY <1>4, LoadChargeableMoves
  <2>2. QED
    BY <2>1 DEF CallPaid
<1>5. CASE Carries(c)
  <2>1. /\ frame[c].order \in Orders /\ frame'[c].order = frame[c].order
        /\ charged[frame[c].order] \in Nat
    <3>1. pc[c] \in Settling
      BY <1>5 DEF Carries, ChargeSucceeds, Book, BookRejected, RecordPayment, Settle,
         LoadOrder, ResolveOrg, PickSlug, CreateOrg, Entitle, Subscribe
    <3>2. QED
      BY <1>5, <3>1 DEF Carries, TypeInv, CallShape, OrderTypes
  <2>2. CASE ChargeSucceeds(c)
    <3>1. charged'[frame[c].order] = charged[frame[c].order] + 1
      BY <2>1, <2>2 DEF ChargeSucceeds, TypeInv, OrderTypes
    <3>2. pc'[c] = "book"
      BY <2>2, <1>1 DEF ChargeSucceeds, Goto, CallTypes
    <3>3. QED
      BY <2>1, <3>1, <3>2 DEF CallPaid
  <2>3. ASSUME NEW p \in Payments, Book(c, p)
        PROVE  CallPaid(c)'
    <3>1. paidTo'[p] = frame[c].order /\ pc'[c] = "record"
      BY <1>1, <2>3 DEF Book, TypeInv, EventTypes, Goto, CallTypes
    <3>2. QED
      BY <2>1, <3>1 DEF CallPaid, PaidFor
  <2>4. CASE BookRejected(c) /\ frame[c].card /\ pc'[c] = "record"
    <3>1. PaidFor(frame[c].order)
      BY <2>4 DEF BookRejected, PaidInv, CallPaid, PaidFor
    <3>2. QED
      BY <2>1, <2>4, <3>1, PaidStays DEF CallPaid
  <2>5. CASE pc[c] \in Settling \ {"charge", "book"} /\ pc'[c] \in Settling \ {"charge", "book"}
    <3>1. PaidFor(frame[c].order)
      BY <2>5 DEF PaidInv, CallPaid
    <3>2. QED
      BY <2>1, <2>5, <3>1, PaidStays DEF CallPaid
  <2>6. QED
    BY <1>5, <2>2, <2>3, <2>4, <2>5
       DEF Carries, RecordPayment, Settle, LoadOrder, ResolveOrg, PickSlug, CreateOrg,
           Entitle, Subscribe
<1>6. QED
  BY <1>2, <1>3, <1>4, <1>5, StepKinds

LEMMA CallStepPaid ==
    ASSUME TypeInv, PaidInv, Grows, NEW c \in Calls, CallStep(c)
    PROVE  PaidInv'
<1> USE DEF Settling, Provisioning
<1>1. Moved(c)
  BY StepKinds
<1>2. ASSUME NEW d \in Calls
      PROVE  CallPaid(d)'
  <2>1. CASE d = c
    BY <2>1, OwnPaid
  <2>2. CASE d # c
    <3>1. pc'[d] = pc[d] /\ frame'[d] = frame[d] /\ CallPaid(d)
      BY <1>1, <2>2 DEF Moved, PaidInv
    <3>2. pc[d] \in Settling => frame[d].order \in Orders
      BY DEF TypeInv, CallShape
    <3>3. QED
      BY <3>1, <3>2, PaidStays DEF CallPaid, Grows
  <2>3. QED
    BY <2>1, <2>2
<1>3. ASSUME NEW go \in entitled'
      PROVE  PaidFor(go[2])'
  <2>1. CASE go \in entitled
    BY <2>1, PaidStays DEF PaidInv, EntitledOnlyIfPaid, PaidFor, TypeInv, OrgTypes
  <2>2. CASE go \notin entitled
    <3>1. Entitle(c)
      BY <2>2 DEF CallStep, Request, Advance, Abandon, Handle, Pay, Provision, HandleInline,
         Sweep, LoadChargeable, MarkProcessing, SkipEntity, MatchOrder, EntitiesDone,
         CloseEvent, ChargeSucceeds, ChargeDeclined, Book, BookRejected, RecordPayment,
         Settle, LoadOrder, ResolveOrg, PickSlug, CreateOrg, Subscribe, Finish, Throw, orgRows
    <3>2. go[2] = frame[c].order /\ PaidFor(frame[c].order) /\ frame[c].order \in Orders
      BY <2>2, <3>1 DEF Entitle, PaidInv, CallPaid, TypeInv, CallShape
    <3>3. QED
      BY <3>2, PaidStays
  <2>3. QED
    BY <2>1, <2>2
<1>4. QED
  BY <1>2, <1>3 DEF PaidInv, EntitledOnlyIfPaid, PaidFor

LEMMA PaidStep ==
    ASSUME TypeInv, PaidInv, [Next]_vars
    PROVE  PaidInv'
<1>1. CASE UNCHANGED vars
  BY <1>1 DEF vars, orgRows, money, PaidInv, EntitledOnlyIfPaid, CallPaid, PaidFor
<1>2. CASE Environment
  <2>1. /\ UNCHANGED <<pc, frame, entitled, charged>>
        /\ \A p \in Payments : paidTo[p] # None => paidTo'[p] = paidTo[p]
    <3>1. UNCHANGED <<pc, frame, entitled, charged>>
      BY <1>2 DEF Environment, BuyerPays, Deliver, OrgAppears, orgRows, money
    <3>2. QED
      BY <1>2, <3>1, RowsGrow DEF Next, Grows
  <2>2. /\ \A c \in Calls : pc[c] \in Settling => frame[c].order \in Orders
        /\ \A go \in entitled : go[2] \in Orders
    BY DEF TypeInv, CallShape, OrgTypes
  <2>3. \A o \in Orders : PaidFor(o) => PaidFor(o)'
    BY <2>1, NoneAssumption DEF PaidFor
  <2>4. QED
    BY <2>1, <2>2, <2>3 DEF PaidInv, EntitledOnlyIfPaid, CallPaid, PaidFor
<1>3. ASSUME NEW c \in Calls, CallStep(c)
      PROVE  PaidInv'
  BY <1>3, RowsGrow, CallStepPaid DEF CallStep, Next
<1>4. QED
  BY <1>1, <1>2, <1>3 DEF Next, CallStep

\* Nobody gets the apps of a package unless money moved for that very order,
\* whichever calls race: the callers of provisionOrder see to it, which
\* itself also accepts an order whose payment is pending.
THEOREM OnlyThePaidAreEntitled == Spec => []EntitledOnlyIfPaid
<1>1. Init => PaidInv
  BY DEF Init, PaidInv, EntitledOnlyIfPaid, CallPaid, NoFrame, Settling, Provisioning
<1>2. TypeInv /\ PaidInv /\ [Next]_vars => PaidInv'
  BY PaidStep
<1>3. PaidInv => EntitledOnlyIfPaid
  BY DEF PaidInv
<1>4. QED
  BY <1>1, <1>2, <1>3, Typed, PTL DEF Spec

-----------------------------------------------------------------------------
(***************************************************************************)
(* The paid have something to show.                                        *)
(***************************************************************************)

\* Who writes which row.
LEMMA Writers ==
    ASSUME NEW c \in Calls, CallStep(c)
    PROVE  /\ UNCHANGED status \/ Settle(c) \/ Finish(c)
           /\ UNCHANGED <<orgOf, provisionings>> \/ Finish(c)
           /\ UNCHANGED subscription \/ Subscribe(c)
           /\ UNCHANGED entitled \/ Entitle(c)
           /\ UNCHANGED orgs \/ CreateOrg(c)
           /\ UNCHANGED evStatus \/ MarkProcessing(c) \/ CloseEvent(c)
           /\ UNCHANGED raced \/ ResolveOrg(c)
           /\ \/ UNCHANGED overlapped \/ MatchOrder(c)
              \/ \E o \in Orders, card \in BOOLEAN : LoadChargeable(c, o, card)
           /\ UNCHANGED payload /\ fresh' \subseteq fresh
BY DEF CallStep, Request, Advance, Abandon, Handle, Pay, Provision, HandleInline, Sweep,
   LoadChargeable, MarkProcessing, SkipEntity, MatchOrder, EntitiesDone, CloseEvent,
   ChargeSucceeds, ChargeDeclined, Book, BookRejected, RecordPayment, Settle, LoadOrder,
   ResolveOrg, PickSlug, CreateOrg, Entitle, Subscribe, Finish, Throw, orderRows, orgRows,
   eventRows, history

LEMMA EnvironmentWrites ==
    ASSUME Environment
    PROVE  UNCHANGED <<status, orgOf, subscription, entitled, recorded, unbooked, pc,
                       frame, provisionings, overlapped, raced>>
BY DEF Environment, BuyerPays, Deliver, OrgAppears, orderRows, orgRows, money, history

\* A call carries an order of ours.
LEMMA Carried ==
    ASSUME TypeInv, NEW c \in Calls, Carries(c)
    PROVE  /\ pc[c] \in Settling /\ frame[c].order \in Orders
           /\ frame'[c].order = frame[c].order
           /\ frame[c] \in Frame
<1>1. pc[c] \in Settling
  BY DEF Carries, ChargeSucceeds, Book, BookRejected, RecordPayment, Settle,
     LoadOrder, ResolveOrg, PickSlug, CreateOrg, Entitle, Subscribe, Settling, Provisioning
<1>2. QED
  BY <1>1 DEF Carries, TypeInv, CallShape, CallTypes

LEMMA ShownStays ==
    ASSUME TypeInv, Grows, NEW o \in Orders, Shown(o)
    PROVE  Shown(o)'
BY NoneAssumption DEF Grows, Shown, TypeInv, OrderTypes

LEMMA OwnShown ==
    ASSUME TypeInv, ShownInv, Grows, NEW c \in Calls, CallStep(c)
    PROVE  CallShown(c)'
<1> USE DEF Settling, Provisioning
<1>1. CASE Leaves(c)
  BY <1>1 DEF Leaves, CallShown
<1>2. CASE MatchOrder(c)
  <2> DEFINE p == payload[EventOf(c)][frame[c].at]
  <2>1. /\ pc'[c] = "record" /\ frame'[c].order = paidTo[p] /\ frame'[c].payment = p
        /\ paidTo' = paidTo
    BY <1>2, MatchOrderMoves DEF MatchOrder, money
  <2> HIDE DEF p
  <2>2. QED
    BY <2>1 DEF CallShown
<1>3. ASSUME NEW o \in Orders, NEW card \in BOOLEAN, LoadChargeable(c, o, card)
      PROVE  CallShown(c)'
  <2>1. pc'[c] = (IF card THEN "charge" ELSE "book") /\ frame'[c].payment = None
    BY <1>3, LoadChargeableMoves
  <2>2. QED
    BY <2>1 DEF CallShown
<1>4. CASE Carries(c)
  <2>1. frame[c].order \in Orders /\ frame'[c].order = frame[c].order /\ CallShown(c)
    BY <1>4, Carried DEF ShownInv
  <2>2. CASE ChargeSucceeds(c) /\ pc'[c] = "book" /\ frame'[c] = frame[c]
    BY <2>1, <2>2 DEF CallShown, ChargeSucceeds
  <2>3. ASSUME NEW p \in Payments, Book(c, p), frame'[c].payment = p, pc'[c] = "record"
        PROVE  CallShown(c)'
    <3>1. paidTo'[p] = frame[c].order
      BY <2>3 DEF Book, TypeInv, EventTypes
    <3>2. QED
      BY <2>1, <2>3, <3>1 DEF CallShown
  <2>4. CASE BookRejected(c) /\ pc'[c] = "record" /\ frame'[c] = frame[c]
    BY <2>1, <2>4 DEF CallShown, BookRejected
  <2>5. CASE RecordPayment(c) /\ pc'[c] = "settle" /\ frame'[c] = frame[c]
    <3>1. Shown(frame[c].order)'
      BY <2>1, <2>5 DEF CallShown, RecordPayment, UnbookedAfter, Shown
    <3>2. QED
      BY <2>1, <2>5, <3>1 DEF CallShown
  <2>6. CASE pc[c] \in {"settle"} \cup Provisioning /\ pc'[c] \in Provisioning
    <3>1. Shown(frame[c].order)'
      BY <2>1, <2>6, ShownStays DEF CallShown
    <3>2. QED
      BY <2>1, <2>6, <3>1 DEF CallShown
  <2>7. QED
    BY <1>4, <2>2, <2>3, <2>4, <2>5, <2>6
       DEF Carries, Settle, LoadOrder, ResolveOrg, PickSlug, CreateOrg, Entitle, Subscribe
<1>5. QED
  BY <1>1, <1>2, <1>3, <1>4, StepKinds

LEMMA CallStepShown ==
    ASSUME TypeInv, ShownInv, Grows, NEW c \in Calls, CallStep(c)
    PROVE  ShownInv'
<1>1. Moved(c)
  BY StepKinds
<1>2. ASSUME NEW d \in Calls
      PROVE  CallShown(d)'
  <2>1. CASE d = c
    BY <2>1, OwnShown
  <2>2. CASE d # c
    <3>1. pc'[d] = pc[d] /\ frame'[d] = frame[d] /\ CallShown(d)
      BY <1>1, <2>2 DEF Moved, ShownInv
    <3>2. /\ pc[d] \in Settling => frame[d].order \in Orders
          /\ frame[d].payment \in Payments \cup {None}
      BY DEF TypeInv, CallShape, CallTypes, Frame
    <3>3. QED
      BY <3>1, <3>2, ShownStays, NoneAssumption DEF CallShown, Grows, Settling, Provisioning
  <2>3. QED
    BY <2>1, <2>2
<1>3. ASSUME NEW o \in Orders, status'[o] \in {"paid", "provisioned"}
      PROVE  Shown(o)'
  <2>1. CASE status[o] \in {"paid", "provisioned"}
    BY <2>1, ShownStays DEF ShownInv, PaidIsRecorded, Shown
  <2>2. CASE status[o] \notin {"paid", "provisioned"}
    <3>1. Settle(c) \/ Finish(c)
      BY <1>3, <2>2, Writers
    <3>2. frame[c].order = o /\ Shown(o)
      BY <1>3, <2>2, <3>1 DEF Settle, Finish, TypeInv, OrderTypes, ShownInv, CallShown,
         Provisioning
    <3>3. QED
      BY <3>2, ShownStays
  <2>3. QED
    BY <2>1, <2>2
<1>4. QED
  BY <1>2, <1>3 DEF ShownInv, PaidIsRecorded, Shown

LEMMA ShownStep ==
    ASSUME TypeInv, ShownInv, [Next]_vars
    PROVE  ShownInv'
<1>1. CASE UNCHANGED vars
  BY <1>1 DEF vars, orderRows, money, ShownInv, PaidIsRecorded, CallShown, Shown
<1>2. CASE Environment
  <2>1. UNCHANGED <<pc, frame, status, recorded, unbooked>> /\ Grows
    BY <1>2, EnvironmentWrites, RowsGrow DEF Next
  <2>2. \A c \in Calls : /\ pc[c] \in Settling => frame[c].order \in Orders
                         /\ frame[c].payment \in Payments \cup {None}
    BY DEF TypeInv, CallShape, CallTypes, Frame
  <2>3. \A o \in Orders : Shown(o) => Shown(o)'
    BY <2>1, ShownStays
  <2>4. \A c \in Calls : CallShown(c)'
    BY <2>1, <2>2, <2>3, NoneAssumption
       DEF ShownInv, CallShown, Grows, Settling, Provisioning
  <2>5. QED
    BY <2>1, <2>3, <2>4 DEF ShownInv, PaidIsRecorded, Shown
<1>3. ASSUME NEW c \in Calls, CallStep(c)
      PROVE  ShownInv'
  BY <1>3, RowsGrow, CallStepShown DEF CallStep, Next
<1>4. QED
  BY <1>1, <1>2, <1>3 DEF Next, CallStep

\* An order that counts as paid has a succeeded Payment row, also when the
\* books refused the payment or another call had settled it first.
THEOREM ThePaidAreRecorded == Spec => []PaidIsRecorded
<1>1. Init => ShownInv
  BY DEF Init, ShownInv, PaidIsRecorded, CallShown, NoFrame, Settling, Provisioning
<1>2. TypeInv /\ ShownInv /\ [Next]_vars => ShownInv'
  BY ShownStep
<1>3. ShownInv => PaidIsRecorded
  BY DEF ShownInv
<1>4. QED
  BY <1>1, <1>2, <1>3, Typed, PTL DEF Spec

-----------------------------------------------------------------------------
(***************************************************************************)
(* A provisioned order is wholly provisioned.                              *)
(***************************************************************************)

LEMMA OwnComplete ==
    ASSUME TypeInv, CompleteInv, Grows, NEW c \in Calls, CallStep(c)
    PROVE  CallComplete(c)'
<1> USE DEF Settling, Provisioning
<1>1. CASE pc'[c] \notin {"subscribe", "finish"}
  BY <1>1 DEF CallComplete
<1>2. CASE Entitle(c) /\ Carries(c)
  <2>1. frame'[c] = frame[c] /\ pc'[c] \in {"subscribe", "finish"}
        /\ (pc'[c] = "finish" => frame[c].order \notin Recurring)
    BY <1>2 DEF Carries, Entitle, ChargeSucceeds, Book, BookRejected, RecordPayment,
       Settle, LoadOrder, ResolveOrg, PickSlug, CreateOrg, Subscribe
  <2>2. <<frame[c].org, frame[c].order>> \in entitled'
    BY <1>2 DEF Entitle
  <2>3. QED
    BY <2>1, <2>2 DEF CallComplete
<1>3. CASE Subscribe(c) /\ Carries(c)
  <2>1. /\ frame'[c] = frame[c] /\ pc[c] = "subscribe"
        /\ subscription' = [subscription EXCEPT ![frame[c].order] = frame[c].org]
    BY <1>3 DEF Carries, Entitle, ChargeSucceeds, Book, BookRejected, RecordPayment,
       Settle, LoadOrder, ResolveOrg, PickSlug, CreateOrg, Subscribe
  <2>2. frame[c].order \in Orders
    BY <1>3, Carried
  <2>3. <<frame[c].org, frame[c].order>> \in entitled'
    BY <2>1 DEF CompleteInv, CallComplete, Grows
  <2>4. QED
    BY <2>1, <2>2, <2>3 DEF CallComplete, TypeInv, OrderTypes
<1>4. pc'[c] \in {"subscribe", "finish"} => Carries(c) /\ (Entitle(c) \/ Subscribe(c))
  <2>1. Leaves(c) => pc'[c] \notin {"subscribe", "finish"}
    BY DEF Leaves
  <2>2. MatchOrder(c) => pc'[c] \notin {"subscribe", "finish"}
    BY MatchOrderMoves
  <2>3. \A o \in Orders, card \in BOOLEAN :
           LoadChargeable(c, o, card) => pc'[c] \notin {"subscribe", "finish"}
    <3>1. ASSUME NEW o \in Orders, NEW card \in BOOLEAN, LoadChargeable(c, o, card)
          PROVE  pc'[c] \notin {"subscribe", "finish"}
      <4>1. pc'[c] = IF card THEN "charge" ELSE "book"
        BY <3>1, LoadChargeableMoves
      <4>2. QED
        BY <4>1
    <3>2. QED
      BY <3>1
  <2>4. Carries(c) /\ pc'[c] \in {"subscribe", "finish"} => Entitle(c) \/ Subscribe(c)
    BY DEF Carries
  <2>5. QED
    BY <2>1, <2>2, <2>3, <2>4, StepKinds
<1>5. QED
  BY <1>1, <1>2, <1>3, <1>4

LEMMA CallStepComplete ==
    ASSUME TypeInv, CompleteInv, Grows, NEW c \in Calls, CallStep(c)
    PROVE  CompleteInv'
<1>1. Moved(c)
  BY StepKinds
\* A subscription that exists is not written again.
<1>2. ASSUME NEW o \in Orders, subscription[o] # 0
      PROVE  subscription'[o] = subscription[o]
  BY <1>2, Writers, SubscribeMoves DEF TypeInv, OrderTypes
<1>3. ASSUME NEW d \in Calls
      PROVE  CallComplete(d)'
  <2>1. CASE d = c
    BY <2>1, OwnComplete
  <2>2. CASE d # c
    <3>1. pc'[d] = pc[d] /\ frame'[d] = frame[d] /\ CallComplete(d)
      BY <1>1, <2>2 DEF Moved, CompleteInv
    <3>2. pc[d] = "finish" => frame[d].order \in Orders /\ frame[d].org > 0
      BY DEF TypeInv, CallShape, Settling, Provisioning
    <3>3. pc[d] = "finish" => frame[d].org # 0
      BY <3>2 DEF TypeInv, CallTypes, Frame
    <3>4. QED
      BY <1>2, <3>1, <3>2, <3>3 DEF CallComplete, Grows
  <2>3. QED
    BY <2>1, <2>2
<1>4. ASSUME NEW o \in Orders, status'[o] = "provisioned"
      PROVE  /\ <<orgOf'[o], o>> \in entitled'
             /\ o \in Recurring => subscription'[o] = orgOf'[o]
  <2>1. CASE Finish(c) /\ frame[c].order = o
    <3>1. orgOf'[o] = frame[c].org /\ subscription' = subscription
      BY <2>1 DEF Finish, TypeInv, OrderTypes, orgRows
    <3>2. CallComplete(c) /\ pc[c] = "finish"
      BY <2>1 DEF Finish, CompleteInv
    <3>3. QED
      BY <2>1, <3>1, <3>2 DEF CallComplete, Grows
  <2>2. CASE ~(Finish(c) /\ frame[c].order = o)
    <3>1. orgOf'[o] = orgOf[o]
      BY <2>2, Writers DEF Finish, TypeInv, OrderTypes
    <3>2. status[o] = "provisioned"
      BY <1>4, <2>2, Writers DEF Settle, Finish, TypeInv, OrderTypes
    <3>3. <<orgOf[o], o>> \in entitled /\ (o \in Recurring => subscription[o] = orgOf[o])
      BY <3>2 DEF CompleteInv, ProvisionedIsComplete
    <3>4. orgOf[o] # 0
      BY <3>3 DEF TypeInv, OrgTypes
    <3>5. QED
      BY <1>2, <3>1, <3>3, <3>4 DEF Grows
  <2>3. QED
    BY <2>1, <2>2
<1>5. QED
  BY <1>3, <1>4 DEF CompleteInv, ProvisionedIsComplete

LEMMA CompleteStep ==
    ASSUME TypeInv, CompleteInv, [Next]_vars
    PROVE  CompleteInv'
<1>1. CASE UNCHANGED vars
  BY <1>1 DEF vars, orderRows, orgRows, CompleteInv, ProvisionedIsComplete, CallComplete
<1>2. CASE Environment
  BY <1>2, EnvironmentWrites DEF CompleteInv, ProvisionedIsComplete, CallComplete
<1>3. ASSUME NEW c \in Calls, CallStep(c)
      PROVE  CompleteInv'
  BY <1>3, RowsGrow, CallStepComplete DEF CallStep, Next
<1>4. QED
  BY <1>1, <1>2, <1>3 DEF Next, CallStep

\* A provisioned order points at one organization, which has the apps and the
\* subscription of that order, however many provisionings raced.
THEOREM TheProvisionedAreComplete == Spec => []ProvisionedIsComplete
<1>1. Init => CompleteInv
  BY DEF Init, CompleteInv, ProvisionedIsComplete, CallComplete
<1>2. TypeInv /\ CompleteInv /\ [Next]_vars => CompleteInv'
  BY CompleteStep
<1>3. CompleteInv => ProvisionedIsComplete
  BY DEF CompleteInv
<1>4. QED
  BY <1>1, <1>2, <1>3, Typed, PTL DEF Spec

-----------------------------------------------------------------------------
(***************************************************************************)
(* An order is provisioned once.                                           *)
(***************************************************************************)

\* Two ways lead to the finish, and a recurring order takes the second.
LEMMA WayToFinish ==
    ASSUME TypeInv, NEW c \in Calls, CallStep(c), pc'[c] = "finish"
    PROVE  /\ frame'[c] = frame[c] /\ frame[c].order \in Orders
           /\ \/ Entitle(c) /\ frame[c].order \notin Recurring
              \/ /\ Subscribe(c) /\ subscription[frame[c].order] = 0
                 /\ subscription' =
                       [subscription EXCEPT ![frame[c].order] = frame[c].org]
<1>1. ~Leaves(c)
  BY DEF Leaves, Settling, Provisioning
<1>2. ~MatchOrder(c)
  BY MatchOrderMoves
<1>3. ASSUME NEW o \in Orders, NEW card \in BOOLEAN, LoadChargeable(c, o, card)
      PROVE  FALSE
  <2>1. pc'[c] = IF card THEN "charge" ELSE "book"
    BY <1>3, LoadChargeableMoves
  <2>2. QED
    BY <2>1
<1>4. Carries(c)
  BY <1>1, <1>2, <1>3, StepKinds
<1>5. QED
  BY <1>4, Carried DEF Carries

LEMMA SubscriberStep ==
    ASSUME TypeInv, NEW c \in Calls, CallStep(c), NEW o \in Recurring, OneSubscriber(o)
    PROVE  OneSubscriber(o)'
<1>1. /\ o \in Orders /\ provisionings[o] \in Nat /\ subscription[o] \in Nat
  BY OrdersAssumption DEF TypeInv, OrderTypes
<1>2. \A d \in Calls : d # c => pc'[d] = pc[d] /\ frame'[d] = frame[d]
  BY StepKinds DEF Moved
<1>3. CASE Finish(c) /\ frame[c].order = o
  <2>1. /\ pc[c] = "finish" /\ provisionings'[o] = provisionings[o] + 1
        /\ subscription' = subscription
    BY <1>1, <1>3 DEF Finish, TypeInv, OrderTypes, orgRows
  <2>2. Finishing(c, o)
    BY <1>3, <2>1 DEF Finishing
  <2>3. pc'[c] # "finish"
    BY <1>3, <2>1, WayToFinish DEF Entitle, Subscribe
  <2>4. \A d \in Calls : ~Finishing(d, o)'
    BY <1>2, <2>2, <2>3 DEF Finishing, OneSubscriber
  <2>5. QED
    BY <1>1, <2>1, <2>2, <2>4 DEF OneSubscriber
<1>4. CASE /\ Subscribe(c) /\ pc'[c] = "finish" /\ frame[c].order = o
  <2>1. /\ subscription[o] = 0 /\ subscription'[o] = frame[c].org
        /\ frame'[c] = frame[c]
    BY <1>1, <1>4, WayToFinish DEF Entitle, Subscribe, TypeInv, OrderTypes
  <2>2. frame[c].org # 0
    BY <1>4 DEF Subscribe, TypeInv, CallShape, CallTypes, Frame
  <2>3. provisionings' = provisionings
    BY <1>4 DEF Subscribe, history
  <2>4. \A d \in Calls : Finishing(d, o)' => d = c
    BY <1>2, <2>1 DEF Finishing, OneSubscriber
  <2>5. QED
    BY <1>1, <2>1, <2>2, <2>3, <2>4 DEF OneSubscriber
<1>5. CASE /\ ~(Finish(c) /\ frame[c].order = o)
           /\ ~(Subscribe(c) /\ pc'[c] = "finish" /\ frame[c].order = o)
  <2>1. provisionings'[o] = provisionings[o]
    BY <1>1, <1>5, Writers DEF Finish, TypeInv, OrderTypes
  <2>2. subscription[o] # 0 => subscription'[o] # 0
    BY <1>1, Writers, SubscribeMoves DEF TypeInv, OrderTypes
  <2>3. Finishing(c, o)' => Finishing(c, o)
    BY <1>5, WayToFinish DEF Finishing
  <2>4. \A d \in Calls : Finishing(d, o)' => Finishing(d, o)
    BY <1>2, <2>3 DEF Finishing
  <2>5. QED
    BY <2>1, <2>2, <2>4 DEF OneSubscriber
<1>6. QED
  BY <1>3, <1>4, <1>5

\* Who takes up an order that stays without overlap is its only worker.
LEMMA TakesUpAlone ==
    ASSUME TypeInv, NEW c \in Calls, NEW o \in Orders, o \notin overlapped',
           \/ MatchOrder(c)
           \/ \E b \in Orders, card \in BOOLEAN : LoadChargeable(c, b, card)
    PROVE  /\ pc[c] \notin Settling
           /\ pc'[c] \in {"charge", "book", "record"}
           /\ frame'[c].order = o => WorkingOn(o) = {} /\ frame'[c].seen = status[o]
           /\ UNCHANGED <<status, orgOf, provisionings>>
<1>1. CASE MatchOrder(c)
  <2> DEFINE p == payload[EventOf(c)][frame[c].at]
  <2>1. /\ pc'[c] = "record" /\ frame'[c].order = paidTo[p]
        /\ frame'[c].seen = status[paidTo[p]]
        /\ overlapped' = IF WorkingOn(paidTo[p]) = {} THEN overlapped
                                ELSE overlapped \cup {paidTo[p]}
    BY <1>1, MatchOrderMoves
  <2> HIDE DEF p
  <2>2. pc[c] = "entity" /\ UNCHANGED <<status, orgOf, provisionings>>
    BY <1>1 DEF MatchOrder, orderRows
  <2>3. QED
    BY <2>1, <2>2 DEF Settling, Provisioning
<1>2. ASSUME NEW b \in Orders, NEW card \in BOOLEAN, LoadChargeable(c, b, card)
      PROVE  /\ pc[c] \notin Settling
             /\ pc'[c] \in {"charge", "book", "record"}
             /\ frame'[c].order = o => WorkingOn(o) = {} /\ frame'[c].seen = status[o]
             /\ UNCHANGED <<status, orgOf, provisionings>>
  <2>1. /\ pc'[c] = (IF card THEN "charge" ELSE "book") /\ frame'[c].order = b
        /\ frame'[c].seen = status[b]
        /\ overlapped' = IF WorkingOn(b) = {} THEN overlapped
                                ELSE overlapped \cup {b}
    BY <1>2, LoadChargeableMoves
  <2>2. pc[c] = "idle" /\ UNCHANGED <<status, orgOf, provisionings>>
    BY <1>2 DEF LoadChargeable, orderRows
  <2>3. QED
    BY <2>1, <2>2 DEF Settling, Provisioning
<1>3. QED
  BY <1>1, <1>2

\* What a worker knows of the order it works on.
WorkerKnows(c, o) ==
    /\ pc[c] \in {"charge", "book", "record", "settle"} => frame[c].seen = status[o]
    /\ pc[c] \in Provisioning \ {"provision"} => provisionings[o] = 0

Marked(o) ==
    /\ provisionings[o] <= 1
    /\ provisionings[o] = 1 => status[o] = "provisioned" /\ orgOf[o] # 0

\* The only worker takes a step.
LEMMA WorkersStep ==
    ASSUME TypeInv, NEW c \in Calls, NEW o \in Orders, CallStep(c),
           c \in WorkingOn(o), Marked(o), WorkerKnows(c, o)
    PROVE  /\ Marked(o)'
           /\ Leaves(c) \/ (frame'[c].order = o /\ WorkerKnows(c, o)')
<1>1. /\ pc[c] \in Settling /\ frame[c].order = o /\ provisionings[o] \in Nat
  BY DEF WorkingOn, TypeInv, OrderTypes
<1>2. CASE Leaves(c)
  <2>1. CASE Finish(c)
    <3>1. frame[c].org # 0 /\ pc[c] = "finish"
      BY <2>1 DEF Finish, TypeInv, CallShape, CallTypes, Frame
    <3>2. /\ provisionings'[o] = provisionings[o] + 1 /\ status'[o] = "provisioned"
          /\ orgOf'[o] = frame[c].org
      BY <1>1, <2>1 DEF Finish, TypeInv, OrderTypes
    <3>3. provisionings[o] = 0
      BY <3>1 DEF WorkerKnows, Provisioning
    <3>4. QED
      BY <1>2, <3>1, <3>2, <3>3 DEF Marked
  <2>2. CASE ~Finish(c)
    <3>1. ~Settle(c)
      BY <1>2, SettleMoves DEF TypeInv, Leaves, Settling, Provisioning
    <3>2. UNCHANGED <<status, orgOf, provisionings>>
      BY <2>2, <3>1, Writers
    <3>3. QED
      BY <1>2, <3>2 DEF Marked
  <2>3. QED
    BY <2>1, <2>2
<1>3. CASE Carries(c)
  <2>1. frame'[c].order = o
    BY <1>1, <1>3 DEF Carries
  <2>2. CASE Settle(c) /\ pc'[c] = "provision"
    <3>1. pc[c] = "settle" /\ UNCHANGED <<orgOf, provisionings>>
      BY <2>2 DEF Settle, history
    <3>2. frame[c].seen = status[o]
      BY <3>1 DEF WorkerKnows
    <3>3. provisionings[o] = 1 => status'[o] = "provisioned"
      BY <1>1, <2>2, <3>2 DEF Settle, Marked, TypeInv, OrderTypes
    <3>4. QED
      BY <2>1, <2>2, <3>1, <3>3 DEF Marked, WorkerKnows, Provisioning
  <2>3. CASE LoadOrder(c) /\ Verdict(frame[c].order) = "resolve" /\ pc'[c] = "resolve"
    <3>1. UNCHANGED <<status, orgOf, provisionings>>
      BY <2>3 DEF LoadOrder, orderRows, history
    <3>2. provisionings[o] = 0
      BY <1>1, <2>3 DEF Verdict, Marked
    <3>3. QED
      BY <2>1, <2>3, <3>1, <3>2 DEF Marked, WorkerKnows
  <2>4. CASE /\ frame'[c].seen = frame[c].seen
             /\ ChargeSucceeds(c) \/ BookRejected(c) \/ RecordPayment(c)
                   \/ \E p \in Payments : Book(c, p)
             /\ pc'[c] \in {"book", "record", "settle"}
    <3>1. UNCHANGED <<status, orgOf, provisionings>>
      BY <2>4 DEF ChargeSucceeds, BookRejected, RecordPayment, Book, orderRows, history
    <3>2. frame[c].seen = status[o]
      BY <2>4 DEF ChargeSucceeds, BookRejected, RecordPayment, Book, WorkerKnows
    <3>3. QED
      BY <2>1, <2>4, <3>1, <3>2 DEF Marked, WorkerKnows, Provisioning
  <2>5. CASE /\ ResolveOrg(c) \/ PickSlug(c) \/ CreateOrg(c) \/ Entitle(c) \/ Subscribe(c)
             /\ pc'[c] \in Provisioning
    <3>1. UNCHANGED <<status, orgOf, provisionings>>
      BY <2>5 DEF ResolveOrg, PickSlug, CreateOrg, Entitle, Subscribe, orderRows, history
    <3>2. provisionings[o] = 0
      BY <2>5 DEF ResolveOrg, PickSlug, CreateOrg, Entitle, Subscribe, WorkerKnows, Provisioning
    <3>3. QED
      BY <2>1, <2>5, <3>1, <3>2 DEF Marked, WorkerKnows, Provisioning
  <2>6. QED
    BY <1>3, <2>2, <2>3, <2>4, <2>5 DEF Carries, Provisioning
<1>4. CASE MatchOrder(c)
  BY <1>1, <1>4 DEF MatchOrder, Settling, Provisioning
<1>5. ASSUME NEW b \in Orders, NEW card \in BOOLEAN, LoadChargeable(c, b, card)
      PROVE  FALSE
  BY <1>1, <1>5 DEF LoadChargeable, Settling, Provisioning
<1>6. QED
  BY <1>2, <1>3, <1>4, <1>5, StepKinds

LEMMA WorkerStep ==
    ASSUME TypeInv, NEW c \in Calls, CallStep(c), NEW o \in Orders,
           o \notin overlapped', OneWorker(o)
    PROVE  OneWorker(o)'
<1>1. \A d \in Calls : d # c => pc'[d] = pc[d] /\ frame'[d] = frame[d]
  BY StepKinds DEF Moved
<1>2. \A d \in Calls : d # c => (d \in WorkingOn(o)' <=> d \in WorkingOn(o))
  BY <1>1 DEF WorkingOn
<1>3. Marked(o) /\ \A d \in WorkingOn(o) : WorkerKnows(d, o)
  BY DEF OneWorker, Marked, WorkerKnows
<1>4. WorkingOn(o) \subseteq Calls /\ WorkingOn(o)' \subseteq Calls
  BY DEF WorkingOn
<1>5. ASSUME Marked(o)', \A d \in WorkingOn(o)' : WorkerKnows(d, o)',
             \A d, e \in WorkingOn(o)' : d = e
      PROVE  OneWorker(o)'
  BY <1>5 DEF OneWorker, Marked, WorkerKnows
<1>6. CASE c \in WorkingOn(o)
  <2>1. WorkingOn(o) = {c}
    BY <1>6 DEF OneWorker
  <2>2. /\ Marked(o)'
        /\ Leaves(c) \/ (frame'[c].order = o /\ WorkerKnows(c, o)')
    BY <1>3, <1>6, WorkersStep
  <2>3. WorkingOn(o)' \subseteq {c}
    BY <1>2, <1>4, <2>1
  <2>4. Leaves(c) => c \notin WorkingOn(o)'
    BY DEF Leaves, WorkingOn
  <2>5. QED
    BY <1>5, <2>2, <2>3, <2>4
<1>7. CASE c \notin WorkingOn(o) /\ c \in WorkingOn(o)'
  <2>1. ~Leaves(c) /\ frame'[c].order = o
    BY <1>7 DEF Leaves, WorkingOn
  <2>2. ~Carries(c)
    BY <1>7, <2>1, Carried DEF WorkingOn
  <2>3. /\ pc'[c] \in {"charge", "book", "record"}
        /\ WorkingOn(o) = {} /\ frame'[c].seen = status[o]
        /\ UNCHANGED <<status, orgOf, provisionings>>
    BY <2>1, <2>2, StepKinds, TakesUpAlone
  <2>4. WorkingOn(o)' = {c}
    BY <1>2, <1>4, <1>7, <2>3
  <2>5. WorkerKnows(c, o)' /\ Marked(o)'
    BY <1>3, <2>3 DEF WorkerKnows, Marked, Provisioning
  <2>6. QED
    BY <1>5, <2>4, <2>5
<1>8. CASE c \notin WorkingOn(o) /\ c \notin WorkingOn(o)'
  <2>1. WorkingOn(o)' = WorkingOn(o)
    BY <1>2, <1>4, <1>8
  <2>2. /\ status'[o] = status[o] /\ orgOf'[o] = orgOf[o]
        /\ provisionings'[o] = provisionings[o]
    <3>1. Settle(c) \/ Finish(c) => frame[c].order # o
      BY <1>8 DEF Settle, Finish, WorkingOn, Settling, Provisioning
    <3>2. QED
      BY <3>1, Writers DEF Settle, Finish, TypeInv, OrderTypes
  <2>3. \A d \in WorkingOn(o) : d # c
    BY <1>8
  <2>4. \A d \in WorkingOn(o) : WorkerKnows(d, o)'
    BY <1>1, <1>3, <1>4, <2>2, <2>3 DEF WorkerKnows
  <2>5. Marked(o)'
    BY <1>3, <2>2 DEF Marked
  <2>6. QED
    BY <1>5, <2>1, <2>4, <2>5 DEF OneWorker
<1>9. QED
  BY <1>6, <1>7, <1>8

LEMMA OnceStep ==
    ASSUME TypeInv, OnceInv, [Next]_vars
    PROVE  OnceInv'
<1>1. CASE UNCHANGED vars
  BY <1>1 DEF vars, orderRows, orgRows, history, OnceInv, OneSubscriber, Finishing,
     OneWorker, WorkingOn
<1>2. CASE Environment
  BY <1>2, EnvironmentWrites DEF OnceInv, OneSubscriber, Finishing, OneWorker, WorkingOn
<1>3. ASSUME NEW c \in Calls, CallStep(c)
      PROVE  OnceInv'
  <2>1. overlapped \subseteq overlapped'
    BY <1>3, Writers DEF MatchOrder, LoadChargeable, TakeUp
  <2>2. QED
    BY <1>3, <2>1, SubscriberStep, WorkerStep DEF OnceInv
<1>4. QED
  BY <1>1, <1>2, <1>3 DEF Next, CallStep

\* However often its payment is delivered, swept, retried or recorded, an
\* order no two calls work on together is provisioned at most once, and a
\* recurring order even if they do: its subscription lets one call through.
THEOREM OrdersAreProvisionedOnce == Spec => []ProvisionedOnce
<1>1. Init => OnceInv
  BY OrdersAssumption DEF Init, OnceInv, OneSubscriber, Finishing, OneWorker, WorkingOn,
     Settling, Provisioning
<1>2. TypeInv /\ OnceInv /\ [Next]_vars => OnceInv'
  BY OnceStep
<1>3. OnceInv => ProvisionedOnce
  BY DEF OnceInv, OneSubscriber, OneWorker, ProvisionedOnce
<1>4. QED
  BY <1>1, <1>2, <1>3, Typed, PTL DEF Spec

-----------------------------------------------------------------------------
(***************************************************************************)
(* Processed means provisioned.                                            *)
(***************************************************************************)

LEMMA DoneStays ==
    ASSUME TypeInv, Grows, NEW e \in Events, evStatus[e] # "absent",
           NEW i \in 1 .. Len(payload[e]), EntityDone(e, i)
    PROVE  EntityDone(e, i)'
<1>1. payload'[e] = payload[e]
  BY DEF Grows
<1>2. CASE payload[e][i] = None
  BY <1>1, <1>2 DEF EntityDone
<1>3. CASE payload[e][i] # None
  <2>1. payload[e][i] \in Payments /\ paidTo[payload[e][i]] \in Orders
    BY <1>3, ElementOfSeq DEF TypeInv, EventTypes, EntitiesBooked
  <2>2. paidTo'[payload[e][i]] = paidTo[payload[e][i]]
    BY <2>1, NoneAssumption DEF Grows
  <2>3. QED
    BY <1>1, <1>3, <2>1, <2>2 DEF EntityDone, Grows
<1>4. QED
  BY <1>2, <1>3

\* The events a call has read were delivered, and will have been.
QueueDelivered(c) ==
    \A i \in 1 .. Len(frame[c].queue) : evStatus[frame[c].queue[i]] # "absent"

LEMMA QueueStays ==
    ASSUME TypeInv, Grows, NEW c \in Calls, QueueDelivered(c),
           frame'[c].queue = frame[c].queue
    PROVE  QueueDelivered(c)'
<1>1. frame[c].queue \in Seq(Events)
  BY DEF TypeInv, CallTypes, Frame
<1>2. \A i \in 1 .. Len(frame[c].queue) : frame[c].queue[i] \in Events
  BY <1>1, ElementOfSeq
<1>3. QED
  BY <1>2 DEF QueueDelivered, Grows

\* What CallProcessed says of the event at the head.
LEMMA AtHead ==
    ASSUME TypeInv, NEW c \in Calls, CallProcessed(c), frame[c].queue # <<>>
    PROVE  /\ EventOf(c) \in Events /\ evStatus[EventOf(c)] # "absent"
           /\ QueueDelivered(c) /\ Len(payload[EventOf(c)]) \in Nat
           /\ frame[c].queue \in Seq(Events)
<1>1. EventOf(c) \in Events /\ frame[c].queue \in Seq(Events)
  BY EventOfCall
<1>2. EventOf(c) = frame[c].queue[1] /\ 1 \in 1 .. Len(frame[c].queue)
  BY <1>1, EmptySeq DEF EventOf
<1>3. QueueDelivered(c)
  BY DEF CallProcessed, QueueDelivered
<1>4. Len(payload[EventOf(c)]) \in Nat
  BY <1>1, LenProperties DEF TypeInv, EventTypes
<1>5. QED
  BY <1>1, <1>2, <1>3, <1>4 DEF QueueDelivered

\* A call that stands still loses nothing.
LEMMA StandsStill ==
    ASSUME TypeInv, Grows, NEW d \in Calls, CallProcessed(d),
           pc'[d] = pc[d], frame'[d] = frame[d]
    PROVE  CallProcessed(d)'
<1> SUFFICES ASSUME frame[d].queue # <<>> PROVE CallProcessed(d)'
  BY DEF CallProcessed
<1>0. PICK e \in Events : e = EventOf(d)
  BY AtHead
<1>1. evStatus[e] # "absent" /\ QueueDelivered(d)'
  BY <1>0, AtHead, QueueStays
<1>2. EventOf(d)' = e /\ payload'[e] = payload[e]
  BY <1>0, <1>1 DEF EventOf, Grows
<1>3. ASSUME NEW i \in 1 .. Len(payload[e]), EntityDone(e, i)
      PROVE  EntityDone(e, i)'
  BY <1>1, <1>3, DoneStays
<1>4. ASSUME pc[d] \in Settling
      PROVE  /\ frame[d].at <= Len(payload[e])
             /\ payload[e][frame[d].at] # None
             /\ paidTo'[payload[e][frame[d].at]] = frame[d].order
  <2>1. /\ frame[d].at <= Len(payload[e])
        /\ payload[e][frame[d].at] # None
        /\ paidTo[payload[e][frame[d].at]] = frame[d].order
    BY <1>0, <1>4 DEF CallProcessed
  <2>2. frame[d].at \in 1 .. Len(payload[e]) /\ frame[d].order \in Orders
    BY <1>0, <1>4, <2>1, AtHead DEF TypeInv, CallShape, CallTypes, Frame
  <2>3. payload[e][frame[d].at] \in Payments
    BY <1>1, <2>1, <2>2, ElementOfSeq DEF TypeInv, EventTypes
  <2>4. QED
    BY <2>1, <2>2, <2>3, NoneAssumption DEF Grows
<1>5. QED
  BY <1>0, <1>1, <1>2, <1>3, <1>4 DEF CallProcessed, QueueDelivered

LEMMA NoQueueProcessed ==
    ASSUME NEW c \in Calls, frame'[c].queue = <<>>
    PROVE  CallProcessed(c)'
BY DEF CallProcessed

\* Outside its entities a call only promises that its events were delivered.
LEMMA QuietProcessed ==
    ASSUME NEW c \in Calls, QueueDelivered(c)',
           pc'[c] \in Labels \ (Settling \cup {"entity", "processed"})
    PROVE  CallProcessed(c)'
BY DEF CallProcessed, QueueDelivered

\* The next entity: those before it are done, and so is this one.
LEMMA NextEntity ==
    ASSUME TypeInv, Grows, NEW c \in Calls, CallProcessed(c), frame[c].queue # <<>>,
           pc[c] \in {"entity"} \cup Settling,
           pc'[c] = "entity", frame'[c].queue = frame[c].queue,
           frame'[c].at = frame[c].at + 1,
           NEW j, j = frame[c].at, NEW e \in Events, e = EventOf(c),
           j <= Len(payload[e]) => EntityDone(e, j)'
    PROVE  CallProcessed(c)'
<1>1. evStatus[e] # "absent" /\ QueueDelivered(c)'
  BY AtHead, QueueStays
<1>2. EventOf(c)' = e /\ payload'[e] = payload[e] /\ Len(payload[e]) \in Nat
      /\ frame[c].at \in Nat
  BY <1>1, AtHead DEF EventOf, Grows, TypeInv, CallTypes, Frame
<1>3. ASSUME NEW i \in 1 .. Len(payload[e]), i < frame[c].at + 1
      PROVE  EntityDone(e, i)'
  <2>1. CASE i < frame[c].at
    BY <1>1, <2>1, DoneStays DEF CallProcessed
  <2>2. CASE i = frame[c].at
    BY <2>2
  <2>3. QED
    BY <1>2, <1>3, <2>1, <2>2
<1>4. QED
  BY <1>1, <1>2, <1>3 DEF CallProcessed, QueueDelivered, Settling, Provisioning

\* The call goes on with the order it settles.
LEMMA CarriesProcessed ==
    ASSUME TypeInv, Grows, NEW c \in Calls, CallProcessed(c), Carries(c)
    PROVE  CallProcessed(c)'
<1> SUFFICES ASSUME frame[c].queue # <<>> PROVE CallProcessed(c)'
  BY DEF Carries, CallProcessed
<1>0. PICK e \in Events : e = EventOf(c)
  BY AtHead
<1>1. evStatus[e] # "absent" /\ QueueDelivered(c)'
  BY <1>0, AtHead, QueueStays DEF Carries
<1>2. EventOf(c)' = e /\ payload'[e] = payload[e]
  BY <1>0, <1>1 DEF EventOf, Grows, Carries
<1>3. /\ pc[c] \in Settling /\ frame[c].order \in Orders
      /\ frame'[c].at = frame[c].at /\ frame'[c].order = frame[c].order
  BY Carried DEF Carries
<1>4. ASSUME NEW i \in 1 .. Len(payload[e]), i < frame[c].at
      PROVE  EntityDone(e, i)'
  BY <1>0, <1>1, <1>3, <1>4, DoneStays DEF CallProcessed
<1>5. /\ frame[c].at <= Len(payload[e])
      /\ payload[e][frame[c].at] # None
      /\ paidTo[payload[e][frame[c].at]] = frame[c].order
  BY <1>0, <1>3 DEF CallProcessed
<1>6. frame[c].at \in 1 .. Len(payload[e])
  BY <1>0, <1>3, <1>5, AtHead DEF TypeInv, CallShape, CallTypes, Frame
<1>7. payload[e][frame[c].at] \in Payments
  BY <1>1, <1>5, <1>6, ElementOfSeq DEF TypeInv, EventTypes
<1>8. paidTo'[payload[e][frame[c].at]] = frame[c].order
  BY <1>3, <1>5, <1>7, NoneAssumption DEF Grows
<1>9. pc'[c] # "processed"
  BY DEF Carries
<1>10. QED
  BY <1>0, <1>1, <1>2, <1>3, <1>4, <1>5, <1>8, <1>9 DEF CallProcessed, QueueDelivered

LEMMA FailedProcessed ==
    ASSUME TypeInv, Grows, NEW c \in Calls, CallProcessed(c), NotProvisioned(c)
    PROVE  CallProcessed(c)'
<1>1. /\ pc'[c] = IF frame[c].queue = <<>> THEN "idle" ELSE "failed"
      /\ frame'[c].queue = frame[c].queue
  BY NotProvisionedMoves DEF TypeInv
<1>2. CASE frame[c].queue = <<>>
  BY <1>1, <1>2, NoQueueProcessed
<1>3. CASE frame[c].queue # <<>>
  BY <1>1, <1>3, AtHead, QueueStays, QuietProcessed
     DEF Labels, Closing, Settling, Provisioning
<1>4. QED
  BY <1>2, <1>3

LEMMA ReturnProcessed ==
    ASSUME TypeInv, NEW c \in Calls, Return(c)
    PROVE  CallProcessed(c)'
BY ReturnMoves, NoQueueProcessed DEF TypeInv, NoFrame

\* provisionOrder returned ok for an order that is provisioned now.
LEMMA OkProcessed ==
    ASSUME TypeInv, Grows, NEW c \in Calls, CallProcessed(c), Provisioned(c),
           pc[c] \in Settling, provisionings'[frame[c].order] > 0
    PROVE  CallProcessed(c)'
<1>1. /\ pc'[c] = IF frame[c].queue = <<>> THEN "idle" ELSE "entity"
      /\ frame'[c].queue = frame[c].queue
      /\ frame[c].queue # <<>> => frame'[c].at = frame[c].at + 1
  BY ProvisionedMoves DEF TypeInv
<1>2. CASE frame[c].queue = <<>>
  BY <1>1, <1>2, NoQueueProcessed
<1>3. CASE frame[c].queue # <<>>
  <2>0. PICK e \in Events, j \in Nat : e = EventOf(c) /\ j = frame[c].at
    BY <1>3, AtHead DEF TypeInv, CallTypes, Frame
  <2>1. evStatus[e] # "absent"
    BY <1>3, <2>0, AtHead
  <2>2. /\ j <= Len(payload[e])
        /\ payload[e][j] # None
        /\ paidTo[payload[e][j]] = frame[c].order
    BY <1>3, <2>0 DEF CallProcessed
  <2>3. j \in 1 .. Len(payload[e]) /\ frame[c].order \in Orders
    BY <1>3, <2>0, <2>2, AtHead DEF TypeInv, CallShape, CallTypes, Frame
  <2>4. payload[e][j] \in Payments
    BY <2>1, <2>2, <2>3, ElementOfSeq DEF TypeInv, EventTypes
  <2>5. /\ paidTo'[payload[e][j]] = frame[c].order
        /\ payload'[e] = payload[e]
    BY <2>1, <2>2, <2>3, <2>4, NoneAssumption DEF Grows
  <2>6. EntityDone(e, j)'
    BY <2>5 DEF EntityDone
  <2>7. QED
    BY <1>1, <1>3, <2>0, <2>6, NextEntity
<1>4. QED
  BY <1>2, <1>3

\* A status that says provisioned is counted.
LEMMA ProvisionedCounts ==
    ASSUME TypeInv, NEW c \in Calls, CallStep(c), Grows,
           \A o \in Orders : status[o] = "provisioned" => provisionings[o] > 0
    PROVE  \A o \in Orders : status'[o] = "provisioned" => provisionings'[o] > 0
<1> SUFFICES ASSUME NEW o \in Orders, status'[o] = "provisioned"
             PROVE  provisionings'[o] > 0
  OBVIOUS
<1>1. CASE status[o] = "provisioned"
  BY <1>1 DEF Grows
<1>2. CASE status[o] # "provisioned"
  <2>1. Finish(c) /\ frame[c].order = o
    BY <1>2, Writers DEF Settle, Finish, TypeInv, OrderTypes
  <2>2. provisionings'[o] = provisionings[o] + 1
    BY <2>1 DEF Finish, TypeInv, OrderTypes
  <2>3. QED
    BY <2>2 DEF TypeInv, OrderTypes
<1>3. QED
  BY <1>1, <1>2

LEMMA HandlersProcessed ==
    ASSUME TypeInv, ProcessedInv, Grows, NEW c \in Calls, Handle(c)
    PROVE  CallProcessed(c)'
<1>1. CallProcessed(c)
  BY DEF ProcessedInv
<1>2. CASE MarkProcessing(c)
  <2>1. frame[c].queue # <<>>
    BY <1>2 DEF MarkProcessing, TypeInv, CallShape
  <2>2. /\ pc'[c] \in {"skipped", "entity"} /\ frame'[c].at = 1
        /\ frame'[c].queue = frame[c].queue
    BY <1>2, MarkProcessingMoves DEF TypeInv
  <2>3. QueueDelivered(c)' /\ Len(payload[EventOf(c)]) \in Nat
    BY <1>1, <2>1, <2>2, AtHead, QueueStays
  <2>4. \A i \in 1 .. Len(payload'[EventOf(c)']) : ~(i < 1)
    OBVIOUS
  <2>5. QED
    BY <2>2, <2>3, <2>4 DEF CallProcessed, QueueDelivered, Settling, Provisioning
<1>3. CASE SkipEntity(c)
  <2>1. PICK e \in Events, j \in Nat : e = EventOf(c) /\ j = frame[c].at
    BY <1>3, EntityOfCall DEF SkipEntity
  <2>2. /\ frame[c].queue # <<>> /\ pc[c] = "entity" /\ payload[e][j] = None
        /\ payload' = payload
    BY <1>3, <2>1, EntityOfCall DEF SkipEntity, eventRows
  <2>3. /\ pc'[c] = "entity" /\ frame'[c].queue = frame[c].queue
        /\ frame'[c].at = frame[c].at + 1
    BY <1>3, SkipEntityMoves DEF TypeInv
  <2>4. EntityDone(e, j)'
    BY <2>2 DEF EntityDone
  <2>5. QED
    BY <1>1, <2>1, <2>2, <2>3, <2>4, NextEntity
<1>4. CASE MatchOrder(c)
  <2>1. PICK e \in Events, j \in Nat : e = EventOf(c) /\ j = frame[c].at
    BY <1>4, EntityOfCall DEF MatchOrder
  <2>2. /\ frame[c].queue # <<>> /\ pc[c] = "entity"
        /\ j <= Len(payload[e]) /\ payload[e][j] # None
        /\ payload' = payload /\ paidTo' = paidTo /\ provisionings' = provisionings
    BY <1>4, <2>1, EntityOfCall DEF MatchOrder, eventRows, money
  <2>3. /\ pc'[c] = "record" /\ frame'[c].order = paidTo[payload[e][j]]
        /\ frame'[c].queue = frame[c].queue /\ frame'[c].at = j
    BY <1>4, <2>1, MatchOrderMoves
  <2>4. EventOf(c)' = e /\ QueueDelivered(c)'
    BY <1>1, <2>1, <2>2, <2>3, AtHead, QueueStays DEF EventOf
  <2>5. \A i \in 1 .. Len(payload[e]) : i < j => EntityDone(e, i)'
    BY <1>1, <2>1, <2>2 DEF CallProcessed, EntityDone
  <2>6. QED
    BY <2>2, <2>3, <2>4, <2>5 DEF CallProcessed, QueueDelivered
<1>5. CASE EntitiesDone(c)
  <2>1. PICK e \in Events, j \in Nat : e = EventOf(c) /\ j = frame[c].at
    BY <1>5, EntityOfCall DEF EntitiesDone
  <2>2. /\ frame[c].queue # <<>> /\ pc[c] = "entity"
        /\ j > Len(payload[e]) /\ Len(payload[e]) \in Nat
        /\ payload' = payload /\ paidTo' = paidTo /\ provisionings' = provisionings
    BY <1>5, <2>1, EntityOfCall DEF EntitiesDone, eventRows, money, history
  <2>3. pc'[c] = "processed" /\ frame'[c] = frame[c]
    BY <1>5, GotoMoves DEF EntitiesDone, TypeInv, Labels, Closing
  <2>4. EventOf(c)' = e /\ QueueDelivered(c)'
    BY <1>1, <2>1, <2>2, <2>3, AtHead, QueueStays DEF EventOf
  <2>5. \A i \in 1 .. Len(payload[e]) : EntityDone(e, i)'
    BY <1>1, <2>1, <2>2 DEF CallProcessed, EntityDone
  <2>6. QED
    BY <2>2, <2>3, <2>4, <2>5 DEF CallProcessed, QueueDelivered, Settling, Provisioning
<1>6. CASE CloseEvent(c)
  <2>1. frame[c].queue # <<>>
    BY <1>6 DEF CloseEvent, TypeInv, CallShape, Closing
  <2>2. /\ pc'[c] = IF Tail(frame[c].queue) = <<>> THEN "idle" ELSE "mark"
        /\ frame'[c].queue = Tail(frame[c].queue)
    BY <1>6, <2>1, CloseEventMoves DEF TypeInv
  <2>3. /\ QueueDelivered(c) /\ frame[c].queue \in Seq(Events)
        /\ Len(frame[c].queue) \in Nat
    BY <1>1, <2>1, AtHead, LenProperties
  <2>4. \A i \in 1 .. Len(frame[c].queue) : evStatus'[frame[c].queue[i]] # "absent"
    BY <2>3, ElementOfSeq DEF QueueDelivered, Grows
  <2>5. \A i \in 1 .. Len(Tail(frame[c].queue)) :
           /\ i + 1 \in 1 .. Len(frame[c].queue)
           /\ Tail(frame[c].queue)[i] = frame[c].queue[i + 1]
    BY <2>1, <2>3, HeadTailProperties
  <2>6. QueueDelivered(c)'
    BY <2>2, <2>4, <2>5 DEF QueueDelivered
  <2>7. QED
    BY <2>2, <2>6, QuietProcessed DEF Labels, Settling, Provisioning
<1>7. QED
  BY <1>2, <1>3, <1>4, <1>5, <1>6 DEF Handle

LEMMA OwnProcessed ==
    ASSUME TypeInv, ProcessedInv, Grows, NEW c \in Calls, CallStep(c)
    PROVE  CallProcessed(c)'
<1>1. CallProcessed(c)
  BY DEF ProcessedInv
<1>2. CASE Carries(c)
  BY <1>1, <1>2, CarriesProcessed
<1>3. CASE Handle(c)
  BY <1>3, HandlersProcessed
<1>4. CASE Request(c)
  <2>1. ASSUME NEW e \in Events, HandleInline(c, e)
        PROVE  CallProcessed(c)'
    <3>1. pc'[c] = "mark" /\ frame'[c].queue = <<e>>
      BY <2>1, HandleInlineMoves DEF TypeInv
    <3>2. evStatus'[e] # "absent"
      BY <2>1 DEF HandleInline, ProcessedInv, Grows
    <3>3. QueueDelivered(c)'
      BY <3>1, <3>2 DEF QueueDelivered
    <3>4. QED
      BY <3>1, <3>3, QuietProcessed DEF Labels, Settling, Provisioning
  <2>2. CASE Sweep(c)
    <3>1. /\ pc'[c] = "mark"
          /\ \A i \in 1 .. Len(frame'[c].queue) : frame'[c].queue[i] \in Pending
      BY <2>2, SweepMoves DEF TypeInv
    <3>2. QueueDelivered(c)'
      BY <3>1 DEF QueueDelivered, Pending, Grows
    <3>3. QED
      BY <3>1, <3>2, QuietProcessed DEF Labels, Settling, Provisioning
  <2>3. ASSUME NEW o \in Orders, NEW card \in BOOLEAN, LoadChargeable(c, o, card)
        PROVE  CallProcessed(c)'
    BY <2>3, LoadChargeableMoves, NoQueueProcessed
  <2>4. QED
    BY <1>4, <2>1, <2>2, <2>3 DEF Request
<1>5. CASE Pay(c) /\ ~Carries(c)
  <2>1. Return(c)
    <3>1. CASE ChargeDeclined(c)
      BY <3>1 DEF ChargeDeclined
    <3>2. CASE BookRejected(c)
      BY <1>5, <3>2, BookRejectedMoves DEF TypeInv, Carries
    <3>3. ~ChargeSucceeds(c) /\ ~RecordPayment(c) /\ ~Settle(c)
      <4>1. ASSUME ChargeSucceeds(c) PROVE Carries(c)
        BY <4>1, GotoMoves DEF ChargeSucceeds, TypeInv, Labels, Settling, Carries
      <4>2. ASSUME RecordPayment(c) PROVE Carries(c)
        BY <4>2, GotoMoves DEF RecordPayment, TypeInv, Labels, Settling, Carries
      <4>3. ASSUME Settle(c) PROVE Carries(c)
        BY <4>3, SettleMoves DEF TypeInv, Carries
      <4>4. QED
        BY <1>5, <4>1, <4>2, <4>3
    <3>4. ASSUME NEW p \in Payments, Book(c, p)
          PROVE  FALSE
      BY <1>5, <3>4, BookMoves DEF TypeInv, Carries
    <3>5. QED
      BY <1>5, <3>1, <3>2, <3>3, <3>4 DEF Pay
  <2>2. QED
    BY <2>1, ReturnProcessed
<1>6. CASE Provision(c) /\ ~Carries(c)
  <2>1. CASE NotProvisioned(c)
    BY <1>1, <2>1, FailedProcessed
  <2>2. CASE Provisioned(c) /\ LoadOrder(c) /\ Verdict(frame[c].order) = "done"
    <3>1. pc[c] \in Settling /\ frame[c].order \in Orders
      BY <2>2 DEF LoadOrder, TypeInv, CallShape, Settling, Provisioning
    <3>2. provisionings'[frame[c].order] > 0
      BY <2>2, <3>1 DEF LoadOrder, Verdict, ProcessedInv, Grows
    <3>3. QED
      BY <1>1, <2>2, <3>1, <3>2, OkProcessed
  <2>3. CASE Provisioned(c) /\ Finish(c)
    <3>1. pc[c] \in Settling /\ frame[c].order \in Orders
      BY <2>3 DEF Finish, TypeInv, CallShape, Settling, Provisioning
    <3>2. /\ provisionings'[frame[c].order] = provisionings[frame[c].order] + 1
          /\ provisionings[frame[c].order] \in Nat
      BY <2>3, <3>1 DEF Finish, TypeInv, OrderTypes
    <3>3. provisionings'[frame[c].order] > 0
      BY <3>2
    <3>4. QED
      BY <1>1, <2>3, <3>1, <3>3, OkProcessed
  <2>4. LoadOrder(c) => NotProvisioned(c) \/ (Provisioned(c) /\ Verdict(frame[c].order) = "done")
    <3>1. ASSUME Verdict(frame[c].order) = "resolve", Goto(c, "resolve"), UNCHANGED frame,
                 LoadOrder(c)
          PROVE  Carries(c)
      BY <3>1, GotoMoves DEF TypeInv, Labels, Settling, Provisioning, Carries
    <3>2. QED
      BY <1>6, <3>1 DEF LoadOrder
  <2>5. ~ResolveOrg(c) /\ ~PickSlug(c) /\ ~Entitle(c)
    <3>1. ASSUME ResolveOrg(c) PROVE ~Leaves(c)
      <4>1. frame[c].order \in Orders
        BY <3>1 DEF ResolveOrg, TypeInv, CallShape, Settling, Provisioning
      <4>2. pc'[c] \in {"slug", "entitle"}
        BY <3>1, <4>1, ResolveOrgMoves DEF TypeInv
      <4>3. QED
        BY <4>2 DEF Leaves, Settling, Provisioning
    <3>2. ASSUME PickSlug(c) PROVE ~Leaves(c)
      BY <3>2, PickSlugMoves DEF TypeInv, Leaves, Settling, Provisioning
    <3>3. ASSUME Entitle(c) PROVE ~Leaves(c)
      <4>1. pc'[c] \in {"subscribe", "finish"}
        BY <3>3 DEF Entitle, Goto, TypeInv, CallTypes
      <4>2. QED
        BY <4>1 DEF Leaves, Settling, Provisioning
    <3>4. QED
      BY <1>6, <3>1, <3>2, <3>3, ProvisioningsStep DEF Provision
  <2>6. CreateOrg(c) => NotProvisioned(c)
    <3>1. CreateOrg(c) => frame[c].order \in Orders
      BY DEF CreateOrg, TypeInv, CallShape, Settling, Provisioning
    <3>2. QED
      BY <1>6, <3>1, CreateOrgMoves DEF TypeInv, Carries
  <2>7. Subscribe(c) => NotProvisioned(c)
    BY <1>6, SubscribeMoves DEF TypeInv, Carries
  <2>8. QED
    BY <1>6, <2>1, <2>2, <2>3, <2>4, <2>5, <2>6, <2>7 DEF Provision, Finish
<1>7. CASE Throw(c)
  BY <1>1, <1>7, FailedProcessed DEF Throw
<1>8. CASE Abandon(c)
  BY <1>8, ReturnProcessed DEF Abandon
<1>9. QED
  BY <1>2, <1>3, <1>4, <1>5, <1>6, <1>7, <1>8 DEF CallStep, Advance

LEMMA CallStepProcessed ==
    ASSUME TypeInv, ProcessedInv, Grows, NEW c \in Calls, CallStep(c)
    PROVE  ProcessedInv'
<1>1. Moved(c)
  BY StepKinds
<1>2. ASSUME NEW d \in Calls
      PROVE  CallProcessed(d)'
  <2>1. CASE d = c
    BY <2>1, OwnProcessed
  <2>2. CASE d # c
    BY <1>1, <2>2, StandsStill DEF Moved, ProcessedInv
  <2>3. QED
    BY <2>1, <2>2
<1>3. \A o \in Orders : status'[o] = "provisioned" => provisionings'[o] > 0
  BY ProvisionedCounts DEF ProcessedInv
<1>4. \A e \in fresh' : evStatus'[e] # "absent"
  BY Writers DEF ProcessedInv, Grows, TypeInv, EventTypes
<1>5. ASSUME NEW e \in Events, evStatus'[e] = "processed",
             NEW i \in 1 .. Len(payload'[e])
      PROVE  EntityDone(e, i)'
  <2>1. payload' = payload /\ evStatus[e] # "absent"
    <3>1. evStatus[e] = "absent" => evStatus'[e] = evStatus[e]
      <4>1. CASE MarkProcessing(c) \/ CloseEvent(c)
        <5>1. frame[c].queue # <<>>
          BY <4>1 DEF MarkProcessing, CloseEvent, TypeInv, CallShape, Closing
        <5>2. EventOf(c) \in Events /\ evStatus[EventOf(c)] # "absent"
          BY <5>1, AtHead DEF ProcessedInv
        <5>3. QED
          BY <4>1, <5>2 DEF MarkProcessing, CloseEvent, TypeInv, EventTypes
      <4>2. QED
        BY <4>1, Writers
    <3>2. QED
      BY <1>5, <3>1, Writers
  <2>2. CASE evStatus[e] = "processed"
    <3>1. EntityDone(e, i)
      BY <1>5, <2>1, <2>2, LenProperties
         DEF ProcessedInv, ProcessedMeansProvisioned, EntityDone, TypeInv, EventTypes
    <3>2. QED
      BY <1>5, <2>1, <3>1, DoneStays
  <2>3. CASE evStatus[e] # "processed"
    <3>1. CloseEvent(c) /\ EventOf(c) = e /\ pc[c] = "processed"
      BY <1>5, <2>3, Writers DEF MarkProcessing, CloseEvent, Outcome, TypeInv, EventTypes
    <3>2. EntityDone(e, i)
      BY <1>5, <2>1, <3>1 DEF TypeInv, CallShape, Closing, ProcessedInv, CallProcessed
    <3>3. QED
      BY <1>5, <2>1, <3>2, DoneStays
  <2>4. QED
    BY <2>2, <2>3
<1>6. ProcessedMeansProvisioned'
  BY <1>5, LenProperties, NextTypes
     DEF ProcessedMeansProvisioned, EntityDone, CallStep, Next, TypeInv, EventTypes
<1>7. QED
  BY <1>2, <1>3, <1>4, <1>6 DEF ProcessedInv

LEMMA ProcessedStep ==
    ASSUME TypeInv, ProcessedInv, [Next]_vars
    PROVE  ProcessedInv'
<1>1. CASE UNCHANGED vars
  BY <1>1 DEF vars, orderRows, money, eventRows, history, ProcessedInv, EventOf,
     ProcessedMeansProvisioned, CallProcessed, EntityDone
<1>2. CASE Environment
  <2>1. UNCHANGED <<pc, frame, status, provisionings>> /\ Grows
    BY <1>2, EnvironmentWrites, RowsGrow DEF Next
  <2>2. \A c \in Calls : CallProcessed(c)'
    BY <2>1, StandsStill DEF ProcessedInv
  <2>3. /\ \A e \in fresh' : evStatus'[e] # "absent"
        /\ \A e \in Events : evStatus'[e] = "processed" => evStatus[e] = "processed"
    BY <1>2 DEF Environment, BuyerPays, Deliver, OrgAppears, money, eventRows,
       ProcessedInv, TypeInv, EventTypes
  <2>4. ASSUME NEW e \in Events, evStatus'[e] = "processed",
               NEW i \in DOMAIN payload'[e], payload'[e][i] # None
        PROVE  provisionings'[paidTo'[payload'[e][i]]] > 0
    <3>1. evStatus[e] = "processed" /\ payload'[e] = payload[e]
      BY <2>1, <2>3, <2>4 DEF Grows
    <3>2. EntityDone(e, i) /\ i \in 1 .. Len(payload[e])
      BY <2>4, <3>1, LenProperties
         DEF ProcessedInv, ProcessedMeansProvisioned, EntityDone, TypeInv, EventTypes
    <3>3. EntityDone(e, i)'
      BY <2>1, <3>1, <3>2, DoneStays
    <3>4. QED
      BY <2>4, <3>3 DEF EntityDone
  <2>5. QED
    BY <2>1, <2>2, <2>3, <2>4 DEF ProcessedInv, ProcessedMeansProvisioned
<1>3. ASSUME NEW c \in Calls, CallStep(c)
      PROVE  ProcessedInv'
  BY <1>3, RowsGrow, CallStepProcessed DEF CallStep, Next
<1>4. QED
  BY <1>1, <1>2, <1>3 DEF Next, CallStep

\* An event is filed as processed only when every order it pays for has been
\* provisioned, though two calls may handle it and others its orders.
THEOREM TheProcessedAreProvisioned == Spec => []ProcessedMeansProvisioned
<1>1. Init => ProcessedInv
  BY DEF Init, ProcessedInv, ProcessedMeansProvisioned, CallProcessed, NoFrame
<1>2. TypeInv /\ ProcessedInv /\ [Next]_vars => ProcessedInv'
  BY ProcessedStep
<1>3. ProcessedInv => ProcessedMeansProvisioned
  BY DEF ProcessedInv
<1>4. QED
  BY <1>1, <1>2, <1>3, Typed, PTL DEF Spec

-----------------------------------------------------------------------------
(***************************************************************************)
(* One organization per domain.                                            *)
(***************************************************************************)

LEMMA DomainIsKnown == \A o \in Orders : CompanyDomain(o) # None
BY BuyerAssumption DEF CompanyDomain

IsFounding(c) == pc[c] \in {"slug", "create_org"}

\* A call founds after a search that found nothing, and until its insert.
LEMMA BeginsToFound ==
    ASSUME TypeInv, NEW c \in Calls, CallStep(c), IsFounding(c)'
    PROVE  /\ frame'[c].order = frame[c].order /\ frame[c].order \in Orders
           /\ orgs' = orgs
           /\ \/ IsFounding(c) /\ raced' = raced
              \/ /\ ResolveOrg(c) /\ ExistingOrg(frame[c].order) = 0
<1>1. ~Leaves(c)
  BY DEF Leaves, IsFounding, Settling, Provisioning
<1>2. ~MatchOrder(c)
  BY MatchOrderMoves DEF IsFounding
<1>3. ASSUME NEW o \in Orders, NEW card \in BOOLEAN, LoadChargeable(c, o, card)
      PROVE  FALSE
  <2>1. pc'[c] = IF card THEN "charge" ELSE "book"
    BY <1>3, LoadChargeableMoves
  <2>2. QED
    BY <2>1 DEF IsFounding
<1>4. Carries(c)
  BY <1>1, <1>2, <1>3, StepKinds
<1>5. \/ PickSlug(c)
      \/ ResolveOrg(c) /\ ExistingOrg(frame[c].order) = 0
  BY <1>4 DEF Carries, IsFounding
<1>6. QED
  BY <1>4, <1>5, Carried DEF PickSlug, ResolveOrg, orgRows, history, IsFounding

LEMMA CallStepDomain ==
    ASSUME TypeInv, DomainInv, NEW c \in Calls, CallStep(c)
    PROVE  DomainInv'
<1>1. \A d \in Calls : d # c => pc'[d] = pc[d] /\ frame'[d] = frame[d]
  BY StepKinds DEF Moved
<1>2. raced \subseteq raced' /\ Len(orgs) \in Nat /\ DOMAIN orgs = 1 .. Len(orgs)
  BY Writers, LenProperties DEF ResolveOrg, TypeInv, OrgTypes
<1>3. CASE orgs' = orgs
  <2>1. OneOrgPerDomain'
    BY <1>2, <1>3 DEF DomainInv, OneOrgPerDomain
  <2>2. ASSUME NEW b \in Calls, IsFounding(b)', NEW d, d = CompanyDomain(frame'[b].order),
               d \notin raced'
        PROVE  /\ \A e \in Calls : IsFounding(e)' /\ CompanyDomain(frame'[e].order) = d
                                      => e = b
               /\ \A g \in DOMAIN orgs : orgs[g].domain # d
    <3>1. \A e \in Calls : IsFounding(e) /\ CompanyDomain(frame[e].order) = d =>
             /\ \A f \in Calls : IsFounding(f) /\ CompanyDomain(frame[f].order) = d => f = e
             /\ \A g \in DOMAIN orgs : orgs[g].domain # d
      BY <1>2, <2>2 DEF DomainInv, IsFounding, Founding
    <3>2. CASE /\ IsFounding(c)' /\ ~IsFounding(c)
               /\ CompanyDomain(frame'[c].order) = d
      <4>1. /\ ResolveOrg(c) /\ ExistingOrg(frame[c].order) = 0
            /\ frame[c].order \in Orders /\ CompanyDomain(frame[c].order) = d
        BY <3>2, BeginsToFound
      <4>2. Founding(d) = {}
        BY <2>2, <4>1 DEF ResolveOrg
      <4>3. \A g \in DOMAIN orgs : orgs[g].domain # d
        BY <4>1, ExistingOrgIsARow DEF TypeInv
      <4>4. \A e \in Calls : IsFounding(e)' /\ CompanyDomain(frame'[e].order) = d => e = c
        BY <1>1, <4>2 DEF Founding, IsFounding
      <4>5. QED
        BY <2>2, <4>3, <4>4
    <3>3. CASE ~(/\ IsFounding(c)' /\ ~IsFounding(c)
                 /\ CompanyDomain(frame'[c].order) = d)
      <4>1. \A e \in Calls : IsFounding(e)' /\ CompanyDomain(frame'[e].order) = d
                                => IsFounding(e) /\ CompanyDomain(frame[e].order) = d
        BY <1>1, <3>3, BeginsToFound DEF IsFounding
      <4>2. QED
        BY <2>2, <3>1, <4>1
    <3>4. QED
      BY <3>2, <3>3
  <2>3. QED
    BY <1>3, <2>1, <2>2 DEF DomainInv, IsFounding, Founding
<1>4. CASE orgs' # orgs
  <2> DEFINE own == CompanyDomain(frame[c].order)
             row == Founded(frame[c].order, frame[c].slug)
  <2>1. CreateOrg(c) /\ raced' = raced /\ pc[c] = "create_org" /\ frame[c].order \in Orders
    BY <1>4, Writers DEF CreateOrg, history, TypeInv, CallShape, Settling, Provisioning
  <2>2. orgs' = Append(orgs, row) /\ row \in OrgRow /\ pc'[c] = "entitle"
    BY <1>4, <2>1, CreateOrgMoves DEF TypeInv
  <2>3. row.domain = own
    BY DEF Founded
  <2>4. own \notin raced => /\ \A e \in Calls : IsFounding(e) /\ CompanyDomain(frame[e].order) = own
                                                 => e = c
                            /\ \A g \in DOMAIN orgs : orgs[g].domain # own
    BY <2>1 DEF DomainInv, Founding, IsFounding
  <2> HIDE DEF own, row
  <2>5. /\ DOMAIN orgs' = 1 .. (Len(orgs) + 1)
        /\ orgs'[Len(orgs) + 1].domain = own
        /\ \A g \in 1 .. Len(orgs) : orgs'[g] = orgs[g]
    BY <1>2, <2>2, <2>3, AppendProperties, LenProperties DEF TypeInv, OrgTypes
  <2>6. OneOrgPerDomain'
    BY <1>2, <2>1, <2>4, <2>5 DEF DomainInv, OneOrgPerDomain
  <2>7. ASSUME NEW b \in Calls, IsFounding(b)', NEW d, d = CompanyDomain(frame'[b].order),
               d \notin raced'
        PROVE  /\ \A e \in Calls : IsFounding(e)' /\ CompanyDomain(frame'[e].order) = d
                                      => e = b
               /\ \A g \in DOMAIN orgs' : orgs'[g].domain # d
    <3>1. b # c /\ IsFounding(b) /\ CompanyDomain(frame[b].order) = d
      BY <1>1, <2>2, <2>7 DEF IsFounding
    <3>2. /\ \A e \in Calls : IsFounding(e) /\ CompanyDomain(frame[e].order) = d => e = b
          /\ \A g \in DOMAIN orgs : orgs[g].domain # d
      BY <2>1, <2>7, <3>1 DEF DomainInv, IsFounding, Founding
    <3>3. d # own
      BY <2>1, <2>4, <2>7, <3>1
    <3>4. QED
      BY <1>1, <1>2, <2>2, <2>5, <3>2, <3>3 DEF IsFounding
  <2>8. QED
    BY <2>6, <2>7 DEF DomainInv, IsFounding, Founding
<1>5. QED
  BY <1>3, <1>4

LEMMA DomainStep ==
    ASSUME TypeInv, DomainInv, [Next]_vars
    PROVE  DomainInv'
<1>1. CASE UNCHANGED vars
  BY <1>1 DEF vars, orgRows, history, DomainInv, OneOrgPerDomain, Founding
<1>2. CASE Environment
  <2>1. UNCHANGED <<pc, frame, raced>>
    BY <1>2, EnvironmentWrites
  <2>2. CASE orgs' = orgs
    BY <2>1, <2>2 DEF DomainInv, OneOrgPerDomain, Founding
  <2>3. ASSUME NEW o \in Orders, OrgAppears(OrgName(o))
        PROVE  DomainInv'
    <3>1. orgs' = Append(orgs, Foreign(o)) /\ Foreign(o) \in OrgRow
      BY <2>3 DEF OrgAppears, Foreign, OrgRow
    <3>2. Foreign(o).domain = None
      BY DEF Foreign
    <3>3. /\ Len(orgs) \in Nat /\ DOMAIN orgs = 1 .. Len(orgs)
          /\ DOMAIN orgs' = 1 .. (Len(orgs) + 1)
          /\ orgs'[Len(orgs) + 1].domain = None
          /\ \A g \in 1 .. Len(orgs) : orgs'[g] = orgs[g]
      BY <3>1, <3>2, AppendProperties, LenProperties DEF TypeInv, OrgTypes
    <3>4. OneOrgPerDomain'
      BY <2>1, <3>3 DEF DomainInv, OneOrgPerDomain
    <3>5. \A c \in Calls : IsFounding(c) => CompanyDomain(frame[c].order) # None
      BY DomainIsKnown DEF IsFounding, TypeInv, CallShape, Settling, Provisioning
    <3>6. ASSUME NEW c \in Calls, IsFounding(c), NEW d, d = CompanyDomain(frame[c].order),
                 d \notin raced
          PROVE  /\ \A b \in Calls : IsFounding(b) /\ CompanyDomain(frame[b].order) = d
                                        => b = c
                 /\ \A g \in DOMAIN orgs' : orgs'[g].domain # d
      BY <3>3, <3>5, <3>6 DEF DomainInv, IsFounding, Founding
    <3>7. QED
      BY <2>1, <3>4, <3>6 DEF DomainInv, IsFounding, Founding
  <2>4. QED
    BY <1>2, <2>2, <2>3 DEF Environment, BuyerPays, Deliver, orgRows
<1>3. ASSUME NEW c \in Calls, CallStep(c)
      PROVE  DomainInv'
  BY <1>3, CallStepDomain
<1>4. QED
  BY <1>1, <1>2, <1>3 DEF Next, CallStep

\* Two organizations of one domain come only from provisionings that raced
\* between the search and the insert, for any number of buyers and calls.
THEOREM OrganizationsAreFound == Spec => []OneOrgPerDomain
<1>1. Init => DomainInv
  BY DEF Init, DomainInv, OneOrgPerDomain
<1>2. TypeInv /\ DomainInv /\ [Next]_vars => DomainInv'
  BY DomainStep
<1>3. DomainInv => OneOrgPerDomain
  BY DEF DomainInv
<1>4. QED
  BY <1>1, <1>2, <1>3, Typed, PTL DEF Spec
=============================================================================
