------------------------ MODULE AgentTriggersProofs ------------------------
(***************************************************************************)
(* What holds of AgentTriggers for any numbers of triggers, ticks and      *)
(* operators, any expressions, metrics, periods, cooldown and bounds: a    *)
(* slot is fired once, a threshold fires on rising edges only and swallows *)
(* none, and an enabled trigger keeps its schedule.                        *)
(*                                                                         *)
(* The inductive invariants speak of the copies a tick has still to deal   *)
(* with (Pending) as well as of the rows: a copy outlives edits, deletions *)
(* and other ticks, and only what it says when it is used matters.         *)
(***************************************************************************)
EXTENDS AgentTriggers, FiniteSetTheorems, SequenceTheorems, TLAPS

-----------------------------------------------------------------------------
(***************************************************************************)
(* The inductive invariant.                                                *)
(***************************************************************************)
Passes == {"cron", "threshold", "stamp", "fire", "success", "failure"}
Edits  == {"update", "enable", "disable", "delete"}

Copies == [id : Triggers, row : Row]
Frames == [now : Nat, list : Seq(Copies)]

\* The columns and what the history records of them.
TablesOK ==
    /\ clock \in Nat /\ clock <= MaxTime
    /\ rows \in [Triggers -> Row \cup {None}]
    /\ readable \subseteq What
    /\ used \subseteq Triggers /\ IsFiniteSet(used) /\ Stored \subseteq used
    /\ \A t \in Stored : rows[t].what \in readable \/ <<"rejected", t>> \in mishaps

HistoryOK ==
    /\ served \in [Triggers -> Nat] /\ twice \subseteq Triggers
    /\ firedAt \in [Triggers -> Nat \cup {None}]
    /\ spent \subseteq used /\ answered \subseteq Triggers
    /\ \A t \in Triggers : /\ served[t] <= clock
                           /\ firedAt[t] # None => (firedAt[t] <= clock /\ t \in used)

\* A label tells who the call is and what its copies are; a tick holds a
\* trigger once.
CallOK(c) ==
    /\ frame[c].now <= clock
    /\ pc[c] = "idle" => frame[c].list = <<>>
    /\ pc[c] \in Passes => c \in Ticks
    /\ pc[c] \in Edits => (c \in Operators /\ Len(frame[c].list) = 1)
    /\ pc[c] \in {"stamp", "fire", "success", "failure"} => frame[c].list # <<>>

CopiesOK(c) ==
    LET list == frame[c].list
    IN  /\ \A i, j \in DOMAIN list : list[i].id = list[j].id => i = j
        /\ \A i \in DOMAIN list : list[i].id \in used
        /\ pc[c] = "cron" => \A i \in DOMAIN list : IsCron(list[i].row)
        /\ pc[c] \in {"threshold", "stamp"} =>
              \A i \in DOMAIN list : ~IsCron(list[i].row)
        /\ pc[c] \in Passes => \A i, j \in DOMAIN list :
                                  IsCron(list[i].row) <=> IsCron(list[j].row)
        /\ pc[c] \in Passes => \A i \in DOMAIN list :
              IsCron(list[i].row) => /\ list[i].row.nextAt # None
                                     /\ list[i].row.nextAt <= frame[c].now

CallsOK ==
    /\ pc \in [Calls -> {"idle"} \cup Passes \cup Edits]
    /\ frame \in [Calls -> Frames]
    /\ \A c \in Calls : CallOK(c) /\ CopiesOK(c)

TypeInv == TablesOK /\ HistoryOK /\ CallsOK

\* Whoever holds a trigger together with somebody else has been noted.
ClashInv ==
    \A c, d \in Calls :
        c # d => \A t \in Held(c) \cap Held(d) : <<Clash(c, d), t>> \in mishaps

\* The copies a tick has not dealt with yet.
Pending(c) ==
    {frame[c].list[i] : i \in {j \in DOMAIN frame[c].list :
                                  j > 1 \/ pc[c] \in {"cron", "threshold"}}}

\* No two ticks, nor a tick and an operator, have met over the trigger.
Alone(t) == Undisturbed(t, {"ticks", "edit"})

\* A slot that is stored, about to be stored or about to be fired is later than
\* the last one fired.
SlotInv ==
    \A t \in Triggers : Alone(t) =>
        /\ t \notin twice
        /\ (t \in Stored /\ rows[t].nextAt # None) => rows[t].nextAt > served[t]
        /\ \A c \in Ticks : \A copy \in Pending(c) :
              (copy.id = t /\ IsCron(copy.row)) => copy.row.nextAt > served[t]
        /\ \A c \in Ticks :
              (pc[c] = "fire" /\ Id(c) = t /\ IsCron(Mine(c).row)) =>
                  /\ Mine(c).row.nextAt > served[t]
                  /\ (t \in Stored /\ rows[t].nextAt # None) =>
                        rows[t].nextAt > Mine(c).row.nextAt
        /\ \A d \in Operators :
              (pc[d] \in Edits /\ Id(d) = t) => served[t] <= frame[d].now

\* Where the condition is stored or copied as false, no fire is outstanding.
SpentInv ==
    \A t \in Triggers : Undisturbed(t, {"ticks"}) =>
        /\ (t \in Stored /\ ~rows[t].met) => t \notin spent
        /\ \A c \in Ticks : \A copy \in Pending(c) :
              (copy.id = t /\ ~copy.row.met) => t \notin spent

\* The last fire is not later than the row and the copies say.
NotLater(t, when) == firedAt[t] # None => (when # None /\ firedAt[t] <= when)

CooldownInv ==
    \A t \in Triggers : Undisturbed(t, {"ticks"}) =>
        /\ t \in Stored => NotLater(t, rows[t].lastFired)
        /\ \A c \in Ticks : \A copy \in Pending(c) : copy.id = t =>
              NotLater(t, IF IsCron(copy.row) THEN frame[c].now ELSE copy.row.lastFired)
        /\ \A c \in Ticks : (pc[c] \in {"stamp", "fire"} /\ Id(c) = t) =>
              NotLater(t, frame[c].now)
        /\ \A c \in Ticks : (pc[c] = "fire" /\ Id(c) = t /\ t \in Stored) =>
              /\ rows[t].lastFired # None
              /\ rows[t].lastFired >= frame[c].now

\* A condition stored or copied as met was answered, or is about to be.
Answering(c, t) == pc[c] \in {"stamp", "fire"} /\ Id(c) = t /\ ~IsCron(Mine(c).row)

EdgeInv ==
    \A t \in Triggers : Undisturbed(t, {"ticks", "edit", "died"}) =>
        /\ (t \in Stored /\ rows[t].met) =>
              (t \in answered \/ \E c \in Ticks : Answering(c, t))
        /\ \A c \in Ticks : \A copy \in Pending(c) :
              (copy.id = t /\ ~IsCron(copy.row) /\ copy.row.met) => t \in answered

\* An operator's copy names the expression the row still has.
ScheduleInv ==
    /\ EnabledHasASlot
    /\ \A c \in Operators : pc[c] \in Edits =>
          ((Id(c) \in Stored /\ Undisturbed(Id(c), {"operators"}))
              => Mine(c).row.what = rows[Id(c)].what)

-----------------------------------------------------------------------------
(***************************************************************************)
(* Operators.                                                              *)
(***************************************************************************)
LEMMA DivisionBounds ==
    ASSUME NEW t \in Nat, NEW p \in Nat \ {0}
    PROVE  (t \div p + 1) * p \in Nat /\ (t \div p + 1) * p > t
<1>1. t \div p \in Int
  OBVIOUS
<1>2. PICK q \in Int : q = t \div p
  BY <1>1
<1>3. p * q <= t /\ t < p * (q + 1)
  BY <1>2, SMT
<1>4. q >= 0
  BY <1>2, <1>3, SMT
<1>5. QED
  BY <1>2, <1>3, <1>4, SMT

\* The first slot after t, for an expression the parser accepts.
LEMMA NextSlots ==
    ASSUME NEW x, NEW t \in Nat
    PROVE  /\ NextSlot(x, t) \in Nat \cup {None}
           /\ NextSlot(x, t) # None <=> x \in Crons \cap readable
           /\ NextSlot(x, t) # None => NextSlot(x, t) > t
<1>1. CASE x \in Crons \cap readable
  BY <1>1, DivisionBounds, PeriodAssumption, BoundsAssumption DEF NextSlot
<1>2. CASE x \notin Crons \cap readable
  BY <1>2 DEF NextSlot
<1>3. QED
  BY <1>1, <1>2

LEMMA HeldIds ==
    ASSUME NEW c
    PROVE  Held(c) = {frame[c].list[i].id : i \in DOMAIN frame[c].list}
BY DEF Held, ToSet

LEMMA LongerThanNone ==
    ASSUME NEW s, Len(s) = 1
    PROVE  s # <<>>
OBVIOUS

\* A query's answer is a sequence of different rows.
LEMMA Listings ==
    ASSUME NEW S, IsFiniteSet(S), NEW s \in SetToSeqs(S)
    PROVE  /\ Limited(s) \in Seq(S)
           /\ \A i, j \in DOMAIN Limited(s) : Limited(s)[i] = Limited(s)[j] => i = j
<1> DEFINE n == Cardinality(S)
           m == IF n < TickLimit THEN n ELSE TickLimit
<1>1. n \in Nat /\ m \in 0 .. n
  BY FS_CardinalityType, BoundsAssumption
<1>2. s \in [1 .. n -> S] /\ \A i, j \in 1 .. n : i # j => s[i] # s[j]
  BY DEF SetToSeqs
<1>3. s \in Seq(S) /\ Len(s) = n
  BY <1>1, <1>2
<1>4. Limited(s) = SubSeq(s, 1, m)
  BY <1>3 DEF Limited
<1>5. /\ Limited(s) \in Seq(S) /\ Len(Limited(s)) = m
      /\ \A i \in 1 .. m : Limited(s)[i] = s[i]
  <2> HIDE DEF n, m
  <2> QED
    BY <1>1, <1>3, <1>4
<1>6. QED
  <2> HIDE DEF n, m
  <2> QED
    BY <1>1, <1>2, <1>5

-----------------------------------------------------------------------------
(***************************************************************************)
(* How a call goes on: it returns, moves on, drops the copy it has dealt   *)
(* with, or reads new ones.                                                *)
(***************************************************************************)
Onward == {clock, clock'} \subseteq Nat /\ clock <= clock' /\ used \subseteq used'

LEMMA Returning ==
    ASSUME CallsOK, Onward, NEW c \in Calls, Return(c)
    PROVE  /\ CallsOK'
           /\ Held(c)' = {} /\ Pending(c)' = {}
           /\ pc'[c] = "idle"
           /\ \A d \in Calls \ {c} : pc'[d] = pc[d] /\ frame'[d] = frame[d]
<1>1. /\ pc' = [pc EXCEPT ![c] = "idle"]
      /\ frame' = [frame EXCEPT ![c] = [now |-> 0, list |-> <<>>]]
  BY DEF Return, Goto, NoFrame
<1>2. /\ pc'[c] = "idle" /\ frame'[c] = [now |-> 0, list |-> <<>>]
      /\ \A d \in Calls \ {c} : pc'[d] = pc[d] /\ frame'[d] = frame[d]
  BY <1>1 DEF CallsOK
<1>3. /\ pc' \in [Calls -> {"idle"} \cup Passes \cup Edits]
      /\ frame' \in [Calls -> Frames]
  BY <1>1 DEF CallsOK, Frames
<1>4. \A d \in Calls : (CallOK(d) /\ CopiesOK(d))'
  BY <1>2, <1>3 DEF CallsOK, CallOK, CopiesOK, Onward, Passes, Edits, Frames
<1>5. Held(c)' = {} /\ Pending(c)' = {}
  BY <1>2, HeldIds DEF Held, ToSet, Pending
<1>6. QED
  BY <1>2, <1>3, <1>4, <1>5 DEF CallsOK

LEMMA Moving ==
    ASSUME CallsOK, Onward, NEW c \in Calls, NEW label, Goto(c, label), UNCHANGED frame,
           frame[c].list # <<>>,
           \/ pc[c] = "cron" /\ label = "fire"
           \/ pc[c] = "threshold" /\ label = "stamp"
           \/ pc[c] = "stamp" /\ label = "fire"
           \/ pc[c] = "fire" /\ label \in {"success", "failure"}
           \/ pc[c] = "success" /\ label = "failure"
    PROVE  /\ CallsOK'
           /\ Pending(c)' = Pending(c) \ {Mine(c)}
           /\ pc'[c] = label
           /\ \A d \in Calls \ {c} : pc'[d] = pc[d]
<1>1. /\ pc'[c] = label
      /\ \A d \in Calls \ {c} : pc'[d] = pc[d]
      /\ pc' \in [Calls -> {"idle"} \cup Passes \cup Edits]
      /\ frame' \in [Calls -> Frames]
  BY DEF Goto, CallsOK, Passes
<1>2. \A d \in Calls : (CallOK(d) /\ CopiesOK(d))'
  BY <1>1 DEF CallsOK, CallOK, CopiesOK, Onward, Passes, Edits, Frames
<1>3. Pending(c)' = Pending(c) \ {Mine(c)}
  <2>1. frame[c].list \in Seq(Copies) /\ 1 \in DOMAIN frame[c].list
    BY DEF CallsOK, Frames
  <2>2. \A i, j \in DOMAIN frame[c].list :
           frame[c].list[i] = frame[c].list[j] => i = j
    BY DEF CallsOK, CopiesOK
  <2>3. DOMAIN frame[c].list \subseteq Nat \ {0}
    BY <2>1
  <2>4. QED
    BY <1>1, <2>1, <2>2, <2>3 DEF Pending, Mine
<1>4. QED
  BY <1>1, <1>2, <1>3 DEF CallsOK

LEMMA Continuing ==
    ASSUME CallsOK, Onward, NEW c \in Calls, Continue(c),
           pc[c] \in {"cron", "threshold", "success", "failure"},
           frame[c].list # <<>>
    PROVE  /\ CallsOK'
           /\ Held(c)' \subseteq Held(c)
           /\ Pending(c)' = Pending(c) \ {Mine(c)}
           /\ frame'[c].now = frame[c].now
           /\ pc'[c] = IF IsCron(Mine(c).row) THEN "cron" ELSE "threshold"
           /\ \A d \in Calls \ {c} : pc'[d] = pc[d] /\ frame'[d] = frame[d]
<1> DEFINE list == frame[c].list
           label == IF IsCron(Mine(c).row) THEN "cron" ELSE "threshold"
<1>1. /\ list \in Seq(Copies) /\ 1 \in DOMAIN list
      /\ frame[c].now \in Nat
      /\ frame[c] = [now |-> frame[c].now, list |-> list]
  BY DEF CallsOK, Frames
<1>2. PICK rest \in Seq(Copies) :
         /\ rest = Tail(list)
         /\ DOMAIN rest = 1 .. Len(list) - 1
         /\ \A i \in DOMAIN rest : i + 1 \in DOMAIN list /\ rest[i] = list[i + 1]
  <2>1. Tail(list) \in Seq(Copies) /\ Len(Tail(list)) = Len(list) - 1
    BY <1>1, HeadTailProperties
  <2>2. \A i \in 1 .. Len(list) - 1 : Tail(list)[i] = list[i + 1]
    BY <1>1, HeadTailProperties
  <2>3. DOMAIN Tail(list) = 1 .. Len(list) - 1
    BY <2>1
  <2>4. DOMAIN list = 1 .. Len(list) /\ Len(list) \in Nat
    BY <1>1
  <2>5. \A i \in 1 .. Len(list) - 1 : i + 1 \in 1 .. Len(list)
    BY <2>4
  <2> HIDE DEF list
  <2>6. QED
    BY <2>1, <2>2, <2>3, <2>4, <2>5
<1>3. /\ frame'[c].now = frame[c].now /\ frame'[c].list = rest
      /\ pc'[c] = label
      /\ \A d \in Calls \ {c} : pc'[d] = pc[d] /\ frame'[d] = frame[d]
      /\ pc' \in [Calls -> {"idle"} \cup Passes \cup Edits]
      /\ frame' \in [Calls -> Frames]
  BY <1>1, <1>2 DEF Continue, Goto, CallsOK, Passes, Frames
<1>4. \A d \in Calls \ {c} : (CallOK(d) /\ CopiesOK(d))'
  BY <1>3 DEF CallsOK, CallOK, CopiesOK, Onward, Passes, Edits, Frames
<1>5. CallOK(c)'
  BY <1>1, <1>2, <1>3 DEF CallsOK, CallOK, Onward, Passes, Edits, Frames
<1>6. CopiesOK(c)'
  <2>1. /\ CopiesOK(c) /\ c \in Ticks
        /\ \A i \in DOMAIN list : IsCron(list[i].row) <=> IsCron(Mine(c).row)
    BY <1>1 DEF CallsOK, CallOK, CopiesOK, Passes, Mine
  <2>2. DOMAIN rest \subseteq Nat
    BY <1>2
  <2>3. \A i, j \in DOMAIN rest : rest[i].id = rest[j].id => i = j
    BY <1>2, <2>1, <2>2 DEF CopiesOK
  <2>4. QED
    BY <1>2, <1>3, <2>1, <2>2, <2>3 DEF CopiesOK, Onward, Passes, Edits, IsCron
<1>7. Held(c)' \subseteq Held(c)
  BY <1>1, <1>2, <1>3, HeldIds DEF Held, ToSet
<1>8. Pending(c)' = Pending(c) \ {Mine(c)}
  <2>1. \A i, j \in DOMAIN list : list[i] = list[j] => i = j
    BY DEF CallsOK, CopiesOK
  <2>2. Pending(c)' = {rest[i] : i \in DOMAIN rest}
    BY <1>3 DEF Pending
  <2>3. \A i \in DOMAIN list : i > 1 => (i - 1 \in DOMAIN rest /\ rest[i - 1] = list[i])
    BY <1>1, <1>2
  <2>4. DOMAIN rest \subseteq Nat \ {0} /\ DOMAIN list \subseteq Nat \ {0}
    BY <1>1, <1>2
  <2>5. Pending(c) \ {Mine(c)} = {list[i] : i \in {j \in DOMAIN list : j > 1}}
    BY <1>1, <2>1, <2>4 DEF Pending, Mine
  <2>6. {rest[i] : i \in DOMAIN rest} = {list[i] : i \in {j \in DOMAIN list : j > 1}}
    BY <1>2, <2>3, <2>4
  <2>7. QED
    BY <2>2, <2>5, <2>6
<1>9. QED
  BY <1>3, <1>4, <1>5, <1>6, <1>7, <1>8 DEF CallsOK

LEMMA Acquiring ==
    ASSUME TablesOK, CallsOK, Onward, NEW c \in Calls,
           NEW ids \in Seq(Stored), NEW time \in Nat, NEW label,
           \A i, j \in DOMAIN ids : ids[i] = ids[j] => i = j,
           frame[c].list = <<>>, time <= clock, Acquire(c, ids, time, label),
           \/ label \in Edits /\ c \in Operators /\ Len(ids) = 1
           \/ /\ label = "cron" /\ c \in Ticks
              /\ \A i \in DOMAIN ids : /\ IsCron(rows[ids[i]])
                                       /\ rows[ids[i]].nextAt # None
                                       /\ rows[ids[i]].nextAt <= time
           \/ /\ label = "threshold" /\ c \in Ticks
              /\ \A i \in DOMAIN ids : ~IsCron(rows[ids[i]])
    PROVE  /\ CallsOK'
           /\ Held(c)' = ToSet(ids)
           /\ \A i \in DOMAIN frame'[c].list :
                 LET copy == frame'[c].list[i]
                 IN  copy.id \in Stored /\ copy.row = rows[copy.id]
           /\ frame'[c].now = time
           /\ pc'[c] = label
           /\ \A d \in Calls \ {c} : pc'[d] = pc[d] /\ frame'[d] = frame[d]
<1> DEFINE list == [i \in DOMAIN ids |-> [id |-> ids[i], row |-> rows[ids[i]]]]
<1>1. /\ ids \in Seq(Stored) /\ DOMAIN ids = 1 .. Len(ids) /\ Len(ids) \in Nat
      /\ \A i \in DOMAIN ids : ids[i] \in Stored
  OBVIOUS
<1>2. /\ Stored \subseteq Triggers /\ Stored \subseteq used
      /\ \A t \in Stored : rows[t] \in Row
  BY DEF TablesOK, Stored
<1>3. list \in [1 .. Len(ids) -> Copies]
  BY <1>1, <1>2 DEF Copies
<1>4. /\ list \in Seq(Copies) /\ Len(list) = Len(ids) /\ DOMAIN list = DOMAIN ids
      /\ \A i \in DOMAIN list : list[i].id = ids[i] /\ list[i].row = rows[ids[i]]
  BY <1>1, <1>3
<1>5. /\ frame' = [frame EXCEPT ![c] = [now |-> time, list |-> list]]
      /\ pc' = [pc EXCEPT ![c] = label]
  BY DEF Acquire, Copy, Goto
<1> HIDE DEF list
<1>6. /\ frame'[c] = [now |-> time, list |-> list]
      /\ pc'[c] = label
      /\ \A d \in Calls \ {c} : pc'[d] = pc[d] /\ frame'[d] = frame[d]
      /\ pc' \in [Calls -> {"idle"} \cup Passes \cup Edits]
      /\ frame' \in [Calls -> Frames]
  BY <1>4, <1>5 DEF CallsOK, Passes, Edits, Frames
<1>7. \A d \in Calls \ {c} : (CallOK(d) /\ CopiesOK(d))'
  BY <1>6 DEF CallsOK, CallOK, CopiesOK, Onward, Passes, Edits, Frames
<1>8. CallOK(c)'
  BY <1>4, <1>6 DEF CallOK, Onward, Passes, Edits
<1>9. CopiesOK(c)'
  <2>1. \A i \in DOMAIN list : list[i].id \in used'
    BY <1>1, <1>2, <1>4 DEF Onward
  <2>2. /\ label = "cron" => \A i \in DOMAIN list :
              /\ IsCron(list[i].row)
              /\ list[i].row.nextAt # None /\ list[i].row.nextAt <= time
        /\ label = "threshold" => \A i \in DOMAIN list : ~IsCron(list[i].row)
    BY <1>4 DEF Edits
  <2>3. label \in {"cron", "threshold"} \cup Edits
    OBVIOUS
  <2>4. QED
    BY <1>4, <1>6, <2>1, <2>2, <2>3 DEF CopiesOK, Passes, Edits, IsCron
<1>10. Held(c)' = ToSet(ids)
  BY <1>4, <1>6 DEF Held, ToSet
<1>11. QED
  BY <1>1, <1>4, <1>6, <1>7, <1>8, <1>9, <1>10 DEF CallsOK

\* Nobody reads a trigger that somebody else holds without being noted.
LEMMA ClashesAreNoted ==
    ASSUME CallsOK, ClashInv, mishaps \subseteq mishaps', NEW c \in Calls,
           \A d \in Calls \ {c} : frame'[d] = frame[d],
           Held(c)' \subseteq Held(c)
    PROVE  ClashInv'
<1>1. \A d \in Calls \ {c} : Held(d)' = Held(d)
  BY DEF Held
<1>2. \A d \in Calls : Held(d)' \subseteq Held(d)
  BY <1>1
<1>3. QED
  BY <1>2 DEF ClashInv, Clash

LEMMA AcquiredClashes ==
    ASSUME CallsOK, ClashInv, NEW c \in Calls, NEW ids, NEW time, NEW label,
           Acquire(c, ids, time, label), Held(c)' = ToSet(ids),
           \A d \in Calls \ {c} : frame'[d] = frame[d]
    PROVE  ClashInv' /\ mishaps \subseteq mishaps'
<1>1. mishaps' = mishaps \cup
         UNION {{Clash(c, d)} \X (Held(d) \cap ToSet(ids)) : d \in Calls \ {c}}
  BY DEF Acquire
<1>2. \A d \in Calls \ {c} : Held(d)' = Held(d)
  BY DEF Held
<1>3. \A d, e \in Calls : Clash(d, e) = Clash(e, d)
  BY DEF Clash
<1>4. \A d \in Calls \ {c} : \A t \in Held(d) \cap ToSet(ids) : <<Clash(c, d), t>> \in mishaps'
  BY <1>1
<1>5. QED
  BY <1>1, <1>2, <1>3, <1>4 DEF ClashInv, Clash

-----------------------------------------------------------------------------
(***************************************************************************)
(* What each step does, and that the columns and calls keep their types.   *)
(***************************************************************************)
Inv0 == TypeInv /\ ClashInv

Others(c) == \A d \in Calls \ {c} : pc'[d] = pc[d] /\ frame'[d] = frame[d]

\* The call c has dealt with its first copy, or drops them all.
Dealt(c) == Others(c) /\ Pending(c)' \subseteq Pending(c) \ {Mine(c)}

LEMMA MineOK ==
    ASSUME CallsOK, NEW c \in Calls, frame[c].list # <<>>
    PROVE  /\ Mine(c) \in Copies /\ Id(c) \in Triggers /\ Mine(c).row \in Row
           /\ Id(c) \in used /\ Id(c) \in Held(c)
           /\ frame[c].now \in Nat
           /\ pc[c] \in {"cron", "threshold"} => Mine(c) \in Pending(c)
<1>1. frame[c].list \in Seq(Copies) /\ 1 \in DOMAIN frame[c].list /\ frame[c].now \in Nat
  BY DEF CallsOK, Frames
<1>2. Mine(c) \in Copies /\ Mine(c) = frame[c].list[1]
  BY <1>1 DEF Mine
<1>3. QED
  BY <1>1, <1>2, HeldIds DEF Id, Copies, CallsOK, CopiesOK, Pending

LEMMA Writing ==
    ASSUME TablesOK, NEW t \in Stored, NEW r \in Row, Write(t, r),
           r.what = rows[t].what \/ r.what \in readable,
           UNCHANGED <<clock, readable, used>>, mishaps \subseteq mishaps'
    PROVE  /\ TablesOK'
           /\ Stored' \subseteq Stored
           /\ rows'[t] = r /\ \A u \in Triggers \ {t} : rows'[u] = rows[u]
<1>1. t \in Triggers
  BY DEF Stored
<1>2. /\ rows' \in [Triggers -> Row \cup {None}]
      /\ rows'[t] = r /\ \A u \in Triggers \ {t} : rows'[u] = rows[u]
  BY <1>1 DEF Write, TablesOK
<1>3. Stored' \subseteq Stored
  BY <1>2 DEF Stored
<1>4. QED
  BY <1>2, <1>3 DEF TablesOK

LEMMA TablesStay ==
    ASSUME TablesOK, UNCHANGED <<clock, tables>>, mishaps \subseteq mishaps'
    PROVE  TablesOK' /\ Stored' = Stored
<1>1. UNCHANGED <<clock, rows, readable, used>>
  BY DEF tables
<1>2. QED
  BY <1>1 DEF TablesOK, Stored

LEMMA HistoryStays ==
    ASSUME TypeInv, UNCHANGED <<slots, edges>>, Onward
    PROVE  HistoryOK'
<1>1. UNCHANGED <<served, twice, spent, firedAt, answered>>
  BY DEF slots, edges
<1>2. QED
  BY <1>1 DEF TypeInv, HistoryOK, Onward, TablesOK

\* A step that neither writes a column nor fires.
LEMMA QuietReturns ==
    ASSUME Inv0, NEW c \in Calls, Return(c), UNCHANGED <<clock, tables, slots, edges>>,
           mishaps \subseteq mishaps'
    PROVE  Inv0' /\ Stored' = Stored /\ Others(c) /\ Pending(c)' = {} /\ pc'[c] = "idle"
<1>1. Onward
  BY DEF Onward, Inv0, TypeInv, TablesOK, tables
<1>2. /\ CallsOK' /\ Held(c)' = {} /\ Pending(c)' = {} /\ pc'[c] = "idle" /\ Others(c)
  BY <1>1, Returning DEF Inv0, TypeInv, Others
<1>3. TablesOK' /\ Stored' = Stored
  BY TablesStay DEF Inv0, TypeInv
<1>4. HistoryOK'
  BY <1>1, HistoryStays DEF Inv0
<1>5. ClashInv'
  BY <1>2, ClashesAreNoted DEF Inv0, TypeInv, Others
<1>6. QED
  BY <1>2, <1>3, <1>4, <1>5 DEF Inv0, TypeInv

\* A step of a call that writes the row of its first copy and returns.
LEMMA WritesAndReturns ==
    ASSUME Inv0, NEW c \in Calls, Return(c), NEW t \in Stored, NEW r \in Row, Write(t, r),
           r.what = rows[t].what \/ r.what \in readable,
           UNCHANGED <<clock, readable, used, mishaps>>, HistoryOK'
    PROVE  /\ Inv0' /\ Stored' \subseteq Stored
           /\ Others(c) /\ Pending(c)' = {} /\ pc'[c] = "idle"
           /\ rows'[t] = r /\ \A u \in Triggers \ {t} : rows'[u] = rows[u]
<1>1. Onward
  BY DEF Onward, Inv0, TypeInv, TablesOK
<1>2. /\ CallsOK' /\ Held(c)' = {} /\ Pending(c)' = {} /\ pc'[c] = "idle" /\ Others(c)
  BY <1>1, Returning DEF Inv0, TypeInv, Others
<1>3. /\ TablesOK' /\ Stored' \subseteq Stored
      /\ rows'[t] = r /\ \A u \in Triggers \ {t} : rows'[u] = rows[u]
  BY Writing DEF Inv0, TypeInv
<1>4. ClashInv'
  BY <1>2, ClashesAreNoted DEF Inv0, TypeInv, Others
<1>5. QED
  BY <1>2, <1>3, <1>4 DEF Inv0, TypeInv

\* A step that goes on with the next copy, having written the first one's row.
LEMMA WritesAndContinues ==
    ASSUME Inv0, NEW c \in Calls, Continue(c), frame[c].list # <<>>,
           pc[c] \in {"cron", "threshold", "success", "failure"},
           Id(c) \in Stored, NEW r \in Row, Write(Id(c), r), r.what = rows[Id(c)].what,
           UNCHANGED <<clock, readable, used, mishaps>>, HistoryOK'
    PROVE  /\ Inv0' /\ Stored' \subseteq Stored
           /\ Dealt(c) /\ frame'[c].now = frame[c].now
           /\ pc'[c] = IF IsCron(Mine(c).row) THEN "cron" ELSE "threshold"
           /\ rows'[Id(c)] = r /\ \A u \in Triggers \ {Id(c)} : rows'[u] = rows[u]
<1>1. Onward
  BY DEF Onward, Inv0, TypeInv, TablesOK
<1>2. /\ CallsOK' /\ Held(c)' \subseteq Held(c) /\ Dealt(c) /\ frame'[c].now = frame[c].now
      /\ pc'[c] = IF IsCron(Mine(c).row) THEN "cron" ELSE "threshold"
  BY <1>1, Continuing DEF Inv0, TypeInv, Others, Dealt
<1>3. /\ TablesOK' /\ Stored' \subseteq Stored
      /\ rows'[Id(c)] = r /\ \A u \in Triggers \ {Id(c)} : rows'[u] = rows[u]
  BY Writing DEF Inv0, TypeInv
<1>4. ClashInv'
  BY <1>2, ClashesAreNoted DEF Inv0, TypeInv, Others, Dealt
<1>5. QED
  BY <1>2, <1>3, <1>4 DEF Inv0, TypeInv

\* A step that moves on to the next label, having written the first copy's row.
LEMMA WritesAndMoves ==
    ASSUME Inv0, NEW c \in Calls, NEW label, Goto(c, label), UNCHANGED frame,
           frame[c].list # <<>>,
           \/ pc[c] = "cron" /\ label = "fire"
           \/ pc[c] = "threshold" /\ label = "stamp"
           \/ pc[c] = "stamp" /\ label = "fire"
           \/ pc[c] = "success" /\ label = "failure",
           Id(c) \in Stored, NEW r \in Row, Write(Id(c), r), r.what = rows[Id(c)].what,
           UNCHANGED <<clock, readable, used, mishaps>>, HistoryOK'
    PROVE  /\ Inv0' /\ Stored' \subseteq Stored /\ Dealt(c) /\ pc'[c] = label
           /\ rows'[Id(c)] = r /\ \A u \in Triggers \ {Id(c)} : rows'[u] = rows[u]
<1>1. Onward
  BY DEF Onward, Inv0, TypeInv, TablesOK
<1>2. /\ CallsOK' /\ Dealt(c) /\ pc'[c] = label
  BY <1>1, Moving DEF Inv0, TypeInv, Others, Dealt
<1>3. /\ TablesOK' /\ Stored' \subseteq Stored
      /\ rows'[Id(c)] = r /\ \A u \in Triggers \ {Id(c)} : rows'[u] = rows[u]
  BY Writing DEF Inv0, TypeInv
<1>4. ClashInv'
  BY <1>2 DEF Inv0, ClashInv, Held
<1>5. QED
  BY <1>2, <1>3, <1>4 DEF Inv0, TypeInv

-----------------------------------------------------------------------------
(***************************************************************************)
(* The steps that keep what the rows and copies say of slots and fires.    *)
(***************************************************************************)
Firing == {"stamp", "fire"}

\* A slot still to come, now or when the operator who stores it read the row.
StillToCome(u, slot) ==
    \/ slot > clock
    \/ \E d \in Operators : pc[d] \in Edits /\ Id(d) = u /\ slot > frame[d].now

RowsKept ==
    \A u \in Stored' :
        /\ rows'[u].nextAt # None =>
              \/ StillToCome(u, rows'[u].nextAt)
              \/ u \in Stored /\ rows'[u].nextAt = rows[u].nextAt
        /\ \/ u \in Stored /\ rows'[u].met = rows[u].met
                           /\ rows'[u].lastFired = rows[u].lastFired
           \/ u \notin used /\ ~rows'[u].met

CallsKept ==
    \A d \in Calls :
        /\ Pending(d)' \subseteq Pending(d)
        /\ Pending(d)' # {} => frame'[d].now = frame[d].now
        /\ pc'[d] \in Firing => pc'[d] = pc[d] /\ frame'[d] = frame[d]
        /\ pc[d] \in Firing => \/ pc'[d] = pc[d] /\ frame'[d] = frame[d]
                               \/ Id(d) \notin Stored
                               \/ <<"died", Id(d)>> \in mishaps'

Kept == /\ Inv0' /\ RowsKept /\ CallsKept
        /\ UNCHANGED <<slots, edges>> /\ mishaps \subseteq mishaps'

LEMMA UnlessFiring ==
    ASSUME NEW c \in Calls, Others(c), Pending(c)' \subseteq Pending(c),
           Pending(c)' # {} => frame'[c].now = frame[c].now,
           pc[c] \notin Firing \/ Id(c) \notin Stored \/ <<"died", Id(c)>> \in mishaps',
           pc'[c] \notin Firing
    PROVE  CallsKept
BY DEF CallsKept, Others, Pending

LEMMA CreateTriggerMoves ==
    ASSUME Inv0, NEW t \in Triggers, NEW x \in What, NEW e \in BOOLEAN, CreateTrigger(t, x, e)
    PROVE  Kept
<1> DEFINE r == [enabled |-> e, what |-> x, nextAt |-> NextSlot(x, clock),
                 met |-> FALSE, lastFired |-> None, failures |-> 0]
<1>1. /\ TablesOK /\ HistoryOK /\ CallsOK /\ ClashInv /\ t \notin used
      /\ used' = used \cup {t} /\ x \in readable /\ clock \in Nat
      /\ UNCHANGED <<clock, readable, pc, frame, bounds, slots, edges, mishaps>>
      /\ rows' = [rows EXCEPT ![t] = r]
  BY DEF Inv0, TypeInv, TablesOK, CreateTrigger, Write
<1>2. /\ r \in Row /\ ~r.met /\ r.what = x
      /\ r.nextAt # None => r.nextAt > clock
  BY <1>1, NextSlots DEF Row
<1> HIDE DEF r
<1>3. /\ rows' \in [Triggers -> Row \cup {None}]
      /\ rows'[t] = r /\ \A u \in Triggers \ {t} : rows'[u] = rows[u]
  BY <1>1, <1>2 DEF TablesOK
<1>4. Stored' \subseteq Stored \cup {t}
  BY <1>3 DEF Stored
<1>5. TablesOK'
  BY <1>1, <1>2, <1>3, <1>4, FS_AddElement DEF TablesOK
<1>6. HistoryOK'
  BY <1>1 DEF HistoryOK, slots, edges
<1>7. CallsOK' /\ ClashInv'
  BY <1>1 DEF CallsOK, CallOK, CopiesOK, ClashInv, Held
<1>8. RowsKept
  BY <1>1, <1>2, <1>3, <1>4 DEF RowsKept, StillToCome, Stored
<1>9. CallsKept
  BY <1>1 DEF CallsKept, Pending
<1>10. QED
  BY <1>1, <1>5, <1>6, <1>7, <1>8, <1>9 DEF Kept, Inv0, TypeInv

LEMMA LoadForEditMoves ==
    ASSUME Inv0, NEW c \in Operators, NEW t \in Triggers,
           NEW op \in {"update", "enable", "disable", "delete"}, LoadForEdit(c, t, op)
    PROVE  /\ Kept /\ Others(c) /\ pc'[c] = op
           /\ UNCHANGED <<clock, tables>>
           /\ frame'[c].list[1].id = t /\ frame'[c].list[1].row = rows[t] /\ t \in Stored
<1>1. /\ c \in Calls /\ <<t>> \in Seq(Stored) /\ Len(<<t>>) = 1 /\ t \in Stored
      /\ clock <= clock /\ clock \in Nat /\ frame[c].list = <<>> /\ op \in Edits /\ pc[c] = "idle"
  BY DEF LoadForEdit, Calls, Inv0, TypeInv, TablesOK, CallsOK, CallOK, Edits
<1>2. Onward
  BY DEF Onward, Inv0, TypeInv, TablesOK, LoadForEdit, tables
<1>3. Acquire(c, <<t>>, clock, op)
  BY DEF LoadForEdit
<1>4. \A i, j \in DOMAIN <<t>> : <<t>>[i] = <<t>>[j] => i = j
  OBVIOUS
<1>5. /\ CallsOK' /\ Held(c)' = ToSet(<<t>>) /\ pc'[c] = op /\ Others(c)
      /\ \A i \in DOMAIN frame'[c].list :
            LET copy == frame'[c].list[i]
            IN  copy.id \in Stored /\ copy.row = rows[copy.id]
  <2>1. TablesOK /\ CallsOK
    BY DEF Inv0, TypeInv
  <2>2. PICK ids : ids = <<t>>
    OBVIOUS
  <2>3. /\ ids \in Seq(Stored) /\ Len(ids) = 1 /\ Acquire(c, ids, clock, op)
        /\ \A i, j \in DOMAIN ids : ids[i] = ids[j] => i = j
    BY <1>1, <1>3, <1>4, <2>2
  <2>4. /\ CallsOK' /\ Held(c)' = ToSet(ids) /\ pc'[c] = op
        /\ \A i \in DOMAIN frame'[c].list :
              LET copy == frame'[c].list[i]
              IN  copy.id \in Stored /\ copy.row = rows[copy.id]
        /\ \A d \in Calls \ {c} : pc'[d] = pc[d] /\ frame'[d] = frame[d]
    BY <1>1, <1>2, <2>1, <2>3, Acquiring
  <2>5. QED
    BY <2>2, <2>4 DEF Others
<1>6. ClashInv' /\ mishaps \subseteq mishaps'
  BY <1>1, <1>3, <1>5, AcquiredClashes DEF Inv0, TypeInv, Others
<1>7. TablesOK' /\ Stored' = Stored
  BY <1>6, TablesStay DEF LoadForEdit, Inv0, TypeInv
<1>8. HistoryOK'
  BY <1>2, HistoryStays DEF LoadForEdit, Inv0
<1>9. RowsKept
  BY <1>7 DEF RowsKept, LoadForEdit, tables
<1>10. frame'[c].list = <<[id |-> t, row |-> rows[t]]>>
  BY <1>1, <1>3 DEF Acquire, Copy, Inv0, TypeInv, CallsOK
<1>11. Pending(c)' = {}
  BY <1>1, <1>5, <1>10 DEF Pending
<1>12. CallsKept
  BY <1>1, <1>5, <1>11, UnlessFiring DEF Firing, Edits
<1>13. QED
  BY <1>1, <1>5, <1>6, <1>7, <1>8, <1>9, <1>10, <1>12
     DEF Kept, Inv0, TypeInv, LoadForEdit

LEMMA SetTriggerEnabledMoves ==
    ASSUME Inv0, NEW c \in Calls, SetTriggerEnabled(c)
    PROVE  Kept /\ Others(c) /\ pc'[c] = "idle"
<1>1. /\ frame[c].list # <<>> /\ pc[c] \in {"enable", "disable"} /\ TypeInv
      /\ UNCHANGED <<clock, readable, used, slots, edges, mishaps>> /\ Return(c)
      /\ frame[c].now \in Nat /\ c \in Operators /\ pc[c] \in Edits
  <2>1. /\ pc[c] \in Edits /\ CallOK(c) /\ frame[c].list \in Seq(Copies)
    BY DEF SetTriggerEnabled, Inv0, TypeInv, CallsOK, Frames, Edits
  <2>2. frame[c].list # <<>>
    BY <2>1 DEF CallOK
  <2>3. c \in Operators /\ frame[c].now \in Nat
    BY <2>1 DEF CallOK, Inv0, TypeInv, CallsOK, Frames
  <2>4. QED
    BY <2>1, <2>2, <2>3 DEF SetTriggerEnabled, Inv0
<1>2. Mine(c).row \in Row
  BY <1>1, MineOK DEF TypeInv
<1>3. HistoryOK'
  BY <1>1, HistoryStays DEF Onward, TypeInv, TablesOK
<1>4. CASE Id(c) \notin Stored
  <2>1. UNCHANGED <<clock, tables, slots, edges>>
    BY <1>1, <1>4 DEF SetTriggerEnabled, tables
  <2>2. Inv0' /\ Stored' = Stored /\ Others(c) /\ Pending(c)' = {} /\ pc'[c] = "idle"
    BY <1>1, <2>1, QuietReturns
  <2>3. RowsKept
    BY <2>1, <2>2 DEF RowsKept, tables
  <2>4. CallsKept
    BY <1>1, <2>2, UnlessFiring DEF Firing
  <2>5. QED
    BY <1>1, <2>2, <2>3, <2>4 DEF Kept
<1>5. CASE Id(c) \in Stored
  <2> DEFINE t == Id(c)
             r == [rows[t] EXCEPT
                     !.enabled = (pc[c] = "enable"),
                     !.nextAt = SlotWhenToggled(c),
                     !.failures = IF pc[c] = "enable" THEN 0 ELSE Mine(c).row.failures]
  <2>1. rows[t] \in Row
    BY <1>5 DEF TypeInv, Inv0, TablesOK, Stored
  <2>2. /\ r \in Row /\ r.what = rows[t].what /\ r.met = rows[t].met
        /\ r.lastFired = rows[t].lastFired
        /\ r.nextAt # None => r.nextAt > frame[c].now
    BY <1>1, <1>2, <2>1, NextSlots DEF SlotWhenToggled, Row
  <2>3. Write(t, r)
    BY <1>5 DEF SetTriggerEnabled
  <2> HIDE DEF r, t
  <2>4. t \in Stored
    BY <1>5 DEF t
  <2>5. /\ Inv0' /\ Stored' \subseteq Stored
        /\ Others(c) /\ Pending(c)' = {} /\ pc'[c] = "idle"
        /\ rows'[t] = r /\ \A u \in Triggers \ {t} : rows'[u] = rows[u]
    BY <1>1, <1>3, <2>2, <2>3, <2>4, WritesAndReturns
  <2>6. RowsKept
    BY <1>1, <2>2, <2>5 DEF RowsKept, StillToCome, Stored, t
  <2>7. CallsKept
    BY <1>1, <2>5, UnlessFiring DEF Firing
  <2>8. QED
    BY <1>1, <2>5, <2>6, <2>7 DEF Kept
<1>6. QED
  BY <1>4, <1>5

LEMMA DeleteTriggerMoves ==
    ASSUME Inv0, NEW c \in Calls, DeleteTrigger(c)
    PROVE  Kept /\ Others(c) /\ pc'[c] = "idle" /\ Stored' \subseteq Stored
           /\ \A u \in Stored' : rows'[u] = rows[u]
<1>1. /\ frame[c].list # <<>> /\ pc[c] = "delete" /\ TypeInv /\ ClashInv
      /\ UNCHANGED <<clock, readable, used, slots, edges, mishaps>> /\ Return(c)
      /\ rows' = [rows EXCEPT ![Id(c)] = None]
  <2>1. /\ pc[c] \in Edits /\ CallOK(c) /\ frame[c].list \in Seq(Copies)
    BY DEF DeleteTrigger, Inv0, TypeInv, CallsOK, Frames, Edits
  <2>2. frame[c].list # <<>>
    BY <2>1 DEF CallOK
  <2>3. QED
    BY <2>2 DEF DeleteTrigger, Inv0, TypeInv, Write
<1>2. Onward
  BY <1>1 DEF Onward, TypeInv, TablesOK
<1>3. HistoryOK'
  BY <1>1, <1>2, HistoryStays
<1>4. /\ CallsOK' /\ Held(c)' = {} /\ Pending(c)' = {} /\ pc'[c] = "idle" /\ Others(c)
  BY <1>1, <1>2, Returning DEF TypeInv, Others
<1>5. ClashInv'
  BY <1>1, <1>4, ClashesAreNoted DEF TypeInv, Others
<1>6. /\ rows' \in [Triggers -> Row \cup {None}]
      /\ Stored' \subseteq Stored
      /\ \A u \in Stored' : rows'[u] = rows[u]
  BY <1>1 DEF TypeInv, TablesOK, Stored
<1>7. TablesOK'
  BY <1>1, <1>6 DEF TypeInv, TablesOK
<1>8. RowsKept
  BY <1>6 DEF RowsKept
<1>9. CallsKept
  BY <1>1, <1>4, UnlessFiring DEF Firing
<1>10. QED
  BY <1>1, <1>3, <1>4, <1>5, <1>6, <1>7, <1>8, <1>9 DEF Kept, Inv0, TypeInv

\* A step that leaves the tables and the history alone and returns.
LEMMA QuietlyKept ==
    ASSUME Inv0, NEW c \in Calls, Return(c), UNCHANGED <<clock, tables, slots, edges>>,
           mishaps \subseteq mishaps',
           pc[c] \notin Firing \/ Id(c) \notin Stored \/ <<"died", Id(c)>> \in mishaps'
    PROVE  Kept /\ Others(c) /\ pc'[c] = "idle" /\ Stored' = Stored
<1>1. Inv0' /\ Stored' = Stored /\ Others(c) /\ Pending(c)' = {} /\ pc'[c] = "idle"
  BY QuietReturns
<1>2. RowsKept
  BY <1>1 DEF RowsKept, tables
<1>3. CallsKept
  BY <1>1, UnlessFiring DEF Firing
<1>4. QED
  BY <1>1, <1>2, <1>3 DEF Kept

LEMMA RowGoneMoves ==
    ASSUME Inv0, NEW c \in Calls, RowGone(c)
    PROVE  Kept /\ Others(c) /\ pc'[c] = "idle" /\ Stored' = Stored /\ UNCHANGED rows
<1>1. QED
  BY QuietlyKept DEF RowGone, Gone, tables

LEMMA EndTickMoves ==
    ASSUME Inv0, NEW c \in Calls, EndTick(c)
    PROVE  Kept /\ Others(c) /\ pc'[c] = "idle" /\ Stored' = Stored /\ UNCHANGED rows
<1>1. QED
  BY QuietlyKept DEF EndTick, tables, Firing

LEMMA CrashMoves ==
    ASSUME Inv0, NEW c \in Calls, Crash(c)
    PROVE  Kept /\ Others(c) /\ pc'[c] = "idle" /\ Stored' = Stored /\ UNCHANGED rows
<1>1. /\ mishaps \subseteq mishaps' /\ {"died"} \X Held(c) \subseteq mishaps'
      /\ Return(c) /\ UNCHANGED <<clock, tables, slots, edges>>
  BY DEF Crash
<1>2. ASSUME pc[c] \in Firing
      PROVE  <<"died", Id(c)>> \in mishaps'
  <2>1. frame[c].list # <<>>
    BY <1>2 DEF Firing, Inv0, TypeInv, CallsOK, CallOK
  <2>2. Id(c) \in Held(c)
    BY <2>1, MineOK DEF Inv0, TypeInv
  <2>3. QED
    BY <1>1, <2>2
<1>3. QED
  BY <1>1, <1>2, QuietlyKept DEF tables

LEMMA SkipUnknownMoves ==
    ASSUME Inv0, NEW c \in Calls, SkipUnknown(c)
    PROVE  Kept /\ Others(c) /\ pc'[c] \notin Edits /\ Stored' = Stored /\ UNCHANGED rows
<1>1. /\ frame[c].list # <<>> /\ pc[c] = "threshold" /\ Continue(c)
      /\ UNCHANGED <<clock, tables, slots, edges, mishaps>>
  BY DEF SkipUnknown, AtCopy
<1>2. Onward
  BY <1>1 DEF Onward, Inv0, TypeInv, TablesOK, tables
<1>3. /\ CallsOK' /\ Held(c)' \subseteq Held(c) /\ Dealt(c) /\ frame'[c].now = frame[c].now
      /\ pc'[c] = IF IsCron(Mine(c).row) THEN "cron" ELSE "threshold"
  BY <1>1, <1>2, Continuing DEF Inv0, TypeInv, Others, Dealt
<1>4. TablesOK' /\ Stored' = Stored
  BY <1>1, TablesStay DEF Inv0, TypeInv
<1>5. HistoryOK'
  BY <1>1, <1>2, HistoryStays DEF Inv0
<1>6. ClashInv'
  BY <1>1, <1>3, ClashesAreNoted DEF Inv0, TypeInv, Others, Dealt
<1>7. RowsKept
  BY <1>1, <1>4 DEF RowsKept, tables
<1>8. CallsKept
  BY <1>1, <1>3, UnlessFiring DEF Firing, Dealt
<1>9. QED
  BY <1>1, <1>3, <1>4, <1>5, <1>6, <1>7, <1>8
     DEF Kept, Inv0, TypeInv, tables, Dealt, Edits

\* A step that writes columns no property of slots and edges reads.
LEMMA KeptWhileContinuing ==
    ASSUME Inv0, NEW c \in Calls, Continue(c), frame[c].list # <<>>,
           pc[c] \in {"cron", "threshold", "success", "failure"},
           Id(c) \in Stored, NEW r \in Row, Write(Id(c), r),
           r.what = rows[Id(c)].what, r.met = rows[Id(c)].met,
           r.lastFired = rows[Id(c)].lastFired, r.nextAt \in {rows[Id(c)].nextAt, None},
           UNCHANGED <<clock, readable, used, slots, edges, mishaps>>
    PROVE  /\ Kept /\ Others(c) /\ pc'[c] \notin Edits /\ Stored' \subseteq Stored
           /\ rows'[Id(c)] = r /\ \A u \in Triggers \ {Id(c)} : rows'[u] = rows[u]
<1>1. Onward
  BY DEF Onward, Inv0, TypeInv, TablesOK
<1>2. HistoryOK'
  BY <1>1, HistoryStays DEF Inv0
<1>3. /\ Inv0' /\ Stored' \subseteq Stored
      /\ Dealt(c) /\ frame'[c].now = frame[c].now
      /\ pc'[c] = IF IsCron(Mine(c).row) THEN "cron" ELSE "threshold"
      /\ rows'[Id(c)] = r /\ \A u \in Triggers \ {Id(c)} : rows'[u] = rows[u]
  BY <1>2, WritesAndContinues
<1>4. RowsKept
  BY <1>3 DEF RowsKept, Stored
<1>5. CallsKept
  BY <1>3, UnlessFiring DEF Firing, Dealt
<1>6. QED
  BY <1>3, <1>4, <1>5 DEF Kept, Dealt, Edits

LEMMA StoredRow ==
    ASSUME Inv0, NEW t \in Stored
    PROVE  t \in Triggers /\ rows[t] \in Row
BY DEF Inv0, TypeInv, TablesOK, Stored

LEMMA DisableRejectedMoves ==
    ASSUME Inv0, NEW c \in Calls, DisableRejected(c)
    PROVE  /\ Kept /\ Others(c) /\ pc'[c] \notin Edits /\ Stored' \subseteq Stored
           /\ ~rows'[Id(c)].enabled /\ rows'[Id(c)].what = rows[Id(c)].what
           /\ \A u \in Triggers \ {Id(c)} : rows'[u] = rows[u]
<1>1. /\ frame[c].list # <<>> /\ Id(c) \in Stored /\ pc[c] = "cron"
      /\ Write(Id(c), Rejected(c)) /\ Continue(c)
      /\ UNCHANGED <<clock, readable, used, slots, edges, mishaps>>
  BY DEF DisableRejected, AtCopy, Gone
<1>2. Mine(c).row \in Row /\ rows[Id(c)] \in Row
  BY <1>1, MineOK, StoredRow DEF Inv0, TypeInv
<1> DEFINE r == Rejected(c)
<1>3. Mine(c).row.failures + 1 \in Nat
  BY <1>2 DEF Row
<1>4. PICK x \in Row, n \in Nat : x = rows[Id(c)] /\ n = Mine(c).row.failures + 1
  BY <1>2, <1>3
<1>5. /\ r = [x EXCEPT !.nextAt = None, !.enabled = FALSE, !.failures = n]
      /\ Write(Id(c), r)
  BY <1>1, <1>4 DEF Rejected
<1> HIDE DEF r
<1>6. /\ r \in Row /\ r.nextAt = None /\ ~r.enabled
      /\ r.what = rows[Id(c)].what /\ r.met = rows[Id(c)].met
      /\ r.lastFired = rows[Id(c)].lastFired
  BY <1>4, <1>5 DEF Row
<1>7. QED
  BY <1>1, <1>5, <1>6, KeptWhileContinuing

LEMMA MetricThrowsMoves ==
    ASSUME Inv0, NEW c \in Calls, MetricThrows(c)
    PROVE  /\ Kept /\ Others(c) /\ pc'[c] \notin Edits /\ Stored' \subseteq Stored
           /\ \A u \in Stored' : /\ rows'[u].enabled = rows[u].enabled
                                 /\ rows'[u].what = rows[u].what
                                 /\ rows'[u].nextAt = rows[u].nextAt
<1>1. /\ frame[c].list # <<>> /\ Id(c) \in Stored /\ pc[c] = "threshold"
      /\ Write(Id(c), OneMoreFailure(c)) /\ Continue(c)
      /\ UNCHANGED <<clock, readable, used, slots, edges, mishaps>>
  BY DEF MetricThrows, AtCopy, Gone
<1>2. Mine(c).row \in Row /\ rows[Id(c)] \in Row
  BY <1>1, MineOK, StoredRow DEF Inv0, TypeInv
<1> DEFINE r == OneMoreFailure(c)
<1>3. /\ r \in Row /\ Write(Id(c), r)
      /\ r.what = rows[Id(c)].what
      /\ r.met = rows[Id(c)].met
      /\ r.nextAt = rows[Id(c)].nextAt
      /\ r.lastFired = rows[Id(c)].lastFired
      /\ r.enabled = rows[Id(c)].enabled
  BY <1>1, <1>2 DEF OneMoreFailure, Row
<1> HIDE DEF r
<1>4. QED
  BY <1>1, <1>3, KeptWhileContinuing DEF Stored

LEMMA RecordFailureMoves ==
    ASSUME Inv0, NEW c \in Calls, RecordFailure(c)
    PROVE  /\ Kept /\ Others(c) /\ pc'[c] \notin Edits /\ Stored' \subseteq Stored
           /\ \A u \in Stored' : /\ rows'[u].enabled = rows[u].enabled
                                 /\ rows'[u].what = rows[u].what
                                 /\ rows'[u].nextAt = rows[u].nextAt
<1>1. /\ frame[c].list # <<>> /\ Id(c) \in Stored /\ pc[c] = "failure"
      /\ Write(Id(c), OneMoreFailure(c)) /\ Continue(c)
      /\ UNCHANGED <<clock, readable, used, slots, edges, mishaps>>
  BY DEF RecordFailure, Gone, Inv0, TypeInv, CallsOK, CallOK
<1>2. Mine(c).row \in Row /\ rows[Id(c)] \in Row
  BY <1>1, MineOK, StoredRow DEF Inv0, TypeInv
<1> DEFINE r == OneMoreFailure(c)
<1>3. /\ r \in Row /\ Write(Id(c), r)
      /\ r.what = rows[Id(c)].what
      /\ r.met = rows[Id(c)].met
      /\ r.nextAt = rows[Id(c)].nextAt
      /\ r.lastFired = rows[Id(c)].lastFired
      /\ r.enabled = rows[Id(c)].enabled
  BY <1>1, <1>2 DEF OneMoreFailure, Row
<1> HIDE DEF r
<1>4. QED
  BY <1>1, <1>3, KeptWhileContinuing DEF Stored

LEMMA RecordSuccessMoves ==
    ASSUME Inv0, NEW c \in Calls, RecordSuccess(c)
    PROVE  /\ Kept /\ Others(c) /\ pc'[c] \notin Edits /\ Stored' \subseteq Stored
           /\ \A u \in Stored' : /\ rows'[u].enabled = rows[u].enabled
                                 /\ rows'[u].what = rows[u].what
                                 /\ rows'[u].nextAt = rows[u].nextAt
<1>1. /\ frame[c].list # <<>> /\ Id(c) \in Stored /\ pc[c] = "success"
      /\ Write(Id(c), [rows[Id(c)] EXCEPT !.failures = 0]) /\ Continue(c)
      /\ UNCHANGED <<clock, readable, used, slots, edges, mishaps>>
  BY DEF RecordSuccess, Gone, Inv0, TypeInv, CallsOK, CallOK
<1>2. rows[Id(c)] \in Row
  BY <1>1, StoredRow
<1> DEFINE r == [rows[Id(c)] EXCEPT !.failures = 0]
<1>3. /\ r \in Row /\ Write(Id(c), r)
      /\ r.what = rows[Id(c)].what
      /\ r.met = rows[Id(c)].met
      /\ r.nextAt = rows[Id(c)].nextAt
      /\ r.lastFired = rows[Id(c)].lastFired
      /\ r.enabled = rows[Id(c)].enabled
  BY <1>1, <1>2 DEF Row
<1> HIDE DEF r
<1>4. QED
  BY <1>1, <1>3, KeptWhileContinuing DEF Stored

LEMMA SuccessThrowsMoves ==
    ASSUME Inv0, NEW c \in Calls, SuccessThrows(c)
    PROVE  /\ Kept /\ Others(c) /\ pc'[c] \notin Edits /\ Stored' \subseteq Stored
           /\ \A u \in Stored' : /\ rows'[u].enabled = rows[u].enabled
                                 /\ rows'[u].what = rows[u].what
                                 /\ rows'[u].nextAt = rows[u].nextAt
<1>1. /\ frame[c].list # <<>> /\ pc[c] = "success" /\ Goto(c, "failure")
      /\ UNCHANGED <<clock, readable, used, frame, slots, edges, mishaps>>
  BY DEF SuccessThrows, Inv0, TypeInv, CallsOK, CallOK
<1>2. Onward
  BY <1>1 DEF Onward, Inv0, TypeInv, TablesOK
<1>3. HistoryOK'
  BY <1>1, <1>2, HistoryStays DEF Inv0
<1>4. CallsOK' /\ Dealt(c) /\ pc'[c] = "failure"
  BY <1>1, <1>2, Moving DEF Inv0, TypeInv, Dealt, Others
<1>5. CallsKept
  BY <1>1, <1>4, UnlessFiring DEF Firing, Dealt
<1>6. CASE UNCHANGED rows
  <2>1. TablesOK' /\ Stored' = Stored
    BY <1>1, <1>6, TablesStay DEF Inv0, TypeInv, tables
  <2>2. ClashInv'
    BY <1>1, <1>4 DEF Inv0, ClashInv, Held
  <2>3. RowsKept
    BY <1>6, <2>1 DEF RowsKept
  <2>4. QED
    BY <1>1, <1>3, <1>4, <1>5, <1>6, <2>1, <2>2, <2>3 DEF Kept, Inv0, TypeInv, Dealt, Edits
<1>7. CASE Id(c) \in Stored /\ Write(Id(c), [rows[Id(c)] EXCEPT !.failures = 0])
  <2>1. rows[Id(c)] \in Row
    BY <1>7, StoredRow
  <2> DEFINE r == [rows[Id(c)] EXCEPT !.failures = 0]
  <2>2. /\ r \in Row /\ Write(Id(c), r)
        /\ r.what = rows[Id(c)].what
        /\ r.met = rows[Id(c)].met
        /\ r.nextAt = rows[Id(c)].nextAt
        /\ r.lastFired = rows[Id(c)].lastFired
        /\ r.enabled = rows[Id(c)].enabled
    BY <1>7, <2>1 DEF Row
  <2> HIDE DEF r
  <2>3. /\ Inv0' /\ Stored' \subseteq Stored
        /\ rows'[Id(c)] = r /\ \A u \in Triggers \ {Id(c)} : rows'[u] = rows[u]
    BY <1>1, <1>3, <1>7, <2>2, WritesAndMoves
  <2>4. RowsKept
    BY <2>2, <2>3 DEF RowsKept, Stored
  <2>5. QED
    BY <1>1, <1>4, <1>5, <2>2, <2>3, <2>4 DEF Kept, Dealt, Edits, Stored
<1>8. QED
  BY <1>6, <1>7 DEF SuccessThrows, Gone

LEMMA TimePassesMoves ==
    ASSUME Inv0, TimePasses
    PROVE  Kept /\ UNCHANGED <<pc, frame, rows, mishaps>>
<1>1. /\ clock \in Nat /\ clock' = clock + 1 /\ clock < MaxTime /\ MaxTime \in Nat
      /\ UNCHANGED <<rows, readable, used, pc, frame, slots, edges, mishaps>>
  BY BoundsAssumption DEF TimePasses, tables, Inv0, TypeInv, TablesOK
<1>2. clock' \in Nat /\ clock <= clock' /\ clock' <= MaxTime
  BY <1>1
<1>3. TablesOK'
  BY <1>1, <1>2 DEF Inv0, TypeInv, TablesOK, Stored
<1>4. HistoryOK'
  BY <1>1, <1>2, HistoryStays DEF Inv0, Onward
<1>5. CallsOK'
  BY <1>1, <1>2 DEF Inv0, TypeInv, CallsOK, CallOK, CopiesOK, Frames
<1>6. ClashInv'
  BY <1>1 DEF Inv0, ClashInv, Held
<1>7. RowsKept /\ CallsKept
  BY <1>1 DEF RowsKept, CallsKept, Pending, Stored
<1>8. QED
  BY <1>1, <1>3, <1>4, <1>5, <1>6, <1>7 DEF Kept, Inv0, TypeInv

LEMMA ReleaseMoves ==
    ASSUME Inv0, NEW known \in SUBSET What, Release(known)
    PROVE  Kept /\ UNCHANGED <<pc, frame, rows>>
<1>1. /\ UNCHANGED <<clock, rows, used, pc, frame, slots, edges>> /\ readable' = known
      /\ mishaps' = mishaps \cup
            ({"rejected"} \X {t \in Stored : rows[t].what \notin known})
  BY DEF Release
<1>2. TablesOK'
  BY <1>1 DEF Inv0, TypeInv, TablesOK, Stored
<1>3. HistoryOK'
  BY <1>1, HistoryStays DEF Inv0, TypeInv, TablesOK, Onward
<1>4. CallsOK'
  BY <1>1 DEF Inv0, TypeInv, CallsOK, CallOK, CopiesOK
<1>5. ClashInv'
  BY <1>1 DEF Inv0, ClashInv, Held
<1>6. RowsKept /\ CallsKept
  BY <1>1 DEF RowsKept, CallsKept, Pending, Stored
<1>7. QED
  BY <1>1, <1>2, <1>3, <1>4, <1>5, <1>6 DEF Kept, Inv0, TypeInv

-----------------------------------------------------------------------------
(***************************************************************************)
(* The other steps: reading the rows, an edit, and the stages of a fire.   *)
(***************************************************************************)
Reads(c) ==
    /\ Inv0' /\ Others(c) /\ UNCHANGED <<clock, tables, slots, edges>>
    /\ mishaps \subseteq mishaps'
    /\ pc[c] \notin Firing /\ pc'[c] \notin Firing \cup Edits
    /\ \A copy \in Pending(c)' : /\ copy.id \in Stored /\ copy.row = rows[copy.id]
                                 /\ IsCron(copy.row) => frame'[c].now = clock

LEMMA Reading ==
    ASSUME Inv0, NEW c \in Ticks, NEW S, S \subseteq Stored, NEW s \in SetToSeqs(S),
           frame[c].list = <<>>, pc[c] \in {"idle", "cron"},
           NEW time \in Nat, time <= clock, NEW label,
           Acquire(c, Limited(s), time, label),
           UNCHANGED <<clock, tables, slots, edges>>,
           \/ /\ label = "cron" /\ time = clock
              /\ \A t \in S : /\ IsCron(rows[t]) /\ rows[t].nextAt # None
                              /\ rows[t].nextAt <= time
           \/ /\ label = "threshold"
              /\ \A t \in S : ~IsCron(rows[t])
    PROVE  Reads(c)
<1>1. IsFiniteSet(S)
  BY FS_Subset DEF Inv0, TypeInv, TablesOK
<1>2. PICK ids : ids = Limited(s)
  OBVIOUS
<1>3. /\ ids \in Seq(S) /\ \A i, j \in DOMAIN ids : ids[i] = ids[j] => i = j
      /\ \A i \in DOMAIN ids : ids[i] \in S
  BY <1>1, <1>2, Listings
<1>4. ids \in Seq(Stored)
  BY <1>3
<1>5. c \in Calls /\ Onward /\ TablesOK /\ CallsOK /\ Acquire(c, ids, time, label)
  BY <1>2 DEF Calls, Onward, Inv0, TypeInv, TablesOK, tables
<1>6. \/ /\ label = "cron" /\ c \in Ticks
         /\ \A i \in DOMAIN ids : /\ IsCron(rows[ids[i]])
                                  /\ rows[ids[i]].nextAt # None
                                  /\ rows[ids[i]].nextAt <= time
      \/ /\ label = "threshold" /\ c \in Ticks
         /\ \A i \in DOMAIN ids : ~IsCron(rows[ids[i]])
  BY <1>3
<1>7. /\ CallsOK' /\ Held(c)' = ToSet(ids)
      /\ \A i \in DOMAIN frame'[c].list :
            LET copy == frame'[c].list[i]
            IN  copy.id \in Stored /\ copy.row = rows[copy.id]
      /\ frame'[c].now = time /\ pc'[c] = label
      /\ \A d \in Calls \ {c} : pc'[d] = pc[d] /\ frame'[d] = frame[d]
  BY <1>3, <1>4, <1>5, <1>6, Acquiring
<1>8. ClashInv' /\ mishaps \subseteq mishaps'
  BY <1>5, <1>7, AcquiredClashes DEF Inv0
<1>9. TablesOK' /\ Stored' = Stored
  BY <1>5, <1>8, TablesStay
<1>10. HistoryOK'
  BY <1>5, HistoryStays DEF Inv0
<1>11. \A copy \in Pending(c)' : /\ copy.id \in Stored /\ copy.row = rows[copy.id]
                                 /\ IsCron(copy.row) => frame'[c].now = clock
  <2>1. \A copy \in Pending(c)' : \E i \in DOMAIN frame'[c].list : copy = frame'[c].list[i]
    BY DEF Pending
  <2>2. label = "threshold" => \A i \in DOMAIN frame'[c].list : ~IsCron(frame'[c].list[i].row)
    BY <1>5, <1>7 DEF CallsOK, CopiesOK, IsCron
  <2>3. QED
    BY <1>6, <1>7, <2>1, <2>2
<1>12. QED
  BY <1>6, <1>7, <1>8, <1>9, <1>10, <1>11 DEF Reads, Inv0, TypeInv, Others, Firing, Edits

LEMMA StartTickMoves ==
    ASSUME Inv0, NEW c \in Calls, StartTick(c)
    PROVE  Reads(c)
<1>1. PICK due \in SetToSeqs({t \in Triggers : IsDue(t)}) :
         Acquire(c, Limited(due), clock, "cron")
  BY DEF StartTick
<1>2. /\ c \in Ticks /\ pc[c] = "idle" /\ frame[c].list = <<>>
      /\ UNCHANGED <<clock, tables, slots, edges>> /\ clock \in Nat /\ clock <= clock
  BY DEF StartTick, Inv0, TypeInv, CallsOK, CallOK, TablesOK
<1>3. {t \in Triggers : IsDue(t)} \subseteq Stored
  BY DEF IsDue
<1>4. \A t \in {t \in Triggers : IsDue(t)} :
         IsCron(rows[t]) /\ rows[t].nextAt # None /\ rows[t].nextAt <= clock
  BY DEF IsDue
<1>5. QED
  BY <1>1, <1>2, <1>3, <1>4, Reading

LEMMA ReadThresholdsMoves ==
    ASSUME Inv0, NEW c \in Calls, ReadThresholds(c)
    PROVE  Reads(c)
<1>1. PICK enabled \in SetToSeqs({t \in Stored : rows[t].enabled /\ ~IsCron(rows[t])}) :
         Acquire(c, Limited(enabled), frame[c].now, "threshold")
  BY DEF ReadThresholds
<1>2. /\ c \in Ticks /\ pc[c] = "cron" /\ frame[c].list = <<>>
      /\ UNCHANGED <<clock, tables, slots, edges>>
      /\ frame[c].now \in Nat /\ frame[c].now <= clock
  BY DEF ReadThresholds, Inv0, TypeInv, CallsOK, CallOK, Frames, Passes
<1>3. QED
  BY <1>1, <1>2, Reading

LEMMA UpdateTriggerMoves ==
    ASSUME Inv0, NEW c \in Calls, NEW x \in What, NEW e \in BOOLEAN, UpdateTrigger(c, x, e)
    PROVE  /\ Inv0' /\ Others(c) /\ pc[c] = "update" /\ pc'[c] = "idle" /\ Pending(c)' = {}
           /\ UNCHANGED <<clock, mishaps, slots, firedAt>>
           /\ x \in readable /\ Id(c) \in Held(c) /\ c \in Operators
           /\ \/ UNCHANGED <<rows, spent, answered>>
              \/ LET t == Id(c)
                 IN  /\ t \in Stored
                     /\ rows'[t].enabled = e /\ rows'[t].what = x /\ ~rows'[t].met
                     /\ rows'[t].nextAt = NextSlot(x, frame[c].now)
                     /\ rows'[t].lastFired = rows[t].lastFired
                     /\ \A u \in Triggers \ {t} : rows'[u] = rows[u]
                     /\ spent' = spent \ {t} /\ answered' = answered \ {t}
<1>1. /\ frame[c].list # <<>> /\ pc[c] = "update" /\ c \in Operators /\ x \in readable
      /\ UNCHANGED <<clock, readable, used, slots, firedAt, mishaps>> /\ Return(c)
      /\ frame[c].now \in Nat /\ HistoryOK
  <2>1. /\ pc[c] \in Edits /\ CallOK(c) /\ frame[c].list \in Seq(Copies)
    BY DEF UpdateTrigger, Inv0, TypeInv, CallsOK, Frames, Edits
  <2>2. c \in Operators /\ Len(frame[c].list) = 1
    BY <2>1 DEF CallOK
  <2>3. frame[c].list # <<>>
    BY <2>2, LongerThanNone
  <2>4. frame[c].now \in Nat
    BY DEF Inv0, TypeInv, CallsOK, Frames
  <2>5. QED
    BY <2>2, <2>3, <2>4 DEF UpdateTrigger, Inv0, TypeInv
<1>2. Id(c) \in Held(c)
  BY <1>1, MineOK DEF Inv0, TypeInv
<1>3. HistoryOK'
  <2>1. spent' \subseteq spent /\ answered' \subseteq answered
    BY DEF UpdateTrigger, Afresh
  <2>2. QED
    BY <1>1, <2>1 DEF HistoryOK, slots
<1>4. CASE Id(c) \notin Stored
  <2>1. UNCHANGED <<clock, tables, slots, edges, rows, spent, answered>>
    BY <1>1, <1>4 DEF UpdateTrigger, tables, edges
  <2>2. QED
    BY <1>1, <1>2, <2>1, QuietReturns
<1>5. CASE Id(c) \in Stored
  <2> DEFINE t == Id(c)
             r == [enabled |-> e, what |-> x, met |-> FALSE,
                   nextAt |-> NextSlot(x, frame[c].now), failures |-> 0,
                   lastFired |-> rows[t].lastFired]
  <2>1. Write(t, r) /\ Afresh(t)
    BY <1>5 DEF UpdateTrigger
  <2>2. /\ r \in Row /\ r.what = x /\ r.enabled = e /\ r.met = FALSE
        /\ r.nextAt = NextSlot(x, frame[c].now) /\ r.lastFired = rows[t].lastFired
    BY <1>1, <1>5, NextSlots, StoredRow DEF Row
  <2> HIDE DEF r
  <2>3. /\ Inv0' /\ Others(c) /\ Pending(c)' = {} /\ pc'[c] = "idle"
        /\ rows'[t] = r /\ \A u \in Triggers \ {t} : rows'[u] = rows[u]
    BY <1>1, <1>3, <1>5, <2>1, <2>2, WritesAndReturns
  <2>4. QED
    BY <1>1, <1>2, <1>5, <2>1, <2>2, <2>3 DEF Afresh
<1>6. QED
  BY <1>4, <1>5

LEMMA AdvanceSlotMoves ==
    ASSUME Inv0, NEW c \in Calls, AdvanceSlot(c)
    PROVE  /\ Inv0' /\ Dealt(c) /\ pc[c] = "cron" /\ pc'[c] = "fire"
           /\ c \in Ticks /\ frame'[c] = frame[c] /\ frame[c].list # <<>>
           /\ IsCron(Mine(c).row) /\ Mine(c) \in Pending(c)
           /\ Mine(c).row.nextAt \in Nat /\ Mine(c).row.nextAt <= frame[c].now
           /\ UNCHANGED <<clock, mishaps, slots, edges>>
           /\ Id(c) \in Stored /\ Stored' \subseteq Stored
           /\ LET new == rows'[Id(c)]
              IN  /\ new.nextAt \in Nat /\ new.nextAt > frame[c].now
                  /\ new.lastFired = frame[c].now /\ new.met = rows[Id(c)].met
                  /\ new.what = rows[Id(c)].what /\ new.enabled = rows[Id(c)].enabled
           /\ \A u \in Triggers \ {Id(c)} : rows'[u] = rows[u]
<1>1. /\ frame[c].list # <<>> /\ Id(c) \in Stored /\ pc[c] = "cron" /\ Goto(c, "fire")
      /\ NextAfterNow(c) # None
      /\ UNCHANGED <<clock, readable, used, frame, slots, edges, mishaps>>
      /\ Write(Id(c), [rows[Id(c)] EXCEPT !.nextAt = NextAfterNow(c),
                                          !.lastFired = frame[c].now])
  BY DEF AdvanceSlot, AtCopy, Gone
<1>2. /\ Mine(c) \in Copies /\ frame[c].now \in Nat /\ rows[Id(c)] \in Row
      /\ Mine(c) \in Pending(c) /\ Id(c) \in Triggers /\ Mine(c).row \in Row
  BY <1>1, MineOK, StoredRow DEF Inv0, TypeInv
<1>3. /\ c \in Ticks /\ IsCron(Mine(c).row)
      /\ Mine(c).row.nextAt \in Nat /\ Mine(c).row.nextAt <= frame[c].now
  <2>1. 1 \in DOMAIN frame[c].list /\ CopiesOK(c) /\ CallOK(c)
    BY <1>1 DEF Inv0, TypeInv, CallsOK, Frames
  <2>2. Mine(c).row.nextAt \in Nat \cup {None}
    BY <1>2 DEF Row
  <2>3. QED
    BY <1>1, <2>1, <2>2 DEF CopiesOK, CallOK, Passes, Mine
<1>4. NextAfterNow(c) \in Nat /\ NextAfterNow(c) > frame[c].now
  BY <1>1, <1>2, NextSlots DEF NextAfterNow
<1> DEFINE r == [rows[Id(c)] EXCEPT !.nextAt = NextAfterNow(c), !.lastFired = frame[c].now]
<1>5. /\ r \in Row /\ r.nextAt = NextAfterNow(c) /\ r.lastFired = frame[c].now
      /\ r.met = rows[Id(c)].met /\ r.what = rows[Id(c)].what
      /\ r.enabled = rows[Id(c)].enabled /\ Write(Id(c), r)
  <2>1. PICK x \in Row, n \in Nat, m \in Nat :
           x = rows[Id(c)] /\ n = NextAfterNow(c) /\ m = frame[c].now
    BY <1>2, <1>4
  <2>2. r = [x EXCEPT !.nextAt = n, !.lastFired = m] /\ Write(Id(c), r)
    BY <1>1, <2>1
  <2> HIDE DEF r
  <2>3. /\ r \in Row /\ r.nextAt = n /\ r.lastFired = m
        /\ r.met = x.met /\ r.what = x.what /\ r.enabled = x.enabled
    BY <2>1, <2>2 DEF Row
  <2>4. QED
    BY <2>1, <2>2, <2>3
<1> HIDE DEF r
<1>6. HistoryOK'
  BY <1>1, HistoryStays DEF Inv0, TypeInv, TablesOK, Onward
<1>7. /\ Inv0' /\ Stored' \subseteq Stored /\ Dealt(c) /\ pc'[c] = "fire"
      /\ rows'[Id(c)] = r /\ \A u \in Triggers \ {Id(c)} : rows'[u] = rows[u]
  BY <1>1, <1>5, <1>6, WritesAndMoves
<1>8. QED
  BY <1>1, <1>2, <1>3, <1>4, <1>5, <1>7

LEMMA StampMoves ==
    ASSUME Inv0, NEW c \in Calls, Stamp(c)
    PROVE  /\ Inv0' /\ Dealt(c) /\ pc[c] = "stamp" /\ pc'[c] = "fire"
           /\ c \in Ticks /\ frame'[c] = frame[c] /\ frame[c].now \in Nat
           /\ ~IsCron(Mine(c).row)
           /\ UNCHANGED <<clock, mishaps, slots, edges>>
           /\ Id(c) \in Stored /\ Stored' \subseteq Stored
           /\ LET new == rows'[Id(c)]
              IN  /\ new.lastFired = frame[c].now /\ new.met = rows[Id(c)].met
                  /\ new.nextAt = rows[Id(c)].nextAt
                  /\ new.what = rows[Id(c)].what /\ new.enabled = rows[Id(c)].enabled
           /\ \A u \in Triggers \ {Id(c)} : rows'[u] = rows[u]
<1>1. /\ frame[c].list # <<>> /\ Id(c) \in Stored /\ pc[c] = "stamp" /\ Goto(c, "fire")
      /\ UNCHANGED <<clock, readable, used, frame, slots, edges, mishaps>>
      /\ Write(Id(c), [rows[Id(c)] EXCEPT !.lastFired = frame[c].now])
      /\ c \in Ticks
  BY DEF Stamp, Gone, Inv0, TypeInv, CallsOK, CallOK, Passes
<1>2. frame[c].now \in Nat /\ rows[Id(c)] \in Row
  BY <1>1, MineOK, StoredRow DEF Inv0, TypeInv
<1>3. ~IsCron(Mine(c).row)
  <2>1. 1 \in DOMAIN frame[c].list /\ CopiesOK(c)
    BY <1>1 DEF Inv0, TypeInv, CallsOK, Frames
  <2>2. QED
    BY <1>1, <2>1 DEF CopiesOK, Mine
<1> DEFINE r == [rows[Id(c)] EXCEPT !.lastFired = frame[c].now]
<1>4. /\ r \in Row /\ r.lastFired = frame[c].now /\ r.nextAt = rows[Id(c)].nextAt
      /\ r.met = rows[Id(c)].met /\ r.what = rows[Id(c)].what
      /\ r.enabled = rows[Id(c)].enabled /\ Write(Id(c), r)
  BY <1>1, <1>2 DEF Row
<1> HIDE DEF r
<1>5. HistoryOK'
  BY <1>1, HistoryStays DEF Inv0, TypeInv, TablesOK, Onward
<1>6. /\ Inv0' /\ Stored' \subseteq Stored /\ Dealt(c) /\ pc'[c] = "fire"
      /\ rows'[Id(c)] = r /\ \A u \in Triggers \ {Id(c)} : rows'[u] = rows[u]
  BY <1>1, <1>4, <1>5, WritesAndMoves
<1>7. QED
  BY <1>1, <1>2, <1>3, <1>4, <1>6

LEMMA EvaluateMoves ==
    ASSUME Inv0, NEW c \in Calls, NEW met \in BOOLEAN, Evaluate(c, met)
    PROVE  /\ Inv0' /\ Dealt(c) /\ pc[c] = "threshold" /\ c \in Ticks
           /\ frame'[c].now = frame[c].now /\ frame[c].now \in Nat
           /\ ~IsCron(Mine(c).row) /\ Mine(c) \in Pending(c) /\ Mine(c).row \in Row
           /\ IF ShouldFire(c, met) THEN pc'[c] = "stamp" /\ frame'[c] = frame[c]
                                    ELSE pc'[c] = "threshold"
           /\ UNCHANGED <<clock, mishaps, slots, firedAt>>
           /\ Id(c) \in Stored /\ Stored' \subseteq Stored
           /\ LET new == rows'[Id(c)]
              IN  /\ new.met = met /\ new.lastFired = rows[Id(c)].lastFired
                  /\ new.nextAt = rows[Id(c)].nextAt
                  /\ new.what = rows[Id(c)].what /\ new.enabled = rows[Id(c)].enabled
           /\ \A u \in Triggers \ {Id(c)} : rows'[u] = rows[u]
<1>1. /\ frame[c].list # <<>> /\ Id(c) \in Stored /\ pc[c] = "threshold"
      /\ IF ShouldFire(c, met) THEN Goto(c, "stamp") /\ UNCHANGED frame ELSE Continue(c)
      /\ UNCHANGED <<clock, readable, used, slots, firedAt, mishaps>>
      /\ Write(Id(c), [rows[Id(c)] EXCEPT !.met = met])
      /\ c \in Ticks
  BY DEF Evaluate, AtCopy, Gone, Inv0, TypeInv, CallsOK, CallOK, Passes
<1>2. /\ frame[c].now \in Nat /\ rows[Id(c)] \in Row /\ Mine(c).row \in Row
      /\ Mine(c) \in Pending(c) /\ Id(c) \in Triggers /\ Id(c) \in used
  BY <1>1, MineOK, StoredRow DEF Inv0, TypeInv
<1>3. ~IsCron(Mine(c).row)
  <2>1. 1 \in DOMAIN frame[c].list /\ CopiesOK(c)
    BY <1>1 DEF Inv0, TypeInv, CallsOK, Frames
  <2>2. QED
    BY <1>1, <2>1 DEF CopiesOK, Mine
<1> DEFINE r == [rows[Id(c)] EXCEPT !.met = met]
<1>4. /\ r \in Row /\ r.met = met /\ r.lastFired = rows[Id(c)].lastFired
      /\ r.nextAt = rows[Id(c)].nextAt /\ r.what = rows[Id(c)].what
      /\ r.enabled = rows[Id(c)].enabled /\ Write(Id(c), r)
  BY <1>1, <1>2 DEF Row
<1> HIDE DEF r
<1>5. HistoryOK'
  <2>1. spent' \subseteq spent \cup {Id(c)} /\ answered' \subseteq answered \cup {Id(c)}
    BY DEF Evaluate
  <2>2. QED
    BY <1>1, <1>2, <2>1 DEF Inv0, TypeInv, HistoryOK, slots
<1>6. CASE ShouldFire(c, met)
  BY <1>1, <1>2, <1>3, <1>4, <1>5, <1>6, WritesAndMoves
<1>7. CASE ~ShouldFire(c, met)
  BY <1>1, <1>2, <1>3, <1>4, <1>5, <1>7, WritesAndContinues
<1>8. QED
  BY <1>6, <1>7

LEMMA FireMoves ==
    ASSUME Inv0, NEW c \in Calls, Fire(c)
    PROVE  /\ Inv0' /\ Dealt(c) /\ pc[c] = "fire" /\ pc'[c] \in {"success", "failure"}
           /\ c \in Ticks /\ frame'[c] = frame[c] /\ frame[c].now \in Nat
           /\ frame[c].list # <<>> /\ Id(c) \in Triggers
           /\ UNCHANGED <<clock, rows, mishaps>>
           /\ IF IsCron(Mine(c).row)
                THEN /\ served' = [served EXCEPT ![Id(c)] = Mine(c).row.nextAt]
                     /\ twice' = IF Mine(c).row.nextAt <= served[Id(c)]
                                 THEN twice \cup {Id(c)} ELSE twice
                     /\ UNCHANGED edges
                ELSE /\ answered' = answered \cup {Id(c)}
                     /\ firedAt' = [firedAt EXCEPT ![Id(c)] = frame[c].now]
                     /\ UNCHANGED <<slots, spent>>
<1>1. /\ frame[c].list # <<>> /\ pc[c] = "fire"
      /\ UNCHANGED <<clock, tables, frame, mishaps>> /\ c \in Ticks
      /\ \E label \in {"success", "failure"} : Goto(c, label)
  BY DEF Fire, Inv0, TypeInv, CallsOK, CallOK, Passes
<1>2. /\ frame[c].now \in Nat /\ Mine(c).row \in Row /\ Id(c) \in Triggers /\ Id(c) \in used
      /\ frame[c].now <= clock /\ clock \in Nat
  BY <1>1, MineOK DEF Inv0, TypeInv, CallsOK, CallOK, TablesOK
<1>3. IsCron(Mine(c).row) =>
         Mine(c).row.nextAt \in Nat /\ Mine(c).row.nextAt <= frame[c].now
  <2>1. 1 \in DOMAIN frame[c].list /\ CopiesOK(c)
    BY <1>1 DEF Inv0, TypeInv, CallsOK, Frames
  <2>2. QED
    BY <1>1, <1>2, <2>1 DEF CopiesOK, Mine, Passes, Row
<1>4. Onward
  BY <1>1 DEF Onward, Inv0, TypeInv, TablesOK, tables
<1>5. CallsOK' /\ Dealt(c) /\ pc'[c] \in {"success", "failure"}
  BY <1>1, <1>4, Moving DEF Inv0, TypeInv, Dealt, Others
<1>6. TablesOK'
  BY <1>1, TablesStay DEF Inv0, TypeInv
<1>7. ClashInv'
  BY <1>1 DEF Inv0, ClashInv, Held
<1>8. HistoryOK'
  <2>1. CASE IsCron(Mine(c).row)
    <3>1. /\ served' = [served EXCEPT ![Id(c)] = Mine(c).row.nextAt]
          /\ twice' \subseteq twice \cup {Id(c)}
          /\ UNCHANGED <<spent, firedAt, answered, clock, used>>
      BY <1>1, <2>1 DEF Fire, edges, tables
    <3>2. QED
      BY <1>2, <1>3, <2>1, <3>1 DEF Inv0, TypeInv, HistoryOK
  <2>2. CASE ~IsCron(Mine(c).row)
    <3>1. /\ answered' = answered \cup {Id(c)}
          /\ firedAt' = [firedAt EXCEPT ![Id(c)] = frame[c].now]
          /\ UNCHANGED <<served, twice, spent, clock, used>>
      BY <1>1, <2>2 DEF Fire, slots, tables
    <3>2. QED
      BY <1>2, <2>2, <3>1 DEF Inv0, TypeInv, HistoryOK
  <2>3. QED
    BY <2>1, <2>2
<1>9. QED
  BY <1>1, <1>2, <1>5, <1>6, <1>7, <1>8 DEF Inv0, TypeInv, Fire, tables

-----------------------------------------------------------------------------
(***************************************************************************)
(* A step keeps what matters, reads the rows, edits one, or is a stage of  *)
(* a fire.                                                                 *)
(***************************************************************************)
LEMMA Initially ==
    ASSUME Init
    PROVE  Inv0 /\ \A c \in Calls : Pending(c) = {} /\ pc[c] = "idle"
<1>1. /\ TablesOK /\ Stored = {}
  BY BoundsAssumption, FS_EmptySet DEF Init, TablesOK, Stored, What
<1>2. HistoryOK
  BY BoundsAssumption DEF Init, HistoryOK
<1>3. \A c \in Calls : /\ pc[c] = "idle" /\ frame[c] = [now |-> 0, list |-> <<>>]
                       /\ frame[c].list = <<>> /\ DOMAIN frame[c].list = {}
  BY DEF Init, NoFrame
<1>4. <<>> \in Seq(Copies)
  OBVIOUS
<1>5. CallsOK
  BY <1>3, <1>4 DEF Init, NoFrame, CallsOK, CallOK, CopiesOK, Frames, Passes, Edits
<1>6. \A c \in Calls : Held(c) = {} /\ Pending(c) = {}
  BY <1>3, HeldIds DEF Pending
<1>7. QED
  BY <1>1, <1>2, <1>3, <1>5, <1>6 DEF Inv0, TypeInv, ClashInv

Stage(c) ==
    \/ \E x \in What, e \in BOOLEAN : UpdateTrigger(c, x, e)
    \/ Reads(c)
    \/ AdvanceSlot(c) \/ Stamp(c) \/ Fire(c)
    \/ \E met \in BOOLEAN : Evaluate(c, met)

LEMMA Steps ==
    ASSUME Inv0, Next
    PROVE  Kept \/ \E c \in Calls : Stage(c)
<1>1. ASSUME Environment PROVE Kept
  BY <1>1, TimePassesMoves, ReleaseMoves, CreateTriggerMoves DEF Environment
<1>2. ASSUME NEW c \in Calls, StartTick(c) PROVE Reads(c)
  BY <1>2, StartTickMoves
<1>3. ASSUME NEW c \in Calls, Advance(c) PROVE Kept \/ Stage(c)
  BY <1>3, RowGoneMoves, DisableRejectedMoves, ReadThresholdsMoves, EndTickMoves,
     SkipUnknownMoves, MetricThrowsMoves, RecordSuccessMoves, SuccessThrowsMoves,
     RecordFailureMoves
     DEF Advance, Stage
<1>4. ASSUME NEW c \in Calls, Operate(c) PROVE Kept \/ Stage(c)
  BY <1>4, LoadForEditMoves, SetTriggerEnabledMoves, DeleteTriggerMoves DEF Operate, Stage
<1>5. ASSUME NEW c \in Calls, Crash(c) PROVE Kept
  BY <1>5, CrashMoves
<1>6. QED
  BY <1>1, <1>2, <1>3, <1>4, <1>5 DEF Next, Stage

LEMMA NextTypes ==
    ASSUME Inv0, [Next]_vars
    PROVE  Inv0'
<1>1. ASSUME Next PROVE Inv0'
  <2>1. ASSUME NEW c \in Calls, Stage(c) PROVE Inv0'
    BY <2>1, UpdateTriggerMoves, AdvanceSlotMoves, StampMoves, FireMoves, EvaluateMoves
       DEF Stage, Reads
  <2>2. QED
    BY <1>1, <2>1, Steps DEF Kept
<1>2. ASSUME UNCHANGED vars PROVE Inv0'
  <2>1. UNCHANGED <<clock, rows, readable, used, pc, frame, served, twice, spent, firedAt,
                    answered, mishaps>>
    BY <1>2 DEF vars, tables, slots, edges
  <2>2. QED
    BY <2>1 DEF Inv0, TypeInv, TablesOK, HistoryOK, CallsOK, CallOK, CopiesOK, ClashInv,
                Held, Stored, Clash
<1>3. QED
  BY <1>1, <1>2

\* The columns and copies hold what they should, and a row's id was given out.
THEOREM TriggerTypeCorrect == Spec => []TypeOK
<1>1. Init => Inv0
  BY Initially
<1>2. Inv0 /\ [Next]_vars => Inv0'
  BY NextTypes
<1>3. Inv0 => TypeOK
  <2>1. SUFFICES ASSUME Inv0 PROVE TypeOK
    OBVIOUS
  <2>2. /\ clock \in 0 .. MaxTime /\ clock \in Nat /\ readable \subseteq What /\ Stored \subseteq used
        /\ rows \in [Triggers -> Row \cup {None}]
    BY <2>1, BoundsAssumption DEF Inv0, TypeInv, TablesOK
  <2>3. pc \in [Calls -> {"idle", "cron", "threshold", "stamp", "fire", "success",
                          "failure", "update", "enable", "disable", "delete"}]
    BY <2>1 DEF Inv0, TypeInv, CallsOK, Passes, Edits
  <2>4. \A c \in Calls : /\ frame[c].now \in 0 .. clock
                         /\ frame[c].list \in Seq([id : Triggers, row : Row])
    <3>1. SUFFICES ASSUME NEW c \in Calls
                   PROVE  /\ frame[c].now \in 0 .. clock
                          /\ frame[c].list \in Seq([id : Triggers, row : Row])
      OBVIOUS
    <3>2. frame[c] \in Frames /\ frame[c].now <= clock
      BY <2>1 DEF Inv0, TypeInv, CallsOK, CallOK
    <3>3. frame[c].now \in Nat /\ frame[c].list \in Seq(Copies)
      BY <3>2 DEF Frames
    <3>4. QED
      BY <2>2, <3>2, <3>3 DEF Copies
  <2>5. QED
    BY <2>2, <2>3, <2>4 DEF TypeOK
<1>4. QED
  BY <1>1, <1>2, <1>3, PTL DEF Spec

-----------------------------------------------------------------------------
(***************************************************************************)
(* Slots.                                                                  *)
(***************************************************************************)
LEMMA PendingHeld ==
    ASSUME NEW c, NEW copy \in Pending(c)
    PROVE  copy.id \in Held(c)
BY HeldIds DEF Pending

\* A tick that holds t is alone with it, as long as nothing was noted.
LEMMA AloneWithIt ==
    ASSUME Inv0, NEW c \in Ticks, NEW d \in Ticks, NEW t \in Held(c) \cap Held(d),
           Undisturbed(t, {"ticks"})
    PROVE  c = d
BY DEF Inv0, ClashInv, Clash, Undisturbed, Calls

LEMMA AloneIsUndisturbed ==
    ASSUME NEW t, Alone(t)
    PROVE  Undisturbed(t, {"ticks"})
BY DEF Alone, Undisturbed

\* Nor does an operator hold it.
LEMMA NoOperator ==
    ASSUME Inv0, NEW c \in Ticks, NEW d \in Operators, pc[d] \in Edits, Id(d) \in Held(c)
    PROVE  ~Alone(Id(d))
<1>1. c \in Calls /\ d \in Calls /\ c # d /\ Clash(c, d) = "edit"
  BY SlotsAssumption DEF Calls, Clash
<1>2. frame[d].list # <<>>
  BY <1>1, LongerThanNone DEF Inv0, TypeInv, CallsOK, CallOK
<1>3. Id(d) \in Held(d)
  BY <1>1, <1>2, MineOK DEF Inv0, TypeInv
<1>4. <<"edit", Id(d)>> \in mishaps
  BY <1>1, <1>3 DEF Inv0, ClashInv
<1>5. QED
  BY <1>4 DEF Alone, Undisturbed

\* An operator's call that is under way was, and still has its time, or has read
\* its row just now.
EditsKept ==
    \A d \in Operators : pc'[d] \in Edits =>
        \/ pc[d] \in Edits /\ frame'[d] = frame[d]
        \/ frame'[d].now = clock

LEMMA NextEdits ==
    ASSUME Inv0, Next
    PROVE  EditsKept
<1>1. SUFFICES ASSUME NEW d \in Operators, pc'[d] \in Edits
               PROVE  \/ pc[d] \in Edits /\ frame'[d] = frame[d]
                      \/ frame'[d].now = clock
  BY DEF EditsKept
<1>2. /\ d \in Calls /\ d \notin Ticks
      /\ pc \in [Calls -> {"idle"} \cup Passes \cup Edits] /\ frame \in [Calls -> Frames]
      /\ \A c \in Calls : pc[c] \in Passes => c \in Ticks
  BY SlotsAssumption DEF Calls, Inv0, TypeInv, CallsOK, CallOK
<1>3. CASE Environment
  BY <1>1, <1>3 DEF Environment, TimePasses, Release, CreateTrigger
<1>4. ASSUME NEW c \in Calls, StartTick(c)
      PROVE  pc[d] \in Edits /\ frame'[d] = frame[d]
  BY <1>1, <1>2, <1>4 DEF StartTick, Acquire, Goto
<1>5. ASSUME NEW c \in Calls, Advance(c)
      PROVE  pc[d] \in Edits /\ frame'[d] = frame[d]
  <2>1. pc[c] \in Passes
    BY <1>5 DEF Advance, RowGone, DisableRejected, AdvanceSlot, ReadThresholds, EndTick,
                SkipUnknown, MetricThrows, Evaluate, Stamp, Fire, RecordSuccess,
                SuccessThrows, RecordFailure, AtCopy, Passes
  <2>2. c # d
    BY <1>2, <2>1
  <2>3. CASE RowGone(c) \/ EndTick(c)
    BY <1>1, <1>2, <2>2, <2>3 DEF RowGone, EndTick, Return, Goto
  <2>4. CASE \/ DisableRejected(c) \/ SkipUnknown(c) \/ MetricThrows(c)
             \/ RecordSuccess(c) \/ RecordFailure(c)
    BY <1>1, <1>2, <2>2, <2>4
       DEF DisableRejected, SkipUnknown, MetricThrows, RecordSuccess, RecordFailure,
           Continue, Goto
  <2>5. CASE AdvanceSlot(c) \/ Stamp(c) \/ Fire(c) \/ SuccessThrows(c)
    BY <1>1, <1>2, <2>2, <2>5 DEF AdvanceSlot, Stamp, Fire, SuccessThrows, Goto
  <2>6. CASE ReadThresholds(c)
    BY <1>1, <1>2, <2>2, <2>6 DEF ReadThresholds, Acquire, Goto
  <2>7. CASE \E met \in BOOLEAN : Evaluate(c, met)
    BY <1>1, <1>2, <2>2, <2>7 DEF Evaluate, Continue, Goto
  <2>8. QED
    BY <1>5, <2>3, <2>4, <2>5, <2>6, <2>7 DEF Advance
<1>6. ASSUME NEW c \in Calls, Operate(c)
      PROVE  \/ pc[d] \in Edits /\ frame'[d] = frame[d]
             \/ frame'[d].now = clock
  <2>1. ASSUME NEW t \in Triggers, NEW op, LoadForEdit(c, t, op)
        PROVE  \/ pc[d] \in Edits /\ frame'[d] = frame[d]
               \/ frame'[d].now = clock
    <3>1. /\ \A b \in Calls \ {c} : pc'[b] = pc[b] /\ frame'[b] = frame[b]
          /\ frame'[c].now = clock
      BY <1>2, <2>1 DEF LoadForEdit, Acquire, Goto
    <3>2. QED
      BY <1>1, <1>2, <3>1
  <2>2. ASSUME Return(c)
        PROVE  pc[d] \in Edits /\ frame'[d] = frame[d]
    BY <1>1, <1>2, <2>2 DEF Return, Goto, Edits
  <2>3. QED
    BY <1>6, <2>1, <2>2 DEF Operate, UpdateTrigger, SetTriggerEnabled, DeleteTrigger
<1>7. ASSUME NEW c \in Calls, Crash(c)
      PROVE  pc[d] \in Edits /\ frame'[d] = frame[d]
  BY <1>1, <1>2, <1>7 DEF Crash, Return, Goto, Edits
<1>8. QED
  BY <1>3, <1>4, <1>5, <1>6, <1>7 DEF Next

\* A step that fires no slot and stores only slots still to come.
LEMMA SlotsStay ==
    ASSUME Inv0, Inv0', SlotInv, UNCHANGED slots, mishaps \subseteq mishaps',
           EditsKept,
           \A u \in Stored' : rows'[u].nextAt # None =>
              \/ StillToCome(u, rows'[u].nextAt)
              \/ u \in Stored /\ rows'[u].nextAt = rows[u].nextAt,
           \A c \in Ticks : Pending(c)' \subseteq Pending(c),
           \A c \in Ticks : (pc'[c] = "fire" /\ IsCron(Mine(c)'.row)) =>
              pc[c] = "fire" /\ frame'[c] = frame[c]
    PROVE  SlotInv'
<1> SUFFICES ASSUME NEW t \in Triggers, Alone(t)'
             PROVE  /\ t \notin twice'
                    /\ (t \in Stored' /\ rows'[t].nextAt # None) => rows'[t].nextAt > served'[t]
                    /\ \A c \in Ticks : \A copy \in Pending(c)' :
                          (copy.id = t /\ IsCron(copy.row)) => copy.row.nextAt > served'[t]
                    /\ \A c \in Ticks :
                          (pc'[c] = "fire" /\ Id(c)' = t /\ IsCron(Mine(c)'.row)) =>
                              /\ Mine(c)'.row.nextAt > served'[t]
                              /\ (t \in Stored' /\ rows'[t].nextAt # None) =>
                                    rows'[t].nextAt > Mine(c)'.row.nextAt
                    /\ \A d \in Operators :
                          (pc'[d] \in Edits /\ Id(d)' = t) => served'[t] <= frame'[d].now
  BY DEF SlotInv, IsCron
<1>1. Alone(t) /\ UNCHANGED <<served, twice>>
  BY DEF Alone, Undisturbed, slots
<1>2. /\ served[t] \in Nat /\ served[t] <= clock /\ clock \in Nat
      /\ t \in Stored' => rows'[t] \in Row
  BY StoredRow DEF Inv0, TypeInv, TablesOK, HistoryOK, Stored
<1>3. (t \in Stored' /\ rows'[t].nextAt # None) => rows'[t].nextAt > served[t]
  <2>1. \A d \in Operators : frame[d].now \in Nat
    BY DEF Calls, Inv0, TypeInv, CallsOK, Frames
  <2>2. t \in Stored' => rows'[t].nextAt \in Nat \cup {None}
    BY <1>2 DEF Row
  <2>3. QED
    BY <1>1, <1>2, <2>1, <2>2 DEF SlotInv, StillToCome
<1>4. \A d \in Operators : (pc'[d] \in Edits /\ Id(d)' = t) => served'[t] <= frame'[d].now
  BY <1>1, <1>2 DEF SlotInv, EditsKept, Id, Mine
<1>5. ASSUME NEW c \in Ticks, pc'[c] = "fire", Id(c)' = t, IsCron(Mine(c)'.row)
      PROVE  /\ Mine(c)'.row.nextAt > served'[t]
             /\ (t \in Stored' /\ rows'[t].nextAt # None) =>
                   rows'[t].nextAt > Mine(c)'.row.nextAt
  <2>1. /\ pc[c] = "fire" /\ Id(c) = t /\ Mine(c)' = Mine(c) /\ IsCron(Mine(c).row)
    BY <1>5 DEF Id, Mine, IsCron
  <2>2. /\ c \in Calls /\ CopiesOK(c) /\ frame[c].list # <<>>
        /\ frame[c].now \in Nat /\ frame[c].now <= clock /\ Mine(c).row \in Row
        /\ 1 \in DOMAIN frame[c].list
    BY <2>1, MineOK DEF Calls, Inv0, TypeInv, CallsOK, CallOK, Frames
  <2>3. Mine(c).row.nextAt \in Nat /\ Mine(c).row.nextAt <= clock
    BY <1>2, <2>1, <2>2 DEF CopiesOK, Passes, Mine, Row
  <2>4. \A d \in Operators : ~(pc[d] \in Edits /\ Id(d) = t)
    BY <1>1, <1>5, <2>1, <2>2, MineOK, NoOperator DEF Inv0, TypeInv
  <2>5. t \in Stored' => rows'[t].nextAt \in Nat \cup {None}
    BY <1>2 DEF Row
  <2>6. QED
    BY <1>1, <1>2, <2>1, <2>3, <2>4, <2>5 DEF SlotInv, StillToCome
<1>6. QED
  BY <1>1, <1>3, <1>4, <1>5 DEF SlotInv

LEMMA KeptSlots ==
    ASSUME Inv0, SlotInv, EditsKept, Kept
    PROVE  SlotInv'
<1>1. \A c \in Ticks : /\ Pending(c)' \subseteq Pending(c)
                       /\ pc'[c] = "fire" => pc[c] = "fire" /\ frame'[c] = frame[c]
  BY DEF Kept, CallsKept, Firing, Calls
<1>2. QED
  BY <1>1, SlotsStay DEF Kept, RowsKept

LEMMA EditedSlots ==
    ASSUME Inv0, SlotInv, EditsKept, UNCHANGED slots, NEW t \in Triggers, Alone(t),
           NEW d \in Operators, pc'[d] \in Edits, Id(d)' = t
    PROVE  served'[t] <= frame'[d].now
<1>1. served'[t] = served[t] /\ served[t] <= clock
  BY DEF slots, Inv0, TypeInv, HistoryOK
<1>2. QED
  BY <1>1 DEF SlotInv, EditsKept, Id, Mine

LEMMA ReadSlots ==
    ASSUME Inv0, SlotInv, EditsKept, NEW c \in Calls, Reads(c)
    PROVE  SlotInv'
<1>1. /\ UNCHANGED <<rows, served, twice>> /\ mishaps \subseteq mishaps'
      /\ Stored' = Stored
      /\ \A d \in Calls \ {c} : pc'[d] = pc[d] /\ frame'[d] = frame[d]
      /\ pc'[c] # "fire"
  BY DEF Reads, tables, slots, Stored, Others, Firing
<1>2. \A d \in Calls \ {c} : /\ Pending(d)' = Pending(d)
                             /\ Mine(d)' = Mine(d) /\ Id(d)' = Id(d)
  BY <1>1 DEF Pending, Mine, Id
<1>3. \A copy \in Pending(c)' :
         /\ copy.id \in Stored /\ copy.row = rows[copy.id]
  BY DEF Reads
<1>4. \A copy \in Pending(c)' : IsCron(copy.row) => (c \in Ticks => copy.row.nextAt # None)
  <2>1. CallsOK' /\ pc'[c] \in Passes \cup {"idle"}
    BY DEF Reads, Inv0, TypeInv, CallsOK, Passes
  <2>2. \A copy \in Pending(c)' : \E i \in DOMAIN frame'[c].list : copy = frame'[c].list[i]
    BY DEF Pending
  <2>3. CopiesOK(c)' /\ CallOK(c)' /\ DOMAIN <<>> = {}
    BY <2>1 DEF CallsOK
  <2>4. QED
    BY <2>1, <2>2, <2>3 DEF CopiesOK, CallOK, Passes, IsCron
<1>5. QED
  <2>1. \A t \in Triggers : Alone(t)' => Alone(t)
    BY <1>1 DEF Alone, Undisturbed
  <2>2. UNCHANGED slots
    BY <1>1 DEF slots
  <2>3. \A t \in Triggers : Alone(t)' => \A d \in Operators :
           (pc'[d] \in Edits /\ Id(d)' = t) => served'[t] <= frame'[d].now
    BY <2>1, <2>2, EditedSlots
  <2>4. QED
    BY <1>1, <1>2, <1>3, <1>4, <2>1, <2>3 DEF SlotInv, IsCron, Calls

LEMMA AdvancedSlots ==
    ASSUME Inv0, SlotInv, EditsKept, NEW c \in Calls, AdvanceSlot(c)
    PROVE  SlotInv'
<1> DEFINE new == rows'[Id(c)]
<1>1. /\ Inv0' /\ pc[c] = "cron" /\ pc'[c] = "fire"
      /\ c \in Ticks /\ frame'[c] = frame[c] /\ frame[c].list # <<>>
      /\ IsCron(Mine(c).row) /\ Mine(c) \in Pending(c)
      /\ Mine(c).row.nextAt \in Nat /\ Mine(c).row.nextAt <= frame[c].now
      /\ UNCHANGED <<clock, mishaps, served, twice>>
      /\ Id(c) \in Stored /\ Stored' \subseteq Stored
      /\ new.nextAt \in Nat /\ new.nextAt > frame[c].now
      /\ \A u \in Triggers \ {Id(c)} : rows'[u] = rows[u]
      /\ Pending(c)' \subseteq Pending(c)
      /\ \A d \in Calls \ {c} : pc'[d] = pc[d] /\ frame'[d] = frame[d]
  BY AdvanceSlotMoves DEF Dealt, Others, slots
<1>2. /\ \A d \in Calls \ {c} : Pending(d)' = Pending(d)
      /\ \A d \in Calls : Mine(d)' = Mine(d) /\ Id(d)' = Id(d)
      /\ Id(c) \in Triggers /\ frame[c].now \in Nat /\ Id(c) \in Held(c)
  BY <1>1, MineOK DEF Pending, Mine, Id, Inv0, TypeInv
<1>3. /\ \A t \in Triggers : served[t] \in Nat
      /\ Mine(c).row.nextAt > served[Id(c)] \/ ~Alone(Id(c))
  BY <1>1, <1>2 DEF SlotInv, Inv0, TypeInv, HistoryOK, Id
<1>4. ASSUME NEW d \in Ticks, d # c, pc[d] = "fire", Id(d) = Id(c)
      PROVE  ~Alone(Id(c))
  <2>1. d \in Calls /\ Id(d) \in Held(d)
    BY <1>4, MineOK DEF Calls, Inv0, TypeInv, CallsOK, CallOK
  <2>2. QED
    BY <1>1, <1>2, <1>4, <2>1, AloneIsUndisturbed, AloneWithIt
<1> HIDE DEF new
<1>5. ASSUME NEW t \in Triggers, Alone(t)
      PROVE  (t \in Stored' /\ rows'[t].nextAt # None) => rows'[t].nextAt > served[t]
  <2>1. CASE t = Id(c)
    BY <1>1, <1>2, <1>3, <1>5, <2>1 DEF new
  <2>2. CASE t # Id(c)
    BY <1>1, <1>5, <2>2 DEF SlotInv
  <2>3. QED
    BY <2>1, <2>2
<1>6. ASSUME NEW t \in Triggers, Alone(t), NEW d \in Ticks,
             pc'[d] = "fire", Id(d) = t, IsCron(Mine(d).row)
      PROVE  /\ Mine(d).row.nextAt > served[t]
             /\ (t \in Stored' /\ rows'[t].nextAt # None) => rows'[t].nextAt > Mine(d).row.nextAt
  <2>1. CASE d = c
    BY <1>1, <1>2, <1>3, <1>6, <2>1 DEF new
  <2>2. CASE d # c
    <3>1. pc[d] = "fire" /\ t # Id(c)
      BY <1>1, <1>4, <1>6, <2>2 DEF Calls
    <3>2. QED
      BY <1>1, <1>6, <3>1 DEF SlotInv
  <2>3. QED
    BY <2>1, <2>2
<1>7. \A d \in Ticks : Pending(d)' \subseteq Pending(d)
  BY <1>1, <1>2 DEF Calls
<1>8. \A t \in Triggers : Alone(t)' <=> Alone(t)
  BY <1>1 DEF Alone, Undisturbed
<1>9. QED
  <2>1. UNCHANGED slots
    BY <1>1 DEF slots
  <2>2. \A t \in Triggers : Alone(t) => \A d \in Operators :
           (pc'[d] \in Edits /\ Id(d)' = t) => served'[t] <= frame'[d].now
    BY <2>1, EditedSlots
  <2>3. QED
    BY <1>1, <1>2, <1>5, <1>6, <1>7, <1>8, <2>2 DEF SlotInv, IsCron, Calls

LEMMA FiredSlots ==
    ASSUME Inv0, SlotInv, EditsKept, NEW c \in Calls, Fire(c)
    PROVE  SlotInv'
<1>1. /\ Inv0' /\ pc[c] = "fire" /\ pc'[c] \in {"success", "failure"}
      /\ c \in Ticks /\ frame'[c] = frame[c] /\ frame[c].list # <<>>
      /\ Id(c) \in Triggers /\ UNCHANGED <<rows, mishaps>> /\ Stored' = Stored
      /\ Pending(c)' \subseteq Pending(c) \ {Mine(c)}
      /\ \A d \in Calls \ {c} : pc'[d] = pc[d] /\ frame'[d] = frame[d]
  BY FireMoves DEF Dealt, Others, Stored
<1>2. /\ \A d \in Calls \ {c} : Pending(d)' = Pending(d)
      /\ \A d \in Calls : Mine(d)' = Mine(d) /\ Id(d)' = Id(d)
      /\ Id(c) \in Held(c)
  BY <1>1, MineOK DEF Pending, Mine, Id, Inv0, TypeInv
<1>3. CASE ~IsCron(Mine(c).row)
  <2>1. UNCHANGED slots
    BY <1>3, FireMoves
  <2>2. \A d \in Ticks : Pending(d)' \subseteq Pending(d)
    BY <1>1, <1>2 DEF Calls
  <2>3. QED
    BY <1>1, <2>1, <2>2, SlotsStay DEF Calls
<1>4. CASE IsCron(Mine(c).row)
  <2> DEFINE slot == Mine(c).row.nextAt
  <2>1. /\ served' = [served EXCEPT ![Id(c)] = slot]
        /\ twice' = IF slot <= served[Id(c)] THEN twice \cup {Id(c)} ELSE twice
    BY <1>4, FireMoves
  <2>2. /\ served' \in [Triggers -> Nat] /\ served \in [Triggers -> Nat]
        /\ served'[Id(c)] = slot
        /\ \A t \in Triggers \ {Id(c)} : served'[t] = served[t]
        /\ slot \in Nat
    BY <1>1, <2>1 DEF Inv0, TypeInv, HistoryOK
  <2>3. \A t \in Triggers : Alone(t)' <=> Alone(t)
    BY <1>1 DEF Alone, Undisturbed
  <2>4. Alone(Id(c)) =>
           /\ slot > served[Id(c)]
           /\ (Id(c) \in Stored /\ rows[Id(c)].nextAt # None) => rows[Id(c)].nextAt > slot
    BY <1>1, <1>4 DEF SlotInv
  <2>5. ASSUME NEW d \in Ticks, NEW copy \in Pending(d)', copy.id = Id(c)
        PROVE  ~Alone(Id(c))
    <3>1. CASE d # c
      <4>1. copy \in Pending(d) /\ Id(c) \in Held(d)
        BY <1>2, <2>5, <3>1, PendingHeld DEF Calls
      <4>2. QED
        BY <1>1, <1>2, <3>1, <4>1, AloneIsUndisturbed, AloneWithIt
    <3>2. CASE d = c
      <4>1. PICK i \in DOMAIN frame[c].list : copy = frame[c].list[i] /\ copy # Mine(c)
        BY <1>1, <2>5, <3>2 DEF Pending
      <4>2. CopiesOK(c) /\ 1 \in DOMAIN frame[c].list
        BY <1>1 DEF Inv0, TypeInv, CallsOK, Frames
      <4>3. QED
        BY <2>5, <4>1, <4>2 DEF CopiesOK, Id, Mine
    <3>3. QED
      BY <3>1, <3>2
  <2>6. ASSUME NEW d \in Ticks, pc'[d] = "fire", Id(d) = Id(c)
        PROVE  ~Alone(Id(c))
    <3>1. d # c /\ d \in Calls /\ pc[d] = "fire"
      BY <1>1, <2>6 DEF Calls
    <3>2. Id(d) \in Held(d)
      BY <3>1, MineOK DEF Inv0, TypeInv, CallsOK, CallOK
    <3>3. QED
      BY <1>1, <1>2, <2>6, <3>1, <3>2, AloneIsUndisturbed, AloneWithIt
  <2>9. ASSUME NEW d \in Operators, pc'[d] \in Edits, Id(d) = Id(c)
        PROVE  ~Alone(Id(c))
    <3>1. d \in Calls /\ d # c
      BY <1>1, SlotsAssumption DEF Calls
    <3>2. pc[d] \in Edits
      BY <1>1, <2>9, <3>1
    <3>3. QED
      BY <1>1, <1>2, <2>9, <3>2, NoOperator
  <2> HIDE DEF slot
  <2>7. ASSUME NEW t \in Triggers, Alone(t)
        PROVE  /\ t \notin twice'
               /\ (t \in Stored /\ rows[t].nextAt # None) => rows[t].nextAt > served'[t]
               /\ \A d \in Ticks : \A copy \in Pending(d)' :
                     (copy.id = t /\ IsCron(copy.row)) => copy.row.nextAt > served'[t]
               /\ \A d \in Ticks :
                     (pc'[d] = "fire" /\ Id(d) = t /\ IsCron(Mine(d).row)) =>
                        /\ Mine(d).row.nextAt > served'[t]
                        /\ (t \in Stored /\ rows[t].nextAt # None) =>
                              rows[t].nextAt > Mine(d).row.nextAt
               /\ \A d \in Operators :
                     (pc'[d] \in Edits /\ Id(d) = t) => served'[t] <= frame'[d].now
    <3>1. CASE t = Id(c)
      BY <2>1, <2>2, <2>4, <2>5, <2>6, <2>7, <2>9, <3>1 DEF SlotInv
    <3>2. CASE t # Id(c)
      <4>1. served'[t] = served[t] /\ t \notin twice'
        BY <2>1, <2>2, <2>7, <3>2 DEF SlotInv
      <4>2. \A d \in Ticks : Pending(d)' \subseteq Pending(d)
        BY <1>1, <1>2 DEF Calls
      <4>3. \A d \in Ticks : pc'[d] = "fire" => pc[d] = "fire"
        BY <1>1 DEF Calls
      <4>4. \A d \in Operators : pc'[d] = pc[d] /\ frame'[d] = frame[d]
        BY <1>1, SlotsAssumption DEF Calls
      <4>5. QED
        BY <2>7, <3>2, <4>1, <4>2, <4>3, <4>4 DEF SlotInv
    <3>3. QED
      BY <3>1, <3>2
  <2>8. QED
    BY <1>1, <1>2, <2>3, <2>7 DEF SlotInv, IsCron, Calls
<1>5. QED
  BY <1>3, <1>4

LEMMA NextSlotsInv ==
    ASSUME Inv0, SlotInv, [Next]_vars
    PROVE  SlotInv'
<1>1. ASSUME EditsKept, NEW c \in Calls, Stage(c) PROVE SlotInv'
  <2>1. ASSUME NEW x \in What, NEW e \in BOOLEAN, UpdateTrigger(c, x, e) PROVE SlotInv'
    <3>1. /\ Inv0' /\ UNCHANGED slots /\ mishaps \subseteq mishaps'
          /\ Pending(c)' = {} /\ pc'[c] = "idle" /\ Others(c)
      BY <2>1, UpdateTriggerMoves
    <3>2. \A u \in Stored' : rows'[u].nextAt # None =>
             \/ StillToCome(u, rows'[u].nextAt)
             \/ u \in Stored /\ rows'[u].nextAt = rows[u].nextAt
      <4>1. /\ frame[c].now \in Nat /\ c \in Operators /\ pc[c] \in Edits
        BY <2>1, UpdateTriggerMoves DEF Inv0, TypeInv, CallsOK, Frames, Edits
      <4>2. QED
        BY <2>1, <4>1, UpdateTriggerMoves, NextSlots DEF Stored, StillToCome
    <3>3. QED
      BY <3>1, <3>2, <1>1, SlotsStay DEF Others, Pending, Calls
  <2>2. ASSUME Stamp(c) PROVE SlotInv'
    <3>1. /\ Inv0' /\ UNCHANGED slots /\ mishaps \subseteq mishaps'
          /\ Pending(c)' \subseteq Pending(c) /\ Others(c)
          /\ frame'[c] = frame[c] /\ ~IsCron(Mine(c).row)
      BY <2>2, StampMoves DEF Dealt
    <3>2. \A u \in Stored' : u \in Stored /\ rows'[u].nextAt = rows[u].nextAt
      BY <2>2, StampMoves DEF Stored
    <3>3. ~IsCron(Mine(c)'.row)
      BY <3>1 DEF Mine, IsCron
    <3>4. QED
      BY <3>1, <3>2, <3>3, <1>1, SlotsStay DEF Others, Pending, Calls
  <2>3. ASSUME NEW met \in BOOLEAN, Evaluate(c, met) PROVE SlotInv'
    <3>1. /\ Inv0' /\ UNCHANGED slots /\ mishaps \subseteq mishaps'
          /\ Pending(c)' \subseteq Pending(c) /\ Others(c)
          /\ pc'[c] # "fire"
      BY <2>3, EvaluateMoves DEF Dealt
    <3>2. \A u \in Stored' : u \in Stored /\ rows'[u].nextAt = rows[u].nextAt
      BY <2>3, EvaluateMoves DEF Stored
    <3>3. QED
      BY <3>1, <3>2, <1>1, SlotsStay DEF Others, Pending, Calls
  <2>4. QED
    BY <1>1, <2>1, <2>2, <2>3, ReadSlots, AdvancedSlots, FiredSlots DEF Stage
<1>2. ASSUME UNCHANGED vars PROVE SlotInv'
  <2>1. UNCHANGED <<clock, rows, pc, frame, served, twice, mishaps>>
    BY <1>2 DEF vars, tables, slots
  <2>2. QED
    BY <2>1 DEF SlotInv, Alone, Undisturbed, Stored, Pending, Mine, Id, IsCron
<1>3. QED
  BY <1>1, <1>2, Steps, KeptSlots, NextEdits

\* However often ticks, crashes, edits, releases and failing fires follow each
\* other, a slot of a cron trigger is fired at most once and slots are fired in
\* order, as long as no two ticks hold the trigger together and no tick holds it
\* between the read and the write of an operator's call.
THEOREM SlotsAreFiredOnce == Spec => []SlotsFireOnce
<1>1. Init => Inv0 /\ SlotInv
  <2>1. SUFFICES ASSUME Init PROVE Inv0 /\ SlotInv
    OBVIOUS
  <2>2. /\ Inv0 /\ Stored = {} /\ twice = {}
        /\ \A c \in Ticks : Pending(c) = {} /\ pc[c] = "idle"
        /\ \A d \in Operators : pc[d] \notin Edits
    BY <2>1, Initially DEF Init, Stored, Calls, Edits
  <2>3. QED
    BY <2>2 DEF SlotInv
<1>2. Inv0 /\ SlotInv /\ [Next]_vars => (Inv0 /\ SlotInv)'
  BY NextTypes, NextSlotsInv
<1>3. Inv0 /\ SlotInv => SlotsFireOnce
  BY DEF SlotInv, SlotsFireOnce, Alone, Inv0, TypeInv, HistoryOK
<1>4. QED
  BY <1>1, <1>2, <1>3, PTL DEF Spec

-----------------------------------------------------------------------------
(***************************************************************************)
(* Rising edges and cooldowns.                                             *)
(***************************************************************************)

\* While c deals with its first copy, no other copy of that trigger is held.
LEMMA OnlyCopy ==
    ASSUME Inv0, NEW c \in Ticks, frame[c].list # <<>>, Undisturbed(Id(c), {"ticks"})
    PROVE  /\ \A copy \in Pending(c) \ {Mine(c)} : copy.id # Id(c)
           /\ \A d \in Ticks \ {c} : \A copy \in Pending(d) : copy.id # Id(c)
           /\ \A d \in Ticks \ {c} : frame[d].list # <<>> => Id(d) # Id(c)
<1>1. c \in Calls /\ CopiesOK(c) /\ 1 \in DOMAIN frame[c].list /\ Id(c) \in Held(c)
  BY MineOK DEF Calls, Inv0, TypeInv, CallsOK, Frames
<1>2. \A copy \in Pending(c) \ {Mine(c)} : copy.id # Id(c)
  BY <1>1 DEF CopiesOK, Pending, Id, Mine
<1>3. \A d \in Ticks \ {c} : Id(c) \notin Held(d)
  BY <1>1, AloneWithIt
<1>4. \A d \in Ticks \ {c} : frame[d].list # <<>> => Id(d) \in Held(d)
  BY MineOK DEF Calls, Inv0, TypeInv
<1>5. QED
  BY <1>2, <1>3, <1>4, PendingHeld

LEMMA FiringHolds ==
    ASSUME Inv0, NEW c \in Calls, pc[c] \in Firing
    PROVE  frame[c].list # <<>> /\ Id(c) \in Held(c) /\ Id(c) \in used
<1>1. frame[c].list # <<>>
  BY DEF Firing, Inv0, TypeInv, CallsOK, CallOK
<1>2. QED
  BY <1>1, MineOK DEF Inv0, TypeInv

LEMMA SpentStay ==
    ASSUME Inv0, SpentInv, spent' \subseteq spent, mishaps \subseteq mishaps',
           \A u \in Stored' : ~rows'[u].met => \/ u \in Stored /\ ~rows[u].met
                                               \/ u \notin spent',
           \A c \in Ticks : Pending(c)' \subseteq Pending(c)
    PROVE  SpentInv'
BY DEF SpentInv, Undisturbed

LEMMA EvaluatedSpent ==
    ASSUME Inv0, SpentInv, NEW c \in Calls, NEW met \in BOOLEAN, Evaluate(c, met)
    PROVE  SpentInv'
<1> DEFINE t == Id(c)
<1>1. /\ c \in Ticks /\ Pending(c)' \subseteq Pending(c) \ {Mine(c)} /\ frame[c].list # <<>>
      /\ UNCHANGED mishaps /\ t \in Stored /\ Stored' \subseteq Stored
      /\ rows'[t].met = met /\ \A u \in Triggers \ {t} : rows'[u] = rows[u]
      /\ \A d \in Calls \ {c} : Pending(d)' = Pending(d)
      /\ spent' = IF ~met THEN spent \ {t}
                  ELSE IF ShouldFire(c, met) THEN spent \cup {t} ELSE spent
  <2>1. /\ frame[c].list # <<>>
        /\ spent' = IF ~met THEN spent \ {t}
                    ELSE IF ShouldFire(c, met) THEN spent \cup {t} ELSE spent
    BY DEF Evaluate, AtCopy
  <2>2. /\ c \in Ticks /\ Dealt(c)
        /\ UNCHANGED mishaps /\ t \in Stored /\ Stored' \subseteq Stored
        /\ rows'[t].met = met /\ \A u \in Triggers \ {t} : rows'[u] = rows[u]
    BY EvaluateMoves
  <2>3. \A d \in Calls \ {c} : Pending(d)' = Pending(d)
    BY <2>2 DEF Dealt, Others, Pending
  <2>4. QED
    BY <2>1, <2>2, <2>3 DEF Dealt
<1>2. \A d \in Ticks : Pending(d)' \subseteq Pending(d)
  BY <1>1 DEF Calls
<1>3. Undisturbed(t, {"ticks"}) =>
         \A d \in Ticks : \A copy \in Pending(d)' : copy.id # t
  BY <1>1, OnlyCopy DEF Calls
<1>4. \A u \in Triggers : Undisturbed(u, {"ticks"})' <=> Undisturbed(u, {"ticks"})
  BY <1>1 DEF Undisturbed
<1> HIDE DEF t
<1>5. QED
  BY <1>1, <1>2, <1>3, <1>4 DEF SpentInv, Stored

LEMMA NextSpentInv ==
    ASSUME Inv0, SpentInv, [Next]_vars
    PROVE  SpentInv'
<1>1. ASSUME Kept PROVE SpentInv'
  <2>1. /\ spent' = spent /\ mishaps \subseteq mishaps' /\ spent \subseteq used
        /\ \A c \in Ticks : Pending(c)' \subseteq Pending(c)
    BY <1>1 DEF Kept, edges, CallsKept, Calls, Inv0, TypeInv, HistoryOK
  <2>2. \A u \in Stored' : ~rows'[u].met => ((u \in Stored /\ ~rows[u].met) \/ u \notin spent')
    BY <1>1, <2>1 DEF Kept, RowsKept
  <2>3. QED
    BY <2>1, <2>2, SpentStay
<1>2. ASSUME NEW c \in Calls, Stage(c) PROVE SpentInv'
  <2>1. ASSUME NEW x \in What, NEW e \in BOOLEAN, UpdateTrigger(c, x, e) PROVE SpentInv'
    <3>1. /\ spent' \subseteq spent /\ mishaps \subseteq mishaps'
          /\ \A u \in Stored' : ~rows'[u].met => ((u \in Stored /\ ~rows[u].met) \/ u \notin spent')
      BY <2>1, UpdateTriggerMoves DEF Stored
    <3>2. \A d \in Ticks : Pending(d)' \subseteq Pending(d)
      BY <2>1, UpdateTriggerMoves DEF Others, Pending, Calls
    <3>3. QED
      BY <3>1, <3>2, SpentStay
  <2>2. ASSUME Reads(c) PROVE SpentInv'
    <3>1. /\ UNCHANGED <<rows, spent>> /\ Stored' = Stored /\ mishaps \subseteq mishaps'
          /\ \A copy \in Pending(c)' : copy.id \in Stored /\ copy.row = rows[copy.id]
          /\ \A d \in Calls \ {c} : Pending(d)' = Pending(d)
      BY <2>2 DEF Reads, tables, edges, Stored, Others, Pending
    <3>2. QED
      BY <3>1 DEF SpentInv, Undisturbed, Calls
  <2>3. ASSUME AdvanceSlot(c) \/ Stamp(c) \/ Fire(c) PROVE SpentInv'
    <3>1. /\ spent' = spent /\ UNCHANGED mishaps /\ Dealt(c)
          /\ \A u \in Stored' : u \in Stored /\ rows'[u].met = rows[u].met
      BY <2>3, AdvanceSlotMoves, StampMoves, FireMoves DEF edges, Stored
    <3>2. \A d \in Ticks : Pending(d)' \subseteq Pending(d)
      BY <3>1 DEF Dealt, Others, Pending, Calls
    <3>3. QED
      BY <3>1, <3>2, SpentStay
  <2>4. QED
    BY <1>2, <2>1, <2>2, <2>3, EvaluatedSpent DEF Stage
<1>3. ASSUME UNCHANGED vars PROVE SpentInv'
  <2>1. UNCHANGED <<rows, pc, frame, spent, mishaps>>
    BY <1>3 DEF vars, tables, edges
  <2>2. QED
    BY <2>1 DEF SpentInv, Undisturbed, Stored, Pending
<1>4. QED
  BY <1>1, <1>2, <1>3, Steps

\* A step that records no fire and stores no other time of the last one.
LEMMA CooldownStays ==
    ASSUME Inv0, CooldownInv, UNCHANGED firedAt, mishaps \subseteq mishaps',
           \A u \in Stored' : \/ u \in Stored /\ rows'[u].lastFired = rows[u].lastFired
                              \/ u \notin used,
           \A c \in Ticks : /\ Pending(c)' \subseteq Pending(c)
                            /\ Pending(c)' # {} => frame'[c].now = frame[c].now
                            /\ pc'[c] \in Firing => pc'[c] = pc[c] /\ frame'[c] = frame[c]
    PROVE  CooldownInv'
<1>1. \A t \in Triggers : Undisturbed(t, {"ticks"})' => Undisturbed(t, {"ticks"})
  BY DEF Undisturbed
<1>2. ASSUME NEW t \in Stored', Undisturbed(t, {"ticks"})
      PROVE  NotLater(t, rows'[t].lastFired)
  BY <1>2 DEF CooldownInv, NotLater, Inv0, TypeInv, HistoryOK, Stored
<1>3. ASSUME NEW c \in Ticks, NEW copy \in Pending(c)', Undisturbed(copy.id, {"ticks"}),
             copy.id \in Triggers
      PROVE  NotLater(copy.id, IF IsCron(copy.row) THEN frame'[c].now ELSE copy.row.lastFired)
  BY <1>3 DEF CooldownInv
<1>4. ASSUME NEW c \in Ticks, pc'[c] \in Firing, Id(c)' \in Triggers,
             Undisturbed(Id(c)', {"ticks"})
      PROVE  /\ NotLater(Id(c)', frame'[c].now)
             /\ (pc'[c] = "fire" /\ Id(c)' \in Stored') =>
                   /\ rows'[Id(c)'].lastFired # None
                   /\ rows'[Id(c)'].lastFired >= frame'[c].now
  <2>1. /\ pc'[c] = pc[c] /\ frame'[c] = frame[c] /\ Id(c)' = Id(c) /\ Id(c) \in used
    BY <1>4, FiringHolds DEF Id, Mine, Calls
  <2>2. QED
    BY <1>4, <2>1 DEF CooldownInv, Firing
<1>5. Firing = {"stamp", "fire"}
  BY DEF Firing
<1>6. QED
  BY <1>1, <1>2, <1>3, <1>4, <1>5 DEF CooldownInv, NotLater, IsCron

LEMMA ReadCooldown ==
    ASSUME Inv0, CooldownInv, NEW c \in Calls, Reads(c)
    PROVE  CooldownInv'
<1>1. /\ UNCHANGED <<rows, firedAt, clock>> /\ Stored' = Stored /\ mishaps \subseteq mishaps'
      /\ \A copy \in Pending(c)' : /\ copy.id \in Stored /\ copy.row = rows[copy.id]
                                   /\ IsCron(copy.row) => frame'[c].now = clock
      /\ \A d \in Calls \ {c} : pc'[d] = pc[d] /\ frame'[d] = frame[d]
      /\ pc'[c] \notin Firing
  BY DEF Reads, tables, edges, Stored, Others
<1>2. \A d \in Calls \ {c} : Pending(d)' = Pending(d) /\ Id(d)' = Id(d)
  BY <1>1 DEF Pending, Id, Mine
<1>3. \A t \in Triggers : NotLater(t, clock)
  <2>1. clock # None
    BY BoundsAssumption DEF Inv0, TypeInv, TablesOK
  <2>2. QED
    BY <2>1 DEF NotLater, Inv0, TypeInv, HistoryOK
<1>4. \A t \in Triggers : Undisturbed(t, {"ticks"})' => Undisturbed(t, {"ticks"})
  BY <1>1 DEF Undisturbed
<1>5. \A t, n : NotLater(t, n)' <=> NotLater(t, n)
  BY <1>1 DEF NotLater
<1>6. ASSUME NEW t \in Triggers, Undisturbed(t, {"ticks"}), NEW copy \in Pending(c)',
             copy.id = t
      PROVE  NotLater(t, IF IsCron(copy.row) THEN frame'[c].now ELSE copy.row.lastFired)
  BY <1>1, <1>3, <1>6 DEF CooldownInv
<1>7. QED
  BY <1>1, <1>2, <1>4, <1>6 DEF CooldownInv, Calls, Firing, NotLater, IsCron

\* A step that moves c on to a label of a fire.
LEMMA StagedCooldown ==
    ASSUME Inv0, CooldownInv, NEW c \in Ticks, Dealt(c), frame'[c] = frame[c],
           frame[c].list # <<>>, frame[c].now \in Nat,
           pc'[c] \in Firing, UNCHANGED <<firedAt, mishaps>>,
           Id(c) \in Stored, Stored' \subseteq Stored,
           \A u \in Triggers \ {Id(c)} : rows'[u] = rows[u],
           rows'[Id(c)].lastFired \in {rows[Id(c)].lastFired, frame[c].now},
           pc'[c] = "fire" => rows'[Id(c)].lastFired = frame[c].now,
           Undisturbed(Id(c), {"ticks"}) => NotLater(Id(c), frame[c].now)
    PROVE  CooldownInv'
<1>1. /\ \A d \in Calls \ {c} : pc'[d] = pc[d] /\ frame'[d] = frame[d]
      /\ \A d \in Calls \ {c} : Pending(d)' = Pending(d)
      /\ \A d \in Calls : Id(d)' = Id(d)
      /\ Pending(c)' \subseteq Pending(c)
  <2>1. \A d \in Calls \ {c} : pc'[d] = pc[d] /\ frame'[d] = frame[d]
    BY DEF Dealt, Others
  <2>2. \A d \in Calls \ {c} : Pending(d)' = Pending(d)
    BY <2>1 DEF Pending
  <2>3. \A d \in Calls : Id(d)' = Id(d)
    BY <2>1 DEF Id, Mine
  <2>4. QED
    BY <2>1, <2>2, <2>3 DEF Dealt
<1>2. \A t \in Triggers : Undisturbed(t, {"ticks"})' <=> Undisturbed(t, {"ticks"})
  BY DEF Undisturbed
<1>3. ASSUME NEW t \in Stored', Undisturbed(t, {"ticks"})
      PROVE  NotLater(t, rows'[t].lastFired)
  <2>1. CASE t = Id(c)
    BY <1>3, <2>1 DEF CooldownInv, Stored
  <2>2. CASE t # Id(c)
    BY <1>3, <2>2 DEF CooldownInv, Stored
  <2>3. QED
    BY <2>1, <2>2
<1>4. \A d \in Ticks : Pending(d)' \subseteq Pending(d) /\ frame'[d].now = frame[d].now
  BY <1>1 DEF Calls
<1>5. ASSUME NEW t \in Triggers, Undisturbed(t, {"ticks"}), NEW d \in Ticks,
             pc'[d] \in Firing, Id(d) = t
      PROVE  /\ NotLater(t, frame[d].now)
             /\ (pc'[d] = "fire" /\ t \in Stored') =>
                   rows'[t].lastFired # None /\ rows'[t].lastFired >= frame[d].now
  <2>1. CASE d = c
    BY <1>5, <2>1, BoundsAssumption
  <2>2. CASE d # c
    <3>1. d \in Calls /\ pc[d] \in Firing /\ pc'[d] = pc[d] /\ frame[d].list # <<>>
      BY <1>1, <1>5, <2>2, FiringHolds DEF Calls
    <3>2. t # Id(c)
      BY <1>5, <2>2, <3>1, OnlyCopy
    <3>3. QED
      BY <1>5, <3>1, <3>2 DEF CooldownInv, Firing
  <2>3. QED
    BY <2>1, <2>2
<1>6. Firing = {"stamp", "fire"}
  BY DEF Firing
<1>7. QED
  BY <1>1, <1>2, <1>3, <1>4, <1>5, <1>6 DEF CooldownInv, NotLater, IsCron, Calls

\* What ~InCooldown and the copy's own edge say when the fire is decided.
LEMMA FiresWhenDue ==
    ASSUME Inv0, SpentInv, CooldownInv, NEW c \in Calls, NEW met \in BOOLEAN,
           Evaluate(c, met), ShouldFire(c, met), Undisturbed(Id(c), {"ticks"})
    PROVE  /\ Id(c) \notin spent
           /\ NotLater(Id(c), frame[c].now)
           /\ firedAt[Id(c)] # None => firedAt[Id(c)] + Cooldown <= frame[c].now
<1>1. /\ c \in Ticks /\ ~IsCron(Mine(c).row) /\ Mine(c) \in Pending(c)
      /\ Mine(c).row \in Row /\ frame[c].now \in Nat /\ Id(c) \in Stored
      /\ Mine(c).id = Id(c) /\ Id(c) \in Triggers
  BY EvaluateMoves, StoredRow DEF Id
<1>2. ~Mine(c).row.met /\ ~InCooldown(c)
  BY DEF ShouldFire
<1>3. Id(c) \notin spent
  BY <1>1, <1>2 DEF SpentInv
<1>4. NotLater(Id(c), Mine(c).row.lastFired)
  BY <1>1 DEF CooldownInv
<1>5. /\ firedAt[Id(c)] \in Nat \cup {None} /\ Mine(c).row.lastFired \in Nat \cup {None}
      /\ Cooldown \in Nat
  BY <1>1, BoundsAssumption DEF Inv0, TypeInv, HistoryOK, Row
<1>6. QED
  BY <1>1, <1>2, <1>3, <1>4, <1>5, BoundsAssumption DEF NotLater, InCooldown

LEMMA FiredCooldown ==
    ASSUME Inv0, CooldownInv, NEW c \in Calls, Fire(c)
    PROVE  CooldownInv'
<1>1. /\ pc[c] = "fire" /\ pc'[c] \notin Firing /\ c \in Ticks
      /\ frame'[c] = frame[c] /\ frame[c].list # <<>> /\ frame[c].now \in Nat
      /\ Id(c) \in Triggers /\ UNCHANGED <<rows, mishaps>> /\ Stored' = Stored
      /\ Pending(c)' \subseteq Pending(c) \ {Mine(c)}
      /\ \A d \in Calls \ {c} : pc'[d] = pc[d] /\ frame'[d] = frame[d]
      /\ \A d \in Calls \ {c} : Pending(d)' = Pending(d)
  BY FireMoves DEF Dealt, Others, Stored, Firing, Pending
<1>2. CASE IsCron(Mine(c).row)
  <2>1. UNCHANGED firedAt
    BY <1>2, FireMoves DEF edges
  <2>2. QED
    BY <1>1, <2>1, CooldownStays DEF Calls
<1>3. CASE ~IsCron(Mine(c).row)
  <2>1. firedAt' = [firedAt EXCEPT ![Id(c)] = frame[c].now]
    BY <1>3, FireMoves
  <2>2. /\ firedAt'[Id(c)] = frame[c].now
        /\ \A t \in Triggers \ {Id(c)} : firedAt'[t] = firedAt[t]
    BY <1>1, <2>1 DEF Inv0, TypeInv, HistoryOK
  <2>3. \A t \in Triggers : Undisturbed(t, {"ticks"})' <=> Undisturbed(t, {"ticks"})
    BY <1>1 DEF Undisturbed
  <2>4. Undisturbed(Id(c), {"ticks"}) =>
           /\ \A d \in Ticks : \A copy \in Pending(d)' : copy.id # Id(c)
           /\ \A d \in Ticks \ {c} : pc'[d] \in Firing => Id(d) # Id(c)
    <3>1. \A d \in Ticks \ {c} : pc'[d] \in Firing => frame[d].list # <<>>
      BY <1>1, FiringHolds DEF Calls
    <3>2. QED
      BY <1>1, <3>1, OnlyCopy DEF Calls
  <2>5. \A d \in Calls : Id(d)' = Id(d)
    BY <1>1 DEF Id, Mine
  <2>6. ASSUME NEW t \in Triggers, Undisturbed(t, {"ticks"}), t = Id(c)
        PROVE  t \in Stored => rows[t].lastFired # None /\ rows[t].lastFired >= frame[c].now
    BY <1>1, <2>6 DEF CooldownInv
  <2>7. \A d \in Ticks : /\ Pending(d)' \subseteq Pending(d)
                         /\ frame'[d] = frame[d]
                         /\ pc'[d] \in Firing => d # c /\ pc'[d] = pc[d]
    BY <1>1 DEF Calls
  <2>8. ASSUME NEW t \in Triggers, Undisturbed(t, {"ticks"}), t # Id(c)
        PROVE  \A n : NotLater(t, n)' <=> NotLater(t, n)
    BY <2>2, <2>8 DEF NotLater
  <2>9. ASSUME NEW t \in Triggers, Undisturbed(t, {"ticks"})
        PROVE  /\ t \in Stored => NotLater(t, rows[t].lastFired)'
               /\ \A d \in Ticks : \A copy \in Pending(d)' : copy.id = t =>
                     (NotLater(t, IF IsCron(copy.row) THEN frame[d].now
                                                      ELSE copy.row.lastFired))'
               /\ \A d \in Ticks : (pc'[d] \in Firing /\ Id(d) = t) =>
                     NotLater(t, frame[d].now)'
               /\ \A d \in Ticks : (pc'[d] = "fire" /\ Id(d) = t /\ t \in Stored) =>
                     rows[t].lastFired # None /\ rows[t].lastFired >= frame[d].now
    <3>1. CASE t = Id(c)
      BY <1>1, <2>2, <2>4, <2>6, <2>7, <2>9, <3>1 DEF NotLater, Firing
    <3>2. CASE t # Id(c)
      BY <1>1, <2>2, <2>7, <2>9, <3>2 DEF CooldownInv, NotLater, Firing, IsCron
    <3>3. QED
      BY <3>1, <3>2
  <2>10. QED
    BY <1>1, <2>3, <2>5, <2>7, <2>9 DEF CooldownInv, NotLater, IsCron, Calls, Firing
<1>4. QED
  BY <1>2, <1>3

LEMMA NextCooldownInv ==
    ASSUME Inv0, SpentInv, CooldownInv, [Next]_vars
    PROVE  CooldownInv'
<1>1. ASSUME Kept PROVE CooldownInv'
  <2>1. UNCHANGED firedAt /\ mishaps \subseteq mishaps'
    BY <1>1 DEF Kept, edges
  <2>2. \A u \in Stored' : \/ u \in Stored /\ rows'[u].lastFired = rows[u].lastFired
                           \/ u \notin used
    BY <1>1 DEF Kept, RowsKept
  <2>3. \A c \in Ticks : /\ Pending(c)' \subseteq Pending(c)
                         /\ Pending(c)' # {} => frame'[c].now = frame[c].now
                         /\ pc'[c] \in Firing => pc'[c] = pc[c] /\ frame'[c] = frame[c]
    BY <1>1 DEF Kept, CallsKept, Calls
  <2>4. QED
    BY <2>1, <2>2, <2>3, CooldownStays
<1>2. ASSUME NEW c \in Calls, Stage(c) PROVE CooldownInv'
  <2>1. ASSUME NEW x \in What, NEW e \in BOOLEAN, UpdateTrigger(c, x, e) PROVE CooldownInv'
    <3>1. /\ UNCHANGED firedAt /\ mishaps \subseteq mishaps' /\ Others(c)
          /\ Pending(c)' = {} /\ pc'[c] = "idle"
          /\ \A u \in Stored' : u \in Stored /\ rows'[u].lastFired = rows[u].lastFired
      BY <2>1, UpdateTriggerMoves DEF Stored
    <3>2. \A d \in Ticks : /\ Pending(d)' \subseteq Pending(d)
                           /\ Pending(d)' # {} => frame'[d].now = frame[d].now
                           /\ pc'[d] \in Firing => pc'[d] = pc[d] /\ frame'[d] = frame[d]
      BY <3>1 DEF Others, Pending, Calls, Firing
    <3>3. QED
      BY <3>1, <3>2, CooldownStays
  <2>2. ASSUME AdvanceSlot(c) PROVE CooldownInv'
    <3>1. /\ c \in Ticks /\ Dealt(c) /\ frame'[c] = frame[c] /\ frame[c].list # <<>>
          /\ frame[c].now \in Nat /\ pc'[c] = "fire" /\ UNCHANGED <<firedAt, mishaps>>
          /\ Id(c) \in Stored /\ Stored' \subseteq Stored
          /\ \A u \in Triggers \ {Id(c)} : rows'[u] = rows[u]
          /\ rows'[Id(c)].lastFired = frame[c].now
          /\ IsCron(Mine(c).row) /\ Mine(c) \in Pending(c)
      BY <2>2, AdvanceSlotMoves, MineOK DEF edges, Inv0, TypeInv
    <3>2. Undisturbed(Id(c), {"ticks"}) => NotLater(Id(c), frame[c].now)
      BY <3>1, StoredRow DEF CooldownInv, Id
    <3>3. QED
      BY <3>1, <3>2, StagedCooldown DEF Firing
  <2>3. ASSUME Stamp(c) PROVE CooldownInv'
    <3>1. /\ c \in Ticks /\ Dealt(c) /\ frame'[c] = frame[c]
          /\ pc[c] = "stamp" /\ pc'[c] = "fire" /\ UNCHANGED <<firedAt, mishaps>>
          /\ Id(c) \in Stored /\ Stored' \subseteq Stored /\ frame[c].now \in Nat
          /\ \A u \in Triggers \ {Id(c)} : rows'[u] = rows[u]
          /\ rows'[Id(c)].lastFired = frame[c].now
      BY <2>3, StampMoves DEF edges
    <3>2. frame[c].list # <<>>
      BY <3>1, FiringHolds DEF Firing
    <3>3. Undisturbed(Id(c), {"ticks"}) => NotLater(Id(c), frame[c].now)
      BY <3>1, StoredRow DEF CooldownInv
    <3>4. QED
      BY <3>1, <3>2, <3>3, StagedCooldown DEF Firing
  <2>4. ASSUME NEW met \in BOOLEAN, Evaluate(c, met) PROVE CooldownInv'
    <3>1. /\ c \in Ticks /\ Dealt(c) /\ frame'[c].now = frame[c].now /\ frame[c].now \in Nat
          /\ UNCHANGED <<firedAt, mishaps>> /\ Id(c) \in Stored /\ Stored' \subseteq Stored
          /\ \A u \in Triggers \ {Id(c)} : rows'[u] = rows[u]
          /\ rows'[Id(c)].lastFired = rows[Id(c)].lastFired
      BY <2>4, EvaluateMoves
    <3>2. frame[c].list # <<>>
      BY <2>4 DEF Evaluate, AtCopy
    <3>3. CASE ShouldFire(c, met)
      <4>1. pc'[c] = "stamp" /\ frame'[c] = frame[c]
        BY <2>4, <3>3, EvaluateMoves
      <4>2. Undisturbed(Id(c), {"ticks"}) => NotLater(Id(c), frame[c].now)
        BY <2>4, <3>3, FiresWhenDue
      <4>3. QED
        BY <3>1, <3>2, <4>1, <4>2, StagedCooldown DEF Firing
    <3>4. CASE ~ShouldFire(c, met)
      <4>1. pc'[c] = "threshold"
        BY <2>4, <3>4, EvaluateMoves
      <4>2. \A u \in Stored' : u \in Stored /\ rows'[u].lastFired = rows[u].lastFired
        BY <3>1 DEF Stored
      <4>3. \A d \in Ticks : /\ Pending(d)' \subseteq Pending(d)
                             /\ frame'[d].now = frame[d].now
                             /\ pc'[d] \in Firing => pc'[d] = pc[d] /\ frame'[d] = frame[d]
        BY <3>1, <4>1 DEF Dealt, Others, Pending, Calls, Firing
      <4>4. QED
        BY <3>1, <4>2, <4>3, CooldownStays
    <3>5. QED
      BY <3>3, <3>4
  <2>5. QED
    BY <1>2, <2>1, <2>2, <2>3, <2>4, ReadCooldown, FiredCooldown DEF Stage
<1>3. ASSUME UNCHANGED vars PROVE CooldownInv'
  <2>1. UNCHANGED <<rows, pc, frame, firedAt, mishaps>>
    BY <1>3 DEF vars, tables, edges
  <2>2. QED
    BY <2>1 DEF CooldownInv, NotLater, Undisturbed, Stored, Pending, Id, Mine, IsCron
<1>4. QED
  BY <1>1, <1>2, <1>3, Steps

LEMMA StampsAreDecided ==
    ASSUME Inv0, Next, NEW c \in Ticks, pc[c] = "threshold", pc'[c] = "stamp"
    PROVE  \E met \in BOOLEAN : Evaluate(c, met) /\ ShouldFire(c, met)
<1>1. c \in Calls
  BY DEF Calls
<1>2. ~Kept
  BY <1>1 DEF Kept, CallsKept, Firing
<1>3. PICK d \in Calls : Stage(d)
  BY <1>2, Steps
<1>4. ASSUME NEW met \in BOOLEAN, Evaluate(d, met) PROVE Dealt(d) /\
         (ShouldFire(d, met) \/ pc'[d] = "threshold")
  BY <1>4, EvaluateMoves
<1>5. ASSUME NEW x \in What, NEW e \in BOOLEAN, UpdateTrigger(d, x, e)
      PROVE  Others(d) /\ pc'[d] = "idle"
  BY <1>5, UpdateTriggerMoves
<1>6. Reads(d) => Others(d) /\ pc'[d] \notin Firing
  BY DEF Reads
<1>7. AdvanceSlot(d) \/ Stamp(d) \/ Fire(d) => Dealt(d) /\ pc'[d] # "stamp"
  BY AdvanceSlotMoves, StampMoves, FireMoves
<1>8. QED
  BY <1>1, <1>3, <1>4, <1>5, <1>6, <1>7 DEF Stage, Dealt, Others, Firing

\* Between two fires of a threshold trigger somebody has seen the condition
\* false or edited the trigger, and the cooldown has passed, as long as no two
\* ticks hold it together: also when a tick works from an old copy or dies.
THEOREM FiresAnswerEdges == Spec => FiresAreRisingEdges
<1> DEFINE J == Inv0 /\ SpentInv /\ CooldownInv
           A == \A c \in Ticks :
                  (pc[c] = "threshold" /\ pc'[c] = "stamp" /\ Undisturbed(Id(c), {"ticks"}))
                     => /\ Id(c) \notin spent
                        /\ firedAt[Id(c)] # None => firedAt[Id(c)] + Cooldown <= frame[c].now
<1>1. Init => J
  <2>1. SUFFICES ASSUME Init PROVE J
    OBVIOUS
  <2>2. /\ Inv0 /\ Stored = {} /\ spent = {}
        /\ \A c \in Ticks : Pending(c) = {} /\ pc[c] = "idle"
    BY <2>1, Initially DEF Init, Stored, Calls
  <2>3. QED
    BY <2>2 DEF SpentInv, CooldownInv
<1>2. J /\ [Next]_vars => J'
  BY NextTypes, NextSpentInv, NextCooldownInv
<1>3. J /\ [Next]_vars => [A]_vars
  <2>1. SUFFICES ASSUME J, Next PROVE A
    OBVIOUS
  <2>2. SUFFICES ASSUME NEW c \in Ticks, pc[c] = "threshold", pc'[c] = "stamp",
                        Undisturbed(Id(c), {"ticks"})
                 PROVE  /\ Id(c) \notin spent
                        /\ firedAt[Id(c)] # None => firedAt[Id(c)] + Cooldown <= frame[c].now
    OBVIOUS
  <2>3. QED
    BY <2>1, <2>2, StampsAreDecided, FiresWhenDue DEF Calls
<1>4. QED
  <2> HIDE DEF J
  <2>1. Spec => [][A]_vars
    <3> HIDE DEF A
    <3>1. QED
      BY <1>1, <1>2, <1>3, PTL DEF Spec
  <2>2. QED
    BY <2>1 DEF FiresAreRisingEdges

-----------------------------------------------------------------------------
(***************************************************************************)
(* Edges are answered.                                                     *)
(***************************************************************************)
Calm(t) == Undisturbed(t, {"ticks", "edit", "died"})

LEMMA CalmIsUndisturbed ==
    ASSUME NEW t, Calm(t)
    PROVE  Undisturbed(t, {"ticks"})
BY DEF Calm, Undisturbed

LEMMA CalmGrows ==
    ASSUME NEW t, mishaps \subseteq mishaps', Calm(t)'
    PROVE  Calm(t)
BY DEF Calm, Undisturbed

\* A step that stores no new edge and takes no answer back.
LEMMA EdgesStay ==
    ASSUME Inv0, EdgeInv, mishaps \subseteq mishaps',
           \A t \in Triggers : Calm(t)' =>
              /\ (t \in Stored' /\ rows'[t].met) => t \in Stored /\ rows[t].met
              /\ t \in answered => \/ t \in answered'
                                   \/ /\ t \in Stored' => ~rows'[t].met
                                      /\ \A c \in Ticks : \A copy \in Pending(c)' : copy.id # t
              /\ \A c \in Ticks : (Answering(c, t) /\ t \in Stored') =>
                    (t \in answered' \/ \E d \in Ticks : Answering(d, t)'),
           \A c \in Ticks : Pending(c)' \subseteq Pending(c)
    PROVE  EdgeInv'
<1> SUFFICES ASSUME NEW t \in Triggers, Calm(t)'
             PROVE  /\ (t \in Stored' /\ rows'[t].met) =>
                          (t \in answered' \/ \E c \in Ticks : Answering(c, t)')
                    /\ \A c \in Ticks : \A copy \in Pending(c)' :
                          (copy.id = t /\ ~IsCron(copy.row) /\ copy.row.met)
                              => t \in answered'
  BY DEF EdgeInv, IsCron, Calm
<1>1. Calm(t)
  BY CalmGrows
<1>2. QED
  BY <1>1 DEF EdgeInv, Calm

LEMMA KeptEdges ==
    ASSUME Inv0, EdgeInv, Kept
    PROVE  EdgeInv'
<1>1. /\ mishaps \subseteq mishaps' /\ answered' = answered
      /\ \A c \in Ticks : Pending(c)' \subseteq Pending(c)
  BY DEF Kept, edges, CallsKept, Calls
<1>2. \A t \in Stored' : rows'[t].met => t \in Stored /\ rows[t].met
  BY DEF Kept, RowsKept
<1>3. ASSUME NEW t \in Triggers, Calm(t)', NEW c \in Ticks, Answering(c, t), t \in Stored',
             rows'[t].met
      PROVE  Answering(c, t)'
  <2>1. \/ pc'[c] = pc[c] /\ frame'[c] = frame[c]
        \/ Id(c) \notin Stored
        \/ <<"died", Id(c)>> \in mishaps'
    BY <1>3 DEF Kept, CallsKept, Answering, Firing, Calls
  <2>2. t = Id(c) /\ t \in Stored /\ <<"died", t>> \notin mishaps'
    BY <1>2, <1>3 DEF Answering, Calm, Undisturbed
  <2>3. pc'[c] = pc[c] /\ frame'[c] = frame[c]
    BY <2>1, <2>2
  <2>4. QED
    BY <1>3, <2>3 DEF Answering, Id, Mine, IsCron
<1> SUFFICES ASSUME NEW t \in Triggers, Calm(t)'
             PROVE  /\ (t \in Stored' /\ rows'[t].met) =>
                          (t \in answered' \/ \E c \in Ticks : Answering(c, t)')
                    /\ \A c \in Ticks : \A copy \in Pending(c)' :
                          (copy.id = t /\ ~IsCron(copy.row) /\ copy.row.met)
                              => t \in answered'
  BY DEF EdgeInv, IsCron, Calm
<1>4. Calm(t)
  BY <1>1, CalmGrows
<1>5. QED
  BY <1>1, <1>2, <1>3, <1>4 DEF EdgeInv, Calm

LEMMA ReadEdges ==
    ASSUME Inv0, EdgeInv, NEW c \in Calls, Reads(c)
    PROVE  EdgeInv'
<1>1. /\ UNCHANGED <<rows, answered>> /\ Stored' = Stored /\ mishaps \subseteq mishaps'
      /\ \A copy \in Pending(c)' : copy.id \in Stored /\ copy.row = rows[copy.id]
      /\ \A d \in Calls \ {c} : pc'[d] = pc[d] /\ frame'[d] = frame[d]
      /\ pc[c] \notin Firing /\ Inv0'
  BY DEF Reads, tables, edges, Stored, Others
<1>2. \A d \in Calls \ {c} : /\ Pending(d)' = Pending(d) /\ Held(d)' = Held(d)
                             /\ Id(d)' = Id(d) /\ Mine(d)' = Mine(d)
  BY <1>1 DEF Pending, Held, Id, Mine
<1>3. \A d \in Ticks, t \in Triggers : Answering(d, t) => d # c /\ Answering(d, t)'
  BY <1>1, <1>2 DEF Answering, Firing, IsCron, Calls
<1>4. ASSUME NEW t \in Triggers, Calm(t)', c \in Ticks, NEW copy \in Pending(c)',
             copy.id = t, NEW d \in Ticks, Answering(d, t)
      PROVE  FALSE
  <2>1. d # c /\ d \in Calls /\ t \in Held(d)
    BY <1>3, <1>4, FiringHolds DEF Answering, Firing, Calls
  <2>2. t \in Held(d)' /\ t \in Held(c)'
    BY <1>2, <1>4, <2>1, HeldIds DEF Pending, Held, ToSet
  <2>3. <<"ticks", t>> \in mishaps'
    BY <1>1, <1>4, <2>1, <2>2 DEF Inv0, ClashInv, Clash
  <2>4. QED
    BY <1>4, <2>3 DEF Calm, Undisturbed
<1> SUFFICES ASSUME NEW t \in Triggers, Calm(t)'
             PROVE  /\ (t \in Stored' /\ rows'[t].met) =>
                          (t \in answered' \/ \E d \in Ticks : Answering(d, t)')
                    /\ \A d \in Ticks : \A copy \in Pending(d)' :
                          (copy.id = t /\ ~IsCron(copy.row) /\ copy.row.met)
                              => t \in answered'
  BY DEF EdgeInv, IsCron, Calm
<1>5. Calm(t)
  BY <1>1, CalmGrows
<1>6. (t \in Stored' /\ rows'[t].met) =>
         (t \in answered' \/ \E d \in Ticks : Answering(d, t)')
  BY <1>1, <1>3, <1>5 DEF EdgeInv, Calm
<1>7. ASSUME NEW d \in Ticks, NEW copy \in Pending(d)', copy.id = t,
             ~IsCron(copy.row), copy.row.met
      PROVE  t \in answered'
  <2>1. CASE d # c
    BY <1>1, <1>2, <1>5, <1>7, <2>1 DEF EdgeInv, Calm, Calls
  <2>2. CASE d = c
    BY <1>1, <1>4, <1>5, <1>7, <2>2 DEF EdgeInv, Calm
  <2>3. QED
    BY <2>1, <2>2
<1>8. QED
  BY <1>6, <1>7

LEMMA UpdatedEdges ==
    ASSUME Inv0, EdgeInv, NEW c \in Calls, NEW x \in What, NEW e \in BOOLEAN,
           UpdateTrigger(c, x, e)
    PROVE  EdgeInv'
<1>1. /\ c \in Operators /\ Id(c) \in Held(c) /\ mishaps' = mishaps
      /\ \A d \in Calls \ {c} : pc'[d] = pc[d] /\ frame'[d] = frame[d]
      /\ Pending(c)' = {} /\ pc[c] = "update"
  BY UpdateTriggerMoves DEF Others
<1>2. \A d \in Calls \ {c} : /\ Pending(d)' = Pending(d) /\ Held(d)' = Held(d)
                             /\ Id(d)' = Id(d) /\ Mine(d)' = Mine(d)
  BY <1>1 DEF Pending, Held, Id, Mine
<1>3. Ticks \subseteq Calls \ {c}
  BY <1>1, SlotsAssumption DEF Calls
<1>4. \A d \in Ticks, t \in Triggers : Answering(d, t) => Answering(d, t)'
  BY <1>1, <1>2, <1>3 DEF Answering, IsCron
<1>5. \A d \in Ticks : Pending(d)' = Pending(d)
  BY <1>2, <1>3
<1>6. ASSUME NEW t \in Triggers, Calm(t)', t \in answered, t \notin answered'
      PROVE  /\ t \in Stored' => ~rows'[t].met
             /\ \A d \in Ticks : \A copy \in Pending(d)' : copy.id # t
  <2>1. t = Id(c) /\ ~rows'[t].met
    BY <1>6, UpdateTriggerMoves
  <2>2. ASSUME NEW d \in Ticks, t \in Held(d) PROVE FALSE
    <3>1. d # c /\ d \in Calls /\ d \notin Operators /\ c \notin Ticks
      BY <1>1, <1>3, <2>2, SlotsAssumption
    <3>2. <<"edit", t>> \in mishaps
      BY <1>1, <2>1, <2>2, <3>1 DEF Inv0, ClashInv, Clash
    <3>3. QED
      BY <1>1, <1>6, <3>2 DEF Calm, Undisturbed
  <2>3. QED
    BY <1>5, <2>1, <2>2, PendingHeld
<1>7. \A t \in Triggers : (t \in Stored' /\ rows'[t].met) => t \in Stored /\ rows[t].met
  BY UpdateTriggerMoves DEF Stored
<1>8. QED
  BY <1>1, <1>4, <1>5, <1>6, <1>7, EdgesStay

LEMMA EvaluatedEdges ==
    ASSUME Inv0, EdgeInv, NEW c \in Calls, NEW met \in BOOLEAN, Evaluate(c, met)
    PROVE  EdgeInv'
<1>0. PICK t \in Triggers : t = Id(c)
  BY EvaluateMoves, StoredRow
<1>1. /\ c \in Ticks /\ pc[c] = "threshold" /\ UNCHANGED mishaps
      /\ frame'[c].now = frame[c].now /\ Dealt(c)
      /\ ~IsCron(Mine(c).row) /\ Mine(c) \in Pending(c)
      /\ IF ShouldFire(c, met) THEN pc'[c] = "stamp" /\ frame'[c] = frame[c]
                               ELSE pc'[c] = "threshold"
      /\ t \in Stored /\ Stored' \subseteq Stored /\ rows'[t].met = met
      /\ \A u \in Triggers \ {t} : rows'[u] = rows[u]
  BY <1>0, EvaluateMoves
<1>2. /\ frame[c].list # <<>>
      /\ answered' = IF ~met THEN answered \ {t}
                     ELSE IF (met /\ ~Mine(c).row.met) /\ InCooldown(c)
                     THEN answered \cup {t} ELSE answered
  BY <1>0 DEF Evaluate, AtCopy
<1>3. /\ \A d \in Calls \ {c} : pc'[d] = pc[d] /\ frame'[d] = frame[d]
      /\ Pending(c)' \subseteq Pending(c) \ {Mine(c)}
  BY <1>1 DEF Dealt, Others
<1>4. \A d \in Calls \ {c} : /\ Pending(d)' = Pending(d)
                             /\ Id(d)' = Id(d) /\ Mine(d)' = Mine(d)
  BY <1>3 DEF Pending, Id, Mine
<1>5. \A d \in Ticks : /\ Pending(d)' \subseteq Pending(d)
                       /\ \A u \in Triggers : Answering(d, u) => Answering(d, u)'
  BY <1>1, <1>3, <1>4 DEF Answering, IsCron, Calls
<1>6. \A u \in Triggers : Calm(u)' <=> Calm(u)
  BY <1>1 DEF Calm, Undisturbed
<1>7. Calm(t) => \A d \in Ticks : \A copy \in Pending(d)' : copy.id # t
  BY <1>0, <1>1, <1>2, <1>3, <1>4, CalmIsUndisturbed, OnlyCopy DEF Calls
<1>8. ASSUME Calm(t), met
      PROVE  t \in answered' \/ Answering(c, t)'
  <2>1. CASE Mine(c).row.met
    <3>1. t \in answered
      BY <1>0, <1>1, <1>8, <2>1 DEF EdgeInv, Calm, Id
    <3>2. QED
      BY <1>2, <1>8, <3>1
  <2>2. CASE ~Mine(c).row.met /\ InCooldown(c)
    BY <1>2, <1>8, <2>2
  <2>3. CASE ~Mine(c).row.met /\ ~InCooldown(c)
    <3>1. pc'[c] = "stamp" /\ frame'[c] = frame[c]
      BY <1>1, <1>8, <2>3 DEF ShouldFire
    <3>2. QED
      BY <1>0, <1>1, <3>1 DEF Answering, Id, Mine, IsCron
  <2>4. QED
    BY <2>1, <2>2, <2>3
<1> SUFFICES ASSUME NEW u \in Triggers, Calm(u)'
             PROVE  /\ (u \in Stored' /\ rows'[u].met) =>
                          (u \in answered' \/ \E d \in Ticks : Answering(d, u)')
                    /\ \A d \in Ticks : \A copy \in Pending(d)' :
                          (copy.id = u /\ ~IsCron(copy.row) /\ copy.row.met)
                              => u \in answered'
  BY DEF EdgeInv, IsCron, Calm
<1>9. CASE u = t
  BY <1>1, <1>6, <1>7, <1>8, <1>9
<1>10. CASE u # t
  <2>1. u \in answered' <=> u \in answered
    BY <1>2, <1>10
  <2>2. QED
    BY <1>1, <1>5, <1>6, <1>10, <2>1 DEF EdgeInv, Calm
<1>11. QED
  BY <1>9, <1>10

LEMMA StagedEdges ==
    ASSUME Inv0, EdgeInv, NEW c \in Calls, AdvanceSlot(c) \/ Stamp(c) \/ Fire(c)
    PROVE  EdgeInv'
<1>1. /\ UNCHANGED mishaps /\ frame'[c] = frame[c]
      /\ \A d \in Calls \ {c} : pc'[d] = pc[d] /\ frame'[d] = frame[d]
      /\ Pending(c)' \subseteq Pending(c)
  BY AdvanceSlotMoves, StampMoves, FireMoves DEF Dealt, Others
<1>2. /\ \A d \in Calls : Id(d)' = Id(d) /\ Mine(d)' = Mine(d)
      /\ \A d \in Calls \ {c} : Pending(d)' = Pending(d)
  BY <1>1 DEF Pending, Id, Mine
<1>3. \A d \in Ticks : Pending(d)' \subseteq Pending(d)
  BY <1>1, <1>2 DEF Calls
<1>4. \A t \in Triggers : (t \in Stored' /\ rows'[t].met) => t \in Stored /\ rows[t].met
  BY AdvanceSlotMoves, StampMoves, FireMoves DEF Stored
<1>5. answered \subseteq answered'
  BY AdvanceSlotMoves, StampMoves, FireMoves DEF edges
<1>6. ASSUME NEW t \in Triggers, Answering(c, t)
      PROVE  t \in answered' \/ Answering(c, t)'
  <2>1. ~AdvanceSlot(c)
    BY <1>6, AdvanceSlotMoves DEF Answering
  <2>2. Stamp(c) => pc'[c] = "fire"
    BY StampMoves
  <2>3. Fire(c) => t \in answered'
    BY <1>6, FireMoves DEF Answering
  <2>4. QED
    BY <1>2, <1>6, <2>1, <2>2, <2>3 DEF Answering, IsCron
<1>7. \A d \in Ticks, t \in Triggers : Answering(d, t) => t \in answered' \/ Answering(d, t)'
  BY <1>1, <1>2, <1>6 DEF Answering, IsCron, Calls
<1>8. QED
  BY <1>1, <1>3, <1>4, <1>5, <1>7, EdgesStay

LEMMA NextEdgeInv ==
    ASSUME Inv0, EdgeInv, [Next]_vars
    PROVE  EdgeInv'
<1>1. ASSUME NEW c \in Calls, Stage(c) PROVE EdgeInv'
  BY <1>1, ReadEdges, UpdatedEdges, EvaluatedEdges, StagedEdges DEF Stage
<1>2. ASSUME UNCHANGED vars PROVE EdgeInv'
  <2>1. UNCHANGED <<rows, pc, frame, answered, mishaps>>
    BY <1>2 DEF vars, tables, edges
  <2>2. QED
    BY <2>1 DEF EdgeInv, Answering, Undisturbed, Stored, Pending, Id, Mine, IsCron
<1>3. QED
  BY <1>1, <1>2, Steps, KeptEdges

\* A condition stored as met has had its answer, a fire or a cooldown: no edge
\* is swallowed unless the tick died, met another tick, or met an edit.
THEOREM NoEdgeIsSwallowed == Spec => []EdgesAreAnswered
<1>1. Init => Inv0 /\ EdgeInv
  <2>1. SUFFICES ASSUME Init PROVE Inv0 /\ EdgeInv
    OBVIOUS
  <2>2. /\ Inv0 /\ Stored = {}
        /\ \A c \in Ticks : Pending(c) = {}
    BY <2>1, Initially DEF Init, Stored, Calls
  <2>3. QED
    BY <2>2 DEF EdgeInv
<1>2. Inv0 /\ EdgeInv /\ [Next]_vars => (Inv0 /\ EdgeInv)'
  BY NextTypes, NextEdgeInv
<1>3. Inv0 /\ EdgeInv => EdgesAreAnswered
  BY DEF EdgeInv, EdgesAreAnswered, Answering, Stored
<1>4. QED
  BY <1>1, <1>2, <1>3, PTL DEF Spec

-----------------------------------------------------------------------------
(***************************************************************************)
(* Enabled triggers have a slot.                                           *)
(***************************************************************************)
\* The operator's copy names the expression or metric the row still has.
CopyNamesIt(c) ==
    (Id(c) \in Stored /\ Undisturbed(Id(c), {"operators"}))
        => Mine(c).row.what = rows[Id(c)].what

\* A step of c that leaves the expressions and schedules of the rows alone.
LEMMA SchedulesStay ==
    ASSUME Inv0, ScheduleInv, NEW c \in Calls, Others(c), pc'[c] \notin Edits,
           mishaps \subseteq mishaps',
           \A u \in Stored' : u \in Stored /\ rows'[u].what = rows[u].what,
           \A u \in Stored' : \/ ~rows'[u].enabled
                              \/ rows'[u].nextAt # None
                              \/ /\ rows'[u].enabled = rows[u].enabled
                                 /\ rows'[u].nextAt = rows[u].nextAt
    PROVE  ScheduleInv'
<1>1. \A t, K : Undisturbed(t, K)' => Undisturbed(t, K)
  BY DEF Undisturbed
<1>2. EnabledHasASlot'
  BY <1>1 DEF ScheduleInv, EnabledHasASlot, IsCron
<1>3. \A d \in Calls \ {c} : pc'[d] = pc[d] /\ Id(d)' = Id(d) /\ Mine(d)' = Mine(d)
  BY DEF Others, Id, Mine
<1>4. QED
  BY <1>1, <1>2, <1>3 DEF ScheduleInv, Calls

LEMMA NextScheduleInv ==
    ASSUME Inv0, ScheduleInv, [Next]_vars
    PROVE  ScheduleInv'
<1>1. ASSUME NEW c \in Calls, Advance(c) \/ StartTick(c) PROVE ScheduleInv'
  <2>1. ASSUME RowGone(c) \/ EndTick(c) \/ SkipUnknown(c) PROVE ScheduleInv'
    <3>1. /\ Others(c) /\ pc'[c] \notin Edits /\ mishaps \subseteq mishaps'
          /\ Stored' = Stored /\ UNCHANGED rows
      BY <2>1, RowGoneMoves, EndTickMoves, SkipUnknownMoves DEF Kept, Edits
    <3>2. QED
      BY <3>1, SchedulesStay
  <2>2. ASSUME DisableRejected(c) PROVE ScheduleInv'
    <3>1. /\ Others(c) /\ pc'[c] \notin Edits /\ mishaps \subseteq mishaps'
          /\ Stored' \subseteq Stored
          /\ ~rows'[Id(c)].enabled /\ rows'[Id(c)].what = rows[Id(c)].what
          /\ \A u \in Triggers \ {Id(c)} : rows'[u] = rows[u]
      BY <2>2, DisableRejectedMoves DEF Kept
    <3>2. \A u \in Stored' : /\ u \in Stored /\ rows'[u].what = rows[u].what
                             /\ ~rows'[u].enabled \/ rows'[u] = rows[u]
      BY <3>1 DEF Stored
    <3>3. QED
      BY <3>1, <3>2, SchedulesStay
  <2>3. ASSUME MetricThrows(c) \/ RecordSuccess(c) \/ SuccessThrows(c) \/ RecordFailure(c)
        PROVE  ScheduleInv'
    <3>1. /\ Others(c) /\ pc'[c] \notin Edits /\ mishaps \subseteq mishaps'
          /\ Stored' \subseteq Stored
          /\ \A u \in Stored' : /\ rows'[u].enabled = rows[u].enabled
                                /\ rows'[u].what = rows[u].what
                                /\ rows'[u].nextAt = rows[u].nextAt
      BY <2>3, MetricThrowsMoves, RecordSuccessMoves, SuccessThrowsMoves,
         RecordFailureMoves DEF Kept
    <3>2. QED
      BY <3>1, SchedulesStay
  <2>4. ASSUME ReadThresholds(c) \/ StartTick(c) PROVE ScheduleInv'
    <3>1. Reads(c)
      BY <2>4, ReadThresholdsMoves, StartTickMoves
    <3>2. /\ Others(c) /\ pc'[c] \notin Edits /\ mishaps \subseteq mishaps'
          /\ Stored' = Stored /\ UNCHANGED rows
      BY <3>1 DEF Reads, tables, Stored
    <3>3. QED
      BY <3>2, SchedulesStay
  <2>5. ASSUME AdvanceSlot(c) PROVE ScheduleInv'
    <3>1. /\ Others(c) /\ pc'[c] \notin Edits /\ mishaps \subseteq mishaps'
          /\ Stored' \subseteq Stored
          /\ rows'[Id(c)].nextAt \in Nat /\ rows'[Id(c)].what = rows[Id(c)].what
          /\ \A u \in Triggers \ {Id(c)} : rows'[u] = rows[u]
      BY <2>5, AdvanceSlotMoves DEF Dealt, Edits
    <3>2. \A u \in Stored' : /\ u \in Stored /\ rows'[u].what = rows[u].what
                             /\ rows'[u].nextAt # None \/ rows'[u] = rows[u]
      BY <3>1, BoundsAssumption DEF Stored
    <3>3. QED
      BY <3>1, <3>2, SchedulesStay
  <2>6. ASSUME Stamp(c) \/ \E met \in BOOLEAN : Evaluate(c, met) PROVE ScheduleInv'
    <3>1. /\ Others(c) /\ pc'[c] \notin Edits /\ mishaps \subseteq mishaps'
          /\ Stored' \subseteq Stored
          /\ rows'[Id(c)].nextAt = rows[Id(c)].nextAt
          /\ rows'[Id(c)].what = rows[Id(c)].what
          /\ rows'[Id(c)].enabled = rows[Id(c)].enabled
          /\ \A u \in Triggers \ {Id(c)} : rows'[u] = rows[u]
      BY <2>6, StampMoves, EvaluateMoves DEF Dealt, Edits
    <3>2. \A u \in Stored' : /\ u \in Stored /\ rows'[u].what = rows[u].what
                             /\ rows'[u].enabled = rows[u].enabled
                             /\ rows'[u].nextAt = rows[u].nextAt
      BY <3>1 DEF Stored
    <3>3. QED
      BY <3>1, <3>2, SchedulesStay
  <2>7. ASSUME Fire(c) PROVE ScheduleInv'
    <3>1. /\ Others(c) /\ pc'[c] \notin Edits /\ mishaps \subseteq mishaps' /\ UNCHANGED rows
      BY <2>7, FireMoves DEF Dealt, Edits
    <3>2. QED
      BY <3>1, SchedulesStay DEF Stored
  <2>8. QED
    BY <1>1, <2>1, <2>2, <2>3, <2>4, <2>5, <2>6, <2>7 DEF Advance
<1>2. ASSUME NEW c \in Calls, Crash(c) PROVE ScheduleInv'
  <2>1. /\ Others(c) /\ pc'[c] \notin Edits /\ mishaps \subseteq mishaps'
        /\ Stored' = Stored /\ UNCHANGED rows
    BY <1>2, CrashMoves DEF Kept, Edits
  <2>2. QED
    BY <2>1, SchedulesStay
<1>3. ASSUME NEW c \in Operators, NEW t \in Triggers,
             NEW op \in {"update", "enable", "disable", "delete"}, LoadForEdit(c, t, op)
      PROVE  ScheduleInv'
  <2>1. /\ Others(c) /\ mishaps \subseteq mishaps' /\ UNCHANGED rows
        /\ frame'[c].list[1].id = t /\ frame'[c].list[1].row = rows[t]
    BY <1>3, LoadForEditMoves DEF Kept, tables
  <2>2. \A u, K : Undisturbed(u, K)' => Undisturbed(u, K)
    BY <2>1 DEF Undisturbed
  <2>3. EnabledHasASlot'
    BY <2>1, <2>2 DEF ScheduleInv, EnabledHasASlot, IsCron, Stored
  <2>4. CopyNamesIt(c)'
    BY <2>1 DEF CopyNamesIt, Id, Mine
  <2>5. \A d \in Calls \ {c} : pc'[d] = pc[d] /\ Id(d)' = Id(d) /\ Mine(d)' = Mine(d)
    BY <2>1 DEF Others, Id, Mine
  <2>6. QED
    BY <2>1, <2>2, <2>3, <2>4, <2>5 DEF ScheduleInv, CopyNamesIt, Stored, Calls
<1>4. ASSUME NEW c \in Calls, NEW x \in What, NEW e \in BOOLEAN, UpdateTrigger(c, x, e)
      PROVE  ScheduleInv'
  <2>1. PICK t \in Triggers : t = Id(c)
    <3>1. frame[c].list # <<>>
      BY <1>4, UpdateTriggerMoves, HeldIds DEF Held, ToSet
    <3>2. QED
      BY <3>1, MineOK DEF Inv0, TypeInv
  <2>2. /\ Others(c) /\ mishaps' = mishaps /\ pc'[c] = "idle" /\ t \in Held(c)
        /\ x \in readable /\ c \in Operators
        /\ \/ UNCHANGED rows
           \/ /\ t \in Stored /\ rows'[t].what = x
              /\ rows'[t].nextAt = NextSlot(x, frame[c].now)
              /\ \A u \in Triggers \ {t} : rows'[u] = rows[u]
    BY <1>4, <2>1, UpdateTriggerMoves
  <2>3. CASE UNCHANGED rows
    <3>1. Stored' = Stored /\ pc'[c] \notin Edits
      BY <2>2, <2>3 DEF Stored, Edits
    <3>2. QED
      BY <2>2, <2>3, <3>1, SchedulesStay
  <2>4. CASE /\ t \in Stored /\ rows'[t].what = x
             /\ rows'[t].nextAt = NextSlot(x, frame[c].now)
             /\ \A u \in Triggers \ {t} : rows'[u] = rows[u]
    <3>1. \A u, K : Undisturbed(u, K)' <=> Undisturbed(u, K)
      BY <2>2 DEF Undisturbed
    <3>2. IsCron(rows'[t]) => rows'[t].nextAt # None
      BY <2>2, <2>4, NextSlots DEF IsCron, Inv0, TypeInv, CallsOK, Frames, Calls
    <3>3. EnabledHasASlot'
      BY <2>4, <3>1, <3>2 DEF ScheduleInv, EnabledHasASlot, IsCron, Stored
    <3>4. ASSUME NEW d \in Operators, d # c, pc[d] \in Edits, Id(d) = t
          PROVE  ~Undisturbed(t, {"operators"})
      <4>1. /\ d \in Calls /\ Len(frame[d].list) = 1 /\ c \notin Ticks /\ d \notin Ticks
        BY <2>2, <3>4, SlotsAssumption DEF Inv0, TypeInv, CallsOK, CallOK, Calls
      <4>2. t \in Held(d)
        BY <3>4, <4>1, LongerThanNone, MineOK DEF Inv0, TypeInv
      <4>3. QED
        BY <2>2, <3>4, <4>1, <4>2 DEF Inv0, ClashInv, Clash, Undisturbed
    <3>5. \A d \in Calls \ {c} : pc'[d] = pc[d] /\ Id(d)' = Id(d) /\ Mine(d)' = Mine(d)
      BY <2>2 DEF Others, Id, Mine
    <3>6. Stored' \subseteq Stored \cup {t} /\ t \in Stored
      BY <2>4 DEF Stored
    <3>7. ASSUME NEW d \in Operators, pc'[d] \in Edits PROVE CopyNamesIt(d)'
      <4>1. /\ d # c /\ pc[d] \in Edits /\ Id(d)' = Id(d) /\ Mine(d)' = Mine(d)
        BY <2>2, <3>5, <3>7 DEF Edits, Calls
      <4>2. SUFFICES ASSUME Id(d) \in Stored', Undisturbed(Id(d), {"operators"})
                     PROVE  Mine(d).row.what = rows'[Id(d)].what
        BY <3>1, <4>1 DEF CopyNamesIt
      <4>3. Id(d) # t
        BY <3>4, <4>1, <4>2
      <4>4. QED
        BY <2>4, <3>6, <4>1, <4>2, <4>3 DEF ScheduleInv, Stored
    <3>8. QED
      BY <3>3, <3>7 DEF ScheduleInv, CopyNamesIt
  <2>5. QED
    BY <2>2, <2>3, <2>4
<1>5. ASSUME NEW c \in Calls, SetTriggerEnabled(c) PROVE ScheduleInv'
  <2>1. /\ Others(c) /\ pc'[c] = "idle" /\ mishaps' = mishaps
        /\ pc[c] \in {"enable", "disable"} /\ frame[c].now \in Nat
    BY <1>5, SetTriggerEnabledMoves
       DEF SetTriggerEnabled, Inv0, TypeInv, CallsOK, Frames
  <2>2. CASE Id(c) \notin Stored
    <3>1. UNCHANGED rows /\ Stored' = Stored /\ pc'[c] \notin Edits
      BY <1>5, <2>1, <2>2 DEF SetTriggerEnabled, Stored, Edits
    <3>2. QED
      BY <2>1, <3>1, SchedulesStay
  <2>3. CASE Id(c) \in Stored
    <3> DEFINE old == rows[Id(c)]
               new == [old EXCEPT
                         !.enabled = (pc[c] = "enable"),
                         !.nextAt = SlotWhenToggled(c),
                         !.failures = IF pc[c] = "enable" THEN 0
                                      ELSE Mine(c).row.failures]
    <3>1. old \in Row /\ Id(c) \in Triggers
      BY <2>3, StoredRow
    <3>2. /\ new.what = old.what /\ new.enabled = (pc[c] = "enable")
          /\ new.nextAt = SlotWhenToggled(c)
      BY <3>1 DEF Row
    <3>3. rows' = [rows EXCEPT ![Id(c)] = new]
      BY <1>5, <2>3 DEF SetTriggerEnabled, Write
    <3> HIDE DEF new
    <3>4. /\ rows'[Id(c)] = new /\ \A u \in Triggers \ {Id(c)} : rows'[u] = rows[u]
      BY <3>1, <3>3 DEF Inv0, TypeInv, TablesOK
    <3>5. /\ c \in Operators /\ pc[c] \in Edits
      BY <2>1 DEF Inv0, TypeInv, CallsOK, CallOK, Edits
    <3>6. \A u, K : Undisturbed(u, K)' <=> Undisturbed(u, K)
      BY <2>1 DEF Undisturbed
    <3>7. ASSUME new.enabled, IsCron(new), Undisturbed(Id(c), {"operators", "rejected"})
          PROVE  new.nextAt # None
      <4>1. /\ Undisturbed(Id(c), {"operators"}) /\ <<"rejected", Id(c)>> \notin mishaps
        BY <3>7 DEF Undisturbed
      <4>2. Mine(c).row.what = old.what /\ old.what \in readable
        BY <2>3, <3>5, <4>1 DEF ScheduleInv, Inv0, TypeInv, TablesOK
      <4>3. pc[c] = "enable"
        BY <3>2, <3>7
      <4>4. QED
        BY <2>1, <3>2, <3>7, <4>2, <4>3, NextSlots DEF SlotWhenToggled, IsCron
    <3>8. \A u \in Stored' : u \in Stored
      BY <2>3, <3>4 DEF Stored
    <3>9. EnabledHasASlot'
      BY <3>4, <3>6, <3>7, <3>8 DEF ScheduleInv, EnabledHasASlot, IsCron, Stored
    <3>10. \A d \in Calls \ {c} : pc'[d] = pc[d] /\ Id(d)' = Id(d) /\ Mine(d)' = Mine(d)
      BY <2>1 DEF Others, Id, Mine
    <3>11. \A u \in Stored' : rows'[u].what = rows[u].what
      BY <3>2, <3>4 DEF Stored
    <3>12. QED
      BY <2>1, <3>6, <3>8, <3>9, <3>10, <3>11 DEF ScheduleInv, Edits, Calls
  <2>4. QED
    BY <2>2, <2>3
<1>6. ASSUME NEW c \in Calls, DeleteTrigger(c) PROVE ScheduleInv'
  <2>1. /\ Others(c) /\ pc'[c] \notin Edits /\ mishaps \subseteq mishaps'
        /\ Stored' \subseteq Stored /\ \A u \in Stored' : rows'[u] = rows[u]
    BY <1>6, DeleteTriggerMoves DEF Kept, Edits
  <2>2. QED
    BY <2>1, SchedulesStay
<1>7. ASSUME TimePasses \/ \E known \in SUBSET What : Release(known) PROVE ScheduleInv'
  <2>1. UNCHANGED <<pc, frame, rows>> /\ mishaps \subseteq mishaps'
    BY <1>7, TimePassesMoves, ReleaseMoves DEF Kept
  <2>2. QED
    BY <2>1 DEF ScheduleInv, EnabledHasASlot, IsCron, Stored, Undisturbed, Id, Mine
<1>8. ASSUME NEW t \in Triggers, NEW x \in What, NEW e \in BOOLEAN, CreateTrigger(t, x, e)
      PROVE  ScheduleInv'
  <2> DEFINE new == [enabled |-> e, what |-> x, nextAt |-> NextSlot(x, clock),
                     met |-> FALSE, lastFired |-> None, failures |-> 0]
  <2>1. /\ t \notin used /\ x \in readable /\ UNCHANGED <<pc, frame, mishaps>>
        /\ rows' = [rows EXCEPT ![t] = new] /\ Stored \subseteq used /\ clock \in Nat
    BY <1>8 DEF CreateTrigger, Write, Inv0, TypeInv, TablesOK
  <2>2. new.what = x /\ new.nextAt = NextSlot(x, clock)
    OBVIOUS
  <2> HIDE DEF new
  <2>3. rows'[t] = new /\ \A u \in Triggers \ {t} : rows'[u] = rows[u]
    BY <2>1 DEF Inv0, TypeInv, TablesOK
  <2>4. IsCron(new) => new.nextAt # None
    BY <2>1, <2>2, NextSlots DEF IsCron
  <2>5. EnabledHasASlot'
    BY <2>1, <2>3, <2>4 DEF ScheduleInv, EnabledHasASlot, IsCron, Stored, Undisturbed
  <2>6. ASSUME NEW d \in Operators, pc[d] \in Edits
        PROVE  Id(d) # t /\ Id(d) \in Triggers
    <3>1. d \in Calls /\ Len(frame[d].list) = 1
      BY <2>6 DEF Inv0, TypeInv, CallsOK, CallOK, Calls
    <3>2. QED
      BY <2>1, <3>1, LongerThanNone, MineOK DEF Inv0, TypeInv
  <2>7. QED
    BY <2>1, <2>3, <2>5, <2>6 DEF ScheduleInv, Stored, Undisturbed, Id, Mine
<1>9. ASSUME UNCHANGED vars PROVE ScheduleInv'
  <2>1. UNCHANGED <<pc, frame, rows, mishaps>>
    BY <1>9 DEF vars, tables
  <2>2. QED
    BY <2>1 DEF ScheduleInv, EnabledHasASlot, IsCron, Stored, Undisturbed, Id, Mine
<1>10. QED
  BY <1>1, <1>2, <1>3, <1>4, <1>5, <1>6, <1>7, <1>8, <1>9 DEF Next, Environment, Operate

\* An enabled cron trigger has a slot to wait for unless its expression was
\* rejected or two operators changed it at once: no edit, advance, or failure
\* loses the schedule.
THEOREM SchedulesAreKept == Spec => []EnabledHasASlot
<1>1. Init => Inv0 /\ ScheduleInv
  <2>1. SUFFICES ASSUME Init PROVE Inv0 /\ ScheduleInv
    OBVIOUS
  <2>2. /\ Inv0 /\ Stored = {} /\ \A c \in Calls : pc[c] = "idle"
    BY <2>1, Initially DEF Init, Stored
  <2>3. QED
    BY <2>2 DEF ScheduleInv, EnabledHasASlot, Edits, Calls
<1>2. Inv0 /\ ScheduleInv /\ [Next]_vars => (Inv0 /\ ScheduleInv)'
  BY NextTypes, NextScheduleInv
<1>3. ScheduleInv => EnabledHasASlot
  BY DEF ScheduleInv
<1>4. QED
  BY <1>1, <1>2, <1>3, PTL DEF Spec
=============================================================================
