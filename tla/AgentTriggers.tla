--------------------------- MODULE AgentTriggers ---------------------------
(***************************************************************************)
(* Saved triggers and the cron tick that fires them:                       *)
(* lib/agents/scheduler.ts and lib/agents/triggers-service.ts.             *)
(*                                                                         *)
(* A tick reads the due cron triggers once, then handles them one after    *)
(* the other from the copies it read; the enabled threshold triggers are   *)
(* read and handled likewise.  Nothing keeps a second tick from starting   *)
(* meanwhile, nor an operator from editing or deleting a trigger, so a     *)
(* call is a process with a program counter and a list of copies.          *)
(*                                                                         *)
(* A row's `what` is its cron expression or its metric's key, which also   *)
(* tells its kind.  Out of the model: the run a fire starts (AgentRuns),   *)
(* the columns that only report it, audit entries, the numbers a metric    *)
(* yields (an evaluation finds the condition true or false), and the       *)
(* manual fire, which leaves the trigger's row alone.                      *)
(***************************************************************************)
EXTENDS Naturals, Sequences, FiniteSets, SequencesExt

CONSTANTS
    Triggers,    \* ids a row may get; an id is used once
    Crons,       \* cron expressions
    Metrics,     \* metric keys
    Period,      \* [Crons -> minutes between two slots]
    Cooldown,    \* cooldownMinutes
    TickLimit,   \* rows a query takes (100 in the code)
    Ticks,       \* slots for concurrently running ticks
    Operators,   \* slots for concurrently running operator calls
    MaxTime,     \* bound: the clock
    MaxEdits,    \* bound: operator calls and releases
    MaxCrashes,  \* bound: calls that die
    MaxFailures, \* bound: the failure counter
    None

Calls == Ticks \cup Operators
What  == Crons \cup Metrics

ASSUME SlotsAssumption == Ticks \cap Operators = {} /\ Crons \cap Metrics = {}
ASSUME PeriodAssumption == Period \in [Crons -> Nat \ {0}]
ASSUME BoundsAssumption ==
    /\ {MaxTime, MaxEdits, MaxCrashes, MaxFailures, Cooldown} \subseteq Nat
    /\ TickLimit \in Nat \ {0}
    /\ None \notin Nat

VARIABLES
    clock,
    rows,     \* [Triggers -> the row, or None]
    readable, \* expressions and metric keys the deployed build knows
    pc, frame,
    \* history and bounds
    used,     \* ids that have been given to a row
    edits, crashes,
    served,   \* the slot each cron trigger was last fired for
    twice,    \* cron triggers fired for a slot not later than an earlier one
    spent,    \* threshold triggers fired since the condition was last false
    firedAt,  \* when each threshold trigger was last fired for its condition
    answered, \* threshold triggers whose present edge was fired or cooled down
    mishaps   \* <<"ticks" | "edit" | "operators" | "died" | "rejected", trigger>>

tables  == <<rows, readable, used>>
bounds  == <<edits, crashes>>
slots   == <<served, twice>>
edges   == <<spent, firedAt, answered>>
vars == <<clock, tables, pc, frame, bounds, slots, edges, mishaps>>

Row == [enabled : BOOLEAN, what : What, nextAt : Nat \cup {None},
        met : BOOLEAN, lastFired : Nat \cup {None}, failures : Nat]

Stored == {t \in Triggers : rows[t] # None}
IsCron(r) == r.what \in Crons

\* nextFireTime: the first slot after t, null when the parser rejects x.
NextSlot(x, t) ==
    IF x \in Crons \cap readable THEN (t \div Period[x] + 1) * Period[x] ELSE None

-----------------------------------------------------------------------------
(***************************************************************************)
(* Calls.  A call holds the copies it has still to deal with.              *)
(***************************************************************************)
NoFrame == [now |-> 0, list |-> <<>>]

Copy(t) == [id |-> t, row |-> rows[t]]
Mine(c) == frame[c].list[1]
Id(c) == Mine(c).id
Held(c) == {copy.id : copy \in ToSet(frame[c].list)}

Goto(c, label) == pc' = [pc EXCEPT ![c] = label]
Return(c) == Goto(c, "idle") /\ frame' = [frame EXCEPT ![c] = NoFrame]

Clash(c, d) == IF {c, d} \subseteq Ticks THEN "ticks"
               ELSE IF {c, d} \subseteq Operators THEN "operators" ELSE "edit"

\* Call c reads the rows of a sequence of ids.
Acquire(c, ids, time, label) ==
    /\ frame' = [frame EXCEPT ![c] =
          [now |-> time, list |-> [i \in DOMAIN ids |-> Copy(ids[i])]]]
    /\ Goto(c, label)
    /\ mishaps' = mishaps \cup
          UNION {{Clash(c, d)} \X (Held(d) \cap ToSet(ids)) : d \in Calls \ {c}}

\* The loop goes on with the next copy.
Continue(c) ==
    /\ frame' = [frame EXCEPT ![c].list = Tail(@)]
    /\ Goto(c, IF IsCron(Mine(c).row) THEN "cron" ELSE "threshold")

\* One row's columns are written, by id; the copies stay what they are.
Write(t, r) == rows' = [rows EXCEPT ![t] = r]

-----------------------------------------------------------------------------
(***************************************************************************)
(* createTrigger, updateTrigger, setTriggerEnabled, deleteTrigger.         *)
(***************************************************************************)
CreateTrigger(t, x, e) ==
    /\ t \notin used
    /\ x \in readable
    /\ used' = used \cup {t}
    /\ Write(t, [enabled |-> e, what |-> x, nextAt |-> NextSlot(x, clock),
                 met |-> FALSE, lastFired |-> None, failures |-> 0])
    /\ UNCHANGED <<clock, readable, pc, frame, bounds, slots, edges, mishaps>>

\* The findUnique that opens the other three; the clock by which the next slot
\* is computed is read before the write is awaited.
LoadForEdit(c, t, op) ==
    /\ pc[c] = "idle"
    /\ edits < MaxEdits
    /\ t \in Stored
    /\ Acquire(c, <<t>>, clock, op)
    /\ edits' = edits + 1
    /\ UNCHANGED <<clock, tables, crashes, slots, edges>>

\* A deliberate change: history starts afresh for the trigger.
Afresh(t) ==
    /\ spent' = spent \ {t}
    /\ answered' = answered \ {t}

\* update throws when the row has gone, otherwise all columns are replaced.
UpdateTrigger(c, x, e) ==
    LET t == Id(c)
    IN  /\ pc[c] = "update"
        /\ x \in readable
        /\ IF t \notin Stored THEN UNCHANGED <<rows, spent, answered>>
           ELSE /\ Write(t, [enabled |-> e, what |-> x, met |-> FALSE,
                             nextAt |-> NextSlot(x, frame[c].now), failures |-> 0,
                             lastFired |-> rows[t].lastFired])
                /\ Afresh(t)
        /\ Return(c)
        /\ UNCHANGED <<clock, readable, used, bounds, slots, firedAt, mishaps>>

\* Mutant: enabling does not bring the schedule back.
SlotForgotten(c) == None

SlotWhenToggled(c) ==
    IF pc[c] = "enable" THEN NextSlot(Mine(c).row.what, frame[c].now) ELSE None

\* The next slot and the counter come from the copy.
SetTriggerEnabled(c) ==
    LET t == Id(c)
        on == pc[c] = "enable"
    IN  /\ pc[c] \in {"enable", "disable"}
        /\ IF t \notin Stored THEN UNCHANGED rows
           ELSE Write(t, [rows[t] EXCEPT
                   !.enabled = on,
                   !.nextAt = SlotWhenToggled(c),
                   !.failures = IF on THEN 0 ELSE Mine(c).row.failures])
        /\ Return(c)
        /\ UNCHANGED <<clock, readable, used, bounds, slots, edges, mishaps>>

DeleteTrigger(c) ==
    /\ pc[c] = "delete"
    /\ Write(Id(c), None)
    /\ Return(c)
    /\ UNCHANGED <<clock, readable, used, bounds, slots, edges, mishaps>>

-----------------------------------------------------------------------------
(***************************************************************************)
(* runCronTick.                                                            *)
(***************************************************************************)
IsDue(t) == /\ t \in Stored
            /\ rows[t].enabled
            /\ IsCron(rows[t])
            /\ rows[t].nextAt # None
            /\ rows[t].nextAt <= clock

Limited(s) == SubSeq(s, 1, IF Len(s) < TickLimit THEN Len(s) ELSE TickLimit)

\* The due list, earliest slot first.
StartTick(c) ==
    /\ c \in Ticks
    /\ pc[c] = "idle"
    /\ \E due \in SetToSeqs({t \in Triggers : IsDue(t)}) :
          /\ \A i, j \in DOMAIN due : i < j => rows[due[i]].nextAt <= rows[due[j]].nextAt
          /\ Acquire(c, Limited(due), clock, "cron")
    /\ UNCHANGED <<clock, tables, bounds, slots, edges>>

AtCopy(c, label) == pc[c] = label /\ frame[c].list # <<>>

Gone(c) == Id(c) \notin Stored

\* An update outside the try throws because the row is gone: the tick ends.
RowGone(c) ==
    /\ \/ AtCopy(c, "cron")
       \/ AtCopy(c, "threshold") /\ Mine(c).row.what \in readable
       \/ pc[c] \in {"stamp", "failure"}
    /\ Gone(c)
    /\ Return(c)
    /\ UNCHANGED <<clock, tables, bounds, slots, edges, mishaps>>

\* Mutant: an expression the parser rejects is only skipped.
RejectedSkipped(c) == rows[Id(c)]

Rejected(c) == [rows[Id(c)] EXCEPT !.nextAt = None, !.enabled = FALSE,
                                   !.failures = Mine(c).row.failures + 1]

DisableRejected(c) ==
    /\ AtCopy(c, "cron") /\ ~Gone(c)
    /\ NextSlot(Mine(c).row.what, frame[c].now) = None
    /\ Write(Id(c), Rejected(c))
    /\ Continue(c)
    /\ UNCHANGED <<clock, readable, used, bounds, slots, edges, mishaps>>

\* Mutant: the slot is computed from just before the one that was due.
NextAfterDue(c) == NextSlot(Mine(c).row.what, Mine(c).row.nextAt - 1)

NextAfterNow(c) == NextSlot(Mine(c).row.what, frame[c].now)

\* The trigger leaves the due list before it fires.
AdvanceSlot(c) ==
    LET next == NextAfterNow(c)
    IN  /\ AtCopy(c, "cron") /\ ~Gone(c)
        /\ next # None
        /\ Write(Id(c), [rows[Id(c)] EXCEPT !.nextAt = next,
                                            !.lastFired = frame[c].now])
        /\ Goto(c, "fire")
        /\ UNCHANGED <<clock, readable, used, frame, bounds, slots, edges, mishaps>>

-----------------------------------------------------------------------------
(***************************************************************************)
(* runThresholdEvaluations.                                                *)
(***************************************************************************)
\* The query names no order.
ReadThresholds(c) ==
    /\ pc[c] = "cron"
    /\ frame[c].list = <<>>
    /\ \E enabled \in SetToSeqs({t \in Stored : rows[t].enabled /\ ~IsCron(rows[t])}) :
          Acquire(c, Limited(enabled), frame[c].now, "threshold")
    /\ UNCHANGED <<clock, tables, bounds, slots, edges>>

EndTick(c) ==
    /\ pc[c] = "threshold"
    /\ frame[c].list = <<>>
    /\ Return(c)
    /\ UNCHANGED <<clock, tables, bounds, slots, edges, mishaps>>

\* A metric this build does not know.
SkipUnknown(c) ==
    /\ AtCopy(c, "threshold")
    /\ Mine(c).row.what \notin readable
    /\ Continue(c)
    /\ UNCHANGED <<clock, tables, bounds, slots, edges, mishaps>>

OneMoreFailure(c) == [rows[Id(c)] EXCEPT !.failures = Mine(c).row.failures + 1]

MetricThrows(c) ==
    /\ AtCopy(c, "threshold") /\ ~Gone(c)
    /\ Mine(c).row.what \in readable
    /\ Mine(c).row.failures < MaxFailures
    /\ Write(Id(c), OneMoreFailure(c))
    /\ Continue(c)
    /\ UNCHANGED <<clock, readable, used, bounds, slots, edges, mishaps>>

InCooldown(c) == /\ Mine(c).row.lastFired # None
                 /\ frame[c].now < Mine(c).row.lastFired + Cooldown

\* Mutant: the trigger fires as long as the condition holds.
FiresWhenMet(c, met) == met /\ ~InCooldown(c)

\* Mutant: a trigger whose last fire failed is passed over.
FiresUnlessFailing(c, met) == /\ met /\ ~Mine(c).row.met /\ ~InCooldown(c)
                              /\ Mine(c).row.failures = 0

ShouldFire(c, met) == met /\ ~Mine(c).row.met /\ ~InCooldown(c)

Evaluate(c, met) ==
    LET t == Id(c)
        edge == met /\ ~Mine(c).row.met
    IN  /\ AtCopy(c, "threshold") /\ ~Gone(c)
        /\ Mine(c).row.what \in readable
        /\ Write(t, [rows[t] EXCEPT !.met = met])
        /\ IF ShouldFire(c, met) THEN Goto(c, "stamp") /\ UNCHANGED frame
                                 ELSE Continue(c)
        /\ spent' = IF ~met THEN spent \ {t}
                    ELSE IF ShouldFire(c, met) THEN spent \cup {t} ELSE spent
        /\ answered' = IF ~met THEN answered \ {t}
                       ELSE IF edge /\ InCooldown(c) THEN answered \cup {t}
                       ELSE answered
        /\ UNCHANGED <<clock, readable, used, bounds, slots, firedAt, mishaps>>

Stamp(c) ==
    /\ pc[c] = "stamp" /\ ~Gone(c)
    /\ Write(Id(c), [rows[Id(c)] EXCEPT !.lastFired = frame[c].now])
    /\ Goto(c, "fire")
    /\ UNCHANGED <<clock, readable, used, frame, bounds, slots, edges, mishaps>>

-----------------------------------------------------------------------------
(***************************************************************************)
(* What both passes do with a trigger that fires.                          *)
(***************************************************************************)
\* fireTrigger starts the run of the copy's intent, or throws.
Fire(c) ==
    LET t == Id(c)
        slot == Mine(c).row.nextAt
    IN  /\ pc[c] = "fire"
        /\ \/ Goto(c, "success")
           \/ Mine(c).row.failures < MaxFailures /\ Goto(c, "failure")
        /\ IF IsCron(Mine(c).row)
              THEN /\ served' = [served EXCEPT ![t] = slot]
                   /\ twice' = IF slot <= served[t] THEN twice \cup {t} ELSE twice
                   /\ UNCHANGED edges
              ELSE /\ answered' = answered \cup {t}
                   /\ firedAt' = [firedAt EXCEPT ![t] = frame[c].now]
                   /\ UNCHANGED <<slots, spent>>
        /\ UNCHANGED <<clock, tables, frame, bounds, mishaps>>

RecordSuccess(c) ==
    /\ pc[c] = "success" /\ ~Gone(c)
    /\ Write(Id(c), [rows[Id(c)] EXCEPT !.failures = 0])
    /\ Continue(c)
    /\ UNCHANGED <<clock, readable, used, bounds, slots, edges, mishaps>>

\* A statement after the fire throws inside the try: the success's own update,
\* always when the row is gone, or the audit entry of the threshold pass.
SuccessThrows(c) ==
    /\ pc[c] = "success"
    /\ Gone(c) \/ Mine(c).row.failures < MaxFailures
    /\ \/ UNCHANGED rows
       \/ /\ ~IsCron(Mine(c).row) /\ ~Gone(c)
          /\ Write(Id(c), [rows[Id(c)] EXCEPT !.failures = 0])
    /\ Goto(c, "failure")
    /\ UNCHANGED <<clock, readable, used, frame, bounds, slots, edges, mishaps>>

RecordFailure(c) ==
    /\ pc[c] = "failure" /\ ~Gone(c)
    /\ Write(Id(c), OneMoreFailure(c))
    /\ Continue(c)
    /\ UNCHANGED <<clock, readable, used, bounds, slots, edges, mishaps>>

-----------------------------------------------------------------------------
(***************************************************************************)
(* The environment.                                                        *)
(***************************************************************************)
TimePasses ==
    /\ clock < MaxTime
    /\ clock' = clock + 1
    /\ UNCHANGED <<tables, pc, frame, bounds, slots, edges, mishaps>>

\* A release with another parser or other metrics; it ends the calls.
Release(known) ==
    /\ \A c \in Calls : pc[c] = "idle"
    /\ edits < MaxEdits
    /\ edits' = edits + 1
    /\ readable' = known
    /\ mishaps' = mishaps \cup
          ({"rejected"} \X {t \in Stored : rows[t].what \notin known})
    /\ UNCHANGED <<clock, rows, used, pc, frame, crashes, slots, edges>>

\* The process dies, or the database does not answer outside the try.
Crash(c) ==
    /\ pc[c] # "idle"
    /\ crashes < MaxCrashes
    /\ crashes' = crashes + 1
    /\ mishaps' = mishaps \cup ({"died"} \X Held(c))
    /\ Return(c)
    /\ UNCHANGED <<clock, tables, edits, slots, edges>>

-----------------------------------------------------------------------------
Init ==
    /\ clock = 0
    /\ rows = [t \in Triggers |-> None]
    /\ readable = What
    /\ pc = [c \in Calls |-> "idle"]
    /\ frame = [c \in Calls |-> NoFrame]
    /\ used = {} /\ edits = 0 /\ crashes = 0
    /\ served = [t \in Triggers |-> 0] /\ twice = {}
    /\ spent = {} /\ firedAt = [t \in Triggers |-> None] /\ answered = {}
    /\ mishaps = {}

Operate(c) ==
    \/ \E t \in Triggers, op \in {"update", "enable", "disable", "delete"} :
          c \in Operators /\ LoadForEdit(c, t, op)
    \/ \E x \in What, e \in BOOLEAN : UpdateTrigger(c, x, e)
    \/ SetTriggerEnabled(c) \/ DeleteTrigger(c)

Advance(c) ==
    \/ RowGone(c) \/ DisableRejected(c) \/ AdvanceSlot(c)
    \/ ReadThresholds(c) \/ EndTick(c) \/ SkipUnknown(c) \/ MetricThrows(c)
    \/ \E met \in BOOLEAN : Evaluate(c, met)
    \/ Stamp(c) \/ Fire(c)
    \/ RecordSuccess(c) \/ SuccessThrows(c) \/ RecordFailure(c)

Environment ==
    \/ TimePasses
    \/ \E known \in SUBSET What : Release(known)
    \/ \E t \in Triggers, x \in What, e \in BOOLEAN : CreateTrigger(t, x, e)

Next == \/ Environment
        \/ \E c \in Calls : StartTick(c) \/ Advance(c) \/ Operate(c) \/ Crash(c)

Spec == Init /\ [][Next]_vars

\* The external scheduler pokes the endpoint again and again, and a tick that
\* has started goes on.
FairSpec == /\ Spec
            /\ \A c \in Ticks : WF_vars(StartTick(c)) /\ WF_vars(Advance(c))

-----------------------------------------------------------------------------
(***************************************************************************)
(* Properties.                                                             *)
(***************************************************************************)
Undisturbed(t, kinds) == \A k \in kinds : <<k, t>> \notin mishaps

\* The columns and the copies hold what they should.
TypeOK ==
    /\ clock \in 0..MaxTime
    /\ rows \in [Triggers -> Row \cup {None}]
    /\ readable \subseteq What
    /\ pc \in [Calls -> {"idle", "cron", "threshold", "stamp", "fire", "success",
                         "failure", "update", "enable", "disable", "delete"}]
    /\ \A c \in Calls : /\ frame[c].now \in 0..clock
                        /\ frame[c].list \in Seq([id : Triggers, row : Row])
    /\ Stored \subseteq used

\* However often ticks, crashes, edits, releases and failing fires follow each
\* other, a slot of a cron trigger is fired at most once and slots are fired in
\* order, as long as no two ticks hold the trigger together and no tick holds it
\* between the read and the write of an operator's call.  (Such a call has
\* computed the next slot already, and stores it back when the tick has fired.)
SlotsFireOnce == \A t \in twice : ~Undisturbed(t, {"ticks", "edit"})

\* Between two fires of a threshold trigger somebody has seen the condition
\* false or edited the trigger, and the cooldown has passed, as long as no two
\* ticks hold it together: also when a tick works from a copy made before an
\* edit, or dies in between.
FiresAreRisingEdges ==
    [][\A c \in Ticks :
          (pc[c] = "threshold" /\ pc'[c] = "stamp" /\ Undisturbed(Id(c), {"ticks"}))
              => /\ Id(c) \notin spent
                 /\ firedAt[Id(c)] # None => firedAt[Id(c)] + Cooldown <= frame[c].now]_vars

\* A condition stored as met has had its answer, a fire or a cooldown: no edge
\* is swallowed unless the tick died, met another tick, or met an edit.
EdgesAreAnswered ==
    \A t \in Stored :
        (rows[t].met /\ Undisturbed(t, {"ticks", "edit", "died"}))
            => \/ t \in answered
               \/ \E c \in Ticks : pc[c] \in {"stamp", "fire"} /\ Id(c) = t

\* An enabled cron trigger has a slot to wait for unless its expression was
\* rejected or two operators changed it at once: no edit, advance, or failure
\* loses the schedule.
EnabledHasASlot ==
    \A t \in Stored :
        (rows[t].enabled /\ IsCron(rows[t]) /\ Undisturbed(t, {"operators", "rejected"}))
            => rows[t].nextAt # None

\* No trigger stays due: a fire that throws or an expression the parser rejects
\* cannot wedge it.
DueIsServed == \A t \in Triggers : IsDue(t) ~> ~IsDue(t)
=============================================================================
