---------------------------- MODULE CrashAutoFix ----------------------------
(***************************************************************************)
(* Issues filed for a crashed deployment of one repository:                *)
(* crash-auto-fix-service.ts and file-claude-fix-actions.ts of             *)
(* lib/services/command-center.  Railway's webhook and every pass of the   *)
(* Command Center file one by themselves, at most one per cooldown, and    *)
(* operators file one by hand.  The only memory of an issue is the audit   *)
(* entry written after it was filed.                                       *)
(*                                                                         *)
(* A step is one awaited call; calls interleave and may die in between.    *)
(* External: Railway's logs may not come; GitHub creates the issue,        *)
(* refuses, or creates it and the answer is lost; an audit entry may be    *)
(* dropped.  Out of the model: texts, the allowlist, the entries about     *)
(* calls that were skipped or failed.                                      *)
(***************************************************************************)
EXTENDS Naturals, Sequences

CONSTANTS
    Fixers,    \* slots for calls
    Cooldown,  \* COOLDOWN_MIN
    MaxNow, MaxIssues,  \* bounds
    None

CooldownAssumption == Cooldown \in Nat \ {0} /\ MaxNow \in Nat /\ MaxIssues \in Nat

VARIABLES
    now,
    entries, \* times of the fix_issue.filed entries
    pc, frame,
    \* history
    issues   \* in the order filed: by whom, when, its entry's time, and the
             \* issues whose entries were there when the call began

vars == <<now, entries, pc, frame, issues>>

NoFrame == [auto |-> FALSE, known |-> {}, issue |-> 0]

Goto(c, label) == pc' = [pc EXCEPT ![c] = label]
Return(c) == Goto(c, "idle") /\ frame' = [frame EXCEPT ![c] = NoFrame]

Entered == {i \in DOMAIN issues : issues[i].entry # None}

-----------------------------------------------------------------------------
\* maybeAutoFileFixForSnapshot reads the snapshot ...
Crash(c) ==
    /\ pc[c] = "idle" /\ Goto(c, "cooldown")
    /\ frame' = [frame EXCEPT ![c] = [NoFrame EXCEPT !.auto = TRUE, !.known = Entered]]
    /\ UNCHANGED <<now, entries, issues>>

\* ... and fileClaudeFixIssueForCrash starts at the diagnosis.
Ask(c) ==
    /\ pc[c] = "idle" /\ Goto(c, "diagnose")
    /\ UNCHANGED <<now, entries, frame, issues>>

\* Mutant: The window is compared the wrong way round.
CheckOlder(c) ==
    /\ pc[c] = "cooldown"
    /\ IF \E t \in entries : t + Cooldown <= now
       THEN Return(c) ELSE Goto(c, "diagnose") /\ UNCHANGED frame
    /\ UNCHANGED <<now, entries, issues>>

\* An entry in the cooldown ends the call.
Check(c) ==
    /\ pc[c] = "cooldown"
    /\ IF \E t \in entries : t + Cooldown >= now
       THEN Return(c) ELSE Goto(c, "diagnose") /\ UNCHANGED frame
    /\ UNCHANGED <<now, entries, issues>>

\* getDeploymentDiagnosis; without logs there is no issue.
Diagnose(c, ok) ==
    /\ pc[c] = "diagnose"
    /\ IF ok THEN Goto(c, "file") /\ UNCHANGED frame ELSE Return(c)
    /\ UNCHANGED <<now, entries, issues>>

\* createIssue.
File(c, outcome) ==
    /\ pc[c] = "file"
    /\ IF outcome = "refused" THEN UNCHANGED issues
       ELSE /\ Len(issues) < MaxIssues
            /\ issues' = Append(issues, [auto |-> frame[c].auto, at |-> now, entry |-> None,
                                         known |-> frame[c].known])
    /\ IF outcome = "done"
       THEN Goto(c, "record") /\ frame' = [frame EXCEPT ![c].issue = Len(issues')]
       ELSE Return(c)
    /\ UNCHANGED <<now, entries>>

\* writeAuditLog, which may drop the entry.
Record(c, ok) ==
    /\ pc[c] = "record"
    /\ entries' = IF ok THEN entries \cup {now} ELSE entries
    /\ issues' = IF ok THEN [issues EXCEPT ![frame[c].issue].entry = now] ELSE issues
    /\ Return(c)
    /\ UNCHANGED now

\* A statement throws, or the process dies.
Abandon(c) ==
    /\ pc[c] # "idle" /\ Return(c)
    /\ UNCHANGED <<now, entries, issues>>

Tick ==
    /\ now < MaxNow /\ now' = now + 1
    /\ UNCHANGED <<entries, pc, frame, issues>>

Init ==
    /\ now = 0 /\ entries = {} /\ issues = <<>>
    /\ pc = [c \in Fixers |-> "idle"]
    /\ frame = [c \in Fixers |-> NoFrame]

Next ==
    \/ Tick
    \/ \E c \in Fixers :
          \/ Crash(c) \/ Ask(c) \/ Check(c) \/ Abandon(c)
          \/ \E ok \in BOOLEAN : Diagnose(c, ok) \/ Record(c, ok)
          \/ \E outcome \in {"done", "refused", "lost"} : File(c, outcome)

Spec == Init /\ [][Next]_vars

-----------------------------------------------------------------------------
\* An issue the service files by itself is more than a cooldown younger than
\* every issue, its own or an operator's, that was filed and entered before the
\* call began, so that crashes one after the other do not flood a repository;
\* calls that overlap and issues without an entry are the exceptions.
FixesAreSpaced ==
    \A j \in DOMAIN issues : issues[j].auto =>
        \A i \in issues[j].known : issues[i].entry + Cooldown < issues[j].at
=============================================================================
