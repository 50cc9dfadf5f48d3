---------------------------- MODULE MCBackground ----------------------------
(***************************************************************************)
(* Two services that work in the background and should come to an end of   *)
(* it, checked in one run: at the start one is chosen, and only it moves.  *)
(***************************************************************************)
EXTENDS Naturals, FiniteSets, Sequences

CONSTANTS
    Subs, Events, Operators, MaxAttempts, MaxSent,          \* WebhookDelivery
    Passes, Hooks, Healths, Marks, Syncs, Production, MaxCommits,
    MaxDeployments, Histories, MaxEvents, None              \* CommandCenter

\* Before the Command Center is set up, a deployment failed and the next works.
MCHistories == {<<"failed", "success">>}

VARIABLES
    which, \* the service that moves
    subStatus, receipt, pc, frame, sent, accepted, disturbed, died,
    health, page, tells, head, live, marks, deployed, synced, railwaySent,
    mirrorHead, listed, resource, snaps, latest, open, passPc, passFrame, hookPc, hookFrame,
    settled, events

webhookVars == <<subStatus, receipt, pc, frame, sent, accepted, disturbed, died>>
commandVars == <<health, page, tells, head, live, marks, deployed, synced, railwaySent,
                 mirrorHead, listed, resource, snaps, latest, open, passPc, passFrame, hookPc, hookFrame,
                 settled, events>>
vars == <<which, webhookVars, commandVars>>

W == INSTANCE WebhookDelivery
C == INSTANCE CommandCenter WITH
        sent <- railwaySent, pc <- passPc, frame <- passFrame

ASSUME BackgroundAssumption == W!AttemptsAssumption /\ C!CommandCenterAssumption

Init == which \in {"webhooks", "command center"} /\ W!Init /\ C!Init

Alone(service) == which = service /\ UNCHANGED which
Webhooks == Alone("webhooks") /\ W!Next /\ UNCHANGED commandVars
CommandCenter == Alone("command center") /\ C!Next /\ UNCHANGED webhookVars

Next == Webhooks \/ CommandCenter

\* What WebhookDelivery and CommandCenter assume of who moves.
Work(d)  == Alone("webhooks") /\ W!Work(d) /\ UNCHANGED commandVars
Start(p) == Alone("command center") /\ C!Start(p) /\ UNCHANGED webhookVars
Step(p)  == Alone("command center") /\ C!Step(p) /\ UNCHANGED webhookVars

Fairness ==
    /\ \A d \in W!Deliveries : WF_vars(Work(d))
    /\ \A p \in Passes : WF_vars(Start(p)) /\ WF_vars(Step(p))

FairSpec == Init /\ [][Next]_vars /\ Fairness

-----------------------------------------------------------------------------
\* A receipt does not claim what did not happen (WebhookDelivery).
ReceiptTellsTheTruth == which = "webhooks" => W!ReceiptTellsTheTruth

\* A delivery settles unless its worker died (WebhookDelivery).
DeliveriesSettle == W!DeliveriesSettle

\* An undisturbed pass leaves exactly the flags open that the risk rules ask
\* for, and later ones leave them so (CommandCenter).
SettledFlagsTellTheTruth == which = "command center" => C!SettledFlagsTellTheTruth

\* Once nothing changes or fails the flags become true for good (CommandCenter).
FlagsConverge == <>[](which = "command center" => C!FlagsTellTheTruth)
=============================================================================
