---------------------------- MODULE MCHubAudit ----------------------------
(* One event from before the migration, and three requests. *)
EXTENDS HubAudit, TLC

CONSTANTS r1, r2, r3, l1, hub, proposal

MCLegacy == <<l1>>
MCSymmetry == Permutations(Requests)
=============================================================================
