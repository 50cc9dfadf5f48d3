---------------------------- MODULE MCClerkMirror ----------------------------
(* One user with up to two accounts, two calls at a time. *)
EXTENDS ClerkMirror, TLC

MCSymmetry == Permutations(Calls)
=============================================================================
