---------------------------- MODULE MCLiveQueue ----------------------------
(* Clients of one document.  They are alike. *)
EXTENDS LiveQueue, TLC

Alike == Permutations(Client)
=============================================================================
