---------------------------- MODULE MCAppJsonStore ----------------------------
(* Small values of the constants of AppJsonStore for model checking. *)
EXTENDS AppJsonStore, TLC

StoreSymmetry ==
  Permutations(Requests) \cup Permutations(Ids) \cup Permutations(Sent)
=============================================================================
