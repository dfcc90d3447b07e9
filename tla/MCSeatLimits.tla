---------------------------- MODULE MCSeatLimits ----------------------------
(* Small values of the constants of SeatLimits for model checking. *)
EXTENDS SeatLimits, TLC

CONSTANT Shopfloor  \* the accounts created as mechanics

Limited(users_, branches_) ==
  [status |-> "ACTIVE", maxUsers |-> users_, maxBranches |-> branches_]

OneOfEach == Limited(1, 1)
TwoOfEach == Limited(2, 2)

Staff == [u \in UserIds |-> IF u \in Shopfloor THEN Mechanic ELSE OfficeRole]

\* The forms that save a limit.
NoPlans    == {}
LimitSaves == {<<"maxBranches", 3>>, <<"maxUsers", 1>>, <<"status", "EXPIRED">>}

ClientSymmetry == Permutations(Clients)
=============================================================================
