----------------------- MODULE MCSubscriptionBilling -----------------------
(* Small values of the constants of SubscriptionBilling for model checking. *)
EXTENDS SubscriptionBilling, TLC

\* A PATCH body that sends nothing.
NothingSent ==
  [planLimit |-> Absent, limit |-> Absent, override |-> Absent, status |-> Absent,
   term |-> Absent, expiresAt |-> Absent, payStatus |-> Absent]

\* Saves an override.
OverridePatch == {[NothingSent EXCEPT !.override = 2]}

NoPatches == {}

\* provisionOrganization leaves a trial; ensureDefaultOrganization a paid year.
Trial ==
  [status |-> "TRIAL", limit |-> 1, override |-> Null, term |-> 0,
   expiresAt |-> 1, payStatus |-> "PENDING"]

Paid ==
  [status |-> "ACTIVE", limit |-> 1, override |-> Null, term |-> DefaultTerm,
   expiresAt |-> DefaultTerm, payStatus |-> "PAID"]

TrialOrPaid == {Trial, Paid}
PaidOnly    == {Paid}

AdminSymmetry == Permutations(Admins)
=============================================================================
