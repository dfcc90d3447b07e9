----------------------------- MODULE MCWorkshop -----------------------------
(* The workshop's components on small instances.  A behaviour exercises      *)
(* one of them, so that their state spaces add up instead of multiplying.   *)
EXTENDS JobCards, Appointments, BranchRemoval, CollectionPages

CONSTANTS j, u   \* a job card and its customer

VARIABLE part

vars == <<part, requestVars, deskVars, apptVars, branchVars, staffVars, pageVars>>

\* A card with other prices is also delivered: its prices are then locked.
MCCardBodies ==
  {[price |-> 1, open |-> TRUE, customer |-> u],
   [price |-> 2, open |-> FALSE, customer |-> u]}

MCInvoiceBodies ==
  {[card |-> j, customer |-> u, tax |-> TRUE, referral |-> TRUE],
   [card |-> Null, customer |-> u, tax |-> FALSE, referral |-> FALSE]}

Key(m, as) == {<<m, a>> : a \in as}
Every == {"CREATE", "VIEW", "EDIT", "DELETE"}

MCRoleModules ==
  [role \in {"SUPER_ADMIN", "ADMIN", "MANAGER", "MECHANIC"} |->
     CASE role = "MANAGER"  -> {"EXPENSES", "STAFF", "REMINDERS"}
       [] role = "MECHANIC" -> {"EXPENSES"}
       [] OTHER             -> {}]

\* Whoever manages the accounts, and a mechanic who is new, has the base keys of an
\* older version, or every key.
MCAccounts ==
  {"boss" :> [role |-> role, perms |-> Key("STAFF", {"ALL"}), level |-> Null] @@ "mech" :> mechanic :
     role \in {"SUPER_ADMIN", "ADMIN", "MANAGER"},
     mechanic \in {Null} \cup {[role |-> "MECHANIC", perms |-> perms, level |-> Null] :
       perms \in {Key("EXPENSES", {"ALL"}) \cup Key("REMINDERS", {"VIEW"}),
                  Key("EXPENSES", Every) \cup Key("STAFF", Every)}}}

MCStaffPatches ==
  {[level |-> "with"], [level |-> "without"], [role |-> "MANAGER", level |-> "without"],
   [perms |-> Key("STAFF", {"VIEW", "DELETE"}) \cup Key("REMINDERS", {"ALL"})],
   [perms |-> Key("EXPENSES", {"ALL", "DELETE"}), level |-> "without"], [role |-> "ADMIN"]}

\* Documents of a branch, of a transfer, and of no branch.
MCPayload(branch, from, date) == [branch |-> branch, from |-> from, to |-> Null, date |-> date]
MCPayloads == {MCPayload("s1", Null, 1), MCPayload(Null, "s1", 2)}
MCFirstRows ==
  {[d \in Items |-> IF d = 1 THEN Row(MCPayload(Null, Null, 1), 1)
                       ELSE IF d = 2 THEN Row(MCPayload("s1", Null, 0), at) ELSE Null] : at \in {0, 1}}
MCHomes == "boss" :> "s1" @@ "mech" :> "s1"

Init ==
  /\ part \in {"desk", "appointments", "branches", "staff", "pages"}
  /\ RequestInit
  /\ DeskInit
  /\ part # "desk" => cards = [id \in Cards |-> Null]
  /\ \A id \in Cards : cards[id] # Null => cards[id].open
  /\ ApptInit
  /\ part # "appointments" => table
  /\ BranchInit
  /\ StaffInit
  /\ part # "staff" => accounts["boss"].role = "ADMIN" /\ accounts["mech"] # Null
  /\ part # "staff" => accounts["mech"].perms = Key("EXPENSES", {"ALL"}) \cup Key("REMINDERS", {"VIEW"})
  /\ PageInit
  /\ shops = {"s1"} => part = "pages"
  /\ shops \in {{"s1"}, {"s2"}}
  /\ part # "pages" => rows[2].at = 0

Next ==
  /\ UNCHANGED part
  /\ \/ part = "desk" /\ DeskStep /\ UNCHANGED <<apptVars, branchVars, staffVars, pageVars>>
     \/ part = "appointments" /\ ApptServe /\ UNCHANGED <<deskVars, branchVars, staffVars, pageVars>>
     \/ part = "branches" /\ BranchStep /\ UNCHANGED <<deskVars, apptVars, staffVars, pageVars>>
     \/ /\ part = "staff" /\ StaffStep
        /\ UNCHANGED <<deskVars, apptVars, branchVars, pageVars>>
     \/ /\ part = "pages" /\ PageStep
        /\ tokens' # tokens => sent = 0
        /\ UNCHANGED <<deskVars, apptVars, branchVars>>
  /\ part = "desk" /\ sent' # sent /\ sent = 1 => Quiet    \* the first is served alone
  /\ part = "staff" /\ sent' # sent /\ sent = 2 => Quiet   \* the third is served alone

Spec == Init /\ [][Next]_vars

Symmetry ==
  Permutations(Clients) \cup Permutations(Invoices) \cup Permutations(Branches)
=============================================================================
