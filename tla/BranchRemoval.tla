---------------------------- MODULE BranchRemoval ----------------------------
(***************************************************************************)
(* Removing a branch (deleteBranch, getBranchDeletionBlockers,             *)
(* deleteBranchApi).  What refers to the branch is counted one query after *)
(* the other, twice over, and then the branch is deleted.  Documents name  *)
(* a branch in their payload and nothing checks that it exists; accounts   *)
(* refer to it by a foreign key.                                           *)
(***************************************************************************)
EXTENDS Requests, Sequences

CONSTANT Branches

\* The documents that block a removal, in the order they are counted in.
Documents == {"jobCards", "expenses", "pickupDropRequests", "payroll"}

\* Mutant: expenses are not counted.
Queries_NoExpenses == <<"branch", "branches", "users", "jobCards",
                        "pickupDropRequests", "payroll">>

Queries == <<"branch", "branches", "users", "jobCards", "expenses",
             "pickupDropRequests", "payroll">>

VARIABLES
  branches,  \* the rows of Branch
  uses,      \* per kind of document, and "users": the branches some row names
  kept       \* ghost, per client: the uses that lasted all through its request

branchVars == <<branches, uses, kept>>

BranchInit ==
  /\ branches = Branches
  /\ uses \in [Documents \cup {"users"} -> {{}}]
  /\ kept = [c \in Clients |-> {}]

Pairs(u) == UNION {{k} \X u[k] : k \in DOMAIN u}

StillUsed ==
  kept' = [c \in Clients |->
    IF pc'[c] = "idle" THEN {}
    ELSE (IF pc[c] = "idle" THEN Pairs(uses) ELSE kept[c]) \cap Pairs(uses')]

-----------------------------------------------------------------------------
RemoveSend(c) ==
  /\ \E b \in Branches : Arrive(c, "count", [id |-> b, next |-> 1, again |-> FALSE])
  /\ UNCHANGED <<branches, uses>>

\* The blockers one query finds; the last-branch query counts every row.
Blocked(b, query) ==
  CASE query = "branch"   -> b \notin branches
    [] query = "branches" -> \A other \in branches : other = b
    [] OTHER              -> b \in uses[query]

\* A blocker of the first pass is a 409, of the second a 404; an absent branch
\* ends the pass at once, the other blockers are collected: either way the
\* request ends without the delete.
RemoveCount(c) ==
  LET r == req[c] IN
  /\ pc[c] = "count"
  /\ IF Blocked(r.id, Queries[r.next]) THEN Answer(c)
     ELSE IF r.next < Len(Queries) THEN Goto(c, "count", [r EXCEPT !.next = @ + 1])
     ELSE IF ~ r.again THEN Goto(c, "count", [id |-> r.id, next |-> 1, again |-> TRUE])
     ELSE Goto(c, "delete", r)
  /\ UNCHANGED <<branches, uses>>

\* prisma.branch.delete: an error when the row is gone or an account has it.
RemoveDelete(c) ==
  /\ pc[c] = "delete"
  /\ branches' = IF req[c].id \in uses["users"] THEN branches
                 ELSE branches \ {req[c].id}
  /\ Answer(c)
  /\ UNCHANGED uses

\* upsertBranchApi; its gate is the module SeatLimits'.
BranchSave(c) ==
  /\ AtOnce(c)
  /\ \E b \in Branches : branches' = branches \cup {b}
  /\ UNCHANGED uses

\* A document that names a branch is saved; the last one is deleted.
DocumentSave(c) ==
  /\ AtOnce(c)
  /\ \E k \in Documents, b \in Branches : uses' = [uses EXCEPT ![k] = @ \cup {b}]
  /\ UNCHANGED branches

DocumentDelete(c) ==
  /\ AtOnce(c)
  /\ \E k \in Documents : \E b \in uses[k] : uses' = [uses EXCEPT ![k] = @ \ {b}]
  /\ UNCHANGED branches

\* An account is created at or moved to a branch, which must exist; the last
\* one of a branch is deleted or moved away.
UserSave(c) ==
  /\ AtOnce(c)
  /\ \E b \in branches : uses' = [uses EXCEPT !["users"] = @ \cup {b}]
  /\ UNCHANGED branches

UserDelete(c) ==
  /\ AtOnce(c)
  /\ \E b \in uses["users"] : uses' = [uses EXCEPT !["users"] = @ \ {b}]
  /\ UNCHANGED branches

BranchStep ==
  /\ \E c \in Clients :
       \/ RemoveSend(c) \/ RemoveCount(c) \/ RemoveDelete(c) \/ BranchSave(c)
       \/ DocumentSave(c) \/ DocumentDelete(c) \/ UserSave(c) \/ UserDelete(c)
  /\ StillUsed

BranchSpec == BranchInit /\ RequestInit /\ [][BranchStep]_<<branchVars, requestVars>>

-----------------------------------------------------------------------------
(* Properties                                                               *)

BranchTypeOK ==
  /\ branches \subseteq Branches
  /\ uses \in [Documents \cup {"users"} -> SUBSET Branches]
  /\ \A c \in Clients : kept[c] \subseteq Pairs(uses)

(* A branch is not removed under an account, nor under a document that named *)
(* it all through the request, whatever is saved and deleted meanwhile       *)
(* (getBranchDeletionBlockers and the foreign key).                          *)
RemovedOnlyUnused ==
  [][\A b \in branches \ branches' :
       /\ b \notin uses["users"]
       /\ \A c \in Clients : pc[c] = "delete" /\ pc'[c] = "idle" /\ req[c].id = b
            => \A k \in Documents : <<k, b>> \notin kept[c]]_<<branchVars, requestVars>>
=============================================================================
