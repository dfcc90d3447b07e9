----------------------------- MODULE AppJsonStore -----------------------------
(***************************************************************************)
(* The JSON documents of the workshops (app-json-store.ts): one array      *)
(* collection, whose documents are saved and deleted one by one or         *)
(* replaced by a snapshot, and one singleton that is merged when it is     *)
(* saved (cash-bank.service.ts).  Ids are unique over all workshops.       *)
(*                                                                         *)
(* Every awaited call is a step.  A snapshot is a transaction under an     *)
(* advisory lock of its workshop: the rows it deletes stay locked, and     *)
(* visible to the others, until it commits.  Single writes take no         *)
(* advisory lock.  The tracking of who created a document, the sorting     *)
(* and paging of lists and the activity log are left out.                  *)
(***************************************************************************)
EXTENDS FiniteSets

CONSTANTS
  Requests,      \* slots for concurrent requests, of any workshop
  Tenants,       \* the workshops
  Ids,           \* document ids
  Saved,         \* payloads of single saves
  Sent,          \* payloads of snapshots; those of one snapshot are alike
  Financial,     \* whether the collection is one of FINANCIAL_COLLECTIONS
  Parts,         \* the parts of the singleton that a save may leave out
  LegacyParts,   \* what the "default" row of older versions holds
  LegacyOwner,   \* the workshop it belongs to; Null without such a row
  Null

Row == [org : Tenants, payload : Saved \cup Sent]

ASSUME StoreAssumption ==
  /\ IsFiniteSet(Ids)
  /\ Saved \cap Sent = {}
  /\ Financial \in BOOLEAN
  /\ LegacyParts \subseteq Parts
  /\ LegacyOwner \in Tenants \cup {Null}
  /\ Null \notin Tenants \cup Row \cup Requests
  /\ \A S \in SUBSET Parts : S # Null

VARIABLES
  docs,      \* the rows of the array collection, by id; Null where there is none
  lock,      \* the advisory lock of each workshop: the request that holds it
  doomed,    \* per request: the rows its open transaction has deleted
  legacy,    \* the parts of the "default" row, Null once it is gone
  settings,  \* per workshop: the parts of its own singleton row, or Null
  pc,        \* per request: the call it is about to make
  body       \* per request: what it was sent, and what it has derived

rows == <<docs, legacy, settings>>
held == <<lock, doomed>>
vars == <<docs, lock, doomed, legacy, settings, pc, body>>

-----------------------------------------------------------------------------
IsOwn(row, org)     == row # Null /\ row.org = org
IsForeign(row, org) == row # Null /\ row.org # org

OwnIds(org) == {id \in Ids : IsOwn(docs[id], org)}

\* A row deleted by a transaction that is still open: writers of it wait.
RowLocked(id) == \E p \in Requests : id \in doomed[p]

Idle(p) == pc[p] = "idle"

Goto(p, s) == pc' = [pc EXCEPT ![p] = s]

\* The end of a request, committed or failed, ends its transaction too.
Done(p) ==
  /\ pc'     = [pc EXCEPT ![p] = "idle"]
  /\ body'   = [body EXCEPT ![p] = Null]
  /\ doomed' = [doomed EXCEPT ![p] = {}]
  /\ lock'   = [t \in Tenants |-> IF lock[t] = p THEN Null ELSE lock[t]]

Init ==
  /\ docs     = [id \in Ids |-> Null]
  /\ lock     = [t \in Tenants |-> Null]
  /\ doomed   = [p \in Requests |-> {}]
  /\ legacy   = IF LegacyOwner = Null THEN Null ELSE LegacyParts
  /\ settings = [t \in Tenants |-> Null]
  /\ pc       = [p \in Requests |-> "idle"]
  /\ body     = [p \in Requests |-> Null]

-----------------------------------------------------------------------------
(* PUT and DELETE /api/collections/:collection/:entityId *)

\* upsertCollectionItem: an id of another workshop is a conflict.
SaveFind(p, org, id, payload) ==
  /\ Idle(p)
  /\ ~IsForeign(docs[id], org)
  /\ body' = [body EXCEPT ![p] = [org |-> org, id |-> id, payload |-> payload]]
  /\ Goto(p, "save.write")
  /\ UNCHANGED <<rows, held>>

\* INSERT .. ON CONFLICT DO UPDATE: the row is written whosever it is by now.
SaveWrite(p) ==
  /\ pc[p] = "save.write"
  /\ ~RowLocked(body[p].id)
  /\ docs' = [docs EXCEPT ![body[p].id] = [org |-> body[p].org, payload |-> body[p].payload]]
  /\ Done(p)
  /\ UNCHANGED <<legacy, settings>>

DeleteFind(p, org, id) ==
  /\ Idle(p)
  /\ IsOwn(docs[id], org)
  /\ body' = [body EXCEPT ![p] = [org |-> org, id |-> id]]
  /\ Goto(p, "delete.write")
  /\ UNCHANGED <<rows, held>>

\* A row that is gone by now is an error, which is caught.
DeleteWrite(p) ==
  /\ pc[p] = "delete.write"
  /\ ~RowLocked(body[p].id)
  /\ docs' = [docs EXCEPT ![body[p].id] = Null]
  /\ Done(p)
  /\ UNCHANGED <<legacy, settings>>

\* The DELETE waited for a transaction that has deleted the row it found.
DeleteMissed(p) ==
  /\ pc[p] = "delete.write"
  /\ RowLocked(body[p].id)
  /\ Done(p)
  /\ UNCHANGED rows

-----------------------------------------------------------------------------
(* POST /api/collections/:collection/snapshot: replaceCollectionArray *)

\* An empty snapshot of a financial collection is refused while it holds rows.
SnapBegin(p, org, items, payload) ==
  /\ Idle(p)
  /\ items = {} /\ Financial => OwnIds(org) = {}
  /\ body' = [body EXCEPT ![p] = [org |-> org, items |-> items, payload |-> payload]]
  /\ Goto(p, IF items = {} THEN "snap.lock" ELSE "snap.foreign")
  /\ UNCHANGED <<rows, held>>

\* Ids of other workshops are looked for before the transaction.
SnapForeign(p) ==
  /\ pc[p] = "snap.foreign"
  /\ \/ /\ \E id \in body[p].items : IsForeign(docs[id], body[p].org)
        /\ Done(p)
     \/ /\ \A id \in body[p].items : ~IsForeign(docs[id], body[p].org)
        /\ Goto(p, "snap.lock")
        /\ UNCHANGED <<body, held>>
  /\ UNCHANGED rows

\* Mutant: the lock is not waited for.
SnapLock_NotHeld(p) ==
  /\ pc[p] = "snap.lock"
  /\ Goto(p, "snap.delete")
  /\ UNCHANGED <<rows, held, body>>

SnapLock(p) ==
  /\ pc[p] = "snap.lock"
  /\ lock[body[p].org] = Null
  /\ lock' = [lock EXCEPT ![body[p].org] = p]
  /\ Goto(p, "snap.delete")
  /\ UNCHANGED <<rows, doomed, body>>

SnapDelete(p) ==
  LET mine == OwnIds(body[p].org)
  IN  /\ pc[p] = "snap.delete"
      /\ \A id \in mine : ~RowLocked(id)
      /\ doomed' = [doomed EXCEPT ![p] = mine]
      /\ Goto(p, "snap.create")
      /\ UNCHANGED <<rows, lock, body>>

\* Mutant: rows that are there are written over.
SnapCommit_Overwrite(p) ==
  LET new == [org |-> body[p].org, payload |-> body[p].payload]
  IN  /\ pc[p] = "snap.create"
      /\ docs' = [id \in Ids |-> IF id \in body[p].items THEN new
                                 ELSE IF id \in doomed[p] THEN Null ELSE docs[id]]
      /\ Done(p)
      /\ UNCHANGED <<legacy, settings>>

\* createMany skips the ids that are taken (skipDuplicates), after waiting for
\* transactions that are deleting them; then the transaction commits.
SnapCommit(p) ==
  LET new   == [org |-> body[p].org, payload |-> body[p].payload]
      taken == {id \in Ids : docs[id] # Null} \ doomed[p]
  IN  /\ pc[p] = "snap.create"
      /\ \A q \in Requests \ {p} : doomed[q] \cap body[p].items = {}
      /\ docs' = [id \in Ids |-> IF id \in taken THEN docs[id]
                                 ELSE IF id \in body[p].items THEN new ELSE Null]
      /\ Done(p)
      /\ UNCHANGED <<legacy, settings>>

-----------------------------------------------------------------------------
(* PUT of the singleton: upsertCashBank, then upsertCollectionItem *)

\* getCollectionItem: the workshop's own row if there is one.
MergeRead(p, org, parts) ==
  /\ Idle(p)
  /\ \/ /\ settings[org] # Null
        /\ body' = [body EXCEPT ![p] = [org |-> org, parts |-> parts \cup settings[org]]]
        /\ Goto(p, "one.find")
     \/ /\ settings[org] = Null
        /\ body' = [body EXCEPT ![p] = [org |-> org, parts |-> parts]]
        /\ Goto(p, "one.legacy")
  /\ UNCHANGED <<rows, held>>

OwnsLegacy(org) == legacy # Null /\ org = LegacyOwner

\* getCollectionItem: else the row of older versions, if it is the workshop's.
MergeReadLegacy(p) ==
  /\ pc[p] = "one.legacy"
  /\ body' = IF OwnsLegacy(body[p].org)
             THEN [body EXCEPT ![p].parts = @ \cup legacy]
             ELSE body
  /\ Goto(p, "one.find")
  /\ UNCHANGED <<rows, held>>

OneFind(p) ==
  /\ pc[p] = "one.find"
  /\ Goto(p, IF settings[body[p].org] = Null THEN "one.migrate" ELSE "one.write")
  /\ UNCHANGED <<rows, held, body>>

\* Mutant: the old row is left where it is.
OneMigrate_Keep(p) ==
  /\ pc[p] = "one.migrate"
  /\ Goto(p, "one.write")
  /\ UNCHANGED <<rows, held, body>>

OneMigrate(p) ==
  /\ pc[p] = "one.migrate"
  /\ Goto(p, IF OwnsLegacy(body[p].org) THEN "one.drop" ELSE "one.write")
  /\ UNCHANGED <<rows, held, body>>

\* Deleting a row that is gone by now fails the request.
OneDrop(p) ==
  /\ pc[p] = "one.drop"
  /\ \/ /\ legacy # Null
        /\ legacy' = Null
        /\ Goto(p, "one.write")
        /\ UNCHANGED <<held, body>>
     \/ /\ legacy = Null
        /\ Done(p)
        /\ UNCHANGED legacy
  /\ UNCHANGED <<docs, settings>>

OneWrite(p) ==
  /\ pc[p] = "one.write"
  /\ settings' = [settings EXCEPT ![body[p].org] = body[p].parts]
  /\ Done(p)
  /\ UNCHANGED <<docs, legacy>>

-----------------------------------------------------------------------------
\* The process restarts, a call fails or a transaction times out: it is rolled back.
Abandon(p) ==
  /\ ~Idle(p)
  /\ Done(p)
  /\ UNCHANGED rows

DocStep(p) ==
  \/ \E org \in Tenants, id \in Ids :
       \/ \E payload \in Saved : SaveFind(p, org, id, payload)
       \/ DeleteFind(p, org, id)
  \/ SaveWrite(p)
  \/ DeleteWrite(p)
  \/ DeleteMissed(p)

SnapStep(p) ==
  \/ \E org \in Tenants, items \in SUBSET Ids, payload \in Sent :
       SnapBegin(p, org, items, payload)
  \/ SnapForeign(p)
  \/ SnapLock(p)
  \/ SnapDelete(p)
  \/ SnapCommit(p)

OneStep(p) ==
  \/ \E org \in Tenants, parts \in SUBSET Parts : MergeRead(p, org, parts)
  \/ MergeReadLegacy(p)
  \/ OneFind(p)
  \/ OneMigrate(p)
  \/ OneDrop(p)
  \/ OneWrite(p)

Next == \E p \in Requests : DocStep(p) \/ SnapStep(p) \/ OneStep(p) \/ Abandon(p)

Spec == Init /\ [][Next]_vars

-----------------------------------------------------------------------------
(* Properties *)

Steps == {"idle", "save.write", "delete.write",
          "snap.foreign", "snap.lock", "snap.delete", "snap.create",
          "one.legacy", "one.find", "one.migrate", "one.drop", "one.write"}

\* Rows and requests keep to their types, and only the holder of a workshop's lock
\* has deleted rows that are not yet gone, all of them the workshop's.
TypeOK ==
  /\ docs \in [Ids -> Row \cup {Null}]
  /\ lock \in [Tenants -> Requests \cup {Null}]
  /\ doomed \in [Requests -> SUBSET Ids]
  /\ legacy \in {Null} \cup SUBSET Parts
  /\ settings \in [Tenants -> {Null} \cup SUBSET Parts]
  /\ pc \in [Requests -> Steps]
  /\ \A p \in Requests :
       doomed[p] # {} =>
         /\ pc[p] = "snap.create" /\ lock[body[p].org] = p
         /\ doomed[p] \subseteq OwnIds(body[p].org)

\* Snapshots of a workshop that overlap do not mix: when one commits, no document of
\* another is left, whatever single saves and deletions run beside them.
SnapshotsDontMix ==
  [][\A p \in Requests : SnapCommit(p) =>
       \A id \in Ids :
         IsOwn(docs'[id], body[p].org) /\ docs'[id].payload \in Sent =>
           id \in body[p].items /\ docs'[id].payload = body[p].payload]_vars

\* A snapshot leaves the documents of other workshops as they are, also those whose
\* ids were taken after it had looked for them.
SnapshotKeepsOthers ==
  [][\A p \in Requests : pc[p] = "snap.create" /\ pc'[p] = "idle" =>
       \A id \in Ids : IsForeign(docs[id], body[p].org) => docs'[id] = docs[id]]_vars

\* Moving the singleton from the row of older versions to the workshop's own leaves
\* one of the two, however saves overlap and wherever they are cut off.
OneSettingsRow == LegacyOwner # Null => legacy = Null \/ settings[LegacyOwner] = Null
=============================================================================
