-------------------------- MODULE AppJsonStoreProofs --------------------------
(* The theorems about AppJsonStore, for every value of its constants. *)
EXTENDS AppJsonStore, TLAPS

-----------------------------------------------------------------------------
(* What a request holds at each of its steps. *)

SnapSteps == {"snap.foreign", "snap.lock", "snap.delete", "snap.create"}
OneSteps  == {"one.legacy", "one.find", "one.migrate", "one.drop", "one.write"}

RowsTyped ==
  /\ docs \in [Ids -> Row \cup {Null}]
  /\ legacy \in {Null} \cup SUBSET Parts
  /\ settings \in [Tenants -> {Null} \cup SUBSET Parts]

Typed ==
  /\ RowsTyped
  /\ lock \in [Tenants -> Requests \cup {Null}]
  /\ doomed \in [Requests -> SUBSET Ids]
  /\ pc \in [Requests -> Steps]
  /\ body = [p \in Requests |-> body[p]]

Fits(p) ==
  /\ pc[p] # "idle" => body[p].org \in Tenants
  /\ pc[p] = "save.write" => body[p].id \in Ids /\ body[p].payload \in Saved
  /\ pc[p] = "delete.write" => body[p].id \in Ids
  /\ pc[p] \in SnapSteps => body[p].items \subseteq Ids /\ body[p].payload \in Sent
  /\ pc[p] \in OneSteps => body[p].parts \subseteq Parts

\* While p has deleted but not committed, what it did not delete was saved singly.
Deleted(p) ==
  /\ doomed[p] \subseteq OwnIds(body[p].org)
  /\ \A id \in Ids \ doomed[p] :
       IsOwn(docs[id], body[p].org) => docs[id].payload \in Saved

\* A snapshot holds its workshop's lock until it commits, and deletes only after.
Holds(p) ==
  /\ pc[p] \in {"snap.delete", "snap.create"} => lock[body[p].org] = p
  /\ pc[p] # "snap.create" => doomed[p] = {}
  /\ pc[p] = "snap.create" => Deleted(p)

\* TypeOK and SnapshotsDontMix made inductive.
Sound == Typed /\ \A p \in Requests : Fits(p) /\ Holds(p)

USE DEF SnapSteps, OneSteps

LEMMA InitSound == Init => Sound
BY StoreAssumption DEF Init, Sound, Typed, RowsTyped, Fits, Holds, Steps

\* A step inside a request that writes no document.
LEMMA LocalStep ==
  ASSUME Sound, NEW p \in Requests, NEW s \in Steps, Goto(p, s),
         RowsTyped', UNCHANGED <<docs, lock, doomed>>,
         body' = [body EXCEPT ![p] = body'[p]],
         Fits(p)', Holds(p)'
  PROVE  Sound'
<1>1. Typed'
  BY DEF Sound, Typed, Goto
<1>2. ASSUME NEW q \in Requests, q # p PROVE Fits(q)' /\ Holds(q)'
  <2>1. pc'[q] = pc[q] /\ body'[q] = body[q]
    BY <1>2 DEF Sound, Typed, Goto
  <2> QED  BY <2>1 DEF Sound, Fits, Holds, Deleted, OwnIds, IsOwn
<1> QED  BY <1>1, <1>2 DEF Sound

\* The end of a request.
LEMMA DoneStep ==
  ASSUME Sound, NEW p \in Requests, Done(p), RowsTyped',
         \A q \in Requests \ {p} : pc[q] = "snap.create" =>
            /\ \A id \in doomed[q] : docs'[id] = docs[id]
            /\ \A id \in Ids \ doomed[q] :
                 IsOwn(docs'[id], body[q].org) => docs'[id].payload \in Saved
  PROVE  Sound'
<1>1. Typed'
  BY DEF Sound, Typed, Done, Steps
<1>2. Fits(p)' /\ Holds(p)'
  BY DEF Sound, Typed, Done, Fits, Holds
<1>3. ASSUME NEW q \in Requests, q # p PROVE Fits(q)' /\ Holds(q)'
  <2>1. pc'[q] = pc[q] /\ body'[q] = body[q] /\ doomed'[q] = doomed[q]
    BY <1>3 DEF Sound, Typed, Done
  <2>2. Fits(q)'
    BY <2>1 DEF Sound, Fits
  <2>3. pc[q] \in {"snap.delete", "snap.create"} => lock'[body[q].org] = q
    BY <1>3 DEF Sound, Typed, Done, Fits, Holds
  <2>4. pc[q] = "snap.create" => Deleted(q)'
    BY <1>3, <2>1 DEF Sound, Holds, Deleted, OwnIds, IsOwn
  <2> QED  BY <2>1, <2>2, <2>3, <2>4 DEF Sound, Holds
<1> QED  BY <1>1, <1>2, <1>3 DEF Sound

\* A request that ends without writing a document.
LEMMA QuietDone ==
  ASSUME Sound, NEW p \in Requests, Done(p), RowsTyped', docs' = docs
  PROVE  Sound'
<1>1. \A q \in Requests \ {p} : pc[q] = "snap.create" =>
         /\ \A id \in doomed[q] : docs'[id] = docs[id]
         /\ \A id \in Ids \ doomed[q] :
              IsOwn(docs'[id], body[q].org) => docs'[id].payload \in Saved
  BY DEF Sound, Holds, Deleted
<1> QED  BY <1>1, DoneStep

\* A request that ends writing one document, which no transaction has deleted.
LEMMA WriteDone ==
  ASSUME Sound, NEW p \in Requests, Done(p), UNCHANGED <<legacy, settings>>,
         NEW id \in Ids, ~RowLocked(id), NEW row \in Row \cup {Null},
         row = Null \/ row.payload \in Saved, docs' = [docs EXCEPT ![id] = row]
  PROVE  Sound'
<1>1. RowsTyped'
  BY DEF Sound, Typed, RowsTyped
<1>2. ASSUME NEW q \in Requests, q # p, pc[q] = "snap.create"
      PROVE  /\ \A i \in doomed[q] : docs'[i] = docs[i]
             /\ \A i \in Ids \ doomed[q] :
                  IsOwn(docs'[i], body[q].org) => docs'[i].payload \in Saved
  BY <1>2 DEF Sound, Typed, RowsTyped, Holds, Deleted, RowLocked, IsOwn
<1> QED  BY <1>1, <1>2, DoneStep

-----------------------------------------------------------------------------
(* One lemma per group of actions. *)

LEMMA DocStepSound ==
  ASSUME Sound, NEW p \in Requests, DocStep(p)
  PROVE  Sound'
<1>1. ASSUME NEW org \in Tenants, NEW id \in Ids, NEW payload \in Saved,
             SaveFind(p, org, id, payload)
      PROVE  Sound'
  <2>1. Fits(p)' /\ Holds(p)' /\ RowsTyped'
    BY <1>1 DEF SaveFind, Sound, Typed, RowsTyped, Fits, Holds, Goto, Idle, rows, held
  <2> QED  BY <1>1, <2>1, LocalStep DEF SaveFind, Sound, Typed, rows, held, Steps
<1>2. ASSUME NEW org \in Tenants, NEW id \in Ids, DeleteFind(p, org, id)
      PROVE  Sound'
  <2>1. Fits(p)' /\ Holds(p)' /\ RowsTyped'
    BY <1>2 DEF DeleteFind, Sound, Typed, RowsTyped, Fits, Holds, Goto, Idle, rows, held
  <2> QED  BY <1>2, <2>1, LocalStep DEF DeleteFind, Sound, Typed, rows, held, Steps
<1>3. CASE SaveWrite(p)
  <2>1. body[p].id \in Ids /\ body[p].org \in Tenants /\ body[p].payload \in Saved
    BY <1>3 DEF SaveWrite, Sound, Fits
  <2>2. [org |-> body[p].org, payload |-> body[p].payload] \in Row
    BY <2>1 DEF Row
  <2> QED  BY <1>3, <2>1, <2>2, WriteDone DEF SaveWrite
<1>4. CASE DeleteWrite(p)
  <2>1. body[p].id \in Ids
    BY <1>4 DEF DeleteWrite, Sound, Fits
  <2> QED  BY <1>4, <2>1, WriteDone DEF DeleteWrite
<1>5. CASE DeleteMissed(p)
  BY <1>5, QuietDone DEF DeleteMissed, rows, Sound, Typed, RowsTyped
<1> QED  BY <1>1, <1>2, <1>3, <1>4, <1>5 DEF DocStep

LEMMA SnapStepSound ==
  ASSUME Sound, NEW p \in Requests, SnapStep(p)
  PROVE  Sound'
<1>1. ASSUME NEW org \in Tenants, NEW items \in SUBSET Ids, NEW payload \in Sent,
             SnapBegin(p, org, items, payload)
      PROVE  Sound'
  <2>1. Fits(p)' /\ Holds(p)' /\ RowsTyped'
    BY <1>1 DEF SnapBegin, Sound, Typed, RowsTyped, Fits, Holds, Goto, Idle, rows, held
  <2> QED  BY <1>1, <2>1, LocalStep DEF SnapBegin, Sound, Typed, rows, held, Steps
<1>2. CASE SnapForeign(p)
  <2>1. CASE Done(p)
    BY <1>2, <2>1, QuietDone DEF SnapForeign, rows, Sound, Typed, RowsTyped
  <2>2. CASE Goto(p, "snap.lock") /\ UNCHANGED <<body, held>>
    <3>1. Fits(p)' /\ Holds(p)' /\ RowsTyped'
      BY <1>2, <2>2 DEF SnapForeign, Sound, Typed, RowsTyped, Fits, Holds, Goto, rows, held
    <3> QED  BY <1>2, <2>2, <3>1, LocalStep DEF SnapForeign, Sound, Typed, rows, held, Steps
  <2> QED  BY <1>2, <2>1, <2>2 DEF SnapForeign
<1>3. CASE SnapLock(p)
  <2>1. /\ body[p].org \in Tenants
        /\ lock' = [lock EXCEPT ![body[p].org] = p] /\ lock[body[p].org] = Null
        /\ pc' = [pc EXCEPT ![p] = "snap.delete"] /\ pc[p] = "snap.lock"
        /\ UNCHANGED <<docs, legacy, settings, doomed, body>>
    BY <1>3 DEF SnapLock, Sound, Fits, Goto, rows
  <2>2. Typed'
    BY <2>1 DEF Sound, Typed, RowsTyped, Steps
  <2>3. ASSUME NEW q \in Requests PROVE Fits(q)' /\ Holds(q)'
    <3>1. CASE q = p
      BY <2>1, <3>1 DEF Sound, Typed, Fits, Holds
    <3>2. CASE q # p
      BY <2>1, <3>2, StoreAssumption
         DEF Sound, Typed, Fits, Holds, Deleted, OwnIds, IsOwn
    <3> QED  BY <3>1, <3>2
  <2> QED  BY <2>2, <2>3 DEF Sound
<1>4. CASE SnapDelete(p)
  <2>1. /\ doomed' = [doomed EXCEPT ![p] = OwnIds(body[p].org)]
        /\ pc' = [pc EXCEPT ![p] = "snap.create"] /\ pc[p] = "snap.delete"
        /\ UNCHANGED <<docs, legacy, settings, lock, body>>
    BY <1>4 DEF SnapDelete, Goto, rows
  <2>2. Typed'
    BY <2>1 DEF Sound, Typed, RowsTyped, Steps, OwnIds
  <2>3. ASSUME NEW q \in Requests PROVE Fits(q)' /\ Holds(q)'
    <3>1. CASE q = p
      BY <2>1, <3>1 DEF Sound, Typed, Fits, Holds, Deleted, OwnIds, IsOwn
    <3>2. CASE q # p
      BY <2>1, <3>2 DEF Sound, Typed, Fits, Holds, Deleted, OwnIds, IsOwn
    <3> QED  BY <3>1, <3>2
  <2> QED  BY <2>2, <2>3 DEF Sound
<1>5. CASE SnapCommit(p)
  <2> DEFINE new   == [org |-> body[p].org, payload |-> body[p].payload]
             taken == {id \in Ids : docs[id] # Null} \ doomed[p]
  <2>1. /\ Done(p) /\ UNCHANGED <<legacy, settings>>
        /\ docs' = [id \in Ids |-> IF id \in taken THEN docs[id]
                                   ELSE IF id \in body[p].items THEN new ELSE Null]
    BY <1>5 DEF SnapCommit
  <2>2. new \in Row /\ pc[p] = "snap.create" /\ lock[body[p].org] = p
    BY <1>5 DEF SnapCommit, Sound, Fits, Holds, Row
  <2>3. RowsTyped'
    BY <2>1, <2>2 DEF Sound, Typed, RowsTyped
  <2>4. ASSUME NEW q \in Requests, q # p, pc[q] = "snap.create"
        PROVE  /\ \A id \in doomed[q] : docs'[id] = docs[id]
               /\ \A id \in Ids \ doomed[q] :
                    IsOwn(docs'[id], body[q].org) => docs'[id].payload \in Saved
    <3>1. body[q].org # body[p].org
      BY <2>2, <2>4 DEF Sound, Holds
    <3>2. \A id \in doomed[q] : id \in taken
      BY <2>2, <2>4, <3>1 DEF Sound, Holds, Deleted, OwnIds, IsOwn
    <3> QED  BY <2>1, <2>4, <3>1, <3>2 DEF Sound, Typed, Holds, Deleted, OwnIds, IsOwn
  <2> QED  BY <2>1, <2>3, <2>4, DoneStep
<1> QED  BY <1>1, <1>2, <1>3, <1>4, <1>5 DEF SnapStep

LEMMA OneStepSound ==
  ASSUME Sound, NEW p \in Requests, OneStep(p)
  PROVE  Sound'
<1>1. ASSUME NEW org \in Tenants, NEW parts \in SUBSET Parts, MergeRead(p, org, parts)
      PROVE  Sound'
  <2>1. Fits(p)' /\ Holds(p)' /\ RowsTyped'
    BY <1>1 DEF MergeRead, Sound, Typed, RowsTyped, Fits, Holds, Goto, Idle, rows, held
  <2> QED  BY <1>1, <2>1, LocalStep DEF MergeRead, Sound, Typed, rows, held, Steps
<1>2. CASE MergeReadLegacy(p)
  <2>1. Fits(p)' /\ Holds(p)' /\ RowsTyped'
    BY <1>2 DEF MergeReadLegacy, OwnsLegacy, Sound, Typed, RowsTyped, Fits, Holds, Goto,
                rows, held
  <2>2. body' = [body EXCEPT ![p] = body'[p]]
    BY <1>2 DEF MergeReadLegacy, Sound, Typed
  <2> QED  BY <1>2, <2>1, <2>2, LocalStep DEF MergeReadLegacy, rows, held, Steps
<1>3. CASE OneFind(p) \/ OneMigrate(p)
  <2>1. Fits(p)' /\ Holds(p)' /\ RowsTyped'
    BY <1>3 DEF OneFind, OneMigrate, Sound, Typed, RowsTyped, Fits, Holds, Goto, rows, held
  <2> QED  BY <1>3, <2>1, LocalStep DEF OneFind, OneMigrate, Sound, Typed, rows, held, Steps
<1>4. CASE OneDrop(p)
  <2>1. RowsTyped'
    BY <1>4 DEF OneDrop, Sound, Typed, RowsTyped
  <2>2. CASE Done(p)
    BY <1>4, <2>1, <2>2, QuietDone DEF OneDrop
  <2>3. CASE Goto(p, "one.write") /\ UNCHANGED <<held, body>>
    <3>1. Fits(p)' /\ Holds(p)'
      BY <1>4, <2>3 DEF OneDrop, Sound, Typed, Fits, Holds, Goto, held
    <3> QED  BY <1>4, <2>1, <2>3, <3>1, LocalStep DEF OneDrop, Sound, Typed, held, Steps
  <2> QED  BY <1>4, <2>2, <2>3 DEF OneDrop
<1>5. CASE OneWrite(p)
  <2>1. RowsTyped'
    BY <1>5 DEF OneWrite, Sound, Typed, RowsTyped, Fits
  <2> QED  BY <1>5, <2>1, QuietDone DEF OneWrite
<1> QED  BY <1>1, <1>2, <1>3, <1>4, <1>5 DEF OneStep

LEMMA NextSound == Sound /\ [Next]_vars => Sound'
<1> SUFFICES ASSUME Sound, [Next]_vars PROVE Sound'
  OBVIOUS
<1>1. CASE Next
  <2> PICK p \in Requests : DocStep(p) \/ SnapStep(p) \/ OneStep(p) \/ Abandon(p)
    BY <1>1 DEF Next
  <2>1. CASE Abandon(p)
    BY <2>1, QuietDone DEF Abandon, rows, Sound, Typed, RowsTyped
  <2> QED  BY <2>1, DocStepSound, SnapStepSound, OneStepSound
<1>2. CASE UNCHANGED vars
  BY <1>2 DEF vars, Sound, Typed, RowsTyped, Fits, Holds, Deleted, OwnIds, IsOwn
<1> QED  BY <1>1, <1>2

-----------------------------------------------------------------------------

\* Every row and every request keeps to its type; only the holder of the lock has
\* rows deleted.
THEOREM StoreTyped == Spec => []TypeOK
<1>1. Sound => TypeOK
  BY DEF Sound, Typed, RowsTyped, TypeOK, Holds, Deleted
<1> QED  BY <1>1, InitSound, NextSound, PTL DEF Spec

\* When a snapshot commits, no document of another snapshot of the workshop is left
\* (replaceCollectionArray under pg_advisory_xact_lock).
THEOREM SnapshotsApart == Spec => SnapshotsDontMix
<1>1. ASSUME Sound, NEW p \in Requests, SnapCommit(p), NEW id \in Ids,
             IsOwn(docs'[id], body[p].org), docs'[id].payload \in Sent
      PROVE  id \in body[p].items /\ docs'[id].payload = body[p].payload
  <2>1. ~(docs'[id] = docs[id] /\ id \notin doomed[p])
    BY <1>1, StoreAssumption DEF SnapCommit, Sound, Holds, Deleted
  <2> QED  BY <1>1, <2>1 DEF SnapCommit, IsOwn
<1> DEFINE Apart == \A p \in Requests : SnapCommit(p) =>
                      \A id \in Ids :
                        IsOwn(docs'[id], body[p].org) /\ docs'[id].payload \in Sent =>
                          id \in body[p].items /\ docs'[id].payload = body[p].payload
<1>2. Sound /\ [Next]_vars => [Apart]_vars
  BY <1>1
<1> QED  BY <1>2, InitSound, NextSound, PTL DEF Spec, SnapshotsDontMix

\* A snapshot, committed or rolled back, leaves the documents of other workshops as
\* they are (createMany with skipDuplicates, deleteMany of the workshop's own).
THEOREM OthersKept == Spec => SnapshotKeepsOthers
<1> DEFINE Kept == \A p \in Requests : pc[p] = "snap.create" /\ pc'[p] = "idle" =>
                     \A id \in Ids : IsForeign(docs[id], body[p].org) => docs'[id] = docs[id]
<1>1. ASSUME Sound, Next, NEW p \in Requests, pc[p] = "snap.create", pc'[p] = "idle",
             NEW id \in Ids, IsForeign(docs[id], body[p].org)
      PROVE  docs'[id] = docs[id]
  <2> PICK q \in Requests : DocStep(q) \/ SnapStep(q) \/ OneStep(q) \/ Abandon(q)
    BY <1>1 DEF Next
  <2>1. q = p
    <3>1. \E s \in Steps : pc' = [pc EXCEPT ![q] = s]
      BY DEF DocStep, SaveFind, SaveWrite, DeleteFind, DeleteWrite, DeleteMissed,
             SnapStep, SnapBegin, SnapForeign, SnapLock, SnapDelete, SnapCommit,
             OneStep, MergeRead, MergeReadLegacy, OneFind, OneMigrate, OneDrop, OneWrite,
             Abandon, Goto, Done, Steps
    <3> QED  BY <1>1, <3>1 DEF Sound, Typed
  <2>2. SnapCommit(p) \/ Abandon(p)
    BY <1>1, <2>1
       DEF DocStep, SaveFind, SaveWrite, DeleteFind, DeleteWrite, DeleteMissed,
           SnapStep, SnapBegin, SnapForeign, SnapLock, SnapDelete,
           OneStep, MergeRead, MergeReadLegacy, OneFind, OneMigrate, OneDrop, OneWrite, Idle
  <2>3. CASE SnapCommit(p)
    <3>1. id \notin doomed[p] /\ docs[id] # Null
      BY <1>1 DEF Sound, Holds, Deleted, OwnIds, IsOwn, IsForeign
    <3> QED  BY <2>3, <3>1 DEF SnapCommit
  <2> QED  BY <2>2, <2>3 DEF Abandon, rows
<1>2. Sound /\ [Next]_vars => [Kept]_vars
  BY <1>1
<1> QED  BY <1>2, InitSound, NextSound, PTL DEF Spec, SnapshotKeepsOthers

-----------------------------------------------------------------------------
(* The settings move from one row to the other. *)

\* OneSettingsRow made inductive: a save that is about to write has seen to it that
\* the old row is gone, or found the new one.
Moved ==
  LegacyOwner # Null =>
    /\ legacy = Null \/ settings[LegacyOwner] = Null
    /\ \A p \in Requests : pc[p] = "one.write" /\ body[p].org = LegacyOwner =>
         legacy = Null \/ settings[LegacyOwner] # Null

LEMMA MovedNext == Sound /\ Moved /\ [Next]_vars => Moved'
<1> SUFFICES ASSUME Sound, Moved, [Next]_vars, LegacyOwner # Null PROVE Moved'
  BY DEF Moved
<1>1. LegacyOwner \in Tenants
  BY StoreAssumption
<1>2. ASSUME NEW p \in Requests, OneStep(p) PROVE Moved'
  <2>1. CASE OneWrite(p)
    BY <1>1, <2>1 DEF OneWrite, Done, Moved, Sound, Typed, RowsTyped, Fits
  <2>2. CASE OneDrop(p)
    BY <1>1, <2>2 DEF OneDrop, Done, Goto, held, Moved, Sound, Typed, RowsTyped
  <2>3. CASE OneMigrate(p) \/ OneFind(p)
    BY <1>1, <2>3
       DEF OneMigrate, OneFind, OwnsLegacy, Goto, rows, held, Moved, Sound, Typed, RowsTyped
  <2>4. CASE MergeReadLegacy(p)
    BY <1>1, <2>4 DEF MergeReadLegacy, Goto, rows, held, Moved, Sound, Typed, RowsTyped
  <2>5. ASSUME NEW org \in Tenants, NEW parts \in SUBSET Parts, MergeRead(p, org, parts)
        PROVE  Moved'
    BY <1>1, <2>5 DEF MergeRead, Goto, Idle, rows, held, Moved, Sound, Typed, RowsTyped
  <2> QED  BY <1>2, <2>1, <2>2, <2>3, <2>4, <2>5 DEF OneStep
<1>3. ASSUME NEW p \in Requests, DocStep(p) \/ SnapStep(p) \/ Abandon(p) PROVE Moved'
  <2>1. UNCHANGED <<legacy, settings>>
    BY <1>3 DEF DocStep, SaveFind, SaveWrite, DeleteFind, DeleteWrite, DeleteMissed,
                SnapStep, SnapBegin, SnapForeign, SnapLock, SnapDelete, SnapCommit,
                Abandon, rows
  <2>2. \E s \in Steps \ {"one.write"} : pc' = [pc EXCEPT ![p] = s]
    BY <1>3 DEF DocStep, SaveFind, SaveWrite, DeleteFind, DeleteWrite, DeleteMissed,
                SnapStep, SnapBegin, SnapForeign, SnapLock, SnapDelete, SnapCommit,
                Abandon, Goto, Done, Steps
  <2>3. \A q \in Requests : q # p => body'[q] = body[q]
    BY <1>3 DEF DocStep, SaveFind, SaveWrite, DeleteFind, DeleteWrite, DeleteMissed,
                SnapStep, SnapBegin, SnapForeign, SnapLock, SnapDelete, SnapCommit,
                Abandon, Done, held, Sound, Typed
  <2> QED  BY <2>1, <2>2, <2>3 DEF Moved, Sound, Typed
<1>4. CASE UNCHANGED vars
  BY <1>4 DEF vars, Moved
<1> QED  BY <1>2, <1>3, <1>4 DEF Next

\* The settings of the workshop that has the row of older versions are in one row,
\* the old or the new (upsertCollectionItem migrates them on the first write).
THEOREM OneRow == Spec => []OneSettingsRow
<1>1. Init => Moved
  BY StoreAssumption DEF Init, Moved
<1>2. Moved => OneSettingsRow
  BY DEF Moved, OneSettingsRow
<1> QED  BY <1>1, <1>2, InitSound, NextSound, MovedNext, PTL DEF Spec
=============================================================================
