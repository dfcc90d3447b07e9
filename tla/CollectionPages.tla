--------------------------- MODULE CollectionPages ---------------------------
(***************************************************************************)
(* The documents of one array collection as employees see and send them    *)
(* (collection.controller.ts, data-scope.ts, app-json-store.ts): a listing *)
(* comes in pages, one request each, while documents are saved, deleted    *)
(* and replaced.  An employee whose role is bound to a branch is given the *)
(* documents of it, those of no branch, and transfers from or to it.  What *)
(* the store does to save a document is AppJsonStore's; here it is a step. *)
(***************************************************************************)
EXTENDS StaffAccess

CONSTANTS
  Items,
  Shops,       \* branches
  Homes,       \* the branch of each employee
  Collection,  \* the module of the collection: COLLECTION_PERMISSION_MAP
  Financial,   \* whether it is one of FINANCIAL_COLLECTIONS
  PageSize,
  FirstRows,   \* the collections that there may be at first
  Payloads     \* what is saved: [branch, from, to, date], Null where there is none

Document == [branch : Shops \cup {Null}, from : Shops \cup {Null}, to : Shops \cup {Null},
             date : Nat, at : Nat]

ASSUME PagesAssumption ==
  /\ IsFiniteSet(Items) /\ Items \subseteq Nat
  /\ PageSize \in Nat \ {0}
  /\ Null \notin Document
  /\ \A f \in FirstRows : f \in [Items -> Document \cup {Null}]
  /\ Payloads \subseteq [branch : Shops \cup {Null}, from : Shops \cup {Null},
                         to : Shops \cup {Null}, date : Nat]

VARIABLES
  rows,   \* per document: its payload and at, the row's createdAt, or Null
  shops,  \* the branches of the workshop
  clock,
  added   \* ghost, per client: only new documents have been saved since its
          \* listing began

pageVars == <<rows, shops, clock, added>>

PageInit ==
  /\ rows \in FirstRows
  /\ shops \in SUBSET Shops
  /\ clock = 2
  /\ added = [c \in Clients |-> TRUE]

Present == {d \in Items : rows[d] # Null}

-----------------------------------------------------------------------------
(* Scope                                                                    *)

OrgWide(role) == role \in {"SUPER_ADMIN", "ADMIN", "MANAGER"}

\* resolveBranchScope; Null is every branch
Scope(token, home) ==
  IF OrgWide(token.role) THEN Null
  ELSE IF home \in shops \/ shops = {} THEN {home} ELSE {}

\* intersectQueryBranchId: the branch that the listing asks for, if any
Asked(scope, branch) ==
  IF branch = Null THEN scope
  ELSE IF scope = Null THEN {branch} ELSE {branch} \cap scope

\* isPayloadInBranchScope: the branch, and otherwise those of a transfer
InScope(row, allowed) ==
  \/ allowed = Null
  \/ row.branch \in allowed
  \/ row.branch = Null /\ ({row.from, row.to} = {Null} \/ {row.from, row.to} \cap allowed # {})

-----------------------------------------------------------------------------
(* Listings                                                                 *)

\* Every page is a request with the token of the first.
Ask(c) ==
  /\ \E s \in Staff, branch \in Shops \cup {Null} :
       /\ tokens[s] # Null
       /\ Allowed(tokens[s], Collection, "GET")
       /\ Arrive(c, "list.scope", [by |-> s, token |-> tokens[s], branch |-> branch, allowed |-> Null,
                                   page |-> 1, before |-> Present, got |-> <<>>])
  /\ added' = [added EXCEPT ![c] = TRUE]
  /\ UNCHANGED <<staffVars, rows, shops, clock>>

ScopeList(c) ==
  LET r == req[c] IN
  /\ pc[c] = "list.scope"
  /\ Goto(c, "list.page", [r EXCEPT !.allowed = Asked(Scope(r.token, Homes[r.by]), r.branch)])
  /\ UNCHANGED <<staffVars, pageVars>>

\* Without a scope the database orders by createdAt alone; with one the documents
\* are sorted by their own date, and by id.
Before(d, e, allowed) ==
  IF allowed = Null THEN rows[d].at > rows[e].at
  ELSE \/ rows[d].date > rows[e].date
       \/ rows[d].date = rows[e].date /\ d > e

Orders(docs, allowed) ==
  {o \in [1..Cardinality(docs) -> docs] :
     /\ \A i, k \in DOMAIN o : i # k => o[i] # o[k]
     /\ \A i, k \in DOMAIN o : Before(o[i], o[k], allowed) => i < k}

\* Mutant: the page's number is not counted from one.
Skip_Zero(page) == page * PageSize

Skip(page) == (page - 1) * PageSize

\* listCollectionItems; the client asks for a page more while there is one.
ReadPage(c) ==
  LET r == req[c]
      listed == {d \in Present : InScope(rows[d], r.allowed)}
      total == Cardinality(listed)
  IN
  /\ pc[c] = "list.page"
  /\ \E o \in Orders(listed, r.allowed) :
       LET got == {o[i] : i \in {i \in DOMAIN o : Skip(r.page) < i /\ i <= Skip(r.page) + PageSize}}
           shown == [r EXCEPT !.got = [d \in got \cup DOMAIN @ |->
                                         IF d \in got THEN rows[d] ELSE @[d]]]
           next == [shown EXCEPT !.page = @ + 1]
       IN  IF r.page * PageSize < total THEN Goto(c, "list.scope", next)
           ELSE Goto(c, "list.shown", next)
  /\ UNCHANGED <<staffVars, pageVars>>

Shown(c) ==
  /\ pc[c] = "list.shown"
  /\ Answer(c)
  /\ UNCHANGED <<staffVars, pageVars>>

-----------------------------------------------------------------------------
(* Writes: the scope of an employee does not bound them                     *)

Writes(c, method) ==
  /\ AtOnce(c)
  /\ \E s \in Staff : tokens[s] # Null /\ Allowed(tokens[s], Collection, method)
  /\ UNCHANGED <<staffVars, shops>>

Row(payload, at) == [branch |-> payload.branch, from |-> payload.from, to |-> payload.to,
                     date |-> payload.date, at |-> at]

\* A row takes the createdAt of the payload, or the time; an update keeps it.
SaveDocument(c) ==
  /\ Writes(c, "PUT")
  /\ \E d \in Items, payload \in Payloads : \E at \in {payload.date, clock} :
       /\ rows' = [rows EXCEPT ![d] = Row(payload, IF @ = Null THEN at ELSE @.at)]
       /\ added' = IF rows[d] = Null THEN added ELSE [k \in Clients |-> FALSE]
  /\ clock' = clock + 1

DeleteDocument(c) ==
  /\ Writes(c, "DELETE")
  /\ \E d \in Present : rows' = [rows EXCEPT ![d] = Null]
  /\ added' = [k \in Clients |-> FALSE]
  /\ UNCHANGED clock

\* A snapshot sends what a listing has shown; the rows without a createdAt of their
\* own all take the time of the transaction.
Snapshot(c) ==
  /\ Writes(c, "POST")
  /\ \E k \in Clients, own \in BOOLEAN :
       /\ pc[k] = "list.shown"
       /\ LET got == req[k].got IN
          /\ Financial /\ Present # {} => got # <<>>
          /\ rows' = [d \in Items |->
               IF d \in DOMAIN got THEN [got[d] EXCEPT !.at = IF own THEN got[d].date ELSE clock]
               ELSE Null]
  /\ added' = [k \in Clients |-> FALSE]
  /\ clock' = clock + 1

PageStep ==
  \/ \E s \in Staff : SignIn(s) /\ UNCHANGED pageVars
  \/ \E c \in Clients :
       \/ Ask(c) \/ ScopeList(c) \/ ReadPage(c) \/ Shown(c)
       \/ SaveDocument(c) \/ DeleteDocument(c) \/ Snapshot(c)

PageSpec ==
  PageInit /\ StaffInit /\ RequestInit /\ [][PageStep]_<<pageVars, staffVars, requestVars>>

-----------------------------------------------------------------------------
(* Properties                                                               *)

PageTypeOK ==
  rows \in [Items -> Document \cup {Null}]

\* A document with a time of its own (of its row, or of its payload under a scope)
\* is on one of the pages, when it was there from the first and documents were only
\* added meanwhile: an addition moves it to a later page, never to an earlier one.
PagesMissNothing ==
  \A c \in Clients : pc[c] = "list.shown" /\ added[c] =>
    \A d \in req[c].before :
      /\ InScope(rows[d], req[c].allowed)
      /\ req[c].allowed # Null \/ \A e \in Present \ {d} : rows[e].at # rows[d].at
      => d \in DOMAIN req[c].got
=============================================================================
