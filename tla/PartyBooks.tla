----------------------------- MODULE PartyBooks -----------------------------
(***************************************************************************)
(* Parties and their ledgers (party.service.ts, party-ledger.ts,           *)
(* public-ledger.service.ts, expense-meta.service.ts).  A party is mostly  *)
(* not stored: the list is put together, at every request, from the        *)
(* customers, the vendor directory, the vendors named by expenses and the  *)
(* Party rows that complete them.  A ledger is then the documents that     *)
(* name the party.                                                         *)
(*                                                                         *)
(* One organization.  An amount is a number of rupees, a date is a day,    *)
(* and a report's period a set of days.                                    *)
(***************************************************************************)
EXTENDS Requests, FiniteSets, Sequences, FiniteSetsExt

CONSTANTS
  PartyCustomers,  \* customer ids
  Profiles,        \* ids of the vendor directory's entries
  VendorNames,     \* vendors' names and vendor keys
  Normalized,      \* normalizeVendorName, on VendorNames
  MirrorKey,       \* the vendor key a mirrored row is given, on VendorNames
  NewIds,          \* ids the client makes up
  Directories,     \* the vendor directories that are saved
  Ledgers,         \* [invoices, expenses] a behaviour may start from
  LedgerDays,
  Openings,        \* opening balances that are sent
  Sides,           \* openingBalanceSide that is sent, or None
  None

\* C(k) is `c:k`, V(x) is `v:x`, M(x) the id of the profile x itself.
C(k) == <<"c", k>>
V(x) == <<"v", x>>
M(x) == <<"m", x>>

PartyIds == {C(k) : k \in PartyCustomers} \cup {V(x) : x \in Profiles \cup VendorNames}
              \cup {M(x) : x \in Profiles} \cup NewIds

PartyRow ==
  [kind : {"customer", "supplier"}, customer : PartyCustomers \cup {None},
   vendor : VendorNames \cup {None}, opening : Openings \cup {0},
   side : {"toCollect", "toPay", None}]

ASSUME PartyAssumption ==
  /\ Normalized \in [VendorNames -> VendorNames] /\ MirrorKey \in [VendorNames -> VendorNames]
  /\ Directories \subseteq Seq([id : Profiles, name : VendorNames])
  /\ Openings \subseteq Nat /\ LedgerDays \subseteq Nat
  /\ None \notin PartyCustomers \cup VendorNames
  /\ \A i \in NewIds : i[1] \notin {"c", "v", "m"}

VARIABLES
  rows,       \* the Party rows
  hidden,     \* PartyHidden
  directory,  \* vendorDirectory of expenseMeta
  clientele,  \* the customers that exist
  invoices,
  expenses,
  mirror      \* per client: the mirroring its last save started, in the background

partyVars == <<rows, hidden, directory, clientele, invoices, expenses, mirror>>

Idle == [left |-> <<>>, found |-> "ask"]

PartyInit ==
  /\ rows = [i \in PartyIds |-> Null]
  /\ hidden = {}
  /\ directory = <<>>
  /\ clientele = PartyCustomers
  /\ \E l \in Ledgers : invoices = l.invoices /\ expenses = l.expenses
  /\ mirror = [c \in Clients |-> Idle]

-----------------------------------------------------------------------------
(* The list of parties                                                      *)

Rows == {i \in PartyIds : rows[i] # Null}

\* loadDbPartiesById: a row is found by its id and by its customer's.
RowsAt(key) == {i \in Rows : i = key \/ (rows[i].customer # None /\ C(rows[i].customer) = key)}

Suppliers(norm) ==
  {i \in Rows : /\ rows[i].kind = "supplier"
                /\ rows[i].vendor # None
                /\ Normalized[rows[i].vendor] = norm}

\* The row of a set of candidates that the query happens to return first.
First(ids) == CHOOSE i \in ids : TRUE

Merged(id, base, ids) ==
  IF ids = {} THEN [base EXCEPT !.id = id]
  ELSE LET row == rows[First(ids)] IN
    [id |-> id, kind |-> row.kind, opening |-> row.opening, side |-> row.side,
     customer |-> IF row.customer = None THEN base.customer ELSE row.customer,
     vendor   |-> IF row.vendor = None THEN base.vendor ELSE row.vendor]

Blank(kind) ==
  [id |-> None, kind |-> kind, customer |-> None, vendor |-> None, opening |-> 0, side |-> None]

FromCustomer(k) ==
  Merged(C(k), [Blank("customer") EXCEPT !.customer = k], RowsAt(C(k)))

Spelled(norm) == {i \in DOMAIN directory : Normalized[directory[i].name] = norm}

\* The last profile of that name, or else the name itself.
VendorId(name) ==
  LET same == Spelled(Normalized[name]) IN
  IF same = {} THEN V(name) ELSE V(directory[Max(same)].id)

Vendors == {directory[i].name : i \in DOMAIN directory} \cup {e.vendor : e \in expenses}

\* Of several spellings of a profile's name, the directory's first is listed.
Heads == {n \in Vendors : LET same == Spelled(Normalized[n]) IN
                            same # {} => n = directory[Min(same)].name}

FromVendor(name) ==
  LET own == RowsAt(VendorId(name)) IN
  Merged(VendorId(name), [Blank("supplier") EXCEPT !.vendor = name],
         IF own # {} THEN own ELSE Suppliers(Normalized[name]))

Canonical == {C(k) : k \in clientele} \cup {VendorId(n) : n \in Heads}

\* Mutant: a row is only compared by its own id.
Shown_ById(i, known) == FALSE

\* The row i already completes a customer or a vendor of the list.
Shown(i, known) ==
  \/ /\ rows[i].kind = "supplier" /\ rows[i].vendor # None
     /\ VendorId(rows[i].vendor) \in known
  \/ rows[i].customer # None /\ C(rows[i].customer) \in known

\* The rows that are left have keys of their own; a row of a customer who is
\* gone is listed under its id and under the customer's.  Which of two rows that
\* name one vendor or customer who is gone is passed over depends on the query's
\* order: here it is one that lists both.
Listing ==
  LET known == Canonical
      owned == {key \in PartyIds \ known : /\ RowsAt(key) # {}
                                          /\ ~Shown(First(RowsAt(key)), known)} IN
  [key \in known \cup owned |->
     IF key \in owned THEN LET i == First(RowsAt(key)) IN Merged(i, Blank("supplier"), {i})
     ELSE IF key[1] = "c" THEN FromCustomer(key[2])
     ELSE FromVendor(CHOOSE n \in Heads : VendorId(n) = key)]

PartyById(id) ==
  LET all == Listing
      at  == {key \in DOMAIN all : all[key].id = id} IN
  IF id \in hidden \/ at = {} THEN Null ELSE all[First(at)]

-----------------------------------------------------------------------------
(* Ledgers                                                                  *)

\* partyDocumentsForParty
InvoicesOf(p) == {i \in invoices : p.kind = "customer" /\ p.customer # None /\ i.customer = p.customer}
ExpensesOf(p) == {e \in expenses : p.kind = "supplier" /\ p.vendor # None /\ e.vendor = p.vendor}

Payment == [day : LedgerDays, amount : Nat]
Invoice == [customer : PartyCustomers, total : Nat, wallet : Nat, day : LedgerDays,
            payments : SUBSET Payment]
Expense == [vendor : VendorNames, amount : Nat, paid : Nat, day : LedgerDays,
            status : {"PAID", "PARTIAL", "UNPAID"}]

Paid(payments) == SumFunction([x \in payments |-> x.amount])
Collected(i) == Paid(i.payments) + i.wallet
Outstanding(i) == Max({0, i.total - Collected(i)})
Unpaid(e) == IF e.status = "PAID" THEN 0 ELSE Max({0, e.amount - e.paid})
PaidOut(e) == IF e.status = "PAID" THEN e.amount ELSE e.paid

\* Nothing is paid beyond its amount.  UNPAID is PENDING or OVERDUE, and a part
\* that is paid makes an expense PARTIAL.
Sound(invs, exps) ==
  /\ IsFiniteSet(invs) /\ invs \subseteq Invoice
  /\ \A i \in invs : IsFiniteSet(i.payments) /\ Collected(i) <= i.total
  /\ IsFiniteSet(exps) /\ exps \subseteq Expense
  /\ \A e \in exps : e.paid <= e.amount /\ (e.status = "UNPAID" => e.paid = 0)

ASSUME LedgersAssumption == \A l \in Ledgers : Sound(l.invoices, l.expenses)

SignedOpening(p) ==
  LET usual == IF p.kind = "customer" THEN "toCollect" ELSE "toPay" IN
  IF p.side \in {None, usual} THEN p.opening ELSE -p.opening

CurrentBalance(p) ==
  SignedOpening(p) + SumFunction([i \in InvoicesOf(p) |-> Outstanding(i)])
    + SumFunction([e \in ExpensesOf(p) |-> Unpaid(e)])

\* Mutant: payments are only read from the invoices of the period.
PaymentsIn_OfInvoices(i, days) == {x \in i.payments : {i.day, x.day} \subseteq days}

\* A payment is dated by itself, whatever the date of its invoice.
PaymentsIn(i, days) == {x \in i.payments : x.day \in days}

Received(p, days) == SumFunction([i \in InvoicesOf(p) |-> Paid(PaymentsIn(i, days))])

Within(docs, days) == {x \in docs : x.day \in days}
Sold(p, days) == SumFunction([i \in Within(InvoicesOf(p), days) |-> i.total])

\* buildPartyStatement without its opening balance; wallet use is not an entry.
Movement(p, days) ==
  Sold(p, days) - Received(p, days)
    + SumFunction([e \in Within(ExpensesOf(p), days) |-> e.amount - PaidOut(e)])

\* buildPartySummary
Summary(p, days) ==
  [balance  |-> CurrentBalance(p),
   overdue  |-> CurrentBalance(p) - SignedOpening(p),
   sales    |-> Sold(p, days) + SumFunction([e \in Within(ExpensesOf(p), days) |-> e.amount]),
   received |-> Received(p, days)
                  + SumFunction([e \in Within(ExpensesOf(p), days) |->
                                   IF e.status = "UNPAID" THEN 0 ELSE PaidOut(e)])]

\* The wallet's part is dated with the last payment, or with the invoice.
WalletDay(i) == IF i.payments = {} THEN i.day ELSE Max({x.day : x \in i.payments})

\* buildPublicCustomerStatement
PublicMovement(p, days) ==
  Movement(p, days)
    - SumFunction([i \in {j \in InvoicesOf(p) : WalletDay(j) \in days} |-> i.wallet])

\* The party getPublicCustomerLedger makes up for itself.
PublicParty(k) ==
  LET ids == RowsAt(C(k)) IN
  [Blank("customer") EXCEPT
     !.id = C(k), !.customer = k,
     !.opening = IF ids = {} THEN 0 ELSE rows[First(ids)].opening,
     !.side = IF ids = {} \/ rows[First(ids)].side = None THEN "toCollect" ELSE rows[First(ids)].side]

-----------------------------------------------------------------------------
(* Requests                                                                 *)

\* What was stored, where the form leaves it out.
Or(given, stored) == IF given # None THEN given ELSE stored

\* What the form of a customer or of a supplier says.
Forms ==
  {f \in [kind : {"customer", "supplier"}, opening : Openings \cup {None}, side : Sides,
           customer : PartyCustomers \cup {None}, vendor : VendorNames \cup {None}] :
     IF f.kind = "customer" THEN f.vendor = None ELSE f.customer = None}

\* resolvePartyId
NewPartyId(f) ==
  IF f.customer # None THEN {C(f.customer)}
  ELSE IF f.vendor # None THEN {V(f.vendor)} ELSE NewIds \ Rows

PostParty(c) ==
  /\ pc[c] = "idle" /\ sent < MaxRequests
  /\ \E f \in Forms : \E id \in NewPartyId(f) : Arrive(c, "party.read", [id |-> id, form |-> f])
  /\ UNCHANGED partyVars

\* The ids that the list shows.
ShownIds == (LET all == Listing IN {all[key].id : key \in DOMAIN all}) \ hidden

\* PUT /parties/:id; only a party of its own is linked to a customer or a vendor.
PutParty(c) ==
  /\ pc[c] = "idle" /\ sent < MaxRequests
  /\ \E id \in ShownIds, f \in Forms :
       /\ id \notin NewIds => /\ f.kind = IF id[1] = "c" THEN "customer" ELSE "supplier"
                             /\ f.customer = None /\ f.vendor = None
       /\ Arrive(c, "party.read", [id |-> id, form |-> f])
  /\ UNCHANGED partyVars

\* upsertParty: what is listed under the id completes what was sent.
PartyRead(c) ==
  LET form == req[c].form
      old  == IF PartyById(req[c].id) = Null THEN Blank(form.kind) ELSE PartyById(req[c].id) IN
  /\ pc[c] = "party.read"
  /\ Goto(c, "party.write",
       [id |-> req[c].id,
        row |-> [kind |-> form.kind, customer |-> Or(form.customer, old.customer),
                 vendor |-> Or(form.vendor, old.vendor), opening |-> Or(form.opening, old.opening),
                 side |-> Or(form.side, old.side)]])
  /\ UNCHANGED partyVars

\* The transaction; a customer has one row (Party.customerId is unique).  The
\* list is then read again, and an error answered when it lacks the id.
PartyWrite(c) ==
  LET row == req[c].row
      clash == \E i \in Rows \ {req[c].id} :
                 row.customer # None /\ rows[i].customer = row.customer IN
  /\ pc[c] = "party.write"
  /\ rows' = IF clash THEN rows ELSE [rows EXCEPT ![req[c].id] = row]
  /\ Answer(c)
  /\ UNCHANGED <<hidden, directory, clientele, invoices, expenses, mirror>>

\* DELETE /parties/:id, for a party that is listed
HideParty(c) ==
  /\ pc[c] = "idle" /\ sent < MaxRequests
  /\ \E id \in ShownIds : Arrive(c, "party.hide", [id |-> id])
  /\ UNCHANGED partyVars

PartyHide(c) ==
  /\ pc[c] = "party.hide"
  /\ hidden' = IF PartyById(req[c].id) = Null THEN hidden ELSE hidden \cup {req[c].id}
  /\ Answer(c)
  /\ UNCHANGED <<rows, directory, clientele, invoices, expenses, mirror>>

\* upsertExpenseMeta; one mirroring per client is followed.
SaveMeta(c) ==
  /\ mirror[c] = Idle
  /\ \E d \in Directories \cup {<<>>} :
       Arrive(c, IF d = <<>> THEN "meta.keep" ELSE "meta.write", [vendors |-> d])
  /\ UNCHANGED partyVars

\* A save without vendors keeps those that are stored.
MetaKeep(c) ==
  /\ pc[c] = "meta.keep"
  /\ Goto(c, "meta.write", [vendors |-> directory])
  /\ UNCHANGED partyVars

MetaWrite(c) ==
  /\ pc[c] = "meta.write"
  /\ directory' = req[c].vendors
  /\ mirror' = [mirror EXCEPT ![c].left = req[c].vendors]
  /\ Answer(c)
  /\ UNCHANGED <<rows, hidden, clientele, invoices, expenses>>

\* mirrorVendorsToPartyTable, one vendor at a time: the row of its key, then
\* an update of its particulars or a new row under the profile's id.
MirrorFind(c) ==
  /\ mirror[c].left # <<>> /\ mirror[c].found = "ask"
  /\ \E some \in BOOLEAN :
       /\ some = \E i \in Rows : rows[i].vendor = MirrorKey[Head(mirror[c].left).name]
       /\ mirror' = [mirror EXCEPT ![c].found = IF some THEN "update" ELSE "create"]
  /\ UNCHANGED <<requestVars, rows, hidden, directory, clientele, invoices, expenses>>

\* The create fails when the id is taken, and the mirroring ends there.
MirrorWrite(c) ==
  LET v == Head(mirror[c].left)
      taken == mirror[c].found = "create" /\ M(v.id) \in Rows IN
  /\ mirror[c].found \in {"update", "create"}
  /\ rows' = IF mirror[c].found = "create" /\ ~taken
              THEN [rows EXCEPT ![M(v.id)] =
                      [kind |-> "supplier", customer |-> None, vendor |-> MirrorKey[v.name],
                       opening |-> 0, side |-> None]]
              ELSE rows
  /\ mirror' = [mirror EXCEPT ![c] =
       IF taken THEN Idle ELSE [left |-> Tail(@.left), found |-> "ask"]]
  /\ UNCHANGED <<requestVars, hidden, directory, clientele, invoices, expenses>>

\* External: an invoice is paid, an expense is paid off, a customer is deleted.
PayInvoice(c) ==
  /\ AtOnce(c)
  /\ \E i \in invoices, day \in LedgerDays :
       /\ Outstanding(i) > 0 /\ day >= i.day
       /\ invoices' = (invoices \ {i}) \cup
            {[i EXCEPT !.payments = @ \cup {[day |-> day, amount |-> Outstanding(i)]}]}
  /\ UNCHANGED <<rows, hidden, directory, clientele, expenses, mirror>>

PayExpense(c) ==
  /\ AtOnce(c)
  /\ \E e \in expenses : /\ e.status # "PAID"
                         /\ expenses' = (expenses \ {e}) \cup {[e EXCEPT !.status = "PAID"]}
  /\ UNCHANGED <<rows, hidden, directory, clientele, invoices, mirror>>

CustomerGone(c) ==
  /\ AtOnce(c)
  /\ \E k \in clientele : clientele' = clientele \ {k}
  /\ UNCHANGED <<rows, hidden, directory, invoices, expenses, mirror>>

PartyStep ==
  \E c \in Clients :
    \/ PostParty(c) \/ PutParty(c) \/ PartyRead(c) \/ PartyWrite(c) \/ HideParty(c) \/ PartyHide(c)
    \/ SaveMeta(c) \/ MetaKeep(c) \/ MetaWrite(c) \/ MirrorFind(c) \/ MirrorWrite(c)
    \/ PayInvoice(c) \/ PayExpense(c) \/ CustomerGone(c)

PartySpec == PartyInit /\ RequestInit /\ [][PartyStep]_<<partyVars, requestVars>>

-----------------------------------------------------------------------------
(* Properties                                                               *)

PartyTypeOK ==
  /\ rows \in [PartyIds -> PartyRow \cup {Null}]
  /\ hidden \subseteq PartyIds
  /\ directory \in Directories \cup {<<>>}

\* Wherever a year is cut into two periods, what moved in one and in the other
\* takes a party from its opening balance to the balance it is listed with, on
\* the statement handed to the public too (which alone shows wallet credit),
\* and the summary's sales and receipts say the same.
StatementsReachBalance ==
  LET all == Listing IN
  \A p \in {all[key] : key \in DOMAIN all}, d \in LedgerDays :
    LET days == {x \in LedgerDays : x <= d}
        rest == LedgerDays \ days
        walletless == \A i \in InvoicesOf(p) : i.wallet = 0 IN
    /\ walletless =>
         /\ SignedOpening(p) + Movement(p, days) + Movement(p, rest) = CurrentBalance(p)
         /\ \A part \in {days, rest} :
              Summary(p, part).sales - Summary(p, part).received = Movement(p, part)
    /\ p.customer \in clientele /\ p.kind = "customer" =>
         LET q == PublicParty(p.customer) IN
         SignedOpening(q) + PublicMovement(q, days) + PublicMovement(q, rest) = CurrentBalance(p)

\* A name no other spelling of which is used, with a key that no other name has
\* and no row gives another name: the vendor of a profile was not renamed since
\* its row was written.
Plain(n) ==
  /\ \A m \in Vendors \cup ({rows[i].vendor : i \in Rows} \ {None}) :
       Normalized[m] = Normalized[n] => m = n
  /\ \A m \in Vendors : VendorId(m) = VendorId(n) => m = n
  /\ \A i \in Rows : i[1] = "v" =>
       IF i = VendorId(n) THEN rows[i].vendor \in {n, None} ELSE rows[i].vendor # n

Books ==
  LET all == Listing IN {<<key, InvoicesOf(all[key]), ExpensesOf(all[key])>> : key \in DOMAIN all}

\* One book has the document, and unless it is hidden one that is shown.
Once(books) ==
  LET all == Listing IN
  books # {} /\ Cardinality({b \in books : all[b[1]].id \notin hidden}) <= 1

InvoicesOnce ==
  \A i \in invoices : i.customer \in clientele => Once({b \in Books : i \in b[2]})

ExpensesOnce ==
  \A e \in expenses : Plain(e.vendor) => Once({b \in Books : e \in b[3]})

\* However customers and vendors are also stored as rows, linked and mirrored, an
\* invoice of a customer and an expense of a plainly named vendor appear on the
\* ledger of exactly one party of the list (and of none if that one is hidden).
DocumentCountedOnce == InvoicesOnce /\ ExpensesOnce
=============================================================================
