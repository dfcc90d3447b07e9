------------------------ MODULE InvoiceWalletProofs -------------------------
(***************************************************************************)
(* No wallet goes below zero, proved for any number of requests, customers,*)
(* invoices and payments.  The tests are made on a balance that may be out *)
(* of date, and hold nevertheless: the commit writes the value that was    *)
(* tested, not a difference.  The invariant has to say that balances read  *)
(* before are amounts too, and what a save holds of the stored invoice.    *)
(*                                                                         *)
(* What is only so of requests that keep apart follows, each part under an *)
(* assumption that says how: wallets that equal their transactions, and    *)
(* invoices that have moved the wallets by what their rows say.            *)
(***************************************************************************)
EXTENDS InvoiceWallet, FunctionSums, TLAPS

Saving == {"save.customer", "save.wallet", "save.row"}

\* What the request of client p holds at its label.
Fits(p) ==
  /\ old[p] \in Doc \cup {Null}
  /\ seen[p] \in Nat
  /\ pc[p] \in Saving => body[p] \in [invoice : Invoices, doc : Doc]
  /\ pc[p] \in {"save.customer", "save.wallet"} => body[p].doc.customer \in Customers
  /\ pc[p] = "adjust.commit" => body[p] \in [customer : Customers, amount : Int]

RowsTyped ==
  /\ balance \in [Customers -> Nat]
  /\ invoices \in [Invoices -> Doc \cup {Null}]

Requested ==
  /\ pc = [p \in Clients |-> pc[p]]
  /\ body = [p \in Clients |-> body[p]]
  /\ old = [p \in Clients |-> old[p]]
  /\ seen = [p \in Clients |-> seen[p]]
  /\ \A p \in Clients : Fits(p)

Sound == RowsTyped /\ Requested

-----------------------------------------------------------------------------

LEMMA InitSound == Init => Sound
BY WalletAssumption DEF Init, Sound, RowsTyped, Requested, Fits, Saving

\* A step of p that changes nothing that other requests hold.
LEMMA OwnStep ==
  ASSUME Sound, NEW p \in Clients, RowsTyped', Fits(p)',
         pc' = [pc EXCEPT ![p] = pc'[p]], body' = [body EXCEPT ![p] = body'[p]],
         old' = [old EXCEPT ![p] = old'[p]], seen' = [seen EXCEPT ![p] = seen'[p]]
  PROVE  Sound'
<1>1. \A q \in Clients \ {p} : Fits(q)'
  BY DEF Sound, Requested, Fits
<1> QED  BY <1>1 DEF Sound, Requested

\* An answered request holds nothing.
LEMMA Answered ==
  ASSUME Sound, NEW p \in Clients, Done(p), RowsTyped'
  PROVE  Sound'
<1>1. /\ pc' = [pc EXCEPT ![p] = pc'[p]] /\ body' = [body EXCEPT ![p] = body'[p]]
      /\ old' = [old EXCEPT ![p] = old'[p]] /\ seen' = [seen EXCEPT ![p] = seen'[p]]
      /\ pc'[p] = "idle" /\ old'[p] = Null /\ seen'[p] = 0
  BY DEF Sound, Requested, Done
<1>2. Fits(p)'
  BY <1>1 DEF Fits, Saving
<1> QED  BY <1>1, <1>2, OwnStep

\* What some payments add to a wallet is an amount.
LEMMA TotalIsNat ==
  ASSUME NEW payments \in SUBSET PayIds
  PROVE  Total(payments) \in Nat
<1>1. IsFiniteSet(payments) /\ \A x \in payments : Extra[x] \in Nat
  BY WalletAssumption, FS_Subset
<1> QED  BY <1>1, SumIsNat DEF Total

\* A transaction that commits leaves an amount: its tests are on the balance that
\* it goes on to write.
LEMMA CommitCovered ==
  ASSUME Sound, NEW p \in Clients, pc[p] = "save.wallet", Covered(p)
  PROVE  Change(p) \in Int /\ seen[p] + Change(p) \in Nat
<1>1. /\ seen[p] \in Nat /\ old[p] \in Doc \cup {Null} /\ body[p].doc \in Doc
  BY DEF Sound, Requested, Fits, Saving
<1>2. UsedDiff(p) \in Int
  BY <1>1, WalletAssumption DEF UsedDiff, Used, Doc
<1>3. Credited(p) \in SUBSET PayIds /\ Reversed(p) \in SUBSET PayIds
  BY <1>1, WalletAssumption DEF Credited, Reversed, Stamped, Doc
<1>4. Total(Credited(p)) \in Nat /\ Total(Reversed(p)) \in Nat
  BY <1>3, TotalIsNat
<1> QED  BY <1>1, <1>2, <1>4 DEF Covered, Change

\* PUT /api/invoices/:id
LEMMA SaveSound ==
  ASSUME Sound, NEW p \in Clients, SaveStep(p)
  PROVE  Sound'
<1>0. RowsTyped /\ Requested /\ Fits(p)
  BY DEF Sound, Requested
<1>1. ASSUME NEW i \in Invoices, NEW doc \in Doc, SaveRead(p, i, doc)
      PROVE  Sound'
  <2>1. RowsTyped'
    BY <1>0, <1>1 DEF SaveRead, RowsTyped, rows
  <2>2. /\ pc'[p] = IF doc.customer = Null THEN "save.row" ELSE "save.customer"
        /\ body'[p] = [invoice |-> i, doc |-> doc]
        /\ old'[p] = invoices[i] /\ seen'[p] = seen[p]
    BY <1>0, <1>1 DEF SaveRead, Goto, Requested
  <2>3. Fits(p)'
    BY <1>0, <1>1, <2>2 DEF Fits, Saving, RowsTyped, Doc
  <2> QED  BY <1>0, <1>1, <2>1, <2>3, OwnStep DEF SaveRead, Goto, Requested
<1>2. CASE SaveReadCustomer(p)
  <2>1. RowsTyped'
    BY <1>0, <1>2 DEF SaveReadCustomer, RowsTyped, rows
  <2>2. /\ pc'[p] = "save.wallet" /\ body' = body /\ old' = old
        /\ seen'[p] = balance[body[p].doc.customer]
    BY <1>0, <1>2 DEF SaveReadCustomer, Goto, Requested
  <2>3. Fits(p)'
    BY <1>0, <1>2, <2>2 DEF SaveReadCustomer, Fits, Saving, RowsTyped
  <2> QED  BY <1>0, <1>2, <2>1, <2>3, OwnStep DEF SaveReadCustomer, Goto, Requested
<1>3. CASE SaveCommitWallet(p)
  <2>1. /\ body[p] \in [invoice : Invoices, doc : Doc]
        /\ body[p].doc.customer \in Customers
    BY <1>0, <1>3 DEF SaveCommitWallet, Fits, Saving
  <2>2. balance' = [balance EXCEPT ![body[p].doc.customer] = seen[p] + Change(p)]
        /\ seen[p] + Change(p) \in Nat
    BY <1>3, CommitCovered DEF SaveCommitWallet, Post
  <2>3. RowsTyped'
    BY <1>0, <1>3, <2>1, <2>2 DEF SaveCommitWallet, RowsTyped
  <2>4. Credited(p) \subseteq PayIds
    BY <2>1 DEF Credited, Doc
  <2>5. /\ pc'[p] = "save.row" /\ old' = old /\ seen' = seen
        /\ body'[p] = [body[p] EXCEPT !.doc.stamped = @ \cup Credited(p)]
    BY <1>0, <1>3 DEF SaveCommitWallet, Goto, Requested
  <2>6. body'[p] \in [invoice : Invoices, doc : Doc]
    BY <2>1, <2>4, <2>5 DEF Doc
  <2>7. Fits(p)'
    BY <1>0, <2>5, <2>6 DEF Fits, Saving
  <2> QED  BY <1>0, <1>3, <2>3, <2>7, OwnStep DEF SaveCommitWallet, Goto, Requested
<1>4. CASE SaveRejected(p)
  BY <1>0, <1>4, Answered DEF SaveRejected, RowsTyped, rows
<1>5. CASE SaveWriteRow(p)
  <2>1. body[p] \in [invoice : Invoices, doc : Doc]
    BY <1>0, <1>5 DEF SaveWriteRow, Fits, Saving
  <2>2. RowsTyped'
    BY <1>0, <1>5, <2>1 DEF SaveWriteRow, RowsTyped
  <2> QED  BY <1>5, <2>2, Answered DEF SaveWriteRow
<1>6. ASSUME NEW i \in Edits[p], NEW c \in Payers, NEW used \in Uses,
             NEW payments \in SUBSET PayIds, NEW resend \in Resends
      PROVE  /\ i \in Invoices
             /\ [customer |-> c, used |-> used, payments |-> payments,
                 stamped |-> StampsSent(i, payments, resend)] \in Doc
  BY WalletAssumption DEF Doc, StampsSent
<1> QED  BY <1>1, <1>2, <1>3, <1>4, <1>5, <1>6 DEF SaveStep

\* Adjustments by hand and saved customers.
LEMMA AdjustSound ==
  ASSUME Sound, NEW p \in Clients, AdjustStep(p)
  PROVE  Sound'
<1>0. RowsTyped /\ Requested /\ Fits(p)
  BY DEF Sound, Requested
<1>1. ASSUME NEW c \in Customers, NEW a \in Int, AdjustRead(p, c, a)
      PROVE  Sound'
  <2>1. RowsTyped'
    BY <1>0, <1>1 DEF AdjustRead, RowsTyped, rows
  <2>2. /\ pc'[p] = "adjust.commit" /\ old' = old /\ seen'[p] = balance[c]
        /\ body'[p] = [customer |-> c, amount |-> a]
    BY <1>0, <1>1 DEF AdjustRead, Goto, Requested
  <2>3. Fits(p)'
    BY <1>0, <1>1, <2>2 DEF Fits, Saving, RowsTyped
  <2> QED  BY <1>0, <1>1, <2>1, <2>3, OwnStep DEF AdjustRead, Goto, Requested
<1>2. CASE AdjustCommit(p)
  <2>1. /\ body[p].customer \in Customers /\ body[p].amount \in Int /\ seen[p] \in Nat
    BY <1>0, <1>2 DEF AdjustCommit, Fits
  <2>2. RowsTyped'
    BY <1>0, <1>2, <2>1 DEF AdjustCommit, Post, RowsTyped
  <2> QED  BY <1>2, <2>2, Answered DEF AdjustCommit
<1>3. CASE AdjustRejected(p)
  BY <1>0, <1>3, Answered DEF AdjustRejected, RowsTyped, rows
<1>4. ASSUME NEW c \in Customers, NEW amount \in Overwrites, Overwrite(p, c, amount)
      PROVE  Sound'
  <2>1. RowsTyped'
    BY <1>0, <1>4, WalletAssumption DEF Overwrite, RowsTyped
  <2> QED  BY <1>0, <1>4, <2>1 DEF Overwrite, mine, Sound, Requested, Fits
<1>5. \A a \in Adjustments : a \in Int /\ -a \in Int
  BY WalletAssumption
<1> QED  BY <1>1, <1>2, <1>3, <1>4, <1>5 DEF AdjustStep

\* Deletions and snapshots change invoices only.
LEMMA RowsSound ==
  ASSUME Sound, NEW p \in Clients, (\E i \in Edits[p] : Delete(p, i)) \/ SyncStep(p)
  PROVE  Sound'
<1>0. RowsTyped /\ Requested
  BY DEF Sound
<1>1. CASE \E i \in Edits[p] : Delete(p, i)
  <2>1. RowsTyped'
    BY <1>0, <1>1 DEF Delete, RowsTyped
  <2> QED  BY <1>0, <1>1, <2>1 DEF Delete, mine, Sound, Requested, Fits
<1>2. ASSUME NEW items \in [Invoices -> Doc \cup {Null}], Replace(p, items)
      PROVE  Sound'
  <2>1. RowsTyped'
    BY <1>0, <1>2 DEF Replace, RowsTyped
  <2> QED  BY <1>0, <1>2, <2>1 DEF Replace, mine, Sound, Requested, Fits
<1>3. ASSUME NEW kept \in SUBSET Invoices, NEW i \in Invoices, NEW used \in Uses,
             NEW whole \in [Invoices -> Doc \cup {Null}], whole[i] # Null
      PROVE  [whole EXCEPT ![i].used = used] \in [Invoices -> Doc \cup {Null}]
  BY <1>3, WalletAssumption DEF Doc
<1>4. \A kept \in SUBSET Invoices :
        [j \in Invoices |-> IF j \in kept THEN invoices[j] ELSE Null]
          \in [Invoices -> Doc \cup {Null}]
  BY <1>0 DEF RowsTyped
<1>5. CASE SyncStep(p)
  BY <1>2, <1>3, <1>4, <1>5 DEF SyncStep
<1> QED  BY <1>1, <1>5

LEMMA StepSound == Sound /\ [Next]_vars => Sound'
<1> SUFFICES ASSUME Sound, [Next]_vars  PROVE Sound'
  OBVIOUS
<1>1. ASSUME NEW p \in Clients, CutOff(p)  PROVE Sound'
  BY <1>1, Answered DEF CutOff, Sound, RowsTyped, rows
<1>2. CASE UNCHANGED vars
  BY <1>2 DEF vars, Sound, RowsTyped, Requested, Fits
<1> QED  BY <1>1, <1>2, SaveSound, AdjustSound, RowsSound DEF Next

\* However saves, adjustments, overwrites, snapshots and cut-offs interleave, no
\* wallet is ever below zero (handleInvoiceWalletSync, adjustWallet).
THEOREM NotNegative == Spec => []WalletNotNegative
<1>1. Sound => WalletNotNegative
  BY DEF Sound, RowsTyped, WalletNotNegative
<1> QED  BY <1>1, InitSound, StepSound, PTL DEF Spec

-----------------------------------------------------------------------------
(* One request at a time, and no balance that is overwritten.               *)

Alone ==
  /\ \A p, q \in Clients : p = q
  /\ Overwrites = {}

\* The balance a transaction has read is still the customer's.
UpToDate(p) ==
  /\ pc[p] = "save.wallet" => seen[p] = balance[body[p].doc.customer]
  /\ pc[p] = "adjust.commit" => seen[p] = balance[body[p].customer]

LedgerTyped == ledger \in [Customers -> [Refs -> Int]]

Balanced ==
  /\ LedgerTyped
  /\ BalanceIsLedgerSum
  /\ \A p \in Clients : UpToDate(p)

\* A committed transaction moves the sum of the customer's rows by its amount.
LEMMA PostMoves ==
  ASSUME Sound, LedgerTyped, NEW c \in Customers, NEW ref \in Refs, NEW amount, NEW after,
         amount \in Int, Post(c, ref, amount, after)
  PROVE  /\ LedgerTyped'
         /\ balance' = [balance EXCEPT ![c] = after]
         /\ ledger' = [ledger EXCEPT ![c] = [ledger[c] EXCEPT ![ref] = ledger[c][ref] + amount]]
         /\ SumFunction(ledger'[c]) = SumFunction(ledger[c]) + amount
         /\ \A d \in Customers \ {c} : ledger'[d] = ledger[d]
<1>1. /\ balance' = [balance EXCEPT ![c] = after]
      /\ ledger' = [ledger EXCEPT ![c] = [ledger[c] EXCEPT ![ref] = ledger[c][ref] + amount]]
  BY DEF Post, LedgerTyped
<1>2. LedgerTyped' /\ \A d \in Customers \ {c} : ledger'[d] = ledger[d]
  BY <1>1 DEF LedgerTyped
<1> DEFINE f == ledger[c]
           g == ledger'[c]
<1>3. /\ f \in [Refs -> Int] /\ g \in [Refs -> Int]
      /\ g[ref] = f[ref] + amount /\ \A r \in Refs \ {ref} : g[r] = f[r]
  BY <1>1, <1>2 DEF LedgerTyped
<1>4. IsFiniteSet(Refs)
  BY WalletAssumption, FS_AddElement DEF Refs
<1> HIDE DEF f, g
<1>5. /\ SumFunctionOnSet(g, Refs) = SumFunctionOnSet(f, Refs) + g[ref] - f[ref]
      /\ SumFunctionOnSet(f, Refs) \in Int
  BY <1>3, <1>4, SumUpdate, SumIsInt
<1>6. SumFunctionOnSet(g, Refs) = SumFunctionOnSet(f, Refs) + amount
  BY <1>3, <1>5
<1>7. SumFunction(g) = SumFunction(f) + amount
  BY <1>3, <1>6 DEF SumFunction
<1> QED  BY <1>1, <1>2, <1>7 DEF f, g

LEMMA SumsAreInts ==
  ASSUME LedgerTyped, NEW c \in Customers
  PROVE  SumFunction(ledger[c]) \in Int
<1>1. ledger[c] \in [Refs -> Int] /\ IsFiniteSet(Refs)
  BY WalletAssumption, FS_AddElement DEF Refs, LedgerTyped
<1>2. SumFunctionOnSet(ledger[c], Refs) \in Int
  BY <1>1, SumIsInt
<1> QED  BY <1>1, <1>2 DEF SumFunction

LEMMA PostBalances ==
  ASSUME Sound, Balanced, NEW c \in Customers, NEW ref \in Refs, NEW amount \in Int,
         Post(c, ref, amount, balance[c] + amount)
  PROVE  LedgerTyped' /\ BalanceIsLedgerSum'
<1>1. balance[c] = Opening + SumFunction(ledger[c])
  BY DEF Balanced, BalanceIsLedgerSum
<1>2. SumFunction(ledger[c]) \in Int /\ Opening \in Int
  BY SumsAreInts, WalletAssumption DEF Balanced
<1>3. /\ LedgerTyped' /\ SumFunction(ledger'[c]) = SumFunction(ledger[c]) + amount
      /\ balance' = [balance EXCEPT ![c] = balance[c] + amount]
      /\ \A d \in Customers \ {c} : ledger'[d] = ledger[d]
  BY PostMoves DEF Balanced
<1>4. balance'[c] = Opening + SumFunction(ledger'[c])
  BY <1>1, <1>2, <1>3 DEF Sound, RowsTyped
<1> QED  BY <1>3, <1>4 DEF Balanced, BalanceIsLedgerSum, Sound, RowsTyped

LEMMA InitBalanced == Init => Balanced
<1> SUFFICES ASSUME Init  PROVE Balanced
  OBVIOUS
<1>1. LedgerTyped /\ \A p \in Clients : UpToDate(p)
  BY DEF Init, LedgerTyped, UpToDate
<1>2. ASSUME NEW c \in Customers  PROVE balance[c] = Opening + SumFunction(ledger[c])
  <2>1. /\ DOMAIN ledger[c] = Refs /\ \A r \in Refs : ledger[c][r] = 0
        /\ balance[c] = Opening /\ Opening \in Int
    BY WalletAssumption DEF Init
  <2>2. IsFiniteSet(Refs)
    BY WalletAssumption, FS_AddElement DEF Refs
  <2>3. SumFunctionOnSet(ledger[c], Refs) = 0
    BY <2>1, <2>2, SumOfZeros
  <2> QED  BY <2>1, <2>3 DEF SumFunction
<1> QED  BY <1>1, <1>2 DEF Balanced, BalanceIsLedgerSum

LEMMA BalancedStep ==
  ASSUME Alone, Sound, Balanced, [Next]_vars
  PROVE  Balanced'
<1>1. CASE UNCHANGED vars
  BY <1>1 DEF vars, Balanced, LedgerTyped, BalanceIsLedgerSum, UpToDate
<1>2. ASSUME NEW p \in Clients, UNCHANGED <<balance, ledger>>, UpToDate(p)'
      PROVE  Balanced'
  BY <1>2 DEF Alone, Balanced, LedgerTyped, BalanceIsLedgerSum
<1>3. ASSUME NEW p \in Clients, Done(p)  PROVE UpToDate(p)'
  BY <1>3 DEF Done, UpToDate, Sound, Requested
<1>4. ASSUME NEW p \in Clients, SaveStep(p)  PROVE Balanced'
  <2>0. RowsTyped /\ Requested /\ Fits(p) /\ UpToDate(p)
    BY DEF Sound, Requested, Balanced
  <2>1. ASSUME NEW i, NEW doc, SaveRead(p, i, doc)  PROVE Balanced'
    <3>1. UpToDate(p)'
      BY <2>0, <2>1 DEF SaveRead, Goto, UpToDate, Requested
    <3> QED  BY <1>2, <2>1, <3>1 DEF SaveRead, rows
  <2>2. CASE SaveReadCustomer(p)
    <3>1. UpToDate(p)'
      BY <2>0, <2>2 DEF SaveReadCustomer, Goto, UpToDate, Requested, rows
    <3> QED  BY <1>2, <2>2, <3>1 DEF SaveReadCustomer, rows
  <2>3. CASE SaveCommitWallet(p)
    <3> DEFINE c == body[p].doc.customer
               i == body[p].invoice
    <3>1. /\ c \in Customers /\ i \in Refs /\ seen[p] = balance[c]
      BY <2>0, <2>3 DEF SaveCommitWallet, Fits, Saving, Refs, UpToDate
    <3>2. Change(p) \in Int
      BY <2>3, CommitCovered DEF SaveCommitWallet
    <3>3. Post(c, i, Change(p), balance[c] + Change(p))
      BY <2>3, <3>1 DEF SaveCommitWallet
    <3>4. LedgerTyped' /\ BalanceIsLedgerSum'
      BY <3>1, <3>2, <3>3, PostBalances
    <3>5. UpToDate(p)'
      BY <2>0, <2>3 DEF SaveCommitWallet, Goto, UpToDate, Requested
    <3> QED  BY <3>4, <3>5 DEF Balanced, Alone
  <2>4. CASE SaveRejected(p)
    BY <1>2, <1>3, <2>4 DEF SaveRejected, rows
  <2>5. CASE SaveWriteRow(p)
    BY <1>2, <1>3, <2>5 DEF SaveWriteRow
  <2> QED  BY <1>4, <2>1, <2>2, <2>3, <2>4, <2>5 DEF SaveStep
<1>5. ASSUME NEW p \in Clients, AdjustStep(p)  PROVE Balanced'
  <2>0. RowsTyped /\ Requested /\ Fits(p) /\ UpToDate(p)
    BY DEF Sound, Requested, Balanced
  <2>1. ASSUME NEW c \in Customers, NEW a, AdjustRead(p, c, a)  PROVE Balanced'
    <3>1. UpToDate(p)'
      BY <2>0, <2>1 DEF AdjustRead, Goto, UpToDate, Requested, rows
    <3> QED  BY <1>2, <2>1, <3>1 DEF AdjustRead, rows
  <2>2. CASE AdjustCommit(p)
    <3>1. /\ body[p].customer \in Customers /\ body[p].amount \in Int /\ Manual \in Refs
          /\ seen[p] = balance[body[p].customer]
      BY <2>0, <2>2 DEF AdjustCommit, Fits, Refs, UpToDate
    <3>2. Post(body[p].customer, Manual, body[p].amount,
               balance[body[p].customer] + body[p].amount)
      BY <2>2, <3>1 DEF AdjustCommit
    <3>3. LedgerTyped' /\ BalanceIsLedgerSum'
      BY <3>1, <3>2, PostBalances
    <3> QED  BY <1>3, <2>2, <3>3 DEF AdjustCommit, Balanced, Alone
  <2>3. CASE AdjustRejected(p)
    BY <1>2, <1>3, <2>3 DEF AdjustRejected, rows
  <2> QED  BY <1>5, <2>1, <2>2, <2>3 DEF AdjustStep, Alone
<1>6. ASSUME NEW p \in Clients, (\E i \in Edits[p] : Delete(p, i)) \/ SyncStep(p)
      PROVE  Balanced'
  <2>1. UNCHANGED <<balance, ledger, mine>>
    BY <1>6 DEF Delete, SyncStep, Replace
  <2> QED  BY <2>1 DEF mine, Balanced, LedgerTyped, BalanceIsLedgerSum, UpToDate
<1>7. ASSUME NEW p \in Clients, CutOff(p)  PROVE Balanced'
  BY <1>2, <1>3, <1>7 DEF CutOff, rows
<1> QED  BY <1>1, <1>4, <1>5, <1>6, <1>7 DEF Next

\* Requests that do not overlap, whatever they are cut off after, keep every wallet
\* equal to what it started with plus the transactions recorded for it.
THEOREM LedgerExplainsBalance == ASSUME Alone PROVE Spec => []BalanceIsLedgerSum
<1>1. Balanced => BalanceIsLedgerSum
  BY DEF Balanced
<1>2. Sound /\ Balanced /\ [Next]_vars => Balanced'
  BY BalancedStep
<1> QED  BY <1>1, <1>2, InitBalanced, InitSound, StepSound, PTL DEF Spec

-----------------------------------------------------------------------------
(* Each client at its own invoices, which name a customer; the body sent is  *)
(* what was read back, and the row is written once the wallet is.            *)

Separate ==
  /\ \A p, q \in Clients : p # q => Edits[p] \cap Edits[q] = {}
  /\ Syncers = {}
  /\ Null \notin Payers
  /\ TRUE \notin Resends
  /\ "save.row" \notin CutOffAt

Adding(payments) == {x \in payments : Extra[x] > 0}

\* What a stored invoice has moved the wallets by.
Worth(doc) == IF doc = Null THEN 0 ELSE Total(doc.payments) - doc.used

\* Exactly the payments that add something are stamped.
AllStamped(doc) == doc # Null => doc.stamped = Adding(doc.payments)

\* A save under way: the invoice is as it was read until the wallet is charged,
\* and then what is about to be written is what has been charged.
Underway(p) ==
  LET i == body[p].invoice
      doc == body[p].doc IN
  /\ pc[p] \in Saving => i \in Edits[p]
  /\ pc[p] \in {"save.customer", "save.wallet"} =>
       /\ old[p] = invoices[i]
       /\ doc.stamped = Stamped(old[p]) \cap doc.payments
       /\ ChargedTo(i) = Worth(old[p])
  /\ pc[p] = "save.row" => ChargedTo(i) = Worth(doc) /\ AllStamped(doc)

Settled ==
  /\ LedgerTyped
  /\ InvoiceSettled
  /\ \A i \in Invoices : AllStamped(invoices[i])
  /\ \A p \in Clients : Underway(p)

\* Payments that add nothing do not count.
LEMMA TotalOfAdding ==
  ASSUME NEW payments \in SUBSET PayIds
  PROVE  Total(payments) = Total(Adding(payments))
<1>1. /\ IsFiniteSet(payments) /\ \A x \in payments : Extra[x] \in Nat
      /\ Adding(payments) \in SUBSET payments
  BY WalletAssumption, FS_Subset DEF Adding
<1> DEFINE rest == payments \ Adding(payments)
<1>2. SumFunctionOnSet(Extra, payments) =
        SumFunctionOnSet(Extra, Adding(payments)) + SumFunctionOnSet(Extra, rest)
  BY <1>1, SumSplit
<1>3. SumFunctionOnSet(Extra, rest) = 0
  <2>1. IsFiniteSet(rest) /\ \A x \in rest : Extra[x] = 0
    BY <1>1, FS_Subset DEF Adding
  <2> QED  BY <2>1, SumOfZeros
<1>4. SumFunctionOnSet(Extra, Adding(payments)) \in Nat
  BY <1>1, TotalIsNat DEF Total
<1> QED  BY <1>2, <1>3, <1>4 DEF Total

\* What is credited and taken back is the difference between two sets of payments.
LEMMA TotalsDiffer ==
  ASSUME NEW P \in SUBSET PayIds, NEW Q \in SUBSET PayIds
  PROVE  Total(Q) = Total(P) + Total(Adding(Q) \ Adding(P)) - Total(Adding(P) \ Adding(Q))
<1> DEFINE A == Adding(P)
           B == Adding(Q)
<1>1. /\ A \in SUBSET PayIds /\ B \in SUBSET PayIds
      /\ A \ B \in SUBSET A /\ B \ A \in SUBSET B
      /\ A \ (A \ B) = A \cap B /\ B \ (B \ A) = A \cap B
  BY DEF Adding
<1>2. Total(P) = Total(A) /\ Total(Q) = Total(B)
  BY TotalOfAdding
<1> HIDE DEF A, B
<1>3. /\ IsFiniteSet(A) /\ \A x \in A : Extra[x] \in Int
      /\ IsFiniteSet(B) /\ \A x \in B : Extra[x] \in Int
  BY <1>1, WalletAssumption, FS_Subset
<1>4. /\ Total(A) = Total(A \ B) + Total(A \cap B)
      /\ Total(B) = Total(B \ A) + Total(A \cap B)
  BY <1>1, <1>3, SumSplit DEF Total
<1>5. Total(A \ B) \in Nat /\ Total(B \ A) \in Nat /\ Total(A \cap B) \in Nat
  <2>1. A \ B \in SUBSET PayIds /\ B \ A \in SUBSET PayIds /\ A \cap B \in SUBSET PayIds
    BY <1>1
  <2> QED  BY <2>1, TotalIsNat
<1>6. Total(B) = Total(A) + Total(B \ A) - Total(A \ B)
  BY <1>4, <1>5
<1> QED  BY <1>2, <1>6 DEF A, B

\* A transaction for an invoice charges that invoice and no other.
LEMMA PostCharges ==
  ASSUME Sound, LedgerTyped, NEW c \in Customers, NEW ref \in Refs, NEW amount \in Int, NEW after,
         Post(c, ref, amount, after)
  PROVE  /\ LedgerTyped'
         /\ \A i \in Invoices : ChargedTo(i)' = IF i = ref THEN ChargedTo(i) + amount
                                                ELSE ChargedTo(i)
<1>1. /\ LedgerTyped'
      /\ ledger' = [ledger EXCEPT ![c] = [ledger[c] EXCEPT ![ref] = ledger[c][ref] + amount]]
  BY PostMoves
<1>2. ASSUME NEW i \in Invoices
      PROVE  ChargedTo(i)' = IF i = ref THEN ChargedTo(i) + amount ELSE ChargedTo(i)
  <2> DEFINE f == [d \in Customers |-> ledger[d][i]]
             g == [d \in Customers |-> ledger'[d][i]]
  <2>1. /\ \A d \in Customers : f[d] \in Int /\ g[d] \in Int
        /\ \A d \in Customers \ {c} : g[d] = f[d]
        /\ g[c] = IF i = ref THEN f[c] + amount ELSE f[c]
    BY <1>1 DEF LedgerTyped, Refs
  <2>2. ChargedTo(i) = SumFunctionOnSet(f, Customers) /\ ChargedTo(i)' = SumFunctionOnSet(g, Customers)
    BY DEF ChargedTo, SumFunction
  <2> HIDE DEF f, g
  <2>3. /\ SumFunctionOnSet(g, Customers) = SumFunctionOnSet(f, Customers) + g[c] - f[c]
        /\ SumFunctionOnSet(f, Customers) \in Int
    BY <2>1, WalletAssumption, SumUpdate, SumIsInt
  <2> QED  BY <2>1, <2>2, <2>3
<1> QED  BY <1>1, <1>2

\* What the wallet is charged turns what the stored invoice was worth into what the
\* new one is, and leaves every payment that adds something stamped.
LEMMA CommitSettles ==
  ASSUME Sound, Settled, NEW p \in Clients, SaveCommitWallet(p)
  PROVE  LET i == body[p].invoice IN
         /\ LedgerTyped'
         /\ \A j \in Invoices \ {i} : ChargedTo(j)' = ChargedTo(j)
         /\ ChargedTo(i)' = Worth(body'[p].doc) /\ AllStamped(body'[p].doc)
         /\ body'[p].invoice = i
<1> DEFINE i == body[p].invoice
           doc == body[p].doc
           P == IF old[p] = Null THEN {} ELSE old[p].payments
           Q == doc.payments
<1>1. /\ pc[p] = "save.wallet" /\ Covered(p)
      /\ body[p] \in [invoice : Invoices, doc : Doc] /\ doc.customer \in Customers
      /\ old[p] \in Doc \cup {Null} /\ body = [q \in Clients |-> body[q]]
  BY DEF SaveCommitWallet, Sound, Requested, Fits, Saving
<1>2. /\ old[p] = invoices[i] /\ doc.stamped = Stamped(old[p]) \cap Q
      /\ ChargedTo(i) = Worth(old[p]) /\ AllStamped(old[p])
  BY <1>1 DEF Settled, Underway
<1>3. Stamped(old[p]) = Adding(P)
  BY <1>2 DEF Stamped, AllStamped, Adding
<1>4. Credited(p) = Adding(Q) \ Adding(P) /\ Reversed(p) = Adding(P) \ Adding(Q)
  BY <1>2, <1>3 DEF Credited, Reversed, Adding
<1>5. P \in SUBSET PayIds /\ Q \in SUBSET PayIds /\ doc.used \in Nat /\ Used(old[p]) \in Nat
  BY <1>1, WalletAssumption DEF Doc, Used
<1>6. Total(Q) = Total(P) + Total(Credited(p)) - Total(Reversed(p))
  BY <1>4, <1>5, TotalsDiffer
<1>7. /\ Total(P) \in Nat /\ Total(Q) \in Nat
      /\ Total(Credited(p)) \in Nat /\ Total(Reversed(p)) \in Nat
  <2>1. Credited(p) \in SUBSET PayIds /\ Reversed(p) \in SUBSET PayIds
    BY <1>4, <1>5 DEF Adding
  <2> QED  BY <1>5, <2>1, TotalIsNat
<1>8. Worth(old[p]) = Total(P) - Used(old[p])
  BY SumEmpty DEF Worth, Used, Total
<1>9. Worth(old[p]) + Change(p) = Total(Q) - doc.used
  <2> HIDE DEF P, Q, doc
  <2> QED  BY <1>5, <1>6, <1>7, <1>8 DEF Change, UsedDiff, doc
<1>10. body'[p] = [body[p] EXCEPT !.doc.stamped = @ \cup Credited(p)]
  BY <1>1 DEF SaveCommitWallet
<1>11. /\ body'[p].invoice = i /\ body'[p].doc # Null
       /\ body'[p].doc.payments = Q /\ body'[p].doc.used = doc.used
       /\ body'[p].doc.stamped = doc.stamped \cup Credited(p)
  <2>1. Credited(p) \subseteq PayIds
    BY <1>4, <1>5 DEF Adding
  <2>2. body'[p] \in [invoice : Invoices, doc : Doc]
    BY <1>1, <1>10, <2>1 DEF Doc
  <2>3. body'[p].doc # Null
    BY <2>2, WalletAssumption
  <2>4. /\ body'[p].invoice = i /\ body'[p].doc.payments = Q /\ body'[p].doc.used = doc.used
        /\ body'[p].doc.stamped = doc.stamped \cup Credited(p)
    BY <1>1, <1>10 DEF Doc
  <2> QED  BY <2>3, <2>4
<1>12. AllStamped(body'[p].doc)
  BY <1>2, <1>3, <1>4, <1>11 DEF AllStamped, Adding
<1>13. Worth(body'[p].doc) = Worth(old[p]) + Change(p)
  BY <1>9, <1>11 DEF Worth
<1>14. i \in Refs /\ Post(doc.customer, i, Change(p), seen[p] + Change(p)) /\ Change(p) \in Int
  BY <1>1, CommitCovered DEF Refs, SaveCommitWallet
<1> HIDE DEF P, Q
<1>15. /\ LedgerTyped'
       /\ \A j \in Invoices : ChargedTo(j)' = IF j = i THEN ChargedTo(j) + Change(p)
                                              ELSE ChargedTo(j)
  BY <1>1, <1>14, PostCharges DEF Settled
<1> QED  BY <1>1, <1>2, <1>11, <1>12, <1>13, <1>15

\* A step of p leaves the saves of other clients alone: they are of other invoices.
LEMMA OthersUnderway ==
  ASSUME Separate, Sound, Settled, NEW p \in Clients, NEW i \in Edits[p],
         \A j \in Invoices \ {i} : invoices'[j] = invoices[j] /\ ChargedTo(j)' = ChargedTo(j),
         pc' = [pc EXCEPT ![p] = pc'[p]], body' = [body EXCEPT ![p] = body'[p]],
         old' = [old EXCEPT ![p] = old'[p]]
  PROVE  /\ \A q \in Clients \ {p} : Underway(q)'
         /\ \A j \in Invoices \ {i} : InFlight(j) => InFlight(j)' \/ (pc[p] \in Saving /\ body[p].invoice = j)
<1>1. Requested
  BY DEF Sound
<1>2. ASSUME NEW q \in Clients \ {p}
      PROVE  pc'[q] = pc[q] /\ body'[q] = body[q] /\ old'[q] = old[q]
  BY <1>1 DEF Requested
<1>3. ASSUME NEW q \in Clients \ {p}  PROVE Underway(q)'
  <2>1. CASE pc[q] \in Saving
    <3>1. body[q].invoice \in Invoices \ {i}
      BY <2>1, WalletAssumption DEF Settled, Underway, Separate, Sound, Requested, Fits
    <3> QED  BY <1>2, <3>1 DEF Settled, Underway
  <2>2. CASE pc[q] \notin Saving
    BY <1>2, <2>2 DEF Underway, Saving
  <2> QED  BY <2>1, <2>2
<1>4. ASSUME NEW j \in Invoices \ {i}, InFlight(j), ~ (pc[p] \in Saving /\ body[p].invoice = j)
      PROVE  InFlight(j)'
  <2>1. PICK q \in Clients : pc[q] \in Saving /\ body[q].invoice = j
    BY <1>4 DEF InFlight, Saving
  <2> QED  BY <1>2, <1>4, <2>1 DEF InFlight, Saving
<1> QED  BY <1>3, <1>4

\* The parts of Settled that a step of p on its invoice i has to show.
LEMMA SettledOwn ==
  ASSUME Separate, Sound, Settled, NEW p \in Clients, NEW i \in Edits[p],
         pc[p] \in Saving => body[p].invoice = i,
         \A j \in Invoices \ {i} : invoices'[j] = invoices[j] /\ ChargedTo(j)' = ChargedTo(j),
         pc' = [pc EXCEPT ![p] = pc'[p]], body' = [body EXCEPT ![p] = body'[p]],
         old' = [old EXCEPT ![p] = old'[p]],
         LedgerTyped', AllStamped(invoices'[i]), Underway(p)',
         InFlight(i)' \/ ChargedTo(i)' = Worth(invoices'[i])
  PROVE  Settled'
<1>1. \A j \in Invoices \ {i} : InFlight(j) => InFlight(j)'
  BY OthersUnderway
<1>2. i \in Invoices
  BY WalletAssumption
<1>3. \A j \in Invoices : AllStamped(invoices'[j])
  BY <1>2 DEF Settled
<1>4. ASSUME NEW j \in Invoices, invoices'[j] # Null, ~InFlight(j)'
      PROVE  ChargedTo(j)' = Total(invoices'[j].payments) - invoices'[j].used
  <2>1. CASE j = i
    BY <1>4, <2>1 DEF Worth
  <2>2. CASE j # i
    BY <1>1, <1>4, <2>2 DEF Settled, InvoiceSettled
  <2> QED  BY <2>1, <2>2
<1>5. InvoiceSettled'
  BY <1>4 DEF InvoiceSettled, Total
<1>6. \A q \in Clients : Underway(q)'
  BY OthersUnderway
<1> QED  BY <1>3, <1>5, <1>6 DEF Settled, AllStamped

LEMMA InitSettled == Init => Settled
BY DEF Init, Settled, LedgerTyped, InvoiceSettled, AllStamped, Underway, Saving

\* A charge by hand or to another invoice changes no invoice's account.
LEMMA NothingCharged ==
  ASSUME UNCHANGED ledger
  PROVE  \A j \in Invoices : ChargedTo(j)' = ChargedTo(j)
BY DEF ChargedTo

\* Steps of clients that are not saving and leave the invoices alone.
LEMMA Unrelated ==
  ASSUME Sound, Settled, NEW p \in Clients, pc[p] \notin Saving, pc'[p] \notin Saving,
         UNCHANGED invoices, LedgerTyped', \A j \in Invoices : ChargedTo(j)' = ChargedTo(j),
         pc' = [pc EXCEPT ![p] = pc'[p]], body' = [body EXCEPT ![p] = body'[p]],
         old' = [old EXCEPT ![p] = old'[p]]
  PROVE  Settled'
<1>1. \A q \in Clients \ {p} : pc'[q] = pc[q] /\ body'[q] = body[q] /\ old'[q] = old[q]
  BY DEF Sound, Requested
<1>2. \A q \in Clients : Underway(q)'
  <2>1. ASSUME NEW q \in Clients \ {p}  PROVE Underway(q)'
    <3>1. pc[q] \in Saving => body[q].invoice \in Invoices
      BY DEF Sound, Requested, Fits
    <3> QED  BY <1>1, <3>1 DEF Settled, Underway, Saving
  <2>2. Underway(p)'
    BY DEF Underway, Saving
  <2> QED  BY <2>1, <2>2
<1>3. \A j \in Invoices : InFlight(j) => InFlight(j)'
  BY <1>1 DEF InFlight, Saving
<1>4. InvoiceSettled'
  BY <1>3 DEF Settled, InvoiceSettled, Total
<1> QED  BY <1>2, <1>4 DEF Settled, AllStamped

LEMMA SaveSettles ==
  ASSUME Separate, Sound, Settled, NEW p \in Clients, SaveStep(p)
  PROVE  Settled'
<1>0. Requested /\ Fits(p) /\ Underway(p) /\ Edits[p] \subseteq Invoices
  BY WalletAssumption DEF Sound, Requested, Settled
<1>a. pc[p] \in Saving => body[p].invoice \in Edits[p]
  BY <1>0 DEF Underway
<1>b. ASSUME Done(p)
      PROVE  /\ pc' = [pc EXCEPT ![p] = pc'[p]] /\ body' = [body EXCEPT ![p] = body'[p]]
             /\ old' = [old EXCEPT ![p] = old'[p]] /\ pc'[p] = "idle" /\ Underway(p)'
  BY <1>0, <1>b DEF Done, Requested, Underway, Saving
<1>1. ASSUME NEW i \in Edits[p], NEW doc, doc \in Doc, SaveRead(p, i, doc),
             doc.customer # Null, doc.stamped = Stamped(invoices[i]) \cap doc.payments
      PROVE  Settled'
  <2>1. /\ pc' = [pc EXCEPT ![p] = "save.customer"]
        /\ body' = [body EXCEPT ![p] = [invoice |-> i, doc |-> doc]]
        /\ old' = [old EXCEPT ![p] = invoices[i]]
        /\ UNCHANGED <<ledger, invoices>> /\ pc[p] = "idle" /\ Savable(i)
    BY <1>1 DEF SaveRead, Goto, rows, Idle
  <2>2. /\ pc'[p] = "save.customer" /\ old'[p] = invoices[i]
        /\ body'[p].invoice = i /\ body'[p].doc = doc
    BY <1>0, <2>1 DEF Requested
  <2>3. ~InFlight(i)
    <3> SUFFICES ASSUME NEW q \in Clients, pc[q] \in Saving, body[q].invoice = i  PROVE FALSE
      BY DEF InFlight, Saving
    <3>1. q # p /\ i \in Edits[q]
      BY <2>1 DEF Saving, Settled, Underway
    <3> QED  BY <3>1 DEF Separate
  <2>4. ChargedTo(i) = Worth(invoices[i])
    <3>1. CASE invoices[i] # Null
      BY <1>0, <2>3, <3>1 DEF Settled, InvoiceSettled, Worth
    <3>2. CASE invoices[i] = Null
      <4> DEFINE f == [c \in Customers |-> ledger[c][i]]
      <4>1. \A c \in Customers : f[c] = 0
        BY <2>1, <3>2 DEF Savable
      <4>2. ChargedTo(i) = SumFunctionOnSet(f, Customers)
        BY DEF ChargedTo, SumFunction
      <4> HIDE DEF f
      <4> QED  BY <3>2, <4>1, <4>2, WalletAssumption, SumOfZeros DEF Worth
    <3> QED  BY <3>1, <3>2
  <2>5. \A j \in Invoices : ChargedTo(j)' = ChargedTo(j)
    BY <2>1, NothingCharged
  <2>6. Underway(p)'
    BY <1>0, <1>1, <2>1, <2>2, <2>4, <2>5 DEF Underway, Saving
  <2>7. InFlight(i)'
    BY <2>2 DEF InFlight
  <2>8. LedgerTyped' /\ AllStamped(invoices'[i]) /\ pc[p] \notin Saving
    BY <1>0, <2>1 DEF Settled, LedgerTyped, Saving
  <2> QED  BY <1>0, <2>1, <2>2, <2>5, <2>6, <2>7, <2>8, SettledOwn
<1>2. CASE SaveReadCustomer(p)
  <2>0. PICK i \in Edits[p] : i = body[p].invoice
    BY <1>a, <1>2 DEF SaveReadCustomer, Saving
  <2>1. /\ pc' = [pc EXCEPT ![p] = "save.wallet"] /\ UNCHANGED <<body, old, ledger, invoices>>
        /\ pc[p] = "save.customer"
    BY <1>2 DEF SaveReadCustomer, Goto, rows
  <2>2. pc'[p] = "save.wallet" /\ body' = [body EXCEPT ![p] = body'[p]]
        /\ old' = [old EXCEPT ![p] = old'[p]]
    BY <1>0, <2>1 DEF Requested
  <2>3. \A j \in Invoices : ChargedTo(j)' = ChargedTo(j)
    BY <2>1, NothingCharged
  <2>4. i \in Edits[p] /\ Underway(p)' /\ InFlight(i)'
    BY <1>0, <2>0, <2>1, <2>2, <2>3, WalletAssumption DEF Underway, Saving, InFlight
  <2>5. LedgerTyped' /\ AllStamped(invoices'[i])
    BY <1>0, <2>1, <2>4 DEF Settled, LedgerTyped
  <2> QED  BY <1>0, <2>0, <2>1, <2>2, <2>3, <2>4, <2>5, SettledOwn
<1>3. CASE SaveCommitWallet(p)
  <2>0. PICK i \in Edits[p] : i = body[p].invoice
    BY <1>a, <1>3 DEF SaveCommitWallet, Saving
  <2>1. /\ pc' = [pc EXCEPT ![p] = "save.row"] /\ UNCHANGED <<old, invoices>>
        /\ pc[p] = "save.wallet" /\ body' = [body EXCEPT ![p] = body'[p]]
        /\ old' = [old EXCEPT ![p] = old'[p]] /\ pc'[p] = "save.row"
    BY <1>0, <1>3 DEF SaveCommitWallet, Goto, Requested
  <2>2. /\ LedgerTyped'
        /\ \A j \in Invoices \ {i} : ChargedTo(j)' = ChargedTo(j)
        /\ ChargedTo(i)' = Worth(body'[p].doc) /\ AllStamped(body'[p].doc)
        /\ body'[p].invoice = i
    BY <1>3, <2>0, CommitSettles
  <2>3. Underway(p)' /\ InFlight(i)'
    BY <2>1, <2>2 DEF Underway, Saving, InFlight
  <2>4. AllStamped(invoices'[i])
    BY <1>0, <2>1 DEF Settled
  <2> QED  BY <2>0, <2>1, <2>2, <2>3, <2>4, SettledOwn
<1>4. CASE SaveRejected(p)
  <2>0. PICK i \in Edits[p] : i = body[p].invoice
    BY <1>a, <1>4 DEF SaveRejected, Saving
  <2>1. Done(p) /\ pc[p] = "save.wallet" /\ UNCHANGED <<ledger, invoices>>
    BY <1>4 DEF SaveRejected, rows
  <2>2. ChargedTo(i) = Worth(invoices[i])
    BY <1>0, <2>0, <2>1 DEF Underway, Saving
  <2>3. \A j \in Invoices : ChargedTo(j)' = ChargedTo(j)
    BY <2>1, NothingCharged
  <2>4. LedgerTyped' /\ AllStamped(invoices'[i])
    BY <1>0, <2>1, <2>2 DEF Settled, LedgerTyped
  <2>5. ChargedTo(i)' = Worth(invoices'[i])
    BY <1>0, <2>1, <2>2, <2>3
  <2> QED  BY <1>b, <2>0, <2>1, <2>2, <2>3, <2>4, <2>5, SettledOwn
<1>5. CASE SaveWriteRow(p)
  <2>0. PICK i \in Edits[p] : i = body[p].invoice
    BY <1>a, <1>5 DEF SaveWriteRow, Saving
  <2>1. /\ Done(p) /\ pc[p] = "save.row" /\ UNCHANGED ledger
        /\ invoices' = [invoices EXCEPT ![i] = body[p].doc]
    BY <1>5, <2>0 DEF SaveWriteRow
  <2>2. ChargedTo(i) = Worth(body[p].doc) /\ AllStamped(body[p].doc)
    BY <1>0, <2>0, <2>1 DEF Underway, Saving
  <2>3. \A j \in Invoices : ChargedTo(j)' = ChargedTo(j)
    BY <2>1, NothingCharged
  <2>4. invoices'[i] = body[p].doc /\ \A j \in Invoices \ {i} : invoices'[j] = invoices[j]
    BY <1>0, <2>1, <2>2 DEF Sound, RowsTyped
  <2>5. LedgerTyped'
    BY <2>1 DEF Settled, LedgerTyped
  <2>6. ChargedTo(i)' = Worth(invoices'[i]) /\ AllStamped(invoices'[i])
    BY <1>0, <2>2, <2>3, <2>4
  <2> QED  BY <1>b, <2>0, <2>1, <2>2, <2>3, <2>4, <2>5, <2>6, SettledOwn
<1>6. ASSUME NEW i \in Edits[p], NEW c \in Payers, NEW used \in Uses,
             NEW payments \in SUBSET PayIds, NEW resend \in Resends,
             SaveRead(p, i, [customer |-> c, used |-> used, payments |-> payments,
                             stamped |-> StampsSent(i, payments, resend)])
      PROVE  Settled'
  <2> DEFINE stamped == StampsSent(i, payments, resend)
             doc == [customer |-> c, used |-> used, payments |-> payments, stamped |-> stamped]
  <2>1. resend = FALSE
    BY WalletAssumption DEF Separate
  <2>2. stamped = Stamped(invoices[i]) \cap payments
    BY <2>1 DEF StampsSent
  <2>3. c \in Customers /\ c # Null /\ used \in Nat
    BY WalletAssumption DEF Separate
  <2> HIDE DEF stamped
  <2>4. doc \in Doc /\ doc.customer # Null /\ doc.stamped = Stamped(invoices[i]) \cap doc.payments
    BY <2>2, <2>3 DEF Doc
  <2>5. SaveRead(p, i, doc)
    BY <1>6 DEF stamped
  <2> HIDE DEF doc
  <2> QED  BY <1>1, <2>4, <2>5
<1> QED  BY <1>1, <1>2, <1>3, <1>4, <1>5, <1>6 DEF SaveStep

LEMMA SettledStep ==
  ASSUME Separate, Sound, Settled, [Next]_vars
  PROVE  Settled'
<1>1. CASE UNCHANGED vars
  BY <1>1 DEF vars, Settled, LedgerTyped, InvoiceSettled, ChargedTo, InFlight, AllStamped, Underway
<1>2. ASSUME NEW p \in Clients, NEW i \in Edits[p], Delete(p, i)  PROVE Settled'
  <2>1. /\ invoices' = [invoices EXCEPT ![i] = Null] /\ UNCHANGED <<ledger, mine>>
        /\ pc[p] \notin Saving /\ i \in Invoices
    BY <1>2, WalletAssumption DEF Delete, Idle, Saving
  <2>2. invoices'[i] = Null /\ \A j \in Invoices \ {i} : invoices'[j] = invoices[j]
    BY <2>1 DEF Sound, RowsTyped
  <2>3. \A j \in Invoices : ChargedTo(j)' = ChargedTo(j)
    BY <2>1, NothingCharged
  <2>4. \A q \in Clients : Underway(q)'
    <3> SUFFICES ASSUME NEW q \in Clients  PROVE Underway(q)'
      OBVIOUS
    <3>1. pc[q] \in Saving => body[q].invoice \in Invoices \ {i}
      BY <2>1, WalletAssumption DEF Settled, Underway, Separate
    <3> QED  BY <2>1, <2>2, <2>3, <3>1 DEF Settled, Underway, Saving, mine
  <2>5. InvoiceSettled'
    BY <2>1, <2>2, <2>3 DEF Settled, InvoiceSettled, InFlight, Total, mine
  <2> QED  BY <2>1, <2>2, <2>4, <2>5 DEF Settled, LedgerTyped, AllStamped
<1>3. ASSUME NEW p \in Clients, AdjustStep(p)  PROVE Settled'
  <2>0. Requested /\ Fits(p)
    BY DEF Sound, Requested
  <2>1. ASSUME NEW c, NEW a, AdjustRead(p, c, a)  PROVE Settled'
    <3>1. /\ pc' = [pc EXCEPT ![p] = pc'[p]] /\ body' = [body EXCEPT ![p] = body'[p]]
          /\ old' = [old EXCEPT ![p] = old'[p]] /\ pc[p] = "idle" /\ pc'[p] = "adjust.commit"
          /\ UNCHANGED <<ledger, invoices>>
      BY <2>0, <2>1 DEF AdjustRead, Goto, Requested, rows, Idle
    <3> QED  BY <3>1, NothingCharged, Unrelated DEF Saving, Settled, LedgerTyped
  <2>2. CASE AdjustCommit(p)
    <3>1. /\ pc' = [pc EXCEPT ![p] = pc'[p]] /\ body' = [body EXCEPT ![p] = body'[p]]
          /\ old' = [old EXCEPT ![p] = old'[p]] /\ pc[p] = "adjust.commit" /\ pc'[p] = "idle"
          /\ UNCHANGED invoices
      BY <2>0, <2>2 DEF AdjustCommit, Done, Requested
    <3>2. /\ body[p].customer \in Customers /\ body[p].amount \in Int /\ Manual \in Refs
          /\ Post(body[p].customer, Manual, body[p].amount, seen[p] + body[p].amount)
      BY <2>0, <2>2 DEF AdjustCommit, Fits, Refs
    <3>3. LedgerTyped' /\ \A j \in Invoices : ChargedTo(j)' = ChargedTo(j)
      BY <3>2, PostCharges, WalletAssumption DEF Settled
    <3> QED  BY <3>1, <3>3, Unrelated DEF Saving
  <2>3. CASE AdjustRejected(p)
    <3>1. /\ pc' = [pc EXCEPT ![p] = pc'[p]] /\ body' = [body EXCEPT ![p] = body'[p]]
          /\ old' = [old EXCEPT ![p] = old'[p]] /\ pc[p] = "adjust.commit" /\ pc'[p] = "idle"
          /\ UNCHANGED <<ledger, invoices>>
      BY <2>0, <2>3 DEF AdjustRejected, Done, Requested, rows
    <3> QED  BY <3>1, NothingCharged, Unrelated DEF Saving, Settled, LedgerTyped
  <2>4. ASSUME NEW c, NEW amount, Overwrite(p, c, amount)  PROVE Settled'
    <3>1. UNCHANGED <<ledger, invoices, mine>>
      BY <2>4 DEF Overwrite
    <3> QED  BY <3>1 DEF mine, Settled, LedgerTyped, InvoiceSettled, ChargedTo, InFlight,
                         AllStamped, Underway
  <2> QED  BY <1>3, <2>1, <2>2, <2>3, <2>4 DEF AdjustStep
<1>4. ASSUME NEW p \in Clients, CutOff(p)  PROVE Settled'
  <2>0. Requested /\ Fits(p) /\ Underway(p)
    BY DEF Sound, Requested, Settled
  <2>1. /\ pc' = [pc EXCEPT ![p] = pc'[p]] /\ body' = [body EXCEPT ![p] = body'[p]]
        /\ old' = [old EXCEPT ![p] = old'[p]] /\ pc'[p] = "idle"
        /\ UNCHANGED <<ledger, invoices>> /\ pc[p] # "save.row"
    BY <1>4, <2>0 DEF CutOff, Done, Requested, rows, Separate
  <2>2. CASE pc[p] \notin Saving
    BY <2>1, <2>2, NothingCharged, Unrelated DEF Saving, Settled, LedgerTyped
  <2>3. CASE pc[p] \in Saving
    <3>0. PICK i \in Edits[p] : i = body[p].invoice
      BY <2>0, <2>3 DEF Underway
    <3>1. ChargedTo(i) = Worth(invoices[i]) /\ i \in Invoices
      BY <2>0, <2>1, <2>3, <3>0, WalletAssumption DEF Underway, Saving
    <3>2. \A j \in Invoices : ChargedTo(j)' = ChargedTo(j)
      BY <2>1, NothingCharged
    <3>3. /\ LedgerTyped' /\ AllStamped(invoices'[i]) /\ ChargedTo(i)' = Worth(invoices'[i])
          /\ Underway(p)'
      BY <2>1, <3>1, <3>2 DEF Settled, LedgerTyped, Underway, Saving
    <3> QED  BY <2>1, <3>0, <3>1, <3>2, <3>3, SettledOwn
  <2> QED  BY <2>2, <2>3
<1> QED  BY <1>1, <1>2, <1>3, <1>4, SaveSettles DEF Next, Separate

\* However the saves, adjustments and overwrites of different clients interleave, and
\* cut off before the row is written, an invoice that is stored moved the wallets by
\* its extra payments, each once, less what it uses (handleInvoiceWalletSync).
THEOREM InvoicesSettle == ASSUME Separate PROVE Spec => []InvoiceSettled
<1>1. Settled => InvoiceSettled
  BY DEF Settled
<1>2. Sound /\ Settled /\ [Next]_vars => Settled'
  BY SettledStep
<1> QED  BY <1>1, <1>2, InitSettled, InitSound, StepSound, PTL DEF Spec
=============================================================================
