---------------------------- MODULE InvoiceWallet ----------------------------
(***************************************************************************)
(* Customer wallets and the invoices that charge and credit them           *)
(* (wallet-sync.service.ts, invoices.service.ts, adjustWallet).  Saving an *)
(* invoice reads the stored row, then changes the wallet in a transaction, *)
(* then writes the row: three steps that other requests interleave with.   *)
(* Inside the transaction the customer row is read without a lock at READ  *)
(* COMMITTED, and everything it writes becomes visible at its commit, so   *)
(* the transaction is two steps, the read and the commit.                  *)
(*                                                                         *)
(* Amounts are whole numbers of the currency's smallest unit, for which    *)
(* the code's rounding to two decimals is exact.  The walletTransactions   *)
(* rows are kept as their signed sum per customer and invoice, and an      *)
(* amount of a payment is fixed by its id.  The GST and referral guards,   *)
(* which only reject a request or rewrite tax fields, are left out.        *)
(***************************************************************************)
EXTENDS Integers, FiniteSets, Functions

CONSTANTS
  Clients,       \* concurrent requests
  Syncers,       \* the clients that may send a snapshot of all invoices
  Customers,
  Invoices,      \* invoice ids
  Edits,         \* the invoices each client saves and deletes
  PayIds,        \* ids of the payments of an invoice
  Extra,         \* what a payment adds to the wallet; 0 without addExtraToWallet
  Payers,        \* customers an invoice may name, Null included or not
  Uses,          \* values of walletAmountUsed
  Adjustments,   \* amounts of manual credits and debits
  Overwrites,    \* balances that saving a customer may set
  Resends,       \* whether a save may repeat a body sent before it was stamped
  CutOffAt,      \* the steps at which a request may be cut off
  Opening,       \* wallet balance each customer starts with
  MaxLedger,     \* bound: magnitude of a sum of wallet transactions
  MaxBalance,    \* bound: wallet balance
  Manual,        \* the reference of transactions made by hand
  Null

Doc == [customer : Customers \cup {Null}, used : Nat,
        payments : SUBSET PayIds, stamped : SUBSET PayIds]

Refs == Invoices \cup {Manual}

ASSUME WalletAssumption ==
  /\ Syncers \subseteq Clients
  /\ Edits \in [Clients -> SUBSET Invoices]
  /\ Extra \in [PayIds -> Nat]
  /\ Payers \subseteq Customers \cup {Null}
  /\ Uses \subseteq Nat
  /\ Adjustments \subseteq Nat \ {0}
  /\ Overwrites \subseteq Nat
  /\ Resends \subseteq BOOLEAN
  /\ Opening \in Nat
  /\ MaxLedger \in Nat
  /\ MaxBalance \in Nat
  /\ Manual \notin Invoices
  /\ Null \notin Customers \cup Doc
  /\ IsFiniteSet(PayIds) /\ IsFiniteSet(Customers) /\ IsFiniteSet(Invoices)

VARIABLES
  balance,   \* Customer.walletBalance
  ledger,    \* sum of the walletTransactions rows, per customer and reference
  invoices,  \* the invoice rows; Null where there is none
  pc,        \* per client: the call its request is about to make
  body,      \* per client: what it sent
  old,       \* per client: the invoice row the wallet sync read
  seen       \* per client: the balance its transaction read

rows == <<balance, ledger, invoices>>
mine == <<pc, body, old, seen>>
vars == <<balance, ledger, invoices, pc, body, old, seen>>

-----------------------------------------------------------------------------
Total(payments) == SumFunctionOnSet(Extra, payments)

Used(doc)     == IF doc = Null THEN 0 ELSE doc.used
Stamped(doc)  == IF doc = Null THEN {} ELSE doc.stamped

\* Payments that are credited, and stamped: those without a stamp.
Credited(p) == {x \in body[p].doc.payments \ body[p].doc.stamped : Extra[x] > 0}

\* Mutant: a removed payment keeps its credit.
Reversed_None(p) == {}

\* Stored payments whose credit is taken back: stamped, and no longer in the body.
Reversed(p) == {x \in Stamped(old[p]) \ body[p].doc.payments : Extra[x] > 0}

UsedDiff(p) == body[p].doc.used - Used(old[p])

\* What the save adds to the wallet.
Change(p) == Total(Credited(p)) - UsedDiff(p) - Total(Reversed(p))

\* Mutant: the wallet may go below zero when a credit is taken back.
Covered_UseOnly(p) == UsedDiff(p) <= 0 \/ seen[p] >= UsedDiff(p)

\* The two tests of handleInvoiceWalletSync, each on the balance reached so far.
Covered(p) ==
  /\ UsedDiff(p) <= 0 \/ seen[p] >= UsedDiff(p)
  /\ seen[p] - UsedDiff(p) + Total(Credited(p)) >= Total(Reversed(p))

\* The committed transaction: the new balance, and the rows that record the change.
Post(c, ref, amount, after) ==
  /\ after <= MaxBalance
  /\ ledger[c][ref] + amount \in -MaxLedger .. MaxLedger
  /\ balance' = [balance EXCEPT ![c] = after]
  /\ ledger' = [ledger EXCEPT ![c][ref] = @ + amount]

-----------------------------------------------------------------------------
Idle(p) == pc[p] = "idle"

Goto(p, s) == pc' = [pc EXCEPT ![p] = s]

\* The response is sent, or an error is thrown.
Done(p) ==
  /\ pc'   = [pc EXCEPT ![p] = "idle"]
  /\ body' = [body EXCEPT ![p] = Null]
  /\ old'  = [old EXCEPT ![p] = Null]
  /\ seen' = [seen EXCEPT ![p] = 0]

Init ==
  /\ balance  = [c \in Customers |-> Opening]
  /\ ledger   = [c \in Customers |-> [r \in Refs |-> 0]]
  /\ invoices = [i \in Invoices |-> Null]
  /\ pc   = [p \in Clients |-> "idle"]
  /\ body = [p \in Clients |-> Null]
  /\ old  = [p \in Clients |-> Null]
  /\ seen = [p \in Clients |-> 0]

-----------------------------------------------------------------------------
(* PUT /api/invoices/:id *)

\* An id is not used again once it is in the ledger.
Savable(i) == invoices[i] # Null \/ \A c \in Customers : ledger[c][i] = 0

\* Stamps are in the body when the client read them back, and not when it repeats
\* what it sent before: the response to a save does not carry them.
StampsSent(i, payments, resend) ==
  IF resend THEN {} ELSE Stamped(invoices[i]) \cap payments

\* The old row is read outside the transaction.  Without a customer the wallet is
\* left alone.
SaveRead(p, i, doc) ==
  /\ Idle(p)
  /\ Savable(i)
  /\ body' = [body EXCEPT ![p] = [invoice |-> i, doc |-> doc]]
  /\ old' = [old EXCEPT ![p] = invoices[i]]
  /\ Goto(p, IF doc.customer = Null THEN "save.row" ELSE "save.customer")
  /\ UNCHANGED <<rows, seen>>

SaveReadCustomer(p) ==
  /\ pc[p] = "save.customer"
  /\ seen' = [seen EXCEPT ![p] = balance[body[p].doc.customer]]
  /\ Goto(p, "save.wallet")
  /\ UNCHANGED <<rows, body, old>>

\* The balance is written as a value, also when nothing about the wallet changed.
SaveCommitWallet(p) ==
  LET c == body[p].doc.customer
  IN  /\ pc[p] = "save.wallet"
      /\ Covered(p)
      /\ Post(c, body[p].invoice, Change(p), seen[p] + Change(p))
      /\ body' = [body EXCEPT ![p].doc.stamped = @ \cup Credited(p)]
      /\ Goto(p, "save.row")
      /\ UNCHANGED <<invoices, old, seen>>

\* Insufficient balance: the transaction is rolled back and the request fails.
SaveRejected(p) ==
  /\ pc[p] = "save.wallet"
  /\ ~Covered(p)
  /\ Done(p)
  /\ UNCHANGED rows

SaveWriteRow(p) ==
  /\ pc[p] = "save.row"
  /\ invoices' = [invoices EXCEPT ![body[p].invoice] = body[p].doc]
  /\ Done(p)
  /\ UNCHANGED <<balance, ledger>>

-----------------------------------------------------------------------------
(* DELETE /api/invoices/:id and POST /api/invoices/snapshot: neither touches a wallet. *)

Delete(p, i) ==
  /\ Idle(p)
  /\ invoices' = [invoices EXCEPT ![i] = Null]
  /\ UNCHANGED <<balance, ledger, mine>>

\* The snapshot takes the place of every invoice of the workshop, one that is empty too.
Replace(p, items) ==
  /\ Idle(p)
  /\ invoices' = items
  /\ UNCHANGED <<balance, ledger, mine>>

-----------------------------------------------------------------------------
(* PATCH /api/customers/:id/wallet and PUT /api/customers/:id *)

AdjustRead(p, c, amount) ==
  /\ Idle(p)
  /\ body' = [body EXCEPT ![p] = [customer |-> c, amount |-> amount]]
  /\ seen' = [seen EXCEPT ![p] = balance[c]]
  /\ Goto(p, "adjust.commit")
  /\ UNCHANGED <<rows, old>>

\* Mutant: a debit is not recorded.
AdjustCommit_DebitUnrecorded(p) ==
  /\ pc[p] = "adjust.commit"
  /\ seen[p] + body[p].amount >= 0
  /\ Post(body[p].customer, Manual, IF body[p].amount < 0 THEN 0 ELSE body[p].amount,
          seen[p] + body[p].amount)
  /\ Done(p)
  /\ UNCHANGED invoices

\* A debit is a negative amount.
AdjustCommit(p) ==
  /\ pc[p] = "adjust.commit"
  /\ seen[p] + body[p].amount >= 0
  /\ Post(body[p].customer, Manual, body[p].amount, seen[p] + body[p].amount)
  /\ Done(p)
  /\ UNCHANGED invoices

AdjustRejected(p) ==
  /\ pc[p] = "adjust.commit"
  /\ seen[p] + body[p].amount < 0
  /\ Done(p)
  /\ UNCHANGED rows

\* Saving the customer may set the balance; no transaction is recorded.
Overwrite(p, c, amount) ==
  /\ Idle(p)
  /\ balance' = [balance EXCEPT ![c] = amount]
  /\ UNCHANGED <<ledger, invoices, mine>>

-----------------------------------------------------------------------------
\* The process restarts, or the next call fails.
CutOff(p) ==
  /\ pc[p] \in CutOffAt
  /\ Done(p)
  /\ UNCHANGED rows

SaveStep(p) ==
  \/ \E i \in Edits[p], c \in Payers, used \in Uses, payments \in SUBSET PayIds,
        resend \in Resends :
       SaveRead(p, i, [customer |-> c, used |-> used, payments |-> payments,
                       stamped |-> StampsSent(i, payments, resend)])
  \/ SaveReadCustomer(p)
  \/ SaveCommitWallet(p)
  \/ SaveRejected(p)
  \/ SaveWriteRow(p)

AdjustStep(p) ==
  \/ \E c \in Customers, a \in Adjustments : AdjustRead(p, c, a) \/ AdjustRead(p, c, -a)
  \/ AdjustCommit(p)
  \/ AdjustRejected(p)
  \/ \E c \in Customers, amount \in Overwrites : Overwrite(p, c, amount)

\* A snapshot drops some invoices, and may hold an older or newer one.
SyncStep(p) ==
  \E kept \in SUBSET Invoices, i \in Invoices, used \in Uses :
     LET whole == [j \in Invoices |-> IF j \in kept THEN invoices[j] ELSE Null]
     IN  \/ Replace(p, whole)
         \/ whole[i] # Null /\ Replace(p, [whole EXCEPT ![i].used = used])

Next ==
  \E p \in Clients :
    \/ SaveStep(p)
    \/ \E i \in Edits[p] : Delete(p, i)
    \/ AdjustStep(p)
    \/ p \in Syncers /\ SyncStep(p)
    \/ CutOff(p)

Spec == Init /\ [][Next]_vars

-----------------------------------------------------------------------------
(* Properties *)

Steps == {"idle", "save.customer", "save.wallet", "save.row", "adjust.commit"}

Bodies == [invoice : Invoices, doc : Doc] \cup [customer : Customers, amount : Int]

\* Rows and the requests' copies keep their types; a stamp is always on one of the
\* invoice's own payments.
TypeOK ==
  /\ balance \in [Customers -> Int]
  /\ ledger \in [Customers -> [Refs -> Int]]
  /\ invoices \in [Invoices -> Doc \cup {Null}]
  /\ \A i \in Invoices : invoices[i] # Null => invoices[i].stamped \subseteq invoices[i].payments
  /\ pc \in [Clients -> Steps]
  /\ body \in [Clients -> Bodies \cup {Null}]
  /\ old \in [Clients -> Doc \cup {Null}]
  /\ seen \in [Clients -> Int]

\* No interleaving of saves, adjustments and overwrites takes a wallet below zero,
\* although each tests a balance that may be out of date when it commits.
WalletNotNegative == \A c \in Customers : balance[c] >= 0

\* A wallet holds what it started with plus its transactions, as the transaction of
\* handleInvoiceWalletSync ("strict consistency") is there to ensure.
BalanceIsLedgerSum ==
  \A c \in Customers : balance[c] = Opening + SumFunction(ledger[c])

InFlight(i) ==
  \E p \in Clients : pc[p] \in {"save.customer", "save.wallet", "save.row"} /\ body[p].invoice = i

\* The sum of an invoice's transactions over all customers.
ChargedTo(i) == SumFunction([c \in Customers |-> ledger[c][i]])

\* Once its saves are over, a stored invoice has moved the wallets by exactly the
\* extra payments it holds, each credited once however often the invoice is saved
\* ("Stamp the payment so we don't process it again"), less the amount it uses.
InvoiceSettled ==
  \A i \in Invoices :
    invoices[i] # Null /\ ~InFlight(i) =>
      ChargedTo(i) = Total(invoices[i].payments) - invoices[i].used
=============================================================================
