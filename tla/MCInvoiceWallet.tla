--------------------------- MODULE MCInvoiceWallet ---------------------------
(* Small values of the constants of InvoiceWallet for model checking. *)
EXTENDS InvoiceWallet, TLC

\* Every client works on every invoice.
SharedInvoices == [p \in Clients |-> Invoices]

\* Each client works on an invoice of its own.
OwnInvoice == CHOOSE f \in [Clients -> {{i} : i \in Invoices}] :
                \A p, q \in Clients : f[p] = f[q] => p = q

OneEach == [x \in PayIds |-> 1]

AnyStep     == {"save.customer", "save.wallet", "save.row", "adjust.commit"}
BeforeSaved == {"save.customer", "save.wallet", "adjust.commit"}

NamedCustomers == Customers
AnyCustomer    == Customers \cup {Null}

CustomerSymmetry == Permutations(Customers)
=============================================================================
