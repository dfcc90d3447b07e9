------------------------------ MODULE JobCards ------------------------------
(***************************************************************************)
(* Job cards, quotations and the guards on invoices (job-cards.service.ts, *)
(* quotation-convert.service.ts, invoices.service.ts, gst-settings.ts).    *)
(* A save reads the stored row, queries what the guards need and then      *)
(* writes, each an awaited call of its own; nothing is locked in between.  *)
(*                                                                         *)
(* A job card's protected pricing inputs are one value, its price.  Of an  *)
(* invoice only what the guards look at is kept; its wallet is the module  *)
(* InvoiceWallet's, how a document is stored the module AppJsonStore's.    *)
(***************************************************************************)
EXTENDS Requests

CONSTANTS
  Cards, Quotes, Invoices, Customers,   \* ids
  Prices,        \* a job card's protected pricing inputs
  CardBodies,    \* the job cards clients send
  InvoiceBodies, \* the invoices clients send
  MaySnapshot    \* whether clients send whole collections

Card    == [price : Prices, open : BOOLEAN, customer : Customers]
Invoice == [card : Cards \cup {Null}, customer : Customers,
            tax : BOOLEAN, referral : BOOLEAN]

ASSUME BodiesAssumption == InvoiceBodies \subseteq Invoice

VARIABLES
  cards,       \* the jobCards rows; Null where there is none
  quotes,      \* the quotation rows: the job card converted to, Null, or "none"
  invoices,    \* the invoices rows
  registered,  \* whether the appSettings row says GST registered
  cached,      \* gstStatusCache: a status, or Null
  newcomers,   \* customers whose own row makes them new (created, visits)
  standing     \* ghost, per client: the invoices unchanged since it asked

deskVars == <<cards, quotes, invoices, registered, cached, newcomers, standing>>

DeskInit ==
  /\ cards \in [Cards -> CardBodies \cup {Null}]
  /\ quotes = [q \in Quotes |-> Null]
  /\ invoices = [i \in Invoices |-> Null]
  /\ registered = TRUE   \* also without a settings row
  /\ cached = Null
  /\ newcomers = Customers
  /\ standing = [c \in Clients |-> {}]

Rows(f) == {x \in DOMAIN f : f[x] # Null}

\* An invoice that goes on naming its job card and its customer.
Lasts(i) ==
  /\ invoices'[i] # Null
  /\ invoices'[i].card = invoices[i].card
  /\ invoices'[i].customer = invoices[i].customer

StillStanding ==
  standing' = [c \in Clients |->
    IF pc'[c] = "idle" THEN {}
    ELSE {i \in IF pc[c] = "idle" THEN Rows(invoices) ELSE standing[c] : Lasts(i)}]

-----------------------------------------------------------------------------
(* Job cards: putJobCard, postJobCardsSnapshot, deleteJobCardRow.  A        *)
(* snapshot checks its items one after the other and replaces all rows.     *)

SendCard(c) ==
  \E id \in Cards, doc \in CardBodies, may \in BOOLEAN :
    Arrive(c, "card.read",
           [docs |-> [k \in {id} |-> doc], may |-> may, whole |-> FALSE])

SendCards(c) ==
  /\ MaySnapshot
  /\ \E docs \in UNION {[S -> CardBodies] : S \in SUBSET Cards}, may \in BOOLEAN :
       Arrive(c, "card.read", [docs |-> docs, may |-> may, whole |-> TRUE])

\* getCollectionItem, or listCollectionItems for a snapshot.
CardRead(c) ==
  /\ pc[c] = "card.read"
  /\ Goto(c, "card.check",
          [docs |-> req[c].docs, may |-> req[c].may, whole |-> req[c].whole,
           seen |-> cards, todo |-> DOMAIN req[c].docs])

HasInvoice(id) == \E i \in Rows(invoices) : invoices[i].card = id

PricingDelta(c, id) == req[c].seen[id].price # req[c].docs[id].price

\* Mutant: an invoice does not lock the prices.
PricingAllowed_Invoiced(c, id) ==
  \/ req[c].seen[id] = Null
  \/ ~ PricingDelta(c, id)
  \/ req[c].may /\ req[c].seen[id].open

\* evaluateJobCardPricingWrite
PricingAllowed(c, id) ==
  \/ req[c].seen[id] = Null
  \/ ~ PricingDelta(c, id)
  \/ req[c].may /\ req[c].seen[id].open /\ ~ HasInvoice(id)

\* assertJobCardPricingAllowed, one query per item.
CardCheck(c) ==
  /\ pc[c] = "card.check"
  /\ \E id \in req[c].todo :
       IF PricingAllowed(c, id)
       THEN Goto(c, "card.check", [req[c] EXCEPT !.todo = @ \ {id}])
       ELSE Answer(c)
  /\ UNCHANGED cards

CardWrite(c) ==
  /\ pc[c] = "card.check"
  /\ req[c].todo = {}
  /\ cards' = [id \in Cards |-> IF id \in DOMAIN req[c].docs THEN req[c].docs[id]
                                ELSE IF req[c].whole THEN Null ELSE cards[id]]
  /\ Answer(c)

CardDelete(c) ==
  /\ AtOnce(c)
  /\ \E id \in Rows(cards) : cards' = [cards EXCEPT ![id] = Null]

CardStep(c) ==
  /\ \/ (SendCard(c) \/ SendCards(c) \/ CardRead(c)) /\ UNCHANGED cards
     \/ CardCheck(c) \/ CardWrite(c) \/ CardDelete(c)
  /\ UNCHANGED <<quotes, invoices, registered, cached, newcomers>>

-----------------------------------------------------------------------------
(* Quotations.  convertQuotationToJob writes the job card and the quotation *)
(* in one transaction, whatever rows were there before.                     *)

Convert(c) ==
  /\ AtOnce(c)
  /\ \E id \in Cards, q \in Quotes, doc \in CardBodies :
       /\ cards' = [cards EXCEPT ![id] = doc]
       /\ quotes' = [quotes EXCEPT ![q] = id]

QuoteSave(c) ==
  /\ AtOnce(c)
  /\ \E q \in Quotes : quotes' = [quotes EXCEPT ![q] = Null]
  /\ UNCHANGED cards

QuoteDelete(c) ==
  /\ AtOnce(c)
  /\ \E q \in Quotes : quotes[q] # "none" /\ quotes' = [quotes EXCEPT ![q] = "none"]
  /\ UNCHANGED cards

QuotesReplace(c) ==
  /\ MaySnapshot
  /\ AtOnce(c)
  /\ \E kept \in SUBSET Quotes :
       quotes' = [q \in Quotes |-> IF q \in kept THEN quotes[q] ELSE "none"]
  /\ UNCHANGED cards

QuoteStep(c) ==
  /\ Convert(c) \/ QuoteSave(c) \/ QuoteDelete(c) \/ QuotesReplace(c)
  /\ UNCHANGED <<invoices, registered, cached, newcomers>>

-----------------------------------------------------------------------------
(* Invoices: putInvoice, postInvoicesSnapshot, deleteInvoiceRow.  A save    *)
(* reads the row and then the GST status, a snapshot the other way round.   *)

Invoicing(docs, whole) ==
  [docs |-> docs, whole |-> whole, seen |-> Null, status |-> Null]

SendInvoice(c) ==
  \E id \in Invoices, doc \in InvoiceBodies :
    Arrive(c, "invoice.read", Invoicing([k \in {id} |-> doc], FALSE))

SendInvoices(c) ==
  /\ MaySnapshot
  /\ \E docs \in UNION {[S -> InvoiceBodies] : S \in SUBSET Invoices} :
       Arrive(c, "gst.cached", Invoicing(docs, TRUE))

InvoiceRead(c) ==
  /\ pc[c] = "invoice.read"
  /\ Goto(c, IF req[c].whole THEN "invoice.guard" ELSE "gst.cached",
          [req[c] EXCEPT !.seen = invoices])

WithStatus(c, status) ==
  Goto(c, IF req[c].whole THEN "invoice.read" ELSE "invoice.guard",
       [req[c] EXCEPT !.status = status])

\* SimpleCache.getOrLoad: a hit goes on at once; a miss awaits the settings
\* row and stores what it read, however old it is by then.
CacheHit(c) ==
  /\ pc[c] = "gst.cached"
  /\ cached # Null
  /\ WithStatus(c, cached)
  /\ UNCHANGED cached

CacheMiss(c) ==
  /\ pc[c] = "gst.cached"
  /\ cached = Null
  /\ Goto(c, "gst.loaded", [req[c] EXCEPT !.status = registered])
  /\ UNCHANGED cached

CacheFill(c) ==
  /\ pc[c] = "gst.loaded"
  /\ cached' = req[c].status
  /\ WithStatus(c, req[c].status)

Prev(c, i) == req[c].seen[i]

\* applyInvoiceGstGuard: an unregistered workshop adds tax to no invoice that
\* had none.
GstGuard(c, i) ==
  IF ~ req[c].status /\ ~ (Prev(c, i) # Null /\ Prev(c, i).tax)
  THEN [req[c].docs[i] EXCEPT !.tax = FALSE]
  ELSE req[c].docs[i]

NewReferral(c, i) ==
  /\ req[c].docs[i].referral
  /\ ~ (Prev(c, i) # Null /\ Prev(c, i).referral)

\* The GST guard on every document, then the referral guard on each in turn.
InvoiceGuard(c) ==
  /\ pc[c] = "invoice.guard"
  /\ Goto(c, "invoice.referral",
          [docs |-> [i \in DOMAIN req[c].docs |-> GstGuard(c, i)],
           seen |-> req[c].seen, whole |-> req[c].whole,
           todo |-> {i \in DOMAIN req[c].docs : NewReferral(c, i)}])

\* applyInvoiceReferralGuard reads the customer, then counts his other
\* invoices and job cards in two queries at once.
ReferralCustomer(c) ==
  /\ pc[c] = "invoice.referral"
  /\ \E i \in req[c].todo :
       IF req[c].docs[i].customer \in newcomers
       THEN Goto(c, "referral.count",
                 [docs |-> req[c].docs, seen |-> req[c].seen, whole |-> req[c].whole,
                  todo |-> req[c].todo, of |-> i, counts |-> {"invoices", "cards"}])
       ELSE Answer(c)

\* Mutant: counts only the invoices that carry a referral themselves.
OtherInvoices_Referred(i, customer) ==
  {k \in Rows(invoices) \ {i} : invoices[k].customer = customer /\ invoices[k].referral}

OtherInvoices(i, customer) ==
  {k \in Rows(invoices) \ {i} : invoices[k].customer = customer}

OtherCards(doc) ==
  {id \in Rows(cards) \ {doc.card} : cards[id].customer = doc.customer}

Found(r, which) ==
  CASE which = "invoices" -> OtherInvoices(r.of, r.docs[r.of].customer) # {}
    [] which = "cards"    -> OtherCards(r.docs[r.of]) # {}

ReferralCount(c) ==
  /\ pc[c] = "referral.count"
  /\ \E which \in req[c].counts :
       IF Found(req[c], which)
       THEN Answer(c)
       ELSE Goto(c, "referral.count", [req[c] EXCEPT !.counts = @ \ {which}])

ReferralAllowed(c) ==
  /\ pc[c] = "referral.count"
  /\ req[c].counts = {}
  /\ Goto(c, "invoice.referral",
          [docs |-> req[c].docs, seen |-> req[c].seen, whole |-> req[c].whole,
           todo |-> req[c].todo \ {req[c].of}])

InvoiceWrite(c) ==
  /\ pc[c] = "invoice.referral"
  /\ req[c].todo = {}
  /\ invoices' = [i \in Invoices |->
       IF i \in DOMAIN req[c].docs THEN req[c].docs[i]
       ELSE IF req[c].whole THEN Null ELSE invoices[i]]
  /\ Answer(c)

InvoiceDelete(c) ==
  /\ AtOnce(c)
  /\ \E i \in Rows(invoices) : invoices' = [invoices EXCEPT ![i] = Null]

InvoiceStep(c) ==
  /\ \/ /\ \/ SendInvoice(c) \/ SendInvoices(c) \/ InvoiceRead(c) \/ InvoiceGuard(c)
           \/ ReferralCustomer(c) \/ ReferralCount(c) \/ ReferralAllowed(c)
        /\ UNCHANGED <<invoices, cached>>
     \/ (CacheHit(c) \/ CacheMiss(c) \/ CacheFill(c)) /\ UNCHANGED invoices
     \/ (InvoiceWrite(c) \/ InvoiceDelete(c)) /\ UNCHANGED cached
  /\ UNCHANGED <<cards, quotes, registered, newcomers>>

-----------------------------------------------------------------------------
(* The settings, the cache's sixty seconds and the customer's first visit.  *)

SettingsSave(c) ==
  /\ AtOnce(c)
  /\ registered' = ~ registered
  /\ UNCHANGED <<cached, newcomers>>

CacheExpire ==
  /\ cached # Null
  /\ cached' = Null
  /\ UNCHANGED <<registered, newcomers, requestVars>>

Return(customer) ==
  /\ customer \in newcomers
  /\ newcomers' = newcomers \ {customer}
  /\ UNCHANGED <<registered, cached, requestVars>>

DeskStep ==
  /\ \/ \E c \in Clients : CardStep(c) \/ QuoteStep(c) \/ InvoiceStep(c)
     \/ /\ \/ \E c \in Clients : SettingsSave(c)
           \/ CacheExpire
           \/ \E u \in Customers : Return(u)
        /\ UNCHANGED <<cards, quotes, invoices>>
  /\ StillStanding

DeskSpec == DeskInit /\ RequestInit /\ [][DeskStep]_<<deskVars, requestVars>>

-----------------------------------------------------------------------------
(* Properties                                                               *)

DeskTypeOK ==
  /\ cards \in [Cards -> Card \cup {Null}]
  /\ quotes \in [Quotes -> Cards \cup {Null, "none"}]
  /\ invoices \in [Invoices -> Invoice \cup {Null}]
  /\ registered \in BOOLEAN
  /\ cached \in BOOLEAN \cup {Null}
  /\ newcomers \subseteq Customers
  /\ standing \in [Clients -> SUBSET Invoices]

CardsSaved(c) ==
  pc[c] = "card.check" /\ req[c].todo = {} /\ pc'[c] = "idle"

InvoicesSaved(c) ==
  pc[c] = "invoice.referral" /\ req[c].todo = {} /\ pc'[c] = "idle"

(* A save or a snapshot of job cards brings in a new price only from someone *)
(* who may set prices, and never for a card one invoice has named ever since *)
(* the request came in, whatever overlapped it (assertJobCardPricingAllowed).*)
PriceLockedByInvoice ==
  [][\A c \in Clients : CardsSaved(c) =>
       \A id \in DOMAIN req[c].docs :
         req[c].seen[id] # Null /\ PricingDelta(c, id) =>
           /\ req[c].may /\ req[c].seen[id].open
           /\ \A i \in standing[c] : invoices[i].card # id]_<<deskVars, requestVars>>

(* An invoice gains a referral only if no other invoice of its customer      *)
(* stood all through the request (applyInvoiceReferralGuard).                *)
ReferralsForNewCustomers ==
  [][\A c \in Clients : InvoicesSaved(c) =>
       \A i \in DOMAIN req[c].docs : NewReferral(c, i) =>
         \A k \in standing[c] \ {i} :
           invoices[k].customer # req[c].docs[i].customer]_<<deskVars, requestVars>>
=============================================================================
