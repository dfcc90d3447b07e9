--------------------------- MODULE WorkshopProofs ---------------------------
(***************************************************************************)
(* The theorems about the workshop's requests, for every value of their    *)
(* constants: the guards on job cards and invoices, the removal of a       *)
(* branch, what staff may do, and the pickups of appointments.             *)
(***************************************************************************)
EXTENDS JobCards, Appointments, BranchRemoval, CollectionPages, FiniteSetTheorems, TLAPS

-----------------------------------------------------------------------------
(***************************************************************************)
(* Invoiced prices are locked and referrals go to new customers, proved    *)
(* for any number of requests, job cards, invoices and customers.  Both    *)
(* guards look at the invoices one query at a time, before the write; what *)
(* they promise at the write is about the invoices that have stood since   *)
(* the request came.  The invariant keeps, for each item that a request    *)
(* has checked, that no such invoice speaks against it.                    *)
(***************************************************************************)
\* Where a request for invoices is before its guards.
Unguarded == {"gst.cached", "gst.loaded", "invoice.read", "invoice.guard"}

IsDocs(docs) == DOMAIN docs \subseteq Invoices /\ \A i \in DOMAIN docs : docs[i] \in Invoice

\* The checked items of a request for job cards.
Priced(c) ==
  \A id \in DOMAIN req[c].docs \ req[c].todo :
    req[c].seen[id] # Null /\ PricingDelta(c, id) =>
      /\ req[c].may /\ req[c].seen[id].open
      /\ \A i \in standing[c] : invoices[i].card # id

CardHeld(c) ==
  pc[c] = "card.check" =>
    /\ req[c] = [docs |-> req[c].docs, may |-> req[c].may, whole |-> req[c].whole,
                 seen |-> req[c].seen, todo |-> req[c].todo]
    /\ Priced(c)

\* No other invoice of the customer has stood.
NoOther(c, i) == \A k \in standing[c] \ {i} : invoices[k].customer # req[c].docs[i].customer

\* The checked items of a request for invoices.
Referred(c) ==
  \A i \in DOMAIN req[c].docs \ req[c].todo : NewReferral(c, i) => NoOther(c, i)

InvoiceHeld(c) ==
  /\ pc[c] \in Unguarded => "docs" \in DOMAIN req[c] /\ IsDocs(req[c].docs)
  /\ pc[c] = "invoice.referral" =>
       /\ req[c] = [docs |-> req[c].docs, seen |-> req[c].seen, whole |-> req[c].whole,
                    todo |-> req[c].todo]
       /\ Referred(c)
  /\ pc[c] = "referral.count" =>
       /\ req[c] = [docs |-> req[c].docs, seen |-> req[c].seen, whole |-> req[c].whole,
                    todo |-> req[c].todo, of |-> req[c].of, counts |-> req[c].counts]
       /\ Referred(c)
       /\ "invoices" \notin req[c].counts => NoOther(c, req[c].of)

DeskHeld(c) ==
  /\ pc[c] # "idle" => standing[c] \subseteq Rows(invoices)
  /\ CardHeld(c)
  /\ InvoiceHeld(c)

DeskTyped ==
  /\ pc = [c \in Clients |-> pc[c]]
  /\ req = [c \in Clients |-> req[c]]
  /\ DOMAIN invoices = Invoices

DeskInv == DeskTyped /\ \A c \in Clients : DeskHeld(c)

-----------------------------------------------------------------------------

LEMMA DeskInitSound == DeskInit /\ RequestInit => DeskInv
BY DEF DeskInit, RequestInit, DeskInv, DeskTyped, DeskHeld, CardHeld, InvoiceHeld, Unguarded

\* What stands, stood before and says what it said.
LEMMA StillStands ==
  ASSUME DeskInv, StillStanding, DeskTyped', NEW c \in Clients, pc[c] # "idle", pc'[c] # "idle"
  PROVE  /\ standing'[c] \subseteq standing[c]
         /\ standing'[c] \subseteq Rows(invoices')
         /\ \A i \in standing'[c] : /\ invoices'[i].card = invoices[i].card
                                    /\ invoices'[i].customer = invoices[i].customer
<1>1. standing'[c] = {i \in standing[c] : Lasts(i)}
  BY DEF StillStanding
<1>2. standing[c] \subseteq Invoices
  BY DEF DeskInv, DeskHeld, DeskTyped, Rows
<1> QED  BY <1>1, <1>2 DEF Lasts, Rows, DeskTyped

LEMMA DeskOthersHeld ==
  ASSUME DeskInv, StillStanding, DeskTyped', NEW c \in Clients, pc'[c] = pc[c], req'[c] = req[c]
  PROVE  DeskHeld(c)'
<1>1. CASE pc[c] = "idle"
  BY <1>1 DEF DeskHeld, CardHeld, InvoiceHeld, Unguarded
<1>2. CASE pc[c] # "idle"
  <2>1. DeskHeld(c)
    BY DEF DeskInv
  <2>2. CardHeld(c)'
    <3>1. \A id : PricingDelta(c, id)' <=> PricingDelta(c, id)
      BY DEF PricingDelta
    <3>2. \A id : (\A i \in standing[c] : invoices[i].card # id)
                   => (\A i \in standing'[c] : invoices'[i].card # id)
      BY <1>2, StillStands
    <3>3. Priced(c) => Priced(c)'
      BY <3>1, <3>2 DEF Priced
    <3> QED  BY <2>1, <3>3 DEF DeskHeld, CardHeld
  <2>3. InvoiceHeld(c)'
    <3>1. \A i : NewReferral(c, i)' <=> NewReferral(c, i)
      BY DEF NewReferral, Prev
    <3>2. \A i : NoOther(c, i) => NoOther(c, i)'
      BY <1>2, StillStands DEF NoOther
    <3>3. Referred(c) => Referred(c)'
      BY <3>1, <3>2 DEF Referred
    <3> QED  BY <2>1, <3>2, <3>3 DEF DeskHeld, InvoiceHeld
  <2>4. standing'[c] \subseteq Rows(invoices')
    BY <1>2, StillStands
  <2> QED  BY <2>2, <2>3, <2>4 DEF DeskHeld
<1> QED  BY <1>1, <1>2

\* A step of the request of c, after which its own part holds.
LEMMA DeskStepped ==
  ASSUME DeskInv, StillStanding, DeskTyped', NEW c \in Clients, DeskHeld(c)',
         \A d \in Clients \ {c} : pc'[d] = pc[d] /\ req'[d] = req[d]
  PROVE  DeskInv'
BY DeskOthersHeld DEF DeskInv

LEMMA DeskAnswered ==
  ASSUME DeskInv, StillStanding, NEW c \in Clients, Answer(c), DOMAIN invoices' = Invoices
  PROVE  DeskInv'
<1>1. /\ pc'[c] = "idle" /\ DeskTyped'
      /\ \A d \in Clients \ {c} : pc'[d] = pc[d] /\ req'[d] = req[d]
  BY DEF Answer, DeskInv, DeskTyped
<1>2. DeskHeld(c)'
  BY <1>1 DEF DeskHeld, CardHeld, InvoiceHeld, Unguarded
<1> QED  BY <1>1, <1>2, DeskStepped

\* A request that comes, or goes on, to label with r.
LEMMA DeskWent ==
  ASSUME DeskInv, StillStanding, UNCHANGED invoices, NEW c \in Clients, NEW label, NEW r,
         label # "idle",
         (Goto(c, label, r) /\ pc[c] # "idle") \/ Arrive(c, label, r),
         CardHeld(c)', InvoiceHeld(c)'
  PROVE  DeskInv'
<1>1. /\ pc'[c] = label /\ req'[c] = r /\ DeskTyped'
      /\ \A d \in Clients \ {c} : pc'[d] = pc[d] /\ req'[d] = req[d]
  BY DEF Goto, Arrive, DeskInv, DeskTyped
<1>2. standing'[c] \subseteq Rows(invoices')
  BY <1>1 DEF StillStanding, DeskInv, DeskHeld
<1>3. DeskHeld(c)'
  BY <1>1, <1>2 DEF DeskHeld
<1> QED  BY <1>1, <1>3, DeskStepped

-----------------------------------------------------------------------------

LEMMA CardSound ==
  ASSUME DeskInv, StillStanding, NEW c \in Clients, CardStep(c)
  PROVE  DeskInv'
<1>0. UNCHANGED invoices /\ DOMAIN invoices' = Invoices
  BY DEF CardStep, DeskInv, DeskTyped
<1>1. ASSUME NEW r, Arrive(c, "card.read", r)  PROVE DeskInv'
  <2>1. pc'[c] = "card.read"
    BY <1>1 DEF Arrive, DeskInv, DeskTyped
  <2> QED  BY <1>0, <1>1, <2>1, DeskWent DEF CardHeld, InvoiceHeld, Unguarded
<1>2. CASE CardRead(c)
  <2> DEFINE r == [docs |-> req[c].docs, may |-> req[c].may, whole |-> req[c].whole,
                   seen |-> cards, todo |-> DOMAIN req[c].docs]
  <2>1. Goto(c, "card.check", r) /\ pc[c] # "idle"
    BY <1>2 DEF CardRead
  <2>2. pc'[c] = "card.check" /\ req'[c] = r
    BY <2>1 DEF Goto, DeskInv, DeskTyped
  <2>3. CardHeld(c)'
    BY <2>2 DEF CardHeld, Priced
  <2>4. InvoiceHeld(c)'
    BY <2>2 DEF InvoiceHeld, Unguarded
  <2> QED  BY <1>0, <2>1, <2>3, <2>4, DeskWent
<1>3. CASE CardCheck(c)
  <2>1. CASE Answer(c)
    BY <1>0, <2>1, DeskAnswered
  <2>2. ASSUME NEW id \in req[c].todo, PricingAllowed(c, id),
               Goto(c, "card.check", [req[c] EXCEPT !.todo = @ \ {id}])
        PROVE  DeskInv'
    <3> DEFINE r == [req[c] EXCEPT !.todo = @ \ {id}]
    <3>1. pc[c] = "card.check" /\ CardHeld(c) /\ standing[c] \subseteq Rows(invoices)
      BY <1>3 DEF CardCheck, DeskInv, DeskHeld
    <3>2. /\ r.docs = req[c].docs /\ r.may = req[c].may /\ r.whole = req[c].whole
          /\ r.seen = req[c].seen /\ r.todo = req[c].todo \ {id}
          /\ r = [docs |-> r.docs, may |-> r.may, whole |-> r.whole,
                  seen |-> r.seen, todo |-> r.todo]
      BY <3>1 DEF CardHeld
    <3>3. pc'[c] = "card.check" /\ req'[c] = r
      BY <2>2 DEF Goto, DeskInv, DeskTyped
    <3> HIDE DEF r
    <3>4. \A i \in standing[c] :
            req[c].seen[id] # Null /\ PricingDelta(c, id) => invoices[i].card # id
      BY <2>2, <3>1 DEF PricingAllowed, HasInvoice
    <3>5. standing'[c] \subseteq standing[c]
      BY <1>0, <3>1, <3>3 DEF StillStanding
    <3>6. Priced(c)'
      <4>1. ASSUME NEW x \in DOMAIN req[c].docs \ (req[c].todo \ {id}),
                   req[c].seen[x] # Null, PricingDelta(c, x)
            PROVE  /\ req[c].may /\ req[c].seen[x].open
                   /\ \A i \in standing[c] : invoices[i].card # x
        <5>1. CASE x = id
          BY <2>2, <3>4, <4>1, <5>1 DEF PricingAllowed
        <5>2. CASE x # id
          BY <3>1, <4>1, <5>2 DEF CardHeld, Priced
        <5> QED  BY <5>1, <5>2
      <4> QED  BY <1>0, <3>2, <3>3, <3>5, <4>1 DEF Priced, PricingDelta
    <3>7. CardHeld(c)'
      BY <3>2, <3>3, <3>6 DEF CardHeld
    <3>8. InvoiceHeld(c)'
      BY <3>3 DEF InvoiceHeld, Unguarded
    <3> QED  BY <1>0, <2>2, <3>1, <3>7, <3>8, DeskWent DEF r
  <2> QED  BY <1>3, <2>1, <2>2 DEF CardCheck
<1>4. CASE CardWrite(c)
  BY <1>0, <1>4, DeskAnswered DEF CardWrite
<1>5. CASE CardDelete(c)
  <2>1. DeskTyped' /\ UNCHANGED <<pc, req>>
    BY <1>0, <1>5 DEF CardDelete, AtOnce, DeskInv, DeskTyped
  <2> QED  BY <2>1, DeskOthersHeld DEF DeskInv
<1> QED  BY <1>1, <1>2, <1>3, <1>4, <1>5 DEF CardStep, SendCard, SendCards

-----------------------------------------------------------------------------

\* A request for invoices that has come no further than its guards.
LEMMA DocsHeld ==
  ASSUME NEW c \in Clients, pc'[c] \in Unguarded,
         "docs" \in DOMAIN req'[c], IsDocs(req'[c].docs)
  PROVE  CardHeld(c)' /\ InvoiceHeld(c)'
BY DEF CardHeld, InvoiceHeld, Unguarded, IsDocs

\* What a request reads on its way to the guards leaves its documents alone.
LEMMA ReadOn ==
  ASSUME DeskInv, StillStanding, UNCHANGED invoices, NEW c \in Clients, NEW label, NEW r,
         pc[c] \in Unguarded, label \in Unguarded, Goto(c, label, r),
         "docs" \in DOMAIN req[c] => "docs" \in DOMAIN r /\ r.docs = req[c].docs
  PROVE  DeskInv'
<1>1. "docs" \in DOMAIN req[c] /\ IsDocs(req[c].docs)
  BY DEF DeskInv, DeskHeld, InvoiceHeld
<1>2. pc'[c] = label /\ req'[c] = r
  BY DEF Goto, DeskInv, DeskTyped
<1>3. CardHeld(c)' /\ InvoiceHeld(c)'
  BY <1>1, <1>2, DocsHeld
<1> QED  BY <1>3, DeskWent DEF Unguarded

\* A request that goes on with the documents it had keeps what is cleared.
LEMMA GoingOn ==
  ASSUME DeskInv, StillStanding, UNCHANGED invoices, NEW c \in Clients,
         pc[c] # "idle", pc'[c] # "idle",
         req'[c].docs = req[c].docs, req'[c].seen = req[c].seen
  PROVE  /\ \A i : NewReferral(c, i)' <=> NewReferral(c, i)
         /\ \A i : NoOther(c, i) => NoOther(c, i)'
         /\ req'[c].todo = req[c].todo /\ Referred(c) => Referred(c)'
<1>1. standing'[c] \subseteq standing[c]
  BY DEF StillStanding
<1>2. \A i : NewReferral(c, i)' <=> NewReferral(c, i)
  BY DEF NewReferral, Prev
<1>3. \A i : NoOther(c, i) => NoOther(c, i)'
  BY <1>1 DEF NoOther
<1> QED  BY <1>2, <1>3 DEF Referred

LEMMA InvoiceSound ==
  ASSUME DeskInv, StillStanding, NEW c \in Clients, InvoiceStep(c)
  PROVE  DeskInv'
<1>1. CASE SendInvoice(c) /\ UNCHANGED invoices
  <2>1. PICK id \in Invoices, doc \in InvoiceBodies :
          Arrive(c, "invoice.read", Invoicing([k \in {id} |-> doc], FALSE))
    BY <1>1 DEF SendInvoice
  <2>2. IsDocs([k \in {id} |-> doc])
    BY BodiesAssumption DEF IsDocs
  <2>3. /\ pc'[c] = "invoice.read"
        /\ req'[c] = Invoicing([k \in {id} |-> doc], FALSE)
    BY <2>1 DEF Arrive, DeskInv, DeskTyped
  <2>4. CardHeld(c)' /\ InvoiceHeld(c)'
    BY <2>2, <2>3, DocsHeld DEF Invoicing, Unguarded
  <2> QED  BY <1>1, <2>1, <2>4, DeskWent
<1>2. CASE SendInvoices(c) /\ UNCHANGED invoices
  <2>1. PICK S \in SUBSET Invoices : \E docs \in [S -> InvoiceBodies] :
          Arrive(c, "gst.cached", Invoicing(docs, TRUE))
    BY <1>2 DEF SendInvoices
  <2>2. PICK docs \in [S -> InvoiceBodies] :
          Arrive(c, "gst.cached", Invoicing(docs, TRUE))
    BY <2>1
  <2>3. IsDocs(docs)
    BY BodiesAssumption DEF IsDocs
  <2>4. pc'[c] = "gst.cached" /\ req'[c] = Invoicing(docs, TRUE)
    BY <2>2 DEF Arrive, DeskInv, DeskTyped
  <2>5. CardHeld(c)' /\ InvoiceHeld(c)'
    BY <2>3, <2>4, DocsHeld DEF Invoicing, Unguarded
  <2> QED  BY <1>2, <2>2, <2>5, DeskWent
<1>3. CASE InvoiceRead(c) /\ UNCHANGED invoices
  BY <1>3, ReadOn DEF InvoiceRead, Unguarded
<1>4. CASE CacheHit(c) /\ UNCHANGED invoices
  BY <1>4, ReadOn DEF CacheHit, WithStatus, Unguarded
<1>5. CASE CacheMiss(c) /\ UNCHANGED invoices
  BY <1>5, ReadOn DEF CacheMiss, Unguarded
<1>6. CASE CacheFill(c) /\ UNCHANGED invoices
  BY <1>6, ReadOn DEF CacheFill, WithStatus, Unguarded
<1>7. CASE InvoiceGuard(c) /\ UNCHANGED invoices
  <2> DEFINE docs == [i \in DOMAIN req[c].docs |-> GstGuard(c, i)]
             todo == {i \in DOMAIN req[c].docs : NewReferral(c, i)}
             r == [docs |-> docs, seen |-> req[c].seen, whole |-> req[c].whole,
                   todo |-> todo]
  <2>1. IsDocs(req[c].docs)
    BY <1>7 DEF InvoiceGuard, DeskInv, DeskHeld, InvoiceHeld, Unguarded
  <2>2. pc'[c] = "invoice.referral" /\ req'[c] = r
    BY <1>7 DEF InvoiceGuard, Goto, DeskInv, DeskTyped
  <2>3. ASSUME NEW i \in DOMAIN req[c].docs
        PROVE  docs[i].referral = req[c].docs[i].referral
    BY <2>1 DEF GstGuard, IsDocs, Invoice
  <2>4. \A i \in DOMAIN docs \ todo : ~ NewReferral(c, i)'
    BY <2>2, <2>3 DEF NewReferral, Prev
  <2>5. Referred(c)'
    BY <2>2, <2>4 DEF Referred
  <2>6. CardHeld(c)' /\ InvoiceHeld(c)'
    BY <2>2, <2>5 DEF CardHeld, InvoiceHeld, Unguarded
  <2> QED  BY <1>7, <2>6, DeskWent DEF InvoiceGuard
<1>8. CASE ReferralCustomer(c) /\ UNCHANGED invoices
  <2>1. CASE Answer(c)
    BY <1>8, <2>1, DeskAnswered DEF DeskInv, DeskTyped
  <2>2. ASSUME NEW i \in req[c].todo,
               Goto(c, "referral.count",
                    [docs |-> req[c].docs, seen |-> req[c].seen, whole |-> req[c].whole,
                     todo |-> req[c].todo, of |-> i, counts |-> {"invoices", "cards"}])
        PROVE  DeskInv'
    <3> DEFINE r == [docs |-> req[c].docs, seen |-> req[c].seen, whole |-> req[c].whole,
                     todo |-> req[c].todo, of |-> i, counts |-> {"invoices", "cards"}]
    <3>1. pc'[c] = "referral.count" /\ req'[c] = r
      BY <2>2 DEF Goto, DeskInv, DeskTyped
    <3>2. Referred(c) /\ pc[c] = "invoice.referral"
      BY <1>8 DEF ReferralCustomer, DeskInv, DeskHeld, InvoiceHeld
    <3>3. Referred(c)'
      BY <1>8, <3>1, <3>2, GoingOn
    <3>4. CardHeld(c)' /\ InvoiceHeld(c)'
      BY <3>1, <3>3 DEF CardHeld, InvoiceHeld, Unguarded
    <3> QED  BY <1>8, <2>2, <3>2, <3>4, DeskWent
  <2> QED  BY <1>8, <2>1, <2>2 DEF ReferralCustomer
<1>9. CASE ReferralCount(c) /\ UNCHANGED invoices
  <2>1. CASE Answer(c)
    BY <1>9, <2>1, DeskAnswered DEF DeskInv, DeskTyped
  <2>2. ASSUME NEW which \in req[c].counts, ~ Found(req[c], which),
               Goto(c, "referral.count", [req[c] EXCEPT !.counts = @ \ {which}])
        PROVE  DeskInv'
    <3> DEFINE r == [req[c] EXCEPT !.counts = @ \ {which}]
    <3>1. pc[c] = "referral.count" /\ InvoiceHeld(c) /\ standing[c] \subseteq Rows(invoices)
      BY <1>9 DEF ReferralCount, DeskInv, DeskHeld
    <3>0. req[c] = [docs |-> req[c].docs, seen |-> req[c].seen, whole |-> req[c].whole,
                    todo |-> req[c].todo, of |-> req[c].of, counts |-> req[c].counts]
      BY <3>1 DEF InvoiceHeld
    <3>2. /\ r.docs = req[c].docs /\ r.seen = req[c].seen /\ r.todo = req[c].todo
          /\ r.of = req[c].of /\ r.counts = req[c].counts \ {which}
          /\ r = [docs |-> r.docs, seen |-> r.seen, whole |-> r.whole,
                  todo |-> r.todo, of |-> r.of, counts |-> r.counts]
      BY <3>0
    <3>3. pc'[c] = "referral.count" /\ req'[c] = r
      BY <2>2 DEF Goto, DeskInv, DeskTyped
    <3> HIDE DEF r
    <3>4. which = "invoices" => NoOther(c, req[c].of)
      BY <2>2, <3>1 DEF Found, OtherInvoices, NoOther
    <3>5. "invoices" \notin req'[c].counts => NoOther(c, req[c].of)
      BY <3>1, <3>2, <3>3, <3>4 DEF InvoiceHeld
    <3>6. Referred(c)
      BY <3>1 DEF InvoiceHeld
    <3>7. Referred(c)' /\ (NoOther(c, req[c].of) => NoOther(c, req[c].of)')
      BY <1>9, <3>1, <3>2, <3>3, <3>6, GoingOn
    <3>8. CardHeld(c)' /\ InvoiceHeld(c)'
      BY <3>2, <3>3, <3>5, <3>7 DEF CardHeld, InvoiceHeld, Unguarded
    <3> QED  BY <1>9, <2>2, <3>1, <3>8, DeskWent DEF r
  <2> QED  BY <1>9, <2>1, <2>2 DEF ReferralCount
<1>10. CASE ReferralAllowed(c) /\ UNCHANGED invoices
  <2> DEFINE r == [docs |-> req[c].docs, seen |-> req[c].seen, whole |-> req[c].whole,
                   todo |-> req[c].todo \ {req[c].of}]
  <2>1. pc[c] = "referral.count" /\ Referred(c) /\ NoOther(c, req[c].of)
    BY <1>10 DEF ReferralAllowed, DeskInv, DeskHeld, InvoiceHeld
  <2>2. pc'[c] = "invoice.referral" /\ req'[c] = r
    BY <1>10 DEF ReferralAllowed, Goto, DeskInv, DeskTyped
  <2>3. \A i \in DOMAIN r.docs \ r.todo : NewReferral(c, i) => NoOther(c, i)
    BY <2>1 DEF Referred
  <2>4. Referred(c)'
    BY <1>10, <2>1, <2>2, <2>3, GoingOn DEF Referred
  <2>5. CardHeld(c)' /\ InvoiceHeld(c)'
    BY <2>2, <2>4 DEF CardHeld, InvoiceHeld, Unguarded
  <2> QED  BY <1>10, <2>1, <2>5, DeskWent DEF ReferralAllowed
<1>11. CASE InvoiceWrite(c)
  BY <1>11, DeskAnswered DEF InvoiceWrite
<1>12. CASE InvoiceDelete(c)
  <2>1. DeskTyped' /\ UNCHANGED <<pc, req>>
    BY <1>12 DEF InvoiceDelete, AtOnce, DeskInv, DeskTyped
  <2> QED  BY <2>1, DeskOthersHeld DEF DeskInv
<1> QED  BY <1>1, <1>2, <1>3, <1>4, <1>5, <1>6, <1>7, <1>8, <1>9, <1>10, <1>11, <1>12
         DEF InvoiceStep

-----------------------------------------------------------------------------

LEMMA DeskStepSound == DeskInv /\ [DeskStep]_<<deskVars, requestVars>> => DeskInv'
<1> SUFFICES ASSUME DeskInv, [DeskStep]_<<deskVars, requestVars>>  PROVE DeskInv'
  OBVIOUS
<1>1. ASSUME NEW c \in Clients, CardStep(c), StillStanding  PROVE DeskInv'
  BY <1>1, CardSound
<1>2. ASSUME NEW c \in Clients, InvoiceStep(c), StillStanding  PROVE DeskInv'
  BY <1>2, InvoiceSound
<1>3. ASSUME UNCHANGED <<invoices, pc, req>>, StillStanding  PROVE DeskInv'
  <2>1. DeskTyped'
    BY <1>3 DEF DeskInv, DeskTyped
  <2> QED  BY <1>3, <2>1, DeskOthersHeld DEF DeskInv
<1>4. ASSUME NEW c \in Clients, QuoteStep(c)  PROVE UNCHANGED <<invoices, pc, req>>
  BY <1>4 DEF QuoteStep, Convert, QuoteSave, QuoteDelete, QuotesReplace, AtOnce, requestVars
<1>5. ASSUME NEW c \in Clients, SettingsSave(c)  PROVE UNCHANGED <<pc, req>>
  BY <1>5 DEF SettingsSave, AtOnce, requestVars
<1>6. ASSUME CacheExpire \/ \E u \in Customers : Return(u)  PROVE UNCHANGED <<pc, req>>
  BY <1>6 DEF CacheExpire, Return, requestVars
<1>7. CASE UNCHANGED <<deskVars, requestVars>>
  BY <1>7 DEF deskVars, requestVars, DeskInv, DeskTyped, DeskHeld, CardHeld, InvoiceHeld,
     Priced, PricingDelta, Referred, NewReferral, Prev, NoOther, Rows, IsDocs
<1> QED  BY <1>1, <1>2, <1>3, <1>4, <1>5, <1>6, <1>7 DEF DeskStep

LEMMA DeskSpecInv == DeskSpec => []DeskInv
BY DeskInitSound, DeskStepSound, PTL DEF DeskSpec

-----------------------------------------------------------------------------

(* No overlapping of saves, snapshots, deletions and conversions changes the  *)
(* prices of a job card that one invoice has named since the request came     *)
(* (assertJobCardPricingAllowed).                                             *)
THEOREM PricesLocked == DeskSpec => PriceLockedByInvoice
<1>1. ASSUME DeskInv, NEW c \in Clients, CardsSaved(c)
      PROVE  \A id \in DOMAIN req[c].docs :
               req[c].seen[id] # Null /\ PricingDelta(c, id) =>
                 /\ req[c].may /\ req[c].seen[id].open
                 /\ \A i \in standing[c] : invoices[i].card # id
  BY <1>1 DEF CardsSaved, DeskInv, DeskHeld, CardHeld, Priced
<1> DEFINE Locked ==
      \A c \in Clients : CardsSaved(c) =>
       \A id \in DOMAIN req[c].docs :
         req[c].seen[id] # Null /\ PricingDelta(c, id) =>
           /\ req[c].may /\ req[c].seen[id].open
           /\ \A i \in standing[c] : invoices[i].card # id
<1>2. DeskInv => Locked
  BY <1>1
<1>3. DeskSpec => [][Locked]_<<deskVars, requestVars>>
  BY <1>2, DeskSpecInv, PTL
<1> QED  BY <1>3 DEF PriceLockedByInvoice

(* Whatever overlaps its queries, a request gives a referral only to a        *)
(* customer with no other invoice that stood throughout                       *)
(* (applyInvoiceReferralGuard).                                               *)
THEOREM ReferralsForNew == DeskSpec => ReferralsForNewCustomers
<1>1. ASSUME DeskInv, NEW c \in Clients, InvoicesSaved(c)
      PROVE  \A i \in DOMAIN req[c].docs : NewReferral(c, i) =>
               \A k \in standing[c] \ {i} :
                 invoices[k].customer # req[c].docs[i].customer
  BY <1>1 DEF InvoicesSaved, DeskInv, DeskHeld, InvoiceHeld, Referred, NoOther
<1> DEFINE New ==
      \A c \in Clients : InvoicesSaved(c) =>
        \A i \in DOMAIN req[c].docs : NewReferral(c, i) =>
          \A k \in standing[c] \ {i} :
            invoices[k].customer # req[c].docs[i].customer
<1>2. DeskInv => New
  BY <1>1
<1>3. DeskSpec => [][New]_<<deskVars, requestVars>>
  BY <1>2, DeskSpecInv, PTL
<1> QED  BY <1>3 DEF ReferralsForNewCustomers

-----------------------------------------------------------------------------
(***************************************************************************)
(* Only unused branches are removed, proved for any number of branches and *)
(* requests.  The blockers are counted by one query after another, and     *)
(* what a query has counted as zero may be used again by the time of the   *)
(* next: the invariant says of each kind of document that has been counted *)
(* that none naming the branch has been there ever since the request came. *)
(***************************************************************************)
Kinds == Documents \cup {"users"}

\* The kinds that request c has counted.
Counted(c) ==
  {k \in Documents :
     \/ pc[c] = "delete"
     \/ pc[c] = "count" /\ (req[c].again \/ \E i \in 1..7 : i < req[c].next /\ Queries[i] = k)}

RemovalHeld(c) ==
  pc[c] # "idle" =>
    /\ pc[c] \in {"count", "delete"}
    /\ req[c] \in [id : Branches, next : 1..7, again : BOOLEAN]
    /\ kept[c] \subseteq Pairs(uses)
    /\ \A k \in Counted(c) : <<k, req[c].id>> \notin kept[c]

RemovalTyped ==
  /\ pc = [c \in Clients |-> pc[c]]
  /\ req = [c \in Clients |-> req[c]]
  /\ DOMAIN uses = Kinds

RemovalInv == RemovalTyped /\ \A c \in Clients : RemovalHeld(c)

-----------------------------------------------------------------------------

LEMMA PairsOf ==
  ASSUME NEW u, NEW k, NEW b
  PROVE  <<k, b>> \in Pairs(u) <=> k \in DOMAIN u /\ b \in u[k]
BY DEF Pairs

LEMMA QueryList ==
  /\ Len(Queries) = 7
  /\ \A k \in Documents : \E i \in 1..7 : Queries[i] = k
  /\ \A k \in Documents : k \notin {"branch", "branches"}
<1>1. /\ Queries[4] = "jobCards" /\ Queries[5] = "expenses"
      /\ Queries[6] = "pickupDropRequests" /\ Queries[7] = "payroll"
      /\ Len(Queries) = 7
  BY DEF Queries
<1>2. \A k \in Documents : \E i \in 1..7 : Queries[i] = k
  BY <1>1 DEF Documents
<1>3. \A k \in Documents : k \notin {"branch", "branches"}
  BY DEF Documents
<1> QED  BY <1>1, <1>2, <1>3

\* A request that does nothing in a step loses kept uses and gains none.
LEMMA RemovalOthersHeld ==
  ASSUME RemovalInv, StillUsed, NEW c \in Clients, pc'[c] = pc[c], req'[c] = req[c]
  PROVE  RemovalHeld(c)'
<1> SUFFICES ASSUME pc'[c] # "idle"  PROVE RemovalHeld(c)'
  BY DEF RemovalHeld
<1>1. kept'[c] = kept[c] \cap Pairs(uses')
  BY DEF StillUsed
<1>2. Counted(c)' = Counted(c)
  BY DEF Counted
<1> QED  BY <1>1, <1>2 DEF RemovalInv, RemovalHeld

\* A step after which c has been answered.
LEMMA RemovalAnswered ==
  ASSUME RemovalInv, StillUsed, RemovalTyped', NEW c \in Clients, pc'[c] = "idle",
         \A d \in Clients \ {c} : pc'[d] = pc[d] /\ req'[d] = req[d]
  PROVE  RemovalInv'
<1>1. RemovalHeld(c)'
  BY DEF RemovalHeld
<1> QED  BY <1>1, RemovalOthersHeld DEF RemovalInv

\* A step of c that takes it to label with r; what it has counted before stays
\* counted, and what the step has counted is not there.
LEMMA RemovalWent ==
  ASSUME RemovalInv, StillUsed, UNCHANGED uses, NEW c \in Clients, pc[c] # "idle",
         NEW label \in {"count", "delete"},
         NEW r \in [id : Branches, next : 1..7, again : BOOLEAN],
         Goto(c, label, r), r.id = req[c].id,
         \A k \in Counted(c)' : k \in Counted(c) \/ r.id \notin uses[k]
  PROVE  RemovalInv'
<1>1. /\ pc' = [pc EXCEPT ![c] = label] /\ req' = [req EXCEPT ![c] = r]
      /\ pc'[c] = label /\ req'[c] = r
      /\ \A d \in Clients \ {c} : pc'[d] = pc[d] /\ req'[d] = req[d]
  BY DEF Goto, RemovalInv, RemovalTyped
<1>2. RemovalTyped'
  BY <1>1 DEF RemovalInv, RemovalTyped
<1>3. kept'[c] = kept[c] \cap Pairs(uses)
  BY <1>1 DEF StillUsed
<1>4. ASSUME NEW k \in Counted(c)'  PROVE <<k, r.id>> \notin kept'[c]
  <2>1. CASE k \in Counted(c)
    BY <2>1, <1>3 DEF RemovalInv, RemovalHeld
  <2>2. CASE r.id \notin uses[k]
    BY <2>2, <1>3, PairsOf
  <2> QED  BY <2>1, <2>2
<1>5. RemovalHeld(c)'
  BY <1>1, <1>3, <1>4 DEF RemovalHeld
<1> QED  BY <1>1, <1>2, <1>5, RemovalOthersHeld DEF RemovalInv

-----------------------------------------------------------------------------

LEMMA RemovalInitSound == BranchInit /\ RequestInit => RemovalInv
BY DEF BranchInit, RequestInit, RemovalInv, RemovalTyped, RemovalHeld, Kinds

LEMMA CountSound ==
  ASSUME RemovalInv, StillUsed, NEW c \in Clients, RemoveCount(c)
  PROVE  RemovalInv'
<1> DEFINE r == req[c]
<1>1. /\ pc[c] = "count" /\ UNCHANGED uses
      /\ r \in [id : Branches, next : 1..7, again : BOOLEAN]
  BY DEF RemoveCount, RemovalInv, RemovalHeld
<1>2. CASE Answer(c)
  <2>1. /\ pc'[c] = "idle" /\ RemovalTyped'
        /\ \A d \in Clients \ {c} : pc'[d] = pc[d] /\ req'[d] = req[d]
    BY <1>1, <1>2 DEF Answer, RemovalInv, RemovalTyped
  <2> QED  BY <2>1, RemovalAnswered
<1>3. ASSUME ~ Answer(c)
      PROVE  /\ ~ Blocked(r.id, Queries[r.next])
             /\ IF r.next < 7 THEN Goto(c, "count", [r EXCEPT !.next = @ + 1])
                ELSE IF ~ r.again THEN Goto(c, "count", [id |-> r.id, next |-> 1, again |-> TRUE])
                ELSE Goto(c, "delete", r)
  BY <1>3, QueryList DEF RemoveCount
<1>4. ASSUME ~ Answer(c), NEW k \in Documents, Queries[r.next] = k
      PROVE  r.id \notin uses[k]
  BY <1>3, <1>4, QueryList DEF Blocked
<1>5. CASE ~ Answer(c) /\ r.next < 7
  <2> DEFINE s == [r EXCEPT !.next = @ + 1]
  <2>1. /\ Goto(c, "count", s)
        /\ s \in [id : Branches, next : 1..7, again : BOOLEAN]
        /\ s.id = r.id /\ s.next = r.next + 1 /\ s.again = r.again
    BY <1>1, <1>3, <1>5
  <2>2. pc'[c] = "count" /\ req'[c] = s
    BY <2>1 DEF Goto, RemovalInv, RemovalTyped
  <2>3. ASSUME NEW k \in Counted(c)'  PROVE k \in Counted(c) \/ s.id \notin uses[k]
    <3>1. k \in Documents /\ (r.again \/ \E i \in 1..7 : i < r.next + 1 /\ Queries[i] = k)
      BY <2>1, <2>2, <2>3 DEF Counted
    <3>2. CASE r.again \/ \E i \in 1..7 : i < r.next /\ Queries[i] = k
      BY <3>1, <3>2, <1>1 DEF Counted
    <3>3. CASE Queries[r.next] = k
      BY <3>1, <3>3, <1>4, <1>5, <2>1
    <3>4. \A i \in 1..7 : i < r.next + 1 => i < r.next \/ i = r.next
      BY <1>1
    <3> QED  BY <3>1, <3>2, <3>3, <3>4
  <2> HIDE DEF s
  <2> QED  BY <1>1, <2>1, <2>3, RemovalWent
<1>6. CASE ~ Answer(c) /\ ~ (r.next < 7)
  <2>1. ASSUME NEW k \in Documents  PROVE k \in Counted(c) \/ r.id \notin uses[k]
    <3>1. r.next = 7
      BY <1>1, <1>6
    <3>2. PICK i \in 1..7 : Queries[i] = k
      BY QueryList
    <3>3. CASE i = 7
      BY <3>1, <3>2, <3>3, <1>4, <1>6
    <3>4. CASE i # 7
      <4>1. i < r.next
        BY <3>1, <3>4
      <4> QED  BY <4>1, <3>2, <1>1 DEF Counted
    <3> QED  BY <3>3, <3>4
  <2>2. Counted(c)' \subseteq Documents
    BY DEF Counted
  <2> DEFINE s == [id |-> r.id, next |-> 1, again |-> TRUE]
  <2>3. CASE Goto(c, "count", s)
    <3>1. s \in [id : Branches, next : 1..7, again : BOOLEAN] /\ s.id = r.id
      BY <1>1
    <3> HIDE DEF s
    <3> QED  BY <1>1, <2>1, <2>2, <2>3, <3>1, RemovalWent
  <2>4. CASE Goto(c, "delete", r)
    BY <1>1, <2>1, <2>2, <2>4, RemovalWent
  <2> QED  BY <1>3, <1>6, <2>3, <2>4
<1> QED  BY <1>2, <1>5, <1>6

LEMMA RemovalStepSound ==
  ASSUME RemovalInv, BranchStep
  PROVE  RemovalInv'
<1>0. StillUsed
  BY DEF BranchStep
<1> SUFFICES ASSUME NEW c \in Clients,
               \/ RemoveSend(c) \/ RemoveCount(c) \/ RemoveDelete(c) \/ BranchSave(c)
               \/ DocumentSave(c) \/ DocumentDelete(c) \/ UserSave(c) \/ UserDelete(c)
             PROVE  RemovalInv'
  BY DEF BranchStep
<1>1. CASE RemoveSend(c)
  <2>1. PICK b \in Branches : Arrive(c, "count", [id |-> b, next |-> 1, again |-> FALSE])
    BY <1>1 DEF RemoveSend
  <2>2. /\ pc[c] = "idle" /\ pc'[c] = "count" /\ UNCHANGED uses
        /\ req'[c] = [id |-> b, next |-> 1, again |-> FALSE]
        /\ RemovalTyped'
        /\ \A d \in Clients \ {c} : pc'[d] = pc[d] /\ req'[d] = req[d]
    BY <1>1, <2>1 DEF RemoveSend, Arrive, RemovalInv, RemovalTyped
  <2>3. kept'[c] \subseteq Pairs(uses')
    BY <1>0, <2>2 DEF StillUsed
  <2>4. Counted(c)' = {}
    BY <2>2 DEF Counted
  <2>5. req'[c] \in [id : Branches, next : 1..7, again : BOOLEAN]
    BY <2>2
  <2>6. RemovalHeld(c)'
    BY <2>2, <2>3, <2>4, <2>5 DEF RemovalHeld
  <2> QED  BY <1>0, <2>2, <2>6, RemovalOthersHeld DEF RemovalInv
<1>2. CASE RemoveCount(c)
  BY <1>0, <1>2, CountSound
<1>3. CASE RemoveDelete(c)
  <2>1. /\ pc'[c] = "idle" /\ RemovalTyped'
        /\ \A d \in Clients \ {c} : pc'[d] = pc[d] /\ req'[d] = req[d]
    BY <1>3 DEF RemoveDelete, Answer, RemovalInv, RemovalTyped
  <2> QED  BY <1>0, <2>1, RemovalAnswered
<1>4. CASE BranchSave(c) \/ DocumentSave(c) \/ DocumentDelete(c) \/ UserSave(c) \/ UserDelete(c)
  <2>1. UNCHANGED <<pc, req>> /\ DOMAIN uses' = DOMAIN uses
    BY <1>4 DEF BranchSave, DocumentSave, DocumentDelete, UserSave, UserDelete, AtOnce
  <2>2. RemovalTyped'
    BY <2>1 DEF RemovalInv, RemovalTyped
  <2> QED  BY <1>0, <2>1, <2>2, RemovalOthersHeld DEF RemovalInv
<1> QED  BY <1>1, <1>2, <1>3, <1>4

\* A branch goes only by the delete that its request came for.
LEMMA GoneByDelete ==
  ASSUME RemovalInv, BranchStep, NEW b \in branches \ branches'
  PROVE  /\ b \notin uses["users"]
         /\ \A c \in Clients : pc[c] = "delete" /\ pc'[c] = "idle" /\ req[c].id = b
              => \A k \in Documents : <<k, b>> \notin kept[c]
<1>1. PICK d \in Clients : RemoveDelete(d)
  BY DEF BranchStep, RemoveSend, RemoveCount, BranchSave, DocumentSave, DocumentDelete,
         UserSave, UserDelete
<1>2. b \notin uses["users"]
  BY <1>1 DEF RemoveDelete
<1>3. ASSUME NEW c \in Clients, pc[c] = "delete", req[c].id = b, NEW k \in Documents
      PROVE  <<k, b>> \notin kept[c]
  BY <1>3 DEF RemovalInv, RemovalHeld, Counted
<1> QED  BY <1>2, <1>3

\* However removals, saves and deletions overlap, a branch is not removed under an
\* account, nor under a document that named it all through the removal's request
\* (getBranchDeletionBlockers, deleteBranchApi).
THEOREM RemovesOnlyUnused == BranchSpec => RemovedOnlyUnused
<1>1. BranchInit /\ RequestInit => RemovalInv
  BY RemovalInitSound
<1>2. RemovalInv /\ [BranchStep]_<<branchVars, requestVars>> => RemovalInv'
  <2> SUFFICES ASSUME RemovalInv, UNCHANGED <<branchVars, requestVars>>  PROVE RemovalInv'
    BY RemovalStepSound
  <2> QED  BY DEF RemovalInv, RemovalTyped, RemovalHeld, Counted, branchVars, requestVars
<1>3. RemovalInv /\ [BranchStep]_<<branchVars, requestVars>> =>
        [\A b \in branches \ branches' :
           /\ b \notin uses["users"]
           /\ \A c \in Clients : pc[c] = "delete" /\ pc'[c] = "idle" /\ req[c].id = b
                => \A k \in Documents : <<k, b>> \notin kept[c]]_<<branchVars, requestVars>>
  BY GoneByDelete
<1> QED  BY <1>1, <1>2, <1>3, PTL DEF BranchSpec, RemovedOnlyUnused

-----------------------------------------------------------------------------
(***************************************************************************)
(* What "Without Edit Access" keeps an employee from, proved for every set *)
(* of modules, role defaults, patches and requests.  The permissions that  *)
(* are stored and those that are sent may be any keys of any generation:   *)
(* the proof rests on permissionsForStaffAccessLevel alone, and on the     *)
(* level never being left standing beside permissions of another origin.   *)
(***************************************************************************)
\* Permissions that let an employee neither edit nor delete.
Cut(perms) == \A k \in perms : k[2] \notin {"ALL", "EDIT", "DELETE"}

CutWithout(account) == account # Null /\ account.level = "without" => Cut(account.perms)

StaffInv ==
  /\ DOMAIN accounts = Staff
  /\ DOMAIN tokens = Staff
  /\ \A s \in Staff : CutWithout(accounts[s]) /\ CutWithout(tokens[s])

-----------------------------------------------------------------------------

LEMMA LevelCuts ==
  ASSUME NEW perms  PROVE Cut(ForLevel(perms, "without"))
<1>1. \A k \in Expanded(perms) : k[2] # "ALL"
  <2> SUFFICES ASSUME NEW k \in Expanded(perms)  PROVE k[2] # "ALL"
    OBVIOUS
  <2>1. CASE k \in {x \in perms : x[2] # "ALL"}
    BY <2>1
  <2>2. CASE k \in {<<x[1], a>> : x \in {x \in perms : x[2] = "ALL"}, a \in Actions \ {"DELETE"}}
    <3>1. PICK x \in perms, a \in Actions : k = <<x[1], a>>
      BY <2>2
    <3> QED  BY <3>1 DEF Actions
  <2> QED  BY <2>1, <2>2 DEF Expanded
<1> QED  BY <1>1 DEF ForLevel, Cut

LEMMA CutRefuses ==
  ASSUME NEW account, Cut(account.perms), ~ Bypasses(account.role), NEW m \in GranularModules
  PROVE  /\ ~ Allowed(account, m, "DELETE")
         /\ m \notin UpsertModules => ~ Allowed(account, m, "PUT")
<1> DEFINE keys == {k[2] : k \in {k \in account.perms : k[1] = m}}
<1>1. "ALL" \notin keys /\ "EDIT" \notin keys /\ "DELETE" \notin keys
  BY DEF Cut
<1>2. ActionOf["DELETE"] = "DELETE" /\ ActionOf["PUT"] = "EDIT"
  BY DEF ActionOf
<1>3. Allowed(account, m, "DELETE") <=>
        Bypasses(account.role) \/ {"ALL", ActionOf["DELETE"]} \cap keys # {}
  BY DEF Allowed
<1>4. m \notin UpsertModules =>
        (Allowed(account, m, "PUT") <=>
           Bypasses(account.role) \/ {"ALL", ActionOf["PUT"]} \cap keys # {})
  BY DEF Allowed
<1> QED  BY <1>1, <1>2, <1>3, <1>4

-----------------------------------------------------------------------------

LEMMA StaffInitSound == StaffInit => StaffInv
<1> SUFFICES ASSUME StaffInit  PROVE StaffInv
  OBVIOUS
<1>1. DOMAIN accounts = Staff /\ \A s \in Staff : accounts[s] # Null => accounts[s].level # "without"
  BY FirstAccountsAssumption DEF StaffInit
<1>2. DOMAIN tokens = Staff /\ \A s \in Staff : tokens[s] = Null
  BY DEF StaffInit
<1> QED  BY <1>1, <1>2 DEF StaffInv, CutWithout

\* Any account may be written whose level and permissions agree.
LEMMA AccountWritten ==
  ASSUME StaffInv, NEW s, NEW account, CutWithout(account),
         accounts' = [accounts EXCEPT ![s] = account], UNCHANGED tokens
  PROVE  StaffInv'
BY DEF StaffInv

\* A patch leaves no level beside permissions that were not computed for it.
LEMMA PatchCuts ==
  ASSUME NEW account, CutWithout(account), account # Null, NEW r
  PROVE  CutWithout(Patched(account, r))
<1> DEFINE base == IF Has(r, "perms") THEN r.body.perms ELSE r.perms
           new  == Patched(account, r)
<1>1. CASE Has(r, "level")
  <2>1. new.perms = ForLevel(base, r.body.level) /\ new.level = r.body.level
    BY <1>1 DEF Patched
  <2> QED  BY <2>1, LevelCuts DEF CutWithout
<1>2. CASE ~ Has(r, "level") /\ Has(r, "perms")
  <2>1. new.level = Null
    BY <1>2 DEF Patched
  <2> QED  BY <2>1, FirstAccountsAssumption DEF CutWithout
<1>3. CASE ~ Has(r, "level") /\ ~ Has(r, "perms")
  <2>1. new.perms = account.perms /\ new.level = account.level
    BY <1>3 DEF Patched
  <2> QED  BY <2>1 DEF CutWithout
<1> QED  BY <1>1, <1>2, <1>3

LEMMA StaffStepSound ==
  ASSUME StaffInv, StaffStep  PROVE StaffInv'
<1>1. CASE \E s \in Staff : SignIn(s)
  BY <1>1 DEF SignIn, StaffInv
<1>2. ASSUME NEW c \in Clients, PostCreate(c)  PROVE StaffInv'
  <2> DEFINE r == req[c]
             new == [role |-> r.body.role, perms |-> Defaults(r.body.role, r.body.level),
                     level |-> r.body.level]
  <2>1. CutWithout(new)
    BY LevelCuts DEF CutWithout, Defaults
  <2>2. CASE accounts' = [accounts EXCEPT ![r.of] = new]
    BY <1>2, <2>1, <2>2, AccountWritten DEF PostCreate
  <2>3. CASE UNCHANGED accounts
    BY <1>2, <2>3 DEF PostCreate, StaffInv
  <2> QED  BY <1>2, <2>2, <2>3 DEF PostCreate
<1>3. ASSUME NEW c \in Clients, PutWrite(c)  PROVE StaffInv'
  <2> DEFINE r == req[c]
  <2>1. CASE accounts[r.of] = Null \/ r.of \notin Staff
    BY <1>3, <2>1 DEF PutWrite, StaffInv
  <2>2. CASE accounts[r.of] # Null /\ r.of \in Staff
    <3>1. CutWithout(Patched(accounts[r.of], r))
      BY <2>2, PatchCuts DEF StaffInv
    <3>2. accounts' = [accounts EXCEPT ![r.of] = Patched(accounts[r.of], r)] /\ UNCHANGED tokens
      BY <1>3, <2>2 DEF PutWrite
    <3> QED  BY <3>1, <3>2, AccountWritten
  <2> QED  BY <2>1, <2>2
<1>4. ASSUME NEW c \in Clients, DeleteAccount(c)  PROVE StaffInv'
  <2>1. CutWithout(Null)
    BY DEF CutWithout
  <2> QED  BY <1>4, <2>1, AccountWritten DEF DeleteAccount
<1>5. ASSUME NEW c \in Clients,
             \/ PostUser(c) \/ PostCheck(c) \/ PutUser(c) \/ PutCheck(c) \/ PutRead(c)
             \/ DeleteUser(c) \/ DeleteFind(c)
      PROVE  StaffInv'
  <2>1. UNCHANGED staffVars
    BY <1>5 DEF PostUser, PostCheck, PutUser, PutCheck, PutRead, DeleteUser, DeleteFind, Send
  <2> QED  BY <2>1 DEF staffVars, StaffInv
<1> QED  BY <1>1, <1>2, <1>3, <1>4, <1>5 DEF StaffStep

\* Whatever keys accounts have had and are sent, and however requests about them
\* overlap, an employee who signed in without edit access deletes nothing of a module
\* with granular keys and edits only where a creation is a PUT
\* (permissionsForStaffAccessLevel, hasPermissionForMethod).
THEOREM WithoutEdit == StaffSpec => []WithoutEditKeepsOut
<1>1. StaffInit => StaffInv
  BY StaffInitSound
<1>2. StaffInv /\ [StaffStep]_<<staffVars, requestVars>> => StaffInv'
  <2> SUFFICES ASSUME StaffInv, UNCHANGED <<staffVars, requestVars>>  PROVE StaffInv'
    BY StaffStepSound
  <2> QED  BY DEF staffVars, StaffInv
<1>3. StaffInv => WithoutEditKeepsOut
  BY CutRefuses DEF StaffInv, CutWithout, WithoutEditKeepsOut
<1> QED  BY <1>1, <1>2, <1>3, PTL DEF StaffSpec

-----------------------------------------------------------------------------
(***************************************************************************)
(* Pickups and drop-offs follow the appointment, proved for any number of  *)
(* appointments served one at a time.  A save is several calls, and may be *)
(* cut off after each: the invariant says how far the one under way has    *)
(* come, and that every appointment that is neither in its hands nor       *)
(* astray has the requests it should have.                                 *)
(***************************************************************************)

Saving  == [id : Appts, new : Appt, had : BOOLEAN, driver : Drivers \cup {Null}]
Syncing == [id : Appts, new : Appt, driver : Drivers \cup {Null}, side : Sides]
Writing == [id : Appts, new : Appt, driver : Drivers \cup {Null}, side : Sides,
            old : Trip \cup {Null}]
Leaving == [id : Appts, side : Sides]

\* What a request holds at each of its steps.
ApptForm(c) ==
  /\ pc[c] = "appt.read" => req[c] \in [id : Appts, doc : ApptBody]
  /\ pc[c] \in {"appt.write", "appt.row"} => req[c] \in Saving
  /\ pc[c] = "trip.read" => req[c] \in Syncing
  /\ pc[c] = "trip.write" => req[c] \in Writing
  /\ pc[c] = "trip.delete" => req[c] \in Syncing \cup Leaving
  /\ pc[c] = "row.delete" => req[c] \in Leaving
  /\ pc[c] = "appt.saved" => req[c] \in Syncing \cup Writing
  /\ pc[c] = "appts.list" =>
       \A a \in DOMAIN req[c].docs :
         /\ a \in Appts
         /\ req[c].docs[a] \in [pickup : Pickups \cup {"unset"}, date : Dates]
  /\ pc[c] = "appts.replace" => \A a \in DOMAIN req[c].docs : req[c].docs[a] \in Appt

Made(a, s) == trips[a][s] # Null /\ trips[a][s].date = appts[a].date

InStep(a) == \A s \in Sides : IF Wanted(a) THEN Made(a, s) ELSE trips[a][s] = Null

\* How far a request has come with its appointment.
Progress(c) ==
  LET r == req[c]
      a == r.id
  IN
  /\ pc[c] = "appt.write" => (r.had <=> Wanted(a))
  /\ pc[c] \in {"appt.row", "trip.read", "trip.write", "appt.saved"} => appts[a] = r.new
  /\ pc[c] = "appt.row" => (a \notin astray /\ ~ r.had => \A s \in Sides : trips[a][s] = Null)
  /\ pc[c] \in {"trip.read", "trip.write"} =>
       r.new.pickup = "yes" /\ (r.side = "DROP_OFF" => Made(a, "PICKUP"))
  /\ pc[c] = "trip.delete" =>
       /\ IF r \in Leaving THEN appts[a] = Null
          ELSE r.new.pickup = "no" /\ appts[a] = r.new
       /\ r.side = "DROP_OFF" => trips[a]["PICKUP"] = Null
  /\ pc[c] = "row.delete" => appts[a] = Null /\ InStep(a)
  /\ pc[c] = "appt.saved" =>
       (r.new.pickup = "yes" \/ (r.new.pickup = "no" /\ a \notin astray) => InStep(a))
  /\ pc[c] = "appts.rows" => astray = Appts

\* The appointment is in the hands of the request.
Handles(c, a) ==
  /\ pc[c] \in {"appt.row", "trip.read", "trip.write", "trip.delete", "row.delete", "appt.saved"}
  /\ req[c].id = a

ApptTyped ==
  /\ appts \in [Appts -> Appt \cup {Null}]
  /\ trips \in [Appts -> [Sides -> Trip \cup {Null}]]
  /\ pc = [c \in Clients |-> pc[c]]
  /\ req = [c \in Clients |-> req[c]]

ApptInv ==
  /\ ApptTyped
  /\ \A c, d \in Clients : pc[c] # "idle" /\ pc[d] # "idle" => c = d
  /\ \A c \in Clients : ApptForm(c) /\ Progress(c)
  /\ \A a \in Appts \ astray : InStep(a) \/ \E c \in Clients : Handles(c, a)

-----------------------------------------------------------------------------

LEMMA ApptInitSound == ApptInit /\ RequestInit => ApptInv
BY DEF ApptInit, RequestInit, ApptInv, ApptTyped, ApptForm, Progress, InStep, Wanted

\* A step of the only request under way, after which its own part holds.
LEMMA ApptStepped ==
  ASSUME ApptInv, NEW c \in Clients, Quiet \/ pc[c] # "idle",
         ApptTyped', pc' = [pc EXCEPT ![c] = pc'[c]],
         ApptForm(c)', Progress(c)',
         \A a \in Appts : a \notin astray' => InStep(a)' \/ Handles(c, a)'
  PROVE  ApptInv'
<1>1. \A d \in Clients : d # c => pc'[d] = "idle"
  BY DEF ApptInv, ApptTyped, Quiet
<1>2. \A d \in Clients : d # c => ApptForm(d)' /\ Progress(d)'
  BY <1>1 DEF ApptForm, Progress
<1> QED  BY <1>1, <1>2 DEF ApptInv

\* Then nothing else was in a request's hands.
LEMMA OthersInStep ==
  ASSUME ApptInv, NEW c \in Clients, Quiet \/ pc[c] # "idle",
         NEW a \in Appts, a \notin astray, ~ Handles(c, a)
  PROVE  InStep(a)
<1>1. \A d \in Clients : d # c => pc[d] = "idle"
  BY DEF ApptInv, Quiet
<1>2. \A d \in Clients : ~ Handles(d, a)
  BY <1>1 DEF Handles
<1> QED  BY <1>2 DEF ApptInv

\* What is not written stays in step.
LEMMA StaysInStep ==
  ASSUME NEW a, appts'[a] = appts[a], trips'[a] = trips[a], InStep(a)
  PROVE  InStep(a)'
BY DEF InStep, Wanted, Made

LEMMA NormalizedIsAppt ==
  ASSUME NEW prev \in Appt \cup {Null},
         NEW doc, doc.pickup \in Pickups \cup {"unset"}, doc.date \in Dates
  PROVE  Normalize(doc, prev) \in Appt
<1>1. prev # Null => prev.pickup \in Pickups
  BY DEF Appt
<1>2. Normalize(doc, prev).pickup \in Pickups /\ Normalize(doc, prev).date \in Dates
  BY <1>1 DEF Normalize, Pickups
<1> QED  BY <1>2 DEF Normalize, Appt

-----------------------------------------------------------------------------
\* A save, as far as its row.

LEMMA ApptSendSound ==
  ASSUME ApptInv, NEW c \in Clients, Quiet \/ pc[c] # "idle", ApptSend(c)
  PROVE  ApptInv'
<1>1. PICK a \in Appts, doc \in ApptBody : Arrive(c, "appt.read", [id |-> a, doc |-> doc])
  BY DEF ApptSend
<1>2. /\ UNCHANGED <<appts, trips, astray>> /\ pc[c] = "idle" /\ pc'[c] = "appt.read"
      /\ req'[c] = [id |-> a, doc |-> doc] /\ ApptTyped' /\ pc' = [pc EXCEPT ![c] = pc'[c]]
  BY <1>1 DEF ApptSend, Arrive, ApptInv, ApptTyped
<1>3. ApptForm(c)' /\ Progress(c)'
  BY <1>2 DEF ApptForm, Progress
<1>4. \A b \in Appts : b \notin astray' => InStep(b)'
  BY <1>2, OthersInStep, StaysInStep DEF Handles
<1> QED  BY <1>2, <1>3, <1>4, ApptStepped

LEMMA ApptReadSound ==
  ASSUME ApptInv, NEW c \in Clients, ApptRead(c)
  PROVE  ApptInv'
<1>0. PICK a \in Appts : a = req[c].id
  BY DEF ApptRead, ApptInv, ApptForm
<1> DEFINE new == Normalize(req[c].doc, appts[a])
           r == [id |-> a, new |-> new, had |-> Wanted(a), driver |-> req[c].doc.driver]
<1>1. pc[c] = "appt.read" /\ req[c] \in [id : Appts, doc : ApptBody]
  BY DEF ApptRead, ApptInv, ApptForm
<1>2. /\ a \in Appts /\ req[c].doc.driver \in Drivers \cup {Null}
      /\ req[c].doc.pickup \in Pickups \cup {"unset"} /\ req[c].doc.date \in Dates
  BY <1>0, <1>1 DEF ApptBody
<1>3. new \in Appt
  BY <1>2, NormalizedIsAppt DEF ApptInv, ApptTyped
<1>4. Goto(c, "appt.write", r)
  BY <1>0 DEF ApptRead, Wanted
<1>5. /\ UNCHANGED <<appts, trips, astray>> /\ pc'[c] = "appt.write" /\ req'[c] = r
      /\ ApptTyped' /\ pc' = [pc EXCEPT ![c] = pc'[c]]
  BY <1>4 DEF ApptRead, Goto, ApptInv, ApptTyped
<1>6. r \in Saving
  <2>1. Wanted(a) \in BOOLEAN
    BY DEF Wanted
  <2> HIDE DEF new
  <2> QED  BY <1>2, <1>3, <2>1 DEF Saving
<1>7. Wanted(a)' <=> Wanted(a)
  BY <1>5 DEF Wanted
<1>8. r.id = a /\ r.had = Wanted(a)
  OBVIOUS
<1> HIDE DEF r, new
<1>9. ApptForm(c)'
  BY <1>5, <1>6 DEF ApptForm
<1>10. Progress(c)'
  BY <1>5, <1>7, <1>8 DEF Progress, Wanted
<1>11. \A b \in Appts : b \notin astray' => InStep(b)'
  BY <1>1, <1>5, OthersInStep, StaysInStep DEF Handles
<1> QED  BY <1>1, <1>5, <1>9, <1>10, <1>11, ApptStepped

LEMMA ApptWriteSound ==
  ASSUME ApptInv, NEW c \in Clients, ApptWrite(c)
  PROVE  ApptInv'
<1>0. PICK a \in Appts : a = req[c].id
  BY DEF ApptWrite, ApptInv, ApptForm, Saving
<1>1. /\ pc[c] = "appt.write" /\ req[c] \in Saving /\ a \in Appts /\ req[c].new \in Appt
      /\ (req[c].had <=> Wanted(a))
  BY <1>0 DEF ApptWrite, ApptInv, ApptForm, Progress, Saving
<1>2. /\ appts' = [appts EXCEPT ![a] = req[c].new] /\ UNCHANGED <<trips, astray>>
      /\ pc'[c] = "appt.row" /\ req'[c] = req[c] /\ pc' = [pc EXCEPT ![c] = pc'[c]]
  BY <1>0 DEF ApptWrite, Goto, ApptInv, ApptTyped
<1>3. ApptTyped'
  BY <1>0, <1>1, <1>2 DEF ApptWrite, Goto, ApptInv, ApptTyped
<1>4. appts'[a] = req[c].new
  BY <1>1, <1>2 DEF ApptInv, ApptTyped
<1>5. a \notin astray /\ ~ req[c].had => \A s \in Sides : trips[a][s] = Null
  BY <1>0, <1>1, OthersInStep DEF Handles, InStep
<1>6. ApptForm(c)' /\ Progress(c)'
  BY <1>0, <1>1, <1>2, <1>4, <1>5 DEF ApptForm, Progress
<1>7. ASSUME NEW b \in Appts, b \notin astray', b # a  PROVE InStep(b)'
  <2>1. InStep(b)
    BY <1>0, <1>1, <1>2, <1>7, OthersInStep DEF Handles
  <2> QED  BY <1>2, <1>7, <2>1, StaysInStep DEF ApptInv, ApptTyped
<1>8. Handles(c, a)'
  BY <1>0, <1>2 DEF Handles
<1> QED  BY <1>1, <1>2, <1>3, <1>6, <1>7, <1>8, ApptStepped

LEMMA ApptRowSound ==
  ASSUME ApptInv, NEW c \in Clients, ApptRow(c)
  PROVE  ApptInv'
<1>0. PICK a \in Appts : a = req[c].id
  BY DEF ApptRow, ApptInv, ApptForm, Saving
<1> DEFINE r == [id |-> a, new |-> req[c].new, driver |-> req[c].driver, side |-> "PICKUP"]
<1>1. /\ pc[c] = "appt.row" /\ req[c] \in Saving /\ appts[a] = req[c].new
      /\ (a \notin astray /\ ~ req[c].had => \A s \in Sides : trips[a][s] = Null)
  BY <1>0 DEF ApptRow, ApptInv, ApptForm, Progress
<1>2. /\ a \in Appts /\ req[c].new \in Appt /\ req[c].new.pickup \in Pickups
      /\ req[c].driver \in Drivers \cup {Null}
  BY <1>0, <1>1 DEF Saving, Appt
<1>3. /\ UNCHANGED <<appts, trips, astray>> /\ pc'[c] = AfterRow(req[c]) /\ req'[c] = r
      /\ ApptTyped' /\ pc' = [pc EXCEPT ![c] = pc'[c]]
  BY <1>0 DEF ApptRow, Goto, ApptInv, ApptTyped
<1>4. r \in Syncing /\ r.id = a /\ r.new = req[c].new /\ r.side = "PICKUP" /\ r \notin Leaving
  <2>1. r \in Syncing
    BY <1>2 DEF Syncing, Sides
  <2>2. "new" \in DOMAIN r /\ \A x \in Leaving : "new" \notin DOMAIN x
    BY DEF Leaving
  <2> QED  BY <2>1, <2>2
<1> HIDE DEF r
<1>5. /\ pc'[c] \in {"trip.read", "trip.delete", "appt.saved"}
      /\ pc'[c] = "trip.read" => req[c].new.pickup = "yes"
      /\ pc'[c] = "trip.delete" => req[c].new.pickup = "no"
      /\ pc'[c] = "appt.saved" =>
           /\ req[c].new.pickup # "yes"
           /\ req[c].new.pickup = "no" => ~ req[c].had
  BY <1>3 DEF AfterRow
<1>6. ApptForm(c)'
  BY <1>3, <1>4, <1>5 DEF ApptForm
<1>7. pc'[c] = "appt.saved" /\ req[c].new.pickup = "no" /\ a \notin astray => InStep(a)'
  BY <1>1, <1>2, <1>3, <1>5 DEF InStep, Wanted
<1>8. Progress(c)'
  BY <1>1, <1>3, <1>4, <1>5, <1>7 DEF Progress
<1>9. ASSUME NEW b \in Appts, b \notin astray', b # a  PROVE InStep(b)'
  <2>1. InStep(b)
    BY <1>0, <1>1, <1>3, <1>9, OthersInStep DEF Handles
  <2> QED  BY <1>3, <2>1, StaysInStep
<1>10. Handles(c, a)'
  BY <1>3, <1>4, <1>5 DEF Handles
<1> QED  BY <1>1, <1>3, <1>6, <1>8, <1>9, <1>10, ApptStepped

-----------------------------------------------------------------------------
\* The pickup and the drop-off request of a save, or their deletion.

LEMMA TripReadSound ==
  ASSUME ApptInv, NEW c \in Clients, TripRead(c)
  PROVE  ApptInv'
<1>0. PICK a \in Appts, side \in Sides : a = req[c].id /\ side = req[c].side
  BY DEF TripRead, ApptInv, ApptForm, Syncing
<1> DEFINE r == [id |-> a, new |-> req[c].new, driver |-> req[c].driver, side |-> side,
                 old |-> trips[a][side]]
<1>1. /\ pc[c] = "trip.read" /\ req[c] \in Syncing /\ appts[a] = req[c].new
      /\ req[c].new.pickup = "yes" /\ (side = "DROP_OFF" => Made(a, "PICKUP"))
  BY <1>0 DEF TripRead, ApptInv, ApptForm, Progress
<1>2. /\ req[c].new \in Appt /\ req[c].driver \in Drivers \cup {Null}
      /\ trips[a][side] \in Trip \cup {Null}
  BY <1>1 DEF Syncing, ApptInv, ApptTyped
<1>3. /\ UNCHANGED <<appts, trips, astray>> /\ pc'[c] = "trip.write" /\ req'[c] = r
      /\ ApptTyped' /\ pc' = [pc EXCEPT ![c] = pc'[c]]
  BY <1>0 DEF TripRead, Goto, ApptInv, ApptTyped
<1>4. r \in Writing /\ r.id = a /\ r.new = req[c].new /\ r.side = side
  BY <1>2 DEF Writing
<1> HIDE DEF r
<1>5. ApptForm(c)'
  BY <1>3, <1>4 DEF ApptForm
<1>6. Made(a, "PICKUP") => Made(a, "PICKUP")'
  BY <1>3 DEF Made
<1>7. Progress(c)'
  BY <1>1, <1>3, <1>4, <1>6 DEF Progress
<1>8. ASSUME NEW b \in Appts, b \notin astray', b # a  PROVE InStep(b)'
  <2>1. InStep(b)
    BY <1>0, <1>1, <1>3, <1>8, OthersInStep DEF Handles
  <2> QED  BY <1>3, <2>1, StaysInStep
<1>9. Handles(c, a)'
  BY <1>3, <1>4 DEF Handles
<1> QED  BY <1>1, <1>3, <1>5, <1>7, <1>8, <1>9, ApptStepped

LEMMA TripWriteSound ==
  ASSUME ApptInv, NEW c \in Clients, TripWrite(c)
  PROVE  ApptInv'
<1>0. PICK a \in Appts, side \in Sides : a = req[c].id /\ side = req[c].side
  BY DEF TripWrite, ApptInv, ApptForm, Writing
<1>1. /\ pc[c] = "trip.write" /\ req[c] \in Writing /\ appts[a] = req[c].new
      /\ req[c].new.pickup = "yes" /\ (side = "DROP_OFF" => Made(a, "PICKUP"))
  BY <1>0 DEF TripWrite, ApptInv, ApptForm, Progress
<1>2. /\ req[c].new \in Appt /\ req[c].new.date \in Dates
      /\ req[c].driver \in Drivers \cup {Null} /\ req[c].old \in Trip \cup {Null}
  BY <1>1 DEF Writing, Appt
<1> DEFINE assigned == IF req[c].old = Null THEN Null ELSE req[c].old.driver
           trip == [date |-> req[c].new.date,
                    driver |-> IF req[c].driver # Null THEN req[c].driver ELSE assigned]
           on == [id |-> a, new |-> req[c].new, driver |-> req[c].driver, side |-> "DROP_OFF"]
<1>3. assigned \in Drivers \cup {Null}
  BY <1>2 DEF Trip
<1>4. trip \in Trip /\ trip.date = appts[a].date /\ trip # Null
  <2>1. trip \in Trip
    BY <1>2, <1>3 DEF Trip
  <2> QED  BY <1>1, <2>1, ApptAssumption
<1>5. /\ trips' = [trips EXCEPT ![a][side] = trip] /\ UNCHANGED <<appts, astray>>
      /\ IF side = "PICKUP" THEN Goto(c, "trip.read", on) ELSE Goto(c, "appt.saved", req[c])
  BY <1>0 DEF TripWrite
<1> HIDE DEF trip
<1>6. /\ trips'[a][side] = trip
      /\ \A s \in Sides : s # side => trips'[a][s] = trips[a][s]
      /\ \A b \in Appts : b # a => trips'[b] = trips[b]
      /\ trips' \in [Appts -> [Sides -> Trip \cup {Null}]]
  BY <1>4, <1>5 DEF ApptInv, ApptTyped
<1>7. /\ pc'[c] = IF side = "PICKUP" THEN "trip.read" ELSE "appt.saved"
      /\ req'[c] = IF side = "PICKUP" THEN on ELSE req[c]
      /\ ApptTyped' /\ pc' = [pc EXCEPT ![c] = pc'[c]]
  BY <1>5, <1>6 DEF Goto, ApptInv, ApptTyped
<1>8. on \in Syncing /\ on.id = a /\ on.new = req[c].new /\ on.side = "DROP_OFF"
  BY <1>2 DEF Syncing, Sides
<1> HIDE DEF on
<1>9. ApptForm(c)'
  BY <1>1, <1>7, <1>8 DEF ApptForm
<1>10. Made(a, side)'
  BY <1>4, <1>5, <1>6 DEF Made
<1>11. side # "PICKUP" => InStep(a)'
  BY <1>1, <1>2, <1>5, <1>6, <1>10, ApptAssumption DEF InStep, Wanted, Made, Sides
<1>12. Progress(c)'
  BY <1>0, <1>1, <1>5, <1>7, <1>8, <1>10, <1>11 DEF Progress, Sides
<1>13. ASSUME NEW b \in Appts, b \notin astray', b # a  PROVE InStep(b)'
  <2>1. InStep(b)
    BY <1>0, <1>1, <1>5, <1>13, OthersInStep DEF Handles
  <2> QED  BY <1>5, <1>6, <1>13, <2>1, StaysInStep
<1>14. Handles(c, a)'
  BY <1>0, <1>7, <1>8 DEF Handles
<1> QED  BY <1>1, <1>7, <1>9, <1>12, <1>13, <1>14, ApptStepped

LEMMA TripDeleteSound ==
  ASSUME ApptInv, NEW c \in Clients, TripDelete(c)
  PROVE  ApptInv'
<1>0. PICK a \in Appts, side \in Sides : a = req[c].id /\ side = req[c].side
  BY DEF TripDelete, ApptInv, ApptForm, Syncing, Leaving
<1>1. /\ pc[c] = "trip.delete" /\ req[c] \in Syncing \cup Leaving
      /\ IF req[c] \in Leaving THEN appts[a] = Null
         ELSE req[c].new.pickup = "no" /\ appts[a] = req[c].new
      /\ side = "DROP_OFF" => trips[a]["PICKUP"] = Null
  BY <1>0 DEF TripDelete, ApptInv, ApptForm, Progress
<1> DEFINE on == [req[c] EXCEPT !.side = "DROP_OFF"]
           next == IF "new" \in DOMAIN req[c] THEN "appt.saved" ELSE "row.delete"
<1>2. /\ trips' = [trips EXCEPT ![a][side] = Null] /\ UNCHANGED <<appts, astray>>
      /\ IF side = "PICKUP" THEN Goto(c, "trip.delete", on) ELSE Goto(c, next, req[c])
  BY <1>0 DEF TripDelete
<1>3. /\ trips'[a][side] = Null
      /\ \A s \in Sides : s # side => trips'[a][s] = trips[a][s]
      /\ \A b \in Appts : b # a => trips'[b] = trips[b]
      /\ trips' \in [Appts -> [Sides -> Trip \cup {Null}]]
  BY <1>2 DEF ApptInv, ApptTyped
<1>4. /\ pc'[c] = IF side = "PICKUP" THEN "trip.delete" ELSE next
      /\ req'[c] = IF side = "PICKUP" THEN on ELSE req[c]
      /\ ApptTyped' /\ pc' = [pc EXCEPT ![c] = pc'[c]]
  BY <1>2, <1>3 DEF Goto, ApptInv, ApptTyped
<1>5. (req[c] \in Leaving <=> "new" \notin DOMAIN req[c])
  BY <1>1 DEF Syncing, Leaving
<1>6. CASE req[c] \in Syncing
  <2>1. on \in Syncing /\ on.id = a /\ on.new = req[c].new /\ on.side = "DROP_OFF"
    BY <1>0, <1>6 DEF Syncing, Sides
  <2>2. "new" \in DOMAIN req[c] /\ "new" \in DOMAIN on
    BY <1>6 DEF Syncing
  <2>3. on \notin Leaving /\ req[c] \notin Leaving
    BY <2>2 DEF Leaving
  <2> HIDE DEF on
  <2>4. ApptForm(c)'
    BY <1>4, <1>6, <2>1, <2>2 DEF ApptForm
  <2>5. ~ Wanted(a)'
    BY <1>1, <1>2, <2>3 DEF Wanted
  <2>6. side # "PICKUP" => InStep(a)'
    BY <1>1, <1>3, <2>5 DEF InStep, Sides
  <2>7. Progress(c)'
    BY <1>0, <1>1, <1>2, <1>3, <1>4, <2>1, <2>2, <2>3, <2>6 DEF Progress, Sides
  <2>8. Handles(c, a)'
    BY <1>0, <1>4, <2>1, <2>2 DEF Handles
  <2> QED  BY <2>4, <2>7, <2>8, <1>0, <1>1, <1>2, <1>3, <1>4, OthersInStep, StaysInStep, ApptStepped
           DEF Handles
<1>7. CASE req[c] \in Leaving
  <2>1. on \in Leaving /\ on.id = a /\ on.side = "DROP_OFF"
    BY <1>0, <1>7 DEF Leaving, Sides
  <2>2. "new" \notin DOMAIN req[c]
    BY <1>5, <1>7
  <2> HIDE DEF on
  <2>3. ApptForm(c)'
    BY <1>4, <1>7, <2>1, <2>2 DEF ApptForm
  <2>4. ~ Wanted(a)'
    BY <1>1, <1>2, <1>7 DEF Wanted
  <2>5. side # "PICKUP" => InStep(a)'
    BY <1>1, <1>3, <2>4 DEF InStep, Sides
  <2>6. Progress(c)'
    BY <1>0, <1>1, <1>2, <1>3, <1>4, <1>7, <2>1, <2>2, <2>5 DEF Progress, Sides
  <2>7. Handles(c, a)'
    BY <1>0, <1>4, <2>1, <2>2 DEF Handles
  <2> QED  BY <2>3, <2>6, <2>7, <1>0, <1>1, <1>2, <1>3, <1>4, OthersInStep, StaysInStep, ApptStepped
           DEF Handles
<1> QED  BY <1>1, <1>6, <1>7

-----------------------------------------------------------------------------
\* The end of a save, and the other requests.

\* A request that ends, leaving the appointments in step.
LEMMA ApptAnswered ==
  ASSUME ApptInv, NEW c \in Clients, pc[c] # "idle", Answer(c), UNCHANGED <<appts, trips>>,
         \A a \in Appts : a \notin astray' => InStep(a)
  PROVE  ApptInv'
<1>1. /\ pc'[c] = "idle" /\ ApptTyped' /\ pc' = [pc EXCEPT ![c] = pc'[c]]
  BY DEF Answer, ApptInv, ApptTyped
<1>2. ApptForm(c)' /\ Progress(c)'
  BY <1>1 DEF ApptForm, Progress
<1> QED  BY <1>1, <1>2, ApptStepped, StaysInStep

LEMMA ApptSavedSound ==
  ASSUME ApptInv, NEW c \in Clients, ApptSaved(c)
  PROVE  ApptInv'
<1>0. PICK a \in Appts : a = req[c].id
  BY DEF ApptSaved, ApptInv, ApptForm, Syncing, Writing
<1>1. /\ pc[c] = "appt.saved" /\ req[c].new.pickup \in Pickups /\ Answer(c)
      /\ UNCHANGED <<appts, trips>>
      /\ (req[c].new.pickup = "yes" \/ (req[c].new.pickup = "no" /\ a \notin astray) => InStep(a))
  <2>1. req[c] \in Syncing \cup Writing /\ pc[c] = "appt.saved" /\ Progress(c)
    BY DEF ApptSaved, ApptInv, ApptForm
  <2>2. req[c].new \in Appt
    BY <2>1 DEF Syncing, Writing
  <2> QED  BY <1>0, <2>1, <2>2 DEF ApptSaved, Progress, Appt
<1>2. ASSUME NEW b \in Appts, b # a, b \notin astray'  PROVE b \notin astray
  BY <1>0, <1>1, <1>2 DEF ApptSaved, Pickups
<1>3. a \notin astray' => InStep(a)
  BY <1>0, <1>1 DEF ApptSaved, Pickups
<1>4. ASSUME NEW b \in Appts, b # a, b \notin astray'  PROVE InStep(b)
  BY <1>0, <1>1, <1>2, <1>4, OthersInStep DEF Handles
<1> QED  BY <1>1, <1>3, <1>4, ApptAnswered

LEMMA ApptDeleteSound ==
  ASSUME ApptInv, NEW c \in Clients, Quiet \/ pc[c] # "idle", ApptDelete(c)
  PROVE  ApptInv'
<1>1. PICK a \in Appts :
        /\ appts' = [appts EXCEPT ![a] = Null]
        /\ Arrive(c, "trip.delete", [id |-> a, side |-> "PICKUP"])
  BY DEF ApptDelete
<1>2. /\ UNCHANGED <<trips, astray>> /\ pc[c] = "idle" /\ pc'[c] = "trip.delete"
      /\ req'[c] = [id |-> a, side |-> "PICKUP"] /\ appts'[a] = Null
      /\ ApptTyped' /\ pc' = [pc EXCEPT ![c] = pc'[c]]
      /\ \A b \in Appts : b # a => appts'[b] = appts[b]
  BY <1>1 DEF ApptDelete, Arrive, ApptInv, ApptTyped
<1>3. [id |-> a, side |-> "PICKUP"] \in Leaving
  BY DEF Leaving, Sides
<1>4. ApptForm(c)' /\ Progress(c)' /\ Handles(c, a)'
  BY <1>2, <1>3 DEF ApptForm, Progress, Handles
<1>5. ASSUME NEW b \in Appts, b \notin astray', b # a  PROVE InStep(b)'
  BY <1>2, <1>5, OthersInStep, StaysInStep DEF Handles
<1> QED  BY <1>2, <1>4, <1>5, ApptStepped

LEMMA RowDeleteSound ==
  ASSUME ApptInv, NEW c \in Clients, RowDelete(c)
  PROVE  ApptInv'
<1>0. PICK a \in Appts : a = req[c].id
  BY DEF RowDelete, ApptInv, ApptForm, Leaving
<1>1. pc[c] = "row.delete" /\ InStep(a)
  BY <1>0 DEF RowDelete, ApptInv, Progress
<1>2. \A b \in Appts : b # a /\ b \notin astray' => InStep(b)
  BY <1>0, <1>1, OthersInStep DEF RowDelete, Handles
<1> QED  BY <1>1, <1>2, ApptAnswered DEF RowDelete

LEMMA ApptsSendSound ==
  ASSUME ApptInv, NEW c \in Clients, Quiet \/ pc[c] # "idle", ApptsSend(c)
  PROVE  ApptInv'
<1>1. PICK S \in SUBSET Appts :
        \E docs \in [S -> [pickup : {"yes", "no", "unset"}, date : Dates]] :
          Arrive(c, "appts.list", [docs |-> docs])
  BY DEF ApptsSend
<1>2. PICK docs \in [S -> [pickup : {"yes", "no", "unset"}, date : Dates]] :
        Arrive(c, "appts.list", [docs |-> docs])
  BY <1>1
<1>3. /\ UNCHANGED <<appts, trips, astray>> /\ pc[c] = "idle" /\ pc'[c] = "appts.list"
      /\ req'[c].docs = docs /\ ApptTyped' /\ pc' = [pc EXCEPT ![c] = pc'[c]]
  BY <1>2 DEF ApptsSend, Arrive, ApptInv, ApptTyped
<1>4. \A a \in DOMAIN docs : docs[a] \in [pickup : Pickups \cup {"unset"}, date : Dates]
  BY DEF Pickups
<1>5. ApptForm(c)' /\ Progress(c)'
  BY <1>3, <1>4 DEF ApptForm, Progress
<1> QED  BY <1>3, <1>5, ApptStepped, OthersInStep, StaysInStep DEF Handles

LEMMA ApptsListSound ==
  ASSUME ApptInv, NEW c \in Clients, ApptsList(c)
  PROVE  ApptInv'
<1> DEFINE docs == [a \in DOMAIN req[c].docs |-> Normalize(req[c].docs[a], appts[a])]
<1>1. /\ pc[c] = "appts.list"
      /\ \A a \in DOMAIN req[c].docs :
           a \in Appts /\ req[c].docs[a] \in [pickup : Pickups \cup {"unset"}, date : Dates]
  BY DEF ApptsList, ApptInv, ApptForm
<1>2. Goto(c, "appts.replace", [docs |-> docs])
  BY DEF ApptsList
<1> HIDE DEF docs
<1> DEFINE r == [docs |-> docs]
<1>3. r.docs = docs
  OBVIOUS
<1> HIDE DEF r
<1>4. /\ UNCHANGED <<appts, trips, astray>> /\ pc'[c] = "appts.replace"
      /\ req'[c] = r /\ ApptTyped' /\ pc' = [pc EXCEPT ![c] = pc'[c]]
  BY <1>2 DEF r, ApptsList, Goto, ApptInv, ApptTyped
<1>5. ASSUME NEW a \in DOMAIN docs  PROVE docs[a] \in Appt
  <2>1. a \in DOMAIN req[c].docs /\ appts[a] \in Appt \cup {Null}
    BY <1>1 DEF docs, ApptInv, ApptTyped
  <2> QED  BY <1>1, <2>1, NormalizedIsAppt DEF docs
<1>6. ApptForm(c)' /\ Progress(c)'
  BY <1>3, <1>4, <1>5 DEF ApptForm, Progress
<1> QED  BY <1>1, <1>4, <1>6, ApptStepped, OthersInStep, StaysInStep DEF Handles

LEMMA ApptsReplaceSound ==
  ASSUME ApptInv, NEW c \in Clients, ApptsReplace(c)
  PROVE  ApptInv'
<1>1. /\ pc[c] = "appts.replace" /\ \A a \in DOMAIN req[c].docs : req[c].docs[a] \in Appt
  BY DEF ApptsReplace, ApptInv, ApptForm
<1>2. appts' \in [Appts -> Appt \cup {Null}]
  BY <1>1 DEF ApptsReplace
<1>3. /\ astray' = Appts /\ pc'[c] = "appts.rows" /\ ApptTyped' /\ pc' = [pc EXCEPT ![c] = pc'[c]]
  BY <1>2 DEF ApptsReplace, Goto, ApptInv, ApptTyped
<1>4. ApptForm(c)' /\ Progress(c)'
  BY <1>3 DEF ApptForm, Progress
<1> QED  BY <1>1, <1>3, <1>4, ApptStepped

LEMMA ApptsRowsSound ==
  ASSUME ApptInv, NEW c \in Clients, ApptsRows(c)
  PROVE  ApptInv'
<1>1. /\ pc[c] = "appts.rows" /\ astray = Appts /\ UNCHANGED <<appts, trips, astray>>
  BY DEF ApptsRows, ApptInv, Progress
<1>2. CASE Answer(c)
  BY <1>1, <1>2, ApptAnswered
<1>3. ASSUME NEW r, Goto(c, "appts.rows", r)  PROVE ApptInv'
  <2>1. pc'[c] = "appts.rows" /\ ApptTyped' /\ pc' = [pc EXCEPT ![c] = pc'[c]]
    BY <1>1, <1>3 DEF Goto, ApptInv, ApptTyped
  <2>2. ApptForm(c)' /\ Progress(c)'
    BY <1>1, <2>1 DEF ApptForm, Progress
  <2> QED  BY <1>1, <2>1, <2>2, ApptStepped
<1> QED  BY <1>2, <1>3 DEF ApptsRows

LEMMA TripEditSound ==
  ASSUME ApptInv, NEW c \in Clients, Quiet \/ pc[c] # "idle", TripEdit(c)
  PROVE  ApptInv'
<1>1. PICK a \in Appts, s \in Sides, d \in Drivers \cup {Null} :
        trips[a][s] # Null /\ trips' = [trips EXCEPT ![a][s].driver = d]
  BY DEF TripEdit
<1>2. /\ pc[c] = "idle" /\ UNCHANGED <<pc, req, appts, astray>>
  BY DEF TripEdit, AtOnce
<1> DEFINE trip == [trips[a][s] EXCEPT !.driver = d]
<1>3. trip \in Trip /\ trip.date = trips[a][s].date
  BY <1>1 DEF Trip, ApptInv, ApptTyped
<1>4. trips' = [trips EXCEPT ![a] = [trips[a] EXCEPT ![s] = trip]]
  BY <1>1 DEF ApptInv, ApptTyped
<1> HIDE DEF trip
<1>5. /\ trips' \in [Appts -> [Sides -> Trip \cup {Null}]]
      /\ trips'[a][s] = trip
      /\ \A b \in Appts, t \in Sides : b # a \/ t # s => trips'[b][t] = trips[b][t]
  BY <1>3, <1>4 DEF ApptInv, ApptTyped
<1>6. ASSUME NEW b \in Appts, b \notin astray  PROVE InStep(b)'
  <2>1. InStep(b)
    BY <1>2, <1>6, OthersInStep DEF Handles
  <2>2. trip # Null
    BY <1>3, ApptAssumption
  <2> QED  BY <1>1, <1>2, <1>3, <1>5, <2>1, <2>2 DEF InStep, Wanted, Made
<1>7. ApptTyped' /\ pc' = [pc EXCEPT ![c] = pc'[c]]
  BY <1>2, <1>5 DEF ApptInv, ApptTyped
<1>8. ApptForm(c)' /\ Progress(c)'
  BY <1>2 DEF ApptForm, Progress
<1> QED  BY <1>2, <1>6, <1>7, <1>8, ApptStepped

LEMMA ApptCutOffSound ==
  ASSUME ApptInv, NEW c \in Clients, ApptCutOff(c)
  PROVE  ApptInv'
<1>1. pc[c] # "idle" /\ pc[c] # "appt.saved"
  BY DEF ApptCutOff
<1>2. ASSUME NEW a \in Appts, Handles(c, a)  PROVE a \in astray'
  <2>1. "id" \in DOMAIN req[c]
    BY <1>1, <1>2 DEF Handles, ApptInv, ApptForm, Saving, Syncing, Writing, Leaving
  <2> QED  BY <1>2, <2>1 DEF ApptCutOff, Handles
<1>3. astray \subseteq astray'
  BY DEF ApptCutOff
<1> QED  BY <1>1, <1>2, <1>3, ApptAnswered, OthersInStep DEF ApptCutOff

-----------------------------------------------------------------------------

LEMMA ApptStepSound ==
  ASSUME ApptInv, [ApptServe]_<<apptVars, requestVars>>
  PROVE  ApptInv'
<1>1. ASSUME NEW c \in Clients, Quiet \/ pc[c] # "idle", ApptStep(c)  PROVE ApptInv'
  BY <1>1, ApptSendSound, ApptReadSound, ApptWriteSound, ApptRowSound, TripReadSound,
     TripWriteSound, TripDeleteSound, ApptSavedSound, ApptDeleteSound, RowDeleteSound,
     ApptsSendSound, ApptsListSound, ApptsReplaceSound, ApptsRowsSound, TripEditSound,
     ApptCutOffSound
     DEF ApptStep
<1>2. CASE UNCHANGED <<apptVars, requestVars>>
  <2>1. UNCHANGED <<appts, trips, astray, pc, req>>
    BY <1>2 DEF apptVars, requestVars
  <2> QED  BY <2>1 DEF ApptInv, ApptTyped, ApptForm, Progress, InStep, Wanted, Made, Handles
<1> QED  BY <1>1, <1>2 DEF ApptServe

\* Between requests served one at a time, however many were cut off after whichever
\* of their calls, an appointment that wants a pickup has both requests with its own
\* data and any other has none, unless it is astray (upsertAppointment,
\* syncPickupDropRequest, deleteAppointment).
THEOREM TripsFollow == ApptSpec => []TripsFollowAppointment
<1>1. ApptInit /\ RequestInit => ApptInv
  BY ApptInitSound
<1>2. ApptInv /\ [ApptServe]_<<apptVars, requestVars>> => ApptInv'
  BY ApptStepSound
<1>3. ApptInv => TripsFollowAppointment
  <2> SUFFICES ASSUME ApptInv, Quiet, NEW a \in Appts \ astray  PROVE InStep(a)
    BY DEF TripsFollowAppointment, InStep, Made
  <2> QED  BY DEF ApptInv, Quiet, Handles
<1> QED  BY <1>1, <1>2, <1>3, PTL DEF ApptSpec

-----------------------------------------------------------------------------
(***************************************************************************)
(* Pages miss nothing, proved for collections and pages of any size.  The  *)
(* pages of a listing are requests of their own, and the page that is read *)
(* next is counted from the start of the collection as it is then: the     *)
(* invariant says of each document that was there from the first that it   *)
(* has been shown, or has at least as many documents before it as the      *)
(* pages that were read could hold.                                        *)
(***************************************************************************)

\* What the listing of c is given, and may see.
Allowance(c) == Asked(Scope(req[c].token, Homes[req[c].by]), req[c].branch)

Listed(allowed) == {d \in Present : InScope(rows[d], allowed)}

Preceding(d, allowed) == {e \in Listed(allowed) : Before(e, d, allowed)}

\* The document has a place of its own among those listed.
Apart(d, allowed) ==
  /\ InScope(rows[d], allowed)
  /\ allowed # Null \/ \A e \in Present \ {d} : rows[e].at # rows[d].at

ListSteps == {"list.scope", "list.page", "list.shown"}

\* The documents shown so far to a listing that is given al, and those it has yet to
\* come to.
Reached(c, al) ==
  \A d \in req[c].before : Apart(d, al) =>
    \/ d \in DOMAIN req[c].got
    \/ pc[c] # "list.shown" /\ Cardinality(Preceding(d, al)) >= Skip(req[c].page)

ListHeld(c) ==
  /\ pc[c] \in ListSteps =>
       /\ req[c] = [by |-> req[c].by, token |-> req[c].token, branch |-> req[c].branch,
                    allowed |-> req[c].allowed, page |-> req[c].page, before |-> req[c].before,
                    got |-> req[c].got]
       /\ req[c].page \in Nat
       /\ \A d \in DOMAIN req[c].got : req[c].got[d] \in Document
       /\ added[c] => req[c].before \subseteq Present
  /\ pc[c] \in {"list.page", "list.shown"} => req[c].allowed = Allowance(c)
  /\ pc[c] \in ListSteps /\ added[c] => \A al : al = Allowance(c) => Reached(c, al)

PageTyped ==
  /\ PageTypeOK
  /\ clock \in Nat
  /\ added = [c \in Clients |-> added[c]]
  /\ pc = [c \in Clients |-> pc[c]]
  /\ req = [c \in Clients |-> req[c]]

PageInv == PageTyped /\ \A c \in Clients : ListHeld(c)

-----------------------------------------------------------------------------

LEMMA ListedFinite ==
  ASSUME NEW allowed, NEW d
  PROVE  /\ IsFiniteSet(Listed(allowed)) /\ Cardinality(Listed(allowed)) \in Nat
         /\ IsFiniteSet(Preceding(d, allowed)) /\ Cardinality(Preceding(d, allowed)) \in Nat
<1>1. Listed(allowed) \subseteq Items /\ Preceding(d, allowed) \subseteq Items
  BY DEF Listed, Preceding, Present
<1>2. IsFiniteSet(Listed(allowed)) /\ IsFiniteSet(Preceding(d, allowed))
  BY <1>1, PagesAssumption, FS_Subset
<1> QED  BY <1>2, FS_CardinalityType

\* A document that is apart comes before or after every other one.
LEMMA ApartOrdered ==
  ASSUME PageTypeOK, NEW allowed, NEW d \in Present, Apart(d, allowed),
         NEW e \in Present, e # d
  PROVE  Before(d, e, allowed) \/ Before(e, d, allowed)
<1>1. d \in Nat /\ e \in Nat /\ rows[d] \in Document /\ rows[e] \in Document
  BY PagesAssumption DEF PageTypeOK, Present
<1>2. /\ rows[d].at \in Nat /\ rows[e].at \in Nat
      /\ rows[d].date \in Nat /\ rows[e].date \in Nat
  BY <1>1 DEF Document
<1>3. CASE allowed = Null
  <2>1. rows[e].at # rows[d].at
    BY <1>3 DEF Apart
  <2> QED  BY <1>2, <1>3, <2>1 DEF Before
<1>4. CASE allowed # Null
  BY <1>1, <1>2, <1>4 DEF Before
<1> QED  BY <1>3, <1>4

\* In every order a listing may come in, as many documents stand before one that is
\* apart as precede it.
LEMMA PlaceInOrder ==
  ASSUME PageTypeOK, NEW allowed, NEW d \in Listed(allowed), Apart(d, allowed),
         NEW o \in Orders(Listed(allowed), allowed)
  PROVE  \E i \in DOMAIN o : o[i] = d /\ Cardinality(Preceding(d, allowed)) = i - 1
<1> DEFINE n == Cardinality(Listed(allowed))
<1>1. n \in Nat /\ IsFiniteSet(Listed(allowed))
  BY ListedFinite
<1>2. /\ o \in [1..n -> Listed(allowed)] /\ DOMAIN o = 1..n
      /\ \A i, k \in 1..n : i # k => o[i] # o[k]
      /\ \A i, k \in 1..n : Before(o[i], o[k], allowed) => i < k
  BY DEF Orders
<1>3. o \in Injection(1..n, Listed(allowed))
  BY <1>2 DEF Injection, IsInjective
<1>4. Cardinality(1..n) = n
  BY <1>1, FS_Interval
<1>5. o \in Surjection(1..n, Listed(allowed))
  BY <1>1, <1>3, <1>4, FS_Injection
<1>6. PICK i \in 1..n : o[i] = d
  BY <1>5 DEF Surjection
<1> DEFINE m == i - 1
           g == [k \in 1..m |-> o[k]]
<1>7. m \in Nat /\ 1..m \subseteq 1..n /\ \A k \in 1..n : k < i <=> k \in 1..m
  BY <1>1, <1>6
<1>8. \A k \in 1..m : o[k] \in Preceding(d, allowed)
  <2> SUFFICES ASSUME NEW k \in 1..m  PROVE Before(o[k], d, allowed)
    BY <1>2, <1>7 DEF Preceding
  <2>1. o[k] # d /\ o[k] \in Present /\ d \in Present
    BY <1>2, <1>6, <1>7 DEF Listed
  <2>2. ~ Before(d, o[k], allowed)
    BY <1>1, <1>2, <1>6, <1>7
  <2> QED  BY <2>1, <2>2, ApartOrdered
<1>9. \A e \in Preceding(d, allowed) : \E k \in 1..m : o[k] = e
  <2> SUFFICES ASSUME NEW e \in Preceding(d, allowed)  PROVE \E k \in 1..m : o[k] = e
    OBVIOUS
  <2>1. PICK k \in 1..n : o[k] = e
    BY <1>5 DEF Surjection, Preceding
  <2>2. k < i
    BY <1>2, <1>6, <2>1 DEF Preceding
  <2> QED  BY <1>7, <2>1, <2>2
<1>10. g \in Bijection(1..m, Preceding(d, allowed))
  BY <1>2, <1>7, <1>8, <1>9 DEF Bijection, Injection, IsInjective, Surjection
<1>11. Cardinality(Preceding(d, allowed)) = m
  BY <1>7, <1>10, FS_CountingElements DEF ExistsBijection
<1> QED  BY <1>2, <1>6, <1>11

-----------------------------------------------------------------------------

LEMMA PageInitSound == PageInit /\ RequestInit => PageInv
BY PagesAssumption DEF PageInit, RequestInit, PageInv, PageTyped, PageTypeOK, ListHeld, ListSteps

\* Additions move a document that is apart to no earlier place, and leave it apart
\* only where it was.
LEMMA AdditionsMoveLater ==
  ASSUME PageTypeOK, \A e \in Present : rows'[e] = rows[e], PageTypeOK',
         NEW allowed, NEW d \in Present
  PROVE  /\ d \in Present'
         /\ Apart(d, allowed)' => Apart(d, allowed)
         /\ Cardinality(Preceding(d, allowed)') >= Cardinality(Preceding(d, allowed))
<1>1. Present \subseteq Present' /\ Present' \subseteq Items
  BY DEF Present
<1>2. Apart(d, allowed)' => Apart(d, allowed)
  BY <1>1 DEF Apart
<1>3. \A e \in Present : Before(e, d, allowed)' <=> Before(e, d, allowed)
  BY DEF Before
<1>4. Preceding(d, allowed) \subseteq Preceding(d, allowed)' /\ Preceding(d, allowed)' \subseteq Items
  BY <1>1, <1>3 DEF Preceding, Listed
<1>5. /\ IsFiniteSet(Preceding(d, allowed)')
      /\ Cardinality(Preceding(d, allowed)) <= Cardinality(Preceding(d, allowed)')
      /\ Cardinality(Preceding(d, allowed)) \in Nat
  BY <1>4, PagesAssumption, ListedFinite, FS_Subset
<1>6. Cardinality(Preceding(d, allowed)') \in Nat
  BY <1>5, FS_CardinalityType
<1> QED  BY <1>1, <1>2, <1>5, <1>6

\* A listing that does nothing in a step goes on, if documents are only added.
LEMMA ListingLasts ==
  ASSUME PageInv, PageTyped', NEW c \in Clients, pc'[c] = pc[c], req'[c] = req[c], UNCHANGED shops,
         added'[c] => added[c] /\ \A d \in Present : rows'[d] = rows[d]
  PROVE  ListHeld(c)'
<1>1. ListHeld(c) /\ PageTypeOK /\ PageTypeOK'
  BY DEF PageInv, PageTyped
<1>2. Allowance(c)' = Allowance(c)
  BY DEF Allowance, Asked, Scope
<1>3. CASE ~ added'[c] \/ pc[c] \notin ListSteps
  BY <1>1, <1>2, <1>3 DEF ListHeld, ListSteps
<1>4. CASE added'[c] /\ pc[c] \in ListSteps
  <2>1. /\ added[c] /\ \A d \in Present : rows'[d] = rows[d]
        /\ req[c].before \subseteq Present /\ req[c].page \in Nat
    BY <1>1, <1>4 DEF ListHeld
  <2>2. Present \subseteq Present'
    BY <2>1 DEF Present
  <2>3. ASSUME NEW al, al = Allowance(c)  PROVE Reached(c, al)'
    <3>1. Reached(c, al)
      BY <1>1, <1>4, <2>1, <2>3 DEF ListHeld
    <3> SUFFICES ASSUME NEW d \in req[c].before, Apart(d, al)'
                 PROVE  \/ d \in DOMAIN req[c].got
                        \/ /\ pc[c] # "list.shown"
                           /\ Cardinality(Preceding(d, al)') >= Skip(req[c].page)
      BY DEF Reached, Skip
    <3>2. /\ Apart(d, al)
          /\ Cardinality(Preceding(d, al)') >= Cardinality(Preceding(d, al))
      BY <1>1, <2>1, AdditionsMoveLater
    <3>3. Skip(req[c].page) \in Int
      BY <2>1, PagesAssumption DEF Skip
    <3>4. Cardinality(Preceding(d, al)) \in Nat
      BY ListedFinite
    <3>5. IsFiniteSet(Preceding(d, al)')
      <4>1. Preceding(d, al)' \subseteq Items
        BY DEF Preceding, Listed, Present
      <4> QED  BY <4>1, PagesAssumption, FS_Subset
    <3>6. Cardinality(Preceding(d, al)') \in Nat
      BY <3>5, FS_CardinalityType
    <3> QED  BY <3>1, <3>2, <3>3, <3>4, <3>6 DEF Reached
  <2> QED  BY <1>1, <1>2, <1>4, <2>1, <2>2, <2>3 DEF ListHeld, ListSteps
<1> QED  BY <1>3, <1>4

\* A step of the listing of c, the collection being left alone.
LEMMA ListStepped ==
  ASSUME PageInv, PageTyped', NEW c \in Clients, UNCHANGED <<rows, shops>>,
         \A d \in Clients \ {c} : /\ pc'[d] = pc[d] /\ req'[d] = req[d]
                                  /\ added'[d] = added[d],
         ListHeld(c)'
  PROVE  PageInv'
BY ListingLasts DEF PageInv

LEMMA AskSound ==
  ASSUME PageInv, NEW c \in Clients, Ask(c)
  PROVE  PageInv'
<1>1. PICK by, tok, branch :
        Arrive(c, "list.scope", [by |-> by, token |-> tok, branch |-> branch, allowed |-> Null,
                                 page |-> 1, before |-> Present, got |-> <<>>])
  BY DEF Ask
<1> DEFINE r == [by |-> by, token |-> tok, branch |-> branch, allowed |-> Null,
                 page |-> 1, before |-> Present, got |-> <<>>]
<1>2. /\ pc'[c] = "list.scope" /\ req'[c] = r /\ UNCHANGED <<rows, shops>> /\ PageTyped'
      /\ \A d \in Clients \ {c} : /\ pc'[d] = pc[d] /\ req'[d] = req[d]
                                   /\ added'[d] = added[d]
  BY <1>1 DEF Ask, Arrive, PageInv, PageTyped, PageTypeOK
<1>3. /\ r = [by |-> r.by, token |-> r.token, branch |-> r.branch, allowed |-> r.allowed,
              page |-> r.page, before |-> r.before, got |-> r.got]
      /\ r.page = 1 /\ r.before = Present
  OBVIOUS
<1> HIDE DEF r
<1>4. ASSUME NEW al  PROVE Reached(c, al)'
  <2>1. Skip(1) = 0
    BY PagesAssumption DEF Skip
  <2>2. \A d : Cardinality(Preceding(d, al)) >= 0
    BY ListedFinite
  <2>3. \A d : Preceding(d, al)' = Preceding(d, al)
    BY <1>2 DEF Preceding, Listed, Present, Before
  <2> QED  BY <1>2, <1>3, <2>1, <2>2, <2>3 DEF Reached, Skip
<1>5. Present' = Present
  BY <1>2 DEF Present
<1>6. ListHeld(c)'
  <2>1. DOMAIN r.got = {}
    BY DEF r
  <2> QED  BY <1>2, <1>3, <1>4, <1>5, <2>1 DEF ListHeld, ListSteps
<1> QED  BY <1>2, <1>6, ListStepped

LEMMA ScopeListSound ==
  ASSUME PageInv, NEW c \in Clients, ScopeList(c)
  PROVE  PageInv'
<1> DEFINE r == req[c]
           next == [r EXCEPT !.allowed = Allowance(c)]
<1>1. ListHeld(c) /\ pc[c] = "list.scope" /\ Goto(c, "list.page", next)
  BY DEF ScopeList, PageInv, Allowance
<1>2. /\ pc'[c] = "list.page" /\ req'[c] = next /\ UNCHANGED <<rows, shops, added>> /\ PageTyped'
      /\ \A d \in Clients \ {c} : /\ pc'[d] = pc[d] /\ req'[d] = req[d]
                                   /\ added'[d] = added[d]
  BY <1>1 DEF ScopeList, pageVars, Goto, PageInv, PageTyped, PageTypeOK
<1>3. r = [by |-> r.by, token |-> r.token, branch |-> r.branch, allowed |-> r.allowed,
           page |-> r.page, before |-> r.before, got |-> r.got]
  BY <1>1 DEF ListHeld, ListSteps
<1>4. /\ next = [by |-> next.by, token |-> next.token, branch |-> next.branch,
                 allowed |-> next.allowed, page |-> next.page, before |-> next.before,
                 got |-> next.got]
      /\ next.by = r.by /\ next.token = r.token /\ next.branch = r.branch
      /\ next.page = r.page /\ next.before = r.before /\ next.got = r.got
      /\ next.allowed = Allowance(c)
  BY <1>3
<1> HIDE DEF next
<1>5. Allowance(c)' = Allowance(c) /\ Present' = Present
  BY <1>2, <1>4 DEF Allowance, Asked, Scope, Present
<1>6. ASSUME added[c], NEW al, al = Allowance(c)  PROVE Reached(c, al)'
  <2>1. Reached(c, al)
    BY <1>1, <1>6 DEF ListHeld, ListSteps
  <2>2. \A d : Preceding(d, al)' = Preceding(d, al) /\ (Apart(d, al)' <=> Apart(d, al))
    BY <1>2 DEF Preceding, Listed, Present, Before, Apart
  <2> QED  BY <1>1, <1>2, <1>4, <2>1, <2>2 DEF Reached, Skip
<1>7. ListHeld(c)'
  BY <1>1, <1>2, <1>4, <1>5, <1>6 DEF ListHeld, ListSteps
<1> QED  BY <1>2, <1>7, ListStepped

\* What one page adds to what has been shown.
LEMMA PageHeld ==
  ASSUME PageTypeOK, NEW al, NEW page \in Nat, NEW o \in Orders(Listed(al), al),
         NEW d \in Present, Apart(d, al), Cardinality(Preceding(d, al)) >= Skip(page)
  PROVE  \/ \E i \in DOMAIN o : o[i] = d /\ Skip(page) < i /\ i <= Skip(page) + PageSize
         \/ /\ page * PageSize < Cardinality(Listed(al))
            /\ Cardinality(Preceding(d, al)) >= Skip(page + 1)
<1>1. d \in Listed(al)
  BY DEF Listed, Apart
<1>2. PICK i \in DOMAIN o : o[i] = d /\ Cardinality(Preceding(d, al)) = i - 1
  BY <1>1, PlaceInOrder
<1> DEFINE n == Cardinality(Listed(al))
<1>3. n \in Nat /\ DOMAIN o = 1..n
  BY ListedFinite DEF Orders
<1>4. PageSize \in Nat
  BY PagesAssumption
<1> DEFINE full == page * PageSize
<1>5. full \in Nat /\ Skip(page) = full - PageSize /\ Skip(page + 1) = full
  BY <1>4 DEF Skip
<1> HIDE DEF full, n
<1>6. i \in 1..n /\ i - 1 >= full - PageSize
  BY <1>2, <1>3, <1>5
<1>7. (full - PageSize < i /\ i <= (full - PageSize) + PageSize) \/ (full < n /\ i - 1 >= full)
  BY <1>3, <1>4, <1>5, <1>6
<1> QED  BY <1>2, <1>5, <1>7 DEF full, n

LEMMA ReadPageSound ==
  ASSUME PageInv, NEW c \in Clients, ReadPage(c)
  PROVE  PageInv'
<1> DEFINE r == req[c]
<1>1. ListHeld(c) /\ pc[c] = "list.page" /\ PageTypeOK
  BY DEF ReadPage, PageInv, PageTyped
<1>2. PICK al : al = r.allowed
  OBVIOUS
<1>3. /\ r = [by |-> r.by, token |-> r.token, branch |-> r.branch, allowed |-> r.allowed,
              page |-> r.page, before |-> r.before, got |-> r.got]
      /\ r.page \in Nat /\ al = Allowance(c)
  BY <1>1, <1>2 DEF ListHeld, ListSteps
<1> DEFINE total == Cardinality(Listed(al))
<1>4. PICK o \in Orders(Listed(r.allowed), r.allowed) :
        LET got == {o[i] : i \in {i \in DOMAIN o : Skip(r.page) < i /\ i <= Skip(r.page) + PageSize}}
            shown == [r EXCEPT !.got = [d \in got \cup DOMAIN @ |->
                                          IF d \in got THEN rows[d] ELSE @[d]]]
            next == [shown EXCEPT !.page = @ + 1]
        IN  IF r.page * PageSize < Cardinality(Listed(r.allowed)) THEN Goto(c, "list.scope", next)
            ELSE Goto(c, "list.shown", next)
  BY Zenon DEF ReadPage, Listed
<1> DEFINE got == {o[i] : i \in {i \in DOMAIN o : Skip(r.page) < i /\ i <= Skip(r.page) + PageSize}}
           seen == [d \in got \cup DOMAIN r.got |-> IF d \in got THEN rows[d] ELSE r.got[d]]
           shown == [r EXCEPT !.got = seen]
           next == [shown EXCEPT !.page = @ + 1]
<1>5. DOMAIN seen = got \cup DOMAIN r.got
  OBVIOUS
<1>12. \A d \in DOMAIN seen : seen[d] \in Document
  <2>1. \A d \in DOMAIN r.got : r.got[d] \in Document
    BY <1>1 DEF ListHeld, ListSteps
  <2>2. \A d \in got : d \in Present /\ rows[d] \in Document
    <3>1. \A d \in got : d \in Listed(r.allowed)
      BY <1>4 DEF Orders
    <3> QED  BY <1>1, <3>1 DEF Listed, Present, PageTypeOK
  <2>3. \A d \in DOMAIN seen : seen[d] = IF d \in got THEN rows[d] ELSE r.got[d]
    OBVIOUS
  <2> QED  BY <1>5, <2>1, <2>2, <2>3
<1>6. /\ IF r.page * PageSize < total THEN Goto(c, "list.scope", next)
         ELSE Goto(c, "list.shown", next)
      /\ o \in Orders(Listed(al), al)
  BY <1>2, <1>4
<1> HIDE DEF seen
<1>7. /\ next = [by |-> next.by, token |-> next.token, branch |-> next.branch,
                 allowed |-> next.allowed, page |-> next.page, before |-> next.before,
                 got |-> next.got]
      /\ next.by = r.by /\ next.token = r.token /\ next.branch = r.branch
      /\ next.page = r.page + 1 /\ next.before = r.before /\ next.got = seen
      /\ next.allowed = al
  <2>1. shown = [by |-> r.by, token |-> r.token, branch |-> r.branch, allowed |-> r.allowed,
                 page |-> r.page, before |-> r.before, got |-> seen]
    BY <1>3
  <2> HIDE DEF shown
  <2> QED  BY <1>2, <2>1
<1> HIDE DEF next
<1>8. /\ pc'[c] \in {"list.scope", "list.shown"} /\ req'[c] = next
      /\ pc'[c] = "list.shown" <=> ~ (r.page * PageSize < total)
      /\ UNCHANGED <<rows, shops, added>> /\ PageTyped'
      /\ \A d \in Clients \ {c} : /\ pc'[d] = pc[d] /\ req'[d] = req[d]
                                   /\ added'[d] = added[d]
  BY <1>6 DEF ReadPage, pageVars, Goto, PageInv, PageTyped, PageTypeOK
<1>9. Allowance(c)' = Allowance(c) /\ Present' = Present
  BY <1>7, <1>8 DEF Allowance, Asked, Scope, Present
<1>10. ASSUME added[c]  PROVE Reached(c, al)'
  <2>1. Reached(c, al) /\ r.before \subseteq Present
    BY <1>1, <1>3, <1>10 DEF ListHeld, ListSteps
  <2>2. \A d : Preceding(d, al)' = Preceding(d, al) /\ (Apart(d, al)' <=> Apart(d, al))
    BY <1>8 DEF Preceding, Listed, Present, Before, Apart
  <2>3. ASSUME NEW d \in r.before, Apart(d, al)
        PROVE  \/ d \in DOMAIN seen
               \/ pc'[c] # "list.shown" /\ Cardinality(Preceding(d, al)) >= Skip(r.page + 1)
    <3>1. CASE d \in DOMAIN r.got
      BY <1>5, <3>1
    <3>2. CASE d \notin DOMAIN r.got
      <4>1. Cardinality(Preceding(d, al)) >= Skip(r.page)
        BY <2>1, <2>3, <3>2 DEF Reached
      <4>2. \/ \E i \in DOMAIN o : o[i] = d /\ Skip(r.page) < i /\ i <= Skip(r.page) + PageSize
            \/ /\ r.page * PageSize < Cardinality(Listed(al))
               /\ Cardinality(Preceding(d, al)) >= Skip(r.page + 1)
        BY <1>1, <1>3, <1>6, <2>1, <2>3, <4>1, PageHeld
      <4> QED  BY <1>5, <1>8, <4>2
    <3> QED  BY <3>1, <3>2
  <2> QED  BY <1>7, <1>8, <2>2, <2>3 DEF Reached, Skip
<1>11. ListHeld(c)'
  <2>1. next.page \in Nat
    BY <1>3, <1>7
  <2>2. added'[c] => next.before \subseteq Present'
    BY <1>1, <1>7, <1>8, <1>9 DEF ListHeld, ListSteps
  <2>3. added'[c] => \A a : a = Allowance(c)' => Reached(c, a)'
    BY <1>3, <1>8, <1>9, <1>10
  <2> QED  BY <1>3, <1>7, <1>8, <1>9, <1>12, <2>1, <2>2, <2>3 DEF ListHeld
<1> QED  BY <1>8, <1>11, ListStepped

LEMMA ShownSound ==
  ASSUME PageInv, NEW c \in Clients, Shown(c)
  PROVE  PageInv'
<1>1. /\ pc'[c] = "idle" /\ UNCHANGED <<rows, shops, added>> /\ PageTyped'
      /\ \A d \in Clients \ {c} : /\ pc'[d] = pc[d] /\ req'[d] = req[d]
                                   /\ added'[d] = added[d]
  BY DEF Shown, Answer, pageVars, PageInv, PageTyped, PageTypeOK
<1>2. ListHeld(c)'
  BY <1>1 DEF ListHeld, ListSteps
<1> QED  BY <1>1, <1>2, ListStepped

\* A write leaves every listing as it was, or adds to the collection or ends the claim.
LEMMA WriteSound ==
  ASSUME PageInv, PageTyped', UNCHANGED <<pc, req, shops>>,
         \A c \in Clients : added'[c] => added[c] /\ \A d \in Present : rows'[d] = rows[d]
  PROVE  PageInv'
BY ListingLasts DEF PageInv

LEMMA SaveDocumentSound ==
  ASSUME PageInv, NEW c \in Clients, SaveDocument(c)
  PROVE  PageInv'
<1>0. PICK d \in Items, payload \in Payloads :
        \E at \in {payload.date, clock} :
          /\ rows' = [rows EXCEPT ![d] = Row(payload, IF @ = Null THEN at ELSE @.at)]
          /\ added' = IF rows[d] = Null THEN added ELSE [k \in Clients |-> FALSE]
  BY DEF SaveDocument
<1>1. PICK at \in {payload.date, clock} :
        /\ rows' = [rows EXCEPT ![d] = Row(payload, IF @ = Null THEN at ELSE @.at)]
        /\ added' = IF rows[d] = Null THEN added ELSE [k \in Clients |-> FALSE]
  BY <1>0
<1>2. /\ payload.branch \in Shops \cup {Null} /\ payload.from \in Shops \cup {Null}
      /\ payload.to \in Shops \cup {Null} /\ payload.date \in Nat
  <2>1. payload \in [branch : Shops \cup {Null}, from : Shops \cup {Null},
                     to : Shops \cup {Null}, date : Nat]
    BY PagesAssumption
  <2> QED  BY <2>1
<1>3. PageTypeOK /\ clock \in Nat /\ rows[d] \in Document \cup {Null}
  BY DEF PageInv, PageTyped, PageTypeOK
<1>4. PICK t : t = IF rows[d] = Null THEN at ELSE rows[d].at
  OBVIOUS
<1>5. t \in Nat
  BY <1>1, <1>2, <1>3, <1>4 DEF Document
<1>6. Row(payload, t) \in Document /\ rows' = [rows EXCEPT ![d] = Row(payload, t)]
  BY <1>1, <1>2, <1>4, <1>5 DEF Row, Document
<1>7. PageTyped'
  <2>1. PageTypeOK'
    BY <1>3, <1>6 DEF PageTypeOK
  <2>2. added' = [k \in Clients |-> added'[k]]
    BY <1>1 DEF PageInv, PageTyped
  <2> QED  BY <1>3, <2>1, <2>2 DEF SaveDocument, Writes, AtOnce, PageInv, PageTyped
<1>8. \A k \in Clients : added'[k] => added[k] /\ \A e \in Present : rows'[e] = rows[e]
  BY <1>1, <1>3, <1>6 DEF Present, PageTypeOK
<1> QED  BY <1>7, <1>8, WriteSound DEF SaveDocument, Writes, AtOnce

LEMMA DeleteDocumentSound ==
  ASSUME PageInv, NEW c \in Clients, DeleteDocument(c)
  PROVE  PageInv'
<1>1. PageTyped'
  BY DEF DeleteDocument, Writes, AtOnce, PageInv, PageTyped, PageTypeOK, Present
<1>2. \A k \in Clients : ~ added'[k]
  BY DEF DeleteDocument
<1> QED  BY <1>1, <1>2, WriteSound DEF DeleteDocument, Writes, AtOnce

\* A snapshot sends rows of the collection, or of one that the database once held.
LEMMA SnapshotSound ==
  ASSUME PageInv, NEW c \in Clients, Snapshot(c)
  PROVE  PageInv'
<1>1. PICK k \in Clients, own \in BOOLEAN :
        /\ pc[k] = "list.shown"
        /\ rows' = [d \in Items |->
             IF d \in DOMAIN req[k].got
             THEN [req[k].got[d] EXCEPT !.at = IF own THEN req[k].got[d].date ELSE clock]
             ELSE Null]
  BY DEF Snapshot
<1>2. clock \in Nat /\ \A d \in DOMAIN req[k].got : req[k].got[d] \in Document
  BY <1>1 DEF PageInv, PageTyped, ListHeld, ListSteps
<1>3. \A x \in Document : [x EXCEPT !.at = IF own THEN x.date ELSE clock] \in Document
  BY <1>2 DEF Document
<1>4. PageTypeOK'
  BY <1>1, <1>2, <1>3 DEF PageTypeOK
<1>5. PageTyped'
  BY <1>2, <1>4 DEF Snapshot, Writes, AtOnce, PageInv, PageTyped
<1>6. \A j \in Clients : ~ added'[j]
  BY DEF Snapshot
<1> QED  BY <1>5, <1>6, WriteSound DEF Snapshot, Writes, AtOnce

LEMMA PageStepSound ==
  ASSUME PageInv, [PageStep]_<<pageVars, staffVars, requestVars>>
  PROVE  PageInv'
<1>1. CASE UNCHANGED <<pageVars, requestVars>>
  <2>1. PageTyped'
    BY <1>1 DEF PageInv, PageTyped, PageTypeOK, pageVars, requestVars
  <2> QED  BY <1>1, <2>1, WriteSound DEF pageVars, requestVars
<1>2. CASE \E s \in Staff : SignIn(s) /\ UNCHANGED pageVars
  BY <1>1, <1>2 DEF SignIn
<1>3. ASSUME NEW c \in Clients,
             Ask(c) \/ ScopeList(c) \/ ReadPage(c) \/ Shown(c)
             \/ SaveDocument(c) \/ DeleteDocument(c) \/ Snapshot(c)
      PROVE  PageInv'
  BY <1>3, AskSound, ScopeListSound, ReadPageSound, ShownSound, SaveDocumentSound,
     DeleteDocumentSound, SnapshotSound
<1> QED  BY <1>1, <1>2, <1>3 DEF PageStep

\* Every document that was there when a listing began, and has a place of its own, is on
\* one of its pages, if documents were only added meanwhile (listCollectionItems,
\* app-json-store.ts, under data-scope.ts).
THEOREM PagesComplete == PageSpec => []PagesMissNothing
<1>1. PageInit /\ StaffInit /\ RequestInit => PageInv
  BY PageInitSound
<1>2. PageInv /\ [PageStep]_<<pageVars, staffVars, requestVars>> => PageInv'
  BY PageStepSound
<1>3. PageInv => PagesMissNothing
  <2> SUFFICES ASSUME PageInv, NEW c \in Clients, pc[c] = "list.shown", added[c]
               PROVE  \A d \in req[c].before : Apart(d, req[c].allowed) => d \in DOMAIN req[c].got
    BY DEF PagesMissNothing, Apart
  <2>1. ListHeld(c)
    BY DEF PageInv
  <2> QED  BY <2>1 DEF ListHeld, ListSteps, Reached
<1> QED  BY <1>1, <1>2, <1>3, PTL DEF PageSpec

=============================================================================
