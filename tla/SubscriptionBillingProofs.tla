---------------------- MODULE SubscriptionBillingProofs ----------------------
(* The theorems about SubscriptionBilling, for every value of its constants. *)
EXTENDS SubscriptionBilling, FiniteSetTheorems, SequenceTheorems,
        WellFoundedInduction, TLAPS

-----------------------------------------------------------------------------
(* What a request holds at each of its steps. *)

VerifySteps == {"verify.payment", "verify.fail", "verify.count", "verify.commit"}
PaidSteps   == {"paid.processing", "paid.create", "paid.term", "paid.verify"}
PickedSteps == VerifySteps \cup {"paid.term", "paid.verify"}
SnapSteps   == VerifySteps \cup {"patch.write"}
DraftSteps  == {"verify.fail", "verify.count", "verify.commit"}

QuoteForm   == [term : Terms, extra : Nat]
VerifyForm  == [payment : Nat, outcome : {"PAID", "FAILED"}, notes : BOOLEAN,
                term : Terms \cup {Absent}]
ConvertForm == [term : Terms, limit : Capacity, markPaid : BOOLEAN]

Fits(p) ==
  /\ pc[p] = "renew.quote" => body[p] \in QuoteForm
  /\ pc[p] \in {"renew.create", "renew.touch"} => body[p] \in Pricing
  /\ pc[p] \in VerifySteps \cup PaidSteps => body[p] \in VerifyForm
  /\ pc[p] \in PickedSteps => body[p].payment \in DOMAIN payments
  /\ pc[p] = "patch.write" => body[p] \in Patch
  /\ pc[p] = "convert.write" => body[p] \in ConvertForm
  /\ pc[p] \in SnapSteps => snap[p] \in Subscription
  /\ pc[p] \in DraftSteps =>
       draft[p] \in Draft /\ draft[p].bill.payment = body[p].payment

\* TypeOK made inductive.
Typed ==
  /\ TypeOK
  /\ body = [p \in Requests |-> body[p]]
  /\ \A p \in Requests : Fits(p)

USE DEF VerifySteps, PaidSteps, PickedSteps, SnapSteps, DraftSteps

-----------------------------------------------------------------------------
(* Facts about the helpers. *)

\* A nonempty set of numbers up to n has a greatest member.
LEMMA Greatest ==
  ASSUME NEW n \in Nat, NEW S \in SUBSET (1 .. n), S # {}
  PROVE  \E i \in S : \A j \in S : j <= i
<1> DEFINE Above(i) == {j \in S : j > i}
           T == {Above(i) : i \in S}
           R == StrictSubsetOrdering(1 .. n)
<1>1. T \subseteq FiniteSubsetsOf(1 .. n) /\ T # {}
  <2>1. IsFiniteSet(1 .. n)
    BY FS_Interval
  <2>2. \A i \in S : IsFiniteSet(Above(i))
    BY <2>1, FS_Subset
  <2> QED BY <2>2 DEF FiniteSubsetsOf
<1>2. PICK x \in T : \A y \in T : ~(<<y, x>> \in R)
  <2> HIDE DEF T, R
  <2> QED BY <1>1, FS_StrictSubsetOrderingWellFounded, WFMin DEF R
<1>3. PICK i \in S : x = Above(i)
  BY <1>2
<1>4. ASSUME NEW j \in S PROVE j <= i
  <2>1. SUFFICES ASSUME j > i PROVE FALSE
    BY DEF Above
  <2>2. Above(j) \subseteq Above(i) /\ Above(j) # Above(i)
    <3>1. i \in Nat /\ j \in Nat /\ \A k \in S : k \in Nat
      OBVIOUS
    <3>2. j \in Above(i) /\ j \notin Above(j)
      BY <2>1, <3>1
    <3>3. Above(j) \subseteq Above(i)
      <4>1. ASSUME NEW k \in Above(j) PROVE k \in Above(i)
        <5>1. k \in S /\ k > j /\ k \in Nat
          BY <3>1
        <5> QED BY <2>1, <3>1, <5>1
      <4> QED BY <4>1
    <3> QED BY <3>2, <3>3
  <2>3. <<Above(j), Above(i)>> \in R
    BY <2>2 DEF StrictSubsetOrdering
  <2> QED BY <1>2, <1>3, <2>3
<1> QED BY <1>4

\* The CHOOSE of NewestWith has a candidate.
LEMMA NewestFound ==
  ASSUME payments \in Seq(Payment), NEW status, HasPayment(status)
  PROVE  NewestWith(status) \in DOMAIN payments
<1> DEFINE found == {i \in DOMAIN payments : payments[i].status = status}
<1>1. Len(payments) \in Nat /\ DOMAIN payments = 1 .. Len(payments)
  BY LenProperties
<1>2. found # {} /\ found \in SUBSET (1 .. Len(payments))
  BY <1>1 DEF HasPayment
<1>3. \E i \in found : \A j \in found : j <= i
  BY <1>1, <1>2, Greatest
<1>4. NewestWith(status) = CHOOSE i \in found : \A j \in found : j <= i
  BY DEF NewestWith
<1> HIDE DEF found
<1>5. NewestWith(status) \in found
  BY <1>3, <1>4
<1> QED  BY <1>5 DEF found

LEMMA TermsNormal == \A t : NormalizeTerm(t) \in Terms /\ NormalizeTerm(t) \in Nat
BY ConstantsAssumption DEF NormalizeTerm

LEMMA YearIsNat == \A t \in Nat : Year(t) \in Nat
BY ConstantsAssumption DEF Year

\* The bills of a year are finitely many.
LEMMA BillsFinite ==
  ASSUME bills \in Seq(Bill), NEW y
  PROVE  IsFiniteSet(BillsOf(y)) /\ Cardinality(BillsOf(y)) \in Nat
<1>1. Len(bills) \in Nat /\ DOMAIN bills = 1 .. Len(bills)
  BY LenProperties
<1>2. IsFiniteSet(DOMAIN bills)
  BY <1>1, FS_Interval
<1> QED  BY <1>2, FS_Subset, FS_CardinalityType DEF BillsOf

-----------------------------------------------------------------------------
(* Type correctness. *)

LEMMA InitTyped == Init => Typed
<1> SUFFICES ASSUME Init PROVE Typed
  OBVIOUS
<1>1. payments \in Seq(Payment) /\ bills \in Seq(Bill)
  BY EmptySeq DEF Init
<1> QED  BY <1>1, ConstantsAssumption DEF Init, Typed, TypeOK, Fits, Steps

\* A step changes one request; the others keep what they hold.
LEMMA OthersFit ==
  ASSUME Typed, NEW p \in Requests, NEW q \in Requests, q # p,
         DOMAIN payments \subseteq DOMAIN payments',
         pc'    = [pc EXCEPT ![p] = pc'[p]],
         body'  = [body EXCEPT ![p] = body'[p]],
         snap'  = [snap EXCEPT ![p] = snap'[p]],
         draft' = [draft EXCEPT ![p] = draft'[p]]
  PROVE  Fits(q)'
BY DEF Typed, TypeOK, Fits

\* The rows after a step.
RowsTyped ==
  /\ sub \in Subscription
  /\ orgActive \in BOOLEAN
  /\ payments \in Seq(Payment)
  /\ bills \in Seq(Bill)
  /\ now \in Nat

LEMMA DoneTyped ==
  ASSUME Typed, NEW p \in Requests, Done(p), RowsTyped',
         DOMAIN payments \subseteq DOMAIN payments'
  PROVE  Typed'
<1>1. TypeOK' /\ body' = [q \in Requests |-> body'[q]]
  BY DEF Typed, TypeOK, Done, RowsTyped, Steps
<1>2. \A q \in Requests : q # p => Fits(q)'
  BY OthersFit DEF Typed, TypeOK, Done
<1>3. Fits(p)'
  BY DEF Typed, TypeOK, Done, Fits
<1> QED  BY <1>1, <1>2, <1>3 DEF Typed

\* A request that goes on to a step it is fit for keeps the invariant.
LEMMA GotoTyped ==
  ASSUME Typed, NEW p \in Requests, NEW s \in Steps, Goto(p, s), RowsTyped',
         DOMAIN payments \subseteq DOMAIN payments',
         body'  = [body EXCEPT ![p] = body'[p]],
         snap'  = [snap EXCEPT ![p] = snap'[p]],
         draft' = [draft EXCEPT ![p] = draft'[p]],
         snap'[p] \in Subscription \cup {Null},
         draft'[p] \in Draft \cup {Null},
         Fits(p)'
  PROVE  Typed'
<1>1. TypeOK' /\ body' = [q \in Requests |-> body'[q]]
  BY DEF Typed, TypeOK, Goto, RowsTyped
<1>2. \A q \in Requests : q # p => Fits(q)'
  BY OthersFit DEF Typed, TypeOK, Goto
<1> QED  BY <1>1, <1>2 DEF Typed

LEMMA StudioStepTyped ==
  ASSUME Typed, NEW s \in Studios, StudioStep(s)
  PROVE  Typed'
<1> USE DEF Requests
<1> USE TermsNormal
<1>1. ASSUME NEW term \in Terms, NEW extra \in ExtraSeats, RenewAdmit(s, term, extra)
      PROVE  Typed'
  <2>1. extra \in Nat
    BY ConstantsAssumption
  <2>2. Fits(s)'
    BY <1>1, <2>1 DEF RenewAdmit, Typed, TypeOK, Fits, Goto, QuoteForm
  <2> QED  BY <1>1, <2>2, GotoTyped
           DEF RenewAdmit, Typed, TypeOK, RowsTyped, rows, Steps
<1>2. CASE RenewQuote(s)
  <2>1. body[s] \in QuoteForm
    BY <1>2 DEF RenewQuote, Typed, Fits
  <2>2. AddCapacity(sub.limit, body[s].extra) \in Capacity
    BY <2>1 DEF AddCapacity, Typed, TypeOK, Subscription, Capacity, QuoteForm
  <2>3. body'[s] \in Pricing
    BY <1>2, <2>1, <2>2 DEF RenewQuote, Pricing, QuoteForm, Typed
  <2>4. Fits(s)'
    BY <1>2, <2>3 DEF RenewQuote, Typed, TypeOK, Fits, Goto
  <2> QED  BY <1>2, <2>4, GotoTyped
           DEF RenewQuote, Typed, TypeOK, RowsTyped, rows, Steps
<1>3. CASE RenewCreate(s)
  <2>1. [status |-> "PENDING", pricing |-> body[s]] \in Payment
    BY <1>3 DEF RenewCreate, Typed, Fits, Payment, PayStatus
  <2>2. payments' \in Seq(Payment) /\ DOMAIN payments \subseteq DOMAIN payments'
    BY <1>3, <2>1, AppendProperties, LenProperties DEF RenewCreate, Typed, TypeOK
  <2>3. Fits(s)'
    BY <1>3 DEF RenewCreate, Typed, TypeOK, Fits, Goto
  <2> QED  BY <1>3, <2>2, <2>3, GotoTyped
           DEF RenewCreate, Typed, TypeOK, RowsTyped, Steps
<1>4. CASE RenewTouch(s)
  <2>1. body[s] \in Pricing
    BY <1>4 DEF RenewTouch, Typed, Fits
  <2>2. sub' \in Subscription
    BY <1>4, <2>1, ConstantsAssumption
       DEF RenewTouch, Typed, TypeOK, Subscription, Pricing, PayStatus
  <2> QED  BY <1>4, <2>2, DoneTyped DEF RenewTouch, Typed, TypeOK, RowsTyped
<1> QED  BY <1>1, <1>2, <1>3, <1>4 DEF StudioStep

LEMMA VerifyStepTyped ==
  ASSUME Typed, NEW a \in Admins, VerifyStep(a)
  PROVE  Typed'
<1> USE DEF Requests
<1> USE TermsNormal
<1>1. ASSUME NEW i \in DOMAIN payments, NEW outcome \in {"PAID", "FAILED"},
             NEW notes \in NotesSent, VerifyBegin(a, i, outcome, notes)
      PROVE  Typed'
  <2>1. i \in Nat /\ notes \in BOOLEAN
    BY LenProperties, ConstantsAssumption DEF Typed, TypeOK
  <2>2. Fits(a)'
    BY <1>1, <2>1 DEF VerifyBegin, Typed, TypeOK, Fits, Goto, VerifyForm, rows
  <2> QED  BY <1>1, <2>2, GotoTyped
           DEF VerifyBegin, Typed, TypeOK, RowsTyped, rows, Steps
<1>2. CASE VerifyReadPayment(a)
  <2>1. /\ body[a] \in VerifyForm /\ body[a].payment \in DOMAIN payments
        /\ snap[a] \in Subscription
    BY <1>2 DEF VerifyReadPayment, Typed, Fits
  <2> DEFINE pay    == payments[body[a].payment]
             priced == pay.pricing # Null
             term   == NormalizeTerm(IF priced THEN pay.pricing.term ELSE snap[a].term)
             from   == PeriodStart(snap[a].expiresAt, now)
             bill   == [payment |-> body[a].payment, year |-> Year(now), number |-> 0,
                        term |-> term, from |-> from, to |-> from + term]
             new    == [bill     |-> bill,
                        override |-> IF priced THEN pay.pricing.allowed
                                     ELSE snap[a].override,
                        pricing  |-> IF body[a].notes THEN Null ELSE pay.pricing]
  <2>2. pay \in Payment
    BY <2>1, LenProperties DEF Typed, TypeOK
  <2>3. term \in Terms /\ term \in Nat
    OBVIOUS
  <2>4. from \in Nat
    BY <2>1, ConstantsAssumption DEF PeriodStart, Subscription, Typed, TypeOK
  <2>5. bill \in Bill
    <3>1. Year(now) \in Nat /\ body[a].payment \in Nat /\ from + term \in Nat
      BY <2>1, <2>3, <2>4, YearIsNat DEF VerifyForm, Typed, TypeOK
    <3> HIDE DEF term, from
    <3> QED  BY <2>3, <2>4, <3>1 DEF Bill
  <2>6. new \in Draft
    <3>1. new.override \in Capacity
      BY <2>1, <2>2 DEF Payment, Pricing, Subscription
    <3>2. new.pricing \in Pricing \cup {Null}
      BY <2>2 DEF Payment
    <3> HIDE DEF bill
    <3> QED  BY <2>5, <3>1, <3>2 DEF Draft
  <2>7. draft' = [draft EXCEPT ![a] = new]
    BY <1>2 DEF VerifyReadPayment
  <2> HIDE DEF new
  <2>8. draft'[a] = new /\ new.bill.payment = body[a].payment
    BY <2>7 DEF Typed, TypeOK, new
  <2>9. \E s \in {"verify.fail", "verify.count"} :
          Goto(a, s) /\ UNCHANGED <<rows, now, body, snap>>
    BY <1>2 DEF VerifyReadPayment
  <2>10. PICK s \in {"verify.fail", "verify.count"} :
          Goto(a, s) /\ UNCHANGED <<rows, now, body, snap>>
    BY <2>9
  <2>11. Fits(a)'
    BY <2>1, <2>6, <2>8, <2>10 DEF Typed, TypeOK, Fits, Goto, rows
  <2> QED  BY <2>6, <2>7, <2>8, <2>10, <2>11, GotoTyped
           DEF Typed, TypeOK, RowsTyped, rows, Steps
<1>3. CASE VerifyFail(a)
  <2>1. draft[a] \in Draft /\ body[a].payment \in DOMAIN payments
    BY <1>3 DEF VerifyFail, Typed, Fits
  <2>2. [status |-> "FAILED", pricing |-> draft[a].pricing] \in Payment
    BY <2>1 DEF Draft, Payment, PayStatus
  <2>3. payments' \in Seq(Payment) /\ DOMAIN payments' = DOMAIN payments
    BY <1>3, <2>1, <2>2, ExceptSeq, LenProperties DEF VerifyFail, Typed, TypeOK
  <2>4. sub' \in Subscription
    BY <1>3 DEF VerifyFail, Typed, TypeOK, Subscription, PayStatus
  <2> QED  BY <1>3, <2>3, <2>4, DoneTyped DEF VerifyFail, Typed, TypeOK, RowsTyped
<1>4. CASE VerifyCount(a)
  <2> DEFINE k   == Cardinality(BillsOf(draft[a].bill.year)) + 1
             new == [draft[a] EXCEPT !.bill.number = k]
  <2>1. draft[a] \in Draft /\ draft[a].bill.payment = body[a].payment
    BY <1>4 DEF VerifyCount, Typed, Fits
  <2>2. k \in Nat
    BY BillsFinite DEF Typed, TypeOK
  <2> HIDE DEF k
  <2>3. new \in Draft /\ new.bill.payment = draft[a].bill.payment
    BY <2>1, <2>2 DEF Draft, Bill
  <2>4. draft' = [draft EXCEPT ![a] = new]
    BY <1>4 DEF VerifyCount, k, Typed, TypeOK
  <2> HIDE DEF new
  <2>5. draft'[a] = new
    BY <2>4 DEF Typed, TypeOK
  <2>6. Fits(a)'
    BY <1>4, <2>1, <2>3, <2>5 DEF VerifyCount, Typed, TypeOK, Fits, Goto, rows
  <2> QED  BY <1>4, <2>3, <2>4, <2>5, <2>6, GotoTyped
           DEF VerifyCount, Typed, TypeOK, RowsTyped, rows, Steps
<1>5. CASE VerifyCommit(a)
  <2>1. /\ draft[a] \in Draft /\ body[a].payment \in DOMAIN payments
        /\ snap[a] \in Subscription
    BY <1>5 DEF VerifyCommit, Typed, Fits
  <2>2. [status |-> "PAID", pricing |-> draft[a].pricing] \in Payment
    BY <2>1 DEF Draft, Payment, PayStatus
  <2>3. payments' \in Seq(Payment) /\ DOMAIN payments' = DOMAIN payments
    BY <1>5, <2>1, <2>2, ExceptSeq, LenProperties DEF VerifyCommit, Typed, TypeOK
  <2>4. sub' \in Subscription
    BY <1>5, <2>1, ConstantsAssumption
       DEF VerifyCommit, Subscription, SubStatus, PayStatus, Draft, Bill
  <2>5. bills' \in Seq(Bill)
    BY <1>5, <2>1, AppendProperties DEF VerifyCommit, Draft, Typed, TypeOK
  <2> QED  BY <1>5, <2>3, <2>4, <2>5, DoneTyped
           DEF VerifyCommit, Typed, TypeOK, RowsTyped
<1>6. CASE VerifyRollback(a)
  BY <1>6, DoneTyped DEF VerifyRollback, Typed, TypeOK, RowsTyped, rows
<1> QED  BY <1>1, <1>2, <1>3, <1>4, <1>5, <1>6 DEF VerifyStep

\* mark-paid has found its payment.
LEMMA PickedTyped ==
  ASSUME Typed, NEW a \in Admins, NEW payment, NEW term \in Terms \cup {Absent},
         NEW notes \in BOOLEAN, Picked(a, payment, term, notes),
         payment \in Nat, payment \in DOMAIN payments',
         RowsTyped', DOMAIN payments \subseteq DOMAIN payments'
  PROVE  Typed'
<1> USE DEF Requests
<1>1. PICK s \in {"paid.verify", "paid.term"} : Goto(a, s)
  BY DEF Picked
<1>2. body'[a] \in VerifyForm /\ body'[a].payment = payment
  BY DEF Picked, VerifyForm, Typed
<1>3. Fits(a)'
  BY <1>1, <1>2 DEF Picked, Typed, TypeOK, Fits, Goto
<1> QED  BY <1>1, <1>3, GotoTyped DEF Picked, Typed, TypeOK, Steps

LEMMA MarkPaidStepTyped ==
  ASSUME Typed, NEW a \in Admins, MarkPaidStep(a)
  PROVE  Typed'
<1> USE DEF Requests
<1> USE TermsNormal
<1>0. DOMAIN payments = 1 .. Len(payments) /\ Len(payments) \in Nat
  BY LenProperties DEF Typed, TypeOK
<1>1. ASSUME NEW term \in Terms \cup {Absent}, NEW notes \in NotesSent,
             MarkPaidBegin(a, term, notes)
      PROVE  Typed'
  <2>1. notes \in BOOLEAN
    BY ConstantsAssumption
  <2>2. CASE HasPayment("PENDING")
    <3>1. NewestWith("PENDING") \in DOMAIN payments
      BY <2>2, NewestFound DEF Typed, TypeOK
    <3>2. Picked(a, NewestWith("PENDING"), term, notes) /\ UNCHANGED <<rows, now>>
      BY <1>1, <2>2 DEF MarkPaidBegin
    <3>3. RowsTyped' /\ payments' = payments
      BY <3>2 DEF rows, RowsTyped, Typed, TypeOK
    <3> QED  BY <1>0, <2>1, <3>1, <3>2, <3>3, PickedTyped
  <2>3. CASE ~HasPayment("PENDING")
    <3>1. Fits(a)'
      BY <1>1, <2>1, <2>3 DEF MarkPaidBegin, Typed, TypeOK, Fits, Goto, VerifyForm
    <3> QED  BY <1>1, <2>3, <3>1, GotoTyped
             DEF MarkPaidBegin, Typed, TypeOK, RowsTyped, rows, Steps
  <2> QED  BY <2>2, <2>3
<1>2. CASE MarkPaidFindProcessing(a)
  <2>1. body[a] \in VerifyForm
    BY <1>2 DEF MarkPaidFindProcessing, Typed, Fits
  <2>2. CASE HasPayment("PROCESSING")
    <3>1. NewestWith("PROCESSING") \in DOMAIN payments
      BY <2>2, NewestFound DEF Typed, TypeOK
    <3>2. /\ Picked(a, NewestWith("PROCESSING"), body[a].term, body[a].notes)
          /\ UNCHANGED <<rows, now>>
      BY <1>2, <2>2 DEF MarkPaidFindProcessing
    <3>3. RowsTyped' /\ payments' = payments
      BY <3>2 DEF rows, RowsTyped, Typed, TypeOK
    <3>4. /\ NewestWith("PROCESSING") \in Nat
          /\ NewestWith("PROCESSING") \in DOMAIN payments'
          /\ DOMAIN payments \subseteq DOMAIN payments'
      BY <1>0, <3>1, <3>3
    <3>5. body[a].term \in Terms \cup {Absent} /\ body[a].notes \in BOOLEAN
      BY <2>1 DEF VerifyForm
    <3> QED  BY <3>2, <3>3, <3>4, <3>5, PickedTyped
  <2>3. CASE ~HasPayment("PROCESSING")
    <3>1. Fits(a)'
      BY <1>2, <2>1, <2>3 DEF MarkPaidFindProcessing, Typed, TypeOK, Fits, Goto
    <3> QED  BY <1>2, <2>3, <3>1, GotoTyped
             DEF MarkPaidFindProcessing, Typed, TypeOK, RowsTyped, rows, Steps
  <2> QED  BY <2>2, <2>3
<1>3. CASE MarkPaidCreate(a)
  <2>1. body[a] \in VerifyForm
    BY <1>3 DEF MarkPaidCreate, Typed, Fits
  <2>2. [status |-> "PROCESSING", pricing |-> Null] \in Payment
    BY DEF Payment, PayStatus
  <2>3. /\ payments' \in Seq(Payment) /\ DOMAIN payments \subseteq DOMAIN payments'
        /\ Len(payments) + 1 \in DOMAIN payments'
    BY <1>0, <1>3, <2>2, AppendProperties, LenProperties
       DEF MarkPaidCreate, Typed, TypeOK
  <2>4. RowsTyped' /\ Picked(a, Len(payments) + 1, body[a].term, body[a].notes)
    BY <1>3, <2>3 DEF MarkPaidCreate, RowsTyped, Typed, TypeOK
  <2>5. /\ Len(payments) + 1 \in Nat
        /\ body[a].term \in Terms \cup {Absent} /\ body[a].notes \in BOOLEAN
    BY <1>0, <2>1 DEF VerifyForm
  <2> QED  BY <2>3, <2>4, <2>5, PickedTyped
<1>4. CASE MarkPaidSetTerm(a)
  <2>1. sub' \in Subscription
    BY <1>4 DEF MarkPaidSetTerm, Typed, TypeOK, Subscription
  <2>2. Fits(a)'
    BY <1>4 DEF MarkPaidSetTerm, Typed, TypeOK, Fits, Goto
  <2> QED  BY <1>4, <2>1, <2>2, GotoTyped
           DEF MarkPaidSetTerm, Typed, TypeOK, RowsTyped, Steps
<1>5. CASE MarkPaidVerify(a)
  <2>1. Fits(a)'
    BY <1>5 DEF MarkPaidVerify, Typed, TypeOK, Fits, Goto, rows
  <2> QED  BY <1>5, <2>1, GotoTyped
           DEF MarkPaidVerify, Typed, TypeOK, RowsTyped, rows, Steps
<1> QED  BY <1>1, <1>2, <1>3, <1>4, <1>5 DEF MarkPaidStep

LEMMA AccountStepTyped ==
  ASSUME Typed, NEW a \in Admins, AccountStep(a)
  PROVE  Typed'
<1> USE DEF Requests
<1> USE TermsNormal
<1>1. ASSUME NEW input \in PatchInputs, PatchRead(a, input)
      PROVE  Typed'
  <2>1. input \in Patch
    BY ConstantsAssumption
  <2>2. Fits(a)'
    BY <1>1, <2>1 DEF PatchRead, Typed, TypeOK, Fits, Goto
  <2> QED  BY <1>1, <2>2, GotoTyped
           DEF PatchRead, Typed, TypeOK, RowsTyped, rows, Steps
<1>2. CASE PatchWrite(a)
  <2>1. body[a] \in Patch /\ snap[a] \in Subscription
    BY <1>2 DEF PatchWrite, Typed, Fits
  <2>2. sub' \in Subscription
    BY <1>2, <2>1 DEF PatchWrite, Patch, Subscription, Sent
  <2> QED  BY <1>2, <2>2, DoneTyped DEF PatchWrite, Typed, TypeOK, RowsTyped
<1>3. CASE SuspendCheck(a)
  <2>1. Fits(a)'
    BY <1>3 DEF SuspendCheck, Typed, TypeOK, Fits, Goto, rows
  <2> QED  BY <1>3, <2>1, GotoTyped
           DEF SuspendCheck, Typed, TypeOK, RowsTyped, rows, Steps
<1>4. CASE SuspendWrite(a)
  <2>1. sub' \in Subscription
    BY <1>4 DEF SuspendWrite, Typed, TypeOK, Subscription, SubStatus
  <2> QED  BY <1>4, <2>1, DoneTyped DEF SuspendWrite, Typed, TypeOK, RowsTyped
<1>5. CASE Restore(a)
  <2>1. sub' \in Subscription
    BY <1>5 DEF Restore, Typed, TypeOK, Subscription, SubStatus
  <2> QED  BY <1>5, <2>1 DEF Restore, Typed, TypeOK, Fits, mine
<1>6. ASSUME NEW term \in Terms, NEW limit \in PlanLimits, NEW markPaid \in BOOLEAN,
             ConvertCheck(a, term, limit, markPaid)
      PROVE  Typed'
  <2>1. limit \in Capacity
    BY ConstantsAssumption
  <2>2. Fits(a)'
    BY <1>6, <2>1 DEF ConvertCheck, Typed, TypeOK, Fits, Goto, ConvertForm
  <2> QED  BY <1>6, <2>2, GotoTyped
           DEF ConvertCheck, Typed, TypeOK, RowsTyped, rows, Steps
<1>7. CASE ConvertWrite(a)
  <2>1. body[a] \in ConvertForm
    BY <1>7 DEF ConvertWrite, Typed, Fits
  <2>2. /\ body[a].limit \in Capacity /\ body[a].term \in Nat
        /\ now + body[a].term \in Nat
    BY <2>1, ConstantsAssumption DEF ConvertForm, Typed, TypeOK
  <2>3. sub' = [sub EXCEPT !.limit = body[a].limit,
                           !.status = "ACTIVE",
                           !.payStatus = IF body[a].markPaid THEN "PAID" ELSE "PENDING",
                           !.term = body[a].term,
                           !.expiresAt = now + body[a].term]
    BY <1>7 DEF ConvertWrite
  <2>4. sub' \in Subscription
    BY <2>2, <2>3 DEF Typed, TypeOK, Subscription, SubStatus, PayStatus
  <2> QED  BY <1>7, <2>4, DoneTyped DEF ConvertWrite, Typed, TypeOK, RowsTyped
<1> QED  BY <1>1, <1>2, <1>3, <1>4, <1>5, <1>6, <1>7 DEF AccountStep

LEMMA StepTyped == Typed /\ [Next]_vars => Typed'
<1> SUFFICES ASSUME Typed, [Next]_vars PROVE Typed'
  OBVIOUS
<1>1. CASE Tick
  BY <1>1 DEF Tick, Typed, TypeOK, Fits, rows, mine
<1>2. ASSUME NEW p \in Requests, Abandon(p)
      PROVE  Typed'
  BY <1>2, DoneTyped DEF Abandon, Typed, TypeOK, RowsTyped, rows
<1>3. CASE UNCHANGED vars
  BY <1>3 DEF vars, Typed, TypeOK, Fits
<1> QED  BY <1>1, <1>2, <1>3, StudioStepTyped, VerifyStepTyped, MarkPaidStepTyped,
            AccountStepTyped DEF Next

\* Every row and every request's memory keeps its type in all behaviours.
THEOREM TypesKept == Spec => []TypeOK
<1>1. Typed => TypeOK
  BY DEF Typed
<1> QED  BY <1>1, InitTyped, StepTyped, PTL DEF Spec

-----------------------------------------------------------------------------
(* Bills. *)

\* The number a verification is about to use was one more than a count of bills,
\* and bills are only added.
Numbered(p) ==
  pc[p] = "verify.commit" =>
    draft[p].bill.number \in 1 .. Cardinality(BillsOf(draft[p].bill.year)) + 1

\* BillNumbersGapFree made inductive.
NumbersFit == BillNumbersGapFree /\ \A p \in Requests : Numbered(p)

\* Steps that leave the bills alone, and give no draft a number.
Unbilled ==
  /\ bills' = bills
  /\ \A p \in Requests :
       pc'[p] = "verify.commit" => pc[p] = "verify.commit" /\ draft'[p] = draft[p]

LEMMA OtherSteps ==
  ASSUME Typed, [Next]_vars,
         \A a \in Admins : ~VerifyCount(a) /\ ~VerifyCommit(a)
  PROVE  Unbilled
<1> USE DEF Typed, TypeOK, Unbilled, Goto, Done, Requests
<1>1. CASE Tick
  BY <1>1 DEF Tick, rows, mine
<1>2. ASSUME NEW s \in Studios, StudioStep(s)
      PROVE  Unbilled
  BY <1>2 DEF StudioStep, RenewAdmit, RenewQuote, RenewCreate, RenewTouch, rows
<1>3. ASSUME NEW a \in Admins, VerifyStep(a)
      PROVE  Unbilled
  BY <1>3 DEF VerifyStep, VerifyBegin, VerifyReadPayment, VerifyFail, VerifyRollback, rows
<1>4. ASSUME NEW a \in Admins, MarkPaidStep(a)
      PROVE  Unbilled
  BY <1>4 DEF MarkPaidStep, MarkPaidBegin, MarkPaidFindProcessing, MarkPaidCreate,
              MarkPaidSetTerm, MarkPaidVerify, Picked, rows
<1>5. ASSUME NEW a \in Admins, AccountStep(a)
      PROVE  Unbilled
  BY <1>5 DEF AccountStep, PatchRead, PatchWrite, SuspendCheck, SuspendWrite, Restore,
              ConvertCheck, ConvertWrite, rows, mine
<1>6. ASSUME NEW p \in Requests, Abandon(p)
      PROVE  Unbilled
  BY <1>6 DEF Abandon, rows
<1>7. CASE UNCHANGED vars
  BY <1>7 DEF vars
<1> QED  BY <1>1, <1>2, <1>3, <1>4, <1>5, <1>6, <1>7 DEF Next

\* The bills after a commit: one more, in its own year.
LEMMA CommitAdds ==
  ASSUME Typed, NEW a \in Admins, VerifyCommit(a)
  PROVE  LET b == draft[a].bill
             n == Len(bills) + 1
         IN  /\ b \in Bill
             /\ DOMAIN bills = 1 .. Len(bills) /\ Len(bills) \in Nat
             /\ DOMAIN bills' = DOMAIN bills \cup {n} /\ n \notin DOMAIN bills
             /\ bills'[n] = b
             /\ \A i \in DOMAIN bills : bills'[i] = bills[i]
             /\ \A y : BillsOf(y)' = BillsOf(y) \cup (IF y = b.year THEN {n} ELSE {})
             /\ \A y : n \notin BillsOf(y)
<1> DEFINE b == draft[a].bill
           n == Len(bills) + 1
<1>1. b \in Bill /\ bills \in Seq(Bill) /\ bills' = Append(bills, b)
  BY DEF VerifyCommit, Typed, TypeOK, Fits, Draft, Requests
<1> HIDE DEF b
<1>2. DOMAIN bills = 1 .. Len(bills) /\ Len(bills) \in Nat
  BY <1>1, LenProperties
<1>3. bills' \in Seq(Bill) /\ Len(bills') = n
      /\ bills'[n] = b /\ \A i \in 1 .. Len(bills) : bills'[i] = bills[i]
  BY <1>1, AppendProperties
<1>4. DOMAIN bills' = DOMAIN bills \cup {n} /\ n \notin DOMAIN bills
  <2>1. DOMAIN bills' = 1 .. n
    BY <1>3, LenProperties
  <2> QED  BY <1>2, <2>1
<1>5. ASSUME NEW y
      PROVE  /\ BillsOf(y)' = BillsOf(y) \cup (IF y = b.year THEN {n} ELSE {})
             /\ n \notin BillsOf(y)
  <2>1. BillsOf(y)' = {i \in DOMAIN bills' : bills'[i].year = y}
    BY DEF BillsOf
  <2> HIDE DEF n
  <2> QED  BY <1>2, <1>3, <1>4, <2>1 DEF BillsOf
<1> QED  BY <1>1, <1>2, <1>3, <1>4, <1>5 DEF b

LEMMA NumbersStep == Typed /\ NumbersFit /\ [Next]_vars => NumbersFit'
<1> SUFFICES ASSUME Typed, NumbersFit, [Next]_vars PROVE NumbersFit'
  OBVIOUS
<1> USE DEF Requests
<1>0. bills \in Seq(Bill) /\ \A y : Cardinality(BillsOf(y)) \in Nat
  BY BillsFinite DEF Typed, TypeOK
<1>1. CASE \A a \in Admins : ~VerifyCount(a) /\ ~VerifyCommit(a)
  <2>1. Unbilled
    BY <1>1, OtherSteps
  <2>2. \A y : BillsOf(y)' = BillsOf(y)
    BY <2>1 DEF Unbilled, BillsOf
  <2>3. BillNumbersGapFree'
    BY <2>1, <2>2 DEF Unbilled, NumbersFit, BillNumbersGapFree
  <2>4. \A p \in Requests : Numbered(p)'
    BY <2>1, <2>2 DEF Unbilled, NumbersFit, Numbered
  <2> QED  BY <2>3, <2>4 DEF NumbersFit
<1>2. ASSUME NEW a \in Admins, VerifyCount(a)
      PROVE  NumbersFit'
  <2>1. bills' = bills /\ \A y : BillsOf(y)' = BillsOf(y)
    BY <1>2 DEF VerifyCount, rows, BillsOf
  <2>2. BillNumbersGapFree'
    BY <2>1 DEF NumbersFit, BillNumbersGapFree
  <2>3. Numbered(a)'
    <3>1. draft[a] \in Draft
      BY <1>2 DEF VerifyCount, Typed, Fits
    <3>2. /\ draft'[a].bill.year = draft[a].bill.year
          /\ draft'[a].bill.number = Cardinality(BillsOf(draft[a].bill.year)) + 1
      BY <1>2, <3>1 DEF VerifyCount, Typed, TypeOK, Draft, Bill
    <3> QED  BY <1>0, <2>1, <3>2 DEF Numbered
  <2>4. \A p \in Requests : p # a => Numbered(p)'
    BY <1>2, <2>1 DEF VerifyCount, Typed, TypeOK, Goto, NumbersFit, Numbered
  <2> QED  BY <2>2, <2>3, <2>4 DEF NumbersFit
<1>3. ASSUME NEW a \in Admins, VerifyCommit(a)
      PROVE  NumbersFit'
  <2> DEFINE b == draft[a].bill
             n == Len(bills) + 1
  <2>0. PICK y : y = b.year
    OBVIOUS
  <2> DEFINE c == Cardinality(BillsOf(y))
  <2>1. /\ b \in Bill
        /\ DOMAIN bills' = DOMAIN bills \cup {n} /\ n \notin DOMAIN bills
        /\ bills'[n] = b
        /\ \A i \in DOMAIN bills : bills'[i] = bills[i]
        /\ BillsOf(y)' = BillsOf(y) \cup {n}
        /\ n \notin BillsOf(y)
        /\ \A z : z # y => BillsOf(z)' = BillsOf(z)
    <3>1. \A z : BillsOf(z)' = BillsOf(z) \cup (IF z = b.year THEN {n} ELSE {})
      BY <1>3, CommitAdds
    <3>2. BillsOf(y)' = BillsOf(y) \cup {n} /\ \A z : z # y => BillsOf(z)' = BillsOf(z)
      <4> HIDE DEF b, n
      <4> QED  BY <2>0, <3>1
    <3>3. /\ b \in Bill
          /\ DOMAIN bills' = DOMAIN bills \cup {n} /\ n \notin DOMAIN bills
          /\ bills'[n] = b
          /\ \A i \in DOMAIN bills : bills'[i] = bills[i]
          /\ n \notin BillsOf(y)
      BY <1>3, CommitAdds
    <3> QED  BY <3>2, <3>3
  <2>2. c \in Nat /\ Cardinality(BillsOf(y)') = c + 1
    <3>1. IsFiniteSet(BillsOf(y))
      BY <1>0, BillsFinite
    <3> HIDE DEF n
    <3> QED  BY <1>0, <2>1, <3>1, FS_AddElement
  <2>3. {bills[j].number : j \in BillsOf(y)} = 1 .. c
    <3>1. CASE BillsOf(y) = {}
      BY <3>1, FS_EmptySet
    <3>2. CASE BillsOf(y) # {}
      <4>1. PICK i \in DOMAIN bills : bills[i].year = y
        BY <3>2 DEF BillsOf
      <4> QED  BY <4>1 DEF NumbersFit, BillNumbersGapFree
    <3> QED  BY <3>1, <3>2
  <2>4. b.number = c + 1
    <3>1. b.number \in 1 .. c + 1
      BY <1>3, <2>0 DEF VerifyCommit, NumbersFit, Numbered
    <3>2. b.number \notin 1 .. c
      <4>1. \A j \in BillsOf(y) : bills[j].number # b.number
        BY <1>3, <2>0 DEF VerifyCommit, BillKeysFree, BillsOf
      <4> QED  BY <2>3, <4>1
    <3> HIDE DEF b, c
    <3> QED  BY <2>2, <3>1, <3>2
  <2> HIDE DEF b, n, c
  <2>5. {bills'[j].number : j \in BillsOf(y)'} = 1 .. c + 1
    <3>1. \A j \in BillsOf(y) : bills'[j] = bills[j]
      BY <2>1 DEF BillsOf
    <3>2. {bills'[j].number : j \in BillsOf(y)'} =
            {bills[j].number : j \in BillsOf(y)} \cup {c + 1}
      BY <2>1, <2>4, <3>1
    <3> QED  BY <2>2, <2>3, <3>2
  <2>6. BillNumbersGapFree'
    <3> SUFFICES ASSUME NEW i \in DOMAIN bills', NEW z, z = bills'[i].year
                 PROVE  {bills'[j].number : j \in BillsOf(z)'} =
                          1 .. Cardinality(BillsOf(z)')
      BY DEF BillNumbersGapFree, BillsOf
    <3>1. CASE z = y
      BY <2>2, <2>5, <3>1
    <3>2. CASE z # y
      <4>1. i \in DOMAIN bills /\ bills[i].year = z
        BY <2>0, <2>1, <3>2
      <4>2. {bills[j].number : j \in BillsOf(z)} = 1 .. Cardinality(BillsOf(z))
        BY <4>1 DEF NumbersFit, BillNumbersGapFree
      <4>3. BillsOf(z)' = BillsOf(z)
        BY <2>1, <3>2
      <4>4. \A j \in BillsOf(z) : bills'[j] = bills[j]
        BY <2>1 DEF BillsOf
      <4> QED  BY <4>2, <4>3, <4>4
    <3> QED  BY <3>1, <3>2
  <2>7. ASSUME NEW p \in Requests, pc'[p] = "verify.commit"
        PROVE  Numbered(p)'
    <3>1. p # a /\ draft'[p] = draft[p] /\ pc[p] = "verify.commit"
      BY <1>3, <2>7 DEF VerifyCommit, Done, Typed, TypeOK
    <3>z. PICK z : z = draft[p].bill.year
      OBVIOUS
    <3>2. draft[p].bill.number \in 1 .. Cardinality(BillsOf(z)) + 1
      BY <3>1, <3>z DEF NumbersFit, Numbered
    <3>3. Cardinality(BillsOf(z)) \in Nat /\ Cardinality(BillsOf(z)') \in Nat
          /\ Cardinality(BillsOf(z)) <= Cardinality(BillsOf(z)')
      <4>1. CASE z = y
        BY <2>2, <4>1 DEF c
      <4>2. CASE z # y
        BY <1>0, <2>1, <4>2
      <4> QED  BY <4>1, <4>2
    <3>4. draft[p].bill.number \in 1 .. Cardinality(BillsOf(z)') + 1
      BY <3>2, <3>3
    <3> QED  BY <3>1, <3>z, <3>4 DEF Numbered
  <2> QED  BY <2>6, <2>7 DEF NumbersFit, Numbered
<1> QED  BY <1>1, <1>2, <1>3

\* Whatever the number of overlapping verifications, the numbers of a year's bills
\* are 1, 2, ..., n.  The unique key alone would allow gaps, the count alone
\* repetitions: a number can only be taken if it is at most one more than today's
\* count (bills are never removed) and is free, and so it is one more.
THEOREM NumbersGapFree == Spec => []BillNumbersGapFree
<1>1. Init => NumbersFit
  BY DEF Init, NumbersFit, BillNumbersGapFree, Numbered
<1>2. NumbersFit => BillNumbersGapFree
  BY DEF NumbersFit
<1> QED  BY <1>1, <1>2, InitTyped, StepTyped, NumbersStep, PTL DEF Spec

\* At most one bill per payment, and one for every payment that is PAID.
BillsFit == BilledOnce /\ PaidIsBilled

\* Steps that add no bill, and mark no payment PAID.
Unpaid ==
  /\ bills' = bills
  /\ \A i \in DOMAIN payments' :
       payments'[i].status = "PAID" => i \in DOMAIN payments /\ payments[i].status = "PAID"

LEMMA NoCommit ==
  ASSUME Typed, [Next]_vars, \A a \in Admins : ~VerifyCommit(a)
  PROVE  Unpaid
<1>0. DOMAIN payments = 1 .. Len(payments) /\ Len(payments) \in Nat
  BY LenProperties DEF Typed, TypeOK
<1> USE DEF Unpaid, Requests
<1>1. CASE UNCHANGED <<payments, bills>>
  BY <1>1
<1>2. ASSUME NEW s \in Studios, RenewCreate(s)
      PROVE  Unpaid
  <2> DEFINE row == [status |-> "PENDING", pricing |-> body[s]]
  <2>1. row \in Payment
    BY <1>2 DEF RenewCreate, Typed, Fits, Payment, PayStatus
  <2>2. payments' = Append(payments, row) /\ bills' = bills
    BY <1>2 DEF RenewCreate
  <2>3. /\ DOMAIN payments' = 1 .. Len(payments) + 1
        /\ \A i \in 1 .. Len(payments) : payments'[i] = payments[i]
        /\ payments'[Len(payments) + 1].status = "PENDING"
    BY <2>1, <2>2, AppendProperties, LenProperties DEF Typed, TypeOK
  <2> QED  BY <1>0, <2>2, <2>3
<1>3. ASSUME NEW a \in Admins, MarkPaidCreate(a)
      PROVE  Unpaid
  <2> DEFINE row == [status |-> "PROCESSING", pricing |-> Null]
  <2>1. row \in Payment
    BY DEF Payment, PayStatus
  <2>2. payments' = Append(payments, row) /\ bills' = bills
    BY <1>3 DEF MarkPaidCreate
  <2>3. /\ DOMAIN payments' = 1 .. Len(payments) + 1
        /\ \A i \in 1 .. Len(payments) : payments'[i] = payments[i]
        /\ payments'[Len(payments) + 1].status = "PROCESSING"
    BY <2>1, <2>2, AppendProperties, LenProperties DEF Typed, TypeOK
  <2> QED  BY <1>0, <2>2, <2>3
<1>4. ASSUME NEW a \in Admins, VerifyFail(a)
      PROVE  Unpaid
  BY <1>4 DEF VerifyFail
<1>5. ASSUME NEW s \in Studios, StudioStep(s), ~RenewCreate(s)
      PROVE  Unpaid
  BY <1>1, <1>5 DEF StudioStep, RenewAdmit, RenewQuote, RenewTouch, rows
<1>6. ASSUME NEW a \in Admins, VerifyStep(a), ~VerifyFail(a)
      PROVE  Unpaid
  BY <1>1, <1>6 DEF VerifyStep, VerifyBegin, VerifyReadPayment, VerifyCount,
                    VerifyRollback, rows
<1>7. ASSUME NEW a \in Admins, MarkPaidStep(a), ~MarkPaidCreate(a)
      PROVE  Unpaid
  BY <1>1, <1>7 DEF MarkPaidStep, MarkPaidBegin, MarkPaidFindProcessing,
                    MarkPaidSetTerm, MarkPaidVerify, Picked, rows
<1>8. ASSUME NEW a \in Admins, AccountStep(a)
      PROVE  Unpaid
  BY <1>1, <1>8 DEF AccountStep, PatchRead, PatchWrite, SuspendCheck, SuspendWrite,
                    Restore, ConvertCheck, ConvertWrite, rows
<1>9. CASE UNCHANGED vars \/ Tick \/ \E p \in Requests : Abandon(p)
  BY <1>1, <1>9 DEF vars, Tick, Abandon, rows
<1> QED  BY <1>2, <1>3, <1>4, <1>5, <1>6, <1>7, <1>8, <1>9 DEF Next

LEMMA BillsStep == Typed /\ BillsFit /\ [Next]_vars => BillsFit'
<1> SUFFICES ASSUME Typed, BillsFit, [Next]_vars PROVE BillsFit'
  OBVIOUS
<1> USE DEF Requests
<1>1. CASE \A a \in Admins : ~VerifyCommit(a)
  <2>1. Unpaid
    BY <1>1, NoCommit
  <2> QED  BY <2>1 DEF Unpaid, BillsFit, BilledOnce, PaidIsBilled
<1>2. ASSUME NEW a \in Admins, VerifyCommit(a)
      PROVE  BillsFit'
  <2> DEFINE b == draft[a].bill
             n == Len(bills) + 1
  <2>1. /\ DOMAIN bills' = DOMAIN bills \cup {n} /\ n \notin DOMAIN bills
        /\ bills'[n] = b
        /\ \A i \in DOMAIN bills : bills'[i] = bills[i]
    BY <1>2, CommitAdds
  <2>2. b.payment = body[a].payment
    BY <1>2 DEF VerifyCommit, Typed, Fits
  <2>3. \A i \in DOMAIN bills : bills[i].payment # b.payment
    BY <1>2 DEF VerifyCommit, BillKeysFree
  <2>4. /\ DOMAIN payments' = DOMAIN payments
        /\ \A i \in DOMAIN payments : i # body[a].payment => payments'[i] = payments[i]
    BY <1>2 DEF VerifyCommit
  <2> HIDE DEF b, n
  <2>5. BilledOnce'
    BY <2>1, <2>3 DEF BillsFit, BilledOnce
  <2>6. PaidIsBilled'
    <3> SUFFICES ASSUME NEW i \in DOMAIN payments', payments'[i].status = "PAID"
                 PROVE  \E j \in DOMAIN bills' : bills'[j].payment = i
      BY DEF PaidIsBilled
    <3>1. CASE i = body[a].payment
      BY <2>1, <2>2, <3>1
    <3>2. CASE i # body[a].payment
      <4>1. PICK j \in DOMAIN bills : bills[j].payment = i
        BY <2>4, <3>2 DEF BillsFit, PaidIsBilled
      <4> QED  BY <2>1, <4>1
    <3> QED  BY <3>1, <3>2
  <2> QED  BY <2>5, <2>6 DEF BillsFit
<1> QED  BY <1>1, <1>2

LEMMA BillsInvariant == Spec => []BillsFit
<1>1. Init => BillsFit
  BY DEF Init, BillsFit, BilledOnce, PaidIsBilled
<1> QED  BY <1>1, InitTyped, StepTyped, BillsStep, PTL DEF Spec

\* However often and however concurrently a payment is verified, it is billed at
\* most once.
THEOREM OneBillPerPayment == Spec => []BilledOnce
<1>1. BillsFit => BilledOnce
  BY DEF BillsFit
<1> QED  BY <1>1, BillsInvariant, PTL

\* A payment that is marked PAID has its bill, whatever fails or is cut off: a
\* verification bills the payment it was asked about, in the step that marks it.
THEOREM PaidHasBill == Spec => []PaidIsBilled
<1>1. BillsFit => PaidIsBilled
  BY DEF BillsFit
<1> QED  BY <1>1, BillsInvariant, PTL
-----------------------------------------------------------------------------
(* One platform request at a time.  With two the paid period is not what was *)
(* billed; a PATCH of the expiry, or back to a trial, moves it on purpose.   *)

Supervised ==
  /\ \A a, b \in Admins : a = b
  /\ \A input \in PatchInputs : input.expiresAt = Absent /\ input.status # "TRIAL"

\* What the platform's request has read is still so, although the workshop
\* asks for renewals meanwhile, and its bill starts where the paid period ends.
Followed(a) ==
  /\ pc[a] \in SnapSteps =>
       snap[a].expiresAt = sub.expiresAt /\ snap[a].status = sub.status
  /\ pc[a] \in DraftSteps =>
       /\ \E t \in 0 .. now : draft[a].bill.from = PeriodStart(sub.expiresAt, t)
       /\ draft[a].bill.to = draft[a].bill.from + draft[a].bill.term
  /\ pc[a] = "patch.write" => body[a] \in PatchInputs
  /\ pc[a] = "convert.write" => bills = <<>>
  /\ pc[a] = "paid.create" => ~HasPayment("PROCESSING")

\* BillsReachExpiry and OneProcessing made inductive.
Serial ==
  /\ BillsReachExpiry
  /\ OneProcessing
  /\ bills # <<>> => sub.status # "TRIAL"
  /\ \A a \in Admins : Followed(a)

\* Steps that leave bills and the paid period alone.
LEMMA SameBills ==
  ASSUME Serial, bills' = bills, sub'.expiresAt = sub.expiresAt,
         bills # <<>> => sub'.status # "TRIAL",
         \A i \in DOMAIN payments' : payments'[i].status = "PROCESSING" =>
           i \in DOMAIN payments /\ payments[i].status = "PROCESSING",
         \A a \in Admins : Followed(a)'
  PROVE  Serial'
BY DEF Serial, BillsReachExpiry, OneProcessing

\* A request of the workshop changes nothing that the platform's has read.
LEMMA StudioSerial ==
  ASSUME Typed, Serial, NEW s \in Studios, StudioStep(s)
  PROVE  Serial'
<1> USE DEF Requests
<1>0. /\ DOMAIN payments = 1 .. Len(payments) /\ Len(payments) \in Nat
      /\ sub \in Subscription
  BY LenProperties DEF Typed, TypeOK
<1>1. /\ bills' = bills /\ now' = now
      /\ sub'.expiresAt = sub.expiresAt /\ sub'.status = sub.status
  BY <1>0 DEF StudioStep, RenewAdmit, RenewQuote, RenewCreate, RenewTouch, rows, Subscription
<1>2. \A i \in DOMAIN payments' : payments'[i].status = "PROCESSING" =>
        i \in DOMAIN payments /\ payments[i].status = "PROCESSING"
  <2>1. CASE UNCHANGED payments
    BY <2>1
  <2>2. CASE RenewCreate(s)
    <3> DEFINE row == [status |-> "PENDING", pricing |-> body[s]]
    <3>1. row \in Payment
      BY <2>2 DEF RenewCreate, Typed, Fits, Payment, PayStatus
    <3>2. payments' = Append(payments, row)
      BY <2>2 DEF RenewCreate
    <3>3. /\ DOMAIN payments' = 1 .. Len(payments) + 1
          /\ \A i \in 1 .. Len(payments) : payments'[i] = payments[i]
          /\ payments'[Len(payments) + 1].status = "PENDING"
      BY <3>1, <3>2, AppendProperties, LenProperties DEF Typed, TypeOK
    <3> QED  BY <1>0, <3>3
  <2> QED  BY <2>1, <2>2 DEF StudioStep, RenewAdmit, RenewQuote, RenewTouch, rows
<1>3. ASSUME NEW a \in Admins  PROVE Followed(a)'
  <2>1. /\ pc'[a] \in SnapSteps \cup DraftSteps \cup {"convert.write", "paid.create"} =>
             pc'[a] = pc[a] /\ snap'[a] = snap[a] /\ draft'[a] = draft[a] /\ body'[a] = body[a]
    BY DEF StudioStep, RenewAdmit, RenewQuote, RenewCreate, RenewTouch, Goto, Done,
           Typed, TypeOK
  <2>2. HasPayment("PROCESSING")' => HasPayment("PROCESSING")
    BY <1>2 DEF HasPayment
  <2> QED  BY <1>1, <2>1, <2>2 DEF Serial, Followed, PeriodStart
<1> QED  BY <1>1, <1>2, <1>3, SameBills DEF Serial

LEMMA VerifySerial ==
  ASSUME Supervised, Typed, Serial, NEW a \in Admins, VerifyStep(a)
  PROVE  Serial'
<1> USE DEF Requests
<1>0. sub \in Subscription /\ \A b \in Admins : b = a
  BY DEF Supervised, Typed, TypeOK
<1>a. ASSUME UNCHANGED rows, Followed(a)'  PROVE Serial'
  BY <1>0, <1>a, SameBills DEF rows, Serial
<1>b. ASSUME Done(a)  PROVE Followed(a)'
  BY <1>b DEF Done, Followed, Typed, TypeOK
<1>1. ASSUME NEW i \in DOMAIN payments, NEW outcome \in {"PAID", "FAILED"},
             NEW notes \in NotesSent, VerifyBegin(a, i, outcome, notes)
      PROVE  Serial'
  <2>1. Followed(a)'
    BY <1>1 DEF VerifyBegin, Goto, Followed, Typed, TypeOK, rows
  <2> QED  BY <1>1, <1>a, <2>1 DEF VerifyBegin
<1>2. CASE VerifyReadPayment(a)
  <2> DEFINE term == NormalizeTerm(IF payments[body[a].payment].pricing # Null
                                   THEN payments[body[a].payment].pricing.term
                                   ELSE snap[a].term)
             from == PeriodStart(snap[a].expiresAt, now)
  <2>1. /\ draft'[a].bill.term = term /\ draft'[a].bill.from = from
        /\ draft'[a].bill.to = from + term
    BY <1>2 DEF VerifyReadPayment, Typed, TypeOK
  <2>2. /\ pc'[a] \in {"verify.fail", "verify.count"} /\ snap'[a] = snap[a]
        /\ UNCHANGED <<rows, now>>
    BY <1>2 DEF VerifyReadPayment, Goto, Typed, TypeOK
  <2>3. snap[a].expiresAt = sub.expiresAt /\ snap[a].status = sub.status
    BY <1>2 DEF VerifyReadPayment, Serial, Followed
  <2>4. now \in 0 .. now
    BY DEF Typed, TypeOK
  <2> HIDE DEF term, from
  <2>5. Followed(a)'
    BY <2>1, <2>2, <2>3, <2>4 DEF Followed, rows, from
  <2> QED  BY <1>a, <2>2, <2>5
<1>3. CASE VerifyFail(a)
  <2>1. /\ bills' = bills
        /\ sub'.expiresAt = sub.expiresAt /\ sub'.status = sub.status
    BY <1>0, <1>3 DEF VerifyFail, Subscription
  <2>2. \A i \in DOMAIN payments' : payments'[i].status = "PROCESSING" =>
          i \in DOMAIN payments /\ payments[i].status = "PROCESSING"
    BY <1>3 DEF VerifyFail
  <2>3. Followed(a)'
    BY <1>3, <1>b DEF VerifyFail
  <2> QED  BY <1>0, <2>1, <2>2, <2>3, SameBills DEF Serial
<1>4. CASE VerifyCount(a)
  <2>1. draft[a] \in Draft
    BY <1>4 DEF VerifyCount, Typed, Fits
  <2>2. /\ draft'[a].bill.from = draft[a].bill.from
        /\ draft'[a].bill.to = draft[a].bill.to
        /\ draft'[a].bill.term = draft[a].bill.term
    BY <1>4, <2>1 DEF VerifyCount, Typed, TypeOK, Draft, Bill
  <2>3. /\ pc[a] = "verify.count" /\ pc'[a] = "verify.commit"
        /\ UNCHANGED <<rows, now, snap>>
    BY <1>4 DEF VerifyCount, Goto, Typed, TypeOK
  <2>4. Followed(a)'
    BY <2>2, <2>3 DEF Serial, Followed, rows
  <2> QED  BY <1>a, <2>3, <2>4
<1>5. CASE VerifyCommit(a)
  <2> DEFINE b == draft[a].bill
             n == Len(bills) + 1
  <2>1. /\ b \in Bill
        /\ DOMAIN bills = 1 .. Len(bills) /\ Len(bills) \in Nat
        /\ DOMAIN bills' = DOMAIN bills \cup {n} /\ n \notin DOMAIN bills
        /\ bills'[n] = b
        /\ \A i \in DOMAIN bills : bills'[i] = bills[i]
    BY <1>5, CommitAdds
  <2>2. Len(bills') = n
    BY <1>5, <2>1, AppendProperties DEF VerifyCommit, Typed, TypeOK
  <2>3. PICK t \in 0 .. now : b.from = PeriodStart(sub.expiresAt, t)
    BY <1>5 DEF VerifyCommit, Serial, Followed
  <2>4. sub.expiresAt # Null => sub.expiresAt <= b.from
    <3>1. sub.expiresAt \in Nat \cup {Null} /\ t \in Nat
      BY <1>0 DEF Subscription, Typed, TypeOK
    <3> QED  BY <2>3, <3>1 DEF PeriodStart
  <2>5. sub'.expiresAt = b.to /\ sub'.status = "ACTIVE"
    BY <1>5 DEF VerifyCommit
  <2>6. \A i \in DOMAIN bills : bills[i].to \in Nat
    <3>1. \A i \in 1 .. Len(bills) : bills[i] \in Bill
      BY ElementOfSeq DEF Typed, TypeOK
    <3> QED  BY <2>1, <3>1 DEF Bill
  <2> HIDE DEF b
  <2>7. BillsReachExpiry'
    <3> SUFFICES ASSUME NEW i \in DOMAIN bills'
                 PROVE  IF i = n THEN sub'.expiresAt = bills'[i].to
                        ELSE bills'[i].to <= bills'[i + 1].from
      BY <2>2 DEF BillsReachExpiry
    <3>1. CASE i = n
      BY <2>1, <2>5, <3>1
    <3>2. CASE i \in 1 .. Len(bills) /\ i = Len(bills)
      <4>1. sub.expiresAt = bills[i].to /\ sub.expiresAt # Null
        BY <2>1, <2>6, <3>2, ConstantsAssumption DEF Serial, BillsReachExpiry
      <4> QED  BY <2>1, <2>4, <3>2, <4>1
    <3>3. CASE i \in 1 .. Len(bills) /\ i # Len(bills)
      <4>1. i + 1 \in 1 .. Len(bills)
        BY <2>1, <3>3
      <4> QED  BY <2>1, <3>3, <4>1 DEF Serial, BillsReachExpiry
    <3> QED  BY <2>1, <3>1, <3>2, <3>3
  <2>8. OneProcessing'
    BY <1>5 DEF VerifyCommit, Serial, OneProcessing
  <2>9. Followed(a)'
    BY <1>5, <1>b DEF VerifyCommit
  <2> QED  BY <1>0, <2>5, <2>7, <2>8, <2>9 DEF Serial
<1>6. CASE VerifyRollback(a)
  BY <1>6, <1>a, <1>b DEF VerifyRollback
<1> QED  BY <1>1, <1>2, <1>3, <1>4, <1>5, <1>6 DEF VerifyStep

LEMMA MarkPaidSerial ==
  ASSUME Supervised, Typed, Serial, NEW a \in Admins, MarkPaidStep(a)
  PROVE  Serial'
<1> USE DEF Requests
<1>0. sub \in Subscription /\ \A b \in Admins : b = a
  BY DEF Supervised, Typed, TypeOK
<1>a. ASSUME UNCHANGED rows, Followed(a)'  PROVE Serial'
  BY <1>0, <1>a, SameBills DEF rows, Serial
<1>b. ASSUME NEW payment, NEW term, NEW notes, Picked(a, payment, term, notes)
      PROVE  Followed(a)'
  BY <1>b DEF Picked, Goto, Followed, Typed, TypeOK
<1>1. ASSUME NEW term \in Terms \cup {Absent}, NEW notes \in NotesSent,
             MarkPaidBegin(a, term, notes)
      PROVE  Serial'
  <2>1. CASE Goto(a, "paid.processing")
    <3>1. Followed(a)'
      BY <2>1 DEF Goto, Followed, Typed, TypeOK
    <3> QED  BY <1>1, <1>a, <3>1 DEF MarkPaidBegin
  <2> QED  BY <1>1, <1>a, <1>b, <2>1 DEF MarkPaidBegin
<1>2. CASE MarkPaidFindProcessing(a)
  <2>1. CASE ~HasPayment("PROCESSING") /\ Goto(a, "paid.create")
    <3>1. payments' = payments
      BY <1>2 DEF MarkPaidFindProcessing, rows
    <3>2. Followed(a)'
      BY <2>1, <3>1 DEF Goto, Followed, HasPayment, Typed, TypeOK
    <3> QED  BY <1>2, <1>a, <3>2 DEF MarkPaidFindProcessing
  <2> QED  BY <1>2, <1>a, <1>b, <2>1 DEF MarkPaidFindProcessing
<1>3. CASE MarkPaidCreate(a)
  <2> DEFINE row == [status |-> "PROCESSING", pricing |-> Null]
  <2>1. row \in Payment
    BY DEF Payment, PayStatus
  <2>2. payments' = Append(payments, row) /\ UNCHANGED <<sub, bills>>
    BY <1>3 DEF MarkPaidCreate
  <2>3. /\ DOMAIN payments' = 1 .. Len(payments) + 1
        /\ DOMAIN payments = 1 .. Len(payments) /\ Len(payments) \in Nat
        /\ \A i \in 1 .. Len(payments) : payments'[i] = payments[i]
    BY <2>1, <2>2, AppendProperties, LenProperties DEF Typed, TypeOK
  <2>4. \A i \in DOMAIN payments : payments[i].status # "PROCESSING"
    BY <1>3 DEF MarkPaidCreate, Serial, Followed, HasPayment
  <2>5. OneProcessing'
    <3>1. \A i \in DOMAIN payments' :
            payments'[i].status = "PROCESSING" => i = Len(payments) + 1
      BY <2>3, <2>4
    <3> QED  BY <3>1 DEF OneProcessing
  <2>6. Followed(a)'
    BY <1>3, <1>b DEF MarkPaidCreate
  <2> QED  BY <1>0, <2>2, <2>5, <2>6 DEF Serial, BillsReachExpiry
<1>4. CASE MarkPaidSetTerm(a)
  <2>1. /\ UNCHANGED <<payments, bills>>
        /\ sub'.expiresAt = sub.expiresAt /\ sub'.status = sub.status
    BY <1>0, <1>4 DEF MarkPaidSetTerm, Subscription
  <2>2. Followed(a)'
    BY <1>4 DEF MarkPaidSetTerm, Goto, Followed, Typed, TypeOK
  <2> QED  BY <1>0, <2>1, <2>2, SameBills DEF Serial
<1>5. CASE MarkPaidVerify(a)
  <2>1. Followed(a)'
    BY <1>5 DEF MarkPaidVerify, Goto, Followed, Typed, TypeOK, rows
  <2> QED  BY <1>5, <1>a, <2>1 DEF MarkPaidVerify
<1> QED  BY <1>1, <1>2, <1>3, <1>4, <1>5 DEF MarkPaidStep

LEMMA AccountSerial ==
  ASSUME Supervised, Typed, Serial, NEW a \in Admins, AccountStep(a)
  PROVE  Serial'
<1> USE DEF Requests
<1>0. sub \in Subscription /\ \A b \in Admins : b = a
  BY DEF Supervised, Typed, TypeOK
<1>a. ASSUME UNCHANGED rows, Followed(a)'  PROVE Serial'
  BY <1>0, <1>a, SameBills DEF rows, Serial
<1>b. ASSUME Done(a)  PROVE Followed(a)'
  BY <1>b DEF Done, Followed, Typed, TypeOK
<1>1. ASSUME NEW input \in PatchInputs, PatchRead(a, input)  PROVE Serial'
  <2>1. Followed(a)'
    BY <1>1 DEF PatchRead, Goto, Followed, Typed, TypeOK, rows
  <2> QED  BY <1>1, <1>a, <2>1 DEF PatchRead
<1>2. CASE PatchWrite(a)
  <2>1. body[a] \in PatchInputs /\ snap[a].expiresAt = sub.expiresAt
        /\ snap[a].status = sub.status
    BY <1>2 DEF PatchWrite, Serial, Followed
  <2>2. body[a].expiresAt = Absent /\ body[a].status # "TRIAL"
    BY <2>1 DEF Supervised
  <2>3. sub'.expiresAt = sub.expiresAt /\ sub'.status \in {body[a].status, sub.status}
    BY <1>2, <2>1, <2>2 DEF PatchWrite, Sent
  <2>4. UNCHANGED <<payments, bills>> /\ Followed(a)'
    BY <1>2, <1>b DEF PatchWrite
  <2> QED  BY <1>0, <2>2, <2>3, <2>4, SameBills DEF Serial
<1>3. CASE SuspendCheck(a)
  <2>1. Followed(a)'
    BY <1>3 DEF SuspendCheck, Goto, Followed, Typed, TypeOK
  <2> QED  BY <1>3, <1>a, <2>1 DEF SuspendCheck
<1>4. CASE SuspendWrite(a)
  <2>1. /\ UNCHANGED <<payments, bills>> /\ Followed(a)'
        /\ sub'.expiresAt = sub.expiresAt /\ sub'.status = "CANCELLED"
    BY <1>0, <1>4, <1>b DEF SuspendWrite, Subscription
  <2> QED  BY <1>0, <2>1, SameBills DEF Serial
<1>5. CASE Restore(a)
  <2>1. /\ UNCHANGED <<payments, bills>>
        /\ sub'.expiresAt = sub.expiresAt /\ sub'.status = "ACTIVE"
    BY <1>0, <1>5 DEF Restore, Subscription
  <2>2. Followed(a)'
    BY <1>5 DEF Restore, Idle, Followed, mine
  <2> QED  BY <1>0, <2>1, <2>2, SameBills DEF Serial
<1>6. ASSUME NEW term \in Terms, NEW limit \in PlanLimits, NEW markPaid \in BOOLEAN,
             ConvertCheck(a, term, limit, markPaid)
      PROVE  Serial'
  <2>1. Followed(a)'
    BY <1>6 DEF ConvertCheck, Goto, Followed, Typed, TypeOK, Serial, rows
  <2> QED  BY <1>6, <1>a, <2>1 DEF ConvertCheck
<1>7. CASE ConvertWrite(a)
  <2>1. bills = <<>> /\ UNCHANGED <<payments, bills>> /\ Followed(a)'
    BY <1>7, <1>b DEF ConvertWrite, Serial, Followed
  <2>2. BillsReachExpiry' /\ OneProcessing'
    BY <2>1 DEF BillsReachExpiry, OneProcessing, Serial
  <2> QED  BY <1>0, <2>1, <2>2 DEF Serial
<1> QED  BY <1>1, <1>2, <1>3, <1>4, <1>5, <1>6, <1>7 DEF AccountStep

LEMMA SerialStep ==
  ASSUME Supervised
  PROVE  Typed /\ Serial /\ [Next]_vars => Serial'
<1> SUFFICES ASSUME Typed, Serial, [Next]_vars PROVE Serial'
  OBVIOUS
<1> USE DEF Requests
<1>1. CASE Tick
  <2>1. UNCHANGED <<rows, mine>> /\ now' = now + 1 /\ now \in Nat
    BY <1>1 DEF Tick, Typed, TypeOK
  <2>2. \A a \in Admins : Followed(a)'
    <3>1. \A t \in 0 .. now : t \in 0 .. now'
      BY <2>1
    <3> QED  BY <2>1, <3>1 DEF rows, mine, Serial, Followed, HasPayment, PeriodStart
  <2> QED  BY <2>1, <2>2, SameBills DEF rows, Serial
<1>2. ASSUME NEW p \in Requests, Abandon(p)
      PROVE  Serial'
  <2>1. \A a \in Admins : Followed(a)'
    BY <1>2 DEF Abandon, Done, Serial, Followed, HasPayment, Typed, TypeOK, rows
  <2> QED  BY <1>2, <2>1, SameBills DEF Abandon, rows, Serial
<1>3. CASE UNCHANGED vars
  BY <1>3 DEF vars, Serial, BillsReachExpiry, OneProcessing, Followed, HasPayment
<1> QED  BY <1>1, <1>2, <1>3, StudioSerial, VerifySerial, MarkPaidSerial, AccountSerial
         DEF Next

LEMMA SerialInvariant == ASSUME Supervised PROVE Spec => [](Typed /\ Serial)
<1>1. Init => Serial
  BY DEF Init, Serial, BillsReachExpiry, OneProcessing, Followed, Requests
<1> QED  BY <1>1, InitTyped, StepTyped, SerialStep, PTL DEF Spec

\* With one platform request at a time, in the midst of any number of the
\* workshop's, bills follow one another and the paid period ends with the last.
THEOREM ExpiryIsBilled == ASSUME Supervised PROVE Spec => []BillsReachExpiry
<1>1. Serial => BillsReachExpiry
  BY DEF Serial
<1> QED  BY <1>1, SerialInvariant, PTL

\* Marking paid one request at a time leaves at most one PROCESSING payment,
\* wherever the requests before it were cut off.
THEOREM SingleProcessing == ASSUME Supervised PROVE Spec => []OneProcessing
<1>1. Serial => OneProcessing
  BY DEF Serial
<1> QED  BY <1>1, SerialInvariant, PTL

\* A workshop is suspended only on request: what a platform request writes back
\* of the row it has read is what the row still says.
LEMMA SuspensionStep ==
  ASSUME Typed, Serial, [Next]_vars, sub.status # "CANCELLED", sub'.status = "CANCELLED"
  PROVE  \E a \in Admins :
           \/ pc[a] = "suspend.write" /\ pc'[a] = "idle"
           \/ pc[a] = "patch.write" /\ pc'[a] = "idle" /\ body[a].status = "CANCELLED"
<1> USE DEF Requests
<1>0. sub \in Subscription /\ pc \in [Requests -> Steps]
  BY DEF Typed, TypeOK
<1>1. sub' # sub
  OBVIOUS
<1>2. ASSUME NEW s \in Studios, StudioStep(s)  PROVE FALSE
  BY <1>0, <1>1, <1>2 DEF StudioStep, RenewAdmit, RenewQuote, RenewCreate, RenewTouch,
                          rows, Subscription
<1>3. ASSUME NEW a \in Admins, VerifyStep(a)  PROVE FALSE
  BY <1>0, <1>1, <1>3 DEF VerifyStep, VerifyBegin, VerifyReadPayment, VerifyFail, VerifyCount,
                          VerifyCommit, VerifyRollback, rows, Subscription
<1>4. ASSUME NEW a \in Admins, MarkPaidStep(a)  PROVE FALSE
  BY <1>0, <1>1, <1>4 DEF MarkPaidStep, MarkPaidBegin, MarkPaidFindProcessing,
                          MarkPaidCreate, MarkPaidSetTerm, MarkPaidVerify, rows, Subscription
<1>5. ASSUME NEW a \in Admins, SuspendWrite(a)
      PROVE  pc[a] = "suspend.write" /\ pc'[a] = "idle"
  BY <1>0, <1>5 DEF SuspendWrite, Done
<1>6. ASSUME NEW a \in Admins, PatchWrite(a)
      PROVE  pc[a] = "patch.write" /\ pc'[a] = "idle" /\ body[a].status = "CANCELLED"
  <2>1. pc[a] = "patch.write" /\ pc'[a] = "idle"
    BY <1>0, <1>6 DEF PatchWrite, Done
  <2>2. snap[a].status = sub.status
    BY <2>1 DEF Serial, Followed
  <2>3. sub'.status = Sent(body[a].status, snap[a].status)
    BY <1>6 DEF PatchWrite
  <2> QED  BY <2>1, <2>2, <2>3 DEF Sent
<1>7. ASSUME NEW a \in Admins, AccountStep(a), ~SuspendWrite(a), ~PatchWrite(a)
      PROVE  FALSE
  BY <1>0, <1>1, <1>7 DEF AccountStep, PatchRead, SuspendCheck, Restore, ConvertCheck,
                          ConvertWrite, rows, Subscription
<1>8. ~(Tick \/ UNCHANGED vars \/ \E p \in Requests : Abandon(p))
  BY <1>1 DEF Tick, vars, Abandon, rows
<1> QED  BY <1>2, <1>3, <1>4, <1>5, <1>6, <1>7, <1>8 DEF Next

THEOREM OnlyAskedSuspensions == ASSUME Supervised PROVE Spec => OnlySuspensionSuspends
<1>1. Typed /\ Serial /\ [Next]_vars =>
        [sub.status # "CANCELLED" /\ sub'.status = "CANCELLED" =>
           \E a \in Admins :
             \/ pc[a] = "suspend.write" /\ pc'[a] = "idle"
             \/ pc[a] = "patch.write" /\ pc'[a] = "idle" /\ body[a].status = "CANCELLED"]_vars
  BY SuspensionStep
<1> QED  BY <1>1, SerialInvariant, PTL DEF Spec, OnlySuspensionSuspends

-----------------------------------------------------------------------------
(* The handlers implement SubscriptionLedger. *)

\* A step that adds no bill and keeps the expiry is no step of the ledger.
LEMMA LedgerStutters ==
  ASSUME UNCHANGED <<bills, now>>, sub'.expiresAt = sub.expiresAt
  PROVE  UNCHANGED Ledger!vars
BY DEF Ledger!vars, settledPayments

LEMMA CommitSettles ==
  ASSUME Typed, Serial, NEW a \in Admins, VerifyCommit(a)
  PROVE  Ledger!Next
<1> DEFINE b == draft[a].bill
           n == Len(bills) + 1
<1>1. /\ b \in Bill
      /\ DOMAIN bills' = DOMAIN bills \cup {n} /\ n \notin DOMAIN bills
      /\ bills'[n] = b
      /\ \A i \in DOMAIN bills : bills'[i] = bills[i]
  BY CommitAdds
<1>2. settledPayments' = settledPayments \cup {b.payment}
  BY <1>1 DEF settledPayments
<1>3. b.payment \notin settledPayments
  BY DEF VerifyCommit, BillKeysFree, settledPayments
<1>4. PICK t \in 0 .. now : b.from = PeriodStart(sub.expiresAt, t)
  BY DEF VerifyCommit, Serial, Followed
<1>5. sub'.expiresAt = b.to /\ now' = now /\ b.to = b.from + b.term
  BY DEF VerifyCommit, Serial, Followed
<1>6. b.term \in Terms /\ b.term \in Nat /\ b.from \in Nat
  BY <1>1, ConstantsAssumption DEF Bill
<1> HIDE DEF b, n
<1>7. sub'.expiresAt = b.term + (IF sub.expiresAt # Null /\ sub.expiresAt > t
                                 THEN sub.expiresAt ELSE t)
  BY <1>4, <1>5, <1>6 DEF PeriodStart
<1>8. Ledger!Settle(b.payment, b.term)
  BY <1>2, <1>3, <1>5, <1>7 DEF Ledger!Settle
<1> QED  BY <1>2, <1>6, <1>8 DEF Ledger!Next

LEMMA ConversionConverts ==
  ASSUME Typed, Serial, NEW a \in Admins, ConvertWrite(a)
  PROVE  Ledger!Next
<1>1. bills = <<>> /\ bills' = bills /\ now' = now
  BY DEF ConvertWrite, Serial, Followed
<1>2. body[a].term \in Terms
  BY DEF ConvertWrite, Typed, Fits, ConvertForm, Requests
<1>3. sub'.expiresAt = now + body[a].term
  BY DEF ConvertWrite, Typed, TypeOK, Subscription
<1>4. settledPayments = {} /\ settledPayments' = settledPayments
  BY <1>1 DEF settledPayments
<1> QED  BY <1>1, <1>2, <1>3, <1>4 DEF Ledger!Next, Ledger!ConvertTrial

LEMMA LedgerStep ==
  ASSUME Supervised, Typed, Serial, [Next]_vars
  PROVE  [Ledger!Next]_(Ledger!vars)
<1> USE DEF Requests
<1>0. sub \in Subscription
  BY DEF Typed, TypeOK
<1>1. CASE Tick
  <2>1. Ledger!Pass
    BY <1>1 DEF Tick, rows, Ledger!Pass, settledPayments
  <2> QED  BY <2>1 DEF Ledger!Next
<1>2. CASE UNCHANGED <<sub, bills, now>>
  BY <1>2, LedgerStutters
<1>3. ASSUME NEW s \in Studios, StudioStep(s)
      PROVE  UNCHANGED <<bills, now>> /\ sub'.expiresAt = sub.expiresAt
  BY <1>0, <1>3 DEF StudioStep, RenewAdmit, RenewQuote, RenewCreate, RenewTouch,
                    rows, Subscription
<1>4. ASSUME NEW a \in Admins, VerifyStep(a), ~VerifyCommit(a)
      PROVE  UNCHANGED <<bills, now>> /\ sub'.expiresAt = sub.expiresAt
  BY <1>0, <1>4 DEF VerifyStep, VerifyBegin, VerifyReadPayment, VerifyFail, VerifyCount,
                    VerifyRollback, rows, Subscription
<1>5. ASSUME NEW a \in Admins, MarkPaidStep(a)
      PROVE  UNCHANGED <<bills, now>> /\ sub'.expiresAt = sub.expiresAt
  BY <1>0, <1>5 DEF MarkPaidStep, MarkPaidBegin, MarkPaidFindProcessing,
                    MarkPaidCreate, MarkPaidSetTerm, MarkPaidVerify, rows, Subscription
<1>6. ASSUME NEW a \in Admins, PatchWrite(a)
      PROVE  UNCHANGED <<bills, now>> /\ sub'.expiresAt = sub.expiresAt
  <2>1. body[a] \in PatchInputs /\ snap[a].expiresAt = sub.expiresAt
    BY <1>6 DEF PatchWrite, Serial, Followed
  <2>2. sub'.expiresAt = Sent(body[a].expiresAt, snap[a].expiresAt)
    BY <1>6 DEF PatchWrite
  <2> QED  BY <1>6, <2>1, <2>2 DEF PatchWrite, Sent, Supervised
<1>7. ASSUME NEW a \in Admins, AccountStep(a), ~PatchWrite(a), ~ConvertWrite(a)
      PROVE  UNCHANGED <<bills, now>> /\ sub'.expiresAt = sub.expiresAt
  BY <1>0, <1>7 DEF AccountStep, PatchRead, SuspendCheck, SuspendWrite, Restore,
                    ConvertCheck, rows, Subscription
<1>8. ASSUME NEW p \in Requests, Abandon(p)  PROVE UNCHANGED <<sub, bills, now>>
  BY <1>8 DEF Abandon, rows
<1> QED  BY <1>1, <1>2, <1>3, <1>4, <1>5, <1>6, <1>7, <1>8, CommitSettles,
            ConversionConverts, LedgerStutters DEF Next, vars

\* With one platform request at a time, what the handlers do over many calls, cut
\* off anywhere, is what a ledger does that collects each payment in one step.
THEOREM LedgerImplemented == ASSUME Supervised PROVE Spec => ImplementsLedger
<1>1. Init => Ledger!Init
  BY ConstantsAssumption DEF Init, Ledger!Init, settledPayments, Subscription
<1>2. Typed /\ Serial /\ [Next]_vars => [Ledger!Next]_(Ledger!vars)
  BY LedgerStep
<1> QED  BY <1>1, <1>2, SerialInvariant, PTL DEF Spec, ImplementsLedger, Ledger!Spec
=============================================================================
