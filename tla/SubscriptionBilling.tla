------------------------- MODULE SubscriptionBilling -------------------------
(***************************************************************************)
(* The subscription of one workshop (organization-subscription.service.ts, *)
(* convertTrialSubscription, and suspend / restore of the platform         *)
(* controller).  Requests run concurrently; each awaited database call of  *)
(* a handler is one step, and a handler that reads the subscription row    *)
(* keeps its copy in snap[p] until it writes.  PostgreSQL runs at READ     *)
(* COMMITTED: an interactive transaction whose first statements update the *)
(* payment and subscription rows takes their locks, so it commits as one   *)
(* step.                                                                   *)
(*                                                                         *)
(* Time is counted in months.  Branch and user capacity are computed by    *)
(* the same expressions; the model keeps one of the two.                   *)
(***************************************************************************)
EXTENDS Integers, Sequences, FiniteSets

CONSTANTS
  Admins,         \* concurrent platform-owner requests
  Studios,        \* concurrent requests of the workshop
  Terms,          \* allowed term lengths, in months
  DefaultTerm,    \* term used in place of one that is not allowed
  PlanLimits,     \* capacities of the plans in the catalogue
  ExtraSeats,     \* extra capacity a renewal may ask for
  NotesSent,      \* whether the admin types notes over those of the payment
  PatchInputs,    \* bodies of the platform PATCH request
  InitialSubs,    \* subscription rows the system may start from
  MonthsPerYear,  \* months between two restarts of the bill sequence
  MaxPayments,    \* bound: payment rows
  MaxNow,         \* bound: clock
  Null,           \* the database's and JSON's null
  Absent          \* a JavaScript undefined: the field was not sent

Requests == Admins \cup Studios

SubStatus == {"ACTIVE", "PAST_DUE", "EXPIRED", "CANCELLED", "TRIAL"}
PayStatus == {"PAID", "PENDING", "PROCESSING", "FAILED"}
Capacity  == Nat \cup {Null}

Subscription ==
  [status : SubStatus, limit : Capacity, override : Capacity, term : Nat,
   expiresAt : Nat \cup {Null}, payStatus : PayStatus]

\* The part of SUBSCRIPTION_PRICING in a payment's notes that verification uses.
Pricing == [term : Terms, extra : Nat, allowed : Capacity]

Payment == [status : PayStatus, pricing : Pricing \cup {Null}]

Bill == [payment : Nat, year : Nat, number : Nat, term : Terms,
         from : Nat, to : Nat]

Patch ==
  [planLimit : Capacity \cup {Absent}, limit : Capacity \cup {Absent},
   override : Capacity \cup {Absent}, status : SubStatus \cup {Absent},
   term : Terms \cup {Absent}, expiresAt : Nat \cup {Null, Absent},
   payStatus : PayStatus \cup {Absent}]

ASSUME ConstantsAssumption ==
  /\ Terms \subseteq Nat \ {0}
  /\ DefaultTerm \in Terms
  /\ PlanLimits \subseteq Capacity
  /\ ExtraSeats \subseteq Nat
  /\ NotesSent \subseteq BOOLEAN
  /\ PatchInputs \subseteq Patch
  /\ InitialSubs \subseteq Subscription
  /\ MonthsPerYear \in Nat \ {0}
  /\ MaxPayments \in Nat
  /\ MaxNow \in Nat
  /\ Null \notin Nat
  /\ Absent \notin Nat \cup {Null} \cup SubStatus \cup PayStatus

VARIABLES
  sub,        \* the OrganizationSubscription row
  orgActive,  \* Organization.isActive
  payments,   \* SubscriptionPayment rows in creation order; a row's id is its index
  bills,      \* SubscriptionBill rows in creation order
  now,        \* the clock
  pc,         \* per request: the awaited call it is about to make
  body,       \* per request: what the client sent, and what the handler derived
  snap,       \* per request: its copy of the subscription row
  draft       \* per request: the bill it is about to insert

rows == <<sub, orgActive, payments, bills>>
mine == <<pc, body, snap, draft>>
vars == <<sub, orgActive, payments, bills, now, pc, body, snap, draft>>

-----------------------------------------------------------------------------
(* Helpers of the source. *)

\* Mutant: the term is taken as it comes.
NormalizeTerm_Raw(t) == t

NormalizeTerm(t) == IF t \in Terms THEN t ELSE DefaultTerm

\* A null capacity is unlimited and stays so.
AddCapacity(base, extra) == IF base = Null THEN Null ELSE base + extra

\* Mutant: what is left of the paid period is forgotten.
PeriodStart_Now(end, t) == t

\* Billing starts where the paid period ends, or now when it is over.
PeriodStart(end, t) == IF end # Null /\ end > t THEN end ELSE t

Year(t) == t \div MonthsPerYear

BillsOf(y) == {i \in DOMAIN bills : bills[i].year = y}

NewestWith(status) ==
  LET found == {i \in DOMAIN payments : payments[i].status = status}
  IN  CHOOSE i \in found : \A j \in found : j <= i

HasPayment(status) == \E i \in DOMAIN payments : payments[i].status = status

\* A PATCH field that was not sent keeps the value of the copy that was read.
Sent(field, old) == IF field = Absent THEN old ELSE field

-----------------------------------------------------------------------------
Idle(p) == pc[p] = "idle"

\* The request of p goes on to the call s.
Goto(p, s) == pc' = [pc EXCEPT ![p] = s]

\* The response is sent, or an error is thrown: the request's memory is gone.
Done(p) ==
  /\ pc'    = [pc EXCEPT ![p] = "idle"]
  /\ body'  = [body EXCEPT ![p] = Null]
  /\ snap'  = [snap EXCEPT ![p] = Null]
  /\ draft' = [draft EXCEPT ![p] = Null]

Init ==
  /\ sub \in InitialSubs
  /\ orgActive = TRUE
  /\ payments = <<>>
  /\ bills = <<>>
  /\ now = 0
  /\ pc    = [p \in Requests |-> "idle"]
  /\ body  = [p \in Requests |-> Null]
  /\ snap  = [p \in Requests |-> Null]
  /\ draft = [p \in Requests |-> Null]

Tick ==
  /\ now < MaxNow
  /\ now' = now + 1
  /\ UNCHANGED <<rows, mine>>

-----------------------------------------------------------------------------
(* POST /api/organization/subscription/renew *)

\* requireAuth: a suspended workshop is turned away.
StudioAllowed == orgActive /\ sub.status # "CANCELLED"

RenewAdmit(s, term, extra) ==
  /\ Idle(s)
  /\ StudioAllowed
  /\ Goto(s, "renew.quote")
  /\ body' = [body EXCEPT ![s] = [term |-> NormalizeTerm(term), extra |-> extra]]
  /\ UNCHANGED <<rows, now, snap, draft>>

\* The quote fixes the capacity sold from the limits read here.
RenewQuote(s) ==
  /\ pc[s] = "renew.quote"
  /\ Goto(s, "renew.create")
  /\ body' = [body EXCEPT ![s] =
                [term    |-> body[s].term,
                 extra   |-> body[s].extra,
                 allowed |-> AddCapacity(sub.limit, body[s].extra)]]
  /\ UNCHANGED <<rows, now, snap, draft>>

RenewCreate(s) ==
  /\ pc[s] = "renew.create"
  /\ Len(payments) < MaxPayments
  /\ payments' = Append(payments, [status |-> "PENDING", pricing |-> body[s]])
  /\ Goto(s, "renew.touch")
  /\ UNCHANGED <<sub, orgActive, bills, now, body, snap, draft>>

RenewTouch(s) ==
  /\ pc[s] = "renew.touch"
  /\ sub' = [sub EXCEPT !.payStatus = "PENDING", !.term = body[s].term]
  /\ Done(s)
  /\ UNCHANGED <<orgActive, payments, bills, now>>

-----------------------------------------------------------------------------
(* POST /api/platform/organizations/:orgId/subscription/verify-payment *)

VerifyBegin(a, payment, outcome, notes) ==
  /\ Idle(a)
  /\ Goto(a, "verify.payment")
  /\ body' = [body EXCEPT ![a] = [payment |-> payment, outcome |-> outcome,
                                  notes |-> notes, term |-> Absent]]
  /\ snap' = [snap EXCEPT ![a] = sub]
  /\ UNCHANGED <<rows, now, draft>>

\* The status of the payment is not looked at.  Everything the bill and the
\* subscription will hold is computed here from snap[a].
VerifyReadPayment(a) ==
  LET pay     == payments[body[a].payment]
      priced  == pay.pricing # Null
      term    == NormalizeTerm(IF priced THEN pay.pricing.term ELSE snap[a].term)
      from    == PeriodStart(snap[a].expiresAt, now)
  IN  /\ pc[a] = "verify.payment"
      /\ Goto(a, IF body[a].outcome = "FAILED" THEN "verify.fail" ELSE "verify.count")
      /\ draft' = [draft EXCEPT ![a] =
           [bill |-> [payment |-> body[a].payment, year |-> Year(now), number |-> 0,
                      term |-> term, from |-> from, to |-> from + term],
            override |-> IF priced THEN pay.pricing.allowed ELSE snap[a].override,
            pricing  |-> IF body[a].notes THEN Null ELSE pay.pricing]]
      /\ UNCHANGED <<rows, now, body, snap>>

VerifyFail(a) ==
  /\ pc[a] = "verify.fail"
  /\ payments' = [payments EXCEPT ![body[a].payment] =
                    [status |-> "FAILED", pricing |-> draft[a].pricing]]
  /\ sub' = [sub EXCEPT !.payStatus = "FAILED"]
  /\ Done(a)
  /\ UNCHANGED <<orgActive, bills, now>>

\* nextBillNumber, outside the transaction.
VerifyCount(a) ==
  /\ pc[a] = "verify.count"
  /\ draft' = [draft EXCEPT ![a].bill.number =
                 Cardinality(BillsOf(draft[a].bill.year)) + 1]
  /\ Goto(a, "verify.commit")
  /\ UNCHANGED <<rows, now, body, snap>>

\* Mutants: one of the two unique keys is missing.
BillKeysFree_NoNumber(b) == \A i \in DOMAIN bills : bills[i].payment # b.payment

BillKeysFree_NoPayment(b) ==
  \A i \in DOMAIN bills : bills[i].year # b.year \/ bills[i].number # b.number

\* The unique keys of SubscriptionBill: paymentId and (organizationId, billNumber).
BillKeysFree(b) ==
  \A i \in DOMAIN bills :
     /\ bills[i].payment # b.payment
     /\ bills[i].year # b.year \/ bills[i].number # b.number

VerifyCommit(a) ==
  /\ pc[a] = "verify.commit"
  /\ BillKeysFree(draft[a].bill)
  /\ payments' = [payments EXCEPT ![body[a].payment] =
                    [status |-> "PAID", pricing |-> draft[a].pricing]]
  /\ sub' = [status    |-> "ACTIVE",
             limit     |-> snap[a].limit,
             override  |-> draft[a].override,
             term      |-> draft[a].bill.term,
             expiresAt |-> draft[a].bill.to,
             payStatus |-> "PAID"]
  /\ orgActive' = TRUE
  /\ bills' = Append(bills, draft[a].bill)
  /\ Done(a)
  /\ UNCHANGED now

\* Mutant: the payment is updated outside the transaction.
VerifyRollback_Partial(a) ==
  /\ pc[a] = "verify.commit"
  /\ ~BillKeysFree(draft[a].bill)
  /\ payments' = [payments EXCEPT ![body[a].payment].status = "PAID"]
  /\ Done(a)
  /\ UNCHANGED <<sub, orgActive, bills, now>>

\* A duplicate key aborts the whole transaction; the client gets an error.
VerifyRollback(a) ==
  /\ pc[a] = "verify.commit"
  /\ ~BillKeysFree(draft[a].bill)
  /\ Done(a)
  /\ UNCHANGED <<rows, now>>

-----------------------------------------------------------------------------
(* POST /api/platform/organizations/:orgId/subscription/mark-paid *)

\* What mark-paid does once it has the payment to verify.
Picked(a, payment, term, notes) ==
  /\ body' = [body EXCEPT ![a] = [payment |-> payment, outcome |-> "PAID",
                                  notes |-> notes, term |-> term]]
  /\ Goto(a, IF term = Absent THEN "paid.verify" ELSE "paid.term")
  /\ UNCHANGED <<snap, draft>>

MarkPaidBegin(a, term, notes) ==
  /\ Idle(a)
  /\ \/ /\ HasPayment("PENDING")
        /\ Picked(a, NewestWith("PENDING"), term, notes)
     \/ /\ ~HasPayment("PENDING")
        /\ Goto(a, "paid.processing")
        /\ body' = [body EXCEPT ![a] = [payment |-> 0, outcome |-> "PAID",
                                        notes |-> notes, term |-> term]]
        /\ UNCHANGED <<snap, draft>>
  /\ UNCHANGED <<rows, now>>

\* Mutant: a PROCESSING row is never taken up.
MarkPaidFindProcessing_Never(a) ==
  /\ pc[a] = "paid.processing"
  /\ Goto(a, "paid.create")
  /\ UNCHANGED <<rows, now, body, snap, draft>>

MarkPaidFindProcessing(a) ==
  /\ pc[a] = "paid.processing"
  /\ \/ /\ HasPayment("PROCESSING")
        /\ Picked(a, NewestWith("PROCESSING"), body[a].term, body[a].notes)
     \/ /\ ~HasPayment("PROCESSING")
        /\ Goto(a, "paid.create")
        /\ UNCHANGED <<body, snap, draft>>
  /\ UNCHANGED <<rows, now>>

MarkPaidCreate(a) ==
  /\ pc[a] = "paid.create"
  /\ Len(payments) < MaxPayments
  /\ payments' = Append(payments, [status |-> "PROCESSING", pricing |-> Null])
  /\ Picked(a, Len(payments) + 1, body[a].term, body[a].notes)
  /\ UNCHANGED <<sub, orgActive, bills, now>>

MarkPaidSetTerm(a) ==
  /\ pc[a] = "paid.term"
  /\ sub' = [sub EXCEPT !.term = NormalizeTerm(body[a].term)]
  /\ Goto(a, "paid.verify")
  /\ UNCHANGED <<orgActive, payments, bills, now, body, snap, draft>>

\* Enters verifySubscriptionPayment.
MarkPaidVerify(a) ==
  /\ pc[a] = "paid.verify"
  /\ snap' = [snap EXCEPT ![a] = sub]
  /\ Goto(a, "verify.payment")
  /\ UNCHANGED <<rows, now, body, draft>>

-----------------------------------------------------------------------------
(* PATCH /api/platform/organizations/:orgId/subscription *)

PatchRead(a, input) ==
  /\ Idle(a)
  /\ snap' = [snap EXCEPT ![a] = sub]
  /\ body' = [body EXCEPT ![a] = input]
  /\ Goto(a, "patch.write")
  /\ UNCHANGED <<rows, now, draft>>

\* Every column is written, from the input or from the copy.
PatchWrite(a) ==
  LET in  == body[a]
      old == snap[a]
  IN  /\ pc[a] = "patch.write"
      /\ sub' = [status    |-> Sent(in.status, old.status),
                 limit     |-> Sent(in.limit, Sent(in.planLimit, old.limit)),
                 override  |-> Sent(in.override, old.override),
                 term      |-> NormalizeTerm(Sent(in.term, old.term)),
                 expiresAt |-> Sent(in.expiresAt, old.expiresAt),
                 payStatus |-> Sent(in.payStatus, old.payStatus)]
      /\ Done(a)
      /\ UNCHANGED <<orgActive, payments, bills, now>>

-----------------------------------------------------------------------------
(* POST .../suspend, .../restore and .../subscription/convert-trial *)

\* Mutant: the status is written before the transaction.
SuspendCheck_Early(a) ==
  /\ Idle(a)
  /\ sub.status # "CANCELLED"
  /\ sub' = [sub EXCEPT !.status = "CANCELLED"]
  /\ Goto(a, "suspend.write")
  /\ UNCHANGED <<orgActive, payments, bills, now, body, snap, draft>>

SuspendCheck(a) ==
  /\ Idle(a)
  /\ sub.status # "CANCELLED"
  /\ Goto(a, "suspend.write")
  /\ UNCHANGED <<rows, now, body, snap, draft>>

SuspendWrite(a) ==
  /\ pc[a] = "suspend.write"
  /\ sub' = [sub EXCEPT !.status = "CANCELLED"]
  /\ orgActive' = FALSE
  /\ Done(a)
  /\ UNCHANGED <<payments, bills, now>>

Restore(a) ==
  /\ Idle(a)
  /\ sub' = [sub EXCEPT !.status = "ACTIVE"]
  /\ orgActive' = TRUE
  /\ UNCHANGED <<payments, bills, now, mine>>

\* Mutant: any subscription can be converted.
ConvertCheck_AnyStatus(a, term, limit, markPaid) ==
  /\ Idle(a)
  /\ Goto(a, "convert.write")
  /\ body' = [body EXCEPT ![a] = [term |-> term, limit |-> limit, markPaid |-> markPaid]]
  /\ UNCHANGED <<rows, now, snap, draft>>

ConvertCheck(a, term, limit, markPaid) ==
  /\ Idle(a)
  /\ sub.status = "TRIAL"
  /\ Goto(a, "convert.write")
  /\ body' = [body EXCEPT ![a] = [term |-> term, limit |-> limit, markPaid |-> markPaid]]
  /\ UNCHANGED <<rows, now, snap, draft>>

ConvertWrite(a) ==
  /\ pc[a] = "convert.write"
  /\ sub' = [sub EXCEPT !.limit = body[a].limit,
                        !.status = "ACTIVE",
                        !.payStatus = IF body[a].markPaid THEN "PAID" ELSE "PENDING",
                        !.term = body[a].term,
                        !.expiresAt = now + body[a].term]
  /\ Done(a)
  /\ UNCHANGED <<orgActive, payments, bills, now>>

-----------------------------------------------------------------------------
\* The process restarts, or a call fails, between two awaits.
Abandon(p) ==
  /\ ~Idle(p)
  /\ Done(p)
  /\ UNCHANGED <<rows, now>>

StudioStep(s) ==
  \/ \E term \in Terms, extra \in ExtraSeats : RenewAdmit(s, term, extra)
  \/ RenewQuote(s)
  \/ RenewCreate(s)
  \/ RenewTouch(s)

VerifyStep(a) ==
  \/ \E i \in DOMAIN payments, outcome \in {"PAID", "FAILED"}, notes \in NotesSent :
       VerifyBegin(a, i, outcome, notes)
  \/ VerifyReadPayment(a)
  \/ VerifyFail(a)
  \/ VerifyCount(a)
  \/ VerifyCommit(a)
  \/ VerifyRollback(a)

MarkPaidStep(a) ==
  \/ \E term \in Terms \cup {Absent}, notes \in NotesSent : MarkPaidBegin(a, term, notes)
  \/ MarkPaidFindProcessing(a)
  \/ MarkPaidCreate(a)
  \/ MarkPaidSetTerm(a)
  \/ MarkPaidVerify(a)

AccountStep(a) ==
  \/ \E input \in PatchInputs : PatchRead(a, input)
  \/ PatchWrite(a)
  \/ SuspendCheck(a)
  \/ SuspendWrite(a)
  \/ Restore(a)
  \/ \E term \in Terms, limit \in PlanLimits, markPaid \in BOOLEAN :
       ConvertCheck(a, term, limit, markPaid)
  \/ ConvertWrite(a)

Next ==
  \/ Tick
  \/ \E s \in Studios : StudioStep(s)
  \/ \E a \in Admins : VerifyStep(a) \/ MarkPaidStep(a) \/ AccountStep(a)
  \/ \E p \in Requests : Abandon(p)

Spec == Init /\ [][Next]_vars

-----------------------------------------------------------------------------
(* Properties *)

Steps == {"idle", "renew.quote", "renew.create", "renew.touch",
          "verify.payment", "verify.fail", "verify.count", "verify.commit",
          "paid.processing", "paid.create", "paid.term", "paid.verify",
          "patch.write", "suspend.write", "convert.write"}

Draft == [bill : Bill, override : Capacity, pricing : Pricing \cup {Null}]

\* Every row keeps to its columns' types; requests keep a copy of the
\* subscription exactly while they still need it.
TypeOK ==
  /\ sub \in Subscription
  /\ orgActive \in BOOLEAN
  /\ payments \in Seq(Payment)
  /\ bills \in Seq(Bill)
  /\ now \in Nat
  /\ pc \in [Requests -> Steps]
  /\ snap \in [Requests -> Subscription \cup {Null}]
  /\ draft \in [Requests -> Draft \cup {Null}]

\* The bill numbers of a year are 1, 2, ..., n without gap or repetition,
\* although nextBillNumber counts outside the transaction that inserts the bill
\* and any number of verifications overlap.
BillNumbersGapFree ==
  \A i \in DOMAIN bills :
    LET same == BillsOf(bills[i].year)
    IN  {bills[j].number : j \in same} = 1 .. Cardinality(same)

\* A payment is billed, and so extends the subscription, at most once, however
\* often and however concurrently verifySubscriptionPayment is called for it.
BilledOnce ==
  \A i, j \in DOMAIN bills : bills[i].payment = bills[j].payment => i = j

\* A payment marked PAID always has its bill: a verification that loses the race
\* for a bill key leaves nothing of its transaction behind.
PaidIsBilled ==
  \A i \in DOMAIN payments :
    payments[i].status = "PAID" => \E j \in DOMAIN bills : bills[j].payment = i

\* Bills follow one another without billing a month twice, and the paid period ends
\* where the last one ends, while renewals are requested and requests are cut off.
BillsReachExpiry ==
  \A i \in DOMAIN bills :
    IF i = Len(bills) THEN sub.expiresAt = bills[i].to
    ELSE bills[i].to <= bills[i + 1].from

\* Marking paid takes up the PROCESSING row an earlier call left behind instead
\* of creating another one (adminMarkSubscriptionPaid).
OneProcessing ==
  \A i, j \in DOMAIN payments :
    payments[i].status = "PROCESSING" /\ payments[j].status = "PROCESSING" => i = j

\* A workshop in good standing is suspended only by a suspend request or a PATCH
\* that asks for the status: in particular an accepted payment's reactivation
\* lasts.
OnlySuspensionSuspends ==
  [][sub.status # "CANCELLED" /\ sub'.status = "CANCELLED" =>
       \E a \in Admins :
         \/ pc[a] = "suspend.write" /\ pc'[a] = "idle"
         \/ pc[a] = "patch.write" /\ pc'[a] = "idle" /\ body[a].status = "CANCELLED"]_vars

-----------------------------------------------------------------------------
(* The detailed handlers implement a ledger that collects a payment in one step. *)

settledPayments == {bills[i].payment : i \in DOMAIN bills}

Ledger == INSTANCE SubscriptionLedger
            WITH paidThrough <- sub.expiresAt, settled <- settledPayments, today <- now

\* Every step of the billing handlers is a step of the ledger or leaves it alone.
ImplementsLedger == Ledger!Spec
=============================================================================
