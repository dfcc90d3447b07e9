------------------------- MODULE SubscriptionLedger -------------------------
(***************************************************************************)
(* What billing promises a workshop: each payment is settled at most once, *)
(* and settling it adds its whole term to the period already paid for.  A  *)
(* trial may be converted only while nothing has been settled.             *)
(***************************************************************************)
EXTENDS Integers

CONSTANTS Terms,  \* term lengths that are sold, in months
          Null    \* no expiry is recorded

VARIABLES
  paidThrough,  \* end of the period paid for
  settled,      \* payments that have been settled
  today         \* the clock

vars == <<paidThrough, settled, today>>

Init ==
  /\ paidThrough \in Nat \cup {Null}
  /\ settled = {}
  /\ today = 0

\* A term is added to the end of the paid period; when that period is over, to the
\* day t on which the payment was looked at.
Settle(payment, term) ==
  /\ payment \notin settled
  /\ settled' = settled \cup {payment}
  /\ \E t \in 0 .. today :
       paidThrough' = term + (IF paidThrough # Null /\ paidThrough > t
                              THEN paidThrough ELSE t)
  /\ UNCHANGED today

ConvertTrial(term) ==
  /\ settled = {}
  /\ paidThrough' = today + term
  /\ UNCHANGED <<settled, today>>

Pass == today' = today + 1 /\ UNCHANGED <<paidThrough, settled>>

Next ==
  \/ Pass
  \/ \E term \in Terms :
       \/ ConvertTrial(term)
       \/ \E payment \in settled' : Settle(payment, term)

Spec == Init /\ [][Next]_vars
=============================================================================
