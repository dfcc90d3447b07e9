------------------------------ MODULE MCOffice ------------------------------
(* Report periods, incentives and reminders on small instances; a behaviour *)
(* exercises one of them.                                                   *)
EXTENDS ReportPeriods, Incentives, Reminders

CONSTANTS s1, s2,                       \* employees
          o1, o2,                       \* organizations
          r1, wrong                     \* reminders

VARIABLE part

vars == <<part, today, incentiveVars, reminderVars>>

MCCrewRole == s1 :> "MECHANIC" @@ s2 :> "Mechanic"
MCJoinedOn == s1 :> [day |-> DayNo(2023, 5, 3), of |-> 3]
           @@ s2 :> [day |-> DayNo(2024, 1, 5), of |-> 5]
MCRoleKey == [r \in {"MECHANIC", "Mechanic", "MANAGER"} |->
                IF r = "Mechanic" THEN "MECHANIC" ELSE r]

\* Two targets, of two roles; and, for the months alone, of one role written in
\* two ways as well.  The higher target has the lower rate.
Tier(target, percent, roles) ==
  [target |-> target, rewards |-> [i \in DOMAIN roles |-> [role |-> roles[i], percent |-> percent]]]
MCTargetPlans ==
  LET tiers == <<Tier(100, 10, <<"Mechanic">>), Tier(250, 3, <<"MANAGER">>)>> IN
  {[tiers |-> tiers, byPeriod |-> <<>>],
   [tiers |-> tiers, byPeriod |-> "MONTHLY" :>
      <<Tier(100, 10, <<"Mechanic">>), Tier(250, 3, <<"MANAGER", "MECHANIC">>)>>]}

\* The last days of a February, a month after it, the last day of a year.
MCSaleDays == {DayNo(2024, 1, 29), DayNo(2024, 2, 1), DayNo(2024, 11, 31)}

\* A payment by the week, or, at the end of a month, on a schedule of its own, or
\* a visit; and a reminder whose phone number is refused.
Due(kind, freq, d) == [kind |-> kind, freq |-> freq, due |-> d]
MCOrgOf == r1 :> o1 @@ wrong :> o1
MCPlans ==
  {r1 :> p @@ wrong :> Due("SERVICE", "YEARLY", DayNo(2024, 0, 31)) :
     p \in {Due("PAYMENT", "WEEKLY", DayNo(2024, 1, 19)),
            Due("PAYMENT", "CUSTOM", DayNo(2024, 0, 31)),
            Due("SERVICE", "MONTHLY", DayNo(2024, 1, 20))}}
MCClock == {DayNo(2024, 0, 29), DayNo(2024, 1, 26)}

MCFirstDay == DayNo(2022, 0, 1)
MCLastDay == DayNo(2025, 3, 2)

Init ==
  /\ part \in {"periods", "incentives", "reminders"}
  /\ PeriodInit
  /\ IncentiveInit
  /\ ReminderInit
  /\ enabled = IF part = "reminders" THEN {o1} ELSE {}
  /\ part # "reminders" => reminders[r1].kind = "SERVICE"
  /\ part # "incentives" =>
       /\ targets = CHOOSE t \in TargetPlans : TRUE
       /\ period = CHOOSE p \in PeriodTypes : TRUE

Reminding(A) == part = "reminders" /\ A /\ UNCHANGED <<part, today, incentiveVars>>

Next ==
  \/ part = "periods" /\ Tick /\ UNCHANGED <<part, incentiveVars, reminderVars>>
  \/ part = "incentives" /\ IncentiveStep /\ UNCHANGED <<part, today, reminderVars>>
  \/ Reminding(ReminderStep)

\* The scheduler keeps calling, and a call that has begun goes on.
Spec ==
  /\ Init /\ [][Next]_vars
  /\ WF_vars(Reminding(StartJob(Cron)))
  /\ \A j \in Jobs : WF_vars(Reminding(JobStep(j)))
=============================================================================
