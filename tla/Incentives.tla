----------------------------- MODULE Incentives -----------------------------
(***************************************************************************)
(* Company targets (company-target-engine.ts, company-target-periods.ts,   *)
(* rewards.service.ts): the year is cut into periods, and in each of them  *)
(* every tier whose target the revenue meets pays a pool that the staff of *)
(* its role share.  Nothing is stored: each report is computed from the    *)
(* invoices, the staff and the settings as they are.  Amounts are paise.   *)
(***************************************************************************)
EXTENDS Calendar, Sequences, FiniteSetsExt

CONSTANTS
  Crew,          \* the employees
  CrewRole,      \* role of each
  JoinedOn,      \* [day, of]: the day each joined, and its day of the month
  RoleKey,       \* normalizeRoleKey, on the roles of staff and tiers
  TargetPlans,   \* the rewards that may be configured: [tiers, byPeriod]
  PeriodTypes,   \* the period lengths that may be configured
  SaleDays,      \* days invoices are dated
  SaleTotals,
  MaxSales,      \* bound on the invoices
  TargetYear     \* the year that is reported

VARIABLES
  sales,    \* the invoices: sequence of [day, total, status]
  working,  \* the employees who are active
  targets,  \* companyTargetTiers and companyTargetFrequencyTiers: the tiers of every
            \* period, and those of some lengths; [target, rewards: roles' percents]
  period    \* companyTargetPeriod

incentiveVars == <<sales, working, targets, period>>

RawTier == [target : Nat, rewards : Seq([role : STRING, percent : Int])]

\* The year lies within the calendar, with the first day of the next.
ASSUME IncentiveAssumption ==
  /\ SaleDays \subseteq Nat /\ SaleTotals \subseteq Nat
  /\ TargetYear \in Epoch..2029
  /\ PeriodTypes \subseteq {"MONTHLY", "QUARTERLY", "HALF_YEARLY", "YEARLY"}
  /\ IsFiniteSet(Crew)
  /\ \A plan \in TargetPlans :
       /\ plan.tiers \in Seq(RawTier)
       /\ \A type \in DOMAIN plan.byPeriod : plan.byPeriod[type] \in Seq(RawTier)

Statuses == {"DRAFT", "ISSUED", "PARTIALLY_PAID", "PAID", "CANCELLED"}

IncentiveInit ==
  /\ sales = <<>>
  /\ working = Crew
  /\ targets \in TargetPlans
  /\ period \in PeriodTypes

-----------------------------------------------------------------------------
(* Periods and revenue                                                      *)

MonthsOf(type) ==
  CASE type = "MONTHLY" -> 1 [] type = "QUARTERLY" -> 3
    [] type = "HALF_YEARLY" -> 6 [] type = "YEARLY" -> 12

\* Mutant: the last day of February is always the 28th.
LastDayOfMonth_Common(y, m) == <<31, 28, 31, 30, 31, 30, 31, 31, 30, 31, 30, 31>>[m + 1]

\* Date.UTC(year, month, 0) of the month after
LastDayOfMonth(y, m) == DayNo(y, m + 1, 0) - DayNo(y, m, 1) + 1

\* getPeriodsForYear, as the set of first and last days
PeriodsForYear(y, type) ==
  {<<DayNo(y, n * MonthsOf(type), 1),
     DayNo(y, (n + 1) * MonthsOf(type) - 1, LastDayOfMonth(y, (n + 1) * MonthsOf(type) - 1))>> :
     n \in 0..(12 \div MonthsOf(type) - 1)}

PeriodsOf ==
  [type \in {"MONTHLY", "QUARTERLY", "HALF_YEARLY", "YEARLY"} |-> PeriodsForYear(TargetYear, type)]

\* filterRevenueInvoices
Earning(p) ==
  {i \in DOMAIN sales : /\ sales[i].status \in {"ISSUED", "PARTIALLY_PAID", "PAID"}
                        /\ sales[i].day \in p[1]..p[2]}

Revenue(p) == SumFunctionOnSet([i \in DOMAIN sales |-> sales[i].total], Earning(p))

-----------------------------------------------------------------------------
(* Pools and shares                                                         *)

\* round2 of a / b, in paise
Rounded(a, b) == (2 * a + b) \div (2 * b)

\* filterEligibleStaffForRole: active, there by the end, joined by the fifth
Eligible(role, p) ==
  {s \in working : /\ CrewRole[s] # "SUPER_ADMIN"
                   /\ RoleKey[CrewRole[s]] = RoleKey[role]
                   /\ JoinedOn[s].day <= p[2] /\ JoinedOn[s].of <= 5}

\* extractTiers: the tiers of the period's own length come first
RawTiers ==
  IF period \in DOMAIN targets.byPeriod THEN targets.byPeriod[period] ELSE targets.tiers

\* expandRawTier: a tier for each role it rewards; those of an employee's role
OwnRewards(raw, s) ==
  {k \in DOMAIN raw.rewards : /\ raw.rewards[k].percent > 0
                              /\ RoleKey[raw.rewards[k].role] = RoleKey[CrewRole[s]]}

OwnTiers(s) == {i \in DOMAIN RawTiers : OwnRewards(RawTiers[i], s) # {}}

\* computePeriodResult reports the first of them.
OwnTier(s) ==
  LET raw    == RawTiers[Min(OwnTiers(s))]
      reward == raw.rewards[Min(OwnRewards(raw, s))] IN
  [target |-> raw.target, role |-> reward.role, percent |-> reward.percent]

\* Mutant: the highest target that is met is the only one that pays.
Achieved_Highest(t, revenue) ==
  /\ revenue >= t.target
  /\ \A i \in DOMAIN RawTiers : RawTiers[i].target <= t.target \/ revenue < RawTiers[i].target

\* Every tier is evaluated on its own.
Achieved(t, revenue) == revenue >= t.target

Pool(t, revenue) == IF Achieved(t, revenue) THEN Rounded(revenue * t.percent, 100) ELSE 0

\* sharePerStaff of computeRoleBreakdown
Share(t, revenue, p) ==
  LET n == Cardinality(Eligible(t.role, p)) IN
  IF n = 0 THEN 0 ELSE Rounded(Pool(t, revenue), n)

OwnShare(s, p) ==
  IF OwnTiers(s) = {} \/ s \notin Eligible(CrewRole[s], p) THEN 0
  ELSE Share(OwnTier(s), Revenue(p), p)

\* totalCompanyShare of getStaffIncentiveSummary
CompanyShare(s) == SumFunction([p \in PeriodsOf[period] |-> OwnShare(s, p)])

-----------------------------------------------------------------------------
(* What the reports are computed from                                       *)

\* External: an invoice is saved, or changes its status.
Sell ==
  /\ Len(sales) < MaxSales
  /\ \E d \in SaleDays, a \in SaleTotals, s \in {"DRAFT", "ISSUED"} :
       sales' = Append(sales, [day |-> d, total |-> a, status |-> s])
  /\ UNCHANGED <<working, targets, period>>

Settle ==
  /\ \E i \in DOMAIN sales :
       LET next == CASE sales[i].status = "DRAFT" -> {"ISSUED"}
                     [] sales[i].status = "ISSUED" -> {"PARTIALLY_PAID", "PAID"}
                     [] sales[i].status = "PARTIALLY_PAID" -> {"PAID"}
                     [] OTHER -> {} IN
       \E s \in next : sales' = [sales EXCEPT ![i].status = s]
  /\ UNCHANGED <<working, targets, period>>

Cancel ==
  /\ \E i \in DOMAIN sales : sales' = [sales EXCEPT ![i].status = "CANCELLED"]
  /\ UNCHANGED <<working, targets, period>>

\* External: an employee is deactivated, or active again.
SetWorking ==
  /\ \E s \in Crew : working' = IF s \in working THEN working \ {s} ELSE working \cup {s}
  /\ UNCHANGED <<sales, targets, period>>

IncentiveStep == Sell \/ Settle \/ Cancel \/ SetWorking

IncentiveSpec == IncentiveInit /\ [][IncentiveStep]_incentiveVars

-----------------------------------------------------------------------------
(* Properties                                                               *)

IncentiveTypeOK ==
  /\ sales \in Seq([day : SaleDays, total : SaleTotals, status : Statuses])
  /\ working \subseteq Crew

\* Whatever the length of the periods, the revenues of a year's periods add up
\* to the revenue of its days: an invoice of a period's last day, the 29th of
\* February included, is counted, and counted in one period.
RevenueCountedOnce ==
  \A type \in DOMAIN PeriodsOf :
    SumFunction([p \in PeriodsOf[type] |-> Revenue(p)])
      = Revenue(<<YearStart(TargetYear), YearStart(TargetYear + 1) - 1>>)

\* An invoice that is issued or paid never lowers what the year's report gives
\* to an employee, whichever further targets it meets.
SalesNeverCostStaff ==
  [][Sell \/ Settle => \A s \in Crew : CompanyShare(s)' >= CompanyShare(s)]_incentiveVars
=============================================================================
