# TLA+ verification of the Prime Detailer backend

The repository is the backend of a multi-tenant application for car-detailing
workshops: an Express API over PostgreSQL (Prisma). A *workshop* (organization)
has a *subscription* sold by the platform owner, branches, staff accounts,
customers with prepaid wallets, job cards, invoices and a large number of JSON
documents. This directory holds TLA+ models of it, TLC configurations that
check them on small instances, and theorems that TLAPS checks for every instance.

Paths below are relative to the repository; code is under `src/`.

- [1. The system](#1-the-system)
- [2. How the models are made](#2-how-the-models-are-made)
- [3. The modules](#3-the-modules)
- [4. The runs](#4-the-runs)
- [5. What the checks found](#5-what-the-checks-found)
- [6. The proofs](#6-the-proofs)
- [7. What is only model-checked, and what is not modelled](#7-what-is-only-model-checked-and-what-is-not-modelled)
- [8. Plan](#8-plan)

## 1. The system

Every request is handled by one `async` function on one Node process (or several
behind a load balancer). Between two `await`s other requests run, so a handler is
a sequence of database calls that interleaves with every other handler's. There
are three kinds of shared state: relational rows, the `AppJsonRow` documents, and
small in-memory caches. Nothing is queued; the only scheduled work is the daily
reminder job, and the only work that outlives its request is the mirror of vendors
and the messages to customers.

| Component | State | Operations | Correct when | Hard because | Module |
|---|---|---|---|---|---|
| **Subscription billing** `modules/organization/organization-subscription.service.ts`, parts of `modules/platform/platform.controller.ts` and `organization-provision.service.ts` | the `OrganizationSubscription` row, `Organization.isActive`, `SubscriptionPayment` and `SubscriptionBill` rows | renewal request, verification (PAID / FAILED), mark-paid, PATCH, suspend, restore, trial conversion | a payment is billed once; bill numbers have no gaps; each bill extends the paid period by its term; suspension is undone only on purpose | a row is read, other calls are awaited, the row is written back whole; numbers are counted before they are used; requests are retried | `SubscriptionBilling` |
| **Seat and branch limits** `modules/users/user-api.service.ts`, `modules/branches/branch-api.service.ts`, `lib/plan-catalog.ts` | `User` and `Branch` rows, the plan's limits | create / update / delete account, create / delete branch, the platform's branch grant | no more seats or branches than the plan allows | the limit, the usage and the insert are three moments; there are several ways to take a seat | `SeatLimits` |
| **Invoices and wallet** `modules/invoices/*`, `adjustWallet` of `modules/customers/customer.service.ts` | `Customer.walletBalance`, `walletTransactions` documents, invoice documents with their payments and stamps | save, delete, snapshot of invoices; manual credit and debit; balance set with the customer | the balance equals its transactions; each invoice charges and credits the wallet exactly once | the wallet transaction and the invoice row are written apart; "already processed" is a stamp inside a document the client sends | `InvoiceWallet` |
| **JSON document store** `modules/collections/app-json-store.ts` | `AppJsonRow` (collection, id, organization, payload) | list, page, get, single upsert, delete, whole-collection snapshot; singletons | a tenant's documents are never lost to, or visible in, another tenant; pages together are the list | snapshots are locked, single writes are not; ids are global; singletons move from a shared row; pages are cut from a moving list | `AppJsonStore`, `Singletons`, `CollectionPages` |
| **Cash bank, expense settings** `cash-bank.service.ts`, `expense-meta.service.ts` | one document each, vendors mirrored to parties | save with merge | a save that omits a part keeps it | read-modify-write; the mirror runs in the background | `AppJsonStore`, `PartyBooks` |
| **Job cards and quotations** | job-card, quotation and invoice documents | save, delete, snapshot, convert | prices are fixed once invoiced; referrals are for new customers | the test reads other documents before the write | `JobCards` |
| **Appointments** `modules/appointments` | a document, a relational row, pickup and drop requests | save, delete, snapshot | the three agree | up to six writes with no transaction | `Appointments` |
| **Branch removal** `branch-api.service.ts` | everything that refers to a branch | blockers, delete | nothing that was there refers to a deleted branch | counted one query at a time, deleted later | `BranchRemoval` |
| **Customers and vehicles** `customer.service.ts`, `vehicle-api.service.ts` | relational rows | create, import, update, delete, snapshot | phone and registration unique | checked before the insert | `Registry` |
| **Customer portal** `customer-auth.service.ts`, `customer-credentials-notify.service.ts` | passwords of customers, messages under way | sign in, set password, notify | what a customer was told last opens that customer's portal | sign-in by phone number picks one row of several; messages leave after the row | `CustomerPortal` |
| **Parties and their ledgers** `party.service.ts`, `party-ledger.ts`, `public-ledger.service.ts` | `Party` rows; otherwise computed from customers, vendors and documents | list, create, update, hide, ledger | each document is on one ledger; ledgers and balances agree | parties are put together from four sources by several keys | `PartyBooks` |
| **Authentication** `modules/auth` | login codes (memory), reset links (row) | request, verify, reset, change | each code or link serves once, before it expires | test and use are two calls | `Credentials` |
| **Staff permissions** `lib/rbac.ts`, `lib/staff-access.ts`, `middleware/auth.ts` | permission keys, the token's copy of them | accounts' handlers, sign-in, the test of a request | an access level means what it says | three generations of keys are expanded into each other | `StaffAccess` |
| **Attendance** | punches of a day | check in, check out, manual entry, delete | a punch ends the shift under way | read then write | `Attendance` |
| **Reminder job** `services/reminder-job.service.ts` | reminder stamps in documents | cron run, manual run | each reminder is sent, once a period | runs overlap, sends and saves fail, months have unequal lengths | `Reminders` |
| **Platform settings** `lib/platform-settings.ts` | one row | patch of each part, provisioning | a save of one part keeps the others | read-modify-write of the whole row, two generations of its form | `PlatformPlans` |
| **GST settings cache** `lib/gst-settings.ts` | in-memory cache | read, expire | nothing is judged by a value older than the lifetime of the entry | nothing clears the cache; two loads may overlap | `JobCards`, `Singletons` |
| **Company targets** `company-target-engine.ts`, **report periods** `report-period.ts` | none of their own | computation | every day and invoice counts once; a sale takes nothing from staff | boundaries of months, quarters and years | `Incentives`, `ReportPeriods` |
| **Messaging, files, docs, seeds, scripts, platform referrals** | none, or plain records | I/O | out of scope | — | — |

How they interact: verification and PATCH write the limits that the seat and
branch gates read; `requireAuth` reads the subscription's status and
`Organization.isActive` before any studio request is handled, and judges the
request by the token's copy of the account; saving an invoice
calls the GST and referral guards, the wallet synchronisation and then the JSON store;
branch removal counts the rows of users, appointments and
the JSON store; saving the expense settings starts the mirror of vendors to parties;
creating a customer starts a message with the portal's password;
the reminder job rewrites reminder documents and reads invoices.

`PROJECT.json` lists each component with its status, and under `hazards` the places
in this code where the order of steps matters, with the property that watches each.

## 2. How the models are made

**A step is an awaited database call.** An action reads or writes what one Prisma
call reads or writes, together with the synchronous code that follows it up to
the next call. `pc[p]` names the call request `p` is about to make; the other
per-request variables hold what the handler has in its local variables at that
point. An idle slot may start any handler with any input, so a slot stands for any
number of requests made one after the other, and *n* slots for *n* that overlap.
In the first four modules (billing, seats, wallet, store) these variables are written
out; the others share `Requests`: `Arrive` (a request comes, its handler at its first
call), `Goto` (the next call, and what the handler holds), `Answer`, and `AtOnce` for a
handler with a single call. `Quiet` says that every request has been answered.

**Transactions.** PostgreSQL runs at its default READ COMMITTED, and the code
never asks for another level. A transaction whose first statements are updates
holds those row locks to its end, so it is one step
(`VerifyCommit`, `SuspendWrite`). A transaction that *reads* first and writes
later is two steps, the read and the commit (`SaveReadCustomer`,
`SaveCommitWallet`): plain reads take no lock. The snapshot of a document collection takes an
advisory lock, deletes and inserts; in `AppJsonStore` each is a step, and the rows it has deleted stay visible
and locked to the others until it commits. `AppJsonStore` shows that snapshots do not mix, and the
modules on top of it (`JobCards`, `Appointments`, `BranchRemoval`, `CollectionPages`) take a snapshot's
transaction as one step. A unique key that is violated aborts the
whole transaction (`VerifyRollback`).

**Memory is not awaited.** Codes in the process's memory (`Credentials`) and cache entries
(`JobCards`, `Singletons`) are read and changed within the step of the call before them;
a restart empties them.

**Failure.** A call that fails and a process that restarts have the same effect on
the shared state: the handler stops where it is. `Abandon` (billing, seats, store),
`CutOff` (wallet) and `ApptCutOff` (appointments) let that happen before every call;
`Restart`, `ReadFails`, `SendFails` and `SaveFails` do it in the reminder job, whose loop
treats each failure in its own way, and `Restart`, `LinkMailFailed` and `Undelivered` in the
modules about credentials. A client that lost the answer may
send the same request again; since every input may be sent at any time, a retry is
one of the behaviours.

**Data.** Billing counts time in months; reminders, targets and report periods count days of
the calendar from 2020 (`Calendar`, with months from 0 that carry over, as the `Date`
constructor does). Amounts are in the smallest unit that matters. Names, notes, audit-log entries,
e-mails and responses are left out. A capacity is a number or `Null`
(unlimited); `Absent` is a field the client did not
send, which the code treats differently from `null`.

**Ghosts.** A promise about overlapping requests is often "what has been so all through the
request": `standing`, `kept`, `added`, `since`, `lasting`, `held` and `during` record
that per client from the moment a request arrives, and no action reads them in a guard. Other
ghosts record history: `used`, `signIns`, `tally`, `overlap`, `astray`, `told`, `alone`, `lastHeld`.

**Bounds.** In guards: `MaxPayments`, `MaxNow` (billing), `MaxLedger`, `MaxBalance` (wallet),
`MaxRequests` (requests sent in a behaviour, `Requests`), `MaxShifts` (attendance), `MaxNow`
(settings), `MaxSales` (targets), `MaxFailures` (reminders), `LastDay` and the days of `Clock`;
and `MaxPartRequests` in `MCPeople`. Everything else is finite because its set is.

**Fairness.** Only the reminder job is claimed to do anything: everything else is part of a request
somebody chose to send, and a request may be cut off anywhere. `MCOffice` assumes
`WF(StartJob(Cron))`: the external scheduler that `internal-job-auth.ts` and the route
`/api/jobs/reminders/process` are made for keeps calling; and `WF(JobStep(j))`: a call under
way goes on, since each of its steps is a call that is answered or fails. Failures are
steps of the job too, and are bounded by `MaxFailures`: the claim is about what failures that come to an end leave behind.

**Deadlock** is checked for billing, seats, wallet and store. In `office`, `workshop` and `people`
it is not: requests, days and failures are bounded, so behaviours end.

## 3. The modules

| Module | What it is |
|---|---|
| `SubscriptionBilling` | the billing handlers, one step per database call |
| `SubscriptionLedger` | what billing promises: a payment is settled at most once and adds its whole term |
| `SeatLimits` | the gates on users and branches and the requests they gate |
| `InvoiceWallet` | invoice saves and wallet adjustments |
| `AppJsonStore` | the JSON documents: single saves and deletes, snapshots, the settings singleton |
| `Requests` | requests that overlap: the frame of the modules below |
| `JobCards` | job cards, quotations and invoices with their guards; the GST status and its cache |
| `Appointments` | an appointment's document, row and two trips |
| `BranchRemoval` | the blockers of a branch's deletion, and what is added meanwhile |
| `StaffAccess` | permission keys, access levels, tokens |
| `CollectionPages` | scope, order and pages of a collection's listing |
| `Credentials` | one-time codes, reset links, password changes |
| `Attendance` | punches and manual entries |
| `Registry` | customers and vehicles |
| `CustomerPortal` | the `Registry` with passwords, messages and sign-ins |
| `Singletons` | a workshop's settings document and all its readers |
| `PartyBooks` | parties, the mirror of vendors, ledgers |
| `PlatformPlans` | the platform's settings row and the plans sold |
| `Calendar`, `ReportPeriods`, `Incentives`, `Reminders` | days; periods of reports; company targets; the reminder job |
| `MC…` | values of the constants for TLC; `MCOffice`, `MCWorkshop` and `MCPeople` compose several modules |
| `SubscriptionBillingProofs`, `SeatLimitsProofs`, `AppJsonStoreProofs`, `InvoiceWalletProofs` | theorems about the module of that name |
| `WorkshopProofs`, `PeopleProofs`, `OfficeProofs` | theorems about the modules that `MCWorkshop`, `MCPeople` and `MCOffice` compose |
| `FunctionSums` | lemmas about sums over finite sets, least and greatest members |

`MCOffice`, `MCWorkshop` and `MCPeople` have a variable `part`, fixed by `Init`: a behaviour
exercises one of their modules and leaves the others' state alone, so that the state
spaces add up instead of multiplying. Modules that do share state are composed for real:
`CustomerPortal` extends `Registry` and refines its steps (`PortalInsert`, `PortalUpdate`,
`PortalRegistry`), `JobCards` holds the cards, quotations, invoices, customers and GST cache that
look at each other, `PartyBooks` has parties, documents, the vendor directory and its mirror.
Each of these modules also has a `…TypeOK` that documents the types of its variables.
A definition marked *Mutant* is a plausible bug of the definition after it; it is used by no action.

### SubscriptionBilling

| Variable | In the code |
|---|---|
| `sub` | the `OrganizationSubscription` row: `status`, `limit` (`maxBranches`), `override` (`maxBranchesOverride`), `term` (`termMonths`), `expiresAt`, `payStatus` (`paymentStatus`) |
| `orgActive` | `Organization.isActive` |
| `payments`, `bills` | `SubscriptionPayment`, `SubscriptionBill`, in creation order; a payment's pricing is the part of its notes that verification parses back |
| `now` | `new Date()`, in months |
| `snap[p]` | the `sub` constant of a handler: the row as it was first read |
| `draft[p]` | what `verifySubscriptionPayment` has computed before its transaction |

| Handler | Actions |
|---|---|
| `requestRenewal` | `RenewAdmit`, `RenewQuote`, `RenewCreate`, `RenewTouch` |
| `verifySubscriptionPayment` | `VerifyBegin`, `VerifyReadPayment`, then `VerifyFail`, or `VerifyCount` and `VerifyCommit` / `VerifyRollback` |
| `adminMarkSubscriptionPaid` | `MarkPaidBegin`, `MarkPaidFindProcessing`, `MarkPaidCreate`, `MarkPaidSetTerm`, `MarkPaidVerify`, then as above |
| `patchOrganizationSubscription` | `PatchRead`, `PatchWrite` |
| suspend / restore | `SuspendCheck`, `SuspendWrite`; `Restore` |
| `convertTrialSubscription` | `ConvertCheck`, `ConvertWrite` |

Branch and user capacities are computed by the same expressions, so the model keeps
one pair of limit and override. The bill number is `year`-`number`: the code
counts the organization's bills whose number has the year's prefix, and the pair is
protected by a unique key.

`SubscriptionLedger` is the abstract specification. The refinement maps
`sub.expiresAt` to the paid period and the payments that have a bill to the
settled ones. Every step of the handlers must settle one payment by its whole term,
convert a trial before anything was settled, let time pass, or leave both alone.
Settlement may start from the day the payment was *looked at* rather than the day
it is committed, because the code takes the time when it computes the bill.

### SeatLimits

`users` and `branches` are the rows (`Null` where there is none), `plan` the
subscription's status and effective limits. `UserCreate`, `UserUpdate`, `UserLimit`,
`UserCount`, `UserWrite`, `UserDelete` are `createUserApi`, `updateUserApi` with
`assertCanCreateUser`, and `deleteUserApi`; `Branch…` are `upsertBranchApi` with
`assertCanCreateBranch` and the deletion; `Grant…` is the platform's branch
creation, which raises the limit by a `PlanRead` / `PlanWrite` before it inserts the
branch. Every office role behaves alike here, so there are two roles, `OfficeRole` and
`MECHANIC`, the one that takes no seat.

### InvoiceWallet

`balance` is `Customer.walletBalance`; `ledger` the `walletTransactions` documents,
kept as their signed sum per customer and invoice; `invoices` the invoice documents
with what the wallet looks at: customer, `walletAmountUsed`, payments, and the
payments stamped as processed. Saving is `SaveRead` (the stored row, outside the
transaction), `SaveReadCustomer`, `SaveCommitWallet` or `SaveRejected`
(`handleInvoiceWalletSync`), and `SaveWriteRow`. `Delete` and `Replace` do not touch a
wallet, as in the code. `AdjustRead` / `AdjustCommit` / `AdjustRejected` are
`adjustWallet`; `Overwrite` is a customer saved with a balance.

`StampsSent` is the only part that models a client: the stamp is added to the
document that is stored but not to the answer, so a client either has it (it has
read the invoice since) or not (it repeats what it sent).

### AppJsonStore

| Variable | In the code |
|---|---|
| `docs` | the `AppJsonRow` rows of one array collection: the workshop they belong to and their payload |
| `lock` | `pg_advisory_xact_lock` of (workshop, collection) |
| `doomed[p]` | the rows that the open transaction of `p` has deleted |
| `legacy`, `settings` | the `default` row of a singleton collection and the workshops' own `{organization}::default` rows, each as the set of parts it holds |

| Operation | Actions |
|---|---|
| `upsertCollectionItem` of a document | `SaveFind`, `SaveWrite` |
| `deleteCollectionItem` | `DeleteFind`, `DeleteWrite` or `DeleteMissed` |
| `replaceCollectionArray` | `SnapBegin`, `SnapForeign`, `SnapLock`, `SnapDelete`, `SnapCommit` |
| `upsertCashBank`: `getCollectionItem`, merge, `upsertCollectionItem` | `MergeRead`, `MergeReadLegacy`, `OneFind`, `OneMigrate`, `OneDrop`, `OneWrite` |

Payloads of single saves and of snapshots are different values (`Saved`, `Sent`), and all documents
of one snapshot carry the same one, so that a property can tell where a stored document comes from.
A commit keeps the rows that are there and were not deleted by the same transaction
(`skipDuplicates`): documents saved singly after the deletion, and documents of other workshops.

### The workshop: JobCards, Appointments, BranchRemoval, StaffAccess, CollectionPages

| Module | State | Handlers and their actions |
|---|---|---|
| `JobCards` | `cards`, `quotes`, `invoices` rows; `registered`, the GST status in the settings; `cached`, `gstStatusCache`; `newcomers`, the customers whose own row makes them new | job cards: `SendCard` / `SendCards`, `CardRead`, `CardCheck` (`assertJobCardPricingAllowed`), `CardWrite`, `CardDelete`; quotations: `QuoteSave`, `QuoteDelete`, `QuotesReplace`, `Convert`; invoices: `SendInvoice` / `SendInvoices`, `InvoiceRead`, the cache's `CacheHit`, `CacheMiss`, `CacheFill`, `InvoiceGuard` (`applyInvoiceGstGuard`), `ReferralCustomer`, `ReferralCount`, `ReferralAllowed` (`applyInvoiceReferralGuard`), `InvoiceWrite`, `InvoiceDelete` |
| `Appointments` | `appts`, the documents; `mirror`, the `Appointment` rows, and `table`, whether that table exists; `trips`, the pickup and drop-off requests | save: `ApptRead`, `ApptWrite`, `ApptRow`, then per side `TripRead`, `TripWrite` or `TripDelete`, `ApptSaved`; deletion: `ApptDelete`, `RowDelete`, `TripDelete`; snapshot: `ApptsList`, `ApptsReplace`, `ApptsRows`; `TripEdit` |
| `BranchRemoval` | `branches`; `uses`, what names a branch | `RemoveCount`, one blocker query at a time in any order, `RemoveDelete` (users by foreign key); `BranchSave`, `DocumentSave`, `DocumentDelete`, `UserSave`, `UserDelete` |
| `StaffAccess` | `accounts` (role, keys), `tokens` as the last sign-in copied them | `PostCheck`, `PostCreate`; `PutCheck`, `PutRead`, `PutWrite`; `DeleteFind`, `DeleteAccount`; `SignIn`. `Expanded`, `ForLevel`, `Defaults`, `Allowed` are the pure functions of `staff-access.ts`, `staff-role-defaults.ts` and `rbac.ts` |
| `CollectionPages` | `rows` with payload and `createdAt`; `shops`, the workshop's branches | a listing: `Ask`, `ScopeList`, `ReadPage` (repeated), `Shown`; `SaveDocument`, `DeleteDocument`, `Snapshot` |

A save writes the pickup request and then the drop-off request; cut-offs fall between any two calls. A page without branch scope is cut by the database in the order of
`createdAt`, where rows with equal times may come in any order (`Orders`); with a scope the code sorts all
payloads by their own dates and cuts them in memory.

### The people: Credentials, Attendance, Registry, CustomerPortal, Singletons, PartyBooks, PlatformPlans

| Module | State | Handlers and their actions |
|---|---|---|
| `Credentials` | `accounts`: password, `mustChangePassword`, active, the link and whether it is within its hour; `codes`, `otpByPhone` | codes: `CodeRequest`, `CodeIssue`, `CodeEnter`, `CodeVerify`; links: `LinkRequest`, `LinkUser`, `LinkIssue`, `LinkMailed` / `LinkMailFailed`, `LinkClear`; reset: `LinkFollow`, `ResetFind`, `ResetWrite`; `PasswordChange`, `ChangeFind`, `ChangeWrite`; `AdminReset`, `AdminSetActive`; time: `CodeExpire`, `LinkExpire`; `Restart` |
| `Attendance` | `shifts`, the `Attendance` rows by creation | `PunchStaff`, `PunchRows`, `PunchWrite`; `ManualFind`, `ManualWrite`; `ResetAttendance`; `Hire` |
| `Registry` | `customers`, `vehicles` rows | customers: `CustomerClash`, `CustomerReferrer`, `CustomerInsert`; `CustomersRead`, `CustomersInsert`; `UpdateClash`, `UpdateCurrent`, `UpdateWrite`; `DeleteVehicles`, `DeleteRow`; vehicles: `VehicleCustomer`, `VehicleInsert`, `VehicleWrite`, `DeleteVehicle`; `VehiclesRegistrations`, `VehiclesCustomers`, `VehiclesInsert`; `FleetCount`, `FleetReplace` |
| `CustomerPortal` | `secrets`, the passwords in force; `outbox`, messages a handler has left behind; `inactive`; `tokens` | the customer's steps of `Registry` with password and message, `Deliver` / `Undelivered`, `SignIn`, `ChangePassword`, `PasswordFind`, `PasswordWrite` |
| `Singletons` | `legacy`, the `default` row; `ownRow`; `shell`, the entries of the bootstrap's `SimpleCache`; `now` | save and removal: `SaveOne`, `FindOne`, `FindLegacy`, `DropLegacy`, `WriteOne`, `RemoveLegacy`, `RemoveOwn`; readers: `ItemOwn` / `ItemLegacy`, `ListNewest` / `ListOwn`, `LoginPage`, `MessageName`, `Portal`, `PublicInvoice`, `PublicLedger`, `PublicPhotos`, `PublicBranding`, `ShellLoad` / `ShellStore` |
| `PartyBooks` | `rows`, `hidden`, `directory`, `clientele`, `invoices`, `expenses`; `mirror`, the mirroring under way | `PostParty`, `PartyRead`, `PartyWrite`, `PartyHide`; `MetaKeep`, `MetaWrite`, `MirrorFind`, `MirrorWrite`; documents: `PayInvoice`, `PayExpense`; `CustomerGone`. `Listing`, `Movement`, `Summary`, `CurrentBalance`, `PublicMovement` are the computations; `Listing` passes over a row whose customer or vendor is listed anyway (`Shown`) |
| `PlatformPlans` | `settings`, the row in either form; `planOf`, the workshops' plans | `ReadPlans`, `UpdatePlans`, `CountPlans`, `WritePlans` for every change of plans, prices and defaults; `ProvisionPlan`, `ProvisionInsert`; `MovePlan`, `MoveWrite` |

### The office: Calendar, ReportPeriods, Incentives, Reminders

`ReportPeriods` has the day as its only variable; `Counted(preset, day)` is `resolveReportPeriod`.
`Incentives` computes, from `sales`, `working`, `targets` and `period`, what the year's report gives
each employee (`CompanyShare`), with the code's periods, rounding and roles. A stored tier may name several
roles; the code flattens it into a tier for each, and the model keeps the stored one with its rewards
(`RawTiers`, `OwnRewards`), of which an employee is given the first of the first tier that names his role (`OwnTier`). `Reminders` has the
reminders and, per job under way, what it has read and what is left of its loop: `StartJob`, `ReadOrg`,
`Send` / `SendFails`, `Save` / `SaveFails`, with `NextDay`, `Dismiss`, `Paid`, `SwitchOff` and `Restart`
falling between them; `Selected` is what the job finds due and `Advanced` how it moves the due date.

## 4. The runs

| Run | States | Shows |
|---|---|---|
| `billing_serial` | 1.7 M | One platform request at a time with a studio renewing alongside, cut off anywhere, from a trial or a paid subscription: the bills since the last trial add up to the expiry (`BillsReachExpiry`), at most one PROCESSING payment waits, only suspension suspends, and billing implements `SubscriptionLedger`. |
| `billing_concurrent` | 0.8 M | Two platform requests overlapping in every way across a change of year: bill numbers have no gap, a payment is billed at most once, PAID always comes with a bill. |
| `seats_concurrent` | 0.5 M | Two studio requests overlapping in every way: each limit is exceeded by at most one. |
| `seats_serial` | 0.6 M | One request at a time, limits saved in between: nothing is added beyond a limit. |
| `wallet_serial` | 80 k | One request at a time: repeated saves, snapshots, invoices that change customer, requests cut off at every step: a wallet equals the sum of its transactions. |
| `wallet_concurrent` | 2.7 M | Two clients saving an invoice each, adjusting and overwriting the same wallet: no wallet goes below zero and every invoice has moved the wallet by what its row says. |
| `wallet_lost_update` | — | Violation, see section 5. |
| `store_concurrent` | 0.5 M | Two requests of two workshops overlapping in every way, with single saves beside snapshots, cut off anywhere: snapshots do not mix, a snapshot leaves the other workshop's documents alone, and moving the settings leaves one row. |
| `workshop` | 0.8 M | Two clients, three requests. Invoiced prices are locked (`PriceLockedByInvoice`), referrals go to new customers (`ReferralsForNewCustomers`), between complete requests an appointment has the trips it wants and no others (`TripsFollowAppointment`), only unused branches are removed (`RemovedOnlyUnused`), "Without Edit Access" keeps out (`WithoutEditKeepsOut`), the pages of a listing miss nothing that was there throughout (`PagesMissNothing`). |
| `people` | 0.4 M | Two clients, three or four requests. Codes and links serve once (`UsedOnceIsGone`), what a customer was told opens the portal (`ToldOpensPortal`), a punch ends the shift under way (`PunchEndsOpenShift`), a second phone or registration arises only from requests that overlap (`NoSecondOfOne`), settings are read as they were during the request and the bootstrap's cache is no older than its lifetime (`ReadsCurrent`, `ShellLagsALifetime`), every document is on one ledger and the ledgers reach the balances (`DocumentCountedOnce`, `StatementsReachBalance`), a save of plans changes what it names and is read back (`OnlyNamedChanges`, `SavedPlanIsRead`). |
| `people_tenants_collide` | — | Violation. |
| `office` | 0.2 M | A period of a report becomes the previous one with no day lost (`PeriodBecomesPrevious`); every invoice of the year counts once towards targets (`RevenueCountedOnce`); a sale never costs an employee (`SalesNeverCostStaff`); reminders advance by one period (`AdvancesOnePeriod`), one message is sent for a period unless two jobs overlap, apart from those whose save failed (`OncePerPeriod`), and what is due is sent in the end (`DueIsSent`). |

Why the bounds are enough:

- *Two overlapping requests.* Each hazard here is one request acting on a value another
  has changed; that takes two. More slots add more victims of the same
  kind. For the properties where the number matters (bill numbers, single billing,
  overshoot) and for most others the theorems of section 6 hold for any number.
- *Two payments, `MaxNow = 1`, `MonthsPerYear` 1 or 2.* A second bill, a bill in a
  second year, a gap between two paid periods and a payment that is verified twice all
  occur. A term of one and of two months, one of them the default, distinguishes
  the term that was asked for from the one that is stored.
- *Limits 1 and 2 with one more account and branch than both requests need*: at the limit,
  one below and one above all occur. One account is created as a mechanic.
- *Two payments of one unit per invoice, `walletAmountUsed` of 0 or 1, openings of 0 or
  1*: a save can add one payment while removing another, be refused for each of the two
  reasons, and leave a balance of exactly zero. `MaxLedger` and `MaxBalance` only stop
  sums from growing for ever by repeating the same save.
- *Two workshops, two documents, two snapshot payloads*: ids taken by the other workshop before, during
  and after the check for them, two snapshots of one workshop or of two, and empty snapshots
  (`Financial = FALSE`; a financial collection only refuses some of them) all occur.
- *Three requests of the workshop and the people* (four for codes, links and punches, which
  need an earlier request to have anything to act on): one that sets the scene and two that
  overlap. So that the states stay few, the request that sets the scene is served alone: the first one
  for job cards and invoices, the third for accounts of employees (the first two overlap, and the
  third sees what they left) and for parties. Appointments are served one at a time: their hazard is a
  save that is cut off, and two saves of one appointment that overlap do leave trips neither of them
  wanted. Sign-ins that decide whose pages are read come first.
- *Three roles and two generations of keys, three modules* of which one takes creations by PUT and
  one has no granular keys: every branch of the expansion of permissions is taken.
- *Days from 2022-01-01 to 2025-04-02* for report periods: a leap day, four year ends and three ends of a
  financial year. Targets are those of 2024, with sales on 29 February, 1 March and 31 December, two employees, one of whom
  joined in the middle of a period, and up to two sales. The reminders' clock shows two days
  at which each of the plans comes due, at the end of a month of 31 days and before one of 29.
- *Three directories of vendors*: a name in two spellings, two profiles, and a profile that was renamed
  after its row was written; the mirror of one save may end after that of the next.
- *Two jobs, one failure*: a job that overlaps the scheduler's, and a message or a save that fails
  once at any place of the loop. One reminder's phone number is always refused, so that the rest
  of the loop has to survive it.

Symmetry is used in the safety runs, for clients and ids that no
definition tells apart; not in `office`, which checks liveness.

What some runs leave out on purpose, each because it is a way to break the property
that is recorded elsewhere: `wallet_concurrent` gives each client its own invoice
(two saves of the *same* invoice both charge against the same old row), sends no body
twice (`Resends = {FALSE}`) and does not cut a save off
between the wallet and the row (`CutOffAt = BeforeSaved`; the next save would charge
again). `wallet_serial` has no `Overwrites`: saving a customer may set the balance
with no transaction. Similarly
`billing_serial` has one platform request at a time because with two the paid period
is not what was billed (section 5) and a PATCH that read a suspended row may write CANCELLED back over a payment that
reactivated the workshop, and the seat runs give no account a new role.

Each property of a passing run has a mutant: a definition changed as a plausible bug
would change it, for which TLC finds the property violated.

## 5. What the checks found

| Run | Property | What happens |
|---|---|---|
| `wallet_lost_update` | `BalanceIsLedgerSum` | `wallet-sync.service.ts:19` promises strict consistency from its transaction. At READ COMMITTED two transactions read the same balance and each writes its own result; one change is lost, both transaction rows stay. |
| `people_tenants_collide` | `TenantsDoNotCollide` | `app-json-store.ts:279` and `json-collections.ts:62` say that workshops do not share the row "default". The public pages of invoices, ledgers and photos read that row whosever it is: a customer of one workshop sees the name and address of another. |

Modelling brought up more that the code does and no property of a passing run claims otherwise:

- Two payments verified at once both compute the new expiry from the row read before the
  transaction; two bills, one term. `billing_serial` has one platform request at a time for this reason.
- An active mechanic takes no seat and may be given an office role without passing the gate
  (`RolePatches` is empty in the seat runs).
- A save of an invoice repeated with the body first sent credits an extra payment twice, because
  only the stamp in the incoming body is looked at; a save cut off between the wallet and the row charges again.
- A save of the cash bank that leaves out a part takes it from the row it read; what another save
  has stored since is written over. A save cut off between dropping the old `default` row and writing the
  workshop's own loses both (`OneDrop`, then `Abandon`).
- Nothing calls `invalidateGstStatusCache`: an invoice saved within a minute of a change of the
  registration is judged by the old status.
- A snapshot sent by an employee who sees one branch replaces the documents of all branches.
- A quotation can be converted twice; the second job card replaces the mark of the first.
- `company-target-engine.ts:306` pays an employee for the first tier of his role only, when several name it.
- `rbac.ts:43` says that an Admin may onboard accounts too; `user-api.controller.ts:142` then refuses an Admin
  every role (`canAssignUserRole`), so that only a Super Admin creates any.
- A vendor that is renamed in the directory keeps the old name in the row of his key, and the row
  hides the new one (`mergeParty`, `party.service.ts:131`): expenses of the old name are on two ledgers, those of the
  new name on none. `DocumentCountedOnce` speaks of names that are `Plain`: one spelling, a key that no other name
  has, and no row of a key that gives another.
- The last-branch test (`branch-api.service.ts:129`) counts the branches of every workshop.

## 6. The proofs

All theorems hold for every value of the constants, under the module's named
assumptions, which give the constants their types and which TLC evaluates in the runs of their module.
Each follows the same argument: a strengthening that is inductive, its initial and its step lemma, one
case per action, and a last step that combines them.

**`SubscriptionBillingProofs`** — any number of requests, payments, terms, plans and years,
no bound on anything but the constants themselves.

- `TypesKept`: `Spec => []TypeOK`. `TypeOK` is not inductive, since what a step may do with
  `body[p]` depends on where `p` is; `Typed` adds `Fits(p)`, the form of the body, of the copy
  and of the draft at each step.
- `NumbersGapFree`: `Spec => []BillNumbersGapFree`. The count is taken outside the
  transaction, so two verifications may hold the same number. The strengthening `NumbersFit`
  says that a number a request holds is between 1 and one more than the number of bills of
  its year. Bills are never removed, so this stays true while others insert; when the
  unique key accepts the number, it can only be the next one.
- `OneBillPerPayment`: `Spec => []BilledOnce`, and
- `PaidHasBill`: `Spec => []PaidIsBilled`. Proved together from `BillsFit`. The first rests on the
  unique key on the payment, the second on the transaction that sets PAID and inserts the
  bill in one step, and on no other handler setting PAID.

- `ExpiryIsBilled`, `SingleProcessing`, `OnlyAskedSuspensions` and `LedgerImplemented`:
  `BillsReachExpiry`, `OneProcessing`, `OnlySuspensionSuspends` and the refinement `ImplementsLedger`, assuming
  `Supervised`: one platform request at a time, amid any number of the workshop's, and no PATCH that sets the expiry or
  goes back to a trial. (With two requests all four are false, section 5; such a PATCH moves the period on purpose.)
  The strengthening `Serial` says with `Followed` that what the platform's request has read is still
  so, since only renewals come between, that the bill it is about to write starts where the paid period ends, and that
  a conversion from a trial finds no bill. For the refinement each step is mapped to the settlement of one
  payment, to a conversion, to the passing of time or to a stutter.

The lemma `Greatest` (a nonempty set of numbers up to *n* has a greatest member) is what
"the newest pending payment" needs; it is derived from the library's
well-foundedness of strict subsets, since induction itself is not available.

**`FunctionSums`** — sums are a recursive function over finite sets, and what holds of them holds by induction on
the set. The induction theorems of the library cannot be instantiated, but the well-foundedness they come
from can: `MinimalSet` (a set of subsets of a finite set has one that contains no other) turns an
induction into the search for a least counterexample. From it follow that a sum exists and is a number, what
removing, changing, splitting or cutting its set does to it, that a sum of greater parts is greater, and
that a sum over parts that partition a set is the whole sum. The wallet, the targets and the ledgers need them.

**`SeatLimitsProofs`**

- `TypesKept`, from `Typed` as above.
- `UserOvershoot` and `BranchOvershoot`: with *n* requests of the studio overlapping, a limit is
  exceeded by at most *n* − 1, whatever the limit. Assumption `StudioOnly`: no request of the platform, no
  change of an account's role (with one the property is false, section 5), and limits that
  admit the owner and the first branch. The invariant counts as taken every seat for which a
  request has passed the gate (`SeatsOrClaims`, `Reserved`). This set grows only at the gate,
  where the rows counted are below the limit and the other pending writes are at most *n* − 1.
  Rows alone are not inductive: a write may come long after its gate.
- `StaysWithinLimits`: `Spec => AddedWithinLimits`, assuming `Orderly`: one request at a time, roles that
  stay, and a platform that always raises the limit it needs. `Cleared` says what the only request knows at each of its steps: its
  copy of the plan is the plan, a pending account takes no seat, keeps the one it has or has room, a pending
  branch is there already or has room.

**`AppJsonStoreProofs`**

- `StoreTyped`: `Spec => []TypeOK`, which includes that only the holder of a workshop's lock has deleted rows.
- `SnapshotsApart` (`SnapshotsDontMix`): the strengthening `Holds` says that from the deletion to the
  commit a request holds its workshop's lock, that what it deleted is still the workshop's, and that
  every other document of the workshop comes from a single save. The last part is where the lock
  matters: another request that commits a snapshot meanwhile holds the lock of another workshop.
- `OthersKept` (`SnapshotKeepsOthers`): a row of another workshop is not among those the
  transaction deleted, so the insert skips it, however late it was taken.
- `OneRow` (`OneSettingsRow`): the strengthening `Moved` says that a save about to write the settings has
  seen the old row gone, or found the new one. No request brings the old row back.

**`InvoiceWalletProofs`** — `NotNegative`: `Spec => []WalletNotNegative`, although balances are read
without a lock and written back as values. It holds because the value that is written is the value that was tested;
a decrement by a difference would break it, and the balance of section 5 does go wrong. `Sound` adds
that a balance read before is an amount too and what a save holds of the stored invoice.

- `LedgerExplainsBalance`: `Spec => []BalanceIsLedgerSum`, assuming `Alone`: one request at a time, and no
  balance that is overwritten. `Balanced` adds that the balance a transaction has read is still the customer's. Cut-offs are allowed
  anywhere: a transaction that does not commit leaves neither balance nor row. With two clients it is false (section 5).
- `InvoicesSettle`: `Spec => []InvoiceSettled`, assuming `Separate`: clients overlap, each at invoices of its own that
  name a customer, send what they read back, and are not cut off between the wallet and the row (what else happens is in section 5).
  `Settled` says that exactly the payments that add something are stamped, that an invoice is as it was read until
  the wallet is charged, and that what is then about to be written is what has been charged.

**`WorkshopProofs`**

- `RemovesOnlyUnused`: `BranchSpec => RemovedOnlyUnused`. The blockers are
  counted by one query after another; `RemovalHeld` says, of the kinds that have been counted, that no document of
  them has named the branch all through the request (`kept`, which only shrinks).
- `WithoutEdit`: `StaffSpec => []WithoutEditKeepsOut`. `Cut` is what
  `ForLevel` does to any keys; `CutWithout` says of every account and every token that the level
  never stands beside keys of another origin. `FirstAccountsAssumption` says that accounts begin without a level.
- `PricesLocked`: `DeskSpec => PriceLockedByInvoice`, and
  `ReferralsForNew`: `DeskSpec => ReferralsForNewCustomers`. The guards look at the items of a
  request one at a time. `CardHeld` and `InvoiceHeld` say of the items that are through that no invoice which has stood
  since the request came speaks against them; what stands only
  shrinks, and an invoice in it goes on naming its job card and its customer.
- `TripsFollow`: `ApptSpec => []TripsFollowAppointment`. A save is up to six calls, cut off after any of them. `ApptInv`
  says how far the one request under way has come with its appointment (`Progress`), and that every other
  appointment that is not astray has the trips it should have (`InStep`).
- `PagesComplete`: `PageSpec => []PagesMissNothing`, for collections and pages of any size. The page read next is counted
  from the start of the collection as it is then. `Reached` says of each document that was there from the first that it
  has been shown, or has at least as many documents before it as the pages read so far could hold: additions
  only make them more. That the ordered collection puts a document at the place given by what precedes it is
  a counting argument over any order the database may return.

**`PeopleProofs`**

- `ServesOnce`: `CredSpec => []UsedOnceIsGone`, for links and for codes. The
  invariant of the run is not inductive: `CredApart` (no link on two accounts, no code kept for two users) and
  `CredFits` (a request about to write a new password holds a link that is on no other account) exclude
  the states from which a used link would come back.
- `PunchesEnd`: `ShiftSpec => PunchEndsOpenShift`. `PunchHeld` says that a request not about to end a shift
  has seen all through it no open shift of its employee and day that was left alone.
- `PortalOpens`: `PortalSpec => []ToldOpensPortal`. `Served` adds that a number which a request has looked up is still free
  when it is written, and that a message, sent or about to be, names the password in force. As that holds only while requests come
  one after the other, the invariant is `alone => Served`.
- `OneOfEach`: `RegistrySpec => NoSecondOfOne`. `Sought` says that the number or registration a request goes on with has
  belonged to no other row all the time since it came (`since`), and that an import repeats none of its own.
- `SettingsReadCurrent` and `ShellLags`: `ReadsCurrent` and `ShellLagsALifetime`. `OneRowEach` says that a workshop never has both
  rows, nor a row about to be written beside the old one; a reader's second query therefore finds what was so at some
  moment of its request. `Dated` says when each cached document was last the workshop's.
- `OnlyNamed` and `SavedIsRead`: `OnlyNamedChanges` and `SavedPlanIsRead`, for any catalog and either version of the row. What a request
  has seen all the while was in the row it read (`Observed`), so it suffices to compare that row with the one it
  writes (`UnnamedStays`, `PriceStays`). `PlatformInv` also keeps a plan in the catalog: an empty one would mean the defaults.
- `StatementsReach`: `PartySpec => []StatementsReachBalance`. Every document and every payment is in one half of a year that
  is cut, sums are cut with it (`SoldCut`, `ReceivedCut`, `WalletCut`), and nothing is paid beyond its amount (`Sound`, which
  paying keeps). For the public statement the list's entry of a customer and the party made up for the page must open with the same
  row: `RowFits` says that a row of its own completes no customer who is there, because what completes a party on a save was
  read from the list under the same id.
- `CountedInOneBook`: `PartySpec => []DocumentCountedOnce`. A customer who is there has one entry, that of his key
  (`ListedCustomers`). A plain name heads its spellings, so it has one entry, which keeps the name whatever row completes it, and
  any other row of that name is passed over since its vendor is shown (`ListedVendor`).

**`OfficeProofs`**

- The calendar first: where years and months begin, and that a day is in one of each. Dates are proved for 2020 to 2029, the years
  whose first days `Calendar` lists; this bound is named by `PeriodAssumption`, `ReminderAssumption` and `IncentiveAssumption`.
- `PeriodsFollow`: `PeriodSpec => PeriodBecomesPrevious`, on every day from 2022 to 2028. Months, quarters and financial years are runs of
  *w* numbered months, and the one that a day is in begins at the last multiple of *w*; weeks are runs of seven days.
- `OnceEach`: `ReminderSpec => []OncePerPeriod`, for any jobs, reminders, failures and restarts. While no two jobs overlap, a message
  that is counted is one whose save is pending, or whose reminder has been marked or has moved on to a later period (`Accounted`);
  and what a job has read is still so (`ReadLast`). The key of a later due date is a later key (`NextIsLater`), also of
  weeks that end in the next year.
- `OnePeriodOn`: `ReminderSpec => AdvancesOnePeriod`.
- `CountedOnce`: `IncentiveSpec => []RevenueCountedOnce`. A day of the year is in one period of each length, and a sum over
  parts that partition a set is the whole sum.
- `StaffNeverLose`: `IncentiveSpec => SalesNeverCostStaff`. An invoice issued or paid lowers no period's revenue; the tier reached, the pool,
  its rounding and an employee's part of it are monotone in the revenue; a sum of parts none of which is lower is not lower.

### Assumptions on the constants

They say what the code's types and its callers ensure, and no more: amounts, days and lifetimes are numbers, `Null` and `None` are not
among the values of a column, an import is a list of rows of its type (`Entries`, `VehicleLists`, `Directories`), ids made up by a
client do not look like computed ones (`NewIds`), plans that are stored or sent have known codes (`PlanAssumption`), tiers and rewards
are lists (`IncentiveAssumption`). `LedgersAssumption` is about the documents a behaviour of `PartyBooks` begins with: nothing is
paid beyond its amount, and an expense neither PAID nor PARTIAL has no paid part. The party code relies on it without testing it: a summary counts the paid part
of PARTIAL expenses only, a statement that of all. The assumptions `Supervised`, `Alone`, `Separate`, `StudioOnly` and `Orderly`
restrict the requests; each is the hypothesis of the theorems that need it, and the runs `billing_serial`, `wallet_serial`,
`wallet_concurrent`, `seats_concurrent` and `seats_serial` check the same properties on instances that satisfy them.

## 7. What is only model-checked, and what is not modelled

Only model-checked: `DueIsSent`, which is liveness under fairness and out of the prover's reach, and the two violations of section 5.
The `…TypeOK` of `SubscriptionBilling`, `SeatLimits` and `AppJsonStore` are theorems; those of the other modules document the
types of their variables, and the invariants of section 6 contain what the proofs need of them.

The properties say less than it may seem in these places: `ToldOpensPortal` speaks of customers whose
creation and changes did not overlap another request for the same number (`alone`); `NoSecondOfOne` of requests that
did not overlap (nothing in the database keeps phone numbers apart); `OnlyNamedChanges` of what nobody else
changed meanwhile; `ShellLagsALifetime` supposes that a query takes less than the cache's unit of time;
`RemovedOnlyUnused` of documents that were there all through the request; `PagesMissNothing` of listings during which
documents were only added; `DocumentCountedOnce` of vendors with a plain name, and it supposes that of several rows a query finds
for one customer or vendor, the one it returns first is always the same.

Not modelled, in components that otherwise are:

- the arithmetic of discounts, of GST and of a subscription's price;
- `normalizeTermMonths` for a PATCH or a conversion outside the allowed terms, beyond "becomes the default",
  and calendar months of unequal length in billing;
- moving an account between organizations;
- editing the amount of a payment that was stamped;
- writing the `walletTransactions` or `invoices` collections through the generic collection
  routes: whoever may do so can record anything, and no code in this repository relies on it;
- who created a document (`createdByUserId`), photos, the profile with its picture and favourites;
- the wording of messages, the lifetime of tokens, the demonstration's sign-in;
- responses, logs, e-mails.

Not modelled at all: the platform's referrals and contacts (plain records with no rule between them),
messaging and files (calls to services outside), and generated documentation, seeds and scripts,
which hold no state of the program.

## 8. Plan

What is left, in this order:

1. The arithmetic of prices, discounts and GST as operators, checked against reference definitions.
2. The restrictions of section 6, weakened: a `Supervised` that admits two platform requests which are not about the same payment,
   a `Separate` that admits saves of the same invoice one after the other by different clients.
3. Two overlapping saves of one appointment, with a property that says what then may remain.
4. Messages to customers of jobs and invoices: which state of the document they speak of.
