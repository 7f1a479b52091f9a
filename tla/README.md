# CommandAi: verification of the backend and its web client

TLA+ models of the stateful parts of `src/backend` and of the pages of `src/src`
that hold state, the TLC runs that check them on small instances, and TLAPS
proofs of their invariants for every size. Paths without a prefix below are
relative to `src/backend/src/` (`modules/` left out where the file name is
enough); `PROJECT.json` maps every definition to the lines it was translated
from.

    tlc -workers 2 -config Credit.cfg MCCredit.tla     # any run of PROJECT.json
    tlapm CreditProofs.tla                             # any *Proofs module

## 1. The system

CommandAi is a multi-tenant service: an organization has accounts, an account
departments, a department users. The backend is a Node process (several
replicas) over MongoDB (documents, multi-document transactions), Redis
(sessions, counters, caches, BullMQ queues), Stripe, OpenSearch and S3; the web
client is a React application with one socket to the backend. Node is single
threaded, so code between two `await`s is atomic; everything that goes wrong
goes wrong at an `await`, between replicas, or when a process dies.

| component | state | operations | interacts with |
|---|---|---|---|
| Credit store (`credits`) | `credits` (balance, reserved, lifetime totals), `credit_transactions` (rows), `accounts.budget` | add, debit, reserve, release, commit, allocate to account, consume from account | everything that is charged; MongoDB transactions |
| Account budgets (`credits/account-budget`, `account`) | `accounts.budget`, its copy `account_budgets` | read, set limit, PATCH, background copy | credit store |
| Rate card (`credits/credit-rates`) | defaults, overrides of an organization | replace, reset, read before a charge | credit store, audit log |
| Stripe webhooks, purchases (`billing`, `credits/credit-purchase`) | `organizations.subscription/stripe`, contracts, credits | five event handlers, acknowledgement | Stripe (at least once, any order), credit store, contracts |
| Plans and subscriptions (`plans`, `billing/stripe.service`, `plan-limits.validator`) | the organization's plan, customer, subscription; counts of accounts, users | change plan, subscribe, create account | Stripe, accounts |
| Contracts (`contract`) | term, status, renewal bookkeeping | daily scan: remind, renew, suspend, terminate | organizations, notification queue, scheduler |
| Queues (`infrastructure/queue`, `signals`, `execution`) | BullMQ jobs, dead letters | process, fail, copy to the DLQ, retry by an operator, purge | account budgets |
| Scheduler (`infrastructure/queue/scheduler`) | repeatable jobs, overrides per replica | register at start, enable, disable, reschedule | all daily jobs |
| Process life cycle (`server.ts`, `shutdown.ts`) | connections, workers, HTTP server | bootstrap, probes, shutdown, forced exit | all stores |
| Sessions (`auth`: refresh, sessions, blacklist) | Redis: refresh tokens, used markers, session records, index, blacklist, epoch | login, refresh, logout, revoke, heartbeat | every authenticated request |
| Login (`auth`: lockout, magic link, SMS, backup codes) | Redis counters, lock, codes; user document | login, codes, lockout | sessions, second factors |
| Second factors (`auth/mfa`, `mfa-policy`) | user's TOTP, phone, passkeys, codes; the policy | enrol, disable, enforce, remind | login, gateway |
| Single sign-on (`auth/saml`, `oidc`, `sso-enforcement`, `emergency-access`) | provider settings, enforcement, grants | settings, four kinds of login | second factors, provisioning, group mapping |
| Gateway (`app.ts`, `common/middleware`) | nothing of its own | the middlewares in their order, the rate limiter | tokens, policy, tenants |
| API keys (`api-keys`) | key document, secrets | create, update, rotate, revoke | |
| Roles (`rbac`) | roles, users' roles, group mappings, permission cache | resolve, administer, invalidate, seed | every authorized request |
| Response cache (`cache.middleware`, `infrastructure/cache`) | Redis entries and tag sets | fill, serve, invalidate by event | event bus, controllers |
| Tenancy (`organization`, `account`, `department`, `user`) and provisioning (`scim`, `auth/jit-provisioning`) | the tree of tenants, users, groups | create, move, provision, deprovision, remove | plan limits, hierarchy validator |
| Credit alerts (`credits/credit-alert`) | settings, levels sent | check after a consumption, queue a mail | credit store, notification queue |
| Webhook deliveries (`webhooks`) | hooks and logs in the memory of a replica | register, trigger, post, log | queue |
| Audit and retention (`audit`, `retention`) | audit events in MongoDB and OpenSearch, policies, run records | log, search, export, sweep, change policy | S3, queue |
| Statements and directories (`credits/credit-history`, `scim`) | rows that others write | count and page | web client |
| Web client (`src/src`) | credentials, socket, notifications, forms | sign in, refresh, sign out, load, edit, save, page | all of the above |

What is hard: operations that read, check and write in separate awaits
(budgets, plan limits, sessions, codes, settings); work done twice because
delivery is at least once (Stripe, BullMQ, overlapping scans); work half done
because a process died between two writes (renewal, dead letters, counters);
caches filled from reads that are no longer current; answers that arrive in
another order than their requests were sent. `PROJECT.json` lists each hazard
at its line, with the properties that cover it.

## 2. Modules

Each module is written from one family of source files. An action is the code
between two awaits (or a whole MongoDB transaction or Lua script, where the
code uses one); a call in progress is a record in `call` (`request`, `scan`,
`session`, `job`...) that holds the program point `pc` and whatever the code
has read and will use later, which is what makes stale reads visible. `Crash`,
`Fault` or `Fail` ends a call at any await and leaves what it wrote. Variables
commented "history" are no state of the program: they record what a property
needs to exempt or to count, and no guard reads them.

**Credits.** *CreditLedger* has every operation of the credit store as one
step: `balance, reserved, lifetime_*` are the `credits` document;
`allocated_credits, used_credits, credit_limit, status, is_deleted` the
`accounts` document; `credited, debited, granted, charged, moved` the sums of
`credit_transactions` rows by type and owner. Requests that throw are
stuttering steps. Rows are summed by type because of the sign convention of
`credit.model.ts:3`: an allocation row is positive although it leaves the pool.
Creating an account and a PATCH with a budget set the counters from the body
(`account.service.ts:51`, `:107`), and the PATCH writes back what it read
before; `opening` (history) keeps what was last written so, with the rows there
were. *CreditFlow* is its abstract specification: a credit is in exactly one
place and moves along a few paths, and what an administrator states of an
account is on record. *CreditTxn* extends CreditLedger with the same
operations as MongoDB transactions: a snapshot, the checks, a write per
document, commit, and the callback run again after a conflict; plain writes
outside transactions come in between. Its abstract specification is
CreditLedger, the committed documents being the same variables.
*AccountBudget* is one account at the granularity of its awaits, with the paths
that are no transactions: `AccountService.update` reads the account and writes
the budget back later, and the copy in `account_budgets` is upserted from a
document read earlier. *PlanChanges* creates accounts under the plan's limit,
changes the plan and subscribes; Stripe's customers and subscriptions survive
the request that made them. *RateCard* replaces and resets rates while clerks
charge at what they read.

**Billing.** In *StripeWebhooks* events come about at Stripe, any event that
was not acknowledged is delivered again (also while an earlier delivery is being
handled), and the handlers follow `stripe-webhook.service.ts` and
`credit-purchase.service.ts:148`. In *ContractRenewal* a scan walks through the
lists its queries returned, reminding, renewing and terminating one contract at
a time in separate awaits; time is in calendar days, as in `daysUntilDate`.
Scans overlap because the job runs at once whenever a replica starts
(`scheduler.ts:175`).

**Platform.** *Jobs*: BullMQ runs a job at least once; the charge and the
completion are separate steps, the dead-letter copy is made by a listener
(`setup-dlq.ts:38`), an operator's retry reads, adds and removes. *Lifecycle*:
bootstrap, readiness, the registered shutdown callbacks in their order and the
timer that forces the exit. *Scheduler*: replicas that register the repeatable
jobs, and operators who rewrite them through one replica; each adding may fail
after the removal, in a registration (swallowed, `server.ts:132`) and in a
rewrite (answered 500, `scheduler.routes.ts:57`).

**Signing in.** *Sessions*: refresh tokens and session records in Redis;
consuming a token is one action because it is one Lua script
(`refresh-token.store.ts:41`), rotation, revocation and the heartbeat are
sequences of commands. A refresh carries the token it has spent until it ends,
with an answer or without. *Login*: the password and second-factor path with the
lock looked up before (`auth.service.ts:161`) and placed after, the
`INCR`/`EXPIRE` counters, and links, SMS codes and backup codes, read and then
spent.

**The entrance.** *SlidingWindow* is the Lua script over sorted sets under the
clocks of two replicas. *Gateway* is the chain of middlewares, each with what
it reads and when. *ApiKeys* is one key whose document is read, changed and
saved by overlapping requests. *Factors* enrols and disables second factors
under a policy with a grace period, and holds as operators the HTTP answers that
`auth.controller.ts` gives to each error. *SsoLogin* extends it with the
settings of the identity providers, enforcement, emergency grants, and the
logins by password, magic link, SAML and OpenID Connect.

**Caches.** *Permissions* holds scopes, inheritance and effective permissions
as operators; *Access* changes roles, users, group mappings and seeded roles
around the permission cache. *ResponseCache* fills, serves and invalidates the
responses of the webhook routes. The hooks and logs they show are in the memory
of each replica (`webhook.repository.ts:10`), the entries in the Redis of all;
data are versions. An entry is filed under the organization of the header
(`tenant-resolver.ts:11`), an invalidation is for the one of the query
(`webhook.controller.ts:37`); `Own` and `Other` tell them apart.

**Tenancy.** *Tenancy* has the requests that create, move, provision and
remove tenants, departments, users and groups, each a sequence of stages with
an await between them. Nothing validates the body of a SCIM request, so
`active` may be a boolean, other JSON or left out, in a PUT as in a PATCH.

**The customer's side.** *CreditAlerts*, *Deliveries* (hooks and logs are in
the memory of the replica that took the request), *AuditLog* with *Retention*
and *AuditExport* (both extend it), *Statements* (lists read a page at a time),
*WebClient* (credentials, the effects React runs after each change, the one
socket, the listeners), *Pages* (five settings forms and the login form).

**Composition.** The modules `MC*` give the constants their values and put the
components of one area into one specification. Components that share no
variable are independent, so `focus`, chosen in the initial state, says which of
them moves in a behaviour: the run then explores the sum and not the product of
their states. The credit store has two such parts, because two transactions at
a time and PATCHes beside them are too many together: overlapping transactions
without PATCHes, and a transaction beside PATCHes; the theorems are about all
of them together. Components that do share state are composed by EXTENDS
(CreditTxn on CreditLedger, SsoLogin on Factors, Retention and AuditExport on
AuditLog, Access on Permissions) and interleave fully.

## 3. Runs

Symmetry is used for interchangeable calls, in runs of safety properties only.
`CHECK_DEADLOCK FALSE` stands where a bound ends the run. The head of each
`.cfg` states its instance.

| run | instance | distinct states | what it shows |
|---|---|---|---|
| `credit` | store: 1 pool, 1 account, 2 credits, 2 sessions, or 1 beside a PATCH on an account created with counters of its own; budget: 2 calls; plan: 2 requests, limits 1 and 2, 1 death; rates: 2 clerks, 3 changes | 2.4 M | holds are covered, every stored total is the sum of its rows, on top of what was last stated by hand, limits hold at every allocation that is no PATCH, the transactions implement the operations and the operations the flow; budgets and charges are explained by rows and cards; accounts fit the plan, an answered change agrees with Stripe |
| `billing` | 2 deliveries at a time, 1 payment, 1 invoice, 1 failure; 2 scans, 1 contract, 4 days, 2 attempts, 2 failures | 888 k | a payment is credited, once unless deliveries overlap, and in the end; a 2xx means the event had its effect; terms are paid for, suspensions need failures, nothing due stays unsettled |
| `platform` | 2 signals, 2 operators, 2 attempts, 1 death; 2 requests and 2 jobs of a process; 2 replicas, 2 deaths | 363 k | each extra charge is explained, no accepted job disappears, every job ends; shutdown is in order and ends; the schedule is complete once nobody rewrites it, but for jobs whose last adding failed |
| `customer` | 2 checks; 2 replicas, 2 hooks; 1 browser; 2 editors; 4 rows in pages of 2; 2 administrators or 2 sweeps, 1 export, 4 events | 4.7 M | alerts come once, deliveries are explained, the socket follows the login, pages show and save what they say, a walk through pages misses nothing it could have seen, a finished sweep or report has left nothing expired and nothing that was to be archived is gone unarchived, a policy in force is logged unless its request failed after saving it, exports miss nothing |
| `sign_in` | 2 requests in flight, 5 in all, 2 sessions, 3 tokens, 1 death; 2 attempts in flight, 4 in all, lock at 2 | 4.0 M | one live token per session, no orphan tokens, the alarm of a reused token is raised only for one whose exchange was answered, but for named cases; guesses are bounded, a lock runs its time, codes work once |
| `caches` | 2 requests about one user, one custom role and a starting server; 2 requests on 2 routes, 2 replicas, 2 organizations in a header, 2 changes, 1 failure or restart | 2.1 M | permissions cached when the requests are over are those of the database, and responses what some replica would answer, but for named races; nobody grants a role above his own |
| `tenancy` | 2 requests at a time, 3 in all, of one workload; 2 organizations, limit of 1 user | 699 k | users, departments and groups stay inside their organization; the limit is exceeded by fewer than the requests that overlap; whoever was switched off stays so, unless asked for or by a PUT that says nothing |
| `entrance` | 2 requests in each part, windows of 3 and 4 ticks, clocks 1 apart, 3 secrets, settings saved twice | 2.8 M | limits hold up to the skew of the clocks, handlers run only for whom the middlewares let through, a revoked key stays revoked, enrolments are whole, refusals are answered as such, no login goes around enforcement or an authenticator |

| run (violation) | what TLC finds |
|---|---|
| `account_allocate_not_found` | finding 1 of section 5 |
| `listeners` | finding 2 |
| `retention_sweep` | finding 3 (under weak fairness of the sweep's next step, with no failures) |
| `sms_login` | finding 4 |

**Why the bounds are enough.** Every race here is between two parties over one
document, key or event, and each run has two calls of any kind on one such
object. Two credits let a hold, a debit and an allocation compete; two attempts
and a threshold of two separate "first" from "last"; a limit of 1 with two calls
is the smallest at which both can be past the check; two replicas with two
changes of their data tell what one remembers from what the other does; one
death puts a half-done operation before a complete one, and the properties that
count deaths are stated with the counter and not with its bound. Bounds on
totals (`MaxIssued`, `MaxRequests`, `MaxTokens`, `MaxDay`, `MaxObjects`,
`MaxVersion`, ...) only stop the run; each is a guard of the action that grows.
The theorems of section 4 need none of these bounds.

**Conditional properties.** Several properties hold only while requests do not
overlap, because the code checks and then acts and nothing in it prevents the
race. They say so in their text (`"overlap" \notin seen`, `overwritten = {}`,
`overtaken`), and what remains true in the race is stated too (the account limit
is exceeded by fewer than the requests in flight; consumption never takes an
account past its allocation, though a PATCH may).

**Fairness.** `StripeWebhooks`: a handler nothing interrupts goes on (WF), and
Stripe repeats an unanswered event while the backend takes requests (SF, as
Stripe retries for days). `ContractRenewal`: WF of each scan and of the days; the
scheduler starts one scan a day. `Jobs`: WF of each job's worker, as BullMQ's
workers poll. `Lifecycle`: WF of the timer that forces the exit. The sweep of
`retention_sweep`: WF of its next step. Failures and deaths are never required
and their number is bounded: that finitely many happen is an assumption of the
liveness properties.

## 4. Proofs

Eight modules hold the theorems; each is checked to its last leaf by `tlapm`
(SMT, Zenon, LS4). A theorem is about the specification of one component, with
every constant left open but for the named assumptions, so the bounds of
section 3 play no part. A proof goes the same way everywhere: an inductive
invariant, checked by TLC on the instance of the run before it was proved; one
lemma per action, with a step per conjunct that the action can disturb; a
temporal step (PTL) at the end.

| module | theorems | property of a run |
|---|---|---|
| `CreditProofs` | `TypeCorrect`, `FrozenBudgets`, `TransactionsKeepTheBooks`, `BudgetsMatch`, `ChargesHaveACard` | |
| | `Reservations`, `Audit`, `AllocationLimit` | `ReservedIsCovered`, `LedgerReconciles`, `AllocationRespectsLimit` |
| | `FlowIsImplemented`, `TransactionsAreOperations` | `ImplementsFlow`, `ImplementsLedger` |
| | `RecordsAgree`, `PlanIsKept`, `ChangesAgree` | `RecordsExplainAccounts`, `AccountsFitThePlan`, `AnsweredChangeAgrees` |
| `BillingProofs` | `PaymentsAreBooked`, `RenewalsAddUp` | `PaymentsAreApplied`, `RenewalsAreAccounted` |
| `PlatformProofs` | `OrderlyShutdown`, `JobsStayScheduled`, `JobsKeepTheirCharges` | `ShutdownIsOrderly`, `QuietMeansScheduled`, `JobsAreAccounted` |
| `CustomerProofs` | `SocketFollowsLogin`, `AlertsComeOnce`, `DeliveriesAddUp` | `SocketMatchesLogin`, `LevelsAreAlertedOnce`, `DeliveriesAreExplained` |
| | `RetentionKeepsItsWord`, `PolicyChangesAreLogged`, `ExportsMissNothing` | `RetentionHolds`, `PolicyIsLogged`, `ExportMissesNothing` |
| | `FormsTellTheTruth`, `WalksMissNothing` | `PagesAreHonest`, `WalkSeesAll` |
| `SignInProofs` | `SessionsTellTheirTokens`, `OneTokenAtATime`, `AlarmsHaveACause` | `TokensMatchSessions`, its first conjunct, `AlarmMeansExchanged` |
| | `GuessingHolds`, `LocksRunTheirTime` | `GuessingIsBounded`, `LockIsStable` |
| `CachesProofs` | `ResponsesStayCoherent`, `PermissionsStayFresh`, `RolesHaveACeiling` | `SettledIsCoherent`, `SettledPermissionsAreFresh`, `RolesStayUnderTheirCeiling` |
| `TenancyProofs` | `TenantsStayApart`, `ProvisioningIsBounded` | `TenantIsolation`, `ProvisioningHolds` |
| `EntranceProofs` | `HandlersAreGuarded`, `RevocationHolds`, `LimiterKeepsItsLimits` | `HandledMeansAllowed`, `RevokedStaysRevoked`, `LimitsAreKept` |
| | `EnrolmentIsWhole`, `SignInStaysGuarded`, `RefusalsAreAnswered` | `EnrolmentHolds`, `SignInIsGuarded`, `RefusalsAreNotFaults` |

**Credits.** Types alone are not inductive: that a commit or a consumption
leaves nothing below zero rests on holds being covered and use staying within
allocation. `IInv` is `TypeOK` with the four reconciliations of stored totals
with rows, for an account from what was last stated on (`opening`): a PATCH that
changes a counter states both, one that changes none leaves the statement as it
is, whatever it had read. From it follow the refinement of the flow
(`CreditFlow`, which says that credits are only granted, moved, spent or stated)
and every property of the operations. For the transactions, `TxnInv` adds that a
session that will commit has read what the documents still hold, unless its
snapshot is stale and it will abort, and that what it has written is locked; so
a commit is one step of `CreditLedger`, and the theorems about the operations
carry over (`TransactionsKeepTheBooks`). `BudgetInv`: counters agree with what
they were created with and the rows, and a running merge holds counters that
were read together. The proof attempt showed `BudgetMatchesRows` false when a
PATCH sets the counters, which the run could not show with the patches it was
given; the property now excepts that by name and the run's patches include it.
`RatesInv`: a clerk's read was in force, and a card once known stays known.
`PlanInv`: accounts and the requests past the check stay below the limit and the
number of requests, which carries the bound of the overrun through a downgrade;
what is billed at Stripe is what is stored unless a request is between the two.

**Billing.** `WebhooksInv`: a handler in flight is the only one of its event
unless deliveries overlapped, credits are due for what it has read, and an
answered event is done. `RenewalInv` has a part for each thing a scan holds
between its awaits (its list, the document, the attempt it counted) and for each
promise: terms and documents paid, grants extended with them, attempts and grace
periods explained by failures, reminders recorded. `SuspensionNeedsFailures` was
false when scans overlap, which the proof showed: one failure may be counted by
two scans; the property says so now.

**Platform.** `ProcessInv` orders boot and callbacks, and says what each has let
go. `SchedulerInv`: the list that a replica works down, what it has put in place
and what a crash forgot cover all jobs but those that an error has left out and
nobody has added since (`unregistered`). `JobsInv`: charges left, the charge that
precedes each completion, and that every job is somewhere, where the letter of a
dead job may be swept.

**Customer.** The socket in place or on the way is that of the credentials
committed; while checks do not overlap, what a check read is current and what
was sent was queued or has a failed job under its id; each delivery has posts
that its attempts and restarts explain. `AuditInv`: a cutoff lies before the
clock and new events are stamped by the clock, so what a run or a report claims
stays true; a run past its archive phase has nothing left to archive; a policy
in force is in the log, or a change between its write and its log entry will
read it, or it was a request that ended in between (`unlogged`). For exports the
argument is about pages by offset: a matching event alone at its instant is
fetched, or at least as many matching rows are newer as lie before the next
page, because what retention deletes is older than what stays. `PagesInv` ties
what a form may lose to where its load and save are; `FormInv` does the same for
the address and the notice of the login page. `WalkInv` is the offset argument
again for lists that grow at the head: an unseen row has at least as many newer
ones as lie before the page, and if a page does not show it the page is full.

**Sign-in.** `LoginInv` counts with cardinalities: wrong secrets taken are at
most those counted, those being counted, and those lost to a death; the codes
spent, the counters that have a time to live, and the requests that a lock
overtook. `TokensInv`: of a session one token is live or being exchanged.
`CausesInv`: a used token is under its marker with the request that consumed it,
or that has ended, with an answer (`exchanged`) or without (`unanswered`), or a
logout has blacklisted it, and then no refresh is about to consume it but one
that was ahead of the logout (`overtaken`).
`RecordsInv` adds, for the session records: a live token that its record does
not name is on the hands of a request (`Holds`: issued by it, about to be
deleted by it, or one of all that a revocation is about to end) or its session
is marked as crossed; a login works on a session nobody else has; records and
index name the same sessions while nothing crossed; and a login that has chosen
whom to evict leaves room for its own (`RoomFor`), by cardinalities again.

**Caches, tenancy, entrance.** What a request knows is tied to the stages it has
left: a set of permissions that nobody touched since is what the database gives,
and a cached response what a replica would answer, where an entry of one
organization is reached only through its own tag; a request about to write has
established what its stages check (`Ready`); a request that has passed a
middleware has that middleware's guarantee or the world changed since.
`CeilingInv`: a request about to write a role held its permissions against a
level that the role has had or will have, levels lie below the top, and
documents that are half a seed's and half a request's are decided grant by
grant. `WindowInv` (the limiter): scores differ from real time by the delay and
the clocks at most, what passed is in the sorted set while anything may still
count it, and what is in the set has passed while anything depends on it; then a
script that finds room finds every entry of the stretch the new one falls in,
and one that refuses has counted only entries that passed. `FactorsInv`: a
handler that nobody wrote beside knows the document as its write needs it; a
mail of a day means a mark or a job about to set it. `SsoInv`: the history of a
login says it was barred, armed or keyed only if each check it passed was made
in force, and one that is keyed has met a document with an authenticator, before
which only the right code passes.

**Assumptions.** Each is named in the module that declares the constant and TLC
evaluates it in the run of that module: amounts and limits are naturals, and an
amount is positive (the validators); an account has one organization; sessions
and documents are told apart; limits, thresholds and numbers of attempts are
positive (configuration and its defaults); requests, visitors and rows are
finite sets; the page asks for no more than the server grants (50 of 500); the
clocks of replicas differ by a bounded skew and a script runs within a bounded
delay; spans are numbers of days; saved policies passed their validator; there
is a replica; a document is not the absent one; a body passed its
validator; levels, fallback roles and old permissions are those the seeds have.

**What stays with TLC, and why.** Liveness (`EveryPurchaseIsCredited`,
`DueIsSettled`, `EveryJobEnds`, `ShutdownEnds`) needs ENABLED, which no backend
here does. The four violation runs state what the code breaks. Induction over
data is not needed: the models keep running sums, counters and sets of entries
where a sum over a sequence or a bag would need it. Every other property of a
run is a theorem.

## 5. What the checks found

1. **Allocating to an account always answers 404**
   (`credit-allocation.service.ts:56`, run `account_allocate_not_found`). The
   organization and account ids are passed to the validator in the wrong order;
   the unit tests stub the validator. The other runs set `ValidatorStubbed` to
   see what the rest of the service does.
2. **Listeners that mount before the socket hear nothing**
   (`src/src/services/socket.ts:89`, run `listeners`). `subscribe` on a missing
   socket is dropped, and the listeners of a socket that is closed go with it;
   the page does not subscribe again.
3. **The archive loop of retention never ends** (`retention.service.ts:311`, run
   `retention_sweep`). It reads the oldest expired batch until there is none, and
   deletes nothing in the loop.
4. **SMS login codes are never sent** (`auth.service.ts:713`, run `sms_login`).
   The stored number is encrypted in a field that the login does not select.

Met while modelling. The repository states nothing they contradict, a property
excepts them by name, or the part is not modelled:

- *Credits.* A PATCH of an account writes back counters it read earlier, and
  may set them itself, as creating one does (`account.service.ts:51`, `:107`,
  `account.validation.ts:20`): no ledger row then explains them, and no limit
  holds;
  an allocation row is positive although the pool falls
  (`credit-allocation.service.ts:165`), so a statement's summary counts it as
  credit in; a rate of 0 makes consumption refuse ("No credit rate
  configured"); a partial PUT of rates replaces all former overrides. Usage rows
  cast ObjectIds to `uuid` (`timescale.ts:189`), so with Timescale every insert
  fails and is swallowed.
- *Billing.* Overlapping deliveries of one payment credit it twice
  (`credit-purchase.service.ts:148`; its comment calls the handler idempotent);
  a repeated `invoice.paid` counts twice and reactivates
  (`stripe-webhook.service.ts:119`); subscribing again leaves the first
  subscription running at Stripe (`stripe.service.ts:122`). Overlapping scans
  count each other's unfinished attempts, so that one failure may suspend a
  contract; a grace period is ended also for contracts that no longer renew.
- *Platform.* Shutdown disconnects MongoDB before it closes the workers
  (`server.ts:191`); jobs marked immediate run at every start; overrides of the
  schedule live in one replica's memory; credit summaries and weekly reports
  fall through to the expiry service; a failed connection to MongoDB at start
  skips the stores that need it; a registration that fails at start is swallowed
  (`server.ts:132`), and a rewrite that fails after the removal leaves its job
  unscheduled until somebody adds it again (`scheduler.routes.ts:57`).
- *Signing in.* The refresh cookie is never read, since cookie-parser is
  imported and not used (`app.ts:12`), and with it every request passes the CSRF
  check; the revocation epoch is in whole seconds
  (`token-blacklist.service.ts:100`); saving a policy restarts the grace period
  (`mfa-policy.service.ts:73`); disabling the provider while sign-on is enforced
  locks everybody out; a user with SMS alone comes in with any code sent as one
  of an authenticator or as a backup code, because `verifyLoginMfa` passes whoever
  has no TOTP secret (`mfa.service.ts:273`, `auth.service.ts:345`), although
  `auth.service.ts:248` says "still enforces MFA"; repeating a refresh whose
  answer was lost ends every session, once the marker of five seconds is gone
  (`auth.service.ts:439`); SSO callbacks answer 500 where a second factor is
  required; the login page hides the password from users with emergency access
  (`LoginPage.tsx:191`).
- *Access.* Roles are seeded before Redis is connected (`server.ts:68`, `:97`),
  which makes the invalidation of their permissions void; permissions computed
  before a change are stored after it (`permission-cache.service.ts:56`);
  deleting a role invalidates nothing; a change of a role's level alone is not
  checked against the level of who makes it (`role.service.ts:187`); two
  rotations of one API key at a time hand out a secret that never works; a SCIM
  PUT that leaves `active` out reactivates a user (`scim.mapper.ts:66`).
- *Response cache.* Hooks and delivery logs are in the memory of each replica
  and the cached responses in the Redis of all, so that a replica serves what
  another one remembers, also after a restart has emptied its memory
  (`webhook.repository.ts:10`); a response filed under the organization of a
  header is out of reach of the invalidation for the one of the query
  (`tenant-resolver.ts:11`, `webhook.controller.ts:37`); the middleware is mounted
  before the one that checks the token (`app.ts:123`, `:139`), so that a hit is
  served unchecked: `HandledMeansAllowed` is about handlers that run.
- *Audit.* The Mongoose audit plugin is applied to a list of models that is
  empty (`apply-audit-plugins.ts:27`, `server.ts:65`); a failed deletion in
  OpenSearch is swallowed; a sweep that throws loses its counts; the answer 400
  of an export whose log entry failed hides a queued job, and that of a policy
  whose read after the write failed a policy that is saved and not logged
  (`retention.service.ts:130`, `retention.controller.ts:76`); an export of more
  than 10000 rows asks for a page beyond the window of OpenSearch (page 21 of
  500) and fails, though `audit-export.service.ts:65` promises a job and a link.
- *Customer.* An alert job that failed for good blocks its id, and the level is
  stored as alerted all the same (`credit-alert.service.ts:289`); overlapping
  alert checks overwrite each other's levels; a delivery job taken by another
  replica, or after a restart, completes silently unposted
  (`webhook.service.ts:161`). In the web client a refresh that is in flight over
  a sign-out signs in again, a failed refresh wipes a newer login, and answers
  of an older filter overwrite newer ones; a form whose load failed shows
  defaults and can save them; rows recorded between the count and the page make
  `has_more` false.

## 6. Not modelled, and the plan

- *Database, search and storage clients, validation, encryption, cookies,
  configuration*: they hold no state of their own beyond a connection, or are
  pure functions; where a model depends on what one does (a cast that fails, a
  field that is unset, a write that is refused) the action that calls it says so.
- *The Mongoose audit plugin*: applied to no model (section 5).
- *BullMQ's own limit on stalled jobs* (a job whose worker died twice fails
  without a throw): out of reach of `platform` with its one death.
- *The organization field of the login page*, which restarts the timer of its
  lookup as the address does: data of `Pages`.
- *Agents, connectors, approval by people, files, search*: routes over single
  documents, without an order between requests that their code relies on; what
  they queue is modelled in `Jobs`, what they charge in `CreditTxn`.
- *Deployment*: scripts and manifests.

Next: abstract specifications, as `CreditFlow` is for the store, of the session
store and of the response cache, with their refinements as theorems; and
properties that bound the damage of the divergences of section 5 that no
property speaks of (repeated invoices, a second subscription).
