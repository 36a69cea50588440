# Echo Ramp: a TLA+ model

Echo Ramp is a Node/Fastify server that takes a user from KYC to an on-ramp or
off-ramp order. It never holds money: it keeps rows in PostgreSQL and talks to a
KYC provider (Sumsub), a compliance and routing partner (Lydiam) and a bank
(BCB). The heart of the program is the state of a *session*, which many
handlers move, and every handler is a chain of `await`ed SQL statements with no
transaction and no row lock. This project models those handlers statement by
statement.

Paths below are relative to the repository (`src/` is its source directory).

## 1. Inventory

| Component | State | Operations | Modelled in |
|---|---|---|---|
| Session state machine (`src/domain/session-state-machine.ts`) | none | `allowedTargets`, `checkPrerequisites`, `assertCanTransition`, `initialSessionState` | `SessionStateMachine` |
| Transition service (`src/services/session-state-machine.service.ts`, `sessions`, `session-context` and `ledger` repositories) | `sessions.state`, `ledger_events` | `transition`, `transitionEligibleSessionsForUser` | `TransitionService`, `SessionTransitions` |
| Session creation (`src/services/session.service.ts`) | `sessions`, `end_users` | `createSession` | the first state in `TransitionService`, the lookup by key and the insert in `Idempotency` |
| Onboarding (`src/services/compliance.service.ts`, Sumsub webhook) | KYC profiles, submissions, named accounts | `handleKycWebhook`, `submitToPartner`, `provisionNamedAccountIfNeeded` | `Onboarding` |
| Quotes (`src/services/quote.service.ts`) | `quotes` | request, accept, expire | `SettlementJobs`, `Settlement` |
| Orders (`src/services/order.service.ts`) | `orders`, the provider's orders | `submitOrder` | `SettlementJobs`, `Settlement` |
| Order status poll (`src/queue/processors/order-status.processor.ts`) | `orders` | `processOrderStatusUpdate` | `SettlementJobs`, `Settlement` |
| BCB deposits (`src/api/webhooks/bcb.ts`, `src/queue/processors/bcb-deposit.processor.ts`) | `webhook_inbox`, `orders`, ledger | `handleBcbWebhook`, `processBcbDeposit` | `SettlementJobs`, `Settlement` |
| Idempotency middleware (`src/middleware/idempotency.ts`) | `idempotency_keys` | look up, run, store | `Idempotency` |
| Migrations and development seed (`src/db/migrate.ts`, `src/db/seed.ts`) | `schema_migrations`, the schema, `integrator_accounts` | `runMigrations`, `seedDevIntegrator` | `Deployment`, `Schema` |
| The composed server (`src/app.ts`) | all of the above but the last two | the handlers together | `Ramp` |
| Authentication, JWT, non-custody guard | none shared | checks on one request | not modelled |
| Webhook dispatcher, Redis queue, wallet/bank/transfer routes, other vendor adapters | in-memory log, stubs | | not modelled |

How they interact: the onboarding, quote, order, poll and deposit handlers call
`transition()` and otherwise share state only through tables. A handler reads a
row, awaits, and uses the copy; another handler may have changed the row. The
routing provider decides on an order, and fills it, when it likes; the bank
repeats deliveries; a statement may fail between two others.

What makes each part correct:

* **state machine and service**: a session never stands past a gate (KYC,
  compliance, account, wallet) its user has not passed; it moves along the graph;
  terminal states are final; the ledger tells what happened.
* **onboarding**: one account per user, which stays active; no session is left
  behind; a repeated delivery completes a broken one.
* **settlement**: a session is filled by its settlement and by nothing else; an
  order row never says what the provider did not, and fails on a rejection only; a
  verdict once written stays; deposits are processed, and passed to the session that
  waits for them.
* **idempotency**: a request repeated with its key does not make a second session
  or order, and gets the answer of the first.
* **migrations**: the schema is never half-built or out of step with its record; a
  run that died blocks no later one; runs that race leave a complete schema.
* **the whole**: the handlers, on top of each other, are no worse than arbitrary
  callers of the transition service; nothing is ordered for a user who has not
  passed every gate.

## 2. Modules

```
SessionStateMachine          pure rules
  |- SessionLifecycle        abstract: what the service promises of a session
  `- TransitionService       transition() as steps; no Init or Next
       |- SettlementJobs          quotes, orders, poll, deposits; no Init or Next
       |    |- SettlementJobsProofs    lemmas: each step of a job, beside anything
       |    `- Settlement              the jobs for users past onboarding
       |         `- SettlementProofs
       |- SessionGates            the gates a session's user has passed
       |    |- SessionGatesProofs      lemmas: each step of the service keeps them
       |    |- SessionTransitions      under arbitrary callers; refines SessionLifecycle
       |    |    `- SessionTransitionsProofs
       |    `- Onboarding              the KYC webhook
       |         `- OnboardingProofs
       `- Ramp                    SessionGates, SettlementJobs and Onboarding (INSTANCE)
            `- RampProofs         together; refines SessionTransitions
Idempotency                  requests with a key, around two handlers
  `- IdempotencyProofs
Schema                       abstract: migrations, one at a time and at once
  `- Deployment              migrations and the development seed; refines Schema
       `- DeploymentProofs
MCSessionTransitions, MCOnboarding, MCSettlement, MCRamp, MCIdempotency, MCDeployment
                             constants for TLC
```

**SessionStateMachine** transcribes the domain module. `BASE_TRANSITIONS` is the
table of the code; `checkPrerequisites` returns the set of missing prerequisites;
`assertCanTransition` returns `"ok"` or the code of the error thrown.

**TransitionService** is `transition()`: `FindSession` (SELECT, and the early
return when the session is already there), `LoadFlags` (the four flag queries and
the assertion), `UpdateState` (an UPDATE with no condition on the state that was
read), `AppendEvent` (the ledger INSERT). A worker is an activation of a handler;
`call[p]` is its frame and holds the state it read. `QueryFails` is a statement
that fails, or a crash: what earlier statements wrote stays. The four queries of
`loadUserFlags` run in parallel and are one step here, because every target state
has at most one flag to check; the order lookup reads a value nobody uses.

**SessionGates** says which facts must have been true of a user before a session of
theirs can stand in a state, over `everHeld`, a history of the facts that have ever
been true. `SessionTransitions`, `Onboarding` and `Ramp` share it.

**SessionTransitions** lets any caller ask for any transition at any time and
lets facts about users (`everHeld`) come true between any two steps. The newest
submission, and the account row a LIMIT without ORDER BY happens to take, may
stop being favourable again, so those flags may be read false after they were
true. What is shown here holds for every order of the real handlers' calls.

**SessionLifecycle** has no calls and no queries: a session is created, moves
along one edge whose facts are granted, and each move is recorded before the next.

**Onboarding** is `handleKycWebhook` to its end. Its five runs of
`transitionEligibleSessionsForUser` share three actions, `FindSessions`,
`NextSession` and `SessionMoved`; `After` is the code between the loops. The partner
may give every answer the code distinguishes. What comes of a request to the bank is
one of six things, and `provisionNamedAccount` says what the adapter and the service
make of it: no token for want of credentials or because they were refused, an error,
all of which the code swallows; an account accepted or created without its IBAN, which
is pending; one created with its IBAN, which is active. `JobFails` is a statement
outside `transition()` that fails, or the process dying; `broken` records that a
delivery has failed half-way. The later `updateSubmissionStatus(approved)` has no
action: the row was inserted with that status.

**SettlementJobs** runs the quote, order, poll and deposit handlers as jobs of
workers over `quotes`, `orders`, `provider`, `inbox` and `credited` (the
`fiat_deposit` events). It says nothing of how a session came to trade and has no
initial states: **Settlement** starts it for a user who has passed onboarding, `Ramp`
beside the onboarding itself. `ProviderDecides` and
`ProviderFills` are the routing partner, external: it decides once and never
rejects what it has filled. It may say what it thinks of an order already in its answer
to the submission, or not at all (`PlaceOrder`, `Reported`): `CreateOrder` writes that
answer to the row, and asks for `compliance_pending` whatever it was. A poll's answer may
leave the verdict out too. The repository's stand-in for the partner is narrower: it
answers every submission with `pending` and then clears and fills in one go. The adapter's
types and the handlers' branches allow the rest, and the model lets all of it happen.
Deliveries refused for their
signature, or without a credit, leave an inbox row and do nothing else: left out.

**Idempotency** is the life of a request with an `Idempotency-Key`: `FindKey` (the
preHandler, which replays a record that is fresh), the handler, and `SendAnswer` (the
onSend hook, which upserts the answer before it is sent). Two handlers stand for all:
`createSession`, which looks the key up again among the sessions (`FindSession`) and
inserts under a unique constraint (`InsertSession`), and `submitOrder`, which has
neither (`CheckQuote`, `PlaceOrder`, `RecordOrder`). `made` counts the sessions, or the
orders at the provider, made for a key. `SendUnstored` is the store failing, which is
only logged; `RequestFails` is a 500, which is not stored, or a crash; `Expire` is the
24 hours going by. A replayed answer is stored again and lives another 24 hours, as in
the code. `excuses` is a history variable: it counts, for each key, the requests begun
while another was in flight, those that failed or were not recorded, and the
expiries.

**Deployment** is `runMigrations` followed by `seedDevIntegrator`, as `npm run
setup:dev` chains them and as each of the two files of integration tests, which run at
the same time against one database, does first. The server itself migrates nothing
when it starts. `CREATE TABLE IF NOT EXISTS` looks (`FindTable`) and creates
(`CreateTable`), and fails on a table that came into being in between; the applied
versions are read once (`ReadApplied`) and used to the end. A migration is `Begin`,
`RunSql`, `Record`, `Commit` or `Rollback`. Two open transactions that create the same
objects cannot both go on: `RunSql` waits for the other's outcome and then fails on
what it finds (`Fits`). PostgreSQL is external; that its transactions and unique
catalogue entries do this is what the code relies on. `Fails` and `FailsCommitted` are a
statement that fails or a process that dies, the second after a COMMIT whose answer is
lost. The seed looks for the integrator and inserts it; its table has no unique
constraint on the key, so two seeds may both insert, and `raced` counts those that
looked while another was about to. **Schema** is what the runners are to add up to:
no processes and no transactions, each version built and recorded in one step.

**Ramp** composes `Onboarding` (an INSTANCE) and `SettlementJobs` over the same
sessions, workers and transition service. A worker runs one handler at a time, of either kind.
Where `Settlement` alone begins with a user who has passed every gate, here a quote may
be asked for and an order submitted in the middle of KYC, and `LoadFlags` reads what
`Onboarding` wrote, whoever called `transition()`. A deposit is for a known account only
once the bank has given one its number (`Known`), which the row then keeps. Sessions are off-ramp, for no route inserts a
wallet and without one the service lets no on-ramp session trade.

## 3. Runs

| Run | Instance | Shows |
|---|---|---|
| `transitions_concurrent` | 1 on-ramp session, 2 workers, failing queries, the calls of the code | `OnboardingGates`: two overlapping, failing calls never take a session past a gate. `OnlyStaleWritesJump`: a session leaves the graph only under a call that read another state. |
| `transitions_serial` | 2 sessions (on-ramp, wallet only) of a user, 1 worker, any call | The service implements `SessionLifecycle`, its fairness included, and `AuditComplete`. |
| `onboarding_serial` | 3 sessions, one wallet only, 4 deliveries one at a time that may fail anywhere, every answer of partner and bank | `OneAccount`, `ActiveAccountStays`; `RedeliveryCompletes`: what a failed delivery left half-done the next completes; `NobodyWaitsForActiveAccount`; `ApprovalOnboards` (liveness): the sessions of a first approval get to their bank link unless partner or bank said no or a delivery failed. |
| `ramp` | 1 off-ramp session from creation to fill, 2 workers, failing queries, 1 delivery, quote and order, 1 deposit to the user's account or to an unknown one | `ServiceSpec`: whatever the handlers overlap on, they are callers in the sense of `SessionTransitions`, so what is proved there holds of the server. `OrdersBehindGates`: no order is placed or recorded for a user who has not passed KYC, partner and bank, although `submitOrder` asks none of it. `FilledOnSettlement` and `RowsMatchProvider` for sessions onboarded beside the trade. |
| `settlement_both` | an off-ramp and a newer on-ramp session, 1 worker, 2 quotes, 2 orders, 1 delivery, no failure | `FilledOnSettlement` in both directions, with the deposit matched to the newest session with an order; `IdleServerProcessed`: no delivery gets stuck half-way; `NonePassedOver`: none is marked processed while a session of its user waits for one; `DeliveriesProcessed`, `DepositFillsClearedOrder` (liveness). |
| `settlement_race` | 1 off-ramp session, 2 workers, failing queries, 1 order, 2 deliveries | `FilledOnSettlement`, `RowsMatchProvider`, `FillsAreDelivered` when any two handlers overlap at any await, for every answer the partner may give to submission and poll; `FailedOnRejection`: a session is failed on a rejection only; `VerdictStays`: no late write of a poll or deposit takes back a verdict, whether it came with the submission or with a poll, and a rejected order is at most marked failed. |
| `idempotency` | 3 keys (session, order, bad body), 3 workers, 4 requests, 2 expiries, failures anywhere | `OneSessionPerKey`: one session and one answer per key; `ExtraOrdersExcused`: every order beyond the first has an overlap, a failure or an expiry of its own; `RepeatsAgree`: as long as there was none, all answers for a key are one answer, a refusal too. |
| `deployment` | 3 runners, 4 processes, 3 migrations, failing anywhere | `SchemaIsRecorded`, `FinishedMeansCurrent`, `OnlyRacesConflict`: a migration fails only on what another runner committed meanwhile, so a dead run blocks none; `RaceHasWinner`; `SeedsExcused`; `SchemaSpec`: the runners together implement `Schema`; `RunnersEnd` (liveness): nobody waits for ever for another's transaction. |
| `resurrected` | 2 workers, 2 orders | expected violation of `TerminalIsFinal` |
| `processed_once` | 2 workers, one order key, nothing fails or expires | expected violation of `ProcessedOnce` |
| `unfilled` | 1 worker | expected violation of `FilledStaysFilled` |
| `two_accounts` | 2 workers, 2 deliveries | expected violation of `OneAccount` |

**Bounds.** `MaxQuotes`, `MaxOrders`, `MaxInbox`, `MaxWebhooks` and `MaxAccounts` cap
rows and deliveries in the guards; jobs under way that will still insert a row
count. `MaxLapses` bounds how many quotes lapse (none in `settlement_both` and
`ramp`, to keep them small: `settlement_race` has the lapse), `MaxRequests` and `MaxExpiries` the
requests and expiries of `Idempotency`: four requests let three overlap and one come
after the record is gone. One or two sessions suffice because handlers touch the sessions of one
user, and sessions of different users share nothing; two are needed where the
newest is taken first. Two workers suffice for a stale read: one reads, the other
writes, the first writes. A third would repeat one of the two. Two deliveries are
the least for a repetition; two orders the least for an old and a new one. Four
deliveries in `onboarding_serial` let three fail at different places before one that
does not. In `Deployment`, `MaxStarts` bounds the processes: three race and a fourth
comes after they ended or died; three migrations give one before and one after the one
that is raced for. `ramp` is one session, quote, order and delivery of each kind, with
both workers free to take any handler: what it asks is how a trade overlaps its own
user's onboarding; `RampProofs` has the rest.

Some situations are beyond these bounds and rest on the proofs alone: the server with two
accounts or two KYC deliveries of a user (`ImplementsService`; the service under such
callers is in `transitions_concurrent`), two usable quotes while handlers overlap
(`FillsAreSettled`; `settlement_both` has two quotes in sequence), two orders of one
session with repeated or half-done deliveries to fill them (`FillsDelivered`, `VerdictsStay`;
the run that overlaps deliveries has one order), and, when one worker handles deliveries,
those to unknown accounts (`DeliveriesHandled`; `ramp` has such a delivery).

**Fairness.** Only the liveness runs state any: a job under way is resumed when
its statement has been answered (`WF_vars(Work(p))`, in `Deployment` `WF_vars(Step(r))`
for the process of a runner), which is the event loop of Node and the answer PostgreSQL
gives or the driver's timeout gives for it. Nothing is assumed of clients, of the partner's verdicts or
of the bank: no one has to ask for a quote or send a deposit. A liveness property speaks only of
a job already under way; where the run lets things fail, either the failure ends the
job, which is what `RunnersEnd` asks, or the property excuses it (`broken`). `CHECK_DEADLOCK` is off in the
bounded models, where the server idles once the bounds are used up.

**What the violations say.** *resurrected*: `transition()` checks a state and
overwrites whatever is there by then, so a session that a rejection failed comes
back when another call for it was past its check. *processed_once*:
nothing reserves a key while its first request runs, so a client that repeats a slow
request places two orders; the API design promises exactly-once processing. *unfilled*: the poll
writes `submitted` over `filled`, because the clearance branch comes first and
looks at no row. *two_accounts*: overlapping KYC deliveries each insert an account,
and the table lacks the unique constraint of the database design.

**Seen while modelling, not stated as runs.** A failed ledger insert leaves a state
change unrecorded (`AuditComplete` fails once queries may fail). A second quote does
not expire the first (Database Design says only one is active). An order is accepted
on a quote that is only ready or has lapsed, and for a session a rejection has
failed. A deposit before the order is processed and recorded nowhere; one
delivered twice is credited twice, for its transaction id is never looked up. An order
that was placed but whose session could not move is answered as refused, and the
refusal is stored and replayed. A 500 after the order was placed is not stored, so
that the retry places another. A key is looked up without its path. A returning
user starts in `kyc_required` again, and after a second webhook stops in
`compliance_handoff_ok`, for the branch of an active account moves only sessions that
are in `named_account_pending`. An on-ramp order that is cleared when the poll first
sees it is never filled. An order the partner rejects as it takes it is recorded as
rejected, but its status and its session go to `compliance_pending` like any other's, and
stay there until somebody polls. The routing adapter keeps its orders in memory, so that after
a restart every poll of an earlier order throws. The bank's token is used from the cache
whatever the bank thinks of it. A replayed answer passes the `onSend` hook like any
other and is stored with a new expiry, and the client token in it with it. Two seeds
that race leave two integrators with one key. The newest submission speaks for a user: a
delivery answered `pending` hides the approval an overlapping one got, whose sessions then
stay where they are until the next delivery.

## 4. Proofs

Every theorem is for all values of the constants (sessions, users, workers, directions,
answers, bounds, guards strict or relaxed, statements failing or not, but where a theorem
names its conditions) under the named assumptions of its modules, and under no bound of a
run. The assumptions say what the
constants are, not what the program does: which sets they come from, that `Absent` is no
state, that sets of workers or runners are finite where they are counted.

**The gates** (`SessionGatesProofs`, `SessionTransitionsProofs`)

* `TypeCorrect`: `Spec => []TypeOK`;
* `GatesHold`: `Spec => []OnboardingGates`;
* `JumpsAreStale`: `Spec => OnlyStaleWritesJump`.

`OnboardingGates` is not inductive: what a call is about to write must be right
too, although the session may be in quite another state by then. `GateInv` says
of each call in flight that the facts of the state *it read* are established, and, once it
is past the assertion, those of its target as well. The argument: facts once
established stay so in `everHeld`; the assertion gives that an accepted edge adds
exactly the facts it checks (`EdgeMeetsItsGate`, a lemma about the pure rules);
therefore writing the target is sound over *any* current state. `created` must never be
reached, because from there a user would start past KYC; nothing leads there. Each step
of the service keeps `GateInv` by a lemma of its own, so that `RampProofs` uses the
same lemmas for the real handlers.

**Calls that do not overlap** (`SessionTransitionsProofs`)

* `AuditKept`: without failures, `Spec /\ []OneCallPerSession => []AuditComplete`;
* `ImplementsLifecycle`: under the same condition, `Spec` implies the initial states
  and the steps of `SessionLifecycle`.

`OneCallPerSession` says that no two calls in flight are for one session; calls for
different sessions overlap freely, which `transitions_serial` with its one worker does not
show. What a call read is then still so when it writes (`FreshFrame`), and a session
whose ledger is behind has exactly the call that is about to append (`Recorded`). The
condition is not met by the program as it is: it is what a row lock in `transition()`
would give, and `resurrected` is what happens without.

**Onboarding** (`OnboardingProofs`)

* `TypesAreRight`: `Spec => []TypeOK`;
* `OneAccountEach`: `Spec /\ []OneDeliveryPerUser => []OneAccount`;
* `NobodyLeftWaiting`: the same for `NobodyWaitsForActiveAccount`;
* `ActiveStays`: the same for `ActiveAccountStays`;
* `RedeliveryHeals`: the same for `RedeliveryCompletes`.

`OneDeliveryPerUser`: no user has two deliveries under way; those of different users
overlap, and everything may fail. `two_accounts` is the counterexample without the
condition. The invariant is what a delivery still knows to be so: the account row it found
is the user's only one and not active (`AccountOK`), the sessions it has yet to move are
where its loop found them (`TodoOK`), the call under way is for one of them (`CallOK`).
`Waits` says that a session waiting for an active account is one some delivery has yet to
move. Its last step needs that the call which moves it is accepted: with one row the flag
cannot be read false (`ActiveFlag`), so the rules let it through (`BankLinkAccepted`).

`RedeliveryHeals` adds to the invariant, in `RInv`, what a delivery has left behind: no
session where a loop it is through takes sessions from (`Emptied`), and in the loop under
way none that it is not to move, moving, or about to fail for (`NoneMissed`). The loops
pass over `invalid_transition`; that loses no session, because the edge each of them asks
for is always in the graph (`LoopEdge`).

**Settlement** (`SettlementJobsProofs`, `SettlementProofs`), with any handlers
overlapping and failing

* `SettlementTypes`: `Spec => []TypeOK`;
* `RowsMatch`: `Spec => []RowsMatchProvider`;
* `FillsAreSettled`: `Spec => []FilledOnSettlement`;
* `FailuresAreRejections`: `Spec => []FailedOnRejection`;
* `FillsDelivered`: `Spec => []FillsAreDelivered`;
* `VerdictsStay`: `Spec => VerdictStays`.

A handler writes what it read some awaits ago. What is proved survives it because
the facts relied on never go back (`Grows`): an order keeps its session and its provider
order, the provider decides once, a fill and a credit are never undone. `JobOK` says what
each job relies on, and `Warranted` what a session that is filled or failed stands on, and
a call that is about to make it so: the settlement (`Settled`), or a rejected order.
`FillsAreDelivered` counts: orders filled and fills about to be made are no more than the
credits of their session (`Backed`), because a delivery is credited at most once and by
one job (`Fresh`). `VerdictStays` holds although polls overlap because the submission and
every poll that has a verdict to write have the same one: the partner decides once, and
`JobOK` keeps what a job has been told equal to that (`RowsMatchProvider` is the same of
the rows). The lemmas are about `TradeStep`, a step of a job or
of the provider, and `Elsewhere`, all that anything else may do to sessions and calls
(`ServiceMoves`), so that `Ramp` uses them with onboarding as what is elsewhere.

*Calls that take turns*: `TerminalUnlessOverlap`,
`Spec /\ []OneCallPerSession => TerminalIsFinal`, with anything failing and
any copies stale. The run `resurrected` violates `TerminalIsFinal`; the theorem says that the
overlap of two calls of `transition()` for one session is the whole cause, so that a row
lock held from the SELECT to the UPDATE would mend it.

*One delivery at a time*: with `Workers = {w}`, no failure and the strict graph,

* `DeliveriesHandled`: `Spec => []IdleServerProcessed`;
* `NoSessionPassedOver`: `Spec => []NonePassedOver`.

These are what `DeliveriesProcessed` and `DepositFillsClearedOrder` need beside fairness: a
delivery does not get stuck, which it would if `transition()` refused it, and goes where it
is waited for. Sessions of any number of users trade; several orders, quotes and
deliveries may come in any order. Neither invariant is inductive. A deposit is never
refused only because an order's row being filled means that its session is
(`OrderBehind`), a session with an order is past `quote_ready` (`RowsBehind`), and so on
back to the quote; each is untrue between two statements of the one job that is making it
true, and `Stage` and `SoloCall` say how far that job has got. A delivery that fills
nothing leaves nobody waiting because its session is the only one of its user that could
wait (`NoFillNoneWaits`). All three conditions are needed. Two
workers, or a failure, leave an order filled and its session not, and on the relaxed graph one
worker is enough: a session goes back from `compliance_pending` to ask for another quote,
and the deposit that then comes marks its order filled and is refused.

**Idempotency** (`IdempotencyProofs`)

* `RequestTypesCorrect`: `Spec => []TypeOK`;
* `SessionsOnce`: `Spec => []OneSessionPerKey`;
* `OrdersExcused`: `Spec => []ExtraOrdersExcused`;
* `RepeatsAgreed`: `Spec => []RepeatsAgree`.

For `SessionsOnce` the invariant says what *may* be answered for a key, a refusal if
its body is bad and otherwise the one session, and that this is what records, answers
sent and answers about to be sent hold; a request that has found no session may still
be about to insert one, which the constraint then refuses.

`OrdersExcused` is a counting argument. A request in flight that has not yet placed an
order may still do so; `Early(k)` are those, `Past(k)` the ones that have looked for a
record already. With no fresh record, orders and `Early` together never exceed
excuses by more than one; with a fresh record only `Past` counts, for the others will be
turned away, but the expiry that lets them through again is an excuse. When there is
neither a record nor a request, the orders are all excused, which leaves room for
the next request. The property alone is not inductive: it forgets the requests that
are past the lookup.

For `RepeatsAgreed`, a key without an excuse has at most one request in flight and is in
one of two situations (`RepeatInv`): not answered yet, and that request, if it is there, is
the first; or answered, with the record fresh, all answers that of the record, and the
request about to find it or to replay it.

**Deployment** (`DeploymentProofs`)

* `DeploymentTypes`, `SchemaRecorded`, `FinishedCurrent`, `RaceWon`, `SeedsOnce`:
  `Spec => []` of `TypeOK`, `SchemaIsRecorded`, `FinishedMeansCurrent`, `RaceHasWinner`,
  `SeedsExcused`;
* `ConflictsAreRaces`: `Spec => OnlyRacesConflict`;
* `RunnersImplementSchema`: `Spec => SchemaSpec`;
* `ProcessesAreShort`: a process awaits at most `4 * Files + 6` statements.

What a runner read is out of date when it uses it. `AllKnow` says what is still true of
it: what it read as applied is applied, and below the file it has got to nothing is
missing. So two open transactions would both be at the first missing migration, where
PostgreSQL lets one of them in (`OneOpen`). `SeedsOnce` counts integrators together with
the seeds about to insert one. For the refinement, a migration about to be committed is the
first one missing (`NextMissing`), so a commit is a step of `Schema`, also one whose answer is
lost, and no other step touches the schema. `ProcessesAreShort` is the part of `RunnersEnd`
that needs no fairness: `Rest` bounds the statements left to a process and falls with every
step it takes, whatever the others do.

**The composed server** (`RampProofs`)

* `ImplementsService`: `Spec => ServiceSpec`;
* `ServerGatesHold`: `Spec => []OnboardingGates`, for the flags the handlers really read;
* `OrdersGated`: `Spec => []OrdersBehindGates`;
* `ServerRowsMatch`, `ServerFillsAreSettled`, `ServerFailuresAreRejections`,
  `ServerFillsDelivered`: `Spec => []` of `RowsMatchProvider`, `FilledOnSettlement`,
  `FailedOnRejection`, `FillsAreDelivered`, for sessions that are created and onboarded
  beside the trade;
* `ServerStaysOnGraph`: `Spec /\ []OneCallPerSession => [][OnGraph]_vars`: when calls for one
  session take turns, each change of a session is along an edge, so that terminal states are
  final in the whole server.

Every step of a handler is shown to be a *move*: a step of the transition service, a fact
learnt, or nothing to the service; a move keeps `GateInv` and is a step of
`SessionTransitions`. `FactsHeld` says that the flags read were learnt, `OneCall` that a
worker which begins a call has none under way. For the orders the gates are carried along
the trade: a quote is made by a job that saw its session in `quote_requested` or took it
there (`Requested`), rows once made stay gated (`RowsGated`), and an order is made from a
quote of its session. For what a session is filled or failed on, a step of `Onboarding` is
shown to be `Elsewhere`: it writes no table of the trade, and it never asks for
`order_filled` or `failed`; the lemmas of `SettlementJobsProofs` do the rest.

**Only model-checked**: all liveness (`ApprovalOnboards`, `DeliveriesProcessed`,
`DepositFillsClearedOrder`, `RunnersEnd`, the fairness of `LifecycleSpec`), which is out of
the prover's reach; of three of them the part that needs no fairness is proved, as said
above. The pure rules are proved about as operators; nothing here is
recursive.

## 5. Plan

1. *(done)* State machine, transition service, arbitrary callers, abstract lifecycle.
2. *(done)* Settlement; onboarding with failing and repeated deliveries.
3. *(done)* Idempotency middleware with the two handlers it protects.
4. *(done)* Migrations and seed by several processes.
5. *(done)* The composition of onboarding and settlement, and its refinement.
6. *(done)* Proofs of every safety invariant the runs check, of the step refinements, and
   of all action properties that hold.
7. *(done)* The jobs of settlement in a module of their own, with lemmas that hold beside
   any other handlers; what is proved of settlement, proved of the composed server.
8. *(done)* What the violations are due to: the calls that overlap, in `resurrected`. The
   parts of the liveness properties that need no fairness, for deliveries and runners.
9. Left: the idempotency middleware around the handlers of `Settlement` rather than
   around two handlers of its own; more than one integrator.

## 6. Not modelled

* *Integrator authentication, client tokens, the non-custody guard, signatures*: checks on
  a single request by cryptography, clock windows or patterns, with no state that two
  requests share.
* *Amounts, rates and fees*: copied between rows, never computed with.
* *Time*: a quote lapses and a record expires when they like; how long a replayed record
  lives is left out.
* *Keys* reused for another path or by another integrator: one request shows it.
* *The in-memory order store* of the routing adapter, which stands in for the partner: the
  model keeps the partner outside the process, where a restart does not touch it. The
  *token cache* of the bank adapter: a revoked token is one more refused request.
* *The webhook dispatcher* appends to a list only tests read. *The queue client and the
  delivery processor* throw, as do the *wallet, bank and transfer routes* and the
  adapters behind them.
* *Server start and configuration*: wiring. The order in which hooks and routes run is in
  the modules of the routes.
