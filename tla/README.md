# A formal model of AssuraPay

AssuraPay is a TypeScript monorepo (`src/packages/*`, `src/apps/web`,
`src/supabase/migrations`) for commercial agreements that are performed,
evidenced, certified and settled. This directory holds TLA+ modules that model
its engines and its store, TLC configurations that check them, and proofs for
TLAPS.

`PROJECT.json` lists components, runs, the source lines of every definition,
the hazards of the code and the theorems. To repeat a run or the proofs:

    tlc -config FlowSerial.cfg MCFlow            (and the other Flow*.cfg)
    tlc -config SettlementScenes.cfg MCSettlement (and SettlementTwice.cfg)
    tlc -config DeliveryScenes.cfg MCDelivery
    tlc -config PlatformScenes.cfg MCPlatform
    tlc -config DependencyGraphs.cfg Dependencies
    tlapm FlowProofs.tla          (also SettlementProofs, DocumentProofs,
                                   DeliveryProofs, DependencyProofs,
                                   AuditProofs, ReportProofs,
                                   PlatformProofs)

## The system

Every package is a set of *engines*: classes without memory of their own that
read documents from a durable store, decide, and write documents back. They
share one interface, `TrustPersistence` (`packages/shared/src/trust.ts`):
`list`, `append`, `replace`, `audit`, `emit` and `transaction`. Two facts about
it decide what can go wrong everywhere else
(`packages/database/src/postgres-store.ts`):

* Outside `transaction` each call is a transaction of its own, at READ
  COMMITTED. An engine that lists and then replaces works on what it read.
* `replace` is an UPDATE with the document that was read before. Only the
  tables of governance carry a version that is compared, and only
  `signaturePackages` are locked when they are read in a transaction. For the
  rest the last writer wins, except where a unique index or a trigger of the
  table refuses the write.

So what an engine promises rests on three things together: its own check, made
in an earlier call; the indexes and triggers of the migrations; and the order in
which it makes its writes. The modules have all three.

| Component | State it keeps | What makes it correct | Modules |
|---|---|---|---|
| Flow OS: `flow-orchestration` | flows, steps, human tasks, signals | order of dependencies, gates of events and people, retry budget, closure after the work, halted flows stay halted, every request ends | `FlowOrchestration`, `FlowPlan` |
| Store: `database`, `shared` | documents, hash chain of audit records per tenant | each call one transaction, unforked chain, append-only history | `Requests`, `Documents`, `AuditChain` |
| SQL triggers and indexes: `supabase/migrations` | none of their own | terminal states are final, one row in force, no money under a hold | `Admits`, `Put...`, `Insertable...` of each module |
| `settlement-assurance` (41-45) | eligibility, entitlements, invoices, commitments, reservations, release requests | one live invoice per number, conditions met only on what was approved and reserved | `FundingRelease` |
| `settlement-execution` (46-50) | thresholds, votes, instructions, journal, disputes, holds, accounts, certificates | quorum of distinct approvers, one payload per key, no money under a dispute, one certificate | `PaymentAuthority`, `VoteQuorum`, `PaymentExecution`, `DisputeHold` |
| `execution-orchestration` (31-35) | workspaces, work items, progress, evidence, tests, defects | submitted stays submitted, earned only after accepted, custody complete | `ExecutionWork` |
| `completion-assurance` (36-40) | inspections, issues and plans, changes, acceptances, certificates | one decision in force, no resolution without a plan | `Completion` |
| `performance-blueprint` (21-25), `performance-readiness` (26-30) | plans, scope, deliverables, milestones, definitions of done; criteria, metrics, rules, baselines | one plan in force, shares within the whole, no cycles; one baseline | `Blueprint`, `Readiness` |
| `governance-core` (06-10) | executions and history, milestones, certifications, payment proposals | allowed transitions only, certified on approval, one proposal per key | `Governance` |
| `agreement-creation` (11-15) | agreements, templates, drafts, clauses, rounds, approvals, signature packages, certificates | approved by all, signed by all, no signature lost, nothing counted twice | `AgreementDrafting`, `AgreementExecution` |
| `agreement-intelligence` (16-20) | contract versions, analyses, reviews, readings | one version in force, published only when reviewed | `AgreementReading` |
| `agent-runtime` (61-70) | registries, prompts, policies, approvals, executions, memory | one version in force, decisions stay, no protected action by a model alone | `AgentRuntime` |
| `enterprise-intelligence`, `enterprise-analytics` (51-60) | indices, KPIs, dashboards, forecasts, models and their evaluation | one definition per KPI, one registration per model, failures are flagged | `Insights` |
| `workflow-intelligence` (71-80) | none: reports computed from snapshots | waiting never helps, alarms are true; the order of dependencies is exact | `WorkflowReports`, `Dependencies`, `TopologicalOrder` |
| `audit-ledger` | none: verifies and compares chains | finds nothing wrong with what the store wrote | `AuditChain` |
| `identity`, `permissions`, `runtime`, `domain-contracts`, `parties`, `organizations`, `legal`, `domain`, `reos`, `apps/web` | sessions, roles, types, facades, tooling, routes | | see *Not modelled* |

Components meet in three ways: through documents in the store that another
engine's table looks at (payments and releases look at dispute holds), through
domain events that `DomainEventFlowBridge` turns into signals of Flow OS, and
through providers (funding, payments, signatures, models) that are called
between a read and a write.

What is hard here is the same everywhere: checks and writes in different
transactions, last writer wins, a process that dies between two writes,
messages and callbacks delivered twice, provider calls whose result is recorded
later. `PROJECT.json` lists each place with its line under `hazards`.

## How the engines are modelled

### Requests

`Requests` is what all modules but Flow OS, the audit trail and the pure
algorithms share. A *worker* is one request in one server process; `job[w]` is
the call it makes next and its local variables. Every call of the store or of a
provider is one action, because that is where another request or the death of
the process can come in between; what was read stays in `job` and may be stale
when it is written. `Crash` abandons a request between any two calls. It also
stands for a store call that fails, because no error path of these engines
writes anything (the executor of agents catches what an attempt throws, and
that is modelled).

`Documents` is the store for engines whose tables look alike: `db[c][x]` is
row `x` of collection `c`; a request reads (`Ask`, `Look`, `Then`), decides on
a list of writes, and makes them one after another (`Commit`). A write is
refused, and the rest of the request lost, when the table does not admit it.
`Admits` is written out in each module from the unique indexes and the triggers
of the migrations. `PutX` names the columns an UPDATE of that table writes, as
the repository's mapper has them.

Modules keep of a document what a guard, a write or a property tells apart:
statuses, who acted, what refers to what, amounts and versions as small numbers.
Time stamps become an order (a non-deterministic one where two may be equal),
texts and payloads model values or nothing. Where the code acts on what a caller
*claims* (roles, that gates passed, that no dispute is open, that facts meet a
definition of done), the claim is an input that may be true or not.

The audit record and the outbox event that follow nearly every write are left
out of the engine modules: no engine decides on them. `AuditChain` models the
writing of audit records.

| Module | State | In the code |
|---|---|---|
| `PaymentAuthority` | `thresholds`, `auth`, `votes` | Engine 46: `approvalThresholds`, `authorizationDecisions`, the approvers of `financialApprovalDecisions` |
| `PaymentExecution` | `instr`, `journal`, `matched`; `provider`, `asked`, `calls`, `reported` | Engines 47, 48: instructions, ledger entries, reconciliations; what the payment provider holds and has been asked and has said |
| `FundingRelease` | `eligible`, `entitlement`, `invoice`, `commitment`, `reservation`, `release` | Engines 41-45, a record of each identifier |
| `DisputeHold` | `dispute`, `decided`, `hold`, `filings`, `account`, `certificates` | Engines 49, 50 |
| `ExecutionWork` ... `Insights` | `db` | the collections of the engines' own names |
| `WorkflowReports` | `clock`, `node`, `missing`, `load`, `signals`; `report`, `health` | the snapshot other engines make, and the last report computed from one |
| `Dependencies` | `edges`, `indegree`, `queue`, `order`, ... | the local variables of `analyze` |
| `AuditChain` | `rows`, `lock`, `job`, `count` | committed `trust_audit_records` of each chain, the table lock, open transactions, the identifiers given |

### Compositions and scenes

Engines share the store but, with one exception, not their tables: a request
reads the tables of its own package and gets the rest as claims. All
interleavings of all engines would be a product of state spaces that says no
more than their sum. `Settlement`, `Delivery` and `Platform` therefore put the
engines of one stage beside each other, and a behaviour plays one *scene*: which
engines take part, who makes requests, whether they may die, and how many rows
there may be of each collection. All properties of a run are checked in every scene they speak of.

All three are written for any `Program` of scenes, so that they can be proved
about as well as checked. The *cast* of a scene says which workers
make requests (in `Settlement`, of which engines: `approvers`, `payers`,
`releasers`, `parties`), which of them may die (`mortals`) and which records and
bounds there are; the engines are instances with the cast as a parameter
(`Pay(s)`, `Fund(s)`, `Case(s)`; `Work(s)`, `Assurance(s)`, `Plan(s)`, `Ready(s)`,
`Govern(s)`; `Drafting(s)`, `Execution(s)`, `Reading(s)`, `Agent(s)`, `Insight(s)`,
`Reports(s)`). In a scene all calls of its engines interleave; nothing but the cast
restricts them. `MCSettlement` holds the twelve casts TLC plays, `MCDelivery` the
twenty of `Delivery`, `MCPlatform` the twenty-two of `Platform`, whose last scene is
the audit trail (`Ledger` gives its bounds).

The exception is the dispute hold. In `Settlement` the tables of payments,
releases and accounts see `held <- Case(s)!Held`, which is computed from the
documents of disputes, so it is no variable that a model could set at will.
The scenes `frozenPayment`, `frozenRelease` and `closure` let a dispute come
between the read and the write of a payment, a release and a closure.

There are three kinds of scene:

* two requests race and either may die at any moment (`Pair`);
* requests come in turn (one worker, the `Lead` or `Clerk`), each of which may
  die;
* requests come in turn or at once, and none dies (a cast without mortals).
  `InTurn(s)` of `Settlement` is a scene of one client without mortals; in the
  engines that use `Documents`, `InTurn` is one worker, `Deathless` is workers of
  whom none dies, and `Reliable` both.

A property stands in the most adverse kind of scene in which the code keeps it.
Which that is, is part of what the project says about the code: what holds under
races holds because of an index, a trigger or a lock; the rest the code does not
enforce.

## Flow OS

Flow OS carries a commercial flow through the steps of its definition, and it
is the component in which most of these difficulties meet.

| Module | Content |
|---|---|
| `FlowOrchestration` | the orchestrator, recovery, properties, inductive invariants |
| `FlowPlan` | what Flow OS promises about steps and closure, without requests, documents or retries |
| `MCFlow` | definitions of flows and other values of constants for TLC |
| `FlowProofs` | every action keeps the inductive invariant; the invariants of requests that come one after another; the theorems |

### State

| Variable | In the code |
|---|---|
| `flow[f]` | the document of `flowInstances`: `state`, `idempotencyKey`, `assuranceLevel` (as its index in `assuranceOrder`). State `"none"`: there is no such flow |
| `step[f][s]` | the document of `flowStepInstances`: `state`, `attempts`, and whether `lastError` is set |
| `tasks[t]` | the documents of `humanTasks` |
| `signals[<<k, f, e>>]` | how many rows of `flowSignals` hold key `k`, flow `f` and event `e` |
| `emitted[f][s]` | `STEP_COMPLETED` events in the outbox |
| `ran[f][s]` | calls of the step's handler: the effects, which the store does not see |
| `pc[w]`, `job[w]` | a request in flight: the store or handler call it makes next, and its local variables |

A *worker* is one request in one server process. Each read and each
transaction of the code is one action of a worker, because that is where
another request or a crash can come in between; what the request remembers from
earlier reads stays in `job` and may be stale when it is written. `replace` of
a whole document is `PutStep` with the remembered record. Writing a flow
changes its state alone, since that is the only field of the model that changes
after creation. Reads that nothing depends on (such as `get` before `steps` in
`steps`) are not steps of their own; a request's first read is the action that
starts it (`Start`, `Dispatch`, `SignalFlow`, `Decide`, `Suspend`, `Resume`,
`Recover`).

`evaluate` reads the flow (`EvalReadFlow`) and its steps (`EvalReadSteps`),
promotes steps in the order of the definition from the list it read, updating
its own copy as it goes (`Promote`), reads the steps again (`Refresh`) and
writes the summary (`Settle`). `dispatch` re-reads the step, marks it RUNNING,
and waits, calls the handler or completes. A handler returns or throws; a
completion that fails is *not* caught, because `return this.complete(...)`
inside the `try` is not awaited. A `handler` that is not registered (kind
`"missing"`) leaves its step RUNNING. `complete` and `fail` read a document and
overwrite it. `signal` completes every step it found waiting for the event, in
the order the store lists them, which is that of random identifiers and so any
order, and evaluates after each and once more at the end.

`Crash` abandons a request between any two of these; it is also what a store
call that fails looks like from outside, because no error path of the code
writes anything.

### Constants and bounds

The definition of the flow is `NSteps`, `Deps`, `Kind`, `EventOf`, `Gate` and
`MaxAttempts`. `FlowRegistry.register` refuses unknown dependencies, not
cycles; no proof assumes there is none. `Requests` chooses which requests are
made. Bounds for TLC only:

* `Flows` and `Tasks` are finite supplies of identifiers. A request that could
  need one starts only while there are more left than requests in flight need,
  so no request is blocked half-way (`FlowRoom`, `TaskRoom`).
* `MaxRuns` stops new dispatches of a step that has run or completed that often.
* `SignalKeys` and `StartKeys` are small sets; a key is never forgotten.

The role check of `decide` is a guard that throws without a write, so the model
considers decisions of those who hold the role. `CANCELLED` is in the types of
the source and never written. Time stamps, titles, payloads and correlation
identifiers are left out: no branch of the orchestrator depends on them.

### Properties

Whatever requests race and die (`flow_races`, `flow_events`, and proved):

* `DependencyOrder`: a step leaves PENDING only after all its dependencies were
  completed or skipped. Not obvious, because promotion works from a stale list,
  and a completed step may be overwritten by a request that read it before.
* `EffectsAfterDependencies`: the same of handler calls, and none for a step
  that assurance skips.
* `ClosedAfterWork`: COMPLETED only after every step is behind the flow, though
  it is written over whatever the flow has become.
* `EventGate`, `HumanGate`: a step that waits completes only after its event,
  or after a person decided a task for it.
* `RetryBudget`: no more attempts than the retry allows, though `dispatch` does
  not compare them, as long as no operator recovers the flow.
* `PlanSpec`: the documents implement `FlowPlan`, with `done[f]` the steps that
  have a `STEP_COMPLETED` event or are SKIPPED. `Reopen` is in the plan because
  a request that read the flow before may write a summary over COMPLETED.

The evidence for "behind the flow" is the outbox event or the SKIPPED document,
not the state COMPLETED, which a stale write can turn back.

When the requests on a flow come one after another, each of which may die
half-way (`flow_serial`, and proved): `StepsFinal`, `HaltedStays`,
`EffectPerAttempt`, `ApprovalGate`. The code does not enforce that they come one after another.
With two at once all four fail, by the last-writer rule; the repository
promises nothing for that case beyond the three statements below.

When requests come one after another and none dies (`flow_live`; the first three
are proved too, and the third also if requests die):

* `SummaryAgrees`: the state of a flow is the summary of its steps.
* `NothingLeftBehind`: no step whose dependencies are done is left PENDING,
  whichever branch ends last, also when it ended while the flow was suspended,
  or failed and recovered later. It assumes that the definition lists a step
  after those it depends on: `evaluate` makes one pass in the order of the
  definition, so a step listed before one that assurance skips is not promoted
  when that one is. `FlowRegistry.register` does not refuse such a definition;
  all definitions of the repository are in order.
* `FailureHasCause`: a failed flow has a failed step for recovery to find, with
  three branches that fail, wait and are retried independently.
* `RequestsEnd`: the mutual recursion of `evaluate`, `complete` and `signal`
  ends. `ApprovalTakesEffect`: an approved task completes its step.

### Runs

| Run | Flow | Requests | What it shows |
|---|---|---|---|
| `flow_serial` | 4 steps of `flow-orchestration.test.ts` | all, 1 worker, crashes | the four properties of sequential requests, over long sequences of them |
| `flow_races` | approval from ENHANCED on, then a handler with retry | start, dispatch, decide, suspend, resume; 2 workers, crashes | the safety properties and the refinement under races |
| `flow_events` | two events, then a plain step | start, dispatch, signal, suspend, resume; 2 workers, crashes | the inductive invariant and `EventGate` under repeated signals |
| `flow_live` | three branches (event, approval with retry, handler), a join, a step without handler | all, 1 worker, no crash | liveness, the summary, nothing left behind, recovery |
| `flow_start_twice` | as `flow_events` | start; 2 workers | refutes `OneFlowPerKey` |
| `flow_signal_twice` | as `flow_events` | as `flow_events`; 2 workers | refutes `AdvancedOnce` |
| `flow_effect_twice` | `restart-recovery.postgres.test.ts` | as `flow_events`; 2 workers | refutes `EffectOnce` |

Two workers are enough for the hazards, all of which are of the form "read,
someone else writes, write"; that no third one adds anything for the safety
properties is what the proofs show. Two levels of assurance make a step skipped
or not, two tasks let a step be rejected and asked for again, two keys let a
signal be repeated before and after the step waits, `MaxRuns` 2 or 3 lets a
retry succeed and one more dispatch follow.

Fairness is weak fairness of `Advance(w)`, the continuation of a request that
is under way: the runtime resumes every awaited call, and the drivers settle
it. No request is owed by a caller, so `Request` has none, and deadlock is not
checked: callers may stop, and a finished flow takes no request. Liveness
leaves crashes out because nothing in the code resumes an abandoned request: a
step left RUNNING by a crash can be moved by no operation, nor can a step
waiting for a signal that was recorded and then lost.

## Settlement, delivery, platform and dependencies

### Runs

| Run | What takes part | What it shows |
|---|---|---|
| `settlement_scenes` | Engines 41-50 in twelve scenes | what is counted once, whether records are true, that authorisation implements the vote of a quorum, that a hold stops money |
| `settlement_twice` | the scene `rivals` | refutes `NeverInstructedTwice` |
| `delivery_scenes` | Engines 06-10 and 21-40 in twenty-one scenes | uniqueness under races, records that rest on what has to come first, promises of requests in turn |
| `platform_scenes` | Engines 11-20, 51-80 and the audit trail in twenty-three scenes | the same, callbacks, agents, reports that are monotone, chains that verify |
| `dependency_graphs` | Engine 72 on every graph of three nodes and up to four edges, which may name a fourth, unknown node | the verdict on cycles and the order are exact, and the analysis ends |

Each property of these runs is a conjunction of implications
`scene = s => M(s)!P`; the statements `P` stand in the modules of the engines,
each with a comment that says what it is about.

### Whatever requests race and die

* `OnceOnly`. Most engines look for a duplicate and then append. One payload per
  payment key, one live invoice per number, one certificate per account, one
  open workspace per milestone, one decision in force per work item, one plan per
  contract, one baseline, one proposal per key, one round or version per number,
  one published reading, one active KPI definition, one registration per model:
  in each the engine's check is not enough and an index of the table is what
  keeps it. The memory of an execution stays numbered without a gap, since a
  second writer of the same number is refused.
* `RecordsTrue`, `RecordsBacked`, `ClaimsBacked`. What a record claims took
  place, although the check was made in an earlier call on a document that has
  changed since. `SETTLED` only if the provider ever said so; conditions met only
  on an approved invoice for exactly the net of a confirmed entitlement and
  within what was reserved; an issue resolved only on a verified plan; value
  earned only after acceptance; a certificate only on the approval of a reviewer
  other than the requester; a request approved by somebody for each step; a
  package of signatures complete when it is certified; a reading published only
  when people have judged every item; no protected state changed on a model's
  answer alone.
* `QuorumSpec`. Authorisations behave like `VoteQuorum`: votes of distinct people
  other than the requester accumulate, and the one decision is a grant by enough
  of them or a rejection. `approve` counts the votes before it casts its own.
* `HoldStopsMoney`. From the moment a hold is placed, no instruction is issued for
  the release request, its conditions are not met, and no account of its
  milestone closes, also by a request that looked for holds before it came.
* `StepsAllowed`. What may not be taken back: submitted workspaces, closed
  rounds, decided approvals, signatures when a callback writes the package, end
  states of executions, committed audit records.
* `ChainsLinked`. The ledger's verifier finds nothing wrong with a committed
  chain, and no writer is refused its position. `CommittedStays` and `AppendOnly`
  (in `StepsAllowed`) say that committed records stay, and that
  `diffAuditSnapshots` finds nothing but appends.
* `RecordsTyped` is the type invariant of whichever engines take part.

### When requests come in turn, or none dies

* `SerialPromises`: enough votes decide; a payment the provider has under way is
  not on record as one to submit; reservations stay within the commitment,
  shares of milestones and weights of metrics within the whole; orders of
  milestones have no cycle; a submitted workspace has no open item; a draft names
  its newest document; the decisions of a request are those it counted; a plan, a
  contract, a prompt, a policy is superseded only by one that took its place, and
  an agent that ever had an active version keeps one (`AgentKept`, in
  `StepsAllowed`, because the rows do not tell which was active before); a
  failed evaluation is flagged; the attempts of an agent are measured.
* In `StepsAllowed`, what is granted on conditions that hold when it is written:
  certificates on acceptances in force, activation with all definitions of done
  published, gates passed without a critical defect, packages that cover what is
  mandatory, milestones completed in order.
* `HoldFollowsDispute` (in `SerialPromises`): between requests exactly the disputes
  that are not closed hold their release request.

### Computed reports

`ReportsMonotone` compares two reports in a row: of work nobody touched the later
report tells of no better health, more progress with no new blockage of no worse
danger, more missing evidence of no lower addressee, and signals that are all as
good score no lower. Hours, averages and probabilities are rounded several times
on the way, so none of these follows from the formulas alone. A report is
within its scales and alarms only at what is so (`AlarmsAreTrue`); that work which is
late is reported late (`LateIsReported`) is in `ClaimsBacked`.

`Dependencies` is Kahn's algorithm as `analyze` runs it, with in-degrees counted
per listed edge, and a breadth-first search from each node. `VerdictExact`:
refused as unknown exactly if an edge names what is no node, and otherwise
circular exactly if some nodes wait for each other. `Ordering`: the sort
implements `TopologicalOrder`, which places a node after all it depends on.
`DownstreamExact`: what lies downstream is the least set closed under edges.
`Terminates`: it comes to an end.
`Nodes` is a set: that no node is listed twice is assumed. `analyze` and its caller
`recommend` (`workflow-intelligence/src/index.ts:149`, `:436`) take a list and do not
check. Of the nodes a, b, b with the edge a-b it says that they are circular (two are
placed, three were listed), and of a, a, b, c with a-b and c-b it places b before c,
because the first edge is counted down twice.

### Bounds

| Bound | Where | Why it is enough |
|---|---|---|
| two racing requests, in `Settlement` a third for the dispute; three writers of audit records | `Workers`, `Pair`, `Clerk`, `Writers` | the hazards are "read, someone else writes, write"; where a third matters (one holds the lock, one waits, one fails; a dispute between two payments) there is one |
| `rows` of a cast: rows of each collection in a scene | `MCDelivery`, `MCPlatform` | one of what the scene only needs, two of what may be duplicated or superseded, three where a chain or a repeat of a repeat can matter (versions, milestones in order, callbacks, reinspections) |
| two blueprints | `plan`, `packages`, `succession` | in `succession` each has all that activation asks for, so that one supersedes the other, in turn. Two activations that race are left to `DeliveryOnceOnly`, which is proved: with a blueprint, a scope item, a deliverable, a milestone and a package for each of two racing requests the run takes too long |
| `MaxAmount` 1 or 2, `MaxPercent`, `MaxWeight` up to 3 | money, shares | 2 is a whole that two can exceed, or that one of two thirds stays below |
| `MaxCalls` 2 | calls of the payment provider per key | a first call and a repeated one |
| `MaxThresholds` 1, `MaxFilings` 1, `MaxSteps` 2, `MaxAttempts` 2, `MaxVersion` 5 | | one range of amounts, one submission to a dispute, two steps of approval, a retry, every move of an execution |
| `Stamps` {1, 2}, `Times`, `Percents`, `Counts`, `Hours`, `Scores` | time and measurements | before, at and after each limit the code compares with |
| `MaxAudits` 3 | audit records | a chain of three, so that a record has both neighbours |
| `Nodes` 3, `Names` 4, `EdgeIds` 4 | graphs | a cycle of three with a repeated edge; edges to and from one that is no node |
| `Events` of `signed` | callbacks | one is of a user who is no signatory, as `callback` does not ask; it is used and marks nobody |

Deadlock is not checked in these runs: callers may stop, the bounds end a scene,
and an analysis returns. The only fairness is `WF_vars(Next)` in `Dependencies`:
`analyze` is one synchronous call, which nothing can interrupt. The engines make
no promise that something eventually happens: each request is a few awaited
calls, none waits for another request, and whether a next one comes is up to
callers. The one lock (`AuditChain`) is released by the end of the transaction.

## Where the code and what is said of it part

Four statements of the repository have a run whose counterexample is a short
schedule of the code.

* *Start commands are deduplicated* (`flow-orchestration.test.ts:132`). Two
  starts with one key both look it up, both find nothing and both insert
  (`flow_start_twice`).
* *Replayed delivery cannot advance the same waiting step twice*
  (`domain-event-bridge.ts:19-20`). Two deliveries both pass the check, and
  each completes the step it read as waiting (`flow_signal_twice`).
* *Execute one effect exactly once* (`restart-recovery.postgres.test.ts:31`).
  Two dispatches both read READY and both run the handler (`flow_effect_twice`).
* *A retried release can never double-instruct the provider*
  (`SETTLEMENT_EXECUTION_SECURITY.md:3`). `issue` is idempotent, `submit` is not:
  two at once, or one after a crash between the call and its record, call the
  provider twice under one key (`settlement_twice`). A provider that deduplicates
  by key pays once; that every call carries the same payload is what the code
  does ensure (`OnePayloadPerKey`).

The following sentences are not true of every order of events either. Each is
checked where it does hold, as listed above, and this is where it stops:

* *Reservations can never oversubscribe a commitment*
  (`SETTLEMENT_ASSURANCE_SECURITY.md:3`): two `reserve` at once both see the sum
  before.
* *A payment instruction's status only ever reflects what the provider reports*
  (`settlement-execution/src/index.ts:205-206`): `reverse` asks nobody, and a
  stale row may undo `SUBMITTED` or `SETTLED`. A retry counter that goes backwards
  "can hide a retry" (`202608110001:371`): a stale submit or refresh writes one.
* *Raising a dispute immediately and atomically freezes*
  (`SETTLEMENT_EXECUTION_SECURITY.md:3`): the dispute and the hold are two
  transactions, and a crash in between leaves a dispute without a hold.
* *Cannot submit while any work item remains open; progress records reject any
  regression* (`EXECUTION_ORCHESTRATION_SECURITY.md:3`): an item assigned, or a
  record appended, between the read and the write escapes.
* *The referenced acceptance decision is active*
  (`COMPLETION_ASSURANCE_SECURITY.md:3`): it may be superseded before the
  certificate is appended.
* *Value allocation is bounded at 100%, edges are checked for cycles, no activation
  without a definition of done* (`PERFORMANCE_BLUEPRINT_SECURITY.md:3`), and *a
  metric cannot be confirmed past 100%* (`PERFORMANCE_READINESS_SECURITY.md:3`):
  two at once each see the state before the other.
* *Ordered immutable history* (`BATCH_2_GOVERNANCE_CORE_IMPLEMENTATION_REPORT.md:7`):
  the number of an entry is counted before it is appended; a crash between a
  transition and its entry leaves it out. That entries tell of transitions that
  took place is checked. Two publications of a definition of done at once leave
  two published.
* The lock of `callback` keeps signatures of two callbacks apart
  (`batch-f-repository.ts:862-867`), but `send` writes the package it read before
  without one: a send that ends after a callback erases the signature, and the
  event counts as used.
* *An approval authorises one protected action, once* (`202608110017:219`):
  consumers at one instant write the same time, which the trigger admits. An
  execution that is cancelled while it runs is overwritten by its result.
* A review or publication of a reading replaces the whole version that was read,
  so a review that ends later may take a publication or another review back;
  *human reviews are separate immutable records*
  (`AGREEMENT_INTELLIGENCE_SECURITY.md:3`) is true of analyses only.
* *A degrading model can never go unflagged* (`ENTERPRISE_ANALYTICS_SECURITY.md:5`):
  the alert is a second write. Forecasts that are reviewed once
  (`enterprise-intelligence.test.ts:125`) and alerts that stay resolved
  (`enterprise-analytics.test.ts:176`) are so for requests in turn.
* *Open overdue work has 100% breach probability* (`SLA_INTELLIGENCE_GUIDE.md:3`):
  remaining hours are rounded first (`workflow-intelligence/src/index.ts:278`), so
  work that is due within half an hour is already called breached.
* The audit ledger is given what a request can see, ordered by tenant and position
  (`postgres-store.ts:120`). With the platform's chain and a tenant's in view, a
  break is reported where one ends and the next begins; and a chain whose last
  records are missing verifies, though deletion is said to produce a finding
  (`audit-ledger/src/index.ts:20-21`). `ChainsVerify` is about one chain at a time.
* In Flow OS, a signal recorded by a request that then dies is not delivered
  again, because its key is known; and an `evaluate` that read the flow before it
  was suspended writes its summary over SUSPENDED.

## What is proved

### Flow OS (`FlowProofs`)

For every definition of a flow, and any sets of workers, flows, tasks and keys
(assumptions: `DefinitionAssumption`, `EnvironmentAssumption`, which say that
the constants have their types):

| Theorem | Statement |
|---|---|
| `Invariance` | `Spec => []IInv` |
| `TypeCorrect` | `Spec => []TypeOK` |
| `DependencyOrderHolds`, `EffectsAfterDependenciesHold`, `ClosedAfterWorkHolds`, `EventGateHolds`, `HumanGateHolds`, `RetryBudgetHolds` | the properties above |
| `NothingTakenBack` | `Spec => [][Grows]_vars` |
| `ImplementsPlan` | `Spec => PlanSpec` |

None of the properties is inductive: each depends on what requests carry. The
argument has three parts.

1. `Grows` says what no step takes back: a flow that exists, a step that has
   been promoted, a step behind the flow, a recorded signal, a decision. Every
   write satisfies it, even one from a stale read.
2. `JobSound` says of a request at each label only things of that kind: the
   step it is about to write has been promoted, what its list shows as done is
   done, the signal or the decision it acts on is on record. By `Grows` it
   survives the steps of all others (`JobGrows`), however stale the rest.
3. The conjuncts of `IInv` about documents (`StepsSound`, `AttemptsSound`,
   `TasksSound`, the order of dependencies, closure and the gates) are kept by a
   write whose request is sound. Writes of a flow's state, of a step, and of a
   step by a request that already holds it have a lemma each (`StateWriteSound`,
   `StepWriteSound`, `HeldStepWriteSound`), from which each action follows.

`IInv` is the conjunction; TLC checks it as an invariant of `flow_events`.
`ImplementsPlan` maps each write of a step to `Pass` or to a stutter and each
write of a state to `Close`, `Reopen` or a stutter (`PassStep`, `StateStep`).

Some promises hold only if requests come one after another. Their theorems assume
`OneAtATime`, that there is one worker, and nothing else about the requests:

| Theorem | Statement |
|---|---|
| `InTurn` | `Spec => []TurnInv` |
| `EffectPerAttemptInTurn`, `ApprovalGateInTurn`, `FailureHasCauseInTurn` | `Spec => []` the property |
| `StepsFinalInTurn`, `HaltedStaysInTurn` | `Spec =>` the action property |
| `NothingIsLeft` | `LiveSpec => []ProgressInv` |
| `SummaryAgreesInTurn`, `NothingLeftBehindInTurn` | `LiveSpec => []` the property |

The first six allow a request to die between any two calls (`Spec` has `Crash`);
the last three do not (`LiveSpec`), because an evaluation that dies leaves the flow
behind its steps. `LiveSpec` is used for its steps only: its fairness plays no part.

* `TurnInv` has what the documents say of each other (`FlowsInTurn`, `StepsInTurn`,
  `TasksInTurn`: a handler was not called more often than there are attempts, a step
  that does not wait for a person has no open task, a completed human step has an
  approval, a failed flow a failed step) and, of the request in flight, that what it
  has read is still so when it writes (`FlowRead`, `StepRead`, `TaskRead`,
  `TodoRead`). The second part is what staleness takes away when two overlap. It
  leaves out what a crash may destroy: a RUNNING step need not have a request.
* `ProgressInv` adds that only the flow under evaluation may be behind its steps
  (`UpToDate`), that a pass begins with the first step, and that no promotable step
  lies in the part of the list the pass has gone through. The last holds because a
  promotion makes only later steps promotable, if the definition lists a step after
  those it depends on (`Listed`). `Settle` then writes the summary of steps among
  which none is promotable; a step of the pass is done by the least promotable step,
  which exists by well-foundedness of the numbers.

Neither is among the properties of a run, since the theorems state it for every
definition; TLC confirms them when `TurnInv` is added to the invariants of
`FlowSerial.cfg` and `ProgressInv` to those of `FlowLive.cfg`.

### Authorisation (`SettlementProofs`, first part)

For any people, authorisations, requests and bounds (`AuthorityAssumption`: the
bounds are numbers, nobody is not a person):

| Theorem | Statement |
|---|---|
| `AuthorityInvariant` | `Spec => []IInv` |
| `GrantsHaveQuorum` | `Spec => []QuorumBehindGrant` |
| `AuthorityImplementsVote` | `Spec => QuorumSpec`, the refinement of `VoteQuorum` |

`approve` reads the votes, then casts its own, then decides on the count it read
plus one. The count is stale, but never too high: votes are not taken back, and
the table refuses a vote that is already there, so at the decision there are at
least as many votes as were counted. That is `ReadsSound`, a statement about what
requests carry; `TablesSound` says that a grant is backed by enough votes and none
is the requester's. A grant and a rejection that race are both written from a row
read as PENDING; the trigger refuses the second, so each is one step of the
abstract vote or none.

### Settlement (`SettlementProofs`, second part)

For any `Program`: any scenes, any workers, any sets of instructions, keys,
invoices, commitments, disputes and accounts, any bounds, and any choice of who
may die (`SettlementAssumption`: clients and mortals are workers, each payload has a
release request and each release request a milestone, bounds are numbers):

| Theorem | Statement |
|---|---|
| `SettlementInvariant` | `Scenario => []SettlementInv` |
| `SettlementTyped`, `SettlementOnce`, `SettlementTrue` | `Scenario => []RecordsTyped`, `[]OnceOnly`, `[]RecordsTrue` |
| `SettlementVotes` | `Scenario => QuorumSpec` |
| `HoldsStopMoney` | `Scenario => HoldStopsMoney` |
| `SettlementTakesTurns` | `Scenario => []SerialPromises` |

`SettlementInv` says of the scene that is played that the `IInv` of each of the four
components holds. Each `IInv` has the same three parts: types, what the tables say
of each other (`TablesSound`), and what remains true of what a request carries,
however old its read (`CarriedSound`). The last is about facts the tables never take
back: a key and a payload stay those of their instruction, attempts are not more
than calls made, what the provider has reported it has reported, a confirmed
entitlement keeps its net, an approved invoice stays approved, a decision stays, a
closed dispute stays closed.

The components share `job`, so each must be shown to leave the others alone. A
request of one engine is at a call no other engine has (`CallsApart`, of the sets
`Calls`), and the type of its local variables is a statement about those calls only
(`Carrying` in `Requests`). So a step of one engine keeps the invariants of the
others by `PayOthersKeep`, `FundOthersKeep`, `CaseOthersKeep` and `OthersKeep`, with no
knowledge of what the step does. Deaths are steps of this kind.

`HoldsStopMoney` rests on the table, which refuses the write at the moment it is
made, and on no other write reaching the status: an update goes to a row that
exists, as the request carries it (`HeldNotIssued`, `HeldNotReleased`,
`HeldNotClosed`). That is why it holds of a request that looked for a hold before
there was one.

For `SettlementTakesTurns` each component has a `SerialSound`: what one client who
does not die may rely on between two calls. A payment that the provider has under
way is on record or about to be; a hold is what its dispute says or about to be;
the sum that `reserve` read is still the sum, with room for what it inserts. What is
reserved is counted in minor units, of which there are finitely many at any time
though reservations may be infinitely many (`Counted`): an insertion adds at most its
amount, an end or a release takes away.

### Delivery (`DeliveryProofs`)

For any `Program`: any scenes, requests, collections with any number of rows,
milestones, people, keys and percentages, and any choice of who may die
(`DeliveryAssumption`: the tables of a scene are those of its engine, there are
requests, mortals are among them, bounds are numbers, a whole is not 0; for
governance, requests in flight are finitely many):

| Theorem | Statement |
|---|---|
| `DeliveryInvariant` | `Spec => []DeliveryInv` |
| `DeliveryTyped`, `DeliveryOnceOnly`, `DeliveryBacked` | `Spec => []RecordsTyped`, `[]OnceOnly`, `[]RecordsBacked` |
| `DeliverySerial` | `Spec => []SerialPromises` |
| `DeliveryStepsAllowed` | `Spec => StepsAllowed` |

`DeliveryInv` says of the scene that is played that the invariants of its engine
hold. Each engine has up to three, one on top of the other:

* `IInv`, whatever races and dies. `TablesSound` is what rows say of each other;
  `JobSound` is what stays true of a request at each call, however old its read. A
  request that writes carries a list, and every write still to come must be sound by
  itself (`WriteSound`), since the request may die, or others may write, before any of
  them. It is the facts no write takes back that a request may rely on: who owns a
  row, a confirmed deliverable, a verified plan, an approval on record, an evaluation
  that passed. The rest is what an index or a trigger still refuses when the write is
  made (`Admits`).
* `SerialInv`, for requests in turn: what a request has read is so still (`Fresh`).
  A second row for what was counted, a second edge that closes a cycle, a share
  beyond the whole are not written because nothing came in between.
* `ReliableInv`, for requests in turn of which none dies (completion and blueprint):
  what is half done is known from the one request there is. A decision is superseded
  because it has a successor or because the request has still to write it; nothing
  will refuse that write, which is what `Admits` has to be shown to say.

The lemmas of an engine carry its name (`Work...`, `Assure...`, `Gov...`, `Plan...`,
`Ready...`) and go from a row to the whole: what a table holds after one write
(`...Lands`, `...Written`), that nothing a request relies on is taken back
(`...Steady`), that a request which starts or goes on is sound (`...Handles`,
`...Takes`), what one that has written has still to write (`...Commits`), and the
three invariants (`...Preserves`, `...Serial`, `...Keeps`).

Three arguments are of another kind:

* The history of an execution counts (`HistoryCounted`): its entries and the requests
  that have still to make one are never more than its version, because the version
  is compared and counted up in the same call.
* A share of a whole is counted by units (`Allocated`, `ConfirmedWeight`), so that a
  milestone or a metric more adds at most its own units.
* `HasPath` is stated by closed sets, not by paths, as `Reach` of `Dependencies` is.
  Let an edge from `p` to `q` be added and `R` be a closed set that shows there was
  no path from `q` to `p`. Cut down to `R` for a milestone of `R`, and with `q` and `R`
  added for another, the set that showed that a milestone is on no cycle is closed
  under the new edge too (`EdgeAdded`).

### Dependencies (`DependencyProofs`)

For any finite graph (`NodesAssumption`, `EdgesAssumption`), repeated edges, loops
and edges of unknown nodes included:

| Theorem | Statement |
|---|---|
| `SortInvariant` | `Spec => []SortInv` |
| `DependencyTypes` | `Spec => []TypeOK` |
| `VerdictIsExact` | `Spec => []VerdictExact` |
| `SortImplementsOrdering` | `Spec => Ordering`, the refinement of `TopologicalOrder` |
| `DownstreamIsExact` | `Spec => []DownstreamExact` |

The in-degree of a node is the number of edges into it from nodes that are not
placed yet (`Degrees`), and the queue is the nodes not placed whose in-degree is 0
(`Queued`). A placed node therefore waits for nobody (`PlacedAfter`), and no set
of nodes that wait for each other ever has a placed member (`NeverStuck`). When
the queue is empty, the nodes not placed each wait for another of them: if there
are any, they are such a set. That needs every edge to be of nodes, which is looked
at before the sort (`Screened`).

The search from a node is exact because of what holds half-way (`Searching`): all it
has found or is still to visit can be reached, and what it has found leads only to
such nodes. When nothing is left to visit, what was found is closed under edges, so
it has every node that can be reached (`ReachLeast`). `Reach` is the least closed
set, an intersection, which takes no induction over paths.

### Platform (`PlatformProofs`)

For any `Program`, as in `Delivery`, and any `Ledger` (`PlatformAssumption`: what
`Delivery` assumes; stamps, percentages and times are in their ranges; an event of the
signature provider is a signature, a testimony or a refusal, of whatever user;
reports are of finitely many nodes and of one at least, as `assess` requires; where
requests are counted, in drafting and in the evaluation of models, they are finitely
many):

| Theorem | Statement |
|---|---|
| `PlatformInvariant` | `Spec => []PlatformInv` |
| `PlatformTyped`, `PlatformOnceOnly`, `PlatformClaimsBacked` | `Spec => []RecordsTyped`, `[]OnceOnly`, `[]ClaimsBacked` |
| `PlatformSerial` | `Spec => []SerialPromises` |
| `PlatformStepsAllowed`, `PlatformReportsMonotone` | `Spec => StepsAllowed`, `Spec => ReportsMonotone` |
| `TrailOfPlatformVerifies` | `Spec => []ChainsLinked` |

The invariants are built as those of `Delivery`: `IInv` of each engine, whatever
races and dies, and on top of it what holds when nobody comes in between or nobody
dies. `DocumentProofs` has what both need of the tables: what one write adds, keeps
and replaces. In each engine another fact carries the proof:

* *Drafting.* A request makes one write, or a document and the draft that names it,
  or changes to templates alone (`Alone`, `Twofold`), so a crash in between leaves one
  of few things half done. Of requests in turn of which none dies, a document without
  its draft has a request whose next write is that draft (`Numbered`), and a template
  taken back a request whose next write publishes its successor (`Replaced`).
* *Execution.* A request for approval that counts `n` steps has `n` approvals by
  others than its requester on record (`Earned`); the decision is written first, so it
  holds after a crash too (`Counts`). Who merges a callback holds the lock and has the
  package as it is in the table, so signatures only grow and a complete package is
  fully signed.
* *Reading.* A version of the contract is numbered by its place and only the last may
  be in force (`InPlace`). Who retires one has its successor still to write, and of the
  successors with the next number none is refused (`Succeeding`): of requests that race
  and do not die, one always puts a contract back in force.
* *Agents.* The key of a registry refuses the second of two that counted the same, so
  versions are the numbers of rows and the newest policy is the only active one
  (`RowsSound`). An entry of memory is appended under a number at most one above what is there
  (`Placed`), and the key leaves only the one in order. A capability stays protected or
  not, so a call made after the check is of one that is not (`Unprotected`). Who takes an
  agent version back has one write left, which activates another, and it is refused only
  if one is active already (`AgentAttends`).
* *Insights.* Failed evaluations are never more than alerts and requests that have
  one still to write (`Flagged`), which counts requests: hence finitely many.
* *Reports* (`ReportProofs`). A report tells of the snapshot it was computed from, and a node has since
  moved at no earlier time (`Told`): so of two reports of one time the later shows no
  node stalled that moved, and none done late that was not late already. Rounding and
  clamping keep order, and a quotient by fewer hours is no smaller (`RoundGrows`,
  `ClampGrows`). A sum over nodes is the cardinality of a set of units (`Total`), so
  that more of each node is a larger set: no induction over the nodes is needed. Of
  work that is due no hours remain, however they are rounded (`ReportsLate`).

### The audit trail (`AuditProofs`)

For any tenants, writers and number of records (`WritersAssumption`):

| Theorem | Statement |
|---|---|
| `AuditInvariant` | `Spec => []IInv` |
| `TrailVerifies` | `Spec => [](ChainsVerify /\ NobodyRefused)` |
| `CommittedRecordsStay` | `Spec => [][CommittedStays /\ AppendOnly]_vars` |

Whoever has read the tail of a chain, or has records of his own that are not
committed, holds the lock (`UnderLock`); so the tail he read is still the tail
(`TailFresh`), his position is free, and what he sees with his own records is a
sound chain (`SeenSound`), which becomes the committed one when he commits. A
sound chain (`Linked`, `Distinct`) is one in which the verifier finds nothing.
`PlatformProofs` applies this to the trail that `Platform` plays: its steps in that
scene are steps of `AuditChain`, and no step changes the scene (`SameTrail`).

### What stays with TLC

* Liveness: `RequestsEnd`, `ApprovalTakesEffect`, `Terminates`. It needs fairness and
  ENABLED, which the provers do not handle.
* What the runs refute.

No module uses a RECURSIVE operator.

## Not modelled

* `AssuranceRouter`: a scoring function whose result Flow OS takes as given
  (`Levels`). `get`, `steps` and `operations.ts` only read.
* The in-memory store, which serves tests and development. Its rollback restores a
  copy of everything, including what others wrote meanwhile; the models have the
  transactions of Postgres.
* Row-level security, tenants and workspaces as scopes, and the mappers between
  documents and rows: every model is of one workspace. The outbox is written and
  not read by the code.
* `identity`, `permissions`, `runtime`, `domain-contracts`: sessions are looked up
  once per request; catalogues, types and schemas have no behaviour of their own.
  Role checks throw before any write, so models consider requests of those allowed.
* `parties`, `organizations`, `legal`, `domain`: facades that append one record.
  `reos`: development tooling. `apps/web`: routes that make one engine call each,
  and rendering.
* In `agent-runtime`, the rate limits, time-outs, costs and redaction of the model
  gateway: a model answers or does not, and a late answer is not used. In
  `workflow-intelligence`, texts and explanations of reports, Engine 75, which appends a proposal of
  remediation, and Engine 77, which checks the ranges of a prediction. In
  `audit-ledger`, the evidence ledger.
* Texts, formats, logging and the arithmetic of money beyond sums and comparisons.
