# SentinelGate in TLA+

SentinelGate is a gateway between AI agents and their tools: every tool call of
an agent is authenticated, evaluated, possibly held for a human reviewer,
executed at most once, and recorded. This directory holds TLA+ modules that
model it, TLC configurations that check them on small instances, and
theorems about them that TLAPS proves for every value of the constants.

`sentinelgate/...` below stands for `src/sentinelgate/...` of the repository.

## 1. Inventory of the system

| Part | State it keeps | Operations | What is hard |
|---|---|---|---|
| Gateway request path (`service.py`, `executor.py`) | nothing of its own; a call in flight carries its decision | `evaluate`, `execute`, `execute_approved`, `_execute_authorized`, `_finalize` | 10 to 15 transactions for one call, other threads between any two; failures between them |
| One-time execution (`storage.py:1453-1469`) | `executions`: one row for a request id | `claim_execution`, `finish_execution` | concurrent retries; a thread that stops after the claim |
| Approvals (`storage.py:1352-1451`) | `approvals_v2` | create, resolve, expire, consume | read early, consumed late; two executions of one approval |
| Containment and tokens (`storage.py:1009-1188,1492-1599`, `api.py`) | `containments`, `quarantines`, `violations`, `incidents`, `agents`, `agent_tokens` | contain, release, revoke, issue; the automatic response to denials | several tables written one after the other; administrators against the gateway |
| Egress budget, sequence rule (`storage.py:1157-1211`) | `egress_events`, `action_events` | reserve, advisory check, record, query | checked long before charged; sliding windows |
| Outbox and worker (`storage.py:722-860`, `worker.py`, `notifications.py`) | `outbox_jobs`, `worker_heartbeats` | enqueue, claim, complete, retry | leases, crashes, lost answers, late workers |
| Audit chain (`storage.py:1324-1350,1687-1701`) | `audit_events` | append, verify | a clock that is set back, several processes |
| Policy engine (`policy.py`) | the loaded policy, runtime tools | `evaluate`, `register_runtime_tool` | which check decides; verdicts that are asked for again later |
| Provenance, taint, lineage (`provenance.py`, `taint.py`, `field_taint.py`) | `lineage_events`, signed tokens | attest, derive, verify, declassify, record | monotone taint across traces, tokens that expire on the way |
| MCP integrity and upstream servers (`mcp_security.py`, `upstream_mcp.py`, `mcp.py`) | `mcp_tool_baselines`, `mcp_tool_observations`, registered schemas | inspect, observe, accept, sync, proxy a call | a definition that changes between review and call |
| Watch (`watch.py`) | `watch_tasks`, `watch_events`, `watch_findings` | create, ingest, observe, analyze | observers that pass each other; failures half way; shared task ids |
| Rate limiter (`storage.py:1471-1490`) | `rate_events` | `rate_allowed` | a clock read before two locks; window edges |
| Identity (`identity.py`, `admin_identity.py`) | none | issue, decode, verify | expiry |
| Connectors (`github_connector.py`, `knowledge.py`) | none | tool handlers | effects that happen although the answer is lost |
| API, console, reports, telemetry, clients, benchmarks, backup | counters only | read, render, drive from outside | - |

How they interact. `api.py` authenticates (`require_agent`, `require_admin`) and
calls `GatewayService` or the `Store`. `GatewayService.execute` evaluates: it
reads the containment, the quarantine and the rate limit, verifies provenance,
asks the policy and the MCP baseline, checks the egress budget and the sequence
rule, creates an approval and queues its notification, records the action,
answers a high-risk denial with a violation, an incident and perhaps a
quarantine, and audits. An allowed call goes on to claim its request id, reserve
its bytes, run the connector, record the outcome and the lineage. Reviewers
resolve approvals through the API; `execute_approved` re-checks and re-evaluates
and joins the same last part. Administrators contain, release and revoke at any
time. Workers share only the store with the gateway. Between two transactions
nothing is held in memory except the local variables of a handler, the loaded
policy and the schemas registered for upstream MCP tools. Calls at
`/mcp/upstream/<server>` first discover and inspect the server's manifest and
register its tools, then take the way of any other call. After each decision and
each execution the gateway lets Watch observe it, in a try block.

Every mutating method of the store is one transaction; a handler is a sequence of
them. So an action of the models is one transaction, or one call of an external
service, and everything else may come in between. The store runs on SQLite (one
writer at a time) or on PostgreSQL at READ COMMITTED, where methods that take no
advisory lock interleave statement by statement.

What makes each part correct is said at its module in section 3; the hazards
behind those properties, each at its line, are in `PROJECT.json`.

## 2. Modules

| Module | What it is |
|---|---|
| `Containment` | agent control: containments, quarantine, violations, incidents, tokens |
| `Gateway` | EXTENDS `Containment`: the request path, approvals, executions, budget, sequence rule |
| `OneShot` | abstract specification: what `executions` promises about a request id |
| `Outbox` | the notification queue and its workers, on its own |
| `Lineage` | provenance tokens and the server's memory of taint, on its own |
| `PolicyEngine` | the verdict of the policy on a call, and calls judged more than once |
| `McpIntegrity` | inspection, acceptance, registration and calls of upstream MCP tools |
| `Watch` | tasks, events, detectors, findings and their trail |
| `Admission` | the rate limiter and the append to the audit chain, with their locks |
| `AuditLedger` | abstract specification: what the audit chain promises |
| `MCContainment`, `MCGateway`, `MCLineage`, `MCPolicyEngine`, `MCMcpIntegrity`, `MCWatch`, `MCAdmission` | instances for TLC: constants, symmetry, views |
| `ContainmentProofs`, `GatewayProofs`, `LineageProofs`, `OutboxProofs`, `McpIntegrityProofs`, `WatchProofs`, `PolicyProofs`, `AdmissionProofs` | theorems and their proofs |

Definitions carry the names of the source where TLA+ allows it.

## 3. What the modules say

### Containment

State: per agent the active `containments` rows in order of creation (a row that
ended is dropped: nothing reads it again), whether `quarantines` has an
unreleased row, how many high-risk `violations` are inside the window, and
whether an incident exists; the state of each token and of each agent; where
each gateway thread is in the response of `_finalize`; where each
administrator's request is.

Actions: `StartResponse`, `CountViolation`, `UpsertIncident`, `QuarantineRow`,
`QuarantineContainment`, `FinishResponse` are the transactions of
`service.py:730-776`; `AbortResponse` stops the thread at any of them.
`ContainAgent`, `RevokeAgent`, `IssueToken`, `ReleaseContainment`,
`ReleaseAgent` are the handlers of `api.py`, with `RevokeTokens` as the second
transaction of a revoking containment and `WriteAudit` as the last one. The two
updates of `ReleaseAgent`, containment and row, are one step on both databases.
`Serialized` chooses the database: when it is FALSE, `CommitViolation`,
`CommitRevocation` and `CommitRegistration` separate what such a transaction has
read from what it commits, with the waits that row locks impose.
`ExpireContainment`, `AgeViolation`, `ExpireToken` are time.

Properties: `ThresholdQuarantines` - a burst of denials leaves its agent blocked,
one of the threshold on SQLite and one longer by `Unseen` on PostgreSQL;
`QuarantineHasIncident`, `RevocationIsFinal`, `BurstIsAnswered`. That a
quarantine containment blocks until it ends does not hold (section 6).

### Gateway

State: what each thread is doing (`work`), `approvals`, `executions`, the
`ledger` of egress charged in the last hour, the traces with a recent
`sensitive` action, and the enforcement mode. Ghosts: how often a connector ran
(`invoked`), which traces an agent has read sensitive data in (`returned`), and
why each thread's agent has been blocked since before it began (`barred`).

Actions: from `Submit` (`require_agent`) along `ReadContainment`,
`ReadQuarantine`, `ReadRow`, `EvaluatePolicy`, `CheckBudget`, `CheckSequence`,
`CreateApproval`, `Finalize` and, for a denial, the response of `Containment`;
from `BeginApproved` along `RecheckQuarantine`, `RecheckRow`, `Reevaluate`,
`ConsumeApproval`; both into `ClaimExecution`, `ReserveEgress`,
`InvokeConnector`, `FinishExecution`, `RecordLineage`. `Abort` stops a thread
anywhere. `/v1/tool/evaluate` alone is an `execute` that stops after `Finalize`.

Abstractions:
- The verdict of provenance, policy, MCP integrity, argument validation, rate
  limit is a free choice of each evaluation, so that the properties hold for
  every policy. `deny` is a denial the response counts (high or critical risk),
  `deny_uncounted` one that it does not (rate limit, quarantine, low risk).
- In observe mode the code skips the rate limit, budget, approval and response
  and never goes on to the execution; warn and enforce do the same as each other.
- A call's arguments are its identity; its size is `Bytes`. A request id is
  executed once at most, so a call is charged once at most and the ledger is a
  set of calls. The limits of size and hour belong to the called tool
  (`SingleLimit`, `HourlyLimit`), the ledger to the agent, as in the code.
- The sequence rule's traces are pairs of an agent and a trace id (`TraceOf`).
- An evaluated read takes less than 900 seconds from its action record to its
  result (`AgeSequence`). A connector that slow would lose the rule's protection
  in the code as well.
- `Approval` bounds the approvals in use at a time. An id is taken again when
  nobody can use its row any more; a creation waits when there is none.

Properties: `AtMostOnce`, `ApprovalSpentOnce`, `EgressBudget`,
`SensitiveReadThenEgress`, `BlockedNeverRuns`, `RestrictedNeverEvaluates`,
`ExecutesOneShot` (refinement of `OneShot`); and `RestrictedNeverRuns`, which
the code does not satisfy (section 6). `EgressBudget` is what the hourly budgets
give together: what an agent sends in an hour through tools whose budgets are no
larger than a tool's is within that tool's budget. Its total is not: after
`send_email` (250,000 bytes in the shipped policy) it may go on through
`github_comment_issue` (1,000,000 by default), and such bytes count against
`send_email` when that is called next.

### OneShot

A request id is claimed once; the connector runs once at most and only under the
claim; the outcome is recorded once, agrees with whether the connector ran, and
never changes. A claim whose thread stopped stays `running`: the system prefers
a call not done to a call done twice.

### Outbox

State: the approval's status as the worker sees it, approvals whose job is not
queued yet, the job rows (status, attempts, owner, lease lapsed, due), the
workers; ghosts: webhooks delivered, leases in force.

Actions: the gateway's two transactions, the steps of `process_one` (claim, look
up, post, complete, report, retry), crashes of either, `LapseLease` and
`ComeDue`. Any step of a worker may raise and lead to the retry, as the `except`
of `worker.py:72` does, also after the job was completed.

Properties: `DeliveriesBounded`, `CompletedIsAccounted`, `LeaseExclusive`,
`SettledIsFinal`, `RetriesGoOn`. That every job settles does not hold (section 6).

### Lineage

One agent of one tenant: every row and every reading is keyed by both.

State: the signed `tokens` the agent holds (trace, digest, taint at the top
level, taint of each leaf), the `lineage` rows as pairs of a trace and an atom
of taint, those of them that are inside the cross-trace window (`recent`), and
for each thread the call it serves, what its last reading of the contexts came
to (`seen`) and the taint of the output in hand (`out`). Ghosts: `given`, the
taint the agent has been given, by trace; `knew`, what of it the agent had when
its call came in - in the same trace ever, elsewhere while it is in the window.

Actions: `Attest`, `AttestStructured`, `DeriveStructured`, `DeclassifyLabels`
are the handlers of `api.py:692-882`. A call is `Submit` (the tokens and the
trace are read), `Deny` or `Allow` (the window is read and the policy decides),
`RunConnector` (and the trace is read again), `DeriveToolOutput` (the window is
read again, the output is signed), `RecordLineage`, `Answer`. `AgeLineage` is
time.

Abstractions:
- Taint is a set of atoms: labels, and "classification is at least c", "trust is
  at most t". With those, `highest_classification`, `least_trusted` and the union
  of labels are all the union of sets, and so is everything the gateway does to
  taint; what a policy blocks is a set of atoms (`Blocked`, `FieldBlocked`).
- The verdict of everything else, approvals, expired tokens, failing connectors
  and failing audits are `Abort`. Executing an approval reads the contexts from
  the beginning (`service.py:308-323`), so it is a `Submit` of its own.
- The reading of tokens and trace is one step with the request's arrival, or
  with the connector's return: only the trace is shared state.
- A connector may answer with any taint, and the agent may keep or drop any token.
- Tool outputs and derived values get arbitrary digests, attested ones those of
  `Inputs`. Digests are compared in one place, where the parents are merged.
- An attestation is recorded with its top-level taint; its leaves' taint is kept
  in the row but read by nobody, so rows hold the top level only.

Properties: `SinkRefusesTaint` - dropping a token, changing the trace, deriving
or declassifying does not get tainted data to a sink; `OutputCoversContext` -
outputs inherit it. Both are about what the agent had been given when the call
came: what another thread gives it later is not in the call. A field rule here
denies; one that asks a reviewer is in `PolicyEngine`. That outputs carry the
taint of the leaves their call was bound to does not hold (section 6).

### PolicyEngine

State: what the running policy says of a tool, the trace's taint summary
(`memory`), and the calls in hand with the verdict, tool and contexts of their
last evaluation.

Actions: `Evaluate`, `Approve`, `ExecuteApproved` (which evaluates again and stops
on `deny` only), `Leave`, `RecordRow` (the summary takes a row in) and `Redeploy`.
`CallChecks`, `FieldVerdict` and `FlowChecks` list the rules in the order of the
code's early returns, with what each of them says when it is broken; the first
broken one is the verdict. An action is one evaluation: everything else on a
call's way only refuses more.

Abstractions: patterns and lengths are a set of refused arguments, the secret
scanner a set of secret ones; trust and classification are ranks; malformed rules
(all of them deny) are left out, and so are simulation and replay. Evaluated calls
of other tools or agents do not meet, so there is one tool.

Properties: `RunsWithinPolicy` - what runs has satisfied every rule, without an
order; on an approval, the limits no reviewer can lift, at the execution and not
only when the approval was given. The exceptions it names are what a reviewer
should know: a rule that asks instead of denying ends the evaluation before later
rules that deny, and mixed trust turns the effect `deny` into a question.
`TaintNeverPardons` - a call that was not allowed does not become allowed by
taking in more data. Without any context it may: `requires_provenance` is
satisfied by the trace's memory, whatever that holds.

### McpIntegrity

State: per server and tool the accepted `baseline`, the last `observation`, the
`schema` registered in this process; what each thread does with which manifest.
Ghosts: `vetted` (the places of a manifest whose definition was the baseline at
some time since the request began), `alone` (those whose name no other server
owned when it began), `accepted` (a reviewer put the baseline there).

Actions: `Discover` answers a request with any manifest of the server;
`InspectServer` is the API's inspection, with or without acceptance. Both go tool
by tool through `ReadBaseline`, `ReadOwners`, `RecordObservation`,
`UpsertBaseline`, each a transaction; a request whose tools are all clean goes on
to `Register`, `Evaluate`, `InvokeUpstream`. `ExecuteApproved` begins at
`Evaluate`. `Abort`, `Restart` and `LapseObservation` are failures, a new process
and the time to live.

Abstractions: a definition is a model value, clean, suspect (a finding that asks
for a review) or hostile (one that blocks). The digest is the definition.

Properties: `WholeManifestVetted` - a call leaves only if every tool of the
refreshed manifest has been accepted or first seen clean; `CollisionBlocksCalls`;
`BaselineIsVetted` - no interleaving of inspections and acceptances makes a
hostile definition the baseline, or a suspect one without a reviewer;
`CallsCleanTool` - whatever is called, approved or not, is known to the process
by a clean schema. What does not hold: that this schema is the refreshed one, and
that a baseline moves by review only. Two inspections that pass each other may
each find no baseline and both write theirs, so that a changed clean definition
replaces the first without a review; a request has still vetted what it uses.

### Watch

State: `tasks`, `events`, `findings` as in the tables; `trail`, the audit rows
Watch writes; the observers. Ghosts: `open` (events whose analysis is not over),
`reviewed`, `unrecorded` (tasks of whose observations one was lost without a
record).

Actions: `CreateTask`; `ObserveDecision`, `ObserveExecution`, `Ingest` take the
stamp of an event; `RecordEvent` inserts it; `Reread` and `Analyze` read the task
and the list and run the nine detectors (`Detected`); `UpsertFinding` and
`AuditFinding` go finding by finding; `Fail`, `RecordFailure`, `Stop` are failures;
`ReviewFinding` is an analyst.

Abstractions: an event is its type, fingerprint, error, whether it was denied or
polls, and its cost; a status report is `end` if its outcome ends the task and
`status` otherwise. The failure row of the gateway names request and agent; the
model's also names the task, which follows from the request. Stamps of one process are distinct. Automatic observation
and its failure change no state outside Watch, so that Watch cannot disturb a
decision is the shape of the module and not a property; what is stated is that
its failures leave a trace (`FindingOnRecord`).

Properties: `EventsBelongToOwner`; `BreachIsReported` - of observers that pass
each other between stamp, insert and list one sees the breach, and a review does
not swallow what came after it; `AlarmsAreJustified` - every finding is borne out
by a count of recorded events, none of them twice, and the two about time by an
event with which the task was still active and late; `FindingOnRecord`.

### Admission and AuditLedger

State: the `rate_events` as a set of rows (a number tells those of one agent and
one time apart), the `audit_events` in the order of their commits, the mutex of each process (`Store._lock`), the database's locks, and the
threads; the backend and each thread's process are chosen at the start, one
process on SQLite. Ghost: the calls `admitted`, never pruned.

Actions: `BeginRate` reads the clock, `AcquireMutex`, `AcquireLock` (BEGIN
IMMEDIATE, or the agent's advisory lock), `CountRate` prunes and counts,
`CommitRate` inserts; `BeginAudit`, the mutex, `AcquireLock` (nothing on SQLite,
the chain's advisory lock on PostgreSQL), `ReadLast`, `AppendRow` with any
reading of the clock, which on SQLite waits for the write lock; `Release`, `Fail`.

Properties: `RateBound` - as the clock is read before the locks are waited for,
the bound holds over a window shortened by the longest wait (`MaxDelay`), and that
is what is stated; `ChainVerifies`; `KeepsLedger` - the chain in the order in which
it is listed and verified refines `AuditLedger`, where a row is only ever added
after all others and linked to the last one, also when the clock is set back;
`MutexComesBack`.

## 4. Runs

| Run | Shows | Instance |
|---|---|---|
| `ContainmentSqlite` | burst, incident, revocation with one writer and failing handlers | 1 agent, 2 gateway threads, 1 administrator, 2 tokens, threshold 2, 2 containments |
| `ContainmentPostgres` | a burst longer by one than the threshold is not missed, the block holds, and is reached, at READ COMMITTED | 2 threads, 1 administrator, 1 token, threshold 2, 1 containment; no handler fails |
| `GatewayExecution` | one execution, one use of an approval, budgets, refinement of `OneShot` | 2 threads, 2 requests of 2 bytes through 2 tools with budgets of 2 and 3 an hour, 1 approval, crashes |
| `GatewaySequence` | sensitive read against egress in one trace | 2 threads, a read and an egress call, modes enforce and observe, crashes |
| `GatewayBlocked` | a block that lasts is never passed | 2 threads, 1 call, 1 administrator with everything he can do |
| `OutboxDelivery` | bounded, accounted deliveries; nobody gives up early | 2 approvals, 2 workers, 2 attempts, crashes |
| `LineageTaint` | sinks refuse, outputs inherit what the agent had been given | 2 threads, 2 traces, 2 tools, 1 atom, 1 token kept, 2 references in a call |
| `PolicyVerdicts` | what runs satisfies the policy; taint pardons nothing | 148 policies (every field rule, tool rule, sensitivity, effect), 17 calls, 5 kinds of rows, one call in hand |
| `McpServers` | nothing unvetted becomes baseline or is called | 2 servers, 1 name, 4 definitions (2 clean, 1 suspect, 1 hostile), manifests of 1 or 2 tools, 1 request, 1 inspection |
| `WatchTasks` | breaches are reported, alarms are true, findings leave a trace | 1 task id, 2 agents, 2 observers, 3 events, 5 instants, 1 failure or review |
| `AdmissionLocks` | limit, chain, refinement of `AuditLedger`, no waiting for ever | 2 threads of one process or two, both databases, 2 agents, limit 1, 5 instants, 2 rows |
| `RestrictionBypassed` | counterexample, section 6 | 1 thread, 1 approval, 1 restriction |

Why the bounds suffice. All shared rows are per agent or per request, and no
action relates two agents, so one agent brings every conflict. Two threads are
enough for every race of the code, which is always between a check and the use
of it. For the budgets it takes two requests through two tools: each call fits
its tool's budget alone, and neither fits after the other.
A third containment can only repeat what two show: one in force, one hidden.
`MaxViolations` saturates at the threshold, above which nothing is decided, and
on PostgreSQL at `Threshold + Unseen` = 3: two threads can each commit one
violation unseen by the other, so 2 committed ones prove nothing yet (the
property stated with `Unseen - 1` is violated).
`MaxContainments` drops the oldest row when the automatic response finds no free
place, as if it had expired, and stops administrators from adding one more.
Two attempts are the least with a retry and a last attempt.
In `PolicyEngine` the calls in hand share nothing but the policy and the memory,
which change at any time anyway, so one is enough; a field and a tool are judged
alone, so one of each brings every order of the checks, and a label, two levels
and three ranks of trust every comparison.
In `McpIntegrity` a second name would only repeat the first: tools of a manifest
meet in `clean`, which a manifest of two entries shows, and in their name, which
the hostile pair shows. One request and one reviewer bring every race between an
inspection and an acceptance; two acceptances at once write one after the other.
In `Watch` the thresholds of counts and costs are 1 or 2 and those of time 3, so that the three
events of a behaviour breach each detector, also inside the window that `Delay`
shortens (2 by 1), which is enough for two observers to pass each other. The list
limit of 500 does not bite in this instance: the properties are stated below it,
and what happens above it is in section 6. `MaxUpsets` allows one failure or one
review in a behaviour.
In `Admission` a limit of 1 makes every second call a violation of it, and two
rows are a predecessor and a successor.
In `Lineage` every operation treats an atom without looking at another, so one
atom, blocked by one tool and not by the other, brings every case; two traces
are a trace and the others. With `MaxTokens` 1 an agent that receives a token
may still keep it in the place of the one it has, and 2 references are a token
shown whole and a leaf of it. `LineageProofs` has no bound.

Threads and approvals are interchangeable (SYMMETRY; never with a liveness
property). The three large gateway runs also use a VIEW (`MCGateway`): it leaves
out counters that no guard reads, ghosts other than those of the run's
properties, how a finished execution ended, and what is in an approval row
nobody can use any more. Each of these is written but never read by the
remaining state, so two states with the same view have the same future as far as
the properties of the run can see. `LineageTaint` has one too (`MCLineage`): of a
call in hand it keeps what its remaining steps and the properties read.
So have `McpServers` (what an inspection has made of its readings instead of the
readings; schemas only as clean or not) and `WatchTasks` (without the kind of a
review, audit rows no property reads, and the clock while nobody reads it), each explained at its definition.

Deadlock is checked where an administrator can always act. Without one, an agent
without a live token and with a permanent quarantine row has nothing left to do,
and an outbox whose jobs are settled is at rest.

### Fairness

Safety is checked without fairness, except for the outbox where one specification
serves both. `ContainmentFairness`: a thread that is in the middle of a response
or of an administrator's request goes on (threads of the server are scheduled),
and rows expire. Nothing makes an administrator or an agent call.
`OutboxFairness`: every worker keeps polling, and after a crash is started again
(`worker.py:100-132` loops for ever; the deployment restarts it); leases lapse and
retries come due because time passes. Delivery itself is never assumed to
succeed. Weak fairness is enough: a worker's next step stays possible until taken.
`AdmissionSpec`: a thread in the middle of an operation goes on, and a thread
that waits for the database gets its lock if that is free again and again
(PostgreSQL queues its waiters, SQLite's busy timeout retries or fails the
transaction). For the mutex of its process nothing but weak fairness is assumed:
a thread may wait however long others take it, and `MutexComesBack` holds
nevertheless.

## 5. Proofs

TLAPS checks every theorem below for all values of the constants that satisfy
the named assumption of the module it is about: any agents, threads, calls,
approvals, servers, policies, thresholds, budgets and bounds. The assumptions say
that numbers are numbers, that `None` and its like are not members of the sets
they stand beside, that what is given belongs to what it is given for (a call has
an agent), that there is an agent, a thread, a call or an approval to speak of
(`Agent`, `Handler`, `Call`, `Approval` are not empty), that an analysis takes less time than the
window of the thresholds (`Delay < Window`), and that three sets are finite
because they are summed over or counted: `Call` in `GatewayAssumption`, `Thread`
in `AdmissionAssumption`, `Handler` in `ContainmentAssumption`.

Each safety theorem comes from an invariant that is inductive; below is what the
stronger parts of it say, and why the property does not carry itself.

`ContainmentProofs`
- `ContainmentTyped`: the type invariant, on either database.
- `BurstQuarantines`, `IncidentExplains`, on either database; `RevocationLasts`
  under the hypothesis `Serialized`, without which it fails.

  The three follow from `ContainmentInv`, the type invariant with four parts.
  `RowWritten`: a thread past `QuarantineRow` has left the row, unless the agent
  was excused since. `IncidentFirst`: a thread past `UpsertIncident`, and every
  row, has an incident. `BurstAccounted`: an agent that was not excused has its
  row, or somebody who counted the threshold is on the way to it, or the
  committed violations and those that were counted but are not committed
  (`AllMissed`) are together fewer than a burst - the property alone is not
  inductive, as it says nothing while a response is under way. A denial that
  counts less than the threshold leaves room for all threads beside it, which is
  where `Unseen` comes from. `TokensAccounted`: a token that is dead has its own
  mark, or no registration can have revived it.

`GatewayProofs`
- `ContainmentRefined`: every step of `Gateway` is a step or a stutter of
  `Containment`, so the theorems above hold of the composed system. Only
  `Finalize`, `Responded`, `Abort` and administrators move its variables.
- `GatewayTyped`, `ConnectorRunsOnce`, `OneApprovalOneExecution`,
  `OneShotRefined` follow from `GatewayInv`: a thread between claim and finish
  owns a `running` row, and no other thread is there with its request
  (`ClaimHeld`); the connector's count is 0 until the claim's owner is past the
  call (`RunsCounted`); an approval behind a thread past its consumption is
  consumed and behind no other such thread (`ApprovalHeld`), which needs that a
  held approval is not given out again.
- `BlockedAgentsWait`, `RestrictedToolsWait` follow from `AllScreened`: the
  causes that have lasted since a thread began shrink as it passes the checks.
  A cause that is still there at the check that looks for it ends the call, so
  past the check it is not among them, and it cannot come back.

- `ReadsHoldEgress` follows from `SequenceInv`: a trace in which an agent was
  given a sensitive result is recorded as such (`returned` is in `sensitive`),
  which needs that an evaluated read past its authorization already is; and a
  call that came when its agent had such a result finds the record at the
  sequence check, so that as an egress call it is past the check with `allow`
  only in observe mode, where nothing is executed (`Warned`).
- `BudgetIsKept`: a reservation reads the sum and adds its bytes in one
  transaction, so the step itself is short; the work is in the sum over the
  ledger. Every induction theorem of the library takes an operator as a parameter,
  which the provers cannot instantiate; so that the sum grows by a call's bytes
  (`SizeAdds`) and that a part of a ledger is no larger than the whole
  (`SizeOfPart`) is shown for finite sets of calls by a least counterexample: a
  smallest set for which it fails would have a smaller one (`SmallestSet`). A
  reservation holds all bytes of its agent within the called tool's budget,
  hence those of any selection of tools; and it only adds to the selections of
  the budgets that are at least the called tool's (`BudgetStep`).

`LineageProofs`, under `LineageAssumption` and `InputsAssumption`: any atoms,
traces, tools, policies and threads.
- `LineageTyped`: the type invariant.
- `SinksRefuseTaint`, `OutputsCoverContext` follow from `LineageInv`, the type
  invariant and the two properties with `Memory`: what the agent has been given
  has its row (`GivenRecorded`), for which an output that is being answered must
  have its own (`RowWritten`); what it knew when a call came is still in the
  rows of the call's trace or in the window (`Remembered`); and the first part
  of a reading holds the tokens and the trace's share of it (`ContextRead`).
  `ContextCovers` then says that the window, read last, adds the rest, although
  rows have left it in between.

`OutboxProofs`, under `OutboxAssumption`; all five from `OutboxInv`, or from its
type part.
- `OutboxTypeCorrect`: no claim raises `attempts` over the limit.
- `DeliveriesAreBounded`: a post cannot be seen in the row, so the invariant
  counts the workers that may still make one: posts made and posts that may come
  are no more than the attempts counted (`AttemptsCover`).
- `CompletedJobsAreAccounted`: a worker about to complete a job has posted it or
  seen the approval resolved (`CompletingIsAccounted`), and neither goes away.
- `LeasesAreExclusive`: an unexpired lease belongs to the worker the row names,
  or the job is completed (`LeaseHeld`), so a second claim finds no free row.
- `SettledJobsAreFinal`, the action property: every update of a late worker is
  guarded by its name and the status `processing`.

`McpIntegrityProofs`, under `McpAssumption`: any manifests, any order of
inspections, acceptances, restarts and failures.
- `McpTypeCorrect`; then `ManifestsAreVetted`, `CollisionsBlockCalls`,
  `BaselinesAreVetted`, `CallsAreClean` from `McpInv`. Its part `TasksSound` says
  what an inspection half way means: while it is `clean`, every tool before the
  present one was the baseline at some time since it began, had a name nobody else
  owned, and no finding (`Passed`); what it has read of the present tool holds of
  it (`Unremarkable`); a name that was owned elsewhere stays so. A request that
  evaluates a call therefore comes from an inspection that minded no tool
  (`Founded`), and a schema of this process is of a clean definition
  (`SchemaClean`).

`WatchProofs`, under `WatchAssumption`.
- `WatchTypeCorrect`; `EventsAreOwners`: an observer that may still write for a
  task is of its owner (`WorkersOwn`), for a task never changes hands, also when
  two observers create it at once.
- `FindingsAreOnRecord`: a finding has its row, or somebody is going to write it
  (`WillRecord`), which each failure turns into a record or into a loss that
  the caller is told of.
- `AlarmsAreTrue` and `BreachesAreReported` rest on a second invariant
  (`FindingsInv`), proved on top of the first:
  - No two events have one stamp (`Stamps`), an observer works on its event within
    `Delay` (`InTime`), a task has cost what its events cost and is active until one
    of them ends it (`Costs`), and the row an observer has read accounts for its own
    event and all before (`RowsRead`); if that row is active, none of them ended it.
  - What an observer has still to persist is borne out already (`AlarmsPending`).
    `DetectedJustified` says so of an analysis, code by code: a burst is counted
    from the earliest event of it (`Earliest`); a call of the present phase is
    after all progress, recent or not. `JustifiedGrows`: later events take
    nothing of that away.
  - What is due of an event is among what its own observer has still to persist,
    or is reported (`BreachesPending`). Observers pass each other between stamp,
    insert and list, but the one whose event is the k-th lists the first k at
    least, so `DetectedMore` compares the two analyses; later events only take
    from what is due (`DueStays`), and a review only covers what came before it.
  - Two kinds of operators stand in the way. The detector of cycles orders
    fingerprints by their stamps: a place is given by the number of events before
    it (`RanksGrow`, `OneInPlace`), so the events from a time on are the end of
    the list (`LastFingerprints`), and a longer list has the cycle of its end
    (`LongerIsCyclic`). Costs are summed with a fold, which takes the elements in
    an order that CHOOSE gives: that adding an event adds its cost (`CostGrows`) is
    proved with a least counterexample, since the library's induction theorems
    are out of reach.

`PolicyProofs`, under `PolicyAssumption`: any policies, any number of field rules.
- `RunsAreWithinPolicy`: the checks come one after the other, the property has no
  order. `FirstDecides` and `VerdictCases` take the verdict apart once: it is
  that of a broken check, and `allow` only when none is broken.
- `TaintDoesNotPardon`: contexts that are worse, each of the old ones covered by
  a new one (`Covered`), break every check that was broken (`WorseIsRefused`). The
  check that demands provenance is the exception, and why the property assumes a
  context. The invariant keeps for each call that what its agent knows now covers
  what it was refused by (`StillRefused`).

`AdmissionProofs`, under `AdmissionAssumption`, on both databases.
- `AdmissionTypeCorrect` includes that only the mutex's holder is past it. With
  `LocksHeld` it excludes two counters of one agent, or two appenders, at once.
- `RateIsBounded`: who has counted and is going to insert still finds room in
  every window its row will lie in (`RoomFor`). That needs that a pruned row is
  older than any call under way can reach (`OnlyOldPruned`, `Timely`), since a
  thread that read its clock late may prune before one that still waits.
- `ChainAlwaysVerifies` and `ChainKeepsLedger`, the refinement of `AuditLedger`:
  who is about to append has read the last row of the chain as it is
  (`AtTheEnd`), and each row is later than all before it and linked to the one
  before (`Linked`), so the listing by time is the order of the commits and an
  append adds one row at its end.

Every invariant and every action property of a run is a theorem. Only
model-checked:
- The liveness properties `BurstIsAnswered`, `RetriesGoOn` and `MutexComesBack`:
  they rest on fairness, and the provers at hand do not reason about ENABLED.

## 6. Where the code and its documents differ

The second has a run that shows it (`RestrictionBypassed`); the others are read
off the modules' actions, and the properties are stated so that they hold
beside them. All are quoted in `PROJECT.json`.

1. A newer containment hides an older one.
   `active_containment` (`storage.py:1127`) looks at the newest row in force only,
   so a `monitor` containment lifts a manual `quarantine`;
   `docs/ARCHITECTURE.md:115` says quarantine blocks for its whole duration. An
   automatic quarantine has its own row and is not affected
   (`ThresholdQuarantines`, proved).
2. `execute_approved` does not look at a restriction (`RestrictionBypassed`);
   `docs/ARCHITECTURE.md:114` says only the named tools are allowed.
3. `execute_approved` does not look at the enforcement mode:
   an approval from before a redeployment to observe mode runs the connector;
   `SECURITY.md:48` says observe mode never does.
4. A worker that stops in a job's last attempt leaves it `processing` for good;
   `docs/OPERATIONS.md:12-13` says it is moved to `dead`.
5. A tool output inherits the top-level taint of its parents only: the branch of `derive_tool_output` that joins field taint is
   never reached from the gateway (`provenance.py:165`, `service.py:492`), and an
   attested row counts in a trace by its top level. `docs/TAINT_MODEL.md:18-19`
   says no tool can declare data cleaner than its ancestors.
6. After a reviewer accepted a changed upstream definition, calls are validated
   against the old schema until the process restarts (`executor.py:80`), and an
   approved call is executed without a refresh (`service.py:326`);
   `SECURITY.md:52` says definitions are refreshed and enforced before each call.
7. Watch counts calls among the newest 500 events, so that a tool budget of 500
   or more is never exceeded (`watch.py:176,281`); of agents that share a trace id
   it observes the first only, and a task the gateway created first keeps its
   defaults (`storage.py:386-393`); `docs/WATCH.md:3,29`.
8. A field rule that asks a reviewer ends the evaluation before the tool's
   `blocked_taint_labels`, which `docs/TAINT_MODEL.md:34` says always prevent the
   transition; a call held so is executed once approved (`policy.py:250`).
9. `docs/TAINT_MODEL.md:33,36` names `classification_violation` and
   `require_provenance`; the code reads `classification_violation_action` and
   `requires_provenance` and ignores the others.

Also seen while modelling:
- Approval and notification job are committed in two transactions
  (`service.py:175`); `README.md:301-302` says in one. A gateway that stops in
  between (`CrashCreator` in `Outbox`) leaves an approval nobody is told of.
- `declassify_labels` computes the top-level labels again from the leaves
  (`provenance.py:426`), so a `prompt_injection` that a derived value carries at
  its top level only (`provenance.py:307`) goes with any declassification;
  `docs/TAINT_MODEL.md:50-51` says only allowlisted labels can be removed. The
  rows of the trace keep it.
- A read that needed approval is recorded in `action_events` when it is
  evaluated. When it is executed on the approval, more than 900 seconds later, the
  sequence rule no longer sees it. `SensitiveReadThenEgress` is therefore
  stated for evaluated reads.
- At READ COMMITTED, denials recorded side by side each miss the other's row, so
  that the burst is noticed late, by one denial less than there are threads; a
  burst that ends there is not answered (`ThresholdQuarantines` with its `Unseen`).
- At READ COMMITTED, a token whose registration commits between the two
  statements of a revocation keeps its NULL `revoked_at`; it is unusable as long
  as the agent is revoked, and usable again after the next registration.
- `release_agent` writes no audit record when it ended containments only
  (`api.py:1190`).
- The automatic quarantine's row has no expiry (`storage.py:1535`), although
  containment is said to be time-bounded; only an administrator ends it.
- Mixed trust replaces the effect of a sensitive tool by `require_approval`, also
  when it is `deny` (`policy.py:216`).
- `execute_approved` executes when the current verdict is `require_approval`,
  whatever reason the approval was given for.
- A baseline may change without a review when two inspections of a server pass
  each other before the first one is written (`mcp_security.py:122`);
  `SECURITY.md:50` says silent changes fail closed.
- The audit record of a failed observation is written outside the try block
  (`service.py:795`): when the store fails, the caller gets an error instead of
  the decision that is already recorded.
- Two processes on one SQLite file have no lock in common for an append;
  `SECURITY.md:77,140` excludes that deployment, and so does `Admission`.

## 7. Not modelled, and the plan

Left out for good: cryptography and encodings (`identity.py`, the encrypted
payloads), regular expressions over text (`security.py`), the external services
behind the connectors, the console, reports, telemetry, benchmarks, clients and
backup tools: pure input/output or pure text.

Left out of the modelled parts, for the reasons given in section 3: `simulate` and
`replay_policy` (no enforcement state), heartbeats, malformed policy rules,
`watch_simulator.py`, paging of upstream manifests, OIDC sessions. A composition
of `PolicyEngine` with `Gateway` would replace the free verdict by a smaller set
of behaviours: every safety property of `Gateway` holds of it already.

Next: the revocation on PostgreSQL, where what holds of a token that a registration
races has still to be stated; liveness, when a prover at hand reasons about
ENABLED.
