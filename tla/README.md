# Flux: specifications, model checks and proofs

Flux forwards TCP and UDP at layer 4 with the Linux kernel. One **Controller**
(SQLite, a management API, a gRPC service inside a Noise channel) keeps a
*desired state* per node, numbered by *generations*. One **Agent** per node
installs a desired state in nftables, tc, ip links/routes ("fabric") and
conntrack, reports results and usage, and must keep forwarding when the
Controller is away. This directory holds TLA+ models of that system, translated
from the Go source, the TLC runs that check them and the TLAPS proofs.

Paths below are relative to `src/internal/` unless they start with `src/`.

## 1. Inventory

| component | state | operations | correct when |
|---|---|---|---|
| **Agent reconciler** `agent/reconciler.go`, `agent/store.go` | `state.json` (applied, pending), an operation lock, the kernel | `Apply`, `Recover`, `Audit`, `Refresh`, `Purge`, rollback | the record always explains the kernel; a failing command is undone; nothing goes back to an older generation; the node comes back by itself |
| **Dataplane backends** `dataplane/{nft,tc,fabric,conntrack}` | nftables table, qdiscs/filters, links/routes, flows | inspect, apply, verify, clean up | an nft batch is atomic; tc and ip batches are not, and are verified and repaired |
| **Usage metering** `meter/tracker.go`, `collectUsageLocked` | per epoch: last counter values, sequence | `Observe`, collection before every replacement | each byte is counted once |
| **Usage delivery** runner, reconciler outbox, `store.RecordUsageBatch` | Agent outbox; `usage_batches`, `usage_rollups` | collect, send, record, ACK | each batch is billed once, none is forgotten before it is recorded |
| **Control channel** `agent/controlclient/runner.go`, `controller/control/server.go`, `controller/store/store.go` | generations and node row in SQLite; per-stream state; Agent record | publish, Hello, send snapshot, apply, report, record, clean up after a forced deletion | the Controller never believes more than is true, and learns it in the end |
| **Backup and restore** `controller/archive` | one archive file | online backup, restore | Agents return to the new Controller |
| **Cluster plans and rollout** `cluster/rollout.go`, `controller/store/cluster.go` | plans, rollouts, stages, baselines, placements | plan, publish stage, ACK, canary bake, compensate | make before break; every rollout ends complete or compensated |
| **Scheduler, VIPs, traffic classes** `cluster/scheduler.go`, `store` | placements, bindings | place, allocate, preserve, release | forwards are on nodes that are there and have room, and stay where they are while they can; allocations are disjoint |
| **Forward intent and deletion** `controller/management/forward.go`, `store/cluster.go` | plan revisions, lifecycles | create, edit, drain, force, finalize | no edit is lost; a forward disappears only after every node dropped it |
| **Node commands** `controller/control/commands.go`, `agent/controlclient/commands.go`, `controller/management/commands.go`, `agent/maintenance` | waiting requests, the command under way, the maintenance request, the binary | upgrade, uninstall, answer, acknowledge, time out | an answer reaches its own request; an uninstalled node is revoked; an upgraded Agent runs |
| **Enrollment, identity** `controller/enrollment`, `agent/enrollment`, `store/nodes.go` | tokens, node keys, key files | issue, redeem, retry, revoke, delete | one host holds the node ID; a lost answer is repaired by a retry; a revoked node cannot come back |
| **Outbox and notifier** `controller/control/worker.go`, `notifier.go`, `store.ClaimOutbox` | leased events | claim, deliver, release | nothing is lost; duplicates do no harm |
| **Policies, tenants, quotas** `store/*_enforcement.go`, `EnforcePolicies` | tenant policy, periods, deadlines | evaluate, pause, clamp | what is forbidden is paused on every node, in the plan as well |
| **Health, DNS targets** `health`, `targetdns`, `store/dns_targets.go` | thresholds, observations, resolved addresses | probe, report, resolve, place anew | hysteresis; no flapping; targets the policy allows |
| Secure channel, validation, logins and reads of the management API, instance lock, command lines, web console, generated code | | | not modelled, or only where they touch the above, see section 8 |

**Interaction.** The Controller publishes a generation in one SQLite
transaction; the stream handler of the node sends the newest one it owes (on
Hello, on a notification, on a timer). The Agent writes it to `state.json` as
*pending*, drives the kernel, writes it as *applied* and answers. A maintenance
goroutine of the Agent audits, refreshes timed views and collects usage, with or
without a session; its results travel over the session as well. Usage goes into
an outbox in the same `state.json` and leaves it by an ACK.

**What is hard here.** A process that can die between any two of about ten
kernel commands, two of which are not atomic; a rollback that can itself fail;
two goroutines of the Agent reporting over one stream; streams that have ended
but whose last message is still being handled; retries of everything; a record,
a kernel and a database that must agree after any of it; and on the Controller
four writers (users, two enforcers, a finalizer) that read one plan and write it
later, with node-local policies publishing behind the plan's back. Every hazard
is listed in `PROJECT.json` at its source line with the properties that would catch it.

## 2. Plan

Done, in the order of importance:

1. `AgentRecord`, `Reconciler`: the dataplane transaction. Proofs in `ReconcilerProofs`.
2. `UsageMeter`: counters, epochs, replacements.
3. `Ledger`, `UsageDelivery`: outbox, ACKs and the bill.
4. `ControlChannel`: generations and results between the two sides, restore.
5. `RolloutStages` and `Rollout`: plans, stages, ACK gates, canary bake, time-out
   and compensation over several nodes, with a quota pause that publishes behind
   the rollout's back.
6. `Enrollment` and, composed with it, `NodeCommands`: how a host becomes a node,
   what the owner has it do, and how it ends.
7. `ForwardIntent`: users, policies, quotas, expiry and the finalizer, all writing
   one plan.
8. `Failover`: probes, reports, names and the scheduler.

The proofs follow the same order: `ReconcilerProofs`, `UsageMeterProofs`,
`UsageDeliveryProofs`, `ControlChannelProofs`, `RolloutProofs`, `EnrollmentProofs`
and `NodeCommandsProofs`, and `ForwardIntentProofs` (section 7).

Every safety property of the passing runs is proved but `Undisturbed` of `Failover`. Of the
system itself, VIP and traffic-class allocation and the outbox are left.

## 3. Modules and their correspondence to the code

A definition named `X_Y` is `X` with the plausible mistake `Y`. It belongs to no
specification; it is there to show that the property listed with it in
`PROJECT.json` notices the mistake.

### AgentRecord (abstract)
What the durable record promises: `Accept` a newer desired state as pending,
`Install` the pending one as applied, and nothing else. `Reconciler` is shown to
implement it (`ImplementsRecord`), and `ControlChannel` uses it as its model of
the Agent, so the two levels fit.

### Reconciler
One process and the kernel. `op` is the operation holding the reconciler's lock
and its control point; `applied` and `pending` are `state.json`; `nft`, `tc`,
`fabric`, `flow` are the kernel. Each external command (nft script, tc batch, ip
batch, conntrack deletion, file save) is one action that succeeds, fails, or -
tc and ip batches, which run with `-force` - fails leaving any part of its work
done. `Apply`, `Recover`, `Audit`, `Refresh` and `Purge` start an operation with
the guards and early returns of the code (`KernelAccepts`, `SaveCurrent`,
`Refuse`, `WriteAhead`); `StartRollback` and the `Rollback*` actions are
`withRollback` and `rollbackDataplane`, which continue past failing commands.
`Crash`, `Reboot`, `Drift` (somebody changes the kernel) and `ForeignTable`
(a table of that name that is not Flux's) are the environment. Contents are
model values; `FabricOf`, `TcOf` and `CounterOf` say what a content asks of each
subsystem; `Timed` contents have a view that changes with the clock (a lifecycle
that ends), which is what `Refresh` is about.

### UsageMeter
The counter of one forward through successive programs: `count` in the kernel,
the last reading and epoch in the record, `emitted` what was billed, `real` what
passed. `Delta` is `Tracker.Observe`: subtract within an epoch, start over when
the epoch or the value went back. The ghost `window` counts what passed between
the last reading of a table and its replacement; `history` records which of the
known troubles have happened.

### Ledger (abstract) and UsageDelivery
A batch is due when collected and billed once. `UsageDelivery` has the outbox,
the FIFO streams in both directions, `late` (batches of ended streams whose
handler may still run), the `usage_batches` table with its conflict rule and the
roll-up. `LongOutage` is the passing of more than ten minutes, the age at which
`handleEvent` refuses a batch.

### ControlChannel
One node. `gens` is the table of generations with their status, `nodeApplied`
the node's column, `conn` the stream's `connectionState`, `uplink`/`downlink` the
stream, `late` results of ended streams, `applied`/`pending` the Agent's record,
`localResult` the slot through which maintenance hands a result to the session.
`RecordApplyResult` includes the publication of the cleaned state after a
generation with forced deletions. `Backup` and `Restore` are the migration.

### RolloutStages and Rollout
`RolloutStages` holds the pure part, `BuildRolloutStages` and what prepares its
input. A node state is the node's forwards and the peers of its links; a forward
is its two nodes, listener, target port, lifecycle (active or paused) and
resource version. `Prepare`, `Promote` and `Cleanup` are the three phases of
`appendWaveStages`; `Patch` is one mutated node; `SafeRollout` collects what is
refused with `ErrUnsafeRollout`. The hash order of the canary is a choice.

`Rollout` has one plan: its revisions, `active`, `planPaused` and `lastError`
(`cluster_plans`), the committed `placements`, and the latest rollout with its
stages, their node rows and the baselines. `gens` is `node_generations` per
node. Each store method is one transaction on one connection, hence one action;
a restart of the Controller loses nothing. A plan is the set of layouts the
scheduler may choose from at that revision, so a node that goes offline is
`ReconcileClusterPlans` choosing another layout, and `ScheduleBlocked` is
`ErrNoPlacement`. Agents apply generations in their order, possibly skipping
some, at any time; an apply result may arrive late or never. The disjuncts of
`AdvanceClusterRollouts` are the branches of `advanceClusterRolloutTx`; time is a
choice (a stage without all ACKs may time out, a bake may end). The ghost
`quiet` records that every Agent was up to date when the rollout was scheduled.
`Scenarios` are the plans a behaviour starts from, so that one run covers a
canary move as well as a failover under a quota pause.

### Enrollment and NodeCommands
`Enrollment` has one node ID. `node`, `keys` and the tokens are the Controller's
tables; each host has a pending and an identity file and an install command that
is under way. `CompleteEnrollment` is the transaction of that name, with its
three outcomes `Repeats` (the same key again), `Consumes` and refusal; requests
may be processed after their client has given up. `NodeCommands` EXTENDS it for
one of the hosts: `broker` is the connection the `CommandBroker` would send to,
the requests are the management handlers waiting in `Dispatch`, `active` is the
command the Agent is busy with, and the maintenance service is a process of its
own (`LoadRequest`, `Backup`, `InstallStaged`, `VerifyVersion`, `Rollback`,
`RemoveFiles`) that systemd finishes although its starter has given up. Streams
have a handler each, which after the hello (`OpenSession`) authorizes the key
(`AuthorizeHello`), records the hello (`RecordsHello`) and registers the connection
(`Register`), waiting for the database each time: handlers of several streams
overtake each other at every step, and may return long after a newer stream was
opened. Results a handler has read are still handled, acknowledgements of a broken
stream are lost. The history variable `overtaken` records that another handler has
registered after that of the Agent's current stream.

### ForwardIntent
`revisions`, `active` and `planPaused` are the plan; `desired` the latest
generation of each node, `applied` what it runs. A caller - a user's request or
one of the worker's three functions that write the plan - reads the plan into
`request` and applies it in a later step with the next revision number;
`RevisionConflict` and an active rollout make that fail. The ghost `base` of a
request is the revision that was active when it was read. `EnforcePolicies`,
the quota pause of `RecordUsageBatch` and the clean-up after a forced generation
publish to single nodes and raise the resource version of the forward there, which
is how `preserveRuntimeLifecycles` tells them from the plan. A rollout publishes
a canary, then the rest, and may fail.

### Failover
Ages instead of clocks: a `Tick` is the moment at which an interval has passed since
the latest probes were started, so that they are due again. What was observed *a*
ticks ago is at least *a* intervals old and less than *a* + 1, provided that a
round, from being due to the last of its reports being handled, takes less than an
interval; it is `Fresh` while *a* is less than `StaleAfter`. `probes` is the state of the `Engine`, `last` what the
Runner would send, `stream` and `late` the reports under way, `observed` the
Controller's table. `Place`, `chooseNode`, `chooseBackend`, `preferredBackend`,
`fits` and `consume` are the functions of `scheduler.go` of the same names,
`Resolve` and `resolvePlanTargets` those of the names. A rollout is one step that
ends well when the nodes it changes have a session and have applied it, and is
compensated when one has none: Rollout has the stages. While a command keeps the
Agent busy, rounds are skipped (`SkipRound`). The ghost `steady` has the nodes and
backends for which the Controller has recorded "healthy" and which the node has been
able to reach, probe and report without interruption since.

## 4. Runs

| run | question | answer |
|---|---|---|
| `reconciler` | does the record stay valid and explain the kernel through failures, half-done commands, rollbacks, crashes, reboots, drift and purge; do the subsystems together implement one durable snapshot; does no flow survive a forced deletion; does the record implement `AgentRecord`; does the Agent alone return to a committed state when failures stop | yes; the return, unless a foreign table or lost counters stand in the way |
| `reconciler_last_known_good` | does it return even then, as PROJECT.md promises after a restart | **no** (finding 1) |
| `usage_meter` | is nothing billed twice, and nothing lost outside the window before a replacement | yes, unless an installation stays in the kernel uncommitted |
| `usage_delivery` | do ACKs cover what they make the Agent forget; is every batch billed once, and in the end | yes; in the end, when no outage exceeds ten minutes and the outbox does not fill |
| `usage_delivery_outage` | and after a longer one | **no** (finding 2) |
| `control_channel` | is the Controller never ahead; are snapshots never refused as stale; is cleanup published once and in place; does the Controller learn that the desired state runs, or show a permanent error | yes; it learns unless a restore lost generations |
| `rollout` | with canary, bake, refusals, failures, time-outs, a failover and a quota pause at any moment: does no ingress send to an exit that is not ready; do the nodes of a settled rollout run the committed placements; does a later rollout keep the pause; does every rollout end | the path is preserved when the rollout started with every Agent up to date, until it is compensated, but for a port that is changed in place; placements agree; the pause is kept; every rollout ends unless an error overtakes its compensation |
| `rollout_stuck` | does every rollout end even then | **no** (finding 3) |
| `rollout_blocked` | is a plan that shows no error published | **no** (finding 4) |
| `node_commands` | with competing hosts, lost answers, broken streams, crashes and time-outs: is one key valid and never lost; does a revoked node stay out; is a removed Agent revoked and unused; does an upgrade that reports success run; does no answer end a session; is the stream of the Agent the one commands are sent to; is the Agent released from every command | yes; commands reach the Agent's stream unless the handler of an older one registers late; removed means revoked unless the request timed out, the Controller died or the revocation failed |
| `forward_intent` | with concurrent requests, enforcers, plan-rollback and failing rollouts: is no edit lost; are flows cleared before a forward is forgotten; is what is forbidden paused in the end; do deletions complete | yes, unless the plan is paused or could not be scheduled, or a node has a higher version of the forward (a plan-rollback, a node-local pause) |
| `failover` | with failing backends, sessions, Agents, names and a restarting Controller: does a forward stay on a backend that is known to be healthy and its node could reach ever since; does every forward end up well placed, and stay there, with a target its policy allows | yes, given that observations stay fresh for two intervals, or the plan shows that it is paused or has no placement |

Every module has a type invariant; the runs list those that bound something the
code must bound (the record, the outbox), the others hold in the same state
spaces. `OperationKnown` and `AppliedMonotone` of the reconciler are proved
(section 7); the first is a step of that proof, the second follows from
`ImplementsRecord`.

### Findings
1. `converge` insists on reading the counters of the applied program before it
   installs another. When the table went away (reboot, deletion) with a different
   snapshot pending, every later `Recover`, `Audit` and `Apply` fails at that
   point and nothing is ever installed again.
2. A batch keeps its collection time. After an outage of more than ten minutes
   the Controller refuses it with a code the Agent treats as fatal, and the Agent
   sends it first on every later connection.
3. A permanent error for an earlier stage that arrives while the compensation
   waits for ACKs sends the rollout to `rolling_back`, a branch that then neither
   looks at ACKs nor times out. The rollout stays active and blocks the plan.
4. A revision whose scheduling is blocked is kept and tried again without force.
   If the placements are those of before, the attempt counts as unchanged: the
   error is cleared and the revision's pauses, listeners and limits never reach
   the nodes.

Met while modelling, without a run of their own:

- *Metering.* An installation that reaches the kernel but not the record is read
  under the old epoch on retry and again, whole, under the new one
  (`reconciler.go:684`): the bytes are billed twice. `NoOverbilling` excepts it.
- *Migration.* A generation published and applied between the online backup and
  the stop of the old Controller is unknown after the restore; the Agent is
  refused with `DataLoss` for good (`server.go:241`, 303), although the documented
  order is backup, stop, restore. `NeverDataLoss` and `Learned` except it.
- *Links.* Cleanup removes the links of the applied program only
  (`reconciler.go:512`): those of a pending program that was superseded before its
  commit stay behind.
- *Commands.* A busy answer is put into the results channel by the goroutine that
  also empties it (`agent/controlclient/commands.go:45`); with eight results
  waiting the session would block on itself.
- *Traffic classes.* Rows of `traffic_class_allocations` are not deleted when their
  owner goes (`store.go:535`).
- *Purge.* One that fails after the table was deleted is rolled back with a script
  that begins by deleting the table (`reconciler.go:602`), so nft rejects it and
  only the next audit repairs the table.
- *Rollout.* A revision that changes the target port of a forward through an exit
  breaks its path for one stage: prepare replaces the forward on the exit, which
  is addressed by that port, while the ingress sends to the old port until it is
  promoted. `PathPreserved` excepts the port while such a rollout is active.
- *Late registration.* Between the hello and `Register` a handler waits for the
  database twice (`control/server.go:116`, 123). One whose stream is half-open and
  that is delayed there registers after the handler of the Agent's next stream,
  replaces its connection and fails its requests (`control/commands.go:62`). When it
  then returns, nothing is registered: the live stream goes on, but no command
  reaches the node until it connects again. `Commandable` excepts it (`overtaken`).
- *Uninstall.* When the request times out, or the Controller dies, while the Agent
  removes itself, the node stays unrevoked (`management/commands.go:207` handles
  only a lost connection).
- *Enrollment.* A node ID that was revoked before anything was enrolled for it can
  be deleted and created again, although the comment at `store/nodes.go:27` says a
  revoked ID can never be reintroduced.
- *Plan-rollback* writes no revision: a request that was read before it overrides
  it, one that was read between two of them claims the number of the second's
  revision and overrides that, and the nodes' higher resource versions keep the
  lifecycle that was rolled back. `NoLostEdit` is about requests that were read, and
  are applied, on the latest revision.
- *Quota pause at an exit.* When the exit of a forward is the ingress of another,
  a pause published there reaches the exit's copy only; the next rollout
  compensates or keeps the ingress' own, unpaused one. `PauseKept` excepts an entry
  that is exactly what its node had.
- *Deletion.* A forward paused by expiry or quota and then deleted with
  `mode=drain` stays in the plan; `mode=drain` on one that is being force-deleted
  makes it draining again. The finalizer asks the nodes' latest desired states
  (`store/cluster.go:540`): when a forward that is being deleted was published again,
  that rollout was compensated to states without it and the next revision could not
  be scheduled, the finalizer removes the forward from the plan although an Agent
  that is behind still carries it. `FlowsCleared` excepts a plan whose active revision
  could not be scheduled.
- *Failover from a lost node.* The rollout that moves forwards away from it waits
  for its ACK, times out, is compensated and pauses the plan, which then waits for
  an administrator. One forward without a placement keeps all others of the plan
  from failing over.
- *Staleness.* `cluster/validate.go:263` accepts a `stale_after_seconds` of one
  interval. An observation counts from the start of its round
  (`health/engine.go:156`), truncated to the second (`runner.go:740`), and the next
  round starts an interval later (`engine.go:83`), waits for all its probes
  (`engine.go:120`; the time-out may be as long as the interval) and is then reported
  backend by backend. So with such a setting every observation is stale
  (`cluster/scheduler.go:154`) for a part of each round, and a reconciliation in it
  takes the backend that was reported first for the only healthy one: forwards move
  between equally good backends, and away from a better one with a larger ID and
  back. `Undisturbed` is checked for two intervals; with `StaleAfter = 1` it is
  violated.
- *First reports.* The same happens once, whatever the setting, when a node starts
  or starts over and its backends become healthy in one round.
- *Names.* A Controller that restarts while the name server is down goes back to
  the address saved in the plan, where PROJECT.md:270 says a failure keeps the
  last usable IP. A changed address keeps the backend's resource version, so
  observations of the old address count for the new one.

## 5. Bounds

- *Reconciler*: 3 generations (applied, pending and a successor of both), 2
  faults (a failing command and a failing rollback, or a failure and a crash), one
  clock step (one lifecycle end). Contents: nothing, links only, one that serves, one
  that is force-deleting, one timed, with differing links, classes and counters.
  `reconciler_last_known_good` needs only 2 generations and 1 fault.
- *UsageMeter*: 3 programs, metered and not, so that a counter leaves and comes
  back; up to 5 bytes; 2 faults.
- *UsageDelivery*: 4 batches with an outbox of 3, so that it fills; a stream of up
  to 5 messages, so that the outbox is sent again while it is still under way; 2
  faults; 1 long outage. `Window` bounds resending only: gRPC flow control, which
  would take effect after thousands of batches, is not modelled. A full outbox
  ends what `DeliveredInTime` claims: collection then fails before it signals the
  session.
- *ControlChannel*: 3 generations (a forced one, its cleanup and another
  publication around them), 2 results in the stream, 1 fault (a failing
  installation, a crash or a broken stream), one migration.
  `late` is a set: a result of an ended stream may still be handled at any time,
  in any order, more often than the code would.
- *Rollout*: 3 nodes (an ingress and two exits, the third also a second
  ingress), 2 forwards (the least for a canary of 50%), layouts that move a
  forward, add an exit, exchange listeners (refused), change the ingress under
  one exit (refused). `rollout` has four scenarios: two revisions, one rollout and
  one permanent error; one forward with a choice of exits, one permanent error
  and a quota pause; an exit that is itself an ingress, with a quota pause; and a
  revision that changes the target port of a forward at the exit it keeps. Two
  rollouts in a row exceed what can be explored with any of them. The initial state is a plan that was completed before, its history
  compressed to one generation per node. Bound `MaxRollouts`: the plan is left
  alone after the last rollout.
- *NodeCommands*: 2 hosts, 2 tokens and 2 keys per host (a retry and a second
  install command); an enrolled node with one command, two faults and a change of
  the plan, or with two commands and one fault (the second meets the Agent busy, or
  a maintenance run that outlived the first). 2 streams whose handlers have not
  returned: the one the Agent is in and the one it has left, which is what an older
  handler needs to overtake a newer one; their numbers are used again. A queue of one command instead of eight, so that it is
  full.
- *ForwardIntent*: 2 nodes, 2 forwards of one tenant (one through an exit, one
  direct that expires), 2 requests at a time and the worker. Seven scenarios, each
  with two or three kinds of event (edits, the owner's orders, exhausted quotas,
  time, a failing rollout, one or two plan-rollbacks): all kinds together exceed what can be
  explored, and a property involves two or three of them.
- *Failover*: 3 nodes in 2 failure domains, 2 forwards, 2 backends, thresholds of 2
  (so that one probe does not decide), `StaleAfter` of two intervals (the least for
  which `Undisturbed` holds: see *Staleness* in section 4), 2 addresses. Eight
  scenarios: equal backends that fail and recover, a better one with the smaller or
  with the larger ID, an interrupted and busy node, exits under each failure-domain
  policy, nodes without room for all, names.

Deadlock is checked in every run but those of `Rollout`, `NodeCommands` and
`ForwardIntent`, where the bounds let everything come to rest: the last rollout is
over, every command answered, every edit made, and every Agent up to date.

## 6. Fairness

- *Reconciler*: weak fairness on the next command of a running operation (a
  started operation runs to its end or dies) and on `Recover` (systemd restarts the
  Agent, which begins with `Recover`); strong fairness on `Audit`, a ticker of the
  maintenance loop whose turn comes again although other operations take the lock
  in between. None on failures, crashes, drift or new snapshots.
- *UsageDelivery*: weak fairness on connecting (the retry loop of `Run`), on the
  handler and on collection (a ticker); strong fairness on `UsageReady` and
  `ReceiveAck`, two cases of one `select`, whose choice among ready cases is
  random.
- *ControlChannel*: weak fairness on recovery, connection, the handlers, the
  Controller's timer (`Poll`), the retry delay and maintenance with something
  pending. None on publication, faults, backup or restore.
- *Rollout*: weak fairness on `AdvanceClusterRollouts`, which the Controller's
  worker calls on every tick; since a stage without ACKs has a time-out and a
  bake an end, some branch that changes the state becomes possible with time.
  None on Agents, results or plans.
- *NodeCommands*: weak fairness on each of three sides: the Agent (it executes its
  command, reads, sends, and connects again in the retry loop), the Controller (its
  handlers go on, and return when their stream has ended) and the host (systemd
  restarts the Agent and runs the maintenance service). None on operators, faults or
  time-outs.
- *ForwardIntent*: weak fairness on the worker, which is called on every tick, on a
  request that has read the plan (it applies or is refused), on Agents (they apply
  what is published: `ControlChannel`) and on time. None on users, the owner,
  failures or plan-rollback.
- *Failover*: weak fairness on time together with the probes and reports of a
  round, on sessions and applying, on the end of a rollout (its ACKs or its
  time-out), and on `ReconcileClusterPlans`, stated as `[]<>~ReconcileWaits` since
  reconciliation is enabled exactly when `ReconcileWaits` and ends it. None on
  Agents that have stopped, on administrators or on outages.

## 7. Proofs

Each proof module EXTENDS the module it is about and proves its theorems for all
values of the constants that satisfy the module's named assumptions. The
assumptions say that bounds are naturals and that sets and functions have their
types; the few that say more are named below. The bounds limit runs of TLC, not
the theorems, which hold for each of them. The inductive invariants
were checked with TLC on the module's run before they were proved, apart from the
parts TLC cannot enumerate (the course `w` of a rollout in `SettledInv`). A proof has one
lemma per action (or per group of actions that leave the same variables alone), and
temporal reasoning is confined to the last step of a theorem.

### ReconcilerProofs
- `TypeCorrect`, `RecordAlwaysValid`, `KernelAlwaysKnown`,
  `OperationAlwaysKnown`: `Spec => []Inv` for `TypeOK`, `RecordValid`,
  `KernelKnown` and `OperationKnown`.
- `AppliedNeverRegresses`: `Spec => AppliedMonotone`.
- `RecordImplemented`: `Spec => ImplementsRecord`, the refinement of
  `AgentRecord`. Only three steps write the record (the write ahead, the commit,
  and the save when the kernel is already current); each writes a snapshot that
  is acceptable, because it came through `validateIncomingGeneration` or is the
  durable one. Every other step is a stutter.
- `ForceAlwaysCleared`: no flow survives a committed forced deletion.
- `DurableImplemented`: nftables, tc and the links implement one durable snapshot
  between operations.

The first invariant is `TypeOK /\ RecordValid /\ KernelKnown /\
OperationKnown`. None of the last three is inductive alone: that the record
explains the table (`KernelKnown`) after an nft command needs that the snapshot
being installed is the durable pending one (`OperationKnown`); that committing
keeps the record valid needs both; that a rollback installs something known
needs that the operation's table to return to is the applied one or one the
record already knew.

`ClearInv` adds what `ForceCleared` rests on: the mark that flows were cleaned is
believed only for the generation that is applied, so a new one always passes
through conntrack (`MarkInv`); at the conntrack and commit steps the table is that
of the target, so no flow is opened behind the cleanup (`VerifiedInv`); and a
settled record finds no table of another generation (`SettledInv`). `UndoInv` says,
for each step of an operation and of a rollback, which subsystems already are as
the target or the applied snapshot asks, and that there is a table for the rollback
script to delete whenever there is one to restore: `ImplementsDurable` looks at
idle states only, so without it nothing is known of the steps in between.

### UsageMeterProofs
`TypeCorrect`, `NeverOverbilled` and `NeverUnderbilled`. What is billed and what
passed are only related through the last reading, so `MeterInv` says of which
program that reading is (`RecordInv`), which program's table is in the kernel
(`TableInv`), and that the reading is of the same counter at an earlier time
(`ReadingInv`). The ghosts `history` and `window` mark where that ends.

### UsageDeliveryProofs
`TypeCorrect` (the outbox never exceeds its capacity), `AckCoversPrefixHolds` and
`LedgerImplemented`, the refinement of `Ledger`. An ACK for a batch deletes all
before it, so the invariant is about order: the outbox has consecutive numbers that
end with the last collected one and everything below is recorded (`OutboxInv`); in
a stream a batch is preceded by every unrecorded one below it (`UplinkInv`), which
is why `CollectUsage` may resend and streams may end anywhere; hence an ACK stands
for recorded batches only (`DownlinkInv`). Batches of ended streams (`late`) only
need to have been collected: recording them twice is what `usage_batches` refuses.

### ControlChannelProofs
`TypeCorrect`, `ControllerNeverAhead`, `SnapshotsAlwaysAcceptable`,
`DataLossNeverReported`, `CleanupFollowsForcedHolds` and the action property
`SessionNeverGoesBack`. `ChannelInv` says that the store and its archive are well
formed, the archive being an earlier store (`StoreInv`); that the reports under way
are of what was durable and are in order within a stream (`ReportInv`); and that,
unless a restore lost generations, everything the Agent has or has under way is a
generation of the store with the same content, and snapshots under way are in order
and not older than what the Agent has accepted (`AgreeInv`). Assumption beyond types:
a cleaned content forces nothing (`ContentAssumption`).

### RolloutProofs
`TypeCorrect`, `PauseAlwaysKept`, `PlacementsAlwaysSettled` and
`PathsAlwaysPreserved`.

*Pauses.* Stages are written at two moments only, when a
rollout is scheduled and when its compensation is added. `RolloutInv` says that
what they hold of a forward is what the node itself had (the baseline) or an entry
that undoes no pause of any node (`KeptStages`), through every publication, ACK,
time-out and bake. Every stage mixes baselines and target, and
`preserveRuntimeLifecycles` has given the target the latest runtime entry of each
forward wherever the plan is older, so the target's entries are of the second kind.

*Paths.* The pure part is about `BuildRolloutStages`: its stages lead from the
baselines to the target in such a way that every path is up whichever nodes have
the state of a stage and whichever still have that of the stage before (`Follows`,
`Coherent`; one lemma for each of prepare, promote and cleanup of a wave). This is
where `validateRoleTransitions` is needed.

*Placements.* `SettledInv` is the dynamic part. Since the Agents were up to date,
what each node was given is, while the rollout advances, the state of the current
or of the previous stage (`Advancing`: stages are published in their order,
a node's row of the current stage is due or published, the others are as the stages
before left them), and, once it is compensated, what it had at first (`Undoing`).
What is committed is the layout those states were compiled from (`Committed`), and
every result under way is of a generation that its node did apply (`ResultsInv`), so
a stage is complete only when all its nodes run it. Quota pauses and the Agents'
own steps leave this alone (`Later`), since a pause changes no placement.

Assumptions beyond types: there are finitely many nodes (`StagesAssumption`),
without which there need not be a latest entry; and the scheduler never takes the
ingress of a forward as its exit (`IsPlaced`), which `chooseNode` checks first.

### EnrollmentProofs and NodeCommandsProofs
`NodeCommands` takes every step of `Enrollment` and adds its own, so the lemmas
about enrollment steps are in `EnrollmentProofs` and the theorems in
`NodeCommandsProofs`: `TypeCorrect`, `NeverTwoNodes`, `RegisteredKeyHeld`,
`RevokedForEver`, `AlwaysCommandable`, `AcksAlwaysAwaited`, `RemovedAlwaysRevoked`,
`ReportedUpgradeRuns` and `RemovedAlwaysUnused`.
`EnrollmentInv` extends `KeyHeld` to keys that are not registered yet but are in a
request that may be processed late. `CommandsInv` follows a command: it has not been
received yet, is running, or has one result, the same in every stream it is sent in,
and each of these agrees with what the management request and the maintenance
service know of it. That gives `AcksAwaited`
(an ACK in the stream implies an awaited result) and the bound on the results queue.
`Commandable` needs that only a handler that has come past `Register` is in the
broker, and that none but the broker's own takes it out; a handler that registers
after that of the current stream is what `overtaken` records.
Assumption beyond types: no more commands are outstanding than `commandResults` has
slots (`CommandsAssumption`; see *Commands* under the findings).

### ForwardIntentProofs
`NoEditLost`: `Spec => NoLostEdit`. The invariant says that a request under way
differs from the revision it was computed from by its own edits only, that this
revision is still there, and that the number the request claims is at most the next
one; the revision check of `ApplyClusterPlan` does the rest, whatever else the
request knows that has become stale.

`FlowsAlwaysCleared`: `Spec => FlowsCleared`. The finalizer looks at the nodes
and writes the plan in a later transaction, and `ClearInv` says why what it found
still holds then. It reads the plan, the placements and the desired states by
separate queries (`store/cluster.go:482`, 541, 565), which the model takes as one
step: of what could change in between, a new revision makes its write fail, only the
worker itself advances rollouts, a plan-rollback starts a rollout, which refuses the
write, and the clean-up only removes. Outside a rollout the nodes are given forwards of the committed
placements only (`PlacedInv`). The plan in force is published or about to be, and a
forward of it leaves the desired state of a node only by the clean-up, once the node
runs it as force-deleting (`FollowInv`). While the worker's request is under way the
worker does not advance a rollout, and a plan-rollback in between either starts one that the
request cannot outlast, or returns to a plan without those forwards (`RemovalInv`).

### Only model-checked
- All liveness (`Convergence`, `DeliveredInTime`, `Learned`, `RolloutAdvances`,
  `BusyEnds`, `Enforced`, `DeletionCompletes`, `FailsOver`, `Settles`,
  `TargetsComply`): fairness and
  ENABLED are outside what the prover handles.
- `Undisturbed` of `Failover`: what `Place` computes for every number of forwards is
  an induction over a fold.

Proving properties for all bounds, and looking for counterexamples on larger ones
first, showed that four had been true only within the bounds of their runs.
`NoLostEdit` ignored a request that was read between two plan-rollbacks, `PauseKept`
a pause published to a node that is the exit of one forward and the ingress of
another, `PathPreserved` a port that is changed in place, and `FlowsCleared` a plan
that could not be scheduled after a compensated rollout. All four now state their
exception. The runs of the first three have the scenario that needs it; that of the
fourth takes three edits and two faults, which is more than the run of
`ForwardIntent` can explore with the rest.

## 8. Not modelled, and assumptions

- The text of nft, tc and ip scripts and its parsing; what a script does is
  modelled. All backends are assumed configured (an Agent without tc or fabric
  skips those steps).
- A foreign table appears between operations, not between two commands of one;
  `state.json` itself is not lost or corrupted (it is written to a temporary file,
  synced and renamed).
- In `Rollout`: nodes retired from a plan, changes of a link's parameters
  (`validateFabricTransitions` refuses them), draining and deletion
  (`ForwardIntent` has them), retryable errors (to a stage they are the same as no
  answer), several plans at once (an error while one is advanced aborts the tick
  for all), and the order of a compensation, which the code does not stage. The
  scheduler is represented there by what it may choose; `Failover` has its rules.
- In `ForwardIntent`: addresses, limits and targets (whether the policy allows a
  forward is a set), the stages of a rollout, several plans.
- In `Failover`: several pools and plans, different intervals per pool, rounds that
  take longer than an interval in a session, reports of a generation the Controller
  does not know (it refuses them), changes of
  the plan, backends whose resource version changes, clocks that differ between
  node and Controller. Ingress and egress bandwidth are one number.
- In `NodeCommands` and `Enrollment`: several nodes, the download and checksum of a
  binary, file permissions, the text of systemd units; a token's owner and its
  audit entries.
- Allocation of service VIPs and traffic classes (`allocateServiceVIPs`,
  `allocateTrafficClass`): single transactions over a table.
- The outbox and notifier: they hasten what timers do anyway. `ControlChannel`
  lets the stream handler look for a new generation at any time and claims nothing
  of a notification; the functions the worker calls on its ticks are modelled.
- Capabilities, protocol and schema versions on the stream; their part of
  `handleEvent` does not touch generations or usage.
- The Noise channel (cryptography, framing), request validation, logins and
  sessions, reads of the management API, the instance lock (the models assume the
  one Controller it guarantees), the web console and generated code.
