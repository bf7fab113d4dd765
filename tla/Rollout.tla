------------------------------ MODULE Rollout ------------------------------
(***************************************************************************)
(* A cluster plan and its rollouts: scheduling, stage barriers, bake, ACK  *)
(* timeout and automatic compensation (internal/controller/store/          *)
(* cluster.go), with the generations it publishes to the nodes, the Agents *)
(* that apply them at their own pace, and the quota pauses RecordUsageBatch *)
(* (store.go) publishes to single nodes in between.                        *)
(*                                                                         *)
(* Every method of the store is one SQLite transaction on one connection,  *)
(* hence one action; a Controller restart loses nothing of this state.     *)
(* The scheduler (cluster.Place) is external: it may choose any layout the *)
(* plan allows.  Times are choices: a stage that is not acknowledged may   *)
(* time out, a bake window may end.                                        *)
(*                                                                         *)
(* A definition named X_Y is X with a plausible mistake Y; it is not part  *)
(* of the specification.                                                   *)
(***************************************************************************)
EXTENDS RolloutStages, SequencesExt

CONSTANTS
    Scenarios,     \* what there is at first and may happen, see below
    MaxRollouts,   \* bound on rollouts
    MaxErrors      \* bound on permanent errors of the Agents

(* What the scheduler may choose: chooseNode never takes the ingress of a  *)
(* forward as its exit.                                                    *)
IsPlaced(layout) ==
    /\ IsLayout(layout)
    /\ \A f \in DOMAIN layout : layout[f].exit # layout[f].ingress

(* A scenario has the layout of the plan completed before (empty for       *)
(* none), the plans the administrator may apply, each the set of layouts   *)
(* the scheduler may choose for it, and bounds on revisions and pauses.    *)
ASSUME ScenariosAssumption ==
    \A s \in Scenarios :
        /\ DOMAIN s = {"installed", "plans", "revisions", "pauses"}
        /\ IsPlaced(s.installed)
        /\ \A layouts \in s.plans :
              layouts # {} /\ \A layout \in layouts : IsPlaced(layout)
        /\ {s.revisions, s.pauses} \subseteq Nat

ASSUME RolloutBoundAssumption == {MaxRollouts, MaxErrors} \subseteq Nat

VARIABLES
    scenario,    \* the scenario, fixed
    gens,        \* node_generations: the states published to each node
    applied,     \* Agents: the generation each one runs, 0 for none
    results,     \* Agents: apply results on their way to the Controller
    revisions,   \* cluster_plan_revisions
    active,      \* cluster_plans.active_revision, 0 before the first
    planPaused,  \* cluster_plans.paused_at is set
    lastError,   \* cluster_plans.last_error is set
    placements,  \* cluster_forward_placements
    rollout,     \* the latest row of cluster_rollouts, its stages and baselines
    errors,      \* permanent errors so far
    pauses       \* quota pauses so far

plan == <<scenario, revisions, active>>
agents == <<applied, results>>
standing == <<planPaused, lastError>>
vars == <<scenario, gens, applied, results, revisions, active, planPaused, lastError,
          placements, rollout, errors, pauses>>

-----------------------------------------------------------------------------
ActiveStatus == {"publishing", "awaiting_ack", "baking", "rollback_pending", "rolling_back"}
FinalStatus == {"completed", "rolled_back", "failed"}

(* A stage holds its rows of cluster_rollout_nodes; gen 0 stands for NULL. *)
IsRow(row) ==
    /\ DOMAIN row = {"gen", "status", "desired"}
    /\ row.gen \in Nat
    /\ row.status \in {"queued", "pending", "applied", "permanent_error"}
    /\ IsNodeState(row.desired)

IsStage(stage) ==
    /\ DOMAIN stage = {"phase", "status", "rows"}
    /\ stage.phase \in {"prepare", "promote", "cleanup", "bake", "compensate"}
    /\ stage.status \in {"pending", "awaiting_ack", "baking", "completed", "failed"}
    /\ DOMAIN stage.rows \subseteq Node
    /\ \A n \in DOMAIN stage.rows : IsRow(stage.rows[n])

IsPlacement(placed) ==
    /\ DOMAIN placed \subseteq Forward
    /\ placed \in [DOMAIN placed -> [ingress : Node, exit : Node \cup {NoNode}, port : Port]]

Result == [node : Node, gen : Nat, status : {"applied", "permanent_error"}]

(* quiet is a ghost: when the rollout was scheduled every Agent ran the    *)
(* latest generation of its node.                                          *)
NoRollout == [id |-> 0, status |-> "none", stage |-> 0, stages |-> <<>>,
              baselines |-> [n \in Node |-> emptyStageState], placements |-> <<>>,
              quiet |-> FALSE]

TypeOK ==
    /\ scenario \in Scenarios
    /\ DOMAIN gens = Node
    /\ \A n \in Node : \A gen \in 1 .. Len(gens[n]) : IsNodeState(gens[n][gen])
    /\ applied \in [Node -> Nat]
    /\ \A n \in Node : applied[n] <= Len(gens[n])
    /\ results \subseteq Result
    /\ \A i \in 1 .. Len(revisions) : revisions[i] \in scenario.plans
    /\ active \in 0 .. Len(revisions)
    /\ planPaused \in BOOLEAN
    /\ lastError \in BOOLEAN
    /\ IsPlacement(placements)
    /\ rollout.id \in 0 .. MaxRollouts
    /\ rollout.status \in ActiveStatus \cup FinalStatus \cup {"none"}
    /\ \A k \in DOMAIN rollout.stages : IsStage(rollout.stages[k])
    /\ rollout.stage \in 0 .. Len(rollout.stages)
    /\ DOMAIN rollout.baselines = Node
    /\ \A n \in Node : IsNodeState(rollout.baselines[n])
    /\ IsPlacement(rollout.placements)
    /\ rollout.quiet \in BOOLEAN
    /\ errors \in 0 .. MaxErrors
    /\ pauses \in 0 .. scenario.pauses

(* Listener, lifecycle and version are not part of a placement.            *)
PlacementOf(layout) ==
    [f \in DOMAIN layout |-> [ingress |-> layout[f].ingress, exit |-> layout[f].exit,
                              port |-> layout[f].port]]

Init ==
    /\ scenario \in Scenarios
    /\ gens = [n \in Node |-> LET state == Compile(scenario.installed)[n]
                             IN  IF state = emptyStageState THEN <<>> ELSE <<state>>]
    /\ applied = [n \in Node |-> Len(gens[n])]
    /\ results = {}
    /\ revisions \in IF DOMAIN scenario.installed = {} THEN {<<>>}
                    ELSE {<<layouts>> :
                             layouts \in {p \in scenario.plans : scenario.installed \in p}}
    /\ active = Len(revisions)
    /\ planPaused = FALSE
    /\ lastError = FALSE
    /\ placements = PlacementOf(scenario.installed)
    /\ rollout = NoRollout
    /\ errors = 0
    /\ pauses = 0

-----------------------------------------------------------------------------
(* Generations.                                                            *)

Desired(n) == IF gens[n] = <<>> THEN emptyStageState ELSE Last(gens[n])

Running(n) == IF applied[n] = 0 THEN emptyStageState ELSE gens[n][applied[n]]

Quiet == \A n \in Node : applied[n] = Len(gens[n])

-----------------------------------------------------------------------------
(* Stages.  An operator here maps a rollout r and the generations g to     *)
(* what the transaction makes of them.                                     *)

Active == rollout.status \in ActiveStatus

publishClusterStageTx(r, k, g) ==
    LET stage == r.stages[k]
        rows  == DOMAIN stage.rows
    IN  CASE stage.status # "pending" -> [rollout |-> r, gens |-> g]
          [] stage.status = "pending" /\ stage.phase = "bake" ->
                [rollout |-> [r EXCEPT !.status = "baking", !.stage = k,
                                       !.stages[k].status = "baking"],
                 gens |-> g]
          [] stage.status = "pending" /\ stage.phase # "bake" ->
                [rollout |-> [r EXCEPT
                    !.status = "awaiting_ack",
                    !.stage = k,
                    !.stages[k].status = "awaiting_ack",
                    !.stages[k].rows = [n \in rows |->
                        [gen |-> Len(g[n]) + 1, status |-> "pending",
                         desired |-> stage.rows[n].desired]]],
                 gens |-> [n \in Node |-> IF n \in rows THEN Append(g[n], stage.rows[n].desired)
                                          ELSE g[n]]]

NextStage(r, k) ==
    CHOOSE j \in DOMAIN r.stages :
        /\ j > k /\ r.stages[j].status = "pending"
        /\ \A i \in k + 1 .. j - 1 : r.stages[i].status # "pending"

HasNextStage(r, k) == \E j \in DOMAIN r.stages : j > k /\ r.stages[j].status = "pending"

completeClusterStageTx(r, k, g) ==
    LET done == [r EXCEPT !.stages[k].status = "completed"]
    IN  CASE r.stages[k].phase = "compensate" ->
                [rollout |-> [done EXCEPT !.status = "rolled_back"], gens |-> g]
          [] r.stages[k].phase # "compensate" /\ HasNextStage(r, k) ->
                publishClusterStageTx([done EXCEPT !.status = "publishing"], NextStage(r, k), g)
          [] r.stages[k].phase # "compensate" /\ ~HasNextStage(r, k) ->
                [rollout |-> [done EXCEPT !.status = "completed"], gens |-> g]

(* The nodes that some stage has been published to get their baselines     *)
(* back, all in one stage.                                                 *)
QueuedRow(state) == [gen |-> 0, status |-> "queued", desired |-> state]

PublishedNodes_LastStage(r) ==
    {n \in DOMAIN r.stages[r.stage].rows : r.stages[r.stage].rows[n].gen # 0}

PublishedNodes(r) ==
    {n \in Node : \E k \in DOMAIN r.stages :
        n \in DOMAIN r.stages[k].rows /\ r.stages[k].rows[n].gen # 0}

Compensation(r) == {k \in DOMAIN r.stages : r.stages[k].phase = "compensate"}

ensureCompensationStage(r) ==
    IF Compensation(r) # {}
    THEN [r EXCEPT !.status = "rolling_back", !.stage = CHOOSE k \in Compensation(r) : TRUE]
    ELSE [r EXCEPT
            !.status = "rolling_back",
            !.stage = Len(r.stages) + 1,
            !.stages = Append(@, [phase |-> "compensate", status |-> "pending",
                                  rows |-> [n \in PublishedNodes(r) |-> QueuedRow(r.baselines[n])]])]

(* auto_rollback is always set; a failed compensation is final.            *)
requestClusterRollbackTx_Again(r, k) ==
    [r EXCEPT !.stages[k].status = "failed", !.status = "rollback_pending"]

requestClusterRollbackTx(r, k) ==
    [r EXCEPT !.stages[k].status = "failed",
              !.status = IF r.stages[k].phase = "compensate" THEN "failed" ELSE "rollback_pending"]

Becomes(next) ==
    /\ rollout' = next.rollout
    /\ gens' = next.gens

-----------------------------------------------------------------------------
(* Scheduling.                                                             *)

StartedRollout(layout, stages, current) ==
    [id |-> rollout.id + 1, status |-> "publishing", stage |-> 1,
     stages |-> [k \in DOMAIN stages |->
        [phase |-> stages[k].phase, status |-> "pending",
         rows |-> [n \in DOMAIN stages[k].desired |-> QueuedRow(stages[k].desired[n])]]],
     baselines |-> current, placements |-> PlacementOf(layout), quiet |-> Quiet]

(* Placements follow the nodes only when the rollout completes, unless no  *)
(* node has to change.                                                     *)
CommitPlacements(layout, stages) ==
    placements' = IF stages = <<>> THEN PlacementOf(layout) ELSE placements

schedulePlanTx(layout, force) ==
    LET current == [n \in Node |-> Desired(n)]
        target  == preserveRuntimeLifecycles(current, Compile(layout))
    IN  /\ lastError' = FALSE
        /\ IF ~force /\ PlacementOf(layout) = placements
           THEN UNCHANGED <<gens, placements, rollout>>
           ELSE \E canary \in selectCanary(changedForwardIDs(current, target)) :
                   LET stages == BuildRolloutStages(current, target, canary)
                   IN  /\ SafeRollout(current, target, stages)
                       /\ CommitPlacements(layout, stages)
                       /\ IF stages = <<>> THEN UNCHANGED <<gens, rollout>>
                          ELSE Becomes(publishClusterStageTx(
                                   StartedRollout(layout, stages, current), 1, gens))

(* Bound: the plan is left alone after the last rollout.  Otherwise plans  *)
(* and revisions are refused with ErrRolloutInProgress, and reconciliation *)
(* put off, while a rollout is under way.                                  *)
MaySchedule == ~Active /\ rollout.id < MaxRollouts

(* The scheduler finds no placement, for want of an available node.        *)
ScheduleBlocked ==
    /\ lastError' = TRUE
    /\ UNCHANGED <<gens, placements, rollout>>

(* ApplyClusterPlan.  An unsafe rollout refuses the revision; a schedule   *)
(* that is blocked does not.                                               *)
ApplyNewRevision(newPlan) ==
    /\ MaySchedule
    /\ Len(revisions) < scenario.revisions
    /\ revisions' = Append(revisions, newPlan)
    /\ active' = Len(revisions) + 1
    /\ planPaused' = FALSE
    /\ \/ \E layout \in newPlan : schedulePlanTx(layout, TRUE)
       \/ ScheduleBlocked
    /\ UNCHANGED <<scenario, agents, errors, pauses>>

ReapplyRevision ==
    /\ MaySchedule
    /\ active # 0
    /\ planPaused' = FALSE
    /\ \/ \E layout \in revisions[active] : schedulePlanTx(layout, FALSE)
       \/ ScheduleBlocked
    /\ UNCHANGED <<plan, agents, errors, pauses>>

RollbackClusterPlan(revision) ==
    /\ MaySchedule
    /\ active' = revision
    /\ planPaused' = FALSE
    /\ \E layout \in revisions[revision] : schedulePlanTx(layout, TRUE)
    /\ UNCHANGED <<scenario, revisions, agents, errors, pauses>>

ReconcileClusterPlans ==
    /\ MaySchedule
    /\ active # 0
    /\ ~planPaused
    /\ \/ \E layout \in revisions[active] : schedulePlanTx(layout, FALSE)
       \/ ScheduleBlocked
    /\ UNCHANGED <<plan, planPaused, agents, errors, pauses>>

-----------------------------------------------------------------------------
(* advanceClusterRolloutTx, called by the worker on every tick.            *)

AdvanceFrame == UNCHANGED <<plan, agents, errors, pauses>>

StartCompensation ==
    /\ rollout.status = "rollback_pending"
    /\ LET r == ensureCompensationStage(rollout)
       IN  Becomes(publishClusterStageTx(r, r.stage, gens))
    /\ UNCHANGED <<standing, placements>>
    /\ AdvanceFrame

(* "publishing" is left in the transaction that sets it; "rolling_back" is *)
(* left there unless the compensation stage was published before.          *)
Republish ==
    /\ rollout.status \in {"publishing", "rolling_back"}
    /\ Becomes(publishClusterStageTx(rollout, rollout.stage, gens))
    /\ UNCHANGED <<standing, placements>>
    /\ AdvanceFrame

Acknowledged(r) ==
    \A n \in DOMAIN r.stages[r.stage].rows : r.stages[r.stage].rows[n].status = "applied"

CompleteStage ==
    /\ Becomes(completeClusterStageTx(rollout, rollout.stage, gens))
    /\ placements' = IF rollout'.status = "completed" THEN rollout.placements ELSE placements
    /\ lastError' = (lastError /\ rollout'.status # "completed")
    /\ UNCHANGED planPaused
    /\ AdvanceFrame

FailStage ==
    /\ rollout' = requestClusterRollbackTx(rollout, rollout.stage)
    /\ planPaused' = TRUE
    /\ lastError' = TRUE
    /\ UNCHANGED <<gens, placements>>
    /\ AdvanceFrame

StageAcknowledged == rollout.status = "awaiting_ack" /\ Acknowledged(rollout) /\ CompleteStage

ACKTimeout == rollout.status = "awaiting_ack" /\ ~Acknowledged(rollout) /\ FailStage

(* canaryBakeFailure: whether the canary's backends are all reported       *)
(* unhealthy is up to the health probes.                                   *)
CanaryBakeFailure == rollout.status = "baking" /\ FailStage

BakeOver == rollout.status = "baking" /\ CompleteStage

AdvanceClusterRollouts ==
    \/ StartCompensation
    \/ Republish
    \/ StageAcknowledged
    \/ ACKTimeout
    \/ CanaryBakeFailure
    \/ BakeOver

-----------------------------------------------------------------------------
(* Agents.  The stream is FIFO, so an Agent may still get to a generation  *)
(* that is no longer the latest; it never goes back.  A result may be late *)
(* or never arrive; the ACK the Agent repeats in its next session is that  *)
(* same result, still on its way.                                          *)

AgentApplies(n, gen) ==
    /\ gen \in applied[n] + 1 .. Len(gens[n])
    /\ applied' = [applied EXCEPT ![n] = gen]
    /\ results' = results \cup {[node |-> n, gen |-> gen, status |-> "applied"]}
    /\ UNCHANGED <<gens, plan, standing, placements, rollout, errors, pauses>>

AgentFails(n, gen) ==
    /\ errors < MaxErrors
    /\ gen \in applied[n] + 1 .. Len(gens[n])
    /\ errors' = errors + 1
    /\ results' = results \cup {[node |-> n, gen |-> gen, status |-> "permanent_error"]}
    /\ UNCHANGED <<gens, applied, plan, standing, placements, rollout, pauses>>

-----------------------------------------------------------------------------
(* RecordApplyResult and recordClusterRolloutACKTx, for the rollout the    *)
(* result belongs to; rows of earlier rollouts no longer matter.           *)

Matches(r, result, k) ==
    LET rows == r.stages[k].rows
    IN  /\ result.node \in DOMAIN rows
        /\ rows[result.node].gen = result.gen
        /\ rows[result.node].status = "applied" => result.status = "applied"

MatchedStages(result) == {k \in DOMAIN rollout.stages : Matches(rollout, result, k)}

WithResult(r, result, k) == [r EXCEPT !.stages[k].rows[result.node].status = result.status]

recordClusterRolloutACKTx(result) ==
    /\ result \in results
    /\ results' = results \ {result}
    /\ IF MatchedStages(result) = {} THEN UNCHANGED <<rollout, standing>>
       ELSE \E k \in MatchedStages(result) :
               LET r == WithResult(rollout, result, k)
               IN  IF result.status = "permanent_error" /\ Active
                   THEN /\ rollout' = requestClusterRollbackTx(r, k)
                        /\ planPaused' = TRUE
                        /\ lastError' = TRUE
                   ELSE rollout' = r /\ UNCHANGED standing
    /\ UNCHANGED <<gens, applied, plan, placements, errors, pauses>>

-----------------------------------------------------------------------------
(* RecordUsageBatch with evaluateQuotas: usage of an ingress makes it      *)
(* pause the forwards whose own quota, or whose user's, is used up,        *)
(* whether or not a rollout is under way.                                  *)
QuotaPause(n, exceeded) ==
    /\ pauses < scenario.pauses
    /\ IngressAt(Running(n), n) # {}
    /\ exceeded # {}
    /\ \A f \in exceeded : Has(Desired(n), f) /\ ~Desired(n).forwards[f].paused
    /\ pauses' = pauses + 1
    /\ LET paused(entry) == [entry EXCEPT !.paused = TRUE, !.version = @ + 1]
           forwards == [f \in DOMAIN Desired(n).forwards |->
                           IF f \in exceeded THEN paused(Desired(n).forwards[f])
                           ELSE Desired(n).forwards[f]]
       IN  gens' = [gens EXCEPT ![n] = Append(@, [Desired(n) EXCEPT !.forwards = forwards])]
    /\ UNCHANGED <<agents, plan, standing, placements, rollout, errors>>

-----------------------------------------------------------------------------
Next ==
    \/ \E newPlan \in scenario.plans : ApplyNewRevision(newPlan)
    \/ ReapplyRevision
    \/ \E revision \in 1 .. Len(revisions) : RollbackClusterPlan(revision)
    \/ ReconcileClusterPlans
    \/ AdvanceClusterRollouts
    \/ \E n \in Node : \E gen \in 1 .. Len(gens[n]) : AgentApplies(n, gen) \/ AgentFails(n, gen)
    \/ \E result \in results : recordClusterRolloutACKTx(result)
    \/ \E n \in Node : \E exceeded \in SUBSET Forward : QuotaPause(n, exceeded)

(* The worker calls AdvanceClusterRollouts every tick, and time passes.    *)
Spec == Init /\ [][Next]_vars /\ WF_vars(AdvanceClusterRollouts)

-----------------------------------------------------------------------------
(* The rollout r changes the port of f at an exit that f keeps.  Prepare   *)
(* replaces it there while the ingress still sends to the old one.         *)
PortMoves(r, f) ==
    /\ f \in DOMAIN r.placements
    /\ \E n \in Node :
          /\ Has(r.baselines[n], f)
          /\ r.baselines[n].forwards[f].exit = r.placements[f].exit
          /\ r.baselines[n].forwards[f].port # r.placements[f].port

(* Traffic that enters for f at n reaches the exit: both ends have the     *)
(* forward and the link between them, and agree on the port, unless it is  *)
(* being changed.                                                          *)
PathUp(n, f) ==
    LET entry == Running(n).forwards[f]
        exit  == Running(entry.exit)
    IN  entry.exit # NoNode =>
            /\ Has(exit, f)
            /\ exit.forwards[f].exit = entry.exit
            /\ exit.forwards[f].ingress = n
            /\ exit.forwards[f].port = entry.port \/ (Active /\ PortMoves(rollout, f))
            /\ n \in exit.links
            /\ entry.exit \in Running(n).links

(* Make before break: a rollout that starts when every Agent is up to date *)
(* never leaves an ingress that sends to an exit which is not ready for    *)
(* it, in whatever order the Agents of a stage apply it, until it is       *)
(* compensated (the stages of BuildRolloutStages and their ACK barriers).  *)
PathPreserved ==
    rollout.quiet /\ Compensation(rollout) = {} =>
        \A n \in Node : \A f \in IngressAt(Running(n), n) : PathUp(n, f)

(* A rollout that has ended well, or that has been compensated, leaves the *)
(* nodes running exactly the committed placements, apart from pauses       *)
(* (replacePlacements, ensureCompensationStage).                           *)
SettledPlacements ==
    rollout.quiet /\ rollout.status \in {"completed", "rolled_back"} =>
        \A n \in Node :
            /\ PlacementOf(Running(n).forwards) = Compile(placements)[n].forwards
            /\ Running(n).links = Compile(placements)[n].links

(* A rollout scheduled after a quota pause does not resume the forward at  *)
(* its ingress unless the plan is at least as new as the pause             *)
(* (preserveRuntimeLifecycles).  A stage or a compensation may give a node *)
(* back what it had, which the pause of another node has not reached.      *)
PauseKept ==
    \A k \in DOMAIN rollout.stages : \A n \in DOMAIN rollout.stages[k].rows :
        LET desired == rollout.stages[k].rows[n].desired
            had     == rollout.baselines[n]
        IN  \A f \in IngressAt(desired, n) :
                \/ Has(had, f) /\ had.forwards[f] = desired.forwards[f]
                \/ \A m \in Node : Has(rollout.baselines[m], f) =>
                      LET before == rollout.baselines[m].forwards[f]
                      IN  before.paused /\ ~desired.forwards[f].paused =>
                              desired.forwards[f].version >= before.version

(* Between rollouts, a plan that is in force and shows no error has been   *)
(* published: every node has the forwards of the active revision with      *)
(* their listeners and lifecycles, unless a later version has paused them  *)
(* (schedulePlanTx, when a blocked schedule is retried).                   *)
ActivePlanPublished ==
    ~Active /\ active # 0 /\ ~planPaused /\ ~lastError =>
        \E layout \in revisions[active] : \A n \in Node :
            LET wanted == Compile(layout)[n].forwards
                given  == Desired(n).forwards
            IN  /\ DOMAIN given = DOMAIN wanted
                /\ \A f \in DOMAIN wanted :
                      /\ given[f].listen = wanted[f].listen
                      /\ given[f].paused # wanted[f].paused => given[f].version > wanted[f].version

(* Every rollout ends, whatever the Agents do.                             *)
RolloutSettles == Active ~> ~Active

(* Every rollout whose Agents stay silent or fail ends all the same, its   *)
(* compensation included, but for one way out: an error that arrives after *)
(* the compensation was published (the time-outs of                        *)
(* advanceClusterRolloutTx and requestClusterRollbackTx).                  *)
RolloutAdvances ==
    Active ~> \/ ~Active
              \/ /\ rollout.status = "rolling_back"
                 /\ rollout.stages[rollout.stage].status = "awaiting_ack"

=============================================================================
