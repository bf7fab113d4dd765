--------------------------- MODULE ForwardIntent ---------------------------
(***************************************************************************)
(* What users, the owner and the Controller's own policies do to forwards: *)
(* the handlers that create, update and delete them (management/           *)
(* forward.go), tenant policies (iam/policy.go, store/                     *)
(* tenant_enforcement.go), traffic quotas (store/quota_enforcement.go and  *)
(* evaluateQuotas of store.go), expiry and drain deadlines (EnforcePolicies *)
(* of store.go) and the finalizer of deletions (store/cluster.go).         *)
(*                                                                         *)
(* All of them write one durable plan.  A caller reads the active plan and *)
(* the highest revision, computes a new plan and applies it with the next  *)
(* revision number: two steps, between which the others go on.  The        *)
(* policies that work on a single node change its desired state behind the *)
(* plan's back and are told from it by their higher resource versions.     *)
(*                                                                         *)
(* Rollout models the stages of a rollout; here it publishes a canary and  *)
(* then the rest, and may fail.  A forward stays where it is placed, and   *)
(* its addresses, limits and target are left out but for whether the       *)
(* tenant's policy allows them.  Agents apply a generation and have it     *)
(* recorded in one step: ControlChannel models what happens in between.    *)
(*                                                                         *)
(* A definition named X_Y is X with a plausible mistake Y; it is not part  *)
(* of the specification.                                                   *)
(***************************************************************************)
EXTENDS Integers, Sequences, FiniteSets

CONSTANTS
    Node,
    Forward,       \* forward IDs, as numbers: the plan keeps them in order
    Ingress,       \* the ingress of each forward
    Placed,        \* the nodes each forward is placed on, its ingress included
    Tenanted,      \* the forwards of the tenant; the others are the owner's
    Expires,       \* when each forward expires
    Allowances,    \* what policies may say: how many forwards, and which ones
    Scenarios,     \* where a behaviour starts, and the bounds it keeps to
    User,          \* requests that may be under way at one time
    Worker         \* the Controller's worker

ASSUME PlacementAssumption ==
    /\ Forward \subseteq Nat
    /\ Ingress \in [Forward -> Node]
    /\ Placed \in [Forward -> SUBSET Node]
    /\ \A f \in Forward : Ingress[f] \in Placed[f]
    /\ Tenanted \subseteq Forward
    /\ Expires \in [Forward -> Nat]

ASSUME AllowanceAssumption == Allowances \subseteq [max : Nat, allows : SUBSET Forward]

(* edits bounds the requests of users, faults the failing rollouts and     *)
(* blocked schedules, rollbacks the calls of plan-rollback, orders the     *)
(* owner's changes to the tenant, quotas the forwards that use theirs up   *)
(* and ticks the time that passes.                                         *)
ASSUME ScenarioAssumption ==
    /\ Scenarios \subseteq [existing : SUBSET Forward, allowance : Allowances, edits : Nat,
                            faults : Nat, rollbacks : Nat, orders : Nat, quotas : Nat, ticks : Nat]
    /\ Worker \notin User

VARIABLES
    revisions,    \* cluster_plan_revisions
    active,       \* cluster_plans.active_revision
    planPaused,   \* cluster_plans.paused_at is set
    unpublished,  \* ghost: the active revision could not be scheduled
    placements,   \* forwards with rows in cluster_forward_placements
    rollout,      \* the rollout under way
    desired,      \* the latest desired state of each node
    applied,      \* what each node runs
    settled,      \* nodes that run their latest desired state
    request,      \* the plan each caller has computed
    tenant,       \* the tenant and its policy
    exhausted,    \* forwards whose usage has reached their quota
    clock,
    budget        \* what is left of the bounds

vars == <<revisions, active, planPaused, unpublished, placements, rollout, desired, applied,
          settled, request, tenant, exhausted, clock, budget>>

plans == <<revisions, active, planPaused, unpublished>>
publications == <<placements, rollout, desired, settled>>
orders == <<tenant, exhausted, clock>>

-----------------------------------------------------------------------------
Caller == User \cup {Worker}
NoDeadline == -1
Lifecycle == {"active", "paused", "draining", "force_deleting"}

ForwardSpec == [life : Lifecycle, version : Nat, deadline : Nat \cup {NoDeadline}]
IsForwards(state) ==
    /\ DOMAIN state \subseteq Forward
    /\ \A f \in DOMAIN state :
          /\ state[f] \in ForwardSpec
          /\ state[f].life = "draining" <=> state[f].deadline # NoDeadline
IsPlan(p) == DOMAIN p = {"forwards", "policy"} /\ IsForwards(p.forwards) /\ p.policy \in Nat

NoRequest == [kind |-> "none"]
NoRollout == [status |-> "none", stages |-> <<>>, baselines |-> <<>>, nodes |-> {},
              published |-> {}, waiting |-> {}, superseded |-> FALSE]

Plan == revisions[active]
Maximum == Len(revisions)
InProgress == rollout.status # "none"

TypeOK ==
    /\ \A i \in 1 .. Len(revisions) : IsPlan(revisions[i])
    /\ active \in 1 .. Len(revisions)
    /\ planPaused \in BOOLEAN
    /\ unpublished \in BOOLEAN
    /\ placements \subseteq Forward
    /\ rollout.status \in {"none", "running", "reverting"}
    /\ rollout.waiting \subseteq rollout.published
    /\ rollout.published \subseteq rollout.nodes
    /\ rollout.nodes \subseteq Node
    /\ rollout.superseded \in BOOLEAN
    /\ \A k \in 1 .. Len(rollout.stages) :
          /\ DOMAIN rollout.stages[k] \subseteq Node
          /\ \A n \in DOMAIN rollout.stages[k] : IsForwards(rollout.stages[k][n])
    /\ \A n \in DOMAIN rollout.baselines : IsForwards(rollout.baselines[n])
    /\ \A n \in Node : IsForwards(desired[n]) /\ IsForwards(applied[n])
    /\ settled \subseteq Node
    /\ \A c \in Caller : request[c] # NoRequest =>
          /\ IsPlan(request[c].plan)
          /\ request[c].revision \in 2 .. Len(revisions) + 1
          /\ request[c].base \in 1 .. Len(revisions)
          /\ request[c].edits \subseteq Forward
    /\ tenant \in [enabled : BOOLEAN, max : Nat, allows : SUBSET Forward, version : Nat]
    /\ exhausted \subseteq Forward
    /\ clock \in Nat
    /\ budget \in [edits : Nat, faults : Nat, rollbacks : Nat, orders : Nat, quotas : Nat,
                   ticks : Nat]

(* The part of a plan that a node carries out (cluster.Compile).           *)
Compile(forwards) ==
    [n \in Node |-> [f \in {g \in DOMAIN forwards : n \in Placed[g]} |-> forwards[f]]]

NewForward(life) == [life |-> life, version |-> 1, deadline |-> NoDeadline]

Init ==
    /\ \E s \in Scenarios :
          /\ tenant = [enabled |-> TRUE, max |-> s.allowance.max, allows |-> s.allowance.allows,
                       version |-> 1]
          /\ revisions = <<[forwards |-> [f \in s.existing |-> NewForward("active")],
                            policy |-> 1]>>
          /\ placements = s.existing
          /\ desired = Compile(revisions[1].forwards)
          /\ budget = [edits |-> s.edits, faults |-> s.faults, rollbacks |-> s.rollbacks,
                       orders |-> s.orders, quotas |-> s.quotas, ticks |-> s.ticks]
    /\ active = 1
    /\ planPaused = FALSE
    /\ unpublished = FALSE
    /\ rollout = NoRollout
    /\ applied = desired
    /\ settled = Node
    /\ request = [c \in Caller |-> NoRequest]
    /\ exhausted = {}
    /\ clock = 0

-----------------------------------------------------------------------------
(* Policies.                                                               *)

Expired(f) == clock >= Expires[f]

(* Policy.AuthorizeForward; the clauses about nodes, listeners, ports,     *)
(* protocols, targets and limits are one: the policy allows the forward.   *)
AuthorizeForward(f, count) ==
    /\ tenant.max # 0
    /\ count < tenant.max
    /\ f \in tenant.allows
    /\ ~Expired(f)

tenantForwardCount(forwards) ==
    Cardinality({f \in DOMAIN forwards \cap Tenanted : forwards[f].life # "force_deleting"})

(* The owner's own forwards are not subject to a policy.                   *)
authorizeForward(f, count) == f \in Tenanted => AuthorizeForward(f, count)

(* syncManagedUserPolicy: the plan carries the tenant's current policy.    *)
SyncPolicy(p, f) == [p EXCEPT !.policy = IF f \in Tenanted THEN tenant.version ELSE @]

With(forwards, f, new) == [g \in DOMAIN forwards \cup {f} |-> IF g = f THEN new ELSE forwards[g]]

-----------------------------------------------------------------------------
(* Handlers of requests, up to the point where the new plan is computed;   *)
(* base is a ghost, the revision it was computed from.                     *)
(* A handler reads the plan before the policy; a policy that changes in    *)
(* between might as well have changed before.  A request whose resource    *)
(* version is not that of the plan is refused and changes nothing.         *)

Starts(c, kind, new, edits) ==
    /\ request[c] = NoRequest
    /\ request' = [request EXCEPT ![c] =
            [kind |-> kind, plan |-> new, revision |-> Maximum + 1, base |-> active,
             edits |-> edits]]
    /\ UNCHANGED <<plans, publications, applied, orders>>

Requests(c, kind, new, f) ==
    /\ budget.edits > 0
    /\ budget' = [budget EXCEPT !.edits = @ - 1]
    /\ Starts(c, kind, new, {f})

(* IDs are random, so they are never used again.                           *)
Unused(f) ==
    /\ \A i \in 1 .. Len(revisions) : f \notin DOMAIN revisions[i].forwards
    /\ \A c \in Caller : request[c] # NoRequest => f \notin DOMAIN request[c].plan.forwards

handleCreateForward(c, f, enabled) ==
    /\ Unused(f)
    /\ f \in Tenanted => tenant.enabled
    /\ authorizeForward(f, tenantForwardCount(Plan.forwards))
    /\ Requests(c, "create",
                [SyncPolicy(Plan, f) EXCEPT !.forwards =
                    With(@, f, NewForward(IF enabled THEN "active" ELSE "paused"))], f)

(* enabled is {} when the request does not say.                            *)
handleUpdateForward(c, f, enabled) ==
    /\ f \in DOMAIN Plan.forwards
    /\ LET existing == Plan.forwards[f]
           count    == tenantForwardCount(Plan.forwards)
           life     == CASE enabled = {} -> existing.life
                         [] enabled = {TRUE} -> "active"
                         [] enabled = {FALSE} -> "paused"
       IN  /\ existing.life \notin {"draining", "force_deleting"}
           /\ authorizeForward(f, IF count # 0 THEN count - 1 ELSE count)
           /\ Requests(c, "update",
                       [SyncPolicy(Plan, f) EXCEPT !.forwards[f] =
                           [life |-> life, version |-> existing.version + 1,
                            deadline |-> NoDeadline]], f)

handleDeleteForward(c, f, mode) ==
    /\ f \in DOMAIN Plan.forwards
    /\ LET version == Plan.forwards[f].version + 1
       IN  Requests(c, "delete",
                    [Plan EXCEPT !.forwards[f] =
                        IF mode = "force"
                        THEN [life |-> "force_deleting", version |-> version, deadline |-> NoDeadline]
                        ELSE [life |-> "draining", version |-> version, deadline |-> clock + 1]], f)

-----------------------------------------------------------------------------
(* Policies the worker enforces on the plan.  It runs them one after the   *)
(* other, skips plans that are paused or in a rollout, and writes nothing  *)
(* when nothing has to change.                                             *)

Pause(spec) == [life |-> "paused", version |-> spec.version + 1, deadline |-> NoDeadline]

Enforces(kind, new, changed) ==
    /\ ~planPaused
    /\ ~InProgress
    /\ new # Plan
    /\ Starts(Worker, kind, new, changed)
    /\ UNCHANGED budget

(* The tenant's forwards before f in the plan, whatever their lifecycle.   *)
seen(forwards, f) ==
    Cardinality({g \in DOMAIN forwards \cap Tenanted :
                    g < f /\ forwards[g].life # "force_deleting"})

NonCompliant_IgnoresStatus(forwards, f) ==
    /\ f \in Tenanted
    /\ forwards[f].life \notin {"paused", "force_deleting"}
    /\ ~AuthorizeForward(f, seen(forwards, f))

NonCompliant(forwards, f) ==
    /\ f \in Tenanted
    /\ forwards[f].life \notin {"paused", "force_deleting"}
    /\ ~tenant.enabled \/ ~AuthorizeForward(f, seen(forwards, f))

EnforceTenantForwardPolicies ==
    LET forwards == Plan.forwards
        bad      == {f \in DOMAIN forwards : NonCompliant(forwards, f)}
        subject  == \E f \in DOMAIN forwards \cap Tenanted : forwards[f].life # "force_deleting"
    IN  Enforces("tenant",
                 [forwards |-> [f \in DOMAIN forwards |->
                                   IF f \in bad THEN Pause(forwards[f]) ELSE forwards[f]],
                  policy   |-> IF subject THEN tenant.version ELSE Plan.policy], bad)

EnforceTrafficQuotas ==
    LET forwards == Plan.forwards
        over     == {f \in DOMAIN forwards \cap exhausted :
                        forwards[f].life \notin {"paused", "force_deleting"}}
    IN  Enforces("quota",
                 [Plan EXCEPT !.forwards = [f \in DOMAIN forwards |->
                     IF f \in over THEN Pause(forwards[f]) ELSE forwards[f]]], over)

(* A deletion is final when no node of the forward's placement has it in   *)
(* its desired state any more; without a placement there is none to ask.   *)
clusterForwardAbsentFromLatestDesired_Any(f) ==
    f \in placements => \E n \in Placed[f] : f \notin DOMAIN desired[n]

clusterForwardAbsentFromLatestDesired(f) ==
    f \in placements => \A n \in Placed[f] : f \notin DOMAIN desired[n]

Finalizable(spec) ==
    \/ spec.life = "force_deleting"
    \/ spec.life = "draining" /\ clock >= spec.deadline

FinalizeClusterDeletes ==
    LET forwards == Plan.forwards
        removed  == {f \in DOMAIN forwards :
                        Finalizable(forwards[f]) /\ clusterForwardAbsentFromLatestDesired(f)}
    IN  Enforces("finalize",
                 [Plan EXCEPT !.forwards = [f \in DOMAIN forwards \ removed |-> forwards[f]]],
                 removed)

-----------------------------------------------------------------------------
(* Scheduling.                                                             *)

severity(life) ==
    CASE life = "force_deleting" -> 4
      [] life = "paused" -> 3
      [] life = "draining" -> 2
      [] life = "active" -> 1

(* The lifecycle of the highest version any node has for the forward,      *)
(* unless the plan's version is as high.                                   *)
Latest(states, f) ==
    LET specs == {states[n][f] : n \in {m \in Node : f \in DOMAIN states[m]}}
    IN  {s \in specs : \A t \in specs :
            \/ s.version > t.version
            \/ s.version = t.version /\ severity(s.life) >= severity(t.life)}

preserveRuntimeLifecycles(current, target) ==
    [n \in Node |-> [f \in DOMAIN target[n] |->
        LET newer == {s \in Latest(current, f) : s.version > target[n][f].version}
        IN  IF newer = {} THEN target[n][f] ELSE CHOOSE s \in newer : TRUE]]

Changed(from, to) ==
    {f \in Forward : \E n \in Node :
        \/ (f \in DOMAIN from[n]) # (f \in DOMAIN to[n])
        \/ f \in DOMAIN from[n] /\ from[n][f] # to[n][f]}

(* A rollout changes some of the forwards first, then the rest.            *)
Mixed(from, to, canary) ==
    [n \in Node |-> [f \in (DOMAIN from[n] \ canary) \cup (DOMAIN to[n] \cap canary) |->
                        IF f \in canary THEN to[n][f] ELSE from[n][f]]]

Rows(from, to) == [n \in {m \in Node : from[m] # to[m]} |-> to[n]]

Stages(from, to, canary) ==
    LET middle == Mixed(from, to, canary)
    IN  IF middle = to THEN <<Rows(from, to)>> ELSE <<Rows(from, middle), Rows(middle, to)>>

Publishes(rows) ==
    /\ desired' = [n \in Node |-> IF n \in DOMAIN rows THEN rows[n] ELSE desired[n]]
    /\ settled' = settled \ DOMAIN rows

schedulePlanTx(forwards) ==
    LET target  == preserveRuntimeLifecycles(desired, Compile(forwards))
        changed == Changed(desired, target)
    IN  /\ unpublished' = FALSE
        /\ IF changed = {}
           THEN /\ placements' = DOMAIN forwards
                /\ UNCHANGED <<rollout, desired, settled>>
           ELSE \E canary \in (SUBSET changed) \ {{}} :
                   LET stages == Stages(desired, target, canary)
                   IN  /\ rollout' = [status |-> "running", stages |-> Tail(stages),
                                      baselines |-> desired,
                                      nodes |-> UNION {DOMAIN stages[k] : k \in DOMAIN stages},
                                      published |-> DOMAIN Head(stages),
                                      waiting |-> DOMAIN Head(stages), superseded |-> FALSE]
                       /\ Publishes(Head(stages))
                       /\ UNCHANGED placements

(* No node is available: the revision stays, nothing is published.         *)
ScheduleBlocked ==
    /\ budget.faults > 0
    /\ budget' = [budget EXCEPT !.faults = @ - 1]
    /\ unpublished' = TRUE
    /\ UNCHANGED publications

(* ErrPlanRevisionConflict: another revision has been written meanwhile.   *)
RevisionConflict_Never(c) == FALSE

RevisionConflict(c) == request[c].revision <= Maximum

ApplyClusterPlan(c) ==
    /\ request[c] # NoRequest
    /\ ~InProgress
    /\ ~RevisionConflict(c)
    /\ revisions' = Append(revisions, request[c].plan)
    /\ active' = Len(revisions) + 1
    /\ planPaused' = FALSE
    /\ \/ schedulePlanTx(request[c].plan.forwards) /\ UNCHANGED budget
       \/ ScheduleBlocked
    /\ request' = [request EXCEPT ![c] = NoRequest]
    /\ UNCHANGED <<applied, orders>>

(* The user is told of the conflict; the worker tries again next time.     *)
ApplyRefused(c) ==
    /\ request[c] # NoRequest
    /\ InProgress \/ RevisionConflict(c)
    /\ request' = [request EXCEPT ![c] = NoRequest]
    /\ UNCHANGED <<plans, publications, applied, orders, budget>>

(* plan-rollback on the command line; it writes no new revision.           *)
RollbackClusterPlan(revision) ==
    /\ budget.rollbacks > 0
    /\ budget' = [budget EXCEPT !.rollbacks = @ - 1]
    /\ ~InProgress
    /\ active' = revision
    /\ planPaused' = FALSE
    /\ schedulePlanTx(revisions[revision].forwards)
    /\ UNCHANGED <<revisions, applied, request, orders>>

(* The worker schedules a plan again when its placements have changed.     *)
ReconcileClusterPlans ==
    /\ request[Worker] = NoRequest
    /\ ~planPaused
    /\ ~InProgress
    /\ placements # DOMAIN Plan.forwards
    /\ schedulePlanTx(Plan.forwards)
    /\ UNCHANGED <<revisions, active, planPaused, applied, request, orders, budget>>

-----------------------------------------------------------------------------
(* The rollout under way; the worker advances it.                          *)

AdvanceFrame ==
    /\ request[Worker] = NoRequest
    /\ UNCHANGED <<revisions, active, unpublished, applied, request, orders>>

StageAcknowledged ==
    /\ rollout.status = "running"
    /\ rollout.waiting = {}
    /\ ~rollout.superseded
    /\ IF rollout.stages = <<>>
       THEN /\ rollout' = NoRollout
            /\ placements' = DOMAIN Plan.forwards
            /\ UNCHANGED <<desired, settled>>
       ELSE /\ rollout' = [rollout EXCEPT !.stages = Tail(@),
                                          !.published = @ \cup DOMAIN Head(rollout.stages),
                                          !.waiting = DOMAIN Head(rollout.stages)]
            /\ Publishes(Head(rollout.stages))
            /\ UNCHANGED placements
    /\ UNCHANGED <<planPaused, budget>>
    /\ AdvanceFrame

(* A stage times out, always so when its generation has been superseded    *)
(* before it was applied, or is rejected: the nodes get their baselines.   *)
StageFails ==
    /\ rollout.status = "running"
    /\ \/ rollout.superseded /\ UNCHANGED budget
       \/ /\ ~rollout.superseded
          /\ budget.faults > 0
          /\ budget' = [budget EXCEPT !.faults = @ - 1]
    /\ planPaused' = TRUE
    /\ rollout' = [rollout EXCEPT !.status = "reverting", !.stages = <<>>, !.waiting = {}]
    /\ Publishes([n \in rollout.published |-> rollout.baselines[n]])
    /\ UNCHANGED placements
    /\ AdvanceFrame

(* The compensation is acknowledged, or has failed.                        *)
CompensationEnds ==
    /\ rollout.status = "reverting"
    /\ rollout' = NoRollout
    /\ UNCHANGED <<planPaused, placements, desired, settled, budget>>
    /\ AdvanceFrame

-----------------------------------------------------------------------------
(* What happens at single nodes, behind the plan's back.                   *)

PublishesTo(changes) ==
    /\ desired' = changes
    /\ LET touched == {n \in Node : changes[n] # desired[n]}
       IN  /\ touched # {}
           /\ settled' = settled \ touched
           /\ rollout' = [rollout EXCEPT !.superseded = @ \/ touched \cap rollout.waiting # {}]

(* RecordUsageBatch and evaluateQuotas, during a rollout too.              *)
RecordUsageBatch(n, f) ==
    /\ Ingress[f] = n
    /\ f \in DOMAIN applied[n]
    /\ applied[n][f].life \in {"active", "draining"}
    /\ \/ f \in exhausted /\ UNCHANGED <<exhausted, budget>>
       \/ /\ f \notin exhausted
          /\ budget.quotas > 0
          /\ budget' = [budget EXCEPT !.quotas = @ - 1]
          /\ exhausted' = exhausted \cup {f}
    /\ PublishesTo([desired EXCEPT ![n] = [g \in DOMAIN @ |->
            IF /\ g \in exhausted'
               /\ Ingress[g] = n
               /\ @[g].life \notin {"paused", "force_deleting"}
            THEN Pause(@[g]) ELSE @[g]]])
    /\ UNCHANGED <<plans, placements, applied, request, tenant, clock>>

(* EnforcePolicies leaves the nodes of a rollout alone.                    *)
TimePolicy(spec, f) ==
    IF Expired(f) /\ spec.life \notin {"paused", "force_deleting"} THEN Pause(spec)
    ELSE IF spec.life = "draining" /\ clock >= spec.deadline
    THEN [life |-> "force_deleting", version |-> spec.version + 1, deadline |-> NoDeadline]
    ELSE spec

EnforcePolicies ==
    /\ request[Worker] = NoRequest
    /\ PublishesTo([n \in Node |->
            IF n \in rollout.nodes THEN desired[n]
            ELSE [f \in DOMAIN desired[n] |-> TimePolicy(desired[n][f], f)]])
    /\ UNCHANGED <<plans, placements, applied, request, orders, budget>>

(* The Agent applies the latest desired state and RecordApplyResult drops  *)
(* what has been deleted from it.                                          *)
Remaining_All(state) == DOMAIN state

Remaining(state) == {f \in DOMAIN state : state[f].life # "force_deleting"}

AgentApplies(n) ==
    /\ n \notin settled
    /\ applied' = [applied EXCEPT ![n] = desired[n]]
    /\ LET kept == Remaining(desired[n])
       IN  /\ desired' = [desired EXCEPT ![n] = [f \in kept |-> @[f]]]
           /\ settled' = IF kept = DOMAIN desired[n] THEN settled \cup {n} ELSE settled
    /\ rollout' = [rollout EXCEPT !.waiting = @ \ {n}]
    /\ UNCHANGED <<plans, placements, request, orders, budget>>

-----------------------------------------------------------------------------
(* The owner, and time.                                                    *)

SetTenantPolicy(allowance) ==
    /\ budget.orders > 0
    /\ budget' = [budget EXCEPT !.orders = @ - 1]
    /\ tenant' = [tenant EXCEPT !.max = allowance.max, !.allows = allowance.allows,
                                !.version = @ + 1]
    /\ UNCHANGED <<plans, publications, applied, request, exhausted, clock>>

DisableTenant ==
    /\ budget.orders > 0
    /\ tenant.enabled
    /\ budget' = [budget EXCEPT !.orders = @ - 1]
    /\ tenant' = [tenant EXCEPT !.enabled = FALSE]
    /\ UNCHANGED <<plans, publications, applied, request, exhausted, clock>>

Tick ==
    /\ budget.ticks > 0
    /\ budget' = [budget EXCEPT !.ticks = @ - 1]
    /\ clock' = clock + 1
    /\ UNCHANGED <<plans, publications, applied, request, tenant, exhausted>>

-----------------------------------------------------------------------------
Enforcement ==
    \/ EnforceTenantForwardPolicies
    \/ EnforceTrafficQuotas
    \/ FinalizeClusterDeletes

AdvanceClusterRollouts == StageAcknowledged \/ StageFails \/ CompensationEnds

WorkerStep ==
    \/ Enforcement
    \/ ReconcileClusterPlans
    \/ AdvanceClusterRollouts
    \/ EnforcePolicies

Next ==
    \/ \E c \in User : \E f \in Forward :
          \/ \E enabled \in BOOLEAN : handleCreateForward(c, f, enabled)
          \/ \E enabled \in (SUBSET BOOLEAN) \ {BOOLEAN} : handleUpdateForward(c, f, enabled)
          \/ \E mode \in {"drain", "force"} : handleDeleteForward(c, f, mode)
    \/ \E c \in Caller : ApplyClusterPlan(c) \/ ApplyRefused(c)
    \/ \E revision \in 1 .. Len(revisions) : RollbackClusterPlan(revision)
    \/ WorkerStep
    \/ \E n \in Node : \E f \in Forward : RecordUsageBatch(n, f)
    \/ \E n \in Node : AgentApplies(n)
    \/ \E allowance \in Allowances : SetTenantPolicy(allowance)
    \/ DisableTenant
    \/ Tick

(* The worker's loop never stops while there is something to do, requests  *)
(* end, Agents apply what they are sent, and time passes.  A worker step   *)
(* takes away its own reason, so none can keep the others waiting.         *)
Fairness ==
    /\ WF_vars(WorkerStep)
    /\ WF_vars(\E c \in Caller : ApplyClusterPlan(c) \/ ApplyRefused(c))
    /\ WF_vars(\E n \in Node : AgentApplies(n))
    /\ WF_vars(Tick)

Spec == Init /\ [][Next]_vars /\ Fairness

-----------------------------------------------------------------------------
Carries(n, f) == f \in DOMAIN applied[n] /\ applied[n][f].life \in {"active", "draining"}

(* Nobody's edit is lost: a revision computed by one caller leaves every   *)
(* other forward as the latest revision has it, whatever was written since *)
(* the caller read the plan (the revision check of ApplyClusterPlan).  An  *)
(* operator's plan-rollback writes no revision and is not noticed, so this *)
(* is only said of a request that was read, and is applied, while the      *)
(* latest revision is the active one.                                      *)
NoLostEdit ==
    [][\A c \in Caller :
          /\ Len(revisions') > Len(revisions)
          /\ request[c] # NoRequest /\ request'[c] = NoRequest
          /\ request[c].base = request[c].revision - 1
          /\ active = Len(revisions)
          => \A f \in Forward \ request[c].edits :
                /\ f \in DOMAIN Plan'.forwards <=> f \in DOMAIN Plan.forwards
                /\ f \in DOMAIN Plan.forwards => Plan'.forwards[f] = Plan.forwards[f]]_vars

(* When a forward leaves the plan for good, no node of its committed       *)
(* placement still runs it active or draining: each has dropped it, or     *)
(* runs it as force_deleting, which clears its flows                       *)
(* (FinalizeClusterDeletes and the clean-up of RecordApplyResult).         *)
(* The exception is a plan whose active revision could not be scheduled:   *)
(* the finalizer looks for the forward in the nodes' latest desired        *)
(* states, and a compensated rollout has taken it from them while an Agent *)
(* that is behind still runs it.                                           *)
FlowsCleared ==
    [][request[Worker] # NoRequest /\ Len(revisions') > Len(revisions)
          /\ request'[Worker] = NoRequest /\ request[Worker].kind = "finalize"
          /\ ~unpublished
       => \A f \in request[Worker].edits \cap placements : \A n \in Placed[f] : ~Carries(n, f)]_vars

(* The node's version of the forward is ahead of the plan's and active:    *)
(* after a plan-rollback the lifecycle that was rolled back goes on.       *)
Outrun(n, f) ==
    /\ f \in DOMAIN Plan.forwards
    /\ applied[n][f].version > Plan.forwards[f].version
    /\ Plan.forwards[f].life # applied[n][f].life

OutOfForce == planPaused \/ unpublished

(* In the end no node carries traffic that its tenant, its quota or its    *)
(* expiry forbids, nor more forwards of a tenant than it may have, unless  *)
(* the plan is paused or could not be scheduled (the three enforcers, with *)
(* preserveRuntimeLifecycles between them).                                *)
Forbidden(f) ==
    \/ Expired(f)
    \/ f \in exhausted
    \/ f \in Tenanted /\ (~tenant.enabled \/ f \notin tenant.allows)

Enforced ==
    <>[](OutOfForce \/ \A n \in Node :
            /\ \A f \in Forward : Carries(n, f) /\ Forbidden(f) => Outrun(n, f)
            /\ \/ \E f \in Tenanted : Carries(n, f) /\ Outrun(n, f)
               \/ Cardinality({f \in Tenanted : Carries(n, f)}) <= tenant.max)

(* A forward that is deleted by force, or whose drain deadline has passed, *)
(* disappears from the plan, unless a node has it with a higher version    *)
(* and another lifecycle (a policy has paused it there, or the plan was    *)
(* rolled back), or the plan is paused or could not be scheduled           *)
(* (FinalizeClusterDeletes).                                               *)
Due(f) == f \in DOMAIN Plan.forwards /\ Finalizable(Plan.forwards[f])

Ahead(n, f) ==
    /\ f \in DOMAIN desired[n]
    /\ desired[n][f].life # "force_deleting"
    /\ desired[n][f].version > Plan.forwards[f].version

DeletionCompletes ==
    \A f \in Forward :
        Due(f) ~> \/ ~Due(f)
                  \/ OutOfForce
                  \/ \E n \in Placed[f] : Ahead(n, f)

=============================================================================
