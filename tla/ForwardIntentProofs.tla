------------------------ MODULE ForwardIntentProofs ------------------------
(***************************************************************************)
(* Theorems about ForwardIntent, for every set of nodes, forwards, users   *)
(* and scenarios: the revision check alone keeps the edits of concurrent   *)
(* callers apart, and a forward is forgotten only after its flows are.     *)
(***************************************************************************)
EXTENDS ForwardIntent, TLAPS

(* The values plans and requests take, as sets.                            *)
PlanForwards == UNION {[D -> ForwardSpec] : D \in SUBSET Forward}
PlanRow == [forwards : PlanForwards, policy : Nat]
Kinds == {"create", "update", "delete", "tenant", "quota", "finalize"}
RequestRow == [kind : Kinds, plan : PlanRow, revision : Nat, base : Nat,
               edits : SUBSET Forward]

(* The two plans have the same forwards, but for the edited ones.          *)
AgreeBut(p, q, edits) ==
    \A f \in Forward \ edits :
        /\ f \in DOMAIN p <=> f \in DOMAIN q
        /\ f \in DOMAIN q => p[f] = q[f]

(* Why no edit is lost: a request under way differs from the revision it   *)
(* was computed from by its own edits only, that revision is still there   *)
(* unchanged, and the number the request claims is at most the next one.   *)
(* What the request knows of the plan may be stale in every other way.     *)
PlansInv ==
    /\ revisions \in Seq(PlanRow)
    /\ active \in 1 .. Len(revisions)
    /\ tenant \in [enabled : BOOLEAN, max : Nat, allows : SUBSET Forward, version : Nat]
    /\ clock \in Nat

RequestsInv ==
    /\ request \in [Caller -> RequestRow \cup {NoRequest}]
    /\ \A c \in Caller : request[c] # NoRequest =>
          /\ request[c].revision <= Len(revisions) + 1
          /\ request[c].base \in 1 .. Len(revisions)
          /\ AgreeBut(request[c].plan.forwards, revisions[request[c].base].forwards,
                      request[c].edits)

EditInv == PlansInv /\ RequestsInv

-----------------------------------------------------------------------------
(* Plans.                                                                  *)

LEMMA ForwardsFacts ==
    ASSUME NEW p \in PlanForwards
    PROVE  /\ DOMAIN p \subseteq Forward
           /\ p = [f \in DOMAIN p |-> p[f]]
           /\ \A f \in DOMAIN p : p[f] \in ForwardSpec
  BY DEF PlanForwards

LEMMA ForwardsType ==
    ASSUME NEW D \in SUBSET Forward, NEW p \in [D -> ForwardSpec]
    PROVE  p \in PlanForwards
  BY DEF PlanForwards

LEMMA ActivePlan ==
    ASSUME PlansInv
    PROVE  /\ Plan \in PlanRow /\ Plan.forwards \in PlanForwards /\ Plan.policy \in Nat
           /\ Len(revisions) \in Nat /\ Len(revisions) >= 1
  <1>1. Plan \in PlanRow /\ Len(revisions) \in Nat /\ Len(revisions) >= 1
    BY DEF PlansInv, Plan
  <1>2. QED  BY <1>1 DEF PlanRow

LEMMA SpecTypes ==
    ASSUME NEW spec \in ForwardSpec
    PROVE  Pause(spec) \in ForwardSpec /\ spec.version + 1 \in Nat
  BY DEF Pause, ForwardSpec, Lifecycle, NoDeadline

(* A plan with one forward replaced or added.                              *)
LEMMA OneEdited ==
    ASSUME NEW p \in PlanForwards, NEW f \in Forward, NEW spec \in ForwardSpec
    PROVE  /\ With(p, f, spec) \in PlanForwards /\ AgreeBut(With(p, f, spec), p, {f})
           /\ f \in DOMAIN p =>
                 /\ [p EXCEPT ![f] = spec] \in PlanForwards
                 /\ AgreeBut([p EXCEPT ![f] = spec], p, {f})
  <1>1. /\ DOMAIN p \subseteq Forward /\ p = [g \in DOMAIN p |-> p[g]]
        /\ \A g \in DOMAIN p : p[g] \in ForwardSpec
    BY ForwardsFacts
  <1>2. With(p, f, spec) \in [DOMAIN p \cup {f} -> ForwardSpec]
    BY <1>1 DEF With
  <1>3. AgreeBut(With(p, f, spec), p, {f})
    BY DEF With, AgreeBut
  <1>4. ASSUME f \in DOMAIN p
        PROVE  /\ [p EXCEPT ![f] = spec] \in [DOMAIN p -> ForwardSpec]
               /\ AgreeBut([p EXCEPT ![f] = spec], p, {f})
    BY <1>1, <1>4 DEF AgreeBut
  <1>5. QED  BY <1>1, <1>2, <1>3, <1>4, ForwardsType

(* A plan with some forwards paused.                                       *)
LEMMA SomePaused ==
    ASSUME NEW p \in PlanForwards, NEW S \in SUBSET Forward
    PROVE  LET q == [f \in DOMAIN p |-> IF f \in S THEN Pause(p[f]) ELSE p[f]]
           IN  q \in PlanForwards /\ AgreeBut(q, p, S)
  <1> DEFINE q == [f \in DOMAIN p |-> IF f \in S THEN Pause(p[f]) ELSE p[f]]
  <1>1. DOMAIN p \subseteq Forward /\ \A g \in DOMAIN p : p[g] \in ForwardSpec
    BY ForwardsFacts
  <1>2. \A g \in DOMAIN p : Pause(p[g]) \in ForwardSpec
    BY <1>1, SpecTypes
  <1>3. q \in [DOMAIN p -> ForwardSpec]
    BY <1>1, <1>2
  <1>4. AgreeBut(q, p, S)
    BY DEF AgreeBut
  <1>5. QED  BY <1>1, <1>3, <1>4, ForwardsType

(* A plan with some forwards removed.                                      *)
LEMMA SomeRemoved ==
    ASSUME NEW p \in PlanForwards, NEW S \in SUBSET Forward
    PROVE  LET q == [f \in DOMAIN p \ S |-> p[f]]
           IN  q \in PlanForwards /\ AgreeBut(q, p, S)
  <1> DEFINE q == [f \in DOMAIN p \ S |-> p[f]]
  <1>1. DOMAIN p \subseteq Forward /\ \A g \in DOMAIN p : p[g] \in ForwardSpec
    BY ForwardsFacts
  <1>2. q \in [DOMAIN p \ S -> ForwardSpec]
    BY <1>1
  <1>3. AgreeBut(q, p, S)
    BY DEF AgreeBut
  <1>4. QED  BY <1>1, <1>2, <1>3, ForwardsType

-----------------------------------------------------------------------------
(* Steps.                                                                  *)

(* A step that writes no revision and leaves the requests alone.           *)
LEMMA OtherStep ==
    ASSUME EditInv, UNCHANGED <<revisions, active, request>>,
           clock' \in Nat,
           tenant' \in [enabled : BOOLEAN, max : Nat, allows : SUBSET Forward, version : Nat]
    PROVE  EditInv'
  BY DEF EditInv, PlansInv, RequestsInv

(* A caller has computed a plan from the active one.                       *)
LEMMA StartsStep ==
    ASSUME EditInv, NEW c \in Caller, NEW kind \in Kinds, NEW new \in PlanRow,
           NEW edits \in SUBSET Forward, AgreeBut(new.forwards, Plan.forwards, edits),
           Starts(c, kind, new, edits)
    PROVE  EditInv'
  <1> DEFINE row == [kind |-> kind, plan |-> new, revision |-> Maximum + 1, base |-> active,
                     edits |-> edits]
  <1>1. /\ request' = [request EXCEPT ![c] = row]
        /\ UNCHANGED <<revisions, active, tenant, clock>>
    BY DEF Starts, plans, orders
  <1>2. Len(revisions) \in Nat /\ active \in 1 .. Len(revisions)
    BY DEF EditInv, PlansInv
  <1>3. row \in RequestRow
    BY <1>2 DEF RequestRow, Maximum
  <1>4. /\ row.revision = Len(revisions) + 1 /\ row.base = active
        /\ AgreeBut(row.plan.forwards, revisions[row.base].forwards, row.edits)
    BY DEF Maximum, Plan
  <1> HIDE DEF row
  <1>5. /\ request \in [Caller -> RequestRow \cup {NoRequest}]
        /\ \A d \in Caller : request[d] # NoRequest =>
              /\ request[d].revision <= Len(revisions) + 1
              /\ request[d].base \in 1 .. Len(revisions)
              /\ AgreeBut(request[d].plan.forwards, revisions[request[d].base].forwards,
                          request[d].edits)
    BY DEF EditInv, RequestsInv
  <1>6. request' \in [Caller -> RequestRow \cup {NoRequest}]
    BY <1>1, <1>3, <1>5
  <1>7. ASSUME NEW d \in Caller, request'[d] # NoRequest
        PROVE  /\ request'[d].revision <= Len(revisions) + 1
               /\ request'[d].base \in 1 .. Len(revisions)
               /\ AgreeBut(request'[d].plan.forwards, revisions[request'[d].base].forwards,
                           request'[d].edits)
    <2>1. CASE d = c
      BY <1>1, <1>2, <1>4, <1>5, <2>1
    <2>2. CASE d # c
      BY <1>1, <1>5, <1>7, <2>2
    <2>3. QED  BY <2>1, <2>2
  <1>8. RequestsInv'
    BY <1>1, <1>6, <1>7 DEF RequestsInv
  <1>9. PlansInv'
    BY <1>1 DEF EditInv, PlansInv
  <1>10. QED  BY <1>8, <1>9 DEF EditInv

(* syncManagedUserPolicy leaves the forwards alone.                        *)
LEMMA SyncTypes ==
    ASSUME EditInv, NEW f
    PROVE  /\ SyncPolicy(Plan, f) \in PlanRow /\ SyncPolicy(Plan, f).forwards = Plan.forwards
           /\ \A p \in PlanForwards :
                 /\ [SyncPolicy(Plan, f) EXCEPT !.forwards = p] \in PlanRow
                 /\ [SyncPolicy(Plan, f) EXCEPT !.forwards = p].forwards = p
                 /\ [Plan EXCEPT !.forwards = p] \in PlanRow
                 /\ [Plan EXCEPT !.forwards = p].forwards = p
  <1>1. Plan \in PlanRow /\ tenant.version \in Nat
    BY ActivePlan DEF EditInv, PlansInv
  <1>2. SyncPolicy(Plan, f) \in PlanRow /\ SyncPolicy(Plan, f).forwards = Plan.forwards
    BY <1>1 DEF SyncPolicy, PlanRow
  <1>3. QED  BY <1>1, <1>2 DEF PlanRow

LEMMA HandlerStep ==
    ASSUME EditInv, NEW c \in User, NEW f \in Forward,
           \/ \E enabled \in BOOLEAN : handleCreateForward(c, f, enabled)
           \/ \E enabled \in (SUBSET BOOLEAN) \ {BOOLEAN} : handleUpdateForward(c, f, enabled)
           \/ \E mode \in {"drain", "force"} : handleDeleteForward(c, f, mode)
    PROVE  EditInv'
  <1>1. /\ c \in Caller /\ PlansInv
        /\ Plan.forwards \in PlanForwards
        /\ f \in DOMAIN Plan.forwards => Plan.forwards[f] \in ForwardSpec
    BY ActivePlan, ForwardsFacts DEF EditInv, Caller
  <1>2. ASSUME NEW enabled \in BOOLEAN, handleCreateForward(c, f, enabled)
        PROVE  EditInv'
    <2> DEFINE spec == NewForward(IF enabled THEN "active" ELSE "paused")
               p == With(Plan.forwards, f, spec)
               new == [SyncPolicy(Plan, f) EXCEPT !.forwards = p]
    <2>1. spec \in ForwardSpec
      BY DEF NewForward, ForwardSpec, Lifecycle, NoDeadline
    <2>2. p \in PlanForwards /\ AgreeBut(p, Plan.forwards, {f})
      BY <1>1, <2>1, OneEdited
    <2>3. new \in PlanRow /\ new.forwards = p
      BY <2>2, SyncTypes
    <2>4. Starts(c, "create", new, {f})
      BY <1>2, SyncTypes DEF handleCreateForward, Requests
    <2>5. AgreeBut(new.forwards, Plan.forwards, {f})
      BY <2>2, <2>3
    <2> HIDE DEF p, new
    <2>6. QED  BY <1>1, <2>3, <2>4, <2>5, StartsStep DEF Kinds
  <1>3. ASSUME NEW enabled \in (SUBSET BOOLEAN) \ {BOOLEAN}, handleUpdateForward(c, f, enabled)
        PROVE  EditInv'
    <2> DEFINE existing == Plan.forwards[f]
               life == CASE enabled = {} -> existing.life
                         [] enabled = {TRUE} -> "active"
                         [] enabled = {FALSE} -> "paused"
               spec == [life |-> life, version |-> existing.version + 1, deadline |-> NoDeadline]
               p == [Plan.forwards EXCEPT ![f] = spec]
               new == [SyncPolicy(Plan, f) EXCEPT !.forwards = p]
    <2>1. f \in DOMAIN Plan.forwards /\ Starts(c, "update",
              [SyncPolicy(Plan, f) EXCEPT !.forwards[f] = spec], {f})
      BY <1>3 DEF handleUpdateForward, Requests
    <2>2. existing \in ForwardSpec
      BY <1>1, <2>1
    <2>3. life \in Lifecycle
      <3>1. enabled = {} \/ enabled = {TRUE} \/ enabled = {FALSE}
        <4>1. \A x \in enabled : x = TRUE \/ x = FALSE
          BY Zenon
        <4>2. TRUE \notin enabled \/ FALSE \notin enabled
          <5>1. SUFFICES ASSUME TRUE \in enabled, FALSE \in enabled PROVE FALSE
            OBVIOUS
          <5>2. \A x : x \in enabled <=> x \in BOOLEAN
            BY <4>1, <5>1, Zenon
          <5>3. enabled = BOOLEAN
            BY <5>2, Zenon
          <5>4. QED  BY <5>3, Zenon
        <4>3. CASE TRUE \in enabled
          BY <4>1, <4>2, <4>3, Zenon
        <4>4. CASE FALSE \in enabled
          BY <4>1, <4>2, <4>4, Zenon
        <4>5. CASE TRUE \notin enabled /\ FALSE \notin enabled
          BY <4>1, <4>5, Zenon
        <4>6. QED  BY <4>3, <4>4, <4>5, Zenon
      <3>2. existing.life \in Lifecycle
        BY <2>2 DEF ForwardSpec
      <3>3. QED  BY <3>1, <3>2 DEF Lifecycle
    <2>4. spec \in ForwardSpec
      <3> HIDE DEF life, existing
      <3>1. existing.version + 1 \in Nat
        BY <2>2, SpecTypes
      <3>2. QED  BY <2>3, <3>1 DEF ForwardSpec, NoDeadline
    <2> HIDE DEF spec
    <2>5. p \in PlanForwards /\ AgreeBut(p, Plan.forwards, {f})
      BY <1>1, <2>1, <2>4, OneEdited
    <2>6. new \in PlanRow /\ new.forwards = p
      BY <2>5, SyncTypes
    <2>7. Starts(c, "update", new, {f})
      BY <2>1, SyncTypes
    <2>8. AgreeBut(new.forwards, Plan.forwards, {f})
      BY <2>5, <2>6
    <2> HIDE DEF p, new
    <2>9. QED  BY <1>1, <2>6, <2>7, <2>8, StartsStep DEF Kinds
  <1>4. ASSUME NEW mode \in {"drain", "force"}, handleDeleteForward(c, f, mode)
        PROVE  EditInv'
    <2> DEFINE version == Plan.forwards[f].version + 1
               spec == IF mode = "force"
                       THEN [life |-> "force_deleting", version |-> version,
                             deadline |-> NoDeadline]
                       ELSE [life |-> "draining", version |-> version, deadline |-> clock + 1]
               p == [Plan.forwards EXCEPT ![f] = spec]
               new == [Plan EXCEPT !.forwards = p]
    <2>1. f \in DOMAIN Plan.forwards /\ Starts(c, "delete", [Plan EXCEPT !.forwards[f] = spec], {f})
      BY <1>4 DEF handleDeleteForward, Requests
    <2>2. version \in Nat /\ clock \in Nat
      BY <1>1, <2>1, SpecTypes DEF PlansInv
    <2>3. spec \in ForwardSpec
      BY <2>2 DEF ForwardSpec, Lifecycle, NoDeadline
    <2> HIDE DEF spec
    <2>4. p \in PlanForwards /\ AgreeBut(p, Plan.forwards, {f})
      BY <1>1, <2>1, <2>3, OneEdited
    <2>5. new \in PlanRow /\ new.forwards = p
      BY <2>4, SyncTypes
    <2>6. Starts(c, "delete", new, {f})
      BY <2>1
    <2>7. AgreeBut(new.forwards, Plan.forwards, {f})
      BY <2>4, <2>5
    <2> HIDE DEF p, new
    <2>8. QED  BY <1>1, <2>5, <2>6, <2>7, StartsStep DEF Kinds
  <1>5. QED  BY <1>2, <1>3, <1>4

LEMMA EnforcementStep ==
    ASSUME EditInv, Enforcement
    PROVE  EditInv'
  <1> DEFINE forwards == Plan.forwards
  <1>1. /\ Worker \in Caller /\ forwards \in PlanForwards /\ DOMAIN forwards \subseteq Forward
        /\ Plan.policy \in Nat /\ tenant.version \in Nat
    BY ActivePlan, ForwardsFacts DEF EditInv, Caller, PlansInv
  <1>2. CASE EnforceTenantForwardPolicies
    <2> DEFINE bad == {f \in DOMAIN forwards : NonCompliant(forwards, f)}
               subject == \E f \in DOMAIN forwards \cap Tenanted :
                             forwards[f].life # "force_deleting"
               q == [f \in DOMAIN forwards |->
                        IF f \in bad THEN Pause(forwards[f]) ELSE forwards[f]]
               new == [forwards |-> q, policy |-> IF subject THEN tenant.version ELSE Plan.policy]
    <2>1. Starts(Worker, "tenant", new, bad)
      BY <1>2 DEF EnforceTenantForwardPolicies, Enforces
    <2>2. bad \in SUBSET Forward
      BY <1>1
    <2> HIDE DEF bad
    <2>3. q \in PlanForwards /\ AgreeBut(q, forwards, bad)
      BY <1>1, <2>2, SomePaused
    <2> HIDE DEF q, subject
    <2>4. new \in PlanRow /\ new.forwards = q
      BY <1>1, <2>3 DEF PlanRow
    <2>5. AgreeBut(new.forwards, Plan.forwards, bad)
      BY <2>3, <2>4
    <2> HIDE DEF new
    <2>6. QED  BY <1>1, <2>1, <2>2, <2>4, <2>5, StartsStep DEF Kinds
  <1>3. CASE EnforceTrafficQuotas
    <2> DEFINE over == {f \in DOMAIN forwards \cap exhausted :
                           forwards[f].life \notin {"paused", "force_deleting"}}
               q == [f \in DOMAIN forwards |->
                        IF f \in over THEN Pause(forwards[f]) ELSE forwards[f]]
               new == [Plan EXCEPT !.forwards = q]
    <2>1. Starts(Worker, "quota", new, over)
      BY <1>3 DEF EnforceTrafficQuotas, Enforces
    <2>2. over \in SUBSET Forward
      BY <1>1
    <2> HIDE DEF over
    <2>3. q \in PlanForwards /\ AgreeBut(q, forwards, over)
      BY <1>1, <2>2, SomePaused
    <2> HIDE DEF q
    <2>4. new \in PlanRow /\ new.forwards = q
      BY <2>3, SyncTypes
    <2>5. AgreeBut(new.forwards, Plan.forwards, over)
      BY <2>3, <2>4
    <2> HIDE DEF new
    <2>6. QED  BY <1>1, <2>1, <2>2, <2>4, <2>5, StartsStep DEF Kinds
  <1>4. CASE FinalizeClusterDeletes
    <2> DEFINE removed == {f \in DOMAIN forwards :
                              Finalizable(forwards[f]) /\ clusterForwardAbsentFromLatestDesired(f)}
               q == [f \in DOMAIN forwards \ removed |-> forwards[f]]
               new == [Plan EXCEPT !.forwards = q]
    <2>1. Starts(Worker, "finalize", new, removed)
      BY <1>4 DEF FinalizeClusterDeletes, Enforces
    <2>2. removed \in SUBSET Forward
      BY <1>1
    <2> HIDE DEF removed
    <2>3. q \in PlanForwards /\ AgreeBut(q, forwards, removed)
      BY <1>1, <2>2, SomeRemoved
    <2> HIDE DEF q
    <2>4. new \in PlanRow /\ new.forwards = q
      BY <2>3, SyncTypes
    <2>5. AgreeBut(new.forwards, Plan.forwards, removed)
      BY <2>3, <2>4
    <2> HIDE DEF new
    <2>6. QED  BY <1>1, <2>1, <2>2, <2>4, <2>5, StartsStep DEF Kinds
  <1>5. QED  BY <1>2, <1>3, <1>4 DEF Enforcement

(* The next revision is written; those before it stay as they were.        *)
LEMMA ApplyStep ==
    ASSUME EditInv, NEW c \in Caller, ApplyClusterPlan(c)
    PROVE  /\ EditInv'
           /\ Plan' = request[c].plan
           /\ request[c].revision = Len(revisions) + 1
           /\ \A d \in Caller \ {c} : request'[d] = request[d]
  <1>1. /\ request[c] # NoRequest /\ ~ RevisionConflict(c)
        /\ revisions' = Append(revisions, request[c].plan) /\ active' = Len(revisions) + 1
        /\ request' = [request EXCEPT ![c] = NoRequest]
        /\ UNCHANGED <<tenant, clock>>
    BY DEF ApplyClusterPlan, orders
  <1>2. /\ revisions \in Seq(PlanRow) /\ Len(revisions) \in Nat
        /\ request \in [Caller -> RequestRow \cup {NoRequest}]
        /\ request[c] \in RequestRow
    BY <1>1 DEF EditInv, PlansInv, RequestsInv
  <1>3. request[c].plan \in PlanRow /\ request[c].revision \in Nat
    BY <1>2 DEF RequestRow
  <1>4. /\ revisions' \in Seq(PlanRow) /\ Len(revisions') = Len(revisions) + 1
        /\ \A i \in 1 .. Len(revisions) : revisions'[i] = revisions[i]
        /\ revisions'[Len(revisions) + 1] = request[c].plan
    BY <1>1, <1>2, <1>3
  <1>5. request[c].revision = Len(revisions) + 1
    <2>1. request[c].revision <= Len(revisions) + 1
      BY <1>1 DEF EditInv, RequestsInv
    <2>2. ~ (request[c].revision <= Len(revisions))
      BY <1>1 DEF RevisionConflict, Maximum
    <2>3. QED  BY <1>2, <1>3, <2>1, <2>2
  <1>6. PlansInv'
    BY <1>1, <1>2, <1>4 DEF EditInv, PlansInv
  <1>7. ASSUME NEW d \in Caller, request'[d] # NoRequest
        PROVE  /\ request'[d].revision <= Len(revisions') + 1
               /\ request'[d].base \in 1 .. Len(revisions')
               /\ AgreeBut(request'[d].plan.forwards, revisions'[request'[d].base].forwards,
                           request'[d].edits)
    <2>1. request'[d] = request[d] /\ request[d] # NoRequest
      BY <1>1, <1>2, <1>7
    <2>2. /\ request[d].revision <= Len(revisions) + 1
          /\ request[d].base \in 1 .. Len(revisions)
          /\ AgreeBut(request[d].plan.forwards, revisions[request[d].base].forwards,
                      request[d].edits)
      BY <2>1 DEF EditInv, RequestsInv
    <2>3. request[d].revision \in Nat
      BY <1>2, <2>1 DEF RequestRow
    <2>4. QED  BY <1>2, <1>4, <2>1, <2>2, <2>3
  <1>8. RequestsInv'
    BY <1>1, <1>2, <1>7 DEF RequestsInv
  <1>9. Plan' = request[c].plan
    BY <1>1, <1>4 DEF Plan
  <1>10. QED  BY <1>1, <1>2, <1>5, <1>6, <1>8, <1>9 DEF EditInv

LEMMA EditStep ==
    ASSUME EditInv, [Next]_vars, ~ \E c \in Caller : ApplyClusterPlan(c)
    PROVE  EditInv' /\ revisions' = revisions
  <1>1. /\ clock \in Nat
        /\ tenant \in [enabled : BOOLEAN, max : Nat, allows : SUBSET Forward, version : Nat]
    BY DEF EditInv, PlansInv
  <1>2. ASSUME NEW c \in User, NEW f \in Forward,
               \/ \E enabled \in BOOLEAN : handleCreateForward(c, f, enabled)
               \/ \E enabled \in (SUBSET BOOLEAN) \ {BOOLEAN} : handleUpdateForward(c, f, enabled)
               \/ \E mode \in {"drain", "force"} : handleDeleteForward(c, f, mode)
        PROVE  EditInv' /\ revisions' = revisions
    <2>1. revisions' = revisions
      BY <1>2 DEF handleCreateForward, handleUpdateForward, handleDeleteForward, Requests, Starts,
                  plans
    <2>2. QED  BY <1>2, <2>1, HandlerStep
  <1>3. ASSUME NEW c \in Caller, ApplyRefused(c)
        PROVE  EditInv' /\ revisions' = revisions
    <2>1. /\ request' = [request EXCEPT ![c] = NoRequest]
          /\ UNCHANGED <<revisions, active, tenant, clock>>
      BY <1>3 DEF ApplyRefused, plans, orders
    <2>2. request \in [Caller -> RequestRow \cup {NoRequest}]
      BY DEF EditInv, RequestsInv
    <2>3. \A d \in Caller : request'[d] # NoRequest => request'[d] = request[d]
      BY <2>1, <2>2
    <2>4. RequestsInv'
      BY <2>1, <2>2, <2>3 DEF EditInv, RequestsInv
    <2>5. PlansInv'
      BY <2>1 DEF EditInv, PlansInv
    <2>6. QED  BY <2>1, <2>4, <2>5 DEF EditInv
  <1>4. ASSUME NEW revision \in 1 .. Len(revisions), RollbackClusterPlan(revision)
        PROVE  EditInv' /\ revisions' = revisions
    <2>1. active' = revision /\ UNCHANGED <<revisions, request, tenant, clock>>
      BY <1>4 DEF RollbackClusterPlan, orders
    <2>2. QED  BY <2>1 DEF EditInv, PlansInv, RequestsInv
  <1>5. CASE Enforcement
    <2>1. revisions' = revisions
      BY <1>5 DEF Enforcement, EnforceTenantForwardPolicies, EnforceTrafficQuotas,
                  FinalizeClusterDeletes, Enforces, Starts, plans
    <2>2. QED  BY <1>5, <2>1, EnforcementStep
  <1>6. CASE ReconcileClusterPlans \/ AdvanceClusterRollouts \/ EnforcePolicies
    <2>1. UNCHANGED <<revisions, active, request, tenant, clock>>
      BY <1>6 DEF ReconcileClusterPlans, AdvanceClusterRollouts, StageAcknowledged, StageFails,
                  CompensationEnds, AdvanceFrame, EnforcePolicies, plans, orders
    <2>2. QED  BY <1>1, <2>1, OtherStep
  <1>7. CASE \/ \E n \in Node : \E f \in Forward : RecordUsageBatch(n, f)
             \/ \E n \in Node : AgentApplies(n)
             \/ UNCHANGED vars
    <2>1. UNCHANGED <<revisions, active, request, tenant, clock>>
      BY <1>7 DEF RecordUsageBatch, AgentApplies, plans, orders, vars
    <2>2. QED  BY <1>1, <2>1, OtherStep
  <1>8. ASSUME NEW allowance \in Allowances, SetTenantPolicy(allowance)
        PROVE  EditInv' /\ revisions' = revisions
    <2>1. /\ UNCHANGED <<revisions, active, request, clock>>
          /\ tenant' = [tenant EXCEPT !.max = allowance.max, !.allows = allowance.allows,
                                      !.version = @ + 1]
      BY <1>8 DEF SetTenantPolicy, plans
    <2>2. allowance.max \in Nat /\ allowance.allows \in SUBSET Forward
      BY AllowanceAssumption
    <2>3. tenant.version + 1 \in Nat
      BY <1>1
    <2>4. tenant' = [enabled |-> tenant.enabled, max |-> allowance.max,
                     allows |-> allowance.allows, version |-> tenant.version + 1]
      BY <1>1, <2>1
    <2>5. tenant' \in [enabled : BOOLEAN, max : Nat, allows : SUBSET Forward, version : Nat]
      <3>1. tenant.enabled \in BOOLEAN
        BY <1>1
      <3>2. QED  BY <2>2, <2>3, <2>4, <3>1
    <2>6. QED  BY <1>1, <2>1, <2>5, OtherStep
  <1>9. CASE DisableTenant
    <2>1. /\ UNCHANGED <<revisions, active, request, clock>>
          /\ tenant' = [tenant EXCEPT !.enabled = FALSE]
      BY <1>9 DEF DisableTenant, plans
    <2>2. tenant' \in [enabled : BOOLEAN, max : Nat, allows : SUBSET Forward, version : Nat]
      BY <1>1, <2>1
    <2>3. QED  BY <1>1, <2>1, <2>2, OtherStep
  <1>10. CASE Tick
    <2>1. UNCHANGED <<revisions, active, request, tenant>> /\ clock' = clock + 1
      BY <1>10 DEF Tick, plans
    <2>2. QED  BY <1>1, <2>1, OtherStep
  <1>11. QED
    BY <1>2, <1>3, <1>4, <1>5, <1>6, <1>7, <1>8, <1>9, <1>10 DEF Next, WorkerStep

LEMMA EditInit ==
    ASSUME Init
    PROVE  EditInv
  <1>1. PICK s \in Scenarios :
            /\ tenant = [enabled |-> TRUE, max |-> s.allowance.max, allows |-> s.allowance.allows,
                         version |-> 1]
            /\ revisions = <<[forwards |-> [f \in s.existing |-> NewForward("active")],
                              policy |-> 1]>>
    BY DEF Init
  <1>2. /\ active = 1 /\ clock = 0 /\ request = [c \in Caller |-> NoRequest]
    BY DEF Init
  <1>3. s.existing \in SUBSET Forward /\ s.allowance \in Allowances
    BY ScenarioAssumption
  <1>4. s.allowance.max \in Nat /\ s.allowance.allows \in SUBSET Forward
    BY <1>3, AllowanceAssumption
  <1>5. [f \in s.existing |-> NewForward("active")] \in PlanForwards
    <2>1. NewForward("active") \in ForwardSpec
      BY DEF NewForward, ForwardSpec, Lifecycle, NoDeadline
    <2>2. [f \in s.existing |-> NewForward("active")] \in [s.existing -> ForwardSpec]
      BY <2>1
    <2>3. QED  BY <1>3, <2>2, ForwardsType
  <1>6. revisions \in Seq(PlanRow) /\ Len(revisions) = 1
    <2> DEFINE p == [f \in s.existing |-> NewForward("active")]
    <2>1. revisions = <<[forwards |-> p, policy |-> 1]>> /\ p \in PlanForwards
      BY <1>1, <1>5
    <2> HIDE DEF p
    <2>2. [forwards |-> p, policy |-> 1] \in PlanRow
      BY <2>1 DEF PlanRow
    <2>3. QED  BY <2>1, <2>2
  <1>7. tenant \in [enabled : BOOLEAN, max : Nat, allows : SUBSET Forward, version : Nat]
    BY <1>1, <1>4
  <1>8. PlansInv
    BY <1>2, <1>6, <1>7 DEF PlansInv
  <1>9. RequestsInv
    BY <1>2 DEF RequestsInv
  <1>10. QED  BY <1>8, <1>9 DEF EditInv

-----------------------------------------------------------------------------
LEMMA EditInductive == Spec => []EditInv
  <1>1. Init => EditInv
    BY EditInit
  <1>2. EditInv /\ [Next]_vars => EditInv'
    BY ApplyStep, EditStep
  <1>3. QED  BY <1>1, <1>2, PTL DEF Spec

(* The property of one step: a caller's revision leaves every forward it   *)
(* did not edit as the latest revision has it.                             *)
EditKept ==
    \A c \in Caller :
        /\ Len(revisions') > Len(revisions)
        /\ request[c] # NoRequest /\ request'[c] = NoRequest
        /\ request[c].base = request[c].revision - 1
        /\ active = Len(revisions)
        => \A f \in Forward \ request[c].edits :
              /\ f \in DOMAIN Plan'.forwards <=> f \in DOMAIN Plan.forwards
              /\ f \in DOMAIN Plan.forwards => Plan'.forwards[f] = Plan.forwards[f]

(* No edit is lost, however many users and policies write plans at a time  *)
(* and whatever they do in between (the revision check of                  *)
(* ApplyClusterPlan).                                                      *)
THEOREM NoEditLost == Spec => NoLostEdit
  <1>1. ASSUME EditInv, [Next]_vars
        PROVE  EditKept
    <2> SUFFICES ASSUME NEW c \in Caller, Len(revisions') > Len(revisions),
                        request[c] # NoRequest, request'[c] = NoRequest,
                        request[c].base = request[c].revision - 1, active = Len(revisions)
                 PROVE  \A f \in Forward \ request[c].edits :
                           /\ f \in DOMAIN Plan'.forwards <=> f \in DOMAIN Plan.forwards
                           /\ f \in DOMAIN Plan.forwards => Plan'.forwards[f] = Plan.forwards[f]
      BY DEF EditKept
    <2>1. Len(revisions) \in Nat /\ ~ (Len(revisions) > Len(revisions))
      BY <1>1 DEF EditInv, PlansInv
    <2>2. PICK d \in Caller : ApplyClusterPlan(d)
      BY <1>1, <2>1, EditStep
    <2>3. /\ Plan' = request[d].plan /\ request[d].revision = Len(revisions) + 1
          /\ \A e \in Caller \ {d} : request'[e] = request[e]
      BY <1>1, <2>2, ApplyStep
    <2>4. d = c
      BY <2>3
    <2>5. request[c].base = active
      BY <2>1, <2>3, <2>4
    <2>6. AgreeBut(request[c].plan.forwards, Plan.forwards, request[c].edits)
      BY <1>1, <2>5 DEF EditInv, RequestsInv, Plan
    <2>7. QED  BY <2>3, <2>4, <2>6 DEF AgreeBut
  <1>2. EditInv /\ [Next]_vars => [EditKept]_vars
    BY <1>1
  <1>3. QED  BY <1>2, EditInductive, PTL DEF Spec, NoLostEdit, EditKept

-----------------------------------------------------------------------------
(* Deletion.  What a node will have been given once the rollout under way  *)
(* has published its last stage.                                           *)
Left ==
    IF rollout.status = "running" /\ rollout.stages # <<>> THEN DOMAIN Head(rollout.stages)
    ELSE {}

Given(n) == IF n \in Left THEN Head(rollout.stages)[n] ELSE desired[n]

(* The node is still to be told of f, or does not carry it.                *)
Followed(n, f) == f \in DOMAIN desired[n] \/ ~Carries(n, f)

ShapeInv ==
    /\ placements \subseteq Forward
    /\ desired = [n \in Node |-> desired[n]]
    /\ applied = [n \in Node |-> applied[n]]
    /\ rollout = [status |-> rollout.status, stages |-> rollout.stages,
                  baselines |-> rollout.baselines, nodes |-> rollout.nodes,
                  published |-> rollout.published, waiting |-> rollout.waiting,
                  superseded |-> rollout.superseded]
    /\ rollout.status \in {"none", "running", "reverting"}
    /\ rollout.stages # <<>> => Tail(rollout.stages) = <<>>

(* Outside of a rollout the nodes are given forwards of the committed      *)
(* placements only; during one they go from these to those of the plan.    *)
PlacedInv ==
    /\ rollout.status # "running" => \A n \in Node : DOMAIN desired[n] \subseteq placements
    /\ rollout.status = "running" => \A n \in Node :
          /\ DOMAIN rollout.baselines[n] \subseteq placements
          /\ n \notin rollout.published => DOMAIN desired[n] \subseteq placements
          /\ DOMAIN Given(n) \subseteq DOMAIN Plan.forwards

(* A plan that is in force is, or is about to be, published: a forward of  *)
(* it leaves the desired state of a node only by the clean-up, once the    *)
(* node runs it as force_deleting.                                         *)
FollowInv ==
    ~unpublished /\ ~planPaused =>
        \A f \in DOMAIN Plan.forwards : \A n \in Placed[f] :
            IF n \in Left THEN f \in DOMAIN Given(n) ELSE Followed(n, f)

(* What the finalizer found is still so when it writes its revision.       *)
RemovalInv ==
    request[Worker] # NoRequest =>
        /\ ~planPaused
        /\ request[Worker].kind = "finalize" /\ ~RevisionConflict(Worker) /\ ~InProgress =>
              \A f \in request[Worker].edits \cap placements : \A n \in Placed[f] :
                  f \notin DOMAIN desired[n] /\ (unpublished \/ ~Carries(n, f))

ClearInv == EditInv /\ ShapeInv /\ PlacedInv /\ FollowInv /\ RemovalInv

(* The target of a schedule has the forwards of the plan, where they are   *)
(* placed.                                                                 *)
LEMMA TargetDomain ==
    ASSUME NEW current, NEW forwards
    PROVE  LET target == preserveRuntimeLifecycles(current, Compile(forwards))
           IN  /\ target = [n \in Node |-> target[n]]
               /\ \A n \in Node : DOMAIN target[n] = {g \in DOMAIN forwards : n \in Placed[g]}
  <1> DEFINE target == preserveRuntimeLifecycles(current, Compile(forwards))
             entry(n, f) ==
                LET newer == {s \in Latest(current, f) :
                                 s.version > Compile(forwards)[n][f].version}
                IN  IF newer = {} THEN Compile(forwards)[n][f] ELSE CHOOSE s \in newer : TRUE
  <1>1. target = [n \in Node |-> [f \in DOMAIN Compile(forwards)[n] |-> entry(n, f)]]
    BY DEF preserveRuntimeLifecycles
  <1> HIDE DEF entry
  <1>2. \A n \in Node : DOMAIN Compile(forwards)[n] = {g \in DOMAIN forwards : n \in Placed[g]}
    BY DEF Compile
  <1>3. QED  BY <1>1, <1>2

(* Nothing has to change only when every node has the target's forwards.   *)
LEMMA UnchangedDomain ==
    ASSUME NEW from, NEW to, Changed(from, to) = {}, NEW n \in Node,
           DOMAIN from[n] \subseteq Forward, DOMAIN to[n] \subseteq Forward
    PROVE  DOMAIN from[n] = DOMAIN to[n]
  <1>1. \A f \in Forward : (f \in DOMAIN from[n]) = (f \in DOMAIN to[n])
    BY DEF Changed
  <1>2. QED  BY <1>1

(* Whatever the canary, the stages lead to the target, and a node that the *)
(* first one does not change is left alone.                                *)
LEMMA StagesGiven ==
    ASSUME NEW from, NEW to, from = [n \in Node |-> from[n]], to = [n \in Node |-> to[n]],
           NEW canary
    PROVE  LET stages == Stages(from, to, canary)
               first  == Head(stages)
               rest   == Tail(stages)
               given  == [n \in Node |-> IF n \in DOMAIN first THEN first[n] ELSE from[n]]
           IN  \/ rest = <<>> /\ given = to
               \/ /\ rest # <<>> /\ Tail(rest) = <<>>
                  /\ \A n \in DOMAIN Head(rest) : n \in Node /\ Head(rest)[n] = to[n]
                  /\ \A n \in Node \ DOMAIN Head(rest) : given[n] = to[n]
  <1> DEFINE middle == Mixed(from, to, canary)
             stages == Stages(from, to, canary)
             after(s, t) == [n \in Node |-> IF n \in DOMAIN Rows(s, t) THEN Rows(s, t)[n] ELSE s[n]]
  <1>1. middle = [n \in Node |-> middle[n]]
    BY DEF Mixed
  <1> HIDE DEF middle
  <1>2. ASSUME NEW s, NEW t, t = [n \in Node |-> t[n]]
        PROVE  after(s, t) = t
    <2>1. \A n \in Node : after(s, t)[n] = t[n]
      <3>1. /\ DOMAIN Rows(s, t) = {m \in Node : s[m] # t[m]}
            /\ \A n \in DOMAIN Rows(s, t) : Rows(s, t)[n] = t[n]
        BY DEF Rows
      <3>2. QED  BY <3>1
    <2>2. after(s, t) = [n \in Node |-> after(s, t)[n]]
      OBVIOUS
    <2> HIDE DEF after
    <2>3. QED  BY <1>2, <2>1, <2>2
  <1> HIDE DEF stages
  <1>3. /\ \A a : Head(<<a>>) = a /\ Tail(<<a>>) = <<>> /\ <<a>> # <<>>
        /\ \A a, b : Head(<<a, b>>) = a /\ Tail(<<a, b>>) = <<b>>
    OBVIOUS
  <1>4. CASE middle = to
    <2>1. stages = <<Rows(from, to)>>
      BY <1>4 DEF stages, Stages, middle
    <2>2. Head(stages) = Rows(from, to) /\ Tail(stages) = <<>>
      BY <1>3, <2>1
    <2>3. after(from, to) = to
      BY <1>2
    <2>4. QED  BY <2>2, <2>3 DEF stages
  <1>5. CASE middle # to
    <2>1. stages = <<Rows(from, middle), Rows(middle, to)>>
      BY <1>5 DEF stages, Stages, middle
    <2>2. /\ Head(stages) = Rows(from, middle) /\ Tail(stages) = <<Rows(middle, to)>>
          /\ Tail(stages) # <<>> /\ Head(Tail(stages)) = Rows(middle, to)
          /\ Tail(Tail(stages)) = <<>>
      BY <1>3, <2>1
    <2>3. after(from, middle) = middle
      BY <1>1, <1>2
    <2>4. /\ \A n \in DOMAIN Rows(middle, to) : n \in Node /\ Rows(middle, to)[n] = to[n]
          /\ \A n \in Node \ DOMAIN Rows(middle, to) : middle[n] = to[n]
      BY DEF Rows
    <2>5. QED  BY <2>2, <2>3, <2>4 DEF stages
  <1>6. QED  BY <1>4, <1>5

LEMMA ScheduleStep ==
    ASSUME ShapeInv, PlacedInv, rollout.status = "none", NEW forwards \in PlanForwards,
           schedulePlanTx(forwards), Plan'.forwards = forwards, applied' = applied
    PROVE  /\ ShapeInv' /\ PlacedInv' /\ FollowInv'
           /\ InProgress' \/ /\ UNCHANGED <<desired, rollout>>
                             /\ placements' = DOMAIN forwards
                             /\ \A f \in DOMAIN forwards : \A n \in Placed[f] : f \in DOMAIN desired[n]
  <1> DEFINE target == preserveRuntimeLifecycles(desired, Compile(forwards))
             changed == Changed(desired, target)
  <1>1. /\ target = [n \in Node |-> target[n]]
        /\ \A n \in Node : DOMAIN target[n] = {g \in DOMAIN forwards : n \in Placed[g]}
    BY TargetDomain
  <1>2. DOMAIN forwards \subseteq Forward
    BY ForwardsFacts
  <1>3. /\ desired = [n \in Node |-> desired[n]] /\ placements \subseteq Forward
        /\ applied = [n \in Node |-> applied[n]]
        /\ \A n \in Node : DOMAIN desired[n] \subseteq placements
    BY DEF ShapeInv, PlacedInv
  <1>4. \A f \in DOMAIN forwards : \A n \in Placed[f] : n \in Node /\ f \in DOMAIN target[n]
    BY <1>1, <1>2, PlacementAssumption
  <1>5. \A n \in Node : DOMAIN target[n] \subseteq DOMAIN forwards
    BY <1>1
  <1>6. CASE changed = {}
    <2>1. placements' = DOMAIN forwards /\ UNCHANGED <<rollout, desired>>
      BY <1>6 DEF schedulePlanTx
    <2>2. \A n \in Node : DOMAIN desired[n] = DOMAIN target[n]
      <3> HIDE DEF target
      <3>1. QED  BY <1>2, <1>3, <1>5, <1>6, UnchangedDomain
    <2> HIDE DEF target
    <2>3. \A f \in DOMAIN forwards : \A n \in Placed[f] : f \in DOMAIN desired[n]
      BY <1>4, <2>2
    <2>4. ShapeInv'
      BY <1>2, <1>3, <2>1 DEF ShapeInv
    <2>5. PlacedInv'
      BY <1>5, <2>1, <2>2 DEF PlacedInv
    <2>6. Left' = {}
      BY <2>1 DEF Left
    <2>7. FollowInv'
      BY <2>1, <2>3, <2>6 DEF FollowInv, Followed
    <2>8. QED  BY <2>1, <2>3, <2>4, <2>5, <2>7
  <1>7. CASE changed # {}
    <2> DEFINE stages(canary) == Stages(desired, target, canary)
    <2>1. PICK canary \in (SUBSET changed) \ {{}} :
              /\ rollout' = [status |-> "running", stages |-> Tail(stages(canary)),
                             baselines |-> desired,
                             nodes |-> UNION {DOMAIN stages(canary)[k] :
                                                 k \in DOMAIN stages(canary)},
                             published |-> DOMAIN Head(stages(canary)),
                             waiting |-> DOMAIN Head(stages(canary)), superseded |-> FALSE]
              /\ Publishes(Head(stages(canary)))
              /\ UNCHANGED placements
      BY <1>7 DEF schedulePlanTx
    <2> DEFINE all   == UNION {DOMAIN stages(canary)[k] : k \in DOMAIN stages(canary)}
               first == Head(stages(canary))
               rest  == Tail(stages(canary))
               given == [n \in Node |-> IF n \in DOMAIN first THEN first[n] ELSE desired[n]]
    <2>2. \/ rest = <<>> /\ given = target
          \/ /\ rest # <<>> /\ Tail(rest) = <<>>
             /\ \A n \in DOMAIN Head(rest) : n \in Node /\ Head(rest)[n] = target[n]
             /\ \A n \in Node \ DOMAIN Head(rest) : given[n] = target[n]
      <3> HIDE DEF target
      <3>1. QED  BY <1>1, <1>3, StagesGiven
    <2>3. /\ rollout' = [status |-> "running", stages |-> rest, baselines |-> desired,
                         nodes |-> all, published |-> DOMAIN first, waiting |-> DOMAIN first,
                         superseded |-> FALSE]
          /\ desired' = given /\ placements' = placements
      BY <2>1 DEF Publishes
    <2> HIDE DEF target, stages, all, first, rest
    <2>4. /\ rollout'.status = "running" /\ rollout'.stages = rest
          /\ rollout'.baselines = desired /\ rollout'.published = DOMAIN first
          /\ Left' = IF rest # <<>> THEN DOMAIN Head(rest) ELSE {}
      BY <2>3 DEF Left
    <2>5. \A n \in Node : Given(n)' = target[n]
      BY <2>2, <2>3, <2>4 DEF Given
    <2>6. ShapeInv'
      <3>1. rollout' = [status |-> rollout'.status, stages |-> rollout'.stages,
                  baselines |-> rollout'.baselines, nodes |-> rollout'.nodes,
                  published |-> rollout'.published, waiting |-> rollout'.waiting,
                  superseded |-> rollout'.superseded]
        BY <2>3
      <3>2. rollout'.stages # <<>> => Tail(rollout'.stages) = <<>>
        BY <2>2, <2>4
      <3>3. desired' = [n \in Node |-> desired'[n]]
        BY <2>3
      <3>4. QED  BY <1>3, <2>3, <2>4, <3>1, <3>2, <3>3 DEF ShapeInv
    <2>7. \A n \in Node : n \notin DOMAIN first => desired'[n] = desired[n]
      BY <2>3
    <2>8. PlacedInv'
      BY <1>3, <1>5, <2>3, <2>4, <2>5, <2>7 DEF PlacedInv
    <2>9. \A n \in Node \ Left' : Given(n)' = desired'[n]
      BY DEF Given
    <2>10. FollowInv'
      <3> SUFFICES ASSUME NEW f \in DOMAIN forwards, NEW n \in Placed[f]
                   PROVE  f \in DOMAIN Given(n)' /\ (n \notin Left' => Followed(n, f)')
        BY DEF FollowInv
      <3>1. n \in Node /\ f \in DOMAIN Given(n)'
        BY <1>4, <2>5
      <3>2. QED  BY <2>9, <3>1 DEF Followed
    <2>11. InProgress'
      BY <2>4 DEF InProgress
    <2>12. QED  BY <2>6, <2>8, <2>10, <2>11
  <1>8. QED  BY <1>6, <1>7

(* A step that publishes nothing.                                          *)
LEMMA QuietStep ==
    ASSUME ShapeInv, PlacedInv, FollowInv, UNCHANGED <<plans, publications, applied>>
    PROVE  ShapeInv' /\ PlacedInv' /\ FollowInv'
  <1>1. UNCHANGED <<revisions, active, planPaused, unpublished, placements, rollout, desired,
                    applied>>
    BY DEF plans, publications
  <1>2. ShapeInv'
    BY <1>1 DEF ShapeInv
  <1>3. PlacedInv'
    BY <1>1 DEF PlacedInv, Given, Left, Plan
  <1>4. FollowInv'
    BY <1>1 DEF FollowInv, Given, Left, Plan, Followed, Carries
  <1>5. QED  BY <1>2, <1>3, <1>4

(* The worker's request is as it was, and so is all it depends on.         *)
LEMMA RemovalKept ==
    ASSUME RemovalInv, UNCHANGED <<planPaused, unpublished, placements, revisions>>,
           request'[Worker] = request[Worker],
           rollout'.status = rollout.status,
           \A n \in Node : DOMAIN desired'[n] \subseteq DOMAIN desired[n],
           \A n \in Node : applied'[n] = applied[n] \/ applied'[n] = desired[n],
           EditInv
    PROVE  RemovalInv'
  <1> SUFFICES ASSUME request[Worker] # NoRequest
               PROVE  RemovalInv'
    BY DEF RemovalInv
  <1>1. ~planPaused'
    BY DEF RemovalInv
  <1> SUFFICES ASSUME request[Worker].kind = "finalize", ~RevisionConflict(Worker), ~InProgress,
                      NEW f \in request[Worker].edits \cap placements, NEW n \in Placed[f]
               PROVE  f \notin DOMAIN desired'[n] /\ (unpublished \/ ~Carries(n, f)')
    BY <1>1 DEF RemovalInv, RevisionConflict, Maximum, InProgress
  <1>2. f \notin DOMAIN desired[n] /\ (unpublished \/ ~Carries(n, f))
    BY DEF RemovalInv
  <1>3. f \in Forward /\ n \in Node
    <2>1. Worker \in Caller
      BY DEF Caller
    <2>2. request[Worker] \in RequestRow
      BY <2>1 DEF EditInv, RequestsInv
    <2>3. f \in Forward
      BY <2>2 DEF RequestRow
    <2>4. QED  BY <2>3, PlacementAssumption
  <1>4. QED  BY <1>2, <1>3 DEF Carries

LEMMA WorkerAsks ==
    ASSUME ClearInv, Enforcement
    PROVE  RemovalInv'
  <1>1. /\ ~planPaused /\ ~InProgress /\ UNCHANGED <<plans, publications, applied>>
    BY DEF Enforcement, EnforceTenantForwardPolicies, EnforceTrafficQuotas,
           FinalizeClusterDeletes, Enforces, Starts
  <1>2. UNCHANGED <<revisions, planPaused, unpublished, placements, rollout, desired, applied>>
    BY <1>1 DEF plans, publications
  <1>3. Worker \in Caller /\ request \in [Caller -> RequestRow \cup {NoRequest}]
    BY DEF Caller, ClearInv, EditInv, RequestsInv
  <1>4. CASE EnforceTenantForwardPolicies \/ EnforceTrafficQuotas
    <2>1. request'[Worker].kind \in {"tenant", "quota"}
      BY <1>3, <1>4 DEF EnforceTenantForwardPolicies, EnforceTrafficQuotas, Enforces, Starts
    <2>2. QED  BY <1>1, <1>2, <2>1 DEF RemovalInv
  <1>5. CASE FinalizeClusterDeletes
    <2> DEFINE removed == {f \in DOMAIN Plan.forwards :
                              /\ Finalizable(Plan.forwards[f])
                              /\ clusterForwardAbsentFromLatestDesired(f)}
    <2>1. request'[Worker].edits = removed
      BY <1>3, <1>5 DEF FinalizeClusterDeletes, Enforces, Starts
    <2>2. Left = {}
      BY <1>1 DEF InProgress, Left
    <2>3. ASSUME NEW f \in removed \cap placements, NEW n \in Placed[f]
          PROVE  f \notin DOMAIN desired[n] /\ (unpublished \/ ~Carries(n, f))
      <3>1. f \in DOMAIN Plan.forwards /\ f \notin DOMAIN desired[n]
        BY <2>3 DEF clusterForwardAbsentFromLatestDesired
      <3>2. ~unpublished => Followed(n, f)
        BY <1>1, <2>2, <3>1 DEF ClearInv, FollowInv
      <3>3. QED  BY <3>1, <3>2 DEF Followed
    <2> HIDE DEF removed
    <2>4. \A f, n : Carries(n, f)' = Carries(n, f)
      BY <1>2 DEF Carries
    <2>5. QED  BY <1>1, <1>2, <2>1, <2>3, <2>4 DEF RemovalInv
  <1>6. QED  BY <1>4, <1>5 DEF Enforcement

(* A revision, by whoever asks for it, scheduled or not.                   *)
LEMMA ApplyClears ==
    ASSUME ClearInv, NEW c \in Caller, ApplyClusterPlan(c)
    PROVE  ClearInv'
  <1>1. /\ EditInv' /\ Plan' = request[c].plan /\ request[c].revision = Len(revisions) + 1
        /\ \A d \in Caller \ {c} : request'[d] = request[d]
    BY ApplyStep DEF ClearInv
  <1>2. /\ request[c] # NoRequest /\ ~InProgress /\ applied' = applied /\ planPaused' = FALSE
        /\ request' = [request EXCEPT ![c] = NoRequest]
        /\ revisions' = Append(revisions, request[c].plan)
    BY DEF ApplyClusterPlan
  <1>3. /\ request \in [Caller -> RequestRow \cup {NoRequest}] /\ Worker \in Caller
        /\ revisions \in Seq(PlanRow) /\ Len(revisions) \in Nat
    BY DEF ClearInv, EditInv, RequestsInv, PlansInv, Caller
  <1>4. request[c].plan \in PlanRow /\ request[c].plan.forwards \in PlanForwards
    BY <1>2, <1>3 DEF RequestRow, PlanRow
  <1>5. rollout.status = "none"
    BY <1>2 DEF InProgress
  <1>6. RemovalInv'
    <2>1. CASE c = Worker
      BY <1>2, <1>3, <2>1 DEF RemovalInv
    <2>2. CASE c # Worker
      <3>1. request'[Worker] = request[Worker] /\ Len(revisions') = Len(revisions) + 1
        BY <1>1, <1>2, <1>3, <1>4, <2>2
      <3>2. request[Worker] # NoRequest =>
               request[Worker].revision \in Nat /\ request[Worker].revision <= Len(revisions) + 1
        BY <1>3 DEF ClearInv, EditInv, RequestsInv, RequestRow
      <3>3. request'[Worker] # NoRequest => RevisionConflict(Worker)'
        BY <1>3, <3>1, <3>2 DEF RevisionConflict, Maximum
      <3>4. QED  BY <1>2, <3>3 DEF RemovalInv
    <2>3. QED  BY <2>1, <2>2
  <1>7. CASE schedulePlanTx(request[c].plan.forwards)
    <2>1. Plan'.forwards = request[c].plan.forwards
      BY <1>1
    <2>2. ShapeInv' /\ PlacedInv' /\ FollowInv'
      BY <1>2, <1>4, <1>5, <1>7, <2>1, ScheduleStep DEF ClearInv
    <2>3. QED  BY <1>1, <1>6, <2>2 DEF ClearInv
  <1>8. CASE ScheduleBlocked
    <2>1. unpublished' = TRUE /\ UNCHANGED <<placements, rollout, desired, applied>>
      BY <1>2, <1>8 DEF ScheduleBlocked, publications
    <2>2. ShapeInv'
      BY <2>1 DEF ClearInv, ShapeInv
    <2>3. PlacedInv'
      BY <1>5, <2>1 DEF ClearInv, PlacedInv
    <2>4. FollowInv'
      BY <2>1 DEF FollowInv
    <2>5. QED  BY <1>1, <1>6, <2>2, <2>3, <2>4 DEF ClearInv
  <1>9. QED  BY <1>7, <1>8 DEF ApplyClusterPlan

(* plan-rollback: with a finalizer's request under way it either starts a  *)
(* rollout, which that request cannot outlast, or finds that the forwards  *)
(* to remove are not in the plan it returns to.                            *)
LEMMA RollbackClears ==
    ASSUME ClearInv, EditInv', NEW revision \in 1 .. Len(revisions), RollbackClusterPlan(revision)
    PROVE  ClearInv'
  <1> DEFINE forwards == revisions[revision].forwards
  <1>1. /\ ~InProgress /\ active' = revision /\ planPaused' = FALSE /\ schedulePlanTx(forwards)
        /\ UNCHANGED <<revisions, applied, request>>
    BY DEF RollbackClusterPlan
  <1>2. rollout.status = "none" /\ Plan'.forwards = forwards
    BY <1>1 DEF InProgress, Plan
  <1>3. forwards \in PlanForwards
    <2>1. revisions[revision] \in PlanRow
      BY DEF ClearInv, EditInv, PlansInv
    <2>2. QED  BY <2>1 DEF PlanRow
  <1> HIDE DEF forwards
  <1>4. /\ ShapeInv' /\ PlacedInv' /\ FollowInv'
        /\ InProgress' \/ /\ UNCHANGED <<desired, rollout>>
                          /\ placements' = DOMAIN forwards
                          /\ \A f \in DOMAIN forwards : \A n \in Placed[f] : f \in DOMAIN desired[n]
    BY <1>1, <1>2, <1>3, ScheduleStep DEF ClearInv
  <1>5. RemovalInv'
    <2> SUFFICES ASSUME request[Worker] # NoRequest, request[Worker].kind = "finalize",
                        ~RevisionConflict(Worker), ~InProgress',
                        NEW f \in request[Worker].edits \cap placements', NEW n \in Placed[f]
                 PROVE  FALSE
      BY <1>1 DEF RemovalInv, RevisionConflict, Maximum
    <2>1. f \in DOMAIN desired[n] /\ f \in Forward
      BY <1>3, <1>4, ForwardsFacts
    <2>2. n \in Node
      BY <2>1, PlacementAssumption
    <2>3. f \in placements
      BY <1>2, <2>1, <2>2 DEF ClearInv, PlacedInv
    <2>4. f \notin DOMAIN desired[n]
      BY <1>1, <2>3 DEF ClearInv, RemovalInv
    <2>5. QED  BY <2>1, <2>4
  <1>6. QED  BY <1>4, <1>5 DEF ClearInv

LEMMA ReconcileClears ==
    ASSUME ClearInv, EditInv', ReconcileClusterPlans
    PROVE  ClearInv'
  <1>1. /\ request[Worker] = NoRequest /\ ~InProgress /\ schedulePlanTx(Plan.forwards)
        /\ UNCHANGED <<revisions, active, applied, request>>
    BY DEF ReconcileClusterPlans
  <1>2. rollout.status = "none" /\ Plan'.forwards = Plan.forwards
    BY <1>1 DEF InProgress, Plan
  <1>3. Plan.forwards \in PlanForwards
    BY ActivePlan DEF ClearInv, EditInv
  <1>4. ShapeInv' /\ PlacedInv' /\ FollowInv'
    BY <1>1, <1>2, <1>3, ScheduleStep DEF ClearInv
  <1>5. RemovalInv'
    BY <1>1 DEF RemovalInv
  <1>6. QED  BY <1>4, <1>5 DEF ClearInv

(* A publication to a node that gives it other lifecycles.                 *)
LEMMA PublishesToClears ==
    ASSUME ClearInv, EditInv', NEW changes, PublishesTo(changes),
           changes = [n \in Node |-> changes[n]],
           \A n \in Node : DOMAIN changes[n] = DOMAIN desired[n],
           UNCHANGED <<plans, placements, applied, request>>
    PROVE  ClearInv'
  <1>1. /\ desired' = changes
        /\ rollout' = [rollout EXCEPT !.superseded = rollout'.superseded]
        /\ UNCHANGED <<revisions, active, planPaused, unpublished, placements, applied, request>>
    <2> DEFINE touched == {n \in Node : changes[n] # desired[n]}
               value == rollout.superseded \/ touched \cap rollout.waiting # {}
    <2>1. desired' = changes /\ rollout' = [rollout EXCEPT !.superseded = value]
      BY DEF PublishesTo
    <2> HIDE DEF value
    <2>2. rollout'.superseded = value
      BY <2>1 DEF ClearInv, ShapeInv
    <2>3. QED  BY <2>1, <2>2 DEF plans
  <1>2. /\ rollout'.status = rollout.status /\ rollout'.stages = rollout.stages
        /\ rollout'.baselines = rollout.baselines /\ rollout'.published = rollout.published
        /\ rollout'.nodes = rollout.nodes /\ rollout'.waiting = rollout.waiting
        /\ rollout' = [status |-> rollout.status, stages |-> rollout.stages,
                       baselines |-> rollout.baselines, nodes |-> rollout.nodes,
                       published |-> rollout.published, waiting |-> rollout.waiting,
                       superseded |-> rollout'.superseded]
    BY <1>1 DEF ClearInv, ShapeInv
  <1>3. ShapeInv'
    BY <1>1, <1>2 DEF ClearInv, ShapeInv
  <1>4. Left' = Left /\ \A n \in Node : DOMAIN Given(n)' = DOMAIN Given(n)
    BY <1>1, <1>2 DEF Left, Given
  <1>5. PlacedInv'
    BY <1>1, <1>2, <1>4 DEF ClearInv, PlacedInv, Plan
  <1>6. FollowInv'
    <2> SUFFICES ASSUME ~unpublished, ~planPaused, NEW f \in DOMAIN Plan.forwards, NEW n \in Placed[f]
                 PROVE  IF n \in Left THEN f \in DOMAIN Given(n)' ELSE Followed(n, f)'
      BY <1>1, <1>4 DEF FollowInv, Plan
    <2>1. IF n \in Left THEN f \in DOMAIN Given(n) ELSE Followed(n, f)
      BY DEF ClearInv, FollowInv
    <2>2. n \in Node
      BY ActivePlan, ForwardsFacts, PlacementAssumption DEF ClearInv, EditInv
    <2>3. QED  BY <1>1, <1>4, <2>1, <2>2 DEF Followed, Carries
  <1>7. RemovalInv'
    BY <1>1, <1>2, RemovalKept DEF ClearInv
  <1>8. QED  BY <1>3, <1>5, <1>6, <1>7 DEF ClearInv

LEMMA NodeStepClears ==
    ASSUME ClearInv, EditInv',
           \/ \E n \in Node : \E f \in Forward : RecordUsageBatch(n, f)
           \/ EnforcePolicies
    PROVE  ClearInv'
  <1>1. desired = [n \in Node |-> desired[n]]
    BY DEF ClearInv, ShapeInv
  <1>2. ASSUME NEW n \in Node, NEW f \in Forward, RecordUsageBatch(n, f)
        PROVE  ClearInv'
    <2> DEFINE entry(g) == IF /\ g \in exhausted'
                              /\ Ingress[g] = n
                              /\ desired[n][g].life \notin {"paused", "force_deleting"}
                           THEN Pause(desired[n][g]) ELSE desired[n][g]
               new == [g \in DOMAIN desired[n] |-> entry(g)]
               changes == [desired EXCEPT ![n] = new]
    <2>1. PublishesTo(changes) /\ UNCHANGED <<plans, placements, applied, request>>
      BY <1>2 DEF RecordUsageBatch
    <2>2. DOMAIN new = DOMAIN desired[n]
      OBVIOUS
    <2> HIDE DEF new
    <2>3. /\ changes = [m \in Node |-> changes[m]]
          /\ \A m \in Node : DOMAIN changes[m] = DOMAIN desired[m]
      BY <1>1, <2>2
    <2> HIDE DEF changes
    <2>4. QED  BY <2>1, <2>3, PublishesToClears
  <1>3. CASE EnforcePolicies
    <2> DEFINE changes == [n \in Node |->
                    IF n \in rollout.nodes THEN desired[n]
                    ELSE [f \in DOMAIN desired[n] |-> TimePolicy(desired[n][f], f)]]
    <2>1. PublishesTo(changes) /\ UNCHANGED <<plans, placements, applied, request>>
      BY <1>3 DEF EnforcePolicies
    <2>2. /\ changes = [m \in Node |-> changes[m]]
          /\ \A m \in Node : DOMAIN changes[m] = DOMAIN desired[m]
      OBVIOUS
    <2> HIDE DEF changes
    <2>3. QED  BY <2>1, <2>2, PublishesToClears
  <1>4. QED  BY <1>2, <1>3

(* An Agent catches up, and what it has deleted leaves its desired state.  *)
LEMMA AgentClears ==
    ASSUME ClearInv, EditInv', NEW n \in Node, AgentApplies(n)
    PROVE  ClearInv'
  <1> DEFINE kept == Remaining(desired[n])
             state == [f \in kept |-> desired[n][f]]
  <1>1. /\ applied' = [applied EXCEPT ![n] = desired[n]]
        /\ desired' = [desired EXCEPT ![n] = state]
        /\ rollout' = [rollout EXCEPT !.waiting = rollout.waiting \ {n}]
        /\ UNCHANGED <<revisions, active, planPaused, unpublished, placements, request>>
    BY DEF AgentApplies, plans
  <1>2. /\ DOMAIN state \subseteq DOMAIN desired[n]
        /\ \A f \in DOMAIN desired[n] : f \notin DOMAIN state =>
              desired[n][f].life = "force_deleting"
    BY DEF Remaining
  <1> HIDE DEF state
  <1>3. /\ desired = [m \in Node |-> desired[m]] /\ applied = [m \in Node |-> applied[m]]
    BY DEF ClearInv, ShapeInv
  <1>4. /\ desired' = [m \in Node |-> desired'[m]] /\ applied' = [m \in Node |-> applied'[m]]
        /\ desired'[n] = state /\ applied'[n] = desired[n]
        /\ \A m \in Node \ {n} : desired'[m] = desired[m] /\ applied'[m] = applied[m]
    BY <1>1, <1>3
  <1>5. /\ rollout'.status = rollout.status /\ rollout'.stages = rollout.stages
        /\ rollout'.baselines = rollout.baselines /\ rollout'.published = rollout.published
        /\ rollout' = [status |-> rollout.status, stages |-> rollout.stages,
                       baselines |-> rollout.baselines, nodes |-> rollout.nodes,
                       published |-> rollout.published, waiting |-> rollout.waiting \ {n},
                       superseded |-> rollout.superseded]
    <2> DEFINE w == rollout.waiting \ {n}
    <2>1. rollout' = [rollout EXCEPT !.waiting = w]
      BY <1>1
    <2> HIDE DEF w
    <2>2. /\ rollout' = [status |-> rollout.status, stages |-> rollout.stages,
                       baselines |-> rollout.baselines, nodes |-> rollout.nodes,
                       published |-> rollout.published, waiting |-> w,
                       superseded |-> rollout.superseded]
      BY <2>1 DEF ClearInv, ShapeInv
    <2>3. QED  BY <2>2 DEF w
  <1>6. ShapeInv'
    <2>1. rollout' = [status |-> rollout'.status, stages |-> rollout'.stages,
                      baselines |-> rollout'.baselines, nodes |-> rollout'.nodes,
                      published |-> rollout'.published, waiting |-> rollout'.waiting,
                      superseded |-> rollout'.superseded]
      BY <1>5
    <2>2. QED  BY <1>1, <1>4, <1>5, <2>1 DEF ClearInv, ShapeInv
  <1>7. \A m \in Node : DOMAIN desired'[m] \subseteq DOMAIN desired[m]
    BY <1>2, <1>4
  <1>8. /\ Left' = Left
        /\ \A m \in Node : /\ DOMAIN Given(m)' \subseteq DOMAIN Given(m)
                           /\ m \in Left => Given(m)' = Given(m)
    BY <1>5, <1>7 DEF Left, Given
  <1>9. PlacedInv'
    BY <1>1, <1>5, <1>7, <1>8 DEF ClearInv, PlacedInv, Plan
  <1>10. FollowInv'
    <2> SUFFICES ASSUME ~unpublished, ~planPaused, NEW f \in DOMAIN Plan.forwards, NEW m \in Placed[f]
                 PROVE  IF m \in Left THEN f \in DOMAIN Given(m)' ELSE Followed(m, f)'
      BY <1>1, <1>8 DEF FollowInv, Plan
    <2>1. IF m \in Left THEN f \in DOMAIN Given(m) ELSE Followed(m, f)
      BY DEF ClearInv, FollowInv
    <2>2. m \in Node
      BY ActivePlan, ForwardsFacts, PlacementAssumption DEF ClearInv, EditInv
    <2>3. CASE m \in Left
      BY <1>8, <2>1, <2>2, <2>3
    <2>4. CASE m \notin Left /\ m # n
      BY <1>4, <2>1, <2>2, <2>4 DEF Followed, Carries
    <2>5. CASE m \notin Left /\ m = n
      BY <1>2, <1>4, <2>5 DEF Followed, Carries
    <2>6. QED  BY <2>3, <2>4, <2>5
  <1>11. \A m \in Node : applied'[m] = applied[m] \/ applied'[m] = desired[m]
    BY <1>4
  <1>12. RemovalInv'
    BY <1>1, <1>5, <1>7, <1>11, RemovalKept DEF ClearInv
  <1>13. QED  BY <1>6, <1>9, <1>10, <1>12 DEF ClearInv

(* The worker has no request under way while it advances a rollout.        *)
LEMMA AdvanceClears ==
    ASSUME ClearInv, EditInv', AdvanceClusterRollouts
    PROVE  ClearInv'
  <1>1. /\ request[Worker] = NoRequest
        /\ UNCHANGED <<revisions, active, unpublished, applied, request>>
    BY DEF AdvanceClusterRollouts, StageAcknowledged, StageFails, CompensationEnds, AdvanceFrame
  <1>2. RemovalInv'
    BY <1>1 DEF RemovalInv
  <1>3. /\ desired = [n \in Node |-> desired[n]] /\ Plan' = Plan
        /\ \A m, f : Carries(m, f)' = Carries(m, f)
    BY <1>1 DEF ClearInv, ShapeInv, Plan, Carries
  <1>4. \A f \in DOMAIN Plan.forwards : f \in Forward /\ Placed[f] \subseteq Node
    BY ActivePlan, ForwardsFacts, PlacementAssumption DEF ClearInv, EditInv
  <1>5. ASSUME StageAcknowledged, rollout.stages = <<>>
        PROVE  ShapeInv' /\ PlacedInv' /\ FollowInv'
    <2>1. /\ rollout' = NoRollout /\ placements' = DOMAIN Plan.forwards /\ desired' = desired
          /\ planPaused' = planPaused /\ rollout.status = "running"
      BY <1>5 DEF StageAcknowledged
    <2>2. Left = {} /\ Left' = {} /\ \A n \in Node : Given(n) = desired[n]
      BY <1>5, <2>1 DEF Left, Given, NoRollout
    <2>3. ShapeInv'
      <3>1. rollout'.status = "none" /\ rollout'.stages = <<>>
        BY <2>1 DEF NoRollout
      <3>2. rollout' = [status |-> rollout'.status, stages |-> rollout'.stages,
                      baselines |-> rollout'.baselines, nodes |-> rollout'.nodes,
                      published |-> rollout'.published, waiting |-> rollout'.waiting,
                      superseded |-> rollout'.superseded]
        BY <2>1 DEF NoRollout
      <3>3. QED  BY <1>1, <1>4, <2>1, <3>1, <3>2 DEF ClearInv, ShapeInv
    <2>4. PlacedInv'
      <3>1. rollout'.status = "none"
        BY <2>1 DEF NoRollout
      <3>2. QED  BY <2>1, <2>2, <3>1 DEF ClearInv, PlacedInv
    <2>5. FollowInv'
      BY <1>1, <1>3, <2>1, <2>2 DEF ClearInv, FollowInv, Followed
    <2>6. QED  BY <2>3, <2>4, <2>5
  <1>6. ASSUME StageAcknowledged, rollout.stages # <<>>
        PROVE  ShapeInv' /\ PlacedInv' /\ FollowInv'
    <2> DEFINE first == Head(rollout.stages)
    <2>1. /\ rollout.status = "running"
          /\ rollout' = [rollout EXCEPT !.stages = Tail(@), !.published = @ \cup DOMAIN first,
                                        !.waiting = DOMAIN first]
          /\ desired' = [n \in Node |-> IF n \in DOMAIN first THEN first[n] ELSE desired[n]]
          /\ UNCHANGED <<placements, planPaused>>
      BY <1>6 DEF StageAcknowledged, Publishes
    <2>2. Left = DOMAIN first /\ \A n \in Node : desired'[n] = Given(n)
      BY <1>6, <2>1 DEF Left, Given
    <2>3. rollout' = [status |-> "running", stages |-> <<>>,
                      baselines |-> rollout.baselines, nodes |-> rollout.nodes,
                      published |-> rollout.published \cup DOMAIN first,
                      waiting |-> DOMAIN first, superseded |-> rollout.superseded]
      BY <1>6, <2>1 DEF ClearInv, ShapeInv
    <2> HIDE DEF first
    <2>4. /\ rollout'.status = "running" /\ rollout'.stages = <<>>
          /\ rollout'.baselines = rollout.baselines
          /\ rollout'.published = rollout.published \cup DOMAIN first
          /\ Left' = {} /\ \A n \in Node : Given(n)' = desired'[n]
      BY <2>3 DEF Left, Given
    <2>5. ShapeInv'
      <3>1. rollout' = [status |-> rollout'.status, stages |-> rollout'.stages,
                      baselines |-> rollout'.baselines, nodes |-> rollout'.nodes,
                      published |-> rollout'.published, waiting |-> rollout'.waiting,
                      superseded |-> rollout'.superseded]
        BY <2>3
      <3>2. desired' = [n \in Node |-> desired'[n]]
        BY <2>1
      <3>3. QED  BY <1>1, <2>1, <2>4, <3>1, <3>2 DEF ClearInv, ShapeInv
    <2>6. \A n \in Node : n \notin DOMAIN first => desired'[n] = desired[n]
      BY <2>1
    <2>7. PlacedInv'
      BY <1>3, <2>1, <2>2, <2>4, <2>6 DEF ClearInv, PlacedInv
    <2>8. FollowInv'
      <3> SUFFICES ASSUME ~unpublished, ~planPaused, NEW f \in DOMAIN Plan.forwards,
                          NEW n \in Placed[f]
                   PROVE  Followed(n, f)'
        BY <1>1, <1>3, <2>1, <2>4 DEF FollowInv
      <3>1. IF n \in Left THEN f \in DOMAIN Given(n) ELSE Followed(n, f)
        BY DEF ClearInv, FollowInv
      <3>2. n \in Node
        BY <1>4
      <3>3. QED  BY <1>3, <2>2, <2>6, <3>1, <3>2 DEF Followed
    <2>9. QED  BY <2>5, <2>7, <2>8
  <1>7. CASE StageFails
    <2>1. /\ rollout.status = "running" /\ planPaused' = TRUE
          /\ rollout' = [rollout EXCEPT !.status = "reverting", !.stages = <<>>, !.waiting = {}]
          /\ desired' = [n \in Node |-> IF n \in rollout.published THEN rollout.baselines[n]
                                        ELSE desired[n]]
          /\ UNCHANGED placements
      BY <1>7 DEF StageFails, Publishes
    <2>2. /\ rollout' = [status |-> "reverting", stages |-> <<>>,
                         baselines |-> rollout.baselines, nodes |-> rollout.nodes,
                         published |-> rollout.published, waiting |-> {},
                         superseded |-> rollout.superseded]
      BY <2>1 DEF ClearInv, ShapeInv
    <2>3. ShapeInv'
      <3>1. rollout' = [status |-> rollout'.status, stages |-> rollout'.stages,
                      baselines |-> rollout'.baselines, nodes |-> rollout'.nodes,
                      published |-> rollout'.published, waiting |-> rollout'.waiting,
                      superseded |-> rollout'.superseded]
        BY <2>2
      <3>2. rollout'.status = "reverting" /\ rollout'.stages = <<>>
        BY <2>2
      <3>3. QED  BY <1>1, <2>1, <3>1, <3>2 DEF ClearInv, ShapeInv
    <2>4. PlacedInv'
      <3>1. rollout'.status = "reverting"
        BY <2>2
      <3>2. QED  BY <2>1, <3>1 DEF ClearInv, PlacedInv
    <2>5. FollowInv'
      BY <2>1 DEF FollowInv
    <2>6. QED  BY <1>2, <2>3, <2>4, <2>5 DEF ClearInv
  <1>8. CASE CompensationEnds
    <2>1. /\ rollout.status = "reverting" /\ rollout' = NoRollout
          /\ UNCHANGED <<planPaused, placements, desired>>
      BY <1>8 DEF CompensationEnds
    <2>2. /\ rollout'.status = "none" /\ rollout'.stages = <<>> /\ Left = {} /\ Left' = {}
          /\ rollout' = [status |-> rollout'.status, stages |-> rollout'.stages,
                      baselines |-> rollout'.baselines, nodes |-> rollout'.nodes,
                      published |-> rollout'.published, waiting |-> rollout'.waiting,
                      superseded |-> rollout'.superseded]
      BY <2>1 DEF NoRollout, Left
    <2>3. ShapeInv'
      BY <1>1, <2>1, <2>2 DEF ClearInv, ShapeInv
    <2>4. PlacedInv'
      BY <2>1, <2>2 DEF ClearInv, PlacedInv
    <2>5. FollowInv'
      BY <1>1, <1>3, <2>1, <2>2 DEF ClearInv, FollowInv, Followed
    <2>6. QED  BY <1>2, <2>3, <2>4, <2>5 DEF ClearInv
  <1>9. QED
    BY <1>2, <1>5, <1>6, <1>7, <1>8 DEF AdvanceClusterRollouts, ClearInv

LEMMA ClearStep ==
    ASSUME ClearInv, [Next]_vars
    PROVE  ClearInv'
  <1>1. EditInv'
    BY ApplyStep, EditStep DEF ClearInv
  <1>2. ASSUME UNCHANGED <<plans, publications, applied>>, request'[Worker] = request[Worker]
        PROVE  ClearInv'
    <2>1. UNCHANGED <<planPaused, unpublished, placements, revisions, rollout, desired>>
      BY <1>2 DEF plans, publications
    <2>2. RemovalInv'
      BY <1>2, <2>1, RemovalKept DEF ClearInv
    <2>3. QED  BY <1>1, <1>2, <2>2, QuietStep DEF ClearInv
  <1>3. Worker \in Caller /\ request \in [Caller -> RequestRow \cup {NoRequest}]
    BY DEF Caller, ClearInv, EditInv, RequestsInv
  <1>4. ASSUME NEW c \in User, NEW f \in Forward,
               \/ \E enabled \in BOOLEAN : handleCreateForward(c, f, enabled)
               \/ \E enabled \in (SUBSET BOOLEAN) \ {BOOLEAN} : handleUpdateForward(c, f, enabled)
               \/ \E mode \in {"drain", "force"} : handleDeleteForward(c, f, mode)
        PROVE  ClearInv'
    <2>1. \E row : request' = [request EXCEPT ![c] = row]
      BY <1>4 DEF handleCreateForward, handleUpdateForward, handleDeleteForward, Requests, Starts
    <2>2. UNCHANGED <<plans, publications, applied>>
      BY <1>4 DEF handleCreateForward, handleUpdateForward, handleDeleteForward, Requests, Starts
    <2>3. request'[Worker] = request[Worker]
      BY <1>3, <2>1, ScenarioAssumption
    <2>4. QED  BY <1>2, <2>2, <2>3
  <1>5. ASSUME NEW c \in Caller, ApplyRefused(c)
        PROVE  ClearInv'
    <2>1. /\ request' = [request EXCEPT ![c] = NoRequest]
          /\ UNCHANGED <<plans, publications, applied>>
      BY <1>5 DEF ApplyRefused
    <2>2. CASE c = Worker
      <3>1. RemovalInv'
        BY <1>3, <2>1, <2>2 DEF RemovalInv
      <3>2. QED  BY <1>1, <2>1, <3>1, QuietStep DEF ClearInv
    <2>3. CASE c # Worker
      <3>1. request'[Worker] = request[Worker]
        BY <1>3, <2>1, <2>3
      <3>2. QED  BY <1>2, <2>1, <3>1
    <2>4. QED  BY <2>2, <2>3
  <1>6. CASE Enforcement
    <2>1. UNCHANGED <<plans, publications, applied>>
      BY <1>6 DEF Enforcement, EnforceTenantForwardPolicies, EnforceTrafficQuotas,
                  FinalizeClusterDeletes, Enforces, Starts
    <2>2. QED  BY <1>1, <1>6, <2>1, QuietStep, WorkerAsks DEF ClearInv
  <1>7. CASE \/ \E allowance \in Allowances : SetTenantPolicy(allowance)
             \/ DisableTenant
             \/ Tick
             \/ UNCHANGED vars
    <2>1. UNCHANGED <<plans, publications, applied, request>>
      BY <1>7 DEF SetTenantPolicy, DisableTenant, Tick, vars, plans, publications
    <2>2. QED  BY <1>2, <2>1
  <1>8. ASSUME NEW c \in Caller, ApplyClusterPlan(c)
        PROVE  ClearInv'
    BY <1>8, ApplyClears
  <1>9. ASSUME NEW revision \in 1 .. Len(revisions), RollbackClusterPlan(revision)
        PROVE  ClearInv'
    BY <1>1, <1>9, RollbackClears
  <1>10. ASSUME NEW n \in Node, AgentApplies(n)
         PROVE  ClearInv'
    BY <1>1, <1>10, AgentClears
  <1>11. CASE ReconcileClusterPlans \/ AdvanceClusterRollouts
    BY <1>1, <1>11, ReconcileClears, AdvanceClears
  <1>12. CASE \/ \E n \in Node : \E f \in Forward : RecordUsageBatch(n, f)
              \/ EnforcePolicies
    BY <1>1, <1>12, NodeStepClears
  <1>13. QED
    BY <1>4, <1>5, <1>6, <1>7, <1>8, <1>9, <1>10, <1>11, <1>12 DEF Next, WorkerStep

LEMMA ClearInit ==
    ASSUME Init
    PROVE  ClearInv
  <1>1. PICK s \in Scenarios :
            /\ revisions = <<[forwards |-> [f \in s.existing |-> NewForward("active")],
                              policy |-> 1]>>
            /\ placements = s.existing /\ desired = Compile(revisions[1].forwards)
    BY DEF Init
  <1>2. /\ active = 1 /\ rollout = NoRollout /\ applied = desired
        /\ request = [c \in Caller |-> NoRequest]
    BY DEF Init
  <1>3. /\ DOMAIN Plan.forwards = s.existing /\ Plan = revisions[1]
        /\ s.existing \subseteq Forward
    BY <1>1, <1>2, ScenarioAssumption DEF Plan
  <1>4. /\ desired = [n \in Node |-> desired[n]]
        /\ \A n \in Node : DOMAIN desired[n] = {g \in s.existing : n \in Placed[g]}
    BY <1>1, <1>3 DEF Compile
  <1>5. rollout.status = "none" /\ rollout.stages = <<>> /\ Left = {}
    BY <1>2 DEF NoRollout, Left
  <1>6. ShapeInv
    <2>1. rollout = [status |-> rollout.status, stages |-> rollout.stages,
                      baselines |-> rollout.baselines, nodes |-> rollout.nodes,
                      published |-> rollout.published, waiting |-> rollout.waiting,
                      superseded |-> rollout.superseded]
      BY <1>2 DEF NoRollout
    <2>2. QED  BY <1>1, <1>2, <1>3, <1>4, <1>5, <2>1 DEF ShapeInv
  <1>7. PlacedInv
    BY <1>1, <1>4, <1>5 DEF PlacedInv
  <1>8. FollowInv
    BY <1>3, <1>4, <1>5, PlacementAssumption DEF FollowInv, Followed
  <1>9. RemovalInv
    BY <1>2 DEF RemovalInv, Caller
  <1>10. QED  BY <1>6, <1>7, <1>8, <1>9, EditInit DEF ClearInv

(* The property of one step: the finalizer's revision is written when no   *)
(* node of the forward's placement carries it.                             *)
ClearedBefore ==
    request[Worker] # NoRequest /\ Len(revisions') > Len(revisions)
          /\ request'[Worker] = NoRequest /\ request[Worker].kind = "finalize"
          /\ ~unpublished
       => \A f \in request[Worker].edits \cap placements : \A n \in Placed[f] : ~Carries(n, f)

(* Nobody's traffic outlives its forward: whatever users, policies,        *)
(* quotas, deadlines and failing rollouts do, a forward leaves a plan that *)
(* is in force only after every node of its placement has dropped its      *)
(* flows (FinalizeClusterDeletes and the clean-up of RecordApplyResult).   *)
THEOREM FlowsAlwaysCleared == Spec => FlowsCleared
  <1>1. ASSUME ClearInv, [Next]_vars
        PROVE  ClearedBefore
    <2> SUFFICES ASSUME request[Worker] # NoRequest, Len(revisions') > Len(revisions),
                        request'[Worker] = NoRequest, request[Worker].kind = "finalize",
                        ~unpublished
                 PROVE  \A f \in request[Worker].edits \cap placements :
                            \A n \in Placed[f] : ~Carries(n, f)
      BY DEF ClearedBefore
    <2>1. Len(revisions) \in Nat /\ ~ (Len(revisions) > Len(revisions))
      BY <1>1 DEF ClearInv, EditInv, PlansInv
    <2>2. PICK c \in Caller : ApplyClusterPlan(c)
      BY <1>1, <2>1, EditStep DEF ClearInv
    <2>3. \A d \in Caller \ {c} : request'[d] = request[d]
      BY <1>1, <2>2, ApplyStep DEF ClearInv
    <2>4. c = Worker
      BY <2>3 DEF Caller
    <2>5. ~InProgress /\ ~RevisionConflict(Worker)
      BY <2>2, <2>4 DEF ApplyClusterPlan
    <2>6. QED  BY <1>1, <2>5 DEF ClearInv, RemovalInv
  <1>2. Init => ClearInv
    BY ClearInit
  <1>3. ClearInv /\ [Next]_vars => ClearInv' /\ [ClearedBefore]_vars
    BY <1>1, ClearStep
  <1>4. QED  BY <1>2, <1>3, PTL DEF Spec, FlowsCleared, ClearedBefore

=============================================================================
