--------------------------- MODULE RolloutProofs ---------------------------
(***************************************************************************)
(* What TLAPS proves about Rollout, for every set of nodes, forwards,      *)
(* layouts and plans, and any number of rollouts, errors and pauses.       *)
(***************************************************************************)
EXTENDS Rollout, FiniteSetTheorems, SequenceTheorems, TLAPS

-----------------------------------------------------------------------------
(* The values of the state, as sets.                                       *)

Layout == UNION {[D -> Entry] : D \in SUBSET Forward}
NodeState == [forwards : Layout, links : SUBSET Node]
NodeStates == [Node -> NodeState]
SomeStates == UNION {[D -> NodeState] : D \in SUBSET Node}
Phase == {"prepare", "promote", "cleanup", "bake", "compensate"}
Row == [gen : Nat, status : {"queued", "pending", "applied", "permanent_error"},
        desired : NodeState]
Rows == UNION {[D -> Row] : D \in SUBSET Node}
Stage == [phase : Phase, status : {"pending", "awaiting_ack", "baking", "completed", "failed"},
          rows : Rows]
Spot == [ingress : Node, exit : Node \cup {NoNode}, port : Port]
Placement == UNION {[D -> Spot] : D \in SUBSET Forward}
RolloutRow == [id : Nat, status : ActiveStatus \cup FinalStatus \cup {"none"}, stage : Nat,
               stages : Seq(Stage), baselines : NodeStates, placements : Placement,
               quiet : BOOLEAN]
Generations == [Node -> Seq(NodeState)]

LEMMA LayoutFacts ==
    /\ \A s : s \in Layout <=> IsLayout(s)
    /\ \A s \in Layout : \A f \in DOMAIN s : f \in Forward /\ s[f] \in Entry
    /\ <<>> \in Layout
  <1>1. \A s : s \in Layout <=> IsLayout(s)
    BY DEF Layout, IsLayout
  <1>2. \A s \in Layout : \A f \in DOMAIN s : f \in Forward /\ s[f] \in Entry
    BY DEF Layout
  <1>3. <<>> \in [{} -> Entry]
    OBVIOUS
  <1>4. QED  BY <1>1, <1>2, <1>3 DEF Layout

LEMMA NodeStateFacts ==
    /\ \A s \in NodeState : IsNodeState(s)
    /\ \A s : IsNodeState(s) => s.forwards \in Layout /\ s.links \in SUBSET Node
    /\ emptyStageState \in NodeState
  BY LayoutFacts DEF NodeState, IsNodeState, emptyStageState

-----------------------------------------------------------------------------
(* A set of subsets of a finite set has a smallest one.                    *)
LEMMA SmallestSubset ==
    ASSUME NEW S, IsFiniteSet(S), NEW T, T \subseteq SUBSET S, T # {}
    PROVE  \E x \in T : \A y \in T : y \subseteq x => y = x
  <1>1. FiniteSubsetsOf(S) = SUBSET S
    BY FS_FiniteSubsetsOfFinite
  <1>2. IsWellFoundedOn(StrictSubsetOrdering(S), SUBSET S)
    BY <1>1, FS_StrictSubsetOrderingWellFounded
  <1>3. PICK x \in T : \A y \in T : <<y, x>> \notin StrictSubsetOrdering(S)
    BY <1>2, WFMin
  <1>4. \A y \in T : y \subseteq x => y = x
    BY <1>3 DEF StrictSubsetOrdering
  <1>5. QED  BY <1>4

(* Among the entries of a forward one is the latest: there are finitely    *)
(* many nodes.                                                             *)
LEMMA LatestExists ==
    ASSUME NEW current \in NodeStates, NEW f \in Forward, NEW m \in Node, Has(current[m], f)
    PROVE  \E n \in Node : Has(current[n], f) /\ current[n].forwards[f] \in LatestRuntime(current, f)
  <1> DEFINE Located == Locations(current, f)
             entry(n) == current[n].forwards[f]
             Beats(a, b) == \/ b.version < a.version
                            \/ b.version = a.version /\ (b.paused => a.paused)
             Upper(n) == {x \in Located : Beats(entry(x), entry(n))}
             T == {Upper(n) : n \in Located}
  <1>1. \A n \in Located : n \in Node /\ entry(n).version \in Nat /\ entry(n).paused \in BOOLEAN
    BY LayoutFacts DEF Locations, Has, NodeStates, NodeState, Entry
  <1>2. T # {}
    <2>1. m \in Located
      BY DEF Locations
    <2>2. Upper(m) \in T
      BY <2>1
    <2>3. QED  BY <2>2
  <1>3. T \subseteq SUBSET Node
    BY DEF Locations
  <1>4. PICK t \in T : \A u \in T : u \subseteq t => u = t
    <2> HIDE DEF T
    <2>1. QED  BY <1>2, <1>3, SmallestSubset, StagesAssumption
  <1>5. PICK n \in Located : t = Upper(n)
    OBVIOUS
  <1>6. ASSUME NEW d \in Located
        PROVE  Beats(entry(n), entry(d))
    <2> SUFFICES ASSUME ~Beats(entry(n), entry(d)) PROVE FALSE
      OBVIOUS
    <2>1. \A x \in Located : Beats(entry(x), entry(d)) => Beats(entry(x), entry(n))
      BY <1>1, <1>5, <1>6
    <2>2. Upper(d) \subseteq Upper(n)
      BY <2>1
    <2>3. n \in Upper(n)
      BY <1>1, <1>5
    <2>4. n \notin Upper(d)
      OBVIOUS
    <2>5. Upper(d) \in T
      OBVIOUS
    <2>6. Upper(d) = Upper(n)
      BY <1>4, <1>5, <2>2, <2>5, Zenon
    <2>7. QED  BY <2>3, <2>4, <2>6
  <1>7. current[n].forwards[f] \in LatestRuntime(current, f)
    BY <1>5, <1>6 DEF LatestRuntime
  <1>8. QED  BY <1>5, <1>7 DEF Locations

(* What preserveRuntimeLifecycles makes of an entry.                       *)
Preserved(current, f, entry) ==
    IF \E e \in LatestRuntime(current, f) : e.version > entry.version
    THEN LET e == CHOOSE e \in LatestRuntime(current, f) : TRUE
         IN  [entry EXCEPT !.paused = e.paused, !.version = e.version]
    ELSE entry

(* An entry does not resume a forward that a node in current has paused at *)
(* a later version.                                                        *)
KeepsPause(current, f, entry) ==
    \A m \in Node : Has(current[m], f) =>
        LET before == current[m].forwards[f]
        IN  before.paused /\ ~entry.paused => entry.version >= before.version

LEMMA PreservedKeeps ==
    ASSUME NEW current \in NodeStates, NEW f \in Forward, NEW entry \in Entry
    PROVE  /\ Preserved(current, f, entry) \in Entry
           /\ KeepsPause(current, f, Preserved(current, f, entry))
  <1>1. \A m \in Node : Has(current[m], f) =>
            /\ current[m].forwards[f] \in Entry
            /\ current[m].forwards[f].version \in Nat
            /\ current[m].forwards[f].paused \in BOOLEAN
    BY LayoutFacts DEF Has, NodeStates, NodeState, Entry
  <1>2. \A e \in LatestRuntime(current, f) :
            /\ e \in Entry /\ e.version \in Nat /\ e.paused \in BOOLEAN
            /\ \A m \in Node : Has(current[m], f) => current[m].forwards[f].version <= e.version
    BY <1>1 DEF LatestRuntime, Locations
  <1>3. entry.version \in Nat /\ entry.paused \in BOOLEAN
    BY DEF Entry
  <1>4. CASE \E e \in LatestRuntime(current, f) : e.version > entry.version
    <2> DEFINE e == CHOOSE e \in LatestRuntime(current, f) : TRUE
               p == [entry EXCEPT !.paused = e.paused, !.version = e.version]
    <2>1. e \in LatestRuntime(current, f)
      BY <1>4
    <2>2. Preserved(current, f, entry) = p
      BY <1>4 DEF Preserved
    <2> HIDE DEF e
    <2>3. e.version \in Nat /\ e.paused \in BOOLEAN
      BY <1>2, <2>1
    <2>4. p \in Entry /\ p.version = e.version
      BY <2>3 DEF Entry
    <2>5. \A m \in Node : Has(current[m], f) => current[m].forwards[f].version <= p.version
      BY <1>2, <2>1, <2>4
    <2>6. KeepsPause(current, f, p)
      BY <2>5 DEF KeepsPause
    <2>7. QED  BY <2>2, <2>4, <2>6
  <1>5. CASE ~ \E e \in LatestRuntime(current, f) : e.version > entry.version
    <2>1. Preserved(current, f, entry) = entry
      BY <1>5 DEF Preserved
    <2>2. ASSUME NEW m \in Node, Has(current[m], f)
          PROVE  entry.version >= current[m].forwards[f].version
      <3>1. PICK n \in Node : /\ Has(current[n], f)
                              /\ current[n].forwards[f] \in LatestRuntime(current, f)
        BY <2>2, LatestExists
      <3>2. /\ current[n].forwards[f].version <= entry.version
            /\ current[m].forwards[f].version <= current[n].forwards[f].version
        BY <1>1, <1>2, <1>3, <1>5, <2>2, <3>1
      <3>3. QED  BY <1>1, <1>3, <2>2, <3>1, <3>2
    <2>3. KeepsPause(current, f, entry)
      BY <2>2 DEF KeepsPause
    <2>4. QED  BY <2>1, <2>3
  <1>6. QED  BY <1>4, <1>5

-----------------------------------------------------------------------------
(* What the scheduler wants of the nodes.                                  *)

LEMMA CompileType ==
    ASSUME NEW layout \in Layout
    PROVE  Compile(layout) \in NodeStates
  <1> SUFFICES ASSUME NEW n \in Node PROVE Compile(layout)[n] \in NodeState
    BY DEF Compile, NodeStates
  <1> DEFINE mine == {f \in DOMAIN layout : n \in {layout[f].ingress, layout[f].exit}}
  <1>1. \A f \in DOMAIN layout : f \in Forward /\ layout[f] \in Entry
    BY LayoutFacts
  <1>2. [f \in mine |-> layout[f]] \in [mine -> Entry] /\ mine \in SUBSET Forward
    BY <1>1
  <1>3. [f \in mine |-> layout[f]] \in Layout
    BY <1>2 DEF Layout
  <1>4. \A f \in mine : PeersOf(n, layout[f]) \subseteq Node
    BY <1>1 DEF PeersOf, Entry
  <1>5. UNION {PeersOf(n, layout[f]) : f \in mine} \in SUBSET Node
    BY <1>4
  <1>6. Compile(layout)[n] = [forwards |-> [f \in mine |-> layout[f]],
                              links |-> UNION {PeersOf(n, layout[f]) : f \in mine}]
    BY DEF Compile
  <1> HIDE DEF mine
  <1>7. QED  BY <1>3, <1>5, <1>6 DEF NodeState

LEMMA TargetKeeps ==
    ASSUME NEW current \in NodeStates, NEW wanted \in NodeStates
    PROVE  LET target == preserveRuntimeLifecycles(current, wanted)
           IN  /\ target \in NodeStates
               /\ \A n \in Node : \A f \in DOMAIN target[n].forwards :
                     KeepsPause(current, f, target[n].forwards[f])
  <1> DEFINE target == preserveRuntimeLifecycles(current, wanted)
             forwards(n) == [f \in DOMAIN wanted[n].forwards |->
                                Preserved(current, f, wanted[n].forwards[f])]
  <1>1. target = [n \in Node |-> [wanted[n] EXCEPT !.forwards = forwards(n)]]
    BY DEF preserveRuntimeLifecycles, Preserved
  <1> SUFFICES ASSUME NEW n \in Node
               PROVE  /\ target[n] \in NodeState
                      /\ \A f \in DOMAIN target[n].forwards :
                            KeepsPause(current, f, target[n].forwards[f])
    BY <1>1 DEF NodeStates
  <1>2. wanted[n] \in NodeState /\ wanted[n].forwards \in Layout
    BY DEF NodeStates, NodeState
  <1>3. \A f \in DOMAIN wanted[n].forwards : f \in Forward /\ wanted[n].forwards[f] \in Entry
    BY <1>2, LayoutFacts
  <1>4. \A f \in DOMAIN wanted[n].forwards :
            /\ Preserved(current, f, wanted[n].forwards[f]) \in Entry
            /\ KeepsPause(current, f, Preserved(current, f, wanted[n].forwards[f]))
    BY <1>3, PreservedKeeps
  <1>5. forwards(n) \in [DOMAIN wanted[n].forwards -> Entry]
    BY <1>4
  <1>6. forwards(n) \in Layout
    BY <1>3, <1>5 DEF Layout
  <1>7. target[n] = [wanted[n] EXCEPT !.forwards = forwards(n)]
    BY <1>1
  <1>8. \A f \in DOMAIN forwards(n) : KeepsPause(current, f, forwards(n)[f])
    BY <1>4
  <1> HIDE DEF forwards, target
  <1>9. target[n] \in NodeState /\ target[n].forwards = forwards(n)
    BY <1>2, <1>6, <1>7 DEF NodeState
  <1>10. QED  BY <1>8, <1>9

-----------------------------------------------------------------------------
(* The stages.  Whatever is selected, each entry a stage gives a node is   *)
(* one it had at the start or one it has in the end.                       *)

Mixes(state, base, final) ==
    \A f \in DOMAIN state.forwards :
        \/ Has(base, f) /\ state.forwards[f] = base.forwards[f]
        \/ Has(final, f) /\ state.forwards[f] = final.forwards[f]

Between(states, current, target) ==
    states \in NodeStates /\ \A n \in Node : Mixes(states[n], current[n], target[n])

StagePlans(current, target) ==
    {stage \in [phase : Phase, desired : SomeStates] :
        \A n \in DOMAIN stage.desired : Mixes(stage.desired[n], current[n], target[n])}

LEMMA PatchMixes ==
    ASSUME NEW state \in NodeState, NEW base \in NodeState, NEW final \in NodeState,
           NEW drop, NEW put \in SUBSET DOMAIN final.forwards, Mixes(state, base, final)
    PROVE  /\ Patch(state, final, drop, put) \in NodeState
           /\ Mixes(Patch(state, final, drop, put), base, final)
  <1>1. CASE drop \cup put = {}
    BY <1>1 DEF Patch
  <1>2. CASE drop \cup put # {}
    <2> DEFINE D == (DOMAIN state.forwards \ drop) \cup put
               forwards == [f \in D |-> IF f \in put THEN final.forwards[f] ELSE state.forwards[f]]
    <2>1. /\ \A f \in DOMAIN state.forwards : f \in Forward /\ state.forwards[f] \in Entry
          /\ \A f \in DOMAIN final.forwards : f \in Forward /\ final.forwards[f] \in Entry
      BY LayoutFacts DEF NodeState
    <2>2. forwards \in [D -> Entry] /\ D \in SUBSET Forward
      BY <2>1
    <2>3. forwards \in Layout
      BY <2>2 DEF Layout
    <2>4. state.links \cup final.links \in SUBSET Node
      BY DEF NodeState
    <2>5. Patch(state, final, drop, put)
            = [forwards |-> forwards, links |-> state.links \cup final.links]
      BY <1>2 DEF Patch, withConservativeResources
    <2>6. \A f \in DOMAIN forwards :
              \/ Has(base, f) /\ forwards[f] = base.forwards[f]
              \/ Has(final, f) /\ forwards[f] = final.forwards[f]
      BY DEF Mixes, Has
    <2> HIDE DEF forwards
    <2>7. QED  BY <2>3, <2>4, <2>5, <2>6 DEF NodeState, Mixes
  <1>3. QED  BY <1>1, <1>2

LEMMA WaveMixes ==
    ASSUME NEW current \in NodeStates, NEW target \in NodeStates, NEW start, NEW working,
           Between(start, current, target), Between(working, current, target),
           NEW selected, NEW exactFinal \in BOOLEAN
    PROVE  /\ Between(Prepare(working, target, selected), current, target)
           /\ Between(Promote(start, working, target, selected), current, target)
           /\ Between(Cleanup(start, working, target, selected, exactFinal), current, target)
  <1>0. \A n \in Node : /\ working[n] \in NodeState /\ current[n] \in NodeState
                        /\ target[n] \in NodeState
                        /\ Mixes(working[n], current[n], target[n])
    BY DEF Between, NodeStates
  <1>1. \A n \in Node : \A drop : \A put \in SUBSET DOMAIN target[n].forwards :
            /\ Patch(working[n], target[n], drop, put) \in NodeState
            /\ Mixes(Patch(working[n], target[n], drop, put), current[n], target[n])
    BY <1>0, PatchMixes
  <1>2. \A n \in Node : /\ ExitAt(target[n], n) \cap selected \in SUBSET DOMAIN target[n].forwards
                        /\ IngressAt(target[n], n) \cap selected \in SUBSET DOMAIN target[n].forwards
    BY DEF ExitAt, IngressAt
  <1>3. \A n \in Node : Mixes(target[n], current[n], target[n])
    BY DEF Mixes, Has
  <1>4. Between(Prepare(working, target, selected), current, target)
    BY <1>1, <1>2 DEF Between, Prepare, NodeStates
  <1>5. Between(Promote(start, working, target, selected), current, target)
    BY <1>1, <1>2 DEF Between, Promote, NodeStates
  <1>6. Between(Cleanup(start, working, target, selected, exactFinal), current, target)
    BY <1>0, <1>1, <1>2, <1>3 DEF Between, Cleanup, NodeStates
  <1>7. QED  BY <1>4, <1>5, <1>6

LEMMA StageOfMixes ==
    ASSUME NEW current \in NodeStates, NEW target \in NodeStates, NEW phase \in Phase,
           NEW before, NEW next, Between(next, current, target)
    PROVE  StageOf(phase, before, next) \in Seq(StagePlans(current, target))
  <1> DEFINE D == changedStates(before, next)
             desired == [n \in D |-> next[n]]
             stage == [phase |-> phase, desired |-> desired]
  <1>1. D \in SUBSET Node
    BY DEF changedStates
  <1>2. desired \in [D -> NodeState]
    BY <1>1 DEF Between, NodeStates
  <1>3. desired \in SomeStates
    BY <1>1, <1>2 DEF SomeStates
  <1>4. \A n \in DOMAIN desired : Mixes(desired[n], current[n], target[n])
    BY <1>1 DEF Between
  <1>5. StageOf(phase, before, next) \in {<<>>, <<stage>>}
    BY DEF StageOf
  <1> HIDE DEF desired
  <1>6. stage \in StagePlans(current, target)
    BY <1>3, <1>4 DEF StagePlans
  <1> HIDE DEF stage
  <1>7. \A P : stage \in P => <<>> \in Seq(P) /\ <<stage>> \in Seq(P)
    OBVIOUS
  <1>8. QED  BY <1>5, <1>6, <1>7

LEMMA WaveStages ==
    ASSUME NEW current \in NodeStates, NEW target \in NodeStates, NEW start,
           Between(start, current, target), NEW selected, NEW exactFinal \in BOOLEAN
    PROVE  LET wave == appendWaveStages(start, target, selected, exactFinal)
           IN  /\ Between(wave.end, current, target)
               /\ wave.stages \in Seq(StagePlans(current, target))
  <1> DEFINE prepared == Prepare(start, target, selected)
             promoted == Promote(start, prepared, target, selected)
             cleaned  == Cleanup(start, promoted, target, selected, exactFinal)
             P == StagePlans(current, target)
             s1 == StageOf("prepare", start, prepared)
             s2 == StageOf("promote", prepared, promoted)
             s3 == StageOf("cleanup", promoted, cleaned)
             wave == appendWaveStages(start, target, selected, exactFinal)
  <1>1. wave = [end |-> cleaned, stages |-> s1 \o s2 \o s3]
    BY DEF appendWaveStages
  <1>2. Between(prepared, current, target)
    BY WaveMixes
  <1> HIDE DEF prepared
  <1>3. Between(promoted, current, target)
    BY <1>2, WaveMixes
  <1> HIDE DEF promoted
  <1>4. Between(cleaned, current, target)
    BY <1>3, WaveMixes
  <1> HIDE DEF cleaned
  <1>5. "prepare" \in Phase /\ "promote" \in Phase /\ "cleanup" \in Phase
    BY DEF Phase
  <1>6. s1 \in Seq(P) /\ s2 \in Seq(P) /\ s3 \in Seq(P)
    BY <1>2, <1>3, <1>4, <1>5, StageOfMixes
  <1> HIDE DEF s1, s2, s3, P
  <1>7. s1 \o s2 \o s3 \in Seq(P)
    BY <1>6
  <1>8. QED  BY <1>1, <1>4, <1>7 DEF P

LEMMA StagesMix ==
    ASSUME NEW current \in NodeStates, NEW target \in NodeStates, NEW canary
    PROVE  BuildRolloutStages(current, target, canary) \in Seq(StagePlans(current, target))
  <1> DEFINE changed == changedForwardIDs(current, target)
             P == StagePlans(current, target)
  <1>1. Between(current, current, target) /\ Between(target, current, target)
    BY DEF Between, Mixes, Has, NodeStates
  <1>2. CASE changed = {}
    <2>1. "promote" \in Phase
      BY DEF Phase
    <2>2. StageOf("promote", current, target) \in Seq(P)
      BY <1>1, <2>1, StageOfMixes
    <2>3. QED  BY <1>2, <2>2 DEF BuildRolloutStages
  <1>3. CASE changed # {} /\ canary = {}
    <2>1. appendWaveStages(current, target, changed, TRUE).stages \in Seq(P)
      BY <1>1, WaveStages
    <2>2. QED  BY <1>3, <2>1 DEF BuildRolloutStages
  <1>4. CASE changed # {} /\ canary # {}
    <2> DEFINE first == appendWaveStages(current, target, canary, FALSE)
               second == appendWaveStages(first.end, target, changed \ canary, TRUE)
    <2>1. Between(first.end, current, target) /\ first.stages \in Seq(P)
      BY <1>1, WaveStages
    <2> HIDE DEF first
    <2>2. second.stages \in Seq(P)
      BY <2>1, WaveStages
    <2>3. Bake \in P
      <3>1. <<>> \in [{} -> NodeState]
        OBVIOUS
      <3>2. <<>> \in SomeStates /\ DOMAIN <<>> = {}
        BY <3>1 DEF SomeStates
      <3>3. QED  BY <3>2 DEF StagePlans, Bake, Phase
    <2>4. BuildRolloutStages(current, target, canary) = first.stages \o <<Bake>> \o second.stages
      BY <1>4 DEF BuildRolloutStages, first
    <2> HIDE DEF second, P
    <2>5. first.stages \o <<Bake>> \o second.stages \in Seq(P)
      BY <2>1, <2>2, <2>3
    <2>6. QED  BY <2>4, <2>5 DEF P
  <1>5. QED  BY <1>2, <1>3, <1>4

-----------------------------------------------------------------------------
(* The inductive invariant.  Stages are written twice only, when a rollout *)
(* is started and when its compensation is added; all that happens to them *)
(* later leaves the states they stand for alone.                           *)

(* What PauseKept says of a state for node n, for all its forwards.        *)
KeptState(state, n, baselines) ==
    \A f \in DOMAIN state.forwards :
        \/ Has(baselines[n], f) /\ baselines[n].forwards[f] = state.forwards[f]
        \/ KeepsPause(baselines, f, state.forwards[f])

KeptStages(baselines) ==
    {stage \in Stage : \A n \in DOMAIN stage.rows :
        KeptState(stage.rows[n].desired, n, baselines)}

GoodRollout(r) ==
    /\ r \in RolloutRow
    /\ r.stages \in Seq(KeptStages(r.baselines))
    /\ r.stage \in 0 .. Len(r.stages)
    /\ r.status \in ActiveStatus => r.stage # 0

PlanInv ==
    /\ scenario \in Scenarios
    /\ revisions \in Seq(scenario.plans)
    /\ active \in 0 .. Len(revisions)
    /\ planPaused \in BOOLEAN
    /\ lastError \in BOOLEAN
    /\ placements \in Placement

NodesInv ==
    /\ gens \in Generations
    /\ applied \in [Node -> Nat]
    /\ \A n \in Node : applied[n] <= Len(gens[n])
    /\ results \subseteq Result

RolloutInv ==
    /\ PlanInv
    /\ NodesInv
    /\ GoodRollout(rollout)
    /\ rollout.id <= MaxRollouts
    /\ errors \in 0 .. MaxErrors
    /\ pauses \in 0 .. scenario.pauses

(* Where a rollout is, in what it goes through.                            *)
LEMMA StageFacts ==
    ASSUME NEW r, GoodRollout(r), NEW k \in 1 .. Len(r.stages)
    PROVE  /\ r.stages[k] \in KeptStages(r.baselines)
           /\ r.stages[k] \in Stage
           /\ Len(r.stages) \in Nat /\ DOMAIN r.stages = 1 .. Len(r.stages)
           /\ r.baselines \in NodeStates /\ r.id \in Nat
           /\ \A n \in DOMAIN r.stages[k].rows :
                 /\ n \in Node /\ r.stages[k].rows[n] \in Row
                 /\ r.stages[k].rows[n].desired \in NodeState
  <1>1. r.stages \in Seq(KeptStages(r.baselines)) /\ r.baselines \in NodeStates /\ r.id \in Nat
    BY DEF GoodRollout, RolloutRow
  <1>2. r.stages[k] \in KeptStages(r.baselines) /\ Len(r.stages) \in Nat
        /\ DOMAIN r.stages = 1 .. Len(r.stages)
    BY <1>1
  <1>3. r.stages[k] \in Stage
    BY <1>2 DEF KeptStages
  <1>4. \A n \in DOMAIN r.stages[k].rows : n \in Node /\ r.stages[k].rows[n] \in Row
    BY <1>3 DEF Stage, Rows
  <1>5. QED  BY <1>1, <1>2, <1>3, <1>4 DEF Row

(* Replacing stage k and where the rollout is.                             *)
Moved(r, status, j, k, stage) ==
    [r EXCEPT !.status = status, !.stage = j, !.stages = [r.stages EXCEPT ![k] = stage]]

LEMMA MovedGood ==
    ASSUME NEW r, GoodRollout(r), NEW status \in ActiveStatus \cup FinalStatus \cup {"none"},
           NEW j \in 0 .. Len(r.stages), status \in ActiveStatus => j # 0,
           NEW k \in 1 .. Len(r.stages), NEW stage \in KeptStages(r.baselines)
    PROVE  LET q == Moved(r, status, j, k, stage)
           IN  /\ GoodRollout(q)
               /\ q.id = r.id /\ q.status = status /\ q.stage = j
               /\ Len(q.stages) = Len(r.stages) /\ q.stages[k] = stage
               /\ q.baselines = r.baselines
  <1> DEFINE stages == [r.stages EXCEPT ![k] = stage]
             q == Moved(r, status, j, k, stage)
  <1>1. r \in RolloutRow /\ r.stages \in Seq(KeptStages(r.baselines))
    BY DEF GoodRollout
  <1>2. /\ stages \in Seq(KeptStages(r.baselines))
        /\ Len(stages) = Len(r.stages) /\ stages[k] = stage
    BY <1>1
  <1>3. stages \in Seq(Stage)
    BY <1>2 DEF KeptStages
  <1>4. q = [r EXCEPT !.status = status, !.stage = j, !.stages = stages]
    BY DEF Moved
  <1> HIDE DEF stages
  <1>5. j \in Nat /\ Len(r.stages) \in Nat
    BY <1>1
  <1>6. q \in RolloutRow /\ q.id = r.id /\ q.status = status /\ q.stage = j
        /\ q.stages = stages /\ q.baselines = r.baselines
    BY <1>1, <1>3, <1>4, <1>5 DEF RolloutRow
  <1> HIDE DEF q
  <1>7. GoodRollout(q) /\ Len(q.stages) = Len(r.stages) /\ q.stages[k] = stage
    BY <1>2, <1>6 DEF GoodRollout
  <1>8. QED  BY <1>6, <1>7 DEF q

(* A stage keeps its states when its status or the row of a node changes.  *)
LEMMA StatusKept ==
    ASSUME NEW baselines, NEW stage \in KeptStages(baselines),
           NEW status \in {"pending", "awaiting_ack", "baking", "completed", "failed"}
    PROVE  [stage EXCEPT !.status = status] \in KeptStages(baselines)
  BY DEF KeptStages, Stage

LEMMA RowsKept ==
    ASSUME NEW baselines, NEW stage \in KeptStages(baselines), NEW rows,
           DOMAIN rows = DOMAIN stage.rows, rows \in [DOMAIN rows -> Row],
           \A n \in DOMAIN rows : rows[n].desired = stage.rows[n].desired
    PROVE  [stage EXCEPT !.rows = rows] \in KeptStages(baselines)
  <1>1. stage \in Stage /\ DOMAIN rows \in SUBSET Node
    BY DEF KeptStages, Stage, Rows
  <1>2. rows \in Rows
    BY <1>1 DEF Rows
  <1>3. [stage EXCEPT !.rows = rows] \in Stage /\ [stage EXCEPT !.rows = rows].rows = rows
    BY <1>1, <1>2 DEF Stage
  <1>4. QED  BY <1>3 DEF KeptStages

(* What a transaction makes of a rollout and the generations.              *)
Fits(r, g, q, h) ==
    /\ GoodRollout(q) /\ q.id = r.id
    /\ h \in Generations
    /\ \A n \in Node : Len(g[n]) <= Len(h[n])

LEMMA PublishFits ==
    ASSUME NEW r, GoodRollout(r), NEW k \in 1 .. Len(r.stages), NEW g \in Generations
    PROVE  LET next == publishClusterStageTx(r, k, g)
           IN  Fits(r, g, next.rollout, next.gens)
  <1> DEFINE stage == r.stages[k]
             D == DOMAIN stage.rows
             next == publishClusterStageTx(r, k, g)
  <1>0. /\ stage \in KeptStages(r.baselines) /\ stage \in Stage
        /\ Len(r.stages) \in Nat /\ DOMAIN r.stages = 1 .. Len(r.stages)
        /\ \A n \in D : n \in Node /\ stage.rows[n] \in Row /\ stage.rows[n].desired \in NodeState
    BY StageFacts
  <1>00. k \in 0 .. Len(r.stages) /\ k # 0
    BY <1>0
  <1>1. CASE stage.status # "pending"
    <2>1. next = [rollout |-> r, gens |-> g]
      BY <1>1 DEF publishClusterStageTx
    <2>2. \A n \in Node : Len(g[n]) <= Len(g[n])
      BY DEF Generations
    <2>3. QED  BY <2>1, <2>2 DEF Fits
  <1>2. CASE stage.status = "pending" /\ stage.phase = "bake"
    <2> DEFINE new == [stage EXCEPT !.status = "baking"]
    <2>1. next = [rollout |-> Moved(r, "baking", k, k, new), gens |-> g]
      BY <1>0, <1>2 DEF publishClusterStageTx, Moved, GoodRollout, RolloutRow
    <2>2. new \in KeptStages(r.baselines)
      BY <1>0, StatusKept
    <2> HIDE DEF new
    <2>3. "baking" \in ActiveStatus
      BY DEF ActiveStatus
    <2>4. GoodRollout(Moved(r, "baking", k, k, new)) /\ Moved(r, "baking", k, k, new).id = r.id
      BY <1>00, <2>2, <2>3, MovedGood
    <2>5. \A n \in Node : Len(g[n]) <= Len(g[n])
      BY DEF Generations
    <2>6. QED  BY <2>1, <2>4, <2>5 DEF Fits
  <1>3. CASE stage.status = "pending" /\ stage.phase # "bake"
    <2> DEFINE rows == [n \in D |-> [gen |-> Len(g[n]) + 1, status |-> "pending",
                                     desired |-> stage.rows[n].desired]]
               waiting == [stage EXCEPT !.status = "awaiting_ack"]
               new == [waiting EXCEPT !.rows = rows]
               h == [n \in Node |-> IF n \in D THEN Append(g[n], stage.rows[n].desired)
                                    ELSE g[n]]
    <2>1. next = [rollout |-> Moved(r, "awaiting_ack", k, k, new), gens |-> h]
      BY <1>0, <1>3 DEF publishClusterStageTx, Moved, GoodRollout, RolloutRow, Stage
    <2>2. waiting \in KeptStages(r.baselines) /\ waiting.rows = stage.rows
      BY <1>0, StatusKept DEF Stage
    <2>3. \A n \in Node : g[n] \in Seq(NodeState) /\ Len(g[n]) \in Nat
      BY DEF Generations
    <2>4. rows \in [D -> Row] /\ DOMAIN rows = D
          /\ \A n \in D : rows[n].desired = stage.rows[n].desired
      BY <1>0, <2>3 DEF Row
    <2> HIDE DEF waiting, rows
    <2>5. new \in KeptStages(r.baselines)
      BY <2>2, <2>4, RowsKept
    <2> HIDE DEF new
    <2>6. "awaiting_ack" \in ActiveStatus
      BY DEF ActiveStatus
    <2>7. /\ GoodRollout(Moved(r, "awaiting_ack", k, k, new))
          /\ Moved(r, "awaiting_ack", k, k, new).id = r.id
      BY <1>00, <2>5, <2>6, MovedGood
    <2>8. \A n \in Node : h[n] \in Seq(NodeState) /\ Len(g[n]) <= Len(h[n])
      BY <1>0, <2>3
    <2>9. h \in Generations /\ \A n \in Node : Len(g[n]) <= Len(h[n])
      BY <2>8 DEF Generations
    <2> HIDE DEF h
    <2>10. QED  BY <2>1, <2>7, <2>9 DEF Fits
  <1>4. QED  BY <1>1, <1>2, <1>3

(* The next stage to publish exists when there is one at all.              *)
LEMMA NextStageFits ==
    ASSUME NEW r, GoodRollout(r), NEW k \in Nat, HasNextStage(r, k)
    PROVE  NextStage(r, k) \in 1 .. Len(r.stages)
  <1> DEFINE J == {j \in DOMAIN r.stages : j > k /\ r.stages[j].status = "pending"}
             T == {1 .. j : j \in J}
  <1>1. DOMAIN r.stages = 1 .. Len(r.stages) /\ Len(r.stages) \in Nat
    BY DEF GoodRollout, RolloutRow
  <1>2. T # {}
    BY DEF HasNextStage
  <1>3. T \subseteq SUBSET (1 .. Len(r.stages))
    BY <1>1
  <1>4. IsFiniteSet(1 .. Len(r.stages))
    BY <1>1, FS_Interval
  <1>5. PICK t \in T : \A u \in T : u \subseteq t => u = t
    <2> DEFINE S == 1 .. Len(r.stages)
    <2>1. T \subseteq SUBSET S /\ IsFiniteSet(S)
      BY <1>3, <1>4
    <2> HIDE DEF T, S
    <2>2. QED  BY <1>2, <2>1, SmallestSubset
  <1>6. PICK j \in J : t = 1 .. j
    OBVIOUS
  <1>7. ASSUME NEW i \in k + 1 .. j - 1
        PROVE  r.stages[i].status # "pending"
    <2> SUFFICES ASSUME r.stages[i].status = "pending" PROVE FALSE
      OBVIOUS
    <2>1. i \in J /\ i \in Nat /\ j \in Nat /\ i < j
      BY <1>1, <1>6, <1>7
    <2>2. 1 .. i \in T
      BY <2>1
    <2>3. 1 .. i \subseteq 1 .. j
      BY <2>1
    <2>4. 1 .. i = 1 .. j
      BY <1>5, <1>6, <2>2, <2>3
    <2>5. j \in 1 .. j /\ j \notin 1 .. i
      BY <1>1, <2>1
    <2>6. QED  BY <2>4, <2>5
  <1>8. \E x \in DOMAIN r.stages :
            /\ x > k /\ r.stages[x].status = "pending"
            /\ \A i \in k + 1 .. x - 1 : r.stages[i].status # "pending"
    BY <1>6, <1>7
  <1>9. NextStage(r, k) \in DOMAIN r.stages
    BY <1>8 DEF NextStage
  <1>10. QED  BY <1>1, <1>9

LEMMA CompleteFits ==
    ASSUME NEW r, GoodRollout(r), r.stage # 0, NEW g \in Generations
    PROVE  LET next == completeClusterStageTx(r, r.stage, g)
           IN  Fits(r, g, next.rollout, next.gens)
  <1> DEFINE k == r.stage
             new == [r.stages[k] EXCEPT !.status = "completed"]
             next == completeClusterStageTx(r, k, g)
             done(status) == Moved(r, status, k, k, new)
  <1>0. k \in 1 .. Len(r.stages) /\ k \in 0 .. Len(r.stages) /\ k \in Nat
    BY DEF GoodRollout, RolloutRow
  <1>1. new \in KeptStages(r.baselines)
    BY <1>0, StageFacts, StatusKept
  <1>2. \A status \in ActiveStatus \cup FinalStatus :
            [[r EXCEPT !.stages[k].status = "completed"] EXCEPT !.status = status] = done(status)
    BY DEF Moved, GoodRollout, RolloutRow
  <1>3. {"rolled_back", "completed", "publishing"} \subseteq ActiveStatus \cup FinalStatus
    BY DEF ActiveStatus, FinalStatus
  <1> HIDE DEF new
  <1>4. \A status \in ActiveStatus \cup FinalStatus :
            /\ GoodRollout(done(status)) /\ done(status).id = r.id
            /\ Len(done(status).stages) = Len(r.stages)
    BY <1>0, <1>1, MovedGood
  <1>5. \A n \in Node : Len(g[n]) <= Len(g[n])
    BY DEF Generations
  <1> HIDE DEF done
  <1>6. CASE r.stages[k].phase = "compensate"
    <2>1. next = [rollout |-> done("rolled_back"), gens |-> g]
      BY <1>2, <1>3, <1>6 DEF completeClusterStageTx
    <2>2. QED  BY <1>3, <1>4, <1>5, <2>1 DEF Fits
  <1>7. CASE r.stages[k].phase # "compensate" /\ HasNextStage(r, k)
    <2> DEFINE q == done("publishing")
               j == NextStage(r, k)
    <2>1. next = publishClusterStageTx(q, j, g)
      BY <1>2, <1>3, <1>7 DEF completeClusterStageTx
    <2>2. GoodRollout(q) /\ q.id = r.id /\ Len(q.stages) = Len(r.stages)
      BY <1>3, <1>4
    <2>3. j \in 1 .. Len(r.stages)
      BY <1>0, <1>7, NextStageFits
    <2> HIDE DEF q, j
    <2>4. Fits(q, g, next.rollout, next.gens)
      BY <2>1, <2>2, <2>3, PublishFits
    <2>5. QED  BY <2>2, <2>4 DEF Fits
  <1>8. CASE r.stages[k].phase # "compensate" /\ ~HasNextStage(r, k)
    <2>1. next = [rollout |-> done("completed"), gens |-> g]
      BY <1>2, <1>3, <1>8 DEF completeClusterStageTx
    <2>2. QED  BY <1>3, <1>4, <1>5, <2>1 DEF Fits
  <1>9. QED  BY <1>6, <1>7, <1>8

LEMMA FailFits ==
    ASSUME NEW r, GoodRollout(r), r.stage # 0, NEW k \in 1 .. Len(r.stages)
    PROVE  /\ GoodRollout(requestClusterRollbackTx(r, k))
           /\ requestClusterRollbackTx(r, k).id = r.id
  <1> DEFINE new == [r.stages[k] EXCEPT !.status = "failed"]
             status == IF r.stages[k].phase = "compensate" THEN "failed" ELSE "rollback_pending"
  <1>1. new \in KeptStages(r.baselines)
    BY StageFacts, StatusKept
  <1>2. requestClusterRollbackTx(r, k) = Moved(r, status, r.stage, k, new)
    BY DEF requestClusterRollbackTx, Moved, GoodRollout, RolloutRow
  <1>3. status \in ActiveStatus \cup FinalStatus
    BY DEF ActiveStatus, FinalStatus
  <1>4. r.stage \in 0 .. Len(r.stages)
    BY DEF GoodRollout
  <1> HIDE DEF new, status
  <1>5. QED  BY <1>1, <1>2, <1>3, <1>4, MovedGood

(* A compensation gives each node exactly what it had.                     *)
LEMMA CompensationFits ==
    ASSUME NEW r, GoodRollout(r)
    PROVE  LET q == ensureCompensationStage(r)
           IN  /\ GoodRollout(q) /\ q.id = r.id
               /\ q.stage \in 1 .. Len(q.stages)
  <1> DEFINE q == ensureCompensationStage(r)
  <1>0. /\ r \in RolloutRow /\ r.stages \in Seq(KeptStages(r.baselines))
        /\ Len(r.stages) \in Nat /\ DOMAIN r.stages = 1 .. Len(r.stages)
        /\ r.baselines \in NodeStates
    BY DEF GoodRollout, RolloutRow
  <1>00. "rolling_back" \in ActiveStatus
    BY DEF ActiveStatus
  <1>1. CASE Compensation(r) # {}
    <2> DEFINE k == CHOOSE k \in Compensation(r) : TRUE
    <2>1. k \in 1 .. Len(r.stages)
      BY <1>0, <1>1 DEF Compensation
    <2>2. q = [r EXCEPT !.status = "rolling_back", !.stage = k]
      BY <1>1 DEF ensureCompensationStage
    <2> HIDE DEF k, q
    <2>3. k \in Nat /\ "rolling_back" \in ActiveStatus \cup FinalStatus \cup {"none"}
      BY <1>00, <2>1
    <2>4. /\ q \in RolloutRow /\ q.id = r.id /\ q.stage = k
          /\ q.stages = r.stages /\ q.baselines = r.baselines
      BY <1>0, <2>2, <2>3 DEF RolloutRow
    <2>5. GoodRollout(q) /\ q.stage \in 1 .. Len(q.stages)
      BY <1>0, <2>1, <2>4 DEF GoodRollout
    <2>6. QED  BY <2>4, <2>5 DEF q
  <1>2. CASE Compensation(r) = {}
    <2> DEFINE rows == [n \in PublishedNodes(r) |-> QueuedRow(r.baselines[n])]
               stage == [phase |-> "compensate", status |-> "pending", rows |-> rows]
               stages == Append(r.stages, stage)
    <2>1. q = [r EXCEPT !.status = "rolling_back", !.stage = Len(r.stages) + 1, !.stages = stages]
      BY <1>0, <1>2 DEF ensureCompensationStage, RolloutRow
    <2>2. PublishedNodes(r) \in SUBSET Node
      BY DEF PublishedNodes
    <2>3. \A n \in PublishedNodes(r) :
              /\ QueuedRow(r.baselines[n]) \in Row
              /\ QueuedRow(r.baselines[n]).desired = r.baselines[n]
      BY <1>0, <2>2 DEF QueuedRow, Row, NodeStates
    <2>4. rows \in [PublishedNodes(r) -> Row]
      BY <2>3
    <2>5. rows \in Rows /\ DOMAIN rows = PublishedNodes(r)
      BY <2>2, <2>4 DEF Rows
    <2>6. \A n \in DOMAIN rows : KeptState(rows[n].desired, n, r.baselines)
      BY <2>3 DEF KeptState, Has
    <2> HIDE DEF rows
    <2>7. stage \in KeptStages(r.baselines)
      BY <2>5, <2>6 DEF KeptStages, Stage, Phase
    <2> HIDE DEF stage
    <2>8. stages \in Seq(KeptStages(r.baselines)) /\ Len(stages) = Len(r.stages) + 1
      BY <1>0, <2>7
    <2>9. stages \in Seq(Stage)
      BY <2>8 DEF KeptStages
    <2> HIDE DEF stages, q
    <2>10. /\ Len(r.stages) + 1 \in Nat
           /\ "rolling_back" \in ActiveStatus \cup FinalStatus \cup {"none"}
      BY <1>0, <1>00
    <2>11. /\ q \in RolloutRow /\ q.id = r.id /\ q.stage = Len(r.stages) + 1
           /\ q.stages = stages /\ q.baselines = r.baselines
      BY <1>0, <2>10, <2>1, <2>9 DEF RolloutRow
    <2>12. q.stage \in 1 .. Len(q.stages) /\ q.stage # 0 /\ q.stage \in 0 .. Len(q.stages)
      BY <1>0, <2>8, <2>11
    <2>13. GoodRollout(q)
      BY <2>8, <2>11, <2>12 DEF GoodRollout
    <2>14. QED  BY <2>11, <2>12, <2>13 DEF q
  <1>3. QED  BY <1>1, <1>2

LEMMA PlacementType ==
    ASSUME NEW layout \in Layout
    PROVE  PlacementOf(layout) \in Placement
  <1>1. \A f \in DOMAIN layout : f \in Forward /\ layout[f] \in Entry
    BY LayoutFacts
  <1>2. PlacementOf(layout) \in [DOMAIN layout -> Spot] /\ DOMAIN layout \in SUBSET Forward
    BY <1>1 DEF PlacementOf, Entry, Spot
  <1>3. QED  BY <1>2 DEF Placement

(* A new rollout.                                                          *)
LEMMA StartedFits ==
    ASSUME RolloutInv, NEW layout \in Layout, NEW current \in NodeStates,
           NEW target \in NodeStates, NEW stages \in Seq(StagePlans(current, target)),
           stages # <<>>,
           \A n \in Node : \A f \in DOMAIN target[n].forwards :
               KeepsPause(current, f, target[n].forwards[f])
    PROVE  LET r == StartedRollout(layout, stages, current)
           IN  /\ GoodRollout(r) /\ r.id = rollout.id + 1
               /\ 1 \in 1 .. Len(r.stages)
  <1> DEFINE r == StartedRollout(layout, stages, current)
             rows(k) == [n \in DOMAIN stages[k].desired |-> QueuedRow(stages[k].desired[n])]
             row(k) == [phase |-> stages[k].phase, status |-> "pending", rows |-> rows(k)]
             new == [k \in DOMAIN stages |-> row(k)]
  <1>1. DOMAIN stages = 1 .. Len(stages) /\ Len(stages) \in Nat /\ Len(stages) # 0
    OBVIOUS
  <1>2. ASSUME NEW k \in DOMAIN stages
        PROVE  row(k) \in KeptStages(current)
    <2> DEFINE d == stages[k].desired
    <2>1. /\ stages[k].phase \in Phase /\ d \in SomeStates
          /\ \A n \in DOMAIN d : Mixes(d[n], current[n], target[n])
      BY <1>2 DEF StagePlans
    <2>2. DOMAIN d \in SUBSET Node /\ \A n \in DOMAIN d : d[n] \in NodeState
      BY <2>1 DEF SomeStates
    <2>3. \A n \in DOMAIN d : QueuedRow(d[n]) \in Row /\ QueuedRow(d[n]).desired = d[n]
      BY <2>2 DEF QueuedRow, Row
    <2>4. rows(k) \in [DOMAIN d -> Row]
      BY <2>3
    <2>5. rows(k) \in Rows /\ DOMAIN rows(k) = DOMAIN d
      BY <2>2, <2>4 DEF Rows
    <2>6. \A n \in DOMAIN d : KeptState(d[n], n, current)
      BY <2>1, <2>2 DEF KeptState, Mixes, Has
    <2>7. \A n \in DOMAIN rows(k) : KeptState(rows(k)[n].desired, n, current)
      BY <2>3, <2>5, <2>6
    <2> HIDE DEF rows
    <2>8. QED  BY <2>1, <2>5, <2>7 DEF KeptStages, Stage
  <1> HIDE DEF row
  <1>3. new \in Seq(KeptStages(current)) /\ Len(new) = Len(stages)
    <2>1. new \in [1 .. Len(stages) -> KeptStages(current)]
      BY <1>1, <1>2
    <2> HIDE DEF new
    <2>2. QED  BY <1>1, <2>1
  <1>4. new \in Seq(Stage)
    BY <1>3 DEF KeptStages
  <1>5. PlacementOf(layout) \in Placement
    BY PlacementType
  <1>6. Quiet \in BOOLEAN
    BY DEF Quiet
  <1>7. rollout.id \in Nat /\ "publishing" \in ActiveStatus
    BY DEF RolloutInv, GoodRollout, RolloutRow, ActiveStatus
  <1>8. r = [id |-> rollout.id + 1, status |-> "publishing", stage |-> 1, stages |-> new,
             baselines |-> current, placements |-> PlacementOf(layout), quiet |-> Quiet]
    BY DEF StartedRollout, row
  <1> HIDE DEF new
  <1>9. r \in RolloutRow
    BY <1>4, <1>5, <1>6, <1>7, <1>8 DEF RolloutRow
  <1>10. QED  BY <1>1, <1>3, <1>8, <1>9 DEF GoodRollout

-----------------------------------------------------------------------------
(* The invariant holds initially.                                          *)

LEMMA ScenarioFacts ==
    ASSUME NEW s \in Scenarios
    PROVE  /\ s.installed \in Layout
           /\ \A layouts \in s.plans : \A layout \in layouts : layout \in Layout
           /\ s.revisions \in Nat /\ s.pauses \in Nat
  BY ScenariosAssumption, LayoutFacts DEF IsPlaced

LEMMA NoRolloutGood == GoodRollout(NoRollout) /\ NoRollout.id = 0
  <1>1. <<>> \in [{} -> Spot]
    OBVIOUS
  <1>2. <<>> \in Placement
    BY <1>1 DEF Placement
  <1>3. [n \in Node |-> emptyStageState] \in NodeStates
    BY NodeStateFacts DEF NodeStates
  <1>4. NoRollout \in RolloutRow
    BY <1>2, <1>3 DEF NoRollout, RolloutRow
  <1>5. QED  BY <1>4 DEF GoodRollout, NoRollout, ActiveStatus

LEMMA RolloutInit == Init => RolloutInv
  <1> SUFFICES ASSUME Init PROVE RolloutInv
    OBVIOUS
  <1>1. scenario \in Scenarios
    BY DEF Init
  <1>2. /\ scenario.installed \in Layout /\ scenario.pauses \in Nat
    BY <1>1, ScenarioFacts
  <1>3. Compile(scenario.installed) \in NodeStates
    BY <1>2, CompileType
  <1>4. \A n \in Node : gens[n] \in Seq(NodeState) /\ applied[n] = Len(gens[n])
    BY <1>3 DEF Init, NodeStates
  <1>5. gens \in Generations /\ applied \in [Node -> Nat] /\ \A n \in Node : applied[n] <= Len(gens[n])
    BY <1>4 DEF Init, Generations
  <1>6. revisions \in Seq(scenario.plans)
    <2>1. revisions = <<>> \/ \E layouts \in scenario.plans : revisions = <<layouts>>
      BY DEF Init
    <2>2. \A P : <<>> \in Seq(P) /\ \A x \in P : <<x>> \in Seq(P)
      OBVIOUS
    <2>3. QED  BY <2>1, <2>2
  <1>7. active \in 0 .. Len(revisions)
    BY <1>6 DEF Init
  <1>8. placements \in Placement
    BY <1>2, PlacementType DEF Init
  <1>9. PlanInv
    BY <1>1, <1>6, <1>7, <1>8 DEF Init, PlanInv
  <1>10. NodesInv
    BY <1>5 DEF Init, NodesInv
  <1>11. GoodRollout(rollout) /\ rollout.id <= MaxRollouts
    BY NoRolloutGood, RolloutBoundAssumption DEF Init
  <1>12. errors \in 0 .. MaxErrors /\ pauses \in 0 .. scenario.pauses
    BY <1>2, RolloutBoundAssumption DEF Init
  <1>13. QED  BY <1>9, <1>10, <1>11, <1>12 DEF RolloutInv

-----------------------------------------------------------------------------
(* The steps.                                                              *)

LEMMA DesiredType ==
    ASSUME gens \in Generations
    PROVE  /\ \A n \in Node : Desired(n) \in NodeState
           /\ [n \in Node |-> Desired(n)] \in NodeStates
  <1>1. \A n \in Node : gens[n] \in Seq(NodeState)
    BY DEF Generations
  <1>2. ASSUME NEW n \in Node, gens[n] # <<>>
        PROVE  Last(gens[n]) \in NodeState
    BY <1>1, <1>2 DEF Last
  <1>3. \A n \in Node : Desired(n) \in NodeState
    BY <1>2, NodeStateFacts DEF Desired
  <1>4. QED  BY <1>3 DEF NodeStates

(* What a step does to the generations and to the rollout.                 *)
NodesStep ==
    /\ gens' \in Generations
    /\ \A n \in Node : Len(gens[n]) <= Len(gens'[n])

LEMMA NodesUnchanged ==
    ASSUME NodesInv, UNCHANGED gens
    PROVE  NodesStep
  BY DEF NodesInv, NodesStep, Generations

LEMMA NodesKept ==
    ASSUME NodesInv, NodesStep, UNCHANGED agents
    PROVE  NodesInv'
  <1>1. \A n \in Node : /\ applied[n] \in Nat /\ Len(gens[n]) \in Nat /\ Len(gens'[n]) \in Nat
                        /\ applied[n] <= Len(gens[n]) /\ Len(gens[n]) <= Len(gens'[n])
    BY DEF NodesInv, NodesStep, Generations
  <1>2. \A n \in Node : applied[n] <= Len(gens'[n])
    BY <1>1
  <1>3. QED  BY <1>2 DEF NodesInv, NodesStep, agents

(* Scheduling starts a rollout whose states keep what is paused.           *)
LEMMA ScheduleStep ==
    ASSUME RolloutInv, MaySchedule, NEW layout \in Layout, NEW force \in BOOLEAN,
           schedulePlanTx(layout, force)
    PROVE  /\ NodesStep /\ lastError' \in BOOLEAN /\ placements' \in Placement
           /\ GoodRollout(rollout') /\ rollout'.id <= MaxRollouts
  <1> DEFINE current == [n \in Node |-> Desired(n)]
             target == preserveRuntimeLifecycles(current, Compile(layout))
  <1>0. /\ gens \in Generations /\ placements \in Placement /\ lastError' = FALSE
        /\ GoodRollout(rollout) /\ rollout.id <= MaxRollouts /\ rollout.id \in Nat
        /\ MaxRollouts \in Nat
    BY RolloutBoundAssumption
       DEF RolloutInv, PlanInv, NodesInv, schedulePlanTx, GoodRollout, RolloutRow
  <1>1. CASE UNCHANGED <<gens, placements, rollout>>
    BY <1>0, <1>1, NodesUnchanged DEF RolloutInv
  <1>2. CASE ~ UNCHANGED <<gens, placements, rollout>>
    <2>1. current \in NodeStates
      BY <1>0, DesiredType
    <2>2. Compile(layout) \in NodeStates
      BY CompileType
    <2>3. PICK canary :
              LET stages == BuildRolloutStages(current, target, canary)
              IN  /\ CommitPlacements(layout, stages)
                  /\ IF stages = <<>> THEN UNCHANGED <<gens, rollout>>
                     ELSE Becomes(publishClusterStageTx(
                              StartedRollout(layout, stages, current), 1, gens))
      BY <1>2 DEF schedulePlanTx
    <2> HIDE DEF current
    <2>4. /\ target \in NodeStates
          /\ \A n \in Node : \A f \in DOMAIN target[n].forwards :
                KeepsPause(current, f, target[n].forwards[f])
      BY <2>1, <2>2, TargetKeeps
    <2> HIDE DEF target
    <2> DEFINE stages == BuildRolloutStages(current, target, canary)
               r == StartedRollout(layout, stages, current)
               next == publishClusterStageTx(r, 1, gens)
    <2>5. stages \in Seq(StagePlans(current, target))
      BY <2>1, <2>4, StagesMix
    <2>6. placements' \in Placement
      BY <1>0, <2>3, PlacementType DEF CommitPlacements
    <2>7. CASE stages = <<>>
      BY <1>0, <2>3, <2>6, <2>7, NodesUnchanged DEF RolloutInv
    <2>8. CASE stages # <<>>
      <3>0. rollout' = next.rollout /\ gens' = next.gens
        BY <2>3, <2>8 DEF Becomes
      <3> HIDE DEF stages
      <3>1. GoodRollout(r) /\ r.id = rollout.id + 1 /\ 1 \in 1 .. Len(r.stages)
        BY <2>1, <2>4, <2>5, <2>8, StartedFits
      <3> HIDE DEF r
      <3>2. Fits(r, gens, next.rollout, next.gens)
        BY <1>0, <3>1, PublishFits
      <3> HIDE DEF next
      <3>3. GoodRollout(rollout') /\ rollout'.id = rollout.id + 1 /\ NodesStep
        BY <3>0, <3>1, <3>2 DEF Fits, NodesStep
      <3>4. rollout.id < MaxRollouts
        BY DEF MaySchedule
      <3>5. rollout.id + 1 <= MaxRollouts
        BY <1>0, <3>4
      <3>6. rollout'.id <= MaxRollouts
        BY <3>3, <3>5
      <3>7. QED  BY <1>0, <2>6, <3>3, <3>6
    <2>9. QED  BY <2>7, <2>8
  <1>3. QED  BY <1>1, <1>2

LEMMA BlockedStep ==
    ASSUME RolloutInv, ScheduleBlocked
    PROVE  /\ NodesStep /\ lastError' \in BOOLEAN /\ placements' \in Placement
           /\ GoodRollout(rollout') /\ rollout'.id <= MaxRollouts
  BY NodesUnchanged DEF RolloutInv, ScheduleBlocked, PlanInv

LEMMA PlanStep ==
    ASSUME RolloutInv,
           \/ \E newPlan \in scenario.plans : ApplyNewRevision(newPlan)
           \/ ReapplyRevision
           \/ \E revision \in 1 .. Len(revisions) : RollbackClusterPlan(revision)
           \/ ReconcileClusterPlans
    PROVE  RolloutInv'
  <1>0. /\ scenario \in Scenarios /\ revisions \in Seq(scenario.plans) /\ Len(revisions) \in Nat
        /\ active \in 0 .. Len(revisions) /\ planPaused \in BOOLEAN
        /\ \A p \in scenario.plans : \A layout \in p : layout \in Layout
        /\ \A i \in 1 .. Len(revisions) : revisions[i] \in scenario.plans
    BY ScenarioFacts DEF RolloutInv, PlanInv
  <1> DEFINE Scheduled == /\ NodesStep /\ lastError' \in BOOLEAN /\ placements' \in Placement
                          /\ GoodRollout(rollout') /\ rollout'.id <= MaxRollouts
             Planned == /\ revisions' \in Seq(scenario.plans)
                        /\ active' \in 0 .. Len(revisions')
                        /\ planPaused' \in BOOLEAN
                        /\ UNCHANGED <<scenario, agents, errors, pauses>>
  <1>1. ASSUME NEW newPlan \in scenario.plans, ApplyNewRevision(newPlan)
        PROVE  Scheduled /\ Planned
    <2>1. Scheduled
      BY <1>0, <1>1, ScheduleStep, BlockedStep DEF ApplyNewRevision
    <2>2. revisions' \in Seq(scenario.plans) /\ Len(revisions') = Len(revisions) + 1
      BY <1>0, <1>1 DEF ApplyNewRevision
    <2>3. active' \in 0 .. Len(revisions')
      BY <1>0, <1>1, <2>2 DEF ApplyNewRevision
    <2>4. QED  BY <1>1, <2>1, <2>2, <2>3 DEF ApplyNewRevision
  <1>2. ASSUME ReapplyRevision
        PROVE  Scheduled /\ Planned
    <2>1. \A layout \in revisions[active] : layout \in Layout
      BY <1>0, <1>2 DEF ReapplyRevision
    <2>2. Scheduled
      BY <1>2, <2>1, ScheduleStep, BlockedStep DEF ReapplyRevision
    <2>3. QED  BY <1>0, <1>2, <2>2 DEF ReapplyRevision, plan
  <1>3. ASSUME NEW revision \in 1 .. Len(revisions), RollbackClusterPlan(revision)
        PROVE  Scheduled /\ Planned
    <2>1. Scheduled
      BY <1>0, <1>3, ScheduleStep DEF RollbackClusterPlan
    <2>2. active' \in 0 .. Len(revisions')
      BY <1>0, <1>3 DEF RollbackClusterPlan
    <2>3. QED  BY <1>0, <1>3, <2>1, <2>2 DEF RollbackClusterPlan
  <1>4. ASSUME ReconcileClusterPlans
        PROVE  Scheduled /\ Planned
    <2>1. \A layout \in revisions[active] : layout \in Layout
      BY <1>0, <1>4 DEF ReconcileClusterPlans
    <2>2. Scheduled
      BY <1>4, <2>1, ScheduleStep, BlockedStep DEF ReconcileClusterPlans
    <2>3. QED  BY <1>0, <1>4, <2>2 DEF ReconcileClusterPlans, plan
  <1>5. Scheduled /\ Planned
    BY <1>1, <1>2, <1>3, <1>4
  <1>6. NodesInv'
    BY <1>5, NodesKept DEF RolloutInv
  <1>7. PlanInv'
    BY <1>0, <1>5 DEF PlanInv
  <1>8. QED  BY <1>5, <1>6, <1>7 DEF RolloutInv

(* advanceClusterRolloutTx.                                                *)
LEMMA AdvanceStep ==
    ASSUME RolloutInv, AdvanceClusterRollouts
    PROVE  RolloutInv'
  <1>0. /\ gens \in Generations /\ placements \in Placement
        /\ planPaused \in BOOLEAN /\ lastError \in BOOLEAN
        /\ GoodRollout(rollout) /\ rollout.id <= MaxRollouts
        /\ rollout.placements \in Placement
    BY DEF RolloutInv, PlanInv, NodesInv, GoodRollout, RolloutRow
  <1>00. rollout.stage \in 0 .. Len(rollout.stages) /\ Len(rollout.stages) \in Nat
         /\ (rollout.status \in ActiveStatus => rollout.stage # 0)
    BY <1>0 DEF GoodRollout, RolloutRow
  <1> DEFINE Moves == /\ NodesStep /\ GoodRollout(rollout') /\ rollout'.id = rollout.id
             Stands == /\ planPaused' \in BOOLEAN /\ lastError' \in BOOLEAN
                       /\ placements' \in Placement
  <1>1. ASSUME StartCompensation
        PROVE  Moves /\ Stands
    <2> DEFINE r == ensureCompensationStage(rollout)
               next == publishClusterStageTx(r, r.stage, gens)
    <2>1. rollout' = next.rollout /\ gens' = next.gens
      BY <1>1 DEF StartCompensation, Becomes
    <2>2. GoodRollout(r) /\ r.id = rollout.id /\ r.stage \in 1 .. Len(r.stages)
      BY <1>0, CompensationFits
    <2> HIDE DEF r
    <2>3. Fits(r, gens, next.rollout, next.gens)
      BY <1>0, <2>2, PublishFits
    <2> HIDE DEF next
    <2>4. Moves
      BY <2>1, <2>2, <2>3 DEF Fits, NodesStep
    <2>5. QED  BY <1>0, <1>1, <2>4 DEF StartCompensation, standing
  <1>2. ASSUME Republish
        PROVE  Moves /\ Stands
    <2> DEFINE next == publishClusterStageTx(rollout, rollout.stage, gens)
    <2>1. rollout' = next.rollout /\ gens' = next.gens
      BY <1>2 DEF Republish, Becomes
    <2>2. rollout.stage \in 1 .. Len(rollout.stages)
      BY <1>00, <1>2 DEF Republish, ActiveStatus
    <2>3. Fits(rollout, gens, next.rollout, next.gens)
      BY <1>0, <2>2, PublishFits
    <2> HIDE DEF next
    <2>4. Moves
      BY <2>1, <2>3 DEF Fits, NodesStep
    <2>5. QED  BY <1>0, <1>2, <2>4 DEF Republish, standing
  <1>3. ASSUME CompleteStage, rollout.stage # 0
        PROVE  Moves /\ Stands
    <2> DEFINE next == completeClusterStageTx(rollout, rollout.stage, gens)
    <2>1. rollout' = next.rollout /\ gens' = next.gens
      BY <1>3 DEF CompleteStage, Becomes
    <2>2. Fits(rollout, gens, next.rollout, next.gens)
      BY <1>0, <1>3, CompleteFits
    <2> HIDE DEF next
    <2>3. Moves
      BY <2>1, <2>2 DEF Fits, NodesStep
    <2>4. placements' \in Placement /\ planPaused' \in BOOLEAN
      BY <1>0, <1>3 DEF CompleteStage
    <2>5. lastError' \in BOOLEAN
      BY <1>3 DEF CompleteStage
    <2>6. QED  BY <2>3, <2>4, <2>5
  <1>4. ASSUME FailStage, rollout.stage # 0
        PROVE  Moves /\ Stands
    <2>1. rollout.stage \in 1 .. Len(rollout.stages)
      BY <1>00, <1>4
    <2>2. GoodRollout(rollout') /\ rollout'.id = rollout.id
      BY <1>0, <1>4, <2>1, FailFits DEF FailStage
    <2>3. NodesStep
      BY <1>4, NodesUnchanged DEF FailStage, RolloutInv
    <2>4. QED  BY <1>0, <1>4, <2>2, <2>3 DEF FailStage
  <1>5. Moves /\ Stands
    <2>1. rollout.status \in {"awaiting_ack", "baking"} => rollout.stage # 0
      BY <1>00 DEF ActiveStatus
    <2>2. QED
      BY <1>1, <1>2, <1>3, <1>4, <2>1
         DEF AdvanceClusterRollouts, StageAcknowledged, ACKTimeout, CanaryBakeFailure, BakeOver
  <1>6. UNCHANGED <<plan, agents, errors, pauses>>
    BY DEF AdvanceClusterRollouts, StartCompensation, Republish, StageAcknowledged, ACKTimeout,
           CanaryBakeFailure, BakeOver, CompleteStage, FailStage, AdvanceFrame
  <1>7. NodesInv'
    BY <1>5, <1>6, NodesKept DEF RolloutInv
  <1>8. PlanInv'
    BY <1>5, <1>6 DEF RolloutInv, PlanInv, plan
  <1>9. rollout'.id <= MaxRollouts
    BY <1>0, <1>5
  <1>10. QED  BY <1>5, <1>6, <1>7, <1>8, <1>9 DEF RolloutInv, plan

LEMMA AgentStep ==
    ASSUME RolloutInv, NEW n \in Node, NEW gen \in 1 .. Len(gens[n]),
           AgentApplies(n, gen) \/ AgentFails(n, gen)
    PROVE  RolloutInv'
  <1>0. /\ gens \in Generations /\ applied \in [Node -> Nat] /\ results \subseteq Result
        /\ \A m \in Node : applied[m] <= Len(gens[m])
        /\ Len(gens[n]) \in Nat /\ gen \in Nat
    BY DEF RolloutInv, NodesInv, Generations
  <1>1. /\ UNCHANGED <<gens, plan, standing, placements, rollout, pauses>>
        /\ errors' \in 0 .. MaxErrors
        /\ applied' \in {applied, [applied EXCEPT ![n] = gen]}
        /\ \E status \in {"applied", "permanent_error"} :
              results' = results \cup {[node |-> n, gen |-> gen, status |-> status]}
    <2>1. CASE AgentApplies(n, gen)
      BY <2>1 DEF AgentApplies, RolloutInv
    <2>2. CASE AgentFails(n, gen)
      <3>1. errors \in 0 .. MaxErrors /\ MaxErrors \in Nat
        BY RolloutBoundAssumption DEF RolloutInv
      <3>2. errors + 1 \in 0 .. MaxErrors
        BY <2>2, <3>1 DEF AgentFails
      <3>3. QED  BY <2>2, <3>2 DEF AgentFails
    <2>3. QED  BY <2>1, <2>2
  <1>2. results' \subseteq Result
    BY <1>0, <1>1 DEF Result
  <1>3. applied' \in [Node -> Nat]
    BY <1>0, <1>1
  <1>4. \A m \in Node : applied'[m] <= Len(gens[m])
    BY <1>0, <1>1
  <1>5. NodesInv'
    BY <1>0, <1>1, <1>2, <1>3, <1>4 DEF NodesInv
  <1>6. PlanInv'
    BY <1>1 DEF RolloutInv, PlanInv, plan, standing
  <1>7. QED  BY <1>1, <1>5, <1>6 DEF RolloutInv, plan

(* The row of a stage that a result belongs to.                            *)
LEMMA ResultKept ==
    ASSUME NEW was, GoodRollout(was), NEW result \in Result, NEW k \in 1 .. Len(was.stages),
           Matches(was, result, k)
    PROVE  LET r == WithResult(was, result, k)
           IN  /\ GoodRollout(r) /\ r.id = was.id /\ r.stage = was.stage
               /\ k \in 1 .. Len(r.stages)
  <1> DEFINE stage == was.stages[k]
             rows == [stage.rows EXCEPT ![result.node].status = result.status]
             new == [stage EXCEPT !.rows = rows]
             r == WithResult(was, result, k)
  <1>0. /\ was.stage \in 0 .. Len(was.stages) /\ Len(was.stages) \in Nat
        /\ (was.status \in ActiveStatus => was.stage # 0)
        /\ DOMAIN was.stages = 1 .. Len(was.stages)
        /\ was.status \in ActiveStatus \cup FinalStatus \cup {"none"}
    BY DEF GoodRollout, RolloutRow
  <1>1. /\ k \in 1 .. Len(was.stages) /\ result.node \in DOMAIN stage.rows
        /\ result.status \in {"applied", "permanent_error"}
    BY <1>0 DEF Matches, Result
  <1>2. /\ stage \in KeptStages(was.baselines) /\ stage \in Stage
        /\ \A n \in DOMAIN stage.rows : n \in Node /\ stage.rows[n] \in Row
    BY <1>1, StageFacts
  <1>3. stage.rows \in [DOMAIN stage.rows -> Row]
    BY <1>2 DEF Stage, Rows
  <1>4. /\ DOMAIN rows = DOMAIN stage.rows
        /\ rows \in [DOMAIN rows -> Row]
        /\ \A n \in DOMAIN rows : rows[n].desired = stage.rows[n].desired
    BY <1>1, <1>3 DEF Row
  <1>5. r = Moved(was, was.status, was.stage, k, new)
    BY <1>1, <1>2 DEF WithResult, Moved, GoodRollout, RolloutRow, Stage
  <1> HIDE DEF rows
  <1>6. new \in KeptStages(was.baselines)
    BY <1>2, <1>4, RowsKept
  <1> HIDE DEF new
  <1>7. LET q == Moved(was, was.status, was.stage, k, new)
        IN  /\ GoodRollout(q) /\ q.id = was.id /\ q.stage = was.stage
            /\ Len(q.stages) = Len(was.stages)
    BY <1>0, <1>1, <1>6, MovedGood
  <1>8. QED  BY <1>1, <1>5, <1>7

(* recordClusterRolloutACKTx.                                              *)
LEMMA RecordStep ==
    ASSUME RolloutInv, NEW result \in results, recordClusterRolloutACKTx(result)
    PROVE  RolloutInv'
  <1>0. /\ GoodRollout(rollout) /\ rollout.id <= MaxRollouts
        /\ result \in Result /\ results' \subseteq results
        /\ UNCHANGED <<gens, applied, plan, placements, errors, pauses>>
    BY DEF RolloutInv, NodesInv, recordClusterRolloutACKTx
  <1>00. rollout.stage \in 0 .. Len(rollout.stages) /\ Len(rollout.stages) \in Nat
         /\ (rollout.status \in ActiveStatus => rollout.stage # 0)
         /\ DOMAIN rollout.stages = 1 .. Len(rollout.stages)
    BY <1>0 DEF GoodRollout, RolloutRow
  <1>1. ASSUME NEW k \in MatchedStages(result)
        PROVE  LET r == WithResult(rollout, result, k)
               IN  /\ GoodRollout(r) /\ r.id = rollout.id /\ r.stage = rollout.stage
                   /\ k \in 1 .. Len(r.stages)
    BY <1>0, <1>00, <1>1, ResultKept DEF MatchedStages
  <1>2. /\ GoodRollout(rollout') /\ rollout'.id = rollout.id
        /\ planPaused' \in BOOLEAN /\ lastError' \in BOOLEAN
    <2>0. planPaused \in BOOLEAN /\ lastError \in BOOLEAN
      BY DEF RolloutInv, PlanInv
    <2>1. CASE MatchedStages(result) = {}
      BY <1>0, <2>0, <2>1 DEF recordClusterRolloutACKTx, standing
    <2>2. CASE MatchedStages(result) # {}
      <3>1. PICK k \in MatchedStages(result) :
                LET r == WithResult(rollout, result, k)
                IN  IF result.status = "permanent_error" /\ Active
                    THEN /\ rollout' = requestClusterRollbackTx(r, k)
                         /\ planPaused' = TRUE
                         /\ lastError' = TRUE
                    ELSE rollout' = r /\ UNCHANGED standing
        BY <2>2 DEF recordClusterRolloutACKTx
      <3> DEFINE r == WithResult(rollout, result, k)
      <3>2. /\ GoodRollout(r) /\ r.id = rollout.id /\ r.stage = rollout.stage
            /\ k \in 1 .. Len(r.stages)
        BY <1>1
      <3> HIDE DEF r
      <3>3. CASE result.status = "permanent_error" /\ Active
        <4>1. r.stage # 0
          BY <1>00, <3>2, <3>3 DEF Active
        <4>2. rollout' = requestClusterRollbackTx(r, k) /\ planPaused' = TRUE /\ lastError' = TRUE
          BY <3>1, <3>3 DEF r
        <4>3. GoodRollout(requestClusterRollbackTx(r, k)) /\ requestClusterRollbackTx(r, k).id = r.id
          BY <3>2, <4>1, FailFits
        <4>4. QED  BY <3>2, <4>2, <4>3
      <3>4. CASE ~(result.status = "permanent_error" /\ Active)
        <4>1. rollout' = r /\ UNCHANGED standing
          BY <3>1, <3>4 DEF r
        <4>2. QED  BY <2>0, <3>2, <4>1 DEF standing
      <3>5. QED  BY <3>3, <3>4
    <2>3. QED  BY <2>1, <2>2
  <1>3. NodesInv'
    BY <1>0 DEF RolloutInv, NodesInv
  <1>4. PlanInv'
    BY <1>0, <1>2 DEF RolloutInv, PlanInv, plan
  <1>5. rollout'.id <= MaxRollouts
    BY <1>0, <1>2
  <1>6. QED  BY <1>0, <1>2, <1>3, <1>4, <1>5 DEF RolloutInv, plan

LEMMA QuotaStep ==
    ASSUME RolloutInv, NEW n \in Node, NEW exceeded \in SUBSET Forward, QuotaPause(n, exceeded)
    PROVE  RolloutInv'
  <1> DEFINE old == Desired(n)
             forwards == [f \in DOMAIN old.forwards |->
                             IF f \in exceeded
                             THEN [old.forwards[f] EXCEPT !.paused = TRUE, !.version = @ + 1]
                             ELSE old.forwards[f]]
             new == [old EXCEPT !.forwards = forwards]
  <1>0. gens \in Generations /\ gens[n] \in Seq(NodeState) /\ Len(gens[n]) \in Nat
    BY DEF RolloutInv, NodesInv, Generations
  <1>1. old \in NodeState
    BY <1>0, DesiredType
  <1>2. /\ gens' = [gens EXCEPT ![n] = Append(gens[n], new)]
        /\ UNCHANGED <<agents, plan, standing, placements, rollout, errors>>
        /\ pauses' = pauses + 1 /\ pauses < scenario.pauses
    <2>1. gens' = [gens EXCEPT ![n] = Append(gens[n], new)]
      BY DEF QuotaPause
    <2>2. QED  BY <2>1 DEF QuotaPause
  <1> HIDE DEF old
  <1>3. \A f \in DOMAIN old.forwards : f \in Forward /\ old.forwards[f] \in Entry
    BY <1>1, LayoutFacts DEF NodeState
  <1>4. forwards \in [DOMAIN old.forwards -> Entry]
    <2>1. ASSUME NEW e \in Entry
          PROVE  [e EXCEPT !.paused = TRUE, !.version = @ + 1] \in Entry
      <3>1. e.version + 1 \in Nat
        BY DEF Entry
      <3>2. QED  BY <3>1 DEF Entry
    <2>2. QED  BY <1>3, <2>1
  <1>5. forwards \in Layout
    BY <1>3, <1>4 DEF Layout
  <1> HIDE DEF forwards
  <1>6. new \in NodeState
    BY <1>1, <1>5 DEF NodeState
  <1> HIDE DEF new
  <1>7. Append(gens[n], new) \in Seq(NodeState) /\ Len(Append(gens[n], new)) = Len(gens[n]) + 1
    BY <1>0, <1>6
  <1>8. NodesStep
    <2>1. gens' \in Generations
      BY <1>0, <1>2, <1>7 DEF Generations
    <2>2. \A m \in Node : Len(gens[m]) \in Nat /\ gens'[m] = IF m = n THEN Append(gens[n], new)
                                                             ELSE gens[m]
      BY <1>0, <1>2 DEF Generations
    <2>3. ASSUME NEW m \in Node
          PROVE  Len(gens[m]) <= Len(gens'[m])
      <3>1. Len(gens[m]) <= Len(gens[m]) /\ Len(gens[n]) <= Len(Append(gens[n], new))
        BY <1>7, <2>2
      <3>2. CASE m = n
        BY <2>2, <3>1, <3>2
      <3>3. CASE m # n
        BY <2>2, <3>1, <3>3
      <3>4. QED  BY <3>2, <3>3
    <2>4. QED  BY <2>1, <2>3 DEF NodesStep
  <1>9. NodesInv'
    BY <1>2, <1>8, NodesKept DEF RolloutInv
  <1>10. PlanInv'
    BY <1>2 DEF RolloutInv, PlanInv, plan, standing
  <1>11. pauses' \in 0 .. scenario.pauses
    <2>1. pauses \in 0 .. scenario.pauses /\ scenario.pauses \in Nat
      BY ScenarioFacts DEF RolloutInv, PlanInv
    <2>2. pauses + 1 \in 0 .. scenario.pauses
      BY <1>2, <2>1
    <2>3. QED  BY <1>2, <2>2
  <1>12. QED  BY <1>2, <1>9, <1>10, <1>11 DEF RolloutInv, plan

LEMMA RolloutStutter ==
    ASSUME RolloutInv, UNCHANGED vars
    PROVE  RolloutInv'
  BY DEF RolloutInv, PlanInv, NodesInv, vars

LEMMA RolloutInductive == Spec => []RolloutInv
  <1>1. RolloutInv /\ [Next]_vars => RolloutInv'
    BY PlanStep, AdvanceStep, AgentStep, RecordStep, QuotaStep, RolloutStutter DEF Next
  <1>2. QED  BY <1>1, RolloutInit, PTL DEF Spec

(* Plans, generations, rollouts and their rows keep their types, whatever  *)
(* the scheduler chooses, the Agents answer and the quotas pause: the      *)
(* current stage of a rollout exists, and an Agent runs a generation that  *)
(* was published.                                                          *)
THEOREM TypeCorrect == Spec => []TypeOK
  <1>1. RolloutInv => TypeOK
    <2> SUFFICES ASSUME RolloutInv PROVE TypeOK
      OBVIOUS
    <2>1. /\ DOMAIN gens = Node
          /\ \A n \in Node : \A gen \in 1 .. Len(gens[n]) : IsNodeState(gens[n][gen])
      BY NodeStateFacts DEF RolloutInv, NodesInv, Generations
    <2>2. \A p \in Placement : IsPlacement(p)
      BY DEF Placement, IsPlacement, Spot
    <2>3. IsPlacement(placements) /\ IsPlacement(rollout.placements)
      BY <2>2 DEF RolloutInv, PlanInv, GoodRollout, RolloutRow
    <2>4. /\ rollout.id \in 0 .. MaxRollouts /\ rollout.quiet \in BOOLEAN
          /\ rollout.status \in ActiveStatus \cup FinalStatus \cup {"none"}
          /\ rollout.stage \in 0 .. Len(rollout.stages)
      BY RolloutBoundAssumption DEF RolloutInv, GoodRollout, RolloutRow
    <2>5. DOMAIN rollout.baselines = Node /\ \A n \in Node : IsNodeState(rollout.baselines[n])
      BY NodeStateFacts DEF RolloutInv, GoodRollout, RolloutRow, NodeStates
    <2>6. ASSUME NEW k \in DOMAIN rollout.stages
          PROVE  IsStage(rollout.stages[k])
      <3>1. GoodRollout(rollout) /\ k \in 1 .. Len(rollout.stages)
        BY <2>6 DEF RolloutInv, GoodRollout, RolloutRow
      <3>2. /\ rollout.stages[k] \in Stage
            /\ \A n \in DOMAIN rollout.stages[k].rows :
                  n \in Node /\ rollout.stages[k].rows[n] \in Row
        BY <3>1, StageFacts
      <3>3. \A row \in Row : IsRow(row)
        BY NodeStateFacts DEF Row, IsRow
      <3>4. QED  BY <3>2, <3>3 DEF Stage, IsStage, Phase
    <2>7. \A i \in 1 .. Len(revisions) : revisions[i] \in scenario.plans
      BY DEF RolloutInv, PlanInv
    <2>8. QED
      BY <2>1, <2>3, <2>4, <2>5, <2>6, <2>7 DEF TypeOK, RolloutInv, PlanInv, NodesInv
  <1>2. QED  BY <1>1, RolloutInductive, PTL

(* A rollout never resumes what a quota has paused since its plan was      *)
(* written, whichever nodes know of the pause, however often the plan was  *)
(* changed and whatever stages and compensations it goes through           *)
(* (preserveRuntimeLifecycles, BuildRolloutStages,                         *)
(* ensureCompensationStage).                                               *)
THEOREM PauseAlwaysKept == Spec => []PauseKept
  <1>1. RolloutInv => PauseKept
    <2> SUFFICES ASSUME RolloutInv, NEW k \in DOMAIN rollout.stages,
                        NEW n \in DOMAIN rollout.stages[k].rows,
                        NEW f \in IngressAt(rollout.stages[k].rows[n].desired, n)
                 PROVE  LET desired == rollout.stages[k].rows[n].desired
                            had     == rollout.baselines[n]
                        IN  \/ Has(had, f) /\ had.forwards[f] = desired.forwards[f]
                            \/ KeepsPause(rollout.baselines, f, desired.forwards[f])
      BY DEF PauseKept, KeepsPause
    <2>1. GoodRollout(rollout) /\ k \in 1 .. Len(rollout.stages)
      BY DEF RolloutInv, GoodRollout, RolloutRow
    <2>2. rollout.stages[k] \in KeptStages(rollout.baselines)
      BY <2>1, StageFacts
    <2>3. KeptState(rollout.stages[k].rows[n].desired, n, rollout.baselines)
      BY <2>2 DEF KeptStages
    <2>4. QED  BY <2>3 DEF KeptState, IngressAt
  <1>2. QED  BY <1>1, RolloutInductive, PTL

-----------------------------------------------------------------------------
(* What a state is apart from listeners, lifecycles and versions.          *)

Shape(state) == [forwards |-> PlacementOf(state.forwards), links |-> state.links]

LEMMA CompileShape ==
    ASSUME NEW layout \in Layout, NEW n \in Node
    PROVE  Shape(Compile(layout)[n]) = Compile(PlacementOf(layout))[n]
  <1> DEFINE p == PlacementOf(layout)
             mine == {f \in DOMAIN layout : n \in {layout[f].ingress, layout[f].exit}}
             forwards == [f \in mine |-> layout[f]]
             links == UNION {PeersOf(n, layout[f]) : f \in mine}
  <1>1. DOMAIN p = DOMAIN layout
        /\ \A f \in DOMAIN layout : p[f].ingress = layout[f].ingress /\ p[f].exit = layout[f].exit
    BY DEF PlacementOf
  <1>2. {f \in DOMAIN p : n \in {p[f].ingress, p[f].exit}} = mine
    BY <1>1
  <1>3. \A f \in mine : PeersOf(n, p[f]) = PeersOf(n, layout[f])
    BY <1>1 DEF PeersOf
  <1>4. UNION {PeersOf(n, p[f]) : f \in mine} = links
    BY <1>3
  <1>5. PlacementOf(forwards) = [f \in mine |-> p[f]]
    BY DEF PlacementOf
  <1>6. Compile(layout)[n] = [forwards |-> forwards, links |-> links]
    BY DEF Compile
  <1>7. Compile(p)[n] = [forwards |-> [f \in mine |-> p[f]], links |-> links]
    BY <1>2, <1>4 DEF Compile
  <1> HIDE DEF forwards, links, mine, p
  <1>8. QED  BY <1>5, <1>6, <1>7 DEF Shape, p

LEMMA PreservedShape ==
    ASSUME NEW current \in NodeStates, NEW wanted \in NodeStates, NEW n \in Node
    PROVE  Shape(preserveRuntimeLifecycles(current, wanted)[n]) = Shape(wanted[n])
  <1> DEFINE target == preserveRuntimeLifecycles(current, wanted)
             old == wanted[n].forwards
             new == [f \in DOMAIN old |-> Preserved(current, f, old[f])]
  <1>1. target[n] = [wanted[n] EXCEPT !.forwards = new]
    BY DEF preserveRuntimeLifecycles, Preserved
  <1>2. wanted[n] \in NodeState /\ old \in Layout
    BY DEF NodeStates, NodeState
  <1>3. \A f \in DOMAIN old : old[f] \in Entry
    BY <1>2, LayoutFacts
  <1>4. \A f : \A e \in Entry :
            /\ Preserved(current, f, e).ingress = e.ingress
            /\ Preserved(current, f, e).exit = e.exit
            /\ Preserved(current, f, e).port = e.port
    BY DEF Preserved, Entry
  <1>5. PlacementOf(new) = PlacementOf(old)
    BY <1>3, <1>4 DEF PlacementOf
  <1> HIDE DEF new, old
  <1>6. target[n].forwards = new /\ target[n].links = wanted[n].links
    BY <1>1, <1>2 DEF NodeState
  <1>7. QED  BY <1>5, <1>6 DEF Shape, old

-----------------------------------------------------------------------------
(* The way from one set of states to another, stage by stage.  At each     *)
(* step, whichever nodes have taken it, an ingress finds its exit ready.   *)

(* With u at the ingresses and v at the exits every path is up, but for    *)
(* the ports of the forwards in moves.                                     *)
Sound(u, v, moves) ==
    \A n \in Node : \A f \in IngressAt(u[n], n) :
        LET entry == u[n].forwards[f]
            exit  == v[entry.exit]
        IN  entry.exit # NoNode =>
                /\ Has(exit, f)
                /\ exit.forwards[f].exit = entry.exit
                /\ exit.forwards[f].ingress = n
                /\ exit.forwards[f].port = entry.port \/ f \in moves
                /\ n \in exit.links
                /\ entry.exit \in u[n].links

Coherent(u, v, moves) ==
    /\ Sound(u, u, moves)
    /\ Sound(u, v, moves)
    /\ Sound(v, u, moves)
    /\ Sound(v, v, moves)

(* w goes through the stages.                                              *)
Follows(w, stages, moves) ==
    /\ w \in [0 .. Len(stages) -> NodeStates]
    /\ \A k \in 1 .. Len(stages) :
          /\ stages[k].phase # "compensate"
          /\ stages[k].phase = "bake" => DOMAIN stages[k].desired = {}
          /\ \A n \in Node :
                w[k][n] = IF n \in DOMAIN stages[k].desired THEN stages[k].desired[n]
                          ELSE w[k - 1][n]
          /\ Coherent(w[k - 1], w[k], moves)

Leads(stages, from, to, moves) ==
    \E w : Follows(w, stages, moves) /\ w[0] = from /\ w[Len(stages)] = to

LEMMA StageLeads ==
    ASSUME NEW from \in NodeStates, NEW to \in NodeStates, NEW moves, Coherent(from, to, moves),
           NEW phase \in {"prepare", "promote", "cleanup"}
    PROVE  Leads(StageOf(phase, from, to), from, to, moves)
  <1>1. CASE from = to
    <2> DEFINE w == [k \in 0 .. 0 |-> from]
    <2>1. StageOf(phase, from, to) = <<>>
      BY <1>1 DEF StageOf
    <2>2. Follows(w, <<>>, moves) /\ w[0] = from /\ w[Len(<<>>)] = to
      BY <1>1 DEF Follows
    <2>3. QED  BY <2>1, <2>2 DEF Leads
  <1>2. CASE from # to
    <2> DEFINE w == [k \in 0 .. 1 |-> IF k = 0 THEN from ELSE to]
               desired == [n \in changedStates(from, to) |-> to[n]]
               stage == [phase |-> phase, desired |-> desired]
    <2>1. StageOf(phase, from, to) = <<stage>>
      BY <1>2 DEF StageOf
    <2>2. \A n \in Node : to[n] = IF n \in DOMAIN desired THEN desired[n] ELSE from[n]
      BY DEF changedStates
    <2>3. stage.desired = desired /\ stage.phase \notin {"bake", "compensate"}
      OBVIOUS
    <2> HIDE DEF desired, stage
    <2>4. \A a : Len(<<a>>) = 1 /\ <<a>>[1] = a
      OBVIOUS
    <2>5. Len(<<stage>>) = 1 /\ <<stage>>[1] = stage
      BY <2>4
    <2>6. w[0] = from /\ w[1] = to /\ w \in [0 .. 1 -> NodeStates]
      OBVIOUS
    <2> HIDE DEF w
    <2>7. Follows(w, <<stage>>, moves)
      BY <2>2, <2>3, <2>5, <2>6 DEF Follows
    <2>8. QED  BY <2>1, <2>5, <2>6, <2>7 DEF Leads
  <1>3. QED  BY <1>1, <1>2

LEMMA BakeLeads ==
    ASSUME NEW state \in NodeStates, NEW moves, Sound(state, state, moves)
    PROVE  Leads(<<Bake>>, state, state, moves)
  <1> DEFINE w == [k \in 0 .. 1 |-> state]
  <1>1. \A a : Len(<<a>>) = 1 /\ <<a>>[1] = a
    OBVIOUS
  <1>2. /\ Len(<<Bake>>) = 1 /\ <<Bake>>[1] = Bake
        /\ DOMAIN Bake.desired = {} /\ Bake.phase = "bake"
    BY <1>1 DEF Bake
  <1>3. w[0] = state /\ w[1] = state /\ w \in [0 .. 1 -> NodeStates]
    OBVIOUS
  <1> HIDE DEF w
  <1>4. Follows(w, <<Bake>>, moves)
    BY <1>2, <1>3 DEF Follows, Coherent
  <1>5. QED  BY <1>2, <1>3, <1>4 DEF Leads

LEMMA ThenLeads ==
    ASSUME NEW T, NEW s \in Seq(T), NEW t \in Seq(T), NEW a, NEW b, NEW c, NEW moves,
           Leads(s, a, b, moves), Leads(t, b, c, moves)
    PROVE  Leads(s \o t, a, c, moves)
  <1>1. PICK u : Follows(u, s, moves) /\ u[0] = a /\ u[Len(s)] = b
    BY DEF Leads
  <1>2. PICK v : Follows(v, t, moves) /\ v[0] = b /\ v[Len(t)] = c
    BY DEF Leads
  <1> DEFINE N == Len(s)
             M == Len(t)
             w == [k \in 0 .. N + M |-> IF k <= N THEN u[k] ELSE v[k - N]]
  <1>3. /\ N \in Nat /\ M \in Nat /\ Len(s \o t) = N + M
        /\ \A k \in 1 .. N : (s \o t)[k] = s[k]
        /\ \A k \in N + 1 .. N + M : (s \o t)[k] = t[k - N]
    OBVIOUS
  <1>4. /\ u \in [0 .. N -> NodeStates] /\ v \in [0 .. M -> NodeStates]
        /\ \A k \in 1 .. N :
              /\ s[k].phase # "compensate"
              /\ s[k].phase = "bake" => DOMAIN s[k].desired = {}
              /\ \A n \in Node : u[k][n] = IF n \in DOMAIN s[k].desired THEN s[k].desired[n]
                                           ELSE u[k - 1][n]
              /\ Coherent(u[k - 1], u[k], moves)
        /\ \A k \in 1 .. M :
              /\ t[k].phase # "compensate"
              /\ t[k].phase = "bake" => DOMAIN t[k].desired = {}
              /\ \A n \in Node : v[k][n] = IF n \in DOMAIN t[k].desired THEN t[k].desired[n]
                                           ELSE v[k - 1][n]
              /\ Coherent(v[k - 1], v[k], moves)
    BY <1>1, <1>2 DEF Follows
  <1> HIDE DEF N, M
  <1>5. \A k \in 0 .. N : w[k] = u[k]
    BY <1>3
  <1>6. \A k \in N .. N + M : w[k] = v[k - N]
    <2>1. ASSUME NEW k \in N .. N + M PROVE w[k] = v[k - N]
      <3>1. CASE k = N
        BY <1>1, <1>2, <1>3, <3>1 DEF N
      <3>2. CASE k # N
        BY <1>3, <3>2
      <3>3. QED  BY <3>1, <3>2
    <2>2. QED  BY <2>1
  <1>7. w \in [0 .. N + M -> NodeStates]
    BY <1>3, <1>4
  <1> HIDE DEF w
  <1>8. ASSUME NEW k \in 1 .. N + M
        PROVE  LET stage == (s \o t)[k]
               IN  /\ stage.phase # "compensate"
                   /\ stage.phase = "bake" => DOMAIN stage.desired = {}
                   /\ \A n \in Node : w[k][n] = IF n \in DOMAIN stage.desired THEN stage.desired[n]
                                                ELSE w[k - 1][n]
                   /\ Coherent(w[k - 1], w[k], moves)
    <2>1. CASE k \in 1 .. N
      <3>0. k \in 0 .. N /\ k - 1 \in 0 .. N
        BY <1>3, <2>1
      <3>1. w[k] = u[k] /\ w[k - 1] = u[k - 1] /\ (s \o t)[k] = s[k]
        BY ONLY <1>3, <1>5, <2>1, <3>0
      <3>2. QED  BY <1>4, <2>1, <3>1
    <2>2. CASE k \in N + 1 .. N + M
      <3>1. /\ k \in N .. N + M /\ k - 1 \in N .. N + M /\ k - N \in 1 .. M
            /\ (k - 1) - N = (k - N) - 1
        BY <1>3, <2>2
      <3>2. w[k] = v[k - N] /\ w[k - 1] = v[(k - N) - 1] /\ (s \o t)[k] = t[k - N]
        BY <1>3, <1>6, <2>2, <3>1
      <3>3. QED  BY <1>4, <3>1, <3>2
    <2>3. QED  BY <1>3, <1>8, <2>1, <2>2
  <1>9. Follows(w, s \o t, moves)
    BY <1>3, <1>7, <1>8 DEF Follows
  <1>10. w[0] = a /\ w[N + M] = c
    <2>1. 0 \in 0 .. N /\ N + M \in N .. N + M /\ (N + M) - N = M
      BY <1>3
    <2>2. QED  BY <1>1, <1>2, <1>5, <1>6, <2>1 DEF M
  <1>11. QED  BY <1>3, <1>9, <1>10 DEF Leads

-----------------------------------------------------------------------------
(* What the nodes carry, forward by forward.                               *)

Carries(state, n, f, spot) ==
    /\ Has(state, f)
    /\ state.forwards[f].ingress = spot.ingress
    /\ state.forwards[f].exit = spot.exit
    /\ state.forwards[f].port = spot.port
    /\ PeersOf(n, spot) \subseteq state.links

Ends(p, f) == {p[f].ingress, p[f].exit}

(* The nodes carry the forwards as they are placed by p, maybe with links  *)
(* they no longer need.                                                    *)
Serves(u, p) ==
    \A n \in Node : \A f \in Forward :
        /\ Has(u[n], f) => f \in DOMAIN p /\ n \in Ends(p, f)
        /\ f \in DOMAIN p /\ n \in Ends(p, f) => Carries(u[n], n, f, p[f])

Apart(p) == \A f \in DOMAIN p : p[f].ingress # p[f].exit

LEMMA PlacementFacts ==
    ASSUME NEW p \in Placement, NEW f \in DOMAIN p
    PROVE  /\ f \in Forward /\ p[f].ingress \in Node /\ p[f].exit \in Node \cup {NoNode}
           /\ p[f] \in Spot
  BY DEF Placement, Spot

LEMMA ShapeServes ==
    ASSUME NEW u \in NodeStates, NEW p \in Placement,
           \A n \in Node : Shape(u[n]) = Compile(p)[n]
    PROVE  Serves(u, p)
  <1> SUFFICES ASSUME NEW n \in Node, NEW f \in Forward
               PROVE  /\ Has(u[n], f) => f \in DOMAIN p /\ n \in Ends(p, f)
                      /\ f \in DOMAIN p /\ n \in Ends(p, f) => Carries(u[n], n, f, p[f])
    BY DEF Serves
  <1> DEFINE mine == {g \in DOMAIN p : n \in {p[g].ingress, p[g].exit}}
             forwards == [g \in mine |-> p[g]]
             links == UNION {PeersOf(n, p[g]) : g \in mine}
  <1>1. Compile(p)[n] = [forwards |-> forwards, links |-> links]
    BY DEF Compile
  <1>2. PlacementOf(u[n].forwards) = forwards /\ u[n].links = links
    <2>1. Shape(u[n]).forwards = Compile(p)[n].forwards /\ Shape(u[n]).links = Compile(p)[n].links
      OBVIOUS
    <2> HIDE DEF forwards, links
    <2>2. QED  BY <1>1, <2>1 DEF Shape
  <1>3. DOMAIN u[n].forwards = mine
    BY <1>2 DEF PlacementOf
  <1>4. ASSUME f \in mine
        PROVE  /\ u[n].forwards[f].ingress = p[f].ingress
               /\ u[n].forwards[f].exit = p[f].exit
               /\ u[n].forwards[f].port = p[f].port
    <2>1. PlacementOf(u[n].forwards)[f] = p[f]
      BY <1>2, <1>4
    <2>2. PlacementOf(u[n].forwards)[f]
            = [ingress |-> u[n].forwards[f].ingress, exit |-> u[n].forwards[f].exit,
               port |-> u[n].forwards[f].port]
      BY <1>3, <1>4 DEF PlacementOf
    <2>3. QED  BY <2>1, <2>2
  <1>5. f \in mine => PeersOf(n, p[f]) \subseteq u[n].links
    BY <1>2
  <1>6. f \in mine <=> f \in DOMAIN p /\ n \in Ends(p, f)
    BY DEF Ends
  <1>7. QED  BY <1>3, <1>4, <1>5, <1>6 DEF Has, Carries

(* f enters u where p has it enter.                                        *)
InBy(u, p, f) ==
    \A n \in Node : f \in IngressAt(u[n], n) =>
        f \in DOMAIN p /\ p[f].ingress = n /\ Carries(u[n], n, f, p[f])

(* v is ready at the exit p has for f.                                     *)
OutBy(v, p, f, moves) ==
    f \in DOMAIN p /\ p[f].exit # NoNode =>
        \E spot : /\ Carries(v[p[f].exit], p[f].exit, f, spot)
                  /\ spot.ingress = p[f].ingress /\ spot.exit = p[f].exit
                  /\ spot.port = p[f].port \/ f \in moves

LEMMA BySound ==
    ASSUME NEW u \in NodeStates, NEW v \in NodeStates, NEW P, NEW moves,
           \A p \in P : p \in Placement /\ Apart(p),
           \A f \in Forward : \E p \in P : InBy(u, p, f) /\ OutBy(v, p, f, moves)
    PROVE  Sound(u, v, moves)
  <1> SUFFICES ASSUME NEW n \in Node, NEW f \in IngressAt(u[n], n),
                      u[n].forwards[f].exit # NoNode
               PROVE  LET entry == u[n].forwards[f]
                          exit  == v[entry.exit]
                      IN  /\ Has(exit, f)
                          /\ exit.forwards[f].exit = entry.exit
                          /\ exit.forwards[f].ingress = n
                          /\ exit.forwards[f].port = entry.port \/ f \in moves
                          /\ n \in exit.links
                          /\ entry.exit \in u[n].links
    BY DEF Sound
  <1>1. f \in Forward
    BY LayoutFacts DEF IngressAt, NodeStates, NodeState
  <1>2. PICK p \in P : InBy(u, p, f) /\ OutBy(v, p, f, moves)
    BY <1>1
  <1>3. f \in DOMAIN p /\ p[f].ingress = n /\ Carries(u[n], n, f, p[f])
    BY <1>2 DEF InBy
  <1>4. /\ u[n].forwards[f].exit = p[f].exit /\ u[n].forwards[f].port = p[f].port
        /\ p[f].ingress # p[f].exit
        /\ p[f].exit \in u[n].links
    BY <1>3 DEF Carries, Apart, PeersOf
  <1>5. PICK spot : /\ Carries(v[p[f].exit], p[f].exit, f, spot)
                    /\ spot.ingress = p[f].ingress /\ spot.exit = p[f].exit
                    /\ spot.port = p[f].port \/ f \in moves
    BY <1>2, <1>3, <1>4 DEF OutBy
  <1>6. n \in v[p[f].exit].links
    BY <1>3, <1>4, <1>5 DEF Carries, PeersOf
  <1>7. QED  BY <1>3, <1>4, <1>5, <1>6 DEF Carries

LEMMA ServesBy ==
    ASSUME NEW u \in NodeStates, NEW p \in Placement, Apart(p), Serves(u, p), NEW f \in Forward,
           NEW moves
    PROVE  InBy(u, p, f) /\ OutBy(u, p, f, moves)
  <1>1. ASSUME NEW n \in Node, f \in IngressAt(u[n], n)
        PROVE  f \in DOMAIN p /\ p[f].ingress = n /\ Carries(u[n], n, f, p[f])
    <2>1. Has(u[n], f) /\ u[n].forwards[f].ingress = n
      BY <1>1 DEF IngressAt, Has
    <2>2. f \in DOMAIN p /\ Carries(u[n], n, f, p[f])
      BY <2>1 DEF Serves
    <2>3. QED  BY <2>1, <2>2 DEF Carries
  <1>2. ASSUME f \in DOMAIN p, p[f].exit # NoNode
        PROVE  Carries(u[p[f].exit], p[f].exit, f, p[f])
    BY <1>2, PlacementFacts DEF Serves, Ends
  <1>3. QED  BY <1>1, <1>2 DEF InBy, OutBy

-----------------------------------------------------------------------------
(* What a patch leaves a node with.                                        *)
LEMMA PatchCarries ==
    ASSUME NEW state \in NodeState, NEW final \in NodeState, NEW drop,
           NEW put \in SUBSET DOMAIN final.forwards, NEW n, NEW f
    PROVE  LET new == Patch(state, final, drop, put)
           IN  /\ f \in put => \A spot : Carries(final, n, f, spot) => Carries(new, n, f, spot)
               /\ f \notin drop \cup put =>
                     \A spot : Carries(state, n, f, spot) => Carries(new, n, f, spot)
               /\ f \notin put /\ Has(new, f) => f \notin drop /\ Has(state, f)
  <1> DEFINE new == Patch(state, final, drop, put)
             D == (DOMAIN state.forwards \ drop) \cup put
             forwards == [g \in D |-> IF g \in put THEN final.forwards[g] ELSE state.forwards[g]]
             links == state.links \cup final.links
  <1>1. CASE drop \cup put = {}
    <2>1. new = state
      BY <1>1 DEF Patch
    <2>2. QED  BY <1>1, <2>1
  <1>2. CASE drop \cup put # {}
    <2>1. new = [forwards |-> forwards, links |-> links]
      BY <1>2 DEF Patch, withConservativeResources
    <2>2. new.forwards = forwards /\ new.links = links
      BY <2>1
    <2>3. /\ f \in put => f \in DOMAIN forwards /\ forwards[f] = final.forwards[f]
          /\ f \notin drop \cup put /\ f \in DOMAIN state.forwards =>
                f \in DOMAIN forwards /\ forwards[f] = state.forwards[f]
          /\ f \notin put /\ f \in DOMAIN forwards => f \notin drop /\ f \in DOMAIN state.forwards
      OBVIOUS
    <2> HIDE DEF new, forwards
    <2>4. /\ f \in put => \A spot : Carries(final, n, f, spot) => Carries(new, n, f, spot)
          /\ f \notin drop \cup put =>
                \A spot : Carries(state, n, f, spot) => Carries(new, n, f, spot)
          /\ f \notin put /\ Has(new, f) => f \notin drop /\ Has(state, f)
      BY <2>2, <2>3 DEF Carries, Has
    <2>5. QED  BY <2>4 DEF new
  <1>3. QED  BY <1>1, <1>2

(* A wave from the placements p to q, of which the selected forwards are   *)
(* moved.  No node changes its role in a forward, and an exit that is kept *)
(* keeps its ingress.                                                      *)
SafeMove(p, q) ==
    \A f \in DOMAIN p \cap DOMAIN q :
        /\ p[f].ingress # q[f].exit /\ p[f].exit # q[f].ingress
        /\ p[f].exit # NoNode /\ p[f].exit = q[f].exit => p[f].ingress = q[f].ingress

Wave(s, t, p, q, moves) ==
    /\ s \in NodeStates /\ p \in Placement /\ Apart(p) /\ Serves(s, p)
    /\ t \in NodeStates /\ q \in Placement /\ Apart(q) /\ Serves(t, q)
    /\ SafeMove(p, q)
    /\ \A f \in DOMAIN p \cap DOMAIN q :
          p[f].exit = q[f].exit /\ p[f].port # q[f].port => f \in moves

Agree(p, q, f) == (f \in DOMAIN p <=> f \in DOMAIN q) /\ (f \in DOMAIN p => p[f] = q[f])

LEMMA AgreeBy ==
    ASSUME NEW p, NEW q, NEW f, Agree(p, q, f), NEW u, NEW moves
    PROVE  /\ InBy(u, p, f) => InBy(u, q, f)
           /\ OutBy(u, p, f, moves) => OutBy(u, q, f, moves)
  BY DEF Agree, InBy, OutBy

LEMMA RolesAt ==
    ASSUME NEW u, NEW p, Serves(u, p), NEW n \in Node, NEW f \in Forward
    PROVE  /\ f \in IngressAt(u[n], n) <=> f \in DOMAIN p /\ p[f].ingress = n
           /\ f \in ExitAt(u[n], n) <=> f \in DOMAIN p /\ p[f].exit = n
  BY DEF Serves, Ends, Carries, IngressAt, ExitAt, Has

LEMMA WaveTypes ==
    ASSUME NEW s \in NodeStates, NEW t \in NodeStates, NEW S, NEW exact \in BOOLEAN
    PROVE  LET P == Prepare(s, t, S)
               Q == Promote(s, P, t, S)
           IN  /\ P \in NodeStates /\ Q \in NodeStates
               /\ Cleanup(s, Q, t, S, exact) \in NodeStates
  <1> DEFINE P == Prepare(s, t, S)
             Q == Promote(s, P, t, S)
  <1>1. Between(s, s, t)
    BY DEF Between, Mixes, Has
  <1>2. Between(P, s, t)
    BY <1>1, WaveMixes
  <1> HIDE DEF P
  <1>3. Between(Q, s, t)
    BY <1>1, <1>2, WaveMixes
  <1> HIDE DEF Q
  <1>4. Between(Cleanup(s, Q, t, S, exact), s, t)
    BY <1>1, <1>3, WaveMixes
  <1>5. QED  BY <1>2, <1>3, <1>4 DEF Between, P, Q

LEMMA PrepareCarries ==
    ASSUME NEW s \in NodeStates, NEW t \in NodeStates, NEW q, Serves(t, q), NEW S,
           NEW n \in Node, NEW f \in Forward
    PROVE  LET P == Prepare(s, t, S)
               ready == f \in S /\ f \in DOMAIN q /\ q[f].exit = n
           IN  /\ ready => Carries(P[n], n, f, q[f])
               /\ ~ready => \A spot : Carries(s[n], n, f, spot) => Carries(P[n], n, f, spot)
               /\ ~ready /\ Has(P[n], f) => Has(s[n], f)
  <1> DEFINE put == ExitAt(t[n], n) \cap S
             x == Prepare(s, t, S)[n]
  <1>1. x = Patch(s[n], t[n], {}, put)
    BY DEF Prepare
  <1>2. s[n] \in NodeState /\ t[n] \in NodeState /\ put \in SUBSET DOMAIN t[n].forwards
    BY DEF NodeStates, ExitAt
  <1>3. f \in put <=> f \in S /\ f \in DOMAIN q /\ q[f].exit = n
    BY RolesAt
  <1>4. f \in put => Carries(t[n], n, f, q[f])
    BY <1>3 DEF Serves, Ends
  <1> HIDE DEF put, x
  <1>5. /\ f \in put => \A spot : Carries(t[n], n, f, spot) => Carries(x, n, f, spot)
        /\ f \notin {} \cup put => \A spot : Carries(s[n], n, f, spot) => Carries(x, n, f, spot)
        /\ f \notin put /\ Has(x, f) => f \notin {} /\ Has(s[n], f)
    BY <1>1, <1>2, PatchCarries
  <1>6. QED  BY <1>3, <1>4, <1>5 DEF x

LEMMA PromoteCarries ==
    ASSUME NEW s \in NodeStates, NEW t \in NodeStates, NEW P \in NodeStates,
           NEW p, NEW q, Serves(s, p), Serves(t, q), NEW S, NEW n \in Node, NEW f \in Forward
    PROVE  LET Q == Promote(s, P, t, S)
               new == f \in S /\ f \in DOMAIN q /\ q[f].ingress = n
               old == f \in S /\ f \in DOMAIN p /\ p[f].ingress = n
           IN  /\ new => Carries(Q[n], n, f, q[f])
               /\ ~new /\ ~old => \A spot : Carries(P[n], n, f, spot) => Carries(Q[n], n, f, spot)
               /\ ~new /\ Has(Q[n], f) => ~old /\ Has(P[n], f)
  <1> DEFINE put == IngressAt(t[n], n) \cap S
             drop == IngressAt(s[n], n) \cap S
             x == Promote(s, P, t, S)[n]
  <1>1. x = Patch(P[n], t[n], drop, put)
    BY DEF Promote
  <1>2. P[n] \in NodeState /\ t[n] \in NodeState /\ put \in SUBSET DOMAIN t[n].forwards
    BY DEF NodeStates, IngressAt
  <1>3. /\ f \in put <=> f \in S /\ f \in DOMAIN q /\ q[f].ingress = n
        /\ f \in drop <=> f \in S /\ f \in DOMAIN p /\ p[f].ingress = n
    BY RolesAt
  <1>4. f \in put => Carries(t[n], n, f, q[f])
    BY <1>3 DEF Serves, Ends
  <1> HIDE DEF put, drop, x
  <1>5. /\ f \in put => \A spot : Carries(t[n], n, f, spot) => Carries(x, n, f, spot)
        /\ f \notin drop \cup put => \A spot : Carries(P[n], n, f, spot) => Carries(x, n, f, spot)
        /\ f \notin put /\ Has(x, f) => f \notin drop /\ Has(P[n], f)
    BY <1>1, <1>2, PatchCarries
  <1>6. QED  BY <1>3, <1>4, <1>5 DEF x

LEMMA CleanupCarries ==
    ASSUME NEW s \in NodeStates, NEW t \in NodeStates, NEW Q \in NodeStates,
           NEW p, NEW q, Serves(s, p), Serves(t, q), NEW S, NEW n \in Node, NEW f \in Forward
    PROVE  LET R == Cleanup(s, Q, t, S, FALSE)
               new == f \in S /\ f \in DOMAIN q /\ q[f].exit = n
               old == f \in S /\ f \in DOMAIN p /\ p[f].exit = n
           IN  /\ new => Carries(R[n], n, f, q[f])
               /\ ~new /\ ~old => \A spot : Carries(Q[n], n, f, spot) => Carries(R[n], n, f, spot)
               /\ ~new /\ Has(R[n], f) => ~old /\ Has(Q[n], f)
  <1> DEFINE put == ExitAt(t[n], n) \cap S
             drop == ExitAt(s[n], n) \cap S
             x == Cleanup(s, Q, t, S, FALSE)[n]
  <1>1. x = Patch(Q[n], t[n], drop, put)
    BY DEF Cleanup
  <1>2. Q[n] \in NodeState /\ t[n] \in NodeState /\ put \in SUBSET DOMAIN t[n].forwards
    BY DEF NodeStates, ExitAt
  <1>3. /\ f \in put <=> f \in S /\ f \in DOMAIN q /\ q[f].exit = n
        /\ f \in drop <=> f \in S /\ f \in DOMAIN p /\ p[f].exit = n
    BY RolesAt
  <1>4. f \in put => Carries(t[n], n, f, q[f])
    BY <1>3 DEF Serves, Ends
  <1> HIDE DEF put, drop, x
  <1>5. /\ f \in put => \A spot : Carries(t[n], n, f, spot) => Carries(x, n, f, spot)
        /\ f \notin drop \cup put => \A spot : Carries(Q[n], n, f, spot) => Carries(x, n, f, spot)
        /\ f \notin put /\ Has(x, f) => f \notin drop /\ Has(Q[n], f)
    BY <1>1, <1>2, PatchCarries
  <1>6. QED  BY <1>3, <1>4, <1>5 DEF x

(* Where the selected forwards are between the stages of a wave.           *)
LEMMA PreparedBy ==
    ASSUME NEW s, NEW t, NEW p, NEW q, NEW moves, Wave(s, t, p, q, moves), NEW S,
           NEW f \in Forward
    PROVE  LET P == Prepare(s, t, S)
           IN  /\ InBy(P, p, f) /\ OutBy(P, p, f, moves)
               /\ f \in S => OutBy(P, q, f, moves)
  <1> DEFINE P == Prepare(s, t, S)
             ready(n) == f \in S /\ f \in DOMAIN q /\ q[f].exit = n
  <1>0. /\ s \in NodeStates /\ p \in Placement /\ Apart(p) /\ Serves(s, p)
        /\ t \in NodeStates /\ q \in Placement /\ Apart(q) /\ Serves(t, q)
        /\ SafeMove(p, q)
    BY DEF Wave
  <1>1. \A n \in Node :
            /\ ready(n) => Carries(P[n], n, f, q[f])
            /\ ~ready(n) => \A spot : Carries(s[n], n, f, spot) => Carries(P[n], n, f, spot)
            /\ ~ready(n) /\ Has(P[n], f) => Has(s[n], f)
    BY <1>0, PrepareCarries
  <1> HIDE DEF P
  <1>2. ASSUME NEW n \in Node, f \in IngressAt(P[n], n)
        PROVE  f \in DOMAIN p /\ p[f].ingress = n /\ Carries(P[n], n, f, p[f])
    <2>1. Has(P[n], f) /\ P[n].forwards[f].ingress = n
      BY <1>2 DEF IngressAt, Has
    <2>2. ~ready(n)
      BY <1>0, <1>1, <2>1 DEF Carries, Apart
    <2>3. f \in DOMAIN p /\ Carries(s[n], n, f, p[f])
      BY <1>0, <1>1, <2>1, <2>2 DEF Serves
    <2>4. Carries(P[n], n, f, p[f])
      BY <1>1, <2>2, <2>3
    <2>5. QED  BY <2>1, <2>3, <2>4 DEF Carries
  <1>3. ASSUME f \in DOMAIN p, p[f].exit # NoNode
        PROVE  \E spot : /\ Carries(P[p[f].exit], p[f].exit, f, spot)
                         /\ spot.ingress = p[f].ingress /\ spot.exit = p[f].exit
                         /\ spot.port = p[f].port \/ f \in moves
    <2> DEFINE x == p[f].exit
    <2>1. x \in Node /\ Carries(s[x], x, f, p[f])
      BY <1>0, <1>3, PlacementFacts DEF Serves, Ends
    <2>2. CASE ready(x)
      <3>1. q[f].ingress = p[f].ingress /\ q[f].exit = p[f].exit
        BY <1>0, <1>3, <2>2 DEF SafeMove
      <3>2. q[f].port = p[f].port \/ f \in moves
        BY <1>3, <2>2 DEF Wave
      <3>3. Carries(P[x], x, f, q[f])
        BY <1>1, <2>1, <2>2
      <3>4. QED  BY <3>1, <3>2, <3>3
    <2>3. CASE ~ready(x)
      <3>1. Carries(P[x], x, f, p[f])
        BY <1>1, <2>1, <2>3
      <3>2. QED  BY <3>1
    <2>4. QED  BY <2>2, <2>3
  <1>4. ASSUME f \in S, f \in DOMAIN q, q[f].exit # NoNode
        PROVE  Carries(P[q[f].exit], q[f].exit, f, q[f])
    <2>1. q[f].exit \in Node
      BY <1>0, <1>4, PlacementFacts
    <2>2. QED  BY <1>1, <1>4, <2>1
  <1>5. InBy(P, p, f) /\ OutBy(P, p, f, moves) /\ (f \in S => OutBy(P, q, f, moves))
    BY <1>2, <1>3, <1>4 DEF InBy, OutBy
  <1>6. QED  BY <1>5 DEF P

LEMMA PromotedBy ==
    ASSUME NEW s, NEW t, NEW p, NEW q, NEW moves, Wave(s, t, p, q, moves), NEW S,
           NEW f \in Forward
    PROVE  LET Q == Promote(s, Prepare(s, t, S), t, S)
           IN  /\ OutBy(Q, p, f, moves)
               /\ f \in S => InBy(Q, q, f) /\ OutBy(Q, q, f, moves)
               /\ f \notin S => InBy(Q, p, f)
               /\ \A n \in Node : /\ f \in S /\ Has(Q[n], f) =>
                                       \/ f \in DOMAIN q /\ n \in Ends(q, f)
                                       \/ f \in DOMAIN p /\ n = p[f].exit
                                  /\ f \in S /\ f \in DOMAIN q /\ n \in Ends(q, f) =>
                                       Carries(Q[n], n, f, q[f])
                                  /\ f \notin S /\ Has(Q[n], f) => f \in DOMAIN p /\ n \in Ends(p, f)
                                  /\ f \notin S /\ f \in DOMAIN p /\ n \in Ends(p, f) =>
                                       Carries(Q[n], n, f, p[f])
  <1> DEFINE P == Prepare(s, t, S)
             Q == Promote(s, P, t, S)
             ready(n) == f \in S /\ f \in DOMAIN q /\ q[f].exit = n
             new(n) == f \in S /\ f \in DOMAIN q /\ q[f].ingress = n
             old(n) == f \in S /\ f \in DOMAIN p /\ p[f].ingress = n
  <1>0. /\ s \in NodeStates /\ p \in Placement /\ Apart(p) /\ Serves(s, p)
        /\ t \in NodeStates /\ q \in Placement /\ Apart(q) /\ Serves(t, q)
        /\ SafeMove(p, q)
    BY DEF Wave
  <1>1. \A n \in Node :
            /\ ready(n) => Carries(P[n], n, f, q[f])
            /\ ~ready(n) => \A spot : Carries(s[n], n, f, spot) => Carries(P[n], n, f, spot)
            /\ ~ready(n) /\ Has(P[n], f) => Has(s[n], f)
    BY <1>0, PrepareCarries
  <1>2. P \in NodeStates
    BY <1>0, WaveTypes
  <1>3. OutBy(P, p, f, moves)
    BY PreparedBy
  <1> HIDE DEF P
  <1>4. \A n \in Node :
            /\ new(n) => Carries(Q[n], n, f, q[f])
            /\ ~new(n) /\ ~old(n) =>
                  \A spot : Carries(P[n], n, f, spot) => Carries(Q[n], n, f, spot)
            /\ ~new(n) /\ Has(Q[n], f) => ~old(n) /\ Has(P[n], f)
    BY <1>0, <1>2, PromoteCarries
  <1> HIDE DEF Q
  <1>5. ASSUME NEW n \in Node
        PROVE  /\ f \in S /\ f \in DOMAIN q /\ n \in Ends(q, f) => Carries(Q[n], n, f, q[f])
               /\ f \in DOMAIN p /\ n \in Ends(p, f) /\ f \notin S => Carries(Q[n], n, f, p[f])
    <2>1. ASSUME f \in S, f \in DOMAIN q, n = q[f].exit
          PROVE  Carries(Q[n], n, f, q[f])
      <3>1. ~new(n) /\ ~old(n)
        BY <1>0, <2>1 DEF Apart, SafeMove
      <3>2. QED  BY <1>1, <1>4, <1>5, <2>1, <3>1
    <2>2. ASSUME f \in DOMAIN p, n \in Ends(p, f), f \notin S
          PROVE  Carries(Q[n], n, f, p[f])
      <3>1. Carries(s[n], n, f, p[f])
        BY <1>0, <1>5, <2>2 DEF Serves
      <3>2. QED  BY <1>1, <1>4, <1>5, <2>2, <3>1
    <2>3. QED  BY <1>4, <2>1, <2>2 DEF Ends
  <1>6. ASSUME NEW n \in Node, Has(Q[n], f)
        PROVE  /\ f \in S => \/ f \in DOMAIN q /\ n \in Ends(q, f)
                             \/ /\ f \in DOMAIN p /\ n = p[f].exit
                                /\ Carries(Q[n], n, f, p[f])
               /\ f \notin S => f \in DOMAIN p /\ n \in Ends(p, f)
    <2>1. ASSUME ~new(n), ~ready(n)
          PROVE  /\ f \in DOMAIN p /\ n \in Ends(p, f)
                 /\ Carries(Q[n], n, f, p[f]) /\ ~old(n)
      <3>1. ~old(n) /\ Has(s[n], f)
        BY <1>1, <1>4, <1>6, <2>1
      <3>2. f \in DOMAIN p /\ n \in Ends(p, f) /\ Carries(s[n], n, f, p[f])
        BY <1>0, <3>1 DEF Serves
      <3>3. QED  BY <1>1, <1>4, <2>1, <3>1, <3>2
    <2>2. QED  BY <2>1 DEF Ends
  <1>7. f \in S => InBy(Q, q, f)
    <2> SUFFICES ASSUME f \in S, NEW n \in Node, f \in IngressAt(Q[n], n)
                 PROVE  f \in DOMAIN q /\ q[f].ingress = n /\ Carries(Q[n], n, f, q[f])
      BY DEF InBy
    <2>1. Has(Q[n], f) /\ Q[n].forwards[f].ingress = n
      BY DEF IngressAt, Has
    <2>2. f \in DOMAIN q /\ n \in Ends(q, f)
      BY <1>0, <1>6, <2>1 DEF Carries, Apart
    <2>3. Carries(Q[n], n, f, q[f])
      BY <1>5, <2>2
    <2>4. QED  BY <2>1, <2>2, <2>3 DEF Carries
  <1>8. f \notin S => InBy(Q, p, f)
    <2> SUFFICES ASSUME f \notin S, NEW n \in Node, f \in IngressAt(Q[n], n)
                 PROVE  f \in DOMAIN p /\ p[f].ingress = n /\ Carries(Q[n], n, f, p[f])
      BY DEF InBy
    <2>1. Has(Q[n], f) /\ Q[n].forwards[f].ingress = n
      BY DEF IngressAt, Has
    <2>2. f \in DOMAIN p /\ n \in Ends(p, f)
      BY <1>6, <2>1
    <2>3. Carries(Q[n], n, f, p[f])
      BY <1>5, <2>2
    <2>4. QED  BY <2>1, <2>2, <2>3 DEF Carries
  <1>9. OutBy(Q, p, f, moves)
    <2> SUFFICES ASSUME f \in DOMAIN p, p[f].exit # NoNode
                 PROVE  \E spot : /\ Carries(Q[p[f].exit], p[f].exit, f, spot)
                                  /\ spot.ingress = p[f].ingress /\ spot.exit = p[f].exit
                                  /\ spot.port = p[f].port \/ f \in moves
      BY DEF OutBy
    <2>1. PICK spot : /\ Carries(P[p[f].exit], p[f].exit, f, spot)
                      /\ spot.ingress = p[f].ingress /\ spot.exit = p[f].exit
                      /\ spot.port = p[f].port \/ f \in moves
      BY <1>3 DEF OutBy
    <2>2. p[f].exit \in Node /\ ~new(p[f].exit) /\ ~old(p[f].exit)
      BY <1>0, PlacementFacts DEF Apart, SafeMove
    <2>3. Carries(Q[p[f].exit], p[f].exit, f, spot)
      BY <1>4, <2>1, <2>2
    <2>4. QED  BY <2>1, <2>3
  <1>10. f \in S => OutBy(Q, q, f, moves)
    <2>1. f \in DOMAIN q /\ q[f].exit # NoNode => q[f].exit \in Node /\ q[f].exit \in Ends(q, f)
      BY <1>0, PlacementFacts DEF Ends
    <2>2. QED  BY <1>5, <2>1 DEF OutBy
  <1>11. /\ OutBy(Q, p, f, moves)
         /\ f \in S => InBy(Q, q, f) /\ OutBy(Q, q, f, moves)
         /\ f \notin S => InBy(Q, p, f)
    BY <1>7, <1>8, <1>9, <1>10
  <1>12. \A n \in Node : /\ f \in S /\ Has(Q[n], f) =>
                              \/ f \in DOMAIN q /\ n \in Ends(q, f)
                              \/ f \in DOMAIN p /\ n = p[f].exit
                         /\ f \in S /\ f \in DOMAIN q /\ n \in Ends(q, f) =>
                              Carries(Q[n], n, f, q[f])
                         /\ f \notin S /\ Has(Q[n], f) => f \in DOMAIN p /\ n \in Ends(p, f)
                         /\ f \notin S /\ f \in DOMAIN p /\ n \in Ends(p, f) =>
                              Carries(Q[n], n, f, p[f])
    BY <1>5, <1>6
  <1>13. QED  BY <1>11, <1>12 DEF Q, P

(* A wave ends with the selected forwards as in q, the others as in p.     *)
MixedPlacement(p, q, S) ==
    [f \in (DOMAIN p \ S) \cup (DOMAIN q \cap S) |-> IF f \in S THEN q[f] ELSE p[f]]

LEMMA MixedFacts ==
    ASSUME NEW p \in Placement, NEW q \in Placement, NEW S, Apart(p), Apart(q)
    PROVE  LET m == MixedPlacement(p, q, S)
           IN  /\ m \in Placement /\ Apart(m)
               /\ \A f \in Forward : /\ f \in S => Agree(m, q, f) /\ Agree(q, m, f)
                                     /\ f \notin S => Agree(m, p, f) /\ Agree(p, m, f)
  <1> DEFINE D == (DOMAIN p \ S) \cup (DOMAIN q \cap S)
             m == MixedPlacement(p, q, S)
  <1>1. /\ \A f \in DOMAIN p : f \in Forward /\ p[f] \in Spot
        /\ \A f \in DOMAIN q : f \in Forward /\ q[f] \in Spot
    BY PlacementFacts
  <1>2. m \in [D -> Spot] /\ D \in SUBSET Forward /\ DOMAIN m = D
        /\ \A f \in D : m[f] = IF f \in S THEN q[f] ELSE p[f]
    BY <1>1 DEF MixedPlacement
  <1>3. m \in Placement
    BY <1>2 DEF Placement
  <1> HIDE DEF m
  <1>4. Apart(m) /\ \A f \in Forward : /\ f \in S => Agree(m, q, f) /\ Agree(q, m, f)
                                       /\ f \notin S => Agree(m, p, f) /\ Agree(p, m, f)
    BY <1>2 DEF Apart, Agree
  <1>5. QED  BY <1>3, <1>4 DEF m

LEMMA CleanedServes ==
    ASSUME NEW s, NEW t, NEW p, NEW q, NEW moves, Wave(s, t, p, q, moves), NEW S
    PROVE  LET Q == Promote(s, Prepare(s, t, S), t, S)
           IN  Serves(Cleanup(s, Q, t, S, FALSE), MixedPlacement(p, q, S))
  <1> DEFINE Q == Promote(s, Prepare(s, t, S), t, S)
             R == Cleanup(s, Q, t, S, FALSE)
             m == MixedPlacement(p, q, S)
  <1>0. /\ s \in NodeStates /\ p \in Placement /\ Apart(p) /\ Serves(s, p)
        /\ t \in NodeStates /\ q \in Placement /\ Apart(q) /\ Serves(t, q)
        /\ SafeMove(p, q)
    BY DEF Wave
  <1>1. SUFFICES ASSUME NEW n \in Node, NEW f \in Forward
                 PROVE  /\ Has(R[n], f) => f \in DOMAIN m /\ n \in Ends(m, f)
                        /\ f \in DOMAIN m /\ n \in Ends(m, f) => Carries(R[n], n, f, m[f])
    BY DEF Serves
  <1>2. /\ f \in S /\ Has(Q[n], f) => \/ f \in DOMAIN q /\ n \in Ends(q, f)
                                      \/ f \in DOMAIN p /\ n = p[f].exit
        /\ f \in S /\ f \in DOMAIN q /\ n \in Ends(q, f) => Carries(Q[n], n, f, q[f])
        /\ f \notin S /\ Has(Q[n], f) => f \in DOMAIN p /\ n \in Ends(p, f)
        /\ f \notin S /\ f \in DOMAIN p /\ n \in Ends(p, f) => Carries(Q[n], n, f, p[f])
    BY PromotedBy
  <1>3. Q \in NodeStates
    BY <1>0, WaveTypes
  <1>4. (f \in S => Agree(m, q, f)) /\ (f \notin S => Agree(m, p, f))
    BY <1>0, MixedFacts
  <1> HIDE DEF Q, m
  <1> DEFINE new == f \in S /\ f \in DOMAIN q /\ q[f].exit = n
             old == f \in S /\ f \in DOMAIN p /\ p[f].exit = n
  <1>5. /\ new => Carries(R[n], n, f, q[f])
        /\ ~new /\ ~old => \A spot : Carries(Q[n], n, f, spot) => Carries(R[n], n, f, spot)
        /\ ~new /\ Has(R[n], f) => ~old /\ Has(Q[n], f)
    BY <1>0, <1>3, CleanupCarries
  <1> HIDE DEF R
  <1>6. CASE f \in S
    <2>1. Has(R[n], f) => f \in DOMAIN q /\ n \in Ends(q, f)
      BY <1>2, <1>5, <1>6 DEF Ends
    <2>2. ASSUME f \in DOMAIN q, n \in Ends(q, f), ~new
          PROVE  Carries(R[n], n, f, q[f])
      <3>1. n = q[f].ingress
        BY <1>6, <2>2 DEF Ends
      <3>2. ~old
        BY <1>0, <2>2, <3>1 DEF SafeMove
      <3>3. QED  BY <1>2, <1>5, <1>6, <2>2, <3>2
    <2>3. f \in DOMAIN q /\ n \in Ends(q, f) => Carries(R[n], n, f, q[f])
      BY <1>5, <2>2
    <2>4. QED  BY <1>4, <1>6, <2>1, <2>3 DEF Agree, Ends
  <1>7. CASE f \notin S
    <2>1. Has(R[n], f) => f \in DOMAIN p /\ n \in Ends(p, f)
      BY <1>2, <1>5, <1>7
    <2>2. f \in DOMAIN p /\ n \in Ends(p, f) => Carries(R[n], n, f, p[f])
      BY <1>2, <1>5, <1>7
    <2>3. QED  BY <1>4, <1>7, <2>1, <2>2 DEF Agree, Ends
  <1>8. QED  BY <1>6, <1>7

LEMMA WaveLeads ==
    ASSUME NEW s, NEW t, NEW p, NEW q, NEW moves, Wave(s, t, p, q, moves), NEW S,
           NEW exact \in BOOLEAN, exact => \A f \in Forward \ S : Agree(p, q, f)
    PROVE  LET wave == appendWaveStages(s, t, S, exact)
           IN  /\ Leads(wave.stages, s, wave.end, moves)
               /\ wave.end \in NodeStates
               /\ Sound(wave.end, wave.end, moves)
               /\ exact => wave.end = t
               /\ ~exact => Serves(wave.end, MixedPlacement(p, q, S))
  <1> DEFINE P == Prepare(s, t, S)
             Q == Promote(s, P, t, S)
             R == Cleanup(s, Q, t, S, exact)
             m == IF exact THEN q ELSE MixedPlacement(p, q, S)
             s1 == StageOf("prepare", s, P)
             s2 == StageOf("promote", P, Q)
             s3 == StageOf("cleanup", Q, R)
             wave == appendWaveStages(s, t, S, exact)
             T == StagePlans(s, t)
  <1>0. /\ s \in NodeStates /\ p \in Placement /\ Apart(p) /\ Serves(s, p)
        /\ t \in NodeStates /\ q \in Placement /\ Apart(q) /\ Serves(t, q)
    BY DEF Wave
  <1>1. wave = [end |-> R, stages |-> s1 \o s2 \o s3]
    BY DEF appendWaveStages
  <1>2. P \in NodeStates /\ Q \in NodeStates /\ R \in NodeStates
    BY <1>0, WaveTypes
  <1>3. \A f \in Forward : /\ InBy(P, p, f) /\ OutBy(P, p, f, moves)
                           /\ f \in S => OutBy(P, q, f, moves)
    BY PreparedBy
  <1>4. \A f \in Forward : /\ OutBy(Q, p, f, moves)
                           /\ f \in S => InBy(Q, q, f) /\ OutBy(Q, q, f, moves)
                           /\ f \notin S => InBy(Q, p, f)
    BY PromotedBy
  <1>5. exact => R = t
    BY <1>0 DEF Cleanup, NodeStates
  <1>6. Serves(R, m)
    <2>1. CASE exact
      BY <1>0, <1>5, <2>1
    <2>2. CASE ~exact
      <3>1. exact = FALSE
        BY <2>2
      <3>2. QED  BY <3>1, CleanedServes
    <2>3. QED  BY <2>1, <2>2
  <1>7. /\ m \in Placement /\ Apart(m)
        /\ \A f \in Forward : (f \in S => Agree(m, q, f)) /\ (f \notin S => Agree(m, p, f))
    <2>1. CASE exact
      BY <1>0, <2>1 DEF Agree
    <2>2. CASE ~exact
      BY <1>0, <2>2, MixedFacts
    <2>3. QED  BY <2>1, <2>2
  <1>8. Between(s, s, t)
    BY <1>0 DEF Between, Mixes, Has
  <1>9. Between(P, s, t) /\ Between(Q, s, t) /\ Between(R, s, t)
    <2>1. Between(P, s, t)
      BY <1>0, <1>8, WaveMixes
    <2>2. Between(Q, s, t)
      <3> HIDE DEF P
      <3>1. QED  BY <1>0, <1>8, <2>1, WaveMixes
    <2>3. Between(R, s, t)
      <3> HIDE DEF P, Q
      <3>1. QED  BY <1>0, <1>8, <2>2, WaveMixes
    <2>4. QED  BY <2>1, <2>2, <2>3
  <1> HIDE DEF P, Q, R, m
  <1>10. s1 \in Seq(T) /\ s2 \in Seq(T) /\ s3 \in Seq(T)
    <2>1. "prepare" \in Phase /\ "promote" \in Phase /\ "cleanup" \in Phase
      BY DEF Phase
    <2>2. QED  BY <1>0, <1>9, <2>1, StageOfMixes
  <1>11. \A f \in Forward : InBy(s, p, f) /\ OutBy(s, p, f, moves)
    BY <1>0, ServesBy
  <1>12. \A f \in Forward : /\ f \in S => InBy(R, q, f) /\ OutBy(R, q, f, moves)
                            /\ f \notin S => InBy(R, p, f) /\ OutBy(R, p, f, moves)
    <2>1. \A f \in Forward : InBy(R, m, f) /\ OutBy(R, m, f, moves)
      BY <1>2, <1>6, <1>7, ServesBy
    <2>2. QED  BY <1>7, <2>1, AgreeBy
  <1> DEFINE Both == {p, q}
  <1>13. \A x \in Both : x \in Placement /\ Apart(x)
    BY <1>0
  <1>14. Coherent(s, P, moves)
    <2>1. \A f \in Forward : \E x \in Both :
              /\ InBy(s, x, f) /\ InBy(P, x, f)
              /\ OutBy(s, x, f, moves) /\ OutBy(P, x, f, moves)
      BY <1>3, <1>11
    <2> HIDE DEF Both
    <2>2. QED  BY <1>0, <1>2, <1>13, <2>1, BySound DEF Coherent
  <1>15. Coherent(P, Q, moves)
    <2>1. /\ \A f \in Forward : \E x \in Both :
                InBy(P, x, f) /\ OutBy(P, x, f, moves) /\ OutBy(Q, x, f, moves)
          /\ \A f \in Forward : \E x \in Both :
                InBy(Q, x, f) /\ OutBy(P, x, f, moves) /\ OutBy(Q, x, f, moves)
      BY <1>3, <1>4
    <2> HIDE DEF Both
    <2>2. QED  BY <1>2, <1>13, <2>1, BySound DEF Coherent
  <1>16. Coherent(Q, R, moves)
    <2>1. \A f \in Forward : \E x \in Both :
              /\ InBy(Q, x, f) /\ InBy(R, x, f)
              /\ OutBy(Q, x, f, moves) /\ OutBy(R, x, f, moves)
      BY <1>4, <1>12
    <2> HIDE DEF Both
    <2>2. QED  BY <1>2, <1>13, <2>1, BySound DEF Coherent
  <1>17. Leads(s1, s, P, moves) /\ Leads(s2, P, Q, moves) /\ Leads(s3, Q, R, moves)
    BY <1>0, <1>2, <1>14, <1>15, <1>16, StageLeads
  <1> HIDE DEF s1, s2, s3, T
  <1>18. Leads(s1 \o s2 \o s3, s, R, moves)
    <2>1. Leads(s1 \o s2, s, Q, moves)
      BY <1>10, <1>17, ThenLeads
    <2>2. s1 \o s2 \in Seq(T)
      BY <1>10
    <2>3. QED  BY <1>10, <1>17, <2>1, <2>2, ThenLeads
  <1>19. wave.end = R /\ wave.stages = s1 \o s2 \o s3
    BY <1>1
  <1> HIDE DEF wave
  <1>20. Sound(R, R, moves)
    BY <1>16 DEF Coherent
  <1>21. QED
    BY <1>2, <1>5, <1>6, <1>18, <1>19, <1>20 DEF wave, m

(* A forward that is not to be changed is where it was.                    *)
LEMMA UnchangedAgree ==
    ASSUME NEW s \in NodeStates, NEW t \in NodeStates, NEW p \in Placement, NEW q \in Placement,
           Serves(s, p), Serves(t, q), NEW f \in Forward, f \notin changedForwardIDs(s, t)
    PROVE  Agree(p, q, f)
  <1>1. /\ Locations(s, f) = Locations(t, f)
        /\ \A n \in Locations(t, f) : s[n].forwards[f] = t[n].forwards[f]
    BY DEF changedForwardIDs
  <1>2. ASSUME NEW u, NEW x \in Placement, Serves(u, x), f \in DOMAIN x
        PROVE  x[f].ingress \in Locations(u, f) /\ x[f].ingress \in Node
    BY <1>2, PlacementFacts DEF Serves, Ends, Carries, Locations
  <1>3. ASSUME NEW u, NEW x \in Placement, Serves(u, x), NEW n \in Locations(u, f)
        PROVE  f \in DOMAIN x /\ Carries(u[n], n, f, x[f])
    BY <1>3 DEF Serves, Locations
  <1>4. f \in DOMAIN p <=> f \in DOMAIN q
    BY <1>1, <1>2, <1>3
  <1>5. ASSUME f \in DOMAIN p
        PROVE  p[f] = q[f]
    <2> DEFINE n == p[f].ingress
    <2>1. n \in Locations(s, f) /\ n \in Locations(t, f)
      BY <1>1, <1>2, <1>5
    <2>2. Carries(s[n], n, f, p[f]) /\ Carries(t[n], n, f, q[f])
      BY <1>3, <2>1
    <2>3. s[n].forwards[f] = t[n].forwards[f]
      BY <1>1, <2>1
    <2>4. p[f].ingress = q[f].ingress /\ p[f].exit = q[f].exit /\ p[f].port = q[f].port
      BY <2>2, <2>3 DEF Carries
    <2>5. p[f] \in Spot /\ q[f] \in Spot
      BY <1>4, <1>5, PlacementFacts
    <2>6. QED  BY <2>4, <2>5 DEF Spot
  <1>6. QED  BY <1>4, <1>5 DEF Agree

LEMMA RolesSafe ==
    ASSUME NEW s \in NodeStates, NEW t \in NodeStates, NEW p \in Placement, NEW q \in Placement,
           Serves(s, p), Serves(t, q), Apart(p), Apart(q), validateRoleTransitions(s, t)
    PROVE  SafeMove(p, q)
  <1> SUFFICES ASSUME NEW f \in DOMAIN p \cap DOMAIN q
               PROVE  /\ p[f].ingress # q[f].exit /\ p[f].exit # q[f].ingress
                      /\ p[f].exit # NoNode /\ p[f].exit = q[f].exit =>
                            p[f].ingress = q[f].ingress
    BY DEF SafeMove
  <1>1. /\ f \in Forward /\ p[f].ingress \in Node /\ q[f].ingress \in Node
        /\ p[f].exit \in Node \cup {NoNode} /\ q[f].exit \in Node \cup {NoNode}
        /\ p[f].ingress # p[f].exit /\ q[f].ingress # q[f].exit
    BY PlacementFacts DEF Apart
  <1>2. /\ \A n \in Node \cap Ends(p, f) :
              /\ n \in Locations(s, f)
              /\ s[n].forwards[f].ingress = p[f].ingress /\ s[n].forwards[f].exit = p[f].exit
        /\ \A n \in Node \cap Ends(q, f) :
              /\ n \in Locations(t, f)
              /\ t[n].forwards[f].ingress = q[f].ingress /\ t[n].forwards[f].exit = q[f].exit
    BY <1>1 DEF Serves, Carries, Locations
  <1>3. /\ \A n \in Locations(s, f) \cap Locations(t, f) :
              Role(n, s[n].forwards[f]) = Role(n, t[n].forwards[f])
        /\ \A m \in Locations(s, f), n \in Locations(t, f) :
              s[m].forwards[f].exit # NoNode /\ s[m].forwards[f].exit = t[n].forwards[f].exit =>
                  s[m].forwards[f].ingress = t[n].forwards[f].ingress
    BY <1>1 DEF validateRoleTransitions
  <1>4. \A n \in Node \cap Ends(p, f) \cap Ends(q, f) : n = p[f].ingress <=> n = q[f].ingress
    BY <1>2, <1>3 DEF Role
  <1>5. p[f].ingress # q[f].exit /\ p[f].exit # q[f].ingress
    BY <1>1, <1>4 DEF Ends
  <1>6. p[f].exit # NoNode /\ p[f].exit = q[f].exit => p[f].ingress = q[f].ingress
    BY <1>1, <1>2, <1>3 DEF Ends
  <1>7. QED  BY <1>5, <1>6

(* The stages of BuildRolloutStages lead to what the scheduler wants.      *)
LEMMA BuildLeads ==
    ASSUME NEW s, NEW t, NEW p, NEW q, NEW moves, Wave(s, t, p, q, moves), NEW canary
    PROVE  Leads(BuildRolloutStages(s, t, canary), s, t, moves)
  <1> DEFINE changed == changedForwardIDs(s, t)
             T == StagePlans(s, t)
  <1>0. /\ s \in NodeStates /\ p \in Placement /\ Apart(p) /\ Serves(s, p)
        /\ t \in NodeStates /\ q \in Placement /\ Apart(q) /\ Serves(t, q)
        /\ SafeMove(p, q)
    BY DEF Wave
  <1>1. \A f \in Forward : f \notin changed => Agree(p, q, f) /\ Agree(q, p, f)
    <2>1. \A f \in Forward : f \notin changed => Agree(p, q, f)
      BY <1>0, UnchangedAgree
    <2>2. QED  BY <2>1 DEF Agree
  <1>2. CASE changed = {}
    <2>1. \A f \in Forward : /\ InBy(s, p, f) /\ OutBy(s, p, f, moves)
                             /\ InBy(t, p, f) /\ OutBy(t, p, f, moves)
      <3>1. \A f \in Forward : /\ InBy(s, p, f) /\ OutBy(s, p, f, moves)
                               /\ InBy(t, q, f) /\ OutBy(t, q, f, moves)
        BY <1>0, ServesBy
      <3> HIDE DEF changed
      <3>2. QED  BY <1>1, <1>2, <3>1, AgreeBy
    <2> DEFINE One == {p}
    <2>2. \A x \in One : x \in Placement /\ Apart(x)
      BY <1>0
    <2>3. \A f \in Forward : \E x \in One : /\ InBy(s, x, f) /\ OutBy(s, x, f, moves)
                                            /\ InBy(t, x, f) /\ OutBy(t, x, f, moves)
      BY <2>1
    <2> HIDE DEF One
    <2>4. Coherent(s, t, moves)
      BY <1>0, <2>2, <2>3, BySound DEF Coherent
    <2>5. Leads(StageOf("promote", s, t), s, t, moves)
      BY <1>0, <2>4, StageLeads
    <2>6. QED  BY <1>2, <2>5 DEF BuildRolloutStages
  <1>3. CASE changed # {} /\ canary = {}
    <2>1. \A f \in Forward \ changed : Agree(p, q, f)
      BY <1>1
    <2> DEFINE wave == appendWaveStages(s, t, changed, TRUE)
    <2>2. Leads(wave.stages, s, wave.end, moves) /\ wave.end = t
      <3> HIDE DEF changed
      <3>1. QED  BY <2>1, WaveLeads
    <2>3. BuildRolloutStages(s, t, canary) = wave.stages
      BY <1>3 DEF BuildRolloutStages
    <2>4. QED  BY <2>2, <2>3
  <1>4. CASE changed # {} /\ canary # {}
    <2> DEFINE first == appendWaveStages(s, t, canary, FALSE)
               second == appendWaveStages(first.end, t, changed \ canary, TRUE)
               m == MixedPlacement(p, q, canary)
    <2>1. /\ Leads(first.stages, s, first.end, moves) /\ first.end \in NodeStates
          /\ Sound(first.end, first.end, moves) /\ Serves(first.end, m)
      BY WaveLeads
    <2>2. Between(first.end, s, t) /\ first.stages \in Seq(T)
      <3>1. Between(s, s, t)
        BY <1>0 DEF Between, Mixes, Has
      <3>2. QED  BY <1>0, <3>1, WaveStages
    <2>3. /\ m \in Placement /\ Apart(m)
          /\ \A f \in Forward : (f \in canary => Agree(m, q, f)) /\ (f \notin canary => Agree(m, p, f))
      BY <1>0, MixedFacts
    <2> HIDE DEF first, m
    <2>4. Wave(first.end, t, m, q, moves)
      <3>1. \A f \in DOMAIN m : f \in Forward
        BY <2>3, PlacementFacts
      <3>2. SafeMove(m, q)
        <4> SUFFICES ASSUME NEW f \in DOMAIN m \cap DOMAIN q
                     PROVE  /\ m[f].ingress # q[f].exit /\ m[f].exit # q[f].ingress
                            /\ m[f].exit # NoNode /\ m[f].exit = q[f].exit =>
                                  m[f].ingress = q[f].ingress
          BY DEF SafeMove
        <4>1. CASE f \in canary
          BY <1>0, <2>3, <3>1, <4>1 DEF Agree, Apart
        <4>2. CASE f \notin canary
          BY <1>0, <2>3, <3>1, <4>2 DEF Agree, SafeMove
        <4>3. QED  BY <4>1, <4>2
      <3>3. \A f \in DOMAIN m \cap DOMAIN q :
                m[f].exit = q[f].exit /\ m[f].port # q[f].port => f \in moves
        BY <2>3, <3>1 DEF Agree, Wave
      <3>4. QED  BY <1>0, <2>1, <2>3, <3>2, <3>3 DEF Wave
    <2>5. \A f \in Forward \ (changed \ canary) : Agree(m, q, f)
      <3> HIDE DEF changed
      <3>1. QED  BY <1>1, <2>3 DEF Agree
    <2>6. Leads(second.stages, first.end, second.end, moves) /\ second.end = t
      <3> DEFINE rest == changed \ canary
                 start == first.end
                 wave == appendWaveStages(start, t, rest, TRUE)
      <3>1. \A f \in Forward \ rest : Agree(m, q, f)
        BY <2>5
      <3>2. Wave(start, t, m, q, moves)
        BY <2>4
      <3> HIDE DEF rest, start
      <3>3. Leads(wave.stages, start, wave.end, moves) /\ wave.end = t
        BY <3>1, <3>2, WaveLeads
      <3>4. QED  BY <3>3 DEF rest, start
    <2>7. second.stages \in Seq(T)
      BY <1>0, <2>2, WaveStages
    <2>8. Bake \in T /\ <<Bake>> \in Seq(T)
      <3>1. <<>> \in [{} -> NodeState]
        OBVIOUS
      <3>2. <<>> \in SomeStates /\ DOMAIN <<>> = {}
        BY <3>1 DEF SomeStates
      <3>3. Bake \in T
        BY <3>2 DEF StagePlans, Bake, Phase
      <3> HIDE DEF T
      <3>4. QED  BY <3>3
    <2>9. Leads(<<Bake>>, first.end, first.end, moves)
      BY <2>1, BakeLeads
    <2>10. BuildRolloutStages(s, t, canary) = first.stages \o <<Bake>> \o second.stages
      BY <1>4 DEF BuildRolloutStages, first
    <2> HIDE DEF second, T
    <2>11. Leads(first.stages \o <<Bake>>, s, first.end, moves) /\ first.stages \o <<Bake>> \in Seq(T)
      <3>1. Leads(first.stages \o <<Bake>>, s, first.end, moves)
        BY <2>1, <2>2, <2>8, <2>9, ThenLeads
      <3>2. QED  BY <2>2, <2>8, <3>1
    <2>12. Leads(first.stages \o <<Bake>> \o second.stages, s, t, moves)
      BY <2>6, <2>7, <2>11, ThenLeads
    <2>13. QED  BY <2>10, <2>12
  <1>5. QED  BY <1>2, <1>3, <1>4

-----------------------------------------------------------------------------
(* A rollout r while g has been published and the Agents run a.            *)

StateAt(g, n, i) == IF i = 0 THEN emptyStageState ELSE g[n][i]

(* The generations that count: the latest one, and those an Agent may run  *)
(* from now on when all were up to date at first.                          *)
Live(r, g, a, n) ==
    {i \in 0 .. Len(g[n]) : \/ i = Len(g[n])
                            \/ r.quiet /\ a[n] <= i}

Given(g, n, i, state) == Shape(StateAt(g, n, i)) = Shape(state)

PortMoving(r) == {f \in Forward : PortMoves(r, f)}

(* w goes from the baselines to the placements, stage by stage.            *)
OnCourse(r, w) ==
    /\ w \in [0 .. Len(r.stages) -> NodeStates]
    /\ w[0] = r.baselines
    /\ \A n \in Node : Shape(w[Len(r.stages)][n]) = Compile(r.placements)[n]
    /\ \A k \in 1 .. Len(r.stages) :
          /\ r.stages[k].phase = "bake" => DOMAIN r.stages[k].rows = {}
          /\ \A n \in Node :
                w[k][n] = IF n \in DOMAIN r.stages[k].rows THEN r.stages[k].rows[n].desired
                          ELSE w[k - 1][n]
          /\ Coherent(w[k - 1], w[k], PortMoving(r))

AllApplied(rows) == \A n \in DOMAIN rows : rows[n].status = "applied"

(* The rows were published, and what they say was applied was.             *)
RowsDue(rows, g, a) ==
    \A n \in DOMAIN rows :
        /\ rows[n].gen \in 1 .. Len(g[n])
        /\ rows[n].status = "applied" => rows[n].gen <= a[n]

(* Node n has come to the rows by generation i, if it has one.             *)
Reached(rows, n, i) == n \in DOMAIN rows => rows[n].gen <= i

(* Stages are published one after the other, each when all Agents have     *)
(* applied the one before.                                                 *)
InOrder(r) ==
    LET c == r.stage
    IN  /\ c \in 1 .. Len(r.stages)
        /\ r.status \in {"awaiting_ack", "baking", "rollback_pending", "completed"}
        /\ \A k \in 1 .. c - 1 : AllApplied(r.stages[k].rows)
        /\ \A k \in c + 1 .. Len(r.stages) :
              /\ r.stages[k].status = "pending"
              /\ \A n \in DOMAIN r.stages[k].rows : r.stages[k].rows[n].gen = 0
        /\ r.status \in {"completed", "baking"} => AllApplied(r.stages[c].rows)
        /\ r.status = "completed" => c = Len(r.stages)

(* A node has the states of the current stage and, until it applies it, of *)
(* the last.                                                               *)
Midway(r, g, a) ==
    \E w : /\ OnCourse(r, w)
           /\ \A n \in Node : \A i \in Live(r, g, a, n) :
                 Given(g, n, i, IF Reached(r.stages[r.stage].rows, n, i) THEN w[r.stage][n]
                                ELSE w[r.stage - 1][n])

Untouched(r, g, a) ==
    \A n \in Node \ PublishedNodes(r) : \A i \in Live(r, g, a, n) : Given(g, n, i, r.baselines[n])

Advancing(r, g, a) ==
    /\ InOrder(r)
    /\ RowsDue(r.stages[r.stage].rows, g, a)
    /\ Midway(r, g, a)
    /\ Untouched(r, g, a)

(* The compensation is the last stage, and with it the nodes have their    *)
(* baselines again.                                                        *)
LastStage(r) ==
    LET c == r.stage
    IN  /\ c = Len(r.stages) /\ c \in 1 .. Len(r.stages)
        /\ Compensation(r) = {c}
        /\ r.stages[c].status # "pending"
        /\ r.status \in {"awaiting_ack", "rollback_pending", "rolling_back", "rolled_back", "failed"}
        /\ r.status = "rolled_back" => AllApplied(r.stages[c].rows)

Restored(r, g, a) ==
    \A n \in Node : \A i \in Live(r, g, a, n) :
        Reached(r.stages[r.stage].rows, n, i) => Given(g, n, i, r.baselines[n])

Undoing(r, g, a) ==
    /\ LastStage(r)
    /\ RowsDue(r.stages[r.stage].rows, g, a)
    /\ Restored(r, g, a)

Proceeds(r, g, a) ==
    /\ r.status = "none" => r.stages = <<>> /\ ~r.quiet
    /\ r.status # "none" /\ Compensation(r) = {} => Advancing(r, g, a)
    /\ Compensation(r) # {} => Undoing(r, g, a)

(* What the placements are to the rollout.                                 *)
Committed(r, g, p) ==
    /\ r.status = "none" => \A n \in Node : Shape(StateAt(g, n, Len(g[n]))) = Compile(p)[n]
    /\ r.status = "completed" => Compile(p) = Compile(r.placements)
    /\ r.status \notin {"none", "completed"} =>
          \A n \in Node : Shape(r.baselines[n]) = Compile(p)[n]

ResultsInv ==
    \A result \in results :
        /\ result.gen # 0
        /\ result.status = "applied" => result.gen <= applied[result.node]

SettledInv ==
    /\ Apart(placements) /\ Apart(rollout.placements)
    /\ ResultsInv
    /\ Proceeds(rollout, gens, applied)
    /\ Committed(rollout, gens, placements)

-----------------------------------------------------------------------------
(* Stages that differ by what happened to them only.                       *)

Alike(r, q) ==
    /\ q.quiet = r.quiet /\ q.baselines = r.baselines /\ q.placements = r.placements
    /\ Len(q.stages) = Len(r.stages)
    /\ DOMAIN q.stages = DOMAIN r.stages
    /\ \A k \in 1 .. Len(r.stages) :
          /\ q.stages[k].phase = r.stages[k].phase
          /\ DOMAIN q.stages[k].rows = DOMAIN r.stages[k].rows
          /\ \A n \in DOMAIN r.stages[k].rows :
                q.stages[k].rows[n].desired = r.stages[k].rows[n].desired

SameGens(r, q) ==
    \A k \in 1 .. Len(r.stages) : \A n \in DOMAIN r.stages[k].rows :
        q.stages[k].rows[n].gen = r.stages[k].rows[n].gen

LEMMA AlikeCourse ==
    ASSUME NEW r, NEW q, Alike(r, q), DOMAIN r.stages = 1 .. Len(r.stages)
    PROVE  /\ \A w : OnCourse(r, w) => OnCourse(q, w)
           /\ Compensation(q) = Compensation(r)
           /\ SameGens(r, q) => PublishedNodes(q) = PublishedNodes(r)
           /\ \A g, a, n : Live(q, g, a, n) = Live(r, g, a, n)
  <1>1. PortMoving(q) = PortMoving(r)
    BY DEF Alike, PortMoving, PortMoves
  <1>2. ASSUME NEW w, OnCourse(r, w)
        PROVE  OnCourse(q, w)
    BY <1>1, <1>2 DEF OnCourse, Alike
  <1>3. Compensation(q) = Compensation(r)
    BY DEF Alike, Compensation
  <1>4. SameGens(r, q) => PublishedNodes(q) = PublishedNodes(r)
    BY DEF Alike, SameGens, PublishedNodes
  <1>5. \A g, a, n : Live(q, g, a, n) = Live(r, g, a, n)
    BY DEF Alike, Live
  <1>6. QED  BY <1>2, <1>3, <1>4, <1>5

LEMMA MovedFields ==
    ASSUME NEW r, GoodRollout(r), NEW status, NEW j, NEW k \in 1 .. Len(r.stages), NEW stage
    PROVE  LET q == Moved(r, status, j, k, stage)
           IN  /\ q.quiet = r.quiet /\ q.baselines = r.baselines /\ q.placements = r.placements
               /\ q.status = status /\ q.stage = j
               /\ Len(q.stages) = Len(r.stages) /\ DOMAIN q.stages = DOMAIN r.stages
               /\ DOMAIN r.stages = 1 .. Len(r.stages) /\ Len(r.stages) \in Nat
               /\ \A i \in 1 .. Len(r.stages) :
                     q.stages[i] = IF i = k THEN stage ELSE r.stages[i]
  <1> DEFINE q == Moved(r, status, j, k, stage)
             stages == [r.stages EXCEPT ![k] = stage]
  <1>1. r \in RolloutRow /\ r.stages \in Seq(Stage)
    BY DEF GoodRollout, RolloutRow
  <1>2. DOMAIN r.stages = 1 .. Len(r.stages) /\ Len(r.stages) \in Nat
    BY <1>1
  <1>3. /\ DOMAIN stages = 1 .. Len(r.stages) /\ Len(stages) = Len(r.stages)
        /\ \A i \in 1 .. Len(r.stages) : stages[i] = IF i = k THEN stage ELSE r.stages[i]
    BY <1>1, <1>2
  <1>4. q = [r EXCEPT !.status = status, !.stage = j, !.stages = stages]
    BY DEF Moved
  <1> HIDE DEF stages
  <1>5. /\ q.quiet = r.quiet /\ q.baselines = r.baselines /\ q.placements = r.placements
        /\ q.status = status /\ q.stage = j /\ q.stages = stages
    BY <1>1, <1>4 DEF RolloutRow
  <1> HIDE DEF q
  <1>6. QED  BY <1>2, <1>3, <1>5 DEF q

(* Publishing a stage.                                                     *)
LEMMA Publishing ==
    ASSUME NEW r, GoodRollout(r), NEW k \in 1 .. Len(r.stages), NEW g \in Generations,
           r.stages[k].status = "pending"
    PROVE  LET next == publishClusterStageTx(r, k, g)
               q    == next.rollout
               h    == next.gens
               rows == r.stages[k].rows
           IN  /\ Alike(r, q) /\ q.stage = k
               /\ \A j \in 1 .. Len(r.stages) : j # k => q.stages[j] = r.stages[j]
               /\ q.stages[k].status # "pending"
               /\ r.stages[k].phase = "bake" =>
                     q.status = "baking" /\ q.stages[k].rows = rows /\ h = g
               /\ r.stages[k].phase # "bake" =>
                     /\ q.status = "awaiting_ack"
                     /\ \A n \in DOMAIN rows : /\ q.stages[k].rows[n].gen = Len(g[n]) + 1
                                               /\ q.stages[k].rows[n].status = "pending"
                                               /\ h[n] = Append(g[n], rows[n].desired)
                     /\ \A n \in Node \ DOMAIN rows : h[n] = g[n]
  <1> DEFINE stage == r.stages[k]
             D == DOMAIN stage.rows
             next == publishClusterStageTx(r, k, g)
  <1>0. /\ stage \in Stage /\ Len(r.stages) \in Nat /\ DOMAIN r.stages = 1 .. Len(r.stages)
        /\ \A n \in D : n \in Node /\ stage.rows[n] \in Row
    BY StageFacts
  <1>1. \A status, new : LET q == Moved(r, status, k, k, new)
                          IN  /\ q.quiet = r.quiet /\ q.baselines = r.baselines
                              /\ q.placements = r.placements /\ q.status = status /\ q.stage = k
                              /\ Len(q.stages) = Len(r.stages) /\ DOMAIN q.stages = DOMAIN r.stages
                              /\ \A i \in 1 .. Len(r.stages) :
                                    q.stages[i] = IF i = k THEN new ELSE r.stages[i]
    BY MovedFields
  <1>2. CASE stage.phase = "bake"
    <2> DEFINE new == [stage EXCEPT !.status = "baking"]
               q == Moved(r, "baking", k, k, new)
    <2>1. next = [rollout |-> q, gens |-> g]
      BY <1>0, <1>2 DEF publishClusterStageTx, Moved, GoodRollout, RolloutRow
    <2>2. new.rows = stage.rows /\ new.phase = stage.phase /\ new.status = "baking"
      BY <1>0 DEF Stage
    <2> HIDE DEF new
    <2>3. /\ q.quiet = r.quiet /\ q.baselines = r.baselines /\ q.placements = r.placements
          /\ q.status = "baking" /\ q.stage = k
          /\ Len(q.stages) = Len(r.stages) /\ DOMAIN q.stages = DOMAIN r.stages
          /\ \A i \in 1 .. Len(r.stages) : q.stages[i] = IF i = k THEN new ELSE r.stages[i]
      BY <1>1
    <2> HIDE DEF q
    <2>4. Alike(r, q)
      BY <2>2, <2>3 DEF Alike
    <2>5. next.rollout = q /\ next.gens = g
      BY <2>1
    <2> HIDE DEF next
    <2>6. QED  BY <1>2, <2>2, <2>3, <2>4, <2>5 DEF next
  <1>3. CASE stage.phase # "bake"
    <2> DEFINE rows == [n \in D |-> [gen |-> Len(g[n]) + 1, status |-> "pending",
                                     desired |-> stage.rows[n].desired]]
               waiting == [stage EXCEPT !.status = "awaiting_ack"]
               new == [waiting EXCEPT !.rows = rows]
               h == [n \in Node |-> IF n \in D THEN Append(g[n], stage.rows[n].desired)
                                    ELSE g[n]]
               q == Moved(r, "awaiting_ack", k, k, new)
    <2>1. next = [rollout |-> q, gens |-> h]
      BY <1>0, <1>3 DEF publishClusterStageTx, Moved, GoodRollout, RolloutRow, Stage
    <2>2. new.rows = rows /\ new.phase = stage.phase /\ new.status = "awaiting_ack"
      BY <1>0 DEF Stage
    <2>3. /\ DOMAIN rows = D
          /\ \A n \in D : /\ rows[n].gen = Len(g[n]) + 1 /\ rows[n].status = "pending"
                          /\ rows[n].desired = stage.rows[n].desired
      OBVIOUS
    <2>4. /\ \A n \in D : h[n] = Append(g[n], stage.rows[n].desired)
          /\ \A n \in Node \ D : h[n] = g[n]
      BY <1>0
    <2> HIDE DEF new, h, rows
    <2>5. /\ q.quiet = r.quiet /\ q.baselines = r.baselines /\ q.placements = r.placements
          /\ q.status = "awaiting_ack" /\ q.stage = k
          /\ Len(q.stages) = Len(r.stages) /\ DOMAIN q.stages = DOMAIN r.stages
          /\ \A i \in 1 .. Len(r.stages) : q.stages[i] = IF i = k THEN new ELSE r.stages[i]
      BY <1>1
    <2> HIDE DEF q
    <2>6. Alike(r, q)
      BY <2>2, <2>3, <2>5 DEF Alike
    <2>7. next.rollout = q /\ next.gens = h
      BY <2>1
    <2> HIDE DEF next
    <2>8. QED  BY <1>3, <2>2, <2>3, <2>4, <2>5, <2>6, <2>7 DEF next
  <1>4. QED  BY <1>2, <1>3

-----------------------------------------------------------------------------
(* Agents that apply and states that are published again, but for pauses,  *)
(* do not disturb a rollout.                                               *)

Later(r, g, a, h, b) ==
    \A n \in Node :
        /\ Len(g[n]) <= Len(h[n]) /\ a[n] <= b[n]
        /\ \A i \in Live(r, h, b, n) : \E j \in Live(r, g, a, n) :
              /\ Given(h, n, i, StateAt(g, n, j))
              /\ \A m \in 1 .. Len(g[n]) : m <= j <=> m <= i

LEMMA LaterProceeds ==
    ASSUME NEW r, GoodRollout(r), NEW g \in Generations, NEW a \in [Node -> Nat],
           NEW h \in Generations, NEW b \in [Node -> Nat],
           Later(r, g, a, h, b), Proceeds(r, g, a)
    PROVE  Proceeds(r, h, b)
  <1> DEFINE c == r.stage
             rows == r.stages[c].rows
  <1>1. \A n \in Node : /\ Len(g[n]) \in Nat /\ Len(h[n]) \in Nat /\ a[n] \in Nat /\ b[n] \in Nat
                        /\ Len(g[n]) <= Len(h[n]) /\ a[n] <= b[n]
    BY DEF Generations, Later
  <1>2. ASSUME c \in 1 .. Len(r.stages), RowsDue(rows, g, a)
        PROVE  /\ RowsDue(rows, h, b)
               /\ \A n \in Node : \A i \in Live(r, h, b, n) : \E j \in Live(r, g, a, n) :
                     /\ Given(h, n, i, StateAt(g, n, j))
                     /\ Reached(rows, n, j) <=> Reached(rows, n, i)
    <2>1. \A n \in DOMAIN rows : n \in Node /\ rows[n].gen \in 1 .. Len(g[n])
      BY <1>2, StageFacts DEF RowsDue
    <2>2. \A n \in DOMAIN rows : rows[n].gen \in 1 .. Len(h[n])
      BY <1>1, <2>1
    <2>3. \A n \in DOMAIN rows : rows[n].status = "applied" => rows[n].gen <= b[n]
      <3>1. \A n \in DOMAIN rows : rows[n].status = "applied" => rows[n].gen <= a[n]
        BY <1>2 DEF RowsDue
      <3>2. QED  BY <1>1, <2>1, <3>1
    <2>4. \A n \in Node : \A i \in Live(r, h, b, n) : \E j \in Live(r, g, a, n) :
              /\ Given(h, n, i, StateAt(g, n, j))
              /\ Reached(rows, n, j) <=> Reached(rows, n, i)
      BY <2>1 DEF Later, Reached
    <2>5. QED  BY <2>2, <2>3, <2>4 DEF RowsDue
  <1>3. ASSUME Advancing(r, g, a)
        PROVE  Advancing(r, h, b)
    <2>1. /\ InOrder(r) /\ c \in 1 .. Len(r.stages) /\ RowsDue(rows, g, a)
          /\ Midway(r, g, a) /\ Untouched(r, g, a)
      BY <1>3 DEF Advancing, InOrder
    <2>2. PICK w : /\ OnCourse(r, w)
                   /\ \A n \in Node : \A i \in Live(r, g, a, n) :
                         Given(g, n, i, IF Reached(rows, n, i) THEN w[c][n] ELSE w[c - 1][n])
      BY <2>1 DEF Midway
    <2>3. \A n \in Node : \A i \in Live(r, h, b, n) :
              Given(h, n, i, IF Reached(rows, n, i) THEN w[c][n] ELSE w[c - 1][n])
      BY <1>2, <2>1, <2>2 DEF Given
    <2>4. Midway(r, h, b)
      BY <2>2, <2>3 DEF Midway
    <2>5. Untouched(r, h, b)
      BY <1>2, <2>1 DEF Untouched, Given
    <2>6. QED  BY <1>2, <2>1, <2>4, <2>5 DEF Advancing
  <1>4. ASSUME Undoing(r, g, a)
        PROVE  Undoing(r, h, b)
    <2>1. LastStage(r) /\ c \in 1 .. Len(r.stages) /\ RowsDue(rows, g, a) /\ Restored(r, g, a)
      BY <1>4 DEF Undoing, LastStage
    <2>2. Restored(r, h, b)
      BY <1>2, <2>1 DEF Restored, Given
    <2>3. QED  BY <1>2, <2>1, <2>2 DEF Undoing
  <1>5. QED  BY <1>3, <1>4 DEF Proceeds

LEMMA ApplyingLater ==
    ASSUME NEW r, NEW g \in Generations, NEW a \in [Node -> Nat], NEW b \in [Node -> Nat],
           \A n \in Node : a[n] <= b[n]
    PROVE  Later(r, g, a, g, b)
  <1> SUFFICES ASSUME NEW n \in Node
               PROVE  /\ Len(g[n]) <= Len(g[n]) /\ a[n] <= b[n]
                      /\ \A i \in Live(r, g, b, n) : \E j \in Live(r, g, a, n) :
                            /\ Given(g, n, i, StateAt(g, n, j))
                            /\ \A m \in 1 .. Len(g[n]) : m <= j <=> m <= i
    BY DEF Later
  <1>1. Len(g[n]) \in Nat /\ a[n] \in Nat /\ b[n] \in Nat
    BY DEF Generations
  <1>2. Live(r, g, b, n) \subseteq Live(r, g, a, n)
    BY <1>1 DEF Live
  <1>3. \A i : Given(g, n, i, StateAt(g, n, i))
    BY DEF Given
  <1>4. QED  BY <1>1, <1>2, <1>3

LEMMA PausingLater ==
    ASSUME NEW r, NEW g \in Generations, NEW a \in [Node -> Nat],
           \A n \in Node : a[n] <= Len(g[n]),
           NEW x \in Node, NEW state \in NodeState,
           Shape(state) = Shape(StateAt(g, x, Len(g[x])))
    PROVE  Later(r, g, a, [g EXCEPT ![x] = Append(g[x], state)], a)
  <1> DEFINE h == [g EXCEPT ![x] = Append(g[x], state)]
  <1>1. \A n \in Node : g[n] \in Seq(NodeState) /\ Len(g[n]) \in Nat /\ a[n] \in Nat
    BY DEF Generations
  <1>2. /\ \A n \in Node \ {x} : h[n] = g[n]
        /\ h[x] = Append(g[x], state)
    BY DEF Generations
  <1>3. /\ Len(h[x]) = Len(g[x]) + 1 /\ h[x][Len(g[x]) + 1] = state
        /\ \A i \in 1 .. Len(g[x]) : h[x][i] = g[x][i]
    BY <1>1, <1>2
  <1> HIDE DEF h
  <1>4. \A n \in Node : Len(g[n]) <= Len(h[n]) /\ a[n] <= a[n]
    BY <1>1, <1>2, <1>3
  <1>5. ASSUME NEW n \in Node, NEW i \in Live(r, h, a, n)
        PROVE  \E j \in Live(r, g, a, n) : /\ Given(h, n, i, StateAt(g, n, j))
                                           /\ \A m \in 1 .. Len(g[n]) : m <= j <=> m <= i
    <2>1. CASE n # x
      <3>1. i \in Live(r, g, a, n) /\ Given(h, n, i, StateAt(g, n, i))
        BY <1>2, <1>5, <2>1 DEF Live, Given, StateAt
      <3>2. QED  BY <3>1
    <2>2. CASE n = x /\ i <= Len(g[n])
      <3>1. i \in Nat /\ i \in 0 .. Len(g[n])
        BY <1>1, <1>5, <2>2 DEF Live
      <3>2. i \in Live(r, g, a, n)
        BY <1>1, <1>3, <1>5, <2>2, <3>1 DEF Live
      <3>3. StateAt(h, n, i) = StateAt(g, n, i)
        BY <1>1, <1>3, <2>2, <3>1 DEF StateAt
      <3>4. Given(h, n, i, StateAt(g, n, i))
        BY <3>3 DEF Given
      <3>5. QED  BY <3>2, <3>4
    <2>3. CASE n = x /\ ~(i <= Len(g[n]))
      <3>1. i = Len(g[n]) + 1
        BY <1>1, <1>3, <1>5, <2>3 DEF Live
      <3>2. Len(g[n]) \in Live(r, g, a, n)
        BY <1>1 DEF Live
      <3>3. StateAt(h, n, i) = state
        BY <1>1, <1>3, <2>3, <3>1 DEF StateAt
      <3>4. Given(h, n, i, StateAt(g, n, Len(g[n])))
        BY <2>3, <3>3 DEF Given
      <3>5. \A m \in 1 .. Len(g[n]) : m <= Len(g[n]) <=> m <= i
        BY <1>1, <3>1
      <3>6. QED  BY <3>2, <3>4, <3>5
    <2>4. QED  BY <2>1, <2>2, <2>3
  <1>6. Later(r, g, a, h, a)
    BY <1>4, <1>5 DEF Later
  <1>7. QED  BY <1>6 DEF h

-----------------------------------------------------------------------------
(* The next stage is published when all nodes have the states before it.   *)
LEMMA NextAdvances ==
    ASSUME NEW r, GoodRollout(r), NEW k \in 1 .. Len(r.stages), NEW w, OnCourse(r, w),
           NEW g \in Generations, NEW a \in [Node -> Nat],
           \A n \in Node : a[n] <= Len(g[n]),
           \A j \in 1 .. k - 1 : AllApplied(r.stages[j].rows),
           r.stages[k].status = "pending",
           \A j \in k + 1 .. Len(r.stages) :
              /\ r.stages[j].status = "pending"
              /\ \A n \in DOMAIN r.stages[j].rows : r.stages[j].rows[n].gen = 0,
           \A n \in Node : \A i \in Live(r, g, a, n) : Given(g, n, i, w[k - 1][n]),
           Untouched(r, g, a)
    PROVE  LET next == publishClusterStageTx(r, k, g)
           IN  /\ Advancing(next.rollout, next.gens, a)
               /\ next.rollout.status \in {"awaiting_ack", "baking"}
               /\ Alike(r, next.rollout)
  <1> DEFINE next == publishClusterStageTx(r, k, g)
             q == next.rollout
             h == next.gens
             rows == r.stages[k].rows
             new == q.stages[k].rows
  <1>0. /\ Len(r.stages) \in Nat /\ DOMAIN r.stages = 1 .. Len(r.stages)
        /\ \A n \in DOMAIN rows : n \in Node /\ rows[n].desired \in NodeState
    BY StageFacts
  <1>1. /\ Alike(r, q) /\ q.stage = k
        /\ \A j \in 1 .. Len(r.stages) : j # k => q.stages[j] = r.stages[j]
        /\ r.stages[k].phase = "bake" => q.status = "baking" /\ new = rows /\ h = g
        /\ r.stages[k].phase # "bake" =>
              /\ q.status = "awaiting_ack"
              /\ \A n \in DOMAIN rows : /\ new[n].gen = Len(g[n]) + 1
                                        /\ new[n].status = "pending"
                                        /\ h[n] = Append(g[n], rows[n].desired)
              /\ \A n \in Node \ DOMAIN rows : h[n] = g[n]
    BY ONLY GoodRollout(r), k \in 1 .. Len(r.stages), g \in Generations,
            r.stages[k].status = "pending", Publishing
  <1> HIDE DEF next
  <1>2. /\ DOMAIN new = DOMAIN rows /\ Len(q.stages) = Len(r.stages)
        /\ q.baselines = r.baselines /\ q.quiet = r.quiet
    BY <1>1 DEF Alike
  <1>3. r.stages[k].phase = "bake" => DOMAIN rows = {}
    BY DEF OnCourse
  <1>4. \A n \in Node : /\ g[n] \in Seq(NodeState) /\ Len(g[n]) \in Nat /\ a[n] \in Nat
                        /\ a[n] <= Len(g[n])
    BY DEF Generations
  <1>5. \A n \in Node \ DOMAIN rows : h[n] = g[n]
    BY <1>1
  <1>6. \A n \in DOMAIN rows :
            /\ new[n].gen = Len(g[n]) + 1 /\ new[n].status = "pending"
            /\ Len(h[n]) = Len(g[n]) + 1 /\ h[n][Len(g[n]) + 1] = rows[n].desired
            /\ \A i \in 1 .. Len(g[n]) : h[n][i] = g[n][i]
    <2>1. ASSUME NEW n \in DOMAIN rows
          PROVE  /\ new[n].gen = Len(g[n]) + 1 /\ new[n].status = "pending"
                 /\ h[n] = Append(g[n], rows[n].desired)
      BY <1>1, <1>3, <2>1
    <2>2. ASSUME NEW s \in Seq(NodeState), NEW x \in NodeState
          PROVE  /\ Len(Append(s, x)) = Len(s) + 1 /\ Append(s, x)[Len(s) + 1] = x
                 /\ \A i \in 1 .. Len(s) : Append(s, x)[i] = s[i]
      BY <2>2
    <2>3. ASSUME NEW n \in DOMAIN rows
          PROVE  /\ Len(h[n]) = Len(g[n]) + 1 /\ h[n][Len(g[n]) + 1] = rows[n].desired
                 /\ \A i \in 1 .. Len(g[n]) : h[n][i] = g[n][i]
      <3>1. g[n] \in Seq(NodeState) /\ rows[n].desired \in NodeState
        BY <1>0, <1>4, <2>3
      <3>2. h[n] = Append(g[n], rows[n].desired)
        BY <2>1, <2>3
      <3>3. QED  BY <2>2, <3>1, <3>2
    <2>4. QED  BY <2>1, <2>3
  <1>7. q.status \in {"awaiting_ack", "baking"}
    BY <1>1
  <1>8. InOrder(q)
    <2>1. \A j \in 1 .. k - 1 : AllApplied(q.stages[j].rows)
      BY <1>0, <1>1
    <2>2. \A j \in k + 1 .. Len(r.stages) :
              /\ q.stages[j].status = "pending"
              /\ \A n \in DOMAIN q.stages[j].rows : q.stages[j].rows[n].gen = 0
      BY <1>0, <1>1
    <2>3. q.status = "baking" => AllApplied(new)
      BY <1>1, <1>3 DEF AllApplied
    <2>4. QED  BY <1>0, <1>1, <1>2, <1>7, <2>1, <2>2, <2>3 DEF InOrder
  <1>9. RowsDue(new, h, a)
    <2>1. ASSUME NEW n \in DOMAIN new
          PROVE  /\ new[n].gen \in 1 .. Len(h[n])
                 /\ new[n].status # "applied"
      <3>1. n \in DOMAIN rows /\ n \in Node
        BY <1>0, <1>2, <2>1
      <3>2. new[n].gen = Len(g[n]) + 1 /\ Len(h[n]) = Len(g[n]) + 1 /\ Len(g[n]) \in Nat
        BY <1>4, <1>6, <3>1
      <3>3. new[n].status = "pending"
        BY <1>6, <3>1
      <3>4. QED  BY <3>2, <3>3
    <2>2. QED  BY <2>1 DEF RowsDue
  <1>10. OnCourse(q, w)
    BY <1>0, <1>1, AlikeCourse
  <1>11. ASSUME NEW n \in Node, NEW i \in Live(q, h, a, n)
         PROVE  /\ Given(h, n, i, IF Reached(new, n, i) THEN w[k][n] ELSE w[k - 1][n])
                /\ n \notin DOMAIN rows => i \in Live(r, g, a, n) /\ StateAt(h, n, i) = StateAt(g, n, i)
    <2>0. w[k][n] = IF n \in DOMAIN rows THEN rows[n].desired ELSE w[k - 1][n]
      BY DEF OnCourse
    <2>1. CASE n \notin DOMAIN rows
      <3>1. h[n] = g[n]
        BY <1>5, <2>1
      <3>2. i \in Live(r, g, a, n) /\ StateAt(h, n, i) = StateAt(g, n, i)
        BY <1>2, <1>11, <3>1 DEF Live, StateAt
      <3>3. w[k][n] = w[k - 1][n]
        BY <2>0, <2>1
      <3>4. Given(g, n, i, w[k - 1][n])
        BY <3>2
      <3>5. QED  BY <3>2, <3>3, <3>4 DEF Given
    <2>2. CASE n \in DOMAIN rows /\ i <= Len(g[n])
      <3>1. i \in Nat /\ i \in 0 .. Len(g[n])
        BY <1>4, <1>6, <1>11, <2>2 DEF Live
      <3>2. ~Reached(new, n, i)
        <4>1. new[n].gen = Len(g[n]) + 1 /\ Len(g[n]) \in Nat /\ n \in DOMAIN new
          BY <1>2, <1>4, <1>6, <2>2
        <4>2. QED  BY <2>2, <3>1, <4>1 DEF Reached
      <3>3. i \in Live(r, g, a, n)
        <4>1. Len(h[n]) = Len(g[n]) + 1 /\ Len(g[n]) \in Nat
          BY <1>4, <1>6, <2>2
        <4>2. i # Len(h[n])
          BY <2>2, <3>1, <4>1
        <4>3. r.quiet /\ a[n] <= i
          BY <1>2, <1>11, <4>2 DEF Live
        <4>4. QED  BY <3>1, <4>3 DEF Live
      <3>4. StateAt(h, n, i) = StateAt(g, n, i)
        BY <1>4, <1>6, <2>2, <3>1 DEF StateAt
      <3>5. Given(g, n, i, w[k - 1][n])
        BY <3>3
      <3>6. QED  BY <2>2, <3>2, <3>4, <3>5 DEF Given
    <2>3. CASE n \in DOMAIN rows /\ ~(i <= Len(g[n]))
      <3>1. i = Len(g[n]) + 1
        BY <1>4, <1>6, <1>11, <2>3 DEF Live
      <3>2. Reached(new, n, i)
        BY <1>4, <1>6, <2>3, <3>1 DEF Reached
      <3>3. StateAt(h, n, i) = rows[n].desired
        BY <1>4, <1>6, <2>3, <3>1 DEF StateAt
      <3>4. QED  BY <2>0, <2>3, <3>2, <3>3 DEF Given
    <2>4. QED  BY <2>1, <2>2, <2>3
  <1>12. Midway(q, h, a)
    BY <1>1, <1>10, <1>11 DEF Midway
  <1>13. Untouched(q, h, a)
    <2> SUFFICES ASSUME NEW n \in Node \ PublishedNodes(q), NEW i \in Live(q, h, a, n)
                 PROVE  Given(h, n, i, q.baselines[n])
      BY DEF Untouched
    <2>1. n \notin DOMAIN rows
      <3>1. n \in DOMAIN rows => n \in DOMAIN new /\ new[n].gen # 0
        BY <1>2, <1>4, <1>6
      <3>2. k \in DOMAIN q.stages
        BY <1>0, <1>1 DEF Alike
      <3>3. QED  BY <3>1, <3>2 DEF PublishedNodes
    <2>2. n \notin PublishedNodes(r)
      <3> SUFFICES ASSUME NEW j \in DOMAIN r.stages, n \in DOMAIN r.stages[j].rows,
                          r.stages[j].rows[n].gen # 0
                   PROVE  FALSE
        BY DEF PublishedNodes
      <3>1. j # k /\ j \in DOMAIN q.stages /\ q.stages[j] = r.stages[j]
        BY <1>0, <1>1, <2>1 DEF Alike
      <3>2. QED  BY <3>1 DEF PublishedNodes
    <2>3. i \in Live(r, g, a, n) /\ StateAt(h, n, i) = StateAt(g, n, i)
      BY <1>11, <2>1
    <2>4. Given(g, n, i, r.baselines[n])
      BY <2>2, <2>3 DEF Untouched
    <2>5. QED  BY <1>2, <2>3, <2>4 DEF Given
  <1>14. Advancing(q, h, a)
    BY <1>1, <1>8, <1>9, <1>12, <1>13 DEF Advancing
  <1>15. QED  BY <1>1, <1>7, <1>14 DEF next

(* The stage is done.                                                      *)
LEMMA Completing ==
    ASSUME NEW r, GoodRollout(r), NEW g \in Generations, NEW a \in [Node -> Nat],
           \A n \in Node : a[n] <= Len(g[n]),
           Compensation(r) = {}, Advancing(r, g, a), AllApplied(r.stages[r.stage].rows)
    PROVE  LET next == completeClusterStageTx(r, r.stage, g)
           IN  /\ Advancing(next.rollout, next.gens, a)
               /\ Alike(r, next.rollout)
               /\ next.rollout.status \in {"awaiting_ack", "baking", "completed"}
  <1> DEFINE c == r.stage
             new == [r.stages[c] EXCEPT !.status = "completed"]
             done(status) == Moved(r, status, c, c, new)
             next == completeClusterStageTx(r, c, g)
             rows == r.stages[c].rows
  <1>0. /\ InOrder(r) /\ c \in 1 .. Len(r.stages) /\ RowsDue(rows, g, a)
        /\ Midway(r, g, a) /\ Untouched(r, g, a)
    BY DEF Advancing, InOrder
  <1>00. /\ Len(r.stages) \in Nat /\ DOMAIN r.stages = 1 .. Len(r.stages)
         /\ r.stages[c] \in Stage /\ r.stages[c] \in KeptStages(r.baselines)
         /\ \A n \in DOMAIN rows : n \in Node /\ rows[n] \in Row
    BY <1>0, StageFacts
  <1>1. \A status \in ActiveStatus \cup FinalStatus :
            [[r EXCEPT !.stages[c].status = "completed"] EXCEPT !.status = status] = done(status)
    BY DEF Moved, GoodRollout, RolloutRow
  <1>2. {"rolled_back", "completed", "publishing"} \subseteq ActiveStatus \cup FinalStatus
    BY DEF ActiveStatus, FinalStatus
  <1>3. r.stages[c].phase # "compensate"
    BY <1>0, <1>00 DEF Compensation
  <1>4. new \in KeptStages(r.baselines) /\ new.rows = rows /\ new.phase = r.stages[c].phase
    BY <1>00, StatusKept DEF Stage
  <1> HIDE DEF new
  <1>5. ASSUME NEW status \in ActiveStatus \cup FinalStatus
        PROVE  LET q == done(status)
               IN  /\ GoodRollout(q)
                   /\ q.quiet = r.quiet /\ q.baselines = r.baselines
                   /\ q.placements = r.placements /\ q.status = status /\ q.stage = c
                   /\ Len(q.stages) = Len(r.stages) /\ DOMAIN q.stages = DOMAIN r.stages
                   /\ \A i \in 1 .. Len(r.stages) :
                         q.stages[i] = IF i = c THEN new ELSE r.stages[i]
    <2>1. c \in 0 .. Len(r.stages) /\ c # 0
      BY <1>0, <1>00
    <2>2. GoodRollout(done(status))
      BY <1>0, <1>4, <2>1, MovedGood
    <2>3. QED  BY <1>0, <2>2, MovedFields
  <1> HIDE DEF done
  <1>6. \A status \in ActiveStatus \cup FinalStatus : Alike(r, done(status)) /\ SameGens(r, done(status))
    BY <1>4, <1>5 DEF Alike, SameGens
  <1>7. PICK w : /\ OnCourse(r, w)
                 /\ \A n \in Node : \A i \in Live(r, g, a, n) :
                       Given(g, n, i, IF Reached(rows, n, i) THEN w[c][n] ELSE w[c - 1][n])
    BY <1>0 DEF Midway
  <1>8. \A n \in Node : \A i \in Live(r, g, a, n) : Reached(rows, n, i) /\ Given(g, n, i, w[c][n])
    <2>1. \A n \in Node : \A i \in Live(r, g, a, n) : i \in Nat /\ a[n] \in Nat /\ a[n] <= i
      BY DEF Live, Generations
    <2>2. \A n \in DOMAIN rows : rows[n].gen \in Nat /\ rows[n].gen <= a[n]
      BY <1>0, <1>00 DEF RowsDue, AllApplied, Row
    <2>3. \A n \in Node : \A i \in Live(r, g, a, n) : Reached(rows, n, i)
      BY <2>1, <2>2 DEF Reached
    <2>4. QED  BY <1>7, <2>3
  <1>9. \A j \in 1 .. c : AllApplied(r.stages[j].rows)
    BY <1>0, <1>00 DEF InOrder
  <1>10. \A j \in c + 1 .. Len(r.stages) :
              /\ r.stages[j].status = "pending"
              /\ \A n \in DOMAIN r.stages[j].rows : r.stages[j].rows[n].gen = 0
    BY <1>0 DEF InOrder
  <1>11. CASE HasNextStage(r, c)
    <2> DEFINE q == done("publishing")
    <2>1. c + 1 \in DOMAIN r.stages /\ c + 1 \in 1 .. Len(r.stages) /\ r.stages[c + 1].status = "pending"
      <3>1. PICK j \in DOMAIN r.stages : j > c
        BY <1>11 DEF HasNextStage
      <3>2. c + 1 \in c + 1 .. Len(r.stages)
        BY <1>0, <1>00, <3>1
      <3>3. QED  BY <1>0, <1>00, <1>10, <3>2
    <2>2. NextStage(r, c) = c + 1
      <3> DEFINE Is(j) == /\ j > c /\ r.stages[j].status = "pending"
                          /\ \A i \in c + 1 .. j - 1 : r.stages[i].status # "pending"
      <3>1. Is(c + 1)
        BY <1>0, <1>00, <2>1
      <3>2. ASSUME NEW j \in DOMAIN r.stages, Is(j) PROVE j = c + 1
        <4> SUFFICES ASSUME j # c + 1 PROVE FALSE
          OBVIOUS
        <4>1. c + 1 \in c + 1 .. j - 1
          BY <1>0, <1>00, <3>2
        <4>2. QED  BY <2>1, <3>2, <4>1
      <3> HIDE DEF Is
      <3>3. (CHOOSE j \in DOMAIN r.stages : Is(j)) = c + 1
        BY <2>1, <3>1, <3>2
      <3>4. QED  BY <3>3 DEF NextStage, Is
    <2>3. next = publishClusterStageTx(q, c + 1, g)
      BY <1>1, <1>2, <1>3, <1>11, <2>2 DEF completeClusterStageTx
    <2>4. /\ GoodRollout(q) /\ Alike(r, q) /\ SameGens(r, q) /\ Len(q.stages) = Len(r.stages)
          /\ q.baselines = r.baselines
          /\ \A i \in 1 .. Len(r.stages) : q.stages[i] = IF i = c THEN new ELSE r.stages[i]
      BY <1>2, <1>5, <1>6
    <2> HIDE DEF q
    <2>5. /\ OnCourse(q, w) /\ PublishedNodes(q) = PublishedNodes(r)
          /\ \A n : Live(q, g, a, n) = Live(r, g, a, n)
      BY <1>7, <1>00, <2>4, AlikeCourse
    <2>6. /\ \A j \in 1 .. (c + 1) - 1 : AllApplied(q.stages[j].rows)
          /\ q.stages[c + 1].status = "pending"
          /\ \A j \in (c + 1) + 1 .. Len(q.stages) :
                /\ q.stages[j].status = "pending"
                /\ \A n \in DOMAIN q.stages[j].rows : q.stages[j].rows[n].gen = 0
      <3>1. /\ c \in Nat /\ c + 1 # c /\ (c + 1) - 1 = c
            /\ \A j \in (c + 1) + 1 .. Len(r.stages) : j \in c + 1 .. Len(r.stages) /\ j # c
                                                      /\ j \in 1 .. Len(r.stages)
            /\ \A j \in 1 .. c : j \in 1 .. Len(r.stages)
        BY <1>0, <1>00
      <3>2. \A j \in 1 .. c : q.stages[j].rows = r.stages[j].rows
        BY <1>4, <2>4, <3>1
      <3>3. QED  BY <1>9, <1>10, <2>1, <2>4, <3>1, <3>2
    <2>7. \A n \in Node : \A i \in Live(q, g, a, n) : Given(g, n, i, w[(c + 1) - 1][n])
      <3>1. (c + 1) - 1 = c
        BY <1>0, <1>00
      <3>2. QED  BY <1>8, <2>5, <3>1
    <2>8. Untouched(q, g, a)
      BY <1>0, <2>4, <2>5 DEF Untouched
    <2>9. c + 1 \in 1 .. Len(q.stages)
      BY <2>1, <2>4
    <2>10. /\ Advancing(next.rollout, next.gens, a)
           /\ next.rollout.status \in {"awaiting_ack", "baking"}
           /\ Alike(q, next.rollout)
      <3> DEFINE j == c + 1
      <3>1. /\ j \in 1 .. Len(q.stages)
            /\ \A i \in 1 .. j - 1 : AllApplied(q.stages[i].rows)
            /\ q.stages[j].status = "pending"
            /\ \A i \in j + 1 .. Len(q.stages) :
                  /\ q.stages[i].status = "pending"
                  /\ \A n \in DOMAIN q.stages[i].rows : q.stages[i].rows[n].gen = 0
            /\ \A n \in Node : \A i \in Live(q, g, a, n) : Given(g, n, i, w[j - 1][n])
            /\ next = publishClusterStageTx(q, j, g)
        BY <2>3, <2>6, <2>7, <2>9
      <3> HIDE DEF j, next
      <3>2. QED  BY <2>4, <2>5, <2>8, <3>1, NextAdvances
    <2>11. Alike(r, next.rollout)
      BY <2>4, <2>10 DEF Alike
    <2>12. QED  BY <2>10, <2>11
  <1>12. CASE ~HasNextStage(r, c)
    <2> DEFINE q == done("completed")
    <2>1. next = [rollout |-> q, gens |-> g]
      BY <1>1, <1>2, <1>3, <1>12 DEF completeClusterStageTx
    <2>2. c = Len(r.stages)
      <3> SUFFICES ASSUME c # Len(r.stages) PROVE FALSE
        OBVIOUS
      <3>1. c + 1 \in c + 1 .. Len(r.stages) /\ c + 1 \in DOMAIN r.stages /\ c + 1 > c
        BY <1>0, <1>00
      <3>2. QED  BY <1>10, <1>12, <3>1 DEF HasNextStage
    <2>3. /\ Alike(r, q) /\ SameGens(r, q) /\ Len(q.stages) = Len(r.stages)
          /\ q.baselines = r.baselines /\ q.status = "completed" /\ q.stage = c
          /\ \A i \in 1 .. Len(r.stages) : q.stages[i].rows = r.stages[i].rows
      BY <1>2, <1>4, <1>5, <1>6
    <2> HIDE DEF q
    <2>4. /\ OnCourse(q, w) /\ PublishedNodes(q) = PublishedNodes(r)
          /\ \A n : Live(q, g, a, n) = Live(r, g, a, n)
      BY <1>7, <1>00, <2>3, AlikeCourse
    <2>5. \A j \in 1 .. c : AllApplied(q.stages[j].rows)
      BY <1>9, <2>2, <2>3
    <2>6. InOrder(q)
      <3>1. c \in 1 .. c /\ \A j \in 1 .. c - 1 : j \in 1 .. c
        BY <1>0, <1>00
      <3>2. \A j \in c + 1 .. Len(q.stages) : FALSE
        BY <1>00, <2>2, <2>3
      <3>3. QED  BY <1>0, <2>2, <2>3, <2>5, <3>1, <3>2 DEF InOrder
    <2>7. q.stages[c].rows = rows
      BY <1>0, <2>3
    <2>8. Midway(q, g, a)
      BY <1>7, <2>3, <2>4, <2>7 DEF Midway
    <2>9. Untouched(q, g, a)
      BY <1>0, <2>3, <2>4 DEF Untouched
    <2>10. Advancing(q, g, a)
      BY <1>0, <2>3, <2>6, <2>7, <2>8, <2>9 DEF Advancing
    <2>11. next.rollout = q /\ next.gens = g
      BY <2>1
    <2> HIDE DEF next
    <2>12. QED  BY <2>3, <2>10, <2>11 DEF next
  <1>13. QED  BY <1>11, <1>12

-----------------------------------------------------------------------------
(* What is recorded of a stage does not move the nodes.                    *)

LEMMA AdvancingKept ==
    ASSUME NEW r, NEW q, Alike(r, q), SameGens(r, q), DOMAIN r.stages = 1 .. Len(r.stages),
           q.stage = r.stage, NEW g, NEW a, Advancing(r, g, a), InOrder(q),
           RowsDue(q.stages[q.stage].rows, g, a)
    PROVE  Advancing(q, g, a)
  <1> DEFINE c == r.stage
  <1>1. c \in 1 .. Len(r.stages) /\ Midway(r, g, a) /\ Untouched(r, g, a)
    BY DEF Advancing, InOrder
  <1>2. /\ \A w : OnCourse(r, w) => OnCourse(q, w)
        /\ PublishedNodes(q) = PublishedNodes(r)
        /\ \A n : Live(q, g, a, n) = Live(r, g, a, n)
        /\ q.baselines = r.baselines
    BY AlikeCourse DEF Alike
  <1>3. \A n, i : Reached(q.stages[c].rows, n, i) <=> Reached(r.stages[c].rows, n, i)
    BY <1>1 DEF Alike, SameGens, Reached
  <1>4. Midway(q, g, a)
    <2>1. PICK w : /\ OnCourse(r, w)
                   /\ \A n \in Node : \A i \in Live(r, g, a, n) :
                         Given(g, n, i, IF Reached(r.stages[c].rows, n, i) THEN w[c][n]
                                        ELSE w[c - 1][n])
      BY <1>1 DEF Midway
    <2>2. \A n \in Node : \A i \in Live(q, g, a, n) :
              Given(g, n, i, IF Reached(q.stages[c].rows, n, i) THEN w[c][n] ELSE w[c - 1][n])
      BY <1>2, <1>3, <2>1
    <2>3. QED  BY <1>2, <2>1, <2>2 DEF Midway
  <1>5. Untouched(q, g, a)
    BY <1>1, <1>2 DEF Untouched
  <1>6. QED  BY <1>4, <1>5 DEF Advancing

LEMMA UndoingKept ==
    ASSUME NEW r, NEW q, Alike(r, q), SameGens(r, q), DOMAIN r.stages = 1 .. Len(r.stages),
           q.stage = r.stage, NEW g, NEW a, Undoing(r, g, a),
           q.stages[q.stage].status # "pending",
           q.status \in {"awaiting_ack", "rollback_pending", "rolling_back", "rolled_back", "failed"},
           q.status = "rolled_back" => AllApplied(q.stages[q.stage].rows),
           RowsDue(q.stages[q.stage].rows, g, a)
    PROVE  Undoing(q, g, a)
  <1> DEFINE c == r.stage
  <1>1. /\ c \in 1 .. Len(r.stages) /\ c = Len(r.stages) /\ Compensation(r) = {c}
        /\ Restored(r, g, a)
    BY DEF Undoing, LastStage
  <1>2. /\ Compensation(q) = Compensation(r)
        /\ \A n : Live(q, g, a, n) = Live(r, g, a, n)
        /\ q.baselines = r.baselines /\ Len(q.stages) = Len(r.stages)
    BY AlikeCourse DEF Alike
  <1>3. \A n, i : Reached(q.stages[c].rows, n, i) <=> Reached(r.stages[c].rows, n, i)
    BY <1>1 DEF Alike, SameGens, Reached
  <1>4. Restored(q, g, a)
    BY <1>1, <1>2, <1>3 DEF Restored
  <1>5. LastStage(q)
    BY <1>1, <1>2 DEF LastStage
  <1>6. QED  BY <1>4, <1>5 DEF Undoing

-----------------------------------------------------------------------------
(* A new rollout.                                                          *)

LEMMA WaveToLayout ==
    ASSUME NEW s \in NodeStates, NEW p \in Placement, Apart(p),
           \A n \in Node : Shape(s[n]) = Compile(p)[n],
           NEW layout \in Layout, Apart(PlacementOf(layout)),
           NEW r, r.baselines = s, r.placements = PlacementOf(layout),
           NEW t, t = preserveRuntimeLifecycles(s, Compile(layout)),
           validateRoleTransitions(s, t)
    PROVE  /\ \A n \in Node : Shape(t[n]) = Compile(PlacementOf(layout))[n]
           /\ Wave(s, t, p, PlacementOf(layout), PortMoving(r))
  <1> DEFINE q == PlacementOf(layout)
  <1>1. Compile(layout) \in NodeStates /\ q \in Placement
    BY CompileType, PlacementType
  <1>2. t \in NodeStates
    BY <1>1, TargetKeeps
  <1>3. \A n \in Node : Shape(t[n]) = Compile(q)[n]
    BY <1>1, CompileShape, PreservedShape
  <1> HIDE DEF q
  <1>4. Serves(s, p) /\ Serves(t, q)
    BY <1>1, <1>2, <1>3, ShapeServes
  <1>5. Apart(q) /\ r.placements = q
    BY DEF q
  <1>6. SafeMove(p, q)
    BY <1>1, <1>2, <1>4, <1>5, RolesSafe
  <1>7. ASSUME NEW f \in DOMAIN p \cap DOMAIN q, p[f].exit = q[f].exit, p[f].port # q[f].port
        PROVE  f \in PortMoving(r)
    <2> DEFINE n == p[f].ingress
    <2>1. f \in Forward /\ n \in Node
      BY <1>7, PlacementFacts
    <2>2. Carries(s[n], n, f, p[f])
      BY <1>4, <1>7, <2>1 DEF Serves, Ends
    <2>3. QED  BY <1>5, <1>7, <2>1, <2>2 DEF PortMoving, PortMoves, Carries
  <1>8. Wave(s, t, p, q, PortMoving(r))
    BY <1>1, <1>2, <1>4, <1>5, <1>6, <1>7 DEF Wave
  <1>9. QED  BY <1>3, <1>8 DEF q

(* The rows of a new rollout.                                              *)
NewStage(made) ==
    [phase |-> made.phase, status |-> "pending",
     rows |-> [n \in DOMAIN made.desired |-> QueuedRow(made.desired[n])]]

LEMMA StartedCourse ==
    ASSUME NEW r, NEW stages, NEW s, NEW t, NEW S, stages \in Seq(S),
           r.baselines = s, r.stages = [k \in DOMAIN stages |-> NewStage(stages[k])],
           \A n \in Node : Shape(t[n]) = Compile(r.placements)[n],
           Leads(stages, s, t, PortMoving(r))
    PROVE  /\ \E w : OnCourse(r, w)
           /\ Len(r.stages) = Len(stages) /\ DOMAIN r.stages = 1 .. Len(r.stages)
           /\ Compensation(r) = {} /\ PublishedNodes(r) = {}
           /\ \A k \in 1 .. Len(r.stages) :
                 /\ r.stages[k].status = "pending"
                 /\ \A n \in DOMAIN r.stages[k].rows : r.stages[k].rows[n].gen = 0
  <1>1. PICK w : Follows(w, stages, PortMoving(r)) /\ w[0] = s /\ w[Len(stages)] = t
    BY DEF Leads
  <1>2. DOMAIN stages = 1 .. Len(stages) /\ Len(stages) \in Nat
    OBVIOUS
  <1>3. Len(r.stages) = Len(stages) /\ DOMAIN r.stages = 1 .. Len(stages)
    BY <1>2
  <1>4. ASSUME NEW k \in 1 .. Len(stages)
        PROVE  /\ r.stages[k].phase = stages[k].phase /\ r.stages[k].status = "pending"
               /\ DOMAIN r.stages[k].rows = DOMAIN stages[k].desired
               /\ \A n \in DOMAIN stages[k].desired :
                     /\ r.stages[k].rows[n].desired = stages[k].desired[n]
                     /\ r.stages[k].rows[n].gen = 0
    <2>1. r.stages[k] = NewStage(stages[k])
      BY <1>2, <1>4
    <2>2. QED  BY <2>1 DEF NewStage, QueuedRow
  <1>5. ASSUME NEW k \in 1 .. Len(stages)
        PROVE  /\ stages[k].phase # "compensate"
               /\ stages[k].phase = "bake" => DOMAIN stages[k].desired = {}
               /\ \A n \in Node :
                     w[k][n] = IF n \in DOMAIN stages[k].desired THEN stages[k].desired[n]
                               ELSE w[k - 1][n]
               /\ Coherent(w[k - 1], w[k], PortMoving(r))
    BY <1>1 DEF Follows
  <1>6. OnCourse(r, w)
    <2>1. w \in [0 .. Len(r.stages) -> NodeStates] /\ w[0] = r.baselines
      BY <1>1, <1>3 DEF Follows
    <2>2. \A n \in Node : Shape(w[Len(r.stages)][n]) = Compile(r.placements)[n]
      BY <1>1, <1>3
    <2>3. ASSUME NEW k \in 1 .. Len(r.stages)
          PROVE  /\ r.stages[k].phase = "bake" => DOMAIN r.stages[k].rows = {}
                 /\ \A n \in Node :
                       w[k][n] = IF n \in DOMAIN r.stages[k].rows THEN r.stages[k].rows[n].desired
                                 ELSE w[k - 1][n]
                 /\ Coherent(w[k - 1], w[k], PortMoving(r))
      <3>1. k \in 1 .. Len(stages)
        BY <1>3, <2>3
      <3>2. /\ r.stages[k].phase = stages[k].phase
            /\ DOMAIN r.stages[k].rows = DOMAIN stages[k].desired
            /\ \A n \in DOMAIN stages[k].desired :
                  r.stages[k].rows[n].desired = stages[k].desired[n]
        BY <1>4, <3>1
      <3>3. /\ stages[k].phase = "bake" => DOMAIN stages[k].desired = {}
            /\ \A n \in Node :
                  w[k][n] = IF n \in DOMAIN stages[k].desired THEN stages[k].desired[n]
                            ELSE w[k - 1][n]
            /\ Coherent(w[k - 1], w[k], PortMoving(r))
        BY <1>5, <3>1
      <3>4. QED  BY ONLY <3>2, <3>3
    <2>4. QED  BY <2>1, <2>2, <2>3 DEF OnCourse
  <1>7. Compensation(r) = {}
    BY <1>3, <1>4, <1>5 DEF Compensation
  <1>8. PublishedNodes(r) = {}
    BY <1>3, <1>4 DEF PublishedNodes
  <1>9. QED  BY <1>3, <1>4, <1>6, <1>7, <1>8

(* The generations when a rollout starts.                                  *)
LEMMA DesiredAt ==
    ASSUME gens \in Generations, NEW n \in Node
    PROVE  Desired(n) = StateAt(gens, n, Len(gens[n]))
  <1>1. gens[n] \in Seq(NodeState)
    BY DEF Generations
  <1>2. gens[n] = <<>> <=> Len(gens[n]) = 0
    BY <1>1
  <1>3. QED  BY <1>2 DEF Desired, StateAt, Last

LEMMA Starting ==
    ASSUME RolloutInv, Apart(placements),
           \A n \in Node : Shape(Desired(n)) = Compile(placements)[n],
           NEW layout \in Layout, Apart(PlacementOf(layout)),
           NEW current, current = [n \in Node |-> Desired(n)],
           NEW target, target = preserveRuntimeLifecycles(current, Compile(layout)),
           validateRoleTransitions(current, target),
           NEW canary, NEW stages, stages = BuildRolloutStages(current, target, canary)
    PROVE  /\ stages = <<>> => Compile(PlacementOf(layout)) = Compile(placements)
           /\ stages # <<>> =>
                LET next == publishClusterStageTx(StartedRollout(layout, stages, current), 1, gens)
                    q    == next.rollout
                IN  /\ Advancing(q, next.gens, applied)
                    /\ Compensation(q) = {}
                    /\ q.status \in {"awaiting_ack", "baking"}
                    /\ q.placements = PlacementOf(layout)
                    /\ \A n \in Node : Shape(q.baselines[n]) = Compile(placements)[n]
  <1>0. /\ gens \in Generations /\ placements \in Placement /\ applied \in [Node -> Nat]
        /\ \A n \in Node : applied[n] <= Len(gens[n])
    BY DEF RolloutInv, PlanInv, NodesInv
  <1>1. current \in NodeStates /\ \A n \in Node : current[n] = Desired(n)
    BY <1>0, DesiredType
  <1>2. Compile(layout) \in NodeStates
    BY CompileType
  <1>3. /\ target \in NodeStates
        /\ \A n \in Node : \A f \in DOMAIN target[n].forwards :
              KeepsPause(current, f, target[n].forwards[f])
    BY <1>1, <1>2, TargetKeeps
  <1>4. stages \in Seq(StagePlans(current, target))
    BY <1>1, <1>3, StagesMix
  <1> DEFINE r == StartedRollout(layout, stages, current)
             next == publishClusterStageTx(r, 1, gens)
             q == next.rollout
             moves == PortMoving(r)
  <1>5. /\ r.baselines = current /\ r.placements = PlacementOf(layout) /\ r.quiet = Quiet
        /\ r.stages = [k \in DOMAIN stages |-> NewStage(stages[k])]
    BY DEF StartedRollout, NewStage
  <1> HIDE DEF r
  <1>6. /\ \A n \in Node : Shape(target[n]) = Compile(PlacementOf(layout))[n]
        /\ Wave(current, target, placements, PlacementOf(layout), moves)
    <2>1. \A n \in Node : Shape(current[n]) = Compile(placements)[n]
      BY <1>1
    <2>2. r.baselines = current /\ r.placements = PlacementOf(layout)
      BY <1>5
    <2>3. QED  BY ONLY <1>0, <1>1, <2>1, <2>2, layout \in Layout, Apart(PlacementOf(layout)),
                  Apart(placements), validateRoleTransitions(current, target),
                  target = preserveRuntimeLifecycles(current, Compile(layout)), WaveToLayout
  <1> HIDE DEF moves
  <1>7. Leads(stages, current, target, moves)
    BY <1>6, BuildLeads
  <1>8. ASSUME stages = <<>>
        PROVE  Compile(PlacementOf(layout)) = Compile(placements)
    <2>1. current = target
      <3>1. Len(stages) = 0
        BY <1>8
      <3>2. QED  BY <1>7, <3>1 DEF Leads
    <2>2. \A n \in Node : Compile(PlacementOf(layout))[n] = Compile(placements)[n]
      BY <1>1, <1>6, <2>1
    <2>3. QED  BY <2>2 DEF Compile
  <1>9. ASSUME stages # <<>>
        PROVE  /\ Advancing(q, next.gens, applied) /\ Compensation(q) = {}
               /\ q.status \in {"awaiting_ack", "baking"}
               /\ q.placements = PlacementOf(layout)
               /\ \A n \in Node : Shape(q.baselines[n]) = Compile(placements)[n]
    <2>1. GoodRollout(r) /\ 1 \in 1 .. Len(r.stages)
      BY <1>1, <1>3, <1>4, <1>9, StartedFits DEF r
    <2>2. Leads(stages, current, target, PortMoving(r))
      BY <1>7 DEF moves
    <2>3. /\ \E w : OnCourse(r, w)
          /\ DOMAIN r.stages = 1 .. Len(r.stages)
          /\ Compensation(r) = {} /\ PublishedNodes(r) = {}
          /\ \A k \in 1 .. Len(r.stages) :
                /\ r.stages[k].status = "pending"
                /\ \A n \in DOMAIN r.stages[k].rows : r.stages[k].rows[n].gen = 0
      <3>1. \A n \in Node : Shape(target[n]) = Compile(r.placements)[n]
        BY <1>5, <1>6
      <3>2. \E S : stages \in Seq(S)
        BY <1>4
      <3>3. QED  BY ONLY <1>5, <2>2, <3>1, <3>2, StartedCourse
    <2>4. PICK w : OnCourse(r, w)
      BY <2>3
    <2>5. w[0] = current
      BY <1>5, <2>4 DEF OnCourse
    <2>6. ASSUME NEW n \in Node, NEW i \in Live(r, gens, applied, n)
          PROVE  Given(gens, n, i, current[n])
      <3>1. Len(gens[n]) \in Nat /\ applied[n] \in Nat
        BY <1>0 DEF Generations
      <3>2. i = Len(gens[n])
        BY <1>5, <2>6, <3>1 DEF Live, Quiet
      <3>3. current[n] = StateAt(gens, n, Len(gens[n]))
        BY <1>0, <1>1, DesiredAt
      <3>4. QED  BY <3>2, <3>3 DEF Given
    <2>7. Untouched(r, gens, applied)
      BY <1>5, <2>6 DEF Untouched
    <2> DEFINE k == 1
    <2>8. /\ k \in 1 .. Len(r.stages) /\ r.stages[k].status = "pending"
          /\ \A j \in 1 .. k - 1 : AllApplied(r.stages[j].rows)
          /\ \A j \in k + 1 .. Len(r.stages) :
                /\ r.stages[j].status = "pending"
                /\ \A n \in DOMAIN r.stages[j].rows : r.stages[j].rows[n].gen = 0
          /\ \A n \in Node : \A i \in Live(r, gens, applied, n) : Given(gens, n, i, w[k - 1][n])
          /\ next = publishClusterStageTx(r, k, gens)
      <3>1. Len(r.stages) \in Nat
        BY <2>1 DEF GoodRollout, RolloutRow
      <3>2. \A j \in k + 1 .. Len(r.stages) : j \in 1 .. Len(r.stages)
        BY <3>1
      <3>3. \A j \in 1 .. k - 1 : FALSE
        OBVIOUS
      <3>4. \A n \in Node : \A i \in Live(r, gens, applied, n) : Given(gens, n, i, w[k - 1][n])
        BY <2>5, <2>6
      <3>5. QED  BY <2>1, <2>3, <3>2, <3>3, <3>4
    <2> HIDE DEF k, next
    <2>9. /\ Advancing(q, next.gens, applied) /\ q.status \in {"awaiting_ack", "baking"}
          /\ Alike(r, q)
      BY <1>0, <2>1, <2>4, <2>7, <2>8, NextAdvances
    <2>10. Compensation(q) = {}
      BY <2>3, <2>9, AlikeCourse
    <2>11. q.placements = PlacementOf(layout) /\ q.baselines = current
      BY <1>5, <2>9 DEF Alike
    <2>12. QED  BY <1>1, <2>9, <2>10, <2>11
  <1>10. QED  BY <1>8, <1>9 DEF r

-----------------------------------------------------------------------------
(* A compensation.                                                         *)

LEMMA Compensating ==
    ASSUME NEW r, GoodRollout(r), NEW g \in Generations, NEW a \in [Node -> Nat],
           \A n \in Node : a[n] <= Len(g[n]),
           Compensation(r) = {}, Untouched(r, g, a)
    PROVE  LET s    == ensureCompensationStage(r)
               next == publishClusterStageTx(s, s.stage, g)
               q    == next.rollout
           IN  /\ Undoing(q, next.gens, a)
               /\ q.status = "awaiting_ack"
               /\ q.placements = r.placements /\ q.baselines = r.baselines
  <1> DEFINE s == ensureCompensationStage(r)
             c == s.stage
             next == publishClusterStageTx(s, c, g)
             q == next.rollout
             h == next.gens
             rows == [n \in PublishedNodes(r) |-> QueuedRow(r.baselines[n])]
             stage == [phase |-> "compensate", status |-> "pending", rows |-> rows]
             stages == Append(r.stages, stage)
             new == q.stages[c].rows
  <1>0. /\ r \in RolloutRow /\ r.stages \in Seq(Stage)
        /\ Len(r.stages) \in Nat /\ DOMAIN r.stages = 1 .. Len(r.stages)
        /\ r.baselines \in NodeStates
    BY DEF GoodRollout, RolloutRow
  <1>1. GoodRollout(s) /\ c \in 1 .. Len(s.stages)
    BY CompensationFits
  <1>2. s = [r EXCEPT !.status = "rolling_back", !.stage = Len(r.stages) + 1, !.stages = stages]
    BY <1>0 DEF ensureCompensationStage, RolloutRow
  <1>3. /\ DOMAIN rows = PublishedNodes(r)
        /\ \A n \in PublishedNodes(r) : rows[n].desired = r.baselines[n]
    BY DEF QueuedRow
  <1> HIDE DEF rows
  <1>4. stage.phase = "compensate" /\ stage.status = "pending" /\ stage.rows = rows
    OBVIOUS
  <1> HIDE DEF stage
  <1>5. /\ Len(stages) = Len(r.stages) + 1 /\ stages[Len(r.stages) + 1] = stage
        /\ \A k \in 1 .. Len(r.stages) : stages[k] = r.stages[k]
        /\ DOMAIN stages = 1 .. Len(r.stages) + 1
    BY <1>0, AppendProperties
  <1> HIDE DEF stages
  <1>6. /\ c = Len(r.stages) + 1 /\ s.stages = stages /\ s.baselines = r.baselines
        /\ s.placements = r.placements /\ s.quiet = r.quiet
    BY <1>0, <1>2 DEF RolloutRow
  <1> HIDE DEF s
  <1>7. /\ s.stages[c] = stage /\ Len(s.stages) = c /\ DOMAIN s.stages = 1 .. c
        /\ \A k \in 1 .. Len(r.stages) : s.stages[k] = r.stages[k]
    BY <1>5, <1>6
  <1>8. Compensation(s) = {c}
    <2>1. \A k \in 1 .. Len(r.stages) : r.stages[k].phase # "compensate"
      BY <1>0 DEF Compensation
    <2>2. \A k \in 1 .. c : k = c \/ k \in 1 .. Len(r.stages)
      BY <1>0, <1>6
    <2>3. \A k \in DOMAIN s.stages : s.stages[k].phase = "compensate" <=> k = c
      BY <1>4, <1>7, <2>1, <2>2
    <2>4. c \in DOMAIN s.stages
      BY <1>1, <1>7
    <2>5. QED  BY <2>3, <2>4 DEF Compensation
  <1>9. s.stages[c].status = "pending" /\ s.stages[c].phase # "bake" /\ s.stages[c].rows = rows
    BY <1>4, <1>7
  <1> HIDE DEF c
  <1>10. /\ Alike(s, q) /\ q.stage = c
         /\ q.stages[c].status # "pending"
         /\ q.status = "awaiting_ack"
         /\ \A n \in DOMAIN rows : /\ new[n].gen = Len(g[n]) + 1
                                   /\ new[n].status = "pending"
                                   /\ h[n] = Append(g[n], rows[n].desired)
         /\ \A n \in Node \ DOMAIN rows : h[n] = g[n]
    BY <1>1, <1>9, Publishing
  <1> HIDE DEF next
  <1>11. /\ Compensation(q) = {c} /\ \A n : Live(q, h, a, n) = Live(s, h, a, n)
         /\ DOMAIN new = DOMAIN rows /\ Len(q.stages) = c /\ q.quiet = r.quiet
         /\ q.baselines = r.baselines /\ q.placements = r.placements
    <2>1. Compensation(q) = Compensation(s) /\ \A n : Live(q, h, a, n) = Live(s, h, a, n)
      BY <1>1, <1>7, <1>10, AlikeCourse
    <2>2. QED  BY <1>1, <1>6, <1>7, <1>8, <1>9, <1>10, <2>1 DEF Alike
  <1>12. \A n \in Node : g[n] \in Seq(NodeState) /\ Len(g[n]) \in Nat /\ a[n] \in Nat
    BY DEF Generations
  <1>13. ASSUME NEW n \in DOMAIN rows
         PROVE  /\ n \in Node /\ new[n].gen = Len(g[n]) + 1 /\ new[n].status = "pending"
                /\ Len(g[n]) \in Nat /\ Len(h[n]) = Len(g[n]) + 1
                /\ StateAt(h, n, Len(g[n]) + 1) = r.baselines[n]
    <2>1. n \in Node /\ r.baselines[n] \in NodeState /\ g[n] \in Seq(NodeState)
      BY <1>0, <1>3, <1>12, <1>13 DEF PublishedNodes, NodeStates
    <2>2. h[n] = Append(g[n], r.baselines[n])
      BY <1>3, <1>10, <1>13
    <2>3. ASSUME NEW z \in Seq(NodeState), NEW x \in NodeState
          PROVE  Len(Append(z, x)) = Len(z) + 1 /\ Append(z, x)[Len(z) + 1] = x
      BY <2>3
    <2>4. Len(h[n]) = Len(g[n]) + 1 /\ h[n][Len(g[n]) + 1] = r.baselines[n]
      BY <2>1, <2>2, <2>3
    <2>5. QED  BY <1>10, <1>12, <1>13, <2>1, <2>4 DEF StateAt
  <1>14. RowsDue(new, h, a)
    <2>1. ASSUME NEW n \in DOMAIN new
          PROVE  new[n].gen \in 1 .. Len(h[n]) /\ new[n].status # "applied"
      <3>1. n \in DOMAIN rows
        BY <1>11, <2>1
      <3>2. new[n].gen = Len(g[n]) + 1 /\ Len(h[n]) = Len(g[n]) + 1 /\ Len(g[n]) \in Nat
        BY <1>13, <3>1
      <3>3. new[n].status = "pending"
        BY <1>13, <3>1
      <3>4. QED  BY <3>2, <3>3
    <2>2. QED  BY <2>1 DEF RowsDue
  <1>15. Restored(q, h, a)
    <2> SUFFICES ASSUME NEW n \in Node, NEW i \in Live(q, h, a, n), Reached(new, n, i)
                 PROVE  Given(h, n, i, r.baselines[n])
      BY <1>10, <1>11 DEF Restored
    <2>1. CASE n \in DOMAIN rows
      <3>1. /\ new[n].gen = Len(g[n]) + 1 /\ Len(h[n]) = Len(g[n]) + 1 /\ Len(g[n]) \in Nat
            /\ StateAt(h, n, Len(g[n]) + 1) = r.baselines[n]
        BY <1>13, <2>1
      <3>2. new[n].gen <= i
        BY <1>11, <2>1 DEF Reached
      <3>3. i \in 0 .. Len(h[n])
        BY DEF Live
      <3>4. i = Len(g[n]) + 1
        BY <3>1, <3>2, <3>3
      <3>5. QED  BY <3>1, <3>4 DEF Given
    <2>2. CASE n \notin DOMAIN rows
      <3>1. h[n] = g[n] /\ n \in Node \ PublishedNodes(r)
        BY <1>3, <1>10, <2>2
      <3>2. i \in Live(r, g, a, n) /\ StateAt(h, n, i) = StateAt(g, n, i)
        BY <1>11, <3>1 DEF Live, StateAt
      <3>3. Given(g, n, i, r.baselines[n])
        BY <3>1, <3>2 DEF Untouched
      <3>4. QED  BY <3>2, <3>3 DEF Given
    <2>3. QED  BY <2>1, <2>2
  <1>16. LastStage(q)
    <2>1. c \in 1 .. c
      BY <1>1, <1>7
    <2>2. QED  BY <1>10, <1>11, <2>1 DEF LastStage
  <1>17. Undoing(q, h, a)
    BY <1>10, <1>14, <1>15, <1>16 DEF Undoing
  <1>18. QED  BY <1>10, <1>11, <1>17 DEF next, c, s

-----------------------------------------------------------------------------
(* A compensation that there is already is left as it is.                  *)

LEMMA UndoingFacts ==
    ASSUME NEW r, GoodRollout(r), NEW g, NEW a, Undoing(r, g, a)
    PROVE  /\ r.stage \in 1 .. Len(r.stages) /\ r.stage = Len(r.stages)
           /\ Compensation(r) = {r.stage} /\ r.stages[r.stage].phase = "compensate"
           /\ r.stages[r.stage].status # "pending"
           /\ DOMAIN r.stages = 1 .. Len(r.stages) /\ Len(r.stages) \in Nat
           /\ RowsDue(r.stages[r.stage].rows, g, a)
           /\ \A n \in DOMAIN r.stages[r.stage].rows : n \in Node /\ r.stages[r.stage].rows[n] \in Row
  <1>1. /\ r.stage \in 1 .. Len(r.stages) /\ r.stage = Len(r.stages)
        /\ Compensation(r) = {r.stage} /\ r.stages[r.stage].status # "pending"
        /\ RowsDue(r.stages[r.stage].rows, g, a)
    BY DEF Undoing, LastStage
  <1>2. r.stages[r.stage].phase = "compensate"
    BY <1>1 DEF Compensation
  <1>3. QED  BY <1>1, <1>2, StageFacts

LEMMA Again ==
    ASSUME NEW r, GoodRollout(r), NEW g, NEW a, Undoing(r, g, a)
    PROVE  LET s    == ensureCompensationStage(r)
               next == publishClusterStageTx(s, s.stage, g)
               q    == next.rollout
           IN  /\ Undoing(q, next.gens, a) /\ q.status = "rolling_back"
               /\ q.placements = r.placements /\ q.baselines = r.baselines
  <1> DEFINE s == ensureCompensationStage(r)
             c == r.stage
             next == publishClusterStageTx(s, s.stage, g)
  <1>1. /\ c \in 1 .. Len(r.stages) /\ Compensation(r) = {c} /\ r.stages[c].status # "pending"
        /\ DOMAIN r.stages = 1 .. Len(r.stages) /\ RowsDue(r.stages[c].rows, g, a)
    BY UndoingFacts
  <1>2. s = [r EXCEPT !.status = "rolling_back", !.stage = c]
    BY <1>1 DEF ensureCompensationStage
  <1>3. /\ s.status = "rolling_back" /\ s.stage = c /\ s.stages = r.stages
        /\ s.baselines = r.baselines /\ s.placements = r.placements /\ s.quiet = r.quiet
    BY <1>2 DEF GoodRollout, RolloutRow
  <1> HIDE DEF s
  <1>4. next = [rollout |-> s, gens |-> g]
    BY <1>1, <1>3 DEF publishClusterStageTx
  <1>5. next.rollout = s /\ next.gens = g
    BY <1>4
  <1> HIDE DEF next
  <1>6. Alike(r, s) /\ SameGens(r, s)
    BY <1>3 DEF Alike, SameGens
  <1>7. Undoing(s, g, a)
    BY <1>1, <1>3, <1>6, UndoingKept
  <1>8. QED  BY <1>3, <1>5, <1>7 DEF next, s

LEMMA Republishing ==
    ASSUME NEW r, GoodRollout(r), NEW g, NEW a, Undoing(r, g, a)
    PROVE  publishClusterStageTx(r, r.stage, g) = [rollout |-> r, gens |-> g]
  BY UndoingFacts DEF publishClusterStageTx

LEMMA Undone ==
    ASSUME NEW r, GoodRollout(r), NEW g, NEW a, Undoing(r, g, a), AllApplied(r.stages[r.stage].rows)
    PROVE  LET next == completeClusterStageTx(r, r.stage, g)
               q    == next.rollout
           IN  /\ Undoing(q, next.gens, a) /\ q.status = "rolled_back"
               /\ q.placements = r.placements /\ q.baselines = r.baselines
  <1> DEFINE c == r.stage
             new == [r.stages[c] EXCEPT !.status = "completed"]
             q == Moved(r, "rolled_back", c, c, new)
             next == completeClusterStageTx(r, c, g)
  <1>1. /\ c \in 1 .. Len(r.stages) /\ r.stages[c].phase = "compensate"
        /\ DOMAIN r.stages = 1 .. Len(r.stages) /\ RowsDue(r.stages[c].rows, g, a)
    BY UndoingFacts
  <1>2. r.stages[c] \in Stage
    BY <1>1, StageFacts
  <1>3. new.rows = r.stages[c].rows /\ new.phase = r.stages[c].phase /\ new.status = "completed"
    BY <1>2 DEF Stage
  <1>4. next = [rollout |-> q, gens |-> g]
    BY <1>1 DEF completeClusterStageTx, Moved, GoodRollout, RolloutRow
  <1> HIDE DEF new
  <1>5. /\ q.quiet = r.quiet /\ q.baselines = r.baselines /\ q.placements = r.placements
        /\ q.status = "rolled_back" /\ q.stage = c
        /\ Len(q.stages) = Len(r.stages) /\ DOMAIN q.stages = DOMAIN r.stages
        /\ \A i \in 1 .. Len(r.stages) : q.stages[i] = IF i = c THEN new ELSE r.stages[i]
    BY <1>1, MovedFields
  <1>6. next.rollout = q /\ next.gens = g
    BY <1>4
  <1> HIDE DEF q, next
  <1>7. Alike(r, q) /\ SameGens(r, q) /\ q.stages[c] = new
    BY <1>1, <1>3, <1>5 DEF Alike, SameGens
  <1>8. Undoing(q, g, a)
    BY <1>1, <1>3, <1>5, <1>7, UndoingKept
  <1>9. QED  BY <1>5, <1>6, <1>8 DEF next

-----------------------------------------------------------------------------
(* A stage fails.                                                          *)

LEMMA Failing ==
    ASSUME NEW r, GoodRollout(r), NEW g, NEW a, Proceeds(r, g, a), r.status # "none",
           r.status # "completed",
           NEW k \in 1 .. Len(r.stages), Compensation(r) = {} => k <= r.stage
    PROVE  LET q == requestClusterRollbackTx(r, k)
           IN  /\ Proceeds(q, g, a) /\ q.status \in {"failed", "rollback_pending"}
               /\ q.placements = r.placements /\ q.baselines = r.baselines
  <1> DEFINE c == r.stage
             new == [r.stages[k] EXCEPT !.status = "failed"]
             status == IF r.stages[k].phase = "compensate" THEN "failed" ELSE "rollback_pending"
             q == Moved(r, status, c, k, new)
  <1>1. requestClusterRollbackTx(r, k) = q
    BY DEF requestClusterRollbackTx, Moved, GoodRollout, RolloutRow
  <1>2. r.stages[k] \in Stage /\ DOMAIN r.stages = 1 .. Len(r.stages) /\ Len(r.stages) \in Nat
    BY StageFacts
  <1>3. new.rows = r.stages[k].rows /\ new.phase = r.stages[k].phase /\ new.status = "failed"
    BY <1>2 DEF Stage
  <1>4. /\ status \in {"failed", "rollback_pending"}
        /\ Compensation(r) = {} => status = "rollback_pending"
    BY <1>2 DEF Compensation
  <1> HIDE DEF new, status
  <1>5. /\ q.quiet = r.quiet /\ q.baselines = r.baselines /\ q.placements = r.placements
        /\ q.status = status /\ q.stage = c
        /\ Len(q.stages) = Len(r.stages) /\ DOMAIN q.stages = DOMAIN r.stages
        /\ \A i \in 1 .. Len(r.stages) : q.stages[i] = IF i = k THEN new ELSE r.stages[i]
    BY MovedFields
  <1> HIDE DEF q
  <1>6. /\ Alike(r, q) /\ SameGens(r, q)
        /\ \A i \in 1 .. Len(r.stages) : q.stages[i].rows = r.stages[i].rows
    BY <1>3, <1>5 DEF Alike, SameGens
  <1>7. Compensation(q) = Compensation(r)
    BY <1>2, <1>6, AlikeCourse
  <1>8. ASSUME Compensation(r) = {}
        PROVE  Advancing(q, g, a)
    <2>1. /\ Advancing(r, g, a) /\ InOrder(r) /\ c \in 1 .. Len(r.stages) /\ k <= c
          /\ RowsDue(r.stages[c].rows, g, a)
      BY <1>8 DEF Proceeds, Advancing, InOrder
    <2>2. InOrder(q)
      <3>1. /\ c \in 1 .. Len(q.stages)
            /\ q.status = "rollback_pending"
        BY <1>4, <1>5, <1>8, <2>1
      <3>2. \A j \in 1 .. c - 1 : AllApplied(q.stages[j].rows)
        <4>1. \A j \in 1 .. c - 1 : AllApplied(r.stages[j].rows) /\ j \in 1 .. Len(r.stages)
          BY <1>2, <2>1 DEF InOrder
        <4>2. QED  BY <1>6, <4>1
      <3>3. \A j \in c + 1 .. Len(q.stages) : q.stages[j] = r.stages[j]
        BY <1>2, <1>5, <2>1
      <3>4. \A j \in c + 1 .. Len(q.stages) :
                /\ q.stages[j].status = "pending"
                /\ \A n \in DOMAIN q.stages[j].rows : q.stages[j].rows[n].gen = 0
        BY <1>5, <2>1, <3>3 DEF InOrder
      <3>5. QED  BY <1>5, <3>1, <3>2, <3>4 DEF InOrder
    <2>3. RowsDue(q.stages[c].rows, g, a)
      BY <1>6, <2>1
    <2>4. QED  BY <1>2, <1>5, <1>6, <2>1, <2>2, <2>3, AdvancingKept
  <1>9. ASSUME Compensation(r) # {}
        PROVE  Undoing(q, g, a)
    <2>1. Undoing(r, g, a)
      BY <1>9 DEF Proceeds
    <2>2. c \in 1 .. Len(r.stages) /\ r.stages[c].status # "pending" /\ RowsDue(r.stages[c].rows, g, a)
      BY <2>1, UndoingFacts
    <2>3. q.stages[c].status # "pending" /\ RowsDue(q.stages[c].rows, g, a)
      BY <1>3, <1>5, <1>6, <2>2
    <2>4. QED  BY <1>2, <1>4, <1>5, <1>6, <2>1, <2>3, UndoingKept
  <1>10. Proceeds(q, g, a)
    BY <1>4, <1>5, <1>7, <1>8, <1>9 DEF Proceeds
  <1>11. QED  BY <1>1, <1>4, <1>5, <1>10

-----------------------------------------------------------------------------
(* A result is recorded.                                                   *)

LEMMA Recording ==
    ASSUME NEW r, GoodRollout(r), NEW g, NEW a, Proceeds(r, g, a),
           NEW result \in Result, result.gen # 0,
           result.status = "applied" => result.gen <= a[result.node],
           NEW k \in DOMAIN r.stages, Matches(r, result, k)
    PROVE  LET q == WithResult(r, result, k)
           IN  /\ Proceeds(q, g, a)
               /\ q.status = r.status /\ q.stage = r.stage /\ r.status # "none"
               /\ q.placements = r.placements /\ q.baselines = r.baselines
               /\ Len(q.stages) = Len(r.stages)
               /\ Compensation(q) = {} => k <= q.stage
  <1> DEFINE c == r.stage
             x == result.node
             old == r.stages[k].rows
             rows == [old EXCEPT ![x].status = result.status]
             new == [r.stages[k] EXCEPT !.rows = rows]
             q == Moved(r, r.status, c, k, new)
  <1>1. DOMAIN r.stages = 1 .. Len(r.stages) /\ Len(r.stages) \in Nat
    BY DEF GoodRollout, RolloutRow
  <1>2. /\ r.stages[k] \in Stage
        /\ \A n \in DOMAIN old : n \in Node /\ old[n] \in Row
    BY <1>1, StageFacts
  <1>3. /\ x \in DOMAIN old /\ old[x].gen = result.gen
        /\ old[x].status = "applied" => result.status = "applied"
    BY DEF Matches
  <1>4. WithResult(r, result, k) = q
    BY <1>1, <1>2, <1>3 DEF WithResult, Moved, GoodRollout, RolloutRow, Stage
  <1>5. /\ DOMAIN rows = DOMAIN old
        /\ \A n \in DOMAIN old :
              /\ rows[n].gen = old[n].gen /\ rows[n].desired = old[n].desired
              /\ rows[n].status = IF n = x THEN result.status ELSE old[n].status
    BY <1>2, <1>3 DEF Row
  <1> HIDE DEF rows
  <1>6. new.rows = rows /\ new.phase = r.stages[k].phase /\ new.status = r.stages[k].status
    BY <1>2 DEF Stage
  <1> HIDE DEF new
  <1>7. /\ q.quiet = r.quiet /\ q.baselines = r.baselines /\ q.placements = r.placements
        /\ q.status = r.status /\ q.stage = c
        /\ Len(q.stages) = Len(r.stages) /\ DOMAIN q.stages = DOMAIN r.stages
        /\ \A i \in 1 .. Len(r.stages) : q.stages[i] = IF i = k THEN new ELSE r.stages[i]
    BY <1>1, MovedFields
  <1> HIDE DEF q
  <1>8. Alike(r, q) /\ SameGens(r, q)
    BY <1>1, <1>5, <1>6, <1>7 DEF Alike, SameGens
  <1>9. Compensation(q) = Compensation(r)
    BY <1>1, <1>8, AlikeCourse
  <1>10. r.status # "none"
    BY <1>1 DEF Proceeds
  <1>11. \A i \in 1 .. Len(r.stages) :
             AllApplied(r.stages[i].rows) => AllApplied(q.stages[i].rows)
    BY <1>1, <1>3, <1>5, <1>6, <1>7 DEF AllApplied
  <1>12. ASSUME c \in 1 .. Len(r.stages), RowsDue(r.stages[c].rows, g, a)
         PROVE  RowsDue(q.stages[c].rows, g, a)
    <2>1. CASE c # k
      BY <1>7, <1>12, <2>1
    <2>2. CASE c = k
      <3>1. q.stages[c].rows = rows
        BY <1>6, <1>7, <1>12, <2>2
      <3>2. ASSUME NEW n \in DOMAIN rows
            PROVE  /\ rows[n].gen \in 1 .. Len(g[n])
                   /\ rows[n].status = "applied" => rows[n].gen <= a[n]
        <4>1. /\ old[n].gen \in 1 .. Len(g[n])
              /\ old[n].status = "applied" => old[n].gen <= a[n]
          BY <1>5, <1>12, <2>2, <3>2 DEF RowsDue
        <4>2. QED  BY <1>3, <1>5, <3>2, <4>1
      <3>3. QED  BY <3>1, <3>2 DEF RowsDue
    <2>3. QED  BY <2>1, <2>2
  <1>13. ASSUME Compensation(r) = {}
         PROVE  Advancing(q, g, a) /\ k <= c
    <2>1. /\ Advancing(r, g, a) /\ InOrder(r) /\ c \in 1 .. Len(r.stages)
          /\ RowsDue(r.stages[c].rows, g, a)
      BY <1>10, <1>13 DEF Proceeds, Advancing, InOrder
    <2>2. k <= c
      <3> SUFFICES ASSUME ~(k <= c) PROVE FALSE
        OBVIOUS
      <3>1. k \in c + 1 .. Len(r.stages)
        BY <1>1, <2>1
      <3>2. old[x].gen = 0
        BY <1>3, <2>1, <3>1 DEF InOrder
      <3>3. QED  BY <1>3, <3>2
    <2>3. InOrder(q)
      <3>1. \A j \in 1 .. c - 1 : AllApplied(q.stages[j].rows)
        <4>1. \A j \in 1 .. c - 1 : AllApplied(r.stages[j].rows) /\ j \in 1 .. Len(r.stages)
          BY <1>1, <2>1 DEF InOrder
        <4>2. QED  BY <1>11, <4>1
      <3>2. \A j \in c + 1 .. Len(q.stages) : q.stages[j] = r.stages[j]
        BY <1>1, <1>7, <2>1, <2>2
      <3>3. \A j \in c + 1 .. Len(q.stages) :
                /\ q.stages[j].status = "pending"
                /\ \A n \in DOMAIN q.stages[j].rows : q.stages[j].rows[n].gen = 0
        BY <1>7, <2>1, <3>2 DEF InOrder
      <3>4. q.status \in {"completed", "baking"} => AllApplied(q.stages[c].rows)
        BY <1>7, <1>11, <2>1 DEF InOrder
      <3>5. /\ c \in 1 .. Len(q.stages)
            /\ q.status \in {"awaiting_ack", "baking", "rollback_pending", "completed"}
            /\ q.status = "completed" => c = Len(q.stages)
        BY <1>7, <2>1 DEF InOrder
      <3>6. QED  BY <1>7, <3>1, <3>3, <3>4, <3>5 DEF InOrder
    <2>4. RowsDue(q.stages[c].rows, g, a)
      BY <1>12, <2>1
    <2>5. Advancing(q, g, a)
      BY <1>1, <1>7, <1>8, <2>1, <2>3, <2>4, AdvancingKept
    <2>6. QED  BY <2>2, <2>5
  <1>14. ASSUME Compensation(r) # {}
         PROVE  Undoing(q, g, a)
    <2>1. Undoing(r, g, a)
      BY <1>14 DEF Proceeds
    <2>2. c \in 1 .. Len(r.stages) /\ r.stages[c].status # "pending" /\ RowsDue(r.stages[c].rows, g, a)
      BY <2>1, UndoingFacts
    <2>3. q.stages[c].status # "pending" /\ RowsDue(q.stages[c].rows, g, a)
      BY <1>6, <1>7, <1>12, <2>2
    <2>4. /\ q.status \in {"awaiting_ack", "rollback_pending", "rolling_back", "rolled_back", "failed"}
          /\ q.status = "rolled_back" => AllApplied(q.stages[c].rows)
      BY <1>7, <1>11, <2>1, <2>2 DEF Undoing, LastStage
    <2>5. QED  BY <1>1, <1>7, <1>8, <2>1, <2>3, <2>4, UndoingKept
  <1>15. Proceeds(q, g, a)
    BY <1>7, <1>9, <1>10, <1>13, <1>14 DEF Proceeds
  <1>16. QED  BY <1>4, <1>7, <1>9, <1>10, <1>13, <1>15

-----------------------------------------------------------------------------
LEMMA AdvancingProceeds ==
    ASSUME NEW r, NEW g, NEW a, Advancing(r, g, a), Compensation(r) = {}
    PROVE  Proceeds(r, g, a)
  BY DEF Advancing, InOrder, Proceeds

LEMMA UndoingProceeds ==
    ASSUME NEW r, NEW g, NEW a, Undoing(r, g, a)
    PROVE  Proceeds(r, g, a)
  BY DEF Undoing, LastStage, Proceeds

(* Nothing but a schedule or the last stage changes what is committed.     *)
LEMMA StillCommitted ==
    ASSUME NEW r, NEW g, NEW p, Committed(r, g, p), r.status \notin {"none", "completed"},
           NEW q, NEW h, q.baselines = r.baselines, q.status \notin {"none", "completed"}
    PROVE  Committed(q, h, p)
  BY DEF Committed

LEMMA LaterCommitted ==
    ASSUME NEW r, NEW g \in Generations, NEW a \in [Node -> Nat], NEW h \in Generations,
           NEW b \in [Node -> Nat], NEW p,
           Later(r, g, a, h, b), Proceeds(r, g, a), Committed(r, g, p)
    PROVE  Committed(r, h, p)
  <1>1. ASSUME r.status = "none", NEW n \in Node
        PROVE  Shape(StateAt(h, n, Len(h[n]))) = Compile(p)[n]
    <2>1. Len(h[n]) \in Nat /\ Len(g[n]) \in Nat
      BY DEF Generations
    <2>2. Len(h[n]) \in Live(r, h, b, n)
      BY <2>1 DEF Live
    <2>3. PICK j \in Live(r, g, a, n) : Given(h, n, Len(h[n]), StateAt(g, n, j))
      BY <2>2 DEF Later
    <2>4. j = Len(g[n])
      BY <1>1, <2>3 DEF Live, Proceeds
    <2>5. Shape(StateAt(g, n, Len(g[n]))) = Compile(p)[n]
      BY <1>1 DEF Committed
    <2>6. QED  BY <2>3, <2>4, <2>5 DEF Given
  <1>2. QED  BY <1>1 DEF Committed

(* When a rollout is over, a node that came to its last stage has what the *)
(* committed placements give it.                                           *)
LEMMA FinalGiven ==
    ASSUME NEW r, GoodRollout(r), NEW g \in Generations, NEW a \in [Node -> Nat], NEW p,
           Proceeds(r, g, a), Committed(r, g, p), r.status \in FinalStatus,
           NEW n \in Node, NEW i \in Live(r, g, a, n), Reached(r.stages[r.stage].rows, n, i)
    PROVE  Shape(StateAt(g, n, i)) = Compile(p)[n]
  <1>1. CASE Compensation(r) = {}
    <2>1. Advancing(r, g, a) /\ InOrder(r) /\ Midway(r, g, a)
      BY <1>1 DEF Proceeds, FinalStatus, Advancing
    <2>2. r.status = "completed" /\ r.stage = Len(r.stages)
      BY <2>1 DEF InOrder, FinalStatus
    <2>3. PICK w : /\ OnCourse(r, w)
                   /\ Given(g, n, i, w[r.stage][n])
      BY <2>1 DEF Midway
    <2>4. Shape(w[r.stage][n]) = Compile(r.placements)[n]
      BY <2>2, <2>3 DEF OnCourse
    <2>5. Compile(p) = Compile(r.placements)
      BY <2>2 DEF Committed
    <2>6. QED  BY <2>3, <2>4, <2>5 DEF Given
  <1>2. CASE Compensation(r) # {}
    <2>1. LastStage(r) /\ Restored(r, g, a)
      BY <1>2 DEF Proceeds, Undoing
    <2>2. r.status \notin {"none", "completed"}
      BY <2>1 DEF LastStage
    <2>3. Given(g, n, i, r.baselines[n])
      BY <2>1 DEF Restored
    <2>4. Shape(r.baselines[n]) = Compile(p)[n]
      BY <2>2 DEF Committed
    <2>5. QED  BY <2>3, <2>4 DEF Given
  <1>3. QED  BY <1>1, <1>2

(* Between rollouts the nodes are to have the committed placements.        *)
LEMMA LatestCommitted ==
    ASSUME NEW r, GoodRollout(r), NEW g \in Generations, NEW a \in [Node -> Nat], NEW p,
           Proceeds(r, g, a), Committed(r, g, p), r.status \notin ActiveStatus, NEW n \in Node
    PROVE  Shape(StateAt(g, n, Len(g[n]))) = Compile(p)[n]
  <1>1. r.status = "none" \/ r.status \in FinalStatus
    BY DEF GoodRollout, RolloutRow
  <1>2. CASE r.status = "none"
    BY <1>2 DEF Committed
  <1>3. CASE r.status \in FinalStatus
    <2>1. Len(g[n]) \in Nat
      BY DEF Generations
    <2>2. Len(g[n]) \in Live(r, g, a, n)
      BY <2>1 DEF Live
    <2>3. RowsDue(r.stages[r.stage].rows, g, a)
      BY <1>3 DEF Proceeds, Advancing, Undoing, FinalStatus
    <2>4. Reached(r.stages[r.stage].rows, n, Len(g[n]))
      BY <2>1, <2>3 DEF RowsDue, Reached
    <2>5. QED  BY <1>3, <2>2, <2>4, FinalGiven
  <1>4. QED  BY <1>1, <1>2, <1>3

-----------------------------------------------------------------------------
(* The invariant holds initially and through all steps.                    *)

LEMMA PlacedApart ==
    ASSUME NEW layout, IsPlaced(layout)
    PROVE  Apart(PlacementOf(layout))
  BY DEF IsPlaced, Apart, PlacementOf

LEMMA SettledInit == Init => SettledInv
  <1> SUFFICES ASSUME Init PROVE SettledInv
    OBVIOUS
  <1>1. scenario \in Scenarios /\ IsPlaced(scenario.installed) /\ scenario.installed \in Layout
    BY ScenariosAssumption, ScenarioFacts DEF Init
  <1>2. placements = PlacementOf(scenario.installed) /\ rollout = NoRollout /\ results = {}
    BY DEF Init
  <1>3. /\ rollout.status = "none" /\ rollout.stages = <<>> /\ rollout.quiet = FALSE
        /\ rollout.placements = <<>>
    BY <1>2 DEF NoRollout
  <1>4. Apart(placements) /\ Apart(rollout.placements)
    BY <1>1, <1>2, <1>3, PlacedApart DEF Apart
  <1>5. Compensation(rollout) = {}
    BY <1>3 DEF Compensation
  <1>6. Proceeds(rollout, gens, applied)
    BY <1>3, <1>5 DEF Proceeds
  <1>7. ASSUME NEW n \in Node
        PROVE  Shape(StateAt(gens, n, Len(gens[n]))) = Compile(placements)[n]
    <2> DEFINE state == Compile(scenario.installed)[n]
    <2>1. gens[n] = IF state = emptyStageState THEN <<>> ELSE <<state>>
      BY DEF Init
    <2> HIDE DEF state
    <2>2. StateAt(gens, n, Len(gens[n])) = state
      BY <2>1 DEF StateAt
    <2>3. QED  BY <1>1, <1>2, <2>2, CompileShape DEF state
  <1>8. Committed(rollout, gens, placements)
    BY <1>3, <1>7 DEF Committed
  <1>9. ResultsInv
    BY <1>2 DEF ResultsInv
  <1>10. QED  BY <1>4, <1>6, <1>8, <1>9 DEF SettledInv

(* What a step other than those of the Agents leaves.                      *)
LEMMA ResultsKept ==
    ASSUME ResultsInv, UNCHANGED applied, results' \subseteq results
    PROVE  ResultsInv'
  BY DEF ResultsInv

LEMMA SettledSame ==
    ASSUME SettledInv, UNCHANGED <<gens, placements, rollout, agents>>
    PROVE  SettledInv'
  BY DEF SettledInv, ResultsInv, agents

LEMMA SettledSchedule ==
    ASSUME RolloutInv, SettledInv, MaySchedule, UNCHANGED agents,
           NEW layout, IsPlaced(layout), NEW force, schedulePlanTx(layout, force)
    PROVE  SettledInv'
  <1> DEFINE current == [n \in Node |-> Desired(n)]
             target == preserveRuntimeLifecycles(current, Compile(layout))
  <1>0. /\ gens \in Generations /\ applied \in [Node -> Nat] /\ GoodRollout(rollout)
        /\ Apart(placements) /\ Apart(rollout.placements) /\ ResultsInv
        /\ Proceeds(rollout, gens, applied) /\ Committed(rollout, gens, placements)
    BY DEF RolloutInv, NodesInv, SettledInv
  <1>1. layout \in Layout /\ Apart(PlacementOf(layout))
    BY LayoutFacts, PlacedApart DEF IsPlaced
  <1>2. ResultsInv' /\ applied' = applied
    BY <1>0, ResultsKept DEF agents
  <1>3. \A n \in Node : Shape(Desired(n)) = Compile(placements)[n]
    <2>1. rollout.status \notin ActiveStatus
      BY DEF MaySchedule, Active
    <2>2. QED  BY <1>0, <2>1, DesiredAt, LatestCommitted
  <1>4. CASE UNCHANGED <<gens, placements, rollout>>
    BY <1>4, SettledSame
  <1>5. CASE ~ UNCHANGED <<gens, placements, rollout>>
    <2>1. PICK canary :
              LET stages == BuildRolloutStages(current, target, canary)
              IN  /\ SafeRollout(current, target, stages)
                  /\ CommitPlacements(layout, stages)
                  /\ IF stages = <<>> THEN UNCHANGED <<gens, rollout>>
                     ELSE Becomes(publishClusterStageTx(
                              StartedRollout(layout, stages, current), 1, gens))
      BY <1>5 DEF schedulePlanTx
    <2> DEFINE stages == BuildRolloutStages(current, target, canary)
               next == publishClusterStageTx(StartedRollout(layout, stages, current), 1, gens)
               q == next.rollout
    <2>2. validateRoleTransitions(current, target)
      BY <2>1 DEF SafeRollout
    <2>3. /\ stages = <<>> => Compile(PlacementOf(layout)) = Compile(placements)
          /\ stages # <<>> =>
                /\ Advancing(q, next.gens, applied)
                /\ Compensation(q) = {}
                /\ q.status \in {"awaiting_ack", "baking"}
                /\ q.placements = PlacementOf(layout)
                /\ \A n \in Node : Shape(q.baselines[n]) = Compile(placements)[n]
      <3> DEFINE now == current
                 then == target
      <3>1. now = [n \in Node |-> Desired(n)]
        OBVIOUS
      <3>2. then = preserveRuntimeLifecycles(now, Compile(layout)) /\ validateRoleTransitions(now, then)
        BY <2>2
      <3>3. stages = BuildRolloutStages(now, then, canary)
        OBVIOUS
      <3>4. next = publishClusterStageTx(StartedRollout(layout, stages, now), 1, gens)
        OBVIOUS
      <3> HIDE DEF now, then, stages, next
      <3>5. QED
        BY ONLY RolloutInv, <1>0, <1>1, <1>3, <3>1, <3>2, <3>3, <3>4, Starting
    <2>4. /\ placements' = IF stages = <<>> THEN PlacementOf(layout) ELSE placements
          /\ stages = <<>> => UNCHANGED <<gens, rollout>>
          /\ stages # <<>> => rollout' = q /\ gens' = next.gens
      BY <2>1 DEF CommitPlacements, Becomes
    <2> HIDE DEF stages, next
    <2>5. CASE stages = <<>>
      <3>1. Committed(rollout, gens, PlacementOf(layout))
        BY <1>0, <2>3, <2>5 DEF Committed
      <3>2. QED  BY <1>0, <1>1, <1>2, <2>4, <2>5, <3>1 DEF SettledInv
    <2>6. CASE stages # <<>>
      <3>1. Proceeds(q, next.gens, applied) /\ Apart(q.placements)
        BY <1>1, <2>3, <2>6, AdvancingProceeds
      <3>2. Committed(q, next.gens, placements)
        BY <2>3, <2>6 DEF Committed
      <3>3. QED  BY <1>0, <1>2, <2>4, <2>6, <3>1, <3>2 DEF SettledInv
    <2>7. QED  BY <2>5, <2>6
  <1>6. QED  BY <1>4, <1>5

LEMMA SettledPlan ==
    ASSUME RolloutInv, SettledInv,
           \/ \E newPlan \in scenario.plans : ApplyNewRevision(newPlan)
           \/ ReapplyRevision
           \/ \E revision \in 1 .. Len(revisions) : RollbackClusterPlan(revision)
           \/ ReconcileClusterPlans
    PROVE  SettledInv'
  <1>1. /\ \A i \in 1 .. Len(revisions) : revisions[i] \in scenario.plans
        /\ active \in 0 .. Len(revisions) /\ Len(revisions) \in Nat
        /\ \A p \in scenario.plans : \A layout \in p : IsPlaced(layout)
    BY ScenariosAssumption DEF RolloutInv, PlanInv
  <1>2. ASSUME ScheduleBlocked, UNCHANGED agents PROVE SettledInv'
    BY <1>2, SettledSame DEF ScheduleBlocked
  <1>3. ASSUME NEW newPlan \in scenario.plans, ApplyNewRevision(newPlan) PROVE SettledInv'
    BY <1>1, <1>2, <1>3, SettledSchedule DEF ApplyNewRevision
  <1>4. ASSUME ReapplyRevision \/ ReconcileClusterPlans PROVE SettledInv'
    <2>0. active # 0
      BY <1>4 DEF ReapplyRevision, ReconcileClusterPlans
    <2>1. \A layout \in revisions[active] : IsPlaced(layout)
      <3>1. active \in 1 .. Len(revisions)
        BY <1>1, <2>0
      <3>2. QED  BY <1>1, <3>1
    <2>2. QED  BY <1>2, <1>4, <2>1, SettledSchedule DEF ReapplyRevision, ReconcileClusterPlans
  <1>5. ASSUME NEW revision \in 1 .. Len(revisions), RollbackClusterPlan(revision)
        PROVE  SettledInv'
    BY <1>1, <1>5, SettledSchedule DEF RollbackClusterPlan
  <1>6. QED  BY <1>3, <1>4, <1>5

LEMMA SettledAdvance ==
    ASSUME RolloutInv, SettledInv, AdvanceClusterRollouts
    PROVE  SettledInv'
  <1>0. /\ gens \in Generations /\ applied \in [Node -> Nat] /\ GoodRollout(rollout)
        /\ \A n \in Node : applied[n] <= Len(gens[n])
        /\ Apart(placements) /\ Apart(rollout.placements) /\ ResultsInv
        /\ Proceeds(rollout, gens, applied) /\ Committed(rollout, gens, placements)
    BY DEF RolloutInv, NodesInv, SettledInv
  <1>1. UNCHANGED agents
    BY DEF AdvanceClusterRollouts, StartCompensation, Republish, StageAcknowledged, ACKTimeout,
           CanaryBakeFailure, BakeOver, CompleteStage, FailStage, AdvanceFrame
  <1>2. ResultsInv' /\ applied' = applied
    BY <1>0, <1>1, ResultsKept DEF agents
  <1>3. ASSUME NEW q, NEW h, rollout' = q, gens' = h, Proceeds(q, h, applied),
               q.placements = rollout.placements, UNCHANGED placements,
               Committed(q, h, placements)
        PROVE  SettledInv'
    BY <1>0, <1>2, <1>3 DEF SettledInv
  <1>4. ASSUME StartCompensation PROVE SettledInv'
    <2> DEFINE s == ensureCompensationStage(rollout)
               next == publishClusterStageTx(s, s.stage, gens)
               q == next.rollout
    <2>1. /\ rollout' = q /\ gens' = next.gens /\ UNCHANGED placements
          /\ rollout.status = "rollback_pending"
      BY <1>4 DEF StartCompensation, Becomes
    <2>2. /\ Undoing(q, next.gens, applied) /\ q.status \in {"awaiting_ack", "rolling_back"}
          /\ q.placements = rollout.placements /\ q.baselines = rollout.baselines
      <3>1. CASE Compensation(rollout) = {}
        <4>1. Untouched(rollout, gens, applied)
          BY <1>0, <2>1, <3>1 DEF Proceeds, Advancing
        <4>2. QED  BY <1>0, <3>1, <4>1, Compensating
      <3>2. CASE Compensation(rollout) # {}
        <4>1. Undoing(rollout, gens, applied)
          BY <1>0, <3>2 DEF Proceeds
        <4>2. QED  BY <1>0, <4>1, Again
      <3>3. QED  BY <3>1, <3>2
    <2> HIDE DEF next
    <2>3. Proceeds(q, next.gens, applied)
      BY <2>2, UndoingProceeds
    <2>4. Committed(q, next.gens, placements)
      BY <1>0, <2>1, <2>2, StillCommitted
    <2>5. QED  BY <1>3, <2>1, <2>2, <2>3, <2>4
  <1>5. ASSUME Republish PROVE SettledInv'
    <2>1. rollout.status \in {"publishing", "rolling_back"}
      BY <1>5 DEF Republish
    <2>2. Compensation(rollout) # {}
      BY <1>0, <2>1 DEF Proceeds, Advancing, InOrder
    <2>3. Undoing(rollout, gens, applied)
      BY <1>0, <2>2 DEF Proceeds
    <2>4. publishClusterStageTx(rollout, rollout.stage, gens) = [rollout |-> rollout, gens |-> gens]
      BY <1>0, <2>3, Republishing
    <2>5. UNCHANGED <<gens, placements, rollout, agents>>
      BY <1>1, <1>5, <2>4 DEF Republish, Becomes
    <2>6. QED  BY <2>5, SettledSame
  <1>6. ASSUME CompleteStage, rollout.status \in {"awaiting_ack", "baking"},
               rollout.status = "awaiting_ack" => Acknowledged(rollout)
        PROVE  SettledInv'
    <2> DEFINE next == completeClusterStageTx(rollout, rollout.stage, gens)
               q == next.rollout
    <2>1. /\ rollout' = q /\ gens' = next.gens
          /\ placements' = IF q.status = "completed" THEN rollout.placements ELSE placements
      BY <1>6 DEF CompleteStage, Becomes
    <2>2. CASE Compensation(rollout) = {}
      <3>1. Advancing(rollout, gens, applied)
        BY <1>0, <1>6, <2>2 DEF Proceeds
      <3>2. AllApplied(rollout.stages[rollout.stage].rows)
        BY <1>6, <3>1 DEF Acknowledged, AllApplied, Advancing, InOrder
      <3>3. /\ Advancing(q, next.gens, applied) /\ Alike(rollout, q)
            /\ q.status \in {"awaiting_ack", "baking", "completed"}
        BY <1>0, <2>2, <3>1, <3>2, Completing
      <3> HIDE DEF next
      <3>4. DOMAIN rollout.stages = 1 .. Len(rollout.stages)
        BY <1>0 DEF GoodRollout, RolloutRow
      <3>5. Compensation(q) = {} /\ q.placements = rollout.placements /\ q.baselines = rollout.baselines
        BY <2>2, <3>3, <3>4, AlikeCourse DEF Alike
      <3>6. Proceeds(q, next.gens, applied)
        BY <3>3, <3>5, AdvancingProceeds
      <3>7. CASE q.status = "completed"
        <4>1. Committed(q, next.gens, rollout.placements)
          BY <3>5, <3>7 DEF Committed
        <4>2. QED  BY <1>0, <1>2, <2>1, <3>5, <3>6, <3>7, <4>1 DEF SettledInv
      <3>8. CASE q.status # "completed"
        <4>1. Committed(q, next.gens, placements)
          BY <1>0, <1>6, <3>3, <3>5, <3>8, StillCommitted
        <4>2. placements' = placements
          BY <2>1, <3>8
        <4>3. QED  BY <1>3, <2>1, <3>5, <3>6, <4>1, <4>2
      <3>9. QED  BY <3>7, <3>8
    <2>3. CASE Compensation(rollout) # {}
      <3>1. Undoing(rollout, gens, applied)
        BY <1>0, <2>3 DEF Proceeds
      <3>2. AllApplied(rollout.stages[rollout.stage].rows)
        BY <1>6, <3>1 DEF Acknowledged, AllApplied, Undoing, LastStage
      <3>3. /\ Undoing(q, next.gens, applied) /\ q.status = "rolled_back"
            /\ q.placements = rollout.placements /\ q.baselines = rollout.baselines
        BY <1>0, <3>1, <3>2, Undone
      <3> HIDE DEF next
      <3>4. Proceeds(q, next.gens, applied)
        BY <3>3, UndoingProceeds
      <3>5. Committed(q, next.gens, placements)
        BY <1>0, <1>6, <3>3, StillCommitted
      <3>6. placements' = placements
        BY <2>1, <3>3
      <3>7. QED  BY <1>3, <2>1, <3>3, <3>4, <3>5, <3>6
    <2>4. QED  BY <2>2, <2>3
  <1>7. ASSUME FailStage, rollout.status \in {"awaiting_ack", "baking"}
        PROVE  SettledInv'
    <2> DEFINE k == rollout.stage
               q == requestClusterRollbackTx(rollout, k)
    <2>1. k \in 1 .. Len(rollout.stages) /\ k <= k
      BY <1>0, <1>7 DEF GoodRollout, RolloutRow, ActiveStatus
    <2>2. /\ Proceeds(q, gens, applied) /\ q.status \in {"failed", "rollback_pending"}
          /\ q.placements = rollout.placements /\ q.baselines = rollout.baselines
      BY <1>0, <1>7, <2>1, Failing
    <2>3. rollout' = q /\ UNCHANGED <<gens, placements>>
      BY <1>7 DEF FailStage
    <2> HIDE DEF q
    <2>4. Committed(q, gens, placements)
      BY <1>0, <1>7, <2>2, StillCommitted
    <2>5. QED  BY <1>3, <2>2, <2>3, <2>4
  <1>8. QED
    BY <1>4, <1>5, <1>6, <1>7
       DEF AdvanceClusterRollouts, StageAcknowledged, ACKTimeout, CanaryBakeFailure, BakeOver

LEMMA SettledAgent ==
    ASSUME RolloutInv, SettledInv, NEW n \in Node, NEW gen \in 1 .. Len(gens[n]),
           AgentApplies(n, gen) \/ AgentFails(n, gen)
    PROVE  SettledInv'
  <1>0. /\ gens \in Generations /\ applied \in [Node -> Nat] /\ GoodRollout(rollout)
        /\ results \subseteq Result
        /\ Apart(placements) /\ Apart(rollout.placements) /\ ResultsInv
        /\ Proceeds(rollout, gens, applied) /\ Committed(rollout, gens, placements)
    BY DEF RolloutInv, NodesInv, SettledInv
  <1>1. /\ UNCHANGED <<gens, placements, rollout>>
        /\ gen \in applied[n] + 1 .. Len(gens[n])
        /\ applied' = applied \/ applied' = [applied EXCEPT ![n] = gen]
        /\ \E status : /\ results' = results \cup {[node |-> n, gen |-> gen, status |-> status]}
                       /\ status = "applied" => applied' = [applied EXCEPT ![n] = gen]
    <2>1. CASE AgentApplies(n, gen)
      BY <2>1 DEF AgentApplies
    <2>2. CASE AgentFails(n, gen)
      <3>1. results' = results \cup {[node |-> n, gen |-> gen, status |-> "permanent_error"]}
        BY <2>2 DEF AgentFails
      <3>2. "permanent_error" # "applied"
        OBVIOUS
      <3>3. QED  BY <2>2, <3>1, <3>2 DEF AgentFails
    <2>3. QED  BY <2>1, <2>2
  <1>2. gen \in Nat /\ gen # 0 /\ applied[n] < gen
    <2>1. Len(gens[n]) \in Nat /\ applied[n] \in Nat
      BY <1>0 DEF Generations
    <2>2. QED  BY <1>1, <2>1
  <1> DEFINE b == applied'
  <1>3. b \in [Node -> Nat] /\ \A m \in Node : applied[m] <= b[m]
    <2>1. CASE b = applied
      BY <1>0, <2>1
    <2>2. CASE b = [applied EXCEPT ![n] = gen]
      <3>1. ASSUME NEW m \in Node PROVE applied[m] <= b[m]
        BY <1>0, <1>2, <2>2
      <3>2. QED  BY <1>0, <1>2, <2>2, <3>1
    <2>3. QED  BY <1>1, <2>1, <2>2
  <1>4. ResultsInv'
    <2> SUFFICES ASSUME NEW result \in results'
                 PROVE  /\ result.gen # 0
                        /\ result.status = "applied" => result.gen <= b[result.node]
      BY DEF ResultsInv
    <2>1. CASE result \in results
      <3>1. /\ result.gen # 0 /\ result.gen \in Nat /\ result.node \in Node
            /\ result.status = "applied" => result.gen <= applied[result.node]
        BY <1>0, <2>1 DEF ResultsInv, Result
      <3>2. applied[result.node] \in Nat /\ b[result.node] \in Nat
            /\ applied[result.node] <= b[result.node]
        BY <1>0, <1>3, <3>1
      <3> HIDE DEF b
      <3>3. QED  BY <3>1, <3>2
    <2>2. CASE result \notin results
      <3>1. PICK status : /\ result = [node |-> n, gen |-> gen, status |-> status]
                          /\ status = "applied" => b = [applied EXCEPT ![n] = gen]
        BY <1>1, <2>2
      <3>2. /\ result.node = n /\ result.gen = gen
            /\ result.status = "applied" => b[n] = gen
        BY <1>0, <3>1
      <3>3. QED  BY <1>2, <3>2
    <2>3. QED  BY <2>1, <2>2
  <1> HIDE DEF b
  <1>5. Later(rollout, gens, applied, gens, b)
    BY <1>0, <1>3, ApplyingLater
  <1>6. Proceeds(rollout, gens, b)
    BY <1>0, <1>3, <1>5, LaterProceeds
  <1>7. QED  BY <1>0, <1>1, <1>4, <1>6 DEF SettledInv, b

LEMMA SettledRecord ==
    ASSUME RolloutInv, SettledInv, NEW result \in results, recordClusterRolloutACKTx(result)
    PROVE  SettledInv'
  <1>0. /\ GoodRollout(rollout) /\ result \in Result
        /\ Apart(placements) /\ Apart(rollout.placements) /\ ResultsInv
        /\ Proceeds(rollout, gens, applied) /\ Committed(rollout, gens, placements)
    BY DEF RolloutInv, NodesInv, SettledInv
  <1>1. results' \subseteq results /\ UNCHANGED <<gens, applied, placements>>
    BY DEF recordClusterRolloutACKTx
  <1>2. ResultsInv'
    BY <1>0, <1>1, ResultsKept
  <1>3. ASSUME NEW q, rollout' = q, Proceeds(q, gens, applied),
               q.placements = rollout.placements, Committed(q, gens, placements)
        PROVE  SettledInv'
    BY <1>0, <1>1, <1>2, <1>3 DEF SettledInv
  <1>4. CASE MatchedStages(result) = {}
    <2>1. rollout' = rollout
      BY <1>4 DEF recordClusterRolloutACKTx
    <2>2. QED  BY <1>0, <1>3, <2>1
  <1>5. CASE MatchedStages(result) # {}
    <2>1. PICK k \in MatchedStages(result) :
              LET r == WithResult(rollout, result, k)
              IN  IF result.status = "permanent_error" /\ Active
                  THEN rollout' = requestClusterRollbackTx(r, k)
                  ELSE rollout' = r
      BY <1>5 DEF recordClusterRolloutACKTx
    <2> DEFINE r == WithResult(rollout, result, k)
               q == requestClusterRollbackTx(r, k)
    <2>2. k \in DOMAIN rollout.stages /\ Matches(rollout, result, k)
      BY DEF MatchedStages
    <2>3. /\ result.gen # 0
          /\ result.status = "applied" => result.gen <= applied[result.node]
      BY <1>0 DEF ResultsInv
    <2>4. /\ Proceeds(r, gens, applied)
          /\ r.status = rollout.status /\ r.stage = rollout.stage /\ rollout.status # "none"
          /\ r.placements = rollout.placements /\ r.baselines = rollout.baselines
          /\ Len(r.stages) = Len(rollout.stages)
          /\ Compensation(r) = {} => k <= r.stage
      BY <1>0, <2>2, <2>3, Recording
    <2>5. GoodRollout(r)
      <3>1. k \in 1 .. Len(rollout.stages)
        BY <1>0, <2>2 DEF GoodRollout, RolloutRow
      <3>2. QED  BY <1>0, <2>2, <3>1, ResultKept
    <2> HIDE DEF r
    <2>6. CASE result.status = "permanent_error" /\ Active
      <3>1. rollout' = q
        BY <2>1, <2>6 DEF r
      <3>2. r.status \notin {"none", "completed"}
        BY <2>4, <2>6 DEF Active, ActiveStatus
      <3>3. k \in 1 .. Len(r.stages)
        BY <1>0, <2>2, <2>4 DEF GoodRollout, RolloutRow
      <3>4. /\ Proceeds(q, gens, applied) /\ q.status \in {"failed", "rollback_pending"}
            /\ q.placements = r.placements /\ q.baselines = r.baselines
        BY <2>4, <2>5, <3>2, <3>3, Failing
      <3> HIDE DEF q
      <3>5. Committed(q, gens, placements)
        BY <1>0, <2>4, <3>2, <3>4, StillCommitted
      <3>6. QED  BY <1>3, <2>4, <3>1, <3>4, <3>5
    <2>7. CASE ~(result.status = "permanent_error" /\ Active)
      <3>1. rollout' = r
        BY <2>1, <2>7 DEF r
      <3>2. Committed(r, gens, placements)
        BY <1>0, <2>4 DEF Committed
      <3>3. QED  BY <1>3, <2>4, <3>1, <3>2
    <2>8. QED  BY <2>6, <2>7
  <1>6. QED  BY <1>4, <1>5

LEMMA SettledQuota ==
    ASSUME RolloutInv, SettledInv, NEW n \in Node, NEW exceeded \in SUBSET Forward,
           QuotaPause(n, exceeded)
    PROVE  SettledInv'
  <1> DEFINE old == Desired(n)
             forwards == [f \in DOMAIN old.forwards |->
                             IF f \in exceeded
                             THEN [old.forwards[f] EXCEPT !.paused = TRUE, !.version = @ + 1]
                             ELSE old.forwards[f]]
             new == [old EXCEPT !.forwards = forwards]
             h == [gens EXCEPT ![n] = Append(gens[n], new)]
  <1>0. /\ gens \in Generations /\ applied \in [Node -> Nat] /\ GoodRollout(rollout)
        /\ \A m \in Node : applied[m] <= Len(gens[m])
        /\ Apart(placements) /\ Apart(rollout.placements) /\ ResultsInv
        /\ Proceeds(rollout, gens, applied) /\ Committed(rollout, gens, placements)
    BY DEF RolloutInv, NodesInv, SettledInv
  <1>1. old \in NodeState /\ old = StateAt(gens, n, Len(gens[n]))
    BY <1>0, DesiredType, DesiredAt
  <1>2. gens' = h /\ UNCHANGED <<agents, placements, rollout>>
    <2>1. gens' = h
      BY DEF QuotaPause
    <2>2. QED  BY <2>1 DEF QuotaPause
  <1> HIDE DEF old
  <1>3. \A f \in DOMAIN old.forwards : f \in Forward /\ old.forwards[f] \in Entry
    BY <1>1, LayoutFacts DEF NodeState
  <1>4. ASSUME NEW e \in Entry
        PROVE  LET d == [e EXCEPT !.paused = TRUE, !.version = @ + 1]
               IN  /\ d \in Entry
                   /\ d.ingress = e.ingress /\ d.exit = e.exit /\ d.port = e.port
    <2>1. e.version + 1 \in Nat
      BY DEF Entry
    <2>2. QED  BY <2>1 DEF Entry
  <1>5. forwards \in [DOMAIN old.forwards -> Entry]
    BY <1>3, <1>4
  <1>6. PlacementOf(forwards) = PlacementOf(old.forwards)
    BY <1>3, <1>4 DEF PlacementOf
  <1>7. forwards \in Layout
    BY <1>3, <1>5 DEF Layout
  <1> HIDE DEF forwards
  <1>8. new \in NodeState /\ Shape(new) = Shape(old)
    BY <1>1, <1>6, <1>7 DEF NodeState, Shape
  <1> HIDE DEF new
  <1>9. h \in Generations
    <2>1. gens[n] \in Seq(NodeState)
      BY <1>0 DEF Generations
    <2>2. Append(gens[n], new) \in Seq(NodeState)
      BY <1>8, <2>1
    <2>3. QED  BY <1>0, <2>2 DEF Generations
  <1>10. Later(rollout, gens, applied, h, applied)
    BY <1>0, <1>1, <1>8, PausingLater
  <1> HIDE DEF h
  <1>11. Proceeds(rollout, h, applied) /\ Committed(rollout, h, placements)
    BY <1>0, <1>9, <1>10, LaterProceeds, LaterCommitted
  <1>12. QED  BY <1>0, <1>2, <1>11 DEF SettledInv, ResultsInv, agents

LEMMA SettledInductive == Spec => []SettledInv
  <1>1. RolloutInv /\ SettledInv /\ [Next]_vars => SettledInv'
    <2> SUFFICES ASSUME RolloutInv, SettledInv, [Next]_vars PROVE SettledInv'
      OBVIOUS
    <2>1. CASE UNCHANGED vars
      BY <2>1, SettledSame DEF vars, agents
    <2>2. CASE Next
      BY <2>2, SettledPlan, SettledAdvance, SettledAgent, SettledRecord, SettledQuota DEF Next
    <2>3. QED  BY <2>1, <2>2
  <1>2. QED  BY <1>1, SettledInit, RolloutInductive, PTL DEF Spec

-----------------------------------------------------------------------------
(* What the Agents run.                                                    *)

LEMMA ShapeFacts ==
    ASSUME NEW s, NEW t, Shape(s) = Shape(t)
    PROVE  /\ s.links = t.links /\ PlacementOf(s.forwards) = PlacementOf(t.forwards)
           /\ DOMAIN s.forwards = DOMAIN t.forwards
           /\ \A f \in DOMAIN t.forwards :
                 /\ s.forwards[f].ingress = t.forwards[f].ingress
                 /\ s.forwards[f].exit = t.forwards[f].exit
                 /\ s.forwards[f].port = t.forwards[f].port
  <1>1. s.links = t.links /\ PlacementOf(s.forwards) = PlacementOf(t.forwards)
    <2>1. Shape(s).forwards = Shape(t).forwards /\ Shape(s).links = Shape(t).links
      OBVIOUS
    <2>2. QED  BY <2>1 DEF Shape
  <1>2. \A x : DOMAIN PlacementOf(x) = DOMAIN x
    BY DEF PlacementOf
  <1>3. DOMAIN s.forwards = DOMAIN t.forwards
    BY <1>1, <1>2
  <1>4. \A x : \A f \in DOMAIN x : /\ PlacementOf(x)[f].ingress = x[f].ingress
                                   /\ PlacementOf(x)[f].exit = x[f].exit
                                   /\ PlacementOf(x)[f].port = x[f].port
    BY DEF PlacementOf
  <1>5. ASSUME NEW f \in DOMAIN t.forwards
        PROVE  /\ s.forwards[f].ingress = t.forwards[f].ingress
               /\ s.forwards[f].exit = t.forwards[f].exit
               /\ s.forwards[f].port = t.forwards[f].port
    BY <1>1, <1>3, <1>4, <1>5
  <1>6. QED  BY <1>1, <1>3, <1>5

(* Whichever of two neighbouring stages each node has come to.             *)
LEMMA MixSound ==
    ASSUME NEW u \in NodeStates, NEW v \in NodeStates, NEW run \in NodeStates, NEW moves,
           Coherent(u, v, moves),
           \A n \in Node : Shape(run[n]) = Shape(u[n]) \/ Shape(run[n]) = Shape(v[n])
    PROVE  Sound(run, run, moves)
  <1> SUFFICES ASSUME NEW n \in Node, NEW f \in IngressAt(run[n], n),
                      run[n].forwards[f].exit # NoNode
               PROVE  LET entry == run[n].forwards[f]
                          exit  == run[entry.exit]
                      IN  /\ Has(exit, f)
                          /\ exit.forwards[f].exit = entry.exit
                          /\ exit.forwards[f].ingress = n
                          /\ exit.forwards[f].port = entry.port \/ f \in moves
                          /\ n \in exit.links
                          /\ entry.exit \in run[n].links
    BY DEF Sound
  <1> DEFINE e == run[n].forwards[f].exit
             Two == {u, v}
  <1>1. e \in Node
    <2>1. run[n].forwards \in Layout /\ f \in DOMAIN run[n].forwards
      BY DEF NodeStates, NodeState, IngressAt
    <2>2. run[n].forwards[f] \in Entry
      BY <2>1, LayoutFacts
    <2>3. QED  BY <2>2 DEF Entry
  <1>2. PICK x \in Two : Shape(run[n]) = Shape(x[n])
    OBVIOUS
  <1>3. PICK y \in Two : Shape(run[e]) = Shape(y[e])
    BY <1>1
  <1>4. Sound(x, y, moves)
    BY DEF Coherent
  <1> HIDE DEF Two
  <1>5. /\ f \in DOMAIN x[n].forwards /\ f \in IngressAt(x[n], n) /\ x[n].forwards[f].exit = e
        /\ x[n].forwards[f].port = run[n].forwards[f].port /\ x[n].links = run[n].links
    BY <1>2, ShapeFacts DEF IngressAt
  <1> HIDE DEF e
  <1>6. e # NoNode
    BY DEF e
  <1>7. /\ Has(y[e], f) /\ y[e].forwards[f].exit = e /\ y[e].forwards[f].ingress = n
        /\ y[e].forwards[f].port = x[n].forwards[f].port \/ f \in moves
        /\ n \in y[e].links /\ e \in x[n].links
    BY <1>4, <1>5, <1>6 DEF Sound
  <1>8. /\ Has(run[e], f) /\ run[e].forwards[f].exit = e /\ run[e].forwards[f].ingress = n
        /\ run[e].forwards[f].port = y[e].forwards[f].port /\ run[e].links = y[e].links
    BY <1>3, <1>7, ShapeFacts DEF Has
  <1>9. QED  BY <1>5, <1>7, <1>8 DEF e

LEMMA RunningAt ==
    ASSUME RolloutInv, NEW n \in Node
    PROVE  /\ Running(n) = StateAt(gens, n, applied[n])
           /\ Running(n) \in NodeState
           /\ rollout.quiet => applied[n] \in Live(rollout, gens, applied, n)
  <1>1. /\ gens[n] \in Seq(NodeState) /\ Len(gens[n]) \in Nat /\ applied[n] \in Nat
        /\ applied[n] <= Len(gens[n])
    BY DEF RolloutInv, NodesInv, Generations
  <1>2. Running(n) = StateAt(gens, n, applied[n])
    BY DEF Running, StateAt
  <1>3. applied[n] # 0 => gens[n][applied[n]] \in NodeState
    BY <1>1
  <1>4. Running(n) \in NodeState
    BY <1>3, NodeStateFacts DEF Running
  <1>5. rollout.quiet => applied[n] \in Live(rollout, gens, applied, n)
    BY <1>1 DEF Live
  <1>6. QED  BY <1>2, <1>4, <1>5

(* A rollout that is over, with all rows of its last stage applied.        *)
LEMMA RunningSettled ==
    ASSUME RolloutInv, SettledInv, rollout.quiet,
           rollout.status \in {"completed", "rolled_back"}, NEW n \in Node
    PROVE  Shape(Running(n)) = Compile(placements)[n]
  <1> DEFINE rows == rollout.stages[rollout.stage].rows
  <1>0. /\ gens \in Generations /\ applied \in [Node -> Nat] /\ GoodRollout(rollout)
        /\ Proceeds(rollout, gens, applied) /\ Committed(rollout, gens, placements)
    BY DEF RolloutInv, NodesInv, SettledInv
  <1>1. RowsDue(rows, gens, applied) /\ AllApplied(rows)
    BY <1>0 DEF Proceeds, Advancing, InOrder, Undoing, LastStage
  <1>2. Reached(rows, n, applied[n])
    BY <1>1 DEF RowsDue, AllApplied, Reached
  <1>3. rollout.status \in FinalStatus
    BY DEF FinalStatus
  <1>4. Running(n) = StateAt(gens, n, applied[n]) /\ applied[n] \in Live(rollout, gens, applied, n)
    BY RunningAt
  <1>5. QED  BY <1>0, <1>2, <1>3, <1>4, FinalGiven

(* A rollout that has ended well, or that has been compensated, leaves     *)
(* every node running exactly the committed placements, apart from pauses, *)
(* however many rollouts and compensations there were before, whatever the *)
(* canaries, in whatever order the Agents apply and answer, and with quota *)
(* pauses at any time (BuildRolloutStages, ensureCompensationStage,        *)
(* completeClusterStageTx and replacePlacements).                          *)
THEOREM PlacementsAlwaysSettled == Spec => []SettledPlacements
  <1>1. RolloutInv /\ SettledInv => SettledPlacements
    <2> SUFFICES ASSUME RolloutInv, SettledInv, rollout.quiet,
                        rollout.status \in {"completed", "rolled_back"}, NEW n \in Node
                 PROVE  /\ PlacementOf(Running(n).forwards) = Compile(placements)[n].forwards
                        /\ Running(n).links = Compile(placements)[n].links
      BY DEF SettledPlacements
    <2>1. Shape(Running(n)) = Compile(placements)[n]
      BY RunningSettled
    <2>2. /\ Shape(Running(n)).forwards = Compile(placements)[n].forwards
          /\ Shape(Running(n)).links = Compile(placements)[n].links
      BY <2>1
    <2>3. QED  BY <2>2 DEF Shape
  <1>2. QED  BY <1>1, RolloutInductive, SettledInductive, PTL

(* Make before break: a rollout that starts when every Agent is up to date *)
(* never leaves an ingress that sends to an exit which is not ready for    *)
(* it, for any layouts and canary, in whatever order the Agents apply the  *)
(* generations of a stage and however many of them they skip, until it is  *)
(* compensated; only a port that is changed at an exit the forward keeps   *)
(* is not agreed on meanwhile (BuildRolloutStages,                         *)
(* validateRoleTransitions, completeClusterStageTx).                       *)
THEOREM PathsAlwaysPreserved == Spec => []PathPreserved
  <1>1. RolloutInv /\ SettledInv => PathPreserved
    <2> SUFFICES ASSUME RolloutInv, SettledInv, rollout.quiet, Compensation(rollout) = {},
                        NEW n \in Node, NEW f \in IngressAt(Running(n), n)
                 PROVE  PathUp(n, f)
      BY DEF PathPreserved
    <2> DEFINE run == [m \in Node |-> Running(m)]
               c == rollout.stage
               rows == rollout.stages[c].rows
               moves == IF Active THEN PortMoving(rollout) ELSE {}
    <2>0. /\ GoodRollout(rollout) /\ placements \in Placement
          /\ Apart(placements) /\ Proceeds(rollout, gens, applied)
      BY DEF RolloutInv, PlanInv, SettledInv
    <2>1. run \in NodeStates /\ \A m \in Node : run[m] = Running(m)
      BY RunningAt DEF NodeStates
    <2>2. Advancing(rollout, gens, applied) /\ InOrder(rollout) /\ Midway(rollout, gens, applied)
      BY <2>0 DEF Proceeds, Advancing
    <2>3. c \in 1 .. Len(rollout.stages) /\ Len(rollout.stages) \in Nat
      BY <2>0, <2>2 DEF InOrder, GoodRollout, RolloutRow
    <2> HIDE DEF run
    <2>4. Sound(run, run, moves)
      <3>1. CASE Active
        <4>1. PICK w : /\ OnCourse(rollout, w)
                       /\ \A m \in Node : \A i \in Live(rollout, gens, applied, m) :
                             Given(gens, m, i, IF Reached(rows, m, i) THEN w[c][m]
                                               ELSE w[c - 1][m])
          BY <2>2 DEF Midway
        <4>2. /\ Coherent(w[c - 1], w[c], PortMoving(rollout))
              /\ w[c - 1] \in NodeStates /\ w[c] \in NodeStates
          <5>1. c \in 0 .. Len(rollout.stages) /\ c - 1 \in 0 .. Len(rollout.stages)
            BY <2>3
          <5>2. QED  BY <2>3, <4>1, <5>1 DEF OnCourse
        <4>3. ASSUME NEW m \in Node
              PROVE  Shape(run[m]) = Shape(w[c - 1][m]) \/ Shape(run[m]) = Shape(w[c][m])
          BY <2>1, <4>1, <4>3, RunningAt DEF Given
        <4> DEFINE u == w[c - 1]
                   v == w[c]
        <4>4. /\ Coherent(u, v, PortMoving(rollout)) /\ u \in NodeStates /\ v \in NodeStates
              /\ \A m \in Node : Shape(run[m]) = Shape(u[m]) \/ Shape(run[m]) = Shape(v[m])
          BY <4>2, <4>3
        <4> HIDE DEF u, v
        <4>5. Sound(run, run, PortMoving(rollout))
          BY <2>1, <4>4, MixSound
        <4>6. QED  BY <3>1, <4>5
      <3>2. CASE ~Active
        <4>1. rollout.status = "completed"
          BY <2>2, <3>2 DEF InOrder, Active, ActiveStatus
        <4>2. \A m \in Node : Shape(run[m]) = Compile(placements)[m]
          BY <2>1, <4>1, RunningSettled
        <4>3. Serves(run, placements)
          BY <2>0, <2>1, <4>2, ShapeServes
        <4> DEFINE P == {placements}
        <4>4. /\ \A p \in P : p \in Placement /\ Apart(p)
              /\ \A g \in Forward : \E p \in P : InBy(run, p, g) /\ OutBy(run, p, g, {})
          BY <2>0, <2>1, <4>3, ServesBy
        <4> HIDE DEF P
        <4>5. Sound(run, run, {})
          BY <2>1, <4>4, BySound
        <4>6. QED  BY <3>2, <4>5
      <3>3. QED  BY <3>1, <3>2
    <2>5. f \in moves => Active /\ PortMoves(rollout, f)
      BY DEF PortMoving
    <2> HIDE DEF moves
    <2> DEFINE e == Running(n).forwards[f].exit
    <2>6. CASE e = NoNode
      BY <2>6 DEF PathUp
    <2>7. CASE e # NoNode
      <3>1. e \in Node
        <4>1. Running(n).forwards \in Layout /\ f \in DOMAIN Running(n).forwards
          BY RunningAt DEF NodeState, IngressAt
        <4>2. Running(n).forwards[f] \in Entry
          BY <4>1, LayoutFacts
        <4>3. QED  BY <2>7, <4>2 DEF Entry
      <3>2. run[n] = Running(n) /\ run[e] = Running(e)
        BY <2>1, <3>1
      <3>3. /\ Has(run[e], f) /\ run[e].forwards[f].exit = e /\ run[e].forwards[f].ingress = n
            /\ run[e].forwards[f].port = Running(n).forwards[f].port \/ f \in moves
            /\ n \in run[e].links /\ e \in Running(n).links
        BY <2>4, <2>7, <3>2 DEF Sound
      <3>4. QED  BY <2>5, <2>7, <3>2, <3>3 DEF PathUp
    <2>8. QED  BY <2>6, <2>7
  <1>2. QED  BY <1>1, RolloutInductive, SettledInductive, PTL

=============================================================================
