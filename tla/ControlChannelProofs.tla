------------------------ MODULE ControlChannelProofs ------------------------
(***************************************************************************)
(* What TLAPS proves about ControlChannel, for any contents, any number of *)
(* generations and of events in a stream, and any number of failures.      *)
(***************************************************************************)
EXTENDS ControlChannel, SequenceTheorems, TLAPS

-----------------------------------------------------------------------------
(* The inductive invariant.                                                *)

GenerationRow == [content : Content, status : Status, cause : 0 .. MaxGen]

(* What every store satisfies, the running one and the archived one: there *)
(* is room to complete a force deletion, the newest applied generation is  *)
(* known, and a completion follows what it completes.                      *)
GoodStore(rows, newest) ==
    /\ rows \in Seq(GenerationRow)
    /\ Len(rows) <= MaxGen
    /\ newest \in 0 .. MaxGen
    /\ \A g \in 1 .. Len(rows) :
          /\ rows[g].content \in Forced => g < MaxGen
          /\ rows[g].status = "applied" => g <= newest
          /\ rows[g].cause # 0 => rows[g].cause = g - 1 /\ rows[g - 1].status = "applied"

(* The archive is an earlier store.                                        *)
StoreInv ==
    /\ GoodStore(gens, nodeApplied)
    /\ nodeApplied <= applied.gen
    /\ backup # NoBackup =>
          /\ restored = "no"
          /\ GoodStore(backup.gens, backup.nodeApplied)
          /\ backup.nodeApplied <= applied.gen
          /\ Len(backup.gens) <= Len(gens)
          /\ \A g \in 1 .. Len(backup.gens) : backup.gens[g].content = gens[g].content

(* A stream belongs to a session and starts with one Hello, which opens    *)
(* the connectionState.                                                    *)
SessionInv ==
    /\ ~connected => ~conn.open /\ uplink = <<>> /\ downlink = <<>>
    /\ ~conn.open => conn = Closed
    /\ \A i \in 1 .. Len(uplink) : uplink[i].kind = "hello" => i = 1 /\ ~conn.open

(* The events that report what the Agent has applied.                      *)
Reports(event) == event.kind \in {"hello", "applied"}

(* Reports are made of what is durable and stay in order in a stream.      *)
ReportInv ==
    /\ \A i \in 1 .. Len(uplink) : Reports(uplink[i]) =>
          /\ uplink[i].desired.gen <= applied.gen
          /\ conn.open => conn.applied.gen <= uplink[i].desired.gen
          /\ \A j \in 1 .. i : Reports(uplink[j]) => uplink[j].desired.gen <= uplink[i].desired.gen
    /\ conn.open => conn.applied.gen <= applied.gen
    /\ \A m \in late : m.kind = "applied" => m.desired.gen <= applied.gen

(* KnownGeneration, of any store.                                          *)
KnownIn(rows, d) == d.gen \in 1 .. Len(rows) /\ rows[d.gen].content = d.content
AgreedIn(rows, d) == d = Empty \/ KnownIn(rows, d)

(* Unless a restore lost generations, everything the Agent has or has      *)
(* under way is a generation of the store, and the snapshots under way are *)
(* in order and not older than what the Agent has accepted.                *)
AgreeInv ==
    restored # "lossy" =>
        /\ \A d \in {applied, pending, localResult, conn.applied} : AgreedIn(gens, d)
        /\ \A i \in 1 .. Len(uplink) : AgreedIn(gens, uplink[i].desired)
        /\ \A m \in late : KnownIn(gens, m.desired)
        /\ \A i \in 1 .. Len(downlink) :
              /\ KnownIn(gens, downlink[i])
              /\ applied.gen <= downlink[i].gen
              /\ pending.gen <= downlink[i].gen
              /\ \A j \in 1 .. i : downlink[j].gen <= downlink[i].gen
        /\ ~dataLoss

ChannelInv == TypeOK /\ StoreInv /\ SessionInv /\ ReportInv /\ AgreeInv

-----------------------------------------------------------------------------
(* Facts about the state that many steps use.                              *)

Event == Results \cup {Hello(d) : d \in Desired \cup {Empty}}

LEMMA DesiredFacts ==
    /\ \A d \in Desired \cup {Empty} : d.gen \in 0 .. MaxGen /\ (d # Empty => d \in Desired)
    /\ \A d \in Desired : d.gen \in 1 .. MaxGen /\ d.content \in Content /\ d # Empty
    /\ Empty.gen = 0
  BY BoundAssumption DEF Desired, Empty, Generation

LEMMA EventFacts ==
    /\ \A m \in Results :
          /\ m \in Event
          /\ m.kind \in {"applied", "retryable", "permanent"}
          /\ m.desired \in Desired
    /\ \A m \in Event :
          /\ m.desired \in Desired \cup {Empty}
          /\ m.kind # "hello" => m \in Results
          /\ m.kind \in {"hello", "applied", "retryable", "permanent"}
  BY DEF Event, Results, Status, Hello

LEMMA ResultType ==
    ASSUME NEW kind \in {"applied", "retryable", "permanent"}, NEW d \in Desired
    PROVE  Result(kind, d) \in Results /\ Result(kind, d).kind = kind /\ Result(kind, d).desired = d
  BY DEF Result, Results, Status

LEMMA StateFacts ==
    ASSUME TypeOK
    PROVE  /\ Len(gens) \in Nat /\ Len(uplink) \in Nat /\ Len(downlink) \in Nat
           /\ uplink \in Seq(Event) /\ downlink \in Seq(Desired)
           /\ \A i \in 1 .. Len(uplink) : uplink[i] \in Event
           /\ \A i \in 1 .. Len(downlink) : downlink[i] \in Desired
           /\ DOMAIN gens = 1 .. Len(gens)
           /\ applied.gen \in 0 .. MaxGen /\ pending.gen \in 0 .. MaxGen
           /\ conn.applied.gen \in 0 .. MaxGen
  <1>1. /\ gens \in Seq([content : Content, status : Status, cause : 0 .. MaxGen])
        /\ uplink \in Seq(Event) /\ downlink \in Seq(Desired)
        /\ applied \in Desired \cup {Empty} /\ pending \in Desired \cup {Empty}
        /\ conn.applied \in Desired \cup {Empty}
    BY DEF TypeOK, Event
  <1>2. Len(gens) \in Nat /\ Len(uplink) \in Nat /\ Len(downlink) \in Nat /\ DOMAIN gens = 1 .. Len(gens)
    BY <1>1, LenProperties
  <1>3. /\ \A i \in 1 .. Len(uplink) : uplink[i] \in Event
        /\ \A i \in 1 .. Len(downlink) : downlink[i] \in Desired
    BY <1>1, ElementOfSeq
  <1>4. QED  BY <1>1, <1>2, <1>3, DesiredFacts

LEMMA KnownIs ==
    ASSUME TypeOK, NEW d
    PROVE  KnownGeneration(d) <=> KnownIn(gens, d)
  BY StateFacts DEF KnownGeneration, KnownIn

-----------------------------------------------------------------------------
(* The store.                                                              *)

(* The rows are those there were, some with another status, and more.      *)
StoreGrows ==
    /\ GoodStore(gens', nodeApplied')
    /\ nodeApplied' <= applied.gen
    /\ Len(gens) <= Len(gens')
    /\ \A g \in 1 .. Len(gens) : gens'[g].content = gens[g].content

LEMMA StoreSame ==
    ASSUME ChannelInv, UNCHANGED store
    PROVE  StoreGrows
  <1>1. gens' = gens /\ nodeApplied' = nodeApplied
    BY DEF store
  <1>2. Len(gens) \in Nat
    BY StateFacts DEF ChannelInv
  <1>3. QED  BY <1>1, <1>2 DEF StoreGrows, ChannelInv, StoreInv

LEMMA KnownGrows ==
    ASSUME ChannelInv, StoreGrows, NEW d
    PROVE  /\ KnownIn(gens, d) => KnownIn(gens', d)
           /\ AgreedIn(gens, d) => AgreedIn(gens', d)
  <1>1. Len(gens) \in Nat /\ Len(gens') \in Nat
    <2>1. gens' \in Seq(GenerationRow)
      BY DEF StoreGrows, GoodStore
    <2>2. QED  BY <2>1, LenProperties, StateFacts DEF ChannelInv
  <1>2. QED  BY <1>1 DEF StoreGrows, KnownIn, AgreedIn

LEMMA AppendGrows ==
    ASSUME NEW rows, NEW newest, GoodStore(rows, newest), Len(rows) < MaxGen,
           NEW row \in GenerationRow, row.status = "waiting",
           row.content \in Forced => Len(rows) + 1 < MaxGen,
           row.cause # 0 => row.cause = Len(rows) /\ rows[Len(rows)].status = "applied"
    PROVE  /\ GoodStore(Append(rows, row), newest)
           /\ Len(Append(rows, row)) = Len(rows) + 1
           /\ \A g \in 1 .. Len(rows) : Append(rows, row)[g] = rows[g]
  <1>0. /\ rows \in Seq(GenerationRow) /\ Len(rows) \in Nat
        /\ \A g \in 1 .. Len(rows) : rows[g] \in GenerationRow
    BY LenProperties, ElementOfSeq DEF GoodStore
  <1>1. /\ Append(rows, row) \in Seq(GenerationRow)
        /\ Len(Append(rows, row)) = Len(rows) + 1
        /\ \A g \in 1 .. Len(rows) : Append(rows, row)[g] = rows[g]
        /\ Append(rows, row)[Len(rows) + 1] = row
    BY <1>0, AppendProperties
  <1>2. ASSUME NEW g \in 1 .. Len(rows) + 1
        PROVE  /\ Append(rows, row)[g].content \in Forced => g < MaxGen
               /\ Append(rows, row)[g].status = "applied" => g <= newest
               /\ Append(rows, row)[g].cause # 0 =>
                     /\ Append(rows, row)[g].cause = g - 1
                     /\ Append(rows, row)[g - 1].status = "applied"
    <2>1. CASE g \in 1 .. Len(rows)
      <3>1. Append(rows, row)[g] = rows[g]
        BY <1>1, <2>1
      <3>2. rows[g].cause # 0 => g - 1 \in 1 .. Len(rows)
        <4>1. rows[g].cause \in 0 .. MaxGen
          BY <1>0, <2>1 DEF GenerationRow
        <4>2. QED  BY <1>0, <2>1, <4>1 DEF GoodStore
      <3>3. rows[g].cause # 0 => Append(rows, row)[g - 1] = rows[g - 1]
        BY <1>1, <3>2
      <3>4. QED  BY <2>1, <3>1, <3>3 DEF GoodStore
    <2>2. CASE g = Len(rows) + 1
      <3>1. Append(rows, row)[g] = row /\ g - 1 = Len(rows)
        BY <1>0, <1>1, <2>2
      <3>2. row.cause # 0 => Len(rows) \in 1 .. Len(rows)
        BY <1>0 DEF GenerationRow
      <3>3. row.cause # 0 => Append(rows, row)[g - 1] = rows[Len(rows)]
        BY <1>1, <3>1, <3>2
      <3>4. QED  BY <2>2, <3>1, <3>3
    <2>3. QED  BY <1>0, <2>1, <2>2
  <1>3. QED  BY <1>0, <1>1, <1>2, BoundAssumption DEF GoodStore

LEMMA PublishGrows ==
    ASSUME ChannelInv, NEW content \in Content, PublishDesired(content)
    PROVE  StoreGrows
  <1> DEFINE row == [content |-> content, status |-> "waiting", cause |-> 0]
  <1>1. /\ GoodStore(gens, nodeApplied) /\ nodeApplied <= applied.gen /\ Len(gens) \in Nat
        /\ nodeApplied' = nodeApplied
        /\ gens' = Append(gens, row)
        /\ Len(gens) < IF content \in Forced THEN MaxGen - 1 ELSE MaxGen
    BY StateFacts DEF ChannelInv, StoreInv, PublishDesired, publishDesiredTx
  <1>2. row \in GenerationRow /\ row.status = "waiting" /\ row.content = content /\ row.cause = 0
    BY BoundAssumption DEF GenerationRow, Status
  <1>3. Len(gens) < MaxGen /\ (content \in Forced => Len(gens) + 1 < MaxGen)
    BY <1>1, BoundAssumption
  <1> HIDE DEF row
  <1>4. /\ GoodStore(gens', nodeApplied')
        /\ Len(gens') = Len(gens) + 1
        /\ \A g \in 1 .. Len(gens) : gens'[g] = gens[g]
    BY <1>1, <1>2, <1>3, AppendGrows
  <1>5. QED  BY <1>1, <1>4 DEF StoreGrows

(* A result changes a status and, when it completes a force deletion,      *)
(* adds the generation that follows.                                       *)
LEMMA RecordGrows ==
    ASSUME ChannelInv, NEW result \in Results, KnownIn(gens, result.desired),
           result.kind = "applied" => result.desired.gen <= applied.gen,
           RecordApplyResult(result)
    PROVE  StoreGrows
  <1> DEFINE gen == result.desired.gen
             rows == WithStatus(result)
  <1>0. /\ GoodStore(gens, nodeApplied) /\ nodeApplied <= applied.gen /\ Len(gens) \in Nat
        /\ applied.gen \in 0 .. MaxGen
        /\ gen \in 1 .. Len(gens) /\ gen \in 1 .. MaxGen
        /\ result.kind \in {"applied", "retryable", "permanent"}
        /\ result.desired.content = gens[gen].content
    BY StateFacts, EventFacts, DesiredFacts DEF ChannelInv, StoreInv, KnownIn
  <1>1. /\ nodeApplied' \in 0 .. MaxGen
        /\ nodeApplied <= nodeApplied'
        /\ nodeApplied' <= applied.gen
        /\ result.kind = "applied" => gen <= nodeApplied'
    <2>1. nodeApplied' = IF result.kind = "applied" /\ nodeApplied <= gen THEN gen ELSE nodeApplied
      BY DEF RecordApplyResult, AppliedColumn
    <2>2. nodeApplied \in 0 .. MaxGen
      BY <1>0 DEF GoodStore
    <2>3. QED  BY <1>0, <2>1, <2>2
  <1>2. /\ gens \in Seq(GenerationRow)
        /\ \A g \in 1 .. Len(gens) : gens[g] \in GenerationRow
    BY <1>0, ElementOfSeq DEF GoodStore
  <1>3. /\ rows \in Seq(GenerationRow)
        /\ Len(rows) = Len(gens)
        /\ \A g \in 1 .. Len(gens) :
              /\ rows[g].content = gens[g].content
              /\ rows[g].cause = gens[g].cause
              /\ rows[g].status = IF g = gen /\ gens[g].status # "applied" THEN result.kind
                                  ELSE gens[g].status
    <2>1. CASE gens[gen].status = "applied"
      <3>1. rows = gens
        BY <2>1 DEF WithStatus
      <3>2. QED  BY <1>2, <2>1, <3>1
    <2>2. CASE gens[gen].status # "applied"
      <3> DEFINE row == [gens[gen] EXCEPT !.status = result.kind]
      <3>1. rows = [gens EXCEPT ![gen] = row]
        BY <2>2 DEF WithStatus
      <3>2. /\ row \in GenerationRow /\ row.status = result.kind
            /\ row.content = gens[gen].content /\ row.cause = gens[gen].cause
        BY <1>0, <1>2 DEF GenerationRow, Status
      <3> HIDE DEF row
      <3>3. /\ rows \in Seq(GenerationRow)
            /\ Len(rows) = Len(gens)
            /\ \A g \in 1 .. Len(gens) : rows[g] = IF g = gen THEN row ELSE gens[g]
        BY <1>0, <1>2, <3>1, <3>2, ExceptSeq
      <3>4. QED  BY <2>2, <3>2, <3>3
    <2>3. QED  BY <2>1, <2>2
  <1> HIDE DEF rows
  <1>4. GoodStore(rows, nodeApplied')
    <2>1. ASSUME NEW g \in 1 .. Len(rows)
          PROVE  /\ rows[g].content \in Forced => g < MaxGen
                 /\ rows[g].status = "applied" => g <= nodeApplied'
                 /\ rows[g].cause # 0 => rows[g].cause = g - 1 /\ rows[g - 1].status = "applied"
      <3>1. rows[g].content \in Forced => g < MaxGen
        BY <1>0, <1>3 DEF GoodStore
      <3>2. rows[g].status = "applied" => g <= nodeApplied'
        BY <1>0, <1>1, <1>3 DEF GoodStore
      <3>3. ASSUME rows[g].cause # 0
            PROVE  rows[g].cause = g - 1 /\ rows[g - 1].status = "applied"
        <4>1. gens[g].cause = g - 1 /\ gens[g - 1].status = "applied" /\ gens[g].cause # 0
          BY <1>0, <1>3, <3>3 DEF GoodStore
        <4>2. g - 1 \in 1 .. Len(gens)
          BY <1>0, <1>3, <4>1
        <4>3. QED  BY <1>3, <4>1, <4>2
      <3>4. QED  BY <3>1, <3>2, <3>3
    <2>2. Len(rows) <= MaxGen
      BY <1>0, <1>3 DEF GoodStore
    <2>3. QED  BY <1>1, <1>3, <2>1, <2>2 DEF GoodStore
  <1>5. CASE CompletesForce(result)
    <2> DEFINE row == [content |-> Cleaned[result.desired.content], status |-> "waiting", cause |-> gen]
    <2>1. /\ gens' = Append(rows, row)
          /\ gen = Len(gens) /\ result.kind = "applied"
          /\ result.desired.content \in Forced
      BY <1>5 DEF RecordApplyResult, publishDesiredTx, CompletesForce, rows
    <2>2. row.content \in Content \ Forced
      BY <2>1, ContentAssumption
    <2>3. row \in GenerationRow /\ row.status = "waiting" /\ row.cause = gen
      BY <1>0, <2>2 DEF GenerationRow, Status
    <2>4. Len(rows) < MaxGen
      BY <1>0, <1>3, <2>1 DEF GoodStore
    <2>5. row.cause = Len(rows) /\ rows[Len(rows)].status = "applied"
      BY <1>0, <1>3, <2>1, <2>3
    <2> HIDE DEF row
    <2>6. /\ GoodStore(gens', nodeApplied')
          /\ Len(gens') = Len(rows) + 1
          /\ \A g \in 1 .. Len(rows) : gens'[g] = rows[g]
      BY <1>4, <2>1, <2>2, <2>3, <2>4, <2>5, AppendGrows
    <2>7. QED  BY <1>0, <1>1, <1>3, <2>6 DEF StoreGrows
  <1>6. CASE ~CompletesForce(result)
    <2>1. gens' = rows
      BY <1>6 DEF RecordApplyResult, rows
    <2>2. QED  BY <1>0, <1>1, <1>3, <1>4, <2>1 DEF StoreGrows
  <1>7. QED  BY <1>5, <1>6

(* The archive stays an earlier store.                                     *)
LEMMA StoreInvGrows ==
    ASSUME ChannelInv, StoreGrows, UNCHANGED migration,
           applied'.gen \in 0 .. MaxGen, applied.gen <= applied'.gen
    PROVE  StoreInv'
  <1>0. backup' = backup /\ restored' = restored
    BY DEF migration
  <1>1. /\ Len(gens) \in Nat /\ Len(gens') \in Nat /\ applied.gen \in Nat /\ nodeApplied' \in Nat
    <2>1. gens' \in Seq(GenerationRow) /\ nodeApplied' \in Nat
      BY DEF StoreGrows, GoodStore
    <2>2. QED  BY <2>1, LenProperties, StateFacts DEF ChannelInv
  <1>2. GoodStore(gens', nodeApplied') /\ nodeApplied' <= applied'.gen
    BY <1>1 DEF StoreGrows
  <1>3. ASSUME backup # NoBackup
        PROVE  /\ restored = "no"
               /\ GoodStore(backup.gens, backup.nodeApplied)
               /\ backup.nodeApplied <= applied'.gen
               /\ Len(backup.gens) <= Len(gens')
               /\ \A g \in 1 .. Len(backup.gens) : backup.gens[g].content = gens'[g].content
    <2>1. /\ restored = "no"
          /\ GoodStore(backup.gens, backup.nodeApplied)
          /\ backup.nodeApplied <= applied.gen
          /\ Len(backup.gens) <= Len(gens)
          /\ \A g \in 1 .. Len(backup.gens) : backup.gens[g].content = gens[g].content
      BY <1>3 DEF ChannelInv, StoreInv
    <2>2. backup.nodeApplied \in Nat /\ Len(backup.gens) \in Nat
      BY <2>1, LenProperties DEF GoodStore
    <2>3. \A g \in 1 .. Len(backup.gens) : g \in 1 .. Len(gens)
      BY <1>1, <2>1, <2>2
    <2>4. QED  BY <1>1, <2>1, <2>2, <2>3 DEF StoreGrows
  <1>4. QED  BY <1>0, <1>2, <1>3 DEF StoreInv

-----------------------------------------------------------------------------
(* One lemma per kind of step.                                             *)

(* Only the store changes: PublishDesired and HandleLate.                  *)
LEMMA GrowStep ==
    ASSUME ChannelInv, StoreGrows,
           UNCHANGED <<conn, dataLoss, migration, record, up, connected, localResult,
                       uplink, downlink, late, faults>>
    PROVE  ChannelInv'
  <1>0. UNCHANGED <<conn, dataLoss, backup, restored, applied, pending, up, connected, localResult,
                    uplink, downlink, late, faults>>
    BY DEF migration, record
  <1>1. TypeOK'
    BY <1>0 DEF ChannelInv, TypeOK, StoreGrows, GoodStore, GenerationRow
  <1>2. StoreInv'
    BY <1>0, StoreInvGrows, StateFacts DEF ChannelInv
  <1>3. SessionInv' /\ ReportInv'
    BY <1>0 DEF ChannelInv, SessionInv, ReportInv, Reports, Closed, Empty
  <1>4. AgreeInv'
    BY <1>0, KnownGrows DEF ChannelInv, AgreeInv
  <1>5. QED  BY <1>1, <1>2, <1>3, <1>4 DEF ChannelInv

LEMMA PoppedFacts ==
    ASSUME ChannelInv, uplink # <<>>, uplink' = Tail(uplink)
    PROVE  /\ Head(uplink) = uplink[1] /\ 1 \in 1 .. Len(uplink)
           /\ uplink' \in Seq(Event)
           /\ Len(uplink') \in Nat
           /\ \A i \in 1 .. Len(uplink') : i + 1 \in 1 .. Len(uplink) /\ uplink'[i] = uplink[i + 1]
  <1>1. uplink \in Seq(Event) /\ Len(uplink) \in Nat \ {0}
    BY StateFacts, EmptySeq DEF ChannelInv
  <1>2. /\ uplink' \in Seq(Event)
        /\ Len(uplink') = Len(uplink) - 1
        /\ \A i \in 1 .. Len(uplink') : uplink'[i] = uplink[i + 1]
    BY <1>1, HeadTailProperties
  <1>3. Head(uplink) = uplink[1] /\ 1 \in 1 .. Len(uplink)
    BY <1>1
  <1>4. QED  BY <1>1, <1>2, <1>3

(* What is left of the stream is a suffix of it.                           *)
Popped ==
    \E k \in {0, 1} :
       /\ uplink' \in Seq(Event)
       /\ Len(uplink') \in Nat
       /\ \A i \in 1 .. Len(uplink') : i + k \in 1 .. Len(uplink) /\ uplink'[i] = uplink[i + k]

(* Snapshots under way, and at most the latest one after them.             *)
Pushed == downlink' = downlink \/ (gens # <<>> /\ downlink' = Append(downlink, Latest))

LEMMA LatestFacts ==
    ASSUME ChannelInv, gens # <<>>
    PROVE  /\ Latest \in Desired /\ Latest.gen = Len(gens) /\ KnownIn(gens, Latest)
           /\ Len(gens) \in 1 .. MaxGen
  <1>1. gens \in Seq(GenerationRow) /\ Len(gens) <= MaxGen
    BY DEF ChannelInv, StoreInv, GoodStore
  <1>2. Len(gens) \in 1 .. MaxGen /\ Len(gens) \in 1 .. Len(gens)
    BY <1>1, EmptySeq, BoundAssumption
  <1>3. gens[Len(gens)].content \in Content
    <2>1. gens[Len(gens)] \in GenerationRow
      BY <1>1, <1>2, ElementOfSeq
    <2>2. QED  BY <2>1 DEF GenerationRow
  <1>4. QED  BY <1>2, <1>3 DEF Latest, Desired, Generation, KnownIn

(* The snapshots under way stay in order when the latest one follows them. *)
LEMMA PushedFacts ==
    ASSUME ChannelInv, Pushed
    PROVE  /\ downlink' \in Seq(Desired)
           /\ restored # "lossy" =>
                 \A i \in 1 .. Len(downlink') :
                    /\ KnownIn(gens, downlink'[i])
                    /\ applied.gen <= downlink'[i].gen
                    /\ pending.gen <= downlink'[i].gen
                    /\ \A j \in 1 .. i : downlink'[j].gen <= downlink'[i].gen
  <1>1. CASE downlink' = downlink
    BY <1>1, StateFacts DEF ChannelInv, AgreeInv
  <1>2. CASE gens # <<>> /\ downlink' = Append(downlink, Latest)
    <2>0. /\ Latest \in Desired /\ Latest.gen = Len(gens) /\ KnownIn(gens, Latest)
          /\ Len(gens) \in Nat /\ Len(downlink) \in Nat
          /\ \A i \in 1 .. Len(downlink) : downlink[i] \in Desired
          /\ downlink \in Seq(Desired)
      BY <1>2, LatestFacts, StateFacts DEF ChannelInv
    <2>1. /\ downlink' \in Seq(Desired)
          /\ Len(downlink') = Len(downlink) + 1
          /\ \A i \in 1 .. Len(downlink) : downlink'[i] = downlink[i]
          /\ downlink'[Len(downlink) + 1] = Latest
      BY <1>2, <2>0, AppendProperties
    <2>2. ASSUME restored # "lossy", NEW i \in 1 .. Len(downlink')
          PROVE  /\ KnownIn(gens, downlink'[i])
                 /\ applied.gen <= downlink'[i].gen
                 /\ pending.gen <= downlink'[i].gen
                 /\ \A j \in 1 .. i : downlink'[j].gen <= downlink'[i].gen
      <3>1. CASE i \in 1 .. Len(downlink)
        <4>1. \A j \in 1 .. i : downlink'[j] = downlink[j]
          BY <2>0, <2>1, <3>1
        <4>2. QED  BY <2>1, <2>2, <3>1, <4>1 DEF ChannelInv, AgreeInv
      <3>2. CASE i = Len(downlink) + 1
        <4>1. downlink'[i] = Latest
          BY <2>1, <3>2
        <4>2. \A d \in {applied, pending} : d.gen <= Len(gens)
          <5>1. \A d \in {applied, pending} : AgreedIn(gens, d)
            BY <2>2 DEF ChannelInv, AgreeInv
          <5>2. QED  BY <2>0, <5>1, DesiredFacts DEF AgreedIn, KnownIn
        <4>3. \A j \in 1 .. Len(downlink) : downlink[j].gen <= Len(gens)
          BY <2>0, <2>2 DEF ChannelInv, AgreeInv, KnownIn
        <4>4. ASSUME NEW j \in 1 .. i
              PROVE  downlink'[j].gen <= Len(gens)
          <5>1. CASE j \in 1 .. Len(downlink)
            BY <2>1, <4>3, <5>1
          <5>2. CASE j = i
            BY <2>0, <4>1, <5>2
          <5>3. QED  BY <2>0, <3>2, <5>1, <5>2
        <4>5. QED  BY <2>0, <4>1, <4>2, <4>4
      <3>3. QED  BY <2>0, <2>1, <3>1, <3>2
    <2>3. QED  BY <2>1, <2>2
  <1>3. QED  BY <1>1, <1>2 DEF Pushed

ConnectionState == [open : BOOLEAN, applied : Desired \cup {Empty}, lastSent : 0 .. MaxGen,
                    blocked : 0 .. MaxGen, retry : {"none", "waiting", "due"}]

(* The Controller goes on in an open stream: its view of the Agent is      *)
(* durable there and not newer than any report still to come.              *)
LEMMA ConnStep ==
    ASSUME ChannelInv, StoreGrows, connected, connected', Popped, Pushed,
           conn' \in ConnectionState, conn'.open,
           conn'.applied.gen <= applied.gen,
           restored # "lossy" => AgreedIn(gens, conn'.applied),
           \A i \in 1 .. Len(uplink') :
              /\ uplink'[i].kind # "hello"
              /\ Reports(uplink'[i]) => conn'.applied.gen <= uplink'[i].desired.gen,
           UNCHANGED <<dataLoss, migration, record, up, localResult, late, faults>>
    PROVE  ChannelInv'
  <1>0. UNCHANGED <<dataLoss, backup, restored, applied, pending, up, localResult, late, faults>>
    BY DEF migration, record
  <1>1. connected' \in BOOLEAN
    <2>1. connected' = TRUE
      BY Zenon
    <2>2. QED  BY <2>1
  <1>2. downlink' \in Seq(Desired)
    BY PushedFacts
  <1>3. TypeOK'
    BY <1>0, <1>1, <1>2
       DEF ChannelInv, TypeOK, StoreGrows, GoodStore, GenerationRow, ConnectionState, Popped, Event
  <1>4. StoreInv'
    BY <1>0, StoreInvGrows, StateFacts DEF ChannelInv
  <1>5. SessionInv'
    BY DEF SessionInv
  <1>6. PICK k \in {0, 1} :
           \A i \in 1 .. Len(uplink') : i + k \in 1 .. Len(uplink) /\ uplink'[i] = uplink[i + k]
    BY DEF Popped
  <1>7. ReportInv'
    <2>1. ASSUME NEW i \in 1 .. Len(uplink'), Reports(uplink'[i])
          PROVE  /\ uplink'[i].desired.gen <= applied.gen
                 /\ \A j \in 1 .. i : Reports(uplink'[j]) => uplink'[j].desired.gen <= uplink'[i].desired.gen
      <3>1. \A j \in 1 .. i : j \in 1 .. Len(uplink') /\ j + k \in 1 .. i + k
        BY DEF Popped
      <3>2. QED  BY <1>6, <2>1, <3>1 DEF ChannelInv, ReportInv
    <2>2. QED  BY <1>0, <2>1 DEF ChannelInv, ReportInv, Reports
  <1>8. AgreeInv'
    <2> SUFFICES ASSUME restored # "lossy"
                 PROVE  /\ \A d \in {applied, pending, localResult, conn'.applied} : AgreedIn(gens', d)
                        /\ \A i \in 1 .. Len(uplink') : AgreedIn(gens', uplink'[i].desired)
                        /\ \A m \in late : KnownIn(gens', m.desired)
                        /\ \A i \in 1 .. Len(downlink') :
                              /\ KnownIn(gens', downlink'[i])
                              /\ applied.gen <= downlink'[i].gen
                              /\ pending.gen <= downlink'[i].gen
                              /\ \A j \in 1 .. i : downlink'[j].gen <= downlink'[i].gen
                        /\ ~dataLoss
      BY <1>0 DEF AgreeInv
    <2>1. \A d \in {applied, pending, localResult, conn'.applied} : AgreedIn(gens', d)
      BY KnownGrows DEF ChannelInv, AgreeInv
    <2>2. \A i \in 1 .. Len(uplink') : AgreedIn(gens', uplink'[i].desired)
      BY <1>6, KnownGrows DEF ChannelInv, AgreeInv
    <2>3. (\A m \in late : KnownIn(gens', m.desired)) /\ ~dataLoss
      BY KnownGrows DEF ChannelInv, AgreeInv
    <2>4. \A i \in 1 .. Len(downlink') :
             /\ KnownIn(gens', downlink'[i])
             /\ applied.gen <= downlink'[i].gen
             /\ pending.gen <= downlink'[i].gen
             /\ \A j \in 1 .. i : downlink'[j].gen <= downlink'[i].gen
      BY PushedFacts, KnownGrows
    <2>5. QED  BY <2>1, <2>2, <2>3, <2>4
  <1>9. QED  BY <1>3, <1>4, <1>5, <1>7, <1>8 DEF ChannelInv

(* A stream ends, for whatever reason.                                     *)
LEMMA EndSessionStep ==
    ASSUME ChannelInv, EndSession, up' \in BOOLEAN, dataLoss' \in BOOLEAN,
           restored # "lossy" => dataLoss' = dataLoss,
           localResult' \in {localResult, Empty}, faults' \in 0 .. MaxFaults,
           UNCHANGED <<store, migration, record>>
    PROVE  ChannelInv'
  <1>0. /\ UNCHANGED <<gens, nodeApplied, backup, restored, applied, pending>>
        /\ connected' = FALSE /\ conn' = Closed /\ uplink' = <<>> /\ downlink' = <<>>
        /\ late' = late \cup {m \in ToSet(uplink) : m.kind # "hello"}
    BY DEF store, migration, record, EndSession
  <1>1. /\ uplink' \in Seq(Event) /\ downlink' \in Seq(Desired) /\ Len(uplink') = 0 /\ Len(downlink') = 0
        /\ Closed \in ConnectionState /\ Closed.applied = Empty /\ Closed.open = FALSE
    BY <1>0, EmptySeq, BoundAssumption DEF Closed, ConnectionState
  <1>2. ASSUME NEW m \in late', m \notin late
        PROVE  \E i \in 1 .. Len(uplink) : m = uplink[i] /\ m \in Results
    <2>1. DOMAIN uplink = 1 .. Len(uplink)
      BY StateFacts DEF ChannelInv
    <2>2. m \in ToSet(uplink) /\ m.kind # "hello"
      BY <1>0, <1>2
    <2>3. PICK i \in 1 .. Len(uplink) : m = uplink[i]
      BY <2>1, <2>2 DEF ToSet
    <2>4. uplink[i] \in Event
      BY StateFacts DEF ChannelInv
    <2>5. m \in Results
      BY <2>2, <2>3, <2>4, EventFacts, Zenon
    <2>6. QED  BY <2>3, <2>5
  <1>3. late' \subseteq Results
    BY <1>2 DEF ChannelInv, TypeOK
  <1>4. TypeOK'
    BY <1>0, <1>1, <1>3 DEF ChannelInv, TypeOK, ConnectionState, Event
  <1>5. StoreInv'
    <2>1. applied.gen \in 0 .. MaxGen
      BY StateFacts DEF ChannelInv
    <2>2. QED  BY <1>0, <2>1, StoreSame, StoreInvGrows
  <1>6. SessionInv'
    BY <1>0, <1>1 DEF SessionInv, Closed, Empty
  <1>7. ReportInv'
    <2>1. \A m \in late' : m.kind = "applied" => m.desired.gen <= applied.gen
      BY <1>2 DEF ChannelInv, ReportInv, Reports
    <2>2. QED  BY <1>0, <1>1, <2>1 DEF ReportInv
  <1>8. AgreeInv'
    <2> SUFFICES ASSUME restored # "lossy"
                 PROVE  AgreeInv'
      BY <1>0 DEF AgreeInv
    <2>1. \A m \in late' : KnownIn(gens, m.desired)
      <3> SUFFICES ASSUME NEW m \in late', m \notin late
                   PROVE  KnownIn(gens, m.desired)
        BY DEF ChannelInv, AgreeInv
      <3>1. PICK i \in 1 .. Len(uplink) : m = uplink[i] /\ m \in Results
        BY <1>2
      <3>2. QED  BY <3>1, EventFacts, DesiredFacts DEF ChannelInv, AgreeInv, AgreedIn
    <2>2. AgreedIn(gens, Closed.applied)
      BY <1>1 DEF AgreedIn
    <2>3. \A d \in {applied, pending, localResult', conn'.applied} : AgreedIn(gens, d)
      BY <1>0, <1>1, <2>2 DEF ChannelInv, AgreeInv, AgreedIn
    <2>4. ~dataLoss'
      BY DEF ChannelInv, AgreeInv
    <2>5. QED  BY <1>0, <1>1, <2>1, <2>3, <2>4 DEF AgreeInv
  <1>9. QED  BY <1>4, <1>5, <1>6, <1>7, <1>8 DEF ChannelInv

LEMMA RefuseStep ==
    ASSUME ChannelInv, Refuse, restored = "lossy", UNCHANGED <<store, migration, record, faults>>
    PROVE  ChannelInv'
  <1>1. faults' \in 0 .. MaxFaults
    BY DEF ChannelInv, TypeOK
  <1>2. QED  BY <1>1, EndSessionStep DEF Refuse

(* One event at most is added to the stream; a report is of what is        *)
(* durable after the step.                                                 *)
Reported ==
    \/ uplink' = uplink
    \/ \E kind \in {"applied", "retryable", "permanent"}, d \in Desired :
          /\ connected
          /\ uplink' = Append(uplink, Result(kind, d))
          /\ kind = "applied" => d = applied'
          /\ restored # "lossy" => KnownIn(gens, d)

(* The Agent's snapshots are those it had, or those after the first.       *)
Consumed == downlink' = downlink \/ (downlink # <<>> /\ downlink' = Tail(downlink))

LEMMA ConsumedFacts ==
    ASSUME ChannelInv, Consumed
    PROVE  /\ downlink' \in Seq(Desired)
           /\ ~connected => downlink' = <<>>
           /\ restored # "lossy" =>
                 \A i \in 1 .. Len(downlink') :
                    /\ KnownIn(gens, downlink'[i])
                    /\ applied.gen <= downlink'[i].gen
                    /\ pending.gen <= downlink'[i].gen
                    /\ downlink # <<>> => Head(downlink).gen <= downlink'[i].gen
                    /\ \A j \in 1 .. i : downlink'[j].gen <= downlink'[i].gen
  <1>0. downlink \in Seq(Desired) /\ Len(downlink) \in Nat
    BY StateFacts DEF ChannelInv
  <1>1. CASE downlink' = downlink
    <2>1. \A i \in 1 .. Len(downlink) : 1 \in 1 .. i /\ Head(downlink) = downlink[1]
      BY <1>0
    <2>2. QED  BY <1>0, <1>1, <2>1 DEF ChannelInv, SessionInv, AgreeInv
  <1>2. CASE downlink # <<>> /\ downlink' = Tail(downlink)
    <2>1. /\ downlink' \in Seq(Desired)
          /\ Len(downlink') = Len(downlink) - 1
          /\ \A i \in 1 .. Len(downlink') : downlink'[i] = downlink[i + 1]
          /\ Len(downlink) \in Nat \ {0}
          /\ Head(downlink) = downlink[1]
      BY <1>0, <1>2, HeadTailProperties, EmptySeq
    <2>2. connected
      BY <1>2 DEF ChannelInv, SessionInv
    <2>3. ASSUME restored # "lossy", NEW i \in 1 .. Len(downlink')
          PROVE  /\ KnownIn(gens, downlink'[i])
                 /\ applied.gen <= downlink'[i].gen
                 /\ pending.gen <= downlink'[i].gen
                 /\ Head(downlink).gen <= downlink'[i].gen
                 /\ \A j \in 1 .. i : downlink'[j].gen <= downlink'[i].gen
      <3>1. i + 1 \in 1 .. Len(downlink) /\ 1 \in 1 .. i + 1
        BY <2>1
      <3>2. \A j \in 1 .. i : j + 1 \in 1 .. i + 1 /\ downlink'[j] = downlink[j + 1]
        BY <2>1
      <3>3. QED  BY <2>1, <2>3, <3>1, <3>2 DEF ChannelInv, AgreeInv
    <2>4. QED  BY <2>1, <2>2, <2>3
  <1>3. QED  BY <1>1, <1>2 DEF Consumed

(* The Agent moves on: its record never goes back, and stays behind the    *)
(* snapshots that are still to come.                                       *)
LEMMA AgentStep ==
    ASSUME ChannelInv, Reported, Consumed,
           applied' \in Desired \cup {Empty}, pending' \in Desired \cup {Empty},
           localResult' \in Desired \cup {Empty},
           up' \in BOOLEAN, faults' \in 0 .. MaxFaults,
           applied.gen <= applied'.gen,
           restored # "lossy" =>
              /\ \A d \in {applied', pending', localResult'} : AgreedIn(gens, d)
              /\ \A i \in 1 .. Len(downlink') :
                    applied'.gen <= downlink'[i].gen /\ pending'.gen <= downlink'[i].gen,
           UNCHANGED <<store, conn, dataLoss, migration, connected, late>>
    PROVE  ChannelInv'
  <1>0. UNCHANGED <<gens, nodeApplied, conn, dataLoss, backup, restored, connected, late>>
    BY DEF store, migration
  <1>1. /\ uplink \in Seq(Event) /\ Len(uplink) \in Nat
        /\ \A i \in 1 .. Len(uplink) : uplink[i] \in Event
        /\ applied.gen \in 0 .. MaxGen /\ applied'.gen \in 0 .. MaxGen
        /\ conn.applied.gen \in 0 .. MaxGen
        /\ \A m \in Event : m.desired.gen \in 0 .. MaxGen
        /\ \A m \in late : m \in Event
    <2>1. TypeOK
      BY DEF ChannelInv
    <2>2. late \subseteq Results
      BY <2>1 DEF TypeOK
    <2>3. \A m \in Event : m.desired.gen \in 0 .. MaxGen
      BY DesiredFacts, EventFacts
    <2>4. QED  BY <2>1, <2>2, <2>3, StateFacts, DesiredFacts, EventFacts
  <1>2. /\ uplink' \in Seq(Event)
        /\ ~connected => uplink' = <<>>
        /\ \A i \in 1 .. Len(uplink') :
              \/ i \in 1 .. Len(uplink) /\ \A j \in 1 .. i : uplink'[j] = uplink[j]
              \/ /\ \A j \in 1 .. i : j = i \/ (j \in 1 .. Len(uplink) /\ uplink'[j] = uplink[j])
                 /\ uplink'[i].kind # "hello"
                 /\ uplink'[i].kind = "applied" => uplink'[i].desired = applied'
                 /\ restored # "lossy" => AgreedIn(gens, uplink'[i].desired)
    <2>1. CASE uplink' = uplink
      BY <1>1, <2>1 DEF ChannelInv, SessionInv
    <2>2. CASE uplink' # uplink
      <3>1. PICK kind \in {"applied", "retryable", "permanent"}, d \in Desired :
               /\ connected
               /\ uplink' = Append(uplink, Result(kind, d))
               /\ kind = "applied" => d = applied'
               /\ restored # "lossy" => KnownIn(gens, d)
        BY <2>2 DEF Reported
      <3> DEFINE m == Result(kind, d)
      <3>2. m \in Event /\ m.kind = kind /\ m.desired = d
        BY ResultType, EventFacts
      <3> HIDE DEF m
      <3>3. /\ uplink' \in Seq(Event)
            /\ Len(uplink') = Len(uplink) + 1
            /\ \A i \in 1 .. Len(uplink) : uplink'[i] = uplink[i]
            /\ uplink'[Len(uplink) + 1] = m
        BY <1>1, <3>1, <3>2, AppendProperties DEF m
      <3>4. ASSUME NEW i \in 1 .. Len(uplink')
            PROVE \/ i \in 1 .. Len(uplink) /\ \A j \in 1 .. i : uplink'[j] = uplink[j]
                  \/ /\ \A j \in 1 .. i : j = i \/ (j \in 1 .. Len(uplink) /\ uplink'[j] = uplink[j])
                     /\ uplink'[i] = m
        <4>1. CASE i \in 1 .. Len(uplink)
          BY <1>1, <3>3, <4>1
        <4>2. CASE i = Len(uplink) + 1
          <5>1. \A j \in 1 .. i : j = i \/ j \in 1 .. Len(uplink)
            BY <1>1, <4>2
          <5>2. \A j \in 1 .. i : j = i \/ (j \in 1 .. Len(uplink) /\ uplink'[j] = uplink[j])
            BY <3>3, <5>1
          <5>3. uplink'[i] = m
            BY <3>3, <4>2
          <5>4. QED  BY <5>2, <5>3
        <4>3. QED  BY <1>1, <3>3, <4>1, <4>2
      <3>5. QED  BY <3>1, <3>2, <3>3, <3>4 DEF AgreedIn
    <2>3. QED  BY <2>1, <2>2
  <1>3. TypeOK'
    BY <1>0, <1>2, ConsumedFacts DEF ChannelInv, TypeOK, Event
  <1>4. StoreInv'
    BY <1>0, <1>1, StoreSame, StoreInvGrows DEF store, migration
  <1>5. SessionInv'
    <2>1. ASSUME NEW i \in 1 .. Len(uplink'), uplink'[i].kind = "hello"
          PROVE  i = 1 /\ ~conn.open
      <3>1. i \in 1 .. Len(uplink) /\ uplink'[i] = uplink[i]
        BY <1>2, <2>1
      <3>2. QED  BY <2>1, <3>1 DEF ChannelInv, SessionInv
    <2>2. QED  BY <1>0, <1>2, <2>1, ConsumedFacts DEF ChannelInv, SessionInv, Closed, Empty
  <1>6. ReportInv'
    <2>1. ASSUME NEW i \in 1 .. Len(uplink'), Reports(uplink'[i])
          PROVE  /\ uplink'[i].desired.gen <= applied'.gen
                 /\ conn.open => conn.applied.gen <= uplink'[i].desired.gen
                 /\ \A j \in 1 .. i : Reports(uplink'[j]) => uplink'[j].desired.gen <= uplink'[i].desired.gen
      <3>1. CASE i \in 1 .. Len(uplink) /\ \A j \in 1 .. i : uplink'[j] = uplink[j]
        <4>1. uplink'[i] = uplink[i]
          BY <3>1
        <4>2. /\ uplink[i].desired.gen <= applied.gen
              /\ conn.open => conn.applied.gen <= uplink[i].desired.gen
              /\ \A j \in 1 .. i : Reports(uplink[j]) => uplink[j].desired.gen <= uplink[i].desired.gen
          BY <2>1, <3>1, <4>1 DEF ChannelInv, ReportInv
        <4>3. uplink[i].desired.gen <= applied'.gen
          BY <1>1, <3>1, <4>2
        <4>4. QED  BY <3>1, <4>1, <4>2, <4>3
      <3>2. CASE /\ \A j \in 1 .. i : j = i \/ (j \in 1 .. Len(uplink) /\ uplink'[j] = uplink[j])
                 /\ uplink'[i].kind # "hello"
                 /\ uplink'[i].kind = "applied" => uplink'[i].desired = applied'
        <4>1. uplink'[i].desired = applied'
          BY <2>1, <3>2 DEF Reports
        <4>2. conn.open => conn.applied.gen <= applied'.gen
          BY <1>1 DEF ChannelInv, ReportInv
        <4>3. ASSUME NEW j \in 1 .. i, Reports(uplink'[j])
              PROVE  uplink'[j].desired.gen <= applied'.gen
          <5>1. CASE j = i
            BY <1>1, <4>1, <5>1
          <5>2. CASE j \in 1 .. Len(uplink) /\ uplink'[j] = uplink[j]
            <6>1. uplink[j].desired.gen <= applied.gen /\ uplink[j].desired.gen \in 0 .. MaxGen
              BY <1>1, <4>3, <5>2 DEF ChannelInv, ReportInv
            <6>2. QED  BY <1>1, <5>2, <6>1
          <5>3. QED  BY <3>2, <5>1, <5>2
        <4>4. QED  BY <1>1, <4>1, <4>2, <4>3
      <3>3. QED  BY <1>2, <3>1, <3>2
    <2>2. \A m \in late : m.kind = "applied" => m.desired.gen <= applied'.gen
      BY <1>1 DEF ChannelInv, ReportInv
    <2>3. conn.open => conn.applied.gen <= applied'.gen
      BY <1>1 DEF ChannelInv, ReportInv
    <2>4. QED  BY <1>0, <2>1, <2>2, <2>3 DEF ReportInv, Reports
  <1>7. AgreeInv'
    <2> SUFFICES ASSUME restored # "lossy"
                 PROVE  AgreeInv'
      BY <1>0 DEF AgreeInv
    <2>1. \A i \in 1 .. Len(uplink') : AgreedIn(gens, uplink'[i].desired)
      BY <1>2 DEF ChannelInv, AgreeInv
    <2>2. \A d \in {applied', pending', localResult', conn.applied} : AgreedIn(gens, d)
      BY DEF ChannelInv, AgreeInv
    <2>3. (\A m \in late : KnownIn(gens, m.desired)) /\ ~dataLoss
      BY DEF ChannelInv, AgreeInv
    <2>4. QED  BY <1>0, <2>1, <2>2, <2>3, ConsumedFacts DEF AgreeInv
  <1>8. QED  BY <1>3, <1>4, <1>5, <1>6, <1>7 DEF ChannelInv

-----------------------------------------------------------------------------
(* The actions.                                                            *)

LEMMA HelloType ==
    ASSUME NEW d \in Desired \cup {Empty}
    PROVE  Hello(d) \in Event /\ Hello(d).kind = "hello" /\ Hello(d).desired = d
  BY DEF Hello, Event

LEMMA ConnectStep ==
    ASSUME ChannelInv, Connect
    PROVE  ChannelInv'
  <1>0. /\ UNCHANGED <<gens, nodeApplied, conn, dataLoss, backup, restored, applied, pending, up,
                       localResult, downlink, late, faults>>
        /\ ~connected /\ connected' = TRUE
        /\ uplink' = <<Hello(applied)>> \o DurableAck
    BY DEF Connect, store, migration, record
  <1>1. /\ ~conn.open /\ conn = Closed
        /\ applied \in Desired \cup {Empty} /\ applied.gen \in 0 .. MaxGen
    BY <1>0, StateFacts DEF ChannelInv, SessionInv, TypeOK
  <1>2. /\ uplink' \in Seq(Event)
        /\ \A i \in 1 .. Len(uplink') :
              /\ uplink'[i].desired = applied
              /\ uplink'[i].kind = "hello" => i = 1
    <2>1. CASE applied = Empty
      <3>1. uplink' = <<Hello(applied)>>
        BY <1>0, <2>1 DEF DurableAck
      <3>2. QED  BY <1>1, <3>1, HelloType
    <2>2. CASE applied # Empty
      <3>1. uplink' = <<Hello(applied)>> \o <<Result("applied", applied)>>
        BY <1>0, <2>2 DEF DurableAck
      <3>2. /\ Result("applied", applied) \in Event
            /\ Result("applied", applied).kind = "applied"
            /\ Result("applied", applied).desired = applied
        BY <1>1, <2>2, ResultType, EventFacts
      <3>3. /\ <<Hello(applied)>> \in Seq(Event) /\ <<Result("applied", applied)>> \in Seq(Event)
            /\ Len(<<Hello(applied)>>) = 1 /\ Len(<<Result("applied", applied)>>) = 1
        BY <1>1, <3>2, HelloType
      <3>4. /\ uplink' \in Seq(Event)
            /\ Len(uplink') = 1 + 1
            /\ \A i \in 1 .. 1 + 1 : uplink'[i] = IF i <= 1 THEN <<Hello(applied)>>[i]
                                         ELSE <<Result("applied", applied)>>[i - 1]
        BY <3>1, <3>3, ConcatProperties
      <3>5. /\ Len(uplink') = 2
            /\ uplink'[1] = Hello(applied) /\ uplink'[2] = Result("applied", applied)
        BY <3>4
      <3>6. QED  BY <1>1, <3>2, <3>4, <3>5, HelloType
    <2>3. QED  BY <2>1, <2>2
  <1>3. TypeOK'
    BY <1>0, <1>2 DEF ChannelInv, TypeOK, Event
  <1>4. StoreInv'
    BY <1>0, <1>1, StoreSame, StoreInvGrows DEF store, migration
  <1>5. SessionInv' /\ ReportInv'
    BY <1>0, <1>1, <1>2 DEF ChannelInv, SessionInv, ReportInv, Reports, Closed, Empty
  <1>6. AgreeInv'
    BY <1>0, <1>2 DEF ChannelInv, AgreeInv
  <1>7. QED  BY <1>3, <1>4, <1>5, <1>6 DEF ChannelInv

(* sendLatest refuses a stream only after a lossy restore: otherwise what  *)
(* the Agent reports is a generation of the store.                         *)
LEMMA NoDisagreement ==
    ASSUME ChannelInv, NEW state \in ConnectionState,
           restored # "lossy" => AgreedIn(gens, state.applied),
           Disagrees(state)
    PROVE  restored = "lossy"
  <1> SUFFICES ASSUME restored # "lossy" PROVE FALSE
    OBVIOUS
  <1>1. gens # <<>> /\ Len(gens) \in 1 .. MaxGen
    BY LatestFacts DEF Disagrees
  <1>2. CASE state.applied = Empty
    BY <1>1, <1>2, DesiredFacts DEF Disagrees
  <1>3. CASE KnownIn(gens, state.applied)
    <2>1. state.applied.gen <= Len(gens)
      BY <1>1, <1>3 DEF KnownIn
    <2>2. Len(gens) = state.applied.gen /\ Latest # state.applied
      BY <1>1, <1>3, <2>1 DEF Disagrees, KnownIn
    <2>3. state.applied \in Desired
      BY <1>1, <2>2, DesiredFacts DEF ConnectionState
    <2>4. state.applied = [gen |-> state.applied.gen, content |-> state.applied.content]
      BY <2>3 DEF Desired
    <2>5. QED  BY <1>3, <2>2, <2>4 DEF KnownIn, Latest
  <1>4. QED  BY <1>2, <1>3 DEF AgreedIn

(* All that follows from a Controller's event handler that ends with       *)
(* sendLatest.                                                             *)
LEMMA SendLatestStep ==
    ASSUME ChannelInv, NEW state \in ConnectionState, state.open, sendLatest(state), connected,
           connected' => Popped,
           state.applied.gen <= applied.gen,
           restored # "lossy" => AgreedIn(gens, state.applied),
           connected' => \A i \in 1 .. Len(uplink') :
              /\ uplink'[i].kind # "hello"
              /\ Reports(uplink'[i]) => state.applied.gen <= uplink'[i].desired.gen,
           UNCHANGED <<store, migration, record, faults>>
    PROVE  ChannelInv'
  <1>0. StoreGrows /\ Len(gens) \in 0 .. MaxGen
    BY StoreSame, StateFacts DEF ChannelInv, TypeOK
  <1>1. CASE Disagrees(state) /\ Refuse
    BY <1>1, NoDisagreement, RefuseStep
  <1>2. CASE /\ gens # <<>>
             /\ downlink' = Append(downlink, Latest)
             /\ conn' = [state EXCEPT !.lastSent = Len(gens), !.retry = "none"]
             /\ UNCHANGED <<dataLoss, connected, up, localResult, late>>
    <2>1. conn' \in ConnectionState /\ conn'.open /\ conn'.applied = state.applied
      BY <1>0, <1>2 DEF ConnectionState
    <2>2. QED  BY <1>0, <1>2, <2>1, ConnStep DEF Pushed
  <1>3. CASE /\ conn' = state
             /\ UNCHANGED <<dataLoss, downlink, connected, up, localResult, late>>
    BY <1>0, <1>3, ConnStep DEF Pushed
  <1>4. QED  BY <1>1, <1>2, <1>3 DEF sendLatest, ToSend

LEMMA HandleHelloStep ==
    ASSUME ChannelInv, HandleHello
    PROVE  ChannelInv'
  <1> DEFINE d == Head(uplink).desired
             state == Opened(d)
  <1>0. /\ uplink # <<>> /\ Head(uplink).kind = "hello"
        /\ sendLatest(state)
        /\ connected' => uplink' = Tail(uplink)
        /\ UNCHANGED <<store, migration, record, faults>>
    BY DEF HandleHello
  <1>1. Head(uplink) = uplink[1] /\ 1 \in 1 .. Len(uplink) /\ Head(uplink) \in Event /\ Len(uplink) \in Nat
    <2>1. uplink \in Seq(Event) /\ Len(uplink) \in Nat \ {0}
      BY <1>0, StateFacts, EmptySeq DEF ChannelInv
    <2>2. QED  BY <2>1, ElementOfSeq
  <1>2. d \in Desired \cup {Empty}
    BY <1>1, EventFacts
  <1>3. state \in ConnectionState /\ state.open /\ state.applied = d
    <2>1. Closed \in ConnectionState
      BY BoundAssumption DEF Closed, ConnectionState
    <2>2. state \in ConnectionState
      BY <1>2, <2>1 DEF Opened, ConnectionState
    <2>3. state.open = TRUE /\ state.applied = d
      BY <2>1 DEF Opened, ConnectionState
    <2>4. QED  BY <2>2, <2>3
  <1>4. connected
    BY <1>0 DEF ChannelInv, SessionInv
  <1>5. d.gen <= applied.gen /\ (restored # "lossy" => AgreedIn(gens, d))
    BY <1>0, <1>1 DEF ChannelInv, ReportInv, Reports, AgreeInv
  <1>6. ASSUME connected'
        PROVE  /\ Popped
               /\ \A i \in 1 .. Len(uplink') :
                     /\ uplink'[i].kind # "hello"
                     /\ Reports(uplink'[i]) => d.gen <= uplink'[i].desired.gen
    <2>1. /\ uplink' \in Seq(Event) /\ Len(uplink') \in Nat
          /\ \A i \in 1 .. Len(uplink') : i + 1 \in 1 .. Len(uplink) /\ uplink'[i] = uplink[i + 1]
      BY <1>0, <1>6, PoppedFacts
    <2>2. Popped
      BY <2>1 DEF Popped
    <2>3. ASSUME NEW i \in 1 .. Len(uplink')
          PROVE  /\ uplink'[i].kind # "hello"
                 /\ Reports(uplink'[i]) => d.gen <= uplink'[i].desired.gen
      <3>1. i + 1 \in 1 .. Len(uplink) /\ uplink'[i] = uplink[i + 1] /\ i + 1 # 1 /\ 1 \in 1 .. i + 1
        BY <2>1
      <3>2. Reports(uplink[1])
        BY <1>0, <1>1 DEF Reports
      <3>3. QED  BY <1>1, <3>1, <3>2 DEF ChannelInv, SessionInv, ReportInv
    <2>4. QED  BY <2>2, <2>3
  <1> HIDE DEF state
  <1>7. QED  BY <1>0, <1>3, <1>4, <1>5, <1>6, SendLatestStep

LEMMA PollStep ==
    ASSUME ChannelInv, Poll
    PROVE  ChannelInv'
  <1>0. /\ conn.open /\ sendLatest(conn)
        /\ connected' => UNCHANGED uplink
        /\ UNCHANGED <<store, migration, record, faults>>
    BY DEF Poll
  <1>1. conn \in ConnectionState /\ connected
    BY <1>0 DEF ChannelInv, TypeOK, ConnectionState, SessionInv
  <1>2. conn.applied.gen <= applied.gen /\ (restored # "lossy" => AgreedIn(gens, conn.applied))
    BY <1>0 DEF ChannelInv, ReportInv, AgreeInv
  <1>3. ASSUME connected'
        PROVE  /\ Popped
               /\ \A i \in 1 .. Len(uplink') :
                     /\ uplink'[i].kind # "hello"
                     /\ Reports(uplink'[i]) => conn.applied.gen <= uplink'[i].desired.gen
    <2>1. uplink' = uplink /\ uplink \in Seq(Event) /\ Len(uplink) \in Nat
      BY <1>0, <1>3, StateFacts DEF ChannelInv
    <2>2. Popped
      <3>1. \A i \in 1 .. Len(uplink') : i + 0 \in 1 .. Len(uplink) /\ uplink'[i] = uplink[i + 0]
        BY <2>1
      <3>2. QED  BY <2>1, <3>1 DEF Popped
    <2>3. QED  BY <1>0, <2>1, <2>2 DEF ChannelInv, SessionInv, ReportInv
  <1>4. QED  BY <1>0, <1>1, <1>2, <1>3, SendLatestStep

LEMMA RetryDelayStep ==
    ASSUME ChannelInv, RetryDelay
    PROVE  ChannelInv'
  <1>0. /\ conn.retry = "waiting"
        /\ conn' = [conn EXCEPT !.retry = "due"]
        /\ UNCHANGED <<store, dataLoss, migration, record, up, connected, localResult,
                       uplink, downlink, late, faults>>
    BY DEF RetryDelay
  <1>1. conn \in ConnectionState /\ conn.open /\ connected
    BY <1>0 DEF ChannelInv, TypeOK, ConnectionState, SessionInv, Closed
  <1>2. conn' \in ConnectionState /\ conn'.open /\ conn'.applied = conn.applied
    BY <1>0, <1>1 DEF ConnectionState
  <1>3. conn.applied.gen <= applied.gen /\ (restored # "lossy" => AgreedIn(gens, conn.applied))
    BY <1>1 DEF ChannelInv, ReportInv, AgreeInv
  <1>4. uplink' = uplink /\ uplink \in Seq(Event) /\ Len(uplink) \in Nat
    BY <1>0, StateFacts DEF ChannelInv
  <1>5. Popped
    <2>1. \A i \in 1 .. Len(uplink') : i + 0 \in 1 .. Len(uplink) /\ uplink'[i] = uplink[i + 0]
      BY <1>4
    <2>2. QED  BY <1>4, <2>1 DEF Popped
  <1>6. \A i \in 1 .. Len(uplink') :
           /\ uplink'[i].kind # "hello"
           /\ Reports(uplink'[i]) => conn'.applied.gen <= uplink'[i].desired.gen
    BY <1>1, <1>2, <1>4 DEF ChannelInv, SessionInv, ReportInv
  <1>7. StoreGrows /\ Pushed /\ connected'
    BY <1>0, <1>1, StoreSame DEF Pushed
  <1>8. QED  BY <1>0, <1>1, <1>2, <1>3, <1>5, <1>6, <1>7, ConnStep

(* The head of an open stream is a result; an applied one is the new view. *)
LEMMA HeadFacts ==
    ASSUME ChannelInv, conn.open, uplink # <<>>
    PROVE  /\ connected
           /\ Head(uplink) = uplink[1] /\ 1 \in 1 .. Len(uplink)
           /\ Head(uplink) \in Results
           /\ Head(uplink).kind = "applied" =>
                 /\ Head(uplink).desired.gen <= applied.gen
                 /\ conn.applied.gen <= Head(uplink).desired.gen
           /\ restored # "lossy" => KnownIn(gens, Head(uplink).desired)
  <1>1. uplink \in Seq(Event) /\ Len(uplink) \in Nat \ {0}
    BY StateFacts, EmptySeq DEF ChannelInv
  <1>2. Head(uplink) = uplink[1] /\ 1 \in 1 .. Len(uplink) /\ uplink[1] \in Event
    BY <1>1, ElementOfSeq
  <1>3. connected /\ uplink[1].kind # "hello"
    BY <1>2 DEF ChannelInv, SessionInv
  <1>4. uplink[1] \in Results
    BY <1>2, <1>3, EventFacts
  <1>5. uplink[1].kind = "applied" =>
           /\ uplink[1].desired.gen <= applied.gen
           /\ conn.applied.gen <= uplink[1].desired.gen
    BY <1>2 DEF ChannelInv, ReportInv, Reports
  <1>6. restored # "lossy" => KnownIn(gens, uplink[1].desired)
    BY <1>2, <1>4, EventFacts, DesiredFacts DEF ChannelInv, AgreeInv, AgreedIn
  <1>7. QED  BY <1>2, <1>3, <1>4, <1>5, <1>6

LEMMA StateAfterFacts ==
    ASSUME ChannelInv, conn.open, NEW m \in Results
    PROVE  /\ StateAfter(m) \in ConnectionState
           /\ StateAfter(m).open
           /\ StateAfter(m).applied = IF m.kind = "applied" THEN m.desired ELSE conn.applied
  <1>0. /\ conn \in ConnectionState
        /\ m.desired \in Desired /\ m.desired.gen \in 0 .. MaxGen
        /\ m.kind \in {"applied", "retryable", "permanent"}
    BY EventFacts, DesiredFacts DEF ChannelInv, TypeOK, ConnectionState
  <1>1. CASE m.kind = "applied"
    <2>1. StateAfter(m) = [conn EXCEPT !.applied = m.desired, !.blocked = 0]
      BY <1>1 DEF StateAfter
    <2>2. 0 \in 0 .. MaxGen
      BY BoundAssumption
    <2>3. StateAfter(m) \in ConnectionState
      BY <1>0, <2>1, <2>2 DEF ConnectionState
    <2>4. StateAfter(m).applied = m.desired /\ StateAfter(m).open = conn.open
      BY <1>0, <2>1 DEF ConnectionState
    <2>5. QED  BY <1>1, <2>3, <2>4
  <1>2. CASE m.kind = "retryable"
    <2>1. StateAfter(m) = [conn EXCEPT !.retry = "waiting"]
      BY <1>2 DEF StateAfter
    <2>2. QED  BY <1>0, <1>2, <2>1 DEF ConnectionState
  <1>3. CASE m.kind = "permanent"
    <2>1. StateAfter(m) = [conn EXCEPT !.blocked = m.desired.gen]
      BY <1>3 DEF StateAfter
    <2>2. QED  BY <1>0, <1>3, <2>1 DEF ConnectionState
  <1>4. QED  BY <1>0, <1>1, <1>2, <1>3

LEMMA HandleApplyResultStep ==
    ASSUME ChannelInv, HandleApplyResult
    PROVE  ChannelInv'
  <1> DEFINE m == Head(uplink)
  <1>0. /\ conn.open /\ uplink # <<>>
        /\ UNCHANGED <<migration, record, faults>>
    BY DEF HandleApplyResult
  <1>1. CASE ~KnownGeneration(m.desired) /\ Refuse /\ UNCHANGED store
    <2>1. restored = "lossy"
      BY <1>0, <1>1, HeadFacts, KnownIs DEF ChannelInv
    <2>2. QED  BY <1>0, <1>1, <2>1, RefuseStep
  <1>2. CASE /\ KnownGeneration(m.desired)
             /\ RecordApplyResult(m)
             /\ conn' = StateAfter(m)
             /\ uplink' = Tail(uplink)
             /\ UNCHANGED <<dataLoss, connected, up, localResult, downlink, late>>
    <2>0. /\ connected /\ connected' /\ m = uplink[1] /\ m \in Results
          /\ m.kind = "applied" => m.desired.gen <= applied.gen /\ conn.applied.gen <= m.desired.gen
          /\ restored # "lossy" => KnownIn(gens, m.desired)
          /\ KnownIn(gens, m.desired)
      BY <1>0, <1>2, HeadFacts, KnownIs DEF ChannelInv
    <2>1. StoreGrows
      BY <1>2, <2>0, RecordGrows
    <2>2. /\ conn' \in ConnectionState /\ conn'.open
          /\ conn'.applied = IF m.kind = "applied" THEN m.desired ELSE conn.applied
      BY <1>0, <1>2, <2>0, StateAfterFacts
    <2>3. /\ conn'.applied.gen <= applied.gen
          /\ restored # "lossy" => AgreedIn(gens, conn'.applied)
      BY <1>0, <2>0, <2>2 DEF ChannelInv, ReportInv, AgreeInv, AgreedIn
    <2>4. /\ uplink' \in Seq(Event) /\ Len(uplink') \in Nat
          /\ \A i \in 1 .. Len(uplink') : i + 1 \in 1 .. Len(uplink) /\ uplink'[i] = uplink[i + 1]
      BY <1>0, <1>2, PoppedFacts
    <2>5. Popped
      BY <2>4 DEF Popped
    <2>6. ASSUME NEW i \in 1 .. Len(uplink')
          PROVE  /\ uplink'[i].kind # "hello"
                 /\ Reports(uplink'[i]) => conn'.applied.gen <= uplink'[i].desired.gen
      <3>1. i + 1 \in 1 .. Len(uplink) /\ uplink'[i] = uplink[i + 1] /\ 1 \in 1 .. i + 1
        BY <2>4
      <3>2. uplink[i + 1].kind # "hello"
        BY <1>0, <3>1 DEF ChannelInv, SessionInv
      <3>3. ASSUME Reports(uplink[i + 1])
            PROVE  conn'.applied.gen <= uplink[i + 1].desired.gen
        <4>1. CASE m.kind = "applied"
          BY <2>0, <2>2, <3>1, <3>3, <4>1 DEF ChannelInv, ReportInv, Reports
        <4>2. CASE m.kind # "applied"
          BY <1>0, <2>2, <3>1, <3>3, <4>2 DEF ChannelInv, ReportInv
        <4>3. QED  BY <4>1, <4>2
      <3>4. QED  BY <3>1, <3>2, <3>3
    <2>7. Pushed
      BY <1>2 DEF Pushed
    <2>8. QED  BY <1>0, <1>2, <2>0, <2>1, <2>2, <2>3, <2>5, <2>6, <2>7, ConnStep
  <1>3. QED  BY <1>1, <1>2 DEF HandleApplyResult

LEMMA HandleLateStep ==
    ASSUME ChannelInv, NEW result \in late, HandleLate(result)
    PROVE  ChannelInv'
  <1>1. result \in Results /\ (result.kind = "applied" => result.desired.gen <= applied.gen)
    BY DEF ChannelInv, TypeOK, ReportInv
  <1>2. KnownIn(gens, result.desired) /\ RecordApplyResult(result)
    BY KnownIs DEF HandleLate, ChannelInv
  <1>3. StoreGrows
    BY <1>1, <1>2, RecordGrows
  <1>4. QED  BY <1>3, GrowStep DEF HandleLate

LEMMA DownlinkHead ==
    ASSUME ChannelInv, downlink # <<>>
    PROVE  /\ Head(downlink) \in Desired
           /\ restored # "lossy" =>
                 /\ KnownIn(gens, Head(downlink))
                 /\ applied.gen <= Head(downlink).gen
                 /\ pending.gen <= Head(downlink).gen
  <1>1. downlink \in Seq(Desired) /\ Len(downlink) \in Nat \ {0}
    BY StateFacts, EmptySeq DEF ChannelInv
  <1>2. Head(downlink) = downlink[1] /\ 1 \in 1 .. Len(downlink)
    BY <1>1
  <1>3. QED  BY <1>1, <1>2, ElementOfSeq DEF ChannelInv, AgreeInv

LEMMA RecordTypes ==
    ASSUME ChannelInv
    PROVE  /\ applied \in Desired \cup {Empty} /\ pending \in Desired \cup {Empty}
           /\ localResult \in Desired \cup {Empty}
           /\ applied.gen \in Nat /\ pending.gen \in Nat
           /\ up \in BOOLEAN /\ faults \in 0 .. MaxFaults
           /\ Fault => faults' \in 0 .. MaxFaults
  BY StateFacts, BoundAssumption DEF ChannelInv, TypeOK, Fault

LEMMA applySnapshotStep ==
    ASSUME ChannelInv, applySnapshot
    PROVE  ChannelInv'
  <1> DEFINE d == Head(downlink)
  <1>0. /\ connected /\ downlink # <<>> /\ downlink' = Tail(downlink)
        /\ UNCHANGED <<store, conn, dataLoss, migration, up, connected, localResult, late>>
    BY DEF applySnapshot
  <1>1. /\ d \in Desired /\ d.gen \in Nat /\ Empty.gen = 0 /\ Empty \in Desired \cup {Empty}
        /\ restored # "lossy" => KnownIn(gens, d) /\ AgreedIn(gens, d) /\ AgreedIn(gens, Empty)
    BY <1>0, DownlinkHead, DesiredFacts DEF AgreedIn
  <1>2. /\ Consumed
        /\ downlink' \in Seq(Desired)
        /\ \A i \in 1 .. Len(downlink') : downlink'[i].gen \in Nat
        /\ restored # "lossy" => \A i \in 1 .. Len(downlink') :
              applied.gen <= downlink'[i].gen /\ pending.gen <= downlink'[i].gen /\ d.gen <= downlink'[i].gen
    <2>1. Consumed
      BY <1>0 DEF Consumed
    <2>2. downlink' \in Seq(Desired)
      BY <2>1, ConsumedFacts
    <2>3. \A i \in 1 .. Len(downlink') : downlink'[i].gen \in Nat
      BY <2>2, ElementOfSeq, DesiredFacts
    <2>4. QED  BY <1>0, <2>1, <2>2, <2>3, ConsumedFacts
  <1>3. ASSUME NEW kind \in {"applied", "retryable", "permanent"}, Reply(kind),
               kind = "applied" => d = applied'
        PROVE  Reported
    BY <1>0, <1>1, <1>3 DEF Reply, Reported
  <1>4. restored # "lossy" => \A e \in {applied, pending, localResult} : AgreedIn(gens, e)
    BY DEF ChannelInv, AgreeInv
  <1>5. CASE Record!Install(d) /\ Reply("applied") /\ UNCHANGED faults
    <2>1. applied' = d /\ pending' = Empty /\ applied.gen <= d.gen
      BY <1>1, <1>5, RecordTypes DEF Record!Install, Record!Acceptable, Record!Succeeds
    <2>2. Reported
      BY <1>3, <1>5, <2>1
    <2>3. QED  BY <1>0, <1>1, <1>2, <1>4, <1>5, <2>1, <2>2, RecordTypes, AgentStep
  <1>6. CASE Record!Accept(d) /\ Fault /\ Reply("retryable")
    <2>1. pending' = d /\ applied' = applied
      BY <1>6 DEF Record!Accept
    <2>2. Reported
      BY <1>3, <1>6
    <2>3. QED  BY <1>0, <1>1, <1>2, <1>4, <1>6, <2>1, <2>2, RecordTypes, AgentStep
  <1>7. CASE /\ UNCHANGED record
             /\ Fault \/ UNCHANGED faults
             /\ Reply("retryable") \/ Reply("permanent")
    <2>1. pending' = pending /\ applied' = applied
      BY <1>7 DEF record
    <2>2. Reported
      BY <1>3, <1>7
    <2>3. faults' \in 0 .. MaxFaults
      <3>1. CASE Fault
        BY <3>1, RecordTypes
      <3>2. CASE UNCHANGED faults
        BY <3>2 DEF ChannelInv, TypeOK
      <3>3. QED  BY <1>7, <3>1, <3>2
    <2>4. applied \in Desired \cup {Empty} /\ pending \in Desired \cup {Empty} /\ applied.gen <= applied'.gen
      BY <2>1, DesiredFacts DEF ChannelInv, TypeOK
    <2>5. /\ localResult' \in Desired \cup {Empty} /\ up' \in BOOLEAN
          /\ applied' \in Desired \cup {Empty} /\ pending' \in Desired \cup {Empty}
      BY <1>0, <2>1, RecordTypes
    <2>6. restored # "lossy" =>
             /\ \A e \in {applied', pending', localResult'} : AgreedIn(gens, e)
             /\ \A i \in 1 .. Len(downlink') :
                   applied'.gen <= downlink'[i].gen /\ pending'.gen <= downlink'[i].gen
      BY <1>0, <1>2, <1>4, <2>1
    <2>7. QED  BY <1>0, <1>2, <2>2, <2>3, <2>4, <2>5, <2>6, AgentStep
  <1>8. QED  BY <1>5, <1>6, <1>7 DEF applySnapshot

(* What is pending is installed, by the Agent on its own.                  *)
LEMMA InstallPendingFacts ==
    ASSUME ChannelInv, InstallPending
    PROVE  /\ applied' \in Desired \cup {Empty} /\ pending' \in Desired \cup {Empty}
           /\ applied.gen <= applied'.gen
           /\ restored # "lossy" =>
                 /\ AgreedIn(gens, applied') /\ AgreedIn(gens, pending')
                 /\ \A i \in 1 .. Len(downlink) :
                       applied'.gen <= downlink[i].gen /\ pending'.gen <= downlink[i].gen
  <1>0. /\ \A i \in 1 .. Len(downlink) : downlink[i].gen \in Nat
        /\ Empty.gen = 0 /\ AgreedIn(gens, Empty)
    BY StateFacts, DesiredFacts DEF ChannelInv, AgreedIn
  <1>1. restored # "lossy" =>
           /\ AgreedIn(gens, applied) /\ AgreedIn(gens, pending)
           /\ \A i \in 1 .. Len(downlink) :
                 applied.gen <= downlink[i].gen /\ pending.gen <= downlink[i].gen
    BY DEF ChannelInv, AgreeInv
  <1>2. CASE pending # Empty
    <2>1. applied' = pending /\ pending' = Empty /\ applied.gen <= pending.gen
      BY <1>2, RecordTypes DEF InstallPending, Record!Install, Record!Acceptable, Record!Succeeds
    <2>2. QED  BY <1>0, <1>1, <2>1, RecordTypes
  <1>3. CASE pending = Empty
    <2>1. applied' = applied /\ pending' = pending
      BY <1>3 DEF InstallPending, record
    <2>2. QED  BY <1>1, <2>1, RecordTypes
  <1>4. QED  BY <1>2, <1>3

LEMMA MaintainStep ==
    ASSUME ChannelInv, Maintain
    PROVE  ChannelInv'
  <1>0. /\ InstallPending /\ localResult' = applied'
        /\ UNCHANGED <<store, conn, dataLoss, migration, up, connected, uplink, downlink, late, faults>>
    BY DEF Maintain
  <1>1. Reported /\ Consumed
    BY <1>0 DEF Reported, Consumed
  <1>2. QED  BY <1>0, <1>1, InstallPendingFacts, RecordTypes, AgentStep

LEMMA RecoverStep ==
    ASSUME ChannelInv, Recover
    PROVE  ChannelInv'
  <1>0. /\ InstallPending /\ up' \in BOOLEAN
        /\ UNCHANGED <<store, conn, dataLoss, migration, connected, localResult,
                       uplink, downlink, late, faults>>
    BY DEF Recover
  <1>1. Reported /\ Consumed
    BY <1>0 DEF Reported, Consumed
  <1>2. restored # "lossy" => AgreedIn(gens, localResult)
    BY DEF ChannelInv, AgreeInv
  <1>3. QED  BY <1>0, <1>1, <1>2, InstallPendingFacts, RecordTypes, AgentStep

LEMMA SendLocalResultStep ==
    ASSUME ChannelInv, SendLocalResult
    PROVE  ChannelInv'
  <1>0. /\ connected /\ localResult # Empty /\ localResult' = Empty
        /\ uplink' = IF resultIsCurrent THEN Append(uplink, Result("applied", localResult)) ELSE uplink
        /\ UNCHANGED <<store, conn, dataLoss, migration, applied, pending, up, connected, downlink, late, faults>>
    BY DEF SendLocalResult, record
  <1>1. localResult \in Desired
    BY <1>0, RecordTypes
  <1>2. /\ restored # "lossy" =>
              /\ \A d \in {applied, pending, localResult, Empty} : AgreedIn(gens, d)
              /\ \A i \in 1 .. Len(downlink) :
                    applied.gen <= downlink[i].gen /\ pending.gen <= downlink[i].gen
    BY DEF ChannelInv, AgreeInv, AgreedIn
  <1>3. Reported
    <2>1. CASE resultIsCurrent
      <3>1. localResult = applied'
        BY <1>0, <2>1 DEF resultIsCurrent
      <3>2. restored # "lossy" => KnownIn(gens, localResult)
        BY <1>0, <1>2 DEF AgreedIn
      <3>3. QED  BY <1>0, <1>1, <2>1, <3>1, <3>2 DEF Reported
    <2>2. CASE ~resultIsCurrent
      BY <1>0, <2>2 DEF Reported
    <2>3. QED  BY <2>1, <2>2
  <1>4. Consumed
    BY <1>0 DEF Consumed
  <1>5. applied.gen <= applied'.gen /\ Empty \in Desired \cup {Empty}
    BY <1>0, RecordTypes
  <1>6. QED  BY <1>0, <1>2, <1>3, <1>4, <1>5, RecordTypes, AgentStep

(* The archive is the store of that moment.                                *)
LEMMA BackupStep ==
    ASSUME ChannelInv, Backup
    PROVE  ChannelInv'
  <1>0. /\ restored = "no"
        /\ backup' = [gens |-> gens, nodeApplied |-> nodeApplied]
        /\ UNCHANGED <<gens, nodeApplied, conn, dataLoss, restored, applied, pending, up, connected,
                       localResult, uplink, downlink, late, faults>>
    BY DEF Backup, store, record
  <1>1. backup'.gens = gens /\ backup'.nodeApplied = nodeApplied
    BY <1>0
  <1>2. TypeOK'
    BY <1>0, <1>1 DEF ChannelInv, TypeOK
  <1>3. StoreInv'
    <2>1. Len(gens) \in Nat
      BY StateFacts DEF ChannelInv
    <2>2. QED  BY <1>0, <1>1, <2>1 DEF ChannelInv, StoreInv
  <1>4. SessionInv' /\ ReportInv' /\ AgreeInv'
    BY <1>0 DEF ChannelInv, SessionInv, ReportInv, Reports, AgreeInv, AgreedIn, KnownIn, Closed, Empty
  <1>5. QED  BY <1>2, <1>3, <1>4 DEF ChannelInv

(* A restore that loses no generation keeps every generation's content.    *)
LEMMA RestoreStep ==
    ASSUME ChannelInv, Restore
    PROVE  ChannelInv'
  <1>0. /\ backup # NoBackup
        /\ gens' = backup.gens /\ nodeApplied' = backup.nodeApplied
        /\ backup' = NoBackup
        /\ restored' = IF Len(gens') = Len(gens) THEN "exact" ELSE "lossy"
        /\ connected' = FALSE /\ conn' = Closed /\ uplink' = <<>> /\ downlink' = <<>> /\ late' = {}
        /\ UNCHANGED <<dataLoss, applied, pending, up, localResult, faults>>
    BY DEF Restore, record
  <1>1. /\ restored = "no"
        /\ GoodStore(gens', nodeApplied')
        /\ nodeApplied' <= applied.gen
        /\ \A g \in 1 .. Len(gens') : gens'[g].content = gens[g].content
    BY <1>0 DEF ChannelInv, StoreInv
  <1>2. /\ uplink' \in Seq(Event) /\ downlink' \in Seq(Desired) /\ Len(uplink') = 0 /\ Len(downlink') = 0
        /\ Closed \in ConnectionState /\ Closed.applied = Empty /\ Closed.open = FALSE
    BY <1>0, EmptySeq, BoundAssumption DEF Closed, ConnectionState
  <1>3. TypeOK'
    BY <1>0, <1>1, <1>2 DEF ChannelInv, TypeOK, GoodStore, GenerationRow, ConnectionState, Event
  <1>4. StoreInv'
    BY <1>0, <1>1 DEF StoreInv, NoBackup
  <1>5. SessionInv' /\ ReportInv'
    BY <1>0, <1>2 DEF SessionInv, ReportInv, Closed, Empty
  <1>6. AgreeInv'
    <2> SUFFICES ASSUME restored' # "lossy"
                 PROVE  AgreeInv'
      BY DEF AgreeInv
    <2>1. Len(gens') = Len(gens)
      BY <1>0
    <2>2. \A d : AgreedIn(gens, d) => AgreedIn(gens', d)
      BY <1>1, <2>1 DEF AgreedIn, KnownIn
    <2>3. /\ \A d \in {applied, pending, localResult} : AgreedIn(gens, d)
          /\ ~dataLoss
      BY <1>1 DEF ChannelInv, AgreeInv
    <2>4. AgreedIn(gens', Closed.applied)
      BY <1>2 DEF AgreedIn
    <2>5. \A d \in {applied', pending', localResult', conn'.applied} : AgreedIn(gens', d)
      BY <1>0, <2>2, <2>3, <2>4
    <2>6. QED  BY <1>0, <1>2, <2>3, <2>5 DEF AgreeInv
  <1>7. QED  BY <1>3, <1>4, <1>5, <1>6 DEF ChannelInv

-----------------------------------------------------------------------------
(* The theorems.                                                           *)

LEMMA ChannelInit == Init => ChannelInv
  <1> SUFFICES ASSUME Init PROVE ChannelInv
    OBVIOUS
  <1>1. /\ gens = <<>> /\ nodeApplied = 0 /\ conn = Closed /\ dataLoss = FALSE
        /\ backup = NoBackup /\ restored = "no" /\ applied = Empty /\ pending = Empty
        /\ up = FALSE /\ connected = FALSE /\ localResult = Empty
        /\ uplink = <<>> /\ downlink = <<>> /\ late = {} /\ faults = 0
    BY DEF Init
  <1>2. /\ <<>> \in Seq(Event) /\ <<>> \in Seq(Desired) /\ <<>> \in Seq(GenerationRow)
        /\ Len(gens) = 0 /\ Len(uplink) = 0 /\ Len(downlink) = 0
        /\ Closed \in ConnectionState /\ Closed.applied = Empty /\ Closed.open = FALSE
        /\ Empty.gen = 0
    BY <1>1, EmptySeq, DesiredFacts, BoundAssumption DEF Closed, ConnectionState
  <1>3. TypeOK
    <2>1. dataLoss \in BOOLEAN /\ up \in BOOLEAN /\ connected \in BOOLEAN
      BY <1>1
    <2>2. conn \in [open : BOOLEAN, applied : Desired \cup {Empty}, lastSent : 0 .. MaxGen,
                   blocked : 0 .. MaxGen, retry : {"none", "waiting", "due"}]
      BY <1>1, <1>2 DEF ConnectionState
    <2>3. /\ gens \in Seq([content : Content, status : Status, cause : 0 .. MaxGen])
          /\ uplink \in Seq(Results \cup {Hello(d) : d \in Desired \cup {Empty}})
          /\ downlink \in Seq(Desired)
      BY <1>1, <1>2 DEF GenerationRow, Event
    <2>4. /\ Len(gens) <= MaxGen /\ nodeApplied \in 0 .. MaxGen /\ faults \in 0 .. MaxFaults
      BY <1>1, <1>2, BoundAssumption
    <2>5. /\ applied \in Desired \cup {Empty} /\ pending \in Desired \cup {Empty}
          /\ localResult \in Desired \cup {Empty}
          /\ backup = NoBackup /\ late \subseteq Results /\ restored \in {"no", "exact", "lossy"}
      BY <1>1
    <2>6. QED  BY <2>1, <2>2, <2>3, <2>4, <2>5 DEF TypeOK
  <1>4. StoreInv
    BY <1>1, <1>2, BoundAssumption DEF StoreInv, GoodStore
  <1>5. SessionInv /\ ReportInv
    BY <1>1, <1>2 DEF SessionInv, ReportInv
  <1>6. AgreeInv
    BY <1>1, <1>2 DEF AgreeInv, AgreedIn
  <1>7. QED  BY <1>3, <1>4, <1>5, <1>6 DEF ChannelInv

LEMMA ChannelStep ==
    ASSUME ChannelInv, [Next]_vars
    PROVE  ChannelInv'
  <1>1. ASSUME NEW content \in Content, PublishDesired(content)
        PROVE  ChannelInv'
    BY <1>1, PublishGrows, GrowStep DEF PublishDesired
  <1>2. CASE Disconnect
    <2>1. dataLoss \in BOOLEAN
      BY DEF ChannelInv, TypeOK
    <2>2. QED  BY <1>2, <2>1, RecordTypes, EndSessionStep DEF Disconnect
  <1>3. CASE Crash
    <2>1. dataLoss \in BOOLEAN
      BY DEF ChannelInv, TypeOK
    <2>2. QED  BY <1>3, <2>1, RecordTypes, EndSessionStep DEF Crash
  <1>4. CASE UNCHANGED vars
    <2>1. StoreGrows
      BY <1>4, StoreSame DEF vars, store
    <2>2. QED  BY <1>4, <2>1, GrowStep DEF vars, migration, record
  <1>5. QED
    BY <1>1, <1>2, <1>3, <1>4, ConnectStep, HandleHelloStep, PollStep, RetryDelayStep,
       HandleApplyResultStep, HandleLateStep, applySnapshotStep, MaintainStep,
       SendLocalResultStep, RecoverStep, BackupStep, RestoreStep DEF Next

LEMMA ChannelInductive == Spec => []ChannelInv
  BY ChannelInit, ChannelStep, PTL DEF Spec

(* Everything the Controller, the Agent and the streams hold keeps its     *)
(* type; the store never outgrows its bound, because a force deletion is   *)
(* only published where its completion still fits.                         *)
THEOREM TypeCorrect == Spec => []TypeOK
  BY ChannelInductive, PTL DEF ChannelInv

(* RecordApplyResult never makes the Controller show a generation that the *)
(* Agent has not made durable, in whatever order repeated, late and local  *)
(* results arrive and whatever store was restored.                         *)
THEOREM ControllerNeverAhead == Spec => []ControllerNotAhead
  <1>1. ChannelInv => ControllerNotAhead
    BY StateFacts DEF ChannelInv, StoreInv, GoodStore, ControllerNotAhead
  <1>2. QED  BY <1>1, ChannelInductive, PTL

(* Unless a restore has lost generations, the Agent never has to refuse a  *)
(* snapshot that is under way as stale or conflicting.                     *)
THEOREM SnapshotsAlwaysAcceptable == Spec => []SnapshotsAcceptable
  <1>1. ChannelInv => SnapshotsAcceptable
    <2> SUFFICES ASSUME ChannelInv, restored # "lossy", NEW i \in DOMAIN downlink
                 PROVE  Record!Acceptable(downlink[i])
      BY DEF SnapshotsAcceptable
    <2>1. i \in 1 .. Len(downlink) /\ downlink[i] \in Desired
      BY StateFacts DEF ChannelInv
    <2>2. /\ KnownIn(gens, downlink[i])
          /\ applied.gen <= downlink[i].gen /\ pending.gen <= downlink[i].gen
          /\ \A d \in {applied, pending} : AgreedIn(gens, d)
      BY <2>1 DEF ChannelInv, AgreeInv
    <2>3. downlink[i].gen \in Nat \ {0} /\ applied.gen \in Nat /\ pending.gen \in Nat /\ Empty.gen = 0
      BY <2>1, RecordTypes, DesiredFacts
    <2>4. ASSUME NEW d \in {applied, pending}, downlink[i].gen = d.gen
          PROVE  downlink[i].content = d.content
      BY <2>2, <2>3, <2>4 DEF AgreedIn, KnownIn
    <2>5. QED  BY <2>2, <2>3, <2>4 DEF Record!Acceptable, Record!Succeeds
  <1>2. QED  BY <1>1, ChannelInductive, PTL

(* sendLatest and RecordApplyResult never refuse a stream with DataLoss,   *)
(* unless a restore has lost generations.                                  *)
THEOREM DataLossNeverReported == Spec => []NeverDataLoss
  <1>1. ChannelInv => NeverDataLoss
    BY DEF ChannelInv, AgreeInv, NeverDataLoss
  <1>2. QED  BY <1>1, ChannelInductive, PTL

(* RecordApplyResult publishes the removal of force-deleted forwards once, *)
(* directly after the generation it completes.                             *)
THEOREM CleanupFollowsForcedHolds == Spec => []CleanupFollowsForced
  <1>1. ChannelInv => CleanupFollowsForced
    BY StateFacts DEF ChannelInv, StoreInv, GoodStore, CleanupFollowsForced
  <1>2. QED  BY <1>1, ChannelInductive, PTL

(* Within one stream the Controller's view of what the Agent runs never    *)
(* goes back.                                                              *)
THEOREM SessionNeverGoesBack == Spec => SessionAdvances
  <1> DEFINE Advance == conn.open /\ conn'.open => conn'.applied.gen >= conn.applied.gen
  <1>1. ChannelInv /\ [Next]_vars => [Advance]_vars
    <2> SUFFICES ASSUME ChannelInv, [Next]_vars, conn.open, conn'.open
                 PROVE  conn'.applied.gen >= conn.applied.gen
      OBVIOUS
    <2>0. conn.applied.gen \in Nat /\ conn \in ConnectionState /\ Closed.open = FALSE
      BY StateFacts DEF ChannelInv, TypeOK, ConnectionState, Closed
    <2>1. ASSUME UNCHANGED conn
          PROVE  conn'.applied.gen >= conn.applied.gen
      BY <2>0, <2>1
    <2>2. ASSUME conn' = Closed
          PROVE  FALSE
      BY <2>0, <2>2
    <2>3. CASE HandleHello
      <3>1. uplink \in Seq(Event) /\ uplink # <<>> /\ Head(uplink).kind = "hello"
        BY <2>3, StateFacts DEF ChannelInv, HandleHello
      <3>2. Head(uplink) = uplink[1] /\ 1 \in 1 .. Len(uplink)
        BY <3>1, EmptySeq
      <3>3. QED  BY <3>1, <3>2 DEF ChannelInv, SessionInv
    <2>4. CASE Poll
      <3>1. CASE Refuse
        BY <2>2, <3>1 DEF Refuse, EndSession
      <3>2. CASE conn' = [conn EXCEPT !.lastSent = Len(gens), !.retry = "none"]
        <4>1. conn'.applied = conn.applied
          BY <2>0, <3>2 DEF ConnectionState
        <4>2. QED  BY <2>0, <4>1
      <3>3. CASE conn' = conn
        BY <2>1, <3>3
      <3>4. QED  BY <2>4, <3>1, <3>2, <3>3 DEF Poll, sendLatest
    <2>5. CASE RetryDelay
      <3>1. conn'.applied = conn.applied
        BY <2>0, <2>5 DEF RetryDelay, ConnectionState
      <3>2. QED  BY <2>0, <3>1
    <2>6. CASE HandleApplyResult
      <3>1. uplink # <<>>
        BY <2>6 DEF HandleApplyResult
      <3>2. CASE Refuse
        BY <2>2, <3>2 DEF Refuse, EndSession
      <3>3. CASE conn' = StateAfter(Head(uplink))
        BY <2>0, <3>1, <3>3, HeadFacts, StateAfterFacts
      <3>4. QED  BY <2>6, <3>2, <3>3 DEF HandleApplyResult
    <2>7. CASE Disconnect \/ Crash \/ Restore
      BY <2>2, <2>7 DEF Disconnect, Crash, Restore, EndSession
    <2>8. CASE \/ \E content \in Content : PublishDesired(content)
               \/ \E result \in late : HandleLate(result)
               \/ Connect \/ applySnapshot \/ Maintain \/ SendLocalResult \/ Recover \/ Backup
      BY <2>1, <2>8 DEF PublishDesired, HandleLate, Connect, applySnapshot, Maintain,
                        SendLocalResult, Recover, Backup
    <2>9. CASE UNCHANGED vars
      BY <2>1, <2>9 DEF vars
    <2>10. QED
      BY <2>3, <2>4, <2>5, <2>6, <2>7, <2>8, <2>9 DEF Next
  <1>2. QED  BY <1>1, ChannelInductive, PTL DEF Spec, SessionAdvances

=============================================================================
