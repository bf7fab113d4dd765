------------------------- MODULE UsageDeliveryProofs -------------------------
(***************************************************************************)
(* What TLAPS proves about UsageDelivery, for any number of batches, any   *)
(* size of the outbox and of the streams, and any number of outages,       *)
(* crashes and failing transactions.                                       *)
(***************************************************************************)
EXTENDS UsageDelivery, SequenceTheorems, TLAPS

-----------------------------------------------------------------------------
(* The inductive invariant.                                                *)

(* The sequence number of the last batch the Agent has forgotten.          *)
Forgotten == collected - Len(outbox)

(* The outbox holds the newest batches, without a gap; all older ones are  *)
(* recorded, and nothing is recorded that was not collected.               *)
OutboxInv ==
    /\ Forgotten >= 0
    /\ \A i \in 1 .. Len(outbox) : outbox[i].seq = Forgotten + i
    /\ 1 .. Forgotten \subseteq recorded
    /\ recorded \subseteq 1 .. collected

(* In a stream a batch comes after every older one that is not recorded.   *)
UplinkInv ==
    \A i \in 1 .. Len(uplink) :
       /\ uplink[i].seq <= collected
       /\ \A s \in 1 .. uplink[i].seq :
              s \in recorded \/ \E j \in 1 .. i : uplink[j].seq = s

LateInv == \A b \in late : b.seq <= collected

(* An ACK that is under way stands for recorded batches only.              *)
DownlinkInv ==
    \A i \in 1 .. Len(downlink) : 1 .. downlink[i] \subseteq recorded

DeliveryInv == TypeOK /\ OutboxInv /\ UplinkInv /\ LateInv /\ DownlinkInv

-----------------------------------------------------------------------------
(* Facts about the state that several steps use.                           *)

LEMMA StateFacts ==
    ASSUME DeliveryInv
    PROVE  /\ Len(outbox) \in Nat /\ Len(uplink) \in Nat /\ Len(downlink) \in Nat
           /\ collected \in Nat /\ Forgotten \in Nat
           /\ \A i \in 1 .. Len(outbox) : outbox[i] \in Batch
           /\ \A i \in 1 .. Len(uplink) : uplink[i] \in Batch
           /\ \A i \in 1 .. Len(downlink) : downlink[i] \in 1 .. MaxSeq
           /\ \A b \in Batch : b.seq \in 1 .. MaxSeq
  <1>1. /\ outbox \in Seq(Batch) /\ uplink \in Seq(Batch) /\ downlink \in Seq(1 .. MaxSeq)
        /\ collected \in Nat /\ Forgotten >= 0
    BY DeliveryAssumption DEF DeliveryInv, TypeOK, OutboxInv
  <1>2. Len(outbox) \in Nat /\ Len(uplink) \in Nat /\ Len(downlink) \in Nat
    BY <1>1, LenProperties
  <1>3. Forgotten \in Nat
    BY <1>1, <1>2 DEF Forgotten
  <1>4. /\ \A i \in 1 .. Len(outbox) : outbox[i] \in Batch
        /\ \A i \in 1 .. Len(uplink) : uplink[i] \in Batch
        /\ \A i \in 1 .. Len(downlink) : downlink[i] \in 1 .. MaxSeq
    BY <1>1, ElementOfSeq
  <1>5. \A b \in Batch : b.seq \in 1 .. MaxSeq
    BY DEF Batch
  <1>6. QED  BY <1>1, <1>2, <1>3, <1>4, <1>5

(* The outbox covers all that is not recorded, so what is due is known     *)
(* without looking into it.                                                *)
LEMMA UndeliveredIs ==
    ASSUME DeliveryInv
    PROVE  Undelivered = (1 .. collected) \ recorded
  <1>1. DOMAIN outbox = 1 .. Len(outbox)
    BY DEF DeliveryInv, TypeOK
  <1>2. \A s \in Undelivered : s \in (1 .. collected) \ recorded
    <2> SUFFICES ASSUME NEW s \in Undelivered
                 PROVE  s \in (1 .. collected) \ recorded
      OBVIOUS
    <2>1. PICK i \in 1 .. Len(outbox) : s = outbox[i].seq
      BY <1>1 DEF Undelivered, ToSet
    <2>2. s = Forgotten + i
      BY <2>1 DEF DeliveryInv, OutboxInv
    <2>3. QED  BY <2>2, StateFacts DEF Undelivered, Forgotten
  <1>3. \A s \in (1 .. collected) \ recorded : s \in Undelivered
    <2> SUFFICES ASSUME NEW s \in (1 .. collected) \ recorded
                 PROVE  s \in Undelivered
      OBVIOUS
    <2>1. s \notin 1 .. Forgotten
      BY DEF DeliveryInv, OutboxInv
    <2>2. s - Forgotten \in 1 .. Len(outbox)
      BY <2>1, StateFacts DEF Forgotten
    <2>3. outbox[s - Forgotten].seq = s
      BY <2>2, StateFacts DEF DeliveryInv, OutboxInv
    <2>4. QED  BY <1>1, <2>2, <2>3 DEF Undelivered, ToSet
  <1>4. QED  BY <1>2, <1>3

-----------------------------------------------------------------------------
(* One lemma per kind of step.                                             *)

(* A new batch goes to the end of the outbox with the next number.         *)
LEMMA EnqueueStep ==
    ASSUME DeliveryInv, Enqueue, ready' \in BOOLEAN,
           UNCHANGED <<session, controller, clock, faults>>
    PROVE  DeliveryInv'
  <1> USE DeliveryAssumption
  <1> DEFINE b == [seq |-> collected + 1, born |-> clock]
  <1>0. UNCHANGED <<connected, uplink, downlink, late, recorded, rollup, clock, faults>>
    BY DEF session, controller
  <1>1. /\ collected < MaxSeq
        /\ collected' = collected + 1
        /\ outbox' = Append(outbox, b)
        /\ Len(outbox) < MaxOutbox
    BY StateFacts DEF Enqueue, OutboxFull
  <1>2. b \in Batch
    BY <1>1 DEF Batch, DeliveryInv, TypeOK
  <1>3. /\ outbox' \in Seq(Batch)
        /\ Len(outbox') = Len(outbox) + 1
        /\ \A i \in 1 .. Len(outbox) : outbox'[i] = outbox[i]
        /\ outbox'[Len(outbox) + 1] = b
    BY <1>1, <1>2, AppendProperties DEF DeliveryInv, TypeOK
  <1>4. Forgotten' = Forgotten
    BY <1>1, <1>3, StateFacts DEF Forgotten
  <1>5. TypeOK'
    BY <1>0, <1>1, <1>3, StateFacts DEF DeliveryInv, TypeOK
  <1>6. OutboxInv'
    <2>1. ASSUME NEW i \in 1 .. Len(outbox')
          PROVE  outbox'[i].seq = Forgotten' + i
      <3>1. CASE i \in 1 .. Len(outbox)
        BY <1>3, <1>4, <3>1 DEF DeliveryInv, OutboxInv
      <3>2. CASE i = Len(outbox) + 1
        <4>1. outbox'[i].seq = collected + 1
          BY <1>3, <3>2
        <4>2. QED  BY <1>4, <3>2, <4>1, StateFacts DEF Forgotten
      <3>3. QED  BY <1>3, <3>1, <3>2, StateFacts
    <2>2. recorded' \subseteq 1 .. collected'
      BY <1>0, <1>1, StateFacts DEF DeliveryInv, OutboxInv
    <2>3. QED  BY <1>0, <1>4, <2>1, <2>2, StateFacts DEF DeliveryInv, OutboxInv
  <1>7. UplinkInv' /\ LateInv' /\ DownlinkInv'
    <2>1. \A i \in 1 .. Len(uplink) : uplink[i].seq \in Nat
      BY StateFacts
    <2>2. \A c \in late : c.seq \in Nat
      BY StateFacts DEF DeliveryInv, TypeOK, Batch
    <2>3. QED
      BY <1>0, <1>1, <2>1, <2>2, StateFacts DEF DeliveryInv, UplinkInv, LateInv, DownlinkInv
  <1>8. QED  BY <1>5, <1>6, <1>7 DEF DeliveryInv

(* The whole outbox goes into the stream: what it does not hold is         *)
(* recorded, and it is in order.                                           *)
LEMMA SendStep ==
    ASSUME DeliveryInv, sendUsage, ready' \in BOOLEAN, connected' \in BOOLEAN,
           UNCHANGED <<agent, downlink, late, controller, clock, faults>>
    PROVE  DeliveryInv'
  <1>0. UNCHANGED <<outbox, collected, downlink, late, recorded, rollup, clock, faults>>
    BY DEF agent, controller
  <1>1. /\ uplink' \in Seq(Batch)
        /\ Len(uplink') = Len(uplink) + Len(outbox)
        /\ \A i \in 1 .. Len(uplink) : uplink'[i] = uplink[i]
        /\ \A i \in 1 .. Len(outbox) : uplink'[Len(uplink) + i] = outbox[i]
    <2>1. uplink \in Seq(Batch) /\ outbox \in Seq(Batch) /\ uplink' = uplink \o outbox
      BY DEF DeliveryInv, TypeOK, sendUsage
    <2>2. /\ uplink' \in Seq(Batch)
          /\ Len(uplink') = Len(uplink) + Len(outbox)
          /\ \A i \in 1 .. Len(uplink) + Len(outbox) :
                uplink'[i] = IF i <= Len(uplink) THEN uplink[i] ELSE outbox[i - Len(uplink)]
      BY <2>1, ConcatProperties
    <2>3. QED  BY <2>2, StateFacts
  <1>2. TypeOK'
    BY <1>0, <1>1 DEF DeliveryInv, TypeOK
  <1>3. Forgotten' = Forgotten
    BY <1>0 DEF Forgotten
  <1>4. OutboxInv' /\ LateInv' /\ DownlinkInv'
    BY <1>0, <1>3 DEF DeliveryInv, OutboxInv, LateInv, DownlinkInv
  <1>5. UplinkInv'
    <2> SUFFICES ASSUME NEW i \in 1 .. Len(uplink')
                 PROVE  /\ uplink'[i].seq <= collected
                        /\ \A s \in 1 .. uplink'[i].seq :
                              s \in recorded \/ \E j \in 1 .. i : uplink'[j].seq = s
      BY <1>0 DEF UplinkInv
    <2>1. CASE i \in 1 .. Len(uplink)
      <3>1. uplink'[i] = uplink[i] /\ \A j \in 1 .. i : uplink'[j] = uplink[j]
        BY <1>1, <2>1, StateFacts
      <3>2. QED  BY <2>1, <3>1 DEF DeliveryInv, UplinkInv
    <2>2. CASE i \notin 1 .. Len(uplink)
      <3>1. PICK k \in 1 .. Len(outbox) : i = Len(uplink) + k
        <4>1. i - Len(uplink) \in 1 .. Len(outbox) /\ i = Len(uplink) + (i - Len(uplink))
          BY <1>1, <2>2, StateFacts
        <4>2. QED  BY <4>1
      <3>2. uplink'[i].seq = Forgotten + k
        BY <1>1, <3>1 DEF DeliveryInv, OutboxInv
      <3>3. Forgotten + k <= collected
        BY StateFacts DEF Forgotten
      <3>4. ASSUME NEW s \in 1 .. uplink'[i].seq, s \notin recorded
            PROVE  \E j \in 1 .. i : uplink'[j].seq = s
        <4>1. s \notin 1 .. Forgotten
          BY <3>4 DEF DeliveryInv, OutboxInv
        <4>2. s - Forgotten \in 1 .. k /\ s - Forgotten \in 1 .. Len(outbox)
          BY <3>2, <4>1, StateFacts
        <4>3. uplink'[Len(uplink) + (s - Forgotten)] = outbox[s - Forgotten]
          BY <1>1, <4>2
        <4>4. outbox[s - Forgotten].seq = s
          BY <4>2, StateFacts DEF DeliveryInv, OutboxInv
        <4>5. Len(uplink) + (s - Forgotten) \in 1 .. i
          BY <3>1, <4>2, StateFacts
        <4>6. QED  BY <4>3, <4>4, <4>5
      <3>5. QED  BY <3>2, <3>3, <3>4
    <2>3. QED  BY <2>1, <2>2
  <1>6. QED  BY <1>2, <1>4, <1>5 DEF DeliveryInv

(* An ACK removes a prefix of the outbox that is recorded, or nothing.     *)
LEMMA ReceiveAckStep ==
    ASSUME DeliveryInv, ReceiveAck
    PROVE  DeliveryInv'
  <1> DEFINE a == Head(downlink)
  <1>0. /\ UNCHANGED <<collected, ready, connected, uplink, late, recorded, rollup, clock, faults>>
        /\ downlink # <<>> /\ downlink' = Tail(downlink)
        /\ AckUsage(a)
    BY DEF ReceiveAck, controller
  <1>1. /\ a = downlink[1]
        /\ 1 \in 1 .. Len(downlink)
        /\ downlink' \in Seq(1 .. MaxSeq)
        /\ Len(downlink') = Len(downlink) - 1
        /\ \A i \in 1 .. Len(downlink') : downlink'[i] = downlink[i + 1]
    <2>1. downlink \in Seq(1 .. MaxSeq)
      BY DEF DeliveryInv, TypeOK
    <2>2. Len(downlink) \in Nat \ {0}
      BY <1>0, <2>1, EmptySeq
    <2>3. QED  BY <1>0, <2>1, <2>2, HeadTailProperties
  <1>2. DownlinkInv'
    <2> SUFFICES ASSUME NEW i \in 1 .. Len(downlink')
                 PROVE  1 .. downlink'[i] \subseteq recorded
      BY <1>0 DEF DownlinkInv
    <2>1. i + 1 \in 1 .. Len(downlink)
      BY <1>1, StateFacts
    <2>2. QED  BY <1>1, <2>1 DEF DeliveryInv, DownlinkInv
  <1>3. a \in Nat /\ 1 .. a \subseteq recorded
    BY <1>1, StateFacts DEF DeliveryInv, DownlinkInv
  <1>4. UplinkInv' /\ LateInv'
    BY <1>0 DEF DeliveryInv, UplinkInv, LateInv
  <1>5. CASE \E i \in DOMAIN outbox : outbox[i].seq = a
    <2>1. PICK k \in 1 .. Len(outbox) :
             /\ outbox[k].seq = a
             /\ outbox' = SubSeq(outbox, 1 + k, Len(outbox))
      <3>1. DOMAIN outbox = 1 .. Len(outbox)
        BY DEF DeliveryInv, TypeOK
      <3>2. outbox[CHOOSE i \in DOMAIN outbox : outbox[i].seq = a].seq = a
            /\ (CHOOSE i \in DOMAIN outbox : outbox[i].seq = a) \in DOMAIN outbox
        BY <1>5
      <3>3. outbox' = SubSeq(outbox, 1 + CHOOSE i \in DOMAIN outbox : outbox[i].seq = a, Len(outbox))
        BY <1>0, <1>5 DEF AckUsage
      <3>4. QED  BY <3>1, <3>2, <3>3
    <2>2. a = Forgotten + k
      BY <2>1 DEF DeliveryInv, OutboxInv
    <2>3. /\ outbox' \in Seq(Batch)
          /\ Len(outbox') = Len(outbox) - k
          /\ \A i \in 1 .. Len(outbox') : outbox'[i] = outbox[k + i]
      <3>1. 1 + k \in Int /\ Len(outbox) \in Int
        BY StateFacts
      <3>2. \A i \in (1 + k) .. Len(outbox) : outbox[i] \in Batch
        BY StateFacts
      <3>3. /\ outbox' \in Seq(Batch)
            /\ Len(outbox') = IF 1 + k <= Len(outbox) THEN Len(outbox) - (1 + k) + 1 ELSE 0
            /\ \A i \in 1 .. Len(outbox) - (1 + k) + 1 : outbox'[i] = outbox[(1 + k) + i - 1]
        BY <2>1, <3>1, <3>2, SubSeqProperties
      <3>4. Len(outbox') = Len(outbox) - k
        BY <3>3, StateFacts
      <3>5. ASSUME NEW i \in 1 .. Len(outbox')
            PROVE  outbox'[i] = outbox[k + i]
        <4>1. i \in 1 .. Len(outbox) - (1 + k) + 1 /\ (1 + k) + i - 1 = k + i
          BY <3>4, StateFacts
        <4>2. QED  BY <3>3, <4>1
      <3>6. QED  BY <3>3, <3>4, <3>5
    <2>4. Forgotten' = a
      BY <1>0, <2>2, <2>3, StateFacts DEF Forgotten
    <2>5. TypeOK'
      <3>1. TypeOK /\ Len(outbox) \in Nat /\ k \in Nat
        BY StateFacts DEF DeliveryInv
      <3>2. Len(outbox') <= MaxOutbox
        BY <2>3, <3>1, DeliveryAssumption DEF TypeOK
      <3>3. QED  BY <1>0, <1>1, <2>3, <3>1, <3>2 DEF TypeOK
    <2>6. OutboxInv'
      <3>1. ASSUME NEW i \in 1 .. Len(outbox')
            PROVE  outbox'[i].seq = Forgotten' + i
        <4>1. k + i \in 1 .. Len(outbox)
          BY <2>3, StateFacts
        <4>2. outbox'[i].seq = Forgotten + (k + i)
          BY <2>3, <4>1 DEF DeliveryInv, OutboxInv
        <4>3. Forgotten + (k + i) = a + i
          BY <2>2, StateFacts
        <4>4. QED  BY <2>4, <4>2, <4>3
      <3>2. QED  BY <1>0, <1>3, <2>4, <3>1 DEF DeliveryInv, OutboxInv
    <2>7. QED  BY <1>2, <1>4, <2>5, <2>6 DEF DeliveryInv
  <1>6. CASE ~\E i \in DOMAIN outbox : outbox[i].seq = a
    <2>1. outbox' = outbox
      BY <1>0, <1>6 DEF AckUsage
    <2>2. TypeOK' /\ OutboxInv'
      BY <1>0, <1>1, <2>1 DEF DeliveryInv, TypeOK, OutboxInv, Forgotten
    <2>3. QED  BY <1>2, <1>4, <2>2 DEF DeliveryInv
  <1>7. QED  BY <1>5, <1>6

(* The end of a stream: all that changes is where its batches are.         *)
LEMMA EndSessionStep ==
    ASSUME DeliveryInv, EndSession, ready' \in BOOLEAN, faults' \in 0 .. MaxFaults,
           UNCHANGED <<agent, controller, clock>>
    PROVE  DeliveryInv'
  <1>0. /\ UNCHANGED <<outbox, collected, recorded, rollup, clock>>
        /\ connected' = FALSE /\ uplink' = <<>> /\ downlink' = <<>>
        /\ late' = late \cup ToSet(uplink)
    BY DEF agent, controller, EndSession
  <1>1. \A b \in ToSet(uplink) : b \in Batch /\ b.seq <= collected
    <2>1. DOMAIN uplink = 1 .. Len(uplink)
      BY DEF DeliveryInv, TypeOK
    <2>2. QED  BY <2>1, StateFacts DEF ToSet, DeliveryInv, UplinkInv
  <1>2. uplink' \in Seq(Batch) /\ downlink' \in Seq(1 .. MaxSeq) /\ Len(uplink') = 0 /\ Len(downlink') = 0
    BY <1>0, EmptySeq
  <1>3. TypeOK'
    BY <1>0, <1>1, <1>2 DEF DeliveryInv, TypeOK
  <1>4. OutboxInv' /\ LateInv'
    BY <1>0, <1>1 DEF DeliveryInv, OutboxInv, LateInv, Forgotten
  <1>5. UplinkInv' /\ DownlinkInv'
    BY <1>2 DEF UplinkInv, DownlinkInv
  <1>6. QED  BY <1>3, <1>4, <1>5 DEF DeliveryInv

(* The transaction, whichever stream the batch came from.                  *)
LEMMA RecordFacts ==
    ASSUME DeliveryInv, NEW batch \in Batch, batch.seq <= collected, RecordUsageBatch(batch),
           UNCHANGED agent
    PROVE  /\ OutboxInv'
           /\ recorded' = recorded \cup {batch.seq}
           /\ recorded' \subseteq 1 .. MaxSeq
           /\ rollup' \in Nat
  <1>1. batch.seq \in 1 .. collected /\ batch.seq \in 1 .. MaxSeq
    BY StateFacts
  <1>2. recorded' = recorded \cup {batch.seq} /\ UNCHANGED <<outbox, collected>>
    BY DEF RecordUsageBatch, agent
  <1>3. rollup' \in Nat
    BY DEF RecordUsageBatch, DeliveryInv, TypeOK
  <1>4. QED
    BY <1>1, <1>2, <1>3 DEF DeliveryInv, TypeOK, OutboxInv, Forgotten

LEMMA HandleUsageBatchStep ==
    ASSUME DeliveryInv, HandleUsageBatch
    PROVE  DeliveryInv'
  <1> DEFINE batch == Head(uplink)
  <1>0. /\ UNCHANGED <<outbox, collected, ready, connected, late, clock, faults>>
        /\ uplink # <<>> /\ uplink' = Tail(uplink)
        /\ RecordUsageBatch(batch)
        /\ downlink' = Append(downlink, batch.seq)
    BY DEF HandleUsageBatch, RecordThenAck, agent
  <1>1. /\ batch = uplink[1]
        /\ 1 \in 1 .. Len(uplink)
        /\ uplink' \in Seq(Batch)
        /\ Len(uplink') = Len(uplink) - 1
        /\ \A i \in 1 .. Len(uplink') : uplink'[i] = uplink[i + 1]
    <2>1. uplink \in Seq(Batch)
      BY DEF DeliveryInv, TypeOK
    <2>2. Len(uplink) \in Nat \ {0}
      BY <1>0, <2>1, EmptySeq
    <2>3. QED  BY <1>0, <2>1, <2>2, HeadTailProperties
  <1>2. batch \in Batch /\ batch.seq \in 1 .. MaxSeq /\ batch.seq <= collected
    BY <1>1, StateFacts DEF DeliveryInv, UplinkInv
  <1>3. /\ OutboxInv'
        /\ recorded' = recorded \cup {batch.seq}
        /\ recorded' \subseteq 1 .. MaxSeq
        /\ rollup' \in Nat
    BY <1>0, <1>2, RecordFacts DEF agent
  <1>4. /\ downlink' \in Seq(1 .. MaxSeq)
        /\ Len(downlink') = Len(downlink) + 1
        /\ \A i \in 1 .. Len(downlink) : downlink'[i] = downlink[i]
        /\ downlink'[Len(downlink) + 1] = batch.seq
    BY <1>0, <1>2, AppendProperties DEF DeliveryInv, TypeOK
  <1>5. TypeOK'
    BY <1>0, <1>1, <1>3, <1>4 DEF DeliveryInv, TypeOK
  <1>6. LateInv'
    BY <1>0 DEF DeliveryInv, LateInv
  <1>7. UplinkInv'
    <2> SUFFICES ASSUME NEW i \in 1 .. Len(uplink')
                 PROVE  /\ uplink'[i].seq <= collected
                        /\ \A s \in 1 .. uplink'[i].seq :
                              s \in recorded' \/ \E j \in 1 .. i : uplink'[j].seq = s
      BY <1>0 DEF UplinkInv
    <2>1. i + 1 \in 1 .. Len(uplink) /\ uplink'[i] = uplink[i + 1]
      BY <1>1, StateFacts
    <2>2. uplink'[i].seq <= collected
      BY <2>1 DEF DeliveryInv, UplinkInv
    <2>3. ASSUME NEW s \in 1 .. uplink'[i].seq, s \notin recorded'
          PROVE  \E j \in 1 .. i : uplink'[j].seq = s
      <3>1. PICK j \in 1 .. (i + 1) : uplink[j].seq = s
        BY <1>3, <2>1, <2>3 DEF DeliveryInv, UplinkInv
      <3>2. j # 1
        BY <1>1, <1>3, <2>3, <3>1
      <3>3. j - 1 \in 1 .. i /\ j - 1 \in 1 .. Len(uplink') /\ (j - 1) + 1 = j
        BY <1>1, <3>2, StateFacts
      <3>4. uplink'[j - 1].seq = s
        BY <1>1, <3>1, <3>3
      <3>5. QED  BY <3>3, <3>4
    <2>4. QED  BY <2>2, <2>3
  <1>8. DownlinkInv'
    <2>1. 1 .. batch.seq \subseteq recorded'
      <3> SUFFICES ASSUME NEW s \in 1 .. batch.seq, s \notin recorded
                   PROVE  s = batch.seq
        BY <1>3
      <3>1. PICK j \in 1 .. 1 : uplink[j].seq = s
        BY <1>1 DEF DeliveryInv, UplinkInv
      <3>2. QED  BY <1>1, <3>1
    <2> SUFFICES ASSUME NEW i \in 1 .. Len(downlink')
                 PROVE  1 .. downlink'[i] \subseteq recorded'
      BY DEF DownlinkInv
    <2>2. CASE i \in 1 .. Len(downlink)
      BY <1>3, <1>4, <2>2 DEF DeliveryInv, DownlinkInv
    <2>3. CASE i = Len(downlink) + 1
      BY <1>4, <2>1, <2>3
    <2>4. QED  BY <1>4, <2>2, <2>3, StateFacts
  <1>9. QED  BY <1>3, <1>5, <1>6, <1>7, <1>8 DEF DeliveryInv

LEMMA HandleLateStep ==
    ASSUME DeliveryInv, NEW batch, HandleLate(batch)
    PROVE  DeliveryInv'
  <1>0. /\ UNCHANGED <<outbox, collected, ready, connected, uplink, downlink, late, clock, faults>>
        /\ batch \in late
        /\ RecordUsageBatch(batch)
    BY DEF HandleLate, agent, session
  <1>1. batch \in Batch /\ batch.seq <= collected
    BY <1>0 DEF DeliveryInv, TypeOK, LateInv
  <1>2. /\ OutboxInv'
        /\ recorded' = recorded \cup {batch.seq}
        /\ recorded' \subseteq 1 .. MaxSeq
        /\ rollup' \in Nat
    BY <1>0, <1>1, RecordFacts DEF agent
  <1>3. TypeOK'
    BY <1>0, <1>2 DEF DeliveryInv, TypeOK
  <1>4. UplinkInv' /\ LateInv' /\ DownlinkInv'
    BY <1>0, <1>2 DEF DeliveryInv, UplinkInv, LateInv, DownlinkInv
  <1>5. QED  BY <1>2, <1>3, <1>4 DEF DeliveryInv

(* A step that changes neither side's records nor the streams.             *)
LEMMA QuietStep ==
    ASSUME DeliveryInv, UNCHANGED <<agent, session, controller>>,
           ready' \in BOOLEAN, clock' \in 0 .. MaxClock, faults' \in 0 .. MaxFaults
    PROVE  DeliveryInv'
  <1>1. UNCHANGED <<outbox, collected, connected, uplink, downlink, late, recorded, rollup>>
    BY DEF agent, session, controller
  <1>2. TypeOK'
    BY <1>1 DEF DeliveryInv, TypeOK
  <1>3. OutboxInv' /\ UplinkInv' /\ LateInv' /\ DownlinkInv'
    BY <1>1 DEF DeliveryInv, OutboxInv, Forgotten, UplinkInv, LateInv, DownlinkInv
  <1>4. QED  BY <1>2, <1>3 DEF DeliveryInv

-----------------------------------------------------------------------------
(* The theorems.                                                           *)

LEMMA DeliveryInit == Init => DeliveryInv
  <1> SUFFICES ASSUME Init PROVE DeliveryInv
    OBVIOUS
  <1>1. /\ outbox = <<>> /\ uplink = <<>> /\ downlink = <<>> /\ late = {} /\ recorded = {}
        /\ collected = 0 /\ rollup = 0 /\ clock = 0 /\ faults = 0
        /\ ready \in BOOLEAN /\ connected \in BOOLEAN
    BY DEF Init
  <1>2. /\ <<>> \in Seq(Batch) /\ <<>> \in Seq(1 .. MaxSeq)
        /\ Len(outbox) = 0 /\ Len(uplink) = 0 /\ Len(downlink) = 0
    BY <1>1, EmptySeq
  <1>3. TypeOK
    BY <1>1, <1>2, DeliveryAssumption DEF TypeOK
  <1>4. OutboxInv /\ UplinkInv /\ LateInv /\ DownlinkInv
    BY <1>1, <1>2 DEF OutboxInv, Forgotten, UplinkInv, LateInv, DownlinkInv
  <1>5. QED  BY <1>3, <1>4 DEF DeliveryInv

LEMMA DeliveryStep ==
    ASSUME DeliveryInv, [Next]_vars
    PROVE  DeliveryInv'
  <1>0. /\ ready \in BOOLEAN /\ connected \in BOOLEAN
        /\ clock \in 0 .. MaxClock /\ faults \in 0 .. MaxFaults
    BY DEF DeliveryInv, TypeOK
  <1>1. Fault => faults' \in 0 .. MaxFaults
    BY <1>0, DeliveryAssumption DEF Fault
  <1>2. UNCHANGED vars => DeliveryInv'
    BY <1>0, QuietStep DEF vars, agent, session, controller
  <1>3. CASE CollectUsage
    <2>1. CASE OutboxFull /\ UNCHANGED vars
      BY <1>2, <2>1
    <2>2. CASE /\ Enqueue \/ UNCHANGED agent
               /\ ready' = (ready \/ outbox' # <<>>)
               /\ UNCHANGED <<session, controller, clock, faults>>
      <3>1. ready' \in BOOLEAN
        BY <2>2
      <3>2. UNCHANGED session /\ UNCHANGED controller /\ UNCHANGED clock /\ UNCHANGED faults
        BY <2>2
      <3>3. QED  BY <1>0, <2>2, <3>1, <3>2, EnqueueStep, QuietStep
    <2>3. QED  BY <1>3, <2>1, <2>2 DEF CollectUsage
  <1>4. CASE CollectBeforeReplacement
    BY <1>0, <1>4, EnqueueStep DEF CollectBeforeReplacement
  <1>5. CASE Connect
    BY <1>0, <1>5, SendStep DEF Connect
  <1>6. CASE UsageReady
    BY <1>0, <1>6, SendStep DEF UsageReady
  <1>7. CASE HandleUsageFails \/ Disconnect \/ Crash
    BY <1>0, <1>1, <1>7, EndSessionStep DEF HandleUsageFails, Disconnect, Crash
  <1>8. CASE RefuseUsageBatch
    BY <1>0, <1>8, EndSessionStep DEF RefuseUsageBatch
  <1>9. CASE LongOutage
    <2>1. clock' \in 0 .. MaxClock
      BY <1>0, <1>9, DeliveryAssumption DEF LongOutage
    <2>2. QED  BY <1>0, <1>9, <2>1, QuietStep DEF LongOutage
  <1>10. QED
    BY <1>2, <1>3, <1>4, <1>5, <1>6, <1>7, <1>8, <1>9, ReceiveAckStep, HandleUsageBatchStep,
       HandleLateStep DEF Next

LEMMA DeliveryInductive == Spec => []DeliveryInv
  BY DeliveryInit, DeliveryStep, PTL DEF Spec

(* Outbox, streams and the Controller's tables keep their types; the       *)
(* outbox never outgrows MaxUsageOutbox, also when ACKs are lost.          *)
THEOREM TypeCorrect == Spec => []TypeOK
  BY DeliveryInductive, PTL DEF DeliveryInv

(* AckUsage may forget everything up to the acknowledged batch: whatever   *)
(* ACK is under way, all batches up to it have been recorded by            *)
(* RecordUsageBatch.                                                       *)
THEOREM AckCoversPrefixHolds == Spec => []AckCoversPrefix
  <1>1. DeliveryInv => AckCoversPrefix
    <2> SUFFICES ASSUME DeliveryInv, NEW a \in ToSet(downlink), NEW b \in ToSet(outbox),
                        b.seq <= a
                 PROVE  b.seq \in recorded
      BY DEF AckCoversPrefix
    <2>1. DOMAIN downlink = 1 .. Len(downlink) /\ DOMAIN outbox = 1 .. Len(outbox)
      BY DEF DeliveryInv, TypeOK
    <2>2. PICK i \in 1 .. Len(downlink) : a = downlink[i]
      BY <2>1 DEF ToSet
    <2>3. b.seq \in 1 .. MaxSeq
      BY <2>1, StateFacts DEF ToSet
    <2>4. b.seq \in 1 .. downlink[i]
      BY <2>2, <2>3, StateFacts
    <2>5. QED  BY <2>4 DEF DeliveryInv, DownlinkInv
  <1>2. QED  BY <1>1, DeliveryInductive, PTL

(* Delivery implements the ledger: a batch becomes due when it is          *)
(* collected and is added to the bill exactly once, whatever the streams,  *)
(* the handlers and the restarts do.                                       *)
THEOREM LedgerImplemented == Spec => ImplementsLedger
  <1> DEFINE Due == (1 .. collected) \ recorded
  <1>0. DeliveryInv => Undelivered = Due
    BY UndeliveredIs
  <1>1. Init => L!Init
    <2> SUFFICES ASSUME Init PROVE Undelivered = {} /\ rollup = 0
      BY DEF L!Init
    <2>1. Undelivered = Due
      BY <1>0, DeliveryInit
    <2>2. collected = 0 /\ rollup = 0
      BY DEF Init
    <2>3. QED  BY <2>1, <2>2
  <1>2. DeliveryInv /\ Undelivered = Due /\ (Undelivered = Due)' /\ [Next]_vars
           => [L!Next]_(L!vars)
    <2> SUFFICES ASSUME DeliveryInv, Undelivered = Due, (Undelivered = Due)', [Next]_vars
                 PROVE  L!Next \/ UNCHANGED <<Undelivered, rollup>>
      BY DEF L!vars
    <2>1. Undelivered = (1 .. collected) \ recorded
      OBVIOUS
    <2>2. Undelivered' = (1 .. collected') \ recorded'
      OBVIOUS
    <2>3. ASSUME collected' = collected, UNCHANGED controller
          PROVE  UNCHANGED <<Undelivered, rollup>>
      BY <2>1, <2>2, <2>3 DEF controller
    <2>4. ASSUME Enqueue, UNCHANGED controller
          PROVE  L!Emit
      <3>1. /\ collected \in Nat /\ collected < MaxSeq /\ collected' = collected + 1
            /\ recorded \subseteq 1 .. collected
            /\ UNCHANGED <<recorded, rollup>>
        BY <2>4, StateFacts DEF Enqueue, controller, DeliveryInv, OutboxInv
      <3>2. collected + 1 \in (1 .. MaxSeq) \ Undelivered
        BY <2>1, <3>1, DeliveryAssumption
      <3>3. Undelivered' = Undelivered \cup {collected + 1}
        BY <2>1, <2>2, <3>1
      <3>4. QED  BY <3>1, <3>2, <3>3 DEF L!Emit
    <2>5. ASSUME NEW batch \in Batch, batch.seq <= collected, collected' = collected,
                 RecordUsageBatch(batch)
          PROVE  L!Bill \/ UNCHANGED <<Undelivered, rollup>>
      <3>1. /\ batch.seq \in 1 .. collected
            /\ recorded' = recorded \cup {batch.seq}
            /\ rollup' = IF batch.seq \in recorded THEN rollup ELSE rollup + 1
        BY <2>5, StateFacts DEF RecordUsageBatch
      <3>2. CASE batch.seq \in recorded
        BY <2>1, <2>2, <2>5, <3>1, <3>2
      <3>3. CASE batch.seq \notin recorded
        <4>1. batch.seq \in Undelivered
          BY <2>1, <3>1, <3>3
        <4>2. Undelivered' = Undelivered \ {batch.seq}
          BY <2>1, <2>2, <2>5, <3>1
        <4>3. QED  BY <3>1, <3>3, <4>1, <4>2 DEF L!Bill
      <3>4. QED  BY <3>2, <3>3
    <2>6. CASE CollectUsage
      BY <2>3, <2>4, <2>6 DEF CollectUsage, agent, vars, controller, L!Next
    <2>7. CASE CollectBeforeReplacement
      BY <2>4, <2>7 DEF CollectBeforeReplacement, L!Next
    <2>8. CASE HandleUsageBatch
      <3>1. Head(uplink) \in Batch /\ Head(uplink).seq <= collected
        <4>1. uplink \in Seq(Batch) /\ uplink # <<>>
          BY <2>8 DEF HandleUsageBatch, DeliveryInv, TypeOK
        <4>2. Head(uplink) = uplink[1] /\ 1 \in 1 .. Len(uplink)
          BY <4>1, EmptySeq
        <4>3. QED  BY <4>2, StateFacts DEF DeliveryInv, UplinkInv
      <3>2. QED  BY <2>5, <2>8, <3>1 DEF HandleUsageBatch, RecordThenAck, agent, L!Next
    <2>9. ASSUME NEW batch \in late, HandleLate(batch)
          PROVE  L!Next \/ UNCHANGED <<Undelivered, rollup>>
      <3>1. batch \in Batch /\ batch.seq <= collected
        BY DEF DeliveryInv, TypeOK, LateInv
      <3>2. QED  BY <2>5, <2>9, <3>1 DEF HandleLate, agent, L!Next
    <2>10. CASE Connect \/ UsageReady \/ ReceiveAck
      BY <2>3, <2>10 DEF Connect, UsageReady, ReceiveAck, agent
    <2>11. CASE HandleUsageFails \/ RefuseUsageBatch \/ Disconnect \/ Crash \/ LongOutage
      BY <2>3, <2>11 DEF HandleUsageFails, RefuseUsageBatch, Disconnect, Crash, LongOutage, agent
    <2>12. CASE UNCHANGED vars
      BY <2>3, <2>12 DEF vars, controller
    <2>13. QED
      BY <2>6, <2>7, <2>8, <2>9, <2>10, <2>11, <2>12 DEF Next
  <1>3. QED  BY <1>0, <1>1, <1>2, DeliveryInductive, PTL DEF Spec, ImplementsLedger, L!Spec

=============================================================================
