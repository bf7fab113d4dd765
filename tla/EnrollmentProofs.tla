-------------------------- MODULE EnrollmentProofs --------------------------
(***************************************************************************)
(* What the steps of Enrollment preserve, for any number of hosts, tokens  *)
(* and keys.  NodeCommandsProofs combines these facts with the steps of a  *)
(* running Agent to theorems about the whole specification.                *)
(***************************************************************************)
EXTENDS Enrollment, TLAPS

-----------------------------------------------------------------------------
(* The inductive invariant.                                                *)

(* The host that generated key k can still present it, or was wiped.       *)
Held(k) == k \in wiped \/ k \in {pending[Owner(k)], identity[Owner(k)]}

PendingInv == \A h \in Hosts : pending[h] # NoKey => Owner(pending[h]) = h

(* A host enrolls with the key of its pending file, and without an         *)
(* identity.  It may lose the file meanwhile, and nothing else.            *)
AttemptInv ==
    \A h \in Hosts :
        /\ attempt[h] # Idle =>
              /\ identity[h] = NoKey
              /\ Owner(attempt[h].key) = h
              /\ \/ pending[h] = attempt[h].key
                 \/ pending[h] = NoKey /\ attempt[h].key \in wiped
        /\ reply[h] # "none" => attempt[h] # Idle

(* Also a key that is not registered yet is held as long as a request with *)
(* it is under way.                                                        *)
HeldInv ==
    /\ \A k \in Key : keys[k] # "none" => Held(k)
    /\ \A r \in requests : Held(r.key)

EnrollmentInv ==
    EnrollmentTypeOK /\ AtMostOneKey /\ PendingInv /\ AttemptInv /\ HeldInv

-----------------------------------------------------------------------------
(* Facts about keys.                                                       *)

LEMMA KeyFacts ==
    /\ NoKey \notin Key
    /\ \A k \in Key : Owner(k) \in Hosts /\ k # NoKey
    /\ \A h \in Hosts, n \in 1 .. MaxKeys : <<h, n>> \in Key /\ Owner(<<h, n>>) = h
  <1>1. \A k \in Key : Owner(k) \in Hosts
    BY DEF Key, Owner
  <1>2. \A h \in Hosts, n \in 1 .. MaxKeys : <<h, n>> \in Key /\ Owner(<<h, n>>) = h
    BY DEF Key, Owner
  <1>3. \A h, n : <<h, n>> # NoKey
    BY DEF NoKey
  <1>4. NoKey \notin Key
    BY <1>3 DEF Key
  <1>5. QED  BY <1>1, <1>2, <1>4

LEMMA IdleFacts ==
    \A r \in [token : Tokens, key : Key] : r # Idle /\ r.key \in Key /\ r.token \in Tokens
  BY KeyFacts DEF Idle

-----------------------------------------------------------------------------
(* The Controller.                                                         *)

NodeRow == [exists : BOOLEAN, revoked : BOOLEAN, seen : BOOLEAN, assigned : BOOLEAN]
TokenRow == [state : {"none", "unused", "used", "deleted"}, fresh : BOOLEAN,
             key : Key \cup {NoKey}]

(* A step that touches only the rows of the node and of its tokens.        *)
LEMMA RowStep ==
    ASSUME EnrollmentInv, node' \in NodeRow, tokens' \in [Tokens -> TokenRow],
           UNCHANGED <<keys, pending, identity, made, wiped, attempt, requests, reply, installs>>
    PROVE  EnrollmentInv'
  <1>1. EnrollmentTypeOK'
    BY DEF EnrollmentInv, EnrollmentTypeOK, NodeRow, TokenRow
  <1>2. AtMostOneKey' /\ PendingInv' /\ AttemptInv' /\ HeldInv'
    BY DEF EnrollmentInv, AtMostOneKey, PendingInv, AttemptInv, HeldInv, Held
  <1>3. QED  BY <1>1, <1>2 DEF EnrollmentInv

LEMMA RowTypes ==
    ASSUME EnrollmentInv
    PROVE  /\ node \in NodeRow /\ NoNode \in NodeRow /\ tokens \in [Tokens -> TokenRow]
           /\ [node EXCEPT !.exists = TRUE] \in NodeRow
           /\ [node EXCEPT !.seen = TRUE] \in NodeRow
           /\ [node EXCEPT !.assigned = TRUE] \in NodeRow
           /\ [node EXCEPT !.revoked = TRUE] \in NodeRow
  BY DEF EnrollmentInv, EnrollmentTypeOK, NodeRow, TokenRow, NoNode

(* A token in another state.                                               *)
LEMMA TokenTypes ==
    ASSUME EnrollmentInv, NEW t \in Tokens
    PROVE  /\ [tokens[t] EXCEPT !.state = "deleted"] \in TokenRow
           /\ [tokens EXCEPT ![t].state = "unused"] \in [Tokens -> TokenRow]
           /\ [tokens EXCEPT ![t].fresh = FALSE] \in [Tokens -> TokenRow]
           /\ \A k \in Key :
                 [tokens EXCEPT ![t].state = "used", ![t].key = k] \in [Tokens -> TokenRow]
  BY RowTypes DEF TokenRow

LEMMA InstallCommandStep ==
    ASSUME EnrollmentInv, NEW t \in Tokens, handleNodeInstallCommand(t)
    PROVE  EnrollmentInv'
  BY RowStep, RowTypes, TokenTypes
     DEF handleNodeInstallCommand, CreateEnrollmentToken, ensurePendingNodeTx

LEMMA TokenExpiresStep ==
    ASSUME EnrollmentInv, NEW t \in Tokens, TokenExpires(t)
    PROVE  EnrollmentInv'
  BY RowStep, RowTypes, TokenTypes DEF TokenExpires

LEMMA DeletePendingNodeStep ==
    ASSUME EnrollmentInv, DeletePendingNode
    PROVE  EnrollmentInv'
  <1>1. tokens' \in [Tokens -> TokenRow]
    BY RowTypes, TokenTypes DEF DeletePendingNode
  <1>2. QED  BY <1>1, RowStep, RowTypes DEF DeletePendingNode

(* The keys are registered once and revoked once; the answer is for a host *)
(* that waits for it.                                                      *)
LEMMA processRequestStep ==
    ASSUME EnrollmentInv, NEW r \in requests, processRequest(r)
    PROVE  EnrollmentInv'
  <1>0. /\ requests' = requests \ {r} /\ CompleteEnrollment(r)
        /\ UNCHANGED <<node, pending, identity, made, wiped, attempt, installs>>
    BY DEF processRequest
  <1>1. r \in [token : Tokens, key : Key] /\ r # Idle /\ r.key \in Key /\ r.token \in Tokens
    BY IdleFacts DEF EnrollmentInv, EnrollmentTypeOK
  <1>2. keys \in [Key -> {"none", "valid", "revoked"}] /\ reply \in [Hosts -> {"none", "accepted", "rejected"}]
    BY DEF EnrollmentInv, EnrollmentTypeOK
  <1>3. /\ keys' \in [Key -> {"none", "valid", "revoked"}]
        /\ \A k \in Key : keys'[k] # "none" => keys[k] # "none" \/ k = r.key
        /\ AtMostOneKey'
    <2>1. CASE Consumes(r)
      <3>1. keys' = [keys EXCEPT ![r.key] = "valid"] /\ ~ Enrolled
        BY <1>0, <2>1 DEF CompleteEnrollment, Consumes
      <3>2. QED  BY <1>1, <1>2, <3>1 DEF AtMostOneKey, Enrolled
    <2>2. CASE ~ Consumes(r)
      <3>1. keys' = keys
        BY <1>0, <2>2 DEF CompleteEnrollment
      <3>2. QED  BY <1>2, <3>1 DEF EnrollmentInv, AtMostOneKey
    <2>3. QED  BY <2>1, <2>2
  <1>4. tokens' \in [Tokens -> TokenRow]
    <2>1. CASE Consumes(r)
      <3>1. tokens' = [tokens EXCEPT ![r.token].state = "used", ![r.token].key = r.key]
        BY <1>0, <2>1 DEF CompleteEnrollment
      <3>2. QED  BY <1>1, <3>1, RowTypes DEF TokenRow
    <2>2. CASE ~ Consumes(r)
      BY <1>0, <2>2, RowTypes DEF CompleteEnrollment
    <2>3. QED  BY <2>1, <2>2
  <1>5. /\ reply' \in [Hosts -> {"none", "accepted", "rejected"}]
        /\ \A h \in Hosts : reply'[h] # "none" => reply[h] # "none" \/ attempt[h] = r
    <2>1. Owner(r.key) \in Hosts
      BY <1>1, KeyFacts
    <2>2. CASE attempt[Owner(r.key)] = r
      <3>1. PICK a \in {"accepted", "rejected"} : reply' = [reply EXCEPT ![Owner(r.key)] = a]
        BY <2>2 DEF processRequest
      <3>2. QED  BY <1>2, <2>1, <2>2, <3>1
    <2>3. CASE attempt[Owner(r.key)] # r
      BY <1>2, <2>3 DEF processRequest
    <2>4. QED  BY <2>2, <2>3
  <1>6. EnrollmentTypeOK'
    BY <1>0, <1>3, <1>4, <1>5 DEF EnrollmentInv, EnrollmentTypeOK, TokenRow
  <1>7. PendingInv' /\ AttemptInv'
    BY <1>0, <1>1, <1>5 DEF EnrollmentInv, PendingInv, AttemptInv
  <1>8. HeldInv'
    BY <1>0, <1>1, <1>3 DEF EnrollmentInv, HeldInv, Held
  <1>9. QED  BY <1>3, <1>6, <1>7, <1>8 DEF EnrollmentInv

LEMMA RevokeStep ==
    ASSUME EnrollmentInv, RevokeNodeTx,
           UNCHANGED <<pending, identity, made, wiped, attempt, requests, reply, installs>>
    PROVE  EnrollmentInv'
  <1>1. node' \in NodeRow
    BY RowTypes DEF RevokeNodeTx
  <1>2. tokens' \in [Tokens -> TokenRow]
    BY RowTypes, TokenTypes DEF RevokeNodeTx
  <1>3. /\ keys' \in [Key -> {"none", "valid", "revoked"}]
        /\ \A k \in Key : keys'[k] # "valid" /\ (keys'[k] # "none" => keys[k] # "none")
    BY DEF RevokeNodeTx, EnrollmentInv, EnrollmentTypeOK
  <1>4. EnrollmentTypeOK'
    BY <1>1, <1>2, <1>3 DEF EnrollmentInv, EnrollmentTypeOK, NodeRow, TokenRow
  <1>5. AtMostOneKey' /\ PendingInv' /\ AttemptInv' /\ HeldInv'
    BY <1>3 DEF EnrollmentInv, AtMostOneKey, PendingInv, AttemptInv, HeldInv, Held
  <1>6. QED  BY <1>4, <1>5 DEF EnrollmentInv

-----------------------------------------------------------------------------
(* The hosts.                                                              *)

LEMMA runInstallStep ==
    ASSUME EnrollmentInv, NEW h \in Hosts, NEW t \in Tokens, runInstall(h, t)
    PROVE  EnrollmentInv'
  <1> DEFINE k == pending'[h]
             r == [token |-> t, key |-> k]
  <1>0. /\ identity[h] = NoKey /\ attempt[h] = Idle /\ installs > 0 /\ installs' = installs - 1
        /\ loadOrCreatePending(h)
        /\ attempt' = [attempt EXCEPT ![h] = r]
        /\ requests' = requests \cup {r}
        /\ UNCHANGED <<node, tokens, keys, identity, wiped, reply>>
    BY DEF runInstall, Enroll, loadOrCreatePending
  <1>1. /\ pending \in [Hosts -> Key \cup {NoKey}] /\ made \in [Hosts -> 0 .. MaxKeys]
        /\ MaxKeys \in Nat
    BY EnrollmentAssumption DEF EnrollmentInv, EnrollmentTypeOK
  <1>2. /\ pending' \in [Hosts -> Key \cup {NoKey}] /\ made' \in [Hosts -> 0 .. MaxKeys]
        /\ k \in Key /\ Owner(k) = h
        /\ \A g \in Hosts : pending'[g] = pending[g] \/ (g = h /\ pending[g] = NoKey)
    <2>1. CASE pending[h] # NoKey
      <3>1. pending' = pending /\ made' = made
        BY <1>0, <2>1 DEF loadOrCreatePending
      <3>2. Owner(pending[h]) = h
        BY <2>1 DEF EnrollmentInv, PendingInv
      <3>3. QED  BY <1>1, <2>1, <3>1, <3>2
    <2>2. CASE pending[h] = NoKey
      <3>1. /\ made[h] < MaxKeys /\ made' = [made EXCEPT ![h] = @ + 1]
            /\ pending' = [pending EXCEPT ![h] = <<h, made[h] + 1>>]
        BY <1>0, <2>2 DEF loadOrCreatePending
      <3>2. made[h] + 1 \in 1 .. MaxKeys
        BY <1>1, <3>1
      <3>3. <<h, made[h] + 1>> \in Key /\ Owner(<<h, made[h] + 1>>) = h
        BY <3>2, KeyFacts
      <3>4. made' \in [Hosts -> 0 .. MaxKeys]
        BY <1>1, <3>1, <3>2
      <3>5. QED  BY <1>1, <2>2, <3>1, <3>3, <3>4
    <2>3. QED  BY <2>1, <2>2
  <1>3. r \in [token : Tokens, key : Key] /\ r # Idle /\ r.key = k
    BY <1>2, IdleFacts
  <1> HIDE DEF r, k
  <1>4. EnrollmentTypeOK'
    <2>1. /\ attempt' \in [Hosts -> [token : Tokens, key : Key] \cup {Idle}]
          /\ requests' \subseteq [token : Tokens, key : Key]
          /\ installs' \in Nat
      BY <1>0, <1>3 DEF EnrollmentInv, EnrollmentTypeOK
    <2>2. QED  BY <1>0, <1>2, <2>1 DEF EnrollmentInv, EnrollmentTypeOK
  <1>5. AtMostOneKey'
    BY <1>0 DEF EnrollmentInv, AtMostOneKey
  <1>6. PendingInv'
    BY <1>2 DEF EnrollmentInv, PendingInv, k
  <1>7. AttemptInv'
    <2> SUFFICES ASSUME NEW g \in Hosts
                 PROVE  /\ attempt'[g] # Idle =>
                             /\ identity'[g] = NoKey
                             /\ Owner(attempt'[g].key) = g
                             /\ \/ pending'[g] = attempt'[g].key
                                \/ pending'[g] = NoKey /\ attempt'[g].key \in wiped'
                        /\ reply'[g] # "none" => attempt'[g] # Idle
      BY DEF AttemptInv
    <2>1. attempt \in [Hosts -> [token : Tokens, key : Key] \cup {Idle}]
      BY DEF EnrollmentInv, EnrollmentTypeOK
    <2>2. CASE g = h
      BY <1>0, <1>2, <1>3, <2>1, <2>2 DEF k
    <2>3. CASE g # h
      BY <1>0, <1>2, <2>1, <2>3 DEF EnrollmentInv, AttemptInv
    <2>4. QED  BY <2>2, <2>3
  <1>8. HeldInv'
    <2>1. \A l \in Key : Held(l) => Held(l)'
      BY <1>0, <1>2, KeyFacts DEF Held
    <2>2. r.key \in {pending'[Owner(r.key)], identity'[Owner(r.key)]}
      BY <1>0, <1>2, <1>3 DEF k
    <2>3. \A q \in requests : q.key \in Key
      BY IdleFacts DEF EnrollmentInv, EnrollmentTypeOK
    <2>4. \A q \in requests' : Held(q.key)'
      <3>1. \A q \in requests : Held(q.key)'
        BY <2>1, <2>3 DEF EnrollmentInv, HeldInv
      <3>2. QED  BY <1>0, <2>2, <3>1 DEF Held
    <2>5. QED  BY <1>0, <2>1, <2>4 DEF EnrollmentInv, HeldInv
  <1>9. QED  BY <1>4, <1>5, <1>6, <1>7, <1>8 DEF EnrollmentInv

LEMMA GiveUpStep ==
    ASSUME EnrollmentInv, NEW h \in Hosts, GiveUp(h)
    PROVE  EnrollmentInv'
  <1>0. /\ attempt' = [attempt EXCEPT ![h] = Idle]
        /\ reply' = [reply EXCEPT ![h] = "none"]
        /\ requests' \subseteq requests
        /\ UNCHANGED <<node, tokens, keys, pending, identity, made, wiped, installs>>
    BY DEF GiveUp
  <1>1. EnrollmentTypeOK'
    BY <1>0 DEF EnrollmentInv, EnrollmentTypeOK
  <1>2. AtMostOneKey' /\ PendingInv' /\ HeldInv'
    BY <1>0 DEF EnrollmentInv, AtMostOneKey, PendingInv, HeldInv, Held
  <1>3. AttemptInv'
    BY <1>0 DEF EnrollmentInv, EnrollmentTypeOK, AttemptInv
  <1>4. QED  BY <1>1, <1>2, <1>3 DEF EnrollmentInv

LEMMA FinishEnrollStep ==
    ASSUME EnrollmentInv, NEW h \in Hosts, FinishEnroll(h)
    PROVE  EnrollmentInv'
  <1>0. /\ reply[h] # "none"
        /\ attempt' = [attempt EXCEPT ![h] = Idle]
        /\ reply' = [reply EXCEPT ![h] = "none"]
        /\ UNCHANGED <<node, tokens, keys, made, wiped, requests, installs>>
    BY DEF FinishEnroll
  <1>1. /\ pending \in [Hosts -> Key \cup {NoKey}] /\ identity \in [Hosts -> Key \cup {NoKey}]
        /\ attempt \in [Hosts -> [token : Tokens, key : Key] \cup {Idle}]
        /\ reply \in [Hosts -> {"none", "accepted", "rejected"}]
    BY DEF EnrollmentInv, EnrollmentTypeOK
  <1>2. /\ attempt[h].key \in Key /\ Owner(attempt[h].key) = h /\ identity[h] = NoKey
        /\ \/ pending[h] = attempt[h].key
           \/ pending[h] = NoKey /\ attempt[h].key \in wiped
    BY <1>0, <1>1, IdleFacts DEF EnrollmentInv, AttemptInv
  <1>3. /\ pending' \in [Hosts -> Key \cup {NoKey}] /\ identity' \in [Hosts -> Key \cup {NoKey}]
        /\ \A g \in Hosts : g # h => pending'[g] = pending[g] /\ identity'[g] = identity[g]
        /\ \A g \in Hosts : pending'[g] \in {NoKey, pending[g]}
        /\ pending[h] \in {pending'[h], identity'[h], NoKey}
    <2>1. CASE reply[h] = "accepted"
      <3>1. PICK left \in {NoKey, pending[h]} :
               /\ pending' = [pending EXCEPT ![h] = left]
               /\ identity' = [identity EXCEPT ![h] = attempt[h].key]
        BY <2>1 DEF FinishEnroll
      <3>2. QED  BY <1>1, <1>2, <3>1
    <2>2. CASE reply[h] # "accepted"
      BY <1>1, <2>2 DEF FinishEnroll
    <2>3. QED  BY <2>1, <2>2
  <1>4. EnrollmentTypeOK'
    BY <1>0, <1>3 DEF EnrollmentInv, EnrollmentTypeOK
  <1>5. AtMostOneKey' /\ PendingInv'
    BY <1>0, <1>3 DEF EnrollmentInv, AtMostOneKey, PendingInv
  <1>6. AttemptInv'
    BY <1>0, <1>1, <1>3 DEF EnrollmentInv, AttemptInv
  <1>7. HeldInv'
    <2>1. \A l \in Key : Held(l) => Held(l)'
      BY <1>0, <1>2, <1>3, KeyFacts DEF Held
    <2>2. \A q \in requests : q.key \in Key
      BY IdleFacts DEF EnrollmentInv, EnrollmentTypeOK
    <2>3. QED  BY <1>0, <2>1, <2>2 DEF EnrollmentInv, HeldInv
  <1>8. QED  BY <1>4, <1>5, <1>6, <1>7 DEF EnrollmentInv

LEMMA LoseFilesStep ==
    ASSUME EnrollmentInv, NEW h \in Hosts, LoseFiles(h),
           UNCHANGED <<node, tokens, keys, made, attempt, requests, reply, installs>>
    PROVE  EnrollmentInv'
  <1>1. /\ pending \in [Hosts -> Key \cup {NoKey}] /\ identity \in [Hosts -> Key \cup {NoKey}]
        /\ attempt \in [Hosts -> [token : Tokens, key : Key] \cup {Idle}]
    BY DEF EnrollmentInv, EnrollmentTypeOK
  <1>2. /\ pending' = [pending EXCEPT ![h] = NoKey] /\ identity' = [identity EXCEPT ![h] = NoKey]
        /\ wiped \subseteq wiped'
        /\ pending[h] \in wiped' \cup {NoKey} /\ identity[h] \in wiped' \cup {NoKey}
    BY DEF LoseFiles
  <1>3. wiped' \subseteq Key
    BY <1>1 DEF EnrollmentInv, EnrollmentTypeOK, LoseFiles
  <1>4. EnrollmentTypeOK'
    BY <1>1, <1>2, <1>3 DEF EnrollmentInv, EnrollmentTypeOK
  <1>5. AtMostOneKey' /\ PendingInv'
    BY <1>1, <1>2 DEF EnrollmentInv, AtMostOneKey, PendingInv
  <1>6. AttemptInv'
    BY <1>1, <1>2, IdleFacts, KeyFacts DEF EnrollmentInv, AttemptInv
  <1>7. HeldInv'
    <2>1. \A l \in Key : Held(l) => Held(l)'
      BY <1>1, <1>2, KeyFacts DEF Held
    <2>2. \A q \in requests : q.key \in Key
      BY IdleFacts DEF EnrollmentInv, EnrollmentTypeOK
    <2>3. QED  BY <2>1, <2>2 DEF EnrollmentInv, HeldInv
  <1>8. QED  BY <1>4, <1>5, <1>6, <1>7 DEF EnrollmentInv

-----------------------------------------------------------------------------
(* All steps.                                                              *)

LEMMA EnrollmentStep ==
    ASSUME EnrollmentInv, EnrollmentNext
    PROVE  EnrollmentInv'
  <1>1. ASSUME NEW t \in Tokens, handleNodeInstallCommand(t) \/ TokenExpires(t)
        PROVE  EnrollmentInv'
    BY <1>1, InstallCommandStep, TokenExpiresStep
  <1>2. ASSUME NEW r \in requests, processRequest(r)
        PROVE  EnrollmentInv'
    BY <1>2, processRequestStep
  <1>3. CASE RevokeNode
    BY <1>3, RevokeStep DEF RevokeNode
  <1>4. CASE DeletePendingNode
    BY <1>4, DeletePendingNodeStep
  <1>5. CASE PublishDesired
    BY <1>5, RowStep, RowTypes DEF PublishDesired
  <1>6. ASSUME NEW h \in Hosts, NEW t \in Tokens, runInstall(h, t)
        PROVE  EnrollmentInv'
    BY <1>6, runInstallStep
  <1>7. ASSUME NEW h \in Hosts, GiveUp(h) \/ FinishEnroll(h) \/ Wipe(h)
        PROVE  EnrollmentInv'
    BY <1>7, GiveUpStep, FinishEnrollStep, LoseFilesStep DEF Wipe
  <1>8. QED
    BY <1>1, <1>2, <1>3, <1>4, <1>5, <1>6, <1>7 DEF EnrollmentNext

LEMMA HelloStep ==
    ASSUME EnrollmentInv, RecordHello
    PROVE  EnrollmentInv'
  BY RowStep, RowTypes DEF RecordHello

(* Keys are never forgotten, and only the deletion of a placeholder, which *)
(* has none, takes a revocation back.                                      *)
LEMMA RevocationStays ==
    ASSUME EnrollmentInv, EnrollmentNext
    PROVE  /\ \A k \in Key : keys[k] # "none" => keys'[k] # "none"
           /\ node.revoked = TRUE /\ node'.revoked # TRUE => ~ node.seen /\ \A k \in Key : keys[k] = "none"
           /\ node.seen = TRUE => node'.seen = TRUE
  <1>0. keys \in [Key -> {"none", "valid", "revoked"}] /\ node \in NodeRow
    BY DEF EnrollmentInv, EnrollmentTypeOK, NodeRow
  <1>1. CASE \E t \in Tokens : handleNodeInstallCommand(t) \/ TokenExpires(t)
    BY <1>0, <1>1 DEF handleNodeInstallCommand, CreateEnrollmentToken, ensurePendingNodeTx,
                      TokenExpires, NodeRow
  <1>2. CASE \E r \in requests : processRequest(r)
    BY <1>0, <1>2 DEF processRequest, CompleteEnrollment
  <1>3. CASE RevokeNode
    BY <1>0, <1>3 DEF RevokeNode, RevokeNodeTx, NodeRow
  <1>4. CASE DeletePendingNode
    BY <1>0, <1>4 DEF DeletePendingNode, Placeholder
  <1>5. CASE PublishDesired
    BY <1>0, <1>5 DEF PublishDesired, NodeRow
  <1>6. CASE \E h \in Hosts, t \in Tokens : runInstall(h, t)
    BY <1>6 DEF runInstall
  <1>7. CASE \E h \in Hosts : GiveUp(h) \/ FinishEnroll(h) \/ Wipe(h)
    BY <1>7 DEF GiveUp, FinishEnroll, Wipe
  <1>8. QED
    BY <1>1, <1>2, <1>3, <1>4, <1>5, <1>6, <1>7 DEF EnrollmentNext

LEMMA FreshInv ==
    ASSUME NEW n \in Nat, InitFresh(n)
    PROVE  EnrollmentInv
  <1>1. EnrollmentTypeOK
    BY EnrollmentAssumption DEF InitFresh, EnrollmentTypeOK, NoNode, NoToken
  <1>2. AtMostOneKey /\ PendingInv /\ AttemptInv /\ HeldInv
    BY DEF InitFresh, AtMostOneKey, PendingInv, AttemptInv, HeldInv
  <1>3. QED  BY <1>1, <1>2 DEF EnrollmentInv
=============================================================================
