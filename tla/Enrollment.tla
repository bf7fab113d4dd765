------------------------------ MODULE Enrollment ------------------------------
(***************************************************************************)
(* How a host becomes the node of one node ID, and how that ends: the      *)
(* installation token (CreateEnrollmentToken of internal/controller/store/ *)
(* store.go), the enrollment exchange (internal/agent/enrollment/client.go *)
(* and internal/controller/enrollment/handler.go), the registered key      *)
(* (CompleteEnrollment, AuthorizeNodeKey, RecordHello) and the removal of  *)
(* the node (RevokeNode and DeletePendingNode of store/nodes.go).          *)
(*                                                                         *)
(* The install command is text that may be run on any host, any number of  *)
(* times, so several hosts compete for the one node ID, a host retries     *)
(* after a lost answer, and a request may be processed after its client    *)
(* has given up.  The Controller's database has one connection, so each    *)
(* transaction is one step.  Noise keys and tokens are values that are     *)
(* never generated twice.                                                  *)
(*                                                                         *)
(* A definition named X_Y is X with a plausible mistake Y; it is not part  *)
(* of the specification.                                                   *)
(***************************************************************************)
EXTENDS Naturals, FiniteSets

CONSTANTS
    Hosts,      \* machines on which an install command may be run
    Tokens,     \* enrollment tokens
    MaxKeys     \* bound on the key pairs a host generates

ASSUME EnrollmentAssumption == MaxKeys \in Nat \ {0}

VARIABLES
    node,       \* Controller, durable: the row of the node in nodes
    tokens,     \* Controller, durable: enrollment_tokens
    keys,       \* Controller, durable: node_keys
    pending,    \* host, durable: the key in the pending identity file
    identity,   \* host, durable: the key in the identity file
    made,       \* host: key pairs generated so far
    wiped,      \* keys that were lost because their host was wiped
    attempt,    \* host: the enrollment it waits for an answer to
    requests,   \* requests on their way to the Controller
    reply,      \* host: the answer to its attempt
    installs    \* install commands the operators still run

enrollment == <<node, tokens, keys, pending, identity, made, wiped, attempt,
                requests, reply, installs>>

Key == Hosts \X (1 .. MaxKeys)
NoKey == <<>>
NoNode == [exists |-> FALSE, revoked |-> FALSE, seen |-> FALSE, assigned |-> FALSE]
NoToken == [state |-> "none", fresh |-> TRUE, key |-> NoKey]
Idle == [token |-> "none", key |-> NoKey]
Owner(k) == k[1]

EnrollmentTypeOK ==
    /\ node \in [exists : BOOLEAN, revoked : BOOLEAN, seen : BOOLEAN, assigned : BOOLEAN]
    /\ tokens \in [Tokens -> [state : {"none", "unused", "used", "deleted"},
                              fresh : BOOLEAN, key : Key \cup {NoKey}]]
    /\ keys \in [Key -> {"none", "valid", "revoked"}]
    /\ pending \in [Hosts -> Key \cup {NoKey}]
    /\ identity \in [Hosts -> Key \cup {NoKey}]
    /\ made \in [Hosts -> 0 .. MaxKeys]
    /\ wiped \subseteq Key
    /\ attempt \in [Hosts -> [token : Tokens, key : Key] \cup {Idle}]
    /\ requests \subseteq [token : Tokens, key : Key]
    /\ reply \in [Hosts -> {"none", "accepted", "rejected"}]
    /\ installs \in Nat

(* No node row, nothing on the hosts.  n install commands will be run.     *)
InitFresh(n) ==
    /\ node = NoNode
    /\ tokens = [t \in Tokens |-> NoToken]
    /\ keys = [k \in Key |-> "none"]
    /\ pending = [h \in Hosts |-> NoKey]
    /\ identity = [h \in Hosts |-> NoKey]
    /\ made = [h \in Hosts |-> 0]
    /\ wiped = {}
    /\ attempt = [h \in Hosts |-> Idle]
    /\ requests = {}
    /\ reply = [h \in Hosts |-> "none"]
    /\ installs = n

Enrolled == \E k \in Key : keys[k] = "valid"

---------------------------------------------------------------------------
(* The Controller.                                                         *)

(* ensurePendingNodeTx: the row is there afterwards, unless it is revoked. *)
ensurePendingNodeTx ==
    /\ ~ node.revoked
    /\ node' = [node EXCEPT !.exists = TRUE]

(* CreateEnrollmentToken: the token is made together with the pending      *)
(* node, never for an enrolled or revoked one.                             *)
CreateEnrollmentToken(t) ==
    /\ ensurePendingNodeTx
    /\ ~ Enrolled
    /\ tokens' = [tokens EXCEPT ![t].state = "unused"]

handleNodeInstallCommand(t) ==
    /\ tokens[t].state = "none"
    /\ CreateEnrollmentToken(t)
    /\ UNCHANGED <<keys, pending, identity, made, wiped, attempt, requests,
                   reply, installs>>

TokenExpires(t) ==
    /\ tokens[t].state = "unused" /\ tokens[t].fresh
    /\ tokens' = [tokens EXCEPT ![t].fresh = FALSE]
    /\ UNCHANGED <<node, keys, pending, identity, made, wiped, attempt,
                   requests, reply, installs>>

(* A used token answers the key it was used with once more, also when it   *)
(* has expired and when the key has been revoked since.                    *)
Repeats(r) == tokens[r.token].state = "used" /\ tokens[r.token].key = r.key

Consumes_AnyNumber(r) == tokens[r.token].state = "unused" /\ tokens[r.token].fresh

Consumes(r) ==
    /\ tokens[r.token].state = "unused"
    /\ tokens[r.token].fresh
    /\ ~ Enrolled

(* CompleteEnrollment: one transaction uses the token and registers the    *)
(* key.                                                                    *)
CompleteEnrollment(r) ==
    IF Consumes(r)
    THEN /\ tokens' = [tokens EXCEPT ![r.token].state = "used", ![r.token].key = r.key]
         /\ keys' = [keys EXCEPT ![r.key] = "valid"]
    ELSE UNCHANGED <<tokens, keys>>

(* Server.process: the answer reaches the host if it still waits for it.   *)
processRequest(r) ==
    /\ r \in requests
    /\ requests' = requests \ {r}
    /\ CompleteEnrollment(r)
    /\ reply' = IF attempt[Owner(r.key)] = r
                THEN [reply EXCEPT ![Owner(r.key)] =
                        IF Consumes(r) \/ Repeats(r) THEN "accepted" ELSE "rejected"]
                ELSE reply
    /\ UNCHANGED <<node, pending, identity, made, wiped, attempt, installs>>

(* RevokeNode: the node, its keys and the tokens nobody has used.          *)
RevokeNodeTx ==
    /\ node' = [node EXCEPT !.revoked = TRUE]
    /\ keys' = [k \in Key |-> IF keys[k] = "valid" THEN "revoked" ELSE keys[k]]
    /\ tokens' = [t \in Tokens |-> IF tokens[t].state = "unused"
                                   THEN [tokens[t] EXCEPT !.state = "deleted"]
                                   ELSE tokens[t]]

(* handleRevokeNode.                                                       *)
RevokeNode ==
    /\ node.exists
    /\ RevokeNodeTx
    /\ UNCHANGED <<pending, identity, made, wiped, attempt, requests, reply, installs>>

Placeholder_KeysIgnored == node.exists /\ ~ node.seen /\ ~ node.assigned

(* An installation placeholder: no desired or applied generation, never    *)
(* seen, no key.  A revoked node may be one.                               *)
Placeholder ==
    /\ node.exists /\ ~ node.seen /\ ~ node.assigned
    /\ \A k \in Key : keys[k] = "none"

(* handleDeleteNode and DeletePendingNode: the row, and by the foreign key *)
(* its tokens.                                                             *)
DeletePendingNode ==
    /\ Placeholder
    /\ node' = NoNode
    /\ tokens' = [t \in Tokens |-> IF tokens[t].state \in {"unused", "used"}
                                   THEN [tokens[t] EXCEPT !.state = "deleted"]
                                   ELSE tokens[t]]
    /\ UNCHANGED <<keys, pending, identity, made, wiped, attempt, requests,
                   reply, installs>>

(* AuthorizeNodeKey: a key that is registered, of a node that is not       *)
(* revoked.                                                                *)
AuthorizeNodeKey(k) ==
    /\ k # NoKey
    /\ node.exists /\ ~ node.revoked
    /\ keys[k] = "valid"

Authorized(h) == AuthorizeNodeKey(identity[h])

(* RecordHello: a node that is not revoked has been seen.                  *)
RecordHello ==
    /\ node.exists /\ ~ node.revoked
    /\ node' = [node EXCEPT !.seen = TRUE]
    /\ UNCHANGED <<tokens, keys, pending, identity, made, wiped, attempt,
                   requests, reply, installs>>

(* A cluster plan gives the node, enrolled or not, a desired generation.   *)
PublishDesired ==
    /\ node.exists /\ ~ node.revoked /\ ~ node.assigned
    /\ node' = [node EXCEPT !.assigned = TRUE]
    /\ UNCHANGED <<tokens, keys, pending, identity, made, wiped, attempt,
                   requests, reply, installs>>

---------------------------------------------------------------------------
(* The hosts.                                                              *)

loadOrCreatePending_AlwaysNew(h) ==
    /\ identity[h] = NoKey
    /\ made[h] < MaxKeys
    /\ made' = [made EXCEPT ![h] = @ + 1]
    /\ pending' = [pending EXCEPT ![h] = <<h, made[h] + 1>>]

(* loadOrCreatePending: the key of an unfinished enrollment is used again, *)
(* a new one is durable before the Controller hears of it.                 *)
loadOrCreatePending(h) ==
    /\ identity[h] = NoKey
    /\ IF pending[h] # NoKey
       THEN UNCHANGED <<pending, made>>
       ELSE /\ made[h] < MaxKeys
            /\ made' = [made EXCEPT ![h] = @ + 1]
            /\ pending' = [pending EXCEPT ![h] = <<h, made[h] + 1>>]

(* Enroll up to the request.                                               *)
Enroll(h, t) ==
    /\ loadOrCreatePending(h)
    /\ attempt' = [attempt EXCEPT ![h] = [token |-> t, key |-> pending'[h]]]
    /\ requests' = requests \cup {[token |-> t, key |-> pending'[h]]}

(* runInstall, and runEnroll, which does not refuse an expired bundle.     *)
(* With an identity on disk runInstall only activates the service, which   *)
(* changes nothing here.                                                   *)
runInstall(h, t) ==
    /\ installs > 0
    /\ tokens[t].state # "none"
    /\ attempt[h] = Idle
    /\ Enroll(h, t)
    /\ installs' = installs - 1
    /\ UNCHANGED <<node, tokens, keys, identity, wiped, reply>>

(* The connection fails or times out: the pending key stays.  The request  *)
(* may have been lost, or the Controller still has it.                     *)
GiveUp(h) ==
    /\ attempt[h] # Idle
    /\ attempt' = [attempt EXCEPT ![h] = Idle]
    /\ reply' = [reply EXCEPT ![h] = "none"]
    /\ requests' \in {requests, requests \ {attempt[h]}}
    /\ UNCHANGED <<node, tokens, keys, pending, identity, made, wiped, installs>>

(* The rest of Enroll: DecodeResponse, the identity file, and then the     *)
(* removal of the pending file, which may fail or be forestalled by a      *)
(* crash.                                                                  *)
FinishEnroll(h) ==
    /\ reply[h] # "none"
    /\ reply' = [reply EXCEPT ![h] = "none"]
    /\ attempt' = [attempt EXCEPT ![h] = Idle]
    /\ IF reply[h] = "accepted"
       THEN /\ identity' = [identity EXCEPT ![h] = attempt[h].key]
            /\ \E left \in {NoKey, pending[h]} : pending' = [pending EXCEPT ![h] = left]
       ELSE UNCHANGED <<identity, pending>>
    /\ UNCHANGED <<node, tokens, keys, made, wiped, requests, installs>>

(* The state directory with both files goes: an uninstallation, or a host  *)
(* set up anew.                                                            *)
LoseFiles(h) ==
    /\ wiped' = wiped \cup ({pending[h], identity[h]} \ {NoKey})
    /\ pending' = [pending EXCEPT ![h] = NoKey]
    /\ identity' = [identity EXCEPT ![h] = NoKey]

Wipe(h) ==
    /\ attempt[h] = Idle
    /\ pending[h] # NoKey \/ identity[h] # NoKey
    /\ installs > 0
    /\ LoseFiles(h)
    /\ UNCHANGED <<node, tokens, keys, made, attempt, requests, reply, installs>>

EnrollmentNext ==
    \/ \E t \in Tokens : handleNodeInstallCommand(t) \/ TokenExpires(t)
    \/ \E r \in requests : processRequest(r)
    \/ RevokeNode
    \/ DeletePendingNode
    \/ PublishDesired
    \/ \E h \in Hosts, t \in Tokens : runInstall(h, t)
    \/ \E h \in Hosts : GiveUp(h) \/ FinishEnroll(h) \/ Wipe(h)

---------------------------------------------------------------------------
(* Properties.                                                             *)

(* However many hosts run the install commands of a node, and however late *)
(* their requests are processed, at most one of its keys is not revoked:   *)
(* two machines are never the same node (CompleteEnrollment).              *)
AtMostOneKey ==
    \A k, l \in Key : keys[k] = "valid" /\ keys[l] = "valid" => k = l

(* A key the Controller has registered is never lost by a host that was    *)
(* not wiped: it is in the identity file, or still in the pending file, so *)
(* that the retry after a lost answer succeeds with the same key although  *)
(* the token has been used (loadOrCreatePending, Enroll).                  *)
KeyHeld ==
    \A k \in Key : keys[k] # "none" /\ k \notin wiped =>
        k \in {pending[Owner(k)], identity[Owner(k)]}

(* A node that was enrolled and then revoked stays so for ever: no new     *)
(* token, no late request and no deletion of the row brings the node ID    *)
(* back (RevokeNode: "permanently invalidates the node identity").         *)
RevokedNode == node.revoked /\ \E k \in Key : keys[k] # "none"

NeverReadmitted ==
    [][RevokedNode => RevokedNode' /\ \A h \in Hosts : ~ Authorized(h)']_enrollment
=============================================================================
