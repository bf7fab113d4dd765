------------------------- MODULE NodeCommandsProofs -------------------------
(***************************************************************************)
(* What TLAPS proves about NodeCommands, for any hosts, tokens, keys and   *)
(* streams, any number of commands up to the capacity of commandResults,   *)
(* and any number of failures and plan changes.                            *)
(***************************************************************************)
EXTENDS NodeCommands, EnrollmentProofs, FiniteSetTheorems, SequenceTheorems

-----------------------------------------------------------------------------
(* Where a command is.                                                     *)

Message == [event : {"command", "ack"}, id : Requests]
Answer == [id : Requests, ok : BOOLEAN]

(* Commands the Agent has not received: in the queue of the connection or  *)
(* in its stream.                                                          *)
Queued == UNION {ToSet(outbound[s]) : s \in Streams}
Unreceived == {id \in Requests : \/ id \in Queued
                                 \/ [event |-> "command", id |-> id] \in ToSet(down)}
Acked == {id \in Requests : [event |-> "ack", id |-> id] \in ToSet(down)}

(* Results the Agent has, to be sent or to be acknowledged; answers the    *)
(* Controller has still to read, in any stream.                            *)
Posted == awaiting \cup ToSet(results)
Sent == UNION {ToSet(up[s]) : s \in Streams}

(* The Agent has not handed over the result of command id yet.             *)
Running(id) == active = id /\ step # "posted"

-----------------------------------------------------------------------------
(* The inductive invariant.                                                *)

(* TypeOK, but for the length of the queue of results, which follows from  *)
(* what is in it.                                                          *)
Request == [kind : Kinds \cup {"none"}, ok : BOOLEAN,
            at : {"unused", "idle", "retiring", "pending", "answered", "lost", "refused",
                  "failed", "succeeded", "revoked", "timeout", "crashed", "unsaved"}]

ControllerTypes ==
    /\ request \in [Requests -> Request]
    /\ broker \in 0 .. MaxStreams
    /\ outbound \in [Streams -> Seq(Requests)]
    /\ \A s \in Streams : Len(outbound[s]) <= OutboundSlots
    /\ handler \in [Streams -> {"none", "hello", "authorized", "recorded", "registered"}]
    /\ peer \in [Streams -> Key \cup {NoKey}]

WireTypes ==
    /\ up \in [Streams -> Seq(Answer)]
    /\ down \in Seq(Message)
    /\ stream \in 0 .. MaxStreams /\ overtaken \in BOOLEAN

AgentTypes ==
    /\ process \in {"up", "down", "gone"}
    /\ active \in Requests \cup {0}
    /\ step \in {"none", "begin", "write", "purge", "start", "wait", "ok", "fail", "posted"}
    /\ results \in Seq(Completion)
    /\ awaiting \subseteq Completion

StateTypes == planned \in BOOLEAN /\ desired \in BOOLEAN /\ applied \in BOOLEAN

HostTypes ==
    /\ files \in [request : {"none", "upgrade", "uninstall"}, staged : {"none", "good", "bad"},
                  binary : {"none", "good", "bad"}, previous : {"none", "good", "bad"}]
    /\ service \in {"idle", "load", "backup", "install", "verify", "rollback", "remove"}

BoundTypes == faults \in Nat /\ changes \in Nat

TypesInv ==
    ControllerTypes /\ WireTypes /\ AgentTypes /\ StateTypes /\ HostTypes /\ BoundTypes

(* Nothing is twice in a queue.  What is in the Agent's stream belongs to  *)
(* results that wait for an ACK; a result is either answered or read.      *)
QueueInv ==
    /\ \A s \in Streams : IsInjective(outbound[s])
    /\ \A s, t \in Streams : s # t => ToSet(outbound[s]) \cap ToSet(outbound[t]) = {}
    /\ IsInjective(down) /\ IsInjective(results)
    /\ IsFiniteSet(awaiting) /\ awaiting \cap ToSet(results) = {}
    /\ \A id \in Queued : [event |-> "command", id |-> id] \notin ToSet(down)

(* The broker knows only handler, peer that have registered; only they have     *)
(* commands, and without a handler nobody has an answer.                   *)
ConnectionInv ==
    /\ broker # 0 => broker \in registered
    /\ \A s \in Streams : handler[s] # "registered" => outbound[s] = <<>>
    /\ \A s \in Streams : handler[s] = "none" => up[s] = <<>>

StreamInv ==
    /\ ConnectionInv
    /\ stream \in registered /\ ~ overtaken => broker = stream
    /\ stream = 0 => down = <<>>
    /\ \A id \in Acked : \E c \in awaiting : c.id = id
    /\ stream # 0 =>
          /\ handler[stream] # "none"
          /\ IsInjective(up[stream])
          /\ \A m \in ToSet(up[stream]) : m.id \notin Acked /\ \E c \in awaiting : c.id = m.id

(* A command has one result, made after it was received, and the same in   *)
(* every stream in which it is sent; only the active one releases the      *)
(* Agent.                                                                  *)
ResultInv ==
    /\ active = 0 <=> step = "none"
    /\ \A c, d \in Posted : c.id = d.id => c = d
    /\ \A c \in Posted, m \in Sent : c.id = m.id => c.ok = m.ok
    /\ \A c \in Posted : /\ c.ok => c.release
                         /\ c.release => c.id = active /\ step = "posted"
    /\ \A id \in Requests : id \in Unreceived \/ Running(id) =>
          /\ \A c \in Posted : c.id # id
          /\ \A m \in Sent : m.id # id
    /\ active \notin Unreceived

(* A request that was given to the broker.                                 *)
Dispatched == {"pending", "answered", "lost", "failed", "succeeded", "revoked", "timeout",
               "crashed", "unsaved"}

(* Only dispatched commands are anywhere.  What the handler of an          *)
(* uninstallation was told is what the Agent says.                         *)
RequestInv ==
    /\ \A id \in Requests :
          id \in Unreceived \/ id = active \/ (\E c \in Posted : c.id = id) \/ (\E m \in Sent : m.id = id)
             => request[id].at \in Dispatched
    /\ \A id \in Requests :
          /\ request[id].at \notin {"idle", "unused"} => node.seen
          /\ request[id].at = "revoked" => node.revoked
    /\ \A id \in Requests : request[id].kind = "uninstall" =>
          /\ request[id].at # "succeeded"
          /\ request[id].at = "failed" => ~ request[id].ok
          /\ request[id].at \in {"answered", "failed"} =>
                /\ id \notin Unreceived /\ ~ Running(id)
                /\ \A c \in Posted : c.id = id => c.ok = request[id].ok

(* The handler of the uninstallation r will revoke the node, unless it has *)
(* failed to do so: nobody will tell it that the Agent is still there.     *)
Removing(r) ==
    /\ request[r].kind = "uninstall"
    /\ request[r].at \in {"pending", "answered", "lost", "timeout", "crashed", "unsaved"}
    /\ request[r].at = "answered" => request[r].ok
    /\ r \notin Unreceived /\ r # active
    /\ \A c \in Posted : c.id # r
    /\ \A m \in Sent : m.id = r => m.ok

(* RemovedIsRevoked, of a node that cannot be deleted.                     *)
RemovedInv ==
    process = "gone" => node.seen /\ (node.revoked \/ \E r \in Requests : Removing(r))

(* While an upgrade is reported as done, no run of the service is.         *)
UpgradeInv ==
    (\/ step = "ok" /\ ActiveKind = "upgrade"
     \/ \E c \in Posted : c.ok /\ request[c.id].kind = "upgrade")
    => service = "idle" /\ files.binary # "bad"

(* From the check that no forward is applied on, none is.                  *)
UnusedInv ==
    (\/ ActiveKind = "uninstall" /\ step \in {"write", "purge", "start", "wait", "ok"}
     \/ \E c \in Posted : c.ok /\ request[c.id].kind = "uninstall")
    => ~ applied

CommandsInv ==
    /\ EnrollmentInv /\ TypesInv
    /\ QueueInv /\ StreamInv /\ ResultInv /\ RequestInv
    /\ RemovedInv /\ UpgradeInv /\ UnusedInv

-----------------------------------------------------------------------------
(* Queues.                                                                 *)

LEMMA ToSetFacts ==
    ASSUME NEW S, NEW s \in Seq(S)
    PROVE  /\ ToSet(s) \subseteq S
           /\ \A e : e \in ToSet(s) <=> \E i \in 1 .. Len(s) : s[i] = e
           /\ IsInjective(s) <=> \A i, j \in 1 .. Len(s) : s[i] = s[j] => i = j
           /\ Len(s) \in Nat
  <1>1. DOMAIN s = 1 .. Len(s) /\ Len(s) \in Nat
    BY LenProperties
  <1>2. \A i \in 1 .. Len(s) : s[i] \in S
    BY ElementOfSeq
  <1>3. QED  BY <1>1, <1>2 DEF ToSet, IsInjective

LEMMA EmptyQueue == ToSet(<<>>) = {} /\ IsInjective(<<>>)
  <1>1. DOMAIN <<>> = {}
    OBVIOUS
  <1>2. QED  BY <1>1 DEF ToSet, IsInjective

LEMMA AppendQueue ==
    ASSUME NEW S, NEW s \in Seq(S), NEW e \in S
    PROVE  /\ Append(s, e) \in Seq(S) /\ Len(Append(s, e)) = Len(s) + 1
           /\ ToSet(Append(s, e)) = ToSet(s) \cup {e}
           /\ IsInjective(s) /\ e \notin ToSet(s) => IsInjective(Append(s, e))
  <1> DEFINE t == Append(s, e)
  <1>1. t \in Seq(S) /\ Len(t) = Len(s) + 1 /\ Len(s) \in Nat
    BY AppendProperties, LenProperties
  <1>2. t[Len(s) + 1] = e /\ \A i \in 1 .. Len(s) : t[i] = s[i]
    BY AppendProperties
  <1> HIDE DEF t
  <1>3. \A i \in 1 .. Len(t) : i \in 1 .. Len(s) \/ i = Len(s) + 1
    BY <1>1
  <1>4. \A x : x \in ToSet(t) <=> x \in ToSet(s) \cup {e}
    <2>1. \A x : x \in ToSet(t) <=> \E i \in 1 .. Len(t) : t[i] = x
      BY <1>1, ToSetFacts
    <2>2. \A x : x \in ToSet(s) <=> \E i \in 1 .. Len(s) : s[i] = x
      BY ToSetFacts
    <2>3. \A i \in 1 .. Len(s) : i \in 1 .. Len(t)
      BY <1>1
    <2>4. Len(s) + 1 \in 1 .. Len(t)
      BY <1>1
    <2>5. QED  BY <1>2, <1>3, <2>1, <2>2, <2>3, <2>4
  <1>5. ASSUME IsInjective(s), e \notin ToSet(s) PROVE IsInjective(t)
    <2>1. /\ \A i \in 1 .. Len(s) : s[i] # e
          /\ \A i, j \in 1 .. Len(s) : s[i] = s[j] => i = j
      BY <1>5, ToSetFacts
    <2>2. \A i, j \in 1 .. Len(t) : t[i] = t[j] => i = j
      BY <1>2, <1>3, <2>1
    <2>3. QED  BY <1>1, <2>2, ToSetFacts
  <1>6. QED  BY <1>1, <1>4, <1>5 DEF t

LEMMA TailQueue ==
    ASSUME NEW S, NEW s \in Seq(S), s # <<>>
    PROVE  /\ Tail(s) \in Seq(S) /\ Len(Tail(s)) <= Len(s)
           /\ Head(s) \in S /\ Head(s) \in ToSet(s)
           /\ ToSet(Tail(s)) \subseteq ToSet(s)
           /\ ToSet(s) \subseteq ToSet(Tail(s)) \cup {Head(s)}
           /\ IsInjective(s) => IsInjective(Tail(s)) /\ ToSet(Tail(s)) = ToSet(s) \ {Head(s)}
  <1> DEFINE t == Tail(s)
  <1>1. /\ t \in Seq(S) /\ Len(t) = Len(s) - 1 /\ Len(s) \in Nat \ {0}
        /\ Head(s) = s[1] /\ \A i \in 1 .. Len(t) : t[i] = s[i + 1]
    BY HeadTailProperties, EmptySeq, LenProperties
  <1> HIDE DEF t
  <1>2. /\ 1 \in 1 .. Len(s)
        /\ \A i \in 1 .. Len(t) : i + 1 \in 1 .. Len(s) /\ i + 1 # 1
        /\ \A i, j \in 1 .. Len(t) : i + 1 = j + 1 => i = j
        /\ \A i \in 1 .. Len(s) : i # 1 => i - 1 \in 1 .. Len(t) /\ (i - 1) + 1 = i
    BY <1>1
  <1>3. /\ \A x : x \in ToSet(t) <=> \E i \in 1 .. Len(t) : t[i] = x
        /\ IsInjective(t) <=> \A i, j \in 1 .. Len(t) : t[i] = t[j] => i = j
    BY <1>1, ToSetFacts
  <1>4. /\ \A x : x \in ToSet(s) <=> \E i \in 1 .. Len(s) : s[i] = x
        /\ IsInjective(s) <=> \A i, j \in 1 .. Len(s) : s[i] = s[j] => i = j
        /\ ToSet(s) \subseteq S
    BY ToSetFacts
  <1>5. Head(s) \in ToSet(s)
    BY <1>1, <1>2, <1>4
  <1>6. ToSet(t) \subseteq ToSet(s)
    BY <1>1, <1>2, <1>3, <1>4
  <1>7. ToSet(s) \subseteq ToSet(t) \cup {Head(s)}
    <2> SUFFICES ASSUME NEW i \in 1 .. Len(s), i # 1
                 PROVE  s[i] \in ToSet(t)
      BY <1>1, <1>4
    <2>1. t[i - 1] = s[i]
      BY <1>1, <1>2
    <2>2. QED  BY <1>2, <1>3, <2>1
  <1>8. ASSUME IsInjective(s) PROVE IsInjective(t) /\ Head(s) \notin ToSet(t)
    <2>1. \A i, j \in 1 .. Len(t) : t[i] = t[j] => i = j
      BY <1>1, <1>2, <1>4, <1>8
    <2>2. \A i \in 1 .. Len(t) : t[i] # Head(s)
      BY <1>1, <1>2, <1>4, <1>8
    <2>3. QED  BY <1>3, <2>1, <2>2
  <1>9. QED  BY <1>1, <1>4, <1>5, <1>6, <1>7, <1>8 DEF t

LEMMA ConcatQueue ==
    ASSUME NEW S, NEW s \in Seq(S), NEW t \in Seq(S)
    PROVE  /\ s \o t \in Seq(S)
           /\ ToSet(s \o t) = ToSet(s) \cup ToSet(t)
           /\ IsInjective(s) /\ IsInjective(t) /\ ToSet(s) \cap ToSet(t) = {} => IsInjective(s \o t)
  <1> DEFINE u == s \o t
             n == Len(s)
  <1>1. /\ u \in Seq(S) /\ Len(u) = n + Len(t) /\ n \in Nat /\ Len(t) \in Nat
        /\ \A i \in 1 .. n + Len(t) : u[i] = IF i <= n THEN s[i] ELSE t[i - n]
    BY ConcatProperties, LenProperties
  <1>2. \A x : x \in ToSet(s) <=> \E i \in 1 .. n : s[i] = x
    BY ToSetFacts
  <1>3. \A x : x \in ToSet(t) <=> \E i \in 1 .. Len(t) : t[i] = x
    BY ToSetFacts
  <1>4. /\ \A x : x \in ToSet(u) <=> \E i \in 1 .. Len(u) : u[i] = x
        /\ IsInjective(u) <=> \A i, j \in 1 .. Len(u) : u[i] = u[j] => i = j
    BY <1>1, ToSetFacts
  <1>5. /\ IsInjective(s) <=> \A i, j \in 1 .. n : s[i] = s[j] => i = j
        /\ IsInjective(t) <=> \A i, j \in 1 .. Len(t) : t[i] = t[j] => i = j
    BY ToSetFacts
  <1> HIDE DEF u, n
  <1>6. /\ \A i \in 1 .. Len(u) : i <= n => i \in 1 .. n /\ u[i] = s[i]
        /\ \A i \in 1 .. Len(u) : ~(i <= n) => i - n \in 1 .. Len(t) /\ u[i] = t[i - n]
    BY <1>1
  <1>7. /\ \A i \in 1 .. n : i \in 1 .. Len(u) /\ i <= n
        /\ \A i \in 1 .. Len(t) : i + n \in 1 .. Len(u) /\ ~(i + n <= n) /\ (i + n) - n = i
    BY <1>1
  <1>8. \A x : x \in ToSet(u) => x \in ToSet(s) \cup ToSet(t)
    BY <1>2, <1>3, <1>4, <1>6
  <1>9. \A x : x \in ToSet(s) => x \in ToSet(u)
    BY <1>2, <1>4, <1>6, <1>7
  <1>10. \A x : x \in ToSet(t) => x \in ToSet(u)
    <2> SUFFICES ASSUME NEW i \in 1 .. Len(t)
                 PROVE  t[i] \in ToSet(u)
      BY <1>3
    <2>1. u[i + n] = t[i]
      BY <1>6, <1>7
    <2>2. QED  BY <1>4, <1>7, <2>1
  <1>11. ASSUME IsInjective(s), IsInjective(t), ToSet(s) \cap ToSet(t) = {} PROVE IsInjective(u)
    <2> SUFFICES ASSUME NEW i \in 1 .. Len(u), NEW j \in 1 .. Len(u), u[i] = u[j]
                 PROVE  i = j
      BY <1>4
    <2>1. \A a \in 1 .. n, b \in 1 .. Len(t) : s[a] # t[b]
      BY <1>2, <1>3, <1>11
    <2>2. CASE i <= n /\ j <= n
      BY <1>5, <1>6, <1>11, <2>2
    <2>3. CASE ~(i <= n) /\ ~(j <= n)
      <3>1. i - n = j - n
        BY <1>5, <1>6, <1>11, <2>3
      <3>2. QED  BY <1>1, <3>1
    <2>4. QED  BY <1>6, <2>1, <2>2, <2>3
  <1>12. QED  BY <1>1, <1>8, <1>9, <1>10, <1>11 DEF u

LEMMA SetQueue ==
    ASSUME NEW S, NEW A \in SUBSET S, IsFiniteSet(A)
    PROVE  /\ SetToSeq(A) \in Seq(S)
           /\ ToSet(SetToSeq(A)) = A
           /\ IsInjective(SetToSeq(A))
  <1> DEFINE n == Cardinality(A)
             q == SetToSeq(A)
  <1>1. n \in Nat /\ ExistsBijection(1 .. n, A)
    BY FS_CardinalityType
  <1>2. \E f \in [1 .. n -> A] : IsInjective(f)
    BY <1>1 DEF ExistsBijection, Bijection, Injection
  <1>3. q \in [1 .. n -> A] /\ IsInjective(q)
    BY <1>2 DEF SetToSeq
  <1> HIDE DEF q
  <1>4. q \in Injection(1 .. n, A)
    BY <1>3 DEF Injection
  <1>5. Cardinality(1 .. n) = n
    BY <1>1, FS_Interval
  <1>6. q \in Surjection(1 .. n, A)
    BY <1>4, <1>5, FS_Injection
  <1>7. q \in Seq(S)
    BY <1>1, <1>3
  <1>8. ToSet(q) = A
    BY <1>3, <1>6 DEF ToSet, Surjection
  <1>9. QED  BY <1>3, <1>7, <1>8 DEF q

-----------------------------------------------------------------------------
(* Facts about the state that many steps use.                              *)

LEMMA PlaceTypes ==
    ASSUME TypesInv
    PROVE  /\ Posted \subseteq Completion /\ Sent \subseteq Answer
           /\ Unreceived \subseteq Requests /\ Acked \subseteq Requests
           /\ 0 \notin Requests
           /\ \A m \in ToSet(down) : m \in Message /\ m = [event |-> m.event, id |-> m.id]
  <1>1. Posted \subseteq Completion
    BY ToSetFacts DEF TypesInv, AgentTypes, Posted
  <1>2. \A s \in Streams : ToSet(up[s]) \subseteq Answer
    <2> TAKE s \in Streams
    <2>1. up[s] \in Seq(Answer)
      BY DEF TypesInv, WireTypes
    <2>2. QED  BY <2>1, ToSetFacts
  <1>3. Sent \subseteq Answer
    BY <1>2 DEF Sent
  <1>4. ToSet(down) \subseteq Message
    BY ToSetFacts DEF TypesInv, WireTypes
  <1>5. \A m \in Message : m = [event |-> m.event, id |-> m.id]
    BY DEF Message
  <1>6. QED  BY <1>1, <1>3, <1>4, <1>5, CommandsAssumption DEF Unreceived, Acked

(* A command the Agent has anything to do with was dispatched.             *)
LEMMA DispatchedFacts ==
    ASSUME CommandsInv
    PROVE  /\ active # 0 => active \in Requests /\ request[active].at \in Dispatched
           /\ \A c \in Posted : c \in Completion /\ c.id \in Requests /\ request[c.id].at \in Dispatched
           /\ \A m \in Sent : m \in Answer /\ m.id \in Requests /\ request[m.id].at \in Dispatched
           /\ \A id \in Unreceived : id \in Requests /\ request[id].at \in Dispatched
  <1>1. Posted \subseteq Completion /\ Sent \subseteq Answer /\ Unreceived \subseteq Requests
    BY PlaceTypes DEF CommandsInv
  <1>2. \A c \in Completion : c.id \in Requests
    BY DEF Completion
  <1>3. \A m \in Answer : m.id \in Requests
    BY DEF Answer
  <1>4. active # 0 => active \in Requests
    BY DEF CommandsInv, TypesInv, AgentTypes
  <1>5. QED  BY <1>1, <1>2, <1>3, <1>4 DEF CommandsInv, RequestInv

-----------------------------------------------------------------------------
(* Steps after which the Agent has at most the commands it had.            *)

Shrinks ==
    /\ Unreceived' \subseteq Unreceived /\ Posted' \subseteq Posted /\ Sent' \subseteq Sent
    /\ \/ active' = active /\ step' = step
       \/ active' = active /\ step \notin {"none", "posted"} /\ step' \notin {"none", "posted"}
       \/ active' = 0 /\ step' = "none" /\ \A c \in Posted' : ~ c.release

(* The requests go on without the Agent.                                   *)
RequestsEvolve ==
    \A id \in Requests :
        /\ request'[id].kind = request[id].kind
        /\ request'[id].ok = request[id].ok
        /\ \/ request'[id].at = request[id].at
           \/ request[id].at = "retiring" /\ request'[id].at = "refused"
           \/ request[id].at = "pending" /\ request'[id].at \in {"lost", "timeout"}
           \/ /\ request[id].at \in {"retiring", "pending", "answered", "lost"}
              /\ request'[id].at = "crashed"

KindsKept ==
    \A id \in Requests : request[id].at \in Dispatched => request'[id].kind = request[id].kind

(* A node that was seen stays, and stays revoked.                          *)
NodeKept ==
    /\ node.seen = TRUE => node'.seen = TRUE
    /\ node.seen = TRUE /\ node.revoked = TRUE => node'.revoked = TRUE

LEMMA ShrinkResult ==
    ASSUME CommandsInv, Shrinks
    PROVE  ResultInv'
  <1>1. 0 \notin Requests
    BY PlaceTypes DEF CommandsInv
  <1>2. \A id \in Requests : Running(id)' => Running(id)
    BY <1>1 DEF Shrinks, Running, CommandsInv, ResultInv
  <1>3. ResultInv
    BY DEF CommandsInv
  <1>4. (active = 0 <=> step = "none")'
    BY <1>3 DEF ResultInv, Shrinks
  <1>5. active' \notin Unreceived'
    <2>1. active' = active \/ active' = 0
      BY DEF Shrinks
    <2>2. 0 \notin Unreceived
      BY <1>1 DEF Unreceived
    <2>3. QED  BY <1>3, <2>1, <2>2 DEF ResultInv, Shrinks
  <1>6. \A c \in Posted' : c.release => c.id = active' /\ step' = "posted"
    BY <1>3 DEF ResultInv, Shrinks
  <1>7. /\ \A c, d \in Posted' : c.id = d.id => c = d
        /\ \A c \in Posted', m \in Sent' : c.id = m.id => c.ok = m.ok
        /\ \A c \in Posted' : c.ok => c.release
        /\ \A id \in Requests : id \in Unreceived' \/ Running(id)' =>
              /\ \A c \in Posted' : c.id # id
              /\ \A m \in Sent' : m.id # id
    BY <1>2, <1>3 DEF ResultInv, Shrinks
  <1>8. QED  BY <1>4, <1>5, <1>6, <1>7 DEF ResultInv

LEMMA ShrinkRequest ==
    ASSUME CommandsInv, Shrinks, RequestsEvolve, NodeKept
    PROVE  RequestInv'
  <1>1. RequestInv /\ 0 \notin Requests
    BY PlaceTypes DEF CommandsInv
  <1>2. \A id \in Requests : Running(id)' => Running(id)
    BY <1>1 DEF Shrinks, Running, CommandsInv, ResultInv
  <1>3. \A id \in Requests :
          id \in Unreceived' \/ id = active' \/ (\E c \in Posted' : c.id = id) \/ (\E m \in Sent' : m.id = id)
             => request'[id].at \in Dispatched
    <2> SUFFICES ASSUME NEW id \in Requests,
                        id \in Unreceived' \/ id = active' \/ (\E c \in Posted' : c.id = id)
                           \/ (\E m \in Sent' : m.id = id)
                 PROVE  request'[id].at \in Dispatched
      OBVIOUS
    <2>1. request[id].at \in Dispatched
      BY <1>1 DEF RequestInv, Shrinks
    <2>2. QED  BY <2>1 DEF RequestsEvolve, Dispatched
  <1>4. \A id \in Requests :
          /\ request'[id].at \notin {"idle", "unused"} => node'.seen
          /\ request'[id].at = "revoked" => node'.revoked
    BY <1>1 DEF RequestInv, RequestsEvolve, NodeKept
  <1>5. \A id \in Requests : request'[id].kind = "uninstall" =>
          /\ request'[id].at # "succeeded"
          /\ request'[id].at = "failed" => ~ request'[id].ok
          /\ request'[id].at \in {"answered", "failed"} =>
                /\ id \notin Unreceived' /\ ~ Running(id)'
                /\ \A c \in Posted' : c.id = id => c.ok = request'[id].ok
    <2> SUFFICES ASSUME NEW id \in Requests, request'[id].kind = "uninstall"
                 PROVE  /\ request'[id].at # "succeeded"
                        /\ request'[id].at = "failed" => ~ request'[id].ok
                        /\ request'[id].at \in {"answered", "failed"} =>
                              /\ id \notin Unreceived' /\ ~ Running(id)'
                              /\ \A c \in Posted' : c.id = id => c.ok = request'[id].ok
      OBVIOUS
    <2>1. /\ request[id].kind = "uninstall" /\ request'[id].ok = request[id].ok
          /\ request'[id].at \in {"answered", "failed", "succeeded"} => request'[id].at = request[id].at
      BY DEF RequestsEvolve
    <2>2. Unreceived' \subseteq Unreceived /\ Posted' \subseteq Posted
      BY DEF Shrinks
    <2>3. QED  BY <1>1, <1>2, <2>1, <2>2 DEF RequestInv
  <1>6. QED  BY <1>3, <1>4, <1>5 DEF RequestInv

LEMMA ShrinkRemoved ==
    ASSUME CommandsInv, Shrinks, RequestsEvolve, NodeKept, process' = process \/ process' # "gone"
    PROVE  RemovedInv'
  <1> SUFFICES ASSUME process' = "gone"
               PROVE  node'.seen /\ (node'.revoked \/ \E r \in Requests : Removing(r)')
    BY DEF RemovedInv
  <1>1. node.seen = TRUE /\ (node.revoked = TRUE \/ \E r \in Requests : Removing(r))
    BY DEF CommandsInv, RemovedInv
  <1>2. \A r \in Requests : Removing(r) => Removing(r)'
    <2> SUFFICES ASSUME NEW r \in Requests, Removing(r)
                 PROVE  Removing(r)'
      OBVIOUS
    <2>1. /\ request'[r].kind = "uninstall"
          /\ request'[r].at \in {"pending", "answered", "lost", "timeout", "crashed", "unsaved"}
          /\ request'[r].at = "answered" => request'[r].ok
      BY DEF Removing, RequestsEvolve
    <2>2. r # active'
      BY PlaceTypes DEF Removing, Shrinks, CommandsInv
    <2>3. r \notin Unreceived' /\ (\A c \in Posted' : c.id # r) /\ \A m \in Sent' : m.id = r => m.ok
      BY DEF Removing, Shrinks
    <2>4. QED  BY <2>1, <2>2, <2>3 DEF Removing
  <1>3. QED  BY <1>1, <1>2 DEF NodeKept

(* No new result, the same binary and no new run of the service.           *)
LEMMA UpgradeKept ==
    ASSUME CommandsInv, KindsKept, Posted' \subseteq Posted, active' \in {active, 0},
           step' = "ok" => step = "ok", service' = service, files'.binary = files.binary
    PROVE  UpgradeInv'
  <1>1. \A c \in Posted' : request'[c.id].kind = request[c.id].kind
    BY DispatchedFacts DEF KindsKept
  <1>2. ActiveKind' = "upgrade" => ActiveKind = "upgrade"
    BY DispatchedFacts DEF KindsKept, ActiveKind
  <1>3. QED  BY <1>1, <1>2 DEF CommandsInv, UpgradeInv

UninstallSteps == {"write", "purge", "start", "wait", "ok"}

LEMMA UnusedKept ==
    ASSUME CommandsInv, KindsKept, Posted' \subseteq Posted, active' \in {active, 0},
           step' \in UninstallSteps => step \in UninstallSteps \/ ActiveKind # "uninstall",
           applied' = applied \/ applied' = FALSE
    PROVE  UnusedInv'
  <1>1. \A c \in Posted' : request'[c.id].kind = request[c.id].kind
    BY DispatchedFacts DEF KindsKept
  <1>2. ActiveKind' = "uninstall" => ActiveKind = "uninstall"
    BY DispatchedFacts DEF KindsKept, ActiveKind
  <1>3. QED  BY <1>1, <1>2 DEF CommandsInv, UnusedInv, UninstallSteps

LEMMA ShrinkStep ==
    ASSUME CommandsInv, EnrollmentInv', TypesInv', QueueInv', StreamInv',
           Shrinks, RequestsEvolve, NodeKept,
           process' = process \/ process' # "gone",
           step' = "ok" => step = "ok",
           step' \in UninstallSteps => step \in UninstallSteps \/ ActiveKind # "uninstall",
           service' = service, files'.binary = files.binary,
           applied' = applied \/ applied' = FALSE
    PROVE  CommandsInv'
  <1>1. KindsKept
    BY DEF RequestsEvolve, KindsKept
  <1>2. Posted' \subseteq Posted /\ active' \in {active, 0}
    BY DEF Shrinks
  <1>3. ResultInv' /\ RequestInv' /\ RemovedInv'
    BY ShrinkResult, ShrinkRequest, ShrinkRemoved
  <1>4. UpgradeInv' /\ UnusedInv'
    BY <1>1, <1>2, UpgradeKept, UnusedKept
  <1>5. QED  BY <1>3, <1>4 DEF CommandsInv

(* Nothing but the enrollment changes, or things the commands do not see.  *)
LEMMA PipeSame ==
    ASSUME CommandsInv,
           UNCHANGED <<broker, outbound, handler, up, down, stream, overtaken, results, awaiting>>
    PROVE  /\ QueueInv' /\ StreamInv'
           /\ Unreceived' = Unreceived /\ Posted' = Posted /\ Sent' = Sent
  <1>1. Queued' = Queued /\ registered' = registered
    BY DEF Queued, registered
  <1>2. Unreceived' = Unreceived /\ Posted' = Posted /\ Sent' = Sent /\ Acked' = Acked
    BY <1>1 DEF Unreceived, Posted, Sent, Acked
  <1>3. QED  BY <1>1, <1>2 DEF CommandsInv, QueueInv, StreamInv, ConnectionInv

LEMMA EvolveRefl == UNCHANGED request => RequestsEvolve
  BY DEF RequestsEvolve

LEMMA SameEnrollment ==
    ASSUME CommandsInv, UNCHANGED enrollment
    PROVE  EnrollmentInv' /\ NodeKept
  <1>1. UNCHANGED <<node, tokens, keys, pending, identity, made, wiped, attempt, requests, reply, installs>>
    BY DEF enrollment
  <1>2. EnrollmentInv'
    BY <1>1, RowStep, RowTypes DEF CommandsInv
  <1>3. QED  BY <1>1, <1>2 DEF NodeKept

LEMMA HostingStep ==
    ASSUME CommandsInv, Hosting
    PROVE  CommandsInv'
  <1>0. /\ EnrollmentNext /\ EnrollmentInv
        /\ UNCHANGED <<request, broker, outbound, handler, peer, up, down, stream, overtaken, process,
                       active, step, results, awaiting, planned, desired, applied, files,
                       service, faults, changes>>
    BY DEF Hosting, controller, wires, agent, state, host, bounds, CommandsInv
  <1>1. EnrollmentInv'
    BY <1>0, EnrollmentStep
  <1>2. NodeKept
    <2>1. /\ node.revoked = TRUE /\ node'.revoked # TRUE => ~ node.seen
          /\ node.seen = TRUE => node'.seen = TRUE
      BY <1>0, RevocationStays
    <2>2. QED  BY <2>1 DEF NodeKept
  <1>3. TypesInv'
    BY <1>0 DEF CommandsInv, TypesInv, ControllerTypes, WireTypes, AgentTypes, StateTypes,
                HostTypes, BoundTypes
  <1>4. QueueInv' /\ StreamInv' /\ Shrinks
    BY <1>0, PipeSame DEF Shrinks
  <1>5. QED  BY <1>0, <1>1, <1>2, <1>3, <1>4, EvolveRefl, ShrinkStep

-----------------------------------------------------------------------------
(* The end of a stream.                                                    *)

LEMMA ExitFacts ==
    ASSUME CommandsInv, NEW next \in {"up", "down", "gone"}, Exit(next)
    PROVE  /\ AgentTypes'
           /\ Posted' = {} /\ ToSet(down') = {} /\ Acked' = {}
           /\ IsInjective(down') /\ IsInjective(results') /\ IsFiniteSet(awaiting')
           /\ down' \in Seq(Message) /\ stream' \in 0 .. MaxStreams
  <1>1. /\ process' = next /\ stream' = 0 /\ down' = <<>> /\ active' = 0 /\ step' = "none"
        /\ results' = <<>> /\ awaiting' = {}
    BY DEF Exit
  <1>2. <<>> \in Seq(Completion) /\ <<>> \in Seq(Message) /\ 0 \in 0 .. MaxStreams
    BY EmptySeq, CommandsAssumption
  <1>3. QED  BY <1>1, <1>2, EmptyQueue, FS_EmptySet DEF AgentTypes, Posted, Acked

(* What awaited an ACK is queued again: nothing is lost, nothing doubled.  *)
LEMMA EndSessionFacts ==
    ASSUME CommandsInv, EndSession
    PROVE  /\ results' \in Seq(Completion) /\ awaiting' = {} /\ IsFiniteSet(awaiting')
           /\ Posted' = Posted /\ ToSet(down') = {} /\ Acked' = {}
           /\ IsInjective(down') /\ IsInjective(results')
           /\ down' \in Seq(Message) /\ stream' \in 0 .. MaxStreams
  <1>1. /\ results \in Seq(Completion) /\ IsInjective(results) /\ awaiting \in SUBSET Completion
        /\ IsFiniteSet(awaiting) /\ awaiting \cap ToSet(results) = {}
    BY DEF CommandsInv, TypesInv, AgentTypes, QueueInv
  <1>2. /\ SetToSeq(awaiting) \in Seq(Completion) /\ ToSet(SetToSeq(awaiting)) = awaiting
        /\ IsInjective(SetToSeq(awaiting))
    BY <1>1, SetQueue
  <1>3. /\ Requeued \in Seq(Completion) /\ ToSet(Requeued) = ToSet(results) \cup awaiting
        /\ IsInjective(Requeued)
    BY <1>1, <1>2, ConcatQueue DEF Requeued
  <1>4. stream' = 0 /\ down' = <<>> /\ results' = Requeued /\ awaiting' = {}
    BY DEF EndSession
  <1>5. <<>> \in Seq(Message) /\ 0 \in 0 .. MaxStreams
    BY EmptySeq, CommandsAssumption
  <1>6. QED  BY <1>3, <1>4, <1>5, EmptyQueue, FS_EmptySet DEF Posted, Acked

(* Streams lose answers.                                                   *)
LEMMA SentShrinks ==
    ASSUME CommandsInv, NEW S \in SUBSET Streams,
           up' = [s \in Streams |-> IF s \in S THEN <<>> ELSE up[s]]
    PROVE  up' \in [Streams -> Seq(Answer)] /\ Sent' \subseteq Sent
  <1>1. up \in [Streams -> Seq(Answer)] /\ <<>> \in Seq(Answer)
    BY EmptySeq DEF CommandsInv, TypesInv, WireTypes
  <1>2. \A s \in Streams : ToSet(up'[s]) \subseteq ToSet(up[s])
    BY EmptyQueue
  <1>3. QED  BY <1>1, <1>2 DEF Sent

LEMMA failNodeFacts ==
    ASSUME CommandsInv
    PROVE  /\ failNodeLocked(request) \in [Requests -> Request]
           /\ request' = failNodeLocked(request) => RequestsEvolve
  <1>1. request \in [Requests -> Request]
    BY DEF CommandsInv, TypesInv, ControllerTypes
  <1>2. QED  BY <1>1 DEF failNodeLocked, RequestsEvolve, Request

(* What the Controller has of the streams becomes less.                    *)
ConnectionsEnd ==
    /\ ControllerTypes' /\ RequestsEvolve /\ ConnectionInv'
    /\ up' \in [Streams -> Seq(Answer)] /\ Sent' \subseteq Sent
    /\ \A s \in Streams : outbound'[s] \in {outbound[s], <<>>}

LEMMA UnregisterFacts ==
    ASSUME CommandsInv, NEW s \in Streams, Unregister(s)
    PROVE  /\ ConnectionsEnd
           /\ \A r \in Streams : r # s => up'[r] = up[r] /\ handler'[r] = handler[r]
           /\ handler'[s] = "none"
           /\ broker # s => broker' = broker
  <1>1. up \in [Streams -> Seq(Answer)] /\ ControllerTypes /\ ConnectionInv
    BY DEF CommandsInv, TypesInv, WireTypes, StreamInv
  <1>2. /\ up' = [r \in Streams |-> IF r \in {s} THEN <<>> ELSE up[r]]
        /\ outbound' = [r \in Streams |-> IF r = s THEN <<>> ELSE outbound[r]]
        /\ handler' = [r \in Streams |-> IF r = s THEN "none" ELSE handler[r]]
        /\ peer' = [r \in Streams |-> IF r = s THEN NoKey ELSE peer[r]]
    BY <1>1 DEF Unregister, Returns, ControllerTypes
  <1>3. up' \in [Streams -> Seq(Answer)] /\ Sent' \subseteq Sent
    BY <1>2, SentShrinks
  <1>4. \/ broker = s /\ broker' = 0 /\ request' = failNodeLocked(request)
        \/ broker # s /\ UNCHANGED <<broker, request>>
    BY DEF Unregister
  <1>5. /\ request' \in [Requests -> Request] /\ RequestsEvolve
        /\ broker' \in 0 .. MaxStreams /\ broker' # s
    <2>1. s # 0 /\ 0 \in 0 .. MaxStreams
      BY CommandsAssumption DEF Streams
    <2>2. CASE broker = s
      BY <1>4, <2>1, <2>2, failNodeFacts
    <2>3. CASE broker # s
      BY <1>1, <1>4, <2>3, EvolveRefl DEF ControllerTypes
    <2>4. QED  BY <2>2, <2>3
  <1>6. ControllerTypes'
    <2>1. <<>> \in Seq(Requests) /\ Len(<<>>) <= OutboundSlots
      BY EmptySeq, CommandsAssumption
    <2>2. outbound' \in [Streams -> Seq(Requests)] /\ \A r \in Streams : Len(outbound'[r]) <= OutboundSlots
      BY <1>1, <1>2, <2>1 DEF ControllerTypes
    <2>3. /\ handler' \in [Streams -> {"none", "hello", "authorized", "recorded", "registered"}]
          /\ peer' \in [Streams -> Key \cup {NoKey}]
      BY <1>1, <1>2 DEF ControllerTypes
    <2>4. QED  BY <1>5, <2>2, <2>3 DEF ControllerTypes
  <1>7. ConnectionInv'
    <2>1. broker' # 0 => broker' = broker /\ broker' # s
      BY <1>4, <1>5
    <2>2. QED  BY <1>1, <1>2, <2>1 DEF ConnectionInv, registered
  <1>8. QED  BY <1>2, <1>3, <1>4, <1>5, <1>6, <1>7 DEF ConnectionsEnd

(* The Agent is in no stream.                                              *)
LEMMA StreamLeft ==
    ASSUME CommandsInv, stream' = 0, down' = <<>>, ConnectionInv',
           \A s \in Streams : outbound'[s] \in {outbound[s], <<>>},
           IsInjective(results'), IsFiniteSet(awaiting'), awaiting' \cap ToSet(results') = {}
    PROVE  QueueInv' /\ StreamInv' /\ Unreceived' \subseteq Unreceived
  <1>1. /\ ToSet(down') = {} /\ IsInjective(down')
        /\ \A s \in Streams : IsInjective(outbound'[s]) /\ ToSet(outbound'[s]) \subseteq ToSet(outbound[s])
    BY EmptyQueue DEF CommandsInv, QueueInv
  <1>2. \A s, t \in Streams : s # t => ToSet(outbound'[s]) \cap ToSet(outbound'[t]) = {}
    BY <1>1 DEF CommandsInv, QueueInv
  <1>3. QueueInv'
    BY <1>1, <1>2 DEF QueueInv
  <1>4. Queued' \subseteq Queued
    BY <1>1 DEF Queued
  <1>5. Acked' = {} /\ Unreceived' \subseteq Unreceived
    BY <1>1, <1>4 DEF Acked, Unreceived
  <1>6. 0 \notin Streams
    BY CommandsAssumption DEF Streams
  <1>7. StreamInv'
    BY <1>5, <1>6 DEF StreamInv, registered
  <1>8. QED  BY <1>3, <1>5, <1>7

LEMMA OpenSessionStep ==
    ASSUME CommandsInv, OpenSession
    PROVE  CommandsInv'
  <1>0. /\ stream = 0 /\ overtaken' = FALSE /\ UNCHANGED enrollment
        /\ UNCHANGED <<request, broker, outbound, up, down, process, active, step, results,
                       awaiting, planned, desired, applied, files, service, faults, changes>>
    BY DEF OpenSession, agent, state, host, bounds
  <1>1. PICK s \in Streams :
           /\ handler[s] = "none" /\ stream' = s
           /\ handler' = [handler EXCEPT ![s] = "hello"]
           /\ peer' = [peer EXCEPT ![s] = identity[NodeHost]]
    BY DEF OpenSession
  <1>2. s \in 0 .. MaxStreams /\ s # 0 /\ identity[NodeHost] \in Key \cup {NoKey}
    <2>1. EnrollmentTypeOK
      BY DEF CommandsInv, EnrollmentInv
    <2>2. QED  BY <2>1, CommandsAssumption DEF Streams, EnrollmentTypeOK
  <1>3. /\ handler \in [Streams -> {"none", "hello", "authorized", "recorded", "registered"}]
        /\ peer \in [Streams -> Key \cup {NoKey}]
    BY DEF CommandsInv, TypesInv, ControllerTypes
  <1>4. TypesInv'
    <2>1. ControllerTypes'
      BY <1>0, <1>1, <1>2, <1>3 DEF CommandsInv, TypesInv, ControllerTypes
    <2>2. WireTypes'
      BY <1>0, <1>1, <1>2 DEF CommandsInv, TypesInv, WireTypes
    <2>3. QED
      BY <1>0, <2>1, <2>2 DEF CommandsInv, TypesInv, AgentTypes, StateTypes, HostTypes, BoundTypes
  <1>5. /\ handler'[s] = "hello" /\ \A t \in Streams : t # s => handler'[t] = handler[t]
        /\ registered' = registered
    BY <1>1, <1>3 DEF registered
  <1>6. Queued' = Queued /\ Unreceived' = Unreceived /\ Posted' = Posted /\ Sent' = Sent /\ Acked' = Acked
    BY <1>0 DEF Queued, Unreceived, Posted, Sent, Acked
  <1>7. QueueInv'
    BY <1>0, <1>6 DEF CommandsInv, QueueInv
  <1>8. ConnectionInv'
    BY <1>0, <1>1, <1>5 DEF CommandsInv, StreamInv, ConnectionInv
  <1>9. StreamInv'
    <2>1. down' = <<>> /\ up'[s] = <<>>
      BY <1>0, <1>1 DEF CommandsInv, StreamInv, ConnectionInv
    <2>2. ToSet(up'[s]) = {} /\ IsInjective(up'[s])
      BY <2>1, EmptyQueue
    <2>3. s \notin registered'
      BY <1>5 DEF registered
    <2>4. \A id \in Acked' : \E c \in awaiting' : c.id = id
      BY <1>0, <1>6 DEF CommandsInv, StreamInv
    <2>5. QED  BY <1>1, <1>2, <1>5, <1>8, <2>1, <2>2, <2>3, <2>4 DEF StreamInv
  <1>10. Shrinks
    BY <1>0, <1>6 DEF Shrinks
  <1>11. QED
    BY <1>0, <1>4, <1>7, <1>9, <1>10, SameEnrollment, EvolveRefl, ShrinkStep

(* The process of the Agent ends, on any other occasion than its removal.  *)
LEMMA ExitStep ==
    ASSUME CommandsInv, Exit("down"), ConnectionsEnd, faults' \in Nat,
           UNCHANGED <<enrollment, overtaken, state, host, changes>>
    PROVE  CommandsInv'
  <1>0. /\ process' = "down" /\ stream' = 0 /\ down' = <<>> /\ active' = 0 /\ step' = "none"
        /\ results' = <<>> /\ awaiting' = {}
        /\ UNCHANGED <<planned, desired, applied, files, service>>
    BY DEF Exit, state, host
  <1>1. /\ AgentTypes' /\ Posted' = {} /\ IsInjective(results') /\ IsFiniteSet(awaiting')
        /\ down' \in Seq(Message) /\ stream' \in 0 .. MaxStreams
    BY ExitFacts
  <1>2. TypesInv'
    BY <1>0, <1>1 DEF ConnectionsEnd, CommandsInv, TypesInv, WireTypes, StateTypes, HostTypes, BoundTypes
  <1>3. QueueInv' /\ StreamInv' /\ Unreceived' \subseteq Unreceived
    BY <1>0, <1>1, StreamLeft DEF ConnectionsEnd
  <1>4. Shrinks
    BY <1>0, <1>1, <1>3 DEF Shrinks, ConnectionsEnd
  <1>5. QED
    BY <1>0, <1>2, <1>3, <1>4, SameEnrollment, ShrinkStep DEF UninstallSteps, ConnectionsEnd

(* The stream ends and the Agent goes on.                                  *)
LEMMA SessionEndStep ==
    ASSUME CommandsInv, EndSession, ConnectionsEnd, faults' \in Nat,
           UNCHANGED <<enrollment, overtaken, process, active, step, state, host, changes>>
    PROVE  CommandsInv'
  <1>0. /\ stream' = 0 /\ down' = <<>> /\ awaiting' = {}
        /\ UNCHANGED <<planned, desired, applied, files, service>>
    BY DEF EndSession, state, host
  <1>1. /\ results' \in Seq(Completion) /\ Posted' = Posted /\ IsInjective(results')
        /\ IsFiniteSet(awaiting') /\ down' \in Seq(Message) /\ stream' \in 0 .. MaxStreams
    BY EndSessionFacts
  <1>2. TypesInv'
    BY <1>0, <1>1 DEF ConnectionsEnd, CommandsInv, TypesInv, WireTypes, AgentTypes, StateTypes, HostTypes, BoundTypes
  <1>3. QueueInv' /\ StreamInv' /\ Unreceived' \subseteq Unreceived
    BY <1>0, <1>1, StreamLeft DEF ConnectionsEnd
  <1>4. Shrinks
    BY <1>1, <1>3 DEF Shrinks, ConnectionsEnd
  <1>5. QED  BY <1>0, <1>2, <1>3, <1>4, SameEnrollment, ShrinkStep DEF ConnectionsEnd

LEMMA SameController ==
    ASSUME CommandsInv, UNCHANGED <<controller, up>>
    PROVE  ConnectionsEnd
  <1>1. UNCHANGED <<request, broker, outbound, handler, peer, up>>
    BY DEF controller
  <1>2. ControllerTypes'
    BY <1>1 DEF CommandsInv, TypesInv, ControllerTypes
  <1>3. ConnectionInv'
    BY <1>1 DEF CommandsInv, StreamInv, ConnectionInv, registered
  <1>4. up' \in [Streams -> Seq(Answer)] /\ Sent' \subseteq Sent
    BY <1>1 DEF CommandsInv, TypesInv, WireTypes, Sent
  <1>5. QED  BY <1>1, <1>2, <1>3, <1>4, EvolveRefl DEF ConnectionsEnd

LEMMA BoundFacts ==
    ASSUME CommandsInv
    PROVE  /\ faults \in Nat /\ changes \in Nat
           /\ Fault => faults' \in Nat
           /\ stream # 0 => stream \in Streams
  BY CommandsAssumption DEF CommandsInv, TypesInv, BoundTypes, WireTypes, Fault, Streams

LEMMA HostStopsStep ==
    ASSUME CommandsInv, HostStops
    PROVE  CommandsInv'
  <1>1. /\ Exit("down") /\ UNCHANGED <<enrollment, controller, up, overtaken, state, host>>
        /\ UNCHANGED <<faults, changes>>
    BY DEF HostStops, bounds
  <1>2. QED  BY <1>1, SameController, BoundFacts, ExitStep

LEMMA DeauthorizeStep ==
    ASSUME CommandsInv, Deauthorize
    PROVE  CommandsInv'
  <1>1. /\ Exit("down") /\ Unregister(stream) /\ stream \in Streams
        /\ UNCHANGED <<enrollment, overtaken, state, host>>
        /\ UNCHANGED <<faults, changes>>
    BY DEF Deauthorize, bounds, registered
  <1>2. faults' \in Nat
    BY <1>1, BoundFacts
  <1>3. QED  BY <1>1, <1>2, UnregisterFacts, ExitStep

LEMMA RefuseResultStep ==
    ASSUME CommandsInv, NEW s \in Streams, RefuseResult(s)
    PROVE  CommandsInv'
  <1>1. /\ Exit("down") /\ Unregister(s) /\ Fault
        /\ UNCHANGED <<enrollment, overtaken, state, host, changes>>
    BY DEF RefuseResult
  <1>2. faults' \in Nat
    BY <1>1, BoundFacts
  <1>3. QED  BY <1>1, <1>2, UnregisterFacts, ExitStep

LEMMA AgentCrashStep ==
    ASSUME CommandsInv, AgentCrash
    PROVE  CommandsInv'
  <1>1. /\ Exit("down") /\ Fault /\ UNCHANGED <<enrollment, controller, up, overtaken, state, host, changes>>
    BY DEF AgentCrash
  <1>2. faults' \in Nat
    BY <1>1, BoundFacts
  <1>3. QED  BY <1>1, <1>2, SameController, ExitStep

LEMMA DisconnectStep ==
    ASSUME CommandsInv, Disconnect \/ ReceiveExpired
    PROVE  CommandsInv'
  <1>1. /\ EndSession /\ Fault
        /\ UNCHANGED <<enrollment, controller, up, overtaken, process, active, step, state, host, changes>>
    BY DEF Disconnect, ReceiveExpired
  <1>2. faults' \in Nat
    BY <1>1, BoundFacts
  <1>3. QED  BY <1>1, <1>2, SameController, SessionEndStep

LEMMA ControllerCrashStep ==
    ASSUME CommandsInv, ControllerCrash
    PROVE  CommandsInv'
  <1>1. /\ EndSession /\ Fault
        /\ broker' = 0 /\ outbound' = [s \in Streams |-> <<>>]
        /\ handler' = [s \in Streams |-> "none"] /\ peer' = [s \in Streams |-> NoKey]
        /\ up' = [s \in Streams |-> <<>>]
        /\ UNCHANGED <<enrollment, overtaken, process, active, step, state, host, changes>>
    BY DEF ControllerCrash
  <1>2. faults' \in Nat
    BY <1>1, BoundFacts
  <1>3. up' = [s \in Streams |-> IF s \in Streams THEN <<>> ELSE up[s]]
    BY <1>1
  <1>4. up' \in [Streams -> Seq(Answer)] /\ Sent' \subseteq Sent
    BY <1>3, SentShrinks
  <1>5. request' \in [Requests -> Request] /\ RequestsEvolve
    <2>1. request \in [Requests -> Request]
      BY DEF CommandsInv, TypesInv, ControllerTypes
    <2>2. request' = [r \in Requests |->
             IF request[r].at \in {"retiring", "pending", "answered", "lost"}
             THEN [request[r] EXCEPT !.at = "crashed"] ELSE request[r]]
      BY DEF ControllerCrash
    <2>3. QED  BY <2>1, <2>2 DEF Request, RequestsEvolve
  <1>6. <<>> \in Seq(Requests) /\ Len(<<>>) = 0
    BY EmptySeq
  <1>7. ControllerTypes' /\ ConnectionInv'
    BY <1>1, <1>5, <1>6, CommandsAssumption DEF ControllerTypes, ConnectionInv
  <1>8. ConnectionsEnd
    BY <1>1, <1>4, <1>5, <1>7 DEF ConnectionsEnd
  <1>9. QED  BY <1>1, <1>2, <1>8, SessionEndStep

(* The handler of a stream that is not the Agent's returns.                *)
LEMMA LeftStep ==
    ASSUME CommandsInv, NEW s \in Streams, s # stream, Unregister(s),
           UNCHANGED <<enrollment, down, stream, overtaken, agent, state, host, bounds>>
    PROVE  CommandsInv'
  <1>0. UNCHANGED <<down, stream, overtaken, process, active, step, results, awaiting, planned,
                    desired, applied, files, service, faults, changes>>
    BY DEF agent, state, host, bounds
  <1>1. /\ ConnectionsEnd /\ handler'[s] = "none"
        /\ \A r \in Streams : r # s => up'[r] = up[r] /\ handler'[r] = handler[r]
        /\ broker # s => broker' = broker
    BY UnregisterFacts
  <1>2. /\ ControllerTypes' /\ RequestsEvolve /\ ConnectionInv'
        /\ up' \in [Streams -> Seq(Answer)] /\ Sent' \subseteq Sent
        /\ \A r \in Streams : outbound'[r] \in {outbound[r], <<>>}
    BY <1>1 DEF ConnectionsEnd
  <1>3. TypesInv'
    BY <1>0, <1>2 DEF CommandsInv, TypesInv, WireTypes, AgentTypes, StateTypes, HostTypes, BoundTypes
  <1>4. \A r \in Streams : IsInjective(outbound'[r]) /\ ToSet(outbound'[r]) \subseteq ToSet(outbound[r])
    BY <1>2, EmptyQueue DEF CommandsInv, QueueInv
  <1>5. Queued' \subseteq Queued
    BY <1>4 DEF Queued
  <1>6. QueueInv'
    <2>1. \A r, t \in Streams : r # t => ToSet(outbound'[r]) \cap ToSet(outbound'[t]) = {}
      BY <1>4 DEF CommandsInv, QueueInv
    <2>2. QED  BY <1>0, <1>4, <1>5, <2>1 DEF CommandsInv, QueueInv
  <1>7. Unreceived' \subseteq Unreceived /\ Posted' = Posted /\ Acked' = Acked
    BY <1>0, <1>5 DEF Unreceived, Posted, Acked
  <1>8. StreamInv'
    <2>1. stream # 0 => /\ stream \in Streams /\ up'[stream] = up[stream]
                        /\ handler'[stream] = handler[stream]
      BY <1>1, BoundFacts
    <2>2. stream \in registered' /\ ~ overtaken' => broker' = stream
      BY <1>0, <1>1 DEF CommandsInv, StreamInv, registered
    <2>3. QED  BY <1>0, <1>2, <1>7, <2>1, <2>2 DEF CommandsInv, StreamInv
  <1>9. Shrinks
    BY <1>0, <1>2, <1>7 DEF Shrinks
  <1>10. QED  BY <1>0, <1>2, <1>3, <1>6, <1>8, <1>9, SameEnrollment, ShrinkStep

LEMMA CloseHandlerStep ==
    ASSUME CommandsInv, NEW s \in Streams, CloseHandler(s)
    PROVE  CommandsInv'
  BY LeftStep DEF CloseHandler

-----------------------------------------------------------------------------
(* The handler of a stream on its way to Register.                         *)

(* Only the handler of stream s changes, and perhaps whom the broker       *)
(* knows.                                                                  *)
LEMMA AdvanceStep ==
    ASSUME CommandsInv, NEW s \in Streams, NEW from \in {"hello", "authorized", "recorded"},
           NEW to \in {"authorized", "recorded", "registered"}, Advances(s, from, to),
           EnrollmentInv', NodeKept, request' \in [Requests -> Request], RequestsEvolve,
           \/ broker' = broker /\ overtaken' = overtaken /\ to # "registered"
           \/ broker' = s /\ overtaken' = (overtaken \/ stream \in registered) /\ to = "registered"
    PROVE  CommandsInv'
  <1>0. /\ handler[s] = from /\ handler' = [handler EXCEPT ![s] = to]
        /\ UNCHANGED <<outbound, peer, up, down, stream, process, active, step, results, awaiting,
                       planned, desired, applied, files, service, faults, changes>>
    BY DEF Advances, agent, state, host, bounds
  <1>1. /\ handler \in [Streams -> {"none", "hello", "authorized", "recorded", "registered"}]
        /\ broker \in 0 .. MaxStreams /\ s \in 0 .. MaxStreams /\ overtaken \in BOOLEAN
        /\ s # 0
    BY CommandsAssumption DEF CommandsInv, TypesInv, ControllerTypes, WireTypes, Streams
  <1>2. TypesInv'
    <2>1. ControllerTypes'
      BY <1>0, <1>1 DEF CommandsInv, TypesInv, ControllerTypes
    <2>2. WireTypes'
      BY <1>0, <1>1 DEF CommandsInv, TypesInv, WireTypes
    <2>3. QED
      BY <1>0, <2>1, <2>2 DEF CommandsInv, TypesInv, AgentTypes, StateTypes, HostTypes, BoundTypes
  <1>3. /\ handler'[s] = to /\ to # "none" /\ \A t \in Streams : t # s => handler'[t] = handler[t]
        /\ s \notin registered
    BY <1>0, <1>1 DEF registered
  <1>4. Queued' = Queued /\ Unreceived' = Unreceived /\ Posted' = Posted /\ Sent' = Sent /\ Acked' = Acked
    BY <1>0 DEF Queued, Unreceived, Posted, Sent, Acked
  <1>5. QueueInv'
    BY <1>0, <1>4 DEF CommandsInv, QueueInv
  <1>6. ConnectionInv'
    BY <1>0, <1>1, <1>3 DEF CommandsInv, StreamInv, ConnectionInv, registered
  <1>7. stream \in registered' /\ ~ overtaken' => broker' = stream
    BY <1>0, <1>1, <1>3 DEF CommandsInv, StreamInv, registered
  <1>8. StreamInv'
    <2>1. stream # 0 => stream \in Streams /\ handler'[stream] # "none"
      BY <1>3, BoundFacts DEF CommandsInv, StreamInv
    <2>2. QED  BY <1>0, <1>4, <1>6, <1>7, <2>1 DEF CommandsInv, StreamInv
  <1>9. Shrinks
    BY <1>0, <1>4 DEF Shrinks
  <1>10. QED  BY <1>0, <1>2, <1>5, <1>8, <1>9, ShrinkStep

LEMMA SameRequests ==
    ASSUME CommandsInv, UNCHANGED request
    PROVE  request' \in [Requests -> Request] /\ RequestsEvolve
  BY EvolveRefl DEF CommandsInv, TypesInv, ControllerTypes

LEMMA AuthorizeHelloStep ==
    ASSUME CommandsInv, NEW s \in Streams, AuthorizeHello(s)
    PROVE  CommandsInv'
  <1>1. CASE Advances(s, "hello", "authorized") /\ UNCHANGED <<enrollment, request, broker, overtaken>>
    BY <1>1, SameEnrollment, SameRequests, AdvanceStep
  <1>2. CASE /\ Unregister(s) /\ UNCHANGED <<enrollment, overtaken, state, host, bounds>>
             /\ IF s = stream THEN Exit("down") ELSE UNCHANGED <<down, stream, agent>>
    <2>1. faults' \in Nat /\ UNCHANGED changes
      BY <1>2, BoundFacts DEF bounds
    <2>2. CASE s = stream
      BY <1>2, <2>1, <2>2, UnregisterFacts, ExitStep
    <2>3. CASE s # stream
      BY <1>2, <2>3, LeftStep
    <2>4. QED  BY <2>2, <2>3
  <1>3. QED  BY <1>1, <1>2 DEF AuthorizeHello

LEMMA RecordsHelloStep ==
    ASSUME CommandsInv, NEW s \in Streams, RecordsHello(s)
    PROVE  CommandsInv'
  <1>1. CASE /\ RecordHello /\ Advances(s, "authorized", "recorded")
             /\ UNCHANGED <<request, broker, overtaken>>
    <2>1. EnrollmentInv /\ node \in NodeRow
      BY RowTypes DEF CommandsInv
    <2>2. EnrollmentInv'
      BY <1>1, <2>1, HelloStep
    <2>3. NodeKept
      BY <1>1, <2>1 DEF RecordHello, NodeKept, NodeRow
    <2>4. QED  BY <1>1, <2>2, <2>3, SameRequests, AdvanceStep
  <1>2. CASE /\ Unregister(s)
             /\ IF s = stream THEN EndSession ELSE UNCHANGED <<down, stream, results, awaiting>>
             /\ UNCHANGED <<enrollment, overtaken, process, active, step, state, host, bounds>>
    <2>1. faults' \in Nat /\ UNCHANGED changes
      BY <1>2, BoundFacts DEF bounds
    <2>2. CASE s = stream
      BY <1>2, <2>1, <2>2, UnregisterFacts, SessionEndStep
    <2>3. CASE s # stream
      BY <1>2, <2>3, LeftStep DEF agent
    <2>4. QED  BY <2>2, <2>3
  <1>3. QED  BY <1>1, <1>2 DEF RecordsHello

LEMMA RegisterStep ==
    ASSUME CommandsInv, NEW s \in Streams, Register(s)
    PROVE  CommandsInv'
  <1>1. /\ Advances(s, "recorded", "registered") /\ broker' = s
        /\ request' = IF broker # 0 THEN failNodeLocked(request) ELSE request
        /\ overtaken' = (overtaken \/ stream \in registered) /\ UNCHANGED enrollment
    BY DEF Register
  <1>2. request' \in [Requests -> Request] /\ RequestsEvolve
    BY <1>1, failNodeFacts, SameRequests
  <1>3. QED  BY <1>1, <1>2, SameEnrollment, AdvanceStep

-----------------------------------------------------------------------------
(* The management handlers and the broker.                                 *)

(* A request that the Agent cannot know of yet.                            *)
LEMMA FreshStep ==
    ASSUME CommandsInv, NEW r \in Requests, request[r].at \notin Dispatched, node.seen = TRUE,
           NEW q \in Request, request' = [request EXCEPT ![r] = q],
           q.at \in {"retiring", "pending", "refused"},
           Unreceived' \subseteq Unreceived \cup {r}, r \in Unreceived' => q.at = "pending",
           Posted' = Posted, Sent' = Sent,
           UNCHANGED <<node, active, step, process, applied, files, service>>
    PROVE  ResultInv' /\ RequestInv' /\ RemovedInv' /\ UpgradeInv' /\ UnusedInv'
  <1>1. /\ request'[r] = q /\ \A id \in Requests : id # r => request'[id] = request[id]
        /\ request \in [Requests -> Request]
    BY DEF CommandsInv, TypesInv, ControllerTypes
  <1>2. r # active /\ (\A c \in Posted : c.id # r) /\ \A m \in Sent : m.id # r
    BY DispatchedFacts, PlaceTypes DEF CommandsInv
  <1>3. KindsKept
    BY <1>1 DEF KindsKept
  <1>4. UpgradeInv' /\ UnusedInv'
    BY <1>3, UpgradeKept, UnusedKept
  <1>5. ResultInv'
    <2>1. ResultInv
      BY DEF CommandsInv
    <2>2. active' \notin Unreceived'
      BY <1>2, <2>1 DEF ResultInv
    <2>3. \A id \in Requests : id \in Unreceived' \/ Running(id)' =>
              /\ \A c \in Posted' : c.id # id
              /\ \A m \in Sent' : m.id # id
      BY <1>2, <2>1 DEF ResultInv, Running
    <2>4. QED  BY <2>1, <2>2, <2>3 DEF ResultInv
  <1>6. RequestInv'
    <2>1. RequestInv
      BY DEF CommandsInv
    <2>2. \A id \in Requests :
          id \in Unreceived' \/ id = active' \/ (\E c \in Posted' : c.id = id) \/ (\E m \in Sent' : m.id = id)
             => request'[id].at \in Dispatched
      BY <1>1, <1>2, <2>1 DEF RequestInv, Dispatched
    <2>3. \A id \in Requests :
          /\ request'[id].at \notin {"idle", "unused"} => node'.seen
          /\ request'[id].at = "revoked" => node'.revoked
      BY <1>1, <2>1 DEF RequestInv
    <2>4. ASSUME NEW id \in Requests, request'[id].kind = "uninstall"
          PROVE  /\ request'[id].at # "succeeded"
                 /\ request'[id].at = "failed" => ~ request'[id].ok
                 /\ request'[id].at \in {"answered", "failed"} =>
                       /\ id \notin Unreceived' /\ ~ Running(id)'
                       /\ \A c \in Posted' : c.id = id => c.ok = request'[id].ok
      <3>1. CASE id = r
        BY <1>1, <3>1
      <3>2. CASE id # r
        BY <1>1, <2>1, <2>4, <3>2 DEF RequestInv, Running
      <3>3. QED  BY <3>1, <3>2
    <2>5. QED  BY <2>2, <2>3, <2>4 DEF RequestInv
  <1>7. RemovedInv'
    <2>1. \A id \in Requests : Removing(id) => id # r
      BY DEF Removing, Dispatched
    <2>2. \A id \in Requests : Removing(id) => Removing(id)'
      BY <1>1, <2>1 DEF Removing
    <2>3. QED  BY <2>2 DEF CommandsInv, RemovedInv
  <1>8. QED  BY <1>4, <1>5, <1>6, <1>7

LEMMA DispatchStep ==
    ASSUME CommandsInv, NEW r \in Requests, NEW kind \in Kinds,
           request[r].at \in {"idle", "retiring"}, node.seen = TRUE, Dispatch(r, kind),
           faults' \in Nat,
           UNCHANGED <<enrollment, broker, handler, peer, wires, agent, state, host, changes>>
    PROVE  CommandsInv'
  <1>0. /\ UNCHANGED <<broker, handler, peer, up, down, stream, overtaken, process, active, step,
                       results, awaiting, planned, desired, applied, files, service, node>>
    BY DEF wires, agent, state, host, enrollment
  <1>1. /\ outbound \in [Streams -> Seq(Requests)] /\ request \in [Requests -> Request]
        /\ \A s \in Streams : Len(outbound[s]) <= OutboundSlots
    BY DEF CommandsInv, TypesInv, ControllerTypes
  <1>2. request[r].at \notin Dispatched
    BY DEF Dispatched
  <1>3. r \notin Unreceived
    BY <1>2, DispatchedFacts
  <1>4. Posted' = Posted /\ Sent' = Sent /\ Acked' = Acked /\ registered' = registered
    BY <1>0 DEF Posted, Sent, Acked, registered
  <1> DEFINE q(at) == [kind |-> kind, ok |-> FALSE, at |-> at]
  <1>5. CASE broker # 0 /\ Len(outbound[broker]) < OutboundSlots
    <2>1. /\ request' = [request EXCEPT ![r] = q("pending")]
          /\ outbound' = [outbound EXCEPT ![broker] = Append(outbound[broker], r)]
      BY <1>5 DEF Dispatch
    <2>2. q("pending") \in Request /\ q("pending").at = "pending"
      BY DEF Request
    <2> HIDE DEF q
    <2>3. broker \in Streams /\ handler[broker] = "registered"
      BY <1>5 DEF CommandsInv, StreamInv, ConnectionInv, registered
    <2>4. outbound[broker] \in Seq(Requests) /\ Len(outbound[broker]) \in Nat
      BY <1>1, <2>3, LenProperties
    <2>5. \A s \in Streams : r \notin ToSet(outbound[s])
      BY <1>3 DEF Unreceived, Queued
    <2>6. /\ Append(outbound[broker], r) \in Seq(Requests)
          /\ Len(Append(outbound[broker], r)) = Len(outbound[broker]) + 1
          /\ ToSet(Append(outbound[broker], r)) = ToSet(outbound[broker]) \cup {r}
          /\ IsInjective(Append(outbound[broker], r))
      BY <2>3, <2>4, <2>5, AppendQueue DEF CommandsInv, QueueInv
    <2>7. /\ outbound' \in [Streams -> Seq(Requests)]
          /\ Len(outbound'[broker]) = Len(outbound[broker]) + 1
          /\ ToSet(outbound'[broker]) = ToSet(outbound[broker]) \cup {r}
          /\ IsInjective(outbound'[broker])
          /\ \A s \in Streams : s # broker => outbound'[s] = outbound[s]
      BY <1>1, <2>1, <2>3, <2>6
    <2>8. Queued' \subseteq Queued \cup {r}
      BY <2>3, <2>7 DEF Queued
    <2>9. Unreceived' \subseteq Unreceived \cup {r}
      BY <1>0, <2>8 DEF Unreceived
    <2>10. ResultInv' /\ RequestInv' /\ RemovedInv' /\ UpgradeInv' /\ UnusedInv'
      BY <1>0, <1>2, <1>4, <2>1, <2>2, <2>9, FreshStep
    <2>11. TypesInv'
      <3>1. \A s \in Streams : Len(outbound'[s]) <= OutboundSlots
        <4>1. OutboundSlots \in Nat
          BY CommandsAssumption
        <4>2. Len(outbound'[broker]) <= OutboundSlots
          BY <1>5, <2>4, <2>7, <4>1
        <4>3. QED  BY <1>1, <2>7, <4>2
      <3>2. request' \in [Requests -> Request]
        BY <1>1, <2>1, <2>2
      <3>3. QED
        BY <1>0, <2>7, <3>1, <3>2
           DEF CommandsInv, TypesInv, ControllerTypes, WireTypes, AgentTypes, StateTypes,
               HostTypes, BoundTypes
    <2>12. QueueInv'
      <3>1. \A s \in Streams : IsInjective(outbound'[s])
        BY <2>7 DEF CommandsInv, QueueInv
      <3>2. \A s, u \in Streams : s # u => ToSet(outbound'[s]) \cap ToSet(outbound'[u]) = {}
        <4>1. \A s, u \in Streams : s # u => ToSet(outbound[s]) \cap ToSet(outbound[u]) = {}
          BY DEF CommandsInv, QueueInv
        <4>2. \A s \in Streams : s # broker =>
                 ToSet(outbound'[s]) \cap ToSet(outbound'[broker]) = {}
          BY <2>3, <2>5, <2>7, <4>1
        <4>3. QED  BY <2>7, <4>1, <4>2
      <3>3. [event |-> "command", id |-> r] \notin ToSet(down)
        BY <1>3 DEF Unreceived
      <3>4. QED  BY <1>0, <2>8, <3>1, <3>2, <3>3 DEF CommandsInv, QueueInv
    <2>13. StreamInv'
      <3>1. ConnectionInv'
        BY <1>0, <1>4, <2>3, <2>7 DEF CommandsInv, StreamInv, ConnectionInv
      <3>2. QED  BY <1>0, <1>4, <3>1 DEF CommandsInv, StreamInv
    <2>14. QED  BY <2>10, <2>11, <2>12, <2>13, SameEnrollment DEF CommandsInv
  <1>6. CASE ~(broker # 0 /\ Len(outbound[broker]) < OutboundSlots)
    <2>1. request' = [request EXCEPT ![r] = q("refused")] /\ outbound' = outbound
      BY <1>6 DEF Dispatch
    <2>2. q("refused") \in Request /\ q("refused").at = "refused"
      BY DEF Request
    <2> HIDE DEF q
    <2>3. QueueInv' /\ StreamInv' /\ Unreceived' = Unreceived
      BY <1>0, <2>1, PipeSame
    <2>4. ResultInv' /\ RequestInv' /\ RemovedInv' /\ UpgradeInv' /\ UnusedInv'
      BY <1>0, <1>2, <1>3, <1>4, <2>1, <2>2, <2>3, FreshStep
    <2>5. TypesInv'
      <3>1. request' \in [Requests -> Request]
        BY <1>1, <2>1, <2>2
      <3>2. QED
        BY <1>0, <1>1, <2>1, <3>1
           DEF CommandsInv, TypesInv, ControllerTypes, WireTypes, AgentTypes, StateTypes,
               HostTypes, BoundTypes
    <2>6. QED  BY <2>3, <2>4, <2>5, SameEnrollment DEF CommandsInv
  <1>7. QED  BY <1>5, <1>6

LEMMA CommandStep ==
    ASSUME CommandsInv, NEW r \in Requests, NEW kind \in {"check", "upgrade"}, Command(r, kind)
    PROVE  CommandsInv'
  <1>1. /\ request[r].at = "idle" /\ node.seen = TRUE /\ Dispatch(r, kind) /\ kind \in Kinds
        /\ UNCHANGED <<enrollment, broker, handler, peer, wires, agent, state, host>>
        /\ UNCHANGED <<faults, changes>>
    BY RowTypes DEF Command, Arrives, Active, Kinds, bounds, CommandsInv, NodeRow
  <1>2. QED  BY <1>1, BoundFacts, DispatchStep

LEMMA UninstallNodeStep ==
    ASSUME CommandsInv, NEW r \in Requests, UninstallNode(r)
    PROVE  CommandsInv'
  <1> DEFINE q == [request[r] EXCEPT !.kind = "uninstall", !.at = "retiring"]
  <1>0. /\ request[r].at = "idle" /\ node.seen = TRUE
        /\ request' = [request EXCEPT ![r].kind = "uninstall", ![r].at = "retiring"]
        /\ desired' = FALSE
        /\ UNCHANGED <<broker, outbound, handler, peer, up, down, stream, overtaken, process, active,
                       step, results, awaiting, planned, applied, files, service, faults,
                       changes, node>>
        /\ UNCHANGED enrollment
    BY RowTypes DEF UninstallNode, Arrives, Active, wires, agent, host, bounds, enrollment, CommandsInv, NodeRow
  <1>1. request \in [Requests -> Request]
    BY DEF CommandsInv, TypesInv, ControllerTypes
  <1>2. q \in Request /\ q.at = "retiring" /\ request' = [request EXCEPT ![r] = q]
    BY <1>0, <1>1 DEF Request, Kinds
  <1> HIDE DEF q
  <1>3. QueueInv' /\ StreamInv' /\ Unreceived' = Unreceived /\ Posted' = Posted /\ Sent' = Sent
    BY <1>0, PipeSame
  <1>4. request[r].at \notin Dispatched
    BY <1>0 DEF Dispatched
  <1>5. r \notin Unreceived
    BY <1>4, DispatchedFacts
  <1>6. ResultInv' /\ RequestInv' /\ RemovedInv' /\ UpgradeInv' /\ UnusedInv'
    BY <1>0, <1>2, <1>3, <1>4, <1>5, FreshStep
  <1>7. TypesInv'
    <2>1. ControllerTypes' /\ WireTypes' /\ AgentTypes'
      BY <1>0, <1>1, <1>2 DEF CommandsInv, TypesInv, ControllerTypes, WireTypes, AgentTypes
    <2>2. StateTypes' /\ HostTypes' /\ BoundTypes'
      BY <1>0 DEF CommandsInv, TypesInv, StateTypes, HostTypes, BoundTypes
    <2>3. QED  BY <2>1, <2>2 DEF TypesInv
  <1>8. QED  BY <1>0, <1>3, <1>6, <1>7, SameEnrollment DEF CommandsInv

(* A request changes on its own, and nothing else but the faults.          *)
LEMMA EvolveStep ==
    ASSUME CommandsInv, RequestsEvolve, request' \in [Requests -> Request], faults' \in Nat,
           UNCHANGED <<enrollment, broker, outbound, handler, peer, wires, agent, state, host, changes>>
    PROVE  CommandsInv'
  <1>0. UNCHANGED <<broker, outbound, handler, peer, up, down, stream, overtaken, process, active, step,
                    results, awaiting, planned, desired, applied, files, service>>
    BY DEF wires, agent, state, host
  <1>1. QueueInv' /\ StreamInv' /\ Shrinks
    BY <1>0, PipeSame DEF Shrinks
  <1>2. TypesInv'
    BY <1>0 DEF CommandsInv, TypesInv, ControllerTypes, WireTypes, AgentTypes, StateTypes,
                HostTypes, BoundTypes
  <1>3. QED  BY <1>0, <1>1, <1>2, SameEnrollment, ShrinkStep

LEMMA RequestMoves ==
    ASSUME CommandsInv, NEW r \in Requests,
           NEW at \in {"refused", "timeout", "revoked", "unsaved", "succeeded", "failed"},
           request' = [request EXCEPT ![r].at = at]
    PROVE  /\ request' \in [Requests -> Request]
           /\ request'[r].at = at /\ request'[r].kind = request[r].kind /\ request'[r].ok = request[r].ok
           /\ \A id \in Requests : id # r => request'[id] = request[id]
  BY DEF CommandsInv, TypesInv, ControllerTypes, Request

LEMMA waitForRetiredNodeStep ==
    ASSUME CommandsInv, NEW r \in Requests, waitForRetiredNode(r)
    PROVE  CommandsInv'
  <1>0. /\ request[r].at = "retiring"
        /\ UNCHANGED <<enrollment, broker, handler, peer, wires, agent, state, host, changes>>
    BY DEF waitForRetiredNode
  <1>1. CASE Dispatch(r, "uninstall") /\ UNCHANGED faults
    <2>1. node.seen = TRUE
      BY <1>0, RowTypes DEF CommandsInv, RequestInv, NodeRow
    <2>2. "uninstall" \in Kinds
      BY DEF Kinds
    <2>3. QED  BY <1>0, <1>1, <2>1, <2>2, BoundFacts, DispatchStep
  <1>2. CASE Fault /\ request' = [request EXCEPT ![r].at = "refused"] /\ UNCHANGED outbound
    <2>1. RequestsEvolve /\ request' \in [Requests -> Request]
      BY <1>0, <1>2, RequestMoves DEF RequestsEvolve
    <2>2. QED  BY <1>0, <1>2, <2>1, BoundFacts, EvolveStep
  <1>3. QED  BY <1>1, <1>2 DEF waitForRetiredNode

LEMMA TimeoutStep ==
    ASSUME CommandsInv, NEW r \in Requests, Timeout(r)
    PROVE  CommandsInv'
  <1>1. RequestsEvolve /\ request' \in [Requests -> Request]
    BY RequestMoves DEF RequestsEvolve, Timeout
  <1>2. QED  BY <1>1, BoundFacts, EvolveStep DEF Timeout

(* The handler of request r returns.                                       *)
LEMMA RespondStep ==
    ASSUME CommandsInv, NEW r \in Requests, Respond(r)
    PROVE  CommandsInv'
  <1>0. /\ request[r].at \in {"answered", "lost"}
        /\ UNCHANGED <<pending, identity, made, wiped, attempt, requests, reply, installs, broker,
                       outbound, handler, peer, up, down, stream, overtaken, process, active, step,
                       results, awaiting, planned, desired, applied, files, service, changes>>
    BY DEF Respond, wires, agent, state, host
  <1>1. /\ EnrollmentInv /\ RequestInv /\ request \in [Requests -> Request]
        /\ node \in NodeRow
    BY RowTypes DEF CommandsInv, TypesInv, ControllerTypes
  <1>2. node.seen = TRUE
    BY <1>0, <1>1 DEF RequestInv, NodeRow
  <1>3. PICK at \in {"revoked", "unsaved", "succeeded", "failed"} :
           /\ request' = [request EXCEPT ![r].at = at]
           /\ EnrollmentInv' /\ NodeKept /\ faults' \in Nat
           /\ at = "revoked" => node'.revoked = TRUE
           /\ at \in {"succeeded", "failed"} => ~ Revokes(r)
           /\ at = "succeeded" => request[r].ok
           /\ at = "failed" => ~ request[r].ok
    <2>1. CASE Revokes(r) /\ RevokeNodeTx /\ request' = [request EXCEPT ![r].at = "revoked"] /\ UNCHANGED faults
      <3>1. node' = [node EXCEPT !.revoked = TRUE]
        BY <2>1 DEF RevokeNodeTx
      <3>2. EnrollmentInv'
        BY <1>0, <1>1, <2>1, RevokeStep
      <3>3. NodeKept /\ node'.revoked = TRUE
        BY <1>1, <3>1 DEF NodeKept, NodeRow
      <3>4. QED  BY <2>1, <3>2, <3>3, BoundFacts
    <2>2. CASE /\ Revokes(r) /\ Fault /\ request' = [request EXCEPT ![r].at = "unsaved"]
               /\ UNCHANGED <<node, keys, tokens>>
      <3>1. EnrollmentInv' /\ NodeKept
        BY <1>0, <2>2, SameEnrollment DEF enrollment
      <3>2. QED  BY <2>2, <3>1, BoundFacts
    <2>3. CASE /\ ~ Revokes(r)
               /\ request' = [request EXCEPT ![r].at = IF request[r].ok THEN "succeeded" ELSE "failed"]
               /\ UNCHANGED <<node, keys, tokens, faults>>
      <3>1. EnrollmentInv' /\ NodeKept
        BY <1>0, <2>3, SameEnrollment DEF enrollment
      <3>2. QED  BY <2>3, <3>1, BoundFacts
    <2>4. QED  BY <2>1, <2>2, <2>3 DEF Respond
  <1>4. /\ request' \in [Requests -> Request]
        /\ request'[r].at = at /\ request'[r].kind = request[r].kind /\ request'[r].ok = request[r].ok
        /\ \A id \in Requests : id # r => request'[id] = request[id]
    BY <1>3, RequestMoves
  <1>5. TypesInv'
    BY <1>0, <1>3, <1>4 DEF CommandsInv, TypesInv, ControllerTypes, WireTypes, AgentTypes,
                            StateTypes, HostTypes, BoundTypes
  <1>6. /\ QueueInv' /\ StreamInv' /\ Shrinks
        /\ Unreceived' = Unreceived /\ Posted' = Posted /\ Sent' = Sent
    BY <1>0, PipeSame DEF Shrinks
  <1>7. ResultInv'
    BY <1>6, ShrinkResult
  <1>8. KindsKept
    BY <1>4 DEF KindsKept
  <1>9. UpgradeInv' /\ UnusedInv'
    BY <1>0, <1>6, <1>8, UpgradeKept, UnusedKept
  <1>10. RequestInv'
    <2>1. \A id \in Requests : request[id].at \in Dispatched => request'[id].at \in Dispatched
      BY <1>3, <1>4 DEF Dispatched
    <2>2. \A id \in Requests :
          id \in Unreceived' \/ id = active' \/ (\E c \in Posted' : c.id = id) \/ (\E m \in Sent' : m.id = id)
             => request'[id].at \in Dispatched
      BY <1>0, <1>1, <1>6, <2>1 DEF RequestInv
    <2>3. node'.seen = TRUE
      BY <1>2, <1>3 DEF NodeKept
    <2>4. ASSUME NEW id \in Requests, request'[id].at = "revoked" PROVE node'.revoked
      <3>1. CASE id = r
        BY <1>3, <1>4, <2>4, <3>1
      <3>2. CASE id # r
        BY <1>1, <1>2, <1>3, <1>4, <2>4, <3>2 DEF RequestInv, NodeKept, NodeRow
      <3>3. QED  BY <3>1, <3>2
    <2>5. ASSUME NEW id \in Requests, request'[id].kind = "uninstall"
          PROVE  /\ request'[id].at # "succeeded"
                 /\ request'[id].at = "failed" => ~ request'[id].ok
                 /\ request'[id].at \in {"answered", "failed"} =>
                       /\ id \notin Unreceived' /\ ~ Running(id)'
                       /\ \A c \in Posted' : c.id = id => c.ok = request'[id].ok
      <3>1. CASE id = r
        <4>1. at \in {"succeeded", "failed"} => request[r].at = "answered" /\ at = "failed"
          BY <1>0, <1>3, <1>4, <2>5, <3>1 DEF Revokes
        <4>2. request[r].at = "answered" =>
                 /\ r \notin Unreceived' /\ ~ Running(r)'
                 /\ \A c \in Posted' : c.id = r => c.ok = request'[r].ok
          BY <1>0, <1>1, <1>4, <1>6, <2>5, <3>1 DEF RequestInv, Running
        <4>3. QED  BY <1>3, <1>4, <3>1, <4>1, <4>2
      <3>2. CASE id # r
        BY <1>0, <1>1, <1>4, <1>6, <2>5, <3>2 DEF RequestInv, Running
      <3>3. QED  BY <3>1, <3>2
    <2>6. QED  BY <2>2, <2>3, <2>4, <2>5 DEF RequestInv
  <1>11. RemovedInv'
    <2> SUFFICES ASSUME process = "gone"
                 PROVE  node'.seen /\ (node'.revoked \/ \E id \in Requests : Removing(id)')
      BY <1>0 DEF RemovedInv
    <2>1. node.revoked = TRUE \/ \E id \in Requests : Removing(id)
      BY DEF CommandsInv, RemovedInv
    <2>2. ASSUME NEW id \in Requests, Removing(id)
          PROVE  Removing(id)' \/ node'.revoked = TRUE
      <3>1. CASE id # r
        BY <1>0, <1>4, <1>6, <2>2, <3>1 DEF Removing
      <3>2. CASE id = r
        <4>1. at \in {"revoked", "unsaved"}
          BY <1>0, <1>3, <2>2, <3>2 DEF Removing, Revokes
        <4>2. at = "unsaved" => Removing(id)'
          BY <1>0, <1>4, <1>6, <2>2, <3>2 DEF Removing
        <4>3. QED  BY <1>3, <4>1, <4>2
      <3>3. QED  BY <3>1, <3>2
    <2>3. QED  BY <1>2, <1>3, <2>1, <2>2 DEF NodeKept
  <1>12. QED  BY <1>3, <1>5, <1>6, <1>7, <1>9, <1>10, <1>11 DEF CommandsInv

(* The handler of stream s hands over the first command of its queue.      *)
LEMMA SendCommandStep ==
    ASSUME CommandsInv, NEW s \in Streams, SendCommand(s)
    PROVE  CommandsInv'
  <1> DEFINE h == Head(outbound[s])
             m == [event |-> "command", id |-> h]
  <1>0. /\ outbound[s] # <<>> /\ outbound' = [outbound EXCEPT ![s] = Tail(outbound[s])]
        /\ down' = IF s = stream THEN Append(down, m) ELSE down
        /\ UNCHANGED <<request, broker, handler, peer, up, stream, overtaken, process, active, step,
                       results, awaiting, planned, desired, applied, files, service, faults,
                       changes>>
        /\ UNCHANGED enrollment
    BY DEF SendCommand, agent, state, host, bounds
  <1>1. /\ outbound \in [Streams -> Seq(Requests)] /\ outbound[s] \in Seq(Requests)
        /\ down \in Seq(Message) /\ IsInjective(outbound[s]) /\ IsInjective(down)
        /\ \A u \in Streams : Len(outbound[u]) <= OutboundSlots
        /\ \A u \in Streams : Len(outbound[u]) \in Nat
    BY LenProperties DEF CommandsInv, TypesInv, ControllerTypes, WireTypes, QueueInv
  <1>2. /\ Tail(outbound[s]) \in Seq(Requests) /\ IsInjective(Tail(outbound[s]))
        /\ Len(Tail(outbound[s])) <= Len(outbound[s])
        /\ ToSet(Tail(outbound[s])) = ToSet(outbound[s]) \ {h} /\ h \in ToSet(outbound[s])
        /\ h \in Requests
    BY <1>0, <1>1, TailQueue
  <1>3. h \in Queued
    BY <1>2 DEF Queued
  <1>4. m \in Message /\ m \notin ToSet(down) /\ m.event = "command" /\ m.id = h
    BY <1>2, <1>3 DEF Message, CommandsInv, QueueInv
  <1> HIDE DEF m, h
  <1>5. /\ outbound' \in [Streams -> Seq(Requests)] /\ outbound'[s] = Tail(outbound[s])
        /\ \A u \in Streams : u # s => outbound'[u] = outbound[u]
    BY <1>0, <1>1, <1>2
  <1>6. /\ down' \in Seq(Message) /\ IsInjective(down')
        /\ ToSet(down') \subseteq ToSet(down) \cup {m}
        /\ ToSet(down) \subseteq ToSet(down')
    BY <1>0, <1>1, <1>4, AppendQueue
  <1>7. /\ Queued' \subseteq Queued /\ h \notin Queued'
        /\ \A u \in Streams : IsInjective(outbound'[u]) /\ ToSet(outbound'[u]) \subseteq ToSet(outbound[u])
    <2>1. \A u \in Streams : IsInjective(outbound'[u]) /\ ToSet(outbound'[u]) \subseteq ToSet(outbound[u])
      BY <1>2, <1>5 DEF CommandsInv, QueueInv
    <2>2. \A u \in Streams : h \notin ToSet(outbound'[u])
      BY <1>2, <1>5 DEF CommandsInv, QueueInv
    <2>3. QED  BY <2>1, <2>2 DEF Queued
  <1>8. TypesInv'
    <2>1. \A u \in Streams : Len(outbound'[u]) <= OutboundSlots
      <3>1. CASE OutboundSlots \in Nat
        <4>1. Len(Tail(outbound[s])) \in Nat
          BY <1>2, LenProperties
        <4>2. Len(outbound'[s]) <= OutboundSlots
          BY <1>1, <1>2, <1>5, <3>1, <4>1
        <4>3. QED  BY <1>1, <1>5, <4>2
      <3>2. QED  BY <3>1, CommandsAssumption
    <2>2. QED
      BY <1>0, <1>5, <1>6, <2>1 DEF CommandsInv, TypesInv, ControllerTypes, WireTypes, AgentTypes,
                                    StateTypes, HostTypes, BoundTypes
  <1>9. /\ \A id : [event |-> "command", id |-> id] \in ToSet(down') =>
                      id = h \/ [event |-> "command", id |-> id] \in ToSet(down)
        /\ \A id : [event |-> "ack", id |-> id] \in ToSet(down') => [event |-> "ack", id |-> id] \in ToSet(down)
    BY <1>4, <1>6
  <1>10. /\ Unreceived' \subseteq Unreceived /\ Acked' = Acked /\ Posted' = Posted /\ Sent' = Sent
         /\ registered' = registered
    <2>1. Unreceived' \subseteq Unreceived
      BY <1>3, <1>7, <1>9 DEF Unreceived
    <2>2. Acked' = Acked
      BY <1>6, <1>9 DEF Acked
    <2>3. QED  BY <1>0, <2>1, <2>2 DEF Posted, Sent, registered
  <1>11. QueueInv'
    <2>1. \A u, v \in Streams : u # v => ToSet(outbound'[u]) \cap ToSet(outbound'[v]) = {}
      BY <1>7 DEF CommandsInv, QueueInv
    <2>2. \A id \in Queued' : [event |-> "command", id |-> id] \notin ToSet(down')
      BY <1>7, <1>9 DEF CommandsInv, QueueInv
    <2>3. QED  BY <1>0, <1>6, <1>7, <2>1, <2>2 DEF CommandsInv, QueueInv
  <1>12. StreamInv'
    <2>1. s # 0 /\ handler[s] = "registered"
      BY CommandsAssumption DEF SendCommand, registered, Streams
    <2>2. stream = 0 => down' = <<>>
      BY <1>0, <2>1 DEF CommandsInv, StreamInv
    <2>3. ConnectionInv'
      BY <1>0, <1>5, <1>10, <2>1 DEF CommandsInv, StreamInv, ConnectionInv
    <2>4. QED  BY <1>0, <1>10, <2>2, <2>3 DEF CommandsInv, StreamInv
  <1>13. Shrinks
    BY <1>0, <1>10 DEF Shrinks
  <1>14. QED  BY <1>0, <1>8, <1>11, <1>12, <1>13, SameEnrollment, EvolveRefl, ShrinkStep

(* The handler of stream s reads a result and acknowledges it.             *)
LEMMA HandleResultStep ==
    ASSUME CommandsInv, NEW s \in Streams, HandleResult(s)
    PROVE  CommandsInv'
  <1> DEFINE m == Head(up[s])
             a == [event |-> "ack", id |-> m.id]
  <1>0. /\ up[s] # <<>> /\ request' = Completed(m)
        /\ up' = [up EXCEPT ![s] = Tail(up[s])]
        /\ down' = IF s = stream THEN Append(down, a) ELSE down
        /\ UNCHANGED <<broker, outbound, handler, peer, stream, overtaken, process, active, step, results,
                       awaiting, planned, desired, applied, files, service, faults, changes, node>>
        /\ UNCHANGED enrollment
    BY DEF HandleResult, agent, state, host, bounds, enrollment
  <1>1. /\ up \in [Streams -> Seq(Answer)] /\ up[s] \in Seq(Answer) /\ down \in Seq(Message)
        /\ request \in [Requests -> Request] /\ IsInjective(down)
    BY DEF CommandsInv, TypesInv, ControllerTypes, WireTypes, QueueInv
  <1>2. /\ Tail(up[s]) \in Seq(Answer) /\ m \in Answer /\ m \in ToSet(up[s])
        /\ ToSet(Tail(up[s])) \subseteq ToSet(up[s])
        /\ IsInjective(up[s]) => IsInjective(Tail(up[s])) /\ ToSet(Tail(up[s])) = ToSet(up[s]) \ {m}
    BY <1>0, <1>1, TailQueue
  <1>3. /\ m \in Sent /\ m.id \in Requests /\ m.ok \in BOOLEAN /\ a \in Message
        /\ a.event = "ack" /\ a.id = m.id
    BY <1>2 DEF Sent, Answer, Message
  <1> HIDE DEF m, a
  <1>4. up' \in [Streams -> Seq(Answer)] /\ Sent' \subseteq Sent
    <2>1. \A r \in Streams : ToSet(up'[r]) \subseteq ToSet(up[r])
      BY <1>0, <1>1, <1>2
    <2>2. QED  BY <1>0, <1>1, <1>2, <2>1 DEF Sent
  <1>5. /\ request' \in [Requests -> Request]
        /\ \A id \in Requests : request'[id].kind = request[id].kind
        /\ \A id \in Requests :
              \/ request'[id] = request[id]
              \/ /\ id = m.id /\ request[id].at = "pending"
                 /\ request'[id].at = "answered" /\ request'[id].ok = m.ok
    BY <1>0, <1>1, <1>3 DEF Completed, Request
  <1>6. s = stream => /\ a \notin ToSet(down)
                      /\ \E c \in awaiting : c.id = m.id
                      /\ \A n \in ToSet(Tail(up[s])) : n.id # m.id
    <2> SUFFICES ASSUME s = stream
                 PROVE  /\ a \notin ToSet(down)
                        /\ \E c \in awaiting : c.id = m.id
                        /\ \A n \in ToSet(Tail(up[s])) : n.id # m.id
      OBVIOUS
    <2>1. /\ IsInjective(up[s]) /\ m.id \notin Acked
          /\ \A n \in ToSet(up[s]) : \E c \in awaiting : c.id = n.id
      BY <1>2, CommandsAssumption DEF CommandsInv, StreamInv, Streams
    <2>2. a \notin ToSet(down)
      BY <1>3, <2>1 DEF Acked, a
    <2>3. ASSUME NEW n \in ToSet(Tail(up[s])), n.id = m.id PROVE FALSE
      <3>1. n \in ToSet(up[s]) /\ n # m /\ n \in Sent
        BY <1>2, <2>1, <2>3 DEF Sent
      <3>2. PICK c \in awaiting : c.id = n.id
        BY <2>1, <3>1
      <3>3. c \in Posted
        BY DEF Posted
      <3>4. c.ok = n.ok /\ c.ok = m.ok
        BY <1>3, <2>3, <3>1, <3>2, <3>3 DEF CommandsInv, ResultInv
      <3>5. n \in Answer
        BY <1>1, <3>1, ToSetFacts
      <3>6. n = m
        <4>1. \A x \in Answer : x = [id |-> x.id, ok |-> x.ok]
          BY DEF Answer
        <4>2. n = [id |-> n.id, ok |-> n.ok] /\ m = [id |-> m.id, ok |-> m.ok]
          BY <1>2, <3>5, <4>1
        <4>3. QED  BY <2>3, <3>4, <4>2, Zenon
      <3>7. QED  BY <3>1, <3>6
    <2>4. QED  BY <1>2, <2>1, <2>2, <2>3
  <1>7. /\ down' \in Seq(Message) /\ IsInjective(down')
        /\ ToSet(down') = IF s = stream THEN ToSet(down) \cup {a} ELSE ToSet(down)
    <2>1. CASE s = stream
      <3>1. down' = Append(down, a)
        BY <1>0, <2>1
      <3>2. QED  BY <1>1, <1>3, <1>6, <2>1, <3>1, AppendQueue
    <2>2. CASE s # stream
      BY <1>0, <1>1, <2>2
    <2>3. QED  BY <2>1, <2>2
  <1>8. /\ Unreceived' = Unreceived /\ Posted' = Posted
        /\ Acked' = IF s = stream THEN Acked \cup {m.id} ELSE Acked
    <2>1. /\ \A id : [event |-> "command", id |-> id] # a
          /\ \A id : [event |-> "ack", id |-> id] = a <=> id = m.id
      BY DEF a
    <2>2. Queued' = Queued
      BY <1>0 DEF Queued
    <2>3. QED  BY <1>0, <1>3, <1>7, <2>1, <2>2 DEF Unreceived, Posted, Acked
  <1>9. TypesInv'
    BY <1>0, <1>4, <1>5, <1>7 DEF CommandsInv, TypesInv, ControllerTypes, WireTypes, AgentTypes,
                                  StateTypes, HostTypes, BoundTypes
  <1>10. QueueInv'
    <2>1. \A id : [event |-> "command", id |-> id] \in ToSet(down') => [event |-> "command", id |-> id] \in ToSet(down)
      BY <1>7 DEF a
    <2>2. QED  BY <1>0, <1>7, <2>1 DEF CommandsInv, QueueInv, Queued
  <1>11. StreamInv'
    <2>1. ConnectionInv'
      <3>1. handler[s] = "registered" /\ registered' = registered
        BY <1>0 DEF HandleResult, registered
      <3>2. \A r \in Streams : handler'[r] = "none" => up'[r] = <<>>
        BY <1>0, <1>1, <3>1 DEF CommandsInv, StreamInv, ConnectionInv
      <3>3. QED  BY <1>0, <3>1, <3>2 DEF CommandsInv, StreamInv, ConnectionInv
    <2>2. stream = 0 => down' = <<>>
      <3>1. s # 0
        BY CommandsAssumption DEF Streams
      <3>2. QED  BY <1>0, <3>1 DEF CommandsInv, StreamInv
    <2>3. \A id \in Acked' : \E c \in awaiting' : c.id = id
      BY <1>0, <1>6, <1>8 DEF CommandsInv, StreamInv
    <2>4. stream # 0 =>
             /\ IsInjective(up'[stream])
             /\ \A n \in ToSet(up'[stream]) : n.id \notin Acked' /\ \E c \in awaiting : c.id = n.id
      <3>1. CASE s = stream
        <4>1. up'[stream] = Tail(up[s])
          BY <1>0, <1>1, <3>1
        <4>2. QED  BY <1>2, <1>6, <1>8, <3>1, <4>1 DEF CommandsInv, StreamInv
      <3>2. CASE s # stream
        <4>1. stream # 0 => up'[stream] = up[stream]
          BY <1>0, <1>1, <3>2, BoundFacts
        <4>2. QED  BY <1>8, <3>2, <4>1 DEF CommandsInv, StreamInv
      <3>3. QED  BY <3>1, <3>2
    <2>5. QED  BY <1>0, <2>1, <2>2, <2>3, <2>4 DEF CommandsInv, StreamInv, registered
  <1>12. Shrinks /\ KindsKept
    BY <1>0, <1>4, <1>5, <1>8 DEF Shrinks, KindsKept
  <1>13. ResultInv' /\ UpgradeInv' /\ UnusedInv'
    BY <1>0, <1>8, <1>12, ShrinkResult, UpgradeKept, UnusedKept
  <1>14. RequestInv'
    <2>1. RequestInv
      BY DEF CommandsInv
    <2>2. \A id \in Requests :
          id \in Unreceived' \/ id = active' \/ (\E c \in Posted' : c.id = id) \/ (\E n \in Sent' : n.id = id)
             => request'[id].at \in Dispatched
      BY <1>0, <1>4, <1>5, <1>8, <2>1 DEF RequestInv, Dispatched
    <2>3. \A id \in Requests :
          /\ request'[id].at \notin {"idle", "unused"} => node'.seen
          /\ request'[id].at = "revoked" => node'.revoked
      BY <1>0, <1>5, <2>1 DEF RequestInv
    <2>4. /\ m.id \notin Unreceived /\ ~ Running(m.id)
          /\ \A c \in Posted : c.id = m.id => c.ok = m.ok
      BY <1>3 DEF CommandsInv, ResultInv
    <2>5. ASSUME NEW id \in Requests, request'[id].kind = "uninstall"
          PROVE  /\ request'[id].at # "succeeded"
                 /\ request'[id].at = "failed" => ~ request'[id].ok
                 /\ request'[id].at \in {"answered", "failed"} =>
                       /\ id \notin Unreceived' /\ ~ Running(id)'
                       /\ \A c \in Posted' : c.id = id => c.ok = request'[id].ok
      <3>1. CASE request'[id] = request[id]
        BY <1>0, <1>8, <2>1, <2>5, <3>1 DEF RequestInv, Running
      <3>2. CASE /\ id = m.id /\ request[id].at = "pending"
                 /\ request'[id].at = "answered" /\ request'[id].ok = m.ok
        BY <1>0, <1>8, <2>4, <3>2 DEF Running
      <3>3. QED  BY <1>5, <3>1, <3>2
    <2>6. QED  BY <2>2, <2>3, <2>5 DEF RequestInv
  <1>15. RemovedInv'
    <2>1. ASSUME NEW id \in Requests, Removing(id) PROVE Removing(id)'
      <3>1. /\ request'[id].kind = "uninstall"
            /\ request'[id].at \in {"pending", "answered", "lost", "timeout", "crashed", "unsaved"}
            /\ request'[id].at = "answered" => request'[id].ok
        BY <1>3, <1>5, <2>1 DEF Removing
      <3>2. QED  BY <1>0, <1>4, <1>8, <2>1, <3>1 DEF Removing
    <2>2. QED  BY <1>0, <2>1 DEF CommandsInv, RemovedInv
  <1>16. QED
    BY <1>0, <1>9, <1>10, <1>11, <1>13, <1>14, <1>15, SameEnrollment DEF CommandsInv

-----------------------------------------------------------------------------
(* The plan, its snapshots and the steps of a command.                     *)

LEMMA ChangePlanStep ==
    ASSUME CommandsInv, ChangePlan
    PROVE  CommandsInv'
  <1>0. /\ changes > 0 /\ changes' = changes - 1
        /\ node' = [node EXCEPT !.assigned = TRUE]
        /\ planned' = ~ planned /\ desired' = ~ planned
        /\ UNCHANGED <<tokens, keys, pending, identity, made, wiped, attempt, requests, reply,
                       installs, request, broker, outbound, handler, peer, up, down, stream, overtaken,
                       process, active, step, results, awaiting, applied, files, service, faults>>
    BY DEF ChangePlan, controller, wires, agent, host
  <1>1. EnrollmentInv' /\ NodeKept
    <2>1. EnrollmentInv /\ node \in NodeRow
      BY RowTypes DEF CommandsInv
    <2>2. EnrollmentInv'
      BY <1>0, <2>1, RowStep, RowTypes
    <2>3. QED  BY <1>0, <2>1, <2>2 DEF NodeKept, NodeRow
  <1>2. TypesInv'
    <2>1. StateTypes' /\ BoundTypes'
      BY <1>0, BoundFacts DEF CommandsInv, TypesInv, StateTypes, BoundTypes
    <2>2. QED
      BY <1>0, <2>1 DEF CommandsInv, TypesInv, ControllerTypes, WireTypes, AgentTypes, HostTypes
  <1>3. QueueInv' /\ StreamInv' /\ Shrinks
    BY <1>0, PipeSame DEF Shrinks
  <1>4. QED  BY <1>0, <1>1, <1>2, <1>3, EvolveRefl, ShrinkStep

(* No result says that anything was done unless it is the active one's.    *)
LEMMA NoClaims ==
    ASSUME CommandsInv, step # "posted"
    PROVE  \A c \in Posted : ~ c.ok /\ ~ c.release
  BY DEF CommandsInv, ResultInv

LEMMA ApplySnapshotStep ==
    ASSUME CommandsInv, ApplySnapshot
    PROVE  CommandsInv'
  <1>0. /\ ActiveKind # "uninstall" /\ applied' = desired
        /\ UNCHANGED enrollment
        /\ UNCHANGED <<request, broker, outbound, handler, peer, up, down, stream, overtaken,
                       process, active, step, results, awaiting, planned, desired, files, service,
                       faults, changes>>
    BY DEF ApplySnapshot, TakesSnapshots, controller, wires, agent, host, bounds
  <1>1. TypesInv'
    BY <1>0 DEF CommandsInv, TypesInv, ControllerTypes, WireTypes, AgentTypes, StateTypes,
                HostTypes, BoundTypes
  <1>2. QueueInv' /\ StreamInv' /\ Shrinks /\ RequestsEvolve /\ Posted' = Posted
    BY <1>0, PipeSame, EvolveRefl DEF Shrinks
  <1>3. EnrollmentInv' /\ NodeKept
    BY <1>0, SameEnrollment
  <1>4. ResultInv' /\ RequestInv' /\ RemovedInv'
    BY <1>0, <1>2, <1>3, ShrinkResult, ShrinkRequest, ShrinkRemoved
  <1>5. UpgradeInv'
    BY <1>0, <1>2, UpgradeKept DEF KindsKept
  <1>6. UnusedInv'
    <2>1. \A c \in Posted : c.ok => request[c.id].kind # "uninstall"
      BY <1>0, DispatchedFacts, PlaceTypes DEF CommandsInv, ResultInv, ActiveKind
    <2>2. ActiveKind' = ActiveKind
      BY <1>0 DEF ActiveKind
    <2>3. QED  BY <1>0, <1>2, <2>1, <2>2 DEF UnusedInv
  <1>7. QED  BY <1>1, <1>2, <1>3, <1>4, <1>5, <1>6 DEF CommandsInv

(* A step of the active command, before its result is handed over.         *)
LEMMA LocalStep ==
    ASSUME CommandsInv,
           step \notin {"none", "posted"},
           step' \in {"begin", "write", "purge", "start", "wait", "ok", "fail"},
           step' = "ok" => ActiveKind # "upgrade",
           ActiveKind = "uninstall" /\ step' \in UninstallSteps => step \in UninstallSteps \/ ~ applied,
           HostTypes', faults' \in Nat, changes' \in Nat,
           UNCHANGED <<enrollment, controller, wires, process, active, results, awaiting, state>>
    PROVE  CommandsInv'
  <1>0. UNCHANGED <<request, broker, outbound, handler, peer, up, down, stream, overtaken, process,
                    active, results, awaiting, planned, desired, applied>>
    BY DEF controller, wires, state
  <1>1. TypesInv'
    <2>1. AgentTypes'
      BY <1>0 DEF CommandsInv, TypesInv, AgentTypes
    <2>2. QED
      BY <1>0, <2>1 DEF CommandsInv, TypesInv, ControllerTypes, WireTypes, StateTypes, BoundTypes
  <1>2. QueueInv' /\ StreamInv' /\ Posted' = Posted /\ Unreceived' = Unreceived /\ Sent' = Sent
    BY <1>0, PipeSame
  <1>3. Shrinks /\ RequestsEvolve
    BY <1>0, <1>2, EvolveRefl DEF Shrinks
  <1>4. EnrollmentInv' /\ NodeKept
    BY SameEnrollment
  <1>5. ResultInv' /\ RequestInv' /\ RemovedInv'
    BY <1>0, <1>3, <1>4, ShrinkResult, ShrinkRequest, ShrinkRemoved
  <1>6. /\ \A c \in Posted' : ~ c.ok
        /\ ActiveKind' = ActiveKind
    BY <1>0, <1>2, NoClaims DEF ActiveKind
  <1>7. UpgradeInv'
    BY <1>6 DEF UpgradeInv
  <1>8. UnusedInv'
    BY <1>0, <1>6 DEF UnusedInv, UninstallSteps, CommandsInv
  <1>9. QED  BY <1>1, <1>2, <1>4, <1>5, <1>7, <1>8 DEF CommandsInv

LEMMA AgentSteps ==
    ASSUME CommandsInv,
           \/ executeTCPCheck \/ StageUpgrade \/ CheckUninstall \/ WriteRequest \/ PurgeNode
           \/ StartService \/ StartTimesOut
    PROVE  CommandsInv'
  <1>1. HostTypes /\ faults \in Nat /\ changes \in Nat
    BY BoundFacts DEF CommandsInv, TypesInv
  <1> USE DEF Step, UninstallSteps
  <1>2. CASE executeTCPCheck
    BY <1>1, <1>2, LocalStep DEF executeTCPCheck, host, bounds, HostTypes
  <1>3. CASE StageUpgrade
    <2>1. HostTypes' /\ faults' \in Nat /\ changes' \in Nat
      BY <1>1, <1>3, BoundFacts DEF StageUpgrade, HostTypes, host, bounds
    <2>2. QED  BY <1>3, <2>1, LocalStep DEF StageUpgrade
  <1>4. CASE CheckUninstall
    BY <1>1, <1>4, LocalStep DEF CheckUninstall, host, bounds, HostTypes
  <1>5. CASE WriteRequest
    <2>1. HostTypes' /\ faults' \in Nat /\ changes' \in Nat
      BY <1>1, <1>5, BoundFacts DEF WriteRequest, HostTypes, host, bounds
    <2>2. QED  BY <1>5, <2>1, LocalStep DEF WriteRequest
  <1>6. CASE PurgeNode
    <2>1. HostTypes' /\ faults' \in Nat /\ changes' \in Nat
      BY <1>1, <1>6, BoundFacts DEF PurgeNode, HostTypes, host, bounds
    <2>2. QED  BY <1>6, <2>1, LocalStep DEF PurgeNode
  <1>7. CASE StartService
    <2>1. HostTypes' /\ faults' \in Nat /\ changes' \in Nat
      BY <1>1, <1>7 DEF StartService, HostTypes, bounds
    <2>2. QED  BY <1>7, <2>1, LocalStep DEF StartService
  <1>8. CASE StartTimesOut
    <2>1. HostTypes' /\ faults' \in Nat /\ changes' \in Nat
      BY <1>1, <1>8, BoundFacts DEF StartTimesOut, HostTypes
    <2>2. QED  BY <1>8, <2>1, LocalStep DEF StartTimesOut
  <1>9. QED  BY <1>2, <1>3, <1>4, <1>5, <1>6, <1>7, <1>8

LEMMA RestartStep ==
    ASSUME CommandsInv, Restart
    PROVE  CommandsInv'
  <1>0. /\ process' = "up" /\ UNCHANGED enrollment
        /\ UNCHANGED <<request, broker, outbound, handler, peer, up, down, stream, overtaken, active, step,
                       results, awaiting, planned, desired, applied, files, service, faults, changes>>
    BY DEF Restart, controller, wires, state, host, bounds
  <1>1. TypesInv'
    BY <1>0 DEF CommandsInv, TypesInv, ControllerTypes, WireTypes, AgentTypes, StateTypes,
                HostTypes, BoundTypes
  <1>2. QueueInv' /\ StreamInv' /\ Shrinks
    BY <1>0, PipeSame DEF Shrinks
  <1>3. QED  BY <1>0, <1>1, <1>2, SameEnrollment, EvolveRefl, ShrinkStep

-----------------------------------------------------------------------------
(* The maintenance service.                                                *)

(* A run of the service tells the command that waits for it how it ended;  *)
(* while it goes on, nobody has reported an upgrade.                       *)
LEMMA ServiceStep ==
    ASSUME CommandsInv, service # "idle",
           \/ step' = step
           \/ step = "wait" /\ step' = "fail"
           \/ step = "wait" /\ step' = "ok" /\ service' = "idle" /\ files'.binary # "bad",
           HostTypes', faults' \in Nat,
           UNCHANGED <<enrollment, controller, wires, process, active, results, awaiting, state,
                       changes>>
    PROVE  CommandsInv'
  <1>0. UNCHANGED <<request, broker, outbound, handler, peer, up, down, stream, overtaken, process,
                    active, results, awaiting, planned, desired, applied>>
    BY DEF controller, wires, state
  <1>1. TypesInv'
    <2>1. AgentTypes'
      BY <1>0 DEF CommandsInv, TypesInv, AgentTypes
    <2>2. QED
      BY <1>0, <2>1 DEF CommandsInv, TypesInv, ControllerTypes, WireTypes, StateTypes, BoundTypes
  <1>2. QueueInv' /\ StreamInv' /\ Posted' = Posted /\ Unreceived' = Unreceived /\ Sent' = Sent
    BY <1>0, PipeSame
  <1>3. Shrinks /\ RequestsEvolve
    BY <1>0, <1>2, EvolveRefl DEF Shrinks
  <1>4. EnrollmentInv' /\ NodeKept
    BY SameEnrollment
  <1>5. ResultInv' /\ RequestInv' /\ RemovedInv'
    BY <1>0, <1>3, <1>4, ShrinkResult, ShrinkRequest, ShrinkRemoved
  <1>6. ActiveKind' = ActiveKind
    BY <1>0 DEF ActiveKind
  <1>7. UpgradeInv'
    BY <1>0, <1>2, <1>6 DEF UpgradeInv, CommandsInv
  <1>8. UnusedInv'
    BY <1>0, <1>2, <1>6 DEF UnusedInv, CommandsInv
  <1>9. QED  BY <1>1, <1>2, <1>4, <1>5, <1>7, <1>8 DEF CommandsInv

LEMMA MaintenanceStep ==
    ASSUME CommandsInv, Maintenance
    PROVE  CommandsInv'
  <1>1. HostTypes /\ faults \in Nat
    BY BoundFacts DEF CommandsInv, TypesInv
  <1>2. UNCHANGED <<enrollment, controller, wires, process, active, results, awaiting, state, changes>>
    BY DEF Maintenance
  <1>3. CASE LoadRequest /\ UNCHANGED faults
    <2>1. CASE (Goes("remove") \/ Goes("backup")) /\ UNCHANGED files
      BY <1>1, <1>2, <1>3, <2>1, ServiceStep DEF LoadRequest, Goes, HostTypes
    <2>2. CASE Ends(FALSE)
      <3>1. HostTypes'
        BY <1>1, <2>2 DEF Ends, HostTypes
      <3>2. QED  BY <1>1, <1>2, <1>3, <2>2, <3>1, ServiceStep DEF LoadRequest, Ends
    <2>3. QED  BY <1>3, <2>1, <2>2 DEF LoadRequest
  <1>4. CASE Backup /\ UNCHANGED faults
    <2>1. HostTypes'
      BY <1>1, <1>4 DEF Backup, Ends, Goes, HostTypes
    <2>2. QED  BY <1>1, <1>2, <1>4, <2>1, ServiceStep DEF Backup, Ends, Goes
  <1>5. CASE InstallStaged /\ UNCHANGED faults
    <2>1. HostTypes'
      BY <1>1, <1>5 DEF InstallStaged, Ends, Goes, HostTypes
    <2>2. QED  BY <1>1, <1>2, <1>5, <2>1, ServiceStep DEF InstallStaged, Ends, Goes
  <1>6. CASE VerifyVersion /\ UNCHANGED faults
    <2>1. HostTypes' /\ files'.binary = files.binary
      BY <1>1, <1>6 DEF VerifyVersion, Goes, HostTypes
    <2>2. QED  BY <1>1, <1>2, <1>6, <2>1, ServiceStep DEF VerifyVersion, Goes
  <1>7. CASE Rollback /\ UNCHANGED faults
    <2>1. HostTypes'
      BY <1>1, <1>7 DEF Rollback, HostTypes
    <2>2. QED  BY <1>1, <1>2, <1>7, <2>1, ServiceStep DEF Rollback
  <1>8. CASE RemoveFiles
    <2>1. HostTypes' /\ faults' \in Nat
      BY <1>1, <1>8, BoundFacts DEF RemoveFiles, HostTypes
    <2>2. CASE files' = [files EXCEPT !.request = "none", !.binary = "none"]
      <3>1. files'.binary = "none"
        BY <1>1, <2>2 DEF HostTypes
      <3>2. QED  BY <1>2, <1>8, <2>1, <3>1, ServiceStep DEF RemoveFiles
    <2>3. CASE step' = IF step = "wait" THEN "fail" ELSE step
      BY <1>2, <1>8, <2>1, <2>3, ServiceStep DEF RemoveFiles
    <2>4. QED  BY <1>8, <2>2, <2>3 DEF RemoveFiles
  <1>9. QED  BY <1>3, <1>4, <1>5, <1>6, <1>7, <1>8 DEF Maintenance

-----------------------------------------------------------------------------
(* Commands, results and ACKs at the Agent.                                *)

(* The head of the Agent's stream.                                         *)
LEMMA HeadOfDown ==
    ASSUME CommandsInv, down # <<>>, down' = Tail(down)
    PROVE  /\ Head(down) \in Message /\ Head(down).id \in Requests /\ Head(down) \in ToSet(down)
           /\ Head(down) = [event |-> Head(down).event, id |-> Head(down).id]
           /\ down' \in Seq(Message) /\ IsInjective(down')
           /\ ToSet(down') = ToSet(down) \ {Head(down)}
  <1>1. down \in Seq(Message) /\ IsInjective(down)
    BY DEF CommandsInv, TypesInv, WireTypes, QueueInv
  <1>2. /\ down' \in Seq(Message) /\ IsInjective(down') /\ Head(down) \in Message
        /\ Head(down) \in ToSet(down) /\ ToSet(down') = ToSet(down) \ {Head(down)}
    BY <1>1, TailQueue
  <1>3. \A m \in Message : m.id \in Requests /\ m = [event |-> m.event, id |-> m.id]
    BY DEF Message
  <1>4. QED  BY <1>2, <1>3

LEMMA ReceiveCommandStep ==
    ASSUME CommandsInv, ReceiveCommand
    PROVE  CommandsInv'
  <1> DEFINE id == Head(down).id
             n == [id |-> id, ok |-> FALSE, release |-> FALSE]
  <1>0. /\ down # <<>> /\ Head(down).event = "command" /\ down' = Tail(down)
        /\ UNCHANGED <<request, broker, outbound, handler, peer, up, stream, overtaken, process, awaiting,
                       planned, desired, applied, files, service, faults, changes, node>>
        /\ UNCHANGED enrollment
    BY DEF ReceiveCommand, controller, state, host, bounds, enrollment
  <1>1. /\ id \in Requests /\ [event |-> "command", id |-> id] \in ToSet(down)
        /\ down' \in Seq(Message) /\ IsInjective(down')
        /\ ToSet(down') = ToSet(down) \ {[event |-> "command", id |-> id]}
    BY <1>0, HeadOfDown
  <1>2. n \in Completion /\ n.id = id /\ ~ n.ok /\ ~ n.release
    BY <1>1 DEF Completion
  <1> HIDE DEF id, n
  <1>3. /\ id \in Unreceived /\ id \notin Queued /\ Queued' = Queued
        /\ id # active /\ (\A c \in Posted : c.id # id) /\ (\A m \in Sent : m.id # id)
        /\ request[id].at \in Dispatched /\ id # 0
    <2>1. id \in Unreceived /\ id \notin Queued
      BY <1>1 DEF Unreceived, CommandsInv, QueueInv
    <2>2. Queued' = Queued
      BY <1>0 DEF Queued
    <2>3. QED  BY <2>1, <2>2, DispatchedFacts, PlaceTypes DEF CommandsInv, ResultInv
  <1>4. Unreceived' = Unreceived \ {id} /\ Acked' = Acked /\ Sent' = Sent
    <2>1. Unreceived' = Unreceived \ {id}
      BY <1>0, <1>1, <1>3 DEF Unreceived
    <2>2. QED  BY <1>0, <1>1, <2>1 DEF Acked, Sent
  <1>5. StreamInv'
    <2>1. registered' = registered
      BY <1>0 DEF registered
    <2>2. stream # 0
      BY <1>0 DEF CommandsInv, StreamInv
    <2>3. QED  BY <1>0, <1>4, <2>1, <2>2 DEF CommandsInv, StreamInv, ConnectionInv
  <1>6. EnrollmentInv'
    BY <1>0, SameEnrollment
  <1>7. /\ ResultInv /\ RequestInv /\ RemovedInv /\ UpgradeInv /\ UnusedInv
        /\ results \in Seq(Completion) /\ IsInjective(results) /\ awaiting \cap ToSet(results) = {}
        /\ 0 \notin Requests
    BY PlaceTypes DEF CommandsInv, TypesInv, AgentTypes, QueueInv
  <1>8. CASE active = 0
    <2>0. active' = id /\ step' = "begin" /\ results' = results
      BY <1>8 DEF ReceiveCommand, id
    <2>1. Posted' = Posted
      BY <1>0, <2>0 DEF Posted
    <2>2. TypesInv'
      BY <1>0, <1>1, <2>0 DEF CommandsInv, TypesInv, ControllerTypes, WireTypes, AgentTypes,
                              StateTypes, HostTypes, BoundTypes
    <2>3. QueueInv'
      BY <1>0, <1>1, <1>3, <2>0 DEF CommandsInv, QueueInv
    <2>4. ResultInv'
      <3>1. \A c \in Posted : ~ c.ok /\ ~ c.release
        BY <1>7, <1>8 DEF ResultInv
      <3>2. \A r \in Requests : Running(r)' => r = id
        BY <2>0 DEF Running
      <3>3. QED  BY <1>3, <1>4, <1>7, <2>0, <2>1, <3>1, <3>2 DEF ResultInv
    <2>5. RequestInv'
      <3>1. \A r \in Requests :
              r \in Unreceived' \/ r = active' \/ (\E c \in Posted' : c.id = r) \/ (\E m \in Sent' : m.id = r)
                => request'[r].at \in Dispatched
        BY <1>0, <1>3, <1>4, <1>7, <2>0, <2>1 DEF RequestInv
      <3>2. \A r \in Requests : request[r].kind = "uninstall" /\ request[r].at \in {"answered", "failed"} => r # id
        BY <1>3, <1>7 DEF RequestInv
      <3>3. \A r \in Requests : Running(r)' => r = id
        BY <2>0 DEF Running
      <3>4. QED  BY <1>0, <1>4, <1>7, <2>1, <3>1, <3>2, <3>3 DEF RequestInv
    <2>6. RemovedInv'
      <3>1. \A r \in Requests : Removing(r) => Removing(r)'
        BY <1>0, <1>3, <1>4, <2>0, <2>1 DEF Removing
      <3>2. QED  BY <1>0, <1>7, <3>1 DEF RemovedInv
    <2>7. UpgradeInv' /\ UnusedInv'
      BY <1>0, <1>7, <2>0, <2>1 DEF UpgradeInv, UnusedInv
    <2>8. QED  BY <1>5, <1>6, <2>2, <2>3, <2>4, <2>5, <2>6, <2>7 DEF CommandsInv
  <1>9. CASE active # 0
    <2>0. UNCHANGED <<active, step>> /\ results' = Append(results, n)
      BY <1>9 DEF ReceiveCommand, n, id
    <2>1. n \notin Posted
      BY <1>2, <1>3
    <2>2. /\ results' \in Seq(Completion) /\ IsInjective(results')
          /\ ToSet(results') = ToSet(results) \cup {n}
      BY <1>2, <1>7, <2>0, <2>1, AppendQueue DEF Posted
    <2>3. Posted' = Posted \cup {n}
      BY <1>0, <2>2 DEF Posted
    <2>4. TypesInv'
      BY <1>0, <1>1, <2>0, <2>2 DEF CommandsInv, TypesInv, ControllerTypes, WireTypes, AgentTypes,
                                    StateTypes, HostTypes, BoundTypes
    <2>5. QueueInv'
      <3>1. awaiting \cap ToSet(results') = {}
        BY <1>7, <2>1, <2>2 DEF Posted
      <3>2. QED  BY <1>0, <1>1, <1>3, <2>2, <3>1 DEF CommandsInv, QueueInv
    <2>6. ResultInv'
      <3>1. \A r \in Requests : Running(r)' <=> Running(r)
        BY <2>0 DEF Running
      <3>2. \A r \in Requests : Running(r) => r # id
        BY <1>3 DEF Running
      <3>3. \A c, d \in Posted' : c.id = d.id => c = d
        BY <1>2, <1>3, <1>7, <2>3 DEF ResultInv
      <3>4. \A c \in Posted', m \in Sent' : c.id = m.id => c.ok = m.ok
        BY <1>2, <1>3, <1>4, <1>7, <2>3 DEF ResultInv
      <3>5. \A c \in Posted' : c = n \/ c \in Posted
        BY <2>3
      <3>6. \A r \in Requests : r \in Unreceived' \/ Running(r)' =>
              /\ \A c \in Posted' : c.id # r
              /\ \A m \in Sent' : m.id # r
        BY <1>2, <1>4, <1>7, <2>3, <3>1, <3>2 DEF ResultInv
      <3>7. QED  BY <1>2, <1>4, <1>7, <2>0, <3>3, <3>4, <3>5, <3>6 DEF ResultInv
    <2>7. RequestInv'
      <3>1. \A r \in Requests :
              r \in Unreceived' \/ r = active' \/ (\E c \in Posted' : c.id = r) \/ (\E m \in Sent' : m.id = r)
                => request'[r].at \in Dispatched
        BY <1>0, <1>2, <1>3, <1>4, <1>7, <2>0, <2>3 DEF RequestInv
      <3>2. \A r \in Requests : request[r].kind = "uninstall" /\ request[r].at \in {"answered", "failed"} => r # id
        BY <1>3, <1>7 DEF RequestInv
      <3>3. \A r \in Requests : Running(r)' <=> Running(r)
        BY <2>0 DEF Running
      <3>4. QED  BY <1>0, <1>2, <1>4, <1>7, <2>3, <3>1, <3>2, <3>3 DEF RequestInv
    <2>8. RemovedInv'
      <3>1. \A r \in Requests : Removing(r) => Removing(r)'
        BY <1>0, <1>2, <1>3, <1>4, <2>0, <2>3 DEF Removing
      <3>2. QED  BY <1>0, <1>7, <3>1 DEF RemovedInv
    <2>9. UpgradeInv' /\ UnusedInv'
      <3>1. ActiveKind' = ActiveKind
        BY <1>0, <2>0 DEF ActiveKind
      <3>2. QED  BY <1>0, <1>2, <1>7, <2>0, <2>3, <3>1 DEF UpgradeInv, UnusedInv
    <2>10. QED  BY <1>5, <1>6, <2>4, <2>5, <2>6, <2>7, <2>8, <2>9 DEF CommandsInv
  <1>10. QED  BY <1>8, <1>9

LEMMA PostResultStep ==
    ASSUME CommandsInv, PostResult
    PROVE  CommandsInv'
  <1> DEFINE n == [id |-> active, ok |-> step = "ok", release |-> TRUE]
  <1>0. /\ step \in {"ok", "fail"} /\ step' = "posted" /\ results' = Append(results, n)
        /\ UNCHANGED <<request, broker, outbound, handler, peer, up, down, stream, overtaken, process, active,
                       awaiting, planned, desired, applied, files, service, faults, changes, node>>
        /\ UNCHANGED enrollment
    BY DEF PostResult, controller, wires, state, host, bounds, enrollment
  <1>1. /\ ResultInv /\ RequestInv /\ RemovedInv /\ UpgradeInv /\ UnusedInv
        /\ results \in Seq(Completion) /\ IsInjective(results) /\ awaiting \cap ToSet(results) = {}
        /\ 0 \notin Requests /\ active \in Requests \cup {0}
    BY PlaceTypes DEF CommandsInv, TypesInv, AgentTypes, QueueInv
  <1>2. active # 0 /\ active \in Requests
    BY <1>0, <1>1 DEF ResultInv
  <1>3. n \in Completion /\ n.id = active /\ n.release = TRUE /\ (n.ok <=> step = "ok")
    BY <1>2 DEF Completion
  <1> HIDE DEF n
  <1>4. /\ (\A c \in Posted : c.id # active) /\ (\A m \in Sent : m.id # active)
        /\ \A c \in Posted : ~ c.ok /\ ~ c.release
    BY <1>0, <1>1, <1>2, NoClaims DEF ResultInv, Running
  <1>5. n \notin Posted
    BY <1>3, <1>4
  <1>6. /\ results' \in Seq(Completion) /\ IsInjective(results')
        /\ ToSet(results') = ToSet(results) \cup {n}
    BY <1>0, <1>1, <1>3, <1>5, AppendQueue DEF Posted
  <1>7. /\ Posted' = Posted \cup {n} /\ Unreceived' = Unreceived /\ Sent' = Sent /\ Acked' = Acked
        /\ awaiting \cap ToSet(results') = {} /\ Queued' = Queued /\ registered' = registered
    BY <1>0, <1>1, <1>5, <1>6 DEF Posted, Unreceived, Queued, Sent, Acked, registered
  <1>8. TypesInv'
    BY <1>0, <1>6 DEF CommandsInv, TypesInv, ControllerTypes, WireTypes, AgentTypes,
                      StateTypes, HostTypes, BoundTypes
  <1>9. QueueInv' /\ StreamInv'
    BY <1>0, <1>6, <1>7 DEF CommandsInv, QueueInv, StreamInv, ConnectionInv
  <1>10. \A r \in Requests : ~ Running(r)'
    BY <1>0 DEF Running
  <1>11. ResultInv'
    <2>1. \A c, d \in Posted' : c.id = d.id => c = d
      BY <1>1, <1>3, <1>4, <1>7 DEF ResultInv
    <2>2. \A c \in Posted', m \in Sent' : c.id = m.id => c.ok = m.ok
      BY <1>1, <1>3, <1>4, <1>7 DEF ResultInv
    <2>3. \A c \in Posted' : (c.ok => c.release) /\ (c.release => c.id = active' /\ step' = "posted")
      BY <1>0, <1>3, <1>4, <1>7
    <2>4. \A r \in Requests : r \in Unreceived' \/ Running(r)' =>
              /\ \A c \in Posted' : c.id # r
              /\ \A m \in Sent' : m.id # r
      BY <1>1, <1>3, <1>7, <1>10 DEF ResultInv
    <2>5. active' # 0 /\ step' # "none" /\ active' \notin Unreceived'
      BY <1>0, <1>1, <1>2, <1>7 DEF ResultInv
    <2>6. QED  BY <2>1, <2>2, <2>3, <2>4, <2>5 DEF ResultInv
  <1>12. RequestInv'
    <2>1. \A r \in Requests :
              r \in Unreceived' \/ r = active' \/ (\E c \in Posted' : c.id = r) \/ (\E m \in Sent' : m.id = r)
                => request'[r].at \in Dispatched
      BY <1>0, <1>1, <1>3, <1>7 DEF RequestInv
    <2>2. \A r \in Requests : request[r].kind = "uninstall" /\ request[r].at \in {"answered", "failed"} => r # active
      BY <1>0, <1>1 DEF RequestInv, Running
    <2>3. QED  BY <1>0, <1>1, <1>3, <1>7, <1>10, <2>1, <2>2 DEF RequestInv
  <1>13. RemovedInv'
    <2>1. \A r \in Requests : Removing(r) => Removing(r)'
      BY <1>0, <1>3, <1>7 DEF Removing
    <2>2. QED  BY <1>0, <1>1, <2>1 DEF RemovedInv
  <1>14. UpgradeInv' /\ UnusedInv'
    <2>1. \A c \in Posted' : c.ok => c = n /\ step = "ok" /\ request'[c.id].kind = ActiveKind
      BY <1>0, <1>2, <1>3, <1>4, <1>7 DEF ActiveKind
    <2>2. QED  BY <1>0, <1>1, <2>1 DEF UpgradeInv, UnusedInv
  <1>15. QED
    BY <1>0, <1>8, <1>9, <1>11, <1>12, <1>13, <1>14, SameEnrollment DEF CommandsInv

(* The head of the channel of results.                                     *)
LEMMA HeadOfResults ==
    ASSUME CommandsInv, results # <<>>
    PROVE  /\ Head(results) \in Completion /\ Head(results) \in Posted
           /\ Head(results).id \in Requests /\ Head(results).ok \in BOOLEAN
           /\ Head(results) \notin awaiting
           /\ Tail(results) \in Seq(Completion) /\ IsInjective(Tail(results))
           /\ ToSet(Tail(results)) = ToSet(results) \ {Head(results)}
           /\ Head(results) \in ToSet(results)
           /\ \A c \in awaiting : c.id # Head(results).id
  <1>1. /\ results \in Seq(Completion) /\ IsInjective(results) /\ awaiting \cap ToSet(results) = {}
    BY DEF CommandsInv, TypesInv, AgentTypes, QueueInv
  <1>2. /\ Tail(results) \in Seq(Completion) /\ IsInjective(Tail(results))
        /\ Head(results) \in Completion /\ Head(results) \in ToSet(results)
        /\ ToSet(Tail(results)) = ToSet(results) \ {Head(results)}
    BY <1>1, TailQueue
  <1>3. Head(results) \in Posted /\ Head(results) \notin awaiting
    BY <1>1, <1>2 DEF Posted
  <1>4. \A c \in awaiting : c.id # Head(results).id
    <2>1. \A c \in awaiting : c \in Posted
      BY DEF Posted
    <2>2. QED  BY <1>3, <2>1 DEF CommandsInv, ResultInv
  <1>5. \A c \in Completion : c.id \in Requests /\ c.ok \in BOOLEAN
    BY DEF Completion
  <1>6. QED  BY <1>2, <1>3, <1>4, <1>5

LEMMA SendResultStep ==
    ASSUME CommandsInv, SendResult
    PROVE  CommandsInv'
  <1> DEFINE h == Head(results)
             a == [id |-> h.id, ok |-> h.ok]
  <1>0. /\ stream # 0 /\ results # <<>> /\ results' = Tail(results)
        /\ up' = [up EXCEPT ![stream] = Append(up[stream], a)]
        /\ awaiting' = awaiting \cup {h}
        /\ UNCHANGED <<request, broker, outbound, handler, peer, down, stream, overtaken, process, active,
                       step, planned, desired, applied, files, service, faults, changes, node>>
        /\ UNCHANGED enrollment
    BY DEF SendResult, controller, state, host, bounds, enrollment
  <1>1. /\ h \in Completion /\ h \in Posted /\ h.id \in Requests /\ h.ok \in BOOLEAN
        /\ h \notin awaiting /\ h \in ToSet(results)
        /\ results' \in Seq(Completion) /\ IsInjective(results')
        /\ ToSet(results') = ToSet(results) \ {h}
        /\ \A c \in awaiting : c.id # h.id
    BY <1>0, HeadOfResults
  <1>2. a \in Answer /\ a.id = h.id /\ a.ok = h.ok
    BY <1>1 DEF Answer
  <1> HIDE DEF a, h
  <1>3. /\ stream \in Streams /\ up \in [Streams -> Seq(Answer)] /\ up[stream] \in Seq(Answer)
        /\ IsInjective(up[stream])
        /\ \A m \in ToSet(up[stream]) : m.id \notin Acked /\ \E c \in awaiting : c.id = m.id
        /\ \A id \in Acked : \E c \in awaiting : c.id = id
    BY <1>0, BoundFacts DEF CommandsInv, TypesInv, WireTypes, StreamInv
  <1>4. a \notin ToSet(up[stream]) /\ h.id \notin Acked
    BY <1>1, <1>2, <1>3
  <1>5. /\ up'[stream] \in Seq(Answer) /\ IsInjective(up'[stream])
        /\ ToSet(up'[stream]) = ToSet(up[stream]) \cup {a}
        /\ \A s \in Streams : s # stream => up'[s] = up[s]
        /\ up' \in [Streams -> Seq(Answer)]
    <2>1. /\ Append(up[stream], a) \in Seq(Answer) /\ IsInjective(Append(up[stream], a))
          /\ ToSet(Append(up[stream], a)) = ToSet(up[stream]) \cup {a}
      BY <1>2, <1>3, <1>4, AppendQueue
    <2>2. QED  BY <1>0, <1>3, <2>1
  <1>6. /\ Posted' = Posted /\ Sent' \subseteq Sent \cup {a} /\ Unreceived' = Unreceived
        /\ Acked' = Acked /\ Queued' = Queued /\ registered' = registered
    <2>1. Posted' = Posted
      BY <1>0, <1>1 DEF Posted
    <2>2. Sent' \subseteq Sent \cup {a}
      <3>1. \A s \in Streams : ToSet(up'[s]) \subseteq ToSet(up[s]) \cup {a}
        BY <1>5
      <3>2. QED  BY <3>1 DEF Sent
    <2>3. Queued' = Queued /\ registered' = registered
      BY <1>0 DEF Queued, registered
    <2>4. QED  BY <1>0, <2>1, <2>2, <2>3 DEF Unreceived, Acked
  <1>7. TypesInv'
    <2>1. awaiting' \subseteq Completion
      BY <1>0, <1>1 DEF CommandsInv, TypesInv, AgentTypes
    <2>2. QED
      BY <1>0, <1>1, <1>5, <2>1 DEF CommandsInv, TypesInv, ControllerTypes, WireTypes, AgentTypes,
                                    StateTypes, HostTypes, BoundTypes
  <1>8. QueueInv'
    <2>1. IsFiniteSet(awaiting') /\ awaiting' \cap ToSet(results') = {}
      BY <1>0, <1>1, FS_AddElement DEF CommandsInv, QueueInv
    <2>2. QED  BY <1>0, <1>1, <1>6, <2>1 DEF CommandsInv, QueueInv
  <1>9. StreamInv'
    <2>1. ConnectionInv'
      BY <1>0, <1>5, <1>6 DEF CommandsInv, StreamInv, ConnectionInv
    <2>2. /\ \A id \in Acked' : \E c \in awaiting' : c.id = id
          /\ \A m \in ToSet(up'[stream]) : m.id \notin Acked' /\ \E c \in awaiting' : c.id = m.id
      BY <1>0, <1>2, <1>3, <1>4, <1>5, <1>6
    <2>3. QED  BY <1>0, <1>5, <1>6, <2>1, <2>2 DEF CommandsInv, StreamInv
  <1>10. ResultInv /\ RequestInv /\ RemovedInv /\ UpgradeInv /\ UnusedInv
    BY DEF CommandsInv
  <1>11. ResultInv'
    <2>1. \A r \in Requests : Running(r)' <=> Running(r)
      BY <1>0 DEF Running
    <2>2. \A c \in Posted', m \in Sent' : c.id = m.id => c.ok = m.ok
      BY <1>1, <1>2, <1>6, <1>10 DEF ResultInv
    <2>3. \A r \in Requests : r \in Unreceived' \/ Running(r)' =>
              /\ \A c \in Posted' : c.id # r
              /\ \A m \in Sent' : m.id # r
      BY <1>1, <1>2, <1>6, <1>10, <2>1 DEF ResultInv
    <2>4. QED  BY <1>0, <1>6, <1>10, <2>2, <2>3 DEF ResultInv
  <1>12. RequestInv'
    <2>1. \A r \in Requests :
              r \in Unreceived' \/ r = active' \/ (\E c \in Posted' : c.id = r) \/ (\E m \in Sent' : m.id = r)
                => request'[r].at \in Dispatched
      BY <1>0, <1>1, <1>2, <1>6, <1>10 DEF RequestInv
    <2>2. \A r \in Requests : Running(r)' <=> Running(r)
      BY <1>0 DEF Running
    <2>3. QED  BY <1>0, <1>6, <1>10, <2>1, <2>2 DEF RequestInv
  <1>13. RemovedInv'
    <2>1. \A r \in Requests : Removing(r) => Removing(r)'
      BY <1>0, <1>1, <1>2, <1>6 DEF Removing
    <2>2. QED  BY <1>0, <1>10, <2>1 DEF RemovedInv
  <1>14. UpgradeInv' /\ UnusedInv'
    <2>1. ActiveKind' = ActiveKind
      BY <1>0 DEF ActiveKind
    <2>2. QED  BY <1>0, <1>6, <1>10, <2>1 DEF UpgradeInv, UnusedInv
  <1>15. QED
    BY <1>0, <1>7, <1>8, <1>9, <1>11, <1>12, <1>13, <1>14, SameEnrollment DEF CommandsInv

(* What leaves the Agent's memory releases it when it is the result of the *)
(* active command, and only then.                                          *)
LEMMA Released ==
    ASSUME CommandsInv, NEW c \in Posted, Posted' \subseteq Posted \ {c},
           IF c.release THEN active' = 0 /\ step' = "none" ELSE UNCHANGED <<active, step>>
    PROVE  \/ active' = active /\ step' = step
           \/ active' = 0 /\ step' = "none" /\ \A d \in Posted' : ~ d.release
  <1>1. \A d \in Posted : d # c /\ c.release => ~ d.release
    BY DEF CommandsInv, ResultInv
  <1>2. QED  BY <1>1

LEMMA SendFailsStep ==
    ASSUME CommandsInv, SendFails
    PROVE  CommandsInv'
  <1> DEFINE h == Head(results)
             q == SetToSeq(awaiting)
             rest == Tail(results)
  <1>0. /\ stream # 0 /\ results # <<>> /\ Fault /\ stream' = 0 /\ down' = <<>>
        /\ results' = rest \o q /\ awaiting' = {}
        /\ IF h.release THEN active' = 0 /\ step' = "none" ELSE UNCHANGED <<active, step>>
        /\ UNCHANGED <<request, broker, outbound, handler, peer, up, overtaken, process, planned, desired,
                       applied, files, service, changes>>
        /\ UNCHANGED <<enrollment, controller>>
    BY DEF SendFails, controller, state, host
  <1>1. /\ h \in Posted /\ h \notin awaiting
        /\ rest \in Seq(Completion) /\ IsInjective(rest)
        /\ ToSet(rest) = ToSet(results) \ {h}
    BY <1>0, HeadOfResults
  <1>2. /\ awaiting \in SUBSET Completion /\ IsFiniteSet(awaiting)
        /\ awaiting \cap ToSet(results) = {}
    BY DEF CommandsInv, TypesInv, AgentTypes, QueueInv
  <1>3. q \in Seq(Completion) /\ ToSet(q) = awaiting /\ IsInjective(q)
    BY <1>2, SetQueue
  <1> HIDE DEF h, q, rest
  <1>4. /\ results' \in Seq(Completion) /\ IsInjective(results')
        /\ ToSet(results') = (ToSet(results) \ {h}) \cup awaiting
    <2>1. ToSet(rest) \cap ToSet(q) = {}
      BY <1>1, <1>2, <1>3
    <2>2. /\ rest \o q \in Seq(Completion) /\ IsInjective(rest \o q)
          /\ ToSet(rest \o q) = ToSet(rest) \cup ToSet(q)
      BY <1>1, <1>3, <2>1, ConcatQueue
    <2>3. QED  BY <1>0, <1>1, <1>3, <2>2
  <1>5. Posted' \subseteq Posted \ {h}
    BY <1>0, <1>1, <1>4 DEF Posted
  <1>6. ConnectionInv' /\ \A s \in Streams : outbound'[s] \in {outbound[s], <<>>}
    BY <1>0, SameController DEF ConnectionsEnd
  <1>7. QueueInv' /\ StreamInv' /\ Unreceived' \subseteq Unreceived
    BY <1>0, <1>4, <1>6, FS_EmptySet, StreamLeft
  <1>8. \/ active' = active /\ step' = step
        \/ active' = 0 /\ step' = "none" /\ \A d \in Posted' : ~ d.release
    BY <1>0, <1>1, <1>5, Released
  <1>9. Shrinks
    BY <1>0, <1>5, <1>7, <1>8 DEF Shrinks, Sent
  <1>10. TypesInv'
    <2>1. AgentTypes'
      BY <1>0, <1>4, <1>8 DEF CommandsInv, TypesInv, AgentTypes
    <2>2. WireTypes'
      BY <1>0, EmptySeq, CommandsAssumption DEF CommandsInv, TypesInv, WireTypes
    <2>3. faults' \in Nat
      BY <1>0, BoundFacts
    <2>4. QED
      BY <1>0, <2>1, <2>2, <2>3 DEF CommandsInv, TypesInv, ControllerTypes, StateTypes, HostTypes,
                                    BoundTypes
  <1>11. QED
    BY <1>0, <1>7, <1>8, <1>9, <1>10, SameEnrollment, EvolveRefl, ShrinkStep DEF UninstallSteps

(* The Agent removes itself when the uninstallation r says it is done.     *)
LEMMA RemoveAgentStep ==
    ASSUME CommandsInv, RemoveAgent, NEW r \in Requests, request[r].kind = "uninstall",
           request[r].at \in Dispatched,
           request[r].at \in {"answered", "failed"} => request[r].ok = TRUE,
           r \notin Unreceived, \A m \in Sent : m.id = r => m.ok,
           faults' \in Nat,
           UNCHANGED <<controller, up, overtaken, planned, desired, service, changes>>
    PROVE  CommandsInv'
  <1>0. /\ Exit("gone") /\ LoseFiles(NodeHost)
        /\ files' = [files EXCEPT !.request = "none", !.staged = "none", !.previous = "none"]
        /\ applied' = FALSE
        /\ UNCHANGED <<node, tokens, keys, made, attempt, requests, reply, installs>>
    BY DEF RemoveAgent
  <1>1. /\ process' = "gone" /\ stream' = 0 /\ down' = <<>> /\ active' = 0 /\ step' = "none"
        /\ results' = <<>> /\ awaiting' = {}
        /\ UNCHANGED <<request, broker, outbound, handler, peer>>
    BY <1>0 DEF Exit, controller
  <1>2. /\ AgentTypes' /\ Posted' = {} /\ IsInjective(results') /\ IsFiniteSet(awaiting')
        /\ down' \in Seq(Message) /\ stream' \in 0 .. MaxStreams
    BY <1>0, ExitFacts
  <1>3. EnrollmentInv'
    BY <1>0, LoseFilesStep, CommandsAssumption DEF CommandsInv
  <1>4. HostTypes' /\ files'.binary = files.binary
    BY <1>0 DEF CommandsInv, TypesInv, HostTypes
  <1>5. /\ ControllerTypes' /\ RequestsEvolve /\ ConnectionInv'
        /\ \A s \in Streams : outbound'[s] \in {outbound[s], <<>>}
        /\ up' \in [Streams -> Seq(Answer)] /\ Sent' \subseteq Sent
    BY SameController DEF ConnectionsEnd
  <1>6. TypesInv'
    BY <1>0, <1>2, <1>4, <1>5 DEF CommandsInv, TypesInv, WireTypes, StateTypes, BoundTypes
  <1>7. QueueInv' /\ StreamInv' /\ Unreceived' \subseteq Unreceived
    BY <1>1, <1>2, <1>5, StreamLeft
  <1>8. Shrinks /\ NodeKept /\ KindsKept
    BY <1>0, <1>1, <1>2, <1>5, <1>7 DEF Shrinks, NodeKept, KindsKept
  <1>9. ResultInv' /\ RequestInv'
    BY <1>5, <1>8, ShrinkResult, ShrinkRequest
  <1>10. UpgradeInv' /\ UnusedInv'
    BY <1>0, <1>1, <1>2, <1>4, <1>8, UpgradeKept, UnusedKept DEF UninstallSteps
  <1>11. RemovedInv'
    <2>1. RequestInv /\ 0 \notin Requests /\ node' = node /\ request' = request
      BY <1>0, <1>1, PlaceTypes DEF CommandsInv
    <2>2. node.seen
      BY <2>1 DEF RequestInv, Dispatched
    <2>3. CASE request[r].at = "revoked"
      BY <2>1, <2>2, <2>3 DEF RemovedInv, RequestInv
    <2>4. CASE request[r].at # "revoked"
      <3>1. /\ request[r].at \in {"pending", "answered", "lost", "timeout", "crashed", "unsaved"}
            /\ request[r].at = "answered" => request[r].ok
        BY <2>1, <2>4 DEF RequestInv, Dispatched
      <3>2. Removing(r)'
        BY <1>1, <1>2, <1>5, <1>7, <2>1, <3>1 DEF Removing
      <3>3. QED  BY <2>1, <2>2, <3>2 DEF RemovedInv
    <2>5. QED  BY <2>3, <2>4
  <1>12. QED  BY <1>3, <1>6, <1>7, <1>9, <1>10, <1>11 DEF CommandsInv

LEMMA ShutdownStep ==
    ASSUME CommandsInv, Shutdown
    PROVE  CommandsInv'
  <1>0. /\ step = "ok" /\ ActiveKind = "uninstall" /\ RemoveAgent /\ Fault
        /\ UNCHANGED <<controller, up, overtaken, planned, desired, service, changes>>
    BY DEF Shutdown
  <1>1. /\ active # 0 /\ active \in Requests /\ request[active].kind = "uninstall"
        /\ request[active].at \in Dispatched
    BY <1>0, DispatchedFacts DEF ActiveKind
  <1>2. Running(active) /\ active \notin Unreceived /\ \A m \in Sent : m.id # active
    BY <1>0, <1>1 DEF Running, CommandsInv, ResultInv
  <1>3. request[active].at \notin {"answered", "failed"}
    BY <1>1, <1>2 DEF CommandsInv, RequestInv
  <1>4. faults' \in Nat
    BY <1>0, BoundFacts
  <1>5. QED  BY <1>0, <1>1, <1>2, <1>3, <1>4, RemoveAgentStep

LEMMA ReceiveAckStep ==
    ASSUME CommandsInv, ReceiveAck
    PROVE  CommandsInv'
  <1>0. /\ down # <<>> /\ Head(down).event = "ack"
        /\ UNCHANGED <<controller, up, overtaken, planned, desired, service, bounds>>
        /\ UNCHANGED <<request, broker, outbound, handler, peer, faults, changes>>
    BY DEF ReceiveAck, controller, bounds
  <1>1. PICK c \in awaiting :
           /\ c.id = Head(down).id
           /\ \/ c.ok /\ request[c.id].kind = "uninstall" /\ RemoveAgent
              \/ Exit("down") /\ UNCHANGED <<enrollment, applied, files>>
              \/ /\ down' = Tail(down) /\ awaiting' = awaiting \ {c}
                 /\ IF c.release THEN active' = 0 /\ step' = "none" ELSE UNCHANGED <<active, step>>
                 /\ UNCHANGED <<enrollment, stream, process, results, applied, files>>
    BY DEF ReceiveAck
  <1>2. /\ c \in Posted /\ c \in Completion /\ c.id \in Requests /\ request[c.id].at \in Dispatched
        /\ faults' \in Nat
    BY <1>0, DispatchedFacts, BoundFacts DEF Posted
  <1>3. CASE c.ok /\ request[c.id].kind = "uninstall" /\ RemoveAgent
    <2>1. c.id \notin Unreceived /\ \A m \in Sent : m.id = c.id => m.ok
      BY <1>2, <1>3 DEF CommandsInv, ResultInv
    <2>2. request[c.id].at \in {"answered", "failed"} => request[c.id].ok = TRUE
      <3>1. request[c.id].ok \in BOOLEAN
        BY <1>2 DEF CommandsInv, TypesInv, ControllerTypes, Request
      <3>2. QED  BY <1>2, <1>3, <3>1 DEF CommandsInv, RequestInv
    <2>3. QED  BY <1>0, <1>2, <1>3, <2>1, <2>2, RemoveAgentStep
  <1>4. CASE Exit("down") /\ UNCHANGED <<enrollment, applied, files>>
    <2>1. UNCHANGED <<state, host>>
      BY <1>0, <1>4 DEF state, host
    <2>2. QED  BY <1>0, <1>2, <1>4, <2>1, SameController, ExitStep
  <1>5. CASE /\ down' = Tail(down) /\ awaiting' = awaiting \ {c}
             /\ IF c.release THEN active' = 0 /\ step' = "none" ELSE UNCHANGED <<active, step>>
             /\ UNCHANGED <<enrollment, stream, process, results, applied, files>>
    <2>1. /\ down' \in Seq(Message) /\ IsInjective(down')
          /\ ToSet(down') = ToSet(down) \ {[event |-> "ack", id |-> c.id]}
          /\ [event |-> "ack", id |-> c.id] \in ToSet(down)
      BY <1>0, <1>1, <1>5, HeadOfDown
    <2>2. c \notin ToSet(results) /\ IsFiniteSet(awaiting')
      BY <1>5, FS_RemoveElement DEF CommandsInv, QueueInv
    <2>3. /\ Posted' \subseteq Posted \ {c} /\ Unreceived' = Unreceived /\ Sent' = Sent
          /\ Acked' = Acked \ {c.id} /\ c.id \in Acked
      <3>1. Posted' \subseteq Posted \ {c}
        BY <1>5, <2>2 DEF Posted
      <3>2. Unreceived' = Unreceived /\ Sent' = Sent
        BY <1>0, <2>1 DEF Unreceived, Queued, Sent
      <3>3. Acked' = Acked \ {c.id} /\ c.id \in Acked
        BY <1>2, <2>1 DEF Acked
      <3>4. QED  BY <3>1, <3>2, <3>3
    <2>4. \/ active' = active /\ step' = step
          \/ active' = 0 /\ step' = "none" /\ \A d \in Posted' : ~ d.release
      BY <1>2, <1>5, <2>3, Released
    <2>5. Shrinks
      BY <2>3, <2>4 DEF Shrinks
    <2>6. TypesInv'
      <3>1. AgentTypes'
        BY <1>5, <2>4 DEF CommandsInv, TypesInv, AgentTypes
      <3>2. QED
        BY <1>0, <1>5, <2>1, <3>1 DEF CommandsInv, TypesInv, ControllerTypes, WireTypes, StateTypes,
                                      HostTypes, BoundTypes
    <2>7. QueueInv'
      <3>1. awaiting' \cap ToSet(results) = {}
        BY <1>5 DEF CommandsInv, QueueInv
      <3>2. QED  BY <1>0, <1>5, <2>1, <2>2, <3>1 DEF CommandsInv, QueueInv, Queued
    <2>8. StreamInv'
      <3>1. \A id : id # c.id /\ (\E d \in awaiting : d.id = id) => \E d \in awaiting' : d.id = id
        BY <1>5
      <3>2. \A id \in Acked' : \E d \in awaiting' : d.id = id
        BY <2>3, <3>1 DEF CommandsInv, StreamInv
      <3>3. stream # 0
        BY <1>0 DEF CommandsInv, StreamInv
      <3>4. \A m \in ToSet(up[stream]) : m.id \notin Acked' /\ \E d \in awaiting' : d.id = m.id
        BY <2>3, <3>1, <3>3 DEF CommandsInv, StreamInv
      <3>5. registered' = registered
        BY <1>0 DEF registered
      <3>6. QED  BY <1>0, <1>5, <3>2, <3>3, <3>4, <3>5 DEF CommandsInv, StreamInv, ConnectionInv
    <2>9. QED
      BY <1>0, <1>5, <2>4, <2>5, <2>6, <2>7, <2>8, SameEnrollment, EvolveRefl, ShrinkStep
         DEF UninstallSteps
  <1>6. QED  BY <1>1, <1>3, <1>4, <1>5

-----------------------------------------------------------------------------
(* The theorems.                                                           *)

LEMMA EnrolledInv ==
    ASSUME NEW n \in Nat, InitEnrolled(n)
    PROVE  EnrollmentInv
  <1> DEFINE k == <<NodeHost, 1>>
  <1>1. k \in Key /\ Owner(k) = NodeHost /\ NodeHost \in Hosts /\ 1 \in 0 .. MaxKeys /\ 0 \in 0 .. MaxKeys
    BY KeyFacts, EnrollmentAssumption, CommandsAssumption
  <1>2. /\ node = [NoNode EXCEPT !.exists = TRUE, !.assigned = TRUE]
        /\ keys = [l \in Key |-> IF l = k THEN "valid" ELSE "none"]
        /\ pending = [h \in Hosts |-> NoKey]
        /\ identity = [h \in Hosts |-> IF h = NodeHost THEN k ELSE NoKey]
        /\ made = [h \in Hosts |-> IF h = NodeHost THEN 1 ELSE 0]
        /\ wiped = {} /\ requests = {} /\ installs = n
        /\ attempt = [h \in Hosts |-> Idle] /\ reply = [h \in Hosts |-> "none"]
        /\ \E used : tokens = [t \in Tokens |-> IF t = used
                                     THEN [state |-> "used", fresh |-> TRUE, key |-> k]
                                     ELSE NoToken]
    BY DEF InitEnrolled
  <1> HIDE DEF k
  <1>3. node \in NodeRow
    BY <1>2 DEF NodeRow, NoNode
  <1>4. tokens \in [Tokens -> TokenRow]
    BY <1>1, <1>2 DEF TokenRow, NoToken
  <1>5. EnrollmentTypeOK
    BY <1>1, <1>2, <1>3, <1>4 DEF EnrollmentTypeOK, NodeRow, TokenRow
  <1>6. AtMostOneKey /\ PendingInv /\ AttemptInv
    BY <1>2 DEF AtMostOneKey, PendingInv, AttemptInv
  <1>7. HeldInv
    BY <1>1, <1>2 DEF HeldInv, Held
  <1>8. QED  BY <1>5, <1>6, <1>7 DEF EnrollmentInv

LEMMA CommandsInit == Init => CommandsInv
  <1> SUFFICES ASSUME Init PROVE CommandsInv
    OBVIOUS
  <1>1. PICK c \in Cases :
           /\ IF c.enrolled THEN InitEnrolled(c.installs) ELSE InitFresh(c.installs)
           /\ request = [r \in Requests |->
                [kind |-> "none", ok |-> FALSE,
                 at |-> IF r \in c.requests THEN "idle" ELSE "unused"]]
           /\ faults = c.faults
           /\ changes = c.changes
           /\ process = IF c.enrolled THEN "up" ELSE "down"
    BY DEF Init
  <1>2. EnrollmentInv
    <2>1. c.installs \in Nat
      BY CommandsAssumption
    <2>2. QED  BY <1>1, <2>1, EnrolledInv, FreshInv
  <1>3. /\ broker = 0 /\ outbound = [s \in Streams |-> <<>>]
        /\ handler = [s \in Streams |-> "none"] /\ peer = [s \in Streams |-> NoKey]
        /\ up = [s \in Streams |-> <<>>]
        /\ down = <<>> /\ stream = 0 /\ overtaken = FALSE /\ active = 0 /\ step = "none"
        /\ results = <<>> /\ awaiting = {}
        /\ planned = FALSE /\ desired = FALSE /\ applied = FALSE
        /\ files = [request |-> "none", staged |-> "none", binary |-> "good", previous |-> "none"]
        /\ service = "idle"
    BY DEF Init
  <1>4. /\ \A S : <<>> \in Seq(S)
        /\ Len(<<>>) = 0 /\ ToSet(<<>>) = {} /\ IsInjective(<<>>) /\ IsFiniteSet({})
    BY EmptySeq, EmptyQueue, FS_EmptySet
  <1>5. TypesInv
    <2>1. request \in [Requests -> Request]
      BY <1>1 DEF Request
    <2>2. ControllerTypes
      <3>1. /\ outbound \in [Streams -> Seq(Requests)] /\ 0 \in 0 .. MaxStreams
            /\ \A s \in Streams : Len(outbound[s]) <= OutboundSlots
        BY <1>3, <1>4, CommandsAssumption
      <3>2. QED  BY <1>3, <2>1, <3>1 DEF ControllerTypes
    <2>3. WireTypes
      <3>1. up \in [Streams -> Seq(Answer)] /\ 0 \in 0 .. MaxStreams
        BY <1>3, <1>4, CommandsAssumption
      <3>2. down \in Seq(Message) /\ stream \in 0 .. MaxStreams /\ overtaken \in BOOLEAN
        BY <1>3, <1>4, <3>1
      <3>3. QED  BY <3>1, <3>2 DEF WireTypes
    <2>4. AgentTypes
      BY <1>1, <1>3, <1>4 DEF AgentTypes
    <2>5. StateTypes /\ HostTypes
      BY <1>3 DEF StateTypes, HostTypes
    <2>6. BoundTypes
      BY <1>1, CommandsAssumption DEF BoundTypes
    <2>7. QED  BY <2>2, <2>3, <2>4, <2>5, <2>6 DEF TypesInv
  <1>6. Queued = {} /\ Unreceived = {} /\ Acked = {} /\ Posted = {} /\ Sent = {}
    <2>1. \A s \in Streams : ToSet(up[s]) = {} /\ ToSet(outbound[s]) = {}
      BY <1>3, <1>4
    <2>2. QED  BY <1>3, <1>4, <2>1 DEF Queued, Unreceived, Acked, Posted, Sent
  <1>7. QueueInv /\ StreamInv
    <2>1. QueueInv
      BY <1>3, <1>4, <1>6 DEF QueueInv
    <2>2. registered = {}
      BY <1>3 DEF registered
    <2>3. ConnectionInv
      BY <1>3 DEF ConnectionInv
    <2>4. QED  BY <1>3, <1>6, <2>1, <2>2, <2>3 DEF StreamInv
  <1>8. ResultInv
    BY <1>3, <1>6, PlaceTypes, <1>5 DEF ResultInv, Running
  <1>9. RequestInv
    BY <1>1, <1>3, <1>5, <1>6, PlaceTypes DEF RequestInv
  <1>10. RemovedInv /\ UpgradeInv /\ UnusedInv
    BY <1>1, <1>3, <1>6 DEF RemovedInv, UpgradeInv, UnusedInv
  <1>11. QED  BY <1>2, <1>5, <1>7, <1>8, <1>9, <1>10 DEF CommandsInv

LEMMA CommandsStep ==
    ASSUME CommandsInv, [Next]_vars
    PROVE  CommandsInv'
  <1>1. CASE Hosting
    BY <1>1, HostingStep
  <1>2. CASE AgentStep \/ StartTimesOut
    BY <1>2, AgentSteps, PostResultStep, ReceiveCommandStep, ReceiveAckStep, SendResultStep,
       OpenSessionStep DEF AgentStep, Execute
  <1>3. CASE ControllerStep
    <2>1. ASSUME NEW s \in Streams, Greet(s) \/ SendCommand(s) \/ HandleResult(s) \/ CloseHandler(s)
          PROVE  CommandsInv'
      BY <2>1, AuthorizeHelloStep, RecordsHelloStep, RegisterStep, SendCommandStep,
         HandleResultStep, CloseHandlerStep DEF Greet
    <2>2. QED  BY <1>3, <2>1, DeauthorizeStep, RespondStep DEF ControllerStep
  <1>4. CASE HostStep
    BY <1>4, MaintenanceStep, RestartStep, HostStopsStep DEF HostStep
  <1>5. CASE Disconnect \/ ReceiveExpired \/ ControllerCrash \/ AgentCrash \/ Shutdown \/ SendFails
    BY <1>5, DisconnectStep, ControllerCrashStep, AgentCrashStep, ShutdownStep, SendFailsStep
  <1>6. ASSUME NEW s \in Streams, RefuseResult(s)
        PROVE  CommandsInv'
    BY <1>6, RefuseResultStep
  <1>7. ASSUME NEW r \in Requests, NEW kind \in {"check", "upgrade"}, Command(r, kind)
        PROVE  CommandsInv'
    BY <1>7, CommandStep
  <1>8. ASSUME NEW r \in Requests, UninstallNode(r) \/ waitForRetiredNode(r) \/ Timeout(r)
        PROVE  CommandsInv'
    BY <1>8, UninstallNodeStep, waitForRetiredNodeStep, TimeoutStep
  <1>9. CASE ChangePlan \/ ApplySnapshot
    BY <1>9, ChangePlanStep, ApplySnapshotStep
  <1>10. CASE UNCHANGED vars
    <2>1. /\ UNCHANGED <<request, broker, outbound, handler, peer, up, down, stream, overtaken, process,
                       active, step, results, awaiting, planned, desired, applied, files,
                       service, faults, changes>>
          /\ UNCHANGED enrollment
      BY <1>10 DEF vars, controller, wires, agent, state, host, bounds
    <2>2. TypesInv'
      BY <2>1 DEF CommandsInv, TypesInv, ControllerTypes, WireTypes, AgentTypes, StateTypes,
                  HostTypes, BoundTypes
    <2>3. QueueInv' /\ StreamInv' /\ Shrinks
      BY <2>1, PipeSame DEF Shrinks
    <2>4. QED  BY <2>1, <2>2, <2>3, SameEnrollment, EvolveRefl, ShrinkStep
  <1>11. QED
    BY <1>1, <1>2, <1>3, <1>4, <1>5, <1>6, <1>7, <1>8, <1>9, <1>10 DEF Next

LEMMA CommandsInductive == Spec => []CommandsInv
  BY CommandsInit, CommandsStep, PTL DEF Spec

(* However many commands are given, the eight slots of commandResults are  *)
(* enough: each holds the result of a different command.                   *)
LEMMA ResultsFit ==
    ASSUME CommandsInv
    PROVE  Len(results) <= 8
  <1> DEFINE f == [i \in 1 .. Len(results) |-> results[i].id]
  <1>1. /\ results \in Seq(Completion) /\ IsInjective(results) /\ Len(results) \in Nat
        /\ \A i \in 1 .. Len(results) : results[i] \in Completion /\ results[i] \in Posted
        /\ \A i, j \in 1 .. Len(results) : results[i] = results[j] => i = j
    <2>1. results \in Seq(Completion) /\ IsInjective(results)
      BY DEF CommandsInv, TypesInv, AgentTypes, QueueInv
    <2>2. \A i \in 1 .. Len(results) : results[i] \in ToSet(results)
      BY <2>1, ToSetFacts
    <2>3. QED  BY <2>1, <2>2, ToSetFacts DEF Posted
  <1>2. \A c \in Completion : c.id \in Requests
    BY DEF Completion
  <1>3. f \in [1 .. Len(results) -> Requests]
    BY <1>1, <1>2
  <1>4. \A i, j \in 1 .. Len(results) : f[i] = f[j] => i = j
    BY <1>1 DEF CommandsInv, ResultInv
  <1> HIDE DEF f
  <1>5. f \in Injection(1 .. Len(results), Requests)
    BY <1>3, <1>4 DEF Injection, IsInjective
  <1>6. IsFiniteSet(Requests) /\ Cardinality(Requests) <= 8
    BY CommandsAssumption
  <1>7. Cardinality(1 .. Len(results)) <= Cardinality(Requests)
    BY <1>5, <1>6, FS_Injection
  <1>8. Cardinality(1 .. Len(results)) = Len(results)
    <2>1. \A n \in Nat : Cardinality(1 .. n) = n
      BY FS_Interval
    <2>2. QED  BY <1>1, <2>1
  <1>9. Cardinality(Requests) \in Nat
    BY <1>6, FS_CardinalityType
  <1>10. QED  BY <1>1, <1>6, <1>7, <1>8, <1>9

(* Every variable has its type, the queue of results its capacity (the     *)
(* channel commandResults of runSession) and the queue of a connection its *)
(* own (OutboundSlots).                                                    *)
THEOREM TypeCorrect == Spec => []TypeOK
  <1>1. CommandsInv => TypeOK
    <2> SUFFICES ASSUME CommandsInv PROVE TypeOK
      OBVIOUS
    <2>1. EnrollmentTypeOK /\ ControllerTypes /\ WireTypes /\ AgentTypes /\ Len(results) <= 8
      BY ResultsFit DEF CommandsInv, TypesInv, EnrollmentInv
    <2>2. StateTypes /\ HostTypes /\ BoundTypes
      BY DEF CommandsInv, TypesInv
    <2>3. <<planned, desired, applied>> \in BOOLEAN \X BOOLEAN \X BOOLEAN
      BY <2>2 DEF StateTypes
    <2>4. <<faults, changes>> \in Nat \X Nat
      BY <2>2 DEF BoundTypes
    <2>5. QED
      BY <2>1, <2>2, <2>3, <2>4
         DEF TypeOK, ControllerTypes, WireTypes, AgentTypes, HostTypes, Request, Answer, Message
  <1>2. QED  BY <1>1, CommandsInductive, PTL

(* Two machines are never the same node (CompleteEnrollment).              *)
THEOREM NeverTwoNodes == Spec => []AtMostOneKey
  <1>1. CommandsInv => AtMostOneKey
    BY DEF CommandsInv, EnrollmentInv
  <1>2. QED  BY <1>1, CommandsInductive, PTL

(* A registered key is never lost by a host that was not wiped, whatever   *)
(* answers are lost and whoever crashes (loadOrCreatePending, Enroll).     *)
THEOREM RegisteredKeyHeld == Spec => []KeyHeld
  <1>1. CommandsInv => KeyHeld
    BY DEF CommandsInv, EnrollmentInv, HeldInv, Held, KeyHeld
  <1>2. QED  BY <1>1, CommandsInductive, PTL

(* A revoked identity stays revoked (RevokeNode, DeletePendingNode).       *)
THEOREM RevokedForEver == Spec => NeverReadmitted
  <1>1. ASSUME CommandsInv, [Next]_vars, RevokedNode
        PROVE  RevokedNode' /\ \A h \in Hosts : ~ Authorized(h)'
    <2>0. EnrollmentInv /\ node \in NodeRow /\ keys \in [Key -> {"none", "valid", "revoked"}]
      <3>1. EnrollmentInv /\ EnrollmentTypeOK
        BY <1>1 DEF CommandsInv, EnrollmentInv
      <3>2. node \in NodeRow
        BY <3>1, RowTypes
      <3>3. QED  BY <3>1, <3>2 DEF EnrollmentTypeOK
    <2>1. /\ \A k \in Key : keys[k] # "none" => keys'[k] # "none"
          /\ node'.revoked
      <3>1. CASE Hosting
        BY <1>1, <2>0, <3>1, RevocationStays DEF Hosting, RevokedNode, NodeRow
      <3>2. ~ RecordHello
        BY <1>1, <2>0 DEF RecordHello, RevokedNode, NodeRow
      <3>3. ASSUME NEW r \in Requests, Respond(r)
            PROVE  /\ \A k \in Key : keys[k] # "none" => keys'[k] # "none"
                   /\ node'.revoked
        <4>1. RevokeNodeTx \/ UNCHANGED <<node, keys, tokens>>
          BY <3>3 DEF Respond
        <4>2. QED  BY <1>1, <2>0, <4>1 DEF RevokeNodeTx, RevokedNode, NodeRow
      <3>4. CASE ChangePlan
        BY <1>1, <3>4 DEF ChangePlan, RevokedNode
      <3>5. CASE ReceiveAck \/ Shutdown
        <4>1. RemoveAgent \/ UNCHANGED enrollment
          BY <3>5 DEF ReceiveAck, Shutdown
        <4>2. UNCHANGED <<node, keys>>
          BY <4>1 DEF RemoveAgent, enrollment
        <4>3. QED  BY <1>1, <4>2 DEF RevokedNode
      <3>6. CASE UNCHANGED enrollment
        BY <1>1, <3>6 DEF RevokedNode, enrollment
      <3>7. \/ Hosting \/ (\E r \in Requests : Respond(r)) \/ ChangePlan
            \/ ReceiveAck \/ Shutdown \/ UNCHANGED enrollment
        <4>1. CASE UNCHANGED vars
          BY <4>1 DEF vars
        <4>2. ASSUME AgentStep PROVE ReceiveAck \/ UNCHANGED enrollment
          BY <4>2 DEF AgentStep, Execute, executeTCPCheck, StageUpgrade, CheckUninstall,
                      WriteRequest, PurgeNode, StartService, PostResult, Step, ReceiveCommand,
                      SendResult, OpenSession
        <4>3. ASSUME ControllerStep
              PROVE  (\E r \in Requests : Respond(r)) \/ UNCHANGED enrollment
          <5>1. ASSUME NEW s \in Streams, Greet(s) PROVE UNCHANGED enrollment
            BY <3>2, <5>1 DEF Greet, AuthorizeHello, RecordsHello, Register
          <5>2. QED
            BY <4>3, <5>1 DEF ControllerStep, SendCommand, HandleResult, CloseHandler, Deauthorize
        <4>4. CASE Next
          BY <4>2, <4>3, <4>4
             DEF Next, HostStep, Maintenance, Restart, HostStops, Disconnect, ControllerCrash,
                 AgentCrash, RefuseResult, Command, UninstallNode, waitForRetiredNode, Timeout,
                 ApplySnapshot, ReceiveExpired, StartTimesOut, Step, SendFails
        <4>5. QED  BY <1>1, <4>1, <4>4
      <3>8. QED  BY <3>1, <3>3, <3>4, <3>5, <3>6, <3>7
    <2>2. QED  BY <1>1, <2>1 DEF RevokedNode, Authorized, AuthorizeNodeKey
  <1>2. CommandsInv /\ [Next]_vars =>
           [RevokedNode => RevokedNode' /\ \A h \in Hosts : ~ Authorized(h)']_enrollment
    BY <1>1
  <1>3. QED  BY <1>2, CommandsInductive, PTL DEF Spec, NeverReadmitted

(* Commands go to the stream the Agent is in once its handler has          *)
(* registered, in whatever order the handlers of its streams come to       *)
(* Register and return, unless one of them registers later than the        *)
(* handler of that stream (Connect, Register and the deferred unregister). *)
THEOREM AlwaysCommandable == Spec => []Commandable
  <1>1. CommandsInv => Commandable
    BY DEF CommandsInv, StreamInv, Commandable
  <1>2. QED  BY <1>1, CommandsInductive, PTL

(* No ACK surprises the Agent (handleControllerEvent, runSession).         *)
THEOREM AcksAlwaysAwaited == Spec => []AcksAwaited
  <1>1. CommandsInv => AcksAwaited
    <2> SUFFICES ASSUME CommandsInv, NEW i \in 1 .. Len(down), down[i].event = "ack"
                 PROVE  \E c \in awaiting : c.id = down[i].id
      BY DEF AcksAwaited
    <2>1. down[i] \in ToSet(down)
      BY ToSetFacts DEF CommandsInv, TypesInv, WireTypes
    <2>2. down[i] = [event |-> "ack", id |-> down[i].id] /\ down[i].id \in Requests
      BY <2>1, PlaceTypes DEF CommandsInv, Message
    <2>3. down[i].id \in Acked
      BY <2>1, <2>2 DEF Acked
    <2>4. QED  BY <2>3 DEF CommandsInv, StreamInv
  <1>2. QED  BY <1>1, CommandsInductive, PTL

(* Who has removed the Agent revokes its identity (handleUninstallNode).   *)
THEOREM RemovedAlwaysRevoked == Spec => []RemovedIsRevoked
  <1>1. CommandsInv => RemovedIsRevoked
    BY DEF CommandsInv, RemovedInv, Removing, RemovedIsRevoked
  <1>2. QED  BY <1>1, CommandsInductive, PTL

(* A reported upgrade runs (applyUpgrade).                                 *)
THEOREM ReportedUpgradeRuns == Spec => []UpgradedRuns
  <1>1. CommandsInv => UpgradedRuns
    BY DEF CommandsInv, UpgradeInv, UpgradedRuns, Posted
  <1>2. QED  BY <1>1, CommandsInductive, PTL

(* An Agent that removes itself carries no forward (executeUninstall,      *)
(* handleControllerEvent).                                                 *)
THEOREM RemovedAlwaysUnused == Spec => RemovedUnused
  <1>1. ASSUME CommandsInv, [Next]_vars, process' = "gone", process # "gone"
        PROVE  ~ applied
    <2>1. ASSUME ReceiveAck PROVE ~ applied
      <3>1. PICK c \in awaiting :
               CASE c.ok /\ request[c.id].kind = "uninstall" -> RemoveAgent
                 [] c.ok /\ request[c.id].kind = "upgrade" -> Exit("down")
                 [] OTHER -> UNCHANGED process
        BY <2>1 DEF ReceiveAck
      <3>2. c.ok /\ request[c.id].kind = "uninstall"
        BY <1>1, <3>1 DEF Exit
      <3>3. QED  BY <1>1, <3>2 DEF CommandsInv, UnusedInv, Posted
    <2>2. CASE Shutdown
      BY <1>1, <2>2 DEF Shutdown, CommandsInv, UnusedInv
    <2>3. ReceiveAck \/ Shutdown
      <3>1. CASE UNCHANGED vars
        BY <1>1, <3>1 DEF vars, agent
      <3>2. CASE Next
        <4>1. ASSUME AgentStep PROVE ReceiveAck \/ UNCHANGED process
          BY <4>1 DEF AgentStep, Execute, executeTCPCheck, StageUpgrade, CheckUninstall,
                      WriteRequest, PurgeNode, StartService, PostResult, Step, ReceiveCommand,
                      SendResult, OpenSession, agent
        <4>2. ASSUME ControllerStep PROVE process' \in {process, "down"}
          <5>1. ASSUME NEW s \in Streams, Greet(s) PROVE process' \in {process, "down"}
            BY <5>1 DEF Greet, AuthorizeHello, RecordsHello, Register, Advances, Exit, agent
          <5>2. QED
            BY <4>2, <5>1 DEF ControllerStep, SendCommand, HandleResult, CloseHandler, Deauthorize,
                              Respond, Exit, agent
        <4>3. ASSUME HostStep PROVE process' # "gone"
          BY <1>1, <4>3 DEF HostStep, Maintenance, Restart, HostStops, Exit
        <4>4. QED
          BY <1>1, <3>2, <4>1, <4>2, <4>3
             DEF Next, Hosting, Disconnect, ControllerCrash, AgentCrash, RefuseResult, Command,
                 UninstallNode, waitForRetiredNode, Timeout, ChangePlan, ApplySnapshot,
                 ReceiveExpired, StartTimesOut, Step, SendFails, Exit, agent
      <3>3. QED  BY <1>1, <3>1, <3>2
    <2>4. QED  BY <2>1, <2>2, <2>3
  <1>2. CommandsInv /\ [Next]_vars => [process' = "gone" /\ process # "gone" => ~ applied]_vars
    BY <1>1
  <1>3. QED  BY <1>2, CommandsInductive, PTL DEF Spec, RemovedUnused
=============================================================================
