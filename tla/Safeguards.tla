----------------------------- MODULE Safeguards ------------------------------
(* The parts of the gateway that guard what is let through and kept: approvals of tool *)
(* calls (ApprovalGate), paired devices (DevicePairing) and nodes (NodePairing), the   *)
(* idempotency keys of send (SendDedupe), the settings and their files (Settings), the *)
(* update of the server itself (SelfUpdate), the websocket clients (Connections) and   *)
(* the chat completions (Completions).  They share no state, so a behaviour is one of  *)
(* a single part.  They are proved here for every value of the constants, and MCGateway, *)
(* which extends this module, checks them on an instance beside other parts.            *)
EXTENDS Naturals, Sequences, FiniteSetTheorems, TLAPS

CONSTANTS
    GateRequests, GateWaiters, GateMaxResolves,
    DevRequests, DevDevices, DevDeviceOf, DevRoles, DevRoleOf, DevScopes, DevScopesOf,
    DevCallers, DevMaxCalls, DevMaxFaults,
    NodeRequests, NodeNodes, NodeNodeOf, NodeInvokes, NodeInvokedOn, NodeMaxPending,
    SendCalls, SendKeyless, SendKeys, SendKeyOf,
    SetClients, SetMixes, SetMaxFaults,
    UpdCalls, UpdWanted, UpdMaxVersion,
    ConnRaw, ConnRouted, ConnCapacity, ConnMaxFrames, ConnMaxEvents,
    CompRequests, CompMaxRounds, CompMaxChunks,
    None

VARIABLES
    part,                                              \* the part of this behaviour
    approvals, expired, waiter, decisions, asked,      \* of ApprovalGate
    pending, index, paired, disk, devTmp, call, calls, \* of DevicePairing
    announced, decided, open, mixed, faults,
    store, old, pairs, nodeIndex, connected, asking,   \* of NodePairing
    found, approving, rejecting, verifying, invoke, reported,
    pc, reply, gate, dedupe, delivered, context,       \* of SendDedupe
    kind, setting, config, configFile, live, afile,    \* of Settings
    stale, setFaults, setRaced,
    remote, tree, binary, git, cargo, update,          \* of SelfUpdate
    tmp, sentinel, due, down, crossed,
    server, called, signal, conn, inbox, taken,        \* of Connections
    answered, sessions, published, cursor, joined, heard,
    hatching, tooled, identity, log, landing, lost,    \* of Completions
    req, stage, recalled, rounds, text, sent, answer, cleared, failed

-----------------------------------------------------------------------------
(* Approvals.                                                                *)

Gate == INSTANCE ApprovalGate WITH
    Requests <- GateRequests, Waiters <- GateWaiters, MaxResolves <- GateMaxResolves,
    pending <- approvals, decided <- decisions

\* None is not a status, and not an answer to a waiter.
NoneIsNothing == None \notin Gate!Final \cup {"pending", "notFound", "timeout"}

\* A status that is a decision was made by somebody, and only requests that were made are
\* decided.
StatusWasDecided ==
    /\ decisions \in [GateRequests -> Seq(Gate!Final \cup {"pending"})]
    /\ asked \subseteq GateRequests
    /\ \A r \in GateRequests : approvals[r] \in Gate!Final => Gate!Contains(decisions[r], approvals[r])
    /\ \A r \in GateRequests : decisions[r] # <<>> => r \in asked

\* The inductive invariant.
GateInv == Gate!DecisionsStand /\ StatusWasDecided

\* What was appended is last, and what was contained stays contained.
LEMMA AppendKeeps ==
    ASSUME NEW S, NEW s \in Seq(S), NEW d \in S
    PROVE  /\ Append(s, d) \in Seq(S) /\ Append(s, d) # <<>>
           /\ Gate!Last(Append(s, d)) = d /\ Gate!Contains(Append(s, d), d)
           /\ \A e : Gate!Contains(s, e) => Gate!Contains(Append(s, d), e)
  <1>1. /\ Append(s, d) \in Seq(S) /\ Len(Append(s, d)) = Len(s) + 1 /\ Len(s) \in Nat
        /\ Append(s, d)[Len(s) + 1] = d
        /\ \A i \in 1..Len(s) : Append(s, d)[i] = s[i]
    OBVIOUS
  <1> DEFINE t == Append(s, d)
  <1> HIDE DEF t
  <1>2. t \in Seq(S) /\ Len(t) = Len(s) + 1 /\ t[Len(s) + 1] = d /\ Len(s) + 1 \in 1..Len(t)
    BY <1>1 DEF t
  <1>3. \A i \in 1..Len(s) : t[i] = s[i] /\ i \in 1..Len(t)
    BY <1>1, <1>2 DEF t
  <1>4. t # <<>> /\ Gate!Last(t) = d /\ Gate!Contains(t, d)
    BY <1>1, <1>2 DEF Gate!Last, Gate!Contains
  <1>5. ASSUME NEW e, Gate!Contains(s, e) PROVE Gate!Contains(t, e)
    BY <1>3, <1>5 DEF Gate!Contains
  <1> QED BY <1>2, <1>4, <1>5 DEF t

\* Evicting takes away undecided requests only.
LEMMA EvictedKeeps ==
    ASSUME NoneIsNothing, Gate!TypeOK
    PROVE  /\ Gate!Evicted \in [GateRequests -> Gate!Final \cup {"pending", None}]
           /\ \A r \in GateRequests : Gate!Evicted[r] \in {approvals[r], None}
           /\ \A r \in GateRequests : approvals[r] \in Gate!Final => Gate!Evicted[r] = approvals[r]
           /\ \A r \in GateRequests : Gate!Evicted[r] \in Gate!Final => approvals[r] = Gate!Evicted[r]
  BY DEF NoneIsNothing, Gate!TypeOK, Gate!Evicted, Gate!Final

\* A list that was only evicted from keeps what the invariant says of it.
LEMMA EvictionStep ==
    ASSUME NoneIsNothing, GateInv, approvals' = Gate!Evicted, UNCHANGED <<expired, decisions, asked>>
    PROVE  /\ Gate!DecisionsAreKept' /\ StatusWasDecided'
           /\ approvals' \in [GateRequests -> Gate!Final \cup {"pending", None}]
           /\ \A r \in GateRequests : approvals'[r] # None => r \in asked
  <1>1. Gate!TypeOK
    BY DEF GateInv, Gate!DecisionsStand
  <1>2. /\ approvals' \in [GateRequests -> Gate!Final \cup {"pending", None}]
        /\ \A r \in GateRequests : approvals'[r] \in {approvals[r], None}
        /\ \A r \in GateRequests : approvals[r] \in Gate!Final => approvals'[r] = approvals[r]
        /\ \A r \in GateRequests : approvals'[r] \in Gate!Final => approvals[r] = approvals'[r]
    BY <1>1, EvictedKeeps
  <1>3. Gate!DecisionsAreKept'
    BY <1>2 DEF GateInv, Gate!DecisionsStand, Gate!DecisionsAreKept
  <1>4. StatusWasDecided'
    BY <1>2 DEF GateInv, StatusWasDecided
  <1> QED BY <1>1, <1>2, <1>3, <1>4 DEF Gate!TypeOK

\* A waiter's last poll.
LEMMA WaiterStep ==
    ASSUME NoneIsNothing, GateInv, NEW w \in GateWaiters,
           Gate!WaitDecision(w) \/ Gate!WaitTimesOut(w) PROVE GateInv'
  <1>1. Gate!TypeOK /\ approvals' = Gate!Evicted /\ UNCHANGED <<expired, decisions, asked>>
    BY DEF GateInv, Gate!DecisionsStand, Gate!WaitDecision, Gate!WaitTimesOut
  <1>2. PICK a \in Gate!Final \cup {"notFound", "timeout"} :
            /\ waiter' = [waiter EXCEPT ![w].told = a]
            /\ a \in Gate!Final => approvals[waiter[w].id] = a
    <2>1. waiter[w].id \in GateRequests
      BY <1>1 DEF Gate!TypeOK
    <2>2. CASE Gate!WaitTimesOut(w)
      BY <2>2 DEF Gate!WaitTimesOut, Gate!Final
    <2>3. CASE Gate!WaitDecision(w)
      <3>1. Gate!Evicted[waiter[w].id] \in Gate!Final \cup {None} /\ Gate!Answer(waiter[w].id) \in Gate!Final \cup {"notFound"}
        BY <1>1, <2>1, <2>3, EvictedKeeps DEF Gate!WaitDecision, Gate!Answer
      <3>2. Gate!Answer(waiter[w].id) \in Gate!Final => approvals[waiter[w].id] = Gate!Answer(waiter[w].id)
        BY <1>1, <2>1, <3>1, EvictedKeeps DEF Gate!Answer, Gate!Final
      <3> QED BY <2>3, <3>1, <3>2 DEF Gate!WaitDecision
    <2> QED BY <2>2, <2>3
  <1>3. /\ waiter' \in [GateWaiters -> [id : GateRequests, told : Gate!Final \cup {"notFound", "timeout", None}]]
        /\ waiter'[w].id = waiter[w].id /\ waiter'[w].told = a /\ waiter[w].id \in GateRequests
        /\ \A v \in GateWaiters : v # w => waiter'[v] = waiter[v]
    BY <1>1, <1>2 DEF Gate!TypeOK
  <1>4. Gate!ToldWasDecided'
    <2>1. a \in Gate!Final => Gate!Contains(decisions[waiter[w].id], a)
      BY <1>2, <1>3 DEF GateInv, StatusWasDecided
    <2> QED BY <1>1, <1>3, <2>1 DEF GateInv, Gate!DecisionsStand, Gate!ToldWasDecided
  <1> QED BY <1>1, <1>3, <1>4, EvictionStep DEF GateInv, Gate!DecisionsStand, Gate!TypeOK

\* A decision, whether it is made on the list as it is or on the evicted one.
LEMMA ResolveStep ==
    ASSUME NoneIsNothing, GateInv, NEW r \in GateRequests, NEW d \in Gate!Final \cup {"pending"},
           NEW list \in {approvals, Gate!Evicted}, Gate!Resolve(r, d, list)
    PROVE  GateInv'
  <1>1. /\ Gate!TypeOK /\ StatusWasDecided /\ UNCHANGED <<expired, waiter, asked>>
        /\ approvals[r] # None
        /\ decisions' = [decisions EXCEPT ![r] = Append(decisions[r], d)]
    BY DEF GateInv, Gate!DecisionsStand, Gate!Resolve
  <1>2. /\ list \in [GateRequests -> Gate!Final \cup {"pending", None}]
        /\ \A q \in GateRequests : list[q] \in {approvals[q], None}
        /\ \A q \in GateRequests : approvals[q] \in Gate!Final => list[q] = approvals[q]
        /\ \A q \in GateRequests : list[q] \in Gate!Final => approvals[q] = list[q]
    BY <1>1, EvictedKeeps DEF Gate!TypeOK
  <1>3. PICK e \in {d, None} : approvals' = [list EXCEPT ![r] = e] /\ (d \in Gate!Final => e = d)
    BY DEF Gate!Resolve, Gate!Final
  <1>4. /\ approvals' \in [GateRequests -> Gate!Final \cup {"pending", None}] /\ approvals'[r] = e
        /\ \A q \in GateRequests : q # r => approvals'[q] = list[q]
    BY <1>2, <1>3
  <1>5. /\ decisions[r] \in Seq(Gate!Final \cup {"pending"})
        /\ decisions'[r] = Append(decisions[r], d)
        /\ \A q \in GateRequests : q # r => decisions'[q] = decisions[q]
    BY <1>1 DEF StatusWasDecided
  <1>6. /\ decisions'[r] \in Seq(Gate!Final \cup {"pending"}) /\ Gate!Last(decisions'[r]) = d
        /\ Gate!Contains(decisions'[r], d)
        /\ \A x : Gate!Contains(decisions[r], x) => Gate!Contains(decisions'[r], x)
    BY <1>5, AppendKeeps
  <1>7. r \in asked /\ \A q \in GateRequests : approvals'[q] # None => q \in asked
    BY <1>1, <1>2, <1>4 DEF Gate!TypeOK
  <1>8. Gate!TypeOK'
    BY <1>1, <1>4, <1>7 DEF Gate!TypeOK
  <1>9. Gate!ToldWasDecided'
    BY <1>1, <1>5, <1>6 DEF GateInv, Gate!DecisionsStand, Gate!ToldWasDecided, Gate!TypeOK
  <1>10. Gate!DecisionsAreKept'
    BY <1>2, <1>3, <1>4, <1>5, <1>6
       DEF GateInv, Gate!DecisionsStand, Gate!DecisionsAreKept, Gate!Final
  <1>11. StatusWasDecided'
    <2>1. decisions' \in [GateRequests -> Seq(Gate!Final \cup {"pending"})]
      BY <1>1, <1>6, <1>5 DEF StatusWasDecided
    <2>2. \A q \in GateRequests : approvals'[q] \in Gate!Final => Gate!Contains(decisions'[q], approvals'[q])
      BY <1>1, <1>2, <1>3, <1>4, <1>5, <1>6 DEF StatusWasDecided, NoneIsNothing
    <2> QED BY <1>1, <1>5, <1>7, <2>1, <2>2 DEF StatusWasDecided
  <1> QED BY <1>8, <1>9, <1>10, <1>11 DEF GateInv, Gate!DecisionsStand

\* Every step keeps the invariant.
LEMMA GateStep == ASSUME NoneIsNothing, GateInv, [Gate!Next]_(Gate!vars) PROVE GateInv'
  <1> USE DEF NoneIsNothing
  <1>1. ASSUME NEW r \in GateRequests, Gate!RequestApproval(r) PROVE GateInv'
    <2>1. /\ UNCHANGED <<expired, waiter, decisions>> /\ asked' = asked \cup {r} /\ r \notin asked
          /\ approvals' = [approvals EXCEPT ![r] = "pending"] /\ Gate!TypeOK /\ decisions[r] = <<>>
      BY <1>1 DEF Gate!RequestApproval, GateInv, Gate!DecisionsStand, StatusWasDecided
    <2>2. /\ approvals' \in [GateRequests -> Gate!Final \cup {"pending", None}]
          /\ approvals'[r] = "pending"
          /\ \A q \in GateRequests : q # r => approvals'[q] = approvals[q]
      BY <2>1 DEF Gate!TypeOK
    <2>3. Gate!TypeOK'
      BY <2>1, <2>2 DEF Gate!TypeOK
    <2>4. Gate!ToldWasDecided' /\ Gate!DecisionsAreKept'
      BY <2>1, <2>2 DEF GateInv, Gate!DecisionsStand, Gate!ToldWasDecided, Gate!DecisionsAreKept
    <2>5. StatusWasDecided'
      BY <2>1, <2>2 DEF GateInv, StatusWasDecided, Gate!Final
    <2> QED BY <2>3, <2>4, <2>5 DEF GateInv, Gate!DecisionsStand
  <1>2. ASSUME NEW r \in GateRequests, Gate!Expire(r) PROVE GateInv'
    BY <1>2 DEF Gate!Expire, GateInv, Gate!DecisionsStand, Gate!TypeOK, Gate!ToldWasDecided,
       Gate!DecisionsAreKept, StatusWasDecided
  <1>3. ASSUME NEW r \in GateRequests, NEW d \in Gate!Final \cup {"pending"}, Gate!ResolveByRoute(r, d) \/ Gate!ResolveByRpc(r, d)
        PROVE  GateInv'
    BY <1>3, ResolveStep DEF Gate!ResolveByRoute, Gate!ResolveByRpc
  <1>4. CASE Gate!PendingRequests
    <2>1. approvals' = Gate!Evicted /\ UNCHANGED <<expired, waiter, decisions, asked>>
      BY <1>4 DEF Gate!PendingRequests
    <2> QED BY <2>1, EvictionStep DEF GateInv, Gate!DecisionsStand, Gate!TypeOK, Gate!ToldWasDecided
  <1>5. CASE UNCHANGED Gate!vars
    BY <1>5 DEF Gate!vars, GateInv, Gate!DecisionsStand, Gate!TypeOK, Gate!ToldWasDecided,
       Gate!DecisionsAreKept, StatusWasDecided
  <1> QED BY <1>1, <1>2, <1>3, <1>4, <1>5, WaiterStep DEF Gate!Next

\* For any number of requests, waiters and decisions: nobody is told a decision that was not
\* made, and no poll, listing, expiry or late waiter takes a decision away.
THEOREM DecisionsHold == ASSUME NoneIsNothing PROVE Gate!Spec => []Gate!DecisionsStand
  <1>1. Gate!Init => GateInv
    <2> SUFFICES ASSUME Gate!Init PROVE GateInv
      OBVIOUS
    <2>1. Gate!TypeOK
      BY DEF Gate!Init, Gate!TypeOK
    <2>2. Gate!ToldWasDecided /\ Gate!DecisionsAreKept
      BY DEF Gate!Init, Gate!ToldWasDecided, Gate!DecisionsAreKept, NoneIsNothing
    <2>3. StatusWasDecided
      BY DEF Gate!Init, StatusWasDecided, NoneIsNothing
    <2> QED BY <2>1, <2>2, <2>3 DEF GateInv, Gate!DecisionsStand
  <1>2. GateInv /\ [Gate!Next]_(Gate!vars) => GateInv'
    BY GateStep
  <1>3. GateInv => Gate!DecisionsStand
    BY DEF GateInv
  <1> QED BY <1>1, <1>2, <1>3, PTL DEF Gate!Spec

-----------------------------------------------------------------------------
(* Nodes.                                                                    *)

Node == INSTANCE NodePairing WITH
    Requests <- NodeRequests, Nodes <- NodeNodes, NodeOf <- NodeNodeOf, Invokes <- NodeInvokes,
    InvokedOn <- NodeInvokedOn, MaxPending <- NodeMaxPending, index <- nodeIndex

\* Only finitely many requests are made, the store has a limit, a request is for a node, a
\* command is for a node, and None is neither a request nor a result.
PairingConstants ==
    /\ IsFiniteSet(NodeRequests) /\ NodeMaxPending \in Nat
    /\ NodeNodeOf \in [NodeRequests -> NodeNodes] /\ None \notin NodeRequests \cup Node!Results

\* The calls that are between two locks hold requests and nodes.
CallsAreTyped ==
    /\ found \in [NodeRequests -> NodeRequests \cup {None}] /\ approving \subseteq NodeRequests
    /\ verifying \in [NodeNodes -> NodeRequests \cup {None}]
    /\ \A r \in NodeRequests : asking[r] = "found" => found[r] # None

\* What the index names, and what a verification has read from it, is a request of that node.
IndexIsOwn ==
    /\ \A n \in NodeNodes : nodeIndex[n] # None => NodeNodeOf[nodeIndex[n]] = n
    /\ \A n \in NodeNodes : verifying[n] # None => NodeNodeOf[verifying[n]] = n

\* A request has no record before its call inserts it, and until then only its age removes it
\* from the store.
RecordIsNew ==
    \A r \in NodeRequests :
        /\ asking[r] \in {"new", "found", "create", "record"} => pairs[r] = "absent"
        /\ asking[r] = "record" => store[r] # "absent" \/ r \in old

\* The status of a command is what its node has reported.
StatusWasReported ==
    /\ invoke \in [NodeInvokes -> [at : {"new", "checked", "polling", "done"},
                                   status : {"absent", "pending"} \cup Node!Results,
                                   told : Node!Results \cup {None, "timeout"}]]
    /\ reported \in [NodeInvokes -> SUBSET Node!Results]
    /\ \A i \in NodeInvokes : invoke[i].status \in Node!Results => invoke[i].status \in reported[i]

\* What the pairing of nodes promises, and what it rests on.
NodesHold == Node!TypeOK /\ Node!ConnectedIsApproved /\ Node!PendingCanBeDecided /\ Node!ToldWasReported
PairingInv ==
    /\ Node!TypeOK /\ CallsAreTyped /\ IndexIsOwn /\ RecordIsNew
    /\ Node!ConnectedIsApproved /\ Node!PendingCanBeDecided
InvokeInv == StatusWasReported /\ Node!ToldWasReported

\* NodePairing counts as FiniteSets does.
LEMMA SameCount == ASSUME NEW S PROVE Node!Cardinality(S) = Cardinality(S)
  BY DEF Node!Cardinality, Cardinality

\* The store stays within its limit when a request is created behind the limit's test.
LEMMA OneMorePending ==
    ASSUME PairingConstants, NEW S \in [NodeRequests -> Node!States], NEW r \in NodeRequests,
           ~(Node!Cardinality({q \in NodeRequests : S[q] = "pending"}) >= NodeMaxPending)
    PROVE  Node!Cardinality({q \in NodeRequests : [S EXCEPT ![r] = "pending"][q] = "pending"}) <= NodeMaxPending
  <1> DEFINE P == {q \in NodeRequests : S[q] = "pending"}
             T == {q \in NodeRequests : [S EXCEPT ![r] = "pending"][q] = "pending"}
  <1>1. P \subseteq NodeRequests /\ IsFiniteSet(P) /\ Node!Cardinality(P) \in Nat
    BY FS_Subset, FS_CardinalityType, SameCount DEF PairingConstants
  <1>2. T = P \cup {r}
    OBVIOUS
  <1>3. Node!Cardinality(P \cup {r}) = IF r \in P THEN Node!Cardinality(P) ELSE Node!Cardinality(P) + 1
    BY <1>1, FS_AddElement, SameCount
  <1> HIDE DEF P, T
  <1>4. Node!Cardinality(T) <= NodeMaxPending
    BY <1>1, <1>2, <1>3 DEF PairingConstants, P
  <1> QED BY <1>4 DEF T

\* Nor does a smaller set of pending requests exceed it.
LEMMA FewerPending ==
    ASSUME PairingConstants, NEW S \in [NodeRequests -> Node!States],
           NEW T \in [NodeRequests -> Node!States],
           Node!Cardinality({q \in NodeRequests : S[q] = "pending"}) <= NodeMaxPending,
           \A q \in NodeRequests : T[q] = "pending" => S[q] = "pending"
    PROVE  Node!Cardinality({q \in NodeRequests : T[q] = "pending"}) <= NodeMaxPending
  <1> DEFINE P == {q \in NodeRequests : S[q] = "pending"}
             Q == {q \in NodeRequests : T[q] = "pending"}
  <1>1. IsFiniteSet(P) /\ Node!Cardinality(P) \in Nat /\ Q \subseteq P
    BY FS_Subset, FS_CardinalityType, SameCount DEF PairingConstants
  <1>2. IsFiniteSet(Q) /\ Node!Cardinality(Q) \in Nat /\ Node!Cardinality(Q) <= Node!Cardinality(P)
    BY <1>1, FS_Subset, FS_CardinalityType, SameCount
  <1> QED BY <1>1, <1>2 DEF PairingConstants

\* Calls of node.pair.request.
LEMMA AskStep ==
    ASSUME PairingConstants, PairingInv, NEW r \in NodeRequests,
           Node!LookUpIndex(r) \/ Node!LookUpRecord(r) \/ Node!InsertRecord(r) \/ Node!InsertIndex(r) \/ Node!Expire(r)
    PROVE  PairingInv'
  <1> USE DEF PairingConstants, Node!States
  <1>1. CASE Node!LookUpIndex(r) \/ Node!LookUpRecord(r)
    <2>1. /\ UNCHANGED <<store, old, pairs, nodeIndex, connected, approving, rejecting, verifying>>
          /\ pairs[r] = "absent" /\ NodeNodeOf[r] \in NodeNodes
          /\ nodeIndex[NodeNodeOf[r]] \in NodeRequests \cup {None}
      BY <1>1 DEF Node!LookUpIndex, Node!LookUpRecord, PairingInv, RecordIsNew, Node!TypeOK
    <2>2. PICK at \in {"found", "create", "answered"}, f \in NodeRequests \cup {None} :
                   /\ asking' = [asking EXCEPT ![r] = at] /\ found' = [found EXCEPT ![r] = f]
                   /\ at = "found" => f # None
      BY <1>1, <2>1 DEF Node!LookUpIndex, Node!LookUpRecord, Node!Asking
    <2>3. Node!TypeOK' /\ CallsAreTyped'
      BY <2>1, <2>2 DEF PairingInv, Node!TypeOK, CallsAreTyped
    <2>4. IndexIsOwn' /\ Node!ConnectedIsApproved' /\ Node!PendingCanBeDecided'
      BY <2>1 DEF PairingInv, IndexIsOwn, Node!ConnectedIsApproved, Node!PendingCanBeDecided
    <2>5. RecordIsNew'
      BY <2>1, <2>2 DEF PairingInv, RecordIsNew, Node!TypeOK
    <2> QED BY <2>3, <2>4, <2>5 DEF PairingInv
  <1>2. CASE Node!InsertRecord(r)
    BY <1>2 DEF Node!InsertRecord, Node!Asking, PairingInv, Node!TypeOK, CallsAreTyped, IndexIsOwn,
       RecordIsNew,
                Node!ConnectedIsApproved, Node!PendingCanBeDecided
  <1>3. CASE Node!InsertIndex(r)
    BY <1>3 DEF Node!InsertIndex, Node!Asking, PairingInv, Node!TypeOK, CallsAreTyped, IndexIsOwn,
       RecordIsNew,
                Node!ConnectedIsApproved, Node!PendingCanBeDecided
  <1>4. CASE Node!Expire(r)
    BY <1>4 DEF Node!Expire, PairingInv, Node!TypeOK, CallsAreTyped, IndexIsOwn, RecordIsNew,
                Node!ConnectedIsApproved, Node!PendingCanBeDecided
  <1> QED BY <1>1, <1>2, <1>3, <1>4

\* Its visit to the store, which first forgets the requests that are too old.
LEMMA CreateStep ==
    ASSUME PairingConstants, PairingInv, NEW r \in NodeRequests,
           Node!CreateRequest(r) PROVE PairingInv'
  <1>1. /\ Node!Kept \in [NodeRequests -> Node!States]
        /\ \A q \in NodeRequests : Node!Kept[q] = store[q] \/ (Node!Kept[q] = "absent" /\ q \in old)
    BY DEF PairingInv, Node!TypeOK, Node!Kept, Node!States
  <1>2. PICK s \in {Node!Kept, [Node!Kept EXCEPT ![r] = "pending"]}, at \in {"answered", "record"} :
            /\ store' = s /\ asking' = [asking EXCEPT ![r] = at]
            /\ at = "record" => s = [Node!Kept EXCEPT ![r] = "pending"]
            /\ UNCHANGED <<old, pairs, nodeIndex, connected, approving, rejecting, verifying, found>>
    BY DEF Node!CreateRequest, Node!Asking
  <1>3. /\ store' \in [NodeRequests -> Node!States]
        /\ \A q \in NodeRequests : store'[q] # "absent" \/ store[q] = "absent" \/ q \in old
        /\ at = "record" => store'[r] # "absent"
    BY <1>1, <1>2 DEF Node!States
  <1>4. Node!Cardinality({q \in NodeRequests : store'[q] = "pending"}) <= NodeMaxPending
    <2>1. \A q \in NodeRequests : Node!Kept[q] = "pending" => store[q] = "pending"
      BY <1>1
    <2>2. CASE Node!Cardinality({q \in NodeRequests : Node!Kept[q] = "pending"}) >= NodeMaxPending
      BY <1>1, <2>1, <2>2, FewerPending DEF Node!CreateRequest, PairingInv, Node!TypeOK
    <2>3. CASE ~(Node!Cardinality({q \in NodeRequests : Node!Kept[q] = "pending"}) >= NodeMaxPending)
      BY <1>1, <2>3, OneMorePending DEF Node!CreateRequest
    <2> QED BY <2>2, <2>3
  <1>5. asking[r] = "create"
    BY DEF Node!CreateRequest
  <1>6. Node!TypeOK' /\ CallsAreTyped'
    BY <1>2, <1>3, <1>4, <1>5 DEF PairingInv, Node!TypeOK, CallsAreTyped
  <1>7. IndexIsOwn' /\ Node!ConnectedIsApproved'
    BY <1>2 DEF PairingInv, IndexIsOwn, Node!ConnectedIsApproved
  <1>8. RecordIsNew' /\ Node!PendingCanBeDecided'
    BY <1>2, <1>3, <1>5 DEF PairingInv, RecordIsNew, Node!PendingCanBeDecided, Node!TypeOK
  <1> QED BY <1>6, <1>7, <1>8 DEF PairingInv

\* Approvals and rejections.
LEMMA DecideStep ==
    ASSUME PairingConstants, PairingInv, NEW r \in NodeRequests,
           \/ Node!ApproveInStore(r) \/ Node!ApproveRecord(r)
           \/ Node!RejectInStore(r) \/ Node!RejectRecord(r) \/ Node!RejectIndex(r) \/ Node!RejectConnection(r)
    PROVE  PairingInv'
  <1> USE DEF PairingConstants, Node!States
  <1>1. ASSUME NEW s \in {"approved", "absent"}, store' = [store EXCEPT ![r] = s]
        PROVE  Node!Cardinality({q \in NodeRequests : store'[q] = "pending"}) <= NodeMaxPending
    BY <1>1, FewerPending DEF PairingInv, Node!TypeOK
  <1>2. CASE Node!ApproveInStore(r)
    BY <1>1, <1>2
       DEF Node!ApproveInStore, PairingInv, Node!TypeOK, CallsAreTyped, IndexIsOwn, RecordIsNew,
                Node!ConnectedIsApproved, Node!PendingCanBeDecided
  <1>3. CASE Node!ApproveRecord(r)
    BY <1>3 DEF Node!ApproveRecord, PairingInv, Node!TypeOK, CallsAreTyped, IndexIsOwn, RecordIsNew,
                Node!ConnectedIsApproved, Node!PendingCanBeDecided
  <1>4. CASE Node!RejectInStore(r)
    BY <1>1, <1>4
       DEF Node!RejectInStore, Node!Known, Node!Rejecting, PairingInv, Node!TypeOK, CallsAreTyped, IndexIsOwn, RecordIsNew,
                Node!ConnectedIsApproved, Node!PendingCanBeDecided
  <1>5. CASE Node!RejectRecord(r)
    BY <1>5 DEF Node!RejectRecord, Node!Rejecting, PairingInv, Node!TypeOK, CallsAreTyped,
       IndexIsOwn, RecordIsNew,
                Node!ConnectedIsApproved, Node!PendingCanBeDecided
  <1>6. CASE Node!RejectIndex(r)
    BY <1>6 DEF Node!RejectIndex, Node!Rejecting, PairingInv, Node!TypeOK, CallsAreTyped,
       IndexIsOwn, RecordIsNew,
                Node!ConnectedIsApproved, Node!PendingCanBeDecided
  <1>7. CASE Node!RejectConnection(r)
    BY <1>7 DEF Node!RejectConnection, Node!Rejecting, PairingInv, Node!TypeOK, CallsAreTyped,
       IndexIsOwn, RecordIsNew,
                Node!ConnectedIsApproved, Node!PendingCanBeDecided
  <1> QED BY <1>2, <1>3, <1>4, <1>5, <1>6, <1>7

\* Verifications.
LEMMA VerifyStep ==
    ASSUME PairingConstants, PairingInv, NEW n \in NodeNodes,
           Node!VerifyIndex(n) \/ Node!VerifyRecord(n) PROVE PairingInv'
  <1>1. UNCHANGED <<store, old, pairs, nodeIndex, asking, approving, rejecting, found>>
    BY DEF Node!VerifyIndex, Node!VerifyRecord
  <1>2. RecordIsNew' /\ Node!PendingCanBeDecided'
    BY <1>1 DEF PairingInv, RecordIsNew, Node!PendingCanBeDecided
  <1>3. CASE Node!VerifyIndex(n)
    BY <1>1, <1>2, <1>3
       DEF Node!VerifyIndex, PairingInv, Node!TypeOK, CallsAreTyped, IndexIsOwn, Node!ConnectedIsApproved
  <1>4. CASE Node!VerifyRecord(n)
    <2>1. Node!TypeOK' /\ CallsAreTyped' /\ IndexIsOwn'
      BY <1>1, <1>4 DEF Node!VerifyRecord, PairingInv, Node!TypeOK, CallsAreTyped, IndexIsOwn
    <2>2. verifying[n] \in NodeRequests /\ NodeNodeOf[verifying[n]] = n
      BY <1>4 DEF Node!VerifyRecord, PairingInv, CallsAreTyped, IndexIsOwn
    <2>3. Node!ConnectedIsApproved'
      BY <1>1, <1>4, <2>2 DEF Node!VerifyRecord, PairingInv, Node!ConnectedIsApproved
    <2> QED BY <1>2, <2>1, <2>3 DEF PairingInv
  <1> QED BY <1>3, <1>4

\* Commands.
LEMMA InvokeStep ==
    ASSUME PairingConstants, InvokeInv, NEW i \in NodeInvokes,
           \/ Node!CheckConnected(i) \/ Node!InsertInvocation(i) \/ Node!InvokeReturns(i) \/ Node!InvokeTimesOut(i)
           \/ \E n \in NodeNodes, s \in Node!Results : Node!InvokeResult(i, n, s)
    PROVE  InvokeInv'
  <1> USE DEF PairingConstants, Node!Results
  <1> DEFINE Statuses == {"absent", "pending"} \cup Node!Results
             Answers == Node!Results \cup {None, "timeout"}
             Places == {"new", "checked", "polling", "done"}
             Ends(at, status, told) ==
                 /\ invoke' \in [NodeInvokes -> [at : Places, status : Statuses, told : Answers]]
                 /\ invoke'[i].at = at /\ invoke'[i].status = status /\ invoke'[i].told = told
                 /\ \A j \in NodeInvokes : j # i => invoke'[j] = invoke[j]
  <1>0. invoke \in [NodeInvokes -> [at : Places, status : Statuses, told : Answers]]
    BY DEF InvokeInv, StatusWasReported
  <1>1. \/ Ends("checked", invoke[i].status, invoke[i].told) /\ UNCHANGED reported
        \/ Ends("polling", "pending", invoke[i].told) /\ UNCHANGED reported
        \/ Ends("done", invoke[i].status, invoke[i].status) /\ UNCHANGED reported
        \/ Ends("done", "pending", "timeout") /\ UNCHANGED reported
        \/ \E s \in Node!Results : /\ Ends(invoke[i].at, s, invoke[i].told)
                               /\ reported' = [reported EXCEPT ![i] = reported[i] \cup {s}]
    <2>1. CASE Node!CheckConnected(i)
      <3>1. Ends("checked", invoke[i].status, invoke[i].told)
        BY <1>0, <2>1 DEF Node!CheckConnected
      <3> QED BY <2>1, <3>1 DEF Node!CheckConnected
    <2>2. CASE Node!InsertInvocation(i)
      <3>1. Ends("polling", "pending", invoke[i].told)
        BY <1>0, <2>2 DEF Node!InsertInvocation
      <3> QED BY <2>2, <3>1 DEF Node!InsertInvocation
    <2>3. CASE Node!InvokeReturns(i)
      <3>1. Ends("done", invoke[i].status, invoke[i].status)
        BY <1>0, <2>3 DEF Node!InvokeReturns
      <3> QED BY <2>3, <3>1 DEF Node!InvokeReturns
    <2>4. CASE Node!InvokeTimesOut(i)
      <3>1. Ends("done", "pending", "timeout")
        BY <1>0, <2>4 DEF Node!InvokeTimesOut
      <3> QED BY <2>4, <3>1 DEF Node!InvokeTimesOut
    <2>5. ASSUME NEW n \in NodeNodes, NEW s \in Node!Results, Node!InvokeResult(i, n, s)
          PROVE  /\ Ends(invoke[i].at, s, invoke[i].told)
                 /\ reported' = [reported EXCEPT ![i] = reported[i] \cup {s}]
      BY <1>0, <2>5 DEF Node!InvokeResult
    <2> HIDE DEF Ends
    <2> QED BY <2>1, <2>2, <2>3, <2>4, <2>5
  <1>2. /\ reported \in [NodeInvokes -> SUBSET Node!Results]
        /\ invoke[i].status \in Node!Results => invoke[i].status \in reported[i]
        /\ invoke[i].told \in Node!Results => invoke[i].told \in reported[i]
    BY DEF InvokeInv, StatusWasReported, Node!ToldWasReported
  <1>3. StatusWasReported'
    BY <1>1, <1>2 DEF InvokeInv, StatusWasReported
  <1>4. Node!ToldWasReported'
    BY <1>1, <1>2 DEF InvokeInv, Node!ToldWasReported
  <1> QED BY <1>3, <1>4 DEF InvokeInv

\* Pairing calls leave the commands alone, and commands the pairings.
LEMMA NodeStep ==
    ASSUME PairingConstants, PairingInv,
           InvokeInv, [Node!Next]_(Node!vars) PROVE PairingInv' /\ InvokeInv'
  <1>1. ASSUME UNCHANGED Node!invokeVars PROVE InvokeInv'
    BY <1>1 DEF Node!invokeVars, InvokeInv, StatusWasReported, Node!ToldWasReported
  <1>2. ASSUME UNCHANGED Node!pairVars PROVE PairingInv'
    BY <1>2 DEF Node!pairVars, PairingInv, Node!TypeOK, CallsAreTyped, IndexIsOwn, RecordIsNew,
       Node!ConnectedIsApproved,
                Node!PendingCanBeDecided
  <1>3. ASSUME NEW r \in NodeRequests,
               \/ Node!LookUpIndex(r) \/ Node!LookUpRecord(r) \/ Node!CreateRequest(r) \/ Node!InsertRecord(r) \/ Node!InsertIndex(r) \/ Node!Expire(r)
               \/ Node!ApproveInStore(r) \/ Node!ApproveRecord(r)
               \/ Node!RejectInStore(r) \/ Node!RejectRecord(r) \/ Node!RejectIndex(r) \/ Node!RejectConnection(r)
        PROVE  PairingInv' /\ UNCHANGED Node!invokeVars
    <2>1. PairingInv'
      BY <1>3, AskStep, CreateStep, DecideStep
    <2>2. UNCHANGED Node!invokeVars
      BY <1>3 DEF Node!LookUpIndex, Node!LookUpRecord, Node!CreateRequest, Node!InsertRecord,
         Node!InsertIndex, Node!Expire, Node!ApproveInStore,
                  Node!ApproveRecord, Node!RejectInStore, Node!RejectRecord, Node!RejectIndex,
                  Node!RejectConnection
    <2> QED BY <2>1, <2>2
  <1>4. ASSUME NEW n \in NodeNodes, Node!VerifyIndex(n) \/ Node!VerifyRecord(n) PROVE PairingInv' /\ UNCHANGED Node!invokeVars
    BY <1>4, VerifyStep DEF Node!VerifyIndex, Node!VerifyRecord
  <1>5. ASSUME NEW i \in NodeInvokes,
               \/ Node!CheckConnected(i) \/ Node!InsertInvocation(i) \/ Node!InvokeReturns(i) \/ Node!InvokeTimesOut(i)
               \/ \E n \in NodeNodes, s \in Node!Results : Node!InvokeResult(i, n, s)
        PROVE  InvokeInv' /\ UNCHANGED Node!pairVars
    <2>1. UNCHANGED Node!pairVars
      BY <1>5 DEF Node!CheckConnected, Node!InsertInvocation, Node!InvokeReturns,
         Node!InvokeTimesOut, Node!InvokeResult
    <2> QED BY <1>5, <2>1, InvokeStep
  <1>6. CASE UNCHANGED Node!vars
    BY <1>1, <1>2, <1>6 DEF Node!vars, Node!pairVars, Node!invokeVars
  <1> QED BY <1>1, <1>2, <1>3, <1>4, <1>5, <1>6 DEF Node!Next

\* For any nodes, requests and commands, in any order of the calls' critical sections: the
\* store keeps its limit, a connected node has an approved pairing or is being rejected, what is
\* listed as pending can be decided, and a caller is told only what its node has reported.
THEOREM NodesArePaired == ASSUME PairingConstants PROVE Node!Spec => []NodesHold
  <1>1. Node!Init => PairingInv /\ InvokeInv
    <2> SUFFICES ASSUME Node!Init PROVE PairingInv /\ InvokeInv
      OBVIOUS
    <2>1. {r \in NodeRequests : store[r] = "pending"} = {}
      BY DEF Node!Init
    <2>2. Node!Cardinality({r \in NodeRequests : store[r] = "pending"}) <= NodeMaxPending
      BY <2>1, FS_EmptySet, SameCount DEF PairingConstants
    <2>3. PairingInv
      BY <2>2 DEF Node!Init, PairingInv, Node!TypeOK, CallsAreTyped, IndexIsOwn, RecordIsNew,
         Node!ConnectedIsApproved,
                  Node!PendingCanBeDecided, Node!States
    <2>4. InvokeInv
      BY DEF Node!Init, InvokeInv, StatusWasReported, Node!ToldWasReported, Node!Results,
         PairingConstants
    <2> QED BY <2>3, <2>4
  <1>2. PairingInv /\ InvokeInv /\ [Node!Next]_(Node!vars) => PairingInv' /\ InvokeInv'
    BY NodeStep
  <1>3. PairingInv /\ InvokeInv => NodesHold
    BY DEF PairingInv, InvokeInv, NodesHold
  <1> QED BY <1>1, <1>2, <1>3, PTL DEF Node!Spec

-----------------------------------------------------------------------------
(* Devices.                                                                  *)

Dev == INSTANCE DevicePairing WITH
    Requests <- DevRequests, Devices <- DevDevices, DeviceOf <- DevDeviceOf, Roles <- DevRoles,
    RoleOf <- DevRoleOf, Scopes <- DevScopes, ScopesOf <- DevScopesOf, Callers <- DevCallers,
    MaxCalls <- DevMaxCalls, MaxFaults <- DevMaxFaults, tmp <- devTmp

\* A request is for a device, a role and scopes; None is not a request.
DeviceConstants ==
    /\ DevDeviceOf \in [DevRequests -> DevDevices] /\ DevRoleOf \in [DevRequests -> DevRoles]
    /\ DevScopesOf \in [DevRequests -> SUBSET DevScopes] /\ None \notin DevRequests
    /\ DevMaxCalls \in Nat /\ DevMaxFaults \in Nat

Tokens == [scopes : SUBSET DevScopes, revoked : BOOLEAN]
DeviceRecords == [approved : SUBSET DevScopes, tokens : [DevRoles -> Tokens \cup {None}]]
PairedMaps == [DevDevices -> DeviceRecords \cup {None}]
FileRecords == [state : {"none", "empty", "torn", "whole"}, pending : SUBSET DevRequests, paired : PairedMaps]
HasCopies == {"write", "open", "openMoved"}
CallPlaces == {"idle", "index", "pair", "copy", "copied", "rename"} \cup HasCopies
CallRecords == [at : CallPlaces, req : DevRequests \cup {None}, pending : SUBSET DevRequests, paired : PairedMaps \cup {None}]

\* What memory, file and copies hold.
DevicesAreTyped ==
    /\ pending \subseteq DevRequests /\ index \in [DevDevices -> DevRequests \cup {None}]
    /\ paired \in PairedMaps
    /\ disk \in FileRecords /\ devTmp \in FileRecords
    /\ call \in [DevCallers -> CallRecords]
    /\ \A c \in DevCallers : /\ call[c].at \in HasCopies => call[c].paired \in PairedMaps
                             /\ call[c].at \in {"index", "pair"} => call[c].req \in DevRequests
    /\ calls \in 0..DevMaxCalls /\ faults \in 0..DevMaxFaults /\ mixed \in {"no", "yes", "repaired"}

\* Unless calls have overlapped since, there is one call at most, its copies are current, and so is
\* what it has written.
OneIsAlone ==
    mixed # "yes" =>
        /\ \A c, e \in DevCallers : call[c].at # "idle" /\ call[e].at # "idle" => c = e
        /\ \A c \in DevCallers : /\ call[c].at \in HasCopies \cup {"copied"} => call[c].pending = pending
                                 /\ call[c].at \in HasCopies => call[c].paired = paired
                                 /\ call[c].at = "open" => devTmp.state = "empty"
                                 /\ call[c].at # "openMoved"
                                 /\ call[c].at = "rename" => devTmp = Dev!Whole(pending, paired)

\* As long as no calls have overlapped, an announced request is in memory and in the file until it is
\* decided, and one that is being announced is in memory.
AnnouncedIsKept ==
    mixed = "no" =>
        /\ announced \ decided \subseteq pending /\ announced \ decided \subseteq disk.pending
        /\ \A c \in DevCallers : call[c].req \in DevRequests \ decided => call[c].req \in pending

\* Tokens of the devices p that stay within what was approved.
Within(p) ==
    \A d \in DevDevices : p[d] # None /\ d \notin open =>
        \A o \in DevRoles : p[d].tokens[o] # None => p[d].tokens[o].scopes \subseteq p[d].approved

CopiesAreWithin ==
    /\ Within(paired) /\ Within(disk.paired) /\ Within(devTmp.paired)
    /\ \A c \in DevCallers : call[c].at \in HasCopies => Within(call[c].paired)

DeviceInv == DevicesAreTyped /\ Dev!FileIsCurrent /\ OneIsAlone /\ AnnouncedIsKept /\ CopiesAreWithin

\* What the pairing of devices promises.
DevicesHold == Dev!TypeOK /\ Dev!FileIsCurrent /\ Dev!RequestsSurvive /\ Dev!TokensWithinApproval

-----------------------------------------------------------------------------
\* A call that begins: alone, and then nothing is known to overlap it, or beside others.
LEMMA BeginStep ==
    ASSUME DeviceConstants, DevicesAreTyped, OneIsAlone, NEW c \in DevCallers,
           NEW at \in {"index", "pair", "copy"},
           NEW r \in DevRequests \cup {None}, Dev!Begin(c, at, r)
    PROVE  /\ call' \in [DevCallers -> CallRecords] /\ call'[c].at = at /\ call'[c].req = r
           /\ \A e \in DevCallers : e # c => call'[e] = call[e]
           /\ calls' \in 0..DevMaxCalls /\ mixed' \in {"no", "yes", "repaired"}
           /\ mixed' # "yes" => \A e \in DevCallers : e # c => call[e].at = "idle"
           /\ mixed' = "no" => mixed = "no"
  <1>1. /\ call[c].at = "idle" /\ calls < DevMaxCalls /\ calls' = calls + 1
        /\ call' = [call EXCEPT ![c] = [Dev!Idle EXCEPT !.at = at, !.req = r]]
        /\ mixed' = IF Dev!Others(c) # {} THEN "yes" ELSE IF mixed = "yes" THEN "repaired" ELSE mixed
    BY DEF Dev!Begin
  <1> DEFINE new == [Dev!Idle EXCEPT !.at = at, !.req = r]
  <1>2. new \in CallRecords /\ new.at = at /\ new.req = r
    BY DEF Dev!Idle, CallRecords, CallPlaces, HasCopies
  <1> HIDE DEF new
  <1>3. call' = [call EXCEPT ![c] = new]
    BY <1>1 DEF new
  <1>4. /\ call' \in [DevCallers -> CallRecords] /\ call'[c].at = at /\ call'[c].req = r
        /\ \A e \in DevCallers : e # c => call'[e] = call[e]
    BY <1>2, <1>3 DEF DevicesAreTyped
  <1>5. calls' \in 0..DevMaxCalls /\ mixed' \in {"no", "yes", "repaired"}
    BY <1>1 DEF DevicesAreTyped, DeviceConstants
  <1>6. mixed' # "yes" => \A e \in DevCallers : e # c => call[e].at = "idle"
    BY <1>1 DEF Dev!Others
  <1> QED BY <1>1, <1>4, <1>5, <1>6

\* A device that is paired has a record, and a token of it is one.
LEMMA RecordOf ==
    ASSUME NEW p \in PairedMaps, NEW d \in DevDevices, p[d] # None
    PROVE  /\ p[d] \in DeviceRecords
           /\ p[d].approved \in SUBSET DevScopes /\ p[d].tokens \in [DevRoles -> Tokens \cup {None}]
           /\ \A o \in DevRoles : p[d].tokens[o] # None =>
                 p[d].tokens[o] \in Tokens /\ p[d].tokens[o].scopes \in SUBSET DevScopes
  <1>1. p[d] \in DeviceRecords
    BY DEF PairedMaps
  <1>2. p[d].approved \in SUBSET DevScopes /\ p[d].tokens \in [DevRoles -> Tokens \cup {None}]
    BY <1>1 DEF DeviceRecords
  <1>3. ASSUME NEW o \in DevRoles, p[d].tokens[o] # None
        PROVE  p[d].tokens[o] \in Tokens /\ p[d].tokens[o].scopes \in SUBSET DevScopes
    <2>1. p[d].tokens[o] \in Tokens
      BY <1>2, <1>3
    <2> QED BY <2>1 DEF Tokens
  <1> QED BY <1>1, <1>2, <1>3

\* A record with other tokens, and tokens with another one for a role.
LEMMA WithTokens ==
    ASSUME NEW r \in DeviceRecords, NEW t \in [DevRoles -> Tokens \cup {None}]
    PROVE  /\ [r EXCEPT !.tokens = t] \in DeviceRecords
           /\ [r EXCEPT !.tokens = t].approved = r.approved /\ [r EXCEPT !.tokens = t].tokens = t
  BY DEF DeviceRecords

LEMMA WithToken ==
    ASSUME NEW t \in [DevRoles -> Tokens \cup {None}], NEW o \in DevRoles, NEW k \in Tokens
    PROVE  /\ [t EXCEPT ![o] = k] \in [DevRoles -> Tokens \cup {None}] /\ [t EXCEPT ![o] = k][o] = k
           /\ \A x \in DevRoles : x # o => [t EXCEPT ![o] = k][x] = t[x]
  OBVIOUS

\* Setting the record of one device: the map keeps its type, and its bound if the record keeps it.
LEMMA SetDevice ==
    ASSUME DevicesAreTyped, CopiesAreWithin, NEW d \in DevDevices, NEW r \in DeviceRecords,
           paired' = [paired EXCEPT ![d] = r], open \subseteq open',
           d \notin open' => \A o \in DevRoles : r.tokens[o] # None => r.tokens[o].scopes \subseteq r.approved
    PROVE  paired' \in PairedMaps /\ Within(paired)'
  <1>1. paired' \in PairedMaps /\ paired'[d] = r /\ \A e \in DevDevices : e # d => paired'[e] = paired[e]
    BY DEF DevicesAreTyped, PairedMaps
  <1> QED BY <1>1 DEF CopiesAreWithin, Within

\* Setting one token of a device.
LEMMA SetToken ==
    ASSUME DevicesAreTyped, CopiesAreWithin, NEW d \in DevDevices, NEW o \in DevRoles,
           NEW k \in Tokens, paired[d] # None,
           paired' = [paired EXCEPT ![d] = [paired[d] EXCEPT !.tokens = [paired[d].tokens EXCEPT ![o] = k]]],
           open \subseteq open', d \notin open' => k.scopes \subseteq paired[d].approved
    PROVE  paired' \in PairedMaps /\ Within(paired)'
  <1> DEFINE t == [paired[d].tokens EXCEPT ![o] = k]
             r == [paired[d] EXCEPT !.tokens = t]
  <1>1. /\ paired[d] \in DeviceRecords /\ paired[d].tokens \in [DevRoles -> Tokens \cup {None}]
        /\ d \notin open => \A x \in DevRoles : paired[d].tokens[x] # None => paired[d].tokens[x].scopes \subseteq paired[d].approved
    BY RecordOf DEF DevicesAreTyped, CopiesAreWithin, Within
  <1>2. t \in [DevRoles -> Tokens \cup {None}] /\ t[o] = k /\ \A x \in DevRoles : x # o => t[x] = paired[d].tokens[x]
    BY <1>1, WithToken
  <1> HIDE DEF t
  <1>3. r \in DeviceRecords /\ r.approved = paired[d].approved /\ r.tokens = t
    BY <1>1, <1>2, WithTokens
  <1>4. paired' = [paired EXCEPT ![d] = r]
    BY DEF t
  <1> HIDE DEF r
  <1>5. d \notin open' => \A x \in DevRoles : r.tokens[x] # None => r.tokens[x].scopes \subseteq r.approved
    BY <1>1, <1>2, <1>3
  <1> QED BY <1>3, <1>4, <1>5, SetDevice

\* What each operation on the paired devices does: the map keeps its type and its bound.
LEMMA PairStep ==
    ASSUME DeviceConstants, DevicesAreTyped, CopiesAreWithin, NEW c \in DevCallers, Dev!Pair(c)
    PROVE  paired' \in PairedMaps /\ Within(paired)'
  <1> DEFINE r == call[c].req  d == DevDeviceOf[r]  o == DevRoleOf[r]  was == Dev!Device(d)
             s == IF DevScopesOf[r] # {} THEN DevScopesOf[r]
                  ELSE IF was.tokens[o] # None THEN was.tokens[o].scopes ELSE was.approved
             k == [scopes |-> s, revoked |-> FALSE]
             t == [was.tokens EXCEPT ![o] = k]
             a == was.approved \cup DevScopesOf[r]
             new == [approved |-> a, tokens |-> t]
  <1>1. r \in DevRequests /\ d \in DevDevices /\ o \in DevRoles /\ DevScopesOf[r] \in SUBSET DevScopes
    BY DEF Dev!Pair, DevicesAreTyped, DeviceConstants
  <1>2. /\ was.approved \in SUBSET DevScopes /\ was.tokens \in [DevRoles -> Tokens \cup {None}]
        /\ \A x \in DevRoles : was.tokens[x] # None => was.tokens[x].scopes \in SUBSET DevScopes
        /\ d \notin open => \A x \in DevRoles : was.tokens[x] # None => was.tokens[x].scopes \subseteq was.approved
    <2>1. CASE paired[d] = None
      BY <2>1 DEF Dev!Device, Dev!NoDevice
    <2>2. CASE paired[d] # None
      BY <1>1, <2>2, RecordOf DEF Dev!Device, Within, DevicesAreTyped, CopiesAreWithin
    <2> QED BY <2>1, <2>2
  <1>3. paired' = [paired EXCEPT ![d] = new] /\ UNCHANGED open
    BY DEF Dev!Pair, Dev!histories
  <1> HIDE DEF d, o, was, r
  <1>4. s \in SUBSET DevScopes /\ a \in SUBSET DevScopes /\ was.approved \subseteq a /\ (d \notin open => s \subseteq a)
    BY <1>1, <1>2
  <1> HIDE DEF s, a
  <1>5. k \in Tokens /\ k.scopes = s
    BY <1>4 DEF Tokens
  <1> HIDE DEF k
  <1>6. t \in [DevRoles -> Tokens \cup {None}] /\ t[o] = k /\ \A x \in DevRoles : x # o => t[x] = was.tokens[x]
    BY <1>1, <1>2, <1>5, WithToken
  <1> HIDE DEF t
  <1>7. new \in DeviceRecords /\ new.approved = a /\ new.tokens = t
    BY <1>4, <1>6 DEF DeviceRecords
  <1> HIDE DEF new
  <1>8. d \notin open => \A x \in DevRoles : t[x] # None => t[x].scopes \subseteq a
    BY <1>2, <1>4, <1>5, <1>6
  <1> QED BY <1>1, <1>3, <1>7, <1>8, SetDevice

LEMMA TokenStep ==
    ASSUME DeviceConstants, DevicesAreTyped, CopiesAreWithin, NEW c \in DevCallers,
           NEW d \in DevDevices, NEW o \in DevRoles,
           Dev!TokenRevoke(c, d, o) \/ \E wanted \in SUBSET DevScopes : Dev!TokenRotate(c, d, o, wanted)
    PROVE  paired' \in PairedMaps /\ Within(paired)' /\ open \subseteq open'
  <1>1. CASE Dev!TokenRevoke(c, d, o)
    <2> DEFINE k == [paired[d].tokens[o] EXCEPT !.revoked = TRUE]
    <2>1. paired[d] # None /\ paired[d].tokens[o] # None /\ UNCHANGED open
      BY <1>1 DEF Dev!TokenRevoke, Dev!histories
    <2>2. paired' = [paired EXCEPT ![d] = [paired[d] EXCEPT !.tokens = [paired[d].tokens EXCEPT ![o] = k]]]
      BY <1>1 DEF Dev!TokenRevoke, DevicesAreTyped, PairedMaps
    <2>3. paired[d].tokens[o] \in Tokens
      BY <2>1, RecordOf DEF DevicesAreTyped
    <2>4. k \in Tokens /\ k.scopes = paired[d].tokens[o].scopes
      BY <2>3 DEF Tokens
    <2> HIDE DEF k
    <2>5. d \notin open => k.scopes \subseteq paired[d].approved
      BY <2>1, <2>4 DEF CopiesAreWithin, Within
    <2> QED BY <2>1, <2>2, <2>4, <2>5, SetToken
  <1>2. ASSUME NEW wanted \in SUBSET DevScopes, Dev!TokenRotate(c, d, o, wanted)
        PROVE  paired' \in PairedMaps /\ Within(paired)' /\ open \subseteq open'
    <2> DEFINE was == paired[d].tokens[o]
               s == IF wanted # {} THEN wanted ELSE IF was # None THEN was.scopes ELSE paired[d].approved
               k == [scopes |-> s, revoked |-> FALSE]
    <2>1. /\ paired[d] # None /\ (paired[d].approved = {} \/ s \subseteq paired[d].approved)
          /\ open' = IF paired[d].approved = {} THEN open \cup {d} ELSE open
      BY <1>2 DEF Dev!TokenRotate
    <2>2. paired' = [paired EXCEPT ![d] = [paired[d] EXCEPT !.tokens = [paired[d].tokens EXCEPT ![o] = k]]]
      BY <1>2 DEF Dev!TokenRotate, DevicesAreTyped, PairedMaps
    <2>3. s \in SUBSET DevScopes
      BY <2>1, RecordOf DEF DevicesAreTyped
    <2> HIDE DEF s
    <2>4. k \in Tokens /\ k.scopes = s
      BY <2>3 DEF Tokens
    <2> HIDE DEF k
    <2>5. open \subseteq open' /\ (d \notin open' => k.scopes \subseteq paired[d].approved)
      BY <2>1, <2>4
    <2> QED BY <2>1, <2>2, <2>4, <2>5, SetToken
  <1> QED BY <1>1, <1>2

-----------------------------------------------------------------------------
\* A call that begins, whatever it does to pending and paired in its first critical section: a
\* request leaves pending only when it is decided.
LEMMA BeginKeeps ==
    ASSUME DeviceConstants, DeviceInv, NEW c \in DevCallers, NEW at \in {"index", "pair", "copy"},
           NEW r \in DevRequests \cup {None}, Dev!Begin(c, at, r),
           UNCHANGED <<disk, devTmp, faults>>, announced' \ decided' \subseteq announced \ decided,
           pending' \subseteq DevRequests, index' \in [DevDevices -> DevRequests \cup {None}],
           paired' \in PairedMaps, Within(paired)', open \subseteq open', decided \ decided' \subseteq pending',
           pending \ pending' \subseteq decided', at \in {"index", "pair"} => r \in DevRequests,
           r \in DevRequests \ decided' => r \in pending'
    PROVE  DeviceInv'
  <1>1. /\ call' \in [DevCallers -> CallRecords] /\ call'[c].at = at /\ call'[c].req = r
        /\ \A e \in DevCallers : e # c => call'[e] = call[e]
        /\ calls' \in 0..DevMaxCalls /\ mixed' \in {"no", "yes", "repaired"}
        /\ mixed' # "yes" => \A e \in DevCallers : e # c => call[e].at = "idle"
        /\ mixed' = "no" => mixed = "no"
    BY BeginStep DEF DeviceInv
  <1>2. DevicesAreTyped'
    BY <1>1 DEF DeviceInv, DevicesAreTyped, HasCopies
  <1>3. Dev!FileIsCurrent' /\ OneIsAlone'
    BY <1>1 DEF Dev!FileIsCurrent, Dev!NoCalls, OneIsAlone, HasCopies
  <1>4. AnnouncedIsKept'
    BY <1>1 DEF DeviceInv, AnnouncedIsKept
  <1>5. Within(disk.paired)' /\ Within(devTmp.paired)' /\ \A p : Within(p) => Within(p)'
    BY DEF DeviceInv, CopiesAreWithin, Within
  <1>6. CopiesAreWithin'
    BY <1>1, <1>5 DEF DeviceInv, CopiesAreWithin, Within, HasCopies
  <1> QED BY <1>2, <1>3, <1>4, <1>6 DEF DeviceInv

\* The calls.
LEMMA CallStep ==
    ASSUME DeviceConstants, DeviceInv, NEW c \in DevCallers,
           \/ \E r \in DevRequests : Dev!Announce(c, r) \/ Dev!Approve(c, r) \/ Dev!RejectPair(c, r)
           \/ \E d \in DevDevices : Dev!RemovePair(c, d)
           \/ \E d \in DevDevices, o \in DevRoles :
                 Dev!TokenRevoke(c, d, o) \/ \E wanted \in SUBSET DevScopes : Dev!TokenRotate(c, d, o, wanted)
    PROVE  DeviceInv'
  <1>1. /\ DevicesAreTyped /\ CopiesAreWithin /\ Within(paired) /\ paired \in PairedMaps
        /\ pending \subseteq DevRequests
        /\ index \in [DevDevices -> DevRequests \cup {None}]
    BY DEF DeviceInv, DevicesAreTyped, CopiesAreWithin
  <1>2. ASSUME UNCHANGED <<paired, open>> PROVE paired' \in PairedMaps /\ Within(paired)'
    BY <1>1, <1>2 DEF Within
  <1>3. ASSUME NEW r \in DevRequests, Dev!Announce(c, r) PROVE DeviceInv'
    <2>1. /\ Dev!Begin(c, "index", r) /\ pending' = pending \cup {r}
          /\ announced' = announced \ (decided \cap {r}) /\ decided' = decided \ {r}
          /\ UNCHANGED <<index, paired, disk, devTmp, open, faults>>
      BY <1>3 DEF Dev!Announce
    <2>2. announced' \ decided' \subseteq announced \ decided /\ decided \ decided' \subseteq pending'
      BY <2>1
    <2> QED BY <1>1, <1>2, <2>1, <2>2, BeginKeeps
  <1>4. ASSUME NEW r \in DevRequests, NEW at \in {"pair", "copy"}, Dev!Begin(c, at, r), pending' = pending \ {r},
               index' = [index EXCEPT ![DevDeviceOf[r]] = None], decided' = decided \cup {r},
               UNCHANGED <<paired, disk, devTmp, announced, open, faults>>
        PROVE  DeviceInv'
    <2>1. index' \in [DevDevices -> DevRequests \cup {None}]
      BY <1>1, <1>4 DEF DeviceConstants
    <2>2. pending \ pending' \subseteq decided' /\ pending' \subseteq DevRequests /\ r \in decided' /\ decided \subseteq decided'
          /\ announced' \ decided' \subseteq announced \ decided
      BY <1>1, <1>4
    <2> QED BY <1>1, <1>2, <1>4, <2>1, <2>2, BeginKeeps
  <1>5. ASSUME NEW r \in DevRequests, Dev!Approve(c, r) \/ Dev!RejectPair(c, r) PROVE DeviceInv'
    BY <1>4, <1>5 DEF Dev!Approve, Dev!RejectPair
  <1>6. ASSUME Dev!Begin(c, "copy", None), paired' \in PairedMaps, Within(paired)', open \subseteq open',
               UNCHANGED <<pending, index, disk, devTmp, announced, decided, faults>>
        PROVE  DeviceInv'
    BY <1>1, <1>6, BeginKeeps DEF DeviceConstants
  <1>7. ASSUME NEW d \in DevDevices, Dev!RemovePair(c, d) PROVE DeviceInv'
    <2>1. paired' \in PairedMaps /\ Within(paired)'
      BY <1>1, <1>7 DEF Dev!RemovePair, Dev!histories, PairedMaps, Within
    <2> QED BY <1>6, <1>7, <2>1 DEF Dev!RemovePair, Dev!histories
  <1>8. ASSUME NEW d \in DevDevices, NEW o \in DevRoles,
               Dev!TokenRevoke(c, d, o) \/ \E wanted \in SUBSET DevScopes : Dev!TokenRotate(c, d, o, wanted)
        PROVE  DeviceInv'
    <2>1. paired' \in PairedMaps /\ Within(paired)' /\ open \subseteq open'
      BY <1>1, <1>8, TokenStep
    <2>2. Dev!Begin(c, "copy", None) /\ UNCHANGED <<pending, index, disk, devTmp, announced, decided, faults>>
      BY <1>8 DEF Dev!TokenRevoke, Dev!TokenRotate, Dev!histories
    <2> QED BY <1>6, <2>1, <2>2
  <1> QED BY <1>3, <1>5, <1>7, <1>8

\* The later critical sections of a call.
LEMMA SectionStep ==
    ASSUME DeviceConstants, DeviceInv, NEW c \in DevCallers,
           Dev!InsertIndex(c) \/ Dev!Pair(c) \/ Dev!CopyPending(c) \/ Dev!CopyPaired(c)
    PROVE  DeviceInv'
  <1> DEFINE at == call'[c].at
  <1>1. /\ DevicesAreTyped /\ OneIsAlone /\ CopiesAreWithin /\ AnnouncedIsKept
        /\ call[c] \in CallRecords
        /\ UNCHANGED <<pending, disk, devTmp, calls, announced, decided, open, mixed, faults>>
        /\ call[c].at # "idle"
    BY DEF DeviceInv, DevicesAreTyped, Dev!InsertIndex, Dev!Pair, Dev!CopyPending, Dev!CopyPaired,
       Dev!histories
  <1>2. /\ call' \in [DevCallers -> CallRecords] /\ at \in {"copy", "copied", "write"}
        /\ call'[c].req = call[c].req
        /\ \A e \in DevCallers : e # c => call'[e] = call[e]
        /\ at = "copied" => call'[c].pending = pending
        /\ at = "write" => call[c].at = "copied" /\ call'[c].pending = call[c].pending /\ call'[c].paired = paired
    <2>1. CASE Dev!InsertIndex(c) \/ Dev!Pair(c)
      BY <1>1, <2>1 DEF Dev!InsertIndex, Dev!Pair, Dev!To, CallRecords, CallPlaces, HasCopies, DevicesAreTyped
    <2>2. CASE Dev!CopyPending(c)
      BY <1>1, <2>2 DEF Dev!CopyPending, CallRecords, CallPlaces, HasCopies, DevicesAreTyped
    <2>3. CASE Dev!CopyPaired(c)
      BY <1>1, <2>3 DEF Dev!CopyPaired, CallRecords, CallPlaces, HasCopies, DevicesAreTyped
    <2> QED BY <2>1, <2>2, <2>3
  <1>3. /\ index' \in [DevDevices -> DevRequests \cup {None}] /\ paired' \in PairedMaps
        /\ Within(paired)'
        /\ paired' = paired \/ at = "copy"
    <2>1. CASE Dev!Pair(c)
      BY <1>1, <2>1, PairStep DEF Dev!Pair, Dev!To, DevicesAreTyped, CallRecords
    <2>2. CASE ~Dev!Pair(c)
      BY <1>1, <2>2
         DEF Dev!InsertIndex, Dev!CopyPending, Dev!CopyPaired, DevicesAreTyped, CopiesAreWithin, Within, DeviceConstants
    <2> QED BY <2>1, <2>2
  <1> HIDE DEF at
  <1>4. DevicesAreTyped'
    BY <1>1, <1>2, <1>3 DEF DevicesAreTyped, at, HasCopies
  <1>5. Dev!FileIsCurrent'
    BY <1>2 DEF Dev!FileIsCurrent, Dev!NoCalls, at
  <1>6. OneIsAlone'
    BY <1>1, <1>2, <1>3 DEF OneIsAlone, at, HasCopies
  <1>7. AnnouncedIsKept'
    BY <1>1, <1>2 DEF AnnouncedIsKept
  <1>8. CopiesAreWithin'
    BY <1>1, <1>2, <1>3 DEF CopiesAreWithin, Within, at, HasCopies
  <1> QED BY <1>4, <1>5, <1>6, <1>7, <1>8 DEF DeviceInv

\* A file: its type, and what a blank or a whole one holds.
LEMMA FileIs ==
    /\ \A x \in {"none", "empty", "torn"} : /\ Dev!Blank(x) \in FileRecords /\ Dev!Blank(x).state = x
                                          /\ Within(Dev!Blank(x).paired)
    /\ \A p \in SUBSET DevRequests, q \in PairedMaps :
          /\ Dev!Whole(p, q) \in FileRecords /\ Dev!Whole(p, q).state = "whole"
          /\ Dev!Whole(p, q).pending = p /\ Dev!Whole(p, q).paired = q
  BY DEF Dev!Blank, Dev!Whole, Dev!Nobody, FileRecords, PairedMaps, Within

\* The temporary file is opened and written.
LEMMA TmpStep ==
    ASSUME DeviceConstants, DeviceInv, NEW c \in DevCallers, Dev!OpenTmp(c) \/ Dev!WriteTmp(c)
    PROVE  DeviceInv'
  <1> USE DEF HasCopies
  <1>1. /\ DevicesAreTyped /\ Dev!FileIsCurrent /\ OneIsAlone /\ AnnouncedIsKept /\ CopiesAreWithin
        /\ call[c] \in CallRecords /\ call[c].at \in HasCopies
        /\ call[c].pending \in SUBSET DevRequests /\ call[c].paired \in PairedMaps
        /\ UNCHANGED <<pending, index, paired, calls, announced, decided, open, mixed, faults>>
    BY DEF DeviceInv, DevicesAreTyped, CallRecords, Dev!OpenTmp, Dev!WriteTmp, Dev!histories
  <1>2. PICK at \in {"open", "rename"} : Dev!To(c, at) /\ (at = "open" <=> Dev!OpenTmp(c))
    BY DEF Dev!OpenTmp, Dev!WriteTmp
  <1>3. /\ call' \in [DevCallers -> CallRecords] /\ call'[c] = [call[c] EXCEPT !.at = at]
        /\ call'[c].at = at /\ call'[c].req = call[c].req
        /\ call'[c].pending = call[c].pending /\ call'[c].paired = call[c].paired
        /\ \A e \in DevCallers : e # c => call'[e] = call[e]
    BY <1>1, <1>2 DEF Dev!To, DevicesAreTyped, CallRecords, CallPlaces
  <1> DEFINE new == Dev!Whole(call[c].pending, call[c].paired)
  <1>4. /\ new \in FileRecords /\ new.state = "whole" /\ new.pending = call[c].pending
        /\ new.paired = call[c].paired /\ Within(new.paired)
    BY <1>1, FileIs DEF CopiesAreWithin
  <1>5. /\ Dev!Blank("empty") \in FileRecords /\ Dev!Blank("empty").state = "empty"
        /\ Dev!Blank("torn") \in FileRecords
        /\ Within(Dev!Blank("empty").paired) /\ Within(Dev!Blank("torn").paired)
    BY FileIs
  <1> HIDE DEF new
  <1>6. /\ devTmp' \in {devTmp, new, Dev!Blank("empty"), Dev!Blank("torn")}
        /\ disk' \in {disk, new, Dev!Blank("torn")}
        /\ at = "open" => devTmp' = Dev!Blank("empty") /\ disk' = disk
        /\ mixed # "yes" => disk' = disk /\ (at = "rename" => devTmp' = new)
    <2>1. CASE Dev!OpenTmp(c)
      BY <1>2, <2>1 DEF Dev!OpenTmp
    <2>2. CASE Dev!WriteTmp(c)
      <3>1. mixed # "yes" => call[c].at = "open" /\ devTmp.state = "empty"
        BY <1>1, <2>2 DEF OneIsAlone, Dev!WriteTmp
      <3> QED BY <1>2, <2>2, <3>1 DEF Dev!WriteTmp, Dev!Fill, Dev!OpenTmp, new
    <2> QED BY <2>1, <2>2
  <1>7. DevicesAreTyped'
    BY <1>1, <1>3, <1>4, <1>5, <1>6 DEF DevicesAreTyped
  <1>8. Dev!FileIsCurrent'
    BY <1>3 DEF Dev!FileIsCurrent, Dev!NoCalls
  <1>9. OneIsAlone'
    <2>1. mixed # "yes" => new = Dev!Whole(pending, paired)
      BY <1>1 DEF OneIsAlone, new
    <2>2. ASSUME mixed # "yes" PROVE \A e \in DevCallers : e # c => call'[e].at = "idle"
      BY <1>1, <1>3, <2>2 DEF OneIsAlone
    <2>3. ASSUME mixed # "yes" PROVE call'[c].pending = pending /\ call'[c].paired = paired
      BY <1>1, <1>3, <2>3 DEF OneIsAlone
    <2> QED BY <1>1, <1>3, <1>5, <1>6, <2>1, <2>2, <2>3 DEF OneIsAlone
  <1>10. AnnouncedIsKept'
    BY <1>1, <1>3, <1>6 DEF AnnouncedIsKept
  <1>11. CopiesAreWithin'
    <2>1. Within(devTmp'.paired) /\ Within(disk'.paired)
      BY <1>1, <1>4, <1>5, <1>6 DEF CopiesAreWithin
    <2>2. \A e \in DevCallers : call'[e].at \in HasCopies => Within(call'[e].paired)
      BY <1>1, <1>3 DEF CopiesAreWithin
    <2> QED BY <1>1, <2>1, <2>2 DEF CopiesAreWithin, Within
  <1> QED BY <1>7, <1>8, <1>9, <1>10, <1>11 DEF DeviceInv

\* The end of a call, and a restart.
LEMMA EndStep ==
    ASSUME DeviceConstants, DeviceInv,
           \/ \E c \in DevCallers : Dev!Rename(c) \/ Dev!RenameFails(c) \/ Dev!WriteFails(c)
           \/ Dev!Restart
    PROVE  DeviceInv'
  <1> USE DEF HasCopies
  <1>1. DevicesAreTyped /\ Dev!FileIsCurrent /\ OneIsAlone /\ AnnouncedIsKept /\ CopiesAreWithin
    BY DEF DeviceInv
  <1>2. Dev!Idle \in CallRecords /\ Dev!Idle.at = "idle" /\ Dev!Idle.req = None
    BY DEF Dev!Idle, CallRecords, CallPlaces
  <1>3. ASSUME NEW c \in DevCallers, Dev!Rename(c) PROVE DeviceInv'
    <2>1. /\ call[c].at = "rename" /\ call' = Dev!Moved(c)
          /\ announced' = announced \cup ({call[c].req} \ (decided \cup {None}))
          /\ disk' = devTmp /\ devTmp' = Dev!Blank("none")
          /\ UNCHANGED <<pending, index, paired, calls, decided, open, mixed, faults>>
      BY <1>3 DEF Dev!Rename
    <2>2. /\ call' \in [DevCallers -> CallRecords] /\ call'[c] = Dev!Idle
          /\ \A e \in DevCallers : e # c =>
                /\ call'[e].req = call[e].req /\ call'[e].pending = call[e].pending
                /\ call'[e].paired = call[e].paired
                /\ call'[e].at = call[e].at \/ (call[e].at = "open" /\ call'[e].at = "openMoved")
          /\ call[c].req \in DevRequests \cup {None}
      BY <1>1, <1>2, <2>1 DEF Dev!Moved, DevicesAreTyped, CallRecords, CallPlaces
    <2>3. /\ disk' \in FileRecords /\ devTmp' \in FileRecords /\ devTmp'.state = "none"
          /\ Within(disk'.paired) /\ Within(devTmp'.paired)
      BY <1>1, <2>1, FileIs DEF DevicesAreTyped, CopiesAreWithin
    <2>4. DevicesAreTyped'
      BY <1>1, <1>2, <2>1, <2>2, <2>3 DEF DevicesAreTyped
    <2>5. mixed # "yes" => disk'.pending = pending /\ disk'.paired = paired
      BY <1>1, <2>1 DEF OneIsAlone, Dev!Whole
    <2>6. Dev!FileIsCurrent'
      BY <2>1, <2>5 DEF Dev!FileIsCurrent
    <2>7. OneIsAlone'
      <3>1. ASSUME mixed # "yes" PROVE \A e \in DevCallers : call'[e].at = "idle"
        BY <1>1, <1>2, <2>1, <2>2, <3>1 DEF OneIsAlone
      <3> QED BY <2>1, <3>1 DEF OneIsAlone
    <2>8. AnnouncedIsKept'
      BY <1>1, <1>2, <2>1, <2>2, <2>5 DEF AnnouncedIsKept, DeviceConstants
    <2>9. CopiesAreWithin'
      BY <1>1, <1>2, <2>1, <2>2, <2>3 DEF CopiesAreWithin, Within
    <2> QED BY <2>4, <2>6, <2>7, <2>8, <2>9 DEF DeviceInv
  <1>4. ASSUME NEW c \in DevCallers, Dev!RenameFails(c) \/ Dev!WriteFails(c) PROVE DeviceInv'
    <2>1. /\ call' = [call EXCEPT ![c] = Dev!Idle] /\ call[c].at \in HasCopies \cup {"rename"}
          /\ faults' \in 0..DevMaxFaults /\ mixed' \in {mixed, "yes"}
          /\ UNCHANGED <<pending, index, paired, calls, announced, decided, open>>
      BY <1>1, <1>4 DEF Dev!WriteFails, Dev!RenameFails, Dev!histories, DevicesAreTyped, DeviceConstants
    <2>2. call' \in [DevCallers -> CallRecords] /\ call'[c] = Dev!Idle /\ \A e \in DevCallers : e # c => call'[e] = call[e]
      BY <1>1, <1>2, <2>1 DEF DevicesAreTyped
    <2>3. mixed' = "yes"
      <3>1. CASE Dev!RenameFails(c)
        <4>1. call[c].at = "rename" /\ devTmp.state = "none" /\ mixed' = mixed
          BY <3>1 DEF Dev!RenameFails
        <4>2. Dev!Whole(pending, paired).state = "whole"
          BY DEF Dev!Whole
        <4> QED BY <1>1, <4>1, <4>2 DEF OneIsAlone
      <3>2. CASE Dev!WriteFails(c)
        BY <3>2 DEF Dev!WriteFails
      <3> QED BY <1>4, <3>1, <3>2
    <2>4. disk' \in {disk, Dev!Blank("torn")} /\ devTmp' \in {devTmp, Dev!Blank("torn")}
      BY <1>4 DEF Dev!RenameFails, Dev!WriteFails, Dev!Fill
    <2>5. DevicesAreTyped'
      BY <1>1, <1>2, <2>1, <2>2, <2>3, <2>4, FileIs DEF DevicesAreTyped
    <2>6. Dev!FileIsCurrent' /\ OneIsAlone' /\ AnnouncedIsKept'
      BY <2>3 DEF Dev!FileIsCurrent, OneIsAlone, AnnouncedIsKept
    <2>7. CopiesAreWithin'
      <3>1. Within(disk'.paired) /\ Within(devTmp'.paired)
        BY <1>1, <2>4, FileIs DEF CopiesAreWithin
      <3> QED BY <1>1, <1>2, <2>1, <2>2, <3>1 DEF CopiesAreWithin, Within
    <2> QED BY <2>5, <2>6, <2>7 DEF DeviceInv
  <1>5. CASE Dev!Restart
    <2>1. /\ faults < DevMaxFaults /\ faults' = faults + 1 /\ pending' = disk.pending
          /\ paired' = disk.paired /\ index' = Dev!Rebuilt
          /\ call' = [c \in DevCallers |-> Dev!Idle]
          /\ mixed' = IF mixed = "yes" THEN "repaired" ELSE mixed
          /\ UNCHANGED <<disk, devTmp, calls, announced, decided, open>>
      BY <1>5 DEF Dev!Restart, Dev!histories
    <2>2. disk.pending \in SUBSET DevRequests /\ disk.paired \in PairedMaps
      BY <1>1 DEF DevicesAreTyped, FileRecords
    <2>3. Dev!Rebuilt \in [DevDevices -> DevRequests \cup {None}]
      BY <2>2 DEF Dev!Rebuilt
    <2>4. \A c \in DevCallers : call'[c] = Dev!Idle
      BY <2>1
    <2>5. DevicesAreTyped'
      BY <1>1, <1>2, <2>1, <2>2, <2>3, <2>4 DEF DevicesAreTyped, DeviceConstants
    <2>6. Dev!FileIsCurrent'
      BY <2>1, <2>2 DEF Dev!FileIsCurrent
    <2>7. OneIsAlone'
      BY <1>2, <2>4 DEF OneIsAlone
    <2>8. AnnouncedIsKept'
      BY <1>1, <1>2, <2>1, <2>4 DEF AnnouncedIsKept, DeviceConstants
    <2>9. CopiesAreWithin'
      BY <1>1, <1>2, <2>1, <2>4 DEF CopiesAreWithin, Within
    <2> QED BY <2>5, <2>6, <2>7, <2>8, <2>9 DEF DeviceInv
  <1> QED BY <1>3, <1>4, <1>5

\* For any devices, requests, calls and faults, in any order of the critical sections: after a
\* call that ran alone the file is what the gateway holds; an announced request stays until it is
\* decided as long as calls do not overlap; and no token goes beyond what was approved for its device.
THEOREM DevicesArePaired == ASSUME DeviceConstants PROVE Dev!Spec => []DevicesHold
  <1>1. Dev!Init => DeviceInv
    <2> SUFFICES ASSUME Dev!Init PROVE DeviceInv
      OBVIOUS
    <2>1. /\ Dev!Idle \in CallRecords /\ Dev!Idle.at = "idle" /\ Dev!Idle.req = None
          /\ \A c \in DevCallers : call[c] = Dev!Idle
          /\ Dev!Nobody \in PairedMaps /\ disk.paired = Dev!Nobody /\ disk.pending = {}
          /\ devTmp.paired = Dev!Nobody /\ disk \in FileRecords /\ devTmp \in FileRecords
      BY FileIs DEF Dev!Init, Dev!Idle, CallRecords, CallPlaces, Dev!Nobody, PairedMaps, Dev!Blank
    <2>2. DevicesAreTyped
      BY <2>1 DEF Dev!Init, DevicesAreTyped, DeviceConstants, HasCopies
    <2>3. Dev!FileIsCurrent /\ OneIsAlone /\ AnnouncedIsKept
      BY <2>1 DEF Dev!Init, Dev!FileIsCurrent, OneIsAlone, AnnouncedIsKept, DeviceConstants, HasCopies
    <2>4. CopiesAreWithin
      BY <2>1 DEF Dev!Init, CopiesAreWithin, Within, Dev!Nobody, HasCopies
    <2> QED BY <2>2, <2>3, <2>4 DEF DeviceInv
  <1>2. DeviceInv /\ [Dev!Next]_(Dev!vars) => DeviceInv'
    <2> SUFFICES ASSUME DeviceInv, [Dev!Next]_(Dev!vars) PROVE DeviceInv'
      OBVIOUS
    <2>1. CASE UNCHANGED Dev!vars
      BY <2>1 DEF Dev!vars, DeviceInv, DevicesAreTyped, Dev!FileIsCurrent, Dev!NoCalls, OneIsAlone,
         AnnouncedIsKept, CopiesAreWithin,
                  Within
    <2> QED BY <2>1, CallStep, SectionStep, TmpStep, EndStep DEF Dev!Next
  <1>3. DeviceInv => DevicesHold
    <2> SUFFICES ASSUME DeviceInv PROVE DevicesHold
      OBVIOUS
    <2>1. \A d \in DevDevices : paired[d] # None =>
             /\ paired[d].approved \subseteq DevScopes
             /\ \A o \in DevRoles : paired[d].tokens[o] # None => paired[d].tokens[o].scopes \subseteq DevScopes
      BY RecordOf DEF DeviceInv, DevicesAreTyped
    <2>2. Dev!TypeOK
      BY <2>1 DEF DeviceInv, DevicesAreTyped, Dev!TypeOK, FileRecords
    <2> QED BY <2>2
               DEF DeviceInv, DevicesHold, AnnouncedIsKept, Dev!RequestsSurvive, CopiesAreWithin, Within, Dev!TokensWithinApproval
  <1> QED BY <1>1, <1>2, <1>3, PTL DEF Dev!Spec

-----------------------------------------------------------------------------
(* Settings.                                                                 *)

Set == INSTANCE Settings WITH
    Clients <- SetClients, Mixes <- SetMixes, MaxFaults <- SetMaxFaults,
    call <- setting, disk <- configFile, faults <- setFaults, raced <- setRaced

\* There are finitely many clients, each with one kind of call, and a client is neither None nor
\* the default value.
Kinds == {"patch", "set", "voicewake", "skills", "approvals", "node", "put"}
SettingsConstants ==
    /\ IsFiniteSet(SetClients) /\ SetMixes \subseteq [SetClients -> Kinds] /\ SetMaxFaults \in Nat
    /\ None \notin Set!Values /\ Set!Default \notin SetClients

\* Where a call of each kind can be.
PlacesOf(k) ==
    {"new", "cut"} \cup
    (CASE k \in {"set", "patch"} -> {"changed", "done", "failed"}
       [] k = "put" -> {"filed", "done", "failed"}
       [] k = "skills" -> {"merged", "changed", "done", "failed"}
       [] k = "voicewake" -> {"live", "changed", "done", "failed"}
       [] k = "approvals" -> {"looked", "checked", "refused", "live", "changed", "saved", "done", "failed"}
       [] k = "node" -> {"looked", "checked", "refused", "saved", "done", "failed"})
Places == {"new", "looked", "checked", "live", "merged", "changed", "saved", "filed"} \cup Set!Over

\* The types, with the places of each kind.
SettingsAreTyped ==
    /\ Set!TypeOK
    /\ setting \in [SetClients -> [at : Places, seen : Set!Values \cup {None}]]
    /\ DOMAIN live = {"voicewake", "skills", "approvals", "node"}
    /\ live \in [{"voicewake", "skills", "approvals", "node"} -> Set!Values \cup {None}]
    /\ \A c \in SetClients : setting[c].at \in PlacesOf(kind[c])

\* A PUT that has written the file and not the memory.
FiledIsOnDisk == \A c \in SetClients : setting[c].at = "filed" => \A f \in Set!Fields : configFile[f] = c

\* Whether the part f of a configuration is of a call that sets it.
OfASetter(conf, f) == \E d \in SetClients : f \in Set!Sets(d) /\ conf[f] = d

\* What a call has changed is set in memory, what it has saved is set in the file.
ChangedIsSet ==
    \A c \in SetClients : \A f \in Set!Sets(c) :
        /\ setting[c].at \in {"merged", "changed", "saved", "done"} => OfASetter(config, f)
        /\ setting[c].at \in {"filed", "saved", "done"} => OfASetter(configFile, f)

\* The part f is set by one call at most, and by that only.
Untouched(f) == \A d \in SetClients : f \notin Set!Sets(d)
Sole(f, c) == kind[c] = f /\ \A d \in SetClients : f \in Set!Sets(d) => d = c

\* How far the only call that sets a copied part has come.
SoleIsFollowed ==
    \A f \in {"voicewake", "skills"} :
        /\ Untouched(f) => config[f] = Set!Default /\ configFile[f] = Set!Default /\ live[f] \in {Set!Default, None}
        /\ \A c \in SetClients : Sole(f, c) =>
              /\ setting[c].at = "new" => config[f] = Set!Default /\ configFile[f] = Set!Default /\ live[f] \in {Set!Default, None}
              /\ setting[c].at = "live" => live[f] = c
              /\ setting[c].at = "merged" => config[f] = c
              /\ setting[c].at = "changed" => config[f] = c /\ live[f] = c
              /\ setting[c].at = "done" => config[f] = c /\ configFile[f] = c /\ live[f] \in {c, None}

Failed == {d \in SetClients : setting[d].at = "failed"}

\* Where the approvals of the node in memory come from, and what a call that may overwrite
\* their file has seen.
NodeIsKnown ==
    /\ \/ live["node"] \in {None, afile["node"]} \cup Failed
       \/ live["node"] = Set!Default /\ afile["node"] = None
       \/ \E d \in SetClients : kind[d] = "node" /\ setting[d].at = "saved" /\ live["node"] = d
    /\ \A c \in SetClients : kind[c] = "node" =>
          /\ setting[c].at = "saved" => live["node"] = c
          /\ setting[c].at \in {"checked", "saved"} =>
                afile["node"] = None \/ setting[c].seen \in {afile["node"]} \cup Failed

\* What holds of the configuration until a PUT has overlapped another call.
FileIsKept == Set!Follows /\ FiledIsOnDisk /\ ChangedIsSet

\* The inductive invariant.
SettingsInv ==
    /\ SettingsAreTyped /\ SoleIsFollowed
    /\ "put" \notin setRaced => FileIsKept
    /\ "node" \notin setRaced => NodeIsKnown

SettingsHold == Set!TypeOK /\ Set!FileFollows /\ Set!ChangesAreKept /\ Set!CopiesAgree

-----------------------------------------------------------------------------
\* What each kind of call sets.
LEMMA SetsOf ==
    ASSUME NEW c \in SetClients, kind[c] \in Kinds
    PROVE  /\ Set!Sets(c) \subseteq Set!Fields
           /\ kind[c] \in {"set", "put"} => Set!Sets(c) = Set!Fields
           /\ kind[c] = "patch" => Set!Sets(c) = {"rest"}
           /\ kind[c] = "node" => Set!Sets(c) = {}
           /\ kind[c] \in {"voicewake", "skills", "approvals"} => Set!Sets(c) = {kind[c]}
  BY DEF Set!Sets, Kinds, Set!Fields

\* A call that moves, and nobody else.
LEMMA Moved ==
    ASSUME SettingsAreTyped, NEW c \in SetClients, NEW at \in Places, Set!To(c, at)
    PROVE  /\ setting' \in [SetClients -> [at : Places, seen : Set!Values \cup {None}]]
           /\ setting'[c].at = at /\ setting'[c].seen = setting[c].seen
           /\ \A d \in SetClients : d # c => setting'[d] = setting[d]
  BY DEF SettingsAreTyped, Set!To

\* What a step of a call can be, and what it leaves alone.
Changes(c) ==
    /\ config' = [f \in Set!Fields |-> IF f \in Set!Sets(c) THEN c ELSE config[f]]
    /\ \/ kind[c] \in {"set", "patch"} /\ setting[c].at = "new" /\ Set!To(c, "changed")
       \/ kind[c] = "skills" /\ setting[c].at = "new" /\ Set!To(c, "merged")
       \/ kind[c] \in {"voicewake", "approvals"} /\ setting[c].at = "live" /\ Set!To(c, "changed")
    /\ UNCHANGED <<kind, configFile, live, afile, stale, setFaults>>
GoesLive(c) ==
    /\ Set!SetLive(c)
    /\ \/ kind[c] = "skills" /\ setting[c].at = "merged" /\ Set!To(c, "changed")
       \/ kind[c] = "voicewake" /\ setting[c].at = "new" /\ Set!To(c, "live")
       \/ kind[c] = "approvals" /\ setting[c].at = "checked" /\ Set!To(c, "live")
       \/ kind[c] = "node" /\ setting[c].at = "checked" /\ Set!To(c, "saved")
    /\ UNCHANGED <<kind, config, configFile, afile, stale, setFaults>>
Fails(c) ==
    /\ \/ kind[c] = "put" /\ setting[c].at = "new" /\ stale' = stale
       \/ setting[c].at = "changed" /\ stale' = TRUE
       \/ setting[c].at = "saved" /\ stale' = stale
    /\ setFaults < SetMaxFaults /\ setFaults' = setFaults + 1 /\ Set!To(c, "failed")
    /\ UNCHANGED <<kind, config, configFile, live, afile>>

LEMMA StepsOf ==
    ASSUME SettingsConstants, SettingsAreTyped, NEW c \in SetClients, Set!Step(c)
    PROVE  \/ Changes(c) \/ GoesLive(c) \/ Fails(c)
           \/ Set!Look(c) \/ Set!Check(c) \/ Set!PutFile(c) \/ Set!PutMemory(c) \/ Set!Persist(c) \/ Set!WriteFile(c)
  <1>0. kind[c] \in Kinds
    BY DEF SettingsConstants, SettingsAreTyped, Set!TypeOK
  <1>1. CASE Set!ConfigSet(c) \/ Set!ConfigPatch(c) \/ Set!SkillsChange(c) \/ Set!VoicewakeChange(c) \/ Set!ApprovalsChange(c)
    BY <1>0, <1>1, SetsOf
       DEF Set!ConfigSet, Set!ConfigPatch, Set!SkillsChange, Set!VoicewakeChange, Set!ApprovalsChange, Set!Begin, Set!Changed, Changes
  <1>2. CASE Set!SkillsLive(c) \/ Set!VoicewakeLive(c) \/ Set!ApprovalsLive(c) \/ Set!NodeLive(c)
    BY <1>2 DEF Set!SkillsLive, Set!VoicewakeLive, Set!ApprovalsLive, Set!NodeLive, Set!Begin,
       GoesLive
  <1>3. CASE Set!PutFileFails(c) \/ Set!PersistFails(c) \/ Set!WriteFileFails(c)
    BY <1>3 DEF Set!PutFileFails, Set!PersistFails, Set!WriteFileFails, Set!Begin, Fails
  <1> QED BY <1>1, <1>2, <1>3 DEF Set!Step

\* Values that may be loaded.
LEMMA LoadedIsTyped ==
    ASSUME SettingsConstants, SettingsAreTyped, NEW f \in Set!Stores
    PROVE  /\ Set!Loaded(f) \in Set!Values
           /\ live[f] # None => Set!Loaded(f) = live[f]
           /\ live[f] = None /\ afile[f] # None => Set!Loaded(f) = afile[f]
           /\ live[f] = None /\ afile[f] = None => Set!Loaded(f) = Set!Default
  <1>1. live[f] \in Set!Values \cup {None} /\ afile[f] \in Set!Values \cup {None} /\ Set!Default \in Set!Values
    BY DEF SettingsAreTyped, Set!TypeOK, Set!Stores, Set!Values
  <1> QED BY <1>1 DEF Set!Loaded

\* The types are kept.
LEMMA TypedStep ==
    ASSUME SettingsConstants, SettingsAreTyped, NEW c \in SetClients, Set!Step(c),
           setRaced' \subseteq {"put"} \cup Set!Stores
    PROVE  SettingsAreTyped'
  <1> USE DEF Places, Set!Over
  <1> DEFINE Parts == {"voicewake", "skills", "approvals", "node"}
             LiveOK(l) == /\ l \in [Parts -> Set!Values \cup {None}]
                          /\ l.voicewake \in Set!Values /\ l.approvals \in Set!Values
  <1>0. /\ kind[c] \in Kinds /\ setting[c].at \in PlacesOf(kind[c]) /\ c \in Set!Values
        /\ kind \in SetMixes
        /\ LiveOK(live)
    BY DEF SettingsConstants, SettingsAreTyped, Set!TypeOK, Set!Values
  <1>1. ASSUME NEW at \in Places, Set!To(c, at), at \in PlacesOf(kind[c]), kind' = kind,
               config' \in [Set!Fields -> Set!Values], configFile' \in [Set!Fields -> Set!Values],
               LiveOK(live'),
               afile' \in [Set!Stores -> Set!Values \cup {None}], stale' \in BOOLEAN, setFaults' \in 0..SetMaxFaults
        PROVE  SettingsAreTyped'
    <2>1. /\ setting' \in [SetClients -> [at : Places, seen : Set!Values \cup {None}]]
          /\ setting'[c].at = at
          /\ \A d \in SetClients : d # c => setting'[d] = setting[d]
      BY <1>1, Moved
    <2>2. \A d \in SetClients : setting'[d].at \in PlacesOf(kind'[d])
      BY <1>1, <2>1 DEF SettingsAreTyped
    <2>3. \A d \in SetClients : setting'[d].at = "saved" => kind'[d] \in Set!Stores
      BY <1>1, <2>1, <2>2, <1>0
         DEF SettingsAreTyped, Set!TypeOK, PlacesOf, Kinds, Set!Stores, SettingsConstants
    <2> QED BY <1>0, <1>1, <2>1, <2>2, <2>3 DEF SettingsAreTyped, Set!TypeOK
  <1>2. /\ config \in [Set!Fields -> Set!Values] /\ configFile \in [Set!Fields -> Set!Values]
        /\ afile \in [Set!Stores -> Set!Values \cup {None}] /\ stale \in BOOLEAN
        /\ setFaults \in 0..SetMaxFaults
    BY DEF SettingsAreTyped, Set!TypeOK
  <1>3. CASE Changes(c)
    <2>1. config' \in [Set!Fields -> Set!Values] /\ UNCHANGED <<kind, configFile, live, afile, stale, setFaults>>
      BY <1>0, <1>2, <1>3 DEF Changes
    <2>2. PICK at \in {"changed", "merged"} : Set!To(c, at) /\ at \in PlacesOf(kind[c])
      BY <1>3 DEF Changes, PlacesOf
    <2> QED BY <1>0, <1>1, <1>2, <2>1, <2>2
  <1>4. CASE GoesLive(c)
    <2>1. UNCHANGED <<kind, config, configFile, afile, stale, setFaults>> /\ live' = [live EXCEPT ![kind[c]] = c]
      BY <1>4 DEF GoesLive, Set!SetLive
    <2>2. LiveOK(live')
      BY <1>0, <2>1
    <2>3. PICK at \in {"changed", "live", "saved"} : Set!To(c, at) /\ at \in PlacesOf(kind[c])
      BY <1>4 DEF GoesLive, PlacesOf
    <2> QED BY <1>0, <1>1, <1>2, <2>1, <2>2, <2>3
  <1>5. CASE Fails(c)
    <2>1. UNCHANGED <<kind, config, configFile, live, afile>> /\ Set!To(c, "failed") /\ stale' \in BOOLEAN
      BY <1>2, <1>5 DEF Fails
    <2>2. setFaults' \in 0..SetMaxFaults
      BY <1>2, <1>5 DEF Fails, SettingsConstants
    <2>3. "failed" \in PlacesOf(kind[c])
      BY <1>0 DEF PlacesOf, Kinds
    <2> QED BY <1>0, <1>1, <1>2, <2>1, <2>2, <2>3
  <1>6. CASE Set!Look(c)
    <2>1. kind[c] \in Set!Stores /\ Set!Loaded(kind[c]) \in Set!Values
      BY <1>6, LoadedIsTyped DEF Set!Look
    <2>2. LiveOK(live')
      BY <1>0, <1>6, <2>1 DEF Set!Look, Set!Stores
    <2>3. /\ setting' \in [SetClients -> [at : Places, seen : Set!Values \cup {None}]]
          /\ setting'[c].at = "looked"
          /\ \A d \in SetClients : d # c => setting'[d] = setting[d]
      BY <1>6, <2>1 DEF Set!Look, SettingsAreTyped
    <2>4. "looked" \in PlacesOf(kind[c])
      BY <2>1 DEF PlacesOf, Set!Stores
    <2>5. UNCHANGED <<kind, config, configFile, afile, stale, setFaults>>
      BY <1>6 DEF Set!Look
    <2> QED BY <2>2, <2>3, <2>4, <2>5 DEF SettingsAreTyped, Set!TypeOK
  <1>7. CASE Set!Check(c)
    <2>1. kind[c] \in Set!Stores /\ Set!Loaded(kind[c]) \in Set!Values
      BY <1>0, <1>7, LoadedIsTyped DEF Set!Check, PlacesOf, Kinds, Set!Stores
    <2>2. LiveOK(live')
      BY <1>0, <1>7, <2>1 DEF Set!Check, Set!Stores
    <2>3. PICK at \in {"checked", "refused"} : Set!To(c, at)
      BY <1>7 DEF Set!Check
    <2>4. at \in PlacesOf(kind[c])
      BY <2>1 DEF PlacesOf, Set!Stores
    <2> QED BY <1>0, <1>1, <1>2, <1>7, <2>2, <2>3, <2>4 DEF Set!Check
  <1>8. CASE Set!PutFile(c)
    <2>1. configFile' \in [Set!Fields -> Set!Values] /\ Set!To(c, "filed") /\ "filed" \in PlacesOf(kind[c])
      BY <1>0, <1>8 DEF Set!PutFile, Set!Begin, PlacesOf
    <2> QED BY <1>0, <1>1, <1>2, <1>8, <2>1 DEF Set!PutFile
  <1>9. CASE Set!PutMemory(c)
    <2>1. config' \in [Set!Fields -> Set!Values] /\ Set!To(c, "done") /\ "done" \in PlacesOf(kind[c]) /\ stale' = FALSE
      BY <1>0, <1>2, <1>9 DEF Set!PutMemory, Set!Begin, Set!Changed, PlacesOf
    <2> QED BY <1>0, <1>1, <1>2, <1>9, <2>1 DEF Set!PutMemory
  <1>10. CASE Set!Persist(c)
    <2>1. PICK at \in {"saved", "done"} : Set!To(c, at) /\ (at = "saved" <=> kind[c] = "approvals")
      BY <1>10 DEF Set!Persist
    <2>2. at \in PlacesOf(kind[c])
      BY <1>0, <2>1 DEF PlacesOf, Kinds
    <2> QED BY <1>0, <1>1, <1>2, <1>10, <2>1, <2>2 DEF Set!Persist
  <1>11. CASE Set!WriteFile(c)
    <2>1. kind[c] \in Set!Stores /\ Set!To(c, "done") /\ "done" \in PlacesOf(kind[c])
      BY <1>0, <1>11 DEF Set!WriteFile, SettingsAreTyped, Set!TypeOK, PlacesOf, Set!Stores
    <2>2. afile' \in [Set!Stores -> Set!Values \cup {None}]
      BY <1>0, <1>2, <1>11, <2>1 DEF Set!WriteFile
    <2> QED BY <1>0, <1>1, <1>2, <1>11, <2>1, <2>2 DEF Set!WriteFile
  <1> QED BY <1>3, <1>4, <1>5, <1>6, <1>7, <1>8, <1>9, <1>10, <1>11, StepsOf

\* Where a step of c leaves the calls.
LEMMA StepMoves ==
    ASSUME SettingsConstants, SettingsAreTyped, NEW c \in SetClients, Set!Step(c)
    PROVE  /\ \A d \in SetClients : d # c => setting'[d] = setting[d]
           /\ kind' = kind /\ \A d \in SetClients : Set!Sets(d)' = Set!Sets(d)
           /\ kind[c] \in Kinds /\ setting[c].at \in PlacesOf(kind[c])
  <1> USE DEF Places, Set!Over
  <1>1. PICK k \in [at : Places, seen : Set!Values \cup {None}] : setting' = [setting EXCEPT ![c] = k]
    <2>1. ASSUME NEW at \in Places, Set!To(c, at)
          PROVE  \E k \in [at : Places, seen : Set!Values \cup {None}] : setting' = [setting EXCEPT ![c] = k]
      <3>1. [setting[c] EXCEPT !.at = at] \in [at : Places, seen : Set!Values \cup {None}]
        BY DEF SettingsAreTyped
      <3> QED BY <2>1, <3>1 DEF Set!To
    <2>2. CASE Set!Look(c)
      <3>1. [at |-> "looked", seen |-> Set!Loaded(kind[c])] \in [at : Places, seen : Set!Values \cup {None}]
        BY <2>2, LoadedIsTyped DEF Set!Look
      <3> QED BY <2>2, <3>1 DEF Set!Look
    <2>3. CASE Changes(c)
      BY <2>1, <2>3 DEF Changes
    <2>4. CASE GoesLive(c)
      BY <2>1, <2>4 DEF GoesLive
    <2>5. CASE Fails(c) \/ Set!PutFile(c) \/ Set!PutMemory(c) \/ Set!WriteFile(c)
      BY <2>1, <2>5 DEF Fails, Set!PutFile, Set!PutMemory, Set!WriteFile
    <2>6. CASE Set!Check(c) \/ Set!Persist(c)
      BY <2>1, <2>6 DEF Set!Check, Set!Persist
    <2> QED BY <2>2, <2>3, <2>4, <2>5, <2>6, StepsOf
  <1>2. kind' = kind
    BY StepsOf
       DEF Changes, GoesLive, Fails, Set!Look, Set!Check, Set!PutFile, Set!PutMemory, Set!Persist, Set!WriteFile
  <1>3. \A d \in SetClients : Set!Sets(d)' = Set!Sets(d)
    BY <1>2 DEF Set!Sets
  <1>4. kind[c] \in Kinds /\ setting[c].at \in PlacesOf(kind[c])
    BY DEF SettingsConstants, SettingsAreTyped, Set!TypeOK
  <1> QED BY <1>1, <1>2, <1>3, <1>4 DEF SettingsAreTyped

\* A step that clashes with no PUT is taken beside none in progress, and one that clashes with no
\* other call on the approvals of the node beside none that has passed its check.
LEMMA KeptApart ==
    ASSUME SettingsConstants, SettingsAreTyped, NEW c \in SetClients, NEW d \in SetClients, d # c
    PROVE  /\ "put" \notin Set!Clash(c) => setting[d].at # "filed"
           /\ "node" \notin Set!Clash(c) /\ kind[c] = "node" /\ kind[d] = "node" =>
                 setting[d].at \notin {"checked", "saved"}
  <1>1. setting[d].at = "filed" => kind[d] = "put"
    BY DEF SettingsConstants, SettingsAreTyped, Set!TypeOK, PlacesOf, Kinds
  <1>2. ASSUME setting[d].at = "filed" PROVE "put" \in Set!Clash(c)
    BY <1>1, <1>2 DEF Set!Clash, Set!Over
  <1>3. ASSUME kind[c] = "node", kind[d] = "node", setting[d].at \in {"checked", "saved"}
        PROVE  "node" \in Set!Clash(c)
    BY <1>3 DEF Set!Clash, Set!Over, Set!Stores
  <1> QED BY <1>2, <1>3

\* No call saves an older configuration over a newer one.
LEMMA FileStep ==
    ASSUME SettingsConstants, SettingsAreTyped, FileIsKept, NEW c \in SetClients,
           "put" \notin Set!Clash(c), Set!Step(c)
    PROVE  Set!Follows' /\ FiledIsOnDisk'
  <1> DEFINE Out == {"merged", "changed", "filed"}
  <1>0. SettingsAreTyped /\ Set!Follows /\ FiledIsOnDisk
    BY DEF FileIsKept
  <1>1. /\ \A d \in SetClients : d # c => setting'[d] = setting[d] /\ setting[d].at # "filed"
        /\ kind[c] \in Kinds /\ setting[c].at \in PlacesOf(kind[c])
    BY <1>0, StepMoves, KeptApart
  <1>2. ASSUME NEW at \in Places, Set!To(c, at) PROVE setting'[c].at = at
    BY <1>0, <1>2, Moved
  <1> USE DEF Places, Set!Over
  <1>3. ASSUME setting'[c].at \in {"merged", "changed"} PROVE Set!Follows' /\ FiledIsOnDisk'
    BY <1>1, <1>3 DEF Set!Follows, FiledIsOnDisk, Set!Unsaved
  <1>4. ASSUME setting[c].at \notin Out, setting'[c].at \notin Out, UNCHANGED <<config, configFile, stale>>
        PROVE  Set!Follows' /\ FiledIsOnDisk'
    BY <1>0, <1>1, <1>4 DEF Set!Follows, FiledIsOnDisk, Set!Unsaved
  <1>5. ASSUME setting'[c].at \notin Out, configFile' = config' \/ stale' = TRUE
        PROVE  Set!Follows' /\ FiledIsOnDisk'
    BY <1>1, <1>5 DEF Set!Follows, FiledIsOnDisk
  <1>6. CASE Changes(c)
    BY <1>2, <1>3, <1>6 DEF Changes
  <1>7. CASE GoesLive(c)
    BY <1>2, <1>3, <1>4, <1>7 DEF GoesLive
  <1>8. CASE Fails(c)
    BY <1>2, <1>4, <1>5, <1>8 DEF Fails
  <1>9. CASE Set!Look(c) \/ Set!Check(c)
    <2>1. CASE Set!Look(c)
      <3>1. setting'[c].at = "looked"
        BY <1>0, <2>1 DEF Set!Look, SettingsAreTyped
      <3> QED BY <1>4, <2>1, <3>1 DEF Set!Look
    <2>2. CASE Set!Check(c)
      BY <1>2, <1>4, <2>2 DEF Set!Check
    <2> QED BY <1>9, <2>1, <2>2
  <1>10. CASE Set!PutFile(c)
    <2>1. setting'[c].at = "filed" /\ configFile' = [f \in Set!Fields |-> c]
      BY <1>2, <1>10 DEF Set!PutFile
    <2> QED BY <1>1, <2>1 DEF Set!Follows, FiledIsOnDisk, Set!Unsaved
  <1>11. CASE Set!PutMemory(c)
    <2>1. setting'[c].at = "done" /\ setting[c].at = "filed" /\ configFile' = configFile
          /\ config' = [f \in Set!Fields |-> IF f \in Set!Fields THEN c ELSE config[f]]
      BY <1>2, <1>11 DEF Set!PutMemory, Set!Begin, Set!Changed
    <2>2. configFile = config'
      BY <1>0, <2>1 DEF FiledIsOnDisk, SettingsAreTyped, Set!TypeOK
    <2> QED BY <1>5, <2>1, <2>2
  <1>12. CASE Set!Persist(c)
    BY <1>2, <1>5, <1>12 DEF Set!Persist
  <1>13. CASE Set!WriteFile(c)
    BY <1>2, <1>4, <1>13 DEF Set!WriteFile
  <1> QED BY <1>0, <1>6, <1>7, <1>8, <1>9, <1>10, <1>11, <1>12, <1>13, StepsOf

\* What was changed and saved stays of a call that sets it.
LEMMA ChangedStep ==
    ASSUME SettingsConstants, SettingsAreTyped, FileIsKept, NEW c \in SetClients,
           "put" \notin Set!Clash(c), Set!Step(c) PROVE ChangedIsSet'
  <1>0. SettingsAreTyped /\ ChangedIsSet
    BY DEF FileIsKept
  <1>1. /\ \A d \in SetClients : d # c => setting'[d] = setting[d] /\ setting[d].at # "filed"
        /\ kind[c] \in Kinds /\ setting[c].at \in PlacesOf(kind[c]) /\ kind' = kind
        /\ \A d \in SetClients : Set!Sets(d)' = Set!Sets(d) /\ Set!Sets(d) \subseteq Set!Fields
    <2>1. \A d \in SetClients : kind[d] \in Kinds
      BY <1>0 DEF SettingsConstants, SettingsAreTyped, Set!TypeOK
    <2> QED BY <1>0, <2>1, StepMoves, KeptApart, SetsOf
  <1>2. ASSUME NEW at \in Places, Set!To(c, at) PROVE setting'[c].at = at
    BY <1>0, <1>2, Moved
  <1> DEFINE Own(conf, f) == \E d \in SetClients : f \in Set!Sets(d) /\ conf[f] = d
             InMemory == {"merged", "changed", "saved", "done"}
             InFile == {"filed", "saved", "done"}
  <1>3. \A f : (OfASetter(config, f) <=> Own(config, f)) /\ (OfASetter(configFile, f) <=> Own(configFile, f))
    BY DEF OfASetter
  <1>4. \A f : (OfASetter(config, f)' <=> Own(config', f)) /\ (OfASetter(configFile, f)' <=> Own(configFile', f))
    BY <1>1 DEF OfASetter
  <1>5. \A d \in SetClients : \A f \in Set!Sets(d) :
            /\ setting[d].at \in InMemory => Own(config, f)
            /\ setting[d].at \in InFile => Own(configFile, f)
    BY <1>0, <1>3 DEF ChangedIsSet
  <1>6. SUFFICES \A d \in SetClients : \A f \in Set!Sets(d) :
            /\ setting'[d].at \in InMemory => Own(config', f)
            /\ setting'[d].at \in InFile => Own(configFile', f)
    BY <1>1, <1>4 DEF ChangedIsSet
  <1> HIDE DEF Own
  <1> USE DEF Places, Set!Over
  <1>7. ASSUME UNCHANGED <<config, configFile>>,
               Set!Sets(c) = {} \/ (/\ setting'[c].at \in InMemory => setting[c].at \in InMemory
                                    /\ setting'[c].at \in InFile => setting[c].at \in InFile)
        PROVE  \A d \in SetClients : \A f \in Set!Sets(d) :
                  /\ setting'[d].at \in InMemory => Own(config', f)
                  /\ setting'[d].at \in InFile => Own(configFile', f)
    BY <1>1, <1>5, <1>7
  <1>8. ASSUME NEW conf, NEW f \in Set!Sets(c), conf[f] = c PROVE Own(conf, f)
    BY <1>8 DEF Own
  <1>9. CASE Changes(c)
    <2>1. /\ config' = [f \in Set!Fields |-> IF f \in Set!Sets(c) THEN c ELSE config[f]] /\ configFile' = configFile
          /\ setting'[c].at \in {"changed", "merged"}
      BY <1>2, <1>9 DEF Changes
    <2>2. \A f \in Set!Fields : IF f \in Set!Sets(c) THEN Own(config', f) ELSE config'[f] = config[f]
      BY <1>8, <2>1
    <2>3. \A f \in Set!Fields : Own(config, f) => Own(config', f)
      BY <2>2 DEF Own
    <2> QED BY <1>1, <1>5, <2>1, <2>2, <2>3
  <1>10. CASE GoesLive(c)
    <2>1. kind[c] = "node" => Set!Sets(c) = {}
      BY <1>1, SetsOf
    <2> QED BY <1>2, <1>7, <1>10, <2>1 DEF GoesLive
  <1>11. CASE Fails(c)
    BY <1>2, <1>7, <1>11 DEF Fails
  <1>12. CASE Set!Look(c)
    <2>1. setting'[c].at = "looked"
      BY <1>0, <1>12 DEF Set!Look, SettingsAreTyped
    <2> QED BY <1>7, <1>12, <2>1 DEF Set!Look
  <1>13. CASE Set!Check(c)
    BY <1>2, <1>7, <1>13 DEF Set!Check
  <1>14. CASE Set!PutFile(c)
    <2>1. setting'[c].at = "filed" /\ configFile' = [f \in Set!Fields |-> c] /\ config' = config /\ Set!Sets(c) = Set!Fields
      BY <1>1, <1>2, <1>14, SetsOf DEF Set!PutFile, Set!Begin
    <2>2. \A f \in Set!Fields : Own(configFile', f)
      BY <1>8, <2>1
    <2> QED BY <1>1, <1>5, <2>1, <2>2
  <1>15. CASE Set!PutMemory(c)
    <2>1. /\ setting[c].at = "filed" /\ configFile' = configFile /\ Set!Sets(c) = Set!Fields
          /\ \A f \in Set!Fields : config'[f] = c
      BY <1>1, <1>2, <1>15, SetsOf DEF Set!PutMemory, Set!Begin, Set!Changed
    <2>2. \A f \in Set!Fields : Own(config', f)
      BY <1>8, <2>1
    <2> QED BY <1>1, <1>5, <2>1, <2>2
  <1>16. CASE Set!Persist(c)
    <2>1. configFile' = config /\ config' = config /\ setting[c].at = "changed"
      BY <1>16 DEF Set!Persist
    <2> QED BY <1>1, <1>5, <2>1
  <1>17. CASE Set!WriteFile(c)
    BY <1>2, <1>7, <1>17 DEF Set!WriteFile
  <1> QED BY <1>0, <1>9, <1>10, <1>11, <1>12, <1>13, <1>14, <1>15, <1>16, <1>17, StepsOf

\* The copies follow the only call that sets their part.
LEMMA SoleStep ==
    ASSUME SettingsConstants, SettingsAreTyped, SoleIsFollowed, NEW c \in SetClients,
           Set!Step(c) PROVE SoleIsFollowed'
  <1>0. SettingsAreTyped /\ SoleIsFollowed
    OBVIOUS
  <1>1. /\ \A d \in SetClients : d # c => setting'[d] = setting[d]
        /\ kind[c] \in Kinds /\ setting[c].at \in PlacesOf(kind[c]) /\ kind' = kind
        /\ \A d \in SetClients : Set!Sets(d)' = Set!Sets(d)
    BY <1>0, StepMoves
  <1>2. ASSUME NEW at \in Places, Set!To(c, at) PROVE setting'[c].at = at
    BY <1>0, <1>2, Moved
  <1> SUFFICES ASSUME NEW f \in {"voicewake", "skills"}
               PROVE  /\ Untouched(f) => config'[f] = Set!Default /\ configFile'[f] = Set!Default /\ live'[f] \in {Set!Default, None}
                      /\ \A e \in SetClients : Sole(f, e) =>
                            /\ setting'[e].at = "new" => config'[f] = Set!Default /\ configFile'[f] = Set!Default /\ live'[f] \in {Set!Default, None}
                            /\ setting'[e].at = "live" => live'[f] = e
                            /\ setting'[e].at = "merged" => config'[f] = e
                            /\ setting'[e].at = "changed" => config'[f] = e /\ live'[f] = e
                            /\ setting'[e].at = "done" => config'[f] = e /\ configFile'[f] = e /\ live'[f] \in {e, None}
    BY <1>1 DEF SoleIsFollowed, Untouched, Sole
  <1>3. /\ f \in Set!Fields /\ f \notin Set!Stores
        /\ live \in [{"voicewake", "skills", "approvals", "node"} -> Set!Values \cup {None}]
    BY <1>0 DEF Set!Fields, Set!Stores, SettingsAreTyped
  <1> USE DEF Places, Set!Over
  <1>4. CASE f \notin Set!Sets(c)
    <2>1. config'[f] = config[f] /\ configFile'[f] \in {configFile[f], config[f]}
      <3>1. kind[c] # "put"
        BY <1>1, <1>3, <1>4, SetsOf
      <3> QED BY <1>0, <1>1, <1>3, <1>4, <3>1, StepsOf
              DEF Changes, GoesLive, Fails, Set!Look, Set!Check, Set!PutFile, Set!PutMemory, Set!Persist, Set!WriteFile, Set!Begin
    <2>2. live'[f] = live[f]
      <3>1. kind[c] # f
        BY <1>1, <1>4, SetsOf
      <3>2. CASE GoesLive(c)
        BY <1>3, <3>1, <3>2 DEF GoesLive, Set!SetLive
      <3>3. CASE Set!Look(c) \/ Set!Check(c)
        BY <1>1, <1>3, <3>1, <3>3 DEF Set!Look, Set!Check
      <3> QED BY <1>0, <3>2, <3>3, StepsOf
                 DEF Changes, Fails, Set!PutFile, Set!PutMemory, Set!Persist, Set!WriteFile
    <2>3. \A e \in SetClients : Sole(f, e) => setting'[e] = setting[e]
      <3>1. ASSUME Sole(f, c) PROVE FALSE
        BY <1>1, <1>4, <3>1, SetsOf DEF Sole
      <3> QED BY <1>1, <3>1
    <2> QED BY <1>0, <2>1, <2>2, <2>3 DEF SoleIsFollowed
  <1>5. CASE f \in Set!Sets(c)
    <2>1. ~Untouched(f) /\ \A e \in SetClients : Sole(f, e) => e = c
      BY <1>5 DEF Untouched, Sole
    <2> SUFFICES ASSUME kind[c] = f, Sole(f, c)
                 PROVE  /\ setting'[c].at # "new"
                        /\ setting'[c].at = "live" => live'[f] = c
                        /\ setting'[c].at = "merged" => config'[f] = c
                        /\ setting'[c].at = "changed" => config'[f] = c /\ live'[f] = c
                        /\ setting'[c].at = "done" => config'[f] = c /\ configFile'[f] = c /\ live'[f] \in {c, None}
      BY <2>1 DEF Sole
    <2>2. /\ setting[c].at = "live" => live[f] = c
          /\ setting[c].at = "merged" => config[f] = c
          /\ setting[c].at = "changed" => config[f] = c /\ live[f] = c
      BY <1>0 DEF SoleIsFollowed
    <2>3. CASE Changes(c)
      BY <1>2, <1>3, <1>5, <2>2, <2>3 DEF Changes
    <2>4. CASE GoesLive(c)
      BY <1>2, <1>3, <2>2, <2>4 DEF GoesLive, Set!SetLive
    <2>5. CASE Fails(c)
      BY <1>2, <2>5 DEF Fails
    <2>6. CASE Set!Persist(c)
      BY <1>2, <2>2, <2>6 DEF Set!Persist
    <2>7. CASE Set!Look(c) \/ Set!Check(c) \/ Set!PutFile(c) \/ Set!PutMemory(c) \/ Set!WriteFile(c)
      <3>1. setting[c].at \notin {"looked", "saved"}
        BY <1>1 DEF PlacesOf
      <3> QED BY <1>3, <2>7, <3>1
                 DEF Set!Look, Set!Check, Set!PutFile, Set!PutMemory, Set!WriteFile, Set!Begin
    <2> QED BY <1>0, <2>3, <2>4, <2>5, <2>6, <2>7, StepsOf
  <1> QED BY <1>4, <1>5

\* Whoever may overwrite the approvals of the node has seen them.
LEMMA NodeApprovalsStep ==
    ASSUME SettingsConstants, SettingsAreTyped, NodeIsKnown, NEW c \in SetClients,
           "node" \notin Set!Clash(c), Set!Step(c)
    PROVE  NodeIsKnown' /\ Set!OverwritesSeen("node")
  <1>0. SettingsAreTyped /\ NodeIsKnown /\ "node" \in Set!Stores
    BY DEF Set!Stores
  <1>1. /\ \A d \in SetClients : d # c => setting'[d] = setting[d]
        /\ kind[c] \in Kinds /\ setting[c].at \in PlacesOf(kind[c]) /\ kind' = kind
    BY <1>0, StepMoves
  <1>2. ASSUME NEW at \in Places, Set!To(c, at) PROVE setting'[c].at = at /\ setting'[c].seen = setting[c].seen
    BY <1>0, <1>2, Moved
  <1>3. /\ live \in [{"voicewake", "skills", "approvals", "node"} -> Set!Values \cup {None}]
        /\ afile \in [Set!Stores -> Set!Values \cup {None}]
    BY <1>0 DEF SettingsAreTyped, Set!TypeOK
  <1> USE DEF Places, Set!Over
  <1>4. CASE kind[c] # "node"
    <2>1. live'["node"] = live["node"]
      <3>1. CASE GoesLive(c)
        BY <1>3, <1>4, <3>1 DEF GoesLive, Set!SetLive
      <3>2. CASE Set!Look(c) \/ Set!Check(c)
        BY <1>3, <1>4, <3>2 DEF Set!Look, Set!Check
      <3> QED BY <1>0, <3>1, <3>2, StepsOf
                 DEF Changes, Fails, Set!PutFile, Set!PutMemory, Set!Persist, Set!WriteFile
    <2>2. afile'["node"] = afile["node"]
      BY <1>0, <1>3, <1>4, StepsOf
         DEF Changes, GoesLive, Fails, Set!Look, Set!Check, Set!PutFile, Set!PutMemory, Set!Persist, Set!WriteFile
    <2>3. Failed \subseteq Failed'
      <3>1. setting[c].at # "failed"
        BY <1>0, StepsOf
           DEF Changes, GoesLive, Fails, Set!Look, Set!Check, Set!PutFile, Set!PutMemory, Set!Persist, Set!WriteFile, Set!Begin
      <3> QED BY <1>1, <3>1 DEF Failed
    <2>4. \A d \in SetClients : kind[d] = "node" => setting'[d] = setting[d] /\ kind'[d] = "node"
      BY <1>1, <1>4
    <2>5. \A d \in SetClients : kind'[d] = "node" => kind[d] = "node"
      BY <1>1
    <2>6. NodeIsKnown'
      BY <1>0, <2>1, <2>2, <2>3, <2>4, <2>5 DEF NodeIsKnown
    <2> QED BY <2>2, <2>6 DEF Set!OverwritesSeen
  <1>5. CASE kind[c] = "node"
    <2>1. \A d \in SetClients : d # c /\ kind[d] = "node" => setting[d].at \notin {"checked", "saved"}
      BY <1>0, <1>5, KeptApart
    <2>2. /\ setting[c].at # "saved" => \/ live["node"] \in {None, afile["node"]} \cup Failed
                                        \/ live["node"] = Set!Default /\ afile["node"] = None
          /\ setting[c].at = "saved" => live["node"] = c
          /\ setting[c].at \in {"checked", "saved"} =>
                afile["node"] = None \/ setting[c].seen \in {afile["node"]} \cup Failed
      BY <1>0, <1>5, <2>1 DEF NodeIsKnown
    <2>3. setting[c].at # "failed" => Failed \subseteq Failed'
      BY <1>1 DEF Failed
    <2>4. /\ Set!Loaded("node") \in {live["node"], afile["node"], Set!Default}
          /\ live["node"] # None => Set!Loaded("node") = live["node"]
          /\ live["node"] = None /\ afile["node"] # None => Set!Loaded("node") = afile["node"]
          /\ live["node"] = None /\ afile["node"] = None => Set!Loaded("node") = Set!Default
      BY <1>0, LoadedIsTyped
    <2>5. CASE Set!Look(c)
      <3>1. setting'[c].at = "looked" /\ live'["node"] = Set!Loaded("node") /\ afile' = afile /\ setting[c].at = "new"
        BY <1>0, <1>3, <1>5, <2>5 DEF Set!Look, SettingsAreTyped
      <3>2. NodeIsKnown'
        BY <1>1, <2>1, <2>2, <2>3, <2>4, <3>1 DEF NodeIsKnown
      <3> QED BY <3>1, <3>2 DEF Set!OverwritesSeen
    <2>6. CASE Set!Check(c)
      <3>1. /\ live'["node"] = Set!Loaded("node") /\ afile' = afile /\ setting[c].at = "looked"
            /\ setting'[c].seen = setting[c].seen /\ setting'[c].at \in {"checked", "refused"}
            /\ setting'[c].at = "checked" => afile["node"] = None \/ setting[c].seen = Set!Loaded("node")
        BY <1>2, <1>3, <1>5, <2>6 DEF Set!Check
      <3>2. NodeIsKnown'
        BY <1>1, <2>1, <2>2, <2>3, <2>4, <3>1 DEF NodeIsKnown
      <3> QED BY <3>1, <3>2 DEF Set!OverwritesSeen
    <2>7. CASE GoesLive(c)
      <3>1. /\ live'["node"] = c /\ afile' = afile /\ setting[c].at = "checked"
            /\ setting'[c].seen = setting[c].seen /\ setting'[c].at = "saved"
        BY <1>2, <1>3, <1>5, <2>7 DEF GoesLive, Set!SetLive
      <3>2. NodeIsKnown'
        BY <1>1, <1>5, <2>1, <2>2, <2>3, <3>1 DEF NodeIsKnown
      <3> QED BY <3>1, <3>2 DEF Set!OverwritesSeen
    <2>8. CASE Fails(c)
      <3>1. setting[c].at = "saved" /\ setting'[c].at = "failed" /\ UNCHANGED <<live, afile>>
        BY <1>1, <1>2, <1>5, <2>8 DEF Fails, PlacesOf
      <3>2. c \in Failed'
        BY <3>1 DEF Failed
      <3>3. NodeIsKnown'
        BY <1>1, <2>1, <2>2, <2>3, <3>1, <3>2 DEF NodeIsKnown
      <3> QED BY <3>1, <3>3 DEF Set!OverwritesSeen
    <2>9. CASE Set!WriteFile(c)
      <3>1. setting[c].at = "saved" /\ setting'[c].at = "done" /\ live' = live /\ afile'["node"] = c
        BY <1>0, <1>2, <1>3, <1>5, <2>9 DEF Set!WriteFile
      <3>2. NodeIsKnown'
        BY <1>1, <2>1, <2>2, <3>1 DEF NodeIsKnown
      <3> QED BY <2>2, <3>1, <3>2 DEF Set!OverwritesSeen, Failed
    <2>10. CASE Changes(c) \/ Set!PutFile(c) \/ Set!PutMemory(c) \/ Set!Persist(c)
      <3>1. setting[c].at # "changed"
        BY <1>1, <1>5 DEF PlacesOf
      <3> QED BY <1>5, <2>10, <3>1 DEF Changes, Set!PutFile, Set!PutMemory, Set!Persist, Set!Begin
    <2> QED BY <1>0, <2>5, <2>6, <2>7, <2>8, <2>9, <2>10, StepsOf
  <1> QED BY <1>4, <1>5

\* A restart in the middle of the calls.
LEMMA RestartStep ==
    ASSUME SettingsConstants, SettingsInv, Set!Restart, UNCHANGED setRaced
    PROVE  SettingsInv' /\ Set!OverwritesSeen("node")
  <1> USE DEF Places, Set!Over
  <1>0. /\ SettingsAreTyped /\ SoleIsFollowed /\ UNCHANGED <<kind, configFile, afile>>
        /\ config' = configFile /\ stale' = FALSE /\ setFaults' = setFaults + 1
        /\ setFaults < SetMaxFaults
    BY DEF SettingsInv, Set!Restart
  <1>1. /\ live' \in [{"voicewake", "skills", "approvals", "node"} -> Set!Values \cup {None}]
        /\ live'["voicewake"] = configFile["voicewake"] /\ live'["approvals"] = Set!Default
        /\ live'["skills"] = None /\ live'["node"] = None
        /\ DOMAIN live' = {"voicewake", "skills", "approvals", "node"}
    <2>1. configFile["voicewake"] \in Set!Values /\ Set!Default \in Set!Values
      BY <1>0 DEF SettingsAreTyped, Set!TypeOK, Set!Fields, Set!Values
    <2> QED BY <1>0, <2>1 DEF Set!Restart, Set!Restarted, SettingsAreTyped
  <1>2. /\ setting' \in [SetClients -> [at : Places, seen : Set!Values \cup {None}]]
        /\ \A c \in SetClients : setting'[c].at \in {"cut", "new", "looked"} \cup Set!Over
        /\ \A c \in SetClients : setting'[c].at # "cut" => setting'[c] = setting[c]
    BY <1>0 DEF Set!Restart, SettingsAreTyped
  <1>3. SettingsAreTyped'
    <2>1. \A c \in SetClients : setting'[c].at \in PlacesOf(kind'[c])
      BY <1>0, <1>2 DEF SettingsAreTyped, PlacesOf
    <2>2. setFaults' \in 0..SetMaxFaults
      BY <1>0 DEF SettingsAreTyped, Set!TypeOK, SettingsConstants
    <2>3. configFile["voicewake"] \in Set!Values /\ Set!Default \in Set!Values
      BY <1>0 DEF SettingsAreTyped, Set!TypeOK, Set!Fields, Set!Values
    <2> QED BY <1>0, <1>1, <1>2, <2>1, <2>2, <2>3 DEF SettingsAreTyped, Set!TypeOK
  <1>4. Set!Follows' /\ FiledIsOnDisk'
    BY <1>0, <1>2 DEF Set!Follows, FiledIsOnDisk
  <1>5. \A c \in SetClients : Set!Sets(c)' = Set!Sets(c)
    BY <1>0 DEF Set!Sets
  <1>6. ChangedIsSet => ChangedIsSet'
    BY <1>0, <1>2, <1>5 DEF ChangedIsSet, OfASetter
  <1>7. SoleIsFollowed'
    BY <1>0, <1>1, <1>2, <1>5 DEF SoleIsFollowed, Untouched, Sole
  <1>8. NodeIsKnown'
    BY <1>1, <1>2 DEF NodeIsKnown
  <1> QED BY <1>0, <1>3, <1>4, <1>6, <1>7, <1>8 DEF SettingsInv, FileIsKept, Set!OverwritesSeen

\* Two different things are two.
LEMMA TwoAreTwo == ASSUME NEW x, NEW y, x # y PROVE Cardinality({x, y}) = 2
  <1>1. Cardinality({x}) = 1 /\ IsFiniteSet({x})
    BY FS_Singleton
  <1>2. Cardinality({x} \cup {y}) = IF y \in {x} THEN Cardinality({x}) ELSE Cardinality({x}) + 1
    BY <1>1, FS_AddElement
  <1>3. y \notin {x}
    OBVIOUS
  <1>4. {x} \cup {y} = {x, y}
    OBVIOUS
  <1>5. Cardinality({x} \cup {y}) = 1 + 1
    BY <1>1, <1>2, <1>3
  <1> QED BY <1>4, <1>5

\* Settings counts as FiniteSets does.
LEMMA SettingsCount == ASSUME NEW S PROVE Set!Cardinality(S) = Cardinality(S)
  BY DEF Set!Cardinality, Cardinality

\* The invariant implies what is promised.
LEMMA SettingsFollow == ASSUME SettingsConstants, SettingsInv PROVE SettingsHold
  <1>1. Set!ChangesAreKept
    BY DEF SettingsInv, FileIsKept, ChangedIsSet, OfASetter, Set!ChangesAreKept, Set!Kept
  <1>2. Set!CopiesAgree
    <2> SUFFICES ASSUME NEW f \in {"voicewake", "skills"},
                        \A c \in SetClients : f \in Set!Sets(c) => setting[c].at \in {"new", "done"},
                        Set!Cardinality({c \in SetClients : f \in Set!Sets(c)}) <= 1,
                        \A c \in SetClients : f \in Set!Sets(c) => kind[c] \notin {"set", "put"}
                 PROVE  live[f] \in {config[f], None}
      BY DEF Set!CopiesAgree
    <2>1. CASE Untouched(f)
      BY <2>1 DEF SettingsInv, SoleIsFollowed
    <2>2. CASE ~Untouched(f)
      <3>1. PICK c \in SetClients : f \in Set!Sets(c)
        BY <2>2 DEF Untouched
      <3>2. kind[c] = f
        <4>1. kind[c] \in Kinds
          BY DEF SettingsConstants, SettingsInv, SettingsAreTyped, Set!TypeOK
        <4> QED BY <3>1, <4>1, SetsOf DEF Kinds
      <3>3. ASSUME NEW d \in SetClients, f \in Set!Sets(d), d # c PROVE FALSE
        <4> DEFINE S == {e \in SetClients : f \in Set!Sets(e)}
        <4>1. IsFiniteSet(S) /\ Cardinality(S) \in Nat
          BY FS_Subset, FS_CardinalityType DEF SettingsConstants
        <4>2. {c, d} \subseteq S
          BY <3>1, <3>3
        <4>3. Cardinality({c, d}) <= Cardinality(S)
          BY <4>1, <4>2, FS_Subset
        <4>4. Cardinality({c, d}) = 2
          BY <3>3, TwoAreTwo
        <4> QED BY <4>1, <4>3, <4>4, SettingsCount
      <3>4. Sole(f, c)
        BY <3>2, <3>3 DEF Sole
      <3>5. setting[c].at \in {"new", "done"}
        BY <3>1
      <3>6. /\ setting[c].at = "new" => config[f] = Set!Default /\ live[f] \in {Set!Default, None}
            /\ setting[c].at = "done" => config[f] = c /\ live[f] \in {c, None}
        BY <3>4 DEF SettingsInv, SoleIsFollowed
      <3> QED BY <3>5, <3>6
    <2> QED BY <2>1, <2>2
  <1> QED BY <1>1, <1>2 DEF SettingsInv, SettingsAreTyped, SettingsHold, FileIsKept, Set!FileFollows

\* Whatever the number of clients, the calls they make and how these overlap, failed writes and
\* restarts: until a PUT has overlapped another call the file follows the memory and what was
\* set stays set; the copies in use agree with the configuration; and until two calls that set
\* the approvals of a node have overlapped, these are overwritten only by a client that has
\* seen them.
THEOREM SettingsStay ==
    ASSUME SettingsConstants PROVE Set!Spec => []SettingsHold /\ [][Set!OverwritesSeen("node")]_(Set!vars)
  <1>1. Set!Init => SettingsInv
    <2> SUFFICES ASSUME Set!Init PROVE SettingsInv
      OBVIOUS
    <2>1. SettingsAreTyped
      <3>1. /\ setting \in [SetClients -> [at : Places, seen : Set!Values \cup {None}]]
            /\ \A c \in SetClients : setting[c].at = "new"
        BY DEF Set!Init, Places
      <3>2. /\ live \in [{"voicewake", "skills", "approvals", "node"} -> Set!Values \cup {None}]
            /\ live["voicewake"] = Set!Default /\ live["approvals"] = Set!Default
            /\ live["skills"] = None /\ live["node"] = None /\ Set!Default \in Set!Values
        BY DEF Set!Init, Set!Values
      <3>3. config \in [Set!Fields -> Set!Values] /\ configFile \in [Set!Fields -> Set!Values] /\ afile \in [Set!Stores -> Set!Values \cup {None}]
        BY <3>2 DEF Set!Init
      <3>4. setFaults \in 0..SetMaxFaults /\ stale \in BOOLEAN /\ kind \in SetMixes
        <4>1. setFaults = 0 /\ stale = FALSE /\ kind \in SetMixes
          BY DEF Set!Init
        <4>2. SetMaxFaults \in Nat
          BY DEF SettingsConstants
        <4>3. setFaults \in 0..SetMaxFaults
          BY <4>1, <4>2
        <4> QED BY <4>1, <4>3
      <3>5. \A c \in SetClients : /\ setting[c].at \in PlacesOf(kind[c]) /\ setting[c].seen \in Set!Values \cup {None}
                                  /\ setting[c].at # "saved"
        BY <3>1 DEF PlacesOf
      <3>6. Set!TypeOK
        BY <3>1, <3>2, <3>3, <3>4, <3>5 DEF Set!TypeOK, Set!Init
      <3> QED BY <3>1, <3>2, <3>5, <3>6 DEF SettingsAreTyped
    <2>2. Set!Follows /\ FiledIsOnDisk /\ ChangedIsSet /\ SoleIsFollowed /\ NodeIsKnown
      BY DEF Set!Init, Set!Follows, FiledIsOnDisk, ChangedIsSet, SoleIsFollowed, NodeIsKnown,
         Set!Fields
    <2> QED BY <2>1, <2>2 DEF SettingsInv, FileIsKept
  <1>2. SettingsInv /\ [Set!Next]_(Set!vars) => SettingsInv'
    <2>1. ASSUME SettingsInv, UNCHANGED Set!vars PROVE SettingsInv'
      BY <2>1 DEF Set!vars, SettingsInv, SettingsAreTyped, Set!TypeOK, FileIsKept, Set!Follows, Set!Unsaved,
         FiledIsOnDisk, ChangedIsSet,
                  OfASetter, Set!Sets, SoleIsFollowed, Untouched, Sole, NodeIsKnown, Failed
    <2>2. ASSUME SettingsInv, NEW c \in SetClients, Set!Step(c), setRaced' = setRaced \cup Set!Clash(c)
          PROVE  SettingsInv'
      <3>1. SettingsAreTyped /\ SoleIsFollowed
        BY <2>2 DEF SettingsInv
      <3>2. setRaced' \subseteq {"put"} \cup Set!Stores
        BY <2>2, <3>1 DEF Set!Clash, SettingsAreTyped, Set!TypeOK
      <3>3. SettingsAreTyped' /\ SoleIsFollowed'
        BY <2>2, <3>1, <3>2, TypedStep, SoleStep
      <3>4. ASSUME "put" \notin setRaced' PROVE FileIsKept'
        <4>1. FileIsKept /\ "put" \notin Set!Clash(c)
          BY <2>2, <3>4 DEF SettingsInv
        <4> QED BY <2>2, <3>1, <4>1, FileStep, ChangedStep DEF FileIsKept
      <3>5. ASSUME "node" \notin setRaced' PROVE NodeIsKnown'
        <4>1. NodeIsKnown /\ "node" \notin Set!Clash(c)
          BY <2>2, <3>5 DEF SettingsInv
        <4> QED BY <2>2, <3>1, <4>1, NodeApprovalsStep
      <3> QED BY <3>3, <3>4, <3>5 DEF SettingsInv
    <2> QED BY <2>1, <2>2, RestartStep DEF Set!Next
  <1>3. SettingsInv /\ [Set!Next]_(Set!vars) => [Set!OverwritesSeen("node")]_(Set!vars)
    <2>1. ASSUME SettingsInv, NEW c \in SetClients, Set!Step(c), setRaced' = setRaced \cup Set!Clash(c)
          PROVE  Set!OverwritesSeen("node")
      <3>1. CASE "node" \in setRaced'
        BY <3>1 DEF Set!OverwritesSeen
      <3>2. CASE "node" \notin setRaced'
        <4>1. SettingsAreTyped /\ NodeIsKnown /\ "node" \notin Set!Clash(c)
          BY <2>1, <3>2 DEF SettingsInv
        <4> QED BY <2>1, <4>1, NodeApprovalsStep
      <3> QED BY <3>1, <3>2
    <2> QED BY <2>1, RestartStep DEF Set!Next
  <1>4. SettingsInv => SettingsHold
    BY SettingsFollow
  <1> QED BY <1>1, <1>2, <1>3, <1>4, PTL DEF Set!Spec

-----------------------------------------------------------------------------
(* Updates.                                                                  *)

Upd == INSTANCE SelfUpdate WITH
    Calls <- UpdCalls, Wanted <- UpdWanted, MaxVersion <- UpdMaxVersion, call <- update

\* Calls are numbered, versions are too, and None is neither, nor a build.
UpdateConstants ==
    /\ UpdCalls \subseteq Nat /\ UpdWanted \subseteq UpdCalls /\ UpdMaxVersion \in Nat \ {0}
    /\ None \notin UpdCalls /\ None \notin 0..UpdMaxVersion

UpdatePlaces == {"new", "pull", "ready", "build", "note", "rename", "answered", "error", "panicked"}
UpdateCalls == [at : UpdatePlaces, ok : BOOLEAN, version : 0..UpdMaxVersion]
Builds == [by : UpdCalls, from : 0..UpdMaxVersion \cup {None}]

UpdatesAreTyped ==
    Upd!TypeOK /\ update \in [UpdCalls -> UpdateCalls] /\ cargo \in Builds \cup {None}

\* The notes beside and in the file are of calls that have written them.
NotesAreWritten ==
    /\ tmp # None => update[tmp].at \in {"rename", "answered", "error"}
    /\ sentinel # None => update[sentinel].at \in {"rename", "answered", "error"}

\* Calls start in their order.
StartsAreInOrder == \A c, d \in UpdCalls : d < c /\ update[c].at # "new" => update[d].at # "new"

\* One call after the other, each with its own commands, and versions that only grow.
OneIsUnderWay ==
    \A c \in UpdCalls : update[c].at \notin Upd!Over =>
        \A d \in UpdCalls : /\ d # c => update[d].at \in Upd!Over
                            /\ c < d => update[d].at = "new"
CommandsAreAwaited ==
    /\ \A c \in git : update[c].at = "pull"
    /\ cargo # None => /\ update[cargo.by].at = "build" /\ cargo.from = tree
                       /\ update[cargo.by].version = tree
VersionsGrow == tree <= remote /\ binary # None /\ binary <= tree
BuiltIsCurrent ==
    \A c \in UpdCalls : update[c].at \in {"note", "rename", "answered"} /\ update[c].ok => update[c].version <= binary
LastNoteIsLast == sentinel # None => \A c \in UpdCalls : update[c].at = "answered" => c <= sentinel

OneAfterTheOther ==
    OneIsUnderWay /\ CommandsAreAwaited /\ VersionsGrow /\ BuiltIsCurrent /\ Upd!NoteIsOwn /\ LastNoteIsLast

\* The inductive invariant.
UpdateInv ==
    /\ UpdatesAreTyped /\ NotesAreWritten /\ Upd!RestartIsEarned /\ StartsAreInOrder
    /\ ~crossed => OneAfterTheOther

UpdatesHold == Upd!TypeOK /\ Upd!RestartIsEarned /\ Upd!NoteIsOfACall /\ Upd!RestartIsUpdated

\* A call that moves is the only one to move; Onward says from where and to where.
Onward(c, from, to) ==
    /\ c \in UpdCalls /\ update[c].at \in from
    /\ update' \in [UpdCalls -> UpdateCalls] /\ update'[c].at \in to
    /\ \A d \in UpdCalls : d # c => update'[d] = update[d]

LEMMA IdleIsACall ==
    ASSUME UpdateConstants PROVE Upd!Idle \in UpdateCalls /\ ~Upd!Idle.ok /\ Upd!Idle.version = 0
  BY DEF UpdateConstants, Upd!Idle, UpdateCalls, UpdatePlaces

\* Where a command ends, its call goes on unless it no longer waits.
LEMMA StepEndsSo ==
    ASSUME UpdateConstants, UpdatesAreTyped, NEW c \in UpdCalls, NEW at \in {"pull", "build"},
           NEW ok \in BOOLEAN, NEW odd \in BOOLEAN, Upd!StepEnds(c, at, ok, odd)
    PROVE  \/ update' = update /\ update[c].at # at
           \/ /\ Onward(c, {at}, {"ready", "note", "panicked"})
              /\ update'[c].version \in {0, update[c].version}
              /\ update'[c].at = "ready" => at = "pull"
              /\ update'[c].at \in {"ready", "note"} => update'[c].version = update[c].version /\ update'[c].ok = ok
              /\ update'[c].at = "note" /\ ok => at = "build"
  <1> USE DEF UpdatesAreTyped, UpdateCalls, UpdatePlaces, Onward
  <1>1. CASE update[c].at # at
    BY <1>1 DEF Upd!StepEnds
  <1>2. CASE update[c].at = at /\ odd
    <2>1. update' = [update EXCEPT ![c] = [Upd!Idle EXCEPT !.at = "panicked"]]
      BY <1>2 DEF Upd!StepEnds, Upd!Put
    <2>2. [Upd!Idle EXCEPT !.at = "panicked"] \in UpdateCalls
      BY IdleIsACall
    <2>3. update'[c].at = "panicked" /\ update'[c].version = 0
      BY <2>1, IdleIsACall
    <2> QED BY <1>2, <2>1, <2>2, <2>3
  <1>3. CASE update[c].at = at /\ ~odd
    <2> DEFINE v == [update[c] EXCEPT !.at = IF at = "pull" /\ ok THEN "ready" ELSE "note", !.ok = ok]
    <2>1. update' = [update EXCEPT ![c] = v]
      BY <1>3 DEF Upd!StepEnds, Upd!Put
    <2>2. v \in UpdateCalls /\ v.ok = ok /\ v.version = update[c].version
      OBVIOUS
    <2>3. v.at = IF at = "pull" /\ ok THEN "ready" ELSE "note"
      OBVIOUS
    <2> HIDE DEF v
    <2> QED BY <1>3, <2>1, <2>2, <2>3
  <1> QED BY <1>1, <1>2, <1>3

\* What each action does to the calls and to what the other conjuncts speak of.
LEMMA StartsSo ==
    ASSUME UpdateConstants, UpdatesAreTyped, NEW c \in UpdCalls, Upd!Start(c)
    PROVE  Onward(c, {"new"}, {"pull"}) /\ ~update'[c].ok /\ update'[c].version = 0
  <1> DEFINE v == [Upd!Idle EXCEPT !.at = "pull"]
  <1>1. v \in UpdateCalls /\ v.at = "pull" /\ ~v.ok /\ v.version = 0
    BY IdleIsACall DEF UpdateCalls, UpdatePlaces
  <1>2. update' = [update EXCEPT ![c] = v] /\ update[c].at = "new"
    BY DEF Upd!Start, Upd!Put
  <1> HIDE DEF v
  <1> QED BY <1>1, <1>2 DEF UpdatesAreTyped, Onward

LEMMA BuildStartsSo ==
    ASSUME UpdateConstants, UpdatesAreTyped, NEW c \in UpdCalls, Upd!BuildStarts(c)
    PROVE  /\ Onward(c, {"ready"}, {"build"}) /\ update'[c].version = tree
           /\ cargo' \in Builds /\ cargo'.by = c /\ cargo'.from = tree
  <1> DEFINE v == [update[c] EXCEPT !.at = "build", !.version = tree]
  <1>1. v \in UpdateCalls /\ v.at = "build" /\ v.version = tree
    BY DEF UpdatesAreTyped, Upd!TypeOK, UpdateCalls, UpdatePlaces
  <1>2. update' = [update EXCEPT ![c] = v] /\ update[c].at = "ready" /\ cargo' = [by |-> c, from |-> tree]
    BY DEF Upd!BuildStarts, Upd!Put
  <1> HIDE DEF v
  <1> QED BY <1>1, <1>2 DEF UpdatesAreTyped, Upd!TypeOK, Onward, Builds

LEMMA TimesOutSo ==
    ASSUME UpdateConstants, UpdatesAreTyped, NEW c \in UpdCalls, Upd!TimesOut(c)
    PROVE  Onward(c, {"pull", "ready", "build"}, {"note"}) /\ ~update'[c].ok
  <1> DEFINE v == [update[c] EXCEPT !.at = "note", !.ok = FALSE]
  <1>1. v \in UpdateCalls /\ v.at = "note" /\ ~v.ok
    BY DEF UpdatesAreTyped, Upd!TypeOK, UpdateCalls, UpdatePlaces
  <1>2. update' = [update EXCEPT ![c] = v] /\ update[c].at \in {"pull", "ready", "build"}
    BY DEF Upd!TimesOut, Upd!Put
  <1> HIDE DEF v
  <1> QED BY <1>1, <1>2 DEF UpdatesAreTyped, Onward

LEMMA WriteNoteSo ==
    ASSUME UpdateConstants, UpdatesAreTyped, NEW c \in UpdCalls, NEW ok \in BOOLEAN,
           Upd!WriteNote(c, ok)
    PROVE  /\ ok => /\ Onward(c, {"note"}, {"rename"}) /\ tmp' = c
                    /\ update'[c].ok = update[c].ok /\ update'[c].version = update[c].version
           /\ ~ok => Onward(c, {"note"}, {"error"}) /\ tmp' = tmp
  <1> DEFINE v == [update[c] EXCEPT !.at = "rename"]
             w == [Upd!Idle EXCEPT !.at = "error"]
  <1>1. v \in UpdateCalls /\ v.at = "rename" /\ v.ok = update[c].ok /\ v.version = update[c].version
    BY DEF UpdatesAreTyped, Upd!TypeOK, UpdateCalls, UpdatePlaces
  <1>2. w \in UpdateCalls /\ w.at = "error"
    BY IdleIsACall DEF UpdateCalls, UpdatePlaces
  <1>3. /\ update' = [update EXCEPT ![c] = IF ok THEN v ELSE w] /\ update[c].at = "note"
        /\ tmp' = IF ok THEN c ELSE tmp
    BY DEF Upd!WriteNote, Upd!Put
  <1> HIDE DEF v, w
  <1> QED BY <1>1, <1>2, <1>3 DEF UpdatesAreTyped, Onward

LEMMA RenameNoteSo ==
    ASSUME UpdateConstants, UpdatesAreTyped, NEW c \in UpdCalls, Upd!RenameNote(c)
    PROVE  \/ /\ tmp = None /\ Onward(c, {"rename"}, {"error"})
              /\ tmp' = tmp /\ sentinel' = sentinel /\ due' = due
           \/ /\ tmp # None /\ Onward(c, {"rename"}, {"answered"})
              /\ update'[c].ok = update[c].ok /\ update'[c].version = update[c].version
              /\ sentinel' = tmp /\ tmp' = None
              /\ due' = IF update[c].ok /\ c \in UpdWanted THEN due \cup {c} ELSE due
  <1> DEFINE v == [update[c] EXCEPT !.at = "answered"]
             w == [Upd!Idle EXCEPT !.at = "error"]
  <1>1. v \in UpdateCalls /\ v.at = "answered" /\ v.ok = update[c].ok /\ v.version = update[c].version
    BY DEF UpdatesAreTyped, Upd!TypeOK, UpdateCalls, UpdatePlaces
  <1>2. w \in UpdateCalls /\ w.at = "error"
    BY IdleIsACall DEF UpdateCalls, UpdatePlaces
  <1>3. CASE tmp = None
    <2>1. update' = [update EXCEPT ![c] = w] /\ update[c].at = "rename" /\ UNCHANGED <<tmp, sentinel, due>>
      BY <1>3 DEF Upd!RenameNote, Upd!Put
    <2> HIDE DEF v, w
    <2> QED BY <1>2, <1>3, <2>1 DEF UpdatesAreTyped, Onward
  <1>4. CASE tmp # None
    <2>1. /\ update' = [update EXCEPT ![c] = v] /\ update[c].at = "rename" /\ sentinel' = tmp
          /\ tmp' = None
          /\ due' = IF update[c].ok /\ c \in UpdWanted THEN due \cup {c} ELSE due
      BY <1>4 DEF Upd!RenameNote, Upd!Put
    <2> HIDE DEF v, w
    <2> QED BY <1>1, <1>4, <2>1 DEF UpdatesAreTyped, Onward
  <1> QED BY <1>3, <1>4
\* Where the server and its commands end.
LEMMA GitEndsSo ==
    ASSUME UpdateConstants, UpdatesAreTyped, NEW c \in UpdCalls, NEW ok \in BOOLEAN,
           NEW odd \in BOOLEAN, Upd!GitEnds(c, ok, odd)
    PROVE  /\ cargo' = cargo \/ /\ cargo # None /\ ok /\ tree # remote
                                /\ cargo' \in Builds /\ cargo'.by = cargo.by
           /\ Upd!StepEnds(c, "pull", ok, odd) /\ c \in git /\ git' = git \ {c}
           /\ tree' \in {tree, remote}
           /\ tree' # tree => ok /\ tree # remote
  <1>1. cargo # None => /\ [cargo EXCEPT !.from = None] \in Builds
                        /\ [cargo EXCEPT !.from = None].by = cargo.by
    BY DEF UpdatesAreTyped, Builds
  <1> QED BY <1>1 DEF Upd!GitEnds

LEMMA UpdatesStayTyped ==
    ASSUME UpdateConstants, UpdatesAreTyped, [Upd!Next]_(Upd!vars) PROVE UpdatesAreTyped'
  <1> USE DEF UpdatesAreTyped, Upd!TypeOK
  <1>1. CASE UNCHANGED Upd!vars
    BY <1>1 DEF Upd!vars
  <1>2. CASE Upd!Push
    BY <1>2 DEF Upd!Push, UpdateConstants
  <1>3. ASSUME NEW c \in UpdCalls, Upd!Start(c) PROVE UpdatesAreTyped'
    BY <1>3, StartsSo DEF Onward, Upd!Start
  <1>4. ASSUME NEW c \in UpdCalls, Upd!BuildStarts(c) PROVE UpdatesAreTyped'
    BY <1>4, BuildStartsSo DEF Onward, Upd!BuildStarts
  <1>5. ASSUME NEW c \in UpdCalls, Upd!TimesOut(c) PROVE UpdatesAreTyped'
    BY <1>5, TimesOutSo DEF Onward, Upd!TimesOut
  <1>6. ASSUME NEW c \in UpdCalls, Upd!RenameNote(c) PROVE UpdatesAreTyped'
    BY <1>6, RenameNoteSo DEF Onward, Upd!RenameNote
  <1>7. ASSUME NEW c \in UpdCalls, Upd!Shutdown(c) PROVE UpdatesAreTyped'
    BY <1>7 DEF Upd!Shutdown
  <1>8. ASSUME NEW c \in UpdCalls, NEW ok \in BOOLEAN, NEW odd \in BOOLEAN, Upd!GitEnds(c, ok, odd)
        PROVE  UpdatesAreTyped'
    <2>1. update' \in [UpdCalls -> UpdateCalls]
      BY <1>8, GitEndsSo, StepEndsSo DEF Onward
    <2>2. cargo' \in Builds \cup {None} /\ tree' \in 0..UpdMaxVersion
      BY <1>8, GitEndsSo
    <2> QED BY <1>8, <2>1, <2>2 DEF Upd!GitEnds
  <1>9. ASSUME NEW ok \in BOOLEAN, NEW odd \in BOOLEAN, Upd!BuildEnds(ok, odd) PROVE UpdatesAreTyped'
    <2>1. cargo.by \in UpdCalls /\ cargo.from \in 0..UpdMaxVersion \cup {None}
      BY <1>9 DEF Upd!BuildEnds, Builds
    <2>2. update' \in [UpdCalls -> UpdateCalls]
      BY <1>9, <2>1, StepEndsSo DEF Onward, Upd!BuildEnds
    <2> QED BY <1>9, <2>1, <2>2 DEF Upd!BuildEnds
  <1>10. ASSUME NEW c \in UpdCalls, NEW ok \in BOOLEAN, Upd!WriteNote(c, ok) PROVE UpdatesAreTyped'
    BY <1>10, WriteNoteSo DEF Onward, Upd!WriteNote
  <1> QED BY <1>1, <1>2, <1>3, <1>4, <1>5, <1>6, <1>7, <1>8, <1>9, <1>10 DEF Upd!Next

Final == {"rename", "answered", "error"}

\* Whatever a command does when it ends, the calls that wrote notes or were answered stay.
LEMMA EndsLeaveTheRest ==
    ASSUME UpdateConstants, UpdatesAreTyped, NEW c \in UpdCalls, NEW at \in {"pull", "build"},
           NEW ok \in BOOLEAN, NEW odd \in BOOLEAN, Upd!StepEnds(c, at, ok, odd)
    PROVE  \A d \in UpdCalls : /\ update[d].at \in Final => update'[d] = update[d]
                               /\ update'[d].at = "new" <=> update[d].at = "new"
  BY StepEndsSo DEF Onward, Final

NotesInv == NotesAreWritten /\ Upd!RestartIsEarned /\ StartsAreInOrder

\* While the notes and the end of the server are left alone and calls that are through stay, so
\* does what is said of them.
LEMMA NotesAreLeft ==
    ASSUME UpdateConstants, UpdatesAreTyped, NotesInv,
           UNCHANGED <<tmp, sentinel, due, down>>,
           \A d \in UpdCalls : update[d].at \in Final => update'[d] = update[d]
    PROVE  NotesAreWritten' /\ Upd!RestartIsEarned'
  <1> USE DEF UpdatesAreTyped, Upd!TypeOK, Final, NotesInv
  <1>1. NotesAreWritten'
    BY DEF NotesAreWritten
  <1>2. Upd!RestartIsEarned'
    <2>1. ASSUME NEW c \in due PROVE update'[c].at = "answered" /\ update'[c].ok /\ c \in UpdWanted /\ sentinel' # None
      BY <2>1 DEF Upd!RestartIsEarned
    <2>2. ASSUME down PROVE \E c \in UpdWanted : update'[c].at = "answered" /\ update'[c].ok
      <3>1. PICK c \in UpdWanted : update[c].at = "answered" /\ update[c].ok
        BY <2>2 DEF Upd!RestartIsEarned
      <3> QED BY <3>1 DEF UpdateConstants
    <2> QED BY <2>1, <2>2 DEF Upd!RestartIsEarned
  <1> QED BY <1>1, <1>2

LEMMA OrderIsLeft ==
    ASSUME StartsAreInOrder, \A d \in UpdCalls : update'[d].at = "new" <=> update[d].at = "new"
    PROVE  StartsAreInOrder'
  BY DEF StartsAreInOrder
LEMMA NotesStay ==
    ASSUME UpdateConstants, UpdatesAreTyped, NotesInv, [Upd!Next]_(Upd!vars) PROVE NotesInv'
  <1>1. CASE UNCHANGED Upd!vars
    BY <1>1, NotesAreLeft, OrderIsLeft DEF Upd!vars, NotesInv
  <1>2. CASE Upd!Push
    BY <1>2, NotesAreLeft, OrderIsLeft DEF Upd!Push, NotesInv
  <1>3. ASSUME NEW c \in UpdCalls, Upd!Start(c) PROVE NotesInv'
    <2>1. NotesAreWritten' /\ Upd!RestartIsEarned'
      BY <1>3, StartsSo, NotesAreLeft DEF Onward, Upd!Start, Final
    <2>2. StartsAreInOrder'
      <3>1. \A d \in UpdCalls : update'[d].at = "new" => update[d].at = "new" /\ d # c
        BY <1>3, StartsSo DEF Onward
      <3>2. \A d \in UpdCalls : d < c => update[d].at # "new"
        BY <1>3 DEF Upd!Start
      <3>3. \A d \in UpdCalls : update'[d].at # "new" => update[d].at # "new" \/ d = c
        BY <1>3, StartsSo DEF Onward
      <3> QED BY <3>1, <3>2, <3>3 DEF StartsAreInOrder, NotesInv, UpdateConstants
    <2> QED BY <2>1, <2>2 DEF NotesInv
  <1>4. ASSUME NEW c \in UpdCalls, Upd!BuildStarts(c) PROVE NotesInv'
    <2>1. NotesAreWritten' /\ Upd!RestartIsEarned'
      BY <1>4, BuildStartsSo, NotesAreLeft DEF Onward, Upd!BuildStarts, Final
    <2>2. StartsAreInOrder'
      BY <1>4, BuildStartsSo, OrderIsLeft DEF Onward, NotesInv
    <2> QED BY <2>1, <2>2 DEF NotesInv
  <1>5. ASSUME NEW c \in UpdCalls, Upd!TimesOut(c) PROVE NotesInv'
    <2>1. NotesAreWritten' /\ Upd!RestartIsEarned'
      BY <1>5, TimesOutSo, NotesAreLeft DEF Onward, Upd!TimesOut, Final
    <2>2. StartsAreInOrder'
      BY <1>5, TimesOutSo, OrderIsLeft DEF Onward, NotesInv
    <2> QED BY <2>1, <2>2 DEF NotesInv
  <1>6. ASSUME NEW c \in UpdCalls, Upd!RenameNote(c) PROVE NotesInv'
    <2> USE DEF UpdatesAreTyped, Upd!TypeOK
    <2>0. /\ update[c].at = "rename" /\ update'[c].at \in {"answered", "error"} /\ down' = down
          /\ \A d \in UpdCalls : d # c => update'[d] = update[d]
      BY <1>6, RenameNoteSo DEF Onward, Upd!RenameNote
    <2>1. NotesAreWritten'
      BY <1>6, <2>0, RenameNoteSo DEF NotesInv, NotesAreWritten
    <2>2. \A d \in due : update'[d].at = "answered" /\ update'[d].ok /\ d \in UpdWanted /\ sentinel # None
      BY <2>0 DEF NotesInv, Upd!RestartIsEarned
    <2>3. \A d \in due' : update'[d].at = "answered" /\ update'[d].ok /\ d \in UpdWanted /\ sentinel' # None
      BY <1>6, <2>2, RenameNoteSo DEF Onward
    <2>4. ASSUME down' PROVE \E d \in UpdWanted : update'[d].at = "answered" /\ update'[d].ok
      <3>1. PICK d \in UpdWanted : update[d].at = "answered" /\ update[d].ok
        BY <2>0, <2>4 DEF NotesInv, Upd!RestartIsEarned
      <3> QED BY <2>0, <3>1 DEF UpdateConstants
    <2>5. StartsAreInOrder'
      BY <2>0, OrderIsLeft DEF NotesInv
    <2> QED BY <2>1, <2>3, <2>4, <2>5 DEF NotesInv, Upd!RestartIsEarned
  <1>7. ASSUME NEW c \in UpdCalls, Upd!Shutdown(c) PROVE NotesInv'
    <2>1. c \in due /\ due' \subseteq due /\ update' = update /\ UNCHANGED <<tmp, sentinel>>
      BY <1>7 DEF Upd!Shutdown
    <2>2. Upd!RestartIsEarned'
      BY <2>1 DEF NotesInv, Upd!RestartIsEarned
    <2> QED BY <2>1, <2>2 DEF NotesInv, NotesAreWritten, StartsAreInOrder
  <1>8. ASSUME NEW c \in UpdCalls, NEW ok \in BOOLEAN, NEW odd \in BOOLEAN, Upd!GitEnds(c, ok, odd)
        PROVE  NotesInv'
    <2>1. \A d \in UpdCalls : /\ update[d].at \in Final => update'[d] = update[d]
                              /\ update'[d].at = "new" <=> update[d].at = "new"
      BY <1>8, EndsLeaveTheRest DEF Upd!GitEnds
    <2> QED BY <1>8, <2>1, NotesAreLeft, OrderIsLeft DEF Upd!GitEnds, NotesInv
  <1>9. ASSUME NEW ok \in BOOLEAN, NEW odd \in BOOLEAN, Upd!BuildEnds(ok, odd) PROVE NotesInv'
    <2>1. cargo.by \in UpdCalls
      BY <1>9 DEF Upd!BuildEnds, Builds, UpdatesAreTyped
    <2>2. \A d \in UpdCalls : /\ update[d].at \in Final => update'[d] = update[d]
                              /\ update'[d].at = "new" <=> update[d].at = "new"
      BY <1>9, <2>1, EndsLeaveTheRest DEF Upd!BuildEnds
    <2> QED BY <1>9, <2>2, NotesAreLeft, OrderIsLeft DEF Upd!BuildEnds, NotesInv
  <1>10. ASSUME NEW c \in UpdCalls, NEW ok \in BOOLEAN, Upd!WriteNote(c, ok) PROVE NotesInv'
    <2> USE DEF UpdatesAreTyped, Upd!TypeOK
    <2>0. /\ update[c].at = "note" /\ update'[c].at \in {"rename", "error"}
          /\ \A d \in UpdCalls : d # c => update'[d] = update[d]
          /\ tmp' = tmp \/ tmp' = c
      BY <1>10, WriteNoteSo DEF Onward
    <2>1. NotesAreWritten'
      BY <1>10, <2>0 DEF Upd!WriteNote, NotesAreWritten, NotesInv
    <2>2. \A d \in due' : update'[d].at = "answered" /\ update'[d].ok /\ d \in UpdWanted /\ sentinel' # None
      BY <1>10, <2>0 DEF Upd!WriteNote, NotesInv, Upd!RestartIsEarned
    <2>3. ASSUME down' PROVE \E d \in UpdWanted : update'[d].at = "answered" /\ update'[d].ok
      <3>1. PICK d \in UpdWanted : update[d].at = "answered" /\ update[d].ok
        BY <1>10, <2>3 DEF NotesInv, Upd!RestartIsEarned, Upd!WriteNote
      <3> QED BY <2>0, <3>1 DEF UpdateConstants
    <2>4. StartsAreInOrder'
      BY <2>0, OrderIsLeft DEF NotesInv
    <2> QED BY <2>1, <2>2, <2>3, <2>4 DEF NotesInv, Upd!RestartIsEarned
  <1> QED BY <1>1, <1>2, <1>3, <1>4, <1>5, <1>6, <1>7, <1>8, <1>9, <1>10 DEF Upd!Next
LEMMA OneAtATime ==
    ASSUME UpdateConstants, UpdatesAreTyped, UpdatesAreTyped', StartsAreInOrder, OneAfterTheOther,
           [Upd!Next]_(Upd!vars), ~crossed'
    PROVE  OneAfterTheOther'
  <1> USE DEF OneAfterTheOther, UpdatesAreTyped, Upd!TypeOK
  <1>1. CASE UNCHANGED Upd!vars
    <2>1. /\ update' = update /\ git' = git /\ cargo' = cargo /\ tree' = tree /\ remote' = remote
          /\ binary' = binary /\ tmp' = tmp /\ sentinel' = sentinel
      BY <1>1 DEF Upd!vars
    <2> QED BY <2>1
               DEF OneIsUnderWay, CommandsAreAwaited, VersionsGrow, BuiltIsCurrent, Upd!NoteIsOwn, LastNoteIsLast
  <1>2. CASE Upd!Push
    <2>1. /\ update' = update /\ git' = git /\ cargo' = cargo /\ tree' = tree /\ remote' = remote + 1
          /\ binary' = binary /\ tmp' = tmp /\ sentinel' = sentinel
      BY <1>2 DEF Upd!Push
    <2>2. VersionsGrow'
      BY <2>1 DEF VersionsGrow, UpdateConstants
    <2> QED BY <2>1, <2>2
               DEF OneIsUnderWay, CommandsAreAwaited, BuiltIsCurrent, Upd!NoteIsOwn, LastNoteIsLast
  <1>3. ASSUME NEW c \in UpdCalls, Upd!Start(c) PROVE OneAfterTheOther'
    <2>1. /\ git = {} /\ cargo = None /\ \A d \in UpdCalls : update[d].at \in Upd!Over
          /\ git' = {c} /\ UNCHANGED <<remote, tree, binary, cargo, tmp, sentinel>>
          /\ update[c].at = "new"
      BY <1>3 DEF Upd!Start
    <2>2. update'[c].at = "pull" /\ \A d \in UpdCalls : d # c => update'[d] = update[d]
      BY <1>3, StartsSo DEF Onward
    <2>3. OneIsUnderWay'
      BY <2>1, <2>2 DEF OneIsUnderWay, StartsAreInOrder, Upd!Over, UpdateConstants
    <2>4. CommandsAreAwaited' /\ VersionsGrow'
      BY <2>1, <2>2 DEF CommandsAreAwaited, VersionsGrow
    <2>5. BuiltIsCurrent'
      BY <2>1, <2>2 DEF BuiltIsCurrent
    <2>6. Upd!NoteIsOwn' /\ LastNoteIsLast'
      BY <2>1, <2>2 DEF Upd!NoteIsOwn, LastNoteIsLast
    <2> QED BY <2>3, <2>4, <2>5, <2>6
  <1>4. ASSUME NEW c \in UpdCalls, Upd!BuildStarts(c) PROVE OneAfterTheOther'
    <2>1. /\ UNCHANGED <<remote, tree, binary, git, tmp, sentinel>> /\ update[c].at = "ready"
      BY <1>4 DEF Upd!BuildStarts
    <2>2. /\ update'[c].at = "build" /\ update'[c].version = tree
          /\ \A d \in UpdCalls : d # c => update'[d] = update[d]
          /\ cargo'.by = c /\ cargo'.from = tree
      BY <1>4, BuildStartsSo DEF Onward
    <2>3. OneIsUnderWay'
      BY <2>1, <2>2 DEF OneIsUnderWay, Upd!Over
    <2>4. CommandsAreAwaited'
      BY <2>1, <2>2 DEF CommandsAreAwaited
    <2>5. VersionsGrow' /\ BuiltIsCurrent'
      BY <2>1, <2>2 DEF BuiltIsCurrent, VersionsGrow
    <2>6. Upd!NoteIsOwn' /\ LastNoteIsLast'
      BY <2>1, <2>2 DEF Upd!NoteIsOwn, LastNoteIsLast
    <2> QED BY <2>3, <2>4, <2>5, <2>6
  <1>5. ASSUME NEW c \in UpdCalls, Upd!TimesOut(c) PROVE OneAfterTheOther'
    BY <1>5 DEF Upd!TimesOut
  <1>6. ASSUME NEW c \in UpdCalls, Upd!RenameNote(c) PROVE OneAfterTheOther'
    <2>1. UNCHANGED <<remote, tree, binary, git, cargo>> /\ update[c].at = "rename" /\ tmp = c /\ tmp # None
      BY <1>6 DEF Upd!RenameNote, Upd!NoteIsOwn, UpdateConstants
    <2>2. /\ update'[c].at = "answered" /\ update'[c].ok = update[c].ok
          /\ update'[c].version = update[c].version
          /\ \A d \in UpdCalls : d # c => update'[d] = update[d]
          /\ sentinel' = c
      BY <1>6, <2>1, RenameNoteSo DEF Onward
    <2>3. OneIsUnderWay'
      BY <2>1, <2>2 DEF OneIsUnderWay, Upd!Over
    <2>4. CommandsAreAwaited'
      BY <2>1, <2>2 DEF CommandsAreAwaited, Builds
    <2>5. VersionsGrow' /\ BuiltIsCurrent'
      BY <2>1, <2>2 DEF BuiltIsCurrent, VersionsGrow
    <2>6. Upd!NoteIsOwn'
      BY <2>1, <2>2 DEF Upd!NoteIsOwn, OneIsUnderWay, Upd!Over
    <2>7. LastNoteIsLast'
      BY <2>1, <2>2 DEF LastNoteIsLast, OneIsUnderWay, Upd!Over, UpdateConstants
    <2> QED BY <2>3, <2>4, <2>5, <2>6, <2>7
  <1>7. ASSUME NEW c \in UpdCalls, Upd!Shutdown(c) PROVE OneAfterTheOther'
    <2>1. /\ update' = update /\ git' = git /\ cargo' = cargo /\ tree' = tree /\ remote' = remote
          /\ binary' = binary /\ tmp' = tmp /\ sentinel' = sentinel
      BY <1>7 DEF Upd!Shutdown
    <2> QED BY <2>1
               DEF OneIsUnderWay, CommandsAreAwaited, VersionsGrow, BuiltIsCurrent, Upd!NoteIsOwn, LastNoteIsLast
  <1>8. ASSUME NEW c \in UpdCalls, NEW ok \in BOOLEAN, NEW odd \in BOOLEAN, Upd!GitEnds(c, ok, odd)
        PROVE  OneAfterTheOther'
    <2>1. /\ update[c].at = "pull" /\ git' = git \ {c} /\ tree' \in {tree, remote}
          /\ UNCHANGED <<remote, binary, tmp, sentinel>>
      BY <1>8, GitEndsSo DEF CommandsAreAwaited, Upd!GitEnds
    <2>2. cargo = None /\ cargo' = None
      <3>1. cargo # None => cargo.by \in UpdCalls
        BY DEF Builds
      <3> QED BY <1>8, <2>1, <3>1, GitEndsSo DEF CommandsAreAwaited, OneIsUnderWay, Upd!Over
    <2>3. /\ update'[c].at \in {"ready", "note", "panicked"}
          /\ (update'[c].at = "note" => ~update'[c].ok)
          /\ \A d \in UpdCalls : d # c => update'[d] = update[d]
      BY <1>8, <2>1, StepEndsSo, GitEndsSo DEF Onward
    <2>4. OneIsUnderWay'
      BY <2>1, <2>3 DEF OneIsUnderWay, Upd!Over
    <2>5. CommandsAreAwaited'
      BY <2>1, <2>2, <2>3 DEF CommandsAreAwaited
    <2>6. VersionsGrow'
      BY <2>1 DEF VersionsGrow
    <2>7. BuiltIsCurrent'
      BY <2>1, <2>3 DEF BuiltIsCurrent
    <2>8. Upd!NoteIsOwn' /\ LastNoteIsLast'
      BY <2>1, <2>3 DEF Upd!NoteIsOwn, LastNoteIsLast
    <2> QED BY <2>4, <2>5, <2>6, <2>7, <2>8
  <1>9. ASSUME NEW ok \in BOOLEAN, NEW odd \in BOOLEAN, Upd!BuildEnds(ok, odd) PROVE OneAfterTheOther'
    <2> DEFINE c == cargo.by
    <2>1. c \in UpdCalls
      BY <1>9 DEF Upd!BuildEnds, Builds
    <2>2. /\ update[c].at = "build" /\ update[c].version = tree /\ cargo' = None
          /\ binary' = (IF ok THEN tree ELSE binary) /\ UNCHANGED <<remote, tree, git, tmp, sentinel>>
      BY <1>9 DEF Upd!BuildEnds, CommandsAreAwaited
    <2>3. /\ update'[c].at \in {"note", "panicked"}
          /\ update'[c].at = "note" => update'[c].ok = ok /\ update'[c].version = tree
          /\ \A d \in UpdCalls : d # c => update'[d] = update[d]
      BY <1>9, <2>1, <2>2, StepEndsSo DEF Onward, Upd!BuildEnds
    <2> HIDE DEF c
    <2>4. OneIsUnderWay'
      BY <2>1, <2>2, <2>3 DEF OneIsUnderWay, Upd!Over
    <2>5. CommandsAreAwaited'
      BY <2>1, <2>2, <2>3 DEF CommandsAreAwaited
    <2>6. VersionsGrow'
      BY <2>2, UpdateConstants DEF VersionsGrow, UpdateConstants
    <2>7. binary <= binary' /\ binary' \in Nat /\ binary \in Nat /\ (ok => binary' = tree)
      BY <2>2, <2>6 DEF VersionsGrow, UpdateConstants
    <2>8. BuiltIsCurrent'
      <3> SUFFICES ASSUME NEW d \in UpdCalls, update'[d].at \in {"note", "rename", "answered"}, update'[d].ok
                   PROVE  update'[d].version <= binary'
        BY DEF BuiltIsCurrent
      <3>1. CASE d = c
        BY <2>1, <2>2, <2>3, <2>7, <3>1 DEF UpdateConstants
      <3>2. CASE d # c
        <4>1. update[d].version <= binary /\ update[d].version \in Nat /\ update'[d].version = update[d].version
          BY <2>3, <3>2 DEF BuiltIsCurrent, UpdateCalls, UpdateConstants
        <4> QED BY <2>7, <4>1
      <3> QED BY <3>1, <3>2
    <2>9. Upd!NoteIsOwn' /\ LastNoteIsLast'
      BY <2>2, <2>3 DEF Upd!NoteIsOwn, LastNoteIsLast
    <2> QED BY <2>4, <2>5, <2>6, <2>8, <2>9
  <1>10. ASSUME NEW c \in UpdCalls, NEW ok \in BOOLEAN, Upd!WriteNote(c, ok) PROVE OneAfterTheOther'
    <2>1. UNCHANGED <<remote, tree, binary, git, cargo, sentinel>> /\ update[c].at = "note"
      BY <1>10 DEF Upd!WriteNote
    <2>2. /\ update'[c].at \in {"rename", "error"}
          /\ \A d \in UpdCalls : d # c => update'[d] = update[d]
          /\ update'[c].at = "rename" => /\ tmp' = c /\ update'[c].ok = update[c].ok
                                         /\ update'[c].version = update[c].version
      BY <1>10, WriteNoteSo DEF Onward
    <2>3. OneIsUnderWay'
      BY <2>1, <2>2 DEF OneIsUnderWay, Upd!Over
    <2>4. CommandsAreAwaited'
      BY <2>1, <2>2 DEF CommandsAreAwaited, Builds
    <2>5. VersionsGrow' /\ BuiltIsCurrent'
      BY <2>1, <2>2 DEF BuiltIsCurrent, VersionsGrow
    <2>6. Upd!NoteIsOwn'
      BY <2>1, <2>2 DEF Upd!NoteIsOwn, OneIsUnderWay, Upd!Over
    <2>7. LastNoteIsLast'
      BY <2>1, <2>2 DEF LastNoteIsLast
    <2> QED BY <2>3, <2>4, <2>5, <2>6, <2>7
  <1> QED BY <1>1, <1>2, <1>3, <1>4, <1>5, <1>6, <1>7, <1>8, <1>9, <1>10 DEF Upd!Next

\* history stays
LEMMA CrossedStays == ASSUME [Upd!Next]_(Upd!vars), crossed PROVE crossed'
  BY DEF Upd!Next, Upd!vars, Upd!Push, Upd!Start, Upd!BuildStarts, Upd!TimesOut, Upd!RenameNote,
     Upd!Shutdown, Upd!GitEnds, Upd!BuildEnds, Upd!WriteNote

THEOREM UpdatesAreHonest == ASSUME UpdateConstants PROVE Upd!Spec => []UpdatesHold
  <1>1. Upd!Init => UpdateInv
    <2> SUFFICES ASSUME Upd!Init PROVE UpdateInv
      OBVIOUS
    <2>1. UpdatesAreTyped
      BY IdleIsACall DEF Upd!Init, UpdatesAreTyped, Upd!TypeOK, UpdateConstants
    <2>2. \A c \in UpdCalls : update[c].at = "new"
      BY DEF Upd!Init, Upd!Idle
    <2>3. NotesAreWritten /\ Upd!RestartIsEarned /\ StartsAreInOrder
      BY <2>2 DEF Upd!Init, NotesAreWritten, Upd!RestartIsEarned, StartsAreInOrder
    <2>4. OneAfterTheOther
      BY <2>2 DEF Upd!Init, OneAfterTheOther, OneIsUnderWay, CommandsAreAwaited, VersionsGrow,
                  BuiltIsCurrent, Upd!NoteIsOwn, LastNoteIsLast, Upd!Over, UpdateConstants
    <2> QED BY <2>1, <2>3, <2>4 DEF UpdateInv
  <1>2. UpdateInv /\ [Upd!Next]_(Upd!vars) => UpdateInv'
    <2> SUFFICES ASSUME UpdateInv, [Upd!Next]_(Upd!vars) PROVE UpdateInv'
      OBVIOUS
    <2>1. UpdatesAreTyped'
      BY UpdatesStayTyped DEF UpdateInv
    <2>2. NotesAreWritten' /\ Upd!RestartIsEarned' /\ StartsAreInOrder'
      BY NotesStay DEF UpdateInv, NotesInv
    <2>3. ~crossed' => OneAfterTheOther'
      BY <2>1, OneAtATime, CrossedStays DEF UpdateInv
    <2> QED BY <2>1, <2>2, <2>3 DEF UpdateInv
  <1>3. UpdateInv => UpdatesHold
    <2> SUFFICES ASSUME UpdateInv PROVE UpdatesHold
      OBVIOUS
    <2>1. Upd!TypeOK /\ Upd!RestartIsEarned
      BY DEF UpdateInv, UpdatesAreTyped
    <2>2. Upd!NoteIsOfACall
      BY DEF UpdateInv, NotesAreWritten, Upd!NoteIsOfACall
    <2>3. Upd!RestartIsUpdated
      <3> SUFFICES ASSUME ~crossed PROVE Upd!RestartIsUpdated
        BY DEF Upd!RestartIsUpdated
      <3>1. binary # None /\ binary \in Nat
        BY DEF UpdateInv, UpdatesAreTyped, Upd!TypeOK, OneAfterTheOther, VersionsGrow, UpdateConstants
      <3>2. ASSUME NEW c \in UpdCalls, update[c].at \in {"note", "rename", "answered"}, update[c].ok
            PROVE  binary >= update[c].version
        <4>1. update[c].version \in Nat
          BY DEF UpdateInv, UpdatesAreTyped, UpdateCalls, UpdateConstants
        <4>2. update[c].version <= binary
          BY <3>2 DEF UpdateInv, OneAfterTheOther, BuiltIsCurrent
        <4> QED BY <3>1, <4>1, <4>2
      <3>3. LastNoteIsLast
        BY DEF UpdateInv, OneAfterTheOther
      <3> QED BY <3>1, <3>2, <3>3 DEF Upd!RestartIsUpdated, LastNoteIsLast
    <2> QED BY <2>1, <2>2, <2>3 DEF UpdatesHold
  <1> QED BY <1>1, <1>2, <1>3, PTL DEF Upd!Spec

-----------------------------------------------------------------------------
(* Connections.                                                              *)

Conn == INSTANCE Connections WITH
    Raw <- ConnRaw, Routed <- ConnRouted, Capacity <- ConnCapacity, MaxFrames <- ConnMaxFrames,
    MaxEvents <- ConnMaxEvents, asked <- taken, next <- cursor

\* The channel keeps some number of events.
ConnectionConstants == ConnCapacity \in Nat /\ ConnMaxEvents \in Nat

\* What is read, answered and heard.
ConnectionsAreTyped ==
    /\ Conn!TypeOK
    /\ inbox \in [Conn!Conns -> Seq(Conn!Kinds)]
    /\ taken \in [Conn!Conns -> Seq(Conn!Kinds)] /\ answered \in [Conn!Conns -> Seq(Conn!Kinds)]
    /\ joined \in [ConnRouted -> 0..ConnMaxEvents] /\ heard \in [ConnRouted -> Seq(Nat)]

\* Of connection c: all requests are answered; all but the last are, which is in hand.
AllAnswered(c) == answered[c] = taken[c]
LastInHand(c) == taken[c] # <<>> /\ answered[c] = SubSeq(taken[c], 1, Len(taken[c]) - 1)

\* A connection has one request in hand exactly while it is busy; one that is closed may have
\* been closed then.
OneInHand ==
    \A c \in Conn!Conns :
        CASE conn[c] = "busy" -> LastInHand(c)
          [] conn[c] = "closed" -> AllAnswered(c) \/ LastInHand(c)
          [] OTHER -> AllAnswered(c)

\* The cursor of a connection is between where it joined and the last event, what was heard is
\* behind it, in order, and what is behind it and was not heard is too old for the channel.
HeardInOrder ==
    \A c \in ConnRouted :
        /\ cursor[c] <= published
        /\ \A i \in 1..Len(heard[c]) : heard[c][i] <= cursor[c]
        /\ \A i \in 1..Len(heard[c]) : \A j \in 1..Len(heard[c]) : i < j => heard[c][i] < heard[c][j]
        /\ \A e \in joined[c] + 1..cursor[c] :
              (\E i \in 1..Len(heard[c]) : heard[c][i] = e) \/ e + ConnCapacity <= published

ConnectionInv == ConnectionsAreTyped /\ OneInHand /\ HeardInOrder

\* What the connections promise.
ConnectionsHold == Conn!TypeOK /\ Conn!AnsweredInOrder /\ Conn!EventsAreKept

LEMMA ConnectionsStayTyped ==
    ASSUME ConnectionConstants, ConnectionsAreTyped, HeardInOrder, OneInHand, [Conn!Next]_(Conn!vars)
    PROVE  ConnectionsAreTyped'
  <1> USE DEF ConnectionsAreTyped, Conn!TypeOK, ConnectionConstants, Conn!Goes, Conn!clientVars, Conn!eventVars
  <1>1. CASE UNCHANGED Conn!vars
    BY <1>1 DEF Conn!vars
  <1>2. ASSUME NEW c \in Conn!Conns, Conn!Accept(c) \/ Conn!HandshakeFails(c) \/ Conn!Subscribe(c) \/ Conn!HangUp(c)
                                       \/ Conn!ForwardFails(c)
        PROVE  ConnectionsAreTyped'
    BY <1>2 DEF Conn!Accept, Conn!HandshakeFails, Conn!Subscribe, Conn!HangUp, Conn!ForwardFails
  <1>3. ASSUME NEW c \in Conn!Conns, Conn!Join(c) PROVE ConnectionsAreTyped'
    BY <1>3 DEF Conn!Join
  <1>4. CASE Conn!Shutdown
    BY <1>4 DEF Conn!Shutdown
  <1>5. CASE Conn!ServerStops \/ Conn!Drained
    BY <1>5 DEF Conn!ServerStops, Conn!Drained
  <1>6. CASE Conn!DrainTimeout
    BY <1>6 DEF Conn!DrainTimeout
  <1>7. ASSUME NEW c \in Conn!Conns, Conn!ConnectionStops(c) PROVE ConnectionsAreTyped'
    BY <1>7 DEF Conn!ConnectionStops
  <1>8. ASSUME NEW c \in Conn!Conns, NEW k \in Conn!Kinds, Conn!ClientSends(c, k) PROVE ConnectionsAreTyped'
    BY <1>8 DEF Conn!ClientSends
  <1>9. ASSUME NEW c \in Conn!Conns, Conn!TakeRequest(c) PROVE ConnectionsAreTyped'
    BY <1>9 DEF Conn!TakeRequest
  <1>10. ASSUME NEW c \in Conn!Conns, Conn!Respond(c) PROVE ConnectionsAreTyped'
    BY <1>10 DEF Conn!Respond, OneInHand, LastInHand
  <1>11. ASSUME NEW c \in Conn!Conns, Conn!RespondFails(c) PROVE ConnectionsAreTyped'
    BY <1>11 DEF Conn!RespondFails
  <1>12. ASSUME NEW c \in Conn!Conns, Conn!Ignore(c) \/ Conn!CleanupStale(c) PROVE ConnectionsAreTyped'
    <2>1. CASE Conn!Ignore(c)
      BY <2>1 DEF Conn!Ignore
    <2>2. CASE Conn!CleanupStale(c)
      BY <2>2 DEF Conn!CleanupStale
    <2> QED BY <1>12, <2>1, <2>2
  <1>13. CASE Conn!Publish
    BY <1>13 DEF Conn!Publish
  <1>14. ASSUME NEW c \in Conn!Conns, Conn!Forward(c) PROVE ConnectionsAreTyped'
    BY <1>14 DEF Conn!Forward, Conn!Behind
  <1>15. ASSUME NEW c \in Conn!Conns, Conn!Lag(c) PROVE ConnectionsAreTyped'
    BY <1>15 DEF Conn!Lag, Conn!Behind
  <1> QED BY <1>1, <1>2, <1>3, <1>4, <1>5, <1>6, <1>7, <1>8, <1>9, <1>10, <1>11, <1>12, <1>13, <1>14, <1>15
          DEF Conn!Next, Conn!Works, Conn!Feeds, Conn!Stops

\* While requests and answers are left alone, a connection may only be closed, or open up.
LEMMA InHandIsLeft ==
    ASSUME OneInHand, UNCHANGED <<taken, answered>>,
           \A c \in Conn!Conns : \/ conn'[c] = conn[c] \/ conn'[c] = "closed"
                                 \/ conn[c] \notin {"busy", "closed"} /\ conn'[c] \notin {"busy", "closed"}
    PROVE  OneInHand'
  BY DEF OneInHand, AllAnswered, LastInHand

LEMMA AnswersStayInOrder ==
    ASSUME ConnectionsAreTyped, OneInHand, [Conn!Next]_(Conn!vars) PROVE OneInHand'
  <1> USE DEF ConnectionsAreTyped, Conn!TypeOK, Conn!Goes, Conn!clientVars
  <1>1. CASE UNCHANGED Conn!vars
    BY <1>1, InHandIsLeft DEF Conn!vars
  <1>2. ASSUME NEW c \in Conn!Conns,
               \/ Conn!Accept(c) \/ Conn!HandshakeFails(c) \/ Conn!Subscribe(c) \/ Conn!HangUp(c)
               \/ Conn!ForwardFails(c) \/ Conn!Join(c) \/ Conn!ConnectionStops(c) \/ Conn!RespondFails(c)
        PROVE  OneInHand'
    BY <1>2, InHandIsLeft DEF Conn!Accept, Conn!HandshakeFails, Conn!Subscribe, Conn!HangUp, Conn!ForwardFails,
           Conn!Join, Conn!ConnectionStops, Conn!RespondFails
  <1>3. CASE Conn!Shutdown \/ Conn!ServerStops \/ Conn!Drained \/ Conn!Publish
    BY <1>3, InHandIsLeft DEF Conn!Shutdown, Conn!ServerStops, Conn!Drained, Conn!Publish
  <1>4. CASE Conn!DrainTimeout
    BY <1>4, InHandIsLeft DEF Conn!DrainTimeout
  <1>5. ASSUME NEW c \in Conn!Conns, NEW k \in Conn!Kinds, Conn!ClientSends(c, k) PROVE OneInHand'
    BY <1>5, InHandIsLeft DEF Conn!ClientSends
  <1>6. ASSUME NEW c \in Conn!Conns, Conn!Ignore(c) \/ Conn!CleanupStale(c) \/ Conn!Forward(c) \/ Conn!Lag(c)
        PROVE  OneInHand'
    BY <1>6, InHandIsLeft DEF Conn!Ignore, Conn!CleanupStale, Conn!Forward, Conn!Lag
  <1>7. ASSUME NEW c \in Conn!Conns, Conn!TakeRequest(c) PROVE OneInHand'
    <2>1. AllAnswered(c)
      BY <1>7 DEF Conn!TakeRequest, OneInHand
    <2>2. PICK r \in Conn!Kinds : taken'[c] = Append(taken[c], r)
      BY <1>7 DEF Conn!TakeRequest
    <2>3. LastInHand(c)'
      <3>1. taken[c] \in Seq(Conn!Kinds) /\ Len(taken[c]) \in Nat /\ Len(taken'[c]) = Len(taken[c]) + 1 /\ answered'[c] = taken[c]
        BY <1>7, <2>1, <2>2 DEF Conn!TakeRequest, AllAnswered
      <3>2. taken'[c] # <<>> /\ Len(taken'[c]) - 1 = Len(taken[c])
        BY <3>1
      <3>3. SubSeq(taken'[c], 1, Len(taken[c])) = taken[c]
        BY <2>2, <3>1
      <3> QED BY <3>1, <3>2, <3>3 DEF LastInHand
    <2>4. conn'[c] = "busy" /\ \A d \in Conn!Conns : d # c => conn'[d] = conn[d] /\ taken'[d] = taken[d] /\ answered'[d] = answered[d]
      BY <1>7 DEF Conn!TakeRequest
    <2> QED BY <2>3, <2>4 DEF OneInHand, AllAnswered, LastInHand
  <1>8. ASSUME NEW c \in Conn!Conns, Conn!Respond(c) PROVE OneInHand'
    <2>1. LastInHand(c)
      BY <1>8 DEF Conn!Respond, OneInHand
    <2>2. answered'[c] = Append(answered[c], taken[c][Len(taken[c])]) /\ taken' = taken
      BY <1>8 DEF Conn!Respond
    <2>3. AllAnswered(c)'
      BY <2>1, <2>2 DEF AllAnswered, LastInHand
    <2>4. conn'[c] = "open" /\ \A d \in Conn!Conns : d # c => conn'[d] = conn[d] /\ taken'[d] = taken[d] /\ answered'[d] = answered[d]
      BY <1>8 DEF Conn!Respond
    <2> QED BY <2>3, <2>4 DEF OneInHand, AllAnswered, LastInHand
  <1> QED BY <1>1, <1>2, <1>3, <1>4, <1>5, <1>6, <1>7, <1>8 DEF Conn!Next, Conn!Works, Conn!Feeds, Conn!Stops

\* While cursors and what was heard are left alone, further events only make old ones older.
LEMMA HeardIsLeft ==
    ASSUME ConnectionConstants, ConnectionsAreTyped, HeardInOrder, UNCHANGED <<cursor, joined, heard>>,
           published' \in Nat, published <= published'
    PROVE  HeardInOrder'
  BY DEF HeardInOrder, ConnectionsAreTyped, Conn!TypeOK, ConnectionConstants

\* While only the cursor of c moves.
LEMMA OthersHear ==
    ASSUME NEW c \in ConnRouted, HeardInOrder, published' = published,
           \A d \in ConnRouted : d # c => cursor'[d] = cursor[d] /\ joined'[d] = joined[d] /\ heard'[d] = heard[d],
           /\ cursor'[c] <= published
           /\ \A i \in 1..Len(heard'[c]) : heard'[c][i] <= cursor'[c]
           /\ \A i \in 1..Len(heard'[c]) : \A j \in 1..Len(heard'[c]) : i < j => heard'[c][i] < heard'[c][j]
           /\ \A e \in joined'[c] + 1..cursor'[c] :
                 (\E i \in 1..Len(heard'[c]) : heard'[c][i] = e) \/ e + ConnCapacity <= published
    PROVE  HeardInOrder'
  BY DEF HeardInOrder

LEMMA EventsStayInOrder ==
    ASSUME ConnectionConstants, ConnectionsAreTyped, HeardInOrder, [Conn!Next]_(Conn!vars) PROVE HeardInOrder'
  <1> USE DEF Conn!eventVars
  <1>0. published \in Nat /\ \A c \in ConnRouted : cursor[c] \in Nat /\ joined[c] \in Nat /\ heard[c] \in Seq(Nat)
    BY DEF ConnectionsAreTyped, Conn!TypeOK, ConnectionConstants
  <1>1. CASE UNCHANGED Conn!vars
    BY <1>0, <1>1, HeardIsLeft DEF Conn!vars
  <1>2. ASSUME NEW c \in Conn!Conns,
               \/ Conn!Accept(c) \/ Conn!HandshakeFails(c) \/ Conn!Subscribe(c) \/ Conn!HangUp(c)
               \/ Conn!ForwardFails(c) \/ Conn!ConnectionStops(c) \/ Conn!RespondFails(c)
               \/ Conn!Ignore(c) \/ Conn!CleanupStale(c) \/ Conn!TakeRequest(c) \/ Conn!Respond(c)
        PROVE  HeardInOrder'
    BY <1>0, <1>2, HeardIsLeft DEF Conn!Accept, Conn!HandshakeFails, Conn!Subscribe, Conn!HangUp,
           Conn!ForwardFails, Conn!ConnectionStops, Conn!RespondFails, Conn!Ignore, Conn!CleanupStale,
           Conn!TakeRequest, Conn!Respond
  <1>3. CASE Conn!Shutdown \/ Conn!ServerStops \/ Conn!Drained \/ Conn!DrainTimeout
    BY <1>0, <1>3, HeardIsLeft DEF Conn!Shutdown, Conn!ServerStops, Conn!Drained, Conn!DrainTimeout
  <1>4. ASSUME NEW c \in Conn!Conns, NEW k \in Conn!Kinds, Conn!ClientSends(c, k) PROVE HeardInOrder'
    BY <1>0, <1>4, HeardIsLeft DEF Conn!ClientSends
  <1>5. CASE Conn!Publish
    BY <1>0, <1>5, HeardIsLeft DEF Conn!Publish
  <1>6. ASSUME NEW c \in Conn!Conns, Conn!Join(c) PROVE HeardInOrder'
    <2>1. c \in ConnRouted /\ published' = published /\ heard' = heard /\ cursor'[c] = published /\ joined'[c] = published
      BY <1>6 DEF Conn!Join, ConnectionsAreTyped, Conn!TypeOK
    <2>2. \A d \in ConnRouted : d # c => cursor'[d] = cursor[d] /\ joined'[d] = joined[d] /\ heard'[d] = heard[d]
      BY <1>6 DEF Conn!Join
    <2>3. \A i \in 1..Len(heard[c]) : heard[c][i] <= published
      BY <1>0, <2>1 DEF HeardInOrder
    <2>4. published + 1..published = {}
      BY <1>0
    <2>5. \A i \in 1..Len(heard[c]) : \A j \in 1..Len(heard[c]) : i < j => heard[c][i] < heard[c][j]
      BY <2>1 DEF HeardInOrder
    <2> QED BY <1>0, <2>1, <2>2, <2>3, <2>4, <2>5, OthersHear
  <1>7. ASSUME NEW c \in Conn!Conns, Conn!Forward(c) PROVE HeardInOrder'
    <2>1. /\ c \in ConnRouted /\ published' = published /\ joined' = joined /\ cursor'[c] = cursor[c] + 1
          /\ heard'[c] = Append(heard[c], cursor[c] + 1) /\ cursor[c] + 1 <= published
      BY <1>0, <1>7 DEF Conn!Forward, Conn!Behind, ConnectionsAreTyped, Conn!TypeOK, ConnectionConstants
    <2>2. \A d \in ConnRouted : d # c => cursor'[d] = cursor[d] /\ joined'[d] = joined[d] /\ heard'[d] = heard[d]
      BY <1>7 DEF Conn!Forward
    <2>3. /\ Len(heard'[c]) = Len(heard[c]) + 1 /\ heard'[c][Len(heard[c]) + 1] = cursor[c] + 1
          /\ \A i \in 1..Len(heard[c]) : heard'[c][i] = heard[c][i] /\ heard[c][i] \in Nat
          /\ Len(heard[c]) \in Nat
      BY <1>0, <2>1
    <2>4. \A i \in 1..Len(heard[c]) : heard[c][i] <= cursor[c]
      BY <2>1 DEF HeardInOrder
    <2>5. \A i \in 1..Len(heard'[c]) : heard'[c][i] <= cursor'[c]
      BY <1>0, <2>1, <2>3, <2>4
    <2>6. \A i \in 1..Len(heard'[c]) : \A j \in 1..Len(heard'[c]) : i < j => heard'[c][i] < heard'[c][j]
      BY <1>0, <2>1, <2>3, <2>4 DEF HeardInOrder
    <2>7. \A e \in joined'[c] + 1..cursor'[c] :
              (\E i \in 1..Len(heard'[c]) : heard'[c][i] = e) \/ e + ConnCapacity <= published
      <3> SUFFICES ASSUME NEW e \in joined[c] + 1..cursor[c] + 1, ~(e + ConnCapacity <= published)
                   PROVE  \E i \in 1..Len(heard'[c]) : heard'[c][i] = e
        BY <2>1
      <3>1. CASE e = cursor[c] + 1
        BY <2>3, <3>1
      <3>2. CASE e # cursor[c] + 1
        <4>1. e \in joined[c] + 1..cursor[c]
          BY <1>0, <2>1, <3>2
        <4>2. PICK i \in 1..Len(heard[c]) : heard[c][i] = e
          BY <2>1, <4>1 DEF HeardInOrder
        <4> QED BY <2>3, <4>2
      <3> QED BY <3>1, <3>2
    <2> QED BY <2>1, <2>2, <2>5, <2>6, <2>7, OthersHear
  <1>8. ASSUME NEW c \in Conn!Conns, Conn!Lag(c) PROVE HeardInOrder'
    <2>1. /\ c \in ConnRouted /\ published' = published /\ joined' = joined /\ heard' = heard
          /\ cursor'[c] = published - ConnCapacity /\ cursor[c] < published - ConnCapacity
      BY <1>0, <1>8 DEF Conn!Lag, Conn!Behind, ConnectionsAreTyped, Conn!TypeOK, ConnectionConstants
    <2>2. \A d \in ConnRouted : d # c => cursor'[d] = cursor[d] /\ joined'[d] = joined[d] /\ heard'[d] = heard[d]
      BY <1>8 DEF Conn!Lag
    <2>3. \A i \in 1..Len(heard[c]) : heard[c][i] \in Nat /\ heard[c][i] <= cursor[c]
      BY <1>0, <2>1 DEF HeardInOrder
    <2>4. \A i \in 1..Len(heard'[c]) : heard'[c][i] <= cursor'[c]
      BY <1>0, <2>1, <2>3 DEF ConnectionConstants
    <2>5. \A e \in joined'[c] + 1..cursor'[c] :
              (\E i \in 1..Len(heard'[c]) : heard'[c][i] = e) \/ e + ConnCapacity <= published
      <3> SUFFICES ASSUME NEW e \in joined[c] + 1..published - ConnCapacity, ~(e + ConnCapacity <= published)
                   PROVE  FALSE
        BY <2>1
      <3> QED BY <1>0, <2>1 DEF ConnectionConstants
    <2>6. \A i \in 1..Len(heard'[c]) : \A j \in 1..Len(heard'[c]) : i < j => heard'[c][i] < heard'[c][j]
      BY <2>1 DEF HeardInOrder
    <2>7. cursor'[c] <= published
      BY <1>0, <2>1 DEF ConnectionConstants
    <2> QED BY <2>1, <2>2, <2>4, <2>5, <2>6, <2>7, OthersHear
  <1> QED BY <1>1, <1>2, <1>3, <1>4, <1>5, <1>6, <1>7, <1>8 DEF Conn!Next, Conn!Works, Conn!Feeds, Conn!Stops

\* For any connections and any capacity of the channel: requests are answered one by one in the
\* order they came, and events are heard in order, missing only what the channel could not keep.
THEOREM ConnectionsAreServed == ASSUME ConnectionConstants PROVE Conn!Spec => []ConnectionsHold
  <1>1. Conn!Init => ConnectionInv
    <2> SUFFICES ASSUME Conn!Init PROVE ConnectionInv
      OBVIOUS
    <2>1. ConnectionsAreTyped
      <3>1. Conn!TypeOK
        <4>1. 0 \in 0..ConnMaxEvents
          BY DEF ConnectionConstants
        <4>2. server \in {"up", "draining", "down"} /\ called \in BOOLEAN /\ signal \subseteq ConnRaw \cup {"server"}
          BY DEF Conn!Init
        <4>3. conn \in [Conn!Conns -> {"none", "handshake", "open", "busy", "closed"}] /\ sessions \subseteq Conn!Conns
          BY DEF Conn!Init
        <4>4. published \in 0..ConnMaxEvents /\ cursor \in [ConnRouted -> 0..ConnMaxEvents]
          BY <4>1 DEF Conn!Init
        <4> QED BY <4>2, <4>3, <4>4 DEF Conn!TypeOK
      <3>2. <<>> \in Seq(Conn!Kinds) /\ <<>> \in Seq(Nat)
        OBVIOUS
      <3>3. inbox \in [Conn!Conns -> Seq(Conn!Kinds)] /\ taken \in [Conn!Conns -> Seq(Conn!Kinds)]
        BY <3>2 DEF Conn!Init
      <3>4. answered \in [Conn!Conns -> Seq(Conn!Kinds)] /\ heard \in [ConnRouted -> Seq(Nat)]
        BY <3>2 DEF Conn!Init
      <3>5. joined \in [ConnRouted -> 0..ConnMaxEvents]
        BY DEF Conn!Init, ConnectionConstants
      <3> QED BY <3>1, <3>3, <3>4, <3>5 DEF ConnectionsAreTyped
    <2>2. OneInHand
      BY DEF Conn!Init, OneInHand, AllAnswered
    <2>3. HeardInOrder
      BY DEF Conn!Init, HeardInOrder
    <2> QED BY <2>1, <2>2, <2>3 DEF ConnectionInv
  <1>2. ConnectionInv /\ [Conn!Next]_(Conn!vars) => ConnectionInv'
    BY ConnectionsStayTyped, AnswersStayInOrder, EventsStayInOrder DEF ConnectionInv
  <1>3. ConnectionInv => ConnectionsHold
    <2> SUFFICES ASSUME ConnectionInv PROVE ConnectionsHold
      OBVIOUS
    <2>1. Conn!TypeOK
      BY DEF ConnectionInv, ConnectionsAreTyped
    <2>2. Conn!AnsweredInOrder
      BY DEF ConnectionInv, OneInHand, AllAnswered, LastInHand, Conn!AnsweredInOrder, Conn!Front
    <2>3. ASSUME NEW c \in ConnRouted
          PROVE  /\ \A i \in 1..Len(heard[c]) - 1 : heard[c][i] < heard[c][i + 1]
                 /\ \A e \in joined[c] + 1..cursor[c] : e \in Conn!ToSet(heard[c]) \/ e + ConnCapacity <= published
      <3>1. heard[c] \in Seq(Nat) /\ Len(heard[c]) \in Nat /\ DOMAIN heard[c] = 1..Len(heard[c])
        BY DEF ConnectionInv, ConnectionsAreTyped
      <3>2. \A i \in 1..Len(heard[c]) - 1 : i \in 1..Len(heard[c]) /\ i + 1 \in 1..Len(heard[c]) /\ i < i + 1
        BY <3>1
      <3>3. \A i \in 1..Len(heard[c]) - 1 : heard[c][i] < heard[c][i + 1]
        BY <3>2 DEF ConnectionInv, HeardInOrder
      <3>4. \A e \in joined[c] + 1..cursor[c] : e \in Conn!ToSet(heard[c]) \/ e + ConnCapacity <= published
        BY <3>1 DEF ConnectionInv, HeardInOrder, Conn!ToSet
      <3> QED BY <3>3, <3>4
    <2>4. Conn!EventsAreKept
      BY <2>3 DEF Conn!EventsAreKept
    <2> QED BY <2>1, <2>2, <2>4 DEF ConnectionsHold
  <1> QED BY <1>1, <1>2, <1>3, PTL DEF Conn!Spec

-----------------------------------------------------------------------------
(* Completions.                                                              *)

Comp == INSTANCE Completions WITH
    Requests <- CompRequests, MaxRounds <- CompMaxRounds, MaxChunks <- CompMaxChunks, pc <- stage

\* Only finitely many requests come, and an answer has room for a piece.
CompletionConstants ==
    IsFiniteSet(CompRequests) /\ CompMaxRounds \in Nat /\ CompMaxChunks \in Nat \ {0}

\* Lines of a transcript.
TranscriptLines == [role : {"user", "assistant"}, of : CompRequests, text : Nat]

CompletionsAreTyped ==
    /\ hatching \in BOOLEAN /\ tooled \in BOOLEAN /\ identity \in Comp!Identities
    /\ stage \in [CompRequests -> Comp!Steps] /\ req \in [CompRequests -> Comp!Kinds]
    /\ rounds \in [CompRequests -> 0..CompMaxRounds] /\ text \in [CompRequests -> 0..CompMaxChunks]
    /\ answer \in [CompRequests -> {"open", "ok", "done", "error", "timeout", "left"}]
    /\ log \in Seq(TranscriptLines) /\ landing \subseteq TranscriptLines /\ lost \subseteq TranscriptLines
    /\ recalled \in [CompRequests -> Seq(TranscriptLines)] /\ sent \in [CompRequests -> Nat]

\* Every line that was handed over and has not gone with the transcripts.
Held == Comp!InFile \cup landing \cup lost

\* A line is on its way or in the file, once, and was handed over by a handler that is past that
\* point and has something to store, an answer after its question.
LinesAreSound ==
    /\ \A i \in 1..Len(log) : \A j \in 1..Len(log) : log[i].role = log[j].role /\ log[i].of = log[j].of => i = j
    /\ \A i \in 1..Len(log) : \A m \in landing : ~(log[i].role = m.role /\ log[i].of = m.of)
    /\ \A m \in landing : \A n \in landing : m.role = n.role /\ m.of = n.of => m = n
    /\ \A m \in Held : m.role = "user" => stage[m.of] \in {"persist2", "ended"} /\ Comp!Stores(m.of)
    /\ \A m \in Held : m.role = "assistant" =>
          stage[m.of] = "ended" /\ m.text = sent[m.of] /\ Comp!Stores(m.of) /\ Comp!Handed("user", m.of)

\* Between question and answer the question was handed over, and after an answer that was given
\* whole both lines were, unless an append has failed.
HandlersAreSound ==
    /\ \A r \in CompRequests : stage[r] = "persist2" => Comp!Stores(r) /\ Comp!Handed("user", r)
    /\ \A r \in CompRequests :
          answer[r] = "ok" =>
              /\ stage[r] = "ended"
              /\ ~Comp!Stores(r) \/ r \in failed \/ (Comp!Handed("user", r) /\ Comp!Handed("assistant", r))

CompletionInv == CompletionsAreTyped /\ LinesAreSound /\ HandlersAreSound /\ Comp!RecalledIsSent

\* What the completions promise.
CompletionsHold ==
    Comp!TypeOK /\ Comp!StoredIsSent /\ Comp!AnsweredIsStored /\ Comp!BlankIsNotStored /\ Comp!RecalledIsSent

\* Either line of a request is a line.
LEMMA LinesAreEntries ==
    ASSUME NEW r \in CompRequests, NEW n \in Nat PROVE Comp!User(r) \in TranscriptLines /\ Comp!Assistant(r, n) \in TranscriptLines
  BY DEF Comp!User, Comp!Assistant, TranscriptLines

LEMMA LinesAreTyped ==
    ASSUME CompletionsAreTyped
    PROVE  /\ Len(log) \in Nat /\ DOMAIN log = 1..Len(log)
           /\ \A i \in 1..Len(log) : log[i].of \in CompRequests /\ log[i].role \in {"user", "assistant"}
           /\ \A m \in Held : m.of \in CompRequests /\ m.role \in {"user", "assistant"}
  <1>1. Len(log) \in Nat /\ DOMAIN log = 1..Len(log) /\ \A i \in 1..Len(log) : log[i] \in TranscriptLines
    BY DEF CompletionsAreTyped
  <1>2. Held \subseteq TranscriptLines
    BY <1>1 DEF CompletionsAreTyped, Held, Comp!InFile
  <1> QED BY <1>1, <1>2 DEF TranscriptLines

\* A transcript with one more line.
LEMMA OneMoreLine ==
    ASSUME log \in Seq(TranscriptLines), NEW e \in TranscriptLines, log' = Append(log, e)
    PROVE  /\ log' \in Seq(TranscriptLines) /\ Len(log) \in Nat /\ Len(log') = Len(log) + 1 /\ log'[Len(log) + 1] = e
           /\ \A i \in 1..Len(log) : log'[i] = log[i] /\ i \in 1..Len(log')
           /\ \A i \in 1..Len(log') : i \in 1..Len(log) \/ i = Len(log) + 1
           /\ Len(log) + 1 \in 1..Len(log')
           /\ Comp!InFile' = Comp!InFile \cup {e}
  <1>1. /\ log' \in Seq(TranscriptLines) /\ Len(log) \in Nat /\ Len(log') = Len(log) + 1 /\ log'[Len(log) + 1] = e
        /\ \A i \in 1..Len(log) : log'[i] = log[i] /\ i \in 1..Len(log')
        /\ \A i \in 1..Len(log') : i \in 1..Len(log) \/ i = Len(log) + 1
        /\ Len(log) + 1 \in 1..Len(log')
    OBVIOUS
  <1>2. DOMAIN log = 1..Len(log) /\ DOMAIN log' = 1..Len(log')
    BY <1>1
  <1>3. Comp!InFile' = {log'[i] : i \in 1..Len(log')} /\ Comp!InFile = {log[i] : i \in 1..Len(log)}
    BY <1>2 DEF Comp!InFile
  <1>4. Comp!InFile' = Comp!InFile \cup {e}
    <2>1. ASSUME NEW m \in Comp!InFile' PROVE m \in Comp!InFile \cup {e}
      BY <1>1, <1>3, <2>1
    <2>2. ASSUME NEW m \in Comp!InFile PROVE m \in Comp!InFile'
      BY <1>1, <1>3, <2>2
    <2>3. e \in Comp!InFile'
      BY <1>1, <1>3
    <2> QED BY <2>1, <2>2, <2>3
  <1> QED BY <1>1, <1>4

LEMMA CompletionsStayTyped ==
    ASSUME CompletionConstants, CompletionsAreTyped, [Comp!Next]_(Comp!vars) PROVE CompletionsAreTyped'
  <1> USE DEF CompletionsAreTyped, Comp!Steps, Comp!Goes, CompletionConstants, Comp!given, Comp!file, Comp!marks
  <1>1. CASE UNCHANGED Comp!vars
    BY <1>1 DEF Comp!vars
  <1>2. ASSUME NEW r \in CompRequests, Comp!Begin(r) PROVE CompletionsAreTyped'
    <2>1. log \in Seq(TranscriptLines) /\ <<>> \in Seq(TranscriptLines)
      OBVIOUS
    <2>2. recalled' \in [CompRequests -> Seq(TranscriptLines)]
      BY <1>2, <2>1 DEF Comp!Begin
    <2> QED BY <1>2, <2>2 DEF Comp!Begin
  <1>3. ASSUME NEW r \in CompRequests, Comp!Opened(r) \/ Comp!StreamEnds(r) \/ Comp!ProviderFails(r) \/ Comp!TimesOut(r)
                                     \/ Comp!ClientLeaves(r)
        PROVE  CompletionsAreTyped'
    BY <1>3 DEF Comp!Opened, Comp!StreamEnds, Comp!ProviderFails, Comp!TimesOut, Comp!ClientLeaves
  <1>4. ASSUME NEW r \in CompRequests, Comp!Chunk(r) PROVE CompletionsAreTyped'
    BY <1>4 DEF Comp!Chunk
  <1>5. ASSUME NEW r \in CompRequests, NEW n \in 0..1, Comp!PlainReply(r, n) \/ Comp!LoopEnds(r, n)
        PROVE  CompletionsAreTyped'
    <2>1. n \in 0..CompMaxChunks
      OBVIOUS
    <2>2. CASE Comp!PlainReply(r, n)
      BY <2>1, <2>2 DEF Comp!PlainReply
    <2>3. CASE Comp!LoopEnds(r, n)
      <3>1. rounds' \in [CompRequests -> 0..CompMaxRounds]
        BY <2>3 DEF Comp!LoopEnds
      <3> QED BY <2>1, <2>3, <3>1 DEF Comp!LoopEnds
    <2> QED BY <1>5, <2>2, <2>3
  <1>6. ASSUME NEW r \in CompRequests, NEW i \in Comp!Identities, Comp!ToolRound(r, i) PROVE CompletionsAreTyped'
    <2>1. rounds' \in [CompRequests -> 0..CompMaxRounds]
      BY <1>6 DEF Comp!ToolRound
    <2> QED BY <1>6, <2>1 DEF Comp!ToolRound
  <1>7. ASSUME NEW r \in CompRequests, Comp!CheckIdentity(r) PROVE CompletionsAreTyped'
    <2>1. hatching' \in BOOLEAN
      BY <1>7 DEF Comp!CheckIdentity
    <2> QED BY <1>7, <2>1 DEF Comp!CheckIdentity
  <1>8. ASSUME NEW r \in CompRequests, Comp!ClearTranscripts(r) PROVE CompletionsAreTyped'
    <2>1. <<>> \in Seq(TranscriptLines)
      OBVIOUS
    <2>2. log' \in Seq(TranscriptLines) /\ landing' \subseteq TranscriptLines
      BY <1>8, <2>1 DEF Comp!ClearTranscripts
    <2>3. UNCHANGED <<hatching, tooled, identity, lost, req, recalled, rounds, text, sent, answer>>
      BY <1>8 DEF Comp!ClearTranscripts
    <2>4. stage' \in [CompRequests -> Comp!Steps]
      BY <1>8 DEF Comp!ClearTranscripts
    <2> QED BY <2>2, <2>3, <2>4
  <1>9. ASSUME NEW r \in CompRequests, Comp!Persist(r) PROVE CompletionsAreTyped'
    <2>1. landing' \subseteq TranscriptLines
      BY <1>9, LinesAreEntries DEF Comp!Persist
    <2>2. answer' \in [CompRequests -> {"open", "ok", "done", "error", "timeout", "left"}]
      BY <1>9 DEF Comp!Persist, Comp!Finished
    <2>3. text[r] \in Nat
      OBVIOUS
    <2>4. sent' \in [CompRequests -> Nat] /\ stage' \in [CompRequests -> Comp!Steps]
      BY <1>9, <2>3 DEF Comp!Persist
    <2>5. UNCHANGED <<hatching, tooled, identity, log, lost, req, recalled, rounds, text>>
      BY <1>9 DEF Comp!Persist
    <2> QED BY <2>1, <2>2, <2>4, <2>5
  <1>10. ASSUME NEW r \in CompRequests, Comp!PersistAnswer(r) PROVE CompletionsAreTyped'
    <2>1. text[r] \in Nat
      OBVIOUS
    <2>2. landing' \subseteq TranscriptLines
      BY <1>10, <2>1, LinesAreEntries DEF Comp!PersistAnswer
    <2> QED BY <1>10, <2>1, <2>2 DEF Comp!PersistAnswer, Comp!Finished
  <1>11. ASSUME NEW r \in CompRequests, Comp!AppendFails(r) PROVE CompletionsAreTyped'
    <2>1. text[r] \in Nat
      OBVIOUS
    <2> QED BY <1>11, <2>1 DEF Comp!AppendFails, Comp!Finished
  <1>12. ASSUME NEW m \in landing, Comp!Land(m) PROVE CompletionsAreTyped'
    <2>1. log \in Seq(TranscriptLines) /\ m \in TranscriptLines /\ log' = Append(log, m)
      BY <1>12 DEF Comp!Land
    <2>2. log' \in Seq(TranscriptLines)
      BY <2>1, OneMoreLine
    <2> QED BY <1>12, <2>2 DEF Comp!Land
  <1>13. ASSUME NEW m \in landing, Comp!LoseWrite(m) PROVE CompletionsAreTyped'
    BY <1>13 DEF Comp!LoseWrite
  <1> QED BY <1>1, <1>2, <1>3, <1>4, <1>5, <1>6, <1>7, <1>8, <1>9, <1>10, <1>11, <1>12, <1>13 DEF Comp!Next, Comp!Handler

\* While nothing is handed over or cleared, a handler that has handed lines over stays as it is
\* or ends.
LEMMA LinesAreLeft ==
    ASSUME CompletionsAreTyped, LinesAreSound, HandlersAreSound, UNCHANGED <<log, landing, lost, req, cleared>>,
           failed \subseteq failed',
           \A r \in CompRequests : stage[r] \in {"persist2", "ended"} =>
               text'[r] = text[r] /\ stage'[r] \in {stage[r], "ended"},
           \A r \in CompRequests : stage[r] = "ended" => sent'[r] = sent[r],
           \A r \in CompRequests : stage'[r] = "persist2" => stage[r] = "persist2",
           \A r \in CompRequests :
               answer'[r] = "ok" => answer[r] = "ok" \/ (stage'[r] = "ended" /\ (~Comp!Stores(r)' \/ r \in failed'))
    PROVE  LinesAreSound' /\ HandlersAreSound'
  <1>1. \A m \in Held : m.of \in CompRequests /\ m.role \in {"user", "assistant"}
    BY LinesAreTyped
  <1>2. Held' = Held /\ \A role, r : Comp!Handed(role, r)' <=> Comp!Handed(role, r)
    BY DEF Held, Comp!InFile, Comp!Handed
  <1>3. \A r \in CompRequests : stage[r] \in {"persist2", "ended"} => (Comp!Stores(r)' <=> Comp!Stores(r))
    BY DEF Comp!Stores
  <1>4. LinesAreSound'
    <2>1. \A m \in Held : m.role = "user" => stage'[m.of] \in {"persist2", "ended"} /\ Comp!Stores(m.of)'
      BY <1>1, <1>3 DEF LinesAreSound
    <2>2. \A m \in Held : m.role = "assistant" =>
              stage'[m.of] = "ended" /\ m.text = sent'[m.of] /\ Comp!Stores(m.of)' /\ Comp!Handed("user", m.of)'
      <3> SUFFICES ASSUME NEW m \in Held, m.role = "assistant"
                   PROVE  stage'[m.of] = "ended" /\ m.text = sent'[m.of] /\ Comp!Stores(m.of)' /\ Comp!Handed("user", m.of)'
        OBVIOUS
      <3>1. stage[m.of] = "ended" /\ m.text = sent[m.of] /\ Comp!Stores(m.of) /\ Comp!Handed("user", m.of) /\ m.of \in CompRequests
        BY <1>1 DEF LinesAreSound
      <3> QED BY <1>2, <1>3, <3>1
    <2> QED BY <1>2, <2>1, <2>2 DEF LinesAreSound
  <1>5. HandlersAreSound'
    <2>1. ASSUME NEW r \in CompRequests, stage'[r] = "persist2" PROVE Comp!Stores(r)' /\ Comp!Handed("user", r)'
      BY <1>2, <1>3, <2>1 DEF HandlersAreSound
    <2>2. ASSUME NEW r \in CompRequests, answer'[r] = "ok"
          PROVE  /\ stage'[r] = "ended"
                 /\ ~Comp!Stores(r)' \/ r \in failed' \/ (Comp!Handed("user", r)' /\ Comp!Handed("assistant", r)')
      <3>1. CASE answer[r] = "ok"
        <4>1. /\ stage[r] = "ended"
              /\ ~Comp!Stores(r) \/ r \in failed \/ (Comp!Handed("user", r) /\ Comp!Handed("assistant", r))
          BY <3>1 DEF HandlersAreSound
        <4>2. stage'[r] = "ended" /\ (Comp!Stores(r)' <=> Comp!Stores(r))
          BY <1>3, <4>1
        <4> QED BY <1>2, <4>1, <4>2
      <3> QED BY <2>2, <3>1
    <2> QED BY <2>1, <2>2 DEF HandlersAreSound
  <1> QED BY <1>4, <1>5

\* The handler of r hands a line e of its own over, its question or its answer.
LEMMA LineIsHandedOver ==
    ASSUME CompletionsAreTyped, LinesAreSound, NEW r \in CompRequests, NEW e \in TranscriptLines, e.of = r,
           landing' = landing \cup {e}, UNCHANGED <<log, lost, cleared>>,
           \A m \in Held : m.of = r => m.role # e.role
    PROVE  /\ Held' = Held \cup {e} /\ Comp!Handed(e.role, r)'
           /\ \A role, q : Comp!Handed(role, q) => Comp!Handed(role, q)'
           /\ \A i \in 1..Len(log) : \A m \in landing' : ~(log[i].role = m.role /\ log[i].of = m.of)
           /\ \A m \in landing' : \A n \in landing' : m.role = n.role /\ m.of = n.of => m = n
  <1>1. Held' = Held \cup {e} /\ Comp!InFile' = Comp!InFile /\ e \in landing'
    BY DEF Held, Comp!InFile
  <1>2. \A i \in 1..Len(log) : log[i] \in Held
    <2>1. DOMAIN log = 1..Len(log)
      BY LinesAreTyped
    <2> QED BY <2>1 DEF Held, Comp!InFile
  <1>3. \A m \in landing : m \in Held
    BY DEF Held
  <1>4. \A i \in 1..Len(log) : \A m \in landing' : ~(log[i].role = m.role /\ log[i].of = m.of)
    <2> SUFFICES ASSUME NEW i \in 1..Len(log), NEW m \in landing', log[i].role = m.role, log[i].of = m.of PROVE FALSE
      OBVIOUS
    <2>1. CASE m = e
      BY <1>2, <2>1
    <2>2. CASE m \in landing
      BY <2>2 DEF LinesAreSound
    <2> QED BY <2>1, <2>2
  <1>5. \A m \in landing' : \A n \in landing' : m.role = n.role /\ m.of = n.of => m = n
    BY <1>3 DEF LinesAreSound
  <1>6. Comp!Handed(e.role, r)' /\ \A role, q : Comp!Handed(role, q) => Comp!Handed(role, q)'
    <2>1. Comp!InFile \cup landing \cup lost \subseteq Comp!InFile' \cup landing' \cup lost' /\ e \in Comp!InFile' \cup landing' \cup lost'
      BY <1>1
    <2> QED BY <2>1 DEF Comp!Handed
  <1> QED BY <1>1, <1>4, <1>5, <1>6

\* Handing over the question of r.
LEMMA QuestionIsHandedOver ==
    ASSUME CompletionsAreTyped, LinesAreSound, HandlersAreSound, NEW r \in CompRequests, Comp!Persist(r), Comp!Stores(r)
    PROVE  LinesAreSound' /\ HandlersAreSound'
  <1> USE DEF Comp!given
  <1>1. /\ landing' = landing \cup {Comp!User(r)} /\ UNCHANGED <<log, lost, req, text, sent, answer, cleared, failed>>
        /\ stage[r] = "persist" /\ stage'[r] = "persist2" /\ \A q \in CompRequests : q # r => stage'[q] = stage[q]
    BY DEF Comp!Persist, Comp!Goes, CompletionsAreTyped, Comp!marks
  <1>2. Comp!User(r) \in TranscriptLines /\ Comp!User(r).of = r /\ Comp!User(r).role = "user"
    BY LinesAreEntries DEF Comp!User
  <1>3. \A m \in Held : m.of # r /\ m.of \in CompRequests /\ m.role \in {"user", "assistant"}
    BY <1>1, LinesAreTyped DEF LinesAreSound
  <1>4. /\ Held' = Held \cup {Comp!User(r)} /\ Comp!Handed("user", r)'
        /\ \A role, q : Comp!Handed(role, q) => Comp!Handed(role, q)'
        /\ \A i \in 1..Len(log) : \A m \in landing' : ~(log[i].role = m.role /\ log[i].of = m.of)
        /\ \A m \in landing' : \A n \in landing' : m.role = n.role /\ m.of = n.of => m = n
    BY <1>1, <1>2, <1>3, LineIsHandedOver
  <1>5. \A q : Comp!Stores(q)' <=> Comp!Stores(q)
    BY <1>1 DEF Comp!Stores
  <1>6. LinesAreSound'
    <2>1. \A m \in Held' : m.role = "user" => stage'[m.of] \in {"persist2", "ended"} /\ Comp!Stores(m.of)'
      BY <1>1, <1>2, <1>3, <1>4, <1>5 DEF LinesAreSound
    <2>2. \A m \in Held' : m.role = "assistant" =>
              stage'[m.of] = "ended" /\ m.text = sent'[m.of] /\ Comp!Stores(m.of)' /\ Comp!Handed("user", m.of)'
      BY <1>1, <1>2, <1>3, <1>4, <1>5 DEF LinesAreSound
    <2> QED BY <1>1, <1>4, <2>1, <2>2 DEF LinesAreSound
  <1>7. HandlersAreSound'
    BY <1>1, <1>4, <1>5 DEF HandlersAreSound
  <1> QED BY <1>6, <1>7

\* Handing over the answer of r.
LEMMA AnswerIsHandedOver ==
    ASSUME CompletionsAreTyped, LinesAreSound, HandlersAreSound, NEW r \in CompRequests, Comp!PersistAnswer(r)
    PROVE  LinesAreSound' /\ HandlersAreSound'
  <1> USE DEF Comp!given
  <1>0. text[r] \in Nat
    BY DEF CompletionsAreTyped
  <1>1. /\ landing' = landing \cup {Comp!Assistant(r, text[r])} /\ UNCHANGED <<log, lost, req, text, cleared, failed>>
        /\ stage[r] = "persist2" /\ stage'[r] = "ended" /\ sent'[r] = text[r]
        /\ \A q \in CompRequests : q # r => stage'[q] = stage[q] /\ sent'[q] = sent[q] /\ answer'[q] = answer[q]
    BY DEF Comp!PersistAnswer, Comp!Goes, Comp!Finished, CompletionsAreTyped, Comp!marks
  <1>2. /\ Comp!Assistant(r, text[r]) \in TranscriptLines /\ Comp!Assistant(r, text[r]).of = r
        /\ Comp!Assistant(r, text[r]).role = "assistant" /\ Comp!Assistant(r, text[r]).text = text[r]
    BY <1>0, LinesAreEntries DEF Comp!Assistant
  <1>3. \A m \in Held : /\ m.of \in CompRequests /\ m.role \in {"user", "assistant"}
                        /\ m.of = r => m.role # "assistant"
    BY <1>1, LinesAreTyped DEF LinesAreSound
  <1>4. /\ Held' = Held \cup {Comp!Assistant(r, text[r])} /\ Comp!Handed("assistant", r)'
        /\ \A role, q : Comp!Handed(role, q) => Comp!Handed(role, q)'
        /\ \A i \in 1..Len(log) : \A m \in landing' : ~(log[i].role = m.role /\ log[i].of = m.of)
        /\ \A m \in landing' : \A n \in landing' : m.role = n.role /\ m.of = n.of => m = n
    BY <1>1, <1>2, <1>3, LineIsHandedOver
  <1>5. \A q : Comp!Stores(q)' <=> Comp!Stores(q)
    BY <1>1 DEF Comp!Stores
  <1>6. Comp!Stores(r) /\ Comp!Handed("user", r)
    BY <1>1 DEF HandlersAreSound
  <1>7. LinesAreSound'
    <2>1. \A m \in Held' : m.role = "user" => stage'[m.of] \in {"persist2", "ended"} /\ Comp!Stores(m.of)'
      BY <1>1, <1>2, <1>3, <1>4, <1>5 DEF LinesAreSound
    <2>2. \A m \in Held' : m.role = "assistant" =>
              stage'[m.of] = "ended" /\ m.text = sent'[m.of] /\ Comp!Stores(m.of)' /\ Comp!Handed("user", m.of)'
      <3> SUFFICES ASSUME NEW m \in Held', m.role = "assistant"
                   PROVE  stage'[m.of] = "ended" /\ m.text = sent'[m.of] /\ Comp!Stores(m.of)' /\ Comp!Handed("user", m.of)'
        OBVIOUS
      <3>1. CASE m = Comp!Assistant(r, text[r])
        BY <1>1, <1>2, <1>4, <1>5, <1>6, <3>1
      <3>2. CASE m \in Held
        BY <1>1, <1>3, <1>4, <1>5, <3>2 DEF LinesAreSound
      <3> QED BY <1>4, <3>1, <3>2
    <2> QED BY <1>1, <1>4, <2>1, <2>2 DEF LinesAreSound
  <1>8. HandlersAreSound'
    <2>1. \A q \in CompRequests : stage'[q] = "persist2" => stage[q] = "persist2"
      BY <1>1
    <2>2. \A q \in CompRequests : answer'[q] = "ok" =>
              /\ stage'[q] = "ended"
              /\ ~Comp!Stores(q)' \/ q \in failed' \/ (Comp!Handed("user", q)' /\ Comp!Handed("assistant", q)')
      <3> SUFFICES ASSUME NEW q \in CompRequests, answer'[q] = "ok"
                   PROVE  /\ stage'[q] = "ended"
                          /\ ~Comp!Stores(q)' \/ q \in failed' \/ (Comp!Handed("user", q)' /\ Comp!Handed("assistant", q)')
        OBVIOUS
      <3>1. CASE q = r
        BY <1>1, <1>4, <1>6, <3>1
      <3>2. CASE q # r
        BY <1>1, <1>4, <1>5, <3>2 DEF HandlersAreSound
      <3> QED BY <3>1, <3>2
    <2> QED BY <1>4, <1>5, <2>1, <2>2 DEF HandlersAreSound
  <1> QED BY <1>7, <1>8

\* A line on its way comes to the file or is lost, and is known all the same.
LEMMA LineLands ==
    ASSUME CompletionsAreTyped, LinesAreSound, HandlersAreSound, NEW e \in landing, Comp!Land(e) \/ Comp!LoseWrite(e)
    PROVE  LinesAreSound' /\ HandlersAreSound'
  <1> USE DEF Comp!given, Comp!marks
  <1>1. landing' = landing \ {e} /\ UNCHANGED <<req, stage, text, sent, answer, cleared, failed>>
    BY DEF Comp!Land, Comp!LoseWrite
  <1>2. e \in TranscriptLines /\ log \in Seq(TranscriptLines) /\ Len(log) \in Nat
    BY DEF CompletionsAreTyped
  <1>3. Held' = Held
    <2>1. CASE Comp!Land(e)
      <3>1. Comp!InFile' = Comp!InFile \cup {e} /\ lost' = lost
        BY <1>2, <2>1, OneMoreLine DEF Comp!Land
      <3> QED BY <1>1, <3>1 DEF Held
    <2>2. CASE Comp!LoseWrite(e)
      BY <1>1, <2>2 DEF Comp!LoseWrite, Held, Comp!InFile
    <2> QED BY <2>1, <2>2
  <1>4. \A role, r : Comp!Handed(role, r)' <=> Comp!Handed(role, r)
    BY <1>1, <1>3 DEF Held, Comp!Handed
  <1>5. \A r : Comp!Stores(r)' <=> Comp!Stores(r)
    BY <1>1 DEF Comp!Stores
  <1>6. /\ \A i \in 1..Len(log') : \A j \in 1..Len(log') :
              log'[i].role = log'[j].role /\ log'[i].of = log'[j].of => i = j
        /\ \A i \in 1..Len(log') : \A m \in landing' : ~(log'[i].role = m.role /\ log'[i].of = m.of)
    <2>1. CASE Comp!Land(e)
      <3>1. /\ Len(log') = Len(log) + 1 /\ log'[Len(log) + 1] = e
            /\ \A i \in 1..Len(log) : log'[i] = log[i] /\ i \in 1..Len(log')
            /\ \A i \in 1..Len(log') : i \in 1..Len(log) \/ i = Len(log) + 1
        BY <1>2, <2>1, OneMoreLine DEF Comp!Land
      <3>2. \A i \in 1..Len(log') : \A j \in 1..Len(log') :
                log'[i].role = log'[j].role /\ log'[i].of = log'[j].of => i = j
        BY <3>1 DEF LinesAreSound
      <3>3. \A i \in 1..Len(log') : \A m \in landing' : ~(log'[i].role = m.role /\ log'[i].of = m.of)
        BY <1>1, <3>1 DEF LinesAreSound
      <3> QED BY <3>2, <3>3
    <2>2. CASE Comp!LoseWrite(e)
      BY <1>1, <2>2 DEF LinesAreSound, Comp!LoseWrite
    <2> QED BY <2>1, <2>2
  <1>7. \A m \in landing' : \A n \in landing' : m.role = n.role /\ m.of = n.of => m = n
    BY <1>1 DEF LinesAreSound
  <1>8. LinesAreSound'
    BY <1>1, <1>3, <1>4, <1>5, <1>6, <1>7 DEF LinesAreSound
  <1>9. HandlersAreSound'
    BY <1>1, <1>4, <1>5 DEF HandlersAreSound
  <1> QED BY <1>8, <1>9

\* Clearing the transcripts takes every line that was handed over, in the file and on its way, or none.
LEMMA LinesAreCleared ==
    ASSUME CompletionsAreTyped, LinesAreSound, HandlersAreSound, NEW r \in CompRequests, Comp!ClearTranscripts(r)
    PROVE  LinesAreSound' /\ HandlersAreSound'
  <1> USE DEF Comp!given
  <1>1. /\ UNCHANGED <<lost, req, text, sent, answer, failed>> /\ stage[r] = "clearing" /\ stage'[r] = "persist"
        /\ \A q \in CompRequests : q # r => stage'[q] = stage[q]
        /\ \A q \in CompRequests : stage[q] # "new" => q \in cleared'
        /\ (log' = <<>> /\ landing' = {}) \/ UNCHANGED <<log, landing>>
    BY DEF Comp!ClearTranscripts, Comp!Goes, CompletionsAreTyped
  <1>2. \A role : \A q \in CompRequests : stage[q] # "new" => Comp!Handed(role, q)'
    BY <1>1 DEF Comp!Handed
  <1>3. \A q : Comp!Stores(q)' <=> Comp!Stores(q)
    BY <1>1 DEF Comp!Stores
  <1>4. Held' \subseteq Held
    BY <1>1 DEF Held, Comp!InFile
  <1>5. \A m \in Held : m.of \in CompRequests /\ m.role \in {"user", "assistant"}
    BY LinesAreTyped
  <1>6. LinesAreSound'
    <2>1. \A m \in Held' : m.role = "user" => stage'[m.of] \in {"persist2", "ended"} /\ Comp!Stores(m.of)'
      BY <1>1, <1>3, <1>4, <1>5 DEF LinesAreSound
    <2>2. \A m \in Held' : m.role = "assistant" =>
              stage'[m.of] = "ended" /\ m.text = sent'[m.of] /\ Comp!Stores(m.of)' /\ Comp!Handed("user", m.of)'
      BY <1>1, <1>2, <1>3, <1>4, <1>5 DEF LinesAreSound
    <2>3. CASE log' = <<>> /\ landing' = {}
      BY <2>1, <2>2, <2>3 DEF LinesAreSound
    <2>4. CASE UNCHANGED <<log, landing>>
      BY <2>1, <2>2, <2>4 DEF LinesAreSound
    <2> QED BY <1>1, <2>3, <2>4
  <1>7. HandlersAreSound'
    BY <1>1, <1>2, <1>3 DEF HandlersAreSound
  <1> QED BY <1>6, <1>7

LEMMA CompletionsStaySound ==
    ASSUME CompletionConstants, CompletionsAreTyped, LinesAreSound, HandlersAreSound, [Comp!Next]_(Comp!vars)
    PROVE  LinesAreSound' /\ HandlersAreSound'
  <1> USE DEF Comp!Goes, Comp!given, Comp!file, Comp!marks
  <1>0. /\ stage \in [CompRequests -> Comp!Steps] /\ DOMAIN text = CompRequests /\ DOMAIN sent = CompRequests
        /\ DOMAIN answer = CompRequests
    BY DEF CompletionsAreTyped
  <1>1. CASE UNCHANGED Comp!vars
    BY <1>1, LinesAreLeft DEF Comp!vars
  <1>2. ASSUME NEW r \in CompRequests,
               Comp!Begin(r) \/ Comp!Opened(r) \/ Comp!StreamEnds(r) \/ Comp!CheckIdentity(r)
        PROVE  LinesAreSound' /\ HandlersAreSound'
    BY <1>0, <1>2, LinesAreLeft DEF Comp!Begin, Comp!Opened, Comp!StreamEnds, Comp!CheckIdentity
  <1>3. ASSUME NEW r \in CompRequests, Comp!ProviderFails(r) \/ Comp!TimesOut(r) \/ Comp!ClientLeaves(r)
        PROVE  LinesAreSound' /\ HandlersAreSound'
    BY <1>0, <1>3, LinesAreLeft DEF Comp!ProviderFails, Comp!TimesOut, Comp!ClientLeaves
  <1>4. ASSUME NEW r \in CompRequests, Comp!Chunk(r) PROVE LinesAreSound' /\ HandlersAreSound'
    BY <1>0, <1>4, LinesAreLeft DEF Comp!Chunk
  <1>5. ASSUME NEW r \in CompRequests, NEW n \in 0..1, Comp!PlainReply(r, n) \/ Comp!LoopEnds(r, n)
        PROVE  LinesAreSound' /\ HandlersAreSound'
    BY <1>0, <1>5, LinesAreLeft DEF Comp!PlainReply, Comp!LoopEnds
  <1>6. ASSUME NEW r \in CompRequests, NEW i \in Comp!Identities, Comp!ToolRound(r, i)
        PROVE  LinesAreSound' /\ HandlersAreSound'
    BY <1>0, <1>6, LinesAreLeft DEF Comp!ToolRound
  <1>7. ASSUME NEW r \in CompRequests, Comp!Persist(r) PROVE LinesAreSound' /\ HandlersAreSound'
    <2>1. CASE ~Comp!Stores(r)
      <3>1. ~Comp!Stores(r)'
        BY <1>7, <2>1 DEF Comp!Persist, Comp!Stores
      <3>2. /\ UNCHANGED <<log, landing, lost, req, cleared, failed, text>> /\ stage[r] = "persist" /\ stage'[r] = "ended"
            /\ \A q \in CompRequests : q # r => stage'[q] = stage[q] /\ sent'[q] = sent[q] /\ answer'[q] = answer[q]
        BY <1>0, <1>7, <2>1 DEF Comp!Persist, Comp!Finished
      <3> QED BY <3>1, <3>2, LinesAreLeft
    <2> QED BY <1>7, <2>1, QuestionIsHandedOver
  <1>8. ASSUME NEW r \in CompRequests, Comp!AppendFails(r) PROVE LinesAreSound' /\ HandlersAreSound'
    <2>1. /\ UNCHANGED <<log, landing, lost, req, cleared, text>> /\ stage[r] # "ended" /\ stage'[r] = "ended" /\ r \in failed'
          /\ \A q \in CompRequests : q # r => stage'[q] = stage[q] /\ sent'[q] = sent[q] /\ answer'[q] = answer[q]
          /\ failed \subseteq failed'
      BY <1>0, <1>8 DEF Comp!AppendFails, Comp!Finished
    <2> QED BY <2>1, LinesAreLeft
  <1> QED BY <1>1, <1>2, <1>3, <1>4, <1>5, <1>6, <1>7, <1>8, AnswerIsHandedOver, LinesAreCleared, LineLands
          DEF Comp!Next, Comp!Handler

\* What is recalled was the transcript, of which the answers were given.
LEMMA RecalledStaysSent ==
    ASSUME CompletionsAreTyped, LinesAreSound, Comp!RecalledIsSent, [Comp!Next]_(Comp!vars)
    PROVE  Comp!RecalledIsSent'
  <1> USE DEF Comp!Goes, Comp!given, Comp!file, Comp!marks
  <1>1. \A q \in CompRequests : stage[q] = "ended" => stage'[q] = "ended" /\ sent'[q] = sent[q]
    BY DEF CompletionsAreTyped, Comp!Next, Comp!Handler, Comp!Begin, Comp!ClientLeaves, Comp!Opened, Comp!Chunk,
       Comp!StreamEnds, Comp!ProviderFails, Comp!TimesOut, Comp!PlainReply, Comp!LoopEnds, Comp!ToolRound,
       Comp!CheckIdentity, Comp!ClearTranscripts, Comp!Persist, Comp!PersistAnswer, Comp!AppendFails, Comp!Land,
       Comp!LoseWrite, Comp!vars
  <1>2. recalled' = recalled \/ \E r \in CompRequests : Comp!Begin(r)
    BY DEF Comp!Next, Comp!Handler, Comp!ClientLeaves, Comp!Opened, Comp!Chunk, Comp!StreamEnds,
       Comp!ProviderFails, Comp!TimesOut, Comp!PlainReply, Comp!LoopEnds, Comp!ToolRound, Comp!CheckIdentity,
       Comp!ClearTranscripts, Comp!Persist, Comp!PersistAnswer, Comp!AppendFails, Comp!Land, Comp!LoseWrite, Comp!vars
  <1>3. \A q \in CompRequests : recalled'[q] \in {recalled[q], <<>>, log}
    BY <1>2 DEF Comp!Begin, CompletionsAreTyped
  <1>4. \A i, j \in DOMAIN log :
            /\ log[i].role = "assistant" => log[i].of \in CompRequests /\ stage[log[i].of] = "ended" /\ log[i].text = sent[log[i].of]
            /\ log[i].role = log[j].role /\ log[i].of = log[j].of => i = j
    <2>1. DOMAIN log = 1..Len(log) /\ \A i \in 1..Len(log) : log[i] \in Held
      BY LinesAreTyped DEF Held, Comp!InFile
    <2> QED BY <2>1, LinesAreTyped DEF LinesAreSound
  <1>5. ASSUME NEW q \in CompRequests, NEW i \in DOMAIN recalled[q]
        PROVE  recalled[q][i].of \in CompRequests
    <2>1. recalled[q] \in Seq(TranscriptLines)
      BY <1>5 DEF CompletionsAreTyped
    <2>2. recalled[q][i] \in TranscriptLines
      BY <1>5, <2>1
    <2> QED BY <2>2 DEF TranscriptLines
  <1> SUFFICES ASSUME NEW q \in CompRequests, NEW i \in DOMAIN recalled'[q], NEW j \in DOMAIN recalled'[q]
               PROVE  /\ recalled'[q][i].role = "assistant" =>
                             /\ stage'[recalled'[q][i].of] = "ended"
                             /\ recalled'[q][i].text = sent'[recalled'[q][i].of]
                      /\ recalled'[q][i].role = recalled'[q][j].role /\ recalled'[q][i].of = recalled'[q][j].of => i = j
    BY DEF Comp!RecalledIsSent
  <1>6. CASE recalled'[q] = recalled[q]
    BY <1>1, <1>5, <1>6 DEF Comp!RecalledIsSent
  <1>7. CASE recalled'[q] = log
    BY <1>1, <1>4, <1>7
  <1>8. CASE recalled'[q] = <<>>
    BY <1>8
  <1> QED BY <1>3, <1>6, <1>7, <1>8

LEMMA CompletionsCount == ASSUME NEW S PROVE Comp!Cardinality(S) = Cardinality(S)
  BY DEF Comp!Cardinality, Cardinality

\* A transcript holds two lines of a request at most.
LEMMA LinesAreFew ==
    ASSUME CompletionConstants, CompletionsAreTyped, LinesAreSound PROVE Len(log) <= 2 * Cardinality(CompRequests)
  <1> DEFINE Sides == {"user", "assistant"}
             At == [i \in 1..Len(log) |-> <<log[i].role, log[i].of>>]
  <1>1. Len(log) \in Nat /\ \A i \in 1..Len(log) : log[i].role \in Sides /\ log[i].of \in CompRequests
    BY LinesAreTyped
  <1>2. At \in Injection(1..Len(log), Sides \X CompRequests)
    <2>1. At \in [1..Len(log) -> Sides \X CompRequests]
      BY <1>1
    <2>2. \A i \in 1..Len(log) : \A j \in 1..Len(log) : At[i] = At[j] => i = j
      BY DEF LinesAreSound
    <2> HIDE DEF At
    <2> QED BY <2>1, <2>2 DEF Injection, IsInjective
  <1>3. IsFiniteSet(Sides) /\ Cardinality(Sides) = 2
    <2>1. "user" # "assistant"
      OBVIOUS
    <2>2. IsFiniteSet({"user"} \cup {"assistant"})
      BY FS_Singleton, FS_AddElement
    <2>3. {"user"} \cup {"assistant"} = Sides
      OBVIOUS
    <2> QED BY <2>1, <2>2, <2>3, TwoAreTwo
  <1>4. IsFiniteSet(Sides \X CompRequests) /\ Cardinality(Sides \X CompRequests) = 2 * Cardinality(CompRequests)
    BY <1>3, FS_Product DEF CompletionConstants
  <1>5. Cardinality(1..Len(log)) <= Cardinality(Sides \X CompRequests)
    BY <1>2, <1>4, FS_Injection
  <1>6. Cardinality(1..Len(log)) = Len(log)
    <2> DEFINE n == Len(log)
    <2>1. n \in Nat
      BY <1>1
    <2> HIDE DEF n
    <2>2. Cardinality(1..n) = IF 1 > n THEN 0 ELSE n - 1 + 1
      BY <2>1, FS_Interval
    <2>3. Cardinality(1..n) = n
      BY <2>1, <2>2
    <2> QED BY <2>3 DEF n
  <1> QED BY <1>4, <1>5, <1>6

LEMMA CompletionsFollow == ASSUME CompletionConstants, CompletionInv PROVE CompletionsHold
  <1> USE DEF CompletionInv
  <1>1. Comp!TypeOK
    <2>1. Len(log) <= 2 * Comp!Cardinality(CompRequests)
      BY LinesAreFew, CompletionsCount
    <2> QED BY <2>1 DEF CompletionsAreTyped, Comp!TypeOK
  <1>2. DOMAIN log = 1..Len(log)
    BY LinesAreTyped
  <1>3. Comp!StoredIsSent
    BY <1>2 DEF LinesAreSound, Held, Comp!StoredIsSent
  <1>4. Comp!AnsweredIsStored
    BY DEF HandlersAreSound, Comp!AnsweredIsStored
  <1>5. Comp!BlankIsNotStored
    BY LinesAreTyped DEF LinesAreSound, Held, Comp!BlankIsNotStored
  <1> QED BY <1>1, <1>3, <1>4, <1>5 DEF CompletionsHold

\* For any requests, rounds and pieces, and however their lines land or are lost: what is stored
\* of a completion is what its client was sent, each line once and the answer handed over behind
\* its question, and what the client has been told whole was handed over.
THEOREM CompletionsAreStored == ASSUME CompletionConstants PROVE Comp!Spec => []CompletionsHold
  <1>1. Comp!Init => CompletionInv
    <2> SUFFICES ASSUME Comp!Init PROVE CompletionInv
      OBVIOUS
    <2>1. CompletionsAreTyped
      <3>1. 0 \in 0..CompMaxRounds /\ 0 \in 0..CompMaxChunks
        BY DEF CompletionConstants
      <3>2. /\ hatching \in BOOLEAN /\ tooled \in BOOLEAN /\ identity \in Comp!Identities
            /\ stage \in [CompRequests -> Comp!Steps] /\ req \in [CompRequests -> Comp!Kinds]
            /\ landing \subseteq TranscriptLines /\ lost \subseteq TranscriptLines
        BY DEF Comp!Init, Comp!Identities, Comp!Steps
      <3>3. rounds \in [CompRequests -> 0..CompMaxRounds] /\ text \in [CompRequests -> 0..CompMaxChunks]
        BY <3>1 DEF Comp!Init
      <3>4. <<>> \in Seq(TranscriptLines)
        OBVIOUS
      <3>5. log \in Seq(TranscriptLines) /\ recalled \in [CompRequests -> Seq(TranscriptLines)] /\ sent \in [CompRequests -> Nat]
        BY <3>4 DEF Comp!Init
      <3>6. answer \in [CompRequests -> {"open", "ok", "done", "error", "timeout", "left"}]
        BY DEF Comp!Init
      <3> QED BY <3>2, <3>3, <3>5, <3>6 DEF CompletionsAreTyped
    <2>2. LinesAreSound
      <3>1. log = <<>> /\ landing = {} /\ Held = {}
        BY DEF Comp!Init, Held, Comp!InFile
      <3> QED BY <3>1 DEF LinesAreSound
    <2>3. HandlersAreSound /\ Comp!RecalledIsSent
      BY DEF Comp!Init, HandlersAreSound, Comp!RecalledIsSent
    <2> QED BY <2>1, <2>2, <2>3 DEF CompletionInv
  <1>2. ASSUME CompletionInv, [Comp!Next]_(Comp!vars) PROVE CompletionInv'
    BY <1>2, CompletionsStayTyped, CompletionsStaySound, RecalledStaysSent DEF CompletionInv
  <1>3. CompletionInv => CompletionsHold
    BY CompletionsFollow
  <1> QED BY <1>1, <1>2, <1>3, PTL DEF Comp!Spec

-----------------------------------------------------------------------------
(* The parts together.                                                       *)

Send == INSTANCE SendDedupe WITH
    Calls <- SendCalls, Keyless <- SendKeyless, Keys <- SendKeys, KeyOf <- SendKeyOf

guardVars ==
    <<part,
      approvals, expired, waiter, decisions, asked,
      pending, index, paired, disk, devTmp, call, calls, announced, decided, open, mixed, faults,
      store, old, pairs, nodeIndex, connected, asking, found, approving, rejecting, verifying, invoke, reported,
      pc, reply, gate, dedupe, delivered, context,
      kind, setting, config, configFile, live, afile, stale, setFaults, setRaced,
      remote, tree, binary, git, cargo, update, tmp, sentinel, due, down, crossed,
      server, called, signal, conn, inbox, taken, answered, sessions, published, cursor, joined, heard,
      hatching, tooled, identity, log, landing, lost, req, stage, recalled, rounds, text, sent, answer, cleared, failed>>

GuardsInit ==
    \/ part = "gate" /\ Gate!Init
    \/ part = "dev" /\ Dev!Init
    \/ part = "node" /\ Node!Init
    \/ part = "send" /\ Send!Init
    \/ part = "set" /\ Set!Init
    \/ part = "upd" /\ Upd!Init
    \/ part = "conn" /\ Conn!Init
    \/ part = "comp" /\ Comp!Init

GuardsNext ==
    /\ UNCHANGED part
    /\ \/ part = "gate" /\ Gate!Next
       \/ part = "dev" /\ Dev!Next
       \/ part = "node" /\ Node!Next
       \/ part = "send" /\ Send!Next
       \/ part = "set" /\ Set!Next
       \/ part = "upd" /\ Upd!Next
       \/ part = "conn" /\ Conn!Next
       \/ part = "comp" /\ Comp!Next

GuardsSpec == GuardsInit /\ [][GuardsNext]_guardVars

\* Whoever waits for a decision is only told one that somebody made, and a decision stays,
\* however expiry, deadlines and second decisions fall together.
DecisionsStand ==
    /\ (part = "gate" => Gate!DecisionsStand)

\* Once a call of device.pair.* or device.token.* has run alone, devices.json holds what the gateway
\* holds, whatever calls that overlapped, writes that failed and restarts have left there before;
\* as long as no calls have overlapped, a request that was announced stays until it is decided;
\* and no token has scopes that were not approved.
\* Only approved nodes are connected, a pending request can be decided, and the caller of
\* node.invoke is told only what the node it addressed has said.
PairingsHold ==
    /\ (part = "dev" =>
           /\ Dev!TypeOK
           /\ Dev!FileIsCurrent
           /\ Dev!RequestsSurvive
           /\ Dev!TokensWithinApproval)
    /\ (part = "node" =>
           /\ Node!TypeOK
           /\ Node!ConnectedIsApproved
           /\ Node!PendingCanBeDecided
           /\ Node!ToldWasReported)

\* The send call implements OnceByKey, where a send that failed is work given up (Send!Once!Spec,
\* spelled out for the behaviours of this part): no message is repeated unless the earlier
\* one was answered with an error.
ImplementsOnceByKey ==
    /\ [](part = "send" =>
           /\ Send!TypeOK
           /\ Send!RepeatedOnlyAfterError
           /\ Send!AnswersWereDelivered)
    /\ (part = "send" => Send!OnceInit)
    /\ [][part = "send" => Send!OnceStep]_guardVars

\* What a call has set stays set in memory, in the file and in the copies in use, through other
\* calls that overlap, failed writes and restarts, until a PUT /api/config/full overlaps another
\* call; approvals of a node are only overwritten by a client that has seen them, until two
\* calls that set them overlap.
\* The server ends only for an update that was pulled, built and noted.
SettingsAreKept ==
    /\ [](part = "set" =>
           /\ Set!TypeOK
           /\ Set!FileFollows
           /\ Set!ChangesAreKept
           /\ Set!CopiesAgree)
    /\ [][part = "set" => Set!OverwritesSeen("node")]_guardVars
    /\ [](part = "upd" =>
           /\ Upd!TypeOK
           /\ Upd!RestartIsEarned
           /\ Upd!NoteIsOfACall
           /\ Upd!RestartIsUpdated)

\* A websocket client is answered in order and hears the events in order, missing only what
\* the channel could not keep while a request was in hand.
\* What is stored of a chat completion is what its client was sent, each line once, also when
\* requests overlap, break off or time out; a line may land behind a later one or not at all, but
\* an answer that is given whole was handed to the file behind its question unless that failed.
ClientsAreServed ==
    /\ (part = "conn" => Conn!TypeOK /\ Conn!AnsweredInOrder /\ Conn!EventsAreKept)
    /\ (part = "comp" =>
           /\ Comp!TypeOK
           /\ Comp!StoredIsSent
           /\ Comp!AnsweredIsStored
           /\ Comp!BlankIsNotStored
           /\ Comp!RecalledIsSent)

\* A behaviour of the whole is one of its part.
LEMMA PartsAreTheirOwn ==
    /\ GuardsInit => /\ part = "gate" => Gate!Init
                     /\ part = "dev" => Dev!Init
                     /\ part = "node" => Node!Init
                     /\ part = "send" => Send!Init
                     /\ part = "set" => Set!Init
                     /\ part = "upd" => Upd!Init
                     /\ part = "conn" => Conn!Init
                     /\ part = "comp" => Comp!Init
    /\ [GuardsNext]_guardVars => /\ part' = part
                                 /\ part = "gate" => [Gate!Next]_(Gate!vars)
                                 /\ part = "dev" => [Dev!Next]_(Dev!vars)
                                 /\ part = "node" => [Node!Next]_(Node!vars)
                                 /\ part = "send" => [Send!Next]_(Send!vars)
                                 /\ part = "set" => [Set!Next]_(Set!vars)
                                 /\ part = "upd" => [Upd!Next]_(Upd!vars)
                                 /\ part = "conn" => [Conn!Next]_(Conn!vars)
                                 /\ part = "comp" => [Comp!Next]_(Comp!vars)
  <1>1. CASE UNCHANGED guardVars
    BY <1>1 DEF guardVars, GuardsInit, Gate!vars, Dev!vars, Node!vars, Send!vars, Set!vars, Upd!vars, Conn!vars, Comp!vars
  <1>2. CASE GuardsNext
    BY <1>2 DEF GuardsNext, GuardsInit
  <1>3. CASE ~[GuardsNext]_guardVars
    BY <1>3 DEF GuardsInit
  <1> QED BY <1>1, <1>2, <1>3

\* The decisions of the gate stand, whatever the number of requests and of those who wait.
THEOREM DecisionsAreSafe == ASSUME NoneIsNothing PROVE GuardsSpec => []DecisionsStand
  <1> DEFINE Here == part = "gate"
  <1>1. GuardsInit => (Here => Gate!Init)
    BY PartsAreTheirOwn
  <1>2. [GuardsNext]_guardVars => (Here' <=> Here) /\ (Here => [Gate!Next]_(Gate!vars))
    BY PartsAreTheirOwn
  <1>3. Gate!Spec => []Gate!DecisionsStand
    BY DecisionsHold
  <1>4. (Here => Gate!DecisionsStand) => DecisionsStand
    BY DEF DecisionsStand
  <1> HIDE DEF Here
  <1> QED BY <1>1, <1>2, <1>3, <1>4, PTL DEF GuardsSpec, Gate!Spec

\* The pairings of devices and of nodes hold, whatever their number and that of the calls,
\* restarts and failed writes.
THEOREM PairingsAreSafe ==
    ASSUME DeviceConstants, PairingConstants PROVE GuardsSpec => []PairingsHold
  <1> DEFINE OfDevices == part = "dev"
             OfNodes == part = "node"
  <1>1. GuardsInit => (OfDevices => Dev!Init) /\ (OfNodes => Node!Init)
    BY PartsAreTheirOwn
  <1>2. [GuardsNext]_guardVars => /\ OfDevices' <=> OfDevices
                                  /\ OfDevices => [Dev!Next]_(Dev!vars)
                                  /\ OfNodes' <=> OfNodes
                                  /\ OfNodes => [Node!Next]_(Node!vars)
    BY PartsAreTheirOwn
  <1>3. (Dev!Spec => []DevicesHold) /\ (Node!Spec => []NodesHold)
    BY DevicesArePaired, NodesArePaired
  <1>4. (OfDevices => DevicesHold) /\ (OfNodes => NodesHold) => PairingsHold
    BY DEF PairingsHold, DevicesHold, NodesHold
  <1> HIDE DEF OfDevices, OfNodes
  <1> QED BY <1>1, <1>2, <1>3, <1>4, PTL DEF GuardsSpec, Dev!Spec, Node!Spec

\* The send call keeps the promise of its keys, whatever the number of calls and keys.
THEOREM SendsKeepThePromise ==
    ASSUME Send!NamesAreDistinct PROVE GuardsSpec => ImplementsOnceByKey
  <1> DEFINE Here == part = "send"
             Safe == Send!TypeOK /\ Send!RepeatedOnlyAfterError /\ Send!AnswersWereDelivered
             Begun == part = "send" => Send!OnceInit
             Step == part = "send" => Send!OnceStep
  <1>1. GuardsInit => (Here => Send!Init)
    BY PartsAreTheirOwn
  <1>2. [GuardsNext]_guardVars => (Here' <=> Here) /\ (Here => [Send!Next]_(Send!vars))
    BY PartsAreTheirOwn
  <1>3. Send!Spec => []Safe
    BY Send!NoMessageIsRepeated
  <1>4. (Here => Send!OnceInit) => Begun
    OBVIOUS
  <1>5. Send!Init => Send!OnceInit /\ Send!SendInv
    BY Send!OnceBegins
  <1>6. Send!SendInv /\ [Send!Next]_(Send!vars) => Send!SendInv' /\ Send!OnceStep
    BY Send!OnceGoesOn
  <1>7. (Here => Send!OnceStep) => Step
    OBVIOUS
  <1>8. (part = "send" => Safe) <=> (Here => Safe)
    OBVIOUS
  <1> HIDE DEF Here, Safe, Begun, Step
  <1> QED BY <1>1, <1>2, <1>3, <1>4, <1>5, <1>6, <1>7, <1>8, PTL DEF GuardsSpec, Send!Spec, ImplementsOnceByKey, Begun, Step, Safe, Here

\* Settings stay as they were set, with the two exceptions of SettingsAreKept, and the server
\* ends only for a finished update, whatever the number of clients, calls, failed writes and
\* restarts and however calls overlap.
THEOREM SettingsAreSafe ==
    ASSUME SettingsConstants, UpdateConstants PROVE GuardsSpec => SettingsAreKept
  <1> DEFINE OfSettings == part = "set"
             OfUpdates == part = "upd"
             Seen == Set!OverwritesSeen("node")
             Kept == OfSettings => Seen
  <1>1. GuardsInit => (OfSettings => Set!Init) /\ (OfUpdates => Upd!Init)
    BY PartsAreTheirOwn
  <1>2. [GuardsNext]_guardVars => /\ OfSettings' <=> OfSettings
                                  /\ OfSettings => [Set!Next]_(Set!vars)
                                  /\ OfUpdates' <=> OfUpdates
                                  /\ OfUpdates => [Upd!Next]_(Upd!vars)
    BY PartsAreTheirOwn
  <1>3. /\ Set!Spec => []SettingsHold /\ [][Seen]_(Set!vars)
        /\ Upd!Spec => []UpdatesHold
    BY SettingsStay, UpdatesAreHonest
  <1>4. [Seen]_(Set!vars) /\ OfSettings => Kept
    BY DEF Set!OverwritesSeen, Set!vars
  <1>5. /\ (OfSettings => SettingsHold) <=>
              (part = "set" => Set!TypeOK /\ Set!FileFollows /\ Set!ChangesAreKept /\ Set!CopiesAgree)
        /\ (OfUpdates => UpdatesHold) <=>
              (part = "upd" => /\ Upd!TypeOK /\ Upd!RestartIsEarned /\ Upd!NoteIsOfACall
                               /\ Upd!RestartIsUpdated)
    BY DEF SettingsHold, UpdatesHold
  <1> HIDE DEF OfSettings, OfUpdates, Seen
  <1> QED BY <1>1, <1>2, <1>3, <1>4, <1>5, PTL DEF GuardsSpec, Set!Spec, Upd!Spec, SettingsAreKept, Kept, Seen, OfSettings

\* The clients are served and what is stored is what they were sent, whatever the number of
\* connections, events and requests.
THEOREM ClientsAreSafe ==
    ASSUME ConnectionConstants, CompletionConstants PROVE GuardsSpec => []ClientsAreServed
  <1> DEFINE OfConnections == part = "conn"
             OfCompletions == part = "comp"
  <1>1. GuardsInit => (OfConnections => Conn!Init) /\ (OfCompletions => Comp!Init)
    BY PartsAreTheirOwn
  <1>2. [GuardsNext]_guardVars => /\ OfConnections' <=> OfConnections
                                  /\ OfConnections => [Conn!Next]_(Conn!vars)
                                  /\ OfCompletions' <=> OfCompletions
                                  /\ OfCompletions => [Comp!Next]_(Comp!vars)
    BY PartsAreTheirOwn
  <1>3. (Conn!Spec => []ConnectionsHold) /\ (Comp!Spec => []CompletionsHold)
    BY ConnectionsAreServed, CompletionsAreStored
  <1>4. (OfConnections => ConnectionsHold) /\ (OfCompletions => CompletionsHold) => ClientsAreServed
    BY DEF ClientsAreServed, ConnectionsHold, CompletionsHold
  <1> HIDE DEF OfConnections, OfCompletions
  <1> QED BY <1>1, <1>2, <1>3, <1>4, PTL DEF GuardsSpec, Conn!Spec, Comp!Spec
=============================================================================
