---------------------------- MODULE NodePairing -----------------------------
(* Pairing of nodes and the commands sent to them (node.* in                 *)
(* crates/gateway-core/src/http.rs, with the request store of                *)
(* crates/pairing/src/store.rs).  The store, the records, their index by     *)
(* node and the set of connected nodes have a lock each, and a call takes    *)
(* them one after the other.                                                 *)
EXTENDS Naturals, FiniteSets

CONSTANTS
    Requests,    \* ids of pairing requests, each created by one node.pair.request call
    Nodes, NodeOf,
    Invokes,     \* node.invoke calls
    InvokedOn,   \* the node each is for
    MaxPending,  \* the store's limit
    None

VARIABLES
    store,      \* PairingStore.requests: "absent", "pending" or "approved"
    old,        \* requests older than the time to live
    pairs,      \* node_pairs: "absent", "pending" or "approved"
    index,      \* node_pair_index
    connected,  \* node_connected
    asking,     \* the node.pair.request call that creates each request
    found,      \* the request that call has found in the index
    approving,  \* approvals between the store and the record
    rejecting,  \* where a rejection is
    verifying,  \* the request each node.pair.verify has found
    invoke,     \* each node.invoke: where it is, the record's status, what it was told
    reported    \* history: the results its own node has sent for each

vars == <<store, old, pairs, index, connected, asking, found, approving, rejecting, verifying, invoke, reported>>
invokeVars == <<invoke, reported>>

Results == {"ok", "error"}

Init ==
    /\ store = [r \in Requests |-> "absent"] /\ old = {}
    /\ pairs = store /\ index = [n \in Nodes |-> None] /\ connected = {}
    /\ asking = [r \in Requests |-> "new"] /\ found = [r \in Requests |-> None]
    /\ approving = {} /\ rejecting = [r \in Requests |-> "no"]
    /\ verifying = [n \in Nodes |-> None]
    /\ invoke = [i \in Invokes |-> [at |-> "new", status |-> "absent", told |-> None]]
    /\ reported = [i \in Invokes |-> {}]

-----------------------------------------------------------------------------
(* rpc_node_pair_request.                                                   *)

Asking(r, at) == asking' = [asking EXCEPT ![r] = at]

\* The index, then the record it names: a pending one is the answer.
LookUpIndex(r) ==
    /\ asking[r] = "new"
    /\ found' = [found EXCEPT ![r] = index[NodeOf[r]]]
    /\ Asking(r, IF index[NodeOf[r]] = None THEN "create" ELSE "found")
    /\ UNCHANGED <<store, old, pairs, index, connected, approving, rejecting, verifying, invokeVars>>

LookUpRecord(r) ==
    /\ asking[r] = "found"
    /\ Asking(r, IF pairs[found[r]] = "pending" THEN "answered" ELSE "create")
    /\ found' = [found EXCEPT ![r] = None]
    /\ UNCHANGED <<store, old, pairs, index, connected, approving, rejecting, verifying, invokeVars>>

\* cleanup_expired.
Kept == [r \in Requests |-> IF store[r] = "pending" /\ r \in old THEN "absent" ELSE store[r]]

\* Mutant: the limit counts the requests of every kind but this one.
CreateRequestUnlimited(r) ==
    /\ asking[r] = "create"
    /\ store' = [Kept EXCEPT ![r] = "pending"] /\ Asking(r, "record")
    /\ UNCHANGED <<old, pairs, index, connected, approving, rejecting, verifying, found, invokeVars>>

CreateRequest(r) ==
    /\ asking[r] = "create"
    /\ IF Cardinality({q \in Requests : Kept[q] = "pending"}) >= MaxPending
       THEN store' = Kept /\ Asking(r, "answered")
       ELSE store' = [Kept EXCEPT ![r] = "pending"] /\ Asking(r, "record")
    /\ UNCHANGED <<old, pairs, index, connected, approving, rejecting, verifying, found, invokeVars>>

InsertRecord(r) ==
    /\ asking[r] = "record"
    /\ pairs' = [pairs EXCEPT ![r] = "pending"] /\ Asking(r, "index")
    /\ UNCHANGED <<store, old, index, connected, approving, rejecting, verifying, found, invokeVars>>

InsertIndex(r) ==
    /\ asking[r] = "index"
    /\ index' = [index EXCEPT ![NodeOf[r]] = r] /\ Asking(r, "answered")
    /\ UNCHANGED <<store, old, pairs, connected, approving, rejecting, verifying, found, invokeVars>>

\* An hour passes.
Expire(r) ==
    /\ store[r] # "absent" /\ r \notin old /\ old' = old \cup {r}
    /\ UNCHANGED <<store, pairs, index, connected, asking, approving, rejecting, verifying, found, invokeVars>>

-----------------------------------------------------------------------------
\* The id of a request is known once it is listed or answered.
Known(r) == asking[r] \in {"index", "answered"}

\* rpc_node_pair_approve: the store, which does not look at the age, then the record.
ApproveInStore(r) ==
    /\ Known(r) /\ store[r] # "absent" /\ r \notin approving
    /\ store' = [store EXCEPT ![r] = "approved"] /\ approving' = approving \cup {r}
    /\ UNCHANGED <<old, pairs, index, connected, asking, rejecting, verifying, found, invokeVars>>

ApproveRecord(r) ==
    /\ r \in approving /\ approving' = approving \ {r}
    /\ pairs' = IF pairs[r] = "absent" THEN pairs ELSE [pairs EXCEPT ![r] = "approved"]
    /\ UNCHANGED <<store, old, index, connected, asking, rejecting, verifying, found, invokeVars>>

\* rpc_node_pair_reject: the store, the record, the index of the node, its connection.
Rejecting(r, at) == rejecting' = [rejecting EXCEPT ![r] = at]

RejectInStore(r) ==
    /\ Known(r) /\ store[r] # "absent" /\ rejecting[r] = "no"
    /\ store' = [store EXCEPT ![r] = "absent"] /\ Rejecting(r, "record")
    /\ UNCHANGED <<old, pairs, index, connected, asking, approving, verifying, found, invokeVars>>

\* Mutant: the record of a request that was not approved is left.
RejectRecordApproved(r) ==
    /\ rejecting[r] = "record"
    /\ pairs' = IF pairs[r] = "approved" THEN [pairs EXCEPT ![r] = "absent"] ELSE pairs
    /\ Rejecting(r, IF pairs[r] = "absent" THEN "no" ELSE "index")
    /\ UNCHANGED <<store, old, index, connected, asking, approving, verifying, found, invokeVars>>

RejectRecord(r) ==
    /\ rejecting[r] = "record"
    /\ pairs' = [pairs EXCEPT ![r] = "absent"]
    /\ Rejecting(r, IF pairs[r] = "absent" THEN "no" ELSE "index")
    /\ UNCHANGED <<store, old, index, connected, asking, approving, verifying, found, invokeVars>>

RejectIndex(r) ==
    /\ rejecting[r] = "index"
    /\ index' = [index EXCEPT ![NodeOf[r]] = None] /\ Rejecting(r, "connected")
    /\ UNCHANGED <<store, old, pairs, connected, asking, approving, verifying, found, invokeVars>>

RejectConnection(r) ==
    /\ rejecting[r] = "connected"
    /\ connected' = connected \ {NodeOf[r]} /\ Rejecting(r, "no")
    /\ UNCHANGED <<store, old, pairs, index, asking, approving, verifying, found, invokeVars>>

\* rpc_node_pair_verify with the right token: the index, then the record, whose lock is held
\* while the node is connected.
VerifyIndex(n) ==
    /\ verifying[n] = None /\ index[n] # None
    /\ verifying' = [verifying EXCEPT ![n] = index[n]]
    /\ UNCHANGED <<store, old, pairs, index, connected, asking, approving, rejecting, found, invokeVars>>

\* Mutant: a record in any state will do.
VerifyRecordUnapproved(n) ==
    /\ verifying[n] # None /\ verifying' = [verifying EXCEPT ![n] = None]
    /\ connected' = IF pairs[verifying[n]] # "absent" THEN connected \cup {n} ELSE connected
    /\ UNCHANGED <<store, old, pairs, index, asking, approving, rejecting, found, invokeVars>>

VerifyRecord(n) ==
    /\ verifying[n] # None /\ verifying' = [verifying EXCEPT ![n] = None]
    /\ connected' = IF pairs[verifying[n]] = "approved" THEN connected \cup {n} ELSE connected
    /\ UNCHANGED <<store, old, pairs, index, asking, approving, rejecting, found, invokeVars>>

-----------------------------------------------------------------------------
(* rpc_node_invoke, rpc_node_invoke_result.                                 *)

pairVars == <<store, old, pairs, index, connected, asking, found, approving, rejecting, verifying>>

CheckConnected(i) ==
    /\ invoke[i].at = "new" /\ InvokedOn[i] \in connected
    /\ invoke' = [invoke EXCEPT ![i].at = "checked"]
    /\ UNCHANGED <<pairVars, reported>>

InsertInvocation(i) ==
    /\ invoke[i].at = "checked"
    /\ invoke' = [invoke EXCEPT ![i].at = "polling", ![i].status = "pending"]
    /\ UNCHANGED <<pairVars, reported>>

\* Mutant: whose result it is is not looked at.
InvokeResultOfAny(i, n, s) ==
    /\ invoke[i].status # "absent"
    /\ invoke' = [invoke EXCEPT ![i].status = s]
    /\ reported' = [reported EXCEPT ![i] = @ \cup (IF n = InvokedOn[i] THEN {s} ELSE {})]
    /\ UNCHANGED pairVars

\* A result of node n, the first or a later one: refused when the command was for another
\* node, and taken although the caller may be gone.
InvokeResult(i, n, s) ==
    /\ invoke[i].status # "absent" /\ InvokedOn[i] = n
    /\ invoke' = [invoke EXCEPT ![i].status = s]
    /\ reported' = [reported EXCEPT ![i] = @ \cup {s}]
    /\ UNCHANGED pairVars

\* A poll that finds a result.
InvokeReturns(i) ==
    /\ invoke[i].at = "polling" /\ invoke[i].status \in Results
    /\ invoke' = [invoke EXCEPT ![i].at = "done", ![i].told = invoke[i].status]
    /\ UNCHANGED <<pairVars, reported>>

InvokeTimesOut(i) ==
    /\ invoke[i].at = "polling" /\ invoke[i].status = "pending"
    /\ invoke' = [invoke EXCEPT ![i].at = "done", ![i].told = "timeout"]
    /\ UNCHANGED <<pairVars, reported>>

-----------------------------------------------------------------------------
Next ==
    \/ \E r \in Requests :
          \/ LookUpIndex(r) \/ LookUpRecord(r) \/ CreateRequest(r) \/ InsertRecord(r) \/ InsertIndex(r) \/ Expire(r)
          \/ ApproveInStore(r) \/ ApproveRecord(r)
          \/ RejectInStore(r) \/ RejectRecord(r) \/ RejectIndex(r) \/ RejectConnection(r)
    \/ \E n \in Nodes : VerifyIndex(n) \/ VerifyRecord(n)
    \/ \E i \in Invokes :
          \/ CheckConnected(i) \/ InsertInvocation(i) \/ InvokeReturns(i) \/ InvokeTimesOut(i)
          \/ \E n \in Nodes, s \in Results : InvokeResult(i, n, s)

Spec == Init /\ [][Next]_vars

-----------------------------------------------------------------------------
States == {"absent", "pending", "approved"}

TypeOK ==
    /\ store \in [Requests -> States] /\ pairs \in [Requests -> States]
    /\ Cardinality({r \in Requests : store[r] = "pending"}) <= MaxPending
    /\ index \in [Nodes -> Requests \cup {None}] /\ connected \subseteq Nodes
    /\ asking \in [Requests -> {"new", "found", "create", "record", "index", "answered"}]
    /\ rejecting \in [Requests -> {"no", "record", "index", "connected"}]

\* A node is only connected while a pairing of it is approved, except that a rejection in
\* progress still has to disconnect it: a verification that overlaps the rejection, or the
\* repair of an older pairing, does not leave a rejected node connected.
ConnectedIsApproved ==
    \A n \in connected : \E r \in Requests :
        NodeOf[r] = n /\ (pairs[r] = "approved" \/ rejecting[r] \in {"index", "connected"})

\* A record that is listed as pending can still be approved or rejected, unless a rejection
\* of it is in progress or it has expired.
PendingCanBeDecided ==
    \A r \in Requests : pairs[r] = "pending" => store[r] # "absent" \/ rejecting[r] = "record" \/ r \in old

\* The caller of node.invoke is told ok or error only when the node it addressed has said
\* so, whatever other nodes send and however late.
ToldWasReported == \A i \in Invokes : invoke[i].told \in Results => invoke[i].told \in reported[i]
=============================================================================
