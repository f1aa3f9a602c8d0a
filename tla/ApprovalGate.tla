---------------------------- MODULE ApprovalGate ----------------------------
(* Requests for the approval of a tool call (crates/tools-core/src/          *)
(* approval.rs) and the calls that make, decide and await them               *)
(* (crates/gateway-core/src/http.rs).                                        *)
EXTENDS Naturals, Sequences, SequencesExt, FiniteSetsExt

CONSTANTS
    Requests,    \* ids of requests
    Waiters,     \* exec.approval.waitDecision calls
    MaxResolves, \* bound: decisions made
    None

VARIABLES
    pending,   \* ApprovalGate.pending: the decision of each request in the list
    expired,   \* requests older than APPROVAL_TTL_MS
    waiter,    \* the request each waiter asks for, and what it was told
    decided,   \* history: the decisions made for each request, in order
    asked      \* history: requests ever made

vars == <<pending, expired, waiter, decided, asked>>

Final == {"approved", "denied"}

Init ==
    /\ pending = [r \in Requests |-> None] /\ expired = {}
    /\ waiter \in [Waiters -> {[id |-> r, told |-> None] : r \in Requests}]
    /\ decided = [r \in Requests |-> <<>>] /\ asked = {}

Made == MapThenSumSet(LAMBDA r : Len(decided[r]), Requests)

-----------------------------------------------------------------------------
\* request_approval, for exec.approval.request or a tool call of the agent.
RequestApproval(r) ==
    /\ r \notin asked /\ asked' = asked \cup {r}
    /\ pending' = [pending EXCEPT ![r] = "pending"]
    /\ UNCHANGED <<expired, waiter, decided>>

\* Five minutes pass.
Expire(r) ==
    /\ r \in asked \ expired /\ expired' = expired \cup {r}
    /\ UNCHANGED <<pending, waiter, decided, asked>>

\* Mutant: every old request goes.
EvictedAll == [r \in Requests |-> IF r \in expired THEN None ELSE pending[r]]

\* evict_expired_pending: old requests nobody has decided go.
Evicted == [r \in Requests |-> IF r \in expired /\ pending[r] = "pending" THEN None ELSE pending[r]]

\* exec.approvals.list and the pending page.
PendingRequests ==
    /\ Evicted # pending /\ pending' = Evicted
    /\ UNCHANGED <<expired, waiter, decided, asked>>

\* resolve: whoever decides last decides, and nothing is evicted before.
Resolve(r, d, list) ==
    /\ pending[r] # None /\ Made < MaxResolves
    /\ pending' = [list EXCEPT ![r] = IF list = Evicted /\ d = "pending" /\ r \in expired THEN None ELSE d]
    /\ decided' = [decided EXCEPT ![r] = Append(@, d)]
    /\ UNCHANGED <<expired, waiter, asked>>

\* The approve and reject routes.
ResolveByRoute(r, d) == Resolve(r, d, pending)

\* exec.approval.resolve, exec.approvals.approve and reject: the request is looked up again
\* for the answer, which evicts.
ResolveByRpc(r, d) == Resolve(r, d, Evicted)

\* Mutant: an undecided request is an answer too.
WaitDecisionAny(w) ==
    /\ waiter[w].told = None
    /\ waiter' = [waiter EXCEPT ![w].told = IF Evicted[waiter[w].id] = None THEN "notFound" ELSE Evicted[waiter[w].id]]
    /\ pending' = Evicted
    /\ UNCHANGED <<expired, decided, asked>>

\* What a poll finds.
Answer(r) == IF Evicted[r] = None THEN "notFound" ELSE Evicted[r]

\* Mutant: a waiter whose time is up is told no.
WaitTimesOutDenied(w) ==
    /\ waiter[w].told = None /\ Answer(waiter[w].id) = "pending"
    /\ waiter' = [waiter EXCEPT ![w].told = "denied"]
    /\ pending' = Evicted
    /\ UNCHANGED <<expired, decided, asked>>

\* rpc_exec_approval_wait_decision: a decision, or no such request.
WaitDecision(w) ==
    /\ waiter[w].told = None /\ Answer(waiter[w].id) # "pending"
    /\ waiter' = [waiter EXCEPT ![w].told = Answer(waiter[w].id)]
    /\ pending' = Evicted
    /\ UNCHANGED <<expired, decided, asked>>

WaitTimesOut(w) ==
    /\ waiter[w].told = None /\ Answer(waiter[w].id) = "pending"
    /\ waiter' = [waiter EXCEPT ![w].told = "timeout"]
    /\ pending' = Evicted
    /\ UNCHANGED <<expired, decided, asked>>

-----------------------------------------------------------------------------
Next ==
    \/ \E r \in Requests : \/ RequestApproval(r) \/ Expire(r)
                           \/ \E d \in Final : ResolveByRoute(r, d)
                           \/ \E d \in Final \cup {"pending"} : ResolveByRpc(r, d)
    \/ PendingRequests
    \/ \E w \in Waiters : WaitDecision(w) \/ WaitTimesOut(w)

Spec == Init /\ [][Next]_vars

-----------------------------------------------------------------------------
TypeOK ==
    /\ pending \in [Requests -> Final \cup {"pending", None}] /\ expired \subseteq asked
    /\ waiter \in [Waiters -> [id : Requests, told : Final \cup {"notFound", "timeout", None}]]
    /\ \A r \in Requests : pending[r] # None => r \in asked

\* A waiter is only told yes or no when somebody said so, however its last poll, its
\* deadline and the expiry of the request fall together.
ToldWasDecided == \A w \in Waiters : waiter[w].told \in Final => Contains(decided[waiter[w].id], waiter[w].told)

\* A decision is not lost: a request that was decided and not put back stays in the list
\* with the last decision made, however old it gets and whoever lists or waits.
DecisionsAreKept ==
    \A r \in Requests : decided[r] # <<>> /\ Last(decided[r]) \in Final => pending[r] = Last(decided[r])

\* Whoever waits for a decision is told one that was made, and a decision stays.
DecisionsStand == TypeOK /\ ToldWasDecided /\ DecisionsAreKept
=============================================================================
