---------------------------- MODULE SessionTools ----------------------------
(* The tools that work on other sessions (agent_bridge.rs).                  *)
(* Where the completion of a subagent is announced: the conversations bound  *)
(* to the child's session by subagents_focus and subagents_unfocus, kept as  *)
(* a list in the session's metadata, and the route picked from them.  A      *)
(* session without a list is bound to the conversation its last message went *)
(* to.                                                                       *)
(* Which sessions the tools may list, read and send to:                      *)
(* collect_tree_visible_keys walks the sessions spawned below the requester, *)
(* check_session_access applies the visibility setting and the policy for    *)
(* other agents.  This keeps no state, and is checked for every setting of   *)
(* a few sessions.                                                           *)
EXTENDS Naturals, Sequences, FiniteSets, SequencesExt

CONSTANTS
    Accounts, Ids,  \* a conversation is an id on an account; account "": none is given
    Callers,
    Nodes, Agents,  \* the sessions 1..n of a forest, and the agents they may belong to
    MaxCalls,       \* bound
    None

Convs == Accounts \X Ids

\* What a call may name: id 0 is a target without a conversation in it ("channel:").
Targets == Accounts \X ({0} \cup Ids)

VARIABLES
    list,       \* deliveryBindings, None: no such field
    delivery,   \* delivery.accountId and delivery.to
    call,       \* each caller: where it is, its conversations, the bindings it read
    wanted,     \* history: what the calls so far asked for
    stray,      \* history: bindings that carry the account of an earlier call
    raced,      \* history: the calls in progress have overlapped
    calls

vars == <<list, delivery, call, wanted, stray, raced, calls>>

Idle == [at |-> "idle", op |-> None, convs |-> {}, read |-> {}]

\* The conversations of a target.
Named(t) == IF t = None \/ t[2] = 0 THEN {} ELSE {t}

Init ==
    /\ list = None /\ delivery \in Convs \cup {None}
    /\ wanted = Named(delivery) /\ stray = {} /\ raced = FALSE
    /\ call = [c \in Callers |-> Idle] /\ calls = 0

\* Mutant: a list without active bindings counts as none.
ActiveOrLegacy ==
    IF list = None \/ (\A b \in list : ~b.active)
    THEN Named(delivery)
    ELSE {b.conv : b \in {x \in list : x.active}}

\* parse_session_bindings_from_metadata.
Active ==
    IF list = None THEN Named(delivery)
    ELSE {b.conv : b \in {x \in list : x.active}}

Busy(c) == \E d \in Callers \ {c} : call[d].at # "idle"

\* Nothing keeps two calls apart: the session manager is only locked for reading.
Begins(c) ==
    /\ call[c].at = "idle" /\ calls < MaxCalls /\ calls' = calls + 1
    /\ raced' = (raced \/ Busy(c))

\* The histories take the bindings as they are when the last of some calls that overlapped ends.
Ends(c) ==
    /\ call' = [call EXCEPT ![c] = Idle]
    /\ IF raced /\ ~Busy(c)
       THEN wanted' = Active' /\ stray' = {} /\ raced' = FALSE
       ELSE UNCHANGED <<wanted, stray, raced>>
    /\ UNCHANGED calls

\* The delivery fields after a call: the account is only written when one is given.
Redirected(t) == IF t[1] = "" /\ delivery # None THEN <<delivery[1], t[2]>> ELSE t

-----------------------------------------------------------------------------
\* subagents_focus: the delivery fields come first, and a session without a list then is
\* bound to what they say.  A target without a conversation gets no binding.
Focus(c, t) ==
    /\ Begins(c)
    /\ delivery' = Redirected(t)
    /\ call' = IF Named(t) = {} THEN call
               ELSE [call EXCEPT ![c] = [at |-> "read", op |-> "focus", convs |-> {t}, read |-> {}]]
    /\ wanted' = Named(t) \cup IF list = None THEN {} ELSE wanted
    /\ stray' = IF list = None THEN Named(Redirected(t)) \ {t} ELSE stray
    /\ UNCHANGED list

\* subagents_unfocus, of one binding or of all.
Unfocus(c, convs) ==
    /\ Begins(c)
    /\ call' = [call EXCEPT ![c] = [at |-> "read", op |-> "unfocus", convs |-> convs, read |-> {}]]
    /\ wanted' = wanted \ convs /\ stray' = stray \ convs
    /\ UNCHANGED <<list, delivery>>

\* read_session_bindings.
Read(c) ==
    /\ call[c].at = "read" /\ call' = [call EXCEPT ![c].at = "write", ![c].read = Active]
    /\ UNCHANGED <<list, delivery, wanted, stray, raced, calls>>

\* Mutant: the new binding replaces the others.
UpsertAlone(c) ==
    /\ call[c].at = "write" /\ call[c].op = "focus"
    /\ list' = {[conv |-> x, active |-> TRUE] : x \in call[c].convs}
    /\ UNCHANGED delivery
    /\ Ends(c)

\* upsert_session_binding.
Upsert(c) ==
    /\ call[c].at = "write" /\ call[c].op = "focus"
    /\ list' = {[conv |-> x, active |-> TRUE] : x \in call[c].read \cup call[c].convs}
    /\ UNCHANGED delivery
    /\ Ends(c)

\* Written only when a binding changed.
Deactivate(c) ==
    /\ call[c].at = "write" /\ call[c].op = "unfocus"
    /\ list' = IF call[c].read \cap call[c].convs = {} THEN list
               ELSE {[conv |-> x, active |-> x \notin call[c].convs] : x \in call[c].read}
    /\ UNCHANGED delivery
    /\ Ends(c)

\* persist_session_delivery_context, after a message to the session.
Delivered(c, t) ==
    /\ Begins(c)
    /\ delivery' = Redirected(t)
    /\ wanted' = IF list = None THEN Named(Redirected(t)) \cap {t} ELSE wanted
    /\ stray' = IF list = None THEN Named(Redirected(t)) \ {t} ELSE stray
    /\ UNCHANGED <<list, call>>

-----------------------------------------------------------------------------
Only(S) == IF Cardinality(S) = 1 THEN CHOOSE x \in S : TRUE ELSE None

\* Mutant: some binding on the requester's account will do.
RouteSome(r) ==
    LET near == {b \in Active : r # None /\ b[1] = r[1]}
    IN IF near = {} THEN Only(Active) ELSE IF r \in near THEN r ELSE CHOOSE b \in near : TRUE

\* resolve_bound_delivery_route_from_bindings, with fail_closed off as its caller does.
Route(r) ==
    LET near == {b \in Active : r # None /\ b[1] = r[1]}
    IN IF near = {} THEN Only(Active) ELSE IF r \in near THEN r ELSE Only(near)

-----------------------------------------------------------------------------
Next ==
    \E c \in Callers :
        \/ \E t \in Targets : Focus(c, t) \/ Delivered(c, t)
        \/ \E conv \in Convs : Unfocus(c, {conv})
        \/ Unfocus(c, Convs)
        \/ Read(c) \/ Upsert(c) \/ Deactivate(c)

Spec == Init /\ [][Next]_vars

-----------------------------------------------------------------------------
TypeOK == /\ list # None => \A b \in list : b.conv \in Convs /\ b.active \in BOOLEAN
          /\ delivery \in Targets \cup {None} /\ wanted \cup stray \subseteq Convs
          /\ raced \in BOOLEAN

\* Between calls that did not overlap the bindings in force are the ones that were asked
\* for: what was unfocused does not come back, neither from the list nor from the delivery
\* fields.  A call that names no account may leave one binding more, with the account of
\* the delivery fields, while there is no list.  Calls that overlap may lose or bring back a
\* binding, as read_session_bindings and write_session_bindings are two steps; those that
\* come after them then work on what is there.
BindingsMatchCalls ==
    ~raced /\ (\A c \in Callers : call[c].at = "idle") => Active = wanted \cup stray

Nearness(b, r) == IF r # None /\ b[1] = r[1] THEN 1 ELSE 0

\* A completion goes to the requester's own conversation if that is bound, and otherwise
\* to the one binding that is nearest; when two are equally near it goes to neither.
RouteIsNearest ==
    \A r \in Convs \cup {None} :
        LET b == Route(r)
        IN /\ r \in Active => b = r
           /\ b # None /\ b # r => b \in Active /\ \A x \in Active \ {b} : Nearness(x, r) < Nearness(b, r)
           /\ b = None => \A x \in Active : \E y \in Active \ {x} : Nearness(y, r) >= Nearness(x, r)

-----------------------------------------------------------------------------
(* Sessions are numbered in the order they were made: a session is spawned   *)
(* by an older one, which may be gone since.  A scene is what the tools find: *)
(* spawnedBy of each session (0: made by nobody), its agent, the sessions    *)
(* that list_sessions returns, the requester, and tools.agentToAgent with    *)
(* the agents its patterns match.                                            *)

Visibilities == {"self", "tree", "agent", "all"}

Scenes ==
    [spawnedBy : {f \in [Nodes -> {0} \cup Nodes] : \A s \in Nodes : f[s] < s},
     agent : [Nodes -> Agents], listed : SUBSET Nodes, requester : Nodes,
     a2a : [enabled : BOOLEAN, any : BOOLEAN, allow : SUBSET Agents]]

\* by_parent.
SpawnedBy(w, s) == {c \in w.listed : w.spawnedBy[c] = s}

\* collect_tree_visible_keys, from its stack and what it has found.
RECURSIVE Walk(_, _, _)
Walk(w, stack, out) ==
    IF stack = <<>> THEN out
    ELSE LET current == Last(stack)
             spawned == IF current \in out THEN {} ELSE SpawnedBy(w, current)
         IN  Walk(w, Front(stack) \o SetToSeq(spawned), out \cup {current})

TreeVisible(w) == Walk(w, <<w.requester>>, {})

\* is_a2a_allowed: an empty list of patterns allows every agent.
A2aAllowed(w, x, y) ==
    x = y \/ (w.a2a.enabled /\ (w.a2a.any \/ {x, y} \subseteq w.a2a.allow))

\* check_session_access.
Allowed(w, v, target) ==
    IF w.agent[target] # w.agent[w.requester]
    THEN v = "all" /\ w.a2a.enabled /\ A2aAllowed(w, w.agent[w.requester], w.agent[target])
    ELSE \/ v \in {"agent", "all"} \/ target = w.requester
         \/ v = "tree" /\ target \in TreeVisible(w)

\* The sessions from which the chain of spawners leads to the requester without a gap: a
\* session that is gone hides what was spawned below it.
Below(w) ==
    LET below[s \in Nodes] ==
            s = w.requester \/ (s \in w.listed /\ w.spawnedBy[s] # 0 /\ below[w.spawnedBy[s]])
    IN  {s \in Nodes : below[s]}

\* The walk of collect_tree_visible_keys finds exactly the sessions below the requester.
TreeIsExact == \A w \in Scenes : TreeVisible(w) = Below(w)

\* A wider visibility setting never hides what a narrower one shows, and without the
\* policy for other agents nothing of another agent is shown at all.
WiderShowsMore ==
    \A w \in Scenes, t \in Nodes :
        /\ Allowed(w, "self", t) => Allowed(w, "tree", t)
        /\ Allowed(w, "tree", t) => Allowed(w, "agent", t)
        /\ Allowed(w, "agent", t) => Allowed(w, "all", t)
        /\ Allowed(w, "agent", t) => w.agent[t] = w.agent[w.requester]
        /\ ~w.a2a.enabled =>
              \A v \in Visibilities : Allowed(w, v, t) => w.agent[t] = w.agent[w.requester]
=============================================================================
