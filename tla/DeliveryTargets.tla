-------------------------- MODULE DeliveryTargets --------------------------
(* Where the end of a subagent is announced (resolve_subagent_completion_    *)
(* target in crates/gateway-core/src/http/agent_bridge.rs): sessions remember *)
(* the conversation of their last delivery in metadata fields that are       *)
(* written and read one by one, a subagent may be bound to a conversation,   *)
(* and a hook may have the last word.  Choosing among several bindings is in *)
(* Bindings; here a session has at most one.                                 *)
EXTENDS Naturals, FiniteSets

CONSTANTS
    Children,     \* subagent sessions
    Main,         \* the session that started them
    Deliveries,   \* conversations: [channel, to, account, thread], the last two may be None
    Keys,         \* the parts of the key of each session: [channel, kind, id, topic], or None
    HookReplies,  \* what the subagent_delivery_target hook may answer: conversations, or Blank
    Chats,        \* the channel of each address
    MaxSteps,     \* bound on deliveries, spawns and calls
    None

VARIABLES
    delivery,  \* the delivery.* fields of each session
    latest,    \* its last* fields
    binding,   \* the active binding of each session, or None
    target,    \* where the last completion went: [to, mode, hook, child], or None
    steps,     \* how many steps there were
    mixed      \* history: sessions focused with a channel or an address of their own, not both

vars == <<delivery, latest, binding, target, steps, mixed>>

Sessions == Children \cup {Main}

Fields == {"channel", "to", "account", "thread"}

Blank == [f \in Fields |-> None]

TypeOK ==
    /\ DOMAIN delivery = Sessions /\ DOMAIN latest = Sessions /\ DOMAIN binding = Sessions
    /\ \A s \in Sessions : DOMAIN delivery[s] = Fields /\ DOMAIN latest[s] = Fields
    /\ steps \in 0..MaxSteps
    /\ mixed \subseteq Sessions

\* A likely slip: only the address is written when the channel is already there.
OverAddress(fields, given) ==
    IF fields["channel"] # None THEN [fields EXCEPT !["to"] = given["to"]]
    ELSE [f \in Fields |-> IF given[f] = None THEN fields[f] ELSE given[f]]

\* Fields without a value are left as they are (build_session_delivery_fields).
Over(fields, given) == [f \in Fields |-> IF given[f] = None THEN fields[f] ELSE given[f]]

\* session_metadata_pick: each field by itself, from delivery.* or else from last*.
Pick(s) == [f \in Fields |-> IF delivery[s][f] = None THEN latest[s][f] ELSE delivery[s][f]]

Complete(fields) == fields["channel"] # None /\ fields["to"] # None

\* resolve_announce_target_from_key: only the key of a group or channel names a conversation.
KeyTarget(s) ==
    IF Keys[s] # None /\ Keys[s].kind \in {"group", "channel"}
    THEN [channel |-> Keys[s].channel, to |-> Keys[s].id, account |-> None, thread |-> Keys[s].topic]
    ELSE Blank

\* resolve_announce_target: the metadata of the session, or else what its key says.
AnnounceTarget(s) == IF Complete(Pick(s)) THEN Pick(s) ELSE KeyTarget(s)

Counted == steps < MaxSteps /\ steps' = steps + 1

-----------------------------------------------------------------------------
\* A reply or a send call reached conversation d (persist_session_delivery_context).
Deliver(s, d) ==
    /\ Counted
    /\ delivery' = [delivery EXCEPT ![s] = Over(@, d)]
    /\ latest' = [latest EXCEPT ![s] = Over(@, d)]
    /\ UNCHANGED <<binding, target, mixed>>

\* sessions_spawn with a thread: the subagent is bound to the conversation of its requester
\* or to the one the spawning hook names.
SpawnBound(c, named) ==
    LET to == IF named = None THEN AnnounceTarget(Main) ELSE named
    IN  /\ Counted
        /\ binding[c] = None /\ delivery[c] = Blank
        /\ Complete(to)
        /\ delivery' = [delivery EXCEPT ![c] = Over(@, to)]
        /\ binding' = [binding EXCEPT ![c] = to]
        /\ UNCHANGED <<latest, target, mixed>>

\* A session without a binding whose metadata name a conversation counts as bound to it
\* (parse_session_bindings_from_metadata).
BoundTarget(c) == IF binding[c] # None THEN binding[c] ELSE IF Complete(Pick(c)) THEN Pick(c) ELSE Blank

\* subagents_focus: what the call leaves out of channel and address is taken from the
\* requester, and with it the account and the thread.  (A second conversation for the same
\* subagent is in Bindings.)
FocusTarget(given) ==
    IF Complete(given) THEN given ELSE Over(AnnounceTarget(Main), given)

Focus(c, given) ==
    LET to == FocusTarget(given)
    IN  /\ Counted
        /\ BoundTarget(c) = Blank
        /\ Complete(to)
        /\ delivery' = [delivery EXCEPT ![c] = Over(@, to)]
        /\ binding' = [binding EXCEPT ![c] = to]
        /\ mixed' = IF (given["channel"] = None) # (given["to"] = None) THEN mixed \cup {c}
                    ELSE mixed \ {c}
        /\ UNCHANGED <<latest, target>>

\* The hook is shown the target so far; an answer that names no channel, no address or the
\* web chat is ignored (parse_subagent_delivery_target_from_hook).
HookTarget(reply) == IF reply["channel"] # "webchat" THEN reply ELSE Blank

CompletionTarget(c, reply) ==
    CASE Complete(HookTarget(reply)) -> [to |-> HookTarget(reply), mode |-> "hook"]
      [] ~Complete(HookTarget(reply)) /\ Complete(BoundTarget(c)) ->
            [to |-> BoundTarget(c), mode |-> "bound"]
      [] OTHER -> [to |-> AnnounceTarget(Main), mode |-> "fallback"]

Announce(c, reply) ==
    LET chosen == CompletionTarget(c, reply)
    IN  /\ Counted
        /\ target' = [to |-> chosen.to, mode |-> chosen.mode, child |-> c]
        /\ UNCHANGED <<delivery, latest, binding, mixed>>

-----------------------------------------------------------------------------
Init ==
    /\ delivery = [s \in Sessions |-> Blank]
    /\ latest = [s \in Sessions |-> Blank]
    /\ binding = [s \in Sessions |-> None]
    /\ target = None
    /\ steps = 0
    /\ mixed = {}

\* What a focus call may give: everything of a conversation, or only some of it.
Given == {[f \in Fields |-> IF f \in part THEN d[f] ELSE None] :
            d \in Deliveries, part \in {{}, {"channel"}, {"to"}, {"channel", "to"}, Fields}}

Next ==
    \/ \E s \in Sessions, d \in Deliveries : Deliver(s, d)
    \/ \E c \in Children, d \in Deliveries \cup {None} : SpawnBound(c, d)
    \/ \E c \in Children, g \in Given : Focus(c, g)
    \/ \E c \in Children, r \in HookReplies : Announce(c, r)

Spec == Init /\ [][Next]_vars

-----------------------------------------------------------------------------
Fits(t) == t["to"] # None => Chats[t["to"]] = t["channel"]

\* An announcement is addressed to a chat of the channel it is sent on, through every order
\* of deliveries, bindings and hooks, although its fields are kept and read one by one;
\* except when the agent focused the subagent with a channel or an address alone.
AnnouncedToAChat ==
    target # None /\ (target.mode = "bound" => target.child \notin mixed) => Fits(target.to)

\* The same without the exception.  It does not hold: the missing half is taken from the
\* requester's conversation, which may be on another channel (6231).
FocusedToAChat == target # None => Fits(target.to)

\* What the session remembers is a conversation of one channel, and the two copies of it
\* that deliveries write agree on channel and address for the requester.
RememberedIsOne ==
    /\ Fits(Pick(Main))
    /\ \A f \in {"channel", "to"} : delivery[Main][f] = latest[Main][f]

\* The thread belongs to the chat it is sent with.  It does not hold: a delivery without a
\* thread leaves the thread of an earlier one in place (3946).
ThreadFits(ThreadOf(_)) == target # None /\ target.to["thread"] # None =>
                               ThreadOf(target.to["thread"]) = target.to["to"]

\* A subagent that is bound is announced where it is bound, and only one that is not falls
\* back to its requester; an end that has a conversation anywhere is never announced nowhere.
NeverNowhere ==
    target # None /\ ~Complete(target.to) =>
        /\ target.mode = "fallback"
        /\ ~Complete(KeyTarget(Main))

=============================================================================
