--------------------------- MODULE FeishuSocket ---------------------------
(* Messages from Feishu (crates/cli/src/main.rs, feishu_ws_loop and             *)
(* feishu_on_message_receive): a websocket that is opened again whenever it    *)
(* breaks, events that may come in several parts, an answer to the service per *)
(* event, and a task of its own for every event.  The service sends an event   *)
(* again as long as it has no answer.                                          *)
EXTENDS Naturals, Sequences, FiniteSets

CONSTANTS Events,       \* events of users
          Parts,        \* number of parts of an event
          KindOf,       \* "message", "joined" (the bot was added to a chat) or "other"
          MaxSends,     \* bound: how often the service sends an event
          MaxBreaks     \* bound: how often the connection breaks

VARIABLES link,        \* "down", "endpoint" or "up"
          sends,       \* how often the service began to send an event
          wire,        \* parts on their way on this connection: <<event, part>>
          cache,       \* combine_cache: parts of an event that have come
          outbox,      \* answers queued for the writer task
          acked,       \* events the service has an answer for
          whole,       \* how often an event was put together and handed to a task
          task,        \* tasks by number: where each is
          chat,        \* what a task wrote to the chat, in order
          breaks

vars == <<link, sends, wire, cache, outbox, acked, whole, task, chat, breaks>>

Tasks == Events \X (1..MaxSends + 1)

Init ==
    /\ link = "down" /\ wire = <<>> /\ outbox = <<>> /\ breaks = 0
    /\ sends = [e \in Events |-> 0]
    /\ cache = [e \in Events |-> {}]
    /\ acked = {}
    /\ chat = [t \in Tasks |-> <<>>]
    /\ whole = [e \in Events |-> 0]
    /\ task = [t \in Tasks |-> "none"]

-----------------------------------------------------------------------------
\* feishu_get_ws_endpoint and connect_async; each may fail and is tried again after 5 seconds.
GetEndpoint ==
    /\ link = "down" /\ link' = "endpoint"
    /\ UNCHANGED <<sends, wire, cache, outbox, acked, whole, task, chat, breaks>>

\* A new connection has a cache and a writer of its own.
Connect ==
    /\ link = "endpoint" /\ link' = "up"
    /\ cache' = [e \in Events |-> {}] /\ outbox' = <<>>
    /\ UNCHANGED <<sends, wire, acked, whole, task, chat, breaks>>

ConnectFails ==
    /\ link = "endpoint" /\ breaks < MaxBreaks
    /\ link' = "down" /\ breaks' = breaks + 1
    /\ UNCHANGED <<sends, wire, cache, outbox, acked, whole, task, chat>>

\* A read error or a close frame: parts and answers on their way are lost.
Disconnect ==
    /\ link = "up" /\ breaks < MaxBreaks
    /\ link' = "down" /\ breaks' = breaks + 1
    /\ wire' = <<>> /\ outbox' = <<>>
    /\ UNCHANGED <<sends, cache, acked, whole, task, chat>>

\* The service sends all parts of an event that has no answer yet.
ServiceSends(e) ==
    /\ link = "up" /\ e \notin acked /\ sends[e] < MaxSends + breaks
    /\ sends' = [sends EXCEPT ![e] = @ + 1]
    /\ wire' = wire \o [k \in 1..Parts[e] |-> <<e, k>>]
    /\ UNCHANGED <<link, cache, outbox, acked, whole, task, chat, breaks>>

\* The writer task: the answer reaches the service.
WriterSends ==
    /\ link = "up" /\ outbox # <<>>
    /\ acked' = acked \cup {Head(outbox)}
    /\ outbox' = Tail(outbox)
    /\ UNCHANGED <<link, sends, wire, cache, whole, task, chat, breaks>>

-----------------------------------------------------------------------------
\* A part is not the last one missing: it is kept.
KeepPart ==
    LET e == Head(wire)[1]
        k == Head(wire)[2] IN
    /\ link = "up" /\ wire # <<>> /\ cache[e] \cup {k} # 1..Parts[e]
    /\ wire' = Tail(wire)
    /\ cache' = [cache EXCEPT ![e] = @ \cup {k}]
    /\ UNCHANGED <<link, sends, outbox, acked, whole, task, chat, breaks>>

\* feishu_handle_event: only messages are replied to; a chat the bot was added to gets a
\* greeting, the others are logged.
FirstStep(e) == IF KindOf[e] = "message" THEN "begun" ELSE "done"
Greeting(e) == IF KindOf[e] = "joined" THEN <<"hello">> ELSE <<>>

\* The parts stay in the cache.
CombineKeepsParts ==
    LET e == Head(wire)[1] IN
    /\ link = "up" /\ wire # <<>> /\ cache[e] \cup {Head(wire)[2]} = 1..Parts[e]
    /\ wire' = Tail(wire)
    /\ cache' = [cache EXCEPT ![e] = 1..Parts[e]]
    /\ outbox' = Append(outbox, e)
    /\ whole' = [whole EXCEPT ![e] = @ + 1]
    /\ task' = [task EXCEPT ![<<e, whole[e] + 1>>] = FirstStep(e)]
    /\ chat' = [chat EXCEPT ![<<e, whole[e] + 1>>] = Greeting(e)]
    /\ UNCHANGED <<link, sends, acked, breaks>>

\* The event is whole: it is answered, and handed to a task.
Combine ==
    LET e == Head(wire)[1] IN
    /\ link = "up" /\ wire # <<>> /\ cache[e] \cup {Head(wire)[2]} = 1..Parts[e]
    /\ wire' = Tail(wire)
    /\ cache' = [cache EXCEPT ![e] = {}]
    /\ outbox' = Append(outbox, e)
    /\ whole' = [whole EXCEPT ![e] = @ + 1]
    /\ task' = [task EXCEPT ![<<e, whole[e] + 1>>] = FirstStep(e)]
    /\ chat' = [chat EXCEPT ![<<e, whole[e] + 1>>] = Greeting(e)]
    /\ UNCHANGED <<link, sends, acked, breaks>>

-----------------------------------------------------------------------------
Goes(t, p) == task' = [task EXCEPT ![t] = p]
Writes(t, what) == chat' = [chat EXCEPT ![t] = Append(@, what)]

\* feishu_on_message_receive: the placeholder may fail, then the reply is a message of its own.
Placeholder(t, ok) ==
    /\ task[t] = "begun"
    /\ IF ok THEN Goes(t, "placed") /\ Writes(t, "thinking") ELSE Goes(t, "bare") /\ UNCHANGED chat
    /\ UNCHANGED <<link, sends, wire, cache, outbox, acked, whole, breaks>>

\* The error of the agent ends the task there and then.
AgentFails(t) ==
    /\ task[t] \in {"placed", "bare"} /\ Goes(t, "failed")
    /\ UNCHANGED <<link, sends, wire, cache, outbox, acked, whole, chat, breaks>>

Reply(t, ok) ==
    /\ task[t] \in {"placed", "bare"} /\ Goes(t, IF ok THEN "done" ELSE "failed")
    /\ IF ok THEN Writes(t, IF task[t] = "placed" THEN "update" ELSE "reply") ELSE UNCHANGED chat
    /\ UNCHANGED <<link, sends, wire, cache, outbox, acked, whole, breaks>>

Socket == GetEndpoint \/ Connect \/ KeepPart \/ Combine \/ WriterSends
Works(t) == (\E ok \in BOOLEAN : Placeholder(t, ok) \/ Reply(t, ok)) \/ AgentFails(t)

Next ==
    \/ Socket \/ ConnectFails \/ Disconnect
    \/ \E e \in Events : ServiceSends(e)
    \/ \E t \in Tasks : Works(t)

Spec == Init /\ [][Next]_vars

-----------------------------------------------------------------------------
TypeOK ==
    /\ link \in {"down", "endpoint", "up"} /\ acked \subseteq Events
    /\ \A e \in Events : cache[e] \subseteq 1..Parts[e] /\ whole[e] <= sends[e]
    /\ task \in [Tasks -> {"none", "begun", "placed", "bare", "done", "failed"}]

\* An event the service has an answer for was handed to a task, and never more often than
\* the service has sent it, however parts and answers were lost: what stays in the cache
\* from an event that broke off makes no second one.
AckedWasHandled ==
    /\ \A e \in acked : whole[e] > 0
    /\ \A e \in Events : whole[e] <= sends[e] /\ (whole[e] > 1 => breaks > 0 \/ sends[e] > 1)

\* A task writes its placeholder once and replaces it once, and never replaces what it has
\* not written; a placeholder is left only by a task that failed.
OneReplyPerTask ==
    \A t \in Tasks :
        /\ chat[t] \in {<<>>, <<"hello">>, <<"thinking">>, <<"thinking", "update">>, <<"reply">>}
        /\ task[t] = "done" => chat[t] # <<"thinking">>
=============================================================================
