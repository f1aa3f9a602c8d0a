--------------------------- MODULE Connections ---------------------------
(* Clients of the gateway: the websocket server with its shutdown            *)
(* (crates/gateway-core/src/server.rs) and the /ws route of the HTTP server, *)
(* which also hands on the events of a broadcast channel                     *)
(* (crates/gateway-core/src/http.rs, handle_ws).                             *)
EXTENDS Naturals, Sequences, SequencesExt

CONSTANTS Raw,         \* connections to the websocket server
          Routed,      \* connections to the /ws route
          Capacity,    \* of the broadcast channel of events
          MaxFrames,   \* bound: frames a client sends
          MaxEvents    \* bound: events published

Conns == Raw \cup Routed

VARIABLES server,      \* "up", "draining" or "down"
          called,      \* shutdown() has been called
          signal,      \* receivers of the shutdown channel with a signal to read
          conn,        \* where a connection is
          inbox,       \* frames of the client
          asked,       \* requests read, in order
          answered,    \* requests answered, in order
          sessions,    \* keys in the session manager
          published,   \* number of the last event
          next,        \* last event behind the cursor of a connection
          joined,      \* the cursor when the connection subscribed
          heard        \* events sent to the client

vars == <<server, called, signal, conn, inbox, asked, answered, sessions,
          published, next, joined, heard>>

clientVars == <<inbox, asked, answered, sessions>>
eventVars == <<published, next, joined, heard>>

Init ==
    /\ server = "up" /\ called = FALSE /\ signal = {}
    /\ conn = [c \in Conns |-> "none"]
    /\ inbox = [c \in Conns |-> <<>>]
    /\ asked = [c \in Conns |-> <<>>]
    /\ answered = [c \in Conns |-> <<>>]
    /\ sessions = {}
    /\ published = 0
    /\ next = [c \in Routed |-> 0]
    /\ joined = [c \in Routed |-> 0]
    /\ heard = [c \in Routed |-> <<>>]

Goes(c, p) == conn' = [conn EXCEPT ![c] = p]

-----------------------------------------------------------------------------
\* The accept loop of start(): a connection gets a task of its own.  It is accepted as long
\* as the loop has not taken the signal.
Accept(c) ==
    /\ c \in Raw /\ server = "up" /\ conn[c] = "none"
    /\ Goes(c, "handshake")
    /\ UNCHANGED <<server, called, signal, clientVars, eventVars>>

\* accept_async fails, or the hello cannot be sent: the task returns an error.
HandshakeFails(c) ==
    /\ conn[c] = "handshake"
    /\ Goes(c, "closed")
    /\ UNCHANGED <<server, called, signal, clientVars, eventVars>>

\* The hello is sent and only then does the connection subscribe to the shutdown signal.
Subscribe(c) ==
    /\ c \in Raw /\ conn[c] = "handshake"
    /\ Goes(c, "open")
    /\ UNCHANGED <<server, called, signal, clientVars, eventVars>>

\* handle_ws subscribes to the events and sends the hello.
Join(c) ==
    /\ c \in Routed /\ conn[c] = "none"
    /\ Goes(c, "open")
    /\ next' = [next EXCEPT ![c] = published]
    /\ joined' = [joined EXCEPT ![c] = published]
    /\ UNCHANGED <<server, called, signal, clientVars, published, heard>>

\* shutdown(): a signal for the accept loop and every connection subscribed by now.
Shutdown ==
    /\ ~called /\ called' = TRUE
    /\ signal' = {"server"} \cup {c \in Raw : conn[c] \in {"open", "busy"}}
    /\ UNCHANGED <<server, conn, clientVars, eventVars>>

ServerStops ==
    /\ server = "up" /\ "server" \in signal
    /\ server' = "draining" /\ signal' = signal \ {"server"}
    /\ UNCHANGED <<called, conn, clientVars, eventVars>>

ConnectionStops(c) ==
    /\ conn[c] = "open" /\ c \in signal
    /\ signal' = signal \ {c} /\ Goes(c, "closed")
    /\ UNCHANGED <<server, called, clientVars, eventVars>>

Open(c) == conn[c] \notin {"none", "closed"}

\* Every task has been joined.
Drained ==
    /\ server = "draining" /\ \A c \in Raw : ~Open(c)
    /\ server' = "down"
    /\ UNCHANGED <<called, signal, conn, clientVars, eventVars>>

\* The drain has no limit.
DrainForever ==
    /\ server = "draining" /\ \E c \in Raw : Open(c)
    /\ UNCHANGED vars

\* 30 seconds are over: the remaining tasks are aborted.
DrainTimeout ==
    /\ server = "draining" /\ \E c \in Raw : Open(c)
    /\ conn' = [c \in Conns |-> IF c \in Raw /\ Open(c) THEN "closed" ELSE conn[c]]
    /\ server' = "down"
    /\ UNCHANGED <<called, signal, clientVars, eventVars>>

-----------------------------------------------------------------------------
\* "create" and "ask" are requests, "note" any frame without an answer, "bad" a frame that
\* is too large or does not parse.
Kinds == {"create", "ask", "note", "bad", "close"}

ClientSends(c, k) ==
    /\ Open(c) /\ Len(asked[c]) + Len(inbox[c]) < MaxFrames
    /\ inbox' = [inbox EXCEPT ![c] = Append(@, k)]
    /\ UNCHANGED <<server, called, signal, conn, asked, answered, sessions, eventVars>>

\* handle_frame takes a request; nothing else happens on this connection until it returns.
TakeRequest(c) ==
    /\ conn[c] = "open" /\ inbox[c] # <<>> /\ Head(inbox[c]) \in {"create", "ask"}
    /\ inbox' = [inbox EXCEPT ![c] = Tail(@)]
    /\ asked' = [asked EXCEPT ![c] = Append(@, Head(inbox[c]))]
    /\ Goes(c, "busy")
    /\ UNCHANGED <<server, called, signal, answered, sessions, eventVars>>

\* The request is carried out and answered.
Respond(c) ==
    LET r == asked[c][Len(asked[c])] IN
    /\ conn[c] = "busy"
    /\ sessions' = IF r = "create" THEN sessions \cup {c} ELSE sessions
    /\ answered' = [answered EXCEPT ![c] = Append(@, r)]
    /\ Goes(c, "open")
    /\ UNCHANGED <<server, called, signal, inbox, asked, eventVars>>

\* The client is gone when the answer is written: the request was carried out all the same.
RespondFails(c) ==
    /\ conn[c] = "busy"
    /\ sessions' = IF asked[c][Len(asked[c])] = "create" THEN sessions \cup {c} ELSE sessions
    /\ Goes(c, "closed")
    /\ UNCHANGED <<server, called, signal, inbox, asked, answered, eventVars>>

Ignore(c) ==
    /\ conn[c] = "open" /\ inbox[c] # <<>> /\ Head(inbox[c]) = "note"
    /\ inbox' = [inbox EXCEPT ![c] = Tail(@)]
    /\ UNCHANGED <<server, called, signal, conn, asked, answered, sessions, eventVars>>

\* The task that sweeps the session manager every ten minutes.
CleanupStale(c) ==
    /\ server = "up" /\ ~called /\ c \in sessions
    /\ sessions' = sessions \ {c}
    /\ UNCHANGED <<server, called, signal, conn, inbox, asked, answered, eventVars>>

\* Too large, not a frame, closed by the client, or a broken stream.
HangUp(c) ==
    /\ conn[c] = "open" /\ inbox[c] # <<>> /\ Head(inbox[c]) \in {"bad", "close"}
    /\ Goes(c, "closed")
    /\ UNCHANGED <<server, called, signal, clientVars, eventVars>>

-----------------------------------------------------------------------------
Publish ==
    /\ published < MaxEvents /\ published' = published + 1
    /\ UNCHANGED <<server, called, signal, conn, clientVars, next, joined, heard>>

Behind(c) == published - next[c]

\* recv() gives the next event, which is written to the client.
Forward(c) ==
    /\ c \in Routed /\ conn[c] = "open" /\ Behind(c) \in 1..Capacity
    /\ heard' = [heard EXCEPT ![c] = Append(@, next[c] + 1)]
    /\ next' = [next EXCEPT ![c] = @ + 1]
    /\ UNCHANGED <<server, called, signal, conn, clientVars, published, joined>>

\* The client is gone when the event is written.
ForwardFails(c) ==
    /\ c \in Routed /\ conn[c] = "open" /\ Behind(c) \in 1..Capacity
    /\ Goes(c, "closed")
    /\ UNCHANGED <<server, called, signal, clientVars, eventVars>>

\* The loop goes on with the next event to come.
LagToTheEnd(c) ==
    /\ c \in Routed /\ conn[c] = "open" /\ Behind(c) > Capacity
    /\ next' = [next EXCEPT ![c] = published]
    /\ UNCHANGED <<server, called, signal, conn, clientVars, published, joined, heard>>

\* Lagged: the channel has dropped the oldest events, the loop goes on with the oldest one
\* it still holds.
Lag(c) ==
    /\ c \in Routed /\ conn[c] = "open" /\ Behind(c) > Capacity
    /\ next' = [next EXCEPT ![c] = published - Capacity]
    /\ UNCHANGED <<server, called, signal, conn, clientVars, published, joined, heard>>

-----------------------------------------------------------------------------
Works(c) ==
    \/ Subscribe(c) \/ HandshakeFails(c) \/ ConnectionStops(c)
    \/ TakeRequest(c) \/ Respond(c) \/ RespondFails(c) \/ Ignore(c) \/ HangUp(c)

Feeds(c) == Forward(c) \/ ForwardFails(c) \/ Lag(c)

Stops == ServerStops \/ Drained \/ DrainTimeout

Next ==
    \/ \E c \in Conns : Accept(c) \/ Join(c)
    \/ \E c \in Conns, k \in Kinds : ClientSends(c, k)
    \/ \E c \in Conns : Works(c)
    \/ \E c \in Conns : Feeds(c) \/ CleanupStale(c)
    \/ Shutdown \/ Publish \/ Stops

Spec == Init /\ [][Next]_vars

\* Tasks are scheduled and the drain is bounded by its timeout.  Clients, publishers and
\* whoever calls shutdown need not do anything.
Fairness ==
    /\ WF_vars(Stops)
    /\ \A c \in Conns : WF_vars(Works(c)) /\ (c \in Routed => WF_vars(Works(c) \/ Feeds(c)))

FairSpec == Spec /\ Fairness

-----------------------------------------------------------------------------
TypeOK ==
    /\ server \in {"up", "draining", "down"} /\ called \in BOOLEAN
    /\ signal \subseteq Raw \cup {"server"}
    /\ conn \in [Conns -> {"none", "handshake", "open", "busy", "closed"}]
    /\ sessions \subseteq Conns
    /\ published \in 0..MaxEvents /\ next \in [Routed -> 0..MaxEvents]

\* Requests are answered one by one in the order they came: what was asked is what was
\* answered, plus the one in hand, or the one that was in hand when the connection ended.
AnsweredInOrder ==
    \A c \in Conns :
        \/ answered[c] = asked[c]
        \/ conn[c] \in {"busy", "closed"} /\ asked[c] # <<>> /\ answered[c] = Front(asked[c])

\* A client hears the events in order, and misses one only when Capacity newer ones were
\* published before it could be read, however long a request kept the connection busy.
EventsAreKept ==
    \A c \in Routed :
        /\ \A i \in 1..Len(heard[c]) - 1 : heard[c][i] < heard[c][i + 1]
        /\ \A e \in joined[c] + 1..next[c] : e \in ToSet(heard[c]) \/ e + Capacity <= published

\* Nothing is left open behind a server that is down.
DownIsDown == server = "down" => \A c \in Raw : ~Open(c)

\* After shutdown the server comes down, also when a connection missed the signal because
\* it was still shaking hands.
ShutdownEnds == called ~> server = "down"
=============================================================================
