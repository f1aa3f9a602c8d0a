------------------------------- MODULE Terminal -------------------------------
(* The terminal client (crates/tui-core/src/app.rs, gateway.rs, commands.rs):  *)
(* it connects once, shows the history or greets, and then serves the lines of *)
(* the user and the events of the replies, which all come over one channel and *)
(* do not say which message they answer.  While the agent is hatching it keeps *)
(* the conversation itself.  The text kept for /copy is left out.              *)
EXTENDS Naturals, Sequences

CONSTANTS
    MaxAsked,         \* bound on messages, the greeting included
    MaxChunks,        \* bound on the pieces of a reply
    Capacity,         \* of the channel of events
    MaxHistory,       \* bound on the conversation kept while hatching
    Settings,         \* names of sessions (and, alike, models) the user may choose
    First             \* the one the client starts with

VARIABLES
    phase,            \* "start", "greet", "loop" or "over"
    connected,
    hatching, history,  \* of the client: hatching_history by role
    active,           \* message whose reply is in progress (active_stream), 0 if none
    text, got, hturn, \* stream_full_text by the message of each piece, stream_got_content, stream_hatching_turn
    setting,          \* session and model of the next request
    task,             \* [at, full, setting, aborted] by message
    asked,            \* messages sent so far
    events,           \* [of, kind] in the channel
    needs,            \* the gateway needs hatching
    disturbed         \* history: a reply was aborted, or a request refused by the gateway

vars == <<phase, connected, hatching, history, active, text, got, hturn, setting, task, asked, events,
          needs, disturbed>>

Messages == 1..MaxAsked
NoTask == [at |-> "none", full |-> 0, setting |-> First, aborted |-> FALSE]
Over == [NoTask EXCEPT !.at = "over"]
Running == {"asked", "streaming", "again", "whole"}

TypeOK ==
    /\ phase \in {"start", "greet", "loop", "over"} /\ active \in 0..MaxAsked /\ asked \in 0..MaxAsked
    /\ \A m \in Messages : task[m].at \in Running \cup {"none", "over"} /\ task[m].full \in 0..MaxChunks
    /\ \A i \in DOMAIN events : events[i].of \in Messages /\ events[i].kind \in {"chunk", "blank", "done", "error"}
    /\ \A i \in DOMAIN history : history[i] \in {"user", "assistant"}

-----------------------------------------------------------------------------
\* GatewayClient::send_messages_raw and the task around it.

\* The channel of the greeting is gone once the greeting is over.
Send(m, kind) ==
    IF m = 1 /\ task[1].setting = "greeting" /\ phase # "greet" THEN events
    ELSE Append(events, [of |-> m, kind |-> kind])

TaskGoes(m, at, out) ==
    /\ task' = IF at = "over" /\ m # active /\ task[m].setting # "greeting" THEN [task EXCEPT ![m] = Over]
               ELSE [task EXCEPT ![m].at = at, ![m].full = @ + (IF out = "chunk" THEN 1 ELSE 0)]
    /\ out = "" \/ Len(events) < Capacity
    /\ events' = IF out = "" THEN events ELSE Send(m, out)

Rest == UNCHANGED <<phase, connected, hatching, history, active, text, got, hturn, setting, asked, needs>>

\* The request or the connection fails: the task reports the error once.
TaskFails(m) ==
    /\ task[m].at \in {"asked", "streaming"}
    /\ TaskGoes(m, "over", "error")
    /\ UNCHANGED disturbed
    /\ Rest

\* The gateway refuses: the error is sent, and returned to the task, which sends it again.
Refused(m) ==
    /\ task[m].at = "asked"
    /\ TaskGoes(m, "again", "error")
    /\ disturbed' = TRUE
    /\ Rest

\* The gateway answers in one piece, with or without content.
AnsweredWhole(m, full) ==
    /\ task[m].at = "asked"
    /\ TaskGoes(m, IF full THEN "whole" ELSE "over", IF full THEN "chunk" ELSE "done")
    /\ UNCHANGED disturbed
    /\ Rest

SecondSend(m) ==
    /\ task[m].at \in {"again", "whole"}
    /\ TaskGoes(m, "over", IF task[m].at = "again" THEN "error" ELSE "done")
    /\ UNCHANGED disturbed
    /\ Rest

\* A piece of the event stream, which may be empty.
Streams(m, kind) ==
    /\ task[m].at \in {"asked", "streaming"} /\ task[m].full < MaxChunks
    /\ kind = "blank" => task[m].at = "asked"
    /\ TaskGoes(m, "streaming", kind)
    /\ UNCHANGED disturbed
    /\ Rest

\* [DONE], or the end of the stream without it: then an empty reply is not reported at all.
StreamEnds(m, marked) ==
    /\ task[m].at \in {"asked", "streaming"}
    /\ TaskGoes(m, "over", IF marked \/ task[m].full > 0 THEN "done" ELSE "")
    /\ UNCHANGED disturbed
    /\ Rest

\* A task that was aborted stops where it is next suspended.
Stops(m) ==
    /\ task[m].aborted /\ task[m].at \in Running
    /\ TaskGoes(m, "over", "")
    /\ UNCHANGED disturbed
    /\ Rest

\* The agent of the gateway finds its identity while it answers.
Hatches ==
    /\ needs /\ \E m \in Messages : task[m].at \in Running
    /\ needs' = FALSE
    /\ UNCHANGED <<phase, connected, hatching, history, active, text, got, hturn, setting, task, asked,
                   events, disturbed>>

-----------------------------------------------------------------------------
\* TuiApp.

Ask(how) ==
    /\ asked < MaxAsked
    /\ asked' = asked + 1
    /\ task' = [task EXCEPT ![asked + 1] = [NoTask EXCEPT !.at = "asked", !.setting = how]]

\* load_history: without one to show (also when it could not be read) the agent is greeted.
LoadHistory(shown) ==
    IF shown THEN phase' = "loop" /\ UNCHANGED <<asked, task>> ELSE phase' = "greet" /\ Ask("greeting")

\* try_connect: told says whether the status could be read.
TryConnect(healthy, told, shown) ==
    /\ phase = "start"
    /\ connected' = healthy
    /\ hatching' = (healthy /\ told /\ needs)
    /\ LoadHistory(shown \/ ~healthy \/ (told /\ needs))
    /\ UNCHANGED <<history, active, text, got, hturn, setting, events, needs, disturbed>>

Silent(m) == task[m].at = "over" /\ events = <<>>

\* send_and_stream takes events until the reply ends or its channel is closed.
Greeting ==
    /\ phase = "greet"
    /\ \/ /\ events # <<>> /\ Head(events).kind \in {"chunk", "blank"}
          /\ text' = IF Head(events).kind = "chunk" THEN Append(text, Head(events).of) ELSE text
          /\ events' = Tail(events)
          /\ UNCHANGED phase
       \/ /\ Silent(1) \/ (events # <<>> /\ Head(events).kind \in {"done", "error"})
          /\ phase' = "loop" /\ events' = <<>> /\ text' = <<>>
    /\ UNCHANGED <<connected, hatching, history, active, got, hturn, setting, task, asked, needs, disturbed>>

\* process_input and start_stream: a message, unless a reply is in progress.
StartStream ==
    /\ phase = "loop" /\ active = 0 /\ connected /\ Len(history) < MaxHistory
    /\ Ask(setting)
    /\ history' = IF hatching THEN Append(history, "user") ELSE history
    /\ active' = asked + 1 /\ text' = <<>> /\ got' = FALSE /\ hturn' = hatching
    /\ UNCHANGED <<phase, connected, hatching, setting, events, needs, disturbed>>

\* /session and /model.
Choose(s) ==
    /\ phase = "loop" /\ s # setting
    /\ setting' = s
    /\ UNCHANGED <<phase, connected, hatching, history, active, text, got, hturn, task, asked, events,
                   needs, disturbed>>

\* abort_active_stream, of /abort and Ctrl-C.
AbortActiveStream ==
    /\ phase = "loop" /\ active # 0
    /\ active' = 0 /\ text' = <<>> /\ got' = FALSE /\ hturn' = FALSE
    /\ task' = [task EXCEPT ![active].aborted = TRUE]
    /\ disturbed' = TRUE
    /\ UNCHANGED <<phase, connected, hatching, history, setting, asked, events, needs>>

\* /exit, Ctrl-D: the process ends and its tasks with it.
Quit ==
    /\ phase = "loop"
    /\ phase' = "over" /\ events' = <<>>
    /\ active' = 0 /\ text' = <<>> /\ got' = FALSE /\ hturn' = FALSE
    /\ task' = [m \in Messages |-> NoTask]
    /\ UNCHANGED <<connected, hatching, history, setting, asked, needs, disturbed>>

\* complete_active_stream: told says whether the status could be read.
CompleteActiveStream(succeeded, told) ==
    LET whole == text # <<>>
        ends == succeeded /\ hatching /\ told /\ ~needs
    IN  /\ active' = 0 /\ text' = <<>> /\ got' = FALSE /\ hturn' = FALSE
        /\ hatching' = (hatching /\ ~ends)
        /\ history' = IF ends THEN <<>> ELSE IF whole /\ hturn THEN Append(history, "assistant") ELSE history

HandleGatewayEvent(told) ==
    /\ phase = "loop" /\ events # <<>>
    /\ told \/ Head(events).kind = "done"
    /\ events' = Tail(events)
    /\ LET kind == Head(events).kind IN
       IF active = 0 THEN UNCHANGED <<hatching, history, active, text, got, hturn>>
       ELSE IF kind \in {"chunk", "blank"}
       THEN /\ got' = TRUE
            /\ text' = IF kind = "chunk" THEN Append(text, Head(events).of) ELSE text
            /\ UNCHANGED <<hatching, history, active, hturn>>
       ELSE CompleteActiveStream(kind = "done", told)
    /\ UNCHANGED <<phase, connected, setting, task, asked, needs, disturbed>>

Init ==
    /\ phase = "start" /\ connected = FALSE /\ hatching = FALSE /\ history = <<>>
    /\ active = 0 /\ text = <<>> /\ got = FALSE /\ hturn = FALSE
    /\ setting = First /\ task = [m \in Messages |-> NoTask] /\ asked = 0 /\ events = <<>>
    /\ needs \in BOOLEAN /\ disturbed = FALSE

Next ==
    \/ \E healthy \in BOOLEAN, told \in BOOLEAN, shown \in BOOLEAN : TryConnect(healthy, told, shown)
    \/ \E m \in Messages :
          \/ TaskFails(m) \/ Refused(m) \/ SecondSend(m) \/ Stops(m)
          \/ \E b \in BOOLEAN : AnsweredWhole(m, b) \/ StreamEnds(m, b)
          \/ \E kind \in {"chunk", "blank"} : Streams(m, kind)
    \/ Hatches \/ Greeting \/ StartStream \/ AbortActiveStream \/ Quit
    \/ \E s \in Settings : Choose(s)
    \/ \E told \in BOOLEAN : HandleGatewayEvent(told)

Spec == Init /\ [][Next]_vars

-----------------------------------------------------------------------------
\* As long as no reply was aborted and no request refused, what is on the screen are the pieces of
\* the reply in progress, none missing and none of another; between replies nothing is under way.
UndisturbedIsExact ==
    ~disturbed /\ phase = "loop" =>
        IF active = 0 THEN events = <<>> /\ \A m \in Messages : task[m].at \in Running => task[m].setting = "greeting"
        ELSE /\ \A i \in DOMAIN text : text[i] = active
             /\ \A i \in DOMAIN events : events[i].of = active
             /\ Len(text) + Len(SelectSeq(events, LAMBDA e : e.kind = "chunk")) = task[active].full

\* Once the agent is hatched nothing of the conversation before is kept or sent again, also when a
\* reply asked for before ends afterwards.
HatchedIsForgotten == ~hatching => history = <<>> /\ ~hturn

\* Between replies nothing of one is left that the next would show.
IdleIsClean == active = 0 /\ phase = "loop" => text = <<>> /\ ~got /\ ~hturn

\* What is shown answers the message in progress.  It does not hold: the events of an aborted reply
\* that are in the channel, and the second error of a refused request, are taken for the next (356).
ShownIsAnswer == active # 0 => \A i \in DOMAIN text : text[i] = active

\* A reply in progress comes to an end by itself.  It does not hold: a stream that closes before its
\* first piece is not reported (gateway.rs 196).
ReplyEnds == active # 0 => ~(\A m \in Messages : Silent(m) \/ task[m].at = "none")

\* One request at a time.  It does not hold: a stale error ends the reply in progress without
\* stopping its task (385).
OneAtATime ==
    LET going == {m \in Messages : task[m].at \in Running /\ ~task[m].aborted /\ task[m].setting # "greeting"}
    IN  \A m, n \in going : m = n

\* What is shown is of the session in the header.  It does not hold: /session does not wait for the
\* reply in progress (264).
ShownIsOfTheSession == active # 0 /\ text # <<>> => task[active].setting = setting

\* The client knows that the agent is hatching.  It does not hold: a status that could not be read
\* counts as hatched (183).
HatchingIsNoticed == phase = "loop" /\ connected /\ asked = 0 => (hatching = needs)

=============================================================================
