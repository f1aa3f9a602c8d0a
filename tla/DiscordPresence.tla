--------------------------- MODULE DiscordPresence ---------------------------
(* set_presence of the Discord channel (crates/channel-core/src/discord.rs):  *)
(* a call finds or makes the task that keeps a connection to Discord's        *)
(* gateway open, and leaves its update in that task's queue.  The registry of *)
(* tasks is locked to look and to insert, but not between.                    *)
EXTENDS Naturals, Sequences

CONSTANTS
    Calls,            \* calls of set_presence, numbered; call c asks for presence c
    MaxFaults,        \* bound on lost connections and failed connects
    MaxBeats,         \* bound on heartbeats and frames of a connection
    None

VARIABLES
    channel,          \* the channel is connected
    call,             \* by call: "new", "asking", "made", "ok" or "error"
    of,               \* by call: the task whose handle it holds, 0 if none
    entry,            \* the task registered for the key, 0 if none
    task,             \* by task: "none", "top", "connect", "hello", "live", "wait" or "over"
    queue,            \* by task: updates left for it
    current,          \* by task: current_presence (0: online)
    shown,            \* by task: what its connection told Discord, None without one
    newest,           \* history, by task: the newest update left for it
    faults, beats

vars == <<channel, call, of, entry, task, queue, current, shown, newest, faults, beats>>

Tasks == Calls

TypeOK ==
    /\ \A c \in Calls : call[c] \in {"new", "asking", "made", "ok", "error"} /\ of[c] \in Tasks \cup {0}
    /\ \A t \in Tasks : task[t] \in {"none", "top", "connect", "hello", "live", "wait", "over"}
    /\ entry \in Tasks \cup {0}
    /\ \A t \in Tasks : current[t] \in Calls \cup {0} /\ (shown[t] = None \/ shown[t] \in Calls \cup {0})

\* The receiver finds its channel closed when no handle is left: not in the registry and not held.
Closed(t) == entry # t /\ \A c \in Calls : call[c] = "made" => of[c] # t

-----------------------------------------------------------------------------
\* ensure_presence_handle: a registered task that has not ended, else ask Discord for the address.
Find(c) ==
    /\ call[c] = "new" /\ \A d \in Calls : d < c => call[d] # "new"
    /\ IF entry # 0 /\ task[entry] # "over"
       THEN call' = [call EXCEPT ![c] = "made"] /\ of' = [of EXCEPT ![c] = entry] /\ UNCHANGED entry
       ELSE /\ entry' = 0 /\ UNCHANGED of
            /\ call' = [call EXCEPT ![c] = IF channel THEN "asking" ELSE "error"]
    /\ UNCHANGED <<newest, channel, task, queue, current, shown, faults, beats>>

\* The address is known: the handle is registered over any other and the task started.
Make(c) ==
    /\ call[c] = "asking"
    /\ call' = [call EXCEPT ![c] = "made"] /\ of' = [of EXCEPT ![c] = c] /\ entry' = c
    /\ task' = [task EXCEPT ![c] = "top"]
    /\ UNCHANGED <<newest, channel, queue, current, shown, faults, beats>>

NoAddress(c) ==
    /\ call[c] = "asking" /\ faults < MaxFaults
    /\ call' = [call EXCEPT ![c] = "error"] /\ faults' = faults + 1
    /\ UNCHANGED <<newest, channel, of, entry, task, queue, current, shown, beats>>

\* set_presence leaves the update and lets go of the handle.
Post(c) ==
    /\ call[c] = "made"
    /\ call' = [call EXCEPT ![c] = IF task[of[c]] = "over" THEN "error" ELSE "ok"]
    /\ queue' = IF task[of[c]] = "over" THEN queue ELSE [queue EXCEPT ![of[c]] = Append(@, c)]
    /\ newest' = IF task[of[c]] = "over" THEN newest ELSE [newest EXCEPT ![of[c]] = c]
    /\ UNCHANGED <<channel, of, entry, task, current, shown, faults, beats>>

\* The channel goes: the tasks are not told.
Disconnect ==
    /\ channel
    /\ channel' = FALSE
    /\ UNCHANGED <<newest, call, of, entry, task, queue, current, shown, faults, beats>>

-----------------------------------------------------------------------------
\* run_presence_gateway_loop.

\* The task ends; its entry is removed only if it is its own and its channel is closed.
Ends(t) ==
    /\ task' = [task EXCEPT ![t] = "over"]
    /\ UNCHANGED entry

\* After a lost connection, or one that could not be made, the task waits before it tries again.
Breaks(t) == IF task[t] = "live" /\ Closed(t) THEN Ends(t) ELSE task' = [task EXCEPT ![t] = "wait"] /\ UNCHANGED entry

\* The top of the loop takes what was left, the newest last, and ends if nobody can leave more.
Top(t) ==
    /\ task[t] = "top"
    /\ current' = [current EXCEPT ![t] = IF queue[t] = <<>> THEN @ ELSE queue[t][Len(queue[t])]]
    /\ queue' = [queue EXCEPT ![t] = <<>>]
    /\ IF Closed(t) THEN Ends(t) ELSE task' = [task EXCEPT ![t] = "connect"] /\ UNCHANGED entry
    /\ UNCHANGED <<newest, channel, call, of, shown, faults, beats>>

Connects(t) ==
    /\ task[t] = "connect"
    /\ task' = [task EXCEPT ![t] = "hello"]
    /\ UNCHANGED <<newest, channel, call, of, entry, queue, current, shown, faults, beats>>

\* Discord greets and the task identifies itself with the presence it holds.
Hello(t) ==
    /\ task[t] = "hello"
    /\ task' = [task EXCEPT ![t] = "live"] /\ shown' = [shown EXCEPT ![t] = current[t]]
    /\ UNCHANGED <<newest, channel, call, of, entry, queue, current, faults, beats>>

\* An update is sent over the connection; one that cannot be sent is kept for the next.
Update(t, sent) ==
    /\ task[t] = "live" /\ queue[t] # <<>>
    /\ sent \/ faults < MaxFaults
    /\ current' = [current EXCEPT ![t] = Head(queue[t])]
    /\ queue' = [queue EXCEPT ![t] = Tail(@)]
    /\ shown' = [shown EXCEPT ![t] = IF sent THEN Head(queue[t]) ELSE None]
    /\ IF sent THEN UNCHANGED <<task, faults, entry>> ELSE faults' = faults + 1 /\ Breaks(t)
    /\ UNCHANGED <<newest, channel, call, of, beats>>

\* Nobody is left to send updates.
Hangup(t) ==
    /\ task[t] = "live" /\ queue[t] = <<>> /\ Closed(t)
    /\ shown' = [shown EXCEPT ![t] = None]
    /\ Ends(t)
    /\ UNCHANGED <<newest, channel, call, of, queue, current, faults, beats>>

\* A heartbeat of ours or asked for, or a frame that says nothing.
Beat(t) ==
    /\ task[t] = "live" /\ beats < MaxBeats
    /\ beats' = beats + 1
    /\ UNCHANGED <<newest, channel, call, of, entry, task, queue, current, shown, faults>>

\* The connection fails, is closed, or Discord asks for a new one (op 7 and 9).
Lost(t) ==
    /\ task[t] \in {"connect", "hello", "live"} /\ faults < MaxFaults
    /\ faults' = faults + 1
    /\ shown' = [shown EXCEPT ![t] = None]
    /\ Breaks(t)
    /\ UNCHANGED <<newest, channel, call, of, queue, current, beats>>

Sleeps(t) ==
    /\ task[t] = "wait"
    /\ task' = [task EXCEPT ![t] = "top"]
    /\ UNCHANGED <<newest, channel, call, of, entry, queue, current, shown, faults, beats>>

TaskStep(t) == Top(t) \/ Connects(t) \/ Hello(t) \/ Update(t, TRUE) \/ Hangup(t) \/ Sleeps(t)
CallStep(c) == Find(c) \/ Make(c) \/ Post(c)

Init ==
    /\ channel = TRUE /\ call = [c \in Calls |-> "new"] /\ of = [c \in Calls |-> 0] /\ entry = 0
    /\ task = [t \in Tasks |-> "none"] /\ queue = [t \in Tasks |-> <<>>] /\ current = [t \in Tasks |-> 0]
    /\ shown = [t \in Tasks |-> None] /\ newest = [t \in Tasks |-> 0] /\ faults = 0 /\ beats = 0

Next ==
    \/ \E c \in Calls : Find(c) \/ Make(c) \/ NoAddress(c) \/ Post(c)
    \/ Disconnect
    \/ \E t \in Tasks :
          \/ Top(t) \/ Connects(t) \/ Hello(t) \/ Hangup(t) \/ Beat(t) \/ Lost(t) \/ Sleeps(t)
          \/ \E sent \in BOOLEAN : Update(t, sent)

Spec == Init /\ [][Next]_vars

-----------------------------------------------------------------------------
\* What Discord was told over a connection is the newest update its task took, also after a lost
\* connection or an update that could not be sent.
ShownIsCurrent == \A t \in Tasks : shown[t] # None => task[t] = "live" /\ shown[t] = current[t]

\* The registered task goes on, so a call that finds one is heard; the others come to their end
\* once nobody holds them.
RegisteredGoesOn == entry # 0 => task[entry] \notin {"none", "over"}

\* Once the connection holds and nobody calls any more, Discord shows the newest update that was
\* left for the registered task.
SettledIsShown == <>[](\A t \in Tasks : entry = t => shown[t] = newest[t])

\* What every call was told ok is shown in the end.  It does not hold: of two first calls that
\* overlap one replaces the other's task, which ends without having connected (293).
OkIsShown == \A c \in Calls : call[c] = "ok" ~> \E t \in Tasks : shown[t] = c

\* No connection stays when the channel is gone.  It does not hold: nothing ends the task (85).
GoneIsGone == (~channel) ~> \A t \in Tasks : shown[t] = None

=============================================================================
