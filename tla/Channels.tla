------------------------------ MODULE Channels ------------------------------
(* The channel manager (crates/channel-core/src/manager.rs): sends through   *)
(* the channel's token bucket and read lock, channels.logout, and the        *)
(* watcher that reconnects channels under their write lock.  An adapter      *)
(* (telegram.rs, slack.rs and the like) sets its status to connecting before *)
(* it talks to its service and to connected after; webchat.rs without        *)
(* credentials goes to error.                                                *)
EXTENDS Naturals, FiniteSets

CONSTANTS
    Web,        \* webchat channels without credentials
    Http,       \* channels of a service
    Calls, ChannelOf,
    Chunks,     \* the parts a message is split into
    Capacity,   \* of a token bucket
    MaxFaults,  \* bound: failed connects and sends
    MaxLogouts, \* bound: channels.logout calls
    None

Chans == Web \cup Http

VARIABLES
    status,     \* of each adapter
    writer,     \* who holds the channel's write lock
    readers,    \* the calls that hold its read lock
    bucket,     \* send_limiters
    call,       \* each call: where it is, parts sent, and what it was told
    watcher,    \* the watcher: where it is, the channel it is at, those left in this round
    waiting,    \* retry_state: the channels whose next attempt is not due yet
    shown,      \* reconnect_status: the channels shown as reconnecting
    logouts, faults

vars == <<status, writer, readers, bucket, call, watcher, waiting, shown, logouts, faults>>
callVars == <<bucket, call>>
watchVars == <<watcher, waiting, shown>>
lockVars == <<writer, readers>>

Failing == {"error", "disconnected"}

\* What a failed connect leaves.
FailedStatus(ch) == IF ch \in Web THEN "error" ELSE "connecting"

\* connect_all has tried every channel once.
Init ==
    /\ status \in {s \in [Chans -> {"connected", "connecting", "error"}] :
                     \A ch \in Chans : s[ch] = FailedStatus(ch) \/ (ch \in Http /\ s[ch] = "connected")}
    /\ writer = [ch \in Chans |-> None] /\ readers = [ch \in Chans |-> {}]
    /\ bucket = [ch \in Chans |-> Capacity]
    /\ call = [s \in Calls |-> [at |-> "new", sent |-> 0, told |-> None]]
    /\ watcher = [at |-> "idle", ch |-> None, todo |-> {}]
    /\ waiting = {} /\ shown = {}
    /\ logouts = 0 /\ faults = 0

-----------------------------------------------------------------------------
(* send_to_channel, send_media and the rest.                                *)

\* Mutant: a call takes a token that is not there.
WaitSendSlotNot(s) ==
    /\ call[s].at = "new"
    /\ bucket' = [bucket EXCEPT ![ChannelOf[s]] = @ - 1]
    /\ call' = [call EXCEPT ![s].at = "slot"]
    /\ UNCHANGED <<status, lockVars, watchVars, logouts, faults>>

\* wait_send_slot: send_to_channel (broadcast too) and send_media take a token.
WaitSendSlot(s) ==
    /\ call[s].at = "new" /\ bucket[ChannelOf[s]] > 0
    /\ bucket' = [bucket EXCEPT ![ChannelOf[s]] = @ - 1]
    /\ call' = [call EXCEPT ![s].at = "slot"]
    /\ UNCHANGED <<status, lockVars, watchVars, logouts, faults>>

\* Reactions, edits, threads and reads take none.
NoSlot(s) ==
    /\ call[s].at = "new" /\ call' = [call EXCEPT ![s].at = "slot"]
    /\ UNCHANGED <<status, lockVars, bucket, watchVars, logouts, faults>>

\* Mutant: the clock of the bucket moves on, its tokens do not.
RefillNothing(ch) ==
    /\ bucket[ch] < Capacity /\ UNCHANGED vars

Refill(ch) ==
    /\ bucket[ch] < Capacity /\ bucket' = [bucket EXCEPT ![ch] = @ + 1]
    /\ UNCHANGED <<status, lockVars, call, watchVars, logouts, faults>>

\* The read lock, and the adapter's look at its status.
BeginSend(s) ==
    LET ch == ChannelOf[s]
    IN /\ call[s].at = "slot" /\ writer[ch] = None
       /\ IF status[ch] = "connected"
          THEN /\ call' = [call EXCEPT ![s].at = "sending"]
               /\ readers' = [readers EXCEPT ![ch] = @ \cup {s}]
          ELSE /\ call' = [call EXCEPT ![s].at = "done", ![s].told = "error"]
               /\ UNCHANGED readers
       /\ UNCHANGED <<status, writer, bucket, watchVars, logouts, faults>>

\* One part of the message goes out.
SendChunk(s) ==
    /\ call[s].at = "sending" /\ call[s].sent < Chunks
    /\ call' = [call EXCEPT ![s].sent = @ + 1]
    /\ UNCHANGED <<status, lockVars, bucket, watchVars, logouts, faults>>

EndSend(s, told) ==
    /\ call' = [call EXCEPT ![s].at = "done", ![s].told = told]
    /\ readers' = [readers EXCEPT ![ChannelOf[s]] = @ \ {s}]
    /\ UNCHANGED <<status, writer, bucket, watchVars, logouts>>

\* Mutant: the call is answered after the first part.
SendOkAfterFirst(s) ==
    /\ call[s].at = "sending" /\ call[s].sent > 0
    /\ EndSend(s, "ok") /\ UNCHANGED faults

SendOk(s) ==
    /\ call[s].at = "sending" /\ call[s].sent = Chunks
    /\ EndSend(s, "ok") /\ UNCHANGED faults

\* A part fails: the parts before it have gone out.
SendFails(s) ==
    /\ call[s].at = "sending" /\ call[s].sent < Chunks
    /\ faults < MaxFaults /\ faults' = faults + 1
    /\ EndSend(s, "error")

-----------------------------------------------------------------------------
\* Mutant: the channel is disconnected under the calls in progress.
LogoutAtOnce(ch) ==
    /\ logouts < MaxLogouts /\ logouts' = logouts + 1 /\ writer[ch] = None
    /\ status' = [status EXCEPT ![ch] = "disconnected"]
    /\ UNCHANGED <<lockVars, callVars, watchVars, faults>>

\* rpc_channels_logout: disconnect under the write lock (one that fails changes nothing).
Logout(ch) ==
    /\ logouts < MaxLogouts /\ logouts' = logouts + 1
    /\ writer[ch] = None /\ readers[ch] = {}
    /\ status' = [status EXCEPT ![ch] = "disconnected"]
    /\ UNCHANGED <<lockVars, callVars, watchVars, faults>>

-----------------------------------------------------------------------------
(* spawn_reconnect_watcher.                                                 *)

At(at) == watcher' = [watcher EXCEPT !.at = at]

\* Every 30 seconds, all channels.
Tick ==
    /\ watcher.at = "idle" /\ watcher' = [at |-> "round", ch |-> None, todo |-> Chans]
    /\ UNCHANGED <<status, lockVars, callVars, waiting, shown, logouts, faults>>

Leave == watcher' = [at |-> IF watcher.todo = {} THEN "idle" ELSE "round", ch |-> None, todo |-> watcher.todo]

\* Mutant: a channel that was disconnected is not looked after.
LookForErrors(ch) ==
    /\ watcher.at = "round" /\ ch \in watcher.todo /\ writer[ch] = None
    /\ watcher' = [at |-> IF status[ch] = "error" THEN "failing" ELSE "well", ch |-> ch, todo |-> watcher.todo \ {ch}]
    /\ UNCHANGED <<status, lockVars, callVars, waiting, shown, logouts, faults>>

\* The next channel, and its status under the read lock.
Look(ch) ==
    /\ watcher.at = "round" /\ ch \in watcher.todo /\ writer[ch] = None
    /\ watcher' = [at |-> IF status[ch] \in Failing THEN "failing" ELSE "well", ch |-> ch, todo |-> watcher.todo \ {ch}]
    /\ UNCHANGED <<status, lockVars, callVars, waiting, shown, logouts, faults>>

\* Mutant: a channel that is well is left as it is shown.
SkipQuietly ==
    /\ watcher.at = "well" /\ Leave
    /\ waiting' = waiting \ {watcher.ch}
    /\ UNCHANGED <<status, lockVars, callVars, shown, logouts, faults>>

\* Neither error nor disconnected: nothing to do.
Skip ==
    /\ watcher.at = "well" /\ Leave
    /\ waiting' = waiting \ {watcher.ch} /\ shown' = shown \ {watcher.ch}
    /\ UNCHANGED <<status, lockVars, callVars, logouts, faults>>

\* Not due yet.
BackOff ==
    /\ watcher.at = "failing" /\ watcher.ch \in waiting /\ Leave
    /\ UNCHANGED <<status, lockVars, callVars, waiting, shown, logouts, faults>>

Announce ==
    /\ watcher.at = "failing" /\ watcher.ch \notin waiting /\ At("locking")
    /\ shown' = shown \cup {watcher.ch}
    /\ UNCHANGED <<status, lockVars, callVars, waiting, logouts, faults>>

\* The write lock; connect begins.
Lock ==
    /\ watcher.at = "locking" /\ writer[watcher.ch] = None /\ readers[watcher.ch] = {}
    /\ writer' = [writer EXCEPT ![watcher.ch] = "watcher"]
    /\ status' = [status EXCEPT ![watcher.ch] = "connecting"]
    /\ At("connecting")
    /\ UNCHANGED <<readers, callVars, waiting, shown, logouts, faults>>

Unlock == writer' = [writer EXCEPT ![watcher.ch] = None]

Reconnected ==
    /\ watcher.at = "connecting" /\ watcher.ch \in Http /\ Leave /\ Unlock
    /\ status' = [status EXCEPT ![watcher.ch] = "connected"]
    /\ waiting' = waiting \ {watcher.ch} /\ shown' = shown \ {watcher.ch}
    /\ UNCHANGED <<readers, callVars, logouts, faults>>

\* The next attempt has to wait: 1, 2, 4 seconds and so on.
ReconnectFails ==
    /\ watcher.at = "connecting" /\ Leave /\ Unlock
    /\ \/ watcher.ch \in Web /\ UNCHANGED faults
       \/ watcher.ch \in Http /\ faults < MaxFaults /\ faults' = faults + 1
    /\ status' = [status EXCEPT ![watcher.ch] = FailedStatus(watcher.ch)]
    /\ waiting' = waiting \cup {watcher.ch}
    /\ UNCHANGED <<readers, callVars, shown, logouts>>

\* The backoff has passed.
Due(ch) ==
    /\ ch \in waiting /\ waiting' = waiting \ {ch}
    /\ UNCHANGED <<status, lockVars, callVars, watcher, shown, logouts, faults>>

-----------------------------------------------------------------------------
Call(s) == WaitSendSlot(s) \/ NoSlot(s) \/ BeginSend(s) \/ SendChunk(s) \/ SendOk(s) \/ SendFails(s)

Watch ==
    \/ Tick \/ (\E ch \in Chans : Look(ch)) \/ Skip \/ BackOff \/ Announce \/ Lock
    \/ Reconnected \/ ReconnectFails

Next ==
    \/ \E s \in Calls : Call(s)
    \/ \E ch \in Chans : Refill(ch) \/ Logout(ch) \/ Due(ch)
    \/ Watch

Spec == Init /\ [][Next]_vars

\* The watcher and the calls are scheduled, buckets fill up, backoffs pass and services
\* answer; whoever waits for a free lock gets it.
Fairness ==
    /\ WF_vars(Watch) /\ \A ch \in Chans : WF_vars(Due(ch)) /\ WF_vars(Refill(ch))
    /\ \A s \in Calls : WF_vars(WaitSendSlot(s) \/ BeginSend(s) \/ SendChunk(s) \/ SendOk(s))

FairSpec == Spec /\ Fairness

-----------------------------------------------------------------------------
TypeOK ==
    /\ status \in [Chans -> {"connected", "connecting", "error", "disconnected"}]
    /\ writer \in [Chans -> {"watcher", None}] /\ readers \in [Chans -> SUBSET Calls]
    /\ bucket \in [Chans -> 0..Capacity] /\ shown \subseteq Chans
    /\ waiting \subseteq Chans /\ watcher.todo \subseteq Chans

\* Whatever a call sends goes to a channel that is connected: neither a logout nor the
\* watcher changes the channel in the middle of a message.
SentWhileConnected == \A s \in Calls : call[s].at = "sending" => status[ChannelOf[s]] = "connected"

\* A call that was told ok has sent every part.
OkIsWhole == \A s \in Calls : call[s].told = "ok" => call[s].sent = Chunks

\* A channel of a service is not shown as reconnecting for good: each attempt that
\* announced itself takes the entry back, at once or in the round after.
ShownIsTakenBack == \A ch \in Http : ch \in shown ~> ch \notin shown

\* Every call comes to an end: the watcher gives every lock back, and the bucket fills.
CallsEnd == \A s \in Calls : <>(call[s].at = "done")

\* A channel that was disconnected or went to error is tried again, however often.
FailingIsRetried == \A ch \in Chans : status[ch] \in Failing ~> status[ch] = "connecting"

\* A channel whose connect failed is tried again ("retries failed/disconnected channels
\* with exponential backoff").
FailedIsRetried == \A ch \in Http : status[ch] = "connecting" ~> status[ch] = "connected"

-----------------------------------------------------------------------------
\* The instance of ChannelReconnect.cfg: two calls of one channel.
MCChannelOf == [s \in Calls |-> "tg"]
=============================================================================
