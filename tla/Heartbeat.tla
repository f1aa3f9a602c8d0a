----------------------------- MODULE Heartbeat -----------------------------
(* System events, wake requests and the heartbeat loop                       *)
(* (crates/gateway-core/src/http.rs, heartbeat_runner.rs): events wait in a  *)
(* queue per session, a wake asks for a tick now, and the loop of the        *)
(* gateway hands the events of a session to a turn of the agent.  The        *)
(* devices that report themselves are kept in the presence table.            *)
EXTENDS Naturals, Sequences, FiniteSets

CONSTANTS
    Sessions, MainKey,  \* session keys, and the one the interval tick drains
    Texts,              \* texts of events: "plain", "exec" (a command finished), "noise"
    Devices, Profiles,  \* devices that report themselves, and what they may report
    MaxSystemEvents,    \* MAX_SYSTEM_EVENTS
    MaxEntries,         \* SYSTEM_PRESENCE_MAX_ENTRIES
    MaxPosts,           \* bound: events posted
    None

VARIABLES
    queues,    \* SYSTEM_EVENT_QUEUES: items and the last text of each session
    wakes,     \* PENDING_HEARTBEAT_WAKES: the reason of the wake of each session
    enabled,   \* GLOBAL_HEARTBEATS_ENABLED
    loop,      \* the heartbeat loop: the wakes it took and the tick it is in
    presence,  \* SYSTEM_PRESENCE without the gateway's own entry, oldest first
    profile,   \* what each device reported last
    old,       \* devices not heard of for SYSTEM_PRESENCE_TTL_MS
    fate,      \* history: what became of each event posted
    urgent     \* history: events posted with mode now

vars == <<queues, wakes, enabled, loop, presence, profile, old, fate, urgent>>

Reasons == {"retry", "interval", "manual", "wake", "cron", "hook"}

\* What an event says: a text, or the news of a device.
Contents == ({"text"} \X Texts) \cup (Devices \X Profiles)

Items == Seq([id : 1..MaxPosts, text : Contents])

Wake == [key : Sessions, reason : Reasons]

Fates == {"queued", "merged", "spilled", "shown", "omitted", "skipped", "failed"}

TypeOK ==
    /\ \A s \in Sessions : queues[s] # None =>
          queues[s].items \in Items /\ queues[s].last \in Contents
    /\ wakes \in [Sessions -> Reasons \cup {None}]
    /\ enabled \in BOOLEAN
    /\ loop.at \in {"idle", "wakes", "tick", "turn"} /\ loop.list \subseteq Wake
    /\ loop.now \in Wake \cup {None} /\ loop.hand \in Items
    /\ presence \in Seq(Devices) /\ Len(presence) < MaxEntries
    /\ profile \in [Devices -> Profiles \cup {None}] /\ old \subseteq Devices
    /\ Len(fate) <= MaxPosts /\ fate \in Seq(Fates) /\ urgent \subseteq 1..MaxPosts

Idle == [at |-> "idle", list |-> {}, now |-> None, hand |-> <<>>]

Init ==
    /\ queues = [s \in Sessions |-> None] /\ wakes = [s \in Sessions |-> None]
    /\ enabled = TRUE /\ loop = Idle
    /\ presence = <<>> /\ profile = [d \in Devices |-> None] /\ old = {}
    /\ fate = <<>> /\ urgent = {}

-----------------------------------------------------------------------------
(* Events and wake requests.                                                *)

IdsOf(items) == {items[i].id : i \in DOMAIN items}

\* The fate of the events ids.
Met(f, ids, what) == [i \in DOMAIN f |-> IF i \in ids THEN what ELSE f[i]]

\* enqueue_system_event_entry: a repetition of the last text is not queued again, and
\* the oldest event goes when there are too many.
EnqueueEvent(s, text) ==
    LET q == IF queues[s] = None THEN [items |-> <<>>, last |-> None] ELSE queues[s]
        n == Len(fate) + 1
        all == Append(q.items, [id |-> n, text |-> text])
    IN /\ Len(fate) < MaxPosts
       /\ IF q.last = text
          THEN fate' = Append(fate, "merged") /\ UNCHANGED queues
          ELSE IF Len(all) > MaxSystemEvents
          THEN /\ fate' = Met(Append(fate, "queued"), {Head(all).id}, "spilled")
               /\ queues' = [queues EXCEPT ![s] = [items |-> Tail(all), last |-> text]]
          ELSE /\ fate' = Append(fate, "queued")
               /\ queues' = [queues EXCEPT ![s] = [items |-> all, last |-> text]]

\* resolve_wake_reason_priority.
Priority(reason) ==
    CASE reason = "retry" -> 0
      [] reason = "interval" -> 1
      [] reason \in {"manual", "exec-event", "hook"} -> 3
      [] OTHER -> 2

\* Mutant: the latest request wins.
LatestWake(s, reason) == [wakes EXCEPT ![s] = reason]

\* queue_pending_heartbeat_wake: one wake per target, a weaker one does not replace it.
QueuedWake(s, reason) ==
    [wakes EXCEPT ![s] = IF @ # None /\ Priority(@) > Priority(reason) THEN @ ELSE reason]

\* Mutant: the wake is always for the main session.
RpcWakeMain(s, text, now, reason) ==
    /\ EnqueueEvent(s, <<"text", text>>)
    /\ wakes' = IF now THEN QueuedWake(MainKey, reason) ELSE wakes
    /\ urgent' = IF now THEN urgent \cup {Len(fate) + 1} ELSE urgent
    /\ UNCHANGED <<enabled, loop, presence, profile, old>>

\* wake: an event, and with mode now a wake for its session.
RpcWake(s, text, now, reason) ==
    /\ EnqueueEvent(s, <<"text", text>>)
    /\ wakes' = IF now THEN QueuedWake(s, reason) ELSE wakes
    /\ urgent' = IF now THEN urgent \cup {Len(fate) + 1} ELSE urgent
    /\ UNCHANGED <<enabled, loop, presence, profile, old>>

\* Mutant: the table is not pruned after an insert.
Unpruned(seq, gone) == seq

\* prune_system_presence_locked: entries that are too old, then the oldest ones.
Pruned(seq, gone) ==
    LET fresh == SelectSeq(seq, LAMBDA d : d \notin gone)
        excess == IF Len(fresh) + 1 > MaxEntries THEN Len(fresh) + 1 - MaxEntries ELSE 0
    IN SubSeq(fresh, excess + 1, Len(fresh))

\* update_system_presence_entry: the entry of the device is now the youngest one.
Reported(d) == Pruned(Append(SelectSeq(presence, LAMBDA x : x # d), d), old \ {d})

\* system-event: a report of a device goes to the presence table, and when something in
\* it changed an event with the difference is queued.
DeviceReports(d, v, s) ==
    LET left == Reported(d)
    IN /\ presence' = left
       /\ old' = {}
       /\ profile' = [x \in Devices |-> IF \A i \in DOMAIN left : left[i] # x THEN None
                                        ELSE IF x = d THEN v ELSE profile[x]]
       /\ IF profile[d] # v THEN EnqueueEvent(s, <<d, v>>) ELSE UNCHANGED <<queues, fate>>
       /\ UNCHANGED <<wakes, enabled, loop, urgent>>

\* system-presence prunes and lists.
ListPresence ==
    LET left == Pruned(presence, old)
    IN /\ presence' = left /\ presence # left
       /\ old' = {}
       /\ profile' = [x \in Devices |-> IF \A i \in DOMAIN left : left[i] # x THEN None ELSE profile[x]]
       /\ UNCHANGED <<queues, wakes, enabled, loop, fate, urgent>>

\* Five minutes without a report.
DeviceSilent(d) ==
    /\ d \notin old /\ \E i \in DOMAIN presence : presence[i] = d
    /\ old' = old \cup {d}
    /\ UNCHANGED <<queues, wakes, enabled, loop, presence, profile, fate, urgent>>

SetHeartbeats(on) ==
    /\ enabled' = on /\ enabled # on
    /\ UNCHANGED <<queues, wakes, loop, presence, profile, old, fate, urgent>>

-----------------------------------------------------------------------------
(* The loop of the gateway, every 500 ms.                                   *)

\* take_pending_heartbeat_wakes.
TakeWakes ==
    /\ loop.at = "idle" /\ enabled
    /\ \E s \in Sessions : wakes[s] # None
    /\ loop' = [Idle EXCEPT !.at = "wakes",
                !.list = {[key |-> s, reason |-> wakes[s]] : s \in {t \in Sessions : wakes[t] # None}}]
    /\ wakes' = [s \in Sessions |-> None]
    /\ UNCHANGED <<queues, enabled, presence, profile, old, fate, urgent>>

EventsOf(s) == IF queues[s] = None THEN <<>> ELSE queues[s].items

\* Mutant: the events are copied and stay in the queue.
DrainCopies(w, list) ==
    /\ loop' = [at |-> "tick", list |-> list, now |-> w, hand |-> EventsOf(w.key)]
    /\ UNCHANGED <<queues, wakes, enabled, presence, profile, old, fate, urgent>>

\* drain_system_event_entries and the start of tick_with_options.
Drain(w, list) ==
    /\ loop' = [at |-> "tick", list |-> list, now |-> w, hand |-> EventsOf(w.key)]
    /\ queues' = [queues EXCEPT ![w.key] = None]
    /\ UNCHANGED <<wakes, enabled, presence, profile, old, fate, urgent>>

\* The next wake, the strongest first.
NextWake ==
    /\ loop.at = "wakes"
    /\ \E w \in loop.list :
          /\ \A v \in loop.list : Priority(v.reason) <= Priority(w.reason)
          /\ Drain(w, loop.list \ {w})

NoMoreWakes ==
    /\ loop.at = "wakes" /\ loop.list = {}
    /\ loop' = Idle
    /\ UNCHANGED <<queues, wakes, enabled, presence, profile, old, fate, urgent>>

\* No wake, and the interval is over: a tick for the main session.
IntervalTick ==
    /\ loop.at = "idle" /\ enabled /\ \A s \in Sessions : wakes[s] = None
    /\ Drain([key |-> MainKey, reason |-> "interval"], {})

\* The tick returns: the wake of a tick that failed is queued again as a retry, the
\* events it held are not.
TickReturns(ok, what) ==
    /\ loop' = [loop EXCEPT !.at = "wakes", !.now = None, !.hand = <<>>]
    /\ fate' = Met(fate, IdsOf(loop.hand), what)
    /\ wakes' = IF ok \/ loop.now.reason = "interval" THEN wakes ELSE QueuedWake(loop.now.key, "retry")
    /\ UNCHANGED <<queues, enabled, presence, profile, old, urgent>>

\* Outside the active hours.
TickOutsideHours == loop.at = "tick" /\ TickReturns(TRUE, "skipped")

\* HEARTBEAT.md has no tasks, or cannot be read, and the reason does not bypass it.
TickWithoutTasks ==
    /\ loop.at = "tick" /\ loop.now.reason \notin {"wake", "exec-event", "cron", "hook"}
    /\ \/ TickReturns(TRUE, "skipped")
       \/ TickReturns(FALSE, "failed")

TickRuns ==
    /\ loop.at = "tick"
    /\ loop' = [loop EXCEPT !.at = "turn"]
    /\ UNCHANGED <<queues, wakes, enabled, presence, profile, old, fate, urgent>>

\* What the prompt of the turn shows of the events: none when a command finished, the
\* reminders alone for a cron job, otherwise all.
Shown ==
    LET texts == {loop.hand[i].text : i \in DOMAIN loop.hand}
        reminders == {t \in texts : t[2] \notin {"noise", "exec"}}
    IN IF <<"text", "exec">> \in texts THEN {}
       ELSE IF loop.now.reason = "cron" /\ reminders # {} THEN reminders
       ELSE texts

\* The turn fails, or its prompt was answered; delivering the alert may fail.
TurnFails == loop.at = "turn" /\ TickReturns(FALSE, "failed")

TurnAnswers ==
    /\ loop.at = "turn"
    /\ \E ok \in BOOLEAN :
          LET seen == {loop.hand[i].id : i \in {j \in DOMAIN loop.hand : loop.hand[j].text \in Shown}}
          IN /\ loop' = [loop EXCEPT !.at = "wakes", !.now = None, !.hand = <<>>]
             /\ fate' = Met(Met(fate, IdsOf(loop.hand), "omitted"), seen, "shown")
             /\ wakes' = IF ok \/ loop.now.reason = "interval" THEN wakes
                         ELSE QueuedWake(loop.now.key, "retry")
    /\ UNCHANGED <<queues, enabled, presence, profile, old, urgent>>

-----------------------------------------------------------------------------
LoopStep ==
    \/ TakeWakes \/ NextWake \/ NoMoreWakes
    \/ TickOutsideHours \/ TickWithoutTasks \/ TickRuns \/ TurnFails \/ TurnAnswers

Next ==
    \/ \E s \in Sessions, text \in Texts, now \in BOOLEAN, reason \in {"wake", "manual", "cron"} :
          RpcWake(s, text, now, reason)
    \/ \E d \in Devices, v \in Profiles : DeviceReports(d, v, MainKey)
    \/ ListPresence
    \/ \E d \in Devices : DeviceSilent(d)
    \/ \E on \in BOOLEAN : SetHeartbeats(on)
    \/ IntervalTick
    \/ LoopStep

Spec == Init /\ [][Next]_vars

\* The loop ticks and a turn returns.
FairSpec == Spec /\ WF_vars(LoopStep)

-----------------------------------------------------------------------------
(* Properties.                                                              *)

Waits(i) == i \in DOMAIN fate /\ fate[i] = "queued" /\ i \notin IdsOf(loop.hand)

\* Every event that was accepted is in one queue or in the hands of the tick until it is
\* shown, or until a skipped or failed tick, the cap or the prompt of a finished command
\* accounts for it (enqueue_system_event_entry, drain_system_event_entries).
EventsAccountedFor ==
    \A i \in DOMAIN fate :
        LET holders == {s \in Sessions : i \in IdsOf(EventsOf(s))}
        IN Cardinality(holders) + (IF i \in IdsOf(loop.hand) THEN 1 ELSE 0)
           = IF fate[i] = "queued" THEN 1 ELSE 0

\* While a wake is pending no later request, and no retry of a failed tick, makes it
\* weaker (queue_pending_heartbeat_wake).
WakesNeverWeaken ==
    [][\A s \in Sessions : wakes[s] # None /\ wakes'[s] # None
                           => Priority(wakes'[s]) >= Priority(wakes[s])]_vars

\* An event posted with mode now is handed to a tick, unless heartbeats are switched off
\* (rpc_wake, the heartbeat loop).
UrgentIsHandled ==
    \A i \in 1..MaxPosts : (i \in urgent /\ Waits(i)) ~> (~Waits(i) \/ ~enabled)
=============================================================================
