---------------------------- MODULE SubagentRuns ----------------------------
(* The runs that sessions_spawn starts and the subagents tool kills and      *)
(* steers (crates/gateway-core/src/http/agent_bridge.rs): SUBAGENT_RUNS with *)
(* the task of each run, the cleanup flow that announces a run that ended,   *)
(* its retries, and a restart of the gateway.  Every change of the registry  *)
(* is written to subagent-runs.json under the same lock, so the registry is  *)
(* what a restart finds.  An action is what happens between two awaits.      *)
EXTENDS Naturals, FiniteSets, TLC, TLAPS

CONSTANTS
    Runs,           \* run ids; a session is named by the first run started in it
    Main,           \* the session of the user
    Requests,       \* what the call that spawns each run asks for: [requester, allowed,
                    \* thread, ready, mode, cleanup, expects]
    MaxSpawnDepth,  \* agents.defaults.subagents.maxSpawnDepth
    MaxChildren,    \* agents.defaults.subagents.maxChildrenPerAgent
    MaxRetryCount,  \* SUBAGENT_MAX_ANNOUNCE_RETRY_COUNT
    MaxMishaps,     \* bound: restarts, archive times and expiries
    MaxCalls,       \* bound: kill and steer calls
    NoEntry         \* no entry under a run id

VARIABLES
    registry,   \* SUBAGENT_RUNS: status and cleanup marks of each run
    info,       \* what the run was started with; the tasks hold copies of it
    task,       \* the task of the run: none, running, ended, flow or over
    aborted,    \* the tasks that were aborted through SUBAGENT_ABORTS and are not yet gone
    retry,      \* the retry task: none, sleeping (in SUBAGENT_CLEANUP_TASKS) or flow
    place,      \* where the cleanup flow of the run is
    sessions,   \* the child sessions that exist
    delivered,  \* SUBAGENT_ANNOUNCE_DELIVERED
    aged,       \* runs whose archive time has come
    expired,    \* runs that ended more than SUBAGENT_ANNOUNCE_EXPIRY_MS ago
    call,       \* the kill or steer call in progress
    calls,      \* how many there were
    mishaps,    \* how many restarts, archive times and expiries there were
    restarts,   \* restarts of the gateway
    announced,  \* history: how often the end of a run was told to its requester
    heard,      \* history: turns of the requester that were answered REPLY_SKIP or failed
    stopped,    \* history: runs whose entry was killed or steered before they had ended
    hit         \* history: runs whose cleanup was cut off by a restart or an abort

vars == <<registry, info, task, aborted, retry, place, sessions, delivered, aged, expired, call,
          calls, mishaps, restarts, announced, heard, stopped, hit>>

counters == <<calls, mishaps, restarts>>
tellings == <<announced, heard>>

Entry == [status : {"running", "done", "killed", "steered", "interrupted"},
          suppress : {"none", "killed", "steer-restart"},
          handled : BOOLEAN, completed : BOOLEAN, retries : 0..MaxRetryCount]

Info == [requester : Runs \cup {Main}, sess : Runs, cleanup : {"keep", "delete"},
         expects : BOOLEAN, bound : BOOLEAN, depth : 1..MaxSpawnDepth]

Request == [requester : Runs \cup {Main}, allowed : BOOLEAN, thread : BOOLEAN, ready : BOOLEAN,
            mode : {"default", "run", "session"}, cleanup : {"keep", "delete"}, expects : BOOLEAN]

ASSUME RequestsAssumption == Requests \in [Runs -> Request]
ASSUME LimitsAssumption == /\ MaxSpawnDepth \in Nat /\ MaxRetryCount \in Nat \ {0}
                           /\ MaxMishaps \in Nat /\ MaxCalls \in Nat
ASSUME NoEntryAssumption == NoEntry \notin Entry /\ NoEntry \notin Info
ASSUME MainAssumption == Main \notin Runs

Flow == {"begun", "muted", "announce", "told", "untold"}
Places == {"none", "asked"} \cup Flow

Calls == [op : {"none"}] \cup [op : {"kill"}, targets : SUBSET Runs, at : {"look", "kill"}]
         \cup [op : {"kill"}, targets : SUBSET Runs, at : {"mark"}, one : Runs]
         \cup [op : {"steer"}, old : Runs, at : {"look", "aborted", "stopped", "started"}]

Idle == [op |-> "none"]

TypeOK ==
    /\ registry \in [Runs -> Entry \cup {NoEntry}]
    /\ info \in [Runs -> Info \cup {NoEntry}]
    /\ task \in [Runs -> {"none", "running", "ended", "flow", "over"}]
    /\ retry \in [Runs -> {"none", "sleeping", "flow"}]
    /\ place \in [Runs -> Places]
    /\ sessions \subseteq Runs /\ delivered \subseteq Runs /\ aged \subseteq Runs /\ expired \subseteq Runs
    /\ call \in Calls
    /\ calls \in 0..MaxCalls /\ mishaps \in 0..MaxMishaps /\ restarts \in 0..mishaps
    /\ announced \in [Runs -> Nat] /\ heard \in [Runs -> Nat]
    /\ aborted \subseteq Runs /\ stopped \subseteq Runs /\ hit \subseteq Runs

Init ==
    /\ registry = [r \in Runs |-> NoEntry] /\ info = [r \in Runs |-> NoEntry]
    /\ task = [r \in Runs |-> "none"] /\ retry = [r \in Runs |-> "none"]
    /\ place = [r \in Runs |-> "none"]
    /\ aborted = {} /\ sessions = {} /\ delivered = {} /\ aged = {} /\ expired = {}
    /\ call = Idle
    /\ calls = 0 /\ mishaps = 0 /\ restarts = 0
    /\ announced = [r \in Runs |-> 0] /\ heard = [r \in Runs |-> 0] /\ stopped = {} /\ hit = {}

-----------------------------------------------------------------------------
(* The registry.                                                            *)

Has(r) == registry[r] # NoEntry

Ended(r) == Has(r) /\ registry[r].status # "running"

Active(r) == Has(r) /\ registry[r].status = "running"

\* A cleanup flow is working on the run.
InFlow(r) == place[r] \in Flow

\* sweep_archived_subagent_runs: ended runs whose archive time has come leave.
Swept == [r \in Runs |-> IF r \in aged /\ Ended(r) THEN NoEntry ELSE registry[r]]

\* collect_descendant_runs over a swept registry: the runs below a session.
Children(reg, keys) == {r \in Runs : reg[r] # NoEntry /\ info[r].requester \in keys}

Descendants(reg, key) ==
    LET below[n \in 0..Cardinality(Runs)] ==
            IF n = 0 THEN Children(reg, {key})
            ELSE below[n - 1] \cup Children(reg, {info[r].sess : r \in below[n - 1]})
    IN below[Cardinality(Runs)]

ActiveDescendants(reg, key) == {r \in Runs : r \in Descendants(reg, key) /\ reg[r].status = "running"}

\* patch_run does nothing when the entry is gone.
Patched(reg, r, e) == IF reg[r] = NoEntry THEN reg ELSE [reg EXCEPT ![r] = e]

\* Mutant: entries that a cleanup is working on are resumed as well.
ResumedAll(reg) ==
    [r \in Runs |-> IF /\ reg[r] # NoEntry /\ reg[r].status # "running" /\ ~reg[r].completed
                       /\ retry[r] = "none"
                    THEN "sleeping" ELSE retry[r]]

\* resume_pending_subagent_cleanup_tasks: a retry for every ended run whose cleanup
\* is neither done nor taken, unless one is scheduled.
Resumed(reg) ==
    [r \in Runs |-> IF /\ reg[r] # NoEntry /\ reg[r].status # "running" /\ ~reg[r].completed
                       /\ ~reg[r].handled /\ retry[r] = "none"
                    THEN "sleeping" ELSE retry[r]]

\* A session has an agent that can call tools: the user's, or one whose run is running.
CanCall(q) == q = Main \/ \E p \in Runs : info[p] # NoEntry /\ info[p].sess = q /\ task[p] = "running"

Depth(q) == IF q = Main THEN 0 ELSE info[q].depth

\* Calls of the agent of run p that were in progress end with it.
CallsDropped(p) ==
    [r \in Runs |-> IF place[r] = "asked" /\ info[r].requester = info[p].sess THEN "none" ELSE place[r]]

-----------------------------------------------------------------------------
(* sessions_spawn.                                                          *)

\* A run is one shot unless its session is to stay bound to a thread.
SpawnMode(req) == IF req.mode # "default" THEN req.mode ELSE IF req.thread THEN "session" ELSE "run"

\* Refused: an agent that is not allowed, a session without a thread, a thread that the
\* subagent_spawning hook could not bind.
Acceptable(req) == req.allowed /\ (SpawnMode(req) = "session" => req.thread) /\ (req.thread => req.ready)

SpawnCleanup(req) == IF SpawnMode(req) = "session" THEN "keep" ELSE req.cleanup

\* The limits are checked and the child session is created.
SpawnChecked(r) ==
    LET q == Requests[r].requester IN
    /\ info[r] = NoEntry /\ CanCall(q)
    /\ Acceptable(Requests[r])
    /\ Depth(q) < MaxSpawnDepth
    /\ Cardinality({c \in Children(Swept, {q}) : Swept[c].status = "running"}) < MaxChildren
    /\ info' = [info EXCEPT ![r] = [requester |-> q, sess |-> r, cleanup |-> SpawnCleanup(Requests[r]),
                                    expects |-> Requests[r].expects,
                                    bound |-> SpawnMode(Requests[r]) = "session",
                                    depth |-> Depth(q) + 1]]
    /\ sessions' = sessions \cup {r}
    /\ registry' = Swept
    /\ place' = [place EXCEPT ![r] = "asked"]
    /\ UNCHANGED <<task, aborted, retry, delivered, aged, expired, call, counters, tellings, stopped, hit>>

NewEntry == [status |-> "running", suppress |-> "none", handled |-> FALSE, completed |-> FALSE, retries |-> 0]

\* start_subagent_run_task: pending cleanups are resumed, the entry is written and the
\* task spawned, which nobody sees before it does something.  The handle in SUBAGENT_ABORTS
\* follows, see Abort.  A call whose own run was stopped meanwhile is dropped.
SpawnStarted(r) ==
    /\ place[r] = "asked" /\ CanCall(info[r].requester)
    /\ registry' = [Swept EXCEPT ![r] = NewEntry]
    /\ retry' = Resumed(Swept)
    /\ task' = [task EXCEPT ![r] = "running"]
    /\ place' = [place EXCEPT ![r] = "none"]
    /\ UNCHANGED <<info, aborted, sessions, delivered, aged, expired, call, counters, tellings, stopped, hit>>

-----------------------------------------------------------------------------
(* The task of a run.                                                       *)

\* The agent answers, fails or times out; the answer goes to the child session and
\* the end to the registry, over whatever a kill or steer call has written there.
RunEnds(r) ==
    /\ task[r] = "running"
    /\ registry' = Patched(registry, r, [registry[r] EXCEPT !.status = "done", !.handled = FALSE,
                                                             !.completed = FALSE])
    /\ task' = [task EXCEPT ![r] = "ended"]
    /\ place' = CallsDropped(r)
    /\ UNCHANGED <<info, aborted, retry, sessions, delivered, aged, expired, call, counters, tellings, stopped, hit>>

\* An aborted task is gone where it waits: in the turn of its agent, or in its flow, which
\* nobody goes on with.  A flow does not wait before it has looked for active runs below.
CutOff(r) ==
    /\ r \in aborted /\ task[r] \in {"running", "flow"}
    /\ place[r] \in {"begun", "muted"} => r \in expired
    /\ task' = [task EXCEPT ![r] = "over"]
    /\ place' = IF task[r] = "flow" THEN [place EXCEPT ![r] = "none"] ELSE CallsDropped(r)
    /\ hit' = IF task[r] = "flow" THEN hit \cup {r} ELSE hit
    /\ aborted' = aborted \ {r}
    /\ UNCHANGED <<registry, info, retry, sessions, delivered, aged, expired, call, counters,
                   tellings, stopped>>

\* begin_subagent_cleanup: only one flow at a time works on a run.
MayBegin(r) == Has(r) /\ ~registry[r].completed /\ ~registry[r].handled

\* A flow that finds the run steered returns at once, and leaves the mark.
MayFlow(r) == MayBegin(r) /\ registry[r].suppress # "steer-restart"

\* A flow that finds the run killed will not announce it.
Begin(r) ==
    /\ registry' = IF MayBegin(r) THEN [registry EXCEPT ![r].handled = TRUE] ELSE registry
    /\ place' = IF MayFlow(r)
                THEN [place EXCEPT ![r] = IF registry[r].suppress = "killed" THEN "muted" ELSE "begun"]
                ELSE place

\* The run's own task goes on with the cleanup flow.
TaskBegins(r) ==
    /\ task[r] = "ended"
    /\ Begin(r)
    /\ task' = [task EXCEPT ![r] = IF MayFlow(r) THEN "flow" ELSE "over"]
    /\ aborted' = IF MayFlow(r) THEN aborted ELSE aborted \ {r}
    /\ UNCHANGED <<info, retry, sessions, delivered, aged, expired, call, counters, tellings, stopped, hit>>

\* A scheduled retry wakes up.
RetryBegins(r) ==
    /\ retry[r] = "sleeping"
    /\ Begin(r)
    /\ retry' = [retry EXCEPT ![r] = IF MayFlow(r) THEN "flow" ELSE "none"]
    /\ UNCHANGED <<info, task, aborted, sessions, delivered, aged, expired, call, counters, tellings, stopped, hit>>

-----------------------------------------------------------------------------
(* run_subagent_cleanup_flow.                                               *)

FlowTask(r) == IF task[r] = "flow" THEN [task EXCEPT ![r] = "over"] ELSE task

\* The flow returns; with a retry scheduled when again is true.
FlowReturns(r, again) ==
    /\ place' = [place EXCEPT ![r] = "none"]
    /\ task' = FlowTask(r) /\ aborted' = IF task[r] = "flow" THEN aborted \ {r} ELSE aborted
    /\ retry' = [retry EXCEPT ![r] = IF again THEN "sleeping" ELSE IF @ = "flow" THEN "none" ELSE @]

\* finalize_subagent_cleanup.
Finalized(reg, r, mode) ==
    IF mode = "delete" THEN [reg EXCEPT ![r] = NoEntry]
    ELSE Patched(reg, r, [reg[r] EXCEPT !.completed = TRUE, !.handled = TRUE])

SessionsAfter(reg, r, mode) ==
    IF mode = "delete" /\ reg[r] # NoEntry THEN sessions \ {info[r].sess} ELSE sessions

\* Runs below this one are still active: later, or for good after the expiry.
Defer(r) ==
    /\ place[r] \in {"begun", "muted"}
    /\ info[r].expects /\ ActiveDescendants(Swept, info[r].sess) # {}
    /\ IF r \in expired
       THEN registry' = Finalized(Swept, r, "keep") /\ FlowReturns(r, FALSE)
       ELSE /\ registry' = Patched(Swept, r, [Swept[r] EXCEPT !.handled = FALSE])
            /\ FlowReturns(r, TRUE)
    /\ UNCHANGED <<info, sessions, delivered, aged, expired, call, counters, tellings, stopped, hit>>

\* Who is told: the requester, or its own requester when it is a subagent session
\* without an active run that no longer exists; nobody when that is unknown too.
Requesters(r) ==
    LET q == info[r].requester
        above == {p \in Runs : Swept[p] # NoEntry /\ info[p].sess = q}
    IN IF q = Main \/ q \in sessions \/ \E p \in above : Swept[p].status = "running" THEN {q}
       ELSE {info[p].requester : p \in above}

\* The flow waits for the output of the run when a subagent is to be told.
GoesOn(r) == task[r] = "flow" /\ r \in aborted => Main \in Requesters(r)

\* The reply of the run is looked up in its session, with retries.
LookUpReply(r) ==
    /\ place[r] \in {"begun", "muted"}
    /\ ~(info[r].expects /\ ActiveDescendants(Swept, info[r].sess) # {})
    /\ registry' = IF info[r].expects THEN Swept ELSE registry
    /\ place' = [place EXCEPT ![r] = IF @ = "muted" THEN "untold" ELSE "announce"]
    /\ UNCHANGED <<info, task, aborted, retry, sessions, delivered, aged, expired, call, counters, tellings, stopped, hit>>

Told(r, yes) ==
    /\ GoesOn(r)
    /\ place' = [place EXCEPT ![r] = IF yes THEN "told" ELSE "untold"]
    /\ announced' = IF yes THEN [announced EXCEPT ![r] = @ + 1] ELSE announced
    /\ registry' = Swept
    /\ UNCHANGED <<info, task, aborted, retry, aged, expired, call, counters, stopped, hit>>

\* The requester is a subagent: a turn in its session, which may fail or be answered
\* REPLY_SKIP, and then counts as not told.  run_agent_step creates the session when it is
\* gone.  A requester that is gone, and whose own requester is unknown, has no turn.
TellSubagent(r) ==
    /\ place[r] = "announce"
    /\ Main \notin Requesters(r)
    /\ \/ Requesters(r) = {} /\ Told(r, FALSE) /\ UNCHANGED heard
       \/ Requesters(r) # {} /\ Told(r, TRUE) /\ UNCHANGED heard
       \/ Requesters(r) # {} /\ Told(r, FALSE) /\ heard' = [heard EXCEPT ![r] = @ + 1]
    /\ sessions' = sessions \cup Requesters(r)
    /\ UNCHANGED delivered

\* The requester is the user: a message to its channel, unless other runs of the
\* requester are active; then, and when the message fails, the announce queue, which
\* may be full.  No channel may be known.  An aborted task does not get past the message.
TellUser(r) ==
    LET direct == info[r].bound \/ ActiveDescendants(Swept, Main) = {}
        doomed == task[r] = "flow" /\ r \in aborted
    IN /\ place[r] = "announce"
       /\ Main \in Requesters(r)
       /\ \/ r \in delivered /\ Told(r, TRUE) /\ UNCHANGED delivered
          \/ /\ r \notin delivered /\ direct /\ ~doomed
             /\ Told(r, TRUE) /\ delivered' = delivered \cup {r}
          \/ /\ r \notin delivered /\ info[r].expects /\ (doomed => ~direct)
             /\ Told(r, TRUE) /\ UNCHANGED delivered
          \/ r \notin delivered /\ Told(r, FALSE) /\ UNCHANGED delivered
       /\ UNCHANGED <<sessions, heard>>

\* Told, or nobody waits for it: the hook is called and the cleanup is done.
\* Otherwise another try, until there were enough of them or it is too late.
Settle(r) ==
    /\ place[r] \in {"told", "untold"}
    /\ LET told == place[r] = "told" \/ ~info[r].expects
           tries == IF Has(r) THEN registry[r].retries + 1 ELSE 1
           counted == Patched(registry, r, [registry[r] EXCEPT !.retries = tries])
       IN IF told
          THEN /\ registry' = Finalized(registry, r, info[r].cleanup)
               /\ sessions' = SessionsAfter(registry, r, info[r].cleanup)
               /\ FlowReturns(r, FALSE)
          ELSE IF tries >= MaxRetryCount \/ r \in expired
          THEN /\ registry' = Finalized(counted, r, "keep")
               /\ FlowReturns(r, FALSE)
               /\ UNCHANGED sessions
          ELSE /\ registry' = Patched(counted, r, [counted[r] EXCEPT !.handled = FALSE])
               /\ FlowReturns(r, TRUE)
               /\ UNCHANGED sessions
    /\ UNCHANGED <<info, delivered, aged, expired, call, counters, tellings, stopped, hit>>

-----------------------------------------------------------------------------
(* The subagents tool.                                                      *)

\* list, agents, info and log: they resume pending cleanups and sweep.
ListRuns ==
    /\ registry' = Swept
    /\ retry' = Resumed(Swept)
    /\ <<registry, retry>> # <<registry', retry'>>
    /\ UNCHANGED <<info, task, aborted, place, sessions, delivered, aged, expired, call, counters, tellings,
                   stopped, hit>>

\* The handle of a run is taken and its task aborted: it goes on until it has to wait for
\* something.  An abort that comes before the handle does finds none, and the task goes on;
\* here that may happen at any time.
Abort(r) == aborted' = aborted \/ (task[r] \in {"running", "ended", "flow"} /\ aborted' = aborted \cup {r})

\* Mutant: nothing is left to keep a late end from being announced.
MarkOnly(r, status, why) ==
    /\ registry' = Patched(registry, r, [registry[r] EXCEPT !.status = status, !.handled = TRUE,
                                                            !.completed = TRUE])
    /\ stopped' = IF Active(r) THEN stopped \cup {r} ELSE stopped

\* The entry is marked so that no cleanup flow will announce it.
Mark(r, status, why) ==
    /\ registry' = Patched(registry, r, [registry[r] EXCEPT !.status = status, !.suppress = why,
                                                            !.handled = TRUE, !.completed = TRUE])
    /\ stopped' = IF Active(r) THEN stopped \cup {r} ELSE stopped

\* kill lists the running runs of the caller, one or all of them, then waits.
KillLooks(q) ==
    /\ call = Idle /\ calls < MaxCalls
    /\ LET running == {r \in Children(Swept, {q}) : Swept[r].status = "running"}
       IN  \E targets \in {{r} : r \in running} \cup {running} :
              targets # {} /\ call' = [op |-> "kill", targets |-> targets, at |-> "look"]
    /\ registry' = Swept /\ retry' = Resumed(Swept)
    /\ calls' = calls + 1
    /\ UNCHANGED <<info, task, aborted, place, sessions, delivered, aged, expired, mishaps, restarts, tellings, stopped, hit>>

\* The active runs below the targets are to be killed as well (no await lies between the
\* looks at the single targets).
KillCollects ==
    /\ call.op = "kill" /\ call.at = "look"
    /\ call' = [op |-> "kill", at |-> "kill",
                targets |-> call.targets
                            \cup UNION {ActiveDescendants(Swept, info[r].sess) : r \in call.targets}]
    /\ registry' = Swept
    /\ UNCHANGED <<info, task, aborted, retry, place, sessions, delivered, aged, expired, counters, tellings, stopped, hit>>

\* kill_run_entry for one of them after the other, whatever has become of it: the task is
\* aborted, then the entry is marked and the session removed.
KillOne(r) ==
    /\ call.op = "kill" /\ call.at = "kill" /\ r \in call.targets
    /\ Abort(r)
    /\ call' = [op |-> "kill", targets |-> call.targets \ {r}, at |-> "mark", one |-> r]
    /\ UNCHANGED <<registry, info, task, retry, place, sessions, delivered, aged, expired, counters,
                   tellings, stopped, hit>>

KillMarks ==
    /\ call.op = "kill" /\ call.at = "mark"
    /\ Mark(call.one, "killed", "killed")
    /\ sessions' = IF info[call.one].cleanup = "delete" THEN sessions \ {info[call.one].sess} ELSE sessions
    /\ call' = IF call.targets = {} THEN Idle ELSE [op |-> "kill", targets |-> call.targets, at |-> "kill"]
    /\ UNCHANGED <<info, task, aborted, retry, place, delivered, aged, expired, counters, tellings, hit>>

SteerLooks(r) ==
    /\ call = Idle /\ calls < MaxCalls /\ Active(r)
    /\ call' = [op |-> "steer", old |-> r, at |-> "look"]
    /\ registry' = Swept /\ retry' = Resumed(Swept)
    /\ calls' = calls + 1
    /\ UNCHANGED <<info, task, aborted, place, sessions, delivered, aged, expired, mishaps, restarts, tellings, stopped, hit>>

\* The task is aborted, then the entry marked and the message added to the session.
SteerAborts ==
    /\ call.op = "steer" /\ call.at = "look"
    /\ Abort(call.old)
    /\ call' = [call EXCEPT !.at = "aborted"]
    /\ UNCHANGED <<registry, info, task, retry, place, sessions, delivered, aged, expired, counters,
                   tellings, stopped, hit>>

SteerMarks ==
    /\ call.op = "steer" /\ call.at = "aborted"
    /\ Mark(call.old, "steered", "steer-restart")
    /\ call' = [call EXCEPT !.at = "stopped"]
    /\ UNCHANGED <<info, task, aborted, retry, place, sessions, delivered, aged, expired, counters, tellings, hit>>

\* start_subagent_run_task with the message as the task, in the same session.
SteerStarts(n) ==
    /\ call.op = "steer" /\ call.at = "stopped"
    /\ info[n] = NoEntry
    /\ info' = [info EXCEPT ![n] = info[call.old]]
    /\ registry' = [Swept EXCEPT ![n] = NewEntry]
    /\ retry' = Resumed(Swept)
    /\ task' = [task EXCEPT ![n] = "running"]
    /\ call' = [call EXCEPT !.at = "started"]
    /\ UNCHANGED <<aborted, place, sessions, delivered, aged, expired, counters, tellings, stopped, hit>>

\* The new run could not be started; the old one stays stopped.
SteerFails ==
    /\ call.op = "steer" /\ call.at = "stopped"
    /\ call' = Idle
    /\ UNCHANGED <<registry, info, task, aborted, retry, place, sessions, delivered, aged, expired, counters,
                   tellings, stopped, hit>>

\* The entry of the old run is removed.
SteerDrops ==
    /\ call.op = "steer" /\ call.at = "started"
    /\ registry' = [registry EXCEPT ![call.old] = NoEntry]
    /\ call' = Idle
    /\ UNCHANGED <<info, task, aborted, retry, place, sessions, delivered, aged, expired, counters, tellings, stopped, hit>>

-----------------------------------------------------------------------------
(* Time and restarts.                                                       *)

\* The archive time comes, which a run that is bound to a thread gets when it is killed,
\* steered or interrupted; nobody looks at it before the run has ended.
Age(r) ==
    /\ Ended(r) /\ r \notin aged
    /\ info[r].bound => registry[r].suppress # "none" \/ registry[r].status = "interrupted"
    /\ aged' = aged \cup {r}
    /\ mishaps < MaxMishaps /\ mishaps' = mishaps + 1
    /\ UNCHANGED <<registry, info, task, aborted, retry, place, sessions, delivered, expired, call, calls, restarts,
                   tellings, stopped, hit>>

\* The age of the end is read when a flow begins, and only then.
Expire(r) ==
    /\ Ended(r) /\ MayBegin(r) /\ r \notin expired /\ place[r] = "none"
    /\ expired' = expired \cup {r}
    /\ mishaps < MaxMishaps /\ mishaps' = mishaps + 1
    /\ UNCHANGED <<registry, info, task, aborted, retry, place, sessions, delivered, aged, call, calls, restarts,
                   tellings, stopped, hit>>

\* A run that had not ended when the gateway stopped.
Interrupted(e) == [e EXCEPT !.status = "interrupted", !.handled = FALSE, !.completed = FALSE]

\* ensure_subagent_registry_loaded: what the file holds, with the runs that had not ended
\* marked as interrupted.  Tasks, timers and delivery marks are gone.
Restart ==
    /\ mishaps < MaxMishaps /\ mishaps' = mishaps + 1
    /\ restarts' = restarts + 1
    /\ registry' = [r \in Runs |-> IF Active(r) THEN Interrupted(registry[r]) ELSE registry[r]]
    /\ hit' = hit \cup {r \in Runs : InFlow(r)}
    /\ task' = [r \in Runs |-> IF task[r] = "none" THEN "none" ELSE "over"]
    /\ retry' = [r \in Runs |-> "none"]
    /\ place' = [r \in Runs |-> "none"]
    /\ aborted' = {} /\ delivered' = {}
    /\ call' = Idle
    /\ UNCHANGED <<calls, info, sessions, aged, expired, tellings, stopped>>

-----------------------------------------------------------------------------
TaskStep(r) ==
    \/ RunEnds(r) \/ CutOff(r) \/ TaskBegins(r) \/ RetryBegins(r)
    \/ Defer(r) \/ LookUpReply(r) \/ TellSubagent(r) \/ TellUser(r) \/ Settle(r)

CallStep ==
    \/ KillCollects
    \/ \E r \in Runs : KillOne(r)
    \/ KillMarks
    \/ SteerAborts
    \/ SteerMarks
    \/ \E n \in Runs : SteerStarts(n)
    \/ SteerFails
    \/ SteerDrops

Next ==
    \/ \E r \in Runs : SpawnChecked(r)
    \/ \E r \in Runs : SpawnStarted(r)
    \/ \E r \in Runs : TaskStep(r)
    \/ ListRuns
    \/ \E q \in Runs \cup {Main} : KillLooks(q)
    \/ \E r \in Runs : SteerLooks(r)
    \/ CallStep
    \/ \E r \in Runs : Age(r) \/ Expire(r)
    \/ Restart

Spec == Init /\ [][Next]_vars

\* Runs time out, sleeps end and calls go on.  Nobody has to spawn, list, kill or steer.
Fairness == (\A r \in Runs : WF_vars(TaskStep(r))) /\ WF_vars(CallStep)

FairSpec == Spec /\ Fairness

-----------------------------------------------------------------------------
(* Properties.                                                              *)

\* The end of a run is told at most once, directly, through the queue or by a turn of
\* the requester, whatever retries, resumed cleanups, late kills and restarts do; turns that
\* failed or were answered REPLY_SKIP are repeated, but all in all there are no more of them
\* than announce retries (run_subagent_cleanup_flow, begin_subagent_cleanup).
ToldOnce == \A r \in Runs : announced[r] <= 1 /\ announced[r] + heard[r] <= MaxRetryCount

\* A run whose entry was killed or steered before it had ended is never announced and no turn is
\* run for it, though its task may have been out of reach of the abort and go on to its end: its
\* successor, or nobody, speaks for it (kill_run_entry, subagents_steer, suppress_announce_reason).
StoppedIsSilent == \A r \in stopped : announced[r] = 0 /\ heard[r] = 0

\* An ended run whose cleanup is open has somebody to go on with it: its task, a retry, or after
\* a restart the next call that resumes.  Two cleanups stay open for good: one whose flow a restart
\* or an abort has cut off, and that of a run that ended although it was steered
\* (resume_pending_subagent_cleanup_tasks passes over what is marked as handled).
NobodyForgotten ==
    \A r \in Runs : Ended(r) /\ ~registry[r].completed =>
        \/ task[r] \in {"ended", "flow"} \/ retry[r] # "none"
        \/ registry[r].handled /\ (r \in hit \/ registry[r].suppress = "steer-restart")
        \/ restarts > 0 /\ ~registry[r].handled

\* Sooner or later the cleanup of every run that has ended is completed, or its entry is gone,
\* whatever retries, deferrals and late ends come before; unless the gateway restarts, an abort
\* cuts the flow off, or the run ended although it was steered (run_subagent_cleanup_flow).
CleanupSettles ==
    <>[](\/ restarts > 0
         \/ \A r \in Runs : Ended(r) =>
                registry[r].completed \/ r \in hit \/ registry[r].suppress = "steer-restart")

\* Every end is told once or not at all, as it should be, and none is forgotten.
EndsAreAccountedFor == TypeOK /\ ToldOnce /\ StoppedIsSilent /\ NobodyForgotten

-----------------------------------------------------------------------------
(* The instance that TLC checks: a run bound to a thread that the user's      *)
(* session waits for, and below it a one-shot run whose session is to be     *)
(* deleted.                                                                  *)

MCRequests ==
    ("r1" :> [requester |-> Main, allowed |-> TRUE, thread |-> TRUE, ready |-> TRUE,
              mode |-> "default", cleanup |-> "delete", expects |-> TRUE])
    @@ ("r2" :> [requester |-> "r1", allowed |-> TRUE, thread |-> FALSE, ready |-> FALSE,
                 mode |-> "run", cleanup |-> "delete", expects |-> FALSE])

-----------------------------------------------------------------------------
(* Proof that the ends are accounted for, for any number of runs, calls,     *)
(* restarts and other mishaps.                                               *)

\* A run id without a task has no entry, no cleanup and no history.
UnstartedIsBlank(r) ==
    /\ info[r] = NoEntry => task[r] = "none" /\ place[r] = "none"
    /\ place[r] = "asked" => task[r] = "none"
    /\ task[r] = "none" => /\ ~Has(r) /\ retry[r] = "none" /\ ~InFlow(r)
                          /\ announced[r] = 0 /\ heard[r] = 0 /\ r \notin stopped /\ r \notin aborted

\* A kill or steer call has aborted the task and marks the entry next.
AboutToMark(r) ==
    \/ call.op = "kill" /\ call.at = "mark" /\ call.one = r
    \/ call.op = "steer" /\ call.at = "aborted" /\ call.old = r

\* An entry says running while the task is at work, and after an abort until it is marked.
\* Nobody cleans up before the task has ended: its entry says running, or is closed, or is gone.
AtWorkIsActive(r) ==
    /\ Active(r) => task[r] = "running" \/ (task[r] = "over" /\ AboutToMark(r))
    /\ Active(r) /\ r \in aborted => AboutToMark(r)
    /\ Active(r) \/ task[r] = "running" =>
          /\ retry[r] = "none" /\ ~InFlow(r) /\ announced[r] = 0 /\ heard[r] = 0
          /\ Has(r) => registry[r].retries = 0 /\ (Active(r) \/ registry[r].completed)

\* One flow at most works on a run, the task's or the retry's, and holds the mark.
OneFlow(r) ==
    /\ InFlow(r) <=> task[r] = "flow" \/ retry[r] = "flow"
    /\ ~(task[r] = "flow" /\ retry[r] = "flow")
    /\ InFlow(r) /\ Has(r) => registry[r].handled /\ registry[r].retries < MaxRetryCount

\* An open cleanup has a try left; one that is marked is in a flow, was cut off, or belongs to
\* a run that was steered.
OpenIsHeld(r) ==
    Has(r) /\ ~registry[r].completed =>
        /\ registry[r].retries < MaxRetryCount
        /\ registry[r].handled => InFlow(r) \/ r \in hit \/ registry[r].suppress = "steer-restart"

\* An end that was told is told once and never cleaned up again.
ToldIsClosed(r) ==
    announced[r] # 0 => announced[r] = 1 /\ ~MayBegin(r) /\ place[r] \in {"none", "told"}

\* The flow has yet to tell.
Before(r) == place[r] \in {"begun", "muted", "announce"}

\* No more is told than there were tries, the one in progress included.
TellsAreCounted(r) ==
    /\ announced[r] + heard[r] <= MaxRetryCount
    /\ Before(r) => announced[r] + heard[r] < MaxRetryCount
    /\ Has(r) /\ (MayBegin(r) \/ Before(r)) => announced[r] + heard[r] <= registry[r].retries
    /\ Has(r) /\ InFlow(r) => announced[r] + heard[r] <= registry[r].retries + 1

\* A run that was stopped before it had ended is silent, and so is every flow that works on it.
StoppedIsMuted(r) ==
    r \in stopped =>
        /\ announced[r] = 0 /\ heard[r] = 0 /\ ~Active(r)
        /\ Has(r) => registry[r].suppress # "none"
        /\ place[r] \notin {"begun", "announce", "told"}

\* What NobodyForgotten says of one run.
IsRemembered(r) ==
    Ended(r) /\ ~registry[r].completed =>
        \/ task[r] \in {"ended", "flow"} \/ retry[r] # "none"
        \/ registry[r].handled /\ (r \in hit \/ registry[r].suppress = "steer-restart")
        \/ restarts > 0 /\ ~registry[r].handled

RunOK(r) ==
    /\ UnstartedIsBlank(r) /\ AtWorkIsActive(r) /\ OneFlow(r) /\ OpenIsHeld(r)
    /\ ToldIsClosed(r) /\ TellsAreCounted(r) /\ StoppedIsMuted(r) /\ IsRemembered(r)

\* A session is named by a run that was asked for, and the run that a steer call replaces
\* was started, and its entry closed before anything replaces it.
NamesAreKnown ==
    /\ \A r \in Runs : info[r] # NoEntry => info[info[r].sess] # NoEntry
    /\ call.op = "steer" => /\ task[call.old] # "none"
                            /\ call.at \in {"stopped", "started"} => ~Active(call.old)

\* The inductive invariant.
AccountInv == TypeOK /\ NamesAreKnown /\ \A r \in Runs : RunOK(r)

-----------------------------------------------------------------------------
\* What sweeping and resuming do to one run.
LEMMA SweptIs ==
    ASSUME TypeOK
    PROVE  /\ Swept \in [Runs -> Entry \cup {NoEntry}]
           /\ \A x \in Runs : Swept[x] = registry[x] \/ (Ended(x) /\ Swept[x] = NoEntry)
  BY DEF Swept, TypeOK

LEMMA ResumedIs ==
    ASSUME TypeOK
    PROVE  /\ Resumed(Swept) \in [Runs -> {"none", "sleeping", "flow"}]
           /\ \A x \in Runs : \/ Resumed(Swept)[x] = retry[x]
                              \/ /\ Ended(x) /\ MayBegin(x) /\ retry[x] = "none"
                                 /\ Resumed(Swept)[x] = "sleeping"
  <1>1. Resumed(Swept) \in [Runs -> {"none", "sleeping", "flow"}]
    BY DEF Resumed, TypeOK
  <1>2. ASSUME NEW x \in Runs, Resumed(Swept)[x] # retry[x]
        PROVE  Ended(x) /\ MayBegin(x) /\ retry[x] = "none" /\ Resumed(Swept)[x] = "sleeping"
    <2>1. /\ Swept[x] # NoEntry /\ Swept[x].status # "running" /\ ~Swept[x].completed
          /\ ~Swept[x].handled /\ retry[x] = "none" /\ Resumed(Swept)[x] = "sleeping"
      BY <1>2 DEF Resumed
    <2>2. Swept[x] = registry[x]
      BY <2>1, SweptIs
    <2> QED BY <2>1, <2>2 DEF Ended, MayBegin, Has
  <1> QED BY <1>1, <1>2

\* A run that a step only sweeps, schedules a retry for, or whose spawning call it drops.
LEMMA Bystander ==
    ASSUME NEW x \in Runs, RunOK(x), restarts' = restarts,
           registry'[x] = registry[x] \/ (Ended(x) /\ registry'[x] = NoEntry),
           task'[x] = task[x], info'[x] = info[x], announced'[x] = announced[x], heard'[x] = heard[x],
           place'[x] = place[x] \/ (place[x] = "asked" /\ place'[x] = "none"),
           \/ retry'[x] = retry[x]
           \/ Ended(x) /\ MayBegin(x) /\ retry[x] = "none" /\ retry'[x] = "sleeping",
           x \in stopped' <=> x \in stopped, x \in hit => x \in hit',
           Active(x) /\ AboutToMark(x) => AboutToMark(x)',
           x \in aborted' => x \in aborted \/ (task[x] # "none" /\ AboutToMark(x)')
    PROVE  RunOK(x)'
  <1> USE DEF RunOK, Has, Ended, Active, MayBegin, InFlow, Flow, Before
  <1>1. UnstartedIsBlank(x)'
    BY DEF UnstartedIsBlank, AtWorkIsActive
  <1>2. AtWorkIsActive(x)'
    BY DEF AtWorkIsActive
  <1>3. OneFlow(x)'
    BY DEF OneFlow
  <1>4. OpenIsHeld(x)'
    BY DEF OpenIsHeld
  <1>5. ToldIsClosed(x)'
    BY DEF ToldIsClosed
  <1>6. TellsAreCounted(x)'
    BY DEF TellsAreCounted
  <1>7. StoppedIsMuted(x)'
    BY DEF StoppedIsMuted
  <1>8. IsRemembered(x)'
    BY DEF IsRemembered
  <1> QED BY <1>1, <1>2, <1>3, <1>4, <1>5, <1>6, <1>7, <1>8

\* patch_run changes one entry, if it is there.
LEMMA PatchedIs ==
    ASSUME NEW reg \in [Runs -> Entry \cup {NoEntry}], NEW r \in Runs, NEW e, reg[r] # NoEntry => e \in Entry
    PROVE  /\ Patched(reg, r, e) \in [Runs -> Entry \cup {NoEntry}]
           /\ Patched(reg, r, e)[r] = IF reg[r] = NoEntry THEN NoEntry ELSE e
           /\ \A x \in Runs : x # r => Patched(reg, r, e)[x] = reg[x]
  BY DEF Patched

\* A call that is dropped with its caller.
LEMMA DroppedIs ==
    ASSUME TypeOK, NEW r \in Runs, place' = CallsDropped(r)
    PROVE  /\ place' \in [Runs -> Places]
           /\ \A x \in Runs : place'[x] = place[x] \/ (place[x] = "asked" /\ place'[x] = "none")
  BY DEF TypeOK, CallsDropped, Places

\* The agent ends, whatever its entry says by then.
LEMMA RunEndsStep == ASSUME AccountInv, NEW r \in Runs, RunEnds(r) PROVE AccountInv'
  <1>0. TypeOK /\ RunOK(r) /\ task[r] = "running"
    BY DEF AccountInv, RunEnds
  <1> DEFINE e == [registry[r] EXCEPT !.status = "done", !.handled = FALSE, !.completed = FALSE]
  <1>1. Has(r) => /\ e \in Entry /\ e.status = "done" /\ e.handled = FALSE /\ e.completed = FALSE
                  /\ e.retries = registry[r].retries /\ e.suppress = registry[r].suppress
    BY <1>0 DEF Entry, Has, TypeOK
  <1> HIDE DEF e
  <1>2. registry' = Patched(registry, r, e) /\ task' = [task EXCEPT ![r] = "ended"] /\ place' = CallsDropped(r)
        /\ UNCHANGED <<info, aborted, retry, sessions, delivered, aged, expired, call, counters, tellings, stopped, hit>>
    BY DEF RunEnds, e
  <1>3. /\ registry' \in [Runs -> Entry \cup {NoEntry}]
        /\ registry'[r] = IF Has(r) THEN e ELSE NoEntry
        /\ \A x \in Runs : x # r => registry'[x] = registry[x]
    BY <1>0, <1>1, <1>2, PatchedIs DEF TypeOK, Has
  <1>4. /\ task' \in [Runs -> {"none", "running", "ended", "flow", "over"}] /\ task'[r] = "ended"
        /\ \A x \in Runs : x # r => task'[x] = task[x]
    BY <1>0, <1>2 DEF TypeOK
  <1>5. /\ place' \in [Runs -> Places]
        /\ \A x \in Runs : place'[x] = place[x] \/ (place[x] = "asked" /\ place'[x] = "none")
    BY <1>0, <1>2, DroppedIs
  <1>6. TypeOK'
    BY <1>0, <1>2, <1>3, <1>4, <1>5 DEF TypeOK, counters, tellings
  <1>7. \A x \in Runs : x # r => RunOK(x)'
    BY <1>2, <1>3, <1>4, <1>5, Bystander DEF AccountInv, counters, tellings, AboutToMark
  <1>8. RunOK(r)'
    <2> USE DEF RunOK, Has, Ended, Active, MayBegin, InFlow, Flow, Before
    <2>1. /\ retry'[r] = "none" /\ ~InFlow(r)' /\ announced'[r] = 0 /\ heard'[r] = 0
          /\ info'[r] # NoEntry /\ place'[r] # "asked"
      BY <1>0, <1>2, <1>5 DEF AtWorkIsActive, UnstartedIsBlank, tellings
    <2>2. Has(r) => e # NoEntry /\ e.retries = 0 /\ (r \in stopped => e.suppress # "none")
      BY <1>0, <1>1, NoEntryAssumption DEF AtWorkIsActive, StoppedIsMuted
    <2> QED BY <1>1, <1>2, <1>3, <1>4, <2>1, <2>2, LimitsAssumption
            DEF UnstartedIsBlank, AtWorkIsActive, OneFlow, OpenIsHeld, ToldIsClosed, TellsAreCounted,
                StoppedIsMuted, IsRemembered
  <1>9. NamesAreKnown'
    <2>1. \A x \in Runs : Active(x)' => Active(x)
      BY <1>1, <1>3 DEF Active, Has
    <2> QED BY <1>0, <1>2, <1>4, <2>1 DEF AccountInv, NamesAreKnown, TypeOK, Calls
  <1> QED BY <1>6, <1>7, <1>8, <1>9 DEF AccountInv

\* An aborted task is gone; its flow stays cut off.
LEMMA CutOffStep == ASSUME AccountInv, NEW r \in Runs, CutOff(r) PROVE AccountInv'
  <1>0. /\ TypeOK /\ RunOK(r) /\ task[r] \in {"running", "flow"} /\ r \in aborted
        /\ task' = [task EXCEPT ![r] = "over"] /\ aborted' = aborted \ {r}
        /\ hit' = IF task[r] = "flow" THEN hit \cup {r} ELSE hit
        /\ UNCHANGED <<registry, info, retry, sessions, delivered, aged, expired, call, counters, tellings, stopped>>
    BY DEF AccountInv, CutOff
  <1>1. /\ task' \in [Runs -> {"none", "running", "ended", "flow", "over"}] /\ task'[r] = "over"
        /\ \A x \in Runs : x # r => task'[x] = task[x]
    BY <1>0 DEF TypeOK
  <1>2. /\ place' \in [Runs -> Places]
        /\ \A x \in Runs : x # r \/ task[r] # "flow" =>
              place'[x] = place[x] \/ (place[x] = "asked" /\ place'[x] = "none")
        /\ task[r] = "flow" => place'[r] = "none"
    <2>1. CASE task[r] = "running"
      <3>1. place' = CallsDropped(r)
        BY <2>1 DEF CutOff
      <3> QED BY <1>0, <2>1, <3>1, DroppedIs
    <2>2. CASE task[r] = "flow"
      <3>1. place' = [place EXCEPT ![r] = "none"]
        BY <2>2 DEF CutOff
      <3> QED BY <1>0, <2>2, <3>1 DEF TypeOK, Places
    <2> QED BY <1>0, <2>1, <2>2
  <1>3. TypeOK'
    BY <1>0, <1>1, <1>2 DEF TypeOK, counters, tellings
  <1>4. \A x \in Runs : x # r => RunOK(x)'
    BY <1>0, <1>1, <1>2, Bystander DEF AccountInv, counters, tellings, AboutToMark
  <1>5. RunOK(r)'
    <2> USE DEF RunOK, Has, Ended, Active, MayBegin, InFlow, Flow, Before
    <2>1. /\ ~InFlow(r)' /\ place'[r] # "asked" /\ info'[r] # NoEntry /\ retry'[r] # "flow"
          /\ AboutToMark(r)' <=> AboutToMark(r)
      BY <1>0, <1>2 DEF AtWorkIsActive, UnstartedIsBlank, OneFlow, AboutToMark
    <2>2. Active(r) => task[r] = "running" /\ AboutToMark(r)
      BY <1>0 DEF AtWorkIsActive
    <2>3. UnstartedIsBlank(r)' /\ AtWorkIsActive(r)' /\ OneFlow(r)'
      BY <1>0, <1>1, <2>1, <2>2 DEF UnstartedIsBlank, AtWorkIsActive, OneFlow, tellings
    <2>4. OpenIsHeld(r)' /\ IsRemembered(r)'
      BY <1>0, <1>1, <2>1, <2>2 DEF OpenIsHeld, IsRemembered, OneFlow, AtWorkIsActive, counters
    <2>5. ToldIsClosed(r)' /\ TellsAreCounted(r)' /\ StoppedIsMuted(r)'
      BY <1>0, <1>1, <1>2, <2>1, <2>2 DEF ToldIsClosed, TellsAreCounted, StoppedIsMuted, tellings
    <2> QED BY <2>3, <2>4, <2>5
  <1>6. NamesAreKnown'
    BY <1>0, <1>1 DEF AccountInv, NamesAreKnown, TypeOK, Calls, Active, Has
  <1> QED BY <1>3, <1>4, <1>5, <1>6 DEF AccountInv

\* A task or a retry that wants to clean up takes the mark, or finds it taken; with the mark
\* it goes on with the flow, unless the run was steered.
LEMMA BeginStep ==
    ASSUME AccountInv, NEW r \in Runs, TaskBegins(r) \/ RetryBegins(r) PROVE AccountInv'
  <1>0. /\ TypeOK /\ RunOK(r) /\ Begin(r)
        /\ UNCHANGED <<info, sessions, delivered, aged, expired, call, counters, tellings, stopped, hit>>
    BY DEF AccountInv, TaskBegins, RetryBegins
  <1>1. /\ task' \in [Runs -> {"none", "running", "ended", "flow", "over"}]
        /\ retry' \in [Runs -> {"none", "sleeping", "flow"}]
        /\ \A x \in Runs : x # r => task'[x] = task[x] /\ retry'[x] = retry[x]
        /\ \/ task[r] = "ended" /\ retry'[r] = retry[r] /\ task'[r] = IF MayFlow(r) THEN "flow" ELSE "over"
           \/ retry[r] = "sleeping" /\ task'[r] = task[r] /\ retry'[r] = IF MayFlow(r) THEN "flow" ELSE "none"
        /\ aborted' \subseteq aborted
    BY <1>0 DEF TypeOK, TaskBegins, RetryBegins
  <1>2. /\ registry' \in [Runs -> Entry \cup {NoEntry}]
        /\ \A x \in Runs : x # r => registry'[x] = registry[x]
        /\ ~MayBegin(r) => registry'[r] = registry[r]
        /\ MayBegin(r) => /\ registry[r] \in Entry /\ registry'[r] \in Entry /\ registry'[r].handled = TRUE
                          /\ registry'[r].status = registry[r].status
                          /\ registry'[r].completed = registry[r].completed
                          /\ registry'[r].suppress = registry[r].suppress
                          /\ registry'[r].retries = registry[r].retries
    <2>1. CASE MayBegin(r)
      BY <1>0, <2>1 DEF Begin, TypeOK, MayBegin, Has, Entry
    <2>2. CASE ~MayBegin(r)
      BY <1>0, <2>2 DEF Begin, TypeOK
    <2> QED BY <2>1, <2>2
  <1>3. /\ place' \in [Runs -> Places] /\ \A x \in Runs : x # r => place'[x] = place[x]
        /\ ~MayFlow(r) => place'[r] = place[r]
        /\ MayFlow(r) => /\ place'[r] \in {"begun", "muted"}
                         /\ registry[r].suppress # "none" => place'[r] = "muted"
    <2>1. MayFlow(r) => registry[r] \in Entry /\ registry[r].suppress # "steer-restart"
      BY <1>0 DEF MayFlow, MayBegin, Has, TypeOK
    <2>2. MayFlow(r) => registry[r].suppress \in {"none", "killed"}
      BY <2>1 DEF Entry
    <2> QED BY <1>0, <2>2 DEF Begin, TypeOK, Places, Flow
  <1>4. TypeOK'
    BY <1>0, <1>1, <1>2, <1>3 DEF TypeOK, counters, tellings
  <1>5. \A x \in Runs : x # r => RunOK(x)'
    BY <1>0, <1>1, <1>2, <1>3, Bystander DEF AccountInv, counters, tellings, AboutToMark
  <1>6. /\ task[r] \notin {"none", "running"} /\ ~Active(r) /\ info[r] # NoEntry /\ place[r] # "asked"
    BY <1>0, <1>1 DEF RunOK, UnstartedIsBlank, AtWorkIsActive
  <1>7. RunOK(r)'
    <2> USE DEF RunOK, Has, Ended, Active, MayBegin, InFlow, Flow, Before
    <2>1. CASE MayBegin(r)
      <3>1. /\ ~InFlow(r) /\ task[r] # "flow" /\ retry[r] # "flow" /\ announced[r] = 0
            /\ heard[r] <= registry[r].retries /\ registry[r].retries < MaxRetryCount
            /\ registry'[r] # NoEntry /\ heard[r] \in Nat /\ registry[r].retries \in Nat
        <4>1. ~InFlow(r)
          BY <1>0, <2>1 DEF OneFlow
        <4>2. task[r] # "flow" /\ retry[r] # "flow"
          BY <1>0, <4>1 DEF OneFlow
        <4>3. announced[r] = 0
          BY <1>0, <2>1 DEF ToldIsClosed
        <4>4. registry[r].retries \in Nat /\ heard[r] \in Nat
          BY <1>0, <1>2, <2>1 DEF Entry, TypeOK
        <4>5. heard[r] <= registry[r].retries /\ registry[r].retries < MaxRetryCount
          BY <1>0, <2>1, <4>3, <4>4 DEF TellsAreCounted, OpenIsHeld
        <4>6. registry'[r] # NoEntry
          BY <1>2, <2>1, NoEntryAssumption
        <4> QED BY <4>1, <4>2, <4>3, <4>4, <4>5, <4>6
      <3>2. UnstartedIsBlank(r)' /\ AtWorkIsActive(r)' /\ OneFlow(r)'
        BY <1>0, <1>1, <1>2, <1>3, <1>6, <2>1, <3>1 DEF UnstartedIsBlank, AtWorkIsActive, OneFlow, MayFlow
      <3>3. OpenIsHeld(r)' /\ IsRemembered(r)'
        BY <1>0, <1>1, <1>2, <1>3, <1>6, <2>1, <3>1 DEF OpenIsHeld, IsRemembered, MayFlow
      <3>4. ToldIsClosed(r)' /\ StoppedIsMuted(r)'
        BY <1>0, <1>1, <1>2, <1>3, <1>6, <2>1, <3>1 DEF ToldIsClosed, StoppedIsMuted, MayFlow, tellings
      <3>5. TellsAreCounted(r)'
        BY <1>0, <1>2, <2>1, <3>1, LimitsAssumption DEF TellsAreCounted, tellings
      <3> QED BY <3>2, <3>3, <3>4, <3>5
    <2>2. CASE ~MayBegin(r)
      <3>0. ~MayFlow(r) /\ registry'[r] = registry[r] /\ place'[r] = place[r]
        BY <1>2, <1>3, <2>2 DEF MayFlow
      <3>1. UnstartedIsBlank(r)' /\ AtWorkIsActive(r)' /\ OneFlow(r)'
        BY <1>0, <1>1, <1>6, <2>2, <3>0 DEF UnstartedIsBlank, AtWorkIsActive, OneFlow
      <3>2. OpenIsHeld(r)' /\ ToldIsClosed(r)' /\ StoppedIsMuted(r)' /\ TellsAreCounted(r)'
        BY <1>0, <1>1, <1>6, <2>2, <3>0 DEF OpenIsHeld, ToldIsClosed, StoppedIsMuted, TellsAreCounted, tellings
      <3>3. IsRemembered(r)'
        BY <1>0, <1>1, <1>6, <2>2, <3>0 DEF IsRemembered, OpenIsHeld, OneFlow
      <3> QED BY <3>1, <3>2, <3>3
    <2> QED BY <2>1, <2>2
  <1>8. NamesAreKnown'
    <2>1. \A x \in Runs : Active(x)' => Active(x)
      BY <1>2, NoEntryAssumption DEF Active, Has, MayBegin
    <2> QED BY <1>0, <1>1, <1>6, <2>1 DEF AccountInv, NamesAreKnown, TypeOK, Calls
  <1> QED BY <1>4, <1>5, <1>7, <1>8 DEF AccountInv

-----------------------------------------------------------------------------
\* Whoever is in a flow has ended, and what it has yet to tell is counted.
LEMMA InFlowIs ==
    ASSUME TypeOK, NEW r \in Runs, RunOK(r), InFlow(r)
    PROVE  /\ task[r] \in {"ended", "flow", "over"} /\ ~Active(r)
           /\ info[r] \in Info /\ info[r] # NoEntry
           /\ place[r] # "told" => announced[r] = 0
           /\ Has(r) => /\ registry[r] \in Entry /\ registry[r].handled /\ registry[r].retries < MaxRetryCount
                        /\ announced[r] + heard[r] <= registry[r].retries + 1
           /\ Has(r) /\ Before(r) => announced[r] + heard[r] <= registry[r].retries
  <1>1. task[r] \notin {"none", "running"} /\ ~Active(r)
    BY DEF RunOK, UnstartedIsBlank, AtWorkIsActive
  <1>2. info[r] \in Info /\ info[r] # NoEntry
    BY <1>1, NoEntryAssumption DEF RunOK, UnstartedIsBlank, TypeOK
  <1>3. task[r] \in {"ended", "flow", "over"}
    BY <1>1 DEF TypeOK
  <1>4. place[r] # "told" => announced[r] = 0
    BY DEF RunOK, ToldIsClosed, InFlow, Flow
  <1>5. Has(r) => registry[r] \in Entry /\ registry[r].handled /\ registry[r].retries < MaxRetryCount
    BY DEF RunOK, OneFlow, TypeOK, Has
  <1>6. /\ Has(r) => announced[r] + heard[r] <= registry[r].retries + 1
        /\ Has(r) /\ Before(r) => announced[r] + heard[r] <= registry[r].retries
    BY DEF RunOK, TellsAreCounted
  <1> QED BY <1>1, <1>2, <1>3, <1>4, <1>5, <1>6

\* A flow returns: the entry is gone, or closed, or open again with a retry to come.
LEMMA FlowReturnsStep ==
    ASSUME AccountInv, NEW r \in Runs, InFlow(r), NEW again \in BOOLEAN, FlowReturns(r, again),
           UNCHANGED <<info, delivered, aged, expired, call, counters, tellings, stopped, hit>>,
           sessions' \subseteq Runs,
           registry' \in [Runs -> Entry \cup {NoEntry}],
           \A x \in Runs : x # r => registry'[x] = registry[x] \/ (Ended(x) /\ registry'[x] = NoEntry),
           \/ registry'[r] = NoEntry
           \/ /\ Has(r) /\ registry'[r].status = registry[r].status
              /\ registry'[r].suppress = registry[r].suppress
              /\ \/ registry'[r].completed
                 \/ /\ again /\ place[r] # "told"
                    /\ ~registry'[r].handled /\ registry'[r].retries < MaxRetryCount
                    /\ announced[r] + heard[r] <= registry'[r].retries
    PROVE  AccountInv'
  <1>0. TypeOK /\ RunOK(r)
    BY DEF AccountInv
  <1>1. /\ task[r] \in {"ended", "flow", "over"} /\ ~Active(r)
        /\ info[r] # NoEntry /\ (place[r] # "told" => announced[r] = 0)
    BY <1>0, InFlowIs
  <1>2. /\ place' \in [Runs -> Places] /\ place'[r] = "none"
        /\ \A x \in Runs : x # r => place'[x] = place[x]
    BY <1>0 DEF FlowReturns, TypeOK, Places
  <1>3. /\ task' \in [Runs -> {"none", "running", "ended", "flow", "over"}]
        /\ task'[r] = IF task[r] = "flow" THEN "over" ELSE task[r]
        /\ \A x \in Runs : x # r => task'[x] = task[x]
        /\ aborted' \subseteq aborted
    BY <1>0 DEF FlowReturns, FlowTask, TypeOK
  <1>4. /\ retry' \in [Runs -> {"none", "sleeping", "flow"}]
        /\ retry'[r] = IF again THEN "sleeping" ELSE IF retry[r] = "flow" THEN "none" ELSE retry[r]
        /\ \A x \in Runs : x # r => retry'[x] = retry[x]
    BY <1>0 DEF FlowReturns, TypeOK
  <1>5. TypeOK'
    BY <1>0, <1>2, <1>3, <1>4 DEF TypeOK, counters, tellings
  <1>6. \A x \in Runs : x # r => RunOK(x)'
    BY <1>2, <1>3, <1>4, Bystander DEF AccountInv, counters, tellings, AboutToMark
  <1>7. RunOK(r)'
    <2> USE DEF RunOK, Has, Ended, Active, MayBegin, InFlow, Flow, Before
    <2>1. UnstartedIsBlank(r)' /\ AtWorkIsActive(r)' /\ OneFlow(r)'
      BY <1>0, <1>1, <1>2, <1>3, <1>4 DEF UnstartedIsBlank, AtWorkIsActive, OneFlow
    <2>2. ToldIsClosed(r)' /\ StoppedIsMuted(r)'
      BY <1>0, <1>1, <1>2, <1>3, <1>4 DEF ToldIsClosed, StoppedIsMuted, tellings
    <2>3. OpenIsHeld(r)' /\ IsRemembered(r)'
      BY <1>0, <1>1, <1>2, <1>3, <1>4 DEF OpenIsHeld, IsRemembered
    <2>4. TellsAreCounted(r)'
      BY <1>0, <1>1, <1>2 DEF TellsAreCounted, tellings
    <2> QED BY <2>1, <2>2, <2>3, <2>4
  <1>8. NamesAreKnown'
    <2>1. \A x \in Runs : Active(x)' => Active(x)
      BY NoEntryAssumption DEF Active, Has
    <2> QED BY <1>0, <1>1, <1>3, <2>1 DEF AccountInv, NamesAreKnown, TypeOK, Calls
  <1> QED BY <1>5, <1>6, <1>7, <1>8 DEF AccountInv

\* finalize_subagent_cleanup closes the entry or removes it.
LEMMA FinalizedIs ==
    ASSUME NEW reg \in [Runs -> Entry \cup {NoEntry}], NEW r \in Runs, NEW mode
    PROVE  /\ Finalized(reg, r, mode) \in [Runs -> Entry \cup {NoEntry}]
           /\ \A x \in Runs : x # r => Finalized(reg, r, mode)[x] = reg[x]
           /\ \/ Finalized(reg, r, mode)[r] = NoEntry
              \/ /\ reg[r] # NoEntry /\ Finalized(reg, r, mode)[r].completed
                 /\ Finalized(reg, r, mode)[r].status = reg[r].status
                 /\ Finalized(reg, r, mode)[r].suppress = reg[r].suppress
  <1> DEFINE e == [reg[r] EXCEPT !.completed = TRUE, !.handled = TRUE]
  <1>1. reg[r] # NoEntry => /\ e \in Entry /\ e.completed = TRUE /\ e.status = reg[r].status
                           /\ e.suppress = reg[r].suppress
    BY DEF Entry
  <1> HIDE DEF e
  <1>2. CASE mode = "delete"
    BY <1>2 DEF Finalized
  <1>3. CASE mode # "delete"
    <2>1. Finalized(reg, r, mode) = Patched(reg, r, e)
      BY <1>3 DEF Finalized, e
    <2> QED BY <1>1, <2>1, PatchedIs
  <1> QED BY <1>2, <1>3

LEMMA DeferStep == ASSUME AccountInv, NEW r \in Runs, Defer(r) PROVE AccountInv'
  <1>0. /\ TypeOK /\ RunOK(r) /\ InFlow(r) /\ place[r] # "told" /\ Before(r)
        /\ UNCHANGED <<info, sessions, delivered, aged, expired, call, counters, tellings, stopped, hit>>
    BY DEF AccountInv, Defer, InFlow, Flow, Before
  <1>1. /\ Swept \in [Runs -> Entry \cup {NoEntry}]
        /\ \A x \in Runs : Swept[x] = registry[x] \/ (Ended(x) /\ Swept[x] = NoEntry)
    BY <1>0, SweptIs
  <1>2. sessions' \subseteq Runs
    BY <1>0 DEF TypeOK
  <1>3. CASE r \in expired
    <2>1. registry' = Finalized(Swept, r, "keep") /\ FlowReturns(r, FALSE)
      BY <1>3 DEF Defer
    <2>2. /\ registry' \in [Runs -> Entry \cup {NoEntry}]
          /\ \A x \in Runs : x # r => registry'[x] = Swept[x]
          /\ \/ registry'[r] = NoEntry
             \/ /\ Swept[r] # NoEntry /\ registry'[r].completed /\ registry'[r].status = Swept[r].status
                /\ registry'[r].suppress = Swept[r].suppress
      BY <1>1, <2>1, FinalizedIs
    <2>3. \/ registry'[r] = NoEntry
          \/ /\ Has(r) /\ registry'[r].status = registry[r].status /\ registry'[r].completed
             /\ registry'[r].suppress = registry[r].suppress
      BY <1>1, <2>2 DEF Has
    <2>4. \A x \in Runs : x # r => registry'[x] = registry[x] \/ (Ended(x) /\ registry'[x] = NoEntry)
      BY <1>1, <2>2
    <2> QED BY <1>0, <1>2, <2>1, <2>2, <2>3, <2>4, FlowReturnsStep
  <1>4. CASE r \notin expired
    <2> DEFINE e == [Swept[r] EXCEPT !.handled = FALSE]
    <2>1. ASSUME Swept[r] # NoEntry
          PROVE  /\ e \in Entry /\ e.handled = FALSE /\ e.status = registry[r].status
                 /\ e.suppress = registry[r].suppress /\ e.retries < MaxRetryCount /\ Has(r)
                 /\ announced[r] + heard[r] <= e.retries
      <3>1. Swept[r] = registry[r] /\ Has(r)
        BY <1>1, <2>1 DEF Has
      <3>2. /\ registry[r] \in Entry /\ registry[r].retries < MaxRetryCount
            /\ announced[r] + heard[r] <= registry[r].retries
        BY <1>0, <3>1, InFlowIs
      <3> QED BY <3>1, <3>2 DEF Entry
    <2>2. registry' = Patched(Swept, r, e) /\ FlowReturns(r, TRUE)
      BY <1>4 DEF Defer
    <2> HIDE DEF e
    <2>3. /\ registry' \in [Runs -> Entry \cup {NoEntry}]
          /\ \A x \in Runs : x # r => registry'[x] = Swept[x]
          /\ registry'[r] = IF Swept[r] = NoEntry THEN NoEntry ELSE e
      <3>1. Swept[r] # NoEntry => e \in Entry
        BY <2>1
      <3> QED BY <1>1, <2>2, <3>1, PatchedIs
    <2>4. \A x \in Runs : x # r => registry'[x] = registry[x] \/ (Ended(x) /\ registry'[x] = NoEntry)
      BY <1>1, <2>3
    <2> QED BY <1>0, <1>2, <2>1, <2>2, <2>3, <2>4, FlowReturnsStep
  <1> QED BY <1>3, <1>4

LEMMA SettleStep == ASSUME AccountInv, NEW r \in Runs, Settle(r) PROVE AccountInv'
  <1>0. /\ TypeOK /\ RunOK(r) /\ InFlow(r)
        /\ UNCHANGED <<info, delivered, aged, expired, call, counters, tellings, stopped, hit>>
    BY DEF AccountInv, Settle, InFlow, Flow
  <1>1. registry \in [Runs -> Entry \cup {NoEntry}] /\ sessions \subseteq Runs
    BY <1>0 DEF TypeOK
  <1> DEFINE told == place[r] = "told" \/ ~info[r].expects
             tries == IF Has(r) THEN registry[r].retries + 1 ELSE 1
             e == [registry[r] EXCEPT !.retries = tries]
             counted == Patched(registry, r, e)
  <1>2. Has(r) => /\ e \in Entry /\ e.status = registry[r].status /\ e.suppress = registry[r].suppress
                  /\ e.retries = tries /\ tries <= MaxRetryCount
    <2>1. Has(r) => registry[r] \in Entry /\ registry[r].retries < MaxRetryCount
      BY <1>0, InFlowIs
    <2> QED BY <2>1, LimitsAssumption DEF Entry
  <1>3. CASE told
    <2>1. /\ registry' = Finalized(registry, r, info[r].cleanup) /\ FlowReturns(r, FALSE)
          /\ sessions' = SessionsAfter(registry, r, info[r].cleanup)
      BY <1>3 DEF Settle
    <2>2. /\ registry' \in [Runs -> Entry \cup {NoEntry}]
          /\ \A x \in Runs : x # r => registry'[x] = registry[x]
          /\ \/ registry'[r] = NoEntry
             \/ /\ registry[r] # NoEntry /\ registry'[r].completed /\ registry'[r].status = registry[r].status
                /\ registry'[r].suppress = registry[r].suppress
      BY <1>1, <2>1, FinalizedIs
    <2>3. sessions' \subseteq Runs
      BY <1>1, <2>1 DEF SessionsAfter
    <2> QED BY <1>0, <2>1, <2>2, <2>3, FlowReturnsStep DEF Has
  <1>4. ASSUME ~told PROVE /\ place[r] # "told"
                           /\ counted \in [Runs -> Entry \cup {NoEntry}]
                           /\ counted[r] = IF Has(r) THEN e ELSE NoEntry
                           /\ \A x \in Runs : x # r => counted[x] = registry[x]
    <2> HIDE DEF e
    <2> QED BY <1>1, <1>2, <1>4, PatchedIs DEF Has
  <1>5. CASE ~told /\ (tries >= MaxRetryCount \/ r \in expired)
    <2>1. registry' = Finalized(counted, r, "keep") /\ FlowReturns(r, FALSE) /\ sessions' = sessions
      BY <1>5 DEF Settle
    <2> HIDE DEF counted, e
    <2>2. /\ registry' \in [Runs -> Entry \cup {NoEntry}]
          /\ \A x \in Runs : x # r => registry'[x] = counted[x]
          /\ \/ registry'[r] = NoEntry
             \/ /\ counted[r] # NoEntry /\ registry'[r].completed /\ registry'[r].status = counted[r].status
                /\ registry'[r].suppress = counted[r].suppress
      BY <1>4, <1>5, <2>1, FinalizedIs
    <2>3. \/ registry'[r] = NoEntry
          \/ /\ Has(r) /\ registry'[r].status = registry[r].status /\ registry'[r].completed
             /\ registry'[r].suppress = registry[r].suppress
      BY <1>2, <1>4, <1>5, <2>2
    <2>4. \A x \in Runs : x # r => registry'[x] = registry[x]
      BY <1>4, <1>5, <2>2
    <2> QED BY <1>0, <1>1, <2>1, <2>2, <2>3, <2>4, FlowReturnsStep
  <1>6. CASE ~told /\ ~(tries >= MaxRetryCount \/ r \in expired)
    <2> DEFINE o == [counted[r] EXCEPT !.handled = FALSE]
    <2>1. registry' = Patched(counted, r, o) /\ FlowReturns(r, TRUE) /\ sessions' = sessions
      BY <1>6 DEF Settle
    <2> HIDE DEF counted, e
    <2>2. ASSUME Has(r)
          PROVE  /\ o \in Entry /\ o.handled = FALSE /\ o.status = registry[r].status
                 /\ o.suppress = registry[r].suppress
                 /\ o.retries < MaxRetryCount /\ announced[r] + heard[r] <= o.retries
      <3>1. tries \in Nat
        BY <1>0, <2>2, InFlowIs DEF Entry
      <3>2. /\ counted[r] = e /\ e \in Entry /\ e.status = registry[r].status
            /\ e.suppress = registry[r].suppress /\ e.retries < MaxRetryCount /\ e.retries = tries
        BY <1>2, <1>4, <1>6, <2>2, <3>1, LimitsAssumption
      <3>3. announced[r] + heard[r] <= tries
        BY <1>0, <2>2, InFlowIs
      <3> QED BY <3>2, <3>3 DEF Entry
    <2> HIDE DEF o
    <2>3. /\ registry' \in [Runs -> Entry \cup {NoEntry}]
          /\ \A x \in Runs : x # r => registry'[x] = registry[x]
          /\ registry'[r] = IF Has(r) THEN o ELSE NoEntry
      <3>1. counted[r] # NoEntry => Has(r) /\ o \in Entry
        BY <1>4, <1>6, <2>2
      <3>2. Has(r) => counted[r] # NoEntry
        BY <1>2, <1>4, <1>6, NoEntryAssumption
      <3> QED BY <1>4, <1>6, <2>1, <3>1, <3>2, PatchedIs
    <2> QED BY <1>0, <1>1, <1>4, <1>6, <2>1, <2>2, <2>3, FlowReturnsStep
  <1> QED BY <1>3, <1>5, <1>6

\* A flow goes on, and tells the end when it gets that far; a muted one does not.
LEMMA FlowMovesStep ==
    ASSUME AccountInv, NEW r \in Runs, Before(r),
           NEW p \in {"announce", "told", "untold"}, place' = [place EXCEPT ![r] = p],
           place[r] = "muted" => p = "untold",
           registry' = registry \/ registry' = Swept,
           \/ announced' = announced /\ heard' = heard
           \/ p = "told" /\ announced' = [announced EXCEPT ![r] = announced[r] + 1] /\ heard' = heard
           \/ /\ p = "untold" /\ place[r] = "announce"
              /\ announced' = announced /\ heard' = [heard EXCEPT ![r] = heard[r] + 1],
           sessions' \subseteq Runs, delivered' \subseteq Runs,
           UNCHANGED <<info, task, aborted, retry, aged, expired, call, counters, stopped, hit>>
    PROVE  AccountInv'
  <1>0. TypeOK /\ RunOK(r) /\ InFlow(r) /\ announced[r] = 0
    BY DEF AccountInv, InFlow, Flow, Before, RunOK, ToldIsClosed
  <1>1. /\ registry' \in [Runs -> Entry \cup {NoEntry}]
        /\ \A x \in Runs : registry'[x] = registry[x] \/ (Ended(x) /\ registry'[x] = NoEntry)
    BY <1>0, SweptIs DEF TypeOK
  <1>2. place' \in [Runs -> Places] /\ place'[r] = p /\ \A x \in Runs : x # r => place'[x] = place[x]
    BY <1>0 DEF TypeOK, Places, Flow
  <1>3. /\ announced' \in [Runs -> Nat] /\ announced'[r] \in {0, 1} /\ (p # "told" => announced'[r] = 0)
        /\ heard' \in [Runs -> Nat]
        /\ announced'[r] + heard'[r] <= heard[r] + 1
        /\ p = "announce" => announced'[r] + heard'[r] = heard[r]
        /\ place[r] = "muted" => announced'[r] = 0 /\ heard'[r] = heard[r]
        /\ \A x \in Runs : x # r => announced'[x] = announced[x] /\ heard'[x] = heard[x]
    BY <1>0 DEF TypeOK
  <1>4. TypeOK'
    BY <1>0, <1>1, <1>2, <1>3 DEF TypeOK, counters
  <1>5. \A x \in Runs : x # r => RunOK(x)'
    BY <1>1, <1>2, <1>3, Bystander DEF AccountInv, counters, AboutToMark
  <1>6. RunOK(r)'
    <2>1. /\ task[r] \in {"ended", "flow", "over"} /\ ~Active(r) /\ info[r] # NoEntry
          /\ Has(r) => /\ registry[r].handled /\ registry[r].retries < MaxRetryCount
                       /\ registry[r] \in Entry /\ heard[r] <= registry[r].retries
          /\ heard[r] \in Nat /\ heard[r] < MaxRetryCount
      <3>1. /\ task[r] \in {"ended", "flow", "over"} /\ ~Active(r) /\ info[r] # NoEntry
            /\ Has(r) => /\ registry[r].handled /\ registry[r].retries < MaxRetryCount
                         /\ registry[r] \in Entry /\ announced[r] + heard[r] <= registry[r].retries
        BY <1>0, InFlowIs
      <3>2. heard[r] \in Nat /\ announced[r] + heard[r] < MaxRetryCount
        BY <1>0 DEF RunOK, TellsAreCounted, TypeOK
      <3> QED BY <1>0, <3>1, <3>2
    <2>2. InFlow(r)' /\ (Before(r)' => p = "announce")
      BY <1>2 DEF InFlow, Flow, Before
    <2> USE DEF RunOK, Has, Ended, Active, MayBegin
    <2>3. UnstartedIsBlank(r)' /\ AtWorkIsActive(r)' /\ OneFlow(r)'
      BY <1>0, <1>1, <1>2, <2>1, <2>2 DEF UnstartedIsBlank, AtWorkIsActive, OneFlow
    <2>4. ToldIsClosed(r)'
      BY <1>1, <1>2, <1>3, <2>1 DEF ToldIsClosed
    <2>5. OpenIsHeld(r)' /\ IsRemembered(r)'
      BY <1>0, <1>1, <2>1, <2>2 DEF OpenIsHeld, IsRemembered, counters
    <2>6. TellsAreCounted(r)'
      <3>1. announced'[r] \in Nat /\ heard'[r] \in Nat
        BY <1>3
      <3>2. Has(r)' => registry'[r] = registry[r] /\ Has(r) /\ registry[r].retries \in Nat
        BY <1>1, <2>1 DEF Entry
      <3> QED BY <1>3, <2>1, <2>2, <3>1, <3>2, LimitsAssumption DEF TellsAreCounted
    <2>7. StoppedIsMuted(r)'
      <3>1. r \in stopped => place[r] = "muted" /\ heard[r] = 0
        BY <1>0 DEF StoppedIsMuted, Before
      <3> QED BY <1>0, <1>1, <1>2, <1>3, <2>1, <3>1 DEF StoppedIsMuted
    <2> QED BY <2>3, <2>4, <2>5, <2>6, <2>7
  <1>7. NamesAreKnown'
    <2>1. \A x \in Runs : Active(x)' => Active(x)
      BY <1>1 DEF Active, Has
    <2> QED BY <1>0, <2>1 DEF AccountInv, NamesAreKnown, TypeOK, Calls
  <1> QED BY <1>4, <1>5, <1>6, <1>7 DEF AccountInv

\* Whoever has an entry was asked for.
LEMMA EntryHasInfo ==
    ASSUME AccountInv, NEW x \in Runs, Swept[x] # NoEntry \/ task[x] # "none" PROVE info[x] \in Info /\ info[x] # NoEntry
  <1>1. TypeOK /\ RunOK(x) /\ (Has(x) \/ task[x] # "none")
    BY SweptIs DEF AccountInv, Has
  <1> QED BY <1>1 DEF TypeOK, RunOK, UnstartedIsBlank

LEMMA TellStep ==
    ASSUME AccountInv, NEW r \in Runs, LookUpReply(r) \/ TellSubagent(r) \/ TellUser(r) PROVE AccountInv'
  <1>0. TypeOK
    BY DEF AccountInv
  <1>1. CASE LookUpReply(r)
    <2> DEFINE p == IF place[r] = "muted" THEN "untold" ELSE "announce"
    <2>1. /\ place[r] \in {"begun", "muted"} /\ place' = [place EXCEPT ![r] = p]
          /\ announced' = announced /\ heard' = heard
          /\ registry' = registry \/ registry' = Swept
          /\ UNCHANGED <<info, task, aborted, retry, sessions, delivered, aged, expired, call, counters, stopped, hit>>
      BY <1>0, <1>1 DEF LookUpReply, tellings, TypeOK
    <2>2. /\ sessions' \subseteq Runs /\ delivered' \subseteq Runs /\ Before(r)
          /\ p \in {"announce", "told", "untold"} /\ (place[r] = "muted" => p = "untold")
      BY <1>0, <2>1 DEF TypeOK, Before
    <2> HIDE DEF p
    <2> QED BY <2>1, <2>2, FlowMovesStep
  <1>2. ASSUME NEW yes \in BOOLEAN, Told(r, yes), place[r] = "announce", sessions' \subseteq Runs, delivered' \subseteq Runs,
               heard' = heard \/ (~yes /\ heard' = [heard EXCEPT ![r] = heard[r] + 1])
        PROVE  AccountInv'
    <2> DEFINE p == IF yes THEN "told" ELSE "untold"
    <2>1. /\ p \in {"announce", "told", "untold"} /\ place' = [place EXCEPT ![r] = p] /\ registry' = Swept
          /\ \/ announced' = announced /\ heard' = heard
             \/ p = "told" /\ announced' = [announced EXCEPT ![r] = announced[r] + 1] /\ heard' = heard
             \/ p = "untold" /\ announced' = announced /\ heard' = [heard EXCEPT ![r] = heard[r] + 1]
          /\ UNCHANGED <<info, task, aborted, retry, aged, expired, call, counters, stopped, hit>>
          /\ place[r] # "muted" /\ Before(r)
      BY <1>2 DEF Told, Before
    <2> HIDE DEF p
    <2> QED BY <1>2, <2>1, FlowMovesStep
  <1>3. CASE TellSubagent(r)
    <2>1. info[r] \in Info
      BY <1>0, <1>3, InFlowIs DEF AccountInv, TellSubagent, InFlow, Flow
    <2>2. Requesters(r) \subseteq Runs \cup {Main}
      <3>1. info[r].requester \in Runs \cup {Main}
        BY <2>1 DEF Info
      <3>2. \A p \in Runs : Swept[p] # NoEntry => info[p].requester \in Runs \cup {Main}
        BY EntryHasInfo DEF Info
      <3> QED BY <3>1, <3>2 DEF Requesters
    <2>3. sessions' \subseteq Runs /\ delivered' \subseteq Runs /\ place[r] = "announce"
      BY <1>0, <1>3, <2>2 DEF TellSubagent, TypeOK
    <2>4. \E yes \in BOOLEAN : Told(r, yes) /\ (heard' = heard \/ (~yes /\ heard' = [heard EXCEPT ![r] = heard[r] + 1]))
      BY <1>3 DEF TellSubagent
    <2> QED BY <1>2, <2>3, <2>4
  <1>4. CASE TellUser(r)
    <2>1. sessions' \subseteq Runs /\ delivered' \subseteq Runs /\ place[r] = "announce"
      BY <1>0, <1>4 DEF TellUser, TypeOK
    <2>2. (\E yes \in BOOLEAN : Told(r, yes)) /\ heard' = heard
      BY <1>4 DEF TellUser
    <2> QED BY <1>2, <2>1, <2>2
  <1> QED BY <1>1, <1>3, <1>4

-----------------------------------------------------------------------------
\* A step that at most sweeps and resumes, and aborts what it will mark.
LEMMA QuietStep ==
    ASSUME AccountInv, registry' = registry \/ registry' = Swept, retry' = retry \/ retry' = Resumed(Swept),
           UNCHANGED <<info, task, place, restarts, announced, heard, stopped, hit>>,
           \A x \in Runs : Active(x) /\ AboutToMark(x) => AboutToMark(x)',
           \A x \in Runs : x \in aborted' => x \in aborted \/ (task[x] # "none" /\ AboutToMark(x)')
    PROVE  /\ \A x \in Runs : RunOK(x)'
           /\ registry' \in [Runs -> Entry \cup {NoEntry}] /\ retry' \in [Runs -> {"none", "sleeping", "flow"}]
           /\ \A x \in Runs : Active(x)' => Active(x)
  <1>1. TypeOK
    BY DEF AccountInv
  <1>2. /\ registry' \in [Runs -> Entry \cup {NoEntry}]
        /\ \A x \in Runs : registry'[x] = registry[x] \/ (Ended(x) /\ registry'[x] = NoEntry)
    BY <1>1, SweptIs DEF TypeOK
  <1>3. /\ retry' \in [Runs -> {"none", "sleeping", "flow"}]
        /\ \A x \in Runs : \/ retry'[x] = retry[x]
                           \/ Ended(x) /\ MayBegin(x) /\ retry[x] = "none" /\ retry'[x] = "sleeping"
    BY <1>1, ResumedIs DEF TypeOK
  <1>4. \A x \in Runs : RunOK(x)'
    BY <1>2, <1>3, Bystander DEF AccountInv
  <1>5. \A x \in Runs : Active(x)' => Active(x)
    BY <1>2 DEF Active, Has
  <1> QED BY <1>2, <1>3, <1>4, <1>5

LEMMA QuietCalls ==
    ASSUME AccountInv,
           \/ ListRuns \/ (\E q \in Runs \cup {Main} : KillLooks(q)) \/ KillCollects
           \/ (\E r \in Runs : SteerLooks(r)) \/ SteerFails \/ (\E r \in Runs : Age(r) \/ Expire(r))
    PROVE  AccountInv'
  <1>0. TypeOK /\ NamesAreKnown
    BY DEF AccountInv
  <1>1. /\ registry' = registry \/ registry' = Swept
        /\ retry' = retry \/ retry' = Resumed(Swept)
        /\ UNCHANGED <<info, task, aborted, place, restarts, announced, heard, stopped, hit, sessions, delivered>>
    BY DEF ListRuns, KillLooks, KillCollects, SteerLooks, SteerFails, Age, Expire, counters, tellings
  <1>2. \A x \in Runs : AboutToMark(x) => AboutToMark(x)'
    <2>1. CASE call' = call
      BY <2>1 DEF AboutToMark
    <2>2. CASE call' # call
      <3>1. \/ call = Idle \/ (call.op = "kill" /\ call.at = "look") \/ (call.op = "steer" /\ call.at = "stopped")
        BY <2>2 DEF ListRuns, KillLooks, KillCollects, SteerLooks, SteerFails, Age, Expire
      <3> QED BY <3>1 DEF AboutToMark, Idle
    <2> QED BY <2>1, <2>2
  <1>3. /\ \A x \in Runs : RunOK(x)'
        /\ registry' \in [Runs -> Entry \cup {NoEntry}] /\ retry' \in [Runs -> {"none", "sleeping", "flow"}]
        /\ \A x \in Runs : Active(x)' => Active(x)
    BY <1>1, <1>2, QuietStep
  <1>4. aged' \subseteq Runs /\ expired' \subseteq Runs /\ calls' \in 0..MaxCalls /\ mishaps' \in 0..MaxMishaps
        /\ restarts' \in 0..mishaps'
    <2>1. aged' \subseteq Runs /\ expired' \subseteq Runs
      BY <1>0 DEF TypeOK, ListRuns, KillLooks, KillCollects, SteerLooks, SteerFails, Age, Expire
    <2>2. calls' = calls \/ (calls < MaxCalls /\ calls' = calls + 1)
      BY DEF ListRuns, KillLooks, KillCollects, SteerLooks, SteerFails, Age, Expire, counters
    <2>3. mishaps' = mishaps \/ (mishaps < MaxMishaps /\ mishaps' = mishaps + 1)
      BY DEF ListRuns, KillLooks, KillCollects, SteerLooks, SteerFails, Age, Expire, counters
    <2> QED BY <1>0, <1>1, <2>1, <2>2, <2>3, LimitsAssumption DEF TypeOK
  <1>5. /\ call' \in Calls
        /\ call'.op = "steer" => /\ task'[call'.old] # "none"
                                 /\ call'.at \in {"stopped", "started"} => ~Active(call'.old)
    <2>1. CASE call' = call
      BY <1>0, <1>1, <2>1 DEF TypeOK, NamesAreKnown
    <2>2. ASSUME NEW q \in Runs \cup {Main}, KillLooks(q)
          PROVE  call' \in Calls /\ call'.op = "kill"
      <3>1. Children(Swept, {q}) \subseteq Runs
        BY DEF Children
      <3>2. PICK targets \in SUBSET Runs : call' = [op |-> "kill", targets |-> targets, at |-> "look"]
        BY <2>2, <3>1 DEF KillLooks
      <3> QED BY <3>2 DEF Calls
    <2>3. CASE KillCollects
      <3>1. call.targets \subseteq Runs
        BY <1>0, <2>3 DEF TypeOK, Calls, KillCollects
      <3>2. UNION {ActiveDescendants(Swept, info[r].sess) : r \in call.targets} \subseteq Runs
        BY DEF ActiveDescendants
      <3> QED BY <2>3, <3>1, <3>2 DEF KillCollects, Calls
    <2>4. ASSUME NEW r \in Runs, SteerLooks(r)
          PROVE  call' \in Calls /\ call'.old = r /\ call'.at = "look" /\ task'[r] # "none"
      BY <1>1, <2>4 DEF SteerLooks, Calls, AccountInv, RunOK, UnstartedIsBlank, Active
    <2>5. CASE SteerFails
      BY <2>5 DEF SteerFails, Calls, Idle
    <2> QED BY <2>1, <2>2, <2>3, <2>4, <2>5 DEF ListRuns, Age, Expire
  <1>6. NamesAreKnown'
    <2>1. call'.op = "steer" => call'.old \in Runs
      BY <1>5 DEF Calls
    <2> QED BY <1>0, <1>1, <1>3, <1>5, <2>1 DEF NamesAreKnown
  <1>7. TypeOK'
    BY <1>0, <1>1, <1>3, <1>4, <1>5 DEF TypeOK
  <1> QED BY <1>3, <1>6, <1>7 DEF AccountInv

\* A task is aborted, and its entry is marked next.
LEMMA AbortStep ==
    ASSUME AccountInv, NEW r \in Runs, Abort(r), AboutToMark(r)', \A x \in Runs : ~AboutToMark(x), call' \in Calls,
           call'.op = "steer" => call'.old = r /\ call'.at = "aborted" /\ task[r] # "none",
           UNCHANGED <<registry, info, task, retry, place, sessions, delivered, aged, expired, counters,
                       tellings, stopped, hit>>
    PROVE  AccountInv'
  <1>0. TypeOK /\ NamesAreKnown
    BY DEF AccountInv
  <1>1. aborted' \subseteq Runs /\ \A x \in Runs : x \in aborted' => x \in aborted \/ (task[x] # "none" /\ AboutToMark(x)')
    BY <1>0 DEF Abort, TypeOK
  <1>2. \A x \in Runs : RunOK(x)'
    BY <1>1, QuietStep DEF counters, tellings
  <1>3. TypeOK'
    BY <1>0, <1>1 DEF TypeOK, counters, tellings
  <1>4. NamesAreKnown'
    BY <1>0 DEF NamesAreKnown
  <1> QED BY <1>2, <1>3, <1>4 DEF AccountInv

LEMMA KillOneStep == ASSUME AccountInv, NEW r \in Runs, KillOne(r) PROVE AccountInv'
  <1>1. call \in Calls /\ call.op = "kill" /\ call.at = "kill"
    BY DEF AccountInv, TypeOK, KillOne
  <1>2. call.targets \subseteq Runs /\ call' = [op |-> "kill", targets |-> call.targets \ {r}, at |-> "mark", one |-> r]
    BY <1>1 DEF Calls, KillOne
  <1>3. call' \in Calls /\ call'.op = "kill" /\ AboutToMark(r)' /\ \A x \in Runs : ~AboutToMark(x)
    BY <1>1, <1>2 DEF Calls, AboutToMark
  <1> QED BY <1>3, AbortStep DEF KillOne

LEMMA SteerAbortsStep == ASSUME AccountInv, SteerAborts PROVE AccountInv'
  <1>1. call \in Calls /\ call.op = "steer" /\ call.at = "look" /\ task[call.old] # "none"
    BY DEF AccountInv, TypeOK, SteerAborts, NamesAreKnown
  <1>2. call.old \in Runs /\ call' = [call EXCEPT !.at = "aborted"]
    BY <1>1 DEF Calls, SteerAborts
  <1>3. /\ call' \in Calls /\ call'.op = "steer" /\ call'.old = call.old /\ call'.at = "aborted"
        /\ AboutToMark(call.old)' /\ \A x \in Runs : ~AboutToMark(x)
    BY <1>1, <1>2 DEF Calls, AboutToMark
  <1> QED BY <1>1, <1>2, <1>3, AbortStep DEF SteerAborts

-----------------------------------------------------------------------------
\* An entry is marked, wherever its run is: it is closed, and a run that had not ended is muted.
LEMMA MarkStep ==
    ASSUME AccountInv, NEW r \in Runs, NEW status \in {"killed", "steered"}, NEW why \in {"killed", "steer-restart"},
           Mark(r, status, why), \A x \in Runs : AboutToMark(x) => x = r,
           UNCHANGED <<info, task, aborted, retry, place, counters, tellings, hit>>
    PROVE  /\ \A x \in Runs : RunOK(x)'
           /\ registry' \in [Runs -> Entry \cup {NoEntry}] /\ stopped' \subseteq Runs
           /\ \A x \in Runs : Active(x)' => Active(x)
           /\ ~Active(r)'
  <1>0. TypeOK /\ RunOK(r)
    BY DEF AccountInv
  <1> DEFINE e == [registry[r] EXCEPT !.status = status, !.suppress = why, !.handled = TRUE, !.completed = TRUE]
  <1>1. Has(r) => /\ e \in Entry /\ e.status = status /\ e.handled = TRUE /\ e.completed = TRUE
                  /\ e.suppress = why /\ e.retries = registry[r].retries
    BY <1>0 DEF Entry, Has, TypeOK
  <1>2. registry' = Patched(registry, r, e) /\ stopped' = IF Active(r) THEN stopped \cup {r} ELSE stopped
    BY DEF Mark
  <1> HIDE DEF e
  <1>3. /\ registry' \in [Runs -> Entry \cup {NoEntry}]
        /\ registry'[r] = IF Has(r) THEN e ELSE NoEntry
        /\ \A x \in Runs : x # r => registry'[x] = registry[x]
    BY <1>0, <1>1, <1>2, PatchedIs DEF TypeOK, Has
  <1>4. ~Active(r)' /\ \A x \in Runs : Active(x)' => Active(x)
    BY <1>1, <1>3 DEF Active, Has
  <1>5. ASSUME NEW x \in Runs, x # r PROVE RunOK(x)'
    <2>1. x \in stopped' <=> x \in stopped
      BY <1>2, <1>5
    <2> QED BY <1>3, <1>5, <2>1, Bystander DEF AccountInv, counters, tellings
  <1>6. RunOK(r)'
    <2> USE DEF RunOK, Has, Ended, Active, MayBegin, InFlow, Flow, Before
    <2>1. Has(r) => e # NoEntry /\ e.status # "running"
      BY <1>1, NoEntryAssumption
    <2>2. UnstartedIsBlank(r)' /\ OneFlow(r)'
      BY <1>0, <1>1, <1>2, <1>3, <2>1 DEF UnstartedIsBlank, OneFlow, tellings
    <2>3. AtWorkIsActive(r)'
      BY <1>0, <1>1, <1>3, <1>4, <2>1 DEF AtWorkIsActive, tellings
    <2>4. OpenIsHeld(r)' /\ IsRemembered(r)' /\ ~MayBegin(r)'
      BY <1>1, <1>3 DEF OpenIsHeld, IsRemembered
    <2>5. ToldIsClosed(r)'
      BY <1>0, <2>4 DEF ToldIsClosed, tellings
    <2>6. TellsAreCounted(r)'
      BY <1>0, <1>1, <1>3, <2>4 DEF TellsAreCounted, tellings
    <2>7. StoppedIsMuted(r)'
      BY <1>0, <1>1, <1>2, <1>3, <1>4 DEF StoppedIsMuted, AtWorkIsActive, tellings
    <2> QED BY <2>2, <2>3, <2>4, <2>5, <2>6, <2>7
  <1>7. stopped' \subseteq Runs
    BY <1>0, <1>2 DEF TypeOK
  <1> QED BY <1>3, <1>4, <1>5, <1>6, <1>7

LEMMA KillMarksStep == ASSUME AccountInv, KillMarks PROVE AccountInv'
  <1>0. /\ TypeOK /\ NamesAreKnown /\ Mark(call.one, "killed", "killed") /\ call.op = "kill" /\ call.at = "mark"
        /\ UNCHANGED <<info, task, aborted, retry, place, delivered, aged, expired, counters, tellings, hit>>
    BY DEF AccountInv, KillMarks
  <1>1. call.one \in Runs /\ call.targets \subseteq Runs
    BY <1>0 DEF TypeOK, Calls
  <1>2. \A x \in Runs : AboutToMark(x) => x = call.one
    BY <1>0 DEF AboutToMark
  <1>3. /\ \A x \in Runs : RunOK(x)'
        /\ registry' \in [Runs -> Entry \cup {NoEntry}] /\ stopped' \subseteq Runs
    BY <1>0, <1>1, <1>2, MarkStep
  <1>4. call' \in Calls /\ call'.op # "steer"
    BY <1>1 DEF KillMarks, Calls, Idle
  <1>5. sessions' \subseteq Runs
    BY <1>0 DEF KillMarks, TypeOK
  <1>6. TypeOK'
    BY <1>0, <1>3, <1>4, <1>5 DEF TypeOK, counters, tellings
  <1>7. NamesAreKnown'
    BY <1>0, <1>4 DEF NamesAreKnown
  <1> QED BY <1>3, <1>6, <1>7 DEF AccountInv

LEMMA SteerMarksStep == ASSUME AccountInv, SteerMarks PROVE AccountInv'
  <1>0. /\ TypeOK /\ NamesAreKnown /\ Mark(call.old, "steered", "steer-restart")
        /\ call.op = "steer" /\ call.at = "aborted" /\ call' = [call EXCEPT !.at = "stopped"]
        /\ UNCHANGED <<info, task, aborted, retry, place, sessions, delivered, aged, expired, counters, tellings, hit>>
    BY DEF AccountInv, SteerMarks
  <1>1. /\ call.old \in Runs /\ call' \in Calls /\ call'.op = "steer" /\ call'.old = call.old
    BY <1>0 DEF TypeOK, Calls
  <1>2. \A x \in Runs : AboutToMark(x) => x = call.old
    BY <1>0 DEF AboutToMark
  <1>3. /\ \A x \in Runs : RunOK(x)'
        /\ registry' \in [Runs -> Entry \cup {NoEntry}] /\ stopped' \subseteq Runs /\ ~Active(call.old)'
    BY <1>0, <1>1, <1>2, MarkStep
  <1>4. TypeOK'
    BY <1>0, <1>1, <1>3 DEF TypeOK, counters, tellings
  <1>5. NamesAreKnown'
    BY <1>0, <1>1, <1>3 DEF NamesAreKnown
  <1> QED BY <1>3, <1>4, <1>5 DEF AccountInv

\* The entry of a run that is not at work is removed.
LEMMA SteerDropsStep == ASSUME AccountInv, SteerDrops PROVE AccountInv'
  <1> DEFINE r == call.old
  <1>0. /\ TypeOK /\ NamesAreKnown /\ registry' = [registry EXCEPT ![r] = NoEntry] /\ call' = Idle
        /\ call.op = "steer" /\ call.at = "started"
        /\ UNCHANGED <<info, task, aborted, retry, place, sessions, delivered, aged, expired, counters, tellings, stopped, hit>>
    BY DEF AccountInv, SteerDrops
  <1>1. r \in Runs /\ ~Active(r) /\ \A x \in Runs : ~AboutToMark(x)
    BY <1>0 DEF TypeOK, Calls, NamesAreKnown, AboutToMark
  <1> HIDE DEF r
  <1>2. /\ registry' \in [Runs -> Entry \cup {NoEntry}] /\ registry'[r] = NoEntry
        /\ \A x \in Runs : x # r => registry'[x] = registry[x]
    BY <1>0, <1>1 DEF TypeOK
  <1>3. registry[r] = NoEntry \/ Ended(r)
    BY <1>1 DEF Active, Ended, Has
  <1>4. \A x \in Runs : RunOK(x)'
    BY <1>0, <1>1, <1>2, <1>3, Bystander DEF AccountInv, counters, tellings
  <1>5. call' \in Calls /\ call'.op # "steer"
    BY <1>0 DEF Calls, Idle
  <1>6. TypeOK'
    BY <1>0, <1>2, <1>5 DEF TypeOK, counters, tellings
  <1>7. NamesAreKnown'
    BY <1>0, <1>5 DEF NamesAreKnown
  <1> QED BY <1>4, <1>6, <1>7 DEF AccountInv

-----------------------------------------------------------------------------
\* A run that has no task yet is started.
LEMMA StartStep ==
    ASSUME AccountInv, NEW r \in Runs, task[r] = "none", info'[r] # NoEntry, place'[r] = "none",
           \A x \in Runs : x # r => info'[x] = info[x] /\ place'[x] = place[x],
           registry' = [Swept EXCEPT ![r] = NewEntry], retry' = Resumed(Swept),
           task' = [task EXCEPT ![r] = "running"],
           UNCHANGED <<restarts, aborted, announced, heard, stopped, hit>>,
           \A x \in Runs : ~AboutToMark(x) \/ AboutToMark(x)'
    PROVE  /\ \A x \in Runs : RunOK(x)'
           /\ \A x \in Runs : x # r /\ Active(x)' => Active(x)
           /\ registry' \in [Runs -> Entry \cup {NoEntry}] /\ retry' \in [Runs -> {"none", "sleeping", "flow"}]
           /\ task' \in [Runs -> {"none", "running", "ended", "flow", "over"}]
           /\ task'[r] = "running" /\ \A x \in Runs : x # r => task'[x] = task[x]
  <1>0. TypeOK /\ RunOK(r)
    BY DEF AccountInv
  <1>1. /\ NewEntry \in Entry /\ NewEntry # NoEntry /\ NewEntry.status = "running" /\ NewEntry.handled = FALSE
        /\ NewEntry.completed = FALSE /\ NewEntry.retries = 0 /\ NewEntry.suppress = "none"
    <2>1. NewEntry \in Entry
      BY LimitsAssumption DEF NewEntry, Entry
    <2> QED BY <2>1, NoEntryAssumption DEF NewEntry
  <1>2. /\ registry' \in [Runs -> Entry \cup {NoEntry}] /\ registry'[r] = NewEntry
        /\ \A x \in Runs : x # r => registry'[x] = registry[x] \/ (Ended(x) /\ registry'[x] = NoEntry)
    BY <1>0, <1>1, SweptIs
  <1>3. /\ retry' \in [Runs -> {"none", "sleeping", "flow"}]
        /\ \A x \in Runs : \/ retry'[x] = retry[x]
                           \/ Ended(x) /\ MayBegin(x) /\ retry[x] = "none" /\ retry'[x] = "sleeping"
    BY <1>0, ResumedIs
  <1>4. /\ task' \in [Runs -> {"none", "running", "ended", "flow", "over"}] /\ task'[r] = "running"
        /\ \A x \in Runs : x # r => task'[x] = task[x]
    BY <1>0 DEF TypeOK
  <1>5. \A x \in Runs : x # r => RunOK(x)'
    BY <1>2, <1>3, <1>4, Bystander DEF AccountInv
  <1>6. RunOK(r)'
    <2>1. /\ retry'[r] = "none" /\ announced'[r] = 0 /\ heard'[r] = 0 /\ r \notin stopped' /\ r \notin aborted'
      BY <1>0, <1>3 DEF RunOK, UnstartedIsBlank, Ended
    <2> QED BY <1>1, <1>2, <1>4, <2>1, LimitsAssumption
            DEF RunOK, Has, Ended, Active, MayBegin, InFlow, Flow, Before, UnstartedIsBlank, AtWorkIsActive, OneFlow,
                OpenIsHeld, ToldIsClosed, TellsAreCounted, StoppedIsMuted, IsRemembered
  <1>7. \A x \in Runs : x # r /\ Active(x)' => Active(x)
    BY <1>2 DEF Active, Has
  <1> QED BY <1>2, <1>3, <1>4, <1>5, <1>6, <1>7

LEMMA SpawnStartedStep == ASSUME AccountInv, NEW r \in Runs, SpawnStarted(r) PROVE AccountInv'
  <1>0. /\ TypeOK /\ NamesAreKnown /\ task[r] = "none" /\ info[r] # NoEntry
        /\ UNCHANGED <<info, aborted, sessions, delivered, aged, expired, call, counters, tellings, stopped, hit>>
        /\ \A x \in Runs : ~AboutToMark(x) \/ AboutToMark(x)'
    BY DEF AccountInv, SpawnStarted, RunOK, UnstartedIsBlank, AboutToMark
  <1>1. /\ place' \in [Runs -> Places] /\ place'[r] = "none" /\ \A x \in Runs : x # r => place'[x] = place[x]
    BY <1>0 DEF SpawnStarted, TypeOK, Places
  <1>2. /\ \A x \in Runs : RunOK(x)'
        /\ registry' \in [Runs -> Entry \cup {NoEntry}] /\ retry' \in [Runs -> {"none", "sleeping", "flow"}]
        /\ task' \in [Runs -> {"none", "running", "ended", "flow", "over"}]
        /\ task'[r] = "running" /\ \A x \in Runs : x # r => task'[x] = task[x]
        /\ \A x \in Runs : x # r /\ Active(x)' => Active(x)
    BY <1>0, <1>1, StartStep DEF SpawnStarted, counters, tellings
  <1>3. TypeOK'
    BY <1>0, <1>1, <1>2 DEF TypeOK, counters, tellings
  <1>4. NamesAreKnown'
    BY <1>0, <1>2 DEF NamesAreKnown, TypeOK, Calls
  <1> QED BY <1>2, <1>3, <1>4 DEF AccountInv

LEMMA SteerStartsStep == ASSUME AccountInv, NEW n \in Runs, SteerStarts(n) PROVE AccountInv'
  <1>0. /\ TypeOK /\ NamesAreKnown /\ task[n] = "none" /\ place[n] = "none" /\ info[n] = NoEntry
        /\ call.op = "steer" /\ call.at = "stopped" /\ call' = [call EXCEPT !.at = "started"]
        /\ info' = [info EXCEPT ![n] = info[call.old]]
        /\ UNCHANGED <<aborted, place, sessions, delivered, aged, expired, counters, tellings, stopped, hit>>
        /\ \A x \in Runs : ~AboutToMark(x)
    BY DEF AccountInv, SteerStarts, RunOK, UnstartedIsBlank, AboutToMark
  <1>1. /\ call.old \in Runs /\ call.old # n /\ call' \in Calls /\ call'.op = "steer" /\ call'.old = call.old
        /\ task[call.old] # "none" /\ ~Active(call.old)
    BY <1>0 DEF TypeOK, Calls, NamesAreKnown
  <1>2. info[call.old] \in Info /\ info[call.old] # NoEntry
    BY <1>1, EntryHasInfo
  <1>3. /\ info' \in [Runs -> Info \cup {NoEntry}] /\ info'[n] = info[call.old]
        /\ \A x \in Runs : x # n => info'[x] = info[x]
    BY <1>0, <1>1, <1>2 DEF TypeOK
  <1>4. /\ \A x \in Runs : RunOK(x)'
        /\ registry' \in [Runs -> Entry \cup {NoEntry}] /\ retry' \in [Runs -> {"none", "sleeping", "flow"}]
        /\ task' \in [Runs -> {"none", "running", "ended", "flow", "over"}]
        /\ \A x \in Runs : x # n => task'[x] = task[x]
        /\ \A x \in Runs : x # n /\ Active(x)' => Active(x)
    BY <1>0, <1>2, <1>3, StartStep DEF SteerStarts, counters, tellings
  <1>5. TypeOK'
    BY <1>0, <1>1, <1>3, <1>4 DEF TypeOK, counters, tellings
  <1>6. \A x \in Runs : info'[x] # NoEntry => info'[info'[x].sess] # NoEntry
    <2>1. \A x \in Runs : info[x] # NoEntry => info[x].sess \in Runs /\ info[x].sess # n /\ info[info[x].sess] # NoEntry
      BY <1>0 DEF TypeOK, NamesAreKnown, Info
    <2> QED BY <1>1, <1>2, <1>3, <2>1
  <1>7. NamesAreKnown'
    BY <1>1, <1>4, <1>6 DEF NamesAreKnown
  <1> QED BY <1>4, <1>5, <1>7 DEF AccountInv

\* A run is asked for: its session gets a name and a depth.
LEMMA SpawnCheckedStep == ASSUME AccountInv, NEW r \in Runs, SpawnChecked(r) PROVE AccountInv'
  <1> DEFINE q == Requests[r].requester
             i == [requester |-> q, sess |-> r, cleanup |-> SpawnCleanup(Requests[r]),
                   expects |-> Requests[r].expects, bound |-> SpawnMode(Requests[r]) = "session",
                   depth |-> Depth(q) + 1]
  <1>0. /\ TypeOK /\ NamesAreKnown /\ RunOK(r) /\ info[r] = NoEntry /\ task[r] = "none" /\ place[r] = "none"
        /\ CanCall(q) /\ Depth(q) < MaxSpawnDepth
        /\ info' = [info EXCEPT ![r] = i] /\ registry' = Swept /\ sessions' = sessions \cup {r}
        /\ place' = [place EXCEPT ![r] = "asked"]
        /\ UNCHANGED <<task, aborted, retry, delivered, aged, expired, call, counters, tellings, stopped, hit>>
    BY DEF AccountInv, SpawnChecked, RunOK, UnstartedIsBlank
  <1>1. Requests[r] \in Request /\ q \in Runs \cup {Main}
    BY RequestsAssumption DEF Request
  <1>2. Depth(q) \in 0..MaxSpawnDepth
    <2>1. CASE q = Main
      BY <2>1, LimitsAssumption DEF Depth
    <2>2. CASE q # Main
      <3>1. PICK p \in Runs : info[p] # NoEntry /\ info[p].sess = q
        BY <1>0, <2>2 DEF CanCall
      <3>2. info[q] \in Info
        BY <1>0, <1>1, <2>2, <3>1 DEF NamesAreKnown, TypeOK
      <3> QED BY <2>2, <3>2, LimitsAssumption DEF Depth, Info
    <2> QED BY <2>1, <2>2
  <1>3. i \in Info /\ i # NoEntry /\ i.sess = r
    <2>1. SpawnCleanup(Requests[r]) \in {"keep", "delete"} /\ Requests[r].expects \in BOOLEAN
      BY <1>1 DEF Request, SpawnCleanup
    <2>2. Depth(q) + 1 \in 1..MaxSpawnDepth
      BY <1>0, <1>2, LimitsAssumption
    <2>3. i \in Info
      BY <1>1, <2>1, <2>2 DEF Info
    <2> QED BY <2>3, NoEntryAssumption
  <1> HIDE DEF i, q
  <1>4. /\ info' \in [Runs -> Info \cup {NoEntry}] /\ info'[r] = i /\ \A x \in Runs : x # r => info'[x] = info[x]
    BY <1>0, <1>3 DEF TypeOK
  <1>5. /\ place' \in [Runs -> Places] /\ place'[r] = "asked" /\ \A x \in Runs : x # r => place'[x] = place[x]
    BY <1>0 DEF TypeOK, Places
  <1>6. /\ registry' \in [Runs -> Entry \cup {NoEntry}]
        /\ \A x \in Runs : registry'[x] = registry[x] \/ (Ended(x) /\ registry'[x] = NoEntry)
    BY <1>0, SweptIs
  <1>7. TypeOK'
    BY <1>0, <1>4, <1>5, <1>6 DEF TypeOK, counters, tellings
  <1>8. \A x \in Runs : x # r => RunOK(x)'
    BY <1>0, <1>4, <1>5, <1>6, Bystander DEF AccountInv, counters, tellings, AboutToMark
  <1>9. RunOK(r)'
    <2>1. /\ ~Has(r)' /\ retry'[r] = "none" /\ announced'[r] = 0 /\ heard'[r] = 0 /\ r \notin stopped'
          /\ r \notin aborted' /\ task'[r] = "none"
      BY <1>0, <1>6 DEF RunOK, UnstartedIsBlank, Has, Ended, tellings
    <2> QED BY <1>3, <1>4, <1>5, <2>1, LimitsAssumption
            DEF RunOK, Has, Ended, Active, MayBegin, InFlow, Flow, Before, UnstartedIsBlank, AtWorkIsActive, OneFlow,
                OpenIsHeld, ToldIsClosed, TellsAreCounted, StoppedIsMuted, IsRemembered
  <1>10. \A x \in Runs : info'[x] # NoEntry => info'[info'[x].sess] # NoEntry
    <2>1. \A x \in Runs : info[x] # NoEntry => info[x].sess \in Runs /\ info[info[x].sess] # NoEntry
      BY <1>0 DEF TypeOK, NamesAreKnown, Info
    <2> QED BY <1>3, <1>4, <2>1
  <1>11. NamesAreKnown'
    <2>1. \A x \in Runs : Active(x)' => Active(x)
      BY <1>6 DEF Active, Has
    <2> QED BY <1>0, <1>10, <2>1 DEF NamesAreKnown, TypeOK, Calls
  <1> QED BY <1>7, <1>8, <1>9, <1>11 DEF AccountInv

\* A restart ends every task; what was at work is interrupted, what was marked is cut off.
LEMMA RestartStep == ASSUME AccountInv, Restart PROVE AccountInv'
  <1>0. TypeOK /\ NamesAreKnown
    BY DEF AccountInv
  <1>1. \A x \in Runs : Active(x) =>
            /\ Interrupted(registry[x]) \in Entry /\ Interrupted(registry[x]).status = "interrupted"
            /\ Interrupted(registry[x]).handled = FALSE /\ Interrupted(registry[x]).completed = FALSE
            /\ Interrupted(registry[x]).retries = registry[x].retries
            /\ Interrupted(registry[x]).suppress = registry[x].suppress
    BY <1>0 DEF TypeOK, Active, Has, Interrupted, Entry
  <1>2. \A x \in Runs : registry'[x] = IF Active(x) THEN Interrupted(registry[x]) ELSE registry[x]
    BY DEF Restart
  <1>3. registry' \in [Runs -> Entry \cup {NoEntry}]
    <2>1. \A x \in Runs : (IF Active(x) THEN Interrupted(registry[x]) ELSE registry[x]) \in Entry \cup {NoEntry}
      BY <1>0, <1>1 DEF TypeOK
    <2> QED BY <2>1 DEF Restart
  <1>4. /\ task' \in [Runs -> {"none", "running", "ended", "flow", "over"}]
        /\ retry' \in [Runs -> {"none", "sleeping", "flow"}] /\ place' \in [Runs -> Places]
        /\ \A x \in Runs : /\ task'[x] = IF task[x] = "none" THEN "none" ELSE "over"
                           /\ retry'[x] = "none" /\ place'[x] = "none"
    BY DEF Restart, Places
  <1>5. /\ mishaps' \in 0..MaxMishaps /\ restarts' \in 0..mishaps' /\ restarts' > 0
        /\ call' \in Calls /\ call'.op # "steer"
    BY <1>0, LimitsAssumption DEF Restart, TypeOK, Calls, Idle
  <1>6. TypeOK'
    <2>1. /\ delivered' = {} /\ aborted' = {} /\ hit' = hit \cup {r \in Runs : InFlow(r)}
          /\ UNCHANGED <<calls, info, sessions, aged, expired, announced, heard, stopped>>
      BY DEF Restart, tellings
    <2>2. delivered' \subseteq Runs /\ aborted' \subseteq Runs /\ hit' \subseteq Runs
      BY <1>0, <2>1 DEF TypeOK
    <2> QED BY <1>0, <1>3, <1>4, <1>5, <2>1, <2>2 DEF TypeOK
  <1>7. NamesAreKnown'
    BY <1>0, <1>5 DEF NamesAreKnown, Restart
  <1>8. ASSUME NEW x \in Runs PROVE RunOK(x)'
    <2>0. /\ RunOK(x) /\ info' = info /\ announced' = announced /\ heard' = heard /\ stopped' = stopped
          /\ aborted' = {} /\ (x \in hit \/ InFlow(x) => x \in hit')
      BY <1>8 DEF AccountInv, Restart, tellings
    <2> USE DEF RunOK, Has, Ended, Active, MayBegin, InFlow, Flow, Before
    <2>1. UnstartedIsBlank(x)' /\ OneFlow(x)'
      BY <1>2, <1>4, <2>0 DEF UnstartedIsBlank, OneFlow
    <2>2. AtWorkIsActive(x)' /\ ~Active(x)'
      BY <1>1, <1>2, <1>4, <2>0 DEF AtWorkIsActive
    <2>3. OpenIsHeld(x)'
      BY <1>1, <1>2, <1>4, <2>0, LimitsAssumption DEF OpenIsHeld, AtWorkIsActive
    <2>4. announced[x] # 0 \/ x \in stopped => ~Active(x)
      BY <2>0 DEF AtWorkIsActive, StoppedIsMuted
    <2>5. ToldIsClosed(x)'
      BY <1>2, <1>4, <2>0, <2>4 DEF ToldIsClosed
    <2>6. StoppedIsMuted(x)'
      BY <1>2, <1>4, <2>0, <2>2, <2>4 DEF StoppedIsMuted
    <2>7. IsRemembered(x)'
      BY <1>1, <1>2, <1>5, <2>0 DEF IsRemembered, OpenIsHeld
    <2>8. TellsAreCounted(x)'
      <3>1. Active(x) => announced[x] = 0 /\ heard[x] = 0 /\ registry[x].retries = 0
        BY <2>0 DEF AtWorkIsActive
      <3> QED BY <1>1, <1>2, <1>4, <2>0, <3>1 DEF TellsAreCounted
    <2> QED BY <2>1, <2>2, <2>3, <2>5, <2>6, <2>7, <2>8
  <1> QED BY <1>6, <1>7, <1>8 DEF AccountInv

\* Every step keeps the invariant.
LEMMA AccountStep == ASSUME AccountInv, [Next]_vars PROVE AccountInv'
  <1>1. ASSUME NEW r \in Runs, TaskStep(r) PROVE AccountInv'
    BY <1>1, RunEndsStep, CutOffStep, BeginStep, DeferStep, TellStep, SettleStep DEF TaskStep
  <1>2. CASE CallStep
    BY <1>2, QuietCalls, KillOneStep, KillMarksStep, SteerAbortsStep, SteerMarksStep, SteerStartsStep, SteerDropsStep
       DEF CallStep
  <1>3. CASE UNCHANGED vars
    <2>1. \A x \in Runs : RunOK(x)'
      BY <1>3, Bystander DEF AccountInv, vars, AboutToMark
    <2>2. TypeOK' /\ NamesAreKnown'
      BY <1>3 DEF AccountInv, vars, TypeOK, NamesAreKnown, Active, Has
    <2> QED BY <2>1, <2>2 DEF AccountInv
  <1> QED BY <1>1, <1>2, <1>3, SpawnCheckedStep, SpawnStartedStep, QuietCalls, RestartStep DEF Next

\* For any number of runs, calls, restarts and other mishaps: the end of a run is told at most
\* once and tried no more often than there are retries, never when its entry was marked before
\* it had ended, and no open cleanup is forgotten but the ones NobodyForgotten names.
THEOREM EndsAreTold == Spec => []EndsAreAccountedFor
  <1>1. Init => AccountInv
    <2> SUFFICES ASSUME Init PROVE AccountInv
      OBVIOUS
    <2>1. TypeOK
      BY LimitsAssumption DEF Init, TypeOK, Places, Calls, Idle
    <2>2. NamesAreKnown
      BY DEF Init, NamesAreKnown, Idle
    <2>3. \A r \in Runs : RunOK(r)
      BY LimitsAssumption
         DEF Init, RunOK, Has, Ended, Active, MayBegin, InFlow, Flow, Before, UnstartedIsBlank, AtWorkIsActive, OneFlow,
             OpenIsHeld, ToldIsClosed, TellsAreCounted, StoppedIsMuted, IsRemembered
    <2> QED BY <2>1, <2>2, <2>3 DEF AccountInv
  <1>2. AccountInv /\ [Next]_vars => AccountInv'
    BY AccountStep
  <1>3. AccountInv => EndsAreAccountedFor
    <2> SUFFICES ASSUME AccountInv PROVE EndsAreAccountedFor
      OBVIOUS
    <2>1. ToldOnce
      BY DEF AccountInv, RunOK, ToldIsClosed, TellsAreCounted, ToldOnce, TypeOK
    <2>2. StoppedIsSilent
      BY DEF AccountInv, RunOK, StoppedIsMuted, StoppedIsSilent, TypeOK
    <2>3. NobodyForgotten
      BY DEF AccountInv, RunOK, IsRemembered, NobodyForgotten
    <2> QED BY <2>1, <2>2, <2>3 DEF AccountInv, EndsAreAccountedFor
  <1> QED BY <1>1, <1>2, <1>3, PTL DEF Spec
=============================================================================
