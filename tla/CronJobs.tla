------------------------------ MODULE CronJobs ------------------------------
(* Scheduled jobs, crates/cron-core: the job store (service.rs, store.rs),   *)
(* the scheduler's polling loop, stuck detection and executions              *)
(* (scheduler.rs), cron.run and the other calls of the gateway.              *)
(* Every operation of CronService holds the store's mutex from load to save, *)
(* so each one is an action.  Executions run concurrently with the loop and  *)
(* with calls.  The store is a file and survives a crash, also of a job that *)
(* was marked running.                                                       *)
(* Time is kept as what the code compares it with: next_run_at_ms is later   *)
(* or due, the backoff window is open or over, a run is recent or older than *)
(* stuck_threshold_ms; time passes in actions of its own.                    *)
EXTENDS Naturals, FiniteSets, TLAPS

CONSTANTS
    Jobs,           \* job ids ever added (fresh UUIDs)
    AtJobs,         \* those with an At schedule; the others recur
    Edited,         \* bound: those that are edited, triggered, run by hand or removed
    OneShots,       \* those with delete_after_run
    LoopSlots,      \* the permits of the semaphore (max_concurrent of them)
    ForcedSlots,    \* bound: the cron.run calls in progress at a time
    MaxRetries,     \* max_retries
    MayFail,        \* the jobs whose payload may fail
    MaxMishaps      \* bound: crashes, lost executions and new schedules in a behaviour

ASSUME AtAssumption == AtJobs \subseteq Jobs /\ Edited \subseteq Jobs
ASSUME MaxRetriesAssumption == MaxRetries \in Nat
ASSUME SlotsAssumption == LoopSlots \cap ForcedSlots = {}
ASSUME MaxMishapsAssumption == MaxMishaps \in Nat

VARIABLES
    life,       \* of each job: never added, in the store, or removed
    enabled,    \* enabled
    next,       \* next_run_at_ms
    errors,     \* consecutive_errors, counted until the retries are used up
    backoff,    \* now < last_run_at_ms + backoff_delay_ms
    since,      \* running_since_ms
    passed,     \* the schedule has no time to come
    loop,       \* where the scheduler's loop is
    stuckTodo,  \* the jobs of the loop's snapshot that look stuck, still to be cleared
    dueTodo,    \* the jobs of the snapshot that are due, still to be spawned
    exec,       \* the executions: job, step and result
    orphaned,   \* the jobs an execution of which was lost
    mishaps     \* crashes, lost executions and new schedules so far

store == <<life, enabled, next, errors, backoff, since>>
vars == <<store, passed, loop, stuckTodo, dueTodo, exec, orphaned, mishaps>>

Slots == LoopSlots \cup ForcedSlots
Free == [pc |-> "free"]
Stored(j) == life[j] = "stored"

\* compute_next_run: a time later than now, or none (an At time has passed, the
\* interval is zero, the expression cannot be parsed or names no time to come).
ScheduledNext(j) == IF passed[j] THEN "none" ELSE "later"

Init ==
    /\ life = [j \in Jobs |-> "never"]
    /\ enabled = [j \in Jobs |-> TRUE]
    /\ next = [j \in Jobs |-> "none"]
    /\ errors = [j \in Jobs |-> 0]
    /\ backoff = [j \in Jobs |-> FALSE]
    /\ since = [j \in Jobs |-> "no"]
    /\ passed = [j \in Jobs |-> FALSE]
    /\ loop = "poll" /\ stuckTodo = {} /\ dueTodo = {}
    /\ exec = [e \in Slots |-> Free]
    /\ orphaned = {} /\ mishaps = 0

-----------------------------------------------------------------------------
(* The calls: add, remove, update, trigger, run_once.                       *)

Add(j) ==
    /\ life[j] = "never"
    /\ life' = [life EXCEPT ![j] = "stored"]
    /\ next' = [next EXCEPT ![j] = ScheduledNext(j)]
    /\ UNCHANGED <<enabled, errors, backoff, since, passed, loop, stuckTodo, dueTodo, exec, orphaned, mishaps>>

\* The job's record leaves the store, if it is there.
Erase(j) ==
    /\ life' = [life EXCEPT ![j] = "removed"]
    /\ enabled' = [enabled EXCEPT ![j] = TRUE]
    /\ next' = [next EXCEPT ![j] = "none"]
    /\ errors' = [errors EXCEPT ![j] = 0]
    /\ backoff' = [backoff EXCEPT ![j] = FALSE]
    /\ since' = [since EXCEPT ![j] = "no"]

Remove(j) ==
    /\ Stored(j) /\ Erase(j)
    /\ UNCHANGED <<passed, loop, stuckTodo, dueTodo, exec, orphaned, mishaps>>

SetEnabled(j, b) ==
    /\ Stored(j) /\ enabled[j] # b
    /\ enabled' = [enabled EXCEPT ![j] = b]
    /\ UNCHANGED <<life, next, errors, backoff, since, passed, loop, stuckTodo, dueTodo, exec, orphaned, mishaps>>

\* A new schedule of the same kind, with a time to come or with none.
Reschedule(j) ==
    /\ Stored(j)
    /\ mishaps < MaxMishaps /\ mishaps' = mishaps + 1
    /\ \E p \in BOOLEAN :
          /\ passed' = [passed EXCEPT ![j] = p]
          /\ next' = [next EXCEPT ![j] = IF p THEN "none" ELSE "later"]
    /\ UNCHANGED <<life, enabled, errors, backoff, since, loop, stuckTodo, dueTodo, exec, orphaned>>

Trigger(j) ==
    /\ Stored(j)
    /\ next' = [next EXCEPT ![j] = "due"]
    /\ UNCHANGED <<life, enabled, errors, backoff, since, passed, loop, stuckTodo, dueTodo, exec, orphaned, mishaps>>

\* cron.run with mode force: executed in the call, without a permit.
RunOnce(j, e) ==
    /\ Stored(j) /\ enabled[j]
    /\ e \in ForcedSlots /\ exec[e].pc = "free"
    /\ exec' = [exec EXCEPT ![e] = [pc |-> "start", job |-> j]]
    /\ UNCHANGED <<store, passed, loop, stuckTodo, dueTodo, orphaned, mishaps>>

-----------------------------------------------------------------------------
(* run_loop.                                                                *)

\* Mutant: a job that was marked running is taken for running for good.
LooksStuckNever(j) == FALSE

\* detect_stuck_jobs: running for longer than the threshold.
LooksStuck(j) == Stored(j) /\ since[j] = "stuck"

\* Mutant: a job that failed is not tried again.
IsDueUnlessFailed(j) ==
    Stored(j) /\ enabled[j] /\ since[j] = "no" /\ errors[j] = 0 /\ next[j] = "due"

\* is_due, and the filter on enabled.
IsDue(j) ==
    /\ Stored(j) /\ enabled[j]
    /\ since[j] = "no"
    /\ errors[j] > 0 => errors[j] < MaxRetries /\ ~backoff[j]
    /\ next[j] = "due"

\* list(): what follows works on this snapshot.
Poll ==
    /\ loop = "poll"
    /\ loop' = "round"
    /\ stuckTodo' = {j \in Jobs : LooksStuck(j)}
    /\ dueTodo' = {j \in Jobs : IsDue(j)}
    /\ UNCHANGED <<store, passed, exec, orphaned, mishaps>>

\* Mutant: only a success takes the running mark away.
UpdateAfterRunKeepsMark(j, ok) ==
    IF Stored(j)
    THEN /\ since' = [since EXCEPT ![j] = IF ok THEN "no" ELSE @]
         /\ errors' = [errors EXCEPT ![j] = IF ok THEN 0 ELSE IF @ = 0 \/ @ < MaxRetries THEN @ + 1 ELSE @]
         /\ backoff' = [backoff EXCEPT ![j] = ~ok]
         /\ next' = [next EXCEPT ![j] =
                       IF ok THEN ScheduledNext(j)
                       ELSE IF errors'[j] >= MaxRetries THEN "none" ELSE "later"]
         /\ UNCHANGED <<life, enabled>>
    ELSE UNCHANGED store

\* update_after_run: an error when the job is gone.  After a failure the next run
\* waits for the backoff, or is off when the retries are used up.
UpdateAfterRun(j, ok) ==
    IF Stored(j)
    THEN /\ since' = [since EXCEPT ![j] = "no"]
         /\ errors' = [errors EXCEPT ![j] = IF ok THEN 0 ELSE IF @ = 0 \/ @ < MaxRetries THEN @ + 1 ELSE @]
         /\ backoff' = [backoff EXCEPT ![j] = ~ok]
         /\ next' = [next EXCEPT ![j] =
                       IF ok THEN ScheduledNext(j)
                       ELSE IF errors'[j] >= MaxRetries THEN "none" ELSE "later"]
         /\ UNCHANGED <<life, enabled>>
    ELSE UNCHANGED store

\* A stuck job is recorded as failed, on the word of the snapshot.
ClearStuck(j) ==
    /\ loop = "round" /\ j \in stuckTodo
    /\ stuckTodo' = stuckTodo \ {j}
    /\ UpdateAfterRun(j, FALSE)
    /\ UNCHANGED <<passed, loop, dueTodo, exec, orphaned, mishaps>>

\* The loop waits for a permit and spawns the execution of a due job.
SpawnDue(j, e) ==
    /\ loop = "round" /\ stuckTodo = {} /\ j \in dueTodo
    /\ e \in LoopSlots /\ exec[e].pc = "free"
    /\ dueTodo' = dueTodo \ {j}
    /\ exec' = [exec EXCEPT ![e] = [pc |-> "start", job |-> j]]
    /\ UNCHANGED <<store, passed, loop, stuckTodo, orphaned, mishaps>>

\* The round is over: sleep, then poll again.
EndRound ==
    /\ loop = "round" /\ stuckTodo = {} /\ dueTodo = {}
    /\ loop' = "poll"
    /\ UNCHANGED <<store, passed, stuckTodo, dueTodo, exec, orphaned, mishaps>>

-----------------------------------------------------------------------------
(* execute_job.                                                             *)

\* mark_running; the execution ends here when the job is gone.
MarkRunning(e) ==
    /\ exec[e].pc = "start"
    /\ LET j == exec[e].job
       IN  IF Stored(j)
           THEN /\ since' = [since EXCEPT ![j] = "recent"]
                /\ exec' = [exec EXCEPT ![e].pc = "running"]
           ELSE /\ exec' = [exec EXCEPT ![e] = Free]
                /\ UNCHANGED since
    /\ UNCHANGED <<life, enabled, next, errors, backoff, passed, loop, stuckTodo, dueTodo, orphaned, mishaps>>

\* The payload ended or timed out, a success was delivered, the run log written, and
\* the job's state is updated.
Finish(e) ==
    /\ exec[e].pc = "running"
    /\ \E ok \in {TRUE} \cup (IF exec[e].job \in MayFail THEN {FALSE} ELSE {}) :
          UpdateAfterRun(exec[e].job, ok)
    /\ exec' = [exec EXCEPT ![e] = IF @.job \in OneShots THEN [@ EXCEPT !.pc = "remove"] ELSE Free]
    /\ UNCHANGED <<passed, loop, stuckTodo, dueTodo, orphaned, mishaps>>

\* A one-shot job is removed, whether or not it succeeded.
RemoveOneShot(e) ==
    /\ exec[e].pc = "remove"
    /\ Erase(exec[e].job)
    /\ exec' = [exec EXCEPT ![e] = Free]
    /\ UNCHANGED <<passed, loop, stuckTodo, dueTodo, orphaned, mishaps>>

-----------------------------------------------------------------------------
(* Losses and time.                                                         *)

Marked(e) == exec[e].pc = "running"

\* An execution is lost: its task (for cron.run the connection's) panicked, or the
\* store could not be saved.  Its permit comes back; the store is as it left it.
Lost(e) ==
    /\ mishaps < MaxMishaps /\ mishaps' = mishaps + 1
    /\ exec[e].pc # "free"
    /\ orphaned' = IF Marked(e) THEN orphaned \cup {exec[e].job} ELSE orphaned
    /\ exec' = [exec EXCEPT ![e] = Free]
    /\ UNCHANGED <<store, passed, loop, stuckTodo, dueTodo>>

\* The save of update_after_run fails: the execution of a one-shot job still goes on
\* to remove it (that of another job is over, Lost).
Unsaved(e) ==
    /\ mishaps < MaxMishaps /\ mishaps' = mishaps + 1
    /\ Marked(e) /\ exec[e].job \in OneShots
    /\ orphaned' = orphaned \cup {exec[e].job}
    /\ exec' = [exec EXCEPT ![e].pc = "remove"]
    /\ UNCHANGED <<store, passed, loop, stuckTodo, dueTodo>>

\* The loop goes on when it cannot save that a stuck job failed.
StuckUnsaved(j) ==
    /\ mishaps < MaxMishaps /\ mishaps' = mishaps + 1
    /\ loop = "round" /\ j \in stuckTodo
    /\ stuckTodo' = stuckTodo \ {j}
    /\ UNCHANGED <<store, passed, loop, dueTodo, exec, orphaned>>

\* The process dies and is started again: only the store is left.
Crash ==
    /\ mishaps < MaxMishaps /\ mishaps' = mishaps + 1
    /\ orphaned' = orphaned \cup {exec[e].job : e \in {s \in Slots : Marked(s)}}
    /\ exec' = [e \in Slots |-> Free]
    /\ loop' = "poll" /\ stuckTodo' = {} /\ dueTodo' = {}
    /\ UNCHANGED <<store, passed>>

AtPasses(j) ==
    /\ j \in AtJobs /\ ~passed[j] /\ passed' = [passed EXCEPT ![j] = TRUE]
    /\ UNCHANGED <<store, loop, stuckTodo, dueTodo, exec, orphaned, mishaps>>

\* (The end of a backoff and next_run_at_ms are ordered only until the schedule is
\* edited, so either may come first.)
BecomesDue(j) ==
    /\ next[j] = "later" /\ (j \in AtJobs => passed[j])
    /\ next' = [next EXCEPT ![j] = "due"]
    /\ UNCHANGED <<life, enabled, errors, backoff, since, passed, loop, stuckTodo, dueTodo, exec, orphaned, mishaps>>

BackoffOver(j) ==
    /\ backoff[j] /\ backoff' = [backoff EXCEPT ![j] = FALSE]
    /\ UNCHANGED <<life, enabled, next, errors, since, passed, loop, stuckTodo, dueTodo, exec, orphaned, mishaps>>

BecomesStuck(j) ==
    /\ since[j] = "recent" /\ since' = [since EXCEPT ![j] = "stuck"]
    /\ UNCHANGED <<life, enabled, next, errors, backoff, passed, loop, stuckTodo, dueTodo, exec, orphaned, mishaps>>

-----------------------------------------------------------------------------
Edit(j) == Remove(j) \/ (\E b \in BOOLEAN : SetEnabled(j, b)) \/ Reschedule(j) \/ Trigger(j)
           \/ \E e \in ForcedSlots : RunOnce(j, e)

Loop == Poll \/ (\E j \in Jobs : ClearStuck(j) \/ \E e \in LoopSlots : SpawnDue(j, e)) \/ EndRound

Execution(e) == MarkRunning(e) \/ Finish(e) \/ RemoveOneShot(e)

Time(j) == AtPasses(j) \/ BecomesDue(j) \/ BackoffOver(j) \/ BecomesStuck(j)

Next ==
    \/ \E j \in Jobs : Add(j) \/ Time(j)
    \/ \E j \in Edited : Edit(j)
    \/ Loop
    \/ \E e \in Slots : Execution(e) \/ Lost(e) \/ Unsaved(e)
    \/ \E j \in Jobs : StuckUnsaved(j)
    \/ Crash

Spec == Init /\ [][Next]_vars

\* The loop and the executions are scheduled, an execution is bounded by its timeout,
\* and time passes.
Fairness ==
    /\ WF_vars(Loop)
    /\ \A e \in Slots : WF_vars(Execution(e))
    /\ \A j \in Jobs : WF_vars(AtPasses(j)) /\ WF_vars(BecomesDue(j)) /\ WF_vars(BackoffOver(j))
                       /\ WF_vars(BecomesStuck(j))

FairSpec == Spec /\ Fairness

-----------------------------------------------------------------------------
TypeOK ==
    /\ life \in [Jobs -> {"never", "stored", "removed"}]
    /\ enabled \in [Jobs -> BOOLEAN]
    /\ next \in [Jobs -> {"none", "later", "due"}]
    /\ errors \in [Jobs -> 0 .. MaxRetries + 1]
    /\ backoff \in [Jobs -> BOOLEAN] /\ passed \in [Jobs -> BOOLEAN]
    /\ since \in [Jobs -> {"no", "recent", "stuck"}]
    /\ loop \in {"poll", "round"}
    /\ stuckTodo \subseteq Jobs /\ dueTodo \subseteq Jobs /\ orphaned \subseteq Jobs
    /\ exec \in [Slots -> {Free} \cup [pc : {"start", "running", "remove"}, job : Jobs]]
    /\ mishaps \in 0 .. MaxMishaps

\* A job marked running is being executed, or an execution of it was lost: no order
\* of ends, overlapping runs and stuck detection leaves a mark that nobody owns.
MarkHasOwner ==
    \A j \in Jobs : Stored(j) /\ since[j] # "no" =>
        j \in orphaned \/ \E e \in Slots : Marked(e) /\ exec[e].job = j

\* A job that was marked running does not stay so for ever: a lost execution or a
\* crash blocks it only until stuck detection.
MarkIsCleared == \A j \in Jobs : Stored(j) /\ since[j] # "no" ~> ~Stored(j) \/ since[j] = "no"

Started(j) == \E e \in Slots : Marked(e) /\ exec[e].job = j

\* A due job with retries left is executed, through crashes, lost executions,
\* backoff and full permits, unless it is taken out, is given a schedule without a time to come,
\* or uses up its retries first.
DueJobRuns ==
    \A j \in Jobs :
        Stored(j) /\ enabled[j] /\ next[j] = "due" /\ errors[j] < MaxRetries
        ~> Started(j) \/ ~Stored(j) \/ ~enabled[j] \/ next[j] = "none" \/ errors[j] >= MaxRetries

\* update_after_run says of used up retries "keep disabled until manual
\* trigger/reset": a triggered job is executed.
TriggeredJobRuns ==
    \A j \in Jobs : Stored(j) /\ enabled[j] /\ next[j] = "due" ~> Started(j) \/ ~Stored(j) \/ ~enabled[j]

\* is_due says "Skip jobs already running": the loop spawns no execution of a job
\* that is marked running.
SkipsRunning ==
    [][\A e \in LoopSlots : exec[e].pc = "free" /\ exec'[e].pc = "start" => since[exec'[e].job] = "no"]_vars

-----------------------------------------------------------------------------
(* Proofs about CronJobs: types, and who owns a running mark, for every set  *)
(* of jobs, any number of permits and calls, and any number of mishaps.      *)

Active == [pc : {"start", "running", "remove"}, job : Jobs]

\* A slot that is not free holds an execution of some job.
LEMMA SlotType ==
    ASSUME TypeOK, NEW e \in Slots, exec[e].pc # "free"
    PROVE  /\ exec[e] \in Active /\ exec[e].job \in Jobs
           /\ exec[e].pc \in {"start", "running", "remove"}
  BY DEF TypeOK, Free, Active

\* update_after_run keeps the types of the store and takes the mark away.
LEMMA UpdateType ==
    ASSUME TypeOK, NEW j \in Jobs, NEW ok \in BOOLEAN, UpdateAfterRun(j, ok)
    PROVE  /\ life' = life /\ enabled' = enabled
           /\ next' \in [Jobs -> {"none", "later", "due"}]
           /\ errors' \in [Jobs -> 0 .. MaxRetries + 1]
           /\ backoff' \in [Jobs -> BOOLEAN]
           /\ since' \in [Jobs -> {"no", "recent", "stuck"}]
           /\ \A x \in Jobs : since'[x] = since[x] \/ since'[x] = "no"
           /\ Stored(j) => since'[j] = "no"
  <1>1. CASE Stored(j)
    <2>1. /\ life' = life /\ enabled' = enabled
          /\ since' = [since EXCEPT ![j] = "no"]
          /\ backoff' = [backoff EXCEPT ![j] = ~ok]
          /\ errors' = [errors EXCEPT ![j] = IF ok THEN 0 ELSE IF errors[j] = 0 \/ errors[j] < MaxRetries THEN errors[j] + 1 ELSE errors[j]]
          /\ next' = [next EXCEPT ![j] = IF ok THEN ScheduledNext(j)
                                         ELSE IF errors'[j] >= MaxRetries THEN "none" ELSE "later"]
      BY <1>1 DEF UpdateAfterRun
    <2>2. errors' \in [Jobs -> 0 .. MaxRetries + 1]
      BY <2>1, MaxRetriesAssumption DEF TypeOK
    <2>3. next' \in [Jobs -> {"none", "later", "due"}]
      BY <2>1 DEF TypeOK, ScheduledNext
    <2>4. backoff' \in [Jobs -> BOOLEAN]
      BY <2>1, Zenon DEF TypeOK
    <2> QED BY <2>1, <2>2, <2>3, <2>4 DEF TypeOK
  <1>2. CASE ~Stored(j)
    BY <1>2 DEF UpdateAfterRun, TypeOK, store
  <1> QED BY <1>1, <1>2

\* Removing a record keeps the types of the store, and leaves no mark behind.
LEMMA EraseType ==
    ASSUME TypeOK, NEW j \in Jobs, Erase(j)
    PROVE  /\ life' \in [Jobs -> {"never", "stored", "removed"}]
           /\ enabled' \in [Jobs -> BOOLEAN] /\ backoff' \in [Jobs -> BOOLEAN]
           /\ next' \in [Jobs -> {"none", "later", "due"}]
           /\ errors' \in [Jobs -> 0 .. MaxRetries + 1]
           /\ since' \in [Jobs -> {"no", "recent", "stuck"}]
           /\ \A x \in Jobs : life'[x] = life[x] \/ life'[x] = "removed"
           /\ \A x \in Jobs : since'[x] = since[x] \/ since'[x] = "no"
  <1>1. enabled' \in [Jobs -> BOOLEAN] /\ backoff' \in [Jobs -> BOOLEAN]
    BY Zenon DEF Erase, TypeOK
  <1>2. errors' \in [Jobs -> 0 .. MaxRetries + 1]
    BY MaxRetriesAssumption DEF Erase, TypeOK
  <1>3. /\ life' \in [Jobs -> {"never", "stored", "removed"}]
        /\ next' \in [Jobs -> {"none", "later", "due"}]
        /\ since' \in [Jobs -> {"no", "recent", "stuck"}]
    BY DEF Erase, TypeOK
  <1>4. /\ \A x \in Jobs : life'[x] = life[x] \/ life'[x] = "removed"
        /\ \A x \in Jobs : since'[x] = since[x] \/ since'[x] = "no"
    BY DEF Erase, TypeOK
  <1> QED BY <1>1, <1>2, <1>3, <1>4

\* Every step keeps the types.
LEMMA TypeStep == ASSUME TypeOK, [Next]_vars PROVE TypeOK'
  <1>1. ASSUME NEW j \in Jobs, Add(j) \/ Edit(j) PROVE TypeOK'
    <2>1. CASE Add(j)
      BY <2>1 DEF Add, TypeOK, ScheduledNext
    <2>2. CASE Remove(j)
      BY <2>2, EraseType DEF Remove, TypeOK
    <2>3. ASSUME NEW b \in BOOLEAN, SetEnabled(j, b) PROVE TypeOK'
      <3>1. enabled' \in [Jobs -> BOOLEAN]
        BY <2>3, Zenon DEF SetEnabled, TypeOK
      <3> QED BY <2>3, <3>1 DEF SetEnabled, TypeOK
    <2>4. CASE Reschedule(j)
      <3>1. PICK p \in BOOLEAN :
              /\ passed' = [passed EXCEPT ![j] = p]
              /\ next' = [next EXCEPT ![j] = IF p THEN "none" ELSE "later"]
        BY <2>4 DEF Reschedule
      <3>2. passed' \in [Jobs -> BOOLEAN]
        BY <3>1, Zenon DEF TypeOK
      <3>3. next' \in [Jobs -> {"none", "later", "due"}]
        BY <3>1 DEF TypeOK
      <3> QED BY <2>4, <3>2, <3>3, MaxMishapsAssumption DEF Reschedule, TypeOK
    <2>5. CASE Trigger(j)
      BY <2>5 DEF Trigger, TypeOK
    <2>6. ASSUME NEW e \in ForcedSlots, RunOnce(j, e) PROVE TypeOK'
      BY <2>6 DEF RunOnce, TypeOK, store, Slots
    <2> QED BY <1>1, <2>1, <2>2, <2>3, <2>4, <2>5, <2>6 DEF Edit
  <1>2. ASSUME NEW j \in Jobs, Time(j) PROVE TypeOK'
    <2>1. CASE AtPasses(j)
      BY <2>1 DEF AtPasses, TypeOK, store
    <2>2. CASE BecomesDue(j)
      BY <2>2 DEF BecomesDue, TypeOK
    <2>3. CASE BackoffOver(j)
      BY <2>3 DEF BackoffOver, TypeOK
    <2>4. CASE BecomesStuck(j)
      BY <2>4 DEF BecomesStuck, TypeOK
    <2> QED BY <1>2, <2>1, <2>2, <2>3, <2>4 DEF Time
  <1>3. CASE Loop
    <2>1. CASE Poll
      BY <2>1 DEF Poll, TypeOK, store
    <2>2. ASSUME NEW j \in Jobs, ClearStuck(j) PROVE TypeOK'
      <3>1. UpdateAfterRun(j, FALSE)
        BY <2>2 DEF ClearStuck
      <3> QED BY <2>2, <3>1, UpdateType DEF ClearStuck, TypeOK
    <2>3. ASSUME NEW j \in Jobs, NEW e \in LoopSlots, SpawnDue(j, e) PROVE TypeOK'
      BY <2>3 DEF SpawnDue, TypeOK, store, Slots
    <2>4. CASE EndRound
      BY <2>4 DEF EndRound, TypeOK, store
    <2> QED BY <1>3, <2>1, <2>2, <2>3, <2>4 DEF Loop
  <1>4. ASSUME NEW e \in Slots, MarkRunning(e) PROVE TypeOK'
    <2>1. exec[e] \in Active /\ exec[e].job \in Jobs
      BY <1>4, SlotType DEF MarkRunning
    <2>2. since' \in [Jobs -> {"no", "recent", "stuck"}]
      BY <1>4, <2>1 DEF MarkRunning, TypeOK
    <2>3. exec' \in [Slots -> {Free} \cup Active]
      BY <1>4, <2>1 DEF MarkRunning, TypeOK, Active, Free
    <2> QED BY <1>4, <2>2, <2>3 DEF MarkRunning, TypeOK, Active
  <1>5. ASSUME NEW e \in Slots, Finish(e) PROVE TypeOK'
    <2>1. exec[e] \in Active /\ exec[e].job \in Jobs
      BY <1>5, SlotType DEF Finish
    <2>2. PICK ok \in BOOLEAN : UpdateAfterRun(exec[e].job, ok)
      BY <1>5 DEF Finish
    <2>3. exec' \in [Slots -> {Free} \cup Active]
      BY <1>5, <2>1 DEF Finish, TypeOK, Active, Free
    <2> QED BY <1>5, <2>1, <2>2, <2>3, UpdateType DEF Finish, TypeOK, Active
  <1>6. ASSUME NEW e \in Slots, RemoveOneShot(e) PROVE TypeOK'
    <2>1. exec[e].job \in Jobs
      BY <1>6, SlotType DEF RemoveOneShot
    <2> QED BY <1>6, <2>1, EraseType DEF RemoveOneShot, TypeOK
  <1>7. ASSUME NEW e \in Slots, Lost(e) PROVE TypeOK'
    <2>1. exec[e].job \in Jobs
      BY <1>7, SlotType DEF Lost
    <2> QED BY <1>7, <2>1, MaxMishapsAssumption DEF Lost, TypeOK, store
  <1>10. ASSUME NEW e \in Slots, Unsaved(e) PROVE TypeOK'
    <2>1. exec[e] \in Active /\ exec[e].job \in Jobs
      BY <1>10, SlotType DEF Unsaved, Marked
    <2>2. exec' \in [Slots -> {Free} \cup Active]
      BY <1>10, <2>1 DEF Unsaved, TypeOK, Active, Free
    <2> QED BY <1>10, <2>1, <2>2, MaxMishapsAssumption DEF Unsaved, TypeOK, Active, store
  <1>11. ASSUME NEW j \in Jobs, StuckUnsaved(j) PROVE TypeOK'
    BY <1>11, MaxMishapsAssumption DEF StuckUnsaved, TypeOK, store
  <1>8. CASE Crash
    <2>1. \A e \in Slots : Marked(e) => exec[e].job \in Jobs
      BY SlotType DEF Marked
    <2>2. orphaned' \subseteq Jobs
      BY <1>8, <2>1 DEF Crash, TypeOK
    <2> QED BY <1>8, <2>2, MaxMishapsAssumption DEF Crash, TypeOK, store
  <1>9. CASE UNCHANGED vars
    BY <1>9 DEF vars, store, TypeOK
  <1> QED BY <1>1, <1>2, <1>3, <1>4, <1>5, <1>6, <1>7, <1>8, <1>9, <1>10, <1>11, AtAssumption DEF Next, Execution

\* The variables of CronJobs keep their types.
THEOREM TypeCorrect == Spec => []TypeOK
  <1>1. Init => TypeOK
    BY MaxRetriesAssumption, MaxMishapsAssumption DEF Init, TypeOK, Free
  <1> QED BY <1>1, TypeStep, PTL DEF Spec

-----------------------------------------------------------------------------
\* A job that was never added is not marked.
NewIsUnmarked == \A j \in Jobs : life[j] = "never" => since[j] = "no"

\* The inductive invariant.
MarkInv == TypeOK /\ MarkHasOwner /\ NewIsUnmarked

\* A step that sets no new mark, adds no marked job and leaves the executions that
\* are running alone keeps the invariant.
LEMMA MarkKept ==
    ASSUME MarkInv, TypeOK', orphaned \subseteq orphaned',
           \A x \in Jobs : since'[x] = "no" \/ (since[x] # "no" /\ (life'[x] = "stored" => life[x] = "stored")),
           \A x \in Jobs : life'[x] = "never" => life[x] = "never",
           \A e \in Slots : Marked(e) => exec'[e] = exec[e]
    PROVE  MarkInv'
  BY DEF MarkInv, MarkHasOwner, NewIsUnmarked, Marked, Stored

\* Every step keeps an owner for every running mark.
LEMMA MarkStep == ASSUME MarkInv, [Next]_vars PROVE MarkInv'
  <1>0. TypeOK /\ TypeOK'
    BY TypeStep DEF MarkInv
  <1>1. ASSUME NEW j \in Jobs, Add(j) \/ Edit(j) PROVE MarkInv'
    <2>1. CASE Add(j)
      <3>1. since' = since /\ exec' = exec /\ orphaned' = orphaned /\ life' = [life EXCEPT ![j] = "stored"]
            /\ life[j] = "never"
        BY <2>1 DEF Add
      <3>2. since[j] = "no"
        BY <3>1 DEF MarkInv, NewIsUnmarked
      <3>3. \A x \in Jobs : life'[x] = IF x = j THEN "stored" ELSE life[x]
        BY <1>0, <3>1 DEF TypeOK
      <3>4. \A x \in Jobs : since'[x] = "no" \/ (since[x] # "no" /\ (life'[x] = "stored" => life[x] = "stored"))
        BY <3>1, <3>2, <3>3
      <3>5. \A x \in Jobs : life'[x] = "never" => life[x] = "never"
        BY <3>3
      <3>6. orphaned \subseteq orphaned' /\ \A s \in Slots : Marked(s) => exec'[s] = exec[s]
        BY <3>1
      <3> QED BY <1>0, <3>4, <3>5, <3>6, MarkKept
    <2>2. CASE Remove(j)
      <3>1. /\ \A x \in Jobs : life'[x] = life[x] \/ life'[x] = "removed"
            /\ \A x \in Jobs : since'[x] = since[x] \/ since'[x] = "no"
        BY <1>0, <2>2, EraseType DEF Remove
      <3> QED BY <1>0, <2>2, <3>1, MarkKept DEF Remove
    <2>3. ASSUME NEW b \in BOOLEAN, SetEnabled(j, b) PROVE MarkInv'
      BY <1>0, <2>3, MarkKept DEF SetEnabled
    <2>4. CASE Reschedule(j)
      BY <1>0, <2>4, MarkKept DEF Reschedule
    <2>5. CASE Trigger(j)
      BY <1>0, <2>5, MarkKept DEF Trigger
    <2>6. ASSUME NEW e \in ForcedSlots, RunOnce(j, e) PROVE MarkInv'
      <3>1. \A s \in Slots : Marked(s) => exec'[s] = exec[s]
        BY <1>0, <2>6 DEF RunOnce, Marked, TypeOK
      <3> QED BY <1>0, <2>6, <3>1, MarkKept DEF RunOnce, store
    <2> QED BY <1>1, <2>1, <2>2, <2>3, <2>4, <2>5, <2>6 DEF Edit
  <1>2. ASSUME NEW j \in Jobs, Time(j) PROVE MarkInv'
    <2>1. /\ life' = life /\ exec' = exec /\ orphaned' = orphaned
          /\ \A x \in Jobs : since'[x] = "no" \/ since[x] # "no"
      BY <1>0, <1>2 DEF Time, AtPasses, BecomesDue, BackoffOver, BecomesStuck, store, TypeOK
    <2> QED BY <1>0, <2>1, MarkKept
  <1>3. CASE Loop
    <2>1. CASE Poll \/ EndRound
      BY <1>0, <2>1, MarkKept DEF Poll, EndRound, store
    <2>2. ASSUME NEW j \in Jobs, ClearStuck(j) PROVE MarkInv'
      <3>1. UpdateAfterRun(j, FALSE) /\ exec' = exec /\ orphaned' = orphaned
        BY <2>2 DEF ClearStuck
      <3>2. life' = life /\ \A x \in Jobs : since'[x] = since[x] \/ since'[x] = "no"
        BY <1>0, <3>1, UpdateType
      <3> QED BY <1>0, <3>1, <3>2, MarkKept
    <2>3. ASSUME NEW j \in Jobs, NEW e \in LoopSlots, SpawnDue(j, e) PROVE MarkInv'
      <3>1. \A s \in Slots : Marked(s) => exec'[s] = exec[s]
        BY <1>0, <2>3 DEF SpawnDue, Marked, TypeOK
      <3> QED BY <1>0, <2>3, <3>1, MarkKept DEF SpawnDue, store
    <2> QED BY <1>3, <2>1, <2>2, <2>3 DEF Loop
  <1>4. ASSUME NEW e \in Slots, MarkRunning(e) PROVE MarkInv'
    <2> DEFINE j == exec[e].job
    <2>1. exec[e] \in Active /\ j \in Jobs /\ life' = life /\ orphaned' = orphaned
      BY <1>0, <1>4, SlotType DEF MarkRunning
    <2>2. CASE Stored(j)
      <3>1. since' = [since EXCEPT ![j] = "recent"] /\ exec' = [exec EXCEPT ![e].pc = "running"]
        BY <1>4, <2>2 DEF MarkRunning
      <3>2. exec'[e].pc = "running" /\ exec'[e].job = j
        BY <1>0, <2>1, <3>1 DEF TypeOK, Active
      <3>3. \A s \in Slots : Marked(s) => exec'[s] = exec[s]
        BY <1>0, <1>4, <3>1 DEF MarkRunning, Marked, TypeOK
      <3>4. \A x \in Jobs \ {j} : since'[x] = since[x]
        BY <1>0, <2>1, <3>1 DEF TypeOK
      <3>5. MarkHasOwner'
        BY <2>1, <3>2, <3>3, <3>4 DEF MarkInv, MarkHasOwner, Marked, Stored
      <3>6. NewIsUnmarked'
        BY <2>1, <2>2, <3>4 DEF MarkInv, NewIsUnmarked, Stored
      <3> QED BY <1>0, <3>5, <3>6 DEF MarkInv
    <2>3. CASE ~Stored(j)
      <3>1. since' = since /\ exec' = [exec EXCEPT ![e] = Free]
        BY <1>4, <2>3 DEF MarkRunning
      <3>2. \A s \in Slots : Marked(s) => exec'[s] = exec[s]
        BY <1>0, <1>4, <3>1 DEF MarkRunning, Marked, TypeOK
      <3> QED BY <1>0, <2>1, <3>1, <3>2, MarkKept
    <2> QED BY <2>2, <2>3
  <1>5. ASSUME NEW e \in Slots, Finish(e) PROVE MarkInv'
    <2> DEFINE j == exec[e].job
    <2>1. j \in Jobs /\ orphaned' = orphaned
      BY <1>0, <1>5, SlotType DEF Finish
    <2>2. PICK ok \in BOOLEAN : UpdateAfterRun(j, ok)
      BY <1>5 DEF Finish
    <2>3. /\ life' = life /\ (Stored(j) => since'[j] = "no")
          /\ \A x \in Jobs : since'[x] = since[x] \/ since'[x] = "no"
      BY <1>0, <2>1, <2>2, UpdateType
    <2>4. \A s \in Slots : s # e => exec'[s] = exec[s]
      BY <1>0, <1>5 DEF Finish, TypeOK
    <2>5. MarkHasOwner'
      BY <2>1, <2>3, <2>4 DEF MarkInv, MarkHasOwner, Marked, Stored
    <2>6. NewIsUnmarked'
      BY <2>3 DEF MarkInv, NewIsUnmarked
    <2> QED BY <1>0, <2>5, <2>6 DEF MarkInv
  <1>6. ASSUME NEW e \in Slots, RemoveOneShot(e) PROVE MarkInv'
    <2>0. exec[e].job \in Jobs /\ Erase(exec[e].job)
      BY <1>0, <1>6, SlotType DEF RemoveOneShot
    <2>1. /\ orphaned' = orphaned /\ exec' = [exec EXCEPT ![e] = Free]
          /\ \A x \in Jobs : life'[x] = life[x] \/ life'[x] = "removed"
          /\ \A x \in Jobs : since'[x] = since[x] \/ since'[x] = "no"
      BY <1>0, <1>6, <2>0, EraseType DEF RemoveOneShot
    <2>2. \A s \in Slots : Marked(s) => exec'[s] = exec[s]
      BY <1>0, <1>6, <2>1 DEF RemoveOneShot, Marked, TypeOK
    <2> QED BY <1>0, <2>1, <2>2, MarkKept
  <1>7. ASSUME NEW e \in Slots, Lost(e) PROVE MarkInv'
    <2>1. /\ life' = life /\ since' = since /\ orphaned \subseteq orphaned'
          /\ Marked(e) => exec[e].job \in orphaned'
          /\ exec' = [exec EXCEPT ![e] = Free]
      BY <1>7 DEF Lost, store
    <2>2. \A s \in Slots : s # e => exec'[s] = exec[s]
      BY <1>0, <2>1 DEF TypeOK
    <2> QED BY <1>0, <2>1, <2>2 DEF MarkInv, MarkHasOwner, NewIsUnmarked, Marked, Stored
  <1>10. ASSUME NEW e \in Slots, Unsaved(e) PROVE MarkInv'
    <2>1. /\ life' = life /\ since' = since /\ orphaned \subseteq orphaned'
          /\ exec[e].job \in orphaned'
          /\ exec' = [exec EXCEPT ![e].pc = "remove"]
      BY <1>10 DEF Unsaved, store
    <2>2. \A s \in Slots : s # e => exec'[s] = exec[s]
      BY <1>0, <2>1 DEF TypeOK
    <2> QED BY <1>0, <2>1, <2>2 DEF MarkInv, MarkHasOwner, NewIsUnmarked, Marked, Stored
  <1>11. ASSUME NEW j \in Jobs, StuckUnsaved(j) PROVE MarkInv'
    BY <1>0, <1>11, MarkKept DEF StuckUnsaved, store
  <1>8. CASE Crash
    <2>1. /\ life' = life /\ since' = since /\ orphaned \subseteq orphaned'
          /\ \A s \in Slots : Marked(s) => exec[s].job \in orphaned'
      BY <1>8 DEF Crash, store
    <2> QED BY <1>0, <2>1 DEF MarkInv, MarkHasOwner, NewIsUnmarked, Stored
  <1>9. CASE UNCHANGED vars
    BY <1>0, <1>9, MarkKept DEF vars, store
  <1> QED BY <1>1, <1>2, <1>3, <1>4, <1>5, <1>6, <1>7, <1>8, <1>9, <1>10, <1>11, AtAssumption DEF Next, Execution

\* A running mark in the store belongs to an execution in progress or to one that was
\* lost, for every set of jobs and any overlap of loop, calls and stuck detection.
THEOREM MarksAreOwned == Spec => []MarkHasOwner
  <1>1. Init => MarkInv
    BY MaxRetriesAssumption, MaxMishapsAssumption
       DEF Init, MarkInv, TypeOK, Free, MarkHasOwner, NewIsUnmarked, Stored
  <1>2. MarkInv => MarkHasOwner
    BY DEF MarkInv
  <1> QED BY <1>1, <1>2, MarkStep, PTL DEF Spec
=============================================================================
