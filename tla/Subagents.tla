----------------------------- MODULE Subagents ------------------------------
(* The subagent registry, crates/agent-core/src/subagent.rs: spawn registers *)
(* a subagent and starts a background task for it; spawn_and_wait polls the  *)
(* registry until the subagent is finished; terminate, remove and            *)
(* clear_completed may come from anybody in between.  Every access to the    *)
(* map holds its RwLock, so each one is an action.  update() is left out: it *)
(* has no caller.                                                            *)
EXTENDS Naturals

CONSTANT Ids    \* the subagents ever spawned (fresh UUIDs)

VARIABLES
    status,   \* the registry: SubagentStatus, or "absent" when there is no entry
    task,     \* the background task of each subagent
    run,      \* how its agent run ended, known to the task only
    waiter    \* the caller of spawn_and_wait, or "none"

vars == <<status, task, run, waiter>>

Finished == {"Completed", "Failed", "Terminated"}

Statuses == {"absent", "Pending", "Running"} \cup Finished

Init ==
    /\ status = [s \in Ids |-> "absent"]
    /\ task = [s \in Ids |-> "none"]
    /\ run = [s \in Ids |-> "none"]
    /\ waiter = [s \in Ids |-> "none"]

-----------------------------------------------------------------------------
\* spawn, or spawn_and_wait when somebody waits: register, then tokio::spawn.
Spawn(s, waits) ==
    /\ task[s] = "none"
    /\ status' = [status EXCEPT ![s] = "Pending"]
    /\ task' = [task EXCEPT ![s] = "spawned"]
    /\ waiter' = [waiter EXCEPT ![s] = IF waits THEN "polling" ELSE "none"]
    /\ UNCHANGED run

\* The task's first step marks the subagent running, whatever its status is now.
SetRunning(s) ==
    /\ task[s] = "spawned"
    /\ task' = [task EXCEPT ![s] = "working"]
    /\ status' = [status EXCEPT ![s] = IF @ = "absent" THEN @ ELSE "Running"]
    /\ UNCHANGED <<run, waiter>>

\* The agent answered, or failed, timed out or panicked.
AgentReturns(s) ==
    /\ task[s] = "working"
    /\ \E r \in {"ok", "err"} : run' = [run EXCEPT ![s] = r]
    /\ task' = [task EXCEPT ![s] = "returned"]
    /\ UNCHANGED <<status, waiter>>

\* Mutant: the result is recorded without looking at the status.
RecordResultBlindly(s) ==
    /\ task[s] = "returned"
    /\ task' = [task EXCEPT ![s] = "ended"]
    /\ status' = [status EXCEPT ![s] =
                    IF @ = "absent" THEN @ ELSE IF run[s] = "ok" THEN "Completed" ELSE "Failed"]
    /\ UNCHANGED <<run, waiter>>

\* Mutant: the outer Ok of catch_unwind is taken for an answer.
RecordErrAsCompleted(s) ==
    /\ task[s] = "returned"
    /\ task' = [task EXCEPT ![s] = "ended"]
    /\ status' = [status EXCEPT ![s] = IF @ \in {"absent", "Terminated"} THEN @ ELSE "Completed"]
    /\ UNCHANGED <<run, waiter>>

\* Mutant: a failed run is left to be found by the waiter's timeout.
RecordSuccessOnly(s) ==
    /\ task[s] = "returned"
    /\ task' = [task EXCEPT ![s] = "ended"]
    /\ status' = [status EXCEPT ![s] =
                    IF @ \in {"absent", "Terminated"} \/ run[s] = "err" THEN @ ELSE "Completed"]
    /\ UNCHANGED <<run, waiter>>

\* set_completed or set_failed, unless the subagent was terminated or removed.
RecordResult(s) ==
    /\ task[s] = "returned"
    /\ task' = [task EXCEPT ![s] = "ended"]
    /\ status' = [status EXCEPT ![s] =
                    IF @ \in {"absent", "Terminated"} THEN @
                    ELSE IF run[s] = "ok" THEN "Completed" ELSE "Failed"]
    /\ UNCHANGED <<run, waiter>>

\* terminate: only a subagent that is not finished.
Terminate(s) ==
    /\ status[s] \in {"Pending", "Running"}
    /\ status' = [status EXCEPT ![s] = "Terminated"]
    /\ UNCHANGED <<task, run, waiter>>

Remove(s) ==
    /\ status[s] # "absent"
    /\ status' = [status EXCEPT ![s] = "absent"]
    /\ UNCHANGED <<task, run, waiter>>

ClearCompleted ==
    /\ \E s \in Ids : status[s] \in Finished
    /\ status' = [s \in Ids |-> IF status[s] \in Finished THEN "absent" ELSE status[s]]
    /\ UNCHANGED <<task, run, waiter>>

\* Mutant: any status but Completed is handed to the caller as it is.
VerdictRaw(st) == IF st = "Completed" THEN "ok" ELSE st

\* What a poll of spawn_and_wait makes of the status it reads.
Verdict(st) ==
    CASE st = "Completed"  -> "ok"
      [] st = "Failed"     -> "err"
      [] st = "Terminated" -> "terminated"
      [] st = "absent"     -> "notFound"

\* A poll that finds the subagent pending or running sleeps and polls again.
Poll(s) ==
    /\ waiter[s] = "polling"
    /\ status[s] \in Finished \cup {"absent"}
    /\ waiter' = [waiter EXCEPT ![s] = Verdict(status[s])]
    /\ UNCHANGED <<status, task, run>>

\* Every subagent was spawned, has ended, and its waiter has its answer.
Quiescent ==
    /\ \A s \in Ids : task[s] = "ended" /\ waiter[s] # "polling"
    /\ UNCHANGED vars

Next ==
    \/ \E s \in Ids : \/ \E waits \in BOOLEAN : Spawn(s, waits)
                      \/ SetRunning(s) \/ AgentReturns(s) \/ RecordResult(s)
                      \/ Terminate(s) \/ Remove(s) \/ Poll(s)
    \/ ClearCompleted
    \/ Quiescent

Spec == Init /\ [][Next]_vars

\* Background tasks and pollers are scheduled, and the run is bounded by the
\* subagent's timeout; nobody is bound to spawn, terminate or remove.
Fairness ==
    \A s \in Ids : /\ WF_vars(SetRunning(s)) /\ WF_vars(AgentReturns(s))
                   /\ WF_vars(RecordResult(s)) /\ WF_vars(Poll(s))

FairSpec == Spec /\ Fairness

-----------------------------------------------------------------------------
TypeOK ==
    /\ status \in [Ids -> Statuses]
    /\ task \in [Ids -> {"none", "spawned", "working", "returned", "ended"}]
    /\ run \in [Ids -> {"none", "ok", "err"}]
    /\ waiter \in [Ids -> {"none", "polling", "ok", "err", "terminated", "notFound"}]

\* A terminate that hits a running subagent is final: the run that goes on in the
\* background may end either way and never shows up in the registry.
TerminatedRunStays ==
    [][\A s \in Ids : status[s] = "Terminated" /\ task[s] # "spawned"
                      => status'[s] \in {"Terminated", "absent"}]_vars

\* The waiter's verdict is about the run it asked for: an answer comes from a run
\* that answered, an error from one that failed, also when the subagent was
\* terminated while the result was on its way.
VerdictMatchesRun ==
    \A s \in Ids : /\ waiter[s] = "ok" => run[s] = "ok"
                   /\ waiter[s] = "err" => run[s] = "err"

\* spawn_and_wait always returns: whoever polls gets a verdict.
WaiterReturns == \A s \in Ids : waiter[s] = "polling" ~> waiter[s] # "polling"

\* The test terminate_persists_even_if_background_run_finishes_later: once
\* terminate returned true, the status stays Terminated and no result appears.
TerminatePersists ==
    [][\A s \in Ids : status[s] = "Terminated" => status'[s] \in {"Terminated", "absent"}]_vars
=============================================================================
