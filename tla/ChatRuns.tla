------------------------------ MODULE ChatRuns ------------------------------
(* chat.send, the run it starts in the background, and chat.abort            *)
(* (crates/gateway-core/src/http.rs).  A request with an idempotency key     *)
(* holds the key's gate from its first look at chat_dedupe until it answers; *)
(* the run it starts goes on after that and ends in its own time.  Every     *)
(* map (chat_runs, chat_abort_handles, chat_dedupe) has its own lock, so     *)
(* each visit to one is an action.  One session is modelled: all the runs    *)
(* are runs of it.                                                           *)
EXTENDS Naturals, FiniteSets, TLAPS

CONSTANTS
    Requests,   \* the chat.send calls
    Stops,      \* those whose text is a stop command
    Keyless,    \* those without an idempotency key
    RunIds,     \* run ids: an idempotency key, or the fresh id of a keyless request
    RunId,      \* the run id of each request
    Aborts,     \* the chat.abort calls
    None        \* no request

ASSUME RunIdAssumption == RunId \in [Requests -> RunIds]
ASSUME SubsetsAssumption == Stops \subseteq Requests /\ Keyless \subseteq Requests
\* A keyless request has a fresh id.
ASSUME FreshAssumption == \A r \in Keyless, q \in Requests : RunId[q] = RunId[r] => q = r
ASSUME NoneAssumption == None \notin Requests /\ Aborts \cap Requests = {}

VARIABLES
    pc,         \* where each request is
    reply,      \* what each request was answered
    gate,       \* who holds the gate of each run id
    runs,       \* chat_runs: the status of each record, or "absent"
    handle,     \* chat_abort_handles: whose task the handle of a run id aborts
    dedupe,     \* chat_dedupe: the payload kept for a run id
    exec,       \* the supervising task of each request's run
    task,       \* the inner task that generates the reply
    aborting,   \* the inner tasks that were told to abort
    outcome,    \* the status of final_payload
    saved,      \* the requests whose reply is in the session's history
    abort       \* the progress of each abort

vars == <<pc, reply, gate, runs, handle, dedupe, exec, task, aborting, outcome, saved, abort>>
requestVars == <<pc, reply, gate>>
execVars == <<exec, task, aborting, outcome, saved>>

Aborters == Aborts \cup Stops
Keyed(r) == r \notin Keyless

Init ==
    /\ pc = [r \in Requests |-> "new"] /\ reply = [r \in Requests |-> "none"]
    /\ gate = [k \in RunIds |-> None]
    /\ runs = [k \in RunIds |-> "absent"] /\ handle = [k \in RunIds |-> None]
    /\ dedupe = [k \in RunIds |-> "none"]
    /\ exec = [r \in Requests |-> "none"] /\ task = [r \in Requests |-> "none"]
    /\ aborting = {} /\ saved = {}
    /\ outcome = [r \in Requests |-> "none"]
    /\ abort = [a \in Aborters |-> [pc |-> "idle", todo |-> {}, got |-> {}]]

-----------------------------------------------------------------------------
(* rpc_chat_send.                                                           *)

\* Mutant: the gate is looked up but not waited for.
TakeGateWithoutWaiting(r) ==
    /\ pc[r] = "new"
    /\ gate' = IF Keyed(r) THEN [gate EXCEPT ![RunId[r]] = r] ELSE gate
    /\ pc' = [pc EXCEPT ![r] = "gated"]
    /\ UNCHANGED <<reply, runs, handle, dedupe, execVars, abort>>

\* A keyed request waits for the one permit of its key's gate.
TakeGate(r) ==
    /\ pc[r] = "new"
    /\ Keyed(r) => gate[RunId[r]] = None
    /\ gate' = IF Keyed(r) THEN [gate EXCEPT ![RunId[r]] = r] ELSE gate
    /\ pc' = [pc EXCEPT ![r] = "gated"]
    /\ UNCHANGED <<reply, runs, handle, dedupe, execVars, abort>>

\* The call returns and the permit is dropped.
Answer(r, payload) ==
    /\ reply' = [reply EXCEPT ![r] = payload]
    /\ pc' = [pc EXCEPT ![r] = "done"]
    /\ gate' = IF gate[RunId[r]] = r THEN [gate EXCEPT ![RunId[r]] = None] ELSE gate

\* A payload kept for the key is the answer.
CheckDedupe(r) ==
    /\ pc[r] = "gated"
    /\ IF Keyed(r) /\ dedupe[RunId[r]] # "none"
       THEN Answer(r, dedupe[RunId[r]])
       ELSE /\ pc' = [pc EXCEPT ![r] = IF r \in Stops THEN "stopping" ELSE "checked"]
            /\ UNCHANGED <<reply, gate>>
    /\ UNCHANGED <<runs, handle, dedupe, execVars, abort>>

\* Bad parameters, a session that may not send, a store error, no provider.
Reject(r) ==
    /\ pc[r] \in {"checked", "fresh"}
    /\ Answer(r, "rejected")
    /\ UNCHANGED <<runs, handle, dedupe, execVars, abort>>

\* A run of this id that is running answers in_flight; else the user's message is
\* added to the session.
CheckRuns(r) ==
    /\ pc[r] = "checked"
    /\ IF runs[RunId[r]] = "running"
       THEN Answer(r, "in_flight")
       ELSE pc' = [pc EXCEPT ![r] = "fresh"] /\ UNCHANGED <<reply, gate>>
    /\ UNCHANGED <<runs, handle, dedupe, execVars, abort>>

\* A skill command is answered at once, and its answer kept for the key.
SkillCommand(r) ==
    /\ pc[r] = "fresh"
    /\ saved' = saved \cup {r}
    /\ dedupe' = IF Keyed(r) THEN [dedupe EXCEPT ![RunId[r]] = "ok"] ELSE dedupe
    /\ Answer(r, "ok")
    /\ UNCHANGED <<runs, handle, exec, task, aborting, outcome, abort>>

\* The record is written and the supervising task spawned, whose first step spawns the
\* inner task; the call answers.
StartRun(r) ==
    /\ pc[r] = "fresh"
    /\ runs' = [runs EXCEPT ![RunId[r]] = "running"]
    /\ exec' = [exec EXCEPT ![r] = "starting"]
    /\ task' = [task EXCEPT ![r] = "running"]
    /\ Answer(r, "started")
    /\ UNCHANGED <<handle, dedupe, aborting, outcome, saved, abort>>

-----------------------------------------------------------------------------
(* The supervising task of a run.                                           *)

RegisterHandle(r) ==
    /\ exec[r] = "starting"
    /\ exec' = [exec EXCEPT ![r] = "waiting"]
    /\ handle' = [handle EXCEPT ![RunId[r]] = r]
    /\ UNCHANGED <<requestVars, runs, dedupe, task, aborting, outcome, saved, abort>>

\* The reply is generated, or fails; a task told to abort may still get that far.
TaskEnds(r) ==
    /\ task[r] = "running"
    /\ \E e \in {"ok", "error"} \cup (IF r \in aborting THEN {"aborted"} ELSE {}) :
          task' = [task EXCEPT ![r] = e]
    /\ UNCHANGED <<requestVars, runs, handle, dedupe, exec, aborting, outcome, saved, abort>>

\* Mutant: a reply counts as given although it could not be saved.
JoinIgnoringStore(r) ==
    /\ exec[r] = "waiting" /\ task[r] \notin {"none", "running"}
    /\ exec' = [exec EXCEPT ![r] = "ended1"]
    /\ outcome' = [outcome EXCEPT ![r] = task[r]]
    /\ \/ task[r] = "ok" /\ saved' = saved \cup {r}
       \/ UNCHANGED saved
    /\ UNCHANGED <<requestVars, runs, handle, dedupe, task, aborting, abort>>

\* The inner task is joined; a reply is saved, and if that fails the run failed.
Join(r) ==
    /\ exec[r] = "waiting" /\ task[r] \notin {"none", "running"}
    /\ exec' = [exec EXCEPT ![r] = "ended1"]
    /\ \/ /\ task[r] = "ok"
          /\ saved' = saved \cup {r}
          /\ outcome' = [outcome EXCEPT ![r] = "ok"]
       \/ /\ outcome' = [outcome EXCEPT ![r] = IF task[r] = "ok" THEN "error" ELSE task[r]]
          /\ UNCHANGED saved
    /\ UNCHANGED <<requestVars, runs, handle, dedupe, task, aborting, abort>>

\* Mutant: the status of a timeout is spelled the way the error text says it.
TimedOut(r) ==
    /\ exec[r] = "waiting" /\ task[r] = "running"
    /\ exec' = [exec EXCEPT ![r] = "ended1"]
    /\ outcome' = [outcome EXCEPT ![r] = "timed out"]
    /\ aborting' = aborting \cup {r}
    /\ UNCHANGED <<requestVars, runs, handle, dedupe, task, saved, abort>>

\* The timeout fires first: the inner task is told to abort and nobody joins it.
Timeout(r) ==
    /\ exec[r] = "waiting" /\ task[r] = "running"
    /\ exec' = [exec EXCEPT ![r] = "ended1"]
    /\ outcome' = [outcome EXCEPT ![r] = "timeout"]
    /\ aborting' = aborting \cup {r}
    /\ UNCHANGED <<requestVars, runs, handle, dedupe, task, saved, abort>>

\* Mutant: a timeout is not recorded.
SetChatRunStateUnlessTimeout(r, from, to) ==
    /\ exec[r] = from
    /\ exec' = [exec EXCEPT ![r] = to]
    /\ runs' = IF outcome[r] = "timeout" THEN runs ELSE [runs EXCEPT ![RunId[r]] = outcome[r]]
    /\ UNCHANGED <<requestVars, handle, dedupe, task, aborting, outcome, saved, abort>>

\* set_chat_run_state_in_map: once where the outcome is known and once more after it.
SetChatRunState(r, from, to) ==
    /\ exec[r] = from
    /\ exec' = [exec EXCEPT ![r] = to]
    /\ runs' = [runs EXCEPT ![RunId[r]] = outcome[r]]
    /\ UNCHANGED <<requestVars, handle, dedupe, task, aborting, outcome, saved, abort>>

\* Mutant: the handle is left in the map.
RemoveHandleNever(r) ==
    /\ exec[r] = "unregister"
    /\ exec' = [exec EXCEPT ![r] = "dedupe"]
    /\ UNCHANGED <<requestVars, runs, handle, dedupe, task, aborting, outcome, saved, abort>>

\* The handle under the run id is removed, whoever's it is.
RemoveHandle(r) ==
    /\ exec[r] = "unregister"
    /\ exec' = [exec EXCEPT ![r] = "dedupe"]
    /\ handle' = [handle EXCEPT ![RunId[r]] = None]
    /\ UNCHANGED <<requestVars, runs, dedupe, task, aborting, outcome, saved, abort>>

\* Mutant: only a successful payload is kept.
KeepPayloadIfOk(r) ==
    /\ exec[r] = "dedupe"
    /\ exec' = [exec EXCEPT ![r] = "ended"]
    /\ dedupe' = IF Keyed(r) /\ outcome[r] = "ok" THEN [dedupe EXCEPT ![RunId[r]] = outcome[r]] ELSE dedupe
    /\ UNCHANGED <<requestVars, runs, handle, task, aborting, outcome, saved, abort>>

\* The final payload is kept for the key.
KeepPayload(r) ==
    /\ exec[r] = "dedupe"
    /\ exec' = [exec EXCEPT ![r] = "ended"]
    /\ dedupe' = IF Keyed(r) THEN [dedupe EXCEPT ![RunId[r]] = outcome[r]] ELSE dedupe
    /\ UNCHANGED <<requestVars, runs, handle, task, aborting, outcome, saved, abort>>

-----------------------------------------------------------------------------
(* rpc_chat_abort, also called for a stop command.                          *)

Running == {k \in RunIds : runs[k] = "running"}

\* The runs to abort: all that are running, or the one that was named.
BeginAbort(a) ==
    /\ abort[a].pc = "idle"
    /\ a \in Stops => pc[a] = "stopping"
    /\ \E S \in {Running} \cup (IF a \in Stops THEN {} ELSE {Running \cap {k} : k \in RunIds}) :
          abort' = [abort EXCEPT ![a] = [pc |-> "handles", todo |-> S, got |-> {}]]
    /\ UNCHANGED <<requestVars, runs, handle, dedupe, execVars>>

\* Mutant: a run counts as aborted although its handle was not found.
AbortTaskWithoutHandle(a, k) ==
    /\ abort[a].pc = "handles" /\ k \in abort[a].todo
    /\ aborting' = IF handle[k] # None THEN aborting \cup {handle[k]} ELSE aborting
    /\ handle' = [handle EXCEPT ![k] = None]
    /\ abort' = [abort EXCEPT ![a] = [pc |-> "handles", todo |-> @.todo \ {k}, got |-> @.got \cup {k}]]
    /\ UNCHANGED <<requestVars, runs, dedupe, exec, task, outcome, saved>>

\* Mutant: a run whose handle is not there is tried again.
AbortTaskAwaitingHandle(a, k) ==
    /\ abort[a].pc = "handles" /\ k \in abort[a].todo
    /\ IF handle[k] # None
       THEN /\ aborting' = aborting \cup {handle[k]}
            /\ handle' = [handle EXCEPT ![k] = None]
            /\ abort' = [abort EXCEPT ![a] = [pc |-> "handles", todo |-> @.todo \ {k}, got |-> @.got \cup {k}]]
       ELSE UNCHANGED <<abort, aborting, handle>>
    /\ UNCHANGED <<requestVars, runs, dedupe, exec, task, outcome, saved>>

\* Take a run's handle, if it is there, and abort its task.
AbortTask(a, k) ==
    /\ abort[a].pc = "handles" /\ k \in abort[a].todo
    /\ IF handle[k] # None
       THEN /\ aborting' = aborting \cup {handle[k]}
            /\ handle' = [handle EXCEPT ![k] = None]
            /\ abort' = [abort EXCEPT ![a] = [pc |-> "handles", todo |-> @.todo \ {k}, got |-> @.got \cup {k}]]
       ELSE /\ abort' = [abort EXCEPT ![a] = [pc |-> "handles", todo |-> @.todo \ {k}, got |-> @.got]]
            /\ UNCHANGED <<aborting, handle>>
    /\ UNCHANGED <<requestVars, runs, dedupe, exec, task, outcome, saved>>

\* Mark an aborted run, whatever its record says by now.
MarkAborted(a, k) ==
    /\ abort[a].pc = "handles" /\ abort[a].todo = {} /\ k \in abort[a].got
    /\ runs' = [runs EXCEPT ![k] = "aborted"]
    /\ abort' = [abort EXCEPT ![a] = [pc |-> "handles", todo |-> {}, got |-> @.got \ {k}]]
    /\ UNCHANGED <<requestVars, handle, dedupe, execVars>>

\* chat.abort answers; a stop command also keeps the answer for its key.
EndAbort(a) ==
    /\ abort[a].pc = "handles" /\ abort[a].todo = {} /\ abort[a].got = {}
    /\ abort' = [abort EXCEPT ![a] = [pc |-> "done", todo |-> {}, got |-> {}]]
    /\ IF a \in Stops
       THEN /\ dedupe' = IF Keyed(a) THEN [dedupe EXCEPT ![RunId[a]] = "stopped"] ELSE dedupe
            /\ Answer(a, "stopped")
       ELSE UNCHANGED <<dedupe, requestVars>>
    /\ UNCHANGED <<runs, handle, execVars>>

-----------------------------------------------------------------------------
Request(r) == TakeGate(r) \/ CheckDedupe(r) \/ Reject(r) \/ CheckRuns(r) \/ SkillCommand(r) \/ StartRun(r)

Supervise(r) ==
    \/ RegisterHandle(r) \/ Join(r) \/ Timeout(r)
    \/ SetChatRunState(r, "ended1", "ended2") \/ SetChatRunState(r, "ended2", "unregister")
    \/ RemoveHandle(r) \/ KeepPayload(r)

Abort(a) == (\E k \in RunIds : AbortTask(a, k) \/ MarkAborted(a, k)) \/ EndAbort(a)

Quiescent ==
    /\ \A r \in Requests : pc[r] = "done" /\ exec[r] \in {"none", "ended"} /\ task[r] # "running"
    /\ \A a \in Aborts : abort[a].pc \in {"idle", "done"}
    /\ UNCHANGED vars

Next ==
    \/ \E r \in Requests : Request(r) \/ Supervise(r) \/ TaskEnds(r)
    \/ \E a \in Aborters : BeginAbort(a) \/ Abort(a)
    \/ Quiescent

Spec == Init /\ [][Next]_vars

\* Handlers and tasks are scheduled, a run is bounded by its timeout, and the gate
\* (a fair semaphore) goes to everybody who waits for it.  Nobody has to call
\* chat.abort.
Fairness ==
    /\ \A r \in Requests : SF_vars(TakeGate(r)) /\ WF_vars(Request(r)) /\ WF_vars(Supervise(r)) /\ WF_vars(TaskEnds(r))
    /\ \A a \in Aborters : WF_vars(Abort(a)) /\ (a \in Stops => WF_vars(BeginAbort(a)))

FairSpec == Spec /\ Fairness

-----------------------------------------------------------------------------
Ended == {"ok", "error", "timeout", "aborted"}
ExecStates == {"none", "starting", "waiting", "ended1", "ended2", "unregister", "dedupe", "ended"}

TypeOK ==
    /\ pc \in [Requests -> {"new", "gated", "checked", "fresh", "stopping", "done"}]
    /\ reply \in [Requests -> {"none", "rejected", "in_flight", "started", "stopped"} \cup Ended]
    /\ gate \in [RunIds -> Requests \cup {None}]
    /\ runs \in [RunIds -> {"absent", "running"} \cup Ended]
    /\ handle \in [RunIds -> Requests \cup {None}]
    /\ dedupe \in [RunIds -> {"none", "stopped"} \cup Ended]
    /\ exec \in [Requests -> ExecStates]
    /\ task \in [Requests -> {"none", "running", "ok", "error", "aborted"}]
    /\ aborting \subseteq Requests /\ saved \subseteq Requests
    /\ outcome \in [Requests -> {"none"} \cup Ended]
    /\ abort \in [Aborters ->
          [pc : {"idle", "handles", "done"}, todo : SUBSET RunIds, got : SUBSET RunIds]]

\* While the record of a run says running no second run of that id is started,
\* although the look at the record and the new record are steps apart: the gate
\* keeps every other request of the key out.
NoTwinStart ==
    [][\A r \in Requests : exec[r] = "none" /\ exec'[r] = "starting" => runs[RunId[r]] # "running"]_vars

\* An abort handle in the map belongs to a run that has not finished: none is left
\* behind, however runs of the same id and aborts take and remove handles.
HandleHasOwner ==
    \A k \in RunIds : handle[k] # None =>
        RunId[handle[k]] = k /\ exec[handle[k]] \in {"waiting", "ended1", "ended2", "unregister"}

\* A record says aborted only if a task of that run was told to abort.
AbortedWasAsked ==
    \A k \in RunIds : runs[k] = "aborted" => \E r \in aborting : RunId[r] = k

\* A retry that is answered ok finds the reply in the session's history.
CachedOkWasSaved ==
    \A r \in Requests : reply[r] = "ok" => \E q \in saved : RunId[q] = RunId[r]

\* Every chat.send is answered: the gate of its key comes free, whatever the calls
\* before it did.
RequestsAreAnswered == <>(\A r \in Requests : pc[r] = "done")

\* A record does not say running for ever, whatever aborts, times out or restarts.
RecordSettles == \A k \in RunIds : runs[k] = "running" ~> runs[k] # "running"

\* A key whose run was started has an answer for retries in the end.
KeyGetsAnswer ==
    \A r \in Requests : exec[r] # "none" /\ Keyed(r) ~> dedupe[RunId[r]] # "none"

\* The tables agree: a handle has a run, an aborted record was aborted, an ok answer was
\* saved (rpc_chat_send, rpc_chat_abort).
RunsAreAccountedFor == TypeOK /\ HandleHasOwner /\ AbortedWasAsked /\ CachedOkWasSaved

\* Nothing stays open: calls are answered, records settle, keys get an answer.
EverythingSettles == RequestsAreAnswered /\ RecordSettles /\ KeyGetsAnswer

-----------------------------------------------------------------------------
(* Proofs.  The tables agree because of how each fact reaches them: an       *)
(* outcome is settled before it is recorded or kept, it is ok only for a     *)
(* saved reply and aborted only for a task that was told to abort, and what  *)
(* an abort collects it has told to abort.                                   *)

\* What the supervising task knows once its run has ended, and where it got it from.
OutcomeIsFounded ==
    \A r \in Requests :
        /\ exec[r] \in {"ended1", "ended2", "unregister", "dedupe", "ended"} => outcome[r] \in Ended
        /\ task[r] = "aborted" \/ outcome[r] = "aborted" => r \in aborting
        /\ outcome[r] = "ok" => r \in saved

\* What an abort is about to mark has been told to abort.
CollectedWasAsked ==
    \A a \in Aborters : \A k \in abort[a].got : \E r \in aborting : RunId[r] = k

\* An ok payload kept for a key belongs to a saved reply.
KeptOkWasSaved ==
    \A k \in RunIds : dedupe[k] = "ok" => \E q \in saved : RunId[q] = k

\* A call that has not answered has no run.
UnansweredHasNoRun == \A r \in Requests : pc[r] # "done" => exec[r] = "none"

\* The inductive invariant behind RunsAreAccountedFor.
AccountInv ==
    /\ RunsAreAccountedFor
    /\ OutcomeIsFounded /\ CollectedWasAsked /\ KeptOkWasSaved /\ UnansweredHasNoRun

\* Initially every table is empty.
LEMMA AccountInit == Init => AccountInv
  <1> USE RunIdAssumption, SubsetsAssumption, NoneAssumption
  <1> SUFFICES ASSUME Init PROVE AccountInv
    OBVIOUS
  <1>1. TypeOK
    BY DEF Init, TypeOK, ExecStates, Ended
  <1>2. HandleHasOwner /\ AbortedWasAsked /\ CachedOkWasSaved
    BY DEF Init, HandleHasOwner, AbortedWasAsked, CachedOkWasSaved
  <1>3. OutcomeIsFounded /\ KeptOkWasSaved /\ UnansweredHasNoRun
    BY DEF Init, OutcomeIsFounded, KeptOkWasSaved, UnansweredHasNoRun
  <1>4. CollectedWasAsked
    BY DEF Init, CollectedWasAsked
  <1> QED BY <1>1, <1>2, <1>3, <1>4 DEF AccountInv, RunsAreAccountedFor

\* What an answer changes: the caller's own place and reply, and the gate it held.
LEMMA AnswerTypes ==
    ASSUME TypeOK, NEW r \in Requests,
           NEW p \in {"rejected", "in_flight", "started", "stopped"} \cup Ended, Answer(r, p)
    PROVE  /\ pc' \in [Requests -> {"new", "gated", "checked", "fresh", "stopping", "done"}]
           /\ reply' \in [Requests -> {"none", "rejected", "in_flight", "started", "stopped"} \cup Ended]
           /\ gate' \in [RunIds -> Requests \cup {None}]
           /\ \A q \in Requests : reply'[q] = IF q = r THEN p ELSE reply[q]
           /\ \A q \in Requests : pc'[q] = IF q = r THEN "done" ELSE pc[q]
  BY RunIdAssumption DEF Answer, TypeOK

\* Every step of a request keeps the types.
LEMMA RequestTypes == ASSUME AccountInv, NEW r \in Requests, Request(r) PROVE TypeOK'
  <1> USE RunIdAssumption
  <1>0. TypeOK
    BY DEF AccountInv, RunsAreAccountedFor
  <1>1. CASE TakeGate(r)
    BY <1>0, <1>1 DEF TakeGate, TypeOK, execVars
  <1>2. CASE CheckDedupe(r)
    <2>1. CASE Keyed(r) /\ dedupe[RunId[r]] # "none"
      <3>1. dedupe[RunId[r]] \in {"stopped"} \cup Ended
        BY <1>0, <2>1 DEF TypeOK
      <3>2. Answer(r, dedupe[RunId[r]])
        BY <1>2, <2>1 DEF CheckDedupe
      <3>3. UNCHANGED <<runs, handle, dedupe, exec, task, aborting, outcome, saved, abort>>
        BY <1>2 DEF CheckDedupe, execVars
      <3>4. /\ pc' \in [Requests -> {"new", "gated", "checked", "fresh", "stopping", "done"}]
            /\ reply' \in [Requests -> {"none", "rejected", "in_flight", "started", "stopped"} \cup Ended]
            /\ gate' \in [RunIds -> Requests \cup {None}]
        BY <1>0, <3>1, <3>2, AnswerTypes
      <3> QED BY <1>0, <3>3, <3>4 DEF TypeOK
    <2>2. CASE ~(Keyed(r) /\ dedupe[RunId[r]] # "none")
      BY <1>0, <1>2, <2>2 DEF CheckDedupe, TypeOK, execVars
    <2> QED BY <2>1, <2>2
  <1>3. CASE Reject(r)
    BY <1>0, <1>3, AnswerTypes DEF Reject, TypeOK, execVars
  <1>4. CASE CheckRuns(r)
    <2>1. CASE runs[RunId[r]] = "running"
      BY <1>0, <1>4, <2>1, AnswerTypes DEF CheckRuns, TypeOK, execVars
    <2>2. CASE runs[RunId[r]] # "running"
      BY <1>0, <1>4, <2>2 DEF CheckRuns, TypeOK, execVars
    <2> QED BY <2>1, <2>2
  <1>5. CASE SkillCommand(r)
    BY <1>0, <1>5, AnswerTypes DEF SkillCommand, TypeOK, Ended
  <1>6. CASE StartRun(r)
    BY <1>0, <1>6, AnswerTypes DEF StartRun, TypeOK, ExecStates
  <1> QED BY <1>1, <1>2, <1>3, <1>4, <1>5, <1>6 DEF Request

\* Every step of a run keeps the types: an outcome is settled before it is written.
LEMMA RunTypes ==
    ASSUME AccountInv, NEW r \in Requests, Supervise(r) \/ TaskEnds(r) PROVE TypeOK'
  <1> USE RunIdAssumption
  <1>0. TypeOK /\ (exec[r] \in {"ended1", "ended2", "unregister", "dedupe", "ended"} => outcome[r] \in Ended)
    BY DEF AccountInv, RunsAreAccountedFor, OutcomeIsFounded
  <1>1. CASE RegisterHandle(r)
    BY <1>0, <1>1 DEF RegisterHandle, TypeOK, requestVars, ExecStates
  <1>2. CASE TaskEnds(r)
    BY <1>0, <1>2 DEF TaskEnds, TypeOK, requestVars
  <1>3. CASE Join(r)
    BY <1>0, <1>3 DEF Join, TypeOK, requestVars, ExecStates, Ended
  <1>4. CASE Timeout(r)
    BY <1>0, <1>4 DEF Timeout, TypeOK, requestVars, ExecStates, Ended
  <1>5. CASE SetChatRunState(r, "ended1", "ended2") \/ SetChatRunState(r, "ended2", "unregister")
    BY <1>0, <1>5 DEF SetChatRunState, TypeOK, requestVars, ExecStates
  <1>6. CASE RemoveHandle(r)
    BY <1>0, <1>6 DEF RemoveHandle, TypeOK, requestVars, ExecStates
  <1>7. CASE KeepPayload(r)
    BY <1>0, <1>7 DEF KeepPayload, TypeOK, requestVars, ExecStates
  <1> QED BY <1>1, <1>2, <1>3, <1>4, <1>5, <1>6, <1>7 DEF Supervise

\* Every step of an abort keeps the types.
LEMMA AbortTypes ==
    ASSUME AccountInv, NEW a \in Aborters, BeginAbort(a) \/ Abort(a) PROVE TypeOK'
  <1> USE RunIdAssumption, SubsetsAssumption
  <1>0. TypeOK
    BY DEF AccountInv, RunsAreAccountedFor
  <1>1. CASE BeginAbort(a)
    <2>1. PICK S \in {Running} \cup (IF a \in Stops THEN {} ELSE {Running \cap {k} : k \in RunIds}) :
              abort' = [abort EXCEPT ![a] = [pc |-> "handles", todo |-> S, got |-> {}]]
      BY <1>1 DEF BeginAbort
    <2>2. S \subseteq RunIds
      BY <2>1 DEF Running
    <2> QED BY <1>0, <1>1, <2>1, <2>2 DEF BeginAbort, TypeOK, requestVars, execVars
  <1>2. ASSUME NEW k \in RunIds, AbortTask(a, k) PROVE TypeOK'
    BY <1>0, <1>2 DEF AbortTask, TypeOK, requestVars
  <1>3. ASSUME NEW k \in RunIds, MarkAborted(a, k) PROVE TypeOK'
    BY <1>0, <1>3 DEF MarkAborted, TypeOK, requestVars, execVars, Ended
  <1>4. CASE EndAbort(a)
    <2>1. CASE a \in Stops
      <3>1. a \in Requests /\ Answer(a, "stopped")
        BY <1>4, <2>1 DEF EndAbort
      <3>2. /\ pc' \in [Requests -> {"new", "gated", "checked", "fresh", "stopping", "done"}]
            /\ reply' \in [Requests -> {"none", "rejected", "in_flight", "started", "stopped"} \cup Ended]
            /\ gate' \in [RunIds -> Requests \cup {None}]
        BY <1>0, <3>1, AnswerTypes
      <3> QED BY <1>0, <1>4, <2>1, <3>2 DEF EndAbort, TypeOK, execVars
    <2>2. CASE a \notin Stops
      BY <1>0, <1>4, <2>2 DEF EndAbort, TypeOK, requestVars, execVars
    <2> QED BY <2>1, <2>2
  <1> QED BY <1>1, <1>2, <1>3, <1>4 DEF Abort

\* A step of the specification is a step of one request, one run or one abort, or
\* changes nothing.
LEMMA NextCases ==
    ASSUME [Next]_vars
    PROVE  \/ \E r \in Requests : Request(r)
           \/ \E r \in Requests : Supervise(r) \/ TaskEnds(r)
           \/ \E a \in Aborters : BeginAbort(a) \/ Abort(a)
           \/ UNCHANGED vars
  BY DEF Next, Quiescent

\* The parts of AccountInv, each of which a step must keep.
LEMMA AccountParts ==
    ASSUME AccountInv
    PROVE  /\ TypeOK /\ HandleHasOwner /\ AbortedWasAsked /\ CachedOkWasSaved
           /\ OutcomeIsFounded /\ CollectedWasAsked /\ KeptOkWasSaved /\ UnansweredHasNoRun
  BY DEF AccountInv, RunsAreAccountedFor

\* A request's step: a reply that says ok is saved or was kept, and the run it may
\* start is its own.
LEMMA RequestKeeps == ASSUME AccountInv, NEW r \in Requests, Request(r) PROVE AccountInv'
  <1> USE RunIdAssumption
  <1>0. /\ TypeOK /\ HandleHasOwner /\ AbortedWasAsked /\ CachedOkWasSaved
        /\ OutcomeIsFounded /\ CollectedWasAsked /\ KeptOkWasSaved /\ UnansweredHasNoRun
    BY AccountParts
  <1>1. TypeOK'
    BY RequestTypes
  <1>2. /\ \A q \in Requests : q # r => exec'[q] = exec[q] /\ task'[q] = task[q] /\ pc'[q] = pc[q]
        /\ \/ exec'[r] = exec[r] /\ task'[r] = task[r]
           \/ pc'[r] = "done" /\ exec'[r] = "starting" /\ task'[r] = "running"
        /\ outcome' = outcome /\ aborting' = aborting /\ saved \subseteq saved'
        /\ handle' = handle /\ abort' = abort /\ pc[r] # "done"
    <2>1. CASE StartRun(r)
      <3>1. /\ pc' = [pc EXCEPT ![r] = "done"] /\ pc[r] = "fresh"
            /\ exec' = [exec EXCEPT ![r] = "starting"] /\ task' = [task EXCEPT ![r] = "running"]
            /\ UNCHANGED <<outcome, aborting, saved, handle, abort>>
        BY <2>1 DEF StartRun, Answer
      <3>2. /\ pc'[r] = "done" /\ exec'[r] = "starting" /\ task'[r] = "running"
            /\ \A q \in Requests : q # r => exec'[q] = exec[q] /\ task'[q] = task[q] /\ pc'[q] = pc[q]
        BY <1>0, <3>1 DEF TypeOK
      <3> QED BY <3>1, <3>2
    <2>2. CASE SkillCommand(r)
      <3>1. /\ pc' = [pc EXCEPT ![r] = "done"] /\ pc[r] = "fresh" /\ saved' = saved \cup {r}
            /\ UNCHANGED <<exec, task, outcome, aborting, handle, abort>>
        BY <2>2 DEF SkillCommand, Answer
      <3>2. \A q \in Requests : q # r => pc'[q] = pc[q]
        BY <1>0, <3>1 DEF TypeOK
      <3> QED BY <3>1, <3>2
    <2>3. CASE TakeGate(r) \/ CheckDedupe(r) \/ Reject(r) \/ CheckRuns(r)
      <3>1. UNCHANGED <<exec, task, outcome, aborting, saved, handle, abort>>
        BY <2>3 DEF TakeGate, CheckDedupe, Reject, CheckRuns, execVars
      <3>2. pc[r] # "done" /\ \A q \in Requests : q # r => pc'[q] = pc[q]
        BY <1>0, <2>3 DEF TakeGate, CheckDedupe, Reject, CheckRuns, Answer, TypeOK
      <3> QED BY <3>1, <3>2
    <2> QED BY <2>1, <2>2, <2>3 DEF Request
  <1>3. exec[r] = "none"
    BY <1>0, <1>2 DEF UnansweredHasNoRun
  <1>4. HandleHasOwner'
    BY <1>0, <1>2, <1>3 DEF HandleHasOwner, TypeOK
  <1>5. OutcomeIsFounded'
    BY <1>0, <1>2 DEF OutcomeIsFounded
  <1>6. CollectedWasAsked' /\ UnansweredHasNoRun'
    BY <1>0, <1>2 DEF CollectedWasAsked, UnansweredHasNoRun
  <1>7. AbortedWasAsked'
    BY <1>0, <1>2
       DEF AbortedWasAsked, Request, TakeGate, CheckDedupe, Reject, CheckRuns, SkillCommand, StartRun, TypeOK
  <1>8. KeptOkWasSaved' /\ CachedOkWasSaved'
    <2>1. CASE SkillCommand(r)
      BY <1>0, <2>1 DEF SkillCommand, Answer, KeptOkWasSaved, CachedOkWasSaved, TypeOK
    <2>2. CASE ~SkillCommand(r)
      <3>1. dedupe' = dedupe /\ saved' = saved
        BY <2>2 DEF Request, TakeGate, CheckDedupe, Reject, CheckRuns, StartRun, execVars
      <3>2. \A q \in Requests : reply'[q] # reply[q] /\ reply'[q] = "ok" => dedupe[RunId[q]] = "ok"
        BY <1>0, <2>2 DEF Request, TakeGate, CheckDedupe, Reject, CheckRuns, StartRun, Answer, TypeOK
      <3> QED BY <1>0, <3>1, <3>2 DEF KeptOkWasSaved, CachedOkWasSaved
    <2> QED BY <2>1, <2>2
  <1> QED BY <1>1, <1>4, <1>5, <1>6, <1>7, <1>8 DEF AccountInv, RunsAreAccountedFor

\* A run's step: what it records, keeps and leaves behind.
LEMMA RunKeeps ==
    ASSUME AccountInv, NEW r \in Requests, Supervise(r) \/ TaskEnds(r) PROVE AccountInv'
  <1> USE RunIdAssumption
  <1>0. /\ TypeOK /\ HandleHasOwner /\ AbortedWasAsked /\ CachedOkWasSaved
        /\ OutcomeIsFounded /\ CollectedWasAsked /\ KeptOkWasSaved /\ UnansweredHasNoRun
    BY AccountParts
  <1>1. TypeOK'
    BY RunTypes
  <1>2. /\ pc' = pc /\ reply' = reply /\ abort' = abort
        /\ aborting \subseteq aborting' /\ saved \subseteq saved'
        /\ \A q \in Requests : q # r => exec'[q] = exec[q] /\ task'[q] = task[q] /\ outcome'[q] = outcome[q]
    <2>1. CASE Join(r) \/ Timeout(r)
      BY <1>0, <2>1 DEF Join, Timeout, TypeOK, requestVars
    <2>2. CASE TaskEnds(r) \/ RegisterHandle(r) \/ RemoveHandle(r) \/ KeepPayload(r)
      BY <1>0, <2>2 DEF TaskEnds, RegisterHandle, RemoveHandle, KeepPayload, TypeOK, requestVars
    <2>3. CASE SetChatRunState(r, "ended1", "ended2") \/ SetChatRunState(r, "ended2", "unregister")
      BY <1>0, <2>3 DEF SetChatRunState, TypeOK, requestVars
    <2> QED BY <2>1, <2>2, <2>3 DEF Supervise
  <1>3. CollectedWasAsked' /\ CachedOkWasSaved'
    BY <1>0, <1>2 DEF CollectedWasAsked, CachedOkWasSaved
  <1>4. UnansweredHasNoRun'
    <2>1. exec'[r] = exec[r] \/ exec[r] # "none"
      BY DEF Supervise, TaskEnds, RegisterHandle, Join, Timeout, SetChatRunState, RemoveHandle, KeepPayload
    <2> QED BY <1>0, <1>2, <2>1 DEF UnansweredHasNoRun
  <1>5. HandleHasOwner'
    <2>1. CASE RegisterHandle(r)
      BY <1>0, <2>1 DEF RegisterHandle, HandleHasOwner, TypeOK
    <2>2. CASE RemoveHandle(r)
      BY <1>0, <2>2 DEF RemoveHandle, HandleHasOwner, TypeOK
    <2>3. CASE KeepPayload(r) \/ TaskEnds(r)
      BY <1>0, <2>3 DEF KeepPayload, TaskEnds, HandleHasOwner, TypeOK
    <2>4. CASE Join(r) \/ Timeout(r)
      BY <1>0, <2>4 DEF Join, Timeout, HandleHasOwner, TypeOK
    <2>5. CASE SetChatRunState(r, "ended1", "ended2") \/ SetChatRunState(r, "ended2", "unregister")
      BY <1>0, <2>5 DEF SetChatRunState, HandleHasOwner, TypeOK
    <2> QED BY <2>1, <2>2, <2>3, <2>4, <2>5 DEF Supervise
  <1>6. OutcomeIsFounded'
    <2>1. CASE Join(r)
      BY <1>0, <2>1 DEF Join, OutcomeIsFounded, TypeOK, Ended
    <2>2. CASE Timeout(r)
      BY <1>0, <2>2 DEF Timeout, OutcomeIsFounded, TypeOK, Ended
    <2>3. CASE TaskEnds(r)
      BY <1>0, <2>3 DEF TaskEnds, OutcomeIsFounded, TypeOK
    <2>4. CASE RegisterHandle(r) \/ RemoveHandle(r) \/ KeepPayload(r)
      BY <1>0, <2>4 DEF RegisterHandle, RemoveHandle, KeepPayload, OutcomeIsFounded, TypeOK
    <2>5. CASE SetChatRunState(r, "ended1", "ended2") \/ SetChatRunState(r, "ended2", "unregister")
      BY <1>0, <2>5 DEF SetChatRunState, OutcomeIsFounded, TypeOK
    <2> QED BY <2>1, <2>2, <2>3, <2>4, <2>5 DEF Supervise
  <1>7. AbortedWasAsked'
    <2>1. runs' = runs \/ runs' = [runs EXCEPT ![RunId[r]] = outcome[r]]
      <3>1. CASE SetChatRunState(r, "ended1", "ended2") \/ SetChatRunState(r, "ended2", "unregister")
        BY <3>1 DEF SetChatRunState
      <3>2. CASE TaskEnds(r) \/ RegisterHandle(r) \/ Join(r) \/ Timeout(r) \/ RemoveHandle(r) \/ KeepPayload(r)
        BY <3>2 DEF TaskEnds, RegisterHandle, Join, Timeout, RemoveHandle, KeepPayload
      <3> QED BY <3>1, <3>2 DEF Supervise
    <2>2. \A k \in RunIds : runs'[k] = runs[k] \/ (k = RunId[r] /\ runs'[k] = outcome[r])
      BY <1>0, <2>1 DEF TypeOK
    <2> QED BY <1>0, <1>2, <2>2 DEF AbortedWasAsked, OutcomeIsFounded
  <1>8. KeptOkWasSaved'
    <2>1. dedupe' = dedupe \/ dedupe' = [dedupe EXCEPT ![RunId[r]] = outcome[r]]
      <3>1. CASE KeepPayload(r)
        BY <3>1 DEF KeepPayload
      <3>2. CASE TaskEnds(r) \/ RegisterHandle(r) \/ Join(r) \/ Timeout(r) \/ RemoveHandle(r)
        BY <3>2 DEF TaskEnds, RegisterHandle, Join, Timeout, RemoveHandle
      <3>3. CASE SetChatRunState(r, "ended1", "ended2") \/ SetChatRunState(r, "ended2", "unregister")
        BY <3>3 DEF SetChatRunState
      <3> QED BY <3>1, <3>2, <3>3 DEF Supervise
    <2>2. \A k \in RunIds : dedupe'[k] = dedupe[k] \/ (k = RunId[r] /\ dedupe'[k] = outcome[r])
      BY <1>0, <2>1 DEF TypeOK
    <2> QED BY <1>0, <1>2, <2>2 DEF KeptOkWasSaved, OutcomeIsFounded
  <1> QED BY <1>1, <1>3, <1>4, <1>5, <1>6, <1>7, <1>8 DEF AccountInv, RunsAreAccountedFor

\* An abort's step: what it collects it has told to abort, by the handle it took.
LEMMA AbortKeeps ==
    ASSUME AccountInv, NEW a \in Aborters, BeginAbort(a) \/ Abort(a) PROVE AccountInv'
  <1> USE RunIdAssumption, SubsetsAssumption
  <1>0. /\ TypeOK /\ HandleHasOwner /\ AbortedWasAsked /\ CachedOkWasSaved
        /\ OutcomeIsFounded /\ CollectedWasAsked /\ KeptOkWasSaved /\ UnansweredHasNoRun
    BY AccountParts
  <1>1. TypeOK'
    BY AbortTypes
  <1>2. /\ exec' = exec /\ task' = task /\ outcome' = outcome /\ saved' = saved /\ aborting \subseteq aborting'
        /\ \A k \in RunIds : handle'[k] \in {handle[k], None}
        /\ \A k \in RunIds : dedupe'[k] \in {dedupe[k], "stopped"}
        /\ \A q \in Requests : reply'[q] \in {reply[q], "stopped"} /\ pc'[q] \in {pc[q], "done"}
    <2>1. CASE BeginAbort(a)
      BY <1>0, <2>1 DEF BeginAbort, execVars, requestVars
    <2>2. ASSUME NEW k \in RunIds, AbortTask(a, k) \/ MarkAborted(a, k) PROVE <1>2!:
      BY <1>0, <2>2 DEF AbortTask, MarkAborted, execVars, requestVars, TypeOK
    <2>3. CASE EndAbort(a)
      BY <1>0, <2>3 DEF EndAbort, Answer, execVars, requestVars, TypeOK
    <2> QED BY <2>1, <2>2, <2>3 DEF Abort
  <1>3. HandleHasOwner'
    BY <1>0, <1>2 DEF HandleHasOwner
  <1>4. OutcomeIsFounded'
    BY <1>0, <1>2 DEF OutcomeIsFounded
  <1>5. KeptOkWasSaved' /\ CachedOkWasSaved' /\ UnansweredHasNoRun'
    BY <1>0, <1>2 DEF KeptOkWasSaved, CachedOkWasSaved, UnansweredHasNoRun
  <1>6. CollectedWasAsked'
    <2>1. CASE BeginAbort(a)
      <3>1. PICK S : abort' = [abort EXCEPT ![a] = [pc |-> "handles", todo |-> S, got |-> {}]]
        BY <2>1 DEF BeginAbort
      <3> QED BY <1>0, <1>2, <3>1 DEF CollectedWasAsked, TypeOK
    <2>2. ASSUME NEW k \in RunIds, AbortTask(a, k) PROVE CollectedWasAsked'
      <3>1. CASE handle[k] # None
        <4>1. handle[k] \in aborting' /\ RunId[handle[k]] = k
          BY <1>0, <2>2, <3>1 DEF AbortTask, HandleHasOwner
        <4>2. abort' = [abort EXCEPT ![a] = [pc |-> "handles", todo |-> @.todo \ {k}, got |-> @.got \cup {k}]]
          BY <2>2, <3>1 DEF AbortTask
        <4> QED BY <1>0, <1>2, <4>1, <4>2 DEF CollectedWasAsked, TypeOK
      <3>2. CASE handle[k] = None
        BY <1>0, <1>2, <2>2, <3>2 DEF AbortTask, CollectedWasAsked, TypeOK
      <3> QED BY <3>1, <3>2
    <2>3. ASSUME NEW k \in RunIds, MarkAborted(a, k) PROVE CollectedWasAsked'
      BY <1>0, <1>2, <2>3 DEF MarkAborted, CollectedWasAsked, TypeOK
    <2>4. CASE EndAbort(a)
      BY <1>0, <1>2, <2>4 DEF EndAbort, CollectedWasAsked, TypeOK
    <2> QED BY <2>1, <2>2, <2>3, <2>4 DEF Abort
  <1>7. AbortedWasAsked'
    <2>1. ASSUME NEW k \in RunIds, MarkAborted(a, k) PROVE AbortedWasAsked'
      BY <1>0, <1>2, <2>1 DEF MarkAborted, AbortedWasAsked, CollectedWasAsked, TypeOK
    <2>2. CASE runs' = runs
      BY <1>0, <1>2, <2>2 DEF AbortedWasAsked
    <2> QED BY <2>1, <2>2 DEF Abort, BeginAbort, AbortTask, EndAbort
  <1> QED BY <1>1, <1>3, <1>4, <1>5, <1>6, <1>7 DEF AccountInv, RunsAreAccountedFor

\* Every step keeps the accounts.
LEMMA AccountStep == ASSUME AccountInv, [Next]_vars PROVE AccountInv'
  <1>1. CASE UNCHANGED vars
    BY <1>1
       DEF vars, AccountInv, RunsAreAccountedFor, TypeOK, HandleHasOwner, AbortedWasAsked, CachedOkWasSaved,
           OutcomeIsFounded, CollectedWasAsked, KeptOkWasSaved, UnansweredHasNoRun
  <1> QED BY <1>1, NextCases, RequestKeeps, RunKeeps, AbortKeeps

\* In every reachable state of any number of calls, retries, stops and aborts: a handle
\* has an unfinished run of its id, a record that says aborted had a task told to abort,
\* and a caller that was told ok finds a saved reply (rpc_chat_send, rpc_chat_abort).
THEOREM TablesAgree == Spec => []RunsAreAccountedFor
  <1>1. AccountInv => RunsAreAccountedFor
    BY DEF AccountInv
  <1> QED BY <1>1, AccountInit, AccountStep, PTL DEF Spec

-----------------------------------------------------------------------------
(* No twin start.  Between the look at the record and the new record stands  *)
(* only the gate: everybody of a key who is past it holds it, and a keyless  *)
(* id has one request.                                                       *)

PastGate(r) == pc[r] \in {"gated", "checked", "fresh", "stopping"}
GateIsHeld == \A r \in Requests : Keyed(r) /\ PastGate(r) => gate[RunId[r]] = r
FreshIsNotRunning == \A r \in Requests : pc[r] = "fresh" => runs[RunId[r]] # "running"

\* The inductive invariant behind NoTwinStart.
StartInv == AccountInv /\ GateIsHeld /\ FreshIsNotRunning

\* Two calls with one run id are never both past the gate.
LEMMA GateExcludes ==
    ASSUME GateIsHeld, NEW q \in Requests, NEW r \in Requests,
           PastGate(q), PastGate(r), RunId[q] = RunId[r]
    PROVE  q = r
  BY FreshAssumption DEF GateIsHeld, Keyed

\* Giving an answer frees nobody else's gate.
LEMMA AnswerKeepsGates ==
    ASSUME TypeOK, GateIsHeld, NEW r \in Requests, NEW p, Answer(r, p) PROVE GateIsHeld'
  <1> USE RunIdAssumption
  <1>1. \A q \in Requests : PastGate(q)' => q # r /\ PastGate(q)
    BY DEF PastGate, Answer, TypeOK
  <1>2. \A k \in RunIds : gate'[k] = IF gate[k] = r /\ k = RunId[r] THEN None ELSE gate[k]
    BY DEF Answer, TypeOK
  <1> QED BY <1>1, <1>2 DEF GateIsHeld

\* Every step keeps who is past the gate apart from the others, and a fresh call's
\* record unstarted.
LEMMA StartStep == ASSUME StartInv, [Next]_vars PROVE StartInv'
  <1> USE RunIdAssumption, SubsetsAssumption
  <1>0. TypeOK /\ GateIsHeld /\ FreshIsNotRunning /\ OutcomeIsFounded /\ AccountInv'
    BY AccountStep, AccountParts DEF StartInv
  <1>1. ASSUME NEW r \in Requests, TakeGate(r) PROVE GateIsHeld' /\ FreshIsNotRunning'
    <2>1. \A q \in Requests : pc'[q] = IF q = r THEN "gated" ELSE pc[q]
      BY <1>0, <1>1 DEF TakeGate, TypeOK
    <2>2. \A k \in RunIds : gate'[k] = IF Keyed(r) /\ k = RunId[r] THEN r ELSE gate[k]
      BY <1>0, <1>1 DEF TakeGate, TypeOK
    <2>3. runs' = runs /\ (Keyed(r) => gate[RunId[r]] = None)
      BY <1>1 DEF TakeGate
    <2>4. GateIsHeld'
      BY <1>0, <2>1, <2>2, <2>3, NoneAssumption DEF GateIsHeld, PastGate, Keyed
    <2> QED BY <1>0, <2>1, <2>3, <2>4 DEF FreshIsNotRunning
  <1>2. ASSUME NEW r \in Requests, NEW p, Answer(r, p), runs' = runs
        PROVE  GateIsHeld' /\ FreshIsNotRunning'
    <2>1. GateIsHeld'
      BY <1>0, <1>2, AnswerKeepsGates
    <2> QED BY <1>0, <1>2, <2>1 DEF FreshIsNotRunning, Answer, TypeOK
  <1>3. ASSUME NEW r \in Requests, CheckDedupe(r) PROVE GateIsHeld' /\ FreshIsNotRunning'
    <2>1. CASE Keyed(r) /\ dedupe[RunId[r]] # "none"
      BY <1>2, <1>3, <2>1 DEF CheckDedupe
    <2>2. CASE ~(Keyed(r) /\ dedupe[RunId[r]] # "none")
      BY <1>0, <1>3, <2>2 DEF CheckDedupe, GateIsHeld, PastGate, FreshIsNotRunning, TypeOK
    <2> QED BY <2>1, <2>2
  <1>4. ASSUME NEW r \in Requests, CheckRuns(r) PROVE GateIsHeld' /\ FreshIsNotRunning'
    <2>1. CASE runs[RunId[r]] = "running"
      BY <1>2, <1>4, <2>1 DEF CheckRuns
    <2>2. CASE runs[RunId[r]] # "running"
      BY <1>0, <1>4, <2>2 DEF CheckRuns, GateIsHeld, PastGate, FreshIsNotRunning, TypeOK
    <2> QED BY <2>1, <2>2
  <1>5. ASSUME NEW r \in Requests, Reject(r) \/ SkillCommand(r) PROVE GateIsHeld' /\ FreshIsNotRunning'
    BY <1>2, <1>5 DEF Reject, SkillCommand
  <1>6. ASSUME NEW r \in Requests, StartRun(r) PROVE GateIsHeld' /\ FreshIsNotRunning'
    <2>1. GateIsHeld' /\ PastGate(r)
      BY <1>0, <1>6, AnswerKeepsGates DEF StartRun, PastGate
    <2>2. \A q \in Requests : pc'[q] = "fresh" => q # r /\ pc[q] = "fresh"
      BY <1>0, <1>6 DEF StartRun, Answer, TypeOK
    <2>3. \A q \in Requests : pc'[q] = "fresh" => RunId[q] # RunId[r]
      BY <1>0, <2>1, <2>2, GateExcludes DEF PastGate
    <2> QED BY <1>0, <1>6, <2>1, <2>2, <2>3 DEF FreshIsNotRunning, StartRun, TypeOK
  <1>7. ASSUME pc' = pc, gate' = gate,
               \A k \in RunIds : runs'[k] = runs[k] \/ runs'[k] \in Ended
        PROVE  GateIsHeld' /\ FreshIsNotRunning'
    BY <1>0, <1>7 DEF GateIsHeld, PastGate, FreshIsNotRunning, Ended
  <1>8. ASSUME NEW r \in Requests, Supervise(r) \/ TaskEnds(r) PROVE GateIsHeld' /\ FreshIsNotRunning'
    <2>1. CASE SetChatRunState(r, "ended1", "ended2") \/ SetChatRunState(r, "ended2", "unregister")
      BY <1>0, <1>7, <2>1 DEF SetChatRunState, requestVars, OutcomeIsFounded, TypeOK
    <2>2. CASE TaskEnds(r) \/ RegisterHandle(r) \/ Join(r) \/ Timeout(r) \/ RemoveHandle(r) \/ KeepPayload(r)
      BY <1>7, <2>2 DEF TaskEnds, RegisterHandle, Join, Timeout, RemoveHandle, KeepPayload, requestVars
    <2> QED BY <1>8, <2>1, <2>2 DEF Supervise
  <1>9. ASSUME NEW a \in Aborters, BeginAbort(a) \/ Abort(a) PROVE GateIsHeld' /\ FreshIsNotRunning'
    <2>1. CASE EndAbort(a)
      BY <1>2, <1>7, <2>1 DEF EndAbort, requestVars
    <2>2. CASE BeginAbort(a)
      BY <1>7, <2>2 DEF BeginAbort, requestVars
    <2>3. ASSUME NEW k \in RunIds, AbortTask(a, k) \/ MarkAborted(a, k)
          PROVE  GateIsHeld' /\ FreshIsNotRunning'
      BY <1>0, <1>7, <2>3 DEF AbortTask, MarkAborted, requestVars, TypeOK, Ended
    <2> QED BY <1>9, <2>1, <2>2, <2>3 DEF Abort
  <1>10. CASE UNCHANGED vars
    <2>1. pc' = pc /\ gate' = gate /\ runs' = runs
      BY <1>10 DEF vars
    <2> QED BY <1>0, <1>7, <2>1 DEF StartInv
  <1> QED BY <1>0, <1>1, <1>3, <1>4, <1>5, <1>6, <1>8, <1>9, <1>10, NextCases DEF Request, StartInv

\* Initially nobody is past a gate.
LEMMA StartInit == Init => StartInv
  BY AccountInit DEF Init, StartInv, GateIsHeld, PastGate, FreshIsNotRunning

\* Whatever retries, stops and aborts run at the same time, a run is started only when
\* the record of its id does not say running (http.rs, rpc_chat_send).
THEOREM NoTwinRuns == Spec => NoTwinStart
  <1>1. ASSUME StartInv, [Next]_vars
        PROVE  [\A r \in Requests :
                   exec[r] = "none" /\ exec'[r] = "starting" => runs[RunId[r]] # "running"]_vars
    <2> SUFFICES ASSUME NEW r \in Requests, exec[r] = "none", exec'[r] = "starting"
                 PROVE  runs[RunId[r]] # "running"
      OBVIOUS
    <2>0. TypeOK /\ FreshIsNotRunning
      BY <1>1, AccountParts DEF StartInv
    <2>1. StartRun(r)
      <3>1. ASSUME NEW q \in Requests, Request(q), ~StartRun(q) PROVE exec' = exec
        BY <3>1 DEF Request, TakeGate, CheckDedupe, Reject, CheckRuns, SkillCommand, execVars
      <3>2. ASSUME NEW q \in Requests, StartRun(q), q # r PROVE exec'[r] = exec[r]
        BY <2>0, <3>2 DEF StartRun, TypeOK
      <3>3. ASSUME NEW q \in Requests, Supervise(q) \/ TaskEnds(q) PROVE exec'[r] = exec[r]
        <4>1. CASE SetChatRunState(q, "ended1", "ended2") \/ SetChatRunState(q, "ended2", "unregister")
          BY <2>0, <4>1 DEF SetChatRunState, TypeOK
        <4>2. CASE TaskEnds(q) \/ RegisterHandle(q) \/ RemoveHandle(q) \/ KeepPayload(q)
          BY <2>0, <4>2 DEF TaskEnds, RegisterHandle, RemoveHandle, KeepPayload, TypeOK
        <4>3. CASE Join(q) \/ Timeout(q)
          BY <2>0, <4>3 DEF Join, Timeout, TypeOK
        <4> QED BY <3>3, <4>1, <4>2, <4>3 DEF Supervise
      <3>4. ASSUME NEW a \in Aborters, BeginAbort(a) \/ Abort(a) PROVE exec' = exec
        BY <3>4 DEF BeginAbort, Abort, AbortTask, MarkAborted, EndAbort, execVars
      <3> QED BY <1>1, <3>1, <3>2, <3>3, <3>4, NextCases DEF vars
    <2> QED BY <2>0, <2>1 DEF StartRun, FreshIsNotRunning
  <1> QED BY <1>1, StartInit, StartStep, PTL DEF Spec, NoTwinStart
-----------------------------------------------------------------------------
(* The instance that TLC checks: two tries of one keyed chat.send and a stop *)
(* command without a key.                                                    *)

MCRunId == [r \in Requests |-> IF r \in Stops THEN "s" ELSE IF r \in Keyless THEN "u" ELSE "k"]
=============================================================================
