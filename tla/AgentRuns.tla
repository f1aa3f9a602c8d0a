----------------------------- MODULE AgentRuns ------------------------------
(* The agent call, the run it starts in the background, and agent.wait       *)
(* (crates/gateway-core/src/http.rs).  Unlike chat.send the call remembers   *)
(* the idempotency key (agent_idempotency) before the run starts, and the    *)
(* record (agent_runs) is the only place an outcome is kept.  Every map has  *)
(* its own lock, so each visit to one is an action.                          *)
EXTENDS Naturals, FiniteSets, TLAPS

CONSTANTS
    Requests,       \* the agent calls, keyed
    RunIds,         \* idempotency keys, which are the run ids
    RunId,          \* the run id of each call
    Undeliverable,  \* the calls whose reply channel or target is refused
    Waiters,        \* the agent.wait calls
    WaitsFor,       \* the run id each one waits for
    None            \* no call

ASSUME RunIdAssumption == RunId \in [Requests -> RunIds]
ASSUME UndeliverableAssumption == Undeliverable \subseteq Requests
ASSUME WaitersAssumption == WaitsFor \in [Waiters -> RunIds]
ASSUME NoneAssumption == None \notin Requests

VARIABLES
    pc,         \* where each call is
    reply,      \* what it was answered
    gate,       \* who holds the gate of each key
    known,      \* agent_idempotency: the keys that have a run
    runs,       \* agent_runs: the status of each record, or "absent"
    exec,       \* the background task of each call's run
    waiter      \* what each agent.wait was answered, or "polling"

vars == <<pc, reply, gate, known, runs, exec, waiter>>

Ended == {"ok", "error"}

Init ==
    /\ pc = [r \in Requests |-> "new"] /\ reply = [r \in Requests |-> "none"]
    /\ gate = [k \in RunIds |-> None]
    /\ known = {}
    /\ runs = [k \in RunIds |-> "absent"]
    /\ exec = [r \in Requests |-> "none"]
    /\ waiter = [w \in Waiters |-> "polling"]

-----------------------------------------------------------------------------
(* rpc_agent.                                                               *)

\* The call waits for the one permit of its key's gate.
TakeGate(r) ==
    /\ pc[r] = "new" /\ gate[RunId[r]] = None
    /\ gate' = [gate EXCEPT ![RunId[r]] = r]
    /\ pc' = [pc EXCEPT ![r] = "gated"]
    /\ UNCHANGED <<reply, known, runs, exec, waiter>>

\* The call returns and the permit is dropped.
Answer(r, payload) ==
    /\ reply' = [reply EXCEPT ![r] = payload]
    /\ pc' = [pc EXCEPT ![r] = "done"]
    /\ gate' = [gate EXCEPT ![RunId[r]] = None]

LookUpKey(r) ==
    /\ pc[r] = "gated"
    /\ pc' = [pc EXCEPT ![r] = IF RunId[r] \in known THEN "known" ELSE "unknown"]
    /\ UNCHANGED <<reply, gate, known, runs, exec, waiter>>

\* Mutant: a missing record is reported as a failed run.
ReportKnownAsFailed(r) ==
    /\ pc[r] = "known"
    /\ Answer(r, IF runs[RunId[r]] = "ok" THEN "ok" ELSE "error")
    /\ UNCHANGED <<known, runs, exec, waiter>>

\* Mutant: a retry that finds the run unfinished runs it again.
ReportKnownRunsAgain(r) ==
    /\ pc[r] = "known"
    /\ IF runs[RunId[r]] \in Ended
       THEN Answer(r, runs[RunId[r]]) /\ UNCHANGED exec
       ELSE Answer(r, "accepted") /\ exec' = [exec EXCEPT ![r] = "running"]
    /\ UNCHANGED <<known, runs, waiter>>

\* A key with a run: its outcome, or accepted while it is running.
ReportKnown(r) ==
    /\ pc[r] = "known"
    /\ Answer(r, IF runs[RunId[r]] \in Ended THEN runs[RunId[r]] ELSE "accepted")
    /\ UNCHANGED <<known, runs, exec, waiter>>

\* Bad parameters, a session that may not send, a store error, no provider.
Reject(r) ==
    /\ pc[r] = "unknown"
    /\ Answer(r, "rejected")
    /\ UNCHANGED <<known, runs, exec, waiter>>

RememberKey(r) ==
    /\ pc[r] = "unknown"
    /\ known' = known \cup {RunId[r]}
    /\ pc' = [pc EXCEPT ![r] = "remembered"]
    /\ UNCHANGED <<reply, gate, runs, exec, waiter>>

\* Mutant: the record says error until the run has proved better.
InsertRunAsFailed(r) ==
    /\ pc[r] = "remembered"
    /\ runs' = [runs EXCEPT ![RunId[r]] = "error"]
    /\ pc' = [pc EXCEPT ![r] = "inserted"]
    /\ UNCHANGED <<reply, gate, known, exec, waiter>>

\* The record of the run, before the reply target is looked at.
InsertRun(r) ==
    /\ pc[r] = "remembered"
    /\ runs' = [runs EXCEPT ![RunId[r]] = "running"]
    /\ pc' = [pc EXCEPT ![r] = "inserted"]
    /\ UNCHANGED <<reply, gate, known, exec, waiter>>

\* The reply target is accepted and the run is spawned, or the call returns an
\* error and leaves the key and the record as they are.
SpawnRun(r) ==
    /\ pc[r] = "inserted"
    /\ IF r \in Undeliverable
       THEN Answer(r, "rejected") /\ UNCHANGED exec
       ELSE Answer(r, "accepted") /\ exec' = [exec EXCEPT ![r] = "running"]
    /\ UNCHANGED <<known, runs, waiter>>

-----------------------------------------------------------------------------
\* Mutant: a failed run leaves its record alone.
RunEndsIfOk(r) ==
    /\ exec[r] = "running"
    /\ exec' = [exec EXCEPT ![r] = "ended"]
    /\ \/ runs' = [runs EXCEPT ![RunId[r]] = "ok"]
       \/ UNCHANGED runs
    /\ UNCHANGED <<pc, reply, gate, known, waiter>>

\* The run ends: it answered and the answer was delivered, or it failed, timed out or
\* could not be delivered.
RunEnds(r) ==
    /\ exec[r] = "running"
    /\ exec' = [exec EXCEPT ![r] = "ended"]
    /\ \E s \in Ended : runs' = [runs EXCEPT ![RunId[r]] = s]
    /\ UNCHANGED <<pc, reply, gate, known, waiter>>

\* Mutant: the status is handed on as it is.
WaitReturnsAnyStatus(w) ==
    /\ waiter[w] = "polling"
    /\ waiter' = [waiter EXCEPT ![w] = runs[WaitsFor[w]]]
    /\ UNCHANGED <<pc, reply, gate, known, runs, exec>>

\* A poll of rpc_agent_wait that returns: an outcome, or no such run.
WaitReturns(w) ==
    /\ waiter[w] = "polling" /\ runs[WaitsFor[w]] # "running"
    /\ waiter' = [waiter EXCEPT ![w] = IF runs[WaitsFor[w]] = "absent" THEN "notFound" ELSE runs[WaitsFor[w]]]
    /\ UNCHANGED <<pc, reply, gate, known, runs, exec>>

\* Mutant: the run is written off when the caller stops waiting for it.
WaitTimesOutFailsRun(w) ==
    /\ waiter[w] = "polling" /\ runs[WaitsFor[w]] = "running"
    /\ waiter' = [waiter EXCEPT ![w] = "timeout"]
    /\ runs' = [runs EXCEPT ![WaitsFor[w]] = "error"]
    /\ UNCHANGED <<pc, reply, gate, known, exec>>

WaitTimesOut(w) ==
    /\ waiter[w] = "polling" /\ runs[WaitsFor[w]] = "running"
    /\ waiter' = [waiter EXCEPT ![w] = "timeout"]
    /\ UNCHANGED <<pc, reply, gate, known, runs, exec>>

-----------------------------------------------------------------------------
Request(r) ==
    \/ TakeGate(r) \/ LookUpKey(r) \/ ReportKnown(r) \/ Reject(r)
    \/ RememberKey(r) \/ InsertRun(r) \/ SpawnRun(r)

Quiescent ==
    /\ \A r \in Requests : pc[r] = "done" /\ exec[r] # "running"
    /\ \A w \in Waiters : waiter[w] # "polling"
    /\ UNCHANGED vars

Next ==
    \/ \E r \in Requests : Request(r) \/ RunEnds(r)
    \/ \E w \in Waiters : WaitReturns(w) \/ WaitTimesOut(w)
    \/ Quiescent

Spec == Init /\ [][Next]_vars

\* Calls and tasks are scheduled, a run is bounded by its timeout, and the gate (a
\* fair semaphore) goes to everybody who waits for it.
Fairness ==
    \A r \in Requests : SF_vars(TakeGate(r)) /\ WF_vars(Request(r)) /\ WF_vars(RunEnds(r))

FairSpec == Spec /\ Fairness

-----------------------------------------------------------------------------
TypeOK ==
    /\ pc \in [Requests -> {"new", "gated", "known", "unknown", "remembered", "inserted", "done"}]
    /\ reply \in [Requests -> {"none", "rejected", "accepted"} \cup Ended]
    /\ gate \in [RunIds -> Requests \cup {None}]
    /\ known \subseteq RunIds
    /\ runs \in [RunIds -> {"absent", "running"} \cup Ended]
    /\ exec \in [Requests -> {"none", "running", "ended"}]
    /\ waiter \in [Waiters -> {"polling", "notFound", "timeout"} \cup Ended]

\* However many calls carry the same key, and however they interleave, at most one of
\* them starts a run.
OneRunPerKey ==
    \A r, q \in Requests : exec[r] # "none" /\ exec[q] # "none" /\ RunId[r] = RunId[q] => r = q

\* Whoever is told the outcome of a run, by a retry or by agent.wait, is told the same.
OutcomesAgree ==
    /\ \A r \in Requests : reply[r] \in Ended => reply[r] = runs[RunId[r]]
    /\ \A w \in Waiters : waiter[w] \in Ended => waiter[w] = runs[WaitsFor[w]]

\* An outcome is final: no late task and no retry changes a record that has ended.
EndedIsFinal == [][\A k \in RunIds : runs[k] \in Ended => runs'[k] = runs[k]]_vars

\* A run that was spawned has an outcome in the end, and every call is answered.
RunsEnd ==
    /\ \A r \in Requests : <>(pc[r] = "done")
    /\ \A r \in Requests : exec[r] # "none" ~> runs[RunId[r]] \in Ended

-----------------------------------------------------------------------------
(* The calls and their runs do what an idempotency key promises.             *)

\* The work of a key is the run some call has spawned for it, whatever the record says
\* before: a record whose call was refused has no run.
Work ==
    [k \in RunIds |-> IF \E r \in Requests : RunId[r] = k /\ exec[r] = "running" THEN "running"
                     ELSE IF \E r \in Requests : RunId[r] = k /\ exec[r] = "ended" THEN runs[k]
                     ELSE "idle"]

\* Retries and waiters are told outcomes; accepted, rejected, not found and timeout are not.
Told ==
    [c \in Requests \cup Waiters |->
        LET told == IF c \in Requests THEN reply[c] ELSE waiter[c]
        IN IF told \in Ended THEN told ELSE "nothing"]

Once == INSTANCE OnceByKey WITH
    Keys <- RunIds, Callers <- Requests \cup Waiters,
    KeyOf <- [c \in Requests \cup Waiters |-> IF c \in Requests THEN RunId[c] ELSE WaitsFor[c]],
    Outcomes <- Ended, Retries <- FALSE, work <- Work, told <- Told

\* The agent call and agent.wait implement the promise: one run per key, one final
\* outcome, told to everybody alike, and no run without an end.
ImplementsOnceByKey == Once!LiveSpec

-----------------------------------------------------------------------------
(* The instance that TLC checks: three calls with one key, one of them with  *)
(* a target that is refused, a call with another key, and a waiter for the   *)
(* first key.                                                                *)

MCRunId == [r \in Requests |-> IF r = "r4" THEN "other" ELSE "key"]
MCWaitsFor == [w \in Waiters |-> "key"]

-----------------------------------------------------------------------------
(* Proofs about AgentRuns, for any number of calls, keys and waiters.        *)

InGate(r) == pc[r] \notin {"new", "done"}

\* Whoever is between the gate and the answer holds the gate of its key.
GateIsHeld == \A r \in Requests : InGate(r) => gate[RunId[r]] = r

\* What a call in the gate has found out, or done, about its key still holds.
GatedIsCurrent ==
    \A r \in Requests :
        /\ pc[r] = "unknown" => RunId[r] \notin known
        /\ pc[r] = "remembered" => RunId[r] \in known /\ runs[RunId[r]] = "absent"
        /\ pc[r] = "inserted" => RunId[r] \in known /\ runs[RunId[r]] = "running"
        /\ pc[r] \in {"remembered", "inserted"} =>
              \A q \in Requests : RunId[q] = RunId[r] => exec[q] = "none"

\* A key that is not remembered has no record and no run.
UnknownIsUnused ==
    /\ \A k \in RunIds : k \notin known => runs[k] = "absent"
    /\ \A r \in Requests : exec[r] # "none" => RunId[r] \in known

\* The record of a task that is at work is running.
RunningIsRecorded == \A r \in Requests : exec[r] = "running" => runs[RunId[r]] = "running"

\* The inductive invariant.
RunInv ==
    TypeOK /\ GateIsHeld /\ GatedIsCurrent /\ UnknownIsUnused /\ RunningIsRecorded /\ OneRunPerKey

\* Every step keeps the types.
LEMMA TypeStep == ASSUME TypeOK, [Next]_vars PROVE TypeOK'
  <1> USE RunIdAssumption, WaitersAssumption
  <1>1. ASSUME NEW r \in Requests, TakeGate(r) PROVE TypeOK'
    BY <1>1 DEF TakeGate, TypeOK
  <1>2. ASSUME NEW r \in Requests, LookUpKey(r) PROVE TypeOK'
    BY <1>2 DEF LookUpKey, TypeOK
  <1>3. ASSUME NEW r \in Requests, ReportKnown(r) PROVE TypeOK'
    BY <1>3 DEF ReportKnown, Answer, TypeOK, Ended
  <1>4. ASSUME NEW r \in Requests, Reject(r) PROVE TypeOK'
    BY <1>4 DEF Reject, Answer, TypeOK
  <1>5. ASSUME NEW r \in Requests, RememberKey(r) PROVE TypeOK'
    BY <1>5 DEF RememberKey, TypeOK
  <1>6. ASSUME NEW r \in Requests, InsertRun(r) PROVE TypeOK'
    BY <1>6 DEF InsertRun, TypeOK
  <1>7. ASSUME NEW r \in Requests, SpawnRun(r) PROVE TypeOK'
    BY <1>7 DEF SpawnRun, Answer, TypeOK
  <1>8. ASSUME NEW r \in Requests, RunEnds(r) PROVE TypeOK'
    BY <1>8 DEF RunEnds, TypeOK, Ended
  <1>9. ASSUME NEW w \in Waiters, WaitReturns(w) \/ WaitTimesOut(w) PROVE TypeOK'
    BY <1>9 DEF WaitReturns, WaitTimesOut, TypeOK, Ended
  <1>10. CASE Quiescent \/ UNCHANGED vars
    BY <1>10 DEF Quiescent, vars, TypeOK
  <1> QED BY <1>1, <1>2, <1>3, <1>4, <1>5, <1>6, <1>7, <1>8, <1>9, <1>10 DEF Next, Request

\* Two calls of one key are not both in the gate.
LEMMA GateExcludes ==
    ASSUME GateIsHeld, NEW r \in Requests, NEW q \in Requests,
           InGate(r), InGate(q), RunId[r] = RunId[q]
    PROVE  r = q
  BY DEF GateIsHeld

\* Every step keeps the invariant.
LEMMA RunStep == ASSUME RunInv, [Next]_vars PROVE RunInv'
  <1> USE RunIdAssumption, NoneAssumption
  <1>0. TypeOK /\ TypeOK'
    BY TypeStep DEF RunInv
  <1>1. ASSUME NEW r \in Requests, TakeGate(r) PROVE RunInv'
    <2>1. GateIsHeld'
      BY <1>0, <1>1 DEF RunInv, GateIsHeld, InGate, TakeGate, TypeOK
    <2>2. GatedIsCurrent'
      BY <1>0, <1>1 DEF RunInv, GatedIsCurrent, TakeGate, TypeOK
    <2> QED BY <1>0, <1>1, <2>1, <2>2
            DEF RunInv, UnknownIsUnused, RunningIsRecorded, OneRunPerKey, TakeGate
  <1>2. ASSUME NEW r \in Requests, LookUpKey(r) PROVE RunInv'
    <2>1. GateIsHeld'
      BY <1>0, <1>2 DEF RunInv, GateIsHeld, InGate, LookUpKey, TypeOK
    <2>2. GatedIsCurrent'
      BY <1>0, <1>2 DEF RunInv, GatedIsCurrent, LookUpKey, TypeOK
    <2> QED BY <1>0, <1>2, <2>1, <2>2
            DEF RunInv, UnknownIsUnused, RunningIsRecorded, OneRunPerKey, LookUpKey
  <1>3. ASSUME NEW r \in Requests, NEW payload, InGate(r), Answer(r, payload),
               known' = known, runs' = runs, exec' = exec
        PROVE  RunInv'
    <2>1. GateIsHeld'
      <3>1. ASSUME NEW q \in Requests, InGate(q)' PROVE gate'[RunId[q]] = q
        <4>1. q # r /\ InGate(q)
          BY <1>0, <1>3, <3>1 DEF InGate, Answer, TypeOK
        <4>2. RunId[q] # RunId[r]
          BY <1>3, <4>1, GateExcludes DEF RunInv
        <4> QED BY <1>0, <1>3, <4>1, <4>2 DEF RunInv, GateIsHeld, Answer, TypeOK
      <3> QED BY <3>1 DEF GateIsHeld
    <2>2. GatedIsCurrent'
      BY <1>0, <1>3 DEF RunInv, GatedIsCurrent, Answer, TypeOK
    <2> QED BY <1>0, <1>3, <2>1, <2>2
            DEF RunInv, UnknownIsUnused, RunningIsRecorded, OneRunPerKey
  <1>4. ASSUME NEW r \in Requests, ReportKnown(r) PROVE RunInv'
    BY <1>3, <1>4 DEF ReportKnown, InGate
  <1>5. ASSUME NEW r \in Requests, Reject(r) PROVE RunInv'
    BY <1>3, <1>5 DEF Reject, InGate
  <1>6. ASSUME NEW r \in Requests, RememberKey(r) PROVE RunInv'
    <2>1. GateIsHeld'
      BY <1>0, <1>6 DEF RunInv, GateIsHeld, InGate, RememberKey, TypeOK
    <2>2. \A q \in Requests : q # r /\ InGate(q) => RunId[q] # RunId[r]
      BY <1>6, GateExcludes DEF RunInv, RememberKey, InGate
    <2>3. RunId[r] \notin known /\ runs[RunId[r]] = "absent"
      BY <1>6 DEF RunInv, GatedIsCurrent, UnknownIsUnused, RememberKey
    <2>4. \A q \in Requests : RunId[q] = RunId[r] => exec[q] = "none"
      BY <2>3 DEF RunInv, UnknownIsUnused
    <2>5. GatedIsCurrent'
      BY <1>0, <1>6, <2>2, <2>3, <2>4 DEF RunInv, GatedIsCurrent, InGate, RememberKey, TypeOK
    <2> QED BY <1>0, <1>6, <2>1, <2>5
            DEF RunInv, UnknownIsUnused, RunningIsRecorded, OneRunPerKey, RememberKey
  <1>7. ASSUME NEW r \in Requests, InsertRun(r) PROVE RunInv'
    <2>1. GateIsHeld'
      BY <1>0, <1>7 DEF RunInv, GateIsHeld, InGate, InsertRun, TypeOK
    <2>2. \A q \in Requests : q # r /\ InGate(q) => RunId[q] # RunId[r]
      BY <1>7, GateExcludes DEF RunInv, InsertRun, InGate
    <2>3. RunId[r] \in known /\ \A q \in Requests : RunId[q] = RunId[r] => exec[q] = "none"
      BY <1>7 DEF RunInv, GatedIsCurrent, InsertRun
    <2>4. GatedIsCurrent'
      BY <1>0, <1>7, <2>2, <2>3 DEF RunInv, GatedIsCurrent, InGate, InsertRun, TypeOK
    <2>5. UnknownIsUnused' /\ RunningIsRecorded'
      BY <1>0, <1>7, <2>3 DEF RunInv, UnknownIsUnused, RunningIsRecorded, InsertRun, TypeOK
    <2> QED BY <1>0, <1>7, <2>1, <2>4, <2>5 DEF RunInv, OneRunPerKey, InsertRun
  <1>8. ASSUME NEW r \in Requests, SpawnRun(r), r \in Undeliverable PROVE RunInv'
    BY <1>3, <1>8 DEF SpawnRun, InGate
  <1>9. ASSUME NEW r \in Requests, SpawnRun(r), r \notin Undeliverable PROVE RunInv'
    <2>1. /\ InGate(r) /\ Answer(r, "accepted") /\ known' = known /\ runs' = runs
          /\ exec' = [exec EXCEPT ![r] = "running"]
      BY <1>9 DEF SpawnRun, InGate
    <2>2. \A q \in Requests : q # r /\ InGate(q) => RunId[q] # RunId[r]
      BY <2>1, GateExcludes DEF RunInv
    <2>3. /\ RunId[r] \in known /\ runs[RunId[r]] = "running"
          /\ \A q \in Requests : RunId[q] = RunId[r] => exec[q] = "none"
      BY <1>9 DEF RunInv, GatedIsCurrent, SpawnRun
    <2>4. \A q \in Requests : q # r => exec'[q] = exec[q] /\ pc'[q] = pc[q]
      BY <1>0, <2>1 DEF Answer, TypeOK
    <2>5. pc'[r] = "done"
      BY <1>0, <2>1 DEF Answer, TypeOK
    <2>6. GateIsHeld'
      BY <1>0, <2>1, <2>2, <2>4, <2>5 DEF RunInv, GateIsHeld, InGate, Answer, TypeOK
    <2>7. GatedIsCurrent'
      BY <2>1, <2>2, <2>4, <2>5 DEF RunInv, GatedIsCurrent, InGate
    <2>8. UnknownIsUnused' /\ RunningIsRecorded' /\ OneRunPerKey'
      BY <2>1, <2>3, <2>4 DEF RunInv, UnknownIsUnused, RunningIsRecorded, OneRunPerKey
    <2> QED BY <1>0, <2>6, <2>7, <2>8 DEF RunInv
  <1>10. ASSUME NEW r \in Requests, RunEnds(r) PROVE RunInv'
    <2>1. PICK s \in Ended : runs' = [runs EXCEPT ![RunId[r]] = s]
      BY <1>10 DEF RunEnds
    <2>2. /\ \A q \in Requests : exec'[q] = IF q = r THEN "ended" ELSE exec[q]
          /\ \A k \in RunIds : k # RunId[r] => runs'[k] = runs[k]
          /\ pc' = pc /\ gate' = gate /\ known' = known /\ exec[r] = "running"
      BY <1>0, <1>10, <2>1 DEF RunEnds, TypeOK
    <2>3. RunId[r] \in known /\ runs[RunId[r]] = "running"
      BY <2>2 DEF RunInv, UnknownIsUnused, RunningIsRecorded
    <2>4. \A q \in Requests : q # r /\ RunId[q] = RunId[r] =>
              exec[q] = "none" /\ pc[q] \notin {"remembered", "inserted"}
      BY <2>2 DEF RunInv, OneRunPerKey, GatedIsCurrent
    <2>5. pc[r] \notin {"remembered", "inserted"}
      BY <2>2 DEF RunInv, GatedIsCurrent
    <2>6. GateIsHeld'
      BY <2>2 DEF RunInv, GateIsHeld, InGate
    <2>7. GatedIsCurrent'
      BY <2>2, <2>4, <2>5 DEF RunInv, GatedIsCurrent
    <2>8. UnknownIsUnused' /\ RunningIsRecorded' /\ OneRunPerKey'
      BY <2>2, <2>3, <2>4 DEF RunInv, UnknownIsUnused, RunningIsRecorded, OneRunPerKey
    <2> QED BY <1>0, <2>6, <2>7, <2>8 DEF RunInv
  <1>11. ASSUME UNCHANGED <<pc, gate, known, runs, exec>> PROVE RunInv'
    BY <1>0, <1>11
       DEF RunInv, GateIsHeld, InGate, GatedIsCurrent, UnknownIsUnused, RunningIsRecorded, OneRunPerKey
  <1>12. ASSUME NEW w \in Waiters, WaitReturns(w) \/ WaitTimesOut(w) PROVE RunInv'
    BY <1>11, <1>12 DEF WaitReturns, WaitTimesOut
  <1>13. CASE Quiescent \/ UNCHANGED vars
    BY <1>11, <1>13 DEF Quiescent, vars
  <1> QED BY <1>1, <1>2, <1>4, <1>5, <1>6, <1>7, <1>8, <1>9, <1>10, <1>12, <1>13 DEF Next, Request

\* Initially no key is known and nothing runs.
LEMMA RunInit == Init => RunInv
  <1> SUFFICES ASSUME Init PROVE RunInv
    OBVIOUS
  <1>1. TypeOK
    BY DEF Init, TypeOK
  <1> QED BY <1>1, RunIdAssumption
          DEF Init, RunInv, GateIsHeld, InGate, GatedIsCurrent, UnknownIsUnused, RunningIsRecorded, OneRunPerKey

\* Calls that carry the same key start one run between them, however many there are.
THEOREM RunsAreUnique == Spec => []OneRunPerKey
  <1>1. RunInv => OneRunPerKey
    BY DEF RunInv
  <1> QED BY <1>1, RunInit, RunStep, PTL DEF Spec

-----------------------------------------------------------------------------
\* A step changes no record that has ended.
LEMMA EndedStep ==
    ASSUME RunInv, [Next]_vars PROVE \A k \in RunIds : runs[k] \in Ended => runs'[k] = runs[k]
  <1> USE RunIdAssumption
  <1>1. ASSUME NEW r \in Requests, InsertRun(r)
        PROVE  \A k \in RunIds : runs[k] \in Ended => runs'[k] = runs[k]
    <2>1. runs[RunId[r]] = "absent"
      BY <1>1 DEF RunInv, GatedIsCurrent, InsertRun
    <2> QED BY <1>1, <2>1 DEF RunInv, TypeOK, InsertRun, Ended
  <1>2. ASSUME NEW r \in Requests, RunEnds(r)
        PROVE  \A k \in RunIds : runs[k] \in Ended => runs'[k] = runs[k]
    <2>1. runs[RunId[r]] = "running"
      BY <1>2 DEF RunInv, RunningIsRecorded, RunEnds
    <2> QED BY <1>2, <2>1 DEF RunInv, TypeOK, RunEnds, Ended
  <1>3. (\A r \in Requests : ~InsertRun(r) /\ ~RunEnds(r)) => runs' = runs
    BY DEF Next, Request, TakeGate, LookUpKey, ReportKnown, Reject, RememberKey, SpawnRun,
           WaitReturns, WaitTimesOut, Quiescent, vars
  <1> QED BY <1>1, <1>2, <1>3

\* The outcome of a run never changes, whatever retries and waiters do.
THEOREM OutcomesAreFinal == Spec => EndedIsFinal
  <1>1. RunInv /\ [Next]_vars => [\A k \in RunIds : runs[k] \in Ended => runs'[k] = runs[k]]_vars
    BY EndedStep
  <1> QED BY <1>1, RunInit, RunStep, PTL DEF Spec, EndedIsFinal

\* A step keeps everybody's idea of an outcome.
LEMMA AgreeStep == ASSUME RunInv, OutcomesAgree, [Next]_vars PROVE OutcomesAgree'
  <1> USE RunIdAssumption, WaitersAssumption
  <1>0. TypeOK /\ \A k \in RunIds : runs[k] \in Ended => runs'[k] = runs[k]
    BY EndedStep DEF RunInv
  <1>1. ASSUME NEW r \in Requests, NEW payload, Answer(r, payload), waiter' = waiter,
               payload \in Ended => payload = runs[RunId[r]]
        PROVE  OutcomesAgree'
    BY <1>0, <1>1 DEF OutcomesAgree, Answer, TypeOK
  <1>2. ASSUME UNCHANGED <<reply, waiter>> PROVE OutcomesAgree'
    BY <1>0, <1>2 DEF OutcomesAgree
  <1>3. ASSUME NEW w \in Waiters, WaitReturns(w) \/ WaitTimesOut(w) PROVE OutcomesAgree'
    BY <1>0, <1>3 DEF OutcomesAgree, WaitReturns, WaitTimesOut, TypeOK, Ended
  <1>4. ASSUME NEW r \in Requests, ReportKnown(r) \/ Reject(r) \/ SpawnRun(r) PROVE OutcomesAgree'
    BY <1>1, <1>4 DEF ReportKnown, Reject, SpawnRun, Ended
  <1>5. ASSUME NEW r \in Requests,
               TakeGate(r) \/ LookUpKey(r) \/ RememberKey(r) \/ InsertRun(r) \/ RunEnds(r)
        PROVE  OutcomesAgree'
    BY <1>2, <1>5 DEF TakeGate, LookUpKey, RememberKey, InsertRun, RunEnds
  <1>6. CASE Quiescent \/ UNCHANGED vars
    BY <1>2, <1>6 DEF Quiescent, vars
  <1> QED BY <1>3, <1>4, <1>5, <1>6 DEF Next, Request

\* Retries and waiters that are told an outcome are told the one on record.
THEOREM OutcomesAreShared == Spec => []OutcomesAgree
  <1>1. Init => OutcomesAgree
    BY DEF Init, OutcomesAgree, Ended
  <1> QED BY <1>1, RunInit, RunStep, AgreeStep, PTL DEF Spec

-----------------------------------------------------------------------------
(* The step part of ImplementsOnceByKey: every step of the calls, the runs   *)
(* and the waiters is a step of OnceByKey or changes nothing it speaks of.   *)

\* A run that has ended left an outcome, every outcome on record was left by a run, and
\* a call that has not returned has told nobody anything.
OutcomesHaveRuns ==
    /\ \A r \in Requests : exec[r] = "ended" => runs[RunId[r]] \in Ended
    /\ \A k \in RunIds : runs[k] \in Ended => \E r \in Requests : RunId[r] = k /\ exec[r] = "ended"
    /\ \A r \in Requests : pc[r] # "done" => reply[r] = "none"

\* The inductive invariant of the refinement.
MapInv == RunInv /\ OutcomesHaveRuns

LEMMA MapStep == ASSUME MapInv, [Next]_vars PROVE OutcomesHaveRuns'
  <1> USE RunIdAssumption
  <1>0. TypeOK /\ \A k \in RunIds : runs[k] \in Ended => runs'[k] = runs[k]
    BY EndedStep DEF MapInv, RunInv
  <1>1. ASSUME NEW r \in Requests, NEW payload, Answer(r, payload), runs' = runs, exec' = exec
        PROVE  OutcomesHaveRuns'
    BY <1>0, <1>1 DEF MapInv, OutcomesHaveRuns, Answer, TypeOK
  <1>2. ASSUME NEW r \in Requests, TakeGate(r) \/ LookUpKey(r) \/ RememberKey(r) PROVE OutcomesHaveRuns'
    <2>1. runs' = runs /\ exec' = exec /\ reply' = reply /\ pc[r] # "done"
      BY <1>2 DEF TakeGate, LookUpKey, RememberKey
    <2>2. \A q \in Requests : q # r => pc'[q] = pc[q]
      BY <1>0, <1>2 DEF TakeGate, LookUpKey, RememberKey, TypeOK
    <2> QED BY <2>1, <2>2 DEF MapInv, OutcomesHaveRuns
  <1>3. ASSUME NEW r \in Requests, ReportKnown(r) \/ Reject(r) PROVE OutcomesHaveRuns'
    BY <1>1, <1>3 DEF ReportKnown, Reject
  <1>4. ASSUME NEW r \in Requests, InsertRun(r) PROVE OutcomesHaveRuns'
    <2>1. /\ exec' = exec /\ reply' = reply /\ pc[r] # "done"
          /\ \A q \in Requests : q # r => pc'[q] = pc[q]
          /\ runs'[RunId[r]] = "running" /\ \A k \in RunIds : k # RunId[r] => runs'[k] = runs[k]
      BY <1>0, <1>4 DEF InsertRun, TypeOK
    <2> QED BY <1>0, <2>1 DEF MapInv, OutcomesHaveRuns, Ended
  <1>5. ASSUME NEW r \in Requests, SpawnRun(r) PROVE OutcomesHaveRuns'
    <2>1. CASE r \in Undeliverable
      BY <1>1, <1>5, <2>1 DEF SpawnRun
    <2>2. CASE r \notin Undeliverable
      <3>1. runs' = runs /\ pc'[r] = "done" /\ exec[r] = "none" /\ exec'[r] = "running"
        BY <1>0, <1>5, <2>2 DEF SpawnRun, Answer, TypeOK, MapInv, RunInv, GatedIsCurrent
      <3>2. \A q \in Requests : q # r => pc'[q] = pc[q] /\ exec'[q] = exec[q] /\ reply'[q] = reply[q]
        BY <1>0, <1>5, <2>2 DEF SpawnRun, Answer, TypeOK
      <3> QED BY <3>1, <3>2 DEF MapInv, OutcomesHaveRuns
    <2> QED BY <2>1, <2>2
  <1>6. ASSUME NEW r \in Requests, RunEnds(r) PROVE OutcomesHaveRuns'
    <2>1. /\ exec'[r] = "ended" /\ runs'[RunId[r]] \in Ended
          /\ \A q \in Requests : q # r => exec'[q] = exec[q]
          /\ \A k \in RunIds : k # RunId[r] => runs'[k] = runs[k]
          /\ pc' = pc /\ reply' = reply /\ exec[r] = "running"
      BY <1>0, <1>6 DEF RunEnds, TypeOK
    <2> QED BY <1>0, <2>1 DEF MapInv, OutcomesHaveRuns
  <1>7. ASSUME UNCHANGED <<pc, reply, runs, exec>> PROVE OutcomesHaveRuns'
    BY <1>7 DEF MapInv, OutcomesHaveRuns
  <1> QED BY <1>2, <1>3, <1>4, <1>5, <1>6, <1>7
          DEF Next, Request, WaitReturns, WaitTimesOut, Quiescent, vars

\* A record with an outcome is what the work of its key has come to.
LEMMA OutcomeIsWork ==
    ASSUME MapInv, NEW k \in RunIds, runs[k] \in Ended PROVE Work[k] = runs[k]
  BY DEF MapInv, RunInv, RunningIsRecorded, OutcomesHaveRuns, Work, Ended

\* What a step does to the work, to what is told, and to both.
LEMMA MappedStep == ASSUME MapInv, [Next]_vars PROVE [Once!Next]_(Once!vars)
  <1> USE RunIdAssumption, WaitersAssumption
  <1> DEFINE KeyOf == [c \in Requests \cup Waiters |-> IF c \in Requests THEN RunId[c] ELSE WaitsFor[c]]
  <1>0. TypeOK
    BY DEF MapInv, RunInv
  <1>1. ASSUME UNCHANGED <<runs, exec>> PROVE Work' = Work
    BY <1>1 DEF Work
  <1>2. ASSUME UNCHANGED <<reply, waiter>> PROVE Told' = Told
    BY <1>2 DEF Told
  <1>3. ASSUME Work' = Work, Told' = Told PROVE [Once!Next]_(Once!vars)
    BY <1>3 DEF Once!vars
  <1>4. ASSUME NEW c \in Requests \cup Waiters, Work' = Work, Told[c] = "nothing",
               KeyOf[c] \in RunIds, runs[KeyOf[c]] \in Ended,
               Told' = [Told EXCEPT ![c] = runs[KeyOf[c]]]
        PROVE  [Once!Next]_(Once!vars)
    <2>1. Work[KeyOf[c]] = runs[KeyOf[c]]
      BY <1>4, OutcomeIsWork
    <2>2. Once!Tell(c)
      BY <1>4, <2>1 DEF Once!Tell
    <2> QED BY <2>2 DEF Once!Next
  <1>5. ASSUME NEW r \in Requests, NEW payload, Answer(r, payload), waiter' = waiter, pc[r] # "done"
        PROVE  Told' = IF payload \in Ended THEN [Told EXCEPT ![r] = payload] ELSE Told
    <2>1. reply[r] = "none" /\ Told[r] = "nothing"
      BY <1>5 DEF MapInv, OutcomesHaveRuns, Told, Ended
    <2> QED BY <1>0, <1>5, <2>1 DEF Answer, Told, TypeOK
  <1>6. ASSUME NEW r \in Requests, ReportKnown(r) PROVE [Once!Next]_(Once!vars)
    <2>1. Work' = Work /\ waiter' = waiter /\ pc[r] # "done"
      BY <1>1, <1>6 DEF ReportKnown
    <2>2. Told[r] = "nothing" /\ KeyOf[r] = RunId[r] /\ RunId[r] \in RunIds
      BY <2>1 DEF MapInv, OutcomesHaveRuns, Told, Ended
    <2>3. CASE runs[RunId[r]] \in Ended
      <3>1. Told' = [Told EXCEPT ![r] = runs[RunId[r]]]
        BY <1>5, <1>6, <2>1, <2>3 DEF ReportKnown
      <3> QED BY <1>4, <2>1, <2>2, <2>3, <3>1
    <2>4. CASE runs[RunId[r]] \notin Ended
      <3>1. Told' = Told
        BY <1>5, <1>6, <2>1, <2>4 DEF ReportKnown, Ended
      <3> QED BY <1>3, <2>1, <3>1
    <2> QED BY <2>3, <2>4
  <1>7. ASSUME NEW r \in Requests, Reject(r) PROVE [Once!Next]_(Once!vars)
    <2>1. Told' = Told
      BY <1>5, <1>7 DEF Reject, Ended
    <2> QED BY <1>1, <1>3, <1>7, <2>1 DEF Reject
  <1>8. ASSUME NEW r \in Requests, InsertRun(r) PROVE [Once!Next]_(Once!vars)
    <2>1. \A q \in Requests : RunId[q] = RunId[r] => exec[q] = "none"
      BY <1>8 DEF MapInv, RunInv, GatedIsCurrent, InsertRun
    <2>2. exec' = exec /\ \A k \in RunIds : k # RunId[r] => runs'[k] = runs[k]
      BY <1>0, <1>8 DEF InsertRun, TypeOK
    <2>3. Work' = Work
      BY <2>1, <2>2 DEF Work
    <2> QED BY <1>2, <1>3, <1>8, <2>3 DEF InsertRun
  <1>9. ASSUME NEW r \in Requests, SpawnRun(r) PROVE [Once!Next]_(Once!vars)
    <2>1. Told' = Told
      BY <1>5, <1>9 DEF SpawnRun, Ended
    <2>2. CASE r \in Undeliverable
      BY <1>1, <1>3, <1>9, <2>1, <2>2 DEF SpawnRun
    <2>3. CASE r \notin Undeliverable
      <3>1. runs' = runs /\ \A q \in Requests : RunId[q] = RunId[r] => exec[q] = "none"
        BY <1>9 DEF MapInv, RunInv, GatedIsCurrent, SpawnRun
      <3>2. exec'[r] = "running" /\ \A q \in Requests : q # r => exec'[q] = exec[q]
        BY <1>0, <1>9, <2>3 DEF SpawnRun, TypeOK
      <3>3. Work[RunId[r]] = "idle" /\ Work'[RunId[r]] = "running"
        BY <3>1, <3>2 DEF Work
      <3>4. \A k \in RunIds : k # RunId[r] => Work'[k] = Work[k]
        BY <3>1, <3>2 DEF Work
      <3>5. Work' = [Work EXCEPT ![RunId[r]] = "running"]
        BY <3>3, <3>4 DEF Work
      <3>6. Once!Begin(RunId[r])
        BY <2>1, <3>3, <3>5 DEF Once!Begin
      <3> QED BY <3>6 DEF Once!Next
    <2> QED BY <2>2, <2>3
  <1>10. ASSUME NEW r \in Requests, RunEnds(r) PROVE [Once!Next]_(Once!vars)
    <2>1. PICK s \in Ended : runs' = [runs EXCEPT ![RunId[r]] = s]
      BY <1>10 DEF RunEnds
    <2>2. /\ exec[r] = "running" /\ exec'[r] = "ended" /\ runs'[RunId[r]] = s
          /\ \A q \in Requests : q # r => exec'[q] = exec[q]
          /\ \A k \in RunIds : k # RunId[r] => runs'[k] = runs[k]
      BY <1>0, <1>10, <2>1 DEF RunEnds, TypeOK
    <2>3. \A q \in Requests : q # r /\ RunId[q] = RunId[r] => exec[q] = "none"
      BY <2>2 DEF MapInv, RunInv, OneRunPerKey
    <2>4. Work[RunId[r]] = "running" /\ Work'[RunId[r]] = s
      BY <2>2, <2>3 DEF Work
    <2>5. \A k \in RunIds : k # RunId[r] => Work'[k] = Work[k]
      BY <2>2 DEF Work
    <2>6. Work' = [Work EXCEPT ![RunId[r]] = s]
      BY <2>4, <2>5 DEF Work
    <2>7. Once!End(RunId[r], s)
      BY <1>2, <1>10, <2>4, <2>6 DEF Once!End, RunEnds
    <2> QED BY <2>7 DEF Once!Next
  <1>11. ASSUME NEW w \in Waiters, WaitReturns(w) PROVE [Once!Next]_(Once!vars)
    <2>1. Work' = Work
      BY <1>1, <1>11 DEF WaitReturns
    <2>2. CASE w \in Requests \/ runs[WaitsFor[w]] \notin Ended
      <3>1. Told' = Told
        BY <1>0, <1>11, <2>2 DEF WaitReturns, Told, TypeOK, Ended
      <3> QED BY <1>3, <2>1, <3>1
    <2>3. CASE w \notin Requests /\ runs[WaitsFor[w]] \in Ended
      <3>1. KeyOf[w] = WaitsFor[w] /\ WaitsFor[w] \in RunIds /\ Told[w] = "nothing"
        BY <1>11, <2>3 DEF WaitReturns, Told, Ended
      <3>2. waiter'[w] = runs[WaitsFor[w]] /\ reply' = reply
        BY <1>0, <1>11, <2>3 DEF WaitReturns, TypeOK, Ended
      <3>3. \A v \in Waiters : v # w => waiter'[v] = waiter[v]
        BY <1>0, <1>11 DEF WaitReturns, TypeOK
      <3>4. Told' = [Told EXCEPT ![w] = runs[WaitsFor[w]]]
        BY <2>3, <3>2, <3>3 DEF Told
      <3> QED BY <1>4, <2>1, <2>3, <3>1, <3>4
    <2> QED BY <2>2, <2>3
  <1>12. ASSUME NEW w \in Waiters, WaitTimesOut(w) PROVE [Once!Next]_(Once!vars)
    <2>1. Told' = Told
      BY <1>0, <1>12 DEF WaitTimesOut, Told, TypeOK, Ended
    <2> QED BY <1>1, <1>3, <1>12, <2>1 DEF WaitTimesOut
  <1>13. ASSUME UNCHANGED <<reply, runs, exec, waiter>> PROVE [Once!Next]_(Once!vars)
    BY <1>1, <1>2, <1>3, <1>13
  <1> QED BY <1>6, <1>7, <1>8, <1>9, <1>10, <1>11, <1>12, <1>13
          DEF Next, Request, TakeGate, LookUpKey, RememberKey, Quiescent, vars

\* The agent call, its run and agent.wait take only the steps that OnceByKey allows, for
\* any number of calls, keys and waiters: one run per key, one outcome, told alike.
THEOREM KeepsTheKeysPromise == Spec => Once!Spec
  <1>1. Init => MapInv
    <2>1. Init => OutcomesHaveRuns
      BY RunIdAssumption DEF Init, OutcomesHaveRuns, Ended
    <2> QED BY <2>1, RunInit DEF MapInv
  <1>2. MapInv /\ [Next]_vars => MapInv'
    BY MapStep, RunStep DEF MapInv
  <1>3. Init => Once!Init
    BY DEF Init, Once!Init, Work, Told, Ended
  <1>4. MapInv /\ [Next]_vars => [Once!Next]_(Once!vars)
    BY MappedStep
  <1> QED BY <1>1, <1>2, <1>3, <1>4, PTL DEF Spec, Once!Spec
=============================================================================
