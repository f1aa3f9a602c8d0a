---------------------------- MODULE SessionQueue ----------------------------
(* One channel session of the gateway: the MessageQueue of                  *)
(* crates/auto-reply/src/queue.rs driven by process_message of              *)
(* crates/gateway-core/src/pipeline.rs.                                     *)
(*                                                                          *)
(* Every inbound message runs its own task.  A task reads the queue         *)
(* settings, applies them to the session's queue, enqueues its message and, *)
(* unless the message was queued for somebody else, takes the session's run *)
(* lock and executes turns until it finds the queue empty.  The queue's     *)
(* mutex is released at every await, so each critical section is one        *)
(* action.  Sessions share no queue and no run lock: one is modelled.       *)
EXTENDS Naturals, Sequences, SequencesExt, FiniteSets, TLC, SequenceTheorems, FiniteSetTheorems, TLAPS

CONSTANTS
    Msgs,        \* the inbound messages; each names the task that carries it
    Settings,    \* the settings the configuration may hold while they arrive
    MayFail,     \* the messages whose turn may end in an error
    SummaryMax,  \* 256 in push_pending: the most summary lines ever kept
    UsizeMax,    \* usize::MAX: the cap that stands for "no cap"
    None         \* "no settings read yet"

Modes == {"Interrupt", "Steer", "Followup", "Collect", "SteerBacklog"}

Policies == {"Summarize", "Old", "New"}

\* The fields of QueueRuntimeSettings that decide what the queue does; the two
\* delays only decide when, and every delay is an arbitrary one here.
QueueRuntimeSettings == [mode : Modes, cap : 0..UsizeMax, policy : Policies]

ASSUME MsgsAssumption == IsFiniteSet(Msgs)
ASSUME SettingsAssumption == Settings \subseteq QueueRuntimeSettings /\ Settings # {}
ASSUME MayFailAssumption == MayFail \subseteq Msgs
ASSUME SummaryMaxAssumption == SummaryMax \in Nat \ {0}
ASSUME UsizeMaxAssumption == UsizeMax \in Nat \ {0}
ASSUME NoneAssumption == None \notin QueueRuntimeSettings

VARIABLES
    mode, cap, policy,   \* MessageQueue: its current settings
    pending,             \* MessageQueue: messages waiting for a turn
    hasActiveRun,        \* MessageQueue
    droppedCount,        \* MessageQueue: summarized drops not yet reported
    summary,             \* MessageQueue: summary_lines, as the messages they quote
    lockQueue,           \* the run lock: its FIFO waiters, the head holds it
    pc, settings, batch, \* each task: its place, queue_settings, current_batch
    prompt,              \* each task: drops its summary_prompt reports (0: None)
    accepted,            \* history: messages in the order enqueue saw them
    replies,             \* history: messages in the order they were answered
    outcome              \* history: what became of each message

queueVars == <<mode, cap, policy, pending, hasActiveRun, droppedCount, summary>>
taskVars == <<lockQueue, pc, settings, batch, prompt>>
historyVars == <<accepted, replies, outcome>>
vars == <<queueVars, taskVars, historyVars>>

Outcomes == {"none", "replied", "failed", "abandoned", "dropped", "rejected", "cleared"}

Pcs == {"idle", "resolved", "found", "configured", "admitted", "waiting", "ready",
        "turn", "settle", "window", "next", "done", "queued", "failed"}

\* A task that owes the session something: from RunNow or Interrupted to its return.
Active(m) == pc[m] \in {"admitted", "waiting", "ready", "turn", "settle", "window", "next"}

-----------------------------------------------------------------------------
(* The drop policy of a full queue: what push_pending leaves behind.        *)

\* Mutant: one message too few is evicted.
DropOneTooFew == Len(pending) - cap

\* How many of the oldest messages a push must evict.
DropCount == Len(pending) - cap + 1

Full == cap # UsizeMax /\ Len(pending) >= cap

\* The lines kept of a summary: the last cap.min(256).
KeepLast(lines, limit) ==
    IF Len(lines) <= limit THEN lines ELSE SubSeq(lines, Len(lines) - limit + 1, Len(lines))

\* Mutant: the limit is off by one.
SummaryLimitOffByOne == IF cap < SummaryMax THEN cap - 1 ELSE SummaryMax - 1

SummaryLimit == IF cap < SummaryMax THEN cap ELSE SummaryMax

\* Mutant: only the oldest message is evicted, however many must go.
EvictOne == SubSeq(pending, 1, 1)

Evicted == SubSeq(pending, 1, DropCount)

PushPending(m) ==
    \/ /\ ~Full
       /\ pending' = Append(pending, m)
       /\ UNCHANGED <<droppedCount, summary, outcome>>
    \/ /\ Full /\ policy = "New"
       /\ outcome' = [outcome EXCEPT ![m] = "rejected"]
       /\ UNCHANGED <<pending, droppedCount, summary>>
    \/ /\ Full /\ policy # "New"
       /\ pending' = Append(SubSeq(pending, DropCount + 1, Len(pending)), m)
       /\ outcome' = [x \in Msgs |-> IF x \in ToSet(Evicted) THEN "dropped" ELSE outcome[x]]
       /\ IF policy = "Summarize"
          THEN /\ droppedCount' = droppedCount + DropCount
               /\ summary' = KeepLast(summary \o Evicted, SummaryLimit)
          ELSE UNCHANGED <<droppedCount, summary>>

-----------------------------------------------------------------------------
(* process_message, up to the run lock.                                     *)

\* resolve_queue_runtime_settings: the configuration is read once, under its
\* own lock, and may have changed by the time the queue sees what was read.
ResolveSettings(m) ==
    /\ pc[m] = "idle"
    /\ \E s \in Settings : settings' = [settings EXCEPT ![m] = s]
    /\ pc' = [pc EXCEPT ![m] = "resolved"]
    /\ UNCHANGED <<queueVars, lockQueue, batch, prompt, historyVars>>

\* get_or_create_queue: finds the session's queue and sets its mode.
GetOrCreateQueue(m) ==
    /\ pc[m] = "resolved"
    /\ mode' = settings[m].mode
    /\ pc' = [pc EXCEPT ![m] = "found"]
    /\ UNCHANGED <<cap, policy, pending, hasActiveRun, droppedCount, summary,
                   lockQueue, settings, batch, prompt, historyVars>>

\* Mutant: set_cap takes the cap as it is.
ApplySettingsUnclamped(m) ==
    /\ pc[m] = "found"
    /\ mode' = settings[m].mode
    /\ cap' = settings[m].cap
    /\ policy' = settings[m].policy
    /\ pc' = [pc EXCEPT ![m] = "configured"]
    /\ UNCHANGED <<pending, hasActiveRun, droppedCount, summary,
                   lockQueue, settings, batch, prompt, historyVars>>

\* The block of set_* calls; set_cap raises a cap of zero to one.
ApplySettings(m) ==
    /\ pc[m] = "found"
    /\ mode' = settings[m].mode
    /\ cap' = IF settings[m].cap = 0 THEN 1 ELSE settings[m].cap
    /\ policy' = settings[m].policy
    /\ pc' = [pc EXCEPT ![m] = "configured"]
    /\ UNCHANGED <<pending, hasActiveRun, droppedCount, summary,
                   lockQueue, settings, batch, prompt, historyVars>>

\* RunNow and Interrupted: the task goes on with its own message.
Admit(m) ==
    /\ batch' = [batch EXCEPT ![m] = <<m>>]
    /\ pc' = [pc EXCEPT ![m] = "admitted"]

\* Mutant: enqueue runs the message without marking the run active.
RunNowUnmarked(m) ==
    /\ ~hasActiveRun
    /\ Admit(m)
    /\ UNCHANGED <<hasActiveRun, pending, droppedCount, summary, outcome>>

RunNow(m) ==
    /\ ~hasActiveRun
    /\ hasActiveRun' = TRUE
    /\ Admit(m)
    /\ UNCHANGED <<pending, droppedCount, summary, outcome>>

\* Interrupt clears the queue; nothing stops the run that is active.
Interrupted(m) ==
    /\ hasActiveRun /\ mode = "Interrupt"
    /\ pending' = <<>>
    /\ outcome' = [x \in Msgs |-> IF x \in ToSet(pending) THEN "cleared" ELSE outcome[x]]
    /\ Admit(m)
    /\ UNCHANGED <<hasActiveRun, droppedCount, summary>>

\* Every other mode queues the message, and its task returns "queued".
Queued(m) ==
    /\ hasActiveRun /\ mode # "Interrupt"
    /\ PushPending(m)
    /\ pc' = [pc EXCEPT ![m] = "queued"]
    /\ UNCHANGED <<hasActiveRun, batch>>

Enqueue(m) ==
    /\ pc[m] = "configured"
    /\ RunNow(m) \/ Interrupted(m) \/ Queued(m)
    /\ accepted' = Append(accepted, m)
    /\ UNCHANGED <<mode, cap, policy, lockQueue, settings, prompt, replies>>

\* run_lock.lock(): a task joins the waiters only after a second await.
RequestRunLock(m) ==
    /\ pc[m] = "admitted"
    /\ lockQueue' = Append(lockQueue, m)
    /\ pc' = [pc EXCEPT ![m] = "waiting"]
    /\ UNCHANGED <<queueVars, settings, batch, prompt, historyVars>>

-----------------------------------------------------------------------------
(* process_message, the loop of turns under the run lock.                   *)

HoldsRunLock(m) == lockQueue # <<>> /\ Head(lockQueue) = m

\* Mutant: the drops are reported but not reset.
TakeSummaryPromptNoReset(m) ==
    /\ pc[m] = "waiting" /\ HoldsRunLock(m)
    /\ prompt' = [prompt EXCEPT ![m] = IF policy # "Summarize" THEN 0 ELSE droppedCount]
    /\ pc' = [pc EXCEPT ![m] = "ready"]
    /\ UNCHANGED <<queueVars, lockQueue, settings, batch, historyVars>>

\* take_summary_prompt, at the top of every round.
TakeSummaryPrompt(m) ==
    /\ pc[m] = "waiting" /\ HoldsRunLock(m)
    /\ IF policy # "Summarize" \/ droppedCount = 0
       THEN /\ prompt' = [prompt EXCEPT ![m] = 0]
            /\ UNCHANGED <<droppedCount, summary>>
       ELSE /\ prompt' = [prompt EXCEPT ![m] = droppedCount]
            /\ droppedCount' = 0
            /\ summary' = <<>>
    /\ pc' = [pc EXCEPT ![m] = "ready"]
    /\ UNCHANGED <<mode, cap, policy, pending, hasActiveRun,
                   lockQueue, settings, batch, historyVars>>

\* What one call of process_single_message answers: the whole batch, merged by
\* build_collect_context, or the batch's first message.
Unit(m) ==
    IF settings[m].mode = "Collect" /\ (Len(batch[m]) > 1 \/ prompt[m] > 0)
    THEN batch[m]
    ELSE SubSeq(batch[m], 1, 1)

StartTurn(m) ==
    /\ pc[m] = "ready"
    /\ pc' = [pc EXCEPT ![m] = "turn"]
    /\ UNCHANGED <<queueVars, lockQueue, settings, batch, prompt, historyVars>>

\* The agent answered and send_reply delivered the answer.
TurnReplies(m) ==
    /\ pc[m] = "turn"
    /\ replies' = replies \o Unit(m)
    /\ outcome' = [x \in Msgs |-> IF x \in ToSet(Unit(m)) THEN "replied" ELSE outcome[x]]
    /\ batch' = [batch EXCEPT ![m] = SubSeq(@, Len(Unit(m)) + 1, Len(@))]
    /\ pc' = [pc EXCEPT ![m] = IF batch'[m] = <<>> THEN "settle" ELSE "ready"]
    /\ UNCHANGED <<queueVars, lockQueue, settings, prompt, accepted>>

\* Mutant: an early return keeps the run lock.
TurnFailsHoldingLock(m) ==
    /\ pc[m] = "turn"
    /\ ToSet(Unit(m)) \cap MayFail # {}
    /\ outcome' = [x \in Msgs |-> IF x \in ToSet(batch[m]) THEN "failed" ELSE outcome[x]]
    /\ batch' = [batch EXCEPT ![m] = <<>>]
    /\ pc' = [pc EXCEPT ![m] = "failed"]
    /\ UNCHANGED <<queueVars, lockQueue, settings, prompt, accepted, replies>>

\* A skill, the agent or send_reply failed: `?` leaves process_message, which
\* drops the guard and the rest of the batch and never touches the queue again.
TurnFails(m) ==
    /\ pc[m] = "turn"
    /\ ToSet(Unit(m)) \cap MayFail # {}
    /\ outcome' = [x \in Msgs |-> IF x \in ToSet(Unit(m)) THEN "failed"
                                  ELSE IF x \in ToSet(batch[m]) THEN "abandoned"
                                  ELSE outcome[x]]
    /\ batch' = [batch EXCEPT ![m] = <<>>]
    /\ lockQueue' = Tail(lockQueue)
    /\ pc' = [pc EXCEPT ![m] = "failed"]
    /\ UNCHANGED <<queueVars, settings, prompt, accepted, replies>>

\* Mutant: every mode marks the run complete while messages are pending.
SettleAlwaysIdle(m) ==
    /\ pc[m] = "settle"
    /\ hasActiveRun' = FALSE
    /\ pc' = [pc EXCEPT ![m] = IF mode = "Collect" /\ pending # <<>> THEN "window" ELSE "next"]
    /\ UNCHANGED <<mode, cap, policy, pending, droppedCount, summary,
                   lockQueue, settings, batch, prompt, historyVars>>

\* After a round: in collect mode with work pending, mark_run_complete and sleep
\* through the collect window; otherwise only the debounce delay is left.
Settle(m) ==
    /\ pc[m] = "settle"
    /\ IF mode = "Collect" /\ pending # <<>>
       THEN hasActiveRun' = FALSE /\ pc' = [pc EXCEPT ![m] = "window"]
       ELSE UNCHANGED hasActiveRun /\ pc' = [pc EXCEPT ![m] = "next"]
    /\ UNCHANGED <<mode, cap, policy, pending, droppedCount, summary,
                   lockQueue, settings, batch, prompt, historyVars>>

\* The take that ends a round: n messages for the next one, or the end of the
\* task when nothing is pending, which also lets go of the run lock.
TakeBatch(m, n, active) ==
    /\ hasActiveRun' = active
    /\ batch' = [batch EXCEPT ![m] = SubSeq(pending, 1, n)]
    /\ pending' = SubSeq(pending, n + 1, Len(pending))
    /\ IF pending = <<>>
       THEN lockQueue' = Tail(lockQueue) /\ pc' = [pc EXCEPT ![m] = "done"]
       ELSE UNCHANGED lockQueue /\ pc' = [pc EXCEPT ![m] = "waiting"]
    /\ UNCHANGED <<mode, cap, policy, droppedCount, summary, settings, prompt, historyVars>>

\* take_collect_batch, when the window and the debounce delay are over.
TakeCollectBatch(m) == pc[m] = "window" /\ TakeBatch(m, Len(pending), pending # <<>>)

\* Mutant: an empty take leaves the run marked active.
CompleteAndTakeNextStuck(m) ==
    pc[m] = "next" /\ TakeBatch(m, IF pending = <<>> THEN 0 ELSE 1, TRUE)

\* complete_and_take_next, when the debounce delay is over.
CompleteAndTakeNext(m) ==
    pc[m] = "next" /\ TakeBatch(m, IF pending = <<>> THEN 0 ELSE 1, pending # <<>>)

-----------------------------------------------------------------------------
\* MessageQueue::new(Followup defaults): no cap, Summarize.  The queue is made
\* by the first get_or_create_queue, whose settings it then holds.
Init ==
    /\ mode = "Followup" /\ cap = UsizeMax /\ policy = "Summarize"
    /\ pending = <<>> /\ hasActiveRun = FALSE
    /\ droppedCount = 0 /\ summary = <<>>
    /\ lockQueue = <<>>
    /\ pc = [m \in Msgs |-> "idle"]
    /\ settings = [m \in Msgs |-> None]
    /\ batch = [m \in Msgs |-> <<>>]
    /\ prompt = [m \in Msgs |-> 0]
    /\ accepted = <<>> /\ replies = <<>>
    /\ outcome = [m \in Msgs |-> "none"]

\* The steps of a task whose message has arrived.
Step(m) ==
    \/ GetOrCreateQueue(m) \/ ApplySettings(m) \/ Enqueue(m)
    \/ RequestRunLock(m) \/ TakeSummaryPrompt(m)
    \/ StartTurn(m) \/ TurnReplies(m) \/ TurnFails(m)
    \/ Settle(m) \/ TakeCollectBatch(m) \/ CompleteAndTakeNext(m)

\* Every message has arrived and every task has returned.
Quiescent ==
    /\ \A m \in Msgs : pc[m] \in {"done", "queued", "failed"}
    /\ UNCHANGED vars

Next == (\E m \in Msgs : ResolveSettings(m) \/ Step(m)) \/ Quiescent

Spec == Init /\ [][Next]_vars

\* The tokio scheduler polls every ready task again, a mutex wakes its waiters
\* in order, sleeps end and a turn comes back (provider calls have timeouts).
\* No message is bound to arrive.
Fairness == \A m \in Msgs : WF_vars(Step(m))

FairSpec == Spec /\ Fairness

-----------------------------------------------------------------------------
(* Properties.                                                              *)

\* The type of every variable; a batch and the queue hold messages.
TypeOK ==
    /\ mode \in Modes /\ cap \in 1..UsizeMax /\ policy \in Policies
    /\ pending \in Seq(Msgs) /\ hasActiveRun \in BOOLEAN
    /\ droppedCount \in Nat /\ summary \in Seq(Msgs)
    /\ lockQueue \in Seq(Msgs)
    /\ pc \in [Msgs -> Pcs]
    /\ settings \in [Msgs -> Settings \cup {None}]
    /\ batch \in [Msgs -> Seq(Msgs)]
    /\ prompt \in [Msgs -> Nat]
    /\ accepted \in Seq(Msgs) /\ replies \in Seq(Msgs)
    /\ outcome \in [Msgs -> Outcomes]

\* The tasks between the run lock and its release.
LockedPcs == {"ready", "turn", "settle", "window", "next"}

\* Turns of one session never overlap: a task between taking the run lock and its
\* release is the head of the lock's waiters, everybody behind it is still
\* waiting, and nobody waits twice, so every exit hands the lock on.
RunLockDiscipline ==
    /\ \A m \in Msgs : pc[m] \in LockedPcs => HoldsRunLock(m)
    /\ \A i \in DOMAIN lockQueue :
          pc[lockQueue[i]] \in IF i = 1 THEN LockedPcs \cup {"waiting"} ELSE {"waiting"}
    /\ \A i, j \in DOMAIN lockQueue : lockQueue[i] = lockQueue[j] => i = j
    /\ \A m \in Msgs : pc[m] = "waiting" => \E i \in DOMAIN lockQueue : lockQueue[i] = m

\* In how many places an unanswered message is held: queue slots and batch slots.
Copies(m) ==
    Cardinality({i \in DOMAIN pending : pending[i] = m})
    + Cardinality({slot \in Msgs \X (1..Cardinality(Msgs)) :
                      slot[2] \in DOMAIN batch[slot[1]] /\ batch[slot[1]][slot[2]] = m})

\* No message is lost and none is answered twice: an accepted message without an
\* outcome is in exactly one slot of the queue or of one task's batch, and a
\* message with an outcome (replied, failed, dropped, cleared...) is in none.
EachMessageHeldOnce ==
    \A m \in Msgs :
        Copies(m) = IF m \in ToSet(accepted) /\ outcome[m] = "none" THEN 1 ELSE 0

\* The queue is never left with nobody to serve it: while it says a run is active,
\* or holds a message, some task is still bound to look at it again.  Holds when
\* no turn fails (complete_and_take_next, take_collect_batch, mark_run_complete).
NoOrphanedQueue ==
    hasActiveRun \/ pending # <<>> => \E m \in Msgs : Active(m)

\* In the modes that only queue, has_active_run says exactly whether a task is
\* active, and at most one is: the run lock is never contended.
OneRunner ==
    /\ hasActiveRun <=> \E m \in Msgs : Active(m)
    /\ \A m, n \in Msgs : Active(m) /\ Active(n) => m = n

\* The overflow count and the overflow summary agree, whatever settings change
\* between pushes: there is a line to show exactly when there is a drop to
\* report, and never more lines than drops.
SummaryMatchesCount ==
    /\ (summary # <<>>) <=> (droppedCount > 0)
    /\ Len(summary) <= droppedCount

\* A push never lets the queue outgrow its cap, also when the cap was lowered
\* while more messages were waiting.
CapRespected ==
    [][Len(pending') > Len(pending) => Len(pending') <= cap]_vars

\* Where a message stands in the order enqueue accepted it.
ArrivalIndex(m) == CHOOSE i \in DOMAIN accepted : accepted[i] = m

\* In the modes that only queue, answers leave in the order the messages came,
\* through overflow, batches and change of runner.
RepliesInArrivalOrder ==
    \A i, j \in DOMAIN replies :
        i < j => ArrivalIndex(replies[i]) < ArrivalIndex(replies[j])

\* Every accepted message meets its fate: a reply, or a drop the settings ask
\* for.  (Queued: "Message was queued for later.")
AcceptedIsSettled ==
    \A m \in Msgs : m \in ToSet(accepted) ~> outcome[m] # "none"

\* Messages dropped under Summarize are reported to a later turn.
DropsAreReported == droppedCount > 0 ~> droppedCount = 0

\* In the queueing modes answers come in the order of arrival, and what was dropped on
\* the way is reported.
ServedInOrder == []RepliesInArrivalOrder /\ DropsAreReported

\* QueueMode::Followup promises "Queue for next turn after current completes":
\* a pending message does not stay pending forever once a turn may fail.
QueuedGetsNextTurn ==
    \A m \in Msgs : m \in ToSet(pending) ~> m \notin ToSet(pending)

-----------------------------------------------------------------------------
(* The instances that TLC checks.                                            *)

Setting(md, c, p) == [mode |-> md, cap |-> c, policy |-> p]

\* A configuration edited while messages arrive: every mode that behaves
\* differently, a cap that shrinks, and a queue that summarizes or refuses.
MCMixed == {Setting("Interrupt", 3, "Summarize"), Setting("Collect", 0, "Summarize"),
            Setting("Followup", 2, "New")}

\* The modes that only queue, full after one or two messages.
MCQueueing == {Setting("Followup", 1, "Summarize"), Setting("Steer", 2, "Summarize")}

\* Every mode in turn, with room for what waits.
MCModes == {Setting("Interrupt", 3, "Summarize"), Setting("Collect", 3, "Summarize"),
            Setting("Followup", 1, "Old")}

MCFollowup == {Setting("Followup", 3, "Summarize")}

MCNobody == {}

MCSymmetry == Permutations(Msgs)

-----------------------------------------------------------------------------
(* Proofs, for every set of messages and settings.                           *)

\* What the code relies on at each place of a task: its settings have been read,
\* and it holds a message to answer whenever a turn is due.
TaskInv ==
    \A m \in Msgs :
        /\ pc[m] # "idle" => settings[m] \in Settings
        /\ pc[m] \in {"admitted", "waiting", "ready", "turn"} => batch[m] # <<>>

\* The inductive invariant behind the type and the run lock.
BaseInv == TypeOK /\ TaskInv /\ RunLockDiscipline

-----------------------------------------------------------------------------

\* A slice of a sequence of S within its bounds is a sequence of S.
LEMMA SliceType ==
    ASSUME NEW S, NEW s \in Seq(S), NEW a \in Nat \ {0}, NEW b \in Nat, b <= Len(s)
    PROVE  /\ SubSeq(s, a, b) \in Seq(S)
           /\ Len(SubSeq(s, a, b)) = IF a <= b THEN b - a + 1 ELSE 0
           /\ \A i \in 1 .. b - a + 1 : SubSeq(s, a, b)[i] = s[a + i - 1]
  <1>1. \A i \in a .. b : s[i] \in S
    OBVIOUS
  <1> QED BY <1>1, SubSeqProperties

\* Releasing the run lock: the waiters behind the head, in order.
LEMMA TailType ==
    ASSUME NEW S, NEW s \in Seq(S), s # <<>>
    PROVE  /\ Tail(s) \in Seq(S)
           /\ Len(Tail(s)) = Len(s) - 1
           /\ \A i \in 1 .. Len(s) - 1 : Tail(s)[i] = s[i + 1]
  OBVIOUS

\* A turn answers one or more messages of the task's batch.
LEMMA UnitType ==
    ASSUME TypeOK, NEW m \in Msgs, batch[m] # <<>>
    PROVE  /\ Unit(m) \in Seq(Msgs)
           /\ Len(Unit(m)) \in 1 .. Len(batch[m])
           /\ SubSeq(batch[m], Len(Unit(m)) + 1, Len(batch[m])) \in Seq(Msgs)
  <1>1. batch[m] \in Seq(Msgs) /\ Len(batch[m]) \in Nat \ {0}
    BY DEF TypeOK
  <1>2. SubSeq(batch[m], 1, 1) \in Seq(Msgs) /\ Len(SubSeq(batch[m], 1, 1)) = 1
    BY <1>1, SliceType
  <1>3. Unit(m) \in Seq(Msgs) /\ Len(Unit(m)) \in 1 .. Len(batch[m])
    BY <1>1, <1>2 DEF Unit
  <1> QED BY <1>1, <1>3, SliceType

\* push_pending keeps the queue and its summary sequences of messages.
LEMMA PushPendingType ==
    ASSUME TypeOK, NEW m \in Msgs, PushPending(m)
    PROVE  /\ pending' \in Seq(Msgs) /\ droppedCount' \in Nat /\ summary' \in Seq(Msgs)
           /\ outcome' \in [Msgs -> Outcomes]
  <1> USE UsizeMaxAssumption, SummaryMaxAssumption
  <1> DEFINE drop == [x \in Msgs |-> IF x \in ToSet(Evicted) THEN "dropped" ELSE outcome[x]]
  <1>1. CASE ~Full
    <2>1. pending' = Append(pending, m) /\ UNCHANGED <<droppedCount, summary, outcome>>
      BY <1>1, Zenon DEF PushPending
    <2> QED BY <2>1 DEF TypeOK
  <1>2. CASE Full /\ policy = "New"
    BY <1>2 DEF PushPending, TypeOK, Outcomes
  <1>3. CASE Full /\ policy # "New"
    <2>1. DropCount \in 1 .. Len(pending) /\ Len(pending) \in Nat
      BY <1>3 DEF DropCount, Full, TypeOK
    <2>2. Evicted \in Seq(Msgs) /\ SubSeq(pending, DropCount + 1, Len(pending)) \in Seq(Msgs)
      <3>1. pending \in Seq(Msgs)
        BY DEF TypeOK
      <3>2. SubSeq(pending, 1, DropCount) \in Seq(Msgs)
        BY <3>1, <2>1, SliceType
      <3>3. DropCount + 1 \in Nat \ {0}
        BY <2>1
      <3>4. SubSeq(pending, DropCount + 1, Len(pending)) \in Seq(Msgs)
        BY <3>1, <3>3, <2>1, SliceType
      <3> QED BY <3>2, <3>4 DEF Evicted
    <2>a. /\ pending' = Append(SubSeq(pending, DropCount + 1, Len(pending)), m)
          /\ outcome' = drop
          /\ IF policy = "Summarize"
             THEN /\ droppedCount' = droppedCount + DropCount
                  /\ summary' = KeepLast(summary \o Evicted, SummaryLimit)
             ELSE UNCHANGED <<droppedCount, summary>>
      BY <1>3, Zenon DEF PushPending
    <2>3. pending' \in Seq(Msgs)
      BY <2>a, <2>2
    <2>4. outcome' \in [Msgs -> Outcomes]
      BY <2>a DEF TypeOK, Outcomes
    <2>5. SummaryLimit \in Nat \ {0}
      BY DEF SummaryLimit, TypeOK
    <2>6. summary \o Evicted \in Seq(Msgs)
      BY <2>2 DEF TypeOK
    <2>7. KeepLast(summary \o Evicted, SummaryLimit) \in Seq(Msgs)
      <3> DEFINE lines == summary \o Evicted
      <3>1. Len(lines) \in Nat
        BY <2>6
      <3>2. CASE Len(lines) > SummaryLimit
        <4>1. Len(lines) - SummaryLimit + 1 \in Nat \ {0}
          BY <3>1, <3>2, <2>5
        <4>2. SubSeq(lines, Len(lines) - SummaryLimit + 1, Len(lines)) \in Seq(Msgs)
          BY <3>1, <4>1, <2>6, SliceType
        <4> QED BY <3>1, <3>2, <4>2, <2>5 DEF KeepLast
      <3> QED BY <3>1, <3>2, <2>5, <2>6 DEF KeepLast
    <2>8. droppedCount' \in Nat /\ summary' \in Seq(Msgs)
      <3>1. CASE policy = "Summarize"
        BY <2>a, <2>1, <2>7, <3>1 DEF TypeOK
      <3>2. CASE policy # "Summarize"
        BY <2>a, <3>2 DEF TypeOK
      <3> QED BY <3>1, <3>2
    <2> QED BY <2>3, <2>4, <2>8
  <1> QED BY <1>1, <1>2, <1>3 DEF Policies

-----------------------------------------------------------------------------
\* Every step keeps the type of the variables.
LEMMA TypeStep ==
    ASSUME BaseInv, [Next]_vars
    PROVE  TypeOK'
  <1> USE DEF BaseInv
  <1>1. ASSUME NEW m \in Msgs, ResolveSettings(m) PROVE TypeOK'
    BY <1>1 DEF ResolveSettings, TypeOK, Pcs, queueVars, historyVars
  <1>2. ASSUME NEW m \in Msgs, GetOrCreateQueue(m) PROVE TypeOK'
    <2>1. settings[m] \in QueueRuntimeSettings
      BY <1>2, SettingsAssumption DEF GetOrCreateQueue, TaskInv
    <2> QED BY <1>2, <2>1 DEF GetOrCreateQueue, TypeOK, Pcs, QueueRuntimeSettings, historyVars
  <1>3. ASSUME NEW m \in Msgs, ApplySettings(m) PROVE TypeOK'
    <2>1. settings[m] \in QueueRuntimeSettings
      BY <1>3, SettingsAssumption DEF ApplySettings, TaskInv
    <2>2. cap' \in 1 .. UsizeMax
      BY <1>3, <2>1, UsizeMaxAssumption DEF ApplySettings, QueueRuntimeSettings
    <2> QED BY <1>3, <2>1, <2>2 DEF ApplySettings, TypeOK, Pcs, QueueRuntimeSettings, historyVars
  <1>4. ASSUME NEW m \in Msgs, Enqueue(m) PROVE TypeOK'
    <2>1. CASE RunNow(m)
      BY <1>4, <2>1 DEF Enqueue, RunNow, Admit, TypeOK, Pcs
    <2>2. CASE Interrupted(m)
      BY <1>4, <2>2 DEF Enqueue, Interrupted, Admit, TypeOK, Pcs, Outcomes
    <2>3. CASE Queued(m)
      <3>1. /\ pending' \in Seq(Msgs) /\ droppedCount' \in Nat /\ summary' \in Seq(Msgs)
            /\ outcome' \in [Msgs -> Outcomes]
        BY <2>3, PushPendingType DEF Queued
      <3>2. accepted' \in Seq(Msgs) /\ pc' \in [Msgs -> Pcs]
        BY <1>4, <2>3 DEF Enqueue, Queued, TypeOK, Pcs
      <3>3. UNCHANGED <<mode, cap, policy, hasActiveRun, lockQueue, settings, batch, prompt, replies>>
        BY <1>4, <2>3 DEF Enqueue, Queued
      <3> QED BY <3>1, <3>2, <3>3 DEF TypeOK
    <2> QED BY <1>4, <2>1, <2>2, <2>3 DEF Enqueue
  <1>5. ASSUME NEW m \in Msgs, RequestRunLock(m) PROVE TypeOK'
    BY <1>5 DEF RequestRunLock, TypeOK, Pcs, queueVars, historyVars
  <1>6. ASSUME NEW m \in Msgs, TakeSummaryPrompt(m) PROVE TypeOK'
    <2>1. \/ /\ prompt' = [prompt EXCEPT ![m] = 0]
             /\ UNCHANGED <<droppedCount, summary>>
          \/ /\ prompt' = [prompt EXCEPT ![m] = droppedCount]
             /\ droppedCount' = 0
             /\ summary' = <<>>
      BY <1>6, Zenon DEF TakeSummaryPrompt
    <2>2. prompt' \in [Msgs -> Nat] /\ droppedCount' \in Nat /\ summary' \in Seq(Msgs)
      <3>1. /\ [prompt EXCEPT ![m] = 0] \in [Msgs -> Nat]
            /\ [prompt EXCEPT ![m] = droppedCount] \in [Msgs -> Nat]
        BY DEF TypeOK
      <3>2. <<>> \in Seq(Msgs) /\ 0 \in Nat /\ summary \in Seq(Msgs) /\ droppedCount \in Nat
        BY DEF TypeOK
      <3> QED BY <2>1, <3>1, <3>2
    <2>3. pc' = [pc EXCEPT ![m] = "ready"]
          /\ UNCHANGED <<mode, cap, policy, pending, hasActiveRun, lockQueue, settings, batch, historyVars>>
      BY <1>6 DEF TakeSummaryPrompt
    <2> QED BY <2>2, <2>3 DEF TypeOK, Pcs, historyVars
  <1>7. ASSUME NEW m \in Msgs, StartTurn(m) PROVE TypeOK'
    BY <1>7 DEF StartTurn, TypeOK, Pcs, queueVars, historyVars
  <1>8. ASSUME NEW m \in Msgs, TurnReplies(m) PROVE TypeOK'
    <2>1. batch[m] # <<>>
      BY <1>8 DEF TurnReplies, TaskInv
    <2>2. Unit(m) \in Seq(Msgs) /\ SubSeq(batch[m], Len(Unit(m)) + 1, Len(batch[m])) \in Seq(Msgs)
      BY <2>1, UnitType
    <2>3. replies' \in Seq(Msgs)
      BY <1>8, <2>2 DEF TurnReplies, TypeOK
    <2>4. batch' \in [Msgs -> Seq(Msgs)]
      BY <1>8, <2>2 DEF TurnReplies, TypeOK
    <2>5. pc' \in [Msgs -> Pcs] /\ outcome' \in [Msgs -> Outcomes]
      BY <1>8 DEF TurnReplies, TypeOK, Pcs, Outcomes
    <2> QED BY <1>8, <2>3, <2>4, <2>5 DEF TurnReplies, TypeOK, queueVars
  <1>9. ASSUME NEW m \in Msgs, TurnFails(m) PROVE TypeOK'
    <2>1. lockQueue # <<>>
      BY <1>9 DEF TurnFails, RunLockDiscipline, HoldsRunLock, LockedPcs
    <2>2. lockQueue' \in Seq(Msgs)
      BY <1>9, <2>1, TailType DEF TurnFails, TypeOK
    <2>3. outcome' \in [Msgs -> Outcomes]
      BY <1>9 DEF TurnFails, TypeOK, Outcomes
    <2> QED BY <1>9, <2>2, <2>3 DEF TurnFails, TypeOK, Pcs, queueVars
  <1>10. ASSUME NEW m \in Msgs, Settle(m) PROVE TypeOK'
    BY <1>10 DEF Settle, TypeOK, Pcs, historyVars
  <1>11. ASSUME NEW m \in Msgs, NEW n \in 0 .. Len(pending), NEW active \in BOOLEAN,
                pc[m] \in LockedPcs, TakeBatch(m, n, active)
         PROVE  TypeOK'
    <2>1. lockQueue # <<>>
      BY <1>11 DEF RunLockDiscipline, HoldsRunLock
    <2>2. pending \in Seq(Msgs) /\ n \in Nat /\ n + 1 \in Nat \ {0} /\ n <= Len(pending)
          /\ Len(pending) \in Nat
      BY <1>11 DEF TypeOK
    <2>3. SubSeq(pending, 1, n) \in Seq(Msgs)
      BY <2>2, SliceType
    <2>4. SubSeq(pending, n + 1, Len(pending)) \in Seq(Msgs)
      BY <2>2, SliceType
    <2>5. lockQueue' \in Seq(Msgs)
      <3>1. lockQueue' = Tail(lockQueue) \/ lockQueue' = lockQueue
        BY <1>11 DEF TakeBatch
      <3>2. lockQueue \in Seq(Msgs) /\ Tail(lockQueue) \in Seq(Msgs)
        BY <2>1, TailType DEF TypeOK
      <3> QED BY <3>1, <3>2
    <2>6. batch' \in [Msgs -> Seq(Msgs)] /\ pending' \in Seq(Msgs) /\ hasActiveRun' \in BOOLEAN
      BY <1>11, <2>3, <2>4 DEF TakeBatch, TypeOK
    <2>7. pc' \in [Msgs -> Pcs]
      BY <1>11 DEF TakeBatch, TypeOK, Pcs
    <2> QED BY <1>11, <2>5, <2>6, <2>7 DEF TakeBatch, TypeOK, historyVars
  <1>12. ASSUME NEW m \in Msgs, TakeCollectBatch(m) PROVE TypeOK'
    <2>1. Len(pending) \in 0 .. Len(pending)
      BY DEF TypeOK
    <2> QED BY <1>11, <1>12, <2>1 DEF TakeCollectBatch, LockedPcs
  <1>13. ASSUME NEW m \in Msgs, CompleteAndTakeNext(m) PROVE TypeOK'
    <2> DEFINE n == IF pending = <<>> THEN 0 ELSE 1
    <2>1. n \in 0 .. Len(pending)
      BY DEF TypeOK
    <2> QED BY <1>11, <1>13, <2>1 DEF CompleteAndTakeNext, LockedPcs
  <1>14. CASE UNCHANGED vars
    BY <1>14 DEF TypeOK, vars, queueVars, taskVars, historyVars
  <1> QED BY <1>1, <1>2, <1>3, <1>4, <1>5, <1>6, <1>7, <1>8, <1>9, <1>10, <1>12, <1>13, <1>14
          DEF Next, Step, Quiescent

-----------------------------------------------------------------------------
(* The run lock, one lemma for each way a step can touch it.                *)

InLock == LockedPcs \cup {"waiting"}

\* A task that is nowhere near the lock moves on.
LEMMA LockOutside ==
    ASSUME TypeOK, RunLockDiscipline, NEW m \in Msgs, NEW p,
           pc[m] \notin InLock, p \notin InLock,
           pc' = [pc EXCEPT ![m] = p], UNCHANGED lockQueue
    PROVE  RunLockDiscipline'
  <1>1. \A i \in DOMAIN lockQueue : lockQueue[i] \in Msgs /\ pc[lockQueue[i]] \in InLock
    <2>1. \A i \in DOMAIN lockQueue : lockQueue[i] \in Msgs
      BY DEF TypeOK
    <2>2. \A i \in DOMAIN lockQueue : pc[lockQueue[i]] \in InLock
      BY DEF RunLockDiscipline, InLock
    <2> QED BY <2>1, <2>2
  <1>2. \A i \in DOMAIN lockQueue : lockQueue[i] # m
    BY <1>1
  <1> QED BY <1>1, <1>2 DEF TypeOK, RunLockDiscipline, HoldsRunLock, InLock, LockedPcs

\* The holder moves on within the critical section.
LEMMA LockInside ==
    ASSUME TypeOK, RunLockDiscipline, NEW m \in Msgs, NEW p \in InLock,
           HoldsRunLock(m), pc[m] \in InLock,
           pc' = [pc EXCEPT ![m] = p], UNCHANGED lockQueue
    PROVE  RunLockDiscipline'
  <1>1. lockQueue \in Seq(Msgs) /\ lockQueue # <<>> /\ lockQueue[1] = m /\ 1 \in DOMAIN lockQueue
    BY DEF TypeOK, HoldsRunLock
  <1>2. \A i \in DOMAIN lockQueue : lockQueue[i] \in Msgs /\ (lockQueue[i] = m <=> i = 1)
    BY <1>1 DEF RunLockDiscipline
  <1>3. \A n \in Msgs : n # m => pc'[n] = pc[n]
    BY DEF TypeOK
  <1>4. pc'[m] = p
    BY DEF TypeOK
  <1> QED BY <1>1, <1>2, <1>3, <1>4 DEF RunLockDiscipline, HoldsRunLock, InLock

\* A task that has not asked before joins the waiters.
LEMMA LockRequest ==
    ASSUME TypeOK, RunLockDiscipline, NEW m \in Msgs, pc[m] \notin InLock,
           pc' = [pc EXCEPT ![m] = "waiting"], lockQueue' = Append(lockQueue, m)
    PROVE  RunLockDiscipline'
  <1>1. lockQueue \in Seq(Msgs) /\ Len(lockQueue) \in Nat
    BY DEF TypeOK
  <1>2. /\ DOMAIN lockQueue' = 1 .. Len(lockQueue) + 1
        /\ \A i \in DOMAIN lockQueue : lockQueue'[i] = lockQueue[i]
        /\ lockQueue'[Len(lockQueue) + 1] = m
        /\ DOMAIN lockQueue = 1 .. Len(lockQueue)
        /\ lockQueue' # <<>>
        /\ lockQueue # <<>> => Head(lockQueue') = Head(lockQueue)
    BY <1>1
  <1>3. \A i \in DOMAIN lockQueue : lockQueue[i] \in Msgs /\ lockQueue[i] # m
    BY <1>1 DEF RunLockDiscipline, InLock
  <1>4. pc'[m] = "waiting" /\ \A n \in Msgs : n # m => pc'[n] = pc[n]
    BY DEF TypeOK
  <1>5. (\A n \in Msgs : pc[n] \in LockedPcs => HoldsRunLock(n))'
    <2> SUFFICES ASSUME NEW n \in Msgs, pc'[n] \in LockedPcs
                 PROVE  lockQueue' # <<>> /\ Head(lockQueue') = n
      BY DEF HoldsRunLock
    <2>1. n # m /\ pc[n] \in LockedPcs
      BY <1>4 DEF LockedPcs
    <2>2. lockQueue # <<>> /\ Head(lockQueue) = n
      BY <2>1 DEF RunLockDiscipline, HoldsRunLock
    <2> QED BY <2>2, <1>2
  <1>6. \A i \in DOMAIN lockQueue' :
          pc'[lockQueue'[i]] \in IF i = 1 THEN LockedPcs \cup {"waiting"} ELSE {"waiting"}
    <2> SUFFICES ASSUME NEW i \in DOMAIN lockQueue'
                 PROVE  pc'[lockQueue'[i]] \in IF i = 1 THEN LockedPcs \cup {"waiting"} ELSE {"waiting"}
      OBVIOUS
    <2>1. CASE i \in DOMAIN lockQueue
      BY <2>1, <1>2, <1>3, <1>4 DEF RunLockDiscipline
    <2>2. CASE i = Len(lockQueue) + 1
      BY <2>2, <1>2, <1>4
    <2> QED BY <2>1, <2>2, <1>1, <1>2
  <1>7. \A i, j \in DOMAIN lockQueue' : lockQueue'[i] = lockQueue'[j] => i = j
    BY <1>1, <1>2, <1>3 DEF RunLockDiscipline
  <1>8. \A n \in Msgs : pc'[n] = "waiting" => \E i \in DOMAIN lockQueue' : lockQueue'[i] = n
    <2> SUFFICES ASSUME NEW n \in Msgs, pc'[n] = "waiting"
                 PROVE  \E i \in DOMAIN lockQueue' : lockQueue'[i] = n
      OBVIOUS
    <2>1. CASE n = m
      BY <2>1, <1>1, <1>2
    <2>2. CASE n # m
      BY <2>2, <1>1, <1>2, <1>4 DEF RunLockDiscipline
    <2> QED BY <2>1, <2>2
  <1> QED BY <1>5, <1>6, <1>7, <1>8 DEF RunLockDiscipline

\* The holder returns: the next waiter becomes the head.
LEMMA LockRelease ==
    ASSUME TypeOK, RunLockDiscipline, NEW m \in Msgs, NEW p, p \notin InLock,
           HoldsRunLock(m), pc[m] \in InLock,
           pc' = [pc EXCEPT ![m] = p], lockQueue' = Tail(lockQueue)
    PROVE  RunLockDiscipline'
  <1>1. lockQueue \in Seq(Msgs) /\ lockQueue # <<>> /\ lockQueue[1] = m /\ Len(lockQueue) \in Nat \ {0}
    BY DEF TypeOK, HoldsRunLock
  <1>2. /\ lockQueue' \in Seq(Msgs)
        /\ Len(lockQueue') = Len(lockQueue) - 1
        /\ \A i \in 1 .. Len(lockQueue) - 1 : lockQueue'[i] = lockQueue[i + 1]
    BY <1>1, TailType
  <1>3. DOMAIN lockQueue' = 1 .. Len(lockQueue) - 1 /\ DOMAIN lockQueue = 1 .. Len(lockQueue)
    BY <1>1, <1>2
  <1>4. pc'[m] = p /\ \A n \in Msgs : n # m => pc'[n] = pc[n]
    BY DEF TypeOK
  <1>5. \A n \in Msgs : pc[n] \in LockedPcs => n = m
    BY DEF RunLockDiscipline, HoldsRunLock
  <1>6. \A n \in Msgs : pc'[n] \notin LockedPcs
    BY <1>4, <1>5 DEF InLock
  <1>7. \A i \in DOMAIN lockQueue' : lockQueue'[i] \in Msgs /\ pc'[lockQueue'[i]] = "waiting"
    <2> SUFFICES ASSUME NEW i \in DOMAIN lockQueue'
                 PROVE  lockQueue'[i] \in Msgs /\ pc'[lockQueue'[i]] = "waiting"
      OBVIOUS
    <2>1. i \in 1 .. Len(lockQueue) - 1 /\ i + 1 \in DOMAIN lockQueue /\ i + 1 # 1
      BY <1>1, <1>3
    <2>2. pc[lockQueue[i + 1]] = "waiting" /\ lockQueue[i + 1] # m /\ lockQueue[i + 1] \in Msgs
      BY <2>1, <1>1, <1>3 DEF RunLockDiscipline
    <2> QED BY <2>1, <2>2, <1>2, <1>4
  <1>8. \A i, j \in DOMAIN lockQueue' : lockQueue'[i] = lockQueue'[j] => i = j
    BY <1>1, <1>2, <1>3 DEF RunLockDiscipline
  <1>9. \A n \in Msgs : pc'[n] = "waiting" => \E i \in DOMAIN lockQueue' : lockQueue'[i] = n
    <2> SUFFICES ASSUME NEW n \in Msgs, pc'[n] = "waiting"
                 PROVE  \E i \in DOMAIN lockQueue' : lockQueue'[i] = n
      OBVIOUS
    <2>1. n # m /\ pc[n] = "waiting"
      BY <1>4 DEF InLock
    <2>2. PICK k \in DOMAIN lockQueue : lockQueue[k] = n
      BY <2>1 DEF RunLockDiscipline
    <2>3. k # 1 /\ k - 1 \in DOMAIN lockQueue' /\ lockQueue'[k - 1] = n
      BY <2>1, <2>2, <1>1, <1>2, <1>3
    <2> QED BY <2>3
  <1> QED BY <1>6, <1>7, <1>8, <1>9 DEF RunLockDiscipline

\* Every step keeps the discipline of the run lock.
LEMMA LockStep ==
    ASSUME BaseInv, [Next]_vars
    PROVE  RunLockDiscipline'
  <1> USE DEF BaseInv
  <1>1. ASSUME NEW m \in Msgs, NEW p, pc[m] \in {"idle", "resolved", "found", "configured"},
               p \in {"resolved", "found", "configured", "admitted", "queued"},
               pc' = [pc EXCEPT ![m] = p], UNCHANGED lockQueue
        PROVE  RunLockDiscipline'
    BY <1>1, LockOutside DEF InLock, LockedPcs
  <1>2. ASSUME NEW m \in Msgs, ResolveSettings(m) PROVE RunLockDiscipline'
    BY <1>1, <1>2 DEF ResolveSettings
  <1>3. ASSUME NEW m \in Msgs, GetOrCreateQueue(m) PROVE RunLockDiscipline'
    BY <1>1, <1>3 DEF GetOrCreateQueue
  <1>4. ASSUME NEW m \in Msgs, ApplySettings(m) PROVE RunLockDiscipline'
    BY <1>1, <1>4 DEF ApplySettings
  <1>5. ASSUME NEW m \in Msgs, Enqueue(m) PROVE RunLockDiscipline'
    <2>1. UNCHANGED lockQueue /\ pc[m] = "configured"
      BY <1>5 DEF Enqueue
    <2>2. PICK p \in {"admitted", "queued"} : pc' = [pc EXCEPT ![m] = p]
      BY <1>5, Zenon DEF Enqueue, RunNow, Interrupted, Queued, Admit
    <2>3. p \notin InLock /\ pc[m] \notin InLock
      BY <2>1, <2>2 DEF InLock, LockedPcs
    <2> QED BY <2>1, <2>2, <2>3, LockOutside
  <1>6. ASSUME NEW m \in Msgs, RequestRunLock(m) PROVE RunLockDiscipline'
    BY <1>6, LockRequest DEF RequestRunLock, InLock, LockedPcs
  <1>7. ASSUME NEW m \in Msgs, NEW p \in InLock, pc[m] \in InLock, HoldsRunLock(m),
               pc' = [pc EXCEPT ![m] = p], UNCHANGED lockQueue
        PROVE  RunLockDiscipline'
    BY <1>7, LockInside
  <1>8. \A m \in Msgs : pc[m] \in LockedPcs => HoldsRunLock(m)
    BY DEF RunLockDiscipline
  <1>9. ASSUME NEW m \in Msgs, TakeSummaryPrompt(m) PROVE RunLockDiscipline'
    BY <1>7, <1>9 DEF TakeSummaryPrompt, InLock, LockedPcs
  <1>10. ASSUME NEW m \in Msgs, StartTurn(m) PROVE RunLockDiscipline'
    BY <1>7, <1>8, <1>10 DEF StartTurn, InLock, LockedPcs
  <1>11. ASSUME NEW m \in Msgs, TurnReplies(m) PROVE RunLockDiscipline'
    <2>1. \E p \in {"settle", "ready"} : pc' = [pc EXCEPT ![m] = p]
      BY <1>11, Zenon DEF TurnReplies
    <2> QED BY <1>7, <1>8, <1>11, <2>1 DEF TurnReplies, InLock, LockedPcs
  <1>12. ASSUME NEW m \in Msgs, TurnFails(m) PROVE RunLockDiscipline'
    BY <1>8, <1>12, LockRelease DEF TurnFails, InLock, LockedPcs
  <1>13. ASSUME NEW m \in Msgs, Settle(m) PROVE RunLockDiscipline'
    <2>1. \E p \in {"window", "next"} : pc' = [pc EXCEPT ![m] = p]
      BY <1>13, Zenon DEF Settle
    <2> QED BY <1>7, <1>8, <1>13, <2>1 DEF Settle, InLock, LockedPcs
  <1>14. ASSUME NEW m \in Msgs, NEW n, NEW active, pc[m] \in LockedPcs, TakeBatch(m, n, active)
         PROVE  RunLockDiscipline'
    <2>1. HoldsRunLock(m) /\ pc[m] \in InLock
      BY <1>8, <1>14 DEF InLock
    <2>2. CASE pending = <<>>
      BY <1>14, <2>1, <2>2, LockRelease DEF TakeBatch, InLock, LockedPcs
    <2>3. CASE pending # <<>>
      BY <1>7, <1>14, <2>1, <2>3 DEF TakeBatch, InLock, LockedPcs
    <2> QED BY <2>2, <2>3
  <1>15. ASSUME NEW m \in Msgs, TakeCollectBatch(m) PROVE RunLockDiscipline'
    BY <1>14, <1>15 DEF TakeCollectBatch, LockedPcs
  <1>16. ASSUME NEW m \in Msgs, CompleteAndTakeNext(m) PROVE RunLockDiscipline'
    BY <1>14, <1>16 DEF CompleteAndTakeNext, LockedPcs
  <1>17. CASE UNCHANGED vars
    BY <1>17 DEF RunLockDiscipline, HoldsRunLock, vars, taskVars
  <1> QED BY <1>2, <1>3, <1>4, <1>5, <1>6, <1>9, <1>10, <1>11, <1>12, <1>13, <1>15, <1>16, <1>17
          DEF Next, Step, Quiescent

\* Every step leaves each task with what its next place needs.
LEMMA TaskStep ==
    ASSUME BaseInv, [Next]_vars
    PROVE  TaskInv'
  <1> USE DEF BaseInv
  <1>1. ASSUME NEW m \in Msgs, ResolveSettings(m) PROVE TaskInv'
    BY <1>1 DEF ResolveSettings, TaskInv, TypeOK
  <1>2. ASSUME NEW m \in Msgs, GetOrCreateQueue(m) PROVE TaskInv'
    BY <1>2 DEF GetOrCreateQueue, TaskInv, TypeOK
  <1>3. ASSUME NEW m \in Msgs, ApplySettings(m) PROVE TaskInv'
    BY <1>3 DEF ApplySettings, TaskInv, TypeOK
  <1>4. ASSUME NEW m \in Msgs, Enqueue(m) PROVE TaskInv'
    <2>1. CASE RunNow(m)
      BY <1>4, <2>1 DEF Enqueue, RunNow, Admit, TaskInv, TypeOK
    <2>2. CASE Interrupted(m)
      BY <1>4, <2>2 DEF Enqueue, Interrupted, Admit, TaskInv, TypeOK
    <2>3. CASE Queued(m)
      BY <1>4, <2>3 DEF Enqueue, Queued, TaskInv, TypeOK
    <2> QED BY <1>4, <2>1, <2>2, <2>3 DEF Enqueue
  <1>5. ASSUME NEW m \in Msgs, RequestRunLock(m) PROVE TaskInv'
    BY <1>5 DEF RequestRunLock, TaskInv, TypeOK
  <1>6. ASSUME NEW m \in Msgs, TakeSummaryPrompt(m) PROVE TaskInv'
    BY <1>6 DEF TakeSummaryPrompt, TaskInv, TypeOK
  <1>7. ASSUME NEW m \in Msgs, StartTurn(m) PROVE TaskInv'
    BY <1>7 DEF StartTurn, TaskInv, TypeOK
  <1>8. ASSUME NEW m \in Msgs, TurnReplies(m) PROVE TaskInv'
    BY <1>8 DEF TurnReplies, TaskInv, TypeOK
  <1>9. ASSUME NEW m \in Msgs, TurnFails(m) PROVE TaskInv'
    BY <1>9 DEF TurnFails, TaskInv, TypeOK
  <1>10. ASSUME NEW m \in Msgs, Settle(m) PROVE TaskInv'
    BY <1>10 DEF Settle, TaskInv, TypeOK
  <1>11. ASSUME NEW m \in Msgs, NEW n \in Nat, NEW active, pc[m] # "idle",
                pending # <<>> => n \in 1 .. Len(pending), TakeBatch(m, n, active)
         PROVE  TaskInv'
    <2>1. CASE pending = <<>>
      BY <1>11, <2>1 DEF TakeBatch, TaskInv, TypeOK
    <2>2. CASE pending # <<>>
      <3>1. pending \in Seq(Msgs) /\ n \in Nat /\ n >= 1 /\ n <= Len(pending)
        BY <1>11, <2>2 DEF TypeOK
      <3>2. SubSeq(pending, 1, n) \in Seq(Msgs) /\ Len(SubSeq(pending, 1, n)) = n
        BY <3>1, SliceType
      <3>3. SubSeq(pending, 1, n) # <<>>
        BY <3>1, <3>2
      <3> QED BY <1>11, <2>2, <3>3 DEF TakeBatch, TaskInv, TypeOK
    <2> QED BY <2>1, <2>2
  <1>12. ASSUME NEW m \in Msgs, TakeCollectBatch(m) PROVE TaskInv'
    <2>1. Len(pending) \in Nat /\ (pending # <<>> => Len(pending) \in 1 .. Len(pending))
      BY DEF TypeOK
    <2> QED BY <1>11, <1>12, <2>1 DEF TakeCollectBatch
  <1>13. ASSUME NEW m \in Msgs, CompleteAndTakeNext(m) PROVE TaskInv'
    <2> DEFINE n == IF pending = <<>> THEN 0 ELSE 1
    <2>1. n \in Nat /\ (pending # <<>> => n \in 1 .. Len(pending))
      BY DEF TypeOK
    <2> QED BY <1>11, <1>13, <2>1 DEF CompleteAndTakeNext
  <1>14. CASE UNCHANGED vars
    BY <1>14 DEF TaskInv, vars, taskVars
  <1> QED BY <1>1, <1>2, <1>3, <1>4, <1>5, <1>6, <1>7, <1>8, <1>9, <1>10, <1>12, <1>13, <1>14
          DEF Next, Step, Quiescent

\* BaseInv holds in every reachable state.
LEMMA BaseInvariant == Spec => []BaseInv
  <1>1. Init => BaseInv
    <2> SUFFICES ASSUME Init PROVE BaseInv
      OBVIOUS
    <2>1. TypeOK
      <3>1. <<>> \in Seq(Msgs)
        OBVIOUS
      <3>2. UsizeMax \in 1 .. UsizeMax
        BY UsizeMaxAssumption
      <3> QED BY <3>1, <3>2 DEF Init, TypeOK, Modes, Policies, Pcs, Outcomes
    <2>2. TaskInv
      BY DEF Init, TaskInv
    <2>3. RunLockDiscipline
      BY DEF Init, RunLockDiscipline, LockedPcs
    <2> QED BY <2>1, <2>2, <2>3 DEF BaseInv
  <1>2. BaseInv /\ [Next]_vars => BaseInv'
    BY TypeStep, TaskStep, LockStep DEF BaseInv
  <1> QED BY <1>1, <1>2, PTL DEF Spec

\* For every set of messages and settings, the variables keep their types.
THEOREM TypeCorrect == Spec => []TypeOK
  <1>1. BaseInv => TypeOK
    BY DEF BaseInv
  <1> QED BY <1>1, BaseInvariant, PTL

\* For every set of messages and settings, failing turns included, the turns of
\* a session are serialised by the run lock, and every return hands it on.
THEOREM TurnsAreSerial == Spec => []RunLockDiscipline
  <1>1. BaseInv => RunLockDiscipline
    BY DEF BaseInv
  <1> QED BY <1>1, BaseInvariant, PTL

-----------------------------------------------------------------------------
(* The overflow summary.                                                    *)

\* Keeping the last lines of a non-empty sequence keeps at least one.
LEMMA KeepLastLength ==
    ASSUME NEW S, NEW lines \in Seq(S), lines # <<>>, NEW limit \in Nat \ {0}
    PROVE  Len(KeepLast(lines, limit)) \in 1 .. Len(lines) /\ KeepLast(lines, limit) \in Seq(S)
  <1>1. Len(lines) \in Nat \ {0}
    OBVIOUS
  <1>2. CASE Len(lines) <= limit
    BY <1>1, <1>2 DEF KeepLast
  <1>3. CASE ~(Len(lines) <= limit)
    <2>1. Len(lines) - limit + 1 \in Nat \ {0} /\ Len(lines) - limit + 1 <= Len(lines)
      BY <1>1, <1>3
    <2>2. /\ SubSeq(lines, Len(lines) - limit + 1, Len(lines)) \in Seq(S)
          /\ Len(SubSeq(lines, Len(lines) - limit + 1, Len(lines))) = limit
      BY <1>1, <2>1, SliceType
    <2>3. KeepLast(lines, limit) = SubSeq(lines, Len(lines) - limit + 1, Len(lines))
      BY <1>3 DEF KeepLast
    <2> QED BY <1>1, <1>3, <2>2, <2>3
  <1> QED BY <1>2, <1>3

\* A push keeps the count and the lines together.
LEMMA PushKeepsSummary ==
    ASSUME TypeOK, SummaryMatchesCount, NEW m \in Msgs, PushPending(m)
    PROVE  SummaryMatchesCount'
  <1>1. CASE UNCHANGED <<droppedCount, summary>>
    BY <1>1 DEF SummaryMatchesCount
  <1>2. CASE /\ Full
             /\ droppedCount' = droppedCount + DropCount
             /\ summary' = KeepLast(summary \o Evicted, SummaryLimit)
    <2>1. DropCount \in 1 .. Len(pending) /\ Len(pending) \in Nat /\ pending \in Seq(Msgs)
      BY <1>2 DEF DropCount, Full, TypeOK
    <2>2. Evicted \in Seq(Msgs) /\ Len(Evicted) = DropCount
      BY <2>1, SliceType DEF Evicted
    <2>3. SummaryLimit \in Nat \ {0}
      BY SummaryMaxAssumption DEF SummaryLimit, TypeOK
    <2>4. summary \in Seq(Msgs) /\ droppedCount \in Nat /\ Len(summary) <= droppedCount
      BY DEF TypeOK, SummaryMatchesCount
    <2>5. /\ summary \o Evicted \in Seq(Msgs) /\ summary \o Evicted # <<>>
          /\ Len(summary \o Evicted) = Len(summary) + DropCount
      BY <2>1, <2>2, <2>4
    <2>6. Len(summary') \in 1 .. Len(summary) + DropCount /\ summary' \in Seq(Msgs)
      BY <1>2, <2>3, <2>5, KeepLastLength
    <2>7. summary' # <<>> /\ Len(summary') <= droppedCount' /\ droppedCount' > 0
      BY <1>2, <2>1, <2>4, <2>6
    <2> QED BY <2>7 DEF SummaryMatchesCount
  <1> QED BY <1>1, <1>2, Zenon DEF PushPending

\* Whatever settings change in between, the drop count and the summary lines are
\* reported and reset together (push_pending, take_summary_prompt).
THEOREM SummaryIsConsistent == Spec => []SummaryMatchesCount
  <1>1. Init => SummaryMatchesCount
    BY DEF Init, SummaryMatchesCount
  <1>2. ASSUME BaseInv, SummaryMatchesCount, [Next]_vars PROVE SummaryMatchesCount'
    <2>1. CASE UNCHANGED <<droppedCount, summary>>
      BY <1>2, <2>1 DEF SummaryMatchesCount
    <2>2. ASSUME NEW m \in Msgs, Enqueue(m) PROVE SummaryMatchesCount'
      <3>1. CASE PushPending(m)
        BY <1>2, <3>1, PushKeepsSummary DEF BaseInv
      <3>2. CASE UNCHANGED <<droppedCount, summary>>
        BY <2>1, <3>2
      <3> QED BY <2>2, <3>1, <3>2, Zenon DEF Enqueue, RunNow, Interrupted, Queued
    <2>3. ASSUME NEW m \in Msgs, TakeSummaryPrompt(m) PROVE SummaryMatchesCount'
      <3>1. CASE droppedCount' = 0 /\ summary' = <<>>
        BY <3>1 DEF SummaryMatchesCount
      <3> QED BY <2>1, <2>3, <3>1, Zenon DEF TakeSummaryPrompt
    <2>4. ASSUME NEW m \in Msgs, ResolveSettings(m) \/ Step(m) PROVE SummaryMatchesCount'
      BY <2>1, <2>2, <2>3, <2>4, Zenon
         DEF Step, ResolveSettings, GetOrCreateQueue, ApplySettings, RequestRunLock, StartTurn, TurnReplies,
             TurnFails, Settle, TakeCollectBatch, CompleteAndTakeNext, TakeBatch, queueVars
    <2> QED BY <1>2, <2>1, <2>4, Zenon DEF Next, Quiescent, vars, queueVars
  <1> QED BY <1>1, <1>2, BaseInvariant, PTL DEF Spec

-----------------------------------------------------------------------------
(* Nobody leaves the queue unattended.                                      *)

\* When no turn fails, a session with a pending message or an active mark always
\* has a task that will look at the queue again, in every mode and whatever
\* settings arrive: the counterpart of the wedge a failing turn causes.
THEOREM QueueIsAttended ==
    ASSUME MayFail = {}
    PROVE  Spec => []NoOrphanedQueue
  <1>1. Init => NoOrphanedQueue
    BY DEF Init, NoOrphanedQueue
  <1>2. ASSUME BaseInv, NoOrphanedQueue, [Next]_vars PROVE NoOrphanedQueue'
    <2> DEFINE Busy == \E m \in Msgs : Active(m)
    <2>0. pc \in [Msgs -> Pcs]
      BY <1>2 DEF BaseInv, TypeOK
    <2>1. ASSUME NEW m \in Msgs, NEW p, pc' = [pc EXCEPT ![m] = p],
                 p \in {"admitted", "waiting", "ready", "turn", "settle", "window", "next"}
          PROVE  NoOrphanedQueue'
      BY <2>0, <2>1 DEF NoOrphanedQueue, Active
    <2>2. ASSUME NEW m \in Msgs, NEW p, pc' = [pc EXCEPT ![m] = p], ~Active(m),
                 UNCHANGED <<pending, hasActiveRun>>
          PROVE  NoOrphanedQueue'
      <3>1. \A n \in Msgs : Active(n) => Active(n)'
        BY <2>0, <2>2 DEF Active
      <3> QED BY <1>2, <2>2, <3>1 DEF NoOrphanedQueue
    <2>3. ASSUME NEW m \in Msgs, ResolveSettings(m) \/ GetOrCreateQueue(m) \/ ApplySettings(m)
          PROVE  NoOrphanedQueue'
      BY <2>2, <2>3 DEF ResolveSettings, GetOrCreateQueue, ApplySettings, Active, queueVars
    <2>4. ASSUME NEW m \in Msgs, Enqueue(m) PROVE NoOrphanedQueue'
      <3>1. CASE RunNow(m) \/ Interrupted(m)
        <4>1. pc' = [pc EXCEPT ![m] = "admitted"]
          BY <3>1, Zenon DEF RunNow, Interrupted, Admit
        <4> QED BY <2>1, <4>1
      <3>2. CASE Queued(m)
        <4>1. PICK n \in Msgs : Active(n)
          BY <1>2, <3>2 DEF NoOrphanedQueue, Queued
        <4>2. Active(n)'
          BY <2>0, <2>4, <3>2, <4>1 DEF Queued, Active, Enqueue
        <4> QED BY <4>2 DEF NoOrphanedQueue
      <3> QED BY <2>4, <3>1, <3>2 DEF Enqueue
    <2>5. ASSUME NEW m \in Msgs, RequestRunLock(m) \/ TakeSummaryPrompt(m) \/ StartTurn(m)
          PROVE  NoOrphanedQueue'
      <3>1. PICK p \in {"waiting", "ready", "turn"} : pc' = [pc EXCEPT ![m] = p]
        BY <2>5, Zenon DEF RequestRunLock, TakeSummaryPrompt, StartTurn
      <3> QED BY <2>0, <3>1 DEF NoOrphanedQueue, Active
    <2>6. ASSUME NEW m \in Msgs, TurnReplies(m) \/ Settle(m) PROVE NoOrphanedQueue'
      <3>1. PICK p \in {"settle", "ready", "window", "next"} : pc' = [pc EXCEPT ![m] = p]
        BY <2>6, Zenon DEF TurnReplies, Settle
      <3> QED BY <2>0, <3>1 DEF NoOrphanedQueue, Active
    <2>7. ASSUME NEW m \in Msgs, TurnFails(m) PROVE NoOrphanedQueue'
      BY <2>7 DEF TurnFails
    <2>8. ASSUME NEW m \in Msgs, NEW n \in 0 .. Len(pending), TakeBatch(m, n, pending # <<>>)
          PROVE  NoOrphanedQueue'
      <3>1. CASE pending = <<>>
        <4>1. n = 0 /\ pending' = <<>>
          BY <2>8, <3>1 DEF TakeBatch
        <4>2. hasActiveRun' = FALSE
          BY <2>8, <3>1 DEF TakeBatch
        <4> QED BY <4>1, <4>2 DEF NoOrphanedQueue
      <3>2. CASE pending # <<>>
        BY <2>1, <2>8, <3>2 DEF TakeBatch
      <3> QED BY <3>1, <3>2
    <2>9. ASSUME NEW m \in Msgs, TakeCollectBatch(m) \/ CompleteAndTakeNext(m) PROVE NoOrphanedQueue'
      <3>1. Len(pending) \in 0 .. Len(pending) /\ (IF pending = <<>> THEN 0 ELSE 1) \in 0 .. Len(pending)
        BY <1>2 DEF BaseInv, TypeOK
      <3> QED BY <2>8, <2>9, <3>1 DEF TakeCollectBatch, CompleteAndTakeNext
    <2>10. CASE UNCHANGED vars
      BY <1>2, <2>10 DEF NoOrphanedQueue, Active, vars, queueVars, taskVars
    <2> QED BY <1>2, <2>3, <2>4, <2>5, <2>6, <2>7, <2>9, <2>10 DEF Next, Step, Quiescent
  <1> QED BY <1>1, <1>2, BaseInvariant, PTL DEF Spec

-----------------------------------------------------------------------------
(* One runner in the modes that only queue.                                 *)

Queueing == {"Steer", "Followup", "SteerBacklog"}

\* The strengthening of OneRunner: the queue stays in these modes, so no task
\* is ever in a collect window with the active mark taken down.
RunnerInv == OneRunner /\ mode \in Queueing /\ \A m \in Msgs : pc[m] # "window"

\* It is inductive when every setting is in a queueing mode and no turn fails.
LEMMA RunnerInvariant ==
    ASSUME MayFail = {}, \A s \in Settings : s.mode \in Queueing
    PROVE  Spec => []RunnerInv
  <1>1. Init => RunnerInv
    BY DEF Init, RunnerInv, OneRunner, Active, Queueing
  <1>2. ASSUME BaseInv, RunnerInv, [Next]_vars PROVE RunnerInv'
    <2>0. pc \in [Msgs -> Pcs] /\ hasActiveRun \in BOOLEAN /\ pending \in Seq(Msgs)
      BY <1>2 DEF BaseInv, TypeOK
    <2>1. ASSUME NEW m \in Msgs, NEW p, pc' = [pc EXCEPT ![m] = p], p # "window",
                 UNCHANGED <<hasActiveRun, mode>>, Active(m) <=> Active(m)'
          PROVE  RunnerInv'
      <3>1. \A n \in Msgs : (Active(n) <=> Active(n)') /\ pc'[n] # "window"
        BY <1>2, <2>0, <2>1 DEF Active, RunnerInv
      <3> QED BY <1>2, <2>1, <3>1 DEF RunnerInv, OneRunner
    <2>2. ASSUME NEW m \in Msgs, ResolveSettings(m) PROVE RunnerInv'
      <3>1. Active(m) <=> Active(m)'
        BY <2>0, <2>2 DEF ResolveSettings, Active
      <3> QED BY <2>1, <2>2, <3>1 DEF ResolveSettings, queueVars
    <2>3. ASSUME NEW m \in Msgs, GetOrCreateQueue(m) \/ ApplySettings(m) PROVE RunnerInv'
      <3>1. mode' \in Queueing
        BY <1>2, <2>3 DEF GetOrCreateQueue, ApplySettings, BaseInv, TaskInv
      <3>2. \A n \in Msgs : (Active(n) <=> Active(n)') /\ pc'[n] # "window"
        BY <1>2, <2>0, <2>3 DEF GetOrCreateQueue, ApplySettings, Active, RunnerInv
      <3>3. hasActiveRun' = hasActiveRun
        BY <2>3 DEF GetOrCreateQueue, ApplySettings
      <3> QED BY <1>2, <3>1, <3>2, <3>3 DEF RunnerInv, OneRunner
    <2>4. ASSUME NEW m \in Msgs, Enqueue(m) PROVE RunnerInv'
      <3>1. CASE RunNow(m)
        <4>1. \A n \in Msgs : ~Active(n)
          BY <1>2, <3>1 DEF RunNow, RunnerInv, OneRunner
        <4>2. pc' = [pc EXCEPT ![m] = "admitted"] /\ hasActiveRun' = TRUE /\ mode' = mode
          BY <2>4, <3>1 DEF RunNow, Admit, Enqueue
        <4>3. \A n \in Msgs : (Active(n)' <=> n = m) /\ pc'[n] # "window"
          BY <1>2, <2>0, <4>1, <4>2 DEF Active, RunnerInv
        <4> QED BY <1>2, <4>2, <4>3 DEF RunnerInv, OneRunner
      <3>2. CASE Interrupted(m)
        BY <1>2, <3>2 DEF Interrupted, RunnerInv, Queueing
      <3>3. CASE Queued(m)
        <4>1. pc' = [pc EXCEPT ![m] = "queued"] /\ UNCHANGED <<hasActiveRun, mode>>
          BY <2>4, <3>3 DEF Queued, Enqueue
        <4>2. Active(m) <=> Active(m)'
          BY <2>0, <2>4, <4>1 DEF Active, Enqueue
        <4> QED BY <2>1, <4>1, <4>2
      <3> QED BY <2>4, <3>1, <3>2, <3>3 DEF Enqueue
    <2>5. ASSUME NEW m \in Msgs,
                 \/ RequestRunLock(m) \/ TakeSummaryPrompt(m) \/ StartTurn(m) \/ TurnReplies(m) \/ Settle(m)
          PROVE  RunnerInv'
      <3>1. PICK p \in {"waiting", "ready", "turn", "settle", "next"} : pc' = [pc EXCEPT ![m] = p]
        <4>1. mode # "Collect"
          BY <1>2 DEF RunnerInv, Queueing
        <4> QED BY <2>5, <4>1, Zenon
                DEF RequestRunLock, TakeSummaryPrompt, StartTurn, TurnReplies, Settle
      <3>2. mode # "Collect"
        BY <1>2 DEF RunnerInv, Queueing
      <3>3. UNCHANGED <<hasActiveRun, mode>>
        BY <2>5, <3>2, Zenon
           DEF RequestRunLock, TakeSummaryPrompt, StartTurn, TurnReplies, Settle, queueVars
      <3>4. Active(m)
        BY <2>5 DEF RequestRunLock, TakeSummaryPrompt, StartTurn, TurnReplies, Settle, Active
      <3>5. Active(m)' /\ p # "window"
        BY <2>0, <3>1 DEF Active
      <3> QED BY <2>1, <3>1, <3>3, <3>4, <3>5
    <2>6. ASSUME NEW m \in Msgs, TurnFails(m) PROVE RunnerInv'
      BY <2>6 DEF TurnFails
    <2>7. ASSUME NEW m \in Msgs, TakeCollectBatch(m) PROVE RunnerInv'
      BY <1>2, <2>7 DEF TakeCollectBatch, RunnerInv
    <2>8. ASSUME NEW m \in Msgs, CompleteAndTakeNext(m) PROVE RunnerInv'
      <3>1. Active(m) /\ \A n \in Msgs : Active(n) => n = m
        BY <1>2, <2>8 DEF CompleteAndTakeNext, RunnerInv, OneRunner, Active
      <3>2. mode' = mode /\ hasActiveRun' = (pending # <<>>)
        BY <2>8 DEF CompleteAndTakeNext, TakeBatch
      <3>3. CASE pending = <<>>
        <4>1. pc' = [pc EXCEPT ![m] = "done"]
          BY <2>8, <3>3 DEF CompleteAndTakeNext, TakeBatch
        <4>2. \A n \in Msgs : ~Active(n)' /\ pc'[n] # "window"
          BY <1>2, <2>0, <3>1, <4>1 DEF Active, RunnerInv
        <4> QED BY <1>2, <3>2, <3>3, <4>2 DEF RunnerInv, OneRunner
      <3>4. CASE pending # <<>>
        <4>1. pc' = [pc EXCEPT ![m] = "waiting"]
          BY <2>8, <3>4 DEF CompleteAndTakeNext, TakeBatch
        <4>2. \A n \in Msgs : (Active(n)' <=> n = m) /\ pc'[n] # "window"
          BY <1>2, <2>0, <3>1, <4>1 DEF Active, RunnerInv
        <4> QED BY <1>2, <3>2, <3>4, <4>2 DEF RunnerInv, OneRunner
      <3> QED BY <3>3, <3>4
    <2>9. CASE UNCHANGED vars
      BY <1>2, <2>9 DEF RunnerInv, OneRunner, Active, vars, queueVars, taskVars
    <2> QED BY <1>2, <2>2, <2>3, <2>4, <2>5, <2>6, <2>7, <2>8, <2>9 DEF Next, Step, Quiescent
  <1> QED BY <1>1, <1>2, BaseInvariant, PTL DEF Spec

\* With every setting in a queueing mode and no failing turn, has_active_run is
\* exact: it is set if and only if one task, and only one, is responsible for
\* the session.  RunNow can then never start a second run.
THEOREM SingleRunner ==
    ASSUME MayFail = {}, \A s \in Settings : s.mode \in Queueing
    PROVE  Spec => []OneRunner
  <1>1. RunnerInv => OneRunner
    BY DEF RunnerInv
  <1>2. Spec => []RunnerInv
    BY RunnerInvariant
  <1> QED BY <1>1, <1>2, PTL

-----------------------------------------------------------------------------
(* Every message is held once.                                               *)

\* The messages of L are the ones held by a queue p and by the batches b, each in
\* one slot of one of them.
Held(p, b, L) ==
    /\ \A i \in DOMAIN p : p[i] \in L
    /\ \A t \in Msgs : \A i \in DOMAIN b[t] : b[t][i] \in L
    /\ \A i, j \in DOMAIN p : p[i] = p[j] => i = j
    /\ \A t, u \in Msgs : \A i \in DOMAIN b[t] : \A j \in DOMAIN b[u] :
          b[t][i] = b[u][j] => t = u /\ i = j
    /\ \A i \in DOMAIN p : \A t \in Msgs : \A j \in DOMAIN b[t] : p[i] # b[t][j]
    /\ \A x \in L : \/ \E i \in DOMAIN p : p[i] = x
                    \/ \E t \in Msgs : \E i \in DOMAIN b[t] : b[t][i] = x

\* The first n elements of a sequence.
Firsts(s, n) == {s[i] : i \in 1 .. n}

\* What is left of a sequence without its first n elements.
LEMMA RestType ==
    ASSUME NEW s \in Seq(Msgs), NEW n \in 0 .. Len(s)
    PROVE  /\ SubSeq(s, n + 1, Len(s)) \in Seq(Msgs)
           /\ DOMAIN SubSeq(s, n + 1, Len(s)) = 1 .. Len(s) - n
           /\ \A i \in 1 .. Len(s) - n : SubSeq(s, n + 1, Len(s))[i] = s[n + i]
  <1>1. Len(s) \in Nat /\ n \in Nat /\ n + 1 \in Nat \ {0}
    OBVIOUS
  <1> DEFINE r == SubSeq(s, n + 1, Len(s))
  <1>2. /\ r \in Seq(Msgs)
        /\ Len(r) = IF n + 1 <= Len(s) THEN Len(s) - (n + 1) + 1 ELSE 0
        /\ \A i \in 1 .. Len(s) - (n + 1) + 1 : r[i] = s[(n + 1) + i - 1]
    BY <1>1, SliceType
  <1>3. Len(r) = Len(s) - n
    BY <1>1, <1>2
  <1>4. DOMAIN r = 1 .. Len(r)
    BY <1>2
  <1>5. \A i \in 1 .. Len(s) - n : r[i] = s[n + i]
    <2> TAKE i \in 1 .. Len(s) - n
    <2>1. i \in 1 .. Len(s) - (n + 1) + 1 /\ (n + 1) + i - 1 = n + i
      BY <1>1
    <2> QED BY <1>2, <2>1
  <1> QED BY <1>2, <1>3, <1>4, <1>5

\* push_pending into a queue with room.
LEMMA HeldAppend ==
    ASSUME NEW p \in Seq(Msgs), NEW b, NEW L, NEW m \in Msgs, Held(p, b, L), m \notin L
    PROVE  Held(Append(p, m), b, L \cup {m})
  <1> DEFINE q == Append(p, m)
  <1>1. /\ Len(p) \in Nat /\ DOMAIN p = 1 .. Len(p) /\ DOMAIN q = 1 .. Len(p) + 1
        /\ \A i \in DOMAIN p : q[i] = p[i]
        /\ q[Len(p) + 1] = m
    OBVIOUS
  <1>2. \A i \in DOMAIN q : i \in DOMAIN p \/ i = Len(p) + 1
    BY <1>1
  <1> HIDE DEF q
  <1>3. \A i, j \in DOMAIN q : q[i] = q[j] => i = j
    BY <1>1, <1>2 DEF Held
  <1>4. \A i \in DOMAIN q : q[i] \in L \cup {m}
    BY <1>1, <1>2 DEF Held
  <1>5. \A i \in DOMAIN q : \A t \in Msgs : \A j \in DOMAIN b[t] : q[i] # b[t][j]
    BY <1>1, <1>2 DEF Held
  <1>6. \A x \in L \cup {m} : \/ \E i \in DOMAIN q : q[i] = x
                              \/ \E t \in Msgs : \E i \in DOMAIN b[t] : b[t][i] = x
    <2> TAKE x \in L \cup {m}
    <2>1. CASE x = m
      <3>1. Len(p) + 1 \in DOMAIN q
        BY <1>1
      <3> QED BY <2>1, <3>1, <1>1
    <2>2. CASE x \in L
      <3>1. DOMAIN p \subseteq DOMAIN q
        BY <1>1
      <3> QED BY <2>2, <3>1, <1>1 DEF Held
    <2> QED BY <2>1, <2>2
  <1>7. Held(q, b, L \cup {m})
    BY <1>3, <1>4, <1>5, <1>6 DEF Held
  <1> QED BY <1>7 DEF q

\* A task starts with its own message.
LEMMA HeldAdmit ==
    ASSUME NEW p, NEW b \in [Msgs -> Seq(Msgs)], NEW L, NEW m \in Msgs, Held(p, b, L), m \notin L,
           b[m] = <<>>
    PROVE  Held(p, [b EXCEPT ![m] = <<m>>], L \cup {m})
  <1> DEFINE c == [b EXCEPT ![m] = <<m>>]
  <1>1. /\ \A t \in Msgs : t # m => c[t] = b[t]
        /\ DOMAIN c[m] = {1} /\ c[m][1] = m
        /\ DOMAIN b[m] = {}
    OBVIOUS
  <1> HIDE DEF c
  <1>2. \A t \in Msgs : \A i \in DOMAIN c[t] : \/ (t # m /\ i \in DOMAIN b[t] /\ c[t][i] = b[t][i])
                                              \/ (t = m /\ i = 1 /\ c[t][i] = m)
    <2> TAKE t \in Msgs
    <2> TAKE i \in DOMAIN c[t]
    <2>1. CASE t = m
      <3>1. i \in {1} /\ c[m][1] = m
        BY <2>1, <1>1, Zenon
      <3>2. i = 1
        BY <3>1
      <3> QED BY <2>1, <3>1, <3>2, Zenon
    <2>2. CASE t # m
      BY <2>2, <1>1
    <2> QED BY <2>1, <2>2
  <1>3. \A t, u \in Msgs : \A i \in DOMAIN c[t] : \A j \in DOMAIN c[u] :
          c[t][i] = c[u][j] => t = u /\ i = j
    <2> TAKE t, u \in Msgs
    <2> TAKE i \in DOMAIN c[t]
    <2> TAKE j \in DOMAIN c[u]
    <2>1. t # m => i \in DOMAIN b[t] /\ c[t][i] = b[t][i] /\ c[t][i] \in L
      BY <1>2 DEF Held
    <2>2. u # m => j \in DOMAIN b[u] /\ c[u][j] = b[u][j] /\ c[u][j] \in L
      BY <1>2 DEF Held
    <2>3. (t = m => i = 1 /\ c[t][i] = m) /\ (u = m => j = 1 /\ c[u][j] = m)
      BY <1>2
    <2>4. CASE t # m /\ u # m
      <3>1. \A x \in DOMAIN b[t] : \A y \in DOMAIN b[u] : b[t][x] = b[u][y] => t = u /\ x = y
        BY Zenon DEF Held
      <3> QED BY <2>1, <2>2, <2>4, <3>1
    <2>5. CASE t = m \/ u = m
      BY <2>1, <2>2, <2>3, <2>5
    <2> QED BY <2>4, <2>5
  <1>4. /\ \A t \in Msgs : \A i \in DOMAIN c[t] : c[t][i] \in L \cup {m}
        /\ \A i \in DOMAIN p : \A t \in Msgs : \A j \in DOMAIN c[t] : p[i] # c[t][j]
        /\ \A i \in DOMAIN p : p[i] \in L \cup {m}
    <2>1. \A t \in Msgs : \A i \in DOMAIN c[t] : c[t][i] = m \/ (i \in DOMAIN b[t] /\ c[t][i] = b[t][i])
      BY <1>2
    <2>2. \A i \in DOMAIN p : p[i] \in L /\ p[i] # m
      BY DEF Held
    <2>3. /\ \A t \in Msgs : \A i \in DOMAIN b[t] : b[t][i] \in L
          /\ \A i \in DOMAIN p : \A t \in Msgs : \A j \in DOMAIN b[t] : p[i] # b[t][j]
      BY DEF Held
    <2> QED BY <2>1, <2>2, <2>3
  <1>5. \A x \in L \cup {m} : \/ \E i \in DOMAIN p : p[i] = x
                              \/ \E t \in Msgs : \E i \in DOMAIN c[t] : c[t][i] = x
    <2> TAKE x \in L \cup {m}
    <2>1. CASE x = m
      BY <2>1, <1>1
    <2>2. CASE x \in L
      <3>1. \/ \E i \in DOMAIN p : p[i] = x
            \/ \E t \in Msgs : \E i \in DOMAIN b[t] : b[t][i] = x
        BY <2>2 DEF Held
      <3>2. ASSUME NEW t \in Msgs, NEW i \in DOMAIN b[t], b[t][i] = x
            PROVE  \E u \in Msgs : \E j \in DOMAIN c[u] : c[u][j] = x
        <4>1. t # m /\ c[t] = b[t]
          BY <1>1
        <4> QED BY <3>2, <4>1
      <3> QED BY <3>1, <3>2
    <2> QED BY <2>1, <2>2
  <1>6. Held(p, c, L \cup {m})
    BY <1>3, <1>4, <1>5 DEF Held
  <1> QED BY <1>6 DEF c

\* The queue loses its oldest n messages for good.
LEMMA HeldDrop ==
    ASSUME NEW p \in Seq(Msgs), NEW b, NEW L, NEW n \in 0 .. Len(p), Held(p, b, L)
    PROVE  Held(SubSeq(p, n + 1, Len(p)), b, L \ Firsts(p, n))
  <1> DEFINE q == SubSeq(p, n + 1, Len(p))
             M == L \ Firsts(p, n)
  <1>1. /\ DOMAIN q = 1 .. Len(p) - n
        /\ \A i \in 1 .. Len(p) - n : q[i] = p[n + i]
    BY RestType
  <1>2. Len(p) \in Nat /\ DOMAIN p = 1 .. Len(p) /\ n \in Nat
    OBVIOUS
  <1>3. \A x : x \in M <=> x \in L /\ \A i \in 1 .. n : p[i] # x
    BY DEF Firsts
  <1> HIDE DEF q, M
  <1>4. \A i \in DOMAIN q : n + i \in DOMAIN p /\ q[i] = p[n + i] /\ n + i \notin 1 .. n /\ i \in Int
    BY <1>1, <1>2
  <1>5. \A i \in DOMAIN q : q[i] \in M
    <2> TAKE i \in DOMAIN q
    <2>1. \A k \in 1 .. n : k \in DOMAIN p /\ k # n + i
      BY <1>2, <1>4
    <2> QED BY <2>1, <1>3, <1>4 DEF Held
  <1>6. \A i, j \in DOMAIN q : q[i] = q[j] => i = j
    <2> TAKE i, j \in DOMAIN q
    <2>1. q[i] = q[j] => n + i = n + j
      BY <1>4 DEF Held
    <2> QED BY <2>1, <1>2, <1>4
  <1>7. \A t \in Msgs : \A i \in DOMAIN b[t] : b[t][i] \in M
    <2> TAKE t \in Msgs
    <2> TAKE i \in DOMAIN b[t]
    <2>1. \A k \in 1 .. n : k \in DOMAIN p
      BY <1>2
    <2> QED BY <2>1, <1>3 DEF Held
  <1>8. \A i \in DOMAIN q : \A t \in Msgs : \A j \in DOMAIN b[t] : q[i] # b[t][j]
    BY <1>4 DEF Held
  <1>9. \A x \in M : \/ \E i \in DOMAIN q : q[i] = x
                     \/ \E t \in Msgs : \E i \in DOMAIN b[t] : b[t][i] = x
    <2> TAKE x \in M
    <2>1. x \in L /\ \A i \in 1 .. n : p[i] # x
      BY <1>3
    <2>2. ASSUME NEW k \in DOMAIN p, p[k] = x PROVE \E i \in DOMAIN q : q[i] = x
      <3>1. k - n \in DOMAIN q /\ n + (k - n) = k
        BY <2>1, <2>2, <1>1, <1>2
      <3> QED BY <3>1, <2>2, <1>4
    <2> QED BY <2>1, <2>2 DEF Held
  <1>10. Held(q, b, M)
    BY <1>5, <1>6, <1>7, <1>8, <1>9 DEF Held
  <1> QED BY <1>10 DEF q, M

\* A turn ends: the first n messages of the task's batch leave it.
LEMMA HeldAnswer ==
    ASSUME NEW p, NEW b \in [Msgs -> Seq(Msgs)], NEW L, NEW m \in Msgs, NEW n \in 0 .. Len(b[m]),
           Held(p, b, L)
    PROVE  Held(p, [b EXCEPT ![m] = SubSeq(b[m], n + 1, Len(b[m]))], L \ Firsts(b[m], n))
  <1> DEFINE s == b[m]
             r == SubSeq(b[m], n + 1, Len(b[m]))
             c == [b EXCEPT ![m] = r]
             M == L \ Firsts(b[m], n)
  <1>1. s \in Seq(Msgs) /\ Len(s) \in Nat /\ DOMAIN s = 1 .. Len(s) /\ n \in Nat
    OBVIOUS
  <1>2. /\ DOMAIN r = 1 .. Len(s) - n
        /\ \A i \in 1 .. Len(s) - n : r[i] = s[n + i]
    BY <1>1, RestType
  <1>3. c[m] = r /\ \A t \in Msgs : t # m => c[t] = b[t]
    OBVIOUS
  <1>4. \A x : x \in M <=> x \in L /\ \A i \in 1 .. n : s[i] # x
    BY DEF Firsts
  <1>5. s = b[m]
    OBVIOUS
  <1> HIDE DEF s, r, c, M
  \* where a slot of the new batches was before
  <1> DEFINE Old(t, i) == IF t = m THEN n + i ELSE i
  <1>6. \A t \in Msgs : \A i \in DOMAIN c[t] :
          Old(t, i) \in DOMAIN b[t] /\ c[t][i] = b[t][Old(t, i)]
    <2> TAKE t \in Msgs
    <2> TAKE i \in DOMAIN c[t]
    <2>1. CASE t = m
      <3>1. i \in 1 .. Len(s) - n
        BY <2>1, <1>2, <1>3
      <3>2. n + i \in DOMAIN s
        BY <3>1, <1>1
      <3> QED BY <2>1, <3>1, <3>2, <1>2, <1>3, <1>5
    <2>2. CASE t # m
      BY <2>2, <1>3
    <2> QED BY <2>1, <2>2
  <1>7. \A i \in DOMAIN c[m] : n + i \notin 1 .. n /\ i \in Int
    BY <1>1, <1>2, <1>3
  <1>8. \A t, u \in Msgs : \A i \in DOMAIN c[t] : \A j \in DOMAIN c[u] :
          c[t][i] = c[u][j] => t = u /\ i = j
    <2> TAKE t, u \in Msgs
    <2> TAKE i \in DOMAIN c[t]
    <2> TAKE j \in DOMAIN c[u]
    <2> HAVE c[t][i] = c[u][j]
    <2>1. t = u /\ Old(t, i) = Old(u, j)
      <3> HIDE DEF Old
      <3> QED BY <1>6 DEF Held
    <2>2. CASE t = m
      BY <2>1, <2>2, <1>1, <1>7
    <2> QED BY <2>1, <2>2
  <1>9. \A t \in Msgs : \A i \in DOMAIN c[t] : c[t][i] \in M
    <2> TAKE t \in Msgs
    <2> TAKE i \in DOMAIN c[t]
    <2>1. c[t][i] \in L
      <3> HIDE DEF Old
      <3> QED BY <1>6 DEF Held
    <2>2. ASSUME NEW k \in 1 .. n, s[k] = c[t][i] PROVE FALSE
      <3>1. k \in DOMAIN b[m] /\ b[m][k] = b[t][Old(t, i)] /\ Old(t, i) \in DOMAIN b[t]
        <4> HIDE DEF Old
        <4> QED BY <2>2, <1>1, <1>5, <1>6
      <3>2. t = m /\ k = Old(t, i)
        <4> HIDE DEF Old
        <4> QED BY <3>1 DEF Held
      <3> QED BY <3>2, <1>7
    <2> QED BY <2>1, <2>2, <1>4
  <1>10. \A i \in DOMAIN p : p[i] \in M
    <2>1. \A k \in 1 .. n : k \in DOMAIN b[m] /\ s[k] = b[m][k]
      BY <1>1, <1>5
    <2>2. \A i \in DOMAIN p : p[i] \in L /\ \A k \in DOMAIN b[m] : p[i] # b[m][k]
      BY DEF Held
    <2> QED BY <2>1, <2>2, <1>4
  <1>11. \A i \in DOMAIN p : \A t \in Msgs : \A j \in DOMAIN c[t] : p[i] # c[t][j]
    <2> HIDE DEF Old
    <2> QED BY <1>6 DEF Held
  <1>12. \A x \in M : \/ \E i \in DOMAIN p : p[i] = x
                      \/ \E t \in Msgs : \E i \in DOMAIN c[t] : c[t][i] = x
    <2> TAKE x \in M
    <2>1. x \in L /\ \A i \in 1 .. n : s[i] # x
      BY <1>4
    <2>2. ASSUME NEW t \in Msgs, NEW k \in DOMAIN b[t], b[t][k] = x
          PROVE  \E u \in Msgs : \E i \in DOMAIN c[u] : c[u][i] = x
      <3>1. CASE t # m
        BY <2>2, <3>1, <1>3
      <3>2. CASE t = m
        <4>1. k \in 1 .. Len(s) /\ k \notin 1 .. n
          BY <2>1, <2>2, <3>2, <1>1, <1>5
        <4>2. k - n \in DOMAIN r /\ r[k - n] = s[k]
          <5>1. k - n \in 1 .. Len(s) - n /\ n + (k - n) = k
            BY <4>1, <1>1
          <5> QED BY <5>1, <1>2
        <4> QED BY <4>2, <2>2, <3>2, <1>3, <1>5
      <3> QED BY <3>1, <3>2
    <2> QED BY <2>1, <2>2 DEF Held
  <1>13. \A i, j \in DOMAIN p : p[i] = p[j] => i = j
    BY DEF Held
  <1>14. Held(p, c, M)
    BY <1>8, <1>9, <1>10, <1>11, <1>12, <1>13 DEF Held
  <1> QED BY <1>14 DEF c, r, M

\* A round ends: the queue's oldest n messages become the task's batch.
LEMMA HeldMove ==
    ASSUME NEW p \in Seq(Msgs), NEW b \in [Msgs -> Seq(Msgs)], NEW L, NEW m \in Msgs,
           NEW n \in 0 .. Len(p), Held(p, b, L), b[m] = <<>>
    PROVE  Held(SubSeq(p, n + 1, Len(p)), [b EXCEPT ![m] = SubSeq(p, 1, n)], L)
  <1> DEFINE q == SubSeq(p, n + 1, Len(p))
             f == SubSeq(p, 1, n)
             c == [b EXCEPT ![m] = f]
  <1>1. Len(p) \in Nat /\ DOMAIN p = 1 .. Len(p) /\ n \in Nat /\ n <= Len(p)
    OBVIOUS
  <1>2. /\ DOMAIN q = 1 .. Len(p) - n
        /\ \A i \in 1 .. Len(p) - n : q[i] = p[n + i]
    BY RestType
  <1>3. DOMAIN f = 1 .. n /\ \A i \in 1 .. n : f[i] = p[i]
    <2>1. f \in Seq(Msgs) /\ Len(f) = (IF 1 <= n THEN n - 1 + 1 ELSE 0)
          /\ \A i \in 1 .. n - 1 + 1 : f[i] = p[1 + i - 1]
      BY <1>1, SliceType
    <2>2. Len(f) = n /\ DOMAIN f = 1 .. Len(f)
      BY <2>1, <1>1
    <2>3. \A i \in 1 .. n : i \in 1 .. n - 1 + 1 /\ 1 + i - 1 = i
      BY <1>1
    <2> QED BY <2>1, <2>2, <2>3
  <1>a. c[m] = f /\ \A t \in Msgs : t # m => c[t] = b[t]
    OBVIOUS
  <1>b. DOMAIN b[m] = {}
    OBVIOUS
  <1>4. c[m] = f /\ DOMAIN b[m] = {} /\ \A t \in Msgs : t # m => c[t] = b[t]
    BY <1>a, <1>b, Zenon
  <1> HIDE DEF q, f, c
  <1>5. \A i \in DOMAIN q : n + i \in DOMAIN p /\ q[i] = p[n + i] /\ n + i \notin 1 .. n /\ i \in Int
    <2> TAKE i \in DOMAIN q
    <2>1. i \in 1 .. Len(p) - n
      BY <1>2
    <2>2. n + i \in 1 .. Len(p) /\ n + i \notin 1 .. n /\ i \in Int
      BY <2>1, <1>1
    <2> QED BY <2>1, <2>2, <1>1, <1>2
  <1>6. \A i \in DOMAIN c[m] : i \in DOMAIN p /\ i \in 1 .. n /\ c[m][i] = p[i]
    <2>1. 1 .. n \subseteq DOMAIN p
      BY <1>1
    <2>2. c[m] = f
      BY <1>4
    <2> QED BY <2>1, <2>2, <1>3
  <1>7. \A i \in DOMAIN q : q[i] \in L
    BY <1>5 DEF Held
  <1>8. \A t \in Msgs : \A i \in DOMAIN c[t] : c[t][i] \in L
    <2> TAKE t \in Msgs
    <2>1. CASE t = m
      BY <2>1, <1>6 DEF Held
    <2>2. CASE t # m
      BY <2>2, <1>4 DEF Held
    <2> QED BY <2>1, <2>2
  <1>9. \A i, j \in DOMAIN q : q[i] = q[j] => i = j
    <2> TAKE i, j \in DOMAIN q
    <2>1. q[i] = q[j] => n + i = n + j
      BY <1>5 DEF Held
    <2> QED BY <2>1, <1>1, <1>5
  <1>10. \A t, u \in Msgs : \A i \in DOMAIN c[t] : \A j \in DOMAIN c[u] :
           c[t][i] = c[u][j] => t = u /\ i = j
    <2> TAKE t, u \in Msgs
    <2> TAKE i \in DOMAIN c[t]
    <2> TAKE j \in DOMAIN c[u]
    <2> HAVE c[t][i] = c[u][j]
    <2>1. CASE t = m /\ u = m
      BY <2>1, <1>6 DEF Held
    <2>2. CASE t = m /\ u # m
      BY <2>2, <1>4, <1>6 DEF Held
    <2>3. CASE t # m /\ u = m
      BY <2>3, <1>4, <1>6 DEF Held
    <2>4. CASE t # m /\ u # m
      BY <2>4, <1>4 DEF Held
    <2> QED BY <2>1, <2>2, <2>3, <2>4
  <1>11. \A i \in DOMAIN q : \A t \in Msgs : \A j \in DOMAIN c[t] : q[i] # c[t][j]
    <2> TAKE i \in DOMAIN q
    <2> TAKE t \in Msgs
    <2> TAKE j \in DOMAIN c[t]
    <2>1. CASE t = m
      <3>1. j \in DOMAIN p /\ j # n + i /\ c[t][j] = p[j]
        BY <2>1, <1>5, <1>6
      <3> QED BY <3>1, <1>5 DEF Held
    <2>2. CASE t # m
      BY <2>2, <1>4, <1>5 DEF Held
    <2> QED BY <2>1, <2>2
  <1>12. \A x \in L : \/ \E i \in DOMAIN q : q[i] = x
                      \/ \E t \in Msgs : \E i \in DOMAIN c[t] : c[t][i] = x
    <2> TAKE x \in L
    <2>1. ASSUME NEW k \in DOMAIN p, p[k] = x
          PROVE  \/ \E i \in DOMAIN q : q[i] = x
                 \/ \E t \in Msgs : \E i \in DOMAIN c[t] : c[t][i] = x
      <3>1. CASE k \in 1 .. n
        <4>1. k \in DOMAIN c[m] /\ c[m][k] = x
          BY <3>1, <2>1, <1>3, <1>4
        <4> QED BY <4>1
      <3>2. CASE k \notin 1 .. n
        <4>1. k - n \in DOMAIN q /\ n + (k - n) = k
          BY <3>2, <1>1, <1>2
        <4> QED BY <4>1, <2>1, <1>5
      <3> QED BY <3>1, <3>2
    <2>2. ASSUME NEW t \in Msgs, NEW i \in DOMAIN b[t], b[t][i] = x
          PROVE  \E u \in Msgs : \E j \in DOMAIN c[u] : c[u][j] = x
      <3>1. t # m /\ c[t] = b[t]
        BY <1>4
      <3> QED BY <2>2, <3>1
    <2> QED BY <2>1, <2>2 DEF Held
  <1>13. Held(q, c, L)
    BY <1>7, <1>8, <1>9, <1>10, <1>11, <1>12 DEF Held
  <1> QED BY <1>13 DEF q, f, c

-----------------------------------------------------------------------------
\* The accepted messages that still wait for their outcome.
Live == {x \in Msgs : x \in ToSet(accepted) /\ outcome[x] = "none"}

\* The places of a task whose message the queue has not seen.
Fresh == {"idle", "resolved", "found", "configured"}

\* The places of a task that carries messages.
Carrying == {"admitted", "waiting", "ready", "turn"}

\* What a task overwrites is empty: it carries messages from its admission, or from
\* a take, to the end of that round only; and nobody settles a message before it
\* was accepted.
HandsAreFree ==
    \A m \in Msgs :
        /\ pc[m] \in Fresh => m \notin ToSet(accepted) /\ outcome[m] = "none"
        /\ pc[m] \notin Carrying => batch[m] = <<>>

\* The inductive invariant behind EachMessageHeldOnce.
HeldInv == Held(pending, batch, Live) /\ HandsAreFree

\* What a turn answers are the first messages of the task's batch.
LEMMA UnitIsFirst ==
    ASSUME TypeOK, NEW m \in Msgs, batch[m] # <<>>
    PROVE  ToSet(Unit(m)) = Firsts(batch[m], Len(Unit(m)))
  <1>1. batch[m] \in Seq(Msgs) /\ Len(batch[m]) \in Nat \ {0} /\ DOMAIN batch[m] = 1 .. Len(batch[m])
    BY DEF TypeOK
  <1>2. CASE Unit(m) = batch[m]
    BY <1>1, <1>2 DEF ToSet, Firsts
  <1>3. CASE Unit(m) = SubSeq(batch[m], 1, 1)
    <2>1. /\ SubSeq(batch[m], 1, 1) \in Seq(Msgs) /\ Len(SubSeq(batch[m], 1, 1)) = 1
          /\ SubSeq(batch[m], 1, 1)[1] = batch[m][1]
      BY <1>1, SliceType
    <2>2. DOMAIN Unit(m) = 1 .. 1 /\ Unit(m)[1] = batch[m][1] /\ Len(Unit(m)) = 1
      BY <2>1, <1>3
    <2>3. ToSet(Unit(m)) = {batch[m][1]} /\ Firsts(batch[m], 1) = {batch[m][1]}
      BY <2>2 DEF ToSet, Firsts
    <2> QED BY <2>2, <2>3
  <1> QED BY <1>2, <1>3 DEF Unit

\* The message a task brings is new to the queue, and is known from then on.
LEMMA AcceptedGrows ==
    ASSUME TypeOK, NEW m \in Msgs, accepted' = Append(accepted, m)
    PROVE  \A x : x \in ToSet(accepted)' <=> (x \in ToSet(accepted) \/ x = m)
  <1>1. accepted \in Seq(Msgs) /\ Len(accepted) \in Nat
    BY DEF TypeOK
  <1>2. /\ DOMAIN accepted = 1 .. Len(accepted) /\ DOMAIN accepted' = 1 .. Len(accepted) + 1
        /\ \A i \in DOMAIN accepted : accepted'[i] = accepted[i]
        /\ accepted'[Len(accepted) + 1] = m
    BY <1>1
  <1> TAKE x
  <1>3. ASSUME NEW i \in DOMAIN accepted', accepted'[i] = x PROVE x \in ToSet(accepted) \/ x = m
    <2>1. i \in DOMAIN accepted \/ i = Len(accepted) + 1
      BY <1>1, <1>2
    <2> QED BY <2>1, <1>2, <1>3 DEF ToSet
  <1>4. ASSUME NEW i \in DOMAIN accepted, accepted[i] = x PROVE x \in ToSet(accepted)'
    <2>1. i \in DOMAIN accepted' /\ accepted'[i] = x
      BY <1>1, <1>2, <1>4
    <2> QED BY <2>1 DEF ToSet
  <1>5. m \in ToSet(accepted)'
    <2>1. Len(accepted) + 1 \in DOMAIN accepted'
      BY <1>1, <1>2
    <2> QED BY <2>1, <1>2 DEF ToSet
  <1>6. x \in ToSet(accepted)' => \E i \in DOMAIN accepted' : accepted'[i] = x
    BY DEF ToSet
  <1>7. x \in ToSet(accepted) => \E i \in DOMAIN accepted : accepted[i] = x
    BY DEF ToSet
  <1> QED BY <1>3, <1>4, <1>5, <1>6, <1>7

\* push_pending, which may evict the oldest messages or refuse the new one.
LEMMA HeldPush ==
    ASSUME TypeOK, HeldInv, NEW m \in Msgs, m \notin ToSet(accepted), outcome[m] = "none",
           PushPending(m), accepted' = Append(accepted, m), UNCHANGED batch
    PROVE  /\ Held(pending, batch, Live)'
           /\ \A x \in Msgs : x # m /\ x \notin ToSet(accepted) => outcome'[x] = outcome[x]
  <1>1. pending \in Seq(Msgs) /\ batch \in [Msgs -> Seq(Msgs)] /\ Held(pending, batch, Live)
    BY DEF TypeOK, HeldInv
  <1>2. \A x : x \in ToSet(accepted)' <=> (x \in ToSet(accepted) \/ x = m)
    BY AcceptedGrows
  <1>3. m \notin Live
    BY DEF Live
  <1>4. CASE ~Full
    <2>1. pending' = Append(pending, m) /\ outcome' = outcome
      BY <1>4 DEF PushPending
    <2>2. Live' = Live \cup {m}
      BY <2>1, <1>2 DEF Live
    <2>3. Held(Append(pending, m), batch, Live \cup {m})
      BY <1>1, <1>3, HeldAppend
    <2> QED BY <2>1, <2>2, <2>3
  <1>5. CASE Full /\ policy = "New"
    <2>1. pending' = pending /\ outcome' = [outcome EXCEPT ![m] = "rejected"]
      BY <1>5 DEF PushPending
    <2>2. outcome'[m] = "rejected" /\ \A x \in Msgs : x # m => outcome'[x] = outcome[x]
      BY <2>1 DEF TypeOK
    <2>3. Live' = Live
      BY <2>2, <1>2 DEF Live
    <2> QED BY <2>1, <2>2, <2>3, <1>1
  <1>6. CASE Full /\ policy # "New"
    <2> USE UsizeMaxAssumption
    <2>1. DropCount \in 1 .. Len(pending) /\ Len(pending) \in Nat
      BY <1>6 DEF DropCount, Full, TypeOK
    <2>2. DropCount \in 0 .. Len(pending)
      BY <2>1
    <2> DEFINE rest == SubSeq(pending, DropCount + 1, Len(pending))
               drop == [x \in Msgs |-> IF x \in ToSet(Evicted) THEN "dropped" ELSE outcome[x]]
    <2>3. pending' = Append(rest, m) /\ outcome' = drop
      BY <1>6, Zenon DEF PushPending
    <2>4. ToSet(Evicted) = Firsts(pending, DropCount)
      <3>1. DropCount \in Nat /\ DropCount <= Len(pending) /\ 1 <= DropCount
        BY <2>1
      <3>2. /\ Evicted \in Seq(Msgs) /\ Len(Evicted) = DropCount - 1 + 1
            /\ \A i \in 1 .. DropCount - 1 + 1 : Evicted[i] = pending[1 + i - 1]
        BY <3>1, <1>1, SliceType DEF Evicted
      <3>3. DOMAIN Evicted = 1 .. DropCount
        BY <3>1, <3>2
      <3>4. \A i \in 1 .. DropCount : Evicted[i] = pending[i]
        <4> TAKE i \in 1 .. DropCount
        <4>1. i \in 1 .. DropCount - 1 + 1 /\ 1 + i - 1 = i
          BY <3>1
        <4> QED BY <3>2, <4>1
      <3> QED BY <3>3, <3>4 DEF ToSet, Firsts
    <2>5. \A x \in Firsts(pending, DropCount) : x \in Live
      <3>1. \A i \in 1 .. DropCount : i \in DOMAIN pending
        BY <2>1, <1>1
      <3> QED BY <3>1, <1>1 DEF Firsts, Held
    <2>6. \A x \in Msgs : outcome'[x] = IF x \in Firsts(pending, DropCount) THEN "dropped" ELSE outcome[x]
      BY <2>3, <2>4
    <2>7. Live' = (Live \ Firsts(pending, DropCount)) \cup {m}
      <3>1. m \notin Firsts(pending, DropCount)
        BY <1>3, <2>5
      <3> QED BY <2>6, <3>1, <1>2 DEF Live
    <2>8. Held(rest, batch, Live \ Firsts(pending, DropCount))
      BY <1>1, <2>2, HeldDrop
    <2>9. rest \in Seq(Msgs)
      BY <1>1, <2>2, RestType
    <2>10. Held(Append(rest, m), batch, (Live \ Firsts(pending, DropCount)) \cup {m})
      <3> HIDE DEF rest
      <3> QED BY <2>8, <2>9, <1>3, HeldAppend
    <2>11. \A x \in Msgs : x \notin ToSet(accepted) => outcome'[x] = outcome[x]
      BY <2>5, <2>6 DEF Live
    <2> QED BY <2>3, <2>7, <2>10, <2>11
  <1> QED BY <1>4, <1>5, <1>6

\* A step that leaves the messages where they are and moves one task on.
LEMMA HeldRest ==
    ASSUME TypeOK, HeldInv, NEW m \in Msgs, NEW q, pc' = [pc EXCEPT ![m] = q],
           q \in Fresh => pc[m] \in Fresh,
           q \notin Carrying => pc[m] \notin Carrying,
           UNCHANGED <<pending, batch, accepted, outcome>>
    PROVE  HeldInv'
  <1>1. Live' = Live
    BY DEF Live
  <1>2. Held(pending, batch, Live)'
    BY <1>1 DEF HeldInv
  <1>3. HandsAreFree'
    BY DEF HandsAreFree, HeldInv, TypeOK
  <1> QED BY <1>2, <1>3 DEF HeldInv

\* Every step keeps every message in exactly one place.
LEMMA HeldStep ==
    ASSUME BaseInv, HeldInv, [Next]_vars
    PROVE  HeldInv'
  <1> USE DEF BaseInv
  <1>0. /\ pending \in Seq(Msgs) /\ batch \in [Msgs -> Seq(Msgs)] /\ Held(pending, batch, Live)
        /\ pc \in [Msgs -> Pcs] /\ HandsAreFree
    BY DEF TypeOK, HeldInv
  <1>1. ASSUME NEW m \in Msgs, ResolveSettings(m) PROVE HeldInv'
    BY <1>1, HeldRest DEF ResolveSettings, Fresh, Carrying, queueVars, historyVars
  <1>2. ASSUME NEW m \in Msgs, GetOrCreateQueue(m) PROVE HeldInv'
    BY <1>2, HeldRest DEF GetOrCreateQueue, Fresh, Carrying, historyVars
  <1>3. ASSUME NEW m \in Msgs, ApplySettings(m) PROVE HeldInv'
    BY <1>3, HeldRest DEF ApplySettings, Fresh, Carrying, historyVars
  <1>4. ASSUME NEW m \in Msgs, Enqueue(m) PROVE HeldInv'
    <2>1. /\ pc[m] = "configured" /\ accepted' = Append(accepted, m)
          /\ RunNow(m) \/ Interrupted(m) \/ Queued(m)
      BY <1>4 DEF Enqueue
    <2>2. m \notin ToSet(accepted) /\ outcome[m] = "none" /\ batch[m] = <<>> /\ m \notin Live
      BY <2>1, <1>0 DEF HandsAreFree, Fresh, Carrying, Live
    <2>3. \A x : x \in ToSet(accepted)' <=> (x \in ToSet(accepted) \/ x = m)
      BY <2>1, AcceptedGrows
    <2>4. CASE RunNow(m)
      <3>1. /\ batch' = [batch EXCEPT ![m] = <<m>>] /\ pc' = [pc EXCEPT ![m] = "admitted"]
            /\ pending' = pending /\ outcome' = outcome
        BY <2>4 DEF RunNow, Admit
      <3>2. Live' = Live \cup {m}
        BY <3>1, <2>2, <2>3 DEF Live
      <3>3. Held(pending, batch, Live)'
        BY <3>1, <3>2, <2>2, <1>0, HeldAdmit
      <3>4. HandsAreFree'
        <4> SUFFICES ASSUME NEW x \in Msgs
                     PROVE  /\ pc'[x] \in Fresh => x \notin ToSet(accepted)' /\ outcome'[x] = "none"
                            /\ pc'[x] \notin Carrying => batch'[x] = <<>>
          BY DEF HandsAreFree
        <4>1. CASE x = m
          BY <4>1, <3>1, <1>0, <2>2 DEF Fresh, Carrying
        <4>2. CASE x # m
          BY <4>2, <3>1, <2>3, <1>0 DEF HandsAreFree
        <4> QED BY <4>1, <4>2
      <3> QED BY <3>3, <3>4 DEF HeldInv
    <2>5. CASE Interrupted(m)
      <3>1. /\ batch' = [batch EXCEPT ![m] = <<m>>] /\ pc' = [pc EXCEPT ![m] = "admitted"]
            /\ pending' = <<>>
            /\ outcome' = [x \in Msgs |-> IF x \in ToSet(pending) THEN "cleared" ELSE outcome[x]]
        BY <2>5 DEF Interrupted, Admit
      <3> DEFINE n == Len(pending)
      <3>2. n \in 0 .. Len(pending) /\ DOMAIN pending = 1 .. n
        BY <1>0
      <3>3. ToSet(pending) = Firsts(pending, n) /\ \A x \in ToSet(pending) : x \in Live
        BY <3>2, <1>0 DEF ToSet, Firsts, Held
      <3>4. SubSeq(pending, n + 1, n) = <<>>
        <4>1. SubSeq(pending, n + 1, n) \in Seq(Msgs) /\ DOMAIN SubSeq(pending, n + 1, n) = 1 .. n - n
          BY <3>2, <1>0, RestType
        <4>2. Len(SubSeq(pending, n + 1, n)) = 0
          BY <4>1, <3>2
        <4> QED BY <4>1, <4>2, EmptySeq
      <3>5. Held(<<>>, batch, Live \ ToSet(pending))
        <4>1. Held(SubSeq(pending, n + 1, n), batch, Live \ Firsts(pending, n))
          BY <3>2, <1>0, HeldDrop
        <4> QED BY <4>1, <3>3, <3>4
      <3>6. Live' = (Live \ ToSet(pending)) \cup {m}
        BY <3>1, <3>3, <2>2, <2>3 DEF Live
      <3>7. Held(pending, batch, Live)'
        BY <3>1, <3>5, <3>6, <2>2, <1>0, HeldAdmit
      <3>8. \A x \in Msgs : x \notin ToSet(accepted) => outcome'[x] = outcome[x]
        BY <3>1, <3>3 DEF Live
      <3>9. HandsAreFree'
        <4> SUFFICES ASSUME NEW x \in Msgs
                     PROVE  /\ pc'[x] \in Fresh => x \notin ToSet(accepted)' /\ outcome'[x] = "none"
                            /\ pc'[x] \notin Carrying => batch'[x] = <<>>
          BY DEF HandsAreFree
        <4>1. CASE x = m
          BY <4>1, <3>1, <1>0, <2>2 DEF Fresh, Carrying
        <4>2. CASE x # m
          BY <4>2, <3>1, <3>8, <2>3, <1>0 DEF HandsAreFree
        <4> QED BY <4>1, <4>2
      <3> QED BY <3>7, <3>9 DEF HeldInv
    <2>6. CASE Queued(m)
      <3>1. PushPending(m) /\ pc' = [pc EXCEPT ![m] = "queued"] /\ batch' = batch
        BY <2>6 DEF Queued
      <3>2. /\ Held(pending, batch, Live)'
            /\ \A x \in Msgs : x # m /\ x \notin ToSet(accepted) => outcome'[x] = outcome[x]
        BY <3>1, <2>1, <2>2, HeldPush
      <3>3. HandsAreFree'
        <4> SUFFICES ASSUME NEW x \in Msgs
                     PROVE  /\ pc'[x] \in Fresh => x \notin ToSet(accepted)' /\ outcome'[x] = "none"
                            /\ pc'[x] \notin Carrying => batch'[x] = <<>>
          BY DEF HandsAreFree
        <4>1. CASE x = m
          BY <4>1, <3>1, <1>0, <2>2 DEF Fresh, Carrying
        <4>2. CASE x # m
          BY <4>2, <3>1, <3>2, <2>3, <1>0 DEF HandsAreFree
        <4> QED BY <4>1, <4>2
      <3> QED BY <3>2, <3>3 DEF HeldInv
    <2> QED BY <2>1, <2>4, <2>5, <2>6
  <1>5. ASSUME NEW m \in Msgs, RequestRunLock(m) PROVE HeldInv'
    BY <1>5, HeldRest DEF RequestRunLock, Fresh, Carrying, queueVars, historyVars
  <1>6. ASSUME NEW m \in Msgs, TakeSummaryPrompt(m) PROVE HeldInv'
    BY <1>6, HeldRest DEF TakeSummaryPrompt, Fresh, Carrying, historyVars
  <1>7. ASSUME NEW m \in Msgs, StartTurn(m) PROVE HeldInv'
    BY <1>7, HeldRest DEF StartTurn, Fresh, Carrying, queueVars, historyVars
  \* a turn ends with the first n messages of the batch, whatever their outcome
  <1>8. ASSUME NEW m \in Msgs, NEW n \in 0 .. Len(batch[m]), NEW q,
               batch' = [batch EXCEPT ![m] = SubSeq(batch[m], n + 1, Len(batch[m]))],
               pc' = [pc EXCEPT ![m] = q], q \notin Fresh, pc[m] = "turn",
               q \notin Carrying => batch'[m] = <<>>,
               \A x \in Msgs : x \notin Firsts(batch[m], n) => outcome'[x] = outcome[x],
               \A x \in Msgs : x \in Firsts(batch[m], n) => outcome'[x] # "none",
               UNCHANGED <<pending, accepted>>
        PROVE  HeldInv'
    <2>1. Live' = Live \ Firsts(batch[m], n)
      BY <1>8 DEF Live
    <2>2. Held(pending, batch, Live)'
      BY <1>8, <2>1, <1>0, HeldAnswer
    <2>3. \A x \in Firsts(batch[m], n) : x \in ToSet(accepted)
      <3>1. \A i \in 1 .. n : i \in DOMAIN batch[m]
        BY <1>8, <1>0
      <3> QED BY <3>1, <1>0 DEF Firsts, Held, Live
    <2>4. HandsAreFree'
      <3> SUFFICES ASSUME NEW x \in Msgs
                   PROVE  /\ pc'[x] \in Fresh => x \notin ToSet(accepted)' /\ outcome'[x] = "none"
                          /\ pc'[x] \notin Carrying => batch'[x] = <<>>
        BY DEF HandsAreFree
      <3>1. CASE x = m
        BY <3>1, <1>8, <1>0 DEF Fresh
      <3>2. CASE x # m
        BY <3>2, <2>3, <1>8, <1>0 DEF HandsAreFree
      <3> QED BY <3>1, <3>2
    <2> QED BY <2>2, <2>4 DEF HeldInv
  <1>9. ASSUME NEW m \in Msgs, TurnReplies(m) PROVE HeldInv'
    <2>1. batch[m] # <<>> /\ pc[m] = "turn"
      BY <1>9 DEF TurnReplies, TaskInv
    <2> DEFINE n == Len(Unit(m))
    <2>2. n \in 0 .. Len(batch[m]) /\ ToSet(Unit(m)) = Firsts(batch[m], n)
      BY <2>1, UnitType, UnitIsFirst
    <2>3. /\ outcome' = [x \in Msgs |-> IF x \in ToSet(Unit(m)) THEN "replied" ELSE outcome[x]]
          /\ batch' = [batch EXCEPT ![m] = SubSeq(batch[m], n + 1, Len(batch[m]))]
          /\ pc' = [pc EXCEPT ![m] = IF batch'[m] = <<>> THEN "settle" ELSE "ready"]
          /\ UNCHANGED <<pending, accepted>>
      BY <1>9 DEF TurnReplies, queueVars
    <2>4. \A x \in Msgs : outcome'[x] = IF x \in Firsts(batch[m], n) THEN "replied" ELSE outcome[x]
      BY <2>2, <2>3
    <2> DEFINE q == IF batch'[m] = <<>> THEN "settle" ELSE "ready"
    <2>5. q \notin Fresh /\ (q \notin Carrying => batch'[m] = <<>>)
      BY DEF Fresh, Carrying
    <2> HIDE DEF n, q
    <2> QED BY <1>8, <2>1, <2>2, <2>3, <2>4, <2>5 DEF q
  <1>10. ASSUME NEW m \in Msgs, TurnFails(m) PROVE HeldInv'
    <2>1. batch[m] # <<>> /\ pc[m] = "turn"
      BY <1>10 DEF TurnFails, TaskInv
    <2> DEFINE n == Len(batch[m])
    <2>2. n \in 0 .. Len(batch[m]) /\ DOMAIN batch[m] = 1 .. n /\ batch[m] \in Seq(Msgs)
      BY <1>0
    <2>3. SubSeq(batch[m], n + 1, n) = <<>>
      <3>1. SubSeq(batch[m], n + 1, n) \in Seq(Msgs) /\ DOMAIN SubSeq(batch[m], n + 1, n) = 1 .. n - n
        BY <2>2, RestType
      <3>2. Len(SubSeq(batch[m], n + 1, n)) = 0
        BY <3>1, <2>2
      <3> QED BY <3>1, <3>2, EmptySeq
    <2>4. ToSet(batch[m]) = Firsts(batch[m], n)
      BY <2>2 DEF ToSet, Firsts
    <2>5. ToSet(Unit(m)) \subseteq ToSet(batch[m])
      <3>1. ToSet(Unit(m)) = Firsts(batch[m], Len(Unit(m))) /\ Len(Unit(m)) \in 1 .. n
        BY <2>1, UnitType, UnitIsFirst
      <3>2. 1 .. Len(Unit(m)) \subseteq 1 .. n
        BY <3>1, <2>2
      <3> QED BY <3>1, <3>2, <2>4 DEF Firsts
    <2>6. /\ outcome' = [x \in Msgs |-> IF x \in ToSet(Unit(m)) THEN "failed"
                                        ELSE IF x \in ToSet(batch[m]) THEN "abandoned"
                                        ELSE outcome[x]]
          /\ batch' = [batch EXCEPT ![m] = <<>>] /\ pc' = [pc EXCEPT ![m] = "failed"]
          /\ UNCHANGED <<pending, accepted>>
      BY <1>10 DEF TurnFails, queueVars
    <2>7. /\ \A x \in Msgs : x \notin Firsts(batch[m], n) => outcome'[x] = outcome[x]
          /\ \A x \in Msgs : x \in Firsts(batch[m], n) => outcome'[x] # "none"
      BY <2>4, <2>5, <2>6
    <2>8. "failed" \notin Fresh /\ batch'[m] = <<>>
      BY <2>6, <1>0 DEF Fresh
    <2>9. batch' = [batch EXCEPT ![m] = SubSeq(batch[m], n + 1, n)]
      BY <2>3, <2>6
    <2> QED BY <1>8, <2>1, <2>2, <2>6, <2>7, <2>8, <2>9
  <1>11. ASSUME NEW m \in Msgs, Settle(m) PROVE HeldInv'
    <2>1. \E q \in {"window", "next"} : pc' = [pc EXCEPT ![m] = q]
      BY <1>11, Zenon DEF Settle
    <2> QED BY <1>11, <2>1, HeldRest DEF Settle, Fresh, Carrying, historyVars
  <1>12. ASSUME NEW m \in Msgs, NEW n \in 0 .. Len(pending), NEW active,
                pc[m] \in {"window", "next"}, TakeBatch(m, n, active)
         PROVE  HeldInv'
    <2>1. batch[m] = <<>>
      BY <1>12, <1>0 DEF HandsAreFree, Carrying
    <2>2. /\ batch' = [batch EXCEPT ![m] = SubSeq(pending, 1, n)]
          /\ pending' = SubSeq(pending, n + 1, Len(pending))
          /\ accepted' = accepted /\ outcome' = outcome
          /\ pc' = [pc EXCEPT ![m] = IF pending = <<>> THEN "done" ELSE "waiting"]
      BY <1>12 DEF TakeBatch, historyVars
    <2>3. Live' = Live
      BY <2>2 DEF Live
    <2>4. Held(pending, batch, Live)'
      BY <1>12, <2>1, <2>2, <2>3, <1>0, HeldMove
    <2>a. pending = <<>> => SubSeq(pending, 1, n) = <<>>
      <3> HAVE pending = <<>>
      <3>1. n = 0
        BY <1>12
      <3>2. SubSeq(pending, 1, 0) \in Seq(Msgs) /\ Len(SubSeq(pending, 1, 0)) = 0
        BY <1>0, SliceType
      <3> QED BY <3>1, <3>2, EmptySeq
    <2>5. HandsAreFree'
      <3> SUFFICES ASSUME NEW x \in Msgs
                   PROVE  /\ pc'[x] \in Fresh => x \notin ToSet(accepted)' /\ outcome'[x] = "none"
                          /\ pc'[x] \notin Carrying => batch'[x] = <<>>
        BY DEF HandsAreFree
      <3>1. CASE x = m
        BY <3>1, <2>2, <2>a, <1>0 DEF Fresh, Carrying
      <3>2. CASE x # m
        BY <3>2, <2>2, <1>0 DEF HandsAreFree
      <3> QED BY <3>1, <3>2
    <2> QED BY <2>4, <2>5 DEF HeldInv
  <1>13. ASSUME NEW m \in Msgs, TakeCollectBatch(m) PROVE HeldInv'
    <2>1. Len(pending) \in 0 .. Len(pending)
      BY <1>0
    <2> QED BY <1>12, <1>13, <2>1 DEF TakeCollectBatch
  <1>14. ASSUME NEW m \in Msgs, CompleteAndTakeNext(m) PROVE HeldInv'
    <2> DEFINE n == IF pending = <<>> THEN 0 ELSE 1
    <2>1. n \in 0 .. Len(pending)
      BY <1>0
    <2> QED BY <1>12, <1>14, <2>1 DEF CompleteAndTakeNext
  <1>15. CASE UNCHANGED vars
    BY <1>15 DEF HeldInv, Held, Live, HandsAreFree, vars, queueVars, taskVars, historyVars
  <1> QED BY <1>1, <1>2, <1>3, <1>4, <1>5, <1>6, <1>7, <1>9, <1>10, <1>11, <1>13, <1>14, <1>15
          DEF Next, Step, Quiescent

\* A sequence that holds no message twice is no longer than there are messages.
LEMMA DistinctIsShort ==
    ASSUME NEW s \in Seq(Msgs), \A i, j \in DOMAIN s : s[i] = s[j] => i = j
    PROVE  Cardinality(Msgs) \in Nat /\ Len(s) <= Cardinality(Msgs)
  <1> DEFINE D == 1 .. Len(s)
  <1>1. Len(s) \in Nat /\ DOMAIN s = D /\ s \in [D -> Msgs]
    OBVIOUS
  <1>2. s \in Injection(D, Msgs)
    <2> HIDE DEF D
    <2> QED BY <1>1 DEF Injection, IsInjective
  <1>3. Cardinality(D) <= Cardinality(Msgs)
    BY <1>2, MsgsAssumption, FS_Injection
  <1>4. Cardinality(D) = Len(s)
    BY <1>1, FS_Interval
  <1>5. Cardinality(Msgs) \in Nat
    BY MsgsAssumption, FS_CardinalityType
  <1> QED BY <1>3, <1>4, <1>5

\* A message that is held once has one copy, any other none.
LEMMA HeldCounts ==
    ASSUME TypeOK, HeldInv
    PROVE  EachMessageHeldOnce
  <1> DEFINE N == Cardinality(Msgs)
             Q(x) == {i \in DOMAIN pending : pending[i] = x}
             B(x) == {slot \in Msgs \X (1 .. N) :
                         slot[2] \in DOMAIN batch[slot[1]] /\ batch[slot[1]][slot[2]] = x}
  <1>1. /\ Held(pending, batch, Live) /\ pending \in Seq(Msgs) /\ batch \in [Msgs -> Seq(Msgs)]
    BY DEF HeldInv, TypeOK
  <1>2. \A t \in Msgs : DOMAIN batch[t] \subseteq 1 .. N
    <2> TAKE t \in Msgs
    <2>1. batch[t] \in Seq(Msgs) /\ Len(batch[t]) \in Nat /\ DOMAIN batch[t] = 1 .. Len(batch[t])
      BY <1>1
    <2>2. \A i, j \in DOMAIN batch[t] : batch[t][i] = batch[t][j] => i = j
      BY <1>1 DEF Held
    <2>3. N \in Nat /\ Len(batch[t]) <= N
      BY <2>1, <2>2, DistinctIsShort
    <2> QED BY <2>1, <2>3
  <1> SUFFICES ASSUME NEW x \in Msgs
               PROVE  Copies(x) = IF x \in Live THEN 1 ELSE 0
    BY DEF EachMessageHeldOnce, Live
  <1>3. Copies(x) = Cardinality(Q(x)) + Cardinality(B(x))
    BY DEF Copies
  <1>4. Cardinality({}) = 0 /\ \A y : Cardinality({y}) = 1
    BY FS_EmptySet, FS_Singleton
  <1>5. CASE x \notin Live
    <2>1. Q(x) = {} /\ B(x) = {}
      BY <1>1, <1>5 DEF Held
    <2>2. Copies(x) = 0 + 0
      BY <2>1, <1>3, <1>4, Zenon
    <2> QED BY <2>2, <1>5
  <1>6. CASE x \in Live
    <2>1. CASE \E k \in DOMAIN pending : pending[k] = x
      <3>1. PICK k \in DOMAIN pending : pending[k] = x
        BY <2>1
      <3>2. Q(x) = {k}
        BY <3>1, <1>1 DEF Held
      <3>3. B(x) = {}
        BY <3>1, <1>1 DEF Held
      <3>4. Copies(x) = 1 + 0
        BY <3>2, <3>3, <1>3, <1>4, Zenon
      <3> QED BY <3>4, <1>6
    <2>2. CASE \E t \in Msgs : \E k \in DOMAIN batch[t] : batch[t][k] = x
      <3>0. PICK t \in Msgs : \E k \in DOMAIN batch[t] : batch[t][k] = x
        BY <2>2
      <3>1. PICK k \in DOMAIN batch[t] : batch[t][k] = x
        BY <3>0
      <3>2. Q(x) = {}
        BY <3>1, <1>1 DEF Held
      <3>3. B(x) = {<<t, k>>}
        <4>1. k \in 1 .. N
          BY <1>2
        <4>2. <<t, k>> \in B(x)
          BY <3>1, <4>1
        <4>3. \A slot \in B(x) : slot = <<t, k>>
          <5> TAKE slot \in B(x)
          <5>1. /\ slot[1] \in Msgs /\ slot[2] \in DOMAIN batch[slot[1]] /\ batch[slot[1]][slot[2]] = x
                /\ slot = <<slot[1], slot[2]>>
            OBVIOUS
          <5>2. slot[1] = t /\ slot[2] = k
            BY <5>1, <3>1, <1>1 DEF Held
          <5> QED BY <5>1, <5>2
        <4> HIDE DEF B
        <4> QED BY <4>2, <4>3
      <3>4. Copies(x) = 0 + 1
        BY <3>2, <3>3, <1>3, <1>4, Zenon
      <3> QED BY <3>4, <1>6
    <2> QED BY <1>1, <1>6, <2>1, <2>2 DEF Held
  <1> QED BY <1>5, <1>6

\* Both inductive invariants hold in every state.
LEMMA HeldInvariant == Spec => [](BaseInv /\ HeldInv)
  <1>1. Init => HeldInv
    <2> SUFFICES ASSUME Init PROVE HeldInv
      OBVIOUS
    <2>1. /\ pending = <<>> /\ accepted = <<>> /\ batch = [m \in Msgs |-> <<>>]
          /\ outcome = [m \in Msgs |-> "none"]
      BY DEF Init
    <2>2. Live = {} /\ ToSet(accepted) = {}
      BY <2>1 DEF Live, ToSet
    <2>3. Held(pending, batch, Live)
      BY <2>1, <2>2 DEF Held
    <2>4. HandsAreFree
      BY <2>1, <2>2 DEF HandsAreFree
    <2> QED BY <2>3, <2>4 DEF HeldInv
  <1>2. BaseInv /\ HeldInv /\ [Next]_vars => HeldInv'
    BY HeldStep
  <1> QED BY <1>1, <1>2, BaseInvariant, PTL DEF Spec

\* Conservation of messages, for every configuration, failing turns and change of
\* settings included: each accepted message without an outcome is held in exactly
\* one slot of the queue or of one task's batch, a settled one in none.  Nothing
\* process_message or the queue does loses a message silently or answers one twice.
THEOREM MessagesAreConserved == Spec => []EachMessageHeldOnce
  <1>1. BaseInv /\ HeldInv => EachMessageHeldOnce
    BY HeldCounts DEF BaseInv
  <1> QED BY <1>1, HeldInvariant, PTL

-----------------------------------------------------------------------------
(* Answers leave in the order of arrival.                                    *)

\* x was accepted before y.
Before(acc, x, y) == \E i, j \in DOMAIN acc : i < j /\ acc[i] = x /\ acc[j] = y

\* The messages of s stand in the order of their acceptance.
Ordered(acc, s) == \A i, j \in DOMAIN s : i < j => Before(acc, s[i], s[j])

\* Every message of s was accepted before every message of u.
Ahead(acc, s, u) == \A i \in DOMAIN s : \A j \in DOMAIN u : Before(acc, s[i], u[j])

\* The inductive invariant behind RepliesInArrivalOrder: the answered messages come
\* before the batch of the runner, and the batch before the queue.
OrderInv ==
    /\ \A i, j \in DOMAIN accepted : accepted[i] = accepted[j] => i = j
    /\ \A i \in DOMAIN replies : replies[i] \in ToSet(accepted)
    /\ Ordered(accepted, replies) /\ Ordered(accepted, pending)
    /\ Ahead(accepted, replies, pending)
    /\ \A t \in Msgs : /\ Ordered(accepted, batch[t])
                       /\ Ahead(accepted, replies, batch[t])
                       /\ Ahead(accepted, batch[t], pending)

\* A message that joins comes after all the others, whose order stays.
LEMMA BeforeGrows ==
    ASSUME NEW acc \in Seq(Msgs), NEW m \in Msgs
    PROVE  /\ \A x, y : Before(acc, x, y) => Before(Append(acc, m), x, y)
           /\ \A x \in ToSet(acc) : Before(Append(acc, m), x, m)
  <1> DEFINE new == Append(acc, m)
  <1>1. /\ Len(acc) \in Nat /\ DOMAIN acc = 1 .. Len(acc) /\ DOMAIN new = 1 .. Len(acc) + 1
        /\ \A i \in DOMAIN acc : new[i] = acc[i]
        /\ new[Len(acc) + 1] = m
    OBVIOUS
  <1> HIDE DEF new
  <1>2. DOMAIN acc \subseteq DOMAIN new /\ Len(acc) + 1 \in DOMAIN new
        /\ \A i \in DOMAIN acc : i < Len(acc) + 1
    BY <1>1
  <1>3. ASSUME NEW x, NEW y, Before(acc, x, y) PROVE Before(new, x, y)
    <2>1. PICK i, j \in DOMAIN acc : i < j /\ acc[i] = x /\ acc[j] = y
      BY <1>3 DEF Before
    <2>2. i \in DOMAIN new /\ j \in DOMAIN new /\ new[i] = x /\ new[j] = y
      BY <2>1, <1>1, <1>2
    <2> QED BY <2>1, <2>2 DEF Before
  <1>4. ASSUME NEW x \in ToSet(acc) PROVE Before(new, x, m)
    <2>1. PICK i \in DOMAIN acc : acc[i] = x
      BY DEF ToSet
    <2>2. i \in DOMAIN new /\ new[i] = x /\ i < Len(acc) + 1
      BY <2>1, <1>1, <1>2
    <2> QED BY <2>2, <1>1, <1>2 DEF Before
  <1> QED BY <1>3, <1>4 DEF new

\* Moving the front of one sequence to the end of the other, in order.
LEMMA OrderedMove ==
    ASSUME NEW acc, NEW r \in Seq(Msgs), NEW s \in Seq(Msgs), NEW n \in 0 .. Len(s),
           NEW f \in Seq(Msgs), Len(f) = n, \A i \in 1 .. n : f[i] = s[i],
           Ordered(acc, r), Ordered(acc, s), Ahead(acc, r, s)
    PROVE  /\ Ordered(acc, f) /\ Ordered(acc, r \o f)
           /\ Ordered(acc, SubSeq(s, n + 1, Len(s)))
           /\ Ahead(acc, r \o f, SubSeq(s, n + 1, Len(s)))
           /\ Ahead(acc, f, SubSeq(s, n + 1, Len(s)))
           /\ Ahead(acc, r, SubSeq(s, n + 1, Len(s)))
           /\ Ahead(acc, r, f)
  <1> DEFINE q == SubSeq(s, n + 1, Len(s))
             c == r \o f
  <1>1. DOMAIN q = 1 .. Len(s) - n /\ \A i \in 1 .. Len(s) - n : q[i] = s[n + i]
    BY RestType
  <1>2. /\ Len(r) \in Nat /\ Len(s) \in Nat /\ n \in Nat /\ n <= Len(s)
        /\ DOMAIN r = 1 .. Len(r) /\ DOMAIN s = 1 .. Len(s) /\ DOMAIN f = 1 .. n
    OBVIOUS
  <1>3. /\ DOMAIN c = 1 .. Len(r) + n
        /\ \A i \in 1 .. Len(r) : c[i] = r[i]
        /\ \A i \in DOMAIN c : i > Len(r) => c[i] = f[i - Len(r)]
    <2>1. /\ c \in Seq(Msgs) /\ Len(c) = Len(r) + n
          /\ \A i \in 1 .. Len(r) + n : c[i] = IF i <= Len(r) THEN r[i] ELSE f[i - Len(r)]
      BY ConcatProperties
    <2> QED BY <2>1, <1>2
  <1> HIDE DEF q, c
  <1>4. \A i \in DOMAIN q : n + i \in DOMAIN s /\ q[i] = s[n + i] /\ n + i > n /\ i \in Int
    BY <1>1, <1>2
  <1>5. \A i \in DOMAIN f : i \in DOMAIN s /\ f[i] = s[i] /\ i <= n /\ i \in Int
    BY <1>2
  <1>6. \A i \in DOMAIN c : \/ (i \in DOMAIN r /\ c[i] = r[i])
                            \/ (i \notin DOMAIN r /\ i - Len(r) \in DOMAIN f /\ c[i] = f[i - Len(r)])
    <2> TAKE i \in DOMAIN c
    <2>1. CASE i <= Len(r)
      <3>1. i \in DOMAIN r
        BY <2>1, <1>2, <1>3
      <3> QED BY <3>1, <1>2, <1>3
    <2>2. CASE i > Len(r)
      <3>1. i - Len(r) \in DOMAIN f /\ i \notin DOMAIN r
        BY <2>2, <1>2, <1>3
      <3> QED BY <2>2, <3>1, <1>3
    <2>3. i \in Int
      BY <1>3
    <2> QED BY <2>1, <2>2, <2>3, <1>2
  <1>7. Ordered(acc, f)
    BY <1>5 DEF Ordered
  <1>8. Ordered(acc, q)
    <2> SUFFICES ASSUME NEW i \in DOMAIN q, NEW j \in DOMAIN q, i < j PROVE Before(acc, q[i], q[j])
      BY DEF Ordered
    <2>1. n + i < n + j /\ n + i \in DOMAIN s /\ n + j \in DOMAIN s
      BY <1>2, <1>4
    <2> QED BY <2>1, <1>4 DEF Ordered
  <1>9. Ahead(acc, f, q)
    <2> SUFFICES ASSUME NEW i \in DOMAIN f, NEW j \in DOMAIN q PROVE Before(acc, f[i], q[j])
      BY DEF Ahead
    <2>1. i < n + j /\ i \in DOMAIN s /\ n + j \in DOMAIN s
      BY <1>2, <1>4, <1>5
    <2> QED BY <2>1, <1>4, <1>5 DEF Ordered
  <1>10. Ahead(acc, r, q) /\ Ahead(acc, r, f)
    BY <1>4, <1>5 DEF Ahead
  <1>11. Ahead(acc, c, q)
    <2> SUFFICES ASSUME NEW i \in DOMAIN c, NEW j \in DOMAIN q PROVE Before(acc, c[i], q[j])
      BY DEF Ahead
    <2> QED BY <1>6, <1>9, <1>10 DEF Ahead
  <1>12. Ordered(acc, c)
    <2> SUFFICES ASSUME NEW i \in DOMAIN c, NEW j \in DOMAIN c, i < j PROVE Before(acc, c[i], c[j])
      BY DEF Ordered
    <2>1. CASE i \in DOMAIN r /\ j \in DOMAIN r
      BY <2>1, <1>6 DEF Ordered
    <2>2. CASE i \in DOMAIN r /\ j \notin DOMAIN r
      BY <2>2, <1>6, <1>10 DEF Ahead
    <2>3. CASE i \notin DOMAIN r /\ j \notin DOMAIN r
      <3>1. i - Len(r) \in DOMAIN f /\ j - Len(r) \in DOMAIN f /\ i - Len(r) < j - Len(r)
        BY <2>3, <1>2, <1>3, <1>6
      <3> QED BY <2>3, <3>1, <1>6, <1>7 DEF Ordered
    <2>4. CASE i \notin DOMAIN r /\ j \in DOMAIN r
      BY <2>4, <1>2, <1>3
    <2> QED BY <2>1, <2>2, <2>3, <2>4
  <1> QED BY <1>7, <1>8, <1>9, <1>10, <1>11, <1>12 DEF q, c

\* A queue that loses its front and gains a message accepted just now stays in order.
LEMMA OrderedPush ==
    ASSUME NEW acc \in Seq(Msgs), NEW r, NEW s \in Seq(Msgs), NEW m \in Msgs,
           Ordered(acc, s), Ahead(acc, r, s),
           \A i \in DOMAIN r : r[i] \in ToSet(acc), \A i \in DOMAIN s : s[i] \in ToSet(acc)
    PROVE  /\ Ordered(Append(acc, m), Append(s, m))
           /\ Ahead(Append(acc, m), r, Append(s, m))
  <1> DEFINE new == Append(acc, m)
             q == Append(s, m)
  <1>1. /\ Len(s) \in Nat /\ DOMAIN s = 1 .. Len(s) /\ DOMAIN q = 1 .. Len(s) + 1
        /\ \A i \in DOMAIN s : q[i] = s[i]
        /\ q[Len(s) + 1] = m
    OBVIOUS
  <1>2. /\ \A x, y : Before(acc, x, y) => Before(new, x, y)
        /\ \A x \in ToSet(acc) : Before(new, x, m)
    BY BeforeGrows
  <1> HIDE DEF new, q
  <1>3. \A i \in DOMAIN q : (i \in DOMAIN s /\ q[i] = s[i]) \/ (i = Len(s) + 1 /\ q[i] = m)
    BY <1>1
  <1>4. Ordered(new, q)
    <2> SUFFICES ASSUME NEW i \in DOMAIN q, NEW j \in DOMAIN q, i < j PROVE Before(new, q[i], q[j])
      BY DEF Ordered
    <2>1. i \in DOMAIN s
      BY <1>1
    <2>2. CASE j \in DOMAIN s
      BY <2>1, <2>2, <1>2, <1>3, <1>1 DEF Ordered
    <2>3. CASE q[j] = m
      BY <2>1, <2>3, <1>2, <1>1
    <2> QED BY <2>2, <2>3, <1>3
  <1>5. Ahead(new, r, q)
    <2> SUFFICES ASSUME NEW i \in DOMAIN r, NEW j \in DOMAIN q PROVE Before(new, r[i], q[j])
      BY DEF Ahead
    <2>1. CASE j \in DOMAIN s /\ q[j] = s[j]
      BY <2>1, <1>2 DEF Ahead
    <2>2. CASE q[j] = m
      BY <2>2, <1>2
    <2> QED BY <2>1, <2>2, <1>3
  <1> QED BY <1>4, <1>5 DEF new, q

\* Every step keeps answers, batch and queue in the order of acceptance.
LEMMA OrderStep ==
    ASSUME MayFail = {}, BaseInv, HeldInv, RunnerInv, NoOrphanedQueue, OrderInv, [Next]_vars
    PROVE  OrderInv'
  <1>0. /\ pending \in Seq(Msgs) /\ batch \in [Msgs -> Seq(Msgs)] /\ replies \in Seq(Msgs)
        /\ accepted \in Seq(Msgs) /\ pc \in [Msgs -> Pcs] /\ TypeOK
        /\ Held(pending, batch, Live) /\ HandsAreFree
    BY DEF BaseInv, TypeOK, HeldInv
  <1>a. /\ \A i \in DOMAIN pending : pending[i] \in ToSet(accepted)
        /\ \A t \in Msgs : \A i \in DOMAIN batch[t] : batch[t][i] \in ToSet(accepted)
    BY <1>0 DEF Held, Live
  \* only the runner carries messages
  <1>b. \A m, t \in Msgs : Active(m) /\ t # m => DOMAIN batch[t] = {}
    <2> SUFFICES ASSUME NEW m \in Msgs, NEW t \in Msgs, Active(m), t # m PROVE DOMAIN batch[t] = {}
      OBVIOUS
    <2>1. pc[t] \notin Carrying
      BY DEF RunnerInv, OneRunner, Active, Carrying
    <2>2. batch[t] = <<>>
      BY <2>1, <1>0 DEF HandsAreFree
    <2> QED BY <2>2
  <1>c. DOMAIN <<>> = {}
    OBVIOUS
  <1>1. CASE UNCHANGED <<accepted, replies, pending, batch>>
    BY <1>1 DEF OrderInv
  <1>2. ASSUME NEW m \in Msgs, Enqueue(m) PROVE OrderInv'
    <2>1. /\ pc[m] = "configured" /\ accepted' = Append(accepted, m) /\ replies' = replies
          /\ RunNow(m) \/ Interrupted(m) \/ Queued(m)
      BY <1>2 DEF Enqueue
    <2>2. m \notin ToSet(accepted)
      BY <2>1, <1>0 DEF HandsAreFree, Fresh
    <2>3. /\ \A x, y : Before(accepted, x, y) => Before(accepted', x, y)
          /\ \A x \in ToSet(accepted) : Before(accepted', x, m)
      BY <2>1, <1>0, BeforeGrows
    <2>4. \A i, j \in DOMAIN accepted' : accepted'[i] = accepted'[j] => i = j
      <3>1. /\ Len(accepted) \in Nat /\ DOMAIN accepted = 1 .. Len(accepted)
            /\ DOMAIN accepted' = 1 .. Len(accepted) + 1
            /\ \A i \in DOMAIN accepted : accepted'[i] = accepted[i]
            /\ accepted'[Len(accepted) + 1] = m
        BY <2>1, <1>0
      <3>2. \A i \in DOMAIN accepted' : i \in DOMAIN accepted \/ i = Len(accepted) + 1
        BY <3>1
      <3>3. \A i \in DOMAIN accepted : accepted[i] # m
        BY <2>2 DEF ToSet
      <3>4. \A i, j \in DOMAIN accepted : accepted[i] = accepted[j] => i = j
        BY DEF OrderInv
      <3> QED BY <3>1, <3>2, <3>3, <3>4
    <2>5. \A i \in DOMAIN replies : replies[i] \in ToSet(accepted) /\ replies[i] \in ToSet(accepted)'
      <3>1. \A x : x \in ToSet(accepted)' <=> (x \in ToSet(accepted) \/ x = m)
        BY <2>1, <1>0, AcceptedGrows
      <3> QED BY <3>1 DEF OrderInv
    <2>6. Ordered(accepted', replies) /\ \A t \in Msgs : Ordered(accepted', batch[t])
      BY <2>3 DEF OrderInv, Ordered
    <2>7. \A t \in Msgs : Ahead(accepted', replies, batch[t])
      BY <2>3 DEF OrderInv, Ahead
    <2>8. CASE RunNow(m)
      <3>1. batch' = [batch EXCEPT ![m] = <<m>>] /\ pending' = pending /\ ~hasActiveRun
        BY <2>8 DEF RunNow, Admit
      <3>2. pending = <<>> /\ \A t \in Msgs : pc[t] \notin Carrying
        BY <3>1 DEF RunnerInv, OneRunner, NoOrphanedQueue, Active, Carrying
      <3>3. batch'[m] = <<m>> /\ \A t \in Msgs : t # m => batch'[t] = batch[t]
        BY <3>1, <1>0
      <3>4. DOMAIN <<m>> = {1} /\ <<m>>[1] = m
        OBVIOUS
      <3>5. Ordered(accepted', <<m>>) /\ Ahead(accepted', replies, <<m>>)
        BY <3>4, <2>3, <2>5 DEF Ordered, Ahead
      <3>6. DOMAIN pending' = {}
        BY <3>1, <3>2
      <3>7. /\ Ordered(accepted', pending') /\ Ahead(accepted', replies, pending')
            /\ \A t \in Msgs : Ahead(accepted', batch'[t], pending')
        BY <3>6 DEF Ordered, Ahead
      <3>8. \A t \in Msgs : Ordered(accepted', batch'[t]) /\ Ahead(accepted', replies, batch'[t])
        BY <3>3, <3>5, <2>6, <2>7
      <3> QED BY <2>1, <2>4, <2>5, <2>6, <3>7, <3>8 DEF OrderInv
    <2>9. CASE Queued(m)
      <3>1. PushPending(m) /\ batch' = batch
        BY <2>9 DEF Queued
      <3>2. CASE pending' = pending
        <4>1. /\ Ordered(accepted', pending) /\ Ahead(accepted', replies, pending)
              /\ \A t \in Msgs : Ahead(accepted', batch[t], pending)
          BY <2>3 DEF OrderInv, Ordered, Ahead
        <4> QED BY <2>1, <2>4, <2>5, <2>6, <2>7, <3>1, <3>2, <4>1 DEF OrderInv
      <3>3. ASSUME NEW n \in 0 .. Len(pending),
                   pending' = Append(SubSeq(pending, n + 1, Len(pending)), m)
            PROVE  OrderInv'
        <4> DEFINE rest == SubSeq(pending, n + 1, Len(pending))
        <4>1. /\ rest \in Seq(Msgs) /\ DOMAIN rest = 1 .. Len(pending) - n
              /\ \A i \in 1 .. Len(pending) - n : rest[i] = pending[n + i]
          BY <1>0, RestType
        <4>2. n \in Nat /\ Len(pending) \in Nat /\ DOMAIN pending = 1 .. Len(pending)
          BY <1>0
        <4> HIDE DEF rest
        <4>3. \A i \in DOMAIN rest : n + i \in DOMAIN pending /\ rest[i] = pending[n + i] /\ i \in Int
          BY <4>1, <4>2
        <4>4. \A i \in DOMAIN rest : rest[i] \in ToSet(accepted)
          BY <4>3, <1>a
        <4>5. Ordered(accepted, rest)
          <5> SUFFICES ASSUME NEW i \in DOMAIN rest, NEW j \in DOMAIN rest, i < j
                       PROVE  Before(accepted, rest[i], rest[j])
            BY DEF Ordered
          <5>1. n + i < n + j
            BY <4>2, <4>3
          <5> QED BY <5>1, <4>3 DEF OrderInv, Ordered
        <4>6. Ahead(accepted, replies, rest) /\ \A t \in Msgs : Ahead(accepted, batch[t], rest)
          BY <4>3 DEF OrderInv, Ahead
        <4>7. Ordered(accepted', pending') /\ Ahead(accepted', replies, pending')
          BY <3>3, <4>1, <4>4, <4>5, <4>6, <2>1, <2>5, <1>0, OrderedPush DEF rest
        <4>8. \A t \in Msgs : Ahead(accepted', batch[t], pending')
          <5> TAKE t \in Msgs
          <5>1. \A i \in DOMAIN batch[t] : batch[t][i] \in ToSet(accepted)
            BY <1>a
          <5>2. Ahead(accepted, batch[t], rest)
            BY <4>6
          <5> QED BY <3>3, <5>1, <5>2, <4>1, <4>4, <4>5, <2>1, <1>0, OrderedPush DEF rest
        <4> QED BY <2>1, <2>4, <2>5, <2>6, <2>7, <3>1, <4>7, <4>8 DEF OrderInv
      <3>4. CASE ~Full
        <4>1. pending' = Append(pending, m) /\ Len(pending) \in Nat /\ 0 \in 0 .. Len(pending)
          BY <3>1, <3>4, <1>0 DEF PushPending
        <4>2. SubSeq(pending, 0 + 1, Len(pending)) = pending
          BY <1>0
        <4> QED BY <3>3, <4>1, <4>2
      <3>5. CASE Full /\ policy = "New"
        BY <3>1, <3>2, <3>5 DEF PushPending
      <3>6. CASE Full /\ policy # "New"
        <4>1. DropCount \in 0 .. Len(pending)
          BY <3>6, <1>0, UsizeMaxAssumption DEF DropCount, Full, TypeOK
        <4>2. pending' = Append(SubSeq(pending, DropCount + 1, Len(pending)), m)
          BY <3>1, <3>6, Zenon DEF PushPending
        <4> QED BY <3>3, <4>1, <4>2
      <3> QED BY <3>4, <3>5, <3>6
    <2>10. ~Interrupted(m)
      BY DEF Interrupted, RunnerInv, Queueing
    <2> QED BY <2>1, <2>8, <2>9, <2>10
  <1>3. ASSUME NEW m \in Msgs, TurnReplies(m) PROVE OrderInv'
    <2>1. batch[m] # <<>> /\ pc[m] = "turn" /\ Active(m)
      BY <1>3 DEF TurnReplies, BaseInv, TaskInv, Active
    <2> DEFINE f == Unit(m)
               n == Len(Unit(m))
               rest == SubSeq(batch[m], n + 1, Len(batch[m]))
    <2>2. f \in Seq(Msgs) /\ n \in 0 .. Len(batch[m]) /\ batch[m] \in Seq(Msgs)
      BY <2>1, <1>0, UnitType
    <2>3. \A i \in 1 .. n : f[i] = batch[m][i]
      <3>1. CASE f = batch[m]
        BY <3>1
      <3>2. CASE f = SubSeq(batch[m], 1, 1)
        <4>1. /\ Len(SubSeq(batch[m], 1, 1)) = 1 /\ SubSeq(batch[m], 1, 1)[1] = batch[m][1]
          <5>1. 1 \in Nat \ {0} /\ 1 <= Len(batch[m])
            BY <2>1, <2>2
          <5> QED BY <5>1, <2>2, SliceType
        <4>2. n = 1
          BY <4>1, <3>2
        <4> QED BY <4>1, <4>2, <3>2
      <3> QED BY <3>1, <3>2 DEF Unit
    <2>4. /\ replies' = replies \o f /\ batch' = [batch EXCEPT ![m] = rest]
          /\ accepted' = accepted /\ pending' = pending
      BY <1>3 DEF TurnReplies, queueVars
    <2>5. batch'[m] = rest /\ \A t \in Msgs : t # m => batch'[t] = batch[t] /\ DOMAIN batch[t] = {}
      BY <2>1, <2>4, <1>0, <1>b
    <2>6. Ordered(accepted, replies) /\ Ordered(accepted, batch[m]) /\ Ahead(accepted, replies, batch[m])
      BY DEF OrderInv
    <2>7. /\ Ordered(accepted, replies \o f) /\ Ordered(accepted, rest)
          /\ Ahead(accepted, replies \o f, rest)
      <3> HIDE DEF f
      <3> QED BY <2>2, <2>3, <2>6, <1>0, OrderedMove DEF f
    <2>8. \A i \in DOMAIN (replies \o f) : \/ \E k \in DOMAIN replies : (replies \o f)[i] = replies[k]
                                           \/ \E k \in DOMAIN batch[m] : (replies \o f)[i] = batch[m][k]
      <3>1. /\ (replies \o f) \in Seq(Msgs) /\ Len(replies \o f) = Len(replies) + n
            /\ \A i \in 1 .. Len(replies) + n :
                  (replies \o f)[i] = IF i <= Len(replies) THEN replies[i] ELSE f[i - Len(replies)]
        BY <2>2, <1>0, ConcatProperties
      <3> TAKE i \in DOMAIN (replies \o f)
      <3>2. i \in 1 .. Len(replies) + n /\ Len(replies) \in Nat /\ n \in Nat
        BY <3>1, <2>2, <1>0
      <3>3. CASE i <= Len(replies)
        <4>1. i \in DOMAIN replies
          BY <3>2, <3>3, <1>0
        <4>2. (replies \o f)[i] = replies[i]
          BY <3>1, <3>2, <3>3, Zenon
        <4> QED BY <4>1, <4>2
      <3>4. CASE i > Len(replies)
        <4>1. i - Len(replies) \in 1 .. n /\ i - Len(replies) \in DOMAIN batch[m]
          BY <3>2, <3>4, <2>2
        <4>2. (replies \o f)[i] = batch[m][i - Len(replies)]
          BY <3>1, <3>2, <3>4, <4>1, <2>3
        <4> QED BY <4>1, <4>2
      <3> QED BY <3>2, <3>3, <3>4
    <2>9. Ahead(accepted, replies \o f, pending)
      <3> HIDE DEF f
      <3>1. Ahead(accepted, replies, pending) /\ Ahead(accepted, batch[m], pending)
        BY DEF OrderInv
      <3> QED BY <2>8, <3>1 DEF Ahead
    <2>10. Ahead(accepted, rest, pending)
      <3>1. /\ DOMAIN rest = 1 .. Len(batch[m]) - n
            /\ \A i \in 1 .. Len(batch[m]) - n : rest[i] = batch[m][n + i]
        BY <2>2, RestType
      <3> HIDE DEF rest
      <3>2. \A i \in DOMAIN rest : n + i \in DOMAIN batch[m] /\ rest[i] = batch[m][n + i]
        BY <3>1, <2>2
      <3>3. Ahead(accepted, batch[m], pending)
        BY DEF OrderInv
      <3> QED BY <3>2, <3>3 DEF Ahead
    <2>11. \A i \in DOMAIN (replies \o f) : (replies \o f)[i] \in ToSet(accepted)
      <3> HIDE DEF f
      <3> QED BY <2>8, <1>a DEF OrderInv
    <2>12. \A t \in Msgs : t # m => /\ Ordered(accepted, batch[t]) /\ Ahead(accepted, replies \o f, batch[t])
                                    /\ Ahead(accepted, batch[t], pending)
      BY <2>5 DEF Ordered, Ahead
    <2>13. \A t \in Msgs : /\ Ordered(accepted, batch'[t]) /\ Ahead(accepted, replies \o f, batch'[t])
                           /\ Ahead(accepted, batch'[t], pending)
      <3> HIDE DEF f, rest
      <3> TAKE t \in Msgs
      <3>1. CASE t = m
        BY <3>1, <2>5, <2>7, <2>10
      <3>2. CASE t # m
        BY <3>2, <2>5, <2>12
      <3> QED BY <3>1, <3>2
    <2> HIDE DEF f, rest
    <2> QED BY <2>4, <2>7, <2>9, <2>11, <2>13 DEF OrderInv
  <1>4. ASSUME NEW m \in Msgs, TurnFails(m) PROVE FALSE
    BY <1>4 DEF TurnFails
  <1>5. ASSUME NEW m \in Msgs, NEW n \in 0 .. Len(pending), NEW active, Active(m),
               TakeBatch(m, n, active)
        PROVE  OrderInv'
    <2> DEFINE f == SubSeq(pending, 1, n)
               rest == SubSeq(pending, n + 1, Len(pending))
    <2>1. /\ batch' = [batch EXCEPT ![m] = f] /\ pending' = rest
          /\ accepted' = accepted /\ replies' = replies
      BY <1>5 DEF TakeBatch, historyVars
    <2>2. f \in Seq(Msgs) /\ Len(f) = n /\ \A i \in 1 .. n : f[i] = pending[i]
      <3>1. n \in Nat /\ n <= Len(pending) /\ Len(pending) \in Nat
        BY <1>5, <1>0
      <3>2. /\ f \in Seq(Msgs) /\ Len(f) = (IF 1 <= n THEN n - 1 + 1 ELSE 0)
            /\ \A i \in 1 .. n - 1 + 1 : f[i] = pending[1 + i - 1]
        BY <3>1, <1>0, SliceType
      <3> HIDE DEF f
      <3>3. \A i \in 1 .. n : i \in 1 .. n - 1 + 1 /\ 1 + i - 1 = i
        BY <3>1
      <3>4. Len(f) = n
        BY <3>1, <3>2
      <3> QED BY <3>2, <3>3, <3>4
    <2>3. Ordered(accepted, replies) /\ Ordered(accepted, pending) /\ Ahead(accepted, replies, pending)
      BY DEF OrderInv
    <2>4. /\ Ordered(accepted, f) /\ Ordered(accepted, rest) /\ Ahead(accepted, f, rest)
          /\ Ahead(accepted, replies, rest) /\ Ahead(accepted, replies, f)
      <3> HIDE DEF f
      <3> QED BY <2>2, <2>3, <1>5, <1>0, OrderedMove
    <2> HIDE DEF f, rest
    <2>5. batch'[m] = f /\ \A t \in Msgs : t # m => batch'[t] = batch[t] /\ DOMAIN batch[t] = {}
      BY <2>1, <1>5, <1>0, <1>b
    <2>6. \A t \in Msgs : t # m => /\ Ordered(accepted, batch'[t]) /\ Ahead(accepted, replies, batch'[t])
                                   /\ Ahead(accepted, batch'[t], rest)
      BY <2>5 DEF Ordered, Ahead
    <2>7. \A t \in Msgs : /\ Ordered(accepted, batch'[t]) /\ Ahead(accepted, replies, batch'[t])
                          /\ Ahead(accepted, batch'[t], rest)
      BY <2>4, <2>5, <2>6
    <2> QED BY <2>1, <2>3, <2>4, <2>7 DEF OrderInv
  <1>6. ASSUME NEW m \in Msgs, TakeCollectBatch(m) PROVE OrderInv'
    <2>1. Len(pending) \in 0 .. Len(pending) /\ Active(m)
      BY <1>6, <1>0 DEF TakeCollectBatch, Active
    <2> QED BY <1>5, <1>6, <2>1 DEF TakeCollectBatch
  <1>7. ASSUME NEW m \in Msgs, CompleteAndTakeNext(m) PROVE OrderInv'
    <2> DEFINE n == IF pending = <<>> THEN 0 ELSE 1
    <2>1. n \in 0 .. Len(pending) /\ Active(m)
      BY <1>7, <1>0 DEF CompleteAndTakeNext, Active
    <2> QED BY <1>5, <1>7, <2>1 DEF CompleteAndTakeNext
  <1>8. ASSUME NEW m \in Msgs,
               \/ ResolveSettings(m) \/ GetOrCreateQueue(m) \/ ApplySettings(m) \/ RequestRunLock(m)
               \/ TakeSummaryPrompt(m) \/ StartTurn(m) \/ Settle(m)
        PROVE  UNCHANGED <<accepted, replies, pending, batch>>
    BY <1>8 DEF ResolveSettings, GetOrCreateQueue, ApplySettings, RequestRunLock, TakeSummaryPrompt,
                StartTurn, Settle, queueVars, historyVars
  <1>9. UNCHANGED vars => UNCHANGED <<accepted, replies, pending, batch>>
    BY DEF vars, queueVars, taskVars, historyVars
  <1> QED BY <1>1, <1>2, <1>3, <1>4, <1>6, <1>7, <1>8, <1>9 DEF Next, Step, Quiescent

\* In the modes that only queue, and when no turn fails, a session's answers leave in
\* the order enqueue accepted the messages, through overflow, changes of the cap and
\* changes of runner: the safety half of ServedInOrder.
THEOREM AnswersKeepOrder ==
    ASSUME MayFail = {}, \A s \in Settings : s.mode \in Queueing
    PROVE  Spec => []RepliesInArrivalOrder
  <1>1. Init => OrderInv
    <2> SUFFICES ASSUME Init PROVE OrderInv
      OBVIOUS
    <2>1. /\ pending = <<>> /\ accepted = <<>> /\ replies = <<>> /\ batch = [m \in Msgs |-> <<>>]
      BY DEF Init
    <2>2. DOMAIN <<>> = {}
      OBVIOUS
    <2> QED BY <2>1, <2>2 DEF OrderInv, Ordered, Ahead
  <1>2. BaseInv /\ HeldInv /\ RunnerInv /\ NoOrphanedQueue /\ OrderInv /\ [Next]_vars => OrderInv'
    BY OrderStep
  <1>3. OrderInv => RepliesInArrivalOrder
    <2> SUFFICES ASSUME OrderInv, NEW i \in DOMAIN replies, NEW j \in DOMAIN replies, i < j
                 PROVE  ArrivalIndex(replies[i]) < ArrivalIndex(replies[j])
      BY DEF RepliesInArrivalOrder
    <2>1. PICK a, b \in DOMAIN accepted : a < b /\ accepted[a] = replies[i] /\ accepted[b] = replies[j]
      BY DEF OrderInv, Ordered, Before
    <2>2. \A k \in DOMAIN accepted : ArrivalIndex(accepted[k]) = k
      <3> TAKE k \in DOMAIN accepted
      <3> DEFINE c == ArrivalIndex(accepted[k])
      <3>1. c \in DOMAIN accepted /\ accepted[c] = accepted[k]
        BY DEF ArrivalIndex
      <3> QED BY <3>1 DEF OrderInv
    <2> QED BY <2>1, <2>2
  <1>4. Spec => []RunnerInv
    BY RunnerInvariant
  <1>5. Spec => []NoOrphanedQueue
    BY QueueIsAttended
  <1> QED BY <1>1, <1>2, <1>3, <1>4, <1>5, HeldInvariant, PTL DEF Spec

-----------------------------------------------------------------------------
\* A push never lets the queue outgrow its cap, whatever was lowered while messages
\* waited: push_pending evicts as many as it must, or refuses the message.  A queue
\* without a cap (usize::MAX) is bounded by the messages there are.
THEOREM PushesRespectTheCap ==
    ASSUME Cardinality(Msgs) <= UsizeMax
    PROVE  Spec => CapRespected
  <1>1. ASSUME BaseInv, HeldInv, [Next]_vars, TypeOK', HeldInv' PROVE Len(pending') > Len(pending) => Len(pending') <= cap
    <2> HAVE Len(pending') > Len(pending)
    <2>0. /\ pending \in Seq(Msgs) /\ Len(pending) \in Nat /\ TypeOK
          /\ cap \in 1 .. UsizeMax
      BY <1>1 DEF BaseInv, TypeOK
    <2>1. ASSUME NEW n \in 0 .. Len(pending), pending' = SubSeq(pending, n + 1, Len(pending))
          PROVE  FALSE
      <3>1. /\ SubSeq(pending, n + 1, Len(pending)) \in Seq(Msgs)
            /\ DOMAIN SubSeq(pending, n + 1, Len(pending)) = 1 .. Len(pending) - n
        BY <2>0, RestType
      <3>2. Len(SubSeq(pending, n + 1, Len(pending))) = Len(pending) - n
        BY <3>1, <2>0
      <3> QED BY <3>2, <2>0, <2>1
    <2>2. pending' # pending
      BY <2>0
    <2>3. ASSUME NEW m \in Msgs, TakeCollectBatch(m) \/ CompleteAndTakeNext(m) PROVE FALSE
      <3>1. Len(pending) \in 0 .. Len(pending) /\ (IF pending = <<>> THEN 0 ELSE 1) \in 0 .. Len(pending)
        BY <2>0
      <3> QED BY <2>1, <2>3, <3>1 DEF TakeCollectBatch, CompleteAndTakeNext, TakeBatch
    <2>4. ASSUME NEW m \in Msgs, RunNow(m) \/ Interrupted(m) PROVE FALSE
      BY <2>0, <2>2, <2>4 DEF RunNow, Interrupted
    <2>5. ASSUME NEW m \in Msgs, PushPending(m) PROVE Len(pending') <= cap
      <3>1. CASE ~Full
        <4>1. pending' = Append(pending, m)
          BY <2>5, <3>1 DEF PushPending
        <4>2. Len(pending) < cap \/ cap = UsizeMax
          BY <3>1, <2>0 DEF Full
        <4>3. pending' \in Seq(Msgs) /\ \A i, j \in DOMAIN pending' : pending'[i] = pending'[j] => i = j
          BY <1>1 DEF TypeOK, HeldInv, Held
        <4>4. Cardinality(Msgs) \in Nat /\ Len(pending') <= Cardinality(Msgs)
          BY <4>3, DistinctIsShort
        <4>5. CASE cap = UsizeMax
          BY <4>3, <4>4, <4>5, UsizeMaxAssumption
        <4> QED BY <4>1, <4>2, <4>5, <2>0
      <3>2. CASE Full /\ policy = "New"
        BY <2>2, <2>5, <3>2 DEF PushPending
      <3>3. CASE Full /\ policy # "New"
        <4>1. DropCount \in 0 .. Len(pending) /\ Len(pending) - DropCount + 1 = cap
          BY <3>3, <2>0, UsizeMaxAssumption DEF DropCount, Full
        <4> DEFINE rest == SubSeq(pending, DropCount + 1, Len(pending))
        <4>2. pending' = Append(rest, m)
          BY <2>5, <3>3, Zenon DEF PushPending
        <4>3. rest \in Seq(Msgs) /\ DOMAIN rest = 1 .. Len(pending) - DropCount
          BY <4>1, <2>0, RestType
        <4> HIDE DEF rest
        <4>4. Len(rest) = Len(pending) - DropCount
          BY <4>1, <4>3, <2>0
        <4> QED BY <4>1, <4>2, <4>3, <4>4, <2>0
      <3> QED BY <3>1, <3>2, <3>3
    <2> QED BY <1>1, <2>2, <2>3, <2>4, <2>5
            DEF Next, Step, Quiescent, Enqueue, Queued, ResolveSettings, GetOrCreateQueue, ApplySettings,
                RequestRunLock, TakeSummaryPrompt, StartTurn, TurnReplies, TurnFails, Settle,
                vars, queueVars, historyVars
  <1>2. BaseInv => TypeOK
    BY DEF BaseInv
  <1> QED BY <1>1, <1>2, HeldInvariant, PTL DEF Spec, CapRespected
=============================================================================
