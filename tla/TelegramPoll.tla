--------------------------- MODULE TelegramPoll ---------------------------
(* Messages from Telegram (crates/cli/src/main.rs, telegram_poll_loop): a loop  *)
(* that asks for updates from an offset on and answers them one by one.  The   *)
(* service keeps an update until a call names an offset beyond it; the loop    *)
(* keeps its offset only in memory.                                            *)
EXTENDS Naturals, Sequences, FiniteSets

CONSTANTS MaxUpdates,   \* bound: updates the users cause
          Batch,        \* updates in one answer of the service
          MaxFaults     \* bound: failed calls and restarts

VARIABLES posted,      \* updates so far, numbered from 1
          plain,       \* updates that hold something to answer
          confirmed,   \* updates the service has dropped
          offset,      \* of the loop
          batch,       \* updates of the last answer still to be handled
          pc,          \* "poll", "each", "agent", "channel" or "direct"
          current,     \* the update in hand
          begun,       \* how often an update was taken in hand
          ran,         \* how often the agent was run for it
          told,        \* how often a reply went out for it
          restarts, faults

vars == <<posted, plain, confirmed, offset, batch, pc, current, begun, ran, told, restarts, faults>>

Updates == 1..MaxUpdates

Init ==
    /\ posted = 0 /\ plain \in SUBSET Updates /\ confirmed = 0
    /\ offset = 0 /\ batch = <<>> /\ pc = "poll" /\ current = 0
    /\ begun = [u \in Updates |-> 0]
    /\ ran = [u \in Updates |-> 0]
    /\ told = [u \in Updates |-> 0]
    /\ restarts = 0 /\ faults = 0

Larger(a, b) == IF a > b THEN a ELSE b
Smaller(a, b) == IF a < b THEN a ELSE b

Post ==
    /\ posted < MaxUpdates /\ posted' = posted + 1
    /\ UNCHANGED <<plain, confirmed, offset, batch, pc, current, begun, ran, told, restarts, faults>>

-----------------------------------------------------------------------------
\* The service takes what is before the offset for handled, and answers with the rest.
Confirmed == Larger(confirmed, IF offset > 0 THEN offset - 1 ELSE 0)
Answer == [k \in 1..Smaller(Batch, posted - Confirmed) |-> Confirmed + k]

\* getUpdates is answered, when there is something or its time is over.
Poll ==
    /\ pc = "poll"
    /\ confirmed' = Confirmed
    /\ batch' = Answer
    /\ pc' = "each"
    /\ UNCHANGED <<posted, plain, offset, current, begun, ran, told, restarts, faults>>

\* The call fails before or after it has reached the service, or its answer has no result:
\* the same call is made again.
PollFails(reached) ==
    /\ pc = "poll" /\ faults < MaxFaults
    /\ faults' = faults + 1
    /\ confirmed' = IF reached THEN Confirmed ELSE confirmed
    /\ UNCHANGED <<posted, plain, offset, batch, pc, current, begun, ran, told, restarts>>

\* The offset goes one too far.
TakeTooFar ==
    /\ pc = "each" /\ batch # <<>>
    /\ offset' = Head(batch) + 2
    /\ batch' = Tail(batch)
    /\ current' = Head(batch)
    /\ begun' = [begun EXCEPT ![Head(batch)] = @ + 1]
    /\ pc' = IF Head(batch) \in plain THEN "agent" ELSE "each"
    /\ UNCHANGED <<posted, plain, confirmed, ran, told, restarts, faults>>

\* The next update: the offset moves before anything is done for it; one without a message
\* or without anything to answer is left at that.
Take ==
    /\ pc = "each" /\ batch # <<>>
    /\ offset' = Head(batch) + 1
    /\ batch' = Tail(batch)
    /\ current' = Head(batch)
    /\ begun' = [begun EXCEPT ![Head(batch)] = @ + 1]
    /\ pc' = IF Head(batch) \in plain THEN "agent" ELSE "each"
    /\ UNCHANGED <<posted, plain, confirmed, ran, told, restarts, faults>>

BatchDone ==
    /\ pc = "each" /\ batch = <<>> /\ pc' = "poll"
    /\ UNCHANGED <<posted, plain, confirmed, offset, batch, current, begun, ran, told, restarts, faults>>

\* run_agent, whose error leaves the update without a reply.
AgentReplies ==
    /\ pc = "agent" /\ pc' = "channel"
    /\ ran' = [ran EXCEPT ![current] = @ + 1]
    /\ UNCHANGED <<posted, plain, confirmed, offset, batch, current, begun, told, restarts, faults>>

AgentFails ==
    /\ pc = "agent" /\ pc' = "each" /\ faults < MaxFaults
    /\ faults' = faults + 1
    /\ ran' = [ran EXCEPT ![current] = @ + 1]
    /\ UNCHANGED <<posted, plain, confirmed, offset, batch, current, begun, told, restarts>>

\* The reply goes out through the channel, or directly when that fails; a channel that
\* reports an error may have sent it all the same.
ChannelSends ==
    /\ pc = "channel" /\ pc' = "each"
    /\ told' = [told EXCEPT ![current] = @ + 1]
    /\ UNCHANGED <<posted, plain, confirmed, offset, batch, current, begun, ran, restarts, faults>>

ChannelFails(sent) ==
    /\ pc = "channel" /\ pc' = "direct" /\ faults < MaxFaults
    /\ faults' = faults + 1
    /\ told' = [told EXCEPT ![current] = IF sent THEN @ + 1 ELSE @]
    /\ UNCHANGED <<posted, plain, confirmed, offset, batch, current, begun, ran, restarts>>

DirectSends(ok) ==
    /\ pc = "direct" /\ pc' = "each" /\ (ok \/ faults < MaxFaults)
    /\ told' = [told EXCEPT ![current] = IF ok THEN @ + 1 ELSE @]
    /\ faults' = IF ok THEN faults ELSE faults + 1
    /\ UNCHANGED <<posted, plain, confirmed, offset, batch, current, begun, ran, restarts>>

\* The process ends and is started again.
Restart ==
    /\ faults < MaxFaults /\ faults' = faults + 1
    /\ offset' = 0 /\ batch' = <<>> /\ pc' = "poll" /\ current' = 0
    /\ restarts' = restarts + 1
    /\ UNCHANGED <<posted, plain, confirmed, begun, ran, told>>

Loop == Poll \/ Take \/ BatchDone \/ AgentReplies \/ ChannelSends \/ DirectSends(TRUE)

Next ==
    \/ Post \/ Loop \/ AgentFails \/ Restart \/ DirectSends(FALSE)
    \/ \E b \in BOOLEAN : PollFails(b) \/ ChannelFails(b)

Spec == Init /\ [][Next]_vars

\* The loop goes on; users and faults need not come.
FairSpec == Spec /\ WF_vars(Loop)

-----------------------------------------------------------------------------
TypeOK ==
    /\ posted \in 0..MaxUpdates /\ confirmed \in 0..posted /\ offset \in 0..posted + 1
    /\ pc \in {"poll", "each", "agent", "channel", "direct"} /\ Len(batch) <= Batch
    /\ begun \in [Updates -> 0..MaxFaults + 1] /\ faults \in 0..MaxFaults

\* The service drops no update that the loop has not finished with, whatever call or restart
\* comes in between: its offset reaches the service only after the whole batch.
ConfirmedWasHandled ==
    \A u \in 1..confirmed :
        /\ begun[u] > 0
        /\ ~(u = current /\ pc \in {"agent", "channel", "direct"})
        /\ u \in plain => ran[u] > 0

\* Without a restart an update is taken in hand once, in the order of arrival, also when
\* calls fail; every restart repeats it at most once.
TakenOnce ==
    /\ \A u \in Updates : begun[u] <= 1 + restarts
    /\ \A u, v \in 1..posted : u < v /\ begun[v] > 0 => begun[u] > 0
    /\ \A k \in DOMAIN batch : batch[k] = batch[1] + k - 1

\* Again and again the loop has taken every update in hand that was posted by then.
UpdatesAreTaken == []<>(\A u \in 1..posted : begun[u] > 0)
=============================================================================
