----------------------------- MODULE AgentLoop ------------------------------
(* A turn of the agent (crates/agent-core/src/agent.rs): the history is read *)
(* from the transcript and repaired, the model is asked, the tools it calls  *)
(* are run and their results appended, until it answers.  Turns of the same  *)
(* session share one transcript file (transcript.rs); the process may die    *)
(* between any two steps.                                                    *)
EXTENDS Naturals, Sequences, FiniteSets, SequencesExt

CONSTANTS
    Turns,          \* the turns of the session
    Plain,          \* those without tools (Agent::run)
    FreshIds,       \* whether the provider gives every tool call an id of its own
    MaxIterations,  \* max_iterations
    MaxTries,       \* max_retries
    MaxOverflow,    \* MAX_OVERFLOW_COMPACTION_ATTEMPTS
    MaxCalls,       \* bound: tool calls in one reply
    MaxFlight,      \* bound: writes outstanding
    MaxFaults       \* bound: lost writes and crashes

VARIABLES
    file,     \* the lines of the transcript that are whole
    torn,     \* whether it ends in part of a line
    flight,   \* messages handed to the file and not written yet
    turn,     \* where each turn is, and its Agent
    faults    \* lost writes and crashes so far

vars == <<file, torn, flight, turn, faults>>

NoId == <<>>

\* The id of the k-th call of a reply: the provider's own, or counted from zero again in
\* every reply (ollama_tool_calls_to_chat, the XML calls of anthropic.rs).
CallId(t, i, k) == IF FreshIds THEN <<t, i, k>> ELSE <<"call", 0, k>>

Message(role, t, i, calls, id) == [role |-> role, by |-> <<t, i>>, calls |-> calls, id |-> id]

System == Message("system", "prompt", 0, <<>>, NoId)

Ends == {"idle", "error", "waiting", "crashed"}

New == [at |-> "new", history |-> <<>>, todo |-> <<>>, iter |-> 0, tries |-> 0, over |-> 0]

Init ==
    /\ file = <<>> /\ torn = FALSE /\ flight = {}
    /\ turn = [t \in Turns |-> New]
    /\ faults = 0

-----------------------------------------------------------------------------
(* The transcript.                                                          *)

\* Transcript::append: the line is handed to the file; it is written later, in no order
\* (tokio writes in the background and the call does not flush).
Written(m) == Cardinality(flight) < MaxFlight /\ flight' = flight \cup {m}

\* A line reaches the file.  Behind a torn line it becomes part of it, and load discards
\* both.
Land(m) ==
    /\ m \in flight /\ flight' = flight \ {m}
    /\ file' = IF torn THEN file ELSE Append(file, m)
    /\ torn' = FALSE
    /\ UNCHANGED <<turn, faults>>

\* A write fails in the background: nobody hears of it.
LoseWrite(m) ==
    /\ m \in flight /\ faults < MaxFaults
    /\ flight' = flight \ {m} /\ faults' = faults + 1
    /\ UNCHANGED <<file, torn, turn>>

\* The process dies, perhaps in the middle of a line.
Crash ==
    /\ faults < MaxFaults /\ faults' = faults + 1
    /\ \E t \in Turns : turn[t].at \notin Ends \cup {"new"}
    /\ flight' = {} /\ torn' \in {torn, flight # {} \/ torn}
    /\ turn' = [t \in Turns |-> IF turn[t].at \in Ends \cup {"new"} THEN turn[t]
                                ELSE [New EXCEPT !.at = "crashed"]]
    /\ UNCHANGED file

\* The first result of call c among the messages, or a synthetic one.
ResultOf(c, msgs) ==
    LET found == SelectSeq(msgs, LAMBDA m : m.role = "tool" /\ m.id = c)
    IN IF found = <<>> THEN Message("tool", "synthetic", 0, <<>>, c) ELSE Head(found)


\* repair_tool_use_result_pairing: tool results are taken out and put behind the message
\* that calls for them; a call whose id has been seen gets none.
Repair(msgs) ==
    LET Pair(acc, m) ==
          LET calls == SelectSeq(m.calls, LAMBDA c : c \notin acc.seen)
          IN IF m.role = "tool" THEN acc
             ELSE [out |-> Append(acc.out, m) \o [i \in DOMAIN calls |-> ResultOf(calls[i], msgs)],
                   seen |-> acc.seen \cup ToSet(calls)]
    IN FoldLeft(Pair, [out |-> <<>>, seen |-> {}], msgs).out

-----------------------------------------------------------------------------
(* The turn.                                                                *)

Go(t, fields) == turn' = [turn EXCEPT ![t] = fields @@ @]

Say(t, msgs) == turn[t].history \o msgs

\* Agent::initialize: the repaired transcript behind the current system prompt.
Initialize(t) ==
    /\ turn[t].at = "new"
    /\ Go(t, [at |-> "loaded", history |-> <<System>> \o Repair(file)])
    /\ UNCHANGED <<file, torn, flight, faults>>

\* The user's message; what memory recalls goes to the history only.
Begin(t) ==
    LET m == Message("user", t, 0, <<>>, NoId)
    IN /\ turn[t].at = "loaded"
       /\ Written(m)
       /\ Go(t, [at |-> IF t \in Plain THEN "request" ELSE "loop", tries |-> 1,
                 history |-> Say(t, IF t \in Plain THEN <<m>> ELSE <<m, System>>)])
       /\ UNCHANGED <<file, torn, faults>>

End(t, how) == Go(t, [at |-> how, history |-> <<>>, todo |-> <<>>, iter |-> 0, tries |-> 0, over |-> 0])

\* Mutant: an overflow gives its iteration back.
IterateFreely(t) ==
    /\ turn[t].at = "loop"
    /\ IF turn[t].iter < MaxIterations + turn[t].over
       THEN Go(t, [at |-> "request", iter |-> turn[t].iter + 1, tries |-> 1])
       ELSE End(t, "error")
    /\ UNCHANGED <<file, torn, flight, faults>>

\* The head of the loop: the next request, or too many of them.
Iterate(t) ==
    /\ turn[t].at = "loop"
    /\ IF turn[t].iter < MaxIterations
       THEN Go(t, [at |-> "request", iter |-> turn[t].iter + 1, tries |-> 1])
       ELSE End(t, "error")
    /\ UNCHANGED <<file, torn, flight, faults>>

\* chat_with_retry: an error worth a retry (rate limit, network, provider), or the last.
Retry(t) ==
    /\ turn[t].at = "request"
    /\ IF turn[t].tries < MaxTries THEN Go(t, [tries |-> turn[t].tries + 1]) ELSE End(t, "error")
    /\ UNCHANGED <<file, torn, flight, faults>>

\* An error that is not retried; an empty reply leaves the state waiting.
Refuse(t) ==
    /\ turn[t].at = "request" /\ t \notin Plain
    /\ End(t, "error") \/ End(t, "waiting")
    /\ UNCHANGED <<file, torn, flight, faults>>

\* Mutant: overflows are not counted.
OverflowAgain(t) ==
    /\ turn[t].at = "request" /\ t \notin Plain
    /\ Go(t, [at |-> "loop", iter |-> turn[t].iter - 1])
    /\ UNCHANGED <<file, torn, flight, faults>>

\* The context is too long: the largest tool result is halved (truncate_history_tool_results)
\* and the loop goes on, a few times.
Overflow(t) ==
    /\ turn[t].at = "request" /\ t \notin Plain
    /\ IF turn[t].over < MaxOverflow
       THEN Go(t, [at |-> "loop", over |-> turn[t].over + 1])
       ELSE End(t, "error")
    /\ UNCHANGED <<file, torn, flight, faults>>

\* Mutant: the turn returns before the answer is written down.
ReplyUnsaved(t, n) ==
    LET i == turn[t].iter
        m == Message("assistant", t, i, [k \in 1..n |-> CallId(t, i, k)], NoId)
    IN /\ turn[t].at = "request" /\ (t \in Plain => n = 0)
       /\ IF n = 0 THEN End(t, "idle") /\ UNCHANGED flight
          ELSE Written(m) /\ Go(t, [at |-> "tools", todo |-> m.calls, history |-> Say(t, <<m>>)])
       /\ UNCHANGED <<file, torn, faults>>

\* The model replies with n tool calls; without any the turn is over.
Reply(t, n) ==
    LET i == turn[t].iter
        m == Message("assistant", t, i, [k \in 1..n |-> CallId(t, i, k)], NoId)
    IN /\ turn[t].at = "request" /\ (t \in Plain => n = 0)
       /\ Written(m)
       /\ IF n = 0 THEN End(t, "idle")
          ELSE Go(t, [at |-> "tools", todo |-> m.calls, history |-> Say(t, <<m>>)])
       /\ UNCHANGED <<file, torn, faults>>

\* The loop detector stops the turn; the calls that are left get no result.
Stuck(t) ==
    /\ turn[t].at = "tools"
    /\ End(t, "error")
    /\ UNCHANGED <<file, torn, flight, faults>>

\* Mutant: a call the gate does not let through is skipped.
HandleSkipsRefused(t, warned, allowed) ==
    LET m == Message("tool", t, turn[t].iter, <<>>, Head(turn[t].todo))
    IN /\ turn[t].at = "tools"
       /\ IF allowed THEN Written(m) ELSE UNCHANGED flight
       /\ Go(t, [at |-> IF Len(turn[t].todo) = 1 THEN "loop" ELSE "tools", todo |-> Tail(turn[t].todo),
                 history |-> Say(t, IF allowed THEN <<m>> ELSE <<>>)])
       /\ UNCHANGED <<file, torn, faults>>

\* The next tool call: perhaps a warning of the loop detector, then the result.  A call the
\* gate denies or leaves pending is answered in the history but not in the transcript.
Handle(t, warned, allowed) ==
    LET m == Message("tool", t, turn[t].iter, <<>>, Head(turn[t].todo))
        w == Message("warning", t, turn[t].iter, <<>>, NoId)
    IN /\ turn[t].at = "tools"
       /\ IF allowed THEN Written(m) ELSE UNCHANGED flight
       /\ Go(t, [at |-> IF Len(turn[t].todo) = 1 THEN "loop" ELSE "tools", todo |-> Tail(turn[t].todo),
                 history |-> Say(t, IF warned THEN <<w, m>> ELSE <<m>>)])
       /\ UNCHANGED <<file, torn, faults>>

-----------------------------------------------------------------------------
Step(t) ==
    \/ Initialize(t) \/ Begin(t) \/ Iterate(t)
    \/ Retry(t) \/ Refuse(t) \/ Overflow(t) \/ Stuck(t)
    \/ \E n \in 0..MaxCalls : Reply(t, n)
    \/ \E warned, allowed \in BOOLEAN : Handle(t, warned, allowed)

Next ==
    \/ \E t \in Turns : Step(t)
    \/ \E m \in flight : Land(m) \/ LoseWrite(m)
    \/ Crash

Spec == Init /\ [][Next]_vars

\* The task of a turn is scheduled, the provider and the tools answer, and the runtime
\* completes the writes.
FairSpec ==
    /\ Spec
    /\ \A t \in Turns : WF_vars(Step(t))
    /\ WF_vars(\E m \in flight : Land(m))

-----------------------------------------------------------------------------
TypeOK ==
    /\ \A t \in Turns :
          /\ turn[t].at \in {"new", "loaded", "loop", "request", "tools"} \cup Ends
          /\ turn[t].iter <= MaxIterations /\ turn[t].tries <= MaxTries /\ turn[t].over <= MaxOverflow
          /\ turn[t].at = "tools" <=> turn[t].todo # <<>>
    /\ torn \in BOOLEAN /\ faults \in 0..MaxFaults
    /\ flight \cap ToSet(file) = {}

\* The calls of message i of h are answered exactly once, before the conversation goes on.
Answered(h, i) ==
    LET rest == {j \in i + 1..Len(h) : \A k \in i + 1..j : h[k].role \in {"tool", "warning"}}
    IN \A c \in ToSet(h[i].calls) : Cardinality({j \in rest : h[j].role = "tool" /\ h[j].id = c}) = 1

\* Every tool result answers a call of the message it follows.
Called(h, j) ==
    \E i \in 1..j - 1 : /\ h[j].id \in ToSet(h[i].calls)
                        /\ \A k \in i + 1..j : h[k].role \in {"tool", "warning"}

\* Whatever is sent to the model, every tool call in it has exactly one result and every
\* result a call, though other turns write to the same transcript, results of refused calls
\* never reach it, lines land late, get lost or are torn, and turns die or are stopped in
\* the middle of their calls.
SentIsPaired ==
    \A t \in Turns : turn[t].at = "request" =>
        LET h == turn[t].history
        IN \A i \in DOMAIN h : Answered(h, i) /\ (h[i].role = "tool" => Called(h, i))

\* A turn that was started ends, whatever the model keeps asking for.
TurnsEnd == \A t \in Turns : turn[t].at # "new" ~> turn[t].at \in Ends

\* The answer of a turn stays in the conversation: as long as nothing fails, the next turn
\* will find it in the transcript.
AnswersAreKept ==
    \A t \in Turns : turn[t].at = "idle" ~>
        \/ faults > 0
        \/ \E i \in DOMAIN file : file[i].role = "assistant" /\ file[i].by[1] = t /\ file[i].calls = <<>>
=============================================================================
