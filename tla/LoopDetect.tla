----------------------------- MODULE LoopDetect -----------------------------
(* The loop detector of a turn (crates/agent-core/src/loop_detect.rs): it    *)
(* keeps the last tool calls with their results and is asked before each     *)
(* call whether the model is going in circles.  A warning is shown to the    *)
(* model, a critical verdict ends the turn.                                  *)
EXTENDS Naturals, Sequences, FiniteSets, FiniteSetsExt, SequencesExt

CONSTANTS
    Sigs,       \* signatures of calls: a tool with its arguments
    Polls,      \* those of is_known_poll_tool
    Results,    \* results of calls
    Window,     \* HISTORY_SIZE
    Warn,       \* WARNING_THRESHOLD
    Critical,   \* CRITICAL_THRESHOLD
    Breaker,    \* CIRCUIT_BREAKER_THRESHOLD
    MaxCalls,   \* bound: calls in the turn
    None        \* no result: the call was not let through

VARIABLES
    history,    \* LoopDetector.history
    stopped,    \* whether the turn was ended
    trace       \* history: all calls of the turn, with the warnings given

vars == <<history, stopped, trace>>

Records == [sig : Sigs, result : Results \cup {None}]

Init == history = <<>> /\ stopped = FALSE /\ trace = <<>>

-----------------------------------------------------------------------------
\* The length of the longest tail of h whose elements satisfy Test(distance from the end).
TailLength(h, Test(_)) ==
    Max({0} \cup {n \in 1..Len(h) : \A i \in 1..n : Test(i)})

\* The i-th record from the end.
FromEnd(h, i) == h[Len(h) + 1 - i]

\* Mutant: the results are not compared.
NoProgressIgnoringResults(h, s) ==
    TailLength(h, LAMBDA i : FromEnd(h, i).sig = s /\ FromEnd(h, i).result # None)

\* no_progress_streak: consecutive calls of s with the same result.
NoProgress(h, s) ==
    TailLength(h, LAMBDA i : /\ FromEnd(h, i).sig = s /\ FromEnd(h, i).result # None
                             /\ FromEnd(h, i).result = FromEnd(h, 1).result)

\* The signature before the last run of equal ones.
Other(h) ==
    LET before == {i \in 2..Len(h) : FromEnd(h, i).sig # FromEnd(h, 1).sig}
    IN IF before = {} THEN None ELSE FromEnd(h, Min(before)).sig

\* ping_pong_streak: the alternation at the end of h which a call of s would continue, and
\* whether each side had one result only.
PingPong(h, s) ==
    LET other == Other(h)
        n == TailLength(h, LAMBDA i : FromEnd(h, i).sig = IF i % 2 = 1 THEN FromEnd(h, 1).sig ELSE other)
        results(odd) == {FromEnd(h, i).result : i \in {j \in 1..n : j % 2 = odd}}
    IN IF h = <<>> \/ n < 2 \/ other # s THEN [count |-> 0, stuck |-> FALSE]
       ELSE [count |-> n + 1,
             stuck |-> \A odd \in {0, 1} : Cardinality(results(odd)) = 1 /\ None \notin results(odd)]

\* The plain repetition: calls of s in the window.
Repeats(h, s) == Cardinality({i \in DOMAIN h : h[i].sig = s})

\* Mutant: polling is judged like any other repetition.
DetectWithoutPolls(h, s) ==
    LET pp == PingPong(h, s)
    IN IF NoProgress(h, s) >= Breaker \/ (pp.count >= Critical /\ pp.stuck) THEN "critical"
       ELSE IF pp.count >= Warn \/ Repeats(h, s) >= Warn THEN "warning" ELSE "none"

\* Mutant: only polls and repetitions are warned of.
DetectWithoutPingPongWarning(h, s) ==
    LET streak == NoProgress(h, s)
        pp == PingPong(h, s)
    IN IF streak >= Breaker \/ (s \in Polls /\ streak >= Critical) \/ (pp.count >= Critical /\ pp.stuck)
       THEN "critical"
       ELSE IF (IF s \in Polls THEN streak ELSE Repeats(h, s)) >= Warn THEN "warning" ELSE "none"

\* detect: the circuit breaker, polls without progress, alternations, repetitions.
Detect(h, s) ==
    LET streak == NoProgress(h, s)
        pp == PingPong(h, s)
    IN IF streak >= Breaker \/ (s \in Polls /\ streak >= Critical) THEN "critical"
       ELSE IF s \in Polls /\ streak >= Warn THEN "warning"
       ELSE IF pp.count >= Critical /\ pp.stuck THEN "critical"
       ELSE IF pp.count >= Warn \/ (s \notin Polls /\ Repeats(h, s) >= Warn) THEN "warning"
       ELSE "none"

\* Mutant: the window is never trimmed.
RecordedAll(h, rec) == Append(h, rec)

\* record: the oldest call leaves a full window.
Recorded(h, rec) == LET all == Append(h, rec) IN IF Len(all) > Window THEN Tail(all) ELSE all

\* The model calls s: detect, then record and, if the call is let through, its outcome.
Call(s, r) ==
    LET level == Detect(history, s)
    IN /\ ~stopped /\ Len(trace) < MaxCalls
       /\ stopped' = (level = "critical")
       /\ history' = Recorded(history, [sig |-> s, result |-> IF level = "critical" THEN None ELSE r])
       /\ trace' = Append(trace, [sig |-> s, result |-> IF level = "critical" THEN None ELSE r, level |-> level])

Next == \E s \in Sigs, r \in Results \cup {None} : Call(s, r)

Spec == Init /\ [][Next]_vars

-----------------------------------------------------------------------------
TypeOK ==
    /\ history \in Seq(Records) /\ Len(history) <= Window
    /\ stopped \in BOOLEAN
    /\ IsSuffix(history, [i \in DOMAIN trace |-> [sig |-> trace[i].sig, result |-> trace[i].result]])

\* The last n calls before the one that is judged.
Before(n) == SubSeq(trace, Len(trace) - n, Len(trace) - 1)

\* Calls that went in circles: at most two signatures, each with one and the same result.
Circling(calls) ==
    /\ Cardinality({c.sig : c \in ToSet(calls)}) <= 2
    /\ \A c, d \in ToSet(calls) : c.result # None /\ (c.sig = d.sig => c.result = d.result)

\* Only a turn that makes no progress is ended: its last calls are one or two that bring
\* the same results again and again.
OnlyCirclesAreStopped ==
    stopped => Len(trace) >= Critical /\ Circling(Before(Critical - 1))

\* No turn polls or repeats a call without progress beyond the thresholds, and none
\* alternates between two calls without progress for longer than the window (an older
\* result inside it hides an alternation that has stopped making progress).
CirclesAreStopped ==
    LET calls == [i \in DOMAIN trace |-> [sig |-> trace[i].sig, result |-> trace[i].result]]
        Latest(n) == SubSeq(calls, Len(calls) + 1 - n, Len(calls))
        Same(n) == Len(calls) >= n /\ Cardinality(ToSet(Latest(n))) = 1 /\ Circling(Latest(n))
        Alternates(n) == /\ Len(calls) >= n
                         /\ \A i \in 2..n : FromEnd(calls, i).sig # FromEnd(calls, i - 1).sig
                         /\ Circling(Latest(n))
    IN ~stopped => /\ ~Same(Breaker + 1) /\ ~Alternates(Window + 1)
                   /\ \A s \in Polls : Same(Critical + 1) => FromEnd(calls, 1).sig # s

\* The model has been warned before its turn is ended.
WarnedBeforeStopped == stopped => \E i \in DOMAIN trace : trace[i].level = "warning"
=============================================================================
