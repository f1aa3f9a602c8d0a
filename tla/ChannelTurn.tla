----------------------------- MODULE ChannelTurn -----------------------------
(* One turn of the channel pipeline (crates/gateway-core/src/pipeline.rs,    *)
(* process_single_message, which SessionQueue takes as two steps): which     *)
(* agent answers, the first-run conversation (hatching), and what follows an *)
(* answer: the counters, the memory flush, the evolution of the agent with   *)
(* its state in a file, the capture of memories, the reply.  Turns of one    *)
(* session exclude each other; those of different sessions do not, and they  *)
(* share the evolution state, SOUL.md and the hatching flag.                 *)
EXTENDS Naturals, Sequences, FiniteSets

CONSTANTS
    Turns, Sessions,
    Contexts,      \* messages: what each binding of a kind is compared with, by kind
    Setups,        \* [workspace, tools, memory, hatching: BOOLEAN, bindings: list of [kind, where, agent]]
    Tokens,        \* tokens that a turn may use
    FlushAt,       \* tokens of a session from which memories are flushed
    Every,         \* messages from one evolution to the next
    MinTokens,     \* tokens from which a message counts
    MinMessages, MaxCaptures,  \* first and last message of a session that is captured
    MaxTroubles,   \* bound on session resets, agents that fail and files that cannot be written
    None

VARIABLES
    setup, hatching,
    tokens, turns, flushed, captures,  \* counters by session
    evo,           \* the evolution state on file, or None while it is being written
    soul, backup,  \* the version of SOUL.md, and of its copy of today, or None
    turn,          \* the turns
    resets, faults,
    counted,       \* history: messages counted towards evolution
    evolved,       \* history: evolutions
    disturbed,     \* history: an evolution state was loaded or lost while another turn held one
    captured,      \* history: captures stored by session since its last reset
    wiped          \* history: turns begun after hatching whose transcript was cleared

vars == <<setup, hatching, tokens, turns, flushed, captures, evo, soul, backup, turn, resets, faults,
          counted, evolved, disturbed, captured, wiped>>

Zero == [count |-> 0, last |-> 0]
Idle == [at |-> "new", session |-> None, context |-> None, agent |-> None, young |-> FALSE, used |-> 0,
         round |-> 0, evo |-> Zero, soul |-> 0, epoch |-> 0]
Over == {"new", "done", "failed"}

TypeOK ==
    /\ hatching \in BOOLEAN
    /\ \A s \in Sessions : /\ flushed[s] \in 0..Cardinality(Turns) \cup {None}
                           /\ turns[s] \in 0..Cardinality(Turns) /\ captures[s] \in 0..Cardinality(Turns)
    /\ evo = None \/ (evo.count \in Nat /\ evo.last \in Nat)
    /\ resets + faults <= MaxTroubles

-----------------------------------------------------------------------------
\* AgentBinding::priority, and whether a binding matches a message.
Kinds == <<"peer", "roles", "guild", "team", "account", "channel", "default">>
Priority(b) == CHOOSE n \in DOMAIN Kinds : Kinds[n] = b.kind
Matches(b, m) == b.kind = "default" \/ b.where \in m[b.kind]

\* resolve_agent_for_message: the first binding of the best priority.
Resolve(table, m) ==
    LET best[i \in 0..Len(table)] ==
            IF i = 0 THEN 0
            ELSE IF /\ Matches(table[i], m)
                    /\ best[i - 1] = 0 \/ Priority(table[i]) < Priority(table[best[i - 1]])
                 THEN i ELSE best[i - 1]
    IN  IF best[Len(table)] = 0 THEN "channel-agent" ELSE table[best[Len(table)]].agent

Put(t, v) == turn' = [turn EXCEPT ![t] = v]
Fault == resets + faults < MaxTroubles /\ faults' = faults + 1

\* A message begins its turn (they are numbered as they begin); a skill command is answered without an agent (Skills).
Begin(t, s, m, skill) ==
    /\ turn[t].at = "new" /\ \A u \in Turns : u < t => turn[u].at # "new"
    /\ \A u \in Turns : turn[u].session = s => turn[u].at \in Over
    /\ Put(t, [Idle EXCEPT !.at = IF skill THEN "capture" ELSE "run", !.session = s, !.context = IF skill THEN None ELSE m,
                           !.agent = IF skill THEN "skill" ELSE Resolve(setup.bindings, m), !.young = hatching /\ ~skill])
    /\ UNCHANGED <<setup, hatching, tokens, turns, flushed, captures, evo, soul, backup, resets, faults,
                   counted, evolved, disturbed, captured, wiped>>

\* run_agent, up to its end: after a turn of the first conversation the identity is read.
AfterRun(named) == IF named THEN "hatched" ELSE "count"
RunEnds(t, used, named) ==
    /\ turn[t].at = "run"
    /\ Put(t, [turn[t] EXCEPT !.used = used, !.context = None, !.agent = None, !.at = AfterRun(turn[t].young /\ setup.workspace /\ named)])
    /\ UNCHANGED <<setup, hatching, tokens, turns, flushed, captures, evo, soul, backup, resets, faults,
                   counted, evolved, disturbed, captured, wiped>>

RunFails(t) ==
    /\ turn[t].at = "run" /\ Fault
    /\ Put(t, [Idle EXCEPT !.at = "failed"])
    /\ UNCHANGED <<setup, hatching, tokens, turns, flushed, captures, evo, soul, backup, resets,
                   counted, evolved, disturbed, captured, wiped>>

\* The identity is complete: the flag first, then all transcripts.
Hatched(t) ==
    /\ turn[t].at = "hatched"
    /\ hatching' = FALSE
    /\ Put(t, [turn[t] EXCEPT !.at = "clear"])
    /\ UNCHANGED <<setup, tokens, turns, flushed, captures, evo, soul, backup, resets, faults,
                   counted, evolved, disturbed, captured, wiped>>

ClearAll(t) ==
    /\ turn[t].at = "clear"
    /\ Put(t, [turn[t] EXCEPT !.at = "count"])
    /\ wiped' = wiped \cup {u \in Turns : ~turn[u].young /\ turn[u].agent # "skill"
                                          /\ turn[u].at \notin {"new", "run", "failed"}}
    /\ UNCHANGED <<setup, hatching, tokens, turns, flushed, captures, evo, soul, backup, resets, faults,
                   counted, evolved, disturbed, captured>>

-----------------------------------------------------------------------------
\* add_session_usage_tokens, bump_session_turn_count and should_run_memory_flush: the number
\* of the turn stands in for that of the compaction.
ShouldFlush(total, last, round) == total >= FlushAt /\ last # round

Count(t) ==
    LET s == turn[t].session
        total == tokens[s] + turn[t].used
        round == turns[s] + 1
        full == setup.workspace /\ setup.tools
    IN  /\ turn[t].at = "count"
        /\ tokens' = IF full THEN [tokens EXCEPT ![s] = total] ELSE tokens
        /\ turns' = IF full THEN [turns EXCEPT ![s] = round] ELSE turns
        /\ Put(t, [turn[t] EXCEPT !.round = IF full /\ ShouldFlush(total, flushed[s], round) THEN round ELSE 0,
                     !.at = IF ~full THEN "capture"
                            ELSE IF ShouldFlush(total, flushed[s], round) THEN "flush" ELSE "load"])
        /\ UNCHANGED <<setup, hatching, flushed, captures, evo, soul, backup, resets, faults,
                       counted, evolved, disturbed, captured, wiped>>

\* try_memory_flush: what its agent says is stored as a memory (Memory) or was nothing; the
\* round is marked unless the agent failed.
FlushEnds(t) ==
    /\ turn[t].at = "flush"
    /\ flushed' = [flushed EXCEPT ![turn[t].session] = turn[t].round]
    /\ Put(t, [turn[t] EXCEPT !.at = "load", !.round = 0])
    /\ UNCHANGED <<setup, hatching, tokens, turns, captures, evo, soul, backup, resets, faults,
                   counted, evolved, disturbed, captured, wiped>>

FlushFails(t) ==
    /\ turn[t].at = "flush" /\ Fault
    /\ Put(t, [turn[t] EXCEPT !.at = "load", !.round = 0])
    /\ UNCHANGED <<setup, hatching, tokens, turns, flushed, captures, evo, soul, backup, resets,
                   counted, evolved, disturbed, captured, wiped>>

\* EvolutionState::load and tick: a file that is just being written reads as nothing.
Loaded == IF evo = None THEN Zero ELSE evo
Holding(u) == turn[u].at \in {"soul", "check", "copy", "evolve", "save", "write"}
Tick(e, used) == IF used >= MinTokens THEN [e EXCEPT !.count = e.count + 1] ELSE e
ShouldEvolve(e) == e.count > 0 /\ e.count - e.last >= Every

Load(t) ==
    LET e == Tick(Loaded, turn[t].used)
    IN  /\ turn[t].at = "load"
        /\ Put(t, [turn[t] EXCEPT !.evo = e, !.at = IF ShouldEvolve(e) THEN "soul" ELSE "save"])
        /\ counted' = IF turn[t].used >= MinTokens THEN counted + 1 ELSE counted
        /\ disturbed' = (disturbed \/ \E u \in Turns : Holding(u))
        /\ UNCHANGED <<setup, hatching, tokens, turns, flushed, captures, evo, soul, backup, resets, faults,
                       evolved, captured, wiped>>

\* Soul::backup: read SOUL.md, look for the copy of today, write it.
ReadSoul(t) ==
    /\ turn[t].at = "soul"
    /\ Put(t, [turn[t] EXCEPT !.at = "check", !.soul = soul])
    /\ UNCHANGED <<setup, hatching, tokens, turns, flushed, captures, evo, soul, backup, resets, faults,
                   counted, evolved, disturbed, captured, wiped>>

CheckBackup(t) ==
    /\ turn[t].at = "check"
    /\ Put(t, [turn[t] EXCEPT !.at = IF backup = None THEN "copy" ELSE "evolve"])
    /\ UNCHANGED <<setup, hatching, tokens, turns, flushed, captures, evo, soul, backup, resets, faults,
                   counted, evolved, disturbed, captured, wiped>>

WriteBackup(t) ==
    /\ turn[t].at = "copy"
    /\ backup' = turn[t].soul
    /\ Put(t, [turn[t] EXCEPT !.at = "evolve"])
    /\ UNCHANGED <<setup, hatching, tokens, turns, flushed, captures, evo, soul, resets, faults,
                   counted, evolved, disturbed, captured, wiped>>

\* The evolution agent, which may write SOUL.md; when it fails only the count is kept.
Evolve(t, grows) ==
    /\ turn[t].at = "evolve"
    /\ Put(t, [turn[t] EXCEPT !.at = "save", !.evo.last = turn[t].evo.count])
    /\ soul' = IF grows THEN soul + 1 ELSE soul
    /\ evolved' = evolved + 1
    /\ UNCHANGED <<setup, hatching, tokens, turns, flushed, captures, evo, backup, resets, faults,
                   counted, disturbed, captured, wiped>>

EvolveFails(t) ==
    /\ turn[t].at = "evolve" /\ Fault
    /\ Put(t, [turn[t] EXCEPT !.at = "save"])
    /\ UNCHANGED <<setup, hatching, tokens, turns, flushed, captures, evo, soul, backup, resets,
                   counted, evolved, disturbed, captured, wiped>>

\* EvolutionState::save: the file is emptied, then written.
Truncate(t) ==
    /\ turn[t].at = "save"
    /\ evo' = None
    /\ Put(t, [turn[t] EXCEPT !.at = "write"])
    /\ UNCHANGED <<setup, hatching, tokens, turns, flushed, captures, soul, backup, resets, faults,
                   counted, evolved, disturbed, captured, wiped>>

SaveFails(t) ==
    /\ turn[t].at = "save" /\ Fault
    /\ disturbed' = TRUE
    /\ Put(t, [turn[t] EXCEPT !.at = "capture", !.evo = Zero, !.soul = 0, !.used = 0])
    /\ UNCHANGED <<setup, hatching, tokens, turns, flushed, captures, evo, soul, backup, resets,
                   counted, evolved, captured, wiped>>

Write(t) ==
    /\ turn[t].at = "write"
    /\ evo' = turn[t].evo
    /\ Put(t, [turn[t] EXCEPT !.at = "capture", !.evo = Zero, !.soul = 0, !.used = 0])
    /\ UNCHANGED <<setup, hatching, tokens, turns, flushed, captures, soul, backup, resets, faults,
                   counted, evolved, disturbed, captured, wiped>>

-----------------------------------------------------------------------------
\* should_capture and the cap of a session.
ShouldCapture(n) == MinMessages <= n /\ n <= MaxCaptures

Capture(t) ==
    LET s == turn[t].session
    IN  /\ turn[t].at = "capture"
        /\ captures' = IF setup.memory THEN [captures EXCEPT ![s] = @ + 1] ELSE captures
        /\ Put(t, [turn[t] EXCEPT !.at = IF setup.memory /\ ShouldCapture(captures[s] + 1) THEN "keep" ELSE "send",
                                  !.epoch = resets])
        /\ UNCHANGED <<setup, hatching, tokens, turns, flushed, evo, soul, backup, resets, faults,
                       counted, evolved, disturbed, captured, wiped>>

Keep(t, ok) ==
    /\ turn[t].at = "keep"
    /\ captured' = IF ok /\ turn[t].epoch = resets
                   THEN [captured EXCEPT ![turn[t].session] = @ + 1] ELSE captured
    /\ Put(t, [turn[t] EXCEPT !.at = "send"])
    /\ UNCHANGED <<setup, hatching, tokens, turns, flushed, captures, evo, soul, backup, resets, faults,
                   counted, evolved, disturbed, wiped>>

\* send_reply, on a channel that may be gone.
SendReply(t, ok) ==
    /\ turn[t].at = "send"
    /\ Put(t, [Idle EXCEPT !.at = IF ok THEN "done" ELSE "failed", !.young = turn[t].young, !.agent = turn[t].agent])
    /\ UNCHANGED <<setup, hatching, tokens, turns, flushed, captures, evo, soul, backup, resets, faults,
                   counted, evolved, disturbed, captured, wiped>>

\* clear_session_counters, from a reset of the session.
ClearCounters(s) ==
    /\ resets + faults < MaxTroubles /\ resets' = resets + 1
    /\ flushed' = [flushed EXCEPT ![s] = None]
    /\ tokens' = [tokens EXCEPT ![s] = 0] /\ turns' = [turns EXCEPT ![s] = 0]
    /\ captures' = [captures EXCEPT ![s] = 0] /\ captured' = [captured EXCEPT ![s] = 0]
    /\ UNCHANGED <<setup, hatching, evo, soul, backup, turn, faults, counted, evolved, disturbed, wiped>>

\* The gateway has run for a while: the next message is due for an evolution.
Init ==
    /\ setup \in Setups /\ hatching = setup.hatching
    /\ tokens = [s \in Sessions |-> 0] /\ turns = tokens /\ captures = tokens /\ captured = tokens
    /\ flushed = [s \in Sessions |-> None]
    /\ evo = [count |-> Every - 1, last |-> 0] /\ counted = Every - 1 /\ soul = 0 /\ backup = None
    /\ turn = [t \in Turns |-> Idle]
    /\ resets = 0 /\ faults = 0 /\ evolved = 0 /\ disturbed = FALSE /\ wiped = {}

Next ==
    \/ \E t \in Turns, s \in Sessions, m \in Contexts, skill \in BOOLEAN : Begin(t, s, m, skill)
    \/ \E t \in Turns, used \in Tokens, named \in BOOLEAN : RunEnds(t, used, named)
    \/ \E t \in Turns : \/ RunFails(t) \/ Hatched(t) \/ ClearAll(t) \/ Count(t) \/ FlushEnds(t) \/ FlushFails(t)
                        \/ Load(t) \/ ReadSoul(t) \/ CheckBackup(t) \/ WriteBackup(t) \/ EvolveFails(t)
                        \/ Truncate(t) \/ SaveFails(t) \/ Write(t) \/ Capture(t)
    \/ \E t \in Turns, grows \in BOOLEAN : Evolve(t, grows)
    \/ \E t \in Turns, ok \in BOOLEAN : Keep(t, ok) \/ SendReply(t, ok)
    \/ \E s \in Sessions : ClearCounters(s)

Spec == Init /\ [][Next]_vars

-----------------------------------------------------------------------------
\* The agent of a message is that of a binding that matches it, which none of a better
\* priority does, nor an earlier one of the same; without one it is the agent of channels.
AgentIsNearest ==
    \A t \in Turns : turn[t].at = "run" =>
        LET fits == {i \in DOMAIN setup.bindings : Matches(setup.bindings[i], turn[t].context)}
            before(i, j) == \/ Priority(setup.bindings[i]) < Priority(setup.bindings[j])
                            \/ Priority(setup.bindings[i]) = Priority(setup.bindings[j]) /\ i <= j
        IN  IF fits = {} THEN turn[t].agent = "channel-agent"
            ELSE \E i \in fits : turn[t].agent = setup.bindings[i].agent /\ \A j \in fits : before(i, j)

\* Whatever turns overlap, the evolution state never runs ahead: not of the messages that
\* were counted, and its last evolution not of its count (the difference is taken unsigned).
CountsAreSound ==
    \A e \in (IF evo = None THEN {} ELSE {evo}) \cup {turn[t].evo : t \in Turns} :
        e.last <= e.count /\ e.count <= counted

\* As long as no two turns hold the state at once and every save succeeds, each evolution was
\* paid for by its own messages.
EvolutionsAreEarned == ~disturbed => evolved * Every <= counted

\* The copy of SOUL.md is from before the first evolution of the day, however many turns make
\* it at once.
SnapshotIsBefore == backup # None => backup = 0

\* No more replies of a session are captured than its cap allows.
CapturesAreCapped == \A s \in Sessions : captured[s] + MinMessages <= MaxCaptures + 1

\* Every evolution is paid for.  It does not hold: two turns that load the state one after the
\* other both see that it is time (1014).
EveryEvolutionIsEarned == evolved * Every <= counted

\* A flush marks a turn that the session has had.  It does not hold: a session that is reset
\* while the flush runs gets the mark of a turn that is yet to come (978).
MarksAreBehind == \A s \in Sessions : flushed[s] # None => flushed[s] <= turns[s]

\* What was said after the first conversation stays.  It does not hold: a turn that began
\* before its end clears all transcripts once more (841).
NewTranscriptsStay == wiped = {}

\* A session is flushed once when it nears its limit, as the comment at 891 has it.  It does
\* not hold: every turn is a round of its own.
FlushedOnce == \A t \in Turns : turn[t].at = "flush" => flushed[turn[t].session] = None

=============================================================================
