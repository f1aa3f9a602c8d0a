-------------------------- MODULE SubagentTargets --------------------------
(* Whom a call of the subagents tool means (crates/gateway-core/src/http/    *)
(* agent_bridge.rs): the agent sees its subagents in a list and names one of *)
(* them later by number, session, label or run id, while runs start, end,    *)
(* grow old and are archived.  What a kill does to a run in the middle of    *)
(* its cleanup is in SubagentRuns; here a call is one step and the matter is *)
(* which runs it takes.                                                      *)
EXTENDS Naturals, Sequences, FiniteSets, SequencesExt

CONSTANTS
    Runs,      \* run ids, in the order in which they may start
    Main,      \* the session of the agent that calls the tool
    Asked,     \* what each run may be spawned with: a set of [by : Main or a run, label : a word]
    Others,    \* other sessions of the gateway: a set of [key, label]
    Words,     \* what the agent may name a target by
    NumberOf,  \* the number a word is read as; None for the others
    KeyOf,     \* the session key (a run or one of Others' keys) a word with a ':' is
    Begins,    \* the pairs <<w, v>> where v begins with w
    IdWord,    \* the run id of each run, as a word
    MaxCalls,  \* bound: calls of the tool
    None

VARIABLES
    order,    \* SUBAGENT_RUNS in the order of started_at_ms, the newest last
    phase,    \* active, recent (ended within the window of the list) or old
    session,  \* child_session_key: named after the first run in it
    parent,   \* requester_session_key
    label,    \* the label of each run
    marked,   \* sessions whose metadata say terminated
    listed,   \* the last list the agent was shown
    told,     \* the last answer, with what it was about
    calls,    \* how many calls there were
    dropped   \* history: some run with active runs below it has left the registry

vars == <<order, phase, session, parent, label, marked, listed, told, calls, dropped>>

registry == <<order, phase, session, parent, label, dropped>>

Phases == {"none", "active", "recent", "old"}

Sessions == Runs \cup {Main}

Nothing == [op |-> "none", word |-> None, hit |-> None, took |-> {}, fit |-> {}]

Unlisted == [active |-> <<>>, recent |-> <<>>, current |-> FALSE]

TypeOK ==
    /\ order \in Seq(Runs) /\ IsInjective(order)
    /\ phase \in [Runs -> Phases]
    /\ session \in [Runs -> Runs \cup {None}]
    /\ parent \in [Runs -> Sessions \cup {None}]
    /\ DOMAIN label = Runs
    /\ marked \subseteq Runs
    /\ calls \in 0..MaxCalls
    /\ dropped \in BOOLEAN

Live == ToSet(order)

Active(r) == phase[r] = "active"

\* list_runs_for_requester: the caller's runs, the newest first.
Mine == SelectSeq(Reverse(order), LAMBDA r : parent[r] = Main)

ActivePart(runs) == SelectSeq(runs, Active)

RecentPart(runs) == SelectSeq(runs, LAMBDA r : phase[r] = "recent")

-----------------------------------------------------------------------------
(* resolve_subagent_target *)

Nobody == [run |-> None, error |-> "unknown"]

Hit(r) == [run |-> r, error |-> None]

\* The newest run, "last".
Newest(runs) == IF runs = <<>> THEN Nobody ELSE Hit(runs[1])

\* A likely slip: numbers count the runs as subagents_agents prints them.
NumericOrderAsPrinted(runs) == runs

\* Numbers go through the active runs and then the recent ones.
NumericOrder(runs) == ActivePart(runs) \o RecentPart(runs)

ByNumber(runs, n) ==
    LET numeric == NumericOrder(runs)
    IN  IF n \in 1..Len(numeric) THEN Hit(numeric[n]) ELSE [run |-> None, error |-> "index"]

BySession(runs, key) == Newest(SelectSeq(runs, LAMBDA r : session[r] = key))

\* Exactly one run must fit; more are an error, none leads to the next way to read the word.
OnlyOne(fitting, else) ==
    CASE Cardinality(fitting) = 1 -> Hit(CHOOSE r \in fitting : TRUE)
      [] Cardinality(fitting) > 1 -> [run |-> None, error |-> "ambiguous"]
      [] OTHER -> else

ByWord(runs, w) ==
    LET those == ToSet(runs)
    IN  OnlyOne({r \in those : label[r] = w},
          OnlyOne({r \in those : <<w, label[r]>> \in Begins},
            OnlyOne({r \in those : <<w, IdWord[r]>> \in Begins}, Nobody)))

Resolve(runs, w) ==
    CASE w = "last" -> Newest(runs)
      [] w # "last" /\ NumberOf[w] # None -> ByNumber(runs, NumberOf[w])
      [] w # "last" /\ NumberOf[w] = None /\ KeyOf[w] # None -> BySession(runs, KeyOf[w])
      [] OTHER -> ByWord(runs, w)

-----------------------------------------------------------------------------
(* The runs themselves *)

\* Something happened that the list does not show.
Outdated == listed' = [listed EXCEPT !.current = FALSE]

\* sessions_spawn, from the agent or from one of its active subagents.
Spawn(r, a) ==
    /\ phase[r] = "none"
    /\ \A q \in Runs : q < r => phase[q] # "none"
    /\ a.by # Main => a.by \in Live /\ Active(a.by)
    /\ order' = Append(order, r)
    /\ phase' = [phase EXCEPT ![r] = "active"]
    /\ session' = [session EXCEPT ![r] = r]
    /\ parent' = [parent EXCEPT ![r] = IF a.by = Main THEN Main ELSE session[a.by]]
    /\ label' = [label EXCEPT ![r] = a.label]
    /\ Outdated
    /\ told' = Nothing
    /\ UNCHANGED <<marked, calls, dropped>>

Finish(r) ==
    /\ r \in Live /\ Active(r)
    /\ phase' = [phase EXCEPT ![r] = "recent"]
    /\ Outdated
    /\ told' = Nothing
    /\ UNCHANGED <<order, session, parent, label, marked, calls, dropped>>

\* The end of a run falls out of the window that the list shows.
Age(r) ==
    /\ r \in Live /\ phase[r] = "recent"
    /\ phase' = [phase EXCEPT ![r] = "old"]
    /\ Outdated
    /\ told' = Nothing
    /\ UNCHANGED <<order, session, parent, label, marked, calls, dropped>>

\* sweep_archived_subagent_runs: every call sweeps before it looks, so a run may as well
\* leave the registry when its archive time, counted from its start, has come.
Sweep(r) ==
    /\ r \in Live /\ ~Active(r)
    /\ order' = SelectSeq(order, LAMBDA q : q # r)
    /\ dropped' = (dropped \/ \E q \in Live : Active(q) /\ parent[q] = session[r])
    /\ Outdated
    /\ told' = Nothing
    /\ UNCHANGED <<phase, session, parent, label, marked, calls>>

-----------------------------------------------------------------------------
(* The calls *)

Counted == calls < MaxCalls /\ calls' = calls + 1

\* A likely slip: only the runs that the session started itself.
BelowOnce(s) == {r \in Live : Active(r) /\ parent[r] = s}

\* The runs below a session that are still active, by the links between the entries of
\* the registry (collect_descendant_runs).
Below(s) ==
    LET Grow(sessions) == sessions \cup {session[r] : r \in {q \in Live : parent[q] \in sessions}}
        reached == FoldLeft(LAMBDA acc, r : Grow(acc), {s}, order)
    IN  {r \in Live : Active(r) /\ parent[r] \in reached}

\* subagents_list numbers both of its parts from one.
List ==
    /\ Counted
    /\ listed' = [active |-> ActivePart(Mine), recent |-> RecentPart(Mine), current |-> TRUE]
    /\ told' = Nothing
    /\ UNCHANGED <<registry, marked>>

\* What every call with a target does first.  fit: the runs the word is the label of.
Answer(op, w, hit, took) ==
    told' = [op |-> op, word |-> w, hit |-> hit, took |-> took,
             fit |-> {r \in ToSet(Mine) : label[r] = w}]

\* subagents_info and subagents_log show a run, subagents_send takes a turn in its session,
\* whether it has ended or not.
Look(w) ==
    /\ Counted
    /\ Answer("look", w, Resolve(Mine, w).run, {})
    /\ UNCHANGED <<registry, marked, listed>>

Info(w) == Look(w)

Log(w) == Look(w)

Send(w) == Look(w)

\* Kill the run and every active run below it, and mark their sessions.
KillTargets(r) == {r} \cup Below(session[r])

Stopped(targets) == [r \in Runs |-> IF r \in targets THEN "recent" ELSE phase[r]]

Kill(w) ==
    LET hit == Resolve(Mine, w).run
        doomed == IF hit # None /\ Active(hit) THEN KillTargets(hit) ELSE {}
    IN  /\ Counted
        /\ phase' = Stopped(doomed)
        /\ marked' = marked \cup {session[r] : r \in doomed}
        /\ Answer("kill", w, hit, doomed)
        /\ IF doomed = {} THEN UNCHANGED listed ELSE Outdated
        /\ UNCHANGED <<order, session, parent, label, dropped>>

KillAll ==
    LET doomed == UNION {KillTargets(r) : r \in ToSet(ActivePart(Mine))}
    IN  /\ Counted
        /\ phase' = Stopped(doomed)
        /\ marked' = marked \cup {session[r] : r \in doomed}
        /\ Answer("kill_all", None, None, doomed)
        /\ Outdated
        /\ UNCHANGED <<order, session, parent, label, dropped>>

\* Steering stops the run and starts another one in its session under the same label; the
\* old entry is removed.
Steer(w, next) ==
    LET hit == Resolve(Mine, w).run
    IN  /\ Counted
        /\ hit # None /\ Active(hit)
        /\ phase[next] = "none"
        /\ \A q \in Runs : phase[q] = "none" => q >= next
        /\ order' = Append(SelectSeq(order, LAMBDA q : q # hit), next)
        /\ phase' = [phase EXCEPT ![hit] = "old", ![next] = "active"]
        /\ session' = [session EXCEPT ![next] = session[hit]]
        /\ parent' = [parent EXCEPT ![next] = Main]
        /\ label' = [label EXCEPT ![next] = label[hit]]
        /\ Outdated
        /\ Answer("steer", w, hit, {hit})
        /\ UNCHANGED <<marked, dropped>>

\* A target that has ended, or none, is only answered.
SteerNothing(w) ==
    LET hit == Resolve(Mine, w).run
    IN  /\ Counted
        /\ hit # None => ~Active(hit)
        /\ Answer("steer", w, hit, {})
        /\ UNCHANGED <<registry, marked, listed>>

\* subagents_focus takes what resolve_subagent_target finds, or a session with this key, or
\* the only session with this label.  Here the sessions of runs are kept (cleanup = keep).
Labelled(w) ==
    {session[r] : r \in {q \in Runs : phase[q] # "none" /\ label[q] = w}}
    \cup {o.key : o \in {p \in Others : p.label = w}}

FocusSession(w) ==
    LET hit == Resolve(Mine, w).run
        keyed == {o.key : o \in {p \in Others : p.key = KeyOf[w]}}
                 \cup {session[r] : r \in {q \in Runs : phase[q] # "none" /\ session[q] = KeyOf[w]}}
    IN  CASE hit # None -> session[hit]
          [] hit = None /\ KeyOf[w] # None /\ keyed # {} -> KeyOf[w]
          [] hit = None /\ keyed = {} /\ Cardinality(Labelled(w)) = 1 -> CHOOSE s \in Labelled(w) : TRUE
          [] OTHER -> None

Focus(w) ==
    /\ Counted
    /\ Answer("focus", w, FocusSession(w), {})
    /\ UNCHANGED <<registry, marked, listed>>

-----------------------------------------------------------------------------
Init ==
    /\ order = <<>>
    /\ phase = [r \in Runs |-> "none"]
    /\ session = [r \in Runs |-> None]
    /\ parent = [r \in Runs |-> None]
    /\ label = [r \in Runs |-> None]
    /\ marked = {}
    /\ listed = Unlisted
    /\ told = Nothing
    /\ calls = 0
    /\ dropped = FALSE

\* What happens after the last call is not looked at.
RunStep ==
    \/ calls < MaxCalls /\ \E r \in Runs : \E a \in Asked[r] : Spawn(r, a)
    \/ calls < MaxCalls /\ \E r \in Runs : Finish(r)
    \/ calls < MaxCalls /\ \E r \in Runs : Age(r)
    \/ calls < MaxCalls /\ \E r \in Runs : Sweep(r)

CallStep ==
    \/ List
    \/ \E w \in Words : Info(w) \/ Log(w) \/ Send(w)
    \/ \E w \in Words : Kill(w)
    \/ KillAll
    \/ \E w \in Words, r \in Runs : Steer(w, r)
    \/ \E w \in Words : SteerNothing(w)
    \/ \E w \in Words : Focus(w)

Next == RunStep \/ CallStep

Spec == Init /\ [][Next]_vars

-----------------------------------------------------------------------------
(* Properties *)

Hits(r) == told.hit = r

Plain(w) == w # "last" /\ NumberOf[w] = None /\ KeyOf[w] = None

\* A number that the agent took from the active part of a list hits the run that the list
\* showed there, as long as nothing has happened to the runs since
\* (subagents_list and resolve_subagent_target agree on the order).
NumbersHold ==
    told.op # "none" /\ told.op \notin {"focus", "kill_all"} /\ told.word # "last" =>
        LET n == NumberOf[told.word]
        IN  listed.current /\ n # None =>
                (n \in 1..Len(listed.active) => Hits(listed.active[n]))

\* The same of the recent part.  It does not hold when there are active runs: that part is
\* numbered from one again, and the number hits an active run (5564, 3520).
RecentNumbersHold ==
    told.op = "look" /\ told.word # "last" =>
        LET n == NumberOf[told.word]
        IN  listed.current /\ n # None =>
                (n \in 1..Len(listed.recent) => Hits(listed.recent[n]))

\* A label that only one run of the agent has means this run, and one that several have is
\* refused, also when an older run or a longer label would fit: no call picks one of several.
LabelsHold ==
    told.op \in {"look", "kill", "steer"} /\ Plain(told.word) =>
        /\ Cardinality(told.fit) = 1 => told.hit \in told.fit
        /\ Cardinality(told.fit) > 1 => told.hit = None

\* A call stops only runs that the agent started, directly or through others, and nothing at
\* all unless it hit an active run of the agent itself.
Ancestors(r) ==
    LET Climb(s) == IF s = Main THEN {Main}
                    ELSE {s} \cup {parent[q] : q \in {p \in Runs : session[p] = s}}
    IN  FoldLeft(LAMBDA acc, q : UNION {Climb(s) : s \in acc}, {parent[r]}, SetToSeq(Runs))

StopsItsOwn ==
    /\ told.op \in {"kill", "kill_all", "steer"} => \A r \in told.took : Main \in Ancestors(r)
    /\ told.took # {} /\ told.op # "kill_all" => told.hit \in told.took

\* After a kill nothing below the runs that were hit is left running, however deep, unless a
\* run in between has been archived: its children are no longer found
\* (collect_descendant_runs follows the entries that are left).
KillTakesTheFamily ==
    /\ told.op \in {"kill", "kill_all"} /\ ~dropped =>
          \A r \in Live, t \in told.took : Active(r) => session[t] \notin Ancestors(r)
    /\ told.op = "kill_all" => \A r \in Live : Active(r) => parent[r] # Main

\* A kill of all leaves nothing running.  It does not hold: runs below one that has ended on
\* its own are not looked for (5933), though the answer may be "no running subagents to kill".
KillTakesEveryone == told.op = "kill_all" => ~\E r \in Live : Active(r)

\* No two entries of the registry run in one session: a steered run is replaced.
OneRunPerSession ==
    \A r, q \in Live : Active(r) /\ Active(q) /\ session[r] = session[q] => r = q

\* A session that is marked terminated runs nothing, so no list that leaves such sessions
\* out (sessions_list with active_only) hides a run.
MarkedIsStopped == \A r \in Live : Active(r) => session[r] \notin marked

=============================================================================
