------------------------------ MODULE SelfUpdate ------------------------------
(* update.run (crates/gateway-core/src/http.rs): pull the sources, build     *)
(* them, leave a note for the next start in a file that is written beside    *)
(* and renamed, and schedule the end of the server.  A step that takes too   *)
(* long is given up by the call but its command is not stopped, and nothing  *)
(* keeps two calls apart.                                                    *)
EXTENDS Naturals, FiniteSets

CONSTANTS
    Calls, Wanted,    \* the calls, and which of them ask for the restart
    MaxVersion,       \* bound on versions of the sources
    None

VARIABLES
    remote, tree, binary,  \* version that can be pulled, that is checked out, that is built (None: of several)
    git,              \* the calls whose pull runs
    cargo,            \* [by, from] of the build that runs, or None
    call,             \* [at, ok, version] by call
    tmp, sentinel,    \* whose note is in the file beside and in the file
    due, down,        \* scheduled ends of the server; it has ended
    crossed           \* history: two calls were under way at once, or one gave up a command

vars == <<remote, tree, binary, git, cargo, call, tmp, sentinel, due, down, crossed>>

Idle == [at |-> "new", ok |-> FALSE, version |-> 0]
Over == {"new", "answered", "error", "panicked"}

TypeOK ==
    /\ remote \in 0..MaxVersion /\ tree \in 0..MaxVersion /\ binary \in 0..MaxVersion \cup {None}
    /\ git \subseteq Calls /\ due \subseteq Calls /\ tmp \in Calls \cup {None} /\ sentinel \in Calls \cup {None}

Put(c, v) == call' = [call EXCEPT ![c] = v]

\* Someone pushes.
Push ==
    /\ remote < MaxVersion
    /\ remote' = remote + 1
    /\ UNCHANGED <<tree, binary, git, cargo, call, tmp, sentinel, due, down, crossed>>

\* rpc_update_run starts the pull.
Start(c) ==
    /\ call[c].at = "new" /\ ~down /\ \A d \in Calls : d < c => call[d].at # "new"
    /\ git' = git \cup {c}
    /\ Put(c, [Idle EXCEPT !.at = "pull"])
    /\ crossed' = (crossed \/ git # {} \/ cargo # None \/ \E d \in Calls : call[d].at \notin Over)
    /\ UNCHANGED <<remote, tree, binary, cargo, tmp, sentinel, due, down>>

\* run_update_step and command_output_tail: the tail of a long output is cut at a byte, which may
\* be inside a character.
StepEnds(c, at, ok, odd) ==
    IF call[c].at # at THEN call' = call
    ELSE IF odd THEN Put(c, [Idle EXCEPT !.at = "panicked"])
    ELSE Put(c, [call[c] EXCEPT !.at = IF at = "pull" /\ ok THEN "ready" ELSE "note", !.ok = ok])

\* git pull --ff-only ends, whether or not its call still waits for it; one that finds another at
\* work fails.
GitEnds(c, ok, odd) ==
    /\ c \in git /\ (ok => git = {c})
    /\ git' = git \ {c}
    /\ tree' = IF ok THEN remote ELSE tree
    /\ cargo' = IF cargo # None /\ ok /\ tree # remote THEN [cargo EXCEPT !.from = None] ELSE cargo
    /\ StepEnds(c, "pull", ok, odd)
    /\ UNCHANGED <<remote, binary, tmp, sentinel, due, down, crossed>>

\* cargo build --workspace waits for the lock of the build directory.
BuildStarts(c) ==
    /\ call[c].at = "ready" /\ cargo = None
    /\ cargo' = [by |-> c, from |-> tree]
    /\ Put(c, [call[c] EXCEPT !.at = "build", !.version = tree])
    /\ UNCHANGED <<remote, tree, binary, git, tmp, sentinel, due, down, crossed>>

BuildEnds(ok, odd) ==
    /\ cargo # None
    /\ cargo' = None
    /\ binary' = IF ok THEN cargo.from ELSE binary
    /\ StepEnds(cargo.by, "build", ok, odd)
    /\ UNCHANGED <<remote, tree, git, tmp, sentinel, due, down, crossed>>

\* The time of a step is over: its call goes on as if it had failed.
TimesOut(c) ==
    /\ call[c].at \in {"pull", "ready", "build"}
    /\ Put(c, [call[c] EXCEPT !.at = "note", !.ok = FALSE])
    /\ crossed' = TRUE
    /\ UNCHANGED <<remote, tree, binary, git, cargo, tmp, sentinel, due, down>>

\* write_restart_sentinel: the note is written beside the file, then renamed.
WriteNote(c, ok) ==
    /\ call[c].at = "note"
    /\ tmp' = IF ok THEN c ELSE tmp
    /\ Put(c, IF ok THEN [call[c] EXCEPT !.at = "rename"] ELSE [Idle EXCEPT !.at = "error"])
    /\ UNCHANGED <<remote, tree, binary, git, cargo, sentinel, due, down, crossed>>

RenameNote(c) ==
    /\ call[c].at = "rename"
    /\ IF tmp = None
       THEN Put(c, [Idle EXCEPT !.at = "error"]) /\ UNCHANGED <<tmp, sentinel, due>>
       ELSE /\ sentinel' = tmp /\ tmp' = None
            /\ due' = IF call[c].ok /\ c \in Wanted THEN due \cup {c} ELSE due
            /\ Put(c, [call[c] EXCEPT !.at = "answered"])
    /\ UNCHANGED <<remote, tree, binary, git, cargo, down, crossed>>

\* The delay is over: the server ends.
Shutdown(c) ==
    /\ c \in due
    /\ due' = due \ {c} /\ down' = TRUE
    /\ UNCHANGED <<remote, tree, binary, git, cargo, call, tmp, sentinel, crossed>>

Init ==
    /\ remote = 1 /\ tree = 0 /\ binary = 0 /\ git = {} /\ cargo = None
    /\ call = [c \in Calls |-> Idle] /\ tmp = None /\ sentinel = None /\ due = {} /\ down = FALSE /\ crossed = FALSE

Next ==
    \/ Push
    \/ \E c \in Calls : Start(c) \/ BuildStarts(c) \/ TimesOut(c) \/ RenameNote(c) \/ Shutdown(c)
    \/ \E c \in Calls, ok \in BOOLEAN, odd \in BOOLEAN : GitEnds(c, ok, odd)
    \/ \E ok \in BOOLEAN, odd \in BOOLEAN : BuildEnds(ok, odd)
    \/ \E c \in Calls, ok \in BOOLEAN : WriteNote(c, ok)

Spec == Init /\ [][Next]_vars

-----------------------------------------------------------------------------
\* The server is ended only by a call that pulled, built and left a note, whatever other calls do.
RestartIsEarned ==
    /\ \A c \in due : call[c].at = "answered" /\ call[c].ok /\ c \in Wanted /\ sentinel # None
    /\ down => \E c \in Wanted : call[c].at = "answered" /\ call[c].ok

\* A note is always that of a call that came to its end.
NoteIsOfACall == sentinel # None => call[sentinel].at \notin {"new", "pull", "ready", "build", "note", "panicked"}

\* With one call at a time and all steps in time, the server ends with a program that was built
\* from one version, the one that was pulled, and the last note is that of the last answer.
RestartIsUpdated ==
    ~crossed =>
        /\ \A c \in Calls : call[c].at \in {"note", "rename", "answered"} /\ call[c].ok => binary # None /\ binary >= call[c].version
        /\ sentinel # None => \A c \in Calls : call[c].at = "answered" => c <= sentinel

\* What a call is about to rename is its own note.  It does not hold: two calls share the file
\* beside (7374).
NoteIsOwn == \A c \in Calls : call[c].at = "rename" => tmp = c

\* A command that was given up is over.  It does not hold: it is not stopped (7324).
GivenUpIsOver == \A c \in Calls : call[c].at = "answered" => c \notin git /\ (cargo = None \/ cargo.by # c)

\* The program is built from one version.  It does not hold: a second pull may come during a build.
BuiltIsWhole == binary # None

\* A call leaves a note.  It does not hold: the tail of an output may be cut inside a character (7311).
NoteIsLeft == \A c \in Calls : call[c].at # "panicked"

=============================================================================
