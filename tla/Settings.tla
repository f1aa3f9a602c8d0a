------------------------------ MODULE Settings ------------------------------
(* The settings of the gateway (crates/gateway-core/src/http.rs): the        *)
(* configuration in memory and its file, the copies that config.*,           *)
(* voicewake.set, skills.update and exec.approvals.set keep beside it, and   *)
(* the approvals files of the gateway and of a node.  Every map has its own  *)
(* lock, so a call is several steps, and calls of several clients overlap.   *)
EXTENDS Naturals, FiniteSets

CONSTANTS
    Clients,    \* clients, each with one call; the value it sets is its name
    Mixes,      \* the calls they may make: a kind of call for each client
    MaxFaults,  \* bound: failed writes and restarts
    None        \* no value, not loaded

VARIABLES
    kind,     \* the call of each client
    call,     \* where it is, and the approvals it has seen
    config,   \* full_config
    disk,     \* the configuration file
    live,     \* voicewake_triggers, skill_overrides, the approvals snapshots
    afile,    \* exec-approvals.json of the gateway and of the node
    stale,    \* whether the last write of the configuration failed
    faults,   \* failed writes and restarts so far
    raced     \* history: what calls that overlapped have worked on, see Clash

vars == <<kind, call, config, disk, live, afile, stale, faults, raced>>

Fields == {"rest", "voicewake", "skills", "approvals"}
Stores == {"approvals", "node"}
Default == "default"
Values == Clients \cup {Default}

Over == {"done", "refused", "failed", "cut"}

Init ==
    /\ kind \in Mixes
    /\ call = [c \in Clients |-> [at |-> "new", seen |-> None]]
    /\ config = [f \in Fields |-> Default] /\ disk = config
    /\ live = [f \in {"voicewake", "skills", "approvals", "node"} |-> IF f \in {"skills", "node"} THEN None ELSE Default]
    /\ afile = [f \in Stores |-> None]
    /\ stale = FALSE /\ faults = 0 /\ raced = {}

-----------------------------------------------------------------------------
To(c, at) == call' = [call EXCEPT ![c].at = at]

\* load_node_exec_approvals_snapshot: the copy in memory, or the file, or the default.  The
\* snapshot of the gateway is only ever in memory.
Loaded(f) == CASE live[f] # None -> live[f]
               [] live[f] = None -> IF afile[f] # None THEN afile[f] ELSE Default

\* exec.approvals.get, exec.approvals.node.get: the client learns the base hash.
Look(c) ==
    /\ call[c].at = "new" /\ kind[c] \in Stores
    /\ call' = [call EXCEPT ![c] = [at |-> "looked", seen |-> Loaded(kind[c])]]
    /\ live' = [live EXCEPT ![kind[c]] = Loaded(kind[c])]
    /\ UNCHANGED <<kind, config, disk, afile, stale, faults>>


\* exec.approvals.set: the base hash is compared when there is a file.
Check(c) ==
    LET f == kind[c]
    IN /\ call[c].at = "looked"
       /\ To(c, IF afile[f] = None \/ call[c].seen = Loaded(f) THEN "checked" ELSE "refused")
       /\ live' = [live EXCEPT ![f] = Loaded(f)]
       /\ UNCHANGED <<kind, config, disk, afile, stale, faults>>

Begin(c, k, at) == kind[c] = k /\ call[c].at = at

\* Mutant: the change starts from the file.
ChangedOfFile(c, F) == config' = [f \in Fields |-> IF f \in F THEN c ELSE disk[f]]

\* Under the write lock the call changes its part of the configuration and leaves the rest.
Changed(c, F) == config' = [f \in Fields |-> IF f \in F THEN c ELSE config[f]]

\* config.set: the whole configuration.
ConfigSet(c) ==
    /\ Begin(c, "set", "new") /\ Changed(c, Fields) /\ To(c, "changed")
    /\ UNCHANGED <<kind, disk, live, afile, stale, faults>>

\* PUT /api/config/full: the file first, then the memory.
PutFile(c) ==
    /\ Begin(c, "put", "new") /\ disk' = [f \in Fields |-> c] /\ To(c, "filed")
    /\ UNCHANGED <<kind, config, live, afile, stale, faults>>

PutFileFails(c) ==
    /\ Begin(c, "put", "new") /\ faults < MaxFaults
    /\ faults' = faults + 1 /\ To(c, "failed")
    /\ UNCHANGED <<kind, config, disk, live, afile, stale>>

PutMemory(c) ==
    /\ Begin(c, "put", "filed") /\ Changed(c, Fields) /\ stale' = FALSE /\ To(c, "done")
    /\ UNCHANGED <<kind, disk, live, afile, faults>>

\* Mutant: config.patch returns without saving.
ConfigPatchUnsaved(c) ==
    /\ Begin(c, "patch", "new") /\ Changed(c, {"rest"}) /\ To(c, "done")
    /\ UNCHANGED <<kind, disk, live, afile, stale, faults>>

\* config.patch, config.apply: deep_merge_json into the configuration.
ConfigPatch(c) ==
    /\ Begin(c, "patch", "new") /\ Changed(c, {"rest"}) /\ To(c, "changed")
    /\ UNCHANGED <<kind, disk, live, afile, stale, faults>>

\* skills.update: the configuration, then the override in memory.
SkillsChange(c) ==
    /\ Begin(c, "skills", "new") /\ Changed(c, {"skills"}) /\ To(c, "merged")
    /\ UNCHANGED <<kind, disk, live, afile, stale, faults>>

SetLive(c) == live' = [live EXCEPT ![kind[c]] = c]

SkillsLive(c) ==
    /\ Begin(c, "skills", "merged") /\ SetLive(c) /\ To(c, "changed")
    /\ UNCHANGED <<kind, config, disk, afile, stale, faults>>

\* Mutant: voicewake.set goes on as the approvals of a node do.
VoicewakeLiveOnly(c) ==
    /\ Begin(c, "voicewake", "new") /\ SetLive(c) /\ To(c, "saved")
    /\ UNCHANGED <<kind, config, disk, afile, stale, faults>>

\* voicewake.set: the triggers in memory, then the configuration.
VoicewakeLive(c) ==
    /\ Begin(c, "voicewake", "new") /\ SetLive(c) /\ To(c, "live")
    /\ UNCHANGED <<kind, config, disk, afile, stale, faults>>

VoicewakeChange(c) ==
    /\ Begin(c, "voicewake", "live") /\ Changed(c, {"voicewake"}) /\ To(c, "changed")
    /\ UNCHANGED <<kind, disk, live, afile, stale, faults>>

\* exec.approvals.set after the check: the snapshot, then the configuration.
ApprovalsLive(c) ==
    /\ Begin(c, "approvals", "checked") /\ SetLive(c) /\ To(c, "live")
    /\ UNCHANGED <<kind, config, disk, afile, stale, faults>>

ApprovalsChange(c) ==
    /\ Begin(c, "approvals", "live") /\ Changed(c, {"approvals"}) /\ To(c, "changed")
    /\ UNCHANGED <<kind, disk, live, afile, stale, faults>>

\* exec.approvals.node.set after the check: the snapshot of the node.
NodeLive(c) ==
    /\ Begin(c, "node", "checked") /\ SetLive(c) /\ To(c, "saved")
    /\ UNCHANGED <<kind, config, disk, afile, stale, faults>>

\* persist_full_config: the file is written while the read lock is held.
Persist(c) ==
    /\ call[c].at = "changed"
    /\ disk' = config /\ stale' = FALSE
    /\ To(c, IF kind[c] = "approvals" THEN "saved" ELSE "done")
    /\ UNCHANGED <<kind, config, live, afile, faults>>

\* The write fails: the call returns an error and leaves the memory changed.
PersistFails(c) ==
    /\ call[c].at = "changed" /\ faults < MaxFaults
    /\ stale' = TRUE /\ faults' = faults + 1 /\ To(c, "failed")
    /\ UNCHANGED <<kind, config, disk, live, afile>>

\* exec-approvals.json, and the answer.
WriteFile(c) ==
    /\ call[c].at = "saved"
    /\ afile' = [afile EXCEPT ![kind[c]] = c]
    /\ To(c, "done")
    /\ UNCHANGED <<kind, config, disk, live, stale, faults>>

WriteFileFails(c) ==
    /\ call[c].at = "saved" /\ faults < MaxFaults
    /\ faults' = faults + 1 /\ To(c, "failed")
    /\ UNCHANGED <<kind, config, disk, live, afile, stale>>

\* Mutant: the triggers are not read from the configuration.
RestartedWithDefaults == [f \in DOMAIN live |-> IF f \in {"skills", "node"} THEN None ELSE Default]

\* into_router: what a new gateway starts with.  The snapshot of the approvals is not read
\* from its file.
Restarted ==
    [f \in DOMAIN live |-> CASE f = "voicewake" -> disk[f]
                             [] f = "approvals" -> Default
                             [] OTHER -> None]

\* The gateway stops in the middle of its calls and starts again.
Restart ==
    /\ faults < MaxFaults /\ faults' = faults + 1
    /\ config' = disk /\ stale' = FALSE
    /\ live' = Restarted
    /\ call' = [c \in Clients |-> IF call[c].at \in Over \cup {"new", "looked"} THEN call[c] ELSE [call[c] EXCEPT !.at = "cut"]]
    /\ UNCHANGED <<kind, disk, afile>>

-----------------------------------------------------------------------------
Step(c) ==
    \/ ConfigSet(c) \/ ConfigPatch(c) \/ PutFile(c) \/ PutFileFails(c) \/ PutMemory(c)
    \/ SkillsChange(c) \/ SkillsLive(c)
    \/ VoicewakeLive(c) \/ VoicewakeChange(c)
    \/ Look(c) \/ Check(c) \/ ApprovalsLive(c) \/ ApprovalsChange(c) \/ NodeLive(c)
    \/ Persist(c) \/ PersistFails(c) \/ WriteFile(c) \/ WriteFileFails(c)

\* No lock is held from one step of a call to the next.  What a step of c may disturb for
\* others, or they for c: the configuration when one of them is a PUT, which writes the file
\* and the memory in two steps, and approvals that both set.
Clash(c) ==
    LET others == {d \in Clients \ {c} : call[d].at \notin Over \cup {"new", "looked"}}
    IN {k \in {"put"} : \E d \in others : k \in {kind[c], kind[d]}}
       \cup {k \in Stores : \E d \in others : k = kind[c] /\ k = kind[d]}

Next ==
    \/ \E c \in Clients : Step(c) /\ raced' = raced \cup Clash(c)
    \/ Restart /\ UNCHANGED raced

Spec == Init /\ [][Next]_vars

-----------------------------------------------------------------------------
TypeOK ==
    /\ kind \in Mixes
    /\ \A c \in Clients : /\ call[c].at \in {"new", "looked", "checked", "live", "merged", "changed", "saved", "filed"} \cup Over
                          /\ call[c].seen \in Values \cup {None}
                          /\ call[c].at = "saved" => kind[c] \in Stores
    /\ config \in [Fields -> Values] /\ disk \in [Fields -> Values]
    /\ live.voicewake \in Values /\ live.approvals \in Values
    /\ live.skills \in Values \cup {None} /\ live.node \in Values \cup {None}
    /\ afile \in [Stores -> Values \cup {None}] /\ stale \in BOOLEAN /\ faults \in 0..MaxFaults
    /\ raced \subseteq {"put"} \cup Stores

\* The part of the configuration that the call of c sets.
Sets(c) == CASE kind[c] \in {"set", "put"} -> Fields [] kind[c] = "patch" -> {"rest"}
             [] kind[c] = "node" -> {} [] OTHER -> {kind[c]}

Unsaved == {c \in Clients : call[c].at \in {"merged", "changed", "filed"}}

Follows == Unsaved = {} /\ ~stale => disk = config

\* Whenever no call is between its change and its save, the file is the configuration in
\* memory, unless the last write failed: no call saves an older configuration over a newer.
\* A PUT that overlaps another call may leave the two different (put_full_config writes the
\* file first and the memory later, without a lock), and then nothing is said.
FileFollows == "put" \notin raced => Follows

Kept ==
    \A c \in Clients : call[c].at = "done" =>
        \A f \in Sets(c) : config[f] = c \/ \E d \in Clients \ {c} : f \in Sets(d) /\ config[f] = d

\* What a call has set stays set, in memory and across restarts, until another call sets
\* the same part: calls that change different parts do not undo each other, however they
\* overlap, unless one of them is a PUT.
ChangesAreKept == "put" \notin raced => Kept

\* When nothing is in progress the triggers and the skill settings in use are those of the
\* configuration, also after a restart, unless their part was set by several calls.
CopiesAgree ==
    \A f \in {"voicewake", "skills"} :
        /\ \A c \in Clients : f \in Sets(c) => call[c].at \in {"new", "done"}
        /\ Cardinality({c \in Clients : f \in Sets(c)}) <= 1
        /\ \A c \in Clients : f \in Sets(c) => kind[c] \notin {"set", "put"}
        => live[f] \in {config[f], None}

\* A step that overwrites the approvals f is taken by a client that had loaded them, or had
\* loaded approvals of which the write failed, unless two calls that set f have overlapped:
\* the hash is compared before the lock for writing is taken.
OverwritesSeen(f) ==
    f \notin raced' /\ afile'[f] # afile[f] /\ afile[f] # None =>
        \E c \in Clients : /\ afile'[f] = c
                         /\ \/ call[c].seen = afile[f]
                            \/ \E d \in Clients : call[d].at = "failed" /\ call[c].seen = d

\* The approvals of a node are only overwritten by a client that has seen them, as long as
\* calls that set them do not overlap: the base hash stops a client that looked too early,
\* also when the gateway was restarted in between.
NodeApprovalsWereSeen == [][OverwritesSeen("node")]_vars

\* The same for the approvals of the gateway ("exec approvals changed since last load;
\* re-run exec.approvals.get and retry").
ApprovalsWereSeen == [][OverwritesSeen("approvals")]_vars
=============================================================================
