------------------------------- MODULE Skills -------------------------------
(* skills.status, skills.install and skills.update (crates/gateway-core/src/ *)
(* http.rs), the gates and installers of crates/skills-core, and the /skill  *)
(* command.  Installers are programs that run beside each other; downloads   *)
(* share one file per kind of archive.  Whether a skill is enabled is kept   *)
(* twice: in the configuration and in overrides that are looked at first.    *)
EXTENDS Naturals, Sequences, FiniteSets

CONSTANTS
    Skills,    \* skills with a SKILL.md
    Manifest,  \* of each: [key, bins, any, ready, specs]; ready: system, variables and settings do
    Bins,      \* programs
    Present,   \* those on the PATH at first
    Managers,  \* node package managers, in the order they are tried
    Brew,      \* the configuration prefers brew
    Builtin,   \* skills of the registry: [id, names, needs]
    Calls,     \* calls of one run
    MaxSets,   \* bound on changes to the configuration and restarts
    None

VARIABLES
    bins,       \* programs on the PATH
    temp,       \* the archive in each shared file, or None
    unpacked,   \* which archive each download left in its directory, or None
    mem, file,  \* enabled or not, by the id it was set under: in memory, on file; or None
    overrides,  \* the same for this process
    call,       \* the calls
    sets,       \* changes to the configuration and restarts so far
    latest      \* history: the last setting of each id that was told done and not changed since

vars == <<bins, temp, unpacked, mem, file, overrides, call, sets, latest>>

\* A setting is kept under the key of the skill or under its name.
Ids == Skills \cup {Manifest[s].key : s \in Skills}

SpecsOf(s) == DOMAIN Manifest[s].specs
Spec0(s, i) == Manifest[s].specs[i]
Downloads == {<<s, i>> \in UNION {{<<s, i>> : i \in SpecsOf(s)} : s \in Skills} :
                Spec0(s, i).kind \in {"zip", "tar"}}

Words == UNION {{b.id} \cup b.names : b \in Builtin} \cup {"other"}

Idle == [at |-> "new", skill |-> None, spec |-> 0, raced |-> FALSE, id |-> None, enabled |-> None,
         offers |-> {}, eligible |-> FALSE, disabled |-> FALSE, told |-> None]

TypeOK ==
    /\ bins \subseteq Bins
    /\ DOMAIN temp = {"zip", "tar"} /\ DOMAIN unpacked = Downloads
    /\ \A f \in {mem, file, overrides, latest} : DOMAIN f = Ids /\ \A i \in Ids : f[i] \in BOOLEAN \cup {None}
    /\ sets \in 0..MaxSets
    /\ \A c \in Calls : call[c].at \in {"new", "run", "fetch", "unpack", "late", "save", "done"}

-----------------------------------------------------------------------------
\* check_gates: every program, one of the alternatives, and what else the skill asks for.
GateAnyOf(s) == Manifest[s].any = {} \/ Manifest[s].any \cap bins # {}
Gate(s) == Manifest[s].ready /\ Manifest[s].bins \subseteq bins /\ GateAnyOf(s)

\* resolve_skill_disabled_from_overrides and ..._from_config_snapshot: the entry under the key
\* or else under the name; an entry that says nothing ends the search.
Entry(f, s) == IF f[Manifest[s].key] # None THEN f[Manifest[s].key] ELSE f[s]
Disabled(s) ==
    IF Entry(overrides, s) # None THEN ~Entry(overrides, s)
    ELSE Entry(mem, s) # None /\ ~Entry(mem, s)

\* resolve_skills_install_preferences: the first package manager that is there, or npm.
NodeManager ==
    IF \E i \in DOMAIN Managers : Managers[i] \in bins
    THEN Managers[CHOOSE i \in DOMAIN Managers :
                    Managers[i] \in bins /\ \A j \in 1..(i - 1) : Managers[j] \notin bins]
    ELSE "npm"

\* normalize_skill_install_options: all of them when all are downloads; otherwise the first of
\* the best kind whose tool is there, a download, or simply the first.
Fitting(s) == {i \in SpecsOf(s) : Spec0(s, i).fits}
First(s, kinds) == {i \in Fitting(s) : Spec0(s, i).kind \in kinds /\
                        \A j \in Fitting(s) : Spec0(s, j).kind \in kinds => i <= j}
Ranking ==
    (IF Brew THEN <<"brew">> ELSE <<>>) \o <<"uv", "node", "brew", "go">>
Tool(kind) == IF kind = "node" THEN NodeManager ELSE kind
Offers(s) ==
    LET usable == {r \in DOMAIN Ranking : Tool(Ranking[r]) \in bins /\ First(s, {Ranking[r]}) # {}}
    IN  CASE Fitting(s) # {} /\ \A i \in Fitting(s) : Spec0(s, i).kind \in {"zip", "tar"} -> Fitting(s)
          [] Fitting(s) # {} /\ ~(\A i \in Fitting(s) : Spec0(s, i).kind \in {"zip", "tar"}) /\ usable # {} ->
                First(s, {Ranking[CHOOSE r \in usable : \A q \in usable : r <= q]})
          [] OTHER -> IF First(s, {"zip", "tar"}) # {} THEN First(s, {"zip", "tar"})
                      ELSE {i \in Fitting(s) : \A j \in Fitting(s) : i <= j}

Put(c, v) == call' = [call EXCEPT ![c] = v]

\* skills.status, for one skill.
Status(c, s) ==
    /\ call[c].at = "new"
    /\ Put(c, [Idle EXCEPT !.at = "done", !.skill = s, !.told = "status", !.offers = Offers(s),
                           !.disabled = Disabled(s), !.eligible = Gate(s) /\ ~Disabled(s)])
    /\ UNCHANGED <<bins, temp, unpacked, mem, file, overrides, sets, latest>>

\* skills.install: the gates come first, also those that the installer would open.
Install(c, s, i) ==
    /\ call[c].at = "new"
    /\ Put(c, CASE ~Gate(s) -> [Idle EXCEPT !.at = "done", !.skill = s, !.told = "gated"]
                [] Gate(s) /\ i \notin SpecsOf(s) ->
                     [Idle EXCEPT !.at = "done", !.skill = s,
                                  !.told = IF SpecsOf(s) = {} THEN "nothing" ELSE "missing"]
                [] OTHER -> [Idle EXCEPT !.skill = s, !.spec = i,
                                         !.at = IF Spec0(s, i).kind \in {"zip", "tar"} THEN "fetch" ELSE "run"])
    /\ UNCHANGED <<bins, temp, unpacked, mem, file, overrides, sets, latest>>

\* run_cmd ends: the program says yes or no, cannot be started, or takes too long, in which
\* case it goes on unwatched.
Spec1(c) == Spec0(call[c].skill, call[c].spec)
Command(kind) == IF kind = "node" THEN "npm" ELSE kind

Run(c, how) ==
    /\ call[c].at = "run"
    /\ how \in {"ok", "late"} => Spec1(c).complete /\ Command(Spec1(c).kind) \in bins
    /\ bins' = IF how = "ok" THEN bins \cup Spec1(c).bins ELSE bins
    /\ Put(c, [call[c] EXCEPT !.at = IF how = "late" THEN "late" ELSE "done",
                              !.told = IF how = "ok" THEN "installed" ELSE "failed"])
    /\ UNCHANGED <<temp, unpacked, mem, file, overrides, sets, latest>>

\* install_download: curl writes a file that every download of this kind of archive uses (for
\* a tar archive the piped form fails first: a bar is no pipe without a shell).
Overwritten(c) ==
    [d \in Calls |-> IF d # c /\ call[d].at = "unpack" /\ Spec1(d).kind = Spec1(c).kind
                     THEN [call[d] EXCEPT !.raced = TRUE] ELSE call[d]]

Fetch(c, how) ==
    /\ call[c].at = "fetch"
    /\ how \in {"ok", "late"} => Spec1(c).complete /\ "curl" \in bins
    /\ temp' = IF how = "ok" THEN [temp EXCEPT ![Spec1(c).kind] = <<call[c].skill, call[c].spec>>] ELSE temp
    /\ call' = [(IF how = "ok" THEN Overwritten(c) ELSE call) EXCEPT
                  ![c].at = CASE how = "ok" -> "unpack" [] how = "late" -> "late" [] OTHER -> "done",
                  ![c].told = IF how = "ok" THEN None ELSE "failed"]
    /\ UNCHANGED <<bins, unpacked, mem, file, overrides, sets, latest>>

\* The program that took too long ends after all.
RunLate(c) ==
    /\ call[c].at = "late"
    /\ IF Spec1(c).kind \in {"zip", "tar"}
       THEN /\ temp' = [temp EXCEPT ![Spec1(c).kind] = <<call[c].skill, call[c].spec>>]
            /\ call' = [Overwritten(c) EXCEPT ![c].at = "done"]
            /\ UNCHANGED bins
       ELSE /\ bins' = bins \cup Spec1(c).bins
            /\ Put(c, [call[c] EXCEPT !.at = "done"])
            /\ UNCHANGED temp
    /\ UNCHANGED <<unpacked, mem, file, overrides, sets, latest>>

\* Unpacking: one that took too long is told failed and leaves its files all the same.
Unpack(c, told, left) ==
    LET kind == Spec1(c).kind
    IN  /\ call[c].at = "unpack"
        /\ told = "installed" => left
        /\ unpacked' = IF left THEN [unpacked EXCEPT ![<<call[c].skill, call[c].spec>>] = temp[kind]] ELSE unpacked
        /\ bins' = IF left THEN bins \cup Spec0(temp[kind][1], temp[kind][2]).bins ELSE bins
        /\ Put(c, [call[c] EXCEPT !.at = "done", !.told = told])
        /\ UNCHANGED <<temp, mem, file, overrides, sets, latest>>

-----------------------------------------------------------------------------
\* skills.update: the configuration in memory, the override, then the file.
Update(c, id, enabled) ==
    /\ call[c].at = "new"
    /\ mem' = [mem EXCEPT ![id] = enabled]
    /\ overrides' = [overrides EXCEPT ![id] = enabled]
    /\ Put(c, [Idle EXCEPT !.at = "save", !.id = id, !.enabled = enabled])
    /\ latest' = [latest EXCEPT ![id] = None]
    /\ UNCHANGED <<bins, temp, unpacked, file, sets>>

Saved(c, written) ==
    /\ call[c].at = "save"
    /\ file' = IF written THEN mem ELSE file
    /\ Put(c, [call[c] EXCEPT !.at = "done", !.told = IF written THEN "updated" ELSE "failed"])
    /\ latest' = IF written /\ mem[call[c].id] = call[c].enabled
                 THEN [latest EXCEPT ![call[c].id] = call[c].enabled] ELSE latest
    /\ UNCHANGED <<bins, temp, unpacked, mem, overrides, sets>>

\* config.set or an editor of the file changes an entry (Settings has the calls); a restart.
ConfigSet(id, enabled) ==
    /\ sets < MaxSets /\ sets' = sets + 1
    /\ mem' = [mem EXCEPT ![id] = enabled] /\ file' = mem'
    /\ latest' = [latest EXCEPT ![id] = None]
    /\ UNCHANGED <<bins, temp, unpacked, overrides, call>>

Restart ==
    /\ sets < MaxSets /\ sets' = sets + 1
    /\ mem' = file /\ overrides' = [i \in Ids |-> None]
    /\ call' = [c \in Calls |-> IF call[c].at \in {"new", "done"} THEN call[c]
                                ELSE [call[c] EXCEPT !.at = "done"]]
    /\ UNCHANGED <<bins, temp, unpacked, file, latest>>

\* The /skill command, in a channel or through chat.send: the registry knows a skill by its
\* id, its name or its id with dashes; a skill that needs permissions is run only for a
\* message that brings them, and chat.send never does.
Permitted(b, granted) == b.needs = {} \/ "*" \in granted \/ b.needs \subseteq granted
Invoke(c, word, granted) ==
    LET found == {b \in Builtin : word = b.id \/ word \in b.names}
    IN  /\ call[c].at = "new"
        /\ \E b \in IF found = {} THEN {None} ELSE found :
             Put(c, [Idle EXCEPT !.at = "done", !.skill = IF b = None THEN None ELSE b.id,
                       !.told = CASE b = None -> "agent"
                                  [] b # None /\ Permitted(b, granted) -> "ran"
                                  [] OTHER -> "denied"])
        /\ UNCHANGED <<bins, temp, unpacked, mem, file, overrides, sets, latest>>

\* try_execute_chat_skill_command and try_execute_skill.
ChatSkill(c, word) == Invoke(c, word, {})
ChannelSkill(c, word, granted) == Invoke(c, word, granted)

-----------------------------------------------------------------------------
Init ==
    /\ bins = Present
    /\ temp = [k \in {"zip", "tar"} |-> None]
    /\ unpacked = [d \in Downloads |-> None]
    /\ mem = [i \in Ids |-> None] /\ file = mem /\ overrides = mem /\ latest = mem
    /\ call = [c \in Calls |-> Idle]
    /\ sets = 0

Next ==
    \/ \E c \in Calls, s \in Skills : Status(c, s)
    \/ \E c \in Calls, s \in Skills, i \in 1..3 : Install(c, s, i)
    \/ \E c \in Calls, how \in {"ok", "failed", "late"} : Run(c, how)
    \/ \E c \in Calls : RunLate(c)
    \/ \E c \in Calls, how \in {"ok", "failed", "late"} : Fetch(c, how)
    \/ \E c \in Calls, told \in {"installed", "failed"}, left \in BOOLEAN : Unpack(c, told, left)
    \/ \E c \in Calls, id \in Ids, e \in BOOLEAN : Update(c, id, e)
    \/ \E c \in Calls, w \in BOOLEAN : Saved(c, w)
    \/ \E id \in Ids, e \in BOOLEAN : ConfigSet(id, e)
    \/ Restart
    \/ \E c \in Calls, word \in Words : ChatSkill(c, word)
    \/ \E c \in Calls, word \in Words, g \in {{}, {"*"}} \cup {b.needs : b \in Builtin} : ChannelSkill(c, word, g)

Spec == Init /\ [][Next]_vars

-----------------------------------------------------------------------------
\* An update that was told done is on file, and in the configuration in use, until somebody
\* changes the same entry; a failed write of another one does not take it back.
UpdatesLast == \A i \in Ids : latest[i] # None => file[i] = latest[i] /\ mem[i] = latest[i]

\* What was installed is what was asked for, unless another download of the same kind came
\* in between.
InstalledIsAsked ==
    \A c \in Calls :
        call[c].told = "installed" /\ Spec1(c).kind \in {"zip", "tar"} /\ ~call[c].raced
        /\ (\A d \in Calls \ {c} : <<call[d].skill, call[d].spec>> # <<call[c].skill, call[c].spec>>)
            => unpacked[<<call[c].skill, call[c].spec>>] = <<call[c].skill, call[c].spec>>

\* The installers that are offered are of this platform, and one of them is there whenever
\* any is; their tool is there unless no other would be.
OffersFit ==
    \A c \in Calls : call[c].told = "status" =>
        /\ call[c].offers \subseteq Fitting(call[c].skill)
        /\ Fitting(call[c].skill) # {} => call[c].offers # {}

\* What is unpacked is what was asked for.  It does not hold: two downloads use the same
\* file (installer.rs 163, 202).
ArchivesAreKept ==
    \A d \in Downloads : unpacked[d] # None => unpacked[d] = d

\* A skill whose programs are missing can be installed.  It does not hold: the gates refuse
\* the installer that would bring them (6923).
InstallHelps ==
    \A c \in Calls : call[c].told = "gated" => ~(\E i \in SpecsOf(call[c].skill) :
        Manifest[call[c].skill].bins \ bins \subseteq Spec0(call[c].skill, i).bins)

\* What the configuration says last is what counts.  It does not hold: an override of this
\* process is looked at first, and so is the entry under the key (6619).
LastSettingCounts ==
    \A c \in Calls : call[c].told = "status" /\ Entry(mem, call[c].skill) # None =>
        call[c].disabled = ~Entry(mem, call[c].skill)

=============================================================================
