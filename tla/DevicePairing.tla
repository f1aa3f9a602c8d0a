--------------------------- MODULE DevicePairing ----------------------------
(* Pairing of devices (crates/gateway-core/src/http.rs): requests announced  *)
(* by a node, device.pair.approve, reject and remove, and the rotation and   *)
(* revocation of a device's tokens.  Pending requests, their index and the   *)
(* paired devices have a lock each; every call ends by copying pending and   *)
(* paired one after the other, writing the copies to one temporary file that *)
(* all calls share, and renaming it to devices.json.                         *)
EXTENDS Naturals, FiniteSets

CONSTANTS
    Requests,   \* pairing requests
    Devices, DeviceOf,
    Roles, RoleOf,
    Scopes, ScopesOf,   \* the scopes a request names, maybe none
    Callers,    \* connections, each with one call at a time
    MaxCalls,   \* bound: calls
    MaxFaults,  \* bound: restarts and failed writes
    None

VARIABLES
    pending,    \* device_pair_pending
    index,      \* device_pair_pending_index
    paired,     \* device_paired
    disk,       \* devices.json
    tmp,        \* devices.tmp
    call,       \* the call of each connection, with its copies
    calls,      \* calls made so far
    announced,  \* history: requests whose announcement was answered
    decided,    \* history: requests somebody has begun to approve or reject
    open,       \* history: devices that got a token while no scopes were approved
    mixed,      \* history: whether calls have overlapped since a call ran alone
    faults

vars == <<pending, index, paired, disk, tmp, call, calls, announced, decided, open, mixed, faults>>
histories == <<announced, decided, open>>

Idle == [at |-> "idle", req |-> None, pending |-> {}, paired |-> None]
NoDevice == [approved |-> {}, tokens |-> [o \in Roles |-> None]]
Nobody == [d \in Devices |-> None]

\* A file: whole, or what reads as no devices at all (load_device_pairing_snapshot).
Whole(p, q) == [state |-> "whole", pending |-> p, paired |-> q]
Blank(state) == [state |-> state, pending |-> {}, paired |-> Nobody]

Init ==
    /\ pending = {} /\ index = [d \in Devices |-> None] /\ paired = Nobody
    /\ disk = Blank("none") /\ tmp = Blank("none")
    /\ call = [c \in Callers |-> Idle] /\ calls = 0
    /\ announced = {} /\ decided = {} /\ open = {} /\ mixed = "no" /\ faults = 0

-----------------------------------------------------------------------------
Others(c) == {e \in Callers \ {c} : call[e].at # "idle"}

\* A call begins, alone or beside others.
Begin(c, at, r) ==
    /\ call[c].at = "idle" /\ calls < MaxCalls /\ calls' = calls + 1
    /\ call' = [call EXCEPT ![c] = [Idle EXCEPT !.at = at, !.req = r]]
    /\ mixed' = IF Others(c) # {} THEN "yes" ELSE IF mixed = "yes" THEN "repaired" ELSE mixed

To(c, at) == call' = [call EXCEPT ![c].at = at]

\* device.pair.requested, an event of a connected node: the request, then its index.  The node
\* may choose the id, also one that was announced or decided before.
Announce(c, r) ==
    /\ Begin(c, "index", r)
    /\ pending' = pending \cup {r}
    /\ announced' = announced \ (decided \cap {r}) /\ decided' = decided \ {r}
    /\ UNCHANGED <<index, paired, disk, tmp, open, faults>>

\* Mutant: the announcement is answered before it is saved.
InsertIndexAnswers(c) ==
    /\ call[c].at = "index"
    /\ index' = [index EXCEPT ![DeviceOf[call[c].req]] = call[c].req]
    /\ announced' = announced \cup {call[c].req}
    /\ To(c, "copy")
    /\ UNCHANGED <<pending, paired, disk, tmp, calls, decided, open, mixed, faults>>

InsertIndex(c) ==
    /\ call[c].at = "index"
    /\ index' = [index EXCEPT ![DeviceOf[call[c].req]] = call[c].req]
    /\ To(c, "copy")
    /\ UNCHANGED <<pending, paired, disk, tmp, calls, histories, mixed, faults>>

\* device.pair.approve: request and index go under both locks.
Approve(c, r) ==
    /\ r \in pending
    /\ Begin(c, "pair", r)
    /\ pending' = pending \ {r}
    /\ index' = [index EXCEPT ![DeviceOf[r]] = None]
    /\ decided' = decided \cup {r}
    /\ UNCHANGED <<paired, disk, tmp, announced, open, faults>>

Device(d) == IF paired[d] = None THEN NoDevice ELSE paired[d]

\* Then the device: a new token for the role, and the scopes merged.
Pair(c) ==
    LET r == call[c].req  d == DeviceOf[r]  o == RoleOf[r]  old == Device(d)
        scopes == IF ScopesOf[r] # {} THEN ScopesOf[r]
                  ELSE IF old.tokens[o] # None THEN old.tokens[o].scopes ELSE old.approved
    IN /\ call[c].at = "pair"
       /\ paired' = [paired EXCEPT ![d] = [approved |-> old.approved \cup ScopesOf[r],
                                           tokens |-> [old.tokens EXCEPT ![o] = [scopes |-> scopes, revoked |-> FALSE]]]]
       /\ To(c, "copy")
       /\ UNCHANGED <<pending, index, disk, tmp, calls, histories, mixed, faults>>

\* device.pair.reject.
RejectPair(c, r) ==
    /\ r \in pending
    /\ Begin(c, "copy", r)
    /\ pending' = pending \ {r}
    /\ index' = [index EXCEPT ![DeviceOf[r]] = None]
    /\ decided' = decided \cup {r}
    /\ UNCHANGED <<paired, disk, tmp, announced, open, faults>>

\* device.pair.remove.
RemovePair(c, d) ==
    /\ paired[d] # None
    /\ Begin(c, "copy", None)
    /\ paired' = [paired EXCEPT ![d] = None]
    /\ UNCHANGED <<pending, index, disk, tmp, histories, faults>>

\* Mutant: the approved scopes are not looked at.
TokenRotateFreely(c, d, o, asked) ==
    LET old == paired[d].tokens[o]
        scopes == IF asked # {} THEN asked ELSE IF old # None THEN old.scopes ELSE paired[d].approved
    IN /\ paired[d] # None
       /\ Begin(c, "copy", None)
       /\ paired' = [paired EXCEPT ![d].tokens[o] = [scopes |-> scopes, revoked |-> FALSE]]
       /\ open' = IF paired[d].approved = {} THEN open \cup {d} ELSE open
       /\ UNCHANGED <<pending, index, disk, tmp, announced, decided, faults>>

\* device.token.rotate: the scopes asked for, or those of the old token, or the approved
\* ones; refused when some were approved and these are more.
TokenRotate(c, d, o, asked) ==
    LET old == paired[d].tokens[o]
        scopes == IF asked # {} THEN asked ELSE IF old # None THEN old.scopes ELSE paired[d].approved
    IN /\ paired[d] # None /\ (paired[d].approved = {} \/ scopes \subseteq paired[d].approved)
       /\ Begin(c, "copy", None)
       /\ paired' = [paired EXCEPT ![d].tokens[o] = [scopes |-> scopes, revoked |-> FALSE]]
       /\ open' = IF paired[d].approved = {} THEN open \cup {d} ELSE open
       /\ UNCHANGED <<pending, index, disk, tmp, announced, decided, faults>>

\* device.token.revoke.
TokenRevoke(c, d, o) ==
    /\ paired[d] # None /\ paired[d].tokens[o] # None
    /\ Begin(c, "copy", None)
    /\ paired' = [paired EXCEPT ![d].tokens[o].revoked = TRUE]
    /\ UNCHANGED <<pending, index, disk, tmp, histories, faults>>

-----------------------------------------------------------------------------
(* persist_device_pairing_state.                                            *)

CopyPending(c) ==
    /\ call[c].at = "copy"
    /\ call' = [call EXCEPT ![c].at = "copied", ![c].pending = pending]
    /\ UNCHANGED <<pending, index, paired, disk, tmp, calls, histories, mixed, faults>>

CopyPaired(c) ==
    /\ call[c].at = "copied"
    /\ call' = [call EXCEPT ![c].at = "write", ![c].paired = paired]
    /\ UNCHANGED <<pending, index, paired, disk, tmp, calls, histories, mixed, faults>>

\* std::fs::write: the temporary file is opened, made anew or emptied, and then written.
OpenTmp(c) ==
    /\ call[c].at = "write"
    /\ tmp' = Blank("empty")
    /\ To(c, "open")
    /\ UNCHANGED <<pending, index, paired, disk, calls, histories, mixed, faults>>

\* What c has opened is devices.json by now when another call has renamed it since.
Fill(c, content) ==
    IF call[c].at = "open" THEN tmp' = content /\ UNCHANGED disk
    ELSE disk' = content /\ UNCHANGED tmp

\* A file that another call has written to since c emptied it may get the end of the one and
\* the beginning of the other.
WriteTmp(c) ==
    LET file == IF call[c].at = "open" THEN tmp ELSE disk
    IN /\ call[c].at \in {"open", "openMoved"}
       /\ \/ Fill(c, Whole(call[c].pending, call[c].paired))
          \/ file.state # "empty" /\ Fill(c, Blank("torn"))
       /\ To(c, "rename")
       /\ UNCHANGED <<pending, index, paired, calls, histories, mixed, faults>>

\* The temporary file becomes devices.json, for those too who have it open.
Moved(c) ==
    [e \in Callers |-> CASE e = c -> Idle
                        [] e # c /\ call[e].at = "open" -> [call[e] EXCEPT !.at = "openMoved"]
                        [] OTHER -> call[e]]

\* std::fs::rename, and the call is answered.
Rename(c) ==
    /\ call[c].at = "rename" /\ tmp.state # "none"
    /\ disk' = tmp /\ tmp' = Blank("none")
    /\ announced' = announced \cup ({call[c].req} \ (decided \cup {None}))
    /\ call' = Moved(c)
    /\ UNCHANGED <<pending, index, paired, calls, decided, open, mixed, faults>>

\* Another call has renamed the file already: an error, whatever it left in devices.json.
RenameFails(c) ==
    /\ call[c].at = "rename" /\ tmp.state = "none"
    /\ call' = [call EXCEPT ![c] = Idle]
    /\ UNCHANGED <<pending, index, paired, disk, tmp, calls, histories, mixed, faults>>

\* The file cannot be opened, or not be written.
WriteFails(c) ==
    /\ faults < MaxFaults /\ faults' = faults + 1
    /\ \/ call[c].at = "write" /\ UNCHANGED <<disk, tmp>>
       \/ call[c].at \in {"open", "openMoved"} /\ Fill(c, Blank("torn"))
    /\ call' = [call EXCEPT ![c] = Idle] /\ mixed' = "yes"
    /\ UNCHANGED <<pending, index, paired, calls, histories>>

\* build_device_pending_index, one of the requests of each device.
Rebuilt ==
    [d \in Devices |-> IF \E r \in disk.pending : DeviceOf[r] = d
                       THEN CHOOSE r \in disk.pending : DeviceOf[r] = d ELSE None]

Restart ==
    /\ faults < MaxFaults /\ faults' = faults + 1
    /\ pending' = disk.pending /\ paired' = disk.paired /\ index' = Rebuilt
    /\ call' = [c \in Callers |-> Idle]
    /\ mixed' = IF mixed = "yes" THEN "repaired" ELSE mixed
    /\ UNCHANGED <<disk, tmp, calls, histories>>

-----------------------------------------------------------------------------
Next ==
    \/ \E c \in Callers, r \in Requests : Announce(c, r) \/ Approve(c, r) \/ RejectPair(c, r)
    \/ \E c \in Callers, d \in Devices : RemovePair(c, d)
    \/ \E c \in Callers, d \in Devices, o \in Roles :
          TokenRevoke(c, d, o) \/ \E asked \in SUBSET Scopes : TokenRotate(c, d, o, asked)
    \/ \E c \in Callers : \/ InsertIndex(c) \/ Pair(c) \/ CopyPending(c) \/ CopyPaired(c)
                          \/ OpenTmp(c) \/ WriteTmp(c) \/ Rename(c)
                          \/ RenameFails(c) \/ WriteFails(c)
    \/ Restart

Spec == Init /\ [][Next]_vars

-----------------------------------------------------------------------------
NoCalls == \A c \in Callers : call[c].at = "idle"

TypeOK ==
    /\ pending \subseteq Requests /\ index \in [Devices -> Requests \cup {None}]
    /\ \A d \in Devices : paired[d] # None =>
          /\ paired[d].approved \subseteq Scopes
          /\ \A o \in Roles : paired[d].tokens[o] # None => paired[d].tokens[o].scopes \subseteq Scopes
    /\ calls \in 0..MaxCalls /\ faults \in 0..MaxFaults /\ mixed \in {"no", "yes", "repaired"}
    /\ \A f \in {disk, tmp} : /\ f.state \in {"none", "empty", "torn", "whole"}
                             /\ f.pending \subseteq Requests

\* Once a call has run alone and ended, a restart finds in devices.json what the gateway holds:
\* what overlapping calls or a failed write have left there, an older snapshot or a torn one,
\* does not outlast the next call.  Until then nothing is said of the file
\* (persist_device_pairing_state holds no lock over copying and writing).
FileIsCurrent == NoCalls /\ mixed # "yes" => disk.pending = pending /\ disk.paired = paired

\* A request that was announced and answered is there, restarts or not, until somebody
\* decides it, as long as no calls have ever overlapped.
RequestsSurvive == mixed = "no" => announced \ decided \subseteq pending

\* No token has scopes that were not approved for its device, whatever is approved,
\* rotated and restored in between, unless it was rotated while none were approved.
TokensWithinApproval ==
    \A d \in Devices : paired[d] # None /\ d \notin open =>
        \A o \in Roles : paired[d].tokens[o] # None => paired[d].tokens[o].scopes \subseteq paired[d].approved
=============================================================================
