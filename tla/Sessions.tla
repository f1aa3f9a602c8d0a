------------------------------ MODULE Sessions ------------------------------
(* The session table (SessionManager in gateway-core/src/message.rs), its    *)
(* RPCs, and the sessions_send tool (agent_bridge.rs), which puts a message  *)
(* into another session, runs a turn there, and lets the two sessions talk   *)
(* for some turns before the outcome is announced.  Every call of the table  *)
(* takes its lock for itself: sessions come and go between the calls of one  *)
(* send.  Transcripts are files the agent loop reads and appends to; nothing *)
(* that happens to a session touches them.                                   *)
EXTENDS Naturals, Sequences

CONSTANTS
    Keys,
    Sends, Target, Requester,  \* the calls of sessions_send, and their two sessions
    MaxTurns,    \* maxPingPongTurns
    MaxMessages, \* of sessions.compact
    MaxOps,      \* bound: deletes, resets, compactions and restarts
    None

VARIABLES
    count,      \* message_count of each session, None: no such session
    rows,       \* session_messages
    usage,      \* usageTotalCalls in session_metadata
    epoch,      \* number of resets of each session
    transcript, \* the epochs whose messages each transcript holds
    send,       \* each call and the talk it starts
    answer,     \* what each call will be told (due) and was told
    kept,       \* sessions whose messages nobody has removed
    ops

vars == <<count, rows, usage, epoch, transcript, send, answer, kept, ops>>
store == <<count, rows, usage>>
others == <<epoch, transcript, kept, ops>>

\* Calls that only append: another role than user, or no provider.
AppendOnly == {"data", "queued"}
Announce == MaxTurns + 1

Init ==
    /\ count = [k \in Keys |-> None] /\ rows = [k \in Keys |-> <<>>]
    /\ usage = [k \in Keys |-> 0] /\ epoch = [k \in Keys |-> 0]
    /\ transcript = [k \in Keys |-> {}]
    /\ send \in [Sends -> [at : {"find"}, mode : {"wait", "async", "data", "queued"}, n : {0},
                           key : {Target[s] : s \in Sends}, heard : {None}, result : {None},
                           read : {0}, old : {FALSE}]]
    /\ \A s \in Sends : send[s].key = Target[s]
    /\ answer = [s \in Sends |-> [due |-> None, told |-> None]]
    /\ kept = Keys /\ ops = 0

-----------------------------------------------------------------------------
(* SessionManager.                                                          *)

Exists(k) == count[k] # None

\* create_session: INSERT OR IGNORE.
CreateSession(k) == count' = IF Exists(k) THEN count ELSE [count EXCEPT ![k] = 0]

\* add_message, of a session that exists.
AddMessage(k, row) ==
    /\ rows' = [rows EXCEPT ![k] = Append(@, row)]
    /\ count' = [count EXCEPT ![k] = Len(rows'[k])]

-----------------------------------------------------------------------------
(* sessions_send, and the steps of run_sessions_send_a2a_flow.              *)

Due(s, a) == answer' = [answer EXCEPT ![s].due = a]
Tell(s, a) == answer' = [answer EXCEPT ![s].told = a]
Move(s, at) == send' = [send EXCEPT ![s].at = at]
End(s) == Move(s, "done")
Row(s, role) == [s |-> s, n |-> send[s].n, role |-> role, heard |-> send[s].heard]

\* check_session_access says no.
Refuse(s) ==
    /\ send[s].at = "find" /\ send[s].n = 0 /\ End(s) /\ Tell(s, "forbidden")
    /\ UNCHANGED <<store, others>>

\* The session is made when it is missing.
Find(s) ==
    /\ send[s].at = "find" /\ CreateSession(send[s].key) /\ Move(s, "user")
    /\ UNCHANGED <<rows, usage, answer, others>>

AddUser(s) ==
    /\ send[s].at = "user" /\ Exists(send[s].key)
    /\ AddMessage(send[s].key, Row(s, "user"))
    /\ IF send[s].n = 0 /\ send[s].mode \in AppendOnly
       THEN End(s) /\ Due(s, send[s].mode)
       ELSE /\ Move(s, "turn")
            /\ IF send[s].n = 0 /\ send[s].mode = "async" THEN Due(s, "accepted") ELSE UNCHANGED answer
    /\ UNCHANGED <<usage, others>>

\* Mutant: the call waits for the session to come back.
AddUserWaits(s) == send[s].at = "user" /\ ~Exists(send[s].key) /\ UNCHANGED vars

\* The session is gone since: the call fails, or the talk ends.
AddUserFails(s) ==
    /\ send[s].at = "user" /\ ~Exists(send[s].key) /\ End(s)
    /\ IF send[s].n = 0 THEN Tell(s, "error") ELSE UNCHANGED answer
    /\ UNCHANGED <<store, others>>

\* The agent loop loads the transcript and appends the message.
StartTurn(s) ==
    LET k == send[s].key
    IN /\ send[s].at = "turn"
       /\ send' = [send EXCEPT ![s].at = "running", ![s].old = \E e \in transcript[k] : e < epoch[k]]
       /\ transcript' = [transcript EXCEPT ![k] = @ \cup {epoch[k]}]
       /\ UNCHANGED <<store, answer, epoch, kept, ops>>

EndTurn(s) ==
    /\ send[s].at = "running"
    /\ \E r \in {"text", "empty", "skip"} :
         send' = [send EXCEPT ![s].at = "reply", ![s].result = r]
    /\ UNCHANGED <<store, answer, others>>

\* The turn fails or takes too long.  In the talk the step counts as one without an
\* answer; the announce step is the last.
TurnFails(s) ==
    /\ send[s].at = "running"
    /\ IF send[s].n = 0
       THEN /\ End(s)
            /\ IF send[s].mode = "async" THEN UNCHANGED answer
               ELSE Tell(s, "error") \/ Tell(s, "timeout")
       ELSE /\ UNCHANGED answer
            /\ IF send[s].n = Announce THEN End(s)
               ELSE send' = [send EXCEPT ![s].at = "find", ![s].n = Announce, ![s].key = Target[s]]
    /\ UNCHANGED <<store, others>>

\* Mutant: the reply is kept by the transcript alone.
AddReplyUnsaved(s) ==
    /\ send[s].at = "reply" /\ Exists(send[s].key) /\ Move(s, "usage")
    /\ UNCHANGED <<store, answer, others>>

AddReply(s) ==
    /\ send[s].at = "reply" /\ Exists(send[s].key) /\ Move(s, "usage")
    /\ AddMessage(send[s].key, Row(s, "assistant"))
    /\ UNCHANGED <<usage, answer, others>>

\* The session is gone: only a call that nobody waits for goes on.
AddReplyFails(s) ==
    /\ send[s].at = "reply" /\ ~Exists(send[s].key)
    /\ IF send[s].n = 0 /\ send[s].mode = "async" THEN Move(s, "usage") ELSE End(s)
    /\ IF send[s].n = 0 /\ send[s].mode = "wait" THEN Tell(s, "error") ELSE UNCHANGED answer
    /\ UNCHANGED <<store, others>>

\* apply_session_usage_delta: what is there, and under the lock taken again the sum.
ReadUsage(s) ==
    /\ send[s].at = "usage"
    /\ send' = [send EXCEPT ![s].at = "merge", ![s].read = usage[send[s].key]]
    /\ UNCHANGED <<store, answer, others>>

WriteUsage(s) ==
    LET k == send[s].key
    IN /\ send[s].at = "merge" /\ Move(s, "next")
       /\ usage' = IF Exists(k) THEN [usage EXCEPT ![k] = send[s].read + 1] ELSE usage
       /\ UNCHANGED <<count, rows, answer, others>>

\* Mutant: the two sessions do not take turns.
ContinueSameSide(s) ==
    /\ send[s].n < MaxTurns /\ send[s].result = "text"
    /\ send' = [send EXCEPT ![s].at = "find", ![s].n = @ + 1, ![s].heard = send[s].n]

\* The other session answers the reply.
Continue(s) ==
    /\ send[s].n < MaxTurns /\ send[s].result = "text"
    /\ send' = [send EXCEPT ![s].at = "find", ![s].n = @ + 1, ![s].heard = send[s].n,
                            ![s].key = IF @ = Target[s] THEN Requester[s] ELSE Target[s]]

ToAnnounce(s) == send' = [send EXCEPT ![s].at = "find", ![s].n = Announce, ![s].key = Target[s]]

\* A caller that waited is answered; an empty reply starts no talk, and neither does a
\* call without a session of its own.
AfterFirst(s) ==
    /\ send[s].at = "next" /\ send[s].n = 0
    /\ IF send[s].mode = "wait" THEN Due(s, "ok") ELSE UNCHANGED answer
    /\ CASE send[s].result = "empty" -> End(s)
         [] send[s].result # "empty" /\ (MaxTurns = 0 \/ Requester[s] \in {None, Target[s]}) -> ToAnnounce(s)
         [] OTHER -> send' = [send EXCEPT ![s].at = "find", ![s].n = 1, ![s].heard = 0, ![s].key = Requester[s]]
    /\ UNCHANGED <<store, others>>

AfterStep(s) ==
    /\ send[s].at = "next" /\ send[s].n \in 1..MaxTurns
    /\ \/ Continue(s)
       \/ (send[s].n = MaxTurns \/ send[s].result # "text") /\ ToAnnounce(s)
    /\ UNCHANGED <<store, answer, others>>

\* Delivered to the target's channel unless it is empty or to be skipped.
AfterAnnounce(s) ==
    /\ send[s].at = "next" /\ send[s].n = Announce /\ End(s)
    /\ UNCHANGED <<store, answer, others>>

\* The session is read once more for the answer.
Answer(s) ==
    /\ answer[s].due # None
    /\ answer' = [answer EXCEPT ![s] = [due |-> None, told |-> IF Exists(Target[s]) THEN @.due ELSE "error"]]
    /\ UNCHANGED <<store, send, others>>

-----------------------------------------------------------------------------
(* The RPCs on a session, and the restart of the gateway.                   *)

Op == ops < MaxOps /\ ops' = ops + 1

Create(k) ==
    /\ ~Exists(k) /\ Op /\ CreateSession(k)
    /\ UNCHANGED <<rows, usage, epoch, transcript, send, answer, kept>>

\* Mutant: the messages of a session are left behind.
RemoveSessionRow(k) ==
    /\ count' = [count EXCEPT ![k] = None] /\ usage' = [usage EXCEPT ![k] = 0]
    /\ UNCHANGED rows

\* DELETE FROM sessions takes messages and metadata along (ON DELETE CASCADE).
RemoveSession(k) ==
    /\ count' = [count EXCEPT ![k] = None] /\ usage' = [usage EXCEPT ![k] = 0]
    /\ rows' = [rows EXCEPT ![k] = <<>>]

Delete(k) ==
    /\ Exists(k) /\ Op /\ RemoveSession(k) /\ kept' = kept \ {k}
    /\ UNCHANGED <<epoch, transcript, send, answer>>

\* cleanup_stale: nothing was added for a day, so no step is under way in it.
CleanupStale(k) ==
    /\ Exists(k) /\ Op /\ \A s \in Sends : send[s].key = k => send[s].at \in {"find", "done"}
    /\ RemoveSession(k) /\ kept' = kept \ {k}
    /\ UNCHANGED <<epoch, transcript, send, answer>>

\* sessions.reset, and /new or /reset in chat.send and agent.
Reset(k) ==
    /\ Exists(k) /\ Op
    /\ rows' = [rows EXCEPT ![k] = <<>>] /\ count' = [count EXCEPT ![k] = 0]
    /\ epoch' = [epoch EXCEPT ![k] = @ + 1] /\ kept' = kept \ {k}
    /\ UNCHANGED <<usage, transcript, send, answer>>

\* compact_messages: the oldest go.
Compact(k) ==
    LET excess == Len(rows[k]) - MaxMessages
    IN /\ Exists(k) /\ Len(rows[k]) > MaxMessages /\ Op
       /\ rows' = [rows EXCEPT ![k] = SubSeq(@, excess + 1, Len(@))]
       /\ count' = [count EXCEPT ![k] = Len(rows[k]) - excess]
       /\ kept' = kept \ {k}
       /\ UNCHANGED <<usage, epoch, transcript, send, answer>>

\* The table is opened in memory; calls under way are gone.
Restart ==
    /\ Op /\ kept' = {}
    /\ count' = [k \in Keys |-> None] /\ rows' = [k \in Keys |-> <<>>] /\ usage' = [k \in Keys |-> 0]
    /\ send' = [s \in Sends |-> [send[s] EXCEPT !.at = "done"]]
    /\ answer' = [s \in Sends |-> [due |-> None, told |-> IF answer[s].told = None THEN "gone" ELSE answer[s].told]]
    /\ UNCHANGED <<epoch, transcript>>

-----------------------------------------------------------------------------
Step(s) ==
    \/ Find(s) \/ AddUser(s) \/ AddUserFails(s) \/ StartTurn(s) \/ EndTurn(s) \/ TurnFails(s)
    \/ AddReply(s) \/ AddReplyFails(s) \/ ReadUsage(s) \/ WriteUsage(s)
    \/ AfterFirst(s) \/ AfterStep(s) \/ AfterAnnounce(s)

Next ==
    \/ \E s \in Sends : Refuse(s) \/ Step(s) \/ Answer(s)
    \/ \E k \in Keys : Create(k) \/ Delete(k) \/ CleanupStale(k) \/ Reset(k) \/ Compact(k)
    \/ Restart

Spec == Init /\ [][Next]_vars

\* The tasks are scheduled, and every turn ends or is cut off by its timeout.
Fairness == \A s \in Sends : WF_vars(Step(s)) /\ WF_vars(Answer(s))
FairSpec == Spec /\ Fairness

-----------------------------------------------------------------------------
TypeOK ==
    /\ \A k \in Keys : count[k] \in Nat \cup {None}
    /\ usage \in [Keys -> Nat] /\ epoch \in [Keys -> 0..MaxOps]
    /\ \A s \in Sends : send[s].n \in 0..Announce /\ send[s].key \in Keys

\* message_count is the number of messages, and a session that is gone leaves neither
\* messages nor metadata that a later session of the same key would inherit.
StoreIsConsistent ==
    \A k \in Keys : IF Exists(k) THEN count[k] = Len(rows[k]) ELSE rows[k] = <<>> /\ usage[k] = 0

\* In a talk the requester's session answers the target's first reply, the target's
\* session that answer, and so on: each message is what the other session said last.
SessionsTakeTurns ==
    \A k \in Keys : \A i \in DOMAIN rows[k] :
        LET r == rows[k][i]
        IN r.n \in 1..MaxTurns =>
             /\ r.heard = r.n - 1
             /\ k = IF r.n % 2 = 1 THEN Requester[r.s] ELSE Target[r.s]

\* A caller that was told ok finds its message and the reply in the session, unless
\* someone removed messages from it.
AnsweredIsKept ==
    \A s \in Sends :
        answer[s].told = "ok" /\ Target[s] \in kept =>
            \A role \in {"user", "assistant"} :
                \E i \in DOMAIN rows[Target[s]] :
                    LET r == rows[Target[s]][i] IN r.s = s /\ r.n = 0 /\ r.role = role

\* Every call that was begun is answered, and its talk comes to its end.
TalksEnd ==
    \A s \in Sends : send[s].at # "find" ~> send[s].at = "done" /\ answer[s].due = None /\ answer[s].told # None

\* A turn after a reset sees nothing from before it ("A new session was started via
\* /new or /reset").
ResetForgets == \A s \in Sends : ~send[s].old
=============================================================================
