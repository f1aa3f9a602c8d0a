---------------------------- MODULE Completions ----------------------------
(* POST /v1/chat/completions (crates/gateway-core/src/http/routes.rs): streamed *)
(* answers, plain answers, and the loop with tools while the agent has no      *)
(* identity yet (hatching).  All requests here are for one session and share   *)
(* its transcript file.                                                        *)
EXTENDS Naturals, Sequences, SequencesExt, FiniteSets

CONSTANTS Requests,
          MaxRounds,    \* rounds of the hatching loop
          MaxChunks     \* bound: pieces of a streamed answer

VARIABLES hatching,    \* needs_hatching
          tooled,      \* there is a tool registry
          identity,    \* what the identity file holds: "none", "name" or "full"
          log,         \* the transcript of the session
          landing,     \* lines that were handed over and are not in the file yet
          lost,        \* history: lines that never got there, which nobody is told
          req,         \* what the client asks for: [stream, explicit, session, asks]
          pc,          \* where the handler of a request is
          recalled,    \* the transcript as the handler has loaded it
          rounds,      \* rounds of the loop so far
          text,        \* the answer so far
          sent,        \* pieces of it the client was sent
          answer,      \* how the client sees the request end
          cleared,     \* requests that lived when the transcripts were cleared
          failed       \* requests of which a line could not be stored

vars == <<hatching, tooled, identity, log, landing, lost, req, pc, recalled, rounds, text, sent, answer,
          cleared, failed>>

given == <<req, tooled>>
file == <<log, landing, lost>>
marks == <<cleared, failed>>

\* A request may carry a history of its own, may name no session, and may have no question in it.
Kinds == [stream : BOOLEAN, explicit : BOOLEAN, session : BOOLEAN, asks : BOOLEAN]

Init ==
    /\ hatching \in BOOLEAN /\ tooled \in BOOLEAN
    /\ identity = IF hatching THEN "none" ELSE "full"
    /\ log = <<>> /\ landing = {} /\ lost = {}
    /\ req \in [Requests -> Kinds]
    /\ pc = [r \in Requests |-> "new"]
    /\ recalled = [r \in Requests |-> <<>>]
    /\ rounds = [r \in Requests |-> 0]
    /\ text = [r \in Requests |-> 0]
    /\ sent = [r \in Requests |-> 0]
    /\ answer = [r \in Requests |-> "open"]
    /\ cleared = {} /\ failed = {}

User(r) == [role |-> "user", of |-> r, text |-> 1]
Assistant(r, n) == [role |-> "assistant", of |-> r, text |-> n]

Goes(r, p) == pc' = [pc EXCEPT ![r] = p]

-----------------------------------------------------------------------------
(* Transcript::append hands a line to a file of its own and does not flush it: *)
(* lines land in any order, and one that does not is missed by nobody.         *)

Land(m) ==
    /\ m \in landing /\ landing' = landing \ {m}
    /\ log' = Append(log, m)
    /\ UNCHANGED <<hatching, identity, lost, given, pc, recalled, rounds, text, sent, answer, marks>>

LoseWrite(m) ==
    /\ m \in landing /\ landing' = landing \ {m}
    /\ lost' = lost \cup {m}
    /\ UNCHANGED <<hatching, identity, log, given, pc, recalled, rounds, text, sent, answer, marks>>

-----------------------------------------------------------------------------
\* chat_completions_handler: the flag decides the way once and for all, and the transcript is
\* loaded unless the payload carries a history of its own.  While hatching nothing is streamed,
\* and without tools there is no loop.
Begin(r) ==
    /\ pc[r] = "new"
    /\ recalled' = [recalled EXCEPT ![r] = IF req[r].session /\ ~req[r].explicit THEN log ELSE <<>>]
    /\ Goes(r, IF hatching /\ tooled THEN "loop" ELSE IF req[r].stream /\ ~hatching THEN "opening" ELSE "plain")
    /\ UNCHANGED <<hatching, identity, file, given, rounds, text, sent, answer, marks>>

\* Any call of the provider may fail: an error before anything was sent.
ProviderFails(r) ==
    /\ pc[r] \in {"opening", "plain", "loop"}
    /\ Goes(r, "ended") /\ answer' = [answer EXCEPT ![r] = "error"]
    /\ UNCHANGED <<hatching, identity, file, given, recalled, rounds, text, sent, marks>>

-----------------------------------------------------------------------------
Opened(r) ==
    /\ pc[r] = "opening" /\ Goes(r, "streaming")
    /\ UNCHANGED <<hatching, identity, file, given, recalled, rounds, text, sent, answer, marks>>

Chunk(r) ==
    /\ pc[r] = "streaming" /\ text[r] < MaxChunks
    /\ text' = [text EXCEPT ![r] = @ + 1]
    /\ sent' = [sent EXCEPT ![r] = @ + 1]
    /\ UNCHANGED <<hatching, identity, file, given, pc, recalled, rounds, answer, marks>>

\* The stream ends or breaks; either way the client is sent the reason "stop" and [DONE].
StreamEnds(r) ==
    /\ pc[r] = "streaming"
    /\ answer' = [answer EXCEPT ![r] = "done"]
    /\ Goes(r, "persist")
    /\ UNCHANGED <<hatching, identity, file, given, recalled, rounds, text, sent, marks>>

-----------------------------------------------------------------------------
\* non_streaming_response: the answer may be empty.
PlainReply(r, n) ==
    /\ pc[r] = "plain"
    /\ text' = [text EXCEPT ![r] = n]
    /\ Goes(r, "persist")
    /\ UNCHANGED <<hatching, identity, file, given, recalled, rounds, sent, answer, marks>>

\* hatching_tool_loop: a round with calls, whose tools may write the identity.
ToolRound(r, i) ==
    /\ pc[r] = "loop" /\ rounds[r] < MaxRounds
    /\ rounds' = [rounds EXCEPT ![r] = @ + 1]
    /\ identity' = i
    /\ UNCHANGED <<hatching, file, given, pc, recalled, text, sent, answer, marks>>

\* A round without calls has the answer; without a choice, or after the last round, the
\* answer stays empty.
LoopEnds(r, n) ==
    /\ pc[r] = "loop" /\ (rounds[r] < MaxRounds \/ n = 0)
    /\ text' = [text EXCEPT ![r] = n]
    /\ rounds' = [rounds EXCEPT ![r] = IF @ < MaxRounds THEN @ + 1 ELSE @]
    /\ Goes(r, IF hatching THEN "identity" ELSE "persist")
    /\ UNCHANGED <<hatching, identity, file, given, recalled, sent, answer, marks>>

\* check_hatching_complete, after the flag was read: a whole identity ends hatching.
CheckIdentity(r) ==
    /\ pc[r] = "identity"
    /\ hatching' = (hatching /\ identity # "full")
    /\ Goes(r, IF identity = "full" THEN "clearing" ELSE "persist")
    /\ UNCHANGED <<identity, file, given, recalled, rounds, text, sent, answer, marks>>

\* clear_all_sessions: lines on their way go with the file.  A file that could not be removed,
\* or came too late to be listed, stays.
ClearTranscripts(r) ==
    /\ pc[r] = "clearing" /\ Goes(r, "persist")
    /\ \/ log' = <<>> /\ landing' = {}
       \/ UNCHANGED <<log, landing>>
    /\ cleared' = cleared \cup {q \in Requests : pc[q] # "new"}
    /\ UNCHANGED <<hatching, identity, lost, given, recalled, rounds, text, sent, answer, failed>>

-----------------------------------------------------------------------------
Finished(r) == IF answer[r] = "open" THEN [answer EXCEPT ![r] = "ok"] ELSE answer

\* The turn has a place in a transcript, a question and an answer.
Stores(r) == req[r].session /\ req[r].asks /\ text[r] > 0

\* persist_transcript_turn stores nothing of an empty question or answer, else the question ...
Persist(r) ==
    /\ pc[r] = "persist"
    /\ IF Stores(r)
       THEN Goes(r, "persist2") /\ landing' = landing \cup {User(r)} /\ UNCHANGED <<answer, sent>>
       ELSE /\ Goes(r, "ended") /\ answer' = Finished(r) /\ UNCHANGED landing
            /\ sent' = [sent EXCEPT ![r] = text[r]]
    /\ UNCHANGED <<hatching, identity, log, lost, given, recalled, rounds, text, marks>>

\* ... and the answer; then a plain request is answered.
PersistAnswer(r) ==
    /\ pc[r] = "persist2"
    /\ landing' = landing \cup {Assistant(r, text[r])}
    /\ answer' = Finished(r)
    /\ sent' = [sent EXCEPT ![r] = text[r]]
    /\ Goes(r, "ended")
    /\ UNCHANGED <<hatching, identity, log, lost, given, recalled, rounds, text, marks>>

\* An append fails: nothing more of the turn is stored, and the request is answered all the same.
AppendFails(r) ==
    /\ pc[r] \in {"persist", "persist2"} /\ Stores(r)
    /\ failed' = failed \cup {r}
    /\ answer' = Finished(r)
    /\ sent' = [sent EXCEPT ![r] = text[r]]
    /\ Goes(r, "ended")
    /\ UNCHANGED <<hatching, identity, file, given, recalled, rounds, text, cleared>>

\* The 30 seconds of the TimeoutLayer are over before the handler has returned: it is dropped
\* at the await it is in.  A stream has returned its response by then.
TimesOut(r) ==
    /\ pc[r] \notin {"new", "streaming", "ended"} /\ answer[r] = "open"
    /\ Goes(r, "ended") /\ answer' = [answer EXCEPT ![r] = "timeout"]
    /\ UNCHANGED <<hatching, identity, file, given, recalled, rounds, text, sent, marks>>

\* The client closes the connection: the handler or the generator is dropped likewise.
ClientLeaves(r) ==
    /\ pc[r] \notin {"new", "ended"} /\ Goes(r, "ended")
    /\ answer' = [answer EXCEPT ![r] = IF @ = "open" THEN "left" ELSE @]
    /\ UNCHANGED <<hatching, identity, file, given, recalled, rounds, text, sent, marks>>

Identities == {"none", "name", "full"}

Handler(r) ==
    \/ Opened(r) \/ Chunk(r) \/ StreamEnds(r) \/ ProviderFails(r) \/ TimesOut(r)
    \/ \E n \in 0..1 : PlainReply(r, n) \/ LoopEnds(r, n)
    \/ \E i \in Identities : ToolRound(r, i)
    \/ CheckIdentity(r) \/ ClearTranscripts(r) \/ Persist(r) \/ PersistAnswer(r) \/ AppendFails(r)

Next ==
    \/ \E r \in Requests : Begin(r) \/ Handler(r) \/ ClientLeaves(r)
    \/ \E m \in landing : Land(m) \/ LoseWrite(m)

Spec == Init /\ [][Next]_vars

\* The server runs its handlers, a service ends the answers it has begun, and writes end.
FairSpec ==
    /\ Spec /\ \A r \in Requests : WF_vars(Handler(r))
    /\ WF_vars(\E m \in landing : Land(m) \/ LoseWrite(m))

-----------------------------------------------------------------------------
Steps == {"new", "opening", "streaming", "plain", "loop", "identity", "clearing", "persist", "persist2", "ended"}

TypeOK ==
    /\ hatching \in BOOLEAN /\ tooled \in BOOLEAN /\ identity \in Identities /\ pc \in [Requests -> Steps]
    /\ rounds \in [Requests -> 0..MaxRounds] /\ text \in [Requests -> 0..MaxChunks]
    /\ answer \in [Requests -> {"open", "ok", "done", "error", "timeout", "left"}]
    /\ Len(log) <= 2 * Cardinality(Requests)

InFile == {log[i] : i \in DOMAIN log}

\* A line of the request was handed over: it is in the file or on its way there, was lost, or
\* may have gone with the transcripts.
Handed(role, r) == r \in cleared \/ \E m \in InFile \cup landing \cup lost : m.role = role /\ m.of = r

\* However requests overlap, break off or time out: a question and an answer are in the file or
\* on their way there once, never both; an answer is what the client was sent, and was not handed
\* over before its question (persist_transcript_turn).  Nothing is said of the order in the file:
\* append does not flush, so an answer may land before its question, or alone.
StoredIsSent ==
    /\ \A i, j \in DOMAIN log : log[i].role = log[j].role /\ log[i].of = log[j].of => i = j
    /\ \A i \in DOMAIN log : \A m \in landing : ~(log[i].role = m.role /\ log[i].of = m.of)
    /\ \A m \in InFile \cup landing :
          m.role = "assistant" => m.text = sent[m.of] /\ Handed("user", m.of)

\* By the time a client has a plain answer that is to be stored, both lines were handed over,
\* unless an append has failed; whether they get to the file is out of the handler's hands.
AnsweredIsStored ==
    \A r \in Requests : answer[r] = "ok" /\ Stores(r) /\ r \notin failed =>
        Handed("user", r) /\ Handed("assistant", r)

\* A request without a session, a question or an answer leaves nothing behind.
BlankIsNotStored ==
    \A r \in Requests : ~Stores(r) => \A m \in InFile \cup landing \cup lost : m.of # r

\* What is handed to the model as the past of a session has every line once, and an answer only
\* as its client was sent it; never an answer that is still being given.
RecalledIsSent ==
    \A r \in Requests : \A i, j \in DOMAIN recalled[r] :
        LET m == recalled[r][i] IN
        /\ m.role = "assistant" => pc[m.of] = "ended" /\ m.text = sent[m.of]
        /\ m.role = recalled[r][j].role /\ m.of = recalled[r][j].of => i = j

\* Every request that was begun comes to its end, whatever the model keeps calling, its client is
\* told something unless it has left, and its lines do not stay on their way.
RequestsEnd ==
    []<>(landing = {} /\ \A r \in Requests : pc[r] = "new" \/ (pc[r] = "ended" /\ answer[r] # "open"))

(* Not true: once hatching is over nothing that was said before is replayed     *)
(* ("Clear all old session transcripts so every channel picks up the new        *)
(* identity on next message").  A request that overlaps the end of hatching     *)
(* stores its turn after the transcripts were cleared, and one that is dropped  *)
(* between the flag and the files leaves them for good.                         *)
OldIsForgotten ==
    ~hatching => \A i \in DOMAIN log : log[i].of \notin cleared
=============================================================================
