----------------------------- MODULE WebChat -----------------------------
(* The web chat (crates/gateway-core/src/webchat.rs): one loop per socket that *)
(* takes the frames of its client one after the other and runs the turn of a   *)
(* message inside that loop, a history per socket, and a transcript file that  *)
(* all sockets share.                                                          *)
EXTENDS Naturals, Sequences, SequencesExt

CONSTANTS Conns,        \* sockets
          MaxHistory,   \* WebChatState::max_history
          Recent,       \* how many messages of the transcript a new socket is shown
          MaxFrames,    \* bound: frames all clients send
          MaxMessages   \* bound: how many of them are messages

VARIABLES setup,      \* "agent" (provider and tools), "plain" (provider), "none"
          pc,         \* what the loop of a socket does
          inbox,      \* frames the client has sent and the loop has not read
          msg,        \* the message of the turn in progress
          permit,     \* the permit kept by abort_flag (Notify::notify_one)
          memory,     \* WebChatState::sessions of a socket
          log,        \* the transcript of the agent, "webchat_default"
          landing,    \* lines on their way to it
          got,        \* frames sent to the client
          sent,       \* number of frames sent by all clients
          aborts,     \* abort frames read, per socket
          taken,      \* messages read since the socket was opened
          kept,       \* what the history should hold: all messages since the last clear
          hatching    \* needs_hatching

vars == <<setup, pc, inbox, msg, permit, memory, log, landing, got, sent, aborts, taken, kept, hatching>>

User(n) == [role |-> "user", id |-> n]
Assistant(n) == [role |-> "assistant", id |-> n]
Frame(t, n) == [type |-> t, id |-> n]

LastOf(s, n) == SubSeq(s, IF Len(s) > n THEN Len(s) - n + 1 ELSE 1, Len(s))

\* add_message, the history in memory: the oldest goes when there is one too many.
Pushed(h, m) == IF Len(h) + 1 > MaxHistory THEN Tail(Append(h, m)) ELSE Append(h, m)

Init ==
    /\ setup \in {"agent", "plain", "none"}
    /\ pc = [c \in Conns |-> "closed"]
    /\ inbox = [c \in Conns |-> <<>>]
    /\ msg = [c \in Conns |-> 0]
    /\ permit = [c \in Conns |-> FALSE]
    /\ memory = [c \in Conns |-> <<>>]
    /\ log = <<>> /\ landing = {}
    /\ got = [c \in Conns |-> <<>>]
    /\ sent = 0
    /\ aborts = [c \in Conns |-> 0]
    /\ taken = [c \in Conns |-> <<>>]
    /\ kept = [c \in Conns |-> <<>>]
    /\ hatching \in BOOLEAN

-----------------------------------------------------------------------------
(* Transcript::append hands a line to a file of its own and does not flush it. *)
(* The transcript "default", to which add_message appends as well, is left out: *)
(* no part of the web chat reads it.                                           *)

Land(m) ==
    /\ m \in landing /\ landing' = landing \ {m}
    /\ log' = Append(log, m)
    /\ UNCHANGED <<setup, pc, inbox, msg, permit, memory, got, sent, aborts, taken, kept, hatching>>

\* The append fails, which is only logged, or the write behind it, which is not even that.
LoseWrite(m) ==
    /\ m \in landing /\ landing' = landing \ {m}
    /\ UNCHANGED <<setup, pc, inbox, msg, permit, memory, log, got, sent, aborts, taken, kept, hatching>>

\* A turn of another channel ends the hatching: clear_all_sessions removes the file, with what is
\* on its way to it.  (Where that fails nothing changes for the web chat.)
HatchingEnds ==
    /\ hatching /\ hatching' = FALSE
    /\ log' = <<>> /\ landing' = {}
    /\ UNCHANGED <<setup, pc, inbox, msg, permit, memory, got, sent, aborts, taken, kept>>

-----------------------------------------------------------------------------
\* load_and_send_history: the last messages of the agent's transcript, if any.
Shown == IF log = <<>> THEN <<>> ELSE <<[type |-> "history", of |-> LastOf(log, Recent)]>>

\* handle_socket begins: a state of its own, the connected frame and the history.
Connect(c) ==
    /\ pc[c] = "closed" /\ got[c] = <<>>
    /\ pc' = [pc EXCEPT ![c] = "idle"]
    /\ got' = [got EXCEPT ![c] = <<Frame("connected", 0)>> \o Shown]
    /\ UNCHANGED <<setup, inbox, msg, permit, memory, log, landing, sent, aborts, taken, kept, hatching>>

\* The messages a client has sent.
Asked(c) == Len(taken[c]) + Len(SelectSeq(inbox[c], LAMBDA f : f.type = "message"))

\* The client sends a frame; the id of a message is its number.
ClientSends(c, kind) ==
    /\ pc[c] # "closed" /\ sent < MaxFrames
    /\ kind = "message" => MapThenSumSet(Asked, Conns) < MaxMessages
    /\ sent' = sent + 1
    /\ inbox' = [inbox EXCEPT ![c] = Append(@, Frame(kind, sent + 1))]
    /\ UNCHANGED <<setup, pc, msg, permit, memory, log, landing, got, aborts, taken, kept, hatching>>

Reads(c, kind) ==
    /\ pc[c] = "idle" /\ inbox[c] # <<>> /\ Head(inbox[c]).type = kind
    /\ inbox' = [inbox EXCEPT ![c] = Tail(@)]

\* A message is stored in the history and "typing" is sent; without
\* a provider that is all, and the client gets an error.
ReadMessage(c) ==
    LET n == Head(inbox[c]).id IN
    /\ Reads(c, "message")
    /\ memory' = [memory EXCEPT ![c] = Pushed(@, User(n))]
    /\ kept' = [kept EXCEPT ![c] = Append(@, User(n))]
    /\ taken' = [taken EXCEPT ![c] = Append(@, n)]
    /\ msg' = [msg EXCEPT ![c] = n]
    /\ IF setup = "none"
       THEN got' = [got EXCEPT ![c] = @ \o <<Frame("typing", n), Frame("error", n)>>] /\ UNCHANGED pc
       ELSE got' = [got EXCEPT ![c] = Append(@, Frame("typing", n))] /\ pc' = [pc EXCEPT ![c] = "racing"]
    /\ UNCHANGED <<setup, permit, log, landing, sent, aborts, hatching>>

\* abort: the flag keeps one permit when nobody waits for it.
ReadAbort(c) ==
    /\ Reads(c, "abort")
    /\ permit' = [permit EXCEPT ![c] = TRUE]
    /\ aborts' = [aborts EXCEPT ![c] = @ + 1]
    /\ UNCHANGED <<setup, pc, msg, memory, log, landing, got, sent, taken, kept, hatching>>

ReadHistory(c) ==
    /\ Reads(c, "history")
    /\ got' = [got EXCEPT ![c] = Append(@, [type |-> "history", of |-> memory[c]])]
    /\ UNCHANGED <<setup, pc, msg, permit, memory, log, landing, sent, aborts, taken, kept, hatching>>

ReadClear(c) ==
    /\ Reads(c, "clear")
    /\ memory' = [memory EXCEPT ![c] = <<>>]
    /\ kept' = [kept EXCEPT ![c] = <<>>]
    /\ got' = [got EXCEPT ![c] = Append(@, [type |-> "history", of |-> <<>>])]
    /\ UNCHANGED <<setup, pc, msg, permit, log, landing, sent, aborts, taken, hatching>>

\* A close frame, or the end of the stream after it: read only between two messages.
ReadClose(c) ==
    /\ Reads(c, "close")
    /\ pc' = [pc EXCEPT ![c] = "closed"]
    /\ UNCHANGED <<setup, msg, permit, memory, log, landing, got, sent, aborts, taken, kept, hatching>>

-----------------------------------------------------------------------------
\* The turn with tools appends the message to the agent's transcript; what it appends while it
\* calls tools is left to AgentLoop.
TurnBegins(c) ==
    /\ pc[c] = "racing"
    /\ landing' = IF setup = "agent" THEN landing \cup {User(msg[c])} ELSE landing
    /\ pc' = [pc EXCEPT ![c] = "turn"]
    /\ UNCHANGED <<setup, inbox, msg, permit, memory, log, got, sent, aborts, taken, kept, hatching>>

\* The reply wins the race: stored in the agent's transcript by the turn, in the history by
\* add_message, and sent.
Replied(c) ==
    LET n == msg[c] IN
    /\ pc[c] = "turn"
    /\ landing' = IF setup = "agent" THEN landing \cup {Assistant(n)} ELSE landing
    /\ memory' = [memory EXCEPT ![c] = Pushed(@, Assistant(n))]
    /\ kept' = [kept EXCEPT ![c] = Append(@, Assistant(n))]
    /\ got' = [got EXCEPT ![c] = Append(@, Frame("done", n))]
    /\ pc' = [pc EXCEPT ![c] = "idle"]
    /\ UNCHANGED <<setup, inbox, msg, permit, log, sent, aborts, taken, hatching>>

Failed(c) ==
    /\ pc[c] = "turn"
    /\ got' = [got EXCEPT ![c] = Append(@, Frame("error", msg[c]))]
    /\ pc' = [pc EXCEPT ![c] = "idle"]
    /\ UNCHANGED <<setup, inbox, msg, permit, memory, log, landing, sent, aborts, taken, kept, hatching>>

\* The flag wins: the turn is dropped where it is and the permit used up.
Aborted(c) ==
    /\ pc[c] \in {"racing", "turn"} /\ permit[c]
    /\ permit' = [permit EXCEPT ![c] = FALSE]
    /\ got' = [got EXCEPT ![c] = Append(@, Frame("aborted", msg[c]))]
    /\ pc' = [pc EXCEPT ![c] = "idle"]
    /\ UNCHANGED <<setup, inbox, msg, memory, log, landing, sent, aborts, taken, kept, hatching>>

-----------------------------------------------------------------------------
Kinds == {"message", "abort", "history", "clear", "close"}

Loop(c) == ReadMessage(c) \/ ReadAbort(c) \/ ReadHistory(c) \/ ReadClear(c) \/ ReadClose(c)
           \/ TurnBegins(c) \/ Replied(c) \/ Failed(c) \/ Aborted(c)

Next ==
    \/ \E c \in Conns : Connect(c)
    \/ \E c \in Conns, k \in Kinds : ClientSends(c, k)
    \/ \E c \in Conns : Loop(c)
    \/ \E m \in landing : Land(m) \/ LoseWrite(m)
    \/ HatchingEnds

Spec == Init /\ [][Next]_vars

-----------------------------------------------------------------------------
Ends == {"done", "error", "aborted"}

TypeOK ==
    /\ setup \in {"agent", "plain", "none"}
    /\ pc \in [Conns -> {"closed", "idle", "racing", "turn"}]
    /\ msg \in [Conns -> 0..MaxFrames] /\ sent \in 0..MaxFrames
    /\ permit \in [Conns -> BOOLEAN]
    /\ \A c \in Conns : Len(memory[c]) <= MaxHistory /\ Len(inbox[c]) <= MaxFrames

\* The answers a client got, in order.
Answers(c) == LET E == SelectSeq(got[c], LAMBDA f : f.type \in Ends) IN [i \in 1..Len(E) |-> E[i].id]

\* Every message a socket has read got one answer, in the order of the messages; only the
\* last one may still be running (handle_socket runs a turn inside its loop).
AnsweredInTurn ==
    \A c \in Conns :
        taken[c] = IF pc[c] \in {"racing", "turn"} THEN Append(Answers(c), msg[c]) ELSE Answers(c)

\* No turn is aborted that nobody asked to abort: every abort frame ends one turn at most,
\* whatever was sent before and after it.
AbortsAreSpent ==
    \A c \in Conns :
        Len(SelectSeq(got[c], LAMBDA f : f.type = "aborted")) + (IF permit[c] THEN 1 ELSE 0) <= aborts[c]

\* The history is what was said since the last clear, at most the last MaxHistory of it.
HistoryIsRecent == \A c \in Conns : memory[c] = LastOf(kept[c], MaxHistory)

\* What is in the transcript, and what a new socket is shown of it, was said: a question that was
\* read, an answer that its client got, each line once, through turns that were aborted or failed
\* and while several sockets are in use.  Nothing is said of a line's getting there, or of the
\* order: append does not flush, and the end of the hatching clears the transcript.
TranscriptsAreSaid ==
    LET Texts == {log}
                 \cup UNION {{got[c][i].of : i \in {k \in DOMAIN got[c] : got[c][k].type = "history"}} : c \in Conns}
        Got(t, n) == \E c \in Conns : \E i \in DOMAIN got[c] : got[c][i] = Frame(t, n)
    IN  \A s \in Texts : \A i \in DOMAIN s :
            /\ Got(IF s[i].role = "user" THEN "typing" ELSE "done", s[i].id)
            /\ \A j \in DOMAIN s : s[i] = s[j] => i = j
=============================================================================
