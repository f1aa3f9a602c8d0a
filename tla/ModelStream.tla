--------------------------- MODULE ModelStream ---------------------------
(* Streamed answers of a model (crates/llm-core/src/providers): the task that  *)
(* chat_stream spawns.  It reads pieces of bytes from the network, takes whole *)
(* lines out of its buffer, and sends what a line says to the receiver.  Each  *)
(* of the six providers treats the lines, the end and the rest in its own way. *)
EXTENDS Naturals, Sequences, SequencesExt, FiniteSets

CONSTANTS Providers,   \* the providers to look at
          Wires,       \* what a service may send: sequences of lines
          Capacity     \* of the channel to the receiver

(* A line has a kind: "text" is a piece of the answer, "bare" one whose delta   *)
(* names no role, "tool" calls of tools, "stop" the end of the answer, "noise"  *)
(* anything that is skipped.  Its text may be wide (characters of several       *)
(* bytes), its calls are TRUE or, for a call without a name, FALSE.             *)
Kinds == {"text", "bare", "tool", "stop", "noise"}

VARIABLES provider,    \* who sends
          wire,        \* the lines the service sends
          open,        \* the last line has no line end
          arrived,     \* half lines that have arrived
          cut,         \* wide lines that came in two pieces
          read,        \* lines taken out of the buffer
          stream,      \* "up", "failed" or "over"
          task,        \* "loop", "tail" or "ended"
          seq,         \* tool_call_seq (ollama)
          seen,        \* seen_tool_calls (ollama)
          out,         \* what was sent to the receiver
          taken,       \* how much of it the receiver has taken
          gone         \* the receiver was dropped

vars == <<provider, wire, open, arrived, cut, read, stream, task, seq, seen, out, taken, gone>>

InitWith(p, w, o) ==
    /\ provider = p /\ wire = w /\ open = o
    /\ arrived = 0 /\ cut = {} /\ read = 0
    /\ stream = "up" /\ task = "loop"
    /\ seq = 0 /\ seen = FALSE
    /\ out = <<>> /\ taken = 0 /\ gone = FALSE

Init == \E p \in Providers, w \in Wires, o \in BOOLEAN : InitWith(p, w, o)

\* Half 2i - 1 is the beginning of line i and half 2i the rest with its line end, which the
\* last line may lack.
Halves == 2 * Len(wire)
Complete == IF open /\ arrived = Halves THEN Len(wire) - 1 ELSE arrived \div 2

\* from_utf8_lossy sees one piece at a time: a character whose bytes are in two pieces is
\* replaced.
Mangled(i) == i \in cut

-----------------------------------------------------------------------------
\* What a line becomes: the chunks it sends and whether the task returns after it.
Nothing == [chunks |-> <<>>, return |-> FALSE]
Sends(c) == [chunks |-> <<c>>, return |-> FALSE]
Text(i) == [type |-> "text", line |-> i, mangled |-> Mangled(i)]
Empty(i) == [type |-> "text", line |-> i, mangled |-> FALSE]

\* A chunk parses when its delta has a role, which StreamChunk requires.
OpenaiLine(i) ==
    CASE wire[i].kind = "stop" -> [chunks |-> <<>>, return |-> TRUE]
      [] wire[i].kind = "text" -> Sends(Text(i))
      [] OTHER -> Nothing

AnthropicLine(i) ==
    CASE wire[i].kind = "stop" -> [chunks |-> <<>>, return |-> TRUE]
      [] wire[i].kind \in {"text", "bare"} -> Sends(Text(i))
      [] OTHER -> Nothing

\* Any data that parses is sent, with an empty text when it has none, and the end of the
\* answer does not end the task.
GoogleLine(i) ==
    CASE wire[i].kind \in {"text", "bare"} -> Sends(Text(i))
      [] wire[i].kind \in {"tool", "stop"} -> Sends(Empty(i))
      [] OTHER -> Nothing

CohereLine(i) == IF wire[i].kind \in {"text", "bare"} THEN Sends(Text(i)) ELSE Nothing

BedrockLine(i) ==
    CASE wire[i].kind = "stop" -> [chunks |-> <<[type |-> "finish", reason |-> "stop"]>>, return |-> TRUE]
      [] wire[i].kind \in {"text", "bare"} -> Sends(Text(i))
      [] OTHER -> Nothing

\* ollama_tool_calls_to_chat: a call without a name is left out, the others are numbered by
\* their place.
CallIds(i) == {seq + k - 1 : k \in {n \in DOMAIN wire[i].calls : wire[i].calls[n]}}

\* finish_reason_from_ollama
Reason(calls) == IF seen \/ calls # {} THEN "tool_calls" ELSE "stop"

OllamaLine(i) ==
    CASE wire[i].kind = "stop" -> [chunks |-> <<[type |-> "finish", reason |-> Reason({})]>>, return |-> TRUE]
      [] wire[i].kind = "tool" /\ CallIds(i) # {} -> Sends([type |-> "calls", line |-> i, ids |-> CallIds(i)])
      [] wire[i].kind \in {"text", "bare"} -> Sends(Text(i))
      [] OTHER -> Nothing

\* In the rest of the buffer an empty text is left out, and the end with it.
GoogleTail(i) == IF wire[i].kind \in {"text", "bare"} THEN Sends(Text(i)) ELSE Nothing

\* The tail of ollama is sent whatever it says, as long as it parses.
OllamaTail(i) ==
    IF wire[i].kind = "noise" \/ OllamaLine(i).chunks # <<>> THEN OllamaLine(i) ELSE Sends(Empty(i))

Line(i) ==
    CASE provider = "openai" -> OpenaiLine(i)
      [] provider = "anthropic" -> AnthropicLine(i)
      [] provider = "google" -> GoogleLine(i)
      [] provider = "cohere" -> CohereLine(i)
      [] provider = "bedrock" -> BedrockLine(i)
      [] provider = "ollama" -> OllamaLine(i)

\* What is left in the buffer is looked at by three of them.
Rest(i) ==
    CASE provider = "openai" -> OpenaiLine(i)
      [] provider = "google" -> GoogleTail(i)
      [] provider = "ollama" -> OllamaTail(i)
      [] OTHER -> Nothing

-----------------------------------------------------------------------------
\* A piece of n half lines arrives, when the loop has worked up the piece before.
Arrive(n) ==
    /\ stream = "up" /\ task = "loop" /\ read = Complete /\ arrived + n <= Halves
    /\ arrived' = arrived + n
    /\ cut' = cut \cup {i \in DOMAIN wire : wire[i].wide /\ 2 * i - 1 = arrived + n}
    /\ UNCHANGED <<provider, wire, open, read, stream, task, seq, seen, out, taken, gone>>

\* The service has sent everything.
Closes ==
    /\ stream = "up" /\ task = "loop" /\ read = Complete /\ arrived = Halves
    /\ stream' = "over" /\ task' = "tail"
    /\ UNCHANGED <<provider, wire, open, arrived, cut, read, seq, seen, out, taken, gone>>

Room == gone \/ Len(out) - taken < Capacity

\* tx.send: nothing reaches a receiver that is gone.
Send(cs) == out' = IF gone THEN out ELSE out \o cs

\* The connection breaks: the error is sent and the loop left.
Breaks ==
    /\ stream = "up" /\ task = "loop" /\ read = Complete /\ Room
    /\ Send(<<[type |-> "error"]>>)
    /\ stream' = "failed" /\ task' = "tail"
    /\ UNCHANGED <<provider, wire, open, arrived, cut, read, seq, seen, taken, gone>>

\* Only the first line of a piece is taken out.
TakeOneLine ==
    LET i == read + 1
        r == Line(i) IN
    /\ task = "loop" /\ read < Complete /\ (r.chunks = <<>> \/ Room)
    /\ read' = Complete
    /\ Send(r.chunks)
    /\ task' = IF r.return \/ (gone /\ r.chunks # <<>>) THEN "ended" ELSE "loop"
    /\ UNCHANGED <<provider, wire, open, arrived, cut, stream, seq, seen, taken, gone>>

\* A line is taken out of the buffer; a failed send ends the task.
TakeLine ==
    LET i == read + 1
        r == Line(i) IN
    /\ task = "loop" /\ read < Complete /\ (r.chunks = <<>> \/ Room)
    /\ read' = i
    /\ Send(r.chunks)
    /\ IF provider = "ollama" /\ wire[i].kind = "tool" /\ CallIds(i) # {}
       THEN seen' = TRUE /\ seq' = seq + Cardinality(CallIds(i))
       ELSE UNCHANGED <<seen, seq>>
    /\ task' = IF r.return \/ (gone /\ r.chunks # <<>>) THEN "ended" ELSE "loop"
    /\ UNCHANGED <<provider, wire, open, arrived, cut, stream, taken, gone>>

\* The rest of the buffer is a whole line without a line end, or the beginning of one, which
\* does not parse.
TakeTail ==
    LET i == read + 1
        whole == read < Len(wire) /\ arrived = 2 * i
        r == IF whole THEN Rest(i) ELSE Nothing IN
    /\ task = "tail" /\ (r.chunks = <<>> \/ Room)
    /\ Send(r.chunks)
    /\ task' = "ended"
    /\ UNCHANGED <<provider, wire, open, arrived, cut, read, stream, seq, seen, taken, gone>>

\* The receiver takes the next chunk, or goes away.
Receive ==
    /\ ~gone /\ taken < Len(out)
    /\ taken' = taken + 1
    /\ UNCHANGED <<provider, wire, open, arrived, cut, read, stream, task, seq, seen, out, gone>>

Leave ==
    /\ ~gone /\ gone' = TRUE
    /\ UNCHANGED <<provider, wire, open, arrived, cut, read, stream, task, seq, seen, out, taken>>

Next ==
    \/ \E n \in 1..Halves : Arrive(n)
    \/ Closes \/ Breaks \/ TakeLine \/ TakeTail \/ Receive \/ Leave

Spec == Init /\ [][Next]_vars

-----------------------------------------------------------------------------
TypeOK ==
    /\ provider \in Providers /\ wire \in Wires /\ open \in BOOLEAN
    /\ arrived \in 0..Halves /\ cut \subseteq DOMAIN wire /\ read \in 0..Complete
    /\ stream \in {"up", "failed", "over"} /\ task \in {"loop", "tail", "ended"}
    /\ Len(out) <= Len(wire) + 1 /\ taken \in 0..Len(out)

(* The reference: what an answer that came in one piece is worth.               *)
\* A line that says something: a piece of text, a call, or the end where a chunk tells of it.
Carried(p, l) ==
    \/ l.kind \in {"text", "bare"}
    \/ l.kind = "tool" /\ \E k \in DOMAIN l.calls : l.calls[k]
    \/ l.kind = "stop" /\ p \in {"google", "bedrock", "ollama"}

\* What the code leaves out of it whole: with openai every piece whose delta names no role, which
\* are all but the first as that service streams, since StreamChunk requires one; and calls of
\* tools everywhere but with ollama (google sends an empty text for them, and for a call without a
\* name as well).
LeftOut(p, l) ==
    \/ p = "openai" /\ l.kind = "bare"
    \/ p \in {"openai", "anthropic", "cohere", "bedrock"} /\ l.kind = "tool"

Ending(p) == p \in {"openai", "anthropic", "bedrock", "ollama"}

Until ==
    IF Ending(provider) /\ \E i \in DOMAIN wire : wire[i].kind = "stop"
    THEN CHOOSE i \in DOMAIN wire : wire[i].kind = "stop" /\ \A j \in 1..i - 1 : wire[j].kind # "stop"
    ELSE Len(wire)

Worth == SelectSeq([i \in 1..Until |-> i], LAMBDA i : Carried(provider, wire[i]) /\ ~LeftOut(provider, wire[i]))

\* What was sent without the error, and without an empty text that says nothing.
Chunks == SelectSeq(out, LAMBDA c : c.type # "error" /\ ~(c.type = "text" /\ ~Carried(provider, wire[c.line])))

LineOf(k) == LET c == Chunks[k] IN IF c.type = "finish" THEN Until ELSE c.line

\* However the network cuts the bytes into pieces, the receiver is sent the lines that carry
\* something and are not left out, each once, in order and none after the end, and a line is only
\* garbled if one of its characters was cut (the loops of the six chat_stream tasks).
SentIsWorth ==
    /\ Len(Chunks) <= Len(Worth)
    /\ \A k \in DOMAIN Chunks : LineOf(k) = Worth[k]
    /\ \A k \in DOMAIN out : out[k].type = "text" /\ out[k].mangled => wire[out[k].line].wide

\* The same answer in one piece: when the service closed the stream and the receiver stayed,
\* everything that is not left out was sent, except a last line without its line end where the rest of the buffer
\* is not looked at, or only for text (google).
NothingIsMissing ==
    task = "ended" /\ stream # "failed" /\ ~gone =>
        \/ Len(Chunks) = Len(Worth)
        \/ /\ open
           /\ \/ provider \in {"anthropic", "cohere", "bedrock"}
              \/ provider = "google" /\ wire[Len(wire)].kind \in {"tool", "stop"}
           /\ Len(Chunks) + 1 = Len(Worth) /\ Worth[Len(Worth)] = Len(wire)

\* Every line that carries something is sent.  It does not hold: see LeftOut.
NothingIsLeftOut == \A i \in 1..read : ~(Carried(provider, wire[i]) /\ LeftOut(provider, wire[i]))

\* A broken connection is told once, unless the receiver is gone, and at most the line that
\* was complete in the buffer follows; without a break there is no error.
BreaksAreTold ==
    LET E == {k \in DOMAIN out : out[k].type = "error"} IN
    /\ Cardinality(E) <= 1
    /\ E # {} => stream = "failed" /\ Len(out) <= (CHOOSE k \in E : TRUE) + 1
    /\ stream = "failed" /\ ~gone => E # {}

\* The calls of one answer have ids of their own, unless the model names a call without a name.
CallsAreApart ==
    (\A i \in DOMAIN wire : \A k \in DOMAIN wire[i].calls : wire[i].calls[k]) =>
        \A j, k \in DOMAIN out :
            j # k /\ out[j].type = "calls" /\ out[k].type = "calls" => out[j].ids \cap out[k].ids = {}

\* An answer with calls ends with the reason tool_calls and no other does (ollama), also
\* when the calls came in an earlier line than the end.
ReasonsFit ==
    \A k \in DOMAIN out : out[k].type = "finish" /\ provider = "ollama" =>
        (out[k].reason = "tool_calls" <=> \E j \in 1..k - 1 : out[j].type = "calls")
=============================================================================
