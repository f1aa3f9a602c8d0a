------------------------------ MODULE ModelTalk ------------------------------
(* Requests and whole answers of the models (crates/llm-core/src/providers):  *)
(* how each provider writes the conversation down for its service, calls of   *)
(* tools and their results included, and what it hears in an answer, whose    *)
(* calls may be structured, of the old form, or left in the text as markup.   *)
EXTENDS Naturals, Sequences, FiniteSets, FiniteSetsExt

CONSTANTS
    Providers,        \* "openai", "anthropic", "ollama", "google", "bedrock", "cohere"
    Answers,          \* what a service may answer
    MaxRounds,        \* bound on requests
    MaxWarnings,      \* bound on warnings of the loop detector
    None

(* An answer is [blocks, legacy]: a block has a kind ("text", "markup": a text  *)
(* with the call of a tool in XML, "call": a structured one, "other": thoughts), *)
(* a name ("" if blank, None if missing) and given, whether the service gave an  *)
(* id; legacy is such a block for function_call, or None.                        *)

VARIABLES
    provider,
    convo,            \* the history of the agent: [role, blocks, calls, id, name] in order
    sent,             \* the messages of the last request: [role, calls, id, name]
    at,               \* "ready", "waiting", "tools" or "done"
    answer,           \* history: the last answer, None while there is none
    round, warnings   \* requests and warnings so far

vars == <<provider, convo, sent, at, answer, round, warnings>>

Roles == {"system", "user", "assistant", "tool"}

TypeOK ==
    /\ provider \in Providers /\ at \in {"ready", "waiting", "tools", "done"} /\ round \in 0..MaxRounds
    /\ \A i \in DOMAIN convo : convo[i].role \in Roles
    /\ \A i \in DOMAIN sent : sent[i].role \in Roles

\* normalize_tool_name_alias.
Alias(n) ==
    CASE n \in {"google", "google_search", "search"} -> "web_search"
      [] n \in {"exec", "shell", "terminal", "bash"} -> "bash"
      [] n = "apply-patch" -> "apply_patch"
      [] n = "browser" -> "browse"
      [] n = "read" -> "read_file"
      [] n = "write" -> "write_file"
      [] n \in {"list", "ls", "list_files"} -> "list_dir"
      [] OTHER -> n

Select(s, Ok(_)) == SelectSeq([i \in DOMAIN s |-> i], LAMBDA i : Ok(s[i]))
First(s) == IF s = <<>> THEN <<>> ELSE <<Head(s)>>
Blocks(a, kinds) == SelectSeq(a.blocks, LAMBDA b : b.kind \in kinds)

-----------------------------------------------------------------------------
\* Hearing an answer.  An id is the service's own, or made up from the place of the call.
Given(i) == <<"service", round, i>>
Made(how, i) == <<how, 0, i>>
Call(name, id) == [name |-> name, id |-> id]

Sound(b) == b.name # None /\ b.name # ""

\* parse_structured_tool_calls: the place counts the calls that are left out.
Structured(a) ==
    LET s == Blocks(a, {"call"})
        kept == Select(s, Sound)
    IN  [k \in DOMAIN kept |-> Call(Alias(s[kept[k]].name), IF s[kept[k]].given THEN Given(kept[k]) ELSE Made("call", kept[k]))]

\* parse_legacy_function_call.
Legacy(a) ==
    IF a.legacy = None \/ ~Sound(a.legacy) THEN <<>>
    ELSE <<Call(Alias(a.legacy.name), IF a.legacy.given THEN Given(0) ELSE Made("legacy", 0))>>

\* parse_minimax_xml_tool_calls.
Markup(a) ==
    LET s == Blocks(a, {"markup"})
        kept == Select(s, Sound)
    IN  [k \in DOMAIN kept |-> Call(Alias(s[kept[k]].name), Made("minimax", kept[k]))]

\* parse_chat_completion: the first form that has calls.
OpenaiCalls(a) ==
    IF Structured(a) # <<>> THEN Structured(a) ELSE IF Legacy(a) # <<>> THEN Legacy(a) ELSE Markup(a)

\* parse_anthropic_response: a call needs a name, which may be blank, and an id.
AnthropicCalls(a) ==
    LET s == Blocks(a, {"call"})
        kept == Select(s, LAMBDA b : b.name # None /\ b.given)
    IN  IF kept = <<>> THEN Markup(a)
        ELSE [k \in DOMAIN kept |-> Call(Alias(s[kept[k]].name), Given(kept[k]))]

\* ollama_tool_calls_to_chat.
OllamaCalls(a) ==
    LET s == Blocks(a, {"call"})
        kept == Select(s, Sound)
    IN  [k \in DOMAIN kept |-> Call(Alias(s[kept[k]].name), Made("ollama", kept[k]))]

\* GoogleProvider::chat: names as they are, ids drawn anew.
GoogleCalls(a) ==
    LET s == Blocks(a, {"call"})
        kept == Select(s, LAMBDA b : b.name # None)
    IN  [k \in DOMAIN kept |-> Call(s[kept[k]].name, <<"uuid", round, k>>)]

Calls(a) ==
    CASE provider = "openai" -> OpenaiCalls(a)
      [] provider = "anthropic" -> AnthropicCalls(a)
      [] provider = "ollama" -> OllamaCalls(a)
      [] provider = "google" -> GoogleCalls(a)
      [] OTHER -> <<>>

\* sanitize_assistant_content: the markup is taken out of the text.
Sanitized(a) == Blocks(a, {"text"})

\* The text that is heard: all of it, the first piece, or what the first block holds.
Text(a) ==
    LET s == Blocks(a, {"text", "markup"}) IN
    CASE provider \in {"openai", "anthropic"} -> Sanitized(a)
      [] provider = "ollama" -> IF s # <<>> THEN s ELSE Blocks(a, {"other"})
      [] provider = "google" -> First(s)
      [] provider = "bedrock" -> SelectSeq(First(a.blocks), LAMBDA b : b.kind \in {"text", "markup"})
      [] provider = "cohere" -> s

-----------------------------------------------------------------------------
\* Writing the conversation down.
Plain(m, role) == [role |-> role, calls |-> <<>>, id |-> None, name |-> None]

\* OpenAiProvider::chat.
OpenaiMessage(m) == [role |-> m.role, calls |-> m.calls, id |-> m.id, name |-> m.name]

\* anthropic_message: a result is a user's message with the id, calls are written with theirs.
AnthropicMessage(m) ==
    IF m.role = "tool" THEN [Plain(m, "user") EXCEPT !.id = m.id]
    ELSE IF m.calls # <<>> THEN [Plain(m, "assistant") EXCEPT !.calls = m.calls]
    ELSE Plain(m, IF m.role = "user" THEN "user" ELSE "assistant")

\* chat_messages_to_ollama: calls and results go by name.
OllamaMessage(m) ==
    [Plain(m, m.role) EXCEPT
        !.calls = LET kept == SelectSeq(m.calls, LAMBDA c : Alias(c.name) # "")
                  IN  IF m.role = "assistant" THEN [k \in DOMAIN kept |-> Call(Alias(kept[k].name), None)] ELSE <<>>,
        !.name = IF m.role = "tool" /\ m.name # "" THEN m.name ELSE None]

\* build_contents, and the messages of Cohere: the text alone.
TextMessage(m) == Plain(m, IF m.role = "assistant" THEN "assistant" ELSE "user")

Spoken == SelectSeq(convo, LAMBDA m : m.role # "system")
System == SelectSeq(convo, LAMBDA m : m.role = "system")

Mapped(s, Form(_)) == [i \in DOMAIN s |-> Form(s[i])]
FirstSystem == IF System = <<>> THEN <<>> ELSE <<Plain(Head(System), "system")>>

Request ==
    CASE provider = "openai" -> Mapped(convo, OpenaiMessage)
      [] provider = "anthropic" -> FirstSystem \o Mapped(Spoken, AnthropicMessage)
      [] provider = "ollama" -> Mapped(convo, OllamaMessage)
      [] provider = "google" -> FirstSystem \o Mapped(Spoken, TextMessage)
      [] provider = "bedrock" -> Mapped(convo, LAMBDA m : Plain(m, m.role))
      [] provider = "cohere" -> Mapped(Spoken, TextMessage)

-----------------------------------------------------------------------------
Message(role, blocks, calls, id, name) ==
    [role |-> role, blocks |-> blocks, calls |-> calls, id |-> id, name |-> name]

\* The agent asks.
Ask ==
    /\ at = "ready" /\ round < MaxRounds
    /\ sent' = Request /\ round' = round + 1 /\ at' = "waiting"
    /\ answer' = None
    /\ UNCHANGED <<provider, convo, warnings>>

\* The service answers; the agent keeps what was heard and turns to the calls.
Answered(a) ==
    /\ at = "waiting"
    /\ convo' = Append(convo, Message("assistant", Len(Text(a)), Calls(a), None, None))
    /\ at' = IF Calls(a) = <<>> THEN "done" ELSE "tools"
    /\ answer' = a
    /\ UNCHANGED <<provider, sent, round, warnings>>

\* The request fails, or its answer cannot be read.
Fails ==
    /\ at = "waiting"
    /\ at' = "done"
    /\ UNCHANGED <<provider, convo, sent, answer, round, warnings>>

\* The last answer, and its calls that have no result yet.
Last == Max({i \in DOMAIN convo : convo[i].role = "assistant"})
Pending ==
    LET done == Cardinality({j \in DOMAIN convo : j > Last /\ convo[j].role = "tool"})
    IN  SubSeq(convo[Last].calls, done + 1, Len(convo[Last].calls))

\* The agent runs the next call and keeps its result; a warning of the loop detector comes before
\* the result, also between two of them.
RunTool(warned) ==
    /\ at = "tools" /\ (warned => warnings < MaxWarnings)
    /\ convo' = convo \o (IF warned THEN <<Message("user", 1, <<>>, None, "system")>> ELSE <<>>)
                     \o <<Message("tool", 1, <<>>, Head(Pending).id, Head(Pending).name)>>
    /\ warnings' = warnings + (IF warned THEN 1 ELSE 0)
    /\ at' = IF Len(Pending) = 1 THEN "ready" ELSE "tools"
    /\ answer' = None
    /\ UNCHANGED <<provider, sent, round>>

\* The user goes on.
UserSays ==
    /\ at = "done" /\ round < MaxRounds
    /\ convo' = Append(convo, Message("user", 1, <<>>, None, None))
    /\ at' = "ready"
    /\ answer' = None
    /\ UNCHANGED <<provider, sent, round, warnings>>

Init ==
    /\ provider \in Providers
    /\ \E s \in {<<>>, <<Message("system", 1, <<>>, None, None)>>} : convo = s \o <<Message("user", 1, <<>>, None, None)>>
    /\ sent = <<>> /\ at = "ready" /\ answer = None /\ round = 0 /\ warnings = 0

Next == Ask \/ (\E a \in Answers : Answered(a)) \/ Fails \/ (\E w \in BOOLEAN : RunTool(w)) \/ UserSays

Spec == Init /\ [][Next]_vars

-----------------------------------------------------------------------------
Ids(calls) == {calls[k].id : k \in DOMAIN calls}

\* The messages of the request that follow message i, up to the next of the assistant.
After(i) == {j \in DOMAIN sent : j > i /\ \A k \in (i + 1)..j : sent[k].role # "assistant"}
Results(i) == {j \in After(i) : sent[j].id # None}

\* The services that pair results with calls by id are sent each call with exactly one result,
\* before anything else the model said, and no result without its call, whatever forms the calls
\* came in and whichever of them were left out.
ResultsFollowCalls ==
    provider \in {"openai", "anthropic"} =>
        \A i \in DOMAIN sent : sent[i].role = "assistant" =>
            /\ {sent[j].id : j \in Results(i)} = Ids(sent[i].calls)
            /\ \A j, k \in Results(i) : j # k => sent[j].id # sent[k].id

\* With Ollama, which has no ids, results are in the order of the calls and under their names.
ResultsGoByName ==
    provider = "ollama" =>
        \A i \in DOMAIN sent : sent[i].role = "assistant" =>
            LET tools == {j \in After(i) : sent[j].role = "tool"}
            IN  /\ Cardinality(tools) = Len(sent[i].calls)
                /\ \A j \in tools : sent[j].name = sent[i].calls[Cardinality({k \in tools : k <= j})].name

\* Nothing stands between calls and their results.  It does not hold: a warning of the loop
\* detector is put between them (agent.rs 602).
ResultsAreAdjacent ==
    provider = "openai" => \A i \in DOMAIN sent : \A j \in Results(i) : \A k \in (i + 1)..j : sent[k].role = "tool"

LastHeard == convo[Last]

\* A structured call that has its name and its id is heard whatever stands around it, and no two
\* calls of an answer are heard under one id.
OfficialIsHeard ==
    answer # None =>
        /\ provider \in {"openai", "anthropic", "ollama"} =>
              \A b \in DOMAIN answer.blocks :
                  LET block == answer.blocks[b] IN
                  block.kind = "call" /\ Sound(block) /\ block.given =>
                      \E k \in DOMAIN LastHeard.calls : LastHeard.calls[k].name = Alias(block.name)
        /\ \A k, l \in DOMAIN LastHeard.calls : k # l => LastHeard.calls[k].id # LastHeard.calls[l].id

\* No id is used twice in a conversation.  It does not hold: the ids that are made up begin anew
\* with every answer (openai.rs 632, ollama.rs 256).
IdsAreFresh ==
    \A i, j \in DOMAIN convo : i # j => Ids(convo[i].calls) \cap Ids(convo[j].calls) = {}

\* Every call reaches the service again with its result.  It does not hold: for Google, Bedrock and
\* Cohere only the texts are written (google.rs 40, bedrock.rs 129, cohere.rs 59).
CallsAreWritten ==
    \A i \in DOMAIN convo : at = "waiting" /\ convo[i].calls # <<>> => \E j \in DOMAIN sent : Len(sent[j].calls) = Len(convo[i].calls)

\* The instructions reach every service.  It does not hold for Cohere (52).
SystemIsWritten == at = "waiting" /\ System # <<>> => \E j \in DOMAIN sent : sent[j].role = "system"

\* A named call of an answer is carried out under its name.  It does not hold: a tool of the user
\* called search or list is taken for another (547), and markup beside a call is dropped (798).
NamesSurvive ==
    answer # None => \A k \in DOMAIN LastHeard.calls :
        \E b \in DOMAIN answer.blocks : answer.blocks[b].name = LastHeard.calls[k].name

\* All text of an answer is heard.  It does not hold for Google and Bedrock (google.rs 140, bedrock.rs 179).
TextIsHeard == answer # None => LastHeard.blocks >= Len(Blocks(answer, {"text"}))

=============================================================================
