-------------------------------- MODULE Media --------------------------------
(* The attachments of a message (crates/gateway-core/src/http.rs): what is   *)
(* refused and what is shown to the model as an image, and the task beside   *)
(* the chat run that stages the rest in files and has them described by the  *)
(* providers of crates/media-understanding, one after the other, under a     *)
(* time limit, to add notes to the message.                                  *)
EXTENDS Naturals, SequencesExt

CONSTANTS
    Requests,     \* messages: lists of [content, bytes, declared, url, kind], content a list of letters or None
    Configs,      \* [keys: providers with a key, in order, enabled: kinds, chain: names by kind, limit: size of images]
    MaxBytes,     \* size of an attachment
    MaxFaults,    \* bound on files that cannot be written, read or removed
    None

VARIABLES
    config, request,
    at,           \* where the task is
    n,            \* the attachment in work
    p,            \* the provider in work
    images,       \* the attachments that the model is shown
    staged,       \* [of, cap, size, bytes] of the attachments to describe
    files,        \* the files that exist, by attachment
    cache,        \* what was said by content
    attempts,     \* providers asked about the attachment in work
    results,      \* [index, of, cap, said, by, asked], where said is "text", "empty" or "failed"
    skipped,      \* attachments over the limit
    late,         \* the time ran out
    notes,        \* what was added to the message
    faults

vars == <<config, request, at, n, p, images, staged, files, cache, attempts, results, skipped, late, notes, faults>>

Caps == {"image", "audio", "video"}
Ends == {"refused", "done"}

TypeOK ==
    /\ at \in {"new", "stage", "take", "read", "ask", "clean", "add"} \cup Ends
    /\ n \in Nat /\ p \in Nat /\ faults \in 0..MaxFaults /\ late \in BOOLEAN
    /\ \A f \in files : f \in DOMAIN request

-----------------------------------------------------------------------------
\* is_valid_base64_payload, over letters ("d"), padding ("=") and other characters.
IsValid(c) ==
    /\ c # <<>> /\ Len(c) % 4 = 0
    /\ \A i \in DOMAIN c :
        \/ c[i] = "d" /\ \A j \in 1..i : c[j] # "="
        \/ c[i] = "=" /\ i + 1 >= Len(c)
\* estimate_base64_decoded_bytes
Size(c) ==
    3 * (Len(c) \div 4) - (IF Last(c) # "=" THEN 0 ELSE IF c[Len(c) - 1] = "=" THEN 2 ELSE 1)

\* image::guess_format with sniff_known_non_image_mime, and sniff_media_mime, which knows more.
Sniff(bytes) == CASE bytes = "png" -> "image" [] bytes = "mp3" -> "audio" [] bytes = "pdf" -> "other" [] OTHER -> None
SniffMedia(bytes) ==
    CASE bytes = "ogg" -> "audio" [] bytes = "mp4" -> "video" [] OTHER -> Sniff(bytes)

Or(a, b) == IF a = None THEN b ELSE a
Provided(a) == Or(a.declared, a.url)

\* parse_rpc_attachments_for_chat: an attachment without content is passed over, a bad one
\* refuses the message, and what is not an image is not shown.
Normalized == SelectSeq([i \in DOMAIN request |-> [of |-> i, a |-> request[i]]], LAMBDA x : x.a.content # None)
Refused(a) == ~IsValid(a.content) \/ Size(a.content) > MaxBytes
Shown(a) == Or(Sniff(a.bytes), Provided(a)) = "image"

Receive ==
    /\ at = "new"
    /\ IF \E i \in DOMAIN Normalized : Refused(Normalized[i].a)
       THEN at' = "refused" /\ images' = images
       ELSE /\ at' = IF Normalized = <<>> THEN "done" ELSE "stage"
            /\ images' = {Normalized[i].of : i \in {i \in DOMAIN Normalized : Shown(Normalized[i].a)}}
    /\ n' = 1
    /\ UNCHANGED <<config, request, p, staged, files, cache, attempts, results, skipped, late, notes, faults>>

-----------------------------------------------------------------------------
Fault == faults < MaxFaults /\ faults' = faults + 1
NoFault == faults' = faults

\* infer_mime_from_attachment_kind, and what the attachment is taken for.
FinalMime(a) == Or(SniffMedia(a.bytes), Or(Provided(a), IF a.kind \in Caps THEN a.kind ELSE None))

\* prepare_media_attachments_for_understanding writes each attachment to a file; when one cannot
\* be written the task answers with the error at once.
Stage(ok) ==
    LET x == Normalized[n]
        media == FinalMime(x.a) \in Caps
        last == n = Len(Normalized)
    IN  /\ at = "stage" /\ (~ok => media)
        /\ IF ok THEN NoFault ELSE Fault
        /\ IF media /\ ok
           THEN /\ staged' = Append(staged, [of |-> x.of, cap |-> FinalMime(x.a), size |-> Size(x.a.content),
                                             bytes |-> x.a.bytes])
                /\ files' = files \cup {x.of}
           ELSE UNCHANGED <<staged, files>>
        /\ at' = IF ~ok THEN "add" ELSE IF last THEN "take" ELSE "stage"
        /\ n' = IF last \/ ~ok THEN 1 ELSE n + 1
        /\ UNCHANGED <<config, request, p, images, cache, attempts, results, skipped, late, notes>>

\* The capabilities of the providers, and normalize_provider_id.
Capable(q, cap) ==
    cap \in CASE q = "openai" -> {"image", "audio"} [] q = "anthropic" -> {"image"}
              [] q = "google" -> Caps [] q = "deepgram" -> {"audio"}
NormalizeProviderId(q) == IF q = "gemini" THEN "google" ELSE q

\* configured_provider_chain and ordered_providers: those of the configuration, then the others.
ConfiguredChain(cap) ==
    LET named == SelectSeq(config.chain[cap], LAMBDA q : q # "")
    IN  [i \in DOMAIN named |-> NormalizeProviderId(named[i])]
OrderedProviders(cap) ==
    FoldLeft(LAMBDA s, q : IF Contains(s, q) \/ ~Contains(config.keys, q) \/ ~Capable(q, cap) THEN s ELSE Append(s, q),
             <<>>, ConfiguredChain(cap) \o config.keys)

Onward == n' = n + 1 /\ p' = 1 /\ attempts' = <<>> /\ at' = "take"
Result(said, by, asked, cap) ==
    results' = Append(results, [index |-> n - 1, of |-> staged[n].of, cap |-> staged[n].cap, said |-> said,
                                by |-> by, asked |-> asked, made |-> cap])

\* process_with_decisions looks at the next attachment.
CheckSizeLimit(s) == s.cap = "image" => s.size <= config.limit
Take ==
    /\ at = "take" /\ n <= Len(staged)
    /\ IF staged[n].cap \notin config.enabled THEN Onward /\ skipped' = skipped
       ELSE IF ~CheckSizeLimit(staged[n]) THEN Onward /\ skipped' = skipped \cup {n}
       ELSE at' = "read" /\ UNCHANGED <<n, p, attempts, skipped>>
    /\ UNCHANGED <<config, request, images, staged, files, cache, results, late, notes, faults>>

\* process_single reads the file, and asks nobody when the content is known or nobody can be asked.
Read(ok) ==
    LET s == staged[n]
        known == s.bytes \in DOMAIN cache
        nobody == OrderedProviders(s.cap) = <<>>
    IN  /\ at = "read"
        /\ IF ok THEN NoFault ELSE Fault
        /\ IF ~ok THEN Onward /\ Result("failed", "file", <<>>, s.cap)
           ELSE IF known THEN Onward /\ Result(cache[s.bytes].said, "cache", <<>>, cache[s.bytes].cap)
           ELSE IF nobody THEN Onward /\ Result("unsupported", None, <<>>, s.cap)
           ELSE at' = "ask" /\ p' = 1 /\ UNCHANGED <<n, attempts, results>>
        /\ UNCHANGED <<config, request, images, staged, files, cache, skipped, late, notes>>

\* What may come of a request to each provider: it or its status fails, or there is an answer.
\* One that has no text in it is an answer, but for Google.
OpenAiAnswers(cap) == IF Capable("openai", cap) THEN {"text", "empty", "failed"} ELSE {"unsupported"}
AnthropicAnswers(cap) == IF Capable("anthropic", cap) THEN {"text", "empty", "failed"} ELSE {"unsupported"}
DeepgramAnswers(cap) == IF Capable("deepgram", cap) THEN {"text", "empty", "failed"} ELSE {"unsupported"}
GoogleAnswers == {"text", "failed"}
Answers(q, cap) ==
    CASE q = "openai" -> OpenAiAnswers(cap) [] q = "anthropic" -> AnthropicAnswers(cap)
      [] q = "deepgram" -> DeepgramAnswers(cap) [] q = "google" -> GoogleAnswers

Answer(said) ==
    LET s == staged[n]
        q == OrderedProviders(s.cap)[p]
        asked == Append(attempts, q)
    IN  /\ at = "ask" /\ said \in Answers(q, s.cap)
        /\ IF said \in {"text", "empty"}
           THEN /\ cache' = [b \in DOMAIN cache \cup {s.bytes} |-> IF b = s.bytes THEN [said |-> said, cap |-> s.cap] ELSE cache[b]]
                /\ Result(said, q, asked, s.cap) /\ Onward
           ELSE IF p = Len(OrderedProviders(s.cap))
           THEN Result("failed", None, asked, s.cap) /\ Onward /\ cache' = cache
           ELSE attempts' = asked /\ p' = p + 1 /\ UNCHANGED <<at, n, results, cache>>
        /\ UNCHANGED <<config, request, images, staged, files, skipped, late, notes, faults>>

\* All are done, or the time is over while a file or an answer is awaited.
Processed ==
    /\ at = "take" /\ n > Len(staged)
    /\ at' = "clean"
    /\ UNCHANGED <<config, request, n, p, images, staged, files, cache, attempts, results, skipped, late, notes, faults>>

TimesOut ==
    /\ at \in {"read", "ask"}
    /\ at' = "clean" /\ late' = TRUE /\ p' = 1 /\ attempts' = <<>>
    /\ UNCHANGED <<config, request, n, images, staged, files, cache, results, skipped, notes, faults>>

\* cleanup_prepared_media_files
Cleanup(left) ==
    /\ at = "clean"
    /\ IF left = {} THEN NoFault ELSE Fault
    /\ files' = left
    /\ at' = "add"
    /\ UNCHANGED <<config, request, n, p, images, staged, cache, attempts, results, skipped, late, notes>>

\* The payload of the task and augment_message_with_media_outputs, which looks for the index under
\* a name that the outputs do not have.
Outputs == IF late THEN <<>> ELSE SelectSeq(results, LAMBDA r : r.said \in {"text", "empty"})
Errors == IF late THEN {"late"} ELSE {r.index : r \in {results[i] : i \in {i \in DOMAIN results : results[i].said = "failed"}}}
Note(o) == [kind |-> o.cap, index |-> 0, of |-> o.of, made |-> o.made]
Augment ==
    /\ at = "add"
    /\ LET told == SelectSeq(Outputs, LAMBDA o : o.said = "text")
       IN  notes' = [i \in DOMAIN told |-> Note(told[i])]
    /\ at' = "done"
    /\ UNCHANGED <<config, request, n, p, images, staged, files, cache, attempts, results, skipped, late, faults>>

Init ==
    /\ config \in Configs /\ request \in Requests
    /\ at = "new" /\ n = 1 /\ p = 1 /\ images = {} /\ staged = <<>> /\ files = {} /\ cache = <<>> /\ attempts = <<>>
    /\ results = <<>> /\ skipped = {} /\ late = FALSE /\ notes = <<>> /\ faults = 0

Next ==
    \/ Receive
    \/ \E ok \in BOOLEAN : Stage(ok) \/ Read(ok)
    \/ Take
    \/ \E said \in {"text", "empty", "failed", "unsupported"} : Answer(said)
    \/ Processed \/ TimesOut
    \/ \E left \in {{}} \cup {{f} : f \in files} : Cleanup(left)
    \/ Augment

Spec == Init /\ [][Next]_vars

-----------------------------------------------------------------------------
\* append_capability_decision_with_state: what is told about the attachments of a kind.
Decision(cap) ==
    LET of == {i \in DOMAIN staged : staged[i].cap = cap /\ (i \in skipped \/ \E r \in DOMAIN results : results[r].index + 1 = i)}
    IN  IF cap \notin config.enabled THEN "disabled"
        ELSE IF of = {} THEN "none"
        ELSE IF \E r \in DOMAIN results : results[r].cap = cap /\ results[r].said \in {"text", "empty"}
             THEN "success" ELSE "skipped"

\* Whenever the time runs out, no staged file outlives the task, unless a file could not be
\* written, read or removed.
StagedAreRemoved == at \in Ends /\ faults = 0 => files = {}

\* Unless the time ran out, each attachment of a wanted kind and size has one result, in order,
\* whatever became of the others, and what is told about a kind agrees with it.
EachIsAnswered ==
    at \in {"add", "done"} /\ faults = 0 /\ ~late =>
        /\ [i \in DOMAIN results |-> results[i].index + 1]
             = SelectSeq([i \in DOMAIN staged |-> i], LAMBDA i : staged[i].cap \in config.enabled /\ CheckSizeLimit(staged[i]))
        /\ \A cap \in config.enabled :
            /\ (Decision(cap) = "success") = (\E i \in DOMAIN Outputs : Outputs[i].cap = cap)
            /\ (Decision(cap) = "none") = (\A i \in DOMAIN staged : staged[i].cap # cap)

\* An attachment fails only after each provider that could describe it was asked once, those of
\* the configuration first and in its order.
FailedWasAskedOfAll ==
    \A i \in DOMAIN results : results[i].said = "failed" /\ results[i].by = None =>
        LET asked == results[i].asked
            chain == ConfiguredChain(results[i].cap)
            rank(q) == IF Contains(chain, q) THEN CHOOSE k \in DOMAIN chain : chain[k] = q /\ \A j \in 1..k - 1 : chain[j] # q
                       ELSE Len(chain) + 1
        IN  /\ {asked[k] : k \in DOMAIN asked} = {q \in {config.keys[k] : k \in DOMAIN config.keys} : Capable(q, results[i].cap)}
            /\ \A j, k \in DOMAIN asked : j < k => asked[j] # asked[k] /\ rank(asked[j]) <= rank(asked[k])

\* What is accepted decodes to as many bytes as was estimated: the limit is that of the bytes.
EstimateIsExact ==
    at \notin {"new", "refused"} => \A i \in DOMAIN Normalized :
        LET c == Normalized[i].a.content
        IN  Size(c) = (6 * Len(SelectSeq(c, LAMBDA x : x = "d"))) \div 8 /\ Size(c) \in 1..MaxBytes

\* No staged file is ever left.  It does not hold: when one cannot be written the others stay (2899).
NothingIsLeft == at = "done" => files = {}

\* A note names the attachment that it is about, as the test at 11161 has it.  It does not hold:
\* the outputs call their index attachment_index (types.rs 38) and the notes look for
\* attachmentIndex (3015), so that all are about the first.
NotesNameTheirAttachment == \A i \in DOMAIN notes : notes[i].index + 1 = notes[i].of

\* A note was made as what it is told to be.  It does not hold: the same bytes sent as an image and
\* as audio share one description (pipeline.rs 164).
NotesAreOfTheirKind == \A i \in DOMAIN notes : notes[i].kind = notes[i].made

\* An empty answer is no answer.  It does not hold: it keeps the next provider from being asked.
EmptyIsNoAnswer == \A i \in DOMAIN results : results[i].said # "empty"

=============================================================================
