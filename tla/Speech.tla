-------------------------------- MODULE Speech --------------------------------
(* Text to speech: the tts.* calls of crates/gateway-core/src/http.rs, the   *)
(* backends of crates/tts-core, the tts tool of crates/tools-core, and       *)
(* talk.mode.  A call reads the runtime settings, then the configuration     *)
(* piece by piece, then asks a service or runs a command, while others       *)
(* change both.                                                              *)
EXTENDS Naturals, Sequences, FiniteSets

CONSTANTS
    Calls, Requests,  \* the calls, and what each may ask: [op, provider, voice, spoken, key, format, timeout]
    Configs,          \* [talk: key, entries, aliases: providers with a key, format, models: by place]
    Environments,     \* providers with a key in the environment
    MaxChanges,       \* bound on changes of the configuration
    None

VARIABLES
    runtime,          \* [enabled, provider, voice]
    mode, events,     \* the talk mode, and what listeners were told of it
    config, env, changes,
    call,             \* the calls
    file,             \* by call: "none", "part" or "whole"
    status            \* the last status: by provider [known, at]

vars == <<runtime, mode, events, config, env, changes, call, file, status>>

Providers == {"openai", "elevenlabs", "edge"}
Keyed == {"openai", "elevenlabs"}
Commands == <<"edge-tts", "python3", "python">>
Idle == [at |-> "new", req |-> None, provider |-> None, voice |-> None, format |-> None, key |-> None,
         since |-> 0, tries |-> 0, enabled |-> TRUE, model |-> None]

TypeOK ==
    /\ runtime.provider \in Providers /\ runtime.enabled \in BOOLEAN
    /\ changes \in 0..MaxChanges
    /\ \A c \in Calls : call[c].tries \in 0..Len(Commands) /\ file[c] \in {"none", "part", "whole"}

Or(a, b) == IF a = None THEN b ELSE a

-----------------------------------------------------------------------------
\* resolve_tts_api_key: whose key is taken.
ResolveKey(cfg, p, asked) ==
    CASE asked -> "request"
      [] ~asked /\ cfg.talk -> "talk"
      [] ~asked /\ ~cfg.talk /\ p \in cfg.entries -> "entry"
      [] ~asked /\ ~cfg.talk /\ p \in cfg.aliases \ cfg.entries -> "alias"
      [] ~asked /\ ~cfg.talk /\ p \in env \ (cfg.entries \cup cfg.aliases) -> "env"
      [] OTHER -> None

\* resolve_tts_model: that of the talk section, of the entries openai, tts and voice, or tts-1.
ResolveModel(cfg) == Or(cfg.models.talk, Or(cfg.models.openai, Or(cfg.models.tts, "tts-1")))
\* resolve_tts_output_format
ResolveFormat(cfg, r) == Or(r.format, Or(cfg.format, "mp3"))

Put(c, v) == call' = [call EXCEPT ![c] = v]
End(c, at) == Put(c, [Idle EXCEPT !.at = at])

Begins(c) == call[c].at = "new" /\ \A d \in Calls : d < c => call[d].at # "new"

\* rpc_tts_enable and disable, rpc_tts_set_provider: a provider that is not known is refused, and
\* the voice stays unless one is given.
Enable(c, r) ==
    /\ Begins(c) /\ r.op \in {"enable", "disable"}
    /\ runtime' = [runtime EXCEPT !.enabled = r.op = "enable"]
    /\ End(c, "done")
    /\ UNCHANGED <<mode, events, config, env, changes, file, status>>

SetProvider(c, r) ==
    /\ Begins(c) /\ r.op = "set"
    /\ IF r.provider \in Providers
       THEN /\ runtime' = [runtime EXCEPT !.provider = r.provider, !.voice = Or(r.voice, runtime.voice)]
            /\ End(c, "done")
       ELSE End(c, "failed") /\ runtime' = runtime
    /\ UNCHANGED <<mode, events, config, env, changes, file, status>>

\* rpc_talk_mode: the mode first, the event after it.
TalkMode(c, r) ==
    /\ Begins(c) /\ r.op = "mode"
    /\ mode' = c
    /\ Put(c, [Idle EXCEPT !.at = "emit"])
    /\ UNCHANGED <<runtime, events, config, env, changes, file, status>>

Emit(c) ==
    /\ call[c].at = "emit"
    /\ events' = Append(events, c)
    /\ End(c, "done")
    /\ UNCHANGED <<runtime, mode, config, env, changes, file, status>>

\* config.set and the like (Settings)
Configure(cfg) ==
    /\ changes < MaxChanges /\ cfg # config
    /\ config' = cfg /\ changes' = changes + 1
    /\ UNCHANGED <<runtime, mode, events, env, call, file, status>>

\* rpc_tts_status and rpc_tts_providers look for the keys one after the other.
Status(c, r) ==
    /\ Begins(c) /\ r.op = "status"
    /\ Put(c, [Idle EXCEPT !.at = "openai"])
    /\ UNCHANGED <<runtime, mode, events, config, env, changes, file, status>>

StatusKey(c) ==
    LET p == call[c].at
    IN  /\ p \in Keyed
        /\ status' = [status EXCEPT ![p] = [known |-> ResolveKey(config, p, FALSE) # None, at |-> changes]]
        /\ Put(c, [call[c] EXCEPT !.at = IF p = "openai" THEN "elevenlabs" ELSE "done"])
        /\ UNCHANGED <<runtime, mode, events, config, env, changes, file>>

-----------------------------------------------------------------------------
\* rpc_tts_convert, up to the first look at the configuration.  prepare_for_tts leaves nothing of
\* a text that is all markup.
Prepared(r) == r.spoken = "words"
Convert(c, r) ==
    /\ Begins(c) /\ r.op = "convert"
    /\ IF ~Prepared(r) THEN End(c, "failed")
       ELSE IF r.provider \notin Providers \cup {None} THEN End(c, "failed")
       ELSE Put(c, [Idle EXCEPT !.at = "format", !.req = r, !.provider = Or(r.provider, runtime.provider),
                                !.voice = Or(r.voice, runtime.voice), !.enabled = runtime.enabled])
    /\ UNCHANGED <<runtime, mode, events, config, env, changes, file, status>>

Format(c) ==
    /\ call[c].at = "format"
    /\ Put(c, [call[c] EXCEPT !.format = ResolveFormat(config, call[c].req),
                              !.at = IF call[c].provider = "edge" THEN "run" ELSE "key"])
    /\ UNCHANGED <<runtime, mode, events, config, env, changes, file, status>>

FindKey(c) ==
    LET k == ResolveKey(config, call[c].provider, call[c].req.key)
    IN  /\ call[c].at = "key"
        /\ Put(c, [call[c] EXCEPT !.since = changes, !.key = k,
                     !.at = IF k = None THEN "failed" ELSE IF call[c].provider = "openai" THEN "model" ELSE "post"])
        /\ UNCHANGED <<runtime, mode, events, config, env, changes, file, status>>

Model(c) ==
    /\ call[c].at = "model"
    /\ Put(c, [call[c] EXCEPT !.at = "post", !.model = ResolveModel(config)])
    /\ UNCHANGED <<runtime, mode, events, config, env, changes, file, status>>

ToolKey(p) == IF p \in env THEN "env" ELSE None

\* The tool: the key is that of the environment, the format mp3, nothing is read of the settings.
Tool(c, r) ==
    LET p == Or(r.provider, "openai")
    IN  /\ Begins(c) /\ r.op = "tool"
        /\ IF r.spoken = "nothing" THEN End(c, "failed")
           ELSE IF p \notin Providers THEN End(c, "failed")
           ELSE IF p \in Keyed /\ ToolKey(p) = None THEN End(c, "failed")
           ELSE Put(c, [Idle EXCEPT !.at = IF p = "edge" THEN "run" ELSE "post", !.req = r, !.provider = p, !.voice = r.voice,
                                    !.format = "mp3", !.key = ToolKey(p), !.enabled = runtime.enabled])
        /\ UNCHANGED <<runtime, mode, events, config, env, changes, file, status>>

\* OpenAI and ElevenLabs: the request and its status, then the file; both make mp3.
Answered(c, ok) ==
    /\ call[c].at = "post"
    /\ IF ok THEN Put(c, [call[c] EXCEPT !.at = "write"]) ELSE End(c, "failed")
    /\ UNCHANGED <<runtime, mode, events, config, env, changes, file, status>>

Write(c, ok) ==
    /\ call[c].at = "write"
    /\ file' = [file EXCEPT ![c] = IF ok THEN "whole" ELSE "part"]
    /\ IF ok THEN Put(c, [call[c] EXCEPT !.at = "tell"]) ELSE End(c, "failed")
    /\ UNCHANGED <<runtime, mode, events, config, env, changes, status>>

\* EdgeTts::synthesize runs the program, python3 and python until one succeeds, the tool the
\* first of them only; one that fails, or is killed when its time is over, may leave part of a file.
Endings(r) == {"ok", "failed"} \cup (IF r.timeout THEN {"killed"} ELSE {})
Tries(r) == IF r.op = "tool" THEN 1 ELSE Len(Commands)
Run(c, end) ==
    /\ call[c].at = "run" /\ end \in Endings(call[c].req)
    /\ file' = [file EXCEPT ![c] = CASE end = "ok" -> "whole" [] end = "killed" -> "part" [] OTHER -> @]
    /\ LET tries == call[c].tries + 1
       IN  IF end = "ok" THEN Put(c, [call[c] EXCEPT !.tries = tries, !.at = "tell"])
           ELSE IF tries = Tries(call[c].req)
           THEN Put(c, [call[c] EXCEPT !.tries = tries, !.at = "failed"])
           ELSE Put(c, [call[c] EXCEPT !.tries = tries])
    /\ UNCHANGED <<runtime, mode, events, config, env, changes, status>>

Tell(c) ==
    /\ call[c].at = "tell"
    /\ End(c, "spoken")
    /\ UNCHANGED <<runtime, mode, events, config, env, changes, file, status>>

Init ==
    /\ runtime = [enabled |-> FALSE, provider |-> "edge", voice |-> None]
    /\ mode = 0 /\ events = <<>>
    /\ config \in Configs /\ env \in Environments /\ changes = 0
    /\ call = [c \in Calls |-> Idle] /\ file = [c \in Calls |-> "none"]
    /\ status = [p \in Keyed |-> [known |-> FALSE, at |-> MaxChanges + 1]]

Next ==
    \/ \E c \in Calls, r \in Requests :
        \/ Enable(c, r) \/ SetProvider(c, r) \/ TalkMode(c, r) \/ Status(c, r) \/ Convert(c, r) \/ Tool(c, r)
    \/ \E cfg \in Configs : Configure(cfg)
    \/ \E c \in Calls : Emit(c) \/ StatusKey(c) \/ Format(c) \/ FindKey(c) \/ Model(c) \/ Tell(c)
    \/ \E c \in Calls, ok \in BOOLEAN : Answered(c, ok) \/ Write(c, ok)
    \/ \E c \in Calls, end \in {"ok", "failed", "killed"} : Run(c, end)

Spec == Init /\ [][Next]_vars

-----------------------------------------------------------------------------
Spoken == {c \in Calls : call[c].at = "tell"}
Found(c) == call[c].at \in {"model", "post", "write", "tell", "failed"} /\ call[c].provider \in Keyed
            /\ call[c].req.op = "convert"

\* What the status said of a key is what a later conversion finds, unless the configuration
\* changed or the request brings its own: the two read it at different times.
StatusAgrees ==
    \A c \in Calls : Found(c) /\ ~call[c].req.key /\ status[call[c].provider].at = call[c].since =>
        status[call[c].provider].known = (call[c].key # None)

\* What is told to be spoken is a whole file, whichever commands were killed over it before.
SpokenIsWhole == \A c \in Spoken : file[c] = "whole"

\* A conversion speaks as it was asked to, whatever is set meanwhile, and otherwise as the
\* settings of its beginning had it.
SpokenAsAsked ==
    \A c \in Spoken : /\ call[c].req.provider # None => call[c].provider = call[c].req.provider
                      /\ call[c].req.voice # None => call[c].voice = call[c].req.voice
                      /\ call[c].provider \in Keyed => call[c].key # None

\* Edge speech is given up only when every command has been tried.
EdgeTriesAll ==
    \A c \in Calls : call[c].at = "failed" /\ call[c].provider = "edge" => call[c].tries = Tries(call[c].req)

\* The provider has the voice.  It does not hold: the voice of the settings outlives their
\* provider (10285) and goes to the one a request names (10327).
VoicesOf(p) == CASE p = "openai" -> {"alloy"} [] p = "elevenlabs" -> {"rachel"} [] p = "edge" -> {"aria"}
VoiceFits == \A c \in Spoken : call[c].req.voice = None => call[c].voice \in VoicesOf(call[c].provider) \cup {None}

\* The key is one of the provider.  It does not hold: that of the talk section goes to any (10043).
KeyFits == \A c \in Spoken : call[c].key # "talk"

\* The file has the format that is told.  It does not hold: the services make mp3 (openai.rs 60).
FormatFits == \A c \in Spoken : call[c].provider \in Keyed => call[c].format = "mp3"

\* Nothing is spoken while speech is off.  It does not hold: a conversion does not ask (10312).
OffIsSilent == \A c \in Spoken : call[c].enabled

\* The model can speak.  It does not hold: that of the chat provider openai is taken (10104).
ModelSpeaks == \A c \in Calls : call[c].at = "post" => call[c].model # "chat-model"

\* The last event is the mode.  It does not hold: the lock is given back before the event (7233).
LastEventIsMode ==
    (\A c \in Calls : call[c].at # "emit") /\ events # <<>> => events[Len(events)] = mode

=============================================================================
