------------------------------ MODULE MCGateway ------------------------------
(* The parts of the gateway of which only safety is checked: its settings, approvals,  *)
(* pairings, sends, session tools, transcripts, the clients and channels that talk to  *)
(* it and the models it talks to.  As in MCServices a behaviour is one of a single     *)
(* part, so TLC explores the union of their state spaces.  Those proved in Safeguards  *)
(* have its variables, constants and properties; the others share one set of variables.*)
EXTENDS Safeguards

VARIABLES s1, s2, s3, s4, s5, s6, s7, s8, s9, s10, s11, s12, s13, s14, s15, s16, s17   \* its state

vars == <<guardVars, s1, s2, s3, s4, s5, s6, s7, s8, s9, s10, s11, s12, s13, s14, s15, s16, s17>>

MemText(len, blank, inside, at, thin) == [len |-> len, blank |-> blank, inside |-> inside, at |-> at, thin |-> thin]
MemPlain ==
    [a |-> MemText(7, {}, {}, [p \in {1, 6} |-> IF p = 1 THEN "apple" ELSE "ox"], FALSE),
     b |-> MemText(3, {}, {}, [p \in {1} |-> "ox"], TRUE)]
MemShapeTable ==
    {MemPlain} \cup {[MemPlain EXCEPT !.a = MemText(l, b, i, <<>>, FALSE)] :
                       l \in {0, 5, 9, 12}, b \in SUBSET {3, 4, 7}, i \in {{}, {5}, {4, 8}, {1, 2, 6}}}
MemQueryTable ==
    {[long |-> {"apple"}, short |-> {}, stop |-> {}], [long |-> {}, short |-> {"ox"}, stop |-> {"the"}]}
SklSpec(form, fits, complete, bins) == [kind |-> form, fits |-> fits, complete |-> complete, bins |-> bins]
SklManifests ==
    [pdf |-> [key |-> "pdf-tools", bins |-> {}, any |-> {"curl"}, ready |-> TRUE,
              specs |-> <<SklSpec("zip", TRUE, TRUE, {"pdftk"}), SklSpec("zip", TRUE, TRUE, {})>>],
     web |-> [key |-> "web", bins |-> {"w3m"}, any |-> {}, ready |-> TRUE,
              specs |-> <<SklSpec("brew", FALSE, TRUE, {"w3m"}), SklSpec("node", TRUE, TRUE, {"w3m"}),
                          SklSpec("zip", TRUE, TRUE, {"w3m"})>>],
     git |-> [key |-> "git", bins |-> {}, any |-> {}, ready |-> TRUE,
              specs |-> <<SklSpec("node", TRUE, TRUE, {"w3m"}), SklSpec("go", TRUE, FALSE, {})>>]]
SklRegistry ==
    {[id |-> "calc", names |-> {"Calc"}, needs |-> {}], [id |-> "shell", names |-> {"shell-run"}, needs |-> {"exec"}]}
TgtAsks ==
    <<{[by |-> 0, label |-> "a"]}, {[by |-> 0, label |-> "ab"], [by |-> 1, label |-> "a"]},
      {[by |-> 0, label |-> "a"], [by |-> 2, label |-> "b"]}>>
TgtNames == {"last", "1", "a", "b", "s1"}
DlvTo(c, t, a, h) == [channel |-> c, to |-> t, account |-> a, thread |-> h]
AdpPlatforms ==
    {"telegram", "discord", "slack", "whatsapp", "mattermost", "matrix", "google_chat", "line", "nostr",
     "signal", "bluebubbles", "msteams", "feishu", "nextcloud", "synology", "zalo", "twitch", "webchat",
     "irc"}
AdpSite(p, complete, more) ==
    [platform |-> p, complete |-> complete, default |-> IF more THEN "d" ELSE None, hooked |-> more,
     guild |-> more]
AdpSites ==
    {AdpSite(p, c, m) : p \in AdpPlatforms, c \in {TRUE}, m \in BOOLEAN}
    \cup {AdpSite(p, FALSE, TRUE) : p \in AdpPlatforms}
SetKinds == <<"patch", "set", "voicewake", "skills", "approvals", "node", "put">>
\* The clients are interchangeable: each mix of kinds once.
MCSetMixes ==
    {[c \in SetClients |-> SetKinds[CASE c = "c1" -> t[1] [] c = "c2" -> t[2] [] OTHER -> t[3]]] :
        t \in {u \in (1..7) \X (1..7) \X (1..7) : u[1] <= u[2] /\ u[2] <= u[3]}}
FeiEvents == {"e1", "e2"}
FbNames == <<"a", "b", "c">>
StreamLine(k, w, cs) == [kind |-> k, wide |-> w, calls |-> cs]
FewLines ==
    {StreamLine("text", FALSE, <<>>), StreamLine("bare", TRUE, <<>>), StreamLine("stop", FALSE, <<>>),
     StreamLine("tool", FALSE, <<TRUE>>)}
StreamLines ==
    FewLines \cup {StreamLine("noise", FALSE, <<>>), StreamLine("tool", FALSE, <<FALSE, TRUE>>)}
HookBody(form, texts, group, signed) ==
    [form |-> form, texts |-> texts, group |-> group, mention |-> FALSE, signed |-> signed,
     old |-> FALSE, bot |-> FALSE]
HookSays(t) == HookBody("message", <<t>>, FALSE, TRUE)
HookHi == <<"hi", "a">>
HookYes == {<<"yes", "a">>, <<"yes", "b">>}
HookOdd ==
    {HookBody("message", <<HookHi>>, TRUE, TRUE), HookBody("message", <<HookHi>>, FALSE, FALSE),
     [HookSays(HookHi) EXCEPT !.old = TRUE], HookSays(<<"", "a">>), HookSays(None),
     HookBody("challenge", <<>>, FALSE, TRUE), HookBody("broken", <<>>, FALSE, TRUE),
     HookBody("other", <<>>, FALSE, TRUE)}
HookWorld(p, m, u, e) ==
    [platform |-> p, secret |-> TRUE, activation |-> "mention", manager |-> m,
     post |-> [u1 |-> u, u2 |-> HookSays(<<"yes", "b">>), o |-> [HookSays(e) EXCEPT !.bot = TRUE]]]
HookPosts ==
    {HookWorld(p, "none", u, <<"yes", "a">>) :
        p \in {"telegram", "slack", "discord", "feishu", "whatsapp", "generic"}, u \in HookOdd}
    \cup {HookWorld(p, "has", HookSays(HookHi), e) : p \in {"telegram", "slack", "generic"}, e \in HookYes}
    \cup {HookWorld("whatsapp", "has", HookBody("message", <<HookHi, HookHi>>, TRUE, TRUE), <<"yes", "a">>)}
HookReplies == [u1 |-> <<"yes", "a">>, u2 |-> <<"no", "a">>, o |-> <<"yes", "a">>]

\* A call with all fields, calls of send with more or less of a route, and every action
\* without one of the fields that it might need.
MsgFields ==
    {"text", "message", "emoji", "query", "name", "position", "target_id", "role", "user", "topic",
     "image", "media", "file", "icon", "buffer", "thread_name", "question", "options",
     "blank_options", "group"}
MsgActions ==
    {"react", "unreact", "reactions", "read", "search", "edit", "delete", "pin", "unpin",
     "list_pins", "permissions", "channel_info", "channel_create", "channel_edit",
     "channel_delete", "channel_move", "channel_permission_set",
     "channel_permission_remove", "category_create", "category_edit", "category_delete",
     "topic_create", "thread_list", "add_participant", "remove_participant", "leave_group",
     "role_info", "role_add", "role_remove", "kick_member", "ban_member", "timeout_member",
     "event_list", "event_create", "emoji_list", "emoji_upload", "sticker_search",
     "sticker_upload", "send_sticker", "voice_status", "rename_group", "set_group_icon",
     "set_presence", "send_with_effect", "send_attachment", "thread_create", "thread_reply",
     "channel_list", "member_info", "poll"}
MsgCall(a) ==
    [action |-> a, remove |-> FALSE, channel |-> None, provider |-> None, target |-> None,
     to |-> None, reply_to |-> None, thread_id |-> None, account |-> None, fields |-> MsgFields,
     targets |-> <<>>, channels |-> <<>>]
MsgScene(c, t, m) == [call |-> c, turn |-> t, meta |-> m]
MsgSends ==
    {[MsgCall("send") EXCEPT !.channel = c, !.provider = p, !.to = t, !.reply_to = r, !.account = a] :
        c \in {None, "", "tg"}, p \in {None, "lark"}, t \in {None, "c"}, r \in {None, "c"},
        a \in {None, "c"}}
MsgTurns ==
    {None} \cup [channel : {"tg", "feishu"}, target : {None, "t"}, account : {None}, thread : {"t"}]
MsgMetas0 == [channel : {None, "tg", "feishu"}, target : {"s"}, account : {"s"}, thread : {"s"}]
MsgCalls ==
    {MsgScene(c, t, m) : c \in MsgSends, t \in MsgTurns, m \in MsgMetas0 \cup {None}}
    \cup {MsgScene([MsgCall(a) EXCEPT !.fields = MsgFields \ d, !.to = "c", !.channel = "lark"],
                   None, None) :
             a \in MsgActions,
             d \in {{f} : f \in MsgFields} \cup {{"text", "query"}, {"options", "blank_options"}}}
    \cup {MsgScene([MsgCall(a) EXCEPT !.to = t, !.channel = "lark", !.remove = (t = None)], None, None) :
             a \in MsgActions, t \in {None, "c"}}
    \cup {MsgScene(MsgCall(a), [channel |-> c, target |-> "t", account |-> None, thread |-> "t"], None) :
             a \in MsgActions, c \in {"lark", "webchat"}}
    \cup {MsgScene([MsgCall("broadcast") EXCEPT !.targets = ts, !.channels = cs], None, None) :
             ts \in {<<"c">>, <<"c", "d">>}, cs \in {<<>>, <<"feishu", "lark">>, <<"tg", "webchat">>}}
MsgAlias == [n \in {"feishu", "lark", "tg", "webchat"} |-> IF n = "lark" THEN "feishu" ELSE n]
MsgNames == <<"feishu", "tg", "webchat">>

BrwRoutes ==
    [c1 |-> [profile |-> "p", actions |-> {"navigate", "console"},
             routes |-> {"status", "create-profile", "delete-profile", "reset-profile", "start",
                         "tabs", "open", "action-new", "focus", "close", "action-close",
                         "action-select", "tab-navigate", "tab-html", "navigate", "screenshot",
                         "cookies-set", "unknown"}],
     c2 |-> [profile |-> "q", actions |-> {}, routes |-> {"close", "delete-profile"}]]

\* Two nodes answer to one name; one offers the command but is of a platform that may not,
\* and one says it can but does not offer it.
BndNode(names, platform, caps, commands) ==
    [names |-> names, platform |-> platform, caps |-> caps, commands |-> commands]
BndDescriptions ==
    [n1 |-> BndNode({"n1", "home"}, "linux", {"browser"}, {"browser.proxy"}),
     n2 |-> BndNode({"n2", "home"}, "macos", {"browser"}, {"canvas.hide"}),
     n3 |-> BndNode({"n3"}, "ios", {}, {"browser.proxy"})]
BndRequests == [query : {None, "home", "n3"}, profile : {None, "work"}]
BndPolicies ==
    {[mode |-> m, node |-> n, allow |-> a, deny |-> d, enabled |-> n = None, profiles |-> {"work"}] :
        m \in {"auto", "off", "manual"}, n \in {None, "home"}, a \in {{}, {"browser.proxy"}},
        d \in {{}, {"browser.proxy"}}}
BndFile(p, bad) == [path |-> p, bad |-> bad]
BndResults ==
    {[files |-> f, path |-> "f"] :
        f \in {<<>>, <<BndFile("f", FALSE)>>, <<BndFile("f", FALSE), BndFile("g", TRUE)>>}}
TrnBinding(k, w, a) == [kind |-> k, where |-> w, agent |-> a]
TrnMessages ==
    {[peer |-> {"u"}, roles |-> {}, guild |-> {"g"}, team |-> {}, account |-> {}, channel |-> {"tg"}]}
TrnSetup(w, t, m, h, b) == [workspace |-> w, tools |-> t, memory |-> m, hatching |-> h, bindings |-> b]
TrnTables ==
    {TrnSetup(TRUE, TRUE, FALSE, FALSE, <<>>), TrnSetup(TRUE, FALSE, TRUE, TRUE, <<>>)}
    \cup {TrnSetup(FALSE, TRUE, TRUE, FALSE, b) :
             b \in {<<TrnBinding("channel", "tg", "x"), TrnBinding("guild", "g", "y"),
                     TrnBinding("default", "", "z"), TrnBinding("guild", "g", "w")>>,
                   <<TrnBinding("default", "", "z"), TrnBinding("peer", "u", "x")>>}}

MedLetters(k) == [i \in 1..k |-> "d"]
MedItem(c, b, d, u, k) == [content |-> c, bytes |-> b, declared |-> d, url |-> u, kind |-> k]
MedContents ==
    {None, <<"d", "d", "=", "=">>, <<"d", "d", "d", "=">>, MedLetters(4), MedLetters(8), MedLetters(12),
     <<"d", "d", "=", "d">>, <<"d", "=", "=", "=">>, MedLetters(3), <<"d", "d", "d", "x">>}
MedItems ==
    {MedItem(MedLetters(4), b, d, None, None) :
        b \in {"png", "mp3", "ogg", "mp4", "pdf", "raw"}, d \in {None, "image"}}
    \cup {MedItem(MedLetters(8), "png", None, None, None), MedItem(MedLetters(4), "raw", None, "audio", None),
          MedItem(MedLetters(4), "raw", None, None, "video"), MedItem(MedLetters(4), "raw", None, None, "file")}
MedMessages ==
    {<<MedItem(c, "png", None, None, None)>> : c \in MedContents} \cup {<<a, b>> : a \in MedItems, b \in MedItems}
MedSettings ==
    [keys : {<<"openai", "anthropic", "google">>, <<"openai", "deepgram">>},
     enabled : {{"image", "audio", "video"}, {"audio", "video"}},
     chain : {[image |-> <<"openai", "anthropic", "google">>,
               audio |-> <<"deepgram", "openai", "gemini", "">>, video |-> <<"gemini">>]},
     limit : {3}]

SpkRequest(o, p, v, s, k, f, t) ==
    [op |-> o, provider |-> p, voice |-> v, spoken |-> s, key |-> k, format |-> f, timeout |-> t]
SpkAsked ==
    {SpkRequest(o, None, None, "words", FALSE, None, FALSE) : o \in {"enable", "disable", "mode", "status"}}
    \cup {SpkRequest("set", p, v, "words", FALSE, None, FALSE) : p \in {"openai", "bogus"}, v \in {None, "alloy"}}
    \cup {SpkRequest("convert", p, None, "words", FALSE, None, TRUE) :
             p \in {None, "openai", "elevenlabs", "bogus"}}
    \cup {SpkRequest("convert", "openai", "alloy", "words", TRUE, "opus", FALSE)}
    \cup {SpkRequest(o, None, "aria", s, FALSE, None, FALSE) :
             o \in {"convert", "tool"}, s \in {"markup", "nothing"}}
    \cup {SpkRequest("tool", p, None, "words", FALSE, None, FALSE) :
             p \in {None, "elevenlabs", "edge", "bogus"}}
SpkModels == [talk |-> None, openai |-> "chat-model", tts |-> None]
SpkConfig(t, e, a, f, m) == [talk |-> t, entries |-> e, aliases |-> a, format |-> f, models |-> m]
SpkSettings ==
    {SpkConfig(FALSE, {}, {}, None, [SpkModels EXCEPT !.openai = None]),
     SpkConfig(TRUE, {}, {}, "opus", [SpkModels EXCEPT !.talk = "m"]),
     SpkConfig(FALSE, {"openai"}, {"elevenlabs"}, None, SpkModels)}

TalkBlock(k, n, g) == [kind |-> k, name |-> n, given |-> g]
TalkWords == TalkBlock("text", None, FALSE)
TalkSaid ==
    {[blocks |-> b, legacy |-> None] :
        b \in {<<TalkBlock("other", None, FALSE)>>, <<TalkWords, TalkWords>>, <<TalkBlock("call", "x", TRUE), TalkWords>>}
            \cup {<<c, d>> : c \in {TalkBlock("markup", "search", FALSE), TalkBlock("call", "", TRUE), TalkBlock("call", "shell", FALSE)},
                       d \in {TalkBlock("call", "x", TRUE), TalkBlock("markup", "search", FALSE)}}}
    \cup {[blocks |-> <<TalkWords>>, legacy |-> TalkBlock("call", n, g)] : n \in {"read"}, g \in BOOLEAN}

-----------------------------------------------------------------------------
\* The loop detector with small thresholds in the same order as the real ones.
DetSigs == {"a", "poll"}
DetPolls == {"poll"}
DetResults == {"x", "y"}
Det == INSTANCE LoopDetect WITH
    Sigs <- DetSigs, Polls <- DetPolls, Results <- DetResults, Window <- 5, Warn <- 3,
    Critical <- 4, Breaker <- 5, MaxCalls <- 6, history <- s1, stopped <- s2, trace <- s3

\* Two requests, two waiters, three decisions.

\* Five sends, three with one key, one with another, one without.
MCSendKeyOf == [r \in SendCalls |-> IF r = "m3" THEN "j" ELSE "k"]

\* Two requests of one device, for two roles, and two connections.
MCDevDeviceOf == [r \in {"r1", "r2"} |-> "d"]
MCDevRoleOf == [r \in {"r1", "r2"} |-> IF r = "r1" THEN "op" ELSE "node"]
MCDevScopesOf == [r \in {"r1", "r2"} |-> IF r = "r1" THEN {"s"} ELSE {}]

\* Two requests of one node, one invocation, room for one pending request.
MCNodeNodeOf == [r \in {"r1", "r2"} |-> "n"]
MCNodeInvokedOn == [i \in {"i1"} |-> "n"]

\* Two updates and two versions to pull.

\* An account and none, with three conversations each, three calls of two callers; every forest
\* of three sessions.
BindNodes == 1..3
BindAgents == {"a", "b"}
BindAccounts == {"", "t"}
BindIds == 1..3
BindCallers == {"p", "q"}
Bind == INSTANCE SessionTools WITH
    Nodes <- BindNodes, Agents <- BindAgents, Accounts <- BindAccounts, Ids <- BindIds,
    Callers <- BindCallers, MaxCalls <- 3, list <- s1, delivery <- s2,
    call <- s3, wanted <- s4, calls <- s5, raced <- s6, stray <- s7

\* One sessions_send from a to b with a talk of two turns, and two operations.
SesKeys == {"a", "b"}
SesSends == {"x"}
SesTarget == [s \in {"x"} |-> "b"]
SesRequester == [s \in {"x"} |-> "a"]
Ses == INSTANCE Sessions WITH
    Keys <- SesKeys, Sends <- SesSends, Target <- SesTarget, Requester <- SesRequester,
    MaxTurns <- 2, MaxMessages <- 2, MaxOps <- 2, count <- s1, rows <- s2, usage <- s3,
    epoch <- s4, transcript <- s5, send <- s6, answer <- s7, kept <- s8, ops <- s9

\* Two turns on one transcript, two writes in flight, one fault.
LoopTurns == {"t1", "t2"}
LoopPlain == {"t2"}
Loop == INSTANCE AgentLoop WITH
    Turns <- LoopTurns, Plain <- LoopPlain, FreshIds <- TRUE, MaxIterations <- 2,
    MaxTries <- 1, MaxOverflow <- 1, MaxCalls <- 1, MaxFlight <- 2, MaxFaults <- 1,
    file <- s1, torn <- s2, flight <- s3, turn <- s4, faults <- s5

\* A file, a source of memories and two texts of which one has many shapes; two calls.
MemCalls == {1, 2}
MemPaths == {"f"}
MemSources == {"s"}
MemTexts == {"a", "b"}
MemBusy == {MemPlain}
MemLikeness == [q \in MemQueryTable |-> [t \in {"a", "b"} |-> IF t = "a" THEN 2 ELSE 1]]
Mem == INSTANCE Memory WITH
    Calls <- MemCalls, Paths <- MemPaths, Sources <- MemSources, Texts <- MemTexts,
    Shapes <- MemShapeTable, Busy <- MemBusy, Queries <- MemQueryTable,
    Likeness <- MemLikeness, Chunk <- 5, Overlap <- 1, Limit <- 1, Multiplier <- 2,
    VectorWeight <- 70, TextWeight <- 30, Threshold <- 35, MaxEdits <- 1, MaxFaults <- 1,
    shape <- s1, provider <- s2, disk <- s3, db <- s4, job <- s5, edits <- s6, faults <- s7,
    fresh <- s8

\* Two turns, of one session or of two, one trouble; the first of them is due for an evolution.
TrnTurns == {1, 2}
TrnSessions == {"a", "b"}
TrnTokens == {0, 2}
Trn == INSTANCE ChannelTurn WITH
    Turns <- TrnTurns, Sessions <- TrnSessions, Contexts <- TrnMessages,
    Setups <- TrnTables, Tokens <- TrnTokens, FlushAt <- 2, Every <- 2, MinTokens <- 1,
    MinMessages <- 1, MaxCaptures <- 1, MaxTroubles <- 1, setup <- s1, hatching <- s2,
    tokens <- s3, turns <- s4, flushed <- s5, captures <- s6, evo <- s7, soul <- s8,
    backup <- s9, turn <- s10, resets <- s11, faults <- s12, counted <- s13, evolved <- s14,
    disturbed <- s15, captured <- s16, wiped <- s17

\* One attachment of any content, or two of any kinds; four providers, one fault.
Med == INSTANCE Media WITH
    Requests <- MedMessages, Configs <- MedSettings, MaxBytes <- 6, MaxFaults <- 1,
    config <- s1, request <- s2, at <- s3, n <- s4, p <- s5, images <- s6, staged <- s7,
    files <- s8, cache <- s9, attempts <- s10, results <- s11, skipped <- s12, late <- s13,
    notes <- s14, faults <- s15

\* Two sockets of the web chat, three frames of which two are messages, a history of three.
WebConns == {"a", "b"}
Web == INSTANCE WebChat WITH
    Conns <- WebConns, MaxHistory <- 3, Recent <- 2, MaxFrames <- 3, MaxMessages <- 2,
    setup <- s1, pc <- s2,
    inbox <- s3, msg <- s4, permit <- s5, memory <- s6, log <- s7, landing <- s8,
    got <- s9, sent <- s10, aborts <- s11, taken <- s12, kept <- s13, hatching <- s14

\* Every route of browser.request or the browse tool, beside one that closes a tab.
BrwCalls == {"c1", "c2"}
BrwProfiles == {"p", "q"}
BrwStored == {"q"}
Brw == INSTANCE Browser WITH
    Calls <- BrwCalls, Menu <- BrwRoutes, MaxTabs <- 6, MaxMoves <- 1,
    Profiles <- BrwProfiles, Stored <- BrwStored, up <- s1, tabs <- s2, count <- s3,
    mem <- s4, file <- s5, remembered <- s6, call <- s7, moves <- s8

\* Three nodes, one request, nodes and the configuration changing under it.
BndNodes == {"n1", "n2", "n3"}
Bnd == INSTANCE BrowserNodes WITH
    Nodes <- BndNodes, Described <- BndDescriptions, Asks <- BndRequests,
    Configs <- BndPolicies, Payloads <- BndResults, MaxChanges <- 1, connected <- s1,
    conf <- s2, busy <- s3, req <- s4, changes <- s5

\* Three skills with installers of each kind, two of the registry, two calls.
SklSkills == {"pdf", "web", "git"}
SklBins == {"curl", "w3m", "pdftk", "npm", "brew", "go", "uv"}
SklPresent == {"curl", "npm"}
SklCalls == {1, 2}
Skl == INSTANCE Skills WITH
    Skills <- SklSkills, Manifest <- SklManifests, Bins <- SklBins, Present <- SklPresent,
    Managers <- <<"pnpm", "npm">>, Brew <- FALSE, Builtin <- SklRegistry, Calls <- SklCalls,
    MaxSets <- 1, bins <- s1, temp <- s2, unpacked <- s3, mem <- s4, file <- s5,
    overrides <- s6, call <- s7, sets <- s8, latest <- s9

\* Two calls of any kind and one change of the configuration.
SpkCalls == {1, 2}
SpkEnvironments == {{}, {"openai"}}
Spk == INSTANCE Speech WITH
    Calls <- SpkCalls, Requests <- SpkAsked, Configs <- SpkSettings,
    Environments <- SpkEnvironments, MaxChanges <- 1, runtime <- s1, mode <- s2,
    events <- s3, config <- s4, env <- s5, changes <- s6, call <- s7, file <- s8,
    status <- s9

\* A message of Feishu in two parts, a chat joined, a connection that breaks once.
FeiParts == [e \in FeiEvents |-> IF e = "e1" THEN 2 ELSE 1]
FeiKindOf == [e \in FeiEvents |-> IF e = "e1" THEN "message" ELSE "joined"]
Fei == INSTANCE FeishuSocket WITH
    Events <- FeiEvents, Parts <- FeiParts, KindOf <- FeiKindOf, MaxSends <- 1,
    MaxBreaks <- 1, link <- s1, sends <- s2, wire <- s3, cache <- s4, outbox <- s5,
    acked <- s6, whole <- s7, task <- s8, chat <- s9, breaks <- s10

\* Streams of up to two lines of six kinds, or three of three, from each of the providers.
StrProviders == {"openai", "anthropic", "google", "cohere", "bedrock", "ollama"}
StrWires == UNION {[1..n -> StreamLines] : n \in 1..2} \cup [1..3 -> FewLines \ {StreamLine("bare", TRUE, <<>>)}]
Str == INSTANCE ModelStream WITH
    Providers <- StrProviders, Wires <- StrWires, Capacity <- 1, provider <- s1, wire <- s2,
    open <- s3, arrived <- s4, cut <- s5, read <- s6, stream <- s7, task <- s8, seq <- s9,
    seen <- s10, out <- s11, taken <- s12, gone <- s13

\* Three providers, two of a kind, and two requests.
FbKindOf == [n \in {"a", "b", "c"} |-> IF n = "a" THEN "openai" ELSE "ollama"]
FbWishes == [target : {None, "ollama", "meta"}, model : {"m"}]
FbConfigs == [env : {None, "b"}, default : {None, "c"}, usable : {{"a", "b", "c"}, {"a", "c"}}, chain : {<<"c">>}]
FbRequests == 1..2
Fb == INSTANCE ProviderFallback WITH
    Configured <- FbNames, KindOf <- FbKindOf, Wishes <- FbWishes, Configs <- FbConfigs,
    Requests <- FbRequests, Cooldown <- 1, MaxTime <- 1, config <- s1, order <- s2,
    wish <- s3, pc <- s4, at <- s5, asked <- s6, passed <- s7, mark <- s8, last <- s9,
    clock <- s10

\* Posts of two users and of what the gateway said, to each of the webhooks.
HookUsers == {"u1", "u2"}
HookEchoes == {"o"}
Hook == INSTANCE Webhooks WITH
    Users <- HookUsers, Echoes <- HookEchoes, Worlds <- HookPosts, ReplyTo <- HookReplies,
    Capacity <- 3, MaxPosts <- 3, world <- s1, handler <- s2, rest <- s3, posts <- s4,
    answer <- s5, recent <- s6, running <- s7, sending <- s8, started <- s9, sent <- s10,
    asked <- s11, swallowed <- s12, said <- s13, evicted <- s14

\* Every action of the message tool, with and without what it needs, a change meanwhile.
Msg == INSTANCE MessageTool WITH
    Scenes <- MsgCalls, Metas <- MsgMetas0, NameOrder <- MsgNames, Norm <- MsgAlias,
    MaxChanges <- 1, call <- s1, turn <- s2, meta <- s3, registered <- s4, pc <- s5,
    intent <- s6, route <- s7, source <- s8, channel <- s9, delivery <- s10, todo <- s11,
    tried <- s12, result <- s13, changes <- s14

\* Every platform, with and without credentials and defaults, every operation, three calls.
Adp == INSTANCE Adapters WITH
    Setups <- AdpSites, ToolNeeds <- Msg!ToolNeeds, MaxCalls <- 3, setup <- s1,
    status <- s2, client <- s3, token <- s4, call <- s5, target <- s6, rest <- s7,
    retry <- s8, accepted <- s9, told <- s10, handle <- s11, proved <- s12, calls <- s13

\* Three subagents, side by side or one below the other, and two calls.
TgtRuns == 1..3
TgtOthers == {[key |-> 9, label |-> "b"]}
TgtNumberOf == [w \in TgtNames |-> IF w = "1" THEN 1 ELSE None]
TgtKeyOf == [w \in TgtNames |-> IF w = "s1" THEN 1 ELSE None]
TgtBegins == {<<"a", "a">>, <<"a", "ab">>, <<"b", "b">>}
TgtIdWord == [r \in 1..3 |-> "c"]
Tgt == INSTANCE SubagentTargets WITH
    Runs <- TgtRuns, Main <- 0, Asked <- TgtAsks, Others <- TgtOthers, Words <- TgtNames,
    NumberOf <- TgtNumberOf, KeyOf <- TgtKeyOf, Begins <- TgtBegins, IdWord <- TgtIdWord,
    MaxCalls <- 2, order <- s1, phase <- s2, session <- s3, parent <- s4, label <- s5,
    marked <- s6, listed <- s7, told <- s8, calls <- s9, dropped <- s10

\* A session and its subagent, four conversations, four steps.
DlvChildren == {"c"}
DlvDeliveries == {DlvTo("tg", "g1", None, "h"), DlvTo("tg", "g2", None, None), DlvTo("dc", "k1", "x", None), DlvTo("webchat", "w", None, None)}
DlvKeys == [s \in {"m", "c"} |-> IF s = "m" THEN None ELSE [channel |-> "dc", kind |-> "group", id |-> "k1", topic |-> None]]
DlvHookReplies == {DlvTo(None, None, None, None), DlvTo("webchat", "w", None, None), DlvTo("tg", "g2", None, None)}
DlvChats == [g1 |-> "tg", g2 |-> "tg", k1 |-> "dc", w |-> "webchat"]
Dlv == INSTANCE DeliveryTargets WITH
    Children <- DlvChildren, Main <- "m", Deliveries <- DlvDeliveries, Keys <- DlvKeys,
    HookReplies <- DlvHookReplies, Chats <- DlvChats, MaxSteps <- 4, delivery <- s1,
    latest <- s2, binding <- s3, target <- s4, steps <- s5, mixed <- s6

\* A terminal client with two messages, replies in two pieces.
TuiSettings == {"a", "b"}
Tui == INSTANCE Terminal WITH
    MaxAsked <- 2, MaxChunks <- 2, Capacity <- 2, MaxHistory <- 3, Settings <- TuiSettings,
    First <- "a", phase <- s1, connected <- s2, hatching <- s3, history <- s4, active <- s5,
    text <- s6, got <- s7, hturn <- s8, setting <- s9, task <- s10, asked <- s11,
    events <- s12, needs <- s13, disturbed <- s14

\* Three requests to each of six services.
TalkProviders == {"openai", "anthropic", "ollama", "google", "bedrock", "cohere"}
Talk == INSTANCE ModelTalk WITH
    Providers <- TalkProviders, Answers <- TalkSaid, MaxRounds <- 3, MaxWarnings <- 1,
    provider <- s1, convo <- s2, sent <- s3, at <- s4, answer <- s5, round <- s6,
    warnings <- s7

\* The hypotheses of the theorems in Safeguards are true of this instance.
ASSUME GuardsAssumption ==
    /\ NoneIsNothing /\ PairingConstants /\ DeviceConstants /\ Send!NamesAreDistinct
    /\ SettingsConstants /\ UpdateConstants /\ ConnectionConstants /\ CompletionConstants

-----------------------------------------------------------------------------
\* Slots from the n-th on that a component does not need.
Free17 == s17 = None
Free16 == s16 = None /\ Free17
Free15 == s15 = None /\ Free16
Free14 == s14 = None /\ Free15
Free13 == s13 = None /\ Free14
Free12 == s12 = None /\ Free13
Free11 == s11 = None /\ Free12
Free10 == s10 = None /\ Free11
Free9 == s9 = None /\ Free10
Free8 == s8 = None /\ Free9
Free7 == s7 = None /\ Free8
Free6 == s6 = None /\ Free7
Free5 == s5 = None /\ Free6
Free4 == s4 = None /\ Free5
Free1 == s1 = None /\ s2 = None /\ s3 = None /\ Free4

\* The variables of Safeguards, where they are not needed.
NoGate ==
    /\ approvals = None /\ expired = None /\ waiter = None /\ decisions = None /\ asked = None
NoDev ==
    /\ pending = None /\ index = None /\ paired = None /\ disk = None /\ devTmp = None /\ call = None
    /\ calls = None /\ announced = None /\ decided = None /\ open = None /\ mixed = None
    /\ faults = None
NoNode ==
    /\ store = None /\ old = None /\ pairs = None /\ nodeIndex = None /\ connected = None
    /\ asking = None /\ found = None /\ approving = None /\ rejecting = None
    /\ verifying = None /\ invoke = None /\ reported = None
NoSend ==
    /\ pc = None /\ reply = None /\ gate = None /\ dedupe = None /\ delivered = None
    /\ context = None
NoSet ==
    /\ kind = None /\ setting = None /\ config = None /\ configFile = None /\ live = None
    /\ afile = None /\ stale = None /\ setFaults = None /\ setRaced = None
NoUpd ==
    /\ remote = None /\ tree = None /\ binary = None /\ git = None /\ cargo = None
    /\ update = None /\ tmp = None /\ sentinel = None /\ due = None /\ down = None
    /\ crossed = None
NoConn ==
    /\ server = None /\ called = None /\ signal = None /\ conn = None /\ inbox = None
    /\ taken = None /\ answered = None /\ sessions = None /\ published = None /\ cursor = None
    /\ joined = None /\ heard = None
NoComp ==
    /\ hatching = None /\ identity = None /\ log = None /\ req = None /\ stage = None
    /\ recalled = None /\ rounds = None /\ text = None /\ sent = None /\ answer = None
    /\ cleared = None /\ failed = None /\ tooled = None /\ landing = None /\ lost = None

\* One of the two completions has a session and a question, and there are tools unless they matter.
CompInputs ==
    /\ req[2].session /\ req[2].asks /\ ~req[2].explicit
    /\ (~req[1].session \/ ~req[1].asks => ~req[1].explicit)
    /\ tooled \/ hatching

\* The two requests to the models are alike: each pair of wishes once.
FbInOrder ==
    /\ s3[1].target = "meta" => s3[2].target = "meta"
    /\ s3[2].target = None => s3[1].target = None

GuardInit ==
    \/ part = "gate" /\ Gate!Init /\ waiter["w1"].id = "r1" /\ NoDev /\ NoNode /\ NoSend /\ NoSet /\ NoUpd /\ NoConn /\ NoComp
    \/ part = "dev" /\ Dev!Init /\ NoGate /\ NoNode /\ NoSend /\ NoSet /\ NoUpd /\ NoConn /\ NoComp
    \/ part = "node" /\ Node!Init /\ NoGate /\ NoDev /\ NoSend /\ NoSet /\ NoUpd /\ NoConn /\ NoComp
    \/ part = "send" /\ Send!Init /\ NoGate /\ NoDev /\ NoNode /\ NoSet /\ NoUpd /\ NoConn /\ NoComp
    \/ part = "set" /\ Set!Init /\ NoGate /\ NoDev /\ NoNode /\ NoSend /\ NoUpd /\ NoConn /\ NoComp
    \/ part = "upd" /\ Upd!Init /\ NoGate /\ NoDev /\ NoNode /\ NoSend /\ NoSet /\ NoConn /\ NoComp
    \/ part = "conn" /\ Conn!Init /\ NoGate /\ NoDev /\ NoNode /\ NoSend /\ NoSet /\ NoUpd /\ NoComp
    \/ part = "comp" /\ Comp!Init /\ CompInputs /\ NoGate /\ NoDev /\ NoNode /\ NoSend /\ NoSet /\ NoUpd /\ NoConn
OtherInit ==
    \/ part = "det" /\ Det!Init /\ Free4
    \/ part = "bind" /\ Bind!Init /\ Free8
    \/ part = "ses" /\ Ses!Init /\ Free10
    \/ part = "loop" /\ Loop!Init /\ Free6
    \/ part = "mem" /\ Mem!Init /\ Free9
    \/ part = "trn" /\ Trn!Init
    \/ part = "med" /\ Med!Init /\ Free16
    \/ part = "web" /\ Web!Init /\ s14 = (s1 = "agent") /\ Free15
    \/ part = "brw" /\ Brw!Init /\ Free9
    \/ part = "bnd" /\ Bnd!Init /\ Free6
    \/ part = "skl" /\ Skl!Init /\ Free10
    \/ part = "spk" /\ Spk!Init /\ Free10
    \/ part = "fei" /\ Fei!Init /\ Free11
    \/ part = "str" /\ Str!Init /\ Free14
    \/ part = "fb" /\ Fb!Init /\ FbInOrder /\ Free11
    \/ part = "hook" /\ Hook!Init /\ Free15
    \/ part = "msg" /\ Msg!Init /\ Free15
    \/ part = "adp" /\ Adp!Init /\ Free14
    \/ part = "tgt" /\ Tgt!Init /\ Free11
    \/ part = "dlv" /\ Dlv!Init /\ Free7
    \/ part = "tui" /\ Tui!Init /\ Free15
    \/ part = "talk" /\ Talk!Init /\ Free8
Init ==
    \/ GuardInit /\ Free1
    \/ OtherInit /\ NoGate /\ NoDev /\ NoNode /\ NoSend /\ NoSet /\ NoUpd /\ NoConn /\ NoComp

slots == <<s1, s2, s3, s4, s5, s6, s7, s8, s9, s10, s11, s12, s13, s14, s15, s16, s17>>
gates == <<approvals, expired, waiter, decisions, asked>>
devs == <<pending, index, paired, disk, devTmp, call, calls, announced, decided, open, mixed, faults>>
nodes == <<store, old, pairs, nodeIndex, connected, asking, found, approving, rejecting, verifying, invoke, reported>>
sends == <<pc, reply, gate, dedupe, delivered, context>>
sets == <<kind, setting, config, configFile, live, afile, stale, setFaults, setRaced>>
upds == <<remote, tree, binary, git, cargo, update, tmp, sentinel, due, down, crossed>>
conns == <<server, called, signal, conn, inbox, taken, answered, sessions, published, cursor, joined, heard>>
comps == <<hatching, tooled, identity, log, landing, lost, req, stage, recalled, rounds, text, sent, answer,
           cleared, failed>>
guards == <<gates, devs, nodes, sends, sets, upds, conns, comps>>

\* Clients, callers or sockets that are alike come in a fixed order.
GateMoves == part = "gate" /\ Gate!Next /\ UNCHANGED <<part, slots, devs, nodes, sends, sets, upds, conns, comps>>
DevMoves ==
    /\ part = "dev" /\ Dev!Next
    /\ call["c2"].at = "idle" /\ call'["c2"].at # "idle" => call["c1"].at # "idle"
    /\ UNCHANGED <<part, slots, gates, nodes, sends, sets, upds, conns, comps>>
\* A command that has found its node meets the pairing no more, whoever else asks for a pairing.
NodeMoves ==
    /\ part = "node" /\ Node!Next
    /\ invoke'["i1"].at # "new" => asking["r2"] = "new" /\ UNCHANGED Node!pairVars
    /\ UNCHANGED <<part, slots, gates, devs, sends, sets, upds, conns, comps>>
SendMoves == part = "send" /\ Send!Next /\ UNCHANGED <<part, slots, gates, devs, nodes, sets, upds, conns, comps>>
SetMoves ==
    /\ part = "set" /\ Set!Next
    /\ \A p \in {<<"c1", "c2">>, <<"c2", "c3">>} :
          kind[p[1]] = kind[p[2]] /\ setting'[p[2]].at # "new" => setting'[p[1]].at # "new"
    /\ UNCHANGED <<part, slots, gates, devs, nodes, sends, upds, conns, comps>>
UpdMoves == part = "upd" /\ Upd!Next /\ UNCHANGED <<part, slots, gates, devs, nodes, sends, sets, conns, comps>>
DetMoves == part = "det" /\ Det!Next /\ UNCHANGED <<part, guards, s4, s5, s6, s7, s8, s9, s10, s11, s12, s13, s14, s15, s16, s17>>
BindMoves ==
    /\ part = "bind" /\ Bind!Next
    /\ s3["q"].at = "idle" /\ s3'["q"].at # "idle" => s3["p"].at # "idle"
    /\ UNCHANGED <<part, guards, s8, s9, s10, s11, s12, s13, s14, s15, s16, s17>>
SesMoves == part = "ses" /\ Ses!Next /\ UNCHANGED <<part, guards, s10, s11, s12, s13, s14, s15, s16, s17>>
LoopMoves == part = "loop" /\ Loop!Next /\ UNCHANGED <<part, guards, s6, s7, s8, s9, s10, s11, s12, s13, s14, s15, s16, s17>>
MemMoves == part = "mem" /\ Mem!Next /\ UNCHANGED <<part, guards, s9, s10, s11, s12, s13, s14, s15, s16, s17>>
TrnMoves == part = "trn" /\ Trn!Next /\ UNCHANGED <<part, guards>>
MedMoves == part = "med" /\ Med!Next /\ UNCHANGED <<part, guards, s16, s17>>
WebMoves ==
    /\ part = "web" /\ Web!Next
    /\ s9'["b"] # <<>> => s9'["a"] # <<>>
    /\ UNCHANGED <<part, guards, s15, s16, s17>>
ConnMoves == part = "conn" /\ Conn!Next /\ UNCHANGED <<part, slots, gates, devs, nodes, sends, sets, upds, comps>>
CompMoves == part = "comp" /\ Comp!Next /\ UNCHANGED <<part, slots, gates, devs, nodes, sends, sets, upds, conns>>
BrwMoves == part = "brw" /\ Brw!Next /\ UNCHANGED <<part, guards, s9, s10, s11, s12, s13, s14, s15, s16, s17>>
BndMoves == part = "bnd" /\ Bnd!Next /\ UNCHANGED <<part, guards, s6, s7, s8, s9, s10, s11, s12, s13, s14, s15, s16, s17>>
SklMoves == part = "skl" /\ Skl!Next /\ UNCHANGED <<part, guards, s10, s11, s12, s13, s14, s15, s16, s17>>
SpkMoves == part = "spk" /\ Spk!Next /\ UNCHANGED <<part, guards, s10, s11, s12, s13, s14, s15, s16, s17>>
FeiMoves == part = "fei" /\ Fei!Next /\ UNCHANGED <<part, guards, s11, s12, s13, s14, s15, s16, s17>>
StrMoves == part = "str" /\ Str!Next /\ UNCHANGED <<part, guards, s14, s15, s16, s17>>
FbMoves == part = "fb" /\ Fb!Next /\ UNCHANGED <<part, guards, s11, s12, s13, s14, s15, s16, s17>>
HookMoves == part = "hook" /\ Hook!Next /\ UNCHANGED <<part, guards, s15, s16, s17>>
MsgMoves == part = "msg" /\ Msg!Next /\ UNCHANGED <<part, guards, s15, s16, s17>>
AdpMoves == part = "adp" /\ Adp!Next /\ UNCHANGED <<part, guards, s14, s15, s16, s17>>
TgtMoves == part = "tgt" /\ Tgt!Next /\ UNCHANGED <<part, guards, s11, s12, s13, s14, s15, s16, s17>>
DlvMoves == part = "dlv" /\ Dlv!Next /\ UNCHANGED <<part, guards, s7, s8, s9, s10, s11, s12, s13, s14, s15, s16, s17>>
TuiMoves == part = "tui" /\ Tui!Next /\ UNCHANGED <<part, guards, s15, s16, s17>>
TalkMoves == part = "talk" /\ Talk!Next /\ UNCHANGED <<part, guards, s8, s9, s10, s11, s12, s13, s14, s15, s16, s17>>

Next ==
    \/ DetMoves \/ GateMoves \/ SetMoves \/ SendMoves \/ DevMoves
    \/ NodeMoves \/ BindMoves \/ SesMoves \/ LoopMoves \/ MemMoves
    \/ TrnMoves \/ MedMoves \/ WebMoves \/ ConnMoves \/ CompMoves
    \/ BrwMoves \/ BndMoves \/ SklMoves \/ SpkMoves \/ UpdMoves
    \/ FeiMoves \/ StrMoves \/ FbMoves \/ HookMoves \/ MsgMoves
    \/ AdpMoves \/ TgtMoves \/ DlvMoves \/ TuiMoves \/ TalkMoves

Spec == Init /\ [][Next]_vars

-----------------------------------------------------------------------------

\* The tree of collect_tree_visible_keys is exactly the sessions below the requester, and a wider
\* visibility setting never hides what a narrower one shows.
\* The bindings in force between calls of subagents_focus and subagents_unfocus that did not
\* overlap are the ones that were asked for, but for the account of a call that names none, and a
\* completion goes to the one that is nearest to the requester.
\* The session store stays consistent and keeps what was answered, and the sessions of a talk
\* take turns, through deletes, resets, compactions and restarts.
\* A call of the subagents tool takes the run its number, label or session meant when it was
\* listed, or refuses, and a kill takes what is below that run and nothing else.
\* The end of a subagent is announced to a chat of the channel it is sent on, whichever
\* conversations its session, its requester and the hook have named.
\* A browser call that is told that it was wrong has changed nothing, acts on no tab but its
\* own, leaves at most three behind, and finds what it was told ok for on file.
\* A browser request goes to the node it names and to no other, and heeds the configuration as
\* long as nobody writes it.
\* A skill that was told enabled or disabled stays so on file, and an installer that was told
\* done has unpacked what it was asked for, unless another download came between.
\* A conversion to speech finds the keys that the status told of, speaks as it was asked to
\* and leaves a whole file, whatever is set while it runs.
SessionToolsHold ==
    /\ [](part = "bind" =>
           /\ Bind!TypeOK
           /\ Bind!BindingsMatchCalls
           /\ Bind!RouteIsNearest
           /\ Bind!TreeIsExact
           /\ Bind!WiderShowsMore)
    /\ [](part = "ses" =>
           /\ Ses!TypeOK
           /\ Ses!StoreIsConsistent
           /\ Ses!SessionsTakeTurns
           /\ Ses!AnsweredIsKept)
    /\ [](part = "tgt" =>
           /\ Tgt!TypeOK
           /\ Tgt!NumbersHold
           /\ Tgt!LabelsHold
           /\ Tgt!StopsItsOwn
           /\ Tgt!KillTakesTheFamily
           /\ Tgt!OneRunPerSession
           /\ Tgt!MarkedIsStopped)
    /\ [](part = "dlv" =>
           /\ Dlv!TypeOK
           /\ Dlv!AnnouncedToAChat
           /\ Dlv!RememberedIsOne
           /\ Dlv!NeverNowhere)
    /\ [](part = "brw" =>
           /\ Brw!TypeOK
           /\ Brw!InvalidIsHarmless
           /\ Brw!OwnTabOnly
           /\ Brw!ThreeAtMost
           /\ Brw!NoPageIsReached
           /\ Brw!OkIsOnFile)
    /\ [](part = "bnd" => Bnd!TypeOK /\ Bnd!NamedIsNamed /\ Bnd!PathsAreHere)
    /\ [][part = "bnd" => Bnd!PolicyIsHeeded]_vars
    /\ [](part = "skl" =>
           /\ Skl!TypeOK
           /\ Skl!UpdatesLast
           /\ Skl!InstalledIsAsked
           /\ Skl!OffersFit)
    /\ [](part = "spk" =>
           /\ Spk!TypeOK
           /\ Spk!StatusAgrees
           /\ Spk!SpokenIsWhole
           /\ Spk!SpokenAsAsked
           /\ Spk!EdgeTriesAll)

\* However the network cuts a streamed answer, what the provider reads of it is handed on once and
\* in order, with nothing missing but the line the end has cut, and a broken connection is told.
\* Some never read: pieces whose delta names no role (openai, chat.rs 131), calls of tools (all but
\* ollama).
\* A request fails only after every usable provider has failed or was cooling down, and a
\* provider cools down only after a failure, whichever requests share it.
\* With openai, anthropic and ollama a structured call with its name and its id is heard whatever
\* stands around it, and the service is sent each call with its result before anything else the
\* model said; a warning may stand between them (agent.rs 602).
ModelsAreHeard ==
    /\ (part = "str" =>
           /\ Str!TypeOK
           /\ Str!SentIsWorth
           /\ Str!NothingIsMissing
           /\ Str!BreaksAreTold
           /\ Str!CallsAreApart
           /\ Str!ReasonsFit)
    /\ (part = "fb" =>
           /\ Fb!TypeOK
           /\ Fb!OrderIsWhole
           /\ Fb!FailsLast
           /\ Fb!MarkIsLastOutcome
           /\ Fb!ModelsStayHome)
    /\ (part = "talk" =>
           /\ Talk!TypeOK
           /\ Talk!ResultsFollowCalls
           /\ Talk!ResultsGoByName
           /\ Talk!OfficialIsHeard)

\* A post to a webhook is handled no more often than it was sent; what the gateway said itself is
\* not answered, unless its text was asked for before or was pushed out; and a message is taken for
\* an echo as often as the gateway said it, or twice as often where it is spelled in other ways.
\* A message of the agent goes where its call, or else one earlier delivery on the same channel,
\* says, whatever other turns store meanwhile; what the tool accepts can be fulfilled, and a
\* broadcast tries everybody once.
\* The nine adapters that read their answers (Confirming) report only what their platform has done,
\* and every platform is asked in order and once.  A message goes where it is meant to or is
\* refused with eight adapters, and with three more when it comes from the message tool; replies to
\* a webhook through the others may go elsewhere (RepliesReachTheirChat does not hold).  An adapter
\* says Connected only when it can send.
\* An event of Feishu is acknowledged only when it was handed to a task, never handled more
\* often than it was sent, and replied to once by its task.
MessagesAreRouted ==
    /\ (part = "hook" =>
           /\ Hook!TypeOK
           /\ Hook!TasksFitPosts
           /\ Hook!EchoesAreKnown
           /\ Hook!SwallowedWasSaid)
    /\ (part = "msg" =>
           /\ Msg!TypeOK
           /\ Msg!RouteIsOfOneDelivery
           /\ Msg!OnlyChannelsAreCalled
           /\ Msg!IntentsAreComplete
           /\ Msg!BroadcastTriesAll)
    /\ (part = "adp" =>
           /\ Adp!TypeOK
           /\ Adp!OkWasFulfilled
           /\ Adp!FulfilledInOrder
           /\ Adp!GoesWhereMeant
           /\ Adp!ConnectedIsEarned
           /\ Adp!DiscordTakesIntents)
    /\ (part = "fei" => Fei!TypeOK /\ Fei!AckedWasHandled /\ Fei!OneReplyPerTask)

=============================================================================
