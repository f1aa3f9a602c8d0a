----------------------------- MODULE Adapters -----------------------------
(* A channel adapter (crates/channel-core/src) between the gateway and its      *)
(* platform: connect, disconnect, messages and the other operations, one call   *)
(* at a time.  A call is refused, or makes requests; a request may be lost on    *)
(* its way or its answer on the way back, and every adapter reads answers in     *)
(* its own way.  Where a message goes depends on the metadata that the gateway   *)
(* or the webhook has given it.                                                  *)
EXTENDS Naturals, Sequences, SequencesExt, FiniteSets

CONSTANTS Setups,      \* platform, credentials present, default conversation, webhook, guild
          ToolNeeds,   \* what the message tool asks for before it passes an action on
          MaxCalls,    \* bound
          None

-----------------------------------------------------------------------------
(* What the operations of the channel adapters (crates/channel-core/src) need  *)
(* before they ask their platform for anything, and the requests they then     *)
(* make.  A need is a set of things of which one must be given: a field of the  *)
(* call, "target", "guild" (of the call or the configuration), "first" (the     *)
(* first configured channel), "online" (the status is Connected) or "handle" (a   *)
(* message id that names its chat).                                             *)

\* A request: "must" ends the call when it fails, "may" is ignored then, and of several "any" (Until)
\* the first that succeeds ends the call.
Must(w) == <<w, "must">>
May(w) == <<w, "may">>
Until(w) == <<w, "any">>
\* The rest needs the id in its answer; without one the call ends well.
Lead(w) == <<w, "lead">>

Op(needs, requests) == [needs |-> needs, requests |-> requests]
Ask(needs) == Op(needs, <<Must("ask")>>)

-----------------------------------------------------------------------------
\* Discord.

DiscordTalkOps ==
    [react |-> Ask({{"channel", "first"}}), unreact |-> Ask({{"first"}}), edit |-> Ask({{"first"}}),
     delete |-> Ask({{"first"}}), create_thread |-> Ask({{"first"}}), thread_reply |-> Ask({})]
DiscordPollOps == [poll |-> Ask({})]

\* A source that cannot be fetched is sent as a link.
SourceThenAsk == <<May("fetch"), Must("ask")>>
DiscordMediaOps == [media |-> Op({}, SourceThenAsk)]

DiscordAccountOps == [typing |-> Ask({{"online"}, {"first"}}), accounts |-> Ask({{"online"}})]
DiscordListOps == [list_members |-> Ask({{"guild"}}), list_groups |-> Ask({{"guild"}})]
DiscordReadOps ==
    [reactions |-> Ask({{"target", "first"}}), read |-> Ask({}), search |-> Ask({{"guild"}, {"query"}})]
DiscordPinOps == [pin |-> Ask({}), unpin |-> Ask({}), list_pins |-> Ask({}), permissions |-> Ask({})]

Overwrites == {{"target"}, {"target_id", "role", "user"}}

DiscordChannelOps ==
    [channel_info |-> Ask({{"target"}}), channel_list |-> Ask({{"guild"}}),
     channel_create |-> Ask({{"guild"}, {"name"}}), channel_edit |-> Ask({{"target"}}),
     channel_delete |-> Ask({{"target"}}), channel_move |-> Ask({{"guild"}, {"target"}, {"position"}}),
     channel_permission_set |-> Ask(Overwrites), channel_permission_remove |-> Ask(Overwrites)]

DiscordTopicOps ==
    [category_create |-> Ask({{"guild"}, {"name"}}), category_edit |-> Ask({{"target"}, {"name"}}),
     category_delete |-> Ask({{"target"}}), topic_create |-> Ask({{"target"}, {"topic", "text"}})]

\* thread_create on a message is one request.  Otherwise the kind of the channel is asked for,
\* which may fail; in a forum the text goes with the thread, elsewhere it is a request more.
DiscordThreadOps ==
    LET named == {{"target"}, {"thread_name", "name"}} IN
    [thread_create_on |-> Ask(named),
     thread_create_forum |-> Op(named, <<May("ask"), Must("ask")>>),
     thread_create |-> Op(named, <<May("ask"), Lead("ask"), Must("ask")>>),
     thread_list |-> Ask({{"guild"}}), thread_list_archived |-> Ask({{"guild"}, {"target"}})]

DiscordMemberOps ==
    LET member == {{"guild"}, {"user"}} IN
    [add_participant |-> Ask({{"target"}, {"user"}}), remove_participant |-> Ask({{"target"}, {"user"}}),
     leave_group |-> Ask({{"target"}}), member_info |-> Ask({{"guild"}, {"user", "target"}}),
     role_info |-> Ask({{"guild"}}), role_add |-> Ask(member \cup {{"role"}}),
     role_remove |-> Ask(member \cup {{"role"}})]

DiscordGuildOps ==
    LET member == {{"guild"}, {"user"}} IN
    [kick_member |-> Ask(member), ban_member |-> Ask(member), timeout_member |-> Ask(member),
     event_list |-> Ask({{"guild"}}), event_create |-> Ask({{"guild"}, {"name"}})]

\* Pictures are fetched first, or come as data.
Picture == <<Must("fetch"), Must("ask")>>
DiscordStickerOps ==
    [emoji_list |-> Ask({{"guild"}}), emoji_upload |-> Op({{"guild"}, {"name"}, {"image", "media", "file", "buffer"}}, Picture),
     sticker_search |-> Ask({{"guild"}}),
     sticker_upload |-> Op({{"guild"}, {"name"}, {"media", "file", "buffer"}}, Picture),
     send_sticker |-> Ask({{"target"}, {"sticker"}})]
DiscordGroupOps ==
    [voice_status |-> Ask({{"guild"}, {"user", "target"}}),
     rename_group |-> Ask({{"target"}, {"name"}}),
     set_group_icon |-> Op({{"target"}, {"icon", "media"}}, Picture)]

-----------------------------------------------------------------------------
\* Slack: a handle is "<channel>_<ts>".

SlackTalkOps ==
    [react |-> Ask({{"handle"}}), unreact |-> Ask({{"handle"}}), edit |-> Ask({{"handle"}}),
     delete |-> Ask({{"handle"}}), thread_reply |-> Ask({{"channel"}})]

SlackListOps ==
    [accounts |-> Op({{"online"}}, <<Must("id")>>), list_members |-> Ask({}), list_groups |-> Ask({})]
SlackReadOps ==
    [reactions |-> Ask({{"handle", "target"}}), read |-> Ask({}), search |-> Ask({{"query"}})]

SlackPinOps == [pin |-> Ask({}), unpin |-> Ask({}), list_pins |-> Ask({}), permissions |-> Ask({})]
SlackCustomOps ==
    [member_info |-> Ask({{"user", "target"}}), emoji_list |-> Ask({})]

-----------------------------------------------------------------------------
\* Telegram: a handle is "<chat>_<message>"; media as bytes is refused.

TelegramMediaOps == [media |-> Ask({{"link"}}), download |-> Op({}, <<Must("ask"), Must("fetch")>>)]

TelegramAccountOps == [typing |-> Ask({{"online"}}), accounts |-> Ask({{"online"}})]
TelegramThreadOps == [thread_reply |-> Ask({{"chat"}})]
TelegramOps ==
    [edit |-> Ask({{"handle"}}), delete |-> Ask({{"handle"}}), poll |-> Ask({}), list_members |-> Ask({})]

\* WhatsApp.
WhatsappOps ==
    [react |-> Ask({{"recipient"}}), media |-> Ask({{"link"}}), poll |-> Ask({}),
     download |-> Op({}, <<Must("id"), Must("fetch")>>)]

\* Feishu: every request goes through the same retry.
FeishuReactOps == [react |-> Ask({}), get_read_users |-> Ask({})]
FeishuChatOps == [get_chat |-> Ask({}), list_groups |-> Op({}, <<Must("id")>>), get_user |-> Ask({})]
FeishuMessageOps == [delete |-> Ask({}), edit |-> Ask({}), forward |-> Ask({})]
FeishuThreadOps == [thread_reply |-> Ask({})]
FeishuUploadOps == [upload |-> Op({}, <<Must("id")>>)]

-----------------------------------------------------------------------------
\* Without an implementation of its own an operation is refused, but a reaction is taken for
\* done; the gateway asks all adapters for all operations.
DefaultOps == [react |-> Op({}, <<>>)]

Merge(f, g) == [x \in DOMAIN f \cup DOMAIN g |-> IF x \in DOMAIN g THEN g[x] ELSE f[x]]
All(tables) == FoldLeft(Merge, DefaultOps, tables)

\* The actions that come through custom_action, and all.
DiscordCustomOps ==
    FoldLeft(Merge, DiscordChannelOps, <<DiscordTopicOps, DiscordThreadOps, DiscordMemberOps,
                                         DiscordGuildOps, DiscordStickerOps, DiscordGroupOps>>)
DiscordOps ==
    All(<<DiscordTalkOps, DiscordPollOps, DiscordMediaOps, DiscordAccountOps, DiscordListOps,
          DiscordReadOps, DiscordPinOps, DiscordCustomOps>>)
SlackOps == All(<<SlackTalkOps, SlackListOps, SlackReadOps, SlackPinOps, SlackCustomOps>>)
TelegramAllOps == All(<<TelegramAccountOps, TelegramThreadOps, TelegramOps, TelegramMediaOps>>)
WhatsappAllOps == All(<<WhatsappOps>>)
FeishuOps == All(<<FeishuReactOps, FeishuChatOps, FeishuMessageOps, FeishuThreadOps, FeishuUploadOps>>)

OpsOf(p) ==
    CASE p = "discord" -> DiscordOps
      [] p = "slack" -> SlackOps
      [] p = "telegram" -> TelegramAllOps
      [] p = "whatsapp" -> WhatsappAllOps
      [] p = "feishu" -> FeishuOps
      [] OTHER -> DefaultOps

\* An operation asks for nothing when one of its needs is not met.
Meets(given, needs) == \A alternatives \in needs : alternatives \cap given # {}

-----------------------------------------------------------------------------
VARIABLES setup,
          status,      \* ChannelStatus
          client,      \* there is a client (or a stream)
          token,       \* an access token was fetched (Feishu and Teams)
          call,        \* the running or last call, or None
          target,      \* the conversation its requests name, or None
          rest,        \* its requests that are still to be made
          retry,       \* of the request at the head: "first", "refresh" (of the token) or "again"
          accepted,    \* history: the numbers of its requests that the platform has fulfilled
          told,        \* how the call ended, "ok" or "error"; or None
          handle,      \* the id of the last message sent: its form and its chat, or None
          proved,      \* history: the platform has answered well when the adapter connected
          calls

vars == <<setup, status, client, token, call, target, rest, retry, accepted, told, handle, proved,
          calls>>

Platform == setup.platform

Init ==
    /\ setup \in Setups
    /\ status = "disconnected" /\ client = FALSE /\ token = FALSE
    /\ call = None /\ target = None /\ rest = <<>> /\ retry = "first" /\ accepted = <<>>
    /\ told = None /\ handle = None /\ proved = FALSE /\ calls = 0

-----------------------------------------------------------------------------
\* Connecting: when the credentials are looked at ("first", "later" with the status set, or
\* "never"), when the client is made, and the requests that have to succeed.

Connecting(check, made, requests) == [check |-> check, client |-> made, requests |-> requests]

TelegramConnect ==
    Connecting("first", "before",
               <<Must("ask")>> \o IF setup.hooked THEN <<Must("ask")>> ELSE <<>>)
DiscordConnect ==
    Connecting("first", "before", <<Must("ask")>> \o IF setup.guild THEN <<Must("ask")>> ELSE <<>>)
SlackConnect == Connecting("first", "before", <<Must("ask")>>)
WhatsappConnect == Connecting("first", "before", <<>>)
MattermostConnect == Connecting("first", "before", <<Must("ask")>>)
MatrixConnect == Connecting("first", "before", <<Must("ask")>>)
GoogleChatConnect == Connecting("first", "before", <<>>)
LineConnect == Connecting("first", "before", <<>>)
NostrConnect == Connecting("first", "before", <<>>)
SignalConnect == Connecting("first", "before", <<>>)
BlueBubblesConnect == Connecting("later", "after", <<Must("ask")>>)
MsTeamsConnect == Connecting("later", "before", <<Must("token")>>)
FeishuConnect == Connecting("never", "before", <<Must("token")>>)
NextcloudConnect == Connecting("later", "after", <<>>)
SynologyConnect == Connecting("later", "after", <<>>)
ZaloConnect == Connecting("later", "after", <<>>)
TwitchConnect == Connecting("later", "after", <<>>)
WebChatConnect == Connecting("later", "after", <<>>)
IrcConnect == Connecting("first", "after", <<Must("write"), Must("write")>>)

ConnectOf ==
    CASE Platform = "telegram" -> TelegramConnect       [] Platform = "discord" -> DiscordConnect
      [] Platform = "slack" -> SlackConnect             [] Platform = "whatsapp" -> WhatsappConnect
      [] Platform = "mattermost" -> MattermostConnect   [] Platform = "matrix" -> MatrixConnect
      [] Platform = "google_chat" -> GoogleChatConnect  [] Platform = "line" -> LineConnect
      [] Platform = "nostr" -> NostrConnect             [] Platform = "signal" -> SignalConnect
      [] Platform = "bluebubbles" -> BlueBubblesConnect [] Platform = "msteams" -> MsTeamsConnect
      [] Platform = "feishu" -> FeishuConnect           [] Platform = "nextcloud" -> NextcloudConnect
      [] Platform = "synology" -> SynologyConnect       [] Platform = "zalo" -> ZaloConnect
      [] Platform = "twitch" -> TwitchConnect           [] Platform = "webchat" -> WebChatConnect
      [] Platform = "irc" -> IrcConnect

-----------------------------------------------------------------------------
\* How an adapter reads an answer.  The body is JSON with what the platform promises ("id"),
\* without an id ("bare"), that names an error ("code", or "expired" for a token), of something
\* else ("other"), or no JSON ("none"); "good" is a status of success.

Json(a) == a.body # "none"
Marked(a) == a.body \in {"id", "bare"}
Clean(a) == Json(a) /\ a.body # "code"

TelegramReads(a) == Marked(a)
SlackReads(a) == Marked(a)
\* The status is not looked at.
WhatsappReadsBody(a) == Json(a)
WhatsappReads(a) == Json(a) /\ a.good
DiscordReads(a) == Json(a) /\ a.good
MattermostReads(a) == a.good /\ Json(a)
MatrixReads(a) == Clean(a)
GoogleChatReads(a) == Clean(a)
LineReads(a) == a.good
NostrReads(a) == Marked(a)
SignalReads(a) == Clean(a)
BlueBubblesReads(a) == a.good
SynologyReads(a) == a.good
MsTeamsReads(a) == Json(a)
NextcloudReads(a) == Json(a)
ZaloReads(a) == Json(a)
FeishuReads(a) == Json(a)

ReadsAnswer(a) ==
    CASE Platform = "telegram" -> TelegramReads(a)       [] Platform = "slack" -> SlackReads(a)
      [] Platform = "whatsapp" -> WhatsappReads(a)       [] Platform = "discord" -> DiscordReads(a)
      [] Platform = "mattermost" -> MattermostReads(a)   [] Platform = "matrix" -> MatrixReads(a)
      [] Platform = "google_chat" -> GoogleChatReads(a)  [] Platform = "line" -> LineReads(a)
      [] Platform = "nostr" -> NostrReads(a)             [] Platform = "signal" -> SignalReads(a)
      [] Platform = "bluebubbles" -> BlueBubblesReads(a) [] Platform = "synology" -> SynologyReads(a)
      [] Platform = "msteams" -> MsTeamsReads(a)         [] Platform = "nextcloud" -> NextcloudReads(a)
      [] Platform = "zalo" -> ZaloReads(a)               [] Platform = "feishu" -> FeishuReads(a)
      [] OTHER -> TRUE

\* What a request has to find: an id, a token, code 0, bytes of any kind, or nothing but a
\* written line.
Reads(what, a) ==
    CASE what \in {"fetch", "write"} -> TRUE
      [] what = "token" -> a.body = "id"
      [] what = "id" -> ReadsAnswer(a) /\ a.body = "id"
      [] what = "update" -> Marked(a)
      [] OTHER -> ReadsAnswer(a)

-----------------------------------------------------------------------------
\* Where a message goes: the first of some keys in its metadata, or else what is configured.

\* resolve_outbound_target_metadata: the message tool, the send call and broadcasts.
ToolKeys == {"to", "target", "recipient", "chat_id", "channel_id", "recipient_id", "channel"}

\* The handlers of the webhooks and parse_webhook: what a reply to a message is given.
WebhookKeys ==
    CASE Platform = "telegram" -> {"chat_id"}
      [] Platform = "feishu" -> {"chat_id", "message_id"}
      [] Platform = "whatsapp" -> {"recipient"}
      [] OTHER -> {}

Keys(c) == IF c.from = "tool" THEN ToolKeys ELSE WebhookKeys

\* "fixed": the conversation of the configuration; "name": the name of the channel.
Sending(keys, otherwise, what) == [keys |-> keys, otherwise |-> otherwise, what |-> what]

TelegramSend == Sending({"chat_id", "recipient"}, "refuse", "ask")
DiscordSend == Sending({"channel_id", "channel"}, "fixed", "id")
SlackSend == Sending({"channel_id", "channel", "recipient"}, "refuse", "id")
WhatsappSend == Sending({"recipient"}, "refuse", "id")
MattermostSend == Sending({"channel_id"}, "fixed", "id")
MatrixSend == Sending({"room_id"}, "fixed", "id")
GoogleChatSend == Sending({}, "fixed", "ask")
LineSend == Sending({"user_id"}, "fixed", "ask")
NostrSend == Sending({}, "name", "ask")
SignalSend == Sending({"recipient"}, "fixed", "ask")
BlueBubblesSend == Sending({"chat_guid", "chatGuid"}, "name", "ask")
MsTeamsSend == Sending({"conversation_id"}, "refuse", "ask")
NextcloudSend == Sending({"room_token"}, "refuse", "ask")
SynologySend == Sending({}, "name", "ask")
ZaloSend == Sending({"recipient_id"}, "refuse", "ask")
IrcSend == Sending({"target", "channel"}, "refuse", "write")
FeishuSend == Sending({"receive_id", "chat_id"}, "refuse", "ask")
TwitchSend == Sending({}, "name", "nothing")
WebChatSend == Sending({}, "name", "nothing")

SendOf ==
    CASE Platform = "telegram" -> TelegramSend       [] Platform = "discord" -> DiscordSend
      [] Platform = "slack" -> SlackSend             [] Platform = "whatsapp" -> WhatsappSend
      [] Platform = "mattermost" -> MattermostSend   [] Platform = "matrix" -> MatrixSend
      [] Platform = "google_chat" -> GoogleChatSend  [] Platform = "line" -> LineSend
      [] Platform = "nostr" -> NostrSend             [] Platform = "signal" -> SignalSend
      [] Platform = "bluebubbles" -> BlueBubblesSend [] Platform = "msteams" -> MsTeamsSend
      [] Platform = "nextcloud" -> NextcloudSend     [] Platform = "synology" -> SynologySend
      [] Platform = "zalo" -> ZaloSend               [] Platform = "irc" -> IrcSend
      [] Platform = "feishu" -> FeishuSend           [] Platform = "twitch" -> TwitchSend
      [] Platform = "webchat" -> WebChatSend

Address(c) ==
    IF SendOf.keys \cap Keys(c) # {} THEN c.conv
    ELSE CASE SendOf.otherwise = "fixed" -> setup.default
           [] SendOf.otherwise = "name" -> Platform
           [] OTHER -> None

\* The requests of a message: its pieces in order (Telegram and BlueBubbles), relays until one
\* takes it (Nostr), attachments that may fail (Telegram), an update and then the message as
\* new (Feishu), or one request.
SendRequests(c) ==
    LET one == Must(SendOf.what) IN
    CASE Platform \in {"telegram", "bluebubbles"} /\ c.op = "send" -> [n \in 1..c.parts |-> one]
      [] Platform = "telegram" -> [n \in 1..c.parts |-> May("ask")]
      [] Platform = "nostr" -> [n \in 1..c.parts |-> Until("ask")]
      [] Platform = "feishu" /\ c.update -> <<Until("update"), one>>
      [] SendOf.what = "nothing" -> <<>>
      [] OTHER -> <<one>>

-----------------------------------------------------------------------------
\* The calls.

\* What is at hand for an operation: what was given and what is configured.  A handle counts
\* when it names its chat.
Given(c) ==
    c.given \cup (IF setup.guild THEN {"guild"} ELSE {})
            \cup (IF setup.default # None THEN {"first"} ELSE {})
            \cup (IF status = "connected" THEN {"online"} ELSE {})
            \cup (IF handle # None /\ handle.pair THEN {"handle"} ELSE {})

\* Where an operation on the last message goes.
OpTarget(c) ==
    CASE Platform \in {"telegram", "slack"} /\ {"handle"} \in c.asks.needs -> handle.chat
      [] Platform = "discord" /\ {"first"} \in c.asks.needs -> setup.default
      [] OTHER -> c.conv

Sends(c) == c.op \in {"send", "attach"}

\* Messages need a connected adapter and a conversation, other operations what they need.
Refused(c) ==
    IF Sends(c) THEN status # "connected" \/ Address(c) = None
    ELSE c.asks = None \/ ~Meets(Given(c), c.asks.needs)

Requests(c) == IF Sends(c) THEN SendRequests(c) ELSE c.asks.requests

\* A call starts, or ends before it asks for anything.
Start(c, to, requests) ==
    /\ call' = c /\ target' = to /\ rest' = requests /\ retry' = "first" /\ accepted' = <<>>
    /\ told' = None /\ calls' = calls + 1
EndAtOnce(c, to, how) ==
    /\ call' = c /\ target' = to /\ rest' = <<>> /\ retry' = "first" /\ accepted' = <<>>
    /\ told' = how /\ calls' = calls + 1

Idle == rest = <<>> /\ calls < MaxCalls

\* send_api_request: nothing is sent without a client, or a token where one is needed.
Equipped == client /\ (Platform \in {"feishu", "msteams"} => token)

\* An operation or a message.
Begin(c) ==
    /\ Idle
    /\ IF Refused(c) THEN EndAtOnce(c, None, "error")
       ELSE LET to == IF Sends(c) THEN Address(c) ELSE OpTarget(c) IN
            IF Requests(c) = <<>> THEN EndAtOnce(c, to, "ok")
            ELSE IF Equipped THEN Start(c, to, Requests(c)) ELSE EndAtOnce(c, None, "error")
    /\ UNCHANGED <<setup, status, client, token, handle, proved>>

ConnectCall == [op |-> "connect", asks |-> None, conv |-> None, from |-> "tool", given |-> {}, parts |-> 1,
                update |-> FALSE]
DisconnectCall == [ConnectCall EXCEPT !.op = "disconnect"]

\* connect: a second one makes a new client.
Connect ==
    LET how == ConnectOf
        fails == ~setup.complete /\ how.check # "never"
    IN
    /\ Idle
    /\ status' = CASE fails /\ how.check = "first" -> status
                   [] fails -> IF Platform = "webchat" THEN "error" ELSE "connecting"
                   [] how.requests = <<>> -> "connected"
                   [] OTHER -> "connecting"
    /\ client' = CASE fails -> client \/ Platform = "msteams"
                   [] how.client = "before" -> TRUE
                   [] how.requests = <<>> -> Platform \notin {"twitch", "webchat"}
                   [] OTHER -> client
    /\ proved' = (fails /\ how.check = "first" /\ proved)
    /\ CASE fails -> EndAtOnce(ConnectCall, None, "error")
         [] how.requests = <<>> -> EndAtOnce(ConnectCall, None, "ok")
         [] OTHER -> Start(ConnectCall, None, how.requests)
    /\ UNCHANGED <<setup, token, handle>>

\* disconnect: Telegram has to take its webhook back first.
Disconnect ==
    /\ Idle
    /\ IF Platform = "telegram" /\ setup.hooked
       THEN /\ IF client THEN Start(DisconnectCall, None, <<Must("ask")>>)
               ELSE EndAtOnce(DisconnectCall, None, "error")
            /\ UNCHANGED <<status, client, token, proved>>
       ELSE /\ EndAtOnce(DisconnectCall, None, "ok")
            /\ status' = "disconnected" /\ client' = FALSE /\ token' = FALSE /\ proved' = FALSE
    /\ UNCHANGED <<setup, handle>>

-----------------------------------------------------------------------------
\* The platform: what it did not do it does not report as done; some report errors with a
\* status of success.
Answers ==
    [done : {TRUE}, good : {TRUE}, body : {"id", "bare", "none"}]
    \cup [done : {FALSE}, good : {FALSE}, body : {"code", "other", "none"}]
    \cup (IF Platform \in {"slack", "feishu", "zalo", "synology", "nostr"}
          THEN [done : {FALSE}, good : {TRUE}, body : {"code"}] ELSE {})
    \cup (IF Platform = "feishu" THEN [done : {FALSE}, good : {FALSE}, body : {"expired"}] ELSE {})

\* The id of a message that was sent: with its chat (Telegram and Slack), or alone.
HandleOf == [pair |-> Platform \in {"telegram", "slack"} /\ call.op = "send", chat |-> target]

\* A call ends; connect and disconnect set the status only now.
Finish(how) ==
    /\ told' = how /\ rest' = <<>> /\ retry' = "first"
    /\ handle' = IF how = "ok" /\ Sends(call) THEN HandleOf ELSE handle
    /\ CASE call.op = "connect" /\ how = "ok" ->
              status' = "connected" /\ client' = TRUE /\ token' = (Platform \in {"feishu", "msteams"})
         [] call.op = "disconnect" /\ how = "ok" ->
              status' = "disconnected" /\ client' = FALSE /\ token' = FALSE
         [] OTHER -> UNCHANGED <<status, client, token>>

\* The request at the head succeeded or failed; the call goes on or ends.  The stream of IRC
\* is there once the first step has succeeded.
Resume(ok, id) ==
    LET mode == Head(rest)[2] IN
    IF \/ mode = "must" /\ ~ok
       \/ mode = "any" /\ ok
       \/ mode = "lead" /\ (~ok \/ ~id)
       \/ Len(rest) = 1
    THEN Finish(IF ok \/ mode = "may" THEN "ok" ELSE "error")
    ELSE /\ rest' = Tail(rest) /\ retry' = "first"
         /\ client' = (client \/ call.op = "connect")
         /\ UNCHANGED <<told, handle, status, token>>

\* A request whose answer does not bring an id is made once more.
ExpiresAlways(a) == a.body # "id"

\* is_token_expired.
Expires(a) == a.body = "expired"

Number == (IF call.op = "connect" THEN Len(ConnectOf.requests)
           ELSE IF call.op = "disconnect" THEN 1 ELSE Len(Requests(call))) - Len(rest) + 1
Fulfilled(done) ==
    accepted' = IF done /\ retry # "refresh" THEN Append(accepted, Number) ELSE accepted

\* A request is answered.  Feishu: an expired token is refreshed, and the request made once more.
Answer(a) ==
    /\ rest # <<>>
    /\ Fulfilled(a.done)
    /\ CASE retry = "refresh" /\ a.body = "id" ->
              retry' = "again" /\ UNCHANGED <<rest, told, handle, status, client, token>>
         [] retry = "refresh" -> Resume(FALSE, FALSE)
         [] Platform = "feishu" /\ call.op # "connect" /\ retry = "first" /\ Expires(a) ->
              retry' = "refresh" /\ UNCHANGED <<rest, told, handle, status, client, token>>
         [] OTHER -> Resume(Reads(Head(rest)[1], a), a.body = "id")
    /\ proved' = CASE call.op = "connect" /\ a.done /\ Len(rest) = 1 -> TRUE
                   [] call.op = "disconnect" /\ told' = "ok" -> FALSE
                   [] OTHER -> proved
    /\ UNCHANGED <<setup, call, target, calls>>

\* A request is lost, or its answer.
Lost(done) ==
    /\ rest # <<>>
    /\ Fulfilled(done)
    /\ Resume(FALSE, FALSE)
    /\ UNCHANGED <<setup, call, target, proved, calls>>

\* The calls that may be made on a platform: messages of the message tool and of a webhook, and
\* every other operation with all that it needs or with nothing; a call carries what its
\* operation needs and asks, or None.
Call(op, asks, from, given, parts, update) ==
    [op |-> op, asks |-> asks, conv |-> "x", from |-> from, given |-> given, parts |-> parts, update |-> update]

CallsOf(p) ==
    LET ops == OpsOf(p)
        all(o) == UNION ops[o].needs \ {"first", "handle", "guild", "online"}
    IN  {Call("send", None, f, {}, n, FALSE) : f \in {"tool", "webhook"}, n \in 1..2}
        \cup {Call("send", None, "tool", {}, 1, TRUE), Call("attach", None, "tool", {}, 2, FALSE),
              Call("unknown", None, "tool", {}, 1, FALSE)}
        \cup UNION {{Call(o, ops[o], "tool", g, 1, FALSE) : g \in {{}, all(o)}} : o \in DOMAIN ops}

Next ==
    \/ Idle /\ \E c \in CallsOf(setup.platform) : Begin(c)
    \/ Connect \/ Disconnect
    \/ \E a \in Answers : Answer(a)
    \/ \E done \in BOOLEAN : Lost(done)

Spec == Init /\ [][Next]_vars

-----------------------------------------------------------------------------
TypeOK ==
    /\ setup \in Setups
    /\ status \in {"disconnected", "connecting", "connected", "error"}
    /\ {client, token, proved} \subseteq BOOLEAN
    /\ retry \in {"first", "refresh", "again"}
    /\ told \in {None, "ok", "error"} /\ (rest = <<>> \/ told = None)
    /\ calls \in 0..MaxCalls

Working == call # None /\ call.op \notin {"connect", "disconnect"}

\* The adapters that read enough of an answer to know.
Confirming ==
    {"telegram", "discord", "slack", "whatsapp", "mattermost", "matrix", "line", "nostr",
     "bluebubbles"}

\* A call that is told to have succeeded was fulfilled: every piece of a message, every request
\* of an operation that must not fail (send_api_request reads status and body, each adapter in
\* its own way, also when a proxy answers for the platform).  Attachments of Telegram may fail.
OkWasFulfilled ==
    (Working /\ told = "ok" /\ Platform \in Confirming) =>
        LET r == Requests(call) IN
        /\ \A n \in DOMAIN r :
              (r[n][2] \in {"must", "lead"} /\ r[n][1] # "fetch") =>
                  n \in Range(accepted) \/ \E k \in 1..n - 1 : r[k][2] = "lead"
        /\ (\E n \in DOMAIN r : r[n][2] = "any") => (accepted # <<>>)

\* The platform fulfils the requests of a call in their order and none of them twice, though
\* answers get lost and a token expires; after a piece that failed no other one is sent.
FulfilledInOrder ==
    (call # None /\ told # None) =>
        /\ \A i, j \in DOMAIN accepted : i < j => accepted[i] < accepted[j]
        /\ (call.op = "send" /\ Platform \in {"telegram", "bluebubbles"}) =>
              accepted = [n \in 1..Len(accepted) |-> n]

\* A message goes to the conversation it is meant for, or is refused: from the message tool, and
\* as a reply to a webhook where the adapter has no default of its own.
GoesWhereMeant ==
    /\ Working /\ Sends(call) /\ target # None
    /\ \/ Platform \in {"telegram", "slack", "whatsapp", "feishu", "irc", "zalo", "msteams", "nextcloud"}
       \/ Platform \in {"discord", "mattermost", "signal"} /\ call.from = "tool"
    => target = call.conv

\* A reply to a webhook is sent to the conversation the message came from.  Does not hold:
\* parse_webhook of most adapters leaves the metadata empty (traits.rs:327), and the adapter
\* falls back to its configuration.
RepliesReachTheirChat ==
    (Working /\ call.op = "send" /\ call.from = "webhook" /\ target # None) => target = call.conv

\* An adapter says Connected only when it can send, and, if connect asks the platform at all,
\* when the platform has answered well since (Matrix takes any JSON for such an answer).
ConnectedIsEarned ==
    status = "connected" =>
        /\ client \/ Platform \in {"twitch", "webchat"}
        /\ proved \/ Platform \notin {"telegram", "discord", "slack", "mattermost", "bluebubbles",
                                       "msteams", "feishu"}

\* What the message tool has let through for Discord is not refused for a missing field; the
\* tool asks for other fields than the adapter in three actions.
DiscordTakesIntents ==
    \A a \in (DOMAIN ToolNeeds \cap DOMAIN DiscordCustomOps)
               \ {"send_sticker", "set_group_icon", "voice_status", "member_info"} :
        \A d \in DiscordCustomOps[a].needs :
            "guild" \in d \/ \E n \in ToolNeeds[a] : n \subseteq d
=============================================================================
