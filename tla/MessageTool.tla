---------------------------- MODULE MessageTool ----------------------------
(* The message tool of the agent: MessageTool::execute turns a call of the     *)
(* model into an intent (crates/tools-core/src/tool.rs), and the executor of    *)
(* the turn fulfils it (crates/gateway-core/src/http/agent_bridge.rs): it reads *)
(* the metadata of the session, decides for a route, looks the channel up and   *)
(* calls it.  Between these steps another turn of the session may change the    *)
(* metadata, and channels may come and go.                                      *)
EXTENDS Naturals, Sequences, SequencesExt, FiniteSets

CONSTANTS Scenes,      \* a call of the model (action, raw fields, lists for a broadcast), the
                       \* source of the turn (channel, target, account, thread; or None) and
                       \* the delivery metadata of the session, in the same form; or None
          Metas,       \* metadata that other turns may store meanwhile
          NameOrder,   \* all channel names, sorted
          Norm,        \* normalize_channel_alias, on the names and their aliases
          MaxChanges,  \* bound: changes of metadata and channels during a call
          None

VARIABLES call, turn, meta, registered,
          pc,          \* "tool", "route", "name", "deliver", "each" or "done"
          intent,      \* the action of the intent, or None
          route,       \* the resolved route, or None
          source,      \* history: the metadata the route was resolved with
          channel,     \* the channel that was found, or None
          delivery,    \* what the channel was asked, or None
          todo,        \* of a broadcast or a listing: the names found, then what is to be tried
          tried,       \* and what was tried, with its outcome
          result,      \* the answer of the tool, or None
          changes

vars == <<call, turn, meta, registered, pc, intent, route, source, channel, delivery, todo, tried,
          result, changes>>

Names == Range(NameOrder)

Init ==
    /\ \E s \in Scenes : call = s.call /\ turn = s.turn /\ meta = s.meta
    /\ registered = Names
    /\ pc = "tool" /\ intent = None /\ route = None /\ source = None /\ channel = None
    /\ delivery = None /\ todo = <<>> /\ tried = <<>> /\ result = None /\ changes = 0

-----------------------------------------------------------------------------
\* MessageTool::execute.

\* pick_first_non_empty: a blank value counts as none.
PickFirst(s) ==
    LET good == SelectSeq(s, LAMBDA v : v # None /\ v # "")
    IN IF good = <<>> THEN None ELSE Head(good)

Given(c) ==
    [channel |-> PickFirst(<<c.channel, c.provider>>), target |-> PickFirst(<<c.target, c.to>>),
     thread |-> PickFirst(<<c.reply_to, c.thread_id>>), account |-> c.account,
     fields |-> c.fields]

\* The list of targets, or the single one.
TargetsOf(c) ==
    LET list == IF c.targets = <<>> THEN <<Given(c).target>> ELSE c.targets
    IN SelectSeq(list, LAMBDA t : t # None /\ t # "")

\* What an action needs, as sets of fields of which one has to be given.
TalkNeeds ==
    [send |-> {{"text"}}, react |-> {{"message"}, {"emoji"}}, unreact |-> {{"message"}, {"emoji"}},
     reactions |-> {{"message"}}, read |-> {{"target"}}, search |-> {{"query", "text"}},
     edit |-> {{"message"}, {"text"}}, delete |-> {{"message"}}]

PinNeeds ==
    [pin |-> {{"target"}, {"message"}}, unpin |-> {{"target"}, {"message"}},
     list_pins |-> {{"target"}}, permissions |-> {{"target"}}, channel_info |-> {{"target"}},
     channel_create |-> {{"name"}}, channel_edit |-> {{"target"}}, channel_delete |-> {{"target"}},
     channel_move |-> {{"target"}, {"position"}}]

Overwrite == {{"target"}, {"target_id", "role", "user"}}

ChannelNeeds ==
    [channel_permission_set |-> Overwrite, channel_permission_remove |-> Overwrite,
     category_create |-> {{"name"}}, category_edit |-> {{"target"}, {"name"}},
     category_delete |-> {{"target"}}, topic_create |-> {{"target"}, {"topic", "text"}},
     thread_list |-> {}]

MemberNeeds ==
    [add_participant |-> {{"target"}, {"user"}}, remove_participant |-> {{"target"}, {"user"}},
     leave_group |-> {{"target"}}, role_info |-> {}, role_add |-> {{"user"}, {"role"}},
     role_remove |-> {{"user"}, {"role"}}, kick_member |-> {{"user"}}, ban_member |-> {{"user"}},
     timeout_member |-> {{"user"}}, event_list |-> {}, event_create |-> {{"name"}}]

StickerNeeds ==
    [emoji_list |-> {}, emoji_upload |-> {{"name"}, {"image", "media", "buffer"}},
     sticker_search |-> {{"query", "name", "text"}},
     sticker_upload |-> {{"name"}, {"media", "buffer"}},
     send_sticker |-> {{"target"}, {"file", "message"}}]

GroupNeeds ==
    [voice_status |-> {}, rename_group |-> {{"target"}, {"name"}},
     set_group_icon |-> {{"target"}, {"icon", "image", "media"}}, set_presence |-> {},
     send_with_effect |-> {{"target"}, {"text"}}]

BulkNeeds ==
    [broadcast |-> {{"text"}, {"targets"}}, send_attachment |-> {{"media", "file"}},
     thread_create |-> {{"target"}, {"thread_name"}}, thread_reply |-> {{"target"}, {"text"}},
     channel_list |-> {}, member_info |-> {},
     poll |-> {{"target"}, {"question"}, {"options", "blank_options"}}]

Merged(f, g) == [a \in DOMAIN f \cup DOMAIN g |-> IF a \in DOMAIN f THEN f[a] ELSE g[a]]
ToolNeeds == FoldLeft(Merged, TalkNeeds, <<PinNeeds, ChannelNeeds, MemberNeeds, StickerNeeds,
                                           GroupNeeds, BulkNeeds>>)
Fields == {"text", "message", "emoji", "query", "name", "position", "target_id", "role", "user",
           "topic", "image", "media", "file", "icon", "buffer", "thread_name", "question", "options", "blank_options",
           "group"}

Has(c) ==
    c.fields \cup (IF Given(c).target # None THEN {"target"} ELSE {})
             \cup (IF TargetsOf(c) # <<>> THEN {"targets"} ELSE {})

Meets(have, needs) == \A n \in needs : n \cap have # {}

\* The actions whose intent has another name.
IntentOf(c) ==
    CASE c.action = "send" -> "send_message"
      [] c.action = "react" /\ ~c.remove -> "send_reaction"
      [] c.action \in {"react", "unreact"} -> "remove_reaction"
      [] c.action = "reactions" -> "list_reactions"
      [] c.action \in {"read", "search"} -> c.action \o "_messages"
      [] c.action \in {"edit", "delete", "pin", "unpin", "broadcast"} -> c.action \o "_message"
      [] c.action = "permissions" -> "get_permissions"
      [] c.action = "thread_reply" -> "send_thread_reply"
      [] c.action = "poll" -> "send_poll"
      [] c.action = "channel_list" -> "list_groups"
      [] c.action = "member_info" /\ "user" \notin c.fields -> "list_members"
      [] OTHER -> c.action

ToolRefuses ==
    /\ pc = "tool" /\ ~Meets(Has(call), ToolNeeds[call.action])
    /\ pc' = "done" /\ result' = "invalid"
    /\ UNCHANGED <<call, turn, meta, registered, intent, route, source, channel, delivery, todo,
                   tried, changes>>

ToolAccepts ==
    /\ pc = "tool" /\ Meets(Has(call), ToolNeeds[call.action])
    /\ intent' = IntentOf(call)
    /\ pc' = IF intent' \in {"broadcast_message", "list_groups"} THEN "name" ELSE "route"
    /\ UNCHANGED <<call, turn, meta, registered, route, source, channel, delivery, todo, tried,
                   result, changes>>

-----------------------------------------------------------------------------
\* What fulfilling an intent needs: whether a target, and which fields.
Need(target, needs) == [target |-> target, needs |-> needs]

ReactionFulfil ==
    [send_reaction |-> Need(FALSE, {{"message"}, {"emoji"}}),
     remove_reaction |-> Need(FALSE, {{"message"}, {"emoji"}}),
     list_reactions |-> Need(FALSE, {{"message"}})]
ReadFulfil ==
    [read_messages |-> Need(TRUE, {}), search_messages |-> Need(FALSE, {{"query", "text"}}),
     edit_message |-> Need(FALSE, {{"message"}, {"text"}})]
PinFulfil ==
    [pin_message |-> Need(TRUE, {{"message"}}), unpin_message |-> Need(TRUE, {{"message"}}),
     list_pins |-> Need(TRUE, {})]
SendFulfil ==
    [send_message |-> Need(TRUE, {{"text"}}), get_permissions |-> Need(TRUE, {}),
     delete_message |-> Need(FALSE, {{"message"}})]
AttachmentFulfil == [send_attachment |-> Need(TRUE, {{"file", "media", "buffer"}})]
ThreadFulfil ==
    [send_thread_reply |-> Need(TRUE, {{"text"}}), send_poll |-> Need(TRUE, {{"question"}, {"options"}})]
MembersFulfil == [list_members |-> Need(FALSE, {})]

\* The actions that are handed to the channel as they are, and the ones of them that need
\* no target.
Untargeted ==
    {"channel_create", "category_create", "thread_list", "member_info", "role_info", "role_add",
     "role_remove", "kick_member", "ban_member", "timeout_member", "event_list", "event_create",
     "emoji_list", "emoji_upload", "sticker_search", "sticker_upload", "voice_status",
     "set_presence"}

Own == FoldLeft(Merged, ReactionFulfil, <<ReadFulfil, PinFulfil, SendFulfil, AttachmentFulfil,
                                          ThreadFulfil, MembersFulfil>>)
Custom(i) == i \notin DOMAIN Own
Fulfil(i) == IF Custom(i) THEN Need(i \notin Untargeted, {}) ELSE Own[i]

-----------------------------------------------------------------------------
\* resolve_message_route.  A value that was not given is the call's, the turn's or the session's.

Payload ==
    LET g == Given(call) IN
    [channel |-> g.channel, target |-> g.target, account |-> g.account,
     thread |-> IF intent \in {"send_message", "send_thread_reply"} THEN g.thread ELSE None]

\* The target of the last delivery, whichever channel it was on.
RouteAnyChannel(p, t, s) ==
    LET last == IF t # None THEN t ELSE s
        ch == IF p.channel # None \/ last = None THEN p.channel ELSE last.channel
        Or(v, f) == IF v # None \/ last = None THEN v ELSE last[f]
    IN [channel |-> ch, target |-> Or(p.target, "target"), account |-> Or(p.account, "account"),
        thread |-> Or(p.thread, "thread")]

\* A turn with a source never falls back to the session; what was used last is only used
\* again on the same channel.
Route(p, t, s) ==
    LET last == IF t # None THEN t ELSE s
        ch == IF p.channel # None \/ last = None THEN p.channel ELSE last.channel
        same == last # None /\ ch # None /\ last.channel # None /\ Norm[ch] = Norm[last.channel]
        Or(v, f) == IF v # None \/ ~same THEN v ELSE last[f]
    IN [channel |-> ch, target |-> Or(p.target, "target"), account |-> Or(p.account, "account"),
        thread |-> Or(p.thread, "thread")]

\* resolve_send_message_request takes the account of the session when there is none yet.
SendRoute(r, s) ==
    IF r.account = None /\ s # None THEN [r EXCEPT !.account = s.account] ELSE r

Fails(why) == pc' = "done" /\ result' = why

\* The metadata is read, then the route and the fields are looked at without a pause.
Resolve ==
    LET r == Route(Payload, turn, meta)
        n == Fulfil(intent)
    IN
    /\ pc = "route"
    /\ source' = meta
    /\ IF r.channel = None THEN Fails("no channel") /\ UNCHANGED route
       ELSE IF n.target /\ r.target = None THEN Fails("no target") /\ UNCHANGED route
       ELSE IF ~Meets(Has(call), n.needs)
       THEN Fails("no field") /\ UNCHANGED route
       ELSE IF intent = "list_members" /\ ~Meets(Has(call), {{"group", "target"}}) /\ r.target = None
       THEN Fails("no target") /\ UNCHANGED route
       ELSE /\ route' = IF intent = "send_message" THEN SendRoute(r, meta) ELSE r
            /\ pc' = "name" /\ UNCHANGED result
    /\ UNCHANGED <<call, turn, meta, registered, intent, channel, delivery, todo, tried, changes>>

\* resolve_channel_media_payload: the file of an attachment cannot be read or decoded.
MediaFails ==
    /\ pc = "route" /\ intent = "send_attachment"
    /\ LET r == Route(Payload, turn, meta) IN r.channel # None /\ r.target # None
    /\ Fails("error") /\ source' = meta
    /\ UNCHANGED <<call, turn, meta, registered, intent, route, channel, delivery, todo, tried, changes>>

\* resolve_channel_name: the first registered name with the same normalized form.
Found(name) ==
    IF Norm[name] = "webchat" THEN None
    ELSE PickFirst(SelectSeq(NameOrder, LAMBDA n : n \in registered /\ Norm[n] = Norm[name]))

Name ==
    /\ pc = "name" /\ intent \notin {"broadcast_message", "list_groups"}
    /\ IF Found(route.channel) = None THEN Fails("no channel") /\ UNCHANGED channel
       ELSE channel' = Found(route.channel) /\ pc' = "deliver" /\ UNCHANGED result
    /\ UNCHANGED <<call, turn, meta, registered, intent, route, source, delivery, todo, tried,
                   changes>>

\* A thread reply without a thread goes to a thread named like the target.
ThreadUsed ==
    CASE intent = "send_thread_reply" /\ Given(call).thread = None -> Given(call).target
      [] intent = "send_thread_reply" -> Given(call).thread
      [] intent = "send_message" \/ Custom(intent) -> route.thread
      [] OTHER -> None

\* The channel is called; it may be gone by now, or answer with an error.
Deliver ==
    /\ pc = "deliver" /\ pc' = "done"
    /\ delivery' = [channel |-> channel, target |-> route.target, account |-> route.account,
                    thread |-> ThreadUsed]
    /\ \/ channel \in registered /\ result' = "sent"
       \/ result' = "error"
    /\ UNCHANGED <<call, turn, meta, registered, intent, route, source, channel, todo, tried, changes>>

-----------------------------------------------------------------------------
\* Broadcasts and listings go through several channels, one after the other.

Requested == call.channels \o (IF Given(call).channel = None THEN <<>> ELSE <<Given(call).channel>>)

Distinct(s) ==
    FoldLeft(LAMBDA acc, x : IF x \in Range(acc) THEN acc ELSE Append(acc, x), <<>>, s)

\* What a call without a channel means: every one but webchat.
EveryChannel == SelectSeq(NameOrder, LAMBDA n : n \in registered /\ Norm[n] # "webchat")

Pairs(chs, ts) ==
    [k \in 1..(Len(chs) * Len(ts)) |->
        <<chs[((k - 1) \div Len(ts)) + 1], ts[((k - 1) % Len(ts)) + 1]>>]

\* The requested channels are looked up one after the other, each with a lock of its own;
\* todo holds the names found so far.  One that is not found ends the call.
BroadcastLooksUp ==
    /\ pc = "name" /\ intent = "broadcast_message" /\ Len(todo) < Len(Requested)
    /\ LET found == Found(Requested[Len(todo) + 1]) IN
       IF found = None THEN Fails("no channel") /\ UNCHANGED todo
       ELSE todo' = Append(todo, found) /\ UNCHANGED <<pc, result>>
    /\ UNCHANGED <<call, turn, meta, registered, intent, route, source, channel, delivery, tried,
                   changes>>

BroadcastNames ==
    LET chs == IF Requested = <<>> THEN EveryChannel ELSE Distinct(todo) IN
    /\ pc = "name" /\ intent = "broadcast_message" /\ Len(todo) = Len(Requested)
    /\ IF chs = <<>> THEN Fails("no channel") /\ UNCHANGED todo
       ELSE todo' = Pairs(chs, TargetsOf(call)) /\ pc' = "each" /\ UNCHANGED result
    /\ UNCHANGED <<call, turn, meta, registered, intent, route, source, channel, delivery, tried,
                   changes>>

ListNames ==
    LET one == Given(call).channel
        chs == IF one = None THEN EveryChannel ELSE <<Found(one)>>
    IN
    /\ pc = "name" /\ intent = "list_groups"
    /\ IF chs = <<>> \/ None \in Range(chs) THEN Fails("no channel") /\ UNCHANGED todo
       ELSE todo' = Pairs(chs, <<None>>) /\ pc' = "each" /\ UNCHANGED result
    /\ UNCHANGED <<call, turn, meta, registered, intent, route, source, channel, delivery, tried,
                   changes>>

Try(ok) ==
    /\ pc = "each" /\ todo # <<>>
    /\ ok => Head(todo)[1] \in registered
    /\ tried' = Append(tried, [to |-> Head(todo), ok |-> ok])
    /\ todo' = Tail(todo)
    /\ UNCHANGED <<call, turn, meta, registered, pc, intent, route, source, channel, delivery,
                   result, changes>>

Ok == SelectSeq(tried, LAMBDA r : r.ok)

\* "failed" only if nothing went well, "partial" if some did.  A listing counts the groups it
\* got, of which a channel may have none.
AllTried ==
    /\ pc = "each" /\ todo = <<>> /\ pc' = "done"
    /\ result' \in CASE Len(Ok) = Len(tried) -> {"sent"}
                     [] Len(Ok) = 0 -> {"failed"}
                     [] intent = "list_groups" -> {"partial", "failed"}
                     [] OTHER -> {"partial"}
    /\ UNCHANGED <<call, turn, meta, registered, intent, route, source, channel, delivery, todo,
                   tried, changes>>

-----------------------------------------------------------------------------
\* Another turn of the session has stored where it was answered.
MetaChanges ==
    /\ pc # "done" /\ changes < MaxChanges /\ changes' = changes + 1
    /\ meta' \in Metas \ {meta}
    /\ UNCHANGED <<call, turn, registered, pc, intent, route, source, channel, delivery, todo, tried,
                   result>>

\* A channel is removed or added.
ChannelChanges ==
    /\ pc # "done" /\ changes < MaxChanges /\ changes' = changes + 1
    /\ \E n \in Names : registered' = IF n \in registered THEN registered \ {n}
                                      ELSE registered \cup {n}
    /\ UNCHANGED <<call, turn, meta, pc, intent, route, source, channel, delivery, todo, tried, result>>

Next ==
    \/ ToolRefuses \/ ToolAccepts \/ Resolve \/ MediaFails \/ Name \/ Deliver
    \/ BroadcastLooksUp \/ BroadcastNames \/ ListNames \/ (\E ok \in BOOLEAN : Try(ok)) \/ AllTried
    \/ MetaChanges \/ ChannelChanges

Spec == Init /\ [][Next]_vars

-----------------------------------------------------------------------------
TypeOK ==
    /\ call.action \in DOMAIN ToolNeeds /\ registered \subseteq Names
    /\ pc \in {"tool", "route", "name", "deliver", "each", "done"}
    /\ channel \in Names \cup {None} /\ (delivery = None \/ delivery.channel = channel)
    /\ changes \in 0..MaxChanges

\* Where a value of a delivery that the call did not give comes from.
Origin == IF turn # None THEN turn ELSE source

OriginIsOn(name) == Origin # None /\ Origin.channel # None /\ Norm[Origin.channel] = Norm[name]

\* What was not given is only taken from a delivery on the channel that is used, and of a
\* turn that came over a channel it is the turn's own, never what the session holds from
\* another turn (the account of send_message excepted).
RouteIsOfOneDelivery ==
    delivery # None =>
        /\ Given(call).target = None /\ delivery.target # None =>
              OriginIsOn(channel) /\ delivery.target = Origin.target
        /\ Custom(intent) /\ delivery.thread # None =>
              OriginIsOn(channel) /\ delivery.thread = Origin.thread

\* The channel of webchat is never called, and nobody is called for a call without a channel
\* to use or a target it needs.
OnlyChannelsAreCalled ==
    /\ delivery # None => /\ Norm[channel] # "webchat"
                          /\ Fulfil(intent).target => delivery.target # None
    /\ \A k \in DOMAIN tried : Norm[tried[k].to[1]] # "webchat"

\* What the tool accepts the executor can fulfil: no intent is refused for a field that is
\* missing.  Only options of a poll that are all blank pass the tool and not the executor.
IntentsAreComplete ==
    result = "no field" => intent = "send_poll" /\ "options" \notin call.fields

\* A broadcast tries every pair of channel and target once, also when one is named by two
\* aliases, and its status tells what became of them.
BroadcastTriesAll ==
    (pc = "done" /\ tried # <<>>) =>
        /\ todo = <<>>
        /\ \A j, k \in DOMAIN tried : j # k =>
              tried[j].to # tried[k].to \/ Len(TargetsOf(call)) # Cardinality(Range(TargetsOf(call)))
        /\ result = "sent" <=> \A k \in DOMAIN tried : tried[k].ok
        /\ intent = "broadcast_message" =>
              (result = "failed" <=> \A k \in DOMAIN tried : ~tried[k].ok)

\* The thread of a message is one of the conversation it is sent to.  Does not hold: a message
\* to a target of the call's own is sent with the thread of the turn.
ThreadFitsTarget ==
    (delivery # None /\ intent = "send_message" /\ Given(call).target # None) =>
        delivery.thread \in {None, Given(call).thread}

\* The account of a message is one of the channel it is sent over.  Does not hold: the account
\* of the session is used whatever channel it belongs to.
AccountFitsChannel ==
    (delivery # None /\ intent = "send_message" /\ delivery.account \notin {None, Given(call).account}) =>
        Norm[Origin.channel] = Norm[channel] /\ delivery.account = Origin.account

=============================================================================
