----------------------------- MODULE Webhooks -----------------------------
(* Messages that platforms post to the gateway (crates/gateway-core/src/http/  *)
(* webhooks.rs), with the EchoTracker that keeps the gateway from answering    *)
(* itself (crates/agent-core/src/echo_detect.rs) and the gate for groups       *)
(* (crates/channel-core/src/group_gate.rs).  A handler starts a task for each  *)
(* message of a post and answers the post without waiting for it; a platform   *)
(* posts again what was not answered well, and may post what the gateway said. *)
EXTENDS Naturals, Sequences, SequencesExt, FiniteSets

CONSTANTS Users,      \* posts caused by users
          Echoes,     \* posts of what the gateway itself has said
          Worlds,     \* configurations and what the posts hold
          ReplyTo,    \* the text a turn for a post ends with
          Capacity,   \* of the EchoTracker (100)
          MaxPosts,   \* bound: posts sent, repeated ones included
          None

Posts == Users \cup Echoes

\* A text is its normalized form and its spelling; norm_key marks the former.
Norm(t) == <<t[1], "~">>
Class(t) == t[1]
Empty(t) == Class(t) = ""
Classes == UNION {{Class(t) : t \in Range(w.post[p].texts) \ {None}} : w \in Worlds, p \in Posts}
           \cup {Class(ReplyTo[p]) : p \in Posts}

VARIABLES world,      \* platform, secret, activation, manager; what each post holds
          handler,    \* of each post: "out", "check" or "forward"
          rest,       \* of each post: the texts its handler has still to look at
          posts,      \* how often it was posted
          answer,     \* the last answer to it, or None
          recent,     \* EchoTracker: the keys it holds, oldest first
          running,    \* tasks in their turn, for each post
          sending,    \* tasks that send their reply
          started,    \* history: tasks started
          sent,       \* history: replies that reached the platform
          asked, swallowed, said,  \* history: calls of has, hits, calls of remember, by class
          evicted     \* history: a key was dropped for room

vars == <<world, handler, rest, posts, answer, recent, running, sending, started, sent, asked,
          swallowed, said, evicted>>

Init ==
    /\ world \in Worlds
    /\ handler = [p \in Posts |-> "out"] /\ rest = [p \in Posts |-> <<>>]
    /\ posts = [p \in Posts |-> 0] /\ answer = [p \in Posts |-> None]
    /\ recent = <<>> /\ evicted = FALSE
    /\ running = [p \in Posts |-> 0] /\ sending = [p \in Posts |-> 0]
    /\ started = [p \in Posts |-> 0] /\ sent = {}
    /\ asked = [c \in Classes |-> 0] /\ swallowed = asked /\ said = asked

-----------------------------------------------------------------------------
\* The EchoTracker.

\* insert_entry: a key at a time, the oldest one leaves for it.
Inserted(q, k) ==
    IF k \in Range(q) THEN q
    ELSE Append(IF Len(q) >= Capacity THEN Tail(q) ELSE q, k)

\* remember keeps only the text as it was spelled.
RememberedExactly(q, t) == Inserted(q, t)

\* remember: the exact text and its normalized form, unless the exact text is still there.
Remembered(q, t) == IF t \in Range(q) THEN q ELSE Inserted(Inserted(q, t), Norm(t))

Without(q, k) == SelectSeq(q, LAMBDA x : x # k)

Has(q, t) == t \in Range(q) \/ Norm(t) \in Range(q)

\* has: an exact hit takes both keys away, a hit of the normalized form only that one.
Consumed(q, t) ==
    IF t \in Range(q) THEN Without(Without(q, t), Norm(t)) ELSE Without(q, Norm(t))

-----------------------------------------------------------------------------
\* What a handler finds in a post.

\* should_process: messages of a group need a mention unless activation is "always".
ShouldProcess(b) == b.group => (world.activation = "always" \/ b.mention)

First(b) == IF b.texts = <<>> \/ Head(b.texts) = None THEN <<>> ELSE <<Head(b.texts)>>

TelegramTexts(b) == IF b.form = "message" THEN First(b) ELSE <<>>
SlackTexts(b) ==
    IF b.form = "message" /\ ~b.bot THEN SelectSeq(First(b), LAMBDA t : ~Empty(t)) ELSE <<>>
DiscordTexts(b) ==
    IF b.form = "message" THEN SelectSeq(First(b), LAMBDA t : ~Empty(t)) ELSE <<>>
FeishuTexts(b) == IF b.form = "message" THEN First(b) ELSE <<>>
WhatsappTexts(b) ==
    IF b.form = "message" THEN SelectSeq(b.texts, LAMBDA t : t # None /\ ~Empty(t)) ELSE <<>>
GenericTexts(b) ==
    IF world.manager = "has" /\ b.form = "message"
    THEN SelectSeq(First(b), LAMBDA t : ~Empty(t)) ELSE <<>>

Texts(b) ==
    CASE world.platform = "telegram" -> TelegramTexts(b)
      [] world.platform = "slack" -> SlackTexts(b)
      [] world.platform = "discord" -> DiscordTexts(b)
      [] world.platform = "feishu" -> FeishuTexts(b)
      [] world.platform = "whatsapp" -> WhatsappTexts(b)
      [] OTHER -> GenericTexts(b)

ChecksEcho == world.platform \notin {"slack", "discord"}
Gated == world.platform \in {"telegram", "feishu", "generic"}

\* The signature is looked at when a secret is configured; Slack's also has to be recent.
\* Nothing is verified for a channel without a handler of its own.
Verified(b) ==
    \/ ~world.secret \/ world.platform = "generic"
    \/ b.signed /\ (world.platform = "slack" => ~b.old)

\* The extractor of these handlers parses the body before the handler runs.
ParsesFirst == world.platform \in {"telegram", "feishu", "generic"}
Challenges == world.platform \in {"slack", "discord", "feishu", "whatsapp"}

Refusal(b) ==
    CASE ParsesFirst /\ b.form = "broken" -> "bad"
      [] ~Verified(b) -> "unauthorized"
      [] b.form = "broken" -> "bad"
      [] Challenges /\ b.form = "challenge" -> "challenge"
      [] OTHER -> None

SumOfPosts == FoldFunction(+, 0, posts)

\* A post arrives: refused, answered at once, or its messages are looked at.  What the
\* gateway said can come back once it was sent, in its spelling or another.
Arrive(p) ==
    LET b == world.post[p] IN
    /\ handler[p] = "out" /\ SumOfPosts < MaxPosts
    /\ answer[p] \in {None, "missing", "error", "timeout"}
    /\ p \in Echoes => \E t \in sent : Class(t) = Class(Head(b.texts))
    /\ posts' = [posts EXCEPT ![p] = @ + 1]
    /\ IF Refusal(b) # None
       THEN answer' = [answer EXCEPT ![p] = Refusal(b)] /\ UNCHANGED <<handler, rest>>
       ELSE /\ handler' = [handler EXCEPT ![p] = IF Texts(b) = <<>> THEN "forward" ELSE "check"]
            /\ rest' = [rest EXCEPT ![p] = Texts(b)]
            /\ UNCHANGED answer
    /\ UNCHANGED <<world, recent, running, sending, started, sent, asked, swallowed, said, evicted>>

\* One message: the tracker is asked, then the gate; a task is started without waiting.
Check(p) ==
    /\ handler[p] = "check"
    /\ LET t == Head(rest[p])
           echo == ChecksEcho /\ Has(recent, t)
           take == ~echo /\ (Gated => ShouldProcess(world.post[p]))
       IN /\ recent' = IF echo THEN Consumed(recent, t) ELSE recent
          /\ asked' = IF ChecksEcho THEN [asked EXCEPT ![Class(t)] = @ + 1] ELSE asked
          /\ swallowed' = IF echo THEN [swallowed EXCEPT ![Class(t)] = @ + 1] ELSE swallowed
          /\ running' = IF take THEN [running EXCEPT ![p] = @ + 1] ELSE running
          /\ started' = IF take THEN [started EXCEPT ![p] = @ + 1] ELSE started
    /\ rest' = [rest EXCEPT ![p] = Tail(@)]
    /\ handler' = IF Len(rest[p]) = 1 THEN [handler EXCEPT ![p] = "forward"] ELSE handler
    /\ UNCHANGED <<world, posts, answer, sending, sent, said, evicted>>

\* get_channel_and_forward: the answer of the post is that of the channel's own handler.
Forward(p) ==
    /\ handler[p] = "forward"
    /\ handler' = [handler EXCEPT ![p] = "out"]
    /\ \E a \in (IF world.manager = "has" THEN {"ok", "error"} ELSE {"missing"}) :
          answer' = [answer EXCEPT ![p] = a]
    /\ UNCHANGED <<world, rest, posts, recent, running, sending, started, sent, asked, swallowed,
                   said, evicted>>

\* TimeoutLayer ends a handler that waits for the channel; the tasks it started go on.
TimesOut(p) ==
    /\ handler[p] = "forward" /\ world.manager = "has"
    /\ handler' = [handler EXCEPT ![p] = "out"]
    /\ answer' = [answer EXCEPT ![p] = "timeout"]
    /\ UNCHANGED <<world, rest, posts, recent, running, sending, started, sent, asked, swallowed,
                   said, evicted>>

-----------------------------------------------------------------------------
\* The task of a message: process_message, which remembers the reply before it sends it.

TurnReplies(p) ==
    LET t == ReplyTo[p] IN
    /\ running[p] > 0
    /\ running' = [running EXCEPT ![p] = @ - 1]
    /\ sending' = [sending EXCEPT ![p] = @ + 1]
    /\ recent' = Remembered(recent, t)
    /\ said' = [said EXCEPT ![Class(t)] = @ + 1]
    /\ evicted' = (evicted \/ ~(Range(recent) \subseteq Range(recent')))
    /\ UNCHANGED <<world, handler, rest, posts, answer, started, sent, asked, swallowed>>

TurnFails(p) ==
    /\ running[p] > 0
    /\ running' = [running EXCEPT ![p] = @ - 1]
    /\ UNCHANGED <<world, handler, rest, posts, answer, recent, sending, started, sent, asked,
                   swallowed, said, evicted>>

\* send_reply: without the channel, or when it answers with an error, nothing is forgotten.
ReplyEnds(p) ==
    /\ sending[p] > 0
    /\ sending' = [sending EXCEPT ![p] = @ - 1]
    /\ \/ world.manager = "has" /\ sent' = sent \cup {ReplyTo[p]}
       \/ UNCHANGED sent
    /\ UNCHANGED <<world, handler, rest, posts, answer, recent, running, started, asked, swallowed,
                   said, evicted>>

Next ==
    \E p \in Posts :
        \/ Arrive(p) \/ Check(p) \/ Forward(p) \/ TimesOut(p)
        \/ TurnReplies(p) \/ TurnFails(p) \/ ReplyEnds(p)

Spec == Init /\ [][Next]_vars

-----------------------------------------------------------------------------
TypeOK ==
    /\ world \in Worlds
    /\ handler \in [Posts -> {"out", "check", "forward"}]
    /\ answer \in [Posts -> {None, "bad", "unauthorized", "challenge", "missing", "ok", "error",
                             "timeout"}]
    /\ \A p \in Posts : posts[p] \in 0..MaxPosts /\ running[p] + sending[p] <= started[p]
    /\ Len(recent) <= Capacity /\ Len(recent) = Cardinality(Range(recent))

\* No message of a post gets more tasks than the post was sent times, one of a post that was
\* refused gets none, and one of a group only when the bot was meant (where the gate is used).
TasksFitPosts ==
    \A p \in Posts :
        LET b == world.post[p] IN
        /\ started[p] <= posts[p] * Len(b.texts)
        /\ started[p] > 0 => /\ Refusal(b) = None
                             /\ Gated => ShouldProcess(b)

\* What the gateway said is answered by the gateway only if its text was asked for before
\* (has forgets what it finds, so a second copy is not known) or its key has left for room.
EchoesAreKnown ==
    \A p \in Echoes :
        (started[p] > 0 /\ ChecksEcho) =>
            asked[Class(Head(world.post[p].texts))] > 1 \/ evicted

\* The ways in which a text was spelled so far, in posts and in replies to them.
Spellings(c) ==
    LET Said(p) == {ReplyTo[p]} \cup Range(world.post[p].texts)
    IN  {t \in UNION {Said(p) : p \in {q \in Posts : posts[q] > 0}} : t # None /\ Class(t) = c}

\* A message that is spelled as the gateway has said it is taken for an echo once for each time it
\* was said (an exact hit of has takes the normalized key along), and once more only where the
\* text is spelled in several ways: a hit of the normalized form leaves the exact key behind.
SwallowedWasSaid ==
    \A c \in DOMAIN said :
        swallowed[c] <= IF Cardinality(Spellings(c)) = 1 THEN said[c] ELSE 2 * said[c]

\* echo_detect.rs:67 says that a hit is consumed "so that future messages with the same
\* content are not falsely blocked"; a hit of the normalized form leaves the exact one behind,
\* which blocks a second message.  Does not hold.
SwallowedOnce == \A c \in DOMAIN said : swallowed[c] <= said[c]

=============================================================================
