---------------------------- MODULE AnnounceQueue ----------------------------
(* The announcements that wait for a requester session                       *)
(* (crates/gateway-core/src/http/agent_bridge.rs): enqueue_subagent_announce *)
(* and run_subagent_announce_queue_drain for one key of                      *)
(* SUBAGENT_ANNOUNCE_QUEUES.  A step of the drain task is what happens under *)
(* one lock, or a send to the channel.                                       *)
EXTENDS Naturals, Sequences, SequencesExt

CONSTANTS
    Runs,        \* ids of the runs that are announced, each at most once
    Origin,      \* origin key of the announcement of each run
    Settings,    \* the settings an announcement may come with: [mode, cap, policy]
    Drains,      \* names for drain tasks
    MaxFails,    \* bound: sends that fail
    NoQueue, NoWork

VARIABLES
    queue,     \* SubagentAnnounceQueueState of the key, or NoQueue
    drain,     \* the drain tasks: where each is and the work it picked
    delivered, \* SUBAGENT_ANNOUNCE_DELIVERED
    fails,     \* sends that failed
    accepted,  \* history: runs whose announcement was accepted
    dropping,  \* history: an announcement was dropped at the cap
    sent,      \* history: announcements sent with their text, in order
    outlined   \* history: runs named in the summary of a message that was sent

vars == <<queue, drain, delivered, fails, accepted, dropping, sent, outlined>>

Queue == [items : Seq(Runs), draining : BOOLEAN, dropped : Nat, lines : Seq(Runs),
          mode : {"collect", "followup"}, cap : Nat, policy : {"new", "old", "summarize"}]

Work == [items : Seq(Runs), id : Runs, text : Seq(Runs), summary : BOOLEAN, lines : Seq(Runs)]

TypeOK ==
    /\ queue = NoQueue \/ (queue \in Queue /\ Len(queue.lines) <= queue.dropped)
    /\ \A d \in Drains : drain[d].at \in {"none", "top", "pick", "idle", "send", "sent", "failed"}
                         /\ (drain[d].work = NoWork \/ drain[d].work \in Work)
    /\ delivered \subseteq Runs /\ accepted \subseteq Runs /\ outlined \subseteq Runs
    /\ fails \in 0..MaxFails /\ dropping \in BOOLEAN /\ sent \in Seq(Runs)

NoDrain == [at |-> "none", work |-> NoWork]

Init ==
    /\ queue = NoQueue
    /\ drain = [d \in Drains |-> NoDrain]
    /\ delivered = {} /\ fails = 0
    /\ accepted = {} /\ dropping = FALSE /\ sent = <<>> /\ outlined = {}

-----------------------------------------------------------------------------
(* enqueue_subagent_announce.                                               *)

\* The queue with the settings of this call; a new one when there is none.
Opened(s) ==
    LET q == IF queue # NoQueue THEN queue
             ELSE [items |-> <<>>, draining |-> FALSE, dropped |-> 0, lines |-> <<>>,
                   mode |-> s.mode, cap |-> s.cap, policy |-> s.policy]
    IN [q EXCEPT !.mode = s.mode, !.cap = s.cap, !.policy = s.policy]

Refused(q) == Len(q.items) >= q.cap /\ q.policy = "new"

\* The last n elements of a sequence.
Suffix(s, n) == IF Len(s) <= n THEN s ELSE SubSeq(s, Len(s) - n + 1, Len(s))

\* Mutant: dropped announcements are not counted.
MadeRoomUncounted(q) ==
    IF Len(q.items) < q.cap THEN q
    ELSE [q EXCEPT !.items = Tail(@), !.lines = Suffix(Append(@, Head(q.items)), q.cap)]

\* At the cap the oldest go; with summarize each leaves a line, of which cap are kept.
MadeRoom(q) ==
    LET over == IF Len(q.items) >= q.cap THEN Len(q.items) - q.cap + 1 ELSE 0
        gone == SubSeq(q.items, 1, over)
        kept == [q EXCEPT !.items = SubSeq(@, over + 1, Len(@))]
    IN IF q.policy = "summarize" /\ over > 0
       THEN [kept EXCEPT !.dropped = @ + over, !.lines = Suffix(@ \o gone, q.cap)]
       ELSE kept

\* Mutant: a drain task for every announcement.
StartedAlways(q) ==
    \E d \in Drains :
        /\ drain[d].at = "none"
        /\ drain' = [drain EXCEPT ![d] = [at |-> "top", work |-> NoWork]]
        /\ queue' = [q EXCEPT !.draining = TRUE]

\* A drain task is started unless one is known to run.
Started(q) ==
    /\ queue' = [q EXCEPT !.draining = TRUE]
    /\ IF q.draining THEN UNCHANGED drain
       ELSE \E d \in Drains : /\ drain[d].at = "none"
                              /\ drain' = [drain EXCEPT ![d] = [at |-> "top", work |-> NoWork]]

Enqueue(r, s) ==
    /\ r \notin accepted
    /\ LET q == Opened(s) IN
       /\ ~Refused(q)
       /\ Started([MadeRoom(q) EXCEPT !.items = Append(@, r)])
       /\ dropping' = (dropping \/ Len(q.items) >= q.cap)
    /\ accepted' = accepted \cup {r}
    /\ UNCHANGED <<delivered, fails, sent, outlined>>

\* The policy is to refuse the new one; its run tries again later.
EnqueueRefused(s) ==
    /\ Refused(Opened(s))
    /\ Started(Opened(s))
    /\ UNCHANGED <<delivered, fails, accepted, dropping, sent, outlined>>

-----------------------------------------------------------------------------
(* run_subagent_announce_queue_drain.                                       *)

\* The task is over.
Over(d) == drain' = [drain EXCEPT ![d] = NoDrain]

Empty(q) == q.items = <<>> /\ q.dropped = 0

\* The top of the loop: no queue, nothing in it, or a pause until no announcement came
\* for a while.  The lock is given back before a queue with nothing in it is removed.
Top(d) ==
    /\ drain[d].at = "top"
    /\ drain' = [drain EXCEPT ![d] = IF queue = NoQueue THEN NoDrain
                                     ELSE [@ EXCEPT !.at = IF Empty(queue) THEN "idle" ELSE "pick"]]
    /\ UNCHANGED <<queue, delivered, fails, accepted, dropping, sent, outlined>>

\* The queue is removed under a lock of its own, with whatever has come into it since the
\* task found nothing to do.
RemoveQueue(d) ==
    /\ drain[d].at = "idle"
    /\ queue' = NoQueue
    /\ Over(d)
    /\ UNCHANGED <<delivered, fails, accepted, dropping, sent, outlined>>

CrossChannel(items) == Cardinality({Origin[items[i]] : i \in DOMAIN items}) > 1

HasSummary(q) == q.policy = "summarize" /\ q.dropped > 0

\* What is sent: everything together, or the first one; a summary takes the place of the
\* text of the first one.
Picked(q) ==
    LET lines == IF HasSummary(q) THEN q.lines ELSE <<>>
    IN IF q.mode = "collect" /\ ~CrossChannel(q.items)
       THEN [items |-> q.items, id |-> Last(q.items), text |-> q.items,
             summary |-> HasSummary(q), lines |-> lines]
       ELSE [items |-> <<Head(q.items)>>, id |-> Head(q.items),
             text |-> IF HasSummary(q) THEN <<>> ELSE <<Head(q.items)>>,
             summary |-> HasSummary(q), lines |-> lines]

Pick(d) ==
    /\ drain[d].at = "pick" /\ queue # NoQueue /\ queue.items # <<>>
    /\ drain' = [drain EXCEPT ![d] = [at |-> "send", work |-> Picked(queue)]]
    /\ UNCHANGED <<queue, delivered, fails, accepted, dropping, sent, outlined>>

\* No item but a summary: in collect mode the loop goes round without a pause, in the
\* other mode there is nothing to do (Idle).  No queue: the task ends.
PickNothing(d) ==
    /\ drain[d].at = "pick" /\ (queue = NoQueue \/ queue.items = <<>>)
    /\ drain' = [drain EXCEPT ![d] =
                    IF queue = NoQueue THEN NoDrain
                    ELSE [@ EXCEPT !.at = IF queue.mode = "collect" /\ queue.dropped > 0
                                          THEN "top" ELSE "idle"]]
    /\ UNCHANGED <<queue, delivered, fails, accepted, dropping, sent, outlined>>

\* The message goes to the channel unless the run was announced already; the id of the
\* last item stands for all of them.
Send(d, ok) ==
    /\ drain[d].at = "send"
    /\ LET w == drain[d].work IN
       IF w.id \in delivered
       THEN ok /\ UNCHANGED <<delivered, fails, sent, outlined>>
       ELSE IF ok
       THEN /\ delivered' = delivered \cup {w.id}
            /\ sent' = sent \o w.text
            /\ outlined' = outlined \cup ToSet(w.lines)
            /\ UNCHANGED fails
       ELSE /\ fails < MaxFails /\ fails' = fails + 1
            /\ UNCHANGED <<delivered, sent, outlined>>
    /\ drain' = [drain EXCEPT ![d].at = IF ok THEN "sent" ELSE "failed"]
    /\ UNCHANGED <<queue, accepted, dropping>>

\* Mutant: what was sent stays in the queue.
ConsumedNone(q, w) == [q EXCEPT !.dropped = 0, !.lines = <<>>]

\* As many items as were sent leave the front of the queue, whatever came to the front
\* meanwhile.
Consumed(q, w) ==
    [q EXCEPT !.items = SubSeq(@, Len(w.items) + 1, Len(@)),
              !.dropped = IF w.summary THEN 0 ELSE @,
              !.lines = IF w.summary THEN <<>> ELSE @]

\* Mutant: an emptied queue is left to the top of the loop.
ConcludeLeavesEmpty(d) ==
    /\ drain[d].at \in {"sent", "failed"}
    /\ drain' = [drain EXCEPT ![d] = [at |-> "top", work |-> NoWork]]
    /\ queue' = IF queue # NoQueue /\ drain[d].at = "sent" THEN Consumed(queue, drain[d].work) ELSE queue
    /\ UNCHANGED <<delivered, fails, accepted, dropping, sent, outlined>>

\* After a send: the items leave the queue, or stay for another try; a queue with nothing
\* left in it is removed under the same lock.
Conclude(d) ==
    /\ drain[d].at \in {"sent", "failed"}
    /\ LET q == IF queue # NoQueue /\ drain[d].at = "sent" THEN Consumed(queue, drain[d].work) ELSE queue
       IN IF q = NoQueue \/ Empty(q) THEN Over(d) /\ queue' = NoQueue
          ELSE drain' = [drain EXCEPT ![d] = [at |-> "top", work |-> NoWork]] /\ queue' = q
    /\ UNCHANGED <<delivered, fails, accepted, dropping, sent, outlined>>

-----------------------------------------------------------------------------
DrainStep(d) ==
    \/ Top(d) \/ RemoveQueue(d) \/ Pick(d) \/ PickNothing(d)
    \/ \E ok \in BOOLEAN : Send(d, ok)
    \/ Conclude(d)

Next ==
    \/ \E r \in Runs, s \in Settings : Enqueue(r, s)
    \/ \E s \in Settings : EnqueueRefused(s)
    \/ \E d \in Drains : DrainStep(d)

Spec == Init /\ [][Next]_vars

\* Tokio runs every task that can go on, and a send returns.
FairSpec == Spec /\ \A d \in Drains : WF_vars(DrainStep(d))

-----------------------------------------------------------------------------
(* Properties.                                                              *)

\* There is a queue exactly while one task drains it: nothing waits in a queue that
\* nobody empties, and no two tasks send from it (enqueue_subagent_announce starts a
\* task only when draining is not set, the task removes the queue when it stops).
DrainedByOne ==
    LET active == {d \in Drains : drain[d].at # "none"}
    IN Cardinality(active) = IF queue = NoQueue THEN 0 ELSE 1

\* The text of an announcement is sent once and in the order of arrival, with failed
\* sends, summaries and items dropped at the cap in between.
SentOnceInOrder ==
    /\ IsInjective(sent)
    /\ queue # NoQueue =>
         \A i \in DOMAIN sent, j \in DOMAIN queue.items :
             sent[i] = queue.items[j] => \E d \in Drains : drain[d].at = "sent" /\ j <= Len(drain[d].work.items)

\* While the queue never was full, every accepted announcement is sent: the drain task
\* tries until the channel takes it, and never finds nothing to do in a queue that it
\* would remove under another lock (Top, PickNothing, RemoveQueue), because the step that
\* empties the queue also removes it.  Once an announcement was dropped at the cap this is
\* all that is left: a summary without an item leads to RemoveQueue, which also deletes an
\* announcement that was accepted since.
AcceptedIsSent == \A r \in Runs : (r \in accepted) ~> (r \in ToSet(sent) \/ dropping)

\* What the note to the agent promises: an accepted announcement is sent, itself or as
\* a line of a summary.
AcceptedIsTold == \A r \in Runs : (r \in accepted) ~> (r \in ToSet(sent) \cup outlined)
=============================================================================
