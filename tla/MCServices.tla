------------------------------ MODULE MCServices ------------------------------
(* The background services of the gateway whose progress matters: spawned subagents,  *)
(* the announcement queue, the heartbeat loop, sessions_send with its talks, the turns *)
(* of the agent loop, the channel manager, chat completions, the websocket server and  *)
(* the loop that polls Telegram.  They share no state in these models, so a behaviour  *)
(* of this module is a behaviour of one of them and TLC explores the union of their    *)
(* state spaces, not the product.                                                      *)
EXTENDS Naturals, Sequences, FiniteSets

CONSTANTS None

VARIABLE part   \* the component of this behaviour

VARIABLES subStatus, subTask, subRun, subWaiter
VARIABLES annQueue, annDrain, annDelivered, annFails, annAccepted, annDropping, annSent,
          annOutlined
VARIABLES hbQueues, hbWakes, hbEnabled, hbLoop, hbPresence, hbProfile, hbOld, hbFate,
          hbUrgent
VARIABLES sesCount, sesRows, sesUsage, sesEpoch, sesTranscript, sesSend, sesAnswer, sesKept,
          sesOps
VARIABLES loopFile, loopTorn, loopFlight, loopTurn, loopFaults
VARIABLES chanStatus, chanWriter, chanReaders, chanBucket, chanCall, chanWatcher,
          chanWaiting, chanShown, chanLogouts, chanFaults
VARIABLES compHatching, compTooled, compIdentity, compLog, compLanding, compLost, compReq,
          compPc, compRecalled, compRounds, compText, compSent, compAnswer, compCleared,
          compFailed
VARIABLES connServer, connCalled, connSignal, connConn, connInbox, connAsked, connAnswered,
          connSessions, connPublished, connNext, connJoined, connHeard
VARIABLES tgPosted, tgPlain, tgConfirmed, tgOffset, tgBatch, tgPc, tgCurrent, tgBegun,
          tgRan, tgTold, tgRestarts, tgFaults
VARIABLES dpChannel, dpCall, dpOf, dpEntry, dpTask, dpQueue, dpCurrent, dpShown, dpNewest,
          dpFaults, dpBeats

subVars == <<subStatus, subTask, subRun, subWaiter>>
annVars == <<annQueue, annDrain, annDelivered, annFails, annAccepted, annDropping, annSent,
             annOutlined>>
hbVars == <<hbQueues, hbWakes, hbEnabled, hbLoop, hbPresence, hbProfile, hbOld, hbFate,
            hbUrgent>>
sesVars == <<sesCount, sesRows, sesUsage, sesEpoch, sesTranscript, sesSend, sesAnswer,
             sesKept, sesOps>>
loopVars == <<loopFile, loopTorn, loopFlight, loopTurn, loopFaults>>
chanVars == <<chanStatus, chanWriter, chanReaders, chanBucket, chanCall, chanWatcher,
              chanWaiting, chanShown, chanLogouts, chanFaults>>
compVars == <<compHatching, compTooled, compIdentity, compLog, compLanding, compLost, compReq,
              compPc, compRecalled, compRounds, compText, compSent, compAnswer, compCleared,
              compFailed>>
connVars == <<connServer, connCalled, connSignal, connConn, connInbox, connAsked,
              connAnswered, connSessions, connPublished, connNext, connJoined, connHeard>>
tgVars == <<tgPosted, tgPlain, tgConfirmed, tgOffset, tgBatch, tgPc, tgCurrent, tgBegun,
            tgRan, tgTold, tgRestarts, tgFaults>>
dpVars == <<dpChannel, dpCall, dpOf, dpEntry, dpTask, dpQueue, dpCurrent, dpShown, dpNewest,
            dpFaults, dpBeats>>

vars == <<part, subVars, annVars, hbVars, sesVars, loopVars, chanVars, compVars, connVars,
                tgVars, dpVars>>

AnnRuns == {"a1", "a2", "a3"}

AnnSettings ==
    {[mode |-> "collect", cap |-> 2, policy |-> "summarize"],
     [mode |-> "followup", cap |-> 2, policy |-> "new"],
     [mode |-> "followup", cap |-> 1, policy |-> "summarize"]}

-----------------------------------------------------------------------------
\* SubagentRegistry with two subagents.
SubIds == {"s1", "s2"}

Sub == INSTANCE Subagents WITH
    Ids <- SubIds, status <- subStatus, task <- subTask, run <- subRun, waiter <- subWaiter

\* One announcement queue, three runs of two origins, a send that may fail.
AnnOrigin == [r \in AnnRuns |-> IF r = "a1" THEN "telegram" ELSE "slack"]
AnnDrains == 1..2

Ann == INSTANCE AnnounceQueue WITH
    Runs <- AnnRuns, Origin <- AnnOrigin, Settings <- AnnSettings, Drains <- AnnDrains,
    MaxFails <- 1, NoQueue <- None, NoWork <- None, queue <- annQueue, drain <- annDrain,
    delivered <- annDelivered, fails <- annFails, accepted <- annAccepted,
    dropping <- annDropping, sent <- annSent, outlined <- annOutlined

\* Two sessions and two devices, a queue of one event, a table of two entries.
HbSessions == {"main", "s2"}
HbTexts == {"plain", "exec"}
HbDevices == {"d1", "d2"}
HbProfiles == {"v1"}

Hb == INSTANCE Heartbeat WITH
    Sessions <- HbSessions, MainKey <- "main", Texts <- HbTexts, Devices <- HbDevices,
    Profiles <- HbProfiles, MaxSystemEvents <- 1, MaxEntries <- 2, MaxPosts <- 2,
    queues <- hbQueues, wakes <- hbWakes, enabled <- hbEnabled, loop <- hbLoop,
    presence <- hbPresence, profile <- hbProfile, old <- hbOld, fate <- hbFate,
    urgent <- hbUrgent

\* One sessions_send from a to b with a talk of two turns.
SesKeys == {"a", "b"}
SesSends == {"x"}
SesTarget == [s \in {"x"} |-> "b"]
SesRequester == [s \in {"x"} |-> "a"]

Ses == INSTANCE Sessions WITH
    Keys <- SesKeys, Sends <- SesSends, Target <- SesTarget, Requester <- SesRequester,
    MaxTurns <- 2, MaxMessages <- 2, MaxOps <- 1, count <- sesCount, rows <- sesRows,
    usage <- sesUsage, epoch <- sesEpoch, transcript <- sesTranscript, send <- sesSend,
    answer <- sesAnswer, kept <- sesKept, ops <- sesOps

\* A turn with tools and one without on the same transcript, with one fault.
LoopTurns == {"t1", "t2"}
LoopPlain == {"t2"}

Loop == INSTANCE AgentLoop WITH
    Turns <- LoopTurns, Plain <- LoopPlain, FreshIds <- TRUE, MaxIterations <- 2,
    MaxTries <- 1, MaxOverflow <- 1, MaxCalls <- 1, MaxFlight <- 1, MaxFaults <- 1,
    file <- loopFile, torn <- loopTorn, flight <- loopFlight, turn <- loopTurn,
    faults <- loopFaults

\* A webchat without credentials and a service with two calls, a logout and a fault.
ChanWeb == {"web"}
ChanHttp == {"tg"}
ChanCalls == {"m1", "m2"}
ChanChannelOf == [s \in {"m1", "m2"} |-> "tg"]

Chan == INSTANCE Channels WITH
    Web <- ChanWeb, Http <- ChanHttp, Calls <- ChanCalls, ChannelOf <- ChanChannelOf,
    Chunks <- 2, Capacity <- 1, MaxFaults <- 1, MaxLogouts <- 1, status <- chanStatus,
    writer <- chanWriter, readers <- chanReaders, bucket <- chanBucket, call <- chanCall,
    watcher <- chanWatcher, waiting <- chanWaiting, shown <- chanShown,
    logouts <- chanLogouts, faults <- chanFaults

\* A chat completion, streamed, plain or while hatching.
CompRequests == {1}

Comp == INSTANCE Completions WITH
    Requests <- CompRequests, MaxRounds <- 2, MaxChunks <- 2, hatching <- compHatching,
    tooled <- compTooled, identity <- compIdentity, log <- compLog, landing <- compLanding,
    lost <- compLost, req <- compReq, pc <- compPc, recalled <- compRecalled, rounds <- compRounds, text <- compText, sent <- compSent,
    answer <- compAnswer, cleared <- compCleared, failed <- compFailed

\* Two connections to the websocket server.
ConnRaw == {"p", "q"}
ConnRouted == {}

Conn == INSTANCE Connections WITH
    Raw <- ConnRaw, Routed <- ConnRouted, Capacity <- 1, MaxFrames <- 1, MaxEvents <- 0,
    server <- connServer, called <- connCalled, signal <- connSignal, conn <- connConn,
    inbox <- connInbox, asked <- connAsked, answered <- connAnswered,
    sessions <- connSessions, published <- connPublished, next <- connNext,
    joined <- connJoined, heard <- connHeard

\* Three updates in batches of two, two failed calls or restarts.
Tg == INSTANCE TelegramPoll WITH
    MaxUpdates <- 3, Batch <- 2, MaxFaults <- 2, posted <- tgPosted, plain <- tgPlain,
    confirmed <- tgConfirmed, offset <- tgOffset, batch <- tgBatch, pc <- tgPc,
    current <- tgCurrent, begun <- tgBegun, ran <- tgRan, told <- tgTold,
    restarts <- tgRestarts, faults <- tgFaults

\* Two calls of set_presence, two lost connections.
DpCalls == 1..2

Dp == INSTANCE DiscordPresence WITH
    Calls <- DpCalls, MaxFaults <- 2, MaxBeats <- 1, channel <- dpChannel, call <- dpCall,
    of <- dpOf, entry <- dpEntry, task <- dpTask, queue <- dpQueue, current <- dpCurrent,
    shown <- dpShown, newest <- dpNewest, faults <- dpFaults, beats <- dpBeats

-----------------------------------------------------------------------------
\* Every component begins as it does alone; one of them is chosen to move.
Init ==
    /\ part \in {"sub", "ann", "hb", "ses", "loop", "chan", "comp", "conn", "tg", "dp"}
    /\ Sub!Init
    /\ Ann!Init
    /\ Hb!Init
    /\ Ses!Init /\ (part = "ses" \/ sesSend["x"].mode = "wait")
    /\ Loop!Init
    /\ Chan!Init /\ (part = "chan" \/ chanStatus["tg"] = "connected")
    /\ Comp!Init /\ (part = "comp" \/ (compHatching /\ compTooled
                                       /\ compReq[1] = [x \in DOMAIN compReq[1] |-> FALSE]))
    /\ Conn!Init
    /\ Tg!Init /\ (part = "tg" \/ tgPlain = {})
    /\ Dp!Init

SubMoves ==
    /\ part = "sub" /\ Sub!Next
    /\ UNCHANGED <<part, annVars, hbVars, sesVars, loopVars, chanVars, compVars, connVars,
                         tgVars, dpVars>>

AnnMoves ==
    /\ part = "ann" /\ Ann!Next
    /\ UNCHANGED <<part, subVars, hbVars, sesVars, loopVars, chanVars, compVars, connVars,
                         tgVars, dpVars>>

HbMoves ==
    /\ part = "hb" /\ Hb!Next
    /\ UNCHANGED <<part, subVars, annVars, sesVars, loopVars, chanVars, compVars, connVars,
                         tgVars, dpVars>>

SesMoves ==
    /\ part = "ses" /\ Ses!Next
    /\ UNCHANGED <<part, subVars, annVars, hbVars, loopVars, chanVars, compVars, connVars,
                         tgVars, dpVars>>

LoopMoves ==
    /\ part = "loop" /\ Loop!Next
    /\ UNCHANGED <<part, subVars, annVars, hbVars, sesVars, chanVars, compVars, connVars,
                         tgVars, dpVars>>

ChanMoves ==
    /\ part = "chan" /\ Chan!Next
    /\ UNCHANGED <<part, subVars, annVars, hbVars, sesVars, loopVars, compVars, connVars,
                         tgVars, dpVars>>

CompMoves ==
    /\ part = "comp" /\ Comp!Next
    /\ UNCHANGED <<part, subVars, annVars, hbVars, sesVars, loopVars, chanVars, connVars,
                         tgVars, dpVars>>

ConnMoves ==
    /\ part = "conn" /\ Conn!Next
    /\ UNCHANGED <<part, subVars, annVars, hbVars, sesVars, loopVars, chanVars, compVars,
                         tgVars, dpVars>>

TgMoves ==
    /\ part = "tg" /\ Tg!Next
    /\ UNCHANGED <<part, subVars, annVars, hbVars, sesVars, loopVars, chanVars, compVars,
                         connVars, dpVars>>

DpMoves ==
    /\ part = "dp" /\ Dp!Next
    /\ UNCHANGED <<part, subVars, annVars, hbVars, sesVars, loopVars, chanVars, compVars,
                         connVars, tgVars>>

Next == SubMoves \/ AnnMoves \/ HbMoves \/ SesMoves \/ LoopMoves
        \/ ChanMoves \/ CompMoves \/ ConnMoves \/ TgMoves \/ DpMoves

Spec == Init /\ [][Next]_vars

\* The fairness of each component, asked for in its own behaviours.
FairSpec ==
    /\ Spec
    /\ \A s \in {"s1", "s2"} : WF_subVars(part = "sub" /\ Sub!SetRunning(s))
    /\ \A s \in {"s1", "s2"} : WF_subVars(part = "sub" /\ Sub!AgentReturns(s))
    /\ \A s \in {"s1", "s2"} : WF_subVars(part = "sub" /\ Sub!RecordResult(s))
    /\ \A s \in {"s1", "s2"} : WF_subVars(part = "sub" /\ Sub!Poll(s))
    /\ \A d \in 1..2 : WF_annVars(part = "ann" /\ Ann!DrainStep(d))
    /\ WF_hbVars(part = "hb" /\ Hb!LoopStep)
    /\ WF_sesVars(part = "ses" /\ Ses!Step("x"))
    /\ WF_sesVars(part = "ses" /\ Ses!Answer("x"))
    /\ \A t \in {"t1", "t2"} : WF_loopVars(part = "loop" /\ Loop!Step(t))
    /\ WF_loopVars(part = "loop" /\ \E m \in loopFlight : Loop!Land(m))
    /\ WF_chanVars(part = "chan" /\ Chan!Watch)
    /\ \A ch \in {"web", "tg"} : WF_chanVars(part = "chan" /\ Chan!Due(ch))
    /\ \A ch \in {"web", "tg"} : WF_chanVars(part = "chan" /\ Chan!Refill(ch))
    /\ \A s \in {"m1", "m2"} : WF_chanVars(part = "chan" /\ (\/ Chan!WaitSendSlot(s) \/ Chan!BeginSend(s)
                                                           \/ Chan!SendChunk(s) \/ Chan!SendOk(s)))
    /\ WF_compVars(part = "comp" /\ Comp!Handler(1))
    /\ WF_compVars(part = "comp" /\ \E m \in compLanding : Comp!Land(m) \/ Comp!LoseWrite(m))
    /\ WF_connVars(part = "conn" /\ Conn!Stops)
    /\ \A c \in {"p", "q"} : WF_connVars(part = "conn" /\ Conn!Works(c))
    /\ WF_tgVars(part = "tg" /\ Tg!Loop)
    /\ \A t \in 1..2 : WF_dpVars(part = "dp" /\ Dp!TaskStep(t))
    /\ \A c \in 1..2 : WF_dpVars(part = "dp" /\ Dp!CallStep(c))

-----------------------------------------------------------------------------
\* Every caller of spawn_and_wait is answered, and told how its own run ended or that it was
\* taken away, also when the subagent is terminated or removed meanwhile; a terminate that
\* hits a running subagent is final.
SubagentsAnswer ==
    /\ [](part = "sub" => Sub!TypeOK /\ Sub!VerdictMatchesRun)
    /\ Sub!TerminatedRunStays
    /\ Sub!WaiterReturns

\* Announcements that were accepted are sent, each once and in the order of arrival, by one
\* task (enqueue_subagent_announce, run_subagent_announce_queue_drain), through failed
\* sends.  That they are sent is said only while nothing was dropped at the cap: afterwards
\* the drain task may remove a queue together with what was accepted meanwhile.
AnnouncementsAreSent ==
    /\ [](part = "ann" => Ann!TypeOK /\ Ann!DrainedByOne /\ Ann!SentOnceInOrder)
    /\ Ann!AcceptedIsSent

\* No system event is lost track of, no wake is weakened by a later one, and an event posted
\* with mode now is handed to a tick unless heartbeats are switched off.
WakesAreServed ==
    /\ [](part = "hb" => Hb!TypeOK /\ Hb!EventsAccountedFor)
    /\ Hb!WakesNeverWeaken
    /\ Hb!UrgentIsHandled

\* Every call of sessions_send that was begun is answered, and its talk comes to its end.
\* A turn that was started ends, whatever the model keeps asking for, and as long as nothing
\* fails its answer reaches the transcript.
\* A chat completion ends, whatever the model keeps calling, and its client is told something
\* unless it has left.
TurnsEnd ==
    /\ [](part = "ses" => Ses!TypeOK)
    /\ Ses!TalksEnd
    /\ [](part = "loop" => Loop!TypeOK)
    /\ Loop!TurnsEnd
    /\ Loop!AnswersAreKept
    /\ [](part = "comp" => Comp!TypeOK)
    /\ Comp!RequestsEnd

\* Calls end, told ok only when every part went out over a connected channel; a channel that
\* failed is tried again, and is not shown as reconnecting for good.
\* Discord is shown the newest presence that was left for the registered task, through lost
\* connections and updates that could not be sent.
ChannelsServe ==
    /\ [](part = "chan" => Chan!TypeOK /\ Chan!SentWhileConnected /\ Chan!OkIsWhole)
    /\ Chan!ShownIsTakenBack
    /\ (part = "chan" => Chan!CallsEnd)
    /\ (part = "chan" => Chan!FailingIsRetried)
    /\ [](part = "dp" => Dp!TypeOK /\ Dp!ShownIsCurrent /\ Dp!RegisteredGoesOn)
    /\ (part = "dp" => Dp!SettledIsShown)

\* After a shutdown the server comes down with nothing left open, also when a connection was
\* still shaking hands and missed the signal.
ShutdownEnds ==
    /\ [](part = "conn" => Conn!TypeOK /\ Conn!AnsweredInOrder /\ Conn!DownIsDown)
    /\ Conn!ShutdownEnds

\* Every update of Telegram is handled, once unless the process was restarted, and confirmed
\* to the service only afterwards, whatever calls fail.
UpdatesAreTaken ==
    /\ [](part = "tg" => Tg!TypeOK /\ Tg!ConfirmedWasHandled /\ Tg!TakenOnce)
    /\ Tg!UpdatesAreTaken

=============================================================================
