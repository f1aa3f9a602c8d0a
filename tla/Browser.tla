------------------------------ MODULE Browser ------------------------------
(* browser.request carried out by the gateway itself (browser_request_local  *)
(* in crates/gateway-core/src/http.rs), the browse tool of crates/tools-core/ *)
(* src/tool.rs and the CDP client below both (crates/browser-core).  A call  *)
(* is a program of steps: requests to the browser's HTTP port, websockets to *)
(* the browser or to a tab, and CDP commands on them.  The browser belongs   *)
(* to the user, who opens and closes tabs and quits it at any moment.        *)
EXTENDS Naturals, Sequences, FiniteSets

CONSTANTS
    Calls,     \* calls of one run
    Menu,      \* the routes each call may use
    MaxTabs,   \* bound on tabs ever opened
    MaxMoves,  \* bound on what the user does
    Profiles,  \* names of browser profiles
    Stored,    \* those that exist at first
    None

VARIABLES
    up,          \* the browser answers on its debugging port
    tabs,        \* open tabs; a tab is known by the order of its opening
    count,       \* tabs ever opened
    mem, file,   \* profiles in the configuration: in memory, on file
    remembered,  \* the tab the tool keeps for its next use, or None
    call,        \* the calls
    moves        \* what the user did so far

vars == <<up, tabs, count, mem, file, remembered, call, moves>>

\* Commands: a reply is awaited.  Those on a tab are sent on the tab's own websocket.
OnBrowser == {"version", "targets", "create", "activate", "close"}
OnTab == {"enable", "look", "touch", "peek"}
Commands == OnBrowser \cup OnTab \cup {"raise"}

\* Commands whose failure is ignored.
Soft == {"raise", "peek"}

NewTab == <<"ask", "attach", "version", "create", "join", "enable", "raise">>
NamedTab == <<"find", "join", "enable">>
PickedTab == <<"pick", "find", "join", "enable">>

\* What each route does once its parameters are read; "body" is where a required parameter
\* is looked at.
ProfileProgram(route) ==
    CASE route = "create-profile" -> <<"body", "add", "save">>
      [] route = "delete-profile" -> <<"body", "drop", "save">>
      [] route = "reset-profile" -> <<"list">>
      [] OTHER -> <<>>

\* Tabs as such: POST /start and everything under /tabs that is not about one page.
TabsProgram(route) ==
    CASE route = "start" -> <<"ask", "attach", "version">>
      [] route \in {"tabs", "action-list"} -> <<"ask", "attach", "targets">>
      [] route = "open" -> <<"body">> \o NewTab \o <<"touch">>
      [] route = "action-new" -> NewTab
      [] route = "focus" -> <<"body", "ask", "attach", "activate">>
      [] route = "close" -> <<"body", "ask", "attach", "close">>
      [] route = "action-close" -> <<"ask", "attach", "targets", "index", "ask", "attach", "close">>
      [] route = "action-select" -> <<"body", "ask", "attach", "targets", "index", "ask", "attach", "activate">>

\* The page in a tab that is named in the path.
PathProgram(route) ==
    IF route \in {"tab-navigate", "tab-evaluate"} THEN <<"body">> \o NamedTab \o <<"touch">>
    ELSE NamedTab \o <<"look">>

\* The page in a tab that the request may name.
PageProgram(route) ==
    CASE route = "navigate" -> <<"body">> \o PickedTab \o <<"touch">>
      [] route \in {"screenshot", "pdf", "cookies"} -> PickedTab \o <<"look">>
      [] route = "snapshot" -> PickedTab \o <<"look", "look">>
      [] route = "cookies-set" -> <<"pick", "body", "find", "join", "enable", "touch">>

StorageProgram(route) ==
    CASE route \in {"cookies-clear", "storage-clear"} -> PickedTab \o <<"touch">>
      [] route = "storage-get" -> <<"body">> \o PickedTab \o <<"look">>
      [] route \in {"storage-set", "offline"} -> <<"body">> \o PickedTab \o <<"touch">>

Program(route) ==
    CASE route \in {"status", "profiles", "stop", "create-profile", "delete-profile", "reset-profile"} ->
            ProfileProgram(route)
      [] route \in {"start", "tabs", "open", "focus", "close", "action-list", "action-new",
                    "action-close", "action-select"} -> TabsProgram(route)
      [] route \in {"tab-navigate", "tab-evaluate", "tab-screenshot", "tab-html"} -> PathProgram(route)
      [] route \in {"navigate", "screenshot", "pdf", "snapshot", "cookies", "cookies-set"} ->
            PageProgram(route)
      [] route \in {"cookies-clear", "storage-clear", "storage-get", "storage-set", "offline"} ->
            StorageProgram(route)
      [] route = "unknown" -> <<"body">>

\* The tool: what its actions do with the page once they have it.
ToolProgram(action) ==
    CASE action = "navigate" -> <<"body", "touch", "peek", "peek", "keep">>
      [] action \in {"click", "type", "evaluate"} -> <<"body", "touch", "keep">>
      [] action \in {"back", "forward", "reload"} -> <<"touch", "keep">>
      [] action = "screenshot" -> <<"look", "keep">>
      [] action = "snapshot" -> <<"peek", "peek", "peek", "keep">>

Idle ==
    [route |-> "none", good |-> TRUE, named |-> None, tab |-> None, on |-> None, live |-> TRUE,
     todo |-> <<>>, orelse |-> None, left |-> {}, errors |-> 0, tries |-> 0,
     opened |-> 0, did |-> {}, profile |-> None, status |-> "idle"]

Status == {"idle", "running", "waiting", "stuck", "ok", "partial", "invalid", "unavailable"}

TypeOK ==
    /\ up \in BOOLEAN /\ tabs \subseteq 1..count /\ count \in 0..MaxTabs
    /\ (~up => tabs = {})
    /\ mem \subseteq Profiles /\ file \subseteq Profiles
    /\ remembered \in 1..count \cup {None}
    /\ \A c \in Calls : call[c].status \in Status /\ call[c].did \subseteq 1..count
    /\ moves \in 0..MaxMoves

\* The reply of the browser wakes nobody: the reader drops the future that would hand it to
\* the waiting command, and with it the channel, so that every command that is carried out
\* ends in "Connection closed".
Heard == FALSE

\* list_targets reads names that the browser does not use: its list is always empty.
Listed == {}

-----------------------------------------------------------------------------
\* The answer; what the call still knows is forgotten.
End(r, status) ==
    [Idle EXCEPT !.route = r.route, !.named = r.named, !.profile = r.profile,
                 !.opened = r.opened, !.did = r.did, !.status = status]

\* A call whose program is over is answered; one that tolerates errors says whether it met any.
Settled(r) ==
    IF r.todo # <<>> THEN [r EXCEPT !.status = "running"]
    ELSE End(r, IF r.errors = 0 THEN "ok" ELSE "partial")

\* On to the next step.
On(r) == Settled([r EXCEPT !.todo = Tail(@)])

\* reset-profile is still looking for a page to clear the cookies through.
Looking(r) == \E i \in DOMAIN r.todo : r.todo[i] = "found"

\* A step failed: the next attempt at a new tab, the program that replaces the present one,
\* or the end of the call.
Failed(r, why) ==
    IF Head(r.todo) = "create" /\ r.tries < 2
    THEN [r EXCEPT !.tries = @ + 1, !.status = "running", !.live = up \/ @]
    ELSE IF r.orelse # None
    THEN Settled([r EXCEPT !.todo = r.orelse, !.orelse = None, !.on = 0, !.live = up, !.tries = 0,
                           !.errors = @ + IF r.route = "reset-profile" /\ ~Looking(r) THEN 1 ELSE 0])
    ELSE End(r, why)

\* The connections of calls to something that is gone: a command that waits is never woken,
\* because the table of waiting commands outlives the reader.
Cut(calls, dead) ==
    [c \in Calls |->
        IF calls[c].on \in dead
        THEN [calls[c] EXCEPT !.live = FALSE, !.status = IF @ = "waiting" THEN "stuck" ELSE @]
        ELSE calls[c]]

At(c, step) == call[c].status = "running" /\ call[c].todo # <<>> /\ Head(call[c].todo) = step

Answer(c, r) == call' = [call EXCEPT ![c] = r]

Same == UNCHANGED <<up, tabs, count, mem, file, remembered, moves>>

\* browser.request reaches its route: method and path are known, the parameters may not do.
Request(c, route, named, good, profile) ==
    /\ call[c].status = "idle"
    /\ Answer(c, Settled([Idle EXCEPT !.route = route, !.named = named, !.good = good,
                                      !.tab = named, !.profile = profile,
                                      !.todo = Program(route)]))
    /\ Same

\* The browse tool: attach to the browser, or start one and wait for its port; then the page
\* of the last time or, if that fails, a new one.
Browse(c, action, good, comes) ==
    LET fresh == <<"create", "join", "enable", "raise">> \o ToolProgram(action)
        again == <<"find", "join", "enable", "raise", "got">> \o ToolProgram(action)
        paged == [Idle EXCEPT !.route = action, !.good = good, !.tab = remembered, !.on = 0,
                              !.todo = IF remembered = None THEN fresh ELSE again,
                              !.orelse = IF remembered = None THEN None ELSE fresh]
    IN  /\ call[c].status = "idle"
        /\ IF up \/ ~comes THEN UNCHANGED <<up, tabs, count>>
           ELSE /\ count < MaxTabs
                /\ up' = TRUE /\ tabs' = {count + 1} /\ count' = count + 1
        /\ Answer(c, CASE ~up' -> [Idle EXCEPT !.route = action, !.status = "unavailable"]
                       [] up' /\ action \in {"console", "network"} ->
                            [Idle EXCEPT !.route = action, !.status = "ok"]
                       [] OTHER -> Settled(paged))
        /\ UNCHANGED <<mem, file, remembered, moves>>

\* A required parameter.
Body(c) ==
    /\ At(c, "body")
    /\ Answer(c, IF call[c].good /\ call[c].route # "unknown" THEN On(call[c])
                 ELSE Failed(call[c], "invalid"))
    /\ Same

\* GET /json/version, and the websocket of the browser.
Ask(c) ==
    /\ At(c, "ask")
    /\ Answer(c, IF up THEN On(call[c]) ELSE Failed(call[c], "unavailable"))
    /\ Same

Attach(c) ==
    /\ At(c, "attach")
    /\ Answer(c, IF up THEN [On(call[c]) EXCEPT !.on = 0, !.live = TRUE] ELSE Failed(call[c], "unavailable"))
    /\ Same

\* browser_resolve_target_id: the tab that is named, the first of the list, or a new one.
Pick(c) ==
    /\ At(c, "pick")
    /\ \/ /\ call[c].named # None
          /\ Answer(c, On(call[c]))
       \/ /\ call[c].named = None /\ ~up
          /\ Answer(c, Failed(call[c], "unavailable"))
       \/ /\ call[c].named = None
          /\ \E t \in tabs : Answer(c, [On(call[c]) EXCEPT !.tab = t])
       \/ /\ call[c].named = None /\ up /\ tabs = {}
          /\ Answer(c, [call[c] EXCEPT !.todo = NewTab \o Tail(@)])
    /\ Same

\* browser_ws_for_target and resolve_target_ws_url: the tab must be in /json/list.
Find(c) ==
    /\ At(c, "find")
    /\ Answer(c, CASE ~up -> Failed(call[c], "unavailable")
                   [] up /\ call[c].tab \notin tabs -> Failed(call[c], "invalid")
                   [] OTHER -> On(call[c]))
    /\ Same

\* The websocket of a tab.
Join(c) ==
    /\ At(c, "join")
    /\ Answer(c, IF call[c].tab \in tabs THEN [On(call[c]) EXCEPT !.on = call[c].tab, !.live = TRUE]
                 ELSE Failed(call[c], "unavailable"))
    /\ Same

\* reset-profile: the tabs of the list one after the other, whatever happens; then the
\* cookies, through any of them.
ResetList(c) ==
    /\ At(c, "list")
    /\ Answer(c, [call[c] EXCEPT !.left = tabs, !.todo = <<"each">>])
    /\ Same

ResetEach(c) ==
    /\ At(c, "each")
    /\ \/ \E t \in call[c].left :
            Answer(c, [call[c] EXCEPT !.left = @ \ {t}, !.tab = t,
                                      !.todo = NamedTab \o <<"touch", "each">>, !.orelse = <<"each">>])
       \/ /\ call[c].left = {}
          /\ Answer(c, [call[c] EXCEPT !.todo = <<"pick", "found">> \o NamedTab \o <<"touch">>,
                                       !.orelse = <<>>, !.tab = call[c].named])
    /\ Same

\* What a call does by itself: tabs/action takes the tab of the list with the given index;
\* reset-profile has a page for the cookies and from here on a failure is an error; the tool
\* has its old page and needs no other, or its action is over and it remembers the page (one
\* that fails returns before).
Inside(c) ==
    /\ \E step \in {"index", "found", "got", "keep"} : At(c, step)
    /\ LET step == Head(call[c].todo)
       IN  /\ Answer(c, CASE step = "index" /\ Listed = {} -> Failed(call[c], "invalid")
                          [] step = "got" -> [On(call[c]) EXCEPT !.orelse = None]
                          [] OTHER -> On(call[c]))
           /\ remembered' = IF step = "keep" THEN call[c].tab ELSE remembered
    /\ UNCHANGED <<up, tabs, count, mem, file, moves>>

-----------------------------------------------------------------------------
\* A command reaches the browser and is carried out, or meets a closed connection.
Send(c) ==
    LET step == Head(call[c].todo)
        sent == [call[c] EXCEPT !.status = "waiting"]
    IN  /\ call[c].status = "running" /\ call[c].todo # <<>> /\ step \in Commands
        /\ step = "create" => count < MaxTabs
        /\ IF ~call[c].live
           THEN Answer(c, Failed(call[c], "unavailable")) /\ UNCHANGED <<tabs, count>>
           ELSE CASE step = "create" ->
                        /\ tabs' = tabs \cup {count + 1} /\ count' = count + 1
                        /\ Answer(c, [sent EXCEPT !.opened = @ + 1])
                  [] step = "close" ->
                        /\ tabs' = tabs \ {call[c].tab}
                        /\ call' = Cut([call EXCEPT ![c] = [sent EXCEPT !.did = @ \cup ({call[c].tab} \cap tabs)]],
                                       {call[c].tab})
                        /\ UNCHANGED count
                  [] step \in {"activate", "raise"} ->
                        /\ Answer(c, [sent EXCEPT !.did = @ \cup ({call[c].tab} \cap tabs)])
                        /\ UNCHANGED <<tabs, count>>
                  [] step \in {"look", "touch", "peek"} ->
                        /\ Answer(c, [sent EXCEPT !.did = @ \cup {call[c].tab}])
                        /\ UNCHANGED <<tabs, count>>
                  [] OTHER -> Answer(c, sent) /\ UNCHANGED <<tabs, count>>
        /\ UNCHANGED <<up, mem, file, remembered, moves>>

\* The browser replies.
Reply(c) ==
    /\ call[c].status = "waiting"
    /\ Answer(c, IF Heard \/ Head(call[c].todo) \in Soft
                 THEN [On(call[c]) EXCEPT !.tab = IF Head(call[c].todo) = "create" THEN count ELSE @]
                 ELSE Failed(call[c], "unavailable"))
    /\ Same

-----------------------------------------------------------------------------
\* Profiles: the configuration in memory, then all of it to the file.  A file that cannot be
\* written leaves the change in memory.
Add(c) ==
    /\ At(c, "add")
    /\ IF call[c].profile \in mem THEN Answer(c, Failed(call[c], "invalid")) /\ UNCHANGED mem
       ELSE mem' = mem \cup {call[c].profile} /\ Answer(c, On(call[c]))
    /\ UNCHANGED <<up, tabs, count, file, remembered, moves>>

Drop(c) ==
    /\ At(c, "drop")
    /\ IF call[c].profile \notin mem THEN Answer(c, Failed(call[c], "invalid")) /\ UNCHANGED mem
       ELSE mem' = mem \ {call[c].profile} /\ Answer(c, On(call[c]))
    /\ UNCHANGED <<up, tabs, count, file, remembered, moves>>

Save(c, written) ==
    /\ At(c, "save")
    /\ file' = IF written THEN mem ELSE file
    /\ Answer(c, IF written THEN On(call[c]) ELSE Failed(call[c], "unavailable"))
    /\ UNCHANGED <<up, tabs, count, mem, remembered, moves>>

-----------------------------------------------------------------------------
Moved == moves < MaxMoves /\ moves' = moves + 1

UserOpens ==
    /\ Moved /\ up /\ count < MaxTabs
    /\ tabs' = tabs \cup {count + 1} /\ count' = count + 1
    /\ UNCHANGED <<up, mem, file, remembered, call>>

UserCloses(t) ==
    /\ Moved
    /\ tabs' = tabs \ {t}
    /\ call' = Cut(call, {t})
    /\ UNCHANGED <<up, count, mem, file, remembered>>

UserQuits ==
    /\ Moved /\ up
    /\ up' = FALSE /\ tabs' = {}
    /\ call' = Cut(call, {0} \cup tabs)
    /\ UNCHANGED <<count, mem, file, remembered>>

Init ==
    /\ up \in BOOLEAN /\ count = 2
    /\ tabs \in IF up THEN {{}, {1}, {1, 2}} ELSE {{}}
    /\ mem = Stored /\ file = Stored
    /\ remembered = None
    /\ call = [c \in Calls |-> Idle]
    /\ moves = 0

ToolActions == {"navigate", "click", "type", "evaluate", "back", "forward", "reload",
                "screenshot", "snapshot", "console", "network"}

Uses(route, steps) == \E i \in DOMAIN Program(route) : Program(route)[i] \in steps

\* The parameters that matter to the route: a tab it may name, and one it must have.
Requests(c) ==
    /\ call[c].status = "idle"
    /\ \E route \in Menu[c].routes :
        \E named \in IF Uses(route, {"find", "close", "activate", "list"}) THEN 1..2 \cup {None} ELSE {None},
           good \in IF Uses(route, {"body"}) THEN BOOLEAN ELSE {TRUE} :
            /\ Uses(route, {"find", "close", "activate"}) /\ ~Uses(route, {"pick", "index"}) =>
                   (named = None) = ~good
            /\ Request(c, route, named, good, IF Uses(route, {"save"}) THEN Menu[c].profile ELSE None)

Browses(c) ==
    \E action \in Menu[c].actions, good \in BOOLEAN, comes \in BOOLEAN :
        /\ up => comes
        /\ Browse(c, action, good, comes)

Step(c) ==
    \/ Body(c) \/ Ask(c) \/ Attach(c) \/ Pick(c) \/ Find(c) \/ Join(c)
    \/ ResetList(c) \/ ResetEach(c) \/ Send(c) \/ Reply(c) \/ Add(c) \/ Drop(c)
    \/ Inside(c)
    \/ \E written \in BOOLEAN : Save(c, written)

Next ==
    \/ \E c \in Calls : Requests(c)
    \/ \E c \in Calls : Browses(c)
    \/ \E c \in Calls : Step(c)
    \/ UserOpens
    \/ \E t \in tabs : UserCloses(t)
    \/ UserQuits

Spec == Init /\ [][Next]_vars

-----------------------------------------------------------------------------
Answered(c) == call[c].status \in {"ok", "partial", "invalid", "unavailable"}

\* A call that is told its parameters were wrong has changed nothing: no tab was opened,
\* closed or raised for it (the tool and cookies/set look for a page before they look at
\* their parameters).
InvalidIsHarmless ==
    \A c \in Calls : call[c].status = "invalid" => call[c].opened = 0 /\ call[c].did = {}

\* No call acts on a tab other than the one it names or, when it names none, the one it
\* found for itself; reset-profile alone goes through all.
OwnTabOnly ==
    \A c \in Calls :
        call[c].named # None /\ call[c].route # "reset-profile" => call[c].did \subseteq {call[c].named}

\* One call leaves at most three new tabs behind, however often its commands are repeated.
ThreeAtMost == \A c \in Calls : call[c].opened <= 3

\* As the client is, no page is ever read or changed and no page is remembered: every
\* program that needs one ends at its first command.
NoPageIsReached ==
    /\ remembered = None
    /\ \A c \in Calls : call[c].route \notin {"close", "focus"} => call[c].did = {}

\* A profile call that says ok is on file, unless a later call changed the same profile.
OkIsOnFile ==
    \A c \in Calls :
        /\ call[c].status = "ok"
        /\ \A d \in Calls \ {c} : call[d].profile # call[c].profile
        => /\ call[c].route = "create-profile" => call[c].profile \in file
           /\ call[c].route = "delete-profile" => call[c].profile \notin file

\* reset-profile that says ok has cleared every tab it saw.  It does not hold: a browser that
\* cannot be reached has no tabs, and nothing to clear is no error (8421).
ResetIsDone ==
    \A c \in Calls : call[c].route = "reset-profile" /\ call[c].status = "ok" => up

\* A call that fails has done nothing.  It does not hold: a tab is closed, raised or opened
\* although the call is told that the connection was closed (connection.rs 72).
RefusedIsHarmless ==
    \A c \in Calls : call[c].status = "unavailable" => call[c].did = {} /\ call[c].opened = 0

\* Every call is answered.  It does not hold: a tab or a browser that goes away while a
\* command waits leaves the call waiting for ever, whatever timeoutMs says (connection.rs 136).
NobodyIsStuck == \A c \in Calls : call[c].status # "stuck"

=============================================================================
