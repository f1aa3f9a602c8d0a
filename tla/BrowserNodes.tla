---------------------------- MODULE BrowserNodes ----------------------------
(* Who carries out a browser.request: a connected node, through its          *)
(* browser.proxy command, or the gateway itself (rpc_browser_request and     *)
(* browser_resolve_node_target in crates/gateway-core/src/http.rs).  The     *)
(* configuration is read with try_read at each decision, so that a request   *)
(* that meets a writer of the configuration goes on without it.              *)
EXTENDS Naturals, Sequences, FiniteSets

CONSTANTS
    Nodes,      \* nodes that may connect
    Described,  \* of each: [names, platform, caps, commands]; names: id, address, name, prefixes
    Asks,       \* requests: [query, profile]; the node and the profile each names, or None
    Configs,    \* configurations: [mode, node, allow, deny, enabled, profiles]
    Payloads,   \* answers of a node: [files, path]; files: [path, bad] in their order
    MaxChanges, \* bound on nodes coming and going and on changes of the configuration
    None

VARIABLES
    connected,  \* connected nodes
    conf,       \* the configuration
    busy,       \* a writer holds its lock
    req,        \* a request; requests do not meet
    changes     \* changes so far

vars == <<connected, conf, busy, req, changes>>

Proxy == "browser.proxy"

New(ask) ==
    [at |-> "new", query |-> ask.query, asked |-> ask.profile, nodes |-> {}, node |-> None,
     profile |-> None, raced |-> FALSE, told |-> None, todo |-> <<>>, path |-> None, saved |-> {}]

\* What a request may find the configuration to be: nothing while it is being written.
Unread == [mode |-> "auto", node |-> None, allow |-> {}, deny |-> {}, enabled |-> FALSE, profiles |-> {}]

TypeOK ==
    /\ connected \subseteq Nodes /\ conf \in Configs /\ busy \in BOOLEAN
    /\ changes \in 0..MaxChanges
    /\ req.at \in {"new", "decide", "validate", "invoke", "answer", "files", "local", "done"}
    /\ req.nodes \subseteq Nodes /\ req.node \in Nodes \cup {None}

Read == IF busy THEN Unread ELSE conf

\* platform_default_allowlist: whether the platform may be asked at all.
Allowed(n) ==
    Proxy \in (({Proxy} \cap IF Described[n].platform \in {"ios", "android"} THEN {} ELSE {Proxy})
                  \cup Read.allow) \ Read.deny

Capable(n) == "browser" \in Described[n].caps \/ Proxy \in Described[n].commands

\* browser_resolve_named_node: every way to name a node counts, and two nodes are too many.
Named(nodes, query) == {n \in nodes : query \in Described[n].names}

Tell(what) == [req EXCEPT !.at = "done", !.told = what]

Put(v) == req' = v /\ UNCHANGED <<connected, conf, busy, changes>>

-----------------------------------------------------------------------------
\* browser_connected_nodes.
Snapshot ==
    /\ req.at = "new"
    /\ Put([req EXCEPT !.at = "decide", !.nodes = connected])

\* A likely slip: a node that is not there is replaced by the gateway.
ByNameOrLocal(nodes, query) ==
    IF Cardinality(Named(nodes, query)) = 1
    THEN Put([req EXCEPT !.at = "validate", !.node = CHOOSE n \in Named(nodes, query) : TRUE,
                         !.raced = @ \/ busy])
    ELSE Put([req EXCEPT !.at = "local", !.raced = @ \/ busy])

\* The one node that is meant, an error, or no node.
ByName(nodes, query) ==
    IF Cardinality(Named(nodes, query)) = 1
    THEN Put([req EXCEPT !.at = "validate", !.node = CHOOSE n \in Named(nodes, query) : TRUE,
                         !.raced = @ \/ busy])
    ELSE Put([Tell("unavailable") EXCEPT !.raced = @ \/ busy])

Locally == Put([req EXCEPT !.at = "local", !.raced = @ \/ busy])

\* browser_resolve_node_target.
Decide ==
    LET capable == {n \in req.nodes : Capable(n)}
    IN  /\ req.at = "decide"
        /\ CASE req.query # None -> ByName(req.nodes, req.query)
             [] req.query = None /\ Read.mode = "off" -> Locally
             [] req.query = None /\ Read.mode # "off" /\ Read.node # None ->
                    ByName(capable, Read.node)
             [] OTHER ->
                    IF Read.mode # "manual" /\ Cardinality(capable) = 1
                    THEN Put([req EXCEPT !.at = "validate", !.node = CHOOSE n \in capable : TRUE,
                                   !.raced = @ \/ busy])
                    ELSE Locally

\* browser_validate_node_command_allowed.
Validate ==
    LET n == req.node
    IN  /\ req.at = "validate"
        /\ Put(IF Allowed(n) /\ Proxy \in Described[n].commands
                  THEN [req EXCEPT !.at = "invoke", !.raced = @ \/ busy]
                  ELSE [Tell("invalid") EXCEPT !.raced = @ \/ busy])

\* node.invoke looks again whether the node is there; the invocation itself is in NodePairing.
Invoke ==
    /\ req.at = "invoke"
    /\ Put(IF req.node \in connected THEN [req EXCEPT !.at = "answer"]
              ELSE Tell("unavailable"))

\* The node answers with a result and files, or not at all.
Answer(payload) ==
    /\ req.at = "answer"
    /\ Put(IF payload = None THEN Tell("unavailable")
              ELSE [req EXCEPT !.at = "files", !.todo = payload.files, !.path = payload.path])

\* browser_persist_proxy_files: one file after the other; one that cannot be read or written
\* ends the request, and those before it stay.
SaveFile(written) ==
    /\ req.at = "files" /\ req.todo # <<>>
    /\ LET f == Head(req.todo)
       IN  Put(CASE f.bad -> Tell("invalid")
                    [] ~f.bad /\ ~written -> Tell("internal")
                    [] OTHER -> [req EXCEPT !.todo = Tail(@), !.saved = @ \cup {f.path}])

\* browser_apply_proxy_paths: a path of the result that names a file of the node is replaced.
Reply ==
    /\ req.at = "files" /\ req.todo = <<>>
    /\ Put([Tell("ok") EXCEPT !.path = IF @ \in req.saved THEN "local" ELSE @])

\* The gateway itself: browser control must be on; a profile that is not known is the default
\* one (browser_resolved_cdp_url).  What follows is in Browser.
Local ==
    /\ req.at = "local"
    /\ Put(IF Read.enabled
              THEN [Tell("local") EXCEPT
                      !.profile = IF req.asked \in Read.profiles THEN req.asked ELSE "default",
                      !.raced = @ \/ busy]
              ELSE [Tell("unavailable") EXCEPT !.raced = @ \/ busy])

-----------------------------------------------------------------------------
Changed == changes < MaxChanges /\ changes' = changes + 1

Connect(n) ==
    /\ Changed /\ connected' = connected \cup {n}
    /\ UNCHANGED <<conf, busy, req>>

Disconnect(n) ==
    /\ Changed /\ connected' = connected \ {n}
    /\ UNCHANGED <<conf, busy, req>>

\* Somebody writes the configuration (config.set, a profile, a pairing).
Lock == Changed /\ ~busy /\ busy' = TRUE /\ UNCHANGED <<connected, conf, req>>

Unlock(new) ==
    /\ busy /\ busy' = FALSE /\ conf' = new
    /\ req' = IF req.at \in {"new", "done"} \/ new = conf THEN req ELSE [req EXCEPT !.raced = TRUE]
    /\ UNCHANGED <<connected, changes>>

Init ==
    /\ connected \in SUBSET Nodes /\ conf \in Configs /\ busy = FALSE
    /\ \E ask \in Asks : req = New(ask)
    /\ changes = 0

Next ==
    \/ Snapshot \/ Decide \/ Validate \/ Invoke \/ Reply \/ Local
    \/ \E p \in Payloads \cup {None} : Answer(p)
    \/ \E w \in BOOLEAN : SaveFile(w)
    \/ \E n \in Nodes \ connected : Connect(n)
    \/ \E n \in connected : Disconnect(n)
    \/ Lock
    \/ \E new \in Configs : Unlock(new)

Spec == Init /\ [][Next]_vars

-----------------------------------------------------------------------------

Sent == req.at \in {"answer", "files"} \/ req.told \in {"ok", "internal"}

\* A request that names a node is never carried out by the gateway, and goes to no node but
\* the only one that answers to the name and offers browser.proxy.
NamedIsNamed ==
    req.query # None =>
        /\ req.told # "local" /\ req.at # "local"
        /\ Sent => /\ Named(req.nodes, req.query) = {req.node}
                   /\ Proxy \in Described[req.node].commands

\* Of a step: as long as nobody writes the configuration, what it says is heeded: a denied command is
\* sent nowhere, mode off keeps requests here, a configured node is the only one that is
\* asked, and the gateway does nothing when browser control is off.
PolicyIsHeeded ==
    ~busy /\ ~req.raced /\ req.at # "done" /\ req'.at # req.at =>
          /\ req'.at = "invoke" => Proxy \notin conf.deny
          /\ req'.at = "validate" /\ req.query = None =>
                /\ conf.mode # "off"
                /\ conf.node # None => conf.node \in Described[req'.node].names
          /\ req'.at = "local" => (conf.node = None \/ conf.mode = "off")
          /\ req'.told = "local" => conf.enabled

\* The path a client is given is on this machine if the node sent the file along.
PathsAreHere == req.told = "ok" => req.path \notin req.saved

\* Of a step and of a state: mode off, the deny list and a profile hold whenever the request comes.  They do not: a
\* configuration that is being written reads as an empty one (7641, 7756, 7593).
DeniedIsDenied == req.at = "validate" /\ req'.at = "invoke" => Proxy \notin conf.deny

ProfileIsHeeded ==
    req.told = "local" /\ req.asked \in conf.profiles => req.profile = req.asked

=============================================================================
