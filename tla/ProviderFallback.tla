------------------------- MODULE ProviderFallback -------------------------
(* The model providers of a gateway in their order and the call that goes from *)
(* one to the next (crates/cli/src/main.rs, create_llm_provider and            *)
(* FallbackLlmProvider): a provider that failed is left alone for a while, for *)
(* all requests, which run at the same time.                                   *)
EXTENDS Naturals, Sequences, SequencesExt, FiniteSets

CONSTANTS Configured,   \* names of providers, in alphabetical order
          KindOf,       \* provider_kind of a name
          Wishes,       \* what a request may ask for: [target, model]
          Configs,      \* what the operator may set: [env, default, usable, chain]
          Requests,
          Cooldown,     \* cooldown_secs, in ticks
          MaxTime,      \* bound: ticks
          None

Names == ToSet(Configured)

VARIABLES config,    \* preferred names, usable providers, fallback list of the primary one
          order,     \* primary and fallbacks, built at the start
          wish,      \* the model a request names
          pc,        \* "new", "look", "ask", "ok", "failed" or "none"
          at,        \* place in the order of this request
          asked,     \* entries the request has asked, with the model it named
          passed,    \* entries it has passed over
          mark,      \* cooldowns: ticks until the entry is tried again
          last,      \* how the last call of an entry ended
          clock

vars == <<config, order, wish, pc, at, asked, passed, mark, last, clock>>

-----------------------------------------------------------------------------
\* The first occurrences of a sequence.
Distinct(s) == FoldLeft(LAMBDA a, x : IF x \in ToSet(a) THEN a ELSE Append(a, x), <<>>, s)

\* llm_provider_selection_order: the name from the environment, the default one, the one
\* called default, then the rest; only names that are configured, each once.
SelectionOrder(c) ==
    Distinct(SelectSeq(<<c.env, c.default, "default">> \o Configured, LAMBDA n : n \in Names))

\* create_llm_provider: the first usable provider, then the names of its chain and the rest.
CreateProvider(c) ==
    LET primary == SelectSeq(SelectionOrder(c), LAMBDA n : n \in c.usable)[1]
        names == Distinct(c.chain \o SelectionOrder(c)) IN
    <<primary>> \o SelectSeq(names, LAMBDA n : n # primary /\ n \in c.usable)

InitWith(c, w) ==
    /\ config = c /\ order = CreateProvider(c) /\ wish = w
    /\ pc = [r \in Requests |-> "new"]
    /\ at = [r \in Requests |-> 1]
    /\ asked = [r \in Requests |-> <<>>]
    /\ passed = [r \in Requests |-> {}]
    /\ mark = [e \in Names |-> 0]
    /\ last = [e \in Names |-> None]
    /\ clock = 0

Init == \E c \in Configs, w \in [Requests -> Wishes] : InitWith(c, w)

\* matches_target, by name or by kind.
Matches(e, t) == t # None /\ (e = t \/ KindOf[e] = t)

\* ordered_entries_for_request: the first entry that the request means goes to the front.
Entries(r) ==
    LET meant == {i \in DOMAIN order : Matches(order[i], wish[r].target)} IN
    IF meant = {} THEN order
    ELSE LET p == CHOOSE i \in meant : \A j \in meant : i <= j IN <<order[p]>> \o RemoveAt(order, p)

\* model_for_entry: the model of the request goes to the entries it means; any other entry
\* gets its own when the request names a target.
ModelFor(r, e) ==
    IF Matches(e, wish[r].target) THEN wish[r].model
    ELSE IF wish[r].target # None \/ wish[r].model = "default" THEN e
    ELSE wish[r].model

-----------------------------------------------------------------------------
Begin(r) ==
    /\ pc[r] = "new"
    /\ pc' = [pc EXCEPT ![r] = "look"]
    /\ UNCHANGED <<config, order, wish, at, asked, passed, mark, last, clock>>

Here(r) == Entries(r)[at[r]]

\* is_cooled_down is false: the entry is passed over.
PassOver(r) ==
    /\ pc[r] = "look" /\ at[r] <= Len(Entries(r)) /\ mark[Here(r)] > 0
    /\ at' = [at EXCEPT ![r] = @ + 1]
    /\ passed' = [passed EXCEPT ![r] = @ \cup {Here(r)}]
    /\ UNCHANGED <<config, order, wish, pc, asked, mark, last, clock>>

Ask(r) ==
    /\ pc[r] = "look" /\ at[r] <= Len(Entries(r)) /\ mark[Here(r)] = 0
    /\ pc' = [pc EXCEPT ![r] = "ask"]
    /\ asked' = [asked EXCEPT ![r] = Append(@, [entry |-> Here(r), model |-> ModelFor(r, Here(r))])]
    /\ UNCHANGED <<config, order, wish, at, passed, mark, last, clock>>

\* The cooldown runs on.
SucceedsKeepsMark(r) ==
    /\ pc[r] = "ask"
    /\ pc' = [pc EXCEPT ![r] = "ok"]
    /\ last' = [last EXCEPT ![Here(r)] = "ok"]
    /\ UNCHANGED <<config, order, wish, at, asked, passed, mark, clock>>

\* clear_failed: the answer of one request ends the cooldown for all.
Succeeds(r) ==
    /\ pc[r] = "ask"
    /\ pc' = [pc EXCEPT ![r] = "ok"]
    /\ mark' = [mark EXCEPT ![Here(r)] = 0]
    /\ last' = [last EXCEPT ![Here(r)] = "ok"]
    /\ UNCHANGED <<config, order, wish, at, asked, passed, clock>>

\* mark_failed, also when the entry was tried long ago and has answered others since; the
\* pause before the next entry is the time until it is looked at.
Fails(r) ==
    /\ pc[r] = "ask"
    /\ pc' = [pc EXCEPT ![r] = "look"]
    /\ at' = [at EXCEPT ![r] = @ + 1]
    /\ mark' = [mark EXCEPT ![Here(r)] = Cooldown]
    /\ last' = [last EXCEPT ![Here(r)] = "failed"]
    /\ UNCHANGED <<config, order, wish, asked, passed, clock>>

\* The end of the list: the last error, or that there was nobody to ask.
GiveUp(r) ==
    /\ pc[r] = "look" /\ at[r] > Len(Entries(r))
    /\ pc' = [pc EXCEPT ![r] = IF asked[r] = <<>> THEN "none" ELSE "failed"]
    /\ UNCHANGED <<config, order, wish, at, asked, passed, mark, last, clock>>

Tick ==
    /\ clock < MaxTime /\ clock' = clock + 1
    /\ mark' = [e \in Names |-> IF mark[e] > 0 THEN mark[e] - 1 ELSE 0]
    /\ UNCHANGED <<config, order, wish, pc, at, asked, passed, last>>

Next ==
    \/ \E r \in Requests : Begin(r) \/ PassOver(r) \/ Ask(r) \/ Succeeds(r) \/ Fails(r) \/ GiveUp(r)
    \/ Tick

Spec == Init /\ [][Next]_vars

-----------------------------------------------------------------------------
TypeOK ==
    /\ pc \in [Requests -> {"new", "look", "ask", "ok", "failed", "none"}]
    /\ at \in [Requests -> 1..Len(Configured) + 1]
    /\ mark \in [Names -> 0..Cooldown]
    /\ \A r \in Requests : passed[r] \subseteq config.usable /\ Len(asked[r]) <= Len(Configured)

Ended(r) == pc[r] \in {"failed", "none"}

\* Every usable provider is in the order exactly once; what the request means comes first,
\* and without a target the preferred ones do, the one of the environment before the default.
OrderIsWhole ==
    /\ \A n \in {config.env} \cap config.usable : order[1] = n
    /\ config.env \notin config.usable => \A n \in {config.default} \cap config.usable : order[1] = n
    /\ \A r \in Requests :
        /\ ToSet(Entries(r)) = config.usable /\ Len(Entries(r)) = Cardinality(config.usable)
        /\ (\E e \in config.usable : Matches(e, wish[r].target)) => Matches(Entries(r)[1], wish[r].target)

\* A request fails only after every usable provider has failed it or was cooling down when
\* the request came to it; no provider is asked twice for one request.
FailsLast ==
    \A r \in Requests :
        LET A == {asked[r][k].entry : k \in DOMAIN asked[r]} IN
        /\ Cardinality(A) = Len(asked[r]) /\ A \cap passed[r] = {}
        /\ Ended(r) => A \cup passed[r] = config.usable
        /\ pc[r] = "none" => passed[r] = config.usable

\* A provider cools down only if its last call to end was a failure, whichever requests made
\* the calls: an answer is never followed by a cooldown of its own.
MarkIsLastOutcome == \A e \in Names : mark[e] > 0 => last[e] = "failed"

\* A model that was named for one provider is never asked of another.
ModelsStayHome ==
    \A r \in Requests : \A k \in DOMAIN asked[r] :
        LET a == asked[r][k] IN
        /\ wish[r].target # None /\ a.model = wish[r].model => Matches(a.entry, wish[r].target)
        /\ a.model \in Names => a.model = a.entry
=============================================================================
