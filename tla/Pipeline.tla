------------------------------- MODULE Pipeline -------------------------------
(***************************************************************************)
(* What a compiled listener does with requests: the layers that emit_decl  *)
(* of src/config.rs puts around the forwarding service, each behind its    *)
(* predicate (Conditional), the Router that ProxyBuilder::build puts       *)
(* innermost, the choice of a backend, and ForwardService's target.        *)
(*                                                                         *)
(* A layer's predicate is evaluated on the request as the layers outside   *)
(* it have changed it: a request goes from layer to layer, and a retry     *)
(* starts it again below the retry layer.  One request is on its way at a  *)
(* time, because the layers of this model keep nothing that another could  *)
(* change and the routes' counters are atomic.  Rules of one kind have the *)
(* same parameters.                                                        *)
(***************************************************************************)
EXTENDS Config

CONSTANTS
    RewriteFrom,   \* pattern of the rewriting rules
    RewriteTo,     \* the path they replace it by
    HeaderValue,   \* what the header rules set or append
    BlockedHosts,  \* hosts the block rules match
    BlockedPaths,  \* paths they match
    MaxBackends,   \* bound: backends of an upstream rule
    MaxPasses,     \* bound: passes through the layers
    ServedNodes    \* bound: nodes of a configuration that is served

ASSUME PipelineConstants ==
    /\ MaxBackends \in Nat \ {0} /\ MaxPasses \in Nat /\ ServedNodes \in Nat
    /\ None \notin Nat \cup {"answered", "own target", "bad gateway", "backend"}

VARIABLES
    backends,  \* backends of each upstream rule, 0 before serving
    strategy,  \* LoadBalanceStrategy
    counters,  \* Upstream.counter of each route
    picks,     \* history: how often each backend of a route was picked
    pass,      \* history: the last pass of a request through the layers
    passes     \* number of passes

pipeVars == <<backends, strategy, counters, picks, pass, passes>>

-------------------------------------------------------------------------------
(* The layers.                                                             *)

\* A rewriting rule replaces the path if its pattern matches; the query stays.
Rewritten(q) ==
    IF PathMatches(RewriteFrom, q.path) THEN [q EXCEPT !.path = RewriteTo] ELSE q

\* apply_ops with the one operation of a header rule on requests.
HeaderRules ==
    {"set-request-header", "append-request-header", "remove-request-header"}

WithHeader(k, q) ==
    [q EXCEPT !.header =
        CASE k = "set-request-header" -> <<HeaderValue>>
          [] k = "append-request-header" -> Append(@, HeaderValue)
          [] k = "remove-request-header" -> <<>>]

\* is_blocked: a host or a path of the list.
IsBlocked(q) == q.host \in BlockedHosts \/ q.path \in BlockedPaths

Rewrites == {"rewrite-path", "rewrite-path-regex"}

Scripts == {"script", "script-file"}

\* The kinds whose layers may pass on another request than they were given.
Changing == Rewrites \cup HeaderRules \cup Scripts

\* The requests that a layer of kind k may pass to its inner service for q.  A
\* script may change what it likes (see Script); the remaining kinds delay the
\* request, or look at it or at the response only.
PassedOn(k, q) ==
    CASE k = "respond" -> {}
      [] k = "block" -> IF IsBlocked(q) THEN {} ELSE {q}
      [] k \in Rewrites -> {Rewritten(q)}
      [] k \in HeaderRules -> {WithHeader(k, q)}
      [] k \in Scripts -> Requests \cup {q}
      [] OTHER -> {q}

\* A layer of kind k may answer q itself.
MayAnswer(k, q) ==
    \/ k \in {"respond", "fault", "circuit-breaker"} \cup Scripts
    \/ k = "block" /\ IsBlocked(q)

IsRoute(i) == decls[i].kind \in RoutingKinds

\* Mutant: the layers are not applied in reverse, the last rule ends up outermost.
OutsideReversed(i, j) == i > j

\* emit_decl and build_service_chain: a layer per rule, the first of the file
\* outermost.
Outside(i, j) == i < j

\* Conditional: a layer whose predicate rejects the request is passed by, so that a
\* request inside layer at (None outside all of them) meets the next that accepts
\* it.  The upstream rules make no layers.
Ahead(at, q) ==
    {i \in DOMAIN decls : /\ at = None \/ Outside(at, i)
                          /\ ~IsRoute(i) /\ Fires(decls[i], q)}

-------------------------------------------------------------------------------
(* The router, inside all layers if there is an upstream rule.             *)

Routes == {i \in DOMAIN decls : IsRoute(i)}

\* Mutant: the last matching route wins.
RouteLast(q) ==
    LET matching == {i \in Routes : Fires(decls[i], q)} IN
    IF matching = {} THEN None ELSE CHOOSE i \in matching : \A j \in matching : j <= i

\* The first route whose predicate accepts the request.
Route(q) ==
    LET matching == {i \in Routes : Fires(decls[i], q)} IN
    IF matching = {} THEN None ELSE CHOOSE i \in matching : \A j \in matching : i <= j

\* pick: the backends that may be chosen for route i.
Picked(i) ==
    IF backends = 1 THEN {0}
    ELSE IF strategy = "round-robin" THEN {counters[i] % backends}
    ELSE 0..(backends - 1)

\* Mutant: to_target is evaluated for every route, not for the one that matched.
AdvancedAll(i) ==
    IF backends > 1 /\ strategy = "round-robin"
    THEN [j \in DOMAIN counters |-> IF IsRoute(j) THEN counters[j] + 1 ELSE counters[j]]
    ELSE counters

\* fetch_add, which a single backend or the random strategy does without.
Advanced(i) ==
    IF backends > 1 /\ strategy = "round-robin"
    THEN [counters EXCEPT ![i] = @ + 1] ELSE counters

-------------------------------------------------------------------------------
(* Serving.                                                                *)

\* Names and Redis connections have no part in what follows; configurations that
\* use them are compiled and not served.
Servable ==
    /\ nodes <= ServedNodes
    /\ \A i \in DOMAIN decls :
         decls[i].redis = None /\ \A n \in DOMAIN decls[i].block : decls[i].block[n].name = None

\* The compiled listener starts.
Start ==
    /\ phase = "compiled" /\ Servable
    /\ phase' = "serving"
    /\ \E n \in 1..MaxBackends, s \in {"round-robin", "random"} :
         /\ Routes = {} => n = 1
         /\ n = 1 => s = "round-robin"
         /\ backends' = n /\ strategy' = s
    /\ counters' = [i \in DOMAIN decls |-> 0]
    /\ picks' = [i \in DOMAIN decls |-> [b \in 0..(MaxBackends - 1) |-> 0]]
    /\ UNCHANGED <<preds, path, scopeStack, counter, redisStack, calls, nextIdx,
                   decls, nodes, blocks, pass, passes>>

\* A request is on its way.
Underway == pass # None /\ pass.end = None

\* A client's request, outside all layers.
Serve(q) ==
    /\ phase = "serving" /\ ~Underway /\ passes < MaxPasses
    /\ pass' = [sent |-> q, req |-> q, at |-> None, seen |-> <<>>, route |-> None, end |-> None]
    /\ passes' = passes + 1
    /\ UNCHANGED <<vars, backends, strategy, counters, picks>>

Noted(seen, i, q) == [j \in DOMAIN seen \cup {i} |-> IF j = i THEN q ELSE seen[j]]

\* The request meets layer i, which passes it on or answers it.
Meet(i) ==
    LET k == decls[i].kind
        met == [pass EXCEPT !.at = i, !.seen = Noted(pass.seen, i, pass.req)]
    IN  /\ phase = "serving" /\ Underway
        /\ i \in Ahead(pass.at, pass.req)
        /\ \A j \in Ahead(pass.at, pass.req) : ~Outside(j, i)
        /\ \/ \E r \in PassedOn(k, pass.req) : pass' = [met EXCEPT !.req = r]
           \/ MayAnswer(k, pass.req) /\ pass' = [met EXCEPT !.end = "answered"]
        /\ UNCHANGED <<vars, backends, strategy, counters, picks, passes>>

\* It has left the layers behind.  Without routes it goes to the listener's own
\* target; the Router sends it to a backend or, as it has no default, answers 502.
Arrive ==
    LET i == Route(pass.req) IN
    /\ phase = "serving" /\ Underway /\ Ahead(pass.at, pass.req) = {}
    /\ \/ /\ Routes = {}
          /\ pass' = [pass EXCEPT !.end = "own target"]
          /\ UNCHANGED <<counters, picks>>
       \/ /\ Routes # {} /\ i = None
          /\ pass' = [pass EXCEPT !.end = "bad gateway"]
          /\ UNCHANGED <<counters, picks>>
       \/ /\ i # None
          /\ pass' = [pass EXCEPT !.route = i, !.end = "backend"]
          /\ counters' = Advanced(i)
          /\ \E b \in Picked(i) : picks' = [picks EXCEPT ![i][b] = @ + 1]
    /\ UNCHANGED <<vars, backends, strategy, passes>>

\* A retry layer that the request met calls its inner service again with the request
\* it was given.
Again ==
    /\ phase = "serving" /\ pass # None /\ ~Underway /\ passes < MaxPasses
    /\ \E i \in DOMAIN pass.seen :
         /\ decls[i].kind = "retry"
         /\ pass' = [pass EXCEPT !.req = pass.seen[i], !.at = i, !.route = None, !.end = None,
                         !.seen = Restrict(pass.seen, {j \in DOMAIN pass.seen : ~Outside(i, j)})]
    /\ passes' = passes + 1
    /\ UNCHANGED <<vars, backends, strategy, counters, picks>>

PipelineInit ==
    /\ Init
    /\ backends = 0 /\ strategy = "round-robin" /\ counters = <<>> /\ picks = <<>>
    /\ pass = None /\ passes = 0

Compile == Next /\ UNCHANGED pipeVars

PipelineNext ==
    \/ Compile \/ Start \/ Arrive \/ Again
    \/ \E q \in Requests : Serve(q)
    \/ \E i \in DOMAIN decls : Meet(i)

PipelineSpec == PipelineInit /\ [][PipelineNext]_<<vars, pipeVars>>

-------------------------------------------------------------------------------
(* Properties.                                                             *)

PipelineTypeOK ==
    /\ phase = "serving" \/ TypeOK
    /\ backends \in 0..MaxBackends /\ strategy \in {"round-robin", "random"}
    /\ phase = "serving" =>
         /\ backends > 0
         /\ counters \in [DOMAIN decls -> 0..MaxPasses]
         /\ picks \in [DOMAIN decls -> [0..(MaxBackends - 1) -> 0..MaxPasses]]
    /\ passes \in 0..MaxPasses

Met(i) == phase = "serving" /\ pass # None /\ i \in DOMAIN pass.seen

\* A request meets the layers of two nested rules of an exclusive kind only if a rule
\* that stands between them in the file has changed it on the way: resolve_exclusions
\* works on predicates, and both see the same request otherwise.  A listener's rule and
\* one in a global match block are left out, see ListenerWins.
NestedMeetOnce ==
    \A i, j \in DOMAIN decls :
        /\ Exclusive(i, j) /\ Met(i) /\ Met(j)
        /\ Inside(decls[j], decls[i]) /\ ~Collides(decls[j], decls[i])
        =>
            \E k \in DOMAIN pass.seen :
                decls[k].kind \in Changing /\ (i < k <=> k < j)

\* Global rules are outside those of the listener: whatever a listener's rules do to
\* a request, a global rule sees it as the client sent it, unless another global rule
\* that comes before it may have changed it.
GlobalsSeeTheClient ==
    \A i \in DOMAIN decls :
        Met(i) /\ Body(decls[i]) = "globals" =>
            \/ pass.seen[i] = pass.sent
            \/ \E k \in DOMAIN pass.seen :
                 k < i /\ Body(decls[k]) = "globals" /\ decls[k].kind \in Changing

\* A request that no rule has changed goes to the first upstream rule of the file
\* whose blocks accept it, and nowhere else if there is one.
RoutedAsSent ==
    phase = "serving" /\ pass # None /\ pass.req = pass.sent =>
        LET accepting == {i \in DOMAIN decls : IsRoute(i) /\ Matches(decls[i].scope, pass.sent)}
        IN  /\ pass.end = "backend" =>
                 pass.route \in accepting /\ \A i \in accepting : pass.route <= i
            /\ pass.end \in {"own target", "bad gateway"} => accepting = {}

\* What the documentation of ProxyBuilder::route says: if no route matches, the upstream
\* given to reverse_proxy(), which is a reverse listener's own target, is used.
DefaultIsUsed ==
    phase = "serving" /\ pass # None => pass.end # "bad gateway"

\* The round robin of a route is fair over all connections and retries: no backend
\* is ever two requests ahead of another.
Balanced ==
    phase = "serving" /\ strategy = "round-robin" =>
        \A i \in DOMAIN decls : \A a, b \in 0..(backends - 1) : picks[i][a] <= picks[i][b] + 1

===============================================================================
