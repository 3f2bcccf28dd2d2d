-------------------------------- MODULE Config --------------------------------
(***************************************************************************)
(* How src/config.rs compiles one listener: walk_body visits the global    *)
(* rules and then the listener's own, keeping stacks of what encloses the  *)
(* current node (predicates, path, scope names, Redis connections), and    *)
(* collects a declaration per rule; resolve_exclusions then carves nested  *)
(* declarations of an exclusive kind out of the enclosing ones.            *)
(*                                                                         *)
(* The tree is not a value of the model: visiting a tree is a sequence of  *)
(* entering a match block, meeting a rule and leaving a block, and the     *)
(* behaviours are those sequences, so every tree within the bounds is      *)
(* walked.  The rules that src/main.rs makes of command-line flags come    *)
(* after those of the file's global body.  A predicate is a sequence of    *)
(* match specifications that must all accept the request.  A request has a *)
(* method, a host, a path (its segments) and the values of one header; a   *)
(* glob is the set of what it matches.  A Redis connection is its          *)
(* configuration (url and prefix), because equal ones share one            *)
(* connection.  The build is one with the redis feature.                   *)
(***************************************************************************)
EXTENDS Naturals, Sequences, Functions

CONSTANTS
    Requests,       \* requests clients send
    Specs,          \* what a match block may test: MatchSpecs
    Kinds,          \* the kinds of rules used
    Redises,        \* Redis configurations that open
    Names,          \* name= of match blocks; no dots, no digits only
    None,           \* an Option that is None
    MaxNodes        \* bound: nodes of the tree

\* is_exclusive()
ExclusiveKinds ==
    {"log", "latency", "bandwidth", "fault", "retry", "circuit-breaker", "respond"}

\* The kinds that keep their state in Redis when one is in scope.
StoreKinds == {"rate-limit", "sliding-window", "circuit-breaker"}

\* min_scope() = Listener
RoutingKinds == {"upstream"}

RuleNode ==
    ExclusiveKinds \cup StoreKinds \cup RoutingKinds \cup
    {"block", "set-request-header", "append-request-header", "remove-request-header",
     "set-response-header", "append-response-header", "remove-response-header",
     "rewrite-path", "rewrite-path-regex", "script", "script-file"}

ASSUME ConfigConstants ==
    /\ None \notin Redises \cup Names
    /\ None \notin Seq(Specs)
    /\ Kinds \subseteq RuleNode
    /\ MaxNodes \in Nat

VARIABLES
    phase,       \* "globals", "cli", "body", "compiled" or "failed"
    preds,       \* WalkCtx.preds
    path,        \* WalkCtx.path
    scopeStack,  \* WalkCtx.scope_stack
    counter,     \* WalkCtx.scope_counter
    redisStack,  \* WalkCtx.redis_stack
    calls,       \* the walk_match calls in progress: what each has pushed
    nextIdx,     \* per open body: enumerate()'s next index
    decls,       \* out: the declarations collected so far
    nodes,       \* nodes visited
    blocks       \* history: the open match blocks, each with its settings

vars == <<phase, preds, path, scopeStack, counter, redisStack, calls, nextIdx,
          decls, nodes, blocks>>

-------------------------------------------------------------------------------
(* The stacks of the walk are vectors: last, pop and starts_with.          *)

Top(stack) == stack[Len(stack)]

Pop(stack) == SubSeq(stack, 1, Len(stack) - 1)

StartsWith(s, prefix) ==
    Len(prefix) <= Len(s) /\ \A n \in DOMAIN prefix : s[n] = prefix[n]

-------------------------------------------------------------------------------
(* Predicates and declarations.                                            *)

\* PathMatcher: a pattern with a trailing slash accepts the path itself and all
\* below it, another one only the paths of its glob.
PathMatches(pattern, p) ==
    IF pattern.subtree THEN StartsWith(p, pattern.prefix) ELSE p \in pattern.glob

\* A specification that names nothing makes no predicate.
Unrestricted(spec) ==
    spec.host = None /\ spec.path = None /\ spec.methods = {} /\ spec.header = None

\* The predicate of a specification.  Of several values of a header get() sees the
\* first.
Accepts(spec, q) ==
    /\ spec.methods # {} => q.method \in spec.methods
    /\ spec.host # None => q.host \in spec.host
    /\ spec.header # None => q.header # <<>> /\ Head(q.header) \in spec.header
    /\ spec.path # None => PathMatches(spec.path, q.path)

\* Without a predicate a rule applies to every request.
Matches(p, q) == p = None \/ \A i \in DOMAIN p : Accepts(p[i], q)

AndPredicates(ps) == IF ps = <<>> THEN None ELSE ps

\* The declaration of a rule of kind k at the current place.  zone and block are
\* history: the body the rule stands in and the match blocks around it.
NewDecl(k) ==
    [kind |-> k, path |-> path, scope |-> AndPredicates(preds), excluded |-> {},
     redis |-> IF redisStack = <<>> THEN None ELSE Top(redisStack),
     label |-> scopeStack, zone |-> phase, block |-> blocks]

\* Mutant: declarations of one path exclude each other.
ShadowsSameScope(j, i) ==
    /\ i.kind \in ExclusiveKinds /\ j.kind = i.kind /\ i # j
    /\ StartsWith(j.path, i.path)

\* j is carved out of i: i's path is a strict prefix of j's.
Shadows(j, i) ==
    /\ i.kind \in ExclusiveKinds /\ j.kind = i.kind
    /\ Len(j.path) > Len(i.path) /\ StartsWith(j.path, i.path)

AlwaysTrue == <<>>

\* What is carved out for d: its scope, or everything.
Carved(d) == IF d.scope = None THEN AlwaysTrue ELSE d.scope

\* resolve_exclusions on one declaration of ds.
Excluded(ds, i) ==
    {Carved(ds[j]) : j \in {j \in DOMAIN ds : Shadows(ds[j], ds[i])}}

Resolved(ds) == [i \in DOMAIN ds |-> [ds[i] EXCEPT !.excluded = Excluded(ds, i)]]

\* effective_predicate: the layer of d sees q.
Fires(d, q) == Matches(d.scope, q) /\ \A p \in d.excluded : ~Matches(p, q)

\* emit: the limiters and the circuit breaker get a Redis store if one is in scope,
\* with keys made of the connection's prefix, the kind and the labels joined by dots,
\* which tells label sequences apart as long as names have no dots in them.
UsesRedis(d) == d.kind \in StoreKinds /\ d.redis # None

StoreOf(d) == <<d.redis, d.kind, d.label>>

-------------------------------------------------------------------------------
(* The walk.                                                               *)

SelfIdx == Top(nextIdx)

Visited == [nextIdx EXCEPT ![Len(nextIdx)] = @ + 1]

Walking == phase \in {"globals", "body"}

\* --redis-url replaces what the file says for the process.
ProcessRedis(cli, file) == IF cli # None THEN cli ELSE file

\* listener_initial_redis: the listener's own Redis, else the process's.
InitialRedis(listener, process) == IF listener # None THEN listener ELSE process

Init ==
    /\ phase = "globals"
    /\ preds = <<>> /\ path = <<>> /\ scopeStack = <<>> /\ counter = 0
    /\ \E listener, file, cli \in Redises \cup {None} :
         LET r == InitialRedis(listener, ProcessRedis(cli, file)) IN
         redisStack = IF r = None THEN <<>> ELSE <<r>>
    /\ calls = <<>> /\ nextIdx = <<0>> /\ decls = <<>> /\ nodes = 0
    /\ blocks = <<>>

\* walk_node on a rule.
Rule(k) ==
    /\ Walking /\ nodes < MaxNodes
    /\ decls' = Append(decls, NewDecl(k))
    /\ nextIdx' = Visited
    /\ nodes' = nodes + 1
    /\ UNCHANGED <<phase, preds, path, scopeStack, counter, redisStack, calls, blocks>>

\* Mutant: numbers of unnamed blocks are not used up.
UsedUpNever(name) == counter

UsedUp(name) == IF name = None THEN counter + 1 ELSE counter

\* walk_match up to its walk_body: spec, name and r are the block's specification,
\* name and Redis, the last two None if it has none.
EnterMatch(spec, name, r) ==
    /\ Walking /\ nodes < MaxNodes
    /\ preds' = IF Unrestricted(spec) THEN preds ELSE Append(preds, spec)
    /\ scopeStack' = Append(scopeStack, IF name = None THEN counter ELSE name)
    /\ counter' = UsedUp(name)
    /\ redisStack' = IF r = None THEN redisStack ELSE Append(redisStack, r)
    /\ path' = Append(path, SelfIdx)
    /\ calls' = Append(calls, [pushed |-> ~Unrestricted(spec), pushedRedis |-> r # None])
    /\ nextIdx' = Append(Visited, 0)
    /\ nodes' = nodes + 1
    /\ blocks' = Append(blocks, [id |-> nodes, spec |-> spec, name |-> name, redis |-> r])
    /\ UNCHANGED <<phase, decls>>

\* Mutant: a Redis connection stays on the stack after its block.
PoppedRedisNever(call) == redisStack

PoppedRedis(call) == IF call.pushedRedis THEN Pop(redisStack) ELSE redisStack

PoppedPath == Pop(path)

\* walk_match after its walk_body.
LeaveMatch ==
    /\ Walking /\ calls # <<>>
    /\ path' = PoppedPath
    /\ redisStack' = PoppedRedis(Top(calls))
    /\ preds' = IF Top(calls).pushed THEN Pop(preds) ELSE preds
    /\ scopeStack' = Pop(scopeStack)
    /\ calls' = Pop(calls)
    /\ nextIdx' = Pop(nextIdx)
    /\ blocks' = Pop(blocks)
    /\ UNCHANGED <<phase, counter, decls, nodes>>

\* Mutant: the listener's rules are not put below the global ones.
ListenerPathFlat == path

\* walk.path.push(0)
ListenerPath == Append(path, 0)

\* The global body of the file is done; the rules of the command line follow.
EndFile ==
    /\ phase = "globals" /\ calls = <<>>
    /\ phase' = "cli"
    /\ UNCHANGED <<preds, path, scopeStack, counter, redisStack, calls, nextIdx,
                   decls, nodes, blocks>>

\* apply_cli_and_run pushes rules in this order; those not in CliOnce are
\* repeatable flags.
CliOrder ==
    <<"log", "latency", "bandwidth", "rate-limit", "sliding-window", "retry",
      "circuit-breaker", "set-request-header", "remove-request-header",
      "set-response-header", "remove-response-header", "rewrite-path",
      "rewrite-path-regex", "block", "script-file">>

CliOnce == {"log", "latency", "bandwidth", "retry", "circuit-breaker", "block", "script-file"}

Rank(k) == CHOOSE n \in DOMAIN CliOrder : CliOrder[n] = k

\* A flag of kind k may come after the CLI rules pushed so far.
CliNext(k) ==
    \A i \in DOMAIN decls :
        decls[i].zone = "cli" =>
            Rank(decls[i].kind) < Rank(k) \/ (decls[i].kind = k /\ k \notin CliOnce)

\* A rule from the command line, at the end of the global body.
CliRule(k) ==
    /\ phase = "cli" /\ nodes < MaxNodes
    /\ k \in Range(CliOrder) /\ CliNext(k)
    /\ decls' = Append(decls, NewDecl(k))
    /\ nextIdx' = Visited
    /\ nodes' = nodes + 1
    /\ UNCHANGED <<phase, preds, path, scopeStack, counter, redisStack, calls, blocks>>

\* An error leaves through every `?`: no listener starts, and the walk is dropped with
\* what it has collected.
Fail ==
    /\ phase' = "failed"
    /\ preds' = <<>> /\ path' = <<>> /\ scopeStack' = <<>> /\ counter' = 0
    /\ redisStack' = <<>> /\ calls' = <<>> /\ nextIdx' = <<0>> /\ decls' = <<>> /\ nodes' = 0
    /\ blocks' = <<>>

\* A flag whose value does not parse.
InvalidFlag == phase = "cli" /\ Fail

\* The global body is done.  A routing rule in it fails the configuration.
EndGlobals ==
    /\ phase = "cli"
    /\ IF \E i \in DOMAIN decls : decls[i].kind \in RoutingKinds
       THEN Fail
       ELSE /\ phase' = "body" /\ path' = ListenerPath /\ nextIdx' = <<0>>
            /\ UNCHANGED <<preds, scopeStack, counter, redisStack, calls, decls, nodes, blocks>>

\* The listener's body is done: resolve_exclusions, then a layer per declaration.
EndBody ==
    /\ phase = "body" /\ calls = <<>>
    /\ path' = Pop(path)
    /\ decls' = Resolved(decls)
    /\ phase' = "compiled"
    /\ UNCHANGED <<preds, scopeStack, counter, redisStack, calls, nextIdx, nodes, blocks>>

\* A pattern, method, header, duration, status or Redis URL that does not parse.
Invalid == Walking /\ Fail

Next ==
    \/ \E k \in Kinds : Rule(k) \/ CliRule(k)
    \/ \E spec \in Specs, name \in Names \cup {None}, r \in Redises \cup {None} :
          EnterMatch(spec, name, r)
    \/ LeaveMatch
    \/ EndFile
    \/ InvalidFlag
    \/ EndGlobals
    \/ EndBody
    \/ Invalid

Spec == Init /\ [][Next]_vars

-------------------------------------------------------------------------------
(* Properties.                                                             *)

TypeOK ==
    /\ phase \in {"globals", "cli", "body", "compiled", "failed"}
    /\ Len(blocks) = Len(calls) /\ Len(scopeStack) = Len(calls)
    /\ Len(nextIdx) = Len(calls) + 1
    /\ counter \in 0..MaxNodes /\ nodes \in 0..MaxNodes

\* The rules of the command line are part of the global body.
Body(d) == IF d.zone = "body" THEN "body" ELSE "globals"

\* j stands inside the block that i stands in, directly or not.  A rule of the
\* listener is inside all of the global body, as the comment on walk_listener_body says.
Inside(j, i) ==
    \/ Body(j) = Body(i) /\ Len(j.block) > Len(i.block) /\ StartsWith(j.block, i.block)
    \/ Body(i) = "globals" /\ Body(j) = "body"

\* j is a rule of the listener and i a global rule in a match block, whose path starts
\* with an index of the global body; j's starts with 0, which is such an index.
Collides(j, i) == Body(j) = "body" /\ Body(i) = "globals" /\ i.block # <<>>

Exclusive(i, j) == decls[i].kind = decls[j].kind /\ decls[i].kind \in ExclusiveKinds

\* The rules of i's exclusive kind that have q in their scope.
Rivals(i, q) == {j \in DOMAIN decls : Exclusive(i, j) /\ Matches(decls[j].scope, q)}

\* Innermost wins, and leaves no hole.  A request in the scope of a rule of an exclusive
\* kind meets some layer of that kind.  The rule's own layer lets it pass if there is a
\* rule inside, and only then, never for a sibling or an outer one; all this but
\* between the listener's rules and global rules in a match block (see ListenerWins).
InnermostWins ==
    phase = "compiled" =>
        \A i \in DOMAIN decls, q \in Requests :
            decls[i].kind \in ExclusiveKinds /\ Matches(decls[i].scope, q) =>
                /\ \E j \in Rivals(i, q) : Fires(decls[j], q)
                /\ \A j \in Rivals(i, q) :
                     Inside(decls[j], decls[i]) /\ Fires(decls[i], q) => Collides(decls[j], decls[i])
                /\ ~Fires(decls[i], q) =>
                     \E j \in Rivals(i, q) :
                         Inside(decls[j], decls[i]) \/ Collides(decls[i], decls[j])

\* What the documentation says of global rules: where a listener has a rule of the same
\* exclusive kind, that one shadows the global one.
ListenerWins ==
    phase = "compiled" =>
        \A i \in DOMAIN decls, q \in Requests :
            Body(decls[i]) = "globals" /\ Fires(decls[i], q) =>
                \A j \in Rivals(i, q) : Body(decls[j]) = "globals"

Enclosing(d) == {d.block[n] : n \in DOMAIN d.block}

\* The stacks are popped as they were pushed: a rule's predicate is the conjunction
\* of those of exactly the blocks around it, and its Redis connection is that of
\* the innermost of them that names one.
ScopesAreExact ==
    \A i \in DOMAIN decls :
        LET d == decls[i]
            own == {n \in DOMAIN d.block : d.block[n].redis # None}
        IN  /\ \A q \in Requests :
                 Matches(d.scope, q) <=> \A around \in Enclosing(d) : Accepts(around.spec, q)
            /\ \A n \in own :
                 (\A m \in own : m <= n) => d.redis = d.block[n].redis
            /\ own = {} =>
                 \A j \in DOMAIN decls : decls[j].block = <<>> => decls[j].redis = d.redis

\* Two rules in different unnamed blocks of a listener never share a store in
\* Redis, whatever names the blocks around them have.
UnnamedScopesAreUnique ==
    \A i, j \in DOMAIN decls :
        LET mine == decls[i].block  yours == decls[j].block IN
        /\ mine # <<>> /\ yours # <<>> /\ Top(mine).name = None /\ Top(yours).name = None
        /\ UsesRedis(decls[i]) /\ UsesRedis(decls[j])
        /\ StoreOf(decls[i]) = StoreOf(decls[j])
        => mine = yours

===============================================================================
