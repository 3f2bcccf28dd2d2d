----------------------------- MODULE ConfigProofs -----------------------------
(***************************************************************************)
(* Proofs about the walk of Config, for rule trees of any depth and size   *)
(* and any match specifications, names and Redis connections: what a rule  *)
(* is collected with.  The walk is the first part of the behaviours of     *)
(* Pipeline, and the theorems are stated of those: what holds when the     *)
(* walk ends also holds while requests are served.                         *)
(*                                                                         *)
(* The state of the walk is a set of stacks, so the inductive invariant    *)
(* says, block by block, what every open call has pushed, and the same of  *)
(* what every rule was collected with.                                     *)
(***************************************************************************)
EXTENDS Pipeline, TLAPS

Block == [id : Nat, spec : Specs, name : Names \cup {None}, redis : Redises \cup {None}]

Call == [pushed : BOOLEAN, pushedRedis : BOOLEAN]

Label == Names \cup Nat

Decl ==
    [kind : Kinds, path : Seq(Nat), scope : Seq(Specs) \cup {None}, excluded : SUBSET Seq(Specs),
     redis : Redises \cup {None}, label : Seq(Label), zone : {"globals", "cli", "body"},
     block : Seq(Block)]

Compiling == {"globals", "cli", "body"}

\* The stacks of the walk and what it has collected.
WalkTypes ==
    /\ phase \in Compiling \cup {"compiled", "failed", "serving"}
    /\ preds \in Seq(Specs) /\ path \in Seq(Nat) /\ scopeStack \in Seq(Label)
    /\ redisStack \in Seq(Redises) /\ calls \in Seq(Call) /\ nextIdx \in Seq(Nat)
    /\ blocks \in Seq(Block) /\ decls \in Seq(Decl)
    /\ counter \in Nat /\ nodes \in Nat

\* They grow and shrink together, and a call remembers what it has pushed.
WalkShape ==
    /\ Len(calls) = Len(blocks) /\ Len(scopeStack) = Len(blocks)
    /\ Len(nextIdx) = Len(blocks) + 1
    /\ phase \in {"globals", "cli"} => Len(path) = Len(blocks)
    /\ phase = "body" => Len(path) = Len(blocks) + 1
    /\ phase = "cli" => blocks = <<>>
    /\ \A n \in 1..Len(blocks) :
         /\ calls[n].pushed <=> ~Unrestricted(blocks[n].spec)
         /\ calls[n].pushedRedis <=> (blocks[n].redis # None)

-------------------------------------------------------------------------------
(* Stacks.                                                                 *)

\* The first n elements are the same.
Agree(s, t, n) == \A m \in 1..n : s[m] = t[m]

\* t is s with e on top.
Pushed(t, s, e) ==
    /\ Len(s) \in Nat /\ Len(t) = Len(s) + 1 /\ Agree(t, s, Len(s)) /\ t[Len(s) + 1] = e

\* What pushing does.
LEMMA Pushes ==
    ASSUME NEW S, NEW s \in Seq(S), NEW e \in S
    PROVE  Append(s, e) \in Seq(S) /\ Pushed(Append(s, e), s, e)
  BY DEF Agree, Pushed

\* What popping does.
LEMMA Pops ==
    ASSUME NEW S, NEW s \in Seq(S), s # <<>>, NEW t, t = Pop(s)
    PROVE  /\ t \in Seq(S) /\ Len(s) \in Nat /\ Len(s) > 0
           /\ Len(t) = Len(s) - 1 /\ Agree(t, s, Len(s) - 1)
  <1>1. Len(s) \in Nat /\ Len(s) > 0
    OBVIOUS
  <1>2. t \in Seq(S)
    BY <1>1 DEF Pop
  <1>3. t = [n \in 1..(Len(s) - 1) |-> s[n]]
    BY <1>1 DEF Pop
  <1>4. Len(t) \in Nat /\ DOMAIN t = 1..(Len(s) - 1) /\ DOMAIN t = 1..Len(t)
    BY <1>2, <1>3
  <1>5. Len(t) = Len(s) - 1
    BY <1>1, <1>4
  <1>6. Agree(t, s, Len(s) - 1)
    BY <1>3, Zenon DEF Agree
  <1> QED BY <1>1, <1>2, <1>5, <1>6, Zenon

\* Popping an empty stack, which no walk does, leaves it.
LEMMA PopType ==
    ASSUME NEW S, NEW s \in Seq(S)
    PROVE  Pop(s) \in Seq(S)
  BY DEF Pop

\* The top of a stack is one of its elements.
LEMMA TopType ==
    ASSUME NEW S, NEW s \in Seq(S), s # <<>>
    PROVE  Top(s) \in S /\ Len(s) \in Nat \ {0}
  BY DEF Top

\* The elements of a sequence.
LEMMA ElementType ==
    ASSUME NEW S, NEW s \in Seq(S), NEW n \in 1..Len(s)
    PROVE  s[n] \in S
  OBVIOUS

\* Equal elements, equal sequences.
LEMMA SameSeq ==
    ASSUME NEW S, NEW s \in Seq(S), NEW t \in Seq(S), Len(s) = Len(t), Agree(s, t, Len(t))
    PROVE  s = t
  BY DEF Agree

\* Sequences of one length are empty together.
LEMMA SameLength ==
    ASSUME NEW S, NEW s \in Seq(S), NEW T, NEW t \in Seq(T), Len(s) = Len(t)
    PROVE  s = <<>> <=> t = <<>>
  OBVIOUS

-------------------------------------------------------------------------------
(* Types.                                                                  *)

\* A new declaration, and the parts of it.
LEMMA NewDeclType ==
    ASSUME WalkTypes, NEW k \in Kinds, phase \in Compiling
    PROVE  NewDecl(k) \in Decl
  <1>1. AndPredicates(preds) \in Seq(Specs) \cup {None}
    BY Zenon DEF WalkTypes, AndPredicates
  <1>2. (IF redisStack = <<>> THEN None ELSE Top(redisStack)) \in Redises \cup {None}
    BY TopType, Zenon DEF WalkTypes
  <1>3. {} \in SUBSET Seq(Specs)
    BY Zenon
  <1> HIDE DEF AndPredicates
  <1> QED BY <1>1, <1>2, <1>3 DEF WalkTypes, NewDecl, Decl, Compiling

\* enumerate() goes on in the innermost open body.
LEMMA VisitedType ==
    ASSUME WalkTypes, WalkShape
    PROVE  /\ Visited \in Seq(Nat) /\ Len(Visited) = Len(nextIdx)
           /\ SelfIdx \in Nat /\ SelfIdx = nextIdx[Len(blocks) + 1]
           /\ \A n \in 1..Len(blocks) : Visited[n] = nextIdx[n]
           /\ Visited[Len(blocks) + 1] = SelfIdx + 1
           /\ Len(blocks) \in Nat
  <1>1. /\ nextIdx \in Seq(Nat) /\ Len(nextIdx) = Len(blocks) + 1 /\ Len(blocks) \in Nat
        /\ blocks \in Seq(Block)
    BY DEF WalkTypes, WalkShape
  <1> QED BY <1>1 DEF Visited, SelfIdx, Top

-------------------------------------------------------------------------------
(* The steps, as the invariants see them.                                  *)

\* Nothing is open and nothing collected: at first, and after an error.
Blank ==
    /\ phase \in {"globals", "failed"}
    /\ preds = <<>> /\ path = <<>> /\ scopeStack = <<>> /\ calls = <<>> /\ nextIdx = <<0>>
    /\ blocks = <<>> /\ decls = <<>> /\ counter = 0 /\ nodes = 0
    /\ redisStack = <<>> \/ \E r \in Redises : redisStack = <<r>>

\* A rule of the file or of the command line.
Adds(k) ==
    /\ phase \in Compiling
    /\ decls' = Append(decls, NewDecl(k))
    /\ nextIdx' = Visited
    /\ nodes' = nodes + 1
    /\ UNCHANGED <<phase, preds, path, scopeStack, counter, redisStack, calls, blocks>>

\* A body of the file is done: nothing is open.
Proceeds ==
    /\ calls = <<>>
    /\ \/ phase = "globals" /\ phase' = "cli" /\ UNCHANGED <<path, nextIdx>>
       \/ phase = "cli" /\ phase' = "body" /\ path' = Append(path, 0) /\ nextIdx' = <<0>>
    /\ UNCHANGED <<preds, scopeStack, counter, redisStack, calls, decls, nodes, blocks>>

Starts ==
    /\ phase = "compiled" /\ phase' = "serving"
    /\ UNCHANGED <<preds, path, scopeStack, counter, redisStack, calls, nextIdx, decls, nodes,
                   blocks>>

\* The walk begins with nothing.
LEMMA InitBlank == Init => Blank
  <1> SUFFICES ASSUME Init PROVE Blank
    BY Zenon
  <1>1. PICK listener, file, cli \in Redises \cup {None} :
          LET r == InitialRedis(listener, ProcessRedis(cli, file)) IN
          redisStack = IF r = None THEN <<>> ELSE <<r>>
    BY Zenon DEF Init
  <1>2. InitialRedis(listener, ProcessRedis(cli, file)) \in Redises \cup {None}
    BY Zenon DEF InitialRedis, ProcessRedis
  <1> QED BY <1>1, <1>2, Zenon DEF Init, Blank

\* Every step is one of these.
LEMMA StepCases ==
    ASSUME WalkTypes, WalkShape, [PipelineNext]_<<vars, pipeVars>>
    PROVE  \/ UNCHANGED vars
           \/ \E k \in Kinds : Adds(k)
           \/ \E spec \in Specs, name \in Names \cup {None}, r \in Redises \cup {None} :
                EnterMatch(spec, name, r)
           \/ LeaveMatch
           \/ Proceeds
           \/ Blank'
           \/ EndBody
           \/ Starts
  <1>1. CASE UNCHANGED <<vars, pipeVars>>
    BY <1>1, Zenon
  <1>2. CASE Start
    BY <1>2, Zenon DEF Start, Starts
  <1>3. CASE \/ Arrive \/ Again \/ \E q \in Requests : Serve(q)
             \/ \E i \in DOMAIN decls : Meet(i)
    BY <1>3, Zenon DEF Arrive, Again, Serve, Meet
  <1>4. ASSUME Fail PROVE Blank'
    BY <1>4, Zenon DEF Fail, Blank
  <1>5. ASSUME NEW k \in Kinds, Rule(k) \/ CliRule(k) PROVE Adds(k)
    BY <1>5, Zenon DEF Rule, CliRule, Adds, Walking, Compiling
  <1>6. phase = "cli" => calls = <<>>
    BY SameLength, Zenon DEF WalkShape, WalkTypes
  <1>7. CASE EndFile \/ EndGlobals
    BY <1>4, <1>6, <1>7, Zenon DEF EndFile, EndGlobals, Proceeds, ListenerPath
  <1>8. CASE InvalidFlag \/ Invalid
    BY <1>4, <1>8, Zenon DEF InvalidFlag, Invalid
  <1> QED BY <1>1, <1>2, <1>3, <1>5, <1>7, <1>8, Zenon DEF PipelineNext, Compile, Next

\* Types and shape of the empty walk.
LEMMA BlankShape == Blank => WalkTypes /\ WalkShape
  <1> SUFFICES ASSUME Blank PROVE WalkTypes /\ WalkShape
    BY Zenon
  <1>1. /\ \A S : <<>> \in Seq(S)
        /\ <<0>> \in Seq(Nat) /\ Len(<<>>) = 0 /\ Len(<<0>>) = 1
        /\ \A r \in Redises : <<r>> \in Seq(Redises)
    OBVIOUS
  <1>2. WalkTypes
    BY <1>1 DEF Blank, WalkTypes, Compiling
  <1>3. WalkShape
    BY <1>1 DEF Blank, WalkShape
  <1> QED BY <1>2, <1>3, Zenon

\* What a declaration was collected with.
Collected(d, e) ==
    /\ d.kind = e.kind /\ d.path = e.path /\ d.scope = e.scope /\ d.redis = e.redis
    /\ d.label = e.label /\ d.zone = e.zone /\ d.block = e.block

\* resolve_exclusions changes excluded_preds only.
LEMMA ResolvedShape ==
    ASSUME WalkTypes
    PROVE  /\ Resolved(decls) \in Seq(Decl) /\ DOMAIN Resolved(decls) = DOMAIN decls
           /\ \A i \in DOMAIN decls :
                /\ Collected(Resolved(decls)[i], decls[i])
                /\ Resolved(decls)[i].excluded = Excluded(decls, i)
  <1>1. decls \in Seq(Decl) /\ DOMAIN decls = 1..Len(decls) /\ Len(decls) \in Nat
    BY DEF WalkTypes
  <1>2. ASSUME NEW i \in DOMAIN decls PROVE decls[i] \in Decl
    BY <1>1, <1>2
  <1>3. ASSUME NEW d \in Decl PROVE Carved(d) \in Seq(Specs)
    <2>1. d.scope \in Seq(Specs) \cup {None} /\ <<>> \in Seq(Specs)
      BY <1>3 DEF Decl
    <2> QED BY <2>1, Zenon DEF Carved, AlwaysTrue
  <1>4. ASSUME NEW i \in DOMAIN decls PROVE Excluded(decls, i) \in SUBSET Seq(Specs)
    BY <1>2, <1>3, <1>4, Zenon DEF Excluded
  <1>5. ASSUME NEW d \in Decl, NEW E \in SUBSET Seq(Specs), NEW e, e = [d EXCEPT !.excluded = E]
        PROVE  e \in Decl /\ Collected(e, d) /\ e.excluded = E
    BY <1>5 DEF Decl, Collected
  <1> DEFINE R == Resolved(decls)
  <1>6. /\ DOMAIN R = DOMAIN decls
        /\ \A i \in DOMAIN decls : R[i] = [decls[i] EXCEPT !.excluded = Excluded(decls, i)]
        /\ R = [i \in DOMAIN decls |-> R[i]]
    BY Zenon DEF Resolved
  <1> HIDE DEF R
  <1>7. \A i \in DOMAIN decls :
          R[i] \in Decl /\ Collected(R[i], decls[i]) /\ R[i].excluded = Excluded(decls, i)
    BY <1>2, <1>4, <1>5, <1>6, Zenon
  <1>8. R \in Seq(Decl)
    BY <1>1, <1>6, <1>7
  <1> QED BY <1>6, <1>7, <1>8, Zenon DEF R

\* Entering a block.
LEMMA EnterShape ==
    ASSUME WalkTypes, WalkShape, NEW spec \in Specs, NEW name \in Names \cup {None},
           NEW r \in Redises \cup {None}, EnterMatch(spec, name, r)
    PROVE  /\ WalkTypes' /\ WalkShape'
           /\ Len(blocks') = Len(blocks) + 1
           /\ Agree(blocks', blocks, Len(blocks)) /\ Agree(scopeStack', scopeStack, Len(blocks))
           /\ blocks'[Len(blocks) + 1].id = nodes /\ blocks'[Len(blocks) + 1].spec = spec
           /\ blocks'[Len(blocks) + 1].name = name /\ blocks'[Len(blocks) + 1].redis = r
           /\ scopeStack'[Len(blocks) + 1] = IF name = None THEN counter ELSE name
  <1> DEFINE b == [id |-> nodes, spec |-> spec, name |-> name, redis |-> r]
             c == [pushed |-> ~Unrestricted(spec), pushedRedis |-> r # None]
             l == IF name = None THEN counter ELSE name
  <1>1. /\ phase \in {"globals", "body"} /\ phase' = phase /\ decls' = decls
        /\ preds' = IF Unrestricted(spec) THEN preds ELSE Append(preds, spec)
        /\ scopeStack' = Append(scopeStack, l)
        /\ counter' = UsedUp(name)
        /\ redisStack' = IF r = None THEN redisStack ELSE Append(redisStack, r)
        /\ path' = Append(path, SelfIdx)
        /\ calls' = Append(calls, c)
        /\ nextIdx' = Append(Visited, 0)
        /\ nodes' = nodes + 1
        /\ blocks' = Append(blocks, b)
    BY Zenon DEF EnterMatch, Walking
  <1>2. b \in Block /\ b.id = nodes /\ b.spec = spec /\ b.name = name /\ b.redis = r
    BY DEF WalkTypes, Block
  <1>3. c \in Call /\ (c.pushed <=> ~Unrestricted(spec)) /\ (c.pushedRedis <=> (r # None))
    <2>1. Unrestricted(spec) \in BOOLEAN /\ (r # None) \in BOOLEAN
      BY Zenon DEF Unrestricted
    <2> HIDE DEF Unrestricted
    <2> QED BY <2>1 DEF Call
  <1>4. l \in Label
    BY Zenon DEF WalkTypes, Label
  <1> HIDE DEF b, c, l
  <1>5. counter' \in Nat /\ nodes' \in Nat
    BY <1>1 DEF WalkTypes, UsedUp
  <1>6. /\ preds' \in Seq(Specs) /\ redisStack' \in Seq(Redises)
    BY <1>1, Pushes, Zenon DEF WalkTypes
  <1>7. /\ blocks' \in Seq(Block) /\ Len(blocks) \in Nat /\ Len(blocks') = Len(blocks) + 1
        /\ Agree(blocks', blocks, Len(blocks))
        /\ blocks'[Len(blocks) + 1] = b
    <2>1. blocks \in Seq(Block) /\ b \in Block /\ blocks' = Append(blocks, b)
      BY <1>1, <1>2, Zenon DEF WalkTypes
    <2> QED BY <2>1, Pushes, Zenon DEF Pushed
  <1>8. /\ calls' \in Seq(Call) /\ Len(calls') = Len(calls) + 1
        /\ Agree(calls', calls, Len(calls))
        /\ calls'[Len(calls) + 1] = c
    <2>1. calls \in Seq(Call) /\ c \in Call /\ calls' = Append(calls, c)
      BY <1>1, <1>3, Zenon DEF WalkTypes
    <2> QED BY <2>1, Pushes, Zenon DEF Pushed
  <1>9. /\ scopeStack' \in Seq(Label) /\ Len(scopeStack') = Len(scopeStack) + 1
        /\ Agree(scopeStack', scopeStack, Len(scopeStack))
        /\ scopeStack'[Len(scopeStack) + 1] = l
    <2>1. scopeStack \in Seq(Label) /\ l \in Label /\ scopeStack' = Append(scopeStack, l)
      BY <1>1, <1>4, Zenon DEF WalkTypes
    <2> QED BY <2>1, Pushes, Zenon DEF Pushed
  <1>10. path' \in Seq(Nat) /\ Len(path') = Len(path) + 1
    <2>1. path \in Seq(Nat) /\ SelfIdx \in Nat /\ path' = Append(path, SelfIdx)
      BY <1>1, VisitedType, Zenon DEF WalkTypes
    <2> QED BY <2>1, Pushes, Zenon DEF Pushed
  <1>11. nextIdx' \in Seq(Nat) /\ Len(nextIdx') = Len(nextIdx) + 1
    <2>1. Visited \in Seq(Nat) /\ Len(Visited) = Len(nextIdx) /\ 0 \in Nat
      BY VisitedType
    <2>2. nextIdx' = Append(Visited, 0)
      BY <1>1, Zenon
    <2>3. nextIdx' \in Seq(Nat) /\ Len(nextIdx') = Len(Visited) + 1
      BY <2>1, <2>2, Pushes, Zenon DEF Pushed
    <2> QED BY <2>1, <2>3, Zenon
  <1>12. WalkTypes'
    BY <1>1, <1>5, <1>6, <1>7, <1>8, <1>9, <1>10, <1>11, Zenon DEF WalkTypes
  <1>13. /\ Len(calls) = Len(blocks) /\ Len(scopeStack) = Len(blocks)
         /\ Len(nextIdx) = Len(blocks) + 1
         /\ phase = "globals" => Len(path) = Len(blocks)
         /\ phase = "body" => Len(path) = Len(blocks) + 1
    BY Zenon DEF WalkShape
  <1>14. /\ Len(calls') = Len(blocks') /\ Len(scopeStack') = Len(blocks')
         /\ Len(nextIdx') = Len(blocks') + 1
         /\ phase' = "globals" => Len(path') = Len(blocks')
         /\ phase' = "body" => Len(path') = Len(blocks') + 1
    BY <1>1, <1>7, <1>8, <1>9, <1>10, <1>11, <1>13, Zenon
  <1>15. ASSUME NEW n \in 1..Len(blocks')
         PROVE  /\ calls'[n].pushed <=> ~Unrestricted(blocks'[n].spec)
                /\ calls'[n].pushedRedis <=> (blocks'[n].redis # None)
    <2>1. n \in 1..Len(blocks) \/ n = Len(blocks) + 1
      BY <1>7, <1>15
    <2>2. CASE n \in 1..Len(blocks)
      BY <1>7, <1>8, <1>13, <2>2, Zenon DEF WalkShape, Agree
    <2>3. CASE n = Len(blocks) + 1
      <3>1. calls'[n] = c /\ blocks'[n] = b
        BY <1>7, <1>8, <1>13, <2>3, Zenon
      <3> QED BY <1>2, <1>3, <3>1, Zenon
    <2> QED BY <2>1, <2>2, <2>3, Zenon
  <1>16. WalkShape'
    BY <1>1, <1>14, <1>15, Zenon DEF WalkShape
  <1> QED BY <1>2, <1>7, <1>9, <1>12, <1>13, <1>16, Zenon DEF l

\* Leaving a block.
LEMMA LeaveShape ==
    ASSUME WalkTypes, WalkShape, LeaveMatch
    PROVE  /\ WalkTypes' /\ WalkShape'
           /\ Len(blocks) \in Nat /\ Len(blocks) > 0 /\ Len(blocks') = Len(blocks) - 1
           /\ Agree(blocks', blocks, Len(blocks) - 1)
           /\ Agree(scopeStack', scopeStack, Len(blocks) - 1)
           /\ preds' = IF Unrestricted(blocks[Len(blocks)].spec) THEN preds ELSE Pop(preds)
           /\ redisStack' = IF blocks[Len(blocks)].redis = None THEN redisStack ELSE Pop(redisStack)
  <1>1. /\ phase \in {"globals", "body"} /\ phase' = phase /\ decls' = decls /\ calls # <<>>
        /\ path' = Pop(path)
        /\ redisStack' = IF Top(calls).pushedRedis THEN Pop(redisStack) ELSE redisStack
        /\ preds' = IF Top(calls).pushed THEN Pop(preds) ELSE preds
        /\ scopeStack' = Pop(scopeStack)
        /\ calls' = Pop(calls)
        /\ nextIdx' = Pop(nextIdx)
        /\ blocks' = Pop(blocks)
        /\ UNCHANGED <<counter, nodes>>
    BY Zenon DEF LeaveMatch, Walking, PoppedPath, PoppedRedis
  <1>2. /\ calls \in Seq(Call) /\ blocks \in Seq(Block) /\ scopeStack \in Seq(Label)
        /\ path \in Seq(Nat) /\ nextIdx \in Seq(Nat) /\ Len(calls) \in Nat /\ Len(calls) > 0
        /\ Len(calls) = Len(blocks) /\ Len(scopeStack) = Len(blocks)
        /\ Len(nextIdx) = Len(blocks) + 1
        /\ phase = "globals" => Len(path) = Len(blocks)
        /\ phase = "body" => Len(path) = Len(blocks) + 1
    BY <1>1 DEF WalkTypes, WalkShape
  <1>3. calls # <<>> /\ blocks # <<>> /\ scopeStack # <<>> /\ path # <<>> /\ nextIdx # <<>>
    BY <1>1, <1>2
  <1>4. /\ calls' \in Seq(Call) /\ Len(calls') = Len(calls) - 1
        /\ Agree(calls', calls, Len(calls) - 1)
    BY <1>1, <1>2, <1>3, Pops, Zenon
  <1>5. /\ blocks' \in Seq(Block) /\ Len(blocks') = Len(blocks) - 1
        /\ Agree(blocks', blocks, Len(blocks) - 1)
    BY <1>1, <1>2, <1>3, Pops, Zenon
  <1>6. /\ scopeStack' \in Seq(Label) /\ Len(scopeStack') = Len(scopeStack) - 1
        /\ Agree(scopeStack', scopeStack, Len(scopeStack) - 1)
    BY <1>1, <1>2, <1>3, Pops, Zenon
  <1>7. path' \in Seq(Nat) /\ Len(path') = Len(path) - 1
    BY <1>1, <1>2, <1>3, Pops, Zenon
  <1>8. nextIdx' \in Seq(Nat) /\ Len(nextIdx') = Len(nextIdx) - 1
    BY <1>1, <1>2, <1>3, Pops, Zenon
  <1>9. preds' \in Seq(Specs) /\ redisStack' \in Seq(Redises)
    BY <1>1, PopType, Zenon DEF WalkTypes
  <1>10. WalkTypes'
    BY <1>1, <1>4, <1>5, <1>6, <1>7, <1>8, <1>9, Zenon DEF WalkTypes
  <1>11. /\ Len(calls') = Len(blocks') /\ Len(scopeStack') = Len(blocks')
         /\ Len(nextIdx') = Len(blocks') + 1
         /\ phase' = "globals" => Len(path') = Len(blocks')
         /\ phase' = "body" => Len(path') = Len(blocks') + 1
         /\ Len(blocks) \in 1..Len(blocks)
         /\ \A n \in 1..Len(blocks') : n \in 1..Len(blocks)
    <2>1. Len(blocks) \in Nat /\ Len(path) \in Nat /\ Len(blocks) > 0
      BY <1>2
    <2>2. phase' = phase /\ Len(blocks') = Len(blocks) - 1
      BY <1>1, <1>5, Zenon
    <2>3. Len(calls') = Len(blocks') /\ Len(scopeStack') = Len(blocks')
      BY <1>2, <1>4, <1>6, <2>2, Zenon
    <2>4. Len(nextIdx') = Len(blocks') + 1
      BY <1>2, <1>8, <2>1, <2>2
    <2>5. /\ phase' = "globals" => Len(path') = Len(blocks')
          /\ phase' = "body" => Len(path') = Len(blocks') + 1
      BY <1>2, <1>7, <2>1, <2>2
    <2> QED BY <2>1, <2>2, <2>3, <2>4, <2>5
  <1>12. WalkShape'
    <2>1. ASSUME NEW n \in 1..Len(blocks')
          PROVE  /\ calls'[n].pushed <=> ~Unrestricted(blocks'[n].spec)
                 /\ calls'[n].pushedRedis <=> (blocks'[n].redis # None)
      <3>1. calls'[n] = calls[n] /\ blocks'[n] = blocks[n]
        BY <1>2, <1>4, <1>5, <2>1, Zenon DEF Agree
      <3> QED BY <1>11, <2>1, <3>1, Zenon DEF WalkShape
    <2> QED BY <1>1, <1>11, <2>1, Zenon DEF WalkShape
  <1>13. /\ Top(calls).pushed <=> ~Unrestricted(blocks[Len(blocks)].spec)
         /\ Top(calls).pushedRedis <=> (blocks[Len(blocks)].redis # None)
    BY <1>2, <1>11, Zenon DEF WalkShape, Top
  <1>14. /\ preds' = IF Unrestricted(blocks[Len(blocks)].spec) THEN preds ELSE Pop(preds)
         /\ redisStack' = IF blocks[Len(blocks)].redis = None THEN redisStack ELSE Pop(redisStack)
    BY <1>1, <1>13, Zenon
  <1> QED BY <1>2, <1>5, <1>6, <1>10, <1>12, <1>14, Zenon

\* A rule.
LEMMA AddsShape ==
    ASSUME WalkTypes, WalkShape, NEW k \in Kinds, Adds(k)
    PROVE  /\ WalkTypes' /\ WalkShape'
           /\ NewDecl(k) \in Decl
           /\ Len(decls) \in Nat /\ DOMAIN decls = 1..Len(decls)
           /\ DOMAIN decls' = DOMAIN decls \cup {Len(decls) + 1}
           /\ \A i \in DOMAIN decls : decls'[i] = decls[i]
           /\ decls'[Len(decls) + 1] = NewDecl(k)
  <1>1. NewDecl(k) \in Decl
    BY NewDeclType, Zenon DEF Adds
  <1>2. decls' \in Seq(Decl) /\ Pushed(decls', decls, NewDecl(k))
    BY <1>1, Pushes, Zenon DEF WalkTypes, Adds
  <1>3. nextIdx' \in Seq(Nat) /\ Len(nextIdx') = Len(nextIdx)
    BY VisitedType, Zenon DEF Adds
  <1>4. nodes' \in Nat
    BY DEF WalkTypes, Adds
  <1>5. WalkTypes'
    BY <1>2, <1>3, <1>4, Zenon DEF WalkTypes, Adds
  <1>6. WalkShape'
    BY <1>3, Zenon DEF WalkShape, Adds
  <1>7. /\ Len(decls) \in Nat /\ DOMAIN decls = 1..Len(decls)
        /\ DOMAIN decls' = DOMAIN decls \cup {Len(decls) + 1}
        /\ \A i \in DOMAIN decls : decls'[i] = decls[i]
        /\ decls'[Len(decls) + 1] = NewDecl(k)
    <2>1. decls \in Seq(Decl)
      BY Zenon DEF WalkTypes
    <2> HIDE DEF NewDecl
    <2> QED BY <1>2, <2>1 DEF Pushed, Agree
  <1> QED BY <1>1, <1>5, <1>6, <1>7, Zenon

\* The next body.
LEMMA ProceedsShape ==
    ASSUME WalkTypes, WalkShape, Proceeds
    PROVE  /\ WalkTypes' /\ WalkShape' /\ blocks = <<>>
           /\ phase' = "body" => Pushed(path', <<>>, 0)
  <1>1. blocks = <<>> /\ Len(blocks) = 0
    BY SameLength DEF Proceeds, WalkTypes, WalkShape
  <1>2. CASE phase = "globals" /\ phase' = "cli" /\ UNCHANGED <<path, nextIdx>>
    BY <1>1, <1>2 DEF Proceeds, WalkTypes, WalkShape, Compiling
  <1>3. CASE phase = "cli" /\ phase' = "body" /\ path' = Append(path, 0) /\ nextIdx' = <<0>>
    <2>1. path = <<>>
      BY <1>1, <1>3 DEF WalkTypes, WalkShape
    <2>2. path' \in Seq(Nat) /\ Pushed(path', <<>>, 0) /\ Len(path') = 1
      BY <1>3, <2>1 DEF Pushed, Agree
    <2>3. nextIdx' \in Seq(Nat) /\ Len(nextIdx') = 1
      BY <1>3
    <2>4. WalkTypes'
      BY <1>3, <2>2, <2>3, Zenon DEF Proceeds, WalkTypes, Compiling
    <2>5. WalkShape'
      BY <1>1, <1>3, <2>2, <2>3 DEF Proceeds, WalkShape
    <2> QED BY <1>1, <2>2, <2>4, <2>5, Zenon
  <1> QED BY <1>2, <1>3, Zenon DEF Proceeds

\* The end of the listener's body.
LEMMA EndShape ==
    ASSUME WalkTypes, WalkShape, EndBody
    PROVE  WalkTypes' /\ WalkShape'
  <1>1. decls' \in Seq(Decl) /\ path' \in Seq(Nat)
    BY ResolvedShape, PopType, Zenon DEF EndBody, WalkTypes
  <1>2. phase' = "compiled"
    BY Zenon DEF EndBody
  <1>3. WalkTypes'
    BY <1>1, <1>2, Zenon DEF EndBody, WalkTypes
  <1>4. WalkShape'
    BY <1>2, Zenon DEF EndBody, WalkShape
  <1> QED BY <1>3, <1>4, Zenon

\* Every step keeps types and shape.
LEMMA ShapeStep ==
    ASSUME WalkTypes, WalkShape, [PipelineNext]_<<vars, pipeVars>>
    PROVE  WalkTypes' /\ WalkShape'
  <1>1. CASE UNCHANGED vars
    BY <1>1, Zenon DEF vars, WalkTypes, WalkShape
  <1>2. CASE Starts
    BY <1>2, Zenon DEF Starts, WalkTypes, WalkShape
  <1>3. CASE Blank'
    BY <1>3, BlankShape, PTL
  <1> QED BY <1>1, <1>2, <1>3, StepCases, AddsShape, EnterShape, LeaveShape, ProceedsShape,
             EndShape, Zenon

-------------------------------------------------------------------------------
(* Numbers of unnamed blocks.                                              *)

\* A number that has been given out.
Given(l, c) == l \in Nat /\ l < c

InUnnamed(d) == d.block # <<>> /\ Top(d.block).name = None

\* d stands in the block open at depth n.
At(d, bs, n) == Len(d.block) = n /\ Agree(d.block, bs, n)

\* An open unnamed block has a number of its own, and the declarations in unnamed
\* blocks of that number are the ones of that block.
Numbered(bs, ls, c) ==
    /\ \A n \in 1..Len(bs) : bs[n].name = None => Given(ls[n], c)
    /\ \A m, n \in 1..Len(bs) : bs[m].name = None /\ bs[n].name = None /\ ls[m] = ls[n] => m = n

Labelled(d, bs, ls, c) ==
    InUnnamed(d) =>
        /\ Given(Top(d.label), c)
        /\ \A n \in 1..Len(bs) : bs[n].name = None /\ ls[n] = Top(d.label) => At(d, bs, n)

Unique(d, e) ==
    InUnnamed(d) /\ InUnnamed(e) /\ Top(d.label) = Top(e.label) => d.block = e.block

LabelInv ==
    /\ Numbered(blocks, scopeStack, counter)
    /\ \A i \in DOMAIN decls : Labelled(decls[i], blocks, scopeStack, counter)
    /\ \A i, j \in DOMAIN decls : Unique(decls[i], decls[j])

\* A rule is labelled with the numbers and names of the open blocks.
LEMMA LabelAdds ==
    ASSUME WalkTypes, WalkShape, LabelInv, NEW k \in Kinds, Adds(k)
    PROVE  LabelInv'
  <1> DEFINE e == NewDecl(k)
             N == Len(decls) + 1
  <1>1. /\ e.block = blocks /\ e.label = scopeStack
        /\ UNCHANGED <<blocks, scopeStack, counter>>
    BY DEF NewDecl, Adds
  <1>2. /\ \A i \in DOMAIN decls : decls'[i] = decls[i]
        /\ decls'[N] = e /\ DOMAIN decls' = DOMAIN decls \cup {N}
    BY AddsShape, Zenon
  <1> HIDE DEF e, N
  <1>3. ASSUME InUnnamed(e)
        PROVE  /\ Len(blocks) \in 1..Len(blocks) /\ blocks[Len(blocks)].name = None
               /\ Top(e.label) = scopeStack[Len(blocks)]
    <2>1. Len(blocks) \in 1..Len(blocks)
      <3>1. blocks # <<>> /\ blocks \in Seq(Block)
        BY <1>1, <1>3, Zenon DEF InUnnamed, WalkTypes
      <3> QED BY <3>1
    <2> QED BY <1>1, <1>3, <2>1, Zenon DEF InUnnamed, Top, WalkShape
  <1>4. Labelled(e, blocks, scopeStack, counter)
    <2>1. Agree(blocks, blocks, Len(blocks))
      BY Zenon DEF Agree
    <2> QED BY <1>1, <1>3, <2>1, Zenon DEF LabelInv, Labelled, Numbered, At
  <1>5. ASSUME NEW i \in DOMAIN decls
        PROVE  Unique(e, decls[i]) /\ Unique(decls[i], e)
    <2> SUFFICES ASSUME InUnnamed(e), InUnnamed(decls[i]), Top(e.label) = Top(decls[i].label)
                 PROVE  decls[i].block = e.block
      BY Zenon DEF Unique
    <2>1. At(decls[i], blocks, Len(blocks))
      BY <1>3, <1>5, Zenon DEF LabelInv, Labelled
    <2>2. decls[i].block \in Seq(Block)
      <3>1. decls[i] \in Decl
        BY <1>5 DEF WalkTypes
      <3> QED BY <3>1 DEF Decl
    <2>3. decls[i].block = blocks
      BY <2>1, <2>2, SameSeq, Zenon DEF At, WalkTypes
    <2> QED BY <1>1, <2>3, Zenon
  <1>6. Unique(e, e)
    BY Zenon DEF Unique
  <1>7. \A i \in DOMAIN decls' : Labelled(decls'[i], blocks', scopeStack', counter')
    BY <1>1, <1>2, <1>4, Zenon DEF LabelInv
  <1>8. ASSUME NEW i \in DOMAIN decls', NEW j \in DOMAIN decls'
        PROVE  Unique(decls'[i], decls'[j])
    BY <1>2, <1>5, <1>6, <1>8, Zenon DEF LabelInv
  <1>9. Numbered(blocks', scopeStack', counter')
    BY <1>1, Zenon DEF LabelInv
  <1> QED BY <1>7, <1>8, <1>9, Zenon DEF LabelInv

\* An unnamed block gets a number that nobody has.
LEMMA LabelEnter ==
    ASSUME WalkTypes, WalkShape, LabelInv, NEW spec \in Specs, NEW name \in Names \cup {None},
           NEW r \in Redises \cup {None}, EnterMatch(spec, name, r)
    PROVE  LabelInv'
  <1> DEFINE N == Len(blocks) + 1
  <1>1. /\ N \in Nat /\ Len(blocks) \in Nat /\ Len(blocks') = N
        /\ Agree(blocks', blocks, Len(blocks))
        /\ Agree(scopeStack', scopeStack, Len(blocks))
        /\ blocks'[N].name = name
        /\ scopeStack'[N] = IF name = None THEN counter ELSE name
    <2>1. Len(blocks) \in Nat /\ N \in Nat
      BY DEF WalkTypes
    <2>2. blocks'[N].name = name
      BY EnterShape, Zenon
    <2> QED BY <2>1, <2>2, EnterShape, Zenon
  <1>2. counter \in Nat /\ counter' = (IF name = None THEN counter + 1 ELSE counter)
    BY Zenon DEF WalkTypes, EnterMatch, UsedUp
  <1>3. \A n \in 1..Len(blocks') :
          \/ n = N
          \/ /\ n \in 1..Len(blocks) /\ blocks'[n] = blocks[n]
             /\ scopeStack'[n] = scopeStack[n]
    BY <1>1 DEF Agree
  <1>4. ASSUME NEW l, Given(l, counter) PROVE Given(l, counter') /\ l # counter
    BY <1>2, <1>4 DEF Given
  <1>5. name = None => Given(counter, counter')
    BY <1>2 DEF Given
  <1> HIDE DEF N
  <1>6. Numbered(blocks', scopeStack', counter')
    <2>1. ASSUME NEW n \in 1..Len(blocks'), blocks'[n].name = None
          PROVE  /\ Given(scopeStack'[n], counter')
                 /\ n # N => n \in 1..Len(blocks) /\ Given(scopeStack[n], counter)
                 /\ n = N => scopeStack'[n] = counter
      BY <1>1, <1>3, <1>4, <1>5, <2>1, Zenon DEF LabelInv, Numbered
    <2>2. ASSUME NEW m \in 1..Len(blocks'), NEW n \in 1..Len(blocks'), blocks'[m].name = None,
                 blocks'[n].name = None, scopeStack'[m] = scopeStack'[n]
          PROVE  m = n
      <3>1. CASE m # N /\ n # N
        BY <1>3, <2>2, <3>1, Zenon DEF LabelInv, Numbered
      <3>2. CASE m = N /\ n # N
        BY <1>3, <1>4, <2>1, <2>2, <3>2, Zenon
      <3>3. CASE m # N /\ n = N
        BY <1>3, <1>4, <2>1, <2>2, <3>3, Zenon
      <3> QED BY <3>1, <3>2, <3>3, Zenon
    <2> QED BY <2>1, <2>2, Zenon DEF Numbered
  <1>7. ASSUME NEW i \in DOMAIN decls
        PROVE  Labelled(decls[i], blocks', scopeStack', counter')
    <2> SUFFICES ASSUME InUnnamed(decls[i])
                 PROVE  Labelled(decls[i], blocks', scopeStack', counter')
      BY Zenon DEF Labelled
    <2>1. Given(Top(decls[i].label), counter)
      BY <1>7, Zenon DEF LabelInv, Labelled
    <2>2. ASSUME NEW n \in 1..Len(blocks'), blocks'[n].name = None,
                 scopeStack'[n] = Top(decls[i].label)
          PROVE  At(decls[i], blocks', n)
      <3>1. n # N
        BY <1>1, <1>4, <2>1, <2>2, Zenon
      <3>2. n \in 1..Len(blocks) /\ At(decls[i], blocks, n)
        BY <1>3, <1>7, <2>2, <3>1, Zenon DEF LabelInv, Labelled
      <3>3. Agree(decls[i].block, blocks', n)
        BY <1>1, <3>2 DEF At, Agree
      <3> QED BY <3>2, <3>3, Zenon DEF At
    <2> QED BY <1>4, <2>1, <2>2, Zenon DEF Labelled
  <1>8. decls' = decls
    BY Zenon DEF EnterMatch
  <1> QED BY <1>6, <1>7, <1>8, Zenon DEF LabelInv

\* A block that is left takes its number with it.
LEMMA LabelLeave ==
    ASSUME WalkTypes, WalkShape, LabelInv, LeaveMatch
    PROVE  LabelInv'
  <1>1. /\ Len(blocks) \in Nat /\ Len(blocks) > 0 /\ Len(blocks') = Len(blocks) - 1
        /\ Agree(blocks', blocks, Len(blocks) - 1)
        /\ Agree(scopeStack', scopeStack, Len(blocks) - 1)
    BY LeaveShape, Zenon
  <1>2. \A n \in 1..Len(blocks') :
          n \in 1..Len(blocks) /\ blocks'[n] = blocks[n] /\ scopeStack'[n] = scopeStack[n]
    BY <1>1 DEF Agree
  <1>3. counter' = counter /\ decls' = decls
    BY Zenon DEF LeaveMatch
  <1>4. Numbered(blocks', scopeStack', counter')
    BY <1>2, <1>3, Zenon DEF LabelInv, Numbered
  <1>5. ASSUME NEW i \in DOMAIN decls
        PROVE  Labelled(decls[i], blocks', scopeStack', counter')
    <2>1. ASSUME NEW n \in 1..Len(blocks'), At(decls[i], blocks, n)
          PROVE  At(decls[i], blocks', n)
      BY <1>1, <2>1 DEF At, Agree
    <2> QED BY <1>2, <1>3, <1>5, <2>1, Zenon DEF LabelInv, Labelled
  <1> QED BY <1>3, <1>4, <1>5, Zenon DEF LabelInv

\* It begins without numbers.
LEMMA BlankLabels == Blank => LabelInv
  BY DEF Blank, LabelInv, Numbered

\* The invariant of the numbers.
LEMMA LabelStep ==
    ASSUME WalkTypes, WalkShape, LabelInv, [PipelineNext]_<<vars, pipeVars>>
    PROVE  LabelInv'
  <1>1. CASE UNCHANGED vars \/ Starts \/ Proceeds
    BY <1>1, Zenon DEF vars, Starts, Proceeds, LabelInv
  <1>2. CASE Blank'
    BY <1>2, BlankLabels, PTL
  <1>3. CASE EndBody
    <2>1. /\ DOMAIN decls' = DOMAIN decls /\ UNCHANGED <<blocks, scopeStack, counter>>
          /\ \A i \in DOMAIN decls :
               decls'[i].block = decls[i].block /\ decls'[i].label = decls[i].label
      BY <1>3, ResolvedShape, Zenon DEF EndBody, Collected
    <2>2. \A i \in DOMAIN decls : InUnnamed(decls'[i]) <=> InUnnamed(decls[i])
      BY <2>1, Zenon DEF InUnnamed
    <2>3. \A i \in DOMAIN decls : Labelled(decls'[i], blocks', scopeStack', counter')
      BY <2>1, <2>2, Zenon DEF LabelInv, Labelled, At
    <2>4. ASSUME NEW i \in DOMAIN decls, NEW j \in DOMAIN decls
          PROVE  Unique(decls'[i], decls'[j])
      <3>1. Unique(decls[i], decls[j])
        BY <2>4, Zenon DEF LabelInv
      <3> QED BY <2>1, <2>2, <2>4, <3>1, Zenon DEF Unique
    <2> QED BY <2>1, <2>3, <2>4, Zenon DEF LabelInv
  <1> QED BY <1>1, <1>2, <1>3, StepCases, LabelAdds, LabelEnter, LabelLeave, Zenon

-------------------------------------------------------------------------------
(* What the stacks of predicates and of Redis connections hold.            *)

\* f[n] is the height len of a stack when the n outermost of the open blocks were: the
\* blocks in on have pushed something.
Heights(f, len, top, on) ==
    /\ f \in [0..top -> Nat] /\ f[top] = len
    /\ \A m, n \in 0..top : m <= n => f[m] <= f[n]
    /\ \A n \in 1..top : f[n] = IF n \in on THEN f[n - 1] + 1 ELSE f[n - 1]

SameUpTo(on, other, top) == \A n \in 1..top : n \in other <=> n \in on

\* g is f up to depth top, where the stack was at most len high.
SameHeights(g, f, top, len) ==
    \A n \in 0..top : g[n] = f[n] /\ f[n] \in Nat /\ f[n] <= len

\* One more block.
LEMMA HeightsPush ==
    ASSUME NEW f, NEW len \in Nat, NEW top \in Nat, NEW on, NEW more, Heights(f, len, top, on),
           SameUpTo(on, more, top), NEW new, new = IF (top + 1) \in more THEN len + 1 ELSE len
    PROVE  \E g : Heights(g, new, top + 1, more) /\ SameHeights(g, f, top, len)
  <1> DEFINE g == [n \in 0..(top + 1) |-> IF n = top + 1 THEN new ELSE f[n]]
  <1>1. \A n \in 0..top : f[n] \in Nat /\ f[n] <= len
    BY DEF Heights
  <1>2. \A n \in 0..top : g[n] = f[n]
    OBVIOUS
  <1>3. g[top + 1] = new /\ g \in [0..(top + 1) -> Nat]
    BY <1>1
  <1>4. f[top] = len
    BY Zenon DEF Heights
  <1> HIDE DEF g
  <1>5. \A m, n \in 0..(top + 1) : m <= n => g[m] <= g[n]
    <2> SUFFICES ASSUME NEW m \in 0..(top + 1), NEW n \in 0..(top + 1), m <= n
                 PROVE  g[m] <= g[n]
      BY Zenon
    <2>1. CASE n \in 0..top
      BY <1>2, <2>1 DEF Heights
    <2>2. CASE n = top + 1 /\ m \in 0..top
      BY <1>1, <1>2, <1>3, <2>2
    <2>3. CASE n = top + 1 /\ m = top + 1
      BY <1>3, <2>3
    <2> QED BY <2>1, <2>2, <2>3
  <1>6. \A n \in 1..(top + 1) : g[n] = IF n \in more THEN g[n - 1] + 1 ELSE g[n - 1]
    <2> SUFFICES ASSUME NEW n \in 1..(top + 1)
                 PROVE  g[n] = IF n \in more THEN g[n - 1] + 1 ELSE g[n - 1]
      BY Zenon
    <2>1. CASE n \in 1..top
      <3>1. g[n] = f[n] /\ g[n - 1] = f[n - 1] /\ (n \in more <=> n \in on)
        BY <1>2, <2>1 DEF SameUpTo
      <3>2. f[n] = IF n \in on THEN f[n - 1] + 1 ELSE f[n - 1]
        BY <2>1, Zenon DEF Heights
      <3> QED BY <3>1, <3>2, Zenon
    <2>2. CASE n = top + 1
      <3>1. g[n - 1] = len /\ g[n] = new
        BY <1>2, <1>3, <1>4, <2>2
      <3> QED BY <2>2, <3>1, Zenon
    <2> QED BY <2>1, <2>2
  <1>7. Heights(g, new, top + 1, more)
    BY <1>3, <1>5, <1>6, Zenon DEF Heights
  <1> QED BY <1>1, <1>2, <1>7, Zenon DEF SameHeights

\* One block less.
LEMMA HeightsPop ==
    ASSUME NEW f, NEW len \in Nat, NEW top \in Nat, top > 0, NEW on, NEW less,
           Heights(f, len, top, on), SameUpTo(on, less, top - 1),
           NEW new, new = IF top \in on THEN len - 1 ELSE len
    PROVE  \E g : Heights(g, new, top - 1, less) /\ SameHeights(g, f, top - 1, new)
  <1> DEFINE g == [n \in 0..(top - 1) |-> f[n]]
  <1>1. \A n \in 0..(top - 1) : g[n] = f[n] /\ f[n] \in Nat
    BY DEF Heights
  <1>2. g \in [0..(top - 1) -> Nat]
    BY <1>1
  <1>3. f[top - 1] = new
    <2>1. /\ f[top] = len /\ f[top - 1] \in Nat
          /\ f[top] = IF top \in on THEN f[top - 1] + 1 ELSE f[top - 1]
      BY DEF Heights
    <2> QED BY <2>1
  <1>4. \A n \in 0..(top - 1) : f[n] <= new
    BY <1>3 DEF Heights
  <1> HIDE DEF g
  <1>5. \A m, n \in 0..(top - 1) : m <= n => g[m] <= g[n]
    BY <1>1 DEF Heights
  <1>6. \A n \in 1..(top - 1) : g[n] = IF n \in less THEN g[n - 1] + 1 ELSE g[n - 1]
    <2> SUFFICES ASSUME NEW n \in 1..(top - 1)
                 PROVE  g[n] = IF n \in less THEN g[n - 1] + 1 ELSE g[n - 1]
      BY Zenon
    <2>1. g[n] = f[n] /\ g[n - 1] = f[n - 1] /\ n \in 1..top /\ (n \in less <=> n \in on)
      BY <1>1 DEF SameUpTo
    <2>2. f[n] = IF n \in on THEN f[n - 1] + 1 ELSE f[n - 1]
      BY <2>1, Zenon DEF Heights
    <2> QED BY <2>1, <2>2, Zenon
  <1>7. g[top - 1] = new
    BY <1>1, <1>3
  <1>8. Heights(g, new, top - 1, less)
    BY <1>2, <1>5, <1>6, <1>7, Zenon DEF Heights
  <1> QED BY <1>1, <1>4, <1>8, Zenon DEF SameHeights

Restricting(bs) == {n \in 1..Len(bs) : ~Unrestricted(bs[n].spec)}

Connecting(bs) == {n \in 1..Len(bs) : bs[n].redis # None}

\* The k lowest predicates are those of the n outermost blocks.
ScopeAt(ps, k, bs, n) ==
    \A q \in Requests :
        (\A m \in 1..k : Accepts(ps[m], q)) <=> (\A m \in 1..n : Accepts(bs[m].spec, q))

Innermost(bs, m, n) == bs[m].redis # None /\ \A l \in (m + 1)..n : bs[l].redis = None

\* r is the connection of the innermost of n blocks that names one, or the listener's.
Connects(r, bs, n, base) ==
    /\ \A m \in 1..n : Innermost(bs, m, n) => r = bs[m].redis
    /\ (\A m \in 1..n : bs[m].redis = None) => r = base

Connected(rs, k) == IF k = 0 THEN None ELSE rs[k]

ScopeOf(d) ==
    \A q \in Requests :
        Matches(d.scope, q) <=> \A m \in 1..Len(d.block) : Accepts(d.block[m].spec, q)

PredsHold(ps, bs) ==
    \E f : /\ Heights(f, Len(ps), Len(bs), Restricting(bs))
           /\ \A n \in 0..Len(bs) : ScopeAt(ps, f[n], bs, n)

RedisHolds(rs, bs, base) ==
    \E f : /\ Heights(f, Len(rs), Len(bs), Connecting(bs))
           /\ \A n \in 0..Len(bs) : Connects(Connected(rs, f[n]), bs, n, base)

PredsInv == PredsHold(preds, blocks) /\ \A i \in DOMAIN decls : ScopeOf(decls[i])

RedisOf(d, base) == Connects(d.redis, d.block, Len(d.block), base)

RedisInv ==
    \E base : /\ RedisHolds(redisStack, blocks, base)
              /\ \A i \in DOMAIN decls : RedisOf(decls[i], base)

\* A predicate is pushed with its block.
LEMMA ScopePush ==
    ASSUME NEW S, NEW ps \in Seq(S), NEW qs \in Seq(S), NEW bs, NEW cs, NEW L \in Nat,
           Len(bs) = L, Len(cs) = L + 1, Agree(cs, bs, L), PredsHold(ps, bs),
           IF Unrestricted(cs[L + 1].spec) THEN qs = ps ELSE Pushed(qs, ps, cs[L + 1].spec)
    PROVE  PredsHold(qs, cs)
  <1> DEFINE b == cs[L + 1]
             top == L + 1
  <1>1. Len(ps) \in Nat /\ Len(qs) = (IF Unrestricted(b.spec) THEN Len(ps) ELSE Len(ps) + 1)
    BY DEF Pushed
  <1>2. top \in Restricting(cs) <=> ~Unrestricted(b.spec)
    BY DEF Restricting
  <1>3. SameUpTo(Restricting(bs), Restricting(cs), L)
    BY DEF Restricting, Agree, SameUpTo
  <1>4. PICK f : /\ Heights(f, Len(ps), L, Restricting(bs))
                 /\ \A n \in 0..L : ScopeAt(ps, f[n], bs, n)
    BY Zenon DEF PredsHold
  <1>5. Len(qs) = IF top \in Restricting(cs) THEN Len(ps) + 1 ELSE Len(ps)
    BY <1>1, <1>2, Zenon
  <1> HIDE DEF b
  <1>6. PICK g : Heights(g, Len(qs), top, Restricting(cs)) /\ SameHeights(g, f, L, Len(ps))
    BY <1>1, <1>3, <1>4, <1>5, HeightsPush, Zenon
  <1>7. ASSUME NEW n \in 0..L PROVE ScopeAt(qs, g[n], cs, n)
    <2>1. g[n] = f[n] /\ f[n] \in Nat /\ f[n] <= Len(ps) /\ ScopeAt(ps, f[n], bs, n)
      BY <1>4, <1>6, <1>7, Zenon DEF SameHeights
    <2>2. \A m \in 1..f[n] : qs[m] = ps[m]
      BY <1>1, <2>1 DEF Pushed, Agree
    <2>3. \A m \in 1..n : cs[m] = bs[m]
      BY <1>7 DEF Agree
    <2> QED BY <2>1, <2>2, <2>3, Zenon DEF ScopeAt
  <1>8. ScopeAt(qs, g[top], cs, top)
    <2> SUFFICES ASSUME NEW q \in Requests
                 PROVE  (\A m \in 1..Len(qs) : Accepts(qs[m], q)) <=>
                        (\A m \in 1..top : Accepts(cs[m].spec, q))
      BY <1>6, Zenon DEF ScopeAt, Heights
    <2>1. L \in 0..L /\ f[L] = Len(ps)
      BY <1>4 DEF Heights
    <2>2. (\A m \in 1..Len(ps) : Accepts(ps[m], q)) <=> (\A m \in 1..L : Accepts(bs[m].spec, q))
      BY <1>4, <2>1, Zenon DEF ScopeAt
    <2>3. (\A m \in 1..top : Accepts(cs[m].spec, q)) <=>
          (\A m \in 1..L : Accepts(bs[m].spec, q)) /\ Accepts(b.spec, q)
      <3>1. \A m \in 1..L : cs[m] = bs[m]
        BY DEF Agree
      <3>2. \A m : m \in 1..top <=> (m \in 1..L \/ m = top)
        OBVIOUS
      <3> HIDE DEF top
      <3> QED BY <3>1, <3>2, Zenon DEF b, top
    <2>4. CASE Unrestricted(b.spec)
      <3>1. Accepts(b.spec, q)
        BY <2>4, Zenon DEF Unrestricted, Accepts
      <3>2. qs = ps
        BY <2>4, Zenon DEF b
      <3> QED BY <2>2, <2>3, <3>1, <3>2, Zenon
    <2>5. CASE ~Unrestricted(b.spec)
      <3>1. Len(qs) = Len(ps) + 1 /\ Agree(qs, ps, Len(ps)) /\ qs[Len(ps) + 1] = b.spec
        BY <2>5, Zenon DEF b, Pushed
      <3>2. \A m : m \in 1..Len(qs) <=> (m \in 1..Len(ps) \/ m = Len(ps) + 1)
        BY <1>1, <3>1
      <3>3. (\A m \in 1..Len(qs) : Accepts(qs[m], q)) <=>
            (\A m \in 1..Len(ps) : Accepts(ps[m], q)) /\ Accepts(b.spec, q)
        BY <3>1, <3>2, Zenon DEF Agree
      <3> QED BY <2>2, <2>3, <3>3, Zenon
    <2> QED BY <2>4, <2>5, Zenon
  <1>9. \A n \in 0..Len(cs) : ScopeAt(qs, g[n], cs, n)
    <2>1. \A n \in 0..Len(cs) : n \in 0..L \/ n = top
      OBVIOUS
    <2> HIDE DEF top
    <2> QED BY <1>7, <1>8, <2>1, Zenon
  <1> QED BY <1>6, <1>9, Zenon DEF PredsHold

\* A predicate is popped with its block.
LEMMA ScopePop ==
    ASSUME NEW S, NEW ps \in Seq(S), NEW qs \in Seq(S), NEW bs, NEW cs, NEW L \in Nat, L > 0,
           Len(bs) = L, Len(cs) = L - 1, Agree(cs, bs, L - 1), PredsHold(ps, bs),
           qs = IF Unrestricted(bs[L].spec) THEN ps ELSE Pop(ps)
    PROVE  PredsHold(qs, cs)
  <1>1. PICK f : /\ Heights(f, Len(ps), L, Restricting(bs))
                 /\ \A n \in 0..L : ScopeAt(ps, f[n], bs, n)
    BY Zenon DEF PredsHold
  <1>2. L \in Restricting(bs) <=> ~Unrestricted(bs[L].spec)
    BY DEF Restricting
  <1>3. SameUpTo(Restricting(bs), Restricting(cs), L - 1)
    BY DEF Restricting, Agree, SameUpTo
  <1>4. Len(ps) \in Nat /\ (L \in Restricting(bs) => ps # <<>>)
    <2>1. /\ f[L] = Len(ps) /\ f[L - 1] \in Nat
          /\ f[L] = IF L \in Restricting(bs) THEN f[L - 1] + 1 ELSE f[L - 1]
      BY <1>1 DEF Heights
    <2>2. Len(ps) \in Nat /\ (Len(ps) > 0 => ps # <<>>)
      OBVIOUS
    <2>3. L \in Restricting(bs) => Len(ps) = f[L - 1] + 1
      BY <2>1, Zenon
    <2>4. f[L - 1] + 1 > 0
      BY <2>1
    <2> QED BY <2>2, <2>3, <2>4, Zenon
  <1>5. /\ Len(qs) = (IF L \in Restricting(bs) THEN Len(ps) - 1 ELSE Len(ps))
        /\ Agree(qs, ps, Len(qs))
    <2>1. CASE L \in Restricting(bs)
      <3>1. qs = Pop(ps) /\ ps # <<>>
        BY <1>2, <1>4, <2>1, Zenon
      <3>2. Len(qs) = Len(ps) - 1 /\ Agree(qs, ps, Len(ps) - 1)
        BY <3>1, Pops, Zenon
      <3> QED BY <2>1, <3>2, Zenon
    <2>2. CASE L \notin Restricting(bs)
      BY <1>2, <2>2, Zenon DEF Agree
    <2> QED BY <2>1, <2>2, Zenon
  <1>6. PICK g : Heights(g, Len(qs), L - 1, Restricting(cs)) /\ SameHeights(g, f, L - 1, Len(qs))
    BY <1>1, <1>3, <1>4, <1>5, HeightsPop, Zenon
  <1>7. ASSUME NEW n \in 0..(L - 1) PROVE ScopeAt(qs, g[n], cs, n)
    <2>1. /\ g[n] = f[n] /\ f[n] \in Nat /\ f[n] <= Len(qs) /\ n \in 0..L
          /\ Len(qs) \in Nat
      BY <1>6, <1>7 DEF SameHeights
    <2>2. ScopeAt(ps, f[n], bs, n)
      BY <1>1, <2>1, Zenon
    <2>3. \A m \in 1..f[n] : qs[m] = ps[m]
      BY <1>5, <2>1 DEF Agree
    <2>4. \A m \in 1..n : cs[m] = bs[m]
      BY <1>7 DEF Agree
    <2> QED BY <2>1, <2>2, <2>3, <2>4, Zenon DEF ScopeAt
  <1> QED BY <1>6, <1>7, Zenon DEF PredsHold

\* It begins without predicates.
LEMMA BlankPreds == Blank => PredsInv
  <1> SUFFICES ASSUME Blank PROVE PredsInv
    BY Zenon
  <1>1. preds = <<>> /\ blocks = <<>> /\ decls = <<>>
    BY Zenon DEF Blank
  <1>2. Heights([n \in 0..0 |-> 0], 0, 0, Restricting(<<>>))
    BY DEF Heights
  <1>3. ASSUME NEW n \in 0..0 PROVE ScopeAt(<<>>, [m \in 0..0 |-> 0][n], <<>>, n)
    <2>1. n = 0 /\ [m \in 0..0 |-> 0][n] = 0 /\ ~\E m : m \in 1..0
      BY <1>3
    <2> QED BY <2>1, Zenon DEF ScopeAt
  <1>4. PredsHold(<<>>, <<>>)
    <2>1. Len(<<>>) = 0
      OBVIOUS
    <2> QED BY <1>2, <1>3, <2>1, Zenon DEF PredsHold
  <1>5. DOMAIN <<>> = {}
    OBVIOUS
  <1> QED BY <1>1, <1>4, <1>5, Zenon DEF PredsInv

\* The predicates stay those of the blocks around a rule.
LEMMA PredsStep ==
    ASSUME WalkTypes, WalkShape, PredsInv, [PipelineNext]_<<vars, pipeVars>>
    PROVE  PredsInv'
  <1>1. CASE UNCHANGED vars \/ Starts \/ Proceeds
    BY <1>1, Zenon DEF vars, Starts, Proceeds, PredsInv
  <1>2. CASE Blank'
    BY <1>2, BlankPreds, PTL
  <1>3. ASSUME NEW k \in Kinds, Adds(k) PROVE PredsInv'
    <2> DEFINE e == NewDecl(k)
    <2>1. e.scope = AndPredicates(preds) /\ e.block = blocks
      BY DEF NewDecl
    <2> HIDE DEF e
    <2>2. ASSUME NEW q \in Requests
          PROVE  Matches(e.scope, q) <=> \A m \in 1..Len(preds) : Accepts(preds[m], q)
      <3>1. preds \in Seq(Specs) /\ DOMAIN preds = 1..Len(preds) /\ (preds = <<>> => Len(preds) = 0)
        BY DEF WalkTypes
      <3>2. preds # None
        BY <3>1, ConfigConstants, Zenon
      <3>3. CASE preds = <<>>
        <4>1. e.scope = None /\ ~\E m : m \in 1..Len(preds)
          BY <2>1, <3>1, <3>3 DEF AndPredicates
        <4> QED BY <4>1, Zenon DEF Matches
      <3>4. CASE preds # <<>>
        BY <2>1, <3>1, <3>2, <3>4, Zenon DEF Matches, AndPredicates
      <3> QED BY <3>3, <3>4, Zenon
    <2>3. ScopeAt(preds, Len(preds), blocks, Len(blocks))
      <3>1. PICK f : /\ Heights(f, Len(preds), Len(blocks), Restricting(blocks))
                     /\ \A n \in 0..Len(blocks) : ScopeAt(preds, f[n], blocks, n)
        BY Zenon DEF PredsInv, PredsHold
      <3>2. Len(blocks) \in 0..Len(blocks)
        BY DEF WalkTypes
      <3> QED BY <3>1, <3>2, Zenon DEF Heights
    <2>4. ScopeOf(e)
      BY <2>1, <2>2, <2>3, Zenon DEF ScopeOf, ScopeAt
    <2>5. UNCHANGED <<preds, blocks>>
      BY <1>3, Zenon DEF Adds
    <2> QED BY <1>3, <2>4, <2>5, AddsShape, Zenon DEF PredsInv, e
  <1>4. ASSUME NEW spec \in Specs, NEW name \in Names \cup {None}, NEW r \in Redises \cup {None},
               EnterMatch(spec, name, r)
        PROVE  PredsInv'
    <2> DEFINE N == Len(blocks) + 1
    <2>1. blocks'[N].spec = spec
      BY <1>4, EnterShape, Zenon
    <2>2. Unrestricted(spec) => preds' = preds
      BY <1>4, Zenon DEF EnterMatch
    <2>3. ~Unrestricted(spec) => Pushed(preds', preds, spec)
      BY <1>4, Pushes, Zenon DEF EnterMatch, WalkTypes
    <2>4. preds' \in Seq(Specs) /\ Len(blocks') = N /\ Agree(blocks', blocks, Len(blocks))
      BY <1>4, EnterShape, Zenon DEF WalkTypes
    <2>5. Len(blocks) \in Nat
      BY DEF WalkTypes
    <2>6. PredsHold(preds', blocks')
      BY <2>1, <2>2, <2>3, <2>4, <2>5, ScopePush, Zenon DEF PredsInv, WalkTypes
    <2>7. decls' = decls
      BY <1>4, Zenon DEF EnterMatch
    <2> QED BY <2>6, <2>7, Zenon DEF PredsInv
  <1>5. CASE LeaveMatch
    <2>1. PredsHold(preds', blocks')
      BY <1>5, LeaveShape, ScopePop, Zenon DEF PredsInv, WalkTypes
    <2>2. decls' = decls
      BY <1>5, Zenon DEF LeaveMatch
    <2> QED BY <2>1, <2>2, Zenon DEF PredsInv
  <1>6. CASE EndBody
    <2>1. /\ DOMAIN decls' = DOMAIN decls /\ UNCHANGED <<blocks, preds>>
          /\ \A i \in DOMAIN decls :
               decls'[i].block = decls[i].block /\ decls'[i].scope = decls[i].scope
      BY <1>6, ResolvedShape, Zenon DEF EndBody, Collected
    <2>2. \A i \in DOMAIN decls : ScopeOf(decls'[i])
      BY <2>1, Zenon DEF PredsInv, ScopeOf
    <2> QED BY <2>1, <2>2, Zenon DEF PredsInv
  <1> QED BY <1>1, <1>2, <1>3, <1>4, <1>5, <1>6, StepCases, Zenon

\* What the n outermost blocks connect to does not depend on the others.
LEMMA ConnectsAgree ==
    ASSUME NEW n, NEW bs, NEW cs, n \in Nat, Agree(cs, bs, n), NEW r, NEW base,
           Connects(r, bs, n, base)
    PROVE  Connects(r, cs, n, base)
  <1>1. \A m \in 1..n : cs[m] = bs[m] /\ \A l \in (m + 1)..n : l \in 1..n
    BY DEF Agree
  <1> QED BY <1>1, Zenon DEF Connects, Innermost

\* A connection is pushed with its block.
LEMMA RedisPush ==
    ASSUME NEW S, NEW rs \in Seq(S), NEW ts \in Seq(S), NEW bs, NEW cs, NEW L \in Nat, NEW base,
           Len(bs) = L, Len(cs) = L + 1, Agree(cs, bs, L), RedisHolds(rs, bs, base),
           IF cs[L + 1].redis = None THEN ts = rs ELSE Pushed(ts, rs, cs[L + 1].redis)
    PROVE  RedisHolds(ts, cs, base)
  <1> DEFINE b == cs[L + 1]
             top == L + 1
  <1>1. Len(rs) \in Nat /\ Len(ts) = (IF b.redis = None THEN Len(rs) ELSE Len(rs) + 1)
    BY DEF Pushed
  <1>2. top \in Connecting(cs) <=> b.redis # None
    BY DEF Connecting
  <1>3. SameUpTo(Connecting(bs), Connecting(cs), L)
    BY DEF Connecting, Agree, SameUpTo
  <1>4. PICK f : /\ Heights(f, Len(rs), L, Connecting(bs))
                 /\ \A n \in 0..L : Connects(Connected(rs, f[n]), bs, n, base)
    BY Zenon DEF RedisHolds
  <1>5. Len(ts) = IF top \in Connecting(cs) THEN Len(rs) + 1 ELSE Len(rs)
    BY <1>1, <1>2, Zenon
  <1> HIDE DEF b
  <1>6. PICK g : Heights(g, Len(ts), top, Connecting(cs)) /\ SameHeights(g, f, L, Len(rs))
    BY <1>1, <1>3, <1>4, <1>5, HeightsPush, Zenon
  <1>7. ASSUME NEW n \in 0..L PROVE Connects(Connected(ts, g[n]), cs, n, base)
    <2>1. /\ g[n] = f[n] /\ f[n] \in Nat /\ f[n] <= Len(rs)
          /\ Connects(Connected(rs, f[n]), bs, n, base)
      BY <1>4, <1>6, <1>7, Zenon DEF SameHeights
    <2>2. Connected(ts, f[n]) = Connected(rs, f[n])
      BY <1>1, <2>1 DEF Pushed, Agree, Connected
    <2>3. n \in Nat /\ Agree(cs, bs, n)
      BY <1>7 DEF Agree
    <2> QED BY <2>1, <2>2, <2>3, ConnectsAgree, Zenon
  <1>8. Connects(Connected(ts, g[top]), cs, top, base)
    <2>1. g[top] = Len(ts) /\ f[L] = Len(rs) /\ L \in 0..L
      BY <1>4, <1>6 DEF Heights
    <2>2. /\ \A m : m \in 1..top <=> (m \in 1..L \/ m = top)
          /\ \A m \in 1..L : top \in (m + 1)..top
          /\ \A m \in 1..L : \A l : l \in (m + 1)..L => l \in (m + 1)..top
      OBVIOUS
    <2>3. CASE b.redis # None
      <3>1. Len(ts) = Len(rs) + 1 /\ ts[Len(ts)] = b.redis /\ Len(ts) # 0
        BY <1>1, <2>3 DEF b, Pushed
      <3>2. Connected(ts, g[top]) = cs[top].redis
        BY <2>1, <3>1, Zenon DEF Connected, b
      <3>3. \A m \in 1..L : ~Innermost(cs, m, top)
        BY <2>2, <2>3, Zenon DEF Innermost, b
      <3>4. ~\A m \in 1..top : cs[m].redis = None
        BY <2>2, <2>3, Zenon DEF b
      <3> HIDE DEF top
      <3> QED BY <2>2, <3>2, <3>3, <3>4, Zenon DEF Connects
    <2>4. CASE b.redis = None
      <3>1. Connects(Connected(ts, g[top]), cs, L, base)
        <4>1. g[L] = f[L]
          BY <1>6, <2>1, Zenon DEF SameHeights
        <4>2. ts = rs
          BY <2>4, Zenon DEF b
        <4> QED BY <1>7, <2>1, <4>1, <4>2, Zenon
      <3>2. ~Innermost(cs, top, top)
        BY <2>4, Zenon DEF Innermost, b
      <3>3. \A m \in 1..L : Innermost(cs, m, top) => Innermost(cs, m, L)
        BY <2>2, Zenon DEF Innermost
      <3> HIDE DEF top
      <3> QED BY <2>2, <3>1, <3>2, <3>3, Zenon DEF Connects
    <2> QED BY <2>3, <2>4, Zenon
  <1>9. \A n \in 0..Len(cs) : Connects(Connected(ts, g[n]), cs, n, base)
    <2>1. \A n \in 0..Len(cs) : n \in 0..L \/ n = top
      OBVIOUS
    <2> HIDE DEF top
    <2> QED BY <1>7, <1>8, <2>1, Zenon
  <1> QED BY <1>6, <1>9, Zenon DEF RedisHolds

\* A connection is popped with its block.
LEMMA RedisPop ==
    ASSUME NEW S, NEW rs \in Seq(S), NEW ts \in Seq(S), NEW bs, NEW cs, NEW L \in Nat, L > 0,
           NEW base, Len(bs) = L, Len(cs) = L - 1, Agree(cs, bs, L - 1), RedisHolds(rs, bs, base),
           ts = IF bs[L].redis = None THEN rs ELSE Pop(rs)
    PROVE  RedisHolds(ts, cs, base)
  <1>1. PICK f : /\ Heights(f, Len(rs), L, Connecting(bs))
                 /\ \A n \in 0..L : Connects(Connected(rs, f[n]), bs, n, base)
    BY Zenon DEF RedisHolds
  <1>2. L \in Connecting(bs) <=> bs[L].redis # None
    BY DEF Connecting
  <1>3. SameUpTo(Connecting(bs), Connecting(cs), L - 1)
    BY DEF Connecting, Agree, SameUpTo
  <1>4. Len(rs) \in Nat /\ (L \in Connecting(bs) => rs # <<>>)
    <2>1. /\ f[L] = Len(rs) /\ f[L - 1] \in Nat
          /\ f[L] = IF L \in Connecting(bs) THEN f[L - 1] + 1 ELSE f[L - 1]
      BY <1>1 DEF Heights
    <2>2. Len(rs) \in Nat /\ (Len(rs) > 0 => rs # <<>>)
      OBVIOUS
    <2>3. L \in Connecting(bs) => Len(rs) = f[L - 1] + 1
      BY <2>1, Zenon
    <2>4. f[L - 1] + 1 > 0
      BY <2>1
    <2> QED BY <2>2, <2>3, <2>4, Zenon
  <1>5. /\ Len(ts) = (IF L \in Connecting(bs) THEN Len(rs) - 1 ELSE Len(rs))
        /\ Agree(ts, rs, Len(ts))
    <2>1. CASE L \in Connecting(bs)
      <3>1. ts = Pop(rs) /\ rs # <<>>
        BY <1>2, <1>4, <2>1, Zenon
      <3>2. Len(ts) = Len(rs) - 1 /\ Agree(ts, rs, Len(rs) - 1)
        BY <3>1, Pops, Zenon
      <3> QED BY <2>1, <3>2, Zenon
    <2>2. CASE L \notin Connecting(bs)
      BY <1>2, <2>2, Zenon DEF Agree
    <2> QED BY <2>1, <2>2, Zenon
  <1>6. PICK g : Heights(g, Len(ts), L - 1, Connecting(cs)) /\ SameHeights(g, f, L - 1, Len(ts))
    BY <1>1, <1>3, <1>4, <1>5, HeightsPop, Zenon
  <1>7. ASSUME NEW n \in 0..(L - 1) PROVE Connects(Connected(ts, g[n]), cs, n, base)
    <2>1. /\ g[n] = f[n] /\ f[n] \in Nat /\ f[n] <= Len(ts) /\ n \in 0..L
          /\ Len(ts) \in Nat
      BY <1>6, <1>7 DEF SameHeights
    <2>2. Connects(Connected(rs, f[n]), bs, n, base)
      BY <1>1, <2>1, Zenon
    <2>3. Connected(ts, f[n]) = Connected(rs, f[n])
      BY <1>5, <2>1 DEF Agree, Connected
    <2>4. n \in Nat /\ Agree(cs, bs, n)
      BY <1>7 DEF Agree
    <2> QED BY <2>1, <2>2, <2>3, <2>4, ConnectsAgree, Zenon
  <1> QED BY <1>6, <1>7, Zenon DEF RedisHolds

\* It begins with the connection of the listener or of the process, if any.
LEMMA BlankRedis == Blank => RedisInv
  <1> SUFFICES ASSUME Blank PROVE RedisInv
    BY Zenon
  <1> DEFINE base == IF redisStack = <<>> THEN None ELSE redisStack[1]
             f == [n \in 0..0 |-> Len(redisStack)]
  <1>1. blocks = <<>> /\ decls = <<>>
    BY Zenon DEF Blank
  <1>2. /\ redisStack = <<>> => Len(redisStack) = 0
        /\ redisStack # <<>> => Len(redisStack) = 1
        /\ Len(redisStack) \in Nat
    BY DEF Blank
  <1>3. Heights(f, Len(redisStack), 0, Connecting(<<>>))
    BY <1>2 DEF Heights
  <1>4. Connected(redisStack, Len(redisStack)) = base
    BY <1>2 DEF Connected
  <1> HIDE DEF base
  <1>5. ASSUME NEW n \in 0..0 PROVE Connects(Connected(redisStack, f[n]), <<>>, n, base)
    <2>1. n = 0 /\ f[n] = Len(redisStack) /\ ~\E m : m \in 1..0
      BY <1>5
    <2> QED BY <1>4, <2>1, Zenon DEF Connects
  <1>6. RedisHolds(redisStack, <<>>, base)
    <2>1. Len(<<>>) = 0
      OBVIOUS
    <2> HIDE DEF f
    <2> QED BY <1>3, <1>5, <2>1, Zenon DEF RedisHolds
  <1>7. DOMAIN <<>> = {}
    OBVIOUS
  <1> QED BY <1>1, <1>6, <1>7, Zenon DEF RedisInv

\* The connections stay those of the innermost blocks that name one.
LEMMA RedisStep ==
    ASSUME WalkTypes, WalkShape, RedisInv, [PipelineNext]_<<vars, pipeVars>>
    PROVE  RedisInv'
  <1> DEFINE Good(base) == /\ RedisHolds(redisStack, blocks, base)
                           /\ \A i \in DOMAIN decls : RedisOf(decls[i], base)
  <1> USE DEF Good
  <1>1. CASE UNCHANGED vars \/ Starts \/ Proceeds
    BY <1>1, Zenon DEF vars, Starts, Proceeds, RedisInv
  <1>2. CASE Blank'
    BY <1>2, BlankRedis, PTL
  <1>3. PICK base : Good(base)
    BY Zenon DEF RedisInv
  <1>4. ASSUME NEW k \in Kinds, Adds(k) PROVE RedisInv'
    <2> DEFINE e == NewDecl(k)
    <2>1. e.redis = (IF redisStack = <<>> THEN None ELSE Top(redisStack)) /\ e.block = blocks
      BY DEF NewDecl
    <2> HIDE DEF e
    <2>2. redisStack = <<>> <=> Len(redisStack) = 0
      BY DEF WalkTypes
    <2>3. e.redis = Connected(redisStack, Len(redisStack))
      BY <2>1, <2>2, Zenon DEF Connected, Top
    <2>4. Connects(Connected(redisStack, Len(redisStack)), blocks, Len(blocks), base)
      <3>1. PICK f : /\ Heights(f, Len(redisStack), Len(blocks), Connecting(blocks))
                     /\ \A n \in 0..Len(blocks) :
                          Connects(Connected(redisStack, f[n]), blocks, n, base)
        BY <1>3, Zenon DEF RedisHolds
      <3>2. Len(blocks) \in 0..Len(blocks)
        BY DEF WalkTypes
      <3> QED BY <3>1, <3>2, Zenon DEF Heights
    <2>5. RedisOf(e, base)
      BY <2>1, <2>3, <2>4, Zenon DEF RedisOf
    <2>6. UNCHANGED <<redisStack, blocks>>
      BY <1>4, Zenon DEF Adds
    <2>7. \A i \in DOMAIN decls' : RedisOf(decls'[i], base)
      BY <1>3, <1>4, <2>5, AddsShape, Zenon DEF e
    <2> QED BY <1>3, <2>6, <2>7, Zenon DEF RedisInv
  <1>5. ASSUME NEW spec \in Specs, NEW name \in Names \cup {None}, NEW r \in Redises \cup {None},
               EnterMatch(spec, name, r)
        PROVE  RedisInv'
    <2> DEFINE N == Len(blocks) + 1
    <2>1. blocks'[N].redis = r
      BY <1>5, EnterShape, Zenon
    <2>2. r = None => redisStack' = redisStack
      BY <1>5, Zenon DEF EnterMatch
    <2>3. r # None => Pushed(redisStack', redisStack, r)
      BY <1>5, Pushes, Zenon DEF EnterMatch, WalkTypes
    <2>4. redisStack' \in Seq(Redises) /\ Len(blocks') = N /\ Agree(blocks', blocks, Len(blocks))
      BY <1>5, EnterShape, Zenon DEF WalkTypes
    <2>5. Len(blocks) \in Nat
      BY DEF WalkTypes
    <2>6. RedisHolds(redisStack', blocks', base)
      BY <1>3, <2>1, <2>2, <2>3, <2>4, <2>5, RedisPush, Zenon DEF WalkTypes
    <2>7. decls' = decls
      BY <1>5, Zenon DEF EnterMatch
    <2> QED BY <1>3, <2>6, <2>7, Zenon DEF RedisInv
  <1>6. CASE LeaveMatch
    <2>1. RedisHolds(redisStack', blocks', base)
      BY <1>3, <1>6, LeaveShape, RedisPop, Zenon DEF WalkTypes
    <2>2. decls' = decls
      BY <1>6, Zenon DEF LeaveMatch
    <2> QED BY <1>3, <2>1, <2>2, Zenon DEF RedisInv
  <1>7. CASE EndBody
    <2>1. /\ DOMAIN decls' = DOMAIN decls /\ UNCHANGED <<blocks, redisStack>>
          /\ \A i \in DOMAIN decls :
               decls'[i].block = decls[i].block /\ decls'[i].redis = decls[i].redis
      BY <1>7, ResolvedShape, Zenon DEF EndBody, Collected
    <2>2. \A i \in DOMAIN decls : RedisOf(decls'[i], base)
      BY <1>3, <2>1, Zenon DEF RedisOf
    <2> QED BY <1>3, <2>1, <2>2, Zenon DEF RedisInv
  <1> QED BY <1>1, <1>2, <1>4, <1>5, <1>6, <1>7, StepCases, Zenon

\* Then scopes and connections are exact.
LEMMA ExactScopes ==
    ASSUME WalkTypes, PredsInv, RedisInv
    PROVE  ScopesAreExact
  <1>1. ASSUME NEW i \in DOMAIN decls
        PROVE  /\ decls[i].block \in Seq(Block) /\ Len(decls[i].block) \in Nat
               /\ DOMAIN decls[i].block = 1..Len(decls[i].block)
    <2>1. decls[i] \in Decl
      BY <1>1 DEF WalkTypes
    <2> QED BY <2>1 DEF Decl
  <1>2. PICK base : \A i \in DOMAIN decls : RedisOf(decls[i], base)
    BY Zenon DEF RedisInv
  <1> SUFFICES ASSUME NEW i \in DOMAIN decls
               PROVE  LET d == decls[i]
                          own == {n \in DOMAIN d.block : d.block[n].redis # None}
                      IN  /\ \A q \in Requests :
                               Matches(d.scope, q) <=>
                               \A around \in Enclosing(d) : Accepts(around.spec, q)
                          /\ \A n \in own : (\A m \in own : m <= n) => d.redis = d.block[n].redis
                          /\ own = {} =>
                               \A j \in DOMAIN decls :
                                 decls[j].block = <<>> => decls[j].redis = d.redis
    BY Zenon DEF ScopesAreExact
  <1> DEFINE d == decls[i]
             own == {n \in DOMAIN d.block : d.block[n].redis # None}
  <1>3. ASSUME NEW q \in Requests
        PROVE  Matches(d.scope, q) <=> \A around \in Enclosing(d) : Accepts(around.spec, q)
    BY <1>1, Zenon DEF PredsInv, ScopeOf, Enclosing
  <1>4. ASSUME NEW n \in own, \A m \in own : m <= n
        PROVE  d.redis = d.block[n].redis
    <2>1. \A l \in (n + 1)..Len(d.block) : l \in 1..Len(d.block) /\ ~(l <= n)
      BY <1>1, <1>4
    <2>2. Innermost(d.block, n, Len(d.block))
      BY <1>1, <1>4, <2>1, Zenon DEF Innermost
    <2> QED BY <1>1, <1>2, <1>4, <2>2, Zenon DEF RedisOf, Connects
  <1>5. ASSUME own = {}, NEW j \in DOMAIN decls, decls[j].block = <<>>
        PROVE  decls[j].redis = d.redis
    <2>1. ~\E m : m \in 1..Len(decls[j].block)
      BY <1>5
    <2>2. decls[j].redis = base
      BY <1>2, <1>5, <2>1, Zenon DEF RedisOf, Connects
    <2>3. d.redis = base
      BY <1>1, <1>2, <1>5, Zenon DEF RedisOf, Connects
    <2> QED BY <2>2, <2>3, Zenon
  <1> QED BY <1>3, <1>4, <1>5, Zenon

-------------------------------------------------------------------------------
(* Theorems.                                                               *)

\* The inductive invariant of the walk.
WalkInv ==
    /\ WalkTypes /\ WalkShape /\ LabelInv /\ PredsInv /\ RedisInv

\* The walk starts from nothing.
LEMMA WalkStart == PipelineInit => WalkInv
  <1> SUFFICES ASSUME PipelineInit PROVE WalkInv
    BY Zenon
  <1>1. Blank
    BY InitBlank, Zenon DEF PipelineInit
  <1> QED BY <1>1, BlankShape, BlankLabels, BlankPreds, BlankRedis,
             Zenon DEF WalkInv

\* Every step of the walk keeps it, and so does every step of a request.
LEMMA WalkStep == WalkInv /\ [PipelineNext]_<<vars, pipeVars>> => WalkInv'
  BY ShapeStep, LabelStep, PredsStep, RedisStep, Zenon DEF WalkInv

\* So it holds of a configuration throughout its compilation and while it is served.
THEOREM WalkInvariant == PipelineSpec => []WalkInv
  BY WalkStart, WalkStep, PTL DEF PipelineSpec

\* Stores are told apart by the numbers in their labels.
LEMMA UniqueStores ==
    ASSUME LabelInv
    PROVE  UnnamedScopesAreUnique
  <1> SUFFICES ASSUME NEW i \in DOMAIN decls, NEW j \in DOMAIN decls,
                      decls[i].block # <<>>, decls[j].block # <<>>,
                      Top(decls[i].block).name = None, Top(decls[j].block).name = None,
                      StoreOf(decls[i]) = StoreOf(decls[j])
               PROVE  decls[i].block = decls[j].block
    BY Zenon DEF UnnamedScopesAreUnique
  <1>1. decls[i].label = decls[j].label
    BY DEF StoreOf
  <1>2. Top(decls[i].label) = Top(decls[j].label)
    BY <1>1, Zenon
  <1>3. Unique(decls[i], decls[j])
    BY Zenon DEF LabelInv
  <1> QED BY <1>2, <1>3, Zenon DEF Unique, InUnnamed

\* walk_match never gives one number to two unnamed blocks of a listener, so rules in
\* different unnamed blocks never share a store in Redis.
THEOREM StoresAreUnique == PipelineSpec => []UnnamedScopesAreUnique
  <1>1. WalkInv => UnnamedScopesAreUnique
    BY UniqueStores, Zenon DEF WalkInv
  <1> QED BY <1>1, WalkInvariant, PTL

\* The stacks of walk_match are popped as they were pushed: every rule has the
\* predicates of exactly the blocks around it and the Redis connection of the innermost
\* that names one.
THEOREM ScopesExact == PipelineSpec => []ScopesAreExact
  <1>1. WalkInv => ScopesAreExact
    BY ExactScopes, Zenon DEF WalkInv
  <1> QED BY <1>1, WalkInvariant, PTL

===============================================================================
