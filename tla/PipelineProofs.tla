---------------------------- MODULE PipelineProofs ----------------------------
(***************************************************************************)
(* Proofs about the compiled rules and about Pipeline, for any             *)
(* configuration the walk accepts and any requests and backends: which     *)
(* rules a compiled configuration lets apply, what a request meets on its  *)
(* way through the layers, where it is sent, and how the backends share    *)
(* the requests.                                                           *)
(*                                                                         *)
(* resolve_exclusions compares paths, and nesting is about blocks.  The    *)
(* invariant of the paths relates the two: one path is a prefix of another *)
(* exactly when the block of one rule is around the other.                 *)
(***************************************************************************)
EXTENDS ConfigProofs, WellFoundedInduction

-------------------------------------------------------------------------------
(* Paths and blocks.                                                       *)

Off(zone) == IF zone = "body" THEN 1 ELSE 0

\* A path has an index per block, and the listener's starts with a zero; the blocks
\* were entered before node N.
Placed(p, bs, off, N) ==
    /\ Len(p) = Len(bs) + off /\ (off = 1 => p[1] = 0) /\ Len(bs) <= N
    /\ \A n \in 1..Len(bs) : bs[n].id < N

\* Two places have the same blocks around them just as far as their paths agree.
Alike(p, bs, other, cs, off) ==
    \A n \in Nat : n <= Len(bs) /\ n <= Len(cs) => (Agree(bs, cs, n) <=> Agree(p, other, n + off))

\* In a body that is still open no index is used again.
Below(p, bs, here, top, next, off) ==
    \A n \in 0..top : n < Len(bs) /\ Agree(p, here, n + off) => p[n + off + 1] < next[n + 1]

\* The index of the innermost of L open bodies goes up.
Advances(more, next, L) ==
    (\A n \in 1..L : more[n] = next[n]) /\ more[L + 1] = next[L + 1] + 1

\* What is less stays less.
LEMMA LessNext == \A x, y \in Nat : x < y => x < y + 1
  OBVIOUS

Typed(off, N, L, p, bs, next) ==
    /\ off \in {0, 1} /\ N \in Nat /\ L \in Nat
    /\ p \in Seq(Nat) /\ bs \in Seq(Block) /\ next \in Seq(Nat)

Lengths(off, L, here, cs, next, ds) ==
    Len(cs) = L /\ Len(here) = L + off /\ Len(next) = L + 1 /\ Len(ds) = L + 1

\* Entering a block does not lead to a place that was there before.
LEMMA PlaceEnter ==
    ASSUME NEW off, NEW N, NEW L, NEW p, NEW bs, NEW here, NEW cs, NEW next, NEW there, NEW ds,
           NEW more, Typed(off, N, L, p, bs, next), Lengths(off, L, here, cs, next, ds),
           Placed(p, bs, off, N), Alike(p, bs, here, cs, off), Below(p, bs, here, L, next, off),
           Pushed(there, here, next[L + 1]), Agree(ds, cs, L), ds[L + 1].id = N,
           Advances(more, next, L)
    PROVE  Alike(p, bs, there, ds, off) /\ Below(p, bs, there, L + 1, more, off)
  <1>1. off \in Nat /\ N \in Nat /\ L \in Nat /\ Len(bs) \in Nat
    <2>1. off \in {0, 1} /\ N \in Nat /\ L \in Nat /\ bs \in Seq(Block)
      BY Zenon DEF Typed
    <2> QED BY <2>1
  <1>2. /\ Len(p) = Len(bs) + off /\ Len(here) = L + off /\ Len(next) = L + 1
        /\ Len(ds) = L + 1
    BY Zenon DEF Lengths, Placed
  <1>3. ASSUME NEW n \in Nat, n <= L
        PROVE  /\ Agree(bs, ds, n) <=> Agree(bs, cs, n)
               /\ Agree(p, there, n + off) <=> Agree(p, here, n + off)
    <2>1. \A m \in 1..n : ds[m] = cs[m]
      <3>1. \A m \in 1..n : m \in 1..L
        BY <1>1, <1>3
      <3> QED BY <3>1, Zenon DEF Agree
    <2>2. \A m \in 1..(n + off) : there[m] = here[m]
      <3>1. \A m \in 1..(n + off) : m \in 1..(L + off)
        BY <1>1, <1>3
      <3> QED BY <1>2, <3>1, Zenon DEF Pushed, Agree
    <2> QED BY <2>1, <2>2, Zenon DEF Agree
  <1>4. ASSUME L + 1 <= Len(bs) PROVE ~Agree(bs, ds, L + 1)
    <2>1. L + 1 \in 1..Len(bs) /\ L + 1 \in 1..(L + 1)
      BY <1>1, <1>4
    <2>2. bs[L + 1].id < N /\ bs[L + 1] \in Block /\ ds[L + 1].id = N
      BY <2>1, ElementType, Zenon DEF Typed, Placed
    <2>3. bs[L + 1].id \in Nat
      BY <2>2 DEF Block
    <2>4. \A a, b \in Nat : a < b => a # b
      OBVIOUS
    <2> QED BY <1>1, <2>1, <2>2, <2>3, <2>4, Zenon DEF Agree
  <1>5. ASSUME L + 1 <= Len(bs) PROVE ~Agree(p, there, L + 1 + off)
    <2> SUFFICES ASSUME Agree(p, there, L + 1 + off) PROVE FALSE
      BY Zenon
    <2>1. /\ \A m \in 1..(L + off) : m \in 1..(L + 1 + off)
          /\ L + off + 1 \in 1..(L + 1 + off) /\ L <= L /\ L \in 0..L /\ L < Len(bs)
          /\ L + 1 \in 1..(L + 1)
      BY <1>1, <1>5
    <2>2. Agree(p, there, L + off) /\ p[L + off + 1] = there[L + off + 1]
      BY <2>1, Zenon DEF Agree
    <2>3. Agree(p, here, L + off)
      BY <1>1, <1>3, <2>1, <2>2, Zenon
    <2>4. p[L + off + 1] < next[L + 1]
      BY <2>1, <2>3, Zenon DEF Below
    <2>5. there[L + off + 1] = next[L + 1]
      BY <1>2, Zenon DEF Pushed
    <2>6. next[L + 1] \in Nat
      BY <1>2, <2>1, ElementType, Zenon DEF Typed
    <2>7. \A a \in Nat : ~(a < a)
      OBVIOUS
    <2> QED BY <2>2, <2>4, <2>5, <2>6, <2>7, Zenon
  <1>6. Alike(p, bs, there, ds, off)
    <2> SUFFICES ASSUME NEW n \in Nat, n <= Len(bs), n <= L + 1
                 PROVE  Agree(bs, ds, n) <=> Agree(p, there, n + off)
      BY <1>2, Zenon DEF Alike
    <2>1. CASE n <= L
      <3>1. n <= Len(cs)
        BY <2>1, Zenon DEF Lengths
      <3> QED BY <1>3, <2>1, <3>1, Zenon DEF Alike
    <2>2. CASE n = L + 1
      BY <1>4, <1>5, <2>2, Zenon
    <2>3. n <= L \/ n = L + 1
      BY <1>1
    <2> QED BY <2>1, <2>2, <2>3, Zenon
  <1>7. Below(p, bs, there, L + 1, more, off)
    <2> SUFFICES ASSUME NEW n \in 0..(L + 1), n < Len(bs), Agree(p, there, n + off)
                 PROVE  p[n + off + 1] < more[n + 1]
      BY Zenon DEF Below
    <2>1. n # L + 1
      <3>1. n = L + 1 => L + 1 <= Len(bs)
        BY <1>1
      <3> QED BY <1>5, <3>1, Zenon
    <2>2. n \in 0..L /\ n \in Nat /\ n <= L /\ (n = L \/ n + 1 \in 1..L)
      BY <1>1, <2>1
    <2>3. Agree(p, here, n + off)
      BY <1>3, <2>2, Zenon
    <2>4. p[n + off + 1] < next[n + 1]
      BY <2>2, <2>3, Zenon DEF Below
    <2>5. p[n + off + 1] \in Nat /\ next[n + 1] \in Nat
      <3>1. n + off + 1 \in 1..(Len(bs) + off) /\ n + 1 \in 1..(L + 1)
        BY <1>1, <2>2
      <3> QED BY <1>2, <3>1, ElementType, Zenon DEF Typed
    <2>6. more[n + 1] = next[n + 1] \/ more[n + 1] = next[n + 1] + 1
      <3>1. /\ \A m \in 1..L : more[m] = next[m]
            /\ more[L + 1] = next[L + 1] + 1
        BY Zenon DEF Advances
      <3>2. CASE n = L
        BY <3>1, <3>2, Zenon
      <3>3. CASE n + 1 \in 1..L
        BY <3>1, <3>3, Zenon
      <3> QED BY <2>2, <3>2, <3>3, Zenon
    <2> QED BY <2>4, <2>5, <2>6, LessNext, Zenon
  <1> QED BY <1>6, <1>7, Zenon

DeclPlaced(d, N) == Placed(d.path, d.block, Off(d.zone), N)

DeclsAlike(d, e) ==
    Off(d.zone) = Off(e.zone) => Alike(d.path, d.block, e.path, e.block, Off(d.zone))

\* Where the walk is.
HerePlaced(zone, p, bs, next, N) ==
    /\ Placed(p, bs, Off(zone), N)
    /\ \A n \in 1..Len(bs) : p[n + Off(zone)] < next[n]

DeclHere(d, zone, p, bs, next) ==
    Off(d.zone) = Off(zone) =>
        /\ Alike(d.path, d.block, p, bs, Off(zone))
        /\ Below(d.path, d.block, p, Len(bs), next, Off(zone))

PathInv ==
    /\ \A i \in DOMAIN decls : DeclPlaced(decls[i], nodes)
    /\ \A i, j \in DOMAIN decls : DeclsAlike(decls[i], decls[j])
    /\ phase \in Compiling =>
         /\ HerePlaced(phase, path, blocks, nextIdx, nodes)
         /\ \A i \in DOMAIN decls : DeclHere(decls[i], phase, path, blocks, nextIdx)
    /\ phase \in {"globals", "cli"} => \A i \in DOMAIN decls : decls[i].zone # "body"

\* The parts of a declaration.
LEMMA DeclType ==
    ASSUME WalkTypes, NEW i \in DOMAIN decls
    PROVE  /\ decls[i] \in Decl /\ decls[i].path \in Seq(Nat) /\ decls[i].block \in Seq(Block)
           /\ Len(decls[i].path) \in Nat /\ Len(decls[i].block) \in Nat
  <1>1. decls[i] \in Decl
    BY DEF WalkTypes
  <1>2. decls[i].path \in Seq(Nat) /\ decls[i].block \in Seq(Block)
    BY <1>1 DEF Decl
  <1> QED BY <1>1, <1>2

\* More nodes have been visited.
LEMMA PlacedMore ==
    ASSUME NEW p, NEW bs \in Seq(Block), NEW off, NEW N \in Nat, Placed(p, bs, off, N)
    PROVE  Placed(p, bs, off, N + 1)
  <1>1. ASSUME NEW n \in 1..Len(bs) PROVE bs[n].id < N + 1
    <2>1. bs[n].id \in Nat /\ bs[n].id < N
      <3>1. bs[n] \in Block /\ bs[n].id < N
        BY <1>1, ElementType, Zenon DEF Placed
      <3> QED BY <3>1 DEF Block
    <2> QED BY <2>1
  <1>2. Len(bs) <= N + 1
    BY DEF Placed
  <1> QED BY <1>1, <1>2, Zenon DEF Placed

\* More indices have been used.
LEMMA BelowMore ==
    ASSUME NEW off \in {0, 1}, NEW L \in Nat, NEW p \in Seq(Nat), NEW bs \in Seq(Block),
           Len(p) = Len(bs) + off, NEW here, NEW next \in Seq(Nat), Len(next) = L + 1,
           Below(p, bs, here, L, next, off),
           NEW more, Advances(more, next, L)
    PROVE  Below(p, bs, here, L, more, off)
  <1> SUFFICES ASSUME NEW n \in 0..L, n < Len(bs), Agree(p, here, n + off)
               PROVE  p[n + off + 1] < more[n + 1]
    BY Zenon DEF Below
  <1>1. p[n + off + 1] < next[n + 1]
    BY Zenon DEF Below
  <1>2. p[n + off + 1] \in Nat /\ next[n + 1] \in Nat
    <2>1. n + off + 1 \in 1..Len(p) /\ n + 1 \in 1..Len(next)
      OBVIOUS
    <2> QED BY <2>1, ElementType, Zenon
  <1>3. more[n + 1] = next[n + 1] \/ more[n + 1] = next[n + 1] + 1
    <2>1. n = L \/ n + 1 \in 1..L
      OBVIOUS
    <2> QED BY <2>1, Zenon DEF Advances
  <1>4. \A x, y \in Nat : x < y => x < y + 1
    OBVIOUS
  <1> QED BY <1>1, <1>2, <1>3, <1>4, Zenon

\* A rule stands where the walk is.
LEMMA PathAdds ==
    ASSUME WalkTypes, WalkShape, PathInv, NEW k \in Kinds, Adds(k)
    PROVE  PathInv'
  <1> DEFINE e == NewDecl(k)
             N == Len(decls) + 1
             off == Off(phase)
             L == Len(blocks)
  <1>1. /\ e.path = path /\ e.block = blocks /\ e.zone = phase
        /\ nextIdx' = Visited /\ nodes' = nodes + 1
        /\ UNCHANGED <<phase, path, blocks>> /\ phase \in Compiling
    BY DEF NewDecl, Adds
  <1>2. /\ \A i \in DOMAIN decls : decls'[i] = decls[i]
        /\ decls'[N] = e /\ DOMAIN decls' = DOMAIN decls \cup {N}
    BY AddsShape, Zenon
  <1> HIDE DEF e, N
  <1>3. /\ off \in {0, 1} /\ L \in Nat /\ nextIdx \in Seq(Nat) /\ Len(nextIdx) = L + 1
        /\ blocks \in Seq(Block) /\ path \in Seq(Nat) /\ nodes \in Nat
    BY DEF WalkTypes, WalkShape, Off
  <1>4. Advances(Visited, nextIdx, L)
    BY VisitedType, Zenon DEF Advances
  <1>5. HerePlaced(phase, path, blocks, Visited, nodes + 1)
    BY <1>1, <1>3, <1>4, PlacedMore, Zenon DEF PathInv, HerePlaced, Advances
  <1>6. DeclPlaced(e, nodes + 1)
    BY <1>1, <1>5, Zenon DEF DeclPlaced, HerePlaced
  <1>7. ASSUME NEW i \in DOMAIN decls PROVE DeclPlaced(decls[i], nodes + 1)
    BY <1>3, <1>7, DeclType, PlacedMore, Zenon DEF PathInv, DeclPlaced
  <1>8. DeclsAlike(e, e)
    BY Zenon DEF DeclsAlike, Alike, Agree
  <1>9. ASSUME NEW i \in DOMAIN decls PROVE DeclsAlike(e, decls[i]) /\ DeclsAlike(decls[i], e)
    <2>1. DeclHere(decls[i], phase, path, blocks, nextIdx)
      BY <1>1, <1>9, Zenon DEF PathInv
    <2> QED BY <1>1, <2>1, Zenon DEF DeclHere, DeclsAlike, Alike, Agree
  <1>10. ASSUME NEW i \in DOMAIN decls PROVE DeclHere(decls[i], phase, path, blocks, Visited)
    <2>1. DeclHere(decls[i], phase, path, blocks, nextIdx) /\ DeclPlaced(decls[i], nodes)
      BY <1>1, <1>10, Zenon DEF PathInv
    <2>2. ASSUME Off(decls[i].zone) = off
          PROVE  Below(decls[i].path, decls[i].block, path, L, Visited, off)
      <3>1. /\ decls[i].path \in Seq(Nat) /\ decls[i].block \in Seq(Block)
            /\ Len(decls[i].path) = Len(decls[i].block) + off
            /\ Below(decls[i].path, decls[i].block, path, L, nextIdx, off)
        BY <1>10, <2>1, <2>2, DeclType, Zenon DEF DeclHere, DeclPlaced, Placed
      <3> QED BY <1>3, <1>4, <3>1, BelowMore, Zenon
    <2> QED BY <2>1, <2>2, Zenon DEF DeclHere
  <1>11. DeclHere(e, phase, path, blocks, Visited)
    <2>1. Alike(path, blocks, path, blocks, off)
      BY Zenon DEF Alike, Agree
    <2>2. ASSUME NEW n \in 0..L, n < L PROVE path[n + off + 1] < Visited[n + 1]
      <3>1. n + 1 \in 1..L /\ (n + 1) + off = n + off + 1
        BY <1>3, <2>2
      <3>2. path[(n + 1) + off] < nextIdx[n + 1]
        BY <1>1, <3>1, Zenon DEF PathInv, HerePlaced
      <3> QED BY <1>4, <3>1, <3>2, Zenon DEF Advances
    <2> QED BY <1>1, <2>1, <2>2, Zenon DEF DeclHere, Below
  <1>12. \A i \in DOMAIN decls' : DeclPlaced(decls'[i], nodes')
    BY <1>1, <1>2, <1>6, <1>7, Zenon
  <1>13. \A i, j \in DOMAIN decls' : DeclsAlike(decls'[i], decls'[j])
    <2> SUFFICES ASSUME NEW i \in DOMAIN decls', NEW j \in DOMAIN decls'
                 PROVE  DeclsAlike(decls'[i], decls'[j])
      BY Zenon
    <2> QED BY <1>2, <1>8, <1>9, Zenon DEF PathInv
  <1>14. /\ HerePlaced(phase', path', blocks', nextIdx', nodes')
         /\ \A i \in DOMAIN decls' : DeclHere(decls'[i], phase', path', blocks', nextIdx')
    BY <1>1, <1>2, <1>5, <1>10, <1>11, Zenon
  <1>15. phase' \in {"globals", "cli"} => \A i \in DOMAIN decls' : decls'[i].zone # "body"
    BY <1>1, <1>2, Zenon DEF PathInv
  <1> QED BY <1>12, <1>13, <1>14, <1>15, Zenon DEF PathInv

\* A block that is entered has a path of its own.
LEMMA PathEnter ==
    ASSUME WalkTypes, WalkShape, PathInv, NEW spec \in Specs, NEW name \in Names \cup {None},
           NEW r \in Redises \cup {None}, EnterMatch(spec, name, r)
    PROVE  PathInv'
  <1> DEFINE off == Off(phase)
             L == Len(blocks)
  <1>1. /\ phase \in {"globals", "body"} /\ phase \in Compiling
        /\ path' = Append(path, SelfIdx) /\ nextIdx' = Append(Visited, 0)
        /\ nodes' = nodes + 1 /\ phase' = phase /\ decls' = decls
    BY Zenon DEF EnterMatch, Walking, Compiling
  <1>2. /\ off \in {0, 1} /\ L \in Nat /\ nextIdx \in Seq(Nat) /\ Len(nextIdx) = L + 1
        /\ blocks \in Seq(Block) /\ path \in Seq(Nat) /\ nodes \in Nat
    BY DEF WalkTypes, WalkShape, Off
  <1>3. Len(path) = L + off
    BY <1>1 DEF WalkShape, Off
  <1>4. Pushed(path', path, nextIdx[L + 1])
    BY <1>1, VisitedType, Pushes, Zenon DEF WalkTypes
  <1>5. Advances(nextIdx', nextIdx, L)
    <2>1. /\ Visited \in Seq(Nat) /\ Len(Visited) = L + 1 /\ 0 \in Nat
          /\ \A n \in 1..L : Visited[n] = nextIdx[n]
          /\ Visited[L + 1] = nextIdx[L + 1] + 1
      BY <1>2, VisitedType
    <2>2. Pushed(nextIdx', Visited, 0)
      BY <1>1, <2>1, Pushes, Zenon
    <2>3. (\A n \in 1..L : n \in 1..(L + 1)) /\ L + 1 \in 1..(L + 1)
      BY <1>2
    <2> QED BY <2>1, <2>2, <2>3, Zenon DEF Agree, Advances, Pushed
  <1>6. /\ Len(blocks') = L + 1 /\ Agree(blocks', blocks, L) /\ blocks'[L + 1].id = nodes
    BY EnterShape, Zenon
  <1>7. HerePlaced(phase, path, blocks, nextIdx, nodes)
    BY <1>1, Zenon DEF PathInv
  <1>8. Placed(path, blocks, off, nodes + 1)
    BY <1>2, <1>7, PlacedMore, Zenon DEF HerePlaced
  <1>9. \A n \in 1..(L + 1) : n \in 1..L \/ n = L + 1
    BY <1>2
  <1>10. ASSUME NEW n \in 1..L PROVE blocks'[n] = blocks[n] /\ path'[n + off] = path[n + off]
    <2> HIDE DEF off, L
    <2>1. n + off \in 1..Len(path)
      BY <1>2, <1>3, <1>10
    <2> QED BY <1>4, <1>6, <1>10, <2>1, Zenon DEF Agree, Pushed
  <1>11. Placed(path', blocks', off, nodes + 1)
    <2>1. Len(path') = Len(blocks') + off
      BY <1>2, <1>3, <1>4, <1>6 DEF Pushed
    <2>2. off = 1 => path'[1] = 0
      <3>1. off = 1 => 1 \in 1..Len(path)
        BY <1>2, <1>3
      <3> QED BY <1>4, <1>8, <3>1, Zenon DEF Pushed, Agree, Placed
    <2>3. nodes < nodes + 1
      BY <1>2
    <2>4. ASSUME NEW n \in 1..Len(blocks') PROVE blocks'[n].id < nodes + 1
      BY <1>6, <1>8, <1>9, <1>10, <2>3, <2>4, Zenon DEF Placed
    <2>5. Len(blocks') <= nodes + 1
      <3>1. L <= nodes
        BY <1>7, Zenon DEF HerePlaced, Placed
      <3> HIDE DEF L
      <3> QED BY <1>2, <1>6, <3>1
    <2> QED BY <2>1, <2>2, <2>4, <2>5, Zenon DEF Placed
  <1>12. HerePlaced(phase, path', blocks', nextIdx', nodes + 1)
    <2>1. ASSUME NEW n \in 1..L PROVE path'[n + off] < nextIdx'[n]
      BY <1>5, <1>7, <1>10, <2>1, Zenon DEF HerePlaced, Advances
    <2>2. path'[(L + 1) + off] < nextIdx'[L + 1]
      <3>1. (L + 1) + off = Len(path) + 1
        BY <1>2, <1>3
      <3>2. path'[(L + 1) + off] = nextIdx[L + 1]
        BY <1>4, <3>1, Zenon DEF Pushed
      <3>3. nextIdx[L + 1] < nextIdx[L + 1] + 1
        BY <1>2
      <3> QED BY <1>5, <3>2, <3>3, Zenon DEF Advances
    <2> QED BY <1>6, <1>9, <1>11, <2>1, <2>2, Zenon DEF HerePlaced
  <1>13. ASSUME NEW i \in DOMAIN decls PROVE DeclHere(decls[i], phase, path', blocks', nextIdx')
    <2> SUFFICES ASSUME Off(decls[i].zone) = off
                 PROVE  /\ Alike(decls[i].path, decls[i].block, path', blocks', off)
                        /\ Below(decls[i].path, decls[i].block, path', L + 1, nextIdx', off)
      BY <1>6, Zenon DEF DeclHere
    <2>1. /\ decls[i].path \in Seq(Nat) /\ decls[i].block \in Seq(Block)
          /\ Placed(decls[i].path, decls[i].block, off, nodes)
          /\ Alike(decls[i].path, decls[i].block, path, blocks, off)
          /\ Below(decls[i].path, decls[i].block, path, L, nextIdx, off)
      BY <1>1, <1>13, DeclType, Zenon DEF PathInv, DeclHere, DeclPlaced
    <2> HIDE DEF off, L
    <2>2. Len(blocks) = L
      BY Zenon DEF L
    <2>3. Typed(off, nodes, L, decls[i].path, decls[i].block, nextIdx)
      BY <1>2, <2>1, Zenon DEF Typed
    <2>4. Lengths(off, L, path, blocks, nextIdx, blocks')
      <3>1. Len(path) = L + off
        BY <1>3, Zenon
      <3>2. Len(nextIdx) = L + 1
        BY <1>2, Zenon
      <3>3. Len(blocks') = L + 1
        BY <1>6, Zenon
      <3> QED BY <2>2, <3>1, <3>2, <3>3, Zenon DEF Lengths
    <2> QED BY <1>4, <1>5, <1>6, <2>1, <2>3, <2>4, PlaceEnter, Zenon
  <1>14. ASSUME NEW i \in DOMAIN decls PROVE DeclPlaced(decls[i], nodes + 1)
    BY <1>2, <1>14, DeclType, PlacedMore, Zenon DEF PathInv, DeclPlaced
  <1> QED BY <1>1, <1>12, <1>13, <1>14, Zenon DEF PathInv

\* Leaving a block forgets its index only.
LEMMA PathLeave ==
    ASSUME WalkTypes, WalkShape, PathInv, LeaveMatch
    PROVE  PathInv'
  <1> DEFINE off == Off(phase)
             L == Len(blocks)
  <1>1. /\ phase \in {"globals", "body"} /\ phase \in Compiling
        /\ path' = Pop(path) /\ nextIdx' = Pop(nextIdx)
        /\ UNCHANGED <<phase, decls, nodes>>
    BY Zenon DEF LeaveMatch, Walking, Compiling, PoppedPath
  <1>2. /\ off \in {0, 1} /\ L \in Nat /\ L > 0 /\ Len(blocks') = L - 1
        /\ Agree(blocks', blocks, L - 1)
    BY LeaveShape, Zenon DEF Off
  <1>3. /\ path \in Seq(Nat) /\ Len(path) = L + off /\ nextIdx \in Seq(Nat) /\ Len(nextIdx) = L + 1
    BY <1>1 DEF WalkTypes, WalkShape, Off
  <1>4. path # <<>> /\ nextIdx # <<>>
    <2> HIDE DEF off, L
    <2> QED BY <1>2, <1>3
  <1>5. Len(path') = Len(path) - 1 /\ Agree(path', path, Len(path) - 1)
    BY <1>1, <1>3, <1>4, Pops, Zenon
  <1>6. Len(nextIdx') = Len(nextIdx) - 1 /\ Agree(nextIdx', nextIdx, Len(nextIdx) - 1)
    BY <1>1, <1>3, <1>4, Pops, Zenon
  <1>7. HerePlaced(phase, path, blocks, nextIdx, nodes)
    BY <1>1, Zenon DEF PathInv
  <1>8. ASSUME NEW n \in 1..(L - 1)
        PROVE  /\ blocks'[n] = blocks[n] /\ path'[n + off] = path[n + off]
               /\ nextIdx'[n] = nextIdx[n] /\ n \in 1..L
    <2> HIDE DEF off, L
    <2>1. n \in 1..L /\ n \in 1..(Len(nextIdx) - 1) /\ n + off \in 1..(Len(path) - 1)
      BY <1>2, <1>3, <1>8
    <2> QED BY <1>2, <1>5, <1>6, <1>8, <2>1, Zenon DEF Agree
  <1>9. Placed(path', blocks', off, nodes)
    <2>1. Len(path') = Len(blocks') + off
      <3> HIDE DEF off, L
      <3> QED BY <1>2, <1>3, <1>5
    <2>2. off = 1 => path'[1] = 0
      <3>1. off = 1 => 1 \in 1..(Len(path) - 1)
        BY <1>2, <1>3
      <3> QED BY <1>5, <1>7, <3>1, Zenon DEF Agree, HerePlaced, Placed
    <2>3. ASSUME NEW n \in 1..Len(blocks') PROVE blocks'[n].id < nodes
      BY <1>2, <1>7, <1>8, <2>3, Zenon DEF HerePlaced, Placed
    <2>4. Len(blocks') <= nodes
      <3>1. L <= nodes /\ nodes \in Nat
        BY <1>7, Zenon DEF HerePlaced, Placed, WalkTypes
      <3> HIDE DEF L
      <3> QED BY <1>2, <3>1
    <2> QED BY <2>1, <2>2, <2>3, <2>4, Zenon DEF Placed
  <1>10. HerePlaced(phase, path', blocks', nextIdx', nodes)
    BY <1>2, <1>7, <1>8, <1>9, Zenon DEF HerePlaced
  <1>11. ASSUME NEW n \in Nat, n <= L - 1
         PROVE  /\ n <= L /\ n \in 0..L /\ nextIdx'[n + 1] = nextIdx[n + 1]
                /\ \A m \in 1..n : blocks'[m] = blocks[m]
                /\ \A m \in 1..(n + off) : path'[m] = path[m]
    <2> HIDE DEF off, L
    <2>1. /\ n <= L /\ n \in 0..L /\ n + 1 \in 1..(Len(nextIdx) - 1)
          /\ \A m \in 1..n : m \in 1..(L - 1)
          /\ \A m \in 1..(n + off) : m \in 1..(Len(path) - 1)
      BY <1>2, <1>3, <1>11
    <2> QED BY <1>2, <1>5, <1>6, <2>1, Zenon DEF Agree
  <1>12. ASSUME NEW i \in DOMAIN decls PROVE DeclHere(decls[i], phase, path', blocks', nextIdx')
    <2> DEFINE p == decls[i].path
               bs == decls[i].block
    <2> SUFFICES ASSUME Off(decls[i].zone) = off
                 PROVE  /\ Alike(p, bs, path', blocks', off)
                        /\ Below(p, bs, path', L - 1, nextIdx', off)
      BY <1>2, Zenon DEF DeclHere
    <2>1. Alike(p, bs, path, blocks, off) /\ Below(p, bs, path, L, nextIdx, off)
      BY <1>1, <1>12, Zenon DEF PathInv, DeclHere
    <2> HIDE DEF p, bs
    <2>2. ASSUME NEW n \in Nat, n <= L - 1
          PROVE  /\ Agree(bs, blocks', n) <=> Agree(bs, blocks, n)
                 /\ Agree(p, path', n + off) <=> Agree(p, path, n + off)
      BY <1>11, <2>2, Zenon DEF Agree
    <2>3. Alike(p, bs, path', blocks', off)
      BY <1>2, <1>11, <2>1, <2>2, Zenon DEF Alike
    <2>4. \A n \in 0..(L - 1) : n \in Nat /\ n <= L - 1
      BY <1>2
    <2>5. Below(p, bs, path', L - 1, nextIdx', off)
      BY <1>11, <2>1, <2>2, <2>4, Zenon DEF Below
    <2> QED BY <2>3, <2>5, Zenon
  <1> QED BY <1>1, <1>10, <1>12, Zenon DEF PathInv

\* The walk begins at the top.
LEMMA BlankPaths == Blank => PathInv
  <1> SUFFICES ASSUME Blank PROVE PathInv
    BY Zenon
  <1>1. /\ decls = <<>> /\ blocks = <<>> /\ path = <<>> /\ nodes = 0
        /\ phase \in {"globals", "failed"}
    BY Zenon DEF Blank
  <1>2. DOMAIN decls = {}
    BY <1>1
  <1>3. phase # "body"
    BY <1>1
  <1>4. HerePlaced(phase, path, blocks, nextIdx, nodes)
    BY <1>1, <1>3 DEF HerePlaced, Placed, Off
  <1> QED BY <1>2, <1>4, Zenon DEF PathInv

\* The paths stay true to the blocks.
LEMMA PathStep ==
    ASSUME WalkTypes, WalkShape, PathInv, [PipelineNext]_<<vars, pipeVars>>
    PROVE  PathInv'
  <1>1. CASE UNCHANGED vars
    BY <1>1, Zenon DEF vars, PathInv
  <1>2. CASE Starts
    <2>1. phase' \notin Compiling
      BY <1>2 DEF Starts, Compiling
    <2>2. phase' \notin {"globals", "cli"} /\ UNCHANGED <<decls, nodes>>
      BY <1>2, <2>1, Zenon DEF Starts, Compiling
    <2> QED BY <2>1, <2>2, Zenon DEF PathInv
  <1>3. CASE Blank'
    BY <1>3, BlankPaths, PTL
  <1>4. CASE Proceeds
    <2>1. blocks = <<>> /\ Len(blocks) = 0 /\ blocks' = <<>> /\ UNCHANGED <<decls, nodes, blocks>>
      BY <1>4, ProceedsShape DEF Proceeds
    <2>2. CASE phase = "globals" /\ phase' = "cli" /\ UNCHANGED <<path, nextIdx>>
      <3>1. Off(phase') = Off(phase) /\ phase \in Compiling
        BY <2>2 DEF Off, Compiling
      <3> QED BY <2>1, <2>2, <3>1, Zenon DEF PathInv, HerePlaced, DeclHere
    <2>3. CASE phase = "cli" /\ phase' = "body"
      <3>1. Off(phase') = 1 /\ \A i \in DOMAIN decls : Off(decls[i].zone) = 0
        BY <2>3, Zenon DEF Off, PathInv
      <3>2. Len(path') = 1 /\ path'[1] = 0 /\ nodes \in Nat
        BY <1>4, <2>3, ProceedsShape DEF Pushed, WalkTypes
      <3>3. HerePlaced(phase', path', blocks', nextIdx', nodes')
        BY <2>1, <3>1, <3>2 DEF HerePlaced, Placed
      <3>4. \A i \in DOMAIN decls : DeclHere(decls[i], phase', path', blocks', nextIdx')
        BY <3>1 DEF DeclHere
      <3>5. phase' \notin {"globals", "cli"}
        BY <2>3
      <3> QED BY <2>1, <3>3, <3>4, <3>5, Zenon DEF PathInv
    <2> QED BY <1>4, <2>2, <2>3, Zenon DEF Proceeds
  <1>5. CASE EndBody
    <2>1. phase' = "compiled" /\ nodes' = nodes
      BY <1>5, Zenon DEF EndBody
    <2>2. phase' \notin Compiling /\ phase' \notin {"globals", "cli"}
      BY <2>1 DEF Compiling
    <2>3. /\ DOMAIN decls' = DOMAIN decls
          /\ \A i \in DOMAIN decls :
               /\ decls'[i].block = decls[i].block /\ decls'[i].path = decls[i].path
               /\ decls'[i].zone = decls[i].zone
      BY <1>5, ResolvedShape, Zenon DEF EndBody, Collected
    <2>4. \A i \in DOMAIN decls : DeclPlaced(decls'[i], nodes)
      BY <2>3, Zenon DEF PathInv, DeclPlaced
    <2>5. ASSUME NEW i \in DOMAIN decls, NEW j \in DOMAIN decls
          PROVE  DeclsAlike(decls'[i], decls'[j])
      <3>1. DeclsAlike(decls[i], decls[j])
        BY <2>5, Zenon DEF PathInv
      <3> QED BY <2>3, <2>5, <3>1, Zenon DEF DeclsAlike
    <2> QED BY <2>1, <2>2, <2>3, <2>4, <2>5, Zenon DEF PathInv
  <1> QED BY <1>1, <1>2, <1>3, <1>4, <1>5, StepCases, PathAdds, PathEnter, PathLeave, Zenon

-------------------------------------------------------------------------------
(* What is carved out, and the order of the rules.                         *)

Compiled == {"compiled", "serving"}

\* A compiled rule leaves out what resolve_exclusions found; the listener's rules
\* come after the global ones.
CarvedInv ==
    /\ phase \in Compiled => \A i \in DOMAIN decls : decls[i].excluded = Excluded(decls, i)
    /\ \A i, j \in DOMAIN decls : i < j /\ decls[i].zone = "body" => decls[j].zone = "body"

\* Exclusions look at what was collected only.
LEMMA ExcludedSame ==
    ASSUME NEW ds, NEW es, DOMAIN es = DOMAIN ds, NEW i \in DOMAIN ds,
           \A j \in DOMAIN ds : Collected(es[j], ds[j])
    PROVE  Excluded(es, i) = Excluded(ds, i)
  <1>1. \A j \in DOMAIN ds : Shadows(es[j], es[i]) <=> Shadows(ds[j], ds[i])
    BY Zenon DEF Collected, Shadows
  <1>2. \A j \in DOMAIN ds : Carved(es[j]) = Carved(ds[j])
    BY Zenon DEF Collected, Carved
  <1> QED BY <1>1, <1>2, Zenon DEF Excluded

\* Nothing is carved out of nothing.
LEMMA BlankCarved == Blank => CarvedInv
  <1> SUFFICES ASSUME Blank PROVE CarvedInv
    BY Zenon
  <1>1. DOMAIN decls = {}
    BY DEF Blank
  <1> QED BY <1>1, Zenon DEF CarvedInv

\* What is carved out stays so.
LEMMA CarvedStep ==
    ASSUME WalkTypes, WalkShape, PathInv, CarvedInv, [PipelineNext]_<<vars, pipeVars>>
    PROVE  CarvedInv'
  <1>1. CASE UNCHANGED vars
    BY <1>1, Zenon DEF vars, CarvedInv
  <1>2. CASE Starts
    <2>1. phase \in Compiled /\ decls' = decls
      BY <1>2, Zenon DEF Starts, Compiled
    <2> QED BY <2>1, Zenon DEF CarvedInv
  <1>3. CASE Blank'
    BY <1>3, BlankCarved, PTL
  <1>4. CASE Proceeds \/ LeaveMatch
             \/ \E spec \in Specs, name \in Names \cup {None}, r \in Redises \cup {None} :
                  EnterMatch(spec, name, r)
    <2>1. phase' \in Compiling /\ decls' = decls
      BY <1>4, Zenon DEF Proceeds, LeaveMatch, EnterMatch, Walking, Compiling
    <2>2. phase' \notin Compiled
      BY <2>1 DEF Compiled, Compiling
    <2> QED BY <2>1, <2>2, Zenon DEF CarvedInv
  <1>5. ASSUME NEW k \in Kinds, Adds(k) PROVE CarvedInv'
    <2> DEFINE N == Len(decls) + 1
    <2>1. NewDecl(k).zone = phase /\ phase' = phase /\ phase \in Compiling
      BY <1>5 DEF NewDecl, Adds
    <2>2. phase' \notin Compiled
      BY <2>1 DEF Compiled, Compiling
    <2>3. /\ \A i \in DOMAIN decls : decls'[i] = decls[i] /\ i < N /\ i \in Nat
          /\ decls'[N].zone = phase /\ DOMAIN decls' = DOMAIN decls \cup {N} /\ N \in Nat
      <3>1. \A i \in 1..Len(decls) : i < N /\ i \in Nat
        BY DEF WalkTypes
      <3>2. N \in Nat
        BY DEF WalkTypes
      <3> QED BY <1>5, <2>1, <3>1, <3>2, AddsShape, Zenon
    <2>4. phase = "body" \/ \A i \in DOMAIN decls : decls[i].zone # "body"
      BY <2>1, Zenon DEF PathInv, Compiling
    <2> HIDE DEF N
    <2>5. ASSUME NEW i \in DOMAIN decls', NEW j \in DOMAIN decls', i < j, decls'[i].zone = "body"
          PROVE  decls'[j].zone = "body"
      <3>1. CASE i \in DOMAIN decls /\ j \in DOMAIN decls
        BY <2>3, <2>5, <3>1, Zenon DEF CarvedInv
      <3>2. CASE i \in DOMAIN decls /\ j = N
        BY <2>3, <2>4, <2>5, <3>2, Zenon
      <3>3. CASE i = N
        BY <2>3, <2>5, <3>3
      <3> QED BY <2>3, <2>5, <3>1, <3>2, <3>3, Zenon
    <2> QED BY <2>2, <2>5, Zenon DEF CarvedInv
  <1>6. CASE EndBody
    <2>1. /\ DOMAIN decls' = DOMAIN decls
          /\ \A i \in DOMAIN decls :
               Collected(decls'[i], decls[i]) /\ decls'[i].excluded = Excluded(decls, i)
      BY <1>6, ResolvedShape, Zenon DEF EndBody
    <2>2. \A i \in DOMAIN decls : Excluded(decls', i) = Excluded(decls, i)
      BY <2>1, ExcludedSame, Zenon
    <2>3. \A i \in DOMAIN decls : decls'[i].zone = decls[i].zone
      BY <2>1, Zenon DEF Collected
    <2> QED BY <2>1, <2>2, <2>3, Zenon DEF CarvedInv
  <1> QED BY <1>1, <1>2, <1>3, <1>4, <1>5, <1>6, StepCases, Zenon

-------------------------------------------------------------------------------
(* Innermost wins.                                                         *)

\* A set of natural numbers has a least element.
LEMMA Least ==
    ASSUME NEW D \in SUBSET Nat, D # {}
    PROVE  \E n \in D : \A m \in D : n <= m
  <1> DEFINE R == OpToRel(<, Nat)
  <1>1. IsWellFoundedOn(R, Nat)
    BY NatLessThanWellFounded, Zenon
  <1>2. ASSUME NEW m \in Nat, NEW n \in Nat, <<m, n>> \notin R PROVE n <= m
    BY <1>2 DEF OpToRel
  <1> HIDE DEF R
  <1>3. PICK n \in D : \A m \in D : ~(<<m, n>> \in R)
    BY <1>1, WFMin, Zenon
  <1>4. \A m \in D : m \in Nat
    BY Zenon
  <1> QED BY <1>2, <1>3, <1>4, Zenon

\* Some rule of a set of rules has the longest path.
LEMMA Deepest ==
    ASSUME WalkTypes, PathInv, NEW T \in SUBSET DOMAIN decls, T # {}
    PROVE  \E i \in T : \A j \in T : ~(Len(decls[j].path) > Len(decls[i].path))
  <1> DEFINE B == nodes + 1
             D == {B - Len(decls[i].path) : i \in T}
  <1>1. ASSUME NEW i \in T PROVE Len(decls[i].path) \in Nat /\ Len(decls[i].path) <= B /\ B \in Nat
    <2>1. /\ Len(decls[i].path) \in Nat /\ Len(decls[i].block) \in Nat
          /\ Placed(decls[i].path, decls[i].block, Off(decls[i].zone), nodes)
      BY <1>1, DeclType, Zenon DEF PathInv, DeclPlaced
    <2>2. Off(decls[i].zone) \in {0, 1} /\ nodes \in Nat
      BY Zenon DEF Off, WalkTypes
    <2>3. Len(decls[i].path) = Len(decls[i].block) + Off(decls[i].zone)
          /\ Len(decls[i].block) <= nodes
      BY <2>1, Zenon DEF Placed
    <2> QED BY <2>1, <2>2, <2>3
  <1>2. \A a, b \in Nat : a <= b => b - a \in Nat
    OBVIOUS
  <1> HIDE DEF B
  <1>3. D \in SUBSET Nat /\ D # {}
    BY <1>1, <1>2, Zenon
  <1>4. PICK n \in D : \A m \in D : n <= m
    BY <1>3, Least, Zenon
  <1>5. PICK i \in T : n = B - Len(decls[i].path)
    BY Zenon
  <1>6. \A a, b, c \in Nat : c - a <= c - b => ~(b > a)
    OBVIOUS
  <1>7. ASSUME NEW j \in T PROVE ~(Len(decls[j].path) > Len(decls[i].path))
    <2>1. B - Len(decls[i].path) <= B - Len(decls[j].path)
      BY <1>4, <1>5, <1>7, Zenon
    <2> QED BY <1>1, <1>6, <1>7, <2>1, Zenon
  <1> QED BY <1>7, Zenon

\* What a rule leaves out is what rules with longer paths take.
LEMMA NotFiring ==
    ASSUME phase \in Compiled, CarvedInv, NEW i \in DOMAIN decls, NEW q,
           Matches(decls[i].scope, q)
    PROVE  ~Fires(decls[i], q) <=>
           \E j \in DOMAIN decls : Shadows(decls[j], decls[i]) /\ Matches(decls[j].scope, q)
  <1>1. decls[i].excluded = Excluded(decls, i)
    BY Zenon DEF CarvedInv
  <1>2. ASSUME NEW d PROVE Matches(Carved(d), q) <=> Matches(d.scope, q)
    <2>1. CASE d.scope = None
      <3>1. DOMAIN AlwaysTrue = {}
        BY DEF AlwaysTrue
      <3> QED BY <2>1, <3>1, Zenon DEF Matches, Carved
    <2>2. CASE d.scope # None
      BY <2>2, Zenon DEF Carved
    <2> QED BY <2>1, <2>2, Zenon
  <1>3. ~Fires(decls[i], q) <=> \E p \in Excluded(decls, i) : Matches(p, q)
    BY <1>1, Zenon DEF Fires
  <1>4. ASSUME NEW p \in Excluded(decls, i), Matches(p, q)
        PROVE  \E j \in DOMAIN decls : Shadows(decls[j], decls[i]) /\ Matches(decls[j].scope, q)
    <2>1. PICK j \in DOMAIN decls : Shadows(decls[j], decls[i]) /\ p = Carved(decls[j])
      BY <1>4, Zenon DEF Excluded
    <2> QED BY <1>2, <1>4, <2>1, Zenon
  <1>5. ASSUME NEW j \in DOMAIN decls, Shadows(decls[j], decls[i]), Matches(decls[j].scope, q)
        PROVE  \E p \in Excluded(decls, i) : Matches(p, q)
    <2>1. Carved(decls[j]) \in Excluded(decls, i)
      BY <1>5, Zenon DEF Excluded
    <2> QED BY <1>2, <1>5, <2>1, Zenon
  <1> QED BY <1>3, <1>4, <1>5, Zenon

\* Of two rules of one kind, one shadows the other just if it stands inside the other's
\* block, unless the zero of the listener's paths stands for a global match block.
LEMMA InsideShadows ==
    ASSUME WalkTypes, PathInv, NEW i \in DOMAIN decls, NEW j \in DOMAIN decls,
           Exclusive(i, j)
    PROVE  /\ Inside(decls[j], decls[i]) /\ ~Collides(decls[j], decls[i])
              => Shadows(decls[j], decls[i])
           /\ Shadows(decls[j], decls[i]) /\ ~Collides(decls[i], decls[j])
              => Inside(decls[j], decls[i])
  <1> DEFINE d == decls[i]
             e == decls[j]
             off == Off(d.zone)
  <1>1. /\ d.path \in Seq(Nat) /\ d.block \in Seq(Block) /\ e.path \in Seq(Nat)
        /\ e.block \in Seq(Block) /\ Len(d.path) \in Nat /\ Len(d.block) \in Nat
        /\ Len(e.path) \in Nat /\ Len(e.block) \in Nat
    BY DeclType, Zenon
  <1>2. /\ Len(d.path) = Len(d.block) + off /\ Len(e.path) = Len(e.block) + Off(e.zone)
        /\ off \in {0, 1} /\ Off(e.zone) \in {0, 1} /\ DeclsAlike(d, e)
    BY Zenon DEF PathInv, DeclPlaced, Placed, Off
  <1>3. /\ Body(d) = Body(e) <=> Off(d.zone) = Off(e.zone)
        /\ Body(d) = "globals" <=> Off(d.zone) = 0
        /\ Body(e) = "body" <=> Off(e.zone) = 1
    BY DEF Body, Off
  <1>4. d.kind \in ExclusiveKinds /\ e.kind = d.kind
    BY Zenon DEF Exclusive
  <1> HIDE DEF d, e, off
  <1>5. DOMAIN d.block = 1..Len(d.block) /\ DOMAIN d.path = 1..Len(d.path)
    BY <1>1
  <1>6. ASSUME Body(d) = Body(e)
        PROVE  /\ Len(e.path) > Len(d.path) <=> Len(e.block) > Len(d.block)
               /\ Len(e.block) > Len(d.block) =>
                    (Agree(d.block, e.block, Len(d.block)) <=> Agree(d.path, e.path, Len(d.path)))
    <2>1. Off(e.zone) = off /\ Off(d.zone) = off
      BY <1>3, <1>6, Zenon DEF off
    <2>2. Len(e.path) > Len(d.path) <=> Len(e.block) > Len(d.block)
      BY <1>1, <1>2, <2>1
    <2>3. Len(e.block) > Len(d.block) =>
            Len(d.block) <= Len(d.block) /\ Len(d.block) <= Len(e.block)
      BY <1>1
    <2>4. Alike(d.path, d.block, e.path, e.block, off)
      BY <1>2, <2>1, Zenon DEF DeclsAlike
    <2> QED BY <1>1, <1>2, <2>2, <2>3, <2>4, Zenon DEF Alike
  <1>7. ASSUME Len(e.block) > Len(d.block)
        PROVE  StartsWith(e.block, d.block) <=> Agree(d.block, e.block, Len(d.block))
    <2>1. Len(d.block) <= Len(e.block)
      BY <1>1, <1>7
    <2> QED BY <1>5, <2>1, Zenon DEF StartsWith, Agree
  <1>8. ASSUME Len(e.path) > Len(d.path)
        PROVE  StartsWith(e.path, d.path) <=> Agree(d.path, e.path, Len(d.path))
    <2>1. Len(d.path) <= Len(e.path)
      BY <1>1, <1>8
    <2> QED BY <1>5, <2>1, Zenon DEF StartsWith, Agree
  <1>9. ASSUME Body(d) = Body(e)
        PROVE  /\ Len(e.block) > Len(d.block) /\ StartsWith(e.block, d.block) => Shadows(e, d)
               /\ Shadows(e, d) => Len(e.block) > Len(d.block) /\ StartsWith(e.block, d.block)
    BY <1>4, <1>6, <1>7, <1>8, <1>9, Zenon DEF Shadows
  <1>10. ASSUME Body(d) = "globals", d.block = <<>>, Body(e) = "body" PROVE Shadows(e, d)
    <2>1. Len(d.path) = 0 /\ Len(e.path) > 0
      <3>1. Len(d.block) = 0
        BY <1>10
      <3>2. off = 0 /\ Off(e.zone) = 1
        BY <1>3, <1>10, Zenon DEF off
      <3> QED BY <1>1, <1>2, <3>1, <3>2
    <2>2. Len(e.path) > Len(d.path) /\ Agree(d.path, e.path, Len(d.path))
      BY <2>1 DEF Agree
    <2> QED BY <1>4, <1>8, <2>2, Zenon DEF Shadows
  <1>11. Inside(e, d) /\ ~Collides(e, d) => Shadows(e, d)
    BY <1>9, <1>10, Zenon DEF Inside, Collides
  <1>12. ASSUME Shadows(e, d), ~Collides(d, e) PROVE Inside(e, d)
    <2>1. CASE Body(d) = Body(e)
      BY <1>9, <1>12, <2>1, Zenon DEF Inside
    <2>2. CASE Body(d) = "globals" /\ Body(e) = "body"
      BY <2>2, Zenon DEF Inside
    <2>3. CASE Body(d) = "body" /\ Body(e) = "globals"
      <3>1. e.block = <<>>
        BY <1>12, <2>3, Zenon DEF Collides
      <3>2. Len(e.block) = 0
        BY <3>1
      <3>3. Off(e.zone) = 0
        BY <2>3 DEF Body, Off
      <3>4. Len(e.path) > Len(d.path)
        BY <1>12, Zenon DEF Shadows
      <3> QED BY <1>1, <1>2, <3>2, <3>3, <3>4
    <2>4. Body(d) \in {"globals", "body"} /\ Body(e) \in {"globals", "body"}
      BY Zenon DEF Body
    <2> QED BY <2>1, <2>2, <2>3, <2>4, Zenon
  <1> QED BY <1>11, <1>12, Zenon DEF d, e

\* Then the innermost rule wins.
LEMMA WinsInnermost ==
    ASSUME WalkTypes, PathInv, CarvedInv
    PROVE  InnermostWins
  <1> SUFFICES ASSUME phase = "compiled", NEW i \in DOMAIN decls, NEW q \in Requests,
                      decls[i].kind \in ExclusiveKinds, Matches(decls[i].scope, q)
               PROVE  /\ \E j \in Rivals(i, q) : Fires(decls[j], q)
                      /\ \A j \in Rivals(i, q) :
                           Inside(decls[j], decls[i]) /\ Fires(decls[i], q)
                           => Collides(decls[j], decls[i])
                      /\ ~Fires(decls[i], q) =>
                           \E j \in Rivals(i, q) :
                               Inside(decls[j], decls[i]) \/ Collides(decls[i], decls[j])
    BY Zenon DEF InnermostWins
  <1> DEFINE rivals == Rivals(i, q)
  <1> USE DEF Rivals
  <1>1. phase \in Compiled
    BY Zenon DEF Compiled
  <1>2. ASSUME NEW j \in rivals, NEW l \in DOMAIN decls, Shadows(decls[l], decls[j]),
               Matches(decls[l].scope, q)
        PROVE  l \in rivals
    BY <1>2, Zenon DEF Exclusive, Shadows
  <1>3. i \in rivals
    BY Zenon DEF Exclusive
  <1>4. \E j \in rivals : Fires(decls[j], q)
    <2>1. rivals \in SUBSET DOMAIN decls /\ rivals # {}
      BY <1>3, Zenon
    <2>2. PICK j \in rivals : \A l \in rivals : ~(Len(decls[l].path) > Len(decls[j].path))
      BY <2>1, Deepest, Zenon
    <2>3. j \in DOMAIN decls /\ Matches(decls[j].scope, q)
      BY <2>2, Zenon
    <2>4. ASSUME NEW l \in DOMAIN decls, Shadows(decls[l], decls[j]), Matches(decls[l].scope, q)
          PROVE  FALSE
      <3>1. l \in rivals /\ Len(decls[l].path) > Len(decls[j].path)
        BY <1>2, <2>2, <2>4, Zenon DEF Shadows
      <3> QED BY <2>2, <3>1, Zenon
    <2> QED BY <1>1, <2>2, <2>3, <2>4, NotFiring, Zenon
  <1>5. ASSUME NEW j \in rivals, Inside(decls[j], decls[i]), ~Collides(decls[j], decls[i])
        PROVE  ~Fires(decls[i], q)
    <2>1. Shadows(decls[j], decls[i])
      BY <1>5, InsideShadows, Zenon
    <2> QED BY <1>1, <1>5, <2>1, NotFiring, Zenon
  <1>6. ASSUME ~Fires(decls[i], q)
        PROVE  \E j \in rivals : Inside(decls[j], decls[i]) \/ Collides(decls[i], decls[j])
    <2>1. PICK j \in DOMAIN decls : Shadows(decls[j], decls[i]) /\ Matches(decls[j].scope, q)
      BY <1>1, <1>6, NotFiring, Zenon
    <2>2. j \in rivals
      BY <1>2, <1>3, <2>1, Zenon
    <2> QED BY <2>1, <2>2, InsideShadows, Zenon
  <1> QED BY <1>4, <1>5, <1>6, Zenon

-------------------------------------------------------------------------------
(* Passes through the layers.                                              *)

IsPass(p) ==
    p = [sent |-> p.sent, req |-> p.req, at |-> p.at, seen |-> p.seen, route |-> p.route,
         end |-> p.end]

Changed(i) == decls[i].kind \in Changing

\* What the layers met so far have seen: each was met with a request its predicate
\* accepts, and only a layer that changes requests is between two different ones.
Seen(p) ==
    /\ \A i \in DOMAIN p.seen :
         i \in DOMAIN decls /\ Fires(decls[i], p.seen[i]) /\ p.at \in Nat /\ i <= p.at
    /\ \A i, j \in DOMAIN p.seen : i < j =>
         p.seen[j] = p.seen[i] \/ \E k \in DOMAIN p.seen : i <= k /\ k < j /\ Changed(k)
    /\ \A i \in DOMAIN p.seen :
         p.req = p.seen[i] \/ \E k \in DOMAIN p.seen : i <= k /\ Changed(k)
    /\ \A i \in DOMAIN p.seen :
         p.seen[i] = p.sent \/ \E k \in DOMAIN p.seen : k < i /\ Changed(k)
    /\ p.req = p.sent \/ \E k \in DOMAIN p.seen : Changed(k)

\* The rules that route q.
Routing(q) == {i \in Routes : Fires(decls[i], q)}

\* Where a pass has ended.
Ended(p) ==
    /\ p.end = "backend" => p.route \in Routing(p.req) /\ \A i \in Routing(p.req) : p.route <= i
    /\ p.end = "own target" => Routes = {}
    /\ p.end = "bad gateway" => Routing(p.req) = {}

PassInv ==
    /\ phase # "serving" => pass = None
    /\ pass # None => IsPass(pass) /\ Seen(pass) /\ Ended(pass)

\* Until it serves, the listener's passes are untouched; then its rules are.
LEMMA PassCases ==
    ASSUME PassInv, [PipelineNext]_<<vars, pipeVars>>
    PROVE  \/ pass' = None
           \/ /\ decls' = decls /\ phase' = phase
              /\ \/ pass' = pass
                 \/ \E q \in Requests : Serve(q)
                 \/ \E i \in DOMAIN decls : Meet(i)
                 \/ Arrive
                 \/ Again
  <1>1. CASE UNCHANGED <<vars, pipeVars>>
    BY <1>1, Zenon DEF vars, pipeVars
  <1>2. CASE Start
    <2>1. phase # "serving" /\ pass' = pass
      BY <1>2 DEF Start
    <2> QED BY <2>1, Zenon DEF PassInv
  <1>3. CASE Compile
    <2>1. phase \in Compiling /\ pass' = pass
      BY <1>3, Zenon DEF Compile, pipeVars, Next, Rule, CliRule, EnterMatch, LeaveMatch, EndFile,
                         InvalidFlag, EndGlobals, EndBody, Invalid, Walking, Compiling
    <2>2. phase # "serving"
      BY <2>1 DEF Compiling
    <2> QED BY <2>1, <2>2, Zenon DEF PassInv
  <1>4. CASE Arrive \/ Again \/ (\E q \in Requests : Serve(q)) \/ \E i \in DOMAIN decls : Meet(i)
    BY <1>4, Zenon DEF Arrive, Again, Serve, Meet, vars
  <1> QED BY <1>1, <1>2, <1>3, <1>4, Zenon DEF PipelineNext

\* A client's request has seen nothing.
LEMMA ServeSeen ==
    ASSUME NEW q, Serve(q)
    PROVE  IsPass(pass') /\ Seen(pass') /\ Ended(pass')
  <1> DEFINE p == [sent |-> q, req |-> q, at |-> None, seen |-> <<>>, route |-> None, end |-> None]
  <1>1. p.sent = q /\ p.req = q /\ p.end = None /\ DOMAIN p.seen = {} /\ IsPass(p)
    BY DEF IsPass
  <1>2. pass' = p
    BY Zenon DEF Serve
  <1> HIDE DEF p
  <1>3. Seen(p)
    BY <1>1, Zenon DEF Seen
  <1>4. Ended(p)
    BY <1>1, PipelineConstants DEF Ended
  <1> QED BY <1>1, <1>2, <1>3, <1>4, Zenon

\* Only these layers pass on another request.
LEMMA PassedOnSame ==
    ASSUME NEW k, NEW q, NEW r \in PassedOn(k, q), k \notin Changing
    PROVE  r = q
  <1>1. k \notin Rewrites /\ k \notin HeaderRules /\ k \notin Scripts
    BY Zenon DEF Changing
  <1>2. PassedOn(k, q) \in {{}, {q}}
    BY <1>1 DEF PassedOn
  <1> QED BY <1>2, Zenon

\* The next layer sees the request as the others have left it.
LEMMA MeetSeen ==
    ASSUME WalkTypes, PassInv, NEW i \in DOMAIN decls, Meet(i)
    PROVE  IsPass(pass') /\ Seen(pass') /\ Ended(pass')
  <1> DEFINE k == decls[i].kind
             met == [pass EXCEPT !.at = i, !.seen = Noted(pass.seen, i, pass.req)]
             S == DOMAIN pass.seen
  <1>1. /\ pass # None /\ pass.end = None /\ i \in Ahead(pass.at, pass.req)
        /\ \/ \E r \in PassedOn(k, pass.req) : pass' = [met EXCEPT !.req = r]
           \/ pass' = [met EXCEPT !.end = "answered"]
    BY Zenon DEF Meet, Underway
  <1>2. IsPass(pass) /\ Seen(pass) /\ Ended(pass)
    BY <1>1, Zenon DEF PassInv
  <1> DEFINE s == Noted(pass.seen, i, pass.req)
             Moved(e, r) == /\ IsPass(e) /\ e.at = i /\ e.seen = s /\ e.sent = pass.sent
                            /\ e.req = r /\ e.end \in {pass.end, "answered"}
  <1> HIDE DEF s
  <1>3. /\ \A r : Moved([[pass EXCEPT !.at = i, !.seen = s] EXCEPT !.req = r], r)
        /\ Moved([[pass EXCEPT !.at = i, !.seen = s] EXCEPT !.end = "answered"], pass.req)
    <2>1. ASSUME NEW r, NEW e, e = [[pass EXCEPT !.at = i, !.seen = s] EXCEPT !.req = r]
          PROVE  /\ IsPass(e) /\ e.at = i /\ e.seen = s /\ e.sent = pass.sent
                 /\ e.req = r /\ e.end = pass.end
      BY <1>2, <2>1 DEF IsPass
    <2>2. ASSUME NEW e, e = [[pass EXCEPT !.at = i, !.seen = s] EXCEPT !.end = "answered"]
          PROVE  /\ IsPass(e) /\ e.at = i /\ e.seen = s /\ e.sent = pass.sent
                 /\ e.req = pass.req /\ e.end = "answered"
      BY <1>2, <2>2 DEF IsPass
    <2> QED BY <2>1, <2>2, Zenon
  <1> HIDE DEF Moved
  <1>4. PICK r : Moved(pass', r) /\ (k \notin Changing => r = pass.req)
    <2>1. CASE \E r \in PassedOn(k, pass.req) : pass' = [met EXCEPT !.req = r]
      BY <1>3, <2>1, PassedOnSame, Zenon DEF s
    <2>2. CASE pass' = [met EXCEPT !.end = "answered"]
      BY <1>3, <2>2, Zenon DEF s
    <2> QED BY <1>1, <2>1, <2>2, Zenon
  <1> USE DEF Moved, s
  <1>5. i \in Nat /\ \A j \in S : j \in Nat /\ j < i /\ j # i
    <2>1. \A j \in DOMAIN decls : j \in Nat
      BY DEF WalkTypes
    <2>2. \A j \in S : j \in DOMAIN decls /\ pass.at \in Nat /\ j <= pass.at
      BY <1>2, Zenon DEF Seen
    <2>3. pass.at \in Nat => pass.at < i
      BY <1>1, PipelineConstants, Zenon DEF Ahead, Outside
    <2>4. \A a, b, c \in Nat : a <= b /\ b < c => a < c /\ a # c
      OBVIOUS
    <2> QED BY <2>1, <2>2, <2>3, <2>4, Zenon
  <1>6. /\ DOMAIN pass'.seen = S \cup {i} /\ pass'.seen[i] = pass.req
        /\ \A j \in S : pass'.seen[j] = pass.seen[j]
    BY <1>4, <1>5, Zenon DEF Noted
  <1>7. Fires(decls[i], pass.req)
    BY <1>1, Zenon DEF Ahead
  <1> DEFINE T == DOMAIN pass'.seen
  <1>8. \A j \in T : j \in S \/ j = i
    BY <1>6, Zenon
  <1>9. \A j \in T : /\ j \in DOMAIN decls /\ Fires(decls[j], pass'.seen[j])
                     /\ pass'.at \in Nat /\ j <= pass'.at
    <2>1. \A a, b \in Nat : a < b => a <= b
      OBVIOUS
    <2>2. i <= i
      BY <1>5
    <2> QED BY <1>2, <1>4, <1>5, <1>6, <1>7, <1>8, <2>1, <2>2, Zenon DEF Seen
  <1>10. ASSUME NEW j \in T, NEW l \in T, j < l
         PROVE  pass'.seen[l] = pass'.seen[j] \/ \E m \in T : j <= m /\ m < l /\ Changed(m)
    <2>1. j # i
      <3>1. ~(i < i) /\ \A a \in S : ~(i < a)
        BY <1>5
      <3> QED BY <1>8, <1>10, <3>1, Zenon
    <2>2. j \in S
      BY <1>8, <1>10, <2>1, Zenon
    <2>3. CASE l \in S
      BY <1>2, <1>6, <1>10, <2>2, <2>3, Zenon DEF Seen
    <2>4. CASE l = i
      BY <1>2, <1>5, <1>6, <2>2, <2>4, Zenon DEF Seen
    <2> QED BY <1>8, <1>10, <2>3, <2>4, Zenon
  <1>11. ASSUME NEW j \in T
         PROVE  pass'.req = pass'.seen[j] \/ \E m \in T : j <= m /\ Changed(m)
    <2>1. CASE k \in Changing
      BY <1>4, <1>6, <1>9, <1>11, <2>1, Zenon DEF Changed
    <2>2. CASE k \notin Changing
      BY <1>2, <1>4, <1>6, <1>8, <1>11, <2>2, Zenon DEF Seen
    <2> QED BY <2>1, <2>2, Zenon
  <1>12. ASSUME NEW j \in T
         PROVE  pass'.seen[j] = pass'.sent \/ \E m \in T : m < j /\ Changed(m)
    <2>1. CASE j \in S
      BY <1>2, <1>4, <1>6, <2>1, Zenon DEF Seen
    <2>2. CASE j = i
      BY <1>2, <1>4, <1>5, <1>6, <2>2, Zenon DEF Seen
    <2> QED BY <1>8, <1>12, <2>1, <2>2, Zenon
  <1>13. pass'.req = pass'.sent \/ \E m \in T : Changed(m)
    <2>1. CASE k \in Changing
      BY <1>6, <2>1, Zenon DEF Changed
    <2>2. CASE k \notin Changing
      BY <1>2, <1>4, <1>6, <2>2, Zenon DEF Seen
    <2> QED BY <2>1, <2>2, Zenon
  <1>14. Seen(pass')
    BY <1>9, <1>10, <1>11, <1>12, <1>13, Zenon DEF Seen
  <1>15. Ended(pass')
    <2>1. pass'.end = None \/ pass'.end = "answered"
      BY <1>1, <1>4, Zenon
    <2> QED BY <2>1, PipelineConstants DEF Ended
  <1> QED BY <1>4, <1>14, <1>15, Zenon

\* A retry goes back to what its layer has seen.
LEMMA AgainSeen ==
    ASSUME WalkTypes, PassInv, Again
    PROVE  IsPass(pass') /\ Seen(pass') /\ Ended(pass')
  <1> DEFINE S == DOMAIN pass.seen
  <1>1. PICK i \in S :
          pass' = [pass EXCEPT !.req = pass.seen[i], !.at = i, !.route = None, !.end = None,
                       !.seen = Restrict(pass.seen, {j \in DOMAIN pass.seen : ~Outside(i, j)})]
    BY Zenon DEF Again
  <1>2. IsPass(pass) /\ Seen(pass)
    BY Zenon DEF PassInv, Again
  <1> DEFINE T == {j \in S : ~Outside(i, j)}
             s == Restrict(pass.seen, T)
  <1>3. /\ IsPass(pass') /\ pass'.req = pass.seen[i] /\ pass'.at = i /\ pass'.end = None
        /\ pass'.sent = pass.sent /\ pass'.seen = s
    <2>1. pass' = [pass EXCEPT !.req = pass.seen[i], !.at = i, !.route = None, !.end = None,
                       !.seen = s]
      BY <1>1, Zenon
    <2> HIDE DEF s
    <2> QED BY <1>2, <2>1 DEF IsPass
  <1>4. DOMAIN pass'.seen = T /\ \A j \in T : pass'.seen[j] = pass.seen[j]
    BY <1>3, Zenon DEF Restrict
  <1>5. \A j \in S : j \in Nat /\ j \in DOMAIN decls
    <2>1. \A j \in DOMAIN decls : j \in Nat
      BY DEF WalkTypes
    <2> QED BY <1>2, <2>1, Zenon DEF Seen
  <1>6. \A j \in S : j \in T <=> j <= i
    BY <1>5 DEF Outside
  <1>7. T \subseteq S /\ i \in T /\ \A j \in T : j <= i
    BY <1>5, <1>6
  <1>8. \A j, l \in T : (j < l \/ j = l) /\ l <= i => j <= i
    BY <1>7, Zenon
  <1>9. \A j \in S, l \in T : j < l => j \in T
    BY <1>5, <1>6, <1>7
  <1> HIDE DEF T
  <1>10. \A j \in T : /\ j \in DOMAIN decls /\ Fires(decls[j], pass'.seen[j])
                      /\ pass'.at \in Nat /\ j <= pass'.at
    BY <1>2, <1>3, <1>4, <1>5, <1>7, Zenon DEF Seen
  <1>11. ASSUME NEW j \in T, NEW l \in T, j < l
         PROVE  pass.seen[l] = pass.seen[j] \/ \E m \in T : j <= m /\ m < l /\ Changed(m)
    BY <1>2, <1>7, <1>9, <1>11, Zenon DEF Seen
  <1>12. ASSUME NEW j \in T
         PROVE  pass'.req = pass'.seen[j] \/ \E m \in T : j <= m /\ Changed(m)
    <2>1. j = i \/ j < i
      BY <1>5, <1>7, <1>12
    <2> QED BY <1>3, <1>4, <1>7, <1>11, <1>12, <2>1, Zenon
  <1>13. ASSUME NEW j \in T
         PROVE  pass.seen[j] = pass.sent \/ \E m \in T : m < j /\ Changed(m)
    BY <1>2, <1>7, <1>9, <1>13, Zenon DEF Seen
  <1>14. pass'.req = pass'.sent \/ \E m \in T : Changed(m)
    BY <1>3, <1>7, <1>13, Zenon
  <1>15. Seen(pass')
    BY <1>3, <1>4, <1>10, <1>11, <1>12, <1>13, <1>14, Zenon DEF Seen
  <1>16. Ended(pass')
    BY <1>3, PipelineConstants DEF Ended
  <1> QED BY <1>3, <1>15, <1>16, Zenon

\* The router takes the first rule that accepts the request.
LEMMA RouteIsFirst ==
    ASSUME WalkTypes, NEW q
    PROVE  /\ Route(q) = None => Routing(q) = {}
           /\ Route(q) # None =>
                Route(q) \in Routing(q) /\ \A j \in Routing(q) : Route(q) <= j
  <1> DEFINE M == Routing(q)
  <1>1. M \in SUBSET Nat
    <2>1. \A j \in DOMAIN decls : j \in Nat
      BY DEF WalkTypes
    <2> QED BY <2>1, Zenon DEF Routing, Routes
  <1>2. Route(q) = IF M = {} THEN None ELSE CHOOSE i \in M : \A j \in M : i <= j
    BY Zenon DEF Route, Routing
  <1> HIDE DEF M
  <1>3. ASSUME M # {} PROVE Route(q) \in M /\ \A j \in M : Route(q) <= j
    <2>1. \E n \in M : \A m \in M : n <= m
      BY <1>1, <1>3, Least, Zenon
    <2>2. Route(q) = CHOOSE i \in M : \A j \in M : i <= j
      BY <1>2, <1>3, Zenon
    <2> QED BY <2>1, <2>2, Zenon
  <1>4. Route(q) # None => M # {}
    BY <1>2, Zenon
  <1>5. Route(q) = None => M = {}
    <2>1. None \notin Nat
      BY PipelineConstants
    <2> QED BY <1>1, <1>3, <2>1, Zenon
  <1> QED BY <1>3, <1>4, <1>5, Zenon DEF M

\* Inside all layers a request ends where the router sends it.
LEMMA ArriveSeen ==
    ASSUME WalkTypes, PassInv, Arrive
    PROVE  IsPass(pass') /\ Seen(pass') /\ Ended(pass')
  <1> DEFINE i == Route(pass.req)
             Same(e) == /\ IsPass(e) /\ e.sent = pass.sent /\ e.req = pass.req /\ e.at = pass.at
                        /\ e.seen = pass.seen
  <1>1. IsPass(pass) /\ Seen(pass)
    BY Zenon DEF PassInv, Arrive, Underway
  <1>2. \/ Routes = {} /\ pass' = [pass EXCEPT !.end = "own target"]
        \/ Routes # {} /\ i = None /\ pass' = [pass EXCEPT !.end = "bad gateway"]
        \/ i # None /\ pass' = [pass EXCEPT !.route = i, !.end = "backend"]
    BY Zenon DEF Arrive
  <1> HIDE DEF i
  <1>3. ASSUME NEW g, pass' = [pass EXCEPT !.end = g]
        PROVE  Same(pass') /\ pass'.end = g
    BY <1>1, <1>3 DEF IsPass
  <1>4. ASSUME pass' = [pass EXCEPT !.route = i, !.end = "backend"]
         PROVE  Same(pass') /\ pass'.route = i /\ pass'.end = "backend"
    BY <1>1, <1>4 DEF IsPass
  <1>5. Same(pass')
    BY <1>2, <1>3, <1>4
  <1>6. Seen(pass')
    BY <1>1, <1>5, Zenon DEF Seen
  <1>7. Ended(pass')
    <2>1. CASE Routes = {} /\ pass' = [pass EXCEPT !.end = "own target"]
      <3>1. pass'.end = "own target"
        BY <1>3, <2>1, Zenon
      <3> QED BY <2>1, <3>1, Zenon DEF Ended
    <2>2. CASE i = None /\ pass' = [pass EXCEPT !.end = "bad gateway"]
      <3>1. pass'.end = "bad gateway" /\ Routing(pass'.req) = {}
        BY <1>3, <1>5, <2>2, RouteIsFirst, Zenon DEF i
      <3> QED BY <3>1, Zenon DEF Ended
    <2>3. CASE i # None /\ pass' = [pass EXCEPT !.route = i, !.end = "backend"]
      <3>1. pass'.end = "backend" /\ pass'.route = i /\ pass'.req = pass.req
        BY <1>4, <1>5, <2>3
      <3>2. i \in Routing(pass.req) /\ \A j \in Routing(pass.req) : i <= j
        BY <2>3, RouteIsFirst, Zenon DEF i
      <3> QED BY <3>1, <3>2, Zenon DEF Ended
    <2> QED BY <1>2, <2>1, <2>2, <2>3, Zenon
  <1> QED BY <1>5, <1>6, <1>7, Zenon

\* Every pass ends where the rules say.
LEMMA PassStep ==
    ASSUME WalkTypes, PassInv, [PipelineNext]_<<vars, pipeVars>>
    PROVE  PassInv'
  <1>1. CASE pass' = None
    BY <1>1, Zenon DEF PassInv
  <1>2. CASE /\ decls' = decls /\ phase' = phase
             /\ pass' # None
             /\ phase = "serving"
             /\ IsPass(pass') /\ Seen(pass') /\ Ended(pass')
    <2>1. Seen(pass)'
      BY <1>2, Zenon DEF Seen, Changed
    <2>2. Routes' = Routes /\ \A q : (Routing(q))' = Routing(q)
      BY <1>2, Zenon DEF Routing, Routes, IsRoute
    <2>3. Ended(pass)'
      BY <1>2, <2>2, Zenon DEF Ended
    <2> QED BY <1>2, <2>1, <2>3, Zenon DEF PassInv
  <1>3. CASE /\ decls' = decls /\ phase' = phase
             /\ \/ pass' = pass
                \/ \E q \in Requests : Serve(q)
                \/ \E i \in DOMAIN decls : Meet(i)
                \/ Arrive
                \/ Again
    <2>1. pass' # None => IsPass(pass') /\ Seen(pass') /\ Ended(pass')
      BY <1>3, ServeSeen, MeetSeen, ArriveSeen, AgainSeen, Zenon DEF PassInv
    <2>2. pass' # None => phase = "serving"
      BY <1>3, Zenon DEF PassInv, Serve, Meet, Arrive, Again
    <2> QED BY <1>1, <1>2, <1>3, <2>1, <2>2, Zenon
  <1> QED BY <1>1, <1>3, PassCases, Zenon

\* Two nested layers of an exclusive kind see two requests.
LEMMA MeetOnce ==
    ASSUME WalkTypes, PathInv, CarvedInv, PassInv
    PROVE  NestedMeetOnce
  <1> SUFFICES ASSUME NEW i \in DOMAIN decls, NEW j \in DOMAIN decls, Exclusive(i, j),
                      Inside(decls[j], decls[i]), ~Collides(decls[j], decls[i]), Met(i), Met(j)
               PROVE  \E k \in DOMAIN pass.seen :
                          decls[k].kind \in Changing /\ (i < k <=> k < j)
    BY Zenon DEF NestedMeetOnce
  <1> DEFINE S == DOMAIN pass.seen
  <1>1. phase \in Compiled /\ i \in S /\ j \in S /\ Seen(pass)
    BY Zenon DEF Met, PassInv, Compiled
  <1>2. \A k \in S : k \in DOMAIN decls /\ Fires(decls[k], pass.seen[k])
    BY <1>1, Zenon DEF Seen
  <1>3. \A k \in S : k \in Nat
    <2>1. \A k \in DOMAIN decls : k \in Nat
      BY DEF WalkTypes
    <2> QED BY <1>2, <2>1, Zenon
  <1>4. Shadows(decls[j], decls[i])
    BY InsideShadows, Zenon DEF Exclusive
  <1>5. Matches(decls[i].scope, pass.seen[i]) /\ Matches(decls[j].scope, pass.seen[j])
    BY <1>1, <1>2, Zenon DEF Fires
  <1>6. ~Matches(decls[j].scope, pass.seen[i])
    BY <1>1, <1>2, <1>4, <1>5, NotFiring, Zenon
  <1>7. pass.seen[i] # pass.seen[j] /\ i # j
    BY <1>5, <1>6, Zenon
  <1>8. decls[i].kind \notin Changing /\ decls[j].kind \notin Changing
    <2>1. \A k \in ExclusiveKinds : k \notin Changing
      BY DEF ExclusiveKinds, Changing, Rewrites, HeaderRules, Scripts
    <2> QED BY <2>1, Zenon DEF Exclusive
  <1>9. CASE i < j
    <2>1. PICK k \in S : i <= k /\ k < j /\ Changed(k)
      BY <1>1, <1>7, <1>9, Zenon DEF Seen
    <2>2. k # i
      BY <1>8, <2>1, Zenon DEF Changed
    <2>3. i < k
      BY <1>1, <1>3, <2>1, <2>2
    <2> QED BY <2>1, <2>3, Zenon DEF Changed
  <1>10. CASE j < i
    <2>1. PICK k \in S : j <= k /\ k < i /\ Changed(k)
      BY <1>1, <1>7, <1>10, Zenon DEF Seen
    <2>2. ~(i < k) /\ ~(k < j)
      BY <1>1, <1>3, <2>1
    <2> QED BY <2>1, <2>2, Zenon DEF Changed
  <1>11. i < j \/ j < i
    BY <1>1, <1>3, <1>7
  <1> QED BY <1>9, <1>10, <1>11, Zenon

\* Only global rules come before a global rule.
LEMMA SeeTheClient ==
    ASSUME CarvedInv, PassInv
    PROVE  GlobalsSeeTheClient
  <1> SUFFICES ASSUME NEW i \in DOMAIN decls, Met(i), Body(decls[i]) = "globals"
               PROVE  \/ pass.seen[i] = pass.sent
                      \/ \E k \in DOMAIN pass.seen :
                           /\ k < i /\ Body(decls[k]) = "globals"
                           /\ decls[k].kind \in Changing
    BY Zenon DEF GlobalsSeeTheClient
  <1>1. i \in DOMAIN pass.seen /\ Seen(pass)
    BY Zenon DEF Met, PassInv
  <1>2. ASSUME NEW k \in DOMAIN pass.seen, k < i PROVE Body(decls[k]) = "globals"
    <2>1. decls[i].zone # "body"
      BY DEF Body
    <2>2. k \in DOMAIN decls
      BY <1>1, <1>2, Zenon DEF Seen
    <2> QED BY <1>2, <2>1, <2>2, Zenon DEF CarvedInv, Body
  <1> QED BY <1>1, <1>2, Zenon DEF Seen, Changed

\* No upstream rule is carved out of another.
LEMMA RoutedFirst ==
    ASSUME CarvedInv, PassInv
    PROVE  RoutedAsSent
  <1> SUFFICES ASSUME phase = "serving", pass # None, pass.req = pass.sent
               PROVE  LET accepting == {i \in DOMAIN decls :
                                          IsRoute(i) /\ Matches(decls[i].scope, pass.sent)}
                      IN  /\ pass.end = "backend" =>
                               pass.route \in accepting /\ \A i \in accepting : pass.route <= i
                          /\ pass.end \in {"own target", "bad gateway"} => accepting = {}
    BY Zenon DEF RoutedAsSent
  <1>1. Ended(pass)
    BY Zenon DEF PassInv
  <1>2. ASSUME NEW i \in Routes PROVE decls[i].excluded = {}
    <2>1. decls[i].kind \notin ExclusiveKinds
      BY DEF Routes, IsRoute, RoutingKinds, ExclusiveKinds
    <2>2. \A j \in DOMAIN decls : ~Shadows(decls[j], decls[i])
      BY <2>1, Zenon DEF Shadows
    <2>3. Excluded(decls, i) = {}
      BY <2>2, Zenon DEF Excluded
    <2> QED BY <2>3, Zenon DEF CarvedInv, Compiled, Routes
  <1>3. Routing(pass.req) =
          {i \in DOMAIN decls : IsRoute(i) /\ Matches(decls[i].scope, pass.sent)}
    BY <1>2, Zenon DEF Routing, Routes, Fires
  <1>4. Routes = {} => Routing(pass.req) = {}
    BY Zenon DEF Routing
  <1> QED BY <1>1, <1>3, <1>4, Zenon DEF Ended

-------------------------------------------------------------------------------
(* The round robin.                                                        *)

\* c is a times n, and r.
Digits(n, a, r, c) == a \in Int /\ r \in 0..(n - 1) /\ c = n * a + r

\* Division with remainder.
LEMMA DivMod ==
    ASSUME NEW n \in Nat, n > 0, NEW c \in Nat
    PROVE  Digits(n, c \div n, c % n, c)
  BY DEF Digits

\* A remainder is determined.
LEMMA OneRemainder ==
    ASSUME NEW n \in Nat, n > 0, NEW a, NEW b, NEW r, NEW s, NEW c,
           Digits(n, a, r, c), Digits(n, b, s, c)
    PROVE  r = s
  <1>1. /\ a \in Int /\ b \in Int /\ r \in 0..(n - 1) /\ s \in 0..(n - 1)
        /\ n * a + r = n * b + s
    BY DEF Digits
  <1>2. n * a \in Int /\ n * b \in Int /\ n * a - n * b = n * (a - b)
    BY <1>1
  <1>3. \A k \in Int : (k >= 1 => n * k >= n) /\ (k <= -1 => n * k <= -n) /\ n * k \in Int
    OBVIOUS
  <1>4. n * (a - b) = s - r
    BY <1>1, <1>2
  <1>5. a = b
    BY <1>1, <1>3, <1>4
  <1> QED BY <1>1, <1>2, <1>5

\* The remainder of the next number.
LEMMA NextRemainder ==
    ASSUME NEW n \in Nat, n > 0, NEW c \in Nat
    PROVE  (c + 1) % n = IF c % n = n - 1 THEN 0 ELSE (c % n) + 1
  <1> DEFINE a == c \div n
             r == c % n
  <1>1. Digits(n, a, r, c)
    BY DivMod, Zenon
  <1>2. c + 1 \in Nat
    OBVIOUS
  <1>3. Digits(n, (c + 1) \div n, (c + 1) % n, c + 1)
    BY <1>2, DivMod, Zenon
  <1> HIDE DEF a, r
  <1>4. a \in Int /\ r \in 0..(n - 1) /\ c = n * a + r /\ n * (a + 1) = n * a + n /\ n * a \in Int
    BY <1>1 DEF Digits
  <1>5. CASE r = n - 1
    <2>1. Digits(n, a + 1, 0, c + 1)
      BY <1>4, <1>5 DEF Digits
    <2> QED BY <1>3, <1>5, <2>1, OneRemainder, Zenon DEF r
  <1>6. CASE r # n - 1
    <2>1. Digits(n, a, r + 1, c + 1)
      BY <1>4, <1>6 DEF Digits
    <2> QED BY <1>3, <1>6, <2>1, OneRemainder, Zenon DEF r
  <1> QED BY <1>5, <1>6, Zenon

\* After c picks in turn, n backends have been picked equally often, but for those
\* of the round that is going on.
Even(p, c, n) ==
    \E Q \in Nat : \A b \in 0..(n - 1) : p[b] = IF b < c % n THEN Q + 1 ELSE Q

\* The next pick is the next backend's.
LEMMA EvenPick ==
    ASSUME NEW n \in Nat, n > 0, NEW c \in Nat, NEW p, NEW s, Even(p, c, n),
           s[c % n] = p[c % n] + 1, \A b \in 0..(n - 1) : b # c % n => s[b] = p[b]
    PROVE  Even(s, c + 1, n)
  <1> DEFINE r == c % n
             t == (c + 1) % n
  <1>1. r \in 0..(n - 1)
    OBVIOUS
  <1>2. t = IF r = n - 1 THEN 0 ELSE r + 1
    BY NextRemainder, Zenon
  <1>3. PICK Q \in Nat : \A b \in 0..(n - 1) : p[b] = IF b < r THEN Q + 1 ELSE Q
    BY Zenon DEF Even
  <1>4. s[r] = p[r] + 1 /\ \A b \in 0..(n - 1) : b # r => s[b] = p[b]
    BY Zenon
  <1>5. \E R \in Nat : \A b \in 0..(n - 1) : s[b] = IF b < t THEN R + 1 ELSE R
    <2> HIDE DEF r, t
    <2>1. CASE r = n - 1
      <3>1. \A b \in 0..(n - 1) : s[b] = IF b < t THEN (Q + 1) + 1 ELSE Q + 1
        BY <1>1, <1>2, <1>3, <1>4, <2>1
      <3>2. Q + 1 \in Nat
        OBVIOUS
      <3> QED BY <3>1, <3>2, Zenon
    <2>2. CASE r # n - 1
      <3>1. \A b \in 0..(n - 1) : s[b] = IF b < t THEN Q + 1 ELSE Q
        BY <1>1, <1>2, <1>3, <1>4, <2>2
      <3> QED BY <3>1, Zenon
    <2> QED BY <2>1, <2>2, Zenon
  <1> QED BY <1>5, Zenon DEF Even

\* A single backend is always even, and so are those that were not picked yet.
LEMMA EvenStart ==
    ASSUME NEW n \in Nat, n > 0, NEW p, \A b \in 0..(n - 1) : p[b] = 0
    PROVE  Even(p, 0, n)
  <1>1. 0 % n = 0
    <2>1. Digits(n, 0, 0, 0) /\ Digits(n, 0 \div n, 0 % n, 0)
      BY DEF Digits
    <2> QED BY <2>1, OneRemainder, Zenon
  <1>2. \A b \in 0..(n - 1) : p[b] = IF b < 0 % n THEN 0 + 1 ELSE 0
    BY <1>1
  <1> QED BY <1>2, Zenon DEF Even

\* Of backends picked in turn none is two ahead.
LEMMA EvenBalanced ==
    ASSUME NEW n \in Nat, NEW p, NEW c, Even(p, c, n), NEW a \in 0..(n - 1), NEW b \in 0..(n - 1)
    PROVE  p[a] <= p[b] + 1
  <1>1. PICK Q \in Nat : \A e \in 0..(n - 1) : p[e] = IF e < c % n THEN Q + 1 ELSE Q
    BY Zenon DEF Even
  <1>2. p[a] \in {Q, Q + 1} /\ p[b] \in {Q, Q + 1}
    BY <1>1, Zenon
  <1> QED BY <1>2

\* The backends of the routes, each route with its own counter.
BalanceInv ==
    phase = "serving" =>
        /\ backends \in 1..MaxBackends
        /\ counters \in [DOMAIN decls -> Nat]
        /\ picks \in [DOMAIN decls -> [0..(MaxBackends - 1) -> Nat]]
        /\ strategy = "round-robin" /\ backends > 1 =>
             \A i \in DOMAIN decls : Even(picks[i], counters[i], backends)

\* A number of backends within the bound.
LEMMA BackendsType ==
    ASSUME NEW n \in 1..MaxBackends
    PROVE  n \in Nat /\ n > 0 /\ \A b \in 0..(n - 1) : b \in 0..(MaxBackends - 1)
  <1>1. MaxBackends \in Nat
    BY PipelineConstants, Zenon
  <1> QED BY <1>1

\* Each route keeps its turn.
LEMMA BalanceStep ==
    ASSUME WalkTypes, BalanceInv, [PipelineNext]_<<vars, pipeVars>>
    PROVE  BalanceInv'
  <1> SUFFICES ASSUME phase' = "serving" PROVE BalanceInv'
    BY Zenon DEF BalanceInv
  <1>1. CASE UNCHANGED <<phase, decls, backends, strategy, counters, picks>>
    BY <1>1, Zenon DEF BalanceInv
  <1>2. CASE Compile
    <2>1. phase' \in {"globals", "cli", "body", "compiled", "failed"}
      BY <1>2, Zenon DEF Compile, Next, Rule, CliRule, EnterMatch, LeaveMatch, EndFile,
                         InvalidFlag, EndGlobals, EndBody, Invalid, Walking, Fail
    <2> QED BY <2>1
  <1>3. CASE Start
    <2>1. PICK n \in 1..MaxBackends : backends' = n
      BY <1>3, Zenon DEF Start
    <2>2. /\ decls' = decls /\ counters' = [i \in DOMAIN decls |-> 0]
          /\ picks' = [i \in DOMAIN decls |-> [b \in 0..(MaxBackends - 1) |-> 0]]
      BY <1>3, Zenon DEF Start
    <2>3. counters' \in [DOMAIN decls' -> Nat]
      BY <2>2
    <2>4. picks' \in [DOMAIN decls' -> [0..(MaxBackends - 1) -> Nat]]
      BY <2>2
    <2>5. n \in Nat /\ n > 0 /\ \A b \in 0..(n - 1) : b \in 0..(MaxBackends - 1)
      BY BackendsType, Zenon
    <2>6. ASSUME NEW i \in DOMAIN decls PROVE Even(picks'[i], counters'[i], n)
      <3>1. counters'[i] = 0 /\ picks'[i] = [b \in 0..(MaxBackends - 1) |-> 0]
        BY <2>2, <2>6, Zenon
      <3>2. \A b \in 0..(n - 1) : picks'[i][b] = 0
        BY <2>5, <3>1, Zenon
      <3> QED BY <2>5, <3>1, <3>2, EvenStart, Zenon
    <2> QED BY <2>1, <2>2, <2>3, <2>4, <2>6, Zenon DEF BalanceInv
  <1>4. CASE Arrive
    <2> DEFINE i == Route(pass.req)
    <2>1. UNCHANGED <<phase, decls, backends, strategy>> /\ phase = "serving"
      BY <1>4, Zenon DEF Arrive, vars
    <2>2. CASE UNCHANGED <<counters, picks>>
      BY <1>1, <2>1, <2>2, Zenon
    <2>3. ASSUME i # None, counters' = Advanced(i), NEW b \in Picked(i),
                 picks' = [picks EXCEPT ![i][b] = @ + 1]
          PROVE  BalanceInv'
      <3>1. i \in DOMAIN decls
        BY <2>3, RouteIsFirst, Zenon DEF Routing, Routes
      <3> HIDE DEF i
      <3>2. /\ backends \in 1..MaxBackends /\ counters \in [DOMAIN decls -> Nat]
            /\ picks \in [DOMAIN decls -> [0..(MaxBackends - 1) -> Nat]]
        BY <2>1, Zenon DEF BalanceInv
      <3>3. backends \in Nat /\ backends > 0 /\ counters[i] \in Nat
            /\ \A e \in 0..(backends - 1) : e \in 0..(MaxBackends - 1)
        <4>1. counters[i] \in Nat
          BY <3>1, <3>2
        <4> QED BY <3>2, <4>1, BackendsType, Zenon
      <3>4. b \in 0..(backends - 1)
            /\ (strategy = "round-robin" /\ backends > 1 => b = counters[i] % backends)
        BY <2>3, <3>3 DEF Picked
      <3>5. /\ picks' \in [DOMAIN decls -> [0..(MaxBackends - 1) -> Nat]]
            /\ picks'[i][b] = picks[i][b] + 1
            /\ \A e \in 0..(MaxBackends - 1) : e # b => picks'[i][e] = picks[i][e]
            /\ \A j \in DOMAIN decls : j # i => picks'[j] = picks[j]
        <4>1. picks[i] \in [0..(MaxBackends - 1) -> Nat] /\ b \in 0..(MaxBackends - 1)
          BY <3>1, <3>2, <3>3, <3>4
        <4> DEFINE p == [picks[i] EXCEPT ![b] = @ + 1]
        <4>2. /\ p \in [0..(MaxBackends - 1) -> Nat] /\ p[b] = picks[i][b] + 1
              /\ \A e \in 0..(MaxBackends - 1) : e # b => p[e] = picks[i][e]
          <5>1. ASSUME NEW D, NEW g \in [D -> Nat], NEW c \in D, NEW h,
                       h = [g EXCEPT ![c] = @ + 1]
                PROVE  /\ h \in [D -> Nat] /\ h[c] = g[c] + 1
                       /\ \A e \in D : e # c => h[e] = g[e]
            BY <5>1
          <5> QED BY <4>1, <5>1, Zenon
        <4>3. picks' = [picks EXCEPT ![i] = p]
          BY <2>3
        <4> HIDE DEF p
        <4>4. /\ picks' \in [DOMAIN decls -> [0..(MaxBackends - 1) -> Nat]]
              /\ picks'[i] = p /\ \A j \in DOMAIN decls : j # i => picks'[j] = picks[j]
          BY <3>1, <3>2, <4>2, <4>3
        <4> QED BY <4>2, <4>4, Zenon
      <3>6. counters' \in [DOMAIN decls -> Nat]
        BY <2>3, <3>1, <3>2 DEF Advanced
      <3>7. ASSUME strategy = "round-robin", backends > 1, NEW j \in DOMAIN decls
            PROVE  Even(picks'[j], counters'[j], backends)
        <4>1. counters' = [counters EXCEPT ![i] = @ + 1]
          BY <2>3, <3>7, Zenon DEF Advanced
        <4>2. Even(picks[j], counters[j], backends)
          BY <2>1, <3>7, Zenon DEF BalanceInv
        <4>3. CASE j = i
          <5>1. counters'[i] = counters[i] + 1
            BY <3>1, <3>2, <4>1
          <5>2. /\ picks'[i][counters[i] % backends] = picks[i][counters[i] % backends] + 1
                /\ \A e \in 0..(backends - 1) :
                     e # counters[i] % backends => picks'[i][e] = picks[i][e]
            BY <3>3, <3>4, <3>5, <3>7, Zenon
          <5>3. Even(picks'[i], counters[i] + 1, backends)
            BY <3>3, <4>2, <4>3, <5>2, EvenPick, Zenon
          <5> QED BY <4>3, <5>1, <5>3, Zenon
        <4>4. CASE j # i
          <5>1. counters'[j] = counters[j]
            BY <3>1, <3>2, <3>7, <4>1, <4>4
          <5> QED BY <3>5, <3>7, <4>2, <4>4, <5>1, Zenon
        <4> QED BY <4>3, <4>4, Zenon
      <3> QED BY <2>1, <3>2, <3>5, <3>6, <3>7, Zenon DEF BalanceInv
    <2> QED BY <1>4, <2>2, <2>3, Zenon DEF Arrive
  <1>5. CASE Again \/ (\E q \in Requests : Serve(q)) \/ \E i \in DOMAIN decls : Meet(i)
    BY <1>1, <1>5, Zenon DEF Again, Serve, Meet, vars
  <1>6. CASE UNCHANGED <<vars, pipeVars>>
    BY <1>1, <1>6, Zenon DEF vars, pipeVars
  <1> QED BY <1>2, <1>3, <1>4, <1>5, <1>6, Zenon DEF PipelineNext

\* Then no backend is two requests ahead of another.
LEMMA BalancedTurns ==
    ASSUME BalanceInv
    PROVE  Balanced
  <1> SUFFICES ASSUME phase = "serving", strategy = "round-robin", NEW i \in DOMAIN decls,
                      NEW a \in 0..(backends - 1), NEW b \in 0..(backends - 1)
               PROVE  picks[i][a] <= picks[i][b] + 1
    BY Zenon DEF Balanced
  <1>1. /\ backends \in 1..MaxBackends /\ picks \in [DOMAIN decls -> [0..(MaxBackends - 1) -> Nat]]
    BY Zenon DEF BalanceInv
  <1>2. backends \in Nat
    BY <1>1, BackendsType, Zenon
  <1>3. CASE backends > 1
    <2>1. Even(picks[i], counters[i], backends)
      BY <1>3, Zenon DEF BalanceInv
    <2> QED BY <1>2, <2>1, EvenBalanced, Zenon
  <1>4. CASE ~(backends > 1)
    <2>1. a = b /\ a \in 0..(MaxBackends - 1)
      <3>1. a = b
        BY <1>2, <1>4
      <3> QED BY <1>1, <3>1, BackendsType, Zenon
    <2>2. picks[i][b] \in Nat
      BY <1>1, <2>1
    <2> QED BY <2>1, <2>2
  <1> QED BY <1>3, <1>4, Zenon

-------------------------------------------------------------------------------
(* Theorems.                                                               *)

\* The inductive invariant of the compilation and of the passes.
PipelineInv == WalkInv /\ PathInv /\ CarvedInv /\ PassInv /\ BalanceInv

\* The walk starts from nothing and no request is on its way.
THEOREM PipelineStart == PipelineInit => PipelineInv
  <1> SUFFICES ASSUME PipelineInit PROVE PipelineInv
    BY Zenon
  <1>1. Blank /\ pass = None
    BY InitBlank, Zenon DEF PipelineInit
  <1>2. PassInv
    BY <1>1, Zenon DEF PassInv
  <1>3. BalanceInv
    <2>1. phase # "serving"
      BY <1>1 DEF Blank
    <2> QED BY <2>1, Zenon DEF BalanceInv
  <1> QED BY <1>1, <1>2, <1>3, WalkStart, BlankPaths, BlankCarved, Zenon DEF PipelineInv

\* Every step of the compilation and of a request keeps it.
THEOREM PipelineStep == PipelineInv /\ [PipelineNext]_<<vars, pipeVars>> => PipelineInv'
  BY WalkStep, PathStep, CarvedStep, PassStep, BalanceStep, Zenon DEF PipelineInv, WalkInv

\* So it holds of a configuration throughout its compilation and while it is served.
THEOREM PipelineInvariant == PipelineSpec => []PipelineInv
  BY PipelineStart, PipelineStep, PTL DEF PipelineSpec

\* resolve_exclusions lets the innermost rule win and leaves no hole, for blocks nested
\* to any depth, but for a listener's rules against those in global match blocks.
THEOREM InnermostRuleWins == PipelineSpec => []InnermostWins
  <1>1. PipelineInv => InnermostWins
    BY WinsInnermost, Zenon DEF PipelineInv, WalkInv
  <1> QED BY <1>1, PipelineInvariant, PTL

\* A request meets the layers of two nested rules of an exclusive kind only if a rule
\* between them has changed it, whatever layers it goes through and however often it is
\* retried, with the same exception.
THEOREM NestedLayersMeetOnce == PipelineSpec => []NestedMeetOnce
  <1>1. PipelineInv => NestedMeetOnce
    BY MeetOnce, Zenon DEF PipelineInv, WalkInv
  <1> QED BY <1>1, PipelineInvariant, PTL

\* What a listener's rules do to a request never reaches a global rule.
THEOREM GlobalsFirst == PipelineSpec => []GlobalsSeeTheClient
  <1>1. PipelineInv => GlobalsSeeTheClient
    BY SeeTheClient, Zenon DEF PipelineInv, WalkInv
  <1> QED BY <1>1, PipelineInvariant, PTL

\* Router::call sends a request that no rule has changed to the first upstream rule of
\* the file that accepts it, and to none only if none does.
THEOREM FirstRouteTaken == PipelineSpec => []RoutedAsSent
  <1>1. PipelineInv => RoutedAsSent
    BY RoutedFirst, Zenon DEF PipelineInv, WalkInv
  <1> QED BY <1>1, PipelineInvariant, PTL

\* The round robin of every upstream rule is fair over all requests and retries, for any
\* number of backends.
THEOREM BackendsTakeTurns == PipelineSpec => []Balanced
  <1>1. PipelineInv => Balanced
    BY BalancedTurns, Zenon DEF PipelineInv, WalkInv
  <1> QED BY <1>1, PipelineInvariant, PTL

===============================================================================
