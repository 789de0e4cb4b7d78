---------------------- MODULE AnalysisFrameworkProofs ----------------------
(***************************************************************************)
(* Proofs about the analysis framework: the abstract worklist iteration,   *)
(* and the driver that implements it for blocks and contexts.              *)
(*                                                                         *)
(* For the driver, the invariant says of every block and context that it   *)
(* is in the worklist or up to date: there is information "out" at each of *)
(* its instructions that follows from what it reads, and its successors    *)
(* and callees know what it ends in.  A real execution then never leaves   *)
(* what the driver knows, by induction on its steps.  Contexts do not get  *)
(* in the way because, in a call with context p, those of a block are p    *)
(* followed by tokens of the loops around the block, and calls read        *)
(* what the matching entries and returns have written.                     *)
(***************************************************************************)
EXTENDS AnalysisDriver, WorklistIteration, FiniteSetTheorems, TLAPS

-----------------------------------------------------------------------------
(* The abstract iteration.                                                 *)

(* Its inductive invariant. *)
IInv == TypeOK /\ Initial \subseteq known /\ UpToDate /\ NothingSpurious

(* Init establishes the invariant: all initial items are in the worklist. *)
LEMMA InitIInv == IterationInit => IInv
BY InitialAssumption DEF IterationInit, IInv, TypeOK, UpToDate, NothingSpurious, Closed

(* Analysing one item keeps the invariant. *)
LEMMA StepIInv == ASSUME IInv, NEW i \in work, Step(i) PROVE IInv'
<1>1. i \in Items(known) /\ known \in SUBSET Fact
  BY DEF IInv, TypeOK
<1>2. Derive(i, known) \subseteq Fact
  BY <1>1, DeriveAssumption
<1>3. TypeOK'
  BY <1>1, <1>2 DEF Step, TypeOK
<1>4. (Initial \subseteq known)'
  BY DEF IInv, Step
<1>5. UpToDate'
  <2> SUFFICES ASSUME NEW j \in Items(known') \ work' PROVE Derive(j, known') \subseteq known'
    BY DEF UpToDate
  <2>1. j \in Items(known) /\ (j = i \/ j \notin work) /\ Reads(j, known') = Reads(j, known)
    BY DEF Step
  <2>2. known' \in SUBSET Fact /\ known \subseteq known'
    BY <1>1, <1>2 DEF Step
  <2>3. Derive(j, known') \subseteq Derive(j, known) \cup known'
    BY <1>1, <2>1, <2>2, ReadsAssumption
  <2>4. Derive(j, known) \subseteq known'
    <3>1. CASE j = i
      BY <3>1 DEF Step
    <3>2. CASE j # i
      BY <2>1, <2>2, <3>2 DEF IInv, UpToDate
    <3> QED BY <3>1, <3>2
  <2> QED BY <2>3, <2>4
<1>6. NothingSpurious'
  <2> SUFFICES ASSUME NEW S \in SUBSET Fact, Closed(S) PROVE known' \subseteq S
    BY DEF NothingSpurious, Closed
  <2>1. known \subseteq S
    BY DEF IInv, NothingSpurious
  <2>2. i \in Items(S)
    BY <1>1, <2>1, ItemsAssumption
  <2>3. Derive(i, known) \subseteq Derive(i, S)
    BY <1>1, <2>1, DeriveAssumption
  <2>4. Derive(i, S) \subseteq S
    BY <2>2 DEF Closed
  <2> QED BY <2>1, <2>3, <2>4 DEF Step
<1> QED BY <1>3, <1>4, <1>5, <1>6 DEF IInv

(* The invariant holds in every reachable state. *)
LEMMA Inductive == IterationSpec => []IInv
<1>1. IInv /\ [IterationNext]_iterationVars => IInv'
  <2> SUFFICES ASSUME IInv, [IterationNext]_iterationVars PROVE IInv'
    OBVIOUS
  <2>1. CASE IterationNext
    BY <2>1, StepIInv DEF IterationNext
  <2>2. CASE UNCHANGED iterationVars
    BY <2>2 DEF iterationVars, IInv, TypeOK, UpToDate, NothingSpurious, Closed
  <2> QED BY <2>1, <2>2
<1> QED BY InitIInv, <1>1, PTL DEF IterationSpec

(* The driver only queues items of the program points it has reached.      *)
THEOREM WorklistTypeCorrect == IterationSpec => []TypeOK
<1>1. IInv => TypeOK
  BY DEF IInv
<1> QED BY Inductive, <1>1, PTL

(* When the worklist of the driver runs empty, the analysis information is *)
(* the least solution, for every program and every order of the worklist.  *)
THEOREM EndsInLeastSolution == IterationSpec => []LeastSolution
<1>1. IInv => LeastSolution
  BY DEF IInv, LeastSolution, UpToDate, NothingSpurious, Closed
<1> QED BY Inductive, <1>1, PTL

(* At any time, an item outside the worklist is up to date. *)
THEOREM AlwaysUpToDate == IterationSpec => []UpToDate
<1>1. IInv => UpToDate
  BY DEF IInv
<1> QED BY Inductive, <1>1, PTL

-----------------------------------------------------------------------------
(* Induction and folds.                                                    *)

\* A set of subsets of a finite set has a minimal element.
LEMMA MinimalSubset ==
    ASSUME NEW S, IsFiniteSet(S), NEW T, T \subseteq SUBSET S, T # {}
    PROVE  \E t \in T : \A u \in T : u \subseteq t => u = t
<1>1. T \subseteq FiniteSubsetsOf(S)
  BY FS_Subset DEF FiniteSubsetsOf
<1>2. PICK x \in T : \A y \in T : ~ (<<y, x>> \in StrictSubsetOrdering(S))
  BY <1>1, WFMin, FS_StrictSubsetOrderingWellFounded
<1>3. QED
  BY <1>2 DEF StrictSubsetOrdering

\* Every set of natural numbers has a least one.
LEMMA LeastNatural ==
    ASSUME NEW T, T \subseteq Nat, T # {}
    PROVE  \E n \in T : \A m \in T : n <= m
<1>1. PICK k \in T : TRUE
  OBVIOUS
<1> DEFINE I == 0 .. k
           D == {0 .. n : n \in {n \in T : n <= k}}
<1>2. D \subseteq SUBSET I /\ I \in D
  BY <1>1
<1>3. PICK d \in D : \A u \in D : u \subseteq d => u = d
  <2>1. IsFiniteSet(I)
    BY FS_Interval, <1>1
  <2>2. D # {}
    BY <1>2
  <2> HIDE DEF D, I
  <2>3. \E d \in D : \A u \in D : u \subseteq d => u = d
    BY <1>2, <2>1, <2>2, MinimalSubset
  <2>4. QED
    BY <2>3
<1>4. PICK n \in T : n <= k /\ d = 0 .. n
  BY <1>3
<1>5. ASSUME NEW m \in T, m < n PROVE FALSE
  <2>1. 0 .. m \in D /\ 0 .. m \subseteq d
    BY <1>1, <1>4, <1>5
  <2>2. 0 .. m = 0 .. n
    BY <1>3, <1>4, <2>1
  <2>3. QED
    BY <2>2, <1>5
<1>6. QED
  BY <1>5

\* Induction: a set that has 0 and the successors of its elements has all.
LEMMA NatInductionOn ==
    ASSUME NEW G, 0 \in G, \A n \in Nat : n \in G => n + 1 \in G
    PROVE  Nat \subseteq G
<1> SUFFICES ASSUME Nat \ G # {} PROVE FALSE
  OBVIOUS
<1>1. PICK n \in Nat \ G : \A m \in Nat \ G : n <= m
  BY LeastNatural
<1>2. n # 0 /\ n - 1 \in Nat /\ n - 1 \in G
  BY <1>1
<1>3. QED
  BY <1>1, <1>2

\* A recursive function whose value at d needs its value at pred[d], which has
\* a smaller rank; at rank 0 it is base.
IsRecursive(g, D, V, base, rank, pred, step) ==
    /\ g \in [D -> V]
    /\ \A d \in D : g[d] = IF rank[d] = 0 THEN base ELSE step[<<d, g[pred[d]]>>]

\* There is such a function.
LEMMA RecursionExists ==
    ASSUME NEW D, NEW V, NEW base \in V, NEW rank \in [D -> Nat], NEW pred,
           NEW step \in [D \X V -> V],
           \A d \in D : rank[d] > 0 => pred[d] \in D /\ rank[pred[d]] < rank[d],
           NEW max \in Nat, \A d \in D : rank[d] <= max
    PROVE  \E g : IsRecursive(g, D, V, base, rank, pred, step)
<1> DEFINE Choice(g, d) == IF rank[d] = 0 THEN base ELSE step[<<d, g[pred[d]]>>]
           Solves(g, n) == \A d \in D : rank[d] <= n => g[d] = Choice(g, d)
           G == {n \in Nat : \E g \in [D -> V] : Solves(g, n)}
<1>1. 0 \in G
  <2>1. [d \in D |-> base] \in [D -> V] /\ Solves([d \in D |-> base], 0)
    OBVIOUS
  <2>2. QED
    BY <2>1
<1>2. ASSUME NEW n \in Nat, n \in G PROVE n + 1 \in G
  <2>1. PICK g \in [D -> V] : Solves(g, n)
    BY <1>2
  <2> DEFINE h == [d \in D |-> Choice(g, d)]
  <2>2. h \in [D -> V]
    OBVIOUS
  <2>3. \A d \in D : rank[d] <= n => h[d] = g[d]
    BY <2>1
  <2>4. ASSUME NEW d \in D, rank[d] <= n + 1, rank[d] > 0 PROVE h[pred[d]] = g[pred[d]]
    <3>1. pred[d] \in D /\ rank[pred[d]] <= n
      BY <2>4
    <3> HIDE DEF h
    <3>2. QED
      BY <2>3, <3>1
  <2>5. \A d \in D : h[d] = Choice(g, d)
    OBVIOUS
  <2> HIDE DEF h
  <2>6. ASSUME NEW d \in D, rank[d] <= n + 1 PROVE h[d] = Choice(h, d)
    <3>1. CASE rank[d] = 0
      BY <2>5, <3>1
    <3>2. CASE rank[d] > 0
      BY <2>4, <2>5, <2>6, <3>2
    <3>3. QED
      BY <3>1, <3>2
  <2> HIDE DEF Choice
  <2>7. Solves(h, n + 1)
    BY <2>6
  <2> HIDE DEF Solves
  <2>8. QED
    BY <2>2, <2>7
<1>3. max \in G
  <2> HIDE DEF G
  <2>1. QED
    BY <1>1, <1>2, NatInductionOn
<1>4. PICK g \in [D -> V] : Solves(g, max)
  BY <1>3
<1>5. QED
  BY <1>4 DEF IsRecursive

\* A fold over the set S: the elements are taken away one by one as pick says.
IsFold(g, S, V, base, step, pick) ==
    /\ g \in [SUBSET S -> V]
    /\ \A s \in SUBSET S :
          g[s] = IF s = {} THEN base ELSE step[<<pick[s], g[s \ {pick[s]}]>>]

\* The recursion of a fold over a finite set has a solution.
LEMMA FoldExists ==
    ASSUME NEW S, IsFiniteSet(S), NEW V, NEW base \in V, NEW step \in [S \X V -> V],
           NEW pick \in [(SUBSET S) \ {{}} -> S],
           \A s \in (SUBSET S) \ {{}} : pick[s] \in s
    PROVE  \E g : IsFold(g, S, V, base, step, pick)
<1> DEFINE D == SUBSET S
           rank == [s \in D |-> Cardinality(s)]
           pred == [s \in D |-> s \ {pick[s]}]
           next == [z \in D \X V |-> IF z[1] = {} THEN base ELSE step[<<pick[z[1]], z[2]>>]]
<1>1. \A s \in D : /\ IsFiniteSet(s) /\ Cardinality(s) \in Nat /\ Cardinality(s) <= Cardinality(S)
                   /\ Cardinality(s) = 0 <=> s = {}
  BY FS_Subset, FS_CardinalityType, FS_EmptySet
<1>2. ASSUME NEW s \in D, s # {} PROVE pred[s] \in D /\ rank[pred[s]] < rank[s]
  <2>1. pick[s] \in s
    BY <1>2
  <2>2. Cardinality(s \ {pick[s]}) = Cardinality(s) - 1
    BY <1>1, <2>1, FS_RemoveElement
  <2>3. QED
    BY <1>1, <2>2
<1>3. rank \in [D -> Nat] /\ Cardinality(S) \in Nat /\ \A s \in D : rank[s] <= Cardinality(S)
  BY <1>1
<1>4. next \in [D \X V -> V]
  <2>1. ASSUME NEW s \in D, NEW x \in V, s # {} PROVE step[<<pick[s], x>>] \in V
    BY <2>1
  <2>2. QED
    BY <2>1
<1>5. \A s \in D : rank[s] > 0 => s # {}
  BY <1>1
<1>6. PICK g : IsRecursive(g, D, V, base, rank, pred, next)
  <2> HIDE DEF D, rank, pred, next
  <2>1. QED
    BY <1>2, <1>3, <1>4, <1>5, RecursionExists
<1>7. g \in [D -> V] /\ \A s \in D : g[s] = IF rank[s] = 0 THEN base ELSE next[<<s, g[pred[s]]>>]
  BY <1>6 DEF IsRecursive
<1>8. ASSUME NEW s \in D, s # {} PROVE g[s] = step[<<pick[s], g[s \ {pick[s]}]>>]
  <2>1. rank[s] # 0 /\ pred[s] = s \ {pick[s]} /\ g[pred[s]] \in V
    BY <1>1, <1>2, <1>7, <1>8
  <2>2. next[<<s, g[pred[s]]>>] = step[<<pick[s], g[pred[s]]>>]
    BY <1>8, <2>1
  <2> HIDE DEF next, rank, pred
  <2>3. QED
    BY <1>7, <2>1, <2>2
<1>9. g[{}] = base
  <2>1. {} \in D /\ rank[{}] = 0
    BY <1>1
  <2> HIDE DEF next, rank, pred, D
  <2>2. QED
    BY <1>7, <2>1
<1>10. QED
  BY <1>7, <1>8, <1>9 DEF IsFold

\* Every nonempty set of numbers up to n has a greatest one.
LEMMA GreatestNatural ==
    ASSUME NEW n \in Nat, NEW T, T \subseteq 0 .. n, T # {}
    PROVE  \E k \in T : \A m \in T : m <= k
<1> DEFINE R == {n - m : m \in T}
<1>1. \A m \in T : m \in Nat /\ n - m \in R
  OBVIOUS
<1>2. PICK r \in R : \A m \in R : r <= m
  <2>1. \A m \in T : n - m \in Nat
    OBVIOUS
  <2>2. R \subseteq Nat
    BY <2>1
  <2>3. R # {}
    BY <1>1
  <2> HIDE DEF R
  <2>4. QED
    BY <2>2, <2>3, LeastNatural
<1>3. PICK k \in T : r = n - k
  BY <1>2
<1> HIDE DEF R
<1>4. \A m \in T : m <= k
  BY <1>1, <1>2, <1>3
<1>5. QED
  BY <1>4

\* A property of sets holds for all subsets of a finite set if it holds for a
\* nonempty one whenever it holds for those that lack one of its elements.
LEMMA SubsetInduction ==
    ASSUME NEW S, IsFiniteSet(S), NEW G, {} \in G,
           \A s \in SUBSET S :
              s # {} /\ (\A x \in s : s \ {x} \in G) => s \in G
    PROVE  S \in G
<1> SUFFICES ASSUME S \notin G PROVE FALSE
  OBVIOUS
<1> DEFINE T == (SUBSET S) \ G
<1>1. T \subseteq SUBSET S /\ T # {}
  OBVIOUS
<1>2. PICK t \in T : \A u \in T : u \subseteq t => u = t
  <2> HIDE DEF T
  <2>1. QED
    BY <1>1, MinimalSubset
<1>3. \A x \in t : t \ {x} \in G
  BY <1>2
<1>4. QED
  BY <1>2, <1>3

\* What FoldLeft takes from the positions 1 .. n, the last one first.
LEMMA LastPositions ==
    ASSUME NEW n \in Nat
    PROVE  /\ \A s \in (SUBSET (1 .. n)) \ {{}} : Max(s) \in s
           /\ \A k \in 1 .. n : Max(1 .. k) = k /\ (1 .. k) \ {k} = 1 .. (k - 1)
<1>1. ASSUME NEW s \in (SUBSET (1 .. n)) \ {{}} PROVE Max(s) \in s
  <2>1. s \subseteq 0 .. n /\ s # {}
    OBVIOUS
  <2>2. PICK k \in s : \A m \in s : m <= k
    BY <2>1, GreatestNatural
  <2>3. \A m \in s : k >= m
    BY <2>1, <2>2
  <2>4. QED
    BY <2>3 DEF Max
<1>2. ASSUME NEW k \in 1 .. n PROVE Max(1 .. k) = k /\ (1 .. k) \ {k} = 1 .. (k - 1)
  <2>1. k \in 1 .. k /\ \A m \in 1 .. k : k >= m
    OBVIOUS
  <2>2. \A x \in 1 .. k : (\A m \in 1 .. k : x >= m) => x = k
    BY <2>1
  <2>3. Max(1 .. k) = k
    BY <2>1, <2>2 DEF Max
  <2>4. QED
    BY <2>3
<1>3. QED
  BY <1>1, <1>2

\* What FoldLeft computes over n positions.
IsFoldLeft(h, n, V, base, step) ==
    /\ h \in [SUBSET (1 .. n) -> V]
    /\ \A s \in SUBSET (1 .. n) :
          h[s] = IF s = {} THEN base ELSE step[<<Max(s), h[s \ {Max(s)}]>>]

\* The recursion of FoldLeft over n positions has a solution.
LEMMA FoldLeftExists ==
    ASSUME NEW n \in Nat, NEW V, NEW base \in V, NEW step \in [(1 .. n) \X V -> V]
    PROVE  \E h : IsFoldLeft(h, n, V, base, step)
<1> DEFINE S == 1 .. n
           pick == [s \in (SUBSET S) \ {{}} |-> Max(s)]
<1>1. pick \in [(SUBSET S) \ {{}} -> S] /\ \A s \in (SUBSET S) \ {{}} : pick[s] \in s
  BY LastPositions
<1>2. IsFiniteSet(S)
  BY FS_Interval
<1>3. PICK h : IsFold(h, S, V, base, step, pick)
  <2> HIDE DEF pick, S
  <2>1. step \in [S \X V -> V]
    BY DEF S
  <2>2. QED
    BY <1>1, <1>2, <2>1, FoldExists
<1>4. \A s \in SUBSET S : s # {} => pick[s] = Max(s)
  OBVIOUS
<1>5. h \in [SUBSET S -> V] /\ \A s \in SUBSET S :
          h[s] = IF s = {} THEN base ELSE step[<<pick[s], h[s \ {pick[s]}]>>]
  <2> HIDE DEF pick, S
  <2>1. QED
    BY <1>3 DEF IsFold
<1> HIDE DEF pick
<1>6. QED
  BY <1>4, <1>5 DEF IsFoldLeft

-----------------------------------------------------------------------------
(* Contexts.                                                               *)

\* The loops that the tokens of a context tell apart.
Nest(b) == IF LoopPeel = 0 THEN <<>> ELSE Blocks[b].nest

\* The tokens that a context can have.
Token == (UNION {LoopTokens(l) : l \in DOMAIN Loops})
             \cup {PartitionTokenCallSite(i) : i \in Instrs}
             \cup {PartitionTokenFunCallee(f) : f \in Functions}

\* A function returns from blocks outside of its loops (or loops are not told
\* apart): its own token is then the topmost one, and can be popped.
ReturnsOutsideLoops == \A i \in Instrs : InstrAt(i).op = "return" => Nest(i[1]) = <<>>

\* An order of the functions in which callers are above their callees.
IsCallOrder(above) ==
    /\ \A i \in Instrs : InstrAt(i).op = "call" => <<Blocks[i[1]].func, InstrAt(i).callee>> \in above
    /\ \A f, g, h \in Functions : <<f, g>> \in above /\ <<g, h>> \in above => <<f, h>> \in above
    /\ \A f \in Functions : <<f, f>> \notin above

NoRecursion == \E above \in SUBSET (Functions \X Functions) : IsCallOrder(above)

\* The call sites in a context tell that no context of a function goes on where
\* another one ends: there is only one of them, or no function is called again.
CallContextsApart == NumberCallsiteTokens = 1 \/ (NumberCallsiteTokens # 0 /\ NoRecursion)

\* What the early lookup of information needs.
Apart == ReturnsOutsideLoops /\ CallContextsApart

CallOrder == CHOOSE above \in SUBSET (Functions \X Functions) : IsCallOrder(above)

\* r is the context of a call of f: the call on top of it is one of f, those
\* below it are calls of functions above f.
Called(f, r) ==
    Apart => \A k \in 1 .. Len(r) : r[k].type = "CALLSITE" =>
                LET g == InstrAt(r[k].of).callee
                IN IF k = Len(r) THEN g = f ELSE NumberCallsiteTokens # 1 /\ <<g, f>> \in CallOrder

\* c is a context of block b in a call whose context is p: the tokens of the
\* loops around the block follow on it, outermost first.
InCall(b, p, c) ==
    /\ b \in MBB /\ p \in Seq(Token) /\ c \in Seq(Token)
    /\ p # <<>> /\ p[Len(p)] = PartitionTokenFunCallee(Blocks[b].func)
    /\ Called(Blocks[b].func, Front(p))
    /\ Len(c) = Len(p) + Len(Nest(b))
    /\ \A i \in 1 .. Len(p) : c[i] = p[i]
    /\ \A k \in 1 .. Len(Nest(b)) : c[Len(p) + k] \in LoopTokens(Nest(b)[k])

\* The tokens of a loop that the directives use.
LEMMA TokensOfLoop ==
    ASSUME NEW l \in DOMAIN Loops
    PROVE  /\ LoopTokens(l) \subseteq Token
           /\ \A t \in LoopTokens(l) : t.type \in LoopTokenTypes /\ t.of = <<l>>
           /\ \E t \in LoopTokens(l) : t.count = 0
           /\ \A t \in LoopTokens(l) : t.type = "LOOPPEEL"
                => t.count \in 0 .. (LoopPeel - 1) /\ \E u \in LoopTokens(l) : u.count = t.count + 1
<1>1. LoopTokens(l) \subseteq Token
  BY DEF Token
<1>2. \A t \in LoopTokens(l) : t.type \in LoopTokenTypes /\ t.of = <<l>>
  BY DEF LoopTokens, LoopTokenTypes, PartitionTokenLoopPeel, PartitionTokenLoopIter
<1>3. \A n \in 0 .. (LoopPeel - 1) :
        PartitionTokenLoopPeel(l, n) \in LoopTokens(l) /\ PartitionTokenLoopPeel(l, n).count = n
  BY DEF LoopTokens, PartitionTokenLoopPeel
<1>4. PartitionTokenLoopIter(l, LoopPeel) \in LoopTokens(l) /\ PartitionTokenLoopIter(l, LoopPeel).count = LoopPeel
  BY DEF LoopTokens, PartitionTokenLoopIter
<1>5. \E t \in LoopTokens(l) : t.count = 0
  BY <1>3, <1>4, LoopPeelAssumption
<1>6. ASSUME NEW t \in LoopTokens(l), t.type = "LOOPPEEL"
      PROVE  t.count \in 0 .. (LoopPeel - 1) /\ \E u \in LoopTokens(l) : u.count = t.count + 1
  <2>1. PICK n \in 0 .. (LoopPeel - 1) : t = PartitionTokenLoopPeel(l, n)
    BY <1>6 DEF LoopTokens, PartitionTokenLoopIter
  <2>2. t.count = n
    BY <2>1 DEF PartitionTokenLoopPeel
  <2>3. n + 1 \in 0 .. (LoopPeel - 1) \/ n + 1 = LoopPeel
    BY LoopPeelAssumption
  <2>4. QED
    BY <2>2, <2>3, <1>3, <1>4
<1>7. QED
  BY <1>1, <1>2, <1>5, <1>6

\* The directives on the edges between blocks.
LoopDirective == {Directive(type, LoopTokens(l)) : type \in {"CREATE", "MERGE"}, l \in DOMAIN Loops}

\* What a directive on an edge does to a context: it opens a loop, or it
\* closes the one on top.
LEMMA UpdateByLoop ==
    ASSUME NEW l \in DOMAIN Loops, NEW c \in Seq(Token)
    PROVE  /\ \E t \in LoopTokens(l) : update(c, Directive("CREATE", LoopTokens(l))) = Append(c, t)
           /\ c # <<>> /\ c[Len(c)] \in LoopTokens(l)
                => update(c, Directive("MERGE", LoopTokens(l))) = SubSeq(c, 1, Len(c) - 1)
<1>1. \E t \in LoopTokens(l) : update(c, Directive("CREATE", LoopTokens(l))) = Append(c, t)
  <2> DEFINE d == Directive("CREATE", LoopTokens(l))
             first == {t \in d.tokens : t.type \in LoopTokenTypes => t.count = 0}
  <2>1. d.type = "CREATE" /\ d.tokens = LoopTokens(l)
    BY DEF Directive
  <2>2. first # {} /\ first \subseteq LoopTokens(l)
    BY <2>1, TokensOfLoop
  <2>3. update(c, d) = Append(c, CHOOSE t \in first : TRUE)
    BY <2>1, <2>2 DEF update
  <2> HIDE DEF first
  <2>4. QED
    BY <2>2, <2>3
<1>2. ASSUME c # <<>>, c[Len(c)] \in LoopTokens(l)
      PROVE  update(c, Directive("MERGE", LoopTokens(l))) = SubSeq(c, 1, Len(c) - 1)
  <2> DEFINE d == Directive("MERGE", LoopTokens(l))
  <2>1. d.type = "MERGE" /\ d.tokens = LoopTokens(l)
    BY DEF Directive
  <2>2. update(c, d) = SubSeq(c, 1, Len(c) - 1)
    BY <2>1, <1>2 DEF update, Last, Front
  <2>3. QED
    BY <2>2
<1>3. QED
  BY <1>1, <1>2

\* Contexts stay contexts.
LEMMA FrontTyped ==
    ASSUME NEW S, NEW c \in Seq(S)
    PROVE  Front(c) \in Seq(S)
<1>1. CASE c = <<>>
  <2>1. Front(c) = [i \in 1 .. 0 |-> c[i]]
    BY <1>1 DEF Front
  <2>2. QED
    BY <2>1
<1>2. CASE c # <<>>
  BY <1>2 DEF Front
<1>3. QED
  BY <1>1, <1>2

\* Directives keep the type of a context.
LEMMA UpdateTyped ==
    ASSUME NEW d \in LoopDirective, NEW c \in Seq(Token)
    PROVE  update(c, d) \in Seq(Token)
<1>1. PICK type \in {"CREATE", "MERGE"}, l \in DOMAIN Loops : d = Directive(type, LoopTokens(l))
  BY DEF LoopDirective
<1>2. CASE type = "CREATE"
  <2>1. PICK t \in LoopTokens(l) : update(c, d) = Append(c, t)
    BY <1>1, <1>2, UpdateByLoop
  <2>2. t \in Token
    BY TokensOfLoop
  <2>3. QED
    BY <2>1, <2>2
<1>3. CASE type = "MERGE"
  <2>1. update(c, d) = c \/ update(c, d) = Front(c)
    BY <1>1, <1>3 DEF update, Directive
  <2>2. QED
    BY <2>1, FrontTyped
<1>4. QED
  BY <1>2, <1>3

\* The directives of an edge are applied one after the other.
LEMMA UpdateAllSteps ==
    ASSUME NEW c \in Seq(Token), NEW n \in Nat, NEW d \in [1 .. n -> LoopDirective]
    PROVE  \E g \in [0 .. n -> Seq(Token)] :
              /\ g[0] = c /\ g[n] = updateAll(c, d)
              /\ \A k \in 1 .. n : g[k] = update(g[k - 1], d[k])
<1> DEFINE V == Seq(Token)
           S == 1 .. n
           step == [z \in S \X V |-> update(z[2], d[z[1]])]
           Is(h) == h = [s \in SUBSET S |-> IF s = {} THEN c ELSE update(h[s \ {Max(s)}], d[Max(s)])]
<1>1. step \in [S \X V -> V]
  BY UpdateTyped
<1>2. PICK h \in [SUBSET S -> V] : \A s \in SUBSET S :
                 h[s] = IF s = {} THEN c ELSE step[<<Max(s), h[s \ {Max(s)}]>>]
  <2>1. c \in V /\ step \in [(1 .. n) \X V -> V]
    BY <1>1
  <2> HIDE DEF step, V
  <2>2. \E h : IsFoldLeft(h, n, V, c, step)
    BY <2>1, FoldLeftExists
  <2>3. QED
    BY <2>2 DEF IsFoldLeft
<1>3. ASSUME NEW s \in SUBSET S, s # {}
      PROVE  step[<<Max(s), h[s \ {Max(s)}]>>] = update(h[s \ {Max(s)}], d[Max(s)])
  <2>1. Max(s) \in S /\ s \ {Max(s)} \in SUBSET S
    BY <1>3, LastPositions
  <2> DEFINE m == Max(s)
             v == h[s \ {Max(s)}]
  <2>2. m \in S /\ v \in V
    BY <2>1
  <2> HIDE DEF m, v
  <2>3. step[<<m, v>>] = update(v, d[m])
    BY <2>2
  <2>4. QED
    BY <2>3 DEF m, v
<1>4. Is(h)
  <2> HIDE DEF step
  <2>1. QED
    BY <1>2, <1>3
<1>5. updateAll(c, d) = (CHOOSE h0 : Is(h0))[S]
  <2>1. updateAll(c, d) = FoldLeft(update, c, d)
    BY DEF updateAll, only
  <2>2. FoldLeft(update, c, d) = (CHOOSE h0 : Is(h0))[S]
    BY DEF FoldLeft, MapThenFoldSet
  <2>3. QED
    BY <2>1, <2>2
<1>6. PICK h0 : Is(h0) /\ updateAll(c, d) = h0[S]
  BY <1>4, <1>5
<1>7. h0[{}] = c /\ \A k \in S : h0[1 .. k] = update(h0[1 .. (k - 1)], d[k])
  <2>1. h0[{}] = c
    BY <1>6
  <2>2. ASSUME NEW k \in S PROVE h0[1 .. k] = update(h0[1 .. (k - 1)], d[k])
    <3>1. 1 .. k \subseteq S /\ k \in 1 .. k
      OBVIOUS
    <3>2. Max(1 .. k) = k /\ (1 .. k) \ {k} = 1 .. (k - 1)
      BY LastPositions
    <3>3. QED
      BY <3>1, <3>2, <1>6
  <2>3. QED
    BY <2>1, <2>2
<1> DEFINE g == [k \in 0 .. n |-> h0[1 .. k]]
<1>8. g[0] = c /\ g[n] = updateAll(c, d) /\ \A k \in 1 .. n : g[k] = update(g[k - 1], d[k])
  <2>1. 1 .. 0 = {}
    OBVIOUS
  <2> HIDE DEF Is
  <2>2. QED
    BY <2>1, <1>6, <1>7
<1>9. g \in [0 .. n -> V]
  <2> DEFINE G == {k \in Nat : k <= n => g[k] \in V}
  <2>1. 0 \in G
    BY <1>8
  <2>2. ASSUME NEW k \in Nat, k \in G PROVE k + 1 \in G
    <3>1. CASE k + 1 <= n
      <4> HIDE DEF g
      <4>1. g[k + 1] = update(g[k], d[k + 1]) /\ g[k] \in V
        BY <3>1, <1>8, <2>2
      <4>2. QED
        BY <3>1, <4>1, UpdateTyped
    <3>2. QED
      BY <3>1, <2>2
  <2>3. Nat \subseteq G
    <3> HIDE DEF G
    <3>1. QED
      BY <2>1, <2>2, NatInductionOn
  <2>4. \A k \in 0 .. n : g[k] \in V
    <3>1. \A k \in 0 .. n : k \in Nat /\ k <= n
      OBVIOUS
    <3>2. \A k \in Nat : k <= n => g[k] \in V
      BY <2>3
    <3> HIDE DEF g, V
    <3>3. QED
      BY <3>1, <3>2
  <2>5. QED
    BY <2>4
<1>10. QED
  <2> HIDE DEF g
  <2>1. QED
    BY <1>8, <1>9

-----------------------------------------------------------------------------
(* Edges.                                                                  *)

\* The first k loops of a nest have their tokens on top of p.
InNest(nest, p, c, k) ==
    /\ c \in Seq(Token)
    /\ Len(c) = Len(p) + k
    /\ \A i \in 1 .. Len(p) : c[i] = p[i]
    /\ \A i \in 1 .. k : c[Len(p) + i] \in LoopTokens(nest[i])

\* The loops around two blocks are the same down to some depth; below it they
\* share none.
LEMMA CommonLoops ==
    ASSUME NEW a \in MBB, NEW b \in MBB
    PROVE  \E k \in Nat :
              /\ k <= Len(Blocks[a].nest) /\ k <= Len(Blocks[b].nest)
              /\ \A i \in 1 .. k : Blocks[a].nest[i] = Blocks[b].nest[i]
              /\ \A i \in DOMAIN Blocks[a].nest : b \in Loops[Blocks[a].nest[i]].blocks <=> i <= k
              /\ \A i \in DOMAIN Blocks[b].nest : a \in Loops[Blocks[b].nest[i]].blocks <=> i <= k
<1> DEFINE na == Blocks[a].nest
           nb == Blocks[b].nest
           T == {i \in DOMAIN na : \E j \in DOMAIN nb : na[i] = nb[j]}
<1>1. na \in Seq(DOMAIN Loops) /\ nb \in Seq(DOMAIN Loops)
  BY LoopAssumption
<1>2. \A i \in DOMAIN na, j \in DOMAIN nb : na[i] = nb[j] => i = j /\ \A k \in 1 .. i : na[k] = nb[k]
  BY LoopAssumption
<1>3. \A i \in DOMAIN na : b \in Loops[na[i]].blocks <=> i \in T
  <2>1. \A l \in DOMAIN Loops : b \in Loops[l].blocks <=> \E k \in DOMAIN nb : nb[k] = l
    BY LoopAssumption
  <2>2. \A i \in DOMAIN na : na[i] \in DOMAIN Loops
    BY <1>1
  <2> HIDE DEF na, nb
  <2>3. QED
    BY <2>1, <2>2
<1>4. \A j \in DOMAIN nb : a \in Loops[nb[j]].blocks <=> j \in T
  <2>1. \A l \in DOMAIN Loops : a \in Loops[l].blocks <=> \E k \in DOMAIN na : na[k] = l
    BY LoopAssumption
  <2>2. \A j \in DOMAIN nb : nb[j] \in DOMAIN Loops
    BY <1>1
  <2>3. DOMAIN na = 1 .. Len(na) /\ DOMAIN nb = 1 .. Len(nb) /\ Len(na) \in Nat /\ Len(nb) \in Nat
    BY <1>1
  <2> HIDE DEF na, nb
  <2>4. ASSUME NEW j \in DOMAIN nb, NEW i \in DOMAIN na, na[i] = nb[j] PROVE j \in T
    BY <2>4, <1>2
  <2>5. ASSUME NEW j \in DOMAIN nb, j \in T PROVE na[j] = nb[j] /\ j \in DOMAIN na
    <3>1. PICK m \in DOMAIN nb : na[j] = nb[m]
      BY <2>5
    <3>2. j = m
      BY <3>1, <1>2, <2>5
    <3>3. QED
      BY <3>1, <3>2, <2>5
  <2> HIDE DEF T
  <2>6. QED
    BY <2>1, <2>2, <2>4, <2>5
<1>5. CASE T = {}
  <2>1. 0 <= Len(na) /\ 0 <= Len(nb) /\ DOMAIN na = 1 .. Len(na) /\ DOMAIN nb = 1 .. Len(nb)
    BY <1>1
  <2> HIDE DEF na, nb, T
  <2>2. /\ 0 <= Len(na) /\ 0 <= Len(nb)
        /\ \A i \in 1 .. 0 : na[i] = nb[i]
        /\ \A i \in DOMAIN na : b \in Loops[na[i]].blocks <=> i <= 0
        /\ \A i \in DOMAIN nb : a \in Loops[nb[i]].blocks <=> i <= 0
    BY <2>1, <1>3, <1>4, <1>5
  <2>3. QED
    BY <2>2 DEF na, nb
<1>6. CASE T # {}
  <2>1. DOMAIN na = 1 .. Len(na) /\ DOMAIN nb = 1 .. Len(nb) /\ Len(na) \in Nat /\ Len(nb) \in Nat
    BY <1>1
  <2>2. T \subseteq 0 .. Len(na)
    BY <2>1
  <2>3. PICK k \in T : \A m \in T : m <= k
    <3> HIDE DEF T
    <3>1. QED
      BY <2>1, <2>2, <1>6, GreatestNatural
  <2>4. k \in DOMAIN na /\ k \in DOMAIN nb /\ \A i \in 1 .. k : na[i] = nb[i]
    <3>1. PICK j \in DOMAIN nb : na[k] = nb[j]
      OBVIOUS
    <3> HIDE DEF na, nb
    <3>2. QED
      BY <3>1, <1>2
  <2>5. k \in Nat /\ k <= Len(na) /\ k <= Len(nb)
    BY <2>1, <2>4
  <2>6. \A i \in 1 .. k : i \in T
    <3> HIDE DEF na, nb
    <3>1. \A i \in 1 .. k : i \in DOMAIN na /\ i \in DOMAIN nb /\ na[i] = nb[i]
      BY <2>1, <2>4, <2>5
    <3>2. QED
      BY <3>1
  <2> HIDE DEF T, na, nb
  <2>7. \A i \in DOMAIN na : i \in T <=> i <= k
    BY <2>1, <2>3, <2>6, <2>5
  <2>8. \A i \in DOMAIN nb : i \in T <=> i <= k
    BY <2>1, <2>3, <2>6, <2>5
  <2>9. /\ \A i \in DOMAIN na : b \in Loops[na[i]].blocks <=> i <= k
        /\ \A i \in DOMAIN nb : a \in Loops[nb[i]].blocks <=> i <= k
    BY <2>7, <2>8, <1>3, <1>4
  <2>10. QED
    BY <2>4, <2>5, <2>9 DEF na, nb
<1>7. QED
  BY <1>5, <1>6

\* What a subsequence is made of.
LEMMA SubsequenceOf ==
    ASSUME NEW seq, NEW P
    PROVE  subsequence(seq, P) =
              <<>> \o [k \in 1 .. Cardinality(P) |->
                         seq[CHOOSE i \in P : Cardinality({j \in P : j <= i}) = k]]
<1> DEFINE position(S, k) == CHOOSE i \in S : Cardinality({j \in S : j <= i}) = k
           at(S, s) == <<>> \o [k \in 1 .. Cardinality(S) |-> s[position(S, k)]]
<1>1. subsequence(seq, P) = CHOOSE x \in {at(S, s) : S \in {P}, s \in {seq}} : TRUE
  BY DEF subsequence, only
<1> HIDE DEF at
<1>2. {at(S, s) : S \in {P}, s \in {seq}} = {at(P, seq)}
  OBVIOUS
<1>3. (CHOOSE x \in {at(P, seq)} : TRUE) = at(P, seq)
  OBVIOUS
<1>4. subsequence(seq, P) = at(P, seq)
  BY <1>1, <1>2, <1>3
<1>5. QED
  BY <1>4 DEF at

\* The elements behind the m-th one.
LEMMA SubsequenceOfRest ==
    ASSUME NEW S, NEW seq \in Seq(S), NEW m \in 0 .. Len(seq)
    PROVE  subsequence(seq, (m + 1) .. Len(seq)) = [i \in 1 .. (Len(seq) - m) |-> seq[m + i]]
<1> DEFINE n == Len(seq)
           P == (m + 1) .. n
           position(k) == CHOOSE i \in P : Cardinality({j \in P : j <= i}) = k
<1>1. n \in Nat /\ m \in Nat /\ m <= n
  OBVIOUS
<1>2. Cardinality(P) = n - m
  <2> DEFINE a == m + 1
  <2>1. a \in Int /\ n \in Int /\ P = a .. n
    BY <1>1
  <2>2. a > n => n - m = 0
    BY <1>1
  <2>3. n - a + 1 = n - m
    BY <1>1
  <2> HIDE DEF a, P, n
  <2>4. Cardinality(a .. n) = IF a > n THEN 0 ELSE n - a + 1
    BY <2>1, FS_Interval
  <2>5. QED
    BY <2>1, <2>2, <2>3, <2>4
<1>3. ASSUME NEW k \in 1 .. (n - m) PROVE position(k) = m + k
  <2>1. \A i \in P : Cardinality({j \in P : j <= i}) = i - m
    <3> SUFFICES ASSUME NEW i \in P PROVE Cardinality({j \in P : j <= i}) = i - m
      OBVIOUS
    <3>1. {j \in P : j <= i} = (m + 1) .. i
      BY <1>1
    <3>2. Cardinality((m + 1) .. i) = i - m
      BY <1>1, FS_Interval
    <3>3. QED
      BY <3>1, <3>2
  <2>2. m + k \in P /\ \A i \in P : i \in Int /\ (i - m = k <=> i = m + k)
    BY <1>1
  <2> HIDE DEF P
  <2>3. QED
    BY <2>1, <2>2
<1>4. subsequence(seq, P) = <<>> \o [k \in 1 .. Cardinality(P) |-> seq[position(k)]]
  BY SubsequenceOf
<1>5. [k \in 1 .. Cardinality(P) |-> seq[position(k)]] = [k \in 1 .. (n - m) |-> seq[m + k]]
  <2> HIDE DEF position, P, n
  <2>1. QED
    BY <1>2, <1>3
<1>6. [k \in 1 .. (n - m) |-> seq[m + k]] \in Seq(S)
  BY <1>1
<1>7. QED
  <2> DEFINE r == [k \in 1 .. (n - m) |-> seq[m + k]]
  <2>1. subsequence(seq, P) = <<>> \o r /\ r \in Seq(S)
    BY <1>4, <1>5, <1>6
  <2> HIDE DEF r
  <2>2. <<>> \o r = r
    BY <2>1
  <2>3. QED
    BY <2>1, <2>2 DEF r

\* The first elements of a sequence.
LEMMA Prefix ==
    ASSUME NEW S, NEW s \in Seq(S), NEW j \in Nat, j <= Len(s)
    PROVE  /\ SubSeq(s, 1, j) \in Seq(S)
           /\ Len(SubSeq(s, 1, j)) = j
           /\ \A i \in 1 .. j : SubSeq(s, 1, j)[i] = s[i]
<1>1. SubSeq(s, 1, j) \in Seq(S)
  OBVIOUS
<1>2. Len(SubSeq(s, 1, j)) = j
  OBVIOUS
<1>3. \A i \in 1 .. j : SubSeq(s, 1, j)[i] = s[i]
  OBVIOUS
<1>4. QED
  BY <1>1, <1>2, <1>3

\* The directives of an edge close the loops below depth m, innermost first.
LEMMA CloseLoops ==
    ASSUME NEW nest \in Seq(DOMAIN Loops), NEW p \in Seq(Token), NEW n \in 0 .. Len(nest), NEW c,
           InNest(nest, p, c, n), NEW m \in 0 .. n, NEW d,
           d = [i \in 1 .. (n - m) |-> Directive("MERGE", LoopTokens(nest[n + 1 - i]))]
    PROVE  InNest(nest, p, updateAll(c, d), m)
<1>1. n \in Nat /\ m \in Nat /\ m <= n /\ n <= Len(nest) /\ n - m \in Nat /\ Len(p) \in Nat /\ Len(nest) \in Nat
  OBVIOUS
<1>2. \A i \in 1 .. n : nest[i] \in DOMAIN Loops
  BY <1>1
<1>3. d \in [1 .. (n - m) -> LoopDirective]
  <2>1. ASSUME NEW i \in 1 .. (n - m) PROVE Directive("MERGE", LoopTokens(nest[n + 1 - i])) \in LoopDirective
    <3>1. n + 1 - i \in 1 .. n
      BY <1>1
    <3>2. nest[n + 1 - i] \in DOMAIN Loops
      BY <3>1, <1>2
    <3>3. QED
      BY <3>2 DEF LoopDirective
  <2>2. QED
    BY <2>1
<1>4. c \in Seq(Token)
  BY DEF InNest
<1> DEFINE r == n - m
<1>5. PICK g \in [0 .. r -> Seq(Token)] :
              /\ g[0] = c /\ g[r] = updateAll(c, d)
              /\ \A k \in 1 .. r : g[k] = update(g[k - 1], d[k])
  <2>1. r \in Nat /\ d \in [1 .. r -> LoopDirective]
    BY <1>1, <1>3
  <2> HIDE DEF r
  <2>2. QED
    BY <2>1, <1>4, UpdateAllSteps
<1> DEFINE G == {k \in Nat : k <= r => InNest(nest, p, g[k], n - k)}
<1>6. 0 \in G
  BY <1>1, <1>5
<1>7. ASSUME NEW k \in Nat, k \in G PROVE k + 1 \in G
  <2> SUFFICES ASSUME k + 1 <= r PROVE InNest(nest, p, g[k + 1], n - (k + 1))
    OBVIOUS
  <2>1. k <= r /\ n - k \in 1 .. n /\ k + 1 \in 1 .. r /\ k \in 0 .. r /\ n + 1 - (k + 1) = n - k
    BY <1>1
  <2> DEFINE e == g[k]
             l == nest[n - k]
  <2>2. InNest(nest, p, e, n - k) /\ e \in Seq(Token)
    BY <1>7, <2>1, <1>5
  <2>3. l \in DOMAIN Loops
    BY <1>2, <2>1
  <2>4. g[k + 1] = update(e, Directive("MERGE", LoopTokens(l)))
    <3>1. g[k + 1] = update(g[k], d[k + 1])
      BY <1>5, <2>1
    <3>2. d[k + 1] = Directive("MERGE", LoopTokens(nest[n - k]))
      BY <2>1
    <3>3. QED
      BY <3>1, <3>2
  <2>5. Len(e) = Len(p) + (n - k) /\ e # <<>> /\ e[Len(e)] \in LoopTokens(l)
    BY <2>1, <2>2, <1>1 DEF InNest
  <2> HIDE DEF e, l
  <2>6. g[k + 1] = SubSeq(e, 1, Len(e) - 1)
    BY <2>2, <2>3, <2>4, <2>5, UpdateByLoop
  <2>7. /\ g[k + 1] \in Seq(Token) /\ Len(g[k + 1]) = Len(e) - 1
        /\ \A i \in 1 .. (Len(e) - 1) : g[k + 1][i] = e[i]
    <3> DEFINE x == g[k + 1]
               j == Len(e) - 1
    <3>1. j \in Nat /\ j <= Len(e) /\ x = SubSeq(e, 1, j)
      BY <2>2, <2>5, <2>6
    <3> HIDE DEF x, j
    <3>2. x \in Seq(Token) /\ Len(x) = j /\ \A i \in 1 .. j : x[i] = e[i]
      BY <2>2, <3>1, Prefix
    <3>3. QED
      BY <3>2 DEF x, j
  <2>8. Len(g[k + 1]) = Len(p) + (n - (k + 1))
    BY <2>7, <2>5, <1>1
  <2>9. \A i \in 1 .. Len(p) : g[k + 1][i] = p[i]
    <3>1. \A i \in 1 .. Len(p) : i \in 1 .. (Len(e) - 1) /\ e[i] = p[i]
      BY <2>1, <2>2, <2>5, <1>1 DEF InNest
    <3>2. QED
      BY <3>1, <2>7
  <2>10. \A i \in 1 .. (n - (k + 1)) : g[k + 1][Len(p) + i] \in LoopTokens(nest[i])
    <3>1. \A i \in 1 .. (n - (k + 1)) : Len(p) + i \in 1 .. (Len(e) - 1) /\ i \in 1 .. (n - k)
      BY <2>1, <2>5, <1>1
    <3>2. \A i \in 1 .. (n - k) : e[Len(p) + i] \in LoopTokens(nest[i])
      BY <2>2 DEF InNest
    <3>3. QED
      BY <3>1, <3>2, <2>7
  <2>11. QED
    BY <2>7, <2>8, <2>9, <2>10 DEF InNest
<1>8. r \in G
  <2>1. r \in Nat
    BY <1>1
  <2> HIDE DEF G, r
  <2>2. QED
    BY <2>1, <1>6, <1>7, NatInductionOn
<1>9. n - r = m
  BY <1>1
<1>10. QED
  BY <1>5, <1>8, <1>9

\* The directives of an edge open the loops below depth m, outermost first.
LEMMA OpenLoops ==
    ASSUME NEW nest \in Seq(DOMAIN Loops), NEW p \in Seq(Token), NEW n \in 0 .. Len(nest), NEW c,
           NEW m \in 0 .. n, InNest(nest, p, c, m), NEW d,
           d = [i \in 1 .. (n - m) |-> Directive("CREATE", LoopTokens(nest[m + i]))]
    PROVE  InNest(nest, p, updateAll(c, d), n)
<1>1. n \in Nat /\ m \in Nat /\ m <= n /\ n <= Len(nest) /\ n - m \in Nat /\ Len(p) \in Nat /\ Len(nest) \in Nat
  OBVIOUS
<1>2. \A i \in 1 .. n : nest[i] \in DOMAIN Loops
  BY <1>1
<1>3. d \in [1 .. (n - m) -> LoopDirective]
  <2>1. ASSUME NEW i \in 1 .. (n - m) PROVE Directive("CREATE", LoopTokens(nest[m + i])) \in LoopDirective
    <3>1. m + i \in 1 .. n
      BY <1>1
    <3>2. nest[m + i] \in DOMAIN Loops
      BY <3>1, <1>2
    <3>3. QED
      BY <3>2 DEF LoopDirective
  <2>2. QED
    BY <2>1
<1>4. c \in Seq(Token)
  BY DEF InNest
<1> DEFINE r == n - m
<1>5. PICK g \in [0 .. r -> Seq(Token)] :
              /\ g[0] = c /\ g[r] = updateAll(c, d)
              /\ \A k \in 1 .. r : g[k] = update(g[k - 1], d[k])
  <2>1. r \in Nat /\ d \in [1 .. r -> LoopDirective]
    BY <1>1, <1>3
  <2> HIDE DEF r
  <2>2. QED
    BY <2>1, <1>4, UpdateAllSteps
<1> DEFINE G == {k \in Nat : k <= r => InNest(nest, p, g[k], m + k)}
<1>6. 0 \in G
  BY <1>1, <1>5
<1>7. ASSUME NEW k \in Nat, k \in G PROVE k + 1 \in G
  <2> SUFFICES ASSUME k + 1 <= r PROVE InNest(nest, p, g[k + 1], m + (k + 1))
    OBVIOUS
  <2>1. k <= r /\ m + (k + 1) \in 1 .. n /\ k + 1 \in 1 .. r /\ k \in 0 .. r
    BY <1>1
  <2> DEFINE e == g[k]
             l == nest[m + (k + 1)]
  <2>2. InNest(nest, p, e, m + k) /\ e \in Seq(Token)
    BY <1>7, <2>1, <1>5
  <2>3. l \in DOMAIN Loops
    BY <1>2, <2>1
  <2>4. g[k + 1] = update(e, Directive("CREATE", LoopTokens(l)))
    <3>1. g[k + 1] = update(g[k], d[k + 1])
      BY <1>5, <2>1
    <3>2. d[k + 1] = Directive("CREATE", LoopTokens(nest[m + (k + 1)]))
      BY <2>1
    <3>3. QED
      BY <3>1, <3>2
  <2> HIDE DEF e, l
  <2>5. PICK t \in LoopTokens(l) : g[k + 1] = Append(e, t)
    BY <2>2, <2>3, <2>4, UpdateByLoop
  <2>6. t \in Token
    BY <2>3, TokensOfLoop
  <2>7. Len(e) = Len(p) + (m + k)
    BY <2>2 DEF InNest
  <2>8. /\ g[k + 1] \in Seq(Token) /\ Len(g[k + 1]) = Len(e) + 1
        /\ \A i \in 1 .. Len(e) : g[k + 1][i] = e[i]
        /\ g[k + 1][Len(e) + 1] = t
    BY <2>2, <2>5, <2>6
  <2>9. Len(g[k + 1]) = Len(p) + (m + (k + 1))
    BY <2>7, <2>8, <1>1
  <2>10. \A i \in 1 .. Len(p) : g[k + 1][i] = p[i]
    <3>1. \A i \in 1 .. Len(p) : i \in 1 .. Len(e) /\ e[i] = p[i]
      BY <2>2, <2>7, <1>1 DEF InNest
    <3>2. QED
      BY <3>1, <2>8
  <2>11. ASSUME NEW i \in 1 .. (m + (k + 1)) PROVE g[k + 1][Len(p) + i] \in LoopTokens(nest[i])
    <3>1. CASE i = m + (k + 1)
      <4>1. Len(p) + i = Len(e) + 1
        BY <3>1, <2>7, <1>1
      <4>2. QED
        BY <4>1, <3>1, <2>8 DEF l
    <3>2. CASE i # m + (k + 1)
      <4>1. i \in 1 .. (m + k) /\ Len(p) + i \in 1 .. Len(e)
        BY <3>2, <2>7, <1>1
      <4>2. e[Len(p) + i] \in LoopTokens(nest[i])
        BY <4>1, <2>2 DEF InNest
      <4>3. QED
        BY <4>1, <4>2, <2>8
    <3>3. QED
      BY <3>1, <3>2
  <2>12. QED
    BY <2>8, <2>9, <2>10, <2>11 DEF InNest
<1>8. r \in G
  <2>1. r \in Nat
    BY <1>1
  <2> HIDE DEF G, r
  <2>2. QED
    BY <2>1, <1>6, <1>7, NatInductionOn
<1>9. m + r = n
  BY <1>1
<1>10. QED
  BY <1>5, <1>8, <1>9

\* Which loops an edge leaves and enters: those below a depth that both blocks
\* have in common.
LEMMA EdgeDirectives ==
    ASSUME NEW a \in MBB, NEW b \in Blocks[a].succ
    PROVE  \E i \in 0 .. Len(Blocks[a].nest), j \in 0 .. Len(Blocks[b].nest) :
              /\ getDirectiveOnEdgeEnter(<<a, b>>) =
                    [k \in 1 .. (Len(Blocks[a].nest) - i)
                        |-> Directive("MERGE", LoopTokens(Blocks[a].nest[Len(Blocks[a].nest) + 1 - k]))]
              /\ getDirectiveOnEdgeLeave(<<a, b>>) =
                    [k \in 1 .. (Len(Blocks[b].nest) - j)
                        |-> Directive("CREATE", LoopTokens(Blocks[b].nest[j + k]))]
              /\ LoopPeel = 0 => i = Len(Blocks[a].nest) /\ j = Len(Blocks[b].nest)
              /\ LoopPeel > 0 => i = j /\ \A k \in 1 .. i : Blocks[a].nest[k] = Blocks[b].nest[k]
<1> DEFINE na == Blocks[a].nest
           nb == Blocks[b].nest
           edge == <<a, b>>
           left == {k \in DOMAIN na : LoopPeel > 0 /\ isExitingEdgeOfLoop(edge, na[k])}
           entered == {k \in DOMAIN nb : LoopPeel > 0 /\ isIncomingEdgeOfLoop(edge, nb[k])}
           La == Len(na)
           Lb == Len(nb)
<1>1. b \in MBB
  BY CodeAssumption
<1>2. na \in Seq(DOMAIN Loops) /\ nb \in Seq(DOMAIN Loops)
  BY <1>1, LoopAssumption
<1>3. DOMAIN na = 1 .. La /\ DOMAIN nb = 1 .. Lb /\ La \in Nat /\ Lb \in Nat
  BY <1>2
<1>4. /\ \A k \in DOMAIN na : a \in Loops[na[k]].blocks
      /\ \A k \in DOMAIN nb : b \in Loops[nb[k]].blocks
  <2>1. \A x \in MBB : \A l \in DOMAIN Loops :
           x \in Loops[l].blocks <=> \E k \in DOMAIN Blocks[x].nest : Blocks[x].nest[k] = l
    BY LoopAssumption
  <2>2. /\ \A k \in DOMAIN na : na[k] \in DOMAIN Loops
        /\ \A k \in DOMAIN nb : nb[k] \in DOMAIN Loops
    BY <1>2
  <2>3. QED
    BY <2>1, <2>2, <1>1
<1>5. \A l \in DOMAIN Loops : b \in Loops[l].blocks /\ a \notin Loops[l].blocks => b = Loops[l].header
  BY LoopAssumption
<1>6. edge[1] = a /\ edge[2] = b
  OBVIOUS
<1>7. \E i \in 0 .. La, j \in 0 .. Lb :
        /\ left = (i + 1) .. La /\ entered = (j + 1) .. Lb
        /\ LoopPeel = 0 => i = La /\ j = Lb
        /\ LoopPeel > 0 => i = j /\ \A k \in 1 .. i : na[k] = nb[k]
  <2>1. CASE LoopPeel = 0
    <3>1. left = {} /\ entered = {}
      BY <2>1
    <3>2. (La + 1) .. La = {} /\ (Lb + 1) .. Lb = {} /\ La \in 0 .. La /\ Lb \in 0 .. Lb
      BY <1>3
    <3> HIDE DEF left, entered, La, Lb, na, nb
    <3>3. QED
      BY <3>1, <3>2, <2>1
  <2>2. CASE LoopPeel > 0
    <3>1. PICK k \in Nat :
              /\ k <= La /\ k <= Lb
              /\ \A i \in 1 .. k : na[i] = nb[i]
              /\ \A i \in DOMAIN na : b \in Loops[na[i]].blocks <=> i <= k
              /\ \A i \in DOMAIN nb : a \in Loops[nb[i]].blocks <=> i <= k
      BY <1>1, CommonLoops
    <3>2. \A i \in DOMAIN na : isExitingEdgeOfLoop(edge, na[i]) <=> ~ (i <= k)
      <4> HIDE DEF na, nb, edge
      <4>1. QED
        BY <3>1, <1>4, <1>6 DEF isExitingEdgeOfLoop
    <3>3. \A i \in DOMAIN nb : isIncomingEdgeOfLoop(edge, nb[i]) <=> ~ (i <= k)
      <4>1. \A i \in DOMAIN nb : nb[i] \in DOMAIN Loops
        BY <1>2
      <4> HIDE DEF na, nb, edge
      <4>2. QED
        BY <4>1, <3>1, <1>4, <1>5, <1>6 DEF isIncomingEdgeOfLoop
    <3> HIDE DEF na, nb, edge, La, Lb
    <3>4. left = (k + 1) .. La
      BY <3>2, <1>3, <2>2
    <3>5. entered = (k + 1) .. Lb
      BY <3>3, <1>3, <2>2
    <3>6. k \in 0 .. La /\ k \in 0 .. Lb
      BY <3>1, <1>3
    <3> HIDE DEF left, entered
    <3>7. QED
      BY <3>1, <3>4, <3>5, <3>6, <2>2
  <2>3. QED
    BY <2>1, <2>2, LoopPeelAssumption
<1>8. PICK i \in 0 .. La : \E j \in 0 .. Lb :
        /\ left = (i + 1) .. La /\ entered = (j + 1) .. Lb
        /\ LoopPeel = 0 => i = La /\ j = Lb
        /\ LoopPeel > 0 => i = j /\ \A k \in 1 .. i : na[k] = nb[k]
  BY <1>7
<1>9. PICK j \in 0 .. Lb :
        /\ left = (i + 1) .. La /\ entered = (j + 1) .. Lb
        /\ LoopPeel = 0 => i = La /\ j = Lb
        /\ LoopPeel > 0 => i = j /\ \A k \in 1 .. i : na[k] = nb[k]
  BY <1>8
<1>10. getDirectiveOnEdgeEnter(edge) = [k \in 1 .. (La - i) |-> Directive("MERGE", LoopTokens(na[La + 1 - k]))]
  <2> DEFINE seq == loopDirectives("MERGE", na)
             r == La - i
             q == [k \in 1 .. r |-> seq[i + k]]
  <2>1. directivesOfLeft(edge) = subsequence(seq, (i + 1) .. La)
    <3>1. directivesOfLeft(edge) = subsequence(seq, left)
      BY <1>6 DEF directivesOfLeft
    <3>2. QED
      BY <3>1, <1>9
  <2>2. seq = [k \in 1 .. La |-> Directive("MERGE", LoopTokens(na[k]))]
    BY <1>3 DEF loopDirectives
  <2>3. seq \in Seq({Directive("MERGE", LoopTokens(na[k])) : k \in 1 .. La}) /\ Len(seq) = La
    <3> HIDE DEF seq, La
    <3>1. QED
      BY <2>2, <1>3
  <2>4. directivesOfLeft(edge) = q
    <3> DEFINE S == {Directive("MERGE", LoopTokens(na[k])) : k \in 1 .. La}
    <3>1. seq \in Seq(S) /\ i \in 0 .. Len(seq) /\ Len(seq) = La
      BY <2>3, <1>3
    <3> HIDE DEF seq, S, La
    <3>2. subsequence(seq, (i + 1) .. La) = [k \in 1 .. (La - i) |-> seq[i + k]]
      BY <3>1, SubsequenceOfRest
    <3>3. QED
      BY <3>2, <2>1 DEF seq
  <2>5. r \in Nat /\ Len(q) = r
    BY <1>3
  <2>6. getDirectiveOnEdgeEnter(edge) = [k \in 1 .. r |-> q[r - k + 1]]
    <3>1. getDirectiveOnEdgeEnter(edge) = Reverse(directivesOfLeft(edge))
      BY DEF getDirectiveOnEdgeEnter
    <3> HIDE DEF q, r
    <3>2. QED
      BY <3>1, <2>4, <2>5 DEF Reverse
  <2>7. ASSUME NEW k \in 1 .. r PROVE q[r - k + 1] = Directive("MERGE", LoopTokens(na[La + 1 - k]))
    <3>1. r - k + 1 \in 1 .. r /\ i + (r - k + 1) = La + 1 - k /\ La + 1 - k \in 1 .. La
      BY <1>3
    <3> HIDE DEF seq, La, r
    <3>2. q[r - k + 1] = seq[La + 1 - k]
      BY <3>1
    <3>3. QED
      BY <3>1, <3>2, <2>2
  <2> HIDE DEF q, r, La, seq
  <2>8. [k \in 1 .. r |-> q[r - k + 1]] = [k \in 1 .. r |-> Directive("MERGE", LoopTokens(na[La + 1 - k]))]
    BY <2>7
  <2>9. QED
    BY <2>6, <2>8 DEF r
<1>11. getDirectiveOnEdgeLeave(edge) = [k \in 1 .. (Lb - j) |-> Directive("CREATE", LoopTokens(nb[j + k]))]
  <2> DEFINE seq == loopDirectives("CREATE", nb)
  <2>1. getDirectiveOnEdgeLeave(edge) = subsequence(seq, (j + 1) .. Lb)
    <3>1. getDirectiveOnEdgeLeave(edge) = subsequence(seq, entered)
      BY <1>6 DEF getDirectiveOnEdgeLeave
    <3>2. QED
      BY <3>1, <1>9
  <2>2. seq = [k \in 1 .. Lb |-> Directive("CREATE", LoopTokens(nb[k]))]
    BY <1>3 DEF loopDirectives
  <2>3. seq \in Seq({Directive("CREATE", LoopTokens(nb[k])) : k \in 1 .. Lb}) /\ Len(seq) = Lb
    <3> HIDE DEF seq, Lb
    <3>1. QED
      BY <2>2, <1>3
  <2>4. subsequence(seq, (j + 1) .. Lb) = [k \in 1 .. (Lb - j) |-> seq[j + k]]
    <3> DEFINE S == {Directive("CREATE", LoopTokens(nb[k])) : k \in 1 .. Lb}
    <3>1. seq \in Seq(S) /\ j \in 0 .. Len(seq) /\ Len(seq) = Lb
      BY <2>3, <1>3
    <3> HIDE DEF seq, S, Lb
    <3>2. QED
      BY <3>1, SubsequenceOfRest
  <2>5. ASSUME NEW k \in 1 .. (Lb - j) PROVE seq[j + k] = Directive("CREATE", LoopTokens(nb[j + k]))
    <3>1. j + k \in 1 .. Lb
      BY <1>3
    <3> HIDE DEF seq, Lb
    <3>2. QED
      BY <3>1, <2>2
  <2> HIDE DEF seq, Lb
  <2>6. [k \in 1 .. (Lb - j) |-> seq[j + k]] = [k \in 1 .. (Lb - j) |-> Directive("CREATE", LoopTokens(nb[j + k]))]
    BY <2>5
  <2>7. QED
    BY <2>1, <2>4, <2>6
<1>12. QED
  BY <1>9, <1>10, <1>11

\* Going on to the next iteration exchanges the token of the innermost loop.
LEMMA TransferInNest ==
    ASSUME NEW nest \in Seq(DOMAIN Loops), NEW p \in Seq(Token), p # <<>>,
           NEW f, p[Len(p)] = PartitionTokenFunCallee(f),
           NEW k \in 0 .. Len(nest), NEW c, InNest(nest, p, c, k), NEW edge
    PROVE  InNest(nest, p, transfer(c, edge), k)
<1> DEFINE top == Last(c)
           n == Len(c)
<1>1. c \in Seq(Token) /\ n = Len(p) + k /\ Len(p) \in Nat /\ Len(p) > 0 /\ k \in Nat /\ n \in Nat /\ n > 0
  BY DEF InNest
<1>2. c # <<>> /\ top = c[n]
  BY <1>1 DEF Last
<1>3. CASE ~ (top.type = "LOOPPEEL" /\ isBackEdgeOfLoop(edge, top.of[1]))
  BY <1>2, <1>3 DEF transfer
<1>4. CASE top.type = "LOOPPEEL" /\ isBackEdgeOfLoop(edge, top.of[1])
  <2>1. k # 0
    <3> SUFFICES ASSUME k = 0 PROVE FALSE
      OBVIOUS
    <3>1. n = Len(p) /\ c[Len(p)] = p[Len(p)]
      BY <1>1 DEF InNest
    <3>2. top.type = "FUNCALLEE"
      BY <3>1, <1>2 DEF PartitionTokenFunCallee
    <3>3. QED
      BY <3>2, <1>4
  <2> DEFINE l == nest[k]
  <2>2. l \in DOMAIN Loops /\ top \in LoopTokens(l)
    <3>1. k \in 1 .. k /\ c[Len(p) + k] \in LoopTokens(nest[k])
      BY <1>1, <2>1 DEF InNest
    <3>2. QED
      BY <3>1, <1>1, <1>2
  <2> HIDE DEF l
  <2>3. top.of = <<l>> /\ \E u \in LoopTokens(l) : u.count = top.count + 1
    BY <2>2, <1>4, TokensOfLoop
  <2>4. top.of[1] = l
    BY <2>3
  <2> DEFINE t == CHOOSE t \in LoopTokens(l) : t.count = top.count + 1
             e == Front(c)
  <2>5. t \in LoopTokens(l) /\ t \in Token
    <3>1. t \in LoopTokens(l)
      BY <2>3
    <3> HIDE DEF t
    <3>2. QED
      BY <3>1, <2>2, TokensOfLoop
  <2>6. transfer(c, edge) = Append(e, t)
    BY <1>2, <1>4, <2>4 DEF transfer
  <2>7. e \in Seq(Token) /\ Len(e) = n - 1 /\ \A i \in 1 .. (n - 1) : e[i] = c[i]
    <3>1. n - 1 \in Nat /\ n - 1 <= Len(c) /\ e = SubSeq(c, 1, n - 1)
      BY <1>1 DEF Front
    <3> HIDE DEF e
    <3>2. QED
      BY <3>1, <1>1, Prefix
  <2> HIDE DEF t, e, top
  <2> DEFINE x == Append(e, t)
  <2>8. x \in Seq(Token) /\ Len(x) = n /\ x[n] = t /\ \A i \in 1 .. (n - 1) : x[i] = c[i]
    <3>1. x \in Seq(Token) /\ Len(x) = Len(e) + 1 /\ x[Len(e) + 1] = t /\ \A i \in 1 .. Len(e) : x[i] = e[i]
      BY <2>5, <2>7
    <3> HIDE DEF x
    <3>2. QED
      BY <3>1, <2>7, <1>1
  <2> HIDE DEF x
  <2>9. \A i \in 1 .. Len(p) : x[i] = p[i]
    <3>1. \A i \in 1 .. Len(p) : i \in 1 .. (n - 1) /\ c[i] = p[i]
      BY <1>1, <2>1 DEF InNest
    <3>2. QED
      BY <3>1, <2>8
  <2>10. ASSUME NEW i \in 1 .. k PROVE x[Len(p) + i] \in LoopTokens(nest[i])
    <3>1. CASE i = k
      BY <3>1, <2>5, <2>8, <1>1 DEF l
    <3>2. CASE i # k
      <4>1. Len(p) + i \in 1 .. (n - 1) /\ c[Len(p) + i] \in LoopTokens(nest[i])
        BY <3>2, <1>1 DEF InNest
      <4>2. QED
        BY <4>1, <2>8
    <3>3. QED
      BY <3>1, <3>2
  <2>11. QED
    BY <2>6, <2>8, <2>9, <2>10, <1>1 DEF InNest, x
<1>5. QED
  BY <1>3, <1>4

\* The context behind an edge is a context of the block that the edge enters.
LEMMA EdgeContext ==
    ASSUME NEW a \in MBB, NEW b \in Blocks[a].succ, NEW p, NEW c, InCall(a, p, c)
    PROVE  InCall(b, p, edgeContext(c, <<a, b>>))
<1> DEFINE na == Blocks[a].nest
           nb == Blocks[b].nest
           edge == <<a, b>>
           La == Len(na)
           Lb == Len(nb)
<1>1. b \in MBB /\ Blocks[b].func = Blocks[a].func
  BY CodeAssumption
<1>2. na \in Seq(DOMAIN Loops) /\ nb \in Seq(DOMAIN Loops) /\ La \in Nat /\ Lb \in Nat
  BY <1>1, LoopAssumption
<1>3. PICK i \in 0 .. La, j \in 0 .. Lb :
              /\ getDirectiveOnEdgeEnter(edge) =
                    [k \in 1 .. (La - i) |-> Directive("MERGE", LoopTokens(na[La + 1 - k]))]
              /\ getDirectiveOnEdgeLeave(edge) =
                    [k \in 1 .. (Lb - j) |-> Directive("CREATE", LoopTokens(nb[j + k]))]
              /\ LoopPeel = 0 => i = La /\ j = Lb
              /\ LoopPeel > 0 => i = j /\ \A k \in 1 .. i : na[k] = nb[k]
  BY EdgeDirectives
<1> DEFINE enter == getDirectiveOnEdgeEnter(edge)
           leave == getDirectiveOnEdgeLeave(edge)
           c1 == updateAll(c, enter)
           c2 == transfer(c1, edge)
           c3 == updateAll(c2, leave)
<1>4. edgeContext(c, edge) = c3
  BY DEF edgeContext
<1>5. /\ p \in Seq(Token) /\ p # <<>> /\ p[Len(p)] = PartitionTokenFunCallee(Blocks[a].func)
      /\ InNest(Nest(a), p, c, Len(Nest(a)))
  BY DEF InCall, InNest
<1>6. CASE LoopPeel = 0
  <2>1. Nest(a) = <<>> /\ Nest(b) = <<>> /\ Len(<<>>) = 0
    BY <1>6 DEF Nest
  <2> DEFINE none == [k \in 1 .. 0 |-> Directive("MERGE", {})]
  <2>2. enter = none /\ leave = none
    <3>1. La - i = 0 /\ Lb - j = 0
      BY <1>3, <1>6, <1>2
    <3>2. enter = [k \in 1 .. 0 |-> Directive("MERGE", LoopTokens(na[La + 1 - k]))]
      BY <3>1, <1>3
    <3>3. leave = [k \in 1 .. 0 |-> Directive("CREATE", LoopTokens(nb[j + k]))]
      BY <3>1, <1>3
    <3> HIDE DEF enter, leave, La, Lb, na, nb
    <3>4. QED
      BY <3>2, <3>3
  <2>3. ASSUME NEW x \in Seq(Token) PROVE updateAll(x, none) = x
    <3>1. none \in [1 .. 0 -> LoopDirective] /\ 0 \in Nat
      OBVIOUS
    <3> HIDE DEF none
    <3>2. PICK g \in [0 .. 0 -> Seq(Token)] : g[0] = x /\ g[0] = updateAll(x, none)
      BY <3>1, UpdateAllSteps
    <3>3. QED
      BY <3>2
  <2>4. c \in Seq(Token) /\ c1 = c
    BY <1>5, <2>2, <2>3 DEF InNest
  <2>5. InNest(<<>>, p, c1, 0)
    BY <2>4, <2>1, <1>5
  <2>6. InNest(<<>>, p, c2, 0)
    <3> DEFINE nest == <<>>
    <3>1. nest \in Seq(DOMAIN Loops) /\ 0 \in 0 .. Len(nest)
      OBVIOUS
    <3>2. InNest(nest, p, c1, 0)
      BY <2>5
    <3> HIDE DEF nest, c1
    <3>3. InNest(nest, p, transfer(c1, edge), 0)
      BY <3>1, <3>2, <1>5, TransferInNest
    <3>4. QED
      BY <3>3 DEF nest
  <2>7. c2 \in Seq(Token) /\ c3 = c2
    <3> HIDE DEF none, c2
    <3>1. c2 \in Seq(Token)
      BY <2>6 DEF InNest
    <3>2. QED
      BY <3>1, <2>2, <2>3
  <2> HIDE DEF c3
  <2>8. InNest(Nest(b), p, c3, Len(Nest(b)))
    BY <2>6, <2>7, <2>1
  <2>9. QED
    BY <2>8, <1>1, <1>4, <1>5 DEF InNest, InCall
<1>7. CASE LoopPeel > 0
  <2>1. Nest(a) = na /\ Nest(b) = nb
    BY <1>7 DEF Nest
  <2>2. i = j /\ \A k \in 1 .. i : na[k] = nb[k]
    BY <1>3, <1>7
  <2>3. InNest(na, p, c1, i)
    <3>1. InNest(na, p, c, La) /\ La \in 0 .. Len(na) /\ i \in 0 .. La
      BY <1>2, <1>5, <2>1
    <3>2. enter = [k \in 1 .. (La - i) |-> Directive("MERGE", LoopTokens(na[La + 1 - k]))]
      BY <1>3
    <3> HIDE DEF enter, La, na
    <3>3. QED
      BY <3>1, <3>2, <1>2, <1>5, CloseLoops
  <2>4. InNest(na, p, c2, i)
    <3>1. i \in 0 .. Len(na)
      BY <1>2
    <3> HIDE DEF c1, na
    <3>2. QED
      BY <3>1, <2>3, <1>2, <1>5, TransferInNest
  <2> HIDE DEF c2
  <2>5. InNest(nb, p, c2, i)
    <3> HIDE DEF na, nb
    <3>1. QED
      BY <2>4, <2>2 DEF InNest
  <2>6. InNest(nb, p, c3, Lb)
    <3>1. Lb \in 0 .. Len(nb) /\ j \in 0 .. Lb /\ InNest(nb, p, c2, j)
      BY <1>2, <2>2, <2>5
    <3>2. leave = [k \in 1 .. (Lb - j) |-> Directive("CREATE", LoopTokens(nb[j + k]))]
      BY <1>3
    <3> HIDE DEF leave, Lb, nb
    <3>3. QED
      BY <3>1, <3>2, <1>2, <1>5, OpenLoops
  <2> HIDE DEF c3
  <2>7. QED
    BY <2>6, <2>1, <1>1, <1>4, <1>5 DEF InNest, InCall
<1>8. QED
  BY <1>6, <1>7, LoopPeelAssumption

-----------------------------------------------------------------------------
(* Calls.                                                                  *)

\* The elements of a finite set of positions are counted from the first one.
LEMMA Ranks ==
    ASSUME NEW n \in Nat, NEW S \in SUBSET (1 .. n)
    PROVE  \A k \in 1 .. Cardinality(S) : \E i \in S : Cardinality({j \in S : j <= i}) = k
<1> DEFINE G == {s \in SUBSET (1 .. n) :
                    \A k \in 1 .. Cardinality(s) : \E i \in s : Cardinality({j \in s : j <= i}) = k}
<1>1. IsFiniteSet(1 .. n) /\ IsFiniteSet(S)
  <2>1. IsFiniteSet(1 .. n) /\ S \subseteq 1 .. n
    BY FS_Interval
  <2>2. QED
    BY <2>1, FS_Subset
<1>2. {} \in G
  <2>1. Cardinality({}) = 0
    BY FS_EmptySet
  <2>2. QED
    BY <2>1
<1>3. ASSUME NEW s \in SUBSET (1 .. n), s # {}, \A x \in s : s \ {x} \in G PROVE s \in G
  <2>1. IsFiniteSet(s) /\ Cardinality(s) \in Nat
    BY <1>1, FS_Subset, FS_CardinalityType
  <2>2. PICK m \in s : \A x \in s : x <= m
    <3>1. s \subseteq 0 .. n
      OBVIOUS
    <3>2. QED
      BY <3>1, <1>3, GreatestNatural
  <2> DEFINE r == s \ {m}
  <2>3. Cardinality(r) = Cardinality(s) - 1 /\ r \in G
    BY <2>1, <1>3, FS_RemoveElement
  <2>4. ASSUME NEW k \in 1 .. Cardinality(s) PROVE \E i \in s : Cardinality({j \in s : j <= i}) = k
    <3>1. CASE k = Cardinality(s)
      <4>1. {j \in s : j <= m} = s
        BY <2>2
      <4>2. QED
        BY <4>1, <3>1
    <3>2. CASE k # Cardinality(s)
      <4>1. k \in 1 .. Cardinality(r)
        BY <3>2, <2>1, <2>3
      <4>2. PICK i \in r : Cardinality({j \in r : j <= i}) = k
        BY <4>1, <2>3
      <4>3. {j \in r : j <= i} = {j \in s : j <= i}
        BY <2>2
      <4>4. QED
        BY <4>2, <4>3
    <3>3. QED
      BY <3>1, <3>2
  <2>5. QED
    BY <2>4
<1>4. \A s \in SUBSET S : s # {} /\ (\A x \in s : s \ {x} \in G) => s \in G
  BY <1>3
<1>5. S \in G
  <2> HIDE DEF G
  <2>1. QED
    BY <1>1, <1>2, <1>4, SubsetInduction
<1>6. QED
  BY <1>5

\* A subsequence of a context is one.
LEMMA SubsequenceTyped ==
    ASSUME NEW V, NEW seq \in Seq(V), NEW S \in SUBSET DOMAIN seq
    PROVE  subsequence(seq, S) \in Seq(V)
<1> DEFINE n == Cardinality(S)
           position(k) == CHOOSE i \in S : Cardinality({j \in S : j <= i}) = k
           r == [k \in 1 .. n |-> seq[position(k)]]
<1>1. Len(seq) \in Nat /\ DOMAIN seq = 1 .. Len(seq)
  OBVIOUS
<1>2. n \in Nat
  <2>1. IsFiniteSet(1 .. Len(seq)) /\ S \subseteq 1 .. Len(seq)
    BY <1>1, FS_Interval
  <2>2. IsFiniteSet(S)
    BY <2>1, FS_Subset
  <2>3. QED
    BY <2>2, FS_CardinalityType
<1>3. ASSUME NEW k \in 1 .. n PROVE seq[position(k)] \in V
  <2>1. \E i \in S : Cardinality({j \in S : j <= i}) = k
    BY <1>1, Ranks
  <2>2. position(k) \in S
    BY <2>1
  <2> HIDE DEF position
  <2>3. position(k) \in 1 .. Len(seq)
    BY <2>2, <1>1
  <2>4. QED
    BY <2>3
<1>4. r \in Seq(V)
  <2> HIDE DEF position, n
  <2>1. QED
    BY <1>2, <1>3
<1>5. subsequence(seq, S) = <<>> \o r
  BY SubsequenceOf
<1> HIDE DEF r
<1>6. QED
  BY <1>4, <1>5

\* What survives a call is a context.
LEMMA ReduceTyped ==
    ASSUME NEW c \in Seq(Token)
    PROVE  reduceOnCall(c) \in Seq(Token)
<1> DEFINE survivors ==
            {i \in DOMAIN c : \A k \in Limits : k.number >= 0 /\ c[i].type \in k.types
                                   => tokensAbove(c, k.types, i) < k.number}
<1>1. survivors \in SUBSET DOMAIN c
  OBVIOUS
<1>2. reduceOnCall(c) = subsequence(c, survivors)
  BY DEF reduceOnCall
<1> HIDE DEF survivors
<1>3. QED
  BY <1>1, <1>2, SubsequenceTyped

\* Around a call instruction its token is pushed and popped.
LEMMA AroundCall ==
    ASSUME NEW c \in Seq(Token), NEW i \in Instrs
    PROVE  /\ update(c, getDirectiveBeforeInstr(i)) \in Seq(Token)
           /\ update(c, getDirectiveBeforeInstr(i)) = Append(c, PartitionTokenCallSite(i))
           /\ update(update(c, getDirectiveBeforeInstr(i)), getDirectiveAfterInstr(i)) = c
<1> DEFINE t == PartitionTokenCallSite(i)
           x == Append(c, t)
           n == Len(c)
<1>1. t \in Token /\ t.type = "CALLSITE" /\ "CALLSITE" \notin LoopTokenTypes
  BY DEF Token, PartitionTokenCallSite, LoopTokenTypes
<1>2. update(c, getDirectiveBeforeInstr(i)) = x
  <2> DEFINE first == {u \in {t} : u.type \in LoopTokenTypes => u.count = 0}
  <2>1. first = {t}
    BY <1>1
  <2>2. update(c, getDirectiveBeforeInstr(i)) =
           IF first = {} THEN c ELSE Append(c, CHOOSE u \in first : TRUE)
    BY DEF update, getDirectiveBeforeInstr, Directive
  <2>3. (CHOOSE u \in {t} : TRUE) = t
    OBVIOUS
  <2> HIDE DEF first, t
  <2>4. QED
    BY <2>1, <2>2, <2>3
<1>3. x \in Seq(Token) /\ Len(x) = n + 1 /\ x[n + 1] = t /\ n \in Nat /\ \A k \in 1 .. n : x[k] = c[k]
  <2> HIDE DEF t
  <2>1. QED
    BY <1>1
<1>4. update(x, getDirectiveAfterInstr(i)) = c
  <2>1. Last(x) \in {t}
    BY <1>3 DEF Last
  <2>2. update(x, getDirectiveAfterInstr(i)) = Front(x)
    <3> HIDE DEF x
    <3>1. QED
      BY <2>1 DEF update, getDirectiveAfterInstr, Directive
  <2>3. Front(x) = c
    <3> HIDE DEF t
    <3>1. Front(x) = SubSeq(x, 1, n)
      BY <1>3 DEF Front
    <3> HIDE DEF x
    <3>2. SubSeq(x, 1, n) \in Seq(Token) /\ Len(SubSeq(x, 1, n)) = n /\ \A k \in 1 .. n : SubSeq(x, 1, n)[k] = x[k]
      BY <1>3, Prefix
    <3>3. QED
      BY <3>1, <3>2, <1>3
  <2>4. QED
    BY <2>2, <2>3
<1>5. QED
  BY <1>2, <1>3, <1>4

\* What a call instruction reads in a context of its block.
CallContext(i, c) == reduceOnCall(update(c, getDirectiveBeforeInstr(i)))

\* The calls in a block.
CallsOf(b) == {i \in Instrs : i[1] = b /\ InstrAt(i).op = "call"}

\* A subsequence takes elements in their order; if the last one is among them,
\* it is the last of the subsequence.
LEMMA SubsequenceOrder ==
    ASSUME NEW V, NEW seq \in Seq(V), NEW S \in SUBSET DOMAIN seq, Len(seq) \in S,
           NEW r, r = subsequence(seq, S)
    PROVE  /\ r \in Seq(V) /\ r # <<>> /\ r[Len(r)] = seq[Len(seq)]
           /\ \A k \in 1 .. (Len(r) - 1) : \E m \in S : m # Len(seq) /\ r[k] = seq[m]
<1> DEFINE n == Cardinality(S)
           N == Len(seq)
           upto(i) == {j \in S : j <= i}
           position(k) == CHOOSE i \in S : Cardinality(upto(i)) = k
<1>1. N \in Nat /\ S \in SUBSET (1 .. N) /\ N \in S
  OBVIOUS
<1>2. IsFiniteSet(S) /\ n \in Nat
  <2>1. IsFiniteSet(1 .. N)
    BY <1>1, FS_Interval
  <2>2. IsFiniteSet(S)
    BY <1>1, <2>1, FS_Subset
  <2>3. QED
    BY <2>2, FS_CardinalityType
<1>3. upto(N) = S
  BY <1>1
<1>4. ASSUME NEW k \in 1 .. n PROVE position(k) \in S /\ Cardinality(upto(position(k))) = k
  <2>1. \E i \in S : Cardinality(upto(i)) = k
    BY <1>1, Ranks
  <2> HIDE DEF upto
  <2>2. QED
    BY <2>1
<1>5. n > 0
  <2>1. n # 0
    BY <1>1, <1>2, FS_EmptySet
  <2>2. QED
    BY <2>1, <1>2
<1>6. r = <<>> \o [k \in 1 .. n |-> seq[position(k)]]
  BY SubsequenceOf
<1> HIDE DEF position, n
<1>7. Len(r) = n /\ \A k \in 1 .. n : r[k] = seq[position(k)]
  BY <1>1, <1>2, <1>4, <1>6
<1>8. position(n) = N
  <2> DEFINE i == position(n)
  <2>1. i \in S /\ Cardinality(upto(i)) = n
    BY <1>2, <1>4, <1>5
  <2>2. upto(i) \in SUBSET S
    OBVIOUS
  <2>3. upto(i) = S
    <3> HIDE DEF upto, i
    <3>1. QED
      BY <2>1, <2>2, <1>2, FS_Subset DEF n
  <2> HIDE DEF i
  <2>4. N <= i /\ i <= N /\ i \in Nat
    BY <2>1, <2>3, <1>1
  <2>5. QED
    BY <2>4, <1>1 DEF i
<1>9. ASSUME NEW k \in 1 .. (n - 1) PROVE position(k) # N
  <2>1. k \in 1 .. n /\ k # n
    BY <1>2
  <2>2. Cardinality(upto(position(k))) = k
    BY <2>1, <1>4
  <2>3. QED
    BY <2>1, <2>2, <1>3 DEF n
<1>10. r \in Seq(V)
  BY SubsequenceTyped
<1>11. r # <<>> /\ r[Len(r)] = seq[N]
  <2>1. n \in 1 .. n
    BY <1>2, <1>5
  <2>2. QED
    BY <2>1, <1>5, <1>7, <1>8, <1>10
<1>12. ASSUME NEW k \in 1 .. (Len(r) - 1) PROVE \E m \in S : m # N /\ r[k] = seq[m]
  <2>1. k \in 1 .. (n - 1) /\ k \in 1 .. n
    BY <1>2, <1>7
  <2>2. position(k) \in S /\ position(k) # N /\ r[k] = seq[position(k)]
    BY <2>1, <1>4, <1>7, <1>9
  <2>3. QED
    BY <2>2
<1>13. QED
  BY <1>10, <1>11, <1>12

\* r has the call i on top, and tokens of c below it: other calls only if more
\* than one survives.
HasOnTop(r, i, c) ==
    /\ r \in Seq(Token) /\ r # <<>> /\ r[Len(r)] = PartitionTokenCallSite(i)
    /\ \A k \in 1 .. (Len(r) - 1) :
          \E m \in 1 .. Len(c) : r[k] = c[m] /\ (r[k].type = "CALLSITE" => NumberCallsiteTokens # 1)

\* The context of a call is such a one.
LEMMA CallOnTop ==
    ASSUME NEW c \in Seq(Token), NEW i \in Instrs, NumberCallsiteTokens # 0
    PROVE  HasOnTop(CallContext(i, c), i, c)
<1> DEFINE r == CallContext(i, c)
           t == PartitionTokenCallSite(i)
           d == Append(c, t)
           survives(j) == \A k \in Limits : k.number >= 0 /\ d[j].type \in k.types
                                               => tokensAbove(d, k.types, j) < k.number
           S == {j \in DOMAIN d : survives(j)}
<1>1. d = update(c, getDirectiveBeforeInstr(i)) /\ d \in Seq(Token) /\ t.type = "CALLSITE"
  <2>1. update(c, getDirectiveBeforeInstr(i)) = d /\ update(c, getDirectiveBeforeInstr(i)) \in Seq(Token)
    BY AroundCall
  <2>2. QED
    BY <2>1 DEF PartitionTokenCallSite
<1>2. r = subsequence(d, S)
  BY <1>1 DEF CallContext, reduceOnCall
<1> HIDE DEF t, r
<1>3. Len(c) \in Nat /\ Len(d) = Len(c) + 1 /\ d[Len(c) + 1] = t /\ \A m \in 1 .. Len(c) : d[m] = c[m]
  BY <1>1
<1>4. DOMAIN d = 1 .. Len(d) /\ Len(d) \in Nat /\ Len(d) \in 1 .. Len(d)
  BY <1>1, <1>3
<1> HIDE DEF d
<1>5. \A k \in Limits : k.number \in Int /\ ("CALLSITE" \in k.types => k.number = NumberCallsiteTokens)
  BY NumberOfTokensAssumption DEF Limits, LoopTokenTypes
<1>6. \A types : tokensAbove(d, types, Len(d)) = 0
  <2>1. (Len(d) + 1) .. Len(d) = {}
    BY <1>4
  <2>2. \A types : {j \in (Len(d) + 1) .. Len(d) : d[j].type \in types} = {}
    BY <2>1
  <2>3. QED
    BY <2>2, FS_EmptySet DEF tokensAbove
<1>7. survives(Len(d))
  <2>1. d[Len(d)].type = "CALLSITE"
    BY <1>1, <1>3
  <2>2. ASSUME NEW k \in Limits, k.number >= 0, d[Len(d)].type \in k.types
        PROVE  tokensAbove(d, k.types, Len(d)) < k.number
    <3>1. k.number = NumberCallsiteTokens /\ k.number \in Int
      BY <2>1, <2>2, <1>5
    <3>2. k.number > 0
      BY <3>1, <2>2
    <3>3. QED
      BY <3>2, <1>6
  <2>3. QED
    BY <2>2
<1>8. ASSUME NEW m \in 1 .. Len(c), survives(m), d[m].type = "CALLSITE" PROVE NumberCallsiteTokens # 1
  <2> SUFFICES ASSUME NumberCallsiteTokens = 1 PROVE FALSE
    OBVIOUS
  <2> DEFINE k == [types |-> {"CALLSITE"}, number |-> NumberCallsiteTokens]
             A == {j \in (m + 1) .. Len(d) : d[j].type \in {"CALLSITE"}}
  <2>1. k \in Limits /\ k.number = 1 /\ k.types = {"CALLSITE"}
    BY DEF Limits
  <2> HIDE DEF k
  <2>2. tokensAbove(d, {"CALLSITE"}, m) < 1
    <3>1. k.number >= 0 /\ d[m].type \in k.types => tokensAbove(d, k.types, m) < k.number
      BY <2>1, <1>8
    <3>2. k.number >= 0 /\ d[m].type \in k.types
      BY <2>1, <1>8
    <3>3. QED
      BY <3>1, <3>2, <2>1
  <2>3. tokensAbove(d, {"CALLSITE"}, m) = Cardinality(A)
    BY DEF tokensAbove
  <2>4. Len(d) \in A
    BY <1>1, <1>3
  <2>5. IsFiniteSet(A)
    <3>1. IsFiniteSet((m + 1) .. Len(d)) /\ A \in SUBSET ((m + 1) .. Len(d))
      BY <1>4, FS_Interval
    <3> HIDE DEF A
    <3>2. QED
      BY <3>1, FS_Subset
  <2> HIDE DEF A
  <2>6. Cardinality(A) \in Nat /\ Cardinality(A) # 0
    BY <2>4, <2>5, FS_CardinalityType, FS_EmptySet
  <2>7. QED
    BY <2>2, <2>3, <2>6
<1> HIDE DEF survives
<1>9. S \in SUBSET DOMAIN d /\ Len(d) \in S
  BY <1>4, <1>7
<1>10. \A m \in S : m # Len(d) => m \in 1 .. Len(c) /\ survives(m)
  BY <1>3, <1>4
<1> HIDE DEF S
<1>11. /\ r \in Seq(Token) /\ r # <<>> /\ r[Len(r)] = d[Len(d)]
       /\ \A k \in 1 .. (Len(r) - 1) : \E m \in S : m # Len(d) /\ r[k] = d[m]
  <2>1. d \in Seq(Token) /\ S \in SUBSET DOMAIN d /\ Len(d) \in S /\ r = subsequence(d, S)
    BY <1>1, <1>2, <1>9
  <2> DEFINE V == Token
             Ordered(x, P, y) ==
                /\ y \in Seq(V) /\ y # <<>> /\ y[Len(y)] = x[Len(x)]
                /\ \A k \in 1 .. (Len(y) - 1) : \E m \in P : m # Len(x) /\ y[k] = x[m]
  <2>2. \A x \in Seq(V) : \A P \in SUBSET DOMAIN x : Len(x) \in P => Ordered(x, P, subsequence(x, P))
    <3> HIDE DEF V
    <3>1. QED
      BY SubsequenceOrder
  <2> HIDE DEF V, Ordered
  <2>3. Ordered(d, S, r)
    BY <2>1, <2>2 DEF V
  <2>4. QED
    BY <2>3 DEF Ordered, V
<1>12. ASSUME NEW k \in 1 .. (Len(r) - 1)
       PROVE  \E m \in 1 .. Len(c) : r[k] = c[m] /\ (r[k].type = "CALLSITE" => NumberCallsiteTokens # 1)
  <2>1. PICK m \in S : m # Len(d) /\ r[k] = d[m]
    BY <1>11
  <2>2. m \in 1 .. Len(c) /\ survives(m) /\ d[m] = c[m]
    BY <2>1, <1>3, <1>10
  <2>3. QED
    BY <2>1, <2>2, <1>8
<1>13. HasOnTop(r, i, c)
  BY <1>3, <1>11, <1>12 DEF HasOnTop, t
<1>14. QED
  BY <1>13 DEF r

\* The order of the functions, where it is needed.
LEMMA CallsDescend ==
    ASSUME Apart
    PROVE  /\ NumberCallsiteTokens # 0
           /\ NumberCallsiteTokens # 1 => CallOrder \in SUBSET (Functions \X Functions) /\ IsCallOrder(CallOrder)
<1>1. NumberCallsiteTokens # 0
  BY DEF Apart, CallContextsApart
<1>2. ASSUME NumberCallsiteTokens # 1
      PROVE  CallOrder \in SUBSET (Functions \X Functions) /\ IsCallOrder(CallOrder)
  <2>1. \E above \in SUBSET (Functions \X Functions) : IsCallOrder(above)
    BY <1>2 DEF Apart, CallContextsApart, NoRecursion
  <2>2. QED
    BY <2>1 DEF CallOrder
<1>3. QED
  BY <1>1, <1>2

\* What instructions are made of.
LEMMA Instructions ==
    ASSUME NEW i \in Instrs
    PROVE  /\ i[1] \in MBB /\ i[2] \in 1 .. Len(Blocks[i[1]].instrs) /\ i = <<i[1], i[2]>>
           /\ InstrAt(i).op \in {"plain", "call", "external", "branch", "goto", "jumptable", "return"}
           /\ InstrAt(i).op = "plain" => InstrAt(i).effect \in [Value -> Value]
           /\ InstrAt(i).op = "call" => InstrAt(i).callee \in Functions
           /\ InstrAt(i).op \in {"branch", "goto", "jumptable"}
                 => InstrAt(i).targets \in SUBSET Blocks[i[1]].succ
<1>0. PICK b \in MBB : \E k \in DOMAIN Blocks[b].instrs : i = <<b, k>>
  BY DEF Instrs
<1>1. PICK k \in DOMAIN Blocks[b].instrs : i = <<b, k>>
  BY <1>0
<1> DEFINE instr == Blocks[b].instrs[k]
           R1 == [op : {"plain"}, effect : [Value -> Value]]
           R2 == [op : {"call"}, callee : Functions]
           R3 == [op : {"external"}]
           R4 == [op : {"branch"}, targets : SUBSET Blocks[b].succ, when : SUBSET Value]
           R5 == [op : {"goto", "jumptable"}, targets : SUBSET Blocks[b].succ]
           R6 == [op : {"return"}, when : SUBSET Value]
           R == R1 \cup R2 \cup R3 \cup R4 \cup R5 \cup R6
<1>2. Blocks[b].instrs \in Seq(R)
  BY InstructionAssumption
<1>3. k \in 1 .. Len(Blocks[b].instrs) /\ instr \in R
  <2> HIDE DEF R
  <2>1. QED
    BY <1>2
<1>4. InstrAt(i) = instr
  BY <1>1 DEF InstrAt
<1> HIDE DEF instr
<1>5. /\ instr.op \in {"plain", "call", "external", "branch", "goto", "jumptable", "return"}
      /\ instr.op = "plain" => instr.effect \in [Value -> Value]
      /\ instr.op = "call" => instr.callee \in Functions
      /\ instr.op \in {"branch", "goto", "jumptable"} => instr.targets \in SUBSET Blocks[b].succ
  <2>1. CASE instr \in R1
    BY <2>1
  <2>2. CASE instr \in R2
    BY <2>2
  <2>3. CASE instr \in R3
    BY <2>3
  <2>4. CASE instr \in R4
    BY <2>4
  <2>5. CASE instr \in R5
    BY <2>5
  <2>6. CASE instr \in R6
    BY <2>6
  <2> HIDE DEF R1, R2, R3, R4, R5, R6
  <2>7. QED
    BY <1>3, <2>1, <2>2, <2>3, <2>4, <2>5, <2>6
<1>6. QED
  BY <1>1, <1>3, <1>4, <1>5

\* Every function has one entry block.
LEMMA Entries ==
    /\ \A f \in Functions : /\ EntryBlock(f) \in MBB /\ isEntry(EntryBlock(f))
                            /\ Blocks[EntryBlock(f)].func = f
    /\ \A b \in MBB : isEntry(b) => b = EntryBlock(Blocks[b].func)
    /\ \A b \in MBB : isEntry(b) => Blocks[b].nest = <<>>
    /\ \A b \in MBB : Blocks[b].func \in Functions
    /\ \A b \in MBB : \A t \in Blocks[b].succ : t \in MBB /\ ~ isEntry(t) /\ Blocks[t].func = Blocks[b].func
<1>1. ASSUME NEW f \in Functions
      PROVE  EntryBlock(f) \in MBB /\ isEntry(EntryBlock(f)) /\ Blocks[EntryBlock(f)].func = f
  <2>1. PICK b \in MBB : Blocks[b].func = f
    BY DEF Functions
  <2>2. \E e \in MBB : Blocks[e].func = f /\ Blocks[e].number = 0
    BY <2>1, CodeAssumption
  <2>3. QED
    BY <2>2 DEF EntryBlock, isEntry
<1>2. ASSUME NEW b \in MBB, isEntry(b) PROVE b = EntryBlock(Blocks[b].func)
  <2> DEFINE e == EntryBlock(Blocks[b].func)
  <2>1. e \in MBB /\ isEntry(e) /\ Blocks[e].func = Blocks[b].func
    BY <1>1 DEF Functions
  <2> HIDE DEF e
  <2>2. QED
    BY <1>2, <2>1, CodeAssumption DEF isEntry, e
<1>3. \A b \in MBB : isEntry(b) => Blocks[b].nest = <<>>
  BY CodeAssumption DEF isEntry
<1>4. \A b \in MBB : Blocks[b].func \in Functions
  BY DEF Functions
<1>5. \A b \in MBB : \A t \in Blocks[b].succ : t \in MBB /\ ~ isEntry(t) /\ Blocks[t].func = Blocks[b].func
  BY CodeAssumption DEF isEntry
<1>6. QED
  BY <1>1, <1>2, <1>3, <1>4, <1>5

\* A callee is analysed in the reduced context with its own token on top.
LEMMA CalleeContext ==
    ASSUME NEW f \in Functions, NEW r \in Seq(Token)
    PROVE  /\ calleeContext(r, f) = Append(r, PartitionTokenFunCallee(f))
           /\ calleeContext(r, f) \in Seq(Token)
           /\ Front(calleeContext(r, f)) = r
           /\ Called(f, r) => InCall(EntryBlock(f), calleeContext(r, f), calleeContext(r, f))
<1> DEFINE t == PartitionTokenFunCallee(f)
           x == Append(r, t)
           n == Len(r)
<1>1. t \in Token /\ t.type = "FUNCALLEE" /\ "FUNCALLEE" \notin LoopTokenTypes
  BY DEF Token, PartitionTokenFunCallee, LoopTokenTypes
<1>2. calleeContext(r, f) = x
  <2> DEFINE first == {u \in {t} : u.type \in LoopTokenTypes => u.count = 0}
  <2>1. first = {t}
    BY <1>1
  <2>2. calleeContext(r, f) = IF first = {} THEN r ELSE Append(r, CHOOSE u \in first : TRUE)
    BY DEF update, getDirectiveOnCall, Directive, calleeContext
  <2>3. (CHOOSE u \in {t} : TRUE) = t
    OBVIOUS
  <2> HIDE DEF first, t
  <2>4. QED
    BY <2>1, <2>2, <2>3
<1>3. x \in Seq(Token) /\ Len(x) = n + 1 /\ x[n + 1] = t /\ n \in Nat /\ \A k \in 1 .. n : x[k] = r[k]
  <2> HIDE DEF t
  <2>1. QED
    BY <1>1
<1>4. Front(x) = r
  <2> HIDE DEF t
  <2>1. Front(x) = SubSeq(x, 1, n)
    BY <1>3 DEF Front
  <2> HIDE DEF x
  <2>2. SubSeq(x, 1, n) \in Seq(Token) /\ Len(SubSeq(x, 1, n)) = n /\ \A k \in 1 .. n : SubSeq(x, 1, n)[k] = x[k]
    BY <1>3, Prefix
  <2>3. QED
    BY <2>1, <2>2, <1>3
<1>5. ASSUME Called(f, r) PROVE InCall(EntryBlock(f), x, x)
  <2> DEFINE e == EntryBlock(f)
  <2>1. e \in MBB /\ Blocks[e].func = f /\ Nest(e) = <<>>
    BY Entries DEF Nest
  <2>2. Len(Nest(e)) = 0
    BY <2>1
  <2>3. x # <<>> /\ x[Len(x)] = t
    BY <1>3
  <2> HIDE DEF e, x
  <2>4. Len(x) = Len(x) + 0 /\ 1 .. 0 = {}
    BY <1>3
  <2>5. Called(Blocks[e].func, Front(x))
    BY <2>1, <1>4, <1>5
  <2>6. QED
    BY <1>3, <2>1, <2>2, <2>3, <2>4, <2>5 DEF InCall, e
<1>6. QED
  BY <1>2, <1>3, <1>4, <1>5

\* The context of an entry block ends with the token of the function.
LEMMA EntryContext ==
    ASSUME NEW b \in MBB, isEntry(b), NEW p, NEW c, InCall(b, p, c)
    PROVE  /\ c # <<>> /\ Last(c) = PartitionTokenFunCallee(Blocks[b].func)
           /\ Front(c) \in Seq(Token) /\ calleeContext(Front(c), Blocks[b].func) = c
<1> DEFINE n == Len(c)
           e == Front(c)
           t == PartitionTokenFunCallee(Blocks[b].func)
<1>1. Len(Nest(b)) = 0
  BY Entries DEF Nest
<1>2. c \in Seq(Token) /\ p \in Seq(Token) /\ n = Len(p) /\ n \in Nat /\ n > 0 /\ c[n] = t /\ c # <<>>
  BY <1>1 DEF InCall
<1>3. Last(c) = t
  BY <1>2 DEF Last
<1>4. e \in Seq(Token) /\ Len(e) = n - 1 /\ \A i \in 1 .. (n - 1) : e[i] = c[i]
  <2>1. n - 1 \in Nat /\ n - 1 <= Len(c) /\ e = SubSeq(c, 1, n - 1)
    BY <1>2 DEF Front
  <2> HIDE DEF e
  <2>2. QED
    BY <2>1, <1>2, Prefix
<1>5. calleeContext(e, Blocks[b].func) = Append(e, t) /\ t \in Token
  <2>1. Blocks[b].func \in Functions
    BY Entries
  <2>2. t \in Token
    BY <2>1 DEF Token
  <2> HIDE DEF e
  <2>3. QED
    BY <1>4, <2>1, <2>2, CalleeContext
<1>6. Append(e, t) = c
  <2> DEFINE x == Append(e, t)
  <2> HIDE DEF e, t
  <2>1. x \in Seq(Token) /\ Len(x) = Len(e) + 1 /\ x[Len(e) + 1] = t /\ \A i \in 1 .. Len(e) : x[i] = e[i]
    BY <1>4, <1>5
  <2> HIDE DEF x
  <2>2. Len(x) = n /\ \A i \in 1 .. n : x[i] = c[i]
    BY <2>1, <1>4, <1>2
  <2>3. QED
    BY <2>1, <2>2, <1>2 DEF x
<1>7. QED
  BY <1>2, <1>3, <1>4, <1>5, <1>6

\* A return from outside of the loops drops the token of the function.
LEMMA ReturnPops ==
    ASSUME NEW b \in MBB, Nest(b) = <<>>, NEW p, NEW c, InCall(b, p, c)
    PROVE  c = p /\ update(c, getDirectiveOnReturn(Blocks[b].func)) = Front(p)
<1> DEFINE t == PartitionTokenFunCallee(Blocks[b].func)
<1> HIDE DEF t
<1>1. /\ c \in Seq(Token) /\ p \in Seq(Token) /\ p # <<>> /\ p[Len(p)] = t
      /\ Len(c) = Len(p) /\ \A j \in 1 .. Len(p) : c[j] = p[j]
  BY DEF InCall, t
<1>2. c = p
  BY <1>1
<1>3. Last(c) = t
  BY <1>1, <1>2 DEF Last
<1>4. QED
  BY <1>2, <1>3 DEF update, getDirectiveOnReturn, Directive, t

\* The context of a call is one of a call of the callee.
LEMMA CallContextCalled ==
    ASSUME NEW b \in MBB, NEW p, NEW c, InCall(b, p, c), NEW i \in CallsOf(b)
    PROVE  Called(InstrAt(i).callee, CallContext(i, c))
<1> DEFINE f == InstrAt(i).callee
           g == Blocks[b].func
           r == CallContext(i, c)
           n == Len(p)
           q == Front(p)
<1> SUFFICES ASSUME Apart, NEW k \in 1 .. Len(r), r[k].type = "CALLSITE"
             PROVE  LET h == InstrAt(r[k].of).callee
                    IN IF k = Len(r) THEN h = f ELSE NumberCallsiteTokens # 1 /\ <<h, f>> \in CallOrder
  BY DEF Called
<1>1. i \in Instrs /\ i[1] = b /\ InstrAt(i).op = "call" /\ f \in Functions /\ g \in Functions
  BY Instructions DEF CallsOf, Functions
<1>2. c \in Seq(Token) /\ p \in Seq(Token) /\ n \in Nat /\ n > 0
  BY DEF InCall
<1>3. /\ r \in Seq(Token) /\ r # <<>> /\ r[Len(r)] = PartitionTokenCallSite(i)
      /\ \A j \in 1 .. (Len(r) - 1) :
            \E m \in 1 .. Len(c) : r[j] = c[m] /\ (r[j].type = "CALLSITE" => NumberCallsiteTokens # 1)
  <2>1. NumberCallsiteTokens # 0
    BY CallsDescend
  <2>2. HasOnTop(r, i, c)
    BY <2>1, <1>1, <1>2, CallOnTop
  <2> HIDE DEF r
  <2>3. QED
    BY <2>2 DEF HasOnTop
<1>4. CASE k = Len(r)
  <2>1. r[k].of = i
    BY <1>3, <1>4 DEF PartitionTokenCallSite
  <2> HIDE DEF r
  <2>2. QED
    BY <2>1, <1>4
<1>5. CASE k # Len(r)
  <2> HIDE DEF r, f, g, q
  <2>1. k \in 1 .. (Len(r) - 1)
    BY <1>3, <1>5
  <2>2. PICK m \in 1 .. Len(c) : r[k] = c[m] /\ NumberCallsiteTokens # 1
    BY <2>1, <1>3
  <2>3. c[m].type = "CALLSITE"
    BY <2>2
  <2>4. m < n
    <3>1. Len(c) = n + Len(Nest(b)) /\ Len(Nest(b)) \in Nat
      <4>1. Blocks[b].nest \in Seq(DOMAIN Loops)
        BY LoopAssumption
      <4>2. Len(Blocks[b].nest) \in Nat /\ Len(<<>>) \in Nat
        BY <4>1
      <4>3. QED
        BY <4>2 DEF InCall, Nest
    <3>2. CASE m = n
      <4>1. c[m] = PartitionTokenFunCallee(Blocks[b].func)
        BY <3>2, <1>2 DEF InCall
      <4>2. QED
        BY <4>1, <2>3 DEF PartitionTokenFunCallee
    <3>3. CASE m > n
      <4> DEFINE j == m - n
      <4>1. j \in 1 .. Len(Nest(b)) /\ n + j = m
        BY <3>1, <3>3, <1>2
      <4> HIDE DEF j
      <4>2. c[m] \in LoopTokens(Nest(b)[j])
        BY <4>1 DEF InCall
      <4>3. c[m].type \in {"LOOPPEEL", "LOOPITER"}
        BY <4>2 DEF LoopTokens, PartitionTokenLoopPeel, PartitionTokenLoopIter
      <4>4. QED
        BY <4>3, <2>3
    <3>4. QED
      BY <3>2, <3>3, <1>2
  <2>5. Len(q) = n - 1 /\ q[m] = c[m]
    <3>1. n - 1 \in Nat /\ n - 1 <= Len(p) /\ q = SubSeq(p, 1, n - 1)
      BY <1>2 DEF Front, q
    <3>2. Len(q) = n - 1 /\ \A j \in 1 .. (n - 1) : q[j] = p[j]
      BY <3>1, <1>2, Prefix
    <3>3. m \in 1 .. (n - 1) /\ m \in 1 .. n
      BY <2>4, <1>2
    <3>4. p[m] = c[m]
      BY <3>3 DEF InCall
    <3>5. QED
      BY <3>2, <3>3, <3>4
  <2> DEFINE h == InstrAt(r[k].of).callee
  <2>6. h = g \/ <<h, g>> \in CallOrder
    <3>1. Called(g, q)
      BY DEF InCall, g, q
    <3>2. m \in 1 .. Len(q) /\ q[m].type = "CALLSITE" /\ q[m].of = r[k].of
      BY <2>2, <2>3, <2>4, <2>5, <1>2
    <3>3. LET x == InstrAt(q[m].of).callee
          IN IF m = Len(q) THEN x = g ELSE NumberCallsiteTokens # 1 /\ <<x, g>> \in CallOrder
      BY <3>1, <3>2 DEF Called
    <3>4. QED
      BY <3>2, <3>3
  <2> HIDE DEF h
  <2>7. CallOrder \in SUBSET (Functions \X Functions) /\ IsCallOrder(CallOrder)
    BY <2>2, CallsDescend
  <2>8. <<g, f>> \in CallOrder
    BY <2>7, <1>1 DEF IsCallOrder, g, f
  <2>9. <<h, f>> \in CallOrder
    <3>1. CASE h = g
      BY <3>1, <2>8
    <3>2. CASE <<h, g>> \in CallOrder
      <4>1. h \in Functions
        BY <3>2, <2>7
      <4>2. QED
        BY <4>1, <3>2, <2>7, <2>8, <1>1 DEF IsCallOrder
    <3>3. QED
      BY <3>1, <3>2, <2>6
  <2>10. QED
    BY <2>2, <2>9, <1>5 DEF h
<1>6. QED
  BY <1>4, <1>5

\* So no known context of the callee goes on where that of the call ends.
LEMMA LookupEnds ==
    ASSUME Apart, NEW i \in Instrs, InstrAt(i).op = "call", NEW c \in Seq(Token),
           NEW pd, \A x \in DOMAIN pd : x \in Seq(Token) /\ Called(InstrAt(i).callee, x)
    PROVE  findEarlyAssertion(pd, CallContext(i, c))
<1> DEFINE r == CallContext(i, c)
           f == InstrAt(i).callee
<1>1. NumberCallsiteTokens # 0 /\ f \in Functions
  BY CallsDescend, Instructions
<1>2. r \in Seq(Token) /\ r # <<>> /\ r[Len(r)] = PartitionTokenCallSite(i)
  <2>1. HasOnTop(r, i, c)
    BY <1>1, CallOnTop
  <2> HIDE DEF r
  <2>2. QED
    BY <2>1 DEF HasOnTop
<1> HIDE DEF r, f
<1>3. ASSUME NEW x \in DOMAIN pd, IsStrictPrefix(r, x) PROVE FALSE
  <2> DEFINE n == Len(r)
  <2>1. x \in Seq(Token) /\ Called(f, x)
    BY DEF f
  <2>2. n <= Len(x) /\ SubSeq(r, 1, n) = SubSeq(x, 1, n) /\ r # x
    BY <1>3 DEF IsStrictPrefix, IsPrefix
  <2>3. n \in Nat /\ n > 0 /\ n \in 1 .. n
    BY <1>2
  <2>4. \A k \in 1 .. n : SubSeq(r, 1, n)[k] = r[k]
    BY <2>3, <1>2, Prefix
  <2>5. \A k \in 1 .. n : SubSeq(x, 1, n)[k] = x[k]
    BY <2>1, <2>2, <2>3, Prefix
  <2> HIDE DEF n
  <2>6. \A k \in 1 .. n : x[k] = r[k]
    BY <2>2, <2>4, <2>5
  <2>7. n # Len(x)
    <3>1. Len(x) = n => x = r
      BY <2>1, <2>6, <1>2 DEF n
    <3>2. QED
      BY <3>1, <2>2
  <2>8. x[n] = PartitionTokenCallSite(i)
    BY <2>3, <2>6, <1>2 DEF n
  <2>9. x[n].type = "CALLSITE" /\ x[n].of = i
    BY <2>8 DEF PartitionTokenCallSite
  <2>10. n \in 1 .. Len(x)
    BY <2>1, <2>2, <2>3
  <2>11. LET g == InstrAt(x[n].of).callee
         IN IF n = Len(x) THEN g = f ELSE NumberCallsiteTokens # 1 /\ <<g, f>> \in CallOrder
    BY <2>1, <2>9, <2>10 DEF Called
  <2>12. NumberCallsiteTokens # 1 /\ <<f, f>> \in CallOrder
    BY <2>7, <2>9, <2>11 DEF f
  <2>13. IsCallOrder(CallOrder)
    BY <2>12, CallsDescend
  <2>14. QED
    BY <2>12, <2>13, <1>1 DEF IsCallOrder
<1>4. QED
  BY <1>3 DEF findEarlyAssertion, r

-----------------------------------------------------------------------------
(* Analysis information.                                                   *)

\* Information per context.
Info == UNION {[C -> SUBSET Value] : C \in {C \in SUBSET Seq(Token) : IsFiniteSet(C)}}

\* q has the contexts of p, and at least its information in each.
Larger(p, q) == DOMAIN p \subseteq DOMAIN q /\ \A c \in DOMAIN p : p[c] \subseteq q[c]

\* What information is.
LEMMA InfoType ==
    /\ BOTTOM \in Info /\ DOMAIN BOTTOM = {}
    /\ \A pd \in Info : /\ DOMAIN pd \subseteq Seq(Token) /\ IsFiniteSet(DOMAIN pd)
                        /\ \A c \in DOMAIN pd : pd[c] \in SUBSET Value
    /\ \A c \in Seq(Token), ana \in SUBSET Value :
          leaf(c, ana) \in Info /\ DOMAIN leaf(c, ana) = {c} /\ leaf(c, ana)[c] = ana
<1>1. BOTTOM \in Info /\ DOMAIN BOTTOM = {}
  <2>1. BOTTOM \in [{} -> SUBSET Value] /\ DOMAIN BOTTOM = {}
    BY DEF BOTTOM
  <2>2. {} \in {C \in SUBSET Seq(Token) : IsFiniteSet(C)}
    BY FS_EmptySet
  <2>3. QED
    BY <2>1, <2>2 DEF Info
<1>2. \A pd \in Info : /\ DOMAIN pd \subseteq Seq(Token) /\ IsFiniteSet(DOMAIN pd)
                       /\ \A c \in DOMAIN pd : pd[c] \in SUBSET Value
  BY DEF Info
<1>3. ASSUME NEW c \in Seq(Token), NEW ana \in SUBSET Value
      PROVE  leaf(c, ana) \in Info /\ DOMAIN leaf(c, ana) = {c} /\ leaf(c, ana)[c] = ana
  <2>1. leaf(c, ana) \in [{c} -> SUBSET Value] /\ {c} \in {C \in SUBSET Seq(Token) : IsFiniteSet(C)}
    BY FS_Singleton DEF leaf
  <2>2. QED
    BY <2>1 DEF Info, leaf
<1>4. QED
  BY <1>1, <1>2, <1>3

\* q is pd with information added for a context.
ContextAdded(q, pd, c, ana) ==
    /\ q \in Info
    /\ DOMAIN q = DOMAIN pd \cup {c}
    /\ \A x \in DOMAIN pd : x # c => q[x] = pd[x]
    /\ Larger(pd, q)
    /\ ana \subseteq q[c]
    /\ ~ changes(pd, c, ana) => q = pd
    /\ c \notin DOMAIN pd => q[c] = ana

\* What addContext does.
LEMMA AddContext ==
    ASSUME NEW pd \in Info, NEW c \in Seq(Token), NEW ana \in SUBSET Value
    PROVE  ContextAdded(addContext(pd, c, ana), pd, c, ana)
<1> DEFINE q == addContext(pd, c, ana)
<1>1. PICK C \in SUBSET Seq(Token) : pd \in [C -> SUBSET Value] /\ IsFiniteSet(C)
  BY DEF Info
<1>2. CASE c \in DOMAIN pd
  <2>1. q = [pd EXCEPT ![c] = @ \cup ana]
    BY <1>2 DEF addContext
  <2>2. q = [x \in C |-> IF x = c THEN pd[c] \cup ana ELSE pd[x]]
    BY <2>1, <1>1
  <2> HIDE DEF q
  <2>3. q \in [C -> SUBSET Value] /\ DOMAIN q = DOMAIN pd \cup {c}
    BY <2>2, <1>1, <1>2
  <2>4. q[c] = pd[c] \cup ana /\ \A x \in DOMAIN pd : x # c => q[x] = pd[x]
    BY <2>2, <1>1, <1>2
  <2>5. q \in Info
    BY <2>3, <1>1 DEF Info
  <2>6. ASSUME ~ changes(pd, c, ana) PROVE q = pd
    <3>1. q[c] = pd[c]
      BY <2>4, <2>6, <1>2 DEF changes
    <3>2. \A x \in C : q[x] = pd[x]
      BY <3>1, <2>4, <1>1
    <3>3. q = [x \in C |-> q[x]] /\ pd = [x \in C |-> pd[x]]
      BY <2>3, <1>1
    <3>4. [x \in C |-> q[x]] = [x \in C |-> pd[x]]
      BY <3>2
    <3>5. QED
      BY <3>3, <3>4
  <2>7. Larger(pd, q)
    BY <2>3, <2>4 DEF Larger
  <2>8. QED
    BY <2>3, <2>4, <2>5, <2>6, <2>7, <1>2 DEF q, ContextAdded
<1>3. CASE c \notin DOMAIN pd
  <2>1. q = [x \in DOMAIN pd \cup {c} |-> IF x = c THEN ana ELSE pd[x]]
    BY <1>3 DEF addContext
  <2> HIDE DEF q
  <2>2. DOMAIN q = DOMAIN pd \cup {c} /\ q[c] = ana /\ \A x \in DOMAIN pd : q[x] = pd[x]
    BY <2>1, <1>3
  <2>3. q \in [C \cup {c} -> SUBSET Value] /\ C \cup {c} \in SUBSET Seq(Token)
    BY <2>1, <1>1
  <2> DEFINE D == C \cup {c}
  <2>7. IsFiniteSet(D)
    BY <1>1, FS_AddElement
  <2>4. q \in Info
    <3> HIDE DEF D
    <3>1. q \in [D -> SUBSET Value] /\ D \in SUBSET Seq(Token)
      BY <2>3 DEF D
    <3>2. QED
      BY <3>1, <2>7 DEF Info
  <2>5. changes(pd, c, ana)
    BY <1>3 DEF changes
  <2>6. QED
    BY <2>2, <2>4, <2>5 DEF q, Larger, ContextAdded
<1>4. QED
  BY <1>2, <1>3

\* Information only grows.
LEMMA LargerOrder ==
    /\ \A p : Larger(p, p)
    /\ \A p, q, r : Larger(p, q) /\ Larger(q, r) => Larger(p, r)
BY DEF Larger

-----------------------------------------------------------------------------
(* The state that the methods of the driver work on.                       *)

\* The context of the block, the information at the current instruction, the
\* maps of the driver and its worklist.
State == [ctx : Seq(Token), newOut : SUBSET Value, mbb : [MBB -> Info],
          funcIn : [Functions -> Info], funcOut : [Functions -> Info],
          worklist : SUBSET (MBB \X Seq(Token))]

\* What is known to hold after that call.
Returned(s, i, c) == findAnalysisInfoEarly(s.funcOut[InstrAt(i).callee], CallContext(i, c))

\* Blocks are analysed in contexts of theirs, with information to start from.
Reached(s, b, c) ==
    /\ \E p : InCall(b, p, c)
    /\ isEntry(b) => Front(c) \in DOMAIN s.funcIn[Blocks[b].func]

\* A called function is analysed with the information of its calls.
Entered(s, f, r) ==
    LET e == EntryBlock(f)
        c == calleeContext(r, f)
    IN <<e, c>> \in s.worklist \/ (c \in DOMAIN s.mbb[e] /\ s.funcIn[f][r] \subseteq s.mbb[e][c])

\* Information, queued work and the entries and returns of functions are for
\* contexts that calls and loops lead to.
Placed(s) ==
    /\ \A b \in MBB : \A c \in DOMAIN s.mbb[b] : Reached(s, b, c)
    /\ \A w \in s.worklist : Reached(s, w[1], w[2]) /\ (~ isEntry(w[1]) => w[2] \in DOMAIN s.mbb[w[1]])
    /\ \A f \in Functions : \A r \in DOMAIN s.funcIn[f] : Entered(s, f, r)
    /\ \A f \in Functions : \A r \in DOMAIN s.funcOut[f] : Called(f, r)

\* The maps of t know at least what those of s do.
LargerMaps(s, t) ==
    /\ \A b \in MBB : Larger(s.mbb[b], t.mbb[b])
    /\ \A f \in Functions : Larger(s.funcIn[f], t.funcIn[f]) /\ Larger(s.funcOut[f], t.funcOut[f])

\* Block b in context c reads the same in s and t.
SameInput(s, t, b, c) ==
    /\ c \in DOMAIN s.mbb[b] /\ c \in DOMAIN t.mbb[b] /\ t.mbb[b][c] = s.mbb[b][c]
    /\ \A i \in CallsOf(b) : Returned(t, i, c) = Returned(s, i, c)

\* From s to t information is added, and what reads it is put into the worklist.
Grown(s, t) ==
    /\ LargerMaps(s, t)
    /\ s.worklist \subseteq t.worklist
    /\ \A b \in MBB : \A c \in DOMAIN t.mbb[b] : <<b, c>> \notin t.worklist => SameInput(s, t, b, c)

\* Nothing is added.
LEMMA GrownSame ==
    ASSUME NEW s, NEW t, t.mbb = s.mbb, t.funcIn = s.funcIn, t.funcOut = s.funcOut,
           t.worklist = s.worklist
    PROVE  Grown(s, t) /\ (Placed(s) => Placed(t))
<1>1. LargerMaps(s, t)
  BY LargerOrder DEF LargerMaps
<1>2. \A b, c : c \in DOMAIN t.mbb[b] => SameInput(s, t, b, c)
  BY DEF SameInput, Returned
<1>3. Placed(s) => Placed(t)
  BY DEF Placed, Reached, Entered
<1>4. QED
  BY <1>1, <1>2, <1>3 DEF Grown

\* Adding more.
LEMMA GrownTransitive ==
    ASSUME NEW s, NEW t, NEW u, Grown(s, t), Grown(t, u)
    PROVE  Grown(s, u)
<1>1. LargerMaps(s, u)
  BY LargerOrder DEF Grown, LargerMaps
<1>2. s.worklist \subseteq u.worklist
  BY DEF Grown
<1>3. ASSUME NEW b \in MBB, NEW c \in DOMAIN u.mbb[b], <<b, c>> \notin u.worklist
      PROVE  SameInput(s, u, b, c)
  <2>1. SameInput(t, u, b, c)
    BY <1>3 DEF Grown
  <2>2. c \in DOMAIN t.mbb[b] /\ <<b, c>> \notin t.worklist
    BY <2>1, <1>3 DEF Grown, SameInput
  <2>3. SameInput(s, t, b, c)
    BY <2>2 DEF Grown
  <2>4. QED
    BY <2>1, <2>3 DEF SameInput
<1>4. QED
  BY <1>1, <1>2, <1>3 DEF Grown

\* Information is added at x.
IsAdded(new, map, x, c, ana) == new = [map EXCEPT ![x] = addContext(@, c, ana)]

\* What this does to the information of the others.
Added(new, map, D, x, c, ana) ==
    /\ new \in [D -> Info]
    /\ \A y \in D : y # x => new[y] = map[y]
    /\ DOMAIN new[x] = DOMAIN map[x] \cup {c}
    /\ \A d \in DOMAIN map[x] : d # c => new[x][d] = map[x][d]
    /\ \A y \in D : Larger(map[y], new[y])
    /\ ana \subseteq new[x][c]
    /\ ~ changes(map[x], c, ana) => new = map

\* Adding information does that.
LEMMA AddToMap ==
    ASSUME NEW D, NEW map \in [D -> Info], NEW x \in D, NEW c \in Seq(Token), NEW ana \in SUBSET Value,
           NEW new, IsAdded(new, map, x, c, ana)
    PROVE  Added(new, map, D, x, c, ana)
<1> DEFINE pd == map[x]
           q == addContext(pd, c, ana)
<1>1. pd \in Info
  OBVIOUS
<1>2. /\ q \in Info /\ DOMAIN q = DOMAIN pd \cup {c}
      /\ \A d \in DOMAIN pd : d # c => q[d] = pd[d]
      /\ Larger(pd, q) /\ ana \subseteq q[c]
      /\ ~ changes(pd, c, ana) => q = pd
  <2> HIDE DEF pd
  <2>1. QED
    BY <1>1, AddContext DEF ContextAdded
<1>3. new = [map EXCEPT ![x] = q]
  BY DEF IsAdded
<1> HIDE DEF q
<1>4. new \in [D -> Info] /\ new[x] = q /\ \A y \in D : y # x => new[y] = map[y]
  BY <1>2, <1>3
<1>5. ASSUME ~ changes(map[x], c, ana) PROVE new = map
  BY <1>2, <1>3, <1>5
<1>6. \A y \in D : Larger(map[y], new[y])
  <2>1. \A y \in D : y # x => Larger(map[y], new[y])
    BY <1>4, LargerOrder
  <2>2. QED
    BY <1>2, <1>4, <2>1
<1> HIDE DEF pd
<1>7. DOMAIN new[x] = DOMAIN map[x] \cup {c} /\ \A d \in DOMAIN map[x] : d # c => new[x][d] = map[x][d]
  BY <1>2, <1>4 DEF pd
<1>8. QED
  BY <1>2, <1>4, <1>5, <1>6, <1>7 DEF q, pd, Added

\* The information for a block in a context has been passed on.
Pushed(s, b, c, target, ana) ==
    LET d == edgeContext(c, <<b, target>>)
    IN d \in DOMAIN s.mbb[target] /\ ana \subseteq s.mbb[target][d]

\* What has been passed on to a successor is not lost.
LEMMA PushedStays ==
    ASSUME NEW s, NEW t, Grown(s, t), NEW b, NEW c, NEW x \in MBB, NEW ana, Pushed(s, b, c, x, ana)
    PROVE  Pushed(t, b, c, x, ana)
BY DEF Pushed, Grown, LargerMaps, Larger

\* Passing information on to a successor.
LEMMA Propagate ==
    ASSUME NEW s \in State, Placed(s), NEW b \in MBB, NEW c, s.ctx = c,
           \E p : InCall(b, p, c),
           NEW x \in Blocks[b].succ, NEW ana \in SUBSET Value,
           NEW t \in propagate(s, <<b, x>>, ana)
    PROVE  /\ t \in State /\ t.ctx = c /\ t.newOut = s.newOut
           /\ Placed(t) /\ Grown(s, t) /\ Pushed(t, b, c, x, ana)
<1> DEFINE d == edgeContext(c, <<b, x>>)
           new == [s.mbb EXCEPT ![x] = addContext(@, d, ana)]
           wl == IF changes(s.mbb[x], d, ana) THEN s.worklist \cup {<<x, d>>} ELSE s.worklist
<1>1. PICK p : InCall(b, p, c)
  OBVIOUS
<1>2. x \in MBB /\ ~ isEntry(x) /\ Blocks[x].func = Blocks[b].func
  BY Entries
<1>3. InCall(x, p, d)
  BY <1>1, EdgeContext
<1> HIDE DEF d
<1>4. d \in Seq(Token)
  BY <1>3 DEF InCall
<1>5. t = [s EXCEPT !.mbb = new, !.worklist = wl]
  BY DEF propagate, State, d
<1>6. /\ t.ctx = c /\ t.newOut = s.newOut /\ t.mbb = new /\ t.funcIn = s.funcIn
      /\ t.funcOut = s.funcOut /\ t.worklist = wl
  <2> HIDE DEF new, wl
  <2>1. QED
    BY <1>5 DEF State
<1>7. s.mbb \in [MBB -> Info] /\ s.worklist \subseteq MBB \X Seq(Token)
  BY DEF State
<1>8. /\ new \in [MBB -> Info]
      /\ \A y \in MBB : y # x => new[y] = s.mbb[y]
      /\ DOMAIN new[x] = DOMAIN s.mbb[x] \cup {d}
      /\ \A e \in DOMAIN s.mbb[x] : e # d => new[x][e] = s.mbb[x][e]
      /\ \A y \in MBB : Larger(s.mbb[y], new[y])
      /\ ana \subseteq new[x][d]
      /\ ~ changes(s.mbb[x], d, ana) => new = s.mbb
  <2> DEFINE map == s.mbb
  <2>1. map \in [MBB -> Info] /\ IsAdded(new, map, x, d, ana)
    BY <1>7 DEF IsAdded
  <2> HIDE DEF map, new
  <2>2. Added(new, map, MBB, x, d, ana)
    BY <2>1, <1>2, <1>4, AddToMap
  <2>3. QED
    BY <2>2 DEF map, Added
<1>9. wl \in SUBSET (MBB \X Seq(Token)) /\ s.worklist \subseteq wl /\ wl \subseteq s.worklist \cup {<<x, d>>}
  BY <1>2, <1>4, <1>7
<1>10. t \in State
  <2> HIDE DEF new, wl
  <2>1. QED
    BY <1>5, <1>8, <1>9 DEF State
<1>11. changes(s.mbb[x], d, ana) => <<x, d>> \in wl
  OBVIOUS
<1> HIDE DEF new, wl
<1>12. Grown(s, t)
  <2>1. LargerMaps(s, t)
    BY <1>6, <1>8, LargerOrder DEF LargerMaps
  <2>2. ASSUME NEW y \in MBB, NEW e \in DOMAIN new[y], <<y, e>> \notin wl
        PROVE  e \in DOMAIN s.mbb[y] /\ new[y][e] = s.mbb[y][e]
    <3>1. CASE changes(s.mbb[x], d, ana)
      BY <3>1, <1>8, <1>11, <2>2
    <3>2. CASE ~ changes(s.mbb[x], d, ana)
      BY <3>2, <1>8, <2>2
    <3>3. QED
      BY <3>1, <3>2
  <2>3. \A y, e, i : Returned(t, i, e) = Returned(s, i, e)
    BY <1>6 DEF Returned
  <2>4. QED
    BY <2>1, <2>2, <2>3, <1>6, <1>9 DEF Grown, SameInput
<1>13. Placed(t)
  <2>1. Reached(t, x, d)
    BY <1>2, <1>3 DEF Reached
  <2>2. \A y, e : Reached(s, y, e) => Reached(t, y, e)
    BY <1>6 DEF Reached
  <2>3. ASSUME NEW y \in MBB, NEW e \in DOMAIN t.mbb[y] PROVE Reached(t, y, e)
    <3>1. e \in DOMAIN s.mbb[y] \/ (y = x /\ e = d)
      BY <1>6, <1>8, <2>3
    <3>2. QED
      BY <3>1, <2>1, <2>2 DEF Placed
  <2>4. ASSUME NEW w \in t.worklist
        PROVE  Reached(t, w[1], w[2]) /\ (~ isEntry(w[1]) => w[2] \in DOMAIN t.mbb[w[1]])
    <3>1. CASE w \in s.worklist
      <4>1. w[1] \in MBB
        BY <3>1, <1>7
      <4>2. Reached(s, w[1], w[2]) /\ (~ isEntry(w[1]) => w[2] \in DOMAIN s.mbb[w[1]])
        BY <3>1 DEF Placed
      <4>3. DOMAIN s.mbb[w[1]] \subseteq DOMAIN t.mbb[w[1]]
        BY <4>1, <1>6, <1>8 DEF Larger
      <4>4. QED
        BY <4>2, <4>3, <2>2
    <3>2. CASE w = <<x, d>>
      BY <3>2, <2>1, <1>6, <1>8
    <3>3. QED
      BY <3>1, <3>2, <1>6, <1>9
  <2>5. ASSUME NEW f \in Functions, NEW r \in DOMAIN t.funcIn[f] PROVE Entered(t, f, r)
    <3> DEFINE e == EntryBlock(f)
               cc == calleeContext(r, f)
    <3>1. <<e, cc>> \in s.worklist \/ (cc \in DOMAIN s.mbb[e] /\ s.funcIn[f][r] \subseteq s.mbb[e][cc])
      BY <1>6 DEF Placed, Entered
    <3>2. e \in MBB
      BY Entries
    <3> HIDE DEF e, cc
    <3>3. <<e, cc>> \in t.worklist \/ (cc \in DOMAIN t.mbb[e] /\ t.funcIn[f][r] \subseteq t.mbb[e][cc])
      BY <3>1, <3>2, <1>6, <1>8, <1>9 DEF Larger
    <3>4. QED
      BY <3>3 DEF Entered, e, cc
  <2>6. \A f \in Functions : \A r \in DOMAIN t.funcOut[f] : Called(f, r)
    BY <1>6 DEF Placed
  <2>7. QED
    BY <2>3, <2>4, <2>5, <2>6 DEF Placed
<1>14. Pushed(t, b, c, x, ana)
  BY <1>6, <1>8 DEF Pushed, d
<1>15. QED
  BY <1>6, <1>10, <1>12, <1>13, <1>14

\* Passing information on to several successors, one after the other.
LEMMA PropagateAll ==
    ASSUME NEW s \in State, Placed(s), NEW b \in MBB, NEW c, s.ctx = c,
           \E p : InCall(b, p, c),
           NEW targets \in SUBSET Blocks[b].succ, NEW ana \in SUBSET Value
    PROVE  /\ propagateAll(s, b, targets, ana) # {}
           /\ \A t \in propagateAll(s, b, targets, ana) :
                 /\ t \in State /\ t.ctx = c /\ t.newOut = s.newOut
                 /\ Placed(t) /\ Grown(s, t)
                 /\ \A x \in targets : Pushed(t, b, c, x, ana)
<1> DEFINE Good == {u \in State : u.ctx = c /\ u.newOut = s.newOut /\ Placed(u) /\ Grown(s, u)}
           V == SUBSET Good
           push(x, S) == UNION {propagate(u, <<b, x>>, ana) : u \in S}
           first(z) == CHOOSE x \in z : TRUE
           pick == [z \in (SUBSET targets) \ {{}} |-> first(z)]
           step == [z \in targets \X V |-> push(z[1], z[2])]
           base == {s}
           Is(h) == h = [z \in SUBSET targets |-> IF z = {} THEN base ELSE push(first(z), h[z \ {first(z)}])]
<1>1. \A z \in (SUBSET targets) \ {{}} : first(z) \in z
  OBVIOUS
<1>2. ASSUME NEW x \in targets, NEW u \in Good, NEW v \in propagate(u, <<b, x>>, ana)
      PROVE  v \in Good /\ Grown(u, v) /\ Pushed(v, b, c, x, ana)
  <2>1. /\ v \in State /\ v.ctx = c /\ v.newOut = u.newOut
        /\ Placed(v) /\ Grown(u, v) /\ Pushed(v, b, c, x, ana)
    BY Propagate
  <2>2. Grown(s, v)
    BY <2>1, GrownTransitive
  <2>3. QED
    BY <2>1, <2>2
<1>3. ASSUME NEW x \in targets, NEW S \in V PROVE push(x, S) \in V
  BY <1>2
<1>4. step \in [targets \X V -> V]
  <2> HIDE DEF push, V
  <2>1. QED
    BY <1>3
<1>5. pick \in [(SUBSET targets) \ {{}} -> targets] /\ \A z \in (SUBSET targets) \ {{}} : pick[z] \in z
  <2> HIDE DEF first
  <2>1. QED
    BY <1>1
<1>6. base \in V
  <2>1. Grown(s, s)
    BY GrownSame
  <2>2. QED
    BY <2>1
<1>7. IsFiniteSet(targets)
  BY CodeAssumption, FS_Subset
<1>8. PICK h : IsFold(h, targets, V, base, step, pick)
  <2> HIDE DEF V, base, step, pick
  <2>1. QED
    BY <1>4, <1>5, <1>6, <1>7, FoldExists
<1>9. Is(h)
  <2> HIDE DEF push, V, base, first
  <2>1. h \in [SUBSET targets -> V]
    BY <1>8 DEF IsFold
  <2>2. ASSUME NEW z \in SUBSET targets
        PROVE  h[z] = IF z = {} THEN base ELSE push(first(z), h[z \ {first(z)}])
    <3>1. CASE z = {}
      BY <3>1, <1>8 DEF IsFold
    <3>2. CASE z # {}
      <4>1. pick[z] = first(z) /\ first(z) \in targets /\ z \ {first(z)} \in SUBSET targets
        BY <3>2, <1>1
      <4>2. h[z] = step[<<pick[z], h[z \ {pick[z]}]>>]
        <5> HIDE DEF step, pick
        <5>1. QED
          BY <3>2, <1>8 DEF IsFold
      <4> DEFINE x == first(z)
                 v == h[z \ {first(z)}]
      <4>3. x \in targets /\ v \in V
        BY <4>1, <2>1
      <4> HIDE DEF x, v
      <4>4. step[<<x, v>>] = push(x, v)
        BY <4>3
      <4> HIDE DEF step, pick
      <4>5. QED
        BY <4>1, <4>2, <4>4, <3>2 DEF x, v
    <3>3. QED
      BY <3>1, <3>2
  <2>3. QED
    BY <2>1, <2>2
<1>10. propagateAll(s, b, targets, ana) = (CHOOSE h0 : Is(h0))[targets]
  BY DEF propagateAll, FoldSet, MapThenFoldSet
<1>11. PICK h0 : Is(h0) /\ propagateAll(s, b, targets, ana) = h0[targets]
  <2> HIDE DEF Is
  <2>1. Is(CHOOSE h0 : Is(h0))
    BY <1>9
  <2>2. QED
    BY <2>1, <1>10
<1> DEFINE G == {T \in SUBSET targets : h0[T] # {} /\ h0[T] \subseteq {u \in Good : \A x \in T : Pushed(u, b, c, x, ana)}}
<1>12. {} \in G
  <2>1. h0[{}] = base
    BY <1>11
  <2>2. QED
    BY <2>1, <1>6
<1>13. ASSUME NEW T \in SUBSET targets, T # {}, \A x \in T : T \ {x} \in G PROVE T \in G
  <2> DEFINE x == first(T)
             S == h0[T \ {x}]
  <2>1. x \in T /\ h0[T] = push(x, S)
    <3>1. x \in T
      BY <1>1, <1>13
    <3> HIDE DEF push, first
    <3>2. QED
      BY <3>1, <1>11, <1>13
  <2>2. S # {} /\ S \subseteq {u \in Good : \A y \in T \ {x} : Pushed(u, b, c, y, ana)}
    <3> HIDE DEF Good, x
    <3>1. QED
      BY <2>1, <1>13
  <2> HIDE DEF x, S
  <2>3. ASSUME NEW v \in h0[T] PROVE v \in Good /\ \A y \in T : Pushed(v, b, c, y, ana)
    <3>1. PICK u \in S : v \in propagate(u, <<b, x>>, ana)
      BY <2>1, <2>3
    <3>2. u \in Good /\ \A y \in T \ {x} : Pushed(u, b, c, y, ana)
      BY <2>2
    <3> HIDE DEF Good
    <3>3. v \in Good /\ Grown(u, v) /\ Pushed(v, b, c, x, ana)
      BY <2>1, <3>1, <3>2, <1>2
    <3>4. \A y \in T \ {x} : y \in MBB
      BY CodeAssumption
    <3>5. \A y \in T \ {x} : Pushed(v, b, c, y, ana)
      BY <3>2, <3>3, <3>4, PushedStays
    <3>6. QED
      BY <3>3, <3>5
  <2>4. h0[T] # {}
    <3>1. PICK u \in S : TRUE
      BY <2>2
    <3>2. \E v : v \in propagate(u, <<b, x>>, ana)
      BY DEF propagate
    <3>3. QED
      BY <2>1, <3>1, <3>2
  <2> HIDE DEF Good
  <2>5. QED
    BY <2>3, <2>4
<1>14. targets \in G
  <2> HIDE DEF G
  <2>1. QED
    BY <1>7, <1>12, <1>13, SubsetInduction
<1>15. QED
  BY <1>11, <1>14

-----------------------------------------------------------------------------
(* Instructions.                                                           *)

\* What a call returns is information.
LEMMA ReturnedType ==
    ASSUME NEW s \in State, NEW i \in Instrs, InstrAt(i).op = "call", NEW c \in Seq(Token)
    PROVE  CallContext(i, c) \in Seq(Token) /\ Returned(s, i, c) \in SUBSET Value
<1>1. CallContext(i, c) \in Seq(Token)
  <2> DEFINE d == update(c, getDirectiveBeforeInstr(i))
  <2>1. d \in Seq(Token)
    BY AroundCall
  <2> HIDE DEF d
  <2>2. reduceOnCall(d) \in Seq(Token)
    BY <2>1, ReduceTyped
  <2>3. QED
    BY <2>2 DEF CallContext, d
<1>2. s.funcOut[InstrAt(i).callee] \in Info
  BY Instructions DEF State
<1>3. QED
  BY <1>1, <1>2, InfoType DEF Returned, findAnalysisInfoEarly

\* A call of a function of the program.
LEMMA CallStep ==
    ASSUME NEW s \in State, Placed(s), NEW i \in Instrs, InstrAt(i).op = "call", s.newOut # {},
           NEW p, InCall(i[1], p, s.ctx), NEW t \in analyseInstruction(s, i)
    PROVE  LET f == InstrAt(i).callee
               r == CallContext(i, s.ctx)
           IN /\ t \in State /\ t.ctx = s.ctx /\ t.newOut = Returned(t, i, s.ctx)
              /\ Placed(t) /\ Grown(s, t)
              /\ r \in DOMAIN t.funcIn[f] /\ s.newOut \subseteq t.funcIn[f][r]
<1> DEFINE f == InstrAt(i).callee
           c == s.ctx
           r == CallContext(i, c)
           e == EntryBlock(f)
           cc == calleeContext(r, f)
           out == findAnalysisInfoEarly(s.funcOut[f], r)
           new == [s.funcIn EXCEPT ![f] = addContext(@, r, s.newOut)]
           wl == IF changes(s.funcIn[f], r, s.newOut) THEN s.worklist \cup {<<e, cc>>} ELSE s.worklist
<1>1. f \in Functions /\ c \in Seq(Token) /\ s.newOut \in SUBSET Value
  BY Instructions DEF State
<1>2. r \in Seq(Token) /\ Returned(s, i, c) \in SUBSET Value /\ out = Returned(s, i, c)
  BY <1>1, ReturnedType DEF Returned
<1>3. update(update(c, getDirectiveBeforeInstr(i)), getDirectiveAfterInstr(i)) = c
  BY <1>1, AroundCall
<1>4. t = [s EXCEPT !.newOut = out, !.funcIn = new, !.worklist = wl]
  <2> DEFINE d == update(c, getDirectiveBeforeInstr(i))
             u == [s EXCEPT !.newOut = out, !.funcIn = new, !.worklist = wl]
  <2>1. analyseInstruction(s, i) = {[called EXCEPT !.ctx = c] : called \in analyseCall(s, f, d)}
    BY <1>3 DEF analyseInstruction, isCall
  <2>2. analyseCall(s, f, d) \subseteq {u}
    BY DEF analyseCall, CallContext
  <2>3. u.ctx = c
    BY DEF State
  <2> HIDE DEF d, out, new, wl
  <2>4. t = [u EXCEPT !.ctx = c]
    BY <2>1, <2>2
  <2>5. QED
    BY <2>4 DEF State
<1>5. /\ t.ctx = c /\ t.newOut = out /\ t.mbb = s.mbb /\ t.funcIn = new
      /\ t.funcOut = s.funcOut /\ t.worklist = wl
  <2> HIDE DEF new, wl, out
  <2>1. QED
    BY <1>4 DEF State
<1>6. s.funcIn \in [Functions -> Info] /\ s.worklist \subseteq MBB \X Seq(Token)
  BY DEF State
<1>7. /\ new \in [Functions -> Info]
      /\ \A g \in Functions : g # f => new[g] = s.funcIn[g]
      /\ DOMAIN new[f] = DOMAIN s.funcIn[f] \cup {r}
      /\ \A d \in DOMAIN s.funcIn[f] : d # r => new[f][d] = s.funcIn[f][d]
      /\ \A g \in Functions : Larger(s.funcIn[g], new[g])
      /\ s.newOut \subseteq new[f][r]
      /\ ~ changes(s.funcIn[f], r, s.newOut) => new = s.funcIn
  <2> DEFINE map == s.funcIn
             ana == s.newOut
             D == Functions
  <2>1. map \in [D -> Info] /\ IsAdded(new, map, f, r, ana) /\ ana \in SUBSET Value /\ f \in D /\ r \in Seq(Token)
    BY <1>1, <1>2, <1>6 DEF IsAdded
  <2> HIDE DEF map, new, ana, f, r, D
  <2>2. Added(new, map, D, f, r, ana)
    BY <2>1, AddToMap
  <2>3. QED
    BY <2>2 DEF map, ana, D, Added
<1>8. /\ cc \in Seq(Token) /\ Front(cc) = r /\ InCall(e, cc, cc)
      /\ e \in MBB /\ isEntry(e) /\ Blocks[e].func = f
  <2>1. Called(f, r)
    <3>1. i[1] \in MBB /\ i \in CallsOf(i[1])
      BY Instructions DEF CallsOf
    <3>2. QED
      BY <3>1, CallContextCalled
  <2> HIDE DEF r, f
  <2>2. QED
    BY <2>1, <1>1, <1>2, CalleeContext, Entries
<1>9. wl \in SUBSET (MBB \X Seq(Token)) /\ s.worklist \subseteq wl /\ wl \subseteq s.worklist \cup {<<e, cc>>}
  BY <1>6, <1>8
<1>10. t \in State
  <2> HIDE DEF new, wl, out
  <2>1. QED
    BY <1>2, <1>4, <1>7, <1>9 DEF State
<1>11. changes(s.funcIn[f], r, s.newOut) => <<e, cc>> \in wl
  OBVIOUS
<1> HIDE DEF new, wl, f, r, e, cc, out
<1>12. Grown(s, t)
  <2>1. LargerMaps(s, t)
    BY <1>5, <1>7, LargerOrder DEF LargerMaps
  <2>2. QED
    BY <2>1, <1>5, <1>9 DEF Grown, SameInput, Returned
<1>13. Placed(t)
  <2>1. Reached(t, e, cc)
    BY <1>5, <1>7, <1>8 DEF Reached
  <2>2. \A y \in MBB : \A d : Reached(s, y, d) => Reached(t, y, d)
    <3>1. \A y \in MBB : Blocks[y].func \in Functions
      BY Entries
    <3>2. QED
      BY <3>1, <1>5, <1>7 DEF Reached, Larger
  <2>3. ASSUME NEW y \in MBB, NEW d \in DOMAIN t.mbb[y] PROVE Reached(t, y, d)
    BY <2>2, <2>3, <1>5 DEF Placed
  <2>4. ASSUME NEW w \in t.worklist
        PROVE  Reached(t, w[1], w[2]) /\ (~ isEntry(w[1]) => w[2] \in DOMAIN t.mbb[w[1]])
    <3>1. CASE w \in s.worklist
      <4>1. w[1] \in MBB
        BY <3>1, <1>6
      <4>2. Reached(s, w[1], w[2]) /\ (~ isEntry(w[1]) => w[2] \in DOMAIN s.mbb[w[1]])
        BY <3>1 DEF Placed
      <4>3. QED
        BY <4>1, <4>2, <2>2, <1>5
    <3>2. CASE w = <<e, cc>>
      BY <3>2, <2>1, <1>8
    <3>3. QED
      BY <3>1, <3>2, <1>5, <1>9
  <2>5. ASSUME NEW g \in Functions, NEW q \in DOMAIN t.funcIn[g] PROVE Entered(t, g, q)
    <3>1. CASE q \in DOMAIN s.funcIn[g] /\ t.funcIn[g][q] = s.funcIn[g][q]
      <4>1. Entered(s, g, q)
        BY <3>1 DEF Placed
      <4>2. QED
        BY <4>1, <3>1, <1>5, <1>9 DEF Entered
    <3>2. CASE ~ (q \in DOMAIN s.funcIn[g] /\ t.funcIn[g][q] = s.funcIn[g][q])
      <4>1. g = f /\ q = r
        BY <3>2, <2>5, <1>5, <1>7
      <4>2. changes(s.funcIn[f], r, s.newOut)
        BY <3>2, <2>5, <4>1, <1>5, <1>7
      <4>3. <<EntryBlock(g), calleeContext(q, g)>> \in t.worklist
        BY <4>1, <4>2, <1>5, <1>11 DEF e, cc
      <4>4. QED
        BY <4>3 DEF Entered
    <3>3. QED
      BY <3>1, <3>2
  <2>6. \A g \in Functions : \A q \in DOMAIN t.funcOut[g] : Called(g, q)
    BY <1>5 DEF Placed
  <2>7. QED
    BY <2>3, <2>4, <2>5, <2>6 DEF Placed
<1>14. Returned(t, i, c) = Returned(s, i, c)
  BY <1>5 DEF Returned
<1>15. t.ctx = c /\ t.newOut = Returned(t, i, c) /\ r \in DOMAIN t.funcIn[f] /\ s.newOut \subseteq t.funcIn[f][r]
  BY <1>2, <1>5, <1>7, <1>14
<1>16. QED
  BY <1>10, <1>12, <1>13, <1>15 DEF f, r

\* Its early lookup passes the assertion.
LEMMA CallFound ==
    ASSUME Apart, NEW s \in State, Placed(s), NEW i \in Instrs, InstrAt(i).op = "call",
           NEW c \in Seq(Token)
    PROVE  findEarlyAssertion(s.funcOut[InstrAt(i).callee], CallContext(i, c))
<1> DEFINE f == InstrAt(i).callee
           pd == s.funcOut[f]
<1>1. f \in Functions
  BY Instructions
<1>2. pd \in Info
  BY <1>1 DEF State
<1>3. \A x \in DOMAIN pd : x \in Seq(Token) /\ Called(f, x)
  BY <1>1, <1>2, InfoType DEF Placed
<1> HIDE DEF pd
<1>4. findEarlyAssertion(pd, CallContext(i, c))
  BY <1>3, LookupEnds
<1>5. QED
  BY <1>4 DEF pd

\* A return to the callers of the function.
LEMMA ReturnStep ==
    ASSUME NEW s \in State, Placed(s), NEW b \in MBB, NEW instr, NEW t \in handleReturn(s, b, instr),
           NEW p, InCall(b, p, s.ctx), ReturnsOutsideLoops => Nest(b) = <<>>
    PROVE  LET f == Blocks[b].func
               r == update(s.ctx, getDirectiveOnReturn(f))
           IN /\ t \in State /\ t.ctx = s.ctx
              /\ t.newOut = IF isPredicated(instr) THEN guardNotTaken(instr, s.newOut) ELSE {}
              /\ Placed(t) /\ Grown(s, t)
              /\ r \in DOMAIN t.funcOut[f] /\ guardTaken(instr, s.newOut) \subseteq t.funcOut[f][r]
<1> DEFINE f == Blocks[b].func
           c == s.ctx
           r == update(c, getDirectiveOnReturn(f))
           ana == guardTaken(instr, s.newOut)
           out == IF isPredicated(instr) THEN guardNotTaken(instr, s.newOut) ELSE {}
           new == [s.funcOut EXCEPT ![f] = addContext(@, r, ana)]
           sites == callsitesAffected(s.mbb, f, r)
           wl == IF changes(s.funcOut[f], r, ana) THEN s.worklist \cup sites ELSE s.worklist
<1>1. f \in Functions /\ c \in Seq(Token) /\ s.newOut \in SUBSET Value
  BY Entries DEF State
<1>2. ana \in SUBSET Value /\ out \in SUBSET Value
  BY <1>1 DEF guardTaken, guardNotTaken
<1>3. r \in Seq(Token)
  <2>1. r = c \/ r = Front(c)
    BY DEF update, getDirectiveOnReturn, Directive
  <2>2. QED
    BY <2>1, <1>1, FrontTyped
<1>4. t = [s EXCEPT !.funcOut = new, !.newOut = out, !.worklist = wl]
  BY DEF handleReturn, State
<1>5. /\ t.ctx = c /\ t.newOut = out /\ t.mbb = s.mbb /\ t.funcIn = s.funcIn
      /\ t.funcOut = new /\ t.worklist = wl
  <2> HIDE DEF new, wl, out
  <2>1. QED
    BY <1>4 DEF State
<1>6. s.funcOut \in [Functions -> Info] /\ s.worklist \subseteq MBB \X Seq(Token) /\ s.mbb \in [MBB -> Info]
  BY DEF State
<1>7. /\ new \in [Functions -> Info]
      /\ \A g \in Functions : g # f => new[g] = s.funcOut[g]
      /\ DOMAIN new[f] = DOMAIN s.funcOut[f] \cup {r}
      /\ \A d \in DOMAIN s.funcOut[f] : d # r => new[f][d] = s.funcOut[f][d]
      /\ \A g \in Functions : Larger(s.funcOut[g], new[g])
      /\ ana \subseteq new[f][r]
      /\ ~ changes(s.funcOut[f], r, ana) => new = s.funcOut
  <2> DEFINE map == s.funcOut
             D == Functions
  <2>1. map \in [D -> Info] /\ IsAdded(new, map, f, r, ana) /\ ana \in SUBSET Value /\ f \in D /\ r \in Seq(Token)
    BY <1>1, <1>2, <1>3, <1>6 DEF IsAdded
  <2> HIDE DEF map, new, ana, f, r, D
  <2>2. Added(new, map, D, f, r, ana)
    BY <2>1, AddToMap
  <2>3. QED
    BY <2>2 DEF map, D, Added
<1>8. ASSUME NEW w \in sites
      PROVE  w \in MBB \X Seq(Token) /\ w[2] \in DOMAIN s.mbb[w[1]]
  <2>1. PICK i \in getCallSites(f) : w \in {<<i[1], d>> : d \in {d \in DOMAIN s.mbb[i[1]] :
               reduceOnCall(update(d, getDirectiveBeforeInstr(i))) = r}}
    BY <1>8 DEF callsitesAffected
  <2>2. PICK d \in DOMAIN s.mbb[i[1]] : w = <<i[1], d>>
    BY <2>1
  <2>3. i[1] \in MBB
    BY Instructions DEF getCallSites
  <2>4. s.mbb[i[1]] \in Info
    BY <2>3, <1>6
  <2>5. d \in Seq(Token)
    BY <2>4, InfoType
  <2>6. QED
    BY <2>2, <2>3, <2>5
<1>9. wl \in SUBSET (MBB \X Seq(Token)) /\ s.worklist \subseteq wl /\ wl \subseteq s.worklist \cup sites
  <2> HIDE DEF sites
  <2>1. QED
    BY <1>6, <1>8
<1>10. t \in State
  <2> HIDE DEF new, wl, out
  <2>1. QED
    BY <1>2, <1>4, <1>7, <1>9 DEF State
<1>11. changes(s.funcOut[f], r, ana) => sites \subseteq wl
  OBVIOUS
<1>12. ASSUME NEW y \in MBB, NEW i \in CallsOf(y), InstrAt(i).callee = f, NEW d \in DOMAIN s.mbb[y], CallContext(i, d) = r
       PROVE  <<y, d>> \in sites
  <2>1. i \in getCallSites(f) /\ i[1] = y
    BY <1>12 DEF CallsOf, getCallSites
  <2>2. reduceOnCall(update(d, getDirectiveBeforeInstr(i))) = r
    BY <1>12 DEF CallContext
  <2>3. <<y, d>> \in {<<i[1], x>> : x \in {x \in DOMAIN s.mbb[i[1]] :
               reduceOnCall(update(x, getDirectiveBeforeInstr(i))) = r}}
    BY <2>1, <2>2
  <2> HIDE DEF r
  <2>4. QED
    BY <2>1, <2>3 DEF callsitesAffected
<1>13. Called(f, r)
  <2> SUFFICES ASSUME Apart PROVE Called(f, r)
    BY DEF Called
  <2>1. Nest(b) = <<>>
    BY DEF Apart
  <2>2. r = Front(p)
    BY <2>1, ReturnPops
  <2>3. QED
    BY <2>2 DEF InCall
<1> HIDE DEF new, wl, sites, f, r, ana, out
<1>14. Grown(s, t)
  <2>1. LargerMaps(s, t)
    BY <1>5, <1>7, LargerOrder DEF LargerMaps
  <2>2. ASSUME NEW y \in MBB, NEW d \in DOMAIN s.mbb[y], <<y, d>> \notin wl, NEW i \in CallsOf(y)
        PROVE  Returned(t, i, d) = Returned(s, i, d)
    <3>1. CASE changes(s.funcOut[f], r, ana)
      <4>1. ~ (InstrAt(i).callee = f /\ CallContext(i, d) = r)
        BY <3>1, <1>11, <1>12, <2>2
      <4>2. InstrAt(i).callee \in Functions
        BY Instructions DEF CallsOf
      <4> DEFINE g == InstrAt(i).callee
                 q == CallContext(i, d)
      <4> HIDE DEF g, q
      <4>3. findAnalysisInfoEarly(new[g], q) = findAnalysisInfoEarly(s.funcOut[g], q)
        BY <4>1, <4>2, <1>7 DEF findAnalysisInfoEarly, g, q
      <4>4. QED
        BY <4>3, <1>5 DEF Returned, g, q
    <3>2. CASE ~ changes(s.funcOut[f], r, ana)
      BY <3>2, <1>5, <1>7 DEF Returned
    <3>3. QED
      BY <3>1, <3>2
  <2>3. QED
    BY <2>1, <2>2, <1>5, <1>9 DEF Grown, SameInput
<1>15. Placed(t)
  <2>1. \A y, d : Reached(s, y, d) => Reached(t, y, d)
    BY <1>5 DEF Reached
  <2>2. ASSUME NEW y \in MBB, NEW d \in DOMAIN t.mbb[y] PROVE Reached(t, y, d)
    BY <2>1, <2>2, <1>5 DEF Placed
  <2>3. ASSUME NEW w \in t.worklist
        PROVE  Reached(t, w[1], w[2]) /\ (~ isEntry(w[1]) => w[2] \in DOMAIN t.mbb[w[1]])
    <3>1. CASE w \in s.worklist
      BY <3>1, <2>1, <1>5 DEF Placed
    <3>2. CASE w \in sites
      <4>1. w[1] \in MBB /\ w[2] \in DOMAIN s.mbb[w[1]]
        BY <3>2, <1>8
      <4>2. QED
        BY <4>1, <2>2, <1>5
    <3>3. QED
      BY <3>1, <3>2, <1>5, <1>9
  <2>4. \A g \in Functions : \A q \in DOMAIN t.funcIn[g] : Entered(t, g, q)
    BY <1>5, <1>9 DEF Placed, Entered
  <2>5. \A g \in Functions : \A q \in DOMAIN t.funcOut[g] : Called(g, q)
    BY <1>5, <1>7, <1>13 DEF Placed
  <2>6. QED
    BY <2>2, <2>3, <2>4, <2>5 DEF Placed
<1>16. QED
  BY <1>5, <1>7, <1>10, <1>14, <1>15 DEF f, r, ana, out

\* What an instruction makes of the information x before it, in context c: the
\* information y behind it, and what it has passed on.
Stepped(s, b, c, k, x, y) ==
    LET i == <<b, k>>
        instr == InstrAt(i)
        r == CallContext(i, c)
        q == update(c, getDirectiveOnReturn(Blocks[b].func))
    IN /\ instr.op = "plain" => y = transferInstr(instr, x)
       /\ instr.op = "external" => y = IF x = {} THEN {} ELSE TOP
       /\ instr.op = "call" =>
             /\ y = IF x = {} THEN {} ELSE Returned(s, i, c)
             /\ x # {} => r \in DOMAIN s.funcIn[instr.callee] /\ x \subseteq s.funcIn[instr.callee][r]
       /\ isBranch(instr) =>
             /\ y = IF instr.op = "branch" THEN guardNotTaken(instr, x) ELSE {}
             /\ \A target \in instr.targets :
                   Pushed(s, b, c, target, IF instr.op = "goto" THEN x ELSE guardTaken(instr, x))
       /\ instr.op = "return" =>
             /\ y = IF isPredicated(instr) THEN guardNotTaken(instr, x) ELSE {}
             /\ q \in DOMAIN s.funcOut[Blocks[b].func]
             /\ guardTaken(instr, x) \subseteq s.funcOut[Blocks[b].func][q]

\* The step of one instruction.
LEMMA InstructionStep ==
    ASSUME NEW s \in State, Placed(s), NEW b \in MBB, NEW c, s.ctx = c, \E p : InCall(b, p, c),
           NEW k \in 1 .. Len(Blocks[b].instrs),
           NEW u \in analyseInstruction(s, <<b, k>>), NEW t \in handleBranchInstruction(u, <<b, k>>)
    PROVE  /\ t \in State /\ t.ctx = c /\ Placed(t) /\ Grown(s, t)
           /\ Stepped(t, b, c, k, s.newOut, t.newOut)
<1> DEFINE i == <<b, k>>
           instr == InstrAt(i)
           x == s.newOut
<1>1. i \in Instrs /\ i[1] = b
  <2>1. Blocks[b].instrs \in Seq([op : {"plain"}, effect : [Value -> Value]]
                                \cup [op : {"call"}, callee : Functions] \cup [op : {"external"}]
                                \cup [op : {"branch"}, targets : SUBSET Blocks[b].succ, when : SUBSET Value]
                                \cup [op : {"goto", "jumptable"}, targets : SUBSET Blocks[b].succ]
                                \cup [op : {"return"}, when : SUBSET Value])
    BY InstructionAssumption
  <2>2. k \in DOMAIN Blocks[b].instrs
    BY <2>1
  <2>3. QED
    BY <2>2 DEF Instrs
<1>2. /\ instr.op \in {"plain", "call", "external", "branch", "goto", "jumptable", "return"}
      /\ instr.op = "plain" => instr.effect \in [Value -> Value]
      /\ instr.op \in {"branch", "goto", "jumptable"} => instr.targets \in SUBSET Blocks[b].succ
  BY <1>1, Instructions
<1>3. x \in SUBSET Value /\ c \in Seq(Token)
  BY DEF State
<1> HIDE DEF instr
<1>4. ASSUME NEW y \in SUBSET Value, t = [s EXCEPT !.newOut = y]
      PROVE  t \in State /\ t.ctx = c /\ Placed(t) /\ Grown(s, t) /\ t.newOut = y
  <2>1. /\ t \in State /\ t.ctx = c /\ t.newOut = y
        /\ t.mbb = s.mbb /\ t.funcIn = s.funcIn /\ t.funcOut = s.funcOut /\ t.worklist = s.worklist
    BY <1>4 DEF State
  <2>2. QED
    BY <2>1, GrownSame
<1>5. s = [s EXCEPT !.newOut = x]
  BY DEF State
<1>6. CASE instr.op = "plain"
  <2> DEFINE y == transferInstr(instr, x)
  <2>1. y \in SUBSET Value
    BY <1>2, <1>3, <1>6 DEF transferInstr
  <2>2. u = [s EXCEPT !.newOut = y]
    BY <1>6 DEF analyseInstruction, isCall, instr
  <2>3. handleBranchInstruction(u, i) = {u}
    BY <1>6 DEF handleBranchInstruction, isBranch, instr
  <2> HIDE DEF y
  <2>4. t = [s EXCEPT !.newOut = y]
    BY <2>2, <2>3
  <2>5. t \in State /\ t.ctx = c /\ Placed(t) /\ Grown(s, t) /\ t.newOut = y
    BY <2>1, <2>4, <1>4
  <2>6. QED
    BY <2>5, <1>6 DEF Stepped, y, isBranch, instr
<1>7. CASE instr.op = "external"
  <2> DEFINE y == IF x = {} THEN {} ELSE TOP
  <2>1. y \in SUBSET Value
    BY DEF TOP
  <2>2. u = [s EXCEPT !.newOut = y]
    <3>1. CASE x = {}
      <4>1. u = s
        BY <1>7, <3>1 DEF analyseInstruction, isCall, instr
      <4>2. y = x
        BY <3>1
      <4>3. QED
        BY <4>1, <4>2, <1>5
    <3>2. CASE x # {}
      BY <1>7, <3>2 DEF analyseInstruction, isCall, instr
    <3>3. QED
      BY <3>1, <3>2
  <2>3. handleBranchInstruction(u, i) = {u}
    BY <1>7 DEF handleBranchInstruction, isBranch, instr
  <2> HIDE DEF y
  <2>4. t = [s EXCEPT !.newOut = y]
    BY <2>2, <2>3
  <2>5. t \in State /\ t.ctx = c /\ Placed(t) /\ Grown(s, t) /\ t.newOut = y
    BY <2>1, <2>4, <1>4
  <2>6. QED
    BY <2>5, <1>7 DEF Stepped, y, isBranch, instr
<1>8. CASE instr.op = "call" /\ x = {}
  <2>1. u = s
    BY <1>8 DEF analyseInstruction, isCall, instr
  <2>2. handleBranchInstruction(u, i) = {u}
    BY <1>8 DEF handleBranchInstruction, isBranch, instr
  <2>3. t = [s EXCEPT !.newOut = x]
    BY <2>1, <2>2, <1>5
  <2>4. t \in State /\ t.ctx = c /\ Placed(t) /\ Grown(s, t) /\ t.newOut = x
    BY <2>3, <1>3, <1>4
  <2>5. QED
    BY <2>4, <1>8 DEF Stepped, isBranch, instr
<1>9. CASE instr.op = "call" /\ x # {}
  <2>1. handleBranchInstruction(u, i) = {u}
    BY <1>9 DEF handleBranchInstruction, isBranch, instr
  <2> DEFINE f == InstrAt(i).callee
             r == CallContext(i, c)
  <2>2. /\ u \in State /\ u.ctx = c /\ u.newOut = Returned(u, i, c)
        /\ Placed(u) /\ Grown(s, u)
        /\ r \in DOMAIN u.funcIn[f] /\ x \subseteq u.funcIn[f][r]
    <3>1. InstrAt(i).op = "call" /\ u \in analyseInstruction(s, i)
      BY <1>9 DEF instr
    <3> HIDE DEF i
    <3>2. PICK p : InCall(i[1], p, s.ctx)
      BY <1>1
    <3>3. QED
      BY <3>1, <3>2, <1>1, <1>9, CallStep
  <2>3. t = u
    BY <2>1
  <2>4. QED
    BY <2>2, <2>3, <1>9 DEF Stepped, isBranch, instr
<1>10. CASE instr.op \in {"branch", "goto", "jumptable"}
  <2> DEFINE taken == IF instr.op = "goto" THEN x ELSE guardTaken(instr, x)
             y == IF instr.op = "branch" THEN guardNotTaken(instr, x) ELSE {}
  <2>1. u = s
    BY <1>10 DEF analyseInstruction, isCall, instr
  <2>2. handleBranchInstruction(u, i) = handleBranch(s, b, instr)
    BY <2>1, <1>1, <1>10 DEF handleBranchInstruction, isBranch, instr
  <2>3. PICK v \in propagateAll(s, b, instr.targets, taken) : t = [v EXCEPT !.newOut = y]
    BY <2>2 DEF handleBranch
  <2>4. taken \in SUBSET Value /\ y \in SUBSET Value
    BY <1>3 DEF guardTaken, guardNotTaken
  <2> HIDE DEF taken, y, i
  <2>5. instr.targets \in SUBSET Blocks[b].succ
    BY <1>2, <1>10
  <2>6. /\ v \in State /\ v.ctx = c /\ v.newOut = s.newOut
        /\ Placed(v) /\ Grown(s, v)
        /\ \A target \in instr.targets : Pushed(v, b, c, target, taken)
    BY <2>3, <2>4, <2>5, PropagateAll
  <2>7. /\ t \in State /\ t.ctx = c /\ t.newOut = y
        /\ t.mbb = v.mbb /\ t.funcIn = v.funcIn /\ t.funcOut = v.funcOut /\ t.worklist = v.worklist
    BY <2>3, <2>4, <2>6 DEF State
  <2>8. Placed(t) /\ Grown(v, t)
    BY <2>6, <2>7, GrownSame
  <2>9. Grown(s, t)
    BY <2>6, <2>8, GrownTransitive
  <2>10. \A target \in instr.targets : Pushed(t, b, c, target, taken)
    BY <2>6, <2>7 DEF Pushed
  <2>11. QED
    BY <2>7, <2>8, <2>9, <2>10, <1>10 DEF Stepped, taken, y, i, instr, isBranch
<1>11. CASE instr.op = "return"
  <2>1. u = s
    BY <1>11 DEF analyseInstruction, isCall, instr
  <2>2. t \in handleReturn(s, b, instr)
    BY <2>1, <1>1, <1>11 DEF handleBranchInstruction, isBranch, instr
  <2> HIDE DEF i
  <2>3. LET f == Blocks[b].func
            r == update(s.ctx, getDirectiveOnReturn(f))
        IN /\ t \in State /\ t.ctx = s.ctx
           /\ t.newOut = IF isPredicated(instr) THEN guardNotTaken(instr, s.newOut) ELSE {}
           /\ Placed(t) /\ Grown(s, t)
           /\ r \in DOMAIN t.funcOut[f] /\ guardTaken(instr, s.newOut) \subseteq t.funcOut[f][r]
    <3>1. PICK p : InCall(b, p, s.ctx)
      OBVIOUS
    <3>2. ReturnsOutsideLoops => Nest(b) = <<>>
      BY <1>1, <1>11 DEF ReturnsOutsideLoops, instr, i
    <3>3. QED
      BY <2>2, <3>1, <3>2, ReturnStep
  <2>4. QED
    BY <2>3, <1>11 DEF Stepped, isBranch, instr, i
<1>12. QED
  BY <1>2, <1>6, <1>7, <1>8, <1>9, <1>10, <1>11

\* It does not end in an assertion.
LEMMA InstructionEnds ==
    ASSUME Apart, NEW s \in State, Placed(s), NEW b \in MBB, NEW c, s.ctx = c, \E p : InCall(b, p, c),
           NEW k \in 1 .. Len(Blocks[b].instrs)
    PROVE  \E u \in analyseInstruction(s, <<b, k>>) : handleBranchInstruction(u, <<b, k>>) # {}
<1> DEFINE i == <<b, k>>
           instr == InstrAt(i)
<1>1. i \in Instrs /\ i[1] = b
  BY InstructionAssumption DEF Instrs
<1>2. /\ instr.op \in {"plain", "call", "external", "branch", "goto", "jumptable", "return"}
      /\ instr.op \in {"branch", "goto", "jumptable"} => instr.targets \in SUBSET Blocks[b].succ
  BY <1>1, Instructions
<1>3. CASE instr.op \in {"plain", "external"} \/ (instr.op = "call" /\ s.newOut = {})
  <2>1. PICK u : u \in analyseInstruction(s, i)
    BY <1>3 DEF analyseInstruction, isCall
  <2>2. handleBranchInstruction(u, i) = {u}
    BY <1>3 DEF handleBranchInstruction, isBranch
  <2>3. QED
    BY <2>1, <2>2
<1>4. CASE instr.op = "call" /\ s.newOut # {}
  <2> DEFINE d == update(c, getDirectiveBeforeInstr(i))
             called == analyseCall(s, instr.callee, d)
  <2>1. c \in Seq(Token)
    BY DEF State
  <2>2. findEarlyAssertion(s.funcOut[instr.callee], reduceOnCall(d))
    <3>1. findEarlyAssertion(s.funcOut[InstrAt(i).callee], CallContext(i, c))
      <4> HIDE DEF i
      <4>1. QED
        BY <2>1, <1>1, <1>4, CallFound
    <3>2. QED
      BY <3>1 DEF CallContext
  <2>3. called # {}
    <3> HIDE DEF d
    <3>1. QED
      BY <2>2 DEF analyseCall
  <2>4. \E u : u \in analyseInstruction(s, i)
    <3>1. analyseInstruction(s, i) = {[v EXCEPT !.ctx = update(d, getDirectiveAfterInstr(i))] : v \in called}
      BY <1>4 DEF analyseInstruction, isCall
    <3> HIDE DEF called
    <3>2. QED
      BY <2>3, <3>1
  <2>5. PICK u : u \in analyseInstruction(s, i)
    BY <2>4
  <2>6. handleBranchInstruction(u, i) = {u}
    BY <1>4 DEF handleBranchInstruction, isBranch
  <2>7. QED
    BY <2>5, <2>6
<1>5. CASE instr.op \in {"branch", "goto", "jumptable"}
  <2> DEFINE taken == IF instr.op = "goto" THEN s.newOut ELSE guardTaken(instr, s.newOut)
             ends == propagateAll(s, b, instr.targets, taken)
             y == IF instr.op = "branch" THEN guardNotTaken(instr, s.newOut) ELSE {}
  <2>1. analyseInstruction(s, i) = {s}
    BY <1>5 DEF analyseInstruction, isCall
  <2>2. handleBranchInstruction(s, i) = {[v EXCEPT !.newOut = y] : v \in ends}
    BY <1>1, <1>5 DEF handleBranchInstruction, isBranch, handleBranch
  <2>3. taken \in SUBSET Value
    BY DEF State, guardTaken
  <2> HIDE DEF taken, y, instr, i
  <2>4. instr.targets \in SUBSET Blocks[b].succ
    BY <1>2, <1>5
  <2>5. ends # {}
    BY <2>3, <2>4, PropagateAll
  <2> HIDE DEF ends
  <2>6. QED
    BY <2>1, <2>2, <2>5 DEF i
<1>6. CASE instr.op = "return"
  <2>1. analyseInstruction(s, i) = {s}
    BY <1>6 DEF analyseInstruction, isCall
  <2>2. handleBranchInstruction(s, i) = handleReturn(s, b, instr)
    BY <1>1, <1>6 DEF handleBranchInstruction, isBranch
  <2>3. handleReturn(s, b, instr) # {}
    BY DEF handleReturn
  <2>4. QED
    BY <2>1, <2>2, <2>3
<1>7. QED
  BY <1>2, <1>3, <1>4, <1>5, <1>6

-----------------------------------------------------------------------------
(* Blocks.                                                                 *)

\* The number of instructions of a block.
Size(b) == Len(Blocks[b].instrs)

\* "out" is the information before and between the first k instructions of
\* block b in context c, and behind them.
Flow(s, b, c, k, out) ==
    /\ out \in [1 .. (k + 1) -> SUBSET Value]
    /\ out[1] = s.mbb[b][c]
    /\ \A j \in 1 .. k : Stepped(s, b, c, j, out[j], out[j + 1])

\* The analysis of block b in context c would not change anything.
Stable(s, b, c) ==
    \E out : /\ Flow(s, b, c, Size(b), out)
             /\ \A x \in LayoutSuccessors(b) : Pushed(s, b, c, x, out[Size(b) + 1])

\* The positions of a block are those of instructions.
LEMMA Positions ==
    ASSUME NEW b \in MBB
    PROVE  Size(b) \in Nat /\ DOMAIN Blocks[b].instrs = 1 .. Size(b) /\ \A k \in 1 .. Size(b) : <<b, k>> \in Instrs
<1>1. Blocks[b].instrs \in Seq([op : {"plain"}, effect : [Value -> Value]]
                                \cup [op : {"call"}, callee : Functions] \cup [op : {"external"}]
                                \cup [op : {"branch"}, targets : SUBSET Blocks[b].succ, when : SUBSET Value]
                                \cup [op : {"goto", "jumptable"}, targets : SUBSET Blocks[b].succ]
                                \cup [op : {"return"}, when : SUBSET Value])
  BY InstructionAssumption
<1>2. Size(b) \in Nat /\ DOMAIN Blocks[b].instrs = 1 .. Size(b)
  BY <1>1 DEF Size
<1>3. QED
  BY <1>2 DEF Instrs

\* What an instruction has done stays done when information is added that the
\* block does not read.
LEMMA SteppedStays ==
    ASSUME NEW s, NEW t, LargerMaps(s, t), NEW b \in MBB, NEW c, SameInput(s, t, b, c),
           NEW k \in 1 .. Size(b), NEW x, NEW y, Stepped(s, b, c, k, x, y)
    PROVE  Stepped(t, b, c, k, x, y)
<1> DEFINE i == <<b, k>>
           instr == InstrAt(i)
           f == Blocks[b].func
           r == CallContext(i, c)
           q == update(c, getDirectiveOnReturn(f))
<1>1. i \in Instrs /\ i[1] = b
  BY Positions
<1>2. instr.op = "call" => i \in CallsOf(b) /\ instr.callee \in Functions
  BY <1>1, Instructions DEF CallsOf
<1>3. f \in Functions
  BY Entries
<1>4. instr.op = "call" => Returned(t, i, c) = Returned(s, i, c)
  BY <1>2 DEF SameInput
<1>5. isBranch(instr) => \A z \in instr.targets : z \in MBB
  <2>1. instr.op \in {"branch", "goto", "jumptable"} => instr.targets \in SUBSET Blocks[b].succ
    BY <1>1, Instructions
  <2> HIDE DEF instr
  <2>2. QED
    BY <2>1, Entries DEF isBranch
<1> HIDE DEF instr
<1>6. /\ instr.op = "plain" => y = transferInstr(instr, x)
      /\ instr.op = "external" => y = IF x = {} THEN {} ELSE TOP
      /\ instr.op = "call" =>
             /\ y = IF x = {} THEN {} ELSE Returned(s, i, c)
             /\ x # {} => r \in DOMAIN s.funcIn[instr.callee] /\ x \subseteq s.funcIn[instr.callee][r]
      /\ isBranch(instr) =>
             /\ y = IF instr.op = "branch" THEN guardNotTaken(instr, x) ELSE {}
             /\ \A target \in instr.targets :
                   Pushed(s, b, c, target, IF instr.op = "goto" THEN x ELSE guardTaken(instr, x))
      /\ instr.op = "return" =>
             /\ y = IF isPredicated(instr) THEN guardNotTaken(instr, x) ELSE {}
             /\ q \in DOMAIN s.funcOut[f]
             /\ guardTaken(instr, x) \subseteq s.funcOut[f][q]
  BY DEF Stepped, instr
<1> HIDE DEF i, r, q, f
<1>7. instr.op = "call" =>
             /\ y = IF x = {} THEN {} ELSE Returned(t, i, c)
             /\ x # {} => r \in DOMAIN t.funcIn[instr.callee] /\ x \subseteq t.funcIn[instr.callee][r]
  <2>1. CASE instr.op = "call"
    <3> DEFINE g == instr.callee
    <3>1. g \in Functions
      BY <1>2, <2>1
    <3> HIDE DEF g
    <3>2. Larger(s.funcIn[g], t.funcIn[g])
      BY <3>1 DEF LargerMaps
    <3>3. x # {} => r \in DOMAIN s.funcIn[g] /\ x \subseteq s.funcIn[g][r]
      BY <1>6, <2>1 DEF g
    <3>4. x # {} => r \in DOMAIN t.funcIn[g] /\ x \subseteq t.funcIn[g][r]
      BY <3>2, <3>3 DEF Larger
    <3>5. QED
      BY <3>4, <1>4, <1>6, <2>1 DEF g
  <2>2. QED
    BY <2>1
<1>8. isBranch(instr) =>
             \A target \in instr.targets :
                   Pushed(t, b, c, target, IF instr.op = "goto" THEN x ELSE guardTaken(instr, x))
  <2> DEFINE ana == IF instr.op = "goto" THEN x ELSE guardTaken(instr, x)
  <2> HIDE DEF ana
  <2>1. ASSUME NEW z \in MBB, Pushed(s, b, c, z, ana) PROVE Pushed(t, b, c, z, ana)
    BY <2>1 DEF Pushed, LargerMaps, Larger
  <2>2. QED
    BY <2>1, <1>5, <1>6 DEF ana
<1>9. instr.op = "return" =>
             /\ q \in DOMAIN t.funcOut[f]
             /\ guardTaken(instr, x) \subseteq t.funcOut[f][q]
  <2>1. Larger(s.funcOut[f], t.funcOut[f])
    BY <1>3 DEF LargerMaps
  <2>2. QED
    BY <2>1, <1>6 DEF Larger
<1>10. QED
  BY <1>6, <1>7, <1>8, <1>9 DEF Stepped, instr, i, r, q, f

\* The information in a block stays right while what the block reads is the same.
LEMMA FlowStays ==
    ASSUME NEW s, NEW t, LargerMaps(s, t), NEW b \in MBB, NEW c, SameInput(s, t, b, c),
           NEW k \in 0 .. Size(b), NEW out, Flow(s, b, c, k, out)
    PROVE  Flow(t, b, c, k, out)
<1>1. out[1] = t.mbb[b][c]
  BY DEF Flow, SameInput
<1>2. ASSUME NEW j \in 1 .. k PROVE Stepped(t, b, c, j, out[j], out[j + 1])
  <2>1. j \in 1 .. Size(b)
    BY Positions
  <2>2. Stepped(s, b, c, j, out[j], out[j + 1])
    BY DEF Flow
  <2>3. QED
    BY <2>1, <2>2, SteppedStays
<1>3. QED
  BY <1>1, <1>2 DEF Flow

\* So a block that was up to date still is.
LEMMA StableStays ==
    ASSUME NEW s, NEW t, LargerMaps(s, t), NEW b \in MBB, NEW c, SameInput(s, t, b, c), Stable(s, b, c)
    PROVE  Stable(t, b, c)
<1>1. PICK out : /\ Flow(s, b, c, Size(b), out)
                 /\ \A x \in LayoutSuccessors(b) : Pushed(s, b, c, x, out[Size(b) + 1])
  BY DEF Stable
<1>2. Flow(t, b, c, Size(b), out)
  <2>1. Size(b) \in 0 .. Size(b)
    BY Positions
  <2>2. QED
    BY <1>1, <2>1, FlowStays
<1>3. ASSUME NEW x \in LayoutSuccessors(b) PROVE Pushed(t, b, c, x, out[Size(b) + 1])
  <2>1. x \in MBB
    BY Entries DEF LayoutSuccessors
  <2>2. QED
    BY <2>1, <1>1 DEF Pushed, LargerMaps, Larger
<1>4. QED
  BY <1>2, <1>3 DEF Stable

\* A block is analysed from the information at its entry to its end.
LEMMA BlockStep ==
    ASSUME NEW s \in State, Placed(s), NEW b \in MBB, NEW c, s.ctx = c, \E p : InCall(b, p, c),
           c \in DOMAIN s.mbb[b], s.newOut = s.mbb[b][c]
    PROVE  /\ Apart => analyseMachineBasicBlock(s, b) # {}
           /\ \A t \in analyseMachineBasicBlock(s, b) :
                 /\ t \in State /\ Placed(t) /\ Grown(s, t)
                 /\ <<b, c>> \notin t.worklist => Stable(t, b, c)
<1> DEFINE n == Size(b)
           seq == [i \in DOMAIN Blocks[b].instrs |-> i]
           Good == {u \in State : u.ctx = c /\ Placed(u) /\ Grown(s, u)}
           V == SUBSET Good
           first(S, k) == UNION {analyseInstruction(u, <<b, k>>) : u \in S}
           step(S, k) == UNION {handleBranchInstruction(u, <<b, k>>) : u \in first(S, k)}
           next == [z \in (1 .. n) \X V |-> step(z[2], z[1])]
           base == {s}
           Is(h) == h = [z \in SUBSET DOMAIN seq |-> IF z = {} THEN base ELSE step(h[z \ {Max(z)}], seq[Max(z)])]
           ends == FoldLeftDomain(step, base, Blocks[b].instrs)
<1>1. n \in Nat /\ DOMAIN Blocks[b].instrs = 1 .. n
  BY Positions
<1>2. ASSUME NEW k \in 1 .. n, NEW u \in Good, NEW w \in analyseInstruction(u, <<b, k>>),
             NEW v \in handleBranchInstruction(w, <<b, k>>)
      PROVE  v \in Good /\ Grown(u, v) /\ Stepped(v, b, c, k, u.newOut, v.newOut)
  <2>1. /\ v \in State /\ v.ctx = c /\ Placed(v) /\ Grown(u, v)
        /\ Stepped(v, b, c, k, u.newOut, v.newOut)
    BY InstructionStep DEF Size
  <2>2. Grown(s, v)
    BY <2>1, GrownTransitive
  <2>3. QED
    BY <2>1, <2>2
<1>3. ASSUME NEW k \in 1 .. n, NEW S \in V PROVE step(S, k) \in V
  BY <1>2
<1>4. next \in [(1 .. n) \X V -> V]
  <2> HIDE DEF step, V, n
  <2>1. QED
    BY <1>3
<1>5. base \in V
  <2>1. Grown(s, s)
    BY GrownSame
  <2>2. QED
    BY <2>1
<1>6. PICK h : IsFoldLeft(h, n, V, base, next)
  <2> HIDE DEF V, base, next, n
  <2>1. QED
    BY <1>1, <1>4, <1>5, FoldLeftExists
<1>7. DOMAIN seq = 1 .. n /\ \A k \in 1 .. n : seq[k] = k
  BY <1>1
<1>8. \A z \in (SUBSET (1 .. n)) \ {{}} : Max(z) \in z
  BY <1>1, LastPositions
<1>9. Is(h)
  <2> HIDE DEF step, V, base, n, seq
  <2>1. h \in [SUBSET (1 .. n) -> V]
    BY <1>6 DEF IsFoldLeft
  <2>2. ASSUME NEW z \in SUBSET (1 .. n)
        PROVE  h[z] = IF z = {} THEN base ELSE step(h[z \ {Max(z)}], seq[Max(z)])
    <3>1. CASE z = {}
      BY <3>1, <1>6 DEF IsFoldLeft
    <3>2. CASE z # {}
      <4> DEFINE m == Max(z)
                 v == h[z \ {Max(z)}]
      <4>1. m \in 1 .. n /\ v \in V /\ seq[m] = m
        BY <3>2, <1>7, <1>8, <2>1
      <4>2. h[z] = next[<<m, v>>]
        <5> HIDE DEF next
        <5>1. QED
          BY <3>2, <1>6 DEF IsFoldLeft
      <4> HIDE DEF m, v
      <4>3. next[<<m, v>>] = step(v, m)
        BY <4>1
      <4> HIDE DEF next
      <4>4. h[z] = step(v, seq[m])
        BY <4>1, <4>2, <4>3
      <4>5. QED
        BY <4>4, <3>2 DEF m, v
    <3>3. QED
      BY <3>1, <3>2
  <2>3. QED
    BY <2>1, <2>2, <1>7
<1>10. ends = (CHOOSE h0 : Is(h0))[DOMAIN seq]
  BY DEF FoldLeftDomain, FoldLeft, MapThenFoldSet
<1>11. PICK h0 : Is(h0) /\ ends = h0[DOMAIN seq]
  <2> HIDE DEF Is, ends
  <2>1. Is(CHOOSE h0 : Is(h0))
    BY <1>9
  <2>2. QED
    BY <2>1, <1>10
<1>12. h0[{}] = base /\ \A k \in 1 .. n : h0[1 .. k] = step(h0[1 .. (k - 1)], k)
  <2> HIDE DEF step, base, n, seq
  <2>1. h0[{}] = base
    BY <1>11
  <2>2. ASSUME NEW k \in 1 .. n PROVE h0[1 .. k] = step(h0[1 .. (k - 1)], k)
    <3>1. 1 .. k \subseteq 1 .. n /\ k \in 1 .. k
      BY <1>1
    <3>2. Max(1 .. k) = k /\ (1 .. k) \ {k} = 1 .. (k - 1)
      BY <1>1, LastPositions
    <3> DEFINE z == 1 .. k
    <3>3. z \in SUBSET DOMAIN seq /\ z # {}
      BY <3>1, <1>7
    <3> HIDE DEF z
    <3>4. h0[z] = step(h0[z \ {Max(z)}], seq[Max(z)])
      BY <3>3, <1>11
    <3>5. QED
      BY <3>2, <3>4, <1>7 DEF z
  <2>3. QED
    BY <2>1, <2>2
<1> DEFINE Running(u, k) == <<b, c>> \notin u.worklist => \E out : Flow(u, b, c, k, out) /\ out[k + 1] = u.newOut
           G == {k \in Nat : k <= n => /\ Apart => h0[1 .. k] # {}
                                    /\ h0[1 .. k] \subseteq {u \in Good : Running(u, k)}}
<1>13. 0 \in G
  <2>1. h0[1 .. 0] = base
    BY <1>12
  <2>2. Running(s, 0)
    <3> DEFINE out == [j \in 1 .. (0 + 1) |-> s.newOut]
    <3>1. out \in [1 .. (0 + 1) -> SUBSET Value] /\ out[1] = s.newOut
      BY DEF State
    <3>2. Flow(s, b, c, 0, out) /\ out[0 + 1] = s.newOut
      BY <3>1 DEF Flow
    <3>3. QED
      BY <3>2
  <2>3. s \in Good
    BY <1>5
  <2> HIDE DEF Running, Good
  <2>4. QED
    BY <2>1, <2>2, <2>3
<1>14. ASSUME NEW k \in Nat, k \in G PROVE k + 1 \in G
  <2> SUFFICES ASSUME k + 1 <= n
               PROVE  /\ Apart => h0[1 .. (k + 1)] # {}
                      /\ h0[1 .. (k + 1)] \subseteq {u \in Good : Running(u, k + 1)}
    OBVIOUS
  <2>1. k <= n /\ k + 1 \in 1 .. n /\ (k + 1) - 1 = k /\ k \in 0 .. n
    BY <1>1
  <2>2. h0[1 .. (k + 1)] = step(h0[1 .. k], k + 1)
    <3> HIDE DEF step
    <3>1. QED
      BY <2>1, <1>12
  <2> DEFINE S == h0[1 .. k]
  <2>3. (Apart => S # {}) /\ S \subseteq {u \in Good : Running(u, k)}
    BY <1>14, <2>1
  <2> HIDE DEF S
  <2>4. ASSUME NEW v \in h0[1 .. (k + 1)] PROVE v \in Good /\ Running(v, k + 1)
    <3>1. PICK u \in S : \E w \in analyseInstruction(u, <<b, k + 1>>) : v \in handleBranchInstruction(w, <<b, k + 1>>)
      BY <2>2, <2>4 DEF S
    <3>2. u \in Good /\ Running(u, k)
      BY <2>3
    <3>3. v \in Good /\ Grown(u, v) /\ Stepped(v, b, c, k + 1, u.newOut, v.newOut)
      <4> HIDE DEF Good
      <4>1. QED
        BY <3>1, <3>2, <2>1, <1>2
    <3>4. ASSUME <<b, c>> \notin v.worklist
          PROVE  \E out : Flow(v, b, c, k + 1, out) /\ out[k + 2] = v.newOut
      <4>1. <<b, c>> \notin u.worklist
        BY <3>3, <3>4 DEF Grown
      <4>2. PICK out : Flow(u, b, c, k, out) /\ out[k + 1] = u.newOut
        BY <3>2, <4>1
      <4>3. LargerMaps(u, v) /\ SameInput(u, v, b, c)
        <5>1. c \in DOMAIN v.mbb[b]
          BY <3>3 DEF Grown, LargerMaps, Larger
        <5>2. QED
          BY <3>3, <3>4, <5>1 DEF Grown
      <4>4. Flow(v, b, c, k, out)
        BY <2>1, <4>2, <4>3, FlowStays
      <4> DEFINE more == [j \in 1 .. (k + 2) |-> IF j = k + 2 THEN v.newOut ELSE out[j]]
      <4>5. out \in [1 .. (k + 1) -> SUBSET Value] /\ out[1] = v.mbb[b][c]
        BY <4>4 DEF Flow
      <4>6. more \in [1 .. (k + 2) -> SUBSET Value] /\ more[k + 2] = v.newOut /\ \A j \in 1 .. (k + 1) : more[j] = out[j]
        <5>1. v.newOut \in SUBSET Value
          BY <3>3 DEF State
        <5>2. \A j \in 1 .. (k + 2) : j # k + 2 => j \in 1 .. (k + 1)
          OBVIOUS
        <5>3. QED
          BY <5>1, <5>2, <4>5
      <4> HIDE DEF more
      <4>7. ASSUME NEW j \in 1 .. (k + 1) PROVE Stepped(v, b, c, j, more[j], more[j + 1])
        <5>1. CASE j = k + 1
          <6>1. more[j] = u.newOut /\ more[j + 1] = v.newOut
            BY <5>1, <4>2, <4>6
          <6>2. QED
            BY <5>1, <6>1, <3>3
        <5>2. CASE j # k + 1
          <6>1. j \in 1 .. k /\ more[j] = out[j] /\ more[j + 1] = out[j + 1]
            BY <5>2, <4>6
          <6>2. QED
            BY <6>1, <4>4 DEF Flow
        <5>3. QED
          BY <5>1, <5>2
      <4>8. Flow(v, b, c, k + 1, more)
        <5>1. more[1] = v.mbb[b][c] /\ (k + 1) + 1 = k + 2
          BY <4>5, <4>6
        <5>2. QED
          BY <5>1, <4>6, <4>7 DEF Flow
      <4>9. QED
        BY <4>6, <4>8
    <3>5. (k + 1) + 1 = k + 2
      OBVIOUS
    <3>6. Running(v, k + 1)
      BY <3>4, <3>5
    <3>7. QED
      BY <3>3, <3>6
  <2>5. ASSUME Apart PROVE h0[1 .. (k + 1)] # {}
    <3>1. PICK u \in S : u \in Good
      BY <2>3, <2>5
    <3>2. k + 1 \in 1 .. Len(Blocks[b].instrs)
      BY <2>1 DEF Size
    <3>3. \E w \in analyseInstruction(u, <<b, k + 1>>) : handleBranchInstruction(w, <<b, k + 1>>) # {}
      BY <3>1, <3>2, <2>5, InstructionEnds
    <3>4. QED
      BY <3>1, <3>3, <2>2 DEF S
  <2> HIDE DEF Running, Good
  <2>6. QED
    BY <2>4, <2>5
<1>15. (Apart => ends # {}) /\ ends \subseteq {u \in Good : Running(u, n)}
  <2>1. n \in G
    <3> HIDE DEF G, n
    <3>1. QED
      BY <1>1, <1>13, <1>14, NatInductionOn
  <2>2. ends = h0[1 .. n]
    <3> HIDE DEF ends, seq, Is
    <3>1. QED
      BY <1>7, <1>11
  <2> HIDE DEF Running, Good, ends, n
  <2>3. (Apart => h0[1 .. n] # {}) /\ h0[1 .. n] \subseteq {u \in Good : Running(u, n)}
    BY <2>1, <1>1
  <2>4. QED
    BY <2>2, <2>3
<1>16. analyseMachineBasicBlock(s, b) = UNION {propagateAll(u, b, LayoutSuccessors(b), u.newOut) : u \in ends}
  BY Zenon DEF analyseMachineBasicBlock
<1> HIDE DEF ends
<1>17. ASSUME NEW t \in analyseMachineBasicBlock(s, b)
       PROVE  /\ t \in State /\ Placed(t) /\ Grown(s, t)
              /\ <<b, c>> \notin t.worklist => Stable(t, b, c)
  <2>1. PICK u \in ends : t \in propagateAll(u, b, LayoutSuccessors(b), u.newOut)
    BY <1>16, <1>17
  <2>2. u \in Good /\ Running(u, n)
    <3> HIDE DEF Good, Running
    <3>1. QED
      BY <1>15
  <2>3. /\ t \in State /\ Placed(t) /\ Grown(u, t)
         /\ \A x \in LayoutSuccessors(b) : Pushed(t, b, c, x, u.newOut)
    <3>1. LayoutSuccessors(b) \in SUBSET Blocks[b].succ /\ u.newOut \in SUBSET Value
      BY <2>2 DEF LayoutSuccessors, State
    <3>2. QED
      BY <2>1, <2>2, <3>1, PropagateAll
  <2>4. Grown(s, t)
    BY <2>2, <2>3, GrownTransitive
  <2>5. ASSUME <<b, c>> \notin t.worklist PROVE Stable(t, b, c)
    <3>1. <<b, c>> \notin u.worklist
      BY <2>3, <2>5 DEF Grown
    <3>2. PICK out : Flow(u, b, c, n, out) /\ out[n + 1] = u.newOut
      BY <3>1, <2>2
    <3>3. LargerMaps(u, t) /\ SameInput(u, t, b, c)
      <4>1. c \in DOMAIN t.mbb[b]
        BY <2>4 DEF Grown, LargerMaps, Larger
      <4>2. QED
        BY <4>1, <2>3, <2>5 DEF Grown
    <3>4. n \in 0 .. n
      <4> HIDE DEF Good, G, step, n
      <4>1. QED
        BY <1>1
    <3>5. Flow(t, b, c, n, out)
      <4> HIDE DEF Good, G, step
      <4>1. n \in 0 .. Size(b)
        BY <3>4
      <4> HIDE DEF n
      <4>2. QED
        BY <3>2, <3>3, <4>1, FlowStays
    <3>6. QED
      BY <3>2, <3>5, <2>3 DEF Stable
  <2>6. QED
    BY <2>3, <2>4, <2>5
<1>18. ASSUME Apart PROVE analyseMachineBasicBlock(s, b) # {}
  <2>1. PICK u : u \in ends
    BY <1>15, <1>18
  <2>2. u \in Good
    BY <1>15, <2>1
  <2>3. LayoutSuccessors(b) \in SUBSET Blocks[b].succ /\ u.newOut \in SUBSET Value
    BY <2>2 DEF LayoutSuccessors, State
  <2>4. propagateAll(u, b, LayoutSuccessors(b), u.newOut) # {}
    BY <2>2, <2>3, PropagateAll
  <2>5. QED
    BY <2>1, <2>4, <1>16
<1>19. QED
  BY <1>17, <1>18

-----------------------------------------------------------------------------
(* The results.                                                            *)

\* "to" changes the contexts of pd by a directive, and keeps them apart.
Renames(to, pd, direc) ==
    /\ to \in [DOMAIN pd -> Seq(Token)]
    /\ \A c \in DOMAIN pd : to[c] = update(c, direc)
    /\ \A c, d \in DOMAIN pd : to[c] = to[d] => c = d

\* q is pd with its contexts changed.
Renamed(q, pd, to) ==
    /\ q \in Info
    /\ DOMAIN q = {to[c] : c \in DOMAIN pd}
    /\ \A c \in DOMAIN pd : q[to[c]] = pd[c]

\* Changing all contexts, if they stay apart.
LEMMA UpdateContexts ==
    ASSUME NEW pd \in Info, NEW direc, NEW to, Renames(to, pd, direc)
    PROVE  Renamed(updateContexts(pd, direc), pd, to)
<1>0. /\ to \in [DOMAIN pd -> Seq(Token)]
      /\ \A c \in DOMAIN pd : to[c] = update(c, direc)
      /\ \A c, d \in DOMAIN pd : to[c] = to[d] => c = d
  BY DEF Renames
<1> DEFINE S == DOMAIN pd
           first(z) == CHOOSE c \in z : TRUE
           pick == [z \in (SUBSET S) \ {{}} |-> first(z)]
           add(c, acc) == addContext(acc, update(c, direc), pd[c])
           step == [z \in S \X Info |-> add(z[1], z[2])]
           Is(h) == h = [z \in SUBSET S |-> IF z = {} THEN BOTTOM ELSE add(first(z), h[z \ {first(z)}])]
<1>1. IsFiniteSet(S) /\ BOTTOM \in Info
  BY InfoType
<1>2. \A z \in (SUBSET S) \ {{}} : first(z) \in z
  OBVIOUS
<1>3. ASSUME NEW c \in S, NEW acc \in Info
      PROVE  /\ add(c, acc) \in Info /\ DOMAIN add(c, acc) = DOMAIN acc \cup {to[c]}
             /\ \A x \in DOMAIN acc : x # to[c] => add(c, acc)[x] = acc[x]
             /\ to[c] \notin DOMAIN acc => add(c, acc)[to[c]] = pd[c]
  <2>1. add(c, acc) = addContext(acc, to[c], pd[c])
    BY <1>0
  <2>2. pd[c] \in SUBSET Value /\ to[c] \in Seq(Token)
    BY <1>0, InfoType
  <2> HIDE DEF add
  <2> DEFINE u == to[c]
             a == pd[c]
  <2> HIDE DEF u, a
  <2>3. u \in Seq(Token) /\ a \in SUBSET Value /\ add(c, acc) = addContext(acc, u, a)
    BY <2>1, <2>2 DEF u, a
  <2>4. ContextAdded(add(c, acc), acc, u, a)
    BY <2>3, AddContext
  <2>5. QED
    BY <2>4 DEF u, a, ContextAdded
<1>4. step \in [S \X Info -> Info]
  <2> HIDE DEF add, S
  <2>1. QED
    BY <1>3
<1>5. pick \in [(SUBSET S) \ {{}} -> S] /\ \A z \in (SUBSET S) \ {{}} : pick[z] \in z
  <2> HIDE DEF first
  <2>1. QED
    BY <1>2
<1>6. PICK h : IsFold(h, S, Info, BOTTOM, step, pick)
  <2> HIDE DEF step, pick, S
  <2>1. QED
    BY <1>1, <1>4, <1>5, FoldExists
<1>7. Is(h)
  <2> HIDE DEF add, S, first
  <2>1. h \in [SUBSET S -> Info]
    BY <1>6 DEF IsFold
  <2>2. ASSUME NEW z \in SUBSET S
        PROVE  h[z] = IF z = {} THEN BOTTOM ELSE add(first(z), h[z \ {first(z)}])
    <3>1. CASE z = {}
      BY <3>1, <1>6 DEF IsFold
    <3>2. CASE z # {}
      <4>1. pick[z] = first(z) /\ first(z) \in S /\ z \ {first(z)} \in SUBSET S
        BY <3>2, <1>2
      <4>2. h[z] = step[<<pick[z], h[z \ {pick[z]}]>>]
        <5> HIDE DEF step, pick
        <5>1. QED
          BY <3>2, <1>6 DEF IsFold
      <4> DEFINE x == first(z)
                 v == h[z \ {first(z)}]
      <4>3. x \in S /\ v \in Info
        BY <4>1, <2>1
      <4> HIDE DEF x, v
      <4>4. step[<<x, v>>] = add(x, v)
        BY <4>3
      <4> HIDE DEF step, pick
      <4>5. QED
        BY <4>1, <4>2, <4>4, <3>2 DEF x, v
    <3>3. QED
      BY <3>1, <3>2
  <2>3. QED
    BY <2>1, <2>2
<1>8. updateContexts(pd, direc) = (CHOOSE h0 : Is(h0))[S]
  BY DEF updateContexts, FoldSet, MapThenFoldSet
<1>9. PICK h0 : Is(h0) /\ updateContexts(pd, direc) = h0[S]
  <2> HIDE DEF Is
  <2>1. Is(CHOOSE h0 : Is(h0))
    BY <1>7
  <2>2. QED
    BY <2>1, <1>8
<1> DEFINE Image(T, q) == /\ q \in Info /\ DOMAIN q = {to[c] : c \in T}
                          /\ \A c \in T : q[to[c]] = pd[c]
           G == {T \in SUBSET S : Image(T, h0[T])}
<1>10. {} \in G
  <2>1. h0[{}] = BOTTOM
    BY <1>9
  <2>2. Image({}, BOTTOM)
    BY InfoType
  <2> HIDE DEF Image
  <2>3. QED
    BY <2>1, <2>2
<1>11. ASSUME NEW T \in SUBSET S, T # {}, \A x \in T : T \ {x} \in G PROVE T \in G
  <2> DEFINE x == first(T)
             R == T \ {x}
             q == h0[R]
  <2>1. x \in T /\ h0[T] = add(x, q)
    <3>1. x \in T
      BY <1>2, <1>11
    <3> HIDE DEF add, first
    <3>2. QED
      BY <3>1, <1>9, <1>11
  <2>2. Image(R, q)
    <3> HIDE DEF Image, x
    <3>1. QED
      BY <2>1, <1>11
  <2> HIDE DEF x, q, add
  <2>3. to[x] \notin DOMAIN q
    BY <2>1, <2>2, <1>0
  <2>4. /\ add(x, q) \in Info /\ DOMAIN add(x, q) = DOMAIN q \cup {to[x]}
        /\ \A y \in DOMAIN q : y # to[x] => add(x, q)[y] = q[y]
        /\ add(x, q)[to[x]] = pd[x]
    BY <2>1, <2>2, <2>3, <1>3
  <2>5. DOMAIN add(x, q) = {to[c] : c \in T}
    BY <2>1, <2>2, <2>4
  <2>6. \A c \in T : add(x, q)[to[c]] = pd[c]
    <3> SUFFICES ASSUME NEW c \in T PROVE add(x, q)[to[c]] = pd[c]
      OBVIOUS
    <3>1. CASE c = x
      BY <3>1, <2>4
    <3>2. CASE c # x
      <4>1. c \in R /\ to[c] # to[x] /\ c \in S /\ x \in S
        BY <3>2, <2>1, <1>0
      <4>2. to[c] \in DOMAIN q /\ q[to[c]] = pd[c]
        BY <4>1, <2>2
      <4>3. QED
        BY <4>1, <4>2, <2>4
    <3>3. QED
      BY <3>1, <3>2
  <2>7. Image(T, h0[T])
    BY <2>1, <2>4, <2>5, <2>6
  <2> HIDE DEF Image
  <2>8. QED
    BY <2>7
<1>12. S \in G
  <2> HIDE DEF G, S
  <2>1. QED
    BY <1>1, <1>10, <1>11, SubsetInduction
<1>13. QED
  BY <1>9, <1>12 DEF Renamed

\* The maps of the driver, as its methods see them.
Maps == [mbb |-> mbb2anainfo, funcIn |-> funcIn, funcOut |-> funcOut, worklist |-> worklist]

\* The types of the driver's maps.
MapsTyped == /\ mbb2anainfo \in [MBB -> Info]
             /\ funcIn \in [Functions -> Info] /\ funcOut \in [Functions -> Info]
             /\ worklist \in SUBSET (MBB \X Seq(Token))

\* Information for the same contexts.
LEMMA InfoMap ==
    ASSUME NEW pd \in Info, NEW q \in [DOMAIN pd -> SUBSET Value]
    PROVE  q \in Info
<1>1. DOMAIN pd \in {C \in SUBSET Seq(Token) : IsFiniteSet(C)}
  BY InfoType
<1>2. QED
  BY <1>1 DEF Info

\* Nothing is known behind an instruction that does not fall through.
Ends(instr) == instr.op \in {"goto", "jumptable"} \/ (instr.op = "return" /\ ~ isPredicated(instr))

\* q is the information behind instruction i if pd is that before it.
Behind(q, pd, i) ==
    LET instr == InstrAt(i)
    IN /\ Ends(instr) => q = BOTTOM
       /\ ~ Ends(instr) =>
             /\ DOMAIN q = DOMAIN pd
             /\ \A c \in DOMAIN pd :
                   /\ instr.op = "plain" => q[c] = transferInstr(instr, pd[c])
                   /\ instr.op = "external" => q[c] = IF pd[c] = {} THEN {} ELSE TOP
                   /\ instr.op = "call" => q[c] = IF pd[c] = {} THEN {} ELSE Returned(Maps, i, c)
                   /\ instr.op \in {"branch", "return"} => q[c] = guardNotTaken(instr, pd[c])

\* A call in the results: contexts change before it and back after it.
LEMMA TreeCall ==
    ASSUME MapsTyped, NEW pd \in Info, NEW i \in Instrs, InstrAt(i).op = "call"
    PROVE  treeInstruction(pd, i) \in Info /\ Behind(treeInstruction(pd, i), pd, i)
<1> DEFINE f == InstrAt(i).callee
           before == getDirectiveBeforeInstr(i)
           after == getDirectiveAfterInstr(i)
           q1 == updateContexts(pd, before)
           q2 == treeCall(q1, f)
           q3 == updateContexts(q2, after)
           to1 == [c \in DOMAIN pd |-> update(c, before)]
           to2 == [d \in DOMAIN q2 |-> update(d, after)]
<1>1. treeInstruction(pd, i) = q3
  BY DEF treeInstruction
<1>2. \A c \in DOMAIN pd : c \in Seq(Token) /\ pd[c] \in SUBSET Value
  BY InfoType
<1>3. \A c \in DOMAIN pd : update(c, before) \in Seq(Token) /\ update(update(c, before), after) = c
  BY <1>2, AroundCall
<1> HIDE DEF before, after
<1>4. /\ to1 \in [DOMAIN pd -> Seq(Token)]
      /\ \A c \in DOMAIN pd : to1[c] = update(c, before)
      /\ \A c, d \in DOMAIN pd : to1[c] = to1[d] => c = d
  BY <1>3
<1> HIDE DEF to1
<1>5. q1 \in Info /\ DOMAIN q1 = {to1[c] : c \in DOMAIN pd} /\ \A c \in DOMAIN pd : q1[to1[c]] = pd[c]
  <2>1. Renames(to1, pd, before)
    BY <1>4 DEF Renames
  <2>2. Renamed(q1, pd, to1)
    BY <2>1, UpdateContexts
  <2>3. QED
    BY <2>2 DEF Renamed
<1> HIDE DEF q1
<1>6. f \in Functions /\ funcOut[f] \in Info
  BY Instructions DEF MapsTyped
<1>7. q2 = [d \in DOMAIN q1 |-> IF q1[d] = {} THEN {} ELSE findAnalysisInfoEarly(funcOut[f], reduceOnCall(d))]
  BY DEF treeCall
<1>8. \A x : findAnalysisInfoEarly(funcOut[f], x) \in SUBSET Value
  BY <1>6, InfoType DEF findAnalysisInfoEarly
<1> HIDE DEF q2
<1>9. q2 \in [DOMAIN q1 -> SUBSET Value] /\ q2 \in Info
  <2>1. q2 \in [DOMAIN q1 -> SUBSET Value]
    BY <1>7, <1>8
  <2>2. QED
    BY <2>1, <1>5, InfoMap
<1>10. DOMAIN q2 = {to1[c] : c \in DOMAIN pd}
  BY <1>5, <1>7
<1>11. /\ to2 \in [DOMAIN q2 -> Seq(Token)]
       /\ \A d \in DOMAIN q2 : to2[d] = update(d, after)
       /\ \A c \in DOMAIN pd : to2[to1[c]] = c
       /\ \A d, e \in DOMAIN q2 : to2[d] = to2[e] => d = e
  <2>1. \A c \in DOMAIN pd : update(to1[c], after) = c
    BY <1>3, <1>4
  <2>2. \A d \in DOMAIN q2 : \E c \in DOMAIN pd : d = to1[c]
    BY <1>10
  <2>3. \A c \in DOMAIN pd : to1[c] \in DOMAIN q2
    BY <1>10
  <2>4. \A d \in DOMAIN q2 : update(d, after) \in Seq(Token)
    BY <2>1, <2>2, <1>2
  <2>5. QED
    BY <2>1, <2>2, <2>3, <2>4
<1> HIDE DEF to2
<1>12. q3 \in Info /\ DOMAIN q3 = {to2[d] : d \in DOMAIN q2} /\ \A d \in DOMAIN q2 : q3[to2[d]] = q2[d]
  <2>1. Renames(to2, q2, after)
    BY <1>11 DEF Renames
  <2>2. Renamed(q3, q2, to2)
    BY <2>1, <1>9, UpdateContexts
  <2>3. QED
    BY <2>2 DEF Renamed
<1> HIDE DEF q3
<1>13. DOMAIN q3 = DOMAIN pd
  <2>1. \A c \in DOMAIN pd : to1[c] \in DOMAIN q2 /\ to2[to1[c]] = c
    BY <1>10, <1>11
  <2>2. \A d \in DOMAIN q2 : \E c \in DOMAIN pd : d = to1[c]
    BY <1>10
  <2>3. DOMAIN pd \subseteq DOMAIN q3
    BY <2>1, <1>12
  <2>4. DOMAIN q3 \subseteq DOMAIN pd
    BY <2>1, <2>2, <1>12
  <2>5. QED
    BY <2>3, <2>4
<1>14. ASSUME NEW c \in DOMAIN pd PROVE q3[c] = IF pd[c] = {} THEN {} ELSE Returned(Maps, i, c)
  <2>1. to1[c] \in DOMAIN q2 /\ to1[c] \in DOMAIN q1 /\ to2[to1[c]] = c
    BY <1>5, <1>10, <1>11
  <2>2. q3[c] = q2[to1[c]]
    BY <2>1, <1>12
  <2>3. q2[to1[c]] = IF pd[c] = {} THEN {} ELSE findAnalysisInfoEarly(funcOut[f], reduceOnCall(to1[c]))
    BY <2>1, <1>5, <1>7
  <2>4. Returned(Maps, i, c) = findAnalysisInfoEarly(funcOut[f], reduceOnCall(to1[c]))
    <3>1. Maps.funcOut = funcOut
      BY DEF Maps
    <3>2. to1[c] = update(c, getDirectiveBeforeInstr(i))
      BY <1>4 DEF before
    <3>3. QED
      BY <3>1, <3>2 DEF Returned, CallContext
  <2>5. QED
    BY <2>2, <2>3, <2>4
<1>15. QED
  BY <1>1, <1>12, <1>13, <1>14 DEF Behind, Ends

\* An instruction in the results.
LEMMA TreeInstruction ==
    ASSUME MapsTyped, NEW pd \in Info, NEW i \in Instrs
    PROVE  treeInstruction(pd, i) \in Info /\ Behind(treeInstruction(pd, i), pd, i)
<1> DEFINE instr == InstrAt(i)
           q == treeInstruction(pd, i)
<1>1. /\ instr.op \in {"plain", "call", "external", "branch", "goto", "jumptable", "return"}
      /\ instr.op = "plain" => instr.effect \in [Value -> Value]
  BY Instructions
<1>2. \A c \in DOMAIN pd : pd[c] \in SUBSET Value
  BY InfoType
<1>3. CASE instr.op = "call"
  BY <1>3, TreeCall
<1> HIDE DEF instr
<1>4. CASE instr.op = "plain"
  <2>1. q = [c \in DOMAIN pd |-> transferInstr(instr, pd[c])]
    BY <1>4 DEF treeInstruction, instr
  <2>2. \A c \in DOMAIN pd : transferInstr(instr, pd[c]) \in SUBSET Value
    BY <1>1, <1>2, <1>4 DEF transferInstr
  <2> HIDE DEF q
  <2>3. q \in [DOMAIN pd -> SUBSET Value] /\ \A c \in DOMAIN pd : q[c] = transferInstr(instr, pd[c])
    BY <2>1, <2>2
  <2>4. q \in Info
    BY <2>3, InfoMap
  <2>5. QED
    BY <2>3, <2>4, <1>4 DEF Behind, Ends, instr, q
<1>5. CASE instr.op = "external"
  <2>1. q = [c \in DOMAIN pd |-> IF pd[c] = {} THEN {} ELSE TOP]
    BY <1>5 DEF treeInstruction, instr
  <2> HIDE DEF q
  <2>2. TOP \in SUBSET Value
    BY DEF TOP
  <2>3. q \in [DOMAIN pd -> SUBSET Value] /\ \A c \in DOMAIN pd : q[c] = IF pd[c] = {} THEN {} ELSE TOP
    BY <2>1, <2>2
  <2>4. q \in Info
    BY <2>3, InfoMap
  <2>5. QED
    BY <2>3, <2>4, <1>5 DEF Behind, Ends, instr, q
<1>6. CASE instr.op = "branch" \/ (instr.op = "return" /\ isPredicated(instr))
  <2>1. q = [c \in DOMAIN pd |-> guardNotTaken(instr, pd[c])]
    BY <1>6 DEF treeInstruction, instr
  <2>2. \A c \in DOMAIN pd : guardNotTaken(instr, pd[c]) \in SUBSET Value
    BY <1>2 DEF guardNotTaken
  <2> HIDE DEF q
  <2>3. q \in [DOMAIN pd -> SUBSET Value] /\ \A c \in DOMAIN pd : q[c] = guardNotTaken(instr, pd[c])
    BY <2>1, <2>2
  <2>4. q \in Info
    BY <2>3, InfoMap
  <2>5. QED
    BY <2>3, <2>4, <1>6 DEF Behind, Ends, instr, q
<1>7. CASE Ends(instr)
  <2>1. q = BOTTOM
    BY <1>7 DEF treeInstruction, instr, Ends
  <2> HIDE DEF q
  <2>2. q \in Info
    BY <2>1, InfoType
  <2>3. QED
    BY <2>1, <2>2, <1>7 DEF Behind, instr, q
<1>8. QED
  BY <1>1, <1>3, <1>4, <1>5, <1>6, <1>7 DEF Ends, instr

\* "g" is the information in the results from the entry of block b up to its
\* k-th instruction.
TreePath(b, k, g) ==
    /\ g \in [0 .. (k - 1) -> Info]
    /\ g[0] = mbb2anainfo[b] /\ g[k - 1] = infoBefore(b, k)
    /\ \A j \in 1 .. (k - 1) : g[j] = treeInstruction(g[j - 1], <<b, j>>)

\* The results are computed instruction by instruction.
LEMMA InfoPath ==
    ASSUME MapsTyped, NEW b \in MBB, NEW k \in 1 .. Size(b)
    PROVE  \E g : TreePath(b, k, g)
<1> DEFINE n == k - 1
           part == SubSeq(Blocks[b].instrs, 1, k - 1)
           seq == [i \in DOMAIN part |-> i]
           base == mbb2anainfo[b]
           step(acc, j) == treeInstruction(acc, <<b, j>>)
           next == [z \in (1 .. n) \X Info |-> step(z[2], z[1])]
           Is(h) == h = [z \in SUBSET DOMAIN seq |-> IF z = {} THEN base ELSE step(h[z \ {Max(z)}], seq[Max(z)])]
<1>1. n \in Nat /\ DOMAIN part = 1 .. n /\ \A j \in 1 .. n : <<b, j>> \in Instrs
  <2>1. Size(b) \in Nat /\ DOMAIN Blocks[b].instrs = 1 .. Size(b) /\ \A j \in 1 .. Size(b) : <<b, j>> \in Instrs
    BY Positions
  <2>2. QED
    BY <2>1
<1>2. ASSUME NEW j \in 1 .. n, NEW acc \in Info PROVE step(acc, j) \in Info
  BY <1>1, TreeInstruction
<1>3. next \in [(1 .. n) \X Info -> Info]
  <2> HIDE DEF step, n
  <2>1. QED
    BY <1>2
<1>4. base \in Info
  BY DEF MapsTyped
<1>5. PICK h : IsFoldLeft(h, n, Info, base, next)
  <2> HIDE DEF base, next, n
  <2>1. QED
    BY <1>1, <1>3, <1>4, FoldLeftExists
<1>6. DOMAIN seq = 1 .. n /\ \A j \in 1 .. n : seq[j] = j
  <2> HIDE DEF part, n
  <2>1. QED
    BY <1>1
<1>7. \A z \in (SUBSET (1 .. n)) \ {{}} : Max(z) \in z
  BY <1>1, LastPositions
<1>8. Is(h)
  <2> HIDE DEF step, base, n, seq
  <2>1. h \in [SUBSET (1 .. n) -> Info]
    BY <1>5 DEF IsFoldLeft
  <2>2. ASSUME NEW z \in SUBSET (1 .. n)
        PROVE  h[z] = IF z = {} THEN base ELSE step(h[z \ {Max(z)}], seq[Max(z)])
    <3>1. CASE z = {}
      BY <3>1, <1>5 DEF IsFoldLeft
    <3>2. CASE z # {}
      <4> DEFINE m == Max(z)
                 v == h[z \ {Max(z)}]
      <4>1. m \in 1 .. n /\ v \in Info /\ seq[m] = m
        BY <3>2, <1>6, <1>7, <2>1
      <4>2. h[z] = next[<<m, v>>]
        <5> HIDE DEF next
        <5>1. QED
          BY <3>2, <1>5 DEF IsFoldLeft
      <4> HIDE DEF m, v
      <4>3. next[<<m, v>>] = step(v, m)
        BY <4>1
      <4> HIDE DEF next
      <4>4. h[z] = step(v, seq[m])
        BY <4>1, <4>2, <4>3
      <4>5. QED
        BY <4>4, <3>2 DEF m, v
    <3>3. QED
      BY <3>1, <3>2
  <2>3. QED
    BY <2>1, <2>2, <1>6
<1>9. infoBefore(b, k) = (CHOOSE h0 : Is(h0))[DOMAIN seq]
  BY DEF infoBefore, FoldLeftDomain, FoldLeft, MapThenFoldSet
<1>10. PICK h0 : Is(h0) /\ infoBefore(b, k) = h0[DOMAIN seq]
  <2> HIDE DEF Is
  <2>1. Is(CHOOSE h0 : Is(h0))
    BY <1>8
  <2>2. QED
    BY <2>1, <1>9
<1>11. h0[{}] = base /\ \A j \in 1 .. n : h0[1 .. j] = step(h0[1 .. (j - 1)], j)
  <2> HIDE DEF step, base, n, seq
  <2>1. h0[{}] = base
    BY <1>10
  <2>2. ASSUME NEW j \in 1 .. n PROVE h0[1 .. j] = step(h0[1 .. (j - 1)], j)
    <3>1. 1 .. j \subseteq 1 .. n /\ j \in 1 .. j
      BY <1>1
    <3>2. Max(1 .. j) = j /\ (1 .. j) \ {j} = 1 .. (j - 1)
      BY <1>1, LastPositions
    <3> DEFINE z == 1 .. j
    <3>3. z \in SUBSET DOMAIN seq /\ z # {}
      BY <3>1, <1>6
    <3> HIDE DEF z
    <3>4. h0[z] = step(h0[z \ {Max(z)}], seq[Max(z)])
      BY <3>3, <1>10
    <3>5. QED
      BY <3>2, <3>4, <1>6 DEF z
  <2>3. QED
    BY <2>1, <2>2
<1> DEFINE G == {j \in Nat : j <= n => h0[1 .. j] \in Info}
<1>12. 0 \in G
  <2>1. h0[1 .. 0] = base
    BY <1>11
  <2>2. QED
    BY <2>1, <1>4
<1>13. ASSUME NEW j \in Nat, j \in G PROVE j + 1 \in G
  <2> SUFFICES ASSUME j + 1 <= n PROVE h0[1 .. (j + 1)] \in Info
    OBVIOUS
  <2>1. j <= n /\ j + 1 \in 1 .. n /\ (j + 1) - 1 = j
    BY <1>1
  <2>2. h0[1 .. j] \in Info
    BY <2>1, <1>13
  <2> HIDE DEF step, n, Is
  <2>3. QED
    BY <2>1, <2>2, <1>2, <1>11
<1>14. Nat \subseteq G
  <2> HIDE DEF G
  <2>1. QED
    BY <1>12, <1>13, NatInductionOn
<1> DEFINE g == [j \in 0 .. (k - 1) |-> h0[1 .. j]]
<1>15. g \in [0 .. (k - 1) -> Info]
  BY <1>14
<1>16. g[0] = mbb2anainfo[b]
  <2>1. 1 .. 0 = {} /\ 0 \in 0 .. (k - 1)
    OBVIOUS
  <2>2. QED
    BY <2>1, <1>11
<1>17. g[k - 1] = infoBefore(b, k)
  <2>1. k - 1 \in 0 .. (k - 1)
    OBVIOUS
  <2> HIDE DEF Is, seq
  <2>2. QED
    BY <2>1, <1>6, <1>10
<1>18. ASSUME NEW j \in 1 .. (k - 1) PROVE g[j] = treeInstruction(g[j - 1], <<b, j>>)
  <2>1. j \in 0 .. (k - 1) /\ j - 1 \in 0 .. (k - 1)
    OBVIOUS
  <2>2. g[j] = h0[1 .. j] /\ g[j - 1] = h0[1 .. (j - 1)]
    BY <2>1
  <2> HIDE DEF g, Is
  <2>3. QED
    BY <2>2, <1>11
<1>19. QED
  <2> HIDE DEF g
  <2>1. QED
    BY <1>15, <1>16, <1>17, <1>18 DEF TreePath

\* The results agree with the analysis of the block in its contexts, if "outs"
\* is the information that this analysis has computed in each of them.
Agrees(q, b, k, outs) ==
    /\ q \in Info /\ DOMAIN q \subseteq DOMAIN mbb2anainfo[b]
    /\ \A c \in DOMAIN q : q[c] = outs[c][k]
    /\ \A c \in DOMAIN mbb2anainfo[b] : outs[c][k] # {} => c \in DOMAIN q

\* "outs" is the information in block b, for every context of it.
Solved(b, outs) == \A c \in DOMAIN mbb2anainfo[b] : Flow(Maps, b, c, Size(b), outs[c])

\* One more instruction.
LEMMA AgreesNext ==
    ASSUME MapsTyped, NEW b \in MBB, NEW outs, Solved(b, outs),
           NEW k \in 1 .. Size(b), NEW q \in Info, Agrees(q, b, k, outs)
    PROVE  Agrees(treeInstruction(q, <<b, k>>), b, k + 1, outs)
<1> DEFINE i == <<b, k>>
           instr == InstrAt(i)
           new == treeInstruction(q, i)
<1>1. i \in Instrs
  BY Positions
<1>2. instr.op \in {"plain", "call", "external", "branch", "goto", "jumptable", "return"}
  BY <1>1, Instructions
<1>3. new \in Info /\ Behind(new, q, i)
  BY <1>1, TreeInstruction
<1>4. ASSUME NEW c \in DOMAIN mbb2anainfo[b]
      PROVE  LET x == outs[c][k]
                 y == outs[c][k + 1]
             IN /\ instr.op = "plain" => y = transferInstr(instr, x)
                /\ instr.op = "external" => y = IF x = {} THEN {} ELSE TOP
                /\ instr.op = "call" => y = IF x = {} THEN {} ELSE Returned(Maps, i, c)
                /\ instr.op = "branch" => y = guardNotTaken(instr, x)
                /\ instr.op \in {"goto", "jumptable"} => y = {}
                /\ instr.op = "return" => y = IF isPredicated(instr) THEN guardNotTaken(instr, x) ELSE {}
  <2>1. Stepped(Maps, b, c, k, outs[c][k], outs[c][k + 1])
    BY DEF Solved, Flow
  <2> HIDE DEF instr
  <2>2. QED
    BY <2>1 DEF Stepped, isBranch, instr
<1> HIDE DEF instr, new
<1>5. CASE Ends(instr)
  <2>1. new = BOTTOM
    BY <1>3, <1>5 DEF Behind, instr
  <2>2. \A c \in DOMAIN mbb2anainfo[b] : outs[c][k + 1] = {}
    BY <1>4, <1>5 DEF Ends
  <2>3. QED
    BY <2>1, <2>2, <1>3, InfoType DEF Agrees, new
<1>6. CASE ~ Ends(instr)
  <2>1. DOMAIN new = DOMAIN q
    BY <1>3, <1>6 DEF Behind, instr
  <2>2. ASSUME NEW c \in DOMAIN q PROVE new[c] = outs[c][k + 1]
    <3>1. c \in DOMAIN mbb2anainfo[b] /\ q[c] = outs[c][k]
      BY DEF Agrees
    <3>2. /\ instr.op = "plain" => new[c] = transferInstr(instr, q[c])
          /\ instr.op = "external" => new[c] = IF q[c] = {} THEN {} ELSE TOP
          /\ instr.op = "call" => new[c] = IF q[c] = {} THEN {} ELSE Returned(Maps, i, c)
          /\ instr.op \in {"branch", "return"} => new[c] = guardNotTaken(instr, q[c])
      BY <1>3, <1>6 DEF Behind, instr
    <3>3. QED
      BY <3>1, <3>2, <1>2, <1>4, <1>6 DEF Ends
  <2>3. ASSUME NEW c \in DOMAIN mbb2anainfo[b], outs[c][k + 1] # {} PROVE c \in DOMAIN q
    <3>1. SUFFICES ASSUME outs[c][k] = {} PROVE FALSE
      BY DEF Agrees
    <3>2. transferInstr(instr, {}) = {} /\ guardNotTaken(instr, {}) = {}
      BY DEF transferInstr, guardNotTaken
    <3>3. QED
      BY <3>1, <3>2, <2>3, <1>2, <1>4
  <2>4. QED
    BY <2>1, <2>2, <2>3, <1>3 DEF Agrees, new
<1>7. QED
  BY <1>5, <1>6

\* The results before an instruction.
LEMMA InfoBefore ==
    ASSUME MapsTyped, NEW b \in MBB, NEW k \in 1 .. Size(b), NEW outs, Solved(b, outs)
    PROVE  Agrees(infoBefore(b, k), b, k, outs)
<1>1. PICK g : TreePath(b, k, g)
  BY InfoPath
<1> DEFINE G == {j \in Nat : j <= k - 1 => Agrees(g[j], b, j + 1, outs)}
<1>2. Size(b) \in Nat
  BY Positions
<1>3. 0 \in G
  <2>1. g[0] = mbb2anainfo[b] /\ mbb2anainfo[b] \in Info
    BY <1>1 DEF TreePath, MapsTyped
  <2>2. \A c \in DOMAIN mbb2anainfo[b] : outs[c][1] = mbb2anainfo[b][c]
    BY DEF Solved, Flow, Maps
  <2>3. Agrees(g[0], b, 1, outs)
    BY <2>1, <2>2 DEF Agrees
  <2>4. QED
    BY <2>3
<1>4. ASSUME NEW j \in Nat, j \in G PROVE j + 1 \in G
  <2> SUFFICES ASSUME j + 1 <= k - 1 PROVE Agrees(g[j + 1], b, (j + 1) + 1, outs)
    OBVIOUS
  <2>1. j + 1 \in 1 .. (k - 1) /\ j \in 0 .. (k - 1) /\ (j + 1) - 1 = j /\ j + 1 \in 1 .. Size(b)
    BY <1>2
  <2>2. Agrees(g[j], b, j + 1, outs)
    BY <2>1, <1>4
  <2>3. g[j + 1] = treeInstruction(g[j], <<b, j + 1>>) /\ g[j] \in Info
    BY <2>1, <1>1 DEF TreePath
  <2> DEFINE m == j + 1
             q == g[j]
  <2> HIDE DEF m, q
  <2>4. Agrees(treeInstruction(q, <<b, m>>), b, m + 1, outs)
    BY <2>1, <2>2, <2>3, AgreesNext DEF m, q
  <2>5. QED
    BY <2>3, <2>4 DEF m, q
<1>5. k - 1 \in G
  <2> HIDE DEF G
  <2>1. Nat \subseteq G
    BY <1>3, <1>4, NatInductionOn
  <2>2. QED
    BY <2>1, <1>2
<1>6. Agrees(g[k - 1], b, (k - 1) + 1, outs) /\ g[k - 1] = infoBefore(b, k)
  BY <1>1, <1>5 DEF TreePath
<1>7. (k - 1) + 1 = k
  BY <1>2
<1>8. QED
  BY <1>6, <1>7

-----------------------------------------------------------------------------
(* The iteration.                                                          *)

\* Every block has been analysed with what it reads, except those that wait.
Consistent(s) ==
    \A b \in MBB : \A c \in DOMAIN s.mbb[b] : <<b, c>> \notin s.worklist => Stable(s, b, c)

\* The maps stay consistent if information is added that no block reads, and
\* nothing else.
LEMMA ConsistentStays ==
    ASSUME NEW s, NEW t, LargerMaps(s, t), Consistent(s),
           NEW b \in MBB, NEW c \in DOMAIN s.mbb[b], <<b, c>> \notin s.worklist, SameInput(s, t, b, c)
    PROVE  Stable(t, b, c)
<1>1. Stable(s, b, c)
  BY DEF Consistent
<1>2. QED
  BY <1>1, StableStays

\* What the maps of a state say does not depend on the rest of it.
LEMMA SameMaps ==
    ASSUME NEW s, NEW t, t.mbb = s.mbb, t.funcIn = s.funcIn, t.funcOut = s.funcOut,
           t.worklist = s.worklist, Placed(s), Consistent(s)
    PROVE  Placed(t) /\ Consistent(t)
<1>1. Grown(s, t) /\ Placed(t)
  BY GrownSame
<1>2. ASSUME NEW b \in MBB, NEW c \in DOMAIN t.mbb[b], <<b, c>> \notin t.worklist
      PROVE  Stable(t, b, c)
  <2>1. LargerMaps(s, t) /\ SameInput(s, t, b, c)
    BY <1>1, <1>2 DEF Grown
  <2>2. QED
    BY <2>1, <1>2, ConsistentStays
<1>3. QED
  BY <1>1, <1>2 DEF Consistent

\* The state in which the analysis of block b begins in context c.
Begun(s, b, c) ==
    /\ s \in State /\ Placed(s) /\ s.ctx = c
    /\ c \in DOMAIN s.mbb[b] /\ s.newOut = s.mbb[b][c]
    /\ LargerMaps(Maps, s)
    /\ s.worklist = worklist \ {<<b, c>>}
    /\ \A x \in MBB : \A d \in DOMAIN s.mbb[x] :
          <<x, d>> # <<b, c>> => SameInput(Maps, s, x, d)

\* A block that is not an entry begins with its own information.
LEMMA BeginInside ==
    ASSUME MapsTyped, Placed(Maps), NEW b \in MBB, NEW c, <<b, c>> \in worklist, ~ isEntry(b),
           NEW s, s = [ctx |-> c, newOut |-> findAnalysisInfo(mbb2anainfo[b], c), mbb |-> mbb2anainfo,
                       funcIn |-> funcIn, funcOut |-> funcOut, worklist |-> worklist \ {<<b, c>>}]
    PROVE  Begun(s, b, c)
<1>1. /\ Maps.mbb = mbb2anainfo /\ Maps.funcIn = funcIn /\ Maps.funcOut = funcOut /\ Maps.worklist = worklist
      /\ s.mbb = mbb2anainfo /\ s.funcIn = funcIn /\ s.funcOut = funcOut /\ s.worklist = worklist \ {<<b, c>>}
      /\ s.ctx = c /\ s.newOut = findAnalysisInfo(mbb2anainfo[b], c)
  BY DEF Maps
<1>2. c \in DOMAIN mbb2anainfo[b] /\ c \in Seq(Token)
  <2>1. c \in DOMAIN mbb2anainfo[b]
    BY <1>1 DEF Placed
  <2>2. QED
    BY <2>1 DEF MapsTyped
<1>3. s.newOut = mbb2anainfo[b][c] /\ mbb2anainfo[b][c] \in SUBSET Value
  <2>1. mbb2anainfo[b] \in Info
    BY DEF MapsTyped
  <2>2. QED
    BY <2>1, <1>1, <1>2, InfoType DEF findAnalysisInfo, isBottom
<1>4. s \in State
  <2> DEFINE v == s.newOut
             w == worklist \ {<<b, c>>}
  <2>1. v \in SUBSET Value /\ w \in SUBSET (MBB \X Seq(Token))
    BY <1>3 DEF MapsTyped
  <2>2. s = [ctx |-> c, newOut |-> v, mbb |-> mbb2anainfo, funcIn |-> funcIn, funcOut |-> funcOut,
             worklist |-> w]
    BY <1>1
  <2> HIDE DEF v, w
  <2>3. QED
    BY <2>1, <2>2, <1>2 DEF State, MapsTyped
<1>5. LargerMaps(Maps, s)
  BY <1>1, LargerOrder DEF LargerMaps
<1>6. \A x, d : d \in DOMAIN s.mbb[x] => SameInput(Maps, s, x, d)
  BY <1>1 DEF SameInput, Returned
<1>7. Placed(s)
  <2>1. \A x, d : Reached(Maps, x, d) => Reached(s, x, d)
    BY <1>1 DEF Reached
  <2>2. ASSUME NEW f \in Functions, NEW r \in DOMAIN s.funcIn[f] PROVE Entered(s, f, r)
    <3>1. Entered(Maps, f, r)
      BY <1>1 DEF Placed
    <3>2. EntryBlock(f) # b
      BY Entries
    <3>3. QED
      BY <3>1, <3>2, <1>1 DEF Entered
  <2>3. \A f \in Functions : \A r \in DOMAIN s.funcOut[f] : Called(f, r)
    BY <1>1 DEF Placed
  <2>4. QED
    BY <2>1, <2>2, <2>3, <1>1 DEF Placed
<1>8. QED
  BY <1>1, <1>2, <1>3, <1>4, <1>5, <1>6, <1>7 DEF Begun

\* An entry block begins with the information of the calls added to its own.
LEMMA BeginEntry ==
    ASSUME MapsTyped, Placed(Maps), NEW b \in MBB, NEW c, <<b, c>> \in worklist, isEntry(b),
           NEW new, new = enterFunction(mbb2anainfo, b, c),
           NEW s, s = [ctx |-> c, newOut |-> findAnalysisInfo(new[b], c), mbb |-> new,
                       funcIn |-> funcIn, funcOut |-> funcOut, worklist |-> worklist \ {<<b, c>>}]
    PROVE  Begun(s, b, c)
<1> DEFINE f == Blocks[b].func
           r == Front(c)
           ana == findAnalysisInfo(funcIn[f], r)
<1>1. /\ Maps.mbb = mbb2anainfo /\ Maps.funcIn = funcIn /\ Maps.funcOut = funcOut /\ Maps.worklist = worklist
      /\ s.mbb = new /\ s.funcIn = funcIn /\ s.funcOut = funcOut /\ s.worklist = worklist \ {<<b, c>>}
      /\ s.ctx = c /\ s.newOut = findAnalysisInfo(new[b], c)
  BY DEF Maps
<1>2. Reached(Maps, b, c)
  BY <1>1 DEF Placed
<1>3. r \in DOMAIN funcIn[f] /\ calleeContext(r, f) = c /\ c \in Seq(Token) /\ f \in Functions /\ EntryBlock(f) = b
  <2>1. PICK p : InCall(b, p, c)
    BY <1>2 DEF Reached
  <2>2. r \in DOMAIN funcIn[f]
    BY <1>1, <1>2 DEF Reached
  <2>3. QED
    BY <2>1, <2>2, EntryContext, Entries DEF InCall
<1>4. ana = funcIn[f][r] /\ ana \in SUBSET Value
  <2>1. funcIn[f] \in Info
    BY <1>3 DEF MapsTyped
  <2>2. QED
    BY <2>1, <1>3, InfoType DEF findAnalysisInfo, isBottom
<1>5. IsAdded(new, mbb2anainfo, b, c, ana)
  BY DEF enterFunction, IsAdded
<1> HIDE DEF ana, r
<1>6. Added(new, mbb2anainfo, MBB, b, c, ana)
  BY <1>3, <1>4, <1>5, AddToMap DEF MapsTyped
<1>7. /\ new \in [MBB -> Info]
      /\ \A y \in MBB : y # b => new[y] = mbb2anainfo[y]
      /\ DOMAIN new[b] = DOMAIN mbb2anainfo[b] \cup {c}
      /\ \A d \in DOMAIN mbb2anainfo[b] : d # c => new[b][d] = mbb2anainfo[b][d]
      /\ \A y \in MBB : Larger(mbb2anainfo[y], new[y])
      /\ ana \subseteq new[b][c]
  BY <1>6 DEF Added
<1>8. c \in DOMAIN new[b] /\ s.newOut = new[b][c] /\ new[b][c] \in SUBSET Value
  <2>1. new[b] \in Info
    BY <1>7
  <2>2. QED
    BY <2>1, <1>1, <1>7, InfoType DEF findAnalysisInfo, isBottom
<1>9. s \in State
  <2> DEFINE v == s.newOut
             w == worklist \ {<<b, c>>}
  <2>1. v \in SUBSET Value /\ w \in SUBSET (MBB \X Seq(Token))
    BY <1>8 DEF MapsTyped
  <2>2. s = [ctx |-> c, newOut |-> v, mbb |-> new, funcIn |-> funcIn, funcOut |-> funcOut, worklist |-> w]
    BY <1>1
  <2> HIDE DEF v, w
  <2>3. QED
    BY <2>1, <2>2, <1>3, <1>7 DEF State, MapsTyped
<1>10. LargerMaps(Maps, s)
  BY <1>1, <1>7, LargerOrder DEF LargerMaps
<1>11. ASSUME NEW x \in MBB, NEW d \in DOMAIN s.mbb[x], <<x, d>> # <<b, c>>
       PROVE  SameInput(Maps, s, x, d)
  <2>1. d \in DOMAIN mbb2anainfo[x] /\ new[x][d] = mbb2anainfo[x][d]
    BY <1>1, <1>7, <1>11
  <2>2. QED
    BY <2>1, <1>1 DEF SameInput, Returned
<1>12. Placed(s)
  <2>1. \A x, d : Reached(Maps, x, d) => Reached(s, x, d)
    BY <1>1 DEF Reached
  <2>2. ASSUME NEW x \in MBB, NEW d \in DOMAIN s.mbb[x] PROVE Reached(s, x, d)
    <3>1. d \in DOMAIN mbb2anainfo[x] \/ (x = b /\ d = c)
      BY <1>1, <1>7
    <3>2. QED
      BY <3>1, <2>1, <1>1, <1>2 DEF Placed
  <2>3. ASSUME NEW w \in s.worklist
        PROVE  Reached(s, w[1], w[2]) /\ (~ isEntry(w[1]) => w[2] \in DOMAIN s.mbb[w[1]])
    <3>1. w \in worklist /\ w[1] \in MBB
      BY <1>1 DEF MapsTyped
    <3>2. Reached(Maps, w[1], w[2]) /\ (~ isEntry(w[1]) => w[2] \in DOMAIN mbb2anainfo[w[1]])
      BY <3>1, <1>1 DEF Placed
    <3>3. QED
      BY <3>1, <3>2, <2>1, <1>1, <1>7 DEF Larger
  <2>4. ASSUME NEW g \in Functions, NEW q \in DOMAIN s.funcIn[g] PROVE Entered(s, g, q)
    <3> DEFINE e == EntryBlock(g)
               d == calleeContext(q, g)
    <3>1. <<e, d>> \in worklist \/ (d \in DOMAIN mbb2anainfo[e] /\ funcIn[g][q] \subseteq mbb2anainfo[e][d])
      BY <1>1 DEF Placed, Entered
    <3>2. e \in MBB /\ Blocks[e].func = g
      BY Entries
    <3>3. q \in Seq(Token) /\ Front(d) = q
      <4>1. funcIn[g] \in Info
        BY DEF MapsTyped
      <4>2. q \in Seq(Token)
        BY <4>1, <1>1, InfoType
      <4>3. QED
        BY <4>2, CalleeContext
    <3> HIDE DEF e, d
    <3>4. CASE e = b /\ d = c
      <4>1. g = f /\ q = r
        BY <3>2, <3>3, <3>4 DEF r
      <4>2. funcIn[g][q] \subseteq new[b][c]
        BY <4>1, <1>4, <1>7
      <4>3. QED
        BY <4>2, <3>4, <1>1, <1>8 DEF Entered, e, d
    <3>5. CASE ~ (e = b /\ d = c)
      <4>1. <<e, d>> \in s.worklist \/ (d \in DOMAIN s.mbb[e] /\ s.funcIn[g][q] \subseteq s.mbb[e][d])
        BY <3>1, <3>2, <3>5, <1>1, <1>7 DEF Larger
      <4>2. QED
        BY <4>1 DEF Entered, e, d
    <3>6. QED
      BY <3>4, <3>5
  <2>5. \A g \in Functions : \A q \in DOMAIN s.funcOut[g] : Called(g, q)
    BY <1>1 DEF Placed
  <2>6. QED
    BY <2>2, <2>3, <2>4, <2>5 DEF Placed
<1>13. QED
  BY <1>1, <1>8, <1>9, <1>10, <1>11, <1>12 DEF Begun

\* A turn of the loop is the analysis of a block.
LEMMA WorkBegins ==
    ASSUME MapsTyped, Placed(Maps), NEW b \in MBB, NEW c, <<b, c>> \in worklist
    PROVE  \E s : Begun(s, b, c) /\ analyseWorkItem(b, c) = analyseMachineBasicBlock(s, b)
<1> DEFINE new == enterFunction(mbb2anainfo, b, c)
           s == [ctx |-> c, newOut |-> findAnalysisInfo(new[b], c), mbb |-> new,
                 funcIn |-> funcIn, funcOut |-> funcOut, worklist |-> worklist \ {<<b, c>>}]
<1>1. analyseWorkItem(b, c) = analyseMachineBasicBlock(s, b)
  BY DEF analyseWorkItem
<1>2. Begun(s, b, c)
  <2>1. CASE isEntry(b)
    <3> HIDE DEF new
    <3>1. new = enterFunction(mbb2anainfo, b, c)
      BY DEF new
    <3>2. QED
      BY <3>1, <2>1, BeginEntry
  <2>2. CASE ~ isEntry(b)
    <3>1. new = mbb2anainfo
      BY <2>2 DEF enterFunction
    <3> HIDE DEF new
    <3>2. s = [ctx |-> c, newOut |-> findAnalysisInfo(mbb2anainfo[b], c), mbb |-> mbb2anainfo,
               funcIn |-> funcIn, funcOut |-> funcOut, worklist |-> worklist \ {<<b, c>>}]
      BY <3>1
    <3> HIDE DEF s
    <3>3. QED
      BY <3>2, <2>2, BeginInside
  <2>3. QED
    BY <2>1, <2>2
<1> HIDE DEF s
<1>3. QED
  BY <1>1, <1>2

\* One turn of the loop.
LEMMA WorkItem ==
    ASSUME MapsTyped, Placed(Maps), Consistent(Maps), NEW b \in MBB, NEW c, <<b, c>> \in worklist
    PROVE  /\ Apart => analyseWorkItem(b, c) # {}
           /\ \A t \in analyseWorkItem(b, c) :
                 t \in State /\ Placed(t) /\ Consistent(t) /\ LargerMaps(Maps, t)
<1>1. PICK s : Begun(s, b, c) /\ analyseWorkItem(b, c) = analyseMachineBasicBlock(s, b)
  BY WorkBegins
<1>2. \E p : InCall(b, p, c)
  BY DEF Placed, Reached, Maps
<1>3. /\ Apart => analyseWorkItem(b, c) # {}
      /\ \A t \in analyseWorkItem(b, c) :
            /\ t \in State /\ Placed(t) /\ Grown(s, t)
            /\ <<b, c>> \notin t.worklist => Stable(t, b, c)
  BY <1>1, <1>2, BlockStep DEF Begun
<1>4. ASSUME NEW t \in analyseWorkItem(b, c)
      PROVE  t \in State /\ Placed(t) /\ Consistent(t) /\ LargerMaps(Maps, t)
  <2>1. t \in State /\ Placed(t) /\ Grown(s, t) /\ (<<b, c>> \notin t.worklist => Stable(t, b, c))
    BY <1>3
  <2>2. LargerMaps(Maps, t)
    BY <1>1, <2>1, LargerOrder DEF LargerMaps, Grown, Begun
  <2>3. ASSUME NEW x \in MBB, NEW d \in DOMAIN t.mbb[x], <<x, d>> \notin t.worklist
        PROVE  Stable(t, x, d)
    <3>1. CASE <<x, d>> = <<b, c>>
      BY <3>1, <2>1, <2>3
    <3>2. CASE <<x, d>> # <<b, c>>
      <4>1. SameInput(s, t, x, d) /\ LargerMaps(s, t)
        BY <2>1, <2>3 DEF Grown
      <4>2. d \in DOMAIN s.mbb[x] /\ <<x, d>> \notin worklist
        BY <4>1, <3>2, <1>1, <2>1, <2>3 DEF SameInput, Begun, Grown
      <4>3. SameInput(Maps, s, x, d) /\ LargerMaps(Maps, s)
        BY <4>2, <3>2, <1>1 DEF Begun
      <4>4. d \in DOMAIN Maps.mbb[x] /\ <<x, d>> \notin Maps.worklist
        BY <4>2, <4>3 DEF SameInput, Maps
      <4>5. Stable(s, x, d)
        BY <4>3, <4>4, ConsistentStays
      <4>6. QED
        BY <4>1, <4>5, StableStays
    <3>3. QED
      BY <3>1, <3>2
  <2>4. QED
    BY <2>1, <2>2, <2>3 DEF Consistent
<1>5. QED
  BY <1>3, <1>4

-----------------------------------------------------------------------------
(* The invariant of the analysis.                                          *)

\* The results are those of a solution, whatever is computed in a block.
Dumped ==
    \A b \in MBB : \A k \in 1 .. Size(b) : \A outs :
        Solved(b, outs) => Agrees(anaInfoIn[<<b, k>>], b, k, outs)

\* The inductive invariant of the driver.
AInv ==
    /\ MapsTyped /\ Placed(Maps) /\ Consistent(Maps)
    /\ entrypoint \in EntryPoints
    /\ <<>> \in DOMAIN funcIn[entrypoint] /\ START \subseteq funcIn[entrypoint][<<>>]
    /\ phase \in {"iterate", "done", "aborted"}
    /\ Apart => phase # "aborted"
    /\ phase = "done" => worklist = {} /\ Dumped
    /\ exec # NotRunning => phase = "done"

\* The analysis begins with one work item.
LEMMA AInvInit ==
    Init => AInv
<1> SUFFICES ASSUME Init PROVE AInv
  OBVIOUS
<1> DEFINE f == entrypoint
           e == EntryBlock(f)
           c == initialCtx(f)
<1>1. f \in Functions /\ f \in EntryPoints
  BY EntryAssumption DEF Init
<1>2. e \in MBB /\ isEntry(e) /\ Blocks[e].func = f
  BY <1>1, Entries
<1>3. <<>> \in Seq(Token) /\ c = calleeContext(<<>>, f) /\ Called(f, <<>>)
  BY DEF initialCtx, calleeContext, Called
<1>4. c \in Seq(Token) /\ Front(c) = <<>> /\ InCall(e, c, c)
  BY <1>1, <1>3, CalleeContext
<1>5. leaf(<<>>, START) \in Info /\ DOMAIN leaf(<<>>, START) = {<<>>} /\ leaf(<<>>, START)[<<>>] = START
  BY <1>3, InfoType, StartAssumption
<1> DEFINE l == leaf(<<>>, START)
<1>6. /\ mbb2anainfo = [b \in MBB |-> BOTTOM] /\ funcOut = [g \in Functions |-> BOTTOM]
      /\ funcIn = [g \in Functions |-> IF g = f THEN l ELSE BOTTOM]
      /\ worklist = {<<e, c>>} /\ phase = "iterate" /\ exec = NotRunning
  BY DEF Init
<1> HIDE DEF l, e, c
<1>7. MapsTyped
  BY <1>2, <1>4, <1>5, <1>6, InfoType DEF MapsTyped, l
<1>8. funcIn[f] = l /\ \A g \in Functions : g # f => funcIn[g] = BOTTOM
  BY <1>1, <1>6
<1>9. \A b \in MBB : DOMAIN mbb2anainfo[b] = {}
  BY <1>6, InfoType
<1>10. /\ Maps.mbb = mbb2anainfo /\ Maps.funcIn = funcIn /\ Maps.funcOut = funcOut /\ Maps.worklist = worklist
  BY DEF Maps
<1>11. Consistent(Maps)
  BY <1>9, <1>10 DEF Consistent
<1>12. Placed(Maps)
  <2>1. Reached(Maps, e, c)
    BY <1>2, <1>4, <1>5, <1>8, <1>10 DEF Reached, l
  <2>2. ASSUME NEW g \in Functions, NEW r \in DOMAIN funcIn[g] PROVE Entered(Maps, g, r)
    <3>1. g = f /\ r = <<>>
      BY <1>5, <1>8, InfoType DEF l
    <3>2. QED
      BY <3>1, <1>3, <1>6, <1>10 DEF Entered, e, c
  <2>3. \A g \in Functions : DOMAIN funcOut[g] = {}
    BY <1>6, InfoType
  <2>4. QED
    BY <2>1, <2>2, <2>3, <1>2, <1>6, <1>9, <1>10 DEF Placed
<1>13. <<>> \in DOMAIN funcIn[f] /\ START \subseteq funcIn[f][<<>>]
  BY <1>5, <1>8 DEF l
<1>14. QED
  BY <1>1, <1>6, <1>7, <1>11, <1>12, <1>13 DEF AInv

\* No assertion in front of the analysis of a block fails.
LEMMA BlockAssertions ==
    ASSUME MapsTyped, Placed(Maps), NEW b \in MBB, NEW c, <<b, c>> \in worklist
    PROVE  blockAssertion(b, c)
<1>1. Reached(Maps, b, c) /\ (~ isEntry(b) => c \in DOMAIN mbb2anainfo[b])
  BY DEF Placed, Maps
<1>2. CASE isEntry(b)
  <2>1. PICK p : InCall(b, p, c)
    BY <1>1 DEF Reached
  <2>2. c # <<>> /\ Last(c) = PartitionTokenFunCallee(Blocks[b].func)
    BY <1>2, <2>1, EntryContext
  <2>3. Front(c) \in DOMAIN funcIn[Blocks[b].func]
    BY <1>1, <1>2 DEF Reached, Maps
  <2>4. QED
    BY <1>2, <2>2, <2>3 DEF blockAssertion, findAssertion
<1>3. CASE ~ isEntry(b)
  BY <1>1, <1>3 DEF blockAssertion, findAssertion
<1>4. QED
  BY <1>2, <1>3

\* The analysis of a block keeps the invariant.
LEMMA AInvAnalyse ==
    ASSUME AInv, NEW item \in worklist, Analyse(item[1], item[2])
    PROVE  AInv'
<1> DEFINE b == item[1]
           c == item[2]
<1>1. b \in MBB /\ <<b, c>> \in worklist
  BY DEF AInv, MapsTyped
<1>2. phase = "iterate" /\ exec = NotRunning
  BY DEF AInv, Analyse
<1>3. blockAssertion(b, c)
  BY <1>1, BlockAssertions DEF AInv
<1>4. UNCHANGED <<entrypoint, anaInfoIn, exec>>
  BY DEF Analyse
<1>5. /\ Apart => analyseWorkItem(b, c) # {}
      /\ \A t \in analyseWorkItem(b, c) :
            t \in State /\ Placed(t) /\ Consistent(t) /\ LargerMaps(Maps, t)
  <2> HIDE DEF b, c
  <2>1. QED
    BY <1>1, WorkItem DEF AInv
<1>6. CASE analyseWorkItem(b, c) # {}
  <2>1. PICK t \in analyseWorkItem(b, c) :
           /\ mbb2anainfo' = t.mbb /\ funcIn' = t.funcIn /\ funcOut' = t.funcOut
           /\ worklist' = t.worklist /\ phase' = phase
    BY <1>3, <1>6 DEF Analyse
  <2> HIDE DEF b, c
  <2>2. t \in State /\ Placed(t) /\ Consistent(t) /\ LargerMaps(Maps, t)
    BY <1>5
  <2>3. MapsTyped'
    BY <2>1, <2>2 DEF MapsTyped, State
  <2>4. Placed(Maps)' /\ Consistent(Maps)'
    <3>1. Maps' = [mbb |-> t.mbb, funcIn |-> t.funcIn, funcOut |-> t.funcOut, worklist |-> t.worklist]
      BY <2>1 DEF Maps
    <3> DEFINE u == [mbb |-> t.mbb, funcIn |-> t.funcIn, funcOut |-> t.funcOut, worklist |-> t.worklist]
    <3>2. u.mbb = t.mbb /\ u.funcIn = t.funcIn /\ u.funcOut = t.funcOut /\ u.worklist = t.worklist
      OBVIOUS
    <3> HIDE DEF u
    <3>3. Placed(u) /\ Consistent(u)
      BY <3>2, <2>2, SameMaps
    <3>4. QED
      BY <3>1, <3>3 DEF u
  <2>5. <<>> \in DOMAIN t.funcIn[entrypoint] /\ START \subseteq t.funcIn[entrypoint][<<>>]
    <3>1. entrypoint \in Functions
      BY EntryAssumption DEF AInv
    <3>2. Larger(funcIn[entrypoint], t.funcIn[entrypoint])
      BY <3>1, <2>2 DEF LargerMaps, Maps
    <3>3. QED
      BY <3>2 DEF Larger, AInv
  <2>6. QED
    BY <1>2, <1>4, <2>1, <2>3, <2>4, <2>5 DEF AInv
<1>7. CASE analyseWorkItem(b, c) = {}
  <2>1. phase' = "aborted" /\ UNCHANGED <<mbb2anainfo, funcIn, funcOut, worklist>>
    BY <1>3, <1>7 DEF Analyse
  <2>2. ~ Apart
    BY <1>5, <1>7
  <2>3. Maps' = Maps
    BY <2>1 DEF Maps
  <2>4. MapsTyped' /\ Placed(Maps)' /\ Consistent(Maps)'
    BY <2>1, <2>3 DEF AInv, MapsTyped
  <2>5. QED
    BY <1>2, <1>4, <2>1, <2>2, <2>4 DEF AInv
<1>8. QED
  BY <1>6, <1>7

\* A solved block: what is computed in it, in each of its contexts.
LEMMA SolvedExists ==
    ASSUME Consistent(Maps), worklist = {}, NEW b \in MBB
    PROVE  \E outs : Solved(b, outs)
<1> DEFINE outs == [c \in DOMAIN mbb2anainfo[b] |-> CHOOSE out : Flow(Maps, b, c, Size(b), out)]
<1>1. ASSUME NEW c \in DOMAIN mbb2anainfo[b] PROVE Flow(Maps, b, c, Size(b), outs[c])
  <2>1. c \in DOMAIN Maps.mbb[b] /\ Maps.worklist = {}
    BY DEF Maps
  <2>2. Stable(Maps, b, c)
    BY <2>1 DEF Consistent
  <2>3. \E out : Flow(Maps, b, c, Size(b), out)
    BY <2>2 DEF Stable
  <2>4. QED
    BY <2>3
<1> HIDE DEF outs
<1>2. QED
  BY <1>1 DEF Solved

\* When the worklist is empty, the calls have nothing new for their callees.
LEMMA FixpointDumped ==
    ASSUME MapsTyped, Consistent(Maps), worklist = {},
           NEW info, \A b \in MBB : \A k \in 1 .. Size(b) : info[<<b, k>>] = infoBefore(b, k)
    PROVE  ~ changedWhileDumping(info)
<1> SUFFICES ASSUME NEW i \in Instrs, InstrAt(i).op = "call", NEW c \in DOMAIN info[i], info[i][c] # {}
             PROVE  ~ changes(funcIn[InstrAt(i).callee], CallContext(i, c), info[i][c])
  BY DEF changedWhileDumping, CallContext
<1> DEFINE b == i[1]
           k == i[2]
<1>1. b \in MBB /\ k \in 1 .. Size(b) /\ i = <<b, k>>
  BY Instructions DEF Size
<1> HIDE DEF b, k
<1>2. PICK outs : Solved(b, outs)
  BY <1>1, SolvedExists
<1>3. Agrees(info[i], b, k, outs)
  BY <1>1, <1>2, InfoBefore
<1>4. c \in DOMAIN mbb2anainfo[b] /\ info[i][c] = outs[c][k]
  BY <1>3 DEF Agrees
<1>5. Stepped(Maps, b, c, k, outs[c][k], outs[c][k + 1])
  BY <1>1, <1>2, <1>4 DEF Solved, Flow
<1> DEFINE x == info[i][c]
           f == InstrAt(i).callee
           r == CallContext(i, c)
<1> HIDE DEF x, f, r
<1>6. x # {} => r \in DOMAIN Maps.funcIn[f] /\ x \subseteq Maps.funcIn[f][r]
  BY <1>1, <1>4, <1>5 DEF Stepped, x, f, r
<1>7. x # {} /\ Maps.funcIn = funcIn
  BY DEF x, Maps
<1>8. ~ changes(funcIn[f], r, x)
  BY <1>6, <1>7 DEF changes
<1>9. QED
  BY <1>8 DEF x, f, r

\* Neither do their early lookups fail.
LEMMA LookupsFound ==
    ASSUME Apart, MapsTyped, Placed(Maps), Consistent(Maps), worklist = {},
           NEW info, \A b \in MBB : \A k \in 1 .. Size(b) : info[<<b, k>>] = infoBefore(b, k)
    PROVE  lookupAssertion(info)
<1> SUFFICES ASSUME NEW i \in Instrs, InstrAt(i).op = "call", NEW c \in DOMAIN info[i]
             PROVE  findEarlyAssertion(funcOut[InstrAt(i).callee], CallContext(i, c))
  BY DEF lookupAssertion, lookups, CallContext
<1> DEFINE b == i[1]
           k == i[2]
           f == InstrAt(i).callee
           pd == funcOut[f]
<1>1. b \in MBB /\ k \in 1 .. Size(b) /\ i = <<b, k>> /\ f \in Functions
  BY Instructions DEF Size
<1> HIDE DEF b, k
<1>2. PICK outs : Solved(b, outs)
  BY <1>1, SolvedExists
<1>3. Agrees(info[i], b, k, outs)
  BY <1>1, <1>2, InfoBefore
<1>4. c \in Seq(Token)
  BY <1>3, InfoType DEF Agrees
<1>5. pd \in Info
  BY <1>1 DEF MapsTyped
<1>6. \A x \in DOMAIN pd : x \in Seq(Token) /\ Called(f, x)
  BY <1>1, <1>5, InfoType DEF Placed, Maps
<1> HIDE DEF pd
<1>7. findEarlyAssertion(pd, CallContext(i, c))
  BY <1>4, <1>6, LookupEnds
<1>8. QED
  BY <1>7 DEF pd

\* Writing out the results keeps the invariant.
LEMMA AInvDump ==
    ASSUME AInv, getAnalysisResults
    PROVE  AInv'
<1> DEFINE info == [i \in Instrs |-> infoBefore(i[1], i[2])]
<1>1. /\ worklist = {} /\ anaInfoIn' = info
      /\ phase' = IF lookupAssertion(info) /\ ~ changedWhileDumping(info) THEN "done" ELSE "aborted"
  BY DEF getAnalysisResults
<1>2. UNCHANGED <<entrypoint, mbb2anainfo, funcIn, funcOut, worklist, exec>>
  BY DEF getAnalysisResults
<1>3. \A b \in MBB : \A k \in 1 .. Size(b) : info[<<b, k>>] = infoBefore(b, k)
  <2>1. \A b \in MBB : \A k \in 1 .. Size(b) : <<b, k>> \in Instrs
    BY Positions
  <2>2. QED
    BY <2>1
<1> HIDE DEF info
<1>4. ~ changedWhileDumping(info)
  BY <1>1, <1>3, FixpointDumped DEF AInv
<1>5. Apart => phase' # "aborted"
  BY <1>1, <1>3, <1>4, LookupsFound DEF AInv
<1>6. ASSUME NEW b \in MBB, NEW k \in 1 .. Size(b), NEW outs, Solved(b, outs)
      PROVE  Agrees(info[<<b, k>>], b, k, outs)
  BY <1>3, <1>6, InfoBefore DEF AInv
<1>7. Maps' = Maps
  BY <1>2 DEF Maps
<1>8. Dumped'
  <2>1. \A b, outs : Solved(b, outs)' <=> Solved(b, outs)
    BY <1>2, <1>7 DEF Solved
  <2>2. \A q, b, k, outs : Agrees(q, b, k, outs)' <=> Agrees(q, b, k, outs)
    BY <1>2 DEF Agrees
  <2>3. QED
    BY <2>1, <2>2, <1>1, <1>6 DEF Dumped
<1>9. MapsTyped' /\ Placed(Maps)' /\ Consistent(Maps)'
  BY <1>2, <1>7 DEF AInv, MapsTyped
<1>10. phase' \in {"done", "aborted"} /\ exec = NotRunning
  BY <1>1 DEF AInv, getAnalysisResults
<1>11. QED
  BY <1>1, <1>2, <1>5, <1>8, <1>9, <1>10 DEF AInv

\* A run of the program changes nothing in the analysis.
LEMMA AInvSame ==
    ASSUME AInv, UNCHANGED analysis, exec' # NotRunning => phase = "done"
    PROVE  AInv'
<1>1. UNCHANGED <<entrypoint, mbb2anainfo, funcIn, funcOut, worklist, anaInfoIn, phase>>
  BY DEF analysis
<1>2. Maps' = Maps
  BY <1>1 DEF Maps
<1>3. Dumped => Dumped'
  <2>1. \A b, outs : Solved(b, outs)' <=> Solved(b, outs)
    BY <1>1, <1>2 DEF Solved
  <2>2. \A q, b, k, outs : Agrees(q, b, k, outs)' <=> Agrees(q, b, k, outs)
    BY <1>1 DEF Agrees
  <2>3. QED
    BY <2>1, <2>2, <1>1 DEF Dumped
<1>4. MapsTyped' /\ Placed(Maps)' /\ Consistent(Maps)'
  BY <1>1, <1>2 DEF AInv, MapsTyped
<1>5. QED
  BY <1>1, <1>3, <1>4 DEF AInv

\* Every step keeps the invariant.
LEMMA AInvNext ==
    ASSUME AInv, [Next]_vars
    PROVE  AInv'
<1>1. CASE \E item \in worklist : Analyse(item[1], item[2])
  BY <1>1, AInvAnalyse
<1>2. CASE getAnalysisResults
  BY <1>2, AInvDump
<1>3. CASE Run
  <2>1. UNCHANGED analysis
    BY <1>3 DEF Run, Start, RunPlain, RunExternal, RunBranch, RunJump, RunCall, RunReturn, FallThrough
  <2>2. phase = "done"
    BY <1>3 DEF AInv, Run, Start, RunPlain, RunExternal, RunBranch, RunJump, RunCall, RunReturn,
                FallThrough, atInstr, running
  <2>3. QED
    BY <2>1, <2>2, AInvSame
<1>4. CASE UNCHANGED vars
  <2>1. UNCHANGED analysis /\ exec' = exec
    BY <1>4 DEF vars, analysis
  <2>2. QED
    BY <2>1, AInvSame DEF AInv
<1>5. QED
  BY <1>1, <1>2, <1>3, <1>4 DEF Next

\* The contexts of a block end with its function and the loops around it.
LEMMA AInvContexts ==
    AInv => ContextsMatchLoops
<1> SUFFICES ASSUME AInv, NEW b \in MBB, NEW c \in DOMAIN mbb2anainfo[b]
             PROVE  LET nest == IF LoopPeel = 0 THEN <<>> ELSE Blocks[b].nest
                        base == Len(c) - Len(nest)
                    IN /\ base > 0
                       /\ c[base] = PartitionTokenFunCallee(Blocks[b].func)
                       /\ \A k \in DOMAIN nest : c[base + k] \in LoopTokens(nest[k])
  BY DEF ContextsMatchLoops
<1> DEFINE nest == Nest(b)
           n == Len(nest)
<1>1. PICK p : InCall(b, p, c)
  BY DEF AInv, Placed, Reached, Maps
<1>2. nest \in Seq(DOMAIN Loops)
  <2>1. Blocks[b].nest \in Seq(DOMAIN Loops)
    BY LoopAssumption
  <2>2. <<>> \in Seq(DOMAIN Loops)
    OBVIOUS
  <2>3. nest = <<>> \/ nest = Blocks[b].nest
    BY DEF Nest
  <2> HIDE DEF nest
  <2>4. QED
    BY <2>1, <2>2, <2>3
<1> HIDE DEF nest
<1>3. n \in Nat /\ DOMAIN nest = 1 .. n
  BY <1>2
<1>4. /\ p \in Seq(Token) /\ p # <<>> /\ p[Len(p)] = PartitionTokenFunCallee(Blocks[b].func)
      /\ Len(c) = Len(p) + n /\ \A i \in 1 .. Len(p) : c[i] = p[i]
      /\ \A k \in 1 .. n : c[Len(p) + k] \in LoopTokens(nest[k])
  BY <1>1 DEF InCall, nest
<1>5. Len(p) \in Nat /\ Len(p) > 0
  BY <1>4
<1>6. Len(c) - n = Len(p) /\ Len(p) \in 1 .. Len(p)
  BY <1>3, <1>4, <1>5
<1>7. /\ Len(c) - n > 0 /\ c[Len(c) - n] = PartitionTokenFunCallee(Blocks[b].func)
      /\ \A k \in DOMAIN nest : c[(Len(c) - n) + k] \in LoopTokens(nest[k])
  BY <1>3, <1>4, <1>5, <1>6
<1>8. QED
  BY <1>7 DEF nest, Nest

\* Contexts and loops agree at every point of the analysis.
THEOREM ContextsFollowLoops ==
    Spec => []ContextsMatchLoops
<1>1. AInv => ContextsMatchLoops
  BY AInvContexts
<1>2. AInv /\ [Next]_vars => AInv'
  BY AInvNext
<1>3. Init => AInv
  BY AInvInit
<1>4. QED
  BY <1>1, <1>2, <1>3, PTL DEF Spec

\* No assertion of the driver fails: a work item has information to start
\* from, the early lookup of a call does not end at an inner node of the tree,
\* and writing the results out changes nothing.  For the lookup, functions have
\* to return from outside of peeled loops, and contexts to tell calls apart:
\* they keep one call-site token, or some of them or all and no function is
\* called while it runs.
THEOREM DriverNeverAborts ==
    ASSUME ReturnsOutsideLoops, CallContextsApart
    PROVE  Spec => []NeverAborted
<1>1. AInv => NeverAborted
  BY DEF AInv, NeverAborted, Apart
<1>2. AInv /\ [Next]_vars => AInv'
  BY AInvNext
<1>3. Init => AInv
  BY AInvInit
<1>4. QED
  BY <1>1, <1>2, <1>3, PTL DEF Spec

-----------------------------------------------------------------------------
(* The execution.                                                          *)

\* The analysis knows that v is possible before the k-th instruction of block b
\* in context c (or behind the last one).
Known(b, c, k, v) ==
    /\ b \in MBB /\ c \in DOMAIN mbb2anainfo[b] /\ k \in 1 .. (Size(b) + 1) /\ v \in Value
    /\ \A out : Flow(Maps, b, c, Size(b), out) => v \in out[k]

\* The call that frame "fr" has made has led to block b in context c.
Waiting(fr, b, c) ==
    LET i == <<fr.at, fr.pc - 1>>
        f == InstrAt(i).callee
    IN /\ fr.ctx \in DOMAIN mbb2anainfo[fr.at] /\ fr.pc - 1 \in 1 .. Size(fr.at)
       /\ InstrAt(i).op = "call"
       /\ \A out : Flow(Maps, fr.at, fr.ctx, Size(fr.at), out) => out[fr.pc - 1] # {}
       /\ Blocks[b].func = f
       /\ InCall(b, calleeContext(CallContext(i, fr.ctx), f), c)

\* The types of stack frames and executions.
Frame == [at : MBB, pc : Nat, ctx : Seq(Token)]
Execution == [at : MBB, pc : Nat, ctx : Seq(Token), value : Value, stack : Seq(Frame)]

\* The execution is where the analysis knows it to be, and its calls are, too.
OnPath(e) ==
    /\ e \in Execution /\ Known(e.at, e.ctx, e.pc, e.value)
    /\ \A k \in 1 .. (Len(e.stack) - 1) : Waiting(e.stack[k], e.stack[k + 1].at, e.stack[k + 1].ctx)
    /\ e.stack # <<>> => Waiting(e.stack[Len(e.stack)], e.at, e.ctx)

\* The analysis has ended.
Ended == MapsTyped /\ Placed(Maps) /\ Consistent(Maps) /\ worklist = {}

\* What a block does in a context has been computed.
LEMMA FlowExists ==
    ASSUME Ended, NEW b \in MBB, NEW c \in DOMAIN mbb2anainfo[b]
    PROVE  \E out : /\ Flow(Maps, b, c, Size(b), out)
                    /\ \A x \in LayoutSuccessors(b) : Pushed(Maps, b, c, x, out[Size(b) + 1])
<1>1. c \in DOMAIN Maps.mbb[b] /\ Maps.worklist = {}
  BY DEF Maps, Ended
<1>2. Stable(Maps, b, c)
  BY <1>1 DEF Consistent, Ended
<1>3. QED
  BY <1>2 DEF Stable

\* At the entry of a block.
LEMMA KnownAtEntry ==
    ASSUME Ended, NEW b \in MBB, NEW c \in DOMAIN mbb2anainfo[b], NEW v \in mbb2anainfo[b][c]
    PROVE  Known(b, c, 1, v) /\ c \in Seq(Token)
<1>1. mbb2anainfo[b] \in Info
  BY DEF Ended, MapsTyped
<1>2. c \in Seq(Token) /\ v \in Value
  BY <1>1, InfoType
<1>3. 1 \in 1 .. (Size(b) + 1)
  BY Positions
<1>4. \A out : Flow(Maps, b, c, Size(b), out) => v \in out[1]
  BY DEF Flow, Maps
<1>5. QED
  BY <1>2, <1>3, <1>4 DEF Known

\* The execution goes on behind an instruction that the analysis has stepped
\* over with the same effect.
LEMMA GoOn ==
    ASSUME OnPath(exec), exec.pc \in 1 .. Size(exec.at), NEW v \in Value,
           \A x \in SUBSET Value : \A y : exec.value \in x /\ Stepped(Maps, exec.at, exec.ctx, exec.pc, x, y) => v \in y
    PROVE  OnPath(goOn(v))
<1> DEFINE e == goOn(v)
           b == exec.at
           c == exec.ctx
           k == exec.pc
<1>1. exec \in Execution /\ Known(b, c, k, exec.value)
  BY DEF OnPath
<1>2. /\ e \in Execution /\ e.at = b /\ e.ctx = c /\ e.pc = k + 1 /\ e.value = v /\ e.stack = exec.stack
  <2> DEFINE m == k + 1
  <2>1. m \in Nat
    BY <1>1 DEF Execution
  <2>2. e = [exec EXCEPT !.pc = m, !.value = v]
    BY DEF goOn
  <2> HIDE DEF m, e
  <2>3. /\ e \in Execution /\ e.at = b /\ e.ctx = c /\ e.pc = m /\ e.value = v /\ e.stack = exec.stack
    BY <1>1, <2>1, <2>2 DEF Execution
  <2>4. QED
    BY <2>3 DEF m
<1>3. k + 1 \in 1 .. (Size(b) + 1)
  <2>1. b \in MBB
    BY <1>1 DEF Known
  <2>2. Size(b) \in Nat
    BY <2>1, Positions
  <2>3. QED
    BY <2>2
<1>4. ASSUME NEW out, Flow(Maps, b, c, Size(b), out) PROVE v \in out[k + 1]
  <2>1. Stepped(Maps, b, c, k, out[k], out[k + 1])
    BY <1>4 DEF Flow
  <2>2. exec.value \in out[k]
    BY <1>1, <1>4 DEF Known
  <2>3. out[k] \in SUBSET Value
    BY <1>3, <1>4, Positions, <1>1 DEF Flow, Known
  <2>4. QED
    BY <2>1, <2>2, <2>3
<1>5. Known(b, c, k + 1, v)
  BY <1>1, <1>3, <1>4 DEF Known
<1> HIDE DEF e
<1>6. QED
  BY <1>2, <1>5 DEF OnPath, e

\* The execution goes to a successor to which the analysis has passed its value.
LEMMA GoTo ==
    ASSUME Ended, OnPath(exec), NEW x \in Blocks[exec.at].succ, NEW ana, exec.value \in ana,
           Pushed(Maps, exec.at, exec.ctx, x, ana)
    PROVE  OnPath(goTo(x))
<1> DEFINE e == goTo(x)
           b == exec.at
           c == exec.ctx
           d == edgeContext(c, <<b, x>>)
<1>1. exec \in Execution /\ b \in MBB /\ exec.value \in Value
  BY DEF OnPath, Execution
<1>2. x \in MBB /\ Blocks[x].func = Blocks[b].func
  BY <1>1, Entries
<1>3. d \in DOMAIN mbb2anainfo[x] /\ exec.value \in mbb2anainfo[x][d]
  BY DEF Pushed, Maps
<1> HIDE DEF d
<1>4. Known(x, d, 1, exec.value) /\ d \in Seq(Token)
  BY <1>2, <1>3, KnownAtEntry
<1>5. e \in Execution /\ e.at = x /\ e.ctx = d /\ e.pc = 1 /\ e.value = exec.value /\ e.stack = exec.stack
  BY <1>1, <1>2, <1>4 DEF Execution, goTo, d
<1>6. ASSUME NEW fr, Waiting(fr, b, c) PROVE Waiting(fr, x, d)
  <2> DEFINE p == calleeContext(CallContext(<<fr.at, fr.pc - 1>>, fr.ctx), InstrAt(<<fr.at, fr.pc - 1>>).callee)
  <2>1. InCall(b, p, c)
    BY <1>6 DEF Waiting
  <2> HIDE DEF p
  <2>2. InCall(x, p, d)
    BY <1>1, <2>1, EdgeContext DEF d
  <2>3. QED
    BY <2>2, <1>2, <1>6 DEF Waiting, p
<1> HIDE DEF e
<1>7. e.stack # <<>> => Waiting(e.stack[Len(e.stack)], x, d)
  BY <1>5, <1>6 DEF OnPath
<1>8. QED
  BY <1>4, <1>5, <1>7 DEF OnPath, e

\* The first block.
LEMMA StartOnPath ==
    ASSUME AInv, Start
    PROVE  OnPath(exec')
<1> DEFINE f == entrypoint
           b == EntryBlock(f)
           c == calleeContext(<<>>, f)
<1>1. f \in Functions
  BY EntryAssumption DEF AInv
<1>2. PICK v \in START : exec' = [at |-> b, pc |-> 1, ctx |-> c, value |-> v, stack |-> <<>>]
  BY DEF Start, initialCtx, calleeContext
<1>3. Ended
  BY DEF AInv, Ended, Start
<1>4. b \in MBB
  BY <1>1, Entries
<1>5. Entered(Maps, f, <<>>)
  BY <1>1 DEF AInv, Placed, Maps
<1>6. c \in DOMAIN mbb2anainfo[b] /\ funcIn[f][<<>>] \subseteq mbb2anainfo[b][c]
  BY <1>3, <1>5 DEF Entered, Maps, Ended
<1>7. v \in mbb2anainfo[b][c] /\ v \in Value
  BY <1>6, StartAssumption DEF AInv
<1> HIDE DEF b, c, f
<1>8. Known(b, c, 1, v) /\ c \in Seq(Token)
  BY <1>3, <1>4, <1>6, <1>7, KnownAtEntry
<1> DEFINE e == [at |-> b, pc |-> 1, ctx |-> c, value |-> v, stack |-> <<>>]
<1>9. e \in Execution /\ e.at = b /\ e.ctx = c /\ e.pc = 1 /\ e.value = v /\ e.stack = <<>>
  BY <1>4, <1>7, <1>8 DEF Execution
<1> HIDE DEF e
<1>10. OnPath(e)
  BY <1>8, <1>9 DEF OnPath
<1>11. QED
  BY <1>2, <1>10 DEF e

\* A call goes to a context of the callee that has been entered.
LEMMA CallOnPath ==
    ASSUME Ended, OnPath(exec), RunCall
    PROVE  OnPath(exec')
<1> DEFINE b == exec.at
           c == exec.ctx
           k == exec.pc
           i == <<b, k>>
           f == InstrAt(i).callee
           r == CallContext(i, c)
           e == EntryBlock(f)
           d == calleeContext(r, f)
           fr == [at |-> b, pc |-> k + 1, ctx |-> c]
<1>1. exec \in Execution /\ Known(b, c, k, exec.value) /\ b \in MBB /\ k \in Nat /\ exec.value \in Value
  BY DEF OnPath, Execution
<1>2. InstrAt(i).op = "call" /\ k \in 1 .. Size(b)
  BY <1>1 DEF RunCall, atInstr, current, Known, Size
<1>3. exec' = [exec EXCEPT !.at = e, !.pc = 1, !.ctx = d, !.stack = Append(@, fr)]
  BY DEF RunCall, current, CallContext
<1>4. i \in Instrs /\ f \in Functions
  <2>1. i \in Instrs
    BY <1>1, <1>2, Positions
  <2>2. QED
    BY <2>1, <1>2, Instructions
<1>5. e \in MBB /\ Blocks[e].func = f
  BY <1>4, Entries
<1>6. PICK out : Flow(Maps, b, c, Size(b), out)
  BY <1>1, FlowExists DEF Known
<1>7. exec.value \in out[k] /\ Stepped(Maps, b, c, k, out[k], out[k + 1])
  BY <1>1, <1>2, <1>6 DEF Known, Flow
<1>8. r \in DOMAIN funcIn[f] /\ exec.value \in funcIn[f][r]
  BY <1>2, <1>7 DEF Stepped, Maps
<1>9. r \in Seq(Token) /\ Called(f, r)
  <2>1. funcIn[f] \in Info
    BY <1>4 DEF Ended, MapsTyped
  <2>2. PICK p : InCall(b, p, c)
    BY <1>1 DEF Known, Ended, Placed, Reached, Maps
  <2>3. i \in CallsOf(b)
    BY <1>2, <1>4 DEF CallsOf
  <2> HIDE DEF i
  <2>4. Called(f, r)
    BY <1>1, <2>2, <2>3, CallContextCalled
  <2> HIDE DEF r
  <2>5. QED
    BY <2>1, <2>4, <1>8, InfoType
<1> HIDE DEF r
<1>10. d \in Seq(Token) /\ InCall(e, d, d)
  BY <1>4, <1>9, CalleeContext
<1>11. Entered(Maps, f, r)
  BY <1>4, <1>8 DEF Ended, Placed, Maps
<1>12. d \in DOMAIN mbb2anainfo[e] /\ funcIn[f][r] \subseteq mbb2anainfo[e][d]
  BY <1>11 DEF Entered, Maps, Ended
<1>13. Known(e, d, 1, exec.value)
  BY <1>5, <1>8, <1>12, KnownAtEntry
<1>14. Waiting(fr, e, d)
  <2>1. fr.at = b /\ fr.pc = k + 1 /\ fr.ctx = c /\ (k + 1) - 1 = k
    BY <1>1
  <2>2. \A o : Flow(Maps, b, c, Size(b), o) => o[k] # {}
    BY <1>1 DEF Known
  <2> HIDE DEF fr
  <2>3. QED
    BY <2>1, <2>2, <1>1, <1>2, <1>5, <1>10 DEF Waiting, Known, r
<1>15. ASSUME NEW g, Waiting(g, b, c) PROVE Waiting(g, fr.at, fr.ctx)
  BY <1>15
<1>16. fr \in Frame
  BY <1>1 DEF Frame, Execution
<1> HIDE DEF e, d, fr, f
<1> DEFINE s == exec.stack
           n == Len(s)
           z == exec'
<1>17. s \in Seq(Frame) /\ n \in Nat /\ s = exec.stack
  BY <1>1 DEF Execution
<1>18. z \in Execution /\ z.at = e /\ z.ctx = d /\ z.pc = 1 /\ z.value = exec.value /\ z.stack = Append(s, fr)
  <2> DEFINE w == Append(s, fr)
  <2>1. w \in Seq(Frame)
    BY <1>16, <1>17
  <2>2. z = [exec EXCEPT !.at = e, !.pc = 1, !.ctx = d, !.stack = w]
    BY <1>3
  <2> HIDE DEF w, z, s
  <2>3. z \in Execution /\ z.at = e /\ z.ctx = d /\ z.pc = 1 /\ z.value = exec.value /\ z.stack = w
    BY <1>1, <1>5, <1>10, <2>1, <2>2 DEF Execution
  <2>4. QED
    BY <2>3 DEF w
<1>19. \A m \in 1 .. (n - 1) : Waiting(s[m], s[m + 1].at, s[m + 1].ctx)
  BY DEF OnPath
<1>20. s # <<>> => Waiting(s[n], b, c)
  BY DEF OnPath
<1> HIDE DEF s, z
<1>21. /\ Len(z.stack) = n + 1 /\ z.stack[n + 1] = fr /\ \A m \in 1 .. n : z.stack[m] = s[m]
  BY <1>17, <1>18
<1>22. ASSUME NEW m \in 1 .. n PROVE Waiting(z.stack[m], z.stack[m + 1].at, z.stack[m + 1].ctx)
  <2>1. CASE m = n
    <3>1. s # <<>> /\ z.stack[m] = s[n] /\ z.stack[m + 1] = fr
      BY <2>1, <1>17, <1>21
    <3>2. Waiting(s[n], fr.at, fr.ctx)
      BY <3>1, <1>15, <1>20
    <3>3. QED
      BY <3>1, <3>2
  <2>2. CASE m # n
    <3>1. m \in 1 .. (n - 1) /\ m + 1 \in 1 .. n
      BY <2>2, <1>17
    <3>2. z.stack[m] = s[m] /\ z.stack[m + 1] = s[m + 1]
      BY <3>1, <1>21
    <3>3. QED
      BY <3>1, <3>2, <1>19
  <2>3. QED
    BY <2>1, <2>2
<1>23. Len(z.stack) - 1 = n
  BY <1>17, <1>21
<1>24. Waiting(z.stack[Len(z.stack)], z.at, z.ctx)
  BY <1>14, <1>18, <1>21
<1>25. OnPath(z)
  BY <1>13, <1>18, <1>22, <1>23, <1>24 DEF OnPath
<1>26. QED
  BY <1>25 DEF z

\* A return outside of loops hands its information to the context that the call
\* reads.
LEMMA ReturnContext ==
    ASSUME NEW b \in MBB, Nest(b) = <<>>, NEW r \in Seq(Token), NEW c,
           InCall(b, calleeContext(r, Blocks[b].func), c)
    PROVE  update(c, getDirectiveOnReturn(Blocks[b].func)) = r
<1>1. Blocks[b].func \in Functions
  BY Entries
<1>2. Front(calleeContext(r, Blocks[b].func)) = r
  BY <1>1, CalleeContext
<1>3. QED
  BY <1>2, ReturnPops

\* A return goes back behind the call that waits for it.
LEMMA ReturnOnPath ==
    ASSUME ReturnsOutsideLoops, Ended, OnPath(exec), atInstr("return"), exec.value \in current.when,
           exec.stack # <<>>,
           NEW z, z = [exec EXCEPT !.at = Last(exec.stack).at, !.pc = Last(exec.stack).pc,
                                   !.ctx = Last(exec.stack).ctx, !.stack = Front(@)]
    PROVE  OnPath(z)
<1> DEFINE b == exec.at
           c == exec.ctx
           k == exec.pc
           v == exec.value
           s == exec.stack
           n == Len(s)
           fr == s[n]
           i == <<fr.at, fr.pc - 1>>
           f == Blocks[b].func
           r == CallContext(i, fr.ctx)
<1>1. /\ exec \in Execution /\ Known(b, c, k, v) /\ b \in MBB /\ k \in Nat /\ v \in Value
      /\ s \in Seq(Frame) /\ n \in Nat
  BY DEF OnPath, Execution
<1>2. n > 0 /\ fr \in Frame /\ Last(s) = fr
  BY <1>1 DEF Last
<1>3. InstrAt(<<b, k>>).op = "return" /\ k \in 1 .. Size(b) /\ v \in InstrAt(<<b, k>>).when
  BY <1>1 DEF atInstr, current, Known, Size
<1>4. Waiting(fr, b, c)
  BY DEF OnPath
<1>5. /\ fr.at \in MBB /\ fr.pc \in Nat /\ fr.ctx \in Seq(Token)
      /\ fr.ctx \in DOMAIN mbb2anainfo[fr.at] /\ fr.pc - 1 \in 1 .. Size(fr.at)
      /\ InstrAt(i).op = "call" /\ InstrAt(i).callee = f
      /\ \A out : Flow(Maps, fr.at, fr.ctx, Size(fr.at), out) => out[fr.pc - 1] # {}
      /\ InCall(b, calleeContext(r, f), c)
  BY <1>2, <1>4 DEF Waiting, Frame
<1>6. r \in Seq(Token)
  <2>1. i \in Instrs
    BY <1>5, Positions
  <2> DEFINE u == update(fr.ctx, getDirectiveBeforeInstr(i))
  <2>2. u \in Seq(Token)
    BY <1>5, <2>1, AroundCall
  <2> HIDE DEF u
  <2>3. reduceOnCall(u) \in Seq(Token)
    BY <2>2, ReduceTyped
  <2>4. QED
    BY <2>3 DEF u, CallContext
<1> HIDE DEF r
<1>7. update(c, getDirectiveOnReturn(f)) = r
  <2>1. Nest(b) = <<>>
    <3>1. <<b, k>> \in Instrs
      BY <1>1, <1>3, Positions
    <3> DEFINE j == <<b, k>>
    <3>2. j[1] = b
      OBVIOUS
    <3> HIDE DEF j
    <3>3. QED
      BY <3>1, <3>2, <1>3 DEF ReturnsOutsideLoops, j
  <2>2. QED
    BY <2>1, <1>1, <1>5, <1>6, ReturnContext
<1>8. r \in DOMAIN funcOut[f] /\ v \in funcOut[f][r]
  <2>1. PICK out : Flow(Maps, b, c, Size(b), out)
    BY <1>1, FlowExists DEF Known
  <2>2. v \in out[k] /\ Stepped(Maps, b, c, k, out[k], out[k + 1])
    BY <1>1, <1>3, <2>1 DEF Known, Flow
  <2> DEFINE instr == InstrAt(<<b, k>>)
  <2>3. r \in DOMAIN funcOut[f] /\ guardTaken(instr, out[k]) \subseteq funcOut[f][r]
    BY <2>2, <1>3, <1>7 DEF Stepped, Maps
  <2>4. v \in guardTaken(instr, out[k])
    BY <2>2, <1>3 DEF guardTaken
  <2>5. QED
    BY <2>3, <2>4
<1>9. Known(fr.at, fr.ctx, fr.pc, v)
  <2>1. fr.pc \in 1 .. (Size(fr.at) + 1) /\ (fr.pc - 1) + 1 = fr.pc
    <3>1. Size(fr.at) \in Nat
      BY <1>5, Positions
    <3>2. QED
      BY <3>1, <1>5
  <2>2. ASSUME NEW out, Flow(Maps, fr.at, fr.ctx, Size(fr.at), out) PROVE v \in out[fr.pc]
    <3>1. Stepped(Maps, fr.at, fr.ctx, fr.pc - 1, out[fr.pc - 1], out[fr.pc])
      BY <2>1, <2>2, <1>5 DEF Flow
    <3>2. out[fr.pc - 1] # {}
      BY <2>2, <1>5
    <3>3. out[fr.pc] = Returned(Maps, i, fr.ctx)
      BY <3>1, <3>2, <1>5 DEF Stepped
    <3>4. Returned(Maps, i, fr.ctx) = findAnalysisInfoEarly(funcOut[f], r)
      BY <1>5 DEF Returned, Maps, r
    <3>5. QED
      BY <3>3, <3>4, <1>8 DEF findAnalysisInfoEarly
  <2>3. QED
    BY <1>1, <1>5, <2>1, <2>2 DEF Known
<1> HIDE DEF fr, s, v, i
<1> DEFINE rest == SubSeq(s, 1, n - 1)
<1>10. rest \in Seq(Frame) /\ Len(rest) = n - 1 /\ \A m \in 1 .. (n - 1) : rest[m] = s[m]
  <2> DEFINE j == n - 1
  <2>1. s \in Seq(Frame) /\ j \in Nat /\ j <= Len(s)
    BY <1>1, <1>2
  <2> HIDE DEF j
  <2>2. /\ SubSeq(s, 1, j) \in Seq(Frame) /\ Len(SubSeq(s, 1, j)) = j
        /\ \A m \in 1 .. j : SubSeq(s, 1, j)[m] = s[m]
    BY <2>1, Prefix
  <2>3. QED
    BY <2>2 DEF j
<1>11. Front(s) = rest
  BY <1>1, <1>2 DEF Front
<1> HIDE DEF rest
<1>12. z = [exec EXCEPT !.at = fr.at, !.pc = fr.pc, !.ctx = fr.ctx, !.stack = rest]
  BY <1>2, <1>11 DEF s
<1>13. z \in Execution /\ z.at = fr.at /\ z.ctx = fr.ctx /\ z.pc = fr.pc /\ z.value = v /\ z.stack = rest
  BY <1>1, <1>5, <1>10, <1>12 DEF Execution, v
<1>14. \A m \in 1 .. (n - 1) : Waiting(s[m], s[m + 1].at, s[m + 1].ctx)
  BY DEF OnPath, s
<1>15. \A m \in 1 .. (Len(rest) - 1) : Waiting(rest[m], rest[m + 1].at, rest[m + 1].ctx)
  <2> SUFFICES ASSUME NEW m \in 1 .. (Len(rest) - 1) PROVE Waiting(rest[m], rest[m + 1].at, rest[m + 1].ctx)
    OBVIOUS
  <2>1. m \in 1 .. (n - 1) /\ m + 1 \in 1 .. (n - 1)
    BY <1>1, <1>2, <1>10
  <2>2. QED
    BY <2>1, <1>10, <1>14
<1>16. rest # <<>> => Waiting(rest[Len(rest)], fr.at, fr.ctx)
  <2> SUFFICES ASSUME rest # <<>> PROVE Waiting(rest[Len(rest)], fr.at, fr.ctx)
    OBVIOUS
  <2>1. n - 1 \in 1 .. (n - 1) /\ (n - 1) + 1 = n
    BY <1>1, <1>2, <1>10
  <2>2. Waiting(s[n - 1], s[n].at, s[n].ctx)
    BY <2>1, <1>14
  <2>3. rest[Len(rest)] = s[n - 1] /\ s[n] = fr
    BY <2>1, <1>10 DEF fr
  <2>4. QED
    BY <2>2, <2>3
<1>17. QED
  BY <1>9, <1>13, <1>15, <1>16 DEF OnPath

\* The instruction that the execution has reached is one of its block, and the
\* analysis has a value before it.
LEMMA OnPathBlock ==
    ASSUME OnPath(exec)
    PROVE  /\ exec.at \in MBB /\ exec.ctx \in DOMAIN mbb2anainfo[exec.at] /\ exec.value \in Value
           /\ exec.pc \in 1 .. (Size(exec.at) + 1) /\ Size(exec.at) \in Nat
           /\ DOMAIN Blocks[exec.at].instrs = 1 .. Size(exec.at)
           /\ exec.pc \in 1 .. Size(exec.at) =>
                 <<exec.at, exec.pc>> \in Instrs /\ current = InstrAt(<<exec.at, exec.pc>>)
<1>1. exec.at \in MBB
  BY DEF OnPath, Known
<1>2. QED
  BY <1>1, Positions DEF OnPath, Known, current

\* An instruction is reached if it is there.
LEMMA AtInstr ==
    ASSUME OnPath(exec), NEW op, atInstr(op)
    PROVE  exec.pc \in 1 .. Size(exec.at) /\ current.op = op
BY OnPathBlock DEF atInstr, Size

\* Plain instructions and calls of external functions.
LEMMA PlainOnPath ==
    ASSUME OnPath(exec), RunPlain \/ RunExternal
    PROVE  OnPath(exec')
<1>1. CASE RunPlain
  <2>1. exec.pc \in 1 .. Size(exec.at) /\ current.op = "plain" /\ exec' = goOn(current.effect[exec.value])
    BY <1>1, AtInstr DEF RunPlain
  <2> DEFINE i == <<exec.at, exec.pc>>
             v == current.effect[exec.value]
  <2>2. i \in Instrs /\ current = InstrAt(i) /\ exec.value \in Value
    BY <2>1, OnPathBlock
  <2> HIDE DEF i
  <2>3. v \in Value
    BY <2>1, <2>2, Instructions
  <2>4. ASSUME NEW x \in SUBSET Value, NEW y, exec.value \in x, Stepped(Maps, exec.at, exec.ctx, exec.pc, x, y)
        PROVE  v \in y
    <3>1. y = transferInstr(current, x)
      BY <2>1, <2>2, <2>4 DEF Stepped, i
    <3>2. QED
      BY <2>4, <3>1 DEF transferInstr
  <2> HIDE DEF v
  <2>5. OnPath(goOn(v))
    BY <2>1, <2>3, <2>4, GoOn
  <2>6. QED
    BY <2>1, <2>5 DEF v
<1>2. CASE RunExternal
  <2>1. exec.pc \in 1 .. Size(exec.at) /\ current.op = "external"
    BY <1>2, AtInstr DEF RunExternal
  <2>2. PICK v \in Value : exec' = goOn(v)
    BY <1>2 DEF RunExternal
  <2>3. ASSUME NEW x \in SUBSET Value, NEW y, exec.value \in x, Stepped(Maps, exec.at, exec.ctx, exec.pc, x, y)
        PROVE  v \in y
    <3>1. y = TOP
      BY <2>1, <2>3 DEF Stepped, current
    <3>2. QED
      BY <3>1 DEF TOP
  <2>4. QED
    BY <2>1, <2>2, <2>3, GoOn
<1>3. QED
  BY <1>1, <1>2

\* A guarded instruction whose guard fails.
LEMMA NotTakenOnPath ==
    ASSUME OnPath(exec), atInstr("branch") \/ atInstr("return"), exec.value \notin current.when
    PROVE  OnPath(goOn(exec.value))
<1>1. exec.pc \in 1 .. Size(exec.at) /\ current.op \in {"branch", "return"}
  BY AtInstr
<1>2. exec.value \in Value
  BY OnPathBlock
<1>3. current.op = "return" => isPredicated(current)
  BY <1>2 DEF isPredicated
<1>4. ASSUME NEW x \in SUBSET Value, NEW y, exec.value \in x, Stepped(Maps, exec.at, exec.ctx, exec.pc, x, y)
      PROVE  exec.value \in y
  <2>1. y = guardNotTaken(current, x)
    BY <1>1, <1>3, <1>4 DEF Stepped, current, isBranch
  <2>2. QED
    BY <2>1, <1>4 DEF guardNotTaken
<1>5. QED
  BY <1>1, <1>2, <1>4, GoOn

\* A jump to one of the targets of an instruction.
LEMMA JumpOnPath ==
    ASSUME Ended, OnPath(exec), NEW op \in {"branch", "goto", "jumptable"}, atInstr(op),
           op = "branch" => exec.value \in current.when, NEW x \in current.targets
    PROVE  OnPath(goTo(x))
<1> DEFINE b == exec.at
           c == exec.ctx
           k == exec.pc
           i == <<b, k>>
<1>1. k \in 1 .. Size(b) /\ current.op = op
  BY AtInstr
<1>2. i \in Instrs /\ current = InstrAt(i) /\ b \in MBB /\ c \in DOMAIN mbb2anainfo[b]
  BY <1>1, OnPathBlock
<1>3. x \in Blocks[b].succ
  <2>1. current.targets \in SUBSET Blocks[i[1]].succ
    <3> HIDE DEF i
    <3>1. QED
      BY <1>1, <1>2, Instructions
  <2>2. QED
    BY <2>1
<1>4. PICK out : Flow(Maps, b, c, Size(b), out)
  BY <1>2, FlowExists
<1>5. exec.value \in out[k] /\ Stepped(Maps, b, c, k, out[k], out[k + 1])
  BY <1>1, <1>4 DEF OnPath, Known, Flow
<1> DEFINE ana == IF op = "goto" THEN out[k] ELSE guardTaken(current, out[k])
<1>6. Pushed(Maps, b, c, x, ana)
  BY <1>1, <1>2, <1>5 DEF Stepped, isBranch
<1>7. exec.value \in ana
  BY <1>1, <1>5 DEF guardTaken
<1> HIDE DEF ana
<1>8. QED
  BY <1>3, <1>6, <1>7, GoTo

\* The end of a block.
LEMMA FallOnPath ==
    ASSUME Ended, OnPath(exec), FallThrough
    PROVE  OnPath(exec')
<1> DEFINE b == exec.at
           c == exec.ctx
           k == exec.pc
<1>1. b \in MBB /\ c \in DOMAIN mbb2anainfo[b] /\ k = Size(b) + 1
  BY OnPathBlock DEF FallThrough, Size
<1>2. PICK x \in LayoutSuccessors(b) : exec' = goTo(x)
  BY DEF FallThrough
<1>3. x \in Blocks[b].succ
  BY DEF LayoutSuccessors
<1>4. PICK out : /\ Flow(Maps, b, c, Size(b), out)
                 /\ \A y \in LayoutSuccessors(b) : Pushed(Maps, b, c, y, out[Size(b) + 1])
  BY <1>1, FlowExists
<1> DEFINE ana == out[Size(b) + 1]
<1>5. exec.value \in ana /\ Pushed(Maps, b, c, x, ana)
  BY <1>1, <1>4 DEF OnPath, Known
<1> HIDE DEF ana
<1>6. QED
  BY <1>2, <1>3, <1>5, GoTo

\* The execution stays where the analysis knows it to be.
LEMMA RunOnPath ==
    ASSUME ReturnsOutsideLoops, AInv, exec # NotRunning => OnPath(exec), Run
    PROVE  OnPath(exec')
<1>1. CASE Start
  BY <1>1, StartOnPath
<1>2. CASE ~ Start
  <2>1. exec # NotRunning
    BY <1>2 DEF Run, RunPlain, RunExternal, RunBranch, RunJump, RunCall, RunReturn, FallThrough, atInstr, running
  <2>2. OnPath(exec) /\ Ended
    BY <2>1 DEF AInv, Ended
  <2>3. CASE RunPlain \/ RunExternal
    BY <2>2, <2>3, PlainOnPath
  <2>4. CASE RunBranch
    <3>1. CASE exec.value \in current.when
      <4>1. PICK x \in current.targets : exec' = goTo(x)
        BY <2>4, <3>1 DEF RunBranch
      <4>2. atInstr("branch")
        BY <2>4 DEF RunBranch
      <4>3. QED
        BY <2>2, <3>1, <4>1, <4>2, JumpOnPath
    <3>2. CASE exec.value \notin current.when
      BY <2>2, <2>4, <3>2, NotTakenOnPath DEF RunBranch
    <3>3. QED
      BY <3>1, <3>2
  <2>5. CASE RunJump
    <3>1. PICK x \in current.targets : exec' = goTo(x)
      BY <2>5 DEF RunJump
    <3>2. atInstr("goto") \/ atInstr("jumptable")
      BY <2>5 DEF RunJump
    <3>3. QED
      BY <2>2, <3>1, <3>2, JumpOnPath
  <2>6. CASE RunCall
    BY <2>2, <2>6, CallOnPath
  <2>7. CASE RunReturn
    <3>1. CASE exec.value \in current.when
      BY <2>2, <2>7, <3>1, ReturnOnPath DEF RunReturn
    <3>2. CASE exec.value \notin current.when
      BY <2>2, <2>7, <3>2, NotTakenOnPath DEF RunReturn
    <3>3. QED
      BY <3>1, <3>2
  <2>8. CASE FallThrough
    BY <2>2, <2>8, FallOnPath
  <2>9. QED
    BY <1>2, <2>3, <2>4, <2>5, <2>6, <2>7, <2>8 DEF Run
<1>3. QED
  BY <1>1, <1>2

\* The invariant of the analysis and the execution.
EInv == AInv /\ (exec # NotRunning => OnPath(exec))

\* Where an execution is known to be does not change with it.
LEMMA OnPathSame ==
    ASSUME UNCHANGED analysis, OnPath(exec')
    PROVE  OnPath(exec)'
<1>1. UNCHANGED <<mbb2anainfo, funcIn, funcOut, worklist>>
  BY DEF analysis
<1>2. Maps' = Maps
  BY <1>1 DEF Maps
<1>3. \A b, c, k, v : Known(b, c, k, v)' <=> Known(b, c, k, v)
  BY <1>1, <1>2 DEF Known
<1>4. \A fr, b, c : Waiting(fr, b, c)' <=> Waiting(fr, b, c)
  BY <1>1, <1>2 DEF Waiting
<1>5. QED
  BY <1>3, <1>4 DEF OnPath

\* The execution does not run while the analysis changes.
LEMMA EInvNext ==
    ASSUME ReturnsOutsideLoops, EInv, [Next]_vars
    PROVE  EInv'
<1>1. AInv'
  BY AInvNext DEF EInv
<1>2. CASE \E item \in worklist : Analyse(item[1], item[2])
  <2>1. exec = NotRunning /\ exec' = exec
    BY <1>2 DEF EInv, AInv, Analyse
  <2>2. QED
    BY <1>1, <2>1 DEF EInv
<1>3. CASE getAnalysisResults
  <2>1. exec = NotRunning /\ exec' = exec
    BY <1>3 DEF EInv, AInv, getAnalysisResults
  <2>2. QED
    BY <1>1, <2>1 DEF EInv
<1>4. CASE Run
  <2>1. UNCHANGED analysis
    BY <1>4 DEF Run, Start, RunPlain, RunExternal, RunBranch, RunJump, RunCall, RunReturn, FallThrough
  <2>2. OnPath(exec')
    BY <1>4, RunOnPath DEF EInv
  <2>3. QED
    BY <1>1, <2>1, <2>2, OnPathSame DEF EInv
<1>5. CASE UNCHANGED vars
  <2>1. UNCHANGED analysis /\ exec' = exec
    BY <1>5 DEF vars, analysis
  <2>2. CASE exec = NotRunning
    BY <1>1, <2>1, <2>2 DEF EInv
  <2>3. CASE exec # NotRunning
    <3>1. OnPath(exec')
      BY <2>1, <2>3 DEF EInv
    <3>2. QED
      BY <1>1, <2>1, <3>1, OnPathSame DEF EInv
  <2>4. QED
    BY <2>2, <2>3
<1>6. QED
  BY <1>2, <1>3, <1>4, <1>5 DEF Next

\* What the analysis knows is in its results.
LEMMA EInvCovers ==
    EInv => ResultCoversExecution
<1> SUFFICES ASSUME EInv, exec # NotRunning, exec.pc \in DOMAIN Blocks[exec.at].instrs
             PROVE  LET info == anaInfoIn[<<exec.at, exec.pc>>]
                    IN exec.ctx \in DOMAIN info /\ exec.value \in info[exec.ctx]
  BY DEF ResultCoversExecution, running
<1> DEFINE b == exec.at
           c == exec.ctx
           k == exec.pc
           info == anaInfoIn[<<b, k>>]
<1>1. OnPath(exec) /\ Ended /\ Dumped
  BY DEF EInv, AInv, Ended
<1>2. b \in MBB /\ c \in DOMAIN mbb2anainfo[b] /\ k \in 1 .. Size(b)
  BY <1>1, OnPathBlock
<1>3. PICK outs : Solved(b, outs)
  BY <1>1, <1>2, SolvedExists DEF Ended
<1>4. Agrees(info, b, k, outs)
  BY <1>1, <1>2, <1>3 DEF Dumped
<1>5. exec.value \in outs[c][k]
  BY <1>1, <1>2, <1>3 DEF Solved, OnPath, Known
<1>6. c \in DOMAIN info /\ exec.value \in info[c]
  <2> HIDE DEF info
  <2>1. QED
    BY <1>2, <1>4, <1>5 DEF Agrees
<1>7. QED
  BY <1>6

\* Whatever the program does, the results contain it: the values it has before
\* an instruction are known there, in the context that it has there.
THEOREM ExecutionIsCovered ==
    ASSUME ReturnsOutsideLoops
    PROVE  Spec => []ResultCoversExecution
<1>1. EInv => ResultCoversExecution
  BY EInvCovers
<1>2. EInv /\ [Next]_vars => EInv'
  BY EInvNext
<1>3. Init => EInv
  BY AInvInit DEF EInv, Init
<1>4. QED
  BY <1>1, <1>2, <1>3, PTL DEF Spec
=============================================================================
