------------------------- MODULE WorklistIteration -------------------------
(***************************************************************************)
(* What the worklist iteration of the driver promises: it derives facts    *)
(* until nothing new can be derived, and derives nothing else.             *)
(*                                                                         *)
(* "known" are the facts derived so far.  Items(S) are the items (a block  *)
(* in a context) that occur in the facts S, Reads(i, S) are the facts in S *)
(* that the analysis of item i looks at, and Derive(i, S) are the facts    *)
(* that it obtains from them.                                              *)
(***************************************************************************)
EXTENDS Integers, FiniteSets

CONSTANTS Fact, Initial, Items(_), Reads(_, _), Derive(_, _)

ASSUME InitialAssumption == Initial \subseteq Fact

ASSUME ItemsAssumption ==
    \A S \in SUBSET Fact : \A T \in SUBSET Fact : S \subseteq T => Items(S) \subseteq Items(T)

ASSUME DeriveAssumption ==
    \A S \in SUBSET Fact : \A i \in Items(S) :
        /\ Derive(i, S) \subseteq Fact
        /\ \A T \in SUBSET Fact : S \subseteq T => Derive(i, S) \subseteq Derive(i, T)

(* The analysis of an item depends only on what it reads. *)
ASSUME ReadsAssumption ==
    \A S \in SUBSET Fact : \A i \in Items(S) : \A T \in SUBSET Fact :
        S \subseteq T /\ Reads(i, S) = Reads(i, T) => Derive(i, T) \subseteq Derive(i, S) \cup T

VARIABLES known, work

iterationVars == <<known, work>>

IterationInit == known = Initial /\ work = Items(Initial)

\* Mutant: only new items are put into the worklist, not the readers of new facts.
StepForgetsReaders(i) ==
    /\ i \in work
    /\ known' = known \cup Derive(i, known)
    /\ work' = (work \ {i}) \cup (Items(known') \ Items(known))

\* Mutant: successors are put into the worklist before there is information for them.
StepRunsAhead(i) ==
    /\ i \in work
    /\ known' = known \cup Derive(i, known)
    /\ work' = (work \ {i}) \cup Items(Derive(i, Fact))

\* Mutant: what is not known yet is taken for possible.
StepAssumesAll(i) ==
    /\ i \in work
    /\ known' = known \cup Derive(i, Fact)
    /\ work' = (work \ {i}) \cup (Items(known') \ Items(known))

(* Analyse an item.  An item may be left out of the worklist only if it    *)
(* has been analysed and what it reads has not changed since.              *)
Step(i) ==
    /\ i \in work
    /\ known' = known \cup Derive(i, known)
    /\ work' \in SUBSET Items(known')
    /\ \A j \in Items(known') \ work' :
          /\ j \in Items(known)
          /\ j = i \/ j \notin work
          /\ Reads(j, known') = Reads(j, known)

IterationNext == \E i \in work : Step(i)

IterationSpec == IterationInit /\ [][IterationNext]_iterationVars

----------------------------------------------------------------------------
Closed(S) == Initial \subseteq S /\ \A i \in Items(S) : Derive(i, S) \subseteq S

(* Types: facts are facts and the worklist only holds items that occur in  *)
(* them (no block is analysed in a context without information).           *)
TypeOK == known \subseteq Fact /\ work \subseteq Items(known)

(* The items outside the worklist are up to date: analysing one of them    *)
(* again would not change anything.                                        *)
UpToDate == \A i \in Items(known) \ work : Derive(i, known) \subseteq known

(* Nothing is derived that some solution does without.                     *)
NothingSpurious == \A S \in SUBSET Fact : Closed(S) => known \subseteq S

(* When the worklist is empty, the facts are the least solution; they do   *)
(* not depend on the order in which items were taken from the worklist.    *)
LeastSolution ==
    work = {} => Closed(known) /\ \A S \in SUBSET Fact : Closed(S) => known \subseteq S
=============================================================================
