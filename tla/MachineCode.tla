---------------------------- MODULE MachineCode ----------------------------
(***************************************************************************)
(* The machine code that is analysed, as LLVM presents it, and the edges   *)
(* of its natural loops (lib/Util/Util.cpp).  A value stands for whatever  *)
(* an analysis tells apart; an instruction maps values to values.          *)
(***************************************************************************)
EXTENDS Integers, Sequences, FiniteSets

CONSTANTS
    Value,      \* what an analysis domain tells apart
    Blocks,     \* block -> [func, number, instrs, layout, succ, nest], where "nest"
                \* are the loops around the block, outermost first
    Loops       \* loop -> [header, blocks]

NoBlock == "none"

MBB == DOMAIN Blocks
Functions == {Blocks[b].func : b \in MBB}
EntryBlock(f) == CHOOSE b \in MBB : Blocks[b].func = f /\ Blocks[b].number = 0
Instrs == UNION {{<<b, k>> : k \in DOMAIN Blocks[b].instrs} : b \in MBB}
InstrAt(i) == Blocks[i[1]].instrs[i[2]]

(* A block goes to blocks of its own function. An entry block is numbered 0 *)
(* and has no predecessors, as the driver asserts, nor loops around it.     *)
ASSUME CodeAssumption ==
    \A b \in MBB :
        /\ Blocks[b].succ \subseteq {c \in MBB : Blocks[c].func = Blocks[b].func /\ Blocks[c].number # 0}
        /\ IsFiniteSet(Blocks[b].succ)
        /\ Blocks[b].number = 0 => Blocks[b].nest = <<>>
        /\ \E entry \in MBB : Blocks[entry].func = Blocks[b].func /\ Blocks[entry].number = 0
        /\ \A c \in MBB : Blocks[c].func = Blocks[b].func /\ Blocks[b].number = 0 /\ Blocks[c].number = 0
                              => b = c

(* The nest of a block are the loops it is in; loops form a forest, so that *)
(* a loop is below the same loops in every nest; and loops are natural: they*)
(* are entered at their header only.                                        *)
ASSUME LoopAssumption ==
    \A b \in MBB :
        /\ Blocks[b].nest \in Seq(DOMAIN Loops)
        /\ \A l \in DOMAIN Loops :
              b \in Loops[l].blocks <=> \E k \in DOMAIN Blocks[b].nest : Blocks[b].nest[k] = l
        /\ \A c \in MBB : \A i \in DOMAIN Blocks[b].nest, j \in DOMAIN Blocks[c].nest :
              Blocks[b].nest[i] = Blocks[c].nest[j]
                  => i = j /\ \A k \in 1 .. i : Blocks[b].nest[k] = Blocks[c].nest[k]
        /\ \A c \in Blocks[b].succ : \A l \in DOMAIN Loops :
              c \in Loops[l].blocks /\ b \notin Loops[l].blocks => c = Loops[l].header

(* isLayoutSuccessor, for a successor in the control-flow graph. *)
LayoutSuccessors(b) == {Blocks[b].layout} \cap Blocks[b].succ

(* The kinds of instructions the driver distinguishes.  Calls, branches and *)
(* returns have no effect of their own (a plain instruction next to them    *)
(* can have it), and a call has one callee, as the call graph finds them.   *)
Plain(effect) == [op |-> "plain", effect |-> effect]
Call(f) == [op |-> "call", callee |-> f]
ExternalCall == [op |-> "external"]
Branch(targets, when) == [op |-> "branch", targets |-> targets, when |-> when]
Goto(b) == [op |-> "goto", targets |-> {b}]
JumpTable(targets) == [op |-> "jumptable", targets |-> targets]
Return(when) == [op |-> "return", when |-> when]

isCall(instr) == instr.op \in {"call", "external"}
isBranch(instr) == instr.op \in {"branch", "goto", "jumptable"}
isPredicated(instr) == instr.when # Value

(***************************************************************************)
(* The edges of a loop                                                     *)
(***************************************************************************)
isIncomingEdgeOfLoop(edge, l) == edge[2] = Loops[l].header /\ edge[1] \notin Loops[l].blocks
isExitingEdgeOfLoop(edge, l)  == edge[1] \in Loops[l].blocks /\ edge[2] \notin Loops[l].blocks
isBackEdgeOfLoop(edge, l)     == edge[2] = Loops[l].header /\ edge[1] \in Loops[l].blocks
=============================================================================
