----------------------- MODULE MCPipelineExploration -----------------------
(* Small programs for the exploration of pipeline states.                  *)
EXTENDS PipelineExploration

MCValue == {0}
Timed(instr, execTimes) ==
    instr @@ [load |-> FALSE, store |-> FALSE, accesses |-> 0, execTimes |-> execTimes,
              defReg |-> "none", uses |-> {}]
Op    == Timed(Plain(0), {1})
Mul   == [Timed(Plain(0), {1, 3}) EXCEPT !.uses = {"r1"}]
Load  == [Timed(Plain(0), {1}) EXCEPT !.load = TRUE, !.accesses = 1, !.defReg = "r1"]
Store == [Timed(Plain(0), {1}) EXCEPT !.store = TRUE, !.accesses = 2]
If(b)   == Timed(Branch({b}, {0}), {1})
Jump(b) == Timed(Goto(b), {1})
Switch(bs) == Timed(JumpTable(bs), {1})
Do(f)   == Timed(Call(f), {1})
Ext     == Timed(ExternalCall, {1})
Ret     == Timed(Return({0}), {1})
RetIf   == Timed(Return({}), {1})
Pop     == [Timed(Return({0}), {1}) EXCEPT !.load = TRUE, !.accesses = 1]

Entry(f, instrs, layout, succ) ==
    [func |-> f, number |-> 0, instrs |-> instrs, layout |-> layout, succ |-> succ, nest |-> <<>>]
Block(f, instrs, layout, succ) ==
    [func |-> f, number |-> 1, instrs |-> instrs, layout |-> layout, succ |-> succ, nest |-> <<>>]
Inside(nest, block) == [block EXCEPT !.nest = nest]

MCBlocks == [
  \* a loop that is entered by falling through, behind a branch over it
  w0 |-> Entry("skip", <<Load, If("w2")>>, "w1", {"w1", "w2"}),
  w1 |-> Inside(<<"while">>, Block("skip", <<Mul, If("w1")>>, "w2", {"w1", "w2"})),
  w2 |-> Block("skip", <<Ret>>, NoBlock, {}),
  \* a call outside of a loop and one in it, and an empty block behind it
  c0 |-> Entry("calls", <<Do("leaf")>>, "c1", {"c1"}),
  c1 |-> Inside(<<"again">>, Block("calls", <<Do("leaf"), If("c2"), Jump("c1")>>, "c2", {"c1", "c2"})),
  c2 |-> Block("calls", <<>>, "c3", {"c3"}),
  c3 |-> Block("calls", <<Ret>>, NoBlock, {}),
  l0 |-> Entry("leaf", <<Store, RetIf>>, "l1", {"l1"}),
  l1 |-> Block("leaf", <<Pop>>, NoBlock, {}),
  \* a jump table and an external function
  j0 |-> Entry("jumps", <<Switch({"j1", "j2"})>>, "j1", {"j1", "j2"}),
  j1 |-> Block("jumps", <<Ext, Op>>, "j2", {"j2"}),
  j2 |-> Block("jumps", <<Load, Mul, Ret>>, NoBlock, {}) ]

MCLoops == [
  while |-> [header |-> "w1", blocks |-> {"w1"}],
  again |-> [header |-> "c1", blocks |-> {"c1"}] ]

Program(f, strict, scopes) == [entry |-> f, strict |-> strict, scopes |-> scopes]
MCPrograms == {Program(f, FALSE, TRUE) : f \in {"skip", "calls", "jumps"}}
                  \cup {Program(f, TRUE, FALSE) : f \in {"skip", "calls", "jumps"}}
StrictScopes == {Program("skip", TRUE, TRUE)}
=============================================================================
