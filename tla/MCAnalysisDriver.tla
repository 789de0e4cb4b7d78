------------------------- MODULE MCAnalysisDriver -------------------------
EXTENDS AnalysisDriver

(* Values 0 to 2 of a saturating counter. *)
MCValue == 0..2
Increment == Plain([v \in MCValue |-> IF v = 2 THEN 2 ELSE v + 1])
Reset == Plain([v \in MCValue |-> 0])
Swap == Plain([v \in MCValue |-> IF v = 0 THEN 0 ELSE 3 - v])

Entry(f, instrs, layout, succ) ==
    [func |-> f, number |-> 0, instrs |-> instrs, layout |-> layout, succ |-> succ, nest |-> <<>>]
Block(f, instrs, layout, succ) ==
    [func |-> f, number |-> 1, instrs |-> instrs, layout |-> layout, succ |-> succ, nest |-> <<>>]
Inside(nest, block) == [block EXCEPT !.nest = nest]

MCBlocks == [
  \* two nested loops; n2 -> n4 leaves both, n3 -> n1 leaves the inner one and
  \* is the back edge of the outer one
  n0 |-> Entry("nest", <<Reset>>, "n1", {"n1"}),
  n1 |-> Inside(<<"outer">>, Block("nest", <<>>, "n2", {"n2"})),
  n2 |-> Inside(<<"outer", "inner">>, Block("nest", <<Branch({"n4"}, {2})>>, "n3", {"n3", "n4"})),
  n3 |-> Inside(<<"outer", "inner">>, Block("nest", <<Increment, Branch({"n2"}, {1}), Goto("n1")>>, "n4", {"n2", "n1"})),
  n4 |-> Block("nest", <<Return(MCValue)>>, NoBlock, {}),
  \* a predicated return, and a loop of one block
  f0 |-> Entry("leaf", <<Increment, Return({1})>>, "f1", {"f1"}),
  f1 |-> Inside(<<"repeat">>, Block("leaf", <<Swap, Branch({"f1"}, {1})>>, "f2", {"f1", "f2"})),
  f2 |-> Block("leaf", <<Return(MCValue)>>, NoBlock, {}),
  \* calls: in a loop, of an external function
  t0 |-> Entry("calls", <<Reset>>, "t1", {"t1"}),
  t1 |-> Inside(<<"again">>, Block("calls", <<Call("leaf"), Branch({"t1"}, {1})>>, "t2", {"t1", "t2"})),
  t2 |-> Block("calls", <<JumpTable({"t3", "t4"})>>, "t3", {"t3", "t4"}),
  t3 |-> Block("calls", <<ExternalCall>>, "t4", {"t4"}),
  t4 |-> Block("calls", <<Return(MCValue)>>, NoBlock, {}),
  \* two calls in a block
  d0 |-> Entry("twice", <<Call("inc"), Call("inc")>>, "d1", {"d1"}),
  d1 |-> Block("twice", <<Return(MCValue)>>, NoBlock, {}),
  i0 |-> Entry("inc", <<Increment, Return(MCValue)>>, NoBlock, {}),
  \* mutual recursion
  r0 |-> Entry("rec", <<Branch({"r2"}, {2})>>, "r1", {"r1", "r2"}),
  r1 |-> Block("rec", <<Increment, Call("cer"), Reset>>, "r2", {"r2"}),
  r2 |-> Block("rec", <<Return(MCValue)>>, NoBlock, {}),
  c0 |-> Entry("cer", <<Branch({"c2"}, {2})>>, "c1", {"c1", "c2"}),
  c1 |-> Block("cer", <<Increment, Call("rec")>>, "c2", {"c2"}),
  c2 |-> Block("cer", <<Return(MCValue)>>, NoBlock, {}) ]

MCLoops == [
  outer |-> [header |-> "n1", blocks |-> {"n1", "n2", "n3"}],
  inner |-> [header |-> "n2", blocks |-> {"n2", "n3"}],
  repeat |-> [header |-> "f1", blocks |-> {"f1"}],
  again |-> [header |-> "t1", blocks |-> {"t1"}] ]
=============================================================================
