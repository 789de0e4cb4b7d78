-------------------------- MODULE IntervalCounter --------------------------
(***************************************************************************)
(* Counters that keep a lower and an upper bound of what they count.       *)
(* They are unsigned in the code; they are set back for every edge of the  *)
(* state graph and count cycles of a few accesses, so that the wrap-around *)
(* at 2^32 is left out.                                                    *)
(***************************************************************************)
EXTENDS Integers

Counter == [lb : Nat, ub : Nat]

counter(value) == [lb |-> value, ub |-> value]

plus(c, lb, ub) == [lb |-> c.lb + lb, ub |-> c.ub + ub]

join(c, d) ==
    [lb |-> IF c.lb > d.lb THEN d.lb ELSE c.lb,
     ub |-> IF c.ub < d.ub THEN d.ub ELSE c.ub]
=============================================================================
