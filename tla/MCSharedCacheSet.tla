-------------------------- MODULE MCSharedCacheSet --------------------------
(* The other cores run one function with one line in this set. The own    *)
(* core may access the same line.                                          *)
EXTENDS SharedCacheSet

MCTag == 0 .. 3
MCAddrlists == [f \in {"f"} |-> {3}]
=============================================================================
