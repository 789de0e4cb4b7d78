---------------------------- MODULE CacheTraits ----------------------------
(***************************************************************************)
(* The dimensions of one LRU cache set, and the classification lattice of  *)
(* a cache access: include/Memory/CacheTraits.h and Classification.h.      *)
(*                                                                         *)
(* A cache analysis works on every set of the cache separately, so the     *)
(* models of the cache-set analyses see one set: an access is the tag of   *)
(* the accessed line.                                                      *)
(***************************************************************************)
EXTENDS Integers

CONSTANTS
    Tag,    \* tags of the lines that map to the modelled set
    Assoc   \* T->ASSOCIATIVITY, the number of ways

\* Ages are stored in WAY_BITS_DECL = 8 bits, and the age Assoc stands for
\* "not cached": an associativity of 256 or more does not fit.
WAY_BITS_DECL == 8

ASSUME TagAssumption   == Tag \subseteq Nat
ASSUME AssocAssumption == /\ Assoc \in Nat \ {0}
                          /\ Assoc < 256

\* The ages a line can have. Age Assoc: the line is not in the cache.
Age == 0 .. Assoc

\* Classification of an access (CL_BOT is never the result for a precise
\* address, so it is left out).
CL_HIT     == "hit"
CL_MISS    == "miss"
CL_UNKNOWN == "unknown"
Classification == {CL_HIT, CL_MISS, CL_UNKNOWN}
=============================================================================
