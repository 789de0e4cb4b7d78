------------------------ MODULE MCWorklistIteration ------------------------
(* Facts are numbers, each of them an item.  The analysis of the item      *)
(* rule[1] derives rule[3] once it finds the facts rule[2]; 4 and 7 depend *)
(* on other items' results, 6 and 8 only follow from each other.           *)
EXTENDS WorklistIteration

MCFact == 1..9
MCInitial == {1}
Rules == {<<1, {1}, 2>>, <<1, {1}, 3>>, <<2, {2, 3}, 4>>, <<4, {4}, 1>>, <<4, {4}, 5>>,
          <<3, {3, 5}, 7>>, <<2, {2, 7}, 9>>,
          <<6, {6}, 8>>, <<3, {8}, 6>>}

MCItems(S) == S
MCReads(i, S) == {x \in S : \E r \in Rules : r[1] = i /\ x \in r[2]}
MCDerive(i, S) == {r[3] : r \in {r \in Rules : r[1] = i /\ r[2] \subseteq S}}
=============================================================================
