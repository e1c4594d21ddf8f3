--------------------------------- MODULE MCStack ---------------------------------
(***************************************************************************)
(* Two stacks of at most three elements, and one block more than they need *)
(* for both to grow, or for one to leak.                                   *)
(***************************************************************************)
EXTENDS Stack, FiniteSets, TLC

CONSTANTS s1, s2, x, y, b1, b2, b3

MCStacks == {s1, s2}
MCValues == {x, y}
MCBlocks == {b1, b2, b3}
MCLengths == {0, 3, 4}

(* States that differ in the last outcome, in which blocks there are or in *)
(* what is in a lost one, which nothing ever reads, are taken for one.     *)
View ==
    <<live, overrun, Cardinality(DOMAIN heap),
      [s \in live |->
        <<stacks[s].capacity, stacks[s].size, Cell(s), stacks[s].mem = Null, stacks[s].mem \in copied,
          {t \in live : stacks[t].mem = stacks[s].mem}>>]>>
=============================================================================
