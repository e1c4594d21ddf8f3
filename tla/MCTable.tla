--------------------------------- MODULE MCTable ---------------------------------
(***************************************************************************)
(* Table with up to five keys, so that tables of every parity and depth of  *)
(* search, and gaps between the keys at every place, occur.                *)
(***************************************************************************)
EXTENDS Table

MCKeys == 1..5
MCVals == 11..12
=============================================================================
