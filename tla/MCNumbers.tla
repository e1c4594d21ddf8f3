-------------------------------- MODULE MCNumbers --------------------------------
(***************************************************************************)
(* Values small enough for model checking: integers of 3 bits, doubles of  *)
(* a few halves, strings that are made of pieces.                          *)
(***************************************************************************)
EXTENDS Integers, Sequences, TLC

MCIntMin == -4
MCIntMax == 3

(* Doubles: the multiples of a half from -4.5 to 4.5, counted in halves,   *)
(* the infinities and NaN.  Results are truncated to them.                 *)
Infinity == 10
NaN == 99
MCDoubles == -Infinity..Infinity \cup {NaN}
MCZeroDouble == 0

MCDoubleLess(l, r) == NaN \notin {l, r} /\ l < r
MCDoubleEqual(l, r) == NaN \notin {l, r} /\ l = r
MCToDouble(n) == 2 * n

Saturated(n) == IF n > Infinity THEN Infinity ELSE IF n < -Infinity THEN -Infinity ELSE n
IsInfinite(x) == x \in {Infinity, -Infinity}
Sign(n) == IF n < 0 THEN -1 ELSE IF n > 0 THEN 1 ELSE 0
Size(n) == Sign(n) * n
InfiniteOf(l, r) == IF Sign(l) * Sign(r) = 0 THEN NaN ELSE Sign(l) * Sign(r) * Infinity

Sum2(l, r) == IF IsInfinite(l) /\ IsInfinite(r) /\ l # r THEN NaN
              ELSE IF IsInfinite(l) THEN l ELSE IF IsInfinite(r) THEN r ELSE Saturated(l + r)
Product2(l, r) == IF IsInfinite(l) \/ IsInfinite(r) THEN InfiniteOf(l, r)
                  ELSE Saturated(Sign(l) * Sign(r) * ((Size(l) * Size(r)) \div 2))
Ratio(l, r) == IF IsInfinite(r) THEN (IF IsInfinite(l) THEN NaN ELSE 0)
               ELSE IF IsInfinite(l) THEN InfiniteOf(l, r)
               ELSE Saturated(Sign(l) * Sign(r) * ((2 * Size(l)) \div Size(r)))

MCDoubleOp(func, a) ==
    IF \E k \in DOMAIN a : a[k] = NaN THEN NaN
    ELSE CASE func = "ADD_DOUBLE_DOUBLE" -> Sum2(a[1], a[2])
           [] func = "SUB_DOUBLE_DOUBLE" -> Sum2(a[1], -a[2])
           [] func = "MULT_DOUBLE_DOUBLE" -> Product2(a[1], a[2])
           [] func = "DIV_DOUBLE_DOUBLE" -> Ratio(a[1], a[2])
           [] func = "NEGATE_DOUBLE" -> -a[1]
           [] func = "ABS_DOUBLE" -> Size(a[1])
           [] func = "EXP_DOUBLE" -> IF a[1] < 0 THEN 1 ELSE Saturated(2 + 2 * a[1])
           [] func \in {"SIN_DOUBLE", "COS_DOUBLE"} -> IF IsInfinite(a[1]) THEN NaN ELSE a[1] % 3

(* An infinity and NaN have no integer: their conversion is undefined.     *)
MCRounded(func, x) ==
    IF x = NaN \/ IsInfinite(x) THEN MCIntMax + 1
    ELSE CASE func = "FLOOR_DOUBLE" -> x \div 2
           [] func = "CEIL_DOUBLE" -> (x + 1) \div 2
           [] func = "ROUND_DOUBLE" -> Sign(x) * ((Size(x) + 1) \div 2)

(* A string is the sequence of the pieces it was made from. *)
MCStrings == Seq(STRING)
MCText(func, a) ==
    CASE func = "ADD_STRING_STRING" -> a[1] \o a[2]
      [] func = "TO_STRING_INT" -> <<ToString(a[1])>>
      [] func = "TO_STRING_DOUBLE" -> <<"halves", ToString(a[1])>>
      [] func = "TO_STRING_BOOL" -> IF a[1] THEN <<"1">> ELSE <<"0">>

MCParsed(type, text) ==
    CASE type = "integer" -> (CHOOSE n \in MCIntMin..MCIntMax : ToString(n) = text)
      [] type = "double" -> 3
      [] type = "boolean" -> text = "true"
      [] type = "string" -> <<text>>
=============================================================================
