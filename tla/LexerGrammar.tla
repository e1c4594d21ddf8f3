------------------------------- MODULE LexerGrammar -------------------------------
(***************************************************************************)
(* The tokens of a text, said without saying how they are found: lexemes   *)
(* that each begin behind the last and the spaces and are as long as can   *)
(* be.  The forms are those of README.md (literals, names, operators).     *)
(***************************************************************************)
EXTENDS Naturals, Sequences, FiniteSets

CONSTANTS Spaces, Digits, WordStarts, WordChars, Symbols, Keywords, Escapes, Quote, Backslash

All(chars, set) == \A k \in DOMAIN chars : chars[k] \in set

IsInt(chars) == chars # << >> /\ All(chars, Digits)

IsFloat(chars) ==
    \E k \in DOMAIN chars :
        /\ chars[k] = "."
        /\ IsInt(SubSeq(chars, 1, k - 1)) /\ IsInt(SubSeq(chars, k + 1, Len(chars)))

IsWord(chars) == chars # << >> /\ chars[1] \in WordStarts /\ All(chars, WordChars)

(* The characters behind an odd number of backslashes. *)
IsEscaped(chars, k) ==
    \E n \in 1..(k - 1) :
        /\ n % 2 = 1
        /\ \A b \in (k - n)..(k - 1) : chars[b] = Backslash
        /\ k - n - 1 >= 1 => chars[k - n - 1] # Backslash

IsString(chars) ==
    /\ Len(chars) >= 2 /\ chars[1] = Quote
    /\ \A k \in 2..Len(chars) : k = Len(chars) <=> chars[k] = Quote /\ ~IsEscaped(chars, k)

(* The types the characters can be a lexeme of: one or none. *)
Types(chars) ==
    {t \in {"INT"} : IsInt(chars)} \cup {t \in {"FLOAT"} : IsFloat(chars)}
    \cup {t \in {"STRING"} : IsString(chars)}
    \cup {Symbols[s] : s \in {s \in DOMAIN Symbols : s = chars}}
    \cup {Keywords[w] : w \in {w \in DOMAIN Keywords : w = chars}}
    \cup {t \in {"ID"} : IsWord(chars) /\ chars \notin DOMAIN Keywords}

(* The characters that are not backslashes that escape, and what they mean.*)
Kept(chars) == {k \in DOMAIN chars : chars[k] # Backslash \/ IsEscaped(chars, k)}

Meaning(chars, k) ==
    IF IsEscaped(chars, k) /\ chars[k] \in DOMAIN Escapes THEN Escapes[chars[k]] ELSE chars[k]

(* The value of a string has what its characters mean, in their order.     *)
IsUnescaped(chars, value) ==
    /\ Len(value) = Cardinality(Kept(chars))
    /\ \A k \in Kept(chars) :
          value[Cardinality({j \in Kept(chars) : j <= k})] = Meaning(chars, k)

IsValue(chars, value) ==
    IF IsString(chars) THEN IsUnescaped(chars, value) ELSE value = chars

Slice(text, from, to) == SubSeq(text, from + 1, to)

(* A number with a dot behind it is no lexeme: "1." and "1.2.3" have none. *)
Ends(text, from) ==
    {to \in (from + 1)..Len(text) :
        /\ Types(Slice(text, from, to)) # {}
        /\ text[from + 1] \in Digits /\ to < Len(text) => text[to + 1] \notin Digits \cup {"."}}

IsMaximal(text, token) ==
    /\ token.end \in Ends(text, token.start)
    /\ \A to \in Ends(text, token.start) : to <= token.end

IsLexeme(text, token) ==
    LET chars == Slice(text, token.start, token.end)
    IN  token.type \in Types(chars) /\ IsValue(chars, token.value) /\ IsMaximal(text, token)

IsEnd(text, token) ==
    \/ token.type = "ENDOFFILE" /\ token.start = Len(text) /\ token.end = Len(text)
    \/ token.type = "INVALID" /\ token.start < Len(text) /\ Ends(text, token.start) = {}

(* Between two tokens there is nothing but spaces, and none at the start   *)
(* of a token.                                                             *)
Follows(text, from, token) ==
    /\ from <= token.start
    /\ All(Slice(text, from, token.start), Spaces)
    /\ token.start < Len(text) => text[token.start + 1] \notin Spaces

AreTokens(text, tokens) ==
    \A k \in DOMAIN tokens :
        /\ Follows(text, IF k = 1 THEN 0 ELSE tokens[k - 1].end, tokens[k])
        /\ IF tokens[k].type \in {"ENDOFFILE", "INVALID"}
           THEN k = Len(tokens) /\ IsEnd(text, tokens[k])
           ELSE IsLexeme(text, tokens[k])
=============================================================================
