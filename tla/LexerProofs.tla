------------------------------- MODULE LexerProofs -------------------------------
(***************************************************************************)
(* Proofs about Lexer, for texts of any length: the positions stay in the  *)
(* text, and the tokens are the longest lexemes (LexerInv).                *)
(***************************************************************************)
EXTENDS Lexer, FiniteSetTheorems, SequenceTheorems, TLAPS

IsSeq(s) == \E S : s \in Seq(S)

(* The types behind which the lexer stops. *)
Final == {"ENDOFFILE", "INVALID"}

LexerTyped ==
    /\ IsSeq(text) /\ IsSeq(tokens) /\ IsSeq(value)
    /\ index \in 0..Len(text)
    /\ \A k \in DOMAIN tokens : tokens[k].start \in 0..Len(text) /\ tokens[k].end \in 0..Len(text)
    /\ pc \in {"token", "number", "string", "word", "done"}
    /\ start \in 0..index /\ dots \in 0..2 /\ escaped \in BOOLEAN
    /\ Len(value) <= index
    /\ pc # "done" => pos = 0
    /\ pc = "done" => pos \in 0..(Len(tokens) - 1)

(* Behind the last token there are only spaces up to a position.           *)
Behind(toks) == IF toks = << >> THEN 0 ELSE toks[Len(toks)].end

SpacesTo(t, toks, to) ==
    Behind(toks) <= to /\ \A k \in (Behind(toks) + 1)..to : t[k] \in Spaces

(* What has been read of a number, a word and a string from a position on. *)
IsNumberChar(c) == c \in Digits \/ c = "."

IsNumberPrefix(t, from, to, n) ==
    /\ from < Len(t) /\ t[from + 1] \in Digits
    /\ \A k \in (from + 1)..to : IsNumberChar(t[k])
    /\ n = 0 => \A k \in (from + 1)..to : t[k] \in Digits
    /\ n = 1 => \E d \in (from + 1)..to :
                   t[d] = "." /\ \A k \in (from + 1)..to : k # d => t[k] \in Digits
    /\ n = 2 => from < to /\ t[to] = "." /\ \E d \in (from + 1)..(to - 1) : t[d] = "."

IsWordPrefix(t, from, to) ==
    /\ from < Len(t) /\ t[from + 1] \in WordStarts
    /\ \A k \in (from + 1)..to : t[k] \in WordChars

(* The characters end with n backslashes.                                  *)
EndsWith(n, chars) ==
    /\ n \in 0..(Len(chars) - 1) /\ chars[Len(chars) - n] # Backslash
    /\ \A k \in (Len(chars) - n + 1)..Len(chars) : chars[k] = Backslash

IsStringPrefix(chars, esc) ==
    /\ Len(chars) >= 1 /\ chars[1] = Quote
    /\ \A k \in 2..Len(chars) : chars[k] = Quote => Grammar!IsEscaped(chars, k)
    /\ \E n \in Nat : EndsWith(n, chars) /\ (esc <=> n % 2 = 1)

(* Where the token begins that is read.                                    *)
Beginning ==
    CASE pc = "token" -> index
      [] pc = "string" -> start
      [] OTHER -> index - Len(value)

Scanned == Grammar!Slice(text, Beginning, index)

ScanInv ==
    /\ pc # "done" => SpacesTo(text, tokens, Beginning)
    /\ pc \in {"number", "word"} => value = Scanned
    /\ pc = "number" => IsNumberPrefix(text, Beginning, index, dots)
    /\ pc = "word" => IsWordPrefix(text, Beginning, index)
    /\ pc = "string" =>
          /\ start < index
          /\ IsStringPrefix(Scanned, escaped) /\ Grammar!IsUnescaped(Scanned, value)

EndInv ==
    IF pc = "done" THEN tokens # << >> /\ tokens[Len(tokens)].type \in Final
                   ELSE \A k \in DOMAIN tokens : tokens[k].type \notin Final

LexerInv == LexerTyped /\ Grammar!AreTokens(text, tokens) /\ EndInv /\ ScanInv
-----------------------------------------------------------------------------
LEMMA SymbolTypes ==
    /\ \A c \in DOMAIN SpecialSymbols : SpecialSymbols[c] \notin Final
    /\ \A s \in DOMAIN CompositeSpecialSymbols : CompositeSpecialSymbols[s] \notin Final
    /\ "." \in DOMAIN SpecialSymbols
    /\ \A s \in DOMAIN CompositeSpecialSymbols :
          Len(s) = 2 /\ s = <<s[1], s[2]>> /\ s[1] \in DOMAIN SpecialSymbols
<1>1. \A c \in DOMAIN SpecialSymbols : SpecialSymbols[c] \notin Final
  BY DEF SpecialSymbols, Final
<1>2. \A s \in DOMAIN CompositeSpecialSymbols : CompositeSpecialSymbols[s] \notin Final
  BY DEF CompositeSpecialSymbols, Final
<1>3. "." \in DOMAIN SpecialSymbols
  BY DEF SpecialSymbols
<1>4. ASSUME NEW s \in DOMAIN CompositeSpecialSymbols
      PROVE  Len(s) = 2 /\ s = <<s[1], s[2]>> /\ s[1] \in DOMAIN SpecialSymbols
  <2>1. {":", "<", ">"} \subseteq DOMAIN SpecialSymbols
    BY DEF SpecialSymbols
  <2>2. s \in {<<":", "=">>, <<"<", "=">>, <<">", "=">>, <<"<", ">">>}
    BY DEF CompositeSpecialSymbols
  <2>3. PICK a, b : s = <<a, b>> /\ a \in {":", "<", ">"}
    BY <2>2
  <2> QED
    BY <2>1, <2>3
<1> QED
  BY <1>1, <1>2, <1>3, <1>4

LEMMA ClassesDiffer ==
    /\ Spaces \cap DOMAIN SpecialSymbols = {} /\ Spaces \cap Digits = {}
    /\ Quote \notin Spaces /\ Spaces \cap WordStarts = {}
    /\ DOMAIN SpecialSymbols \cap Digits = {} /\ Quote \notin DOMAIN SpecialSymbols
    /\ DOMAIN SpecialSymbols \cap WordStarts = {}
    /\ Quote \notin Digits /\ Digits \cap WordStarts = {} /\ Quote \notin WordStarts
<1> DEFINE classes == <<Spaces, DOMAIN SpecialSymbols, Digits, {Quote}, WordStarts>>
<1>1. \A k, l \in 1..5 : k # l => classes[k] \cap classes[l] = {}
  BY LexerAssumption
<1>2. /\ classes[1] = Spaces /\ classes[2] = DOMAIN SpecialSymbols /\ classes[3] = Digits
      /\ classes[4] = {Quote} /\ classes[5] = WordStarts
  OBVIOUS
<1> HIDE DEF classes
<1>3. /\ classes[1] \cap classes[2] = {} /\ classes[1] \cap classes[3] = {}
      /\ classes[1] \cap classes[4] = {} /\ classes[1] \cap classes[5] = {}
      /\ classes[2] \cap classes[3] = {} /\ classes[2] \cap classes[4] = {}
      /\ classes[2] \cap classes[5] = {} /\ classes[3] \cap classes[4] = {}
      /\ classes[3] \cap classes[5] = {} /\ classes[4] \cap classes[5] = {}
  BY <1>1
<1> QED
  BY <1>2, <1>3

LEMMA QuoteIsNoBackslash == Quote # Backslash
BY DEF Quote, Backslash
-----------------------------------------------------------------------------
LEMMA Appended ==
    ASSUME NEW s, NEW x, IsSeq(s)
    PROVE  /\ IsSeq(Append(s, x)) /\ Len(Append(s, x)) = Len(s) + 1
           /\ Len(s) \in Nat /\ DOMAIN s = 1..Len(s)
           /\ DOMAIN Append(s, x) = 1..(Len(s) + 1)
           /\ Append(s, x)[Len(s) + 1] = x
           /\ \A k \in 1..Len(s) : Append(s, x)[k] = s[k]
<1>1. PICK S : s \in Seq(S)
  BY DEF IsSeq
<1>2. s \in Seq(S \cup {x})
  BY <1>1
<1>3. Append(s, x) \in Seq(S \cup {x})
  BY <1>2
<1> QED
  BY <1>2, <1>3 DEF IsSeq

(* The characters between two positions.                                   *)
LEMMA Sliced ==
    ASSUME NEW t, IsSeq(t), NEW from \in Nat, NEW to \in Nat, from <= to, to <= Len(t)
    PROVE  /\ IsSeq(Grammar!Slice(t, from, to))
           /\ Len(Grammar!Slice(t, from, to)) = to - from
           /\ DOMAIN Grammar!Slice(t, from, to) = 1..(to - from)
           /\ \A k \in 1..(to - from) : Grammar!Slice(t, from, to)[k] = t[from + k]
<1>1. PICK S : t \in Seq(S)
  BY DEF IsSeq
<1>2. \A k \in (from + 1)..to : t[k] \in S
  BY <1>1
<1>3. SubSeq(t, from + 1, to) \in Seq(S)
  BY <1>1, <1>2, SubSeqProperties
<1> QED
  BY <1>1, <1>3, SubSeqProperties DEF Grammar!Slice, IsSeq

(* One character more.                                                     *)
LEMMA SliceGrows ==
    ASSUME NEW t, IsSeq(t), NEW from \in Nat, NEW to \in Nat, from <= to, to < Len(t)
    PROVE  Grammar!Slice(t, from, to + 1) = Append(Grammar!Slice(t, from, to), t[to + 1])
<1>1. PICK S : t \in Seq(S)
  BY DEF IsSeq
<1>2. t[to + 1] \in S
  BY <1>1
<1> DEFINE s == Grammar!Slice(t, from, to)
           u == Grammar!Slice(t, from, to + 1)
<1>8. Len(t) \in Nat /\ to <= Len(t) /\ to + 1 \in Nat /\ to + 1 <= Len(t) /\ from <= to + 1
  BY <1>1
<1>3. /\ IsSeq(s) /\ Len(s) = to - from
      /\ \A k \in 1..(to - from) : s[k] = t[from + k]
  BY <1>8, Sliced, Zenon
<1>4. /\ IsSeq(u) /\ Len(u) = to + 1 - from /\ DOMAIN u = 1..(to + 1 - from)
      /\ \A k \in 1..(to + 1 - from) : u[k] = t[from + k]
  <2>1. PICK n : n = to + 1
    OBVIOUS
  <2>2. n \in Nat /\ from <= n /\ n <= Len(t)
    BY <1>8, <2>1
  <2>3. /\ IsSeq(Grammar!Slice(t, from, n)) /\ Len(Grammar!Slice(t, from, n)) = n - from
        /\ DOMAIN Grammar!Slice(t, from, n) = 1..(n - from)
        /\ \A k \in 1..(n - from) : Grammar!Slice(t, from, n)[k] = t[from + k]
    BY <2>2, Sliced
  <2> QED
    BY <2>1, <2>3
<1> HIDE DEF s, u
<1>5. IsSeq(Append(s, t[to + 1])) /\ Len(Append(s, t[to + 1])) = to - from + 1
      /\ DOMAIN Append(s, t[to + 1]) = 1..(to - from + 1)
  BY <1>3, Appended
<1>6. \A k \in 1..(to + 1 - from) : Append(s, t[to + 1])[k] = u[k]
  <2>1. \A k \in 1..(to - from) : Append(s, t[to + 1])[k] = u[k]
    <3>1. \A k \in 1..(to - from) : Append(s, t[to + 1])[k] = s[k]
      BY <1>3, Appended
    <3> QED
      BY <1>3, <1>4, <3>1
  <2>2. Append(s, t[to + 1])[to + 1 - from] = u[to + 1 - from]
    <3>1. Append(s, t[to + 1])[Len(s) + 1] = t[to + 1]
      BY <1>3, Appended
    <3>2. Len(s) + 1 = to + 1 - from
      BY <1>3
    <3>3. u[to + 1 - from] = t[to + 1]
      <4>1. to + 1 - from \in 1..(to + 1 - from) /\ from + (to + 1 - from) = to + 1
        OBVIOUS
      <4> QED
        BY <1>4, <4>1
    <3> QED
      BY <3>1, <3>2, <3>3
  <2>3. \A k \in 1..(to + 1 - from) : k \in 1..(to - from) \/ k = to + 1 - from
    OBVIOUS
  <2> QED
    BY <2>1, <2>2, <2>3
<1>7. u = Append(s, t[to + 1])
  <2>1. PICK A : u \in Seq(A)
    BY <1>4 DEF IsSeq
  <2>2. PICK B : Append(s, t[to + 1]) \in Seq(B)
    BY <1>5 DEF IsSeq
  <2> QED
    BY <2>1, <2>2, <1>4, <1>5, <1>6, SeqEqual
<1> QED
  BY <1>7 DEF s, u
-----------------------------------------------------------------------------
(* What a lexeme can begin with.                                           *)
LEMMA IntBegins ==
    ASSUME NEW chars, IsSeq(chars), Grammar!IsInt(chars)
    PROVE  chars[1] \in Digits /\ \A k \in 1..Len(chars) : chars[k] \in Digits
<1>1. PICK S : chars \in Seq(S)
  BY DEF IsSeq
<1>2. DOMAIN chars = 1..Len(chars) /\ Len(chars) \in Nat /\ Len(chars) # 0
  BY <1>1 DEF Grammar!IsInt
<1> QED
  BY <1>2 DEF Grammar!IsInt, Grammar!All

LEMMA FloatBegins ==
    ASSUME NEW chars, IsSeq(chars), Grammar!IsFloat(chars)
    PROVE  /\ chars[1] \in Digits
           /\ \E k \in 1..Len(chars) :
                 /\ chars[k] = "." /\ 1 < k /\ k < Len(chars)
                 /\ \A j \in 1..Len(chars) : j # k => chars[j] \in Digits
<1>1. PICK S : chars \in Seq(S)
  BY DEF IsSeq
<1>2. PICK k \in DOMAIN chars :
         /\ chars[k] = "."
         /\ Grammar!IsInt(SubSeq(chars, 1, k - 1)) /\ Grammar!IsInt(SubSeq(chars, k + 1, Len(chars)))
  BY DEF Grammar!IsFloat
<1>3. DOMAIN chars = 1..Len(chars) /\ Len(chars) \in Nat /\ k \in 1..Len(chars)
      /\ \A j \in 1..Len(chars) : chars[j] \in S
  BY <1>1
<1> DEFINE a == SubSeq(chars, 1, k - 1)
           b == SubSeq(chars, k + 1, Len(chars))
<1>4. a \in Seq(S) /\ Len(a) = k - 1 /\ \A j \in 1..(k - 1) : a[j] = chars[j]
  <2>1. k - 1 \in Int /\ \A j \in 1..(k - 1) : chars[j] \in S
    BY <1>3
  <2> QED
    BY <1>3, <2>1, SubSeqProperties
<1>5. b \in Seq(S) /\ Len(b) = Len(chars) - k
      /\ \A j \in 1..(Len(chars) - k) : b[j] = chars[k + j]
  <2>1. k + 1 \in Int /\ Len(chars) \in Int /\ \A j \in (k + 1)..Len(chars) : chars[j] \in S
    BY <1>3
  <2> QED
    BY <1>3, <2>1, SubSeqProperties
<1>6. a # << >> /\ b # << >>
  BY <1>2 DEF Grammar!IsInt
<1>7. /\ \A j \in 1..Len(a) : a[j] \in Digits
      /\ \A j \in 1..Len(b) : b[j] \in Digits
  BY <1>2, <1>4, <1>5, IntBegins DEF IsSeq
<1> HIDE DEF a, b
<1>8. 1 < k /\ k < Len(chars)
  BY <1>3, <1>4, <1>5, <1>6
<1>9. \A j \in 1..(k - 1) : chars[j] \in Digits
  BY <1>4, <1>7
<1>10. ASSUME NEW j \in (k + 1)..Len(chars) PROVE chars[j] \in Digits
  <2>1. j - k \in 1..(Len(chars) - k) /\ k + (j - k) = j
    BY <1>3, <1>10
  <2> QED
    BY <1>5, <1>7, <2>1
<1>11. \A j \in 1..Len(chars) : j # k => chars[j] \in Digits
  BY <1>3, <1>9, <1>10
<1> QED
  BY <1>2, <1>3, <1>8, <1>9, <1>11

LEMMA SymbolsAre ==
    /\ DOMAIN Symbols = {<<c>> : c \in DOMAIN SpecialSymbols} \cup DOMAIN CompositeSpecialSymbols
    /\ \A s \in DOMAIN Symbols :
          Symbols[s] = IF Len(s) = 1 THEN SpecialSymbols[s[1]] ELSE CompositeSpecialSymbols[s]
BY DEF Symbols

LEMMA SymbolBegins ==
    ASSUME NEW chars \in DOMAIN Symbols
    PROVE  chars[1] \in DOMAIN SpecialSymbols /\ Len(chars) \in 1..2
<1>1. \/ \E c \in DOMAIN SpecialSymbols : chars = <<c>>
      \/ chars \in DOMAIN CompositeSpecialSymbols
  BY DEF Symbols
<1> QED
  BY <1>1, SymbolTypes

(* A lexeme begins with a character of one class, which decides what it is.*)
LEMMA LexemeBegins ==
    ASSUME NEW chars, IsSeq(chars), Grammar!Types(chars) # {}
    PROVE  \/ chars[1] \in Digits /\ (Grammar!IsInt(chars) \/ Grammar!IsFloat(chars))
           \/ chars[1] = Quote /\ Grammar!IsString(chars)
           \/ chars[1] \in DOMAIN SpecialSymbols /\ chars \in DOMAIN Symbols
           \/ chars[1] \in WordStarts /\ \A k \in DOMAIN chars : chars[k] \in WordChars
<1>1. \/ Grammar!IsInt(chars) \/ Grammar!IsFloat(chars) \/ Grammar!IsString(chars)
      \/ chars \in DOMAIN Symbols \/ chars \in DOMAIN Keywords \/ Grammar!IsWord(chars)
  BY DEF Grammar!Types
<1>2. CASE Grammar!IsInt(chars) \/ Grammar!IsFloat(chars)
  BY <1>2, IntBegins, FloatBegins
<1>3. CASE Grammar!IsString(chars)
  BY <1>3 DEF Grammar!IsString
<1>4. CASE chars \in DOMAIN Symbols
  BY <1>4, SymbolBegins
<1>5. CASE chars \in DOMAIN Keywords
  BY <1>5, KeywordsAssumption
<1>6. CASE Grammar!IsWord(chars)
  BY <1>6 DEF Grammar!IsWord, Grammar!All
<1> QED
  BY <1>1, <1>2, <1>3, <1>4, <1>5, <1>6
-----------------------------------------------------------------------------
(* A token behind the last one.                                            *)
LEMMA TokenAdded ==
    ASSUME LexerInv, pc # "done",
           NEW type, NEW val, NEW from \in 0..Len(text), NEW to \in 0..Len(text),
           Emit(type, val, from, to), UNCHANGED <<text, pos>>,
           SpacesTo(text, tokens, from), from < Len(text) => text[from + 1] \notin Spaces,
           IF type \in Final
           THEN Grammar!IsEnd(text, [type |-> type, value |-> val, start |-> from, end |-> to])
           ELSE /\ index' = to
                /\ Grammar!IsLexeme(text, [type |-> type, value |-> val, start |-> from, end |-> to]),
           IsSeq(value'), index' \in 0..Len(text), start' \in 0..index', dots' \in 0..2,
           escaped' \in BOOLEAN, Len(value') <= index'
    PROVE  LexerInv'
<1> DEFINE tok == [type |-> type, value |-> val, start |-> from, end |-> to]
<1>1. tokens' = Append(tokens, tok) /\ pc' = IF type \in Final THEN "done" ELSE "token"
  BY DEF Emit, Final
<1>2. tok.type = type /\ tok.value = val /\ tok.start = from /\ tok.end = to
  OBVIOUS
<1>3. IF type \in Final THEN Grammar!IsEnd(text, tok)
                        ELSE index' = to /\ Grammar!IsLexeme(text, tok)
  OBVIOUS
<1> HIDE DEF tok
<1>4. IsSeq(tokens)
  BY DEF LexerInv, LexerTyped
<1>5. /\ IsSeq(tokens') /\ Len(tokens') = Len(tokens) + 1
      /\ Len(tokens) \in Nat /\ DOMAIN tokens = 1..Len(tokens)
      /\ DOMAIN tokens' = 1..(Len(tokens) + 1)
      /\ tokens'[Len(tokens) + 1] = tok
      /\ \A k \in 1..Len(tokens) : tokens'[k] = tokens[k]
  BY <1>1, <1>4, Appended
<1>6. Behind(tokens') = to
  <2>1. tokens' # << >>
    BY <1>5
  <2> QED
    BY <1>2, <1>5, <2>1 DEF Behind
<1>7. \A k \in DOMAIN tokens : tokens[k].type \notin Final
  BY DEF LexerInv, EndInv
<1>8. LexerTyped'
  <2>1. \A k \in DOMAIN tokens' : tokens'[k].start \in 0..Len(text') /\ tokens'[k].end \in 0..Len(text')
    BY <1>2, <1>5 DEF LexerInv, LexerTyped
  <2>2. pos = 0 /\ IsSeq(text)
    BY DEF LexerInv, LexerTyped
  <2> QED
    BY <1>1, <1>5, <2>1, <2>2 DEF LexerTyped
<1>9. EndInv'
  <2>1. pc' = "done" <=> type \in Final
    BY <1>1
  <2>2. tokens' # << >>
    BY <1>5
  <2> QED
    BY <1>2, <1>5, <1>7, <2>1, <2>2 DEF EndInv
<1>10. Grammar!Follows(text, Behind(tokens), tok)
  <2>1. Behind(tokens) \in Nat /\ Behind(tokens) <= from /\ from <= Len(text) /\ from \in Nat /\ IsSeq(text)
        /\ Len(text) \in Nat
    <3>1. IsSeq(text) /\ Len(text) \in Nat
      BY Appended DEF LexerInv, LexerTyped
    <3> QED
      BY <1>5, <3>1 DEF LexerInv, LexerTyped, Behind, SpacesTo
  <2> DEFINE s == Grammar!Slice(text, Behind(tokens), from)
  <2>2. DOMAIN s = 1..(from - Behind(tokens))
        /\ \A k \in 1..(from - Behind(tokens)) : s[k] = text[Behind(tokens) + k]
    BY <2>1, Sliced
  <2> HIDE DEF s
  <2>3. \A k \in DOMAIN s : s[k] \in Spaces
    BY <2>1, <2>2 DEF SpacesTo
  <2> QED
    BY <1>2, <2>1, <2>3 DEF Grammar!Follows, Grammar!All, s
<1>11. Grammar!AreTokens(text, tokens')
  <2>1. ASSUME NEW k \in 1..Len(tokens)
        PROVE  /\ Grammar!Follows(text, IF k = 1 THEN 0 ELSE tokens'[k - 1].end, tokens'[k])
               /\ IF tokens'[k].type \in Final
                  THEN k = Len(tokens') /\ Grammar!IsEnd(text, tokens'[k])
                  ELSE Grammar!IsLexeme(text, tokens'[k])
    <3>1. /\ Grammar!Follows(text, IF k = 1 THEN 0 ELSE tokens[k - 1].end, tokens[k])
          /\ tokens[k].type \notin Final => Grammar!IsLexeme(text, tokens[k])
      BY <1>5 DEF LexerInv, Grammar!AreTokens, Final
    <3>2. tokens'[k] = tokens[k] /\ tokens[k].type \notin Final
          /\ (k # 1 => tokens'[k - 1] = tokens[k - 1])
      BY <1>5, <1>7
    <3> QED
      BY <3>1, <3>2
  <2>2. /\ Grammar!Follows(text, IF Len(tokens) + 1 = 1 THEN 0 ELSE tokens'[Len(tokens)].end, tok)
        /\ IF tok.type \in Final
           THEN Len(tokens) + 1 = Len(tokens') /\ Grammar!IsEnd(text, tok)
           ELSE Grammar!IsLexeme(text, tok)
    <3>1. Behind(tokens) = IF Len(tokens) + 1 = 1 THEN 0 ELSE tokens'[Len(tokens)].end
      <4>1. tokens = << >> <=> Len(tokens) = 0
        BY <1>4, EmptySeq DEF IsSeq
      <4> QED
        BY <1>5, <4>1 DEF Behind
    <3> QED
      BY <1>2, <1>3, <1>5, <1>10, <3>1
  <2>3. ASSUME NEW k \in DOMAIN tokens'
        PROVE  /\ Grammar!Follows(text, IF k = 1 THEN 0 ELSE tokens'[k - 1].end, tokens'[k])
               /\ IF tokens'[k].type \in Final
                  THEN k = Len(tokens') /\ Grammar!IsEnd(text, tokens'[k])
                  ELSE Grammar!IsLexeme(text, tokens'[k])
    <3>1. CASE k \in 1..Len(tokens)
      BY <2>1, <3>1, Zenon
    <3>2. CASE k = Len(tokens) + 1
      <4>1. k - 1 = Len(tokens) /\ tokens'[k] = tok
        BY <1>5, <3>2
      <4> QED
        BY <2>2, <3>2, <4>1, Zenon
    <3>3. k \in 1..Len(tokens) \/ k = Len(tokens) + 1
      BY <1>5
    <3> QED
      BY <3>1, <3>2, <3>3, Zenon
  <2> QED
    BY <2>3, Zenon DEF Grammar!AreTokens, Final
<1>12. ScanInv'
  <2>1. pc' = "token" \/ pc' = "done"
    BY <1>1
  <2>2. ASSUME pc' = "token" PROVE SpacesTo(text, tokens', index')
    BY <1>1, <1>3, <1>6, <2>2 DEF SpacesTo
  <2> QED
    BY <2>1, <2>2 DEF ScanInv, Beginning
<1> QED
  BY <1>8, <1>9, <1>11, <1>12 DEF LexerInv
-----------------------------------------------------------------------------
(* What is known of the end of a lexeme.                                   *)
LEMMA EndsAt ==
    ASSUME NEW t, IsSeq(t), NEW from \in 0..Len(t), NEW e \in Grammar!Ends(t, from)
    PROVE  /\ Len(t) \in Nat /\ e \in Nat /\ from < e /\ e <= Len(t)
           /\ LET s == Grammar!Slice(t, from, e)
              IN  /\ IsSeq(s) /\ Len(s) = e - from /\ DOMAIN s = 1..(e - from)
                  /\ \A k \in 1..(e - from) : s[k] = t[from + k]
                  /\ s[1] = t[from + 1] /\ Grammar!Types(s) # {}
           /\ t[from + 1] \in Digits /\ e < Len(t) => ~IsNumberChar(t[e + 1])
<1>1. Len(t) \in Nat
  BY Appended
<1>2. /\ e \in Nat /\ from \in Nat /\ from <= e /\ from < e /\ e <= Len(t)
      /\ Grammar!Types(Grammar!Slice(t, from, e)) # {}
      /\ t[from + 1] \in Digits /\ e < Len(t) => ~IsNumberChar(t[e + 1])
  BY <1>1 DEF Grammar!Ends, IsNumberChar
<1> DEFINE s == Grammar!Slice(t, from, e)
<1>3. /\ IsSeq(s) /\ Len(s) = e - from /\ DOMAIN s = 1..(e - from)
      /\ \A k \in 1..(e - from) : s[k] = t[from + k]
  BY <1>2, Sliced
<1>4. s[1] = t[from + 1]
  <2> HIDE DEF s
  <2> QED
    BY <1>2, <1>3
<1> QED
  BY <1>1, <1>2, <1>3, <1>4

LEMMA DotIsNoDigit == "." \notin Digits
BY SymbolTypes, ClassesDiffer

(* A number goes on while there are digits and dots.                       *)
LEMMA NumberEnds ==
    ASSUME NEW t, IsSeq(t), NEW from \in 0..Len(t), NEW to \in 0..Len(t), from <= to,
           from < Len(t), t[from + 1] \in Digits,
           \A k \in (from + 1)..to : IsNumberChar(t[k]),
           NEW e \in Grammar!Ends(t, from)
    PROVE  /\ to <= e
           /\ \A k \in (from + 1)..e : IsNumberChar(t[k])
           /\ to < Len(t) /\ ~IsNumberChar(t[to + 1]) => e = to
<1> DEFINE s == Grammar!Slice(t, from, e)
<1>1. /\ Len(t) \in Nat /\ e \in Nat /\ from < e /\ e <= Len(t)
      /\ IsSeq(s) /\ Len(s) = e - from
      /\ \A k \in 1..(e - from) : s[k] = t[from + k]
      /\ s[1] = t[from + 1] /\ Grammar!Types(s) # {}
      /\ e < Len(t) => ~IsNumberChar(t[e + 1])
  BY EndsAt
<1> HIDE DEF s
<1>2. Grammar!IsInt(s) \/ Grammar!IsFloat(s)
  BY <1>1, LexemeBegins, ClassesDiffer
<1>3. \A k \in 1..Len(s) : IsNumberChar(s[k])
  <2>1. CASE Grammar!IsInt(s)
    BY <1>1, <2>1, IntBegins DEF IsNumberChar
  <2>2. CASE Grammar!IsFloat(s)
    BY <1>1, <2>2, FloatBegins DEF IsNumberChar
  <2> QED
    BY <1>2, <2>1, <2>2
<1>4. to <= e
  <2>1. ASSUME e < to PROVE FALSE
    <3>1. e + 1 \in (from + 1)..to /\ e < Len(t)
      BY <1>1, <2>1
    <3> QED
      BY <1>1, <3>1
  <2> QED
    BY <1>1, <2>1
<1>5. ASSUME NEW k \in (from + 1)..e PROVE IsNumberChar(t[k])
  <2>1. k - from \in 1..(e - from) /\ from + (k - from) = k
    BY <1>1
  <2>2. s[k - from] = t[k]
    BY <1>1, <2>1
  <2> QED
    BY <1>1, <1>3, <2>1, <2>2
<1>6. ASSUME to < Len(t), ~IsNumberChar(t[to + 1]) PROVE e = to
  <2>1. to + 1 \notin (from + 1)..e
    BY <1>5, <1>6
  <2> QED
    BY <1>1, <1>4, <2>1
<1> QED
  BY <1>4, <1>5, <1>6

(* A symbol is at most as long as the two characters there.                *)
LEMMA SymbolEnds ==
    ASSUME NEW t, IsSeq(t), NEW from \in 0..Len(t), from < Len(t),
           t[from + 1] \in DOMAIN SpecialSymbols, NEW e \in Grammar!Ends(t, from)
    PROVE  /\ e \in {from + 1, from + 2} /\ e <= Len(t)
           /\ Grammar!Slice(t, from, e) \in DOMAIN Symbols
<1> DEFINE s == Grammar!Slice(t, from, e)
<1>1. /\ Len(t) \in Nat /\ e \in Nat /\ from < e /\ e <= Len(t)
      /\ IsSeq(s) /\ Len(s) = e - from
      /\ s[1] = t[from + 1] /\ Grammar!Types(s) # {}
  BY EndsAt
<1> HIDE DEF s
<1>2. s \in DOMAIN Symbols
  BY <1>1, LexemeBegins, ClassesDiffer
<1>3. e - from \in 1..2
  BY <1>1, <1>2, SymbolBegins
<1> QED
  BY <1>1, <1>2, <1>3 DEF s

LEMMA WordEnds ==
    ASSUME NEW t, IsSeq(t), NEW from \in 0..Len(t), from < Len(t),
           t[from + 1] \in WordStarts, NEW e \in Grammar!Ends(t, from)
    PROVE  \A k \in (from + 1)..e : t[k] \in WordChars
<1> DEFINE s == Grammar!Slice(t, from, e)
<1>1. /\ Len(t) \in Nat /\ e \in Nat /\ from < e /\ e <= Len(t)
      /\ IsSeq(s) /\ Len(s) = e - from /\ DOMAIN s = 1..(e - from)
      /\ \A k \in 1..(e - from) : s[k] = t[from + k]
      /\ s[1] = t[from + 1] /\ Grammar!Types(s) # {}
  BY EndsAt
<1> HIDE DEF s
<1>2. \A k \in DOMAIN s : s[k] \in WordChars
  BY <1>1, LexemeBegins, ClassesDiffer
<1>3. ASSUME NEW k \in (from + 1)..e PROVE t[k] \in WordChars
  <2>1. k - from \in 1..(e - from) /\ from + (k - from) = k
    BY <1>1
  <2> QED
    BY <1>1, <1>2, <2>1
<1> QED
  BY <1>3

LEMMA StringEnds ==
    ASSUME NEW t, IsSeq(t), NEW from \in 0..Len(t), from < Len(t),
           t[from + 1] = Quote, NEW e \in Grammar!Ends(t, from)
    PROVE  Grammar!IsString(Grammar!Slice(t, from, e))
<1> DEFINE s == Grammar!Slice(t, from, e)
<1>1. IsSeq(s) /\ s[1] = t[from + 1] /\ Grammar!Types(s) # {}
  BY EndsAt
<1> HIDE DEF s
<1>2. Grammar!IsString(s)
  BY <1>1, LexemeBegins, ClassesDiffer
<1> QED
  BY <1>2 DEF s

LEMMA NothingEnds ==
    ASSUME NEW t, IsSeq(t), NEW from \in 0..Len(t), from < Len(t),
           t[from + 1] \notin DOMAIN SpecialSymbols \cup Digits \cup {Quote} \cup WordStarts
    PROVE  Grammar!Ends(t, from) = {}
<1>1. ASSUME NEW e \in Grammar!Ends(t, from) PROVE FALSE
  <2> DEFINE s == Grammar!Slice(t, from, e)
  <2>1. IsSeq(s) /\ s[1] = t[from + 1] /\ Grammar!Types(s) # {}
    BY EndsAt
  <2> HIDE DEF s
  <2> QED
    BY <2>1, LexemeBegins
<1> QED
  BY <1>1
-----------------------------------------------------------------------------
(* A lexeme that is no string, when there is no longer one.                *)
LEMMA IsALexeme ==
    ASSUME NEW t, IsSeq(t), NEW from \in 0..Len(t), NEW to \in 0..Len(t), from < to, NEW type,
           type \in Grammar!Types(Grammar!Slice(t, from, to)), t[from + 1] # Quote,
           t[from + 1] \in Digits /\ to < Len(t) => ~IsNumberChar(t[to + 1]),
           \A e \in Grammar!Ends(t, from) : e <= to
    PROVE  Grammar!IsLexeme(t, [type |-> type, value |-> Grammar!Slice(t, from, to),
                                start |-> from, end |-> to])
<1> DEFINE s == Grammar!Slice(t, from, to)
           tok == [type |-> type, value |-> s, start |-> from, end |-> to]
<1>1. Len(t) \in Nat /\ from \in Nat /\ to \in Nat /\ from <= to /\ to <= Len(t)
  BY Appended
<1>2. /\ Len(s) = to - from
      /\ \A k \in 1..(to - from) : s[k] = t[from + k]
  BY <1>1, Sliced
<1>3. type \in Grammar!Types(s)
  OBVIOUS
<1>4. tok.type = type /\ tok.value = s /\ tok.start = from /\ tok.end = to
  OBVIOUS
<1>5. to \in Grammar!Ends(t, from)
  BY <1>1, <1>3 DEF Grammar!Ends, IsNumberChar
<1>6. Grammar!Slice(t, from, to) = s
  OBVIOUS
<1> HIDE DEF s, tok
<1>7. s[1] # Quote
  BY <1>1, <1>2
<1>8. Grammar!IsValue(s, s)
  BY <1>7 DEF Grammar!IsValue, Grammar!IsString
<1>9. Grammar!IsMaximal(t, tok)
  BY <1>4, <1>5 DEF Grammar!IsMaximal
<1>10. Grammar!IsLexeme(t, tok)
  BY <1>3, <1>4, <1>6, <1>8, <1>9 DEF Grammar!IsLexeme
<1> QED
  BY <1>10 DEF tok, s

LEMMA DigitsAreInt ==
    ASSUME NEW s, IsSeq(s), s # << >>, \A k \in 1..Len(s) : s[k] \in Digits
    PROVE  Grammar!IsInt(s)
BY Appended DEF Grammar!IsInt, Grammar!All

LEMMA DottedIsFloat ==
    ASSUME NEW s, IsSeq(s), NEW d \in 1..Len(s), s[d] = ".", 1 < d, d < Len(s),
           \A k \in 1..Len(s) : k # d => s[k] \in Digits
    PROVE  Grammar!IsFloat(s)
<1> DEFINE a == SubSeq(s, 1, d - 1)
           b == SubSeq(s, d + 1, Len(s))
<1>1. Len(s) \in Nat /\ d \in 1..Len(s) /\ DOMAIN s = 1..Len(s)
  BY Appended
<1>2. a \in Seq(Digits) /\ Len(a) = d - 1
  <2>1. d - 1 \in Int /\ 1 \in Int /\ 1 <= d - 1 /\ \A j \in 1..(d - 1) : s[j] \in Digits
    BY <1>1
  <2> QED
    BY <2>1, SubSeqProperties
<1>3. b \in Seq(Digits) /\ Len(b) = Len(s) - d
  <2>1. d + 1 \in Int /\ Len(s) \in Int /\ d + 1 <= Len(s)
        /\ \A j \in (d + 1)..Len(s) : s[j] \in Digits
    BY <1>1
  <2> QED
    BY <2>1, SubSeqProperties
<1>4. a = SubSeq(s, 1, d - 1) /\ b = SubSeq(s, d + 1, Len(s))
  OBVIOUS
<1> HIDE DEF a, b
<1>5. Grammar!IsInt(a)
  <2>1. IsSeq(a) /\ a # << >> /\ \A k \in 1..Len(a) : a[k] \in Digits
    BY <1>1, <1>2 DEF IsSeq
  <2> QED
    BY <2>1, DigitsAreInt
<1>6. Grammar!IsInt(b)
  <2>1. IsSeq(b) /\ b # << >> /\ \A k \in 1..Len(b) : b[k] \in Digits
    BY <1>1, <1>3 DEF IsSeq
  <2> QED
    BY <2>1, DigitsAreInt
<1> QED
  BY <1>1, <1>4, <1>5, <1>6 DEF Grammar!IsFloat

(* What has been read of a number, when it does not go on or has its       *)
(* second dot.                                                             *)
LEMMA NumberLexeme ==
    ASSUME NEW t, IsSeq(t), NEW from \in 0..Len(t), NEW to \in 0..Len(t), from <= to,
           NEW n \in 0..2, IsNumberPrefix(t, from, to, n),
           n = 2 \/ to = Len(t) \/ ~IsNumberChar(t[to + 1])
    PROVE  /\ from < to
           /\ n = 0 => Grammar!IsLexeme(t, [type |-> "INT", value |-> Grammar!Slice(t, from, to),
                                            start |-> from, end |-> to])
           /\ n = 1 /\ t[to] # "." =>
                 Grammar!IsLexeme(t, [type |-> "FLOAT", value |-> Grammar!Slice(t, from, to),
                                      start |-> from, end |-> to])
           /\ n = 2 \/ (n = 1 /\ t[to] = ".") => Grammar!Ends(t, from) = {}
<1> DEFINE s == Grammar!Slice(t, from, to)
<1>1. Len(t) \in Nat /\ from \in Nat /\ to \in Nat /\ to <= Len(t)
  BY Appended
<1>2. IsSeq(s) /\ Len(s) = to - from /\ \A k \in 1..(to - from) : s[k] = t[from + k]
  BY <1>1, Sliced
<1>3. /\ from < Len(t) /\ t[from + 1] \in Digits
      /\ \A k \in (from + 1)..to : IsNumberChar(t[k])
  BY DEF IsNumberPrefix
<1>4. from < to
  BY <1>1, <1>3 DEF IsNumberPrefix, IsNumberChar
<1>5. t[from + 1] # Quote /\ t[from + 1] # "."
  BY <1>3, ClassesDiffer, DotIsNoDigit
<1>6. ASSUME NEW e \in Grammar!Ends(t, from)
      PROVE  /\ to <= e /\ e \in Nat /\ e <= Len(t)
             /\ to < Len(t) /\ ~IsNumberChar(t[to + 1]) => e = to
  <2>1. e \in Nat /\ e <= Len(t)
    BY EndsAt
  <2>2. from <= to /\ from < Len(t) /\ t[from + 1] \in Digits
        /\ \A k \in (from + 1)..to : IsNumberChar(t[k])
    BY <1>3
  <2> QED
    BY <2>1, <2>2, NumberEnds
<1>7. s = Grammar!Slice(t, from, to)
  OBVIOUS
<1> HIDE DEF s
<1>8. ASSUME n = 0 PROVE "INT" \in Grammar!Types(s)
  <2>1. \A k \in 1..(to - from) : s[k] \in Digits
    BY <1>1, <1>2, <1>8 DEF IsNumberPrefix
  <2>2. Grammar!IsInt(s)
    BY <1>1, <1>2, <1>4, <2>1, DigitsAreInt
  <2> QED
    BY <2>2 DEF Grammar!Types
<1>9. ASSUME n = 1, t[to] # "." PROVE "FLOAT" \in Grammar!Types(s)
  <2>1. PICK d \in (from + 1)..to :
          t[d] = "." /\ \A k \in (from + 1)..to : k # d => t[k] \in Digits
    BY <1>9 DEF IsNumberPrefix
  <2>2. d # to /\ d # from + 1 /\ d \in Nat
    BY <1>1, <1>5, <1>9, <2>1
  <2>3. /\ d - from \in 1..Len(s) /\ 1 < d - from /\ d - from < Len(s) /\ s[d - from] = "."
        /\ \A k \in 1..Len(s) : k # d - from => s[k] \in Digits
    <3>1. d - from \in 1..Len(s) /\ 1 < d - from /\ d - from < Len(s) /\ from + (d - from) = d
      BY <1>1, <1>2, <2>1, <2>2
    <3>2. ASSUME NEW k \in 1..Len(s), k # d - from PROVE s[k] \in Digits
      <4>1. from + k \in (from + 1)..to /\ from + k # d /\ k \in 1..(to - from)
        BY <1>1, <1>2, <2>2, <3>2
      <4> QED
        BY <1>2, <2>1, <4>1
    <3> QED
      BY <1>2, <2>1, <3>1, <3>2
  <2>4. Grammar!IsFloat(s)
    BY <1>2, <2>3, DottedIsFloat
  <2> QED
    BY <2>4 DEF Grammar!Types
<1>10. ASSUME n # 2, NEW type \in Grammar!Types(s)
       PROVE  Grammar!IsLexeme(t, [type |-> type, value |-> s, start |-> from, end |-> to])
  <2>1. to < Len(t) => ~IsNumberChar(t[to + 1])
    BY <1>1, <1>10
  <2>2. \A e \in Grammar!Ends(t, from) : e <= to
    BY <1>1, <1>6, <2>1
  <2> QED
    BY <1>4, <1>5, <1>7, <2>1, <2>2, IsALexeme
<1>11. ASSUME n = 2 \/ (n = 1 /\ t[to] = "."), NEW e \in Grammar!Ends(t, from) PROVE FALSE
  <2> DEFINE u == Grammar!Slice(t, from, e)
  <2>1. /\ e \in Nat /\ from < e /\ e <= Len(t)
        /\ IsSeq(u) /\ Len(u) = e - from
        /\ \A k \in 1..(e - from) : u[k] = t[from + k]
        /\ u[1] = t[from + 1] /\ Grammar!Types(u) # {}
    BY EndsAt
  <2> HIDE DEF u
  <2>2. to <= e /\ u[to - from] = "."
    <3>1. to <= e /\ t[to] = "."
      BY <1>6, <1>11 DEF IsNumberPrefix
    <3>2. to - from \in 1..(e - from) /\ from + (to - from) = to
      BY <1>1, <1>4, <2>1, <3>1
    <3> QED
      BY <2>1, <3>1, <3>2
  <2>3. PICK d \in 1..Len(u) :
          /\ u[d] = "." /\ d < Len(u) /\ \A j \in 1..Len(u) : j # d => u[j] \in Digits
    <3>1. ~Grammar!IsInt(u)
      <4>1. to - from \in 1..Len(u)
        BY <1>1, <1>4, <2>1, <2>2
      <4> QED
        BY <2>1, <2>2, <4>1, IntBegins, DotIsNoDigit
    <3>2. Grammar!IsFloat(u)
      BY <1>3, <2>1, <3>1, LexemeBegins, ClassesDiffer
    <3> QED
      BY <2>1, <3>2, FloatBegins
  <2>4. d = to - from
    BY <1>1, <1>4, <2>1, <2>2, <2>3, DotIsNoDigit
  <2>5. CASE n = 2
    <3>1. PICK c \in (from + 1)..(to - 1) : t[c] = "."
      BY <2>5 DEF IsNumberPrefix
    <3>2. c - from \in 1..Len(u) /\ c - from # d /\ from + (c - from) = c
      BY <1>1, <2>1, <2>2, <2>4, <3>1
    <3>3. u[c - from] = "."
      BY <2>1, <3>1, <3>2
    <3> QED
      BY <2>3, <3>2, <3>3, DotIsNoDigit
  <2>6. CASE n = 1
    <3>1. to = e
      BY <1>1, <1>6, <2>1, <2>2, <2>6
    <3> QED
      BY <1>1, <2>1, <2>3, <2>4, <3>1
  <2> QED
    BY <1>11, <2>5, <2>6
<1> QED
  BY <1>4, <1>8, <1>9, <1>10, <1>11 DEF s

LEMMA WordLexeme ==
    ASSUME NEW t, IsSeq(t), NEW from \in 0..Len(t), NEW to \in 0..Len(t), from <= to,
           IsWordPrefix(t, from, to), to = Len(t) \/ t[to + 1] \notin WordChars
    PROVE  LET s == Grammar!Slice(t, from, to)
               type == IF s \in DOMAIN Keywords THEN Keywords[s] ELSE "ID"
           IN  /\ from < to /\ type \notin Final
               /\ Grammar!IsLexeme(t, [type |-> type, value |-> s, start |-> from, end |-> to])
<1> DEFINE s == Grammar!Slice(t, from, to)
           type == IF s \in DOMAIN Keywords THEN Keywords[s] ELSE "ID"
<1>1. Len(t) \in Nat /\ from \in Nat /\ to \in Nat /\ to <= Len(t)
  BY Appended
<1>2. IsSeq(s) /\ Len(s) = to - from /\ DOMAIN s = 1..(to - from)
      /\ \A k \in 1..(to - from) : s[k] = t[from + k]
  BY <1>1, Sliced
<1>3. /\ from < Len(t) /\ t[from + 1] \in WordStarts
      /\ \A k \in (from + 1)..to : t[k] \in WordChars
  BY DEF IsWordPrefix
<1>4. from < to
  BY <1>1, <1>3 DEF WordChars
<1>5. s = Grammar!Slice(t, from, to) /\ type = IF s \in DOMAIN Keywords THEN Keywords[s] ELSE "ID"
  OBVIOUS
<1> HIDE DEF s, type
<1>6. Grammar!IsWord(s)
  <2>1. s # << >> /\ s[1] \in WordStarts
    BY <1>1, <1>2, <1>3, <1>4
  <2>2. \A k \in DOMAIN s : s[k] \in WordChars
    BY <1>1, <1>2, <1>3
  <2> QED
    BY <2>1, <2>2 DEF Grammar!IsWord, Grammar!All
<1>7. type \in Grammar!Types(s) /\ type \notin Final
  BY <1>5, <1>6, KeywordsAssumption DEF Grammar!Types, Final
<1>8. t[from + 1] # Quote /\ t[from + 1] \notin Digits
  BY <1>3, ClassesDiffer
<1>9. ASSUME NEW e \in Grammar!Ends(t, from) PROVE e <= to
  <2>1. e \in Nat /\ e <= Len(t) /\ \A k \in (from + 1)..e : t[k] \in WordChars
    BY <1>3, EndsAt, WordEnds
  <2>2. ASSUME to < e PROVE FALSE
    BY <1>1, <1>4, <2>1, <2>2
  <2> QED
    BY <1>1, <2>1, <2>2
<1>10. Grammar!IsLexeme(t, [type |-> type, value |-> s, start |-> from, end |-> to])
  BY <1>4, <1>5, <1>7, <1>8, <1>9, IsALexeme
<1> QED
  BY <1>4, <1>7, <1>10 DEF s, type

LEMMA CompositeLexeme ==
    ASSUME NEW t, IsSeq(t), NEW from \in 0..Len(t), from + 2 <= Len(t),
           t[from + 1] \in DOMAIN SpecialSymbols,
           Grammar!Slice(t, from, from + 2) \in DOMAIN CompositeSpecialSymbols
    PROVE  Grammar!IsLexeme(t, [type |-> CompositeSpecialSymbols[Grammar!Slice(t, from, from + 2)],
                                value |-> Grammar!Slice(t, from, from + 2),
                                start |-> from, end |-> from + 2])
<1>1. Len(t) \in Nat /\ from \in Nat /\ from + 2 \in 0..Len(t)
  BY Appended
<1>2. PICK to : to = from + 2
  OBVIOUS
<1> DEFINE s == Grammar!Slice(t, from, to)
<1>3. s \in DOMAIN CompositeSpecialSymbols /\ Len(s) = 2
  BY <1>2, SymbolTypes
<1>4. s = Grammar!Slice(t, from, to)
  OBVIOUS
<1> HIDE DEF s
<1>5. s \in DOMAIN Symbols /\ Symbols[s] = CompositeSpecialSymbols[s]
  <2>1. s \in DOMAIN Symbols /\ Len(s) # 1
    BY <1>3, SymbolsAre
  <2> QED
    BY <2>1, SymbolsAre
<1>6. CompositeSpecialSymbols[s] \in Grammar!Types(s)
  BY <1>5 DEF Grammar!Types
<1>7. t[from + 1] # Quote /\ t[from + 1] \notin Digits
  BY ClassesDiffer
<1>8. ASSUME NEW e \in Grammar!Ends(t, from) PROVE e <= to
  BY <1>1, <1>2, SymbolEnds
<1>9. to \in 0..Len(t) /\ from < to
  BY <1>1, <1>2
<1>10. Grammar!IsLexeme(t, [type |-> CompositeSpecialSymbols[s], value |-> s,
                            start |-> from, end |-> to])
  BY <1>4, <1>6, <1>7, <1>8, <1>9, IsALexeme
<1> QED
  BY <1>2, <1>10 DEF s

LEMMA SymbolLexeme ==
    ASSUME NEW t, IsSeq(t), NEW from \in 0..Len(t), from < Len(t),
           t[from + 1] \in DOMAIN SpecialSymbols,
           from + 1 < Len(t) =>
               Grammar!Slice(t, from, from + 2) \notin DOMAIN CompositeSpecialSymbols
    PROVE  Grammar!IsLexeme(t, [type |-> SpecialSymbols[t[from + 1]], value |-> <<t[from + 1]>>,
                                start |-> from, end |-> from + 1])
<1>1. Len(t) \in Nat /\ from \in Nat /\ from + 1 \in 0..Len(t)
  BY Appended
<1>2. PICK to : to = from + 1
  OBVIOUS
<1>3. to \in 0..Len(t) /\ to \in Nat /\ from < to /\ from <= to /\ to <= Len(t) /\ to - from = 1
  BY <1>1, <1>2
<1> DEFINE s == Grammar!Slice(t, from, to)
           c == t[from + 1]
<1>4. IsSeq(s) /\ Len(s) = 1 /\ s[1] = c
  <2>1. IsSeq(s) /\ Len(s) = to - from /\ \A k \in 1..(to - from) : s[k] = t[from + k]
    BY <1>1, <1>3, Sliced
  <2> HIDE DEF s
  <2> QED
    BY <1>3, <2>1
<1>5. s = Grammar!Slice(t, from, to) /\ c = t[from + 1]
  OBVIOUS
<1> HIDE DEF s, c
<1>6. s = <<c>>
  BY <1>4 DEF IsSeq
<1>7. s \in DOMAIN Symbols /\ Symbols[s] = SpecialSymbols[c]
  BY <1>4, <1>5, <1>6 DEF Symbols
<1>8. SpecialSymbols[c] \in Grammar!Types(s)
  BY <1>7 DEF Grammar!Types
<1>9. t[from + 1] # Quote /\ t[from + 1] \notin Digits
  BY ClassesDiffer
<1>10. ASSUME NEW e \in Grammar!Ends(t, from) PROVE e <= to
  <2>1. ASSUME e = from + 2 PROVE FALSE
    <3>1. /\ Grammar!Slice(t, from, from + 2) \in DOMAIN Symbols /\ from + 2 <= Len(t)
      BY <2>1, SymbolEnds
    <3>2. Len(Grammar!Slice(t, from, from + 2)) = 2
      <4>1. PICK n : n = from + 2
        OBVIOUS
      <4>2. n \in Nat /\ from <= n /\ n <= Len(t) /\ n - from = 2
        BY <1>1, <3>1, <4>1
      <4>3. Len(Grammar!Slice(t, from, n)) = n - from
        BY <1>1, <4>2, Sliced
      <4> QED
        BY <4>1, <4>2, <4>3
    <3>3. Grammar!Slice(t, from, from + 2) \in DOMAIN CompositeSpecialSymbols
      <4>1. PICK u : u = Grammar!Slice(t, from, from + 2)
        OBVIOUS
      <4>2. u \in DOMAIN Symbols /\ Len(u) = 2
        BY <3>1, <3>2, <4>1
      <4>3. ASSUME NEW x, u = <<x>> PROVE FALSE
        <5>1. Len(<<x>>) = 1
          OBVIOUS
        <5> QED
          BY <4>2, <4>3, <5>1
      <4> QED
        BY <4>1, <4>2, <4>3, SymbolsAre
    <3> QED
      BY <1>1, <3>1, <3>3
  <2> QED
    BY <1>1, <1>2, <2>1, SymbolEnds
<1>11. Grammar!IsLexeme(t, [type |-> SpecialSymbols[c], value |-> s, start |-> from, end |-> to])
  BY <1>3, <1>5, <1>8, <1>9, <1>10, IsALexeme
<1> QED
  BY <1>2, <1>5, <1>6, <1>11
-----------------------------------------------------------------------------
(* Backslashes.                                                            *)
LEMMA EscapedSame ==
    ASSUME NEW s, NEW u, NEW k \in Nat, \A j \in 1..(k - 1) : s[j] = u[j]
    PROVE  Grammar!IsEscaped(s, k) <=> Grammar!IsEscaped(u, k)
<1>1. ASSUME NEW n \in 1..(k - 1)
      PROVE  /\ (\A b \in (k - n)..(k - 1) : s[b] = Backslash)
                <=> (\A b \in (k - n)..(k - 1) : u[b] = Backslash)
             /\ (k - n - 1 >= 1 => s[k - n - 1] # Backslash)
                <=> (k - n - 1 >= 1 => u[k - n - 1] # Backslash)
  <2>1. \A b \in (k - n)..(k - 1) : s[b] = u[b]
    OBVIOUS
  <2>2. k - n - 1 >= 1 => s[k - n - 1] = u[k - n - 1]
    OBVIOUS
  <2> QED
    BY <2>1, <2>2
<1> QED
  BY <1>1 DEF Grammar!IsEscaped

LEMMA EscapedByRun ==
    ASSUME NEW s, IsSeq(s), NEW n \in Nat, EndsWith(n, s)
    PROVE  Grammar!IsEscaped(s, Len(s) + 1) <=> n % 2 = 1
<1>1. PICK len \in Nat : len = Len(s)
  BY Appended
<1>2. /\ n \in 0..(len - 1) /\ s[len - n] # Backslash
      /\ \A k \in (len - n + 1)..len : s[k] = Backslash
  BY <1>1 DEF EndsWith
<1>3. ASSUME NEW m \in 1..len, \A b \in (len + 1 - m)..len : s[b] = Backslash,
             len - m >= 1 => s[len - m] # Backslash
      PROVE  m = n
  <2>1. ~(n < m)
    <3>1. ASSUME n < m PROVE FALSE
      <4>1. len - n \in (len + 1 - m)..len
        BY <1>2, <3>1
      <4> QED
        BY <1>2, <1>3, <4>1
    <3> QED
      BY <3>1
  <2>2. ~(m < n)
    <3>1. ASSUME m < n PROVE FALSE
      <4>1. len - m \in (len - n + 1)..len /\ len - m >= 1
        BY <1>2, <3>1
      <4> QED
        BY <1>2, <1>3, <4>1
    <3> QED
      BY <3>1
  <2> QED
    BY <2>1, <2>2
<1>4. ASSUME Grammar!IsEscaped(s, len + 1) PROVE n % 2 = 1
  <2>1. PICK m \in 1..(len + 1 - 1) :
          /\ m % 2 = 1
          /\ \A b \in (len + 1 - m)..(len + 1 - 1) : s[b] = Backslash
          /\ len + 1 - m - 1 >= 1 => s[len + 1 - m - 1] # Backslash
    BY <1>4 DEF Grammar!IsEscaped
  <2>2. len + 1 - 1 = len /\ len + 1 - m - 1 = len - m
    OBVIOUS
  <2> QED
    BY <1>3, <2>1, <2>2
<1>5. ASSUME n % 2 = 1 PROVE Grammar!IsEscaped(s, len + 1)
  <2>1. n \in 1..(len + 1 - 1)
    BY <1>2, <1>5
  <2>2. len + 1 - n = len - n + 1 /\ len + 1 - 1 = len /\ len + 1 - n - 1 = len - n
    OBVIOUS
  <2> QED
    BY <1>2, <1>5, <2>1, <2>2 DEF Grammar!IsEscaped
<1> QED
  BY <1>1, <1>4, <1>5

LEMMA RunGrows ==
    ASSUME NEW s, IsSeq(s), NEW n \in Nat, EndsWith(n, s), NEW c
    PROVE  IF c = Backslash THEN EndsWith(n + 1, Append(s, c)) ELSE EndsWith(0, Append(s, c))
<1>1. /\ Len(Append(s, c)) = Len(s) + 1 /\ Len(s) \in Nat
      /\ Append(s, c)[Len(s) + 1] = c
      /\ \A k \in 1..Len(s) : Append(s, c)[k] = s[k]
  BY Appended
<1>2. PICK len \in Nat : len = Len(s)
  BY <1>1
<1> DEFINE u == Append(s, c)
<1>3. Len(u) = len + 1 /\ u[len + 1] = c /\ \A k \in 1..len : u[k] = s[k]
  BY <1>1, <1>2
<1> HIDE DEF u
<1>4. /\ n \in 0..(len - 1) /\ s[len - n] # Backslash
      /\ \A k \in (len - n + 1)..len : s[k] = Backslash
  BY <1>2 DEF EndsWith
<1>5. ASSUME c = Backslash PROVE EndsWith(n + 1, u)
  <2>1. n + 1 \in 0..(len + 1 - 1) /\ len + 1 - (n + 1) = len - n /\ len - n \in 1..len
    BY <1>4
  <2>2. ASSUME NEW k \in (len - n + 1)..(len + 1) PROVE u[k] = Backslash
    <3>1. k \in (len - n + 1)..len \/ k = len + 1
      BY <2>2
    <3>2. (len - n + 1)..len \subseteq 1..len
      BY <1>4
    <3> QED
      BY <1>3, <1>4, <1>5, <3>1, <3>2
  <2> QED
    BY <1>3, <1>4, <2>1, <2>2 DEF EndsWith
<1>6. ASSUME c # Backslash PROVE EndsWith(0, u)
  BY <1>3, <1>6 DEF EndsWith
<1> QED
  BY <1>5, <1>6 DEF u
-----------------------------------------------------------------------------
LEMMA SameCardinality == \A S : Grammar!Cardinality(S) = Cardinality(S)
BY Zenon DEF Grammar!Cardinality, Cardinality

LEMMA IsUnescapedIf ==
    ASSUME NEW s, NEW v
    PROVE  Grammar!IsUnescaped(s, v) <=>
             /\ Len(v) = Cardinality(Grammar!Kept(s))
             /\ \A k \in Grammar!Kept(s) :
                   v[Cardinality({j \in Grammar!Kept(s) : j <= k})] = Grammar!Meaning(s, k)
BY SameCardinality, Zenon DEF Grammar!IsUnescaped

(* The value of a string.                                                  *)
LEMMA UnescapedGrows ==
    ASSUME NEW s, IsSeq(s), NEW v, IsSeq(v), Grammar!IsUnescaped(s, v), NEW c, NEW esc \in BOOLEAN,
           esc <=> Grammar!IsEscaped(s, Len(s) + 1)
    PROVE  /\ c = Backslash /\ ~esc => Grammar!IsUnescaped(Append(s, c), v)
           /\ c # Backslash \/ esc =>
                 Grammar!IsUnescaped(Append(s, c),
                     Append(v, IF esc /\ c \in DOMAIN Escapes THEN Escapes[c] ELSE c))
<1>1. PICK len \in Nat : len = Len(s)
  BY Appended
<1> DEFINE u == Append(s, c)
           K == Grammar!Kept(s)
           N == Grammar!Kept(u)
<1>2. /\ IsSeq(u) /\ Len(u) = len + 1 /\ u[len + 1] = c /\ \A k \in 1..len : u[k] = s[k]
      /\ DOMAIN s = 1..len /\ DOMAIN u = 1..(len + 1)
  BY <1>1, Appended
<1>3. u = Append(s, c) /\ K = Grammar!Kept(s) /\ N = Grammar!Kept(u)
  OBVIOUS
<1> HIDE DEF u, K, N
<1>4. \A k \in 1..(len + 1) : Grammar!IsEscaped(s, k) <=> Grammar!IsEscaped(u, k)
  BY <1>2, EscapedSame
<1>5. /\ \A k \in 1..len : Grammar!Meaning(u, k) = Grammar!Meaning(s, k)
      /\ Grammar!Meaning(u, len + 1) = IF esc /\ c \in DOMAIN Escapes THEN Escapes[c] ELSE c
  BY <1>1, <1>2, <1>4 DEF Grammar!Meaning
<1>6. K \subseteq 1..len /\ \A k \in 1..len : k \in N <=> k \in K
  BY <1>2, <1>3, <1>4 DEF Grammar!Kept
<1>7. N \subseteq 1..(len + 1) /\ (len + 1 \in N <=> c # Backslash \/ esc)
  BY <1>1, <1>2, <1>3, <1>4 DEF Grammar!Kept
<1>8. IsFiniteSet(K) /\ Cardinality(K) \in Nat
  <2>1. IsFiniteSet(1..len)
    BY FS_Interval
  <2> QED
    BY <1>6, <2>1, FS_Subset, FS_CardinalityType
<1>9. Len(v) = Cardinality(K)
      /\ \A k \in K : v[Cardinality({j \in K : j <= k})] = Grammar!Meaning(s, k)
  BY IsUnescapedIf DEF K
<1>10. ASSUME NEW k \in K
       PROVE  {j \in N : j <= k} = {j \in K : j <= k} /\ Cardinality({j \in K : j <= k}) \in 1..Len(v)
  <2>1. {j \in N : j <= k} = {j \in K : j <= k}
    <3>1. ASSUME NEW j \in N, j <= k PROVE j \in K
      BY <1>6, <1>7, <1>10, <3>1
    <3>2. ASSUME NEW j \in K PROVE j \in N
      BY <1>6, <3>2
    <3> QED
      BY <3>1, <3>2
  <2>2. /\ IsFiniteSet({j \in K : j <= k}) /\ Cardinality({j \in K : j <= k}) <= Cardinality(K)
    <3>1. {j \in K : j <= k} \in SUBSET K
      OBVIOUS
    <3> QED
      BY <1>8, <3>1, FS_Subset
  <2>3. Cardinality({j \in K : j <= k}) \in Nat /\ Cardinality({j \in K : j <= k}) # 0
    <3>1. k \in {j \in K : j <= k}
      BY <1>6
    <3> QED
      BY <2>2, <3>1, FS_CardinalityType, FS_EmptySet
  <2> QED
    BY <1>8, <1>9, <2>1, <2>2, <2>3
<1>11. ASSUME c = Backslash, ~esc PROVE Grammar!IsUnescaped(u, v)
  <2>1. N = K
    <3>1. ASSUME NEW j \in N PROVE j \in K
      BY <1>6, <1>7, <1>11, <3>1
    <3>2. ASSUME NEW j \in K PROVE j \in N
      BY <1>6, <3>2
    <3> QED
      BY <3>1, <3>2
  <2>2. \A k \in K : v[Cardinality({j \in K : j <= k})] = Grammar!Meaning(u, k)
    BY <1>5, <1>6, <1>9
  <2>3. /\ Len(v) = Cardinality(N)
        /\ \A k \in N : v[Cardinality({j \in N : j <= k})] = Grammar!Meaning(u, k)
    BY <1>9, <2>1, <2>2
  <2> QED
    BY <2>3, IsUnescapedIf DEF N
<1>12. ASSUME c # Backslash \/ esc
       PROVE  Grammar!IsUnescaped(u, Append(v, Grammar!Meaning(u, len + 1)))
  <2> DEFINE w == Append(v, Grammar!Meaning(u, len + 1))
  <2>1. /\ Len(w) = Len(v) + 1 /\ Len(v) \in Nat /\ w[Len(v) + 1] = Grammar!Meaning(u, len + 1)
        /\ \A k \in 1..Len(v) : w[k] = v[k]
    BY Appended
  <2> HIDE DEF w
  <2>2. N = K \cup {len + 1} /\ len + 1 \notin K
    <3>1. ASSUME NEW j \in N PROVE j \in K \cup {len + 1}
      BY <1>6, <1>7, <3>1
    <3>2. ASSUME NEW j \in K PROVE j \in N /\ j # len + 1
      BY <1>6, <3>2
    <3> QED
      BY <1>7, <1>12, <3>1, <3>2
  <2>3. Cardinality(N) = Len(w)
    BY <1>8, <1>9, <2>1, <2>2, FS_AddElement
  <2>4. {j \in N : j <= len + 1} = N
    <3>1. ASSUME NEW j \in N PROVE j <= len + 1
      BY <1>7, <3>1
    <3> QED
      BY <3>1
  <2>5. ASSUME NEW k \in K PROVE w[Cardinality({j \in N : j <= k})] = Grammar!Meaning(u, k)
    BY <1>5, <1>6, <1>9, <1>10, <2>1
  <2>6. w[Cardinality({j \in N : j <= len + 1})] = Grammar!Meaning(u, len + 1)
    BY <2>1, <2>3, <2>4
  <2>7. \A k \in N : w[Cardinality({j \in N : j <= k})] = Grammar!Meaning(u, k)
    BY <2>2, <2>5, <2>6
  <2>8. Grammar!IsUnescaped(u, w)
    BY <2>3, <2>7, IsUnescapedIf DEF N
  <2> QED
    BY <2>8 DEF w
<1> QED
  BY <1>5, <1>11, <1>12 DEF u

LEMMA QuoteUnescaped ==
    /\ Grammar!IsUnescaped(<<Quote>>, <<Quote>>)
    /\ IsStringPrefix(<<Quote>>, FALSE)
<1> DEFINE s == <<Quote>>
<1>1. Len(s) = 1 /\ DOMAIN s = {1} /\ s[1] = Quote
  OBVIOUS
<1> HIDE DEF s
<1>2. ~Grammar!IsEscaped(s, 1)
  BY DEF Grammar!IsEscaped
<1>3. Grammar!Kept(s) = {1} /\ Grammar!Meaning(s, 1) = Quote
  BY <1>1, <1>2, QuoteIsNoBackslash DEF Grammar!Kept, Grammar!Meaning
<1>4. Cardinality({1}) = 1 /\ {j \in {1} : j <= 1} = {1}
  BY FS_Singleton
<1>5. Grammar!IsUnescaped(s, s)
  <2>1. \A k \in {1} : s[Cardinality({j \in {1} : j <= k})] = Grammar!Meaning(s, k)
    BY <1>1, <1>3, <1>4
  <2>2. /\ Len(s) = Cardinality(Grammar!Kept(s))
        /\ \A k \in Grammar!Kept(s) :
              s[Cardinality({j \in Grammar!Kept(s) : j <= k})] = Grammar!Meaning(s, k)
    BY <1>1, <1>3, <1>4, <2>1
  <2> QED
    BY <2>2, IsUnescapedIf
<1>6. EndsWith(0, s)
  BY <1>1, QuoteIsNoBackslash DEF EndsWith
<1>7. \A k \in 2..1 : s[k] = Quote => Grammar!IsEscaped(s, k)
  OBVIOUS
<1>8. (FALSE <=> 0 % 2 = 1) /\ 0 \in Nat
  OBVIOUS
<1>9. IsStringPrefix(s, FALSE)
  BY <1>1, <1>6, <1>7, <1>8 DEF IsStringPrefix
<1> QED
  BY <1>5, <1>9 DEF s

(* A character inside a string.                                            *)
LEMMA StringGrows ==
    ASSUME NEW s, IsSeq(s), NEW esc \in BOOLEAN, IsStringPrefix(s, esc), NEW c
    PROVE  /\ esc <=> Grammar!IsEscaped(s, Len(s) + 1)
           /\ c = Backslash => IsStringPrefix(Append(s, c), ~esc)
           /\ c # Backslash /\ (c # Quote \/ esc) => IsStringPrefix(Append(s, c), FALSE)
<1>1. PICK n \in Nat : EndsWith(n, s) /\ (esc <=> n % 2 = 1)
  BY DEF IsStringPrefix
<1>2. esc <=> Grammar!IsEscaped(s, Len(s) + 1)
  BY <1>1, EscapedByRun
<1>3. PICK len \in Nat : len = Len(s)
  BY Appended
<1> DEFINE u == Append(s, c)
<1>4. /\ Len(u) = len + 1 /\ u[len + 1] = c /\ \A k \in 1..len : u[k] = s[k]
      /\ IF c = Backslash THEN EndsWith(n + 1, u) ELSE EndsWith(0, u)
  BY <1>1, <1>3, Appended, RunGrows
<1> HIDE DEF u
<1>5. len >= 1 /\ u[1] = Quote
  BY <1>3, <1>4 DEF IsStringPrefix
<1>6. \A k \in 1..(len + 1) : Grammar!IsEscaped(s, k) <=> Grammar!IsEscaped(u, k)
  BY <1>4, EscapedSame
<1>7. ASSUME c # Quote \/ esc, NEW k \in 2..(len + 1), u[k] = Quote PROVE Grammar!IsEscaped(u, k)
  <2>1. CASE k \in 2..len
    BY <1>3, <1>4, <1>6, <1>7, <2>1 DEF IsStringPrefix
  <2>2. CASE k = len + 1
    BY <1>2, <1>3, <1>4, <1>6, <1>7, <2>2
  <2> QED
    BY <2>1, <2>2
<1>8. ASSUME c = Backslash PROVE IsStringPrefix(u, ~esc)
  <2>1. n + 1 \in Nat /\ EndsWith(n + 1, u) /\ (~esc <=> (n + 1) % 2 = 1)
    BY <1>1, <1>4, <1>8
  <2>2. c # Quote
    BY <1>8, QuoteIsNoBackslash
  <2> QED
    BY <1>4, <1>5, <1>7, <2>1, <2>2 DEF IsStringPrefix
<1>9. ASSUME c # Backslash, c # Quote \/ esc PROVE IsStringPrefix(u, FALSE)
  <2>1. 0 \in Nat /\ EndsWith(0, u) /\ (FALSE <=> 0 % 2 = 1)
    BY <1>4, <1>9
  <2> QED
    BY <1>4, <1>5, <1>7, <1>9, <2>1 DEF IsStringPrefix
<1> QED
  BY <1>2, <1>8, <1>9 DEF u
-----------------------------------------------------------------------------
(* Before its end a string has no quote that is not escaped.               *)
LEMMA NoQuoteBefore ==
    ASSUME NEW t, IsSeq(t), NEW from \in 0..Len(t), NEW to \in 0..Len(t), from <= to,
           NEW esc, IsStringPrefix(Grammar!Slice(t, from, to), esc),
           NEW e \in Grammar!Ends(t, from)
    PROVE  to < e
<1> DEFINE s == Grammar!Slice(t, from, to)
           u == Grammar!Slice(t, from, e)
<1>1. Len(t) \in Nat /\ from \in Nat /\ to \in Nat /\ to <= Len(t)
  BY Appended
<1>2. IsSeq(s) /\ Len(s) = to - from /\ \A k \in 1..(to - from) : s[k] = t[from + k]
  BY <1>1, Sliced
<1>3. IsStringPrefix(s, esc)
  OBVIOUS
<1>4. /\ e \in Nat /\ from < e /\ e <= Len(t) /\ IsSeq(u) /\ Len(u) = e - from
      /\ \A k \in 1..(e - from) : u[k] = t[from + k]
  BY EndsAt
<1>5. u = Grammar!Slice(t, from, e)
  OBVIOUS
<1> HIDE DEF s, u
<1>6. Len(s) >= 1 /\ s[1] = Quote
      /\ \A k \in 2..Len(s) : s[k] = Quote => Grammar!IsEscaped(s, k)
  BY <1>3 DEF IsStringPrefix
<1>7. from < to /\ from < Len(t) /\ t[from + 1] = Quote
  BY <1>1, <1>2, <1>6
<1>8. Grammar!IsString(u)
  BY <1>5, <1>7, StringEnds
<1>9. Len(u) >= 2 /\ u[Len(u)] = Quote /\ ~Grammar!IsEscaped(u, Len(u))
  <2>1. /\ Len(u) >= 2
        /\ \A k \in 2..Len(u) : k = Len(u) <=> u[k] = Quote /\ ~Grammar!IsEscaped(u, k)
    BY <1>8 DEF Grammar!IsString
  <2> QED
    BY <1>1, <1>4, <2>1
<1>10. ASSUME e <= to PROVE FALSE
  <2>1. \A k \in 1..Len(u) : s[k] = u[k]
    BY <1>1, <1>2, <1>4, <1>10
  <2>2. Grammar!IsEscaped(s, Len(u)) <=> Grammar!IsEscaped(u, Len(u))
    <3>1. Len(u) \in Nat /\ \A k \in 1..(Len(u) - 1) : s[k] = u[k]
      BY <1>1, <1>4, <2>1
    <3> QED
      BY <3>1, EscapedSame
  <2>3. Len(u) \in 2..Len(s) /\ s[Len(u)] = Quote
    BY <1>1, <1>2, <1>4, <1>9, <1>10, <2>1
  <2> QED
    BY <1>6, <1>9, <2>2, <2>3
<1> QED
  BY <1>1, <1>4, <1>10

LEMMA StringLexeme ==
    ASSUME NEW t, IsSeq(t), NEW from \in 0..Len(t), NEW to \in 0..Len(t), from < to, to < Len(t),
           IsStringPrefix(Grammar!Slice(t, from, to), FALSE), t[to + 1] = Quote,
           NEW v, IsSeq(v), Grammar!IsUnescaped(Grammar!Slice(t, from, to), v)
    PROVE  Grammar!IsLexeme(t, [type |-> "STRING", value |-> Append(v, Quote),
                                start |-> from, end |-> to + 1])
<1> DEFINE s == Grammar!Slice(t, from, to)
           u == Append(s, Quote)
           w == Append(v, Quote)
           tok == [type |-> "STRING", value |-> w, start |-> from, end |-> to + 1]
<1>1. Len(t) \in Nat /\ from \in Nat /\ to \in Nat /\ to <= Len(t) /\ from <= to
  BY Appended
<1>2. IsSeq(s) /\ Len(s) = to - from /\ \A k \in 1..(to - from) : s[k] = t[from + k]
  BY <1>1, Sliced
<1>3. u = Grammar!Slice(t, from, to + 1)
  BY <1>1, SliceGrows
<1>4. IsStringPrefix(s, FALSE) /\ Grammar!IsUnescaped(s, v)
  OBVIOUS
<1>5. tok.type = "STRING" /\ tok.value = w /\ tok.start = from /\ tok.end = to + 1
  OBVIOUS
<1>6. u = Append(s, Quote) /\ w = Append(v, Quote)
  OBVIOUS
<1> HIDE DEF s, u, w, tok
<1>7. ~Grammar!IsEscaped(s, Len(s) + 1)
  BY <1>2, <1>4, StringGrows
<1>8. Grammar!IsUnescaped(u, w)
  BY <1>2, <1>4, <1>6, <1>7, QuoteIsNoBackslash, UnescapedGrows
<1>9. PICK len \in Nat : len = Len(s)
  BY <1>1, <1>2
<1>10. /\ Len(u) = len + 1 /\ u[len + 1] = Quote /\ \A k \in 1..len : u[k] = s[k]
  <2>1. /\ Len(u) = Len(s) + 1 /\ u[Len(s) + 1] = Quote
        /\ \A k \in 1..Len(s) : u[k] = s[k]
    <3>1. IsSeq(s)
      BY <1>2
    <3>2. /\ Len(Append(s, Quote)) = Len(s) + 1 /\ Append(s, Quote)[Len(s) + 1] = Quote
          /\ \A k \in 1..Len(s) : Append(s, Quote)[k] = s[k]
      BY <3>1, Appended
    <3> QED
      BY <1>6, <3>2
  <2> QED
    BY <1>9, <2>1
<1>11. /\ len >= 1 /\ s[1] = Quote
       /\ \A k \in 2..len : s[k] = Quote => Grammar!IsEscaped(s, k)
  BY <1>4, <1>9 DEF IsStringPrefix
<1>12. \A k \in 1..(len + 1) : Grammar!IsEscaped(s, k) <=> Grammar!IsEscaped(u, k)
  BY <1>10, EscapedSame
<1>13. ~Grammar!IsEscaped(u, len + 1)
  BY <1>7, <1>9, <1>12
<1>14. Grammar!IsString(u)
  <2>1. Len(u) >= 2 /\ u[1] = Quote
    BY <1>10, <1>11
  <2>2. ASSUME NEW k \in 2..Len(u)
        PROVE  k = Len(u) <=> u[k] = Quote /\ ~Grammar!IsEscaped(u, k)
    <3>1. CASE k = len + 1
      BY <1>10, <1>13, <3>1
    <3>2. CASE k \in 2..len
      BY <1>10, <1>11, <1>12, <3>2
    <3> QED
      BY <1>10, <2>2, <3>1, <3>2
  <2> QED
    BY <2>1, <2>2 DEF Grammar!IsString
<1>15. "STRING" \in Grammar!Types(u)
  BY <1>14 DEF Grammar!Types
<1>16. t[from + 1] = Quote /\ t[from + 1] \notin Digits
  BY <1>1, <1>2, <1>11, ClassesDiffer
<1>17. to + 1 \in Grammar!Ends(t, from)
  BY <1>1, <1>3, <1>15, <1>16 DEF Grammar!Ends
<1>18. ASSUME NEW e \in Grammar!Ends(t, from) PROVE e <= to + 1
  <2> DEFINE x == Grammar!Slice(t, from, e)
  <2>1. /\ e \in Nat /\ from < e /\ e <= Len(t) /\ IsSeq(x) /\ Len(x) = e - from
        /\ \A k \in 1..(e - from) : x[k] = t[from + k]
    BY EndsAt
  <2>2. Grammar!IsString(x)
    BY <1>1, <1>16, StringEnds
  <2> HIDE DEF x
  <2>3. ASSUME to + 1 < e PROVE FALSE
    <3>1. len + 1 \in 2..Len(x) /\ len + 1 # Len(x)
      BY <1>1, <1>2, <1>9, <1>11, <2>1, <2>3
    <3>2. x[len + 1] = Quote
      <4>1. len + 1 \in 1..(e - from) /\ from + (len + 1) = to + 1
        BY <1>1, <1>2, <1>9, <2>1, <2>3
      <4>2. x[len + 1] = t[from + (len + 1)]
        BY <2>1, <4>1
      <4> QED
        BY <4>1, <4>2
    <3>3. \A k \in 1..(len + 1 - 1) : s[k] = x[k]
      <4>1. len + 1 - 1 = to - from /\ to - from <= e - from
        BY <1>1, <1>2, <1>9, <2>1, <2>3
      <4> QED
        BY <1>1, <1>2, <2>1, <4>1
    <3>4. ~Grammar!IsEscaped(x, len + 1)
      <4>1. len + 1 \in Nat
        OBVIOUS
      <4> QED
        BY <1>7, <1>9, <3>3, <4>1, EscapedSame
    <3> QED
      BY <2>2, <3>1, <3>2, <3>4 DEF Grammar!IsString
  <2> QED
    BY <1>1, <2>1, <2>3
<1>19. Grammar!IsLexeme(t, tok)
  <2>1. Grammar!IsMaximal(t, tok)
    BY <1>5, <1>17, <1>18 DEF Grammar!IsMaximal
  <2>2. Grammar!IsValue(u, w)
    BY <1>8, <1>14 DEF Grammar!IsValue
  <2> QED
    BY <1>3, <1>5, <1>15, <2>1, <2>2 DEF Grammar!IsLexeme
<1> QED
  BY <1>19 DEF tok, w
-----------------------------------------------------------------------------
(* The state while no token is emitted.                                    *)
LEMMA LexerFacts ==
    ASSUME LexerInv
    PROVE  /\ IsSeq(text) /\ Len(text) \in Nat /\ IsSeq(value) /\ Len(value) \in Nat
           /\ index \in 0..Len(text) /\ Len(value) <= index /\ start \in 0..index
           /\ dots \in 0..2 /\ escaped \in BOOLEAN
BY Appended DEF LexerInv, LexerTyped

LEMMA Scans ==
    ASSUME LexerInv, pc # "done", UNCHANGED <<text, tokens, pos>>,
           pc' \in {"token", "number", "string", "word"},
           IsSeq(value'), index' \in 0..Len(text), start' \in 0..index', dots' \in 0..2,
           escaped' \in BOOLEAN, Len(value') <= index', ScanInv'
    PROVE  LexerInv'
<1>1. LexerTyped'
  <2>1. pos = 0
    BY DEF LexerInv, LexerTyped
  <2> QED
    BY <2>1 DEF LexerInv, LexerTyped
<1>2. EndInv'
  BY DEF LexerInv, EndInv
<1>3. Grammar!AreTokens(text, tokens)'
  <2>1. Grammar!AreTokens(text, tokens)
    BY DEF LexerInv
  <2> QED
    BY <2>1
<1> QED
  BY <1>1, <1>2, <1>3 DEF LexerInv

LEMMA SkipSpaceStep == LexerInv /\ SkipSpace => LexerInv'
<1> SUFFICES ASSUME LexerInv, SkipSpace PROVE LexerInv'
  OBVIOUS
<1>1. /\ pc = "token" /\ index < Len(text) /\ text[index + 1] \in Spaces
      /\ index' = index + 1
      /\ UNCHANGED <<text, tokens, pc, start, value, dots, escaped, pos>>
  BY DEF SkipSpace, At, Within, Char, scan
<1>2. SpacesTo(text, tokens, index)
  BY <1>1 DEF LexerInv, ScanInv, Beginning
<1>3. SpacesTo(text, tokens, index + 1)
  <2>1. Behind(tokens) \in Nat /\ index \in Nat
    BY LexerFacts, Appended DEF LexerInv, LexerTyped, Behind
  <2> QED
    BY <1>1, <1>2, <2>1 DEF SpacesTo
<1>4. ScanInv'
  BY <1>1, <1>3 DEF ScanInv, Beginning
<1> QED
  BY <1>1, <1>4, LexerFacts, Scans

LEMMA EndOfTextStep == LexerInv /\ EndOfText => LexerInv'
<1> SUFFICES ASSUME LexerInv, EndOfText PROVE LexerInv'
  OBVIOUS
<1>1. /\ pc = "token" /\ ~(index < Len(text)) /\ Emit("ENDOFFILE", << >>, index, index)
      /\ UNCHANGED <<text, index, start, value, dots, escaped, pos>>
  BY DEF EndOfText, Within, scan
<1>2. index = Len(text)
  BY <1>1, LexerFacts
<1>3. SpacesTo(text, tokens, index)
  BY <1>1 DEF LexerInv, ScanInv, Beginning
<1>4. "ENDOFFILE" \in Final
      /\ Grammar!IsEnd(text, [type |-> "ENDOFFILE", value |-> << >>, start |-> index, end |-> index])
  BY <1>2 DEF Final, Grammar!IsEnd
<1> QED
  BY <1>1, <1>2, <1>3, <1>4, LexerFacts, TokenAdded

LEMMA CompositeSymbolStep == LexerInv /\ CompositeSymbol => LexerInv'
<1> SUFFICES ASSUME LexerInv, CompositeSymbol PROVE LexerInv'
  OBVIOUS
<1>1. /\ pc = "token" /\ index < Len(text) /\ text[index + 1] \in DOMAIN SpecialSymbols
      /\ TwoChars \in DOMAIN CompositeSpecialSymbols
      /\ Emit(CompositeSpecialSymbols[TwoChars], TwoChars, index, index + 2)
      /\ index' = index + 2
      /\ UNCHANGED <<text, start, value, dots, escaped, pos>>
  BY DEF CompositeSymbol, At, Within, Char, scan
<1>2. index + 1 < Len(text)
  <2>1. << >> \notin DOMAIN CompositeSpecialSymbols
    BY SymbolTypes, EmptySeq
  <2> QED
    BY <1>1, <2>1 DEF TwoChars
<1>3. TwoChars = Grammar!Slice(text, index, index + 2)
  BY <1>2 DEF TwoChars, Grammar!Slice
<1>4. index + 2 \in 0..Len(text) /\ index + 2 <= Len(text)
  BY <1>2, LexerFacts
<1>5. SpacesTo(text, tokens, index)
  BY <1>1 DEF LexerInv, ScanInv, Beginning
<1>6. text[index + 1] \notin Spaces
  BY <1>1, ClassesDiffer
<1>7. CompositeSpecialSymbols[TwoChars] \notin Final
  BY <1>1, SymbolTypes
<1>8. Grammar!IsLexeme(text, [type |-> CompositeSpecialSymbols[TwoChars], value |-> TwoChars,
                              start |-> index, end |-> index + 2])
  BY <1>1, <1>3, <1>4, LexerFacts, CompositeLexeme
<1> QED
  BY <1>1, <1>4, <1>5, <1>6, <1>7, <1>8, LexerFacts, TokenAdded

LEMMA SpecialSymbolStep == LexerInv /\ SpecialSymbol => LexerInv'
<1> SUFFICES ASSUME LexerInv, SpecialSymbol PROVE LexerInv'
  OBVIOUS
<1>1. /\ pc = "token" /\ index < Len(text) /\ text[index + 1] \in DOMAIN SpecialSymbols
      /\ TwoChars \notin DOMAIN CompositeSpecialSymbols
      /\ Emit(SpecialSymbols[text[index + 1]], <<text[index + 1]>>, index, index + 1)
      /\ index' = index + 1
      /\ UNCHANGED <<text, start, value, dots, escaped, pos>>
  BY DEF SpecialSymbol, At, Within, Char, scan
<1>2. index + 1 < Len(text) => Grammar!Slice(text, index, index + 2) \notin DOMAIN CompositeSpecialSymbols
  BY <1>1 DEF TwoChars, Grammar!Slice
<1>3. index + 1 \in 0..Len(text)
  BY <1>1, LexerFacts
<1>4. SpacesTo(text, tokens, index)
  BY <1>1 DEF LexerInv, ScanInv, Beginning
<1>5. text[index + 1] \notin Spaces
  BY <1>1, ClassesDiffer
<1>6. SpecialSymbols[text[index + 1]] \notin Final
  BY <1>1, SymbolTypes
<1>7. Grammar!IsLexeme(text, [type |-> SpecialSymbols[text[index + 1]], value |-> <<text[index + 1]>>,
                              start |-> index, end |-> index + 1])
  BY <1>1, <1>2, LexerFacts, SymbolLexeme
<1> QED
  BY <1>1, <1>3, <1>4, <1>5, <1>6, <1>7, LexerFacts, TokenAdded

LEMMA InvalidCharStep == LexerInv /\ InvalidChar => LexerInv'
<1> SUFFICES ASSUME LexerInv, InvalidChar PROVE LexerInv'
  OBVIOUS
<1>1. /\ pc = "token" /\ index < Len(text)
      /\ text[index + 1] \notin Spaces \cup DOMAIN SpecialSymbols \cup Digits \cup {Quote} \cup WordStarts
      /\ Emit("INVALID", <<text[index + 1]>>, index, index + 1)
      /\ UNCHANGED <<text, index, start, value, dots, escaped, pos>>
  BY DEF InvalidChar, At, Within, Char, scan
<1>2. index + 1 \in 0..Len(text)
  BY <1>1, LexerFacts
<1>3. SpacesTo(text, tokens, index)
  BY <1>1 DEF LexerInv, ScanInv, Beginning
<1>4. Grammar!Ends(text, index) = {}
  BY <1>1, LexerFacts, NothingEnds
<1>5. "INVALID" \in Final
      /\ Grammar!IsEnd(text, [type |-> "INVALID", value |-> <<text[index + 1]>>,
                              start |-> index, end |-> index + 1])
  BY <1>1, <1>4 DEF Final, Grammar!IsEnd
<1> QED
  BY <1>1, <1>2, <1>3, <1>5, LexerFacts, TokenAdded
-----------------------------------------------------------------------------
(* Numbers and words.                                                      *)
LEMMA EmptySlice ==
    ASSUME NEW t, NEW n \in Nat PROVE Grammar!Slice(t, n, n) = << >>
BY SubSeqEmpty DEF Grammar!Slice

LEMMA BeginNumberStep == LexerInv /\ BeginNumber => LexerInv'
<1> SUFFICES ASSUME LexerInv, BeginNumber PROVE LexerInv'
  OBVIOUS
<1>1. /\ pc = "token" /\ index < Len(text) /\ text[index + 1] \in Digits
      /\ value' = << >> /\ dots' = 0 /\ pc' = "number"
      /\ UNCHANGED <<text, index, tokens, start, escaped, pos>>
  BY DEF BeginNumber, At, Within, Char
<1>2. SpacesTo(text, tokens, index)
  BY <1>1 DEF LexerInv, ScanInv, Beginning
<1>3. Beginning' = index /\ Scanned' = << >> /\ IsSeq(value') /\ Len(value') = 0
  <2>1. Len(value') = 0 /\ index - 0 = index
    BY <1>1, LexerFacts
  <2>2. Beginning' = index
    BY <1>1, <2>1 DEF Beginning
  <2>3. Scanned' = << >>
    BY <1>1, <2>2, LexerFacts, EmptySlice DEF Scanned
  <2>4. IsSeq(value')
    BY <1>1, EmptySeq DEF IsSeq
  <2> QED
    BY <2>1, <2>2, <2>3, <2>4
<1>4. IsNumberPrefix(text, index, index, 0)
  BY <1>1, LexerFacts DEF IsNumberPrefix
<1>5. ScanInv'
  BY <1>1, <1>2, <1>3, <1>4 DEF ScanInv
<1> QED
  BY <1>1, <1>3, <1>5, LexerFacts, Scans

LEMMA BeginWordStep == LexerInv /\ BeginWord => LexerInv'
<1> SUFFICES ASSUME LexerInv, BeginWord PROVE LexerInv'
  OBVIOUS
<1>1. /\ pc = "token" /\ index < Len(text) /\ text[index + 1] \in WordStarts
      /\ value' = << >> /\ pc' = "word"
      /\ UNCHANGED <<text, index, tokens, start, dots, escaped, pos>>
  BY DEF BeginWord, At, Within, Char
<1>2. SpacesTo(text, tokens, index)
  BY <1>1 DEF LexerInv, ScanInv, Beginning
<1>3. Beginning' = index /\ Scanned' = << >> /\ IsSeq(value') /\ Len(value') = 0
  <2>1. Len(value') = 0 /\ index - 0 = index
    BY <1>1, LexerFacts
  <2>2. Beginning' = index
    BY <1>1, <2>1 DEF Beginning
  <2>3. Scanned' = << >>
    BY <1>1, <2>2, LexerFacts, EmptySlice DEF Scanned
  <2>4. IsSeq(value')
    BY <1>1, EmptySeq DEF IsSeq
  <2> QED
    BY <2>1, <2>2, <2>3, <2>4
<1>4. IsWordPrefix(text, index, index)
  BY <1>1, LexerFacts DEF IsWordPrefix
<1>5. ScanInv'
  BY <1>1, <1>2, <1>3, <1>4 DEF ScanInv
<1> QED
  BY <1>1, <1>3, <1>5, LexerFacts, Scans

(* A character more of a number or a word.                                 *)
LEMMA OneMore ==
    ASSUME LexerInv, pc \in {"number", "word"}, index < Len(text),
           UNCHANGED <<text, pc>>, value' = Append(value, text[index + 1]), index' = index + 1
    PROVE  /\ Beginning \in 0..index /\ Beginning = index - Len(value) /\ Beginning' = Beginning
           /\ value' = Scanned' /\ IsSeq(value') /\ Len(value') <= index'
           /\ index' \in 0..Len(text)
<1>1. Beginning = index - Len(value) /\ Beginning' = index' - Len(value')
  BY DEF Beginning
<1>2. IsSeq(value') /\ Len(value') = Len(value) + 1
  BY LexerFacts, Appended
<1>3. Beginning' = Beginning /\ Beginning \in 0..index /\ Len(value') <= index'
      /\ index' \in 0..Len(text)
  BY <1>1, <1>2, LexerFacts
<1>4. value = Grammar!Slice(text, Beginning, index)
  BY DEF LexerInv, ScanInv, Scanned
<1>5. Grammar!Slice(text, Beginning, index + 1)
        = Append(Grammar!Slice(text, Beginning, index), text[index + 1])
  BY <1>3, LexerFacts, SliceGrows
<1> QED
  BY <1>1, <1>2, <1>3, <1>4, <1>5 DEF Scanned

LEMMA NumberCharStep == LexerInv /\ NumberChar => LexerInv'
<1> SUFFICES ASSUME LexerInv, NumberChar PROVE LexerInv'
  OBVIOUS
<1> DEFINE c == text[index + 1]
<1>1. /\ pc = "number" /\ index < Len(text) /\ (c \in Digits \/ c = ".") /\ dots < 2
      /\ value' = Append(value, c) /\ index' = index + 1
      /\ dots' = IF c = "." THEN dots + 1 ELSE dots
      /\ UNCHANGED <<text, tokens, pc, start, escaped, pos>>
  BY DEF NumberChar, InNumber, At, Within, Char, Push
<1>2. /\ Beginning \in 0..index /\ Beginning' = Beginning
      /\ value' = Scanned' /\ IsSeq(value') /\ Len(value') <= index' /\ index' \in 0..Len(text)
  BY <1>1, OneMore
<1>3. IsNumberPrefix(text, Beginning, index, dots) /\ SpacesTo(text, tokens, Beginning)
  BY <1>1 DEF LexerInv, ScanInv
<1>4. PICK from \in Nat : from = Beginning
  BY <1>2
<1> HIDE DEF c
<1>6. /\ from \in 0..index /\ from < Len(text) /\ text[from + 1] \in Digits
      /\ \A k \in (from + 1)..index : IsNumberChar(text[k])
      /\ dots = 0 => \A k \in (from + 1)..index : text[k] \in Digits
      /\ dots = 1 => \E d \in (from + 1)..index :
             text[d] = "." /\ \A k \in (from + 1)..index : k # d => text[k] \in Digits
  BY <1>2, <1>3, <1>4 DEF IsNumberPrefix
<1>7. text[index + 1] = c
  BY DEF c
<1>8. index \in Nat /\ dots \in 0..1
      /\ \A k \in (from + 1)..(index + 1) : k \in (from + 1)..index \/ k = index + 1
  BY <1>1, <1>6, LexerFacts
<1>9. IsNumberPrefix(text, from, index + 1, dots')
  <2>1. \A k \in (from + 1)..(index + 1) : IsNumberChar(text[k])
    BY <1>1, <1>6, <1>7, <1>8 DEF IsNumberChar
  <2>2. CASE c = "." /\ dots = 0
    <3>1. dots' = 1
      BY <1>1, <2>2
    <3>2. index + 1 \in (from + 1)..(index + 1) /\ text[index + 1] = "."
          /\ \A k \in (from + 1)..(index + 1) : k # index + 1 => text[k] \in Digits
      BY <1>6, <1>7, <1>8, <2>2
    <3> QED
      BY <1>6, <2>1, <3>1, <3>2 DEF IsNumberPrefix
  <2>3. CASE c = "." /\ dots = 1
    <3>1. dots' = 2
      BY <1>1, <2>3
    <3>2. PICK d \in (from + 1)..index : text[d] = "."
      BY <1>6, <2>3
    <3>3. d \in (from + 1)..(index + 1 - 1) /\ from < index + 1
      BY <1>6, <1>8
    <3>4. \E e \in (from + 1)..(index + 1 - 1) : text[e] = "."
      BY <3>2, <3>3
    <3>5. text[index + 1] = "." /\ from < index + 1
      BY <1>7, <2>3, <3>3
    <3>6. from < Len(text) /\ text[from + 1] \in Digits
      BY <1>6
    <3>7. IsNumberPrefix(text, from, index + 1, 2)
      BY <1>8, <2>1, <3>4, <3>5, <3>6 DEF IsNumberPrefix
    <3> QED
      BY <3>1, <3>7
  <2>4. CASE c # "."
    <3>1. dots' = dots /\ c \in Digits
      BY <1>1, <2>4
    <3>2. ASSUME dots = 0, NEW k \in (from + 1)..(index + 1) PROVE text[k] \in Digits
      BY <1>6, <1>7, <1>8, <3>1, <3>2
    <3>3. ASSUME dots = 1
          PROVE  \E d \in (from + 1)..(index + 1) :
                    text[d] = "." /\ \A k \in (from + 1)..(index + 1) : k # d => text[k] \in Digits
      <4>1. PICK d \in (from + 1)..index :
              text[d] = "." /\ \A k \in (from + 1)..index : k # d => text[k] \in Digits
        BY <1>6, <3>3
      <4>2. d \in (from + 1)..(index + 1)
            /\ \A k \in (from + 1)..(index + 1) : k # d => text[k] \in Digits
        BY <1>7, <1>8, <3>1, <4>1
      <4> QED
        BY <4>1, <4>2
    <3> QED
      BY <1>6, <1>8, <2>1, <3>1, <3>2, <3>3 DEF IsNumberPrefix
  <2> QED
    BY <1>8, <2>2, <2>3, <2>4
<1>10. ScanInv'
  BY <1>1, <1>2, <1>3, <1>4, <1>9 DEF ScanInv
<1>11. dots' \in 0..2 /\ start' \in 0..index' /\ escaped' \in BOOLEAN
  BY <1>1, <1>8, LexerFacts
<1> QED
  BY <1>1, <1>2, <1>10, <1>11, Scans

LEMMA WordCharStep == LexerInv /\ WordChar => LexerInv'
<1> SUFFICES ASSUME LexerInv, WordChar PROVE LexerInv'
  OBVIOUS
<1>1. /\ pc = "word" /\ index < Len(text) /\ text[index + 1] \in WordChars
      /\ value' = Append(value, text[index + 1]) /\ index' = index + 1
      /\ UNCHANGED <<text, tokens, pc, start, dots, escaped, pos>>
  BY DEF WordChar, InWord, At, Within, Char, Push
<1>2. /\ Beginning \in 0..index /\ Beginning' = Beginning
      /\ value' = Scanned' /\ IsSeq(value') /\ Len(value') <= index' /\ index' \in 0..Len(text)
  BY <1>1, OneMore
<1>3. IsWordPrefix(text, Beginning, index) /\ SpacesTo(text, tokens, Beginning)
  BY <1>1 DEF LexerInv, ScanInv
<1>4. IsWordPrefix(text, Beginning, index + 1)
  <2>1. \A k \in (Beginning + 1)..(index + 1) : k \in (Beginning + 1)..index \/ k = index + 1
    BY <1>2, LexerFacts
  <2> QED
    BY <1>1, <1>3, <2>1 DEF IsWordPrefix
<1>5. ScanInv'
  BY <1>1, <1>2, <1>3, <1>4 DEF ScanInv
<1>6. dots' \in 0..2 /\ start' \in 0..index' /\ escaped' \in BOOLEAN
  BY <1>1, LexerFacts
<1> QED
  BY <1>1, <1>2, <1>5, <1>6, Scans

LEMMA EndNumberStep == LexerInv /\ EndNumber => LexerInv'
<1> SUFFICES ASSUME LexerInv, EndNumber PROVE LexerInv'
  OBVIOUS
<1>1. /\ pc = "number" /\ ~InNumber
      /\ Emit(NumberType, value, index - Len(value), index)
      /\ UNCHANGED <<text, index, start, value, dots, escaped, pos>>
  BY DEF EndNumber, scan
<1>2. PICK from \in 0..Len(text) : from = index - Len(value) /\ from <= index
  BY LexerFacts
<1>3. Beginning = from
  BY <1>1, <1>2 DEF Beginning
<1>4. /\ SpacesTo(text, tokens, from) /\ value = Grammar!Slice(text, from, index)
      /\ IsNumberPrefix(text, from, index, dots)
  BY <1>1, <1>3 DEF LexerInv, ScanInv, Scanned
<1>5. dots = 2 \/ index = Len(text) \/ ~IsNumberChar(text[index + 1])
  BY <1>1, LexerFacts DEF InNumber, At, Within, Char, IsNumberChar
<1>6. /\ from < index
      /\ dots = 0 => Grammar!IsLexeme(text, [type |-> "INT", value |-> value, start |-> from, end |-> index])
      /\ dots = 1 /\ text[index] # "." =>
            Grammar!IsLexeme(text, [type |-> "FLOAT", value |-> value, start |-> from, end |-> index])
      /\ dots = 2 \/ (dots = 1 /\ text[index] = ".") => Grammar!Ends(text, from) = {}
  BY <1>2, <1>4, <1>5, LexerFacts, NumberLexeme
<1>7. Last(value) = text[index]
  <2>3. from \in Nat /\ index \in Nat /\ index <= Len(text) /\ IsSeq(text)
    BY <1>2, LexerFacts
  <2>4. /\ Len(Grammar!Slice(text, from, index)) = index - from
        /\ \A k \in 1..(index - from) : Grammar!Slice(text, from, index)[k] = text[from + k]
    BY <1>2, <2>3, Sliced
  <2>1. /\ Len(value) = index - from /\ index - from \in 1..(index - from)
        /\ \A k \in 1..(index - from) : value[k] = text[from + k]
    BY <1>4, <1>6, <2>3, <2>4
  <2>2. from + (index - from) = index
    BY <1>2, LexerFacts
  <2> QED
    BY <2>1, <2>2 DEF Last
<1>8. \/ dots = 0 /\ NumberType = "INT"
      \/ dots = 1 /\ text[index] # "." /\ NumberType = "FLOAT"
      \/ (dots = 2 \/ (dots = 1 /\ text[index] = ".")) /\ NumberType = "INVALID"
  BY <1>7, LexerFacts DEF NumberType
<1>9. from < Len(text) /\ text[from + 1] \notin Spaces
  BY <1>4, ClassesDiffer DEF IsNumberPrefix
<1>10. IF NumberType \in Final
       THEN Grammar!IsEnd(text, [type |-> NumberType, value |-> value, start |-> from, end |-> index])
       ELSE /\ index' = index
            /\ Grammar!IsLexeme(text, [type |-> NumberType, value |-> value, start |-> from, end |-> index])
  BY <1>1, <1>6, <1>8, <1>9 DEF Final, Grammar!IsEnd
<1>11. Emit(NumberType, value, from, index)
  BY <1>1, <1>2
<1> QED
  BY <1>1, <1>4, <1>9, <1>10, <1>11, LexerFacts, TokenAdded

LEMMA EndWordStep == LexerInv /\ EndWord => LexerInv'
<1> SUFFICES ASSUME LexerInv, EndWord PROVE LexerInv'
  OBVIOUS
<1> DEFINE type == IF value \in DOMAIN Keywords THEN Keywords[value] ELSE "ID"
<1>1. /\ pc = "word" /\ ~InWord
      /\ Emit(type, value, index - Len(value), index)
      /\ UNCHANGED <<text, index, start, value, dots, escaped, pos>>
  BY DEF EndWord, scan
<1>2. PICK from \in 0..Len(text) : from = index - Len(value) /\ from <= index
  BY LexerFacts
<1>3. Beginning = from
  BY <1>1, <1>2 DEF Beginning
<1>4. /\ SpacesTo(text, tokens, from) /\ value = Grammar!Slice(text, from, index)
      /\ IsWordPrefix(text, from, index)
  BY <1>1, <1>3 DEF LexerInv, ScanInv, Scanned
<1>5. index = Len(text) \/ text[index + 1] \notin WordChars
  BY <1>1, LexerFacts DEF InWord, At, Within, Char
<1>6. /\ type \notin Final
      /\ Grammar!IsLexeme(text, [type |-> type, value |-> value, start |-> from, end |-> index])
  BY <1>2, <1>4, <1>5, LexerFacts, WordLexeme
<1>7. text[from + 1] \notin Spaces
  BY <1>4, ClassesDiffer DEF IsWordPrefix
<1>8. Emit(type, value, from, index)
  BY <1>1, <1>2
<1> HIDE DEF type
<1> QED
  BY <1>1, <1>4, <1>6, <1>7, <1>8, LexerFacts, TokenAdded
-----------------------------------------------------------------------------
(* Strings.                                                                *)
LEMMA BeginStringStep == LexerInv /\ BeginString => LexerInv'
<1> SUFFICES ASSUME LexerInv, BeginString PROVE LexerInv'
  OBVIOUS
<1>1. /\ pc = "token" /\ index < Len(text) /\ text[index + 1] = Quote
      /\ start' = index /\ value' = <<text[index + 1]>> /\ index' = index + 1
      /\ escaped' = FALSE /\ pc' = "string"
      /\ UNCHANGED <<text, tokens, dots, pos>>
  BY DEF BeginString, At, Within, Char
<1>2. SpacesTo(text, tokens, index)
  BY <1>1 DEF LexerInv, ScanInv, Beginning
<1>3. Beginning' = index /\ index \in Nat
  BY <1>1, LexerFacts DEF Beginning
<1>4. value' = <<Quote>> /\ IsSeq(value') /\ Len(value') = 1
  <2>1. <<Quote>> \in Seq({Quote}) /\ Len(<<Quote>>) = 1
    OBVIOUS
  <2>2. IsSeq(<<Quote>>)
    BY <2>1 DEF IsSeq
  <2> QED
    BY <1>1, <2>1, <2>2
<1>5. Scanned' = <<Quote>>
  <2>1. Grammar!Slice(text, index, index + 1) = Append(Grammar!Slice(text, index, index), text[index + 1])
    BY <1>1, LexerFacts, SliceGrows
  <2>2. Append(<< >>, Quote) = <<Quote>>
    OBVIOUS
  <2> QED
    BY <1>1, <1>3, <2>1, <2>2, EmptySlice DEF Scanned
<1>6. start' < index'
  BY <1>1, <1>3
<1>7. ScanInv'
  BY <1>1, <1>2, <1>3, <1>4, <1>5, <1>6, QuoteUnescaped DEF ScanInv
<1>8. /\ index' \in 0..Len(text) /\ start' \in 0..index' /\ Len(value') <= index'
      /\ dots' \in 0..2 /\ escaped' \in BOOLEAN
  <2>1. index \in Nat /\ index + 1 \in 0..Len(text) /\ index \in 0..(index + 1) /\ 1 <= index + 1
    BY <1>1, LexerFacts
  <2> QED
    BY <1>1, <1>4, <2>1, LexerFacts
<1> QED
  BY <1>1, <1>4, <1>7, <1>8, Scans

(* A character more of a string that is not at its end.                    *)
LEMMA InString ==
    ASSUME LexerInv, pc = "string", index < Len(text),
           UNCHANGED <<text, tokens, pc, start, pos>>, index' = index + 1, escaped' \in BOOLEAN,
           UNCHANGED dots
    PROVE  /\ Beginning = start /\ Beginning' = start /\ IsSeq(Scanned)
           /\ Scanned' = Append(Scanned, text[index + 1])
           /\ IsStringPrefix(Scanned, escaped) /\ Grammar!IsUnescaped(Scanned, value)
           /\ escaped <=> Grammar!IsEscaped(Scanned, Len(Scanned) + 1)
           /\ IsSeq(value') /\ Len(value') <= index' /\ IsStringPrefix(Scanned', escaped')
              /\ Grammar!IsUnescaped(Scanned', value') => LexerInv'
<1>1. Beginning = start /\ Beginning' = start
  BY DEF Beginning
<1>2. /\ IsStringPrefix(Scanned, escaped) /\ Grammar!IsUnescaped(Scanned, value)
      /\ SpacesTo(text, tokens, start) /\ start < index
  BY <1>1 DEF LexerInv, ScanInv
<1>3. start \in Nat /\ index \in Nat /\ start <= index /\ index <= Len(text) /\ IsSeq(text)
  BY LexerFacts
<1>4. IsSeq(Scanned)
  BY <1>1, <1>3, Sliced DEF Scanned
<1>5. Scanned' = Append(Scanned, text[index + 1])
  BY <1>1, <1>3, SliceGrows DEF Scanned
<1>6. escaped <=> Grammar!IsEscaped(Scanned, Len(Scanned) + 1)
  BY <1>2, <1>4, LexerFacts, StringGrows
<1>7. ASSUME IsSeq(value'), Len(value') <= index', IsStringPrefix(Scanned', escaped'),
             Grammar!IsUnescaped(Scanned', value')
      PROVE  LexerInv'
  <2>1. start' < index' /\ index' \in 0..Len(text) /\ start' \in 0..index' /\ dots' \in 0..2
    BY <1>2, <1>3, LexerFacts
  <2>2. ScanInv'
    BY <1>1, <1>2, <1>7, <2>1 DEF ScanInv
  <2> QED
    BY <1>7, <2>1, <2>2, Scans
<1> QED
  BY <1>1, <1>2, <1>4, <1>5, <1>6, <1>7

LEMMA EscapedCharStep == LexerInv /\ EscapedChar => LexerInv'
<1> SUFFICES ASSUME LexerInv, EscapedChar PROVE LexerInv'
  OBVIOUS
<1> DEFINE c == text[index + 1]
           m == IF c \in DOMAIN Escapes THEN Escapes[c] ELSE c
<1>1. /\ pc = "string" /\ index < Len(text) /\ escaped
      /\ value' = Append(value, m) /\ index' = index + 1 /\ escaped' = FALSE
      /\ UNCHANGED <<text, tokens, pc, start, dots, pos>>
  BY DEF EscapedChar, At, Within, Char, Push
<1> HIDE DEF c
<1>2. /\ IsSeq(Scanned) /\ Scanned' = Append(Scanned, c)
      /\ IsStringPrefix(Scanned, escaped) /\ Grammar!IsUnescaped(Scanned, value)
      /\ escaped <=> Grammar!IsEscaped(Scanned, Len(Scanned) + 1)
      /\ IsSeq(value') /\ Len(value') <= index' /\ IsStringPrefix(Scanned', escaped')
         /\ Grammar!IsUnescaped(Scanned', value') => LexerInv'
  BY <1>1, InString DEF c
<1>3. IsSeq(value') /\ Len(value') <= index'
  BY <1>1, LexerFacts, Appended
<1>4. escaped = TRUE
  BY <1>1, LexerFacts
<1>5. Grammar!IsUnescaped(Append(Scanned, c), Append(value, IF TRUE /\ c \in DOMAIN Escapes THEN Escapes[c] ELSE c))
  BY <1>2, <1>4, LexerFacts, UnescapedGrows
<1>6. IsStringPrefix(Append(Scanned, c), FALSE)
  <2>1. c = Backslash => IsStringPrefix(Append(Scanned, c), ~TRUE)
    BY <1>2, <1>4, StringGrows
  <2>2. c # Backslash => IsStringPrefix(Append(Scanned, c), FALSE)
    BY <1>2, <1>4, StringGrows
  <2> QED
    BY <2>1, <2>2
<1> QED
  BY <1>1, <1>2, <1>3, <1>5, <1>6

LEMMA EscapeSymbolStep == LexerInv /\ EscapeSymbol => LexerInv'
<1> SUFFICES ASSUME LexerInv, EscapeSymbol PROVE LexerInv'
  OBVIOUS
<1>1. /\ pc = "string" /\ index < Len(text) /\ ~escaped /\ text[index + 1] = Backslash
      /\ index' = index + 1 /\ escaped' = TRUE
      /\ UNCHANGED <<text, tokens, pc, start, value, dots, pos>>
  BY DEF EscapeSymbol, At, Within, Char
<1>2. /\ IsSeq(Scanned) /\ Scanned' = Append(Scanned, Backslash)
      /\ IsStringPrefix(Scanned, escaped) /\ Grammar!IsUnescaped(Scanned, value)
      /\ escaped <=> Grammar!IsEscaped(Scanned, Len(Scanned) + 1)
      /\ IsSeq(value') /\ Len(value') <= index' /\ IsStringPrefix(Scanned', escaped')
         /\ Grammar!IsUnescaped(Scanned', value') => LexerInv'
  BY <1>1, InString
<1>3. IsSeq(value') /\ Len(value') <= index'
  BY <1>1, LexerFacts
<1>4. escaped = FALSE
  BY <1>1, LexerFacts
<1>5. Grammar!IsUnescaped(Append(Scanned, Backslash), value)
  BY <1>2, <1>4, LexerFacts, UnescapedGrows
<1>6. IsStringPrefix(Append(Scanned, Backslash), ~FALSE)
  BY <1>2, <1>4, StringGrows
<1> QED
  BY <1>1, <1>2, <1>3, <1>5, <1>6

LEMMA StringCharStep == LexerInv /\ StringChar => LexerInv'
<1> SUFFICES ASSUME LexerInv, StringChar PROVE LexerInv'
  OBVIOUS
<1> DEFINE c == text[index + 1]
<1>1. /\ pc = "string" /\ index < Len(text) /\ ~escaped /\ c # Backslash /\ c # Quote
      /\ value' = Append(value, c) /\ index' = index + 1
      /\ UNCHANGED <<text, tokens, pc, start, dots, escaped, pos>>
  BY DEF StringChar, At, Within, Char, Push
<1> HIDE DEF c
<1>2. escaped = FALSE
  BY <1>1, LexerFacts
<1>3. /\ IsSeq(Scanned) /\ Scanned' = Append(Scanned, c)
      /\ IsStringPrefix(Scanned, escaped) /\ Grammar!IsUnescaped(Scanned, value)
      /\ escaped <=> Grammar!IsEscaped(Scanned, Len(Scanned) + 1)
      /\ IsSeq(value') /\ Len(value') <= index' /\ IsStringPrefix(Scanned', escaped')
         /\ Grammar!IsUnescaped(Scanned', value') => LexerInv'
  BY <1>1, <1>2, InString DEF c
<1>4. IsSeq(value') /\ Len(value') <= index'
  BY <1>1, LexerFacts, Appended
<1>5. Grammar!IsUnescaped(Append(Scanned, c), Append(value, IF FALSE /\ c \in DOMAIN Escapes THEN Escapes[c] ELSE c))
  BY <1>1, <1>2, <1>3, LexerFacts, UnescapedGrows
<1>6. IsStringPrefix(Append(Scanned, c), FALSE)
  BY <1>1, <1>2, <1>3, StringGrows
<1> QED
  BY <1>1, <1>2, <1>3, <1>4, <1>5, <1>6

LEMMA CloseStringStep == LexerInv /\ CloseString => LexerInv'
<1> SUFFICES ASSUME LexerInv, CloseString PROVE LexerInv'
  OBVIOUS
<1>1. /\ pc = "string" /\ index < Len(text) /\ ~escaped /\ text[index + 1] = Quote
      /\ value' = Append(value, Quote) /\ index' = index + 1
      /\ Emit("STRING", Append(value, Quote), start, index + 1)
      /\ UNCHANGED <<text, start, dots, escaped, pos>>
  BY DEF CloseString, At, Within, Char, Push, StringStart
<1>2. Beginning = start /\ escaped = FALSE
  BY <1>1, LexerFacts DEF Beginning
<1>3. /\ IsStringPrefix(Grammar!Slice(text, start, index), FALSE)
      /\ Grammar!IsUnescaped(Grammar!Slice(text, start, index), value)
      /\ SpacesTo(text, tokens, start) /\ start < index
  BY <1>1, <1>2 DEF LexerInv, ScanInv, Scanned
<1>4. start \in 0..Len(text) /\ index + 1 \in 0..Len(text)
  BY <1>1, LexerFacts
<1>5. Grammar!IsLexeme(text, [type |-> "STRING", value |-> Append(value, Quote),
                              start |-> start, end |-> index + 1])
  BY <1>1, <1>3, <1>4, LexerFacts, StringLexeme
<1>6. text[start + 1] \notin Spaces
  <2>1. start \in Nat /\ index \in Nat /\ start <= index /\ index <= Len(text) /\ IsSeq(text)
    BY LexerFacts
  <2>2. /\ Len(Grammar!Slice(text, start, index)) = index - start
        /\ \A k \in 1..(index - start) : Grammar!Slice(text, start, index)[k] = text[start + k]
    BY <2>1, Sliced
  <2>3. Grammar!Slice(text, start, index)[1] = Quote
    BY <1>3 DEF IsStringPrefix
  <2>4. 1 \in 1..(index - start)
    BY <1>3, <2>1
  <2> QED
    BY <2>2, <2>3, <2>4, ClassesDiffer
<1>7. "STRING" \notin Final
  BY DEF Final
<1>8. /\ IsSeq(value') /\ Len(value') <= index' /\ start' \in 0..index'
      /\ dots' \in 0..2 /\ escaped' \in BOOLEAN /\ pc # "done"
  BY <1>1, LexerFacts, Appended
<1> QED
  BY <1>1, <1>3, <1>4, <1>5, <1>6, <1>7, <1>8, TokenAdded

LEMMA UnterminatedStringStep == LexerInv /\ UnterminatedString => LexerInv'
<1> SUFFICES ASSUME LexerInv, UnterminatedString PROVE LexerInv'
  OBVIOUS
<1>1. /\ pc = "string" /\ ~(index < Len(text)) /\ Emit("INVALID", value, start, index)
      /\ UNCHANGED <<text, index, start, value, dots, escaped, pos>>
  BY DEF UnterminatedString, Within, scan
<1>2. Beginning = start
  BY <1>1 DEF Beginning
<1>3. /\ IsStringPrefix(Grammar!Slice(text, start, index), escaped)
      /\ SpacesTo(text, tokens, start) /\ start < index
  BY <1>1, <1>2 DEF LexerInv, ScanInv, Scanned
<1>4. start \in 0..Len(text) /\ start < Len(text) /\ index = Len(text) /\ start <= index
  BY <1>1, <1>3, LexerFacts
<1>5. Grammar!Ends(text, start) = {}
  <2>1. ASSUME NEW e \in Grammar!Ends(text, start) PROVE FALSE
    <3>1. index < e
      BY <1>3, <1>4, LexerFacts, NoQuoteBefore
    <3>2. e \in Nat /\ e <= Len(text)
      BY <1>4, LexerFacts, EndsAt
    <3> QED
      BY <1>4, <3>1, <3>2, LexerFacts
  <2> QED
    BY <2>1
<1>6. text[start + 1] \notin Spaces
  <2>1. start \in Nat /\ index \in Nat /\ start <= index /\ index <= Len(text) /\ IsSeq(text)
    BY LexerFacts
  <2>2. /\ Len(Grammar!Slice(text, start, index)) = index - start
        /\ \A k \in 1..(index - start) : Grammar!Slice(text, start, index)[k] = text[start + k]
    BY <2>1, Sliced
  <2>3. Grammar!Slice(text, start, index)[1] = Quote
    BY <1>3 DEF IsStringPrefix
  <2>4. 1 \in 1..(index - start)
    BY <1>3, <2>1
  <2> QED
    BY <2>2, <2>3, <2>4, ClassesDiffer
<1>7. "INVALID" \in Final
      /\ Grammar!IsEnd(text, [type |-> "INVALID", value |-> value, start |-> start, end |-> index])
  BY <1>4, <1>5 DEF Final, Grammar!IsEnd
<1> QED
  BY <1>1, <1>3, <1>4, <1>6, <1>7, LexerFacts, TokenAdded
-----------------------------------------------------------------------------
(* What can be done with a lexer only moves its position.                  *)
LEMMA PositionMoves ==
    ASSUME LexerInv, pc = "done", UNCHANGED <<text, index, tokens, pc, scan>>,
           pos' \in 0..(Len(tokens) - 1)
    PROVE  LexerInv'
<1>1. LexerTyped' /\ EndInv'
  BY DEF LexerInv, LexerTyped, EndInv, scan
<1>2. Grammar!AreTokens(text, tokens)'
  <2>1. Grammar!AreTokens(text, tokens)
    BY DEF LexerInv
  <2> QED
    BY <2>1
<1>3. ScanInv'
  BY DEF ScanInv
<1> QED
  BY <1>1, <1>2, <1>3 DEF LexerInv

LEMMA NextTokenStep == LexerInv /\ NextToken => LexerInv'
<1> SUFFICES ASSUME LexerInv, NextToken PROVE LexerInv'
  OBVIOUS
<1>1. pc = "done" /\ pos \in 0..(Len(tokens) - 1) /\ Len(tokens) \in Nat
  BY Appended DEF NextToken, LexerInv, LexerTyped
<1>2. pos' \in 0..(Len(tokens) - 1)
  BY <1>1 DEF NextToken
<1> QED
  BY <1>1, <1>2, PositionMoves DEF NextToken

LEMMA SeekStep == ASSUME NEW p \in 0..Len(tokens) PROVE LexerInv /\ Seek(p) => LexerInv'
<1> SUFFICES ASSUME LexerInv, Seek(p) PROVE LexerInv'
  OBVIOUS
<1>1. pc = "done" /\ pos \in 0..(Len(tokens) - 1) /\ Len(tokens) \in Nat
  BY Appended DEF Seek, LexerInv, LexerTyped
<1>2. pos' \in 0..(Len(tokens) - 1)
  BY <1>1 DEF Seek
<1> QED
  BY <1>1, <1>2, PositionMoves DEF Seek

LEMMA LexerInitInv == LexerInit => LexerInv
<1> SUFFICES ASSUME LexerInit PROVE LexerInv
  OBVIOUS
<1>1. /\ text \in Seq(STRING) /\ index = 0 /\ tokens = << >> /\ pc = "token" /\ start = 0
      /\ value = << >> /\ dots = 0 /\ escaped = FALSE /\ pos = 0
  BY TextsAssumption DEF LexerInit
<1>2. IsSeq(text) /\ Len(text) \in Nat /\ IsSeq(<< >>) /\ DOMAIN << >> = {} /\ Len(<< >>) = 0
  BY <1>1 DEF IsSeq
<1>3. LexerTyped
  <2>1. IsSeq(tokens) /\ IsSeq(value) /\ DOMAIN tokens = {} /\ Len(value) <= index
    BY <1>1, <1>2
  <2>2. index \in 0..Len(text) /\ start \in 0..index /\ dots \in 0..2 /\ escaped \in BOOLEAN
    <3>1. 0 \in 0..Len(text) /\ 0 \in 0..0 /\ 0 \in 0..2
      BY <1>2
    <3>2. escaped \in BOOLEAN
      BY <1>1, Zenon
    <3> QED
      BY <1>1, <3>1, <3>2
  <2>3. pc \in {"token", "number", "string", "word", "done"} /\ pc # "done"
    BY <1>1
  <2> QED
    BY <1>1, <1>2, <2>1, <2>2, <2>3 DEF LexerTyped
<1>4. Grammar!AreTokens(text, tokens) /\ EndInv
  BY <1>1, <1>2 DEF Grammar!AreTokens, EndInv
<1>5. ScanInv
  BY <1>1 DEF ScanInv, SpacesTo, Behind, Beginning
<1> QED
  BY <1>3, <1>4, <1>5 DEF LexerInv

LEMMA LexerNextInv == LexerInv /\ [LexerNext]_lexerVars => LexerInv'
<1>1. ASSUME LexerInv, UNCHANGED lexerVars PROVE LexerInv'
  <2>1. UNCHANGED <<text, index, tokens, pc, start, value, dots, escaped, pos>>
    BY <1>1 DEF lexerVars, scan
  <2>2. Grammar!AreTokens(text, tokens)'
    BY <1>1, <2>1 DEF LexerInv
  <2>3. LexerTyped' /\ EndInv'
    BY <1>1, <2>1 DEF LexerInv, LexerTyped, EndInv
  <2>4. ScanInv'
    BY <1>1, <2>1 DEF LexerInv, ScanInv, Beginning, Scanned
  <2> QED
    BY <2>2, <2>3, <2>4 DEF LexerInv
<1>2. LexerInv /\ GenerateTokens => LexerInv'
  BY SkipSpaceStep, EndOfTextStep, CompositeSymbolStep, SpecialSymbolStep, BeginNumberStep,
     NumberCharStep, EndNumberStep, BeginStringStep, EscapedCharStep, EscapeSymbolStep,
     StringCharStep, CloseStringStep, UnterminatedStringStep, BeginWordStep, WordCharStep,
     EndWordStep, InvalidCharStep DEF GenerateTokens
<1> QED
  BY <1>1, <1>2, NextTokenStep, SeekStep DEF LexerNext

LEMMA LexerInvariant == LexerSpec => []LexerInv
BY LexerInitInv, LexerNextInv, PTL DEF LexerSpec

(* For texts of any length every position and place stays in the text, and *)
(* the position of the calls made afterwards among the tokens              *)
(* (lexer.h:24-45, lexer.cpp:64-200).                                      *)
THEOREM LexerStaysInText == LexerSpec => []LexerTypeOK
<1>1. LexerInv => LexerTypeOK
  BY DEF LexerInv, LexerTyped, LexerTypeOK
<1> QED
  BY LexerInvariant, <1>1, PTL

(* For texts of any length and whatever characters are spaces, digits and  *)
(* letters: the tokens are the longest lexemes one behind the other, with  *)
(* their places and values, and where none begins the lexer stops          *)
(* (lexer.cpp:64-200).                                                     *)
THEOREM LexerFindsTheTokens == LexerSpec => []FindsTheTokens
<1>1. LexerInv => FindsTheTokens
  BY DEF LexerInv, EndInv, FindsTheTokens, Final, Last
<1> QED
  BY LexerInvariant, <1>1, PTL
=============================================================================
