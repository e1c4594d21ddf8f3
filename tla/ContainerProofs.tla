----------------------------- MODULE ContainerProofs -----------------------------
(***************************************************************************)
(* Proofs about the two containers, which have nothing in common: Table,   *)
(* for any ordered set of keys and tables of any size, and Stack, for any  *)
(* number of stacks, blocks and elements and any limit.                    *)
(*                                                                         *)
(* The table stays sorted, no index is out of bounds, and each call does   *)
(* what TableSpec says of it.                                              *)
(***************************************************************************)
EXTENDS Table, Stack, SequenceTheorems, TLAPS

Size == Len(table)

KeysOf == {table[k].key : k \in 1..Size}

(* The state of a search: the key is not left of the left border nor right *)
(* of the right one, and where the borders have crossed, i is the index of *)
(* the last smaller key, if there is one.                                  *)
Borders ==
    /\ 0 <= left /\ right < Size /\ left <= right + 1
    /\ left <= right => left <= i /\ i <= right
    /\ left > right => i = IF right < 0 THEN 0 ELSE right
    /\ \A k \in 1..Size : k <= left => table[k].key < request.key
    /\ \A k \in 1..Size : k > right + 1 => table[k].key > request.key

(* Which keys the table has when each part of the code is reached. *)
FoundInv ==
    /\ pc = "find" => table # << >>
    /\ pc = "found" => found = IF request.key \in KeysOf THEN {Map[request.key]} ELSE {}
    /\ pc = "add" => request.op = "add" /\ request.key \notin KeysOf
    /\ pc = "del" => request.op = "del" /\ request.key \in KeysOf

TableInv == TypeOK /\ Sorted /\ (pc \in Loops => Borders) /\ FoundInv
-----------------------------------------------------------------------------
(* Map gives each key the value next to it, since no key is there twice.   *)
LEMMA MapFacts ==
    ASSUME TypeOK, Sorted
    PROVE  /\ DOMAIN Map = KeysOf
           /\ \A k \in 1..Size : Map[table[k].key] = table[k].value
<1>1. Size \in Nat /\ \A k \in 1..Size : table[k] \in Entries
  BY LenProperties, ElementOfSeq DEF TypeOK, Size
<1>2. \A k \in 1..Size : table[k].key \in Int
  BY <1>1, TableAssumption DEF Entries
<1>3. DOMAIN Map = KeysOf
  BY DEF Map, KeysOf, Size
<1>4. ASSUME NEW k \in 1..Size PROVE Map[table[k].key] = table[k].value
  <2> DEFINE j == CHOOSE j \in 1..Size : table[j].key = table[k].key
  <2>1. j \in 1..Size /\ table[j].key = table[k].key
    OBVIOUS
  <2>2. table[k].key \in KeysOf
    BY DEF KeysOf
  <2>3. Map[table[k].key] = table[j].value
    BY <2>2 DEF Map, KeysOf, Size
  <2> HIDE DEF j
  <2>4. ~(j < k) /\ ~(k < j)
    BY <1>2, <2>1 DEF Sorted, Size
  <2>5. j = k
    BY <1>1, <2>1, <2>4
  <2>6. QED
    BY <2>3, <2>5
<1>5. QED
  BY <1>3, <1>4

(* The index a loop computes from the borders it has moved. *)
LEMMA MiddleOfBorders ==
    ASSUME NEW l \in Int, NEW r \in Int, 0 <= l, l <= r + 1
    PROVE  /\ Half(l + r) \in Int
           /\ l <= r => l <= Half(l + r) /\ Half(l + r) <= r
           /\ l > r => Half(l + r) = IF r < 0 THEN 0 ELSE r
<1>1. Half(l + r) \in Int
  BY DEF Half
<1>2. CASE l <= r
  BY <1>2 DEF Half
<1>3. CASE l > r /\ r < 0
  <2>1. l + r = -1
    BY <1>3
  <2>2. Half(l + r) = 0
    BY <2>1 DEF Half
  <2>3. QED
    BY <1>3, <2>2
<1>4. CASE l > r /\ 0 <= r
  <2>1. l + r = 2 * r + 1
    BY <1>4
  <2>2. Half(l + r) = r
    BY <1>4, <2>1 DEF Half
  <2>3. QED
    BY <1>4, <2>2
<1>5. QED
  BY <1>2, <1>3, <1>4

(* What comes of inserting e at p.                                         *)
IsInsertion(t, s, p, e) ==
    /\ Len(t) = Len(s) + 1
    /\ \A k \in 1..(Len(s) + 1) : t[k] = IF k < p THEN s[k] ELSE IF k = p THEN e ELSE s[k - 1]

LEMMA Insertion ==
    ASSUME NEW S, NEW s \in Seq(S), NEW e \in S, NEW p \in 1..(Len(s) + 1),
           NEW t, t = InsertAt(s, p, e)
    PROVE  t \in Seq(S) /\ IsInsertion(t, s, p, e)
<1> DEFINE a == SubSeq(s, 1, p - 1)
           b == SubSeq(s, p, Len(s))
<1>1. Len(s) \in Nat /\ \A n \in 1..Len(s) : s[n] \in S
  BY LenProperties, ElementOfSeq
<1>2. /\ a \in Seq(S) /\ Len(a) = p - 1
      /\ \A k \in 1..(p - 1) : a[k] = s[k]
  BY <1>1, SubSeqProperties
<1>3. /\ b \in Seq(S) /\ Len(b) = Len(s) - p + 1
      /\ \A k \in 1..(Len(s) - p + 1) : b[k] = s[p + k - 1]
  BY <1>1, SubSeqProperties
<1>4. <<e>> \in Seq(S) /\ Len(<<e>>) = 1 /\ <<e>>[1] = e
  OBVIOUS
<1> HIDE DEF a, b
<1>5. /\ a \o <<e>> \in Seq(S) /\ Len(a \o <<e>>) = p
      /\ \A k \in 1..p : (a \o <<e>>)[k] = IF k < p THEN s[k] ELSE e
  BY <1>1, <1>2, <1>4, ConcatProperties
<1> DEFINE c == a \o <<e>>
<1> HIDE DEF c
<1>6. /\ c \o b \in Seq(S)
      /\ Len(c \o b) = Len(s) + 1
      /\ \A k \in 1..(Len(s) + 1) : (c \o b)[k] = IF k <= p THEN c[k] ELSE b[k - p]
  <2>1. c \in Seq(S) /\ Len(c) = p
    BY <1>5 DEF c
  <2>2. Len(c) + Len(b) = Len(s) + 1
    BY <2>1, <1>1, <1>3
  <2>3. /\ c \o b \in Seq(S) /\ Len(c \o b) = Len(c) + Len(b)
        /\ \A k \in 1..(Len(c) + Len(b)) :
                (c \o b)[k] = IF k <= Len(c) THEN c[k] ELSE b[k - Len(c)]
    BY <2>1, <1>3, ConcatProperties
  <2>4. QED
    BY <2>1, <2>2, <2>3
<1>7. \A k \in 1..(Len(s) + 1) : k > p => b[k - p] = s[k - 1]
  BY <1>1, <1>3
<1>8. t = c \o b
  BY DEF InsertAt, a, b, c
<1>9. \A k \in 1..p : c[k] = IF k < p THEN s[k] ELSE e
  BY <1>5 DEF c
<1>10. ASSUME NEW k \in 1..(Len(s) + 1)
      PROVE  (c \o b)[k] = IF k < p THEN s[k] ELSE IF k = p THEN e ELSE s[k - 1]
  <2>1. CASE k > p
    BY <1>6, <1>7, <2>1
  <2>2. CASE k <= p
    <3>1. k \in 1..p /\ (c \o b)[k] = c[k]
      BY <1>6, <2>2
    <3> QED
      BY <1>9, <2>2, <3>1
  <2>3. k > p \/ k <= p
    <3>1. k \in Nat /\ p \in Nat
      BY <1>1
    <3> QED
      BY <3>1
  <2> QED
    BY <2>1, <2>2, <2>3, Zenon
<1>11. QED
  BY <1>6, <1>8, <1>10 DEF IsInsertion

LEMMA RemoveAtFacts ==
    ASSUME NEW S, NEW s \in Seq(S), NEW p \in 1..Len(s)
    PROVE  /\ RemoveAt(s, p) \in Seq(S)
           /\ Len(RemoveAt(s, p)) = Len(s) - 1
           /\ \A k \in 1..(Len(s) - 1) : RemoveAt(s, p)[k] = IF k < p THEN s[k] ELSE s[k + 1]
<1> DEFINE a == SubSeq(s, 1, p - 1)
           b == SubSeq(s, p + 1, Len(s))
<1>1. Len(s) \in Nat /\ \A n \in 1..Len(s) : s[n] \in S
  BY LenProperties, ElementOfSeq
<1>2. /\ a \in Seq(S) /\ Len(a) = p - 1
      /\ \A k \in 1..(p - 1) : a[k] = s[k]
  BY <1>1, SubSeqProperties
<1>3. /\ b \in Seq(S) /\ Len(b) = Len(s) - p
      /\ \A k \in 1..(Len(s) - p) : b[k] = s[p + k]
  BY <1>1, SubSeqProperties
<1> HIDE DEF a, b
<1>4. /\ a \o b \in Seq(S)
      /\ Len(a \o b) = Len(s) - 1
      /\ \A k \in 1..(Len(s) - 1) : (a \o b)[k] = IF k < p THEN a[k] ELSE b[k - (p - 1)]
  <2>1. Len(a) + Len(b) = Len(s) - 1
    BY <1>1, <1>2, <1>3
  <2>2. /\ a \o b \in Seq(S) /\ Len(a \o b) = Len(a) + Len(b)
        /\ \A k \in 1..(Len(a) + Len(b)) :
                (a \o b)[k] = IF k <= Len(a) THEN a[k] ELSE b[k - Len(a)]
    BY <1>2, <1>3, ConcatProperties
  <2>3. Len(a) = p - 1 /\ p \in Int /\ Len(s) \in Nat
    BY <1>1, <1>2
  <2>4. \A k \in 1..(Len(s) - 1) : k <= p - 1 <=> k < p
    BY <2>3
  <2>5. QED
    BY <2>1, <2>2, <2>3, <2>4
<1>5. \A k \in 1..(Len(s) - 1) : ~(k < p) => b[k - (p - 1)] = s[k + 1]
  BY <1>1, <1>3
<1>6. RemoveAt(s, p) = a \o b
  BY DEF RemoveAt, a, b
<1>7. QED
  BY <1>1, <1>2, <1>4, <1>5, <1>6
-----------------------------------------------------------------------------
(* The parts of the invariant that hold after a loop has been entered. *)
LEMMA BeginsInBorders ==
    ASSUME TypeOK, NEW loop \in Loops, BeginSearch(loop), table' = table
    PROVE  Borders' /\ i' \in Int /\ left' \in Int /\ right' \in Int
<1>1. Len(table) \in Nat
  BY LenProperties DEF TypeOK
<1>2. i' = Half(Len(table)) /\ left' = 0 /\ right' = Len(table) - 1
  BY DEF BeginSearch
<1>3. Half(Len(table)) \in Int /\ 0 <= Half(Len(table))
  BY <1>1 DEF Half
<1>4. 0 < Len(table) => Half(Len(table)) <= Len(table) - 1
  BY <1>1 DEF Half
<1>5. Len(table) = 0 => Half(Len(table)) = 0
  BY <1>1 DEF Half
<1>6. Size' = Len(table)
  BY DEF Size
<1>7. QED
  BY <1>1, <1>2, <1>3, <1>4, <1>5, <1>6 DEF Borders

LEMMA InitInv == ASSUME Init PROVE TableInv
BY EmptySeq DEF Init, TableInv, TypeOK, Sorted, FoundInv, Loops, Answers, Answer

LEMMA CallInv == ASSUME TableInv, Call PROVE TableInv'
<1>1. request' \in Requests /\ table' = table /\ answer' = answer
  BY DEF Call
<1>2. CASE table = << >>
  <2>1. found' = {} /\ pc' = "found" /\ i' = i /\ left' = left /\ right' = right
    BY <1>2 DEF Call
  <2>2. KeysOf' = {}
    BY <1>1, <1>2, EmptySeq DEF KeysOf, Size
  <2>3. QED
    BY <1>1, <2>1, <2>2 DEF TableInv, TypeOK, Sorted, FoundInv, Loops, Size
<1>3. CASE table # << >>
  <2>1. BeginSearch("find") /\ found' = found
    BY <1>3 DEF Call
  <2>2. pc' = "find"
    BY <2>1 DEF BeginSearch
  <2>3. Borders' /\ i' \in Int /\ left' \in Int /\ right' \in Int
    BY <1>1, <2>1, BeginsInBorders DEF TableInv, Loops
  <2>4. TypeOK'
    BY <1>1, <2>1, <2>2, <2>3 DEF TableInv, TypeOK, Loops
  <2>5. QED
    BY <1>1, <1>3, <2>2, <2>3, <2>4 DEF TableInv, Sorted, FoundInv, Loops, Size
<1>4. QED
  BY <1>2, <1>3

LEMMA Ranges ==
    ASSUME TableInv, pc \in Loops
    PROVE  /\ i \in Int /\ left \in Int /\ right \in Int /\ Size \in Nat
           /\ request.key \in Int /\ request.key \in Keys /\ request.value \in Vals
           /\ \A k \in 1..Size : table[k] \in Entries /\ table[k].key \in Int
<1>1. table \in Seq(Entries) /\ i \in Int /\ left \in Int /\ right \in Int
  BY DEF TableInv, TypeOK
<1>2. Size \in Nat /\ \A k \in 1..Size : table[k] \in Entries
  BY <1>1, LenProperties, ElementOfSeq DEF Size
<1>3. request \in Requests
  BY DEF TableInv, TypeOK, Loops
<1>4. request.key \in Keys /\ request.value \in Vals
  BY <1>3 DEF Requests
<1>5. \A e \in Entries : e.key \in Int
  BY TableAssumption DEF Entries
<1>6. QED
  BY <1>1, <1>2, <1>4, <1>5, TableAssumption

LEMMA GoLeftInv == ASSUME TableInv, GoLeft PROVE TableInv'
<1>1. /\ pc \in Loops /\ left <= right /\ table[i + 1].key > request.key
      /\ right' = i - 1 /\ i' = Half(left + right')
      /\ table' = table /\ request' = request /\ left' = left
      /\ found' = found /\ answer' = answer /\ pc' = pc
  BY DEF GoLeft, Entry
<1>2. /\ i \in Int /\ left \in Int /\ right \in Int /\ Size \in Nat
      /\ request.key \in Int /\ \A k \in 1..Size : table[k].key \in Int
  BY <1>1, Ranges
<1>3. 0 <= left /\ left <= i /\ i <= right /\ right < Size
  BY <1>1 DEF TableInv, Borders
<1>4. right' \in Int /\ left <= right' + 1
  BY <1>1, <1>2, <1>3
<1>5. /\ i' \in Int
      /\ left <= right' => left <= i' /\ i' <= right'
      /\ left > right' => i' = IF right' < 0 THEN 0 ELSE right'
  BY <1>1, <1>2, <1>3, <1>4, MiddleOfBorders
<1>6. \A k \in 1..Size : k > right' + 1 => table[k].key > request.key
  <2>1. SUFFICES ASSUME NEW k \in 1..Size, k > i PROVE table[k].key > request.key
    BY <1>1, <1>2
  <2>2. i + 1 \in 1..Size /\ (k = i + 1 \/ i + 1 < k)
    BY <1>2, <1>3, <2>1
  <2>3. i + 1 < k => table[i + 1].key < table[k].key
    BY <2>2 DEF TableInv, Sorted, Size
  <2>4. QED
    BY <1>1, <1>2, <2>2, <2>3
<1>7. Borders'
  <2>1. Size' = Size
    BY <1>1 DEF Size
  <2>2. right' < Size
    BY <1>1, <1>2, <1>3
  <2>3. \A k \in 1..Size : k <= left => table[k].key < request.key
    BY <1>1 DEF TableInv, Borders
  <2>4. QED
    BY <1>1, <1>3, <1>4, <1>5, <1>6, <2>1, <2>2, <2>3 DEF Borders
<1>8. QED
  BY <1>1, <1>4, <1>5, <1>7 DEF TableInv, TypeOK, Sorted, FoundInv, KeysOf, Size, Loops

LEMMA GoRightInv == ASSUME TableInv, GoRight PROVE TableInv'
<1>1. /\ pc \in Loops /\ left <= right /\ table[i + 1].key < request.key
      /\ left' = i + 1 /\ i' = Half(left' + right)
      /\ table' = table /\ request' = request /\ right' = right
      /\ found' = found /\ answer' = answer /\ pc' = pc
  BY DEF GoRight, Entry
<1>2. /\ i \in Int /\ left \in Int /\ right \in Int /\ Size \in Nat
      /\ request.key \in Int /\ \A k \in 1..Size : table[k].key \in Int
  BY <1>1, Ranges
<1>3. 0 <= left /\ left <= i /\ i <= right /\ right < Size
  BY <1>1 DEF TableInv, Borders
<1>4. left' \in Int /\ 0 <= left' /\ left' <= right + 1
  BY <1>1, <1>2, <1>3
<1>5. /\ i' \in Int
      /\ left' <= right => left' <= i' /\ i' <= right
      /\ left' > right => i' = IF right < 0 THEN 0 ELSE right
  BY <1>1, <1>2, <1>4, MiddleOfBorders
<1>6. \A k \in 1..Size : k <= left' => table[k].key < request.key
  <2>1. SUFFICES ASSUME NEW k \in 1..Size, k <= i + 1 PROVE table[k].key < request.key
    BY <1>1
  <2>2. i + 1 \in 1..Size /\ (k = i + 1 \/ k < i + 1)
    BY <1>2, <1>3, <2>1
  <2>3. k < i + 1 => table[k].key < table[i + 1].key
    BY <2>2 DEF TableInv, Sorted, Size
  <2>4. QED
    BY <1>1, <1>2, <2>2, <2>3
<1>7. Borders'
  <2>1. Size' = Size
    BY <1>1 DEF Size
  <2>2. \A k \in 1..Size : k > right + 1 => table[k].key > request.key
    BY <1>1 DEF TableInv, Borders
  <2>3. QED
    BY <1>1, <1>3, <1>4, <1>5, <1>6, <2>1, <2>2 DEF Borders
<1>8. QED
  BY <1>1, <1>4, <1>5, <1>7 DEF TableInv, TypeOK, Sorted, FoundInv, KeysOf, Size, Loops

(* Where the borders have crossed, the key is in the table only if it is   *)
(* at the index; the index is in bounds anyway.                            *)
LEMMA SearchEndsFacts ==
    ASSUME TableInv, pc \in Loops, SearchEnds, table # << >>
    PROVE  /\ i \in Int /\ 0 <= i /\ i < Size
           /\ Entry \in Entries
           /\ request.key \in KeysOf <=> Entry.key = request.key
           /\ Map[Entry.key] = Entry.value
<1>1. /\ i \in Int /\ left \in Int /\ right \in Int /\ Size \in Nat
      /\ request.key \in Int
      /\ \A k \in 1..Size : table[k] \in Entries /\ table[k].key \in Int
  BY Ranges
<1>2. Size # 0
  BY EmptySeq DEF Size, TableInv, TypeOK
<1>3. Borders
  BY DEF TableInv
<1>4. 0 <= i /\ i < Size
  BY <1>1, <1>2, <1>3 DEF Borders
<1>5. Entry \in Entries /\ i + 1 \in 1..Size
  BY <1>1, <1>4 DEF Entry
<1>6. Entry.key = request.key => request.key \in KeysOf
  BY <1>5 DEF KeysOf, Entry
<1>7. ASSUME request.key \in KeysOf PROVE Entry.key = request.key
  <2>1. PICK k \in 1..Size : table[k].key = request.key
    BY <1>7 DEF KeysOf
  <2>2. ~(k <= left) /\ ~(k > right + 1)
    BY <1>1, <1>3, <2>1 DEF Borders
  <2>3. ~(left > right)
    BY <1>1, <1>3, <2>1, <2>2 DEF Borders
  <2>4. QED
    BY <2>3 DEF SearchEnds
<1>8. Map[Entry.key] = Entry.value
  BY <1>5, MapFacts DEF Entry, TableInv
<1>9. QED
  BY <1>1, <1>4, <1>5, <1>6, <1>7, <1>8

LEMMA FindEndsInv == ASSUME TableInv, FindEnds PROVE TableInv'
<1>1. /\ pc = "find" /\ SearchEnds /\ pc' = "found"
      /\ found' = IF Entry.key = request.key THEN {Entry.value} ELSE {}
      /\ UNCHANGED <<table, request, i, left, right, answer>>
  BY DEF FindEnds
<1>2. /\ Entry \in Entries /\ (request.key \in KeysOf <=> Entry.key = request.key)
      /\ Map[Entry.key] = Entry.value
  BY <1>1, SearchEndsFacts DEF TableInv, FoundInv, Loops
<1>3. TypeOK'
  <2>1. found' \subseteq Vals
    BY <1>1, <1>2 DEF Entries
  <2>2. QED
    BY <1>1, <2>1 DEF TableInv, TypeOK, Loops
<1>4. KeysOf' = KeysOf /\ Map' = Map
  BY <1>1 DEF KeysOf, Size, Map
<1>5. FoundInv'
  BY <1>1, <1>2, <1>4 DEF FoundInv
<1>6. QED
  BY <1>1, <1>3, <1>5 DEF TableInv, Sorted, Loops

LEMMA AnswersAreTyped ==
    \A kind \in {"none", "found", "throws", "done"} :
        \A values \in SUBSET Vals : Answer(kind, values) \in Answers
BY DEF Answer, Answers

(* The returns that leave the table as it is. *)
LEMMA ReturnInv ==
    ASSUME TableInv, FindReturns \/ AddThrows \/ DelFindsNothing
    PROVE  TableInv'
<1>1. UNCHANGED <<table, request, i, left, right, found>> /\ pc' = "idle"
  BY DEF FindReturns, AddThrows, DelFindsNothing, Return
<1>2. found \in SUBSET Vals /\ {} \in SUBSET Vals
  BY DEF TableInv, TypeOK
<1>3. answer' \in Answers
  BY <1>2, AnswersAreTyped DEF FindReturns, AddThrows, DelFindsNothing, Return
<1>4. QED
  BY <1>1, <1>3 DEF TableInv, TypeOK, Sorted, FoundInv, Loops

LEMMA SearchesInv ==
    ASSUME TableInv, AddSearches \/ DelSearches
    PROVE  TableInv'
<1>1. UNCHANGED <<table, request, found, answer>> /\ pc = "found"
  BY DEF AddSearches, DelSearches
<1>2. KeysOf' = KeysOf
  BY <1>1 DEF KeysOf, Size
<1>3. CASE AddSearches
  <2>1. BeginSearch("add") /\ pc' = "add" /\ request.key \notin KeysOf
    BY <1>3 DEF AddSearches, BeginSearch, TableInv, FoundInv
  <2>a. request.op = "add"
    BY <1>3 DEF AddSearches
  <2>2. Borders' /\ i' \in Int /\ left' \in Int /\ right' \in Int
    BY <1>1, <2>1, BeginsInBorders DEF TableInv, Loops
  <2>3. QED
    BY <1>1, <1>2, <2>1, <2>a, <2>2 DEF TableInv, TypeOK, Sorted, FoundInv, Loops
<1>4. CASE DelSearches
  <2>1. BeginSearch("del") /\ pc' = "del" /\ request.key \in KeysOf
    BY <1>4 DEF DelSearches, BeginSearch, TableInv, FoundInv
  <2>a. request.op = "del"
    BY <1>4 DEF DelSearches
  <2>2. Borders' /\ i' \in Int /\ left' \in Int /\ right' \in Int
    BY <1>1, <2>1, BeginsInBorders DEF TableInv, Loops
  <2>3. QED
    BY <1>1, <1>2, <2>1, <2>a, <2>2 DEF TableInv, TypeOK, Sorted, FoundInv, Loops
<1>5. QED
  BY <1>3, <1>4
-----------------------------------------------------------------------------
(* Where AddInserts puts the new entry: behind the smaller keys and before *)
(* the greater ones.                                                       *)
LEMMA InsertPlace ==
    ASSUME TableInv, AddInserts
    PROVE  \E p \in 1..(Size + 1) :
              /\ table' = InsertAt(table, p, NewEntry)
              /\ \A k \in 1..Size : IF k < p THEN table[k].key < request.key
                                             ELSE table[k].key > request.key
<1>1. pc = "add" /\ left > right
  BY DEF AddInserts, SearchEnds
<1>2. /\ i \in Int /\ left \in Int /\ right \in Int /\ Size \in Nat
      /\ request.key \in Int /\ request.key \in Keys /\ request.value \in Vals
      /\ \A k \in 1..Size : table[k] \in Entries /\ table[k].key \in Int
  BY <1>1, Ranges DEF Loops
<1>3. Borders
  BY <1>1 DEF TableInv, Loops
<1>4. left = right + 1 /\ i = IF right < 0 THEN 0 ELSE right
  BY <1>1, <1>2, <1>3 DEF Borders
<1>5. \A k \in 1..Size : IF k < right + 2 THEN table[k].key < request.key
                                          ELSE table[k].key > request.key
  BY <1>2, <1>3, <1>4 DEF Borders
<1>6. 0 <= right + 1 /\ right < Size
  BY <1>2, <1>3, <1>4 DEF Borders
<1>7. CASE table = << >>
  <2>1. table' = <<NewEntry>> /\ Size = 0
    BY <1>7, EmptySeq DEF AddInserts, Size
  <2>2. InsertAt(table, 1, NewEntry) = <<NewEntry>>
    <3>1. SubSeq(table, 1, 1 - 1) = << >> /\ SubSeq(table, 1, Len(table)) = << >>
      BY <1>7
    <3>2. << >> \o <<NewEntry>> \o << >> = <<NewEntry>>
      OBVIOUS
    <3>3. QED
      BY <3>1, <3>2 DEF InsertAt
  <2>3. QED
    BY <2>1, <2>2
<1>8. CASE table # << >> /\ right < 0
  <2>1. Size # 0 /\ i = 0 /\ right = -1
    BY <1>2, <1>4, <1>6, <1>8, EmptySeq DEF Size, TableInv, TypeOK
  <2>2. Entry = table[1] /\ 1 \in 1..Size
    BY <1>2, <2>1 DEF Entry
  <2>3. Entry.key > request.key
    BY <1>5, <2>1, <2>2
  <2>4. table' = InsertAt(table, 1, NewEntry)
    BY <1>8, <2>1, <2>3 DEF AddInserts
  <2>5. QED
    BY <1>2, <1>5, <2>1, <2>4
<1>9. CASE table # << >> /\ 0 <= right
  <2>1. i = right /\ right + 1 \in 1..Size
    BY <1>2, <1>4, <1>6, <1>9
  <2>2. Entry.key < request.key /\ Entry.key \in Int
    BY <1>2, <1>5, <2>1 DEF Entry
  <2>3. ~(Entry.key > request.key)
    BY <1>2, <2>2
  <2>4. table' = InsertAt(table, right + 2, NewEntry)
    BY <1>9, <2>1, <2>2, <2>3 DEF AddInserts
  <2>5. right + 2 \in 1..(Size + 1)
    BY <1>2, <2>1
  <2>6. QED
    BY <1>5, <2>4, <2>5
<1>10. QED
  BY <1>2, <1>7, <1>8, <1>9

LEMMA Inserted ==
    ASSUME TableInv, AddInserts
    PROVE  \E p \in 1..(Size + 1) :
              /\ \A k \in 1..Size : IF k < p THEN table[k].key < request.key
                                             ELSE table[k].key > request.key
              /\ table' \in Seq(Entries) /\ Size' = Size + 1
              /\ \A k \in 1..(Size + 1) :
                    table'[k] = IF k < p THEN table[k] ELSE IF k = p THEN NewEntry ELSE table[k - 1]
<1>1. PICK p \in 1..(Size + 1) :
              /\ table' = InsertAt(table, p, NewEntry)
              /\ \A k \in 1..Size : IF k < p THEN table[k].key < request.key
                                             ELSE table[k].key > request.key
  BY InsertPlace
<1>2. NewEntry \in Entries
  BY Ranges DEF AddInserts, Loops, NewEntry, Entries
<1>3. table \in Seq(Entries)
  BY DEF TableInv, TypeOK
<1>4. p \in 1..(Len(table) + 1) /\ Size = Len(table) /\ Size' = Len(table')
  BY <1>1 DEF Size
<1>5. /\ table' \in Seq(Entries) /\ Len(table') = Len(table) + 1
      /\ \A k \in 1..(Len(table) + 1) :
            table'[k] = IF k < p THEN table[k] ELSE IF k = p THEN NewEntry ELSE table[k - 1]
  <2>1. table' \in Seq(Entries) /\ IsInsertion(table', table, p, NewEntry)
    BY <1>1, <1>2, <1>3, <1>4, Insertion
  <2>2. QED
    BY <2>1 DEF IsInsertion
<1>6. QED
  BY <1>1, <1>4, <1>5

LEMMA AddInsertsInv == ASSUME TableInv, AddInserts PROVE TableInv'
<1>1. /\ pc = "add" /\ pc' = "idle" /\ answer' = Answer("done", {})
      /\ UNCHANGED <<request, i, left, right, found>>
  BY DEF AddInserts, Return
<1>2. PICK p \in 1..(Size + 1) :
              /\ \A k \in 1..Size : IF k < p THEN table[k].key < request.key
                                             ELSE table[k].key > request.key
              /\ table' \in Seq(Entries) /\ Size' = Size + 1
              /\ \A k \in 1..(Size + 1) :
                    table'[k] = IF k < p THEN table[k] ELSE IF k = p THEN NewEntry ELSE table[k - 1]
  BY Inserted
<1>3. /\ Size \in Nat /\ request.key \in Int /\ NewEntry.key = request.key
      /\ \A k \in 1..Size : table[k].key \in Int
  BY <1>1, Ranges DEF Loops, NewEntry
<1>5. /\ table' \in Seq(Entries) /\ Len(table') = Size + 1
      /\ \A k \in 1..(Size + 1) :
            table'[k] = IF k < p THEN table[k] ELSE IF k = p THEN NewEntry ELSE table[k - 1]
  BY <1>2 DEF Size
<1>6. Sorted'
  <2>1. SUFFICES ASSUME NEW j \in 1..(Size + 1), NEW k \in 1..(Size + 1), j < k
                 PROVE  table'[j].key < table'[k].key
    BY <1>5 DEF Sorted
  <2>2. CASE k < p
    BY <1>3, <1>5, <2>1, <2>2 DEF TableInv, Sorted, Size
  <2>3. CASE k = p
    BY <1>2, <1>3, <1>5, <2>1, <2>3
  <2>4. CASE k > p
    <3>1. k - 1 \in 1..Size /\ ~(k - 1 < p) /\ table'[k] = table[k - 1]
      BY <1>3, <1>5, <2>1, <2>4
    <3>2. table[k - 1].key > request.key
      BY <1>2, <3>1
    <3>3. CASE j < p
      <4>1. j \in 1..Size /\ table'[j] = table[j] /\ table[j].key < request.key
        <5>1. j \in 1..Size /\ table'[j] = table[j]
          BY <1>3, <1>5, <2>1, <3>3
        <5>2. QED
          BY <1>2, <3>3, <5>1
      <4>2. QED
        BY <1>3, <3>1, <3>2, <4>1
    <3>4. CASE j = p
      BY <1>3, <1>5, <2>1, <3>1, <3>2, <3>4
    <3>5. CASE j > p
      <4>1. j - 1 \in 1..Size /\ j - 1 < k - 1 /\ table'[j] = table[j - 1]
        BY <1>3, <1>5, <2>1, <3>5
      <4>2. QED
        BY <3>1, <4>1 DEF TableInv, Sorted, Size
    <3>6. QED
      BY <2>1, <3>3, <3>4, <3>5
  <2>5. QED
    BY <2>1, <2>2, <2>3, <2>4
<1>7. QED
  BY <1>1, <1>5, <1>6, AnswersAreTyped DEF TableInv, TypeOK, FoundInv, Loops

LEMMA Erased ==
    ASSUME TableInv, DelErases
    PROVE  /\ Size \in Nat /\ i \in Int /\ i + 1 \in 1..Size
           /\ table[i + 1].key = request.key
           /\ table' \in Seq(Entries) /\ Size' = Size - 1
           /\ \A k \in 1..(Size - 1) :
                 table'[k] = IF k < i + 1 THEN table[k] ELSE table[k + 1]
<1>1. /\ pc = "del" /\ SearchEnds /\ table' = RemoveAt(table, i + 1)
  BY DEF DelErases
<1>2. table # << >>
  BY <1>1 DEF TableInv, FoundInv, KeysOf, Size
<1>3. Size \in Nat /\ i \in Int /\ i + 1 \in 1..Size /\ table \in Seq(Entries)
  BY <1>1, <1>2, Ranges, SearchEndsFacts DEF Loops, TableInv, TypeOK
<1>4. table[i + 1].key = request.key
  BY <1>1, <1>2, SearchEndsFacts DEF Loops, TableInv, FoundInv, Entry
<1>5. QED
  BY <1>1, <1>3, <1>4, RemoveAtFacts DEF Size

LEMMA DelErasesInv == ASSUME TableInv, DelErases PROVE TableInv'
<1>1. /\ pc' = "idle" /\ answer' = Answer("done", {})
      /\ UNCHANGED <<request, i, left, right, found>>
  BY DEF DelErases, Return
<1>3. Size \in Nat /\ i \in Int /\ i + 1 \in 1..Size
  BY Erased
<1>4. /\ table' \in Seq(Entries) /\ Len(table') = Size - 1
      /\ \A k \in 1..(Size - 1) :
            table'[k] = IF k < i + 1 THEN table[k] ELSE table[k + 1]
  BY Erased DEF Size
<1>5. Sorted'
  <2>1. SUFFICES ASSUME NEW j \in 1..(Size - 1), NEW k \in 1..(Size - 1), j < k
                 PROVE  table'[j].key < table'[k].key
    BY <1>4 DEF Sorted
  <2>2. /\ j \in 1..Size /\ j + 1 \in 1..Size /\ k \in 1..Size /\ k + 1 \in 1..Size
        /\ j < k + 1 /\ j + 1 < k + 1
    BY <1>3, <2>1
  <2>3. /\ table[j].key < table[k].key
        /\ table[j].key < table[k + 1].key
        /\ table[j + 1].key < table[k + 1].key
    BY <2>1, <2>2 DEF TableInv, Sorted, Size
  <2>4. k < i + 1 => j < i + 1
    BY <1>3, <2>1
  <2>5. QED
    BY <1>4, <2>1, <2>3, <2>4
<1>6. QED
  BY <1>1, <1>4, <1>5, AnswersAreTyped DEF TableInv, TypeOK, FoundInv, Loops
-----------------------------------------------------------------------------
LEMMA NextInv == TableInv /\ [Next]_vars => TableInv'
<1> SUFFICES ASSUME TableInv, [Next]_vars PROVE TableInv'
  OBVIOUS
<1>1. CASE Call
  BY <1>1, CallInv
<1>2. CASE GoLeft
  BY <1>2, GoLeftInv
<1>3. CASE GoRight
  BY <1>3, GoRightInv
<1>4. CASE FindEnds
  BY <1>4, FindEndsInv
<1>5. CASE FindReturns \/ AddThrows \/ DelFindsNothing
  BY <1>5, ReturnInv
<1>6. CASE AddSearches \/ DelSearches
  BY <1>6, SearchesInv
<1>7. CASE AddInserts
  BY <1>7, AddInsertsInv
<1>8. CASE DelErases
  BY <1>8, DelErasesInv
<1>9. CASE UNCHANGED vars
  BY <1>9 DEF vars, TableInv, TypeOK, Sorted, Borders, FoundInv, KeysOf, Size, Map
<1>10. QED
  BY <1>1, <1>2, <1>3, <1>4, <1>5, <1>6, <1>7, <1>8, <1>9 DEF Next, Step

LEMMA Invariance == Spec => []TableInv
<1>1. Init => TableInv
  BY InitInv
<1>2. QED
  BY <1>1, NextInv, PTL DEF Spec

(* Also while a search moves its borders, the borders and the middle stay  *)
(* integers and the table a sequence of entries, for any table.            *)
THEOREM WellFormed == Spec => []TypeOK
<1>1. TableInv => TypeOK
  BY DEF TableInv
<1>2. QED
  BY <1>1, Invariance, PTL

(* The table is sorted whenever one of its operations starts a step. *)
THEOREM StaysSorted == Spec => []Sorted
<1>1. TableInv => Sorted
  BY DEF TableInv
<1>2. QED
  BY <1>1, Invariance, PTL

(* No operation reads an entry that is not there, for any table. *)
THEOREM ReadsInBounds == Spec => []IndexInBounds
<1>1. ASSUME TableInv PROVE IndexInBounds
  <2>1. SUFFICES ASSUME pc \in Loops, table # << >> PROVE 0 <= i /\ i < Len(table)
    BY DEF IndexInBounds
  <2>2. /\ i \in Int /\ left \in Int /\ right \in Int /\ Size \in Nat /\ Size # 0
    BY <1>1, <2>1, Ranges, EmptySeq DEF Size, TableInv, TypeOK
  <2>3. Borders
    BY <1>1, <2>1 DEF TableInv
  <2>4. QED
    BY <2>2, <2>3 DEF Borders, Size
<1>2. QED
  BY <1>1, Invariance, PTL
-----------------------------------------------------------------------------
(* The table implements a map: each step is one of TableSpec's or changes  *)
(* nothing that TableSpec speaks of.                                       *)
LEMMA AddRefines == ASSUME TableInv, TableInv', AddInserts PROVE Promise!Add
<1>1. /\ pc = "add" /\ pc' = "idle" /\ answer' = Answer("done", {}) /\ request' = request
      /\ request.op = "add" /\ request.key \notin KeysOf
  BY DEF AddInserts, Return, TableInv, FoundInv
<1>2. PICK p \in 1..(Size + 1) :
              /\ \A k \in 1..Size : IF k < p THEN table[k].key < request.key
                                             ELSE table[k].key > request.key
              /\ table' \in Seq(Entries) /\ Size' = Size + 1
              /\ \A k \in 1..(Size + 1) :
                    table'[k] = IF k < p THEN table[k] ELSE IF k = p THEN NewEntry ELSE table[k - 1]
  BY Inserted
<1>3. Size \in Nat /\ NewEntry.key = request.key /\ NewEntry.value = request.value
  BY <1>1, Ranges DEF NewEntry, Loops
<1>4. /\ DOMAIN Map = KeysOf /\ DOMAIN Map' = KeysOf'
      /\ \A k \in 1..Size : Map[table[k].key] = table[k].value
      /\ \A k \in 1..(Size + 1) : Map'[table'[k].key] = table'[k].value
  <2>1. DOMAIN Map = KeysOf /\ \A k \in 1..Size : Map[table[k].key] = table[k].value
    BY MapFacts DEF TableInv
  <2>2. TypeOK' /\ Sorted'
    BY DEF TableInv
  <2>3. (DOMAIN Map = KeysOf /\ \A k \in 1..Size : Map[table[k].key] = table[k].value)'
    BY <2>2, MapFacts, PTL
  <2>4. QED
    BY <1>2, <2>1, <2>3
<1>5. KeysOf' = KeysOf \cup {request.key}
  <2>1. KeysOf' = {table'[k].key : k \in 1..(Size + 1)}
    BY <1>2 DEF KeysOf
  <2>2. ASSUME NEW k \in 1..(Size + 1) PROVE table'[k].key \in KeysOf \cup {request.key}
    <3>1. k < p => k \in 1..Size /\ table'[k] = table[k]
      BY <1>2, <1>3
    <3>2. k = p => table'[k].key = request.key
      BY <1>2, <1>3
    <3>3. k > p => k - 1 \in 1..Size /\ table'[k] = table[k - 1]
      BY <1>2, <1>3
    <3>4. k < p \/ k = p \/ k > p
      BY <1>2, <1>3
    <3>5. k < p => table'[k].key \in KeysOf
      BY <3>1 DEF KeysOf
    <3>6. k > p => table'[k].key \in KeysOf
      BY <3>3 DEF KeysOf
    <3>7. QED
      BY <3>2, <3>4, <3>5, <3>6
  <2>3. ASSUME NEW k \in 1..Size PROVE table[k].key \in KeysOf'
    <3>1. k < p => k \in 1..(Size + 1) /\ table'[k] = table[k]
      BY <1>2, <1>3
    <3>2. ~(k < p) => k + 1 \in 1..(Size + 1) /\ table'[k + 1] = table[(k + 1) - 1]
      BY <1>2, <1>3
    <3>3. (k + 1) - 1 = k
      BY <1>3
    <3>4. QED
      BY <2>1, <3>1, <3>2, <3>3
  <2>4. request.key \in KeysOf'
    BY <1>2, <1>3, <2>1
  <2>5. QED
    BY <2>1, <2>2, <2>3, <2>4 DEF KeysOf
<1>6. ASSUME NEW key \in KeysOf'
      PROVE  Map'[key] = IF key = request.key THEN request.value ELSE Map[key]
  <2>1. PICK k \in 1..(Size + 1) : table'[k].key = key
    BY <1>2 DEF KeysOf
  <2>2. Map'[key] = table'[k].value
    BY <1>4, <2>1
  <2>3. CASE k < p
    <3>1. k \in 1..Size /\ table'[k] = table[k]
      BY <1>2, <1>3, <2>3
    <3>2. key \in KeysOf
      BY <2>1, <3>1 DEF KeysOf
    <3>3. QED
      BY <1>1, <1>4, <2>1, <2>2, <3>1, <3>2
  <2>4. CASE k = p
    BY <1>2, <1>3, <2>1, <2>2, <2>4
  <2>5. CASE k > p
    <3>1. k - 1 \in 1..Size /\ table'[k] = table[k - 1]
      BY <1>2, <1>3, <2>5
    <3>2. key \in KeysOf
      BY <2>1, <3>1 DEF KeysOf
    <3>3. QED
      BY <1>1, <1>4, <2>1, <2>2, <3>1, <3>2
  <2>6. QED
    BY <1>3, <2>3, <2>4, <2>5
<1>7. Map' = [key \in KeysOf \cup {request.key} |->
                IF key = request.key THEN request.value ELSE Map[key]]
  <2>1. Map' = [key \in KeysOf' |-> Map'[key]]
    BY <1>4 DEF Map
  <2>2. QED
    BY <1>5, <1>6, <2>1
<1>8. QED
  BY <1>1, <1>4, <1>7 DEF Promise!Add, Promise!Present, Promise!Answer, Answer

LEMMA DeleteRefines ==
    ASSUME TableInv, TableInv', DelErases \/ DelFindsNothing
    PROVE  Promise!Delete
<1>1. /\ pc # "idle" /\ pc' = "idle" /\ answer' = Answer("done", {}) /\ request' = request
      /\ request.op = "del"
  BY DEF DelErases, DelFindsNothing, Return, TableInv, FoundInv
<1>2. DOMAIN Map = KeysOf /\ \A k \in 1..Size : Map[table[k].key] = table[k].value
  BY MapFacts DEF TableInv
<1>3. CASE DelFindsNothing
  <2>1. Map' = Map /\ request.key \notin KeysOf
    <3>1. table' = table /\ pc = "found" /\ found = {}
      BY <1>3 DEF DelFindsNothing
    <3>2. Map' = Map
      BY <3>1 DEF Map
    <3>3. request.key \in KeysOf => found = {Map[request.key]}
      BY <3>1 DEF TableInv, FoundInv
    <3>4. QED
      BY <3>1, <3>2, <3>3
  <2>2. Map = [key \in KeysOf |-> Map[key]]
    BY <1>2 DEF Map
  <2>3. KeysOf \ {request.key} = KeysOf
    BY <2>1
  <2>4. QED
    BY <1>1, <1>2, <2>1, <2>2, <2>3 DEF Promise!Delete, Promise!Answer, Answer
<1>4. CASE DelErases
  <2>1. /\ Size \in Nat /\ i \in Int /\ i + 1 \in 1..Size
        /\ table[i + 1].key = request.key
        /\ table' \in Seq(Entries) /\ Size' = Size - 1
        /\ \A k \in 1..(Size - 1) :
                 table'[k] = IF k < i + 1 THEN table[k] ELSE table[k + 1]
    BY <1>4, Erased
  <2>2. \A j, k \in 1..Size : j < k => table[j].key < table[k].key
    BY DEF TableInv, Sorted, Size
  <2>3. \A k \in 1..Size : table[k].key \in Int
    BY <1>4, Ranges DEF DelErases, Loops
  <2>4. \A k \in 1..Size : k # i + 1 => table[k].key # request.key
    BY <2>1, <2>2, <2>3
  <2>5. KeysOf' = {table'[k].key : k \in 1..(Size - 1)}
    BY <2>1 DEF KeysOf
  <2>6. ASSUME NEW k \in 1..(Size - 1)
        PROVE  \E j \in 1..Size : j # i + 1 /\ table'[k] = table[j]
    <3>1. k < i + 1 => k \in 1..Size /\ k # i + 1 /\ table'[k] = table[k]
      BY <2>1
    <3>2. ~(k < i + 1) => k + 1 \in 1..Size /\ k + 1 # i + 1 /\ table'[k] = table[k + 1]
      BY <2>1
    <3>3. QED
      BY <3>1, <3>2
  <2>7. ASSUME NEW j \in 1..Size, j # i + 1
        PROVE  \E k \in 1..(Size - 1) : table'[k] = table[j]
    <3>1. j < i + 1 => j \in 1..(Size - 1) /\ table'[j] = table[j]
      BY <2>1
    <3>2. j > i + 1 => j - 1 \in 1..(Size - 1) /\ table'[j - 1] = table[(j - 1) + 1]
      BY <2>1
    <3>3. (j - 1) + 1 = j /\ (j < i + 1 \/ j > i + 1)
      BY <2>1, <2>7
    <3>4. QED
      BY <3>1, <3>2, <3>3
  <2>8. KeysOf' = KeysOf \ {request.key}
    <3>1. ASSUME NEW key \in KeysOf' PROVE key \in KeysOf /\ key # request.key
      <4>1. PICK k \in 1..(Size - 1) : table'[k].key = key
        BY <2>5
      <4>2. PICK j \in 1..Size : j # i + 1 /\ table'[k] = table[j]
        BY <2>6
      <4>3. key = table[j].key
        BY <4>1, <4>2
      <4>4. table[j].key # request.key
        BY <2>4, <4>2
      <4>5. QED
        BY <4>3, <4>4 DEF KeysOf
    <3>2. ASSUME NEW key \in KeysOf, key # request.key PROVE key \in KeysOf'
      <4>1. PICK j \in 1..Size : table[j].key = key
        BY DEF KeysOf
      <4>2. j # i + 1
        BY <2>1, <3>2, <4>1
      <4>3. PICK k \in 1..(Size - 1) : table'[k] = table[j]
        BY <2>7, <4>2
      <4>4. QED
        BY <2>5, <4>1, <4>3
    <3>3. QED
      BY <3>1, <3>2
  <2>9. DOMAIN Map' = KeysOf' /\ \A k \in 1..(Size - 1) : Map'[table'[k].key] = table'[k].value
    <3>1. TypeOK' /\ Sorted'
      BY DEF TableInv
    <3>2. (DOMAIN Map = KeysOf /\ \A k \in 1..Size : Map[table[k].key] = table[k].value)'
      BY <3>1, MapFacts, PTL
    <3>3. QED
      BY <2>1, <3>2
  <2>10. ASSUME NEW key \in KeysOf' PROVE Map'[key] = Map[key]
    <3>1. PICK k \in 1..(Size - 1) : table'[k].key = key
      BY <2>5
    <3>2. PICK j \in 1..Size : j # i + 1 /\ table'[k] = table[j]
      BY <2>6
    <3>3. QED
      BY <1>2, <2>9, <3>1, <3>2
  <2>11. Map' = [key \in KeysOf \ {request.key} |-> Map[key]]
    <3>1. Map' = [key \in KeysOf' |-> Map'[key]]
      BY <2>9 DEF Map
    <3>2. QED
      BY <2>8, <2>10, <3>1
  <2>12. QED
    BY <1>1, <1>2, <2>11 DEF Promise!Delete, Promise!Answer, Answer
<1>5. QED
  BY <1>3, <1>4

LEMMA StepRefines ==
    TableInv /\ TableInv' /\ [Next]_vars => [Promise!Next]_(Promise!vars)
<1> SUFFICES ASSUME TableInv, TableInv', [Next]_vars
             PROVE  Promise!Next \/ UNCHANGED <<Map, request, answer, pc # "idle">>
  BY DEF Promise!vars
<1>1. CASE Call
  <2>1. Map' = Map /\ pc = "idle" /\ pc' # "idle" /\ answer' = answer /\ request' \in Requests
    BY <1>1 DEF Call, BeginSearch, Map
  <2>2. QED
    BY <2>1 DEF Promise!Next, Promise!Call, Requests, Operations
<1>2. CASE GoLeft \/ GoRight \/ FindEnds \/ AddSearches \/ DelSearches
  <2>1. UNCHANGED <<table, request, answer>> /\ pc # "idle" /\ pc' # "idle"
    BY <1>2 DEF GoLeft, GoRight, FindEnds, AddSearches, DelSearches, BeginSearch, Loops
  <2>2. QED
    BY <2>1 DEF Map
<1>3. CASE FindReturns
  <2>1. /\ Map' = Map /\ pc = "found" /\ pc' = "idle" /\ request' = request
        /\ request.op = "find" /\ answer' = Answer("found", found)
    BY <1>3 DEF FindReturns, Return, Map
  <2>2. DOMAIN Map = KeysOf
    BY MapFacts DEF TableInv
  <2>3. found = IF request.key \in KeysOf THEN {Map[request.key]} ELSE {}
    BY <2>1 DEF TableInv, FoundInv
  <2>4. QED
    BY <2>1, <2>2, <2>3 DEF Promise!Next, Promise!Find, Promise!Present, Promise!Answer, Answer
<1>4. CASE AddThrows
  <2>1. /\ Map' = Map /\ pc = "found" /\ pc' = "idle" /\ request' = request
        /\ request.op = "add" /\ answer' = Answer("throws", {}) /\ found # {}
    BY <1>4 DEF AddThrows, Return, Map
  <2>2. DOMAIN Map = KeysOf
    BY MapFacts DEF TableInv
  <2>3. request.key \in KeysOf
    BY <2>1 DEF TableInv, FoundInv
  <2>4. QED
    BY <2>1, <2>2, <2>3 DEF Promise!Next, Promise!Add, Promise!Present, Promise!Answer, Answer
<1>5. CASE AddInserts
  BY <1>5, AddRefines DEF Promise!Next
<1>6. CASE DelFindsNothing \/ DelErases
  BY <1>6, DeleteRefines DEF Promise!Next
<1>7. CASE UNCHANGED vars
  BY <1>7 DEF vars, Map
<1>8. QED
  BY <1>1, <1>2, <1>3, <1>4, <1>5, <1>6, <1>7 DEF Next, Step

(* Whatever is added, looked up and deleted, and in whatever order, the    *)
(* answers are those of a map (table.h:19-86).                             *)
THEOREM ImplementsAMap == Spec => IsAMap
<1>1. Init => Promise!Init
  <2>1. SUFFICES ASSUME Init PROVE Promise!Init
    OBVIOUS
  <2>2. table = << >> /\ request = << >> /\ answer = Answer("none", {}) /\ pc = "idle"
    BY <2>1 DEF Init
  <2>3. DOMAIN Map = {}
    <3>1. Len(table) = 0
      BY <2>2
    <3>2. QED
      BY <3>1 DEF Map
  <2>4. QED
    BY <2>2, <2>3 DEF Promise!Init, Promise!Answer, Answer
<1>2. QED
  BY <1>1, StepRefines, Invariance, PTL DEF Spec, IsAMap, Promise!Spec
-----------------------------------------------------------------------------
(***************************************************************************)
(* Stack: who owns the blocks, who writes behind them, and that the stacks *)
(* are the sequences of StackSpec.                                         *)
(***************************************************************************)
Records == [mem : Blocks \cup {Null}, capacity : Nat, size : Nat]

Length(r, blocks) == IF r.mem = Null THEN 0 ELSE Len(blocks[r.mem])

(* What the members of a stack say of the blocks, when "copies" are those  *)
(* of the copy constructor.                                                *)
Sound(r, blocks, copies) ==
    /\ r \in Records
    /\ r.size <= r.capacity /\ r.capacity <= MaxStackSize
    /\ r.mem # Null => r.mem \in DOMAIN blocks
    /\ r.size <= Length(r, blocks)
    /\ r.mem \notin copies => Length(r, blocks) = r.capacity

HeapOK(blocks, copies) ==
    /\ DOMAIN blocks \subseteq Blocks
    /\ \A b \in DOMAIN blocks : blocks[b] \in Seq(Cells)
    /\ copies \subseteq DOMAIN blocks

StackInv ==
    /\ live \subseteq Stacks /\ overrun \subseteq live
    /\ stacks \in [Stacks -> Records]
    /\ \A s \in Stacks : Sound(stacks[s], heap, copied)
    /\ \A s \in Stacks \ live : stacks[s] = Empty
    /\ HeapOK(heap, copied)
    /\ \A s, t \in Stacks : s # t /\ stacks[s].mem # Null => stacks[t].mem # stacks[s].mem
    /\ \A s \in overrun : stacks[s].mem \in copied

LEMMA InvImplies == StackInv => StackTypeOK /\ OneOwner /\ OnlyCopiesOverrun
<1> SUFFICES ASSUME StackInv PROVE StackTypeOK /\ OneOwner /\ OnlyCopiesOverrun
  OBVIOUS
<1>1. StackTypeOK
  BY DEF StackInv, Sound, HeapOK, StackTypeOK, Records
<1>2. OneOwner
  BY DEF StackInv, Sound, OneOwner
<1>3. \A s \in Stacks : Len(Cell(s)) = Length(stacks[s], heap)
  BY DEF Cell, Length
<1>4. OnlyCopiesOverrun
  BY <1>3 DEF StackInv, Sound, OnlyCopiesOverrun
<1> QED
  BY <1>1, <1>2, <1>4

LEMMA InitialStacks == StackInit => StackInv
BY StackAssumption DEF StackInit, StackInv, Sound, HeapOK, Records, Length, Empty

(* The elements copied to a block.                                         *)
LEMMA BlankCells ==
    ASSUME NEW n \in Nat
    PROVE  Blank(n) \in Seq(Cells) /\ Len(Blank(n)) = n
BY DEF Blank, Cells

LEMMA FirstCells ==
    ASSUME StackInv, NEW s \in Stacks, NEW cells \in Seq(Cells), NEW n \in 0..stacks[s].size
    PROVE  CopyFirst(cells, s, n) \in Seq(Cells) /\ Len(CopyFirst(cells, s, n)) = Len(cells)
<1>1. Cell(s) \in Seq(Cells) /\ Len(Cell(s)) = Length(stacks[s], heap)
  BY DEF StackInv, Sound, HeapOK, Cell, Length
<1>2. stacks[s].size \in Nat /\ stacks[s].size <= Len(Cell(s))
  BY <1>1 DEF StackInv, Sound, Records
<1>3. \A k \in 1..Len(cells) : (IF k <= n THEN Cell(s)[k] ELSE cells[k]) \in Cells
  BY <1>1, <1>2
<1>4. CopyFirst(cells, s, n) = [k \in 1..Len(cells) |-> IF k <= n THEN Cell(s)[k] ELSE cells[k]]
  BY DEF CopyFirst
<1> QED
  BY <1>3, <1>4

LEMMA CopiedCells ==
    ASSUME StackInv, NEW s \in Stacks, NEW cells \in Seq(Cells)
    PROVE  CopyTo(cells, s) \in Seq(Cells) /\ Len(CopyTo(cells, s)) = Len(cells)
<1>1. stacks[s].size \in 0..stacks[s].size
  BY DEF StackInv, Records
<1> QED
  BY <1>1, FirstCells DEF CopyTo

(* A step that changes one stack and the block it has or gets.             *)
LEMMA OneStackChanges ==
    ASSUME StackInv, NEW s \in Stacks, NEW r,
           overrun = {}, overrun' = {},
           stacks' = [stacks EXCEPT ![s] = r],
           Sound(r, heap', copied'), HeapOK(heap', copied'),
           \A b \in DOMAIN heap \ {stacks[s].mem} :
              b \in DOMAIN heap' /\ Len(heap'[b]) = Len(heap[b]) /\ (b \in copied' <=> b \in copied),
           r.mem = Null \/ r.mem = stacks[s].mem \/ r.mem \notin DOMAIN heap,
           live' = live \cup {s} \/ (live' = live \ {s} /\ r = Empty)
    PROVE  StackInv'
<1>1. stacks' \in [Stacks -> Records] /\ stacks'[s] = r
      /\ \A t \in Stacks \ {s} : stacks'[t] = stacks[t]
  BY DEF StackInv, Sound
<1>2. ASSUME NEW t \in Stacks \ {s} PROVE Sound(stacks[t], heap', copied')
  <2>1. CASE stacks[t].mem = Null
    <3>1. Null \notin copied /\ Null \notin copied'
      BY StackAssumption DEF StackInv, HeapOK
    <3> QED
      BY <2>1, <3>1 DEF StackInv, Sound, Length
  <2>2. CASE stacks[t].mem # Null
    <3>1. stacks[t].mem \in DOMAIN heap \ {stacks[s].mem}
      BY <2>2 DEF StackInv, Sound
    <3> QED
      BY <3>1 DEF StackInv, Sound, Length
  <2> QED
    BY <2>1, <2>2
<1>3. \A t \in Stacks : Sound(stacks'[t], heap', copied')
  BY <1>1, <1>2
<1>4. live' \subseteq Stacks /\ \A t \in Stacks \ live' : stacks'[t] = Empty
  BY <1>1 DEF StackInv
<1>5. ASSUME NEW t \in Stacks, NEW u \in Stacks, t # u, stacks'[t].mem # Null
      PROVE  stacks'[u].mem # stacks'[t].mem
  <2>1. \A v \in Stacks : stacks[v].mem # Null => stacks[v].mem \in DOMAIN heap
    BY DEF StackInv, Sound
  <2> QED
    BY <1>1, <1>5, <2>1 DEF StackInv
<1> QED
  BY <1>1, <1>3, <1>4, <1>5 DEF StackInv

(* The heap with a new block for a stack.                                  *)
LEMMA NewBlock ==
    ASSUME StackInv, NEW s \in Stacks, NEW b \in Unused, NEW cells \in Seq(Cells),
           heap' = Realloc(s, b, cells),
           copied' \in {copied, copied \cup {b}, copied \ {stacks[s].mem}},
           stacks[s].mem # Null => copied' = copied \ {stacks[s].mem}
    PROVE  /\ HeapOK(heap', copied')
           /\ heap'[b] = cells /\ b \in DOMAIN heap' /\ b \in Blocks /\ b # Null /\ b \notin DOMAIN heap
           /\ \A c \in DOMAIN heap \ {stacks[s].mem} :
                 c \in DOMAIN heap' /\ Len(heap'[c]) = Len(heap[c]) /\ (c \in copied' <=> c \in copied)
<1>1. b \in Blocks /\ b \notin DOMAIN heap /\ b # Null
  BY StackAssumption DEF Unused
<1>2. /\ DOMAIN heap' = (DOMAIN heap \ {stacks[s].mem}) \cup {b}
      /\ heap'[b] = cells
      /\ \A c \in DOMAIN heap \ {stacks[s].mem} : heap'[c] = heap[c]
  BY <1>1 DEF Realloc
<1>3. \A c \in DOMAIN heap \ {stacks[s].mem} : c \in copied' <=> c \in copied
  BY <1>1
<1>4. copied' \subseteq DOMAIN heap'
  BY <1>2, StackAssumption DEF StackInv, HeapOK
<1>5. HeapOK(heap', copied')
  BY <1>1, <1>2, <1>4 DEF StackInv, HeapOK
<1> QED
  BY <1>1, <1>2, <1>3, <1>5
-----------------------------------------------------------------------------
USE DEF Outcome, Begin, UseEnds, Use

LEMMA ConstructStep ==
    ASSUME StackInv, NEW s \in Stacks, NEW n \in Lengths, Construct(s, n)
    PROVE  StackInv'
<1>1. n \in Nat /\ n <= MaxStackSize /\ s \notin live /\ overrun = {} /\ overrun' = {}
      /\ live' = live \cup {s} /\ copied' = copied
  BY StackAssumption DEF Construct
<1>2. stacks[s] = Empty
  BY <1>1 DEF StackInv
<1>3. PICK b \in Unused : /\ heap' = Realloc(s, b, Blank(n))
                         /\ stacks' = [stacks EXCEPT ![s] = [mem |-> b, capacity |-> n, size |-> 0]]
  BY DEF Construct
<1> DEFINE r == [mem |-> b, capacity |-> n, size |-> 0]
<1>4. Blank(n) \in Seq(Cells) /\ Len(Blank(n)) = n
  BY <1>1, BlankCells
<1>5. stacks[s].mem = Null
  BY <1>2 DEF Empty
<1>6. /\ HeapOK(heap', copied')
      /\ heap'[b] = Blank(n) /\ b \in DOMAIN heap' /\ b \in Blocks /\ b # Null /\ b \notin DOMAIN heap
      /\ \A c \in DOMAIN heap \ {stacks[s].mem} :
            c \in DOMAIN heap' /\ Len(heap'[c]) = Len(heap[c]) /\ (c \in copied' <=> c \in copied)
  BY <1>1, <1>3, <1>4, <1>5, NewBlock
<1>7. Sound(r, heap', copied') /\ r.mem = b
  BY <1>1, <1>4, <1>6 DEF Sound, Records, Length
<1> HIDE DEF r
<1>8. stacks' = [stacks EXCEPT ![s] = r]
  BY <1>3 DEF r
<1> QED
  BY <1>1, <1>6, <1>7, <1>8, OneStackChanges

(* A stack of another's elements, or the first of them, in a new block of  *)
(* the given length.                                                       *)
LEMMA CopyToNewBlock ==
    ASSUME StackInv, NEW s \in Stacks, NEW other \in Stacks, NEW b \in Unused, NEW n \in Nat,
           NEW m \in 0..stacks[other].size,
           overrun = {}, overrun' = {}, live' = live \cup {s},
           heap' = Realloc(s, b, CopyFirst(Blank(n), other, m)),
           stacks' = [stacks EXCEPT ![s] = [stacks[other] EXCEPT !.mem = b]],
           copied' \in {copied, copied \cup {b}, copied \ {stacks[s].mem}},
           stacks[s].mem # Null => copied' = copied \ {stacks[s].mem},
           stacks[other].size <= n, b \in copied' \/ n = stacks[other].capacity
    PROVE  StackInv'
<1> DEFINE r == [stacks[other] EXCEPT !.mem = b]
           cells == CopyFirst(Blank(n), other, m)
<1>1. cells \in Seq(Cells) /\ Len(cells) = n
  BY BlankCells, FirstCells
<1>2. heap' = Realloc(s, b, cells)
  OBVIOUS
<1> HIDE DEF cells
<1>3. /\ HeapOK(heap', copied')
      /\ heap'[b] = cells /\ b \in DOMAIN heap' /\ b \in Blocks /\ b # Null /\ b \notin DOMAIN heap
      /\ \A c \in DOMAIN heap \ {stacks[s].mem} :
            c \in DOMAIN heap' /\ Len(heap'[c]) = Len(heap[c]) /\ (c \in copied' <=> c \in copied)
  BY <1>1, <1>2, NewBlock
<1>4. r \in Records /\ r.mem = b /\ r.size = stacks[other].size /\ r.capacity = stacks[other].capacity
  BY <1>3 DEF StackInv, Records
<1>5. r.size <= r.capacity /\ r.capacity <= MaxStackSize
  BY <1>4 DEF StackInv, Sound
<1> HIDE DEF r
<1>6. Sound(r, heap', copied')
  BY <1>1, <1>3, <1>4, <1>5 DEF Sound, Length
<1>7. stacks' = [stacks EXCEPT ![s] = r]
  BY DEF r
<1> QED
  BY <1>3, <1>4, <1>6, <1>7, OneStackChanges

LEMMA CopyConstructStep ==
    ASSUME StackInv, NEW s \in Stacks, NEW other \in Stacks, CopyConstruct(s, other)
    PROVE  StackInv'
<1>1. s \notin live /\ other \in live /\ overrun = {} /\ overrun' = {} /\ live' = live \cup {s}
  BY DEF CopyConstruct
<1>2. PICK b \in Unused : /\ heap' = Realloc(s, b, CopyTo(Blank(stacks[other].size), other))
                         /\ stacks' = [stacks EXCEPT ![s] = [stacks[other] EXCEPT !.mem = b]]
                         /\ copied' = copied \cup {b}
  BY DEF CopyConstruct
<1>3. stacks[s].mem = Null
  BY <1>1 DEF StackInv, Empty
<1>4. /\ stacks[other].size \in Nat /\ stacks[other].size <= stacks[other].size
      /\ stacks[other].size \in 0..stacks[other].size
  BY DEF StackInv, Records
<1> QED
  BY <1>1, <1>2, <1>3, <1>4, CopyToNewBlock DEF CopyTo

LEMMA AssignToNewBlockStep ==
    ASSUME StackInv, NEW s \in Stacks, NEW other \in Stacks, AssignToNewBlock(s, other)
    PROVE  StackInv'
<1>1. s \in live /\ overrun = {} /\ overrun' = {} /\ live' = live \cup {s}
      /\ copied' = copied \ {stacks[s].mem}
  BY DEF AssignToNewBlock
<1>2. PICK b \in Unused, m \in 0..stacks[other].size :
         /\ heap' = Realloc(s, b, CopyFirst(Blank(stacks[other].capacity), other, m))
         /\ stacks' = [stacks EXCEPT ![s] = [stacks[other] EXCEPT !.mem = b]]
  BY DEF AssignToNewBlock, NewLength
<1>3. stacks[other].capacity \in Nat /\ stacks[other].size <= stacks[other].capacity
  BY DEF StackInv, Records, Sound
<1> QED
  BY <1>1, <1>2, <1>3, CopyToNewBlock

(* A stack that keeps its block, in which cells may change.                *)
LEMMA SameBlock ==
    ASSUME StackInv, NEW s \in Stacks, NEW n \in Nat,
           overrun = {}, overrun' = {}, s \in live, UNCHANGED <<live, copied>>,
           stacks' = [stacks EXCEPT ![s].size = n],
           n <= stacks[s].capacity, n <= Length(stacks[s], heap),
           DOMAIN heap' = DOMAIN heap,
           \A b \in DOMAIN heap : heap'[b] \in Seq(Cells) /\ Len(heap'[b]) = Len(heap[b])
    PROVE  StackInv'
<1> DEFINE r == [stacks[s] EXCEPT !.size = n]
<1>1. r \in Records /\ r.mem = stacks[s].mem /\ r.capacity = stacks[s].capacity /\ r.size = n
  BY DEF StackInv, Records
<1>2. stacks' = [stacks EXCEPT ![s] = r]
  OBVIOUS
<1>3. live' = live \cup {s}
  OBVIOUS
<1> HIDE DEF r
<1>4. Sound(r, heap', copied')
  BY <1>1 DEF StackInv, Sound, Length
<1>5. HeapOK(heap', copied')
  BY DEF StackInv, HeapOK
<1> QED
  BY <1>1, <1>2, <1>3, <1>4, <1>5, OneStackChanges

LEMMA AssignToOwnBlockStep ==
    ASSUME StackInv, NEW s \in Stacks, NEW other \in Stacks, AssignToOwnBlock(s, other)
    PROVE  StackInv'
<1>1. /\ s \in live /\ overrun = {} /\ overrun' = {} /\ UNCHANGED <<live, copied>>
      /\ stacks' = [stacks EXCEPT ![s].size = stacks[other].size]
      /\ stacks[other].size <= Len(Cell(s)) /\ stacks[other].capacity <= stacks[s].capacity
  BY DEF AssignToOwnBlock, Fits
<1>2. /\ stacks[other].size \in Nat /\ stacks[other].size <= stacks[s].capacity
      /\ stacks[other].size <= Length(stacks[s], heap)
  BY <1>1 DEF StackInv, Records, Sound, Cell, Length
<1>3. /\ DOMAIN heap' = DOMAIN heap
      /\ \A b \in DOMAIN heap : heap'[b] \in Seq(Cells) /\ Len(heap'[b]) = Len(heap[b])
  <2>1. CASE stacks[s].mem = Null
    BY <2>1 DEF AssignToOwnBlock, StackInv, HeapOK
  <2>2. CASE stacks[s].mem # Null
    <3>4. PICK m \in 0..stacks[other].size :
             heap' = [heap EXCEPT ![stacks[s].mem] = CopyFirst(Cell(s), other, m)]
      BY <2>2 DEF AssignToOwnBlock
    <3> DEFINE cells == CopyFirst(Cell(s), other, m)
    <3>1. stacks[s].mem \in DOMAIN heap /\ Cell(s) = heap[stacks[s].mem] /\ Cell(s) \in Seq(Cells)
      BY <2>2 DEF StackInv, Sound, HeapOK, Cell
    <3>2. cells \in Seq(Cells) /\ Len(cells) = Len(heap[stacks[s].mem])
      BY <3>1, FirstCells
    <3>3. heap' = [heap EXCEPT ![stacks[s].mem] = cells]
      BY <3>4
    <3> HIDE DEF cells
    <3> QED
      BY <3>1, <3>2, <3>3 DEF StackInv, HeapOK
  <2> QED
    BY <2>1, <2>2
<1> QED
  BY <1>1, <1>2, <1>3, SameBlock

LEMMA PushInPlaceStep ==
    ASSUME StackInv, NEW s \in Stacks, NEW v \in Values, PushInPlace(s, v)
    PROVE  StackInv'
<1>1. /\ s \in live /\ overrun = {} /\ overrun' = {} /\ UNCHANGED <<live, copied>>
      /\ stacks' = [stacks EXCEPT ![s].size = stacks[s].size + 1]
      /\ stacks[s].size # stacks[s].capacity /\ stacks[s].size < Len(Cell(s))
  BY DEF PushInPlace, Full, StackInv
<1>2. /\ stacks[s].size + 1 \in Nat /\ stacks[s].size + 1 <= stacks[s].capacity
      /\ stacks[s].mem # Null /\ stacks[s].mem \in DOMAIN heap
      /\ Cell(s) = heap[stacks[s].mem] /\ Cell(s) \in Seq(Cells)
  BY <1>1 DEF StackInv, Records, Sound, HeapOK, Cell, Length
<1>0. PICK result \in {"done", "bad_alloc"} :
         heap' = [heap EXCEPT ![stacks[s].mem] = Write(@, stacks[s].size + 1, v, result)]
  BY DEF PushInPlace
<1> DEFINE cells == Write(heap[stacks[s].mem], stacks[s].size + 1, v, result)
<1>3. heap' = [heap EXCEPT ![stacks[s].mem] = cells]
  BY <1>0
<1>4. cells \in Seq(Cells) /\ Len(cells) = Len(heap[stacks[s].mem])
  <2>1. ASSUME NEW old \in Seq(Cells), NEW k \in 1..Len(old)
        PROVE  [old EXCEPT ![k] = v] \in Seq(Cells) /\ Len([old EXCEPT ![k] = v]) = Len(old)
    BY DEF Cells
  <2>2. heap[stacks[s].mem] \in Seq(Cells) /\ stacks[s].size + 1 \in 1..Len(heap[stacks[s].mem])
    BY <1>1, <1>2 DEF StackInv, Records
  <2> QED
    BY <2>1, <2>2 DEF Write
<1>5. stacks[s].size + 1 <= Length(stacks[s], heap)
  BY <1>1, <1>2 DEF Length, StackInv, Records
<1> HIDE DEF cells
<1>6. /\ DOMAIN heap' = DOMAIN heap
      /\ \A b \in DOMAIN heap : heap'[b] \in Seq(Cells) /\ Len(heap'[b]) = Len(heap[b])
  BY <1>2, <1>3, <1>4 DEF StackInv, HeapOK
<1> QED
  BY <1>1, <1>2, <1>5, <1>6, SameBlock

LEMMA PopStep ==
    ASSUME StackInv, NEW s \in Stacks, Pop(s)
    PROVE  StackInv'
<1>1. /\ s \in live /\ overrun = {} /\ overrun' = {} /\ UNCHANGED <<live, copied, heap>>
      /\ stacks' = [stacks EXCEPT ![s].size = stacks[s].size - 1]
      /\ stacks[s].size - 1 \in Nat
  BY DEF Pop, StackInv, Records
<1>2. stacks[s].size - 1 <= stacks[s].capacity /\ stacks[s].size - 1 <= Length(stacks[s], heap)
  BY <1>1 DEF StackInv, Sound, Records, HeapOK, Length
<1>3. \A b \in DOMAIN heap : heap'[b] \in Seq(Cells) /\ Len(heap'[b]) = Len(heap[b])
  BY <1>1 DEF StackInv, HeapOK
<1> QED
  BY <1>1, <1>2, <1>3, SameBlock

LEMMA GrowStep ==
    ASSUME StackInv, NEW s \in Stacks, NEW n \in Nat, NEW cells \in Seq(Cells), NEW size \in Nat,
           Grow(s, n, cells, size), size <= n, Len(cells) = n, n <= MaxStackSize,
           s \in live, live' = live, overrun = {}, overrun' = {}
    PROVE  StackInv'
<1>1. PICK b \in Unused :
         /\ heap' = Realloc(s, b, cells)
         /\ stacks' = [stacks EXCEPT ![s] = [mem |-> b, capacity |-> n, size |-> size]]
         /\ copied' = copied \ {stacks[s].mem}
  BY DEF Grow
<1> DEFINE r == [mem |-> b, capacity |-> n, size |-> size]
<1>2. /\ HeapOK(heap', copied')
      /\ heap'[b] = cells /\ b \in DOMAIN heap' /\ b \in Blocks /\ b # Null /\ b \notin DOMAIN heap
      /\ \A c \in DOMAIN heap \ {stacks[s].mem} :
            c \in DOMAIN heap' /\ Len(heap'[c]) = Len(heap[c]) /\ (c \in copied' <=> c \in copied)
  BY <1>1, NewBlock
<1>3. Sound(r, heap', copied') /\ r.mem = b
  BY <1>2 DEF Sound, Records, Length
<1>4. live' = live \cup {s}
  OBVIOUS
<1> HIDE DEF r
<1>5. stacks' = [stacks EXCEPT ![s] = r]
  BY <1>1 DEF r
<1> QED
  BY <1>2, <1>3, <1>4, <1>5, OneStackChanges

LEMMA PushExpandsStep ==
    ASSUME StackInv, NEW s \in Stacks, NEW v \in Values, PushExpands(s, v)
    PROVE  StackInv'
<1>0. PICK result \in {"done", "bad_alloc"} :
         Grow(s, Expanded(s), Write(CopyTo(Blank(Expanded(s)), s), stacks[s].size + 1, v, result),
              stacks[s].size + 1)
  BY DEF PushExpands
<1> DEFINE n == Expanded(s)
           blank == Blank(n)
           cells == Write(CopyTo(blank, s), stacks[s].size + 1, v, result)
<1>1. /\ s \in live /\ live' = live /\ overrun = {} /\ overrun' = {} /\ n <= MaxStackSize
      /\ stacks[s].size = stacks[s].capacity
      /\ Grow(s, n, cells, stacks[s].size + 1)
  BY <1>0 DEF PushExpands, Full
<1>2. n \in Nat /\ stacks[s].size \in Nat /\ stacks[s].size + 1 <= n
  BY <1>1 DEF Expanded, StackInv, Records
<1> HIDE DEF n
<1>3. blank \in Seq(Cells) /\ Len(blank) = n
  BY <1>2, BlankCells
<1> HIDE DEF blank
<1>4. CopyTo(blank, s) \in Seq(Cells) /\ Len(CopyTo(blank, s)) = n
  BY <1>3, CopiedCells
<1>5. cells \in Seq(Cells) /\ Len(cells) = n
  <2>1. ASSUME NEW old \in Seq(Cells), NEW k \in 1..Len(old)
        PROVE  [old EXCEPT ![k] = v] \in Seq(Cells) /\ Len([old EXCEPT ![k] = v]) = Len(old)
    BY DEF Cells
  <2>2. stacks[s].size + 1 \in 1..Len(CopyTo(blank, s))
    BY <1>2, <1>4
  <2> QED
    BY <1>4, <2>1, <2>2 DEF Write
<1> HIDE DEF cells
<1>6. stacks[s].size + 1 \in Nat
  BY <1>2
<1> QED
  BY <1>1, <1>2, <1>5, <1>6, GrowStep

LEMMA ReserveStep ==
    ASSUME StackInv, NEW s \in Stacks, NEW n \in Lengths, Reserve(s, n)
    PROVE  StackInv'
<1>1. s \in live /\ live' = live /\ overrun = {} /\ overrun' = {} /\ n <= MaxStackSize /\ n \in Nat
  BY StackAssumption DEF Reserve
<1>2. CASE UNCHANGED <<stacks, heap, copied>>
  BY <1>1, <1>2 DEF StackInv
<1>3. CASE ~(n <= stacks[s].capacity) /\ Grow(s, n, CopyTo(Blank(n), s), stacks[s].size)
  <2>1. Blank(n) \in Seq(Cells) /\ Len(Blank(n)) = n
    BY <1>1, BlankCells
  <2>2. CopyTo(Blank(n), s) \in Seq(Cells) /\ Len(CopyTo(Blank(n), s)) = n
    BY <2>1, CopiedCells
  <2>3. stacks[s].size \in Nat /\ stacks[s].size <= n
    BY <1>1, <1>3 DEF StackInv, Sound, Records
  <2> QED
    BY <1>1, <1>3, <2>2, <2>3, GrowStep
<1>4. n \in Nat /\ stacks[s].capacity \in Nat
  BY StackAssumption DEF StackInv, Records
<1>5. ~(n <= stacks[s].capacity) => n > stacks[s].capacity
  BY <1>4
<1> QED
  BY <1>2, <1>3, <1>5 DEF Reserve

LEMMA DestructStep ==
    ASSUME StackInv, NEW s \in Stacks, Destruct(s)
    PROVE  StackInv'
<1>1. /\ overrun = {} /\ overrun' = {} /\ live' = live \ {s}
      /\ stacks' = [stacks EXCEPT ![s] = Empty]
      /\ copied' = copied \ {stacks[s].mem}
  BY DEF Destruct
<1>2. /\ DOMAIN heap' = DOMAIN heap \ {stacks[s].mem}
      /\ \A b \in DOMAIN heap' : heap'[b] = heap[b]
  BY DEF Destruct
<1>3. HeapOK(heap', copied')
  BY <1>1, <1>2 DEF StackInv, HeapOK
<1>4. Empty.mem = Null /\ Sound(Empty, heap', copied')
  BY StackAssumption DEF Sound, Empty, Records, Length
<1>5. \A b \in DOMAIN heap \ {stacks[s].mem} :
         b \in DOMAIN heap' /\ Len(heap'[b]) = Len(heap[b]) /\ (b \in copied' <=> b \in copied)
  BY <1>1, <1>2
<1> QED
  BY <1>1, <1>3, <1>4, <1>5, OneStackChanges

(* Stacks exchange their members, or one takes those of another.           *)
LEMMA MembersMove ==
    ASSUME StackInv, NEW s \in Stacks, NEW other \in Stacks, s # other,
           overrun = {}, overrun' = {}, other \in live, live' = live \cup {s},
           UNCHANGED <<heap, copied>>,
           \/ stacks' = [stacks EXCEPT ![s] = stacks[other], ![other] = Empty]
           \/ stacks' = [stacks EXCEPT ![s] = stacks[other], ![other] = stacks[s]]
    PROVE  StackInv'
<1>1. /\ stacks'[s] = stacks[other] /\ stacks'[other] \in {Empty, stacks[s]}
      /\ \A t \in Stacks \ {s, other} : stacks'[t] = stacks[t]
  BY DEF StackInv
<1>2. Empty \in Records /\ Sound(Empty, heap, copied) /\ Empty.mem = Null
  BY StackAssumption DEF Sound, Empty, Records, Length
<1>3. stacks' \in [Stacks -> Records]
  BY <1>2 DEF StackInv
<1>4. \A t \in Stacks : Sound(stacks'[t], heap, copied)
  BY <1>1, <1>2 DEF StackInv
<1>5. \A t \in Stacks \ live' : stacks'[t] = Empty
  BY <1>1 DEF StackInv
<1>6. ASSUME NEW t \in Stacks, NEW u \in Stacks, t # u, stacks'[t].mem # Null
      PROVE  stacks'[u].mem # stacks'[t].mem
  BY <1>1, <1>2, <1>6 DEF StackInv
<1>7. live' \subseteq Stacks
  BY DEF StackInv
<1>8. Sound(stacks[s], heap, copied)' /\ HeapOK(heap, copied)'
  BY <1>4 DEF StackInv
<1> QED
  BY <1>3, <1>4, <1>5, <1>6, <1>7, <1>8 DEF StackInv

LEMMA MoveStep ==
    ASSUME StackInv, NEW s \in Stacks, NEW other \in Stacks,
           MoveConstruct(s, other) \/ MoveAssign(s, other) \/ Swap(s, other)
    PROVE  StackInv'
<1>1. CASE MoveConstruct(s, other)
  BY <1>1, MembersMove DEF MoveConstruct, Take
<1>2. CASE MoveAssign(s, other)
  <2>1. s \in live /\ live' = live \cup {s} /\ other \in live /\ overrun = {} /\ overrun' = {}
        /\ UNCHANGED <<heap, copied, live>>
    BY <1>2 DEF MoveAssign
  <2>2. CASE stacks' = stacks
    BY <2>1, <2>2 DEF StackInv
  <2>3. CASE stacks[s].mem # stacks[other].mem /\ stacks' = Take(s, other)
    BY <2>1, <2>3, MembersMove DEF Take
  <2> QED
    BY <1>2, <2>2, <2>3 DEF MoveAssign
<1>3. CASE Swap(s, other)
  <2>1. s \in live /\ live' = live \cup {s} /\ other \in live /\ overrun = {} /\ overrun' = {}
        /\ UNCHANGED <<heap, copied, live>>
        /\ stacks' = [stacks EXCEPT ![s] = stacks[other], ![other] = stacks[s]]
    BY <1>3 DEF Swap
  <2>2. CASE s = other
    <3>1. stacks' = stacks
      BY <2>1, <2>2 DEF StackInv
    <3> QED
      BY <2>1, <3>1 DEF StackInv
  <2>3. CASE s # other
    BY <2>1, <2>3, MembersMove
  <2> QED
    BY <2>2, <2>3
<1> QED
  BY <1>1, <1>2, <1>3

(* Only a stack whose block is a copy's writes behind it: any other has a  *)
(* block of its capacity.                                                  *)
LEMMA OverrunStep ==
    ASSUME StackInv, NEW s \in Stacks, NEW other \in Stacks,
           AssignOverruns(s, other) \/ PushOverruns(s)
    PROVE  StackInv'
<1>1. s \in live /\ overrun' = {s} /\ UNCHANGED <<stacks, live, heap, copied>>
  BY DEF AssignOverruns, PushOverruns, Overrun
<1>2. Len(Cell(s)) = Length(stacks[s], heap)
  BY DEF Cell, Length
<1>3. /\ stacks[s] \in Records /\ stacks[other] \in Records
      /\ stacks[s].size <= stacks[s].capacity /\ stacks[other].size <= stacks[other].capacity
      /\ stacks[s].mem \notin copied => Length(stacks[s], heap) = stacks[s].capacity
  BY DEF StackInv, Sound
<1>4. stacks[s].mem \in copied
  <2>1. SUFFICES ASSUME stacks[s].mem \notin copied PROVE FALSE
    OBVIOUS
  <2>2. Len(Cell(s)) = stacks[s].capacity
    BY <1>2, <1>3, <2>1
  <2>3. CASE AssignOverruns(s, other)
    BY <1>3, <2>2, <2>3 DEF AssignOverruns, Fits, Records
  <2>4. CASE PushOverruns(s)
    BY <1>3, <2>2, <2>4 DEF PushOverruns, Full, Records
  <2> QED
    BY <2>3, <2>4
<1> QED
  BY <1>1, <1>4 DEF StackInv

(* A new block that no stack gets.                                         *)
LEMMA WasteStep ==
    ASSUME StackInv, NEW b \in Unused, NEW cells \in Seq(Cells), heap' = WithBlock(b, cells),
           UNCHANGED <<stacks, live, copied, overrun>>
    PROVE  StackInv'
<1>1. b \in Blocks /\ b \notin DOMAIN heap
  BY DEF Unused
<1>2. /\ DOMAIN heap' = DOMAIN heap \cup {b} /\ heap'[b] = cells
      /\ \A c \in DOMAIN heap : heap'[c] = heap[c]
  BY <1>1 DEF WithBlock
<1>3. HeapOK(heap', copied')
  BY <1>1, <1>2 DEF StackInv, HeapOK
<1>4. \A s \in Stacks : Sound(stacks'[s], heap', copied')
  BY <1>2 DEF StackInv, Sound, Length
<1> QED
  BY <1>3, <1>4 DEF StackInv

LEMMA WasteSteps ==
    ASSUME StackInv, NEW s \in Stacks,
           GrowthThrows(s) \/ \E other \in Stacks : CopyConstructThrows(s, other)
    PROVE  StackInv'
<1>1. ASSUME NEW t \in Stacks, NEW n \in 0..(stacks[t].size - 1), NEW length \in Nat, NEW b \in Unused,
             heap' = WithBlock(b, CopyFirst(Blank(length), t, n)),
             UNCHANGED <<stacks, live, copied, overrun>>
      PROVE  StackInv'
  <2>1. n \in 0..stacks[t].size
    BY DEF StackInv, Records
  <2>2. CopyFirst(Blank(length), t, n) \in Seq(Cells)
    BY <2>1, BlankCells, FirstCells
  <2> QED
    BY <1>1, <2>2, WasteStep
<1>2. \A t \in Stacks : stacks[t].size \in Nat /\ Expanded(t) \in Nat
  BY DEF StackInv, Records, Expanded
<1>3. CASE GrowthThrows(s)
  <2>1. PICK length \in Lengths \cup {Expanded(s)}, b \in Unused, n \in 0..(stacks[s].size - 1) :
           heap' = WithBlock(b, CopyFirst(Blank(length), s, n))
    BY <1>3 DEF GrowthThrows
  <2>2. UNCHANGED <<stacks, live, copied, overrun>>
    BY <1>3 DEF GrowthThrows
  <2>3. length \in Nat
    BY <1>2, StackAssumption
  <2> QED
    BY <1>1, <2>1, <2>2, <2>3
<1>4. CASE \E other \in Stacks : CopyConstructThrows(s, other)
  BY <1>1, <1>2, <1>4 DEF CopyConstructThrows
<1> QED
  BY <1>3, <1>4

(* The calls that change no stack.                                         *)
LEMMA QuietStep ==
    ASSUME StackInv, NEW s \in Stacks,
           ConstructEmpty(s) \/ Top(s) \/ EmptyThrows(s) \/ TooLong(s) \/ NoMemory(s)
    PROVE  StackInv'
<1>1. UNCHANGED <<stacks, heap, copied, overrun>> /\ live' \in {live, live \cup {s}}
  BY DEF ConstructEmpty, Top, EmptyThrows, TooLong, NoMemory, Throw, Unchanged
<1> QED
  BY <1>1 DEF StackInv

LEMMA StackInvHolds == StackSpecification => []StackInv
<1>1. StackInv /\ [StackNext]_stackVars => StackInv'
  <2> SUFFICES ASSUME StackInv, [StackNext]_stackVars PROVE StackInv'
    OBVIOUS
  <2>1. CASE UNCHANGED stackVars
    BY <2>1 DEF StackInv, stackVars
  <2>2. CASE StackNext
    <3> PICK s \in Stacks :
          \/ ConstructEmpty(s) \/ Destruct(s)
          \/ \E n \in Lengths : Construct(s, n) \/ Reserve(s, n)
          \/ \E other \in Stacks :
                \/ CopyConstruct(s, other) \/ CopyConstructThrows(s, other)
                \/ MoveConstruct(s, other)
                \/ AssignToNewBlock(s, other) \/ AssignToOwnBlock(s, other) \/ AssignOverruns(s, other)
                \/ MoveAssign(s, other) \/ Swap(s, other)
          \/ Top(s) \/ Pop(s)
          \/ \E v \in Values : PushExpands(s, v) \/ PushInPlace(s, v)
          \/ PushOverruns(s)
          \/ EmptyThrows(s) \/ TooLong(s) \/ NoMemory(s) \/ GrowthThrows(s)
      BY <2>2 DEF StackNext
    <3> QED
      BY QuietStep, WasteSteps, DestructStep, ConstructStep, ReserveStep, CopyConstructStep, MoveStep,
         AssignToNewBlockStep, AssignToOwnBlockStep, OverrunStep, PopStep, PushExpandsStep,
         PushInPlaceStep
  <2> QED
    BY <2>1, <2>2
<1> QED
  BY <1>1, InitialStacks, PTL DEF StackSpecification
-----------------------------------------------------------------------------
(* The members of the stacks are well typed, and what is left of one that  *)
(* was destroyed or moved from is empty (stack.h:16-165).                  *)
THEOREM StackTypeCorrect == StackSpecification => []StackTypeOK
BY StackInvHolds, InvImplies, PTL

(* No block is used by two stacks or after it was deleted, however many    *)
(* stacks are copied, moved, assigned and swapped (stack.h:22-79, 136-165).*)
THEOREM BlocksHaveOneOwner == StackSpecification => []OneOwner
BY StackInvHolds, InvImplies, PTL

(* A stack that never got a block from the copy constructor writes behind  *)
(* no block, whatever its limit (stack.h:22-28, 46-60, 116-134).           *)
THEOREM OnlyCopiesWriteBehind == StackSpecification => []OnlyCopiesOverrun
BY StackInvHolds, InvImplies, PTL
-----------------------------------------------------------------------------
(* A step takes a block from the stack that has it, or gives a new one to  *)
(* none.                                                                   *)
Leaks == \E b \in Blocks : ~Lost(b) /\ Lost(b)'

LEMMA GoneOrKept ==
    ASSUME NEW s \in Stacks, live \subseteq Stacks, live \ {s} \subseteq live',
           \A t \in live \ {s} : stacks'[t].mem = stacks[t].mem,
           s \in live /\ stacks[s].mem \in DOMAIN heap' => s \in live' /\ stacks'[s].mem = stacks[s].mem,
           \A b \in DOMAIN heap' \ DOMAIN heap : s \in live' /\ stacks'[s].mem = b
    PROVE  ~Leaks
BY DEF Leaks, Lost, Owned

LEMMA NewBlockLeaksNothing ==
    ASSUME StackInv, NEW s \in Stacks, NEW b \in Unused, NEW cells, NEW r,
           heap' = Realloc(s, b, cells), stacks' = [stacks EXCEPT ![s] = r], r.mem = b,
           live' = live \cup {s}
    PROVE  ~Leaks
<1>1. \A t \in live \ {s} : stacks'[t].mem = stacks[t].mem
  BY DEF StackInv
<1>2. s \in live => stacks[s].mem \notin DOMAIN heap'
  <2>1. CASE stacks[s].mem = Null
    BY <2>1, StackAssumption DEF Realloc, Unused, StackInv, HeapOK
  <2>2. CASE stacks[s].mem # Null
    <3>1. stacks[s].mem \in DOMAIN heap
      BY <2>2 DEF StackInv, Sound
    <3> QED
      BY <3>1 DEF Realloc, Unused
  <2> QED
    BY <2>1, <2>2
<1>3. live \subseteq Stacks /\ live \ {s} \subseteq live'
  BY DEF StackInv
<1>5. ASSUME NEW c \in DOMAIN heap' \ DOMAIN heap PROVE s \in live' /\ stacks'[s].mem = c
  BY DEF Realloc, StackInv
<1>4. s \in live /\ stacks[s].mem \in DOMAIN heap' => s \in live' /\ stacks'[s].mem = stacks[s].mem
  BY <1>2
<1> QED
  BY <1>1, <1>3, <1>4, <1>5, GoneOrKept

LEMMA NothingLeaks ==
    ASSUME StackInv, NEW s \in Stacks, NEW other \in Stacks,
           \/ ConstructEmpty(s) \/ Destruct(s)
           \/ \E n \in Lengths : Construct(s, n) \/ Reserve(s, n)
           \/ CopyConstruct(s, other) \/ MoveConstruct(s, other)
           \/ AssignToNewBlock(s, other) \/ AssignToOwnBlock(s, other) \/ AssignOverruns(s, other)
           \/ Swap(s, other)
           \/ Top(s) \/ Pop(s)
           \/ \E v \in Values : PushExpands(s, v) \/ PushInPlace(s, v)
           \/ PushOverruns(s)
           \/ EmptyThrows(s) \/ TooLong(s) \/ NoMemory(s)
    PROVE  ~Leaks
<1>1. CASE \/ ConstructEmpty(s) \/ AssignOverruns(s, other) \/ PushOverruns(s)
           \/ Top(s) \/ EmptyThrows(s) \/ TooLong(s) \/ NoMemory(s)
  <2>1. UNCHANGED <<stacks, heap>> /\ live \subseteq live'
    BY <1>1 DEF ConstructEmpty, AssignOverruns, PushOverruns, Top, EmptyThrows, TooLong, NoMemory,
                Throw, Unchanged, Overrun
  <2> QED
    BY <2>1, GoneOrKept DEF StackInv
<1>2. CASE AssignToOwnBlock(s, other) \/ Pop(s) \/ \E v \in Values : PushInPlace(s, v)
  <2>1. live' = live /\ \E n : stacks' = [stacks EXCEPT ![s].size = n]
    BY <1>2 DEF AssignToOwnBlock, Pop, PushInPlace
  <2>2. \A t \in Stacks : stacks'[t].mem = stacks[t].mem
    BY <2>1 DEF StackInv, Records
  <2>3. DOMAIN heap' = DOMAIN heap
    BY <1>2 DEF AssignToOwnBlock, Pop, PushInPlace
  <2> QED
    BY <2>1, <2>2, <2>3, GoneOrKept DEF StackInv
<1>3. CASE Destruct(s)
  <2>1. /\ live \subseteq Stacks /\ live \ {s} \subseteq live'
        /\ s \in live /\ stacks[s].mem \in DOMAIN heap' => s \in live' /\ stacks'[s].mem = stacks[s].mem
        /\ \A t \in live \ {s} : stacks'[t].mem = stacks[t].mem
        /\ DOMAIN heap' \subseteq DOMAIN heap
    BY <1>3 DEF Destruct, StackInv
  <2> QED
    BY <2>1, GoneOrKept
<1>4. CASE MoveConstruct(s, other) \/ Swap(s, other)
  <2>1. /\ live \cup {s} \subseteq live' /\ other \in live' /\ heap' = heap
        /\ stacks'[s].mem = stacks[other].mem
        /\ s \in live => stacks'[other].mem = stacks[s].mem
        /\ \A t \in Stacks \ {s, other} : stacks'[t].mem = stacks[t].mem
    BY <1>4 DEF MoveConstruct, Swap, Take, StackInv
  <2> QED
    BY <2>1 DEF Leaks, Lost, Owned, StackInv
<1>5. ASSUME NEW n \in Lengths, Construct(s, n) PROVE ~Leaks
  <2>1. PICK b \in Unused :
           /\ heap' = Realloc(s, b, Blank(n))
           /\ stacks' = [stacks EXCEPT ![s] = [mem |-> b, capacity |-> n, size |-> 0]]
    BY <1>5 DEF Construct
  <2>2. live' = live \cup {s}
    BY <1>5 DEF Construct
  <2> DEFINE r == [mem |-> b, capacity |-> n, size |-> 0]
             cells == Blank(n)
  <2>3. r.mem = b /\ heap' = Realloc(s, b, cells) /\ stacks' = [stacks EXCEPT ![s] = r]
    BY <2>1
  <2> HIDE DEF r, cells
  <2> QED
    BY <2>2, <2>3, NewBlockLeaksNothing
<1>6. CASE CopyConstruct(s, other) \/ AssignToNewBlock(s, other)
  <2>1. live' = live \cup {s} /\ other \in Stacks
    BY <1>6 DEF CopyConstruct, AssignToNewBlock
  <2>2. PICK b \in Unused : /\ \E cells : heap' = Realloc(s, b, cells)
                           /\ stacks' = [stacks EXCEPT ![s] = [stacks[other] EXCEPT !.mem = b]]
    BY <1>6 DEF CopyConstruct, AssignToNewBlock
  <2> DEFINE r == [stacks[other] EXCEPT !.mem = b]
  <2>3. r.mem = b
    BY DEF StackInv, Records
  <2> HIDE DEF r
  <2>4. stacks' = [stacks EXCEPT ![s] = r]
    BY <2>2 DEF r
  <2> QED
    BY <2>1, <2>2, <2>3, <2>4, NewBlockLeaksNothing
<1>8. ASSUME NEW n, NEW cells, NEW size, s \in live, live' = live, Grow(s, n, cells, size) PROVE ~Leaks
  <2>1. live' = live \cup {s}
    BY <1>8
  <2>2. PICK b \in Unused :
           /\ heap' = Realloc(s, b, cells)
           /\ stacks' = [stacks EXCEPT ![s] = [mem |-> b, capacity |-> n, size |-> size]]
    BY <1>8 DEF Grow
  <2> DEFINE r == [mem |-> b, capacity |-> n, size |-> size]
  <2>3. r.mem = b /\ heap' = Realloc(s, b, cells) /\ stacks' = [stacks EXCEPT ![s] = r]
    BY <2>2
  <2> HIDE DEF r
  <2> QED
    BY <2>1, <2>3, NewBlockLeaksNothing
<1>9. ASSUME NEW v \in Values, PushExpands(s, v) PROVE ~Leaks
  BY <1>8, <1>9 DEF PushExpands
<1>10. ASSUME NEW n \in Lengths, Reserve(s, n) PROVE ~Leaks
  <2>1. CASE UNCHANGED <<stacks, live, heap>>
    BY <2>1, GoneOrKept DEF StackInv
  <2>2. CASE Grow(s, n, CopyTo(Blank(n), s), stacks[s].size) /\ s \in live /\ live' = live
    BY <1>8, <2>2
  <2> QED
    BY <1>10, <2>1, <2>2 DEF Reserve
<1> QED
  BY <1>1, <1>2, <1>3, <1>4, <1>5, <1>6, <1>9, <1>10

(* A block that no stack has was left over by a move assignment, or is a   *)
(* new one to which not all elements could be copied (stack.h:22-28, 46-79,*)
(* 116-158).                                                               *)
THEOREM LeaksAreOfMovesAndCopies == StackSpecification => OnlyMovesAndCopiesLeak
<1> DEFINE MayBeLost(b) ==
             \/ b \in DOMAIN heap /\ outcome'.call = "move assign"
             \/ /\ b \notin DOMAIN heap
                /\ outcome'.call \in {"copy", "push", "reserve"} /\ outcome'.result = "bad_alloc"
<1>1. ASSUME StackInv, [StackNext]_stackVars
      PROVE  [\A b \in Blocks : ~Lost(b) /\ Lost(b)' => MayBeLost(b)]_stackVars
  <2> SUFFICES ASSUME StackNext, NEW b \in Blocks, ~Lost(b), Lost(b)' PROVE MayBeLost(b)
    BY <1>1
  <2> PICK s \in Stacks :
        \/ ConstructEmpty(s) \/ Destruct(s)
        \/ \E n \in Lengths : Construct(s, n) \/ Reserve(s, n)
        \/ \E other \in Stacks :
              \/ CopyConstruct(s, other) \/ CopyConstructThrows(s, other)
              \/ MoveConstruct(s, other)
              \/ AssignToNewBlock(s, other) \/ AssignToOwnBlock(s, other) \/ AssignOverruns(s, other)
              \/ MoveAssign(s, other) \/ Swap(s, other)
        \/ Top(s) \/ Pop(s)
        \/ \E v \in Values : PushExpands(s, v) \/ PushInPlace(s, v)
        \/ PushOverruns(s)
        \/ EmptyThrows(s) \/ TooLong(s) \/ NoMemory(s) \/ GrowthThrows(s)
    BY DEF StackNext
  <2>1. \/ GrowthThrows(s)
        \/ \E other \in Stacks : MoveAssign(s, other) \/ CopyConstructThrows(s, other)
    BY <1>1, NothingLeaks DEF Leaks
  <2>2. ASSUME NEW other \in Stacks, MoveAssign(s, other) PROVE MayBeLost(b)
    <3>1. heap' = heap /\ outcome'.call = "move assign"
      BY <2>2 DEF MoveAssign
    <3> QED
      BY <3>1 DEF Lost
  <2>3. ASSUME UNCHANGED <<stacks, live>> PROVE b \notin DOMAIN heap
    BY <2>3 DEF Lost, Owned
  <2>4. CASE GrowthThrows(s)
    <3>1. UNCHANGED <<stacks, live>>
      BY <2>4 DEF GrowthThrows
    <3>2. \E call \in {"push", "reserve"} : outcome' = [call |-> call, stack |-> s, result |-> "bad_alloc"]
      BY <2>4 DEF GrowthThrows
    <3>3. outcome'.call \in {"copy", "push", "reserve"} /\ outcome'.result = "bad_alloc"
      BY <3>2
    <3> QED
      BY <2>3, <3>1, <3>3
  <2>5. ASSUME NEW other \in Stacks, CopyConstructThrows(s, other) PROVE MayBeLost(b)
    BY <2>3, <2>5 DEF CopyConstructThrows
  <2> QED
    BY <2>1, <2>2, <2>4, <2>5
<1> QED
  BY <1>1, StackInvHolds, PTL DEF StackSpecification, OnlyMovesAndCopiesLeak
-----------------------------------------------------------------------------
(* The elements of the stacks.                                             *)
LEMMA SamePrefix ==
    ASSUME NEW c \in Seq(Cells), NEW d \in Seq(Cells), NEW n \in Nat, n <= Len(c), n <= Len(d),
           \A k \in 1..n : c[k] = d[k]
    PROVE  SubSeq(c, 1, n) = SubSeq(d, 1, n)
<1>1. /\ SubSeq(c, 1, n) \in Seq(Cells) /\ Len(SubSeq(c, 1, n)) = n
      /\ \A k \in 1..n : SubSeq(c, 1, n)[k] = c[k]
  OBVIOUS
<1>2. /\ SubSeq(d, 1, n) \in Seq(Cells) /\ Len(SubSeq(d, 1, n)) = n
      /\ \A k \in 1..n : SubSeq(d, 1, n)[k] = d[k]
  OBVIOUS
<1> QED
  BY <1>1, <1>2, SeqEqual

LEMMA ElementsOf ==
    ASSUME StackInv, NEW s \in Stacks
    PROVE  /\ Cell(s) \in Seq(Cells) /\ stacks[s].size \in Nat /\ stacks[s].size <= Len(Cell(s))
           /\ Elements(s) \in Seq(Cells) /\ Len(Elements(s)) = stacks[s].size
           /\ \A k \in 1..stacks[s].size : Elements(s)[k] = Cell(s)[k]
<1>1. Cell(s) \in Seq(Cells) /\ stacks[s].size \in Nat /\ stacks[s].size <= Len(Cell(s))
  BY DEF StackInv, Sound, HeapOK, Cell, Length, Records
<1> QED
  BY <1>1 DEF Elements

LEMMA NoElements ==
    ASSUME StackInv, NEW s \in Stacks, stacks[s].size = 0
    PROVE  Elements(s) = << >>
BY SubSeqEmpty DEF Elements

(* What is copied to a block are the elements.                             *)
LEMMA CopiedElements ==
    ASSUME StackInv, NEW s \in Stacks, NEW cells \in Seq(Cells), stacks[s].size <= Len(cells)
    PROVE  SubSeq(CopyTo(cells, s), 1, stacks[s].size) = Elements(s)
<1>1. CopyTo(cells, s) \in Seq(Cells) /\ Len(CopyTo(cells, s)) = Len(cells)
  BY CopiedCells
<1>2. Cell(s) \in Seq(Cells) /\ stacks[s].size \in Nat /\ stacks[s].size <= Len(Cell(s))
  BY ElementsOf
<1>3. \A k \in 1..stacks[s].size : CopyTo(cells, s)[k] = Cell(s)[k]
  BY <1>2 DEF CopyTo, CopyFirst
<1> QED
  BY <1>1, <1>2, <1>3, SamePrefix DEF Elements

(* And if only some are copied, the rest of the block is as it was.        *)
LEMMA SomeElements ==
    ASSUME StackInv, NEW s \in Stacks, NEW cells \in Seq(Cells), stacks[s].size <= Len(cells),
           NEW n \in 0..stacks[s].size
    PROVE  LET elements == SubSeq(CopyFirst(cells, s, n), 1, stacks[s].size)
           IN  /\ elements \in [1..stacks[s].size -> Cells]
               /\ \A k \in 1..n : elements[k] = Elements(s)[k]
               /\ \A k \in (n + 1)..stacks[s].size : elements[k] = cells[k]
<1> DEFINE copy == CopyFirst(cells, s, n)
           elements == SubSeq(copy, 1, stacks[s].size)
<1>1. copy \in Seq(Cells) /\ Len(copy) = Len(cells)
  BY FirstCells
<1>2. /\ stacks[s].size \in Nat /\ stacks[s].size <= Len(Cell(s))
      /\ \A k \in 1..stacks[s].size : Elements(s)[k] = Cell(s)[k]
  BY ElementsOf
<1>3. /\ \A k \in 1..n : copy[k] = Cell(s)[k]
      /\ \A k \in (n + 1)..stacks[s].size : copy[k] = cells[k]
  BY <1>2 DEF CopyFirst
<1> HIDE DEF copy
<1>5. /\ elements \in [1..stacks[s].size -> Cells]
      /\ \A k \in 1..stacks[s].size : elements[k] = copy[k]
  <2>1. /\ elements \in Seq(Cells) /\ Len(elements) = stacks[s].size
        /\ \A k \in 1..stacks[s].size : elements[k] = copy[k]
    BY <1>1, <1>2
  <2> HIDE DEF elements
  <2>2. elements \in [1..Len(elements) -> Cells]
    BY <2>1
  <2> QED
    BY <2>1, <2>2
<1> HIDE DEF elements
<1>6. \A k \in 1..n : k \in 1..stacks[s].size
  BY <1>2
<1>7. \A k \in (n + 1)..stacks[s].size : k \in 1..stacks[s].size
  BY <1>2
<1> QED
  BY <1>2, <1>3, <1>5, <1>6, <1>7 DEF elements, copy

(* The other stacks keep their elements.                                   *)
LEMMA OthersKeepTheirElements ==
    ASSUME StackInv, NEW s \in Stacks, NEW t \in Stacks \ {s}, stacks'[t] = stacks[t],
           \A b \in DOMAIN heap \ {stacks[s].mem} : heap'[b] = heap[b]
    PROVE  Elements(t)' = Elements(t)
<1>1. CASE stacks[t].mem = Null
  BY <1>1 DEF Elements, Cell
<1>2. CASE stacks[t].mem # Null
  <2>1. stacks[t].mem \in DOMAIN heap \ {stacks[s].mem}
    BY <1>2 DEF StackInv, Sound
  <2> QED
    BY <1>2, <2>1 DEF Elements, Cell
<1> QED
  BY <1>1, <1>2

LEMMA OneContent ==
    ASSUME StackInv, NEW s \in Stacks, NEW r, stacks' = [stacks EXCEPT ![s] = r],
           \A b \in DOMAIN heap \ {stacks[s].mem} : heap'[b] = heap[b],
           live' = live \cup {s}
    PROVE  Contents' = AsSequences!With(s, Elements(s)')
<1>1. \A t \in Stacks \ {s} : stacks'[t] = stacks[t]
  BY DEF StackInv
<1>2. \A t \in live \ {s} : Elements(t)' = Elements(t)
  BY <1>1, OthersKeepTheirElements DEF StackInv
<1> QED
  BY <1>2 DEF Contents, AsSequences!With

(* A new block for s, with cells that begin with given elements.           *)
LEMMA ContentInNewBlock ==
    ASSUME StackInv, NEW s \in Stacks, NEW b \in Unused, NEW cells, NEW r,
           heap' = Realloc(s, b, cells), stacks' = [stacks EXCEPT ![s] = r], r.mem = b,
           live' = live \cup {s}
    PROVE  Contents' = AsSequences!With(s, SubSeq(cells, 1, r.size))
<1>1. \A c \in DOMAIN heap \ {stacks[s].mem} : heap'[c] = heap[c]
  BY DEF Realloc, Unused
<1>2. heap'[b] = cells /\ b # Null /\ stacks'[s] = r
  BY StackAssumption DEF Realloc, Unused, StackInv
<1>3. Elements(s)' = SubSeq(cells, 1, r.size)
  BY <1>2 DEF Elements, Cell
<1>4. Contents' = AsSequences!With(s, Elements(s)')
  BY <1>1, OneContent
<1> QED
  BY <1>3, <1>4

USE DEF AsSequences!Answer

LEMMA Constructs ==
    ASSUME StackInv, NEW s \in Stacks, ConstructEmpty(s) \/ \E n \in Lengths : Construct(s, n)
    PROVE  AsSequences!Next
<1>1. s \notin live /\ live' = live \cup {s} /\ AsSequences!Answer("construct", s, "done")
  BY DEF ConstructEmpty, Construct
<1>2. Contents' = AsSequences!With(s, << >>)
  <2>1. CASE ConstructEmpty(s)
    <3>1. stacks[s] = Empty /\ UNCHANGED <<stacks, heap>>
      BY <1>1, <2>1 DEF ConstructEmpty, StackInv
    <3>2. stacks' = [stacks EXCEPT ![s] = stacks[s]]
      BY <3>1 DEF StackInv
    <3>3. stacks[s].size = 0
      BY <3>1 DEF Empty
    <3>4. Elements(s)' = << >>
      BY <3>1, <3>3, NoElements DEF Elements, Cell
    <3> QED
      BY <1>1, <3>1, <3>2, <3>4, OneContent
  <2>2. ASSUME NEW n \in Lengths, Construct(s, n) PROVE Contents' = AsSequences!With(s, << >>)
    <3>1. PICK b \in Unused : /\ heap' = Realloc(s, b, Blank(n))
                             /\ stacks' = [stacks EXCEPT ![s] = [mem |-> b, capacity |-> n, size |-> 0]]
      BY <2>2 DEF Construct
    <3> DEFINE r == [mem |-> b, capacity |-> n, size |-> 0]
               cells == Blank(n)
    <3>2. r.mem = b /\ r.size = 0
      OBVIOUS
    <3>3. heap' = Realloc(s, b, cells) /\ stacks' = [stacks EXCEPT ![s] = r]
      BY <3>1
    <3> HIDE DEF r, cells
    <3>4. Contents' = AsSequences!With(s, SubSeq(cells, 1, r.size))
      BY <1>1, <3>2, <3>3, ContentInNewBlock
    <3>5. SubSeq(cells, 1, 0) = << >>
      BY SubSeqEmpty
    <3> QED
      BY <3>2, <3>4, <3>5
  <2> QED
    BY <2>1, <2>2
<1>3. s \notin DOMAIN Contents
  BY <1>1 DEF Contents
<1> QED
  BY <1>1, <1>2, <1>3 DEF AsSequences!Next, AsSequences!Construct

(* What the contents say of a stack.                                       *)
LEMMA ContentsOf ==
    ASSUME StackInv, NEW s \in live
    PROVE  /\ s \in Stacks /\ s \in DOMAIN Contents /\ Contents[s] = Elements(s)
           /\ Contents[s] \in Seq(Cells) /\ Len(Contents[s]) = stacks[s].size
           /\ stacks[s].size > 0 => Contents[s] # << >>
           /\ stacks[s].size = 0 => Contents[s] = << >>
           /\ [Contents EXCEPT ![s] = Elements(s)'] = AsSequences!With(s, Elements(s)')
<1>1. s \in Stacks
  BY DEF StackInv
<1>2. s \in DOMAIN Contents /\ Contents[s] = Elements(s)
  BY DEF Contents
<1>3. Contents[s] \in Seq(Cells) /\ Len(Contents[s]) = stacks[s].size
  BY <1>1, <1>2, ElementsOf
<1>4. stacks[s].size > 0 => Contents[s] # << >>
  BY <1>3
<1>5. stacks[s].size = 0 => Contents[s] = << >>
  BY <1>1, <1>2, NoElements
<1>6. [Contents EXCEPT ![s] = Elements(s)'] = AsSequences!With(s, Elements(s)')
  BY <1>2 DEF AsSequences!With, Contents
<1> QED
  BY <1>1, <1>2, <1>3, <1>4, <1>5, <1>6

(* A copy of all the elements of a stack is the stack itself, and of some  *)
(* of them what StackSpec says.                                            *)
LEMMA CopiesAll ==
    ASSUME StackInv, NEW s \in Stacks, NEW other \in live, live' = live \cup {s},
           AsSequences!Answer(IF s \in live THEN "assign" ELSE "copy", s, "done"),
           Contents' = AsSequences!With(s, Elements(other))
    PROVE  AsSequences!Next
<1>1. Contents' = AsSequences!With(s, Contents[other]) /\ DOMAIN Contents = live
  BY DEF Contents
<1> QED
  BY <1>1 DEF AsSequences!Next, AsSequences!Copy

LEMMA CopiesSome ==
    ASSUME StackInv, NEW s \in live, NEW other \in live, s # other,
           AsSequences!Answer("assign", s, "bad_alloc"),
           NEW cells \in Seq(Cells), stacks[other].size <= Len(cells),
           \/ \A k \in 1..Len(cells) : cells[k] = Unset
           \/ \A k \in 1..Len(cells) : k <= stacks[s].size => cells[k] = Elements(s)[k],
           NEW n \in 0..stacks[other].size, n # stacks[other].size,
           Contents' = AsSequences!With(s, SubSeq(CopyFirst(cells, other, n), 1, stacks[other].size))
    PROVE  AsSequences!Next
<1> DEFINE elements == SubSeq(CopyFirst(cells, other, n), 1, stacks[other].size)
<1>1. /\ other \in Stacks /\ stacks[other].size \in Nat
      /\ Contents[s] = Elements(s) /\ Len(Contents[s]) = stacks[s].size /\ s \in DOMAIN Contents
      /\ Contents[other] = Elements(other) /\ Len(Contents[other]) = stacks[other].size
      /\ other \in DOMAIN Contents
  BY ContentsOf DEF StackInv, Records
<1>2. /\ elements \in [1..stacks[other].size -> Cells]
      /\ \A k \in 1..n : elements[k] = Elements(other)[k]
      /\ \A k \in (n + 1)..stacks[other].size : elements[k] = cells[k]
  BY <1>1, SomeElements
<1> HIDE DEF elements
<1>3. n \in 0..(stacks[other].size - 1)
  BY <1>1
<1>4. \A k \in (n + 1)..stacks[other].size : k \in 1..Len(cells)
  BY <1>1
<1>5. \/ \A k \in (n + 1)..stacks[other].size : elements[k] = Unset
      \/ \A k \in (n + 1)..stacks[other].size :
            k <= stacks[s].size => elements[k] = Elements(s)[k]
  BY <1>2, <1>4
<1>6. Contents' = AsSequences!With(s, elements)
  BY DEF elements
<1>7. AsSequences!Cells = Cells
  BY DEF AsSequences!Cells, Cells
<1>8. AsSequences!AssignsSome(s, other)
  <2>1. /\ n \in 0..(Len(Contents[other]) - 1)
        /\ elements \in [1..Len(Contents[other]) -> AsSequences!Cells]
        /\ \A k \in 1..n : elements[k] = Contents[other][k]
    BY <1>1, <1>2, <1>3, <1>7
  <2>2. \/ \A k \in (n + 1)..Len(Contents[other]) : elements[k] = Unset
        \/ \A k \in (n + 1)..Len(Contents[other]) :
              k <= Len(Contents[s]) => elements[k] = Contents[s][k]
    BY <1>1, <1>5
  <2> QED
    BY <1>6, <2>1, <2>2, ZenonT(60) DEF AsSequences!AssignsSome
<1> QED
  BY <1>1, <1>8 DEF AsSequences!Next

(* What is copied is all of it, or some and the copy has failed.           *)
LEMMA CopiesFirst ==
    ASSUME StackInv, NEW s \in live, NEW other \in live,
           NEW cells \in Seq(Cells), stacks[other].size <= Len(cells), live' = live,
           \/ \A k \in 1..Len(cells) : cells[k] = Unset
           \/ \A k \in 1..Len(cells) : k <= stacks[s].size => cells[k] = Elements(s)[k],
           NEW n \in 0..stacks[other].size, s = other => n = stacks[other].size,
           AsSequences!Answer("assign", s, CopyEnds(n, other)),
           Contents' = AsSequences!With(s, SubSeq(CopyFirst(cells, other, n), 1, stacks[other].size))
    PROVE  AsSequences!Next
<1>1. s \in Stacks /\ other \in Stacks /\ live' = live \cup {s}
  BY DEF StackInv
<1>2. CASE n = stacks[other].size
  <2>1. AsSequences!Answer("assign", s, "done")
    BY <1>2 DEF CopyEnds
  <2>2. SubSeq(CopyTo(cells, other), 1, stacks[other].size) = Elements(other)
    BY <1>1, CopiedElements
  <2>3. Contents' = AsSequences!With(s, Elements(other))
    BY <1>2, <2>2 DEF CopyTo
  <2> QED
    BY <1>1, <2>1, <2>3, CopiesAll
<1>3. CASE n # stacks[other].size
  <2>1. AsSequences!Answer("assign", s, "bad_alloc") /\ s # other
    BY <1>3 DEF CopyEnds
  <2> QED
    BY <1>3, <2>1, CopiesSome
<1> QED
  BY <1>2, <1>3

LEMMA CopyConstructs ==
    ASSUME StackInv, NEW s \in Stacks, NEW other \in Stacks, CopyConstruct(s, other)
    PROVE  AsSequences!Next
<1>1. /\ other \in live /\ live' = live \cup {s}
      /\ AsSequences!Answer(IF s \in live THEN "assign" ELSE "copy", s, "done")
  BY DEF CopyConstruct
<1>2. stacks[other].size \in Nat
  BY DEF StackInv, Records
<1>3. PICK b \in Unused :
          /\ heap' = Realloc(s, b, CopyTo(Blank(stacks[other].size), other))
          /\ stacks' = [stacks EXCEPT ![s] = [stacks[other] EXCEPT !.mem = b]]
  BY DEF CopyConstruct
<1> DEFINE r == [stacks[other] EXCEPT !.mem = b]
           cells == CopyTo(Blank(stacks[other].size), other)
<1>4. r.mem = b /\ r.size = stacks[other].size
  BY DEF StackInv, Records
<1>5. heap' = Realloc(s, b, cells) /\ stacks' = [stacks EXCEPT ![s] = r]
  BY <1>3
<1>6. Blank(stacks[other].size) \in Seq(Cells) /\ Len(Blank(stacks[other].size)) = stacks[other].size
  BY <1>2, BlankCells
<1>7. SubSeq(cells, 1, stacks[other].size) = Elements(other)
  BY <1>2, <1>6, CopiedElements
<1> HIDE DEF r, cells
<1>8. Contents' = AsSequences!With(s, SubSeq(cells, 1, r.size))
  BY <1>1, <1>4, <1>5, ContentInNewBlock
<1> QED
  BY <1>1, <1>4, <1>7, <1>8, CopiesAll

LEMMA AssignsToNewBlock ==
    ASSUME StackInv, NEW s \in Stacks, NEW other \in Stacks, AssignToNewBlock(s, other)
    PROVE  AsSequences!Next
<1>1. /\ other \in live /\ s \in live /\ live' = live /\ live' = live \cup {s}
      /\ stacks[other].capacity > stacks[s].capacity
  BY DEF AssignToNewBlock
<1>2. /\ stacks[other].size \in Nat /\ stacks[other].capacity \in Nat
      /\ stacks[other].size <= stacks[other].capacity /\ s # other
  BY <1>1 DEF StackInv, Records, Sound
<1>3. PICK b \in Unused, n \in 0..stacks[other].size :
          /\ AsSequences!Answer("assign", s, CopyEnds(n, other))
          /\ heap' = Realloc(s, b, CopyFirst(Blank(stacks[other].capacity), other, n))
          /\ stacks' = [stacks EXCEPT ![s] = [stacks[other] EXCEPT !.mem = b]]
  BY DEF AssignToNewBlock, NewLength
<1> DEFINE r == [stacks[other] EXCEPT !.mem = b]
           blank == Blank(stacks[other].capacity)
           cells == CopyFirst(blank, other, n)
<1>4. r.mem = b /\ r.size = stacks[other].size
  BY DEF StackInv, Records
<1>5. heap' = Realloc(s, b, cells) /\ stacks' = [stacks EXCEPT ![s] = r]
  BY <1>3
<1>6. /\ blank \in Seq(Cells) /\ stacks[other].size <= Len(blank)
      /\ \A k \in 1..Len(blank) : blank[k] = Unset
  BY <1>2, BlankCells DEF Blank
<1> HIDE DEF r, cells, blank
<1>7. Contents' = AsSequences!With(s, SubSeq(cells, 1, r.size))
  BY <1>1, <1>4, <1>5, ContentInNewBlock
<1>8. Contents' = AsSequences!With(s, SubSeq(CopyFirst(blank, other, n), 1, stacks[other].size))
  BY <1>4, <1>7 DEF cells
<1> QED
  BY <1>1, <1>2, <1>3, <1>6, <1>8, CopiesFirst

LEMMA AssignsToOwnBlock ==
    ASSUME StackInv, NEW s \in Stacks, NEW other \in Stacks, AssignToOwnBlock(s, other)
    PROVE  AsSequences!Next
<1>1. /\ other \in live /\ s \in live /\ live' = live /\ live' = live \cup {s}
      /\ stacks' = [stacks EXCEPT ![s].size = stacks[other].size]
      /\ stacks[other].size <= Len(Cell(s))
  BY DEF AssignToOwnBlock, Fits
<1>2. PICK n \in 0..stacks[other].size :
          /\ s = other => n = stacks[other].size
          /\ AsSequences!Answer("assign", s, CopyEnds(n, other))
          /\ heap' = IF stacks[s].mem = Null THEN heap
                     ELSE [heap EXCEPT ![stacks[s].mem] = CopyFirst(Cell(s), other, n)]
  BY DEF AssignToOwnBlock
<1>3. /\ Cell(s) \in Seq(Cells) /\ stacks[other].size \in Nat
      /\ \A k \in 1..stacks[s].size : Elements(s)[k] = Cell(s)[k]
  BY ElementsOf
<1>4. \A k \in 1..Len(Cell(s)) : k <= stacks[s].size => Cell(s)[k] = Elements(s)[k]
  BY <1>3, ElementsOf
<1>5. Contents' = AsSequences!With(s, Elements(s)')
  <2>1. \A b \in DOMAIN heap \ {stacks[s].mem} : heap'[b] = heap[b]
    BY <1>2
  <2> QED
    BY <1>1, <2>1, OneContent
<1>6. stacks'[s].mem = stacks[s].mem /\ stacks'[s].size = stacks[other].size
  BY <1>1 DEF StackInv, Records
<1>7. CASE stacks[s].mem = Null
  <2>1. stacks[other].size = 0
    BY <1>1, <1>3, <1>7 DEF Cell
  <2>2. Elements(s)' = SubSeq(Cell(s), 1, 0)'
    BY <1>6, <2>1 DEF Elements
  <2>3. SubSeq(Cell(s), 1, 0)' = << >>
    BY SubSeqEmpty
  <2>4. Elements(s)' = Elements(other)
    BY <2>1, <2>2, <2>3, NoElements
  <2>5. n = stacks[other].size
    BY <2>1
  <2>6. AsSequences!Answer("assign", s, "done")
    BY <1>2, <2>5 DEF CopyEnds
  <2> QED
    BY <1>1, <1>5, <2>4, <2>6, CopiesAll
<1>8. CASE stacks[s].mem # Null
  <2>1. stacks[s].mem \in DOMAIN heap
    BY <1>8 DEF StackInv, Sound
  <2>2. Cell(s)' = CopyFirst(Cell(s), other, n)
    BY <1>2, <1>6, <1>8, <2>1 DEF Cell
  <2>3. Contents' = AsSequences!With(s, SubSeq(CopyFirst(Cell(s), other, n), 1, stacks[other].size))
    BY <1>5, <1>6, <2>2 DEF Elements
  <2> QED
    BY <1>1, <1>2, <1>3, <1>4, <2>3, CopiesFirst
<1> QED
  BY <1>7, <1>8

LEMMA Moves ==
    ASSUME StackInv, NEW s \in Stacks, NEW other \in Stacks,
           MoveConstruct(s, other) \/ MoveAssign(s, other)
    PROVE  AsSequences!Next
<1>1. /\ other \in live /\ live' = live \cup {s} /\ heap' = heap
      /\ AsSequences!Answer(IF s \in live THEN "move assign" ELSE "move", s, "done")
  BY DEF MoveConstruct, MoveAssign
<1>2. \A t \in Stacks : stacks'[t] = stacks[t] => Elements(t)' = Elements(t)
  BY <1>1 DEF Elements, Cell
<1>3. \A t \in Stacks : stacks'[t] = Empty => Elements(t)' = << >>
  <2> TAKE t \in Stacks
  <2> HAVE stacks'[t] = Empty
  <2>1. Elements(t)' = SubSeq(Cell(t), 1, 0)'
    BY DEF Elements, Empty
  <2>2. SubSeq(Cell(t), 1, 0)' = << >>
    BY SubSeqEmpty
  <2> QED
    BY <2>1, <2>2
<1> DEFINE moved == IF s = other THEN Contents
                    ELSE [AsSequences!With(s, Contents[other]) EXCEPT ![other] = << >>]
<1>4. DOMAIN Contents = live /\ \A t \in live : Contents[t] = Elements(t)
  BY DEF Contents
<1>5. Contents' = [t \in live \cup {s} |-> Elements(t)']
  BY <1>1 DEF Contents
<1>6. Contents' = moved
  <2>1. CASE s # other /\ stacks' = Take(s, other)
    <3>1. /\ stacks'[s] = stacks[other] /\ stacks'[other] = Empty
          /\ \A t \in Stacks \ {s, other} : stacks'[t] = stacks[t]
      BY <2>1 DEF Take, StackInv
    <3>2. Elements(s)' = Elements(other)
      BY <1>1, <3>1 DEF Elements, Cell
    <3>3. \A t \in live \cup {s} : Elements(t)' =
             IF t = other THEN << >> ELSE IF t = s THEN Elements(other) ELSE Elements(t)
      BY <1>2, <1>3, <2>1, <3>1, <3>2 DEF StackInv
    <3>4. moved = [t \in live \cup {s} |->
             IF t = other THEN << >> ELSE IF t = s THEN Elements(other) ELSE Elements(t)]
      BY <1>1, <1>4, <2>1 DEF AsSequences!With
    <3> QED
      BY <1>5, <3>3, <3>4
  <2>2. CASE s \in live /\ stacks[s].mem = stacks[other].mem /\ stacks' = stacks
    <3>1. Contents' = Contents
      BY <1>1, <2>2 DEF Contents, Elements, Cell
    <3>2. CASE s # other
      <4>1. stacks[s].mem = Null /\ stacks[other].mem = Null
        BY <2>2, <3>2 DEF StackInv
      <4>2. stacks[s].size = 0 /\ stacks[other].size = 0
        BY <4>1 DEF StackInv, Sound, Records, Length
      <4>3. Contents[s] = << >> /\ Contents[other] = << >>
        BY <1>1, <1>4, <2>2, <4>2, NoElements
      <4>4. moved = Contents
        BY <1>1, <2>2, <3>2, <4>3 DEF AsSequences!With, Contents
      <4> QED
        BY <3>1, <4>4
    <3> QED
      BY <3>1, <3>2
  <2>3. MoveConstruct(s, other) => s # other /\ stacks' = Take(s, other)
    BY <1>1 DEF MoveConstruct
  <2>4. MoveAssign(s, other) =>
           \/ s # other /\ stacks' = Take(s, other)
           \/ s \in live /\ stacks[s].mem = stacks[other].mem /\ stacks' = stacks
    BY DEF MoveAssign
  <2> QED
    BY <2>1, <2>2, <2>3, <2>4
<1> HIDE DEF moved
<1>7. AsSequences!Move(s, other)
  BY <1>1, <1>4, <1>6 DEF AsSequences!Move, moved
<1> QED
  BY <1>1, <1>4, <1>7 DEF AsSequences!Next

LEMMA Swaps ==
    ASSUME StackInv, NEW s \in Stacks, NEW other \in Stacks, Swap(s, other)
    PROVE  AsSequences!Next
<1>1. /\ s \in live /\ other \in live /\ live' = live /\ heap' = heap
      /\ AsSequences!Answer("swap", s, "done")
  BY DEF Swap
<1>2. /\ stacks'[s] = stacks[other] /\ stacks'[other] = stacks[s]
      /\ \A t \in Stacks \ {s, other} : stacks'[t] = stacks[t]
  BY DEF Swap, StackInv
<1>3. \A t \in live : Elements(t)' =
         IF t = other THEN Elements(s) ELSE IF t = s THEN Elements(other) ELSE Elements(t)
  BY <1>1, <1>2 DEF Elements, Cell, StackInv
<1>4. Contents' = [Contents EXCEPT ![s] = Contents[other], ![other] = Contents[s]]
  BY <1>1, <1>3 DEF Contents
<1> QED
  BY <1>1, <1>4 DEF AsSequences!Next, AsSequences!Swap, Contents

LEMMA Destructs ==
    ASSUME StackInv, NEW s \in Stacks, Destruct(s)
    PROVE  AsSequences!Next
<1>1. s \in live /\ live' = live \ {s} /\ AsSequences!Answer("destruct", s, "done")
  BY DEF Destruct
<1>2. /\ \A t \in Stacks \ {s} : stacks'[t] = stacks[t]
      /\ \A b \in DOMAIN heap \ {stacks[s].mem} : heap'[b] = heap[b]
  BY DEF Destruct, StackInv
<1>3. \A t \in live \ {s} : Elements(t)' = Elements(t)
  BY <1>2, OthersKeepTheirElements DEF StackInv
<1>4. DOMAIN Contents = live /\ Contents' = [t \in DOMAIN Contents \ {s} |-> Contents[t]]
  BY <1>1, <1>3 DEF Contents
<1> QED
  BY <1>1, <1>4 DEF AsSequences!Next, AsSequences!Destruct

LEMMA Pops ==
    ASSUME StackInv, NEW s \in Stacks, Pop(s)
    PROVE  AsSequences!Next
<1>1. s \in live /\ live' = live /\ heap' = heap /\ AsSequences!Answer("pop", s, "done")
  BY DEF Pop
<1>2. /\ stacks[s].size > 0 /\ stacks[s].size \in Nat
      /\ stacks'[s].size = stacks[s].size - 1 /\ stacks'[s].mem = stacks[s].mem
      /\ stacks' = [stacks EXCEPT ![s].size = @ - 1]
  BY DEF Pop, StackInv, Records
<1>3. Cell(s)' = Cell(s)
  BY <1>1, <1>2 DEF Cell
<1>4. Elements(s)' = SubSeq(Cell(s), 1, stacks[s].size - 1)
  BY <1>2, <1>3 DEF Elements
<1>5. /\ Cell(s) \in Seq(Cells) /\ stacks[s].size <= Len(Cell(s))
      /\ Elements(s) \in Seq(Cells) /\ Len(Elements(s)) = stacks[s].size
      /\ \A k \in 1..stacks[s].size : Elements(s)[k] = Cell(s)[k]
  BY ElementsOf
<1>6. SubSeq(Cell(s), 1, stacks[s].size - 1) = SubSeq(Elements(s), 1, stacks[s].size - 1)
  <2> DEFINE n == stacks[s].size - 1
  <2>1. /\ n \in Nat /\ n <= Len(Cell(s)) /\ n <= Len(Elements(s))
        /\ \A k \in 1..n : Cell(s)[k] = Elements(s)[k]
    BY <1>2, <1>5
  <2> HIDE DEF n
  <2>2. SubSeq(Cell(s), 1, n) = SubSeq(Elements(s), 1, n)
    BY <1>5, <2>1, SamePrefix
  <2> QED
    BY <2>2 DEF n
<1>7. Contents' = AsSequences!With(s, Elements(s)')
  <2>1. live' = live \cup {s} /\ \A b \in DOMAIN heap \ {stacks[s].mem} : heap'[b] = heap[b]
    BY <1>1
  <2> QED
    BY <1>2, <2>1, OneContent
<1>8. Contents' = [Contents EXCEPT ![s] = SubSeq(Contents[s], 1, Len(Contents[s]) - 1)]
  BY <1>1, <1>4, <1>5, <1>6, <1>7, ContentsOf
<1> QED
  BY <1>1, <1>2, <1>8, ContentsOf DEF AsSequences!Next, AsSequences!Pop

(* The elements and one more.                                              *)
LEMMA OneElementMore ==
    ASSUME NEW c \in Seq(Cells), NEW n \in Nat, n < Len(c), NEW e \in Seq(Cells), Len(e) = n,
           \A k \in 1..n : c[k] = e[k], NEW v \in Cells
    PROVE  SubSeq([c EXCEPT ![n + 1] = v], 1, n + 1) = Append(e, v)
<1> DEFINE d == [c EXCEPT ![n + 1] = v]
<1>1. d \in Seq(Cells) /\ Len(d) = Len(c) /\ d[n + 1] = v /\ \A k \in 1..n : d[k] = c[k]
  OBVIOUS
<1>2. /\ Append(e, v) \in Seq(Cells) /\ Len(Append(e, v)) = n + 1
      /\ Append(e, v)[n + 1] = v /\ \A k \in 1..n : Append(e, v)[k] = e[k]
  OBVIOUS
<1> HIDE DEF d
<1>3. /\ SubSeq(d, 1, n + 1) \in Seq(Cells) /\ Len(SubSeq(d, 1, n + 1)) = n + 1
      /\ \A k \in 1..n + 1 : SubSeq(d, 1, n + 1)[k] = d[k]
  BY <1>1
<1>4. \A k \in 1..n + 1 : SubSeq(d, 1, n + 1)[k] = Append(e, v)[k]
  <2> TAKE k \in 1..n + 1
  <2>1. CASE k = n + 1
    BY <1>1, <1>2, <1>3, <2>1
  <2>2. CASE k \in 1..n
    BY <1>1, <1>2, <1>3, <2>2
  <2> QED
    BY <2>1, <2>2
<1>5. SubSeq(d, 1, n + 1) = Append(e, v)
  BY <1>2, <1>3, <1>4, SeqEqual
<1> QED
  BY <1>5 DEF d

LEMMA Pushes ==
    ASSUME StackInv, NEW s \in Stacks, NEW v \in Values, PushExpands(s, v) \/ PushInPlace(s, v)
    PROVE  AsSequences!Next
<1>1. s \in live /\ live' = live \cup {s}
  BY DEF PushExpands, PushInPlace
<1>2. /\ Cell(s) \in Seq(Cells) /\ stacks[s].size \in Nat /\ stacks[s].size <= Len(Cell(s))
      /\ Elements(s) \in Seq(Cells) /\ Len(Elements(s)) = stacks[s].size
      /\ \A k \in 1..stacks[s].size : Elements(s)[k] = Cell(s)[k]
  BY ElementsOf
<1>3. v \in Cells
  BY DEF Cells
<1>4. ASSUME NEW result \in {"done", "bad_alloc"}, NEW cells \in Seq(Cells), stacks[s].size < Len(cells),
             \A k \in 1..stacks[s].size : cells[k] = Elements(s)[k],
             Contents' = AsSequences!With(s,
                            SubSeq(Write(cells, stacks[s].size + 1, v, result), 1, stacks[s].size + 1)),
             AsSequences!Answer("push", s, result)
      PROVE  AsSequences!Next
  <2> DEFINE n == stacks[s].size
             e == Elements(s)
             w == IF result = "done" THEN v ELSE cells[n + 1]
  <2>1. w \in Cells
    BY <1>2, <1>3, <1>4
  <2>2. Write(cells, n + 1, v, result) = [cells EXCEPT ![n + 1] = w]
    <3>1. cells \in [1..Len(cells) -> Cells] /\ n + 1 \in 1..Len(cells)
      BY <1>2, <1>4
    <3>2. cells = [cells EXCEPT ![n + 1] = cells[n + 1]]
      BY <3>1
    <3> QED
      BY <3>2 DEF Write
  <2>3. SubSeq([cells EXCEPT ![n + 1] = w], 1, n + 1) = Append(e, w)
    <3>1. n \in Nat /\ n < Len(cells) /\ e \in Seq(Cells) /\ Len(e) = n
          /\ \A k \in 1..n : cells[k] = e[k]
      BY <1>2, <1>4
    <3> HIDE DEF n, e, w
    <3> QED
      BY <2>1, <3>1, OneElementMore
  <2>4. Contents' = AsSequences!With(s, Append(e, w))
    BY <1>4, <2>2, <2>3
  <2>5. Contents' = [Contents EXCEPT ![s] = Append(@, w)] /\ s \in DOMAIN Contents
    BY <1>1, <2>4 DEF Contents, AsSequences!With
  <2>6. CASE result = "done"
    BY <1>4, <2>5, <2>6 DEF AsSequences!Next, AsSequences!Push
  <2>7. CASE result = "bad_alloc"
    <3>1. w \in AsSequences!Cells
      BY <2>1 DEF AsSequences!Cells, Cells
    <3> HIDE DEF w
    <3>2. AsSequences!PushesNothing(s)
      BY <1>4, <2>5, <2>7, <3>1 DEF AsSequences!PushesNothing
    <3> QED
      BY <2>5, <3>2 DEF AsSequences!Next
  <2> QED
    BY <1>4, <2>6, <2>7
<1>5. ASSUME PushExpands(s, v) PROVE AsSequences!Next
  <2> DEFINE n == Expanded(s)
             copy == CopyTo(Blank(n), s)
  <2>1. PICK result \in {"done", "bad_alloc"} :
            /\ AsSequences!Answer("push", s, result)
            /\ Grow(s, n, Write(copy, stacks[s].size + 1, v, result), stacks[s].size + 1)
    BY <1>5 DEF PushExpands
  <2> DEFINE cells == Write(copy, stacks[s].size + 1, v, result)
  <2>2. PICK b \in Unused :
            /\ heap' = Realloc(s, b, cells)
            /\ stacks' = [stacks EXCEPT ![s] = [mem |-> b, capacity |-> n, size |-> stacks[s].size + 1]]
    BY <2>1 DEF Grow
  <2> DEFINE r == [mem |-> b, capacity |-> n, size |-> stacks[s].size + 1]
  <2>3. n \in Nat /\ stacks[s].size < n
    BY <1>5 DEF PushExpands, Full, Expanded, StackInv, Records, Sound
  <2> HIDE DEF n
  <2>4. Blank(n) \in Seq(Cells) /\ Len(Blank(n)) = n
    BY <2>3, BlankCells
  <2>5. copy \in Seq(Cells) /\ Len(copy) = n
    BY <2>4, CopiedCells
  <2>6. \A k \in 1..stacks[s].size : copy[k] = Elements(s)[k]
    BY <1>2, <2>3, <2>4 DEF CopyTo, CopyFirst
  <2> HIDE DEF copy
  <2>7. r.mem = b /\ r.size = stacks[s].size + 1
    OBVIOUS
  <2>8. heap' = Realloc(s, b, cells) /\ stacks' = [stacks EXCEPT ![s] = r]
    BY <2>2
  <2> HIDE DEF cells, r
  <2>9. Contents' = AsSequences!With(s, SubSeq(cells, 1, r.size))
    BY <1>1, <2>7, <2>8, ContentInNewBlock
  <2>10. Contents' = AsSequences!With(s,
                        SubSeq(Write(copy, stacks[s].size + 1, v, result), 1, stacks[s].size + 1))
    BY <2>7, <2>9 DEF cells
  <2> QED
    BY <1>4, <2>1, <2>3, <2>5, <2>6, <2>10
<1>6. ASSUME PushInPlace(s, v) PROVE AsSequences!Next
  <2>1. PICK result \in {"done", "bad_alloc"} :
            /\ AsSequences!Answer("push", s, result)
            /\ heap' = [heap EXCEPT ![stacks[s].mem] = Write(@, stacks[s].size + 1, v, result)]
    BY <1>6 DEF PushInPlace
  <2>2. /\ stacks[s].size < Len(Cell(s))
        /\ stacks' = [stacks EXCEPT ![s].size = @ + 1]
    BY <1>6 DEF PushInPlace
  <2>3. stacks[s].mem # Null
    BY <1>2, <2>2 DEF Cell
  <2>4. stacks[s].mem \in DOMAIN heap
    BY <2>3 DEF StackInv, Sound
  <2>5. stacks'[s].mem = stacks[s].mem /\ stacks'[s].size = stacks[s].size + 1
    BY <2>2 DEF StackInv, Records
  <2>6. Cell(s)' = Write(Cell(s), stacks[s].size + 1, v, result)
    BY <2>1, <2>3, <2>4, <2>5 DEF Cell
  <2>7. Elements(s)' = SubSeq(Write(Cell(s), stacks[s].size + 1, v, result), 1, stacks[s].size + 1)
    BY <2>5, <2>6 DEF Elements
  <2>8. \A b \in DOMAIN heap \ {stacks[s].mem} : heap'[b] = heap[b]
    BY <2>1
  <2>9. Contents' = AsSequences!With(s, Elements(s)')
    BY <1>1, <2>2, <2>8, OneContent
  <2>10. \A k \in 1..stacks[s].size : Cell(s)[k] = Elements(s)[k]
    BY <1>2
  <2> QED
    BY <1>2, <1>4, <2>1, <2>2, <2>7, <2>9, <2>10
<1> QED
  BY <1>5, <1>6

LEMMA Tops ==
    ASSUME StackInv, NEW s \in Stacks, Top(s)
    PROVE  AsSequences!Next
<1>1. /\ s \in live /\ stacks[s].size > 0 /\ Contents' = Contents
      /\ AsSequences!Answer("top", s, Cell(s)[stacks[s].size])
  BY DEF Top, Unchanged, Contents, Elements, Cell
<1>2. s \in DOMAIN Contents /\ Contents[s] # << >>
  BY <1>1, ContentsOf
<1>3. Cell(s)[stacks[s].size] = Contents[s][Len(Contents[s])]
  BY <1>1, ElementsOf, ContentsOf
<1> QED
  BY <1>1, <1>2, <1>3 DEF AsSequences!Next, AsSequences!Top

LEMMA Reserves ==
    ASSUME StackInv, NEW s \in Stacks, NEW n \in Lengths, Reserve(s, n)
    PROVE  AsSequences!Next
<1>1. s \in live /\ live' = live \cup {s} /\ AsSequences!Answer("reserve", s, "done")
  BY DEF Reserve
<1>2. CASE UNCHANGED <<stacks, heap>>
  <2>1. Contents' = Contents
    BY <1>1, <1>2 DEF Contents, Elements, Cell
  <2> QED
    BY <1>1, <2>1 DEF AsSequences!Next, AsSequences!Reserve, Contents
<1>3. ASSUME n > stacks[s].capacity, Grow(s, n, CopyTo(Blank(n), s), stacks[s].size)
      PROVE  AsSequences!Next
  <2> DEFINE cells == CopyTo(Blank(n), s)
  <2>1. PICK b \in Unused :
            /\ heap' = Realloc(s, b, cells)
            /\ stacks' = [stacks EXCEPT ![s] = [mem |-> b, capacity |-> n, size |-> stacks[s].size]]
    BY <1>3 DEF Grow
  <2> DEFINE r == [mem |-> b, capacity |-> n, size |-> stacks[s].size]
  <2>2. n \in Nat /\ stacks[s].size <= n /\ stacks[s].size \in Nat
    BY <1>3, StackAssumption DEF StackInv, Records, Sound
  <2>3. Blank(n) \in Seq(Cells) /\ Len(Blank(n)) = n
    BY <2>2, BlankCells
  <2>4. SubSeq(cells, 1, stacks[s].size) = Elements(s)
    BY <2>2, <2>3, CopiedElements
  <2>5. r.mem = b /\ r.size = stacks[s].size
    OBVIOUS
  <2>6. heap' = Realloc(s, b, cells) /\ stacks' = [stacks EXCEPT ![s] = r]
    BY <2>1
  <2> HIDE DEF cells, r
  <2>7. Contents' = AsSequences!With(s, SubSeq(cells, 1, r.size))
    BY <1>1, <2>5, <2>6, ContentInNewBlock
  <2>8. Contents' = Contents
    BY <1>1, <2>4, <2>5, <2>7 DEF AsSequences!With, Contents
  <2> QED
    BY <1>1, <2>8 DEF AsSequences!Next, AsSequences!Reserve, Contents
<1>4. n \in Nat /\ stacks[s].capacity \in Nat
  BY StackAssumption DEF StackInv, Records
<1>5. ~(n <= stacks[s].capacity) => n > stacks[s].capacity
  BY <1>4
<1> QED
  BY <1>2, <1>3, <1>5 DEF Reserve

LEMMA Throws ==
    ASSUME StackInv, NEW s \in Stacks,
           \/ EmptyThrows(s) \/ TooLong(s) \/ NoMemory(s) \/ GrowthThrows(s)
           \/ \E other \in Stacks : CopyConstructThrows(s, other)
    PROVE  AsSequences!Next
<1>1. Contents' = Contents
  <2>1. CASE Unchanged
    BY <2>1 DEF Unchanged, Contents, Elements, Cell
  <2>2. CASE UNCHANGED <<stacks, live>> /\ \E b \in Unused : \E cells : heap' = WithBlock(b, cells)
    <3>1. \A b \in DOMAIN heap : heap'[b] = heap[b]
      BY <2>2 DEF WithBlock, Unused
    <3>2. \A t \in Stacks : stacks[t].mem # Null => stacks[t].mem \in DOMAIN heap
      BY DEF StackInv, Sound
    <3>3. \A t \in live : Elements(t)' = Elements(t)
      BY <2>2, <3>1, <3>2 DEF Elements, Cell, StackInv
    <3> QED
      BY <2>2, <3>3 DEF Contents
  <2>3. EmptyThrows(s) \/ TooLong(s) \/ NoMemory(s) => Unchanged
    BY DEF EmptyThrows, TooLong, NoMemory, Throw
  <2>4. ASSUME GrowthThrows(s)
        PROVE  UNCHANGED <<stacks, live>> /\ \E b \in Unused : \E cells : heap' = WithBlock(b, cells)
    <3>1. UNCHANGED <<stacks, live>>
      BY <2>4 DEF GrowthThrows
    <3>2. \E b \in Unused : \E cells : heap' = WithBlock(b, cells)
      BY <2>4 DEF GrowthThrows
    <3> QED
      BY <3>1, <3>2
  <2>5. ASSUME NEW other \in Stacks, CopyConstructThrows(s, other)
        PROVE  UNCHANGED <<stacks, live>> /\ \E b \in Unused : \E cells : heap' = WithBlock(b, cells)
    BY <2>5 DEF CopyConstructThrows
  <2> QED
    BY <2>1, <2>2, <2>3, <2>4, <2>5
<1>2. ASSUME EmptyThrows(s) PROVE AsSequences!Throw(s)
  <2>1. s \in live /\ stacks[s].size = 0
        /\ \E call \in {"top", "pop"} : AsSequences!Answer(call, s, "logic_error")
    BY <1>2 DEF EmptyThrows, Throw
  <2>2. s \in DOMAIN Contents /\ Contents[s] = << >>
    BY <2>1, ContentsOf
  <2> QED
    BY <1>1, <2>1, <2>2 DEF AsSequences!Throw
<1>3. ASSUME s \in live, Full(s), Expanded(s) > MaxStackSize, Throw("push", s, "length_error")
      PROVE  AsSequences!Throw(s)
  <2>1. s \in DOMAIN Contents /\ Len(Contents[s]) = stacks[s].size
    BY <1>3, ContentsOf
  <2>2. 2 * stacks[s].size > MaxStackSize
    BY <1>3, StackAssumption DEF Full, Expanded, StackInv, Records, Sound
  <2>3. AsSequences!Answer("push", s, "length_error")
    BY <1>3 DEF Throw
  <2> QED
    BY <1>1, <2>1, <2>2, <2>3 DEF AsSequences!Throw
<1>4. ASSUME Throw(IF s \in live THEN "reserve" ELSE "construct", s, "length_error")
      PROVE  AsSequences!Throw(s)
  <2>1. \E call \in {"reserve", "construct"} : AsSequences!Answer(call, s, "length_error")
    BY <1>4 DEF Throw
  <2> QED
    BY <1>1, <2>1 DEF AsSequences!Throw
<1>5. ASSUME NoMemory(s) PROVE AsSequences!Throw(s)
  <2>1. \E call \in {"push", "reserve", "construct", "copy", "assign"} :
            AsSequences!Answer(call, s, "bad_alloc")
    BY <1>5 DEF NoMemory, Throw
  <2> QED
    BY <1>1, <2>1 DEF AsSequences!Throw
<1>6. TooLong(s) => AsSequences!Throw(s)
  BY <1>3, <1>4 DEF TooLong
<1>7. ASSUME GrowthThrows(s) \/ \E other \in Stacks : CopyConstructThrows(s, other)
      PROVE  AsSequences!Throw(s)
  <2>1. \E call \in {"push", "reserve", "construct", "copy", "assign"} :
            AsSequences!Answer(call, s, "bad_alloc")
    BY <1>7 DEF GrowthThrows, CopyConstructThrows
  <2> QED
    BY <1>1, <2>1 DEF AsSequences!Throw
<1> QED
  BY <1>2, <1>5, <1>6, <1>7 DEF AsSequences!Next

(* A write behind a block is the end of what the model says.               *)
LEMMA OverrunsSayNothing ==
    ASSUME NEW s \in Stacks, PushOverruns(s) \/ \E other \in Stacks : AssignOverruns(s, other)
    PROVE  UNCHANGED <<Contents, outcome>>
BY DEF PushOverruns, AssignOverruns, Overrun, Contents, Elements, Cell

(* The stacks are sequences that share nothing, whatever the number of     *)
(* stacks, their elements and the limit, until one has elements behind its *)
(* block: a call of theirs is a call of the sequences, and one that throws *)
(* changes none, except a push or an assignment of elements that cannot be *)
(* copied, which leaves what StackSpec says of it (stack.h:16-165).        *)
THEOREM ImplementsAStack == StackSpecification => IsAStack
<1>1. StackInit => AsSequences!Init
  <2> SUFFICES ASSUME StackInit PROVE AsSequences!Init
    OBVIOUS
  <2>1. Contents = << >>
    BY DEF StackInit, Contents
  <2> QED
    BY <2>1 DEF StackInit, AsSequences!Init
<1>2. StackInv /\ [StackNext]_stackVars => [AsSequences!Next]_(AsSequences!specVars)
  <2> SUFFICES ASSUME StackInv, [StackNext]_stackVars
               PROVE  AsSequences!Next \/ UNCHANGED <<Contents, outcome>>
    BY DEF AsSequences!specVars
  <2>1. CASE UNCHANGED stackVars
    BY <2>1 DEF stackVars, Contents, Elements, Cell
  <2>2. CASE StackNext
    <3>1. PICK s \in Stacks :
              \/ ConstructEmpty(s) \/ Destruct(s)
              \/ \E n \in Lengths : Construct(s, n) \/ Reserve(s, n)
              \/ \E other \in Stacks :
                    \/ CopyConstruct(s, other) \/ CopyConstructThrows(s, other)
                \/ MoveConstruct(s, other)
                    \/ AssignToNewBlock(s, other) \/ AssignToOwnBlock(s, other)
                    \/ AssignOverruns(s, other)
                    \/ MoveAssign(s, other) \/ Swap(s, other)
              \/ Top(s) \/ Pop(s)
              \/ \E v \in Values : PushExpands(s, v) \/ PushInPlace(s, v)
              \/ PushOverruns(s)
              \/ EmptyThrows(s) \/ TooLong(s) \/ NoMemory(s) \/ GrowthThrows(s)
      BY <2>2 DEF StackNext
    <3>2. CASE ConstructEmpty(s) \/ \E n \in Lengths : Construct(s, n)
      BY <3>2, Constructs
    <3>3. CASE Destruct(s)
      BY <3>3, Destructs
    <3>4. CASE \E n \in Lengths : Reserve(s, n)
      BY <3>4, Reserves
    <3>5. ASSUME NEW other \in Stacks,
                 \/ CopyConstruct(s, other) \/ AssignToNewBlock(s, other)
                 \/ AssignToOwnBlock(s, other)
          PROVE  AsSequences!Next
      BY <3>5, CopyConstructs, AssignsToNewBlock, AssignsToOwnBlock
    <3>6. ASSUME NEW other \in Stacks, MoveConstruct(s, other) \/ MoveAssign(s, other)
          PROVE  AsSequences!Next
      BY <3>6, Moves
    <3>7. ASSUME NEW other \in Stacks, Swap(s, other)
          PROVE  AsSequences!Next
      BY <3>7, Swaps
    <3>8. CASE PushOverruns(s) \/ \E other \in Stacks : AssignOverruns(s, other)
      BY <3>8, OverrunsSayNothing
    <3>9. CASE Top(s)
      BY <3>9, Tops
    <3>10. CASE Pop(s)
      BY <3>10, Pops
    <3>11. ASSUME NEW v \in Values, PushExpands(s, v) \/ PushInPlace(s, v)
           PROVE  AsSequences!Next
      BY <3>11, Pushes
    <3>12. CASE \/ EmptyThrows(s) \/ TooLong(s) \/ NoMemory(s) \/ GrowthThrows(s)
                \/ \E other \in Stacks : CopyConstructThrows(s, other)
      BY <3>12, Throws
    <3> QED
      BY <3>1, <3>2, <3>3, <3>4, <3>5, <3>6, <3>7, <3>8, <3>9, <3>10, <3>11, <3>12
  <2> QED
    BY <2>1, <2>2
<1> QED
  BY <1>1, <1>2, StackInvHolds, PTL DEF StackSpecification, IsAStack, AsSequences!Spec
=============================================================================
