--------------------------- MODULE PostfixCompilerProofs ---------------------------
(***************************************************************************)
(* The compiler never fails internally, for every set of expressions and   *)
(* for every function and variable storage: TypeOK and NoInternalError are *)
(* invariants of PostfixCompiler.  The inductive invariant is IInv of      *)
(* PostfixCompilerInv; each action has a lemma that it preserves IInv.     *)
(* The second part proves TypesMirrorCode, from IInv and TypingInv.        *)
(***************************************************************************)
EXTENDS PostfixCompilerInv, SequenceTheorems, FiniteSetTheorems, WellFoundedInduction, TLAPS

-----------------------------------------------------------------------------
(* Sequences: what the ends of a sequence are. *)

LEMMA FrontLast ==
    ASSUME NEW S, NEW s \in Seq(S), s # << >>
    PROVE  /\ Len(s) \in Nat /\ Len(s) >= 1
           /\ Last(s) \in S
           /\ Last(s) = s[Len(s)]
           /\ Front(s) \in Seq(S)
           /\ Len(Front(s)) = Len(s) - 1
           /\ \A k \in 1..(Len(s) - 1) : Front(s)[k] = s[k]
<1>1. Len(s) \in Nat /\ Len(s) >= 1
  BY EmptySeq, LenProperties
<1>2. Last(s) \in S /\ Last(s) = s[Len(s)]
  BY <1>1, ElementOfSeq DEF Last
<1>3. \A k \in 1..(Len(s) - 1) : s[k] \in S
  BY <1>1, ElementOfSeq
<1>4. DEFINE n == Len(s) - 1
<1>5. n \in Int /\ n = Len(s) - 1 /\ \A k \in 1..n : s[k] \in S
  BY <1>1, <1>3
<1> HIDE DEF n
<1>6. /\ SubSeq(s, 1, n) \in Seq(S)
      /\ Len(SubSeq(s, 1, n)) = IF 1 <= n THEN n - 1 + 1 ELSE 0
      /\ \A k \in 1..(n - 1 + 1) : SubSeq(s, 1, n)[k] = s[1 + k - 1]
  BY ONLY <1>5, SubSeqProperties
<1>7. Front(s) = SubSeq(s, 1, n)
  BY <1>5 DEF Front
<1>8. QED
  BY <1>1, <1>2, <1>5, <1>6, <1>7

LEMMA AppendFacts ==
    ASSUME NEW S, NEW s \in Seq(S), NEW e \in S
    PROVE  /\ Append(s, e) \in Seq(S)
           /\ Len(Append(s, e)) = Len(s) + 1
           /\ Append(s, e) # << >>
           /\ Last(Append(s, e)) = e
           /\ \A k \in 1..Len(s) : Append(s, e)[k] = s[k]
           /\ DOMAIN Append(s, e) = 1..(Len(s) + 1)
  BY LenProperties DEF Last

(* Lists of operations stay lists when a cast is inserted. *)
LEMMA InsertAtType ==
    ASSUME NEW S, NEW s \in Seq(S), NEW e \in S, NEW k \in 1..(Len(s) + 1)
    PROVE  InsertAt(s, k, e) \in Seq(S)
<1>1. Len(s) \in Nat /\ \A n \in 1..Len(s) : s[n] \in S
  BY LenProperties, ElementOfSeq
<1>2. SubSeq(s, 1, k - 1) \in Seq(S) /\ SubSeq(s, k, Len(s)) \in Seq(S)
  BY <1>1, SubSeqProperties
<1>3. <<e>> \in Seq(S)
  OBVIOUS
<1>4. QED
  BY <1>2, <1>3, ConcatProperties DEF InsertAt
-----------------------------------------------------------------------------
(* Counting members of a kind on the stack. *)

LEMMA CountNat ==
    ASSUME NEW s \in Seq(Members), NEW T
    PROVE  IsFiniteSet(Positions(s, T)) /\ Count(s, T) \in Nat
<1>1. Positions(s, T) \in SUBSET (1..Len(s))
  BY LenProperties DEF Positions
<1>2. 1 \in Int /\ Len(s) \in Int
  BY LenProperties
<1>3. IsFiniteSet(1..Len(s))
  BY <1>2, FS_Interval
<1>4. QED
  BY <1>1, <1>3, FS_Subset, FS_CardinalityType DEF Count

LEMMA CountAppend ==
    ASSUME NEW s \in Seq(Members), NEW T, NEW m \in Members
    PROVE  Count(Append(s, m), T) = Count(s, T) + (IF m.type \in T THEN 1 ELSE 0)
<1>1. CASE m.type \in T
  <2>1. Positions(Append(s, m), T) = Positions(s, T) \cup {Len(s) + 1}
    BY <1>1, LenProperties, AppendFacts DEF Positions
  <2>2. Len(s) + 1 \notin Positions(s, T)
    BY LenProperties DEF Positions
  <2>3. QED
    BY <1>1, <2>1, <2>2, CountNat, FS_AddElement DEF Count
<1>2. CASE m.type \notin T
  <2>1. Positions(Append(s, m), T) = Positions(s, T)
    BY <1>2, LenProperties, AppendFacts DEF Positions
  <2>2. QED
    BY <1>2, <2>1, CountNat DEF Count
<1>3. QED
  BY <1>1, <1>2

LEMMA CountFront ==
    ASSUME NEW s \in Seq(Members), NEW T, s # << >>
    PROVE  Count(s, T) = Count(Front(s), T) + (IF Last(s).type \in T THEN 1 ELSE 0)
<1>1. Front(s) \in Seq(Members) /\ Last(s) \in Members
  BY FrontLast
<1>2. s = Append(Front(s), Last(s))
  <2>1. Append(Front(s), Last(s)) \in Seq(Members) /\ Len(Append(Front(s), Last(s))) = Len(s)
    BY <1>1, FrontLast, AppendFacts
  <2>2. \A k \in 1..Len(s) : s[k] = Append(Front(s), Last(s))[k]
    BY <1>1, FrontLast, AppendFacts
  <2>3. QED
    BY <2>1, <2>2, SeqEqual
<1>3. Count(Append(Front(s), Last(s)), T)
        = Count(Front(s), T) + (IF Last(s).type \in T THEN 1 ELSE 0)
  BY <1>1, CountAppend
<1>4. Count(s, T) = Count(Append(Front(s), Last(s)), T)
  BY <1>2, Zenon
<1>5. QED
  BY <1>3, <1>4

LEMMA CountEmpty == \A T : Count(<< >>, T) = 0
<1>1. \A T : Positions(<< >>, T) = {}
  BY DEF Positions
<1>2. QED
  BY <1>1, FS_EmptySet DEF Count
-----------------------------------------------------------------------------
(* Counting the commas of the open blocks. *)

LEMMA CommaMarksMembers ==
    ASSUME NEW bs
    PROVE  \A x : x \in CommaMarks(bs) <=>
                    \E k \in DOMAIN bs : \E n \in 1..bs[k].commas : x = <<k, n>>
  BY DEF CommaMarks

LEMMA CommasNat ==
    ASSUME NEW bs \in Seq(Blocks)
    PROVE  IsFiniteSet(CommaMarks(bs)) /\ Commas(bs) \in Nat
<1> DEFINE marksOf == [k \in DOMAIN bs |-> {k} \X (1..bs[k].commas)]
           sets == {marksOf[k] : k \in DOMAIN bs}
<1>1. DOMAIN bs = 1..Len(bs) /\ 1 \in Int /\ Len(bs) \in Int
  BY LenProperties
<1>2. IsFiniteSet(DOMAIN bs)
  BY <1>1, FS_Interval
<1>3. marksOf \in Surjection(DOMAIN bs, sets)
  BY DEF Surjection
<1>4. IsFiniteSet(sets)
  BY <1>2, <1>3, FS_Surjection
<1>5. ASSUME NEW k \in DOMAIN bs
      PROVE  IsFiniteSet(marksOf[k])
  <2>0. bs[k] \in Blocks
    BY <1>1, ElementOfSeq
  <2>1. 1 \in Int /\ bs[k].commas \in Int
    BY <2>0 DEF Blocks
  <2>2. IsFiniteSet(1..bs[k].commas)
    BY <2>1, FS_Interval
  <2>3. IsFiniteSet({k})
    BY FS_Singleton
  <2>4. IsFiniteSet({k} \X (1..bs[k].commas))
    BY <2>2, <2>3, FS_Product
  <2>5. QED
    BY <2>4
<1>6. \A T \in sets : IsFiniteSet(T)
  BY <1>5
<1>7. IsFiniteSet(UNION sets)
  BY <1>4, <1>6, FS_UNION
<1>8. CommaMarks(bs) = UNION sets
  BY DEF CommaMarks
<1>9. QED
  BY <1>7, <1>8, FS_CardinalityType DEF Commas

(* A block just opened has no comma. *)
LEMMA CommasAppend ==
    ASSUME NEW bs \in Seq(Blocks), NEW b \in Blocks, b.commas = 0
    PROVE  Commas(Append(bs, b)) = Commas(bs)
<1> DEFINE more == Append(bs, b)
           last == Len(bs) + 1
<1>1. DOMAIN bs = 1..Len(bs) /\ Len(bs) \in Nat
  BY LenProperties
<1>2. /\ DOMAIN more = DOMAIN bs \cup {last}
      /\ \A k \in DOMAIN bs : more[k] = bs[k]
      /\ more[last].commas = 0
  BY <1>1, AppendFacts DEF Last
<1> HIDE DEF more, last
<1>3. ASSUME NEW x, x \in CommaMarks(more)
      PROVE  x \in CommaMarks(bs)
  <2>1. PICK k \in DOMAIN more : \E n \in 1..more[k].commas : x = <<k, n>>
    BY <1>3, CommaMarksMembers
  <2>2. k # last
    BY <1>2, <2>1
  <2>3. QED
    BY <1>2, <2>1, <2>2, CommaMarksMembers
<1>4. ASSUME NEW x, x \in CommaMarks(bs)
      PROVE  x \in CommaMarks(more)
  <2>1. PICK k \in DOMAIN bs : \E n \in 1..bs[k].commas : x = <<k, n>>
    BY <1>4, CommaMarksMembers
  <2>2. k \in DOMAIN more /\ more[k] = bs[k]
    BY <1>2
  <2>3. QED
    BY <2>1, <2>2, CommaMarksMembers
<1>5. CommaMarks(more) = CommaMarks(bs)
  BY <1>3, <1>4
<1>6. QED
  BY <1>5 DEF Commas, more

(* One more comma in the innermost block. *)
LEMMA CommasIncrement ==
    ASSUME NEW bs \in Seq(Blocks), bs # << >>
    PROVE  Commas([bs EXCEPT ![Len(bs)].commas = @ + 1]) = Commas(bs) + 1
<1> DEFINE last == Len(bs)
           more == [bs EXCEPT ![last].commas = @ + 1]
           mark == <<last, bs[last].commas + 1>>
<1>1. /\ DOMAIN bs = 1..last /\ last \in Nat /\ last \in DOMAIN bs
      /\ \A k \in DOMAIN bs : bs[k] \in Blocks
  BY LenProperties, EmptySeq, ElementOfSeq
<1>2. bs[last].commas \in Nat
  BY <1>1 DEF Blocks
<1>3. /\ DOMAIN more = DOMAIN bs
      /\ more[last].commas = bs[last].commas + 1
      /\ \A k \in DOMAIN bs \ {last} : more[k] = bs[k]
  BY <1>1 DEF Blocks
<1> HIDE DEF more, last
<1>4. mark \notin CommaMarks(bs)
  BY <1>2, CommaMarksMembers
<1>5. \A x : x \in CommaMarks(more) <=> x \in CommaMarks(bs) \cup {mark}
  <2>1. ASSUME NEW x, x \in CommaMarks(more)
        PROVE  x \in CommaMarks(bs) \cup {mark}
    <3>1. PICK k \in DOMAIN bs : \E n \in 1..more[k].commas : x = <<k, n>>
      BY <1>3, <2>1, CommaMarksMembers
    <3>2. CASE k = last
      BY <1>1, <1>2, <1>3, <3>1, <3>2, CommaMarksMembers
    <3>3. CASE k # last
      BY <1>3, <3>1, <3>3, CommaMarksMembers
    <3>4. QED
      BY <3>2, <3>3
  <2>2. ASSUME NEW x, x \in CommaMarks(bs)
        PROVE  x \in CommaMarks(more)
    <3>1. PICK k \in DOMAIN bs : \E n \in 1..bs[k].commas : x = <<k, n>>
      BY <2>2, CommaMarksMembers
    <3>2. CASE k = last
      BY <1>1, <1>2, <1>3, <3>1, <3>2, CommaMarksMembers
    <3>3. CASE k # last
      BY <1>3, <3>1, <3>3, CommaMarksMembers
    <3>4. QED
      BY <3>2, <3>3
  <2>3. mark \in CommaMarks(more)
    BY <1>1, <1>2, <1>3, CommaMarksMembers
  <2>4. QED
    BY <2>1, <2>2, <2>3
<1>6. CommaMarks(more) = CommaMarks(bs) \cup {mark}
  BY <1>5
<1>7. Commas(more) = Commas(bs) + 1
  <2>1. IsFiniteSet(CommaMarks(bs))
    BY CommasNat
  <2>2. Cardinality(CommaMarks(bs) \cup {mark}) = Cardinality(CommaMarks(bs)) + 1
    BY <1>4, <2>1, FS_AddElement
  <2>3. QED
    BY <1>6, <2>2 DEF Commas
<1>8. QED
  BY <1>7 DEF more, last

(* A closed block takes its commas with it. *)
LEMMA CommasFront ==
    ASSUME NEW bs \in Seq(Blocks), bs # << >>
    PROVE  Commas(bs) = Commas(Front(bs)) + Last(bs).commas
<1> DEFINE last == Len(bs)
           commas == Last(bs).commas
           marks == {last} \X (1..commas)
<1>1. /\ DOMAIN bs = 1..last /\ last \in Nat /\ last >= 1
      /\ Front(bs) \in Seq(Blocks) /\ DOMAIN Front(bs) = 1..(last - 1)
      /\ \A k \in 1..(last - 1) : Front(bs)[k] = bs[k]
      /\ Last(bs) \in Blocks /\ Last(bs) = bs[last]
  BY LenProperties, FrontLast
<1>2. commas \in Nat
  BY <1>1 DEF Blocks
<1>3. Cardinality(marks) = commas /\ IsFiniteSet(marks)
  <2>1. IsFiniteSet({last}) /\ Cardinality({last}) = 1
    BY FS_Singleton
  <2>2. IsFiniteSet(1..commas) /\ Cardinality(1..commas) = commas
    <3>1. 1 \in Int /\ commas \in Int
      BY <1>2
    <3>2. IsFiniteSet(1..commas) /\ Cardinality(1..commas) = IF 1 > commas THEN 0 ELSE commas - 1 + 1
      BY <3>1, FS_Interval
    <3>3. QED
      BY <1>2, <3>2
  <2>3. Cardinality(marks) = 1 * commas /\ IsFiniteSet(marks)
    BY <2>1, <2>2, FS_Product
  <2>4. QED
    BY <1>2, <2>3
<1> HIDE DEF last, commas
<1>4. \A x : x \in CommaMarks(bs) <=> x \in CommaMarks(Front(bs)) \cup marks
  <2>1. \A x : x \in marks <=> \E n \in 1..commas : x = <<last, n>>
    OBVIOUS
  <2>2. commas = bs[last].commas
    BY <1>1 DEF commas
  <2>3. ASSUME NEW x, x \in CommaMarks(bs)
        PROVE  x \in CommaMarks(Front(bs)) \cup marks
    <3>1. PICK k \in 1..last : \E n \in 1..bs[k].commas : x = <<k, n>>
      BY <1>1, <2>3, CommaMarksMembers
    <3>2. CASE k = last
      BY <2>1, <2>2, <3>1, <3>2
    <3>3. CASE k # last
      <4>1. k \in DOMAIN Front(bs) /\ Front(bs)[k] = bs[k]
        BY <1>1, <3>3
      <4>2. QED
        BY <3>1, <4>1, CommaMarksMembers
    <3>4. QED
      BY <3>2, <3>3
  <2>4. ASSUME NEW x, x \in CommaMarks(Front(bs))
        PROVE  x \in CommaMarks(bs)
    <3>1. PICK k \in 1..(last - 1) : \E n \in 1..Front(bs)[k].commas : x = <<k, n>>
      BY <1>1, <2>4, CommaMarksMembers
    <3>2. k \in DOMAIN bs /\ Front(bs)[k] = bs[k]
      BY <1>1
    <3>3. QED
      BY <3>1, <3>2, CommaMarksMembers
  <2>5. ASSUME NEW x, x \in marks
        PROVE  x \in CommaMarks(bs)
    <3>1. last \in DOMAIN bs
      BY <1>1
    <3>2. QED
      BY <2>1, <2>2, <2>5, <3>1, CommaMarksMembers
  <2>6. QED
    BY <2>3, <2>4, <2>5
<1>5. CommaMarks(bs) = CommaMarks(Front(bs)) \cup marks
  BY <1>4
<1>6. CommaMarks(Front(bs)) \cap marks = {}
  BY <1>1, CommaMarksMembers
<1>7. IsFiniteSet(CommaMarks(Front(bs))) /\ Commas(Front(bs)) \in Nat
  BY <1>1, CommasNat
<1>8. Commas(bs) = Commas(Front(bs)) + commas
  <2>1. Cardinality(CommaMarks(Front(bs)) \cup marks)
          = Cardinality(CommaMarks(Front(bs))) + Cardinality(marks) - Cardinality({})
    BY <1>3, <1>6, <1>7, FS_Union
  <2>2. Cardinality({}) = 0
    BY FS_EmptySet
  <2>3. QED
    BY <1>2, <1>3, <1>5, <1>7, <2>1, <2>2 DEF Commas
<1>9. QED
  BY <1>8 DEF commas
-----------------------------------------------------------------------------
(* What is found for a call fits the call. *)

LEMMA FoundFunction ==
    ASSUME NEW name, NEW argTypes \in Seq(DataTypes),
           NEW func \in FindFunction(Functions, name, argTypes)
    PROVE  /\ func \in FunctionInfo
           /\ Len(func.args) = Len(argTypes)
           /\ Castable(Functions, func, argTypes)
<1>1. PICK i \in Candidates(Functions, name, argTypes) : func = Functions.functions[i]
  BY DEF FindFunction
<1>2. Functions.functions \in Seq(FunctionInfo)
  BY ContextAssumption DEF IsFunctionStorage
<1>3. /\ i \in 1..Len(Functions.functions)
      /\ Len(Functions.functions[i].args) = Len(argTypes)
      /\ Castable(Functions, Functions.functions[i], argTypes)
  BY <1>2, LenProperties DEF Candidates
<1>4. QED
  BY <1>1, <1>2, <1>3, ElementOfSeq

(* The operation of a cast is one of the interpreter's. *)
LEMMA CastFunction ==
    ASSUME NEW func, NEW argTypes, Castable(Functions, func, argTypes),
           NEW j \in CastPositions(func, argTypes)
    PROVE  CastTo(Functions, argTypes[j], func.args[j]) \in FunctionIds
  BY ContextAssumption DEF Castable, CastTo, IsFunctionStorage

LEMMA ArgTypesSeq ==
    ASSUME NEW args \in Seq(Operands)
    PROVE  ArgTypes(args) \in Seq(DataTypes) /\ Len(ArgTypes(args)) = Len(args)
<1>1. DOMAIN args = 1..Len(args) /\ Len(args) \in Nat
  BY LenProperties
<1>2. \A k \in 1..Len(args) : args[k] \in Operands
  BY ElementOfSeq
<1>3. \A k \in 1..Len(args) : args[k].type \in DataTypes
  BY <1>2 DEF Operands
<1>4. QED
  BY <1>1, <1>3 DEF ArgTypes

-----------------------------------------------------------------------------
(* The tables of the compiler. *)

(* What a token becomes: the end of the input, and nothing else, becomes   *)
(* the member END.                                                         *)
LEMMA MemberTypeFacts ==
    ASSUME NEW token, NEW prev, NEW type \in MemberTypeOf(token, prev)
    PROVE  /\ type \in MemberTypes
           /\ type # "NONE"
           /\ type = "END" <=> token.type = "ENDOFFILE"
<1>1. CASE token.type = "ENDOFFILE"
  BY <1>1 DEF MemberTypeOf, MemberTypes, IsFunction, IsUnaryOperator, IsValue,
              UnaryOperators, BinaryOperators, ValueTokens
<1>2. CASE token.type \in {"LPAREN", "RPAREN", "COMMA"}
  BY <1>2 DEF MemberTypeOf, MemberTypes, IsFunction, IsUnaryOperator, IsValue,
              UnaryOperators, BinaryOperators, ValueTokens
<1>3. CASE token.type \notin {"ENDOFFILE", "LPAREN", "RPAREN", "COMMA"}
  <2>1. type \in {"FUNCCALL", "UNARYOP", "BINARYOP", "VALUE"}
    BY <1>3 DEF MemberTypeOf
  <2>2. QED
    BY <1>3, <2>1 DEF MemberTypes
<1>4. QED
  BY <1>1, <1>2, <1>3

(* A prefix operator is followed by an operand, or by the list of its      *)
(* arguments; an operand ends before what follows an operand.              *)
LEMMA ValidSequences ==
    ASSUME NEW before, NEW after, ValidateSeq(before, after)
    PROVE  /\ before \in PrefixOps => after \in {"VALUE", "FUNCCALL", "LPAREN"}
           /\ after \in AfterOperand => before \in {"VALUE", "RPAREN"}
  BY DEF ValidateSeq, ValidMemberSequences, PrefixOps, AfterOperand, OperandStart
-----------------------------------------------------------------------------
(* The inductive invariant. *)

(* What the compiler starts from: any tokens that end, and any context.    *)
Fresh ==
    /\ tokens \in Seq(Tokens) /\ tokens # << >> /\ Last(tokens).type = "ENDOFFILE"
    /\ members = << >> /\ memberIndex = 1
    /\ cur = [type |-> "NONE", index |-> 0]
    /\ stack = << >> /\ types = << >> /\ opList = << >>
    /\ blocks = <<[start |-> "NONE", commas |-> 0]>>
    /\ infos \in Seq(VariableInfo)
    /\ argCount = 0
    /\ call = NoCall
    /\ pc = "preprocess"

LEMMA FreshInv == Fresh => IInv
<1> SUFFICES ASSUME Fresh PROVE IInv
  OBVIOUS
<1>1. TypeOK
  BY EmptySeq DEF Fresh, TypeOK, Members, MemberTypes, Blocks
<1>2. pc \notin Failures /\ PhaseInv /\ CallInv
  BY DEF Fresh, Failures, Phase, PhaseInv, CallInv
<1>3. MembersInv
  BY LenProperties DEF Fresh, MembersInv, Outcomes, Failures
<1>4. StackInv
  BY DEF Fresh, StackInv, Phase
<1>5. BlocksInv
  BY CountEmpty DEF Fresh, BlocksInv, Closing, Phase
<1>6. OperandsInv
  <2>1. CommaMarks(blocks) = {}
    <3>a. blocks = <<[start |-> "NONE", commas |-> 0]>>
      BY DEF Fresh
    <3>b. DOMAIN blocks = {1} /\ blocks[1] = [start |-> "NONE", commas |-> 0]
      BY <3>a
    <3>c. blocks[1].commas = 0
      BY <3>b
    <3>1. \A k \in DOMAIN blocks : 1..blocks[k].commas = {}
      BY <3>b, <3>c
    <3>2. QED
      BY <3>1, CommaMarksMembers
  <2>2. Commas(blocks) = 0
    BY <2>1, FS_EmptySet DEF Commas
  <2>3. QED
    BY <2>2, CountEmpty DEF Fresh, OperandsInv, Available, Phase, Closing
<1>7. QED
  BY <1>1, <1>2, <1>3, <1>4, <1>5, <1>6 DEF IInv

LEMMA InitInv == Init => IInv
<1>1. Init => Fresh
  BY InputsAssumption, ContextAssumption DEF Init, Fresh
<1>2. QED
  BY <1>1, FreshInv

LEMMA PreprocessStep ==
    ASSUME IInv, Preprocess
    PROVE  IInv'
<1>1. TypeOK'
  <2>1. PICK type \in MemberTypeOf(tokens[Len(members) + 1], PrevMemberType) :
          members' = Append(members, [type |-> type, index |-> Len(members) + 1])
    BY DEF Preprocess
  <2>2. type \in MemberTypes /\ members \in Seq(Members) /\ Len(members) \in Nat
    BY MemberTypeFacts, LenProperties DEF IInv, TypeOK
  <2>3. [type |-> type, index |-> Len(members) + 1] \in Members
    BY <2>2 DEF Members
  <2>4. members' \in Seq(Members)
    BY <2>1, <2>2, <2>3, AppendFacts
  <2>5. QED
    BY <2>4 DEF IInv, Preprocess, TypeOK
<1>2. pc' \notin Failures
  BY DEF IInv, Preprocess, TypeOK, Failures, Outcomes, Loops
<1>3. MembersInv'
  <2>1. PICK type \in MemberTypeOf(tokens[Len(members) + 1], PrevMemberType) :
          members' = Append(members, [type |-> type, index |-> Len(members) + 1])
    BY DEF Preprocess
  <2>2. /\ type \in MemberTypes /\ type # "NONE"
        /\ type = "END" <=> tokens[Len(members) + 1].type = "ENDOFFILE"
    BY MemberTypeFacts
  <2>3. members \in Seq(Members) /\ DOMAIN members = 1..Len(members)
        /\ Len(members) \in Nat /\ Len(tokens) \in Nat
    BY LenProperties DEF IInv, TypeOK
  <2>4. [type |-> type, index |-> Len(members) + 1] \in Members
    BY <2>2, <2>3 DEF Members
  <2>5. /\ Len(members') = Len(members) + 1
        /\ DOMAIN members' = 1..(Len(members) + 1)
        /\ \A k \in 1..Len(members) : members'[k] = members[k]
        /\ members'[Len(members) + 1] = [type |-> type, index |-> Len(members) + 1]
    BY <2>1, <2>3, <2>4, AppendFacts DEF Last
  <2>6. \A k \in DOMAIN members' :
           /\ members'[k].type = "END" <=> tokens[k].type = "ENDOFFILE"
           /\ members'[k].type # "NONE"
           /\ members'[k].index = k
    BY <2>2, <2>3, <2>5 DEF IInv, MembersInv
  <2>7. QED
    BY <2>3, <2>5, <2>6 DEF IInv, MembersInv, Preprocess, Outcomes, Failures
<1>4. PhaseInv'
  BY DEF IInv, Preprocess, TypeOK, PhaseInv, Phase, Outcomes, Failures, Loops, Calls, CallInv, PrefixOps
<1>5. StackInv'
  BY DEF IInv, Preprocess, TypeOK, StackInv, PhaseInv, Phase, TopIsPrefixOp, TopIsOneOf, PrefixOps,
         Outcomes, Failures, Loops
<1>6. CallInv'
  BY DEF IInv, Preprocess, TypeOK, CallInv, Loops, Outcomes, Failures
<1>7. BlocksInv'
  BY DEF IInv, Preprocess, TypeOK, BlocksInv, PhaseInv, Closing, Phase, Running, Outcomes,
         Failures, Loops
<1>8. OperandsInv'
  BY DEF IInv, Preprocess, TypeOK, OperandsInv, PhaseInv, Closing, Phase, Running, Available,
         Outcomes, Failures, Loops, AfterOperand
<1>9. QED
  BY <1>1, <1>2, <1>3, <1>4, <1>5, <1>6, <1>7, <1>8 DEF IInv

LEMMA PreprocessRejectsStep ==
    ASSUME IInv, PreprocessRejects
    PROVE  IInv'
<1>1. TypeOK'
  BY DEF IInv, PreprocessRejects, TypeOK, Members, MemberTypes, Blocks, Operands, Ops, Outcomes, Failures, Loops
<1>2. pc' \notin Failures
  BY DEF IInv, PreprocessRejects, TypeOK, Failures, Outcomes, Loops
<1>3. MembersInv'
  BY DEF IInv, PreprocessRejects, TypeOK, MembersInv, PhaseInv, Outcomes, Failures, Loops, Phase, Calls
<1>4. PhaseInv'
  BY DEF IInv, PreprocessRejects, TypeOK, PhaseInv, Phase, Outcomes, Failures, Loops, Calls, CallInv, PrefixOps
<1>5. StackInv'
  BY DEF IInv, PreprocessRejects, TypeOK, StackInv, PhaseInv, Phase, TopIsPrefixOp, TopIsOneOf, PrefixOps,
         Outcomes, Failures, Loops
<1>6. CallInv'
  BY DEF IInv, PreprocessRejects, TypeOK, CallInv, Loops, Outcomes, Failures
<1>7. BlocksInv'
  BY DEF IInv, PreprocessRejects, TypeOK, BlocksInv, PhaseInv, Closing, Phase, Running, Outcomes,
         Failures, Loops
<1>8. OperandsInv'
  BY DEF IInv, PreprocessRejects, TypeOK, OperandsInv, PhaseInv, Closing, Phase, Running, Available,
         Outcomes, Failures, Loops, AfterOperand
<1>9. QED
  BY <1>1, <1>2, <1>3, <1>4, <1>5, <1>6, <1>7, <1>8 DEF IInv

LEMMA PreprocessEndsStep ==
    ASSUME IInv, PreprocessEnds
    PROVE  IInv'
<1>1. TypeOK'
  BY DEF IInv, PreprocessEnds, TypeOK, Members, MemberTypes, Blocks, Operands, Ops, Outcomes, Failures, Loops
<1>2. pc' \notin Failures
  BY DEF IInv, PreprocessEnds, TypeOK, Failures, Outcomes, Loops
<1>3. MembersInv'
  BY DEF IInv, PreprocessEnds, TypeOK, MembersInv, PhaseInv, Outcomes, Failures, Loops, Phase, Calls
<1>4. PhaseInv'
  BY DEF IInv, PreprocessEnds, MembersInv, PhaseInv, Phase
<1>5. StackInv'
  BY DEF IInv, PreprocessEnds, TypeOK, StackInv, PhaseInv, Phase, TopIsPrefixOp, TopIsOneOf, PrefixOps,
         Outcomes, Failures, Loops
<1>6. CallInv'
  BY DEF IInv, PreprocessEnds, TypeOK, CallInv, Loops, Outcomes, Failures
<1>7. BlocksInv'
  BY DEF IInv, PreprocessEnds, TypeOK, BlocksInv, PhaseInv, Closing, Phase, Running, Outcomes,
         Failures, Loops
<1>8. OperandsInv'
  BY DEF IInv, PreprocessEnds, TypeOK, MembersInv, OperandsInv, Available, Phase,
         Closing, Running, Outcomes, Failures, AfterOperand
<1>9. QED
  BY <1>1, <1>2, <1>3, <1>4, <1>5, <1>6, <1>7, <1>8 DEF IInv

(* nextTok is never called behind the last member, which is END. *)
LEMMA NextMember ==
    ASSUME IInv, pc = "nextTok"
    PROVE  /\ memberIndex \in DOMAIN members
           /\ members[memberIndex] \in Members
           /\ members[memberIndex].type # "NONE"
<1>1. /\ tokens \in Seq(Tokens) /\ tokens # << >> /\ Last(tokens).type = "ENDOFFILE"
      /\ members \in Seq(Members) /\ Len(members) = Len(tokens)
      /\ memberIndex \in 1..(Len(members) + 1)
  BY InputsAssumption DEF IInv, TypeOK, MembersInv, Outcomes, Failures
<1>2. Len(tokens) \in Nat /\ Len(tokens) >= 1 /\ Last(tokens) = tokens[Len(tokens)]
      /\ DOMAIN members = 1..Len(tokens)
  BY <1>1, FrontLast, LenProperties
<1>3. memberIndex # Len(members) + 1
  <2>1. SUFFICES ASSUME memberIndex = Len(members) + 1 PROVE FALSE
    OBVIOUS
  <2>2. memberIndex > 1 /\ memberIndex - 1 = Len(members)
    BY <1>1, <1>2, <2>1
  <2>3. cur = members[Len(members)]
    BY <2>2 DEF IInv, MembersInv
  <2>4. cur.type = "END"
    BY <1>1, <1>2, <2>3 DEF IInv, MembersInv
  <2>5. QED
    BY <2>4 DEF IInv, PhaseInv
<1>4. memberIndex \in 1..Len(members)
  BY <1>1, <1>2, <1>3
<1>5. QED
  BY <1>1, <1>2, <1>4, ElementOfSeq DEF IInv, MembersInv

LEMMA NextTokStep ==
    ASSUME IInv, NextTok
    PROVE  IInv'
<1>1. TypeOK'
  <2>1. cur' \in Members
    BY NextMember DEF NextTok
  <2>2. memberIndex' \in Nat
    <3>1. memberIndex \in Nat
      BY DEF IInv, TypeOK
    <3>2. memberIndex' = memberIndex + 1
      BY DEF NextTok
    <3>3. QED
      BY <3>1, <3>2
  <2>3. pc' \in {"dispatch", "syntax error"}
    BY DEF NextTok
  <2>4. QED
    BY <2>1, <2>2, <2>3 DEF IInv, NextTok, TypeOK, Outcomes
<1>2. pc' \notin Failures
  BY DEF IInv, NextTok, TypeOK, Failures, Outcomes, Loops
<1>3. MembersInv'
  <2>1. /\ memberIndex \in DOMAIN members /\ members[memberIndex].type # "NONE"
        /\ members \in Seq(Members) /\ pc = "nextTok"
    BY NextMember DEF IInv, TypeOK, NextTok
  <2>2. DOMAIN members = 1..Len(members) /\ Len(members) \in Nat
    BY <2>1, LenProperties
  <2>3. memberIndex' \in 1..(Len(members) + 1) /\ memberIndex' > 1
        /\ memberIndex' - 1 = memberIndex
    <3>1. memberIndex' = memberIndex + 1
      BY DEF NextTok
    <3>2. memberIndex \in 1..Len(members)
      BY <2>1, <2>2
    <3>3. QED
      BY <2>2, <3>1, <3>2
  <2>4. cur' = members'[memberIndex' - 1] /\ members' = members /\ tokens' = tokens
        /\ pc' \in {"dispatch", "syntax error"}
    BY <2>3 DEF NextTok
  <2>5. Len(members) = Len(tokens)
    BY <2>1 DEF IInv, MembersInv, Outcomes, Failures
  <2>6. memberIndex' # 1
    BY <2>2, <2>3
  <2>7. QED
    BY <2>3, <2>4, <2>5, <2>6 DEF IInv, MembersInv
<1>4. PhaseInv'
  BY DEF IInv, NextTok, TypeOK, PhaseInv, Phase, Outcomes, Failures, Loops, Calls, CallInv, PrefixOps
<1>5. StackInv'
  <2>1. pc' = "dispatch" \/ pc' = "syntax error"
    BY DEF NextTok
  <2>2. ASSUME pc' = "dispatch", TopIsPrefixOp
        PROVE  cur'.type \in {"VALUE", "FUNCCALL", "LPAREN"}
    <3>1. cur.type \in PrefixOps
      BY <2>2 DEF IInv, StackInv, NextTok
    <3>2. ValidateSeq(cur.type, cur'.type)
      BY <2>2 DEF NextTok
    <3>3. QED
      BY <3>1, <3>2, ValidSequences
  <2>3. TopIsPrefixOp' <=> TopIsPrefixOp
    BY DEF NextTok, TopIsPrefixOp, TopIsOneOf
  <2>4. stack' = stack
    BY DEF NextTok
  <2>5. QED
    BY <2>1, <2>2, <2>3, <2>4 DEF IInv, StackInv, Phase
<1>6. CallInv'
  BY DEF IInv, NextTok, TypeOK, CallInv, Loops, Outcomes, Failures
<1>7. BlocksInv'
  BY DEF IInv, NextTok, TypeOK, BlocksInv, PhaseInv, Closing, Phase, Running, Outcomes,
         Failures, Loops
<1>8. OperandsInv'
  <2>1. pc = "nextTok" /\ (pc' = "dispatch" \/ pc' = "syntax error")
    BY DEF NextTok
  <2>2. Running /\ pc # "casts" /\ pc' # "casts"
    BY <2>1 DEF Running, Outcomes, Failures
  <2>3. ASSUME NEW n, Available(n)
        PROVE  Available(n)'
    BY <2>2, <2>3 DEF Available, NextTok
  <2>4. ASSUME pc' = "dispatch", cur'.type \in AfterOperand
        PROVE  Available(1)
    <3>1. ValidateSeq(cur.type, cur'.type)
      BY <2>4 DEF NextTok
    <3>2. cur.type \in {"VALUE", "RPAREN"}
      BY <2>4, <3>1, ValidSequences
    <3>3. QED
      BY <2>1, <3>2 DEF IInv, OperandsInv
  <2>5. QED
    BY <2>1, <2>2, <2>3, <2>4 DEF IInv, OperandsInv, Phase, Closing, Running
<1>9. QED
  BY <1>1, <1>2, <1>3, <1>4, <1>5, <1>6, <1>7, <1>8 DEF IInv

LEMMA OpenNewBlockStep ==
    ASSUME IInv, OpenNewBlock
    PROVE  IInv'
<1>a. stack \in Seq(Members) /\ cur \in Members /\ stack' = Append(stack, cur)
  BY DEF IInv, OpenNewBlock, TypeOK
<1>b. /\ stack' \in Seq(Members)
      /\ Len(stack') = Len(stack) + 1 /\ Len(stack) \in Nat
      /\ DOMAIN stack' = 1..(Len(stack) + 1) /\ DOMAIN stack = 1..Len(stack)
      /\ stack' # << >> /\ Last(stack') = cur /\ stack'[Len(stack) + 1] = cur
      /\ \A k \in 1..Len(stack) : stack'[k] = stack[k]
  BY <1>a, AppendFacts, LenProperties DEF Last
<1>c. \A T : Count(stack', T) = Count(stack, T) + (IF cur.type \in T THEN 1 ELSE 0)
  BY <1>a, CountAppend
<1> DEFINE block == [start |-> "LPAREN", commas |-> 0]
<1>d. block \in Blocks /\ blocks \in Seq(Blocks) /\ blocks' = Append(blocks, block)
  BY DEF IInv, OpenNewBlock, TypeOK, Blocks
<1>e. /\ blocks' \in Seq(Blocks) /\ Len(blocks) \in Nat
      /\ Len(blocks') = Len(blocks) + 1 /\ blocks' # << >>
      /\ DOMAIN blocks' = 1..(Len(blocks) + 1) /\ DOMAIN blocks = 1..Len(blocks)
      /\ \A k \in 1..Len(blocks) : blocks'[k] = blocks[k]
      /\ blocks'[Len(blocks) + 1] = block
  BY <1>d, AppendFacts, LenProperties DEF Last
<1>f. Commas(blocks') = Commas(blocks)
  <2>1. block.commas = 0
    OBVIOUS
  <2>2. QED
    BY <1>d, <2>1, CommasAppend
<1>1. TypeOK'
  BY <1>b, <1>e DEF IInv, OpenNewBlock, TypeOK
<1>2. pc' \notin Failures
  BY DEF IInv, OpenNewBlock, TypeOK, Failures, Outcomes, Loops
<1>3. MembersInv'
  BY DEF IInv, OpenNewBlock, TypeOK, MembersInv, PhaseInv, Outcomes, Failures, Loops, Phase, Calls
<1>4. PhaseInv'
  BY DEF IInv, OpenNewBlock, TypeOK, PhaseInv, Phase, Outcomes, Failures, Loops, Calls, CallInv, PrefixOps
<1>5. StackInv'
  BY <1>a, <1>b DEF IInv, OpenNewBlock, StackInv, Phase, TopIsPrefixOp, TopIsOneOf, PrefixOps
<1>6. CallInv'
  BY DEF IInv, OpenNewBlock, TypeOK, CallInv, Loops, Outcomes, Failures
<1>7. BlocksInv'
  <2>1. Count(stack', {"LPAREN"}) = Count(stack, {"LPAREN"}) + 1
    BY <1>c DEF OpenNewBlock
  <2>2. Count(stack, {"LPAREN"}) = Len(blocks) - 1 /\ blocks # << >>
    BY DEF IInv, OpenNewBlock, BlocksInv, Running, Closing, Phase, Outcomes, Failures
  <2>3. \A k \in DOMAIN blocks' : blocks'[k].start = IF k = 1 THEN "NONE" ELSE "LPAREN"
    <3>1. blocks'[Len(blocks) + 1].start = "LPAREN" /\ Len(blocks) + 1 # 1
      <4>1. Len(blocks) # 0
        BY <1>d, <2>2, EmptySeq
      <4>2. QED
        BY <1>e, <4>1
    <3>2. QED
      BY <1>e, <3>1 DEF IInv, BlocksInv
  <2>4. pc' = "nextTok"
    BY DEF OpenNewBlock
  <2>5. QED
    BY <1>e, <2>1, <2>2, <2>3, <2>4 DEF BlocksInv, Closing, Phase
<1>8. OperandsInv'
  <2>1. Count(stack', {"BINARYOP"}) = Count(stack, {"BINARYOP"})
    BY <1>a, <1>c, CountNat DEF OpenNewBlock
  <2>2. Available(0)
    BY DEF IInv, OpenNewBlock, OperandsInv, Running, Outcomes, Failures
  <2>3. Available(0)'
    BY <1>f, <2>1, <2>2 DEF Available, OpenNewBlock
  <2>4. pc' = "nextTok" /\ cur' = cur /\ cur.type = "LPAREN"
    BY DEF OpenNewBlock
  <2>5. QED
    BY <2>3, <2>4 DEF OperandsInv, Phase, Closing
<1>9. QED
  BY <1>1, <1>2, <1>3, <1>4, <1>5, <1>6, <1>7, <1>8 DEF IInv

LEMMA AddUnaryOpStep ==
    ASSUME IInv, AddUnaryOp
    PROVE  IInv'
<1>a. stack \in Seq(Members) /\ cur \in Members /\ stack' = Append(stack, cur)
  BY DEF IInv, AddUnaryOp, TypeOK
<1>b. /\ stack' \in Seq(Members)
      /\ Len(stack') = Len(stack) + 1 /\ Len(stack) \in Nat
      /\ DOMAIN stack' = 1..(Len(stack) + 1) /\ DOMAIN stack = 1..Len(stack)
      /\ stack' # << >> /\ Last(stack') = cur /\ stack'[Len(stack) + 1] = cur
      /\ \A k \in 1..Len(stack) : stack'[k] = stack[k]
  BY <1>a, AppendFacts, LenProperties DEF Last
<1>c. \A T : Count(stack', T) = Count(stack, T) + (IF cur.type \in T THEN 1 ELSE 0)
  BY <1>a, CountAppend
<1>1. TypeOK'
  BY <1>b DEF IInv, AddUnaryOp, TypeOK
<1>2. pc' \notin Failures
  BY DEF IInv, AddUnaryOp, TypeOK, Failures, Outcomes, Loops
<1>3. MembersInv'
  BY DEF IInv, AddUnaryOp, TypeOK, MembersInv, PhaseInv, Outcomes, Failures, Loops, Phase, Calls
<1>4. PhaseInv'
  BY DEF IInv, AddUnaryOp, TypeOK, PhaseInv, Phase, Outcomes, Failures, Loops, Calls, CallInv, PrefixOps
<1>5. StackInv'
  <2>1. cur' = cur /\ pc' = "nextTok" /\ cur.type \in PrefixOps /\ pc = "dispatch"
    BY DEF AddUnaryOp
  <2>2. \A k \in DOMAIN stack' : stack'[k].type \in {"BINARYOP", "LPAREN"} \cup PrefixOps
    BY <1>b, <2>1 DEF IInv, StackInv
  <2>3. ASSUME NEW k \in DOMAIN stack', k < Len(stack'), stack'[k].type \in PrefixOps
        PROVE  stack'[k + 1].type \in {"FUNCCALL", "LPAREN"}
    <3>1. k \in 1..Len(stack) /\ stack'[k] = stack[k]
      BY <1>b, <2>3
    <3>2. CASE k < Len(stack)
      <4>1. k + 1 \in 1..Len(stack)
        BY <1>b, <3>1, <3>2
      <4>2. QED
        BY <1>b, <2>3, <3>1, <3>2, <4>1 DEF IInv, StackInv
    <3>3. CASE k = Len(stack)
      <4>a. stack # << >>
        BY <1>b, <3>1, EmptySeq
      <4>1. stack # << >> /\ Last(stack) = stack[k]
        BY <1>a, <3>3, <4>a, FrontLast
      <4>2. TopIsPrefixOp
        BY <2>3, <3>1, <4>1 DEF TopIsPrefixOp, TopIsOneOf
      <4>3. cur.type = "FUNCCALL"
        BY <2>1, <4>2 DEF IInv, StackInv, PrefixOps
      <4>4. QED
        BY <1>b, <3>3, <4>3
    <3>4. QED
      BY <1>b, <3>1, <3>2, <3>3
  <2>4. QED
    BY <2>1, <2>2, <2>3 DEF StackInv, Phase
<1>6. CallInv'
  BY DEF IInv, AddUnaryOp, TypeOK, CallInv, Loops, Outcomes, Failures
<1>7. BlocksInv'
  <2>1. Count(stack', {"LPAREN"}) = Count(stack, {"LPAREN"})
    BY <1>a, <1>c, CountNat DEF AddUnaryOp, PrefixOps
  <2>2. QED
    BY <2>1 DEF IInv, AddUnaryOp, BlocksInv, Running, Closing, Phase, Outcomes, Failures
<1>8. OperandsInv'
  <2>1. Count(stack', {"BINARYOP"}) = Count(stack, {"BINARYOP"})
    BY <1>a, <1>c, CountNat DEF AddUnaryOp, PrefixOps
  <2>2. Available(0)
    BY DEF IInv, AddUnaryOp, OperandsInv, Running, Outcomes, Failures
  <2>3. Available(0)'
    BY <2>1, <2>2 DEF Available, AddUnaryOp
  <2>4. pc' = "nextTok" /\ cur' = cur /\ cur.type \in {"UNARYOP", "FUNCCALL"}
    BY DEF AddUnaryOp, PrefixOps
  <2>5. QED
    BY <2>3, <2>4 DEF OperandsInv, Phase, Closing
<1>9. QED
  BY <1>1, <1>2, <1>3, <1>4, <1>5, <1>6, <1>7, <1>8 DEF IInv

LEMMA AddBinaryOpStep ==
    ASSUME IInv, AddBinaryOp
    PROVE  IInv'
<1>1. TypeOK'
  BY DEF IInv, AddBinaryOp, TypeOK, Members, MemberTypes, Blocks, Operands, Ops, Outcomes, Failures, Loops
<1>2. pc' \notin Failures
  BY DEF IInv, AddBinaryOp, TypeOK, Failures, Outcomes, Loops
<1>3. MembersInv'
  BY DEF IInv, AddBinaryOp, TypeOK, MembersInv, PhaseInv, Outcomes, Failures, Loops, Phase, Calls
<1>4. PhaseInv'
  BY DEF IInv, AddBinaryOp, TypeOK, PhaseInv, Phase, Outcomes, Failures, Loops, Calls, CallInv, PrefixOps
<1>5. StackInv'
  BY DEF IInv, AddBinaryOp, TypeOK, StackInv, PhaseInv, Phase, TopIsPrefixOp, TopIsOneOf, PrefixOps,
         Outcomes, Failures, Loops
<1>6. CallInv'
  BY DEF IInv, AddBinaryOp, TypeOK, CallInv, Loops, Outcomes, Failures
<1>7. BlocksInv'
  BY DEF IInv, AddBinaryOp, TypeOK, BlocksInv, PhaseInv, Closing, Phase, Running, Outcomes,
         Failures, Loops
<1>8. OperandsInv'
  BY DEF IInv, AddBinaryOp, TypeOK, OperandsInv, PhaseInv, Closing, Phase, Running, Available,
         Outcomes, Failures, Loops, AfterOperand
<1>9. QED
  BY <1>1, <1>2, <1>3, <1>4, <1>5, <1>6, <1>7, <1>8 DEF IInv

(* The current member is one of the tokens. *)
LEMMA CurrentToken ==
    ASSUME IInv, cur.type # "NONE"
    PROVE  tokens[cur.index] \in Tokens
<1>1. /\ tokens \in Seq(Tokens) /\ members \in Seq(Members)
      /\ Len(members) <= Len(tokens) /\ Len(members) \in Nat /\ Len(tokens) \in Nat
      /\ DOMAIN members = 1..Len(members)
  BY LenProperties DEF IInv, TypeOK, MembersInv
<1>2. memberIndex > 1 /\ memberIndex - 1 \in DOMAIN members /\ cur = members[memberIndex - 1]
  BY <1>1 DEF IInv, MembersInv
<1>3. cur.index = memberIndex - 1 /\ cur.index \in 1..Len(tokens)
  BY <1>1, <1>2 DEF IInv, MembersInv
<1>4. QED
  BY <1>1, <1>3, ElementOfSeq

(* A value read: its load is appended, and it is one more operand. *)
LEMMA LoadStep ==
    ASSUME IInv, pc = "dispatch", cur.type = "VALUE",
           NEW id, NEW storage \in Seq(VariableInfo), id \in DOMAIN storage,
           Load(id, storage)
    PROVE  IInv'
<1>1. TypeOK'
  <2>1. id \in Nat /\ storage[id] \in VariableInfo
    BY LenProperties, ElementOfSeq
  <2>2. opList \in Seq(Ops) /\ types \in Seq(Operands) /\ Len(opList) \in Nat
    BY LenProperties DEF IInv, TypeOK
  <2>3. [op |-> "LOAD", id |-> id, node |-> Len(opList) + 1] \in Ops
    BY <2>1, <2>2 DEF Ops
  <2>4. [type |-> storage[id].type, node |-> Len(opList) + 1] \in Operands
    BY <2>1, <2>2 DEF Operands, VariableInfo
  <2>5. opList' \in Seq(Ops) /\ types' \in Seq(Operands)
    BY <2>2, <2>3, <2>4, AppendFacts DEF Load
  <2>6. QED
    BY <2>5 DEF IInv, TypeOK, Load, Loops
<1>2. pc' \notin Failures
  BY DEF Load, Failures
<1>3. MembersInv'
  BY DEF IInv, MembersInv, Load, Outcomes, Failures
<1>4. PhaseInv'
  BY DEF PhaseInv, Phase, Load
<1>5. StackInv'
  BY DEF IInv, StackInv, Phase, Load
<1>6. CallInv'
  BY DEF CallInv, Load
<1>7. BlocksInv'
  BY DEF IInv, BlocksInv, Running, Closing, Phase, Load, Outcomes, Failures
<1>8. OperandsInv'
  <2>1. /\ Count(stack, {"BINARYOP"}) \in Nat /\ Commas(blocks) \in Nat
        /\ Len(types) \in Nat
    BY CountNat, CommasNat, LenProperties DEF IInv, TypeOK
  <2>2. Len(types) >= Count(stack, {"BINARYOP"}) + Commas(blocks)
    <3>1. Available(0)
      BY DEF IInv, OperandsInv, Running, Outcomes, Failures
    <3>2. QED
      BY <2>1, <3>1 DEF Available
  <2>3. Len(types') = Len(types) + 1
    BY LenProperties DEF Load, IInv, TypeOK
  <2>4. Available(0)' /\ Available(1)'
    BY <2>1, <2>2, <2>3 DEF Available, Load
  <2>5. argCount' = 1 /\ pc' = "compilePrefixOps" /\ cur' = cur
    BY DEF Load
  <2>6. QED
    BY <2>4, <2>5 DEF OperandsInv, Phase, Closing
<1>9. QED
  BY <1>1, <1>2, <1>3, <1>4, <1>5, <1>6, <1>7, <1>8 DEF IInv

LEMMA AddVariableStep ==
    ASSUME IInv, AddVariable
    PROVE  IInv'
<1>1. PICK id \in VariableIds(tokens[cur.index].value) : Load(id, infos)
  BY DEF AddVariable
<1>2. id \in DOMAIN infos /\ infos \in Seq(VariableInfo)
  BY DEF VariableIds, IInv, TypeOK
<1>3. QED
  BY <1>1, <1>2, LoadStep DEF AddVariable

LEMMA AddLiteralStep ==
    ASSUME IInv, AddLiteral
    PROVE  IInv'
<1> DEFINE token == tokens[cur.index]
           info == [name |-> LiteralName, type |-> LiteralType[token.type],
                    isConstant |-> TRUE, value |-> token.value]
<1>1. token \in Tokens
  BY CurrentToken DEF AddLiteral
<1>2. info \in VariableInfo
  <2>1. LiteralType[token.type] \in {"integer", "double", "boolean", "string"}
    BY DEF AddLiteral, LiteralType
  <2>2. token.value \in Lexemes
    BY <1>1 DEF Tokens
  <2>3. LiteralType[token.type] \in DataTypes
    BY <2>1, ContextAssumption
  <2>4. QED
    BY <2>2, <2>3 DEF VariableInfo, Lexemes
<1>3. infos \in Seq(VariableInfo)
  BY DEF IInv, TypeOK
<1> HIDE DEF info
<1>4. /\ Append(infos, info) \in Seq(VariableInfo)
      /\ Len(infos) + 1 \in DOMAIN Append(infos, info)
  BY <1>2, <1>3, AppendFacts, LenProperties
<1>5. pc = "dispatch" /\ cur.type = "VALUE"
  BY DEF AddLiteral
<1>6. Load(Len(infos) + 1, Append(infos, info))
  BY DEF AddLiteral, info
<1>7. QED
  BY <1>4, <1>5, <1>6, LoadStep

LEMMA AddValueRejectsStep ==
    ASSUME IInv, AddValueRejects
    PROVE  IInv'
<1>1. TypeOK'
  BY DEF IInv, AddValueRejects, TypeOK, Members, MemberTypes, Blocks, Operands, Ops, Outcomes, Failures, Loops
<1>2. pc' \notin Failures
  BY DEF IInv, AddValueRejects, TypeOK, Failures, Outcomes, Loops
<1>3. MembersInv'
  BY DEF IInv, AddValueRejects, TypeOK, MembersInv, PhaseInv, Outcomes, Failures, Loops, Phase, Calls
<1>4. PhaseInv'
  BY DEF IInv, AddValueRejects, TypeOK, PhaseInv, Phase, Outcomes, Failures, Loops, Calls, CallInv, PrefixOps
<1>5. StackInv'
  BY DEF IInv, AddValueRejects, TypeOK, StackInv, PhaseInv, Phase, TopIsPrefixOp, TopIsOneOf, PrefixOps,
         Outcomes, Failures, Loops
<1>6. CallInv'
  BY DEF IInv, AddValueRejects, TypeOK, CallInv, Loops, Outcomes, Failures
<1>7. BlocksInv'
  BY DEF IInv, AddValueRejects, TypeOK, BlocksInv, PhaseInv, Closing, Phase, Running, Outcomes,
         Failures, Loops
<1>8. OperandsInv'
  BY DEF IInv, AddValueRejects, TypeOK, OperandsInv, PhaseInv, Closing, Phase, Running, Available,
         Outcomes, Failures, Loops, AfterOperand
<1>9. QED
  BY <1>1, <1>2, <1>3, <1>4, <1>5, <1>6, <1>7, <1>8 DEF IInv

LEMMA ApplyCommaStep ==
    ASSUME IInv, ApplyComma
    PROVE  IInv'
<1>1. TypeOK'
  BY DEF IInv, ApplyComma, TypeOK, Members, MemberTypes, Blocks, Operands, Ops, Outcomes, Failures, Loops
<1>2. pc' \notin Failures
  <2>1. blocks # << >>
    BY DEF IInv, ApplyComma, BlocksInv, Running, Closing, Phase, Outcomes, Failures
  <2>2. QED
    BY <2>1 DEF ApplyComma, Failures
<1>3. MembersInv'
  BY DEF IInv, ApplyComma, TypeOK, MembersInv, PhaseInv, Outcomes, Failures, Loops, Phase, Calls
<1>4. PhaseInv'
  BY DEF IInv, ApplyComma, TypeOK, PhaseInv, Phase, Outcomes, Failures, Loops, Calls, CallInv, PrefixOps
<1>5. StackInv'
  BY DEF IInv, ApplyComma, TypeOK, StackInv, PhaseInv, Phase, TopIsPrefixOp, TopIsOneOf, PrefixOps,
         Outcomes, Failures, Loops
<1>6. CallInv'
  BY DEF IInv, ApplyComma, TypeOK, CallInv, Loops, Outcomes, Failures
<1>7. BlocksInv'
  BY DEF IInv, ApplyComma, TypeOK, BlocksInv, PhaseInv, Closing, Phase, Running, Outcomes,
         Failures, Loops
<1>8. OperandsInv'
  BY DEF IInv, ApplyComma, TypeOK, OperandsInv, PhaseInv, Closing, Phase, Running, Available,
         Outcomes, Failures, Loops, AfterOperand
<1>9. QED
  BY <1>1, <1>2, <1>3, <1>4, <1>5, <1>6, <1>7, <1>8 DEF IInv

LEMMA CloseParenthesisStep ==
    ASSUME IInv, CloseParenthesis
    PROVE  IInv'
<1>a. /\ blocks \in Seq(Blocks) /\ Len(blocks) \in Nat /\ DOMAIN blocks = 1..Len(blocks)
      /\ blocks # << >> /\ pc = "dispatch" /\ cur.type = "RPAREN" /\ cur' = cur
      /\ Count(stack, {"LPAREN"}) = Len(blocks) - 1
  BY LenProperties DEF IInv, TypeOK, CloseParenthesis, BlocksInv, Running, Closing, Phase,
         Outcomes, Failures
<1>b. /\ Front(blocks) \in Seq(Blocks) /\ Len(Front(blocks)) = Len(blocks) - 1
      /\ DOMAIN Front(blocks) = 1..(Len(blocks) - 1)
      /\ \A k \in 1..(Len(blocks) - 1) : Front(blocks)[k] = blocks[k]
      /\ Last(blocks).commas \in Nat
  <2>1. /\ Front(blocks) \in Seq(Blocks) /\ Len(Front(blocks)) = Len(blocks) - 1
        /\ \A k \in 1..(Len(blocks) - 1) : Front(blocks)[k] = blocks[k]
        /\ Last(blocks) \in Blocks
    BY <1>a, FrontLast
  <2>2. DOMAIN Front(blocks) = 1..(Len(blocks) - 1)
    BY <2>1, LenProperties
  <2>3. QED
    BY <2>1, <2>2 DEF Blocks
<1>c. \/ /\ pc' = "syntax error" /\ blocks' = blocks /\ argCount' = argCount
      \/ /\ pc' = "compileToTok" /\ blocks' = Front(blocks)
         /\ argCount' = Last(blocks).commas + 1
  BY <1>a DEF CloseParenthesis
<1>1. TypeOK'
  <2>1. blocks' \in Seq(Blocks) /\ argCount' \in Nat
    <3>1. argCount \in Nat /\ Last(blocks).commas + 1 \in Nat
      BY <1>b DEF IInv, TypeOK
    <3>2. QED
      BY <1>a, <1>b, <1>c, <3>1
  <2>2. QED
    BY <1>c, <2>1 DEF IInv, CloseParenthesis, TypeOK, Outcomes, Loops
<1>2. pc' \notin Failures
  BY <1>c DEF Failures
<1>3. MembersInv'
  BY DEF IInv, CloseParenthesis, TypeOK, MembersInv, PhaseInv, Outcomes, Failures, Loops, Phase, Calls
<1>4. PhaseInv'
  BY DEF IInv, CloseParenthesis, TypeOK, PhaseInv, Phase, Outcomes, Failures, Loops, Calls, CallInv, PrefixOps
<1>5. StackInv'
  BY DEF IInv, CloseParenthesis, TypeOK, StackInv, PhaseInv, Phase, TopIsPrefixOp, TopIsOneOf, PrefixOps,
         Outcomes, Failures, Loops
<1>6. CallInv'
  BY DEF IInv, CloseParenthesis, TypeOK, CallInv, Loops, Outcomes, Failures
<1>7. BlocksInv'
  <2>1. \A k \in DOMAIN blocks' : blocks'[k].start = IF k = 1 THEN "NONE" ELSE "LPAREN"
    <3>1. \A k \in DOMAIN blocks : blocks[k].start = IF k = 1 THEN "NONE" ELSE "LPAREN"
      BY DEF IInv, BlocksInv
    <3>2. CASE blocks' = blocks
      BY <3>1, <3>2
    <3>3. CASE blocks' = Front(blocks)
      BY <1>a, <1>b, <3>1, <3>3
    <3>4. QED
      BY <1>c, <3>2, <3>3
  <2>2. stack' = stack
    BY DEF CloseParenthesis
  <2>3. CASE pc' = "syntax error"
    BY <2>1, <2>3 DEF BlocksInv, Running, Outcomes
  <2>4. CASE pc' = "compileToTok"
    <3>1. Closing("RPAREN")' /\ ~Closing("END")'
      BY <1>a, <2>4 DEF Closing, Phase
    <3>2. blocks' = Front(blocks)
      BY <1>c, <2>4
    <3>3. blocks' # << >>
      <4>1. Last(blocks).start = "LPAREN"
        BY <1>a, <2>4 DEF CloseParenthesis
      <4>2. Last(blocks) = blocks[Len(blocks)] /\ Len(blocks) >= 1
        BY <1>a, FrontLast
      <4>a. 1 \in DOMAIN blocks
        BY <1>a, <4>2
      <4>b. blocks[1].start = "NONE"
        BY <4>a DEF IInv, BlocksInv
      <4>3. Len(blocks) # 1
        BY <4>1, <4>2, <4>b
      <4>4. Len(Front(blocks)) # 0
        BY <1>a, <1>b, <4>2, <4>3
      <4>5. QED
        BY <3>2, <4>4, EmptySeq
    <3>4. Count(stack', {"LPAREN"}) = Len(blocks')
      BY <1>a, <1>b, <2>2, <3>2
    <3>5. QED
      BY <2>1, <3>1, <3>3, <3>4 DEF BlocksInv
  <2>5. QED
    BY <1>c, <2>3, <2>4
<1>8. OperandsInv'
  <2>1. /\ Count(stack, {"BINARYOP"}) \in Nat /\ Commas(Front(blocks)) \in Nat
        /\ Len(types) \in Nat
    BY <1>b, CountNat, CommasNat, LenProperties DEF IInv, TypeOK
  <2>2. Len(types) >= Count(stack, {"BINARYOP"}) + Commas(blocks) + 1
    <3>1. Available(1)
      BY <1>a DEF IInv, OperandsInv, AfterOperand
    <3>2. QED
      BY <1>a, <3>1 DEF Available
  <2>3. Commas(blocks) = Commas(Front(blocks)) + Last(blocks).commas
    BY <1>a, CommasFront
  <2>4. stack' = stack /\ types' = types
    BY DEF CloseParenthesis
  <2>5. CASE pc' = "syntax error"
    BY <2>5 DEF OperandsInv, Running, Phase, Closing, Outcomes
  <2>6. CASE pc' = "compileToTok"
    <3>1. blocks' = Front(blocks) /\ argCount' = Last(blocks).commas + 1
      BY <1>c, <2>6
    <3>2. Available(argCount)' /\ Available(0)' /\ Available(1)' /\ argCount' >= 1
      BY <1>b, <2>1, <2>2, <2>3, <2>4, <2>6, <3>1 DEF Available
    <3>3. QED
      BY <1>a, <2>6, <3>2 DEF OperandsInv, Running, Phase, Closing
  <2>7. QED
    BY <1>c, <2>5, <2>6
<1>9. QED
  BY <1>1, <1>2, <1>3, <1>4, <1>5, <1>6, <1>7, <1>8 DEF IInv

LEMMA CloseExpressionStep ==
    ASSUME IInv, CloseExpression
    PROVE  IInv'
<1>a. /\ blocks \in Seq(Blocks) /\ Len(blocks) \in Nat
      /\ blocks # << >> /\ pc = "dispatch" /\ cur.type = "END" /\ cur' = cur
      /\ Count(stack, {"LPAREN"}) = Len(blocks) - 1
  BY LenProperties DEF IInv, TypeOK, CloseExpression, BlocksInv, Running, Closing, Phase,
         Outcomes, Failures
<1>b. /\ Front(blocks) \in Seq(Blocks) /\ Len(Front(blocks)) = Len(blocks) - 1
      /\ Last(blocks).commas \in Nat
  <2>1. /\ Front(blocks) \in Seq(Blocks) /\ Len(Front(blocks)) = Len(blocks) - 1
        /\ Last(blocks) \in Blocks
    BY <1>a, FrontLast
  <2>2. QED
    BY <2>1 DEF Blocks
<1>c. \/ pc' = "syntax error" /\ blocks' = blocks
      \/ pc' = "compileToTok" /\ blocks' = Front(blocks) /\ Len(blocks) = 1
  BY DEF CloseExpression
<1>d. Len(blocks) = 1 => Front(blocks) = << >>
  BY <1>b, EmptySeq
<1>1. TypeOK'
  BY <1>a, <1>b, <1>c DEF IInv, CloseExpression, TypeOK, Outcomes, Loops
<1>2. pc' \notin Failures
  BY DEF IInv, CloseExpression, TypeOK, Failures, Outcomes, Loops
<1>3. MembersInv'
  BY DEF IInv, CloseExpression, TypeOK, MembersInv, PhaseInv, Outcomes, Failures, Loops, Phase, Calls
<1>4. PhaseInv'
  BY DEF IInv, CloseExpression, TypeOK, PhaseInv, Phase, Outcomes, Failures, Loops, Calls, CallInv, PrefixOps
<1>5. StackInv'
  BY DEF IInv, CloseExpression, TypeOK, StackInv, PhaseInv, Phase, TopIsPrefixOp, TopIsOneOf, PrefixOps,
         Outcomes, Failures, Loops
<1>6. CallInv'
  BY DEF IInv, CloseExpression, TypeOK, CallInv, Loops, Outcomes, Failures
<1>7. BlocksInv'
  <2>1. stack' = stack
    BY DEF CloseExpression
  <2>2. CASE pc' = "syntax error"
    BY <1>c, <2>2 DEF IInv, BlocksInv, Running, Outcomes
  <2>3. CASE pc' = "compileToTok"
    <3>1. Closing("END")'
      BY <1>a, <2>3 DEF Closing, Phase
    <3>2. blocks' = << >> /\ Count(stack', {"LPAREN"}) = 0
      BY <1>a, <1>c, <1>d, <2>1, <2>3
    <3>3. QED
      BY <3>1, <3>2 DEF BlocksInv
  <2>4. QED
    BY <1>c, <2>2, <2>3
<1>8. OperandsInv'
  <2>1. /\ Count(stack, {"BINARYOP"}) \in Nat /\ Commas(Front(blocks)) \in Nat
        /\ Len(types) \in Nat
    BY <1>b, CountNat, CommasNat, LenProperties DEF IInv, TypeOK
  <2>2. Len(types) >= Count(stack, {"BINARYOP"}) + Commas(blocks) + 1
    <3>1. Available(1)
      BY <1>a DEF IInv, OperandsInv, AfterOperand
    <3>2. QED
      BY <1>a, <3>1 DEF Available
  <2>3. Commas(blocks) = Commas(Front(blocks)) + Last(blocks).commas
    BY <1>a, CommasFront
  <2>4. stack' = stack /\ types' = types
    BY DEF CloseExpression
  <2>5. CASE pc' = "syntax error"
    BY <2>5 DEF OperandsInv, Running, Phase, Closing, Outcomes
  <2>6. CASE pc' = "compileToTok"
    <3>1. blocks' = Front(blocks)
      BY <1>c, <2>6
    <3>2. Available(0)' /\ Available(1)'
      BY <1>b, <2>1, <2>2, <2>3, <2>4, <2>6, <3>1 DEF Available
    <3>3. QED
      BY <1>a, <2>6, <3>2 DEF OperandsInv, Running, Phase, Closing
  <2>7. QED
    BY <1>c, <2>5, <2>6
<1>9. QED
  BY <1>1, <1>2, <1>3, <1>4, <1>5, <1>6, <1>7, <1>8 DEF IInv

LEMMA InsertCastStep ==
    ASSUME IInv, InsertCast
    PROVE  IInv'
<1>a. /\ call \in Calls /\ Len(call.func.args) = Len(call.args)
      /\ Castable(Functions, call.func, ArgTypes(call.args))
      /\ pc = "casts" /\ pc' = "casts" /\ call' = [call EXCEPT !.next = @ + 1]
  BY DEF IInv, CallInv, InsertCast
<1>b. /\ call' \in Calls /\ call'.caller = call.caller /\ call'.func = call.func
      /\ call'.args = call.args
  BY <1>a DEF Calls
<1>1. TypeOK'
  <2>1. opList \in Seq(Ops) /\ DOMAIN opList = 1..Len(opList) /\ Len(opList) \in Nat
    BY LenProperties DEF IInv, TypeOK
  <2> DEFINE cast == CastTo(Functions, call.args[call.next].type, call.func.args[call.next])
             op == [op |-> "CALL", func |-> cast, node |-> NewNode]
  <2>2. PICK at \in DOMAIN opList : opList' = InsertAt(opList, at + 1, op)
    BY DEF InsertCast
  <2>3. cast \in FunctionIds
    <3>1. call.next \in CastPositions(call.func, ArgTypes(call.args))
      BY DEF InsertCast
    <3>2. call.next \in DOMAIN call.args
      BY <1>a, <3>1, ArgTypesSeq, LenProperties DEF CastPositions, Calls
    <3>3. ArgTypes(call.args)[call.next] = call.args[call.next].type
      BY <3>2 DEF ArgTypes
    <3>4. CastTo(Functions, ArgTypes(call.args)[call.next], call.func.args[call.next])
             \in FunctionIds
      BY <1>a, <3>1, CastFunction
    <3>5. QED
      BY <3>3, <3>4
  <2>4. op \in Ops
    BY <2>1, <2>3 DEF Ops, NewNode
  <2>5. at + 1 \in 1..(Len(opList) + 1)
    BY <2>1
  <2> HIDE DEF op
  <2>6. opList' \in Seq(Ops)
    BY <2>1, <2>2, <2>4, <2>5, InsertAtType
  <2>7. QED
    BY <1>a, <1>b, <2>6 DEF IInv, InsertCast, TypeOK
<1>2. pc' \notin Failures
  BY <1>a DEF Failures
<1>3. MembersInv'
  BY <1>a DEF IInv, InsertCast, MembersInv
<1>4. PhaseInv'
  BY <1>a, <1>b DEF IInv, InsertCast, PhaseInv, Phase
<1>5. StackInv'
  BY <1>a, <1>b DEF IInv, InsertCast, StackInv, Phase, TopIsPrefixOp, TopIsOneOf
<1>6. CallInv'
  BY <1>a, <1>b DEF IInv, InsertCast, CallInv
<1>7. BlocksInv'
  BY <1>a, <1>b DEF IInv, InsertCast, BlocksInv, Running, Closing, Phase
<1>8. OperandsInv'
  BY <1>a, <1>b DEF IInv, InsertCast, OperandsInv, Available, Running, Closing, Phase
<1>9. QED
  BY <1>1, <1>2, <1>3, <1>4, <1>5, <1>6, <1>7, <1>8 DEF IInv

LEMMA SkipCastStep ==
    ASSUME IInv, SkipCast
    PROVE  IInv'
<1>a. /\ call \in Calls /\ Len(call.func.args) = Len(call.args)
      /\ Castable(Functions, call.func, ArgTypes(call.args))
      /\ pc = "casts" /\ pc' = "casts" /\ call' = [call EXCEPT !.next = @ + 1]
  BY DEF IInv, CallInv, SkipCast
<1>b. /\ call' \in Calls /\ call'.caller = call.caller /\ call'.func = call.func
      /\ call'.args = call.args
  BY <1>a DEF Calls
<1>1. TypeOK'
  BY <1>a, <1>b DEF IInv, SkipCast, TypeOK
<1>2. pc' \notin Failures
  BY <1>a DEF Failures
<1>3. MembersInv'
  BY <1>a DEF IInv, SkipCast, MembersInv
<1>4. PhaseInv'
  BY <1>a, <1>b DEF IInv, SkipCast, PhaseInv, Phase
<1>5. StackInv'
  BY <1>a, <1>b DEF IInv, SkipCast, StackInv, Phase, TopIsPrefixOp, TopIsOneOf
<1>6. CallInv'
  BY <1>a, <1>b DEF IInv, SkipCast, CallInv
<1>7. BlocksInv'
  BY <1>a, <1>b DEF IInv, SkipCast, BlocksInv, Running, Closing, Phase
<1>8. OperandsInv'
  BY <1>a, <1>b DEF IInv, SkipCast, OperandsInv, Available, Running, Closing, Phase
<1>9. QED
  BY <1>1, <1>2, <1>3, <1>4, <1>5, <1>6, <1>7, <1>8 DEF IInv

LEMMA EndCallStep ==
    ASSUME IInv, EndCall
    PROVE  IInv'
<1>a. /\ pc = "casts" /\ call \in Calls /\ call.caller \in Loops /\ pc' = call.caller
      /\ Phase = call.caller /\ Phase' = call.caller /\ cur' = cur
  BY DEF IInv, CallInv, EndCall, Calls, Phase, Loops
<1>b. /\ stack \in Seq(Members) /\ Len(stack) \in Nat /\ DOMAIN stack = 1..Len(stack)
      /\ stack # << >> /\ stack' = Front(stack)
      /\ Last(stack).type \in IF call.caller = "compilePrefixOps" THEN PrefixOps
                              ELSE {"BINARYOP"}
  BY <1>a, LenProperties DEF IInv, TypeOK, StackInv, TopIsOneOf, EndCall
<1>c. /\ stack' \in Seq(Members) /\ Len(stack') = Len(stack) - 1 /\ Len(stack) >= 1
      /\ Last(stack) = stack[Len(stack)]
      /\ \A k \in 1..(Len(stack) - 1) : stack'[k] = stack[k]
      /\ DOMAIN stack' = 1..(Len(stack) - 1)
  <2>1. /\ stack' \in Seq(Members) /\ Len(stack') = Len(stack) - 1 /\ Len(stack) >= 1
        /\ Last(stack) = stack[Len(stack)]
        /\ \A k \in 1..(Len(stack) - 1) : stack'[k] = stack[k]
    BY <1>b, FrontLast
  <2>2. QED
    BY <2>1, LenProperties
<1>d. /\ Count(stack, {"LPAREN"}) = Count(stack', {"LPAREN"})
      /\ Count(stack, {"BINARYOP"}) = Count(stack', {"BINARYOP"})
              + IF call.caller = "compilePrefixOps" THEN 0 ELSE 1
  <2>1. /\ Count(stack, {"LPAREN"}) = Count(stack', {"LPAREN"})
              + (IF Last(stack).type \in {"LPAREN"} THEN 1 ELSE 0)
        /\ Count(stack, {"BINARYOP"}) = Count(stack', {"BINARYOP"})
              + (IF Last(stack).type \in {"BINARYOP"} THEN 1 ELSE 0)
    BY <1>b, CountFront
  <2>2. Count(stack', {"LPAREN"}) \in Nat /\ Count(stack', {"BINARYOP"}) \in Nat
    BY <1>c, CountNat
  <2>3. QED
    BY <1>b, <2>1, <2>2 DEF PrefixOps
<1>1. TypeOK'
  <2>1. opList \in Seq(Ops) /\ types \in Seq(Operands) /\ NewNode \in Nat
    BY LenProperties DEF IInv, TypeOK, NewNode
  <2>2. [op |-> "CALL", func |-> call.func.id, node |-> NewNode] \in Ops
    BY <1>a, <2>1 DEF Calls, FunctionInfo, Ops
  <2>3. [type |-> call.func.ret, node |-> NewNode] \in Operands
    BY <1>a, <2>1 DEF Calls, FunctionInfo, Operands
  <2>4. opList' \in Seq(Ops) /\ types' \in Seq(Operands)
    BY <2>1, <2>2, <2>3, AppendFacts DEF EndCall
  <2>5. QED
    BY <1>a, <1>c, <2>4 DEF IInv, EndCall, TypeOK
<1>2. pc' \notin Failures
  BY <1>a DEF Failures, Loops
<1>3. MembersInv'
  BY <1>a DEF IInv, EndCall, MembersInv, Outcomes, Failures, Loops
<1>4. PhaseInv'
  BY <1>a DEF IInv, PhaseInv, Loops
<1>5. StackInv'
  <2>1. \A k \in DOMAIN stack' : stack'[k].type \in {"BINARYOP", "LPAREN"} \cup PrefixOps
    BY <1>b, <1>c DEF IInv, StackInv
  <2>2. ASSUME NEW k \in DOMAIN stack', k < Len(stack'), stack'[k].type \in PrefixOps
        PROVE  stack'[k + 1].type \in {"FUNCCALL", "LPAREN"}
    <3>1. k \in DOMAIN stack /\ k + 1 \in DOMAIN stack' /\ k < Len(stack)
      BY <1>b, <1>c, <2>2
    <3>2. stack'[k] = stack[k] /\ stack'[k + 1] = stack[k + 1]
      BY <1>c, <2>2, <3>1
    <3>3. QED
      BY <2>2, <3>1, <3>2 DEF IInv, StackInv
  <2>3. ASSUME call.caller # "compilePrefixOps", TopIsPrefixOp'
        PROVE  FALSE
    <3>1. stack' # << >> /\ Last(stack').type \in PrefixOps
      BY <2>3 DEF TopIsPrefixOp, TopIsOneOf
    <3>2. Len(stack') >= 1 /\ Last(stack') = stack'[Len(stack')]
      BY <1>c, <3>1, FrontLast
    <3>3. stack'[Len(stack) - 1] = stack[Len(stack) - 1] /\ Len(stack) - 1 \in DOMAIN stack
          /\ Len(stack) - 1 < Len(stack) /\ Len(stack) - 1 + 1 = Len(stack)
      BY <1>b, <1>c, <3>2
    <3>4. stack[Len(stack) - 1].type \in PrefixOps
      BY <1>c, <3>1, <3>2, <3>3
    <3>5. stack[Len(stack)].type \in {"FUNCCALL", "LPAREN"}
      BY <3>3, <3>4 DEF IInv, StackInv
    <3>6. QED
      BY <1>b, <1>c, <2>3, <3>5
  <2>4. QED
    BY <1>a, <2>1, <2>2, <2>3 DEF StackInv, Loops
<1>6. CallInv'
  BY <1>a DEF CallInv, Loops
<1>7. BlocksInv'
  BY <1>a, <1>d DEF IInv, BlocksInv, EndCall, Running, Closing, Outcomes, Failures, Loops
<1>8. OperandsInv'
  <2>1. /\ Count(stack', {"BINARYOP"}) \in Nat /\ Commas(blocks) \in Nat
        /\ Len(types) \in Nat /\ argCount \in Nat
    BY <1>c, CountNat, CommasNat, LenProperties DEF IInv, TypeOK
  <2>2. Len(types') = Len(types) + 1
    BY LenProperties DEF EndCall, IInv, TypeOK
  <2>3. Len(call.args) = IF call.caller = "compilePrefixOps" THEN argCount ELSE 2
    BY <1>a DEF IInv, CallInv
  <2>4. CASE call.caller = "compilePrefixOps"
    <3>1. Available(argCount) /\ argCount' = 1
      BY <1>a, <2>4 DEF IInv, OperandsInv, EndCall
    <3>2. Len(types) >= Count(stack', {"BINARYOP"}) + Commas(blocks)
      BY <1>a, <1>d, <2>1, <2>3, <2>4, <3>1 DEF Available
    <3>3. Available(0)' /\ Available(1)'
      BY <1>a, <2>1, <2>2, <2>4, <3>2 DEF Available, EndCall
    <3>4. QED
      BY <1>a, <2>4, <3>1, <3>3 DEF OperandsInv, Closing
  <2>5. CASE call.caller # "compilePrefixOps"
    <3>1. ASSUME NEW n \in Nat, Available(n)
          PROVE  Available(n)'
      <4>1. Len(types) + 2 >= Count(stack', {"BINARYOP"}) + 1 + Commas(blocks) + n
        BY <1>a, <1>d, <2>3, <2>5, <3>1 DEF Available
      <4>2. Len(types') >= Count(stack', {"BINARYOP"}) + Commas(blocks) + n
        BY <2>1, <2>2, <4>1
      <4>3. pc' # "casts" /\ blocks' = blocks
        BY <1>a DEF EndCall, Loops
      <4>4. QED
        BY <2>1, <2>2, <4>2, <4>3 DEF Available
    <3>2. argCount' = argCount
      BY <2>5 DEF EndCall
    <3>3. Running
      BY <1>a DEF Running, Outcomes, Failures
    <3>4. 0 \in Nat /\ 1 \in Nat /\ argCount \in Nat
      BY <2>1
    <3>5. Available(0)' /\ Available(1)'
      BY <1>a, <2>5, <3>1, <3>3, <3>4 DEF IInv, OperandsInv, Loops
    <3>6. Closing("RPAREN")' => argCount' >= 1 /\ (Available(argCount))'
      <4>1. Closing("RPAREN")' <=> Closing("RPAREN")
        BY <1>a DEF Closing
      <4>2. Closing("RPAREN") => argCount >= 1 /\ Available(argCount)'
        <5>1. Closing("RPAREN") => argCount >= 1 /\ Available(argCount)
          BY DEF IInv, OperandsInv
        <5>2. Available(argCount) => Available(argCount)'
          <6>1. SUFFICES ASSUME Available(argCount) PROVE Available(argCount)'
            OBVIOUS
          <6>2. Len(types) + 2 >= Count(stack', {"BINARYOP"}) + 1 + Commas(blocks) + argCount
            BY <1>a, <1>d, <2>3, <2>5, <6>1 DEF Available
          <6>3. Len(types') >= Count(stack', {"BINARYOP"}) + Commas(blocks) + argCount
            BY <2>1, <2>2, <6>2
          <6>4. pc' # "casts" /\ blocks' = blocks
            BY <1>a DEF EndCall, Loops
          <6>5. QED
            BY <2>1, <2>2, <3>2, <6>3, <6>4 DEF Available
        <5>3. QED
          BY <5>1, <5>2
      <4>3. QED
        BY <3>2, <4>1, <4>2
    <3>7. QED
      BY <1>a, <2>5, <3>5, <3>6 DEF OperandsInv, Loops
  <2>6. QED
    BY <2>4, <2>5
<1>9. QED
  BY <1>1, <1>2, <1>3, <1>4, <1>5, <1>6, <1>7, <1>8 DEF IInv

(* Each loop has the operands that it gives to compileFuncCallWithCasts.   *)
LEMMA BeginCallStep ==
    ASSUME IInv, pc \in Loops, NEW STATE name, NEW STATE n, n \in Nat,
           n = IF pc = "compilePrefixOps" THEN argCount ELSE 2,
           Len(types) >= n,
           TopIsOneOf(IF pc = "compilePrefixOps" THEN PrefixOps ELSE {"BINARYOP"}),
           BeginCall(name, n)
    PROVE  IInv'
<1> DEFINE rest == Len(types) - n
           args == SubSeq(types, rest + 1, Len(types))
<1>1. types \in Seq(Operands) /\ Len(types) \in Nat
  BY LenProperties DEF IInv, TypeOK
<1>r. rest \in Nat /\ rest + n = Len(types)
  BY <1>1
<1> HIDE DEF rest
<1>2. args \in Seq(Operands) /\ Len(args) = n
  <2>1. \A k \in 1..Len(types) : types[k] \in Operands
    BY <1>1, <1>r, ElementOfSeq
  <2>2. /\ SubSeq(types, rest + 1, Len(types)) \in Seq(Operands)
        /\ Len(SubSeq(types, rest + 1, Len(types))) =
             IF rest + 1 <= Len(types) THEN Len(types) - (rest + 1) + 1 ELSE 0
    BY <1>1, <1>r, <2>1, SubSeqProperties
  <2>3. CASE n = 0
    <3>1. ~(rest + 1 <= Len(types))
      BY <1>1, <1>r, <2>3
    <3>2. QED
      BY <2>2, <2>3, <3>1
  <2>4. CASE n # 0
    <3>1. rest + 1 <= Len(types) /\ Len(types) - (rest + 1) + 1 = n
      BY <1>1, <1>r, <2>4
    <3>2. QED
      BY <2>2, <3>1
  <2>5. QED
    BY <2>3, <2>4
<1>3. SubSeq(types, 1, rest) \in Seq(Operands) /\ Len(SubSeq(types, 1, rest)) = rest
  <2>1. \A k \in 1..rest : types[k] \in Operands
    BY <1>1, <1>r, ElementOfSeq
  <2>2. /\ SubSeq(types, 1, rest) \in Seq(Operands)
        /\ Len(SubSeq(types, 1, rest)) = IF 1 <= rest THEN rest - 1 + 1 ELSE 0
    BY <1>1, <1>r, <2>1, SubSeqProperties
  <2>3. CASE rest = 0
    <3>1. ~(1 <= rest)
      BY <2>3
    <3>2. QED
      BY <2>2, <2>3, <3>1
  <2>4. CASE rest # 0
    <3>1. 1 <= rest /\ rest - 1 + 1 = rest
      BY <1>1, <1>r, <2>4
    <3>2. QED
      BY <2>2, <3>1
  <2>5. QED
    BY <2>3, <2>4
<1>4. ArgTypes(args) \in Seq(DataTypes) /\ Len(ArgTypes(args)) = n
  BY <1>2, ArgTypesSeq
<1>5. \/ /\ \E func \in FindFunction(Functions, name, ArgTypes(args)) :
                call' = [caller |-> pc, func |-> func, args |-> args, next |-> 1]
         /\ types' = SubSeq(types, 1, rest)
         /\ pc' = "casts"
      \/ pc' = "syntax error" /\ types' = types /\ call' = call
  <2>1. ~(Len(types) < n)
    BY <1>1
  <2>2. QED
    BY <2>1, Zenon DEF BeginCall, rest
<1>6. UNCHANGED <<tokens, members, memberIndex, cur, stack, blocks, opList, infos, argCount>>
  BY DEF BeginCall
<1> HIDE DEF args
<1>7. CASE pc' = "syntax error"
  <2>1. types' = types /\ call' = call
    BY <1>5, <1>7
  <2>2. Phase' = "syntax error" /\ ~Running'
    BY <1>7 DEF Phase, Running, Outcomes
  <2>3. TypeOK' /\ pc' \notin Failures
    BY <1>6, <1>7, <2>1 DEF IInv, TypeOK, Failures, Outcomes
  <2>4. MembersInv' /\ PhaseInv' /\ StackInv' /\ CallInv' /\ BlocksInv'
    <3>1. MembersInv'
      BY <1>6, <1>7 DEF IInv, MembersInv, Outcomes
    <3>2. PhaseInv' /\ CallInv'
      BY <1>7, <2>2 DEF PhaseInv, CallInv
    <3>3. StackInv'
      BY <1>6, <1>7, <2>2 DEF IInv, StackInv
    <3>4. BlocksInv'
      BY <1>6, <2>2 DEF IInv, BlocksInv
    <3>5. QED
      BY <3>1, <3>2, <3>3, <3>4
  <2>5. OperandsInv'
    BY <1>7, <2>2 DEF OperandsInv, Closing
  <2>6. QED
    BY <2>3, <2>4, <2>5 DEF IInv
<1>8. CASE pc' = "casts"
  <2>1. PICK func \in FindFunction(Functions, name, ArgTypes(args)) :
           call' = [caller |-> pc, func |-> func, args |-> args, next |-> 1]
    BY <1>5, <1>8
  <2>2. types' = SubSeq(types, 1, rest)
    BY <1>5, <1>8
  <2>3. func \in FunctionInfo /\ Len(func.args) = n /\ Castable(Functions, func, ArgTypes(args))
    BY <1>4, FoundFunction
  <2>4. call' \in Calls /\ call'.caller = pc /\ call'.func = func /\ call'.args = args
    BY <1>2, <2>1, <2>3 DEF Calls
  <2>5. Phase = pc /\ Phase' = pc /\ Running /\ pc # "casts"
    BY <1>8, <2>4 DEF Phase, Loops, Running, Outcomes, Failures
  <2>6. TypeOK'
    BY <1>3, <1>6, <1>8, <2>2, <2>4 DEF IInv, TypeOK
  <2>7. MembersInv'
    BY <1>6, <1>8 DEF IInv, MembersInv, Outcomes, Failures, Loops
  <2>8. PhaseInv'
    BY <1>6, <1>8, <2>5 DEF IInv, PhaseInv
  <2>9. StackInv'
    BY <1>6, <1>8, <2>4, <2>5 DEF IInv, StackInv, TopIsPrefixOp, TopIsOneOf
  <2>10. CallInv'
    BY <1>2, <1>6, <1>8, <2>3, <2>4 DEF CallInv
  <2>11. BlocksInv'
    BY <1>6, <2>5 DEF IInv, BlocksInv, Running, Closing
  <2>12. OperandsInv'
    <3>1. Len(types') + Len(call'.args) = Len(types)
      <4>1. Len(types') = rest /\ Len(call'.args) = n
        BY <1>2, <1>3, <2>2, <2>4
      <4>2. QED
        BY <1>r, <4>1
    <3>2. ASSUME NEW k, Available(k)
          PROVE  Available(k)'
      <4>1. Len(types) + 0 >= Count(stack, {"BINARYOP"}) + Commas(blocks) + k
        BY <2>5, <3>2 DEF Available
      <4>2. Len(types) >= Count(stack, {"BINARYOP"}) + Commas(blocks) + k
        BY <1>1, <4>1
      <4>3. QED
        BY <1>6, <1>8, <3>1, <4>2 DEF Available
    <3>3. pc' # "nextTok" /\ pc' # "dispatch"
      BY <1>8
    <3>4. Available(argCount) => Available(argCount)'
      <4>1. SUFFICES ASSUME Available(argCount) PROVE Available(argCount)'
        OBVIOUS
      <4>2. Len(types) + 0 >= Count(stack, {"BINARYOP"}) + Commas(blocks) + argCount
        BY <2>5, <4>1 DEF Available
      <4>3. Len(types) >= Count(stack, {"BINARYOP"}) + Commas(blocks) + argCount
        BY <1>1, <4>2
      <4>4. QED
        BY <1>6, <1>8, <3>1, <4>3 DEF Available
    <3>5. argCount' = argCount /\ cur' = cur
      BY <1>6
    <3>6. QED
      BY <2>5, <3>2, <3>3, <3>4, <3>5 DEF IInv, OperandsInv, Closing
  <2>13. pc' \notin Failures
    BY <1>8 DEF Failures
  <2>14. QED
    BY <2>6, <2>7, <2>8, <2>9, <2>10, <2>11, <2>12, <2>13 DEF IInv
<1>9. QED
  BY <1>5, <1>7, <1>8

(* A binary operator on the stack has its left operand in mTypes.          *)
LEMMA TwoOperands ==
    ASSUME IInv, pc \in {"addBinaryOp", "compileToTok"}, TopIsOneOf({"BINARYOP"})
    PROVE  Len(types) >= 2
<1>1. stack \in Seq(Members) /\ stack # << >> /\ Last(stack).type = "BINARYOP"
  BY DEF IInv, TypeOK, TopIsOneOf
<1>2. Front(stack) \in Seq(Members)
  BY <1>1, FrontLast
<1>3. /\ Count(Front(stack), {"BINARYOP"}) \in Nat
      /\ Commas(blocks) \in Nat /\ Len(types) \in Nat
  BY <1>2, CountNat, CommasNat, LenProperties DEF IInv, TypeOK
<1>4. Count(stack, {"BINARYOP"}) = Count(Front(stack), {"BINARYOP"}) + 1
  BY <1>1, CountFront
<1>5. Available(1)
  BY DEF IInv, OperandsInv, Phase
<1>6. QED
  BY <1>3, <1>4, <1>5 DEF Available

LEMMA CompileStrongerOpStep ==
    ASSUME IInv, CompileStrongerOp
    PROVE  IInv'
<1>1. pc = "addBinaryOp" /\ TopIsOneOf({"BINARYOP"}) /\ BeginBinary(Last(stack))
  BY DEF CompileStrongerOp, TopBindsFirst
<1>2. Len(types) >= 2
  BY <1>1, TwoOperands
<1>3. pc \in Loops /\ pc # "compilePrefixOps" /\ 2 \in Nat
  BY <1>1 DEF Loops
<1>4. QED
  BY <1>1, <1>2, <1>3, BeginCallStep DEF BeginBinary

LEMMA PushBinaryOpStep ==
    ASSUME IInv, PushBinaryOp
    PROVE  IInv'
<1>a. stack \in Seq(Members) /\ cur \in Members /\ stack' = Append(stack, cur)
  BY DEF IInv, PushBinaryOp, TypeOK
<1>b. /\ stack' \in Seq(Members)
      /\ Len(stack') = Len(stack) + 1 /\ Len(stack) \in Nat
      /\ DOMAIN stack' = 1..(Len(stack) + 1) /\ DOMAIN stack = 1..Len(stack)
      /\ stack' # << >> /\ Last(stack') = cur /\ stack'[Len(stack) + 1] = cur
      /\ \A k \in 1..Len(stack) : stack'[k] = stack[k]
  BY <1>a, AppendFacts, LenProperties DEF Last
<1>c. \A T : Count(stack', T) = Count(stack, T) + (IF cur.type \in T THEN 1 ELSE 0)
  BY <1>a, CountAppend
<1>1. TypeOK'
  BY <1>b DEF IInv, PushBinaryOp, TypeOK
<1>2. pc' \notin Failures
  BY DEF IInv, PushBinaryOp, TypeOK, Failures, Outcomes, Loops
<1>3. MembersInv'
  BY DEF IInv, PushBinaryOp, TypeOK, MembersInv, PhaseInv, Outcomes, Failures, Loops, Phase, Calls
<1>4. PhaseInv'
  BY DEF IInv, PushBinaryOp, TypeOK, PhaseInv, Phase, Outcomes, Failures, Loops, Calls, CallInv, PrefixOps
<1>5. StackInv'
  <2>1. cur' = cur /\ pc' = "nextTok" /\ cur.type = "BINARYOP" /\ pc = "addBinaryOp"
    BY DEF IInv, PushBinaryOp, PhaseInv, Phase
  <2>2. \A k \in DOMAIN stack' : stack'[k].type \in {"BINARYOP", "LPAREN"} \cup PrefixOps
    BY <1>b, <2>1 DEF IInv, StackInv
  <2>3. ASSUME NEW k \in DOMAIN stack', k < Len(stack'), stack'[k].type \in PrefixOps
        PROVE  stack'[k + 1].type \in {"FUNCCALL", "LPAREN"}
    <3>1. k \in 1..Len(stack) /\ stack'[k] = stack[k]
      BY <1>b, <2>3
    <3>2. CASE k < Len(stack)
      <4>1. k + 1 \in 1..Len(stack)
        BY <1>b, <3>1, <3>2
      <4>2. QED
        BY <1>b, <2>3, <3>1, <3>2, <4>1 DEF IInv, StackInv
    <3>3. CASE k = Len(stack)
      <4>a. stack # << >>
        BY <1>b, <3>1, EmptySeq
      <4>1. stack # << >> /\ Last(stack) = stack[k]
        BY <1>a, <3>3, <4>a, FrontLast
      <4>2. TopIsPrefixOp
        BY <2>3, <3>1, <4>1 DEF TopIsPrefixOp, TopIsOneOf
      <4>3. QED
        BY <2>1, <4>2 DEF IInv, StackInv, Phase
    <3>4. QED
      BY <1>b, <3>1, <3>2, <3>3
  <2>4. ~TopIsPrefixOp'
    BY <1>b, <2>1 DEF TopIsPrefixOp, TopIsOneOf, PrefixOps
  <2>5. QED
    BY <2>1, <2>2, <2>3, <2>4 DEF StackInv, Phase
<1>6. CallInv'
  BY DEF IInv, PushBinaryOp, TypeOK, CallInv, Loops, Outcomes, Failures
<1>7. BlocksInv'
  <2>1. pc = "addBinaryOp" /\ pc' = "nextTok" /\ cur.type = "BINARYOP"
    BY DEF IInv, PushBinaryOp, PhaseInv, Phase
  <2>2. Count(stack', {"LPAREN"}) = Count(stack, {"LPAREN"})
    BY <1>a, <1>c, <2>1, CountNat
  <2>3. QED
    BY <2>1, <2>2 DEF IInv, PushBinaryOp, BlocksInv, Running, Closing, Phase, Outcomes, Failures
<1>8. OperandsInv'
  <2>1. pc = "addBinaryOp" /\ pc' = "nextTok" /\ cur' = cur /\ cur.type = "BINARYOP"
    BY DEF IInv, PushBinaryOp, PhaseInv, Phase
  <2>2. Count(stack', {"BINARYOP"}) = Count(stack, {"BINARYOP"}) + 1
    BY <1>c, <2>1
  <2>3. Count(stack, {"BINARYOP"}) \in Nat /\ Commas(blocks) \in Nat /\ Len(types) \in Nat
    BY CountNat, CommasNat, LenProperties DEF IInv, TypeOK
  <2>4. Available(1)
    BY <2>1 DEF IInv, OperandsInv, Phase
  <2>5. Len(types) >= Count(stack, {"BINARYOP"}) + Commas(blocks) + 1
    BY <2>1, <2>3, <2>4 DEF Available
  <2>6. Available(0)'
    BY <2>1, <2>2, <2>3, <2>5 DEF Available, PushBinaryOp
  <2>7. QED
    BY <2>1, <2>6 DEF OperandsInv, Phase, Closing
<1>9. QED
  BY <1>1, <1>2, <1>3, <1>4, <1>5, <1>6, <1>7, <1>8 DEF IInv

LEMMA CompileToTokStep ==
    ASSUME IInv, CompileToTok
    PROVE  IInv'
<1>1. pc = "compileToTok" /\ Phase = "compileToTok"
      /\ stack \in Seq(Members) /\ stack # << >> /\ ~TopIsOneOf(StopTypes)
  BY DEF CompileToTok, Phase, IInv, TypeOK
<1>2. TopIsOneOf({"BINARYOP"})
  <2>1. Last(stack).type \in {"BINARYOP", "LPAREN"}
    <3>a. Last(stack) = stack[Len(stack)] /\ Len(stack) >= 1 /\ Len(stack) \in Nat
      BY <1>1, FrontLast
    <3>1. Last(stack) = stack[Len(stack)] /\ Len(stack) \in DOMAIN stack
      BY <1>1, <3>a, LenProperties
    <3>2. Last(stack).type \notin PrefixOps
      BY <1>1 DEF IInv, StackInv, TopIsPrefixOp, TopIsOneOf
    <3>3. QED
      BY <3>1, <3>2 DEF IInv, StackInv
  <2>2. Last(stack).type # "LPAREN"
    <3>1. SUFFICES ASSUME Last(stack).type = "LPAREN" PROVE FALSE
      OBVIOUS
    <3>2. cur.type = "END"
      BY <1>1, <3>1 DEF StopTypes, TopIsOneOf
    <3>3. Count(stack, {"LPAREN"}) = 0
      BY <1>1, <3>2 DEF IInv, BlocksInv, Closing, Running, Outcomes, Failures
    <3>4. Count(stack, {"LPAREN"}) = Count(Front(stack), {"LPAREN"}) + 1
      BY <1>1, <3>1, CountFront
    <3>5. Count(Front(stack), {"LPAREN"}) \in Nat
      BY <1>1, FrontLast, CountNat
    <3>6. QED
      BY <3>3, <3>4, <3>5
  <2>3. QED
    BY <1>1, <2>1, <2>2 DEF TopIsOneOf
<1>3. BeginBinary(Last(stack))
  BY <1>2 DEF CompileToTok
<1>4. Len(types) >= 2
  BY <1>1, <1>2, TwoOperands
<1>5. pc \in Loops /\ pc # "compilePrefixOps" /\ 2 \in Nat
  BY <1>1 DEF Loops
<1>6. QED
  BY <1>2, <1>3, <1>4, <1>5, BeginCallStep DEF BeginBinary

LEMMA CountCommaStep ==
    ASSUME IInv, CountComma
    PROVE  IInv'
<1>a. pc = "compileToTok" /\ Phase = "compileToTok" /\ Running /\ cur' = cur
      /\ cur.type = "COMMA" /\ (stack = << >> \/ TopIsOneOf(StopTypes))
  BY DEF CountComma, AtStop, Phase, Running, Outcomes, Failures
<1>b. /\ blocks \in Seq(Blocks) /\ Len(blocks) \in Nat /\ DOMAIN blocks = 1..Len(blocks)
      /\ blocks # << >> /\ Len(blocks) \in DOMAIN blocks
      /\ Count(stack, {"LPAREN"}) = Len(blocks) - 1
  <2>1. blocks # << >> /\ Count(stack, {"LPAREN"}) = Len(blocks) - 1
    BY <1>a DEF IInv, BlocksInv, Closing
  <2>2. QED
    BY <2>1, FrontLast, LenProperties DEF IInv, TypeOK
<1>c. blocks' = [blocks EXCEPT ![Len(blocks)].commas = @ + 1]
  BY DEF CountComma
<1>d. /\ DOMAIN blocks' = DOMAIN blocks /\ blocks' \in Seq(Blocks)
      /\ Len(blocks') = Len(blocks)
      /\ \A k \in DOMAIN blocks : blocks'[k].start = blocks[k].start
  <2>1. \A k \in DOMAIN blocks : blocks[k] \in Blocks
    BY <1>b, ElementOfSeq
  <2>2. DOMAIN blocks' = DOMAIN blocks
    BY <1>c
  <2>3. \A k \in DOMAIN blocks : blocks'[k] \in Blocks /\ blocks'[k].start = blocks[k].start
    BY <1>b, <1>c, <2>1 DEF Blocks
  <2>4. blocks' = [k \in 1..Len(blocks) |-> blocks'[k]]
    BY <1>b, <1>c
  <2>5. blocks' \in Seq(Blocks)
    BY <1>b, <2>3, <2>4, IsASeq
  <2>6. QED
    BY <1>b, <2>2, <2>3, <2>5, LenProperties
<1>e. Commas(blocks') = Commas(blocks) + 1
  BY <1>b, <1>c, CommasIncrement
<1>f. stack' = stack /\ types' = types /\ pc' = "nextTok"
  BY DEF CountComma
<1>1. TypeOK'
  BY <1>d DEF IInv, CountComma, TypeOK
<1>2. pc' \notin Failures
  BY DEF IInv, CountComma, TypeOK, Failures, Outcomes, Loops
<1>3. MembersInv'
  BY <1>a DEF IInv, CountComma, MembersInv, Outcomes, Failures
<1>4. PhaseInv'
  BY <1>a, <1>f DEF PhaseInv, Phase
<1>5. StackInv'
  <2>1. ~TopIsPrefixOp
    BY <1>a DEF IInv, StackInv
  <2>2. ~TopIsPrefixOp'
    BY <1>f, <2>1 DEF TopIsPrefixOp, TopIsOneOf
  <2>3. QED
    BY <1>f, <2>2 DEF IInv, StackInv, Phase
<1>6. CallInv'
  BY <1>f DEF CallInv
<1>7. BlocksInv'
  <2>1. blocks' # << >>
    <3>1. Len(blocks') # 0
      BY <1>b, <1>d, EmptySeq
    <3>2. QED
      BY <3>1, EmptySeq
  <2>2. QED
    BY <1>b, <1>d, <1>f, <2>1 DEF IInv, BlocksInv, Closing, Phase
<1>8. OperandsInv'
  <2>1. /\ Count(stack, {"BINARYOP"}) \in Nat /\ Commas(blocks) \in Nat /\ Len(types) \in Nat
    BY CountNat, CommasNat, LenProperties DEF IInv, TypeOK
  <2>2. Available(1)
    BY <1>a DEF IInv, OperandsInv
  <2>3. Available(0)'
    BY <1>a, <1>e, <1>f, <2>1, <2>2 DEF Available
  <2>4. QED
    BY <1>a, <1>f, <2>3 DEF OperandsInv, Phase, Closing
<1>9. QED
  BY <1>1, <1>2, <1>3, <1>4, <1>5, <1>6, <1>7, <1>8 DEF IInv

LEMMA PopParenthesisStep ==
    ASSUME IInv, PopParenthesis
    PROVE  IInv'
<1>a. pc = "compileToTok" /\ Phase = "compileToTok" /\ Running /\ cur' = cur
      /\ cur.type = "RPAREN" /\ (stack = << >> \/ TopIsOneOf(StopTypes))
  BY DEF PopParenthesis, AtStop, Phase, Running, Outcomes, Failures
<1>b. /\ stack \in Seq(Members) /\ blocks # << >>
      /\ Count(stack, {"LPAREN"}) = Len(blocks) /\ Len(blocks) \in Nat /\ Len(blocks) # 0
  <2>1. blocks # << >> /\ Count(stack, {"LPAREN"}) = Len(blocks)
    BY <1>a DEF IInv, BlocksInv, Closing
  <2>2. QED
    BY <2>1, EmptySeq, LenProperties DEF IInv, TypeOK
<1>c. stack # << >> /\ Last(stack).type = "LPAREN" /\ stack' = Front(stack)
  <2>1. stack # << >>
    BY <1>b, CountEmpty
  <2>2. QED
    BY <1>a, <2>1 DEF TopIsOneOf, StopTypes, PopParenthesis
<1>d. /\ stack' \in Seq(Members) /\ Len(stack') = Len(stack) - 1 /\ Len(stack) >= 1
      /\ \A k \in 1..(Len(stack) - 1) : stack'[k] = stack[k]
      /\ DOMAIN stack' = 1..(Len(stack) - 1) /\ DOMAIN stack = 1..Len(stack)
      /\ Len(stack) \in Nat
  <2>1. /\ stack' \in Seq(Members) /\ Len(stack') = Len(stack) - 1 /\ Len(stack) >= 1
        /\ \A k \in 1..(Len(stack) - 1) : stack'[k] = stack[k]
    BY <1>b, <1>c, FrontLast
  <2>2. QED
    BY <1>b, <2>1, LenProperties
<1>e. /\ Count(stack, {"LPAREN"}) = Count(stack', {"LPAREN"}) + 1
      /\ Count(stack, {"BINARYOP"}) = Count(stack', {"BINARYOP"})
  <2>1. /\ Count(stack, {"LPAREN"}) = Count(stack', {"LPAREN"})
              + (IF Last(stack).type \in {"LPAREN"} THEN 1 ELSE 0)
        /\ Count(stack, {"BINARYOP"}) = Count(stack', {"BINARYOP"})
              + (IF Last(stack).type \in {"BINARYOP"} THEN 1 ELSE 0)
    BY <1>b, <1>c, CountFront
  <2>2. Count(stack', {"BINARYOP"}) \in Nat
    BY <1>d, CountNat
  <2>3. QED
    BY <1>c, <2>1, <2>2
<1>f. pc' = "compilePrefixOps" /\ types' = types /\ blocks' = blocks /\ argCount' = argCount
  BY DEF PopParenthesis
<1>1. TypeOK'
  BY <1>d DEF IInv, PopParenthesis, TypeOK, Loops
<1>2. pc' \notin Failures
  BY DEF IInv, PopParenthesis, TypeOK, Failures, Outcomes, Loops
<1>3. MembersInv'
  BY <1>a DEF IInv, PopParenthesis, MembersInv, Outcomes, Failures
<1>4. PhaseInv'
  BY <1>a, <1>f DEF PhaseInv, Phase
<1>5. StackInv'
  <2>1. \A k \in DOMAIN stack' : stack'[k].type \in {"BINARYOP", "LPAREN"} \cup PrefixOps
    BY <1>d DEF IInv, StackInv
  <2>2. ASSUME NEW k \in DOMAIN stack', k < Len(stack'), stack'[k].type \in PrefixOps
        PROVE  stack'[k + 1].type \in {"FUNCCALL", "LPAREN"}
    <3>1. k \in DOMAIN stack /\ k + 1 \in DOMAIN stack' /\ k < Len(stack)
      BY <1>d, <2>2
    <3>2. stack'[k] = stack[k] /\ stack'[k + 1] = stack[k + 1]
      BY <1>d, <2>2, <3>1
    <3>3. QED
      BY <2>2, <3>1, <3>2 DEF IInv, StackInv
  <2>3. QED
    BY <1>f, <2>1, <2>2 DEF StackInv, Phase
<1>6. CallInv'
  BY <1>f DEF CallInv
<1>7. BlocksInv'
  <2>1. Count(stack', {"LPAREN"}) = Len(blocks) - 1
    <3>1. Count(stack', {"LPAREN"}) \in Nat
      BY <1>d, CountNat
    <3>2. QED
      BY <1>b, <1>e, <3>1
  <2>2. QED
    BY <1>b, <1>f, <2>1 DEF IInv, BlocksInv, Closing, Phase
<1>8. OperandsInv'
  <2>1. /\ Count(stack, {"BINARYOP"}) \in Nat /\ Commas(blocks) \in Nat /\ Len(types) \in Nat
        /\ argCount \in Nat
    BY CountNat, CommasNat, LenProperties DEF IInv, TypeOK
  <2>2. Available(argCount) /\ argCount >= 1
    BY <1>a DEF IInv, OperandsInv, Closing
  <2>3. Available(0)' /\ (Available(argCount))'
    BY <1>a, <1>e, <1>f, <2>1, <2>2 DEF Available
  <2>4. QED
    BY <1>f, <2>2, <2>3 DEF OperandsInv, Phase, Closing
<1>9. QED
  BY <1>1, <1>2, <1>3, <1>4, <1>5, <1>6, <1>7, <1>8 DEF IInv

LEMMA FinishStep ==
    ASSUME IInv, Finish
    PROVE  IInv'
<1>a. pc = "compileToTok" /\ Phase = "compileToTok" /\ Running /\ cur' = cur
      /\ cur.type = "END" /\ (stack = << >> \/ TopIsOneOf(StopTypes))
  BY DEF Finish, AtStop, Phase, Running, Outcomes, Failures
<1>b. types # << >>
  <2>1. /\ Count(stack, {"BINARYOP"}) \in Nat /\ Commas(blocks) \in Nat /\ Len(types) \in Nat
    BY CountNat, CommasNat, LenProperties DEF IInv, TypeOK
  <2>2. Available(1)
    BY <1>a DEF IInv, OperandsInv
  <2>3. Len(types) >= 1
    BY <1>a, <2>1, <2>2 DEF Available
  <2>4. QED
    BY <2>3, EmptySeq
<1>c. pc' = "ok"
  BY <1>b DEF Finish
<1>1. TypeOK'
  BY <1>c DEF IInv, Finish, TypeOK, Outcomes
<1>2. pc' \notin Failures
  BY <1>c DEF Failures
<1>3. MembersInv'
  BY <1>c DEF IInv, Finish, MembersInv, Outcomes
<1>4. PhaseInv'
  BY <1>c DEF PhaseInv, Phase
<1>5. StackInv'
  BY <1>c DEF IInv, Finish, StackInv, Phase
<1>6. CallInv'
  BY <1>c DEF CallInv
<1>7. BlocksInv'
  BY <1>c DEF IInv, Finish, BlocksInv, Running, Outcomes
<1>8. OperandsInv'
  BY <1>c DEF OperandsInv, Running, Phase, Closing, Outcomes
<1>9. QED
  BY <1>1, <1>2, <1>3, <1>4, <1>5, <1>6, <1>7, <1>8 DEF IInv

(* The arguments of a function, or of a unary operator, are in mTypes.     *)
LEMMA EnoughArguments ==
    ASSUME IInv, pc = "compilePrefixOps"
    PROVE  argCount \in Nat /\ Len(types) >= argCount
<1>1. /\ Count(stack, {"BINARYOP"}) \in Nat /\ Commas(blocks) \in Nat
      /\ Len(types) \in Nat /\ argCount \in Nat
  BY CountNat, CommasNat, LenProperties DEF IInv, TypeOK
<1>2. Available(argCount)
  BY DEF IInv, OperandsInv, Phase
<1>3. QED
  BY <1>1, <1>2 DEF Available

LEMMA CompileFunctionStep ==
    ASSUME IInv, CompileFunction
    PROVE  IInv'
<1>1. pc = "compilePrefixOps" /\ TopIsOneOf(PrefixOps) /\ pc \in Loops
      /\ BeginCall(tokens[Last(stack).index].value, argCount)
  BY DEF CompileFunction, TopIsOneOf, PrefixOps, Loops
<1>2. argCount \in Nat /\ Len(types) >= argCount
  BY <1>1, EnoughArguments
<1>3. QED
  BY <1>1, <1>2, BeginCallStep

LEMMA CompileUnaryOpStep ==
    ASSUME IInv, CompileUnaryOp
    PROVE  IInv'
<1>1. pc = "compilePrefixOps" /\ TopIsOneOf(PrefixOps) /\ pc \in Loops /\ argCount = 1
      /\ BeginCall(UnaryOperators[tokens[Last(stack).index].type], argCount)
  BY DEF CompileUnaryOp, TopIsOneOf, PrefixOps, Loops
<1>2. argCount \in Nat /\ Len(types) >= argCount
  BY <1>1, EnoughArguments
<1>3. QED
  BY <1>1, <1>2, BeginCallStep

LEMMA TooManyArgumentsStep ==
    ASSUME IInv, TooManyArguments
    PROVE  IInv'
<1>1. TypeOK'
  BY DEF IInv, TooManyArguments, TypeOK, Members, MemberTypes, Blocks, Operands, Ops, Outcomes, Failures, Loops
<1>2. pc' \notin Failures
  BY DEF IInv, TooManyArguments, TypeOK, Failures, Outcomes, Loops
<1>3. MembersInv'
  BY DEF IInv, TooManyArguments, TypeOK, MembersInv, PhaseInv, Outcomes, Failures, Loops, Phase, Calls
<1>4. PhaseInv'
  BY DEF IInv, TooManyArguments, TypeOK, PhaseInv, Phase, Outcomes, Failures, Loops, Calls, CallInv, PrefixOps
<1>5. StackInv'
  BY DEF IInv, TooManyArguments, TypeOK, StackInv, PhaseInv, Phase, TopIsPrefixOp, TopIsOneOf, PrefixOps,
         Outcomes, Failures, Loops
<1>6. CallInv'
  BY DEF IInv, TooManyArguments, TypeOK, CallInv, Loops, Outcomes, Failures
<1>7. BlocksInv'
  BY DEF IInv, TooManyArguments, TypeOK, BlocksInv, PhaseInv, Closing, Phase, Running, Outcomes,
         Failures, Loops
<1>8. OperandsInv'
  BY DEF IInv, TooManyArguments, TypeOK, OperandsInv, PhaseInv, Closing, Phase, Running, Available,
         Outcomes, Failures, Loops, AfterOperand
<1>9. QED
  BY <1>1, <1>2, <1>3, <1>4, <1>5, <1>6, <1>7, <1>8 DEF IInv

LEMMA PrefixOpsDoneStep ==
    ASSUME IInv, PrefixOpsDone
    PROVE  IInv'
<1>1. TypeOK'
  BY DEF IInv, PrefixOpsDone, TypeOK, Members, MemberTypes, Blocks, Operands, Ops, Outcomes, Failures, Loops
<1>2. pc' \notin Failures
  BY DEF IInv, PrefixOpsDone, TypeOK, Failures, Outcomes, Loops
<1>3. MembersInv'
  BY DEF IInv, PrefixOpsDone, TypeOK, MembersInv, PhaseInv, Outcomes, Failures, Loops, Phase, Calls
<1>4. PhaseInv'
  BY DEF IInv, PrefixOpsDone, TypeOK, PhaseInv, Phase, Outcomes, Failures, Loops, Calls, CallInv, PrefixOps
<1>5. StackInv'
  BY DEF IInv, PrefixOpsDone, TypeOK, StackInv, PhaseInv, Phase, TopIsPrefixOp, TopIsOneOf, PrefixOps,
         Outcomes, Failures, Loops
<1>6. CallInv'
  BY DEF IInv, PrefixOpsDone, TypeOK, CallInv, Loops, Outcomes, Failures
<1>7. BlocksInv'
  BY DEF IInv, PrefixOpsDone, TypeOK, BlocksInv, PhaseInv, Closing, Phase, Running, Outcomes,
         Failures, Loops
<1>8. OperandsInv'
  BY DEF IInv, PrefixOpsDone, TypeOK, OperandsInv, PhaseInv, Closing, Phase, Running, Available,
         Outcomes, Failures, Loops, AfterOperand
<1>9. QED
  BY <1>1, <1>2, <1>3, <1>4, <1>5, <1>6, <1>7, <1>8 DEF IInv

-----------------------------------------------------------------------------
(* The theorems. *)

LEMMA NextInv ==
    ASSUME IInv, [Next]_vars
    PROVE  IInv'
<1>1. CASE Step
  <2>1. CASE Preprocess
    BY <2>1, PreprocessStep
  <2>2. CASE PreprocessRejects
    BY <2>2, PreprocessRejectsStep
  <2>3. CASE PreprocessEnds
    BY <2>3, PreprocessEndsStep
  <2>4. CASE NextTok
    BY <2>4, NextTokStep
  <2>5. CASE OpenNewBlock
    BY <2>5, OpenNewBlockStep
  <2>6. CASE AddUnaryOp
    BY <2>6, AddUnaryOpStep
  <2>7. CASE AddBinaryOp
    BY <2>7, AddBinaryOpStep
  <2>8. CASE AddVariable
    BY <2>8, AddVariableStep
  <2>9. CASE AddLiteral
    BY <2>9, AddLiteralStep
  <2>10. CASE AddValueRejects
    BY <2>10, AddValueRejectsStep
  <2>11. CASE ApplyComma
    BY <2>11, ApplyCommaStep
  <2>12. CASE CloseParenthesis
    BY <2>12, CloseParenthesisStep
  <2>13. CASE CloseExpression
    BY <2>13, CloseExpressionStep
  <2>14. CASE InsertCast
    BY <2>14, InsertCastStep
  <2>15. CASE SkipCast
    BY <2>15, SkipCastStep
  <2>16. CASE EndCall
    BY <2>16, EndCallStep
  <2>17. CASE CompileStrongerOp
    BY <2>17, CompileStrongerOpStep
  <2>18. CASE PushBinaryOp
    BY <2>18, PushBinaryOpStep
  <2>19. CASE CompileToTok
    BY <2>19, CompileToTokStep
  <2>20. CASE CountComma
    BY <2>20, CountCommaStep
  <2>21. CASE PopParenthesis
    BY <2>21, PopParenthesisStep
  <2>22. CASE Finish
    BY <2>22, FinishStep
  <2>23. CASE CompileFunction
    BY <2>23, CompileFunctionStep
  <2>24. CASE CompileUnaryOp
    BY <2>24, CompileUnaryOpStep
  <2>25. CASE TooManyArguments
    BY <2>25, TooManyArgumentsStep
  <2>26. CASE PrefixOpsDone
    BY <2>26, PrefixOpsDoneStep
  <2>27. QED
    BY <1>1, <2>1, <2>2, <2>3, <2>4, <2>5, <2>6, <2>7, <2>8, <2>9, <2>10, <2>11, <2>12, <2>13, <2>14, <2>15, <2>16, <2>17, <2>18, <2>19, <2>20, <2>21, <2>22, <2>23, <2>24, <2>25, <2>26
       DEF Step
<1>2. CASE UNCHANGED vars
  BY <1>2 DEF vars, IInv, TypeOK, MembersInv, PhaseInv, StackInv, CallInv, BlocksInv,
         OperandsInv, Phase, Running, TopIsPrefixOp, TopIsOneOf, Closing, Available
<1>3. QED
  BY <1>1, <1>2 DEF Next, Terminated

(* The members, the stack of waiting operators, the open blocks and the    *)
(* operands keep step, for all expressions, functions and variables        *)
(* (postfix_compiler.cpp:216-293, 324-441).                                *)
THEOREM KeepsInStep == Spec => []IInv
<1>1. IInv /\ [Next]_vars => IInv'
  BY NextInv
<1>2. QED
  BY InitInv, <1>1, PTL DEF Spec

(* The state of the compiler stays well formed, whatever it is given.      *)
THEOREM TypeCorrect == Spec => []TypeOK
<1>1. IInv => TypeOK
  BY DEF IInv
<1>2. QED
  BY KeepsInStep, <1>1, PTL

(* No expression makes the compiler throw anything but a SyntaxError or    *)
(* read past its members (postfix_compiler.cpp:331-334, 354-357, 381-382,  *)
(* 421-433, 478): for all expressions, functions and variables.            *)
THEOREM NeverFailsInternally == Spec => []NoInternalError
<1>1. IInv => NoInternalError
  BY NextMember DEF IInv, NoInternalError
<1>2. QED
  BY KeepsInStep, <1>1, PTL
-----------------------------------------------------------------------------
(* The operands the compiler holds, by their places on the interpreter's   *)
(* stack: those of mTypes and, while the casts of a call are inserted, the *)
(* arguments it has taken from there.  An argument that has been looked at *)
(* has the type the function wants; the others still wait for their casts. *)
OperandCount == Len(types) + (IF pc = "casts" THEN Len(call.args) ELSE 0)

OperandAt(i) ==
    IF i <= Len(types) THEN [type |-> types[i].type, node |-> types[i].node, waits |-> TRUE]
    ELSE LET j == i - Len(types)
         IN  [type |-> IF j < call.next THEN call.func.args[j] ELSE call.args[j].type,
              node |-> call.args[j].node, waits |-> j >= call.next]

OnTheStack == [i \in 1..OperandCount |-> OperandAt(i)]

(* The arguments, of these types, are on top before and the result after.  *)
Replaces(before, args, type, after) ==
    /\ Len(after) >= 1
    /\ Len(after) + Len(args) = Len(before) + 1
    /\ \A j \in 1..Len(args) : before[Len(after) - 1 + j] = args[j]
    /\ \A j \in 1..(Len(after) - 1) : after[j] = before[j]
    /\ after[Len(after)] = type

(* What an operation does to the types on the stack, by the types of the   *)
(* stored variables.                                                       *)
Executes(store, before, op, after) ==
    \/ /\ op.op = "LOAD" /\ op.id \in DOMAIN store
       /\ Replaces(before, << >>, store[op.id].type, after)
    \/ /\ op.op = "CALL"
       /\ \E f \in Range(Functions.functions) :
             f.id = op.func /\ Replaces(before, f.args, f.ret, after)

(* T is what is on the stack after each of n operations.                   *)
Runs(T, n, ops, store) ==
    /\ T \in [0..n -> Seq(DataTypes)]
    /\ T[0] = << >>
    /\ \A k \in 1..n : Executes(store, T[k - 1], ops[k], T[k])

(* The operand in place i is complete after the operation c, the last that *)
(* leaves no more than i values on the stack, and is not touched after it. *)
CompleteAt(T, n, c, i, type) ==
    /\ c \in 1..n
    /\ Len(T[c]) = i
    /\ \A k \in 1..n : k > c => Len(T[k]) > i
    /\ \A k \in 1..n : k >= c => T[k][i] = type

(* The stack holds the operands in the end, and where a cast may have to   *)
(* be inserted their last operations are known.                            *)
Holds(T, n, ops, count, held) ==
    /\ Len(T[n]) = count
    /\ \A i \in 1..count : T[n][i] = held[i].type
    /\ \A i \in 1..count :
          held[i].waits => \E c \in 1..n : ops[c].node = held[i].node
                                              /\ CompleteAt(T, n, c, i, held[i].type)

Distinct(n, ops) ==
    /\ \A k \in 1..n : ops[k].node <= n
    /\ \A k, c \in 1..n : ops[k].node = ops[c].node => k = c

Mirrors(n, ops, store, count, held) ==
    /\ Distinct(n, ops)
    /\ \E T : Runs(T, n, ops, store) /\ Holds(T, n, ops, count, held)

TypingInv ==
    /\ Mirrors(Len(opList), opList, infos, OperandCount, OnTheStack)
    /\ pc = "casts" => call.func \in Range(Functions.functions)
-----------------------------------------------------------------------------
(* An operation behind all others, and the operand that it computes.       *)
LEMMA OperandAdded ==
    ASSUME NEW n \in Nat, NEW ops, NEW more, NEW store, NEW stored, NEW count, NEW held,
           NEW m \in Nat, NEW holds, NEW T, NEW top \in Seq(DataTypes),
           Distinct(n, ops), Runs(T, n, ops, store), Holds(T, n, ops, count, held), m <= count,
           count \in Nat, \A k \in 1..n : more[k] = ops[k] /\ ops[k].node \in Nat,
           more[n + 1].node = n + 1,
           \A before, op, after : Executes(store, before, op, after) =>
                                        Executes(stored, before, op, after),
           \A i \in 1..m : /\ holds[i].type = held[i].type /\ holds[i].node = held[i].node
                           /\ held[i].waits /\ top[i] = held[i].type,
           holds[m + 1].node = n + 1, top[m + 1] = holds[m + 1].type, Len(top) = m + 1,
           Executes(stored, T[n], more[n + 1], top)
    PROVE  Mirrors(n + 1, more, stored, m + 1, holds)
<1>1. PICK U : U = [k \in 0..(n + 1) |-> IF k = n + 1 THEN top ELSE T[k]]
  OBVIOUS
<1>2. /\ T \in [0..n -> Seq(DataTypes)] /\ T[0] = << >>
      /\ \A k \in 1..n : Executes(store, T[k - 1], ops[k], T[k])
  BY DEF Runs
<1>3. /\ U \in [0..(n + 1) -> Seq(DataTypes)] /\ U[0] = << >> /\ U[n + 1] = top
      /\ \A k \in 0..n : U[k] = T[k]
  BY <1>1, <1>2
<1>4. ASSUME NEW k \in 1..(n + 1) PROVE Executes(stored, U[k - 1], more[k], U[k])
  <2>1. CASE k = n + 1
    <3>1. k - 1 = n /\ U[n] = T[n]
      BY <1>3, <2>1
    <3> QED
      BY <1>3, <2>1, <3>1
  <2>2. CASE k # n + 1
    <3>1. k \in 1..n /\ k - 1 \in 0..n
      BY <2>2
    <3>2. U[k - 1] = T[k - 1] /\ U[k] = T[k] /\ more[k] = ops[k]
      BY <1>3, <3>1
    <3>3. Executes(store, T[k - 1], ops[k], T[k])
      BY <1>2, <3>1
    <3> QED
      BY <3>2, <3>3
  <2> QED
    BY <2>1, <2>2
<1>5. Runs(U, n + 1, more, stored)
  BY <1>3, <1>4 DEF Runs
<1>6. ASSUME NEW i \in 1..m
      PROVE  \E c \in 1..(n + 1) : /\ more[c].node = holds[i].node
                                   /\ CompleteAt(U, n + 1, c, i, holds[i].type)
  <2>1. i \in 1..count
    OBVIOUS
  <2>2. PICK c \in 1..n : ops[c].node = held[i].node /\ CompleteAt(T, n, c, i, held[i].type)
    BY <2>1 DEF Holds
  <2>3. /\ Len(T[c]) = i
        /\ \A k \in 1..n : k > c => Len(T[k]) > i
        /\ \A k \in 1..n : k >= c => T[k][i] = held[i].type
    BY <2>2 DEF CompleteAt
  <2>4. c \in 1..(n + 1) /\ more[c].node = holds[i].node /\ U[c] = T[c]
        /\ holds[i].type = held[i].type
    BY <1>3, <2>2
  <2>5. ASSUME NEW k \in 1..(n + 1)
        PROVE  (k > c => Len(U[k]) > i) /\ (k >= c => U[k][i] = held[i].type)
    <3>1. CASE k = n + 1
      BY <1>3, <3>1
    <3>2. CASE k # n + 1
      <4>1. k \in 1..n /\ U[k] = T[k]
        BY <1>3, <3>2
      <4> QED
        BY <2>3, <4>1
    <3> QED
      BY <3>1, <3>2
  <2>6. CompleteAt(U, n + 1, c, i, holds[i].type)
    BY <2>3, <2>4, <2>5 DEF CompleteAt
  <2> QED
    BY <2>4, <2>6
<1>7. CompleteAt(U, n + 1, n + 1, m + 1, holds[m + 1].type)
  <2>1. n + 1 \in 1..(n + 1) /\ \A k \in 1..(n + 1) : k >= n + 1 => k = n + 1
    OBVIOUS
  <2>2. Len(U[n + 1]) = m + 1 /\ U[n + 1][m + 1] = holds[m + 1].type
    BY <1>3
  <2>3. \A k \in 1..(n + 1) : ~(k > n + 1)
    OBVIOUS
  <2> QED
    BY <2>1, <2>2, <2>3 DEF CompleteAt
<1>8. Holds(U, n + 1, more, m + 1, holds)
  <2>1. Len(U[n + 1]) = m + 1
    BY <1>3
  <2>2. ASSUME NEW i \in 1..(m + 1) PROVE U[n + 1][i] = holds[i].type
    <3>1. i = m + 1 \/ i \in 1..m
      OBVIOUS
    <3> QED
      BY <1>3, <3>1
  <2>3. ASSUME NEW i \in 1..(m + 1)
        PROVE  \E c \in 1..(n + 1) : /\ more[c].node = holds[i].node
                                     /\ CompleteAt(U, n + 1, c, i, holds[i].type)
    <3>1. CASE i = m + 1
      <4>1. n + 1 \in 1..(n + 1) /\ more[n + 1].node = holds[m + 1].node
        OBVIOUS
      <4> QED
        BY <1>7, <3>1, <4>1
    <3>2. CASE i # m + 1
      <4>1. i \in 1..m
        BY <3>2
      <4> QED
        BY <1>6, <4>1
    <3> QED
      BY <3>1, <3>2
  <2> QED
    BY <2>1, <2>2, <2>3 DEF Holds
<1>9. Distinct(n + 1, more)
  <2>1. /\ \A k \in 1..n : ops[k].node <= n
        /\ \A k, c \in 1..n : ops[k].node = ops[c].node => k = c
    BY DEF Distinct
  <2>2. \A k \in 1..(n + 1) : k = n + 1 \/ k \in 1..n
    OBVIOUS
  <2>3. \A k \in 1..n : more[k].node \in Nat /\ more[k].node <= n
    BY <2>1
  <2>4. \A k \in 1..(n + 1) : more[k].node <= n + 1
    BY <2>2, <2>3
  <2>5. ASSUME NEW k \in 1..(n + 1), NEW c \in 1..(n + 1), more[k].node = more[c].node
        PROVE  k = c
    <3>1. k = n + 1 <=> c = n + 1
      BY <2>2, <2>3, <2>5
    <3>2. CASE k \in 1..n
      BY <2>1, <2>2, <2>5, <3>1, <3>2
    <3> QED
      BY <2>2, <3>1, <3>2
  <2> QED
    BY <2>4, <2>5 DEF Distinct
<1> QED
  BY <1>5, <1>8, <1>9 DEF Mirrors

(* What IInv says of the sequences that are typed.                         *)
LEMMA OpFacts ==
    ASSUME IInv
    PROVE  /\ opList \in Seq(Ops) /\ Len(opList) \in Nat /\ DOMAIN opList = 1..Len(opList)
           /\ \A k \in 1..Len(opList) : opList[k] \in Ops /\ opList[k].node \in Nat
           /\ types \in Seq(Operands) /\ Len(types) \in Nat /\ DOMAIN types = 1..Len(types)
           /\ \A k \in 1..Len(types) :
                 types[k] \in Operands /\ types[k].type \in DataTypes /\ types[k].node \in Nat
           /\ infos \in Seq(VariableInfo) /\ Len(infos) \in Nat /\ DOMAIN infos = 1..Len(infos)
           /\ \A k \in 1..Len(infos) : infos[k].type \in DataTypes
<1>1. opList \in Seq(Ops) /\ types \in Seq(Operands) /\ infos \in Seq(VariableInfo)
  BY DEF IInv, TypeOK
<1>2. \A op \in Ops : op.node \in Nat
  BY DEF Ops
<1>3. \A operand \in Operands : operand.type \in DataTypes /\ operand.node \in Nat
  BY DEF Operands
<1>4. \A info \in VariableInfo : info.type \in DataTypes
  BY DEF VariableInfo
<1>5. Len(opList) \in Nat /\ DOMAIN opList = 1..Len(opList) /\ \A k \in 1..Len(opList) : opList[k] \in Ops
  BY <1>1
<1>6. Len(types) \in Nat /\ DOMAIN types = 1..Len(types) /\ \A k \in 1..Len(types) : types[k] \in Operands
  BY <1>1
<1>7. Len(infos) \in Nat /\ DOMAIN infos = 1..Len(infos)
      /\ \A k \in 1..Len(infos) : infos[k] \in VariableInfo
  BY <1>1
<1> QED
  BY <1>1, <1>2, <1>3, <1>4, <1>5, <1>6, <1>7

(* While a call is compiled.                                               *)
LEMMA CallFacts ==
    ASSUME IInv, pc = "casts"
    PROVE  /\ call.args \in Seq(Operands) /\ Len(call.args) \in Nat
           /\ call.func \in FunctionInfo /\ call.func.args \in Seq(DataTypes)
           /\ Len(call.func.args) = Len(call.args) /\ call.next \in Nat
           /\ call.func.ret \in DataTypes /\ call.func.id \in FunctionIds
           /\ DOMAIN call.args = 1..Len(call.args)
           /\ DOMAIN call.func.args = 1..Len(call.args)
           /\ \A j \in 1..Len(call.args) :
                 /\ call.args[j].type \in DataTypes /\ call.args[j].node \in Nat
                 /\ call.func.args[j] \in DataTypes
<1>1. call \in Calls /\ Len(call.func.args) = Len(call.args)
  BY DEF IInv, CallInv
<1>2. call.args \in Seq(Operands) /\ call.func \in FunctionInfo /\ call.next \in Nat
  BY <1>1 DEF Calls
<1>3. call.func.args \in Seq(DataTypes) /\ call.func.ret \in DataTypes /\ call.func.id \in FunctionIds
  BY <1>2 DEF FunctionInfo
<1>4. \A operand \in Operands : operand.type \in DataTypes /\ operand.node \in Nat
  BY DEF Operands
<1>5. Len(call.args) \in Nat /\ DOMAIN call.args = 1..Len(call.args)
      /\ \A j \in 1..Len(call.args) : call.args[j] \in Operands
  BY <1>2
<1>6. DOMAIN call.func.args = 1..Len(call.args)
      /\ \A j \in 1..Len(call.args) : call.func.args[j] \in DataTypes
  BY <1>1, <1>3, <1>5
<1> QED
  BY <1>1, <1>2, <1>3, <1>4, <1>5, <1>6

(* The functions of the storage, and what they take and give.              *)
LEMMA Registered ==
    /\ Functions.functions \in Seq(FunctionInfo)
    /\ \A f \in Range(Functions.functions) :
          f \in FunctionInfo /\ f.args \in Seq(DataTypes) /\ f.ret \in DataTypes
<1>1. Functions.functions \in Seq(FunctionInfo)
  BY ContextAssumption DEF IsFunctionStorage
<1>2. \A f \in Range(Functions.functions) : f \in FunctionInfo
  BY <1>1 DEF Range
<1>3. \A f \in FunctionInfo : f.args \in Seq(DataTypes) /\ f.ret \in DataTypes
  BY DEF FunctionInfo
<1> QED
  BY <1>1, <1>2, <1>3

(* The element e has been inserted into s before place p.                  *)
IsInsertion(t, s, p, e) ==
    /\ Len(t) = Len(s) + 1
    /\ \A k \in 1..(Len(s) + 1) : t[k] = IF k < p THEN s[k] ELSE IF k = p THEN e ELSE s[k - 1]

(* InsertAt inserts.                                                       *)
LEMMA InsertAtFacts ==
    ASSUME NEW S, NEW s \in Seq(S), NEW e \in S, NEW p \in 1..(Len(s) + 1)
    PROVE  IsInsertion(InsertAt(s, p, e), s, p, e)
<1> DEFINE a == SubSeq(s, 1, p - 1)
           b == SubSeq(s, p, Len(s))
<1>1. Len(s) \in Nat /\ \A n \in 1..Len(s) : s[n] \in S
  BY LenProperties, ElementOfSeq
<1>2. /\ a \in Seq(S) /\ Len(a) = p - 1
      /\ \A k \in 1..(p - 1) : a[k] = s[k]
  BY <1>1, SubSeqProperties
<1>3. /\ b \in Seq(S) /\ Len(b) = Len(s) - p + 1
      /\ \A k \in 1..(Len(s) - p + 1) : b[k] = s[p + k - 1]
  BY <1>1, SubSeqProperties
<1>4. <<e>> \in Seq(S) /\ Len(<<e>>) = 1 /\ <<e>>[1] = e
  OBVIOUS
<1> HIDE DEF a, b
<1>5. /\ a \o <<e>> \in Seq(S) /\ Len(a \o <<e>>) = p
      /\ \A k \in 1..p : (a \o <<e>>)[k] = IF k < p THEN s[k] ELSE e
  BY <1>1, <1>2, <1>4, ConcatProperties
<1> DEFINE c == a \o <<e>>
<1> HIDE DEF c
<1>6. /\ c \o b \in Seq(S)
      /\ Len(c \o b) = Len(s) + 1
      /\ \A k \in 1..(Len(s) + 1) : (c \o b)[k] = IF k <= p THEN c[k] ELSE b[k - p]
  <2>1. c \in Seq(S) /\ Len(c) = p
    BY <1>5 DEF c
  <2>2. Len(c) + Len(b) = Len(s) + 1
    BY <2>1, <1>1, <1>3
  <2>3. /\ c \o b \in Seq(S) /\ Len(c \o b) = Len(c) + Len(b)
        /\ \A k \in 1..(Len(c) + Len(b)) :
                (c \o b)[k] = IF k <= Len(c) THEN c[k] ELSE b[k - Len(c)]
    BY <2>1, <1>3, ConcatProperties
  <2>4. QED
    BY <2>1, <2>2, <2>3
<1>7. \A k \in 1..(Len(s) + 1) : k > p => b[k - p] = s[k - 1]
  BY <1>1, <1>3
<1>8. InsertAt(s, p, e) = c \o b
  BY DEF InsertAt, a, b, c
<1>9. \A k \in 1..p : c[k] = IF k < p THEN s[k] ELSE e
  BY <1>5 DEF c
<1>10. QED
  BY <1>1, <1>6, <1>7, <1>8, <1>9 DEF IsInsertion

(* Where the elements are found after the insertion.                       *)
LEMMA InsertAtPlaces ==
    ASSUME NEW S, NEW s \in Seq(S), NEW e \in S, NEW p \in 1..Len(s), NEW t,
           t = InsertAt(s, p + 1, e)
    PROVE  /\ Len(t) = Len(s) + 1
           /\ \A k \in 1..(Len(s) + 1) :
                 t[k] = IF k <= p THEN s[k] ELSE IF k = p + 1 THEN e ELSE s[k - 1]
<1>1. PICK q : q = p + 1
  OBVIOUS
<1>2. q \in 1..(Len(s) + 1) /\ Len(s) \in Nat
  BY <1>1
<1>3. /\ Len(InsertAt(s, q, e)) = Len(s) + 1
      /\ \A k \in 1..(Len(s) + 1) :
            InsertAt(s, q, e)[k] = IF k < q THEN s[k] ELSE IF k = q THEN e ELSE s[k - 1]
  BY <1>2, InsertAtFacts DEF IsInsertion
<1>4. t = InsertAt(s, q, e)
  BY <1>1
<1>5. \A k \in 1..(Len(s) + 1) : k < q <=> k <= p
  BY <1>1, <1>2
<1> QED
  BY <1>1, <1>3, <1>4, <1>5

Changed(s, i, to, t) ==
    /\ t \in Seq(DataTypes) /\ Len(t) = Len(s)
    /\ \A j \in 1..Len(s) : t[j] = IF j = i THEN to ELSE s[j]

(* Another type in place i, below all that an operation pops or pushes.    *)
LEMMA Untouched ==
    ASSUME NEW before \in Seq(DataTypes), NEW after \in Seq(DataTypes),
           NEW args \in Seq(DataTypes), NEW type, Replaces(before, args, type, after),
           NEW i \in Nat, i > 0, Len(after) > i, NEW to,
           NEW b, Changed(before, i, to, b), NEW a, Changed(after, i, to, a)
    PROVE  Replaces(b, args, type, a)
<1>a. /\ b \in Seq(DataTypes) /\ Len(b) = Len(before)
      /\ \A j \in 1..Len(before) : b[j] = IF j = i THEN to ELSE before[j]
      /\ a \in Seq(DataTypes) /\ Len(a) = Len(after)
      /\ \A j \in 1..Len(after) : a[j] = IF j = i THEN to ELSE after[j]
  BY DEF Changed
<1>1. /\ Len(after) \in Nat /\ Len(before) \in Nat /\ Len(args) \in Nat
      /\ Len(after) >= 1 /\ Len(after) + Len(args) = Len(before) + 1
      /\ \A j \in 1..Len(args) : before[Len(after) - 1 + j] = args[j]
      /\ \A j \in 1..(Len(after) - 1) : after[j] = before[j]
      /\ after[Len(after)] = type
  BY DEF Replaces
<1>2. ASSUME NEW j \in 1..Len(args) PROVE b[Len(a) - 1 + j] = args[j]
  <2>1. Len(after) - 1 + j \in 1..Len(before) /\ Len(after) - 1 + j # i
    BY <1>a, <1>1
  <2> QED
    BY <1>a, <1>1, <2>1
<1>3. ASSUME NEW j \in 1..(Len(a) - 1) PROVE a[j] = b[j]
  <2>1. j \in 1..Len(before) /\ j \in 1..Len(after)
    BY <1>a, <1>1
  <2> QED
    BY <1>a, <1>1, <2>1
<1>4. a[Len(a)] = type
  BY <1>a, <1>1
<1> QED
  BY <1>a, <1>1, <1>2, <1>3, <1>4 DEF Replaces

(* An operation is inserted right behind the one at "at" ...               *)
Inserted(n, ops, at, op, more) ==
    \A k \in 1..(n + 1) : more[k] = IF k <= at THEN ops[k]
                                    ELSE IF k = at + 1 THEN op ELSE ops[k - 1]

(* ... which casts what is on top of the stack ...                         *)
IsCast(op, from, to) ==
    /\ op.op = "CALL"
    /\ \E f \in Range(Functions.functions) : f.id = op.func /\ f.args = <<from>> /\ f.ret = to

(* ... and the operand in place i no longer waits for it.                  *)
HasGot(count, held, i, holds) ==
    /\ held[i].waits /\ holds[i].waits = FALSE
    /\ \A q \in 1..count : q # i => /\ holds[q].type = held[q].type /\ holds[q].node = held[q].node
                                    /\ holds[q].waits = held[q].waits

(* A cast in the code right behind the operand in place i.                 *)
LEMMA CastInserted ==
    ASSUME NEW n \in Nat, NEW ops, NEW more, NEW store, NEW count \in Nat, NEW held, NEW holds,
           NEW T, Distinct(n, ops), Runs(T, n, ops, store), Holds(T, n, ops, count, held),
           NEW i \in 1..count, NEW at \in 1..n, NEW op, Inserted(n, ops, at, op, more),
           \A k \in 1..n : ops[k].node \in Nat, ops[at].node = held[i].node, op.node = n + 1,
           IsCast(op, held[i].type, holds[i].type), HasGot(count, held, i, holds)
    PROVE  Mirrors(n + 1, more, store, count, holds)
<1>a. \A k \in 1..(n + 1) : more[k] = IF k <= at THEN ops[k]
                                      ELSE IF k = at + 1 THEN op ELSE ops[k - 1]
  BY DEF Inserted
<1>b. PICK f \in Range(Functions.functions) :
          /\ op.op = "CALL" /\ op.func = f.id
          /\ f.args = <<held[i].type>> /\ f.ret = holds[i].type
  BY DEF IsCast
<1>c. /\ held[i].waits /\ holds[i].waits = FALSE
      /\ \A q \in 1..count : q # i => /\ holds[q].type = held[q].type
                                      /\ holds[q].node = held[q].node
                                      /\ holds[q].waits = held[q].waits
  BY DEF HasGot
<1> DEFINE to == holds[i].type
           from == held[i].type
<1>1. to \in DataTypes
  BY <1>b, Registered
<1>2. /\ T \in [0..n -> Seq(DataTypes)] /\ T[0] = << >>
      /\ \A k \in 1..n : Executes(store, T[k - 1], ops[k], T[k])
  BY DEF Runs
<1>3. CompleteAt(T, n, at, i, from)
  <2>1. PICK c \in 1..n : ops[c].node = held[i].node /\ CompleteAt(T, n, c, i, from)
    BY <1>c DEF Holds
  <2>2. c = at
    BY <2>1 DEF Distinct
  <2> QED
    BY <2>1, <2>2
<1>4. /\ Len(T[at]) = i
      /\ \A k \in 1..n : k > at => Len(T[k]) > i
      /\ \A k \in 1..n : k >= at => T[k][i] = from
  BY <1>3 DEF CompleteAt
<1> HIDE DEF to, from
<1>5. PICK E : E = [k \in 0..n |-> [T[k] EXCEPT ![i] = to]]
  OBVIOUS
<1>6. ASSUME NEW k \in 0..n, k >= at
      PROVE  /\ E[k] \in Seq(DataTypes) /\ Len(E[k]) = Len(T[k]) /\ Len(T[k]) >= i
             /\ T[k] \in Seq(DataTypes) /\ Len(T[k]) \in Nat
             /\ \A j \in 1..Len(T[k]) : E[k][j] = IF j = i THEN to ELSE T[k][j]
  <2>1. T[k] \in Seq(DataTypes) /\ Len(T[k]) \in Nat
    BY <1>2
  <2>2. Len(T[k]) >= i
    <3>1. k = at \/ k > at
      BY <1>6
    <3> QED
      BY <1>4, <2>1, <3>1
  <2>3. PICK s \in Seq(DataTypes) : s = T[k]
    BY <2>1
  <2>4. i \in 1..Len(s)
    BY <2>1, <2>2, <2>3
  <2>5. /\ [s EXCEPT ![i] = to] \in Seq(DataTypes)
        /\ Len([s EXCEPT ![i] = to]) = Len(s)
        /\ \A j \in 1..Len(s) : [s EXCEPT ![i] = to][j] = IF j = i THEN to ELSE s[j]
    BY <1>1, <2>4, ExceptSeq
  <2>6. E[k] = [s EXCEPT ![i] = to]
    BY <1>5, <2>3
  <2> QED
    BY <2>1, <2>2, <2>3, <2>5, <2>6
<1>7. PICK U : U = [k \in 0..(n + 1) |-> IF k <= at THEN T[k] ELSE E[k - 1]]
  OBVIOUS
<1>8. /\ \A k \in 0..at : U[k] = T[k]
      /\ \A k \in (at + 1)..(n + 1) : k - 1 \in at..n /\ U[k] = E[k - 1]
      /\ U[0] = << >>
  <2>1. \A k \in 0..at : U[k] = T[k]
    BY <1>7
  <2>2. \A k \in (at + 1)..(n + 1) : k - 1 \in at..n /\ U[k] = E[k - 1]
    BY <1>7
  <2>3. 0 \in 0..at
    OBVIOUS
  <2> QED
    BY <1>2, <2>1, <2>2, <2>3
<1>9. U \in [0..(n + 1) -> Seq(DataTypes)]
  <2>1. ASSUME NEW k \in 0..(n + 1) PROVE U[k] \in Seq(DataTypes)
    <3>1. CASE k <= at
      <4>1. k \in 0..at /\ k \in 0..n
        BY <3>1
      <4> QED
        BY <1>2, <1>8, <4>1
    <3>2. CASE k > at
      <4>1. k \in (at + 1)..(n + 1)
        BY <3>2
      <4>2. k - 1 \in 0..n /\ k - 1 >= at
        BY <4>1
      <4> QED
        BY <1>6, <1>8, <4>1, <4>2
    <3> QED
      BY <3>1, <3>2
  <2> QED
    BY <1>7, <2>1
<1>10. ASSUME NEW k \in 1..(n + 1) PROVE Executes(store, U[k - 1], more[k], U[k])
  <2>1. CASE k <= at
    <3>1. k \in 1..n /\ k \in 0..at /\ k - 1 \in 0..at
      BY <2>1
    <3>2. U[k] = T[k] /\ U[k - 1] = T[k - 1] /\ more[k] = ops[k]
      BY <1>a, <1>8, <2>1, <3>1
    <3>3. Executes(store, T[k - 1], ops[k], T[k])
      BY <1>2, <3>1
    <3> QED
      BY <3>2, <3>3
  <2>2. CASE k = at + 1
    <3>1. /\ E[at] \in Seq(DataTypes) /\ Len(E[at]) = Len(T[at]) /\ Len(T[at]) = i
          /\ \A j \in 1..Len(T[at]) : E[at][j] = IF j = i THEN to ELSE T[at][j]
      <4>1. at \in 0..n /\ at >= at
        OBVIOUS
      <4> QED
        BY <1>4, <1>6, <4>1
    <3>2. Replaces(T[at], f.args, f.ret, E[at])
      <4>1. Len(f.args) = 1 /\ f.args[1] = from
        BY <1>b DEF from
      <4>2. Len(E[at]) = i /\ i >= 1 /\ i \in Nat
        BY <3>1
      <4>3. \A j \in 1..1 : T[at][i - 1 + j] = f.args[j]
        <5>1. \A j \in 1..1 : j = 1
          OBVIOUS
        <5>2. i - 1 + 1 = i /\ T[at][i] = from
          BY <1>4
        <5> QED
          BY <4>1, <5>1, <5>2
      <4>4. \A j \in 1..(i - 1) : E[at][j] = T[at][j]
        BY <3>1
      <4>5. E[at][i] = f.ret
        BY <1>b, <3>1 DEF to
      <4> QED
        BY <3>1, <4>1, <4>2, <4>3, <4>4, <4>5 DEF Replaces
    <3>3. U[k - 1] = T[at] /\ U[k] = E[at] /\ more[k] = op
      <4>1. k - 1 = at /\ k \in (at + 1)..(n + 1) /\ at \in 0..at /\ ~(k <= at)
        BY <2>2
      <4>2. U[k] = E[k - 1] /\ U[at] = T[at]
        BY <1>8, <4>1
      <4> QED
        BY <1>a, <2>2, <4>1, <4>2
    <3> QED
      BY <1>b, <3>2, <3>3 DEF Executes
  <2>3. CASE k > at + 1
    <3>1. PICK o \in 1..n : o = k - 1 /\ o > at /\ o - 1 \in 0..n /\ o - 1 >= at
      BY <2>3
    <3>2. U[k - 1] = E[o - 1] /\ U[k] = E[o] /\ more[k] = ops[o]
      <4>1. k \in (at + 1)..(n + 1) /\ o \in (at + 1)..(n + 1) /\ ~(k <= at) /\ k # at + 1
        BY <2>3, <3>1
      <4>2. U[k] = E[k - 1] /\ U[o] = E[o - 1]
        BY <1>8, <4>1
      <4> QED
        BY <1>a, <3>1, <4>1, <4>2
    <3>3. Executes(store, T[o - 1], ops[o], T[o])
      BY <1>2, <3>1
    <3>4. ASSUME NEW args \in Seq(DataTypes), NEW type, Replaces(T[o - 1], args, type, T[o])
          PROVE  Replaces(E[o - 1], args, type, E[o])
      <4>1. /\ E[o - 1] \in Seq(DataTypes) /\ Len(E[o - 1]) = Len(T[o - 1])
            /\ T[o - 1] \in Seq(DataTypes)
            /\ \A j \in 1..Len(T[o - 1]) : E[o - 1][j] = IF j = i THEN to ELSE T[o - 1][j]
        BY <1>6, <3>1
      <4>2. /\ E[o] \in Seq(DataTypes) /\ Len(E[o]) = Len(T[o]) /\ T[o] \in Seq(DataTypes)
            /\ \A j \in 1..Len(T[o]) : E[o][j] = IF j = i THEN to ELSE T[o][j]
        <5>1. o \in 0..n /\ o >= at
          BY <3>1
        <5> QED
          BY <1>6, <5>1
      <4>3. i \in Nat /\ i > 0 /\ Len(T[o]) > i
        BY <1>4, <3>1
      <4>4. Changed(T[o - 1], i, to, E[o - 1]) /\ Changed(T[o], i, to, E[o])
        BY <4>1, <4>2 DEF Changed
      <4> QED
        BY <3>4, <4>1, <4>2, <4>3, <4>4, Untouched
    <3>5. Executes(store, E[o - 1], ops[o], E[o])
      <4>1. << >> \in Seq(DataTypes)
        OBVIOUS
      <4>2. \A g \in Range(Functions.functions) : g.args \in Seq(DataTypes)
        BY Registered
      <4> QED
        BY <3>3, <3>4, <4>1, <4>2 DEF Executes
    <3> QED
      BY <3>2, <3>5
  <2> QED
    BY <2>1, <2>2, <2>3
<1>11. Runs(U, n + 1, more, store)
  BY <1>8, <1>9, <1>10 DEF Runs
<1>12. ASSUME NEW q \in 1..count, holds[q].waits
       PROVE  \E c \in 1..(n + 1) : /\ more[c].node = holds[q].node
                                     /\ CompleteAt(U, n + 1, c, q, holds[q].type)
  <2>1. /\ q # i /\ held[q].waits
        /\ holds[q].type = held[q].type /\ holds[q].node = held[q].node
    BY <1>c, <1>12
  <2>2. PICK c \in 1..n : ops[c].node = held[q].node /\ CompleteAt(T, n, c, q, held[q].type)
    BY <2>1 DEF Holds
  <2>3. /\ Len(T[c]) = q
        /\ \A k \in 1..n : k > c => Len(T[k]) > q
        /\ \A k \in 1..n : k >= c => T[k][q] = held[q].type
    BY <2>2 DEF CompleteAt
  <2>4. c # at
    BY <1>4, <2>1, <2>3
  <2>5. CASE c < at
    <3>1. U[c] = T[c] /\ more[c] = ops[c] /\ c \in 1..(n + 1)
      BY <1>a, <1>8, <2>5
    <3>2. ASSUME NEW k \in 1..(n + 1)
          PROVE  (k > c => Len(U[k]) > q) /\ (k >= c => U[k][q] = held[q].type)
      <4>1. CASE k <= at
        <5>1. k \in 1..n /\ U[k] = T[k]
          BY <1>8, <4>1
        <5> QED
          BY <2>3, <5>1
      <4>2. CASE k > at
        <5>1. PICK o \in 1..n : o = k - 1 /\ o >= at
          BY <4>2
        <5>2. U[k] = E[o]
          <6>1. k \in (at + 1)..(n + 1)
            BY <4>2
          <6> QED
            BY <1>8, <5>1, <6>1
        <5>3. /\ Len(E[o]) = Len(T[o]) /\ Len(T[o]) \in Nat
              /\ \A j \in 1..Len(T[o]) : E[o][j] = IF j = i THEN to ELSE T[o][j]
          <6>1. o \in 0..n
            OBVIOUS
          <6> QED
            BY <1>6, <5>1, <6>1
        <5>4. Len(T[o]) > q /\ T[o][q] = held[q].type
          BY <2>3, <2>5, <5>1
        <5>5. q \in 1..Len(T[o])
          BY <5>3, <5>4
        <5>6. E[o][q] = held[q].type
          BY <2>1, <5>3, <5>4, <5>5
        <5> QED
          BY <5>2, <5>3, <5>4, <5>6
      <4> QED
        BY <4>1, <4>2
    <3>3. CompleteAt(U, n + 1, c, q, holds[q].type)
      BY <2>1, <2>3, <3>1, <3>2 DEF CompleteAt
    <3> QED
      BY <2>1, <2>2, <3>1, <3>3
  <2>6. CASE c > at
    <3>1. /\ c + 1 \in (at + 1)..(n + 1) /\ c + 1 \in 1..(n + 1)
          /\ U[c + 1] = E[c] /\ more[c + 1] = ops[c]
      <4>1. c + 1 \in (at + 1)..(n + 1) /\ c + 1 \in 1..(n + 1) /\ c + 1 - 1 = c
        BY <2>6
      <4>2. U[c + 1] = E[c]
        BY <1>8, <4>1
      <4>3. more[c + 1] = ops[c]
        BY <1>a, <2>6, <4>1
      <4> QED
        BY <4>1, <4>2, <4>3
    <3>2. Len(E[c]) = q
      <4>1. c \in 0..n /\ c >= at
        BY <2>6
      <4> QED
        BY <1>6, <2>3, <4>1
    <3>3. ASSUME NEW k \in 1..(n + 1)
          PROVE  /\ k > c + 1 => Len(U[k]) > q
                 /\ k >= c + 1 => U[k][q] = held[q].type
      <4> SUFFICES ASSUME k >= c + 1
                   PROVE  (k > c + 1 => Len(U[k]) > q) /\ U[k][q] = held[q].type
        OBVIOUS
      <4>1. PICK o \in 1..n : o = k - 1 /\ o >= c /\ o >= at
        BY <2>6
      <4>2. U[k] = E[o]
        <5>1. k \in (at + 1)..(n + 1)
          BY <4>1
        <5> QED
          BY <1>8, <4>1, <5>1
      <4>3. /\ Len(E[o]) = Len(T[o]) /\ Len(T[o]) \in Nat
            /\ \A j \in 1..Len(T[o]) : E[o][j] = IF j = i THEN to ELSE T[o][j]
        <5>1. o \in 0..n
          OBVIOUS
        <5> QED
          BY <1>6, <4>1, <5>1
      <4>4. T[o][q] = held[q].type /\ (o > c => Len(T[o]) > q) /\ q \in 1..Len(T[o])
        <5>1. o = c \/ o > c
          BY <4>1
        <5> QED
          BY <2>3, <4>1, <4>3, <5>1
      <4> QED
        BY <2>1, <4>1, <4>2, <4>3, <4>4
    <3>4. CompleteAt(U, n + 1, c + 1, q, holds[q].type)
      BY <2>1, <3>1, <3>2, <3>3 DEF CompleteAt
    <3> QED
      BY <2>1, <2>2, <3>1, <3>4
  <2> QED
    BY <2>4, <2>5, <2>6
<1>13. Holds(U, n + 1, more, count, holds)
  <2>1. U[n + 1] = E[n] /\ n \in 0..n /\ n >= at
    <3>1. n + 1 \in (at + 1)..(n + 1) /\ n + 1 - 1 = n
      OBVIOUS
    <3> QED
      BY <1>8, <3>1
  <2>2. /\ Len(E[n]) = Len(T[n]) /\ \A j \in 1..Len(T[n]) : E[n][j] = IF j = i THEN to ELSE T[n][j]
    BY <1>6, <2>1
  <2>3. Len(T[n]) = count /\ \A q \in 1..count : T[n][q] = held[q].type
    BY DEF Holds
  <2>4. ASSUME NEW q \in 1..count PROVE U[n + 1][q] = holds[q].type
    <3>1. CASE q = i
      BY <2>1, <2>2, <2>3, <3>1 DEF to
    <3>2. CASE q # i
      BY <1>c, <2>1, <2>2, <2>3, <3>2
    <3> QED
      BY <3>1, <3>2
  <2> QED
    BY <1>12, <2>1, <2>2, <2>3, <2>4 DEF Holds
<1>14. Distinct(n + 1, more)
  <2>1. /\ \A k \in 1..n : ops[k].node <= n
        /\ \A k, c \in 1..n : ops[k].node = ops[c].node => k = c
    BY DEF Distinct
  <2> DEFINE old(k) == IF k <= at THEN k ELSE k - 1
  <2>2. ASSUME NEW k \in 1..(n + 1), k # at + 1
        PROVE  old(k) \in 1..n /\ more[k] = ops[old(k)]
    BY <1>a, <2>2
  <2>3. ASSUME NEW k \in 1..(n + 1), k # at + 1, NEW c \in 1..(n + 1), c # at + 1, old(k) = old(c)
        PROVE  k = c
    BY <2>3
  <2> HIDE DEF old
  <2>4. at + 1 \in 1..(n + 1) /\ more[at + 1].node = n + 1
    BY <1>a
  <2>5. \A k \in 1..(n + 1) : k # at + 1 => more[k].node \in Nat /\ more[k].node <= n
    BY <2>1, <2>2
  <2>6. \A k \in 1..(n + 1) : more[k].node <= n + 1
    BY <2>4, <2>5
  <2>7. ASSUME NEW k \in 1..(n + 1), NEW c \in 1..(n + 1), more[k].node = more[c].node
        PROVE  k = c
    <3>1. k = at + 1 <=> c = at + 1
      BY <2>4, <2>5, <2>7
    <3>2. CASE k # at + 1
      <4>1. /\ old(k) \in 1..n /\ more[k] = ops[old(k)]
            /\ old(c) \in 1..n /\ more[c] = ops[old(c)]
        BY <2>2, <3>1, <3>2
      <4>2. old(k) = old(c)
        BY <2>1, <2>7, <4>1
      <4> QED
        BY <2>3, <3>1, <3>2, <4>2
    <3> QED
      BY <3>1, <3>2
  <2> QED
    BY <2>6, <2>7 DEF Distinct
<1> QED
  BY <1>11, <1>13, <1>14 DEF Mirrors

-----------------------------------------------------------------------------
(* What is held, place by place.                                           *)
OperandsOK ==
    /\ OperandCount \in Nat
    /\ \A i \in 1..Len(types) :
          /\ i \in 1..OperandCount
          /\ OnTheStack[i].type = types[i].type /\ OnTheStack[i].node = types[i].node /\ OnTheStack[i].waits
    /\ pc # "casts" => OperandCount = Len(types)
    /\ pc = "casts" =>
          /\ OperandCount = Len(types) + Len(call.args)
          /\ \A j \in 1..Len(call.args) :
                /\ Len(types) + j \in 1..OperandCount
                /\ OnTheStack[Len(types) + j].node = call.args[j].node
                /\ OnTheStack[Len(types) + j].waits = (j >= call.next)
                /\ OnTheStack[Len(types) + j].type =
                      IF j < call.next THEN call.func.args[j] ELSE call.args[j].type

(* What the places of OnTheStack are, as facts for the provers.            *)
LEMMA OperandFacts == IInv => OperandsOK
<1> SUFFICES ASSUME IInv PROVE OperandsOK
  OBVIOUS
<1>1. Len(types) \in Nat
  BY OpFacts
<1>2. \A i : i <= Len(types) => /\ OperandAt(i).type = types[i].type /\ OperandAt(i).node = types[i].node
                                /\ OperandAt(i).waits
  BY DEF OperandAt
<1>3. CASE pc # "casts"
  <2>1. OperandCount = Len(types)
    BY <1>1, <1>3 DEF OperandCount
  <2>2. OnTheStack = [i \in 1..Len(types) |-> OperandAt(i)]
    BY <2>1 DEF OnTheStack
  <2> QED
    BY <1>1, <1>2, <1>3, <2>1, <2>2 DEF OperandsOK
<1>4. CASE pc = "casts"
  <2>1. Len(call.args) \in Nat /\ call.next \in Nat
    BY <1>4, CallFacts
  <2>2. OperandCount = Len(types) + Len(call.args)
    BY <1>4 DEF OperandCount
  <2>3. OnTheStack = [i \in 1..(Len(types) + Len(call.args)) |-> OperandAt(i)]
    BY <2>2 DEF OnTheStack
  <2>4. ASSUME NEW j \in 1..Len(call.args)
        PROVE  /\ Len(types) + j \in 1..OperandCount
               /\ OnTheStack[Len(types) + j].node = call.args[j].node
               /\ OnTheStack[Len(types) + j].waits = (j >= call.next)
               /\ OnTheStack[Len(types) + j].type =
                      IF j < call.next THEN call.func.args[j] ELSE call.args[j].type
    <3>1. PICK i : i = Len(types) + j
      OBVIOUS
    <3>2. i \in 1..(Len(types) + Len(call.args)) /\ ~(i <= Len(types)) /\ i - Len(types) = j
      BY <1>1, <2>1, <3>1
    <3>3. OperandAt(i) = [type |-> IF j < call.next THEN call.func.args[j] ELSE call.args[j].type,
                       node |-> call.args[j].node, waits |-> j >= call.next]
      BY <3>2 DEF OperandAt
    <3>4. OnTheStack[i] = OperandAt(i)
      BY <2>3, <3>2
    <3> QED
      BY <2>2, <3>1, <3>2, <3>3, <3>4
  <2> QED
    BY <1>1, <1>2, <1>4, <2>1, <2>2, <2>3, <2>4 DEF OperandsOK
<1> QED
  BY <1>3, <1>4

(* The same after a step.                                                  *)
LEMMA OperandFactsNext == IInv' => OperandsOK'
BY OperandFacts, PTL

(* The same operands, of which no more wait for a cast.                    *)
LEMMA SameOperands ==
    ASSUME NEW n, NEW ops, NEW store, NEW count, NEW held, NEW holds,
           Mirrors(n, ops, store, count, held),
           \A i \in 1..count : /\ holds[i].type = held[i].type /\ holds[i].node = held[i].node
                               /\ holds[i].waits => held[i].waits
    PROVE  Mirrors(n, ops, store, count, holds)
<1>1. PICK T : Runs(T, n, ops, store) /\ Holds(T, n, ops, count, held)
  BY DEF Mirrors
<1>2. Holds(T, n, ops, count, holds)
  BY <1>1 DEF Holds
<1> QED
  BY <1>1, <1>2 DEF Mirrors

(* Steps at which nothing is compiled.                                     *)
LEMMA NothingTyped ==
    ASSUME IInv, TypingInv, pc # "casts", pc' # "casts", UNCHANGED <<types, opList, infos>>
    PROVE  TypingInv'
<1>1. OperandCount' = OperandCount
  BY DEF OperandCount
<1>2. OperandCount = Len(types) /\ Len(types) \in Nat
  BY OpFacts DEF OperandCount
<1>3. \A i \in 1..Len(types) : OperandAt(i)' = OperandAt(i)
  BY <1>2 DEF OperandAt
<1>4. OnTheStack' = OnTheStack
  BY <1>1, <1>2, <1>3 DEF OnTheStack
<1> QED
  BY <1>1, <1>4 DEF TypingInv

(* A variable or a literal: one more operand.                              *)
LEMMA LoadTyped ==
    ASSUME IInv, IInv', TypingInv, pc = "dispatch", NEW storage \in Seq(VariableInfo),
           NEW id \in DOMAIN storage, Load(id, storage),
           \A k \in DOMAIN infos : k \in DOMAIN storage /\ storage[k].type = infos[k].type
    PROVE  TypingInv'
<1>1. PICK n \in Nat, m \in Nat : n = Len(opList) /\ m = Len(types)
  BY OpFacts
<1>2. PICK T : Runs(T, n, opList, infos) /\ Holds(T, n, opList, OperandCount, OnTheStack)
  BY <1>1 DEF TypingInv, Mirrors
<1>3. PICK type : type = storage[id].type
  OBVIOUS
<1>4. type \in DataTypes
  <2>1. storage[id] \in VariableInfo
    OBVIOUS
  <2> QED
    BY <1>3, <2>1 DEF VariableInfo
<1>5. PICK op : op = [op |-> "LOAD", id |-> id, node |-> n + 1]
  OBVIOUS
<1>6. PICK operand : operand = [type |-> type, node |-> n + 1]
  OBVIOUS
<1>7. /\ infos' = storage /\ opList' = Append(opList, op) /\ types' = Append(types, operand)
      /\ pc' = "compilePrefixOps"
  BY <1>1, <1>3, <1>5, <1>6 DEF Load
<1>8. /\ opList \in Seq(Ops) /\ types \in Seq(Operands)
      /\ \A k \in 1..n : opList[k].node \in Nat
  BY <1>1, OpFacts
<1>9. /\ opList'[n + 1] = op /\ Len(opList') = n + 1
      /\ \A k \in 1..n : opList'[k] = opList[k]
  <2>1. op \in Ops
    <3>1. id \in Nat
      OBVIOUS
    <3> QED
      BY <1>5, <3>1 DEF Ops
  <2> QED
    BY <1>1, <1>7, <1>8, <2>1, AppendProperties
<1>10. /\ types'[m + 1] = operand /\ Len(types') = m + 1
       /\ \A i \in 1..m : types'[i] = types[i]
  <2>1. operand \in Operands
    BY <1>4, <1>6 DEF Operands
  <2> QED
    BY <1>1, <1>7, <1>8, <2>1, AppendProperties
<1>11. OperandCount = m /\ \A i \in 1..m : OnTheStack[i].type = types[i].type /\ OnTheStack[i].node = types[i].node
                                          /\ OnTheStack[i].waits
  BY <1>1, OperandFacts DEF OperandsOK
<1>12. /\ OperandCount' = m + 1
       /\ \A i \in 1..(m + 1) : /\ OnTheStack'[i].type = types'[i].type /\ OnTheStack'[i].node = types'[i].node
                                /\ OnTheStack'[i].waits
  BY <1>7, <1>10, OperandFactsNext DEF OperandsOK
<1>13. PICK s : s = T[n]
  OBVIOUS
<1>14. s \in Seq(DataTypes) /\ Len(s) = m /\ \A i \in 1..m : s[i] = types[i].type
  <2>1. T \in [0..n -> Seq(DataTypes)] /\ n \in 0..n
    BY <1>2 DEF Runs
  <2>2. s \in Seq(DataTypes)
    BY <1>13, <2>1
  <2>3. Len(T[n]) = m /\ \A i \in 1..m : T[n][i] = OnTheStack[i].type
    BY <1>2, <1>11 DEF Holds
  <2> QED
    BY <1>11, <1>13, <2>2, <2>3
<1>15. PICK top : top = Append(s, type)
  OBVIOUS
<1>16. /\ top \in Seq(DataTypes) /\ Len(top) = m + 1 /\ top[m + 1] = type
       /\ \A i \in 1..m : top[i] = s[i]
  BY <1>4, <1>14, <1>15, AppendProperties
<1>17. Executes(storage, s, op, top)
  <2>1. Replaces(s, << >>, type, top)
    BY <1>14, <1>16 DEF Replaces
  <2> QED
    BY <1>3, <1>5, <2>1 DEF Executes
<1>18. \A before, o, after : Executes(infos, before, o, after) => Executes(storage, before, o, after)
  BY DEF Executes
<1>19. PICK held, holds, more, count :
           held = OnTheStack /\ holds = OnTheStack' /\ more = opList' /\ count = OperandCount
  OBVIOUS
<1>20. Mirrors(n + 1, more, storage, m + 1, holds)
  <2>1. Distinct(n, opList)
    BY <1>1 DEF TypingInv, Mirrors
  <2>2. Holds(T, n, opList, count, held) /\ m <= count /\ count \in Nat
    BY <1>2, <1>11, <1>19
  <2>3. \A k \in 1..n : more[k] = opList[k] /\ opList[k].node \in Nat
    BY <1>8, <1>9, <1>19
  <2>4. more[n + 1].node = n + 1
    BY <1>5, <1>9, <1>19
  <2>5. ASSUME NEW i \in 1..m
        PROVE  /\ holds[i].type = held[i].type /\ holds[i].node = held[i].node
               /\ holds[i].waits /\ held[i].waits /\ top[i] = held[i].type
    BY <1>10, <1>11, <1>12, <1>14, <1>16, <1>19
  <2>6. holds[m + 1].type = type /\ holds[m + 1].node = n + 1
    BY <1>6, <1>10, <1>12, <1>19
  <2>7. Executes(storage, T[n], more[n + 1], top)
    BY <1>9, <1>13, <1>17, <1>19
  <2> QED
    BY <1>2, <1>16, <1>18, <2>1, <2>2, <2>3, <2>4, <2>5, <2>6, <2>7, OperandAdded
<1> QED
  BY <1>7, <1>9, <1>12, <1>19, <1>20 DEF TypingInv

(* The call itself takes the arguments and gives one operand.              *)
LEMMA EndCallTyped ==
    ASSUME IInv, IInv', TypingInv, EndCall
    PROVE  TypingInv'
<1>1. PICK n \in Nat, m \in Nat : n = Len(opList) /\ m = Len(types)
  BY OpFacts
<1>2. PICK T : Runs(T, n, opList, infos) /\ Holds(T, n, opList, OperandCount, OnTheStack)
  BY <1>1 DEF TypingInv, Mirrors
<1>3. PICK func : func = call.func
  OBVIOUS
<1>4. PICK p \in Nat : p = Len(call.args)
  BY CallFacts DEF EndCall
<1>5. /\ pc = "casts" /\ call.next > p /\ call.next \in Nat
      /\ func.args \in Seq(DataTypes) /\ Len(func.args) = p
      /\ func.ret \in DataTypes /\ func.id \in FunctionIds
      /\ func \in Range(Functions.functions)
  BY <1>3, <1>4, CallFacts DEF EndCall, TypingInv
<1>6. PICK op : op = [op |-> "CALL", func |-> func.id, node |-> n + 1]
  OBVIOUS
<1>7. PICK operand : operand = [type |-> func.ret, node |-> n + 1]
  OBVIOUS
<1>8. /\ opList' = Append(opList, op) /\ types' = Append(types, operand) /\ infos' = infos
      /\ pc' # "casts"
  <2>1. opList' = Append(opList, op) /\ types' = Append(types, operand) /\ infos' = infos
    BY <1>1, <1>3, <1>6, <1>7 DEF EndCall, NewNode
  <2>2. pc' \in Loops
    BY <1>5 DEF EndCall, IInv, CallInv, Calls
  <2> QED
    BY <2>1, <2>2 DEF Loops
<1>9. /\ opList \in Seq(Ops) /\ types \in Seq(Operands)
      /\ \A k \in 1..n : opList[k].node \in Nat
  BY <1>1, OpFacts
<1>10. /\ opList'[n + 1] = op /\ Len(opList') = n + 1
       /\ \A k \in 1..n : opList'[k] = opList[k]
  <2>1. op \in Ops
    BY <1>5, <1>6 DEF Ops
  <2> QED
    BY <1>1, <1>8, <1>9, <2>1, AppendProperties
<1>11. /\ types'[m + 1] = operand /\ Len(types') = m + 1
       /\ \A i \in 1..m : types'[i] = types[i]
  <2>1. operand \in Operands
    BY <1>5, <1>7 DEF Operands
  <2> QED
    BY <1>1, <1>8, <1>9, <2>1, AppendProperties
<1>12. /\ OperandCount = m + p
       /\ \A i \in 1..m : /\ OnTheStack[i].type = types[i].type /\ OnTheStack[i].node = types[i].node
                          /\ OnTheStack[i].waits
       /\ \A j \in 1..p : OnTheStack[m + j].type = func.args[j]
  <2>1. /\ OperandCount = m + p
        /\ \A i \in 1..m : /\ OnTheStack[i].type = types[i].type /\ OnTheStack[i].node = types[i].node
                           /\ OnTheStack[i].waits
        /\ \A j \in 1..p : OnTheStack[m + j].type =
                              IF j < call.next THEN func.args[j] ELSE call.args[j].type
    BY <1>1, <1>3, <1>4, <1>5, OperandFacts DEF OperandsOK
  <2>2. \A j \in 1..p : j < call.next
    BY <1>5
  <2> QED
    BY <2>1, <2>2
<1>13. /\ OperandCount' = m + 1
       /\ \A i \in 1..(m + 1) : /\ OnTheStack'[i].type = types'[i].type /\ OnTheStack'[i].node = types'[i].node
                                /\ OnTheStack'[i].waits
  BY <1>8, <1>11, OperandFactsNext DEF OperandsOK
<1>14. PICK s : s = T[n]
  OBVIOUS
<1>15. /\ s \in Seq(DataTypes) /\ Len(s) = m + p /\ \A i \in 1..m : s[i] = types[i].type
       /\ \A j \in 1..p : s[m + j] = func.args[j]
  <2>1. T \in [0..n -> Seq(DataTypes)] /\ n \in 0..n
    BY <1>2 DEF Runs
  <2>2. s \in Seq(DataTypes)
    BY <1>14, <2>1
  <2>3. Len(T[n]) = m + p /\ \A i \in 1..(m + p) : T[n][i] = OnTheStack[i].type
    BY <1>2, <1>12 DEF Holds
  <2>4. /\ \A i \in 1..m : i \in 1..(m + p)
        /\ \A j \in 1..p : m + j \in 1..(m + p)
    OBVIOUS
  <2> QED
    BY <1>12, <1>14, <2>2, <2>3, <2>4
<1>16. PICK rest : rest = SubSeq(s, 1, m)
  OBVIOUS
<1>17. rest \in Seq(DataTypes) /\ Len(rest) = m /\ \A i \in 1..m : rest[i] = s[i]
  <2>1. \A i \in 1..m : s[i] \in DataTypes
    BY <1>15
  <2>2. /\ SubSeq(s, 1, m) \in Seq(DataTypes)
        /\ Len(SubSeq(s, 1, m)) = IF 1 <= m THEN m - 1 + 1 ELSE 0
        /\ \A i \in 1..(m - 1 + 1) : SubSeq(s, 1, m)[i] = s[1 + i - 1]
    BY <2>1, SubSeqProperties
  <2> QED
    BY <1>16, <2>2
<1>18. PICK top : top = Append(rest, func.ret)
  OBVIOUS
<1>19. /\ top \in Seq(DataTypes) /\ Len(top) = m + 1 /\ top[m + 1] = func.ret
       /\ \A i \in 1..m : top[i] = s[i]
  BY <1>5, <1>17, <1>18, AppendProperties
<1>20. Executes(infos, s, op, top)
  <2>1. Replaces(s, func.args, func.ret, top)
    BY <1>5, <1>15, <1>19 DEF Replaces
  <2> QED
    BY <1>5, <1>6, <2>1 DEF Executes
<1>21. PICK held, holds, more, count :
           held = OnTheStack /\ holds = OnTheStack' /\ more = opList' /\ count = OperandCount
  OBVIOUS
<1>22. Mirrors(n + 1, more, infos, m + 1, holds)
  <2>1. Distinct(n, opList)
    BY <1>1 DEF TypingInv, Mirrors
  <2>2. Holds(T, n, opList, count, held) /\ m <= count /\ count \in Nat
    BY <1>2, <1>12, <1>21
  <2>3. \A k \in 1..n : more[k] = opList[k] /\ opList[k].node \in Nat
    BY <1>9, <1>10, <1>21
  <2>4. more[n + 1].node = n + 1
    BY <1>6, <1>10, <1>21
  <2>5. ASSUME NEW i \in 1..m
        PROVE  /\ holds[i].type = held[i].type /\ holds[i].node = held[i].node
               /\ holds[i].waits /\ held[i].waits /\ top[i] = held[i].type
    BY <1>11, <1>12, <1>13, <1>15, <1>19, <1>21
  <2>6. holds[m + 1].type = func.ret /\ holds[m + 1].node = n + 1
    BY <1>7, <1>11, <1>13, <1>21
  <2>7. Executes(infos, T[n], more[n + 1], top)
    BY <1>10, <1>14, <1>20, <1>21
  <2> QED
    BY <1>2, <1>19, <2>1, <2>2, <2>3, <2>4, <2>5, <2>6, <2>7, OperandAdded
<1> QED
  BY <1>8, <1>10, <1>13, <1>21, <1>22 DEF TypingInv

(* An argument that has the type already.                                  *)
LEMMA SkipCastTyped ==
    ASSUME IInv, IInv', TypingInv, SkipCast
    PROVE  TypingInv'
<1>1. /\ pc = "casts" /\ UNCHANGED <<types, opList, infos, pc>>
      /\ call' = [call EXCEPT !.next = @ + 1]
      /\ call.next \in DOMAIN call.args
      /\ call.next \notin CastPositions(call.func, ArgTypes(call.args))
  BY DEF SkipCast
<1>2. PICK m \in Nat, p \in Nat, x \in Nat :
          m = Len(types) /\ p = Len(call.args) /\ x = call.next
  BY <1>1, OpFacts, CallFacts
<1>3. x \in 1..p /\ call.func.args[x] = call.args[x].type
  BY <1>1, <1>2, CallFacts DEF CastPositions, ArgTypes
<1>4. call'.args = call.args /\ call'.func = call.func /\ call'.next = x + 1
  <2>1. call \in Calls
    BY <1>1 DEF IInv, CallInv
  <2> QED
    BY <1>1, <1>2, <2>1 DEF Calls
<1>5. PICK held, holds : held = OnTheStack /\ holds = OnTheStack'
  OBVIOUS
<1>6. /\ OperandCount = m + p
      /\ \A i \in 1..m : /\ held[i].type = types[i].type /\ held[i].node = types[i].node
                         /\ held[i].waits
      /\ \A j \in 1..p : /\ held[m + j].node = call.args[j].node
                         /\ held[m + j].waits = (j >= x)
                         /\ held[m + j].type = IF j < x THEN call.func.args[j] ELSE call.args[j].type
  BY <1>1, <1>2, <1>5, OperandFacts DEF OperandsOK
<1>7. /\ OperandCount' = m + p
      /\ \A i \in 1..m : /\ holds[i].type = types[i].type /\ holds[i].node = types[i].node
                         /\ holds[i].waits
      /\ \A j \in 1..p : /\ holds[m + j].node = call.args[j].node
                         /\ holds[m + j].waits = (j >= x + 1)
                         /\ holds[m + j].type =
                               IF j < x + 1 THEN call.func.args[j] ELSE call.args[j].type
  BY <1>1, <1>2, <1>4, <1>5, OperandFactsNext DEF OperandsOK
<1>8. ASSUME NEW i \in 1..(m + p)
      PROVE  /\ holds[i].type = held[i].type /\ holds[i].node = held[i].node
             /\ holds[i].waits => held[i].waits
  <2>1. CASE i <= m
    <3>1. i \in 1..m
      BY <2>1
    <3> QED
      BY <1>6, <1>7, <3>1
  <2>2. CASE i > m
    <3>1. PICK j \in 1..p : i = m + j
      <4>1. i - m \in 1..p /\ i = m + (i - m)
        BY <2>2
      <4> QED
        BY <4>1
    <3>2. /\ held[i].node = call.args[j].node /\ held[i].waits = (j >= x)
          /\ held[i].type = IF j < x THEN call.func.args[j] ELSE call.args[j].type
      BY <1>6, <3>1
    <3>3. /\ holds[i].node = call.args[j].node /\ holds[i].waits = (j >= x + 1)
          /\ holds[i].type = IF j < x + 1 THEN call.func.args[j] ELSE call.args[j].type
      BY <1>7, <3>1
    <3>4. holds[i].type = held[i].type
      <4>1. CASE j = x
        BY <1>3, <3>2, <3>3, <4>1
      <4>2. CASE j # x
        <5>1. j < x <=> j < x + 1
          BY <4>2
        <5> QED
          BY <3>2, <3>3, <5>1
      <4> QED
        BY <4>1, <4>2
    <3>5. holds[i].waits => held[i].waits
      <4>1. j >= x + 1 => j >= x
        OBVIOUS
      <4> QED
        BY <3>2, <3>3, <4>1
    <3> QED
      BY <3>2, <3>3, <3>4, <3>5
  <2> QED
    BY <2>1, <2>2
<1>9. Mirrors(Len(opList), opList, infos, m + p, holds)
  <2>1. Mirrors(Len(opList), opList, infos, m + p, held)
    BY <1>5, <1>6 DEF TypingInv
  <2> QED
    BY <1>8, <2>1, SameOperands
<1> QED
  BY <1>1, <1>4, <1>5, <1>7, <1>9 DEF TypingInv

(* A cast for an argument, inserted behind its last operation.             *)
LEMMA InsertCastTyped ==
    ASSUME IInv, IInv', TypingInv, InsertCast
    PROVE  TypingInv'
<1>1. /\ pc = "casts" /\ UNCHANGED <<types, infos, pc>>
      /\ call' = [call EXCEPT !.next = @ + 1]
      /\ call.next \in CastPositions(call.func, ArgTypes(call.args))
      /\ \E at \in {at \in DOMAIN opList : opList[at].node = call.args[call.next].node} :
          opList' = InsertAt(opList, at + 1,
                        [op |-> "CALL",
                         func |-> CastTo(Functions, call.args[call.next].type,
                                         call.func.args[call.next]),
                         node |-> NewNode])
  BY DEF InsertCast
<1>2. PICK n \in Nat, m \in Nat, p \in Nat, x \in Nat :
          n = Len(opList) /\ m = Len(types) /\ p = Len(call.args) /\ x = call.next
  BY <1>1, OpFacts, CallFacts
<1>3. PICK from, to : from = call.args[x].type /\ to = call.func.args[x]
  OBVIOUS
<1>4. /\ x \in 1..p /\ <<from, to>> \in DOMAIN Functions.casts
  <2>1. Castable(Functions, call.func, ArgTypes(call.args))
    BY <1>1 DEF IInv, CallInv
  <2>2. x \in DOMAIN ArgTypes(call.args) /\ <<ArgTypes(call.args)[x], to>> \in DOMAIN Functions.casts
    BY <1>1, <1>2, <1>3, <2>1 DEF Castable, CastPositions
  <2>3. x \in 1..p
    BY <1>1, <1>2, <2>2, CallFacts DEF ArgTypes
  <2>4. ArgTypes(call.args)[x] = from
    BY <1>3, <2>2 DEF ArgTypes
  <2> QED
    BY <2>2, <2>3, <2>4
<1>5. PICK f \in Range(Functions.functions) :
          f.id = Functions.casts[<<from, to>>] /\ f.args = <<from>> /\ f.ret = to
  <2>1. PICK pair \in DOMAIN Functions.casts : pair = <<from, to>>
    BY <1>4
  <2>2. pair[1] = from /\ pair[2] = to
    BY <2>1
  <2>3. \E f \in Range(Functions.functions) :
             f.id = Functions.casts[pair] /\ f.args = <<pair[1]>> /\ f.ret = pair[2]
    BY SignatureAssumption
  <2> QED
    BY <2>1, <2>2, <2>3
<1>6. PICK op : op = [op |-> "CALL", func |-> f.id, node |-> n + 1]
  OBVIOUS
<1>7. PICK at \in 1..n : /\ opList[at].node = call.args[x].node
                         /\ opList' = InsertAt(opList, at + 1, op)
  <2>1. CastTo(Functions, from, to) = f.id
    BY <1>5 DEF CastTo
  <2>2. DOMAIN opList = 1..n
    BY <1>2, OpFacts
  <2> QED
    BY <1>1, <1>2, <1>3, <1>6, <2>1, <2>2 DEF NewNode
<1>8. /\ opList \in Seq(Ops) /\ \A k \in 1..n : opList[k].node \in Nat
  BY <1>2, OpFacts
<1>9. /\ Len(opList') = n + 1
      /\ \A k \in 1..(n + 1) : opList'[k] = IF k <= at THEN opList[k]
                                            ELSE IF k = at + 1 THEN op ELSE opList[k - 1]
  <2>1. op \in Ops
    <3>1. f.id \in FunctionIds
      BY Registered DEF FunctionInfo
    <3> QED
      BY <1>6, <3>1 DEF Ops
  <2> QED
    BY <1>2, <1>7, <1>8, <2>1, InsertAtPlaces
<1>10. call'.args = call.args /\ call'.func = call.func /\ call'.next = x + 1
  <2>1. call \in Calls
    BY <1>1 DEF IInv, CallInv
  <2> QED
    BY <1>1, <1>2, <2>1 DEF Calls
<1>11. PICK held, holds, more, ops :
           held = OnTheStack /\ holds = OnTheStack' /\ more = opList' /\ ops = opList
  OBVIOUS
<1>12. /\ OperandCount = m + p
       /\ \A i \in 1..m : /\ held[i].type = types[i].type /\ held[i].node = types[i].node
                          /\ held[i].waits
       /\ \A j \in 1..p : /\ held[m + j].node = call.args[j].node
                          /\ held[m + j].waits = (j >= x)
                          /\ held[m + j].type =
                                IF j < x THEN call.func.args[j] ELSE call.args[j].type
  BY <1>1, <1>2, <1>11, OperandFacts DEF OperandsOK
<1>13. /\ OperandCount' = m + p
       /\ \A i \in 1..m : /\ holds[i].type = types[i].type /\ holds[i].node = types[i].node
                          /\ holds[i].waits
       /\ \A j \in 1..p : /\ holds[m + j].node = call.args[j].node
                          /\ holds[m + j].waits = (j >= x + 1)
                          /\ holds[m + j].type =
                                IF j < x + 1 THEN call.func.args[j] ELSE call.args[j].type
  <2>1. OperandsOK'
    BY OperandFactsNext
  <2>2. /\ pc' = "casts" /\ types' = types /\ Len(types') = m
        /\ call'.args = call.args /\ call'.func = call.func /\ call'.next = x + 1
        /\ Len(call'.args) = p
    BY <1>1, <1>2, <1>10
  <2>3. /\ OperandCount' = m + p
        /\ \A i \in 1..m : /\ holds[i].type = types[i].type /\ holds[i].node = types[i].node
                           /\ holds[i].waits
    BY <1>11, <2>1, <2>2 DEF OperandsOK
  <2>4. \A j \in 1..p : /\ holds[m + j].node = call.args[j].node
                        /\ holds[m + j].waits = (j >= x + 1)
                        /\ holds[m + j].type =
                              IF j < x + 1 THEN call.func.args[j] ELSE call.args[j].type
    BY <1>11, <2>1, <2>2 DEF OperandsOK
  <2> QED
    BY <2>3, <2>4
<1>14. PICK i \in 1..(m + p) : i = m + x
  BY <1>4
<1>15. /\ held[i].waits /\ held[i].type = from /\ held[i].node = call.args[x].node
       /\ holds[i].waits = FALSE /\ holds[i].type = to
  <2>1. /\ held[i].node = call.args[x].node /\ held[i].waits = (x >= x)
        /\ held[i].type = IF x < x THEN call.func.args[x] ELSE call.args[x].type
    BY <1>4, <1>12, <1>14
  <2>2. /\ holds[i].waits = (x >= x + 1)
        /\ holds[i].type = IF x < x + 1 THEN call.func.args[x] ELSE call.args[x].type
    BY <1>4, <1>13, <1>14
  <2>3. x >= x /\ ~(x < x) /\ (x >= x + 1) = FALSE /\ x < x + 1
    OBVIOUS
  <2> QED
    BY <1>3, <2>1, <2>2, <2>3
<1>16. ASSUME NEW q \in 1..(m + p), q # i
       PROVE  /\ holds[q].type = held[q].type /\ holds[q].node = held[q].node
              /\ holds[q].waits = held[q].waits
  <2>1. CASE q <= m
    <3>1. q \in 1..m
      BY <2>1
    <3>2. holds[q].type = held[q].type /\ holds[q].node = held[q].node
      BY <1>12, <1>13, <3>1
    <3>3. Len(types) = m /\ pc = "casts" /\ pc' = "casts" /\ types' = types
      BY <1>1, <1>2
    <3>4. q \in 1..OperandCount /\ q \in 1..OperandCount' /\ q <= Len(types)
      BY <1>12, <1>13, <2>1, <3>3
    <3>5. held[q].waits = TRUE /\ holds[q].waits = TRUE
      BY <1>11, <3>3, <3>4 DEF OnTheStack, OperandAt
    <3> QED
      BY <3>2, <3>5
  <2>2. CASE q > m
    <3>1. PICK j \in 1..p : q = m + j
      <4>1. q - m \in 1..p /\ q = m + (q - m)
        BY <2>2
      <4> QED
        BY <4>1
    <3>2. j # x /\ (j < x <=> j < x + 1) /\ (j >= x <=> j >= x + 1)
      BY <1>14, <1>16, <3>1
    <3>3. /\ held[q].node = call.args[j].node /\ held[q].waits = (j >= x)
          /\ held[q].type = IF j < x THEN call.func.args[j] ELSE call.args[j].type
      BY <1>12, <3>1
    <3>4. /\ holds[q].node = call.args[j].node /\ holds[q].waits = (j >= x + 1)
          /\ holds[q].type = IF j < x + 1 THEN call.func.args[j] ELSE call.args[j].type
      BY <1>13, <3>1
    <3>5. holds[q].type = held[q].type
      BY <3>2, <3>3, <3>4
    <3>6. (j >= x) = (j >= x + 1)
      BY <3>2
    <3> QED
      BY <3>3, <3>4, <3>5, <3>6
  <2> QED
    BY <2>1, <2>2
<1>17. Mirrors(n + 1, more, infos, m + p, holds)
  <2>1. Distinct(n, ops)
    BY <1>2, <1>11 DEF TypingInv, Mirrors
  <2>2. PICK T : Runs(T, n, ops, infos) /\ Holds(T, n, ops, m + p, held)
    BY <1>2, <1>11, <1>12 DEF TypingInv, Mirrors
  <2>3. ops[at].node = held[i].node /\ \A k \in 1..n : ops[k].node \in Nat
    BY <1>7, <1>8, <1>11, <1>15
  <2>4. Inserted(n, ops, at, op, more)
    BY <1>9, <1>11 DEF Inserted
  <2>5. IsCast(op, held[i].type, holds[i].type) /\ op.node = n + 1
    BY <1>5, <1>6, <1>15 DEF IsCast
  <2>6. PICK count \in Nat : count = m + p
    OBVIOUS
  <2>7. HasGot(count, held, i, holds)
    BY <1>15, <1>16, <2>6 DEF HasGot
  <2>8. Mirrors(n + 1, more, infos, count, holds)
    BY <2>1, <2>2, <2>3, <2>4, <2>5, <2>6, <2>7, CastInserted
  <2> QED
    BY <2>6, <2>8
<1> QED
  BY <1>1, <1>9, <1>10, <1>11, <1>13, <1>17 DEF TypingInv

(* A call takes its arguments from mTypes; they stay on the stack.         *)
LEMMA BeginCallTyped ==
    ASSUME IInv, IInv', TypingInv, pc # "casts", NEW name, NEW size \in Nat, BeginCall(name, size)
    PROVE  TypingInv'
<1>1. CASE pc' # "casts"
  <2>1. UNCHANGED <<types, opList, infos>>
    BY <1>1 DEF BeginCall
  <2> QED
    BY <1>1, <2>1, NothingTyped
<1>2. CASE pc' = "casts"
  <2>1. PICK m \in Nat, r \in Nat : m = Len(types) /\ r = m - size /\ size <= m
    <3>1. ~(Len(types) < size) /\ Len(types) \in Nat
      BY <1>2, OpFacts DEF BeginCall
    <3> QED
      BY <3>1
  <2>2. PICK args : args = SubSeq(types, r + 1, Len(types))
    OBVIOUS
  <2>3. PICK func \in FindFunction(Functions, name, ArgTypes(args)) :
             /\ types' = SubSeq(types, 1, r)
             /\ call' = [caller |-> pc, func |-> func, args |-> args, next |-> 1]
             /\ UNCHANGED <<opList, infos>>
    BY <1>2, <2>1, <2>2 DEF BeginCall
  <2>4. /\ types \in Seq(Operands) /\ \A i \in 1..m : types[i] \in Operands
    BY <2>1, OpFacts
  <2>5. args \in Seq(Operands) /\ Len(args) = size /\ \A j \in 1..size : args[j] = types[r + j]
    <3>1. /\ SubSeq(types, r + 1, m) \in Seq(Operands)
          /\ Len(SubSeq(types, r + 1, m)) = IF r + 1 <= m THEN m - (r + 1) + 1 ELSE 0
          /\ \A j \in 1..(m - (r + 1) + 1) : SubSeq(types, r + 1, m)[j] = types[r + 1 + j - 1]
      <4>1. r + 1 \in Int /\ m \in Int /\ \A i \in (r + 1)..m : types[i] \in Operands
        BY <2>1, <2>4
      <4> QED
        BY ONLY <4>1, SubSeqProperties
    <3>2. m - (r + 1) + 1 = size /\ \A j \in 1..size : r + 1 + j - 1 = r + j
      BY <2>1
    <3>3. (r + 1 <= m) <=> size > 0
      BY <2>1
    <3>4. args = SubSeq(types, r + 1, m)
      BY <2>1, <2>2
    <3> QED
      BY <2>1, <3>1, <3>2, <3>3, <3>4
  <2>6. Len(types') = r /\ \A i \in 1..r : types'[i] = types[i]
    <3>1. /\ SubSeq(types, 1, r) \in Seq(Operands)
          /\ Len(SubSeq(types, 1, r)) = IF 1 <= r THEN r - 1 + 1 ELSE 0
          /\ \A i \in 1..(r - 1 + 1) : SubSeq(types, 1, r)[i] = types[1 + i - 1]
      <4>1. 1 \in Int /\ r \in Int /\ \A i \in 1..r : types[i] \in Operands
        BY <2>1, <2>4
      <4> QED
        BY ONLY <4>1, SubSeqProperties
    <3> QED
      BY <2>1, <2>3, <3>1
  <2>7. func \in Range(Functions.functions)
    <3>1. \E i \in DOMAIN Functions.functions : func = Functions.functions[i]
      BY DEF FindFunction, Candidates
    <3> QED
      BY <3>1 DEF Range
  <2>8. call'.args = args /\ call'.next = 1 /\ call'.func = func
    BY <2>3
  <2>9. PICK held, holds : held = OnTheStack /\ holds = OnTheStack'
    OBVIOUS
  <2>10. /\ OperandCount = m
         /\ \A i \in 1..m : /\ held[i].type = types[i].type /\ held[i].node = types[i].node
                            /\ held[i].waits
    BY <2>1, <2>9, OperandFacts DEF OperandsOK
  <2>11. /\ OperandCount' = m
         /\ \A i \in 1..r : holds[i].type = types[i].type /\ holds[i].node = types[i].node
         /\ \A j \in 1..size : /\ holds[r + j].node = args[j].node
                               /\ holds[r + j].type =
                                     IF j < 1 THEN func.args[j] ELSE args[j].type
    <3>1. r + size = m
      BY <2>1
    <3> QED
      BY <1>2, <2>3, <2>5, <2>6, <2>8, <2>9, <3>1, OperandFactsNext DEF OperandsOK
  <2>12. ASSUME NEW i \in 1..m
         PROVE  holds[i].type = held[i].type /\ holds[i].node = held[i].node
    <3>1. CASE i <= r
      <4>1. i \in 1..r
        BY <3>1
      <4> QED
        BY <2>10, <2>11, <4>1
    <3>2. CASE i > r
      <4>1. PICK j \in 1..size : i = r + j
        <5>1. i - r \in 1..size /\ i = r + (i - r)
          BY <2>1, <3>2
        <5> QED
          BY <5>1
      <4>2. ~(j < 1)
        OBVIOUS
      <4>3. holds[i].node = args[j].node /\ holds[i].type = args[j].type
        BY <2>11, <4>1, <4>2
      <4>4. args[j] = types[i]
        BY <2>5, <4>1
      <4> QED
        BY <2>10, <4>3, <4>4
    <3> QED
      BY <2>1, <3>1, <3>2
  <2>13. Mirrors(Len(opList), opList, infos, m, holds)
    <3>1. Mirrors(Len(opList), opList, infos, m, held)
      BY <2>9, <2>10 DEF TypingInv
    <3> QED
      BY <2>10, <2>12, <3>1, SameOperands
  <2> QED
    BY <2>3, <2>7, <2>8, <2>9, <2>11, <2>13 DEF TypingInv
<1> QED
  BY <1>1, <1>2

-----------------------------------------------------------------------------
(* Nothing is compiled at first, and no step breaks the mirror.            *)
JustBegun == opList = << >> /\ types = << >> /\ pc = "preprocess"

LEMMA NothingCompiled == JustBegun => TypingInv
<1> SUFFICES ASSUME JustBegun PROVE TypingInv
  OBVIOUS
<1>1. opList = << >> /\ types = << >> /\ pc = "preprocess" /\ Len(<< >>) = 0
  BY DEF JustBegun
<1>2. OperandCount = 0
  BY <1>1 DEF OperandCount
<1>3. PICK T : T = [k \in 0..0 |-> << >>]
  OBVIOUS
<1>4. Runs(T, 0, opList, infos)
  <2>1. << >> \in Seq(DataTypes) /\ \A k \in 0..0 : k = 0
    OBVIOUS
  <2> QED
    BY <1>3, <2>1 DEF Runs
<1>5. Holds(T, 0, opList, 0, OnTheStack)
  BY <1>1, <1>3 DEF Holds
<1>6. Distinct(0, opList)
  BY DEF Distinct
<1>7. Mirrors(0, opList, infos, 0, OnTheStack)
  BY <1>4, <1>5, <1>6 DEF Mirrors
<1>8. Len(opList) = 0
  BY <1>1
<1> QED
  BY <1>1, <1>2, <1>7, <1>8 DEF TypingInv

LEMMA TypingInit == Init => TypingInv
BY NothingCompiled DEF Init, JustBegun

LEMMA TypingNext ==
    ASSUME IInv, IInv', TypingInv, [Next]_vars
    PROVE  TypingInv'
<1>1. CASE UNCHANGED vars
  <2>1. UNCHANGED <<types, opList, infos, call, pc>>
    BY <1>1 DEF vars
  <2>2. OnTheStack' = OnTheStack /\ OperandCount' = OperandCount
    BY <2>1 DEF OnTheStack, OperandCount, OperandAt
  <2> QED
    BY <2>1, <2>2 DEF TypingInv
<1>2. CASE Preprocess \/ PreprocessRejects \/ PreprocessEnds \/ NextTok
  <2>1. pc # "casts" /\ pc' # "casts" /\ UNCHANGED <<types, opList, infos>>
    BY <1>2 DEF Preprocess, PreprocessRejects, PreprocessEnds, NextTok
  <2> QED
    BY <2>1, NothingTyped
<1>3. CASE OpenNewBlock \/ AddUnaryOp \/ AddBinaryOp \/ AddValueRejects
  <2>1. pc # "casts" /\ pc' # "casts" /\ UNCHANGED <<types, opList, infos>>
    BY <1>3 DEF OpenNewBlock, AddUnaryOp, AddBinaryOp, AddValueRejects
  <2> QED
    BY <2>1, NothingTyped
<1>4. CASE ApplyComma \/ CloseParenthesis \/ CloseExpression
  <2>1. pc # "casts" /\ pc' # "casts" /\ UNCHANGED <<types, opList, infos>>
    BY <1>4 DEF ApplyComma, CloseParenthesis, CloseExpression
  <2> QED
    BY <2>1, NothingTyped
<1>5. CASE PushBinaryOp \/ CountComma \/ PopParenthesis \/ Finish
  <2>1. pc # "casts" /\ pc' # "casts" /\ UNCHANGED <<types, opList, infos>>
    BY <1>5 DEF PushBinaryOp, CountComma, PopParenthesis, Finish, AtStop
  <2> QED
    BY <2>1, NothingTyped
<1>6. CASE TooManyArguments \/ PrefixOpsDone
  <2>1. pc # "casts" /\ pc' # "casts" /\ UNCHANGED <<types, opList, infos>>
    BY <1>6 DEF TooManyArguments, PrefixOpsDone
  <2> QED
    BY <2>1, NothingTyped
<1>7. CASE AddVariable
  <2>1. PICK id \in VariableIds(tokens[cur.index].value) : Load(id, infos)
    BY <1>7 DEF AddVariable
  <2>2. pc = "dispatch" /\ id \in DOMAIN infos /\ infos \in Seq(VariableInfo)
    BY <1>7, OpFacts DEF AddVariable, VariableIds
  <2> QED
    BY <2>1, <2>2, LoadTyped
<1>8. CASE AddLiteral
  <2>1. PICK info : info = [name |-> LiteralName,
                            type |-> LiteralType[tokens[cur.index].type],
                            isConstant |-> TRUE,
                            value |-> tokens[cur.index].value]
    OBVIOUS
  <2>2. PICK storage : storage = Append(infos, info)
    OBVIOUS
  <2>3. pc = "dispatch" /\ Load(Len(infos) + 1, storage)
    BY <1>8, <2>1, <2>2 DEF AddLiteral
  <2>4. infos \in Seq(VariableInfo) /\ infos' \in Seq(VariableInfo)
    BY OpFacts DEF IInv, TypeOK
  <2>5. infos' = storage /\ Len(infos) \in Nat
    BY <2>3, <2>4 DEF Load
  <2>6. /\ DOMAIN infos = 1..Len(infos) /\ DOMAIN storage = 1..(Len(infos) + 1)
        /\ \A k \in 1..Len(infos) : storage[k] = infos[k]
    BY <2>2, <2>4, <2>5
  <2> QED
    BY <2>3, <2>4, <2>5, <2>6, LoadTyped
<1>9. CASE CompileStrongerOp \/ CompileToTok
  <2>1. CASE TopIsOneOf({"BINARYOP"})
    <3>1. pc # "casts" /\ BeginBinary(Last(stack))
      BY <1>9, <2>1 DEF CompileStrongerOp, CompileToTok
    <3> QED
      BY <3>1, BeginCallTyped DEF BeginBinary
  <2>2. CASE ~TopIsOneOf({"BINARYOP"})
    <3>1. pc # "casts" /\ pc' # "casts" /\ UNCHANGED <<types, opList, infos>>
      BY <1>9, <2>2 DEF CompileStrongerOp, CompileToTok, TopBindsFirst
    <3> QED
      BY <3>1, NothingTyped
  <2> QED
    BY <2>1, <2>2
<1>10. CASE CompileFunction
  <2>1. pc # "casts" /\ BeginCall(tokens[Last(stack).index].value, argCount)
    BY <1>10 DEF CompileFunction
  <2>2. argCount \in Nat
    BY DEF IInv, TypeOK
  <2> QED
    BY <2>1, <2>2, BeginCallTyped
<1>11. CASE CompileUnaryOp
  <2>1. pc # "casts" /\ BeginCall(UnaryOperators[tokens[Last(stack).index].type], 1)
    BY <1>11 DEF CompileUnaryOp
  <2> QED
    BY <2>1, BeginCallTyped
<1> QED
  BY <1>1, <1>2, <1>3, <1>4, <1>5, <1>6, <1>7, <1>8, <1>9, <1>10, <1>11,
     InsertCastTyped, SkipCastTyped, EndCallTyped DEF Next, Step, Terminated
-----------------------------------------------------------------------------
(* The relation Executes and the function Execute are the same.            *)
LEMMA ExecutesIsExecute ==
    ASSUME NEW before \in Seq(DataTypes), NEW after \in Seq(DataTypes), NEW op,
           Executes(infos, before, op, after)
    PROVE  after = Execute(before, op)
<1>1. Len(before) \in Nat /\ Len(after) \in Nat
  OBVIOUS
<1>2. CASE op.op = "LOAD"
  <2>1. PICK type : type = infos[op.id].type
    OBVIOUS
  <2>2. Replaces(before, << >>, type, after)
    BY <1>2, <2>1 DEF Executes
  <2>3. /\ Len(after) = Len(before) + 1 /\ after[Len(after)] = type
        /\ \A j \in 1..Len(before) : after[j] = before[j]
    BY <1>1, <2>2 DEF Replaces
  <2>4. type \in DataTypes
    BY <1>1, <2>3
  <2>5. /\ Append(before, type) \in Seq(DataTypes) /\ Len(Append(before, type)) = Len(before) + 1
        /\ \A j \in 1..Len(before) : Append(before, type)[j] = before[j]
        /\ Append(before, type)[Len(before) + 1] = type
    BY <2>4, AppendProperties
  <2>6. \A j \in 1..Len(after) : after[j] = Append(before, type)[j]
    BY <1>1, <2>3, <2>5
  <2>7. after = Append(before, type)
    BY <2>3, <2>5, <2>6, SeqEqual
  <2> QED
    BY <1>2, <2>1, <2>7 DEF Execute
<1>3. CASE op.op # "LOAD"
  <2>1. PICK f \in Range(Functions.functions) :
             f.id = op.func /\ Replaces(before, f.args, f.ret, after)
    BY <1>3 DEF Executes
  <2>2. PICK func : func = FuncOf(op.func)
    OBVIOUS
  <2>3. func \in Range(Functions.functions) /\ func.id = op.func
    BY <2>1, <2>2 DEF FuncOf
  <2>4. func.args = f.args /\ func.ret = f.ret /\ f.args \in Seq(DataTypes) /\ f.ret \in DataTypes
    BY <2>1, <2>3, SignatureAssumption, Registered
  <2>5. PICK args \in Seq(DataTypes), ret \in DataTypes : args = func.args /\ ret = func.ret
    BY <2>4
  <2>6. /\ Len(after) >= 1 /\ Len(after) + Len(args) = Len(before) + 1 /\ Len(args) \in Nat
        /\ \A j \in 1..Len(args) : before[Len(after) - 1 + j] = args[j]
        /\ \A j \in 1..(Len(after) - 1) : after[j] = before[j]
        /\ after[Len(after)] = ret
    BY <2>1, <2>4, <2>5 DEF Replaces
  <2>7. PICK r \in Nat : r = Len(after) - 1 /\ r = Len(before) - Len(args)
    <3>1. Len(after) - 1 \in Nat /\ Len(after) - 1 = Len(before) - Len(args)
      BY <1>1, <2>6
    <3> QED
      BY <3>1
  <2>8. SubSeq(before, r + 1, Len(before)) = args
    <3>1. PICK b, t : b = Len(before) /\ t = SubSeq(before, r + 1, b)
      OBVIOUS
    <3>2. /\ SubSeq(before, r + 1, b) \in Seq(DataTypes)
          /\ Len(SubSeq(before, r + 1, b)) = IF r + 1 <= b THEN b - (r + 1) + 1 ELSE 0
          /\ \A j \in 1..(b - (r + 1) + 1) : SubSeq(before, r + 1, b)[j] = before[r + 1 + j - 1]
      <4>1. r + 1 \in Int /\ b \in Int /\ \A j \in (r + 1)..b : before[j] \in DataTypes
        BY <1>1, <3>1
      <4> QED
        BY ONLY <4>1, SubSeqProperties
    <3>3. b - (r + 1) + 1 = Len(args) /\ (~(r + 1 <= b) => Len(args) = 0)
      BY <1>1, <2>6, <2>7, <3>1
    <3>4. t \in Seq(DataTypes) /\ Len(t) = Len(args)
      BY <2>6, <3>1, <3>2, <3>3
    <3>5. ASSUME NEW j \in 1..Len(args) PROVE t[j] = args[j]
      <4>1. r + 1 + j - 1 = r + j /\ Len(after) - 1 + j = r + j
        BY <1>1, <2>6, <2>7
      <4> QED
        BY <2>6, <3>1, <3>2, <3>3, <4>1
    <3>6. t = args
      BY <3>4, <3>5, SeqEqual
    <3> QED
      BY <3>1, <3>6
  <2>9. PICK rest : rest = SubSeq(before, 1, r)
    OBVIOUS
  <2>10. rest \in Seq(DataTypes) /\ Len(rest) = r /\ \A j \in 1..r : rest[j] = before[j]
    <3>1. /\ SubSeq(before, 1, r) \in Seq(DataTypes)
          /\ Len(SubSeq(before, 1, r)) = IF 1 <= r THEN r - 1 + 1 ELSE 0
          /\ \A j \in 1..(r - 1 + 1) : SubSeq(before, 1, r)[j] = before[1 + j - 1]
      <4>1. 1 \in Int /\ r \in Int /\ \A j \in 1..r : before[j] \in DataTypes
        BY <1>1, <2>6, <2>7
      <4> QED
        BY ONLY <4>1, SubSeqProperties
    <3> QED
      BY <2>9, <3>1
  <2>11. /\ Append(rest, ret) \in Seq(DataTypes) /\ Len(Append(rest, ret)) = r + 1
         /\ \A j \in 1..r : Append(rest, ret)[j] = rest[j]
         /\ Append(rest, ret)[r + 1] = ret
    BY <2>10, AppendProperties
  <2>12. after = Append(rest, ret)
    <3>1. Len(after) = r + 1
      BY <1>1, <2>7
    <3>2. ASSUME NEW j \in 1..Len(after) PROVE after[j] = Append(rest, ret)[j]
      <4>1. CASE j = r + 1
        BY <2>6, <2>11, <3>1, <4>1
      <4>2. CASE j # r + 1
        <5>1. j \in 1..r /\ j \in 1..(Len(after) - 1)
          BY <1>1, <2>7, <3>1, <4>2
        <5> QED
          BY <2>6, <2>10, <2>11, <5>1
      <4> QED
        BY <4>1, <4>2
    <3> QED
      BY <2>11, <3>1, <3>2, SeqEqual
  <2>13. Execute(before, op) = Append(SubSeq(before, 1, r), ret)
    <3>1. PICK b, k : b = Len(before) /\ k = Len(func.args)
      OBVIOUS
    <3>2. b - k = r /\ r >= 0
      BY <2>5, <2>7, <3>1
    <3>3. SubSeq(before, r + 1, b) = func.args
      BY <2>5, <2>8, <3>1
    <3>4. Execute(before, op) =
              IF b - k >= 0 /\ SubSeq(before, b - k + 1, b) = func.args
              THEN Append(SubSeq(before, 1, b - k), func.ret) ELSE <<"bad">>
      BY <1>3, <2>2, <3>1, Zenon DEF Execute
    <3> QED
      BY <2>5, <3>2, <3>3, <3>4
  <2> QED
    BY <2>9, <2>12, <2>13
<1> QED
  BY <1>2, <1>3

-----------------------------------------------------------------------------
(* A set of natural numbers that is not empty has a least element.         *)
LEMMA LeastElement == ASSUME NEW S \in SUBSET Nat, S # {} PROVE \E x \in S : \A y \in S : x <= y
<1> DEFINE R == OpToRel(<, Nat)
<1>1. IsWellFoundedOn(R, Nat)
  BY NatLessThanWellFounded
<1>2. \A x, y \in Nat : <<y, x>> \in R <=> y < x
  BY DEF OpToRel
<1> HIDE DEF R
<1>3. PICK x \in S : \A y \in S : ~(<<y, x>> \in R)
  BY <1>1, WFMin
<1>4. \A y \in S : ~(y < x)
  BY <1>2, <1>3
<1> QED
  BY <1>4

(* The stacks after the first n operations, by the definition.             *)
IsTypesAfter(g, n) ==
    g = [k \in 0..n |-> IF k = 0 THEN << >> ELSE Execute(g[k - 1], opList[k])]

LEMMA RunIsTypesAfter ==
    ASSUME NEW T, NEW n \in Nat, Runs(T, n, opList, infos)
    PROVE  IsTypesAfter(T, n)
<1>1. /\ T \in [0..n -> Seq(DataTypes)] /\ T[0] = << >>
      /\ \A k \in 1..n : Executes(infos, T[k - 1], opList[k], T[k])
  BY DEF Runs
<1>2. ASSUME NEW k \in 0..n
      PROVE  T[k] = IF k = 0 THEN << >> ELSE Execute(T[k - 1], opList[k])
  <2>1. CASE k = 0
    BY <1>1, <2>1
  <2>2. CASE k # 0
    <3>1. k \in 1..n /\ k - 1 \in 0..n
      BY <2>2
    <3>2. T[k - 1] \in Seq(DataTypes) /\ T[k] \in Seq(DataTypes)
      BY <1>1, <3>1
    <3>3. T[k] = Execute(T[k - 1], opList[k])
      BY <1>1, <3>1, <3>2, ExecutesIsExecute
    <3> QED
      BY <2>2, <3>3
  <2> QED
    BY <2>1, <2>2
<1>3. T = [k \in 0..n |-> T[k]]
  BY <1>1
<1> QED
  BY <1>2, <1>3, Zenon DEF IsTypesAfter

(* Two such functions agree, since there is no first place where they do   *)
(* not.                                                                    *)
LEMMA TypesAfterUnique ==
    ASSUME NEW n \in Nat, NEW g, NEW h, IsTypesAfter(g, n), IsTypesAfter(h, n)
    PROVE  g[n] = h[n]
<1>1. /\ \A k \in 0..n : g[k] = IF k = 0 THEN << >> ELSE Execute(g[k - 1], opList[k])
      /\ \A k \in 0..n : h[k] = IF k = 0 THEN << >> ELSE Execute(h[k - 1], opList[k])
  BY Zenon DEF IsTypesAfter
<1> DEFINE Differ == {k \in 0..n : g[k] # h[k]}
<1>2. SUFFICES ASSUME Differ # {} PROVE FALSE
  <2>1. n \in 0..n
    OBVIOUS
  <2> QED
    BY <2>1
<1>3. PICK k \in Differ : \A y \in Differ : k <= y
  <2>1. Differ \in SUBSET Nat
    OBVIOUS
  <2> HIDE DEF Differ
  <2> QED
    BY <1>2, <2>1, LeastElement
<1>4. k \in 0..n /\ g[k] # h[k]
  OBVIOUS
<1>5. CASE k = 0
  BY <1>1, <1>4, <1>5
<1>6. CASE k # 0
  <2>1. k - 1 \in 0..n /\ k - 1 \notin Differ
    <3> HIDE DEF Differ
    <3> QED
      BY <1>3, <1>4, <1>6
  <2>2. g[k - 1] = h[k - 1]
    BY <2>1
  <2> HIDE DEF Differ
  <2>3. g[k] = Execute(g[k - 1], opList[k]) /\ h[k] = Execute(h[k - 1], opList[k])
    BY <1>1, <1>4, <1>6
  <2> QED
    BY <1>4, <2>2, <2>3
<1> QED
  BY <1>5, <1>6

(* So what TypesAfter computes is the stack of any run.                    *)
LEMMA RunIsComputed ==
    ASSUME NEW T, Len(opList) \in Nat, Runs(T, Len(opList), opList, infos)
    PROVE  TypesAfter[Len(opList)] = T[Len(opList)]
<1>1. PICK n \in Nat : n = Len(opList)
  OBVIOUS
<1>2. IsTypesAfter(T, n)
  BY <1>1, RunIsTypesAfter
<1>3. TypesAfter = CHOOSE g : g = [k \in 0..n |-> IF k = 0 THEN << >>
                                                  ELSE Execute(g[k - 1], opList[k])]
  BY <1>1, Zenon DEF TypesAfter
<1>4. TypesAfter = CHOOSE g : IsTypesAfter(g, n)
  BY <1>3, Zenon DEF IsTypesAfter
<1>5. IsTypesAfter(TypesAfter, n)
  BY <1>2, <1>4, Zenon
<1> QED
  BY <1>1, <1>2, <1>5, TypesAfterUnique

(* In the end all operands are those of mTypes.                            *)
LEMMA TypingInvImplies == ASSUME IInv, TypingInv PROVE TypesMirrorCode
<1> SUFFICES ASSUME pc # "casts"
             PROVE  TypesAfter[Len(opList)] = [i \in DOMAIN types |-> types[i].type]
  BY DEF TypesMirrorCode
<1>1. Len(opList) \in Nat /\ Len(types) \in Nat /\ DOMAIN types = 1..Len(types)
  BY OpFacts
<1>2. PICK n \in Nat, m \in Nat : n = Len(opList) /\ m = Len(types)
  BY <1>1
<1>3. OperandCount = m
  BY <1>2 DEF OperandCount
<1>4. PICK T : Runs(T, n, opList, infos) /\ Holds(T, n, opList, m, OnTheStack)
  BY <1>2, <1>3 DEF TypingInv, Mirrors
<1>5. TypesAfter[n] = T[n]
  BY <1>2, <1>4, RunIsComputed
<1>6. \A i \in 1..m : OnTheStack[i].type = types[i].type
  BY <1>2, <1>3 DEF OnTheStack, OperandAt
<1>7. /\ T[n] \in Seq(DataTypes) /\ Len(T[n]) = m
      /\ \A i \in 1..m : T[n][i] = types[i].type
  BY <1>4, <1>6 DEF Runs, Holds
<1>8. T[n] = [i \in 1..m |-> types[i].type]
  BY <1>7
<1> QED
  BY <1>1, <1>2, <1>5, <1>8

(* Between two steps of the loops mTypes has the types that the operations *)
(* compiled so far leave on the interpreter's stack, in number and order,  *)
(* casts inserted in the middle included: popValue meets the type it wants *)
(* (postfix_compiler.cpp:218-250; postfix_interpreter.h:18-24).  For all   *)
(* expressions and storages whose operations have one signature each.      *)
THEOREM MirrorsTheStack == Spec => []TypesMirrorCode
<1>1. Init => IInv /\ TypingInv
  BY InitInv, TypingInit
<1>2. IInv /\ TypingInv /\ [Next]_vars => (IInv /\ TypingInv)'
  <2>1. ASSUME IInv, TypingInv, [Next]_vars PROVE IInv'
    BY <2>1, NextInv
  <2>2. ASSUME IInv, TypingInv, [Next]_vars PROVE TypingInv'
    BY <2>1, <2>2, TypingNext
  <2> QED
    BY <2>1, <2>2
<1>3. IInv /\ TypingInv => TypesMirrorCode
  BY TypingInvImplies
<1> QED
  BY <1>1, <1>2, <1>3, PTL DEF Spec
=============================================================================
