------------------------------ MODULE LookupProofs ------------------------------
(***************************************************************************)
(* The loops of findFunction find the overload that FindFunction promises, *)
(* for every storage and every call: FindsTheBest is an invariant of       *)
(* FunctionLookup.  And for a call without ties the order in which the     *)
(* functions were registered does not matter.                              *)
(***************************************************************************)
EXTENDS FunctionLookup, FiniteSetTheorems, WellFoundedInduction, TLAPS

Overload(k) == storage.functions[k]

(* The overloads that fit the call, and the casts they need.               *)
Fitting == Candidates(storage, query.name, query.args)

Casts(k) == CastPositions(Overload(k), query.args)

CastsOf(k) == Cost(Overload(k), query.args)

LookupTypeOK ==
    /\ storage \in Storages /\ query \in Queries
    /\ i \in 1..(Len(storage.functions) + 1)
    /\ j \in 1..(Len(query.args) + 1)
    /\ cost \in 0..INT_MAX /\ optimalCost \in 0..INT_MAX
    /\ pc \in {"overload", "argument", "compare", "found"}

(* The best of the overloads that have been looked at.                     *)
BestInv ==
    IF optimalCost = INT_MAX THEN \A k \in Fitting : k >= i
    ELSE /\ optimalIndex \in Fitting /\ optimalCost = CastsOf(optimalIndex)
         /\ \A k \in Fitting : k < i =>
               \/ CastsOf(optimalIndex) < CastsOf(k)
               \/ CastsOf(optimalIndex) = CastsOf(k) /\ optimalIndex <= k
         /\ optimalIndex < i

(* The arguments before j can be cast, and cost counts those that must be. *)
ArgumentInv ==
    pc = "argument" =>
        /\ i <= Len(storage.functions) /\ Fits
        /\ cost = Cardinality({k \in Casts(i) : k < j})
        /\ \A k \in Casts(i) : k < j => <<query.args[k], Overload(i).args[k]>> \in DOMAIN storage.casts

CompareInv ==
    pc = "compare" =>
        /\ i <= Len(storage.functions)
        /\ cost = IF i \in Fitting THEN CastsOf(i) ELSE INT_MAX

LookupInv == LookupTypeOK /\ BestInv /\ ArgumentInv /\ CompareInv /\ FindsTheBest
-----------------------------------------------------------------------------
LEMMA Storage ==
    ASSUME LookupTypeOK
    PROVE  /\ storage.functions \in Seq(FunctionInfo) /\ Len(storage.functions) \in Nat
           /\ DOMAIN storage.functions = 1..Len(storage.functions)
           /\ query.args \in Seq(DataTypes) /\ Len(query.args) \in Nat
           /\ DOMAIN query.args = 1..Len(query.args)
           /\ Len(query.args) < INT_MAX /\ INT_MAX \in Nat
<1>1. storage.functions \in Seq(FunctionInfo) /\ query.args \in Seq(DataTypes)
  BY LookupAssumption DEF LookupTypeOK, IsFunctionStorage
<1>2. Len(query.args) < INT_MAX /\ INT_MAX \in Nat
  BY LookupAssumption DEF LookupTypeOK
<1> QED
  BY <1>1, <1>2

(* An overload needs at most one cast for each argument.                   *)
LEMMA CastsBounded ==
    ASSUME LookupTypeOK, NEW k
    PROVE  /\ IsFiniteSet(Casts(k)) /\ Casts(k) \subseteq 1..Len(query.args)
           /\ CastsOf(k) \in Nat /\ CastsOf(k) <= Len(query.args) /\ CastsOf(k) < INT_MAX
           /\ CastsOf(k) = Cardinality(Casts(k))
           /\ IsFiniteSet(1..Len(query.args)) /\ Cardinality(1..Len(query.args)) = Len(query.args)
<1>1. Len(query.args) \in Nat /\ DOMAIN query.args = 1..Len(query.args)
      /\ Len(query.args) < INT_MAX /\ INT_MAX \in Nat
  BY Storage
<1>2. IsFiniteSet(1..Len(query.args)) /\ Cardinality(1..Len(query.args)) = Len(query.args)
  BY <1>1, FS_Interval
<1>3. Casts(k) \subseteq 1..Len(query.args)
  BY <1>1 DEF Casts, CastPositions
<1>4. IsFiniteSet(Casts(k)) /\ Cardinality(Casts(k)) <= Cardinality(1..Len(query.args))
  BY <1>2, <1>3, FS_Subset
<1>5. Cardinality(Casts(k)) \in Nat
  BY <1>4, FS_CardinalityType
<1>6. CastsOf(k) = Cardinality(Casts(k))
  BY DEF CastsOf, Casts, Cost
<1> QED
  BY <1>1, <1>2, <1>3, <1>4, <1>5, <1>6

(* One more argument is counted when it has to be cast.                    *)
LEMMA OneMoreArgument ==
    ASSUME LookupTypeOK, NEW k, NEW n \in 1..Len(query.args)
    PROVE  Cardinality({c \in Casts(k) : c < n + 1}) =
              Cardinality({c \in Casts(k) : c < n})
                 + (IF Overload(k).args[n] # query.args[n] THEN 1 ELSE 0)
<1> DEFINE S == {c \in Casts(k) : c < n}
           T == {c \in Casts(k) : c < n + 1}
<1>1. IsFiniteSet(Casts(k)) /\ Casts(k) \subseteq 1..Len(query.args) /\ Len(query.args) \in Nat
  BY CastsBounded, Storage
<1>2. n \in Casts(k) <=> Overload(k).args[n] # query.args[n]
  BY Storage DEF Casts, CastPositions
<1>3. S \subseteq Casts(k) /\ n \notin S
  BY <1>1
<1>4. IsFiniteSet(S) /\ Cardinality(S) \in Nat
  BY <1>1, <1>3, FS_Subset, FS_CardinalityType
<1>5. CASE Overload(k).args[n] # query.args[n]
  <2>1. T = S \cup {n}
    BY <1>1, <1>2, <1>5
  <2> QED
    BY <1>3, <1>4, <1>5, <2>1, FS_AddElement
<1>6. CASE Overload(k).args[n] = query.args[n]
  <2>1. T = S
    BY <1>1, <1>2, <1>6
  <2>2. Cardinality(T) = Cardinality(S)
    BY <2>1
  <2>3. Cardinality(S) = Cardinality(S) + 0
    BY <1>4
  <2> QED
    BY <1>6, <2>2, <2>3
<1> QED
  BY <1>5, <1>6

LEMMA CandidateFits ==
    ASSUME LookupTypeOK, NEW k
    PROVE  k \in Fitting <=>
              /\ k \in 1..Len(storage.functions)
              /\ Overload(k).name = query.name /\ Len(Overload(k).args) = Len(query.args)
              /\ \A c \in Casts(k) : <<query.args[c], Overload(k).args[c]>> \in DOMAIN storage.casts
BY Storage DEF Fitting, Candidates, Castable, Casts, Overload
-----------------------------------------------------------------------------
LEMMA LookupInit == Init => LookupInv
<1> SUFFICES ASSUME Init PROVE LookupInv
  OBVIOUS
<1>1. LookupTypeOK
  <2>1. storage.functions \in Seq(FunctionInfo) /\ query.args \in Seq(DataTypes) /\ INT_MAX \in Nat
    BY LookupAssumption DEF Init, IsFunctionStorage
  <2>2. Len(storage.functions) \in Nat /\ Len(query.args) \in Nat
    BY <2>1
  <2> QED
    BY <2>1, <2>2 DEF Init, LookupTypeOK
<1>2. BestInv
  <2>1. \A k \in Fitting : k >= 1
    BY <1>1, Storage, CandidateFits
  <2> QED
    BY <2>1 DEF Init, BestInv
<1> QED
  BY <1>1, <1>2 DEF Init, LookupInv, ArgumentInv, CompareInv, FindsTheBest

(* What depends on the storage and the call only.                          *)
LEMMA SameCall ==
    ASSUME UNCHANGED <<storage, query>>
    PROVE  /\ Fitting' = Fitting
           /\ \A k : Overload(k)' = Overload(k) /\ Casts(k)' = Casts(k) /\ CastsOf(k)' = CastsOf(k)
BY DEF Fitting, Overload, Casts, CastsOf

LEMMA SkipStep == ASSUME LookupInv, Skip PROVE LookupInv'
<1>1. /\ pc = "overload" /\ i <= Len(storage.functions) /\ ~Fits /\ i' = i + 1
      /\ UNCHANGED <<storage, query, j, cost, optimalCost, optimalIndex, result, pc>>
  BY DEF Skip, AtOverload
<1>2. LookupTypeOK'
  BY <1>1, Storage DEF LookupInv, LookupTypeOK
<1>3. i \notin Fitting
  BY <1>1, CandidateFits DEF LookupInv, Fits, Overload
<1>4. BestInv'
  <2>1. \A k \in Fitting : k \in Nat /\ k # i
    BY <1>3, CandidateFits DEF LookupInv
  <2> QED
    BY <1>1, <2>1, SameCall DEF LookupInv, BestInv, LookupTypeOK
<1> QED
  BY <1>1, <1>2, <1>4 DEF LookupInv, ArgumentInv, CompareInv, FindsTheBest

LEMMA EnterStep == ASSUME LookupInv, Enter PROVE LookupInv'
<1>1. /\ pc = "overload" /\ i <= Len(storage.functions) /\ Fits /\ cost' = 0 /\ j' = 1
      /\ pc' = "argument" /\ UNCHANGED <<storage, query, i, optimalCost, optimalIndex, result>>
  BY DEF Enter, AtOverload
<1>2. LookupTypeOK'
  BY <1>1, Storage DEF LookupInv, LookupTypeOK
<1>3. BestInv'
  BY <1>1, SameCall DEF LookupInv, BestInv
<1>4. ArgumentInv'
  <2>1. {k \in Casts(i) : k < 1} = {}
    BY CastsBounded, Storage DEF LookupInv
  <2>2. Fits'
    BY <1>1 DEF Fits
  <2>3. Casts(i)' = Casts(i) /\ \A k \in Casts(i) : ~(k < 1)
    BY <1>1, <2>1 DEF Casts, Overload
  <2> QED
    BY <1>1, <2>1, <2>2, <2>3, FS_EmptySet DEF ArgumentInv
<1> QED
  BY <1>1, <1>2, <1>3, <1>4 DEF LookupInv, CompareInv, FindsTheBest

LEMMA ArgumentStep ==
    ASSUME LookupInv, AtArgument, j' = j + 1,
           \/ TargetType = query.args[j] /\ cost' = cost
           \/ /\ TargetType # query.args[j] /\ cost' = cost + 1
              /\ <<query.args[j], TargetType>> \in DOMAIN storage.casts,
           UNCHANGED <<storage, query, i, optimalCost, optimalIndex, result, pc>>
    PROVE  LookupInv'
<1>1. /\ pc = "argument" /\ j \in 1..Len(query.args) /\ TargetType = Overload(i).args[j]
      /\ Len(query.args) \in Nat
  BY Storage DEF AtArgument, TargetType, Overload, LookupInv, LookupTypeOK
<1>2. BestInv'
  BY SameCall DEF LookupInv, BestInv
<1>3. cost' = Cardinality({k \in Casts(i) : k < j + 1})
  <2>1. cost = Cardinality({k \in Casts(i) : k < j})
    BY <1>1 DEF LookupInv, ArgumentInv
  <2>2. Cardinality({k \in Casts(i) : k < j + 1}) =
           cost + (IF Overload(i).args[j] # query.args[j] THEN 1 ELSE 0)
    BY <1>1, <2>1, OneMoreArgument DEF LookupInv
  <2>3. cost \in Nat
    BY DEF LookupInv, LookupTypeOK
  <2> QED
    BY <1>1, <2>2, <2>3
<1>4. ArgumentInv'
  <2>1. \A k \in Casts(i) : k < j + 1 => k < j \/ k = j
    BY <1>1, CastsBounded DEF LookupInv
  <2>2. j \in Casts(i) => TargetType # query.args[j]
    BY <1>1 DEF Casts, CastPositions
  <2>3. \A k \in Casts(i) : k < j + 1 =>
           <<query.args[k], Overload(i).args[k]>> \in DOMAIN storage.casts
    BY <1>1, <2>1, <2>2 DEF LookupInv, ArgumentInv
  <2>4. Casts(i)' = Casts(i) /\ Overload(i)' = Overload(i)
    BY DEF Casts, Overload
  <2>5. i <= Len(storage.functions) /\ Fits /\ Fits'
    BY <1>1 DEF LookupInv, ArgumentInv, Fits
  <2> QED
    BY <1>3, <2>3, <2>4, <2>5 DEF ArgumentInv
<1>5. LookupTypeOK'
  <2>1. {k \in Casts(i) : k < j + 1} \subseteq 1..Len(query.args)
    BY CastsBounded DEF LookupInv
  <2>2. IsFiniteSet(1..Len(query.args)) /\ Cardinality(1..Len(query.args)) = Len(query.args)
    BY CastsBounded DEF LookupInv
  <2>3. cost' <= Len(query.args) /\ cost' \in Nat
    BY <1>3, <2>1, <2>2, FS_Subset, FS_CardinalityType
  <2>4. cost' \in 0..INT_MAX
    BY <2>3, Storage DEF LookupInv
  <2> QED
    BY <1>1, <2>4 DEF LookupInv, LookupTypeOK
<1> QED
  BY <1>1, <1>2, <1>4, <1>5 DEF LookupInv, CompareInv, FindsTheBest

LEMMA NoCastStep == ASSUME LookupInv, NoCast PROVE LookupInv'
<1>1. /\ pc = "argument" /\ j \in 1..Len(query.args) /\ TargetType = Overload(i).args[j]
      /\ TargetType # query.args[j] /\ <<query.args[j], TargetType>> \notin DOMAIN storage.casts
      /\ cost' = INT_MAX /\ pc' = "compare"
      /\ UNCHANGED <<storage, query, i, j, optimalCost, optimalIndex, result>>
  BY Storage DEF NoCast, AtArgument, TargetType, Overload, LookupInv, LookupTypeOK
<1>2. LookupTypeOK'
  BY <1>1, Storage DEF LookupInv, LookupTypeOK
<1>3. BestInv'
  BY <1>1, SameCall DEF LookupInv, BestInv
<1>4. i \notin Fitting
  <2>1. j \in Casts(i)
    BY <1>1, Storage DEF Casts, CastPositions, LookupInv
  <2> QED
    BY <1>1, <2>1, CandidateFits DEF LookupInv
<1>5. CompareInv'
  BY <1>1, <1>4, SameCall DEF LookupInv, ArgumentInv, CompareInv
<1> QED
  BY <1>1, <1>2, <1>3, <1>5 DEF LookupInv, ArgumentInv, FindsTheBest

LEMMA ArgumentsDoneStep == ASSUME LookupInv, ArgumentsDone PROVE LookupInv'
<1>1. /\ pc = "argument" /\ j > Len(query.args) /\ pc' = "compare"
      /\ UNCHANGED <<storage, query, i, j, cost, optimalCost, optimalIndex, result>>
  BY DEF ArgumentsDone
<1>2. LookupTypeOK'
  BY <1>1 DEF LookupInv, LookupTypeOK
<1>3. BestInv'
  BY <1>1, SameCall DEF LookupInv, BestInv
<1>4. i \in Fitting /\ cost = CastsOf(i)
  <2>1. \A k \in Casts(i) : k < j
    BY <1>1, CastsBounded, Storage DEF LookupInv, LookupTypeOK
  <2>2. {k \in Casts(i) : k < j} = Casts(i)
    BY <2>1
  <2>3. cost = CastsOf(i)
    BY <1>1, <2>2, CastsBounded DEF LookupInv, ArgumentInv
  <2>4. i \in Fitting
    BY <1>1, <2>1, CandidateFits, Storage DEF LookupInv, ArgumentInv, LookupTypeOK, Fits, Overload
  <2> QED
    BY <2>3, <2>4
<1>5. CompareInv'
  BY <1>1, <1>4, SameCall DEF LookupInv, ArgumentInv, CompareInv
<1> QED
  BY <1>1, <1>2, <1>3, <1>5 DEF LookupInv, ArgumentInv, FindsTheBest

LEMMA CompareStep == ASSUME LookupInv, Compare PROVE LookupInv'
<1>1. /\ pc = "compare" /\ i' = i + 1 /\ pc' = "overload"
      /\ UNCHANGED <<storage, query, j, cost, result>>
      /\ i <= Len(storage.functions) /\ cost = IF i \in Fitting THEN CastsOf(i) ELSE INT_MAX
  BY DEF Compare, LookupInv, CompareInv
<1>2. LookupTypeOK'
  BY <1>1, Storage DEF LookupInv, LookupTypeOK, Compare
<1>3. /\ i \in Nat /\ cost \in Nat /\ optimalCost \in Nat /\ optimalCost <= INT_MAX
      /\ cost <= INT_MAX /\ INT_MAX \in Nat
  BY Storage DEF LookupInv, LookupTypeOK
<1>4. \A k : CastsOf(k) \in Nat /\ CastsOf(k) < INT_MAX
  BY CastsBounded DEF LookupInv
<1>5. \A k \in Fitting : k \in Nat
  BY CandidateFits DEF LookupInv
<1>6. Fitting' = Fitting /\ \A k : CastsOf(k)' = CastsOf(k)
  BY <1>1, SameCall
<1>7. CASE cost < optimalCost
  <2>1. optimalCost' = cost /\ optimalIndex' = i
    BY <1>7 DEF Compare
  <2>2. i \in Fitting /\ cost = CastsOf(i) /\ cost # INT_MAX
    BY <1>1, <1>3, <1>4, <1>7
  <2>3. ASSUME NEW k \in Fitting, k < i + 1
        PROVE  CastsOf(i) < CastsOf(k) \/ (CastsOf(i) = CastsOf(k) /\ i <= k)
    <3>1. CASE k = i
      BY <1>3, <1>4, <3>1
    <3>2. CASE k # i
      <4>1. k < i
        BY <1>3, <1>5, <2>3, <3>2
      <4>2. optimalCost # INT_MAX /\ optimalCost = CastsOf(optimalIndex)
            /\ CastsOf(optimalIndex) <= CastsOf(k)
        BY <1>3, <1>4, <1>5, <4>1 DEF LookupInv, BestInv
      <4> QED
        BY <1>3, <1>4, <1>7, <2>2, <4>2
    <3> QED
      BY <3>1, <3>2
  <2>4. CastsOf(optimalIndex)' = CastsOf(i)
    BY <1>1, <2>1 DEF CastsOf, Overload
  <2> QED
    <3>1. BestInv'
      BY <1>1, <1>3, <1>6, <2>1, <2>2, <2>3, <2>4 DEF BestInv
    <3> QED
      BY <1>1, <1>2, <3>1 DEF LookupInv, ArgumentInv, CompareInv, FindsTheBest
<1>8. CASE ~(cost < optimalCost)
  <2>1. UNCHANGED <<optimalCost, optimalIndex>>
    BY <1>8 DEF Compare
  <2>2. CastsOf(optimalIndex)' = CastsOf(optimalIndex)
    BY <1>1, <2>1 DEF CastsOf, Overload
  <2>3. CASE optimalCost = INT_MAX
    <3>1. i \notin Fitting
      BY <1>1, <1>3, <1>4, <1>8, <2>3
    <3>2. \A k \in Fitting : k >= i + 1
      BY <1>3, <1>5, <2>3, <3>1 DEF LookupInv, BestInv
    <3> QED
      BY <1>1, <1>2, <1>6, <2>1, <2>3, <3>2
         DEF LookupInv, BestInv, ArgumentInv, CompareInv, FindsTheBest
  <2>4. CASE optimalCost # INT_MAX
    <3>1. /\ optimalIndex \in Fitting /\ optimalCost = CastsOf(optimalIndex) /\ optimalIndex < i
          /\ \A k \in Fitting : k < i =>
               \/ CastsOf(optimalIndex) < CastsOf(k)
               \/ CastsOf(optimalIndex) = CastsOf(k) /\ optimalIndex <= k
      BY <2>4 DEF LookupInv, BestInv
    <3>2. i \in Fitting => CastsOf(optimalIndex) <= CastsOf(i) /\ optimalIndex <= i
      BY <1>1, <1>3, <1>4, <1>5, <1>8, <3>1
    <3>3. \A k \in Fitting : k < i + 1 =>
               \/ CastsOf(optimalIndex) < CastsOf(k)
               \/ CastsOf(optimalIndex) = CastsOf(k) /\ optimalIndex <= k
      BY <1>3, <1>4, <1>5, <3>1, <3>2
    <3>4. optimalIndex < i + 1
      BY <1>3, <1>5, <3>1
    <3>5. BestInv'
      BY <1>1, <1>6, <2>1, <2>2, <2>4, <3>1, <3>3, <3>4 DEF BestInv
    <3> QED
      BY <1>1, <1>2, <3>5 DEF LookupInv, ArgumentInv, CompareInv, FindsTheBest
  <2> QED
    BY <2>3, <2>4
<1> QED
  BY <1>7, <1>8

LEMMA ReturnStep == ASSUME LookupInv, Return PROVE LookupInv'
<1>1. /\ pc = "overload" /\ i > Len(storage.functions) /\ pc' = "found"
      /\ result' = IF optimalCost < INT_MAX THEN {Overload(optimalIndex)} ELSE {}
      /\ UNCHANGED <<storage, query, i, j, cost, optimalCost, optimalIndex>>
  BY DEF Return, Overload
<1>2. LookupTypeOK'
  BY <1>1 DEF LookupInv, LookupTypeOK
<1>3. BestInv'
  BY <1>1, SameCall DEF LookupInv, BestInv
<1>4. \A k \in Fitting : k \in Nat /\ k < i
  BY <1>1, CandidateFits, Storage DEF LookupInv, LookupTypeOK
<1>5. FindFunction(storage, query.name, query.args) =
         {Overload(b) : b \in {b \in Fitting : \A k \in Fitting :
             CastsOf(b) < CastsOf(k) \/ (CastsOf(b) = CastsOf(k) /\ b <= k)}}
  BY DEF FindFunction, Fitting, CastsOf, Overload
<1>6. /\ i \in Nat /\ INT_MAX \in Nat /\ optimalCost \in Nat /\ optimalCost <= INT_MAX
      /\ \A k : CastsOf(k) \in Nat /\ CastsOf(k) < INT_MAX
  BY CastsBounded, Storage DEF LookupInv, LookupTypeOK
<1>7. CASE optimalCost = INT_MAX
  <2>1. Fitting = {}
    BY <1>4, <1>6, <1>7 DEF LookupInv, BestInv
  <2>2. FindFunction(storage, query.name, query.args) = {}
    BY <1>5, <2>1
  <2> QED
    BY <1>1, <1>2, <1>3, <1>6, <1>7, <2>2 DEF LookupInv, ArgumentInv, CompareInv, FindsTheBest
<1>8. CASE optimalCost # INT_MAX
  <2>1. /\ optimalIndex \in Fitting
        /\ \A k \in Fitting : \/ CastsOf(optimalIndex) < CastsOf(k)
                              \/ CastsOf(optimalIndex) = CastsOf(k) /\ optimalIndex <= k
    BY <1>4, <1>8 DEF LookupInv, BestInv
  <2>2. ASSUME NEW b \in Fitting, \A k \in Fitting :
                  CastsOf(b) < CastsOf(k) \/ (CastsOf(b) = CastsOf(k) /\ b <= k)
        PROVE  b = optimalIndex
    BY <1>4, <1>6, <2>1, <2>2
  <2>3. FindFunction(storage, query.name, query.args) = {Overload(optimalIndex)}
    BY <1>5, <2>1, <2>2
  <2>4. optimalCost < INT_MAX
    BY <1>6, <1>8
  <2> QED
    BY <1>1, <1>2, <1>3, <2>3, <2>4 DEF LookupInv, ArgumentInv, CompareInv, FindsTheBest
<1> QED
  BY <1>7, <1>8

LEMMA LookupNext == ASSUME LookupInv, [Next]_vars PROVE LookupInv'
<1>1. CASE SameType
  BY <1>1, ArgumentStep DEF SameType
<1>2. CASE CountCast
  BY <1>2, ArgumentStep DEF CountCast
<1>3. CASE UNCHANGED vars
  BY <1>3, SameCall DEF vars, LookupInv, LookupTypeOK, BestInv, ArgumentInv, CompareInv, FindsTheBest,
                        Fits
<1> QED
  BY <1>1, <1>2, <1>3, SkipStep, EnterStep, NoCastStep, ArgumentsDoneStep, CompareStep, ReturnStep
     DEF Next, Terminated

(* For every storage and every call, the loops of findFunction find the    *)
(* overload that needs the fewest casts, the first of several, and none    *)
(* exactly when no overload fits (function_storage.cpp:11-68).             *)
THEOREM LookupFindsTheBest == Spec => []FindsTheBest
<1>1. LookupInv /\ [Next]_vars => LookupInv'
  BY LookupNext
<1>2. LookupInv => FindsTheBest
  BY DEF LookupInv
<1> QED
  BY LookupInit, <1>1, <1>2, PTL DEF Spec
-----------------------------------------------------------------------------
(***************************************************************************)
(* The order of registration.  Two storages have the same overloads when   *)
(* the same functions were registered, in whatever order and how often.    *)
(***************************************************************************)
FunctionsOf(s) == {s.functions[k] : k \in DOMAIN s.functions}

SameFunctions(s, t) ==
    /\ FunctionsOf(s) = FunctionsOf(t)
    /\ DOMAIN s.casts = DOMAIN t.casts

(* No two overloads that fit a call need equally many casts.               *)
NoTies(s, name, args) ==
    \A k, l \in Candidates(s, name, args) :
        Cost(s.functions[k], args) = Cost(s.functions[l], args) => s.functions[k] = s.functions[l]

FitsCall(s, info, name, args) ==
    info.name = name /\ Len(info.args) = Len(args) /\ Castable(s, info, args)

FittingFunctions(s, name, args) == {f \in FunctionsOf(s) : FitsCall(s, f, name, args)}

LEMMA Least == ASSUME NEW S \in SUBSET Nat, S # {} PROVE \E x \in S : \A y \in S : x <= y
<1> DEFINE R == OpToRel(<, Nat)
<1>1. IsWellFoundedOn(R, Nat)
  BY NatLessThanWellFounded
<1>2. \A x, y \in Nat : <<y, x>> \in R <=> y < x
  BY DEF OpToRel
<1> HIDE DEF R
<1>3. PICK x \in S : \A y \in S : ~(<<y, x>> \in R)
  BY <1>1, WFMin
<1>4. \A y \in S : ~(y < x)
  BY <1>2, <1>3
<1> QED
  BY <1>4

LEMMA CostIsNat ==
    ASSUME NEW args \in Seq(DataTypes), NEW info
    PROVE  Cost(info, args) \in Nat
<1>1. IsFiniteSet(1..Len(args)) /\ DOMAIN args = 1..Len(args)
  BY FS_Interval
<1>2. IsFiniteSet(CastPositions(info, args))
  BY <1>1, FS_Subset DEF CastPositions
<1> QED
  BY <1>2, FS_CardinalityType DEF Cost

(* Without ties the overload that is found is the cheapest that fits, in   *)
(* whatever place it is.                                                   *)
LEMMA CheapestIsFound ==
    ASSUME NEW s, IsFunctionStorage(s), NEW name, NEW args \in Seq(DataTypes),
           NoTies(s, name, args)
    PROVE  FindFunction(s, name, args) =
              {f \in FittingFunctions(s, name, args) :
                  \A g \in FittingFunctions(s, name, args) : Cost(f, args) <= Cost(g, args)}
<1> DEFINE C == Candidates(s, name, args)
           F == FittingFunctions(s, name, args)
           c(k) == Cost(s.functions[k], args)
           Best == {k \in C : \A l \in C : c(k) < c(l) \/ (c(k) = c(l) /\ k <= l)}
<1>1. FindFunction(s, name, args) = {s.functions[k] : k \in Best}
  BY DEF FindFunction
<1>2. C \subseteq Nat
  <2>1. DOMAIN s.functions = 1..Len(s.functions) /\ Len(s.functions) \in Nat
    BY DEF IsFunctionStorage
  <2> QED
    BY <2>1 DEF Candidates
<1>3. F = {s.functions[k] : k \in C}
  BY DEF FittingFunctions, FunctionsOf, FitsCall, Candidates
<1>4. \A k : c(k) \in Nat
  BY CostIsNat
<1>5. \A k, l \in C : c(k) = c(l) => s.functions[k] = s.functions[l]
  BY DEF NoTies
<1>6. \A f : Cost(f, args) \in Nat
  BY CostIsNat
<1> HIDE DEF C, F
<1>7. ASSUME NEW k \in Best
      PROVE  s.functions[k] \in F /\ \A g \in F : Cost(s.functions[k], args) <= Cost(g, args)
  <2>1. k \in C /\ \A l \in C : c(k) <= c(l)
    BY <1>4
  <2> QED
    BY <1>3, <2>1
<1>8. ASSUME NEW f \in F, \A g \in F : Cost(f, args) <= Cost(g, args)
      PROVE  \E k \in Best : f = s.functions[k]
  <2>1. PICK n \in C : f = s.functions[n]
    BY <1>3
  <2> DEFINE Equal == {k \in C : c(k) = c(n)}
  <2>2. Equal \in SUBSET Nat /\ n \in Equal
    BY <1>2
  <2>3. PICK m \in Equal : \A y \in Equal : m <= y
    BY <2>2, Least
  <2>4. m \in C /\ c(m) = c(n) /\ f = s.functions[m]
    BY <1>5, <2>1, <2>3
  <2>5. ASSUME NEW l \in C PROVE c(m) < c(l) \/ (c(m) = c(l) /\ m <= l)
    <3>1. c(m) <= c(l)
      BY <1>3, <1>8, <2>4
    <3>2. CASE c(m) = c(l)
      BY <2>3, <2>4, <3>2
    <3>3. CASE c(m) # c(l)
      BY <1>4, <3>1, <3>3
    <3> QED
      BY <3>2, <3>3
  <2> QED
    BY <2>4, <2>5
<1> DEFINE Cheapest == {f \in F : \A g \in F : Cost(f, args) <= Cost(g, args)}
           Found == {s.functions[k] : k \in Best}
<1> HIDE DEF Best, c
<1>9. \A f : f \in Found <=> f \in Cheapest
  <2>1. \A f \in Found : f \in Cheapest
    BY <1>7
  <2>2. \A f \in Cheapest : f \in Found
    BY <1>8
  <2> QED
    BY <2>1, <2>2, Zenon
<1> HIDE DEF Found, Cheapest
<1>10. Found = Cheapest
  BY <1>9
<1> QED
  BY <1>1, <1>10, Zenon DEF Found, Cheapest, F

(* For every two storages with the same functions: the order in which they *)
(* were registered matters only to a call for which two overloads tie.     *)
THEOREM OrderMattersOnlyInTies ==
    ASSUME NEW s, IsFunctionStorage(s), NEW t, IsFunctionStorage(t), SameFunctions(s, t),
           NEW name, NEW args \in Seq(DataTypes), NoTies(s, name, args)
    PROVE  FindFunction(s, name, args) = FindFunction(t, name, args)
<1>1. \A info : FitsCall(s, info, name, args) <=> FitsCall(t, info, name, args)
  BY DEF SameFunctions, FitsCall, Castable
<1>2. FittingFunctions(s, name, args) = FittingFunctions(t, name, args)
  BY <1>1 DEF SameFunctions, FittingFunctions
<1>3. ASSUME NEW u, IsFunctionStorage(u)
      PROVE  FittingFunctions(u, name, args) = {u.functions[k] : k \in Candidates(u, name, args)}
  BY DEF FittingFunctions, FunctionsOf, FitsCall, Candidates
<1>4. NoTies(t, name, args)
  <2> SUFFICES ASSUME NEW k \in Candidates(t, name, args), NEW l \in Candidates(t, name, args),
                      Cost(t.functions[k], args) = Cost(t.functions[l], args)
               PROVE  t.functions[k] = t.functions[l]
    BY DEF NoTies
  <2>1. t.functions[k] \in FittingFunctions(s, name, args) /\ t.functions[l] \in FittingFunctions(s, name, args)
    BY <1>2, <1>3
  <2>2. PICK m \in Candidates(s, name, args), n \in Candidates(s, name, args) :
            t.functions[k] = s.functions[m] /\ t.functions[l] = s.functions[n]
    BY <1>3, <2>1
  <2> QED
    BY <2>2 DEF NoTies
<1>5. FindFunction(s, name, args) =
          {f \in FittingFunctions(s, name, args) :
              \A g \in FittingFunctions(s, name, args) : Cost(f, args) <= Cost(g, args)}
  BY CheapestIsFound, Zenon
<1>6. FindFunction(t, name, args) =
          {f \in FittingFunctions(t, name, args) :
              \A g \in FittingFunctions(t, name, args) : Cost(f, args) <= Cost(g, args)}
  BY <1>4, CheapestIsFound, Zenon
<1> QED
  BY <1>2, <1>5, <1>6, Zenon

(* What findFunction returns for a call without ties is what it would of   *)
(* any storage with the same functions in another order.                   *)
ResultIgnoresOrder ==
    pc = "found" /\ NoTies(storage, query.name, query.args) =>
        \A other : IsFunctionStorage(other) /\ SameFunctions(storage, other)
                      => result = FindFunction(other, query.name, query.args)

THEOREM LookupIgnoresOrder == Spec => []ResultIgnoresOrder
<1>1. LookupInv /\ [Next]_vars => LookupInv'
  BY LookupNext
<1>2. LookupInv => ResultIgnoresOrder
  <2> SUFFICES ASSUME LookupInv, pc = "found", NoTies(storage, query.name, query.args),
                      NEW other, IsFunctionStorage(other), SameFunctions(storage, other)
               PROVE  result = FindFunction(other, query.name, query.args)
    BY DEF ResultIgnoresOrder
  <2>1. IsFunctionStorage(storage) /\ query.args \in Seq(DataTypes)
    BY LookupAssumption DEF LookupInv, LookupTypeOK
  <2>2. result = FindFunction(storage, query.name, query.args)
    BY DEF LookupInv, FindsTheBest
  <2> QED
    BY <2>1, <2>2, OrderMattersOnlyInTies
<1> QED
  BY LookupInit, <1>1, <1>2, PTL DEF Spec
=============================================================================
