----------------------------- MODULE VariablesProofs -----------------------------
(***************************************************************************)
(* Proofs about VariablesStorage, for any number of contexts, types,       *)
(* variables and literals: the containers of a storage agree as long as no *)
(* allocation has failed between them, and a storage does what             *)
(* VariablesSpec promises wherever one fails.                              *)
(***************************************************************************)
EXTENDS VariablesStorage, SequenceTheorems, TLAPS

Infos == [name : STRING, type : TypeIds, isConstant : BOOLEAN]

StorageInv == StorageTypeOK /\ EntriesAgree

USE DEF Infos

(* The lists with one more variable, under a name there was not, agree.    *)
LEMMA OneMore ==
    ASSUME NEW is \in Seq(Infos), NEW values \in Seq(AllValues), NEW ids, Agree(is, values, ids),
           NEW info \in Infos, NEW value \in AllValues,
           info.name \notin DOMAIN ids, value.kind = info.type
    PROVE  Agree(Append(is, info), Append(values, value), WithName(ids, info.name, Len(is) + 1))
<1> DEFINE more == Append(is, info)
           vals == Append(values, value)
           idss == [n \in DOMAIN ids \cup {info.name} |-> IF n = info.name THEN Len(is) + 1 ELSE ids[n]]
<1>1. Len(values) = Len(is)
  BY DEF Agree
<1>2. /\ DOMAIN more = 1..(Len(is) + 1) /\ DOMAIN vals = 1..(Len(is) + 1)
      /\ more[Len(is) + 1] = info /\ vals[Len(is) + 1] = value
      /\ \A id \in 1..Len(is) : more[id] = is[id] /\ vals[id] = values[id]
  BY <1>1
<1>3. DOMAIN is = 1..Len(is) /\ Len(is) \in Nat
  OBVIOUS
<1>4. ASSUME NEW id \in 1..(Len(is) + 1)
      PROVE  /\ vals[id].kind = more[id].type
             /\ more[id].name \in DOMAIN idss
             /\ idss[more[id].name] = id
  <2>1. CASE id = Len(is) + 1
    BY <2>1, <1>2
  <2>2. CASE id \in 1..Len(is)
    <3>1. vals[id].kind = more[id].type /\ is[id].name \in DOMAIN ids /\ ids[is[id].name] = id
      BY <2>2, <1>2, <1>3 DEF Agree
    <3>2. is[id].name # info.name /\ more[id] = is[id]
      BY <3>1, <2>2, <1>2
    <3> QED
      BY <3>1, <3>2
  <2>3. id = Len(is) + 1 \/ id \in 1..Len(is)
    BY <1>3
  <2> QED
    BY <2>1, <2>2, <2>3
<1>5. ASSUME NEW name \in DOMAIN idss
      PROVE  idss[name] \in DOMAIN more /\ more[idss[name]].name = name
  <2>1. CASE name = info.name
    BY <2>1, <1>2, <1>3
  <2>2. CASE name # info.name
    <3>1. name \in DOMAIN ids /\ idss[name] = ids[name]
      BY <2>2
    <3>2. ids[name] \in 1..Len(is) /\ is[ids[name]].name = name
      BY <3>1, <1>3 DEF Agree
    <3> QED
      BY <3>1, <3>2, <1>2, <1>3
  <2> QED
    BY <2>1, <2>2
<1> QED
  BY <1>2, <1>4, <1>5 DEF Agree, WithName

(* What the calls that change no entry leave alone.                        *)
LEMMA SameEntries ==
    ASSUME StorageTypeOK, EntriesAgree, UNCHANGED <<infos, memory, table, torn>>
    PROVE  EntriesAgree'
BY DEF EntriesAgree

LEMMA InitialStorages == StorageInit => StorageInv
<1> SUFFICES ASSUME StorageInit PROVE StorageInv
  OBVIOUS
<1>1. StorageTypeOK
  BY DEF StorageInit, StorageTypeOK
<1>2. EntriesAgree
  <2>1. Agree(<< >>, << >>, << >>)
    BY DEF Agree
  <2>2. \A c \in Contexts : infos[c] = << >> /\ memory[c] = << >> /\ table[c] = << >>
    BY DEF StorageInit
  <2> QED
    BY <2>1, <2>2 DEF EntriesAgree
<1> QED
  BY <1>1, <1>2 DEF StorageInv

LEMMA CopyStep ==
    ASSUME StorageInv, NEW c \in Contexts, NEW other \in Contexts, Copy(c, other)
    PROVE  StorageInv'
<1> USE DEF StorageInv
<1>1. StorageTypeOK'
  BY DEF StorageTypeOK, Copy
<1>2. ASSUME NEW d \in Contexts, d \notin torn' PROVE Agree(infos[d], memory[d], table[d])'
  <2>1. CASE d = c
    <3>1. other \in Contexts \ torn
      BY <1>2, <2>1 DEF Copy
    <3>2. infos'[d] = infos[other] /\ memory'[d] = memory[other] /\ table'[d] = table[other]
      BY <2>1 DEF Copy, StorageTypeOK
    <3> QED
      BY <3>1, <3>2 DEF EntriesAgree, Agree
  <2>2. CASE d # c
    <3>1. infos'[d] = infos[d] /\ memory'[d] = memory[d] /\ table'[d] = table[d] /\ d \notin torn
      BY <1>2, <2>2 DEF Copy, StorageTypeOK
    <3> QED
      BY <3>1 DEF EntriesAgree, Agree
  <2> QED
    BY <2>1, <2>2
<1>3. EntriesAgree'
  BY <1>2 DEF EntriesAgree
<1> QED
  BY <1>1, <1>3

(* The part of a registration that is common to variables and literals.    *)
LEMMA RegistrationStep ==
    ASSUME StorageInv, NEW call, NEW c \in Contexts, NEW info \in Infos, NEW value \in AllValues,
           RegisterOrRefuse(call, c, info, value)
    PROVE  /\ infos' \in [Contexts -> Seq(Infos)] /\ memory' \in [Contexts -> Seq(AllValues)]
           /\ DOMAIN table' = Contexts /\ torn' \subseteq Contexts
           /\ \A d \in Contexts : \A name \in DOMAIN table'[d] : table'[d][name] \in DOMAIN infos'[d]
           /\ \A d \in Contexts : Len(memory'[d]) <= Len(infos'[d])
           /\ EntriesAgree'
<1> USE DEF StorageInv
<1>1. CASE Refuse(call, c, CheckVariable(c, info, value.kind))
  <2>1. UNCHANGED <<infos, memory, table, torn>>
    BY <1>1 DEF Refuse
  <2> QED
    BY <2>1, SameEntries DEF StorageTypeOK
<1>2. CASE CheckVariable(c, info, value.kind) = "done" /\ Store(call, c, info, value)
  <2> DEFINE ids == WithName(table[c], info.name, Len(infos[c]) + 1)
  <2>1. info.name \notin DOMAIN table[c] /\ value.kind = info.type
    BY <1>2 DEF CheckVariable
  <2>2. infos[c] \in Seq(Infos) /\ memory[c] \in Seq(AllValues)
    BY DEF StorageTypeOK
  <2>3. Append(infos[c], info) \in Seq(Infos) /\ Append(memory[c], value) \in Seq(AllValues)
        /\ DOMAIN Append(infos[c], info) = 1..(Len(infos[c]) + 1) /\ Len(infos[c]) \in Nat
        /\ DOMAIN infos[c] = 1..Len(infos[c])
    BY <2>2
  <2>4. /\ \/ infos' = infos \/ infos' = [infos EXCEPT ![c] = Append(infos[c], info)]
        /\ \/ memory' = memory \/ memory' = [memory EXCEPT ![c] = Append(memory[c], value)]
        /\ torn' \in {torn, torn \cup {c}}
    BY <1>2 DEF Store, AddInfo, AddValue
  <2>5. infos' \in [Contexts -> Seq(Infos)] /\ memory' \in [Contexts -> Seq(AllValues)] /\ torn' \subseteq Contexts
    <3>1. infos' \in [Contexts -> Seq(Infos)]
      <4>1. CASE infos' = infos
        BY <4>1 DEF StorageTypeOK
      <4>2. CASE infos' = [infos EXCEPT ![c] = Append(infos[c], info)]
        BY <4>2, <2>3 DEF StorageTypeOK
      <4> QED
        BY <4>1, <4>2, <2>4
    <3>2. memory' \in [Contexts -> Seq(AllValues)]
      <4>1. CASE memory' = memory
        BY <4>1 DEF StorageTypeOK
      <4>2. CASE memory' = [memory EXCEPT ![c] = Append(memory[c], value)]
        BY <4>2, <2>3 DEF StorageTypeOK
      <4> QED
        BY <4>1, <4>2, <2>4
    <3> QED
      BY <3>1, <3>2, <2>4 DEF StorageTypeOK
  <2>6. CASE UNCHANGED <<table, torn, infos, memory>>
    BY <2>5, <2>6, SameEntries DEF StorageTypeOK
  <2>7. CASE UNCHANGED table /\ infos' = [infos EXCEPT ![c] = Append(infos[c], info)] /\ torn' = torn \cup {c}
    <3>1. \A d \in Contexts : DOMAIN infos[d] \subseteq DOMAIN infos'[d]
      BY <2>7, <2>3 DEF StorageTypeOK
    <3>2. \A d \in Contexts : \A name \in DOMAIN table'[d] : table'[d][name] \in DOMAIN infos'[d]
      BY <3>1, <2>7 DEF StorageTypeOK
    <3>3. \A d \in Contexts \ torn' : infos'[d] = infos[d] /\ memory'[d] = memory[d] /\ table'[d] = table[d]
      BY <2>7, <2>4 DEF StorageTypeOK
    <3>4. EntriesAgree'
      BY <3>3, <2>7 DEF EntriesAgree, Agree
    <3>5. \A d \in Contexts : Len(memory'[d]) <= Len(infos'[d])
      <4>1. Len(memory'[c]) <= Len(infos'[c])
        <5>1. infos'[c] = Append(infos[c], info) /\ memory'[c] \in {memory[c], Append(memory[c], value)}
          BY <2>4, <2>7 DEF StorageTypeOK
        <5>2. Len(memory[c]) <= Len(infos[c])
          BY DEF StorageTypeOK
        <5> QED
          BY <5>1, <5>2, <2>2
      <4>2. \A d \in Contexts \ {c} : memory'[d] = memory[d] /\ infos'[d] = infos[d]
        BY <2>4, <2>7 DEF StorageTypeOK
      <4> QED
        BY <4>1, <4>2 DEF StorageTypeOK
    <3> QED
      BY <2>5, <2>7, <3>2, <3>4, <3>5 DEF StorageTypeOK
  <2>8. CASE /\ infos' = [infos EXCEPT ![c] = Append(infos[c], info)]
             /\ memory' = [memory EXCEPT ![c] = Append(memory[c], value)]
             /\ table' = [table EXCEPT ![c] = ids] /\ torn' = torn
    <3>1. DOMAIN table' = Contexts /\ infos'[c] = Append(infos[c], info)
          /\ memory'[c] = Append(memory[c], value) /\ table'[c] = ids
      BY <2>8 DEF StorageTypeOK
    <3>2. \A d \in Contexts \ {c} : infos'[d] = infos[d] /\ memory'[d] = memory[d] /\ table'[d] = table[d]
      BY <2>8 DEF StorageTypeOK
    <3>3. \A name \in DOMAIN ids : ids[name] \in 1..(Len(infos[c]) + 1)
      BY <2>3 DEF StorageTypeOK, WithName
    <3>4. \A d \in Contexts : \A name \in DOMAIN table'[d] : table'[d][name] \in DOMAIN infos'[d]
      BY <3>1, <3>2, <3>3, <2>3 DEF StorageTypeOK
    <3>5. ASSUME NEW d \in Contexts, d \notin torn' PROVE Agree(infos[d], memory[d], table[d])'
      <4>1. d \notin torn /\ Agree(infos[d], memory[d], table[d])
        BY <3>5, <2>8 DEF EntriesAgree
      <4>2. CASE d = c
        <5>0. Agree(infos[c], memory[c], table[c])
          BY <4>1, <4>2
        <5>1. Agree(Append(infos[c], info), Append(memory[c], value), ids)
          BY <5>0, <2>1, <2>2, OneMore
        <5> QED
          BY <5>1, <4>2, <3>1
      <4>3. CASE d # c
        BY <4>1, <4>3, <3>2
      <4> QED
        BY <4>2, <4>3
    <3>6. EntriesAgree'
      BY <3>5 DEF EntriesAgree
    <3>7. \A d \in Contexts : Len(memory'[d]) <= Len(infos'[d])
      <4>1. Len(memory[c]) <= Len(infos[c])
        BY DEF StorageTypeOK
      <4>2. Len(memory'[c]) <= Len(infos'[c])
        BY <4>1, <3>1, <2>2
      <4> QED
        BY <4>2, <3>2 DEF StorageTypeOK
    <3> QED
      BY <2>5, <3>1, <3>4, <3>6, <3>7
  <2> QED
    BY <1>2, <2>6, <2>7, <2>8 DEF Store, AddInfo, AddValue, AddName, NextId
<1> QED
  BY <1>1, <1>2 DEF RegisterOrRefuse

LEMMA RegisterStep ==
    ASSUME StorageInv, NEW c \in Contexts, NEW info \in AllInfos, NEW value \in AllValues,
           RegisterVariable(c, info, value)
    PROVE  StorageInv'
<1>1. info \in Infos
  BY StorageAssumption DEF AllInfos
<1>2. RegisterOrRefuse("registerVariable", c, info, value) /\ UNCHANGED <<types, typeTable, nextLiteral, owner, state>>
  BY DEF RegisterVariable
<1> QED
  BY <1>1, <1>2, RegistrationStep DEF StorageInv, StorageTypeOK

LEMMA LiteralStep ==
    ASSUME StorageInv, NEW c \in Contexts, NEW type \in TypeIds, NEW value \in AllValues,
           GetIdByLiteral(c, type, value)
    PROVE  StorageInv'
<1> USE DEF StorageInv
<1> DEFINE info == [name |-> Literal(nextLiteral[c]), type |-> type, isConstant |-> TRUE]
<1>1. CASE /\ nextLiteral[c] < MaxLiterals
           /\ nextLiteral' = [nextLiteral EXCEPT ![c] = @ + 1]
           /\ RegisterOrRefuse("getIdByLiteral", c, info, value)
  <2>1. nextLiteral[c] \in 0..MaxLiterals /\ nextLiteral' \in [Contexts -> Nat]
    BY <1>1, StorageAssumption DEF StorageTypeOK
  <2>2. info \in Infos
    BY <2>1, StorageAssumption
  <2>3. UNCHANGED <<types, typeTable, owner, state>>
    BY DEF GetIdByLiteral
  <2> HIDE DEF info
  <2> QED
    BY <1>1, <2>1, <2>2, <2>3, RegistrationStep DEF StorageTypeOK
<1>2. CASE UNCHANGED <<infos, memory, table, torn, nextLiteral>>
  <2>1. UNCHANGED <<types, typeTable, owner, state>>
    BY DEF GetIdByLiteral
  <2> QED
    BY <1>2, <2>1, SameEntries DEF StorageTypeOK
<1> QED
  BY <1>1, <1>2 DEF GetIdByLiteral, Refuse

LEMMA SetValueStep ==
    ASSUME StorageInv, NEW c \in Contexts, NEW id \in Ids, NEW value \in AllValues, SetValue(c, id, value)
    PROVE  StorageInv'
<1> USE DEF StorageInv
<1>1. UNCHANGED <<types, typeTable, infos, table, nextLiteral, owner, state, torn>>
  BY DEF SetValue
<1>2. CASE memory' = memory
  BY <1>1, <1>2, SameEntries DEF StorageTypeOK
<1>3. CASE Accessible(c, id, value.kind) /\ memory' = [memory EXCEPT ![c][id] = value]
  <2>1. memory[c] \in Seq(AllValues) /\ id \in DOMAIN memory[c]
    BY <1>3 DEF StorageTypeOK, Accessible
  <2>2. [memory[c] EXCEPT ![id] = value] \in Seq(AllValues)
    BY <2>1
  <2>3. memory' = [memory EXCEPT ![c] = [memory[c] EXCEPT ![id] = value]]
    BY <1>3
  <2>4. StorageTypeOK'
    <3>1. memory' \in [Contexts -> Seq(AllValues)]
      BY <2>2, <2>3 DEF StorageTypeOK
    <3>2. \A d \in Contexts : Len(memory'[d]) = Len(memory[d])
      BY <2>1, <2>3 DEF StorageTypeOK
    <3> QED
      BY <3>1, <3>2, <1>1 DEF StorageTypeOK
  <2>5. ASSUME NEW d \in Contexts \ torn PROVE Agree(infos[d], memory'[d], table[d])
    <3>1. Agree(infos[d], memory[d], table[d])
      BY DEF EntriesAgree
    <3>2. CASE d = c
      <4>1. memory'[d] = [memory[c] EXCEPT ![id] = value]
        BY <2>3, <3>2 DEF StorageTypeOK
      <4>2. value.kind = infos[d][id].type
        BY <1>3, <3>2 DEF Accessible
      <4>3. DOMAIN memory'[d] = DOMAIN infos[d]
        BY <4>1, <3>1, <3>2 DEF Agree
      <4>4. \A k \in DOMAIN infos[d] : memory'[d][k].kind = infos[d][k].type
        BY <4>1, <4>2, <3>1, <3>2 DEF Agree
      <4> QED
        BY <3>1, <4>3, <4>4 DEF Agree
    <3>3. CASE d # c
      BY <3>1, <3>3, <2>3 DEF StorageTypeOK
    <3> QED
      BY <3>2, <3>3
  <2>6. EntriesAgree'
    BY <2>5, <1>1 DEF EntriesAgree
  <2> QED
    BY <2>4, <2>6
<1> QED
  BY <1>2, <1>3 DEF SetValue

LEMMA RegisterTypeStep ==
    ASSUME StorageInv, NEW c \in Contexts, NEW type \in DataTypes, RegisterType(c, type)
    PROVE  StorageInv'
<1> USE DEF StorageInv
<1>1. UNCHANGED <<infos, memory, table, nextLiteral, owner, state, torn>>
  BY DEF RegisterType
<1>2. CASE UNCHANGED <<types, typeTable>>
  BY <1>1, <1>2, SameEntries DEF StorageTypeOK
<1>3. CASE /\ types' = [types EXCEPT ![c] = Append(@, type)]
           /\ \/ UNCHANGED typeTable
              \/ typeTable' = [typeTable EXCEPT ![c] = WithName(@, type.name, Len(types[c]) + 1)]
  <2>1. types[c] \in Seq(DataTypes) /\ Len(types[c]) \in Nat /\ DOMAIN types[c] = 1..Len(types[c])
    BY DEF StorageTypeOK
  <2>2. /\ types'[c] = Append(types[c], type) /\ DOMAIN types'[c] = 1..(Len(types[c]) + 1)
        /\ types'[c][Len(types[c]) + 1] = type
        /\ \A id \in 1..Len(types[c]) : types'[c][id] = types[c][id]
    BY <1>3, <2>1 DEF StorageTypeOK
  <2>3. types' \in [Contexts -> Seq(DataTypes)] /\ DOMAIN typeTable' = Contexts
    BY <1>3 DEF StorageTypeOK
  <2>4. \A d \in Contexts \ {c} : types'[d] = types[d] /\ typeTable'[d] = typeTable[d]
    BY <1>3 DEF StorageTypeOK
  <2>5. ASSUME NEW name \in DOMAIN typeTable'[c]
        PROVE  typeTable'[c][name] \in DOMAIN types'[c] /\ types'[c][typeTable'[c][name]].name = name
    <3>1. CASE name \in DOMAIN typeTable[c] /\ typeTable'[c][name] = typeTable[c][name]
      <4>1. typeTable[c][name] \in 1..Len(types[c]) /\ types[c][typeTable[c][name]].name = name
        BY <3>1, <2>1 DEF StorageTypeOK
      <4> QED
        BY <4>1, <3>1, <2>1, <2>2
    <3>2. CASE name = type.name /\ typeTable'[c][name] = Len(types[c]) + 1
      BY <3>2, <2>1, <2>2
    <3>3. \/ typeTable'[c] = typeTable[c]
          \/ typeTable'[c] = WithName(typeTable[c], type.name, Len(types[c]) + 1)
      BY <1>3 DEF StorageTypeOK
    <3> QED
      BY <2>5, <3>1, <3>2, <3>3 DEF WithName
  <2>6. \A d \in Contexts : \A name \in DOMAIN typeTable'[d] :
           typeTable'[d][name] \in DOMAIN types'[d] /\ types'[d][typeTable'[d][name]].name = name
    <3>1. ASSUME NEW d \in Contexts, NEW name \in DOMAIN typeTable'[d]
          PROVE  typeTable'[d][name] \in DOMAIN types'[d] /\ types'[d][typeTable'[d][name]].name = name
      <4>1. CASE d = c
        BY <3>1, <4>1, <2>5
      <4>2. CASE d # c
        BY <3>1, <4>2, <2>4 DEF StorageTypeOK
      <4> QED
        BY <4>1, <4>2
    <3> QED
      BY <3>1
  <2> QED
    BY <1>1, <2>3, <2>6, SameEntries DEF StorageTypeOK
<1> QED
  BY <1>2, <1>3 DEF RegisterType

LEMMA OtherSteps ==
    ASSUME StorageInv, NEW c \in Contexts,
           \/ Create(c) \/ Destroy(c) \/ OutOfMemory(c)
           \/ \E info \in AllInfos : ReadsDestroyedTypes(c, info)
           \/ \E id \in Ids, kind \in Kinds : GetValue(c, id, kind)
    PROVE  StorageInv'
<1> USE DEF StorageInv
<1>1. UNCHANGED <<types, typeTable, infos, memory, table, nextLiteral, owner, torn>>
  BY DEF Create, Destroy, OutOfMemory, ReadsDestroyedTypes, GetValue, storages
<1>2. state' \in [Contexts -> {"unused", "live", "destroyed"}]
  BY DEF Create, Destroy, OutOfMemory, ReadsDestroyedTypes, GetValue, storages, StorageTypeOK
<1> QED
  BY <1>1, <1>2, SameEntries DEF StorageTypeOK

LEMMA InvariantHolds == StorageSpec => []StorageInv
<1>1. StorageInit => StorageInv
  BY InitialStorages
<1>2. StorageInv /\ [StorageNext]_storageVars => StorageInv'
  <2> SUFFICES ASSUME StorageInv, [StorageNext]_storageVars PROVE StorageInv'
    OBVIOUS
  <2>1. CASE UNCHANGED storageVars
    BY <2>1, SameEntries DEF StorageInv, StorageTypeOK, storageVars, storages
  <2>2. CASE StorageNext
    <3> PICK c \in Contexts :
          \/ Create(c) \/ Destroy(c) \/ OutOfMemory(c)
          \/ \E other \in Contexts : Copy(c, other)
          \/ \E type \in DataTypes : RegisterType(c, type)
          \/ \E info \in AllInfos : ReadsDestroyedTypes(c, info)
          \/ \E value \in AllValues :
                \/ \E info \in AllInfos : RegisterVariable(c, info, value)
                \/ \E type \in TypeIds : GetIdByLiteral(c, type, value)
                \/ \E id \in Ids : SetValue(c, id, value)
          \/ \E id \in Ids, kind \in Kinds : GetValue(c, id, kind)
      BY <2>2 DEF StorageNext
    <3> QED
      BY OtherSteps, RegisterTypeStep, CopyStep, RegisterStep, LiteralStep, SetValueStep
  <2> QED
    BY <2>1, <2>2
<1> QED
  BY <1>1, <1>2, PTL DEF StorageSpec

(* The state of the storages is well typed: identifiers are those of       *)
(* variables there are, whatever is registered, copied or refused, and     *)
(* wherever an allocation fails (variables_storage.h:24-119).              *)
THEOREM StorageTypeCorrect == StorageSpec => []StorageTypeOK
BY InvariantHolds, PTL DEF StorageInv

(* Names, informations and values of a storage belong together, and each   *)
(* value is of the kind of its variable, unless an allocation has failed   *)
(* halfway (variables_storage.h:47-63, 89-118).                            *)
THEOREM ContainersAgree == StorageSpec => []EntriesAgree
BY InvariantHolds, PTL DEF StorageInv
-----------------------------------------------------------------------------
HIDE DEF Infos

EntryOf(info, values, ids, id) ==
    [name |-> info.name, type |-> info.type, isConstant |-> info.isConstant,
     value |-> IF id \in DOMAIN values THEN values[id] ELSE Missing,
     named |-> IsNamed(ids, info.name, id)]

LEMMA EntriesAre ==
    ASSUME NEW is \in Seq(Infos), NEW values, NEW ids
    PROVE  EntryList(is, values, ids) = [id \in 1..Len(is) |-> EntryOf(is[id], values, ids, id)]
<1>1. DOMAIN is = 1..Len(is)
  OBVIOUS
<1> QED
  BY <1>1, Zenon DEF EntryList, EntryOf

LEMMA AFunctionIsAList ==
    ASSUME NEW n \in Nat, NEW S, NEW f, f = [id \in 1..n |-> f[id]], \A id \in 1..n : f[id] \in S
    PROVE  f \in Seq(S) /\ Len(f) = n
<1>1. f \in [1..n -> S]
  OBVIOUS
<1> QED
  BY <1>1

(* A value of a variable is never the missing one.                         *)
LEMMA ValueThere == ASSUME NEW value \in AllValues PROVE value # Missing
<1>1. value.kind \in Nat \ {0}
  BY StorageAssumption DEF AllValues
<1>2. Missing.kind = 0
  BY DEF Missing, Value
<1> QED
  BY <1>1, <1>2

(* Two lists of the same length with the same elements are the same.       *)
LEMMA SameList ==
    ASSUME NEW n \in Nat, NEW f, NEW g, f = [id \in 1..n |-> f[id]], g = [id \in 1..n |-> g[id]],
           \A id \in 1..n : f[id] = g[id]
    PROVE  f = g
OBVIOUS

(* A list that goes on where another ends is the other with one more.     *)
LEMMA AnAppendedList ==
    ASSUME NEW S, NEW n \in Nat, NEW old \in [1..n -> S], NEW new \in [1..(n + 1) -> S],
           \A id \in 1..n : new[id] = old[id],
           NEW last, new[n + 1] = last
    PROVE  new = Append(old, last)
<1>1. old \in Seq(S) /\ Len(old) = n /\ new \in Seq(S) /\ Len(new) = n + 1 /\ last \in S
  OBVIOUS
<1>2. /\ Append(old, last) \in Seq(S) /\ Len(Append(old, last)) = n + 1
      /\ \A i \in 1..n : Append(old, last)[i] = old[i]
      /\ Append(old, last)[n + 1] = last
  BY <1>1, AppendProperties
<1>3. \A i \in 1..(n + 1) : new[i] = Append(old, last)[i]
  BY <1>2
<1> QED
  BY <1>1, <1>2, <1>3, SeqEqual

(* An information alone adds an entry without a value and a name,          *)
LEMMA OneMoreEntry ==
    ASSUME NEW is \in Seq(Infos), NEW values \in Seq(AllValues), NEW ids, Len(values) <= Len(is),
           NEW info \in Infos, info.name \notin DOMAIN ids
    PROVE  EntryList(Append(is, info), values, ids) = Append(EntryList(is, values, ids), Promise!Begun(info))
<1> DEFINE old == EntryList(is, values, ids)
           more == Append(is, info)
           new == EntryList(more, values, ids)
           n == Len(is)
<1>1. /\ more \in Seq(Infos) /\ Len(more) = n + 1 /\ n \in Nat
      /\ more[n + 1] = info /\ \A id \in 1..n : more[id] = is[id]
  OBVIOUS
<1>2. DOMAIN values = 1..Len(values) /\ n + 1 \notin DOMAIN values
  BY <1>1
<1>3. old = [id \in 1..n |-> EntryOf(is[id], values, ids, id)]
  BY EntriesAre
<1> HIDE DEF more
<1>4. new = [id \in 1..(n + 1) |-> EntryOf(more[id], values, ids, id)]
  <2>1. new = [id \in 1..Len(more) |-> EntryOf(more[id], values, ids, id)]
    BY <1>1, EntriesAre
  <2> QED
    BY <2>1, <1>1
<1> HIDE DEF old, new
<1>5. EntryOf(info, values, ids, n + 1) = Promise!Begun(info)
  BY <1>2 DEF EntryOf, Promise!Begun, IsNamed
<1>6. new[n + 1] = Promise!Begun(info) /\ \A id \in 1..n : new[id] = old[id]
  BY <1>1, <1>3, <1>4, <1>5
<1> DEFINE S == {new[id] : id \in 1..(n + 1)}
<1>7. new \in [1..(n + 1) -> S]
  BY <1>4
<1>8. \A id \in 1..n : old[id] \in S
  <2>1. \A id \in 1..n : id \in 1..(n + 1) /\ new[id] \in S
    BY <1>1
  <2> QED
    BY <2>1, <1>6
<1> HIDE DEF S, n
<1>9. old \in [1..n -> S]
  BY <1>3, <1>8
<1>10. new = Append(old, Promise!Begun(info))
  BY <1>1, <1>6, <1>7, <1>9, AnAppendedList
<1> QED
  BY <1>10 DEF old, new, more

(* a value alone is that of the first entry without one,                   *)
LEMMA OneMoreValue ==
    ASSUME NEW is \in Seq(Infos), NEW values \in Seq(AllValues), NEW ids, Len(values) < Len(is),
           NEW value \in AllValues
    PROVE  EntryList(is, Append(values, value), ids) = Promise!Filled(EntryList(is, values, ids), value)
<1> DEFINE old == EntryList(is, values, ids)
           more == Append(values, value)
           new == EntryList(is, more, ids)
           m == Len(values)
           n == Len(is)
           filled == Promise!Filled(old, value)
<1>1. /\ more \in Seq(AllValues) /\ more[m + 1] = value
      /\ \A id \in 1..m : more[id] = values[id]
      /\ DOMAIN more = 1..(m + 1) /\ DOMAIN values = 1..m /\ m \in Nat /\ n \in Nat
  OBVIOUS
<1> HIDE DEF more
<1>2. /\ old = [id \in 1..n |-> EntryOf(is[id], values, ids, id)]
      /\ new = [id \in 1..n |-> EntryOf(is[id], more, ids, id)]
  BY EntriesAre
<1> HIDE DEF old, new
<1>3. ASSUME NEW id \in 1..n PROVE (old[id].value = Missing) = (id > m)
  <2>1. old[id].value = IF id \in DOMAIN values THEN values[id] ELSE Missing
    BY <1>2 DEF EntryOf
  <2>2. CASE id > m
    <3>1. id \notin DOMAIN values
      BY <2>2, <1>1
    <3> QED
      BY <2>1, <2>2, <3>1
  <2>3. CASE id <= m
    <3>1. id \in DOMAIN values /\ values[id] \in AllValues
      BY <2>3, <1>1
    <3>2. values[id] # Missing
      BY <3>1, ValueThere
    <3> QED
      BY <2>1, <2>3, <3>1, <3>2, <1>1
  <2> QED
    BY <2>2, <2>3, <1>1
<1>4. ASSUME NEW id \in 1..n
      PROVE  (old[id].value = Missing /\ \A j \in 1..(id - 1) : old[j].value # Missing) <=> id = m + 1
  <2>1. CASE id = m + 1
    <3>1. old[id].value = Missing
      BY <2>1, <1>1, <1>3
    <3>2. ASSUME NEW j \in 1..(id - 1) PROVE old[j].value # Missing
      <4>1. j \in 1..n /\ ~(j > m)
        BY <2>1, <1>1
      <4> QED
        BY <4>1, <1>3
    <3> QED
      BY <2>1, <3>1, <3>2
  <2>2. CASE id <= m
    <3>1. ~(id > m) /\ id # m + 1
      BY <2>2, <1>1
    <3> QED
      BY <3>1, <1>3
  <2>3. CASE id > m + 1
    <3>1. m + 1 \in 1..(id - 1) /\ m + 1 \in 1..n /\ m + 1 > m /\ id # m + 1
      BY <2>3, <1>1
    <3>2. old[m + 1].value = Missing
      BY <3>1, <1>3
    <3> QED
      BY <3>1, <3>2
  <2>4. id = m + 1 \/ id <= m \/ id > m + 1
    BY <1>1
  <2> QED
    BY <2>1, <2>2, <2>3, <2>4
<1>5. filled = [id \in 1..n |-> IF id = m + 1 THEN [old[id] EXCEPT !.value = value] ELSE old[id]]
  <2>1. DOMAIN old = 1..n
    BY <1>2
  <2> QED
    BY <2>1, <1>4, Zenon DEF Promise!Filled
<1>6. ASSUME NEW id \in 1..n PROVE new[id] = IF id = m + 1 THEN [old[id] EXCEPT !.value = value] ELSE old[id]
  <2>1. new[id] = EntryOf(is[id], more, ids, id) /\ old[id] = EntryOf(is[id], values, ids, id)
    BY <1>2
  <2>2. CASE id = m + 1
    <3>1. id \in DOMAIN more /\ more[id] = value
      BY <2>2, <1>1
    <3>2. new[id] = [name |-> is[id].name, type |-> is[id].type, isConstant |-> is[id].isConstant,
                     value |-> value, named |-> IsNamed(ids, is[id].name, id)]
      BY <2>1, <3>1, Zenon DEF EntryOf
    <3>3. [old[id] EXCEPT !.value = value] =
             [name |-> is[id].name, type |-> is[id].type, isConstant |-> is[id].isConstant,
              value |-> value, named |-> IsNamed(ids, is[id].name, id)]
      BY <2>1 DEF EntryOf
    <3> QED
      BY <2>2, <3>2, <3>3
  <2>3. CASE id # m + 1
    <3>1. (id \in DOMAIN more <=> id \in DOMAIN values) /\ (id \in DOMAIN values => more[id] = values[id])
      BY <2>3, <1>1
    <3>2. EntryOf(is[id], more, ids, id) = EntryOf(is[id], values, ids, id)
      BY <3>1, Zenon DEF EntryOf
    <3> QED
      BY <2>1, <2>3, <3>2
  <2> QED
    BY <2>2, <2>3
<1> HIDE DEF filled
<1>7. new = [id \in 1..n |-> new[id]] /\ filled = [id \in 1..n |-> filled[id]]
  BY <1>2, <1>5
<1>8. \A id \in 1..n : new[id] = filled[id]
  BY <1>5, <1>6
<1>9. new = filled
  BY <1>1, <1>7, <1>8, SameList
<1> QED
  BY <1>9 DEF new, filled, more, old

(* and a name that was free is that of the last entry.                     *)
LEMMA OneMoreName ==
    ASSUME NEW is \in Seq(Infos), NEW values \in Seq(AllValues), NEW ids, Len(is) > 0,
           NEW name, name = is[Len(is)].name, name \notin DOMAIN ids
    PROVE  EntryList(is, values, WithName(ids, name, Len(is))) = Promise!LastNamed(EntryList(is, values, ids))
<1> DEFINE old == EntryList(is, values, ids)
           more == WithName(ids, name, Len(is))
           new == EntryList(is, values, more)
           n == Len(is)
           last == Promise!LastNamed(old)
<1>1. n \in Nat /\ n \in 1..n
  OBVIOUS
<1>2. more[name] = n /\ name \in DOMAIN more /\ DOMAIN more = DOMAIN ids \cup {name}
      /\ \A other \in DOMAIN ids : more[other] = ids[other]
  BY DEF WithName
<1> HIDE DEF more
<1>3. /\ old = [id \in 1..n |-> EntryOf(is[id], values, ids, id)]
      /\ new = [id \in 1..n |-> EntryOf(is[id], values, more, id)]
  BY EntriesAre
<1> HIDE DEF old, new
<1>4. ASSUME NEW id \in 1..n
      PROVE  IsNamed(more, is[id].name, id) = IF id = n THEN TRUE ELSE IsNamed(ids, is[id].name, id)
  BY <1>2 DEF IsNamed
<1>5. last = [old EXCEPT ![n].named = TRUE]
  <2>1. \A id \in 1..n : old[id] \in {old[k] : k \in 1..n}
    OBVIOUS
  <2>2. Len(old) = n
    BY <1>1, <1>3, <2>1, AFunctionIsAList
  <2> QED
    BY <2>2 DEF Promise!LastNamed
<1> HIDE DEF last
<1>6. last = [id \in 1..n |-> IF id = n THEN [old[id] EXCEPT !.named = TRUE] ELSE old[id]]
  BY <1>1, <1>3, <1>5
<1>7. ASSUME NEW id \in 1..n PROVE new[id] = last[id]
  <2>1. last[id] = IF id = n THEN [old[id] EXCEPT !.named = TRUE] ELSE old[id]
    BY <1>6
  <2>2. new[id] = EntryOf(is[id], values, more, id) /\ old[id] = EntryOf(is[id], values, ids, id)
    BY <1>3
  <2> DEFINE value == IF id \in DOMAIN values THEN values[id] ELSE Missing
  <2> HIDE DEF value
  <2>3. CASE id = n
    <3>1. IsNamed(more, is[id].name, id) = TRUE
      BY <2>3, <1>4
    <3>2. new[id] = [name |-> is[id].name, type |-> is[id].type, isConstant |-> is[id].isConstant,
                     value |-> value, named |-> TRUE]
      BY <2>2, <3>1, Zenon DEF EntryOf, value
    <3>3. old[id] = [name |-> is[id].name, type |-> is[id].type, isConstant |-> is[id].isConstant,
                     value |-> value, named |-> IsNamed(ids, is[id].name, id)]
      BY <2>2, Zenon DEF EntryOf, value
    <3>4. [old[id] EXCEPT !.named = TRUE] =
             [name |-> is[id].name, type |-> is[id].type, isConstant |-> is[id].isConstant,
              value |-> value, named |-> TRUE]
      <4>1. ASSUME NEW was, NEW flag,
                   old[id] = [name |-> is[id].name, type |-> is[id].type, isConstant |-> is[id].isConstant,
                              value |-> value, named |-> was]
            PROVE  [old[id] EXCEPT !.named = flag] =
                   [name |-> is[id].name, type |-> is[id].type, isConstant |-> is[id].isConstant,
                    value |-> value, named |-> flag]
        BY <4>1
      <4> QED
        BY <3>3, <4>1, Zenon
    <3> QED
      BY <2>1, <2>3, <3>2, <3>4
  <2>4. CASE id # n
    <3>1. IsNamed(more, is[id].name, id) = IsNamed(ids, is[id].name, id)
      BY <2>4, <1>4
    <3>2. EntryOf(is[id], values, more, id) = EntryOf(is[id], values, ids, id)
      BY <3>1 DEF EntryOf
    <3> QED
      BY <2>1, <2>2, <2>4, <3>2
  <2> QED
    BY <2>3, <2>4
<1>8. new = [id \in 1..n |-> new[id]] /\ last = [id \in 1..n |-> last[id]]
  BY <1>3, <1>6
<1>9. new = last
  BY <1>1, <1>7, <1>8, SameList
<1> QED
  BY <1>9 DEF new, last, more, old

(* The list of the types, after one was added with its name or without.    *)
LEMMA OneMoreType ==
    ASSUME NEW list \in Seq(DataTypes), NEW ids, NEW type \in DataTypes, type.name \notin DOMAIN ids,
           NEW named \in BOOLEAN,
           NEW more, more = IF named THEN WithName(ids, type.name, Len(list) + 1) ELSE ids,
           NEW last, last = [name |-> type.name, index |-> type.index, named |-> named]
    PROVE  TypeList(Append(list, type), more) = Append(TypeList(list, ids), last)
<1> DEFINE longer == Append(list, type)
           old == TypeList(list, ids)
           new == TypeList(longer, more)
           n == Len(list)
<1>1. /\ n \in Nat /\ DOMAIN list = 1..n /\ DOMAIN longer = 1..(n + 1)
      /\ longer[n + 1] = type /\ \A id \in 1..n : longer[id] = list[id]
  OBVIOUS
<1> HIDE DEF longer, n
<1>2. IsNamed(more, type.name, n + 1) = named
  <2>1. more = ids => IsNamed(more, type.name, n + 1) = FALSE
    BY DEF IsNamed
  <2>2. more = WithName(ids, type.name, n + 1) => IsNamed(more, type.name, n + 1) = TRUE
    BY DEF IsNamed, WithName
  <2> QED
    BY <2>1, <2>2 DEF n
<1>3. ASSUME NEW id \in 1..n PROVE IsNamed(more, list[id].name, id) = IsNamed(ids, list[id].name, id)
  <2>1. id # n + 1
    BY <1>1
  <2> QED
    BY <2>1 DEF IsNamed, WithName, n
<1>4. old = [id \in 1..n |-> [name |-> list[id].name, index |-> list[id].index,
                              named |-> IsNamed(ids, list[id].name, id)]]
  BY <1>1 DEF TypeList
<1>5. new = [id \in 1..(n + 1) |-> [name |-> longer[id].name, index |-> longer[id].index,
                                    named |-> IsNamed(more, longer[id].name, id)]]
  BY <1>1 DEF TypeList
<1> HIDE DEF old, new
<1>6. new[n + 1] = last
  BY <1>1, <1>2, <1>5
<1>7. \A id \in 1..n : new[id] = old[id]
  BY <1>1, <1>3, <1>4, <1>5
<1> DEFINE S == {new[id] : id \in 1..(n + 1)}
<1>8. new \in [1..(n + 1) -> S]
  BY <1>5
<1>9. \A id \in 1..n : old[id] \in S
  <2>1. \A id \in 1..n : id \in 1..(n + 1) /\ new[id] \in S
    BY <1>1
  <2> QED
    BY <2>1, <1>7
<1> HIDE DEF S
<1>10. old \in [1..n -> S]
  BY <1>4, <1>9
<1>11. new = Append(old, last)
  BY <1>1, <1>6, <1>7, <1>8, <1>10, AnAppendedList
<1> QED
  BY <1>11 DEF old, new, longer

(* What a step leaves alone, and what it does to one context.              *)
LEMMA UnchangedLists ==
    /\ UNCHANGED <<types, typeTable>> => UNCHANGED NamedTypes
    /\ UNCHANGED <<infos, memory, table>> => UNCHANGED Entries
BY DEF NamedTypes, Entries

Changes(old, new, c, to) == new[c] = to /\ \A d \in Contexts \ {c} : new[d] = old[d]

LEMMA ChangesOne ==
    ASSUME NEW c \in Contexts, NEW old, NEW new, NEW to,
           \/ DOMAIN old = Contexts /\ new = [old EXCEPT ![c] = to]
           \/ new = old /\ to = old[c]
    PROVE  Changes(old, new, c, to)
BY DEF Changes

LEMMA EntriesOfOne ==
    ASSUME NEW c \in Contexts, NEW is, NEW values, NEW ids,
           Changes(infos, infos', c, is), Changes(memory, memory', c, values), Changes(table, table', c, ids)
    PROVE  Entries' = [Entries EXCEPT ![c] = EntryList(is, values, ids)]
<1>1. Entries' = [d \in Contexts |-> EntryList(infos'[d], memory'[d], table'[d])]
  BY DEF Entries
<1>2. Entries = [d \in Contexts |-> EntryList(infos[d], memory[d], table[d])]
  BY DEF Entries
<1>3. \A d \in Contexts : EntryList(infos'[d], memory'[d], table'[d]) =
         IF d = c THEN EntryList(is, values, ids) ELSE Entries[d]
  BY <1>2 DEF Changes
<1> HIDE DEF Entries
<1> QED
  BY <1>1, <1>2, <1>3

LEMMA TypesOfOne ==
    ASSUME NEW c \in Contexts, NEW list, NEW ids,
           Changes(types, types', c, list), Changes(typeTable, typeTable', c, ids)
    PROVE  NamedTypes' = [NamedTypes EXCEPT ![c] = TypeList(list, ids)]
<1>1. NamedTypes' = [d \in Contexts |-> TypeList(types'[d], typeTable'[d])]
  BY DEF NamedTypes
<1>2. NamedTypes = [d \in Contexts |-> TypeList(types[d], typeTable[d])]
  BY DEF NamedTypes
<1>3. \A d \in Contexts : TypeList(types'[d], typeTable'[d]) =
         IF d = c THEN TypeList(list, ids) ELSE NamedTypes[d]
  BY <1>2 DEF Changes
<1> HIDE DEF NamedTypes
<1> QED
  BY <1>1, <1>2, <1>3

(* What a context contains.                                                *)
LEMMA ContextTypes ==
    ASSUME StorageInv, NEW c \in Contexts
    PROVE  /\ infos[c] \in Seq(Infos) /\ memory[c] \in Seq(AllValues) /\ types[c] \in Seq(DataTypes)
           /\ Len(memory[c]) <= Len(infos[c]) /\ owner[c] \in Contexts
           /\ DOMAIN infos = Contexts /\ DOMAIN memory = Contexts /\ DOMAIN table = Contexts
           /\ DOMAIN types = Contexts /\ DOMAIN typeTable = Contexts
           /\ Entries[c] = EntryList(infos[c], memory[c], table[c])
           /\ NamedTypes[c] = TypeList(types[c], typeTable[c])
<1>1. /\ infos[c] \in Seq(Infos) /\ memory[c] \in Seq(AllValues) /\ types[c] \in Seq(DataTypes)
      /\ Len(memory[c]) <= Len(infos[c]) /\ owner[c] \in Contexts
  BY DEF StorageInv, StorageTypeOK, Infos
<1>2. /\ DOMAIN infos = Contexts /\ DOMAIN memory = Contexts /\ DOMAIN table = Contexts
      /\ DOMAIN types = Contexts /\ DOMAIN typeTable = Contexts
  BY DEF StorageInv, StorageTypeOK
<1>3. Entries[c] = EntryList(infos[c], memory[c], table[c]) /\ NamedTypes[c] = TypeList(types[c], typeTable[c])
  BY DEF Entries, NamedTypes
<1> QED
  BY <1>1, <1>2, <1>3

(* An exception leaves everything as it was.                               *)
LEMMA ThrowStep ==
    ASSUME NEW c \in Contexts, state[c] = "live",
           NEW call \in {"registerType", "registerVariable", "getIdByLiteral", "setValue", "getValue"},
           NEW result \in {"runtime_error", "bad_optional_access", "bad_alloc"},
           Call(call, c, result), UNCHANGED <<types, typeTable, infos, memory, table, owner, state>>
    PROVE  Promise!Next
<1>1. UNCHANGED <<NamedTypes, Entries, owner, state>>
  BY UnchangedLists
<1>2. Promise!Answer(call, c, result)
  BY DEF Call, Returns, Promise!Answer, Promise!Returns
<1>3. Promise!Throw(c)
  BY <1>1, <1>2 DEF Promise!Throw
<1> QED
  BY <1>3 DEF Promise!Next

(* The calls that make, destroy, copy or fill a context.                   *)
LEMMA ContextStep ==
    ASSUME StorageInv, NEW c \in Contexts,
           \/ Create(c) \/ Destroy(c) \/ OutOfMemory(c)
           \/ \E other \in Contexts : Copy(c, other)
           \/ \E info \in AllInfos : ReadsDestroyedTypes(c, info)
    PROVE  Promise!Next
<1>1. CASE Create(c)
  <2>1. UNCHANGED <<NamedTypes, Entries, owner>>
    BY <1>1, UnchangedLists DEF Create
  <2>2. Promise!Create(c)
    BY <1>1, <2>1 DEF Create, Call, Returns, Promise!Create, Promise!Become, Promise!Answer, Promise!Returns
  <2> QED
    BY <1>1, <2>2 DEF Create, Promise!Next
<1>2. CASE Destroy(c)
  <2>1. UNCHANGED <<NamedTypes, Entries, owner>>
    BY <1>2, UnchangedLists DEF Destroy
  <2>2. Promise!Destroy(c)
    BY <1>2, <2>1
    DEF Destroy, Use, Call, Returns, Promise!Destroy, Promise!Become, Promise!Answer, Promise!Returns
  <2> QED
    BY <1>2, <2>2 DEF Destroy, Use, Promise!Next
<1>3. CASE OutOfMemory(c)
  <2>1. UNCHANGED <<types, typeTable, infos, memory, table, owner, state>>
    BY <1>3 DEF OutOfMemory, storages
  <2>2. ASSUME NEW call \in {"registerType", "registerVariable", "getIdByLiteral", "setValue", "getValue"},
               Use(call, c, "bad_alloc")
        PROVE  Promise!Next
    BY <2>1, <2>2, ThrowStep DEF Use
  <2>3. ASSUME state[c] = "unused", NEW call \in {"create", "copy"}, Call(call, c, "bad_alloc")
        PROVE  Promise!Next
    <3>1. UNCHANGED <<NamedTypes, Entries, owner, state>>
      BY <2>1, UnchangedLists
    <3>2. Promise!NotMade(c)
      BY <2>3, <3>1 DEF Call, Returns, Promise!NotMade, Promise!Answer, Promise!Returns
    <3> QED
      BY <2>3, <3>2 DEF Promise!Next
  <2> QED
    BY <1>3, <2>2, <2>3 DEF OutOfMemory
<1>4. ASSUME NEW other \in Contexts, Copy(c, other) PROVE Promise!Next
  <2>1. /\ infos' = [infos EXCEPT ![c] = infos[other]] /\ memory' = [memory EXCEPT ![c] = memory[other]]
        /\ table' = [table EXCEPT ![c] = table[other]] /\ types' = [types EXCEPT ![c] = types[other]]
        /\ typeTable' = [typeTable EXCEPT ![c] = typeTable[other]]
    BY <1>4 DEF Copy
  <2>2. /\ Changes(infos, infos', c, infos[other]) /\ Changes(memory, memory', c, memory[other])
        /\ Changes(table, table', c, table[other]) /\ Changes(types, types', c, types[other])
        /\ Changes(typeTable, typeTable', c, typeTable[other])
    BY <2>1, ContextTypes, ChangesOne
  <2>3. Entries' = [Entries EXCEPT ![c] = EntryList(infos[other], memory[other], table[other])]
    BY <2>2, EntriesOfOne
  <2>4. NamedTypes' = [NamedTypes EXCEPT ![c] = TypeList(types[other], typeTable[other])]
    BY <2>2, TypesOfOne
  <2>5. /\ Entries[other] = EntryList(infos[other], memory[other], table[other])
        /\ NamedTypes[other] = TypeList(types[other], typeTable[other])
    BY DEF Entries, NamedTypes
  <2>6. Promise!Copy(c, other)
    BY <1>4, <2>3, <2>4, <2>5
    DEF Copy, Call, Returns, Promise!Copy, Promise!Become, Promise!Answer, Promise!Returns
  <2> QED
    BY <1>4, <2>6 DEF Copy, Promise!Next
<1>5. ASSUME NEW info \in AllInfos, ReadsDestroyedTypes(c, info) PROVE Promise!Next
  <2>1. UNCHANGED <<NamedTypes, Entries, owner, state>>
    BY <1>5, UnchangedLists DEF ReadsDestroyedTypes, storages
  <2>2. Promise!Undefined(c)
    BY <1>5, <2>1 DEF ReadsDestroyedTypes, OwnerIsGone, Promise!Undefined
  <2> QED
    BY <1>5, <2>2 DEF ReadsDestroyedTypes, Promise!Next
<1> QED
  BY <1>1, <1>2, <1>3, <1>4, <1>5

LEMMA RegistersTypes ==
    ASSUME StorageInv, NEW c \in Contexts, NEW type \in DataTypes, RegisterType(c, type)
    PROVE  Promise!Next
<1>1. UNCHANGED <<infos, memory, table, owner, state>> /\ state[c] = "live"
  BY DEF RegisterType, Use
<1>2. CASE Call("registerType", c, "runtime_error") /\ UNCHANGED <<types, typeTable>>
  BY <1>1, <1>2, ThrowStep
<1>3. ASSUME ~IsTypeName(c, type.name), types' = [types EXCEPT ![c] = Append(@, type)],
             NEW named \in BOOLEAN, NEW ids,
             ids = IF named THEN WithName(typeTable[c], type.name, Len(types[c]) + 1) ELSE typeTable[c],
             Changes(typeTable, typeTable', c, ids),
             Call("registerType", c, IF named THEN "done" ELSE "bad_alloc")
      PROVE  Promise!Next
  <2> DEFINE last == [name |-> type.name, index |-> type.index, named |-> named]
  <2>1. types[c] \in Seq(DataTypes) /\ type.name \notin DOMAIN typeTable[c]
    BY <1>3, ContextTypes DEF IsTypeName
  <2>2. last = [name |-> type.name, index |-> type.index, named |-> named]
    OBVIOUS
  <2> HIDE DEF last
  <2>3. TypeList(Append(types[c], type), ids) = Append(TypeList(types[c], typeTable[c]), last)
    BY <1>3, <2>1, <2>2, OneMoreType
  <2>4. NamedTypes' = [NamedTypes EXCEPT ![c] = TypeList(Append(types[c], type), ids)]
    <3>1. Changes(types, types', c, Append(types[c], type))
      BY <1>3, ContextTypes, ChangesOne
    <3> QED
      BY <1>3, <3>1, TypesOfOne
  <2>5. NamedTypes[c] = TypeList(types[c], typeTable[c])
    BY DEF NamedTypes
  <2>6. Promise!IsFree(NamedTypes[c], type.name)
    <3>1. ASSUME NEW k \in DOMAIN NamedTypes[c], NamedTypes[c][k].named
          PROVE  NamedTypes[c][k].name # type.name
      <4>1. NamedTypes[c][k].named = IsNamed(typeTable[c], NamedTypes[c][k].name, k)
        BY <2>5 DEF TypeList
      <4> QED
        BY <2>1, <3>1, <4>1 DEF IsNamed
    <3> QED
      BY <3>1 DEF Promise!IsFree
  <2>7. UNCHANGED <<Entries, owner, state>>
    BY <1>1, UnchangedLists
  <2>8. Promise!Answer("registerType", c, IF named THEN "done" ELSE "bad_alloc")
    BY <1>3 DEF Call, Returns, Promise!Answer, Promise!Returns
  <2>9. NamedTypes' = [NamedTypes EXCEPT ![c] = Append(@, last)]
    BY <2>3, <2>4, <2>5
  <2>10. Promise!RegisterType(c, type)
    BY <2>6, <2>7, <2>8, <2>9, <2>2 DEF Promise!RegisterType
  <2> QED
    BY <1>1, <2>10 DEF Promise!Next
<1>4. CASE /\ ~IsTypeName(c, type.name) /\ types' = [types EXCEPT ![c] = Append(@, type)]
           /\ Call("registerType", c, "done")
           /\ typeTable' = [typeTable EXCEPT ![c] = WithName(@, type.name, Len(types[c]) + 1)]
  <2>1. Changes(typeTable, typeTable', c, WithName(typeTable[c], type.name, Len(types[c]) + 1))
    BY <1>4, ContextTypes, ChangesOne
  <2> QED
    BY <1>3, <1>4, <2>1
<1>5. CASE /\ ~IsTypeName(c, type.name) /\ types' = [types EXCEPT ![c] = Append(@, type)]
           /\ Call("registerType", c, "bad_alloc") /\ UNCHANGED typeTable
  <2>1. Changes(typeTable, typeTable', c, typeTable[c])
    BY <1>5, ChangesOne
  <2> QED
    BY <1>3, <1>5, <2>1
<1> QED
  BY <1>2, <1>4, <1>5 DEF RegisterType, Use

(* The lists of a context and what it registers, as the promise has them.  *)
LEMMA RegistersAfter ==
    ASSUME StorageInv, NEW c \in Contexts, state[c] = "live",
           NEW call \in {"registerVariable", "getIdByLiteral"}, NEW result \in {"done", "bad_alloc"},
           Call(call, c, result), UNCHANGED <<types, typeTable, owner, state>>,
           NEW info \in Infos, NEW value \in AllValues,
           info.name \notin DOMAIN table[c], info.type \in DOMAIN TypesOf(c), value.kind = info.type,
           call = "getIdByLiteral" => info.isConstant /\ value.kind = TypesOf(c)[info.type].index,
           NEW values, NEW ids,
           Changes(infos, infos', c, Append(infos[c], info)),
           Changes(memory, memory', c, values), Changes(table, table', c, ids),
           LET list == Append(Entries[c], Promise!Begun(info))
           IN  EntryList(Append(infos[c], info), values, ids) \in
                   IF result = "done" THEN {Promise!LastNamed(Promise!Filled(list, value))}
                                      ELSE {list, Promise!Filled(list, value)}
    PROVE  Promise!Next
<1> DEFINE more == Append(infos[c], info)
           n == Len(infos[c])
           new == EntryList(more, values, ids)
           entry == EntryOf(info, values, ids, n + 1)
<1>1. /\ infos[c] \in Seq(Infos) /\ n \in Nat
      /\ more \in Seq(Infos) /\ Len(more) = n + 1 /\ more[n + 1] = info
  <2>1. infos[c] \in Seq(Infos)
    BY ContextTypes
  <2> QED
    BY <2>1
<1>2. Entries' = [Entries EXCEPT ![c] = new]
  BY EntriesOfOne
<1> HIDE DEF more
<1>3. new = [id \in 1..(n + 1) |-> EntryOf(more[id], values, ids, id)]
  <2>1. new = [id \in 1..Len(more) |-> EntryOf(more[id], values, ids, id)]
    BY <1>1, EntriesAre
  <2> QED
    BY <2>1, <1>1
<1>4. Entries[c] = [id \in 1..n |-> EntryOf(infos[c][id], memory[c], table[c], id)]
  <2>1. Entries[c] = EntryList(infos[c], memory[c], table[c])
    BY ContextTypes
  <2>2. EntryList(infos[c], memory[c], table[c]) =
           [id \in 1..Len(infos[c]) |-> EntryOf(infos[c][id], memory[c], table[c], id)]
    BY <1>1, EntriesAre
  <2> QED
    BY <2>1, <2>2
<1>5. Entries'[c] = new
  BY <1>2 DEF Entries
<1> HIDE DEF n, new
<1>6. Len(new) = n + 1 /\ Len(Entries[c]) = n /\ new[n + 1] = entry
  <2>1. n + 1 \in Nat /\ new = [id \in 1..(n + 1) |-> new[id]] /\ Entries[c] = [id \in 1..n |-> Entries[c][id]]
    BY <1>1, <1>3, <1>4
  <2>2. Len(new) = n + 1
    BY <2>1, AFunctionIsAList
  <2>3. Len(Entries[c]) = n
    BY <1>1, <2>1, AFunctionIsAList
  <2> QED
    BY <2>2, <2>3, <1>1, <1>3
<1>7. entry.name = info.name /\ entry.type = info.type /\ entry.isConstant = info.isConstant
  BY DEF EntryOf
<1>8. Promise!Begun(entry) = Promise!Begun(info)
  BY <1>7 DEF Promise!Begun
<1> HIDE DEF entry
<1>9. Promise!IsFree(Entries[c], entry.name)
  <2>1. ASSUME NEW k \in DOMAIN Entries[c], Entries[c][k].named PROVE Entries[c][k].name # info.name
    <3>1. Entries[c][k] = EntryOf(infos[c][k], memory[c], table[c], k)
      BY <1>4
    <3>2. IsNamed(table[c], Entries[c][k].name, k)
      BY <2>1, <3>1 DEF EntryOf
    <3> QED
      BY <3>2 DEF IsNamed
  <2> QED
    BY <2>1, <1>7 DEF Promise!IsFree
<1>10. owner[c] \in Contexts /\ NamedTypes[owner[c]] = TypeList(TypesOf(c), typeTable[owner[c]])
  BY DEF StorageInv, StorageTypeOK, NamedTypes, TypesOf
<1>11. /\ info.type \in DOMAIN NamedTypes[owner[c]]
       /\ NamedTypes[owner[c]][info.type].index = TypesOf(c)[info.type].index
  BY <1>10 DEF TypeList
<1>12. Promise!Acceptable(c, entry, value)
  BY <1>7, <1>9, <1>11 DEF Promise!Acceptable
<1>13. call = "getIdByLiteral" => Promise!IsLiteral(c, entry, value)
  BY <1>7, <1>11 DEF Promise!IsLiteral
<1>14. Promise!Answer(call, c, result)
  BY DEF Call, Returns, Promise!Answer, Promise!Returns
<1>15. UNCHANGED <<NamedTypes, owner, state>>
  BY UnchangedLists
<1>16. Entries'[c][Len(Entries'[c])] = entry /\ Len(Entries'[c]) = Len(Entries[c]) + 1
  BY <1>5, <1>6
<1>17. Promise!Register(c)
  <2> DEFINE list == Append(Entries[c], Promise!Begun(info))
  <2>1. new \in IF result = "done" THEN {Promise!LastNamed(Promise!Filled(list, value))}
                                   ELSE {list, Promise!Filled(list, value)}
    BY DEF new, more
  <2>2. list = Append(Entries[c], Promise!Begun(Entries'[c][Len(Entries'[c])]))
    BY <1>8, <1>16
  <2> HIDE DEF list
  <2> QED
    BY <1>2, <1>12, <1>13, <1>14, <1>15, <1>16, <2>1, <2>2 DEF Promise!Register
<1> QED
  BY <1>17 DEF Promise!Next

(* The common part of a registration.                                      *)
LEMMA RegistersAnEntry ==
    ASSUME StorageInv, NEW c \in Contexts, NEW call \in {"registerVariable", "getIdByLiteral"},
           NEW info \in Infos, NEW value \in AllValues,
           call = "getIdByLiteral" => info.isConstant /\ value.kind = TypesOf(c)[info.type].index,
           RegisterOrRefuse(call, c, info, value), UNCHANGED <<types, typeTable, owner, state>>
    PROVE  Promise!Next
<1> DEFINE result == CheckVariable(c, info, value.kind)
<1>1. CASE result # "done" /\ Refuse(call, c, result)
  <2>1. result \in {"runtime_error", "bad_optional_access"}
    BY <1>1 DEF CheckVariable
  <2>2. state[c] = "live" /\ Call(call, c, result) /\ UNCHANGED <<infos, memory, table>>
    BY <1>1 DEF Refuse, Use
  <2> HIDE DEF result
  <2> QED
    BY <2>1, <2>2, ThrowStep
<1>2. CASE result = "done" /\ Store(call, c, info, value)
  <2>1. /\ info.name \notin DOMAIN table[c] /\ info.type \in DOMAIN TypesOf(c) /\ value.kind = info.type
        /\ state[c] = "live"
    BY <1>2 DEF CheckVariable, Store, Use
  <2> HIDE DEF result
  <2> DEFINE is == infos[c]
             more == Append(is, info)
             vals == Append(memory[c], value)
             ids == WithName(table[c], info.name, Len(more))
             list == Append(Entries[c], Promise!Begun(info))
  <2>2. /\ is \in Seq(Infos) /\ memory[c] \in Seq(AllValues) /\ Len(memory[c]) <= Len(is)
        /\ Entries[c] = EntryList(is, memory[c], table[c])
    BY ContextTypes
  <2>3. /\ more \in Seq(Infos) /\ Len(more) = Len(is) + 1 /\ more[Len(more)] = info
        /\ Len(memory[c]) < Len(more) /\ Len(more) > 0 /\ vals \in Seq(AllValues)
    BY <2>2
  <2>4. EntryList(more, memory[c], table[c]) = list
    BY <2>1, <2>2, OneMoreEntry
  <2> HIDE DEF more, list
  <2>5. EntryList(more, vals, table[c]) = Promise!Filled(list, value)
    BY <2>2, <2>3, <2>4, OneMoreValue
  <2> HIDE DEF vals
  <2>6. EntryList(more, vals, ids) = Promise!LastNamed(Promise!Filled(list, value))
    BY <2>1, <2>3, <2>5, OneMoreName
  <2>7. CASE /\ Call(call, c, "done")
             /\ infos' = [infos EXCEPT ![c] = more] /\ memory' = [memory EXCEPT ![c] = vals]
             /\ table' = [table EXCEPT ![c] = ids]
    <3>1. EntryList(more, vals, ids) \in IF "done" = "done" THEN {Promise!LastNamed(Promise!Filled(list, value))}
                                                 ELSE {list, Promise!Filled(list, value)}
      BY <2>6
    <3>2. /\ Changes(infos, infos', c, more) /\ Changes(memory, memory', c, vals)
          /\ Changes(table, table', c, ids)
      BY <2>7, ContextTypes, ChangesOne
    <3> HIDE DEF ids
    <3> QED
      BY <2>1, <2>7, <3>1, <3>2, RegistersAfter DEF more, list
  <2>8. CASE Call(call, c, "bad_alloc") /\ UNCHANGED <<infos, memory, table>>
    BY <2>1, <2>8, ThrowStep
  <2>9. CASE Call(call, c, "bad_alloc") /\ infos' = [infos EXCEPT ![c] = more] /\ UNCHANGED <<memory, table>>
    <3>1. EntryList(more, memory[c], table[c]) \in
             IF "bad_alloc" = "done" THEN {Promise!LastNamed(Promise!Filled(list, value))}
                                     ELSE {list, Promise!Filled(list, value)}
      BY <2>4
    <3>2. /\ Changes(infos, infos', c, more) /\ Changes(memory, memory', c, memory[c])
          /\ Changes(table, table', c, table[c])
      BY <2>9, ContextTypes, ChangesOne
    <3> QED
      BY <2>1, <2>9, <3>1, <3>2, RegistersAfter DEF more, list
  <2>10. CASE /\ Call(call, c, "bad_alloc") /\ infos' = [infos EXCEPT ![c] = more]
              /\ memory' = [memory EXCEPT ![c] = vals] /\ UNCHANGED table
    <3>1. EntryList(more, vals, table[c]) \in
             IF "bad_alloc" = "done" THEN {Promise!LastNamed(Promise!Filled(list, value))}
                                     ELSE {list, Promise!Filled(list, value)}
      BY <2>5
    <3>2. /\ Changes(infos, infos', c, more) /\ Changes(memory, memory', c, vals)
          /\ Changes(table, table', c, table[c])
      BY <2>10, ContextTypes, ChangesOne
    <3> QED
      BY <2>1, <2>10, <3>1, <3>2, RegistersAfter DEF more, list
  <2>11. ids = WithName(table[c], info.name, NextId(c))
    BY <2>3 DEF NextId
  <2> QED
    BY <1>2, <2>7, <2>8, <2>9, <2>10, <2>11
    DEF Store, Use, AddInfo, AddValue, AddName, more, vals, StorageInv, StorageTypeOK
<1> QED
  BY <1>1, <1>2 DEF RegisterOrRefuse

LEMMA RegistersVariables ==
    ASSUME StorageInv, NEW c \in Contexts, NEW value \in AllValues,
           \/ \E info \in AllInfos : RegisterVariable(c, info, value)
           \/ \E type \in TypeIds : GetIdByLiteral(c, type, value)
    PROVE  Promise!Next
<1>1. ASSUME NEW info \in AllInfos, RegisterVariable(c, info, value) PROVE Promise!Next
  <2>1. info \in Infos
    BY StorageAssumption DEF AllInfos, Infos
  <2>2. RegisterOrRefuse("registerVariable", c, info, value) /\ UNCHANGED <<types, typeTable, owner, state>>
    BY <1>1 DEF RegisterVariable
  <2> QED
    BY <2>1, <2>2, RegistersAnEntry
<1>2. ASSUME NEW type \in TypeIds, GetIdByLiteral(c, type, value) PROVE Promise!Next
  <2> DEFINE info == [name |-> Literal(nextLiteral[c]), type |-> type, isConstant |-> TRUE]
             result == CheckLiteral(c, type, value.kind)
  <2>1. UNCHANGED <<types, typeTable, owner, state>>
    BY <1>2 DEF GetIdByLiteral
  <2>2. CASE /\ result = "done" /\ nextLiteral[c] < MaxLiterals
             /\ RegisterOrRefuse("getIdByLiteral", c, info, value)
    <3>1. info \in Infos /\ info.isConstant /\ info.type = type
      BY <2>2, StorageAssumption DEF StorageInv, StorageTypeOK, Infos
    <3>2. value.kind = TypesOf(c)[type].index
      BY <2>2 DEF CheckLiteral
    <3> HIDE DEF info
    <3> QED
      BY <2>1, <2>2, <3>1, <3>2, RegistersAnEntry
  <2>3. CASE result # "done" /\ Refuse("getIdByLiteral", c, result)
    <3>1. result \in {"runtime_error", "bad_optional_access"}
      BY <2>3 DEF CheckLiteral
    <3>2. state[c] = "live" /\ Call("getIdByLiteral", c, result) /\ UNCHANGED <<infos, memory, table>>
      BY <2>3 DEF Refuse, Use
    <3> HIDE DEF result
    <3> QED
      BY <2>1, <3>1, <3>2, ThrowStep
  <2> QED
    BY <1>2, <2>2, <2>3 DEF GetIdByLiteral
<1> QED
  BY <1>1, <1>2

LEMMA SetsValues ==
    ASSUME StorageInv, NEW c \in Contexts, NEW value \in AllValues, NEW id \in Ids, SetValue(c, id, value)
    PROVE  Promise!Next
<1> DEFINE settable == Accessible(c, id, value.kind) /\ IsVariable(c, id)
<1>1. UNCHANGED <<types, typeTable, infos, table, owner, state>> /\ state[c] = "live"
  BY DEF SetValue, Use
<1>2. CASE ~settable
  <2>1. Call("setValue", c, "runtime_error") /\ UNCHANGED memory
    BY <1>2 DEF SetValue, Use
  <2> QED
    BY <1>1, <2>1, ThrowStep
<1>3. CASE settable
  <2> DEFINE is == infos[c]
             values == memory[c]
             changed == [values EXCEPT ![id] = value]
  <2>1. /\ Call("setValue", c, "done") /\ memory' = [memory EXCEPT ![c] = changed]
        /\ id \in DOMAIN is /\ id \in DOMAIN values /\ value.kind = is[id].type /\ ~is[id].isConstant
    BY <1>3 DEF SetValue, Use, Accessible, IsVariable
  <2>2. /\ is \in Seq(Infos) /\ values \in Seq(AllValues)
        /\ Entries[c] = EntryList(is, values, table[c])
    BY ContextTypes
  <2>3. changed \in Seq(AllValues) /\ DOMAIN changed = DOMAIN values /\ changed[id] = value
        /\ \A k \in DOMAIN values \ {id} : changed[k] = values[k]
    BY <2>1, <2>2
  <2>4. DOMAIN is = 1..Len(is)
    BY <2>2
  <2>5. Entries' = [Entries EXCEPT ![c] = EntryList(is, changed, table[c])]
    <3>1. /\ Changes(infos, infos', c, is) /\ Changes(memory, memory', c, changed)
          /\ Changes(table, table', c, table[c])
      BY <1>1, <2>1, ContextTypes, ChangesOne
    <3> QED
      BY <3>1, EntriesOfOne
  <2> HIDE DEF changed
  <2> DEFINE old == Entries[c]
             new == EntryList(is, changed, table[c])
  <2>6. /\ old = [k \in 1..Len(is) |-> EntryOf(is[k], values, table[c], k)]
        /\ new = [k \in 1..Len(is) |-> EntryOf(is[k], changed, table[c], k)]
    <3>1. old = [k \in 1..Len(is) |-> EntryOf(is[k], values, table[c], k)]
      BY <2>2, EntriesAre
    <3>2. is \in Seq(Infos)
      BY <2>2
    <3> HIDE DEF is
    <3>3. new = [k \in 1..Len(is) |-> EntryOf(is[k], changed, table[c], k)]
      BY <3>2, EntriesAre
    <3> QED
      BY <3>1, <3>3
  <2> HIDE DEF old, new
  <2>7. \A k \in 1..Len(is) : new[k] = IF k = id THEN [old[k] EXCEPT !.value = value] ELSE old[k]
    <3> SUFFICES ASSUME NEW k \in 1..Len(is)
                 PROVE  new[k] = IF k = id THEN [old[k] EXCEPT !.value = value] ELSE old[k]
      OBVIOUS
    <3>1. new[k] = EntryOf(is[k], changed, table[c], k) /\ old[k] = EntryOf(is[k], values, table[c], k)
      BY <2>6
    <3>2. CASE k = id
      <4>1. new[k] = [name |-> is[k].name, type |-> is[k].type, isConstant |-> is[k].isConstant,
                      value |-> value, named |-> IsNamed(table[c], is[k].name, k)]
        BY <2>1, <2>3, <3>1, <3>2, Zenon DEF EntryOf
      <4>2. [old[k] EXCEPT !.value = value] =
               [name |-> is[k].name, type |-> is[k].type, isConstant |-> is[k].isConstant,
                value |-> value, named |-> IsNamed(table[c], is[k].name, k)]
        BY <3>1 DEF EntryOf
      <4> QED
        BY <3>2, <4>1, <4>2
    <3>3. CASE k # id
      <4>1. (k \in DOMAIN changed <=> k \in DOMAIN values) /\ (k \in DOMAIN values => changed[k] = values[k])
        BY <2>3, <3>3
      <4>2. EntryOf(is[k], changed, table[c], k) = EntryOf(is[k], values, table[c], k)
        BY <4>1, Zenon DEF EntryOf
      <4> QED
        BY <3>1, <3>3, <4>2
    <3> QED
      BY <3>2, <3>3
  <2>8. new = [old EXCEPT ![id] = [old[id] EXCEPT !.value = value]]
    BY <2>6, <2>7
  <2>9. Entries' = [Entries EXCEPT ![c][id].value = value]
    BY <2>5, <2>8 DEF old, new
  <2>10. /\ id \in DOMAIN Entries[c] /\ Entries[c][id].isConstant = is[id].isConstant
         /\ Entries[c][id].type = is[id].type /\ Entries[c][id].value = values[id]
    <3>1. id \in DOMAIN old /\ old[id] = EntryOf(is[id], values, table[c], id)
      BY <2>1, <2>4, <2>6
    <3> QED
      BY <2>1, <3>1 DEF EntryOf, old
  <2>11. values[id] # Missing
    BY <2>1, <2>2, ValueThere
  <2>12. Promise!Answer("setValue", c, "done")
    BY <2>1 DEF Call, Returns, Promise!Answer, Promise!Returns
  <2>13. UNCHANGED <<NamedTypes, owner, state>>
    BY <1>1, UnchangedLists
  <2>14. Promise!SetValue(c, id, value)
    BY <2>1, <2>9, <2>10, <2>11, <2>12, <2>13 DEF Promise!SetValue
  <2> QED
    BY <1>1, <2>10, <2>14 DEF Promise!Next
<1> QED
  BY <1>2, <1>3

LEMMA GetsValues ==
    ASSUME StorageInv, NEW c \in Contexts, NEW id \in Ids, NEW kind \in Kinds, GetValue(c, id, kind)
    PROVE  Promise!Next
<1>1. UNCHANGED <<types, typeTable, infos, memory, table, owner, state>> /\ state[c] = "live"
  BY DEF GetValue, storages
<1>2. CASE ~Accessible(c, id, kind)
  BY <1>1, <1>2, ThrowStep DEF GetValue
<1>3. CASE Accessible(c, id, kind)
  <2>1. id \in DOMAIN infos[c] /\ id \in DOMAIN memory[c] /\ kind = infos[c][id].type
    BY <1>3 DEF Accessible
  <2>2. /\ infos[c] \in Seq(Infos) /\ memory[c] \in Seq(AllValues) /\ DOMAIN infos[c] = 1..Len(infos[c])
        /\ Entries[c] = EntryList(infos[c], memory[c], table[c])
    BY ContextTypes
  <2>3. Entries[c] = [k \in 1..Len(infos[c]) |-> EntryOf(infos[c][k], memory[c], table[c], k)]
    BY <2>2, EntriesAre
  <2>4. id \in DOMAIN Entries[c] /\ Entries[c][id].value = memory[c][id] /\ Entries[c][id].type = kind
    <3>1. id \in DOMAIN Entries[c] /\ Entries[c][id] = EntryOf(infos[c][id], memory[c], table[c], id)
      BY <2>1, <2>2, <2>3
    <3> QED
      BY <2>1, <3>1 DEF EntryOf
  <2>5. memory[c][id] # Missing
    BY <2>1, <2>2, ValueThere
  <2>6. IF memory[c][id].kind = kind THEN Promise!Returns("getValue", c, "done", memory[c][id])
                                     ELSE Promise!Answer("getValue", c, "bad_variant_access")
    BY <1>3 DEF GetValue, Call, Returns, Promise!Answer, Promise!Returns
  <2>7. UNCHANGED <<NamedTypes, Entries, owner, state>>
    BY <1>1, UnchangedLists
  <2>8. Promise!GetValue(c, id)
    BY <2>4, <2>5, <2>6, <2>7 DEF Promise!GetValue
  <2> QED
    BY <1>1, <2>4, <2>8 DEF Promise!Next
<1> QED
  BY <1>2, <1>3

LEMMA InitialPromise == StorageInit => Promise!Init
<1> SUFFICES ASSUME StorageInit PROVE Promise!Init
  OBVIOUS
<1>1. ASSUME NEW c \in Contexts PROVE Entries[c] = << >> /\ NamedTypes[c] = << >>
  <2>1. infos[c] = << >> /\ DOMAIN infos[c] = {} /\ types[c] = << >> /\ DOMAIN types[c] = {}
    BY DEF StorageInit
  <2>2. Entries[c] \in Seq({}) /\ Len(Entries[c]) = 0
    BY <2>1 DEF Entries, EntryList
  <2>3. NamedTypes[c] \in Seq({}) /\ Len(NamedTypes[c]) = 0
    BY <2>1 DEF NamedTypes, TypeList
  <2> QED
    BY <2>2, <2>3, EmptySeq
<1>2. Entries = [c \in Contexts |-> << >>] /\ NamedTypes = [c \in Contexts |-> << >>]
  BY <1>1 DEF Entries, NamedTypes
<1> QED
  BY <1>2 DEF StorageInit, Promise!Init

(* Every call of a storage does to the lists of types and variables what   *)
(* it promises, a call that runs out of memory halfway included, for every *)
(* number of contexts, types, variables and literals                       *)
(* (variables_storage.h:27-118, type_storage.h:30-77).                     *)
THEOREM ImplementsAStore == StorageSpec => IsAStore
<1>1. ASSUME StorageInv, [StorageNext]_storageVars
      PROVE  [Promise!Next]_(Promise!specVars)
  <2>1. CASE UNCHANGED storageVars
    <3>1. UNCHANGED <<NamedTypes, Entries, owner, state, answer>>
      BY <2>1, UnchangedLists DEF storageVars, storages
    <3> QED
      BY <3>1 DEF Promise!specVars
  <2>2. CASE StorageNext
    <3> PICK c \in Contexts :
          \/ Create(c) \/ Destroy(c) \/ OutOfMemory(c)
          \/ \E other \in Contexts : Copy(c, other)
          \/ \E type \in DataTypes : RegisterType(c, type)
          \/ \E info \in AllInfos : ReadsDestroyedTypes(c, info)
          \/ \E value \in AllValues :
                \/ \E info \in AllInfos : RegisterVariable(c, info, value)
                \/ \E type \in TypeIds : GetIdByLiteral(c, type, value)
                \/ \E id \in Ids : SetValue(c, id, value)
          \/ \E id \in Ids, kind \in Kinds : GetValue(c, id, kind)
      BY <2>2 DEF StorageNext
    <3> QED
      BY <1>1, ContextStep, RegistersTypes, RegistersVariables, SetsValues, GetsValues
  <2> QED
    BY <1>1, <2>1, <2>2
<1> QED
  BY <1>1, InvariantHolds, InitialPromise, PTL DEF StorageSpec, IsAStore, Promise!Spec
=============================================================================
