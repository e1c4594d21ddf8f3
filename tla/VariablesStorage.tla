----------------------------- MODULE VariablesStorage -----------------------------
(***************************************************************************)
(* TypeStorage and VariablesStorage (include/type_storage.h,               *)
(* variables_storage.h) of contexts that are made, copied and destroyed    *)
(* (ExecutionContext).  A copy gets the types and the variables of the     *)
(* original, but its variable storage keeps the reference to the types     *)
(* that the original's has.  An allocation may fail wherever a container   *)
(* grows or a name or a value is copied.  Ids and the indices of the       *)
(* alternatives of DataValue count from 1.                                 *)
(***************************************************************************)
EXTENDS Naturals, Sequences

CONSTANTS Contexts,
          Names,        \* of variables
          Literal(_),   \* the name of the n-th literal: "$n"
          DataTypes,    \* what is registered as a type: a name and an index
          Kinds,        \* the indices of the alternatives of DataValue
          Payloads,     \* the values an alternative can have
          MaxTypes,     \* bound on the types of a context
          MaxEntries,   \* bound on the variables of a context
          MaxLiterals   \* bound on nextLiteral

ASSUME StorageAssumption ==
    /\ Kinds \subseteq Nat \ {0}
    /\ DataTypes \subseteq [name : STRING, index : Kinds]
    /\ Names \subseteq STRING
    /\ MaxTypes \in Nat /\ MaxEntries \in Nat /\ MaxLiterals \in Nat
    /\ \A n \in 0..MaxLiterals : Literal(n) \in STRING

VARIABLES types,        \* mTypeInfos of each context
          typeTable,    \* mTypeTable
          infos,        \* mInfos
          memory,       \* mMemory
          table,        \* mVariableTable
          nextLiteral,  \* mNextLiteralIndex
          owner,        \* the context whose types mTypeStorage refers to
          state,        \* "unused", "live" or "destroyed"
          answer,       \* the last call, on what context, and how it ended
          torn          \* history: the contexts in which a variable was registered halfway

storages == <<types, typeTable, infos, memory, table, nextLiteral, owner, state>>
storageVars == <<storages, answer, torn>>

StorageInit ==
    /\ types = [c \in Contexts |-> << >>]
    /\ typeTable = [c \in Contexts |-> << >>]
    /\ infos = [c \in Contexts |-> << >>]
    /\ memory = [c \in Contexts |-> << >>]
    /\ table = [c \in Contexts |-> << >>]
    /\ nextLiteral = [c \in Contexts |-> 0]
    /\ owner = [c \in Contexts |-> c]
    /\ state = [c \in Contexts |-> "unused"]
    /\ answer = [call |-> "none"]
    /\ torn = {}
-----------------------------------------------------------------------------
Value(kind, payload) == [kind |-> kind, payload |-> payload]
Missing == Value(0, "none")

(* Nothing more is said once the types of a destroyed context were read.   *)
Returns(call, c, result, value) ==
    /\ answer # [call |-> "undefined"]
    /\ answer' = [call |-> call, context |-> c, result |-> result, value |-> value]

Call(call, c, result) == Returns(call, c, result, Missing)

Use(call, c, result) == state[c] = "live" /\ Call(call, c, result)

Create(c) ==
    /\ state[c] = "unused"
    /\ Call("create", c, "done")
    /\ state' = [state EXCEPT ![c] = "live"]
    /\ UNCHANGED <<types, typeTable, infos, memory, table, nextLiteral, owner, torn>>

Copy(c, other) ==
    /\ state[c] = "unused" /\ state[other] = "live"
    /\ Call("copy", c, "done")
    /\ state' = [state EXCEPT ![c] = "live"]
    /\ types' = [types EXCEPT ![c] = types[other]]
    /\ typeTable' = [typeTable EXCEPT ![c] = typeTable[other]]
    /\ infos' = [infos EXCEPT ![c] = infos[other]]
    /\ memory' = [memory EXCEPT ![c] = memory[other]]
    /\ table' = [table EXCEPT ![c] = table[other]]
    /\ nextLiteral' = [nextLiteral EXCEPT ![c] = nextLiteral[other]]
    /\ owner' = [owner EXCEPT ![c] = owner[other]]
    /\ torn' = IF other \in torn THEN torn \cup {c} ELSE torn

Destroy(c) ==
    /\ Use("destroy", c, "done")
    /\ state' = [state EXCEPT ![c] = "destroyed"]
    /\ UNCHANGED <<types, typeTable, infos, memory, table, nextLiteral, owner, torn>>

WithName(ids, name, id) ==
    [n \in DOMAIN ids \cup {name} |-> IF n = name THEN id ELSE ids[n]]

IsTypeName(c, name) == name \in DOMAIN typeTable[c]

(* The type, and then the name, unless that allocation fails: the type is  *)
(* there, but can be registered again, under another id.                   *)
RegisterType(c, type) ==
    /\ \/ /\ IsTypeName(c, type.name)
          /\ Use("registerType", c, "runtime_error")
          /\ UNCHANGED <<types, typeTable>>
       \/ /\ ~IsTypeName(c, type.name)
          /\ Len(types[c]) < MaxTypes
          /\ types' = [types EXCEPT ![c] = Append(@, type)]
          /\ \/ /\ Use("registerType", c, "done")
                /\ typeTable' = [typeTable EXCEPT ![c] = WithName(@, type.name, Len(types[c]) + 1)]
             \/ Use("registerType", c, "bad_alloc") /\ UNCHANGED typeTable
    /\ UNCHANGED <<infos, memory, table, nextLiteral, owner, state, torn>>

(* A name or a value cannot be copied before anything is changed.          *)
OutOfMemory(c) ==
    /\ \/ \E call \in {"registerType", "registerVariable", "getIdByLiteral", "setValue", "getValue"} :
             Use(call, c, "bad_alloc")
       \/ state[c] = "unused" /\ \E call \in {"create", "copy"} : Call(call, c, "bad_alloc")
    /\ UNCHANGED <<storages, torn>>
-----------------------------------------------------------------------------
(* What the first lines of registerVariable and of getIdByLiteral find:    *)
(* the one compares the value with the id of the type, the other with the  *)
(* index that was registered under the id.                                 *)
TypesOf(c) == types[owner[c]]

(* Mutant: the kind of the value is not compared with the type. *)
CheckVariableNotType(c, info, kind) ==
    IF info.name \in DOMAIN table[c] THEN "runtime_error"
    ELSE IF info.type \notin DOMAIN TypesOf(c) THEN "bad_optional_access" ELSE "done"

CheckVariable(c, info, kind) ==
    IF info.name \in DOMAIN table[c] THEN "runtime_error"
    ELSE IF info.type \notin DOMAIN TypesOf(c) THEN "bad_optional_access"
    ELSE IF kind # info.type THEN "runtime_error" ELSE "done"

CheckLiteral(c, type, kind) ==
    IF type \notin DOMAIN TypesOf(c) THEN "bad_optional_access"
    ELSE IF kind # TypesOf(c)[type].index THEN "runtime_error" ELSE "done"

(* Whether the types are read, and can still be. *)
OwnerIsGone(c) == state[owner[c]] # "live"

AddInfo(c, info) == infos' = [infos EXCEPT ![c] = Append(@, info)]
AddValue(c, value) == memory' = [memory EXCEPT ![c] = Append(@, value)]

(* Mutant: the id is taken after the information was added. *)
NextIdTooLate(c) == Len(infos[c]) + 2

(* The id of the variable is the number of those before. *)
NextId(c) == Len(infos[c]) + 1

AddName(c, name) == table' = [table EXCEPT ![c] = WithName(@, name, NextId(c))]

(* The information, the value and the name, until an allocation fails.     *)
Store(call, c, info, value) ==
    \/ /\ Use(call, c, "done")
       /\ AddInfo(c, info) /\ AddValue(c, value) /\ AddName(c, info.name)
       /\ UNCHANGED torn
    \/ /\ Use(call, c, "bad_alloc")
       /\ \/ UNCHANGED <<infos, memory, torn>>
          \/ AddInfo(c, info) /\ torn' = torn \cup {c} /\ UNCHANGED memory
          \/ AddInfo(c, info) /\ AddValue(c, value) /\ torn' = torn \cup {c}
       /\ UNCHANGED table

Refuse(call, c, exception) ==
    Use(call, c, exception) /\ UNCHANGED <<infos, memory, table, torn>>

RegisterOrRefuse(call, c, info, value) ==
    LET result == CheckVariable(c, info, value.kind)
    IN  IF result = "done" THEN Len(infos[c]) < MaxEntries /\ Store(call, c, info, value)
                           ELSE Refuse(call, c, result)

RegisterVariable(c, info, value) ==
    /\ OwnerIsGone(c) => info.name \in DOMAIN table[c]
    /\ RegisterOrRefuse("registerVariable", c, info, value)
    /\ UNCHANGED <<types, typeTable, nextLiteral, owner, state>>

GetIdByLiteral(c, type, value) ==
    LET result == CheckLiteral(c, type, value.kind)
        info == [name |-> Literal(nextLiteral[c]), type |-> type, isConstant |-> TRUE]
    IN  /\ ~OwnerIsGone(c)
        /\ IF result = "done"
           THEN /\ nextLiteral[c] < MaxLiterals
                /\ nextLiteral' = [nextLiteral EXCEPT ![c] = @ + 1]
                /\ RegisterOrRefuse("getIdByLiteral", c, info, value)
           ELSE Refuse("getIdByLiteral", c, result) /\ UNCHANGED nextLiteral
        /\ UNCHANGED <<types, typeTable, owner, state>>

(* mTypeStorage is followed to types that are no more. *)
ReadsDestroyedTypes(c, info) ==
    /\ state[c] = "live" /\ answer # [call |-> "undefined"]
    /\ OwnerIsGone(c) /\ info.name \notin DOMAIN table[c]
    /\ answer' = [call |-> "undefined"]
    /\ UNCHANGED <<storages, torn>>

(* The checks of setValue and getValue. *)
Accessible(c, id, kind) ==
    /\ id \in DOMAIN infos[c]
    /\ kind = infos[c][id].type
    /\ id \in DOMAIN memory[c]

(* Mutant: constants can be set. *)
IsSettable(c, id) == TRUE

IsVariable(c, id) == ~infos[c][id].isConstant

SetValue(c, id, value) ==
    LET settable == Accessible(c, id, value.kind) /\ IsVariable(c, id)
    IN  /\ Use("setValue", c, IF settable THEN "done" ELSE "runtime_error")
        /\ memory' = IF settable THEN [memory EXCEPT ![c][id] = value] ELSE memory
        /\ UNCHANGED <<types, typeTable, infos, table, nextLiteral, owner, state, torn>>

GetValue(c, id, kind) ==
    /\ state[c] = "live"
    /\ IF ~Accessible(c, id, kind) THEN Call("getValue", c, "runtime_error")
       ELSE IF memory[c][id].kind # kind THEN Call("getValue", c, "bad_variant_access")
       ELSE Returns("getValue", c, "done", memory[c][id])
    /\ UNCHANGED <<storages, torn>>

Ids == 1..(MaxEntries + 1)
AllValues == [kind : Kinds, payload : Payloads]
TypeIds == 1..MaxTypes
AllInfos == [name : Names, type : TypeIds, isConstant : BOOLEAN]

StorageNext ==
    \E c \in Contexts :
        \/ Create(c) \/ Destroy(c) \/ OutOfMemory(c)
        \/ \E other \in Contexts : Copy(c, other)
        \/ \E type \in DataTypes : RegisterType(c, type)
        \/ \E info \in AllInfos : ReadsDestroyedTypes(c, info)
        \/ \E value \in AllValues :
              \/ \E info \in AllInfos : RegisterVariable(c, info, value)
              \/ \E type \in TypeIds : GetIdByLiteral(c, type, value)
              \/ \E id \in Ids : SetValue(c, id, value)
        \/ \E id \in Ids, kind \in Kinds : GetValue(c, id, kind)

StorageSpec == StorageInit /\ [][StorageNext]_storageVars
-----------------------------------------------------------------------------
StorageTypeOK ==
    /\ types \in [Contexts -> Seq(DataTypes)]
    /\ infos \in [Contexts -> Seq([name : STRING, type : TypeIds, isConstant : BOOLEAN])]
    /\ memory \in [Contexts -> Seq(AllValues)]
    /\ DOMAIN typeTable = Contexts /\ DOMAIN table = Contexts
    /\ \A c \in Contexts :
          /\ \A name \in DOMAIN typeTable[c] :
                typeTable[c][name] \in DOMAIN types[c] /\ types[c][typeTable[c][name]].name = name
          /\ \A name \in DOMAIN table[c] : table[c][name] \in DOMAIN infos[c]
          /\ Len(memory[c]) <= Len(infos[c])
    /\ nextLiteral \in [Contexts -> Nat]
    /\ owner \in [Contexts -> Contexts]
    /\ state \in [Contexts -> {"unused", "live", "destroyed"}]
    /\ torn \subseteq Contexts

(* The three containers of a storage agree: each variable has one value    *)
(* and one name of its own, and the value is of the kind its type says, so *)
(* that std::get in getValue never meets another.  They no longer do when  *)
(* an allocation has failed between them (variables_storage.h:47-63,       *)
(* 89-118).                                                                *)
Agree(is, values, ids) ==
    /\ DOMAIN values = DOMAIN is
    /\ \A id \in DOMAIN is :
          /\ values[id].kind = is[id].type
          /\ is[id].name \in DOMAIN ids
          /\ ids[is[id].name] = id
    /\ \A name \in DOMAIN ids : ids[name] \in DOMAIN is /\ is[ids[name]].name = name

EntriesAgree == \A c \in Contexts \ torn : Agree(infos[c], memory[c], table[c])
-----------------------------------------------------------------------------
IsNamed(ids, name, id) == name \in DOMAIN ids /\ ids[name] = id

TypeList(list, ids) ==
    [id \in DOMAIN list |->
        [name |-> list[id].name, index |-> list[id].index, named |-> IsNamed(ids, list[id].name, id)]]

NamedTypes == [c \in Contexts |-> TypeList(types[c], typeTable[c])]

(* An information that nothing more was registered of has no value yet and *)
(* no name.                                                                *)
EntryList(is, values, ids) ==
    [id \in DOMAIN is |->
        [name |-> is[id].name, type |-> is[id].type, isConstant |-> is[id].isConstant,
         value |-> IF id \in DOMAIN values THEN values[id] ELSE Missing,
         named |-> IsNamed(ids, is[id].name, id)]]

Entries == [c \in Contexts |-> EntryList(infos[c], memory[c], table[c])]

Promise == INSTANCE VariablesSpec
           WITH types <- NamedTypes, entries <- Entries, Values <- AllValues, NoValue <- Missing

(* Every call does to the lists of types and variables what VariablesSpec  *)
(* says, and every one that throws leaves what it says: nothing, or a type *)
(* or a variable that is registered halfway, of which the next one that is *)
(* registered supplies the value.  What is registered in a copy is what    *)
(* the types of its original allow, as long as those are there             *)
(* (variables_storage.h:27-118, type_storage.h:30-77).                     *)
IsAStore == Promise!Spec
=============================================================================
