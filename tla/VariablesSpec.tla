------------------------------ MODULE VariablesSpec ------------------------------
(***************************************************************************)
(* What a storage promises: a list of types and a list of variables per    *)
(* context.  A variable gets a new name, a type, and a value of the kind   *)
(* with the number of that type, and keeps all but the value.  The types   *)
(* are those of its owner: of the context itself, or of the one it was     *)
(* copied from.  When memory runs out something may be registered halfway: *)
(* without a name, which is then free, or without a value, which it gets   *)
(* from what is registered next.                                           *)
(***************************************************************************)
EXTENDS Naturals, Sequences

CONSTANTS Contexts, DataTypes, Values, NoValue

VARIABLES types, entries, owner, state, answer

specVars == <<types, entries, owner, state, answer>>

Init ==
    /\ types = [c \in Contexts |-> << >>]
    /\ entries = [c \in Contexts |-> << >>]
    /\ owner = [c \in Contexts |-> c]
    /\ state = [c \in Contexts |-> "unused"]
    /\ answer = [call |-> "none"]

Returns(call, c, result, value) ==
    answer' = [call |-> call, context |-> c, result |-> result, value |-> value]

Answer(call, c, result) == Returns(call, c, result, NoValue)

Become(c, new) == state' = [state EXCEPT ![c] = new]

Create(c) ==
    /\ Answer("create", c, "done") /\ Become(c, "live")
    /\ UNCHANGED <<types, entries, owner>>

Copy(c, other) ==
    /\ Answer("copy", c, "done") /\ Become(c, "live")
    /\ types' = [types EXCEPT ![c] = types[other]]
    /\ entries' = [entries EXCEPT ![c] = entries[other]]
    /\ owner' = [owner EXCEPT ![c] = owner[other]]

Destroy(c) ==
    /\ Answer("destroy", c, "done") /\ Become(c, "destroyed")
    /\ UNCHANGED <<types, entries, owner>>

IsFree(list, name) == \A k \in DOMAIN list : list[k].named => list[k].name # name

RegisterType(c, type) ==
    /\ \E named \in BOOLEAN :
          /\ Answer("registerType", c, IF named THEN "done" ELSE "bad_alloc")
          /\ IsFree(types[c], type.name)
          /\ types' = [types EXCEPT ![c] =
                          Append(@, [name |-> type.name, index |-> type.index, named |-> named])]
    /\ UNCHANGED <<entries, owner, state>>

(* What a variable or a literal can be registered with.                    *)
Acceptable(c, entry, value) ==
    /\ IsFree(entries[c], entry.name)
    /\ entry.type \in DOMAIN types[owner[c]]
    /\ value.kind = entry.type

IsLiteral(c, entry, value) ==
    entry.isConstant /\ value.kind = types[owner[c]][entry.type].index

(* The value is that of the first entry which has none.                    *)
Filled(list, value) ==
    [k \in DOMAIN list |->
        IF list[k].value = NoValue /\ \A j \in 1..(k - 1) : list[j].value # NoValue
        THEN [list[k] EXCEPT !.value = value] ELSE list[k]]

LastNamed(list) == [list EXCEPT ![Len(list)].named = TRUE]

Begun(entry) == [name |-> entry.name, type |-> entry.type, isConstant |-> entry.isConstant,
                 value |-> NoValue, named |-> FALSE]

(* The last entry is new.  It is there before the value is, and the value  *)
(* before the name.                                                        *)
Register(c) ==
    LET entry == entries'[c][Len(entries'[c])]
        list == Append(entries[c], Begun(entry))
    IN  /\ \E call \in {"registerVariable", "getIdByLiteral"}, result \in {"done", "bad_alloc"} :
              /\ Answer(call, c, result)
              /\ Len(entries'[c]) = Len(entries[c]) + 1
              /\ \E value \in Values :
                    /\ Acceptable(c, entry, value)
                    /\ call = "getIdByLiteral" => IsLiteral(c, entry, value)
                    /\ \E after \in IF result = "done" THEN {LastNamed(Filled(list, value))}
                                                       ELSE {list, Filled(list, value)} :
                          entries' = [entries EXCEPT ![c] = after]
        /\ UNCHANGED <<types, owner, state>>

SetValue(c, id, value) ==
    /\ Answer("setValue", c, "done")
    /\ ~entries[c][id].isConstant
    /\ entries[c][id].value # NoValue
    /\ value.kind = entries[c][id].type
    /\ entries' = [entries EXCEPT ![c][id].value = value]
    /\ UNCHANGED <<types, owner, state>>

(* A value that was registered for another variable may be of another kind.*)
GetValue(c, id) ==
    /\ entries[c][id].value # NoValue
    /\ IF entries[c][id].value.kind = entries[c][id].type
       THEN Returns("getValue", c, "done", entries[c][id].value)
       ELSE Answer("getValue", c, "bad_variant_access")
    /\ UNCHANGED <<types, entries, owner, state>>

Throw(c) ==
    /\ \E exception \in {"runtime_error", "bad_optional_access", "bad_alloc"} :
          \E call \in {"registerType", "registerVariable", "getIdByLiteral", "setValue", "getValue"} :
             Answer(call, c, exception)
    /\ UNCHANGED <<types, entries, owner, state>>

NotMade(c) ==
    /\ \E call \in {"create", "copy"} : Answer(call, c, "bad_alloc")
    /\ UNCHANGED <<types, entries, owner, state>>

(* A registration finds no types: nothing is said of it.                   *)
Undefined(c) ==
    /\ answer' = [call |-> "undefined"]
    /\ state[owner[c]] # "live"
    /\ UNCHANGED <<types, entries, owner, state>>

Next ==
    \/ \E c \in {c \in Contexts : state[c] = "unused"} :
          \/ Create(c) \/ NotMade(c)
          \/ \E other \in Contexts : state[other] = "live" /\ Copy(c, other)
    \/ \E c \in {c \in Contexts : state[c] = "live"} :
          \/ Throw(c) \/ Destroy(c) \/ Undefined(c) \/ Register(c)
          \/ \E type \in DataTypes : RegisterType(c, type)
          \/ \E id \in DOMAIN entries[c] :
                GetValue(c, id) \/ \E value \in Values : SetValue(c, id, value)

Spec == Init /\ [][Next]_specVars
=============================================================================
