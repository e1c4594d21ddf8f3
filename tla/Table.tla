---------------------------------- MODULE Table ----------------------------------
(***************************************************************************)
(* The sorted table of include/table.h that VariablesStorage finds its     *)
(* names in: find, add and del, one step per iteration of their binary     *)
(* searches.                                                               *)
(*                                                                         *)
(* Indices count from 0, as in the code.  Keys are integers, in place of   *)
(* strings, of which the code uses only the order.                         *)
(***************************************************************************)
EXTENDS Integers, Sequences, SequencesExt

CONSTANTS Keys, Vals,
          MaxSize       \* bound: add is only called below this size

ASSUME TableAssumption == Keys \subseteq Int /\ MaxSize \in Nat

VARIABLES table,        \* mTable
          request,      \* the call under way: the operation and its arguments
          i, left, right, \* i, leftBorder, rightBorder
          found,        \* what find returned: at most one value
          answer,       \* what the last call returned
          pc

vars == <<table, request, i, left, right, found, answer, pc>>

Entries == [key : Keys, value : Vals]
Operations == {"find", "add", "del"}
Requests == [op : Operations, key : Keys, value : Vals]

Answer(kind, values) == [kind |-> kind, values |-> values]
Answers == [kind : {"none", "found", "throws", "done"}, values : SUBSET Vals]

Loops == {"find", "add", "del"}

TypeOK ==
    /\ table \in Seq(Entries)
    /\ pc # "idle" => request \in Requests
    /\ i \in Int /\ left \in Int /\ right \in Int
    /\ found \subseteq Vals
    /\ answer \in Answers
    /\ pc \in {"idle", "found"} \cup Loops

Init ==
    /\ table = << >>
    /\ request = << >>
    /\ i = 0 /\ left = 0 /\ right = 0
    /\ found = {}
    /\ answer = Answer("none", {})
    /\ pc = "idle"
-----------------------------------------------------------------------------
Entry == table[i + 1]

(* Mutant: division rounds down. *)
HalfRoundedDown(n) == n \div 2

(* Integer division of C++ truncates towards zero. *)
Half(n) == IF n < 0 THEN -((-n) \div 2) ELSE n \div 2

(* The three loops begin alike: not in the middle of the borders, but of   *)
(* the size.                                                               *)
BeginSearch(loop) ==
    /\ i' = Half(Len(table))
    /\ left' = 0
    /\ right' = Len(table) - 1
    /\ pc' = loop

(* find returns at once from an empty table. *)
Call ==
    /\ pc = "idle"
    /\ request' \in Requests
    /\ request'.op = "add" => Len(table) < MaxSize
    /\ IF table = << >>
       THEN found' = {} /\ pc' = "found" /\ UNCHANGED <<i, left, right>>
       ELSE BeginSearch("find") /\ UNCHANGED found
    /\ UNCHANGED <<table, answer>>

(* An iteration of a loop, which they also have in common. *)
GoLeft ==
    /\ pc \in Loops
    /\ left <= right
    /\ Entry.key > request.key
    /\ right' = i - 1
    /\ i' = Half(left + right')
    /\ UNCHANGED <<table, request, left, found, answer, pc>>

(* Mutant: the border stays at the entry. *)
GoRightToEntry ==
    /\ pc \in Loops
    /\ left <= right
    /\ Entry.key < request.key
    /\ left' = i
    /\ i' = Half(left' + right)
    /\ UNCHANGED <<table, request, right, found, answer, pc>>

GoRight ==
    /\ pc \in Loops
    /\ left <= right
    /\ Entry.key < request.key
    /\ left' = i + 1
    /\ i' = Half(left' + right)
    /\ UNCHANGED <<table, request, right, found, answer, pc>>

(* The loops of find and del also end at the key. *)
SearchEnds == left > right \/ (pc # "add" /\ Entry.key = request.key)

(* Mutant: the entry where the search ends is not compared with the key. *)
FindEndsAnywhere ==
    /\ pc = "find"
    /\ SearchEnds
    /\ found' = {Entry.value}
    /\ pc' = "found"
    /\ UNCHANGED <<table, request, i, left, right, answer>>

FindEnds ==
    /\ pc = "find"
    /\ SearchEnds
    /\ found' = IF Entry.key = request.key THEN {Entry.value} ELSE {}
    /\ pc' = "found"
    /\ UNCHANGED <<table, request, i, left, right, answer>>
-----------------------------------------------------------------------------
Return(a) ==
    /\ answer' = a
    /\ pc' = "idle"

FindReturns ==
    /\ pc = "found" /\ request.op = "find"
    /\ Return(Answer("found", found))
    /\ UNCHANGED <<table, request, i, left, right, found>>

AddThrows ==
    /\ pc = "found" /\ request.op = "add"
    /\ found # {}
    /\ Return(Answer("throws", {}))
    /\ UNCHANGED <<table, request, i, left, right, found>>

AddSearches ==
    /\ pc = "found" /\ request.op = "add"
    /\ found = {}
    /\ BeginSearch("add")
    /\ UNCHANGED <<table, request, found, answer>>

(* Mutant: the key and the value change places. *)
NewEntrySwapped == [key |-> request.value, value |-> request.key]

NewEntry == [key |-> request.key, value |-> request.value]

(* Mutant: an entry is inserted behind the one where the search ended. *)
AddInsertsBehind ==
    /\ pc = "add"
    /\ SearchEnds
    /\ table' = IF table = << >> THEN <<NewEntry>> ELSE InsertAt(table, i + 2, NewEntry)
    /\ Return(Answer("done", {}))
    /\ UNCHANGED <<request, i, left, right, found>>

AddInserts ==
    /\ pc = "add"
    /\ SearchEnds
    /\ table' = IF table = << >> THEN <<NewEntry>>
                ELSE IF Entry.key > request.key THEN InsertAt(table, i + 1, NewEntry)
                ELSE IF Entry.key < request.key THEN InsertAt(table, i + 2, NewEntry)
                ELSE table
    /\ Return(Answer("done", {}))
    /\ UNCHANGED <<request, i, left, right, found>>

DelFindsNothing ==
    /\ pc = "found" /\ request.op = "del"
    /\ found = {}
    /\ Return(Answer("done", {}))
    /\ UNCHANGED <<table, request, i, left, right, found>>

DelSearches ==
    /\ pc = "found" /\ request.op = "del"
    /\ found # {}
    /\ BeginSearch("del")
    /\ UNCHANGED <<table, request, found, answer>>

DelErases ==
    /\ pc = "del"
    /\ SearchEnds
    /\ table' = RemoveAt(table, i + 1)
    /\ Return(Answer("done", {}))
    /\ UNCHANGED <<request, i, left, right, found>>
-----------------------------------------------------------------------------
Step == GoLeft \/ GoRight \/ FindEnds \/ FindReturns
            \/ AddThrows \/ AddSearches \/ AddInserts
            \/ DelFindsNothing \/ DelSearches \/ DelErases

Next == Call \/ Step

Spec == Init /\ [][Next]_vars

(* A call that was made runs on the caller's thread until it returns. *)
FairSpec == Spec /\ WF_vars(Step)
-----------------------------------------------------------------------------
(* The entries are strictly ascending: what the searches rely on, and what *)
(* an insertion one place off would break only for later calls             *)
(* (table.h:60-65).                                                        *)
Sorted ==
    \A j, k \in 1..Len(table) : j < k => table[j].key < table[k].key

(* No mTable[i] is out of bounds, also not behind the loops, where the     *)
(* borders have crossed: the index of a key before all others is           *)
(* (0 + -1) / 2, and that of one behind them (2n - 1) / 2                  *)
(* (table.h:25-38, 48-64, 73-85).                                          *)
IndexInBounds ==
    pc \in Loops /\ table # << >> => 0 <= i /\ i < Len(table)

(* What the table promises: to be a map. *)
Map == [key \in {table[k].key : k \in 1..Len(table)} |->
            table[CHOOSE k \in 1..Len(table) : table[k].key = key].value]

Promise == INSTANCE TableSpec WITH map <- Map, pending <- (pc # "idle")

IsAMap == Promise!Spec

(* Every call returns: the branches of the loops leave no case out in      *)
(* which neither border moves (table.h:25-36, 48-59, 73-84).               *)
CallsReturn == (pc # "idle") ~> (pc = "idle")
=============================================================================
