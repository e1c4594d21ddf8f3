---------------------------------- MODULE Stack ----------------------------------
(***************************************************************************)
(* Stack<T> (include/stack.h): stacks that share a heap.  Each owns a      *)
(* block, of which it knows the address and what it takes for the length;  *)
(* how long a block really is only the heap knows.  One action per call    *)
(* and outcome.  An allocation may fail whenever one is made, and so may   *)
(* the copy of an element, which then leaves the cell it was meant for as  *)
(* it was: so do the strings, and the variants with a string, that the     *)
(* program stacks.                                                         *)
(***************************************************************************)
EXTENDS Naturals, Sequences

CONSTANTS Stacks,       \* the variables of type Stack
          Values,       \* the elements
          Unset,        \* an element no one has written to
          Blocks,       \* the addresses new T[] may return
          Null,
          MaxStackSize,
          Lengths       \* the arguments of reserve and of the constructor

ASSUME StackAssumption ==
    /\ MaxStackSize \in Nat \ {0}
    /\ Lengths \subseteq Nat
    /\ Null \notin Blocks

VARIABLES stacks,       \* the members of each stack
          live,         \* the stacks that are constructed and not destroyed
          heap,         \* the blocks that are allocated
          outcome,      \* the last call, on what stack, and how it ended
          copied,       \* history: the blocks the copy constructor has allocated
          overrun       \* the stack that has elements behind its block

stackVars == <<stacks, live, heap, outcome, copied, overrun>>

Empty == [mem |-> Null, capacity |-> 0, size |-> 0]

StackInit ==
    /\ stacks = [s \in Stacks |-> Empty]
    /\ live = {}
    /\ heap = << >>
    /\ outcome = [call |-> "none"]
    /\ copied = {}
    /\ overrun = {}
-----------------------------------------------------------------------------
Unused == Blocks \ DOMAIN heap

Cells == Values \cup {Unset}

Blank(n) == [k \in 1..n |-> Unset]

Cell(s) == IF stacks[s].mem = Null THEN << >> ELSE heap[stacks[s].mem]

(* The first elements are copied to the front of a block: std::copy, which *)
(* stops at the first that cannot be copied.                               *)
CopyFirst(cells, s, n) == [k \in DOMAIN cells |-> IF k <= n THEN Cell(s)[k] ELSE cells[k]]

CopyTo(cells, s) == CopyFirst(cells, s, stacks[s].size)

CopyEnds(n, s) == IF n = stacks[s].size THEN "done" ELSE "bad_alloc"

Fits(cells, s) == stacks[s].size <= Len(cells)

(* The element is written, unless it cannot be copied.                     *)
Write(cells, k, v, result) == IF result = "done" THEN [cells EXCEPT ![k] = v] ELSE cells

WithBlock(b, cells) ==
    [c \in DOMAIN heap \cup {b} |-> IF c = b THEN cells ELSE heap[c]]

(* The heap with a new block, and without the one of the stack it is for.  *)
(* Mutant: the old block is not deleted.                                   *)
ReallocKeepsOld(s, b, cells) == WithBlock(b, cells)

Realloc(s, b, cells) ==
    [c \in (DOMAIN heap \ {stacks[s].mem}) \cup {b} |-> IF c = b THEN cells ELSE heap[c]]

(* Once a stack has elements behind its block nothing is said any more.    *)
Outcome(call, s, result) ==
    /\ overrun = {}
    /\ outcome' = [call |-> call, stack |-> s, result |-> result]

Unchanged == UNCHANGED <<stacks, live, heap, copied, overrun>>

Begin(call, s) == s \notin live /\ Outcome(call, s, "done") /\ live' = live \cup {s}
UseEnds(call, s, result) == s \in live /\ Outcome(call, s, result) /\ UNCHANGED live
Use(call, s) == UseEnds(call, s, "done")
Throw(call, s, exception) == Outcome(call, s, exception) /\ Unchanged

Overrun(call, s) ==
    /\ overrun = {}
    /\ overrun' = {s}
    /\ UNCHANGED <<stacks, live, heap, outcome, copied>>
-----------------------------------------------------------------------------
ConstructEmpty(s) ==
    /\ Begin("construct", s)
    /\ 0 \in Lengths
    /\ UNCHANGED <<stacks, heap, copied, overrun>>

Construct(s, n) ==
    /\ Begin("construct", s)
    /\ n > 0 /\ n <= MaxStackSize
    /\ \E b \in Unused :
          /\ heap' = Realloc(s, b, Blank(n))
          /\ stacks' = [stacks EXCEPT ![s] = [mem |-> b, capacity |-> n, size |-> 0]]
    /\ UNCHANGED <<copied, overrun>>

CopyConstruct(s, other) ==
    /\ Begin("copy", s)
    /\ other \in live
    /\ \E b \in Unused :
          /\ heap' = Realloc(s, b, CopyTo(Blank(stacks[other].size), other))
          /\ stacks' = [stacks EXCEPT ![s] = [stacks[other] EXCEPT !.mem = b]]
          /\ copied' = copied \cup {b}
    /\ UNCHANGED overrun

(* The destructor of what was not constructed does not run: the block is   *)
(* lost.                                                                   *)
CopyConstructThrows(s, other) ==
    /\ s \notin live /\ Outcome("copy", s, "bad_alloc")
    /\ other \in live
    /\ \E b \in Unused, n \in 0..(stacks[other].size - 1) :
          heap' = WithBlock(b, CopyFirst(Blank(stacks[other].size), other, n))
    /\ UNCHANGED <<stacks, live, copied, overrun>>

(* Mutant: the block stays with the stack it is taken from, too. *)
TakeLeavesIt(s, other) == [stacks EXCEPT ![s] = stacks[other]]

Take(s, other) == [stacks EXCEPT ![s] = stacks[other], ![other] = Empty]

MoveConstruct(s, other) ==
    /\ Begin("move", s)
    /\ other \in live
    /\ stacks' = Take(s, other)
    /\ UNCHANGED <<heap, copied, overrun>>

Destruct(s) ==
    /\ s \in live
    /\ Outcome("destruct", s, "done")
    /\ live' = live \ {s}
    /\ heap' = [b \in DOMAIN heap \ {stacks[s].mem} |-> heap[b]]
    /\ stacks' = [stacks EXCEPT ![s] = Empty]
    /\ copied' = copied \ {stacks[s].mem}
    /\ UNCHANGED overrun

(* Mutant: a block is allocated for the elements only. *)
NewLengthOfSize(other) == stacks[other].size

NewLength(other) == stacks[other].capacity

(* The members are assigned before the elements, of which all are copied,  *)
(* or some: then the stack has as many elements as the other all the same. *)
AssignToNewBlock(s, other) ==
    /\ other \in live
    /\ stacks[other].capacity > stacks[s].capacity
    /\ \E b \in Unused, n \in 0..stacks[other].size :
          /\ UseEnds("assign", s, CopyEnds(n, other))
          /\ heap' = Realloc(s, b, CopyFirst(Blank(NewLength(other)), other, n))
          /\ stacks' = [stacks EXCEPT ![s] = [stacks[other] EXCEPT !.mem = b]]
    /\ copied' = copied \ {stacks[s].mem}
    /\ UNCHANGED overrun

(* An element assigned to itself copies nothing.                           *)
AssignToOwnBlock(s, other) ==
    /\ other \in live
    /\ stacks[other].capacity <= stacks[s].capacity
    /\ Fits(Cell(s), other)
    /\ \E n \in 0..stacks[other].size :
          /\ s = other => n = stacks[other].size
          /\ UseEnds("assign", s, CopyEnds(n, other))
          /\ heap' = IF stacks[s].mem = Null THEN heap
                     ELSE [heap EXCEPT ![stacks[s].mem] = CopyFirst(Cell(s), other, n)]
    /\ stacks' = [stacks EXCEPT ![s].size = stacks[other].size]
    /\ UNCHANGED <<copied, overrun>>

(* Even if a copy throws before the end of the block, the stack has more   *)
(* elements than the block has cells.                                      *)
AssignOverruns(s, other) ==
    /\ s \in live /\ other \in live
    /\ stacks[other].capacity <= stacks[s].capacity
    /\ ~Fits(Cell(s), other)
    /\ Overrun("assign", s)

MoveAssign(s, other) ==
    /\ Use("move assign", s)
    /\ other \in live
    /\ stacks' = IF stacks[s].mem = stacks[other].mem THEN stacks ELSE Take(s, other)
    /\ UNCHANGED <<heap, copied, overrun>>

Swap(s, other) ==
    /\ Use("swap", s)
    /\ other \in live
    /\ stacks' = [stacks EXCEPT ![s] = stacks[other], ![other] = stacks[s]]
    /\ UNCHANGED <<heap, copied, overrun>>
-----------------------------------------------------------------------------
Top(s) ==
    /\ s \in live /\ stacks[s].size > 0
    /\ Outcome("top", s, Cell(s)[stacks[s].size])
    /\ Unchanged

(* Mutant: no test of an empty stack. *)
PopUnchecked(s) ==
    /\ Use("pop", s)
    /\ stacks' = [stacks EXCEPT ![s].size = @ - 1]
    /\ UNCHANGED <<heap, copied, overrun>>

Pop(s) ==
    /\ Use("pop", s)
    /\ stacks[s].size > 0
    /\ stacks' = [stacks EXCEPT ![s].size = @ - 1]
    /\ UNCHANGED <<heap, copied, overrun>>

EmptyThrows(s) ==
    /\ s \in live /\ stacks[s].size = 0
    /\ \E call \in {"top", "pop"} : Throw(call, s, "logic_error")

(* The new block of a stack that grows, with the elements. *)
Grow(s, n, cells, size) ==
    \E b \in Unused :
        /\ heap' = Realloc(s, b, cells)
        /\ stacks' = [stacks EXCEPT ![s] = [mem |-> b, capacity |-> n, size |-> size]]
        /\ copied' = copied \ {stacks[s].mem}

Full(s) == stacks[s].size = stacks[s].capacity

Expanded(s) == IF stacks[s].capacity = 0 THEN 1 ELSE 2 * stacks[s].capacity

(* Mutant: the elements are not copied to the new block. *)
PushOnBlank(s, v) ==
    /\ Use("push", s)
    /\ Full(s) /\ Expanded(s) <= MaxStackSize
    /\ Grow(s, Expanded(s), [Blank(Expanded(s)) EXCEPT ![stacks[s].size + 1] = v], stacks[s].size + 1)
    /\ UNCHANGED overrun

(* The size is counted up before the element is copied, and stays so if it *)
(* cannot be.  An element that is moved always can.                        *)
PushExpands(s, v) ==
    /\ Full(s) /\ Expanded(s) <= MaxStackSize
    /\ \E result \in {"done", "bad_alloc"} :
          /\ UseEnds("push", s, result)
          /\ Grow(s, Expanded(s),
                  Write(CopyTo(Blank(Expanded(s)), s), stacks[s].size + 1, v, result),
                  stacks[s].size + 1)
    /\ UNCHANGED overrun

PushInPlace(s, v) ==
    /\ ~Full(s) /\ stacks[s].size < Len(Cell(s))
    /\ \E result \in {"done", "bad_alloc"} :
          /\ UseEnds("push", s, result)
          /\ heap' = [heap EXCEPT ![stacks[s].mem] = Write(@, stacks[s].size + 1, v, result)]
    /\ stacks' = [stacks EXCEPT ![s].size = @ + 1]
    /\ UNCHANGED <<copied, overrun>>

PushOverruns(s) ==
    /\ s \in live
    /\ ~Full(s) /\ stacks[s].size >= Len(Cell(s))
    /\ Overrun("push", s)

Reserve(s, n) ==
    /\ Use("reserve", s)
    /\ n <= MaxStackSize
    /\ IF n <= stacks[s].capacity THEN UNCHANGED <<stacks, heap, copied>>
       ELSE Grow(s, n, CopyTo(Blank(n), s), stacks[s].size)
    /\ UNCHANGED overrun

(* An element cannot be copied to the new block, which is lost.            *)
GrowthThrows(s) ==
    \E call \in {"push", "reserve"}, length \in Lengths \cup {Expanded(s)} :
        /\ UseEnds(call, s, "bad_alloc")
        /\ call = "push" => Full(s) /\ length = Expanded(s)
        /\ call = "reserve" => length \in Lengths /\ length > stacks[s].capacity
        /\ length <= MaxStackSize
        /\ \E b \in Unused, n \in 0..(stacks[s].size - 1) :
              heap' = WithBlock(b, CopyFirst(Blank(length), s, n))
        /\ UNCHANGED <<stacks, copied, overrun>>

TooLong(s) ==
    \/ /\ s \in live /\ Full(s) /\ Expanded(s) > MaxStackSize
       /\ Throw("push", s, "length_error")
    \/ /\ \E n \in Lengths : n > MaxStackSize
       /\ Throw(IF s \in live THEN "reserve" ELSE "construct", s, "length_error")

(* Each new T[] may throw, before the members are changed. *)
NoMemory(s) ==
    \/ /\ s \in live /\ Full(s) /\ Expanded(s) <= MaxStackSize
       /\ Throw("push", s, "bad_alloc")
    \/ /\ \E n \in Lengths : n > stacks[s].capacity /\ n <= MaxStackSize
       /\ Throw(IF s \in live THEN "reserve" ELSE "construct", s, "bad_alloc")
    \/ \E other \in live :
          /\ s \in live => stacks[other].capacity > stacks[s].capacity
          /\ Throw(IF s \in live THEN "assign" ELSE "copy", s, "bad_alloc")

StackNext ==
    \E s \in Stacks :
        \/ ConstructEmpty(s) \/ Destruct(s)
        \/ \E n \in Lengths : Construct(s, n) \/ Reserve(s, n)
        \/ \E other \in Stacks :
              \/ CopyConstruct(s, other) \/ CopyConstructThrows(s, other)
              \/ MoveConstruct(s, other)
              \/ AssignToNewBlock(s, other) \/ AssignToOwnBlock(s, other) \/ AssignOverruns(s, other)
              \/ MoveAssign(s, other) \/ Swap(s, other)
        \/ Top(s) \/ Pop(s)
        \/ \E v \in Values : PushExpands(s, v) \/ PushInPlace(s, v)
        \/ PushOverruns(s)
        \/ EmptyThrows(s) \/ TooLong(s) \/ NoMemory(s) \/ GrowthThrows(s)

StackSpecification == StackInit /\ [][StackNext]_stackVars
-----------------------------------------------------------------------------
StackTypeOK ==
    /\ stacks \in [Stacks -> [mem : Blocks \cup {Null}, capacity : Nat, size : Nat]]
    /\ live \subseteq Stacks /\ overrun \subseteq live
    /\ DOMAIN heap \subseteq Blocks /\ \A b \in DOMAIN heap : heap[b] \in Seq(Cells)
    /\ copied \subseteq DOMAIN heap
    /\ \A s \in Stacks :
          /\ stacks[s].size <= stacks[s].capacity /\ stacks[s].capacity <= MaxStackSize
          /\ s \notin live => stacks[s] = Empty

(* Every block that a stack uses is allocated and no other stack's: none   *)
(* is deleted twice or used after it is deleted, whatever is copied, moved,*)
(* assigned and swapped (stack.h:22-79, 136-165).                          *)
OneOwner ==
    \A s \in live : stacks[s].mem # Null =>
        /\ stacks[s].mem \in DOMAIN heap
        /\ \A other \in live \ {s} : stacks[other].mem # stacks[s].mem

(* The elements are in the block, and a push or an assignment writes       *)
(* nowhere else, except that of a stack which has the block the copy       *)
(* constructor made for it: that is as long as the elements, not as the    *)
(* capacity that is taken over with them (stack.h:22-28, 46-60, 116-134).  *)
OnlyCopiesOverrun ==
    /\ \A s \in live : stacks[s].size <= Len(Cell(s))
    /\ \A s \in live : stacks[s].mem \notin copied => Len(Cell(s)) = stacks[s].capacity
    /\ \A s \in overrun : stacks[s].mem \in copied

Owned(b) == \E s \in live : stacks[s].mem = b

Lost(b) == b \in DOMAIN heap /\ ~Owned(b)

(* A block that no stack has any more, or none ever had, is left by a move *)
(* assignment, which deletes nothing, or is a new one whose elements could *)
(* not all be copied to it: no other call, and no failed one, loses a      *)
(* block that a stack had (stack.h:22-28, 46-79, 116-158).                 *)
OnlyMovesAndCopiesLeak ==
    [][\A b \in Blocks : ~Lost(b) /\ Lost(b)' =>
          \/ b \in DOMAIN heap /\ outcome'.call = "move assign"
          \/ /\ b \notin DOMAIN heap
             /\ outcome'.call \in {"copy", "push", "reserve"} /\ outcome'.result = "bad_alloc"]_stackVars
-----------------------------------------------------------------------------
Elements(s) == SubSeq(Cell(s), 1, stacks[s].size)

Contents == [s \in live |-> Elements(s)]

AsSequences == INSTANCE StackSpec WITH contents <- Contents

(* As long as no stack has elements behind its block the stacks are        *)
(* sequences that share nothing: each call does to them what its name says *)
(* and moving empties the source.  A call that throws has changed nothing, *)
(* but for two, when an element cannot be copied: a push may leave one     *)
(* element more that nobody pushed, and an assignment as many elements as  *)
(* it should, of which only the first are the other's; every other stack   *)
(* is as it was even then (stack.h:16-165).                                *)
IsAStack == AsSequences!Spec
=============================================================================
