--------------------------- MODULE ProgramProofs ---------------------------
(***************************************************************************)
(* Proofs about ProgramCompiler and Program, for every sequence of tokens  *)
(* and every context: the position stays in bounds, no exception but a     *)
(* SyntaxError is thrown, and the execution nodes form a tree (ProgramInv);*)
(* the expressions of the nodes leave what the nodes take (TypedInv); and  *)
(* so the execution of the nodes never fails (SystemInv).                  *)
(***************************************************************************)
EXTENDS Program, PostfixCompilerProofs, WellFoundedInduction

-----------------------------------------------------------------------------
(* What can be left to do. *)

Matched == TokenTypes \ {"ENDOFFILE"}

Labels == {"declarations", "constant", "constants", "row", "rows", "name", "names", "type",
           "literal", "register", "expression", "block", "statement", "read",
           "firstArgument", "if", "while", "root"}

Programs == Seq(Ops)

Items ==
    [do : Labels]
    \cup [do : {"match"}, type : Matched]
    \cup [do : {"make"}, made : Nodes]
    \cup [do : {"statements", "link"}, start : Nat, prev : Nat]
    \cup [do : {"arguments"}, kind : {"Write", "WriteLn"}, programs : Seq(Programs)]
    \cup [do : {"assign"}, id : Nat]
    \cup [do : {"clause", "body"}, program : Programs]
    \cup [do : {"else"}, program : Programs, clause : Nat]

ProgramTypeOK ==
    /\ source \in Seq(Tokens) /\ source # << >> /\ Last(source).type = "ENDOFFILE"
    /\ position \in DOMAIN source
    /\ control \in Seq(Items)
    /\ names \in Seq(Lexemes)
    /\ nodes \in Seq(Nodes) /\ node \in Nat /\ root \in Nat
    /\ infos \in Seq(VariableInfo) /\ opList \in Programs
    /\ outcome \in {"compiling", "ok", "syntax error"}
    /\ outcome = "ok" => control = << >>

(* The expression compiler is idle or at the expression that is due.       *)
ExpressionInv ==
    pc # "idle" => control # << >> /\ Due.do = "expression" /\ IInv

(* A constant is registered under the name that was found to be free.      *)
ConstantInv ==
    \A i \in DOMAIN control : control[i].do = "literal" =>
        /\ names # << >> /\ VariableIds(names[1]) = {}
        /\ \A j \in 1..(i - 1) : control[j].do \in {"match", "type"}
-----------------------------------------------------------------------------
(* Who takes the nodes.  A node is returned by what is to be done to what  *)
(* is to be done next.                                                     *)
Takes == {"link", "clause", "else", "body", "root"}

Returns == {"block", "statement", "statements", "link", "make", "read", "arguments", "assign",
            "if", "while", "clause", "else", "body"}

(* The node an item holds, and the one whose next sibling it will set.     *)
Held(item) ==
    IF item.do \in {"statements", "link"} THEN item.start
    ELSE IF item.do = "make" THEN item.made.child
    ELSE IF item.do = "else" THEN item.clause ELSE 0

Open(item) ==
    IF item.do \in {"statements", "link"} THEN item.prev
    ELSE IF item.do = "else" THEN item.clause ELSE 0

TakesNode == control # << >> /\ Due.do \in Takes

Returned == IF TakesNode THEN node ELSE 0

OrderInv ==
    /\ control # << >> => control[Len(control)].do \notin Returns
    /\ \A i \in 1..(Len(control) - 1) : control[i].do \in Returns <=> control[i + 1].do \in Takes
    /\ \A i, j \in DOMAIN control :
          control[i].do = "root" => root = 0 /\ (control[j].do = "root" => i = j)

ItemOK(item) ==
    /\ item.do \in {"statements", "link"} => (item.start = 0 <=> item.prev = 0)
    /\ item.do = "else" => item.clause # 0
    /\ item.do = "make" =>
          /\ item.made.next = 0
          /\ item.made.kind \in {"If", "While"} => item.made.child # 0

ItemsInv == \A i \in DOMAIN control : ItemOK(control[i])

(* No one has a node that another has, and someone has each.               *)
OneHolder ==
    /\ \A p, q \in Pointers : Target(p) = Target(q) => p = q
    /\ \A p \in Pointers : Target(p) # Returned /\ Target(p) # root
    /\ \A p \in Pointers, i \in DOMAIN control : Target(p) # Held(control[i])
    /\ \A i, j \in DOMAIN control :
          Held(control[i]) = Held(control[j]) => i = j \/ Held(control[i]) = 0
    /\ \A i \in DOMAIN control :
          Held(control[i]) # 0 => Held(control[i]) # Returned /\ Held(control[i]) # root
    /\ Returned = root => root = 0

EachIsHeld ==
    \A k \in DOMAIN nodes :
        \/ k = Returned \/ k = root
        \/ \E p \in Pointers : Target(p) = k
        \/ \E i \in DOMAIN control : Held(control[i]) = k

OpenInv ==
    /\ \A i \in DOMAIN control :
          Open(control[i]) # 0 =>
             /\ nodes[Open(control[i])].next = 0
             /\ Open(control[i]) # Returned
    /\ \A i, j \in DOMAIN control :
          Open(control[i]) = Open(control[j]) => i = j \/ Open(control[i]) = 0
    /\ Returned # 0 => nodes[Returned].next = 0

BoundsInv ==
    /\ TakesNode => node = Len(nodes) /\ node # 0
    /\ root <= Len(nodes)
    /\ \A i \in DOMAIN control :
          Held(control[i]) <= Len(nodes) /\ Open(control[i]) <= Len(nodes)
    /\ \A k \in DOMAIN nodes :
          /\ nodes[k].child < k
          /\ nodes[k].next = 0 \/ nodes[k].next \in (k + 1)..Len(nodes)
          /\ nodes[k].kind \in {"If", "While"} => nodes[k].child # 0

TreeInv == OrderInv /\ ItemsInv /\ OneHolder /\ EachIsHeld /\ OpenInv /\ BoundsInv

ProgramInv == ProgramTypeOK /\ ExpressionInv /\ ConstantInv /\ TreeInv
-----------------------------------------------------------------------------
(* Items and sequences of them. *)

LEMMA ItemFields ==
    ASSUME NEW item \in Items
    PROVE  /\ item.do = "match" => item.type \in Matched
           /\ item.do = "make" => item.made \in Nodes
           /\ item.do \in {"statements", "link"} => item.start \in Nat /\ item.prev \in Nat
           /\ item.do = "arguments" =>
                 item.kind \in {"Write", "WriteLn"} /\ item.programs \in Seq(Programs)
           /\ item.do = "assign" => item.id \in Nat
           /\ item.do \in {"clause", "body", "else"} => item.program \in Programs
           /\ item.do = "else" => item.clause \in Nat
           /\ Held(item) \in Nat /\ Open(item) \in Nat
BY DEF Items, Labels, Held, Open, Nodes

LEMMA NewItems ==
    /\ \A label \in Labels : Do(label) \in Items /\ Do(label).do = label
    /\ \A type \in Matched : MatchToken(type) \in Items /\ MatchToken(type).do = "match"
    /\ \A made \in Nodes : Make(made) \in Items /\ Make(made).do = "make" /\ Make(made).made = made
    /\ \A start, prev \in Nat :
          /\ Statements(start, prev) \in Items /\ Statements(start, prev).do = "statements"
          /\ Statements(start, prev).start = start /\ Statements(start, prev).prev = prev
BY DEF Items, Do, MatchToken, Make, Statements

LEMMA AfterDue ==
    ASSUME control \in Seq(Items), control # << >>, NEW items \in Seq(Items), Continue(items)
    PROVE  /\ control' \in Seq(Items) /\ Len(control') = Len(items) + Len(control) - 1
           /\ Len(items) \in Nat /\ Len(control) \in Nat \ {0}
           /\ DOMAIN control = 1..Len(control) /\ DOMAIN items = 1..Len(items)
           /\ DOMAIN control' = 1..(Len(items) + Len(control) - 1)
           /\ Due = control[1] /\ Due \in Items
           /\ \A i \in 1..Len(items) : control'[i] = items[i]
           /\ \A i \in DOMAIN control' : i > Len(items) =>
                 /\ control'[i] = control[i - Len(items) + 1]
                 /\ i - Len(items) + 1 \in 2..Len(control)
           /\ \A i \in 2..Len(control) :
                 /\ i + Len(items) - 1 \in DOMAIN control'
                 /\ control'[i + Len(items) - 1] = control[i]
BY DEF Continue, Due

LEMMA DueDone ==
    ASSUME control \in Seq(Items), control # << >>, Continue(<< >>)
    PROVE  /\ Len(control) \in Nat \ {0} /\ Len(control') = Len(control) - 1
           /\ DOMAIN control = 1..Len(control) /\ DOMAIN control' = 1..(Len(control) - 1)
           /\ Due = control[1]
           /\ \A i \in DOMAIN control' : control'[i] = control[i + 1] /\ i + 1 \in 2..Len(control)
           /\ \A i \in 2..Len(control) : i - 1 \in DOMAIN control' /\ control'[i - 1] = control[i]
<1>1. << >> \in Seq(Items) /\ Len(<< >>) = 0
  OBVIOUS
<1>2. /\ Len(control') = Len(<< >>) + Len(control) - 1 /\ Len(control) \in Nat \ {0}
      /\ DOMAIN control = 1..Len(control)
      /\ DOMAIN control' = 1..(Len(<< >>) + Len(control) - 1)
      /\ Due = control[1]
      /\ \A i \in DOMAIN control' : i > Len(<< >>) =>
            control'[i] = control[i - Len(<< >>) + 1] /\ i - Len(<< >>) + 1 \in 2..Len(control)
      /\ \A i \in 2..Len(control) :
            i + Len(<< >>) - 1 \in DOMAIN control' /\ control'[i + Len(<< >>) - 1] = control[i]
  BY <1>1, AfterDue
<1> QED
  BY <1>1, <1>2

(* What the items are that take the place of what is due, when no node has *)
(* been returned to it.                                                    *)
Follow(items) ==
    /\ IF items = << >> THEN Due.do \notin Returns
       ELSE /\ items[1].do \notin Takes
            /\ items[Len(items)].do \in Returns <=> Due.do \in Returns
    /\ \A i \in 1..(Len(items) - 1) : items[i].do \in Returns <=> items[i + 1].do \in Takes
    /\ \A i \in DOMAIN items : items[i].do # "root" /\ ItemOK(items[i])

LEMMA NotTheLast ==
    ASSUME NEW k \in Int, NEW len \in Nat, k \in 2..len, k + 1 \in 2..len
    PROVE  k \in 1..(len - 1)
OBVIOUS

LEMMA OrderKept ==
    ASSUME ProgramTypeOK, TreeInv, control # << >>, NEW items \in Seq(Items), Continue(items),
           Follow(items), root' = root
    PROVE  OrderInv' /\ ItemsInv' /\ ~TakesNode'
<1> DEFINE n == Len(items)
<1>1. /\ n \in Nat /\ Len(control) \in Nat \ {0} /\ Len(control') = n + Len(control) - 1
      /\ DOMAIN control = 1..Len(control) /\ DOMAIN items = 1..n
      /\ DOMAIN control' = 1..(n + Len(control) - 1)
      /\ Due = control[1]
      /\ \A i \in 1..n : control'[i] = items[i]
      /\ \A i \in DOMAIN control' : i > n =>
             control'[i] = control[i - n + 1] /\ i - n + 1 \in 2..Len(control)
  BY AfterDue DEF ProgramTypeOK
<1>b. n \in Nat /\ Len(control) \in Nat
  BY <1>1
<1>2. items = << >> <=> n = 0
  OBVIOUS
<1>a. control' = << >> <=> Len(control') = 0
  <2>1. control' \in Seq(Items)
    BY AfterDue DEF ProgramTypeOK
  <2> QED
    BY <2>1
<1> HIDE DEF n
<1>3. ItemsInv'
  BY <1>1 DEF ItemsInv, Follow, TreeInv
<1>4. \A i \in 1..(Len(control') - 1) :
         control'[i].do \in Returns <=> control'[i + 1].do \in Takes
  <2> TAKE i \in 1..(Len(control') - 1)
  <2>1. CASE i < n
    BY <1>1, <2>1 DEF Follow, n
  <2>2. CASE i = n
    <3>1. control'[i] = items[n] /\ control'[i + 1] = control[2] /\ 1 \in 1..(Len(control) - 1)
      BY <1>1, <2>2
    <3>2. control[1].do \in Returns <=> control[1 + 1].do \in Takes
      BY <3>1 DEF TreeInv, OrderInv
    <3> QED
      BY <1>1, <1>2, <2>2, <3>1, <3>2 DEF Follow, n
  <2>3. CASE i > n
    <3>1. /\ control'[i] = control[i - n + 1] /\ control'[i + 1] = control[i - n + 2]
          /\ i - n + 1 \in 1..(Len(control) - 1)
      <4>1. i \in DOMAIN control' /\ i + 1 \in DOMAIN control' /\ i \in Int /\ i + 1 > n
        BY <1>1, <2>3
      <4>2. (i + 1) - n + 1 = i - n + 2
        BY <1>1, <4>1
      <4>3. control'[i + 1] = control[(i + 1) - n + 1]
        BY <1>1, <4>1
      <4>4. /\ control'[i] = control[i - n + 1]
            /\ i - n + 1 \in 2..Len(control) /\ i - n + 2 \in 2..Len(control)
        BY <1>1, <2>3, <4>1, <4>2
      <4>5. i - n + 1 \in 1..(Len(control) - 1)
        <5>1. i - n + 1 \in Int /\ i - n + 2 = (i - n + 1) + 1
          BY <1>b, <4>1
        <5> QED
          BY <1>b, <4>4, <5>1, NotTheLast
      <4> QED
        BY <4>2, <4>3, <4>4, <4>5
    <3>2. control[i - n + 1].do \in Returns <=> control[i - n + 1 + 1].do \in Takes
      BY <3>1 DEF TreeInv, OrderInv
    <3>3. i - n + 1 + 1 = i - n + 2
      BY <1>1
    <3> QED
      BY <3>1, <3>2, <3>3
  <2> QED
    BY <1>1, <2>1, <2>2, <2>3
<1>5. control' # << >> => control'[Len(control')].do \notin Returns
  <2> HAVE control' # << >>
  <2>1. CASE Len(control) = 1
    <3>1. control[1].do \notin Returns
      BY <2>1 DEF TreeInv, OrderInv
    <3>2. n > 0 /\ Len(control') = n
      BY <1>1, <1>a, <2>1
    <3> QED
      BY <1>1, <1>2, <3>1, <3>2 DEF Follow, n
  <2>2. CASE Len(control) > 1
    <3>1. control'[Len(control')] = control[Len(control)]
      BY <1>1, <2>2
    <3> QED
      BY <3>1 DEF TreeInv, OrderInv
  <2> QED
    BY <1>1, <2>1, <2>2
<1>6. ASSUME NEW i \in DOMAIN control', NEW j \in DOMAIN control', control'[i].do = "root"
      PROVE  root' = 0 /\ (control'[j].do = "root" => i = j)
  <2>1. i > n /\ i - n + 1 \in DOMAIN control /\ control[i - n + 1].do = "root"
    BY <1>1, <1>6 DEF Follow
  <2>2. control'[j].do = "root" =>
           j > n /\ j - n + 1 \in DOMAIN control /\ control[j - n + 1].do = "root"
    BY <1>1 DEF Follow
  <2>3. root = 0 /\ (control'[j].do = "root" => i - n + 1 = j - n + 1)
    BY <2>1, <2>2 DEF TreeInv, OrderInv
  <2> QED
    BY <1>1, <2>1, <2>2, <2>3
<1>7. ~TakesNode'
  <2> SUFFICES ASSUME control' # << >> PROVE control'[1].do \notin Takes
    BY DEF TakesNode, Due
  <2>1. CASE n = 0
    <3>1. control'[1] = control[2] /\ 1 \in 1..(Len(control) - 1)
      BY <1>1, <1>a, <2>1
    <3>2. control[1].do \in Returns <=> control[1 + 1].do \in Takes
      BY <3>1 DEF TreeInv, OrderInv
    <3> QED
      BY <1>1, <1>2, <2>1, <3>1, <3>2 DEF Follow
  <2>2. CASE n > 0
    BY <1>1, <1>2, <2>2 DEF Follow
  <2> QED
    BY <1>1, <2>1, <2>2
<1>8. OrderInv'
  BY <1>4, <1>5, <1>6 DEF OrderInv
<1> QED
  BY <1>3, <1>7, <1>8
-----------------------------------------------------------------------------
(* The tree of the execution nodes. *)

(* The node that passes from what is due to an item that takes its place.  *)
Given == IF TakesNode THEN node ELSE Held(Due)

(* Item m takes over the node; no other item holds one.                    *)
Handed(items, m) ==
    /\ TakesNode => Held(Due) = 0 /\ Open(Due) = 0
    /\ Given # 0 => m \in DOMAIN items
    /\ \A i \in DOMAIN items :
          IF i = m
          THEN Held(items[i]) = Given
               /\ Open(items[i]) \in {0, IF TakesNode THEN node ELSE Open(Due)}
          ELSE Held(items[i]) = 0 /\ Open(items[i]) = 0

LEMMA NodeFields ==
    ASSUME ProgramTypeOK
    PROVE  /\ nodes \in Seq(Nodes) /\ Len(nodes) \in Nat /\ DOMAIN nodes = 1..Len(nodes)
           /\ \A k \in DOMAIN nodes : nodes[k].next \in Nat /\ nodes[k].child \in Nat
<1>1. nodes \in Seq(Nodes)
  BY DEF ProgramTypeOK
<1>2. Len(nodes) \in Nat /\ DOMAIN nodes = 1..Len(nodes) /\ \A k \in DOMAIN nodes : nodes[k] \in Nodes
  BY <1>1
<1>3. \A k \in DOMAIN nodes : nodes[k].next \in Nat /\ nodes[k].child \in Nat
  BY <1>2 DEF Nodes
<1> QED
  BY <1>1, <1>2, <1>3

LEMMA ControlFields ==
    ASSUME ProgramTypeOK
    PROVE  /\ control \in Seq(Items) /\ Len(control) \in Nat /\ DOMAIN control = 1..Len(control)
           /\ \A c \in DOMAIN control :
                 control[c] \in Items /\ Held(control[c]) \in Nat /\ Open(control[c]) \in Nat
<1>1. control \in Seq(Items)
  BY DEF ProgramTypeOK
<1>2. Len(control) \in Nat /\ DOMAIN control = 1..Len(control)
      /\ \A c \in DOMAIN control : control[c] \in Items
  BY <1>1
<1> QED
  BY <1>1, <1>2, ItemFields

LEMMA ByField ==
    ASSUME NEW f
    PROVE  {p \in (DOMAIN f) \X {"next", "child"} : f[p[1]][p[2]] # 0}
              = {<<k, "next">> : k \in {h \in DOMAIN f : f[h].next # 0}}
                \cup {<<k, "child">> : k \in {h \in DOMAIN f : f[h].child # 0}}
OBVIOUS

LEMMA PointersInBounds ==
    ASSUME ProgramTypeOK, BoundsInv
    PROVE  \A p \in Pointers :
              /\ p[1] \in DOMAIN nodes /\ p[2] \in {"next", "child"} /\ p = <<p[1], p[2]>>
              /\ Target(p) = nodes[p[1]][p[2]] /\ Target(p) \in DOMAIN nodes /\ Target(p) # 0
<1> SUFFICES ASSUME NEW p \in Pointers
             PROVE  /\ p[1] \in DOMAIN nodes /\ p[2] \in {"next", "child"} /\ p = <<p[1], p[2]>>
                    /\ Target(p) = nodes[p[1]][p[2]]
                    /\ Target(p) \in DOMAIN nodes /\ Target(p) # 0
  OBVIOUS
<1>1. p[1] \in DOMAIN nodes /\ p[2] \in {"next", "child"} /\ p = <<p[1], p[2]>>
  BY DEF Pointers
<1>2. Target(p) = nodes[p[1]][p[2]] /\ Target(p) # 0
  BY DEF Pointers, Target
<1>3. DOMAIN nodes = 1..Len(nodes) /\ Len(nodes) \in Nat
  BY NodeFields
<1>4. nodes[p[1]].next \in Nat /\ nodes[p[1]].child \in Nat
  BY <1>1, NodeFields
<1>5. CASE p[2] = "next"
  BY <1>1, <1>2, <1>3, <1>4, <1>5 DEF BoundsInv
<1>6. CASE p[2] = "child"
  BY <1>1, <1>2, <1>3, <1>4, <1>6 DEF BoundsInv
<1> QED
  BY <1>1, <1>2, <1>5, <1>6

LEMMA TreeMoves ==
    ASSUME ProgramTypeOK, TreeInv, control # << >>, NEW items \in Seq(Items), Continue(items),
           Follow(items), NEW m \in Nat, Handed(items, m),
           UNCHANGED <<nodes, node, root>>
    PROVE  TreeInv'
<1> DEFINE n == Len(items)
<1>1. /\ n \in Nat /\ Len(control) \in Nat \ {0} /\ Len(control') = n + Len(control) - 1
      /\ DOMAIN control = 1..Len(control) /\ DOMAIN items = 1..n
      /\ DOMAIN control' = 1..(n + Len(control) - 1)
      /\ Due = control[1]
      /\ \A i \in 1..n : control'[i] = items[i]
      /\ \A i \in DOMAIN control' : i > n =>
             control'[i] = control[i - n + 1] /\ i - n + 1 \in 2..Len(control)
      /\ \A i \in 2..Len(control) :
             i + n - 1 \in DOMAIN control' /\ control'[i + n - 1] = control[i]
  BY AfterDue DEF ProgramTypeOK
<1> DEFINE old(i) == i - n + 1
<1>2. /\ 1 \in DOMAIN control
      /\ \A i \in DOMAIN control' :
            \/ /\ i \in DOMAIN items /\ i <= n
               /\ control'[i] = items[i]
            \/ /\ i > n /\ old(i) \in DOMAIN control /\ old(i) # 1
               /\ control'[i] = control[old(i)]
      /\ \A i, j \in DOMAIN control' : old(i) = old(j) => i = j
      /\ \A i \in DOMAIN items : i \in DOMAIN control' /\ control'[i] = items[i]
      /\ \A c \in DOMAIN control : c = 1 \/ \E i \in DOMAIN control' : control'[i] = control[c]
  <2>1. \A c \in DOMAIN control : c = 1 \/ \E i \in DOMAIN control' : control'[i] = control[c]
    <3> TAKE c \in DOMAIN control
    <3>1. c \in 1..Len(control) /\ Len(control) \in Nat
      BY <1>1
    <3>2. c # 1 => c \in 2..Len(control)
      BY <3>1
    <3> QED
      BY <1>1, <3>2
  <2>2. \A i \in DOMAIN control' :
            \/ /\ i \in DOMAIN items /\ i <= n
               /\ control'[i] = items[i]
            \/ /\ i > n /\ old(i) \in DOMAIN control /\ old(i) # 1
               /\ control'[i] = control[old(i)]
    BY <1>1
  <2> QED
    BY <1>1, <2>1, <2>2
<1> HIDE DEF n, old
<1>3. OrderInv' /\ ItemsInv' /\ ~TakesNode' /\ Returned' = 0
  BY OrderKept DEF Returned
<1>4. Pointers' = Pointers /\ \A p \in Pointers : Target(p)' = Target(p)
  BY DEF Pointers, Target
<1>5. \A p \in Pointers : Target(p) # 0
  BY DEF Pointers, Target
<1>6. /\ \A i \in DOMAIN items :
            \/ Held(items[i]) = 0 /\ Open(items[i]) = 0
            \/ /\ i = m /\ Held(items[i]) = Given
               /\ Open(items[i]) \in {0, IF TakesNode THEN node ELSE Open(Due)}
      /\ Given # 0 => m \in DOMAIN items /\ Held(items[m]) = Given
  BY DEF Handed
<1>7. Given = IF TakesNode THEN Returned ELSE Held(control[1])
  BY <1>1 DEF Given, Returned
<1>8. OneHolder'
  <2>1. \A p, q \in Pointers' : Target(p)' = Target(q)' => p = q
    BY <1>4 DEF OneHolder, TreeInv
  <2>2. \A p \in Pointers' : Target(p)' # Returned' /\ Target(p)' # root'
    BY <1>3, <1>4, <1>5 DEF OneHolder, TreeInv
  <2>3. ASSUME NEW p \in Pointers, NEW i \in DOMAIN control'
        PROVE  Target(p) # Held(control'[i])
    BY <1>2, <1>5, <1>6, <1>7 DEF OneHolder, TreeInv
  <2>4. ASSUME NEW i \in DOMAIN control', NEW j \in DOMAIN control',
               Held(control'[i]) = Held(control'[j]), Held(control'[i]) # 0
        PROVE  i = j
    BY <1>2, <1>6, <1>7, <2>4 DEF OneHolder, TreeInv, Returned
  <2>5. ASSUME NEW i \in DOMAIN control', Held(control'[i]) # 0
        PROVE  Held(control'[i]) # Returned' /\ Held(control'[i]) # root'
    BY <1>2, <1>3, <1>6, <1>7, <2>5 DEF OneHolder, TreeInv, Returned
  <2> QED
    BY <1>3, <1>4, <2>1, <2>2, <2>3, <2>4, <2>5 DEF OneHolder
<1>9. EachIsHeld'
  <2> SUFFICES ASSUME NEW k \in DOMAIN nodes
               PROVE  \/ k = root
                      \/ \E p \in Pointers : Target(p) = k
                      \/ \E i \in DOMAIN control' : Held(control'[i]) = k
    BY <1>4 DEF EachIsHeld
  <2>1. k # 0
    <3>1. DOMAIN nodes = 1..Len(nodes) /\ Len(nodes) \in Nat
      BY NodeFields
    <3> QED
      BY <3>1
  <2>2. \/ k = root
        \/ \E p \in Pointers : Target(p) = k
        \/ k = Given
        \/ \E c \in DOMAIN control : c # 1 /\ Held(control[c]) = k
    <3>1. CASE k = Returned
      BY <1>7, <2>1, <3>1 DEF Returned
    <3>2. CASE \E c \in DOMAIN control : Held(control[c]) = k
      <4>1. TakesNode => Held(control[1]) = 0
        BY <1>1 DEF Handed
      <4> QED
        BY <1>7, <2>1, <3>2, <4>1
    <3> QED
      BY <3>1, <3>2 DEF EachIsHeld, TreeInv
  <2> QED
    BY <1>2, <1>6, <2>1, <2>2
<1>10. OpenInv'
  <2>1. ASSUME NEW i \in DOMAIN control', Open(control'[i]) # 0
        PROVE  nodes[Open(control'[i])].next = 0
    <3>1. CASE \E c \in DOMAIN control : control'[i] = control[c]
      BY <2>1, <3>1 DEF OpenInv, TreeInv
    <3>2. CASE TakesNode /\ Open(control'[i]) = node
      BY <2>1, <3>2 DEF OpenInv, TreeInv, Returned
    <3>3. CASE Open(control'[i]) = Open(control[1])
      BY <1>2, <2>1, <3>3 DEF OpenInv, TreeInv
    <3> QED
      BY <1>1, <1>2, <1>6, <2>1, <3>1, <3>2, <3>3
  <2>2. ASSUME NEW i \in DOMAIN control', NEW j \in DOMAIN control',
               Open(control'[i]) = Open(control'[j]), Open(control'[i]) # 0
        PROVE  i = j
    <3>1. \A c, d \in DOMAIN control :
             Open(control[c]) = Open(control[d]) /\ Open(control[c]) # 0 => c = d
      BY DEF OpenInv, TreeInv
    <3>2. \A c \in DOMAIN control : TakesNode /\ Open(control[c]) # 0 => Open(control[c]) # node
      BY DEF OpenInv, TreeInv, Returned
    <3>3. \A h \in DOMAIN items : Open(items[h]) # 0 =>
             h = m /\ Open(items[h]) = IF TakesNode THEN node ELSE Open(control[1])
      BY <1>1, <1>6
    <3> QED
      BY <1>2, <2>2, <3>1, <3>2, <3>3
  <2> QED
    BY <1>3, <2>1, <2>2 DEF OpenInv
<1>11. BoundsInv'
  <2>1. ASSUME NEW i \in DOMAIN control'
        PROVE  Held(control'[i]) <= Len(nodes) /\ Open(control'[i]) <= Len(nodes)
    <3>1. \A c \in DOMAIN control : Held(control[c]) <= Len(nodes) /\ Open(control[c]) <= Len(nodes)
      BY DEF BoundsInv, TreeInv
    <3>2. (TakesNode => node <= Len(nodes)) /\ 0 <= Len(nodes)
      <4>1. Len(nodes) \in Nat
        BY NodeFields
      <4> QED
        BY <4>1 DEF BoundsInv, TreeInv
    <3>3. CASE i \in DOMAIN items /\ control'[i] = items[i]
      <4>1. CASE TakesNode
        BY <1>6, <1>7, <3>2, <3>3, <4>1 DEF Returned
      <4>2. CASE ~TakesNode
        BY <1>1, <1>2, <1>6, <1>7, <3>1, <3>2, <3>3, <4>2
      <4> QED
        BY <4>1, <4>2
    <3> QED
      BY <1>2, <3>1, <3>3
  <2> QED
    BY <1>3, <2>1 DEF BoundsInv, TreeInv
<1> QED
  BY <1>3, <1>8, <1>9, <1>10, <1>11 DEF TreeInv

LEMMA TreeAttached ==
    ASSUME ProgramTypeOK, TreeInv, TakesNode, NEW it \in Items, Continue(<<it>>), Follow(<<it>>),
           NEW o \in Nat, Open(Due) = o, o # 0, Held(it) = Held(Due), Open(it) \in {0, node},
           nodes' = [nodes EXCEPT ![o].next = node],
           UNCHANGED <<node, root>>
    PROVE  TreeInv'
<1>1. control # << >> /\ Returned = node /\ <<it>> \in Seq(Items) /\ Len(<<it>>) = 1
  BY DEF TakesNode, Returned
<1>2. /\ DOMAIN control' = DOMAIN control /\ 1 \in DOMAIN control /\ Due = control[1]
      /\ \A i \in DOMAIN control' : control'[i] = IF i = 1 THEN it ELSE control[i]
  <2>1. /\ Len(control) \in Nat \ {0} /\ DOMAIN control = 1..Len(control)
        /\ DOMAIN control' = 1..(Len(<<it>>) + Len(control) - 1) /\ Due = control[1]
        /\ \A i \in 1..Len(<<it>>) : control'[i] = <<it>>[i]
        /\ \A i \in DOMAIN control' : i > Len(<<it>>) => control'[i] = control[i - Len(<<it>>) + 1]
    BY <1>1, AfterDue DEF ProgramTypeOK
  <2>2. \A i \in DOMAIN control' : i > 1 => control'[i] = control[i]
    BY <1>1, <2>1
  <2> QED
    BY <1>1, <2>1, <2>2
<1>3. OrderInv' /\ ItemsInv' /\ ~TakesNode' /\ Returned' = 0
  BY <1>1, OrderKept DEF Returned
<1>4. /\ o \in DOMAIN nodes /\ nodes[o].next = 0 /\ o # node /\ o < Len(nodes)
      /\ node = Len(nodes) /\ node \in DOMAIN nodes /\ node # 0 /\ nodes[node].next = 0
  <2>1. o \in Nat /\ o <= Len(nodes) /\ node = Len(nodes) /\ node # 0
    BY <1>2 DEF TreeInv, BoundsInv
  <2>2. Len(nodes) \in Nat /\ DOMAIN nodes = 1..Len(nodes)
    BY NodeFields
  <2>3. nodes[o].next = 0 /\ o # node /\ nodes[node].next = 0
    BY <1>1, <1>2, <2>1 DEF TreeInv, OpenInv
  <2> QED
    BY <2>1, <2>2, <2>3
<1>5. /\ DOMAIN nodes' = DOMAIN nodes
      /\ nodes'[o].next = node /\ nodes'[o].child = nodes[o].child /\ nodes'[o].kind = nodes[o].kind
      /\ \A k \in DOMAIN nodes : k # o => nodes'[k] = nodes[k]
  <2>1. \A k \in DOMAIN nodes : nodes[k] \in Nodes
    BY NodeFields
  <2> QED
    BY <1>4, <2>1 DEF Nodes
<1>6. /\ Pointers' = Pointers \cup {<<o, "next">>} /\ <<o, "next">> \notin Pointers
      /\ \A p \in Pointers : Target(p)' = Target(p)
      /\ Target(<<o, "next">>)' = node
  <2>1. \A k \in DOMAIN nodes : nodes'[k].child = nodes[k].child
    BY <1>5
  <2>2. \A k \in DOMAIN nodes : k # o => nodes'[k].next = nodes[k].next
    BY <1>5
  <2>3. Pointers = {<<k, "next">> : k \in {h \in DOMAIN nodes : nodes[h].next # 0}}
                   \cup {<<k, "child">> : k \in {h \in DOMAIN nodes : nodes[h].child # 0}}
    BY DEF Pointers
  <2>4. Pointers' = {<<k, "next">> : k \in {h \in DOMAIN nodes : nodes'[h].next # 0}}
                   \cup {<<k, "child">> : k \in {h \in DOMAIN nodes : nodes'[h].child # 0}}
    <3>1. DOMAIN nodes' = DOMAIN nodes
      BY <1>5
    <3>2. Pointers' = {p \in (DOMAIN nodes') \X {"next", "child"} : nodes'[p[1]][p[2]] # 0}
      BY DEF Pointers
    <3>3. PICK f : f = nodes'
      OBVIOUS
    <3>4. {p \in (DOMAIN f) \X {"next", "child"} : f[p[1]][p[2]] # 0}
              = {<<k, "next">> : k \in {h \in DOMAIN f : f[h].next # 0}}
                \cup {<<k, "child">> : k \in {h \in DOMAIN f : f[h].child # 0}}
      BY ByField
    <3> QED
      BY ONLY <3>1, <3>2, <3>3, <3>4
  <2>5. {h \in DOMAIN nodes : nodes'[h].next # 0} = {h \in DOMAIN nodes : nodes[h].next # 0} \cup {o}
    BY <1>4, <1>5, <2>2
  <2>6. {h \in DOMAIN nodes : nodes'[h].child # 0} = {h \in DOMAIN nodes : nodes[h].child # 0}
    BY <2>1
  <2>7. Pointers' = Pointers \cup {<<o, "next">>}
    BY <2>3, <2>4, <2>5, <2>6
  <2>8. <<o, "next">> \notin Pointers
    BY <1>4 DEF Pointers
  <2>9. ASSUME NEW p \in Pointers PROVE Target(p)' = Target(p)
    <3>1. p[1] \in DOMAIN nodes /\ p[2] \in {"next", "child"} /\ nodes[p[1]][p[2]] # 0
      BY DEF Pointers
    <3>2. nodes'[p[1]][p[2]] = nodes[p[1]][p[2]]
      BY <1>4, <2>1, <2>2, <3>1
    <3> QED
      BY <3>2 DEF Target
  <2>10. Target(<<o, "next">>)' = node
    BY <1>5 DEF Target
  <2> QED
    BY <2>7, <2>8, <2>9, <2>10
<1>7. \A i \in DOMAIN control : Held(control'[i]) = Held(control[i])
  BY <1>2
<1>8. \A p \in Pointers : Target(p) # 0 /\ Target(p) # node
  BY <1>1 DEF Pointers, Target, TreeInv, OneHolder
<1>9. OneHolder'
  <2>1. ASSUME NEW p \in Pointers', NEW q \in Pointers', Target(p)' = Target(q)' PROVE p = q
    <3>1. \A a, b \in Pointers : Target(a) = Target(b) => a = b
      BY DEF TreeInv, OneHolder
    <3> QED
      BY <1>6, <1>8, <2>1, <3>1
  <2>2. ASSUME NEW p \in Pointers' PROVE Target(p)' # 0 /\ Target(p)' # root
    BY <1>1, <1>4, <1>6, <1>8 DEF TreeInv, OneHolder
  <2>3. ASSUME NEW p \in Pointers', NEW i \in DOMAIN control' PROVE Target(p)' # Held(control'[i])
    <3>1. Held(control[i]) # 0 => Held(control[i]) # node
      BY <1>1, <1>2 DEF TreeInv, OneHolder
    <3>2. CASE p \in Pointers
      BY <1>2, <1>6, <1>7, <3>2 DEF TreeInv, OneHolder
    <3>3. CASE p = <<o, "next">>
      BY <1>2, <1>4, <1>6, <1>7, <3>1, <3>3
    <3> QED
      BY <1>6, <3>2, <3>3
  <2>4. ASSUME NEW i \in DOMAIN control', NEW j \in DOMAIN control',
               Held(control'[i]) = Held(control'[j]), Held(control'[i]) # 0
        PROVE  i = j
    BY <1>2, <1>7, <2>4 DEF TreeInv, OneHolder
  <2>5. ASSUME NEW i \in DOMAIN control', Held(control'[i]) # 0 PROVE Held(control'[i]) # root
    BY <1>2, <1>7, <2>5 DEF TreeInv, OneHolder
  <2> QED
    BY <1>3, <2>1, <2>2, <2>3, <2>4, <2>5 DEF OneHolder
<1>10. EachIsHeld'
  <2> SUFFICES ASSUME NEW k \in DOMAIN nodes
               PROVE  \/ k = root
                      \/ \E p \in Pointers' : Target(p)' = k
                      \/ \E i \in DOMAIN control' : Held(control'[i]) = k
    BY <1>5 DEF EachIsHeld
  <2>1. CASE k = Returned
    BY <1>1, <1>6, <2>1
  <2>2. CASE k = root
    BY <2>2
  <2>3. CASE \E p \in Pointers : Target(p) = k
    BY <1>6, <2>3
  <2>4. CASE \E i \in DOMAIN control : Held(control[i]) = k
    BY <1>2, <1>7, <2>4
  <2> QED
    BY <2>1, <2>2, <2>3, <2>4 DEF TreeInv, EachIsHeld
<1>11. OpenInv'
  <2>1. \A c \in DOMAIN control : Open(control[c]) # 0 =>
           /\ nodes[Open(control[c])].next = 0 /\ Open(control[c]) # node
           /\ c # 1 => Open(control[c]) # o
    BY <1>1, <1>2 DEF TreeInv, OpenInv
  <2>2. \A c \in DOMAIN control : Open(control[c]) # 0 => Open(control[c]) \in DOMAIN nodes
    <3>1. Len(nodes) \in Nat /\ DOMAIN nodes = 1..Len(nodes)
      BY NodeFields
    <3>2. \A c \in DOMAIN control : Open(control[c]) \in Nat /\ Open(control[c]) <= Len(nodes)
      <4>1. \A c \in DOMAIN control : Open(control[c]) \in Nat
        BY ControlFields
      <4> QED
        BY <4>1 DEF TreeInv, BoundsInv
    <3> QED
      BY <3>1, <3>2
  <2>3. ASSUME NEW i \in DOMAIN control', Open(control'[i]) # 0
        PROVE  nodes'[Open(control'[i])].next = 0
    <3>1. CASE i = 1
      BY <1>2, <1>4, <1>5, <2>3, <3>1
    <3>2. CASE i # 1
      BY <1>2, <1>5, <2>1, <2>2, <2>3, <3>2
    <3> QED
      BY <3>1, <3>2
  <2>4. ASSUME NEW i \in DOMAIN control', NEW j \in DOMAIN control',
               Open(control'[i]) = Open(control'[j]), Open(control'[i]) # 0
        PROVE  i = j
    <3>1. \A c, d \in DOMAIN control :
             Open(control[c]) = Open(control[d]) /\ Open(control[c]) # 0 => c = d
      BY DEF OpenInv, TreeInv
    <3> QED
      BY <1>2, <2>1, <2>4, <3>1
  <2> QED
    BY <1>3, <2>3, <2>4 DEF OpenInv
<1>12. BoundsInv'
  <2>1. Len(nodes') = Len(nodes) /\ DOMAIN nodes = 1..Len(nodes) /\ Len(nodes) \in Nat
    BY <1>5, NodeFields
  <2>2. \A i \in DOMAIN control' : Held(control'[i]) <= Len(nodes) /\ Open(control'[i]) <= Len(nodes)
    <3>1. \A c \in DOMAIN control : Held(control[c]) <= Len(nodes) /\ Open(control[c]) <= Len(nodes)
      BY DEF BoundsInv, TreeInv
    <3> QED
      BY <1>2, <1>4, <1>7, <2>1, <3>1
  <2>3. ASSUME NEW k \in DOMAIN nodes
        PROVE  /\ nodes'[k].child < k
               /\ nodes'[k].next = 0 \/ nodes'[k].next \in (k + 1)..Len(nodes)
               /\ nodes'[k].kind \in {"If", "While"} => nodes'[k].child # 0
    <3>1. /\ nodes[k].child < k
          /\ nodes[k].next = 0 \/ nodes[k].next \in (k + 1)..Len(nodes)
          /\ nodes[k].kind \in {"If", "While"} => nodes[k].child # 0
      BY DEF TreeInv, BoundsInv
    <3>2. CASE k = o
      BY <1>4, <1>5, <2>1, <3>1, <3>2
    <3>3. CASE k # o
      BY <1>5, <3>1, <3>3
    <3> QED
      BY <3>2, <3>3
  <2>4. root <= Len(nodes)
    BY DEF TreeInv, BoundsInv
  <2> QED
    BY <1>3, <1>5, <2>1, <2>2, <2>3, <2>4 DEF BoundsInv
<1> QED
  BY <1>3, <1>9, <1>10, <1>11, <1>12 DEF TreeInv

(* A node is made, whose child is what was held for it, and returned.      *)
LEMMA TreeGrows ==
    ASSUME ProgramTypeOK, TreeInv, control # << >>, Due.do = "make", Continue(<< >>),
           nodes' = Append(nodes, Due.made), node' = Len(nodes) + 1, root' = root
    PROVE  TreeInv'
<1> DEFINE new == Len(nodes) + 1
<1>1. /\ Len(control) \in Nat \ {0} /\ Len(control') = Len(control) - 1
      /\ DOMAIN control = 1..Len(control) /\ DOMAIN control' = 1..(Len(control) - 1)
      /\ Due = control[1] /\ Due \in Items
      /\ \A i \in DOMAIN control' : control'[i] = control[i + 1] /\ i + 1 \in 2..Len(control)
      /\ \A c \in 2..Len(control) : c - 1 \in DOMAIN control' /\ control'[c - 1] = control[c]
  <2>1. << >> \in Seq(Items) /\ Len(<< >>) = 0
    OBVIOUS
  <2>2. /\ control' \in Seq(Items) /\ Len(control') = Len(<< >>) + Len(control) - 1
        /\ Len(control) \in Nat \ {0}
        /\ DOMAIN control = 1..Len(control)
        /\ DOMAIN control' = 1..(Len(<< >>) + Len(control) - 1)
        /\ Due = control[1] /\ Due \in Items
        /\ \A i \in DOMAIN control' : i > Len(<< >>) =>
              /\ control'[i] = control[i - Len(<< >>) + 1]
              /\ i - Len(<< >>) + 1 \in 2..Len(control)
        /\ \A i \in 2..Len(control) :
              /\ i + Len(<< >>) - 1 \in DOMAIN control'
              /\ control'[i + Len(<< >>) - 1] = control[i]
    BY <2>1, AfterDue DEF ProgramTypeOK
  <2> QED
    BY <2>1, <2>2
<1>2. Due.made \in Nodes /\ Held(Due) = Due.made.child /\ Open(Due) = 0 /\ Due.made.next = 0
      /\ Due.made.child \in Nat /\ (Due.made.kind \in {"If", "While"} => Due.made.child # 0)
  <2>1. Due.do = "make" /\ Due.made \in Nodes
    BY <1>1, ItemFields
  <2>2. ItemOK(Due)
    BY <1>1 DEF TreeInv, ItemsInv
  <2>3. Held(Due) = Due.made.child /\ Open(Due) = 0
    BY <2>1 DEF Held, Open
  <2>4. Due.made.next = 0 /\ (Due.made.kind \in {"If", "While"} => Due.made.child # 0)
    BY <2>1, <2>2 DEF ItemOK
  <2>5. Due.made.child \in Nat
    BY <2>1 DEF Nodes
  <2> QED
    BY <2>1, <2>3, <2>4, <2>5
<1>3. ~TakesNode /\ Returned = 0
  BY DEF TakesNode, Returned, Takes
<1>4. TakesNode' /\ Returned' = new
  <2>1. control[1].do \in Returns
    BY <1>1 DEF Returns
  <2>2. Len(control) # 1
    BY <1>1, <2>1 DEF TreeInv, OrderInv
  <2>3. control[1 + 1].do \in Takes
    <3>1. 1 \in 1..(Len(control) - 1)
      BY <1>1, <2>2
    <3> QED
      BY <2>1, <3>1 DEF TreeInv, OrderInv
  <2>4. control'[1] = control[2] /\ 1 \in DOMAIN control'
    BY <1>1, <2>2
  <2> QED
    BY <2>3, <2>4 DEF TakesNode, Returned, Due
<1>5. OrderInv'
  <2>1. ASSUME NEW i \in 1..(Len(control') - 1)
        PROVE  control'[i].do \in Returns <=> control'[i + 1].do \in Takes
    <3>1. /\ i + 1 \in 1..(Len(control) - 1) /\ control'[i] = control[i + 1]
          /\ control'[i + 1] = control[i + 1 + 1]
      BY <1>1
    <3> QED
      BY <3>1 DEF TreeInv, OrderInv
  <2>2. ASSUME control' # << >> PROVE control'[Len(control')].do \notin Returns
    <3>1. Len(control') \in DOMAIN control'
      BY <1>4, <1>1, <2>2 DEF Due, TakesNode
    <3>2. control'[Len(control')] = control[Len(control)]
      BY <1>1, <3>1
    <3> QED
      BY <1>1, <3>2 DEF TreeInv, OrderInv
  <2>3. ASSUME NEW i \in DOMAIN control', NEW j \in DOMAIN control', control'[i].do = "root"
        PROVE  root' = 0 /\ (control'[j].do = "root" => i = j)
    <3>1. /\ control'[i] = control[i + 1] /\ i + 1 \in DOMAIN control
          /\ control'[j] = control[j + 1] /\ j + 1 \in DOMAIN control
      BY <1>1
    <3>2. root = 0 /\ (control[j + 1].do = "root" => i + 1 = j + 1)
      BY <2>3, <3>1 DEF TreeInv, OrderInv
    <3> QED
      BY <1>1, <3>1, <3>2
  <2> QED
    BY <2>1, <2>2, <2>3 DEF OrderInv
<1>6. ItemsInv'
  BY <1>1 DEF ItemsInv, TreeInv
<1>7. /\ DOMAIN nodes = 1..Len(nodes) /\ Len(nodes) \in Nat /\ new \in Nat /\ new > Len(nodes)
      /\ DOMAIN nodes' = DOMAIN nodes \cup {new} /\ new \notin DOMAIN nodes /\ Len(nodes') = new
      /\ nodes'[new] = Due.made /\ \A k \in DOMAIN nodes : nodes'[k] = nodes[k]
  <2>1. nodes \in Seq(Nodes) /\ Len(nodes) \in Nat /\ DOMAIN nodes = 1..Len(nodes)
    BY NodeFields
  <2>2. /\ Len(nodes') = new /\ DOMAIN nodes' = 1..new
        /\ \A k \in 1..new : nodes'[k] = IF k = new THEN Due.made ELSE nodes[k]
    BY <1>2, <2>1
  <2> QED
    BY <2>1, <2>2
<1>a. PICK n \in Nat : n = new
  BY <1>7
<1>b. PICK c \in Nat : c = Held(Due)
  BY <1>2
<1> HIDE DEF new
<1> DEFINE old(i) == i + 1
<1>8. /\ 1 \in DOMAIN control
      /\ \A i \in DOMAIN control' :
             old(i) \in DOMAIN control /\ old(i) # 1 /\ control'[i] = control[old(i)]
      /\ \A i, j \in DOMAIN control' : old(i) = old(j) => i = j
      /\ \A h \in DOMAIN control : h = 1 \/ \E i \in DOMAIN control' : control'[i] = control[h]
  <2>1. \A h \in DOMAIN control : h = 1 \/ \E i \in DOMAIN control' : control'[i] = control[h]
    <3> TAKE h \in DOMAIN control
    <3>1. h \in 1..Len(control) /\ Len(control) \in Nat
      BY <1>1
    <3>2. h # 1 => h \in 2..Len(control)
      BY <3>1
    <3> QED
      BY <1>1, <3>2
  <2> QED
    BY <1>1, <2>1
<1> HIDE DEF old
<1>9. \A p \in Pointers : Target(p) # 0 /\ Target(p) \in DOMAIN nodes /\ Target(p) # c
  BY PointersInBounds, <1>1, <1>b DEF TreeInv, OneHolder
<1>10. /\ Pointers' = Pointers \cup (IF c = 0 THEN {} ELSE {<<n, "child">>})
       /\ \A p \in Pointers : Target(p)' = Target(p)
       /\ Target(<<n, "child">>)' = c
  <2>1. Pointers' = {p \in (DOMAIN nodes \cup {n}) \X {"next", "child"} : nodes'[p[1]][p[2]] # 0}
    BY <1>7, <1>a DEF Pointers
  <2>2. nodes'[n].next = 0 /\ nodes'[n].child = c
    BY <1>2, <1>7, <1>a, <1>b
  <2>3. Pointers' = Pointers \cup (IF c = 0 THEN {} ELSE {<<n, "child">>})
    BY <1>7, <1>a, <2>1, <2>2 DEF Pointers
  <2>4. \A p \in Pointers : Target(p)' = Target(p)
    BY <1>7 DEF Pointers, Target
  <2>5. Target(<<n, "child">>)' = c
    BY <2>2 DEF Target
  <2> QED
    BY <2>3, <2>4, <2>5
<1>11. \A h \in DOMAIN control : Held(control[h]) <= Len(nodes) /\ Open(control[h]) <= Len(nodes)
                                /\ Held(control[h]) # n /\ Open(control[h]) # n
                                /\ Held(control[h]) \in Nat /\ Open(control[h]) \in Nat
  <2>1. \A h \in DOMAIN control : Held(control[h]) <= Len(nodes) /\ Open(control[h]) <= Len(nodes)
                                 /\ Held(control[h]) \in Nat /\ Open(control[h]) \in Nat
    BY ControlFields DEF TreeInv, BoundsInv
  <2> QED
    BY <1>7, <1>a, <2>1
<1>12. c = 0 \/ c # root
  BY <1>1, <1>b DEF TreeInv, OneHolder
<1>13. root # n /\ root <= Len(nodes)
  BY <1>7, <1>a DEF TreeInv, BoundsInv
<1>14. OneHolder'
  <2>1. ASSUME NEW p \in Pointers', NEW q \in Pointers', Target(p)' = Target(q)' PROVE p = q
    <3>1. \A a, b \in Pointers : Target(a) = Target(b) => a = b
      BY DEF TreeInv, OneHolder
    <3> QED
      BY <1>9, <1>10, <2>1, <3>1
  <2>2. ASSUME NEW p \in Pointers' PROVE Target(p)' # n /\ Target(p)' # root
    <3>1. CASE p \in Pointers
      BY <1>7, <1>9, <1>10, <1>a, <3>1 DEF TreeInv, OneHolder
    <3>2. CASE c # 0 /\ p = <<n, "child">>
      BY <1>1, <1>10, <1>11, <1>12, <1>b, <3>2
    <3> QED
      BY <1>10, <3>1, <3>2
  <2>3. ASSUME NEW p \in Pointers', NEW i \in DOMAIN control' PROVE Target(p)' # Held(control'[i])
    <3>1. CASE p \in Pointers
      BY <1>8, <1>10, <3>1 DEF TreeInv, OneHolder
    <3>2. CASE c # 0 /\ p = <<n, "child">>
      BY <1>1, <1>8, <1>10, <1>b, <3>2 DEF TreeInv, OneHolder
    <3> QED
      BY <1>10, <3>1, <3>2
  <2>4. ASSUME NEW i \in DOMAIN control', NEW j \in DOMAIN control',
               Held(control'[i]) = Held(control'[j]), Held(control'[i]) # 0
        PROVE  i = j
    BY <1>8, <2>4 DEF TreeInv, OneHolder
  <2>5. ASSUME NEW i \in DOMAIN control', Held(control'[i]) # 0
        PROVE  Held(control'[i]) # n /\ Held(control'[i]) # root
    BY <1>8, <1>11, <2>5 DEF TreeInv, OneHolder
  <2> QED
    BY <1>4, <1>13, <1>a, <2>1, <2>2, <2>3, <2>4, <2>5 DEF OneHolder
<1>15. EachIsHeld'
  <2> SUFFICES ASSUME NEW k \in DOMAIN nodes, k # root, k # 0
               PROVE  \/ \E p \in Pointers' : Target(p)' = k
                      \/ \E i \in DOMAIN control' : Held(control'[i]) = k
    BY <1>4, <1>7, <1>a DEF EachIsHeld
  <2>1. CASE \E p \in Pointers : Target(p) = k
    BY <1>10, <2>1
  <2>2. CASE \E h \in DOMAIN control : h # 1 /\ Held(control[h]) = k
    BY <1>8, <2>2
  <2>3. CASE Held(control[1]) = k
    BY <1>1, <1>10, <1>b, <2>3
  <2> QED
    BY <1>3, <2>1, <2>2, <2>3 DEF TreeInv, EachIsHeld
<1>16. OpenInv'
  <2>1. ASSUME NEW i \in DOMAIN control', Open(control'[i]) # 0
        PROVE  nodes'[Open(control'[i])].next = 0 /\ Open(control'[i]) # n
    <3>1. Open(control[old(i)]) \in DOMAIN nodes
      BY <1>7, <1>8, <1>11, <2>1
    <3> QED
      BY <1>7, <1>8, <1>11, <2>1, <3>1 DEF TreeInv, OpenInv
  <2>2. ASSUME NEW i \in DOMAIN control', NEW j \in DOMAIN control',
               Open(control'[i]) = Open(control'[j]), Open(control'[i]) # 0
        PROVE  i = j
    BY <1>8, <2>2 DEF TreeInv, OpenInv
  <2>3. nodes'[n].next = 0
    BY <1>2, <1>7, <1>a
  <2> QED
    BY <1>4, <1>a, <2>1, <2>2, <2>3 DEF OpenInv
<1>17. BoundsInv'
  <2>1. \A i \in DOMAIN control' : Held(control'[i]) <= n /\ Open(control'[i]) <= n
    BY <1>7, <1>8, <1>11, <1>a
  <2>2. ASSUME NEW k \in DOMAIN nodes'
        PROVE  /\ nodes'[k].child < k
               /\ nodes'[k].next = 0 \/ nodes'[k].next \in (k + 1)..n
               /\ nodes'[k].kind \in {"If", "While"} => nodes'[k].child # 0
    <3>1. CASE k = n
      BY <1>1, <1>2, <1>7, <1>11, <1>8, <1>a, <3>1
    <3>2. CASE k \in DOMAIN nodes
      <4>1. /\ nodes[k].child < k
            /\ nodes[k].next = 0 \/ nodes[k].next \in (k + 1)..Len(nodes)
            /\ nodes[k].kind \in {"If", "While"} => nodes[k].child # 0
        BY <3>2 DEF TreeInv, BoundsInv
      <4> QED
        BY <1>7, <1>a, <3>2, <4>1
    <3> QED
      BY <1>7, <1>a, <3>1, <3>2
  <2>3. root <= n
    <3>1. root \in Nat
      BY DEF ProgramTypeOK
    <3> QED
      BY <1>7, <1>13, <1>a, <3>1
  <2>4. node' = n /\ n # 0 /\ Len(nodes') = n
    BY <1>7, <1>a DEF new
  <2> QED
    BY <2>1, <2>2, <2>3, <2>4 DEF BoundsInv
<1> QED
  BY <1>5, <1>6, <1>14, <1>15, <1>16, <1>17 DEF TreeInv

(* The node of the outermost block becomes the root.                       *)
LEMMA TreeRooted ==
    ASSUME ProgramTypeOK, TreeInv, TakesNode, Due.do = "root", Continue(<< >>),
           root' = node, UNCHANGED <<nodes, node>>
    PROVE  TreeInv'
<1>1. /\ Len(control) \in Nat \ {0} /\ Len(control') = Len(control) - 1
      /\ DOMAIN control = 1..Len(control) /\ DOMAIN control' = 1..(Len(control) - 1)
      /\ Due = control[1] /\ control # << >>
      /\ \A i \in DOMAIN control' : control'[i] = control[i + 1] /\ i + 1 \in 2..Len(control)
      /\ \A c \in 2..Len(control) : c - 1 \in DOMAIN control' /\ control'[c - 1] = control[c]
  BY DueDone DEF TakesNode, ProgramTypeOK
<1>2. Held(Due) = 0 /\ Open(Due) = 0 /\ Due.do \notin Returns
  BY DEF Held, Open, Returns
<1>3. Returned = node /\ root = 0
  BY <1>1 DEF Returned, TreeInv, OrderInv
<1>4. ~TakesNode' /\ Returned' = 0
  <2> SUFFICES ASSUME control' # << >> PROVE control'[1].do \notin Takes
    BY DEF TakesNode, Returned, Due
  <2>1. control' \in Seq(Items)
    <3>1. << >> \in Seq(Items)
      OBVIOUS
    <3> QED
      BY <1>1, <3>1, AfterDue DEF ProgramTypeOK
  <2>2. control'[1] = control[2] /\ 1 \in 1..(Len(control) - 1)
    BY <1>1, <2>1
  <2>3. control[1].do \in Returns <=> control[1 + 1].do \in Takes
    BY <2>2 DEF TreeInv, OrderInv
  <2> QED
    BY <1>1, <1>2, <2>2, <2>3
<1>5. OrderInv'
  <2>1. ASSUME NEW i \in 1..(Len(control') - 1)
        PROVE  control'[i].do \in Returns <=> control'[i + 1].do \in Takes
    <3>1. /\ i + 1 \in 1..(Len(control) - 1) /\ control'[i] = control[i + 1]
          /\ control'[i + 1] = control[i + 1 + 1]
      BY <1>1
    <3> QED
      BY <3>1 DEF TreeInv, OrderInv
  <2>2. ASSUME control' # << >> PROVE control'[Len(control')].do \notin Returns
    <3>1. control' \in Seq(Items)
      <4>1. << >> \in Seq(Items)
        OBVIOUS
      <4> QED
        BY <1>1, <4>1, AfterDue DEF ProgramTypeOK
    <3>2. Len(control') \in DOMAIN control'
      BY <3>1, <2>2
    <3>3. control'[Len(control')] = control[Len(control)]
      <4>1. PICK m \in DOMAIN control' : m = Len(control')
        BY <3>2
      <4>2. control'[m] = control[m + 1]
        BY <1>1
      <4>3. m = Len(control) - 1 /\ Len(control) \in Nat
        BY <1>1, <4>1
      <4>4. m + 1 = Len(control)
        BY <4>3
      <4> QED
        BY <4>1, <4>2, <4>4
    <3> QED
      BY <1>1, <3>3 DEF TreeInv, OrderInv
  <2>3. ASSUME NEW i \in DOMAIN control' PROVE control'[i].do # "root"
    <3>1. control'[i] = control[i + 1] /\ i + 1 \in DOMAIN control /\ i + 1 # 1 /\ 1 \in DOMAIN control
      BY <1>1
    <3> QED
      BY <1>1, <3>1 DEF TreeInv, OrderInv
  <2> QED
    BY <2>1, <2>2, <2>3 DEF OrderInv
<1>6. ItemsInv'
  BY <1>1 DEF ItemsInv, TreeInv
<1> DEFINE old(i) == i + 1
<1>7. /\ 1 \in DOMAIN control
      /\ \A i \in DOMAIN control' :
             old(i) \in DOMAIN control /\ old(i) # 1 /\ control'[i] = control[old(i)]
      /\ \A i, j \in DOMAIN control' : old(i) = old(j) => i = j
      /\ \A h \in DOMAIN control : h = 1 \/ \E i \in DOMAIN control' : control'[i] = control[h]
  <2>1. \A h \in DOMAIN control : h = 1 \/ \E i \in DOMAIN control' : control'[i] = control[h]
    <3> TAKE h \in DOMAIN control
    <3>1. h \in 1..Len(control) /\ Len(control) \in Nat
      BY <1>1
    <3>2. h # 1 => h \in 2..Len(control)
      BY <3>1
    <3> QED
      BY <1>1, <3>2
  <2> QED
    BY <1>1, <2>1
<1> HIDE DEF old
<1>8. Pointers' = Pointers /\ \A p \in Pointers : Target(p)' = Target(p) /\ Target(p) # 0
  BY DEF Pointers, Target
<1>9. OneHolder'
  <2>1. node # 0
    BY DEF TreeInv, BoundsInv
  <2>2. \A p, q \in Pointers' : Target(p)' = Target(q)' => p = q
    BY <1>8 DEF TreeInv, OneHolder
  <2>3. \A p \in Pointers' : Target(p)' # 0 /\ Target(p)' # node
    BY <1>3, <1>8 DEF TreeInv, OneHolder
  <2>4. \A p \in Pointers', i \in DOMAIN control' : Target(p)' # Held(control'[i])
    BY <1>7, <1>8 DEF TreeInv, OneHolder
  <2>5. ASSUME NEW i \in DOMAIN control', NEW j \in DOMAIN control',
               Held(control'[i]) = Held(control'[j]), Held(control'[i]) # 0
        PROVE  i = j
    BY <1>7, <2>5 DEF TreeInv, OneHolder
  <2>6. ASSUME NEW i \in DOMAIN control', Held(control'[i]) # 0 PROVE Held(control'[i]) # node
    BY <1>3, <1>7, <2>6 DEF TreeInv, OneHolder
  <2> QED
    BY <1>4, <2>1, <2>2, <2>3, <2>4, <2>5, <2>6 DEF OneHolder
<1>10. EachIsHeld'
  <2> SUFFICES ASSUME NEW k \in DOMAIN nodes, k # node, k # 0
               PROVE  \/ \E p \in Pointers : Target(p) = k
                      \/ \E i \in DOMAIN control' : Held(control'[i]) = k
    <3>1. \A k \in DOMAIN nodes : k # 0
      <4>1. DOMAIN nodes = 1..Len(nodes) /\ Len(nodes) \in Nat
        BY NodeFields
      <4> QED
        BY <4>1
    <3> QED
      BY <1>8, <3>1 DEF EachIsHeld
  <2> QED
    <3>1. CASE \E p \in Pointers : Target(p) = k
      BY <3>1
    <3>2. CASE \E h \in DOMAIN control : h # 1 /\ Held(control[h]) = k
      BY <1>7, <3>2
    <3> QED
      BY <1>1, <1>2, <1>3, <3>1, <3>2 DEF TreeInv, EachIsHeld
<1>11. OpenInv'
  BY <1>4, <1>7 DEF TreeInv, OpenInv
<1>12. BoundsInv'
  <2>1. node <= Len(nodes)
    <3>1. Len(nodes) \in Nat
      BY NodeFields
    <3> QED
      BY <3>1 DEF TreeInv, BoundsInv
  <2> QED
    BY <1>4, <1>7, <2>1 DEF TreeInv, BoundsInv
<1> QED
  BY <1>5, <1>6, <1>9, <1>10, <1>11, <1>12 DEF TreeInv

LEMMA TreeUnchanged ==
    ASSUME TreeInv, UNCHANGED <<control, nodes, node, root>>
    PROVE  TreeInv'
BY DEF TreeInv, OrderInv, ItemsInv, OneHolder, EachIsHeld, OpenInv, BoundsInv, Pointers, Target,
       Returned, TakesNode, Due
-----------------------------------------------------------------------------
(* The steps. *)

NoLiteral(items) == \A i \in DOMAIN items : items[i].do # "literal"

LEMMA NoMoreLiterals ==
    ASSUME ProgramTypeOK, ConstantInv, control # << >>, Due.do \notin {"match", "type"},
           NEW items \in Seq(Items), NoLiteral(items), Continue(items)
    PROVE  ConstantInv'
<1>1. /\ Len(items) \in Nat /\ Len(control) \in Nat \ {0} /\ DOMAIN control = 1..Len(control)
      /\ DOMAIN items = 1..Len(items)
      /\ DOMAIN control' = 1..(Len(items) + Len(control) - 1) /\ Due = control[1]
      /\ \A i \in 1..Len(items) : control'[i] = items[i]
      /\ \A i \in DOMAIN control' : i > Len(items) =>
            /\ control'[i] = control[i - Len(items) + 1]
            /\ i - Len(items) + 1 \in 2..Len(control)
  BY AfterDue DEF ProgramTypeOK
<1>2. \A c \in 2..Len(control) : control[c].do # "literal"
  <2> SUFFICES ASSUME NEW c \in 2..Len(control), control[c].do = "literal" PROVE FALSE
    OBVIOUS
  <2>1. c \in DOMAIN control /\ 1 \in 1..(c - 1)
    BY <1>1
  <2> QED
    BY <1>1, <2>1 DEF ConstantInv
<1>3. \A i \in DOMAIN control' : control'[i].do # "literal"
  BY <1>1, <1>2 DEF NoLiteral
<1> QED
  BY <1>3 DEF ConstantInv

LEMMA GotoKeeps ==
    ASSUME ProgramInv, outcome = "compiling", control # << >>,
           Due.do \notin {"match", "type", "expression"},
           NEW items \in Seq(Items), Goto(items), NoLiteral(items),
           Follow(items), NEW m \in Nat, Handed(items, m)
    PROVE  ProgramInv'
<1>1. /\ Continue(items) /\ pc' = pc
      /\ UNCHANGED <<source, position, names, infos, opList, nodes, node, root, outcome>>
  BY DEF Goto, vars
<1>2. control' \in Seq(Items)
  BY <1>1, AfterDue DEF ProgramInv, ProgramTypeOK
<1>3. ProgramTypeOK'
  BY <1>1, <1>2 DEF ProgramInv, ProgramTypeOK
<1>4. ExpressionInv'
  BY <1>1 DEF ProgramInv, ExpressionInv
<1>5. ConstantInv'
  BY <1>1, NoMoreLiterals DEF ProgramInv
<1>6. TreeInv'
  BY <1>1, TreeMoves DEF ProgramInv
<1> QED
  BY <1>3, <1>4, <1>5, <1>6 DEF ProgramInv

(* What is due has no node, and no item gets one.                          *)
Plain(items) ==
    /\ Due.do \notin Takes /\ Held(Due) = 0
    /\ \A i \in DOMAIN items : Held(items[i]) = 0 /\ Open(items[i]) = 0

LEMMA PlainKeeps ==
    ASSUME ProgramInv, outcome = "compiling", control # << >>,
           Due.do \notin {"match", "type", "expression"},
           NEW items \in Seq(Items), Goto(items), NoLiteral(items),
           Follow(items), Plain(items)
    PROVE  ProgramInv'
<1>1. Handed(items, 0)
  BY DEF Handed, Given, TakesNode, Plain
<1> QED
  BY <1>1, GotoKeeps

LEMMA Tuples ==
    /\ \A a \in Items : <<a>> \in Seq(Items)
    /\ \A a, b \in Items : <<a, b>> \in Seq(Items)
    /\ \A a, b, c \in Items : <<a, b, c>> \in Seq(Items)
    /\ \A a, b, c, d \in Items : <<a, b, c, d>> \in Seq(Items)
    /\ \A a, b, c, d, e \in Items : <<a, b, c, d, e>> \in Seq(Items)
    /\ \A a, b, c, d, e, f \in Items : <<a, b, c, d, e, f>> \in Seq(Items)
OBVIOUS

LEMMA ItemsMade ==
    /\ Do("declarations") \in Items /\ Do("constant") \in Items /\ Do("constants") \in Items
    /\ Do("row") \in Items /\ Do("rows") \in Items /\ Do("name") \in Items
    /\ Do("names") \in Items /\ Do("type") \in Items /\ Do("literal") \in Items
    /\ Do("register") \in Items /\ Do("expression") \in Items /\ Do("block") \in Items
    /\ Do("statement") \in Items /\ Do("read") \in Items /\ Do("firstArgument") \in Items
    /\ Do("if") \in Items /\ Do("while") \in Items /\ Do("root") \in Items
    /\ MatchToken("PROGRAM") \in Items /\ MatchToken("ID") \in Items /\ MatchToken("SEMICOLON") \in Items
    /\ MatchToken("DOT") \in Items /\ MatchToken("CONST") \in Items /\ MatchToken("VAR") \in Items
    /\ MatchToken("COLON") \in Items /\ MatchToken("EQUAL") \in Items /\ MatchToken("COMMA") \in Items
    /\ MatchToken("BEGIN") \in Items /\ MatchToken("END") \in Items /\ MatchToken("READ") \in Items
    /\ MatchToken("WRITE") \in Items /\ MatchToken("WRITELN") \in Items /\ MatchToken("LPAREN") \in Items
    /\ MatchToken("RPAREN") \in Items /\ MatchToken("ASSIGN") \in Items /\ MatchToken("IF") \in Items
    /\ MatchToken("THEN") \in Items /\ MatchToken("ELSE") \in Items /\ MatchToken("WHILE") \in Items
    /\ MatchToken("DO") \in Items
<1>1. /\ \A label \in Labels : Do(label) \in Items
      /\ \A type \in Matched : MatchToken(type) \in Items
  BY NewItems
<1>2. /\ Do("declarations") \in Items /\ Do("constant") \in Items /\ Do("constants") \in Items
      /\ Do("row") \in Items /\ Do("rows") \in Items /\ Do("name") \in Items
      /\ Do("names") \in Items /\ Do("type") \in Items /\ Do("literal") \in Items
      /\ Do("register") \in Items /\ Do("expression") \in Items /\ Do("block") \in Items
      /\ Do("statement") \in Items /\ Do("read") \in Items /\ Do("firstArgument") \in Items
      /\ Do("if") \in Items /\ Do("while") \in Items /\ Do("root") \in Items
  BY <1>1 DEF Labels
<1>3. /\ MatchToken("PROGRAM") \in Items /\ MatchToken("ID") \in Items /\ MatchToken("SEMICOLON") \in Items
      /\ MatchToken("DOT") \in Items /\ MatchToken("CONST") \in Items /\ MatchToken("VAR") \in Items
      /\ MatchToken("COLON") \in Items /\ MatchToken("EQUAL") \in Items /\ MatchToken("COMMA") \in Items
      /\ MatchToken("BEGIN") \in Items /\ MatchToken("END") \in Items /\ MatchToken("READ") \in Items
      /\ MatchToken("WRITE") \in Items /\ MatchToken("WRITELN") \in Items /\ MatchToken("LPAREN") \in Items
      /\ MatchToken("RPAREN") \in Items /\ MatchToken("ASSIGN") \in Items /\ MatchToken("IF") \in Items
      /\ MatchToken("THEN") \in Items /\ MatchToken("ELSE") \in Items /\ MatchToken("WHILE") \in Items
      /\ MatchToken("DO") \in Items
  BY <1>1 DEF Matched, TokenTypes, ValueTokens
<1> QED
  BY <1>2, <1>3

LEMMA DeclarationsStep == ASSUME ProgramInv, Declarations PROVE ProgramInv'
<1>1. outcome = "compiling" /\ control # << >> /\ Due.do = "declarations"
  BY DEF Declarations, Doing
<1>2. PICK items : /\ Goto(items)
                   /\ \/ items = <<MatchToken("CONST"), Do("constant"), Do("constants"),
                                   Do("declarations")>>
                      \/ items = <<MatchToken("VAR"), Do("row"), Do("rows"), Do("declarations")>>
                      \/ items = << >>
  BY DEF Declarations, IsToken
<1>3. items \in Seq(Items)
  <2>1. CASE items = <<MatchToken("CONST"), Do("constant"), Do("constants"), Do("declarations")>>
    BY <2>1, ItemsMade, Tuples
  <2>2. CASE items = <<MatchToken("VAR"), Do("row"), Do("rows"), Do("declarations")>>
    BY <2>2, ItemsMade, Tuples
  <2>3. CASE items = << >>
    BY <2>3
  <2> QED
    BY <1>2, <2>1, <2>2, <2>3
<1>4. Follow(items)
  BY <1>1, <1>2 DEF Follow, Takes, Returns, ItemOK, Do, MatchToken
<1>5. NoLiteral(items)
  BY <1>2 DEF NoLiteral, Do, MatchToken
<1>6. Plain(items)
  BY <1>1, <1>2 DEF Plain, Held, Open, Takes, Do, MatchToken
<1> QED
  BY <1>1, <1>2, <1>3, <1>4, <1>5, <1>6, PlainKeeps

LEMMA NodesMade ==
    /\ \A id \in Nat : Make(Node("Read", 0, id, << >>)) \in Items
    /\ \A id \in Nat, programs \in Seq(Programs) : Make(Node("Assign", 0, id, programs)) \in Items
    /\ \A kind \in {"Write", "WriteLn"}, programs \in Seq(Programs) :
          Make(Node(kind, 0, 0, programs)) \in Items
    /\ \A child \in Nat : Make(Node("Block", child, 0, << >>)) \in Items
    /\ \A kind \in {"If", "While"}, child \in Nat, programs \in Seq(Programs) :
          Make(Node(kind, child, 0, programs)) \in Items
<1>1. \A kind \in Kinds, child, id \in Nat, programs \in Seq(Programs) :
         Node(kind, child, id, programs) \in Nodes
  BY DEF Node, Nodes, Programs
<1>2. /\ "Read" \in Kinds /\ "Assign" \in Kinds /\ "Write" \in Kinds /\ "WriteLn" \in Kinds
      /\ "Block" \in Kinds /\ "If" \in Kinds /\ "While" \in Kinds
      /\ 0 \in Nat /\ << >> \in Seq(Programs)
  BY DEF Kinds
<1> QED
  BY <1>1, <1>2, NewItems

LEMMA InfoIds ==
    ASSUME ProgramInv
    PROVE  \A name : VariableIds(name) \subseteq Nat
<1>1. infos \in Seq(VariableInfo)
  BY DEF ProgramInv, ProgramTypeOK
<1> QED
  BY <1>1 DEF VariableIds

LEMMA DueFields ==
    ASSUME ProgramTypeOK, control # << >>
    PROVE  /\ Due \in Items /\ 1 \in DOMAIN control /\ Due = control[1]
           /\ Due.do = "match" => Due.type \in Matched
           /\ Due.do = "make" => Due.made \in Nodes
           /\ Due.do \in {"statements", "link"} => Due.start \in Nat /\ Due.prev \in Nat
           /\ Due.do = "arguments" =>
                 Due.kind \in {"Write", "WriteLn"} /\ Due.programs \in Seq(Programs)
           /\ Due.do = "assign" => Due.id \in Nat
           /\ Due.do \in {"clause", "body", "else"} => Due.program \in Programs
           /\ Due.do = "else" => Due.clause \in Nat
<1>1. control \in Seq(Items)
  BY DEF ProgramTypeOK
<1>2. Due \in Items /\ 1 \in DOMAIN control /\ Due = control[1]
  BY <1>1 DEF Due
<1> QED
  BY <1>2, ItemFields

LEMMA MoreConstantsStep == ASSUME ProgramInv, MoreConstants PROVE ProgramInv'
<1>1. outcome = "compiling" /\ control # << >> /\ Due.do = "constants"
  BY DEF MoreConstants, Doing
<1>2. PICK items : /\ Goto(items)
                   /\ \/ items = <<Do("constant"), Do("constants")>>
                      \/ items = << >>
  BY DEF MoreConstants
<1>3. items \in Seq(Items)
  <2>1. CASE items = <<Do("constant"), Do("constants")>>
    BY <2>1, ItemsMade, Tuples
  <2>2. CASE items = << >>
    BY <2>2
  <2> QED
    BY <1>2, <2>1, <2>2
<1>4. Follow(items)
  BY <1>1, <1>2 DEF Follow, Takes, Returns, ItemOK, Do, MatchToken
<1>5. NoLiteral(items)
  BY <1>2 DEF NoLiteral, Do, MatchToken
<1>6. Plain(items)
  BY <1>1, <1>2 DEF Plain, Held, Open, Takes, Do, MatchToken
<1> QED
  BY <1>1, <1>2, <1>3, <1>4, <1>5, <1>6, PlainKeeps

LEMMA MoreRowsStep == ASSUME ProgramInv, MoreRows PROVE ProgramInv'
<1>1. outcome = "compiling" /\ control # << >> /\ Due.do = "rows"
  BY DEF MoreRows, Doing
<1>2. PICK items : /\ Goto(items)
                   /\ \/ items = <<Do("row"), Do("rows")>>
                      \/ items = << >>
  BY DEF MoreRows
<1>3. items \in Seq(Items)
  <2>1. CASE items = <<Do("row"), Do("rows")>>
    BY <2>1, ItemsMade, Tuples
  <2>2. CASE items = << >>
    BY <2>2
  <2> QED
    BY <1>2, <2>1, <2>2
<1>4. Follow(items)
  BY <1>1, <1>2 DEF Follow, Takes, Returns, ItemOK, Do, MatchToken
<1>5. NoLiteral(items)
  BY <1>2 DEF NoLiteral, Do, MatchToken
<1>6. Plain(items)
  BY <1>1, <1>2 DEF Plain, Held, Open, Takes, Do, MatchToken
<1> QED
  BY <1>1, <1>2, <1>3, <1>4, <1>5, <1>6, PlainKeeps

LEMMA MoreNamesStep == ASSUME ProgramInv, MoreNames PROVE ProgramInv'
<1>1. outcome = "compiling" /\ control # << >> /\ Due.do = "names"
  BY DEF MoreNames, Doing
<1>2. PICK items : /\ Goto(items)
                   /\ \/ items = <<MatchToken("COMMA"), Do("name"), Do("names")>>
                      \/ items = << >>
  BY DEF MoreNames
<1>3. items \in Seq(Items)
  <2>1. CASE items = <<MatchToken("COMMA"), Do("name"), Do("names")>>
    BY <2>1, ItemsMade, Tuples
  <2>2. CASE items = << >>
    BY <2>2
  <2> QED
    BY <1>2, <2>1, <2>2
<1>4. Follow(items)
  BY <1>1, <1>2 DEF Follow, Takes, Returns, ItemOK, Do, MatchToken
<1>5. NoLiteral(items)
  BY <1>2 DEF NoLiteral, Do, MatchToken
<1>6. Plain(items)
  BY <1>1, <1>2 DEF Plain, Held, Open, Takes, Do, MatchToken
<1> QED
  BY <1>1, <1>2, <1>3, <1>4, <1>5, <1>6, PlainKeeps

LEMMA RowRegisteredStep == ASSUME ProgramInv, RowRegistered PROVE ProgramInv'
<1>1. outcome = "compiling" /\ control # << >> /\ Due.do = "register"
  BY DEF RowRegistered, Doing
<1>2. PICK items : Goto(items) /\ items = << >>
  BY DEF RowRegistered
<1>3. items \in Seq(Items)
  BY <1>2
<1>4. Follow(items)
  BY <1>1, <1>2 DEF Follow, Takes, Returns, ItemOK, Do, MatchToken
<1>5. NoLiteral(items)
  BY <1>2 DEF NoLiteral, Do, MatchToken
<1>6. Plain(items)
  BY <1>1, <1>2 DEF Plain, Held, Open, Takes, Do, MatchToken
<1> QED
  BY <1>1, <1>2, <1>3, <1>4, <1>5, <1>6, PlainKeeps

LEMMA CodeBlockStep == ASSUME ProgramInv, CodeBlock PROVE ProgramInv'
<1>1. outcome = "compiling" /\ control # << >> /\ Due.do = "block"
  BY DEF CodeBlock, Doing
<1>2. PICK items : Goto(items) /\ items = <<MatchToken("BEGIN"), Statements(0, 0)>>
  BY DEF CodeBlock
<1>3. items \in Seq(Items)
  BY <1>2, ItemsMade, Tuples, NewItems
<1>4. Follow(items)
  BY <1>1, <1>2 DEF Follow, Takes, Returns, ItemOK, Do, MatchToken, Statements
<1>5. NoLiteral(items)
  BY <1>2 DEF NoLiteral, Do, MatchToken, Statements
<1>6. Plain(items)
  BY <1>1, <1>2 DEF Plain, Held, Open, Takes, Do, MatchToken, Statements
<1> QED
  BY <1>1, <1>2, <1>3, <1>4, <1>5, <1>6, PlainKeeps

LEMMA NestedBlockStep == ASSUME ProgramInv, NestedBlock PROVE ProgramInv'
<1>1. outcome = "compiling" /\ control # << >> /\ Due.do = "statement"
  BY DEF NestedBlock, Doing
<1>2. PICK items : Goto(items) /\ items = <<Do("block")>>
  BY DEF NestedBlock
<1>3. items \in Seq(Items)
  BY <1>2, ItemsMade, Tuples
<1>4. Follow(items)
  BY <1>1, <1>2 DEF Follow, Takes, Returns, ItemOK, Do, MatchToken
<1>5. NoLiteral(items)
  BY <1>2 DEF NoLiteral, Do, MatchToken
<1>6. Plain(items)
  BY <1>1, <1>2 DEF Plain, Held, Open, Takes, Do, MatchToken
<1> QED
  BY <1>1, <1>2, <1>3, <1>4, <1>5, <1>6, PlainKeeps

LEMMA ReadStatementStep == ASSUME ProgramInv, ReadStatement PROVE ProgramInv'
<1>1. outcome = "compiling" /\ control # << >> /\ Due.do = "statement"
  BY DEF ReadStatement, Doing
<1>2. PICK items : Goto(items) /\ items = <<MatchToken("READ"), MatchToken("LPAREN"), Do("read")>>
  BY DEF ReadStatement
<1>3. items \in Seq(Items)
  BY <1>2, ItemsMade, Tuples
<1>4. Follow(items)
  BY <1>1, <1>2 DEF Follow, Takes, Returns, ItemOK, Do, MatchToken
<1>5. NoLiteral(items)
  BY <1>2 DEF NoLiteral, Do, MatchToken
<1>6. Plain(items)
  BY <1>1, <1>2 DEF Plain, Held, Open, Takes, Do, MatchToken
<1> QED
  BY <1>1, <1>2, <1>3, <1>4, <1>5, <1>6, PlainKeeps

LEMMA ReadVariableStep == ASSUME ProgramInv, ReadVariable PROVE ProgramInv'
<1>1. outcome = "compiling" /\ control # << >> /\ Due.do = "read"
  BY DEF ReadVariable, Doing
<1>a. PICK id \in AssignableIds(CurToken.value) :
          Goto(<<MatchToken("ID"), MatchToken("RPAREN"), MatchToken("SEMICOLON"),
                 Make(Node("Read", 0, id, << >>))>>)
  BY DEF ReadVariable
<1>b. Make(Node("Read", 0, id, << >>)) \in Items
  BY InfoIds, NodesMade DEF AssignableIds
<1>2. PICK items :
         /\ Goto(items)
         /\ items = <<MatchToken("ID"), MatchToken("RPAREN"), MatchToken("SEMICOLON"),
                      Make(Node("Read", 0, id, << >>))>>
  BY <1>a DEF ReadVariable
<1>3. items \in Seq(Items)
  BY <1>2, ItemsMade, Tuples, <1>b
<1>4. Follow(items)
  BY <1>1, <1>2 DEF Follow, Takes, Returns, ItemOK, Do, MatchToken, Make, Node
<1>5. NoLiteral(items)
  BY <1>2 DEF NoLiteral, Do, MatchToken, Make, Node
<1>6. Plain(items)
  BY <1>1, <1>2 DEF Plain, Held, Open, Takes, Do, MatchToken, Make, Node
<1> QED
  BY <1>1, <1>2, <1>3, <1>4, <1>5, <1>6, PlainKeeps

LEMMA FirstArgumentStep == ASSUME ProgramInv, FirstArgument PROVE ProgramInv'
<1>1. outcome = "compiling" /\ control # << >> /\ Due.do = "firstArgument"
  BY DEF FirstArgument, Doing
<1>2. PICK items : Goto(items) /\ items = << >>
  BY DEF FirstArgument
<1>3. items \in Seq(Items)
  BY <1>2
<1>4. Follow(items)
  BY <1>1, <1>2 DEF Follow, Takes, Returns, ItemOK, Do, MatchToken
<1>5. NoLiteral(items)
  BY <1>2 DEF NoLiteral, Do, MatchToken
<1>6. Plain(items)
  BY <1>1, <1>2 DEF Plain, Held, Open, Takes, Do, MatchToken
<1> QED
  BY <1>1, <1>2, <1>3, <1>4, <1>5, <1>6, PlainKeeps

LEMMA IfStatementStep == ASSUME ProgramInv, IfStatement PROVE ProgramInv'
<1>1. outcome = "compiling" /\ control # << >> /\ Due.do = "statement"
  BY DEF IfStatement, Doing
<1>2. PICK items :
         /\ Goto(items)
         /\ items = <<MatchToken("IF"), MatchToken("LPAREN"), Do("expression"), Do("if")>>
  BY DEF IfStatement
<1>3. items \in Seq(Items)
  BY <1>2, ItemsMade, Tuples
<1>4. Follow(items)
  BY <1>1, <1>2 DEF Follow, Takes, Returns, ItemOK, Do, MatchToken
<1>5. NoLiteral(items)
  BY <1>2 DEF NoLiteral, Do, MatchToken
<1>6. Plain(items)
  BY <1>1, <1>2 DEF Plain, Held, Open, Takes, Do, MatchToken
<1> QED
  BY <1>1, <1>2, <1>3, <1>4, <1>5, <1>6, PlainKeeps

LEMMA WhileStatementStep == ASSUME ProgramInv, WhileStatement PROVE ProgramInv'
<1>1. outcome = "compiling" /\ control # << >> /\ Due.do = "statement"
  BY DEF WhileStatement, Doing
<1>2. PICK items :
         /\ Goto(items)
         /\ items = <<MatchToken("WHILE"), MatchToken("LPAREN"), Do("expression"), Do("while")>>
  BY DEF WhileStatement
<1>3. items \in Seq(Items)
  BY <1>2, ItemsMade, Tuples
<1>4. Follow(items)
  BY <1>1, <1>2 DEF Follow, Takes, Returns, ItemOK, Do, MatchToken
<1>5. NoLiteral(items)
  BY <1>2 DEF NoLiteral, Do, MatchToken
<1>6. Plain(items)
  BY <1>1, <1>2 DEF Plain, Held, Open, Takes, Do, MatchToken
<1> QED
  BY <1>1, <1>2, <1>3, <1>4, <1>5, <1>6, PlainKeeps

LEMMA IfStep == ASSUME ProgramInv, If PROVE ProgramInv'
<1>1. outcome = "compiling" /\ control # << >> /\ Due.do = "if"
  BY DEF If, Doing
<1>a. PICK program \in Programs : program = opList
  BY DEF ProgramInv, ProgramTypeOK
<1>b. [do |-> "clause", program |-> program] \in Items
  BY DEF Items
<1>2. PICK items :
         /\ Goto(items)
         /\ items = <<MatchToken("RPAREN"), MatchToken("THEN"), Do("statement"),
                    [do |-> "clause", program |-> program]>>
  BY <1>a DEF If
<1>3. items \in Seq(Items)
  BY <1>2, ItemsMade, Tuples, <1>b
<1>4. Follow(items)
  BY <1>1, <1>2 DEF Follow, Takes, Returns, ItemOK, Do, MatchToken
<1>5. NoLiteral(items)
  BY <1>2 DEF NoLiteral, Do, MatchToken
<1>6. Plain(items)
  BY <1>1, <1>2 DEF Plain, Held, Open, Takes, Do, MatchToken
<1> QED
  BY <1>1, <1>2, <1>3, <1>4, <1>5, <1>6, PlainKeeps

LEMMA WhileStep == ASSUME ProgramInv, While PROVE ProgramInv'
<1>1. outcome = "compiling" /\ control # << >> /\ Due.do = "while"
  BY DEF While, Doing
<1>a. PICK program \in Programs : program = opList
  BY DEF ProgramInv, ProgramTypeOK
<1>b. [do |-> "body", program |-> program] \in Items
  BY DEF Items
<1>2. PICK items :
         /\ Goto(items)
         /\ items = <<MatchToken("RPAREN"), MatchToken("DO"), Do("statement"),
                    [do |-> "body", program |-> program]>>
  BY <1>a DEF While
<1>3. items \in Seq(Items)
  BY <1>2, ItemsMade, Tuples, <1>b
<1>4. Follow(items)
  BY <1>1, <1>2 DEF Follow, Takes, Returns, ItemOK, Do, MatchToken
<1>5. NoLiteral(items)
  BY <1>2 DEF NoLiteral, Do, MatchToken
<1>6. Plain(items)
  BY <1>1, <1>2 DEF Plain, Held, Open, Takes, Do, MatchToken
<1> QED
  BY <1>1, <1>2, <1>3, <1>4, <1>5, <1>6, PlainKeeps

LEMMA AssignStatementStep == ASSUME ProgramInv, AssignStatement PROVE ProgramInv'
<1>1. outcome = "compiling" /\ control # << >> /\ Due.do = "statement"
  BY DEF AssignStatement, Doing
<1>a. PICK id \in AssignableIds(CurToken.value) :
          Goto(<<MatchToken("ID"), MatchToken("ASSIGN"), Do("expression"),
                 [do |-> "assign", id |-> id]>>)
  BY DEF AssignStatement
<1>b. [do |-> "assign", id |-> id] \in Items
  BY InfoIds DEF AssignableIds, Items
<1>2. PICK items :
         /\ Goto(items)
         /\ items = <<MatchToken("ID"), MatchToken("ASSIGN"), Do("expression"),
                      [do |-> "assign", id |-> id]>>
  BY <1>a
<1>3. items \in Seq(Items)
  BY <1>2, ItemsMade, Tuples, <1>b
<1>4. Follow(items)
  BY <1>1, <1>2 DEF Follow, Takes, Returns, ItemOK, Do, MatchToken
<1>5. NoLiteral(items)
  BY <1>2 DEF NoLiteral, Do, MatchToken
<1>6. Plain(items)
  BY <1>1, <1>2 DEF Plain, Held, Open, Takes, Do, MatchToken
<1> QED
  BY <1>1, <1>2, <1>3, <1>4, <1>5, <1>6, PlainKeeps

LEMMA AssignStep == ASSUME ProgramInv, Assign PROVE ProgramInv'
<1>1. outcome = "compiling" /\ control # << >> /\ Due.do = "assign"
  BY DEF Assign, Doing
<1>a. PICK program \in Programs : program = opList
  BY DEF ProgramInv, ProgramTypeOK
<1>b. PICK id \in Nat : id = Due.id
  BY <1>1, DueFields DEF ProgramInv
<1>c. Make(Node("Assign", 0, id, <<program>>)) \in Items
  <2>1. <<program>> \in Seq(Programs)
    OBVIOUS
  <2> QED
    BY <2>1, NodesMade
<1>2. PICK items :
         /\ Goto(items)
         /\ items = <<MatchToken("SEMICOLON"), Make(Node("Assign", 0, id, <<program>>))>>
  BY <1>a, <1>b DEF Assign
<1>3. items \in Seq(Items)
  BY <1>2, ItemsMade, Tuples, <1>c
<1>4. Follow(items)
  BY <1>1, <1>2 DEF Follow, Takes, Returns, ItemOK, Do, MatchToken, Make, Node
<1>5. NoLiteral(items)
  BY <1>2 DEF NoLiteral, Do, MatchToken, Make, Node
<1>6. Plain(items)
  BY <1>1, <1>2 DEF Plain, Held, Open, Takes, Do, MatchToken, Make, Node
<1> QED
  BY <1>1, <1>2, <1>3, <1>4, <1>5, <1>6, PlainKeeps

LEMMA WriteStatementStep == ASSUME ProgramInv, WriteStatement PROVE ProgramInv'
<1>1. outcome = "compiling" /\ control # << >> /\ Due.do = "statement"
  BY DEF WriteStatement, Doing
<1>a. PICK type \in {"WRITE", "WRITELN"}, kind \in {"Write", "WriteLn"} :
          Goto(<<MatchToken(type), MatchToken("LPAREN"), Do("firstArgument"),
                 Do("expression"), [do |-> "arguments", kind |-> kind, programs |-> << >>]>>)
  BY DEF WriteStatement, IsToken
<1>b. MatchToken(type) \in Items /\ [do |-> "arguments", kind |-> kind, programs |-> << >>] \in Items
  <2>1. << >> \in Seq(Programs)
    OBVIOUS
  <2> QED
    BY <2>1, ItemsMade DEF Items
<1>2. PICK items :
         /\ Goto(items)
         /\ items = <<MatchToken(type), MatchToken("LPAREN"), Do("firstArgument"), Do("expression"),
              [do |-> "arguments", kind |-> kind, programs |-> << >>]>>
  BY <1>a
<1>3. items \in Seq(Items)
  BY <1>2, ItemsMade, Tuples, <1>b
<1>4. Follow(items)
  BY <1>1, <1>2 DEF Follow, Takes, Returns, ItemOK, Do, MatchToken
<1>5. NoLiteral(items)
  BY <1>2 DEF NoLiteral, Do, MatchToken
<1>6. Plain(items)
  BY <1>1, <1>2 DEF Plain, Held, Open, Takes, Do, MatchToken
<1> QED
  BY <1>1, <1>2, <1>3, <1>4, <1>5, <1>6, PlainKeeps

LEMMA MoreArgumentsStep == ASSUME ProgramInv, MoreArguments PROVE ProgramInv'
<1>1. outcome = "compiling" /\ control # << >> /\ Due.do = "arguments"
  BY DEF MoreArguments, Doing
<1>2. PICK kind \in {"Write", "WriteLn"}, due \in Seq(Programs) :
         Due = [do |-> "arguments", kind |-> kind, programs |-> due]
  BY <1>1, DueFields DEF ProgramInv, Items, Labels
<1>3. PICK programs \in Seq(Programs) : programs = Append(Due.programs, opList)
  <2>1. opList \in Programs
    BY DEF ProgramInv, ProgramTypeOK
  <2>2. Append(due, opList) \in Seq(Programs)
    BY <2>1
  <2> QED
    BY <1>2, <2>2
<1>4. PICK items :
         /\ Goto(items)
         /\ \/ items = <<MatchToken("COMMA"), Do("expression"),
                         [do |-> "arguments", kind |-> kind, programs |-> programs]>>
            \/ items = <<MatchToken("RPAREN"), MatchToken("SEMICOLON"),
                         Make(Node(kind, 0, 0, programs))>>
  BY <1>2, <1>3 DEF MoreArguments
<1>5. items \in Seq(Items)
  <2>1. [do |-> "arguments", kind |-> kind, programs |-> programs] \in Items
    BY DEF Items
  <2>2. Make(Node(kind, 0, 0, programs)) \in Items
    BY NodesMade
  <2>3. CASE items = <<MatchToken("COMMA"), Do("expression"),
                       [do |-> "arguments", kind |-> kind, programs |-> programs]>>
    BY <2>1, <2>3, ItemsMade, Tuples
  <2>4. CASE items = <<MatchToken("RPAREN"), MatchToken("SEMICOLON"),
                       Make(Node(kind, 0, 0, programs))>>
    BY <2>2, <2>4, ItemsMade, Tuples
  <2> QED
    BY <1>4, <2>3, <2>4
<1>6. Follow(items)
  <2>1. CASE items = <<MatchToken("COMMA"), Do("expression"),
                       [do |-> "arguments", kind |-> kind, programs |-> programs]>>
    BY <1>1, <2>1 DEF Follow, Takes, Returns, ItemOK, Do, MatchToken
  <2>2. CASE items = <<MatchToken("RPAREN"), MatchToken("SEMICOLON"),
                       Make(Node(kind, 0, 0, programs))>>
    BY <1>1, <2>2 DEF Follow, Takes, Returns, ItemOK, MatchToken, Make, Node
  <2> QED
    BY <1>4, <2>1, <2>2
<1>7. NoLiteral(items)
  BY <1>4 DEF NoLiteral, Do, MatchToken, Make
<1>8. Plain(items)
  BY <1>1, <1>4 DEF Plain, Held, Open, Takes, Do, MatchToken, Make, Node
<1> QED
  BY <1>1, <1>4, <1>5, <1>6, <1>7, <1>8, PlainKeeps

(* The steps that pass a node on. *)

LEMMA MoreStatementsStep == ASSUME ProgramInv, MoreStatements PROVE ProgramInv'
<1>1. outcome = "compiling" /\ control # << >> /\ Due.do = "statements"
  BY DEF MoreStatements, Doing
<1>2. PICK start \in Nat, prev \in Nat :
         Due = [do |-> "statements", start |-> start, prev |-> prev]
  BY <1>1, DueFields DEF ProgramInv, Items, Labels
<1>3. start = 0 <=> prev = 0
  BY <1>1, <1>2, DueFields DEF ProgramInv, TreeInv, ItemsInv, ItemOK
<1>4. PICK items :
         /\ Goto(items)
         /\ \/ items = <<MatchToken("END"), Make(Node("Block", start, 0, << >>))>>
            \/ items = <<Do("statement"), [do |-> "link", start |-> start, prev |-> prev]>>
  BY <1>2 DEF MoreStatements
<1>5. items \in Seq(Items)
  <2>1. [do |-> "link", start |-> start, prev |-> prev] \in Items
    BY DEF Items
  <2>2. Make(Node("Block", start, 0, << >>)) \in Items
    BY NodesMade
  <2>3. CASE items = <<MatchToken("END"), Make(Node("Block", start, 0, << >>))>>
    BY <2>2, <2>3, ItemsMade, Tuples
  <2>4. CASE items = <<Do("statement"), [do |-> "link", start |-> start, prev |-> prev]>>
    BY <2>1, <2>4, ItemsMade, Tuples
  <2> QED
    BY <1>4, <2>3, <2>4
<1>6. Follow(items)
  BY <1>1, <1>3, <1>4 DEF Follow, Takes, Returns, ItemOK, Do, MatchToken, Make, Node
<1>7. NoLiteral(items)
  BY <1>4 DEF NoLiteral, Do, MatchToken, Make
<1>8. Handed(items, 2)
  <2>1. ~TakesNode /\ Held(Due) = start /\ Open(Due) = prev
    BY <1>2 DEF TakesNode, Takes, Held, Open
  <2> QED
    BY <1>4, <2>1 DEF Handed, Given, Held, Open, Do, MatchToken, Make, Node
<1> QED
  BY <1>1, <1>4, <1>5, <1>6, <1>7, <1>8, GotoKeeps

LEMMA NodeTaken ==
    ASSUME ProgramInv, TakesNode
    PROVE  node \in Nat \ {0} /\ control # << >>
BY DEF ProgramInv, ProgramTypeOK, TreeInv, BoundsInv, TakesNode

LEMMA IfClauseStep == ASSUME ProgramInv, IfClause PROVE ProgramInv'
<1>1. outcome = "compiling" /\ control # << >> /\ Due.do = "clause" /\ TakesNode
  BY DEF IfClause, Doing, TakesNode, Takes
<1>2. PICK program \in Programs : program = Due.program
  BY <1>1, DueFields DEF ProgramInv
<1>3. PICK clause \in Nat \ {0} : clause = node
  BY <1>1, NodeTaken
<1>4. Held(Due) = 0 /\ Open(Due) = 0 /\ Given = clause
  BY <1>1, <1>3 DEF Given, Held, Open
<1>5. CASE IsToken("ELSE")
  <2>1. PICK items :
           /\ Goto(items)
           /\ items = <<MatchToken("ELSE"), Do("statement"),
                        [do |-> "else", program |-> program, clause |-> clause]>>
    BY <1>2, <1>3, <1>5 DEF IfClause
  <2>2. items \in Seq(Items)
    <3>1. [do |-> "else", program |-> program, clause |-> clause] \in Items
      BY DEF Items
    <3> QED
      BY <2>1, <3>1, ItemsMade, Tuples
  <2>3. Follow(items)
    BY <1>1, <2>1 DEF Follow, Takes, Returns, ItemOK, Do, MatchToken
  <2>4. NoLiteral(items)
    BY <2>1 DEF NoLiteral, Do, MatchToken
  <2>5. Handed(items, 3)
    BY <1>1, <1>3, <1>4, <2>1 DEF Handed, Held, Open, Do, MatchToken
  <2> QED
    BY <1>1, <2>1, <2>2, <2>3, <2>4, <2>5, GotoKeeps
<1>6. CASE ~IsToken("ELSE")
  <2>1. PICK items : Goto(items) /\ items = <<Make(Node("If", clause, 0, <<program>>))>>
    BY <1>2, <1>3, <1>6 DEF IfClause, MakeIf
  <2>2. items \in Seq(Items)
    <3>1. <<program>> \in Seq(Programs)
      OBVIOUS
    <3> QED
      BY <2>1, <3>1, NodesMade, Tuples
  <2>3. Follow(items)
    BY <1>1, <2>1 DEF Follow, Takes, Returns, ItemOK, Make, Node
  <2>4. NoLiteral(items)
    BY <2>1 DEF NoLiteral, Make
  <2>5. Handed(items, 1)
    BY <1>1, <1>3, <1>4, <2>1 DEF Handed, Held, Open, Make, Node
  <2> QED
    BY <1>1, <2>1, <2>2, <2>3, <2>4, <2>5, GotoKeeps
<1> QED
  BY <1>5, <1>6

LEMMA LoopBodyStep == ASSUME ProgramInv, LoopBody PROVE ProgramInv'
<1>1. outcome = "compiling" /\ control # << >> /\ Due.do = "body" /\ TakesNode
  BY DEF LoopBody, Doing, TakesNode, Takes
<1>2. PICK program \in Programs : program = Due.program
  BY <1>1, DueFields DEF ProgramInv
<1>3. PICK child \in Nat \ {0} : child = node
  BY <1>1, NodeTaken
<1>4. PICK items : Goto(items) /\ items = <<Make(Node("While", child, 0, <<program>>))>>
  BY <1>2, <1>3 DEF LoopBody
<1>5. items \in Seq(Items)
  <2>1. <<program>> \in Seq(Programs)
    OBVIOUS
  <2> QED
    BY <1>4, <2>1, NodesMade, Tuples
<1>6. Follow(items)
  BY <1>1, <1>4 DEF Follow, Takes, Returns, ItemOK, Make, Node
<1>7. NoLiteral(items)
  BY <1>4 DEF NoLiteral, Make
<1>8. Handed(items, 1)
  <2>1. Held(Due) = 0 /\ Open(Due) = 0 /\ Given = child
    BY <1>1, <1>3 DEF Given, Held, Open
  <2> QED
    BY <1>1, <1>3, <1>4, <2>1 DEF Handed, Held, Open, Make, Node
<1> QED
  BY <1>1, <1>4, <1>5, <1>6, <1>7, <1>8, GotoKeeps

(* A node is attached to another.                                          *)
LEMMA NodesKept ==
    ASSUME ProgramInv, outcome = "compiling", control # << >>,
           Due.do \notin {"match", "type", "expression"},
           NEW o \in Nat, o = Open(Due), o # 0, NEW n \in Nat, nodes' = [nodes EXCEPT ![o].next = n],
           NEW items \in Seq(Items), Continue(items), NoLiteral(items), TreeInv',
           UNCHANGED <<source, position, names, node, root, outcome, infos, opList, pc>>
    PROVE  ProgramInv'
<1>1. control' \in Seq(Items)
  BY AfterDue DEF ProgramInv, ProgramTypeOK
<1>2. o \in DOMAIN nodes
  <2>1. 1 \in DOMAIN control /\ Due = control[1]
    BY DueFields DEF ProgramInv
  <2>2. o <= Len(nodes)
    BY <2>1 DEF ProgramInv, TreeInv, BoundsInv
  <2>3. Len(nodes) \in Nat /\ DOMAIN nodes = 1..Len(nodes)
    BY NodeFields DEF ProgramInv
  <2> QED
    BY <2>2, <2>3
<1>3. nodes' \in Seq(Nodes)
  <2>1. nodes \in Seq(Nodes) /\ nodes[o] \in Nodes
    BY <1>2, NodeFields DEF ProgramInv
  <2>2. [nodes[o] EXCEPT !.next = n] \in Nodes
    BY <2>1 DEF Nodes
  <2> QED
    BY <1>2, <2>1, <2>2
<1>4. ProgramTypeOK'
  BY <1>1, <1>3 DEF ProgramInv, ProgramTypeOK
<1>5. ExpressionInv'
  BY DEF ProgramInv, ExpressionInv
<1>6. ConstantInv'
  BY NoMoreLiterals DEF ProgramInv
<1> QED
  BY <1>4, <1>5, <1>6 DEF ProgramInv

LEMMA LinkStep == ASSUME ProgramInv, Link PROVE ProgramInv'
<1>1. outcome = "compiling" /\ control # << >> /\ Due.do = "link" /\ TakesNode
  BY DEF Link, Doing, TakesNode, Takes
<1>2. PICK start \in Nat, prev \in Nat : start = Due.start /\ prev = Due.prev
  BY <1>1, DueFields DEF ProgramInv
<1>3. (start = 0 <=> prev = 0) /\ Held(Due) = start /\ Open(Due) = prev
  BY <1>1, <1>2, DueFields DEF ProgramInv, TreeInv, ItemsInv, ItemOK, Held, Open
<1>4. PICK n \in Nat \ {0} : n = node
  BY <1>1, NodeTaken
<1>5. CASE start = 0
  <2>1. PICK items : Goto(items) /\ items = <<Statements(n, n)>>
    BY <1>2, <1>4, <1>5 DEF Link, Goto
  <2>2. items \in Seq(Items)
    BY <1>4, <2>1, NewItems, Tuples
  <2>3. Follow(items)
    BY <1>1, <2>1 DEF Follow, Takes, Returns, ItemOK, Statements
  <2>4. NoLiteral(items)
    BY <2>1 DEF NoLiteral, Statements
  <2>5. Handed(items, 1)
    BY <1>1, <1>3, <1>4, <1>5, <2>1 DEF Handed, Given, Held, Open, Statements
  <2> QED
    BY <1>1, <2>1, <2>2, <2>3, <2>4, <2>5, GotoKeeps
<1>6. CASE start # 0
  <2>1. PICK item \in Items : item = Statements(start, n)
    BY <1>4, NewItems
  <2>2. /\ nodes' = [nodes EXCEPT ![prev].next = n] /\ Continue(<<item>>) /\ <<item>> \in Seq(Items)
        /\ UNCHANGED <<source, position, names, node, root, outcome, infos, opList, pc>>
    BY <1>2, <1>4, <1>6, <2>1 DEF Link, vars
  <2>3. Follow(<<item>>)
    BY <1>1, <1>4, <1>6, <2>1 DEF Follow, Takes, Returns, ItemOK, Statements
  <2>4. Held(item) = start /\ Open(item) = n
    BY <2>1 DEF Held, Open, Statements
  <2>5. TreeInv'
    BY <1>1, <1>3, <1>4, <1>6, <2>2, <2>3, <2>4, TreeAttached DEF ProgramInv
  <2>6. NoLiteral(<<item>>)
    BY <2>1 DEF NoLiteral, Statements
  <2> QED
    BY <1>1, <1>3, <1>4, <1>6, <2>2, <2>5, <2>6, NodesKept
<1> QED
  BY <1>5, <1>6

LEMMA ElseClauseStep == ASSUME ProgramInv, ElseClause PROVE ProgramInv'
<1>1. outcome = "compiling" /\ control # << >> /\ Due.do = "else" /\ TakesNode
  BY DEF ElseClause, Doing, TakesNode, Takes
<1>2. PICK program \in Programs, clause \in Nat : program = Due.program /\ clause = Due.clause
  BY <1>1, DueFields DEF ProgramInv
<1>3. clause # 0 /\ Held(Due) = clause /\ Open(Due) = clause
  BY <1>1, <1>2, DueFields DEF ProgramInv, TreeInv, ItemsInv, ItemOK, Held, Open
<1>4. PICK n \in Nat \ {0} : n = node
  BY <1>1, NodeTaken
<1>5. PICK item \in Items : item = Make(Node("If", clause, 0, <<program>>))
  <2>1. <<program>> \in Seq(Programs)
    OBVIOUS
  <2> QED
    BY <2>1, NodesMade
<1>6. /\ nodes' = [nodes EXCEPT ![clause].next = n] /\ Continue(<<item>>) /\ <<item>> \in Seq(Items)
      /\ UNCHANGED <<source, position, names, node, root, outcome, infos, opList, pc>>
  BY <1>2, <1>4, <1>5 DEF ElseClause, MakeIf, vars
<1>7. Follow(<<item>>)
  BY <1>1, <1>3, <1>5 DEF Follow, Takes, Returns, ItemOK, Make, Node
<1>8. Held(item) = clause /\ Open(item) = 0
  BY <1>5 DEF Held, Open, Make, Node
<1>9. TreeInv'
  BY <1>1, <1>3, <1>4, <1>6, <1>7, <1>8, TreeAttached DEF ProgramInv
<1>10. NoLiteral(<<item>>)
  BY <1>5 DEF NoLiteral, Make
<1> QED
  BY <1>1, <1>3, <1>4, <1>6, <1>9, <1>10, NodesKept

LEMMA MakeNodeStep == ASSUME ProgramInv, MakeNode PROVE ProgramInv'
<1>1. /\ outcome = "compiling" /\ control # << >> /\ Due.do = "make" /\ Continue(<< >>)
      /\ nodes' = Append(nodes, Due.made) /\ node' = Len(nodes) + 1
      /\ UNCHANGED <<source, position, names, root, outcome, infos, opList, pc>>
      /\ << >> \in Seq(Items)
  BY DEF MakeNode, Doing, vars
<1>2. control' \in Seq(Items)
  BY <1>1, AfterDue DEF ProgramInv, ProgramTypeOK
<1>3. nodes' \in Seq(Nodes) /\ node' \in Nat
  <2>1. nodes \in Seq(Nodes) /\ Len(nodes) \in Nat /\ Due.made \in Nodes
    BY <1>1, NodeFields, DueFields DEF ProgramInv
  <2> QED
    BY <1>1, <2>1
<1>4. ProgramTypeOK'
  BY <1>1, <1>2, <1>3 DEF ProgramInv, ProgramTypeOK
<1>5. ExpressionInv'
  BY <1>1 DEF ProgramInv, ExpressionInv
<1>6. ConstantInv'
  <2>1. NoLiteral(<< >>)
    BY DEF NoLiteral
  <2> QED
    BY <1>1, <2>1, NoMoreLiterals DEF ProgramInv
<1>7. TreeInv'
  BY <1>1, TreeGrows DEF ProgramInv
<1> QED
  BY <1>4, <1>5, <1>6, <1>7 DEF ProgramInv

LEMMA SetRootStep == ASSUME ProgramInv, SetRoot PROVE ProgramInv'
<1>1. /\ outcome = "compiling" /\ control # << >> /\ Due.do = "root" /\ Continue(<< >>)
      /\ root' = node /\ TakesNode
      /\ UNCHANGED <<source, position, names, nodes, node, outcome, infos, opList, pc>>
      /\ << >> \in Seq(Items)
  BY DEF SetRoot, Doing, vars, TakesNode, Takes
<1>2. control' \in Seq(Items)
  BY <1>1, AfterDue DEF ProgramInv, ProgramTypeOK
<1>3. ProgramTypeOK'
  BY <1>1, <1>2 DEF ProgramInv, ProgramTypeOK
<1>4. ExpressionInv'
  BY <1>1 DEF ProgramInv, ExpressionInv
<1>5. ConstantInv'
  <2>1. NoLiteral(<< >>)
    BY DEF NoLiteral
  <2> QED
    BY <1>1, <2>1, NoMoreLiterals DEF ProgramInv
<1>6. TreeInv'
  BY <1>1, TreeRooted DEF ProgramInv
<1> QED
  BY <1>3, <1>4, <1>5, <1>6 DEF ProgramInv

(* The steps that read tokens and declare variables. *)

LEMMA PlainMoves ==
    ASSUME ProgramInv, control # << >>, NEW items \in Seq(Items), Continue(items),
           Follow(items), Plain(items), UNCHANGED <<nodes, node, root>>
    PROVE  TreeInv' /\ control' \in Seq(Items)
<1>1. Handed(items, 0)
  BY DEF Handed, Given, TakesNode, Plain
<1>2. TreeInv'
  BY <1>1, TreeMoves DEF ProgramInv
<1>3. control' \in Seq(Items)
  BY AfterDue DEF ProgramInv, ProgramTypeOK
<1> QED
  BY <1>2, <1>3

LEMMA CurTokenType ==
    ASSUME ProgramInv
    PROVE  CurToken \in Tokens /\ CurToken.type \in TokenTypes /\ CurToken.value \in Lexemes
<1>1. source \in Seq(Tokens) /\ position \in DOMAIN source
  BY DEF ProgramInv, ProgramTypeOK
<1>2. CurToken \in Tokens
  BY <1>1 DEF CurToken
<1> QED
  BY <1>2 DEF Tokens

LEMMA MatchStep == ASSUME ProgramInv, Match PROVE ProgramInv'
<1>1. /\ outcome = "compiling" /\ control # << >> /\ Due.do = "match" /\ Continue(<< >>)
      /\ IsToken(Due.type) /\ position' = position + 1
      /\ UNCHANGED <<source, names, nodes, node, root, outcome, infos, opList, pc>>
      /\ << >> \in Seq(Items)
  BY DEF Match, Doing, vars
<1>2. TreeInv' /\ control' \in Seq(Items)
  <2>1. Follow(<< >>) /\ Plain(<< >>)
    BY <1>1 DEF Follow, Plain, Takes, Returns, Held
  <2> QED
    BY <1>1, <2>1, PlainMoves
<1>3. position' \in DOMAIN source
  <2>1. source[position].type # "ENDOFFILE"
    BY <1>1, DueFields DEF ProgramInv, IsToken, CurToken, Matched
  <2>2. source \in Seq(Tokens) /\ position \in DOMAIN source /\ Last(source).type = "ENDOFFILE"
    BY DEF ProgramInv, ProgramTypeOK
  <2>3. DOMAIN source = 1..Len(source) /\ Len(source) \in Nat /\ Last(source) = source[Len(source)]
    BY <2>2 DEF Last
  <2> QED
    BY <1>1, <2>1, <2>2, <2>3
<1>4. ProgramTypeOK'
  BY <1>1, <1>2, <1>3 DEF ProgramInv, ProgramTypeOK
<1>5. ExpressionInv'
  BY <1>1 DEF ProgramInv, ExpressionInv
<1>6. ConstantInv'
  <2>1. Len(<< >>) = 0
    OBVIOUS
  <2>2. /\ Len(control) \in Nat /\ DOMAIN control = 1..Len(control)
        /\ \A i \in DOMAIN control' : i > Len(<< >>) =>
              control'[i] = control[i - Len(<< >>) + 1] /\ i - Len(<< >>) + 1 \in 2..Len(control)
        /\ DOMAIN control' = 1..(Len(<< >>) + Len(control) - 1)
    BY <1>1, AfterDue DEF ProgramInv, ProgramTypeOK
  <2>3. \A i \in DOMAIN control' : control'[i] = control[i + 1] /\ i + 1 \in DOMAIN control
    BY <2>1, <2>2
  <2>4. \A i \in DOMAIN control' : \A j \in 1..(i - 1) :
           j \in DOMAIN control' /\ j + 1 \in 1..(i + 1 - 1)
    BY <2>2
  <2>5. VariableIds(names[1])' = VariableIds(names[1])
    BY <1>1 DEF VariableIds
  <2>6. ASSUME NEW i \in DOMAIN control', control'[i].do = "literal"
        PROVE  /\ names # << >> /\ VariableIds(names[1]) = {}
               /\ \A j \in 1..(i - 1) : control'[j].do \in {"match", "type"}
    <3>1. PICK c \in DOMAIN control : c = i + 1 /\ control[c].do = "literal"
      BY <2>3, <2>6
    <3>2. /\ names # << >> /\ VariableIds(names[1]) = {}
          /\ \A j \in 1..(c - 1) : control[j].do \in {"match", "type"}
      BY <3>1 DEF ProgramInv, ConstantInv
    <3>3. \A j \in 1..(i - 1) : /\ control'[j] = control[j + 1]
                               /\ j + 1 \in 1..(c - 1)
      <4> TAKE j \in 1..(i - 1)
      <4>1. j + 1 \in 1..(c - 1)
        BY <2>2, <3>1
      <4> QED
        BY <2>3, <2>4, <4>1
    <3> QED
      BY <3>2, <3>3
  <2> QED
    BY <1>1, <2>5, <2>6 DEF ConstantInv
<1> QED
  BY <1>2, <1>4, <1>5, <1>6 DEF ProgramInv

LEMMA TypeOfRowStep == ASSUME ProgramInv, TypeOfRow PROVE ProgramInv'
<1>1. /\ outcome = "compiling" /\ control # << >> /\ Due.do = "type"
      /\ UNCHANGED <<source, position, names, nodes, node, root, outcome, infos, opList, pc>>
  BY DEF TypeOfRow, Doing, vars
<1>2. PICK items \in Seq(Items) : Continue(items) /\ items = <<MatchToken("ID")>>
  BY ItemsMade, Tuples DEF TypeOfRow
<1>3. TreeInv' /\ control' \in Seq(Items)
  <2>1. Follow(items)
    BY <1>1, <1>2 DEF Follow, Takes, Returns, ItemOK, MatchToken
  <2>2. Plain(items)
    BY <1>1, <1>2 DEF Plain, Takes, Held, Open, MatchToken
  <2> QED
    BY <1>1, <1>2, <2>1, <2>2, PlainMoves
<1>4. ProgramTypeOK'
  BY <1>1, <1>3 DEF ProgramInv, ProgramTypeOK
<1>5. ExpressionInv'
  BY <1>1 DEF ProgramInv, ExpressionInv
<1>6. ConstantInv'
  <2>1. Len(items) = 1 /\ items[1].do = "match"
    BY <1>2 DEF MatchToken
  <2>2. /\ Len(control) \in Nat /\ DOMAIN control = 1..Len(control)
        /\ \A i \in 1..Len(items) : control'[i] = items[i]
        /\ \A i \in DOMAIN control' : i > Len(items) =>
              control'[i] = control[i - Len(items) + 1] /\ i - Len(items) + 1 \in 2..Len(control)
        /\ DOMAIN control' = 1..(Len(items) + Len(control) - 1)
    BY <1>1, <1>2, AfterDue DEF ProgramInv, ProgramTypeOK
  <2>3. /\ DOMAIN control' = DOMAIN control /\ control'[1].do = "match"
        /\ \A i \in DOMAIN control : i > 1 => control'[i] = control[i]
    BY <2>1, <2>2
  <2>4. VariableIds(names[1])' = VariableIds(names[1])
    BY <1>1 DEF VariableIds
  <2>5. ASSUME NEW i \in DOMAIN control', control'[i].do = "literal"
        PROVE  /\ names # << >> /\ VariableIds(names[1]) = {}
               /\ \A j \in 1..(i - 1) : control'[j].do \in {"match", "type"}
    <3>1. i > 1 /\ control[i].do = "literal" /\ i \in DOMAIN control
      BY <2>2, <2>3, <2>5
    <3>2. /\ names # << >> /\ VariableIds(names[1]) = {}
          /\ \A j \in 1..(i - 1) : control[j].do \in {"match", "type"}
      BY <3>1 DEF ProgramInv, ConstantInv
    <3> QED
      BY <2>2, <2>3, <3>1, <3>2
  <2> QED
    BY <1>1, <2>4, <2>5 DEF ConstantInv
<1> QED
  BY <1>3, <1>4, <1>5, <1>6 DEF ProgramInv

LEMMA ConstantsRowStep == ASSUME ProgramInv, ConstantsRow PROVE ProgramInv'
<1>1. /\ outcome = "compiling" /\ control # << >> /\ Due.do = "constant"
      /\ UNCHANGED <<source, position, nodes, node, root, outcome, infos, opList, pc>>
      /\ names' = <<CurToken.value>> /\ VariableIds(CurToken.value) = {}
  BY DEF ConstantsRow, Doing, vars, IsFreeName
<1>2. PICK items \in Seq(Items) :
         /\ Continue(items)
         /\ items = <<MatchToken("ID"), MatchToken("COLON"), Do("type"), MatchToken("EQUAL"),
                      Do("literal"), MatchToken("SEMICOLON")>>
  BY ItemsMade, Tuples DEF ConstantsRow
<1>3. TreeInv' /\ control' \in Seq(Items)
  <2>1. Follow(items)
    BY <1>1, <1>2 DEF Follow, Takes, Returns, ItemOK, MatchToken, Do
  <2>2. Plain(items)
    BY <1>1, <1>2 DEF Plain, Takes, Held, Open, MatchToken, Do
  <2> QED
    BY <1>1, <1>2, <2>1, <2>2, PlainMoves
<1>4. names' \in Seq(Lexemes) /\ names' # << >> /\ names'[1] = CurToken.value
  BY <1>1, CurTokenType
<1>5. ProgramTypeOK'
  BY <1>1, <1>3, <1>4 DEF ProgramInv, ProgramTypeOK
<1>6. ExpressionInv'
  BY <1>1 DEF ProgramInv, ExpressionInv
<1>7. ConstantInv'
  <2>1. /\ Len(items) = 6 /\ \A i \in 1..4 : items[i].do \in {"match", "type"}
        /\ items[6].do # "literal"
    BY <1>2 DEF MatchToken, Do
  <2>2. /\ Len(control) \in Nat /\ DOMAIN control = 1..Len(control) /\ Due = control[1]
        /\ \A i \in 1..Len(items) : control'[i] = items[i]
        /\ \A i \in DOMAIN control' : i > Len(items) =>
              control'[i] = control[i - Len(items) + 1] /\ i - Len(items) + 1 \in 2..Len(control)
        /\ DOMAIN control' = 1..(Len(items) + Len(control) - 1)
    BY <1>1, <1>2, AfterDue DEF ProgramInv, ProgramTypeOK
  <2>3. ASSUME NEW c \in 2..Len(control), control[c].do = "literal" PROVE FALSE
    <3>1. c \in DOMAIN control /\ 1 \in 1..(c - 1)
      BY <2>2
    <3> QED
      BY <1>1, <2>2, <2>3, <3>1 DEF ProgramInv, ConstantInv
  <2>4. ASSUME NEW i \in DOMAIN control', control'[i].do = "literal"
        PROVE  \A j \in 1..(i - 1) : control'[j].do \in {"match", "type"}
    <3>1. i \in 1..6
      BY <2>1, <2>2, <2>3, <2>4
    <3>2. i # 6
      BY <2>1, <2>2, <2>4
    <3> QED
      BY <2>1, <2>2, <3>1, <3>2
  <2>5. VariableIds(names[1])' = {}
    BY <1>1, <1>4 DEF VariableIds
  <2> QED
    BY <1>4, <2>4, <2>5 DEF ConstantInv
<1> QED
  BY <1>3, <1>5, <1>6, <1>7 DEF ProgramInv

LEMMA VariablesRowStep == ASSUME ProgramInv, VariablesRow PROVE ProgramInv'
<1>1. /\ outcome = "compiling" /\ control # << >> /\ Due.do = "row"
      /\ UNCHANGED <<source, position, nodes, node, root, outcome, infos, opList, pc>>
      /\ names' = << >>
  BY DEF VariablesRow, Doing, vars
<1>2. PICK items \in Seq(Items) :
         /\ Continue(items)
         /\ items = <<Do("name"), Do("names"), MatchToken("COLON"), Do("type"),
                      MatchToken("SEMICOLON"), Do("register")>>
  BY ItemsMade, Tuples DEF VariablesRow
<1>3. TreeInv' /\ control' \in Seq(Items)
  <2>1. Follow(items)
    BY <1>1, <1>2 DEF Follow, Takes, Returns, ItemOK, MatchToken, Do
  <2>2. Plain(items)
    BY <1>1, <1>2 DEF Plain, Takes, Held, Open, MatchToken, Do
  <2> QED
    BY <1>1, <1>2, <2>1, <2>2, PlainMoves
<1>4. ProgramTypeOK'
  BY <1>1, <1>3 DEF ProgramInv, ProgramTypeOK
<1>5. ExpressionInv'
  BY <1>1 DEF ProgramInv, ExpressionInv
<1>6. ConstantInv'
  <2>1. NoLiteral(items)
    BY <1>2 DEF NoLiteral, MatchToken, Do
  <2> QED
    BY <1>1, <1>2, <2>1, NoMoreLiterals DEF ProgramInv
<1> QED
  BY <1>3, <1>4, <1>5, <1>6 DEF ProgramInv

LEMMA NameStep == ASSUME ProgramInv, Name PROVE ProgramInv'
<1>1. /\ outcome = "compiling" /\ control # << >> /\ Due.do = "name"
      /\ UNCHANGED <<source, position, nodes, node, root, outcome, infos, opList, pc>>
      /\ names' = Append(names, CurToken.value)
  BY DEF Name, Doing, vars
<1>2. PICK items \in Seq(Items) : Continue(items) /\ items = <<MatchToken("ID")>>
  BY ItemsMade, Tuples DEF Name
<1>3. TreeInv' /\ control' \in Seq(Items)
  <2>1. Follow(items)
    BY <1>1, <1>2 DEF Follow, Takes, Returns, ItemOK, MatchToken
  <2>2. Plain(items)
    BY <1>1, <1>2 DEF Plain, Takes, Held, Open, MatchToken
  <2> QED
    BY <1>1, <1>2, <2>1, <2>2, PlainMoves
<1>4. names' \in Seq(Lexemes)
  <2>1. names \in Seq(Lexemes) /\ CurToken.value \in Lexemes
    BY CurTokenType DEF ProgramInv, ProgramTypeOK
  <2> QED
    BY <1>1, <2>1
<1>5. ProgramTypeOK'
  BY <1>1, <1>3, <1>4 DEF ProgramInv, ProgramTypeOK
<1>6. ExpressionInv'
  BY <1>1 DEF ProgramInv, ExpressionInv
<1>7. ConstantInv'
  <2>1. NoLiteral(items)
    BY <1>2 DEF NoLiteral, MatchToken
  <2> QED
    BY <1>1, <1>2, <2>1, NoMoreLiterals DEF ProgramInv
<1> QED
  BY <1>3, <1>5, <1>6, <1>7 DEF ProgramInv

LEMMA ConstantStep == ASSUME ProgramInv, Constant PROVE ProgramInv'
<1>1. /\ outcome = "compiling" /\ control # << >> /\ Due.do = "literal"
      /\ UNCHANGED <<source, position, names, nodes, node, root>>
      /\ IsLiteralOf(typeName) /\ CurToken.type \in {"INT", "FLOAT", "STRING", "TRUE", "FALSE"}
  BY DEF Constant, Doing, IsLiteralOf, LiteralType
<1>2. names # << >> /\ VariableIds(names[1]) = {}
  <2>1. 1 \in DOMAIN control /\ Due = control[1]
    BY <1>1, DueFields DEF ProgramInv
  <2> QED
    BY <1>1, <2>1 DEF ProgramInv, ConstantInv
<1> DEFINE info == [name |-> names[1], type |-> typeName, isConstant |-> TRUE, value |-> CurToken.value]
<1>3. infos' = Append(infos, info) /\ UNCHANGED <<outcome, opList, pc>>
  BY <1>2 DEF Constant, Register
<1>4. info \in VariableInfo
  <2>1. names[1] \in Lexemes /\ CurToken.value \in Lexemes
    <3>1. names \in Seq(Lexemes)
      BY DEF ProgramInv, ProgramTypeOK
    <3> QED
      BY <1>2, <3>1, CurTokenType
  <2>2. typeName \in DataTypes
    BY <1>1, ContextAssumption DEF IsLiteralOf, LiteralType
  <2> QED
    BY <2>1, <2>2 DEF VariableInfo
<1> HIDE DEF info
<1>5. infos' \in Seq(VariableInfo)
  <2>1. infos \in Seq(VariableInfo)
    BY DEF ProgramInv, ProgramTypeOK
  <2> QED
    BY <1>3, <1>4, <2>1
<1>6. PICK type \in Matched : Continue(<<MatchToken(type)>>)
  <2>1. CurToken.type \in Matched
    BY <1>1 DEF Matched, TokenTypes, ValueTokens
  <2> QED
    BY <2>1 DEF Constant
<1>7. PICK items \in Seq(Items) : Continue(items) /\ items = <<MatchToken(type)>>
  BY <1>6, NewItems, Tuples
<1>8. TreeInv' /\ control' \in Seq(Items)
  <2>1. Follow(items)
    BY <1>1, <1>7 DEF Follow, Takes, Returns, ItemOK, MatchToken
  <2>2. Plain(items)
    BY <1>1, <1>7 DEF Plain, Takes, Held, Open, MatchToken
  <2> QED
    BY <1>1, <1>7, <2>1, <2>2, PlainMoves
<1>9. ProgramTypeOK'
  BY <1>1, <1>3, <1>5, <1>8 DEF ProgramInv, ProgramTypeOK
<1>10. ExpressionInv'
  BY <1>1, <1>3 DEF ProgramInv, ExpressionInv
<1>11. ConstantInv'
  <2>1. NoLiteral(items)
    BY <1>7 DEF NoLiteral, MatchToken
  <2> QED
    BY <1>1, <1>7, <2>1, NoMoreLiterals DEF ProgramInv
<1> QED
  BY <1>8, <1>9, <1>10, <1>11 DEF ProgramInv

LEMMA NoLiteralsHere ==
    ASSUME ProgramInv, control # << >>, Due.do \notin {"match", "type", "literal"}, control' = control
    PROVE  ConstantInv'
<1>1. /\ 1 \in DOMAIN control /\ Due = control[1]
      /\ Len(control) \in Nat /\ DOMAIN control = 1..Len(control)
  BY DueFields, ControlFields DEF ProgramInv
<1>2. ASSUME NEW c \in DOMAIN control, control[c].do = "literal" PROVE FALSE
  <2>1. CASE c = 1
    BY <1>1, <1>2, <2>1
  <2>2. CASE c # 1
    <3>1. 1 \in 1..(c - 1)
      BY <1>1, <2>2
    <3> QED
      BY <1>1, <1>2, <3>1 DEF ProgramInv, ConstantInv
  <2> QED
    BY <2>1, <2>2
<1> QED
  BY <1>2 DEF ConstantInv

LEMMA VariableStep == ASSUME ProgramInv, Variable PROVE ProgramInv'
<1>1. /\ outcome = "compiling" /\ control # << >> /\ Due.do = "register" /\ names # << >>
      /\ VariableIds(names[1]) = {} /\ typeName \in {"integer", "double", "boolean", "string"}
      /\ names' = Tail(names)
      /\ UNCHANGED <<source, position, control, nodes, node, root>>
  BY DEF Variable, Doing, IsFreeName
<1> DEFINE info == [name |-> names[1], type |-> typeName, isConstant |-> FALSE, value |-> ""]
<1>2. infos' = Append(infos, info) /\ UNCHANGED <<outcome, opList, pc>>
  BY <1>1 DEF Variable, Register
<1>3. info \in VariableInfo
  <2>1. names[1] \in Lexemes /\ "" \in Lexemes
    <3>1. names \in Seq(Lexemes)
      BY DEF ProgramInv, ProgramTypeOK
    <3> QED
      <4>1. names[1] \in Lexemes
        BY <1>1, <3>1
      <4>2. "" \in Lexemes
        BY DEF Lexemes
      <4> QED
        BY <4>1, <4>2
  <2>2. typeName \in DataTypes
    BY <1>1, ContextAssumption
  <2> QED
    BY <2>1, <2>2 DEF VariableInfo
<1> HIDE DEF info
<1>4. infos' \in Seq(VariableInfo)
  <2>1. infos \in Seq(VariableInfo)
    BY DEF ProgramInv, ProgramTypeOK
  <2> QED
    BY <1>2, <1>3, <2>1
<1>5. names' \in Seq(Lexemes)
  <2>1. names \in Seq(Lexemes)
    BY DEF ProgramInv, ProgramTypeOK
  <2> QED
    BY <1>1, <2>1
<1>6. ProgramTypeOK'
  BY <1>1, <1>2, <1>4, <1>5 DEF ProgramInv, ProgramTypeOK
<1>7. ExpressionInv'
  BY <1>1, <1>2 DEF ProgramInv, ExpressionInv
<1>8. ConstantInv'
  BY <1>1, NoLiteralsHere
<1>9. TreeInv'
  BY <1>1, TreeUnchanged DEF ProgramInv
<1> QED
  BY <1>6, <1>7, <1>8, <1>9 DEF ProgramInv
-----------------------------------------------------------------------------
(* Expressions. *)

LEMMA Least ==
    ASSUME NEW S \in SUBSET Nat, S # {}
    PROVE  Min(S) \in S /\ \A y \in S : Min(S) <= y
<1> DEFINE R == OpToRel(<, Nat)
<1>1. IsWellFoundedOn(R, Nat)
  BY NatLessThanWellFounded
<1>2. \A x, y \in Nat : <<y, x>> \in R <=> y < x
  BY DEF OpToRel
<1> HIDE DEF R
<1>3. \E x \in S : \A y \in S : ~(<<y, x>> \in R)
  BY <1>1, WFMin
<1>4. PICK x \in S : \A y \in S : ~(<<y, x>> \in R)
  BY <1>3
<1>5. \A y \in S : ~(y < x)
  BY <1>2, <1>4
<1>6. \A y \in S : x <= y
  BY <1>5
<1> QED
  BY <1>6 DEF Min

LEMMA ClosingTokenFound ==
    ASSUME ProgramInv
    PROVE  FindClosingTokenPosition \in DOMAIN source /\ FindClosingTokenPosition >= position
<1>1. /\ source \in Seq(Tokens) /\ source # << >> /\ Last(source).type = "ENDOFFILE"
      /\ position \in DOMAIN source
  BY DEF ProgramInv, ProgramTypeOK
<1>2. /\ Len(source) \in Nat /\ DOMAIN source = 1..Len(source) /\ position \in 1..Len(source)
      /\ source[Len(source)].type = "ENDOFFILE"
  BY <1>1 DEF Last
<1> DEFINE S == {p \in position..Len(source) : ClosesExpression(p)}
           T == S \cup {Len(source) + 1}
<1>3. Len(source) \in S
  BY <1>2 DEF ClosesExpression
<1>4. T \in SUBSET Nat /\ T # {}
  BY <1>2
<1>5. \A p \in S : p \in position..Len(source)
  OBVIOUS
<1> HIDE DEF S
<1>6. Min(T) \in T /\ \A y \in T : Min(T) <= y
  BY <1>4, Least
<1>7. Min(T) <= Len(source) /\ Min(T) \in T
  BY <1>3, <1>6
<1>8. Min(T) \in S
  BY <1>2, <1>7
<1> QED
  BY <1>2, <1>5, <1>8 DEF FindClosingTokenPosition, S

LEMMA BeginExpressionStep == ASSUME ProgramInv, BeginExpression PROVE ProgramInv'
<1>1. /\ outcome = "compiling" /\ control # << >> /\ Due.do = "expression"
      /\ UNCHANGED <<source, position, control, names, nodes, node, root, outcome, infos>>
  BY DEF BeginExpression, Doing, programVars
<1>2. Fresh'
  <2>1. /\ source \in Seq(Tokens) /\ Len(source) \in Nat /\ DOMAIN source = 1..Len(source)
        /\ position \in 1..Len(source)
    <3>1. source \in Seq(Tokens) /\ position \in DOMAIN source
      BY DEF ProgramInv, ProgramTypeOK
    <3> QED
      BY <3>1
  <2>2. PICK f \in 1..Len(source) : f = FindClosingTokenPosition /\ f >= position
    BY <2>1, ClosingTokenFound
  <2>3. PICK e \in Tokens : e = [type |-> "ENDOFFILE", value |-> ""]
    BY DEF Tokens, TokenTypes, Lexemes
  <2>4. PICK s \in Seq(Tokens) : s = SubSeq(source, position, f - 1)
    <3>1. position \in Int /\ f - 1 \in Int /\ \A k \in position..(f - 1) : source[k] \in Tokens
      BY <2>1, <2>2
    <3>2. SubSeq(source, position, f - 1) \in Seq(Tokens)
      BY <3>1, SubSeqProperties
    <3> QED
      BY <3>2
  <2>5. /\ tokens' \in Seq(Tokens) /\ tokens' # << >>
        /\ Last(tokens').type = "ENDOFFILE"
    <3>1. tokens' = Append(s, e)
      BY <2>2, <2>3, <2>4 DEF BeginExpression
    <3>2. Append(s, e) \in Seq(Tokens) /\ Append(s, e) # << >> /\ Last(Append(s, e)) = e
      BY AppendFacts
    <3>3. e.type = "ENDOFFILE"
      BY <2>3
    <3> QED
      BY ONLY <3>1, <3>2, <3>3
  <2>6. infos \in Seq(VariableInfo)
    BY DEF ProgramInv, ProgramTypeOK
  <2> QED
    BY <1>1, <2>5, <2>6 DEF BeginExpression, Fresh
<1>3. IInv'
  BY <1>2, FreshInv, PTL
<1>4. ProgramTypeOK'
  BY <1>1, <1>3 DEF ProgramInv, ProgramTypeOK, IInv, TypeOK, Programs
<1>5. ExpressionInv'
  BY <1>1, <1>3 DEF ExpressionInv, Due
<1>6. ConstantInv'
  BY <1>1, NoLiteralsHere
<1>7. TreeInv'
  BY <1>1, TreeUnchanged DEF ProgramInv
<1> QED
  BY <1>4, <1>5, <1>6, <1>7 DEF ProgramInv

LEMMA StepIsNotIdle == ASSUME Step PROVE pc # "idle"
BY DEF Step, Preprocess, PreprocessRejects, PreprocessEnds, NextTok, OpenNewBlock, AddUnaryOp,
       AddBinaryOp, AddVariable, AddLiteral, AddValueRejects, ApplyComma, CloseParenthesis,
       CloseExpression, InsertCast, SkipCast, EndCall, CompileStrongerOp, PushBinaryOp, CompileToTok,
       CountComma, PopParenthesis, Finish, CompileFunction, CompileUnaryOp, TooManyArguments,
       PrefixOpsDone, AtStop

LEMMA CompileExpressionStep == ASSUME ProgramInv, CompileExpression PROVE ProgramInv'
<1>1. /\ outcome = "compiling" /\ control # << >> /\ Due.do = "expression" /\ Step
      /\ UNCHANGED <<source, position, control, names, nodes, node, root, outcome>>
  BY DEF CompileExpression, Doing, programVars
<1>2. pc # "idle"
  BY <1>1, StepIsNotIdle
<1>3. IInv'
  BY <1>1, <1>2, NextInv DEF ProgramInv, ExpressionInv, Next
<1>4. ProgramTypeOK'
  BY <1>1, <1>3 DEF ProgramInv, ProgramTypeOK, IInv, TypeOK, Programs
<1>5. ExpressionInv'
  BY <1>1, <1>3 DEF ExpressionInv, Due
<1>6. ConstantInv'
  BY <1>1, NoLiteralsHere
<1>7. TreeInv'
  BY <1>1, TreeUnchanged DEF ProgramInv
<1> QED
  BY <1>4, <1>5, <1>6, <1>7 DEF ProgramInv

LEMMA EndExpressionStep == ASSUME ProgramInv, EndExpression PROVE ProgramInv'
<1>1. /\ outcome = "compiling" /\ control # << >> /\ Due.do = "expression" /\ Continue(<< >>)
      /\ UNCHANGED <<source, names, nodes, node, root, outcome, infos, opList>>
      /\ position' = FindClosingTokenPosition /\ pc' = "idle" /\ << >> \in Seq(Items)
  BY DEF EndExpression, Doing
<1>2. TreeInv' /\ control' \in Seq(Items)
  <2>1. Follow(<< >>) /\ Plain(<< >>)
    BY <1>1 DEF Follow, Plain, Takes, Returns, Held
  <2> QED
    BY <1>1, <2>1, PlainMoves
<1>3. ProgramTypeOK'
  BY <1>1, <1>2, ClosingTokenFound DEF ProgramInv, ProgramTypeOK
<1>4. ExpressionInv'
  BY <1>1 DEF ExpressionInv
<1>5. ConstantInv'
  <2>1. NoLiteral(<< >>)
    BY DEF NoLiteral
  <2> QED
    BY <1>1, <2>1, NoMoreLiterals DEF ProgramInv
<1> QED
  BY <1>2, <1>3, <1>4, <1>5 DEF ProgramInv

(* The steps that end the compilation. *)

LEMMA Ends ==
    ASSUME ProgramInv, outcome' \in {"ok", "syntax error"}, outcome' = "ok" => control = << >>,
           UNCHANGED <<vars, source, position, control, names, typeName, nodes, node, root>>
    PROVE  ProgramInv'
<1>1. UNCHANGED <<source, position, control, names, nodes, node, root, infos, opList, pc>>
      /\ UNCHANGED vars
  BY DEF vars
<1>2. ProgramTypeOK'
  BY <1>1 DEF ProgramInv, ProgramTypeOK
<1>3. ExpressionInv'
  <2>1. pc # "idle" => IInv'
    BY <1>1, NextInv DEF ProgramInv, ExpressionInv
  <2> QED
    BY <1>1, <2>1 DEF ProgramInv, ExpressionInv, Due
<1>4. ConstantInv'
  BY <1>1 DEF ProgramInv, ConstantInv, VariableIds
<1>5. TreeInv'
  BY <1>1, TreeUnchanged DEF ProgramInv
<1> QED
  BY <1>2, <1>3, <1>4, <1>5 DEF ProgramInv

LEMMA ExpressionThrowsStep == ASSUME ProgramInv, ExpressionThrows PROVE ProgramInv'
<1>1. pc = "syntax error"
  <2>1. pc # "idle" /\ pc \in Outcomes \ {"ok"}
    BY DEF ExpressionThrows, Outcomes, Failures
  <2>2. pc \notin Failures
    BY <2>1 DEF ProgramInv, ExpressionInv, IInv
  <2> QED
    BY <2>1, <2>2 DEF Outcomes, Failures
<1> QED
  BY <1>1, Ends DEF ExpressionThrows

LEMMA ThrowSyntaxErrorStep == ASSUME ProgramInv, ThrowSyntaxError PROVE ProgramInv'
BY Ends DEF ThrowSyntaxError

LEMMA ReturnStep == ASSUME ProgramInv, Return PROVE ProgramInv'
BY Ends DEF Return

LEMMA StutterStep == ASSUME ProgramInv, UNCHANGED allVars PROVE ProgramInv'
<1>1. /\ UNCHANGED <<source, position, control, names, nodes, node, root, outcome, infos, opList, pc>>
      /\ UNCHANGED vars
  BY DEF allVars, programVars, vars
<1>2. ProgramTypeOK'
  BY <1>1 DEF ProgramInv, ProgramTypeOK
<1>3. ExpressionInv'
  <2>1. pc # "idle" => IInv'
    BY <1>1, NextInv DEF ProgramInv, ExpressionInv
  <2> QED
    BY <1>1, <2>1 DEF ProgramInv, ExpressionInv, Due
<1>4. ConstantInv'
  BY <1>1 DEF ProgramInv, ConstantInv, VariableIds
<1>5. TreeInv'
  BY <1>1, TreeUnchanged DEF ProgramInv
<1> QED
  BY <1>2, <1>3, <1>4, <1>5 DEF ProgramInv
-----------------------------------------------------------------------------
(* The invariant and what follows from it. *)

LEMMA ProgramInitInv == ProgramInit => ProgramInv
<1> SUFFICES ASSUME ProgramInit PROVE ProgramInv
  OBVIOUS
<1>1. /\ control = <<MatchToken("PROGRAM"), MatchToken("ID"), MatchToken("SEMICOLON"),
                      Do("declarations"), Do("block"), Do("root"), MatchToken("DOT")>>
      /\ nodes = << >> /\ node = 0 /\ root = 0 /\ pc = "idle"
  BY DEF ProgramInit, WholeProgram
<1>2. /\ Len(control) = 7 /\ DOMAIN control = 1..7
      /\ \A i \in 1..7 : control[i].do \in {"match", "declarations", "block", "root"}
      /\ control[1].do = "match" /\ control[2].do = "match" /\ control[3].do = "match"
      /\ control[4].do = "declarations" /\ control[5].do = "block" /\ control[6].do = "root"
      /\ control[7].do = "match" /\ Due = control[1] /\ control # << >>
  BY <1>1 DEF MatchToken, Do, Due
<1>3. ProgramTypeOK
  <2>1. control \in Seq(Items)
    <3>1. /\ MatchToken("PROGRAM") \in Items /\ MatchToken("ID") \in Items
          /\ MatchToken("SEMICOLON") \in Items /\ Do("declarations") \in Items
          /\ Do("block") \in Items /\ Do("root") \in Items /\ MatchToken("DOT") \in Items
      BY ItemsMade
    <3>2. \A a, b, c, d, e, f, g \in Items : <<a, b, c, d, e, f, g>> \in Seq(Items)
      OBVIOUS
    <3> QED
      BY <1>1, <3>1, <3>2
  <2>2. source \in Seq(Tokens) /\ source # << >> /\ Last(source).type = "ENDOFFILE"
    BY InputsAssumption DEF ProgramInit
  <2>3. position \in DOMAIN source
    <3>1. 1 \in DOMAIN source
      BY <2>2
    <3> QED
      BY <3>1 DEF ProgramInit
  <2>4. infos \in Seq(VariableInfo) /\ opList \in Programs
    BY ContextAssumption DEF ProgramInit, Programs
  <2> QED
    BY <2>1, <2>2, <2>3, <2>4 DEF ProgramInit, ProgramTypeOK
<1>4. ExpressionInv /\ ConstantInv
  BY <1>1, <1>2 DEF ExpressionInv, ConstantInv
<1>5. TreeInv
  <2>1. \A i \in DOMAIN control : Held(control[i]) = 0 /\ Open(control[i]) = 0
    BY <1>2 DEF Held, Open
  <2>2. Returned = 0 /\ ~TakesNode
    BY <1>1, <1>2 DEF Returned, TakesNode, Takes
  <2>3. Pointers = {} /\ DOMAIN nodes = {} /\ Len(nodes) = 0
    BY <1>1 DEF Pointers
  <2>4. OrderInv
    <3>1. \A i \in 1..(Len(control) - 1) :
             control[i].do \in Returns <=> control[i + 1].do \in Takes
      <4> TAKE i \in 1..(Len(control) - 1)
      <4>1. i = 1 \/ i = 2 \/ i = 3 \/ i = 4 \/ i = 5 \/ i = 6
        BY <1>2
      <4> QED
        BY <1>2, <4>1 DEF Takes, Returns
    <3>2. \A i \in DOMAIN control : control[i].do = "root" => i = 6
      <4> TAKE i \in DOMAIN control
      <4>1. i = 1 \/ i = 2 \/ i = 3 \/ i = 4 \/ i = 5 \/ i = 6 \/ i = 7
        BY <1>2
      <4> QED
        BY <1>2, <4>1
    <3> QED
      BY <1>1, <1>2, <3>1, <3>2 DEF OrderInv, Returns
  <2>5. ItemsInv
    BY <1>2 DEF ItemsInv, ItemOK
  <2>6. OneHolder
    BY <1>1, <2>1, <2>2, <2>3 DEF OneHolder
  <2>7. EachIsHeld /\ OpenInv /\ BoundsInv
    BY <1>1, <2>1, <2>2, <2>3 DEF EachIsHeld, OpenInv, BoundsInv
  <2> QED
    BY <2>4, <2>5, <2>6, <2>7 DEF TreeInv
<1> QED
  BY <1>3, <1>4, <1>5 DEF ProgramInv

LEMMA ProgramNextInv == ASSUME ProgramInv, [ProgramNext]_allVars PROVE ProgramInv'
<1>1. CASE ProgramStep
  <2>1. CASE Match
    BY <2>1, MatchStep
  <2>2. CASE ThrowSyntaxError
    BY <2>2, ThrowSyntaxErrorStep
  <2>3. CASE Return
    BY <2>3, ReturnStep
  <2>4. CASE Declarations
    BY <2>4, DeclarationsStep
  <2>5. CASE MoreConstants
    BY <2>5, MoreConstantsStep
  <2>6. CASE MoreRows
    BY <2>6, MoreRowsStep
  <2>7. CASE ConstantsRow
    BY <2>7, ConstantsRowStep
  <2>8. CASE VariablesRow
    BY <2>8, VariablesRowStep
  <2>9. CASE Name
    BY <2>9, NameStep
  <2>10. CASE MoreNames
    BY <2>10, MoreNamesStep
  <2>11. CASE TypeOfRow
    BY <2>11, TypeOfRowStep
  <2>12. CASE Constant
    BY <2>12, ConstantStep
  <2>13. CASE Variable
    BY <2>13, VariableStep
  <2>14. CASE RowRegistered
    BY <2>14, RowRegisteredStep
  <2>15. CASE BeginExpression
    BY <2>15, BeginExpressionStep
  <2>16. CASE CompileExpression
    BY <2>16, CompileExpressionStep
  <2>17. CASE EndExpression
    BY <2>17, EndExpressionStep
  <2>18. CASE ExpressionThrows
    BY <2>18, ExpressionThrowsStep
  <2>19. CASE CodeBlock
    BY <2>19, CodeBlockStep
  <2>20. CASE MoreStatements
    BY <2>20, MoreStatementsStep
  <2>21. CASE Link
    BY <2>21, LinkStep
  <2>22. CASE MakeNode
    BY <2>22, MakeNodeStep
  <2>23. CASE SetRoot
    BY <2>23, SetRootStep
  <2>24. CASE NestedBlock
    BY <2>24, NestedBlockStep
  <2>25. CASE ReadStatement
    BY <2>25, ReadStatementStep
  <2>26. CASE ReadVariable
    BY <2>26, ReadVariableStep
  <2>27. CASE WriteStatement
    BY <2>27, WriteStatementStep
  <2>28. CASE FirstArgument
    BY <2>28, FirstArgumentStep
  <2>29. CASE MoreArguments
    BY <2>29, MoreArgumentsStep
  <2>30. CASE AssignStatement
    BY <2>30, AssignStatementStep
  <2>31. CASE Assign
    BY <2>31, AssignStep
  <2>32. CASE IfStatement
    BY <2>32, IfStatementStep
  <2>33. CASE If
    BY <2>33, IfStep
  <2>34. CASE IfClause
    BY <2>34, IfClauseStep
  <2>35. CASE ElseClause
    BY <2>35, ElseClauseStep
  <2>36. CASE WhileStatement
    BY <2>36, WhileStatementStep
  <2>37. CASE While
    BY <2>37, WhileStep
  <2>38. CASE LoopBody
    BY <2>38, LoopBodyStep
  <2> QED
    BY <1>1, <2>1, <2>2, <2>3, <2>4, <2>5, <2>6, <2>7, <2>8, <2>9, <2>10, <2>11, <2>12,
       <2>13, <2>14, <2>15, <2>16, <2>17, <2>18, <2>19, <2>20, <2>21, <2>22, <2>23, <2>24,
       <2>25, <2>26, <2>27, <2>28, <2>29, <2>30, <2>31, <2>32, <2>33, <2>34, <2>35, <2>36,
       <2>37, <2>38
       DEF ProgramStep
<1>2. CASE ProgramTerminated
  BY <1>2, StutterStep DEF ProgramTerminated
<1>3. CASE UNCHANGED allVars
  BY <1>3, StutterStep
<1> QED
  BY <1>1, <1>2, <1>3 DEF ProgramNext

LEMMA ProgramInvariant == ProgramSpec => []ProgramInv
<1>1. ProgramInv /\ [ProgramNext]_allVars => ProgramInv'
  BY ProgramNextInv
<1> QED
  BY ProgramInitInv, <1>1, PTL DEF ProgramSpec

(* For every sequence of tokens that ends with the end of the file, the    *)
(* parser never reads behind the last token, although nothing compares the *)
(* position with the number of tokens (program_compiler.h:38-53).          *)
THEOREM ParsesInBounds == ProgramSpec => []PositionInBounds
<1>1. ProgramInv => PositionInBounds
  BY DEF ProgramInv, ProgramTypeOK, PositionInBounds
<1> QED
  BY ProgramInvariant, <1>1, PTL

(* For every sequence of tokens and every context, only a SyntaxError is   *)
(* thrown: a constant is registered under a name that is still free, and   *)
(* no expression makes the expression compiler fail                        *)
(* (program_compiler.cpp:407-413, 529).                                    *)
THEOREM OnlySyntaxErrors == ProgramSpec => []NoExceptionEscapes
<1>1. ProgramInv => NoExceptionEscapes
  BY DEF ProgramInv, ProgramTypeOK, NoExceptionEscapes, Failures
<1> QED
  BY ProgramInvariant, <1>1, PTL

(* For every program, the execution nodes form a tree while it grows, and  *)
(* in the end each node but the root is below another one                  *)
(* (program_compiler.cpp:61-76, 175-206).                                  *)
THEOREM BuildsTree == ProgramSpec => []NodesFormTree
<1>1. ASSUME ProgramInv PROVE NodesFormTree
  <2>1. \A p, q \in Pointers : Target(p) = Target(q) => p = q
    BY <1>1 DEF ProgramInv, TreeInv, OneHolder
  <2>2. \A k \in DOMAIN nodes :
           /\ nodes[k].child < k
           /\ nodes[k].next = 0 \/ nodes[k].next \in (k + 1)..Len(nodes)
           /\ nodes[k].kind \in {"If", "While"} => nodes[k].child # 0
    BY <1>1 DEF ProgramInv, TreeInv, BoundsInv
  <2>3. ASSUME outcome = "ok" PROVE {Target(p) : p \in Pointers} = (DOMAIN nodes) \ {root}
    <3>1. control = << >> /\ Returned = 0 /\ DOMAIN control = {}
      BY <1>1, <2>3 DEF ProgramInv, ProgramTypeOK, Returned, TakesNode
    <3>2. DOMAIN nodes = 1..Len(nodes) /\ Len(nodes) \in Nat
      BY <1>1, NodeFields DEF ProgramInv
    <3>3. ASSUME NEW p \in Pointers PROVE Target(p) \in (DOMAIN nodes) \ {root}
      BY <1>1, PointersInBounds DEF ProgramInv, TreeInv, OneHolder
    <3>4. ASSUME NEW k \in DOMAIN nodes, k # root PROVE \E p \in Pointers : Target(p) = k
      <4>1. k # 0
        BY <3>2
      <4> QED
        BY <1>1, <3>1, <3>4, <4>1 DEF ProgramInv, TreeInv, EachIsHeld
    <3> QED
      BY <3>3, <3>4
  <2> QED
    BY <2>1, <2>2, <2>3 DEF NodesFormTree
<1>2. ProgramInv => NodesFormTree
  BY <1>1
<1> QED
  BY ProgramInvariant, <1>2, PTL
-----------------------------------------------------------------------------
(* What the compiled programs leave on the stack, and the nodes and items  *)
(* that need it.  The variables may grow while nodes wait.                 *)

Computes(store, ops, type) ==
    \E T : /\ Runs(T, Len(ops), ops, store)
           /\ Len(T[Len(ops)]) >= 1 /\ T[Len(ops)][Len(T[Len(ops)])] = type

ComputesSome(store, ops) == \E type \in DataTypes : Computes(store, ops, type)

IsAssignable(store, id) == id \in DOMAIN store /\ ~store[id].isConstant

NodeTyped(store, x) ==
    /\ x.kind \in {"Block", "Read"} => x.programs = << >>
    /\ x.kind \in {"Read", "Assign"} => IsAssignable(store, x.id)
    /\ x.kind \in {"Assign", "If", "While"} => Len(x.programs) = 1
    /\ x.kind = "Assign" => Computes(store, x.programs[1], store[x.id].type)
    /\ x.kind \in {"If", "While"} => Computes(store, x.programs[1], "boolean")
    /\ \A k \in DOMAIN x.programs : ComputesSome(store, x.programs[k])

ItemTyped(store, item) ==
    /\ item.do = "make" => NodeTyped(store, item.made)
    /\ item.do = "arguments" =>
          \A k \in DOMAIN item.programs : ComputesSome(store, item.programs[k])
    /\ item.do = "assign" => IsAssignable(store, item.id)
    /\ item.do \in {"clause", "body", "else"} => Computes(store, item.program, "boolean")

NodesTyped(store, ns) == \A k \in DOMAIN ns : NodeTyped(store, ns[k])
ItemsTyped(store, items) == \A i \in DOMAIN items : ItemTyped(store, items[i])

(* What takes the result of an expression follows the expression.          *)
UsesResult == {"arguments", "assign", "if", "while"}

AfterExpressions(items) ==
    \A i \in 1..(Len(items) - 1) :
        items[i + 1].do \in UsesResult => items[i].do = "expression"

ResultInv ==
    control # << >> /\ Due.do \in UsesResult =>
        /\ types # << >> /\ Computes(infos, opList, ResultType)
        /\ ResultType \in DataTypes

CompiledInv ==
    /\ pc # "idle" => TypingInv
    /\ pc = "ok" => types # << >>

RootDue == root # 0 \/ \E i \in DOMAIN control : control[i].do = "root"

TypedInv ==
    /\ NodesTyped(infos, nodes)
    /\ ItemsTyped(infos, control)
    /\ AfterExpressions(control)
    /\ ResultInv
    /\ CompiledInv
    /\ RootDue

Extends(store, stored) ==
    DOMAIN store \subseteq DOMAIN stored /\ \A id \in DOMAIN store : stored[id] = store[id]
-----------------------------------------------------------------------------
LEMMA ComputesMore ==
    ASSUME NEW store, NEW stored, Extends(store, stored), NEW ops, NEW type,
           Computes(store, ops, type)
    PROVE  Computes(stored, ops, type)
<1>1. PICK T : /\ Runs(T, Len(ops), ops, store)
               /\ Len(T[Len(ops)]) >= 1 /\ T[Len(ops)][Len(T[Len(ops)])] = type
  BY DEF Computes
<1>2. \A before, op, after : Executes(store, before, op, after) => Executes(stored, before, op, after)
  BY DEF Executes, Extends
<1>3. Runs(T, Len(ops), ops, stored)
  BY <1>1, <1>2 DEF Runs
<1> QED
  BY <1>1, <1>3 DEF Computes

LEMMA NodeMore ==
    ASSUME NEW store, NEW stored, Extends(store, stored), NEW x, NodeTyped(store, x)
    PROVE  NodeTyped(stored, x)
<1>1. \A ops, type : Computes(store, ops, type) => Computes(stored, ops, type)
  BY ComputesMore
<1>2. \A id : IsAssignable(store, id) => IsAssignable(stored, id) /\ stored[id] = store[id]
  BY DEF IsAssignable, Extends
<1>3. \A ops : ComputesSome(store, ops) => ComputesSome(stored, ops)
  BY <1>1 DEF ComputesSome
<1> QED
  BY <1>1, <1>2, <1>3 DEF NodeTyped

LEMMA ItemMore ==
    ASSUME NEW store, NEW stored, Extends(store, stored), NEW item, ItemTyped(store, item)
    PROVE  ItemTyped(stored, item)
<1>1. \A ops, type : Computes(store, ops, type) => Computes(stored, ops, type)
  BY ComputesMore
<1>2. \A id : IsAssignable(store, id) => IsAssignable(stored, id)
  BY DEF IsAssignable, Extends
<1>3. \A ops : ComputesSome(store, ops) => ComputesSome(stored, ops)
  BY <1>1 DEF ComputesSome
<1>4. \A x : NodeTyped(store, x) => NodeTyped(stored, x)
  BY NodeMore
<1> QED
  BY <1>1, <1>2, <1>3, <1>4 DEF ItemTyped

LEMMA AllMore ==
    ASSUME NEW store, NEW stored, Extends(store, stored)
    PROVE  /\ \A ns : NodesTyped(store, ns) => NodesTyped(stored, ns)
           /\ \A items : ItemsTyped(store, items) => ItemsTyped(stored, items)
BY NodeMore, ItemMore DEF NodesTyped, ItemsTyped

LEMMA ExtendsSelf == \A store : Extends(store, store)
BY DEF Extends

LEMMA ExtendsAppend ==
    ASSUME NEW info \in VariableInfo, NEW store \in Seq(VariableInfo)
    PROVE  Extends(store, Append(store, info))
BY DEF Extends

(* What is due is replaced by items that do not begin with a use of a      *)
(* result.                                                                 *)
Unused(items) == items # << >> => items[1].do \notin UsesResult

LEMMA TypedMoves ==
    ASSUME ProgramInv, TypedInv, control # << >>, Due.do \notin {"expression", "root"},
           NEW items \in Seq(Items), Continue(items), Extends(infos, infos'),
           NodesTyped(infos', nodes'), ItemsTyped(infos', items), AfterExpressions(items),
           Unused(items), pc' = pc, root' = root
    PROVE  TypedInv'
<1>1. control \in Seq(Items)
  BY DEF ProgramInv, ProgramTypeOK
<1>2. PICK n \in Nat : n = Len(items)
  BY AfterDue, <1>1
<1>3. /\ Len(control) \in Nat \ {0} /\ Len(control') = n + Len(control) - 1
      /\ DOMAIN control = 1..Len(control) /\ DOMAIN items = 1..n
      /\ DOMAIN control' = 1..(n + Len(control) - 1)
      /\ Due = control[1]
      /\ \A i \in 1..n : control'[i] = items[i]
      /\ \A i \in DOMAIN control' : i > n =>
             control'[i] = control[i - n + 1] /\ i - n + 1 \in 2..Len(control)
      /\ \A i \in 2..Len(control) :
             i + n - 1 \in DOMAIN control' /\ control'[i + n - 1] = control[i]
      /\ control' \in Seq(Items)
  BY <1>1, <1>2, AfterDue
<1>4. items = << >> <=> n = 0
  BY <1>2
<1>5. ItemsTyped(infos', control')
  <2>1. ItemsTyped(infos', control)
    BY AllMore DEF TypedInv
  <2> QED
    BY <1>3, <2>1 DEF ItemsTyped
<1>6. 2 \in DOMAIN control => control[2].do \notin UsesResult
  <2> HAVE 2 \in DOMAIN control
  <2>1. 1 \in 1..(Len(control) - 1)
    BY <1>3
  <2>2. control[1 + 1].do \in UsesResult => control[1].do = "expression"
    BY <2>1 DEF TypedInv, AfterExpressions
  <2> QED
    BY <1>3, <2>2
<1>7. AfterExpressions(control')
  <2> SUFFICES ASSUME NEW i \in 1..(Len(control') - 1), control'[i + 1].do \in UsesResult
               PROVE  control'[i].do = "expression"
    BY DEF AfterExpressions
  <2>1. CASE i < n
    <3>1. i \in 1..(Len(items) - 1) /\ control'[i] = items[i] /\ control'[i + 1] = items[i + 1]
      BY <1>2, <1>3, <2>1
    <3> QED
      BY <3>1 DEF AfterExpressions
  <2>2. CASE i = n
    <3>1. i + 1 \in DOMAIN control' /\ i + 1 > n /\ (i + 1) - n + 1 = 2
      BY <1>3, <2>2
    <3>2. control'[i + 1] = control[2] /\ 2 \in DOMAIN control
      BY <1>3, <3>1
    <3> QED
      BY <1>6, <3>2
  <2>3. CASE i > n
    <3>1. i \in DOMAIN control' /\ i + 1 \in DOMAIN control' /\ i + 1 > n
      BY <1>3, <2>3
    <3>2. /\ control'[i] = control[i - n + 1] /\ i - n + 1 \in 2..Len(control)
          /\ control'[i + 1] = control[(i + 1) - n + 1] /\ (i + 1) - n + 1 \in 2..Len(control)
      BY <1>3, <2>3, <3>1
    <3>3. PICK k \in Int : k = i - n + 1
      BY <1>2
    <3>4. (i + 1) - n + 1 = k + 1
      BY <1>2, <3>3
    <3>5. k \in 2..Len(control) /\ k + 1 \in 2..Len(control)
      BY <3>2, <3>3, <3>4
    <3>6. k \in 1..(Len(control) - 1)
      BY <1>3, <3>5, NotTheLast
    <3> QED
      BY <3>2, <3>3, <3>4, <3>6 DEF TypedInv, AfterExpressions
  <2> QED
    BY <1>2, <1>3, <2>1, <2>2, <2>3
<1>8. ResultInv'
  <2>1. control' # << >> => control'[1].do \notin UsesResult
    <3> HAVE control' # << >>
    <3>1. CASE n = 0
      <4>1. 1 \in DOMAIN control'
        BY <1>3
      <4>2. control'[1] = control[1 - n + 1] /\ 1 - n + 1 = 2 /\ 2 \in DOMAIN control
        BY <1>3, <3>1, <4>1
      <4> QED
        BY <1>6, <4>2
    <3>2. CASE n # 0
      BY <1>2, <1>3, <1>4, <3>2 DEF Unused
    <3> QED
      BY <3>1, <3>2
  <2> QED
    BY <2>1 DEF ResultInv, Due
<1>9. CompiledInv'
  <2>1. pc = "idle"
    BY DEF ProgramInv, ExpressionInv
  <2> QED
    BY <2>1 DEF CompiledInv
<1>10. RootDue'
  <2>1. CASE root # 0
    BY <2>1 DEF RootDue
  <2>2. CASE root = 0
    <3>1. PICK i \in DOMAIN control : control[i].do = "root"
      BY <2>2 DEF TypedInv, RootDue
    <3>2. i \in 2..Len(control)
      BY <1>3, <3>1
    <3>3. i + n - 1 \in DOMAIN control' /\ control'[i + n - 1] = control[i]
      BY <1>3, <3>2
    <3> QED
      BY <3>1, <3>3 DEF RootDue
  <2> QED
    BY <2>1, <2>2
<1> QED
  BY <1>5, <1>7, <1>8, <1>9, <1>10 DEF TypedInv

LEMMA TypedGoes ==
    ASSUME ProgramInv, TypedInv, control # << >>, Due.do \notin {"expression", "root"},
           NEW items \in Seq(Items), Goto(items), ItemsTyped(infos, items),
           AfterExpressions(items), Unused(items)
    PROVE  TypedInv'
<1>1. Continue(items) /\ UNCHANGED <<infos, nodes, pc, root>>
  BY DEF Goto, vars
<1>2. Extends(infos, infos')
  BY <1>1, ExtendsSelf
<1>3. NodesTyped(infos', nodes') /\ ItemsTyped(infos', items)
  BY <1>1 DEF TypedInv
<1> QED
  BY <1>1, <1>2, <1>3, TypedMoves
-----------------------------------------------------------------------------
(* Each step keeps the nodes typed.  First the steps whose items carry     *)
(* nothing but a label.                                                    *)

Carriers == {"make", "arguments", "assign", "clause", "body", "else"}

Labelled(items) ==
    /\ \A i \in DOMAIN items : items[i].do \notin Carriers
    /\ AfterExpressions(items) /\ Unused(items)

LEMMA LabelledTyped ==
    ASSUME ProgramInv, TypedInv, control # << >>, Due.do \notin {"expression", "root"},
           NEW items \in Seq(Items), Goto(items), Labelled(items)
    PROVE  TypedInv'
<1>1. ItemsTyped(infos, items)
  BY DEF Labelled, Carriers, ItemsTyped, ItemTyped
<1> QED
  BY <1>1, TypedGoes DEF Labelled

LEMMA DeclarationsTyped == ASSUME ProgramInv, TypedInv, Declarations PROVE TypedInv'
<1>1. control # << >> /\ Due.do = "declarations"
  BY DEF Declarations, Doing
<1>2. PICK items :
         /\ Goto(items)
         /\ \/ items = <<MatchToken("CONST"), Do("constant"), Do("constants"), Do("declarations")>>
            \/ items = <<MatchToken("VAR"), Do("row"), Do("rows"), Do("declarations")>>
            \/ items = << >>
  BY DEF Declarations
<1>3. items \in Seq(Items)
  <2>1. CASE items = <<MatchToken("CONST"), Do("constant"), Do("constants"), Do("declarations")>>
    BY <2>1, ItemsMade, Tuples
  <2>2. CASE items = <<MatchToken("VAR"), Do("row"), Do("rows"), Do("declarations")>>
    BY <2>2, ItemsMade, Tuples
  <2>3. CASE items = << >>
    BY <2>3, ItemsMade, Tuples
  <2> QED
    BY <1>2, <2>1, <2>2, <2>3
<1>4. Labelled(items)
  BY <1>2 DEF Labelled, Carriers, AfterExpressions, Unused, UsesResult, Do, MatchToken
<1> QED
  BY <1>1, <1>2, <1>3, <1>4, LabelledTyped

LEMMA MoreConstantsTyped == ASSUME ProgramInv, TypedInv, MoreConstants PROVE TypedInv'
<1>1. control # << >> /\ Due.do = "constants"
  BY DEF MoreConstants, Doing
<1>2. PICK items :
         /\ Goto(items)
         /\ \/ items = <<Do("constant"), Do("constants")>>
            \/ items = << >>
  BY DEF MoreConstants
<1>3. items \in Seq(Items)
  <2>1. CASE items = <<Do("constant"), Do("constants")>>
    BY <2>1, ItemsMade, Tuples
  <2>2. CASE items = << >>
    BY <2>2, ItemsMade, Tuples
  <2> QED
    BY <1>2, <2>1, <2>2
<1>4. Labelled(items)
  BY <1>2 DEF Labelled, Carriers, AfterExpressions, Unused, UsesResult, Do, MatchToken
<1> QED
  BY <1>1, <1>2, <1>3, <1>4, LabelledTyped

LEMMA MoreRowsTyped == ASSUME ProgramInv, TypedInv, MoreRows PROVE TypedInv'
<1>1. control # << >> /\ Due.do = "rows"
  BY DEF MoreRows, Doing
<1>2. PICK items :
         /\ Goto(items)
         /\ \/ items = <<Do("row"), Do("rows")>>
            \/ items = << >>
  BY DEF MoreRows
<1>3. items \in Seq(Items)
  <2>1. CASE items = <<Do("row"), Do("rows")>>
    BY <2>1, ItemsMade, Tuples
  <2>2. CASE items = << >>
    BY <2>2, ItemsMade, Tuples
  <2> QED
    BY <1>2, <2>1, <2>2
<1>4. Labelled(items)
  BY <1>2 DEF Labelled, Carriers, AfterExpressions, Unused, UsesResult, Do, MatchToken
<1> QED
  BY <1>1, <1>2, <1>3, <1>4, LabelledTyped

LEMMA MoreNamesTyped == ASSUME ProgramInv, TypedInv, MoreNames PROVE TypedInv'
<1>1. control # << >> /\ Due.do = "names"
  BY DEF MoreNames, Doing
<1>2. PICK items :
         /\ Goto(items)
         /\ \/ items = <<MatchToken("COMMA"), Do("name"), Do("names")>>
            \/ items = << >>
  BY DEF MoreNames
<1>3. items \in Seq(Items)
  <2>1. CASE items = <<MatchToken("COMMA"), Do("name"), Do("names")>>
    BY <2>1, ItemsMade, Tuples
  <2>2. CASE items = << >>
    BY <2>2, ItemsMade, Tuples
  <2> QED
    BY <1>2, <2>1, <2>2
<1>4. Labelled(items)
  BY <1>2 DEF Labelled, Carriers, AfterExpressions, Unused, UsesResult, Do, MatchToken
<1> QED
  BY <1>1, <1>2, <1>3, <1>4, LabelledTyped

LEMMA RowRegisteredTyped == ASSUME ProgramInv, TypedInv, RowRegistered PROVE TypedInv'
<1>1. control # << >> /\ Due.do = "register"
  BY DEF RowRegistered, Doing
<1>2. PICK items : Goto(items) /\ items = << >>
  BY DEF RowRegistered
<1>3. items \in Seq(Items)
  BY <1>2, ItemsMade, Tuples
<1>4. Labelled(items)
  BY <1>2 DEF Labelled, Carriers, AfterExpressions, Unused, UsesResult, Do, MatchToken
<1> QED
  BY <1>1, <1>2, <1>3, <1>4, LabelledTyped

LEMMA CodeBlockTyped == ASSUME ProgramInv, TypedInv, CodeBlock PROVE TypedInv'
<1>1. control # << >> /\ Due.do = "block"
  BY DEF CodeBlock, Doing
<1>2. PICK items : Goto(items) /\ items = <<MatchToken("BEGIN"), Statements(0, 0)>>
  BY DEF CodeBlock
<1>3. items \in Seq(Items)
  BY <1>2, ItemsMade, NewItems, Tuples
<1>4. Labelled(items)
  BY <1>2 DEF Labelled, Carriers, AfterExpressions, Unused, UsesResult, Statements, MatchToken
<1> QED
  BY <1>1, <1>2, <1>3, <1>4, LabelledTyped

LEMMA NestedBlockTyped == ASSUME ProgramInv, TypedInv, NestedBlock PROVE TypedInv'
<1>1. control # << >> /\ Due.do = "statement"
  BY DEF NestedBlock, Doing
<1>2. PICK items : Goto(items) /\ items = <<Do("block")>>
  BY DEF NestedBlock
<1>3. items \in Seq(Items)
  BY <1>2, ItemsMade, Tuples
<1>4. Labelled(items)
  BY <1>2 DEF Labelled, Carriers, AfterExpressions, Unused, UsesResult, Do, MatchToken
<1> QED
  BY <1>1, <1>2, <1>3, <1>4, LabelledTyped

LEMMA ReadStatementTyped == ASSUME ProgramInv, TypedInv, ReadStatement PROVE TypedInv'
<1>1. control # << >> /\ Due.do = "statement"
  BY DEF ReadStatement, Doing
<1>2. PICK items : Goto(items) /\ items = <<MatchToken("READ"), MatchToken("LPAREN"), Do("read")>>
  BY DEF ReadStatement
<1>3. items \in Seq(Items)
  BY <1>2, ItemsMade, Tuples
<1>4. Labelled(items)
  BY <1>2 DEF Labelled, Carriers, AfterExpressions, Unused, UsesResult, Do, MatchToken
<1> QED
  BY <1>1, <1>2, <1>3, <1>4, LabelledTyped

LEMMA FirstArgumentTyped == ASSUME ProgramInv, TypedInv, FirstArgument PROVE TypedInv'
<1>1. control # << >> /\ Due.do = "firstArgument"
  BY DEF FirstArgument, Doing
<1>2. PICK items : Goto(items) /\ items = << >>
  BY DEF FirstArgument
<1>3. items \in Seq(Items)
  BY <1>2, ItemsMade, Tuples
<1>4. Labelled(items)
  BY <1>2 DEF Labelled, Carriers, AfterExpressions, Unused, UsesResult, Do, MatchToken
<1> QED
  BY <1>1, <1>2, <1>3, <1>4, LabelledTyped

LEMMA IfStatementTyped == ASSUME ProgramInv, TypedInv, IfStatement PROVE TypedInv'
<1>1. control # << >> /\ Due.do = "statement"
  BY DEF IfStatement, Doing
<1>2. PICK items : Goto(items) /\ items = <<MatchToken("IF"), MatchToken("LPAREN"), Do("expression"), Do("if")>>
  BY DEF IfStatement
<1>3. items \in Seq(Items)
  BY <1>2, ItemsMade, Tuples
<1>4. Labelled(items)
  BY <1>2 DEF Labelled, Carriers, AfterExpressions, Unused, UsesResult, Do, MatchToken
<1> QED
  BY <1>1, <1>2, <1>3, <1>4, LabelledTyped

LEMMA WhileStatementTyped == ASSUME ProgramInv, TypedInv, WhileStatement PROVE TypedInv'
<1>1. control # << >> /\ Due.do = "statement"
  BY DEF WhileStatement, Doing
<1>2. PICK items : Goto(items) /\ items = <<MatchToken("WHILE"), MatchToken("LPAREN"), Do("expression"), Do("while")>>
  BY DEF WhileStatement
<1>3. items \in Seq(Items)
  BY <1>2, ItemsMade, Tuples
<1>4. Labelled(items)
  BY <1>2 DEF Labelled, Carriers, AfterExpressions, Unused, UsesResult, Do, MatchToken
<1> QED
  BY <1>1, <1>2, <1>3, <1>4, LabelledTyped
-----------------------------------------------------------------------------
LEMMA LabelledMoves ==
    ASSUME ProgramInv, TypedInv, control # << >>, Due.do \notin {"expression", "root"},
           NEW items \in Seq(Items), Continue(items), Labelled(items), Extends(infos, infos'),
           UNCHANGED <<nodes, root, pc>>
    PROVE  TypedInv'
<1>1. ItemsTyped(infos', items)
  BY DEF Labelled, Carriers, ItemsTyped, ItemTyped
<1>2. NodesTyped(infos', nodes')
  BY AllMore DEF TypedInv
<1> QED
  BY <1>1, <1>2, TypedMoves DEF Labelled

LEMMA MatchTyped == ASSUME ProgramInv, TypedInv, Match PROVE TypedInv'
<1>1. /\ control # << >> /\ Due.do = "match" /\ Continue(<< >>)
      /\ UNCHANGED <<infos, nodes, root, pc>> /\ << >> \in Seq(Items)
  BY DEF Match, Doing, vars
<1>2. Labelled(<< >>)
  BY DEF Labelled, AfterExpressions, Unused
<1> QED
  BY <1>1, <1>2, ExtendsSelf, LabelledMoves

LEMMA ConstantsRowTyped == ASSUME ProgramInv, TypedInv, ConstantsRow PROVE TypedInv'
<1>1. /\ control # << >> /\ Due.do = "constant"
      /\ UNCHANGED <<infos, nodes, root, pc>>
  BY DEF ConstantsRow, Doing, vars
<1>2. PICK items : /\ Continue(items)
                   /\ items = <<MatchToken("ID"), MatchToken("COLON"), Do("type"),
                                MatchToken("EQUAL"), Do("literal"), MatchToken("SEMICOLON")>>
  BY DEF ConstantsRow
<1>3. items \in Seq(Items)
  BY <1>2, ItemsMade, Tuples
<1>4. Labelled(items)
  BY <1>2 DEF Labelled, Carriers, AfterExpressions, Unused, UsesResult, Do, MatchToken
<1> QED
  BY <1>1, <1>2, <1>3, <1>4, ExtendsSelf, LabelledMoves

LEMMA VariablesRowTyped == ASSUME ProgramInv, TypedInv, VariablesRow PROVE TypedInv'
<1>1. /\ control # << >> /\ Due.do = "row"
      /\ UNCHANGED <<infos, nodes, root, pc>>
  BY DEF VariablesRow, Doing, vars
<1>2. PICK items : /\ Continue(items)
                   /\ items = <<Do("name"), Do("names"), MatchToken("COLON"), Do("type"),
                                MatchToken("SEMICOLON"), Do("register")>>
  BY DEF VariablesRow
<1>3. items \in Seq(Items)
  BY <1>2, ItemsMade, Tuples
<1>4. Labelled(items)
  BY <1>2 DEF Labelled, Carriers, AfterExpressions, Unused, UsesResult, Do, MatchToken
<1> QED
  BY <1>1, <1>2, <1>3, <1>4, ExtendsSelf, LabelledMoves

LEMMA NameTyped == ASSUME ProgramInv, TypedInv, Name PROVE TypedInv'
<1>1. /\ control # << >> /\ Due.do = "name"
      /\ UNCHANGED <<infos, nodes, root, pc>>
  BY DEF Name, Doing, vars
<1>2. PICK items : Continue(items) /\ items = <<MatchToken("ID")>>
  BY DEF Name
<1>3. items \in Seq(Items)
  BY <1>2, ItemsMade, Tuples
<1>4. Labelled(items)
  BY <1>2 DEF Labelled, Carriers, AfterExpressions, Unused, UsesResult, MatchToken
<1> QED
  BY <1>1, <1>2, <1>3, <1>4, ExtendsSelf, LabelledMoves

LEMMA TypeOfRowTyped == ASSUME ProgramInv, TypedInv, TypeOfRow PROVE TypedInv'
<1>1. /\ control # << >> /\ Due.do = "type"
      /\ UNCHANGED <<infos, nodes, root, pc>>
  BY DEF TypeOfRow, Doing, vars
<1>2. PICK items : Continue(items) /\ items = <<MatchToken("ID")>>
  BY DEF TypeOfRow
<1>3. items \in Seq(Items)
  BY <1>2, ItemsMade, Tuples
<1>4. Labelled(items)
  BY <1>2 DEF Labelled, Carriers, AfterExpressions, Unused, UsesResult, MatchToken
<1> QED
  BY <1>1, <1>2, <1>3, <1>4, ExtendsSelf, LabelledMoves

(* The steps that register a variable.                                     *)
LEMMA Registers ==
    ASSUME ProgramInv, NEW info \in VariableInfo, Register(info)
    PROVE  Extends(infos, infos')
<1>1. infos \in Seq(VariableInfo)
  BY DEF ProgramInv, ProgramTypeOK
<1>2. infos' = Append(infos, info) \/ infos' = infos
  BY DEF Register
<1> QED
  BY <1>1, <1>2, ExtendsSelf, ExtendsAppend

LEMMA ConstantTyped == ASSUME ProgramInv, TypedInv, Constant PROVE TypedInv'
<1>1. /\ outcome = "compiling" /\ control # << >> /\ Due.do = "literal"
      /\ UNCHANGED <<nodes, root, pc>>
  BY DEF Constant, Doing, Register
<1>2. names # << >>
  <2>1. 1 \in DOMAIN control /\ Due = control[1]
    BY <1>1, DueFields DEF ProgramInv
  <2> QED
    BY <1>1, <2>1 DEF ProgramInv, ConstantInv
<1>3. PICK info \in VariableInfo : Register(info)
  <2>1. PICK info : /\ Register(info)
                    /\ info = [name |-> names[1], type |-> typeName, isConstant |-> TRUE,
                               value |-> CurToken.value]
    BY DEF Constant
  <2>2. names[1] \in Lexemes /\ CurToken.value \in Lexemes
    <3>1. names \in Seq(Lexemes)
      BY DEF ProgramInv, ProgramTypeOK
    <3> QED
      BY <1>2, <3>1, CurTokenType
  <2>3. typeName \in DataTypes
    <3>1. LiteralType[CurToken.type] = typeName /\ CurToken.type \in DOMAIN LiteralType
      BY DEF Constant, IsLiteralOf
    <3>2. \A t \in DOMAIN LiteralType : LiteralType[t] \in {"integer", "double", "boolean", "string"}
      BY DEF LiteralType
    <3> QED
      BY <3>1, <3>2, ContextAssumption
  <2>4. info \in VariableInfo
    BY <2>1, <2>2, <2>3 DEF VariableInfo
  <2> QED
    BY <2>1, <2>4
<1>4. Extends(infos, infos')
  BY <1>3, Registers
<1>5. PICK items : Continue(items) /\ items = <<MatchToken(CurToken.type)>>
  BY DEF Constant
<1>6. items \in Seq(Items)
  <2>1. CurToken.type \in Matched
    BY DEF Constant, IsLiteralOf, LiteralType, Matched, TokenTypes, ValueTokens
  <2> QED
    BY <1>5, <2>1, NewItems, Tuples
<1>7. Labelled(items)
  BY <1>5 DEF Labelled, Carriers, AfterExpressions, Unused, UsesResult, MatchToken
<1> QED
  BY <1>1, <1>4, <1>5, <1>6, <1>7, LabelledMoves

(* What is due stays due.                                                  *)
LEMMA TypedStays ==
    ASSUME ProgramInv, TypedInv, control # << >>, Due.do \notin UsesResult,
           Extends(infos, infos'), UNCHANGED <<control, nodes, root>>, CompiledInv'
    PROVE  TypedInv'
<1>1. NodesTyped(infos', nodes') /\ ItemsTyped(infos', control')
  BY AllMore DEF TypedInv
<1>2. AfterExpressions(control') /\ RootDue'
  BY DEF TypedInv, RootDue
<1>3. ResultInv'
  BY DEF ResultInv, Due
<1> QED
  BY <1>1, <1>2, <1>3 DEF TypedInv

LEMMA VariableTyped == ASSUME ProgramInv, TypedInv, Variable PROVE TypedInv'
<1>1. /\ control # << >> /\ Due.do = "register"
      /\ UNCHANGED <<control, nodes, root, pc>>
  BY DEF Variable, Doing, Register
<1>2. PICK info \in VariableInfo : Register(info)
  <2>1. PICK info : /\ Register(info)
                    /\ info = [name |-> names[1], type |-> typeName, isConstant |-> FALSE,
                               value |-> ""]
    BY DEF Variable
  <2>2. names[1] \in Lexemes /\ "" \in Lexemes
    <3>1. names \in Seq(Lexemes) /\ names # << >>
      BY DEF ProgramInv, ProgramTypeOK, Variable
    <3>2. names[1] \in Lexemes
      BY <3>1
    <3>3. "" \in Lexemes
      BY DEF Lexemes
    <3> QED
      BY <3>2, <3>3
  <2>3. typeName \in DataTypes
    BY ContextAssumption DEF Variable
  <2>4. info \in VariableInfo
    BY <2>1, <2>2, <2>3 DEF VariableInfo
  <2> QED
    BY <2>1, <2>4
<1>3. Extends(infos, infos')
  BY <1>2, Registers
<1>4. CompiledInv'
  <2>1. pc = "idle"
    BY <1>1 DEF ProgramInv, ExpressionInv
  <2> QED
    BY <1>1, <2>1 DEF CompiledInv
<1>5. Due.do \notin UsesResult
  BY <1>1 DEF UsesResult
<1> QED
  BY <1>1, <1>3, <1>4, <1>5, TypedStays
-----------------------------------------------------------------------------
(* The expression.                                                         *)

LEMMA BeginExpressionTyped == ASSUME ProgramInv, TypedInv, BeginExpression PROVE TypedInv'
<1>1. /\ control # << >> /\ Due.do = "expression"
      /\ UNCHANGED <<infos, control, nodes, root>>
      /\ opList' = << >> /\ types' = << >> /\ pc' = "preprocess"
  BY DEF BeginExpression, Doing, programVars
<1>2. JustBegun'
  BY <1>1 DEF JustBegun
<1>3. TypingInv'
  BY <1>2, NothingCompiled, PTL
<1>4. CompiledInv'
  BY <1>1, <1>3 DEF CompiledInv
<1>5. Due.do \notin UsesResult
  BY <1>1 DEF UsesResult
<1> QED
  BY <1>1, <1>4, <1>5, ExtendsSelf, TypedStays

(* The variables only grow, by literals, and the expression is complete    *)
(* only when there is a result.                                            *)
LEMMA InfosGrow ==
    ASSUME IInv, IInv', Step
    PROVE  Extends(infos, infos') /\ (pc' = "ok" => types' # << >>)
<1>1. infos \in Seq(VariableInfo) /\ infos' \in Seq(VariableInfo)
  BY DEF IInv, TypeOK
<1>2. CASE AddLiteral
  <2>1. PICK info : /\ infos' = Append(infos, info)
                    /\ info = [name |-> LiteralName,
                               type |-> LiteralType[tokens[cur.index].type],
                               isConstant |-> TRUE, value |-> tokens[cur.index].value]
    BY <1>2 DEF AddLiteral, Load
  <2>2. \A k \in DOMAIN infos : k \in DOMAIN infos' /\ infos'[k] = infos[k]
    BY <1>1, <2>1
  <2>3. pc' = "compilePrefixOps"
    BY <1>2 DEF AddLiteral, Load
  <2> QED
    BY <2>2, <2>3 DEF Extends
<1>3. CASE ~AddLiteral
  <2>1. infos' = infos
    BY <1>3 DEF Step, Preprocess, PreprocessRejects, PreprocessEnds, NextTok, OpenNewBlock,
       AddUnaryOp, AddBinaryOp, AddVariable, Load, AddValueRejects, ApplyComma, CloseParenthesis,
       CloseExpression, InsertCast, SkipCast, EndCall, CompileStrongerOp, BeginBinary, BeginCall,
       PushBinaryOp, CompileToTok, CountComma, PopParenthesis, Finish, CompileFunction,
       CompileUnaryOp, TooManyArguments, PrefixOpsDone
  <2>2. pc' = "ok" => types' # << >>
    <3>1. CASE Finish
      BY <3>1 DEF Finish
    <3>2. CASE EndCall
      <4>1. pc' = call.caller /\ call.caller \in Loops
        BY <3>2 DEF EndCall, IInv, CallInv, Calls
      <4> QED
        BY <4>1 DEF Loops
    <3>3. CASE ~Finish /\ ~EndCall
      <4>1. pc' # "ok" \/ pc' = pc
        BY <1>3, <3>3 DEF Step, Preprocess, PreprocessRejects, PreprocessEnds, NextTok, OpenNewBlock,
       AddUnaryOp, AddBinaryOp, AddVariable, Load, AddValueRejects, ApplyComma, CloseParenthesis,
       CloseExpression, InsertCast, SkipCast, CompileStrongerOp, BeginBinary, BeginCall,
       PushBinaryOp, CompileToTok, CountComma, PopParenthesis, CompileFunction,
       CompileUnaryOp, TooManyArguments, PrefixOpsDone
      <4>2. pc # "ok"
        BY DEF Step, Preprocess, PreprocessRejects, PreprocessEnds, NextTok, OpenNewBlock, AddUnaryOp,
       AddBinaryOp, AddVariable, AddLiteral, AddValueRejects, ApplyComma, CloseParenthesis,
       CloseExpression, InsertCast, SkipCast, EndCall, CompileStrongerOp, PushBinaryOp, CompileToTok,
       CountComma, PopParenthesis, Finish, CompileFunction, CompileUnaryOp, TooManyArguments,
       PrefixOpsDone, AtStop
      <4> QED
        BY <4>1, <4>2
    <3> QED
      BY <3>1, <3>2, <3>3
  <2> QED
    BY <2>1, <2>2, ExtendsSelf
<1> QED
  BY <1>2, <1>3

LEMMA CompileExpressionTyped == ASSUME ProgramInv, TypedInv, CompileExpression PROVE TypedInv'
<1>1. /\ control # << >> /\ Due.do = "expression" /\ Step
      /\ UNCHANGED <<control, nodes, root>>
  BY DEF CompileExpression, Doing, programVars
<1>2. IInv /\ TypingInv
  BY <1>1, StepIsNotIdle DEF ProgramInv, ExpressionInv, TypedInv, CompiledInv
<1>3. IInv'
  BY <1>1, <1>2, NextInv DEF Next
<1>4. TypingInv'
  BY <1>1, <1>2, <1>3, TypingNext DEF Next
<1>5. Extends(infos, infos') /\ (pc' = "ok" => types' # << >>)
  BY <1>1, <1>2, <1>3, InfosGrow
<1>6. CompiledInv'
  BY <1>4, <1>5 DEF CompiledInv
<1>7. Due.do \notin UsesResult
  BY <1>1 DEF UsesResult
<1> QED
  BY <1>1, <1>5, <1>6, <1>7, TypedStays

(* What has been compiled computes a value of the type of the result.      *)
LEMMA ResultComputed ==
    ASSUME IInv, TypingInv, pc = "ok", types # << >>
    PROVE  Computes(infos, opList, ResultType) /\ ResultType \in DataTypes
<1>1. Len(opList) \in Nat /\ Len(types) \in Nat /\ types \in Seq(Operands)
      /\ \A k \in 1..Len(types) : types[k].type \in DataTypes
  BY OpFacts
<1>2. PICK n \in Nat, m \in Nat : n = Len(opList) /\ m = Len(types)
  BY <1>1
<1>3. m >= 1
  BY <1>1, <1>2
<1>4. OperandCount = m
  BY <1>2 DEF OperandCount
<1>5. PICK T : Runs(T, n, opList, infos) /\ Holds(T, n, opList, m, OnTheStack)
  BY <1>2, <1>4 DEF TypingInv, Mirrors
<1>6. OnTheStack[m].type = types[m].type
  BY <1>2, <1>3, <1>4 DEF OnTheStack, OperandAt
<1>7. Len(T[n]) = m /\ T[n][m] = types[m].type
  BY <1>3, <1>5, <1>6 DEF Holds
<1>8. ResultType = types[m].type
  BY <1>2 DEF ResultType, Last
<1> QED
  BY <1>1, <1>2, <1>3, <1>5, <1>7, <1>8 DEF Computes

LEMMA EndExpressionTyped == ASSUME ProgramInv, TypedInv, EndExpression PROVE TypedInv'
<1>1. /\ control # << >> /\ Due.do = "expression" /\ pc = "ok" /\ pc' = "idle"
      /\ Continue(<< >>) /\ << >> \in Seq(Items) /\ UNCHANGED <<infos, types, opList, nodes, root>>
  BY DEF EndExpression, Doing
<1>2. /\ Len(control) \in Nat \ {0} /\ DOMAIN control = 1..Len(control)
      /\ Len(control') = Len(control) - 1 /\ DOMAIN control' = 1..(Len(control) - 1)
      /\ \A i \in DOMAIN control' : control'[i] = control[i + 1] /\ i + 1 \in 2..Len(control)
      /\ \A i \in 2..Len(control) : i - 1 \in DOMAIN control' /\ control'[i - 1] = control[i]
      /\ Due = control[1]
  BY <1>1, DueDone DEF ProgramInv, ProgramTypeOK
<1>3. NodesTyped(infos', nodes') /\ ItemsTyped(infos', control')
  BY <1>1, <1>2 DEF TypedInv, ItemsTyped
<1>4. AfterExpressions(control')
  <2> SUFFICES ASSUME NEW i \in 1..(Len(control') - 1), control'[i + 1].do \in UsesResult
               PROVE  control'[i].do = "expression"
    BY DEF AfterExpressions
  <2>1. /\ i + 1 \in 1..(Len(control) - 1) /\ i + 1 \in DOMAIN control' /\ i \in DOMAIN control'
    BY <1>2
  <2>2. control'[i] = control[i + 1] /\ control'[i + 1] = control[(i + 1) + 1]
    BY <1>2, <2>1
  <2> QED
    BY <2>1, <2>2 DEF TypedInv, AfterExpressions
<1>5. ResultInv'
  <2>1. types # << >> /\ IInv /\ TypingInv
    BY <1>1 DEF TypedInv, CompiledInv, ProgramInv, ExpressionInv
  <2>2. Computes(infos, opList, ResultType) /\ ResultType \in DataTypes
    BY <1>1, <2>1, ResultComputed
  <2>3. ResultType' = ResultType
    BY <1>1 DEF ResultType
  <2> QED
    BY <1>1, <2>1, <2>2, <2>3 DEF ResultInv
<1>6. CompiledInv'
  BY <1>1 DEF CompiledInv
<1>7. RootDue'
  <2>1. CASE root # 0
    BY <1>1, <2>1 DEF RootDue
  <2>2. CASE root = 0
    <3>1. PICK i \in DOMAIN control : control[i].do = "root"
      BY <2>2 DEF TypedInv, RootDue
    <3>2. i \in 2..Len(control)
      BY <1>1, <1>2, <3>1
    <3> QED
      BY <1>2, <3>1, <3>2 DEF RootDue
  <2> QED
    BY <2>1, <2>2
<1> QED
  BY <1>3, <1>4, <1>5, <1>6, <1>7 DEF TypedInv
-----------------------------------------------------------------------------
(* The steps whose items carry programs or variables.                      *)

LEMMA MoreStatementsTyped == ASSUME ProgramInv, TypedInv, MoreStatements PROVE TypedInv'
<1>1. control # << >> /\ Due.do = "statements"
  BY DEF MoreStatements, Doing
<1>2. PICK start \in Nat, prev \in Nat :
         Due = [do |-> "statements", start |-> start, prev |-> prev]
  BY <1>1, DueFields DEF ProgramInv, Items, Labels
<1>3. CASE IsToken("END")
  <2>1. PICK items :
           /\ Goto(items)
           /\ items = <<MatchToken("END"), Make(Node("Block", start, 0, << >>))>>
    BY <1>2, <1>3 DEF MoreStatements
  <2>2. items \in Seq(Items)
    BY <2>1, ItemsMade, NodesMade, Tuples
  <2>3. ItemsTyped(infos, items)
    BY <2>1 DEF ItemsTyped, ItemTyped, NodeTyped, MatchToken, Make, Node
  <2>4. AfterExpressions(items) /\ Unused(items)
    BY <2>1 DEF AfterExpressions, Unused, UsesResult, MatchToken, Make
  <2> QED
    BY <1>1, <2>1, <2>2, <2>3, <2>4, TypedGoes
<1>4. CASE ~IsToken("END")
  <2>1. PICK items :
           /\ Goto(items)
           /\ items = <<Do("statement"), [do |-> "link", start |-> start, prev |-> prev]>>
    BY <1>2, <1>4 DEF MoreStatements
  <2>2. items \in Seq(Items)
    <3>1. [do |-> "link", start |-> start, prev |-> prev] \in Items
      BY DEF Items
    <3> QED
      BY <2>1, <3>1, ItemsMade, Tuples
  <2>3. Labelled(items)
    BY <2>1 DEF Labelled, Carriers, AfterExpressions, Unused, UsesResult, Do
  <2> QED
    BY <1>1, <2>1, <2>2, <2>3, LabelledTyped
<1> QED
  BY <1>3, <1>4

LEMMA AssignableTyped ==
    ASSUME ProgramInv, NEW name, NEW id \in AssignableIds(name)
    PROVE  IsAssignable(infos, id) /\ id \in Nat
BY InfoIds DEF AssignableIds, VariableIds, IsAssignable

LEMMA ReadVariableTyped == ASSUME ProgramInv, TypedInv, ReadVariable PROVE TypedInv'
<1>1. control # << >> /\ Due.do = "read"
  BY DEF ReadVariable, Doing
<1>2. PICK id \in AssignableIds(CurToken.value) :
          Goto(<<MatchToken("ID"), MatchToken("RPAREN"), MatchToken("SEMICOLON"),
                 Make(Node("Read", 0, id, << >>))>>)
  BY DEF ReadVariable
<1>3. IsAssignable(infos, id) /\ id \in Nat
  BY AssignableTyped
<1>4. PICK items :
         /\ Goto(items)
         /\ items = <<MatchToken("ID"), MatchToken("RPAREN"), MatchToken("SEMICOLON"),
                      Make(Node("Read", 0, id, << >>))>>
  BY <1>2
<1>5. items \in Seq(Items)
  BY <1>3, <1>4, ItemsMade, NodesMade, Tuples
<1>6. ItemsTyped(infos, items)
  BY <1>3, <1>4 DEF ItemsTyped, ItemTyped, NodeTyped, MatchToken, Make, Node
<1>7. AfterExpressions(items) /\ Unused(items)
  BY <1>4 DEF AfterExpressions, Unused, UsesResult, MatchToken, Make
<1> QED
  BY <1>1, <1>4, <1>5, <1>6, <1>7, TypedGoes

LEMMA WriteStatementTyped == ASSUME ProgramInv, TypedInv, WriteStatement PROVE TypedInv'
<1>1. control # << >> /\ Due.do = "statement"
  BY DEF WriteStatement, Doing
<1>2. PICK type \in {"WRITE", "WRITELN"}, kind \in {"Write", "WriteLn"} :
          Goto(<<MatchToken(type), MatchToken("LPAREN"), Do("firstArgument"),
                 Do("expression"), [do |-> "arguments", kind |-> kind, programs |-> << >>]>>)
  BY DEF WriteStatement, IsToken
<1>3. MatchToken(type) \in Items /\ [do |-> "arguments", kind |-> kind, programs |-> << >>] \in Items
  <2>1. << >> \in Seq(Programs)
    OBVIOUS
  <2> QED
    BY <2>1, ItemsMade DEF Items
<1>4. PICK items :
         /\ Goto(items)
         /\ items = <<MatchToken(type), MatchToken("LPAREN"), Do("firstArgument"), Do("expression"),
              [do |-> "arguments", kind |-> kind, programs |-> << >>]>>
  BY <1>2
<1>5. items \in Seq(Items)
  BY <1>3, <1>4, ItemsMade, Tuples
<1>6. ItemsTyped(infos, items)
  BY <1>4 DEF ItemsTyped, ItemTyped, MatchToken, Do
<1>7. AfterExpressions(items) /\ Unused(items)
  BY <1>4 DEF AfterExpressions, Unused, UsesResult, MatchToken, Do
<1> QED
  BY <1>1, <1>4, <1>5, <1>6, <1>7, TypedGoes

LEMMA MoreArgumentsTyped == ASSUME ProgramInv, TypedInv, MoreArguments PROVE TypedInv'
<1>1. control # << >> /\ Due.do = "arguments"
  BY DEF MoreArguments, Doing
<1>2. PICK kind \in {"Write", "WriteLn"}, due \in Seq(Programs) :
         Due = [do |-> "arguments", kind |-> kind, programs |-> due]
  BY <1>1, DueFields DEF ProgramInv, Items, Labels
<1>3. PICK program \in Programs : program = opList
  BY DEF ProgramInv, ProgramTypeOK
<1>4. ComputesSome(infos, program)
  <2>1. Computes(infos, opList, ResultType) /\ ResultType \in DataTypes
    BY <1>1 DEF TypedInv, ResultInv, UsesResult
  <2> QED
    BY <1>3, <2>1 DEF ComputesSome
<1>5. \A k \in DOMAIN due : ComputesSome(infos, due[k])
  <2>1. 1 \in DOMAIN control /\ Due = control[1]
    BY <1>1, DueFields DEF ProgramInv
  <2>2. ItemTyped(infos, Due)
    BY <2>1 DEF TypedInv, ItemsTyped
  <2> QED
    BY <1>2, <2>2 DEF ItemTyped
<1>6. PICK programs \in Seq(Programs) : programs = Append(due, program)
  <2>1. Append(due, program) \in Seq(Programs)
    OBVIOUS
  <2> QED
    BY <2>1
<1>7. \A k \in DOMAIN programs : ComputesSome(infos, programs[k])
  <2>1. \A k \in DOMAIN programs :
           (k \in DOMAIN due /\ programs[k] = due[k]) \/ programs[k] = program
    BY <1>6
  <2> QED
    BY <1>4, <1>5, <2>1
<1>8. CASE IsToken("COMMA")
  <2>1. PICK items :
           /\ Goto(items)
           /\ items = <<MatchToken("COMMA"), Do("expression"),
                        [do |-> "arguments", kind |-> kind, programs |-> programs]>>
    BY <1>2, <1>3, <1>6, <1>8 DEF MoreArguments
  <2>2. items \in Seq(Items)
    <3>1. [do |-> "arguments", kind |-> kind, programs |-> programs] \in Items
      BY DEF Items
    <3> QED
      BY <2>1, <3>1, ItemsMade, Tuples
  <2>3. ItemsTyped(infos, items)
    BY <1>7, <2>1 DEF ItemsTyped, ItemTyped, MatchToken, Do
  <2>4. AfterExpressions(items) /\ Unused(items)
    BY <2>1 DEF AfterExpressions, Unused, UsesResult, MatchToken, Do
  <2> QED
    BY <1>1, <2>1, <2>2, <2>3, <2>4, TypedGoes
<1>9. CASE ~IsToken("COMMA")
  <2>1. PICK items :
           /\ Goto(items)
           /\ items = <<MatchToken("RPAREN"), MatchToken("SEMICOLON"),
                        Make(Node(kind, 0, 0, programs))>>
    BY <1>2, <1>3, <1>6, <1>9 DEF MoreArguments
  <2>2. items \in Seq(Items)
    BY <2>1, ItemsMade, NodesMade, Tuples
  <2>3. ItemsTyped(infos, items)
    BY <1>7, <2>1 DEF ItemsTyped, ItemTyped, NodeTyped, MatchToken, Make, Node
  <2>4. AfterExpressions(items) /\ Unused(items)
    BY <2>1 DEF AfterExpressions, Unused, UsesResult, MatchToken, Make
  <2> QED
    BY <1>1, <2>1, <2>2, <2>3, <2>4, TypedGoes
<1> QED
  BY <1>8, <1>9

LEMMA AssignStatementTyped == ASSUME ProgramInv, TypedInv, AssignStatement PROVE TypedInv'
<1>1. control # << >> /\ Due.do = "statement"
  BY DEF AssignStatement, Doing
<1>2. PICK id \in AssignableIds(CurToken.value) :
          Goto(<<MatchToken("ID"), MatchToken("ASSIGN"), Do("expression"),
                 [do |-> "assign", id |-> id]>>)
  BY DEF AssignStatement
<1>3. IsAssignable(infos, id) /\ id \in Nat
  BY AssignableTyped
<1>4. PICK items :
         /\ Goto(items)
         /\ items = <<MatchToken("ID"), MatchToken("ASSIGN"), Do("expression"),
                      [do |-> "assign", id |-> id]>>
  BY <1>2
<1>5. items \in Seq(Items)
  <2>1. [do |-> "assign", id |-> id] \in Items
    BY <1>3 DEF Items
  <2> QED
    BY <1>4, <2>1, ItemsMade, Tuples
<1>6. ItemsTyped(infos, items)
  BY <1>3, <1>4 DEF ItemsTyped, ItemTyped, MatchToken, Do
<1>7. AfterExpressions(items) /\ Unused(items)
  BY <1>4 DEF AfterExpressions, Unused, UsesResult, MatchToken, Do
<1> QED
  BY <1>1, <1>4, <1>5, <1>6, <1>7, TypedGoes

LEMMA AssignTyped == ASSUME ProgramInv, TypedInv, Assign PROVE TypedInv'
<1>1. control # << >> /\ Due.do = "assign"
  BY DEF Assign, Doing
<1>2. PICK id \in Nat : id = Due.id
  BY <1>1, DueFields DEF ProgramInv
<1>3. PICK program \in Programs : program = opList
  BY DEF ProgramInv, ProgramTypeOK
<1>4. IsAssignable(infos, id)
  <2>1. 1 \in DOMAIN control /\ Due = control[1]
    BY <1>1, DueFields DEF ProgramInv
  <2>2. ItemTyped(infos, Due)
    BY <2>1 DEF TypedInv, ItemsTyped
  <2> QED
    BY <1>1, <1>2, <2>2 DEF ItemTyped
<1>5. Computes(infos, program, infos[id].type) /\ ComputesSome(infos, program)
  <2>1. Computes(infos, opList, ResultType) /\ ResultType \in DataTypes
    BY <1>1 DEF TypedInv, ResultInv, UsesResult
  <2>2. ResultType = infos[id].type
    BY <1>2 DEF Assign
  <2> QED
    BY <1>3, <2>1, <2>2 DEF ComputesSome
<1>6. PICK programs \in Seq(Programs) :
         Len(programs) = 1 /\ DOMAIN programs = {1} /\ programs[1] = program /\ programs = <<program>>
  <2>1. <<program>> \in Seq(Programs) /\ Len(<<program>>) = 1 /\ DOMAIN <<program>> = {1}
    OBVIOUS
  <2> QED
    BY <2>1
<1>7. PICK items :
         /\ Goto(items)
         /\ items = <<MatchToken("SEMICOLON"), Make(Node("Assign", 0, id, programs))>>
  BY <1>2, <1>3, <1>6 DEF Assign
<1>8. items \in Seq(Items)
  BY <1>7, ItemsMade, NodesMade, Tuples
<1>9. ItemsTyped(infos, items)
  BY <1>4, <1>5, <1>6, <1>7 DEF ItemsTyped, ItemTyped, NodeTyped, MatchToken, Make, Node
<1>10. AfterExpressions(items) /\ Unused(items)
  BY <1>7 DEF AfterExpressions, Unused, UsesResult, MatchToken, Make
<1> QED
  BY <1>1, <1>7, <1>8, <1>9, <1>10, TypedGoes
-----------------------------------------------------------------------------
LEMMA BooleanResult ==
    ASSUME TypedInv, control # << >>, Due.do \in {"if", "while"}, ResultType = "boolean"
    PROVE  Computes(infos, opList, "boolean")
BY DEF TypedInv, ResultInv, UsesResult

LEMMA IfTyped == ASSUME ProgramInv, TypedInv, If PROVE TypedInv'
<1>1. control # << >> /\ Due.do = "if"
  BY DEF If, Doing
<1>2. PICK program \in Programs : program = opList /\ Computes(infos, program, "boolean")
  BY <1>1, BooleanResult DEF If, ProgramInv, ProgramTypeOK
<1>3. PICK items :
         /\ Goto(items)
         /\ items = <<MatchToken("RPAREN"), MatchToken("THEN"), Do("statement"),
                      [do |-> "clause", program |-> program]>>
  BY <1>2 DEF If
<1>4. items \in Seq(Items)
  <2>1. [do |-> "clause", program |-> program] \in Items
    BY DEF Items
  <2> QED
    BY <1>3, <2>1, ItemsMade, Tuples
<1>5. ItemsTyped(infos, items)
  BY <1>2, <1>3 DEF ItemsTyped, ItemTyped, MatchToken, Do
<1>6. AfterExpressions(items) /\ Unused(items)
  BY <1>3 DEF AfterExpressions, Unused, UsesResult, MatchToken, Do
<1> QED
  BY <1>1, <1>3, <1>4, <1>5, <1>6, TypedGoes

LEMMA WhileTyped == ASSUME ProgramInv, TypedInv, While PROVE TypedInv'
<1>1. control # << >> /\ Due.do = "while"
  BY DEF While, Doing
<1>2. PICK program \in Programs : program = opList /\ Computes(infos, program, "boolean")
  BY <1>1, BooleanResult DEF While, ProgramInv, ProgramTypeOK
<1>3. PICK items :
         /\ Goto(items)
         /\ items = <<MatchToken("RPAREN"), MatchToken("DO"), Do("statement"),
                      [do |-> "body", program |-> program]>>
  BY <1>2 DEF While
<1>4. items \in Seq(Items)
  <2>1. [do |-> "body", program |-> program] \in Items
    BY DEF Items
  <2> QED
    BY <1>3, <2>1, ItemsMade, Tuples
<1>5. ItemsTyped(infos, items)
  BY <1>2, <1>3 DEF ItemsTyped, ItemTyped, MatchToken, Do
<1>6. AfterExpressions(items) /\ Unused(items)
  BY <1>3 DEF AfterExpressions, Unused, UsesResult, MatchToken, Do
<1> QED
  BY <1>1, <1>3, <1>4, <1>5, <1>6, TypedGoes

(* The condition that an if or a while waits with.                         *)
LEMMA ConditionTyped ==
    ASSUME ProgramInv, TypedInv, control # << >>, Due.do \in {"clause", "body", "else"}
    PROVE  /\ Due.program \in Programs /\ Computes(infos, Due.program, "boolean")
<1>1. Due.program \in Programs /\ 1 \in DOMAIN control /\ Due = control[1]
  BY DueFields DEF ProgramInv
<1>2. ItemTyped(infos, Due)
  BY <1>1 DEF TypedInv, ItemsTyped
<1> QED
  BY <1>1, <1>2 DEF ItemTyped

(* The node that is made with it.                                          *)
LEMMA ConditionalMade ==
    ASSUME ProgramInv, NEW program \in Programs, Computes(infos, program, "boolean"),
           NEW kind \in {"If", "While"}, NEW child \in Nat
    PROVE  LET items == <<Make(Node(kind, child, 0, <<program>>))>>
           IN  /\ items \in Seq(Items) /\ ItemsTyped(infos, items)
               /\ AfterExpressions(items) /\ Unused(items)
<1>1. PICK programs \in Seq(Programs) :
         Len(programs) = 1 /\ DOMAIN programs = {1} /\ programs[1] = program /\ programs = <<program>>
  <2>1. <<program>> \in Seq(Programs) /\ Len(<<program>>) = 1 /\ DOMAIN <<program>> = {1}
    OBVIOUS
  <2> QED
    BY <2>1
<1>2. PICK items : items = <<Make(Node(kind, child, 0, programs))>>
  OBVIOUS
<1>3. items \in Seq(Items)
  BY <1>2, NodesMade, Tuples
<1>4. ComputesSome(infos, program)
  BY ContextAssumption DEF ComputesSome
<1>5. ItemsTyped(infos, items)
  BY <1>1, <1>2, <1>4 DEF ItemsTyped, ItemTyped, NodeTyped, Make, Node
<1>6. AfterExpressions(items) /\ Unused(items)
  BY <1>2 DEF AfterExpressions, Unused, UsesResult, Make
<1> QED
  BY <1>1, <1>2, <1>3, <1>5, <1>6

LEMMA IfClauseTyped == ASSUME ProgramInv, TypedInv, IfClause PROVE TypedInv'
<1>1. control # << >> /\ Due.do = "clause" /\ TakesNode
  BY DEF IfClause, Doing, TakesNode, Takes
<1>2. PICK program \in Programs : program = Due.program /\ Computes(infos, program, "boolean")
  BY <1>1, ConditionTyped
<1>3. PICK clause \in Nat : clause = node
  BY <1>1, NodeTaken
<1>4. CASE IsToken("ELSE")
  <2>1. PICK items :
           /\ Goto(items)
           /\ items = <<MatchToken("ELSE"), Do("statement"),
                        [do |-> "else", program |-> program, clause |-> clause]>>
    BY <1>2, <1>3, <1>4 DEF IfClause
  <2>2. items \in Seq(Items)
    <3>1. [do |-> "else", program |-> program, clause |-> clause] \in Items
      BY DEF Items
    <3> QED
      BY <2>1, <3>1, ItemsMade, Tuples
  <2>3. ItemsTyped(infos, items)
    BY <1>2, <2>1 DEF ItemsTyped, ItemTyped, MatchToken, Do
  <2>4. AfterExpressions(items) /\ Unused(items)
    BY <2>1 DEF AfterExpressions, Unused, UsesResult, MatchToken, Do
  <2> QED
    BY <1>1, <2>1, <2>2, <2>3, <2>4, TypedGoes
<1>5. CASE ~IsToken("ELSE")
  <2>1. PICK items : Goto(items) /\ items = <<Make(Node("If", clause, 0, <<program>>))>>
    BY <1>2, <1>3, <1>5 DEF IfClause, MakeIf
  <2>2. /\ items \in Seq(Items) /\ ItemsTyped(infos, items)
        /\ AfterExpressions(items) /\ Unused(items)
    BY <1>2, <2>1, ConditionalMade
  <2> QED
    BY <1>1, <2>1, <2>2, TypedGoes
<1> QED
  BY <1>4, <1>5

LEMMA LoopBodyTyped == ASSUME ProgramInv, TypedInv, LoopBody PROVE TypedInv'
<1>1. control # << >> /\ Due.do = "body" /\ TakesNode
  BY DEF LoopBody, Doing, TakesNode, Takes
<1>2. PICK program \in Programs : program = Due.program /\ Computes(infos, program, "boolean")
  BY <1>1, ConditionTyped
<1>3. PICK child \in Nat : child = node
  BY <1>1, NodeTaken
<1>4. PICK items : Goto(items) /\ items = <<Make(Node("While", child, 0, <<program>>))>>
  BY <1>2, <1>3 DEF LoopBody
<1>5. /\ items \in Seq(Items) /\ ItemsTyped(infos, items)
      /\ AfterExpressions(items) /\ Unused(items)
  BY <1>2, <1>4, ConditionalMade
<1> QED
  BY <1>1, <1>4, <1>5, TypedGoes

(* The steps that change the nodes.                                        *)
LEMMA LinkedTyped ==
    ASSUME NEW store, NEW ns \in Seq(Nodes), NodesTyped(store, ns), NEW o, NEW n
    PROVE  NodesTyped(store, [ns EXCEPT ![o].next = n])
<1>1. \A k \in DOMAIN ns : ns[k] \in Nodes
  OBVIOUS
<1>2. PICK changed : changed = [ns EXCEPT ![o].next = n]
  OBVIOUS
<1>3. DOMAIN changed = DOMAIN ns
      /\ \A k \in DOMAIN ns : /\ changed[k].kind = ns[k].kind /\ changed[k].id = ns[k].id
                              /\ changed[k].programs = ns[k].programs
  BY <1>1, <1>2 DEF Nodes
<1>4. NodesTyped(store, changed)
  BY <1>3 DEF NodesTyped, NodeTyped
<1> QED
  BY <1>2, <1>4

LEMMA ElseClauseTyped == ASSUME ProgramInv, TypedInv, ElseClause PROVE TypedInv'
<1>1. control # << >> /\ Due.do = "else" /\ UNCHANGED <<infos, root, pc>>
  BY DEF ElseClause, Doing, vars
<1>2. PICK program \in Programs : program = Due.program /\ Computes(infos, program, "boolean")
  BY <1>1, ConditionTyped
<1>3. PICK clause \in Nat : clause = Due.clause
  BY <1>1, DueFields DEF ProgramInv
<1>4. PICK items : Continue(items) /\ items = <<Make(Node("If", clause, 0, <<program>>))>>
  BY <1>2, <1>3 DEF ElseClause, MakeIf
<1>5. /\ items \in Seq(Items) /\ ItemsTyped(infos, items)
      /\ AfterExpressions(items) /\ Unused(items)
  BY <1>2, <1>4, ConditionalMade
<1>6. NodesTyped(infos, nodes')
  BY LinkedTyped DEF ElseClause, TypedInv, ProgramInv, ProgramTypeOK
<1> QED
  BY <1>1, <1>4, <1>5, <1>6, ExtendsSelf, TypedMoves

LEMMA LinkTyped == ASSUME ProgramInv, TypedInv, Link PROVE TypedInv'
<1>1. control # << >> /\ Due.do = "link" /\ TakesNode /\ UNCHANGED <<infos, root, pc>>
  BY DEF Link, Doing, TakesNode, Takes, vars
<1>2. PICK start \in Nat, n \in Nat : start \in {node, Due.start} /\ n = node
                                      /\ Continue(<<Statements(start, n)>>)
  <2>1. node \in Nat /\ Due.start \in Nat
    BY <1>1, NodeTaken, DueFields DEF ProgramInv
  <2> QED
    BY <2>1 DEF Link
<1>3. PICK items : Continue(items) /\ items = <<Statements(start, n)>>
  BY <1>2
<1>4. items \in Seq(Items)
  BY <1>3, NewItems, Tuples
<1>5. ItemsTyped(infos, items)
  BY <1>3 DEF ItemsTyped, ItemTyped, Statements
<1>6. AfterExpressions(items) /\ Unused(items)
  BY <1>3 DEF AfterExpressions, Unused, UsesResult, Statements
<1>7. NodesTyped(infos, nodes')
  <2>1. nodes' = nodes \/ nodes' = [nodes EXCEPT ![Due.prev].next = node]
    BY DEF Link
  <2>2. nodes \in Seq(Nodes) /\ NodesTyped(infos, nodes)
    BY DEF TypedInv, ProgramInv, ProgramTypeOK
  <2>3. NodesTyped(infos, [nodes EXCEPT ![Due.prev].next = node])
    BY <2>2, LinkedTyped
  <2> QED
    BY <2>1, <2>2, <2>3
<1> QED
  BY <1>1, <1>3, <1>4, <1>5, <1>6, <1>7, ExtendsSelf, TypedMoves

LEMMA MakeNodeTyped == ASSUME ProgramInv, TypedInv, MakeNode PROVE TypedInv'
<1>1. /\ control # << >> /\ Due.do = "make" /\ UNCHANGED <<infos, root, pc>>
      /\ Continue(<< >>) /\ << >> \in Seq(Items) /\ nodes' = Append(nodes, Due.made)
  BY DEF MakeNode, Doing, vars
<1>2. PICK made \in Nodes : made = Due.made /\ NodeTyped(infos, made)
  <2>1. Due.made \in Nodes /\ 1 \in DOMAIN control /\ Due = control[1]
    BY <1>1, DueFields DEF ProgramInv
  <2>2. ItemTyped(infos, Due)
    BY <2>1 DEF TypedInv, ItemsTyped
  <2> QED
    BY <1>1, <2>1, <2>2 DEF ItemTyped
<1>3. NodesTyped(infos, nodes')
  <2>1. nodes \in Seq(Nodes)
    BY DEF ProgramInv, ProgramTypeOK
  <2>2. \A k \in DOMAIN nodes' : (k \in DOMAIN nodes /\ nodes'[k] = nodes[k]) \/ nodes'[k] = made
    BY <1>1, <1>2, <2>1
  <2> QED
    BY <1>2, <2>2 DEF TypedInv, NodesTyped
<1>4. ItemsTyped(infos, << >>) /\ AfterExpressions(<< >>) /\ Unused(<< >>)
  BY DEF ItemsTyped, AfterExpressions, Unused
<1> QED
  BY <1>1, <1>3, <1>4, ExtendsSelf, TypedMoves

LEMMA SetRootTyped == ASSUME ProgramInv, TypedInv, SetRoot PROVE TypedInv'
<1>1. /\ control # << >> /\ Due.do = "root" /\ UNCHANGED <<infos, nodes, pc>>
      /\ Continue(<< >>) /\ root' = node /\ TakesNode
  BY DEF SetRoot, Doing, vars, TakesNode, Takes
<1>2. /\ Len(control) \in Nat \ {0} /\ DOMAIN control = 1..Len(control)
      /\ Len(control') = Len(control) - 1 /\ DOMAIN control' = 1..(Len(control) - 1)
      /\ \A i \in DOMAIN control' : control'[i] = control[i + 1] /\ i + 1 \in 2..Len(control)
      /\ Due = control[1]
  BY <1>1, DueDone DEF ProgramInv, ProgramTypeOK
<1>3. NodesTyped(infos', nodes') /\ ItemsTyped(infos', control')
  BY <1>1, <1>2 DEF TypedInv, ItemsTyped
<1>4. AfterExpressions(control')
  <2> SUFFICES ASSUME NEW i \in 1..(Len(control') - 1), control'[i + 1].do \in UsesResult
               PROVE  control'[i].do = "expression"
    BY DEF AfterExpressions
  <2>1. /\ i + 1 \in 1..(Len(control) - 1) /\ i + 1 \in DOMAIN control' /\ i \in DOMAIN control'
    BY <1>2
  <2>2. control'[i] = control[i + 1] /\ control'[i + 1] = control[(i + 1) + 1]
    BY <1>2, <2>1
  <2> QED
    BY <2>1, <2>2 DEF TypedInv, AfterExpressions
<1>5. ResultInv'
  <2> SUFFICES ASSUME control' # << >> PROVE control'[1].do \notin UsesResult
    BY DEF ResultInv, Due
  <2>1. control' \in Seq(Items)
    <3>1. << >> \in Seq(Items)
      OBVIOUS
    <3> QED
      BY <1>1, <3>1, AfterDue DEF ProgramInv, ProgramTypeOK
  <2>2. 1 \in DOMAIN control'
    BY <2>1
  <2>3. control'[1] = control[1 + 1] /\ 1 \in 1..(Len(control) - 1)
    BY <1>2, <2>2
  <2>4. control[1 + 1].do \in UsesResult => control[1].do = "expression"
    BY <2>3 DEF TypedInv, AfterExpressions
  <2> QED
    BY <1>1, <1>2, <2>3, <2>4
<1>6. CompiledInv'
  <2>1. pc = "idle"
    BY <1>1 DEF ProgramInv, ExpressionInv
  <2> QED
    BY <1>1, <2>1 DEF CompiledInv
<1>7. RootDue'
  BY <1>1, NodeTaken DEF RootDue
<1> QED
  BY <1>3, <1>4, <1>5, <1>6, <1>7 DEF TypedInv

(* The steps that end the compilation, and those of others.                *)
LEMMA TypedUnchanged ==
    ASSUME TypedInv, UNCHANGED <<vars, control, nodes, root>>
    PROVE  TypedInv'
<1>1. UNCHANGED <<types, opList, infos, call, pc>>
  BY DEF vars
<1>2. OnTheStack' = OnTheStack /\ OperandCount' = OperandCount
  BY <1>1 DEF OnTheStack, OperandCount, OperandAt
<1>3. CompiledInv'
  BY <1>1, <1>2 DEF TypedInv, CompiledInv, TypingInv
<1>4. ResultInv'
  BY <1>1 DEF TypedInv, ResultInv, Due, ResultType
<1> QED
  BY <1>1, <1>3, <1>4 DEF TypedInv, RootDue
-----------------------------------------------------------------------------
LEMMA TypedInit == ProgramInit => TypedInv
<1> SUFFICES ASSUME ProgramInit PROVE TypedInv
  OBVIOUS
<1>1. /\ control = <<MatchToken("PROGRAM"), MatchToken("ID"), MatchToken("SEMICOLON"),
                      Do("declarations"), Do("block"), Do("root"), MatchToken("DOT")>>
      /\ nodes = << >> /\ root = 0 /\ pc = "idle"
  BY DEF ProgramInit, WholeProgram
<1>2. /\ Len(control) = 7 /\ DOMAIN control = 1..7
      /\ \A i \in 1..7 : control[i].do \in {"match", "declarations", "block", "root"}
      /\ control[6].do = "root" /\ Due = control[1] /\ control # << >>
  BY <1>1 DEF MatchToken, Do, Due
<1>3. NodesTyped(infos, nodes)
  BY <1>1 DEF NodesTyped
<1>4. ItemsTyped(infos, control)
  BY <1>2 DEF ItemsTyped, ItemTyped
<1>5. AfterExpressions(control)
  BY <1>2 DEF AfterExpressions, UsesResult
<1>6. ResultInv /\ CompiledInv /\ RootDue
  BY <1>1, <1>2 DEF ResultInv, CompiledInv, RootDue, UsesResult
<1> QED
  BY <1>3, <1>4, <1>5, <1>6 DEF TypedInv

LEMMA TypedNext == ASSUME ProgramInv, TypedInv, [ProgramNext]_allVars PROVE TypedInv'
<1>1. CASE Match \/ Declarations \/ MoreConstants \/ MoreRows \/ ConstantsRow \/ VariablesRow
  BY <1>1, MatchTyped, DeclarationsTyped, MoreConstantsTyped, MoreRowsTyped, ConstantsRowTyped,
     VariablesRowTyped
<1>2. CASE Name \/ MoreNames \/ TypeOfRow \/ Constant \/ Variable \/ RowRegistered
  BY <1>2, NameTyped, MoreNamesTyped, TypeOfRowTyped, ConstantTyped, VariableTyped,
     RowRegisteredTyped
<1>3. CASE BeginExpression \/ CompileExpression \/ EndExpression
  BY <1>3, BeginExpressionTyped, CompileExpressionTyped, EndExpressionTyped
<1>4. CASE CodeBlock \/ MoreStatements \/ Link \/ MakeNode \/ SetRoot \/ NestedBlock
  BY <1>4, CodeBlockTyped, MoreStatementsTyped, LinkTyped, MakeNodeTyped, SetRootTyped,
     NestedBlockTyped
<1>5. CASE ReadStatement \/ ReadVariable \/ WriteStatement \/ FirstArgument \/ MoreArguments
  BY <1>5, ReadStatementTyped, ReadVariableTyped, WriteStatementTyped, FirstArgumentTyped,
     MoreArgumentsTyped
<1>6. CASE AssignStatement \/ Assign \/ IfStatement \/ If \/ IfClause \/ ElseClause
  BY <1>6, AssignStatementTyped, AssignTyped, IfStatementTyped, IfTyped, IfClauseTyped,
     ElseClauseTyped
<1>7. CASE WhileStatement \/ While \/ LoopBody
  BY <1>7, WhileStatementTyped, WhileTyped, LoopBodyTyped
<1>8. CASE ThrowSyntaxError \/ Return \/ ExpressionThrows
  BY <1>8, TypedUnchanged DEF ThrowSyntaxError, Return, ExpressionThrows
<1>9. CASE UNCHANGED allVars
  BY <1>9, TypedUnchanged DEF allVars, programVars
<1> QED
  BY <1>1, <1>2, <1>3, <1>4, <1>5, <1>6, <1>7, <1>8, <1>9
     DEF ProgramNext, ProgramStep, ProgramTerminated

(* For every sequence of tokens and every context, the expressions of each *)
(* node leave what the node takes, in whatever order the code of a program *)
(* is compiled: the value of an assignment has the type of its variable,   *)
(* which is no constant, and a condition is a boolean                      *)
(* (program_compiler.cpp:112-206).                                         *)
THEOREM NodesGetTheirTypes == ProgramSpec => []NodesTyped(infos, nodes)
<1>1. ASSUME ProgramInv /\ TypedInv, [ProgramNext]_allVars PROVE (ProgramInv /\ TypedInv)'
  BY <1>1, ProgramNextInv, TypedNext
<1>2. ProgramInit => ProgramInv /\ TypedInv
  BY ProgramInitInv, TypedInit
<1>3. ProgramInv /\ TypedInv => NodesTyped(infos, nodes)
  BY DEF TypedInv
<1> QED
  BY <1>1, <1>2, <1>3, PTL DEF ProgramSpec
-----------------------------------------------------------------------------
(* The execution of a compiled expression.  Its operations find on the     *)
(* stack what the compiler left there.                                     *)

IsSeq(s) == \E S : s \in Seq(S)

HasTypes(s, ts) ==
    IsSeq(s) /\ Len(s) = Len(ts) /\ \A k \in 1..Len(ts) : s[k].type = ts[k]

(* The first at - 1 operations are executed, and all leave a result of a   *)
(* type on the stack s.                                                    *)
Executed(store, ops, s, at, type) ==
    \E T : /\ Runs(T, Len(ops), ops, store)
           /\ Len(T[Len(ops)]) >= 1 /\ T[Len(ops)][Len(T[Len(ops)])] = type
           /\ at \in 1..(Len(ops) + 1)
           /\ HasTypes(s, T[at - 1])

LEMMA BeginsExecuted ==
    ASSUME NEW store, NEW ops \in Programs, NEW type, Computes(store, ops, type)
    PROVE  Executed(store, ops, << >>, 1, type)
<1>1. PICK T : /\ Runs(T, Len(ops), ops, store)
               /\ Len(T[Len(ops)]) >= 1 /\ T[Len(ops)][Len(T[Len(ops)])] = type
  BY DEF Computes
<1>2. T[0] = << >> /\ Len(ops) \in Nat
  BY <1>1 DEF Runs, Programs
<1>3. HasTypes(<< >>, << >>)
  <2>1. IsSeq(<< >>)
    BY DEF IsSeq
  <2> QED
    BY <2>1 DEF HasTypes
<1>4. 1 \in 1..(Len(ops) + 1) /\ T[1 - 1] = << >>
  BY <1>2
<1> QED
  BY <1>1, <1>3, <1>4 DEF Executed

(* A value on the top of the rest of the stack.                            *)
LEMMA PushedHasTypes ==
    ASSUME NEW s, NEW ts \in Seq(DataTypes), HasTypes(s, ts),
           NEW rest \in Nat, rest <= Len(ts), NEW us \in Seq(DataTypes), Len(us) = rest + 1,
           \A j \in 1..rest : us[j] = ts[j],
           NEW v, v.type = us[rest + 1]
    PROVE  HasTypes(Append(SubSeq(s, 1, rest), v), us)
<1>1. PICK S : s \in Seq(S)
  BY DEF HasTypes, IsSeq
<1>2. Len(s) = Len(ts) /\ Len(ts) \in Nat /\ \A k \in 1..Len(ts) : s[k].type = ts[k]
  BY DEF HasTypes
<1>3. PICK below : below = SubSeq(s, 1, rest)
  OBVIOUS
<1>4. below \in Seq(S) /\ Len(below) = rest /\ \A k \in 1..rest : below[k] = s[k]
  <2>1. \A k \in 1..rest : s[k] \in S
    BY <1>1, <1>2
  <2>2. /\ SubSeq(s, 1, rest) \in Seq(S)
        /\ Len(SubSeq(s, 1, rest)) = IF 1 <= rest THEN rest - 1 + 1 ELSE 0
        /\ \A k \in 1..(rest - 1 + 1) : SubSeq(s, 1, rest)[k] = s[1 + k - 1]
    BY <2>1, SubSeqProperties
  <2> QED
    BY <1>3, <2>2
<1>5. PICK pushed : pushed = Append(below, v)
  OBVIOUS
<1>6. /\ pushed \in Seq(S \cup {v}) /\ Len(pushed) = rest + 1 /\ pushed[rest + 1] = v
      /\ \A k \in 1..rest : pushed[k] = below[k]
  <2>1. below \in Seq(S \cup {v})
    BY <1>4
  <2> QED
    BY <1>4, <1>5, <2>1, AppendProperties
<1>7. IsSeq(pushed)
  BY <1>6 DEF IsSeq
<1>8. \A k \in 1..(rest + 1) : pushed[k].type = us[k]
  BY <1>2, <1>4, <1>6
<1> QED
  BY <1>3, <1>5, <1>6, <1>7, <1>8 DEF HasTypes

LEMMA WholeSubSeq ==
    ASSUME NEW s, NEW S, s \in Seq(S)
    PROVE  SubSeq(s, 1, Len(s)) = s
<1>1. Len(s) \in Nat /\ \A k \in 1..Len(s) : s[k] \in S
  OBVIOUS
<1>2. PICK t : t = SubSeq(s, 1, Len(s))
  OBVIOUS
<1>3. /\ SubSeq(s, 1, Len(s)) \in Seq(S)
      /\ Len(SubSeq(s, 1, Len(s))) = IF 1 <= Len(s) THEN Len(s) - 1 + 1 ELSE 0
      /\ \A k \in 1..(Len(s) - 1 + 1) : SubSeq(s, 1, Len(s))[k] = s[1 + k - 1]
  BY <1>1, SubSeqProperties
<1>4. t \in Seq(S) /\ Len(t) = Len(s) /\ \A k \in 1..Len(s) : t[k] = s[k]
  BY <1>1, <1>2, <1>3
<1> QED
  BY <1>2, <1>4, SeqEqual

(* A variable of the storage is loaded.                                    *)
LEMMA LoadExecuted ==
    ASSUME NEW store, NEW ops \in Programs, NEW s, NEW at, NEW type,
           Executed(store, ops, s, at, type), at <= Len(ops), ops[at].op = "LOAD",
           NEW v, v.type = store[ops[at].id].type
    PROVE  ops[at].id \in DOMAIN store /\ Executed(store, ops, Append(s, v), at + 1, type)
<1>1. PICK T : /\ Runs(T, Len(ops), ops, store)
               /\ Len(T[Len(ops)]) >= 1 /\ T[Len(ops)][Len(T[Len(ops)])] = type
               /\ at \in 1..(Len(ops) + 1)
               /\ HasTypes(s, T[at - 1])
  BY DEF Executed
<1>2. Len(ops) \in Nat /\ at \in 1..Len(ops) /\ at - 1 \in 0..Len(ops) /\ at \in 0..Len(ops)
  <2>1. Len(ops) \in Nat
    BY DEF Programs
  <2> QED
    BY <1>1, <2>1
<1>3. PICK op, ts, us : op = ops[at] /\ ts = T[at - 1] /\ us = T[at]
  OBVIOUS
<1>4. Executes(store, ts, op, us) /\ ts \in Seq(DataTypes) /\ us \in Seq(DataTypes)
  BY <1>1, <1>2, <1>3 DEF Runs
<1>5. op.id \in DOMAIN store /\ Replaces(ts, << >>, store[op.id].type, us)
  BY <1>3, <1>4 DEF Executes
<1>6. PICK rest \in Nat : rest = Len(ts)
  BY <1>4
<1>7. Len(us) = rest + 1 /\ us[rest + 1] = store[op.id].type /\ \A j \in 1..rest : us[j] = ts[j]
  BY <1>4, <1>5, <1>6 DEF Replaces
<1>8. HasTypes(Append(SubSeq(s, 1, rest), v), us)
  <2>1. HasTypes(s, ts) /\ rest <= Len(ts) /\ v.type = us[rest + 1]
    BY <1>1, <1>3, <1>6, <1>7
  <2>2. ts \in Seq(DataTypes) /\ us \in Seq(DataTypes) /\ rest \in Nat
    BY <1>4, <1>6
  <2> QED
    BY <1>7, <2>1, <2>2, PushedHasTypes
<1>9. SubSeq(s, 1, rest) = s
  <2>1. PICK S : s \in Seq(S)
    BY <1>1 DEF HasTypes, IsSeq
  <2>2. Len(s) = rest
    BY <1>1, <1>3, <1>6 DEF HasTypes
  <2> QED
    BY <2>1, <2>2, WholeSubSeq
<1>10. at + 1 \in 1..(Len(ops) + 1) /\ (at + 1) - 1 = at
  BY <1>2
<1>11. HasTypes(Append(s, v), T[(at + 1) - 1])
  BY <1>3, <1>8, <1>9, <1>10
<1>12. Executed(store, ops, Append(s, v), at + 1, type)
  BY <1>1, <1>10, <1>11 DEF Executed
<1> QED
  BY <1>3, <1>5, <1>12

(* A function finds its arguments, and leaves its result in their place.   *)
LEMMA CallExecuted ==
    ASSUME NEW store, NEW ops \in Programs, NEW s, NEW at, NEW type,
           Executed(store, ops, s, at, type), at <= Len(ops), ops[at].op = "CALL"
    PROVE  \E f \in Range(Functions.functions) :
              /\ f.id = ops[at].func
              /\ Len(f.args) <= Len(s) /\ Len(s) \in Nat
              /\ \A k \in 1..Len(f.args) : s[Len(s) - Len(f.args) + k].type = f.args[k]
              /\ \A v : v.type = f.ret =>
                    Executed(store, ops, Append(SubSeq(s, 1, Len(s) - Len(f.args)), v), at + 1, type)
<1>1. PICK T : /\ Runs(T, Len(ops), ops, store)
               /\ Len(T[Len(ops)]) >= 1 /\ T[Len(ops)][Len(T[Len(ops)])] = type
               /\ at \in 1..(Len(ops) + 1)
               /\ HasTypes(s, T[at - 1])
  BY DEF Executed
<1>2. Len(ops) \in Nat /\ at \in 1..Len(ops) /\ at - 1 \in 0..Len(ops) /\ at \in 0..Len(ops)
  <2>1. Len(ops) \in Nat
    BY DEF Programs
  <2> QED
    BY <1>1, <2>1
<1>3. PICK op, ts, us : op = ops[at] /\ ts = T[at - 1] /\ us = T[at]
  OBVIOUS
<1>4. Executes(store, ts, op, us) /\ ts \in Seq(DataTypes) /\ us \in Seq(DataTypes)
  BY <1>1, <1>2, <1>3 DEF Runs
<1>5. PICK f \in Range(Functions.functions) : f.id = op.func /\ Replaces(ts, f.args, f.ret, us)
  BY <1>3, <1>4 DEF Executes
<1>6. PICK n : n = Len(f.args)
  OBVIOUS
<1>7. n \in Nat
  <2>1. f.args \in Seq(DataTypes)
    BY <1>5, Registered
  <2> QED
    BY <1>6, <2>1
<1>8. Len(us) \in Nat /\ Len(ts) \in Nat /\ Len(s) = Len(ts)
  BY <1>1, <1>3, <1>4 DEF HasTypes
<1>9. /\ Len(us) >= 1 /\ Len(us) + n = Len(ts) + 1
      /\ \A j \in 1..n : ts[Len(us) - 1 + j] = f.args[j]
      /\ \A j \in 1..(Len(us) - 1) : us[j] = ts[j]
      /\ us[Len(us)] = f.ret
  BY <1>5, <1>6 DEF Replaces
<1>10. PICK rest \in Nat : rest = Len(us) - 1
  <2>1. Len(us) - 1 \in Nat
    BY <1>8, <1>9
  <2> QED
    BY <2>1
<1>11. rest = Len(s) - n /\ n <= Len(s) /\ rest <= Len(ts) /\ Len(us) = rest + 1
  BY <1>7, <1>8, <1>9, <1>10
<1>12. \A k \in 1..n : s[rest + k].type = f.args[k]
  <2> TAKE k \in 1..n
  <2>1. rest + k \in 1..Len(ts)
    BY <1>7, <1>8, <1>11
  <2>2. s[rest + k].type = ts[rest + k]
    BY <1>1, <1>3, <2>1 DEF HasTypes
  <2>3. ts[rest + k] = f.args[k]
    BY <1>9, <1>10
  <2> QED
    BY <2>2, <2>3
<1>13. at + 1 \in 1..(Len(ops) + 1) /\ (at + 1) - 1 = at
  BY <1>2
<1>14. ASSUME NEW v, v.type = f.ret
       PROVE  Executed(store, ops, Append(SubSeq(s, 1, rest), v), at + 1, type)
  <2>1. v.type = us[rest + 1] /\ HasTypes(s, ts) /\ \A j \in 1..rest : us[j] = ts[j]
    BY <1>1, <1>3, <1>9, <1>10, <1>11, <1>14
  <2>2. HasTypes(Append(SubSeq(s, 1, rest), v), us)
    <3>1. ts \in Seq(DataTypes) /\ us \in Seq(DataTypes) /\ rest \in Nat
      BY <1>4, <1>10
    <3>2. rest <= Len(ts) /\ Len(us) = rest + 1
      BY <1>11
    <3> QED
      BY <2>1, <3>1, <3>2, PushedHasTypes
  <2>3. HasTypes(Append(SubSeq(s, 1, rest), v), T[(at + 1) - 1])
    BY <1>3, <1>13, <2>2
  <2> QED
    BY <1>1, <1>13, <2>3 DEF Executed
<1> QED
  BY <1>3, <1>5, <1>6, <1>8, <1>11, <1>12, <1>14

(* In the end the result is on the top.                                    *)
LEMMA ResultExecuted ==
    ASSUME NEW store, NEW ops \in Programs, NEW s, NEW type,
           Executed(store, ops, s, Len(ops) + 1, type)
    PROVE  s # << >> /\ Len(s) \in Nat \ {0} /\ s[Len(s)].type = type
<1>1. PICK T : /\ Runs(T, Len(ops), ops, store)
               /\ Len(T[Len(ops)]) >= 1 /\ T[Len(ops)][Len(T[Len(ops)])] = type
               /\ HasTypes(s, T[Len(ops) + 1 - 1])
  BY DEF Executed
<1>2. Len(ops) \in Nat
  BY DEF Programs
<1>3. PICK ts : ts = T[Len(ops)]
  OBVIOUS
<1>4. ts \in Seq(DataTypes)
  BY <1>1, <1>2, <1>3 DEF Runs
<1>5. Len(ts) \in Nat /\ Len(ts) >= 1 /\ ts[Len(ts)] = type
  BY <1>1, <1>3, <1>4
<1>6. HasTypes(s, ts)
  BY <1>1, <1>2, <1>3
<1>7. Len(s) = Len(ts) /\ s[Len(ts)].type = ts[Len(ts)]
  BY <1>5, <1>6 DEF HasTypes
<1>8. s # << >>
  BY <1>5, <1>7
<1> QED
  BY <1>5, <1>7, <1>8
-----------------------------------------------------------------------------
(* The state of an execution: the values have the types of the variables,  *)
(* each call is for a node, and an expression that is evaluated will leave *)
(* what its node takes.                                                    *)

MemoryTyped(store, mem) ==
    DOMAIN mem = DOMAIN store /\ \A id \in DOMAIN store : mem[id].type = store[id].type

FrameOK(ns, f) ==
    /\ f.call \in {"execute", "siblings"} /\ f.node \in 0..Len(ns)
    /\ f.call = "execute" =>
          /\ f.node # 0
          /\ f.arg \in 1..(Len(ns[f.node].programs) + 1)
          /\ ns[f.node].kind \notin {"Write", "WriteLn"} => f.arg = 1

FramesOK(ns, fs) == IsSeq(fs) /\ \A k \in DOMAIN fs : FrameOK(ns, fs[k])

Wanted(store, x, type) ==
    /\ x.kind = "Assign" => type = store[x.id].type
    /\ x.kind \in {"If", "While"} => type = "boolean"

EvaluationInv ==
    status # "idle" =>
        /\ frames # << >> /\ frames[1].call = "execute"
        /\ frames[1].arg \in DOMAIN nodes[frames[1].node].programs
        /\ code \in Programs
        /\ status \in {"running", "value"} =>
              \E type : /\ Wanted(infos, nodes[frames[1].node], type)
                        /\ Executed(infos, code, values, ip, type)
        /\ status = "value" => ip = Len(code) + 1

Stopped == {"zero division", "trap"}

ExecutingInv ==
    /\ MemoryTyped(infos, memory)
    /\ FramesOK(nodes, frames)
    /\ EvaluationInv
    /\ status \in {"idle", "running", "value"} \cup Stopped
    /\ execution \in {"executing", "done"} \cup Stopped

(* What is executed.                                                       *)
NodesOK ==
    /\ infos \in Seq(VariableInfo) /\ nodes \in Seq(Nodes)
    /\ NodesTyped(infos, nodes)
    /\ \A k \in DOMAIN nodes :
          /\ nodes[k].child < k
          /\ nodes[k].next = 0 \/ nodes[k].next \in (k + 1)..Len(nodes)
          /\ nodes[k].kind \in {"If", "While"} => nodes[k].child # 0

LEMMA NodesAreOK == ASSUME ProgramInv, TypedInv PROVE NodesOK
BY DEF ProgramInv, ProgramTypeOK, TreeInv, BoundsInv, TypedInv, NodesOK

LEMMA StoppedIs ==
    \A s \in Stopped : s \notin {"idle", "running", "value", "executing", "done"}
BY Zenon DEF Stopped
-----------------------------------------------------------------------------
LEMMA PopsTyped ==
    ASSUME NEW func \in Execution!Opcodes
    PROVE  Execution!Pops(func) \in Seq(Execution!ValueTypes) /\ Len(Execution!Pops(func)) \in Nat \ {0}
<1>1. /\ <<"integer", "integer">> \in Seq(Execution!ValueTypes)
      /\ <<"double", "double">> \in Seq(Execution!ValueTypes)
      /\ <<"boolean", "boolean">> \in Seq(Execution!ValueTypes)
      /\ <<"string", "string">> \in Seq(Execution!ValueTypes)
      /\ <<"double">> \in Seq(Execution!ValueTypes) /\ <<"integer">> \in Seq(Execution!ValueTypes)
      /\ <<"boolean">> \in Seq(Execution!ValueTypes)
  BY DEF Execution!ValueTypes
<1>2. \/ func \in Execution!IntBinary \cup Execution!IntDivision \cup Execution!IntRelations
      \/ func \in Execution!DoubleBinary \cup Execution!DoubleRelations
      \/ func \in Execution!BoolBinary
      \/ func = "ADD_STRING_STRING"
      \/ func \in Execution!DoubleUnary \cup Execution!Roundings \cup {"TO_STRING_DOUBLE"}
      \/ func \in {"NEGATE_INT", "ABS_INT", "CAST_INT_DOUBLE", "TO_STRING_INT"}
      \/ func \in {"NOT_BOOL", "TO_STRING_BOOL"}
  BY DEF Execution!Opcodes, Execution!ToStrings
<1>3. Execution!Pops(func) \in {<<"integer", "integer">>, <<"double", "double">>,
                      <<"boolean", "boolean">>,
                      <<"string", "string">>, <<"double">>, <<"integer">>, <<"boolean">>}
  BY <1>2 DEF Execution!Pops, Execution!IntBinary, Execution!IntDivision, Execution!IntRelations,
              Execution!DoubleBinary, Execution!DoubleRelations, Execution!BoolBinary,
              Execution!DoubleUnary, Execution!Roundings
<1>4. Execution!Pops(func) \in Seq(Execution!ValueTypes)
  BY <1>1, <1>3
<1>5. Len(Execution!Pops(func)) # 0
  BY <1>3
<1> QED
  BY <1>4, <1>5

LEMMA PushedTyped ==
    ASSUME NEW func \in Execution!Opcodes, NEW a, NEW v \in Execution!Pushed(func, a)
    PROVE  v.type = Execution!Pushes(func)
<1> USE DEF Execution!Pushed, Execution!Pushes, Execution!Value
<1>1. CASE func \in Execution!IntBinary \cup Execution!IntDivision
  BY <1>1 DEF Execution!IntBinary, Execution!IntDivision
<1>2. CASE func = "NEGATE_INT"
  BY <1>2 DEF Execution!IntBinary, Execution!IntDivision
<1>3. CASE func = "ABS_INT"
  BY <1>3 DEF Execution!IntBinary, Execution!IntDivision
<1>4. CASE func \in Execution!Roundings
  BY <1>4 DEF Execution!IntBinary, Execution!IntDivision, Execution!Roundings
<1>5. CASE func = "CAST_INT_DOUBLE"
  BY <1>5 DEF Execution!IntBinary, Execution!IntDivision, Execution!Roundings
<1>6. CASE func \in Execution!DoubleBinary \cup Execution!DoubleUnary
  BY <1>6 DEF Execution!IntBinary, Execution!IntDivision, Execution!Roundings,
              Execution!DoubleBinary, Execution!DoubleUnary
<1>7. CASE func \in Execution!IntRelations
  BY <1>7 DEF Execution!IntBinary, Execution!IntDivision, Execution!Roundings,
              Execution!DoubleBinary, Execution!DoubleUnary, Execution!IntRelations
<1>8. CASE func \in Execution!DoubleRelations
  BY <1>8 DEF Execution!IntBinary, Execution!IntDivision, Execution!Roundings,
              Execution!DoubleBinary, Execution!DoubleUnary, Execution!IntRelations,
              Execution!DoubleRelations
<1>9. CASE func \in Execution!BoolBinary
  BY <1>9 DEF Execution!IntBinary, Execution!IntDivision, Execution!Roundings,
              Execution!DoubleBinary, Execution!DoubleUnary, Execution!IntRelations,
              Execution!DoubleRelations, Execution!BoolBinary
<1>10. CASE func = "NOT_BOOL"
  BY <1>10 DEF Execution!IntBinary, Execution!IntDivision, Execution!Roundings,
              Execution!DoubleBinary, Execution!DoubleUnary, Execution!IntRelations,
              Execution!DoubleRelations, Execution!BoolBinary
<1>11. CASE func \in Execution!ToStrings \cup {"ADD_STRING_STRING"}
  BY <1>11 DEF Execution!IntBinary, Execution!IntDivision, Execution!Roundings,
              Execution!DoubleBinary, Execution!DoubleUnary, Execution!IntRelations,
              Execution!DoubleRelations, Execution!BoolBinary, Execution!ToStrings
<1> QED
  BY <1>1, <1>2, <1>3, <1>4, <1>5, <1>6, <1>7, <1>8, <1>9, <1>10, <1>11 DEF Execution!Opcodes
-----------------------------------------------------------------------------
(* The calls that are made.                                                *)

LEMMA FramesJoined ==
    ASSUME NEW ns, NEW fs, NEW gs, FramesOK(ns, fs), FramesOK(ns, gs)
    PROVE  FramesOK(ns, fs \o gs)
<1>1. PICK S : fs \in Seq(S)
  BY DEF FramesOK, IsSeq
<1>2. PICK R : gs \in Seq(R)
  BY DEF FramesOK, IsSeq
<1>3. fs \in Seq(S \cup R) /\ gs \in Seq(S \cup R)
  BY <1>1, <1>2
<1>4. /\ fs \o gs \in Seq(S \cup R) /\ Len(fs \o gs) = Len(fs) + Len(gs)
      /\ \A i \in 1..Len(fs) : (fs \o gs)[i] = fs[i]
      /\ \A i \in 1..Len(gs) : (fs \o gs)[Len(fs) + i] = gs[i]
  BY <1>3
<1>5. Len(fs) \in Nat /\ DOMAIN fs = 1..Len(fs) /\ Len(gs) \in Nat /\ DOMAIN gs = 1..Len(gs)
  BY <1>3
<1>6. ASSUME NEW k \in DOMAIN (fs \o gs) PROVE FrameOK(ns, (fs \o gs)[k])
  <2>1. k \in 1..(Len(fs) + Len(gs))
    BY <1>4
  <2>2. CASE k <= Len(fs)
    <3>1. k \in 1..Len(fs)
      BY <2>1, <2>2
    <3> QED
      BY <1>4, <1>5, <3>1 DEF FramesOK
  <2>3. CASE k > Len(fs)
    <3>1. k - Len(fs) \in 1..Len(gs) /\ Len(fs) + (k - Len(fs)) = k
      BY <1>5, <2>1, <2>3
    <3>2. (fs \o gs)[Len(fs) + (k - Len(fs))] = gs[k - Len(fs)]
      BY <1>4, <3>1
    <3> QED
      BY <1>5, <3>1, <3>2 DEF FramesOK
  <2> QED
    BY <1>5, <2>1, <2>2, <2>3
<1>7. IsSeq(fs \o gs)
  BY <1>4 DEF IsSeq
<1> QED
  BY <1>6, <1>7 DEF FramesOK

LEMMA FramesReturned ==
    ASSUME NEW ns, NEW fs, FramesOK(ns, fs), fs # << >>
    PROVE  FramesOK(ns, Tail(fs)) /\ Head(fs) = fs[1] /\ FrameOK(ns, fs[1])
<1>1. PICK S : fs \in Seq(S)
  BY DEF FramesOK, IsSeq
<1>2. /\ Tail(fs) \in Seq(S) /\ Len(Tail(fs)) = Len(fs) - 1 /\ Len(fs) \in Nat \ {0}
      /\ DOMAIN fs = 1..Len(fs) /\ Head(fs) = fs[1]
      /\ \A k \in 1..(Len(fs) - 1) : Tail(fs)[k] = fs[k + 1]
  BY <1>1
<1>3. IsSeq(Tail(fs))
  BY <1>2 DEF IsSeq
<1>4. ASSUME NEW k \in DOMAIN Tail(fs) PROVE FrameOK(ns, Tail(fs)[k])
  <2>1. k \in 1..(Len(fs) - 1) /\ k + 1 \in DOMAIN fs
    BY <1>2
  <2>2. Tail(fs)[k] = fs[k + 1]
    BY <1>2, <2>1
  <2> QED
    BY <2>1, <2>2 DEF FramesOK
<1>5. 1 \in DOMAIN fs
  BY <1>2
<1> QED
  BY <1>2, <1>3, <1>4, <1>5 DEF FramesOK

LEMMA OneFrame ==
    ASSUME NEW ns, NEW f, FrameOK(ns, f)
    PROVE  FramesOK(ns, <<f>>)
<1>1. <<f>> \in Seq({f}) /\ DOMAIN <<f>> = {1} /\ <<f>>[1] = f
  OBVIOUS
<1> QED
  BY <1>1 DEF FramesOK, IsSeq

LEMMA NoFrames == ASSUME NEW ns PROVE FramesOK(ns, << >>)
<1>1. << >> \in Seq({}) /\ DOMAIN << >> = {}
  OBVIOUS
<1> QED
  BY <1>1 DEF FramesOK, IsSeq

LEMMA NewFrames ==
    ASSUME NodesOK, NEW n \in 0..Len(nodes)
    PROVE  /\ FramesOK(nodes, Execution!Siblings(n))
           /\ n # 0 => FramesOK(nodes, Execution!Execute(n))
<1>1. FrameOK(nodes, Execution!Frame("siblings", n))
  BY DEF FrameOK, Execution!Frame
<1>2. ASSUME n # 0 PROVE FrameOK(nodes, Execution!Frame("execute", n))
  <2>1. nodes[n] \in Nodes
    BY <1>2 DEF NodesOK
  <2>2. Len(nodes[n].programs) \in Nat
    BY <2>1 DEF Nodes
  <2> QED
    BY <1>2, <2>2 DEF FrameOK, Execution!Frame
<1> QED
  BY <1>1, <1>2, OneFrame DEF Execution!Siblings, Execution!Execute

LEMMA FramesReplaced ==
    ASSUME FramesOK(nodes, frames), frames # << >>, NEW calls, FramesOK(nodes, calls),
           Execution!ReplaceBy(calls), nodes' = nodes
    PROVE  FramesOK(nodes', frames')
<1>1. FramesOK(nodes, Tail(frames))
  BY FramesReturned
<1>2. FramesOK(nodes, calls \o Tail(frames))
  BY <1>1, FramesJoined
<1> QED
  BY <1>2 DEF Execution!ReplaceBy

(* The call that runs, and the node it executes.                           *)
LEMMA CallThatRuns ==
    ASSUME NodesOK, ExecutingInv, frames # << >>
    PROVE  /\ Execution!Due = frames[1] /\ FrameOK(nodes, frames[1])
           /\ frames[1].call = "execute" =>
                 /\ frames[1].node \in DOMAIN nodes /\ frames[1].node \in 1..Len(nodes)
                 /\ Execution!DueNode = nodes[frames[1].node]
                 /\ Execution!DueNode \in Nodes /\ NodeTyped(infos, Execution!DueNode)
                 /\ Execution!DueNode.child \in 0..Len(nodes)
                 /\ Execution!DueNode.next \in 0..Len(nodes)
                 /\ Execution!DueNode.kind \in {"If", "While"} => Execution!DueNode.child # 0
                 /\ Len(Execution!DueNode.programs) \in Nat
                 /\ DOMAIN Execution!DueNode.programs = 1..Len(Execution!DueNode.programs)
                 /\ Execution!DueNode.programs \in Seq(Programs)
<1>1. Execution!Due = frames[1] /\ FrameOK(nodes, frames[1])
  BY FramesReturned DEF ExecutingInv, Execution!Due
<1>2. ASSUME frames[1].call = "execute"
      PROVE  /\ frames[1].node \in DOMAIN nodes /\ frames[1].node \in 1..Len(nodes)
             /\ nodes[frames[1].node] \in Nodes /\ NodeTyped(infos, nodes[frames[1].node])
             /\ nodes[frames[1].node].child \in 0..Len(nodes)
             /\ nodes[frames[1].node].next \in 0..Len(nodes)
             /\ nodes[frames[1].node].kind \in {"If", "While"} => nodes[frames[1].node].child # 0
             /\ Len(nodes[frames[1].node].programs) \in Nat
             /\ DOMAIN nodes[frames[1].node].programs = 1..Len(nodes[frames[1].node].programs)
             /\ nodes[frames[1].node].programs \in Seq(Programs)
  <2>1. PICK n : n = frames[1].node
    OBVIOUS
  <2>2. nodes \in Seq(Nodes)
    BY DEF NodesOK
  <2>3. n \in DOMAIN nodes /\ n \in 1..Len(nodes) /\ Len(nodes) \in Nat
    BY <1>1, <1>2, <2>1, <2>2 DEF FrameOK
  <2>4. nodes[n] \in Nodes
    BY <2>2, <2>3
  <2>5. /\ nodes[n].child \in Nat /\ nodes[n].next \in Nat /\ nodes[n].programs \in Seq(Programs)
    BY <2>4 DEF Nodes, Programs
  <2>6. Len(nodes[n].programs) \in Nat /\ DOMAIN nodes[n].programs = 1..Len(nodes[n].programs)
    BY <2>5
  <2>7. /\ nodes[n].child \in 0..Len(nodes) /\ nodes[n].next \in 0..Len(nodes)
        /\ nodes[n].kind \in {"If", "While"} => nodes[n].child # 0
        /\ NodeTyped(infos, nodes[n])
    BY <2>3, <2>5 DEF NodesOK, NodesTyped
  <2> QED
    BY <2>1, <2>3, <2>4, <2>5, <2>6, <2>7
<1> QED
  BY <1>1, <1>2 DEF Execution!DueNode
-----------------------------------------------------------------------------
(* The operations of an expression.                                        *)

(* What a step of the interpreter leaves unchanged.                        *)
OnlyEvaluates == UNCHANGED <<infos, nodes, memory, frames, execution, code>>

LEMMA RunsOn ==
    ASSUME ExecutingInv, OnlyEvaluates, status = "running", status' = "running",
           NEW type, Wanted(infos, nodes[frames[1].node], type),
           Executed(infos, code, values', ip', type)
    PROVE  ExecutingInv'
<1>1. UNCHANGED <<infos, nodes, memory, frames, execution, code>>
  BY DEF OnlyEvaluates
<1>2. /\ frames # << >> /\ frames[1].call = "execute"
      /\ frames[1].arg \in DOMAIN nodes[frames[1].node].programs /\ code \in Programs
  BY DEF ExecutingInv, EvaluationInv
<1>3. EvaluationInv'
  BY <1>1, <1>2 DEF EvaluationInv
<1> QED
  BY <1>1, <1>3 DEF ExecutingInv

LEMMA Stops ==
    ASSUME ExecutingInv, OnlyEvaluates, status = "running", status' \in Stopped
    PROVE  ExecutingInv'
<1>1. UNCHANGED <<infos, nodes, memory, frames, execution, code>>
  BY DEF OnlyEvaluates
<1>2. /\ frames # << >> /\ frames[1].call = "execute"
      /\ frames[1].arg \in DOMAIN nodes[frames[1].node].programs /\ code \in Programs
  BY DEF ExecutingInv, EvaluationInv
<1>3. status' \notin {"running", "value"}
  BY StoppedIs
<1>4. EvaluationInv'
  BY <1>1, <1>2, <1>3 DEF EvaluationInv
<1> QED
  BY <1>1, <1>4 DEF ExecutingInv

LEMMA LoadKeeps == ASSUME NodesOK, ExecutingInv, Execution!Load, OnlyEvaluates PROVE ExecutingInv'
<1>1. status = "running" /\ ip <= Len(code) /\ code[ip].op = "LOAD"
  BY DEF Execution!Load, Execution!AtOp, Execution!Running
<1>2. PICK type : /\ Wanted(infos, nodes[frames[1].node], type)
                  /\ Executed(infos, code, values, ip, type)
  BY <1>1 DEF ExecutingInv, EvaluationInv
<1>3. PICK id : id = code[ip].id
  OBVIOUS
<1>4. code \in Programs
  BY <1>1 DEF ExecutingInv, EvaluationInv
<1>5. \A v : v.type = infos[id].type =>
          id \in DOMAIN infos /\ Executed(infos, code, Append(values, v), ip + 1, type)
  BY <1>1, <1>2, <1>3, <1>4, LoadExecuted
<1>6. id \in DOMAIN infos
  <2>1. [type |-> infos[id].type].type = infos[id].type
    OBVIOUS
  <2> QED
    BY <1>5, <2>1
<1>7. infos[id].type \in Execution!ValueTypes /\ memory[id].type = infos[id].type
  <2>1. infos[id] \in VariableInfo
    BY <1>6 DEF NodesOK
  <2>2. infos[id].type \in DataTypes
    BY <2>1 DEF VariableInfo
  <2> QED
    BY <1>6, <2>2, OperationsAssumption DEF ExecutingInv, MemoryTyped
<1>8. values' = Append(values, memory[id]) /\ ip' = ip + 1 /\ status' = status
  BY <1>3, <1>6, <1>7 DEF Execution!Load
<1>9. Executed(infos, code, values', ip', type)
  BY <1>5, <1>7, <1>8
<1> QED
  BY <1>1, <1>2, <1>8, <1>9, RunsOn

(* The function that an operation calls is registered, and its arguments   *)
(* are on the stack.                                                       *)
LEMMA ArgumentsFound ==
    ASSUME NodesOK, ExecutingInv, Execution!AtOp("CALL")
    PROVE  /\ Execution!Supported /\ Execution!Wrong = {}
           /\ \E type : /\ Wanted(infos, nodes[frames[1].node], type)
                        /\ \A v : v.type = Execution!Pushes(code[ip].func) =>
                             Executed(infos, code,
                                      Append(SubSeq(values, 1, Execution!Position(0)), v), ip + 1, type)
<1>1. status = "running" /\ ip <= Len(code) /\ code[ip].op = "CALL" /\ code \in Programs
  BY DEF Execution!AtOp, Execution!Running, ExecutingInv, EvaluationInv
<1>2. PICK type : /\ Wanted(infos, nodes[frames[1].node], type)
                  /\ Executed(infos, code, values, ip, type)
  BY <1>1 DEF ExecutingInv, EvaluationInv
<1>3. PICK func : func = code[ip].func
  OBVIOUS
<1>4. PICK f \in Range(Functions.functions) :
         /\ f.id = code[ip].func
         /\ Len(f.args) <= Len(values) /\ Len(values) \in Nat
         /\ \A k \in 1..Len(f.args) : values[Len(values) - Len(f.args) + k].type = f.args[k]
         /\ \A v : v.type = f.ret =>
               Executed(infos, code, Append(SubSeq(values, 1, Len(values) - Len(f.args)), v),
                        ip + 1, type)
  BY <1>1, <1>2, CallExecuted
<1>5. /\ func \in Execution!Opcodes
      /\ f.args = Execution!Pops(func) /\ f.ret = Execution!Pushes(func)
  BY <1>3, <1>4, OperationsAssumption
<1>6. PICK n : n = Len(f.args)
  OBVIOUS
<1>7. n \in Nat \ {0} /\ DOMAIN f.args = 1..n
  <2>1. Execution!Pops(func) \in Seq(Execution!ValueTypes) /\ Len(Execution!Pops(func)) \in Nat \ {0}
    BY <1>5, PopsTyped
  <2> QED
    BY <1>5, <1>6, <2>1
<1>8. \A k \in 0..n : Execution!Position(k) = Len(values) - n + k
  BY <1>3, <1>5, <1>6 DEF Execution!Position
<1>9. Execution!Position(0) = Len(values) - n
  <2>1. 0 \in 0..n /\ Execution!Position(0) = Len(values) - n + 0
    BY <1>7, <1>8
  <2> QED
    BY <1>4, <1>7, <2>1
<1>10. Execution!Wrong = {}
  <2> SUFFICES ASSUME NEW k \in DOMAIN Execution!Pops(code[ip].func),
                      \/ Execution!Position(k) < 1
                      \/ values[Execution!Position(k)].type # Execution!Pops(code[ip].func)[k]
               PROVE  FALSE
    BY DEF Execution!Wrong
  <2>1. k \in 1..n
    BY <1>3, <1>5, <1>7
  <2>2. Execution!Position(k) = Len(values) - n + k
    BY <1>7, <1>8, <2>1
  <2>3. Len(values) - n + k >= 1
    BY <1>4, <1>6, <1>7, <2>1
  <2>4. values[Len(values) - n + k].type = f.args[k]
    BY <1>4, <1>6, <2>1
  <2> QED
    BY <1>3, <1>4, <1>5, <1>7, <2>1, <2>2, <2>3, <2>4
<1>11. Execution!Supported
  BY <1>3, <1>5 DEF Execution!Supported
<1> QED
  BY <1>2, <1>3, <1>4, <1>5, <1>6, <1>9, <1>10, <1>11

LEMMA CallKeeps == ASSUME NodesOK, ExecutingInv, Execution!Call, OnlyEvaluates PROVE ExecutingInv'
<1>1. /\ Execution!AtOp("CALL") /\ Execution!Supported /\ status = "running"
      /\ ip' = ip + 1 /\ status' = status
  BY DEF Execution!Call, Execution!AtOp, Execution!Running
<1>2. PICK v \in Execution!Pushed(code[ip].func, Execution!Args) :
         values' = Append(SubSeq(values, 1, Execution!Position(0)), v)
  BY DEF Execution!Call
<1>3. v.type = Execution!Pushes(code[ip].func)
  BY <1>1, <1>2, PushedTyped DEF Execution!Supported
<1>4. PICK type : /\ Wanted(infos, nodes[frames[1].node], type)
                  /\ \A w : w.type = Execution!Pushes(code[ip].func) =>
                       Executed(infos, code,
                                Append(SubSeq(values, 1, Execution!Position(0)), w), ip + 1, type)
  BY <1>1, ArgumentsFound
<1>5. Executed(infos, code, values', ip', type)
  BY <1>1, <1>2, <1>3, <1>4
<1> QED
  BY <1>1, <1>4, <1>5, RunsOn

LEMMA ReturnKeeps ==
    ASSUME NodesOK, ExecutingInv, Execution!Return, OnlyEvaluates PROVE ExecutingInv'
<1>1. status = "running" /\ ip > Len(code) /\ UNCHANGED <<values, ip>> /\ code \in Programs
  BY DEF Execution!Return, Execution!Running, ExecutingInv, EvaluationInv
<1>2. PICK type : /\ Wanted(infos, nodes[frames[1].node], type)
                  /\ Executed(infos, code, values, ip, type)
  BY <1>1 DEF ExecutingInv, EvaluationInv
<1>3. ip = Len(code) + 1
  <2>1. ip \in 1..(Len(code) + 1)
    BY <1>2 DEF Executed
  <2>2. Len(code) \in Nat
    BY <1>1 DEF Programs
  <2> QED
    BY <1>1, <2>1, <2>2
<1>4. values # << >>
  BY <1>1, <1>2, <1>3, ResultExecuted
<1>5. status' = "value"
  BY <1>4 DEF Execution!Return
<1>6. UNCHANGED <<infos, nodes, memory, frames, execution, code>>
  BY DEF OnlyEvaluates
<1>7. EvaluationInv'
  <2>1. /\ frames # << >> /\ frames[1].call = "execute"
        /\ frames[1].arg \in DOMAIN nodes[frames[1].node].programs
    BY <1>1 DEF ExecutingInv, EvaluationInv
  <2> QED
    BY <1>1, <1>2, <1>3, <1>6, <2>1 DEF EvaluationInv
<1> QED
  BY <1>5, <1>6, <1>7 DEF ExecutingInv

LEMMA InterpretKeeps ==
    ASSUME NodesOK, ExecutingInv, Execution!Interpret
    PROVE  ExecutingInv' /\ UNCHANGED <<infos, nodes, root>>
<1>1. CASE Execution!Load \/ Execution!Call \/ Execution!Return
  <2>1. OnlyEvaluates /\ UNCHANGED root
    BY <1>1 DEF Execution!Interpret, Execution!nodeVars, Execution!streams, Execution!Load,
                Execution!Call, Execution!Return, OnlyEvaluates
  <2> QED
    BY <1>1, <2>1, LoadKeeps, CallKeeps, ReturnKeeps DEF OnlyEvaluates
<1>2. CASE Execution!CallUnsupported \/ Execution!CallFaults
  <2>1. Execution!AtOp("CALL") /\ (~Execution!Supported \/ Execution!Wrong # {})
    BY <1>2 DEF Execution!CallUnsupported, Execution!CallFaults
  <2> QED
    BY <2>1, ArgumentsFound
<1>3. CASE Execution!CallDividesByZero \/ Execution!CallTraps
  <2>1. OnlyEvaluates /\ UNCHANGED root
    BY <1>3 DEF Execution!Interpret, Execution!nodeVars, Execution!streams,
                Execution!CallDividesByZero, Execution!CallTraps, OnlyEvaluates
  <2>2. status' \in Stopped
    BY <1>3, Zenon DEF Execution!CallDividesByZero, Execution!CallTraps, Stopped
  <2>3. status = "running"
    BY <1>3 DEF Execution!CallDividesByZero, Execution!CallTraps, Execution!AtOp, Execution!Running
  <2> QED
    BY <2>1, <2>2, <2>3, Stops DEF OnlyEvaluates
<1> QED
  BY <1>1, <1>2, <1>3 DEF Execution!Interpret
-----------------------------------------------------------------------------
(* The calls of the nodes.                                                 *)

(* No expression is evaluated after the step.                              *)
LEMMA IdleKeeps ==
    ASSUME ExecutingInv, UNCHANGED <<infos, nodes>>, status' = "idle",
           MemoryTyped(infos, memory'), FramesOK(nodes, frames'), execution' = execution
    PROVE  ExecutingInv'
BY DEF ExecutingInv, EvaluationInv

(* A node without expressions, or behind its last one, evaluates none.     *)
LEMMA NoneEvaluated ==
    ASSUME ExecutingInv, frames = << >> \/ frames[1].call # "execute"
                            \/ frames[1].arg \notin DOMAIN nodes[frames[1].node].programs
    PROVE  status = "idle"
BY DEF ExecutingInv, EvaluationInv

(* The result of an expression is what its node takes.                     *)
LEMMA ResultTaken ==
    ASSUME NodesOK, ExecutingInv, status = "value"
    PROVE  Wanted(infos, nodes[frames[1].node], Execution!Result.type)
<1>1. PICK type : /\ Wanted(infos, nodes[frames[1].node], type)
                  /\ Executed(infos, code, values, ip, type)
  BY DEF ExecutingInv, EvaluationInv
<1>2. ip = Len(code) + 1 /\ code \in Programs
  BY DEF ExecutingInv, EvaluationInv
<1>3. values[Len(values)].type = type
  BY <1>1, <1>2, ResultExecuted
<1> QED
  BY <1>1, <1>3 DEF Execution!Result

LEMMA NextSiblingKeeps ==
    ASSUME NodesOK, ExecutingInv, Execution!NextSibling
    PROVE  ExecutingInv' /\ UNCHANGED <<infos, nodes, root>>
<1>1. /\ frames # << >> /\ Execution!Due.call = "siblings"
      /\ UNCHANGED <<infos, nodes, root, memory, execution, status>>
      /\ Execution!ReplaceBy(IF Execution!Due.node = 0 THEN << >>
                             ELSE Execution!Execute(Execution!Due.node)
                                    \o Execution!Siblings(Execution!DueNode.next))
  BY DEF Execution!NextSibling, Execution!Calls, Execution!nodeVars, Execution!interpreterVars
<1>2. Execution!Due = frames[1] /\ FrameOK(nodes, frames[1])
  BY <1>1, CallThatRuns
<1>3. status = "idle"
  BY <1>1, <1>2, NoneEvaluated
<1>4. PICK n : n = frames[1].node
  OBVIOUS
<1>5. n \in 0..Len(nodes) /\ Len(nodes) \in Nat /\ DOMAIN nodes = 1..Len(nodes)
  BY <1>2, <1>4 DEF FrameOK, NodesOK
<1>6. CASE n = 0
  <2>1. Execution!ReplaceBy(<< >>)
    BY <1>1, <1>2, <1>4, <1>6
  <2>2. FramesOK(nodes', frames')
    BY <1>1, <2>1, NoFrames, FramesReplaced DEF ExecutingInv
  <2> QED
    BY <1>1, <1>3, <2>2, IdleKeeps DEF ExecutingInv
<1>7. CASE n # 0
  <2>1. n \in DOMAIN nodes
    BY <1>5, <1>7
  <2>3. nodes[n].next \in 0..Len(nodes)
    <3>1. nodes[n].next = 0 \/ nodes[n].next \in (n + 1)..Len(nodes)
      BY <2>1 DEF NodesOK
    <3> QED
      BY <1>5, <3>1
  <2>4. FramesOK(nodes, Execution!Execute(n) \o Execution!Siblings(nodes[n].next))
    BY <1>5, <1>7, <2>3, NewFrames, FramesJoined
  <2>5. Execution!ReplaceBy(Execution!Execute(n) \o Execution!Siblings(nodes[n].next))
    BY <1>1, <1>2, <1>4, <1>7 DEF Execution!DueNode
  <2>6. FramesOK(nodes', frames')
    BY <1>1, <2>4, <2>5, FramesReplaced DEF ExecutingInv
  <2> QED
    BY <1>1, <1>3, <2>6, IdleKeeps DEF ExecutingInv
<1> QED
  BY <1>6, <1>7

(* The node that a call executes.                                          *)
LEMMA KindExecuted ==
    ASSUME NodesOK, ExecutingInv, NEW kind, Execution!Executes(kind)
    PROVE  /\ execution = "executing" /\ frames # << >> /\ frames[1].call = "execute"
           /\ Execution!Due = frames[1] /\ FrameOK(nodes, frames[1])
           /\ Execution!DueNode = nodes[frames[1].node] /\ Execution!DueNode.kind = kind
           /\ NodeTyped(infos, Execution!DueNode)
           /\ Execution!DueNode.child \in 0..Len(nodes)
           /\ kind \in {"If", "While"} => Execution!DueNode.child # 0
           /\ Len(Execution!DueNode.programs) \in Nat
           /\ DOMAIN Execution!DueNode.programs = 1..Len(Execution!DueNode.programs)
<1>1. /\ execution = "executing" /\ frames # << >> /\ Execution!Due.call = "execute"
      /\ Execution!DueNode.kind = kind
  BY DEF Execution!Executes, Execution!Calls
<1>2. Execution!Due = frames[1] /\ FrameOK(nodes, frames[1])
  BY <1>1, CallThatRuns
<1> QED
  BY <1>1, <1>2, CallThatRuns

LEMMA BlockKeeps ==
    ASSUME NodesOK, ExecutingInv, Execution!Block
    PROVE  ExecutingInv' /\ UNCHANGED <<infos, nodes, root>>
<1>1. /\ Execution!Executes("Block")
      /\ Execution!ReplaceBy(Execution!Siblings(Execution!DueNode.child))
      /\ UNCHANGED <<infos, nodes, root, memory, execution, status>>
  BY DEF Execution!Block, Execution!nodeVars, Execution!interpreterVars
<1>2. /\ frames # << >> /\ Execution!DueNode = nodes[frames[1].node]
      /\ Execution!DueNode.kind = "Block" /\ NodeTyped(infos, Execution!DueNode)
      /\ Execution!DueNode.child \in 0..Len(nodes)
  BY <1>1, KindExecuted
<1>3. status = "idle"
  <2>1. nodes[frames[1].node].programs = << >>
    BY <1>2 DEF NodeTyped
  <2>2. DOMAIN << >> = {}
    OBVIOUS
  <2> QED
    BY <2>1, <2>2, NoneEvaluated
<1>4. FramesOK(nodes', frames')
  <2>1. FramesOK(nodes, Execution!Siblings(Execution!DueNode.child))
    BY <1>2, NewFrames
  <2> QED
    BY <1>1, <1>2, <2>1, FramesReplaced DEF ExecutingInv
<1> QED
  BY <1>1, <1>3, <1>4, IdleKeeps DEF ExecutingInv

(* A program of a typed node leaves what the node takes.                   *)
LEMMA TypedPrograms ==
    ASSUME NEW store, NEW x, NodeTyped(store, x), NEW k \in DOMAIN x.programs,
           x.kind \notin {"Write", "WriteLn"} => k = 1
    PROVE  \E type : Computes(store, x.programs[k], type) /\ Wanted(store, x, type)
<1>1. CASE x.kind = "Assign"
  BY <1>1 DEF NodeTyped, Wanted
<1>2. CASE x.kind \in {"If", "While"}
  BY <1>2 DEF NodeTyped, Wanted
<1>3. CASE x.kind \notin {"Assign", "If", "While"}
  BY <1>3 DEF NodeTyped, Wanted, ComputesSome
<1> QED
  BY <1>1, <1>2, <1>3

LEMMA EvaluateKeeps ==
    ASSUME NodesOK, ExecutingInv, Execution!Evaluate
    PROVE  ExecutingInv' /\ UNCHANGED <<infos, nodes, root>>
<1>1. /\ frames # << >> /\ Execution!Due.call = "execute"
      /\ Execution!Due.arg \in DOMAIN Execution!DueNode.programs
      /\ code' = Execution!DueNode.programs[Execution!Due.arg]
      /\ values' = << >> /\ ip' = 1 /\ status' = "running"
      /\ UNCHANGED <<infos, nodes, root, memory, execution, frames>>
  BY DEF Execution!Evaluate, Execution!Calls, Execution!nodeVars
<1>2. /\ Execution!Due = frames[1] /\ FrameOK(nodes, frames[1])
      /\ Execution!DueNode = nodes[frames[1].node] /\ NodeTyped(infos, Execution!DueNode)
      /\ Execution!DueNode.programs \in Seq(Programs)
      /\ frames[1].call = "execute"
  BY <1>1, CallThatRuns
<1>3. PICK x, k : x = nodes[frames[1].node] /\ k = frames[1].arg
  OBVIOUS
<1>4. NodeTyped(infos, x) /\ k \in DOMAIN x.programs /\ code' = x.programs[k]
  BY <1>1, <1>2, <1>3
<1>5. x.kind \notin {"Write", "WriteLn"} => k = 1
  BY <1>2, <1>3 DEF FrameOK
<1>6. PICK type : Computes(infos, x.programs[k], type) /\ Wanted(infos, x, type)
  BY <1>4, <1>5, TypedPrograms
<1>7. code' \in Programs
  BY <1>2, <1>3, <1>4
<1>8. Executed(infos, code', << >>, 1, type)
  BY <1>4, <1>6, <1>7, BeginsExecuted
<1>9. EvaluationInv'
  BY <1>1, <1>2, <1>3, <1>4, <1>6, <1>7, <1>8 DEF EvaluationInv
<1> QED
  BY <1>1, <1>9 DEF ExecutingInv

LEMMA ThrowKeeps ==
    ASSUME NodesOK, ExecutingInv, Execution!Throw
    PROVE  ExecutingInv' /\ UNCHANGED <<infos, nodes, root>>
<1>1. /\ status \in Execution!Stops \ {"value"} /\ execution' = status
      /\ UNCHANGED <<infos, nodes, root, memory, frames, code, values, ip, status>>
  BY DEF Execution!Throw, Execution!nodeVars, Execution!interpreterVars
<1>2. "idle" \notin Execution!Stops /\ "running" \notin Execution!Stops
  BY Zenon DEF Execution!Stops, Execution!Faults
<1>3. status \in Stopped
  BY <1>1, <1>2, Zenon DEF ExecutingInv
<1>4. EvaluationInv'
  BY <1>1 DEF ExecutingInv, EvaluationInv
<1> QED
  BY <1>1, <1>3, <1>4 DEF ExecutingInv

LEMMA PrintArgumentKeeps ==
    ASSUME NodesOK, ExecutingInv, Execution!PrintArgument
    PROVE  ExecutingInv' /\ UNCHANGED <<infos, nodes, root>>
<1>1. /\ Execution!Executes("Write") \/ Execution!Executes("WriteLn")
      /\ status = "value" /\ status' = "idle"
      /\ Execution!ReplaceBy(<<[Execution!Due EXCEPT !.arg = @ + 1]>>)
      /\ UNCHANGED <<infos, nodes, root, memory, execution>>
  BY DEF Execution!PrintArgument, Execution!Evaluated, Execution!nodeVars
<1>2. /\ frames # << >> /\ frames[1].call = "execute"
      /\ Execution!Due = frames[1] /\ FrameOK(nodes, frames[1])
      /\ Execution!DueNode = nodes[frames[1].node]
      /\ Execution!DueNode.kind \in {"Write", "WriteLn"}
      /\ Len(Execution!DueNode.programs) \in Nat
      /\ DOMAIN Execution!DueNode.programs = 1..Len(Execution!DueNode.programs)
  BY <1>1, KindExecuted
<1>3. frames[1].arg \in DOMAIN nodes[frames[1].node].programs
  BY <1>1 DEF ExecutingInv, EvaluationInv
<1>4. PICK f, g : f = frames[1] /\ g = [f EXCEPT !.arg = @ + 1]
  OBVIOUS
<1>5. FrameOK(nodes, g)
  <2>1. g.call = f.call /\ g.node = f.node
    BY <1>4
  <2>2. g.arg = f.arg + 1 \/ g.arg = f.arg
    BY <1>4
  <2>3. f.arg \in 1..Len(nodes[f.node].programs) /\ Len(nodes[f.node].programs) \in Nat
        /\ nodes[f.node].kind \in {"Write", "WriteLn"} /\ FrameOK(nodes, f)
    BY <1>2, <1>3, <1>4
  <2> QED
    BY <2>1, <2>2, <2>3 DEF FrameOK
<1>6. FramesOK(nodes', frames')
  <2>1. FramesOK(nodes, <<g>>) /\ Execution!ReplaceBy(<<g>>)
    BY <1>1, <1>2, <1>4, <1>5, OneFrame
  <2> QED
    BY <1>1, <1>2, <2>1, FramesReplaced DEF ExecutingInv
<1> QED
  BY <1>1, <1>6, IdleKeeps DEF ExecutingInv

LEMMA EndWriteKeeps ==
    ASSUME NodesOK, ExecutingInv, Execution!EndWrite
    PROVE  ExecutingInv' /\ UNCHANGED <<infos, nodes, root>>
<1>1. /\ Execution!Executes("Write") \/ Execution!Executes("WriteLn")
      /\ Execution!Due.arg > Len(Execution!DueNode.programs)
      /\ Execution!ReplaceBy(<< >>)
      /\ UNCHANGED <<infos, nodes, root, memory, execution, status>>
  BY DEF Execution!EndWrite, Execution!nodeVars, Execution!interpreterVars
<1>2. /\ frames # << >> /\ Execution!Due = frames[1]
      /\ Execution!DueNode = nodes[frames[1].node]
      /\ Len(Execution!DueNode.programs) \in Nat
      /\ DOMAIN Execution!DueNode.programs = 1..Len(Execution!DueNode.programs)
  BY <1>1, KindExecuted
<1>3. status = "idle"
  <2>1. frames[1].arg \notin DOMAIN nodes[frames[1].node].programs
    BY <1>1, <1>2
  <2> QED
    BY <2>1, NoneEvaluated
<1>4. FramesOK(nodes', frames')
  BY <1>1, <1>2, NoFrames, FramesReplaced DEF ExecutingInv
<1> QED
  BY <1>1, <1>3, <1>4, IdleKeeps DEF ExecutingInv

(* A value of the variable's type is stored.                               *)
LEMMA ValueSet ==
    ASSUME NodesOK, ExecutingInv, NEW id, IsAssignable(infos, id), NEW x, x.type = infos[id].type,
           Execution!SetValue(id, x)
    PROVE  MemoryTyped(infos, memory') /\ execution' = execution
<1>1. memory' = [memory EXCEPT ![id] = x] /\ execution' = execution
  BY DEF Execution!SetValue, IsAssignable
<1> QED
  BY <1>1 DEF ExecutingInv, MemoryTyped, IsAssignable

LEMMA AssignKeeps ==
    ASSUME NodesOK, ExecutingInv, Execution!Assign
    PROVE  ExecutingInv' /\ UNCHANGED <<infos, nodes, root>>
<1>1. /\ Execution!Executes("Assign")
      /\ status = "value" /\ status' = "idle"
      /\ Execution!SetValue(Execution!DueNode.id, Execution!Result)
      /\ Execution!ReplaceBy(<< >>)
      /\ UNCHANGED <<infos, nodes, root>>
  BY DEF Execution!Assign, Execution!Evaluated, Execution!nodeVars
<1>2. /\ frames # << >> /\ Execution!DueNode = nodes[frames[1].node]
      /\ Execution!DueNode.kind = "Assign" /\ NodeTyped(infos, Execution!DueNode)
  BY <1>1, KindExecuted
<1>3. IsAssignable(infos, Execution!DueNode.id)
  BY <1>2 DEF NodeTyped
<1>4. Execution!Result.type = infos[Execution!DueNode.id].type
  BY <1>1, <1>2, ResultTaken DEF Wanted
<1>5. MemoryTyped(infos, memory') /\ execution' = execution
  BY <1>1, <1>3, <1>4, ValueSet
<1>6. FramesOK(nodes', frames')
  BY <1>1, <1>2, NoFrames, FramesReplaced DEF ExecutingInv
<1> QED
  BY <1>1, <1>5, <1>6, IdleKeeps

LEMMA ReadKeeps ==
    ASSUME NodesOK, ExecutingInv, Execution!Read
    PROVE  ExecutingInv' /\ UNCHANGED <<infos, nodes, root>>
<1>1. /\ Execution!Executes("Read")
      /\ \E v : Execution!SetValue(Execution!DueNode.id,
                                   Execution!Value(infos[Execution!DueNode.id].type, v))
      /\ Execution!ReplaceBy(<< >>)
      /\ UNCHANGED <<infos, nodes, root, status>>
  BY DEF Execution!Read, Execution!nodeVars, Execution!interpreterVars
<1>2. /\ frames # << >> /\ Execution!DueNode = nodes[frames[1].node]
      /\ Execution!DueNode.kind = "Read" /\ NodeTyped(infos, Execution!DueNode)
  BY <1>1, KindExecuted
<1>3. IsAssignable(infos, Execution!DueNode.id) /\ nodes[frames[1].node].programs = << >>
  BY <1>2 DEF NodeTyped
<1>4. status = "idle"
  <2>1. DOMAIN << >> = {}
    OBVIOUS
  <2> QED
    BY <1>3, <2>1, NoneEvaluated
<1>5. MemoryTyped(infos, memory') /\ execution' = execution
  <2>1. PICK v : Execution!SetValue(Execution!DueNode.id,
                                    Execution!Value(infos[Execution!DueNode.id].type, v))
    BY <1>1
  <2>2. Execution!Value(infos[Execution!DueNode.id].type, v).type = infos[Execution!DueNode.id].type
    BY DEF Execution!Value
  <2> QED
    BY <1>3, <2>1, <2>2, ValueSet
<1>6. FramesOK(nodes', frames')
  BY <1>1, <1>2, NoFrames, FramesReplaced DEF ExecutingInv
<1> QED
  BY <1>1, <1>4, <1>5, <1>6, IdleKeeps

LEMMA IfKeeps ==
    ASSUME NodesOK, ExecutingInv, Execution!If
    PROVE  ExecutingInv' /\ UNCHANGED <<infos, nodes, root>>
<1>1. /\ Execution!Executes("If") /\ status = "value" /\ status' = "idle"
      /\ UNCHANGED <<infos, nodes, root, memory>>
  BY DEF Execution!If, Execution!Evaluated, Execution!nodeVars
<1>2. /\ frames # << >> /\ Execution!DueNode = nodes[frames[1].node]
      /\ Execution!DueNode.kind = "If"
      /\ Execution!DueNode.child \in 0..Len(nodes) /\ Execution!DueNode.child # 0
  BY <1>1, KindExecuted
<1>3. Execution!Result.type = "boolean"
  BY <1>1, <1>2, ResultTaken DEF Wanted
<1>4. PICK clause : /\ clause = (IF Execution!Result.value THEN Execution!DueNode.child
                                 ELSE nodes[Execution!DueNode.child].next)
                    /\ Execution!ReplaceBy(IF clause = 0 THEN << >> ELSE Execution!Execute(clause))
                    /\ execution' = execution
  BY <1>3 DEF Execution!If
<1>5. clause \in 0..Len(nodes)
  <2>1. PICK n : n = Execution!DueNode.child
    OBVIOUS
  <2>2. Len(nodes) \in Nat /\ DOMAIN nodes = 1..Len(nodes) /\ n \in DOMAIN nodes
    BY <1>2, <2>1 DEF NodesOK
  <2>3. nodes[n].next \in 0..Len(nodes)
    <3>1. nodes[n].next = 0 \/ nodes[n].next \in (n + 1)..Len(nodes)
      BY <2>2 DEF NodesOK
    <3> QED
      BY <2>2, <3>1
  <2> QED
    BY <1>2, <1>4, <2>1, <2>3
<1>6. FramesOK(nodes', frames')
  <2>1. FramesOK(nodes, IF clause = 0 THEN << >> ELSE Execution!Execute(clause))
    BY <1>5, NoFrames, NewFrames
  <2> QED
    BY <1>1, <1>2, <1>4, <2>1, FramesReplaced DEF ExecutingInv
<1> QED
  BY <1>1, <1>4, <1>6, IdleKeeps DEF ExecutingInv

LEMMA WhileKeeps ==
    ASSUME NodesOK, ExecutingInv, Execution!While
    PROVE  ExecutingInv' /\ UNCHANGED <<infos, nodes, root>>
<1>1. /\ Execution!Executes("While") /\ status = "value" /\ status' = "idle"
      /\ UNCHANGED <<infos, nodes, root, memory>>
  BY DEF Execution!While, Execution!Evaluated, Execution!nodeVars
<1>2. /\ frames # << >> /\ Execution!DueNode = nodes[frames[1].node]
      /\ Execution!DueNode.kind = "While"
      /\ Execution!DueNode.child \in 0..Len(nodes) /\ Execution!DueNode.child # 0
  BY <1>1, KindExecuted
<1>3. Execution!Result.type = "boolean"
  BY <1>1, <1>2, ResultTaken DEF Wanted
<1>4. /\ frames' = Execution!Execute(Execution!DueNode.child) \o frames \/ frames' = Tail(frames)
      /\ execution' = execution
  BY <1>3 DEF Execution!While
<1>5. FramesOK(nodes, frames')
  <2>1. FramesOK(nodes, Execution!Execute(Execution!DueNode.child)) /\ FramesOK(nodes, frames)
    BY <1>2, NewFrames DEF ExecutingInv
  <2>2. FramesOK(nodes, Execution!Execute(Execution!DueNode.child) \o frames)
    BY <2>1, FramesJoined
  <2>3. FramesOK(nodes, Tail(frames))
    BY <1>2, <2>1, FramesReturned
  <2> QED
    BY <1>4, <2>2, <2>3
<1> QED
  BY <1>1, <1>4, <1>5, IdleKeeps DEF ExecutingInv

LEMMA ReturnFromRootKeeps ==
    ASSUME NodesOK, ExecutingInv, Execution!ReturnFromRoot
    PROVE  ExecutingInv' /\ UNCHANGED <<infos, nodes, root>>
<1>1. /\ frames = << >> /\ execution' = "done"
      /\ UNCHANGED <<infos, nodes, root, memory, frames, status>>
  BY DEF Execution!ReturnFromRoot, Execution!nodeVars, Execution!interpreterVars
<1>2. status = "idle"
  BY <1>1, NoneEvaluated
<1> QED
  BY <1>1, <1>2 DEF ExecutingInv, EvaluationInv

LEMMA ExecuteStepKeeps ==
    ASSUME NodesOK, ExecutingInv, Execution!ExecuteStep
    PROVE  ExecutingInv' /\ UNCHANGED <<infos, nodes, root>>
<1>1. CASE Execution!NextSibling \/ Execution!Block \/ Execution!Evaluate \/ Execution!Interpret
  BY <1>1, NextSiblingKeeps, BlockKeeps, EvaluateKeeps, InterpretKeeps
<1>2. CASE Execution!Throw \/ Execution!PrintArgument \/ Execution!EndWrite \/ Execution!Assign
  BY <1>2, ThrowKeeps, PrintArgumentKeeps, EndWriteKeeps, AssignKeeps
<1>3. CASE Execution!Read \/ Execution!If \/ Execution!While \/ Execution!ReturnFromRoot
  BY <1>3, ReadKeeps, IfKeeps, WhileKeeps, ReturnFromRootKeeps
<1> QED
  BY <1>1, <1>2, <1>3 DEF Execution!ExecuteStep
-----------------------------------------------------------------------------
(* A program from its tokens to its end.                                   *)

SystemInv ==
    /\ ProgramInv /\ TypedInv
    /\ stage \in Stages
    /\ stage = "compiling" => frames = << >> /\ status = "idle" /\ execution = "executing"
    /\ stage = "executing" => ExecutingInv
    /\ OnlyTrapsCrash

LEMMA StagesAre ==
    /\ "executing" # "crashed" /\ "compiling" # "crashed"
    /\ "compiling" # "executing"
    /\ \A s \in {"compiling", "executing"} : s \in Stages /\ s # "thrown out of the driver"
BY Zenon DEF Stages

LEMMA CompilationKept ==
    ASSUME ProgramInv, TypedInv, UNCHANGED allVars
    PROVE  ProgramInv' /\ TypedInv'
<1>1. ProgramInv'
  BY StutterStep
<1>2. UNCHANGED <<vars, control, nodes, root>>
  BY DEF allVars, programVars
<1> QED
  BY <1>1, <1>2, TypedUnchanged

LEMMA SystemInitInv == SystemInit => SystemInv
<1> SUFFICES ASSUME SystemInit PROVE SystemInv
  OBVIOUS
<1>1. ProgramInit /\ stage = "compiling" /\ frames = << >> /\ status = "idle"
      /\ execution = "executing"
  BY DEF SystemInit
<1>2. ProgramInv /\ TypedInv
  BY <1>1, ProgramInitInv, TypedInit
<1>3. OnlyTrapsCrash
  BY <1>1, StagesAre DEF OnlyTrapsCrash
<1> QED
  BY <1>1, <1>2, <1>3, StagesAre DEF SystemInv

LEMMA CompileProgramKeeps == ASSUME SystemInv, CompileProgram PROVE SystemInv'
<1>1. /\ stage = "compiling" /\ ProgramStep /\ stage' = stage
      /\ UNCHANGED <<frames, status, execution>>
  BY DEF CompileProgram, executionVars
<1>2. ProgramInv' /\ TypedInv'
  BY <1>1, ProgramNextInv, TypedNext DEF SystemInv, ProgramNext
<1>3. OnlyTrapsCrash'
  BY <1>1, StagesAre DEF OnlyTrapsCrash
<1> QED
  BY <1>1, <1>2, <1>3, StagesAre DEF SystemInv

LEMMA ExecuteProgramKeeps == ASSUME SystemInv, ExecuteProgram PROVE SystemInv'
<1>1. /\ stage = "compiling" /\ outcome = "ok" /\ stage' = "executing"
      /\ memory' = [id \in DOMAIN infos |-> Initial(infos[id])]
      /\ frames' = Execution!Execute(root)
      /\ UNCHANGED <<allVars, status, execution>>
  BY DEF ExecuteProgram
<1>2. ProgramInv /\ TypedInv /\ ProgramInv' /\ TypedInv' /\ NodesOK
  BY <1>1, CompilationKept, NodesAreOK DEF SystemInv
<1>3. status = "idle" /\ execution = "executing" /\ UNCHANGED <<infos, nodes>>
  BY <1>1 DEF SystemInv, allVars, programVars, vars
<1>4. root \in 0..Len(nodes) /\ root # 0
  <2>1. control = << >> /\ root \in Nat
    BY <1>1, <1>2 DEF ProgramInv, ProgramTypeOK
  <2>2. root <= Len(nodes) /\ Len(nodes) \in Nat
    BY <1>2 DEF ProgramInv, TreeInv, BoundsInv, NodesOK
  <2>3. root # 0
    <3>1. DOMAIN << >> = {}
      OBVIOUS
    <3> QED
      BY <1>2, <2>1, <3>1 DEF TypedInv, RootDue
  <2> QED
    BY <2>1, <2>2, <2>3
<1>5. FramesOK(nodes, frames')
  BY <1>1, <1>2, <1>4, NewFrames
<1>6. MemoryTyped(infos, memory')
  BY <1>1 DEF MemoryTyped, Initial, Execution!Value
<1>7. ExecutingInv'
  BY <1>1, <1>3, <1>5, <1>6 DEF ExecutingInv, EvaluationInv
<1>8. OnlyTrapsCrash'
  BY <1>1, StagesAre DEF OnlyTrapsCrash
<1> QED
  BY <1>1, <1>2, <1>7, <1>8, StagesAre DEF SystemInv

LEMMA ExecutingKeeps == ASSUME SystemInv, Executing PROVE SystemInv'
<1>1. /\ stage = "executing" /\ stage' = stage /\ Execution!ExecuteStep
      /\ UNCHANGED <<control, names, typeName, node, outcome, source, position,
                     tokens, members, memberIndex, cur, stack, blocks, types, opList,
                     argCount, call, pc>>
  BY DEF Executing
<1>2. NodesOK /\ ExecutingInv
  BY <1>1, NodesAreOK DEF SystemInv
<1>3. ExecutingInv' /\ UNCHANGED <<infos, nodes, root>>
  BY <1>1, <1>2, ExecuteStepKeeps
<1>4. UNCHANGED allVars
  BY <1>1, <1>3 DEF allVars, programVars, vars
<1>5. ProgramInv' /\ TypedInv'
  BY <1>4, CompilationKept DEF SystemInv
<1>6. OnlyTrapsCrash'
  BY <1>1, StagesAre DEF OnlyTrapsCrash
<1> QED
  BY <1>1, <1>3, <1>5, <1>6, StagesAre DEF SystemInv

(* How the call for the root ended decides how the callers end.            *)
LEMMA EndsReported ==
    ASSUME SystemInv, ApplicationEnds \/ DriverEnds
    PROVE  /\ stage' \in Stages \ {"compiling", "executing"}
           /\ stage' = "crashed" => execution = "trap"
           /\ stage' = "thrown out of the driver" => execution \in Stopped
<1>1. outcome \notin Failures
  BY Zenon DEF SystemInv, ProgramInv, ProgramTypeOK, Failures
<1>2. CASE ApplicationEnds
  <2>1. stage = "executing" /\ execution # "executing"
        /\ stage' = CASE execution = "done" -> "finished"
                      [] execution = "zero division" -> "runtime error reported"
                      [] OTHER -> "crashed"
    BY <1>1, <1>2, Zenon DEF ApplicationEnds
  <2>2. execution \in {"done"} \cup Stopped
    BY <2>1, Zenon DEF SystemInv, ExecutingInv
  <2>3. CASE execution = "done"
    <3>1. stage' = "finished"
      BY <2>1, <2>3, Zenon
    <3> QED
      BY <3>1, Zenon DEF Stages
  <2>4. CASE execution = "zero division"
    <3>1. stage' = "runtime error reported"
      BY <2>1, <2>4, Zenon
    <3> QED
      BY <3>1, Zenon DEF Stages
  <2>5. CASE execution = "trap"
    <3>1. stage' = "crashed"
      BY <2>1, <2>5, Zenon
    <3> QED
      BY <2>5, <3>1, Zenon DEF Stages
  <2> QED
    BY <2>2, <2>3, <2>4, <2>5, Zenon DEF Stopped
<1>3. CASE DriverEnds
  <2>1. stage = "executing" /\ execution # "executing"
        /\ stage' = IF execution = "done" THEN "table returned" ELSE "thrown out of the driver"
    BY <1>3, Zenon DEF DriverEnds
  <2>2. execution \in {"done"} \cup Stopped
    BY <2>1, Zenon DEF SystemInv, ExecutingInv
  <2>3. CASE execution = "done"
    <3>1. stage' = "table returned"
      BY <2>1, <2>3, Zenon
    <3> QED
      BY <3>1, Zenon DEF Stages
  <2>4. CASE execution # "done"
    <3>1. stage' = "thrown out of the driver" /\ execution \in Stopped
      BY <2>1, <2>2, <2>4, Zenon
    <3> QED
      BY <3>1, Zenon DEF Stages
  <2> QED
    BY <2>3, <2>4
<1> QED
  BY <1>2, <1>3

LEMMA EndsKeep ==
    ASSUME SystemInv, ApplicationEnds \/ DriverEnds \/ ReportSyntaxError
    PROVE  SystemInv'
<1>1. UNCHANGED <<allVars, execution>>
  BY Zenon DEF ApplicationEnds, DriverEnds, ReportSyntaxError, executionVars
<1>2. ProgramInv' /\ TypedInv'
  BY <1>1, CompilationKept DEF SystemInv
<1>3. stage' \in Stages \ {"compiling", "executing"} /\ OnlyTrapsCrash'
  <2>1. CASE ApplicationEnds \/ DriverEnds
    BY <1>1, <2>1, EndsReported, Zenon DEF OnlyTrapsCrash, Stopped
  <2>2. CASE ReportSyntaxError
    <3>1. stage' = "syntax error reported"
      BY <2>2, Zenon DEF ReportSyntaxError
    <3> QED
      BY <3>1, Zenon DEF Stages, OnlyTrapsCrash
  <2> QED
    BY <2>1, <2>2
<1> QED
  BY <1>2, <1>3 DEF SystemInv

LEMMA EndedKeeps == ASSUME SystemInv, UNCHANGED systemVars PROVE SystemInv'
<1>1. UNCHANGED <<allVars, stage, memory, code, values, ip, status, frames, execution>>
  BY DEF systemVars, executionVars
<1>2. ProgramInv' /\ TypedInv'
  BY <1>1, CompilationKept DEF SystemInv
<1>3. UNCHANGED <<infos, nodes>>
  BY <1>1 DEF allVars, programVars, vars
<1>4. stage = "executing" => ExecutingInv'
  BY <1>1, <1>3 DEF SystemInv, ExecutingInv, EvaluationInv
<1>5. OnlyTrapsCrash'
  BY <1>1 DEF SystemInv, OnlyTrapsCrash
<1> QED
  BY <1>1, <1>2, <1>4, <1>5 DEF SystemInv

LEMMA SystemInvariant == SystemSpec => []SystemInv
<1>1. ASSUME SystemInv, [SystemNext]_systemVars PROVE SystemInv'
  <2>1. CASE SystemStep
    BY <1>1, <2>1, CompileProgramKeeps, ExecuteProgramKeeps, ExecutingKeeps, EndsKeep DEF SystemStep
  <2>2. CASE Ended \/ UNCHANGED systemVars
    BY <1>1, <2>2, EndedKeeps DEF Ended
  <2> QED
    BY <1>1, <2>1, <2>2 DEF SystemNext
<1> QED
  BY SystemInitInv, <1>1, PTL DEF SystemSpec

(* For every text, every context and every input, no exception escapes     *)
(* from the application, and none but the error of a division from the     *)
(* driver: whatever the compiler accepts, the interpreter never pops       *)
(* another type than it finds, no node stores or decides by a value of     *)
(* another type, and no variable or child is missing                       *)
(* (main.cpp:51-59, execution_driver.cpp:23, execution_node.cpp:79,        *)
(* 92-104, 119, postfix_interpreter.h:18-24).                              *)
THEOREM OnlyTrapsEscape == SystemSpec => []OnlyTrapsCrash
<1>1. SystemInv => OnlyTrapsCrash
  BY DEF SystemInv
<1> QED
  BY SystemInvariant, <1>1, PTL
=============================================================================
