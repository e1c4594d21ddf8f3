# Verification of the Pascal-- interpreter

TLA+ models of the interpreter in this repository, the runs of TLC that check
them and the theorems about them that TLAPS proves.

Paths are relative to the root of the repository.

## 1. The system

A program in "Pascal--" goes through a pipeline, in one thread:

    text -> Lexer -> ProgramCompiler -> tree of execution nodes -> output
                        |    ^                 |
                        v    |                 v
                  PostfixCompiler      PostfixInterpreter
                        \                   /
               TypeStorage, FunctionStorage, VariablesStorage

`compiler_app` is the command line program that runs it on its standard input;
`app` is an editor that starts `compiler_app` as a process of its own.

| Component | State it keeps | Operations | What makes it correct |
|---|---|---|---|
| Lexer (`src/lexer`) | text, index, tokens, position | all tokens, next token, seek | the longest lexemes, each with its place; stops at the first character that begins none |
| Program compiler (`program_compiler.cpp`) | tokens, `mCurrentPosition`, the context | declarations, statements, end of an expression | reads no token past the end; accepts the programs of the grammar and builds their tree |
| Expression compiler (`postfix_compiler.cpp`) | members, three stacks, the list of operations | one branch per kind of member; insertion of casts | accepts what the grammar has, and compiles its reading |
| Postfix interpreter (`postfix_interpreter.cpp`) | stack of values | LOAD, CALL of 41 operations | value and type of the expression, or the first error |
| Execution nodes (`execution_node.cpp`) | tree of statements, the streams | execute | order of statements, effects before an error, failed reads |
| Function storage (`function_storage.*`) | overloads by name, casts | register, find | the overload with the fewest casts |
| Variable storage (`variables_storage.h`) | names, infos, values | register, literal, get, set | the three agree; constants do not change; copies are independent |
| Type storage (`type_storage.h`) | names of types | register, look up | an id is the index of an alternative |
| Program context (`initializeContext`) | the storages | the initial types and functions; copies | no ambiguous overloads |
| Sorted table (`table.h`) | sorted vector | find, add, del | a map |
| Stack (`stack.h`) | memory, size, capacity | push, pop, top, reserve, copies, moves | a sequence; writes in bounds; one owner per block |
| Driver, `compiler_app` | - | run a program | nothing is thrown past the driver but the string of a division by zero (section 3); `compiler_app` reports that, too |
| Editor window (`app`) | text, processes, error text, file name | handlers of buttons and of signals of processes | the errors shown are those of the run; the file shown is the one saved |

They interact by calls.  The program compiler cuts the tokens of expressions
out of the program and gives them to the expression compiler, which asks the
function storage for overloads and adds literals to the variable storage, whose
names are in a sorted table.  What it returns, a list of operations and a type,
becomes part of an execution node, and the interpreter, which executes it,
trusts it: nothing is checked in between but the alternative of a
`std::variant` when a value is popped.  The context is copied when the
compilation is done.  The editor and `compiler_app` share a pipe and nothing
else.

What is hard here:

* *order*: three stacks and a list that is inserted into in the middle, kept in
  step only by which member may follow which;
* *trust between components*: the interpreter assumes well-formed programs, the
  statements the type the compiler announced, the nodes that there is a child;
* *boundaries*: empty stacks, the end of the tokens and of the text, crossed
  borders of a binary search, widths of integers, costs of `INT_MAX`;
* *long sequences of calls*: an insertion one place off in the sorted table or
  a capacity that is copied with a shorter block is found out calls later;
* *failure in the middle*: allocations between two steps of a registration or
  of a push, a division by zero behind the first argument of a write, a write
  of a file that was truncated already;
* *interleaving*, in the editor alone: processes that overlap each other and
  the edits of the user.

`PROJECT.json` lists the hazards with their lines and the properties for each.

## 2. The modules

Where a module has a definition whose comment begins with "Mutant", it is a
plausible bug in the definition below it.  `PROJECT.json` names for each
property a mutant that violates it.

Modules that compose:

    Program = ProgramCompiler (EXTENDS PostfixCompiler (EXTENDS FunctionStorage))
              + ExecutionNodes (EXTENDS PostfixInterpreter)   implements ProgramSpec
    Expression = PostfixCompiler + PostfixInterpreter          implements ExpressionSpec
    Table implements TableSpec, Stack implements StackSpec,
    VariablesStorage implements VariablesSpec

### Lexer

| Module | Content |
|---|---|
| `Lexer` | `generateTokens`, one action per iteration of it and of the loops in it; `nextToken` and `seek` on the result |
| `LexerGrammar` | a declarative definition of the lexemes: which pieces of a text are tokens, and that the longest is taken |
| `LexerProofs` | the proofs |
| `MCLexer` | the instance for TLC |

The variables are the fields `mText`, `mIndex`, `mTokens` and `mPos`, the local
variables of the branch that runs, and `pc`.  Characters are taken from small
classes (`Spaces`, `Digits`, `Letters`); each symbol of the tables in
`lexer.cpp` is one of its own.  A branch that looks ahead tests the end of the
text as the code does.

### Expression compiler

| Module | Content |
|---|---|
| `FunctionStorage` | the storage as a record and its operators; `FindFunction` is what a lookup promises |
| `PostfixCompiler` | `CompilationContext` and `compileExpression` |
| `PostfixCompilerInv` | the inductive invariant, and `TypesMirrorCode` |
| `PostfixCompilerProofs` | the proofs |
| `ExpressionGrammar` | the grammar of the repository's README as a reference definition |
| `ProgramContext` | the types and functions every program starts with |
| `MCPostfixCompiler` | the instance for TLC |

The variables of `PostfixCompiler` are the fields of `CompilationContext`
(`mStack` is `stack`, `mBlocks` is `blocks`, `mTypes` is `types` and so on), the
variable storage `infos`, and two for the control: `pc`, which names the
function or the loop that makes the next step, and `call`, the call of a
function that `compileFuncCallWithCasts` is inserting casts for.  There is one
action for each branch of the loop in `compileExpression` and one step for each
iteration of the loops behind it.  An iterator into `mOpList` is modelled by a
number that each operation gets when it is inserted and keeps when others are
inserted before it, which is what `std::list` guarantees.

Every throw is an action or a branch of one: `SyntaxError` ends in the outcome
"syntax error", `std::runtime_error` and `std::logic_error` (of an empty
`Stack`) in outcomes that `NoInternalError` excludes.

Abstracted: positions and texts of errors, values of literals (an entry keeps
the literal's text; which texts `stoll` and `stod` reject is the constant
`OutOfRange`), and the names `$0`, `$1`, ... of literals, which no identifier
can have, and which are all `$` here.  The `std::invalid_argument` for a
sequence that does not end in ENDOFFILE is the assumption `InputsAssumption`:
both callers append that token.

`FunctionStorage!RegisterFunction` leaves out the exception for a cast with
other than one argument, since the functions are registered by
`initializeContext` alone.

### Function lookup

`FunctionLookup` has one action for each branch in the two loops of
`findFunction`; `MCFunctionLookup` runs it on each overloaded name, and
`LookupProofs` has the proof for any storage.

### Program compiler

| Module | Content |
|---|---|
| `ProgramCompiler` | `compileProgram` and all it calls, the expression compiler included |
| `ProgramGrammar` | the programs of the repository's README: what a sequence of tokens declares and which statements it is |
| `ProgramProofs` | the proofs, also of what is executed |
| `MCPrograms` | programs as words, and the statements read back from the execution nodes |
| `MCProgramCompiler` | the instance for TLC, and `CompilesTheProgram` |

The parser descends recursively.  `control` is the stack of what its calls have
left to do, as a sequence of items with the local variables they need; each
action does what is due first and puts what it calls before the rest.
`position` is `mCurrentPosition`, `nodes` has the execution nodes in the order
of their construction, which point to each other by number, and `node` is the
one the last call has returned.  Compiling an expression is the whole of
`PostfixCompiler`, whose steps are steps of `ProgramCompiler` while its `pc` is
not "idle".

### Interpreter

`PostfixInterpreter` has one step per operation of a program: `Start`, `Load`,
`Call` and the ways in which a call does not push a value.  The case labels of
the switch are grouped by the types they pop; `Pops` gives those types and
`Pushed` the results.  Integers have the width of the constants `IntMin` and
`IntMax`; where the result does not fit, which is undefined behaviour, the model
may push any integer, and `LLONG_MIN div -1` may also trap.  Doubles and
strings are parameters, of which only the comparison of a divisor with zero
matters to the control.  `ProgramExecution` gives it any program, as
`test_postfix_interpreter.cpp` does; `ExecutionProofs` has the proof for
programs of any length.

`Expression` composes compiler and interpreter: the compiler's `opList` is the
interpreter's `program`, the entries that the compiler adds for literals are in
its storage, and the values of variables are whatever earlier statements may
have left (`Memories`).  `ExpressionSpec` is the abstract specification: a
sequence of tokens has a reading or is rejected, and an expression with a
reading comes to the value that `ExpressionMeaning` gives the reading, or to the
first error.  `MCExpression` has the refinement mapping and the instance.

### Execution nodes, driver and application

| Module | Content |
|---|---|
| `ExecutionNodes` | the `execute` functions of the nodes; `frames` are the calls that have not returned |
| `Program` | from the tokens of a program to its end, as `compiler_app` and `ExecutionDriver` run it |
| `ProgramSpec` | what a program's text promises: its statements are done one after the other |
| `MCNumbers`, `MCProgram` | arithmetic of three bits, the instance for TLC, the refinement mapping |

A read takes the next word of `input` as `>>` does for the type (`Extract`);
a failed one stores what `>>` stores then, and each later one stores any value
of the type, since the variable it is read into is not initialized.  The two
callers differ in what they catch: `ApplicationEnds` and `DriverEnds`.

### Storages

| Module | Content |
|---|---|
| `VariablesStorage` | `TypeStorage` and `VariablesStorage` of contexts that are made, copied and destroyed |
| `VariablesSpec` | a list of types and a list of variables per context, and what may be registered halfway |
| `VariablesProofs` | the proofs |
| `Table`, `TableSpec` | the sorted table, and a map |
| `ContainerProofs` | the proofs about `Table`, and about `Stack` |
| `MCVariables`, `MCTable` | the instances for TLC |

`VariablesStorage` has one action per call.  Both storages have containers that
grow one after the other: `registerType` the types and then the table of their
names, `registerVariable` the informations, the values and the names.  Each of
these may stop with `bad_alloc` behind each container, and then leaves what is
there already.  A type without a name can be registered again, under another id;
a variable without a name can, too, and if it has no value either, it takes the
next that is registered.  `torn` (a history variable) has the contexts where a
variable was registered halfway.  `OutOfMemory` are the calls that fail before they
change anything.  `owner` is the context whose `TypeStorage` the reference
`mTypeStorage` of another's refers to; reading types that were destroyed with
their context ends the run in the answer "undefined".

`VariablesSpec` does not know containers: an entry of its lists is named or not,
and has a value or not.  It says for every call, a failed one too, what it may do
to the lists, and that it does nothing to those of other contexts.

`Table` has one action for each branch in an iteration of the three binary
searches and for what precedes and follows them; the searches share the actions
`GoLeft` and `GoRight`.  Keys are integers: the code uses nothing of them but
the order.  `VariablesStorage` uses the map that `Table` implements.

### Stack

`Stack` models stacks over a heap of blocks: a stack knows the address of its
block, its capacity and its size, but how long the block really is only the heap
knows.  There is one action per constructor, assignment and member function and
outcome.  Each `new T[]` may fail, and each copy of an element behind it: a
`std::string`, or a `DataValue` with one, allocates when it is copied.  By then the
size may be the new one (`stack.h:56`, `:123`), and a new block is not the stack's
yet and is lost (`:27`, `:152`).  A write behind a block sets `overrun`, after
which nothing more happens.  `StackSpec` has sequences that share nothing; what
a failed copy may leave of them is stated there (`PushesNothing`, `AssignsSome`).

### Editor

`Editor` has one action per handler of the window: the user edits, opens, saves
and clicks on Run, and each process that was started sends signals, in any
order between processes.  `fullErr` is the global string in which the handler
of `readyReadStandardError` collects what it reads.  What `compiler_app` writes
is a sequence of pieces, as it writes them, and which process wrote a piece is
recorded in it for the properties only.  `QProcess` is external: a process may
fail to start, is read before its `finished` signal, and runs as long as it
likes if it reports nothing.  `EditorProofs` has the proofs.

## 3. What the runs check

| Run | Properties | Bounds |
|---|---|---|
| `compiler` | `TypeOK`, `NoInternalError`, `CompilesTheGrammar`, `TypesMirrorCode`, `IInv`, `Terminates` | see below |
| `lookup` | `FindsTheBest`, `OrderDoesNotMatter` | every order of each name's overloads with the cast, calls with 1 and 2 arguments of every type |
| `execution` | `TypesAreStatic` | integers of 2 bits; every operation on every two operands, all programs of up to 3 operations from 17, of 5 from 6 |
| `expression` | `EvaluatesTheMeaning` | integers of 3 bits; 434 expressions |
| `table` | `TypeOK`, `Sorted`, `IndexInBounds`, `IsAMap`, `CallsReturn` | 5 keys, 2 values |
| `program_compiler` | `PositionInBounds`, `NoExceptionEscapes`, `NodesFormTree`, `CompilesTheProgram`, `CompileReturns` | see below |
| `program` | `SystemTypeOK`, `OnlyTrapsCrash`, `ExecutesTheText`, `ProgramEnds` | integers of 3 bits; programs of up to 3 statements, loops and conditions around more; 3 inputs |
| `lexer` | `LexerTypeOK`, `FindsTheTokens`, `LexingEnds` | texts of up to 4 of 13 characters, of up to 6 of those of numbers, strings and words |
| `stack` | `StackTypeOK`, `OneOwner`, `OnlyCopiesOverrun`, `OnlyMovesAndCopiesLeak`, `IsAStack` | 2 stacks, 3 blocks, 2 elements, `MaxStackSize` 3 |
| `variables` | `StorageTypeOK`, `EntriesAgree`, `IsAStore` | 2 contexts, 2 types in each, 2 variables and 2 literals in both, one of all registered halfway |
| `editor` | `EditorTypeOK`, `ReportsTheRun`, `LatestIsComplete`, `ShownFileIsSaved`, `ErrorsAreShown` | 3 texts, 2 files, 3 processes |
| `two_values` | `LeavesOneValue` (violated) | sequences of up to 5 parentheses, ones and minus signs |

*compiler.*  The inputs are all sequences of up to three tokens over one token of
each kind the compiler tells apart (23), all of four and five over the nine that
shape an expression, all chains of four operands with three operators of nine
(each priority is there, two of them twice), all pairs of operand types with all
operators, and calls of a function of two arguments nested in each other and in
operators, with too few and too many arguments.  A program's functions take one
argument each; `pow` is added so that argument lists with commas occur.  Five
tokens suffice for a prefix operator or a function over a parenthesised operand
next to another operator; the chains are needed for two decisions between
priorities in a row.

`CompilesTheGrammar` compares the outcome with the readings of
`ExpressionGrammar`: accepted are exactly the expressions with a reading, and
their code and type are those of the reading.  Two forms are left out, which the
compiler accepts and no grammar has: a value behind a closing parenthesis (see
the finding) and a comma outside parentheses, which `ProgramCompiler` never
passes on, since it cuts expressions there.

`TypesMirrorCode` relates the compiler's view to the interpreter's after each
step: executed on types (`TypesAfter`), the operations so far leave what `mTypes`
has.

*lookup.*  `OrderDoesNotMatter` says that the context has no ties.  With a cast
from double to integer added (its mutant) it would.

*expression.*  The expressions have each operator on each pair of operand types
and each function on each operand, then two operators, so that an error in the
left operand meets one in the right, a cast stands before and behind another
operation, and strings are concatenated in order.  Three bits have all cases of
overflow, and both signs of divisor and dividend.

*table.*  Five keys give tables of every parity, with searches three levels
deep, and gaps between the keys, before the first and behind the last.

*program_compiler.*  The programs are all sequences of up to four of eight
pieces of statements, longer ones of ifs, elses and blocks, all sequences of up
to three of eleven pieces of declarations, and one program with every statement,
each of whose tokens is left out, repeated, replaced by each of eighteen others,
or made the last before the end.  An else needs two ifs to be ambiguous, and
three elses and ifs to be ambiguous twice.  `CompilesTheProgram` is what
`CompilesTheGrammar` is for expressions, for the tree of nodes, the declared
variables and their constants; `NodesFormTree` holds in every state, when
the tree is half built, too.

*program.*  `ExecutesTheText` is the refinement: what is left to do, as
statements, is read off the frames.  Programs that loop need not end, so their
output is bounded by the constraint `ShortOutput`; a state whose output is longer
is checked and not continued.  The other programs write less than its second
bound, and `ProgramEnds` is about those.  The inputs have words that are read
whole, in part, as a limit and not at all, and end early.

*lexer.*  Four characters have each lexeme next to another with one in between;
six are needed for two decimal points or two escaped characters with something
before and behind.  A string is quoted by two of them.

*stack.*  Three blocks are both stacks' and one more, for one to grow, or to
leak.  `MaxStackSize` 3 is no power of two, so that the limit is met by a stack
with fewer elements.  Three elements are enough for a copy that stops before the
first, or behind it with more than one left.  States that differ in cells nobody
reads are taken for one (`View`), and so are those that differ in the names of
blocks and in the last outcome; the properties about steps are checked on all
steps.

`IsAStack` is about each call, the failed ones too.  Without a failed copy of an
element a call that throws changes nothing.  With one, a push leaves one element
more, which is whatever was in the cell, and an assignment leaves the size it
was to give, with the first elements copied and the others as they were.  Other
stacks keep theirs.  The property ends where a stack has written behind its
block, which is what `OnlyCopiesOverrun` is about.  `OnlyMovesAndCopiesLeak`
names the only calls that lose a block.

*variables.*  Two contexts are an original and its copy (`Related`: those that
are made separately share nothing), two types can be registered in the order of
the alternatives or not.  Two variables, in one context or in two
(`FewVariables`), are what a name given twice or an entry that is taken for the
next needs; two literals (`FewLiterals`) are one that is registered after one
that failed.  One type or variable is registered halfway, or one and its copy
(`FewFailures`), with one more behind it that gets its id or its value wrong.
`FewThings` leaves out what has all of this at once in both contexts: there are at
most five types and variables, and four where one was registered halfway.  States are
taken for one if they differ in the names of values, in the last answer, or in
what a destroyed context has contained (`View`); the property about steps is
checked on all steps.

`IsAStore` is about each call, the failed ones too, and leaves out none.  It says
that a registration halfway leaves one entry more, without a name, and nothing
else; which entry gets the value that is registered next; and that reading an
entry that has got another's value throws, if that is of another kind.  A type's
id need not be the index of its alternative, since the code does not see to it
(`initializeContext` does, by the order in which it registers them): the value of a
variable has the kind with the number of its type's id, that of a literal both.
After the context that a copy has its types from is destroyed, a registration
reads what is no more: then the promise says nothing (`Undefined`), and only then.

*editor.*  One of the texts cannot be run, one has line breaks at its end.  Two
processes may overlap and a third follows them, which is what is needed for
errors to be left over from an overlap.  `FewThings` keeps apart what does not
interact: files are opened and saved before the first process is started.

### Fairness

* `compiler`, `table`, `program_compiler`, `program`, `lexer`: weak fairness of
  the steps of a call that has been made.  The code runs on the caller's thread,
  waits for nothing but the user's input, and so takes its next step.  No
  fairness is assumed for callers.
* `editor`: weak fairness of the signals of each process that reports an error:
  a process that writes to standard error ends right after it, and Qt's event
  loop handles each event.  A process that reports nothing may run for ever, as
  its program may, and the user need not do anything.

The other runs check safety.

### Disagreement found

`two_values`: the table of valid sequences has `{RPAREN, VALUE}`
(`postfix_compiler.cpp:91`).  `(1) 1` compiles, to code that leaves two values,
and the second is taken for the result.  The test
`error_on_two_values_in_a_row` (`test_postfix_compiler.cpp:735`) expects an
error for two values in a row.

Met while modelling, and part of the models, where what the code does is what is
checked:

* `not not b` is rejected, although the README gives `not` in front of every
  logical expression.  For the minus sign the same is tested for
  (`test_postfix_compiler.cpp:674`).
* The smallest integer divided by -1 is neither returned nor reported, as the
  comment on `execute` says a result is (`postfix_interpreter.h:79-83`).
* A constant cannot be negative: its value is a single token
  (`program_compiler.cpp:515`).
* The README's examples write `read`, `write` and `writeln`; the keywords
  are `Read`, `Write` and `WriteLn` (`lexer.cpp:45-62`,
  `README.md:182-193`).
* `ExecutionDriver::execute` is to return what went wrong
  (`docs/ObjectsAndAlgorithms.md:65`); it returns an empty table or lets the
  string of a division by zero through.
* A copied `Stack` writes behind its block with its next push, and a
  move-assigned one leaks its block.  No stack is copied or move-assigned in
  the program.
* The limit of a stack is met when its capacity cannot be doubled.
* When an element cannot be copied, a push or an assignment has already changed
  the size (`stack.h:56`, `:123`), and a copy construction or a growth loses the new
  block (`:27`, `:152`).
* When an allocation fails in `registerVariable`, the containers disagree from
  then on; when one fails in `registerType`, the type has an id and no name
  (`type_storage.h:47-48`), and gets a second id when it is registered again.
* The editor is not told when a process cannot be started: nothing is shown, and
  the `QProcess` is never deleted.  Nor is it told when a write fails, which
  leaves the file empty.
* An error at the end of a text that ends in a line break is shown in the line
  before.
* Runs that overlap mix their errors, or show them twice, in the lines of the
  text of the run that ends.

## 4. What is proved

Assumed are only the named assumptions about constants, which TLC evaluates in
the runs: `InputsAssumption`, `ContextAssumption`, `TableAssumption`,
`StorageAssumption`, `StackAssumption`, `LookupAssumption`,
`ExecutionAssumption`, `NumbersAssumption`, `EditorAssumption`,
`SignatureAssumption`, `OperationsAssumption`, `LexerAssumption`,
`TextsAssumption`, `KeywordsAssumption`.

`LexerProofs`, for any texts, keywords, escapes and classes of characters that do
not overlap:

* `LexerStaysInText`: `LexerSpec => []LexerTypeOK`.
* `LexerFindsTheTokens`: `LexerSpec => []FindsTheTokens`.  The grammar looks at
  a text as a whole, and at every end a token could have; the lexer reads it once
  and never goes back.  `LexerInv` has what connects them.  `ScanInv`: there are
  only spaces between the last token and `Beginning`, where the one that is read
  begins; and what has been read from there is a prefix of a number with its
  number of dots, of a word, or of a string that is not closed yet and ends with
  an odd number of backslashes exactly if `escaped` (`IsStringPrefix`).  `EndInv`: a
  token of one of the last two types has ended the loop.  That a token is the
  longest follows, type by type, from what a lexeme can begin with (`LexemeBegins`)
  and how far it can go on (`NumberEnds`, `WordEnds`, `StringEnds`, `SymbolEnds`);
  that there is none where the lexer says so, from the same lemmas.  The value of
  a string is the hard part: it has the meanings of the characters that are kept,
  in their order (`IsUnescaped`), which are counted, so that one character more
  adds at most one (`UnescapedGrows`).

`PostfixCompilerProofs`, for any registered functions, any variables and any set
of token sequences that end in ENDOFFILE:

* `TypeCorrect`: `Spec => []TypeOK`.
* `NeverFailsInternally`: `Spec => []NoInternalError`.  The type invariant is not
  inductive for it: that `mTypes` has two operands when a binary operator is
  compiled depends on what the stack of waiting operators and the open blocks
  have in them.  The invariant `IInv` says how they keep step, in the parts
  `MembersInv` (what has been read), `PhaseInv` (which member each loop works
  on), `StackInv` (where prefix operators can be), `CallInv`, and the parts that
  count: each opening parenthesis on the stack has its block, and the number of
  operands is that of the binary operators and commas that wait for one more,
  and one if an operand was last.  The proof has a lemma per action, on top of
  lemmas about the ends of sequences and about counting.
* `KeepsInStep`: `Spec => []IInv`, the invariant itself, which the run checks.
* `MirrorsTheStack`: `Spec => []TypesMirrorCode`.  `SignatureAssumption` says what
  `initializeContext` sees to: an operation has one signature, and the cast of a
  pair of types takes the one and gives the other.  The property says nothing
  while the arguments of a call get their casts, and nothing of where the
  operations of an operand end, on which the place of a cast depends.  So
  `TypingInv` follows a run of the operations on types: at its end the stack has
  `OnTheStack`, the operands of `mTypes` and behind them the arguments with the casts
  inserted so far; and for each operand that can still get a cast the operation
  it remembers, which the list has once (`Distinct`), is the one that completes
  it, after which nothing takes it from the stack (`CompleteAt`).  A cast
  inserted there shifts the rest of the run, in which only the type in that one
  place changes (`Untouched`, `CastInserted`).  That there is no second run
  (`TypesAfterUnique`) is shown by the least place where two would differ.

`ProgramProofs`, for any functions, variables and set of programs that
end in ENDOFFILE:

* `ParsesInBounds`: `ProgramSpec => []PositionInBounds`.
* `OnlySyntaxErrors`: `ProgramSpec => []NoExceptionEscapes`.
* `BuildsTree`: `ProgramSpec => []NodesFormTree`.  One invariant, `ProgramInv`,
  is inductive for the three.  Its type invariant `ProgramTypeOK` has what the
  first needs: the last token is ENDOFFILE and nothing in `control` matches one,
  so a token that was matched was not the last.  `ExpressionInv` has `IInv` of
  the expression compiler for the tokens that were cut out, so that its steps
  are covered by the lemmas of `PostfixCompilerProofs`; `ConstantInv` says that
  the name of a constant stays free until its value is registered.  `TreeInv` says who has each node: one other
  node that points to it, one item of `control`, the call it was just returned
  to, or `root` (`OneHolder`, `EachIsHeld`); that the node an item will append to
  has no next yet (`OpenInv`); that pointers lead where children and siblings
  can be (`BoundsInv`); and that a node is returned exactly by what is followed
  by something that takes one (`OrderInv`, `ItemsInv`).  Without the holders
  `NodesFormTree` is not inductive: a half built tree does not tell that what is
  attached next is attached nowhere else.
* `NodesGetTheirTypes`: `ProgramSpec => []NodesTyped(infos, nodes)`.  The operations
  of every node can be executed on types alone and leave a value of the type the
  node takes on the top (`Computes`).  `MirrorsTheStack` says it of the operations
  when an expression has been compiled; `TypedInv` carries it to the node: through
  the items of `control` that wait for the result (`ResultInv`, `ItemsTyped`), past
  the variables that later expressions and declarations register (`Extends`).
* `OnlyTrapsEscape`: `SystemSpec => []OnlyTrapsCrash`, for any input of the user
  and any integers, doubles and strings.  The compiler checks types and the
  interpreter trusts it, in other files and without a common definition.
  `OperationsAssumption` says what connects them: the functions that
  `initializeContext` registers take and give the types the interpreter's cases
  pop and push.  `SystemInv` is the compiler's invariants, of which those about
  nodes and variables stay when the program is executed, and `ExecutingInv`: the
  memory has a value of the registered type for every variable (`MemoryTyped`),
  each frame is at a node, or behind the last (`FramesOK`), and the evaluation of
  an expression has, after `ip - 1` operations, values of the types found by
  executing them on types (`EvaluationInv`), so that it ends with the value its
  node takes.  A division by zero and a trap are what remains.

`LookupProofs`, for any storage and any call:

* `LookupFindsTheBest`: `Spec => []FindsTheBest`.  `BestInv` says that
  `optimalIndex` is the first of the overloads with the fewest casts among those
  that were tried, `ArgumentInv` that the cost so far counts the casts of the
  arguments that were tried and that those fit, and `CompareInv` that the cost
  is the overload's when it is compared.  That an overload that fits never costs
  `INT_MAX` is why `LookupAssumption` bounds the number of arguments.
* `LookupIgnoresOrder`: `Spec => []ResultIgnoresOrder`.  For a call without ties
  (`NoTies`: no two different overloads that fit need equally many casts) the
  result is that of any storage with the same functions, in whatever order they
  were registered.  `CheapestIsFound` shows that `FindFunction` is then a matter of
  the set of functions, `OrderMattersOnlyInTies` that two storages agree.

`ContainerProofs`, for any set of integer keys and tables of any size:

* `WellFormed`: `Spec => []TypeOK`.
* `StaysSorted`: `Spec => []Sorted`.
* `ReadsInBounds`: `Spec => []IndexInBounds`.
* `ImplementsAMap`: `Spec => IsAMap`, that is, `Table` implements `TableSpec`.
  The inductive invariant `TableInv` has the state of a search (`Borders`): the
  key is not left of the left border nor right of the right one, and when the
  borders have crossed, `i` is the index of the last smaller key, or 0.  From
  this follow the place of an insertion (`InsertPlace`) and, with the facts
  about `InsertAt` and `RemoveAt` that the module proves, how the map changes.

`VariablesProofs`, for any number of contexts, types, variables and literals:

* `StorageTypeCorrect`: `StorageSpec => []StorageTypeOK`.
* `ContainersAgree`: `StorageSpec => []EntriesAgree`.  The two together
  (`StorageInv`) are inductive: that a registration gives the next id needs that
  the informations and the values are equally many, and `torn` takes out the
  contexts where they are not.
* `ImplementsAStore`: `StorageSpec => IsAStore`.  Each call, a failed one too, is
  a call of `VariablesSpec` on the lists that the containers stand for
  (`EntryList`, `TypeList`).  There are lemmas for what each way to grow the
  containers does to a list (`OneMoreEntry`, `OneMoreValue`, `OneMoreName`,
  `OneMoreType`), and for each group of calls (`ContextStep`, `RegistersTypes`,
  `RegistersVariables`, `SetsValues`, `GetsValues`).  The invariant has what they
  need in torn contexts, where the containers disagree: a name leads to an entry
  of that name, and there are never more values than informations, so the next
  value falls to the first entry that has none.

and for any number of stacks, blocks and elements and any limit:

* `StackTypeCorrect`: `StackSpecification => []StackTypeOK`.
* `BlocksHaveOneOwner`: `StackSpecification => []OneOwner`.
* `OnlyCopiesWriteBehind`: `StackSpecification => []OnlyCopiesOverrun`.  None of
  the three is inductive alone.  `StackInv` is: the members of each stack are
  sound, its block is allocated, as long as the capacity if it is no copy
  constructor's and never shorter than the size, no two stacks have one block,
  and who has overrun has a copy constructor's block.  A new block is no one's
  (`NewBlock`), and every other action changes the members of one stack
  (`OneStackChanges`) or exchanges those of two.
* `LeaksAreOfMovesAndCopies`: `StackSpecification => OnlyMovesAndCopiesLeak`.
* `ImplementsAStack`: `StackSpecification => IsAStack`, whichever allocations and
  copies of elements fail.  The contents are what the cells in front of the size
  have; each action changes those of one stack (`OneContent`,
  `ContentInNewBlock`), since no other has its block.

`ExecutionProofs`, for programs of any length, storages of any size and any
integers, doubles and strings:

* `TypesNeedNoValues`: `Spec => []TypesAreStatic`.  `StackInv` has what the
  property leaves open: what is loaded has the type of its entry, and the stack
  has only the four types, which is why no typed stack is taken for the mark
  `IllTyped`.  `StaticTypes` is a function defined by recursion; that there is one
  for every program is the lemma `TypingExists`, by the shortest program that
  would have none.  `Popped` relates the pops, which go from the right, to the
  types at the end of the stack.

`EditorProofs`, for any texts and files and any number of processes:

* `EditorIsTyped`: `EditorSpec => []EditorTypeOK`.
* `SavesWhatIsShown`: `EditorSpec => []ShownFileIsSaved`, inductive with the
  types, since no file has the name of none.
* `LosesNoError`: `EditorSpec => []LatestIsComplete`, inductive with the types,
  which say that the unread pieces of a process are its own.
* `ShowsTheReport`: `EditorSpec => []ReportsTheRun`.  It needs `RunInv`: while
  the process of a click without others runs, it is the only one, its lines are
  those of the text that was run, the console is empty, and what was read is
  the part of its report that is not unread.  `WindowShows` then says what the
  handler of `finished` prints of a whole report, from `OneLine` (a report is one
  line) and `PositionShown` (the last line that starts at or before a position is
  the one the position is in).

Only model-checked are:

* what is about grammars and meanings, which are recursive: `CompilesTheGrammar`,
  `CompilesTheProgram`, `EvaluatesTheMeaning`, `ExecutesTheText`;
* `OrderDoesNotMatter`, that is, that the one storage of `ProgramContext` has no
  ties; what follows where there are none is `LookupIgnoresOrder`;
* `SystemTypeOK`: that the memory and the frames are well formed is part of
  `SystemInv` above, but that a value is one of the values of its type would need
  assumptions about every parameter for the arithmetic of doubles, for texts and
  for streams, over sets that TLC cannot evaluate;
* all liveness, which TLAPS does not prove.

## 5. Not modelled

* The parts of the editor that only display: highlighting, row numbers, scroll
  bars.  `consoletextedit.h` is included nowhere.  The console is a text that
  grows at its end, although a user can put the cursor elsewhere.
* `Lexer::seek` has no `return`; it is modelled for its effect, as no one uses
  its result.
* `isspace`, `isalpha` and `isdigit` of negative characters are undefined; texts
  of the model have none.  A character outside the classes is as an unknown
  one: the lexer stops there.
* Allocations that fail outside the storages of types and variables and the
  stack.
* A text in which the lexer finds an invalid token is reported before
  `ProgramCompiler` is called: `Program` starts behind it.
* Positions and texts of the errors; formats of the output, but that `ReportsTheRun`
  and `ErrorsAreShown` tell line breaks apart.
* `tools/postfix_rules_generator.py` writes the table of valid sequences, which
  is modelled as it stands in `postfix_compiler.cpp`.
* `tests`: they are read for what they expect of the code.
* `libs`: googletest and the headers of zlib are third party code, which the
  program's own does not call.  They are more than nine tenths of the lines in the
  repository.
