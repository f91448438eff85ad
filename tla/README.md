# Daewoo in TLA+

Daewoo (`src/`) holds two interpreters in C++. One scans, checks and compiles a
small language to bytecode and runs it on a stack machine; the other is a
Monkey interpreter (lexer, Pratt parser, tree-walking evaluation, REPL). This
directory specifies both from the characters on, checks them with TLC, and
proves with TLAPS that the compiler of the first makes code that its machine can
run without a check, from any tokens; that the machine is then safe, takes a
bounded number of steps and implements calls between functions that share no
stack; and, of the second, that the lexer makes the tokens its input is written
with, that no tree the parser lets through has a hole, and that no line leaves a
trace in the session but what its own `let`s bind.

## Inventory

| Part | Sources (`src/src/`) | State it keeps | Operations |
|---|---|---|---|
| Virtual machine | `VM.*`, `MachineStack.*`, `OpCodes.hpp` | operand stack of 4000 records and its top, 2048 frames and their top, the module run, one instruction counter per active `run()` | one per opcode; call and return |
| Module and tables | `TModule.hpp`, `TSymbolTable.*`, `ConstantTable.*` | code vectors, symbols with type and value, constants (a global) | find, add, store; append, patch a jump, grow by 512 |
| Token table | `TokenTable.*` | the tokens read so far | add, next token |
| Bytecode generator | `TByteCodeBuilder.*` | position in the tokens, the module being built, `currentUserFunction`, the scope flags | one procedure per grammar rule |
| Drivers | `tests/vm.t.cpp`, `app/benchmarks` | none | scan, check, build, run, read the top of the stack |
| Scanner | `lexer.*` (class `Scanner`), `Token.hpp` | character read ahead, line and column, whether it is in a comment | next token |
| Syntax parser | `SyntaxParser.*` | the token table it fills, whether it is in a function | one procedure per grammar rule |
| AST builder | `ASTBuilder.*`, `ASTNode*.hpp` | position in the tokens, whether it is in a function | builds a tree nothing runs yet |
| Memory manager | `MemoryManager.*`, `TListObject.*`, `TStringObject.hpp` | a linked list of heap blocks | add, mark, free the garbage |
| Monkey lexer | `lexer.*` (class `Lexer`), `defs.hpp` | two 16-bit positions | next token, literal of a token |
| Monkey parser | `parser.*`, `ast.hpp` | two tokens, the errors | one procedure per form |
| Evaluator and REPL | `ast.cpp`, `evaluator.*`, `environment.*`, `object.*`, `globals.*`, `repl.*` | chained environments, one of them for the session | evaluate, bind, look up, read a line |

The parts interact by calls in one thread. The scanner feeds the syntax parser,
which stores the tokens it reads; the generator reads that table again and
fills a module; the machine runs the module, sharing its symbol table and the
global constant table. Nothing is persistent and nothing concurrent: what is
hard here is a long sequence of legal steps, each relying on what the ones
before left in shared, unchecked state.

What makes each part correct, and where it is hard to test:

- **Machine.** No access to the stack, the frames or the code is checked, save
  the depth of the frames. The machine is right only when frames do not
  overlap, every path through a function leaves the same operands, and a return
  finds its caller's stack by counting back. A call keeps its operands across
  an arbitrary recursion.
- **Generator.** Jumps are patched after the fact, assignments are generated
  backwards, functions share the builder's state. Its code must keep the
  discipline that the machine needs, and mean what the language says.
- **Tables.** Lookup order, stale symbols and constants.
- **Syntax parser.** It should accept only what the generator can compile
  (`TByteCodeBuilder.hpp:14` relies on it).
- **Scanner and lexer.** Lookahead of one character, line ends of two systems,
  comments and strings without an end; numbers, lengths and positions at the
  limits of their types.
- **AST builder.** A third descent over the same tokens, which must agree with
  the two others and gets its operands from calls whose order is open.
- **Memory manager.** Its list must stay linked while its garbage pass deletes.
- **Monkey interpreter.** After a syntax error parsing goes on with null nodes
  that must never be evaluated. Closures see the environment of their
  definition as it is by then, a return leaves every enclosing block and no
  more than its function, and a line that fails leaves the session usable.

`PROJECT.json` lists the components and the hazards with their lines.

## Modules

| Module | What it is |
|---|---|
| `Bytecode` | opcodes, symbols and modules: what the generator hands to the machine |
| `DaewooVM` | the machine: state, one action per opcode or group of opcodes handled alike, `Spec`, `FairSpec` |
| `CodeDiscipline` | the discipline of code (`Disciplined`): known operands at each instruction; the modules that the generator is to keep it in (`Ordinary`); jumps that go forward (`GoesForward`) |
| `StackDiscipline` | the properties of a machine that runs such code, and their inductive invariant `StackSound` |
| `Progress` | the number that each step of the machine lowers where jumps go forward |
| `TokensTable` | tokens, as the parser and the generator read them |
| `SyntaxParser` | the syntax check: from tokens to an error or the token it stopped at |
| `ByteCodeBuilder` | the generator: from tokens to a module |
| `Compiler` | composes parser and generator: from tokens to a module, or to none; what the generator promises of it |
| `DaewooLanguage` | the reference: syntax trees, their tokens, their meaning |
| `Activations` | the abstract specification of calls: activations with locals and operands of their own |
| `CallRefinement` | the machine's frames as activations: the refinement mapping, and `ImplementsActivations` |
| `SyntaxTree`, `ASTBuilder` | the nodes, and the tree builder |
| `DaewooTrees` | the reference: the tree that a program has |
| `Compilation` | the compiler at work on any source, and what comes out |
| `FrontEnd` | composes `Compilation` with the tree builder, for sources that are edits of programs |
| `Pipeline` | composes compiler and machine: a program's tokens are checked and compiled, the module is run, the result compared with the meaning |
| `MemoryList` | the list of heap blocks, its garbage pass, the symbols that hold strings |
| `Characters` | characters, as both tokenizers class them |
| `Scanner`, `MonkeyLexer` | the tokenizers of the two languages: operators from their state to the state after a token |
| `LexerRun` | the lexer at work on any text, called to the end and beyond, and what its tokens are |
| `Tokenizers` | composes `LexerRun` with the scanner at work on sources made of lexemes and layout |
| `MonkeyNodes` | the nodes of the second language's trees |
| `MonkeyParser`, `MonkeyEval` | the parser and the evaluator of the REPL |
| `Session` | composes them in the loop of the REPL, on any lines: read, parse, evaluate, print |
| `MonkeyLanguage` | the second reference: the tokens of a line, what the lines of a session mean |
| `Repl` | sessions of well-formed lines and their edits, compared with that reference |
| `MCCalls`, `MCLimits`, `MCFrontEnd`, `MCMemory`, `MCTokenizers`, `MCRepl` | the instances TLC checks |
| `Claims`, `MCClaims` | what comments of the source say of generator and machine, and programs that show otherwise |
| `Compiler_proofs`, `Compilation_proofs` | the proofs about the compiler |
| `Machine_proofs` | those about the machine, and about the activations it implements |
| `Execution_proofs` | those about the machine's progress, and about compiler and machine together |
| `MemoryList_proofs`, `LexerRun_proofs` | those about the heap and the lexer |
| `Session_proofs` | those about the REPL |
| `Numbers_proofs` | induction over numbers as a fact about sets, which the others use |

### The machine

`slots` and `stackTop` are `TMachineStack::stack_` and `stackTop_`; `frames`
and `frameTop` are those of `TFrameStack`; `symbols` is the symbol table of
`module_`. In the code a call of a function is a recursive call of `run()`.
Here `code` and `ip` are the locals of the innermost `run()` and `callers`
those of the suspended ones. `status` says how the machine stopped: `halted`,
`error` (an exception), `trap` (an integer division the hardware refuses),
`overrun` (an access past the end of the stack array) or `wild` (any other
access out of bounds). After an access out of bounds nothing is modelled.

Slots keep their old records when they are popped, so that a stale read is
modelled by what it reads. A value is a tag and a payload. Ints keep their
width: overflow, which is undefined, yields any int. A double is counted in
halves; the arithmetic of doubles, powers included, yields any of
`DoubleValues`, while comparisons are computed. A union read through the wrong
member yields anything. Frame counters are bytes (`% ByteMod`). A code vector
is as long as the code rounded up to `AllocBy`, with `Nop` in the rest.

Strings and lists never reach this machine's stack, since `Pushs` throws: the
branches that handle them have no counterpart.

### Activations

`Activations` is what a programmer takes a call to be: a list of activations,
the last one running. `Call` moves the arguments and the callee's index from
the caller's operands to the locals of a new activation, `Return` puts one
record back, and all activations but the ones at hand stay as they are. It
knows no stack, no frame and no slot. `CallRefinement` maps the state of the
machine to it: activation `k` has the slots from the base of its frame as its
locals and those from there up to the next frame as its operands. The mapping
is stated for a running machine with a disciplined module; any other maps to no
activations, which `Activations` may always go to (`Stop`) and never leaves.

### Parser and generator

Both are recursive descents over the same tokens, and both are written as
operators from the state of the reader to its state after them. That of the
parser is its position, whether it failed and whether it is in a function.
Where the code drops an error the operator does too: `Expect` passes over a
missing token, `Forgiven` clears the error after a `not`. The generator reads
the tokens the parser stored, up to the one it stopped at (`Table`).

The state of the generator has the position, the symbols with their functions,
`current` (`currentUserFunction`), the two scope flags and `out`, the code being
written. The four loops over binary operators are one operator with a table per
level (`BinaryOpcodes`, `Operators` in the parser); otherwise each operator is a
procedure, or the part of one after a token. A failed state reads a token that
no rule accepts, as an exception would leave every procedure.

The procedures of a descent call each other, and are written so that one can
prove about them: none is recursive. Each takes the other procedures as an
argument `p` and looks its calls up there. `Descent` supplies them: with no
calls left to make, all procedures fail (`TooDeep`); with one more, each finds the
ones before it. That is a recursive function of the number of pending calls, up
to `Depth`: ten times the tokens, since of ten procedures pending one inside the
other at least one reads a token. Were that too few, a source would be refused
that the code accepts, which `LanguageAccepted` and `RunsAsMeant` would show.

The global constant table is per module here: the drivers clear it before each
build and run one module.

### The front end

`Compilation` has the steps of a driver as actions: `SyntaxCheck` ends in
`refused` or `checked`, `Generate` in `thrown` or `built`. Its sources are any
sequences of tokens (`SourcesScanned`). `FrontEnd` adds `Construct`, the tree
builder that the tests of `parser.t.cpp` run instead, which ends in
`constructed`, `thrown` or `endless`; its sources are well-formed programs and
their edits.

`ASTBuilder` is written like the parser, and its procedures return nodes. In
`make_unique<ASTPrimary>(factor(), primaryPlus(), ...)` both arguments read
tokens, and C++ leaves their order to the compiler: `Construct` takes either
order for a whole build (`rightFirst`). A list of statements that reads the
same token for ever is `endless`.

### The tokenizers

The state of each is that of its class, with the text and how much of it was
read. `eof` is the state of the stream: a `peek()` at the end sets it, after
which a read delivers the end without counting a column. Sources of the scanner
are sequences of pieces, each a lexeme with the token it is written for, or
layout; pieces that would be read as one are not put next to each other. A
float is the digits of its three parts. A failed scanner has thrown.

The lexer of the interpreted language computes no numbers and has no state but
its two positions, so that what its tokens should be can be stated of any text:
`NextFrom(text, p, token)` says that this is the next token for a lexer that
looks for it from `p`. Its loops read on while the character is in a set; `Run`
is that loop, as a function of the number of turns.

### The REPL

`Session` has one action for a line read, one for its parse, one for the answer
printed, and one for each step of its evaluation; `phase` is how far the loop is.
The parser is a descent like those above: `Parsed` is a call of
`parseExpression()`, `StatementsFrom` and `ArgumentsFrom` go on with a list, and
`Descent` supplies them by the number of pending calls, twice the tokens and two.

The evaluator is a recursion of `evaluate()` over the tree. Its pending calls are
`memory.running`: each has its node, its environment and the objects that the
calls it made have given (`given`), which together are the place in the C++
procedure it waits at. `Proceed` is what the innermost call does next: it makes
a call (`Evaluate`), returns (`Gives`) or meets its fate. Objects never change
after they were made, so that they are values here, with an `id` where the code
compares pointers; environments change and are shared, so that they are entries
of `memory.envs`, with their index for a pointer. `memory.fate` says how an
evaluation ended when it did not end well: a null pointer followed (`nothing`,
or `hole` for a node), an argument read past its vector (`arguments`), a division
that traps, or more pending calls than the stack holds (`depth`). What
`toString` does wrong, reading the first element of an empty list, is
`Inspectable`; the rest of the text is left out.

`IsLine` is what the lexer makes of a line: tokens with a type, a number for a
literal where that is `Int` and a text elsewhere.

`std::getline` fails without clearing the string once the stream has ended: a
line cut off by the end of the input is there again (`ReadSameLine`). A line of
more characters, or with a longer word, than the lexer's types count ends the
program with an exception that nothing catches (`ReadTooLong`).

### The heap

`live` has the blocks allocated; a node and its string are one block, since the
code makes and deletes them together. `freeGarbage` and `freeList` take one
step per turn of their loops, with `cursor` and `previous` as the locals of the
pass. `cursor` stays on a node that was deleted, because the procedures that
delete it are given it by value. What the loop finds there is undefined: the
list is `wild` and nothing is modelled after it. No other code of the
repository calls the two passes or stores a string yet; the model lets
any caller do so in any order, `freeList` last.

### The reference

`DaewooLanguage` is not a translation. It gives syntax trees, writes each as
tokens with the parentheses its precedence needs (the grammar in the comments of
`TByteCodeBuilder.cpp`), and evaluates it over ints and booleans. Comparing
the machine's result with that meaning tests the grammar, the generated code
and the machine at once. `DaewooTrees` adds the tree each program has.

`MonkeyLanguage` does the same for a session of the REPL, with substitution-like
closures instead of shared environments: a function takes the locals it was
made among by value, and names not found there are globals as they are by then.
What the language leaves open (errors compared, too few arguments, the value of
an empty block, a binding inside an expression) is `Undefined`, and a session
is compared up to there.

## What is checked

| Run | Shows | Bounds |
|---|---|---|
| `calls` | `RunsAsMeant`; `KeepsDiscipline` of the generated code; `ReturnReplacesArguments` and `CallerSlotsIntact` of the machine that runs it; `ImplementsActivations` | 20 bodies of `f`, 4 of `g`, 9 top levels, each with the functions it calls; recursion to depth 4, 24 slots; and all expressions with two nested operators out of five, with unary minus and not over 3 literals, so that every pair of adjacent levels occurs in both orders |
| `limits` | `TypeOK`, `FrameDiscipline`, `NeverWild`, `StackSound`, `CompiledRunsSafely`, `JumpsForward`, `PlainStaysInside`, `Termination` and `Advances` where resources run out and operands have the wrong type; fires every action | 7 slots, 4 frames, bytes of 4 values, ints of 3 bits: each limit is reached |
| `frontend` | `CompilationTypeOK`, `LanguageAccepted`, `SameExtent`, `TreeExtent`, `BuiltDisciplined`, `BuiltForward`, `TreeAsWritten` and `TreeBuilderEnds` for sources that are wrong in any one token | 7 programs with every kind of statement, each of their tokens removed, replaced by or preceded by one of 22: some 8400 sources, among which each end (refused, thrown, built, constructed, endless) occurs |
| `memory` | `Linked`, `PreviousBehind` and `SymbolsOwnStrings` | 4 blocks, so that a list has a first, a last and two middle nodes; 2 symbols; blocks and symbols are symmetric |
| `tokenizers` | `TokensAsWritten` and `PositionsAsWritten` of the scanner, `LexerTypeOK`, `SlicesAsWritten` and `EndStays` of the lexer | for the scanner all sources of 3 pieces out of 33 and of 4 for layout; ints to 127 and exponents to 12, so that both overflow at their last digit. For the lexer all texts of 4 characters out of 10 and of 4 words out of 10; positions to 8 and lengths to 4, so that texts reach and pass both; 11 tokens, more than a text of 8 characters has, so that every one is read past its end |
| `repl` | `TreesAsWritten` and `NoHoles` of the parser; `AnswersAsMeant`, `CallsLeaveNoTrace`, `NothingFromEmptyBlocks` and `PrintedUnlessEmpty` of the evaluator; `SessionEnds` of the loop; `TypeOK` | all sessions of 3 lines out of 17 that share their names, and each line, alone and whole, with one token removed, put in or replaced by one of 20; 40 pending calls of `evaluate()`, which `g` and `f` together exceed; literals to 127 |

`RunsAsMeant` compares the end of a run with the meaning: the result, and the
whole symbol table, in which each name that the program defines (`NamesOf`) has
the value stored last, or none where no statement that stores to it was
reached, also when the run ends in an exception. `KeepsDiscipline` says that the code of every *plain* program is disciplined; a plain program
defines no function inside another and does not assign to a function's name.
The other properties of the machine are stated for disciplined modules, whatever
produced them. All programs of `calls` are plain, and `limits` has both kinds.
`PlainStaysInside` assumes nothing of the code, only that the program is plain,
so that the generator is what it rests on: a function whose statements reach no
return goes on to the one the generator adds, and not past its code.

`BuiltDisciplined` says the same of whatever the parser lets through, of which
nothing but the code that comes out can tell whether it was to be disciplined. A
module is *ordinary* if each of its functions ends in a return of its own and has
no more locals than a byte counts, nothing is stored to the name of a function,
and there is no string, at which the machine stops while the generator goes on
as if it had been pushed. Each of these conditions is needed: without it the
generator makes undisciplined code, from the last programs of `Functions` in
`MCFrontEnd` for one. `CompiledRunsSafely` draws the conclusion for the machine:
what is ordinary runs within the discipline and never goes wild.

`SameExtent` says that parser and generator stop at the same token, so that no
checked statement is lost. `TreeExtent` says so of parser and tree builder, where
every function has a name: at one without, which the parser lets through, the
tree builder loops for ever (`TreeBuilderEnds` says that nothing else makes it). `TreeAsWritten` is stated
for a compiler that evaluates arguments from the left.
`FrameDiscipline` states how high the stack is at each instruction, and
`Termination` that every program stops. `Advances` says why: where jumps go
forward, as `JumpsForward` and `BuiltForward` say that those of the generator do,
each step lowers `StepsLeft`. The places of all the `run()` calls that there may be are
the digits of a numeral, the oldest call first and 0 for one that is not
entered. A step within a code raises the digit of the innermost call; a call
raises the next one from 0; a return sets that back to 0 and raises the one
before it, which outweighs all that follow. `StepsLeft` is what the numeral lacks
to the largest one with as many digits, and the frames bound these.

`PositionsAsWritten` and `EndStays` name in their statements what the code gets
wrong, and show that nothing else is: lines after a string with a line feed in
it, columns after a comment and an empty line, and, with an input of exactly
65535 characters, an end after which the input is read again.
`AnswersAsMeant` compares every answer of a session with the reference,
`CallsLeaveNoTrace` says that a line, whenever it is looked at while it is
evaluated, has changed only the session's names that its own `let`s outside of
functions bind, and none of an environment that a closure kept, and `NothingFromEmptyBlocks` that a null
pointer is followed only where a block without statements, or what was made
from one, has been evaluated. `PrintedUnlessEmpty` traces an answer that cannot
be printed to how the lines of its session were written: a function in it lists no
parameters, a call was taken for one without arguments, or a block inside a
return is empty. Only a text nested too deep is excused besides.

Six runs end in a violation, each of what a comment or an error message says:

| Run | Code | Says |
|---|---|---|
| `claim_pushnone` | `PushNone` leaves the slot's stale record | `OpCodes.hpp:44` |
| `claim_overflow` | no push checks the stack; `checkStackOverflow` has no caller | `MachineStack.cpp:28` |
| `claim_iseq` | double = int reads the wrong union members | `OpCodes.hpp:48` |
| `claim_valid` | the parser accepts a sum whose parenthesis is not closed | `TByteCodeBuilder.hpp:14` |
| `claim_cursor` | the garbage pass goes on at the node it deleted | `MemoryManager.cpp:78` |
| `claim_primary` | evaluated from the right, the parts of a primary are read in the wrong order | `ASTBuilder.cpp:451` |

Two more are known from the model and have no run of their own: a function with
256 locals or more has a frame that counts fewer (`VM.hpp:21` speaks of the
"number of local variables"), and a function with another one inside gets no
return, although `TByteCodeBuilder.cpp:595` says "make sure we return".

A name looked up is the first of the table, in the model as in
`TSymbolTable::find`; `TByteCodeBuilder.cpp:416` speaks of the most recent
function. The programs of the passing runs define no function twice.

**Fairness.** `FairSpec` adds weak fairness of `Next`: `run()` is a loop in a
single thread that always takes its next instruction. No action is fair by
itself. `Stopped` keeps a stopped machine stuttering, so that deadlock checking
stays on and would report an instruction without an action. `Repl` has
`GoesOn`, and fairness of `Evaluation`: between two reads the loop waits for
nothing. That its input ends, in an empty line or at the end of the stream, is
fairness of `ReadNothing`, an assumption on the user; without it `SessionEnds`
is not to be had.

**Mutants.** The operators commented as mutants are used by no specification.
Each is a form a plausible bug gives to the definition that follows it, and
`PROJECT.json` names the property that it breaks.

## What is proved

For every sequence of tokens, of the compiler:

| Theorem | States |
|---|---|
| `CompiledCode` | what comes out is a module, its jumps go forward, and it is disciplined if it is ordinary |
| `CompilationTyped` | `CompilationSpec => []CompilationTypeOK` |
| `CompilationDisciplined` | `CompilationSpec => []BuiltDisciplined` |
| `CompilationForward` | `CompilationSpec => []BuiltForward` |
| `CompilationSameExtent` | `CompilationSpec => []SameExtent` |

For every size of stack, frames and bytes, every value set and every set of
modules that `IsModule` describes, of the machine:

| Theorem | States |
|---|---|
| `TypeCorrect` | `Spec => []TypeOK` |
| `StackSoundness` | `Spec => [](TypeInv /\ StackSound)` |
| `NeverWildAccess` | `Spec => []NeverWild` |
| `FramesDisciplined` | `Spec => []FrameDiscipline` |
| `CallersKept` | `Spec => CallerSlotsIntact` |
| `ReturnsReplace` | `Spec => ReturnReplacesArguments` |
| `MachineImplements` | `Spec => ImplementsActivations` |

For every size of stack and frames and every set of modules, of the machine's
progress:

| Theorem | States |
|---|---|
| `StepsBounded` | `Spec => Advances` |

For the same and modules made by the compiler, from any tokens
(`ModulesCompiled`):

| Theorem | States |
|---|---|
| `CompiledSafe` | `Spec => []CompiledRunsSafely` |
| `CompiledForward` | `Spec => []JumpsForward` |
| `CompiledAdvances` | `Spec => [][Running' => StepsLeft' \in 0..(StepsLeft - 1)]_vars`: as `Advances` but with nothing assumed of the module |

For every set of texts and all widths of positions and lengths, of the lexer:

| Theorem | States |
|---|---|
| `LexerSlices` | `LexerSpec => []SlicesAsWritten` |
| `LexerTypeCorrect` | `LexerSpec => []LexerTypeOK` |
| `LexerEndStays` | `LexerSpec => []EndStays` |

For every set of lines, every depth of the stack and every limit of literals, of
the REPL (`SessionSpec`):

| Theorem | States |
|---|---|
| `SessionNoHoles` | `SessionSpec => []NoHoles` |
| `SessionCallsLeaveNoTrace` | `SessionSpec => []CallsLeaveNoTrace` |
| `SessionNothingFromEmptyBlocks` | `SessionSpec => []NothingFromEmptyBlocks` |
| `SessionTypeCorrect` | `SessionSpec => []TypeOK` |

For every finite set of blocks and any symbols, of the heap:

| Theorem | States |
|---|---|
| `ListTypeCorrect` | `Spec => []TypeOK` |
| `ListLinked` | `Spec => []Linked` |
| `PassKnowsPrevious` | `Spec => []PreviousBehind` |
| `SymbolsKeepStrings` | `Spec => []SymbolsOwnStrings` |

The heap's only assumption is that memory is finite and the null pointer no
address. The machine's are those of `DaewooVM`: positive sizes, doubles that are
numbers, and modules that are tables of the shape the generator builds, whose
`Load` and `Pushd` operands index those tables. The lexer's are that texts are
sequences of characters and that a length goes to 2 at least, for the signs of
two characters. TLC evaluates them in every run, on the compiled modules.
Those of the REPL are that lines are what the lexer makes of them (`IsLine`) and
that the stack has room for one call.
The compiler's only assumption is that a source is a sequence of the tokens
the scanner makes (`SourcesScanned`). Of what the theorems of the machine
take for granted, `StepsBounded` has `GoesForward` as a hypothesis, and all
others but the first have `Disciplined`: `CompiledCode` proves both of what the
compiler makes, so that `CompiledSafe` and `CompiledAdvances` need neither.

*Compiler.* The invariant is one of procedures, not of steps: what each does to
the state of the generator, whatever that was. The code of an expression is an
operand *line*: it takes nothing from below the height it starts at and leaves
one value. The code of a statement is a *block*: it starts and ends with no
operand of its own, save that the top level may leave values that nothing counts
on. Lines and blocks are moved, joined, and put behind a condition; the lemmas
`LineConcat`, `LineThen`, `BlockConcat`, `BlockIf` and `BlockIfElse` say what
they stay, once the lengths in the jumps are those that `SetGotoLabel` fills in.
`Evaluates`, `Runs` and `Declares` say that a procedure adds a line, a block or
names to a sound state of the generator, and leaves tables that only grow
(`Extends`): a call counts on the arguments of a function that is not finished
yet, a local on a list that later statements still lengthen. Where a nested
definition takes the builder out of a function, what is written is no block, and
`Regular` keeps what is needed of its jumps and operands for the module to be
one. Each procedure has a lemma that assumes it of the procedures it looks up;
induction over the number of pending calls (`LevelObeys`, `DescentObeys`) then
makes it true of all at once. `HeightCounts` leads back from the heights counted
along a block to `Height`, which is the least that the instructions before
leave, and `CountedDisciplined` from there to `Disciplined`. Of the parser it is
enough that it keeps the tokens it was given and goes no further than it reads
(`DescentReads`), so that its table is again tokens of the scanner
(`TableTokens`).

*The driver.* `CompilationInv` says that what is built was generated from such a
table, and that the table is what a check without an error stored; the first three
properties follow. A behaviour of `FrontEnd` is one of
`CompilationSpec` as far as these variables go, since `Compile` takes a step of
it and `Construct` leaves them alone; `FrontEnd` has no theorem of its own because
it reaches modules with recursive operators.

*Extent.* Parser and generator are not in step: they take different procedures,
and the parser passes over tokens that are missing. What they share is where
blocks begin and end. `Nest` counts, along the tokens, the blocks that an `if`
or a function opens and an `end` closes, and a list of statements stops at the
first token that would leave the block it is in. `GeneratedCloses` says that the
generator, where it does not fail, closes what it opens and meets no *broken*
token: an `else` that follows no `then`, the end of the source in a block, a
function without a name. `CheckedMeans` says of the parser that it does so as far
as no token is broken, since what `expect` lets through it does not. Both are
again inductions over pending calls (`DescentCloses`, `DescentReadsOn`). What the
generator reads is what the parser has read, so that nothing is broken in
either, and both stop at the first token that is in no block (`SameEnd`).

*End to end.* `Execution_proofs` takes the theorems of the compiler as an instance
(`C`) and the machine by extension. Both have `CodeDiscipline`, so the lemmas
`SameIds` to `SameDiscipline` say first that the two speak of the same functions,
heights and jumps.

*Types.* `TypeOK` is not inductive: that the code run by a call exists needs
`FunctionsDeclared`, that a symbol of type function is one the module
declared. `TypeInv` is their conjunction.

*Stack.* `FrameDiscipline` speaks of the running function only and is not
preserved by a return, which must re-establish it for a function suspended
long before. `StackSound` therefore says it of every active `run()`: frame `k`
belongs to the function that run `k` calls, begins at the arguments among run
`k`'s operands, and run `k` had at its call the operands that the discipline
counts there. Two more facts close it: the symbols of functions are never
overwritten (`FunctionsKept`), and just before a call the top of the stack
holds the index pushed by the instruction before, which is why `Disciplined`
forbids a jump to a call. The proof has a lemma for each kind of step: those
that stop, move within a code (`MoveSound`), push a result (`ComputeSound`),
enter (`EnterSound`) or leave (`LeaveSound`) a function. The height of the
main program is a lower bound, since an expression statement there leaves its
value on the stack on some paths only; in a function it is exact.

The action properties follow from the invariant in the state before the step:
`WritesAboveBase` shows that no write is below the base of the running frame,
and the exact height at a return gives the slot of its result.

*Refinement.* `StackSound` places each frame relative to its own function's
operands, and that is not enough to map a step: a call or a return must leave
the locals and the operands of every other activation alone, and these end
where the frame above begins. `FramesOrdered` says that any frame ends before
any later one begins. It is stated of all pairs because, for pairs of
neighbours, the step to all of them is an induction over the depth. Each kind of
step then has a lemma that names the action of `Activations` it implements:
`ComputeStep`, `StoreStep`, `EnterStep`, `ReturnStep`. `LocalsKept` and
`OperandsExchanged` say what a step at the top of the stack does to the
mapped locals and operands, `SuspendedKept` that those below stay.

`StackSound` is also an invariant of the run `limits`.

*Progress.* `StepsBounded` needs little of the stack, and no discipline:
`Suspended` says that each waiting `run()` is at an instruction of its code, and
that no more wait than there are frames. `StepKinds` sorts the steps into those
that move on, enter or leave a code; each names the digit it raises
(`PlaceLater`), and `NumeralLess` says that of two numerals the first digit that
differs decides. That the machine does take its steps needs fairness:
`Termination` stays with TLC.

*Lexer.* `SlicesAsWritten` speaks of the tokens made; a step needs to know where
the lexer is. `LexerInv` adds that it is `Ready`, with the character of its
position and the next position to read, and that its position is the one from
which the next token is looked for (`From`). `RunReads` is the loop: the
characters it passes are in the set, the one it stops at is not, and it counts
no position past the largest, because the end is in no such set. A position
wraps only where the end itself is read (`CountedOn`). `NextTokenFinds` then has
a case for each kind of token, and `EndStays` follows from `SlicesAsWritten`.

*Heap.* `Linked` walks the list from its head and says nothing of a middle node
that a deletion can use. The invariant `InOrder` therefore has a witness: the
live blocks numbered `1..n` in the order of their links, with the tail at `n` and
`n` for the size. `Added` and `Removed` give the numbering after a block more or
less, whichever of the three procedures removed it; `CollectKept` needs
`PreviousBehind` to know that the remembered node is the one before the cursor.
`PreviousBehind` is inductive with the types, because the node that a pass
deletes is no longer live and ends it; `SymbolsOwnStrings` is, because what is
stored was bound to nothing and only garbage is deleted. `Walked` shows that the
function `Node` is that numbering: the numbering satisfies its definition, so
that `Node` does, and there is no least place where the two differ.

*REPL.* Three invariants meet in `SessionInv`. Of the *parser*: a tree is whole if
there is a set of nodes, closed under the parts of each (`Closed`), that has it;
with sets for heights, no induction over trees is needed. `Makes` says of a
parsing procedure that it never takes an error back and, where it ends without
one, has made a whole node; each has a lemma that assumes it of the calls it looks
up, and `DescentIsSound` is the induction over the pending ones. A null node
therefore came with an error, and `ParsedIsWhole` follows: the loop evaluates
whole trees, with blocks that are empty only if the line had an empty one.

Of the *evaluator*: that a program is whole says nothing yet of what a call in the
midst of it will do. `Good` has, of each pending call, what it needs when it goes
on: its node is one of the whole nodes (`Placed`), the objects that it was given,
and the one it waits for, are no more than it has parts (`Fits`), and it is in
the environment of the session only if it is one of the program's own nodes at
that depth, outside of functions; else in an environment that is newer than the
line. A function is of an older line, perhaps, but what it binds goes to the
environment its call made: that is `CallsLeaveNoTrace`, which no look at one
step could show. `Traced` is what has been bound so far. The objects are a set
closed like the nodes (`Objects`): functions have whole bodies and environments
that exist, and no object is missing unless some line had an empty block
(`Emptied`). `EvaluateIsGood`, `GivesIsGood`, `SetIsGood` and `EnteredIsGood` say
that the four things a step may do keep all that, and `ProceedIsFine` sorts the
nodes. Of the *loop*: `StoreLater` carries the sets from line to line, in which
more may be empty.

Every step of `Repl` is one of `SessionNext` or a stutter: its actions are those
of `Session` with guards that bound a session, and its lines are what `Inputs` is
in `MCRepl`. `Repl` has no theorem of its own because it reaches the reference, which
has recursive operators.

`GotIsBindable` needs `TypeOK`'s nested environments to see that `Get`, a
recursion from an environment to the one outside, is defined at all.

Model-checked only:

- `RunsAsMeant`, `LanguageAccepted`, `TreeExtent`, `TreeAsWritten` and
  `TreeBuilderEnds` compare a descent with programs or with another descent,
  which needs induction over programs; the reference and the tree builder have
  recursive operators.
- `KeepsDiscipline` of `Pipeline` says of plain *programs* what
  `CompiledCode` proves of ordinary *modules*. That a plain program within the
  limits gives an ordinary module is induction over programs again.
- That `Depth` is enough. The theorems do not need it: a descent cut short
  counts as a failure, of which they say nothing.
- `PlainStaysInside`, for the same reason: that the final return of a function
  that is plain is its own is a fact about programs and not about tokens.
- `PrintedUnlessEmpty`: that no list of the tree is empty unless it was written
  so needs another induction over the parser's pending calls, beside that of `NoHoles`.
- `AnswersAsMeant` and `TreesAsWritten` of the REPL, which compare evaluator and
  parser with the reference: induction over programs, and recursive operators.
- The properties of the scanner, whose module has recursive operators.
- `Termination` and `SessionEnds`, which are liveness.

## Not modelled

- The contents of lists (`TListObject`), and the reports of the memory manager.
- The tokens that the grammar of the parser has no rule for, save one
  (`Error`), which stands for them. The scanner makes all of them but `Period`:
  a point alone is a float.
- Values of strings and lists, the wording of errors, printing of opcodes.
- The C++ call stack: a recursion of 2048 frames fits it.
- Characters beyond ASCII, the value of a float literal, and the line numbers in
  the nodes of a tree.
- Overflow of ints in the evaluator of the REPL, the text of its answers, and
  the memory that cycles of environments and functions keep.
- A machine or module used twice: every driver makes new ones.
- The value of a double operation, and rounding.

## Plan

1. *(done)* `DaewooVM`, `StackDiscipline`, `ByteCodeBuilder`, `Pipeline`; their
   runs; the proofs of the machine.
2. *(done)* `SyntaxParser`, `FrontEnd`: what the two descents accept.
3. *(done)* `MemoryList`: the list and its passes.
4. *(done)* `Activations`, an abstract specification of calls, and the machine
   shown to implement it for disciplined code; checked on `calls`, proved from
   `StackSound`.
5. *(done)* `MonkeyParser`, `MonkeyEval`, `Repl`: the second interpreter against
   a reference semantics.
6. *(done)* `Scanner`, `MonkeyLexer`, `Tokenizers`; `ASTBuilder` in `FrontEnd`.
7. *(done)* Proofs about `MemoryList`: types, links, `PreviousBehind` and the
   strings of symbols.
8. *(done)* Proofs that the machine takes a bounded number of steps (`Progress`)
   and that the lexer makes the tokens of its input (`LexerRun`).
9. *(done)* Proofs about the generator and the parser (`Compiler`), about the
   driver (`Compilation`), and about compiler and machine together
   (`Execution_proofs`).
10. *(done)* Proofs that parser and generator stop at the same token
    (`SameExtent`), and of the REPL: whole trees, environments, calls without a
    trace (`Session`).
11. That the scanner goes forward in its text; that `Depth` is enough; that plain
    programs give ordinary modules.

Order: the machine first, since every result of the compiled language rests on
it; then the parts that feed it; then what proves more of it; then the second
interpreter.
