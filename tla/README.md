# Verification of Owlscript and the Glaux VM

TLA+ modules for the language implementation in `src/`: lexer, parser, compiler, the
bytecode VM with its heap and regular expressions, and the session around them. TLC checks the modules on
small instances; TLAPS proves the most important results for every value of the
constants. `PROJECT.json` maps every definition to the lines it models, and
lists the runs, a mutant of the code that breaks each property, the hazards, the
disagreements found and the theorems.

All paths below are relative to `src/src/` unless they start with `README.md`
(the repository's) or `scripts/`.

## 1. The system

Owlscript is a single-threaded program of about 6000 lines of C++. A line of the
REPL, or a whole script, goes through

    buffer -> Lexer -> Parser (actions build a tree)
           -> STBuilder (scopes, function objects)
           -> ByteCodeGenerator (instructions, constants)
           -> VM::run (executes until halt, then collects garbage)

One `ByteCodeGenerator`, one `ScopingST`, one `GCAllocator`, one `ConstPool` and
one `VM` last for the whole session. Nothing runs concurrently and nothing is
persisted. What is hard here is what is *shared over time*: the compiler and the VM
allocate from the same heap and pool, a line continues where the line before
stopped, a record outlives the call that made it if a closure captured it, and a
collection follows every run. Two counts that must agree are kept by different
components (scopes by the compiler, records by the VM; values an expression
leaves on the stack by the generator, operands an instruction takes by the VM).

| Component | State | Operations | Talks to | What makes it correct |
|---|---|---|---|---|
| Allocator (`vm/alloc.hpp`) | `live_items`, `free_list` | `next`, `alloc` per type, `free` | pool, VM, compiler, collector | a free cell is in use nowhere; a cell is handed out once |
| Constant pool (`vm/constpool.cpp`) | `data`, `n`, `maxN`, `stringPool` | `insert`, `get`, `grow`, `fetchMethod` | compiler writes literals and functions, VM writes what it makes | indices stay valid for the session, interned strings keep their content |
| Collector (`vm/gc.cpp`) | marks on items | `run`: mark roots, sweep | walks the VM's stack, records, pool | sweeps nothing reachable, and something unreachable |
| Records and closures (`vm/callframe.hpp`, `closure.hpp`) | control and access links, `cp_index`, locals | `entblk`, `retblk`, `call`, `retfun`, `invoke`, `mkclosure` | VM, collector | returns lead to the caller, environments outlive their closures, scoping is lexical |
| Interpreter (`vm/vm.cpp`) | `ip`, `opstk`, `sp`, `callstk`, `codePage` | one method per instruction | everything in `vm/` | operands and slots are there; the output is what the script means |
| Session (`owlscript.cpp`, `compile/compiler.hpp`) | code so far, `ip`, `sp` across lines | `repl`, `compileAndRun`, `compile`, `init`, `fetch`, `run` | compiler and VM | each line runs its own code, once, from start to end |
| Code generator (`compile/bcgen.*`, `compile_*.cpp`) | code vector, `cpos`, `highCI` | one emitter per kind of node, `skipEmit`, `skipTo`, `restore` | symbol table, pool | jumps lead where they should; every expression leaves one value |
| Symbol table (`compile/scopingst.*`, `stbuilder.hpp`) | tree of scopes, entries with address and readiness | `insert`, `lookup`, `makeReady`, `open*`, `closeScope`, `depth` | generator, pool | a name resolves to the innermost declared variable; addresses are distinct |
| Tree actions (`parse/actions.cpp`, `ast.hpp`) | nodes | one action per production | parser | nodes have the type their reader expects |
| Parser driver (`parse/parser.*`) | state and value stacks | shift, reduce, recovery | lexer, actions | errors leave it able to parse the next line |
| Lexer, buffers (`lex/`, `util/buffer.hpp`) | positions in a buffer | `nextToken`, `get`, `unget` | parser | longest match, no position out of the text |
| Regular expressions (`vm/regex/`) | automaton, sets of states | compile, match | VM (`VM_REGEX`) | match agrees with the language of the expression |

The hard behaviours, one entry per line of code in `PROJECT.json` "hazards": an
item freed by two paths; indices counted from one and copied from zero; marks
that are never cleared; a record deleted under a closure; numbers of different
kinds compared with each other; the step back that `init` takes whether or not
there was a step forward; code left behind by a compilation that failed half-way; stack
and record limits; values that statements leave on the stack; returns out of the
record of a block or loop; counters of scopes against counters of records; positions
in the code that go back to fill holes; a parser whose stacks are never emptied
and whose panic may be forgotten; a scanner that does not go back to its last
match; a method searched by its text among all closures of a session.

## 2. The modules

| Module | Models | Extends / used by |
|---|---|---|
| `OwlHeap` | allocator, constant pool, sweep | proved in `OwlHeapProofs`, instance `MCOwlHeap` |
| `GlauxFrames` | activation records, closures, collection of records | `GlauxFramesProofs`, `MCGlauxFrames` |
| `LineByLine` | abstract: what a session promises | refined by `ReplSession` |
| `ReplSession` | session, `compile`, `init`, `fetch`, `run` | `ReplSessionProofs` |
| `OwlLexer` | both buffers, `nextToken`, `lex` | `OwlTokens`; proved in `OwlLexerProofs` |
| `OwlTokens` | abstract: the tokens a program should become | `MCOwlLexer` |
| `OwlGrammar` | productions and tables for ten terminals | `OwlParser` |
| `OwlParser` | `parse`, `panicRecovery`, the actions it runs | `OwlTrees`; proved in `OwlParserProofs` |
| `OwlTrees` | abstract: the tokens a tree should have | `MCOwlParser` |
| `OwlSyntax` | the trees the parser's actions build | `Codegen`, `OwlMeaning` |
| `ScopingST` | the symbol table | `Codegen` |
| `Codegen` | the symbol table pass and every emitter | `MCGlauxVM` |
| `CodeBuffer` | where the emitters write: `cpos`, `highCI`, holes | proved in `CodeBufferProofs` |
| `GlauxCode` | values, instructions, pool entries | `Codegen`, `GlauxVM` |
| `NestedCode` | a verifier for compiled code: what can be said of a program without running it | `GlauxVM` |
| `GlauxVM` | the interpreter, one action per instruction | `MCGlauxVM`; proved in `GlauxVMProofs`, `GlauxNestingProofs` |
| `OwlRegex` | parser of patterns, automaton, its simulation | `MCOwlRegex` |
| `OwlMeaning` | abstract: what a script should print | `MCGlauxVM` |
| `MCGlauxVM`, `MCGlauxDivergence` | scripts, compiled and evaluated | runs |

**OwlHeap.** `live_items`, `free_list`, `data`, `n`, `maxN` and `stringPool` are the
fields of the same names. `item` is what the cell holds; `elems` is the set
of cells a list or instance refers to. `stack` and `globals` are the cells the
program can name. One action for each way the compiler or the VM uses the heap:
`CompileNumber`, `CompileString`, `CompileObject`, `LoadConst`, `MakeObject`,
`ConcatStrings`, `LoadChar`, `Pop`, `StoreElement`, `LoadElement`, `StoreGlobal`,
`LoadGlobal`, and `Collect` for the mark and sweep at the end of `VM::run`. The
address of a new cell and the order in which the sweep visits an
`unordered_set` are nondeterministic. `clean` is history: it turns false when a
sweep frees a cell that is on `free_list` already.

**GlauxFrames.** `callstk` is the VM's; `frame` gives each record's links and
`cp_index`; `alive` is the records in `live_items`; `closures` the closures made. The
program is open: any instruction may come next and a run may stop anywhere, since
a fatal error or a full stack stops it without unwinding. A pointer to a deleted
record becomes `Deleted`; following one is undefined, so the action that does is
not enabled, and the properties say when such pointers exist. `home` and `chain`
are history. A method that is not found calls whatever the pool ends with, so `InvokeMethod` may
link to the environment of any closure.

**ReplSession** has the session's registers and leaves open what
instructions do, except for `ip`, the depth of the stack and whether they end the run.
It is shown to implement `LineByLine` by the refinement mapping
`lo <- start, hi <- cpos, pc <- ip` while running, `ok <- clean`. `clean` is history:
every line so far yielded code and ran to its halt, and no call led out of the code. An address of -1
(`NoStart`) is that of a function object without code, which a `foreach` leaves in the pool: a method
that is not found may call it (`CallNoCode`), and then `fetch` yields the sentinel and `init` steps back no
further, for the rest of the session.

**GlauxVM** has one action per instruction. Strings are sequences of atoms, numbers
the integers among the doubles, and an object is named by the index of its pool
entry, which `OwlHeap` justifies (`NoAliasing`, `ValueKept`). A random number is any
number below its bound, and `=~` may answer either way or end the program, since it follows an
automaton that is gone. `calls` is history, and so is `bases`: how high the stack was when each call under way
had taken its arguments. Undefined
behaviour has no action, so it would appear as a deadlock, and deadlock is checked.

**NestedCode** is the contract between the compiler and the VM, which neither states nor tests.
`Compiled` says which operands instructions have; `WellNested` that every function and block has its own
stretch of code, that jumps stay in it and that functions are closed over, and methods
found, where their scope is; `WellAddressed` that variables are addressed within the
smallest record (10 slots, a method's); `WellFed` that on every way to an instruction its operands are pushed.
`program.need`, the operands needed at each address, is history: a least fixed point that `MCGlauxVM`
computes from the code, and `WellFed` checks step by step.

**Codegen, ScopingST, OwlSyntax** are the compiler as operators; where the code
reads a field of a union that another action wrote (a ternary's number is that of a unary
expression), the model has what it reads. Listings of the model's code agree with
the listings `Instruction` prints for the same scripts. **OwlMeaning** is independent of
them: an evaluator over environments that implements lexical scoping, closures and
lists, classes with constructors, fields and methods as `README.md:8` and `scripts/`
present them.

**CodeBuffer** leaves open what is generated: any construct may open or close whenever the
emitters' nesting allows it. A *branch* is an `if` without `else`, a filter, a function or a
class (one hole), a *choice* an `if` with `else` (two), a *loop* a `while`, `foreach` or
comprehension (a way back and a hole). A write behind the vector ends the model.

**OwlGrammar, OwlParser.** The tables of `parse/parser_tables.hpp` restricted to the terminals
of imports, blocks, `let`, assignment, calls and names, with the numbers the states have
there; all entries for these terminals in the states they can lead to were compared
with the file and are the same. `OwlParser` has one action for starting a parse, one for each kind
of turn of its loop and one for a syntax error, and keeps `st` and `semStack` between lines
as the code does. A tree is the sequence of its statements with what hangs on each.
`erred` and `below` are history. `Derivable`, the words of each part of a production, is a constant
that `DerivableAssumption` ties to the productions; `TablesFit` says of the tables, state by state, that
they are those of an automaton for the productions. TLC evaluates both. What the code leaves undefined (a position behind the
tokens, a string buffer cast to a file's, the top of an empty stack) ends in `phase = "undefined"`;
popping the empty `semStack` also may go on, since builds differ.

**OwlLexer** reads from a *string* (one line) or a *file* (lines). `Skip` passes over a blank,
`Mark` starts a token, `Move` is a turn of `nextToken`'s loop, `Push` and `Error` are what
`lex` does with its result. The matrix is that of `lexer_matrix.h` for a dozen characters,
with its numbers; braces and the quote go by their names. **OwlRegex** has an action for the parsing of a pattern, one for building
its automaton, one for the return from `compile`, and one for each character of the text. Its
arena is a sequence that ends where the code's does. The automaton is used when its arena
has been destroyed; that is undefined, so after the return it is either what it was or
the model ends in `phase = "undefined"`.

How they fit: `Codegen`'s output is `GlauxVM`'s program; `GlauxVM` abstracts the
heap by indices (`OwlHeap` says when that is right), makes and links records as
`GlauxFrames` does for all programs, and is one run of a `ReplSession`. `CodeBuffer`
justifies that `Codegen` appends code and patches jumps in it; `OwlParser` reads the symbols of
`OwlLexer`'s tokens and runs some of the actions `OwlSyntax` has as constructors.

## 3. The runs

Passing runs (every property has a mutant of a mapped definition that breaks it):

* **heap_repl** (`MCOwlHeap`, `MCOwlHeapRepl.cfg`, 292,000 states up to symmetry). Three
  cells, strings `""` (never indexed) and one other, lists and closures, an array
  of three entries so that the third insertion grows it and loses an entry,
  and two lines, so that cells freed by the first collection are reused in the
  second line. Two cells are needed to alias, a third to be the container.
  Checks that indices are in bounds (part of `TypeOK`), that entries do not share cells and interned
  strings and values keep their content *until* a double free
  (`NoAliasing`, `InternedStringsKept`, `ValueKept`), and that
  nothing reachable is swept *before the pool grows* (`ReachableKept`), although
  marking never enters a container.
* **frames_repl** (`MCGlauxFrames`, 755,000 states up to symmetry). Three records, so that
  control and access chains can differ; two functions that can each
  be moved, one method name, two closures, three lines. Checks that returns
  follow the records entered and not left, through live records only
  (`ControlChainSound`), that no record loses its environment
  (`EnvironmentOfLiveRecordKept`), that closures work for the whole of a script
  (`EnvironmentsKeptInScript`) and capture their own scope unless addresses
  collide (`CapturesHome`).
* **session_mix** (`ReplSession`, 3.38 million states). Four lines of at most two
  instructions in a vector of six, a stack of three: enough to fail in one line, go on in the
  next, fail otherwise, and see the effect. Checks
  that no emitted code is jumped over, unless a call has led to -1 (`NothingSkipped`), and the refinement `ImplementsLineByLine` (which has `StartsAtOwnCode` for one of
  its steps); `TypeOK` includes how far the stack pointer goes.
* **code_buffer** (`CodeBuffer`, 1.01 million states). A vector of five instructions and
  three open constructs: enough for each kind inside of each, with a hole as the
  last thing of another, and for the overrun at a hole, at a jump back and at plain code.
  Checks that exactly the holes of open constructs are unwritten (`OnlyHolesUnwritten`), that
  jumps stay in the code (`JumpsIntoCode`) and that nothing is written over (`WrittenOnce`).
* **lexer** (`MCOwlLexer`, 103,000 states). Every line of up to three characters out of
  twelve, of five out of those that names, numbers and literals are made of, as a
  string and as a file; files of two and three lines, some of them empty. Checks
  that well-formed programs become the tokens of the patterns (`LexedByPatterns`), that
  every token is the longest that begins where it does, whatever else the line has (`LongestMatch`), and that the lexer
  gets through any input (`ReadToTheEnd`).
* **parser** (`MCOwlParser`, 291,000 states). Every script of up to four tokens; every sentence
  of up to eight tokens; comments at every place of the shorter ones; and sessions of three
  lines, of which the first two end in every way a line can (accepted, error and recovery,
  error up to the end, error in the middle of a block, missing end). Checks that a sentence
  is parsed, and to its own tree, *whatever was entered before it* (`SentenceParsed`), that only
  sentences are (`OnlySentencesParsed`), that no error is reported late (`ErrorsInTime`),
  that both stacks have what a reduction takes and the tables have an entry for what it
  makes (`StacksInStep`), and that recovery ends (`Terminates`).
* **regex** (`MCOwlRegex`, 95,000 states). The patterns of all trees of two levels of operators over
  two letters with words of up to three, of one level over classes (two of them negated, one with a letter between
  the ends of its range) and the point, and malformed patterns, in an arena of thirteen states, which some of them fill. Checks
  each state set against the language of the tree (`SetOfStates`), the answer
  (`MatchAsMeant`) and the arena's limit (`WithinArena`).
* **vm_scripts** (`MCGlauxVM`, 66,000 states). 593 compiled scripts, each run to its end:
  every ordered pair of nine statements (assignment, two kinds of if, while, foreach, block,
  function, lambda, comprehension) in seven kinds of body, one of them a method's; fifteen scripts
  in the manner of `scripts/` (counter, chain, nonLocalRef, scope, blocks, fib, lists, sorting,
  halving and the other built-ins, and five with classes, one of them with random keys:
  fields of fields, methods that call themselves and close over `this`, two classes with
  methods of one name); five that are stopped by an error, six with operands of the wrong
  type. Checks that the code passes the verifier (`CodeVerifies`), that a method that runs was
  found and a function called for its result returns one (`CallsAnswered`), that
  an instruction finds its operands among the values its own call has put on the stack, never a caller's
  (`OperandsThere`), that slots are there (`SlotsThere`), that scopes and records agree
  (`RecordsMatchScopes`), that all records are left (`AllLeft`), that calls return to
  their callers (`ReturnsToCaller`), that a method is its receiver's (`MethodOfReceiver`),
  that scripts end (`Terminates`) and print what `OwlMeaning`
  says (`OutputAsMeant`). The bounds (a stack of 20, 40 records, 80 pool entries) are
  above what any script needs, but for the one that is to fill the stack.

`vm_scripts` checks for deadlock. The others turn it off: the bounds on lines, closures,
pool entries and open constructs make those models stop, and lexer, parser and regular
expressions stop when they are done. Symmetry is over cells and records, which are
only compared; no run that uses it has a liveness property.

Runs that end in a violation, each a disagreement of the code with what the
repository says of it (`PROJECT.json` "findings" quotes both):

| Run | What happens |
|---|---|
| heap_values | `let a := "x"; let b := "x";` frees the second item without taking it from `live_items`; the sweep frees it again; later two objects share the cell |
| frames_calls | a closure made by one line is called by the next: its environment was deleted in between |
| vm_lambda_let | the lambda of `README.md:60`: its `let` is compiled to a store with no address |
| parser_imports | of two imports at the head of a program the second is in no tree (`parse/actions.cpp:70`), though `Grammar/owlscript.mgrm` has a list of them and `compile/compiler.hpp:46` a loop |

What `vm/constpool.hpp:9-11` says of the pool, that it is no root and that what it refers to is
reclaimed when nothing else reaches it, is `GarbageReclaimed` of `OwlHeap`. Put in the place of
`ValueAlwaysKept` in `MCOwlHeapValues.cfg` it is violated as well: `vm/gc.cpp:83` marks the whole pool. It is in
no run since `ReachableKept` rests on the opposite.

`vm_lambda_let` runs one script, `LambdaInPlace` of `MCGlauxDivergence`. Other scripts of that module show further
disagreements when given to `Programs` in the same way; each names the property that fails:

| Script | What happens |
|---|---|
| `ReturnFromLoop` | `return` within a `foreach` jumps back into the loop (`vm/vm.cpp:147`) |
| `MinOfTwo` (`scripts/stdlib.owl:18`) | a returned ternary leaves no value (`parse/actions.cpp:135`) |
| `MapAsOperand` (`scripts/map.owl`) | what `append` leaves on the stack gets between an operand and the result (`vm/vm.cpp:338`) |
| `ReadyTooEarly` | an initializer makes a variable visible that is declared later (`compile/compile_expr.cpp:230`) |
| `ManyLocals` | the fifteenth local of a function has no slot (`vm/vm.cpp:132`) |
| `ChainedFilters` (`scripts/chained_comps.owl`) | of two filters one is called, with the other as argument (`compile/compile_expr.cpp:194`) |
| `DefinedAgain` | redefining a function moves values taken before (`compile/scopingst.cpp:116`) |
| `InstanceInFunction` (`scripts/ll.owl`) | an instance made in a function is stored in a global's slot (`compile/scopingst.cpp:107`) |
| `InstanceInBlock` | an instance of the top level is not found from a block (`compile/scopingst.cpp:107`) |
| `MissingMethod` | calling a method that a class lacks calls the closure made last (`vm/constpool.cpp:91`) |
| `MethodOfField` | a method called of what a field holds is not called (`compile/compile_load_store.cpp`) |
| `LambdaToMethod` | a lambda among the arguments of a method: its parameter has no address (`compile/stbuilder.hpp`) |

Where a property carries a condition, the code fails without it:

| Condition | Without it |
|---|---|
| `clean` (OwlHeap) | `heap_values` |
| `~Grown`; a lost entry in `InternedStringsKept` | `grow()` copies the indices below `n`, but entries are `1..n`: the last one is lost, with the string interned or the element held there (`vm/constpool.cpp:6`, `vm/gc.cpp:20`) |
| `NoCollision` (GlauxFrames) | a function's code address equals the pool index of another: a closure captures an outer record (`vm/vm.cpp:92`) |
| `collections = 0` (GlauxFrames) | `frames_calls` |
| `clean` (ReplSession) | after a blank line or a fatal error the next line starts one instruction too early (`vm/vm.cpp:5`); after a missed method that calls the function object of a `foreach` no later line is run at all |
| `ip = NoStart` in `NothingSkipped` (ReplSession) | the same: `start_ip` is -1 (`compile/compile_stmt.cpp:68`), a miss yields the pool's last entry (`vm/constpool.cpp:91`), and `fetch` has nothing at -1 (`vm/vm.cpp:530`) |
| `Imports(sentence) <= 1` (OwlTrees) | `parser_imports` |
| `CommentsApart` (OwlParser) | a comment directly behind another is a syntax error (`parse/parser.cpp:4-17`) |
| `~below` (OwlParser) | after an error up to the end `did_panic` is FALSE again, and the part before the error is run (`parse/parser.cpp:155`) |
| `phase # "undefined"` (OwlParser) | any syntax error in a line of the REPL casts its buffer (`parse/parser.cpp:154`); an error at the first token pops an empty stack (`:120`) |
| `WellFormed` (OwlLexer) | `1..5` is a number, a point and a number (`lex/lexer.cpp:52`); `#` in a literal is no pattern's; a literal or name over the end of a line is sliced by the wrong line's length, and an end of line does not separate two tokens (`util/buffer.hpp:108,125`) |
| `EndsInBlank` (OwlLexer) | a program that ends in a blank reads one character behind its end (`lex/lexer.cpp:82-92`): undefined for a file |
| `ClassesApply` (OwlRegex) | after a range in a class its upper end is read again, so `[^a-c]` accepts `b`; and `[^a]` refuses `^` (`vm/regex/re_compiler.hpp:240-242`, `:225`) |
| `meant # NoTree` (OwlRegex) | `^` and `$` pop an empty stack; what follows an unmatched parenthesis is not read |

**Fairness.** Liveness is stated for loops that run by themselves on the one thread: `VM::run`
(`Terminates`, under `WF_vars(Step)`), `Parser::parse` with its recovery (`Terminates`) and
`Lexer::lex` (`ReadToTheEnd`), both under `WF_vars(Next)`. Each executes its next turn until it
is told to stop, so a step that is possible is taken. (`WF_vars(Next)` in `OwlParser` also has
the next line entered; `Terminates` does not need that, as it is about one parse.) There is no fairness in
the other modules: a user need not enter another line.

**Bounds.** Bounds in guards: `Lines` and `MaxPool` (OwlHeap), `MaxClosures` and `Lines`
(GlauxFrames), `MaxEmitted` and `MaxLines` (ReplSession; `Capacity` is the code's own),
`MaxDepth` (CodeBuffer; `Capacity` is the code's own),
`MaxFrames` and `MaxPool` (GlauxVM; `MaxOpStack` is the code's own), `MaxLength` of the sentences
that a line is compared with (OwlParser); `MAX_STATE` of OwlRegex is the code's own. `Sessions`,
`Inputs`, `Requests` and `Programs` are what is entered. The proofs hold for all values of
these, `MAX_STATE` and `Requests` apart, and for each `MaxLength`.

**Compared with the program.** The models of the compiler, the lexer and the regular expressions are
functions of their input, so a build of `src/` was run on the same inputs: the listings of 606
scripts (those of `vm_scripts` and `MCGlauxDivergence`), the tokens of all inputs of the
`lexer` run (10,860) and the answers for 19,460 pairs of pattern and text (those of `regex` without `[^a-c]`
and texts with `^`; with the arena kept alive) are the model's.

## 4. The proofs

TLAPS proves the 28 theorems that `PROJECT.json` lists, from the named assumptions
on the constants only (the constants are finite or natural where the code's are,
model values are distinct, programs are `Compiled`). All follow the same argument: an inductive
invariant, with `Init => Inv` and `Inv /\ [Next]_vars => Inv'` proved action
by action, then `[]Inv` by PTL and each property from it. In the first four modules below it is called
`IInv`; the VM has one for each layer, and so has the parser.

* `OwlHeapProofs`. `IInv` is the checked invariants and four more facts: the pool's cells are live
  (`PoolKept`: the pool is marked), the array
  is empty above `n` (otherwise a new entry could duplicate an old one), `maxN` never shrinks
  below its first size (so "not grown" cannot come back), and
  until the pool grows every cell the program can name, or a container holds, is in the pool
  (`HeldPooled`). The last is why nothing reachable is swept although marking
  enters no container: reachability plays no role in it, the pool keeps all.
  `FreeCellsUnused` needs `clean`, and only `clean`: an allocation takes a cell
  out of a duplicate-free list that avoids the pool; a freed duplicate was just
  taken from it; a sweep adds live cells that are, by `clean`, not on it.
  Theorems: `TypeCorrect`, `HeapSound`, `StringsFoundAgain`,
  `ReachableNeverSwept`, and `ValuesStable` for the action property `ValueKept`.
* `GlauxFramesProofs`. `IInv` adds `ClosureLinksKnown` (a closure's links are to live
  records or known to be deleted) and `LabelsApart` (unless addresses collide
  no record is labelled with a function's index, so `mostRecentAR` falls back to the
  current record). That `ControlChainSound` survives a collection rests on the lemma
  that the whole chain is marked. Theorems: `TypeCorrect`, `ReturnsSound`,
  `EnvironmentsOfRecordsSound`, `ScriptEnvironmentsSound`, `LexicalScoping`.
* `ReplSessionProofs`. `IInv` bounds `ip` in each phase by the code (`AddressBounded`, which allows
  -1) and says that in a clean session `ip` is one behind the last halt
  (`AddressKnown`). Theorems: `TypeCorrect`, `OwnCode`, `NoCodeSkipped`,
  and `SessionImplements`, the refinement `Spec => LineByLine!Spec`.
* `CodeBufferProofs`, for any capacity and depth. That only the holes of open
  constructs are unwritten is not inductive: closing a construct sets `cpos` to `highCI`, which a hole left
  behind does not move. `IInv` therefore says when `highCI` lags: only when the last cell
  below `cpos` is a hole (`EndKnown`). To close the innermost construct then fills either that hole or
  one in front of it, since the holes of a construct lie behind those around it (`Ordered`, with
  `Shaped` for the holes each kind has). Theorems: `CodeBufferTyped`, `NoGapInCode`,
  `NoJumpBehindCode`, and `InstructionsWrittenOnce` for the action property `WrittenOnce`.

* `GlauxVMProofs`, for any set of compiled programs and any bounds. `TypeOK` is not inductive: an
  instruction that takes an object apart must find an entry of the right shape. `TypeInv` therefore
  types the stack, every local and every entry, keeps the entries the compiler made, and says
  that its closures and classes, which have no environment and no fields, are never
  values (`Held`). That each link leads to an older record makes every walk along links
  end. Theorem: `TypeCorrect`.
* `GlauxNestingProofs`. `NestInv` joins the history of calls, the records and the code: every
  activation that is under way has its own stretch of code with as many records above its own as
  blocks are open there, and every closure an environment of as many records as its
  function is nested deep. Its hypothesis is `WellNested(program)`. Theorems: `EveryRecordLeft` (`AllLeft`),
  `EveryReturnBack` (`ReturnsToCaller`), `ScopesAreRecords` (`RecordsMatchScopes`). With `SlotInv` (every
  record has 10 slots at least, the globals 255, and a store stands behind its `ldaddr`)
  and `WellAddressed(program)`: `EverySlotThere` (`SlotsThere`). `OwnMethodRuns` (`MethodOfReceiver`) needs `CallsAnswered`:
  `fetchMethod` yields the last entry of the pool when it finds nothing.
  `StackInv`: above its base (`bases`) each activation has at least as many values as `need` says of the
  instruction it is at, and a caller's base and operands lie below its callee's base.
  Hypotheses `WellNested`, `WellFed` and `CallsAnswered`. Theorem: `EveryOperandThere` (`OperandsThere`).

The hypotheses are needed: of the scripts of section 3 `ReturnFromLoop`, `LambdaInPlace`, `ManyLocals`, `InstanceInBlock`
and `LambdaToMethod` fail `CodeVerifies`, `MinOfTwo` and `MissingMethod` fail `CallsAnswered`, and no other
fails a property proved here. (Slots are demanded of the smallest record, so a function
with more than ten locals is refused though it may run.) Nor are they empty: `vm_scripts` checks
them for all of its 593 scripts (`CodeVerifies`), and `CallsAnswered` in every step.
So a script goes wrong in these ways only if the compiler emits code that fails a check
made before it runs, or a call finds no method or gets no result.

The first section of `GlauxVMProofs` has what walks along links need: a function defined by recursion along
them exists and is unique. Induction there is by the least counterexample, with well-founded sets.

* `OwlParserProofs`, for sessions of any number of lines of any length. `IInv`: the states on the
  stack are a path of the automaton from the state 0 the line began with (below it are the paths of
  earlier lines, never cleared), and the tokens read so far are cut into stretches, one for each step of the
  path, each a word of the symbol the step is by. A shift adds a stretch; a reduction by `p` finds, by
  `TablesFit`, a path with the symbols of `p` at its end, so the last stretches together are a word of its left
  side; accepting finds just one stretch, a word of `PROG`. Nothing is said after a panic but that the
  path is one, for `did_panic` keeps the tree from being returned. Theorem: `OnlyDerivedLinesParsed`
  (`OnlySentencesParsed`). It holds for whatever solution of `DerivableAssumption` is given; the run has the
  least. `HeightInv` counts: for the states above the last 0 there are as many nodes on `semStack`,
  and below a 0 there are only states in which a line was accepted (`Settled`). Recovery that goes back
  into one of these does so at the end of a line, where the line is then accepted with `did_panic`
  (`BackBefore`). Theorem: `StacksNeverDiverge` (`StacksInStep`).
* `OwlLexerProofs`, for lines of any length. `Reads` says of each state of the matrix what was read
  in it: one word, a number, a number and a point, a literal open or closed, a name. Every transition keeps
  this; a state that accepts has the symbol of the first pattern that fits the word; where there is no
  transition, no longer word that begins with this one and the next character fits a pattern (`NoLonger`). So
  `last_match` and `match` are of the longest word of a pattern so far, and only the point behind
  a number is ever read past it. Theorem: `LongestMatchAlways` (`LongestMatch`), of programs of one line, since
  the words of a file are cut by the wrong line's length (section 3).

**Model-checked only.** `OutputAsMeant`, since `OwlMeaning` and `Codegen` are recursive
over trees; for the same reason that *every* script compiles to code that verifies (`CodeVerifies`), which TLC
checks for those of the run. That every sentence is parsed, and into its tree (`SentenceParsed`), and that errors are
found in time (`ErrorsInTime`): that the tables are complete is a property of the generator's
construction, which is not in the repository. `LexedByPatterns`, `SetOfStates`, `MatchAsMeant` and `WithinArena`: each
compares the code with what a recursive operator makes of the input (`Split`, `Matches`, `Size`), which the
provers do not take. `CallsAnswered`, which depends on what scripts do. `Terminates` and `ReadToTheEnd`, because
liveness under fairness is out of the provers' reach. The violation runs are counterexamples.

## 5. Not modelled

* Numbers that are no integers, but for a quotient whose floor is taken at once; what `=~` writes
  while it matches. `dup` and `mkset` exist in the VM but are never emitted.
* The order in which single marks are made: the collection is one step, since
  nothing runs while it does. `ready` and `GC_LIMIT` are never consulted.
* Destructors and copies of `StackItem` and `GCItem`, the freeing of nodes by the parser's
  actions, formatting, listings, verbosity, command-line arguments, opening files.
* Of the parser's and the lexer's generated tables all but the parts for ten terminals and twelve
  characters: a table is data, and the other parts are reached by the same loop. The generators'
  sources have no run-time behaviour.
* The contents of imported files (their presence or absence is a choice in
  `ReplSession`), and the limit of 255 names in a scope.

Seen while reading, not shown by a run: `random` of anything but a number literal, or of nothing, ends the
compiler (`compile/compile_expr.cpp:111`); `emit` compares `cpos + 1` with `max_size()`, which is not the vector's
1024 elements, and writes behind them (`compile/bcgen.cpp:86-90`, the action `Overrun`); `push` may write the
element behind the stack's last before `run` stops (`vm/vm.cpp:43,81`; `TypeOK` of
`ReplSession` shows it goes no further); the automaton of a regular expression is used after its
arena is gone (`vm/regex/regex.cpp:76-86`); a class with a point in it accepts everything; a
comprehension in the predicate of another shares its hidden variables
(`compile/compile_expr.cpp:157`); a variable named `Epsilon` as an argument, and the string `"<nil>"`, are
taken for what the compiler itself calls so; `openFunctionScope` prints a line for every method
(`compile/scopingst.cpp:133`); the REPL does not stop at the end of its input (`owlscript.cpp:50-61`).

## 6. What could follow

1. `GlauxVM` refines `GlauxFrames`: records, links and closures of a compiled program
   are steps of the open one.
2. A collector in steps (mark stack, sweep iterator) that implements `Collect`.
3. The symbol table as a state machine: addresses in a scope are distinct and
   dense, lookup finds the innermost ready entry; proofs over recursive functions.
4. The composition of `OwlLexer` and `OwlParser`: a session from characters to trees.
