# A TLA+ verification of tigerc

tigerc is a compiler for the Tiger language, a sequential C program of about
3500 lines. This directory specifies parts of it in TLA+, model-checks them with
TLC, and proves some of what they promise with TLAPS. Everything is written from
the C source; the repository has no documents of its own, only comments and
tests.

## The system

`main.c` runs one pass after the other over one file:

| component | source | state | operations | hard about it |
|---|---|---|---|---|
| lexer | `lexer/lexer.c` | position, line, column | one token per call | comments nest, the end of input, fixed buffers |
| parser | `parser/parser.c` | two tokens of lookahead, an error count | recursive descent | error paths that consume nothing |
| semantic analysis | `semant/semant.c` | two symbol tables, a depth, an error count | types every expression, fills `ty` and `callee_depth` into the tree | headers before bodies, NAME types resolved late |
| escape analysis | `escape/escape.c` | a symbol table, flags in the tree | `find_escape` | must see the scopes as trans.c does |
| symbol table | `util/symtab.c` | hash chains, an undo list | insert, lookup, enter, exit | undo in place, collisions, stored NULLs |
| frames, temporaries | `frame/frame.c`, `temp/temp.c` | counters, lazily drawn registers, slots per frame, a table of label names | `frame_new`, `frame_alloc_local`, `frame_fp`, `label_named`, ... | one counter for everything, two offset formulas, a table that grows |
| translation | `trans/trans.c` | a symbol table of accesses, patch lists | `tr_expr`, `tr_dec`, `tr_var` | conditionals as patch lists, static links |
| trees, fragments | `tree/tree.c`, `frag/frag.c` | a list | constructors | - |
| canonicalisation | `canon/canon.c` | statement lists, a table of blocks | `linearize`, `basic_blocks`, `trace_schedule` | order of effects, order of blocks |
| code generation | `codegen/codegen.c` | an instruction list | `codegen` | relies on the order of blocks |
| liveness, bit sets | `liveness/liveness.c`, `util/bitset.c` | a graph, in and out sets as words | `cfg_build`, `liveness` | fixpoint iteration in place, the last word |
| printers | `printer/`, `irprinter/` | - | output | - |

Nothing runs concurrently and nothing is persistent. What is hard is the order
of things: long sequences of legal calls on shared tables and counters, two
passes that must agree about a third thing without talking to each other, and
loops whose end is not evident. Calls share state in three ways: the symbol
table (five clients), the counter of temporaries (trans, frame, canon, codegen),
and flags written into the syntax tree (escape to trans, semant to trans).

What makes each part correct:

- symbol table: scopes give back what they found; one bucket per key.
- frames: no two variables share a slot or a temporary; fp - 8 is the static link.
- escape: a variable used from a nested function is in memory.
- translation: a variable or call reaches the right activation; a condition takes the right branch.
- canonicalisation: the list that comes out runs as the tree that went in; the false branch follows its jump.
- liveness: the least solution, and an end.
- code generation: the instructions do what the list does.
- bit sets: a temporary has a bit of its own.
- labels: the names that tables are kept by are different.
- semantic analysis: it accepts what the language allows, ends, and leaves the
  depth or type of what the text means in the tree.
- parser and lexer: they end, nothing legal is rejected, and the tree is the text.

## Modules

| module | models | how |
|---|---|---|
| `ScopedEnv` | what a symbol table promises | a current environment and a stack of saved ones |
| `Symtab` | `symtab.c` | buckets with an identity, chains, the undo list; `symtab_exit_scope` one loop round per action |
| `SymtabRefinement` | - | a history variable and the refinement mapping from `Symtab` to `ScopedEnv` |
| `Lexer` | `lexer.c` | one symbol of the text per action, the text made up as it is read |
| `Parser` | `parser.c` | the recursion as a stack of frames, each with the items its function still has to do |
| `FrontEnd` | `main.c`, lines 38 to 50 | the parser with the lexer's tokens, and the references the two are compared with |
| `Grammar` | - | texts of the language up to a length, generated from rules in three families: the parser's reference |
| `Semant` | `semant.c` | the walk, as operators; what is undefined in C stops it |
| `Check` | `main.c`, lines 51 to 59 | a program, and what the walk over it comes to |
| `Typing` | - | the typing rules of the language: the reference for `Semant` |
| `Escape` | `escape.c` with the scoping of `trans.c` | both walks over a program made up as it is walked, each with a `ScopedEnv` |
| `Frame` | `frame.c`, `temp_new` | frames as records of accesses; `frame_new`'s loop one round per action |
| `LabelTable` | the labels of `temp.c` | the table, its capacity, its growth, and what realloc leaves in it |
| `StaticLink` | depths in `semant.c`, EXPR_CALL and `frame_exp` in `trans.c`, the code they emit | functions declared one after the other, then a stack of activations; each load of a link is an action |
| `Tree` | `tree.c`, the numbers of `temp.c` | constructors |
| `Source` | `ast.h`, `trans_expr` over integers, arrays and records | syntax trees, their types, and the meaning that properties compare with |
| `Trans` | `trans.c` without strings | recursive operators, one per construct |
| `Linearize` | `linearize`, `do_stm`, `do_exp` | recursive operators |
| `Traces` | `basic_blocks`, `trace_schedule` | the loops' rounds as actions over a list of statements |
| `Codegen` | `codegen.c` | recursive operators, one per case of `munch_exp` and `munch_stm` |
| `Machine` | - | runs trees and instructions, for the properties |
| `Pipeline` | `main.c` from the syntax tree to the instructions | stages, composing the seven above |
| `Flow` | the graph and the loops of `liveness.c` | the edges, and the course of the passes |
| `Liveness` | `cfg_build`, `liveness` | one visit of a node per action, in and out as sets |
| `Bitset`, `LivenessBits` | `bitset.c`, and the same visits over it | words as sets of bits; implements `Liveness` |
| `*Proofs`, `Minima` | - | the proofs, and what they share about numbers and finite sets |

`MC*.tla` with the `.cfg` files of the same name give the constants values.

Functions of the source keep their names where an action is the whole function;
a function with a loop is a few actions with a program counter (`pc`, or a count
of what is left to do), because the interesting states are those between rounds.

How the modules compose:

- `Escape` and `SymtabRefinement` use `ScopedEnv` for symbol tables, `Semant` and
  `Source` plain functions; `SymtabProofs` is what justifies either.
- `FrontEnd` puts `Lexer` and `Parser` together: the parser waits until the lexer
  has made a token.
- `Pipeline` composes `Source`, `Trans`, `Linearize`, `Codegen`, which are pure
  and recursive and so are operators of the functions' names (`un_ex`,
  `do_patch`, `tr_expr`, `do_exp`, `munch_exp`, ...), with the actions of
  `Traces`, which reorder the blocks in between.
- `Liveness` and `LivenessBits` extend `Flow`, one with sets and one with words;
  `LivenessBits` has no sets, and instantiates `Liveness` with those its words stand
  for.
- `MCTables` puts what all passes share in one specification: `SymtabRefinement`,
  and `Frame` and `LabelTable`, the two halves of `temp.c`. They share no variable,
  so a run goes on with one of them.
- `MCLiveness` runs the passes on words; the sets of `Liveness` follow them, as what
  is on in the words, so that its properties are checked of the words too.

Definitions headed "Faulty variant" are versions of the definition below them
with a plausible mistake. Nothing refers to them; substituted for the real
definition, each makes a property fail, which shows that the property watches it.

### What corresponds to what

- `Symtab`: `heap[b]` is the b-th `bucket_t` ever allocated (none is freed),
  `chain[h]` is `tab->buckets[h]` from the head, `undo` is `tab->undo_stack` with
  its top last. A mark is an entry whose bucket is 0. `Hash` is any function from
  keys to chains.
- `Lexer`: a symbol is a character, or a whole word or number. `seen` ends where
  `lexer->pos` is, `mode` is how far `next_token` has come. Behind the NUL lies
  `Garbage`.
- `Parser`: `current`, `next` and `failed` (`error_count > 0`) are the parser's;
  `heap` are the nodes, `NULL` and `Wild` (a pointer nobody has written) no nodes.
  A node keeps its kind, its token, the place it notes and its children; `hole`
  notes that a NULL took an operand's place without an error. `read` is history.
  What malloc leaves in a pointer that nobody writes (the type name of a declaration
  without one, the end of a record's first field, the fields of a type) is NULL or
  `Wild`, either of which may be the case; following `Wild` is a crash.
- `Semant`: a type is a value, a SEMTY_NAME a placeholder that `actual_ty` looks up
  when it is asked. `stop` says that NULL was read, that `actual_ty` goes round for
  ever, or that a variable's entry was read as a function's. `notes` are what
  trans.c reads of the tree: the depths of calls, the types of records.
- `Escape`: `open` is the recursion of both walks, `var[v].escape` the flag in the
  tree, `captured` the variables that `tr_var` was asked for in a deeper frame.
  A use is possible only where trans.c's environment has the name, because
  semant.c rejects programs that use others (it does not look into a FOR's body:
  a name that is unbound there is a NULL access in trans.c, which is not modelled).
- `Frame`: `frames[f].accs` holds the accesses of frame f in order of allocation,
  `todo` the rounds `frame_new`'s loop has left; `fp`, `rv`, `regs` are the static
  variables. A frame may be given locals while frames made later exist, as when
  `tr_dec` returns to the outer function.
- `LabelTable`: `names` is the table as far as `cap`; `given` is history.
- `StaticLink`: `func` are the `env_entry_t`s and frames of the declared
  functions, with the path of enclosing functions beside the depths that the code
  computes; `acts` are activations, whose `link` is what the callee finds at
  fp - 8, and `walk` is the code of a call or an access between its first and its
  last load. `lex` of an activation is the reference: the activations of the
  enclosing functions that its code was written in.
- `Traces`: statements are labels, jumps, conditional jumps and PLAIN ones. `tab`
  is the symbol table, 0 its NULL; `b` and `trace` are the cursors of the two loops.
- `Pipeline`: a statement tree is the sequence of the leaves of its TREE_SEQ nodes.
  A label or temporary is named after the node of the program it is made for and
  its purpose, instead of counted: each call of `label_new` and `temp_new` is
  executed at most once per node. A patch list is a set of places, a place being a
  jump and a side. `aenv` is a function, since the scopes are `Symtab`'s and
  `Escape`'s; of the two variables outside, `a` is in a temporary and `m` in memory,
  where calls change it. An assertion that fails is a statement ABORT. `malloc` and
  `init_array`, which are not in the repository, allot the next block.
- `Codegen`: an instruction is its text up to what is printed into it, its
  destinations, sources and jump. `Machine` runs it as the processor would.
- `Flow`: an instruction is its use and def sets, its label and its jump.
  `cond` marks the jumps that codegen.c emits for a CJUMP; cfg_build cannot tell
  them, only the properties can.
- `Bitset`: a word is the set of its bits that are on, `W` the bits it has.

## Runs

| run | bounds | why they are enough |
|---|---|---|
| `tables`: `Symtab` | 3 keys, 2 chains, 1 value and NULL, 4 undo entries | two colliding keys and one that is alone, an overwrite inside a scope inside a scope |
| `tables`: `Frame`, `LabelTable` | 4 temporaries, 2 frames, 2 parameters, 3 accesses per frame; argument registers drawn in order; 6 labels, two names | an escaping and a register formal in either order, then locals, interleaved with the other frame; a table that has doubled twice after its first two places |
| `frontend` | texts in which every place varies over the symbols of one matter (operators, lists, if and else, comments, strings), and the legal text of each construct with any symbol in the place of any one; 2 symbols behind the text; lists that grow without reading stop at 2; the reference has every expression up to 7 tokens, one construct of simple expressions up to 10, declarations and lists up to 17 | every decision of either is met with every token it may see, right and wrong; 10 tokens are a record of two fields, 17 two declarations with parameters or fields |
| `frontend_no_type` | one text, of a test | counterexample |
| `semant` | 23 490 programs: a let of up to two types in both orders, a variable or function that uses them, one more, and an expression | types that use each other, names that are reused in an inner let, each kind of expression with each kind of operand |
| `escape` | 2 names, 3 variables, 6 nested constructs | a variable, a function around a second and a third that shadows or leaks |
| `escape_for_leak`, `escape_var_order` | 2 names, 2 variables | counterexamples |
| `static_link` | 5 functions, 6 activations, every nesting and every call and access the scopes allow | calls to siblings, to enclosing functions and outwards over two levels, recursion, three loads in a row |
| `pipeline` | 8 950 programs, 3 calls with chosen results (later ones give 0), `a` starting as 0 or 1, loops followed for 4 rounds, arrays and records of two | every construct in every operand position of every other, conditions two deep, calls with effects on both sides of an operator, two references to one record |
| `pipeline_condition` | 80 programs | counterexample |
| `traces` | 3 labels, all jumps and conditional jumps between them and all fall-throughs, an empty block, a beginning without a label | 21970 lists: loops, joins, unreachable blocks, both branches to one label |
| `liveness` | 4 instructions, 2 temporaries, 2 labels; words of two bits, of which the two temporaries are the same bit of different words | a loop of three nodes, two passes against its direction; sets of two words, the second not full |

What they show:

- `tables`, the symbol table: `ChainsOK`, one bucket per key however keys collide;
  `UndoComplete`, the undo list takes everything back; `ImplementsScopedEnv`, the
  refinement; `ExitReturns`. Frames: `SlotsOK`, `LinkOK`, `RegsOK` (no sharing of
  slots or temporaries, the static link's place; the offset of a formal and that of a
  local are two formulas, as in the code, `FormalOffset` and `LocalOffset`, and must
  give one sequence of slots), `RolesKept` (nothing moves once placed). Labels:
  `LabelsApart` (each label answers to its own name through every growth, and unnamed
  ones to different names). A function of the program that is called `L1` does answer
  to the name of label 1; the property says so.
- `frontend`: `TokensRead`, however far the parser is, the tokens it has read and the
  one it is at are the first tokens of the text, as a recursive reference cuts it
  (`TokensOf`, `CommentEnd`, `StringEnd`); `Spelled`, a tree without errors and holes,
  written out, is the tokens read, each node with the place it notes (a tree in which
  a pointer was never written spells nothing, see the next item; where malloc happened
  to leave NULL, `Wild` being the other choice, it is compared: `Written`);
  `Binds`, operators, open-ended constructs and else bind as they should (an else
  whose expression is missing leaves the tree of an if without else, so of else it is
  said where no error and no hole has been met);
  `NothingLegalRejected`, by a parser with two tokens of lookahead, compared with the
  three families of texts of `Grammar` up to their bounds (all literals are one token
  there, as are all operators but minus and `=`; `break`, which no function parses,
  is not in it). A crash does not count as a rejection;
  `NotPastTheEnd`, the memory behind the text is read only for a token nobody uses,
  except after a backslash that ends the text (`Escaped`); `Terminates`, parsing
  ends unless it is `Stuck`: in a list of expressions at a token that neither begins
  an expression nor ends the list. These are parser.c's endless loops (hazards at
  lines 397, 422 and 505).
- `frontend_no_type`: `NoTypeIsNull`, the type name of a declaration without one is
  NULL. parser_test.c expects it, make_dec does not set it, and semant.c reads it: a
  finding. It holds or not with what malloc returns, which is why the test, on fresh
  memory, passes. Two more of the kind are in `Parser` and among the hazards: the
  first field of a record ends its list with what malloc left (parser.c:233), and the
  fields of a record type are walked uninitialised, which may crash (parser.c:323).
- `semant`: `Verdict`, semant.c accepts what `Typing` allows; `NeverUndefined`, it
  ends and reads no NULL; `TreeAnnotated`, what is left in the tree is what the text
  means. The first two except programs that `Typing` marks; the marks name what is
  wrong with semant.c: it compares placeholders of recursive or renamed types
  without resolving them and so rejects legal programs (NAMED), resolves them where
  their name means something else (ELSEWHERE), reads an unknown type as NULL or goes
  round for ever in a name for itself (UNKNOWN), depends on types coming first in a
  let (ORDER), takes one of two declarations of a name for the other (TWICE), gives
  an empty let no type, so that the compiler crashes or an error is printed and not
  counted (EMPTY), and does not let nil pass in some places (NIL). Where the code is
  only lax, `Typing` is as lax as it: types are compared by kind, a record's fields
  may be missing or unknown, only integers are ordered, and the body of a FOR is
  not looked at.
- `escape`: with one exception, names are fresh (only a parameter may take one
  that is bound), and then exactly the captured variables escape.
  `escape_for_leak` and `escape_var_order` lift that for FOR variables and for
  DEC_VARs and fail: findings, reproduced by running `find_escape` on the
  counterexamples.
- `static_link`: `DepthsAgree`, that semant.c's depth, trans.c's depth and the
  nesting of the text are one; `LinksMeant`, that an activation's link is the
  activation the callee's name meant to its caller; `ReachesMeant`, that the loads
  end there.
- `pipeline`: `TreeMeansProgram`, the tree makes the same calls with the same
  actuals in the same order as the program, the same arrays and records, and ends
  with the same variables, elements, fields and value; `ListMeansTree`, the
  canonical list does what the tree does; `JumpsDefined`, every jump was patched to
  a label of the list; `Canonical`, no ESEQ and no call is left inside an
  expression; `InstructionsMeanList`, the instructions do what the list does.
  Their preconditions say where the code goes wrong:
  `ListMeansTree` is about the 8 174 of the 8 591 accepted programs that are
  `Commuting`: no statement taken out of an operand changes what an operand before
  it reads. do_exp does not ask that (canon.c:76), so a + (a := 2; a) is compiled to
  the wrong value. `InstructionsMeanList` is about the 5 463 lists in which the
  false label of every conditional jump comes next (`FalseNext`), and compares runs
  in which calls return garbage, because the code of a call does (codegen.c:122).
  The other lists have a & or a | inside: the two jumps of a & have the same false
  label, only one of them can be followed by it, and codegen.c emits no jump to it.
  `if a & b then ...` is miscompiled; the compiler itself, run on it, shows the same.
  `TreeMeansProgram` has exclusions, all in `MCPipeline`: bounds of a FOR that name
  an outer variable of the loop's name (trans.c:392 binds it too early), calls,
  fields and unknown names in the body of a FOR (semant.c:364 does not look into
  it), an empty let, fields written in another order than the type's when the order
  matters (trans.c:450 takes the type's). Indices out of bounds end the comparison.
  No comment or test of the repository says otherwise, so these are hazards here and
  no findings.
- `pipeline_condition`: an int-valued if without else is accepted as a condition,
  where translation asserts that there is none: a finding, reproduced with the
  compiler itself.
- `traces`: `GetsOn`, every step cuts more of the list, places a block for good, or
  skips one; `PlacedOnce`; `SameExecution`, the new list has the same next
  statements after every statement as the old one; `FalseFollows`; `Terminates`.
  `FalseFollows` is about *structured* jumps: the false block comes later in the
  list, is reached only through the jump, and what comes before the jump is
  reached without it. That is what the templates of if, while, for and | make. The
  second conditional jump of a & is not structured (see `pipeline`).
- `liveness`: `ImplementsSets`, the passes on words are passes on sets, one by one,
  each union, difference and copy, and each comparison; `LeastSolution`; `ExactlyLive`,
  which compares it with the paths of the graph; `NeverTooMuch`, which compares it
  with the paths of the code as it runs, where cfg_build has left out the
  fall-through of conditional jumps; `GetsOn`, no set
  ever shrinks, and every step enlarges one, moves on in the pass, or takes back
  `changed`, which only an enlarging step sets; `Terminates`. A `temp_count` that is
  a multiple of the word size is excluded by an assumption: temporaries are numbered
  from 1, so the last one then has no word (a hazard at bitset.c:7).

Deadlock is not checked where the system stops: `tables` (the bounds run out),
`traces` and `liveness` (the functions return), `escape` (the bounds), `semant`
(one step), `pipeline` (the last stage, a rejected program). `static_link` and
`frontend` check it: a call or access under way can always load its next link, and
the parser always has a next step until it returns or crashes.

Fairness is weak fairness of the next step (`FrontEndSpec`: of `Run`, a step of the
lexer or the parser; `FairSpec` of `Traces`; `MCSpec` of `MCLiveness`), in `tables` of the loop of
`symtab_exit_scope` only: sequential code that was called runs on, and the callers
of a symbol table owe nothing.

## Proofs

`SymtabProofs`, for every set of keys and values, hash function and number of
chains. `TableSafe`: `TypeOK`, `ChainsOK` and `UndoOK` (every undo entry points at a
bucket, so the loop never follows the NULL of a mark) are inductive together.
`UndoListComplete` needs more: that the value a bucket would have after popping to
any height is what the entries above that height say, which is how `ValueAt` is
defined, and that a bucket's first entry saved NULL. `LookupsReadTheEnvironment`
and `SymtabImplementsScopedEnv` are about the specification with the history
variable `marks`. The mapping gives the scopes' environments as `EnvAt(position of
the mark)`; the heart is that pushing an entry changes `EnvAt(n)` for no n up to
the old length, and that a round of the exit loop changes it for no n up to the
new one. A call of `symtab_exit_scope` takes effect when it begins; its rounds are
stutters.

`FrameProofs`, for any bounds. `FrameSafe` needs two facts the properties do not
say: every temporary that anything holds is at most `temp_count` (so the next one
is new), and a nested frame has counted its static link. `RolesAreKept` follows
from the actions and `FrameTypeOK`. `LabelsStayApart`, for any names and any number of
labels: the labels made are places of the table, and one made without a name has
its place empty or its number's name in it.

`LivenessProofs`, for every instruction list. The invariant: every set is contained
in what the equations give for the present sets (`Growing`), no closed assignment
is overtaken (`Least`), and in a pass without a change the nodes visited solve
their equations (`Stable`). `WordsImplementSets` says that the passes on words, which know
of no set, are passes on the sets their words stand for, so that these theorems hold
of them: for every word size, every `temp_count` that is no multiple of it and every
list. Its invariant is that a node has one successor at most and that all words are
there. The heart is arithmetic: two temporaries with the same word and
the same bit are one, which needs that a number has a quotient and a remainder; they
are found by the least counterexample (`Minima`). `EndsExactlyLive` relates the least
solution to paths, in both directions. What is live along paths is closed under the
equations, so the least solution has nothing else; for that a path prolonged by a node
must be a path again, which has no more nodes than the graph, and `ShorterWalk` says
that a longer walk passes a node twice and is as good without what lies between. And a
solution has at every node of a path what its end uses, by induction against the
path. `NeverCallsTooMuchLive` compares the graph (an invariant of its own, `Graph`)
with the running code: every edge is a step of the code, because a label stands once,
and a step of the code that is no edge falls through a conditional jump.

Neither loop's end is a theorem, because TLAPS has no fairness reasoning here; what
makes them end is: `PassesGetOn` and, in `TracesProofs`, `TracesGetOn` say for every
list that each step moves a measure that cannot move for ever. For liveness.c the
invariant has to bring that a visit which enlarges no set leaves `changed` alone; for
canon.c, that the block a trace goes to still has its label in the table, so that
placing it makes `Unplaced` smaller.

`StaticLinkProofs`, for any number of functions and activations. The invariant says
of every activation that `lex` is a sequence of existing activations as long as its
function is deep, whose last is the link and whose rest is the `lex` of that link;
of every declared function, that its path extends its parent's by the parent; and
of a walk, that it stands exactly as many levels inside the goal as it has loads
left. `TypeCorrect`, `DepthsAgreeAlways`, `LinksAlwaysMeant` and
`AlwaysReachesMeant` follow.

`EscapeProofs`, for programs of any size. `CapturedAlwaysEscapes` and
`OnlyCapturedEverEscapes` assume `ParamsOnly`: only parameters may take a name that
is bound. The invariant: the constructs that are open are well nested and the
environments hold declared variables (`Typed`); what trans.c's environment binds,
escape.c's binds to the same variable, now and in every environment that the open
constructs will restore, though the two have not saved the same number of them
(`Agreeing`); and the flags are the captured variables (`Flags`). The two
counterexamples are where `Agreeing` breaks without `ParamsOnly`.

`TracesProofs`, for every statement list. The invariant: the blocks are pieces of the
list, each from a label to before the next (`Cut`); the table has each label's block
or 0 (`Table`); and what has been placed are whole blocks, those whose label the
table has lost (`Scheduled`). `BlocksPlacedOnce` and `NoBlockIsLost` follow.

`ScheduleRunsTheSame` adds to it that the blocks are the list cut without a gap, each
closed with a jump to the label after it where it had none (`Pieces`, `Made`), and
that the result is the first block and other placed blocks (`Rebuilt`). In the end
this makes two maps, `Moved` from the list's places to the result's and `CameFrom`
back, where the result has nothing of its own but jumps to where the list goes on
(`Rescheduled`). Where an execution lands is a recursion that counts the labels and
jumps passed. That count is no bound (a place is passed once, or again and again), so
landing is the one function that obeys the equation "at a label or jump where the next
place lands, elsewhere here", and what obeys on one list obeys, through the maps, on
the other (`SameLanding`).

`FalseBranchFallsThrough`: a set of blocks that holds all blocks in front of block n,
and that only jumps to n leave, holds everything that is placed while n waits
(`Dominated`). If the false block of n's conditional jump is outside of such a set, it
waits when n is placed, and is the next block (`FallsThrough`). What the search of
`FalseFollows` reaches is such a set: its rounds come to a stop, because a growing
chain of subsets of a finite set does (`Saturates`).

`Minima` has what the proofs share. The library's induction theorems take an operator
as a parameter, which no prover here can instantiate; `Induction` says the same for a
set, and is proved from the least counterexample.

`FrontEndProofs`, for every text and any bounds. `NeverPastTheEnd` needs of the
parser only what its frames may have to do (`Framed`); of the lexer, that after a
backslash the mode says so (`Escaping`); and that the text's end has been seen only
when the tokens say EOF or ERROR (`EndSeen`). `NothingIsReadBehindTheLast` is the
other half: after EOF or ERROR the parser asks for nothing more.

`ReadsTheText` compares the lexer, which sees one symbol after the other, with a
reference that is recursive over the whole text. In mid-text the text is not known,
only how it begins, so the invariant (`Lexed`) speaks of every text that agrees with
what has been seen: the tokens given and those ahead are its tokens (`Divided`). What
is ahead depends on the mode (`Rest`, `Ahead`): behind the first slash of a possible
comment the reference starts at that slash, inside comments it goes on where as many
comments as are open have ended. Two symbols of lookahead show as `Agrees`, which
includes the symbol at `lexer->pos`, and as `Marked`, which remembers the one before
it. Each action of `Lexer` then takes from `Ahead` the token it gives, or nothing
(`AheadAfter`, with one lemma per case of the reference: `RestBlank`, `RestTwo`,
`RestOfComment`, ...). That the three recursive functions of the reference are what
their equations say, in spite of TLA+'s defining them by CHOOSE, is
`RecursionExists` of `Minima`: a function whose value at a place depends on places of
smaller measure exists, by applying its body once for each measure.

`TextTyped` and `AlwaysBinds` rest on an invariant about the calls under way. Of
every call it says what is left of its function and what it has by then, for the call
that goes on (`Working`) and for those that wait (`Waiting`): a call of
`parse_expr_bp` between two items, for instance, has no child, a left operand, or a
left operand and an operator. Of a waiting call and the one above it, it says with
which power the upper one was called (`Above`). The trees that are open to the right,
and those that end in an if without else, are two sets of nodes that grow with the
heap (`Colors`), so that nothing in the induction is recursive; that they are what
`IsOpenEnded` and `EndsInIf` say follows in the end, by the least counterexample. The
heart is what a call returns (`Returns`): a tree that could take in another operator,
or an else, is returned only at a token that is none; and an infix node returned by
`parse_expr_bp` binds more tightly than `min_bp`, while the token it is returned at
does not. That the powers are even is needed (`PowersAreEven`): a
right operand is parsed with the power + 1, and the next operator is compared with
both. Each action of the parser has a lemma (`...Shaped`; the loops and separators of
lists share one), and there are five ways in which an action changes the stack
(`GoesOn`, `GoesOnWith`, `CallsAnother`, `ReturnsOn`, `ReturnsWith`).

Assumptions: `Size` positive, `Hash` into the chains, NULL no value (`Symtab`); the
bounds are natural numbers (`Frame`, `LabelTable`, where NULL and what realloc
leaves are no names); programs are non-empty lists of instructions (`Flow`); the
word size is positive and temporaries are numbered from 1 to a `temp_count` that it
does not divide (`LivenessBits`); no label stands twice in an instruction list
(`Flow`: codegen makes one instruction of each label, and `PlacedOnce` says that a
schedule has each once); statement lists have a label in one place, jump to
labels they have and have a label after a jump (`WellFormed` in `Traces`;
`JumpsDefined` checks it of what linearize returns), and statements that are neither
label nor jump, being nodes of their own, are told apart by an identity. TLC evaluates
them in the runs.

The type invariants of `Symtab`, `StaticLink`, `Traces`, `Escape`, `Liveness` and
`Frame` are proved (`TableTyped`, `TypeCorrect`, `TracesTyped`, `EscapeTyped`,
`SetsTyped`, `FrameTyped`) and no run repeats them.

Only model-checked: what recursive operators compute, which TLAPS cannot handle
(`Pipeline`, `Check`); `Spelled` and `NothingLegalRejected`, where the parser is
compared with functions that are recursive over the tree or the grammar; every
liveness property (TLAPS has no fairness reasoning here).

## Not modelled

- The printers (`printer/`, `irprinter/`), `print_instrs` and the wording of messages:
  output only.
- Characters: a word or number is one symbol to `Lexer`, so its buffers of fixed
  size, lines and columns are left out.
- Fragments (`frag.c`): a list grown at its front. With them the bodies of nested
  functions on their way through translation: `StaticLink`, `Frame` and `Escape` say
  what is hard about them, `Pipeline` follows the body of `_main`.
- Strings and nil behind semantic analysis, division, and calls with more than six
  actuals (`frame_arg_reg` reads past its registers): `Source` does not have them.
- What semant.c and trans.c make of the pointers that parser.c never writes: `Parser`
  has them, `Semant` and `Source` begin with trees in which an absent type is NULL.
  The escape fields of parameters, which no one sets because main never calls
  `find_escape`.
- The second run of the back end that main makes over the same trees, which the
  first does not change.
- `bitset_remove`, which has no caller.
- `liveness` on the output of `codegen`: main does not call it. The sources that
  codegen.c lists leave out that addq reads its destination (codegen.c:105).
