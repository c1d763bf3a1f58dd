# mawk in TLA+

TLA+ models of mawk (the AWK interpreter in this repository), model-checked
with TLC and, for the record and fields, the arrays, the buffered input, the
main input, the streams, splitting, sub and gsub, and the symbol table on its
memory pools, proved with TLAPS. mawk is
a sequential C program, so what is hard about it is not threads: it is state
that is kept twice, converted on demand, cached, or put off until somebody
asks, and the orders in which an AWK program may ask; buffers that move under
a match; and, where processes come in, the orders in which children die.

`PROJECT.json` lists, machine-readably, the components, the runs, the lines
each definition stands for (`map`), the mutants that show each property can
fail, the disagreements met (`findings`), the hazards, and the theorems.

## 1. The system

| Part | Files | State it keeps | Operations | Status |
|---|---|---|---|---|
| associative arrays | `array.c`, `array.h` | `struct _array`: type, size, limit, hmask; per bucket a list by string and one by integer; or a vector of cells | find, delete, load, clear, loop vector, conversions, doubling | modelled and proved: `HashArray`, `HashArrayProofs` |
| record and fields | `field.c`, `field.h` | `field[]`, `nf`, `fbankv`, the shadows of FS and RS | `set_field0`, `split_field0`, `field_assign`, `build_field0`, `slow_field_ptr` | modelled and proved: `Field`, `FieldProofs` |
| splitting | `split.c` | `split_block_list` | `space_split`, `re_split`, `null_split`, transfers | modelled and proved: `Splitter`, `FieldProofs` |
| buffered input | `fin.c` | `FIN`: buffer, `buffp`, `limit`, size, flags; `main_fin`, `argi`, `dead_main` | `FINdopen`, `FINgets`, `FINsemi_close`, `enlarge_fin_buffer`; `open_main`, `next_main`, assignments among the operands | modelled and proved: `Fin`, `FinProofs`, `MainInput`, `MainInputProofs` |
| streams, children | `files.c` | `file_list`, `child_list` | `file_find`, `file_close`, flush, `close_out_pipes`, `get_pipe`, `wait_for` | modelled and proved: `Files`, `FilesProofs` |
| compiler | `parse.y`, `code.c`, `jmp.c`, `fcall.c`; `hash.c`, `scan.c` | code blocks; jump, break and moved-code stacks; resolve list; symbol table and save list | the reductions, patching, moving code, passes over pending calls; insert, find, save, restore | partly: `AwkCode`, `AwkCalls`, `AwkParse`; `Symbols`, proved: `SymbolsProofs` |
| interpreter | `execute.c` | evaluation stack and its blocks, frames, for-in stack, range flags | the opcodes, calls and returns, `mawk_exit` | partly: `AwkExec` (and the opcodes on fields in `Field`) |
| values | `cast.c`, `memory.c` | cell types, reference counts | casts, tests, compares | partly: `AwkCell` |
| regular expressions | `rexp0.c`, `rexp.c`, `rexp1.c`, `rexp2.c`, `rexp3.c` | parser stacks; run stack, position stack, loop stack, counters | `RE_lex`, `REcompile`, `REtest`, `REmatch` | partly: `RegexLex`, `RegexCompile`, `RegexRun` |
| string builtins | `bi_funct.c`, `re_cmpl.c` | the output buffer of `gsub3`, its cached replacement | `bi_sub`, `gsub3`, `REPL_compile`, `replv_to_repl` | partly: `Gsub`, proved: `GsubProofs` |
| memory pools | `zmalloc.c` | pools of free blocks, the chunk at hand | `zmalloc`, `zfree` | partly: `Zmalloc`, proved with `Symbols` |
| I/O builtins | `bi_funct.c`, `print.c`, `main.c` | — | print, getline, close, fflush, exit; system, printf | partly, in `Files` and `MainInput` |
| start up, diagnostics, build | `init.c`, `error.c`, `da.c`, `trace.c`, `make*.c`, ... | — | straight-line code that runs once, output | not modelled |

How the parts talk. The interpreter calls everything else. `FINgets` hands a
record to `set_field0`, which only stores it; `split_field0` runs when a
field or NF is looked at, calls a split function and gets the pieces moved
into the field banks by `transfer_to_fields`. `field_assign` of FS, RS and
CONVFMT reaches into the splitters and the reader. Array elements and fields
are assigned through addresses pushed on the evaluation stack before the right
hand side runs, so the whole program may run between the two. `file_find`
yields the stream of a print or getline; `wait_for` is called by close, by a
getline at the end of a pipe, by `system` and by exit, and each may reap the
child of another.

### What is hard, and what makes each part correct

* **Arrays.** The same element is reached by integer and by string; the table
  is built, doubled and converted in the middle of a lookup. Correct: any
  sequence of operations answers as a plain map does; both sets of lists are
  complete where the type says so; the load factor stays bounded.
* **Fields.** Splitting is put off, `nf` and `NF` are two copies, and cells
  beyond `nf` keep old values. Correct: no program can tell the lazy record
  from an eager one; the copies agree; every counted or addressed field has a
  cell.
* **Splitting.** Blocks fill up exactly at a piece or not; empty matches are
  stepped over. Correct: the pieces are those of a declarative definition.
* **Input.** A record may lie across any number of reads, and a match that
  ends with the buffer may not be over. Correct: the records do not depend on
  where reads end; every read is answered.
* **Streams.** Children die in any order, closes fail, names are reused.
  Correct: one stream per name and type; each close gets its own status; exit
  writes everything and waits for every command written to; close and exit end.
* **Main input.** `FINgets` changes the file in the middle of a call, its
  callers hold `main_fin`, and the operands may change meanwhile. Correct: the
  main input is the concatenation of the operands as they stand at their turn.
* **Compiler.** Code is emitted in one pass, then moved (loops have their test
  at the end), copied into functions, patched, and, for calls whose arguments
  turn out to be arrays, rewritten at a distance. Correct: a program does what
  its tree says, and exactly the ill-formed ones are refused.
* **Interpreter.** Nested executions, calls that change stacks, loops left from
  inside, strings shared by count. Correct: the stack has its height, no string
  or array is freed too early or never.
* **Regular expressions.** Threads that backtrack share one stack of positions;
  counters are in the machine. Correct: the answer is the first longest match.
* **gsub.** The length of the result is guessed and corrected; the last
  replacement is kept; empty matches are special. Correct: the result.
* **Names and memory.** Parameters hide globals by taking them off the table;
  restoring them relies on what was deleted last; blocks go back to the pool of
  the size they are freed with. Correct: scoping; one owner per block.

## 2. The modules

| Module | Models | Uses |
|---|---|---|
| `AwkArray` | the promise: a map from keys to values | |
| `HashArray` | `array.c` in full (dual hash tables) | refines `AwkArray` |
| `HashArrayProofs` | theorems about `HashArray` | `Facts`, `TLAPS` |
| `AwkRecord` | the promise of mawk(1): the record, told eagerly | |
| `Field` | `field.c`, and the opcodes on fields | refines `AwkRecord` |
| `FieldProofs` | theorems about `Field` and `Splitter` | `Facts`, `TLAPS` |
| `FieldSplit` | what splitting a text should give, without a loop | |
| `Splitter` | `split.c`, block by block | checked against `FieldSplit` |
| `AwkInput` | the promise: a text cut by RS from the left | |
| `Fin` | `fin.c`, buffer by buffer | refines `AwkInput` |
| `FinProofs` | theorems about `Fin` | `Facts`, `TLAPS` |
| `Files` | `files.c`, and print, getline, close, fflush, exit around it; child processes as environment | |
| `FilesProofs` | theorems about `Files` | `Facts`, `TLAPS` |
| `AwkMain` | the promise: the operands one after the other | |
| `MainInput` | `main_fin` in `fin.c` and its callers | refines `AwkMain` |
| `MainInputProofs` | theorems about `MainInput` | `Facts`, `TLAPS` |
| `Facts` | lemmas about numbers, sequences, parts of a sequence | `TLAPS` |
| `AwkCode` | `code.c`, `jmp.c`: blocks, jumps, break and continue, moved code | |
| `AwkCalls` | `fcall.c`: types of arguments and the list of calls to resolve | `AwkCode` |
| `AwkParse` | the productions and actions of `parse.y` | `AwkCalls` |
| `AwkCell` | `cast.c`, cells and the strings they share | |
| `AwkExec` | `execute.c` on the blocks that `AwkParse` built | `AwkParse`, `AwkCell` |
| `AwkMeaning` | the promise: what a tree means and which are well formed | `AwkCell` |
| `AwkPrograms` | the families of programs that are run | |
| `RegexLex`, `RegexCompile`, `RegexRun` | `rexp0.c`; `rexp.c`, `rexp1.c`; `rexp2.c`, `rexp3.c` | one on the other |
| `Gsub` | `sub`, `gsub` and their replacement texts | |
| `GsubProofs` | theorems about `Gsub` | `Facts`, `TLAPS` |
| `Zmalloc` | `zmalloc.c`, as operators on a heap | |
| `AwkScopes` | the promise: what a name stands for | |
| `Symbols` | `hash.c` and its callers in the scanner and the parser, on the heap | `Zmalloc`; refines `AwkScopes` |
| `SymbolsProofs` | theorems about `Symbols` and `Zmalloc` | `Facts`, `TLAPS` |
| `MC*` | small instances of the parameters for TLC | |

A definition whose comment says "a variant" is a plausible mistake in the
definition after it, kept for the mutants of `PROJECT.json`: it is used by no
action.

### HashArray

The array is one record `A` with the fields of `struct _array`. A node is
named by its key; an integer key `k` also stands for the string that `%ld`
prints of it, so `array_find` by integer and by string meet in one key. A list
is the sequence of its nodes. Each operation is one action that does the whole
call: `Refer` (a lookup with creation), `Member`, `Assign`, `DeleteNum`,
`DeleteStr`, `Clear`, `Load` (split), `Loop` (the vector of `for (k in A)`).
`find_by_ival`, `find_by_sval`, `double_the_hash_table`, `add_string_associations`
and `convert_split_array_to_table` are operators on that record, in the order
the code calls them. `svals` and `ivals` say which nodes have a string and an
integer key.

Sequences cannot express a node linked on two lists or a list that holds a
freed node, so a step that makes one, or follows a null link, sets `fault`
and the model stops; `FaultsComeFromMisfiling` says what has to have happened
before (section 5, 1 and 2).

### Field

`f0`, `f`, `nf`, `nfCell` are `field[0]`, the field cells, `nf` and the cell
of NF. `nfSplit`, `fSplit`, `NFSplit`, `memSplit` are what they become after
`if (nf < 0) split_field0()`, which begins most operations. `mem` is the
number of banks and of slots of `fbankv`. `addr` is the part of the
evaluation stack that holds field addresses: `PushField`/`PushNF` push one and
`StoreField`/`StoreNF` store through it, with any other operation in between.
What a text is, how it splits, joins and converts are operator parameters:
`MCField` gives them for TLC, and the proofs hold for all of them that satisfy
`FieldAssumption`. A negative NF is a fatal error; nothing happens after it. A
number assigned to CONVFMT puts back `%.6g` (`DefaultFormat`), and a text that is no
format is a run time error (`Illegal`).

### Splitter

One action per piece. `REmatch` is a table of the longest match at each
position, with the entry for `^` apart; `MCSplitter` tries *every* table, so
the result does not depend on which expressions exist (the proof needs of a
table only that its matches lie in the text: `SplitterAssumption`). `blocks` is
the list of blocks with its strings, `Moved` a slot whose string has been moved
out.

### Fin

One behaviour is the life of one `FIN`: `FINdopen`, then `FINgets` and
assignments of RS in any order. `pc` is where `FINgets` is (`restart`, `retry`,
in the loop of `fgets`, or `exit`). A read(2) may fail whenever one is made
(`ReadError`), and mawk exits; a failing `fgets` is the end of the input for the
code, and is left out. `data` are the bytes up to `limit`, `bufp` how many have
been returned. The byte behind a full buffer belongs to nobody: `\E b \in
Beyond` picks what it holds. Where the code's answer depends on where the
buffer ends instead of on the text, the model stops with a fault; everywhere
else `ReadsTheText` says it does not. `trim` and `nul` are in the comment of the
module. `bol` (`FalseBol`): `bol` is taken from the position in the buffer, so
`^` can match in the middle of a text; `AtFront` says where it really may.
`peek` (`CutShort`): the expression is matched against the buffer, and more of
the text would have given another match. The code looks behind the buffer only
when a match ends there; but with `RS="\n+(aa)?"` and a buffer that ends behind
`\na` the match is the newline, which ends inside it, and yet two bytes longer
when the next `a` comes. The refinement maps the rest of the text to what is in
the buffer and not returned (`Kept`) followed by what has not been read.

### Files

`file_list` and `child_list` are the code's lists, front first. `op` is what
the interpreter is doing: running the program, inside `wait_for`, inside
`file_close`, inside the exit walk (`at` is the node), or gone. Every step of
close, of waiting and of exit is an action, so children may die in between.
`procs` is the system's view of the children: `run`, `zombie`, `reaped`. A
process mawk writes to is a filter: it need not end before its input is
closed. `CloseFails` and `ExitFails` are an `fclose` that fails with
output pending. `OpenFails` leaves for the exit walk, as `output_failed` does,
or answers -1 for an input.

### MainInput

A call of `FINgets` on the main input is a sequence of steps: a turn of its
restart loop, or of the loop of `next_main` over the operands. `part` says
whether BEGIN, a rule or END is running, `caller` whether getline or the loop
over records (`OL_GL`) called. Between two calls the program may assign to
`ARGV` and `ARGC` or execute nextfile. Records are atoms (`Fin` has how they are
cut); what was read ahead of standard input is a number of records, because
nextfile loses them. `was` is the state at the call: a call is one step of
`AwkMain`, taken when it returns.

### The compiler and the interpreter

`AwkParse` is driven by an agenda of syntax trees and reductions: a tree is
replaced by the right hand side of its production, with the actions of the
grammar in their places, and a reduction changes the compiler's globals `c`: the
active block, the blocks put aside (`mc`), the jump stack (`jmp`), the break and
continue stack (`bc`), the resolve list, the types of names. An instruction is
words, as in `code.h`, and offsets are C's, so that what is checked of jumps and
of moved code is what the C code computes. `AwkCalls` has the argument lists
and the passes of `resolve_fcalls`.

`AwkExec` runs the blocks. `m` holds the statics and the locals of `execute()`;
a nested call of `execute()` pushes the caller's on `m.frames`. Stack addresses
are integers, a block of the stack at every multiple of `BLOCK`, so that a
change of stacks (`ChangeStack`) and the return from it are the pointer
arithmetic of the code. Strings are in a heap with their counts; a string that
was compiled as a pattern stays in the list of `re_compile` (`res`). One operator
per opcode gives the next `m`. `AwkMeaning` gives the same trees a meaning
directly, with no code, no stack and no counts, and decides which programs are
well formed by a fixed point over the calls. `MCProgram` compiles and runs each
program and compares.

Arrays are maps here (`HashArray` shows they are), records come ready, a
pattern is a text that occurs or not.

### Regular expressions

`RegexLex!RE_lex` is the scanner as a function of its state; `RegexCompile` the
operator precedence loop of `REcompile`, with one action per step on its two
stacks, and `rexp1.c` as operators on machines. `RegexRun` has one action per
state of the machine, for `REtest` and `REmatch`: `run` is the stack of saved
threads, `pos` the stack of positions with its owners and links (never cleared
between calls, as in the code), `cnt` the counters of counted repetitions. The
ghost `open` is the stack of positions this thread would have if it had one of
its own. `MCRegex` writes trees out as text, and `Ends` says where a match of a
tree can end.

### Gsub

A round of the loop of `gsub3` is three steps: look for a match and copy what is
before it, make and put the replacement, move on. The regular expression is a
table of the longest match at every offset, with the entry for `^` apart;
`MCGsub` tries every table. `reused` says that the cached replacement was used
for a match it was not made for (section 5, 8).

### Symbols and Zmalloc

A step is what the parser does with one name. A node is known by its address
in the heap; `last_hash` is the bucket of the last deletion, which
`restore_ids` relies on. A new name with a "(" behind it is a function for the
scanner, among the parameters as well (`Param`), where it is a syntax error.
`Zmalloc` is the pools as operators on a record;
addresses and sizes are real arithmetic in units of `ZBLOCKSZ`, so two blocks
that overlap would be seen. The rest of mawk is a source of blocks (`Take`,
`Give`) around the text.

## 3. The runs

| Run | cfg | States | Shows |
|---|---|---|---|
| hash_array | `HashArray.cfg` | 143,000 | the dual table implements the map (`ImplementsAwkArray`); sizes, bounded load and both sets of lists (`TableConsistent`); order kept by doubling |
| field_lazy | `FieldLazy.cfg` | 203,000 | the lazy record implements the eager one (`LazyIsEager`); `nf` = NF; every field has a cell; the one read beyond `fbankv` |
| splitter | `Splitter.cfg` | 2,100 | the pieces are those of `FieldSplit`; the block list fits |
| fin | `Fin.cfg` | 70,000 | records independent of the buffer (`ReadsTheText`); every read answered, if only by the end of mawk |
| files | `Files.cfg` | 142,000 | one stream per name and type, children and statuses accounted for, what exit leaves behind, and that whatever waits comes back |
| main_input | `MainInput.cfg` | 772,000 | the main input is that of `AwkMain` (`ReadsTheOperands`); every call returns |
| program | `Program.cfg` | 269,000 | 2,081 programs with their inputs: compiled code does what the tree says (`RunsAsWritten`), exactly the ill-formed are refused, code, pending calls, stack and storage are consistent throughout, all end |
| regex | `Regex.cfg` | 96,000 | test and match agree with the tree; positions belong to their thread; machines are closed; all ends |
| gsub | `Gsub.cfg` | 456,000 | result and count as written; the buffer is never exceeded; the loop ends |
| symbols | `Symbols.cfg` | 173,000 | names are scoped (`NamesAreScoped`); nodes and blocks have one owner |
| gsub_cache, main_dead | `GsubCache.cfg`, `MainDead.cfg` | to the violation | one disagreement each, section 5 |

A structural invariant of a run is a conjunction of named parts (for instance
`TableConsistent` = types, load factor, lists by string, lists by integer); a run
checks the conjunction. `PROJECT.json` gives for each property a mutation of the
code's definition that breaks it.

Bounds, and why they are enough:

* `HashArray`: three integer keys and two names; tables start with two lists
  (64 in the code) of average length 1 (12 in the code), so one table doubles
  once or twice within the five keys, from every mix of lists, and a split array
  of 0, 1 or 2 elements is converted both ways. The hashes are chosen so that
  `x` shares a bucket with "2" and `y` moves on doubling. Nothing in the code
  depends on these constants other than through `hmask_to_limit` and the mask.
* `Field`: two fields, banks of two cells, one slot per chunk, so that $2 needs a
  second bank and a second chunk and a record of one field ends exactly with
  the first; one store pending. Two values each of FS, OFS and CONVFMT (which also
  gets a number and a text that is no format); the
  values assigned are a number that is not an integer (its text depends on
  CONVFMT and may hold a separator), a negative one, and a text that counts
  as 2 for NF. What only more fields could show is what the proofs cover.
* `Splitter`: texts of four characters and tables for three, blocks of two:
  zero, one, two or more blocks, exact fits included.
* `Fin`: texts of at most five bytes over {a letter, newline, NUL} and a
  buffer of two: one refill, several, moves, growth, a short last read; RS is
  a character, a string, the empty string and the expression `^a+|\n+(aa)?`, which
  has a `^` and a match that goes on after one that does not.
* `Files`: one name, that of standard output, in all five types, and two
  streams opened, at the same time or one after the other, besides the
  standard ones: enough for a child to be reaped in another's wait, for one
  name to have several nodes, and for standard output to be closed while
  something else wants it. Two statuses. Process ids are not used again
  (`Reuse = FALSE`), see section 5.
* `MainInput`: up to three operands out of a file of two records, an empty one,
  one that is not there, `-`, assignments of two values and `""`; one change of
  ARGV or ARGC at any time; standard input of two records. So a read may pass
  over any mixture of two operands before it finds a record or the end, in
  BEGIN, a rule or END.
* `Program`: six families, every member of each: loops of seven kinds in each
  other, left in five ways; operators on operands of every type; calls among two
  functions and BEGIN in three orders of definition, with arguments used in
  every way; calls in code that is moved, inside BEGIN, functions and ranges;
  rules with ranges, next, nextfile, exit and getline on inputs of three
  records; recursion of depth four over local arrays. The evaluation stack
  has 16 cells and changes at 8 (1024 and 753 in the code), so a call of
  depth two changes it; a page of code has 64 words (512), so code grows
  while loops are open. The warning distance is the code's own 16.
* `Regex`: 214 trees with every operator over every other once, and the
  21 texts that no tree writes (escapes, classes, braces that are not counts,
  errors); every subject of at most three letters, first tested, then searched
  with the stacks the test left.
* `Gsub`: every text of at most three characters of two, every table of
  matches for it, every replacement of at most three characters out of a
  letter, & and backslash, and one of four.
* `Symbols`: two names that share a bucket and one too long for a pool, a
  keyword in the same bucket, one function with any of them as parameters; one
  other block taken before; memory for two chunks of ten units, so that malloc
  fails, chunks run out at every size, and remainders go to every pool.

Deadlock is checked in `Splitter` and `Program`. The other models stop by
design: in a fault state, after a fatal error or on exit, when a result has been
returned, or when the bound on opened streams leaves only children to run.

### Fairness

`Fin`: weak fairness of the steps inside `FINgets`: sequential code, and the
text is finite. Calls of `FINgets` are not fair: a program need not read.
`Files`: weak fairness of mawk's own steps inside close, wait and exit; and
weak fairness of the end of every child that is not a filter with an open
input: a command that has been told the end of its input, or that only
writes, is assumed to end. That is an assumption about the commands (a
program `while :; do :; done` breaks it), and the manual makes it too: close
waits for them. Nothing is assumed of filters whose input mawk holds open,
which is why `GetlineReturns` excepts them (section 5, 7).
`MainInput`: weak fairness of the steps inside a call. `Regex`: weak fairness of
compiling and of running. `Gsub`: of the next step. `Program`: of the next step
while the program is busy, written as `GoesOn`, so that a program that has
ended may rest and a machine that is stuck is a deadlock. All of these are the
fairness of a sequential program that is running; none is assumed of the
program's own choices (whether it reads, calls or changes ARGV).

## 4. The proofs

What TLC finds for small instances holds for every value of the constants where
there is a theorem. A theorem about an invariant has an inductive invariant
behind it, which was first checked by TLC on the run of the same component (where
it quantifies over an infinite set, with the values of the run's model); its
proof has one lemma or step for each action.

### Record and fields: `FieldProofs`

`FieldProofs` proves, for every bank size, chunk size, splitter, joiner and
number format (`FieldAssumption`):

* `TypeCorrect`: `Spec => []TypeOK`;
* `ShadowAgrees`: `Spec => []NFShadow`;
* `CellsAlwaysExist`: `Spec => []CellsExist`;
* `OverrunOnlyAtTheEnd`: `Spec => OverrunAtTheVeryEnd`;
* `LazyImplementsEager`: `Spec => LazyIsEager`, the refinement: the
  initial state and every step of `Field` map to one or a stutter of
  `AwkRecord` under `rec <- f0, fld <- Fields, nfCell <- NFSplit`.

The inductive invariant is

    IInv == TypeOK /\ NFShadow /\ CellsExist /\ (nf < 0 => f0 \in Assigned)

The last conjunct is what makes the others inductive: only a record that came
from the input or an assignment is ever unsplit, never one built from fields,
so `FieldAssumption` need only bound the pieces of those. `CellsExist`
needs its third conjunct (every bank has a slot) because `Grown` computes the
number of slots from the field and the number of banks from the bank; the
arithmetic of the two divisions is in `GrownCovers` and `GrownToCovers`, on
top of `DivBounds`, `Cancel` and `MulMono`. `SplitFacts` gives the state after
`split_field0`; preservation then has one step per action.
`LazyImplementsEager` has one lemma per kind of action.

`FieldAssumption` says that pieces are cells and at most `MaxF`; that the
number made of `i` reads back as `i`; that no assigned value exceeds `MaxF` as
a count; that "" has no fields and joins of no fields are "". `MaxF` bounds the
fields of the model only: it is any natural number.

### Splitting: `FieldProofs`

For every set of texts, every table of matches, every block size and every set of
characters that count as space (`SplitterAssumption`):

* `AllPiecesArrive`: `SplitSpec => []PiecesArrive`;
* `ListAlwaysFits`: `SplitSpec => []ListFits`.

`SplitInv` is `Shape` (the types), `Room` (how many blocks there are at each
stage) and `Arriving`: while a text is split, the list holds what its part before
`s` has, told for each of the three functions. For `space_split` these are the words that
begin before `s` (`WordsSoFar`), for `re_split` a set of separators that is closed
before `s`, each with the piece on its left (`CutsSoFar`, `Cut`), for `null_split` the letters
(`LettersSoFar`). There is one lemma for each step. They rest on three things:

* *The places.* `Node` and `Slot` are quotient and remainder, so no two pieces have
  one place, and a piece stored disturbs no other (`PlacesApart`, `StoredInPlace`).
* *The next match.* `re_pos_match` steps over empty matches with ^ off. `FoundIs`
  shows, by induction on the distance from the end (`NatAll` of `Facts`), that it returns
  the first match of positive length (`Found`), and that the table's entry for ^ counts at position 1 only.
* *The promise.* `FieldSplit` chooses the set of separators, the ends of words and the
  order of a set by what they satisfy. `SeparatorsAre`, `EndIs` and `InOrderIs` show
  that there is only one choice, so it is enough to have a value that satisfies
  it. `EnumeratesMore` then adds a member at the end of a list.

The theorems say more than the run in one respect: the run's tables match with
^ where they match without it; the proof does not need that.

`Field` and `Splitter` have their proofs in one module, so the specification of
`Splitter` has names of its own (`SplitInit`, `SplitNext`, `SplitSpec`). For the proof,
`FieldSplit` states the order of a set as a property (`InOrder`), since the library
sorts by a recursive operator, and `re_pos_match` recurs on the position alone.

### Streams and children: `FilesProofs`

For every set of names, process ids and statuses and any number of streams:

* `OneStream`: `Spec => []StreamsConsistent`;
* if process ids are not used again (`~Reuse`), `ChildrenKeptTrack`, `CloseWaits`
  and `ExitWaits`: `Spec => []ChildrenAccounted`, `[]CloseGetsItsStatus`,
  `[]ExitFinishes`.

`StreamsInv` adds to the types what makes "one stream per name" inductive: the
nodes of the list are of different streams also where their names are gone
(`Apart`), a pipe has its process, and, because `file_close` unlinks a node before
it waits, that what a wait goes on with (`Doing`) is known and its stream is closed
(`NoneClosed`, `WaitOK`). `ChildrenInv` adds that `child_list` is exactly the reaped
children, each once (`Listed`), that no status that may still be asked for is
dropped (`NoneLost`; `Wanted` says which those are: a pipe that is open, or that is
waited for at this moment), and how far the walk at the exit has come (`ExitSoFar`),
also when an output fails and the walk begins again. The places of the lists and
the order in which `file_find` moves nodes to the front do not matter: `MadeOf`
says that a list is made of nodes of another, each at most once, and the parts
of the invariant are shown to survive any such change. `~Reuse` is needed: section
5 has what goes wrong without it.

### Main input: `MainInputProofs`

For every list of operands, number of records in every file, and every change of
ARGV and ARGC between calls (`MainAssumption`: "-" is a name, names differ from
the empty operand and from the marks the model gives FINs of no file, and texts
are sequences of records):

* `Types`: `Spec => []TypeOK`;
* `MainInputImplements`: `Spec => ReadsTheOperands`, the refinement.

A call is many steps of `MainInput` and one of `AwkMain`, so `MainInv` has to say
what a call has done so far in terms of the state at the call (`was`): it is
still in the file it began in (`Staying`), or it has exhausted that and passed some
operands (`Passing`: the last assignment among them is in force, the last file
gave FILENAME, none of the passed ones had a record to give), or it found no file
among all of them and reads the standard input (`OnStdin`). The offset of file
descriptor 0 is kept apart from the FIN that reads it, because `-` may be named
twice; `StdinAt` joins the two.

### Buffered input: `FinProofs`

For every buffer size `JUMPSZ`, every size `BUFFSZ` of an `fgets` not above it, every
set of texts and every RS (`FinAssumption`, `MatchAssumption`):

* `BufferFits`: `Spec => []BufferConsistent`;
* `FinImplements`: `Spec => ReadsTheText`, the refinement.

`MatchAssumption` says of the matcher: a separator is not empty and lies in the
text (`re_pos_match` steps over empty matches; `memchr` and `str_str` have none);
where `^` may not match there is a separator only if there is one where it may; and
the first character or string in a text does not move when text is added behind.
Nothing of the kind is assumed of expressions, where it is false.

`FinInv` is `Placed /\ Sized /\ Flagged`: what is in the buffer and not returned, and
what read(2) has not delivered, are two parts of the file that meet (`Window`, from
`Facts`, is a part of a sequence given by its two ends, so that moves, growth
and refills are arithmetic on the ends); size is a multiple of `JUMPSZ`, the
buffer is full until the end of the input is seen, and there is room for
a line before `fgets` is called; and what each flag and each place in `FINgets` says of
the buffer (after `START` something has been given out, an interactive buffer
holds one line without newline while it is continued). None of it is needed after
a failed read (`Dead`): mawk has ended, and what `enlarge_fin_buffer` was doing is
left half done.

Two proof attempts failed for a good reason. The step of `FINgets` that returns a
record could not be shown to be that of the whole text: `CutShort` used to hold
only where a match ends with the buffer, and the run's expression had no match
that could go on after ending inside. Both are wider now (finding 4 below).
And the refinement of `MainInput` chose the source of a record by a `CASE` two arms
of which overlap in states the run did not reach; it is an operator on
the operand now (`Source`).

### Arrays: `HashArrayProofs`

For every set of keys and values, hash function, size of the first table, average
and largest length (`HashArrayAssumption`):

* `ArrayInvariant`: `Spec => []ArrayInv`, the inductive invariant;
* `TableIsConsistent`: `Spec => []TableConsistent`;
* `ArrayRefines`: `Spec => ImplementsAwkArray`, the refinement: what every call
  returns and leaves is what a map would, whatever conversions, doublings and
  moves to the front came before;
* `DoublingOrder`: `Spec => DoublingKeepsOrder`;
* `FaultsExplained`: if `NotAnIvalue` is no integer key of the program,
  `Spec => []FaultsComeFromMisfiling`.

`ArrayInv` says that an array is of one of three kinds: empty, a split array
(`SplitOK`: only cells, and they fit), or a table (`TableOK`). A table is `Sized` (its
`hmask` is one of those that doubling gives, and `limit` and `size` are what
they have to be), its nodes with strings are filed by hash (`ByString`), those with
integers by integer (`ByInteger`), each once and on one list, and a node is on the
integer list of its key unless it is `misfiled`. Where the node is if it is
misfiled is left open: the invariant only says that it is on some list. After a
fault that leaves a freed node behind, the state is `Dangling`. `Filed`
says the same of both tables: the lists of a table are its nodes, by a function from nodes
to lists; moving a node to the front, taking one off, adding one and doubling
change that function in the obvious way (`FiledTwice`, `Halves`), and one lemma per
operation shows what it does to a table. Each action has a lemma for the invariant, one for
what it shows to the program (`NextShown`), and one for doubling (`NextDoubles`).

`FaultsExplained` needs its hypothesis: an integer that is equal to the mark
for "no integer" is taken for a node without one (section 5, 2), and then a
fault comes about without any misfiling. The theorems about the invariant and the
refinement do not need it.

For the proof, `Those` in `HashArray`, the nodes of a list that are in a set, is a
recursive function on places instead of `SelectSeq`, about which the
library has no facts that do not need induction over an operator; and `misfiled` is
recorded where the node is put on its list. The values are the same.

### sub and gsub: `GsubProofs`

For every set of texts, tables of matches and replacements
(`GsubAssumption`: the texts and replacements are sequences, and a match lies in its text):

* `BufferHolds`: `Spec => []BufferConsistent`;
* `Substitution`: `Spec => []SubstitutesAsWritten`: result and count are those of the
  replacement as `Written` reads it, as long as the cached replacement was not used
  for a match it was not made for (section 5, 8). `Written` is the rule of
  mawk(1) (`Posix`) when the pairs of backslashes in the replacement stand in runs
  before an `&`, and that of CHANGES 20200925 (`Since2020`) otherwise, when the two
  disagree (section 5, 13).

`gsub3` does not compute the length of its result; it corrects an estimate by
what each replacement adds or takes away, and allocates again when the estimate
reaches the length of the buffer. It is corrected before the replacement is copied, but the
text between matches, and the character behind an empty match, are copied without
a look at it. `GsubInv` has the reason why that is enough (`Covered`): what is in the buffer
and what is `Left` of the text, replaced or not, are together within the
estimate, and the estimate is within the buffer, at each of the places of the
loop. So the estimate is never too small, and as it covers the whole rest of a match it
does not fall below zero, which matters because it is unsigned. `Placed`
bounds the number of replacements by the places in the text. That the compiled
replacement is a sequence at all, being a recursive function, takes `CompileExists` and
`CompiledIsText`.

For the result there are three parts. `REPL_compile` scans from left to right and takes
two or three characters at a time, while the documents' rules look at each
character and count the backslashes before it. `CompiledSince2020` joins them: the scan is
only ever at places where the backslashes before are pairs (`Begins`), and what it has
made there is what `Since2020` makes of the text so far; the last such place
is the end. `CompiledAsWritten` adds that this is `Posix` where the documents
agree. `Replaced` is a recursive function on the places of the text
(an offset, and whether a match ends there), each depending on later ones only (`OnwardIs`):
`RestExists` builds it from the end, and `RestUnique` says that there is no other. So the
invariant can name any solution of the recursion: `SubstInv` is `GsubInv`, `Compiled`
and `Promising`: what is in the buffer, what comes next and what is promised
behind the place the loop goes on at are together what was promised for the whole
text, and the same for the numbers of matches. Each action moves a piece from
the right of this equation to the left. The cases where
`skip0` decides (an empty match behind a match) are those where `Counts` and the second
part of the place have to agree.

For the proof, the recursion of `Replaced` is over pairs, since TLAPS has no
functions of two arguments.

### Symbols and the pools: `SymbolsProofs`

For every set of names, hash function, number of buckets, sizes of nodes, blocks, pools
and chunks (`SymbolsAssumption`, `ZmallocAssumption`: the hash of a name is a bucket,
sizes are positive, and a chunk is at least as large as the largest block of the pools):

* `SymbolsInvariant`: `Spec => []SymInv`, the inductive invariant;
* `SymbolsHeap`: `Spec => []HeapAccounted`: a block is in one pool, in the chunk at
  hand, or has one owner, and nothing of what malloc gave is lost;
* `SymbolsTable`: `Spec => []TableConsistent`: no name twice in a table, each node in
  the bucket of its name, and `restore_ids` frees the locals, all of them and
  nothing else;
* `SymbolsScopes`: `Spec => NamesAreScoped`, the refinement of `AwkScopes`.

The proof has the layers of the code. For the pools, `HeapInv` is `Accounted` and
what it needs of the areas of malloc (apart from one another, below `brk`, and a
block too large for the pools is an area of its own); `zmallocOK` and `zfreeOK`
say that both keep it and change `live` by the one block, also where the rest of
the chunk goes to a pool and where malloc has to be asked again. For the
table, `TabInv` joins what is kept in three places: the buckets (`Filed`: they
hold the nodes that are not saved, each once and under its hash), the names (`Scoped`: a
name is that of at most one node in the table and of at most one saved global, and the names of
the locals in the table are exactly the names of the globals saved) and the heap (`Held`: the
blocks given out are the nodes, those of the rest of mawk, and as many
texts as there are names). There is one lemma for each of `find`, `insert`,
`delete`, `save_id` and `RestoreOne`. `RestoreOneOK` is where `last_hash` matters:
the local that `delete` finds has the name of the global to be put back, because of
`Scoped`, and so the bucket it leaves in `last_hash` is that of the global.
`RestoreAllOK` follows the list of saved globals to its end.

A step that could not be proved was a flaw of the model: in `Parse`, the end of
the keywords, `scope' = "main"` stood under a quantifier over the keywords, so without
keywords the next scope was anything. It is a conjunct of its own now. For
the proof, `Accounted` is stated with blocks that are disjoint instead of by the sum of their
sizes, and `restore_ids` is a recursive function.

### What stays with TLC

* Liveness (`Answers`, `WaitingEnds`, `Returns`, `Ends` and the two `Terminates`), which
  needs fairness and ENABLED.
* The regular expressions, the compiler and the interpreter (`MachineConsistent`,
  `TestIsMembership`, `MatchIsRight`, `PopsOwnPosition`, `RunsAsWritten`,
  `RejectedIffIllFormed`, `CodeConsistent`, `PendingAtPush`, `StackConsistent`,
  `StorageAccounted`): their trees and programs are given by recursive operators,
  which TLAPS does not support.
* Induction over data in general: the library's induction theorems cannot be
  instantiated, so each recursive function that a proof is about has a lemma of its own, by
  induction over a set (`LeastNat` and `NatAll` of `Facts`): `re_pos_match` in
  `FieldProofs`, `Replaced` in `GsubProofs`.

## 5. Where the code and its documents differ

Two have a run that finds them, and an entry in `findings` (8 and 9). The
others were met by TLC while the modules were written; their runs leave the case
out, stop at it, or follow one of two documents (13), and the place says so.

1. array.c:381: `find_by_ival` takes the bucket before `find_by_sval` doubles
   the table; the node is filed in a stale bucket and a delete by string
   follows a null link (`fault = "crash"`). mawk-arrays(7): array_delete "removes
   an element A[expr] from the array A".
2. array.c:182: the key -2^63 is an integer and the mark for "none": with it
   among `IntKeys` a deleted node stays on a list (`"dangling"`).
   mawk-arrays(7): "d_to_I returns a value in [-Max_Int, Max_Int]".
3. fin.c:281: blank lines in front that fill the first buffer make an empty
   record (`"trim"`). mawk(1): "the same effect as if blank lines are stripped".
4. fin.c:314: whether a match at the end of the buffer is complete depends on
   a byte that is not the buffer's, and a match that ends before the end of
   the buffer is taken for complete although the text behind may prolong
   it (`"peek"`). mawk(1), of split(), and of records "by the same algorithm": "all
   non-overlapping, non-null and longest matches" separate.
5. files.c:272: `close("/dev/stdin")` passes a null pointer on (`"null"`).
   files.c:631: "ptr is set in file_find()".
6. files.c:384: a failing close on exit closes the earlier streams again
   (`"twice"`). files.c:385: "we do not want to be called for the same file again".
7. bi_funct.c:1008: getline at the end of a pipe may wait forever for a
   filter that waits for mawk. mawk(1): "Getline returns 0 on end-of-file".
8. bi_funct.c:1193, run `gsub_cache`: the last replacement is used again when the next
   match equals *it*, instead of the match it was made for.
   `echo 'a[a]' | mawk '{ gsub(/a|\[a\]/, "[&]"); print }'` prints `[a][a]`
   instead of `[a][[a]]`.
9. execute.c:1214, run `main_dead`: nextfile in a rule after getline has reached the
   end of all input gives the static `dead_buff`, one byte, to the pools, which
   write a pointer into it. fin.c:60: "this is how we mark EOF on main_fin".
10. execute.c:1162: exit in a deep call starts END with `stack_danger` in the
   block that was in use. A recursion in END then runs past the end of
   `eval_stack`, although the code is to "check for deep recursion"
   (execute.c:162). The run's programs do not recurse deeply in END.
11. rexp3.c:545: a search that comes to its best match again ends at once, so
   `match("ab", /a|a|ab/)` says 1 where the comment at rexp3.c:57 promises the longest. `MatchIsRight`
   excepts searches that stopped there (`repeated`).
12. rexp2.c:232: the counter of a repetition is in the machine and a mismatch
   resets it: `"aba" ~ /(ab.){2}/` is 1, though rexp.c says m{3} is converted
   to mmm. The trees repeat single characters only.
13. re_cmpl.c:207: two backslashes in the replacement that no
   `&` follows are both put: `echo a | mawk '{ sub(/a/, "\\\\"); print }'` prints
   `\\`. The comment above `REPL_compile` (re_cmpl.c:148) has `\\ --> \` among "the
   Posix rules which this code supports", and mawk(1) says that `\\` puts a
   literal `\`. Since 20200925 CHANGES says "only escaping backslash with itself
   if those backslashes happen to precede a &". The code does what CHANGES says,
   and so does `Written` for replacements with such a pair; for all others it is
   what mawk(1) says.

Behaviours met while modelling that no document speaks of:

* `build_field0` with `nf` = 1 copies `$1` into `$0`, number and all (field.c:522), so
  the text of `$0` follows later changes of CONVFMT; `AwkRecord` allows either.
* A compound assignment to a field pushes its address before the right hand
  side runs. If that shortens the record, the old value is fetched from a cell
  above NF, which need not be "" any more (execute.c:643).
* `transfer_to_fields` loads one slot beyond `fbankv` when a record ends with the
  last cell of the last bank there is room for (split.c:260). The slot is not
  used. `OverrunOnlyAtTheEnd` proves that this is the only case.
* A status remembered for a process id answers for a later child that the system
  gave the same id (files.c:564): with `Reuse = TRUE`, `CloseGetsItsStatus` fails.
* The address of an array cell is pushed before the right hand side runs; when
  that deletes the element or converts the array, the store goes to a freed
  cell (execute.c:338). `AwkExec` drops such a store and notes it (`wild`).
* `string_to_double` leaves a reference to the string behind on its early
  returns (cast.c:49). `StorageAccounted` counts these apart (`lost`).
* nextfile on standard input loses what was read ahead of it; `AwkMain` allows
  any amount.

Faults without a document to hold them against: `bol` (Fin: `^` in RS matches in
the middle of a text), `nul` (Fin: the code says it cannot see them) and
`closed` (Files: print without redirection, fflush() and the flush before a
fork after `close("/dev/stdout")`). The models stop there.

## 6. Not modelled, and why

* `array_cat` and the sort of the loop vector under `WHINY_USERS`: a key and
  an order, no state of the array.
* The text of numbers and of formats: parameters of `Field`, small integers in
  `AwkCell`. So `CONVFMT` is in `Field` only, and NaN, infinity and overflow of
  numbers nowhere.
* The MSDOS fake pipes and `setmode`: not built on POSIX systems.
* The tables of yacc (`parse.c` beyond its actions) and the scanner beyond
  identifiers: generated, or pure translation. Of the grammar, getline with
  redirections, printf, fields other than `$0`, and the builtins have no
  production in `AwkParse`; their opcodes that keep state are in `Field`,
  `Files`, `MainInput` and `Gsub`.
* `re_cmpl.c`'s caches of compiled expressions (that `re_compile` keeps the string
  is in `AwkExec`, the order of its list and its use of the pools are not), the
  choice of a literal search and `regexp_system.c`: tables from text to machine.
* In regular expressions: escapes by number, `{0}`, and the nested loops that
  `RE_set_limit` makes of a repetition of a repetition. The stack of positions
  does not move in memory in the model.
* `zrealloc`: a zmalloc, a copy and a zfree.
* Option parsing, disassembly, tracing and messages: straight translation and
  output. system(), and the arithmetic, string and time builtins: functions
  without state (the seed of `srand` apart).
* Of the main input: assignments of ARGC, NR, FNR or fields among the operands;
  the name `/dev/stdin`. `nextfile` is in rules only, as the grammar has it:
  mawk refuses it in BEGIN, END and functions (parse.y:268).

## 7. Plan

Done, in this order: `AwkArray`, `HashArray`; `AwkRecord`, `Field`,
`FieldProofs`; `FieldSplit`, `Splitter`; `AwkInput`, `Fin`; `Files`; `RegexLex`,
`RegexCompile`, `RegexRun`; `AwkCode`, `AwkCalls`, `AwkParse`, `AwkCell`,
`AwkExec`, `AwkMeaning`; `Gsub`; `AwkMain`, `MainInput`; `Zmalloc`, `AwkScopes`,
`Symbols`.

Proved since: `Files` (`FilesProofs`), `MainInput` (`MainInputProofs`), `Fin`
(`FinProofs`), `HashArray` (`HashArrayProofs`), `Gsub` (`GsubProofs`), `Symbols` on
`Zmalloc` (`SymbolsProofs`), `Splitter` (in `FieldProofs`).

To come:

1. The caches of `re_cmpl.c` with their use of the pools; the stack of positions
   as it moves.
2. Fields and getline in the grammar of `AwkParse`, composing `AwkExec` with `Field`.
