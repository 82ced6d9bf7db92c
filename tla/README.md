# Verification of hwpp

hwpp reads and writes the registers of the hardware it runs on. Device code,
written in C++ against a small embedded language (`fake_language.h`) or in PP
files (`language/`), describes registers and fields; the library keeps the
descriptions in a tree, finds them by path, and turns a read or write of a
field into accesses of device files. These modules model the parts of the
library that have state and logic, TLC checks them on small instances, and
TLAPS proves the main properties for every value of the constants.

    tlasany M.tla                                parse a module
    tlc -config MCX.cfg MCX                      check a run
    tlapm XProofs.tla                            check the proofs

## Inventory of the system

| component | state | operations | hard behaviour | what makes it correct |
|---|---|---|---|---|
| `util/keyed_vector.h` | a map key -> index, a vector of values, a vector of map iterators | insert, erase, pop, clear, copy, lookup by key and by index | three structures kept in step over long call sequences; rebuilding in a copy | an insertion-ordered map with unique keys |
| scopes, paths, arrays, aliases (`scope.*`, `path.*`, `array.h`, `alias.h`, `dirent.h`) | heap of dirents with owning and weak pointers, bookmarks | add, look up, canonicalise a path | redefinition destroys subtrees; walks cross parents, bookmarks, arrays and aliases in any order | a tree; a canonical path means what the path meant; aliases stay put |
| statements (`fake_language.*`) | the tree and the context stack | OPEN_SCOPE, CLOSE_SCOPE, REG, FIELD, ALIAS, BOOKMARK, READ, WRITE, types, discovery | order of definitions; what is looked up when and from where | as documented in `docs/language.txt` |
| runtime and contexts (`runtime.*`, `context.h`, procedure registers and fields) | one global stack of contexts, a snapshot in every procedure register and field | push, pop, snapshot, read, write | accessors nest and may throw | an accessor runs where it was defined, device code where it was |
| `regbits.h` | bit ranges of registers, joined | join, read, write | several accesses to make one value; failure between them; the device changes bits | frame and content of a write, value of a read |
| drivers and discovery (`drivers.cc`, `drivers/*/*_driver.cc`) | registry of drivers, requests, a catch-all | register, discover | callbacks that throw, first match wins | every device reported once, to the right callback |
| bindings (`binding.h`, `drivers/*/*_binding.cc`, `util/filesystem.h`) | an open file: descriptor, mode, position; CPU affinity | read, write with reopen and seek | shared descriptor, partial failure, borders of the address space | an access goes to its address or fails |
| datatypes (`datatype.h`, `datatype_types.h`) | enums and bitmasks as KeyedVectors | evaluate, lookup, compare, test | a key of a bitmask stands for a number in one place and for a mask in another | a comparison or test means what the key says |
| language front end (`language/`, `util/symbol_table.h`) | environment of parsed files, one symbol table, the marks of validated nodes | parse, validate | files parsed over others; errors in the middle of a file; the built-in `args` | symbols resolve by the text, types accept no value they cannot hold |
| bignum, bit buffers (`util/bignum.*`, `bit_buffer.*`) | GMP integers | arithmetic, conversion | widths, signs | arithmetic |
| device files (`devices/`) | scopes open, the position in the file | a callback per device: statements, conditions on fields, loops | what is defined depends on what the device answers; some hundred lookups relative to the current scope; walks over lists the device provides | nothing is looked up that is not there, scopes are closed, names lead to the right blocks, the walk ends |
| device files in PP (`language/pp-files/`) | - | the same in the PP language | nothing runs them yet | - |
| examples, tools, log, strings, sockets | - | - | `hwpp_fuse` may call the library from several threads | - |

Components interact by calls within one thread: statements add dirents to the
current scope, which the runtime's stack names; a read finds a dirent by path,
a field reads RegBits, RegBits read registers, registers read a binding or run
an accessor, and the accessor reads other fields, one call inside another.
Callbacks run in two places: accessors, and discovery. Nothing is persisted and
no messages are sent, so that crash recovery and delivery are no subject.

## The modules

**OrderedMap** is the abstract specification of a container: entries in
insertion order, four kinds of change.

**KeyedVector** is the container as written. `kv` is the record of the three
members, `insert` and `erase` are functions of it, each public call is an
action. `operator=` is a loop of inserts into a local (`tmp`, `pos`, `pc`),
because the iterators must be made anew. Map iterators are modelled by the key
of the node they point to, which the standard guarantees until it is erased.
`RefinesOrderedMap` is the refinement mapping `Entries`. `erase(first, last)`
is a loop of `erase(first)` and no action of its own; see below.

**DeviceTree** models the heap of dirents (`dirent`, numbered by creation in
`created`) and the stack of current scopes. `WalkPath` is `Scope::walk_path()`
with its internal recursion, element by element, and the path it writes; the
flag RESOLVE_ALIAS, the exceptions (`Conversion`) and walks that never end
(`Diverges`, told by fuel: an alias followed inside itself cannot end, and
there are fewer aliases than dirents) are kept. `AddDirent` is
`Scope::add_dirent()` with the destruction of what a redefinition overwrites
(`Owned`). A statement is an action. Names are model values: a name that starts
with `%` is a `RegName`, all others are `ScopeName`s, which is all the
validation functions look at. Parsing of path strings is left out.
**DeviceTreeDocs** states what a comment says of canonical paths where the code
does something else.

**Runtime** models the context stack alone, with device code (`opened`) and
running accessors (`calls`) as its users, to any depth. `SpecThrow` adds
exceptions: those that leave an accessor skip `context_pop()`.

**RegBits** models joined bit ranges. A value is the set of its 1 bits, so that
shifts and masks are set expressions and widths need no bound. The tree of
sub-ranges is flattened: its leaves are visited in list order whatever the
nesting. One register access is one step, and between two the device may change
bits of its own (`Volatile`) or the next access may throw.

**AddressSpace** is the abstract specification of a binding: cells at offsets,
some absent; a call reads or writes a run of them and returns, or fails. A read
of an absent cell gives ones, a write leaves it absent. A read that fails
changes nothing; a write that fails may have written any number of its cells,
none and all of them included, from the first on.

**Binding** is the io, pci, msr and mem bindings as written, over
`util/filesystem.h`: one descriptor (`open`, `fd`, `mode`), its position, one
mapping, and a call that proceeds from `check` over `reopen` and `seek`, or
`map`, to `access`, where any system call may fail and the device may change
volatile cells in between. `read()` and `write()` may transfer less than the
file has. What follows the access may fail too, when its effect is there
(`EndAccess`, `EndMapped`): `is_eof()`, asked behind a short access to a PCI
config file, has two system calls of its own, and `munmap()` reports its failure
out of `~FileMapping`. (The build names no language standard; from C++11 on such
a destructor ends the program, and there is no call that throws.) `Bindings` is
the set of those the four drivers make from their arguments: kind, base, limit,
permitted widths, and the size of the file behind. The io and msr files are as
large as their space, a PCI config file may be shorter than the 4 KB of its
space (its owner may read 64 bytes of it only), a memory access maps whole
pages. `KeepsPromise` is the refinement of AddressSpace.

**Discovery** is `do_discovery()` with what runs under it: the static objects
that register requests in any order, the request a program adds, the drivers in
the order of their names, the addresses sorted, `CpuDriver::cpuid()` with the
affinity saved, set and set back (`Pin`, `ReadCpuid`, `Restore`) for two
functions, the config space of a PCI function, the choice of a request, and the
callbacks of `cpu.cc`, `pci.cc` and `k8.cc` as the scopes they open, fill and
close. A path is a sequence of elements, `tree` maps the paths of devices to
who defined them, `cpus` is the array `cpu[]` of a scope. Any system call may
throw; the exception ends the call and leaves the context stack as it is, and
another discovery may follow (`base` is the scope it starts in). `Expected`
says by the ids of a device, without reference to the order of requests, whose
it is; `RevOf` gives the revision of a K8 by its raw ids.

**DeviceCode** has the statements device files are written in as data (`Open`,
`R`, `F`, `V`, `When`, `If`, `Case`, `For`, ...), the device tree as the chain
of open scopes, the lookup of a path in it, and the values conditions compare.
The lookup is a sequence of moves (`Follow`), from one element of the path to
the next, aside along an alias and back; `MaxMoves` bounds them, and a lookup
that is not over then is the error `"not modelled"`, which no device of the
runs meets.
**PciCode**, **CpuCode** and **K8Code** are the files of `devices/` in these
statements, a definition for each function or each section of a long one: what
it opens, defines, looks up and asks, in the order of the code. Kept are all
names, types, conditions, loops and calls; left out are the addresses of
registers and the positions of bits. A field has a value only if some condition
of the files reads it.

**DeviceScan** runs them. `dev` is a device: its callback and the answers of
its registers; `frames` is the chain of open scopes, `todo` the statements to
come, and a step is a statement. A statement that looks up what is not there
throws, and the callback ends as it is. What a bitmask name tests is
`datatype_types.h` as written, the number of the bit. `&&`, `||` and `!` become
conditions of conditions (`BranchAgain`), so that an operand is asked for only
when the code evaluates it.

**Types** is `language/type.*`: equality, assignability, initialisability, as
recursive functions over the types that are nested `MaxNesting` deep (`Nested`,
`AnyType`). **SyntaxTree** has the nodes of `syntax_tree.h`, built as
`grammar.y` builds them (`&&` and `||` become conditionals, loops compounds with
labels, a function a variable whose initializer is the literal, with the
parameters behind the body as they are validated). validate() of a node
validates its parts and then checks the node, so a node is written as the list
of these checks, those of the parts before that of the whole; `Statement` is
what holds of every list the grammar can build: operands are there when they are
taken, scopes are ended as often as they are opened. **Validation** is the
Environment: `ParseFile` (also over a name there is), `Validate` with unresolved
symbols as errors or warnings, `BeginItem`, `EndItem` and `EndValidate` for the
loop over items, and an action for each kind of check: `NewScope`, `EndScope`,
`AddArgs`, `Parameter` (which adds no symbol, like the code), `Resolve`,
`Operate`, `PushLiteral`, `Drop`, `Define`. `symtab` is the stack of the symbol
table, `marked` how far `m_validated` is set in each file, `vals` the types of
the operands that have been checked. A SyntaxError ends the call and leaves
scopes open, and validation may be asked for again. `evaluate()` is a stub in
the code, so that a constant index of a tuple is always 0; a null reference that
the code would follow (`argument(0)` of a list or tuple without arguments) is
the end, `"dead"`.

Operators introduced as *mutations* stand beside the definition they distort;
no specification uses them. Each shows that a property fails when the code has
that bug.

The proofs are in modules of their own, named for the module they are about:
KeyedVectorProofs, RuntimeProofs, RegBitsProofs, BindingProofs,
DeviceTreeProofs, DiscoveryProofs, DeviceScanProofs and ValidationProofs. What
DeviceTreeProofs and ValidationProofs need of recursive functions stands at the
head of each.

## Runs

| run | bounds | what it shows |
|---|---|---|
| `keyed_vector` | 4 keys, 2 values | types, structures in step, refinement of OrderedMap |
| `device_tree` | 2 names, 1 register name, 1 bookmark, 4 dirents, some 100 paths up to 3 elements | the heap is a tree, open scopes and captured scopes are alive, aliases are pinned, path resolution keeps the meaning of a path and is canonical |
| `docs_canonical` | as above | *violation* of a comment on canonical paths |
| `runtime` | 3 scopes, 2 procedures, stack of 5 | accessors run where defined, device code finds its scope, every frame has an owner |
| `runtime_throw` | the same | *violation*: an exception leaves a snapshot on the stack |
| `regbits` | registers of 3 and 1 bits, one bit volatile, 3 ranges | reads concatenate, writes write what is asked and no more, also half-way |
| `binding` | spaces of 3 to 16 bytes, two byte values, pages of 4, widths 1 and 2, each kind of binding | one descriptor, read-only until a write, no access outside a mapping, the promise of AddressSpace, also by calls that throw after the access |
| `binding_region` | the same | *violation*: `io<0, 0x10000>` is accepted and refuses every access |
| `discovery` | 4 machines of 2 CPUs and up to 5 PCI functions, 2 discoveries, 1 request of a program | every device once and by the right code, K8 revision before its use, affinity and scopes restored |
| `devices` | 370 devices | each is described to its end unless the code cannot describe it, capabilities and BARs are named right, scopes are closed, the callback ends |
| `cpuid_htt` | 4 CPUs | *violation*: a test for the feature `htt` tests three others |
| `validation` | some 2500 files of one or two items, two names, 2 items in all, two calls of `validate()` | balanced scopes, resolution as in C but for parameters and what is being initialized, sound acceptance of initializers and assignments |

*Violation* runs check a statement of a document or of the code's own error
messages that the code contradicts; TLC finds the counterexample. In
`binding_region` it is a region as large as the port space.

Bounds. Four keys give an erase in the middle with keys on both sides, and an
insert after it. Four dirents give an open scope with a scope in it, an array,
and an alias that is redefined around; they are enough for a scope two deep,
with a sibling of its parent of the same name, which is where `../../b` and `b`
differ. (The shape of the heap is proved for any number of them.) Two
procedures and a stack of five give an accessor that reads another, and one
that reads itself, under an open scope. Three ranges over a register of three
bits give overlaps, swaps and a range of another register between two of the
same.

The sizes of `binding` are scaled, the relations between them are the real
ones: a space the file covers, one it does not, offsets before, in and behind
it, an access that crosses a page. The machines of `discovery` have both
revisions of K8 in either order, a K8 before revision E, an AMD and an Intel
CPU with extended ids, and a northbridge with and without its last function;
the second discovery finds what a complete, or an aborted, first one has left.

The devices of `devices` have every header type, each kind of BAR in each
place, every capability and extended capability alone and lists of them, also
cyclic ones, each subtype of HyperTransport and type of PCI Express, MSI with
addresses of 32 and of 64 bits, CPUs with
every number of CPUID functions at which the files branch, and K8 cores and
northbridges of both revisions with each kind of machine check error.
`MaxStatements` is 1300: the longest callback, of a K8 northbridge, needs some
1190 (a condition made of others counts once for each), and only a cyclic list
reaches the bound.

The files of `validation` pair an `x` of each type and initializer with a `y`
of each type that uses it, or with a function that does one operation on it,
and pair some twenty functions with each other in one file and in two:
definitions that shadow, in blocks, branches, loops and cases, uses before and
behind them, `args` in its forms, a function in a function, parameters used in
the body and named like a variable further out, and `discover()`.
Values in `AcceptedIsSound` are scalars, and lists and tuples of up to two of
them, and of one such list or tuple, which is as deep as the types go.

`discovery` and `validation`, which stop after the last call, do not check for
deadlock; every other run does, `devices` with a stuttering step (`Ended`) for
the callback that is over. `MaxDirents`, `MaxDepth`, `MaxPieces`, `MaxCalls`,
`MaxStatements`, `MaxItems`, `MaxValidates`, `MaxNesting` (in the guard
`CanNest`) and `MaxMoves` (in `Walk`) are the only bounds within the modules;
but for `MaxMoves`, each stands in the guard of the actions that would exceed
it. The code has no such limits but memory and the machine stack. Types of
`validation` are nested 3 deep: a tuple of the deepest variable, which is a
tuple of a tuple.

Fairness. DeviceScan assumes that a callback that can run on does (`RunOn`, weak
fairness): it is called by discovery and runs in its thread, uninterrupted,
until it returns, and no statement waits. `Terminates` says that it then comes
to its end unless the device has a list of capabilities that leads back into
itself, for which the code has no guard: those lists are excused, the property
is about all the other loops. Everywhere else none is assumed and no liveness is
claimed: between two calls the library does nothing by itself, and a caller need
not call again; within a call the loops are over lists that are there.

## What the violations mean

* `..` after an alias cancels the alias in the canonical path, but the walk
  goes to the parent of what the alias points to.
* An accessor that throws leaves its read-only context current
  (`register_types.h:105-107`, `field_types.h:110-112`).
* An io region of the whole port space passes the check of the driver and is
  stored with size 0 (`io_binding.h:20`).
* `FIELD_TEST("std_features", "htt")` tests for the bits of the number 28,
  which are `de`, `pse` and `tsc`, since `lookup()` of a bitmask gives the
  number of a bit (`datatype_types.h:389`); so does every test of a bitmask by
  name.

Met while modelling, and not runs of their own:

* READ of an alias to an alias looks the second path up from the scope that is
  current at that time (`fake_language.cc:121`), and an alias defined over the
  scope its target lies in leads through itself: the lookup recurses without
  end (`scope.cc:409`).
* `erase(first, last)` (`util/keyed_vector.h:466`) advances an iterator past
  the entry that has just moved into its place. No caller in the tree.
* `resolve_path("a/..")` gives the empty path, which means failure
  (`scope.h:122`), so that such an alias cannot be defined.
* A memory region that ends beyond 2^64 wraps (`mem_binding.cc:113`);
  `MemoryAssumption` excludes it.
* `k8.cc:3136` says that PCI discovery does not run before that of CPUs today;
  `examples/hwpp_pci.cc:107` discovers PCI only, and a K8 machine then throws
  `NotFoundError`, as does one whose first CPU is a K8 that no rule covers
  (models below 0x20 and 0x3a to 0x3f). `RevIsThere` states what holds.
* A second discovery appends to `cpu[]` and `k8[]` again, and one after an
  exception in a callback defines its devices in the scope left open.
* PCI: a capability list that leads back into itself is walked for ever; an
  unknown capability, an MSI block of 64 or 128 vectors with masks, an MSI-X
  block that names a BAR the device has not, and error reporting without a PCI
  Express capability end the callback with an exception (`Trouble`). The
  pending bits of MSI-X are taken from `table_offset` and from addresses one
  byte apart (`generic_device.cc:564`, `570`); `mhz1800` has the value of
  `mhz300` (108); a BAR of the reserved width gets the register behind it as
  its upper half and that register is described once more, which
  `BarsArePartitioned` excepts by name.
* CPUID: the extended functions of an AMD CPU ask for `family`, which is not
  there if function 1 is not.
* K8: at `k8.cc:2549` `DEFINED("ErrorCodeExt")` is asked when the scope
  `status` is closed, so that it is always false; `RdDqsTimeCheck` is read from
  the register of the write timing (1693); `Trfc[]` is described twice
  (1962-1979); of a node whose revision is unknown `cs_size_t` is not defined,
  and the lookup fails.
* Validation after a SyntaxError: `validate_once()` marks a node before it
  validates it (`syntax_tree.h:69`), so that a second call skips the failed
  statement and goes on, with the failed function's scopes still open: its
  locals are visible to what follows, and what follows is not at file scope.
* The first use of `args` in a process validates its one definition where it is
  used and adds it to that scope as well (`syntax_tree.h:915`, `1545`): a
  definition `int args` behind it is "redefined" the first time, and accepted
  after.
* `+=` and its like change a const variable (`syntax_tree.h:1305`: only `=`,
  `++` and `--` ask); `list l = [];` takes `argument(0)` of no arguments
  (`syntax_tree.h:357`).
* Parameters are in no scope: their validate() adds no symbol
  (`syntax_tree.h:1449`), and comes after that of the body (`1548`). A use of
  one in the body is an unresolved symbol, a SyntaxError where these are errors,
  or finds what has the name further out; `pp-files/pci.pp` declares parameters
  and uses them (22-29, 234-279). And a function cannot call itself, its symbol
  being added behind its initializer (`327`). `ResolvesLexically` says what C
  has in scope, and excepts these two.
* A binding may report an error after it has written, all or the beginning of
  what was asked (`pci_binding.cc:89`, `filesystem.h:94`).
* Setting the affinity back may fail: the process then stays on one CPU, and the
  next query takes that for the original affinity (`cpu_driver.cc:194`).
  `AffinityKept` excepts this. A request of a program for a vendor beyond 16
  bits is cut to another vendor when it is registered (`pci_driver.cc:117`);
  `Expected`, and so `ByRule`, is about the ids that are left.
* `variable.h` says of reference constructors that they "make a reference, not
  a copy"; after `assign_from()` the two no longer share a value.

`AliasesPinned` and `ResolveKeepsMeaning` state what does hold: the first for
steps that destroy nothing and aliases that lead somewhere (an alias that a
redefinition has left without a target may find one again), the second for
paths that cross no alias.

## Proofs

**KeyedVectorProofs.** The inductive invariant is `TypeOK`, `Consistent` and
`CopiesPrefix` together: that the next copied key is new in `tmp`, so that the
copy appends instead of overwriting, follows only from both the uniqueness of
keys in `kv` (`Consistent`) and the prefix copied so far (`CopiesPrefix`). The
lemmas on `insert` and `erase` show that they keep the structures in step and
that erasing shifts the indices of exactly the entries behind. The refinement
theorem maps each call to an action of OrderedMap and each step of a copy to a
stutter; the swap at the end is one because the copy is exact.

**RuntimeProofs.** `FramesAccountedFor` with `TypeOK` is inductive: it names
the owner of every frame. Device code cannot open a scope while an accessor
runs because the top frame is then a snapshot and snapshots are read-only,
which is the reason the invariant speaks of the snapshots in `context` as well.
The two properties of the top of the stack are consequences.

**RegBitsProofs.** `Untouched` is inductive with `FetchedIsCurrent` (what has
been fetched is still what the register holds, but for the device's bits) and
with the ranges lying within their registers (`TypeOK`). For the two properties
of content, the position of a range in the joined value is the end of the
ranges behind it (`End`, a recursive function whose two equations are all that
is used); a read has `End` of what is read so far as its shift, a write has the
value shifted by `End` of what is written, and ranges at different positions do
not meet.

**DeviceTreeProofs.** The walk of a path stays opaque here: nothing is assumed
of where it leads, so that the proofs hold whatever aliases and bookmarks do.
The heap is a function from dirents to those they hold; it is a forest, and the
two ways to change it keep it one: `Prune` takes out all that lies below a
dirent, `Grow` adds a leaf (lemmas `PruneKeepsForest` and `GrowKeepsForest`).
`AddNamed` and `AddToArray` prune and grow under the current scope. Every open
scope owns all that are above it on the stack, hence none is below what a
redefinition in the topmost one destroys; a procedure register's snapshot is of
a scope that owns the register, so that it is destroyed with it at the latest.

Its second part is about the walks themselves. `Walking` is a recursive
function, and the first thing to show is that it is one: a recursion over an
order in which every set has a first member, whose equation looks at smaller
arguments only, has a solution (`RecursionHasSolution`, from the union of all
partial ones, which agree). Walks are ordered by the aliases that may still be
followed and then by the elements left (`WalksOrdered`); that the steps of a
walk go down in it, and end in a live dirent or a failure, needs an invariant:
the parents of scopes are live scopes and every alias has a path of names,
indices from the front and `..` (`Linked`, inductive with the tree, because
`DefineAlias` stores what `resolve_path()` returns). From there on proofs are by
induction on walks, each from a smallest counterexample. `ResolveIsCanonical`:
out_path only ever gets canonical elements, and `..` only behind `..`.
`AliasesPinned`: a step that destroys nothing extends the tables, arrays and
bookmarks (`Extended`), the path of an alias asks for nothing a table or array
did not have, so each step of the walk finds the same. `ResolveKeepsMeaning`: at
every step, out_path spells a route of single hops from the start to where the
walk is (`Leads`). A name, an index and a bookmark append hops; `..` takes the
last one back, which leads to the parent because a scope lies in one scope only,
which is `IsATree`. At the end the walk of the route is retraced hop by hop.

**DiscoveryProofs.** `Core` says how far the loops are
and what this means for each variable: the requests in the order they were
registered, what is left of the sorted list, the current scope, the affinity.
Steps are sorted into kinds by what they change, and each conjunct is kept by
each kind. On it rest, in this order: what is known of a device is what the
device has, hence its callback is that of `Expected` (`ByRule`); elements of
`k8[]` are numbered without a gap, so that no device is overwritten, and what
the loops are past stays covered (`Complete`); CPUs are appended in order
(`CpusInOrder`); the first CPU has its revision before any northbridge is
called for (`RevIsThere`), and each its own (`RevIsRight`).

**BindingProofs.** `TypeOK`, `OneDescriptor` and `ReadOnlyUntilWrite` are
inductive with what the steps of a call have established for those behind them:
`Checked` (past the checks the register is one of the binding, and a write has
the file writable) and `Positioned` (at the access, the position is that of the
register, or the mapping contains it). `NoFault` follows by the arithmetic of
pages. The refinement needs one lemma per kind of step: a call that ends shows
what the abstract call returns, a step within a call shows nothing, a failure
before the access has changed nothing; then a read or write of the file that
returns is an abstract one because the file's end is the only reason for a short
access that is no error, and a write that throws has written the beginning of
its cells (`WriteSeen`), as an abstract one may that fails.

**DeviceScanProofs.** That a callback which returns has closed its scopes is a
matter of every path through some hundred functions, with loops over what the
device says, functions that open a scope for their caller and others that close
the caller's. The proof gives statements a type: `Leads(s, a, b)`, they lead
from `a` open scopes to `b`. The branches of an `If` and a `Case` are statements
again, to any depth, so that this cannot be a recursion on them; it is the
existence of a set of triples which is `Consistent`, each of its triples
following from others of the set by its first statement. Statements in a row and
one after the other (`RowLeads`, `LeadsOn`), loops (`RepeatLeads`, `FlatLeads`)
and statements under more open scopes (`LeadsWithin`) are lemmas; then there is
one for each of the functions, that its statements lead where a call of it is
said to lead (`From`, `To`), so that calls in a circle, like the ones along a
list of capabilities, need no induction (`BodyLeads`). The inductive invariant
is that without an error `todo` leads from `Len(frames)` to 1. `Nested` goes
with it: an open scope is a dirent of the scope around it, under its name or at
its index in an array; a statement only changes the last scope, and puts nothing
in the place of another open one, because when it adds, the last scope has none
in it. `TypeOK` and `LeavesClean` follow. The walk of a path stays opaque:
whether a statement finds what it looks up decides on an error and on the
branch, and both are allowed for.

**ValidationProofs.** `Shape` is what holds with errors and without: the files
are known, the check that is next lies in one of them (`InPlace`), there are as
many results as the checks so far leave operands (`ResultsHeld`), the table has
a context and until the first error as many as `Level`, one more than blocks are
open, says (`TableStands`), and what was last accepted was `Assignable`. It is
inductive and gives `TypeOK`. For `AcceptedIsSound` the functions on types must
first be shown to be functions: they recurse from a type to its arguments, whose
depth (`Rank`) is less. `Sound(a)` then says that whatever is assignable to a
type `a` has only values that `a` holds; a lowest type of which this is not so
would have an argument of which it is not so. `ResolvesLexically` is, until
there is an error, that a use finds the last definition before it in a block
around (`DefinedBefore`); with parameters or an initializer around, C may have
another one (`Surrounding`), and those uses are what the property excepts. The
former is found because the table and the text go together (`Scoped`): what the
text defines around the check is in the context of its level (`TextBinds`), what
earlier items define at file scope is in the first one (`FilesBind`), and
nothing else is in the table but an `args` that its first use has added
(`Explained`, `FromUse`), and that one hides no other definition, because it is
the same as the one it was found by. A step keeps the bindings of all blocks
that stay open (`BindingsKept`), whether it keeps the table or adds to its last
context (`TableKept`, `TableAdded`); that the innermost binding is the last one
in the text is then `LookedUp`.

Assumptions: the page size, the widths and the spaces are positive, a PCI config
file is readable at most to its end, a memory region ends within its space, the
byte read for an absent cell is a byte; the root is a scope, no context is
`NoContext`, registers have a positive width, values and volatile bits are sets
of naturals, bounds are naturals; names of registers differ from others and the
paths looked up are sequences of elements (a bookmark, a name with or without an
index, or `..`); a machine has finitely many devices and lets the process run on
some CPU; a device has one of the four callbacks and in the tree before it are
arrays of one kind each (`DevicesAssumption`); a program registers at most one
request; a file of the PP language is a sequence of statements as the grammar
builds them (`FileAssumption`), a value is a scalar or a sequence of values
(`ValueAssumption`), types may be nested at all (`NestingAssumption`). Nothing
else.

Only model-checked: of DeviceScan that devices are described to the end
(`DescribedToTheEnd`), that capabilities are named by their types
(`CapabilitiesNamed`) and that BARs are kept apart (`BarsArePartitioned`), each
of which would need the result of every one of some hundred lookups for every
device; and its liveness: the provers have neither fairness nor ENABLED. The
library's induction theorems, which take an operator, cannot be used; induction
from a smallest counterexample of a set can, as in DeviceTreeProofs and
ValidationProofs, when the recursion is a function and its order is known.

## Not modelled

* *Composition* of DeviceTree, Runtime and RegBits in one module: each stands
  for the others where it needs them (a context is a name, a register a set of
  bits), and the theorems about each hold for any number of the others'
  objects.
* *Two threads* over the one context stack: the library has no lock and no
  thread of its own.
* *Path strings*: their parser; a path is a sequence of elements.
* *Datatypes*: printing (`evaluate()`) and multi-datatypes; what conditions
  compare and test is in DeviceCode.
* *Device files*: register addresses, bit positions, procedures of registers
  and fields (`DramAdditionalDataProcs`), and errors of register I/O, of which
  a callback lets every one through. The PP versions repeat the C++ ones and
  are not run.
* *Bindings*: the opening of device files, with the node made as a fallback.
* *Language*: lexer and parser (input of generators; `parse_file()` ignores the
  parser's return code), modules and imports, which are recorded and not used
  yet, several variables in one definition, and `execute()` and `evaluate()`,
  which are stubs marked FIXME; so nothing but tests assigns a Variable.
* *Examples, tools, formatting, logging, wrappers of system calls*: no logic of
  the system's own. *Big integers* are modelled by what their users do with
  them.

Next would be an abstract specification of discovery (a map from devices to
those that define them, filled by one call) for Discovery to implement, and the
composition of Runtime with DeviceTree, where an accessor looks paths up in its
snapshot.
