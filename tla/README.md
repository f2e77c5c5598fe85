# Verification of the B library

Formal models of the B library (`include/b`, `src`), a C++ class library of containers, strings,
paths, a command line parser and streams. The models are written in TLA+, checked with TLC on small
instances and, for arrays, strings, views, lists, search trees, maps, reference counts, the priority queue, the sort, string streams,
patterns and the creation of directories, proved with TLAPS for all of them.
`PROJECT.json` maps every definition to the lines it is translated from.

The library is single-threaded (its counters are plain `int`s; `atomic.h` is used by nothing). Only the
creation of directories meets other processes. What is hard about it is not interleaving but **state that several objects share**: copy-on-write buffers,
reference counts that double as lock flags, links that belong to the user's objects, cached ends, and
long sequences of legal calls that a unit test does not try.

## 1. Inventory

| Component | Source | State | Operations | Hard behaviour | What makes it correct |
|---|---|---|---|---|---|
| array | `array.h`, `fn.h` | pointer to a buffer {refs, capacity, length}; a static buffer for empty arrays | 20 editing, copying and memory operations, `lock`, `unlock` | buffers are shared until written to; `refs <= 0` means "locked"; the static buffer must never be written to; failing allocation | exact counts, no dangling pointer, no overflow, locks belong to one object, value semantics |
| string | `string.h`, `string_impl.h`, `string.cc` | as the array, with a NUL after the last character; literals are permanently locked static buffers | as the array, formatting, trimming | as the array; the NUL on every path; operands that share the buffer | as the array; `data()` is null-terminated |
| views | `array_slice.h`, `string_view.h` | pointer and length | `split`, `trim`, `substr`, prefixes and suffixes, queries | `split` may write to the view it splits | what the parts show is what was between the delimiters |
| binary search tree | `binary_tree.h`, `binary_search_tree.cc` | links in the user's nodes, root, cached first and last node, count | `find`, `search`, `insert_*`, `remove`, `next`, `prev` | seven pointers to mend in `remove`; cached ends; equal keys | links agree, all nodes reached in order, searches find |
| set, map | `set.h`, `map.h` | a search tree of elements on the heap | insert, find, remove, iterate, destroy | iterators across changes; the destructor walks what it deletes | an ordered map with unique keys, nothing leaks |
| red-black tree | `red_black_tree.h`, `.cc` | – | a stub | – | – |
| linked lists | `linked_list.h`, `doubly_linked_list.h`, `*_container.h` | pointers to the ends, links in the user's objects | insert, remove, move, empty | links outlive the membership; the doubly linked class inherits operations that do not know `prev` | links follow the order, nothing outside is touched, wrappers are deleted once |
| heap, priority queue | `heap.h`, `priority_queue.h` | an array in heap order | `push_into_heap`, `pop_from_heap`, `heapsort`; `push`, `pop` | children of `i` are `2i` and `2i+1` although indices start at 0 | loops keep the heap, stay inside and end; `pop` gives the greatest |
| object, ref | `object.h`, `ref.h`, `opaque.h` | an intrusive reference count | `assign`, `attach`, `detach`, `swap`, `release` | `attach` releases before it stores; a destructor may come back to the pointer | counts equal the references |
| pathname | `pathname.h`, `pathname.cc` | levels up, components, can-be-a-filename flag | parse, join, go up, relative path | `levels_up == UINT_MAX` means absolute | normalised; `relative_to` is undone by `join` |
| command line interface | `cli.h`, `cli.cc` | options, arguments, commands, categories | registration, parsing, help | abbreviations, defaults, mixed order of options and arguments | each argument is delivered once, to its owner |
| streams | `io_streams.h`, `string_stream.h` | position in a string, a file descriptor | read, write, seek | short reads and writes, end of file | all bytes once, in order |
| formatting | `string_formatting.h`, `arg_list.h` | position in the format, accumulated length, destination | one recursive pass: each level adds its length going down, the deepest allocates, each writes backwards when it returns | every conversion must write as much as it counted | the text starts exactly where the allocation does |
| algorithms | `fn.h`, `fn.cc`, `levenshtein_distance.h`, `pseudorandom.h` | a matrix row kept between calls; the file system | distance, Base64url, patterns, versions, searching, creation of directories | boundaries, backtracking; other processes between two system calls | agree with reference definitions |
| memory, exceptions, atomic | `memory.h`, `*exception.h`, `atomic.h` | – | wrappers | allocation failure | modelled where it matters |

Who uses whom: `priority_queue` keeps an `array`; `set` and `map` derive from the search tree;
`doubly_linked_list` derives from `linked_list`, and the containers keep one of wrappers; `pathname` keeps an
`array` of `string`s; `cli` uses `ref`, `map` and `string`; string formatting is called back through an allocator
that reallocates the string.

## 2. Modules

| Module | Models | State | Notes |
|---|---|---|---|
| `ArrayValues` | the abstract array: every object a sequence of its own | `value` | element-by-element definitions of what each operation promises |
| `CowArray` | `array<T>` | `elements` (pointers), `heap` (buffers), `locks` (history) | each operation keeps the promise of the one of the same name in `ArrayValues` |
| `CowArrayAllocFailure` | `CowArray` when `memory::alloc` throws | same | |
| `CowArrayProofs` | theorems about `CowArray` | | section 5 describes all modules of proofs |
| `CowString` | `string`, with literals and the NUL | `chars`, `heap`, `locks`; `stored` (history: static buffers stored into) | refines `ArrayValues` |
| `CowStringProofs` | theorems about `CowString` | | takes `CowArrayProofs` by INSTANCE: a string without NULs is an array |
| `CowStringAliasing` | `s += s` | plus a history variable | |
| `SortedSequence` | the abstract search tree: nodes in key order | `nodes` | |
| `BinarySearchTree` | the search tree | `tree`, `root`, `leftmost`, `rightmost`, `number_of_nodes` | refines `SortedSequence` |
| `OrderedMap` | the abstract set or map with one iterator | `entries`, `position` | |
| `SortedMap` | `set_base`, `set`, `map`, iterators, destructor | plus values, an iterator, a search result | EXTENDS `BinarySearchTree`, refines `OrderedMap` |
| `LinkedList` | `linked_list` | `first_element`, `last_element`, `next`, and `list` | |
| `DoublyLinkedList` | `doubly_linked_list` | plus `prev` | the inherited members are `Base!RemoveFirst`, `Base!Empty` of an INSTANCE of `LinkedList` |
| `DoublyLinkedListContainer` | the container of wrappers | plus `live` (allocated wrappers) | EXTENDS `DoublyLinkedList` |
| `RefObject` | `object`, `ref`, and destructors of the program's classes | `refs`, `state`, `obj`, `loose` (pointers from `detach()`), `stack` (calls under way) | calls nest: `release()` runs destructors, which call `release()` |
| `SortedMapProofs` | theorems about `BinarySearchTree` and `SortedMap` | | EXTENDS `SortedMap` |
| `LinkedListProofs` | theorems about `LinkedList` and `DoublyLinkedListContainer` | | EXTENDS the latter, takes the former by INSTANCE |
| `PriorityBag` | the abstract priority queue | `copies`, `returned` | |
| `Heap` | the two loops of `heap.h`, one iteration per step | `data`, the local variables | |
| `PriorityQueue` | `priority_queue` | plus `returned` | EXTENDS `Heap`, refines `PriorityBag` |
| `HeapProofs` | lemmas about the two loops, theorems about the queue and the sort | | EXTENDS `PriorityQueue`, takes `HeapSort` by INSTANCE |
| `ContainersProofs` | theorems about `RefObject`, and those of all containers about the composed module `MCContainers` | | EXTENDS `MCContainers` |
| `PathnameProofs` | theorems about `Pathname` | | EXTENDS it |
| `LibraryProofs` | theorems about eight of the ten components that `MCLibrary` composes | | EXTENDS `MCLibrary`; its constants are arbitrary sets there |
| `HeapSort` | `heapsort()` | plus `input`, `heap_size`, `stage` | EXTENDS `Heap` |
| `Pathname` | `pathname`: the parser as an automaton over the characters, join, go up, relative path | `paths`, `shared` (which component arrays share a buffer), `text` (history) | `levels_up` modulo `UINT_MAX + 1` |
| `CommandLine` | registration, `parse()` word by word and letter by letter, `next_arg()` | the tables, the lists of arguments of each command, the position in `argv`, the values | |
| `CommandLineMeaning` | what a command line means, without a parser | | EXTENDS `CommandLine` with the definitions its properties compare with |
| `WordWrap` | `print_word_wrapped()`, one line per step | positions in the text, `printed` (history) | |
| `Formatting` | `format_buffer()`: the way down, the allocation, the way up | `fmt`, `acc_len`, `dest`, the shared `flags`, `stack`; `stored`, `refused` (history) | integers have `Bytes` bytes; the allocator may refuse |
| `StringStream` | `string_stream` | `buf_str`, `pos`; `bytes`, `size`, `overran` (history) | positions and sizes of buffers modulo `SIZE_MAX + 1`; a write may succeed, throw, or overrun a buffer whose size has wrapped around |
| `StringView` | `string_view`, with the cuts of `split()` in their order | `view`; `latest` (history) | |
| `PatternMatching` | `match_pattern()`, one iteration per step | pointers into input and pattern, the saved ones | |
| `Algorithms` | `levenshtein_distance`, `find_lower_bound()`, `compare_versions()`, Base64url | `row`, kept between calls | |
| `DirectoryCreation` | `create_directory()` by several programs, one system call per step | `dirs` (file system), `calls` (of each program) | the system calls are external |

`MC*` modules give constants and symmetry for TLC; `*.cfg` are the runs. Definitions whose comment begins
"Mutant of" are deliberately wrong variants of the definition that follows them; no specification uses
them. They show that each property notices a plausible mistake in the code.

**How actions correspond to code.** In the containers, arrays and strings an action is one public operation, from call to
return, with all the private functions it calls; those appear as operators with the names of the source (`Release`,
`ReplaceBuffer`, `AllocAndCopy`, `DiscardAndAlloc`, ...). Where something can happen inside an operation, or its loops are
what the properties are about, it is taken apart: `Heap`, `PatternMatching` and `WordWrap` by iterations, `CommandLine` by
words and letters, `Formatting` by calls of the recursion, `RefObject` by private functions (a destructor may run any code
in between), `DirectoryCreation` by system calls. An assertion of the source (`B_ASSERT`) is a guard: the model calls
an operation only where its precondition holds, unless a run is about that assertion. Indices are the code's, from 0;
positions in texts that the code keeps as pointers count from 1.

**What is abstracted.** Elements and characters are model values (numbers where they are compared). Memory is a
partial function from addresses to buffers: a freed address can be handed out again, and a pointer that is not in
its domain dangles. Constructors and destructors of elements are left out. `lock()` returns a pointer through which the
user writes; that is `SetElement` on a locked array. `list` in the list modules is what the user
believes to be in the list: it determines no pointer, and the properties compare the pointers with it. Other
history variables (`text` of `Pathname`, `bytes` of `StringStream`, `latest` of `StringView`, `removed` of
`DirectoryCreation`) likewise record what was asked for. An argument of the command line is a sequence of tokens (`-`, `=`, a letter, a name);
component strings of pathnames point into the string that was parsed (`pathname.h:17-20`), which is taken to stay alive.

## 3. Runs

| Run | Shows | Bounds |
|---|---|---|
| `cow_array` | counts are exact, nothing dangles or overflows, locks are individual, the static buffer is constant, locked buffers stay, sharing is invisible (`OneArrayChanges`), each operation gives what it promises (`OperationsAsPromised`) | 3 arrays, 4 buffer addresses, length up to 2, one lock; 2 values while a variable holds no array, one while all three do |
| `cow_string` | the same for strings and literals (`StringsAreSound`, `LocksHold`, `ValueSemantics`); the NUL stays except on three known paths (`TerminatorStays`); nothing but `discard_and_alloc(0)` stores into a static buffer (`StaticsAreSpared`) | 3 strings, a literal, 3 addresses, 2 characters, length up to 2; the third string exists only while at most two buffers are allocated, all of one character |
| `containers` | the lists, the reference-counted objects, the priority queue and `heapsort()`, one component per behaviour | lists of 4 elements with arbitrary initial links; 3 objects and a singleton with 2 refs, all nestings of calls (they never exceed the bound of 6); queues of up to 7 elements of 3 values; all arrays of up to 6 elements of 3 values |
| `command_line` | `parse()` refuses exactly the mistakes, gives each value once to its owner, serves all required arguments, and always returns | 2 options, up to 3 operands of all four types, 2 commands that share a name; lines of up to 4 words |
| `library` | the search tree, the map and everything else, one component per behaviour | see below |
| `cow_array_alloc_failure` (violation) | after a failed allocation in `discard_and_alloc()` the array points at a buffer it no longer owns | 2 arrays |
| `cow_string_terminator` (violation) | after two operations a string has lost its NUL: `replace()` of an empty string, or `insert()` of a literal into a copy of it | 2 strings and a literal, 3 addresses, 2 characters, length up to 2 |
| `cow_string_aliasing` (violation) | `s += s` reads the freed buffer | 2 strings |
| `doubly_linked_list_end_removal` (violation) | `remove_first()`/`remove_last()` leave a link to the removed element | 4 objects |
| `pathname_overlap` (violation) | `q = p; p.join(q)` passes overlapping arrays | 2 pathnames, 3 strings |
| `next_arg_order` (violation) | options come before operands, whatever their order on the line | as `command_line` |
| `create_directory_no_parent` (violation) | a path without a separator has its "parent" created | 1 program, 2 paths |

`MCContainers` and `MCLibrary` check several components in one run: the variable `component` is chosen initially and never
changes, the components' variables are mapped to `v1`, `v2`, ..., and each property is an implication on `component`. Nothing of one component
is seen by another, so that the run is the union of their state spaces.

**Properties of `containers`.** `LinksFollowList`, `WritesMembersOnly`: the pointers are those of the intended list,
wrappers are deleted once, and objects outside are not written to. `RefsCountHolders`, `NoDanglingRef`: counts and deletions are exact
at every point inside nested destructors. `QueueIsHeap`, `IsPriorityBag`, `CallsReturn`: the array is a heap between the calls, `pop()` gives the
greatest value and none is lost, and every call returns. `SortsItsInput`: the loops of `heapsort()` and its result.

**Properties of `library`.**

| Component | Properties | Instance |
|---|---|---|
| `BinarySearchTree` | `TreeIsSound`: links agree in both directions, all nodes are reached, in order, the cached ends are the ends, and `find()` finds; `SortedByKey`: every step is one of `SortedSequence` | 8 nodes with two pairs of equal keys |
| `SortedMap` | `MapIsSound`: unique keys, nothing dangles or leaks; `IsOrderedMap`: refinement of `OrderedMap`; iterators survive changes | 6 places, 5 keys, 2 values |
| `Pathname` | `PathMeansText`: however it was made, an object leads where its components lead one at a time; `NormalForm`; `RelativeToIsUndone` | 2 objects, 9 strings, 3 components per object (one object at a time has three), 2 levels up, `UINT_MAX` = 7 |
| `Formatting` | `FillsTheBuffer`: the text ends where the allocation begins; `PiecesAreIndependent`: each conversion gives what it would give alone, although all share one set of flags, and the text is missing only if the allocator refused | all single conversions with all sets of flags and boundary numbers of 16 bits; two and three conversions that differ |
| `WordWrap` | `LinesAreWrapped`: lines fit unless a word does not, breaks are at spaces, nothing else is lost | all texts of up to 7 characters over a letter, space and newline, 2 widths |
| `StringStream` | `BehavesLikeAFile`, with positions past the end and before the start, and writes that throw; a write overruns a buffer only after a `seek()` past what memory has room for | `SIZE_MAX` = 15, strings of up to 5 bytes, a buffer's header of 1 |
| `StringView` | `SplitsAsPromised`, also when an output is the view that is split, or both outputs are one view | 2 views, 6 texts |
| `PatternMatching` | `MatchesAsDefined`: equal to the definition of the wildcards | all inputs of up to 5 and patterns of up to 4 characters, and two patterns of three asterisks |
| `Algorithms` | `AnswersAreRight`: against reference definitions | short strings, sorted sequences of up to 5, versions of up to 4 characters, data of up to 4 bytes |
| `DirectoryCreation` | `CreatorsSucceed`, whatever the interleaving | 2 programs, 5 paths, one through a file |

**Why the bounds suffice.** Sharing needs two owners, and a third shows that the others are unaffected; with one address
more than there are owners in use, the allocation that precedes a release succeeds. `extra_capacity` adds four
slots to any small size, so that a length of two reaches "room to spare", and `TrimToSize`, `Reserve` and `AllocAndCopy`
reach "exactly full". Eight tree nodes give removals with two deep branches, with and without
a right child of the successor; four list objects an inner element with inner neighbours; three objects chains of destructors that come back to a ref of the first; seven heap elements three levels below
the root, with and without a sibling at the end. Three operands combine a required, a repeated and a trailing argument; four words let an option, its parameter and
two operands stand in any order. Two backtracking asterisks and five characters let the latest attempt be given up after an earlier one succeeded. Registrations that commute are tried in
one order, and long lines with two options only for interfaces with one operand (`MCCommandLine`). The bounds `MaxLength`, `MaxLocks`, `MaxDepth`, `MaxLevels`, `MaxText` are guards or, in `PathNext`, a bound on the step; nothing else is cut off.
The texts, strings, widths and other data of `MCLibrary` are constants (`PathStrings`, `HelpTexts`, `ViewedTexts`, ...) whose small sets the configuration gives; the theorems are about all sets of them.

**Symmetry.** Strings, arrays, addresses and the elements of the doubly linked list are interchangeable in their runs, which state no liveness. In `containers` the
reference-counted objects are: `CallsReturn` is about the queue alone, whose states contain none of them, so that the symmetry identifies no two of its states.

**Deadlock** is checked in the runs of arrays, strings, containers, pathnames and directories (a `heapsort()` that has returned may stutter). `command_line`, `next_arg_order` and
`library` contain functions that return once and are not called again, so their configurations say `CHECK_DEADLOCK FALSE`.

**Fairness.** `EveryParseEnds` assumes weak fairness of `ParseStep`, and `CallsReturn` of the steps inside a call of the queue (`QueueGoesOn`): the program
has one thread, and a function that has been called runs until it returns. Nothing forces the user to call. All other specifications in the runs state safety only.

**The careful user of the doubly linked list.** Where the code is wrong after `remove_first()` and `remove_last()`, the passing run
lets the user call every operation but those that would read the link left behind (`Settled`); the violation run has no
such restriction. Likewise joining a pathname to one that shares its buffer is given the result that the copied elements have, and the violation run is about the overlap.

## 4. Findings

1. **Strings lose their terminator** (`string_impl.h`): `replace()` when it allocates (line 171), `insert()` into a buffer with room (line 276), and
   `alloc_and_copy()` when it shrinks the string (line 87). The first two need two operations: `string s; s.replace(0, "x", 1)`, or a copy of a literal into which the literal is inserted;
   TLC prints the one of these traces that it meets first. `TerminatorStays` shows that the three are the only operations that do it.
2. **`s += s`** with an unshared, full buffer copies from memory that `alloc_and_copy()` has just freed.
3. **A failed allocation in `discard_and_alloc()`** leaves the array with a pointer to a buffer it has released.
4. **`remove_first()` and `remove_last()` of the doubly linked list** leave a link to the removed element; the container has deleted it
   by then.
5. **`q = p; p.join(q)`** (`pathname.cc:92`, `111`) calls `array::append()` or `overwrite()` with elements of the array's own buffer, which both
   assert not to happen.
6. **`next_arg()` does not follow the command line** (`cli.cc:1089`): options first, operands after them, although `cli.h:131-132` promises the order of the line.
7. **`create_directory()` of a path without a separator** (`fn.cc:247`) compares `rfind()` with `<= 0`; when the working directory is gone it makes a string of `(size_t) -1` characters.

Met while modelling, without a run:

- `discard_and_alloc(0)` of a string stores a NUL through a pointer to the constant static buffer (`string_impl.h:69`); `StaticsAreSpared` shows that it is the only operation that stores there. What becomes of the
  program then is not defined: the model lets it go on with the NUL that was there.
- `a + a` (array) and `s.insert(i, t)` with `t` sharing the buffer of `s` fail assertions in debug builds (`array.h:750`, `string_impl.h:255`). As everywhere, these assertions are guards.
- After `seek()` to a position near `SIZE_MAX`, as `seek(-1)` takes it to, `write()` of a string stream does not throw: `extra_capacity()` and the size of the buffer wrap around, a small buffer is
  allocated, and filling the gap runs past its end (`string_stream.cc:67`). The model calls this `Overrun` and stops there.
- `linked_list_container` uses `Memory::Alloc`, which does not exist, and cannot be instantiated; the list containers have no destructor and the implicit copy
  constructor.
- `print_command_list()` overwrites the text that leads to "help <command>" when version information is given (`cli.cc:507-512`); `cli.h:120` speaks of a 'version' command, and there is only
  the option `--version`; arguments registered for a program without commands are not held to the order that `register_association()` asserts.
- `next_arg()` after `parse()` returned -1 or threw uses an iterator that was never set.
- `go_up(UINT_MAX)` turns a relative pathname into an absolute one; `relative_to()` copies `can_be_filename` from the original.
- Formatting negates the least `int`, which is undefined; `%n` of a text of total length 0 leaves its variable unset; the `t` modifier returns without setting the destination.
- A base64url result of no characters fails `B_ASSERT(dst_buf != NULL)` in debug builds (`fn.cc:332`, `459`): encoding nothing, decoding nothing, and decoding a single character, which is then not reported as the error it is. `Encode` and `Decode` have the assertions as guards.
- The standard streams' `FILE`s are never closed.

## 5. Proofs

The theorems hold for every value of the constants that the named assumptions allow: any number of objects, any length, any
sequence of calls.

| Module | Theorem | Statement |
|---|---|---|
| `CowArrayProofs` | `TypeCorrect` | `Spec => []TypeOK`: in particular no array object's pointer dangles |
| | `RefsAreExact` | `Spec => []RefsCountOwners`: nothing leaks and nothing is freed early |
| | `LocksAreOwn` | `Spec => []LockIsOwn` |
| | `NothingOverflows` | `Spec => []FitsCapacity` |
| | `EmptyArrayIsConstant` | `Spec => []EmptyArrayIntact` |
| | `LockedBuffersStay` | `Spec => LockedBufferStays`, an action property |
| | `SharingIsInvisible` | `Spec => OneArrayChanges`, an action property |
| | `OperationsKeepTheirPromises` | `Spec => OperationsAsPromised`: each operation does what its counterpart in `ArrayValues` does |
| `CowStringProofs` | `StringsStaySound` | `Spec => []StringsAreSound`: counts, locks, room, pointers and the contents of both static buffers |
| | `StaticsAreNotStoredIn` | `Spec => StaticsAreSpared`, an action property: only `discard_and_alloc(0)` stores into them |
| | `LocksAreHeld` | `Spec => LocksHold`: locks are the users' own, and a locked buffer stays |
| | `NulsStayInPlace` | `Spec => TerminatorStays`, an action property: no way to lose the NUL but those it names |
| | `StringsAreValues` | `Spec => ValueSemantics`: `CowString` implements `ArrayValues` |
| `LinkedListProofs` | `SingleTypeCorrect`, `SingleLinksAreRight` | `Spec => []TypeOK`, `Spec => []LinksFollowList` |
| | `SingleOutsidersAreSafe` | `Spec => WritesMembersOnly`, an action property |
| | `LinksAreRight`, `NoneIsLost` | `ContainerSpec => []LinksFollowList`, `ContainerSpec => []WrappersAreMembers` |
| | `OutsidersAreSafe`, `EndsStay` | `WritesMembersOnly`, `OnlyEndRemovalsOpenEnds`, action properties |
| `SortedMapProofs` | `TreeStaysSound` | `TreeSpec => []TreeIsSound`: links, order, iteration, cached ends and `find()` |
| | `TreeIsSortedSequence` | `TreeSpec => SortedByKey`: `BinarySearchTree` implements `SortedSequence` |
| | `MapStaysSound` | `Spec => []MapIsSound` |
| | `MapIsFunction` | `Spec => IsOrderedMap`: `SortedMap` implements `OrderedMap` |
| `HeapProofs` | `TypeCorrect`, `HeapIsKept` | `TypeOK` and `QueueIsHeap` hold always |
| | `QueueIsPriorityBag` | `IsPriorityBag`: the queue implements `PriorityBag` |
| | `SortsAnyInput` | `Sort!Spec => []Sort!SortsItsInput` |
| `PathnameProofs` | `PathsAreRight` | `Spec => [](PathMeansText /\ RelativeToIsUndone /\ NormalForm)` |
| `LibraryProofs` | `StreamBehaves` | `MCSpec => []BehavesLikeAFile`: for all texts, offsets and bounds; overruns only past what memory has room for |
| | `MatchesAreRight` | `MCSpec => []MatchesAsDefined`: for all strings and patterns |
| | `ViewsAreRight` | `MCSpec => []SplitsAsPromised`: for all texts, any number of views, and any of them as outputs |
| | `TreeIsRight`, `TreeKeepsOrder`, `MapIsRight`, `MapKeepsPromises` | `MCSpec` implies `[]TreeIsSound`, `SortedByKey`, `[]MapIsSound`, `IsOrderedMap`: for all nodes, keys and values |
| | `HelpIsWrapped` | `MCSpec => []LinesAreWrapped`: for all texts, widths and indentations |
| | `PathsMeanTheirText`, `RelativePathsAreUndone`, `PathsAreNormal` | `MCSpec` implies `[]PathMeansText`, `[]RelativeToIsUndone`, `[]NormalForm`: for all strings and any number of pathnames |
| | `CreatorsAreIndependent` | `MCSpec => []CreatorsSucceed`: for any number of programs, paths, files and removals |
| `ContainersProofs` | `CountsAreExact`, `NothingDangles`, `ListsAreRight`, `OutsidersAreSafe`, `HeapIsKept`, `QueueIsPriorityBag`, `SortsAnyInput` | `MCSpec` implies each safety property of the run `containers` |

*Assumptions.* Array variables are finitely many (their owners are counted), the sets of pointers are disjoint, bounds are natural numbers,
and the token for "no object" is not a sequence of elements. For strings also: the literal is not empty and not longer than the bound, and its buffer and that of the
empty string are two addresses that the heap never returns. The theorems of the other modules name their hypotheses:
`RefObjectAssumption` (NULL is no object, objects and refs are different and finitely many), `ElementAssumption`
(NULL is no element), `QueueConstants` and `SortConstants` (values are integers, as is only needed to compare them, and the array that is sorted is one of values).
`LibraryProofs` needs of its constants what `MCLibrary` assumes (`TreeAssumption`, `MapAssumption`: nodes are finitely many, keys are integers, NULL is neither; `StreamAssumption`, `MatchAssumption`, `ViewAssumption`, `DirectoryAssumption`, `WrapAssumption`, `PathAssumption`: texts, patterns and paths are sequences,
numbers are numbers, NULL is no view, the separator is not the dot).
`PathnameAssumption` also says that `MaxLevels` is not 0 and that `MaxLevels + MaxLevels` and `MaxLevels + MaxText` are below `UINT_MAX`: no operation on objects within the bounds reaches `UINT_MAX` levels,
where a relative pathname would turn into an absolute one (section 4).
The list, queue and sort bounds (`MaxLength`) are arbitrary; `RefObject`'s bound on nested calls is too. The theorems about the queue need no fairness: their behaviours are those of `Init /\ [][Next]_queueVars`.

*The run itself.* `ContainersProofs` states the theorems about the formulas that the run `containers` checks. A behaviour of `MCContainers` is one of a single component
(`OneComponent`), and under the mapping of its variables one of that component's specification (`RefBehaviour`, `ListBehaviour`, ...); the component's own theorems, taken by INSTANCE under the same mapping, give the rest. The
references have no module of theorems of their own: their invariant is proved there.

*Arrays.* None of the invariants is inductive alone: to know that a count is right after a release, one needs to know that the
buffer's owners are those who point at it, that a locked buffer has one owner, and that the static buffer is
never counted. `IInv` is the conjunction of `TypeOK`, `RefsCountOwners`, `LockIsOwn`, `FitsCapacity` and `EmptyArrayIntact`. The module proves what each private function
(`AddRef`, `AllocBuffer`, `Release`, `ReplaceBuffer`, `Reallocate`, `WriteInPlace`) does to `IInv`, once; each public operation is then
a case that cites them. Sets of owners are counted with the library's `FiniteSetTheorems`, lengths by
lemmas on `Prefix`, `Rest` and their concatenations. `OperationsKeepTheirPromises` adds to `IInv` that no array is longer than
the bound (`VInv`); what is common to its cases is the lemma `Turning`: a step that preserves `IInv`, makes the contents of `h` the sequence `c` and leaves
the others alone (`Turns(h, c)`) is what `ArrayValues` calls `Becomes(h, c)`. What remains for each operation is an equality of sequences,
element by element.

*Strings.* Without the NULs and without the literal's buffer, the heap of `CowString` is one of `CowArray` (`Buffers`). `CowStringProofs` takes `CowArrayProofs` by INSTANCE under that mapping; `ArrayAssumptions` shows that
the assumptions of arrays hold of strings. Each private function of a string is shown to be that of an array under the mapping (`AllocIsArrays`, `ReplaceIsArrays`), so that what it does to counts and contents is cited, not
proved again; what it does to the NULs is proved beside it (`ReallocateGives`, `ShareGives`, ...). What arrays do not do has lemmas of its own: a locked string may be destroyed (`LosingLockedBuffer`, `DestroyGoes`), unlocked
to another length, or hold the literal. The inductive invariant is `SInv`, the one of arrays under the mapping and what the mapping leaves out (`Sound`: the static buffers). Each operation is a case that ends in `Changes(h)`: what it makes of
`h`, that it keeps `SInv`, and which NULs it may take. That a write in place never reaches a static buffer follows from `SInv`: the empty string counts as shared and the literal as locked, which every operation tests or asserts before it writes, and the lemmas `...Spares` say so of each operation.

*Reference counts.* `release()` and the assignment of a ref are not atomic: a destructor runs in between and may come back. `IInv` (in `ContainersProofs`, of `Ref`) therefore counts, beside refs and
loose pointers, the calls on the stack that hold a reference (a `release` that is about to begin, a `store` that is about to write), and says that
no two calls on the stack destroy the same object or store to the same ref. That an object's members are released one by one while it dies is what makes the count of holders change exactly with the
stack. `NoDanglingRef` follows: a usable ref is a holder, and a count above zero is that of a living object.

*Lists.* `LinkedListProofs`: `LinksFollowList` with `TypeOK` is inductive; the work is the positions in `list` before and after each operation. The container needs two more facts: no element is in the list
twice, and the wrappers allocated are the members. `empty()` deletes what it reaches from the first element; that this is the whole list is proved from `Chain`, the least set that is closed under `next`.

*Search tree and map.* The proof numbers the nodes: node `m` is the `at[m]`-th in order, and its subtree has the nodes from `lo[m]` to `hi[m]`. `Shape` says of each node alone how its three pointers follow from the numbers (no left
child if `at[m] = lo[m]`, else one whose interval ends before `at[m]`, and so on). The inductive invariant `TreeInv` says that there are numbers with that shape in which keys do not descend, and that the cached ends have the first and the last. Insertion and removal
renumber (`With`, `Without`): a spliced-out node closes the gap, a raised successor takes the place and number of the node (`Spliced`, `Raised`), and the six cases of `remove()` are these two. `TypeOK` and `LinksAgree` alone would not do: they hold of a cycle beside the tree.
The loops and recursions of the source and of the properties (`Find`, `Search`, `LeftEnd`, `NextNode`, `InOrder`) are functions defined by themselves; `WalkExists` shows once that such a function exists when its argument comes closer to some end, and `WalkInduction` carries a fact along it. `InOrderIs`
proves that the recursive walk visits the nodes in the order of their numbers, from which order, reachability and the refinements follow. The map adds `MapInv`: keys differ, so that the numbers order elements as their keys; the kept search result is what `Search` would return now.
The theorems of `LibraryProofs` cite these under the mapping of `MCLibrary`.

*Heap.* The invariants of the loops are about a heap with one flaw: `push_into_heap()` has a heap but for the pair of the element that rises and its parent,
`pop_from_heap()` one but for the children of the hole, and the parent of the hole precedes them. They had to be found for the code's arithmetic, in which the root is its own parent and the children of `i` are `2i` and `2i + 1`.
The multiset of the elements is that of the positions of each value, and an exchange is a bijection between them. The sort adds that what is behind `heap_size` is in order and not less than what is before it.

*Streams.* `StreamInv`: the string is, byte by byte, what `FileByte` says of the history of writes, it is no longer than memory has room for, and `pos` is a `size_t`. A write is proved in the two parts of the code,
the fill up to `pos` and the replacement (`FilledFacts`, `ReplacedFacts`); that it throws, or overruns a buffer, are cases of their own: for no length up to twice what memory has room for does the size of a buffer wrap around (`StreamAssumption`), so that a gap or a text that fits is never written past a buffer's end.

*Patterns.* The recursive definition is one of pairs of positions. That it has a solution is not assumed: the least set of pairs that is closed under the rules exists, the function that says what is in
it satisfies the recursion, and every solution is such a set (`InstancesExist`, `InstancesAre`). The invariant `InSegment` says that the input is an instance of the pattern if and only if what is left from
some place on, not before `saved_input`, is one of what is left from `saved_pattern` on. The loop may forget earlier asterisks because what an asterisk can begin with is upward closed (`AsteriskExtends`):
if the rest fits at some place, an earlier asterisk loses nothing by having stopped early.

*Views.* Everything is said with `Part(s, a, n)`, the `n` elements after the first `a`, and its rules: a part of a part is a part (`PartOfPart`), adjacent parts join (`PartsJoin`). The invariant says that
each view is a part of the text and that the latest call gave what it promised. Aliased outputs are one more case of `SplitKeeps`: the slice is written first, so that it keeps what it was given unless the same view takes the rest.
The ends that `trim()` looks for exist because a set of numbers has a least one.

*Help texts.* The invariant says what the lines printed so far are: adjacent pieces of the text, from its start to the current position, with nothing but spaces and newlines between two of them. The work is in one step: where the
last space before the end of the line is, if there is one, where the run of spaces ends, and where the word that does not fit ends; each exists as the least or greatest of a set of positions, and the line that it ends cannot take the next word.

*Pathnames.* `Denotes(dir, p)` is where the object leads from `dir`, `Walk(dir, comps)` where components lead one at a time. Both go up, and the directory may be exhausted before the levels are; `GoneUp(dir, n)` (all but the last `n`) has
the rules for this: it adds up (`UpTwice`), stays within the second part of a concatenation or leaves it (`UpWithin`, `UpBeyond`). From these follows what an object that has gone up (`GoesUp`) or been joined to (`JoinsPaths`, with the
overwriting of array elements and its remainder, `JoinPathIs`) denotes. The parser is related to `Split` by an invariant over the characters read: `ReadTo` describes the piece that is open, where it begins and where its suffix does;
`Leads` says that the object so far denotes what the closed pieces walk to. A piece that is closed is a name, nothing, or a step up (`CloseIs`), just as `Split` has it. `PathInv` says of each object that its components are names with
their suffixes, that its levels are bounded, and that it denotes what its text walks to, from *every* directory. `relative_to()` does not change the suffixes of the components, so that joining gives back the very object (`RelativeToIs`).
For `NormalForm`, `Cuts` says where in the text of `str()` each piece lies, from which `Split` finds the pieces that were joined (`StrSpells`); the parser's lemma then says that the object parsed denotes
what these walk to, and two objects that lead to the same places from every directory are the same (`SameObject`).

*Directories.* `ProgramInv` says of each program, whatever the others do: its `k`-th nested call is about the directory `k - 1` levels above the path, at a place in the code that fits the call above it; no
file lies above a directory in the way; and each answer is explained by the file system now or by a removal since the call began. Each step of one program is shown to keep its own (`MkdirKeeps`, `StatKeeps`) and everyone else's (`ProgramStays`).

*Induction.* The library's induction theorems have an operator as a parameter and cannot be used, but that a set of natural numbers that is not empty has a least element can be (`LeastNatural`, from the well-foundedness of `<`). The loops of patterns and views
are argued that way.

**Model-checked only.**

- `DeliversAsTyped`, `RefusesExactlyMistakes`, `RequiredAreServed` (`CommandLineMeaning`): the meaning of a line is a recursive definition over its words, with no invariant of the parser's
  tables found that relates the two.
- `FillsTheBuffer`, `PiecesAreIndependent` (`Formatting`) and `AnswersAreRight` (`Algorithms`): these compare two computations over the same data (a recursion that goes down and comes up, recursive reference definitions), which is
  induction over data.
- `EveryParseEnds` and `CallsReturn`: liveness, and ENABLED in the fairness it needs.

## 6. Not modelled

- Pure input/output and wrappers (`memory`, `atomic`, exceptions, `io_streams.cc`, which passes its calls on to the C library); the red-black tree, a stub.
- Of the command line: the wording of help screens and messages, categories, and a second call of `parse()`, which finds the tables of the first one changed.
- Of formatting: the length modifiers as such (one integer width, `Bytes`), the case of hexadecimal digits, wide characters.
- Of views and strings: comparisons, `rfind()`, conversions between `string` and `wstring`, locales.
- Of the algorithms: pseudorandom numbers, `tag_to_string()`, `compare_strings()`.
- Copying a `set`, `map` or list container (implicit and shallow); element constructors that throw; arguments that point into the object they are passed to, except the
  runs named above.
- A destructor that uses the very `ref` that a caller of its own has called `attach()` on: it leads to the object that is being destroyed (`RefObject`).

## 7. Plan

The components that carry logic are modelled, and most safety properties are proved. What is left is proof: `Formatting`, whose recursion is a stack; `Algorithms`; then `CommandLineMeaning`.
