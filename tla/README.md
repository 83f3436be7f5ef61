# ETide, specified

TLA+ models of the core of ETide (`src/src/`), a text editor that edits a
document as a *piece tree*: a persistent red-black tree of references into
append-only buffers. The models are translated from the C++ sources; TLC checks
them on small instances, and TLAPS proves the invariants that carry the most
weight for every instance.

Contents: the inventory of the system, the modules and how they correspond to
the code, the runs and their bounds, the fairness, the proofs, what is left out,
the disagreements between code and documentation, and the plan.

## 1. Inventory

| Part (`src/src/...`) | State | Operations | Hard behaviour |
|---|---|---|---|
| `piece_tree/` builder | list of accepted texts, four arenas | `tree_builder_start`, `_accept`, `_finish`, `_empty` | failure halfway leaves arenas to nobody |
| `piece_tree/` `Tree` | buffers, `m_root`, `m_meta`, undo and redo stacks, `m_end_last_insert` | `insert`, `remove`, `commit_head`, `try_undo`, `try_redo`, `head`, `snap_to` | splitting and coalescing pieces; history in any order; roots that are retained while a buffer grows |
| `piece_tree/` buffers | text and line starts per buffer | `build_piece`, `calculate_line_starts`, cursor and offset conversions | line feeds at the edges of ranges |
| `piece_tree/` red-black tree | shared, reference counted nodes | `insert`, `remove`, `dup`, destruction, `find_node`, `line_offset`, `line_at_offset` | ownership of every node in every rotation; sharing between roots |
| `piece_tree/` node storage | lock-free list of free nodes, mutex over the arena | `allocate_node`, `dec_node_ref` | concurrent exchanges, A-B-A |
| `piece_tree/` queries | none | `line_at`, `get_line_range*`, `get_line_content*`, `at` | CR and LF in different pieces |
| `piece_tree/` snapshots | root, metadata, view of the buffers | constructors, copies, assignment, destruction | a view of buffers that go on growing; use after `release_tree` |
| `piece_tree/` shared arenas | two atomic counters | `take_buffer_ref`, `take_immutable_buffer_ref`, `dec_buffer_ref`, `release_tree` | concurrent last references |
| `piece_tree/` walkers | a stack of nodes, an offset | `seek`, `next`, `exhausted`, `remaining`, both directions | seams of pieces, ends of the document |
| `thread/` | a mutex, a condition, count and generation | `barrier_create`, `barrier_wait` | spurious wake-ups, slow sleepers, wrap of the generation |
| `containers/` `Pool` | segments of entries, free list, generation | `emplace`, `erase`, `clear`, lookup by handle | stale handles, wrap, failing constructors |
| `containers/` `DynamicArray` | segments | `emplace_back`, `at`, `clear` | index arithmetic |
| `arena/` | chained blocks with position and commit limit | `allocate`, `push`, `pop_to`, `pop`, `begin`, `end`, `clear`, `release`, scratch arenas | chaining, reuse of dirty memory, failing commit |
| `string/`, `core/` | none | lists of strings, virtual memory, calendar, bits | a size guard; conversion of local time |
| `program.cpp` | caret, goal column, dirty flag, lines and spans of the last frame | text input, keys, one rebuild per frame, start and end of the application | lines of the last frame used on an edited document |
| `ui/` | SDL GPU and ImGui objects | `init`, `begin_frame`, `end_frame`, `shutdown` | partial initialisation |
| `libs/`, `languages/` | | vendored libraries, generated grammars | not part of this work |

How they interact: the editor owns one `Tree` and calls it once per key, always
from the main thread. `Tree` allocates text, line starts, history entries and
nodes from four arenas. Roots (`RedBlackTree` values) share nodes; snapshots
share buffers and arenas with the tree and may be dropped by any thread, so the
reference counters, and the free list of nodes, are the concurrent part. The
renderer walks the tree once per dirty frame. `Pool`, `DynamicArray` and
`Barrier` are library parts that the program does not use yet.

The properties that make each part correct are the ones named in section 3.
`PROJECT.json` lists the hazards line by line.

## 2. Modules

| Module | Models | State and actions |
|---|---|---|
| `TextDocument` | the promise of `Tree` | a timeline of texts and a position in it; no pieces at all |
| `CharBuffers` | buffers, line starts, cursors | operators: `Extend` is the growth in `build_piece`, `cursor_from_offset`, `lf_count_in_range` ... |
| `PieceRoots` | roots as sequences of pieces | operators: `internal_insert` with `Coalesce` and `SplitAround`, `internal_remove` with its loop, `find_node`, `TextOf` |
| `PieceTree` | `Tree` and builder | one action per public operation; each does the history handling, the edit and `set_root` that the method does |
| `LineQueries`, `TreeQueries` | queries by line | operators, and their properties over all reachable trees |
| `Snapshots` | both kinds of snapshot beside a tree | `PieceTree`'s steps plus creation, copy, assignment, release, `release_tree` |
| `SharedBuffers` | the two counters | `dec_buffer_ref` is two steps, everything else may happen in between |
| `PersistentRoots` | the promise of `RedBlackTree` | sequences of pieces in named places |
| `RedBlackTree` | nodes, colours, reference counts | functions take and give back an owned node with the whole store; one action per `insert`, `remove`, `dup`, destruction |
| `TreeWalkers` | both walkers over `RedBlackTree` | `seek`, `next`, `reverse_next`, `close` |
| `NodePool` | `allocate_node`, `dec_node_ref` on the free list | one action per atomic access of a thread |
| `Barrier` | `barrier_wait` | a call up to its sleep, a spurious wake-up, a look at the generation |
| `Pool` | `Pool<T>` and `Handle<T>` | one action per locked operation, `emplace_throws` for the constructor that throws |
| `Arena` | `Arena::*` | `push` and `push_fails`, `begin`, `end`, `pop`, `clear`, `release`, `allocate` |
| `Editor` | caret, goal column, dirty flag and render buffer of `program.cpp` | one action per key of `editor_handle_input`, in the order in which a frame looks at them, and `draw_code_buffer` |
| `Application` | `SDL_AppInit`, `SDL_AppIterate`, `SDL_AppQuit` with `UI::init` and `UI::shutdown` | one action per acquisition, which may fail, the editor's steps, one action per release |
| `MC...` | small values for the constants | |
| `...Proofs` | theorems | section 5 |

Composition: `PieceTree` EXTENDS `PieceRoots` EXTENDS `CharBuffers`, and
implements `TextDocument` by a refinement mapping (`ImplementsDocument`).
`Snapshots` and `TreeQueries` extend `PieceTree`. `RedBlackTree` implements
`PersistentRoots` (`ImplementsValues`), whose insertion and removal are the ones
of `PieceRoots`: so `PieceTree` may take a root to be a sequence of pieces, and
the two halves meet. `TreeWalkers` extends `RedBlackTree`. From above,
`Application` EXTENDS `Editor` EXTENDS `TextDocument`: the editor is checked on
the document that the piece tree is shown to implement, so that neither run
pays for the other's state.

Definitions have the names of the source where TLA+ allows. Operators whose
comment begins with `Fault:` are deliberate bugs, each written before the
operator it would replace: for every property of a passing run one of them, put
in place of the original, makes TLC report that very property.

Abstractions worth knowing:

- Texts are sequences of model values, among them the line feed (and the
  carriage return for the queries and the editor). Nothing depends on other
  characters.
- A `Tree` operation is one action: a tree has no lock and belongs to one thread.
- Nothing in the program catches `bad_alloc`, so an allocation that fails ends
  it; the tree modules leave such failures out, `NodePool`, `Pool`, `Arena` and
  `Application`, where the code handles them, do not.
- `m_last_insert` is written but never read and is not modelled.
- `RedBlackTree` gives no address out twice: what `allocate_node` takes from the
  free list is a new place in `nodes`, and a freed node stays behind as `Free`,
  so that a use of it would be an error. (That addresses are recycled safely is
  the subject of `NodePool`.) TLC compares states by a `VIEW` that leaves the
  addresses out: the nodes in the order in which the roots reach them. The
  recursion of `delete_node` and `delete_min_node` is written as the calls on
  the way down and what each does on the way back. Offsets of insertions and removals are those of
  piece boundaries, because `internal_insert` and `internal_remove` only call
  it with those.
- In `TreeWalkers` the tree is edited only while nobody walks. A walker retains
  its root, and `trees_and_walkers` shows that a retained value does not change.
- In `Arena` a cell is as large as a block header, and clients write to all they
  are given, which is the worst case for a later push that asks for zeros.
  Reserving fails when `MaxBlocks` are in use. `pop` takes what was pushed in
  the current block (section 6).
- In `Pool` and `SharedBuffers` the operations of the operating system
  (reader-writer lock, release of an arena) are steps.
- In `Editor` a frame may bring several keys, each a step; between them the
  caret moves by the lines of the frame before. Widths are `Wide` values, so
  that the goal column wraps as the unsigned difference in the code does. Which
  grammar colours a token is left out; the spans a parser may return are all
  sorted lists that do not overlap (`SpanLists`).
- In `Application` each resource is a name in `held`. Whether a parser is made
  depends on the file, and is a choice.

## 3. Runs

| Run | Question | Bounds and why they suffice |
|---|---|---|
| `tree_structure` | are the roots well formed, is the tree the plain text, do the line queries match it? | all texts that unrecorded edits make of two builder buffers, between which `\r\n` may be split, and two characters appended: split at a line feed, coalescing, pieces of three buffers. History is the next run's; the theorems cover the roots it retains |
| `tree_history` | are the two stacks one timeline? | an empty document, two insertions, two undo entries with two stored offsets, one root that is kept and snapped back to: undo, redo, edit in the past |
| `snapshots` | do snapshots keep their text? | two that are copied and assigned over each other, beside edits that coalesce and split, and after `release_tree`. More snapshots are covered by the theorems |
| `shared_buffers` | are arenas released once, in time, in the end? | a tree and three snapshots, every order |
| `trees_and_walkers` | no leak, no early free, balanced, the sequence it stands for, a shared root left alone; is walking the same as looking up? | all pairs of trees with nine characters together, of pieces of one and two characters: the coverage TLC reports shows every branch of every node function taken, rotations and deletions included, but for one: that `move_red_right_owned` borrows from the left takes ten pieces in a tree. For that one, and for larger trees, there are the theorems of `RedBlackTreeProofs`. Both walkers, from every offset |
| `node_pool` | is the free list sound under A-B-A, does every call end? | two threads, two nodes, seven calls: without the tag in the head, they are enough to lose a node |
| `barrier` | does the barrier hold back and let go? | three threads, four rounds, a generation of one bit |
| `pool_handles` | do handles mean their object? | two segments of two and four slots, seven objects, a generation that comes round after three |
| `arena` | do allocations stay apart, is zeroed memory zero, and nothing else cleared? | blocks of four cells, chained or not, allocations that fill, overflow and outsize a block, two nested Temps |
| `application` | does the caret stay in the document while it moves by old lines, is what is drawn the document, does every way through start-up and shutdown release all? | two files with `\r\n` and with an empty line between longer ones, at most four characters, two keys in a frame, one undo, a failure of every acquisition and of drawing |
| `snapshot_of_root`, `suppressed_then_recorded` | the disagreements of section 6 | the smallest instance that shows each |

What the properties of `application` mean for the program: `CursorInDocument`
is why `Tree::insert` never refuses what is typed; `FrameShowsDocument` is why
the dirty flag suffices to keep text, lines and spans together;
`LineSpansExact` is about two cursors over the spans that only move forward;
`VerticalMovesReturn` and `LineMovesHitLine` are about the goal column and about
line endings of two characters; `NothingLosesItsSupport` and `AllReleased` are
about the order of shutdown after a start that failed anywhere.

Deadlock is checked except where a bound or the end of the system's life stops
it; the `.cfg` says so. `SYMMETRY` is used in safety runs only, and the
snapshots it exchanges appear in no property by name.

## 4. Fairness

Three runs check liveness.

- `SharedBuffers`: weak fairness of the second decrement. `dec_buffer_ref` takes
  no lock, so a holder that made the first decrement comes to the second. No
  holder is forced to let go: `StorageReleasedInTheEnd` says what follows once
  all have.
- `Barrier`: weak fairness of a woken thread looking at the generation, as
  nobody sleeps with the mutex. No thread is assumed to call `barrier_wait`.
- `NodePool`: threads run; the mutex goes to whoever keeps asking; and an
  exchange that finds both words equal again and again succeeds once, which is
  what `compare_exchange_weak` allows to assume. With finitely many calls of
  others (`MaxCalls`) the lock-free loops then end; without that bound a single
  thread could starve, as in every lock-free list.

The editor has none: keys come from a user, and SDL decides when to draw.

## 5. Proofs

All theorems are checked by TLAPS for every value of the constants that
satisfies the named assumptions of the modules. These are: finite sets of
threads and holders, bounds that are numbers, texts that are sequences of
characters, a carriage return that is not a line feed, and what the code itself
presupposes of its parameters: in `Arena` sizes that fit the unsigned type, a
commit size that holds more than a header, alignments that divide a page
(callers ask for the alignment of a type, for 8 or for 1); in `NodePool` a null
that is no thread. `TextDocument` needs nothing more.

Each module proves one inductive invariant and reads the properties off it.
Induction over data is done by least counterexamples or by closed forms, since
the induction theorems of the library cannot be applied here. Sums, ranks and
the links of a list are therefore recursive *functions* in the models, whose
existence is proved where it is needed.

### `PieceTreeProofs`

- `LineStartsStayExact`, `PiecesStayInBuffers`, `PiecesTileDocuments` and
  `RetainedTextsStayStable`. The invariant is `IInv`: the buffers are well
  formed, every root that is reachable (current, undo, redo, retained by
  clients) is *good*, and `m_meta` is that of the current root. A root is good if
  its pieces lie side by side and each names two cursors of a buffer whose
  offsets are as far apart as the piece is long. `RootsTiled` alone is not
  inductive: a split computes lengths from cursors, so lengths and cursors have
  to agree before it.
- The argument rests on two facts: converting an offset to a cursor and back
  gives the offset (`CursorRoundTrip`), and appending to a buffer changes
  neither the text nor the line starts that were there (the `Extend` lemmas). The
  first makes pieces that are split or put back good, the second keeps all other
  roots good when the modification buffer grows.
- `HistoryOffsetsStayInBounds`: the offset stored with an undo or redo entry lies
  in the document of that entry, in whatever order undo, redo, commits and edits
  come. It is inductive beside `IInv`.
- `MetadataStaysExact` and `TreeImplementsDocument` need the *texts* of roots.
  A root *reads* a text if the piece at each offset reads the part of the text
  from there on (`Reads`); this determines the text, and is what insertion and
  removal are followed through: a piece that is extended, the three pieces of a
  split, each round of the removal loop. The cached length and line feeds of a
  root are then those of its text (`TextsInv`).
- `TreeImplementsDocument` is the refinement of `TextDocument`. The two stacks
  and the current root are read as one line of texts; a recorded edit cuts the
  line and extends it, undo and redo move along it, `commit_head` and `snap_to`
  are edits that are recorded, and every other step leaves the document alone.
- `TreeTyped`: with its text known, every root is one of the type `IsRoot`, at
  which `TypesInv` adds the history and the metadata.
- `LineQueriesStayExact`: `line_at` counts the line feeds in front of an offset,
  because the line feeds in front of a piece are the sum over the pieces before
  it and those inside it are the ones between two cursors; a line starts behind
  its line feed, which lies in exactly one piece, the one the descent stops at;
  the three ranges and the two contents of a line are those of the plain text
  even if `\r` and `\n` come from different pieces.
- `SnapshotPiecesStayInView` and `SnapshotTextsStayStable`, for any number of
  snapshots. The invariant `SnapIInv` says of a reference snapshot that its root
  is good *in the view it froze* (`SnapOK`), the view being a prefix of a buffer
  that goes on growing; the lemma `ViewKept` says that growth does not touch a
  prefix. It needs nothing of the tree's metadata, so it also holds after
  `release_tree`, when the tree's own invariant is given up. `SnapshotsTyped`
  (`SnapTypesInv`) adds the types, of snapshots that outlive the tree as well.

### `RedBlackTreeProofs`

For all pieces, places and lengths of trees, so for trees of any height.
`TreesStayFine` is the invariant (`TreeInv`): the nodes are a *heap* owned by the
places (`Heap`), and each place holds the root of a black, left-leaning tree.
The properties depend on each other (a rotation finds the children it looks at
because the tree is balanced, a deletion finds its piece because the lengths are
exact, and nodes may be dropped because they are counted), and so they are
proved together.

- *Counting.* `Heap(nodes, own)`: every node in use has its metadata, children
  that are older and in use, and a reference count that is the number of its
  parents plus `own`, the references from outside of the nodes. Between
  operations `own` counts the places; inside of an operation it also counts the
  nodes the function owns, so each lemma says what one function consumes and
  what it gives. A drop that frees a node goes on with the node's own two
  references; `Weight` falls by one with each, so it comes to its end with
  everything counted (`DropRef`).
- *Trees as values.* `Tree(nodes, a)` is the tree below an address, with its
  height, its shape and its sequence of pieces, and without its addresses. No
  operation changes a node that stays in use (`Same`), so no other tree changes,
  whatever is shared. `Yields(ns, own, o, t)` says of an owned node `o` that it is
  the root of the tree `t` in a heap that comes from `ns`. The node functions are
  followed through `Yields` to functions on trees (`FixUpYields`,
  `MoveLYields`, ...), and what rebalancing does is argued about those.
- *Shape.* On the way down a deletion keeps a red node at hand where it goes
  (`DeleteReady`), so that what comes back is as high as it was, unless the whole
  tree had none to spare (`Shrunk`). An insertion gives back the same height,
  with a second red node below a red root at worst (`Grown`), and the black node
  above repairs that.
- *Content.* Rotations keep the sequence of pieces because joining is
  associative (`JoinedAssociative`); insertion and removal in a subtree are the
  ones in the sequence (`InsertLeft` ... `RemoveHere`).

From it follow `NodesTyped`, `ReferencesStayCounted`, `TreesStayBalanced` and the
refinement `TreesImplementValues`, which is what lets `PieceTree` take a root to
be a sequence of pieces. `DescentsStayExact` needs sums over the pieces of a tree
besides: the line feeds of a tree are those of its left subtree, its own piece and
its right subtree (`Adds`, `JoinedFeeds`), so each of the three descents goes into
the part that holds what it looks for.

### `SharedBuffersProofs`

`CountersAlwaysExact` (each counter counts the holders that have yet to
decrement it, and an arena has been released once exactly if that set is empty)
is inductive and gives `StorageOutlivesReaders` and `StorageReleasedOnce`.

### `NodePoolProofs`

`NodesStayInOnePlace` and `PoolTyped`, for any threads, and any nodes and calls.
The invariant `PoolInv` gives the free list as a sequence without repetition,
apart from the nodes in use and those in somebody's hand, which differ from each
other. What it says of a thread that has read the head and is about to exchange
it is conditional: *if the tag is still the one it read*, then the head is the
one it read, and so is the link behind it. Every exchange moves the tag on, so
the condition makes it stable; the exchange compares the tag, so it suffices.
That the tag never comes round is the bound on calls, counted by the calls that
are under way.

### `BarrierProofs`

`RoundsStayInStep` says that all threads have completed equally many rounds,
where a call that is still being left counts as completed. It is inductive
together with `BarrierTypes` and with: a call of an earlier round is exactly one
generation behind. From it follow `NobodyEverPassesEarly` and
`CountIsOfTheOpenRound`, for any number of threads and any generation of at least
one bit.

### `PoolProofs`

`PoolTypesKept`, `FreeListStaysComplete` and `HandlesKeepTheirMeaning`, for any
size of the first segment, number of segments and generations.

- An index and the entry it stands for determine each other, from the powers of
  two that the shifts compute: each segment begins where those before it end.
- The free list is a sequence without repetition that holds exactly the entries
  without an object; adding a segment, emplacing, a constructor that throws,
  erasing and clearing each take from or put on its front.
- An object that lives is in the entry its handle names, and an entry in use
  holds the youngest of the objects that were ever given its index. The
  generations of the last objects count down from the latest one and come round
  behind 1; so an older handle of the same index has another generation, unless
  as many objects were made in between as there are generations.

### `ArenaProofs`

`ArenaTyped`, `AllocationsStayKept`, `ZeroedPushesAreClean` and
`PopsNeverRaisePositions`, for any sizes of pages, blocks and pushes, and
alignments that divide a page. The invariant `ArenaInv` stacks the blocks, and says of every
position somebody may pop to, be it the one of a Temp or one that `pop` computes,
that some block *holds* it: it lies between the header and the position of that
block. Allocations are in the order of their pushes, each in the used part of a
block, and the position of a Temp parts the older from the younger ones; so a
`pop_to` leaves whole allocations on either side. For zeros it says that only
cells below a commit limit are dirty, so that what `push` does not clear is
clean. Every commit limit is a number of whole pages (`WholePages`), so it is
aligned as any client asks for, and an aligned position is never above it
(`AlignedBelowLimit`): the unsigned size for `memset` does not underflow, and
nothing beyond the allocation is cleared (`ZeroedIsWithin`); section 6 says what
an alignment above a page would do. `PopsNeverRaisePositions` is the assertion in `pop_to`
(`arena.cpp:123`), under the condition on `pop` that section 6 is about.

### `ApplicationProofs`

For files and insertions over any alphabet, any lengths and any number of keys
in a frame:

- `CaretStaysInDocument`. The invariant `EditorInv` adds that the history is
  typed, that every text but the current one has an offset stored with it, and
  that the render buffer has as many lines as its own text, *whatever the
  document has become since*. That is enough: a line that is looked up is below
  `line_count`, so it begins and ends in the old text (`LineBounds`), and every
  move limits what it gets.
- `FramesShowTheDocument`, with the addition that there are no lines before the
  first frame (`DrawnInv`): while the file is being read nothing is dirty yet.
- `VerticalMovesComeBack`, from `OnLine`: an offset between the first and the
  last of a line is on that line. `LineMovesKeepToLines` adds where on the line:
  the first offset of a line and all that `LineBreak` allows keep out of the
  middle of `\r\n` (`Undivided`).
- `SpansOfLines`: the two cursors over the spans, one behind what has ended
  before a line and one at what begins in it, are cuts of the sorted list, given
  in closed form; so every line gets the spans that reach into it and no others.
- `ApplicationTyped`: the goal column stays below the modulus of its
  subtraction, and a frame handles its keys in their order (`Ordered`).
- `ResourcesKeepTheirSupport` and `AllIsReleased`, from `LifeInv`: what each
  stage of start-up and shutdown holds, that each thing held has below it what it
  rests on, and who owns the arenas of the builder.

### What stays with TLC

- `WalkTypeOK` and `WalkersMatchDescents`. That a walker stays in the document
  rests on its climb, which takes a node for the left or the right child of its
  parent by its address. So it needs that no tree holds an address twice, which
  is true but says more than `TreeInv`: nodes are counted there, and trees are
  values without addresses. `TreeWalkers` is also written with recursive
  operators, which TLAPS does not reason about. What of `WalkTypeOK` is about the
  nodes is `NodesTyped`, and what a descent finds is `DescentsStayExact`.
- Liveness: `StorageReleasedInTheEnd`, `EveryoneLeaves`, `CallsReturn`.

## 6. Where the code and its documentation disagree

1. **A snapshot made for a given root has the metadata of another one**
   (`snapshot_of_root`). `ReferenceSnapshot(tree, root)` and
   `OwningSnapshot(arena, tree, root)` keep the root but copy `tree->m_meta`
   (`piece_tree.cpp:1225`, `1153`). If the retained root is shorter than the
   current one, `at()` passes its bounds check and runs into
   `SDL_assert(position.node != 0)` (`574`). The manual promises that both types
   "preserve the root present when they are created" (`piece_tree.md:377`).
   The other runs of `Snapshots` take snapshots with `ref_snap` and
   `owning_snap`, where root and metadata match.
2. **A recorded edit that leaves no undo entry** (`suppressed_then_recorded`).
   `insert` shares the undo boundary of the insertion it continues, but
   `m_end_last_insert` is also set by an insertion that suppressed history, which
   has no boundary (`piece_tree.cpp:913`).

Observations without a run, because nothing in the repository says otherwise:

- `Arena::pop` subtracts bytes pushed from a position that also counts unused
  rests and headers of chained blocks (`arena.cpp:130`): across a block it would
  fail the assertion of `pop_to` (`123`). `pop` has no caller.
- An alignment larger than a page, which no caller asks for, could put the aligned
  position above the commit limit. The size that `push` hands to `memset` would
  then underflow (`arena.cpp:56`, `99`). `ArenaAssumption` leaves it out.
- `containers.md` says without reservation that "stale handles do not resolve to
  a later object" (`77`) and that stale handles throw (`126`). The generation of
  a `Pool` wraps, so that holds as long as fewer objects were made in between
  than there are generations, and `HandlesMeanTheirObject` says so.
- `load_document` may return no tree, and `SDL_AppInit` goes on to log its
  length (`program.cpp:801`); `Application` calls that stage `crashed`.
- Typing, removing, undo and redo move the caret without setting the goal
  column, and a move by lines of an older text may wrap it; the next vertical
  move is limited by the length of its line, so the caret stays right.
- A rebuild that finds no memory clears the dirty flag: nothing is drawn until
  the next edit.
- A tree that `tree_builder_finish` cannot make leaves its arenas to nobody
  (`piece_tree.cpp:664`). `AllReleased` makes this one exception, so no property
  is about that leak; `piece_tree.md` says who owns the arenas only for a
  builder that could be finished.

## 7. Not modelled, and the plan

| Part | Why |
|---|---|
| `DynamicArray` | has no user; index arithmetic and growth by segments are those of `Pool` |
| scratch arenas | two thread-local arenas, of which one is picked that is not in conflict, and a Temp, which `Arena` models; the one caller nests nothing |
| selections | append to a list, and nothing calls them |
| `String8`, `String8List`, `core/` | pure functions on bytes, bits and calendar fields, of which the program uses a few; virtual memory is a service that may fail in `Arena`, `Pool` and `Application` |
| allocation failures inside `Tree` | nothing catches `bad_alloc`: the program ends |
| classification of tokens, drawing | tables over the grammars, and output |
| threads, mutexes, conditions | hand their arguments to SDL; they appear as steps of the modules that use them |
| `libs/`, `languages/` | SDL, Dear ImGui, tree-sitter: vendored; grammars: generated |

The last row is nearly all of the repository by size: of some 870 000 lines, the
program's own are about 5 000 (`src/src/`), and it is these that the modules
map. The share of all lines that is mapped is small for this reason and cannot
grow without modelling SDL or generated parse tables, about which this project
has nothing to say.

What would be next: the walkers, with their climb and descent as recursive
functions, and an invariant that the subtrees of a node have no node in common,
carried through every rotation. Beyond that, the calendar conversions of
`core.cpp`, once something calls them.
