# A verification project for libvpd

libvpd keeps the Vital Product Data (VPD) of a machine's devices in an SQLite
file. Collectors (the programs of lsvpd, outside this repository) fill `System`
and `Component` objects and store them through `VpdDbEnv`; readers open the file
through `VpdRetriever` (C++) or `struct vpdretriever` (C) and get the device tree
back. There are no threads in the library. What is concurrent are the
*processes* that share the file: updaters, readers, udev's rule and the
`vpdupdate` that a reader starts.

Line numbers below are those of `src/src/`.

## Inventory

| Part | State | Operations | Interacts with |
|---|---|---|---|
| Update lock, `VpdDbEnv::UpdateLock` (vpddbenv.cpp 45-132) | `lockfd`, the kernel's record lock on `<db>-updatelock` | constructor (non-blocking try, then a blocking wait), destructor | the kernel, other processes; every `VpdDbEnv` |
| Opening a database, `initFromLock`, destructors (148-263) | the file: absent, empty, with its table; the SQLite handle | stat, open or create, `CREATE TABLE`, close | SQLite, the lock |
| Statements (265-507) | the table: one blob per device id | `store`, `remove`, `fetch`, `getKeys`, one autocommit transaction each | SQLite's locks, the codec |
| `VpdRetriever` (vpdretriever.cpp) | an open `VpdDbEnv` | `getComponentTree`, `getComponent`: recursive fetches | statements, codec |
| Default constructor (62-156) | two file times, a child process | stat, stat, fork, exec, waitpid, open | udev's rule, `vpdupdate`, the lock |
| C interface (vpddbenv_c.c, vpdretriever_c.c) | an SQLite handle without a lock | open, `fetch_component`, `fetch_system`, `get_component_tree` | SQLite; the C decoders |
| `DataItem` (dataitem.cpp) | value, labels, preference level, cached packed length, sources | `setValue`, `setAC`, `pack`, `unpack` | `Component`, `System` |
| `Component`, `System` | 37 or 18 single items, lists of items, child ids, child objects | `pack`, `unpack`, the mutators of lists and children, leaves | the statements store what they pack |
| C structures (component_c.c, system_c.c, dataitem_c.c, common.c) | linked lists | four decoders' worth of `unpack_*`, the free functions | the same blobs |
| Helpers (helper_functions.cpp) | none, or a child process | path functions; `spopen`, `spclose`, `execCmd` | the file system, programs |
| Logger, VpdException, Source | trivial | | |

Hard behaviours, and the properties that each part owes:

- **The lock.** A POSIX record lock belongs to a process, disappears with any
  close of the file, and is asked for in two system calls with a third between
  them. Owed: who took it has it until the end; it does not outlive its owner;
  waiters come in; where the lock turns somebody away, what still holds.
- **Opening.** stat, create and `CREATE TABLE` are separate and may be cut by a
  death, a failure or another process. Owed: an open database has its table.
- **Reading a tree** takes as many transactions as there are devices. Owed: the
  tree is one of an instant, or the call fails; no child is left out.
- **Refreshing.** Two file times with a resolution of a second decide whether a
  child is started that needs the lock the parent may hold. Owed: no device
  event is overlooked, except in windows that are named; no circle of waits.
- **The packed form** is written by one encoder and read by four decoders that
  repeat its order by hand; the size is computed by a third function, from
  lengths that are cached in each item. Owed: what is loaded is what was stored;
  nothing is written past the buffer; caches are exact.
- **Merging** the offers of many collectors must not depend on their order.
- **Statements** of processes without the update lock, and of C clients, meet in
  SQLite, which makes them wait in a handler that never gives up. Owed: a call is
  atomic, also when its process dies; it leaves nothing behind; it returns.
- **Ownership.** Components are owned by a tree or by the caller, and raw
  pointers move between them. Owed: nothing is freed twice, nothing points to
  what was freed, and what is lost is known.
- **Programs.** `spopen` forks a process that has every descriptor of its parent.
  Owed: children are reaped, descriptors closed, the output is complete, and
  neither a read nor `spclose` waits for a stranger.
- **Paths** are walked by index, with -1 and NUL as numbers. Owed: no access
  outside the string, and the result that the name promises.

## Modules

| Module | Models |
|---|---|
| `LockService` | what the update lock promises: at most one holder; who is turned away comes in as a guest |
| `UpdateLock` | `lockFileUpdate`, the constructor's loop, `initFromLock`, destructors, end of a process |
| `UpdateLockProofs` | theorems about `UpdateLock` |
| `VpdDbEnv` | the table and its statements, over `LockService` |
| `VpdRetriever` | readers of the tree (C++ and C) beside updaters, over `VpdDbEnv` |
| `TreeRead` | what `getComponentTree` promises: an atomic read |
| `VpdRetrieverProofs` | theorems about `VpdRetriever` |
| `VpdCalls` | the calls on an open database |
| `VpdTable` | what these calls promise: each acts at one instant |
| `Statements` | `fetch`, `store`, `remove`, `getKeys` and the C fetches on SQLite's locks and journal |
| `StatementsProofs` | theorems about `Statements` |
| `DeviceTree` | objects in memory, who owns them and who frees them, in C++ and C |
| `DeviceTreeProofs` | theorems about `DeviceTree` |
| `SubProcess` | `spopen`, `process_child`, `spclose`, `execCmd` with child and pipe |
| `SubProcessProofs` | theorems about `SubProcess` |
| `PathHelpers` | the path and string functions; it is its own instance for TLC |
| `PathHelpersProofs` | theorems about `PathHelpers` |
| `UdevRefresh` | the default constructor, udev's rule, `vpdupdate` |
| `UdevRefreshProofs` | theorems about `UdevRefresh` |
| `Codec` | `pack`, `getPackedSize` and the four decoders as operators |
| `VpdRecord` | the life of one object: mutators, store, load, over `Codec` |
| `VpdRecordProofs` | theorems about `VpdRecord` and the operators of `Codec` |
| `MC...` | the instances that the `.cfg` files check |

They compose upwards: `UpdateLock` implements `LockService`, `VpdDbEnv` and
`VpdRetriever` stand on `LockService` and not on the system calls, and
`VpdRetriever` implements `TreeRead`. Below it, `Statements` implements `VpdTable`,
which is why `VpdDbEnv` and `VpdRetriever` may take a statement for one step, also
for readers without the lock. All three refinements are checked and proved.
`VpdRecord` stands on `Codec`. `UdevRefresh` uses the lock as one exclusive
variable, plus the guest's way in as a fault.

### UpdateLock

`pc[e]` says where object `e` is: in the lock's constructor (`open`, `setlk`,
`getlk`, `reopen`, `setlkw`), between it and the end of `initFromLock` (`locked`,
`dbopen`, `create`), in use (`ready`), in its destructor (`closing`), or thrown
away by `initFromLock` (`failed`). `lockfd` is the member, with 1 for every
positive descriptor; `klock` is the process that the kernel gave the lock to;
`db` the file; `found` the local `dbExists`; `fd0` the processes whose next
`open` returns 0. Each action is one call that another process can notice:
`SetLkDenied` and `GetLkFree` are two because the holder may leave between them.
An exception of `initFromLock` (`InitThrows`) does not destroy the lock object,
since `mUpdateLock` is a reference: only a caller who owns the `UpdateLock`
(`Borrowed`) can still release it. Descriptors of a failed attempt are leaked in
the code and have no effect in the model.

`orderly` is a history variable: no object came in unlocked, none stopped between
creating the file and its table, and no C client created the file.

### VpdDbEnv and VpdRetriever

A row is a record with the list of its children and a version. `store` inserts
and fails on an existing key, `remove` deletes. A C++ reader is an environment of
the lock, a C reader is outside of it. `todo[r]` is the recursion of
`buildSubTree` unrolled: the ids still to be fetched, next first; `got[r]` is the
tree so far in preorder. `FetchFails` covers the missing row and every error, and
fails the call. `exposed` is a history variable: the readers under which an
updater *without* the lock has written. `removed` is another: what an updater has
removed under the lock and not stored again.

### Statements

`pc[c]` is how far the statement of connection `c` is: `busy` before its first
lock, in the busy handler or not; `row` and `rows` with SHARED; `commit` with
RESERVED and the old pages in `journal`; `flush` and `flushed` with EXCLUSIVE, the
pages half and fully written. `Commit` deletes the journal. `shared`, `writer`
and `pending` are SQLite's locks; a `journal` without a `writer` is hot. SQLite
(rollback mode, the library's default) is external and modelled from its
documented locking; everything about when a statement is prepared, stepped and
finalized is from vpddbenv.cpp and vpddbenv_c.c. A statement is left behind when an
exception leaves the method: `leaked` are the connections with one that stands on a
row and holds SHARED (`RaiseOnRow`: `fetch` of a corrupt row, `fetch` or `getKeys`
without memory), `unfinalized` those with one that has failed or was not stepped
yet and holds nothing (`Raise`: `pack` in `store`, the text of a message about an
error). `destroyed` is such a connection after its `VpdDbEnv`: `sqlite3_close` has
refused it. `PRAGMA synchronous = OFF` matters only when the machine
crashes, which is not modelled. When a prepare or a bind fails the answer is that
of `StepFails`. `Torn` stands for pages that are half written; the refinement
maps `table` to the rows of the last committed statement.

### DeviceTree

Objects are numbers, allocated in order; `owns[x]` is the set of pointers in `x`,
each with a role that decides which destructor follows it; `held` are the objects
that the client has to delete, and the client is disciplined (it deletes once,
and builds no circle). `Delete` frees what the destructors reach in one step,
because nothing runs between. `broken` says how memory was corrupted, and nothing
happens after that. `leaked` and `shared` are history variables. Strings and
single `DataItem` members live and die with their object and are left out; in C
they are `device` pointers. A list of struct components is linked by their `next`
fields. The children of a structure are its `leaf` pointers, since freeing it walks
that list; a list that nobody's `children` begins is a set of `next` pointers of its
first component, which `free_component` does not follow. `AddComponent` appends a
list to a list of either kind.

### SubProcess

`at[j]` is where the process is with program `j`, `child[j]` what became of the
child, `fds` and `cfds[j]` the pipe ends that the process and the child have open.
A fork copies `fds`. Lines are counted, not looked at; `foreign` marks the streams
on which something else may be read: what the child's `exit` flushed of its copy
of the parent's stdout, or the output of a program that got more than its
arguments. The status that `waitpid` gives is left out.

### PathHelpers

Strings are sequences over a few characters, counted from 0 as in the code, with
NUL behind their end. The searches return -1 for `npos`, as the code's `int`s do.
State is the client's one string (a `std::string`, which can have a NUL inside),
changed by `dropDir` and `fs_fixPath` in any order; the parsing functions are
operators, compared in every state with what their comments promise.
`LetterAssumption` says that no character that means something is a letter.

### UdevRefresh

The clock `now` counts whole seconds, as `st_mtime` does. `events` counts device
events and the database reflects a prefix of them (`dbEvents`). `pc[c]` is where
client `c` is in the constructor, `child[c]` where its `vpdupdate` is. That
program is outside the repository; the model has what the constructor relies on:
it takes the update lock, looks at the devices, writes, and may fail or die in
between. `lost`, `torn` and `need` are history variables: the events that came in one
of two windows, those that a `vpdupdate` which died between its first and its last
write had not written, and the last event that a client's call is owed. A client has one child at a
time, which is a bound of the model.

### Codec and VpdRecord

A blob is its size and the sequence of its NUL-terminated strings; a string is a
value with a length. The order of the fields is transcribed, because the
properties are about it. The decoders look for a delimiter in four ways: C++
compares whole strings (`PlaceOf`) or what is left of a string at each byte
(`ScanTo`), C compares as many bytes as the delimiter has, at the cursor
(`PrefixPlace`) or at each byte (`PrefixScan`). Two operators on strings are
constants for that, `Rests` and `Begins`; `MCVpdRecord` defines them on TLC's strings,
`StringAssumption` is what a proof needs of them. `NoDelimiterAssumption` says that no
text of an object (`Text`) contains a delimiter: the code does not enforce that, and
does not read such an object back. `DelimiterAssumption` gives the lengths of the
delimiters.

`VpdRecord` is one object under any sequence of the mutators, stores and loads. A
`DataItem` carries its preference level and cached length (0 when unknown). When
a cached length is wrong, the result of `pack` is `Garbled` and is not looked at
further. `saved` (the object as stored), `offers` (what each field was offered
since the last load) and `clobbered` are history variables.

## Runs

| Run | Shows | Bounds |
|---|---|---|
| `lock_safety` | Whoever took the lock has it; no database is open without its table; the lock does not outlive its object; a constructor that starts to lock comes to an end, unless it waits for a lock that was thrown away; the system calls implement `LockService` | two writers, one reader, a process each; one has its lock from a caller, one was started without stdin; all failures, deaths and a C client |
| `lock_race` | *violation*: two processes have the database open although no call failed | the same three |
| `retriever_safety` | A protected reader's tree is the tree of one instant; no child is left out; nobody stores a row between the remove and the store of an updater with the lock | two updaters, a C++ and a C reader, a system with two devices one below the other or beside it, two versions of one |
| `retriever_capi` | *violation*: a C client does not get the entire tree | an updater and a C reader |
| `statements` | Each call takes effect at one instant or not at all; only an exception leaves a statement, or a lock of SQLite, behind; calls return, unless another process goes on with a lock that an exception left | two writers, a read-only reader, a C client; two keys, one row corrupt from the start; one writer may meet failures of input/output and die at any point, the other that and failures of memory |
| `tree` | Without a copy nothing is freed twice or left dangling, and every object is held, owned or lost in one of seven named places | four objects; trees of one to three, with a leaf, a device and a user item |
| `subprocess` | Only failing `fdopen` and `fclose` leave a child; descriptors are exact; the output is complete; the two ways in which a call does not return are named | two streams and one `execCmd`, two lines each, pipes of one line; every failure |
| `paths` | No helper leaves its string but in two named cases; `dropDir` takes one directory; the parsers keep what their comments promise, but for the next run | paths of up to five characters from four, positions up to four |
| `paths_comments` | *violation*: on one string, position 0 of `parsePathr` is the tail node, or position 0 of `parseString` the first quoted string, or a star of `matches` stands for zero or more of anything | paths of up to five characters |
| `record_safety` | Nothing is lost or displaced by a store and a load but what the next run and `retriever_capi` show; the buffer suffices, caches are exact, the best offer wins, user data stays unique | three calls of mutators, any number of stores and loads; three fields, three values (one empty, one with a blank in front), two levels |
| `record_docs` | *violation*: `unpack` gives the user data back, or the children, or `pack` knows the length of an item | one field, two values, two levels |
| `udev` | No event is overlooked outside three named windows; who opened without a failure has everything that came before; the constructor ends | two clients, two seconds, two events; one client may meet every failure, the other none |

Why these are enough. *Lock*: three processes are a holder, a waiter and one that
comes between them; each object may be opened and closed without bound, so
repetition is not cut. *Retriever*: three rows are a root, a child and a
grandchild that can also be a sibling, so an update can move it; the second
updater is there to write without the lock beside a reader with it. *Record*:
three calls are enough for a value, a better or worse one and a clobber, with
stores and loads between any two. *Statements*: two writers are one that holds
RESERVED and one that comes with a leaked statement; the reader that may not
write meets the hot journal; the C client is one that never leaks. Which connection may
meet which failure is a constant (`Faults` is a set of pairs): a journal and a leaked
statement that meet in every order need one process each. Calls
are not counted, so a connection may leak, be destroyed, die and come again. *Tree*: four
objects hold a tree of three and one more, or two trees of two, so that a leaf can
move from one to the other and its old tree be deleted. *Subprocess*: a stream, a
later one whose child inherits the first one's end, and an `execCmd` between them;
two lines through a pipe of one make a program wait. *Paths*: five characters
have two slashes with something around each, or two pairs of quotes with
nothing between. *Refresh*: a lost event needs two events and
two seconds; the second client is the one whose older scan is written late, and who
meets the first with no failure of its own. Of both modules the safety properties are
proved for every assignment of failures.

Fairness. `UpdateLock!FairSpec`: every call returns and every user destroys its
object in the end (weak fairness of the steps), and a waiter in `F_SETLKW` that
the kernel could serve again and again is served (strong fairness: the lock is
taken and released by others in between). `UdevRefresh!FairSpec` has the same for
the constructor's calls, for the two waits for the lock and for `vpdupdate`, which
is assumed to come to an end once it has the lock. `Statements!FairSpec`:
every step that a call does by itself happens (weak fairness), and a call whose
first lock is free again and again gets it (strong fairness): the busy handler
sleeps 0, 1, 2, ... seconds and does not keep step with the others' calls.
`SubProcess!FairSpec`: the kernel runs the process and its children (weak
fairness); the client need not read, close or start anything. Nothing is assumed
of when a process starts, when an event comes, or of failures. `ConstructorEnds` names
one exception, `Abandoned`: when `initFromLock` throws, the process keeps the lock, and
the next constructor, there or elsewhere, waits for it or for a child that does.

Deadlock is checked in every run but `lock_race` and `retriever_capi`, whose
violations are found before it matters, and those where the system may really
stop: `tree` (memory is corrupted), `paths` and `paths_comments` (a helper has left
its string), `subprocess` (every program was run, or `spclose` waits for ever, which
`CallsReturn` names).

## Disagreements found

1. `lock_race`: vpddbenv.hpp:48 claims multi-process safety. If the holder leaves
   between `F_SETLK` and `F_GETLK` (vpddbenv.cpp:64-68), `l_pid` keeps its initial
   -1, which the constructor reads as an error; it logs "cannot lock" and opens
   the database without the lock.
2. `retriever_capi`: the scan of component_c.c:462 has its condition inverted, so
   `unpack_component` reads no list, and the tree of vpdretriever.h:60 ends at the
   children of the system. Before it, component_c.c:427-432 leaves out n5 and n6,
   and the cursor is two items short of the lists.
3. `record_docs`, in which one counterexample answers three sentences:
   - system.cpp:297 says that "unpack does exactly the opposite from pack".
     `System::unpack` (system.cpp:510) pushes the items of the user list to the device
     specific ones: after a store and a fetch a `System` has no user data
     (`UserDataKept`).
   - The same sentence stands at component.cpp:401. An empty child id is packed and
     stored; `unpack` (component.cpp:674, and that of `System`) takes it for padding
     (`ChildrenKept`).
   - component.cpp:998 and system.cpp:551 assign `dataValue` and leave
     `packedLength`, so that `pack` advances by the old length, against
     dataitem.cpp:216-220 (`LengthReturned`).
4. `paths_comments`, one string for three comments:
   - parsePathr cuts the last character of the tail node off, so that its example
     (helper_functions.cpp:255-259, "count = 0, returns z") gives nothing
     (`TailNode`).
   - parseString counts from 1 and refuses 0, against helper_functions.cpp:209-213
     ("[0...x]", `QuotedFromZero`).
   - In `matches` a star stands for one character at least, the text behind the last
     star may be anywhere, and a pattern with two stars matches nothing but itself,
     against helper_functions.cpp:424-428 ("zero or more of anything", `ZeroOrMore`).

Each of the last two runs checks the disjunction of the claims (`PackAsDescribed`,
`SomeCommentHolds`): a state that violates it violates every one of them.

Met while modelling, without a run of their own:

- component_c.c:263-266 says that "dataitems are unpacked in the same order as the
  Component::unpack( void* ) method"; lines 427-432 go from scsiDetail to plantMfg and
  leave out n5 and n6, so that each of the last six fields has the contents of the one
  two places before (`KeptInC` in `RoundTrip` says so).
- helper_functions.cpp:84 says that `spopen` "mimics popen(3)". popen closes the
  streams of earlier calls in the child, `spopen` does not. A program started later
  keeps the read end of an earlier stream; when the process closes that stream, its
  program stays blocked on the full pipe and `spclose` waits for it (an exception that
  `CallsReturn` names).
- vpddbenv.hpp:99-102 says that `fetch` of a missing device returns an object with
  empty fields; it returns NULL (vpddbenv.cpp:267-300).
- helper_functions.cpp:87 promises NULL when `dup2` fails; that happens in the child and the caller gets a
  stream. `spclose` returns a status that was never written when `waitpid` fails
  (its comment promises -1), and sets `errno` to `SIGCHLD` where it says `ECHILD`.
- `execCmd` returns 0 whatever the program did, takes 32 words into an array
  without a place for the NULL behind them, and its loop does not end after an
  error of read.
- new_system(1) assigns every item to `description` and loses all but the last
  (system_c.c:44-126).

## Proofs

All theorems hold for every value of the constants, under the named assumptions
of the modules.

**UpdateLockProofs.** `Typing` is inductive by itself. `LockAccounted`
(`LockHasHolder`) needs `FdInv`: an object has a descriptor while it asks for the
lock, and descriptor 0 occurs only in a process of `ClosedStdin`; so a destructor
that closes nothing belongs to such a process. `HolderSafe`
(`HolderHasKernelLock`), `ServiceImplemented` and `TableThere` assume
`OnePerProcess`, which the code does not enforce: two objects of one process share
the kernel's lock, and the first destructor drops it for both. Refinement goes by
one lemma per way a step can act on the holders and guests (enter, come in
unlocked, leave, stutter). `TableThere` strengthens `TableWhenReady` to
`OrderInv`: while every object is orderly at most one object is constructed, and
what it found with its stat is still so.

**VpdRetrieverProofs.** `Snapshot` needs `LockInv`: at most one holder, who is no
guest, and no entries for a reader that is not open. A step that changes the
table is by the holder, then it is not a reader, or by a guest, then it exposes
the readers. `NothingDangles` needs `TreeInv`: what has been fetched, together
with what is to be, is the root and what has been listed; it holds with or
without the lock. `NoOneBetween` needs beside it that who does not
have the lock has nothing in `removed` (`GapInv`): a store in the gap is the holder's
own, or a guest's, which exposes the holder. `KidsAssumption` says that rows list keys,
`IdAssumption` that the table is finite.

`AtomicRead` is the refinement of `TreeRead`. The tree of an instant is computed
there in as many rounds as there are devices (`Trees`); the reader does not count,
it follows the rows. What joins the two are the devices whose trees have an end
(`Ends`): a row, and children of the same kind. `Levels` counts how deep such a
tree is. Since each new level has a new device, there are no more levels than
devices (`LevelsEnd`), so after that many rounds these trees are what their rows
say (`EndsExist`). `ReadInv` then says of a protected reader: if everything still to
be fetched has a tree with an end, what it has and these trees are the tree of the
System. A fetch keeps that (`ReadsNext`). A reader on its way to a missing row, or
in a circle of rows, never returns a tree, and owes nothing. At the return nothing
is left to be fetched, so what the reader has is the tree (`ReadsAll`). An updater
cannot disturb this for the reason of `Snapshot`.

**UdevRefreshProofs.** `NothingElseMissed` needs `NoticeInv`: no file is newer
than the clock, events after an updater's scan are lost until it has written, and
what an updater that dies half way leaves out is `torn`.
`OpenedFresh` needs `FreshInv`, which follows the constructor: after the stats
either the times differ or everything is accounted for; an updater that has
scanned by the time of the wait scanned after the first stat; from the end of the
child on the database is fresh and stays so, because whoever writes later with an
older scan has put every event since into `lost`, or dying into `torn`. The theorem does not use the
lock.

**StatementsProofs.** One invariant in five parts. `Doings` ties the phase of a
connection to its call, `Locks` says who holds which lock (EXCLUSIVE only when
nobody else is shared), `Pages` how the file differs from the journal by how far
the writer has got, `Reads` that an open read statement has what is in the file.
With `ReaderSees` (who may take SHARED, or has it and does not write, sees the
committed rows) even `TypeOK` needs all of it: that no fetch returns `Torn` is
part of it. `Atomicity` has one lemma for steps that leave the committed rows
alone, and `StepRefines` for all others; `Commit` is where a write takes effect,
`Recover` and the failures leave the committed rows as they are. `Leaks` follows from
`Locks`: a connection between calls is in `shared` only by `RaiseOnRow`.

**DeviceTreeProofs.** `Ownership` holds as long as nothing is shared: no two
pointers lead to one object, none to one that the client holds, none to one that
is gone, and what is neither held, owned nor lost does not exist. `ListJoined` says that
this survives the joining of two lists by `add_component`. It rests on
`OwnerAssumption` (an object read from the database has one owner in its tree). A
deletion reaches a set of objects; `ReachDeletes` says that it is closed and the
least, without recursion, and `DeleteOwned` that with one owner each it meets
nothing twice and leaves no pointer into it.

**SubProcessProofs.** `Typing` is inductive by itself, `Descriptors` with it.
`Reaping` and `Output` need `ChildFds` (a child that lives has its write end),
`Children` (who is reaped was waited for, a child is killed by SIGPIPE only after
its stream was closed) and `Conserved` (each line is in the pipe or with the
caller): the end of the stream is seen only when the child has closed it, by
`NoFdLeak` nobody else has it, and then everything printed has been read.

**VpdRecordProofs.** Strings have any length, an object any number of list
entries, and the bounds on calls do not matter. `Typing` says of what is stored
that it is `Pack` of an object as stored (`Stored`), so `RoundTrip` and `SizeFits`
are facts about the operators of `Codec`. `PackedFields` gives the place of each
single field, `BetweenFramed` says that a list that is framed by its delimiters is
what `Between` finds, and `UnpackPacked` follows the decoder from one list to the
next: no delimiter occurs before its own list. `Fits` compares the size that is
computed with what is written, item by item. `LengthsExact` is inductive.
`SpecBestOffer` follows from `Preferences`: of a field's offers there is one that it
holds, with its level, and that no other beats. `SpecUniqueUserData` follows from
`Uniqueness`, which says the same of the row, or a load would bring a duplicate
back. The four ways of looking for a delimiter are one in a row whose strings contain
none (`DelimiterFound`, `SamePlace`, `SameBetween`), by `NoDelimiterAssumption` and what
`StringAssumption` says of the delimiters; of rows with such strings nothing is proved. Sums and searches are recursive functions;
what they compute is proved by induction over sets of numbers (`Least`, `Induct`),
because the induction theorems of the library take a predicate as a parameter.

**PathHelpersProofs.** The client's string is of any length. `InBounds` is
inductive with `Terminated` (a NUL is in the string only after
`fs_fixPath(string&)` has put one there). `StopIs` and `CutIs` say where the loops of `dropDir`
stop, `DroppedIs` and `UpIs` what is left of the string and of the reference
definition, and `DropsOne` that they are the same.

`ReadsAsDescribed` says of four parsing functions what their comments promise, with
the pieces of a string between the places of a character, and leaves out what
`SomeCommentHolds` shows to be otherwise. The proof goes by
what each function computes. `Mark` numbers the
places (`MarkOrder`, `MarkUnique`, `MarksExist`, `PlacesFollow`), and a search that
starts behind one ends at the next (`FindNext`). Each loop of the code is a
recursive function; the proof gives the function that is to be expected (the place
at which the i-th turn stands), shows that it solves the recursion, and by
`Induct` that every solution is that one: `ParsePathIs` (round and round, modulo the
number of slashes), `ParsePathrIs` (from behind), `ParseStringIs` (two quotes a
turn). `matches` needs no induction: a call at a star does not depend on a further
call (`StarAlone`), so `MatchesIs` has two calls to look at, and `WildcardIs`
says what they accept for patterns with no star, one, and more. `NodesFound`, `QuotesFound`
and `Wildcards` compare this with the comments; strings and patterns have any length.

Only model-checked: liveness (`OpenTerminates`, `ConstructorEnds`, and `CallsReturn` of
`Statements` and of `SubProcess`).

## Not modelled

- Cycles among rows: `buildSubTree` recurses until the stack is full, which no
  property survives.
- Two environments in one process (beyond `UpdateLock`'s constants, which allow
  them; the proofs that need it assume one).
- SQLite beyond its locks and its journal; a crash of the machine.
- `getSymLinkTarget`, `getAbsolutePath`, `findAIXFSEntry`, `file_exists` and
  `readMatchFromFile` ask the file system and keep nothing. (`readMatchFromFile`
  loops for ever after a line that is too long or a file that does not open,
  since it asks for the end of the file only.) `str2chr`, `countChar` and
  `contains` are single loops that do what their names say.
- Lists of `Source` objects, `setAC`, `setHumanName`, getters, the CPU count:
  values that are written and read back.
- Logging and exceptions' texts; build files.

## Plan

Done: everything above. What could be added, in order:

1. `addAIXName`: a hazard without a property, for want of a promise.
2. Rows with strings that contain a delimiter: what each of the decoders makes of them.
3. `UpdateLock` and `Statements` composed: a leaked statement of the holder of the
   update lock beside an unlocked guest.
