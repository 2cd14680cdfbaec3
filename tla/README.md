# Formal models of bone_helper

bone_helper is a C++ library of helpers shared by measurement programs on embedded Linux devices:
a thread-safe circular buffer, a counting semaphore, a loop timer, a systemd watchdog that several
threads feed, a client for a request/response protocol over TCP or TLS, an output file, a writer for
UFF 58 files, and small pure functions on JSON values, strings, times and directories.  It has no main
program: its users call it from several threads.  The repository has no written documentation (README is
empty), so the references of these models are the sources, their comments and the tests under `test/src`.

## Inventory

| component | state | operations | interacts with | hard behaviour | what makes it correct |
|---|---|---|---|---|---|
| `CircularBuffer` (`circular_buffer.hpp`) | vector, insert position, count, base_id; a shared mutex; every reader's own `last_value` | add, add(range), clear, get, getVector, getPosition, copy, move, swap | writer and reader threads through the object | wrap-around of positions and of `base_id`; readers that fall behind; unlocked reads before locked ones | it is the log of the last N elements, and a reader that continues gets each element once |
| `counting_semaphore` (`semaphore.hpp`) | counter, mutex, condition variable | release, acquire, try_acquire, try_acquire_for/until | producers and consumers | notification after unlock, several waiters, timeouts that race a release | permits are neither lost nor invented; a waiter does not sleep while permits are left for it |
| `loopTimer` (`loopTimer.hpp`) | next_cycle, wait_time, running; a process-wide condition variable, mutex and `kill` flag | wait_on_tick, kill_all, destructor, set_wait_time | every other timer of the process through the shared condition variable | notifications meant for another timer, spurious wake-ups, kill between two ticks | a tick is not early unless everything is being stopped; after kill_all nobody waits longer than a cycle |
| `MultiWatchdog` (`system_helper.cpp`) | own_entry of each object, a process-wide list of pointers to them | enable, disable, trigger, construction and destruction | systemd (`sd_notify`), the threads being watched | several objects, enabling and disabling in any order, a thread that hangs | systemd is notified only when every registered thread has reported since the last notification |
| `netHelper` (`netHelper.cpp`) | socket, connected, user_level, timeout, a mutex | connect, disconnect, send, recv, send_command, login | a server; several threads share one connection | timeouts with late answers, connections that fail between two calls, logins that interleave | an answer belongs to the command that gets it |
| timed socket operation (`netHelper.cpp`) | an operation and a deadline timer on one io_context | the `run_one` loops of connect, handshake, send, recv | boost.asio | completion and expiry in any order, operations of several steps | the loop ends, with a result, after the deadline at the latest |
| file system helpers, `OutputFile` (`fsHelper.cpp/.hpp`) | the file system; file name and stream | makePath, deleteFilesRecursive, getDirectories...; openFile, closeFile, updateFilename, clearFile, operator<< | other processes through the file system | races on directories, failures half-way | the path exists afterwards, the stream writes to the file it names |
| `UffFile` (`uffWriter.cpp`) | `samples_written`, and its OutputFile | writeHeader, appendData, endFile, clearFile, updateFilename | OutputFile | changing the file in the middle of a line, writing while no file is open | a line has four samples, an end mark a line of its own |
| JSON helpers (`jsonHelper.hpp`) | none; the callers' values | arithmetic_merge_json, checkedUpdateFromJSON, value_ig_type, filtered_values | payloads of a server | missing keys, values of another kind, results out of range | a value keeps its form whatever is merged into it |
| `strnatcmp.cpp` | none | compareNat | std::sort in the listings | numbers compared in one of two ways | a strict weak order |
| type traits, times, stopwatch, alarm levels | none | conversions, constants, commands to timedatectl | callers, the operating system | - | - |
| process helpers (`system_helper.cpp`) | the process | daemonize, dropPriviledges, pipeSystemCommand, systemd notifications | the operating system | system calls only | - |

Everything of these components that is hard to test is listed under `hazards` in `PROJECT.json`, each at its
line, with the properties that would notice it going wrong.

## Which module models what

| module | models | kind |
|---|---|---|
| `CircularBufferOps` | the methods of `CircularBuffer` as operators on a record of its four data members | operators |
| `CircularBuffer` | objects and readers; every method one step | state machine |
| `CircularBufferThreads` | the same objects used by several threads, in the steps between which the mutex is free | state machine, extends `CircularBuffer` |
| `BoundedLog` | what the buffer promises: the last N elements, numbered, and what a reader is given | abstract specification |
| `Semaphore` | `counting_semaphore`, critical section by critical section | state machine |
| `Permits` | what a semaphore promises | abstract specification |
| `MultiWatchdog` | the objects, their shared list and the threads that report | state machine |
| `LoopTimer` | the timers of a process, their shared condition variable and `kill` | state machine |
| `TimedOperation` | the `run_one` loop with an operation and a timer | state machine |
| `JsonHelper` | merging, filtering and checked updates of JSON documents | operators |
| `NetClient` | a client: its calls, made of timed operations, and what it makes of the answers with the JSON helpers | state machine, extends `TimedOperation` and `JsonHelper` |
| `NetHelper` | threads on one connection, the bytes on their way, the server's end | state machine |
| `FileSystem` | what the file helpers expect of the operating system (external) | operators |
| `OutputFile` | processes that make directories and open files in one tree | state machine |
| `DirectoryWalk` | threads that delete, list and read directories of that tree | state machine, extends `OutputFile` |
| `UffFile` | the UFF writer over an output file | state machine, extends `OutputFile` |
| `NaturalOrder` | compareNat, by which listings are sorted | operators |
| `FileHelpers` | all of these in one file system, and other processes that remove what they like | composition, extends `DirectoryWalk`, `UffFile` and `NaturalOrder` |

`MC*` modules hold definitions for TLC (sets that a `.cfg` cannot write, symmetry); `*_proofs` modules the
theorems.  A definition that begins a comment with `Mutant:` is a plausible bug; `PROJECT.json` says which
definition it replaces and which property has to notice.

### Correspondence to the code

**CircularBuffer.**  A record `ring[b]` has the data members `buffer` (the vector, as long as it has grown),
`current_insert_position`, `item_count` and `base_id`; `Modulus` is the number of values of `size_t`.  Each
mutating method is an operator from record to record (`Added`, `Cleared`, `Fresh`), each getter an operator to
its result, with exceptions as results.  `GetRange` keeps both copies of `getRange` with their lengths as the
code computes them, and `GetVector` the allocation before and the resizing after `get()`.  Assignment, move and
swap are actions on two objects.  A reader has the `last_value` that the methods take by reference.  The window
of an object, `Window(r)`, maps it to `BoundedLog`.  All methods are atomic here.

**CircularBufferThreads.**  The steps are the critical sections and the reads outside them.  `getVector()` is
`BeginGetVector`, `ReadCounter` twice (the two operands of one expression, in either order), `Compare`, `Shrink`
(`item_count` is read a second time behind the comparison) and `GetElements`, the only one that locks.  `std::min` and
`subtractWithRollover` take references, so that a build may read a counter twice there as well; `ReadCounter` is one
read, and its comment says why an undisturbed call has no other results.  `add(range)`
is `BeginRange` and an `AddNext` per element.  Assignment is `BeginAssign` (lock the source, copy or swap the
counters) and `FinishAssign` (the vector), or `CopyFails`.  `torn` has the objects whose members need not belong
together: targets in the middle of an assignment and those whose assignment has thrown or was disturbed by
another thread; reads of them are not followed, as they are undefined.  `disturbed` is what the properties excuse a
call for: its object was cleared, assigned or, but for reads, written by another thread meanwhile.  `Replace` is the
move constructor, on an object that nobody uses.

**Semaphore.**  Each critical section is a step: `Release`, `Acquire`, `TryAcquire`, `TryAcquireUntil`, the
`Recheck` of the predicate by a woken thread.  `Notify` is the `notify_all()` behind the unlock.  `Expire` and
`SpuriousWakeup` are the condition variable's.  A thread that is woken waits for the mutex and can be overtaken.

**MultiWatchdog.**  `enable`, `disable` and `trigger` hold the list's mutex and are one step each, and so are
construction and destruction, which call them, and the defaulted copy constructor and assignment, which do not.
The pointers on the list are the objects they point into; `Destroy` leaves memory of any content behind, which
`Construct` and `Copy` may use again, also when a pointer to it was left on the list.

**LoopTimer.**  `WaitOnTick` goes into `wait_until`; `Timeout`, `SpuriousWakeup` and the notifications of
`Stop` and `KillAll` wake it; `Recheck` is the condition of the loop.  Setting a flag and notifying are two steps.
Time is relative: `remaining` until `next_cycle`, `elapsed` since the last tick, advanced by `Advance` at any
moment, so wake-ups may be late.  `running` is never set to true, as in the code.

**TimedOperation.**  One call of connect, handshake, send or recv: the operation's steps (parts of a transfer,
endpoints of a name), the deadline timer, the handlers that `run_one()` runs one at a time, and the
cancellations behind each.  What asio does is external, and modelled from how the loops depend on it.

**NetClient.**  `connect()` is one timed operation, or two with TLS; a command is three, for the request, the length
and the data; each has a deadline of its own, and a failure of one ends the call.  The step that ends a command
applies one of the JSON helpers to the answer: `Merge` (arithmetic_merge_json behind filtered_values) or an update of
a setting.  How a client combines these is external.

**JsonHelper.**  A document is the function that nlohmann's `json::flatten()` makes of it, from the places in it
(JSON pointers) to what is there, with the objects and arrays themselves kept as well.  The recursion of
`arithmetic_merge_json` is then the places it comes to (`Reached`): those above which both documents have an object,
or both an array.  An integer wraps at the width of `long` and what is taken from it at that of `int`; doubles and
strings have no content.  An exception of a merge is `MergeThrows`.

**NetHelper.** `send_command` is three steps under the mutex (`Send`, `ReadLength`, `ReadData`), `login` two commands
and the write to `user_level` outside it. The answer to each may lack what login() looks for: without a token it
returns 0 or throws, without a level it throws, and `user_level` stays as it was. `disconnect` is a look at
`connected` and, behind the mutex, the shutdown. Every send and recv may end at its deadline with part of the bytes
moved; what is left on the stream then is read by the next command as its length. The outcome of a timed operation is
any that `TimedOperation` allows: a result, or abortion at the deadline. The two modules share no state and are not
composed: a thread in `NetHelper` is, as far as the others can see, anywhere inside its timed operation until the
outcome is there.

**OutputFile.**  `openFile()` is a step per system call: `FirstAttempt` (mkdir), `IsDirExist` (stat),
`SecondAttempt` (mkdir once the level below is made), `Open`.  makePath's recursion is the `level` it has reached.
A path is a sequence of names, with an empty name between two slashes in a row.  `closeFile` and `clearFile` are
one step.  Other processes do the same, and remove nodes.

**DirectoryWalk.**  A call is the stack of its directories, each with the entries it has still to look at: opening
reads the names, and each is looked at when it is its turn, when it may have gone, or have become something else.
Then its kind is not set, and the call takes it for anything.  The system may refuse to open a directory that is
there, or to say what an entry is (`refused`; no permission, no handle left, as deleteFilesRecursive closes none), and
to remove what could be removed.  An exception is `Throw`, or `Swallow` in the listings, which catch it.  `meddled` is
what others have made or removed around the call's directory meanwhile, and whether the call was refused something.

**UffFile.**  Of the text in the file, `column` is the number of values on the last line; `behind` is how many samples
were counted when the line was begun, which is not 0 when the count goes on from another file or data set.

**NaturalOrder.**  A string is the sequence of its character codes, and the loops and calls of strnatcmp.cpp over two
suffixes are recursive functions of them.  `Strings` has chars that are signed and chars that are not, so what holds for
it holds in either build.  `SortsSafely` asks what `std::sort` needs of the order, for the names a directory may
hold (`SortedNames`), in the states in which a listing is under way.

## Runs and what they show

| run | instance | shows |
|---|---|---|
| `buffer_log` | capacity 3, `size_t` of 5 values, two objects of which one is in use, one reader, 2 values | the class implements `BoundedLog`, with its counters rolling over; single getters agree with it; a continuing reader gets nothing twice; reads of every size are right unless the copied range wraps behind a start that is not 0 |
| `buffer_threads` | capacity 3, two objects, two threads, 4 calls | objects are whole, copies are states of their source, exact reads are all or nothing, streams are read in turn, ranges stand together |
| `buffer_overrun` | capacity 3, no rollover | **violation**: `TargetNotOverrun` |
| `buffer_rollover` | capacity 3, `size_t` of 8 values | **violation**: `SecondReadEmpty` |
| `semaphore` | 3 threads, `max()` 2, releases of 0, 1, 2, 3 permits altogether | permits conserved, no lost wake-up, `Permits` implemented (with its liveness), timed waits end |
| `watchdog` | 3 objects, 6 calls besides `trigger()` | one notification per report, the list is who is to be watched, systemd is notified for ever while everybody reports |
| `timer` | 2 timers, 2 wait times | spacing of undisturbed ticks, kill_all() misses nobody, waits end |
| `timer_early` | 2 timers, no spurious wake-ups | **violation**: `TickNotEarly` |
| `timed_operation` | a client (`MCNetClient`), operations of up to 3 steps, 10 answers | the loop ends with a result and no handler outstanding; only the deadline aborts; every call ends, however silent the peer is; what is merged keeps its form whatever the server sends |
| `nethelper` | 2 threads, 4 requests | answers belong to their commands; behind logins of which the last to authenticate was the last to write, and none threw, the level is the server's |
| `nethelper_disconnect` | 2 threads, 2 requests | **violation**: `DisconnectReturns` |
| `output_file` | two of an output file, a UFF writer and a walker, 3 files up to three directories deep | a stream is open on the file it names; openFile() ends and fails only for a listed reason; UFF lines have four values; deleting stays inside its directory and fails for a listed reason; a listing is complete when nothing was removed or refused; compareNat is a strict weak order on the names of up to three characters |

### Why the bounds are enough

- Capacity 3 is the smallest at which a range can wrap with elements on both sides of the end *and* start behind
  the newest; `size_t` of 5 values lets `base_id` roll over while the buffer is full, and its own value 0 be
  met both as "new reader" and as a number.  Two values tell neighbours apart.  Two objects are every pair a method
  takes, and the reader takes its `last_value` from one to the other; that only one of them is filled at a time
  (`SpecOneInUse`) keeps the run small, and two filled ones meet in `buffer_threads`.
  Requests are for 0, 2 and 3 elements; `UnwrappedReadsMatch` tries every amount from 0 to 4 in every state.
- `buffer_threads`: capacity 3 is the least at which a read that has found two elements may copy them in two pieces
  because a third was added in between: there a call for the whole buffer meets the overrun of `getRange`, which
  `CopiesOnePiece` excuses.  Requests continue and ask for the capacity, and `base_id` is far from rolling over.  An
  object begins empty, or cleared and filled again with two elements so that the next one is the last of the
  array; a reader is new or up to date.  So four calls suffice for two readers and writers, or an assignment, another
  that disturbs it, and a read of either.  The proofs hold for any number of threads, objects and calls.
- Three threads on the semaphore are a releaser and two waiters, of which one may overtake the other; `Max` 2 lets
  one release serve both.  `MaxReleased` only bounds how often.
- Three watchdogs are one that hangs, one that comes and goes and one that reports; six changes reach double
  enabling, disabling and reuse of an object's memory.  `notifications` counts modulo 2: only its change is used.
- Two timers with two wait times are a timer and the one whose destruction wakes it.  `MaxElapsed` is the longest
  wait time; beyond it the elapsed time is not told apart.
- Three steps are more than two cancellations in a row.
- The client's answers are one each of: sums out of range, values of the wrong kind, missing and unknown keys, arrays
  too short and too long, an error, no payload, no object.  `long` has 6 values and `int` 4 (`LongHalf`, `IntHalf`), so
  that sums and products leave both; a document has two levels and an array.
- Two threads and four requests are two logins that interleave, or a login between two commands, the first of
  which has left its answer behind.  Two levels are refused and granted.
- Three levels of directories are the least at which a second mkdir fails for a directory that is not the last;
  the other two files put a file where a directory should be, and two slashes in a row.  A behaviour has two actors
  (`Casts`), whose operations interleave in every way, with others that remove nodes at any moment; the UFF writer
  appends three values at a time, which meets every position in a line.  `Matching` is the one name of the files
  that readDirectory() is asked for.  The run takes about three minutes.
- Names (`ShortNames`) have up to three characters of space, 0, 1, A and a: a number that begins with 0 against one that does not,
  spaces inside and in front, and letters of either case; transitivity needs three names, which are all triples of
  these.  The theorem has no bound.

`CHECK_DEADLOCK FALSE` is said for `watchdog`, `nethelper` and `buffer_threads`, whose bounded calls can be used up, and where the
program, waiting for nobody's call, really stops.

## Findings

Four properties that the repository states are violated by the code:

- **Overrun of the target** (`circular_buffer.hpp:239`): the second copy of `getRange` has the length `end - len`
  and not `end - start - len`.  A continuing read of fewer elements than are pending whose range wraps writes
  `start` elements too many.
- **Rollover of base_id** (`circular_buffer.hpp:293`): when base_id is 0 again, readers that are up to date are
  taken for new ones and given the whole buffer.  This is reachable where `size_t` has 32 bits.
- **Early ticks** (`loopTimer.hpp:59`): `running` is never set, so a wait ends with the first wake-up, whoever it
  was meant for.
- **disconnect() throws** (`netHelper.cpp:358`) after the peer's reset, out of a function declared noexcept.

Other observations, from reading the code for the models; no run is about them:

- `connect()` is commented "Returns 0 on success, != 0 for errors" (netHelper.cpp:310-313) and throws for errors.
- Two processes that make the same directories: the one whose second mkdir finds the directory made
  (`fsHelper.cpp:50`) gives up, although directories below are still to be made.  `FailsForAReason` holds only
  because it excuses this.  `makePath("a/b/")` returns false after it has made `a/b`.
- `clearFile()` on an object with the default mode asks for `app | trunc`, which `open` refuses.
- `MultiWatchdog::enable()` on an enabled object leaves a pointer on the list behind the destructor;
  `ListIsWanted` excuses it, and `reenabled` remembers it.
- `connect()` and `disconnect()` leave `user_level` of an old connection until the next login.
- An answer to "auth" without a level, an error for instance, is logged inside the try of `login()` and then
  throws outside of it (`netHelper.cpp:157`): `user_level` stays what an earlier login made it, whatever the server
  has revoked.  `LevelAgrees` excuses it (`trusted`).
- `netHelper::send(const char*)` and `send(vector)` (netHelper.cpp:612-618) call themselves.
- `connect()` resolves the name without a deadline, and each operation of a call has the whole deadline: a command
  may take three of them.
- `deleteFilesRecursive` on a directory with a directory inside: the nested call removes it, the caller's `remove` then
  fails, and an exception leaves what is left.  `DeleteFailsForAReason` excuses it.  It closes no tinydir: after enough
  calls, or with directories deep enough, the system refuses to open another.
- `getDirectories` and `readDirectory` catch what goes wrong behind their first directory and return a part, without a
  sign that it is one: a directory that may not be read ends the listing of the one above it.  `ListingComplete`
  excuses calls that were refused something.
- `getVector()` on an empty buffer returns nothing, but its `last_value` is the `base_id` it reads without the mutex:
  what is added meanwhile is skipped.  `StreamKept` excuses it.
- A `getVector()` for the whole buffer can meet the overrun of `getRange` as well: it reduces what it asks for to what
  it has counted, and when an element is added before `get()` locks the mutex it is a read of fewer than are pending.
  `CopiesOnePiece` excuses it in `StreamKept` and `ExactOrNothing`.
- When `base_id` rolls over, a `getVector(exactly)` of a reader whose last_value is 0 finds a full buffer and returns
  nothing: the theorem about `ExactOrNothing` assumes that it does not (`NotRolledOver`).
- A copy assignment that throws leaves counters without their elements until the next assignment; the copy constructor
  is noexcept, so there the process ends.
- `arithmetic_merge_json` throws for a key that the target lacks, unless its value is null; integers that overflow are
  undefined, and wrap in the model as in the builds there are.  `value_ig_type<int>` takes a boolean for a number,
  `checkedUpdateFromJSON` does not.
- strnatcmp.cpp:64 says that leading zeros are skipped with the spaces; the code skips spaces only.
- The D-Bus part of `timedateHelper.hpp` assigns `ti.timesync`, a member that does not exist: it cannot be compiled.

### Hazards that no property catches

Some hazards are in the models, but nothing in the repository says what should happen, so that a property can only
excuse them.  Their entries in `PROJECT.json` name no property, or say which part one covers:

- `enable()` on an enabled object (`ListIsWanted`), waits that begin after kill_all() (`NoLostKill`);
- the level after logins of two threads that write it in the other order, after a login that throws, and after
  disconnect() (`LevelAgrees`); what a command reads after another has thrown (`AnswerBelongs`);
- a range into which another thread has added (`RangeTogether`), the target of an assignment that others use or that
  throws (`ObjectsWhole`, `CopyIsSnapshot`);
- release() beyond max(), an assertion; integer overflow in a merge, which is undefined.

## Fairness

- `Semaphore`: a thread inside the class goes on (`Notify`, `Recheck`) and deadlines pass (`Expire`).  Nothing is
  assumed of callers.  That a permit is not left while threads wait follows, because release() wakes *all*.
- `MultiWatchdog`: a thread that has not hung triggers again and again, which is what it is there for.
- `LoopTimer`: time advances, and threads that are runnable run.  When somebody waits, kills, destroys is open.
- `TimedOperation`: the timer expires at some time and the thread that calls `run_one()` runs.  The peer may be
  silent for ever (`StepEnds` is not fair).
- `NetClient`: besides, the thread that has come out of a loop goes on to its next operation or returns.
- `OutputFile`: a process inside openFile() makes its next system call.  `FileHelpers` assumes no more.
- `CircularBuffer`, `CircularBufferThreads`, `DirectoryWalk` and `NetHelper` state no liveness and assume no fairness.

Only weak fairness is used: each of these actions, once enabled, stays enabled until it is taken or until another
action of the same fair set is.

## What is proved

TLAPS checks every theorem for all values of the constants, from the named assumptions of the modules (a capacity of
at least 1 and below the width of `size_t`; a deadline or wait time is a natural number; and so on: the `ASSUME`s).
Each safety theorem is `Init => IInv`, `IInv /\ [Next]_vars => IInv'` and `IInv => Inv`.

| module | theorems | inductive invariant, and why it is needed |
|---|---|---|
| `CircularBuffer_proofs` | `TypeCorrectness`, `RingAgrees` | `TypeOK /\ RingInv`: indices into the vector are in bounds only because its length is the insert position or N, and the lengths agree only because the counters are in range |
| `CircularBuffer_proofs` | `ObjectsStayWhole`, `CopiesAreSnapshots` (of `CircularBufferThreads`) | `Types /\ SourcesApart /\ Pending /\ ObjectsWhole`: two assignments under way have different sources, by the mutex; and as long as one is not disturbed, the vectors it has still to copy or swap are those that go with the counters it has copied or swapped, because whoever changes one of its objects disturbs it |
| `CircularBuffer_proofs` | `ImplementsBoundedLog`, `SingleReadsCorrect`, `ReadsCorrect`, `StreamsContinue` | the same; the step proof maps each method to its action of `BoundedLog`, and each read to what the log gives, by lemmas on what `Offset`, `GetRange` and `Window` return (below) |
| `CircularBuffer_proofs` | `RangesStayTogether`, `StreamsKept`, `ExactReads` (of `CircularBufferThreads`) | besides, `CallsTyped /\ RangesAdded` and `RoomsFilled /\ CountsHold`: what a thread has added of its range is the end of the window, what a reader has allocated is no more than there is, and what it has counted is still there, unless it was disturbed |
| `Semaphore_proofs` | `TypeCorrectness`, `PermitsConserved`, `NoWakeupLost`, `ImplementsPermitsSafely` | `TypeOK /\ Conservation /\ NoLostWakeup`: "asleep beside a permit" is excluded only together with who is about to notify.  Each action maps to one of `Permits`, or changes nothing there |
| `MultiWatchdog_proofs` | `TypeCorrectness`, `HungThreadIsNoticed`, `ListCorrect` | `TypeOK /\ ReportsUsedOnce /\ ListInv`: a report is in the entry or used, never both; erasing the first pointer removes the entry only because a second one means a second enable() |
| `LoopTimer_proofs` | `TypeCorrectness`, `KillMissesNobody`, `TicksSpaced` | `TypeOK /\ CycleFarEnough /\ WokenOnTime /\ NoLostKill`: elapsed and remaining time together are at least the period, and an undisturbed thread wakes with nothing remaining |
| `NetClient_proofs` | `TypeCorrectness`, `LoopEndsComplete`, `OnlyDeadlineAborts` (of `TimedOperation`), `ClientLoopsComplete` | `TypeOK /\ Bookkeeping /\ LoopComplete /\ AbortedOnlyLate`: each of the two operations has a result or something left to happen.  `ClientStep` maps the steps of a client to steps of the loop, so the invariant holds in every one of its calls |
| `NetClient_proofs` | `ValuesKeptInForm` | the documents stay documents and the totals keep the form they began with; `MergeKeeps` (below) is the step |
| `NetClient_proofs` | `NoneWaitsForPeerAlone` | the same with `WaitsWithDeadline`: while a step waits, the deadline is still to come or its handler to run |
| `NetClient_proofs` | `CallsAreBounded` | `TypeOK /\ AheadTyped`: the pair of the operations that have not begun and of `Remaining` shrinks with every step of a call |
| `NetHelper_proofs` | `AnswersBelong`, `OneCommandAtATime` | `Types /\ OneUser /\ NothingElse /\ AnswerBelongs`: until a command throws, the connection holds nothing but the request, or the rest of the answer, of the one thread inside the mutex |
| `NetHelper_proofs` | `TypeCorrect` | the same with `Typed /\ Framed`: also after a failure, behind every length that is read whole come its data, so that what is read as a level is one |
| `NetHelper_proofs` | `LevelsAgree` | the same with `InAuth /\ OneLatest /\ AnswerLevel /\ VerdictLevel /\ WrittenLevel`: `user_level` is written outside the mutex, so the invariant follows the level from the peer through the answer and the thread's verdict into the member, for the one thread that authenticated last |
| `OutputFile_proofs` | `StreamNamed`, and over `FileHelpers` `StreamNamedAmongAll` | `Members /\ ClosedInCall /\ StreamMatchesName`: inside openFile() the stream is closed, or a failing call would leave it under another name |
| `OutputFile_proofs` | `LinesOfFour` (over `FileHelpers`) | the same with `Uff /\ DataLines`: a count modulo four and a column that differ by what was counted before the line; opening a file begins the line, whoever's step it is |
| `OutputFile_proofs` | `TypeCorrectness` (over `FileHelpers`) | the same with `Places`: nodes are paths of at least one name, what is above a node is a directory, and a call of makePath is at a level of its path |
| `OutputFile_proofs` | `FailuresHaveReasons` | the same with `WayInv`: what makePath knows of the levels above and below its own; a reason to fail once found stays one |
| `OutputFile_proofs` | `OpeningIsBounded` | the same as of `TypeCorrectness`: the level is one of the path, so `StepsLeft` (down from it and up again) shrinks with every step of the call and with no other |
| `OutputFile_proofs` | `NothingOutsideIsDeleted` | the same with `WalkInv`: every directory on a walker's stack is the one it was called for or below it |
| `OutputFile_proofs` | `DeletionFailsForAReason` | the same with `DeleteInv`: of an undisturbed deletion of a directory of files, what is left to remove is what is in the directory, so that whatever step it ends at could be done (`GoodPossible`) |
| `OutputFile_proofs` | `ListingsAreComplete` | the same with `ListInv`: every node there was at the call is found, or below an entry that a directory on the stack has still to look at; a call that was never refused takes every entry for what it is (`TakenAsIs`, `Unrefused`) |
| `OutputFile_proofs` | `ListingsSortSafely` | none: the order is the same in every state.  `OrderOfNames` takes it from `NaturalOrder_proofs` (below) |

`ImplementsBoundedLog` has one more hypothesis, that continuing reads ask for at least the capacity: without it the
theorem is false, as `buffer_overrun` shows.  `ExactReads` has the hypothesis `NotRolledOver`, that no `base_id`
reaches the largest `size_t`; `StreamsKept` needs none, because `StreamKept` speaks of numbers only where those of the
reader and the buffer follow one another (`Follows`), and the other theorems about threads do not speak of numbers.

### The arguments of the longer proofs

**Reads of the buffer.**  `RetainedInBounds` puts the place of every retained element inside the vector;
`GetRangePiece` says that a range in one piece is a piece of the window.  `GivenValue` says the same of what the log
gives, so that `GetMeaning` (of `get()`) and `ReadMeaning` (of every kind of read) are comparisons of two pieces of
one sequence.  `OnePiece` is their hypothesis, and `WholeReadInOnePiece` discharges it for reads that are as long as
what is pending.  `GetContinues` is the consequence for a stream: the piece begins right behind `last_value`.

**Threads at the buffer.**  `OthersKept` is the lemma on which the invariants rest: a step of one thread leaves the call
of another as it was, disturbs it, or at most adds an element to the object it reads.  So each invariant is checked
for the steps of the call's own thread, and against "one more element", which makes what is counted grow and shifts
the window.

**Paths and trees.**  `NodeOf` leaves out the empty names of a path with a recursive function, of which only one step is
visible to the provers; what it returns is proved by `Induction`, an induction on natural numbers which
comes from well-foundedness (`WFMin`).  `Tree` is kept by every system call, because mkdir and open need the directory
above and rmdir an empty one.

**Walkers.**  `FileHelpers` has four kinds of actors, and a walker's invariant is disturbed by all of them.  `Comes` and
`Goes` reduce the others' steps to a node that comes or goes: it is then below the call's directory, and the call is
`meddled` with, or it is not, and what the call knows is kept (`OthersSeen`).  That leaves the walker's
own steps, by the entry that is looked at.

**The natural order.**  `NaturalOrder_proofs` has no state machine.  It first shows that the recursive functions on
strings exist (`Recursion`): a string has a tail that is shorter, so solutions up to a length are joined to one.  Then
`CompareLeft` and `CompareRight` are total preorders of runs of digits (`LeftOrder`, `RightOrder`), by induction on
the length.  That the one or the other is taken, depending on both numbers, does no harm (`RunsOrder`), for `CompareLeft`
is taken when either begins with a zero, and puts a run that begins with one below every run that does not
(`ZeroFirst`); two that do not are compared by `CompareRight`.  Behind that, strings are compared by their heads and
then by their tails (`HeadsOrder`), and an induction on the length of both gives the strict weak order
(`NaturalOrdered`).

**Documents.**  `WrappedInRange` and `OperateGives` show that an operation on two longs is a long or a double, so
`CombineKeeps` that a place is left as it is or a number is replaced by a number.  Because a document is a function
from places to values, `MergeKeeps` follows place by place, with no induction over documents: objects and arrays stay
where they are, so the parent of each place is still one.

**Why calls end.**  That a call ends needs fairness; what fairness cannot give is proved: there is no cycle in a call.
`Remaining` counts the results, handlers and checks that a loop still has to run; a cancelled step or timer is worth less
than one under way, and a handler that starts the next part of a transfer has used up one.  `StepsLeft` does the same for
makePath and its two attempts at a level.

**What the proofs assume of the constants.**  `DirectoryWalkAssumption` leaves the names `.` and `..` out of the files
that are opened: they name directories that have another name in the tree.  The walkers pass over such entries, as the
code does.  `SortedNamesAssumption` says that names are C strings, and `NetClientAssumption` that what nlohmann's parser
returns, and the totals of a client, are documents.

### Only model-checked

- Liveness (`TimedAttemptEnds`, `KeepsNotifying`, `WaitEnds`, `CallEnds`, `OpenEnds`), which rests on fairness, and of
  `ImplementsPermits` the part that does.
- Of `CallEnds` and `OpenEnds`, that the next step of a call comes at all; that its steps are bounded is proved.

Every safety property that a passing run checks is a theorem.  The type invariant of `MultiWatchdog` is only proved.

## What is not modelled

- `getValue()` of `CircularBuffer`: `getPosition()` and a JSON lookup.  Reads of a `torn` object: undefined.
- `getDirectories` without recursion, links and special files, prefixes and suffixes as strings; moving an
  `OutputFile`; the text of UFF headers and numbers; `merge_json` (nlohmann's `update`), `is_json_*` as such.
- The names in a directory are read when it is opened: an error of readdir between two entries, which ends the loop in
  silence, and names that are too long for tinydir are left out.
- What doubles and strings hold: a division by zero is a double like any other.
- `timedateHelper.hpp`: commands to `timedatectl` and D-Bus and the C library's conversions; a stopwatch; constants;
  type traits: no state that two calls share.
- daemonize, dropPriviledges, pipeSystemCommand, systemd's socket: system calls whose effects lie outside.
- The parsing of JSON and MessagePack answers, hashing, TLS and asio: external; a login's answer is a level or
  none, and login() then throws.
- Two threads that connect at once (a data race inside asio): `NetClient` has one thread, `NetHelper`'s threads share a
  connection that is made.
- Data races on unlocked members (`wait_time`, the counters `getNewDataAmount` reads): each is read or written as a
  whole, at any moment.
- CMake files, scripts, tests.

## State of the work

Modelled, checked and proved: the circular buffer, its log and its threads; the semaphore; the watchdog; the timer; the
timed operation and the client that makes its calls of it; the connection between threads; the output file, and with it
the directory walks, the UFF writer and the natural order; the JSON helpers.  Every safety property of the runs is a
theorem; liveness is left to TLC.

What could follow: an abstract specification of a call with a deadline that both `TimedOperation` and the steps of
`NetHelper` implement.  It would say what the two already share in words, a result or abortion at the deadline
(`LoopEndsComplete`, `OnlyDeadlineAborts`), and only pays when more of the connection is modelled.
