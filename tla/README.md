# Verification of ioprocess

ioprocess runs risky file system calls in a child process, so that storage that
hangs does not take the main program with it. A Python client (class
`IOProcess`) starts the child, sends it requests over one pipe, reads the
responses from another, and replaces the child when it dies. This directory
holds TLA+ models of the program, the TLC runs that check them and the TLAPS
proofs about them. `PROJECT.json` lists the components, runs, mutants, the map
from definitions to source lines, the findings, the hazards and the theorems.

Source files are named relative to the repository: `ioprocess.c` and
`exported-functions.c` are in `src/`, the client is
`bindings/python/ioprocess/__init__.py`.

## Inventory

| Component | State | Operations | Interacts by | What is hard |
|---|---|---|---|---|
| `requestReader` (ioprocess.c) | bytes of the current message, its copy of the pipe descriptor | read a size, read a message, parse it, queue it; on any error queue `STOP_PTR` and end | request pipe, `requestQueue` | its descriptor is closed by other threads; only the end of the pipe tells it that the client is gone |
| `requestHandler` | `queueSlotsLeft` on its stack, the thread pool | take a slot or reject with EAGAIN, push to the pool, shut down | both queues, the pool, `stop_request_reader()` | lock-free counter shared with the workers; failing allocation and thread creation |
| `servRequest` (pool threads) | one request each | extract, look up, call the exported function, queue the answer, free the request, give the slot back | `responseQueue`, the counter | calls that hang; order of answer and release |
| `responseWriter` | the response being written | pop, generate, write; on error close the request pipe | `responseQueue`, response pipe | broken pipes, the stop marker behind everything |
| `communicate` | the queues | start and join the threads, drop the queues | all of the above | nothing may be used after it returns |
| exported functions (exported-functions.c) | files | `readfile`, `writefile`, `truncate`, `touch`, `fsyncPath`, `probe_block_size`, names, status | system calls; any number at once | short reads and writes, direct I/O, files that change meanwhile, clean-up on errors |
| `IOProcess` callers | `_commandQueue`, event pipe, `CmdResult` | `_sendCommand`, `_pingPoller` | queue plus wake-up byte | lost wake-ups, timeouts and late answers |
| `_communicate` thread | pending requests, the request being sent | poll loop, cleanup, restart | all pipes, `_lock`, `_started` | the child dies at any point; the client is closed or collected |
| `_run`, `__init__`, `close`, `__del__` | `_isRunning`, `_commthread`, descriptors | start, restart, close | `_lock`, `join` | start, restart and close race |
| message framing (`DataSender`, `ResponseReader`, `requestReader`, `responseWriter`) | partial sizes and texts at four ends | write what fits, read what is there | both pipes | short reads and writes, a stale size at the end of the pipe, characters and bytes, either process stops in the middle |
| JSON DOM, parser, generator (json-dom*.c) | tree, stack of open containers, one key buffer | yajl callbacks, free, generate | `requestReader`, `responseWriter` | nesting, keys that come twice, texts that break off, nodes that cannot be allocated |
| arguments and results (`safeGetArg...`, the methods of `IOProcess`) | one call | send, extract, call, answer, return or raise | every exported function | two tables of names and types in two languages; errors that are swallowed |
| logging (`logfunc`, `logWriter`, `stop_logging`, `_processLogs`) | log queue, stderr, partial lines | queue, write, split | stderr pipe | stderr is closed under the log thread; lines cut anywhere, by reads and by crashes |
| start-up (`parseCmdLine`, `closeUnrelatedFDs`, `main`) | options, open descriptors | check, scan, close | `/proc/self/fd`, the slot counter | a directory that changes while it is read; sums of options |
| utils.c (`iop_strerror`) | | | | |

What makes the parts correct:

* server: limits are kept and rejections are justified; one answer per request;
  an orderly shutdown that answers what was read and uses nothing after it was
  freed; it ends when its client does; hung calls do not block others;
* client: every call gets its own result or the report of a crash, once; no
  wake-up is lost; one child at a time; a dead child is replaced; `close()`
  ends the child and returns; calls after it raise `Closed`;
* file operations: success means complete; whatever fails, no probe file is
  left lying around; calls end;
* framing: each pipe is a channel of whole messages, and no peer is given up that
  is still there;
* JSON: the tree is what the text means, and every node has one owner;
* arguments and results: both languages agree, and what a method returns is what
  happened;
* logging: whole messages, in order, of one child at a time; it ends;
* start-up: the descriptors that are needed and no others; exact limits.

## Modules

| Module | Subject |
|---|---|
| `Server` | the threads of `communicate()`, queues, pool, slot counter, shutdown; its properties and its inductive invariant |
| `ServerProofs` | theorems about the threads, the queues and the slot counter of `Server`, its responses, the memory of requests and the refinement of `ChildProcess` |
| `ChildProcess` | abstract: a child seen through its pipes |
| `Client` | the Python client with its threads, callers and a series of children |
| `ClientProofs` | theorems about `Client`, its two refinements included |
| `CallService` | abstract: what a caller of the client relies on |
| `RequestFraming`, `ResponseFraming` | the two ends of each pipe, in units of a size or a piece of text |
| `Framing` | both pipes between one communication thread and one child, composed |
| `FramingProofs` | theorems about `Framing` |
| `StreamLemmas` | facts about numbers, joined texts and cut streams that the proofs about framing, files, logging and JSON share |
| `Channel` | abstract: messages arrive whole, once and in order |
| `FileOps` | the exported functions of several system calls, on shared files |
| `FileOpsProofs` | theorems about `FileOps` |
| `Calls` | arguments, results and errors of every method, from Python to the system call and back |
| `CallsProofs` | theorems about `Calls` |
| `JsonDom` | tree, parser callbacks, generator |
| `JsonDomProofs` | theorems about `JsonDom` |
| `Logging` | the log thread, its shutdown, and the lines in the client |
| `Startup` | options, inherited descriptors, the slot counter as a `gint` |
| `MainProofs` | theorems about `Startup` and `Logging`, what `main()` does around `communicate()` |
| `MCServer`, `MCClient`, `MCFraming`, `MCFileOps`, `MCCalls`, `MCJsonDom`, `MCLogging`, `MCStartup` | constants for TLC |

How they fit together. `Client` and `Server` are never run as one model; they meet
in two abstract specifications. `ChildProcess` says what a child does as its
client sees it: it takes requests, answers each at most once, says nothing it was
not asked for, and may die. `Server` implements it (`ImplementsChild`), and
`Client` uses each of its children by it (`UsesChild`). Both treat a message as
one element of a pipe; `Channel` says the same, and `Framing` shows that sizes,
short reads and short writes implement it. Upwards, `Client` implements
`CallService` (`ImplementsService`). `Startup` shows that the options `Server`
assumes are the ones `parseCmdLine` lets through, and that its unbounded counter
may stand for a `gint`. `Calls` and `FileOps` open up what `Server` calls a
request of kind "call".

Definitions named `Mutant_...` are defective versions of the definition they
precede. They are not part of any specification; replacing a definition by its
mutant must make TLC report the property it is listed with in `PROJECT.json`,
which shows that the property depends on that piece of code.

### Server

One variable per queue, a program counter per thread (`reader`, `handler`,
`writer`, `main`), and for each request the `stage` it has reached. A request is
an element of the constant set `Request`, and `Kind` says what its message
holds: a call that returns, one that may block for ever, an unknown method, no
id, `crash`, or bytes that are not JSON. The steps of a thread are cut where
another thread can see the difference: `HandlerAdmit` (the atomic
`g_atomic_int_dec_and_test`), `servQueueFull` and `HandlerUndo` are three steps,
`WorkerAnswer` and `WorkerRelease` are two, and `stop_request_reader()`, which
two threads call without a lock, is a test and a close. `readFd` says what the
descriptor number of the request pipe refers to: closing it does not wake a
thread that is in `read()`, and a worker's `open()` may be given the number
(`WorkerOpen`). The pool is modelled from its use: `g_thread_pool_push` adds a
thread when none is free and the limit allows it, and reports an error after
queueing the task when that fails; idle threads leave a shared pool;
`g_thread_pool_free(pool, FALSE, TRUE)` waits for everything. `create_thread`
uses `g_thread_new`, which aborts the process instead of returning NULL, so the
checks of its result in `communicate()` have no behaviour to model. Writing to
a pipe nobody reads kills the process (SIGPIPE), or fails if the signal was
ignored (fault `write`). Fault `malloc` is the allocation of `RequestParams` and
of the text of a response (whose failure kills the process: the generator copies
into it before anybody looks); fault `pthread` is thread creation in the pool.
`heap` holds the requests whose tree is allocated. A response is recorded as its
request; on the pipe it is the id, and a rejected request without one is answered
with id -1, which no call of the client has. At the end of the pipe the reader makes
two `read()`s, one for the size, whose 0 it does not test, and one for the message
(`ReaderEof`, `ReaderPipeClosed`).

### Client

The child process and the communication thread started with it form a
generation. `th[g]` is where the thread of generation `g` is, `batch[g]` the
entries of the list `poll()` returned that it has not handled, in the order in
which the descriptors were registered. One action per branch of the loop:
`CommError`, `CommRead`, `CommEvt`, `CommWrite`; `CommFinally` and
`CommRestart` / `CommAssign` / `CommWait` are the finally block and the `_run()`
it calls under the lock. The constructor runs the same code without the lock
(`InitRun`, `InitAssign`, `InitWait`); the steps are cut at the assignment of
`_commthread`. `closer` walks through `close()`; `close(False)` of `__del__` is
only possible when no caller and no running loop iteration holds a reference.
Log data on stderr changes nothing here and is left out.

### FileOps

Each pool thread serves one call, one system call per action; between them
other calls act on the same names and files. `data[i]` is what inode `i` holds,
`disk[i]` what is known to be on disk. Reads and writes may be short (direct
ones only at the end of the file or by whole blocks); any system call may fail,
`rename`, `link` and `unlink` for the names they find or for another reason.
A probe is made in a directory, and `Accepted` gives the sizes its file system takes;
one that takes none may refuse the `open()` already. `Return` includes the `close()`
of the clean-up that all paths of a function share; nobody else sees that close, and no
property is about it.
`readfile` encodes chunk by chunk: a base64 text is the sequence of its groups,
`b64Save` the bytes `g_base64_encode_step` holds back. `n` is the loop counter of
each function, in `readfile` an `int` that wraps at `IntMax`. `disturbed` is a
history variable: another thread has changed the file this call has open. Once
`total_rd` has wrapped, `readfile` may return many times the file or fail with
EINVAL; `ReadBounded` names the sizes from which on that can happen.

### RequestFraming, ResponseFraming, Framing

A unit of a pipe is the 8-byte size or a piece of a text. A size is never split:
the client writes after POLLOUT only, when a page of the pipe is free, and the
server writes it with one blocking `write()` of fewer than `PIPE_BUF` bytes. Writes
take any number of units that fit, reads take what is there. `dumps` models that
`json.dumps()` escapes what is not ASCII, on which the size field, counted in
characters, depends. `ReaderSize` keeps `reqSize` when `read()` returns 0, as the
code does. `Framing` composes the two: one thread of the client sends and
receives, never both in one step, and a response is written to a request that
was read; either process may stop at any point.

### JsonDom

The callbacks of `json-dom-parser.c` as a stack machine over the tokens of yajl,
which is modelled by the grammar it enforces. The meaning of a text, a set of
paths, is computed beside it and not from the tree, and the tree is compared with
it. `yajl_gen` writes up to 127 containers inside each other (`MaxDepth`) and the
generator looks at none of its statuses: what it makes of a deeper tree is not defined,
and `RoundTrip` speaks of the others. `freed` and the properties about owners model who frees
what: `JsonNode_free()` frees `Below(n)`, the least set with `n` that holds the children of
its members.
`at` is a history variable, the path of each node's value in the text. The generator
is a recursive function over the tree.

### Calls

One call at a time, as no two share state: a method of the Python class, or a raw
request with arguments of any type. `Params` is what the C functions extract,
`Wrapper` what the Python methods send, and the result of a function is its kind
and, of a map, its keys, so that a field missing on one side shows up as the
`KeyError` it would be. A value of the wrong type that is stored in a variable of
another type leads to the place "undefined". `happened` records how the requests
of a call went in the process, whatever became of their answers, and is what the
return value is compared with. The process may die before the operation or behind it
with the answer (`lost` records those), the caller's time may be over at any moment
(`TimeOut`), and `writefile` without memory for its aligned buffer reports whatever
errno holds, 0 included, which the client takes for a success, as it tests `errcode`.

### Logging

Messages are sequences of bytes that know their message and their place in it.
The log thread may be before, in or behind `fwrite()` when `stop_logging()` calls
`fclose()`; a write to the closed stream fails and ends the thread. The client
reads any number of bytes and splits them as `_processLogs()` does: the k-th line
stops at the k-th line end, "\n", "\r\n" or "\r" alone, which a path can bring into a
message: the line before it does not end with "\n", so the client keeps it for unfinished
and drops the rest of what it has. `Clean` says that no such "\r" was read. Children
follow each other; `pushed`, `taken` and `lines` are the history of the present one.

### Startup

`parseCmdLine` over options at their edges, `closeUnrelatedFDs` with a directory
that is read in batches while its entries disappear and whose own descriptor is
one of them, and the counter with the width of `MaxInt`: sums and decrements wrap.

## Runs

All runs check for deadlock except `client_wakeup`, where the caller that nobody
answers is the deadlock, `logging_lines`, where the last child has ended (or
waits for a log thread that nothing wakes, see below), and `startup_options`, where
a process that refused its options has ended. The inductive invariant of each module
is a conjunct of one of its invariants
(`ServerInv` stands alone; `ClientInv` is in `OnePlace`, `FileInv` in `ReadBounded`,
`CallsInv` in `WrappersAgree`, `FramingInv` in `FailsOnlyWithPeer`, `DomInv` and
`ShapeInv` in `BuildsValue`, `LogInv` in `ReportedInOrder`, `StartInv` in `CleanStart`),
so that TLC checks on small instances what the proofs rest on.

| Run | Instance | Shows |
|---|---|---|
| `server_faults` | 2 threads, 1 queue slot, two calls, a request without id, `crash`, garbage, all faults | counter exact, limits kept, rejections justified, at most one answer, memory and shutdown order, the inductive invariant, the refinement of `ChildProcess` |
| `server_live` | 2 threads, no queue slot, a call, an unknown method and a call that hangs, no faults | the process ends after its client; calls are answered although one hangs; the reader stays on its pipe |
| `server_eagain` | violation, 1 thread, no queue slot, a client that waits for each answer before its next call (`PatientSpec`) | see findings |
| `client_safety` | 3 calls, 2 children, crashes, garbled answers, timeouts, slow threads, close | one place per call, results are the caller's own, one child at a time, close ends the child; `ChildProcess` used as specified, `CallService` implemented |
| `client_restart` | 2 calls, 3 children, crashes, timeouts, close, descriptor numbers reused | wake-ups, answers, replacement of the child, termination of `close()` |
| `client_wakeup` | violation | see findings |
| `framing_pipes` | 3 requests (short, longer than the pipe, not ASCII) and their responses, pipes of 3 units, either process stops, no memory | both pipes implement `Channel`; nobody gives up a peer that is there; every call completes although both pipes fill |
| `fileops_calls` | 2 calls at a time, every pair, 2 names, files of 0 to 6 bytes, blocks of 2, directories with and without direct I/O, all faults | complete reads and writes, bounds under concurrent changes, alignment, probe result and clean-up, termination |
| `calls_returns` | every method, every raw request with arguments of five kinds, crashes, timeouts, no memory | names and types agree, missing arguments are refused, return values are honest |
| `jsondom_parse` | every text of up to 4 values, 2 keys of which one begins the other, texts that break off, nodes that cannot be allocated, a generator that writes 3 levels | the tree is what the text means, generating it gives that back unless it is too deep, one owner per node, all freed |
| `logging_lines` | 3 messages of each of 2 children, reads of up to 4 bytes, crashes, no memory | no line mixes messages; all are reported in order unless a "\r" stood alone; the log thread ends |
| `startup_options` | descriptors 0 to 5, limits -1, 0, 1 and the largest, batches of 3 entries, failing system calls | the threads start with the right descriptors; the limit is exact when the counter wraps |

Bounds. `Capacity` (threads plus queue) of 3 with four requests that reach the pool
makes every request meet a full, a partly full and an empty server, and lets a
rejection overlap a release; more requests repeat these cases, and the theorems
cover every number. A pipe of one message lets its writer block. Two or three
children are enough for an answer, a ping or a lock of one generation to meet
the next; `MaxGen` is also the generation that may not die, so that liveness is
not lost to an endless series of crashes. `Chunks` = 1 still separates "sent"
from "noticed to be sent", which is what the dropped event byte depends on.
Framing: three units hold a size and part of a text, so that a message is cut at
every place, and the third message meets the leftovers of the first. A file of
three or four bytes read in blocks of two spans group boundaries of the encoding
and aligned and unaligned ends; six bytes exceed `IntMax` = 5, so that the counter
wraps. Four values allow a map in a map with a key before and a key behind it,
which is what the shared key buffer can confuse. Messages of three bytes and reads
of up to four cut within and across messages; a second child meets the leftovers
of the first.

Symmetry of interchangeable calls is used in the safety runs only.

Fairness. `Server`: the threads of the process are scheduled, an exported
function that can return does (not one of kind `hang`), and a connected client
reads. Nothing is assumed of the client's sending or closing, of pool threads
retiring, or of failures. `Client`: its threads run and a child answers what it
was sent; nothing is assumed of crashes, timeouts or `close()`. `FileOps`: a call
that has begun keeps making system calls; the fairness condition excludes steps
that fail, so that no loop is ended by a failure it could have been spared.
`Framing`: the threads of both processes run and a request that was read is
answered; nothing is assumed of the client's sending, of deaths or of `close()`.
`Logging`: the log thread and the main thread run, and a write to stderr returns
because the client reads it; nothing is assumed of who logs and when.

## Findings

* `server_eagain`: a worker's answer is queued before its slot is free. A client
  that never has more calls under way than the limits allow, because it sends the next
  one only when it has received enough answers (`KeepsLimit`), can get EAGAIN. The trace
  has a limit of one: the second call is sent after the answer to the first was received,
  and is turned away because the worker has not yet counted its slot.
* `client_wakeup`: an event byte dropped while a request is being sent is not
  made good if the child dies before that request is complete. The command
  behind it waits for somebody else's ping or its own timeout.

Other weaknesses of the code that are in the models, each as an exception that a
property names, a state it excludes, or an input an assumption leaves out:

* `servQueueFull` frees neither the request nor its parameters (the exception in
  `NodeLifetime`).
* When a pool thread cannot be created, the handler closes the request pipe under
  the reader, which may then read a worker's file: `ReaderStaysOnPipe` holds
  without faults only (theorem `ReaderOnPipe`), and fails with fault `pthread`. If
  it was the first thread, the flush of the pool waits for ever for the task that
  was queued before the error was reported.
* A child that dies while the constructor runs (fault `startcrash` of `Client`) makes
  the constructor overwrite `_commthread`; `close()` then joins the wrong thread and
  `OneChild` fails.
* A communication thread that finds the client collected when it starts returns before
  its try block (place "leaked" of `CommStart`): its child is neither killed nor waited
  for and its pipes stay open, until the program ends. `OneChild` speaks of restarts and
  of `close()`, not of this.
* A call after `close()` may write its byte into a file that got the number of the
  event pipe and wait instead of raising `Closed`: `ResultIsOwn` fails with fault
  `fdreuse`.
* `Spins` (a file truncated during `readfile`, or larger than an `int` can count,
  keeps a pool thread in its loop for ever) is the exception of `CallReturns`.
* `WritePrepare` may report success for a direct write whose buffer could not be
  allocated, as `posix_memalign` sets no errno; `WriteComplete` therefore speaks of
  successes behind the write loop, and `HonestReturn` names this outcome ("nomem").
* A request that succeeded counts as a failure for its caller when the process dies
  with the answer: `access()` and `pathExists()` then return False (`lost` in
  `HonestReturn`).
* An argument of the wrong type is noticed by `safeGetArg` and used all the same
  (place "undefined" of `Calls`); `WrappersAgree` shows that no method of the
  class sends one.
* `listdir` takes an error of `readdir` for the end of the directory ("cut", the
  exception of `HonestReturn`).
* A string node that cannot be allocated is read through before it is tested
  (place "crashed" of `JsonDom`), and a container that cannot be allocated leaks
  its table.
* A carriage return without a line feed in a log message makes the client drop
  what it has read behind it (the exception `Clean` of `ReportedInOrder`).
* Without memory for the message CLOSE, and with nothing else queued, the log
  thread is not woken and the process does not exit (the exception of
  `LogThreadStops`).

## Proofs

Every theorem holds for all values of the constants that satisfy the assumptions
below: any number of requests, calls, children, threads, names and descriptors,
texts and pipes of any size, any set of faults unless the theorem names one.

| Module | Theorem | Says |
|---|---|---|
| `ServerProofs` | `TypeCorrect` | `TypeOK` always holds |
| | `CounterExact` | `SlotAccounting`: `queueSlotsLeft` is exact at every step |
| | `LimitsKept` | `AdmissionBound`: the limits of the options are kept |
| | `RejectionsHonest` | `RejectionHonest`: EAGAIN only when all slots are taken |
| | `NothingUsedAfterFree` | `NoUseAfterFree`: nobody uses the counter or the queues after they are gone |
| | `ReaderOnPipe` | without faults, `ReaderStaysOnPipe` |
| | `Invariance` | `ServerInv`, the inductive invariant |
| | `MemoryKept` | `NodeLifetime`: a request is freed when nobody needs it, and not before |
| | `AnsweredOnce` | `AtMostOneResponse` |
| | `DrainedOnExit` | `DrainOnExit`: a process that ends by itself has answered all it has read |
| | `ServerImplementsChild` | `ImplementsChild`: `Server` refines `ChildProcess` |
| `ClientProofs` | `ClientInvariance` | `ClientInv`, the inductive invariant |
| | `NeitherLostNorRepeated` | `OnePlace`: a call is in one place, over crashes and restarts |
| | `OwnResult` | without fault `fdreuse`, `ResultIsOwn` |
| | `OneChildAlive` | without fault `startcrash`, `OneChild` |
| | `WakeupKept` | without fault `garbled`, `NoLostWakeup` |
| | `ClientUsesChild` | `UsesChild`: each child is used as `ChildProcess` says |
| | `ClientImplementsService` | `ImplementsService`: `Client` refines `CallService` |
| `FramingProofs` | `GivesUpWithPeerOnly` | `FailsOnlyWithPeer`, with the inductive invariant `FramingInv` |
| | `MessagesCross` | `ImplementsChannels`: both pipes refine `Channel` |
| `FileOpsProofs` | `FileInvariance` | `FileInv`, the inductive invariant |
| | `ReadWithinBounds` | `ReadBounded` |
| | `ReadsSnapshot` | `ReadIsSnapshot`, a property of steps |
| | `WritesCompletely` | `WriteComplete`, a property of steps |
| | `ProbeIsHonest`, `NoCallLeavesAnything` | `ProbeHonest`, `NothingLeft` |
| `CallsProofs` | `CallsInvariance` | `CallsInv`, the inductive invariant, and `HonestReturn` |
| | `WrappersAgreeAlways`, `ReturnsAreHonest` | `WrappersAgree`, `HonestReturn` |
| `JsonDomProofs` | `TreeOwned` | `OwnedOnce` |
| | `TreeIsValue` | `BuildsValue`, with the inductive invariants `DomInv` and `ShapeInv` |
| | `TreeRoundTrip` | `RoundTrip` |
| `MainProofs` | `OnlyNeededDescriptors` | `CleanStart`, with the inductive invariant `StartInv` |
| | `LimitInAnyWidth` | `RejectsAtLimit` |
| | `LogInvariance` | `LogInv`, the inductive invariant, and `NoRawLogData` |
| | `LinesOfOneMessage`, `LinesInOrder` | `NoRawLogData`, `ReportedInOrder` |

`ServerImplementsChild` and `ClientUsesChild` meet in `ChildProcess`: what a client
relies on is what a server was proved to do, and `MessagesCross` justifies that
both treat a message as one element of a pipe.

Assumptions. `OptionsAssumption` of `Server` is what `parseCmdLine` accepts. The
`ConstantsAssumption`s say that sets are finite where the program has finitely
many, that sizes are positive, and that a name that stands for "nothing" (a stop
marker, an empty slot, `NoMsg`, `NoResult`) is none of the things it could be
confused with; `StopAssumption` says it of responses. `Startup` has `MaxFd >= 2`: the
three standard streams have numbers. `CallsAssumption` of `FileOps` lists the
arguments each function takes; the data of a `writefile` are base64 groups. A message
of `Logging` begins with its level and ends with a line feed. A key of
`JsonDom` is a text without NUL. TLC evaluates all of them in the runs.

Three theorems exclude a fault, because with it the property is false (see the
weaknesses above): a child that dies before the constructor has returned makes
`close()` join the wrong thread; a descriptor number that is reused takes the byte of
a call made after `close()`; and a thread that stops over a garbled response has
dropped event bytes while its child still lives, for the moment until it kills it.

### Server

`SlotAccounting` alone is not inductive: a step that moves a request between stages
changes the number of admitted requests by one only if the request was where the
step says it was. `PlacesInv` states that: the pipe and the queues hold distinct
requests, each at the stage that goes with the place, and every pooled request is
in the pool's queue. `HandsInv` says that a thread about to use a request has one.
`SlotsInv` adds that outside a rejection the counter is positive, so that
`dec_and_test` sees zero exactly when the capacity is used up and the counter never
passes it; the limit of running calls follows from the limit of pool threads.
`ShutdownInv` gives the order in which the threads end and, without faults, that the
descriptor is closed only after the reader has left. Each part is preserved by a
lemma of its own (`TypeStep`, `HandsStep`, `PlacesStep`, `SlotsStep`, `ShutdownStep`)
with one step per action.

Responses need four parts more. `AnswersInv`: a response is in the queue, in the
writer's hands or written, once, and its request was served or turned away.
`StopLast`: the stop marker is the last element of the response queue, because who
queues a response is a worker or the handler, and neither is left when the handler
queues it. `NoneMislaid`: a request that was read is queued, in the handler's hands
or in the pool. `NoneDropped`: a process that was not killed still has, or has
written, every response it owes. `DrainOnExit` follows: the writer ends at the stop
marker, with nothing behind it. The refinement maps a written response to an
answered request and takes each action in turn.

### Client

`GenerationsInv` says that only the latest generation has a living child or a thread
in its loop, and ties the lock to the thread that restarts; `JoinInv` that
`_commthread` is the latest thread or the one about to be replaced. `MessagesInv` says
of each generation that its events took place, that what travels to and from its
child are requests it has registered under that id, and that a thread outside its
loop owes no answer. `PlacesInv` is `OnePlace` in a form that steps preserve: the queue
and the tables of pending requests are injective and disjoint, and ids count the
calls that have left the queue, so that a new id is never one in use. The invariant of
`NoLostWakeup` (in `ClientProofs`) adds which bytes the thread may have dropped.
For `ImplementsService` the outcome of a call is a function of what its caller does
and of its result, and changes only in the steps that answer, time out or close.

### Framing

For each direction, the invariant is one equation: what the reader has in its buffer,
what is in the pipe and what the writer has not written, joined, are the texts of the
messages that were sent and not delivered (`RequestInv`, `ResponseInv`). A write moves a
piece across the second cut, a read across the first; when the buffer has the length
the size announced, it is the first text and the rest is the rest (`SameParts`), so it
parses and the message delivered is the next one. `Ahead` joins any number of texts
with `FlattenSeq`, so the proof needs induction over their number (`StreamLemmas`). The
exception for a client that has gone is the stale `reqSize`: the buffer is then
empty, stays empty, and no request comes of it.

### File operations

`StageInv` ties descriptor, probe file and answer of a call to its stage, `ProbeInv` the
sizes tried so far, `ReadInv` and `LoopInv` the loop of `readfile`: what the groups of the
text decode to, with the bytes the encoder holds back, is the file up to the offset,
unless it was disturbed. That `g_base64_encode_step` keeps this is the lemma
`EncodeKeeps`. A step of another call keeps it because it marks as disturbed every
call whose file it changes (`CallKept`).

### Calls and start-up

`RequestInv` of `Calls` says that a method of the class has sent exactly what its function
extracts, by going through the tables of both languages; `AnswerInv` relates error code,
result, history and lost answers: a code other than 0 means that the last request failed
or its answer was lost, and 0 that its answer is there. `ScanInv` of
`Startup` says that every open descriptor the reading has passed is in the batch or kept,
that nothing needed was closed and that
the only new descriptor is the directory's own; `CountInv` that the counter is the wrapped
value of the exact one, which is small enough to be zero exactly when the exact one is.

### JSON

`Tree` (every live node but the root has one parent and one place there, and the live
nodes hold the children of their members) is what `OwnedOnce` says while a tree exists. It is
not inductive alone: that a repeated key frees nothing that is still needed rests on the
stack. `StackInv`: the open containers are on it with the innermost first and the root
behind them, twice if it is a container itself. `OpenInv`: they are the containers the text
has open, with as many elements, and the key in the one buffer is the one the innermost map
waits with; a nested map may overwrite it, since only the innermost is ever between a key and
its value. `PlaceInv`: a child is at its parent's place and its own label, and what the text
means so far are the places and types of the live nodes. A value then replaces, in the
text, what begins with its path and, in the tree, the nodes below the old child, and
these agree (`Below` is a least set, so that what has a property closed under children is
below). No open container is below a value that is replaced, as its place would begin with
a label that nobody has inserted since. `TreeIsValue` ends with the recursive function `Paths`:
that it exists, and that it gives each node's places relative to its own, is an induction over
the numbers of the nodes, as a child is allocated after its parent.

`RoundTrip`, for a tree without a container `yajl_gen` refuses, needs `ShapeInv` too, which says of
closed containers what `OpenInv` says of open ones: the labels of an array are 1 to the
number of its children, and a scalar has none. The
argument is one sentence about every node (`GivesBack`): read where the value of the node
is expected, the text generated for it removes from the meaning what begins with the
node's path, adds the places and types of everything below the node, and leaves the
containers that were open as one more value would. It is shown from the last
node to the first (`AllRead`). For a container, the texts of its children are read one after
the other (`ChildrenRead`, an induction over how many); no text removes what an earlier one
has added, as the paths of two children differ after their parent's (`ChildrenApart`). Only
that each child comes once is used (`LabelledOnce`), so the order of a hash table
does not matter. That `generate` and `Meaning` are functions with these equations is proved
first (`GenerateStep`, `ReadsMeaning`).

### Logging

As in `Framing`, the invariant is an equation: the pipe, the text being written and the
queue, joined, are what the child has queued behind what was read, and what was read is
what was reported and what the client keeps, as long as every "\r" in it was followed by
a "\n" (`Clean`). Beside it, `Flows`: in what is on its way, a byte that ends no line is
followed by the next byte of its message. So what `splitlines()` cuts at a line end is cut
between messages or at a line end within one, also when a read ends between the two
bytes of a "\r\n"; what is dropped after a lone "\r" leaves no half of a line behind that
could be joined with another message, but for the "\n" a later read may begin with. The
lines of `splitlines()` joined are what was split, the first line that has not ended is
the last one unless a "\r" stands alone, and a line that has is in one message (`Stop` counts
line ends; that each number up to the last has one is an induction).

### Only model-checked

* Liveness (`ExitsWithClient`, `OthersAnswered`, `RegisteredAnswered`, `ChildReplaced`,
  `CloseReturns`, `CallReturns`, `CallCompletes`, `LogThreadStops`): it needs fairness,
  which the prover does not handle.

The prover has no induction over data. The few facts about all numbers or all
sequences that the proofs need (`Induction`, `NatMin`, the lemmas about `FlattenSeq`) are
derived from the well-foundedness of `<` on the numbers, by taking the least element of the
set of counterexamples.

## Not modelled

* `iop_strerror` (wording of errors), build files, packaging.
* `NoIntrPoll`: `poll()` that is called again after a signal. It changes no state; the
  test before the new timeout is the wrong way round, so that an interrupted wait
  begins again with its full timeout and may take almost twice as long.
* In the client: failures of `pipe`, `Popen` and thread creation, which the code
  handles nowhere; a full event pipe, which takes 65536 unread wake-ups; and calls
  that are pending when `close()` is called, which the code leaves to their timeouts.
* Values: contents of paths, numbers and strings are kept only where a property
  tells them apart.

## Plan

Done: all modules above, and proofs of every safety property, refinements included.
Liveness stays with TLC.
