# A TLA+ model of the mini modem daemon

The repository holds a small Linux daemon that imitates a cellular modem: it answers AT commands on
a pseudo-terminal and binary QMI-like requests on a Unix socket, and tells every session when the
modem registers on the network. One thread runs everything on one epoll loop. This directory holds
TLA+ modules of the daemon, the TLC configurations that check them on small instances, and proofs
that TLAPS checks for every value of the constants. Line numbers refer to `src/src/...` unless a
path says otherwise.

## 1. Inventory

| Component | State | Operations | Talks to |
|---|---|---|---|
| `transport::EventLoop`, `Epoll` | `callbacks_`, `running_`; the kernel's epoll set | `addFd`, `modifyFd`, `removeFd`, `run`, `stop`, `wait` | calls the callback of each ready descriptor |
| `transport::Outbox` | `queue_` of chunks with an offset | `push`, `empty`, `flush` | `write(2)` |
| `transport::LineReader` | `buffer_` | `push`, `next` | used by `at::Session` |
| `transport::Tty` | `fd_` | move, close, `read`, `write` | owned by a session |
| `transport::SignalFd`, `TimerFd` | kernel descriptors | `consume`, `arm` | loop, modem |
| `modem::EventBus`, `Subscription` | `handlers_`, `nextId_`; `bus_`, `id_` of each handle | `subscribe`, `unsubscribe`, `publish`; move, `reset`, destroy | calls the handlers of the sessions |
| `modem::Modem` | `state_` | `startNetworkSearch`, `networkSearchComplete`, `handleAt` (bodies not in the repository) | arms the timer, publishes on the bus |
| `qmi::Server` | `sessions_`, `listenFd_` | accept, handle, update events, remove, destroy | loop, sessions |
| `qmi::Session` | parser, outbox, subscription | `onReadable`, `onWritable`, `onEvent` | dispatcher, bus, outbox |
| `qmi::Dispatcher` | none | `dispatch` | reads the modem |
| `qmi::FrameParser`, codec | `buffer_` | `push`, `next`; encode, decode | used by `qmi::Session` and the client |
| `at::Server`, `at::Session` | `sessions_`; reader, outbox, subscription | `createPty`, handler, `updateEvents`, `removeSession` | loop, modem, bus |
| `at::Parser` | none | `parse` | used by the older `Modem.cpp` only |
| `client/qmi-client.cpp` | none | one request, one answer | the Unix socket |

What makes the system hard:

* The loop dispatches a *batch* of events. While it does, sessions are created and destroyed, the
  kernel gives a closed descriptor's number to the next connection, and callbacks know their session
  by that number only.
* Four tables are keyed by the descriptor: the kernel's open files, the epoll set, the loop's
  callbacks and the server's sessions. A step forgotten in one of them meets the next connection.
* A callback of one descriptor changes other sessions: the timer's callback publishes on the bus and
  every session queues an indication.
* The clients and the kernel run between any two system calls: a client closes after epoll reported
  its socket writable, a socket fills up in the middle of a chunk, a timer or a signal arrives.
* `publish()` calls user code, which may subscribe, unsubscribe, move and publish.
* Every stream is cut anywhere: by `read()` on both sides, by partial writes, by a socket that is full.
* Processes share a socket file that each removes when it starts and when it ends, and crash in between.

What makes each component correct is stated by the properties of section 3; the hazards in
`PROJECT.json` give the line where each bites.

## 2. Modules

**`ByteStream`** is the abstract specification of a sender: bytes are accepted and appear on the
wire in order until the stream is closed.

**`Outbox`** is `transport::Outbox` at the granularity of bytes. The bytes pushed are numbered and a
byte *is* its number, so a chunk is an interval. `Push` is `queueMessage`/`push`, `CallFlush` is
`onWritable`, and the loop of `flush()` is one action per outcome of `write()`: `WriteSome`,
`WriteWouldBlock`, `WriteFails`, and `FlushDone` when the queue is empty.

**`EventBus`** is the bus with any number of `Subscription` objects. The call stack of nested
`publish()` calls is a level `depth` with the list still to visit (`todo`) and the handler being
called (`running`) at each level. User code runs when no `publish()` runs or inside a handler;
then every special member of `Subscription` may run. The map is unordered, so the loop may take any
id of its list next.

**`QmiServer`** composes event loop, epoll, QMI server, sessions, modem, timer, signal, kernel and
clients. `pc` says in which loop of the code the thread is; each action of the daemon ends with the
system call whose outcome the next one depends on, and the clients and the kernel are interleaved
between them:

| Actions | Code |
|---|---|
| `Wait`, `Take`, `BatchDone` | `Epoll::wait`, the loops of `EventLoop::run`, the end of `main` |
| `HandleSignal`, `HandleTimer` | callbacks of `EventLoop::EventLoop` and `main.cpp:76` |
| `HandleListen`, `Accept`, `AcceptEnds` | `qmi::Server::acceptClients` |
| `HandleClient`, `EndHandler`, `RemoveClient` | `handleClient`, `updateEvents`, `removeClient` |
| `FlushMessage`, `FlushEnds`, `FlushBreaks` | `Session::onWritable`, `Outbox::flush` |
| `ReadRequests`, `ReadEnds` | `Session::onReadable`, `Dispatcher::dispatch` |
| `Connect`, `SendRequest`, `ClientShuts`, `ClientReads`, `ClientCloses` | the clients (external) |
| `TimerExpires`, `SignalArrives` | the kernel (external) |
| `SearchStarts` | the callback that arms the timer, `main.cpp:38` |

A message is the unit of `read()` and `write()` there: `Outbox` shows that partial writes do not
show, and `EventBus` shows that `publish()` reaches exactly the living sessions, so `Publish` is one
step. An outbox is the sequence of messages it holds. A message keeps its transaction id and whether
it says "registered". The descriptor given to a new connection is the lowest free one, as POSIX has
it. A closed client is seen through `Level`: `EPOLLIN` and `EPOLLHUP`, with `EPOLLERR` when it left
messages unread. A client of `Halves` may first shut down its sending side: `EPOLLIN` is all that is
reported then, `onReadable` takes the end of file for the end of the session, and what the outbox
holds is dropped while the client waits for it.

**`QmiService`** is the abstract specification of the QMI side: a client asks, the modem registers,
and each client is written answers to its requests, once and in order, and the news at most once and
never contradicted later. It has no descriptors, queues, events or sockets. `QmiServer` is shown to
implement it, with `wire` and `asked` as they are and `registered` mapped to `modem = "Registered"`.

**`SocketPath`** is what the constructor and the destructor of `qmi::Server` do to the socket file,
for any number of processes: `Start` (socket, unlink), `Bind`, `Listen`, `AddFd`, `Close` and
`RemoveFile` (the destructor) are one action per system call, since processes run in parallel. `Bind`
fails if there is a file, and `Listen` and `AddFd` may fail: the constructor throws, no destructor runs
for its object, and after `bind()` the file stays (stage "abandoned"). `Crash` closes the sockets and
leaves the file. The history `shared` tells the daemons that were alone from the others.

**`Codec`** holds `codec.cpp`, the answers of `qmi::Dispatcher`, the indication of `Session::onEvent`
and the framing of a received stream as operators on sequences of bytes. An operator that can fail
returns the set of its results. A byte has `Base` values; in TLC's instance `Base = 5`, so a word has
25 values, the length field overflows at 25 bytes, and TLVs of 20 and 21 bytes of value bring the
payload to 24 and 25. The code is the same for `Base = 256`, and the proofs hold for every `Base`
from 5.

**`QmiClient`** is one call of the command line client against the daemons of `SocketPath`: it
connects to whoever the file names, writes a request, and takes what its only `read()` returns, cut
anywhere, for the response. The session that answers it is the one of `QmiServer` reduced to one
client, with bytes.

| Actions | Code |
|---|---|
| `Connect`, `Write`, `Read`, `ReadFails` | `main()` of `client/qmi-client.cpp` |
| `Accept`, `Handle`, `Flush`, `Register` | `acceptClients`, `onReadable` with `dispatch`, `onWritable`, `onEvent` |
| `PathStep` | the daemons start, end and crash |

**`MCQmiClient`** gives the requests: the client's own, those of every message id and of an unknown
service, transaction ids 0 and the largest, a request with the flags of an indication, and TLVs around
the limit of the length field.

**`Tty`** is the owner of a descriptor with the kernel's table, where the lowest free number is given
out next. Objects are constructed, moved, assigned (also to themselves) and destroyed in any order
while other code opens and closes descriptors of its own. It is what `QmiServer` relies on when a
session closes its descriptor exactly once.

**`LineReader`** holds `push()` and `next()` as operators on the buffer; `AtServer` uses them.

**`AtServer`** is the same loop seen from the AT side: one session on a pseudo-terminal, the modem
with its timer, the signal, and the program that opens and closes the slave. What differs from QMI
is the kernel: the master that `openpty()` returns is in blocking mode, `EPOLLHUP` is reported as
long as the slave is shut, and a session that is removed is never made again. A handler that reads
leaves its loop only when `read()` fails, and the session goes then: no answer is ever written, and what
leaves the outbox on the wire is `+COPS` alone. `handleAt()` may return an empty answer, which `push()`
ignores. The history `cuts` has the places of the input where a `read()` returned.

| Actions | Code |
|---|---|
| `Wait`, `Take`, `BatchDone` | `Epoll::wait`, the loops of `EventLoop::run`, `~Server` at the end |
| `HandleSignal`, `HandleTimer` | callbacks of `EventLoop::EventLoop` and `main.cpp:76`, with `at::Session::onEvent` |
| `HandleMaster`, `EndHandler`, `RemoveSession` | the callback in `createPty`, `updateEvents`, `removeSession` |
| `FlushText`, `FlushEnds` | `at::Session::onWritable`, `Outbox::flush` |
| `ReadBytes`, `AnswerLine`, `LinesDone`, `ReadFails` | `at::Session::onReadable` with `LineReader` |
| `TerminalOpens`, `TerminalTypes`, `TerminalCloses`, `TimerExpires`, `SignalArrives` | outside the daemon |

Input comes byte by byte: the terminal types CR, LF or a character, `read()` returns any part of what
is there, and `LineReader` cuts it. A text is the unit of output. The terminal is taken to be in raw
mode and to have room for what is written; with its initial settings it would echo `+COPS` back.

**`FrameParser`** is `qmi::FrameParser` with the read loop of the session. The bytes a client sends
are numbered, so the buffer is an interval; `payload` and `decodes` say what the parser would find
at each position, and `Init` allows every pair of functions, that is, every stream.

**`OutboxProofs`**, **`EventBusProofs`**, **`FrameParserProofs`**, **`TtyProofs`**,
**`QmiServerProofs`**, **`CodecProofs`**, **`QmiClientProofs`** (which extends it) and
**`AtServerProofs`** hold the theorems.

## 3. Runs

| Run | Question | Bounds |
|---|---|---|
| `Outbox` | order, exactness, no empty write, draining, refinement of `ByteStream` | chunks of 0, 1 and 3 bytes, 7 bytes in all: a chunk cut twice, an empty push, three chunks queued |
| `EventBus` | ownership, fresh ids, delivery, silence after destruction | 3 handles, 3 ids, calls nested 2 deep: a handler may destroy the owner of another, move its own and publish again |
| `QmiServer` | the tables, events and sessions, answers and news, EPOLLOUT, refinement of `QmiService`, every connection is accepted | 2 clients, 1 descriptor, batches of at most 3 of 4 ready descriptors, sockets holding 1 message, 2 requests each: the descriptor is reused inside a batch, `accept4` fails with EMFILE, answers are cut by EAGAIN before and after the indication |
| `QmiServerLive` | requests are answered, a signal ends the daemon | 2 clients with 1 request each, 2 descriptors, one client that may shut down its sending side, batches of 5 (the real 64 never leaves a descriptor out) |
| `QmiServerNews` | *violated*: an indication is written | 1 client |
| `QmiServerEnd` | *violated*: only a signal ends the daemon | 1 client |
| `AtServer` | the lines found for every input and cut, EPOLLOUT, input is read, the queue empties, a signal ends the daemon | 3 bytes of CR, LF and one character, a terminal opened twice: before, while and after a session is removed |
| `AtServerLines` | *violated*: the lines found do not depend on where `read()` returned | 2 bytes, a terminal opened once |
| `AtServerDoc` | *violated*: the read loop of the AT session returns | 2 bytes, a terminal opened once |
| `FrameParser` | framing for every stream and every cut | header of 2 bytes, payload of 0 or 1, 6 bytes: three frames without payload in one read, a header cut in two, a bad frame before and after good ones |
| `QmiClient` | who is reached through the file, the codec at its limits, what is printed, the call ends | 2 daemons, 20 requests, `Base = 5`: a daemon that overlaps with another, starts after a crash or a start that failed, or dies at any step of the call |
| `Tty` | each owner reaches its file, each descriptor has one owner | 3 objects, 4 descriptors, 5 files: a number given out twice while a chain of moves still runs |

The bounds are small because the code has few thresholds. Two clients and one descriptor are enough
for one to take the other's number and for EMFILE; `QmiServerLive` gives each its own. A batch
shorter than the number of ready descriptors (`MaxBatch = 3`) leaves events for the next
`epoll_wait`, as 64 would with more clients; one unread message fills a socket. Three bytes hold a line
ended by CR and LF, cut anywhere, or one ended by CR and the end of another; two daemons hold every way in which one
meets what another left. Every bound is a constant of the module. The proofs do not depend on any of
them.

Deadlock is not checked in `Outbox` (a closed session ends), `QmiServer` and `AtServer` (the daemon
waits with nothing to do, or has ended), `FrameParser` (the bytes are used up), `QmiClient` (the call
is over) and `Tty` (a number of files is opened and no more).

### What the properties say

* `Outbox`: `WireInOrder`, `QueueIsRest` and `NeverWritesNothing` relate the queue, the pushed bytes
  and the wire; `Drains` needs the assumption written at `Fairness`.
* `EventBus`: `Ownership` (each handler one living owner), `Delivery` (who is called by a
  `publish()` that its own handlers change), `NoCallAfterDestroy` (the promise of `event_bus.hpp`), `NewcomersWait`.
* `QmiServer`: `TablesAgree` and `EventForRightSession` are about descriptor reuse inside a batch.
  They hold because a session is only destroyed by its own event, and the reuse of its number can
  not be in the batch any more; a session dropped by another callback would break this (the variant
  `HandleTimerDropsSlow` shows it). `NewsIsConsistent` and `AnswersInOrder` are about what a client
  can see on its connection, and `ImplementsService` that the two, with requests and the
  modem's state, add up to the abstract service. `WatchedIfNeeded` says that `EPOLLOUT` follows the
  outbox, indications excepted.
  The liveness properties are about one thread serving everyone; an answer may be missing only to a
  client that closed or shut down. They are about clients that send a finite number of requests:
  `onReadable` reads until EAGAIN, so one that sends as fast as it reads keeps the loop in its handler,
  and neither another client nor a signal is served. Run `QmiServer` has no client that shuts down, to keep it short;
  the theorems on its safety properties are for every set `Halves`.
* `AtServer`: `LinesAsTyped` says exactly which lines are found, given the input and the places where
  `read()` returned, so no text is lost and no two lines are joined; that the places matter is what
  `CutsDoNotShow` denies and run `AtServerLines` shows. `WatchedForOutput` says that an open and silent
  terminal leaves the loop asleep. `QueueEmpties`, `LinesTaken` and `SignalStops` hold only because
  terminals are opened a finite number of times and closed, and type a finite number of bytes:
  `EPOLLHUP` that cannot be masked, a second opening and a blocked `read()` must not keep the loop from
  them. A `+COPS` that is queued with EPOLLOUT off waits for the terminal to close, whose `EPOLLHUP`
  wakes the loop.
* `FrameParser`: `InStep` says that the frames found are the frames sent, whatever the cuts;
  `NoByteTwice` and `NothingComplete` also hold after a frame that did not decode.
* `QmiClient`: `Reachable` says that a daemon that was never alive together with another is reached by
  its path, whatever crashed there before; with two alive the later one takes the file and the end of
  the older one removes it, which is what the code does. `StaleFileExplained` holds in either case: a
  file that nobody serves was left by a crash or by a constructor that threw after `bind()`.
  `RoundTrip` gives the exact condition on which the codec is the identity: the payload's length fits
  in 16 bits. `PrintsAnswerOrNews` says when the client may print something other than the
  answer: only if the modem registered while it had a session. An answer to a request with
  transaction id 0 is told from an indication by its flags only. `CallEnds` needs a daemon that goes
  on serving, or goes; the client has no timeout.
* `Tty`: `ReachesItsFile` and `OneOwner` relate objects, numbers and the files behind them.

Each property has a faulty variant of the code, kept in the module above the definition it replaces,
that TLC rejects; `PROJECT.json` lists them as mutants.

### What the violated runs show

1. A `read()` that returns between CR and LF leaves the LF for the next one, and `LineReader::next`
   takes it for an empty line, with which `handleAt` is called. `line_reader.hpp:10-16` says that the
   transport may deliver fragments and that the reader yields the full lines, and `line_reader.cpp:36`
   that CRLF is supported.
2. `qmi::Session::onEvent` queues an indication when the timer's callback runs, and nothing calls
   `updateEvents` for that session. An idle client gets the indication only after it sends
   something. `epoll.hpp:35-36` says EPOLLOUT is switched on when data appears in the queue.
3. A client that closes after `epoll_wait` reported it writable makes `write()` raise SIGPIPE, which
   is not blocked or ignored: the daemon dies. `main.cpp:101` says it runs until SIGINT or SIGTERM.
4. `at::Session::onReadable` reads until EAGAIN, and `at/session.cpp:116` takes the descriptor for
   non-blocking, which nothing makes it. After the first input `read()` waits for more: no answer is
   ever written, and while the terminal is open and silent no QMI client, timer or signal is served.
   When the terminal closes, `read()` fails and the session is removed with its answers.

### Fairness

`QmiServer` assumes that the kernel schedules the daemon's thread (`WF` of its next step, which is
always enabled unless it waits with nothing ready or has ended) and that an armed one-shot timer
expires. `FairSpec` adds that clients read what they are sent: without it no answer could be sent to
them. `LeavingSpec` instead adds that clients close some day: without it a connection in the backlog
could wait for ever for a descriptor. Nothing is assumed of signals, requests or connections, save
that requests are finite in number (`MaxRequests`). The
actions of the daemon are one `WF`, not one each: the thread chooses its next step by itself.

The liveness of `QmiServer` is that of the loop as long as nobody opens the AT terminal:
`AtServerDoc` shows what an open one does to it.

`QmiClient` assumes in `CallSpec` that a connected client is scheduled, that a daemon that listens gets
past the rest of its constructor, and that a daemon that serves
gets to the session and writes what it queued, which is `RequestsAnswered` of `QmiServer` with its own
assumptions. Nothing is assumed of `Connect` or of daemons that start, end, crash or register.

`AtServer` assumes the same of the thread and the timer; the thread's next step is not enabled while
`read()` blocks. `ClosingSpec` adds that whoever opens the terminal closes it some day, without
which a blocked `read()` could last for ever; `AtServerDoc` is checked without that. The numbers of
openings and of bytes typed are finite (`MaxOpens`, `MaxBytes`), which the liveness properties rely on. `FrameParser`
and `Tty` have no liveness.

`Outbox` alone assumes that the owner calls `flush()` again while the queue is not empty, and that a
`write()` that is tried again and again sometimes takes bytes (strong fairness: EPOLLOUT is reported
only when there is room). The first of these is what run `QmiServerNews` shows to be false for
indications.

## 4. Proofs

All theorems are proved for arbitrary constants under the named assumptions of the modules (bounds
are naturals, `NoConn` is not a connection, CR and LF are no characters of a line, a byte has at
least 5 values, a request is a message).

* **`OutboxProofs`**. The invariant `IInv` adds to the properties that chunks are well-formed and
  adjacent and that the wire's length is where the front chunk's offset points; `WireInOrder` alone
  is not inductive because what `write()` sends next depends on the queue. From it follow
  `WireIsOrdered`, `QueueIsExact`, `WritesSomething` and `Refinement` (`Spec => ByteStream`): a
  `Push` maps to an accepted byte range, a `WriteSome` to a sent one, `WriteFails` to the close, the
  rest to stuttering.
* **`EventBusProofs`**. `Ownership` needs that ids are below `nextId`, and `Delivery` needs the
  shape of the call stack (levels above `depth` are idle, the running handler is among the called).
  `NoCallAfterDestroy` then follows from `Ownership` at the step that calls a handler.
* **`QmiServerProofs`**. `TablesAgree` is not inductive alone: the tables could be disturbed by an
  event for a descriptor that is not there. The invariant adds that the batch and the handler in
  progress only name living sessions, which is what `EventForRightSession` says, and that `Accept`
  takes a number not in use.
  The type invariant follows from it: `flush()` and `read()` work on `files[cur]` and
  `sessions[cur]`, which are typed because `cur` is open.
  On top of that `ConnInv`: a connection is in one place, at one
  descriptor or at one position of the backlog, and has seen no message before it is accepted; without
  it, two sessions could write to one client. `StreamInv`: the messages written to and queued for a
  session, in one sequence, are *good*, that is, answers are in order and complete and the news is
  consistent. The lemmas say that a good sequence stays good when the next answers or the indication
  are appended, and when a message moves from the queue to the wire. From it follow
  `RequestsAreAnswered`, `NewsIsAlwaysConsistent` and the refinement `DaemonImplementsService`:
  `SendRequest` is `Ask`, the timer's callback that registers the modem is `Register`, `FlushMessage`
  is `Answer` or `Indicate` according to the front of the queue, the rest stutters. `WatchInv` says
  that between handlers every queue with an answer is watched; `updateEvents` at the end of each
  handler restores it (`AnswersAreWatched`).
* **`FrameParserProofs`**. The invariant is the conjunction of the four properties: `InStep` alone
  does not keep the buffer's start within the bytes received, `NoByteTwice` does. The argument is
  one lemma on where a frame ends and one per action. The theorems hold for the code's own numbers,
  a header of 10 bytes and payloads of up to 65535.
* **`TtyProofs`**. The invariant adds that a descriptor an object holds is open; otherwise a number
  given out by the kernel could already be held.
* **`CodecProofs`**. A word is its two bytes (`w % Base + Base * (w \div Base) = w`), which gives
  `HeaderRoundTrip` and `TlvRoundTrip` for every `Base`. The decoder's loops and `FlattenSeq` are
  recursive functions: `RecursionEnds` shows that a recursion whose argument comes nearer to its end
  defines a function, so the definitions may be used as equations. What they compute is proved without
  an induction theorem: the positions up to which it holds are a set of numbers, and `Climbs` takes the
  least number missing from it. From this follow `MessageRoundTrip` (a message of any number of TLVs
  comes back exactly if its payload fits the length field), its converse `DecodedIsEncoded` (what
  decodes is encoded to the same bytes), `FramedIfItFits`, and `StreamFound`: messages sent one behind
  the other are all found, in order.
* **`QmiClientProofs`**. For the file, the invariant adds what a daemon that was never disturbed knows
  at each stage (`Undisturbed`) and that the file always names a daemon that bound it. It is proved
  for `SocketPath` alone and for a client's call on top. For the call, `CallInv` says that what is
  queued and written fits its length field and, if the request did, is the answer or the news, that the
  stream begins with the first message written, and that what is printed is that message. `PrintsAnswerOrNews` needs all of
  it: a request that does not fit may be taken by the session for anything, but the answer to whatever
  was found fits, so the client's `read()`, cut anywhere, decodes to nothing or to the first message
  (`FirstDecodes`, `CutDoesNotDecode`).
* **`AtServerProofs`**. `TypeInv` counts: the lines found and the bytes kept are together no more than
  the bytes taken. It needs where `next()` cuts, by well-founded choice of the first separator and of
  the last of the run behind it. `WatchInv` says that EPOLLOUT is off with an empty queue at the end of
  every handler (`NothingToWriteIsNotWatched`). `ReaderInv` says that the bytes taken and no longer in
  the buffer are cut into the lines found, at the separators that end one given the places of the
  reads, and that the buffer is the rest. It is stated at every step, between two lines too, where
  `LinesAsTyped` says nothing; `read()` moves bytes to the end of the rest and adds a place, and `next()`
  moves one line from the beginning of the rest (`LinesAreFound`).

Every safety property of the passing runs is a theorem. Only model-checked is liveness: `Drains`,
`RequestsAnswered`, `ConnectionsAccepted`, `SignalStops`, `QueueEmpties`, `LinesTaken` and `CallEnds`, which with
fairness is out of the reach of TLAPS. The violated properties are shown by TLC's counterexamples.

## 5. Not modelled

* The bodies of `Modem::startNetworkSearch`, `networkSearchComplete` and `handleAt` and the sources of
  `TimerFd` are not in the repository, only their headers; the modules take of them what `main.cpp`
  and the sessions rely on. What `handleAt` answers to a line is therefore not modelled, only that it
  is called with each line and may queue a text.
* `at::Parser` and the class in `modem/Modem.cpp` that calls it. That file includes a header and uses a
  dispatcher that are not there, and `main.cpp` runs the other `Modem`, so no state of the daemon
  depends on them.
* Both servers on one loop. They share the loop, the bus and the modem; an open and silent terminal
  stops the loop, which `AtServerDoc` shows from the AT side, and the liveness of `QmiServer` assumes
  that nobody opens it.
* Exceptions of system calls that fail for other reasons than those modelled (`epoll_ctl` inside the
  loop, `openpty`, `socket`): they end the daemon, with its destructor (`Close` of `SocketPath`) or before
  its file is made (`Crash`). An `addFd` that throws in `createPty` or `acceptClients` is one of them.
* The lifetime of a `std::function` that removes itself while it runs (the event loop's callbacks, a
  handler of the bus): data of the closure is not modelled; both servers return at once after it.
* The echo of a terminal that is not in raw mode, a `write()` that blocks on a terminal that is full,
  the printed text of the client, the move operations of `Epoll`, `src/test.py`.

Both servers on one loop is what could still be modelled; it takes the two largest modules together.
