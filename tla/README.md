# A formal model of SimpleHttpServ

The repository is a small HTTP server built on a pool of processes
(`src/src/`), the experiments that led to it (`src/examples/`), and notes on
what was learnt (`src/docs/`). This directory specifies the server in TLA+,
checks it with TLC on small instances and proves its invariants and
refinements for every instance with TLAPS.

## 1. Inventory of the system

| Component | State | Operations | Talks to |
|---|---|---|---|
| **Process pool** `src/src/ProcessPool.h`, `MainMultiProc.cc` | `proc_[]` (pid, socketpair ends), `sub_process_idx`, `stop_` in each process; the queue of the shared listening socket | constructor (fork), `RunParent`, `RunChild` | children by socketpair and `kill()`, clients by the listening socket |
| **Unified signal source, epoll helpers** `src/src/Process.cc`, `Process.h` | `sig_pipefd`, signal dispositions, the epoll set | `SetupSigPipe`, `SioHandler`, `AddSigaction`, `EpollAddFd`, `TestEpollAddFdLT`, `EpollDelFd` | called by parent and children; the handler interrupts them |
| **HTTP request state machine** `src/src/ReqStatMach.h` | `recvbuf` with three indices, `m_lastline_stat`, `m_check_stat`, `m_result`, `m_sockfd` | `init`, `process` (`parse_batch`, `check_one_line`, `parse_requesturi`, `parse_headers`, `respond_http`) | one object per descriptor in a child, driven by edge-triggered events |
| **Test of the pool** `src/test/TestProcessPool.cc` | as the pool, with a trivial `T` | | |
| **First version of the pool** `src/examples/multitasking/processpool.h` and its tests | as the pool, but the parent has no entry in `m_sub_process[]` | constructor, `run_parent`, `run_child` | as the pool |
| **Serial blocking server** `src/examples/framework-intro/handle_http_request.cc` (and its copy `multitasking/test_block_http_handler.cc`) | the same parser, one client at a time | | |
| **Timer list** `src/examples/framework-intro/client_timer_list.h` | a doubly linked list sorted by expiry | `AddTimer`, `DelTimer`, `ChgTimer`, `TickOnce` | callbacks into the chat server |
| **Group chat with idle timers** `timing_group_chat_service.cc` | the poll table `kFDS`, `kClient[]`, `kCntClient`, timer list, `kStop`, `kTimeout` | accept, receive and broadcast, remove, alarm | timer list; signals by a socketpair |
| **Group chat servers** `group_chat_service.cc`, `group_chat_service_sio.cc` | poll table and stop flag | the poll loop with two ways of stopping | |
| **Demonstrations** (threads, `sendfile`, `splice`, OOB data, `dup`, backlog, daemon, endianness) | none to speak of | straight-line I/O | |

What is hard here, and what has to hold:

* *Pool.* The parent, the children, the signal handlers and the clients
  interleave. Notifications are lost when a socketpair is full, edges are
  consumed before their data is read, `accept()` fails for want of descriptors,
  signals arrive in every phase, children and the parent die. Correct means:
  connections that wait are accepted, by the children in turn, as long as one of
  them can; a full socketpair never puts a child to sleep for ever;
  once the parent stops, no child survives it.
* *Request machine.* A request arrives in any pieces. Correct means: the pieces
  do not matter; a complete request is answered once and its connection closed;
  the scanner never touches bytes it has not passed.
* *Timer list and chat.* Hand-written pointer surgery and a swap-removal in a
  table that two other tables point into. Correct means: the list stays linked
  and sorted; slot, descriptor and timer of a client refer to each other.

`PROJECT.json` lists every such hazard at its line.

## 2. Modules

| Module | Is about | Uses |
|---|---|---|
| `ProcessPool` | parent, children, IPC, signals, listening socket | `ListeningSocket` (instance) |
| `ListeningSocket` | abstract: what a server promises about its listening socket | |
| `MCProcessPool` | statements of the repository that the pool breaks | `ProcessPool` |
| `ProcessPoolProofs` | the pool's types, its wake-ups, its round robin, what becomes of a stop signal, and its refinement of `ListeningSocket` | `ProcessPool` |
| `FirstPool` | the pool's first version, and its refinement of the second | `ProcessPool` (extended, and as an instance) |
| `FirstPoolProofs` | the refinement, and what the first version inherits by it | `FirstPool`, `ProcessPoolProofs` (instance) |
| `ReqStatMach` | one connection in a child | |
| `MCReqStatMach` | streams to check it on, statements of the repository | `ReqStatMach` |
| `ReqStatMachProofs` | the parser's indices and verdicts, and what becomes of a request | `ReqStatMach` |
| `BlockingServer` | the serial server: the same parser, one client after the other | `ReqStatMach` |
| `ChildServer` | a child of the pool: `RunChild()` with all its clients and their descriptors | |
| `SortedTimers` | abstract: a sorted sequence of timers | |
| `TimerSortedList` | the doubly linked list, as pointers | `SortedTimers` (instance) |
| `ChatTable` | what the three chat servers share: table, loop, clients | |
| `GroupChat` | the chat server stopped by a flag | `ChatTable` |
| `GroupChatSio` | the chat server whose signals are bytes in a socketpair | `ChatTable` |
| `TimingGroupChat` | the chat server that closes the idle | `ChatTable`, `GroupChatSio` and `SortedTimers` (instances) |
| `MCServers`, `MCGroupChats`, `MCTimers` | two specifications checked in one run, chosen in the initial state: `BlockingServer` and `ChildServer`; `GroupChat` and `GroupChatSio`; `TimerSortedList` and `TimingGroupChat` | those |
| `ChatTableProofs` | every step of the shared table keeps its invariant | `ChatTable` |
| `GroupChatsProofs` | types, table and rounds of the two servers, what becomes of a leaver and of SIGTERM | `MCGroupChats`, `ChatTableProofs` |
| `TimerListProofs` | the pointers are well linked and implement the sorted list; lemmas on what the list's calls return | `MCTimers`, `ChatTableProofs` |
| `TimingGroupChatProofs` | clients, slots, timers and alarms of the server with timers | `TimerListProofs` |
| `ServersProofs` | the serial server and the child | `MCServers`, `ReqStatMachProofs` |

Operators named `Bug...` stand beside the definition they vary: the same code with
one plausible mistake, which `PROJECT.json` pairs with the property that notices.

### `ProcessPool` and the code

Process `0` is the parent, `1 .. NumProc` are the children.

| Variable | Code |
|---|---|
| `pc`, `events` | position in the constructor, `RunParent()`, `RunChild()`; the events left of the batch `epoll_wait()` returned |
| `stop`, `sub_process_idx`, `accept_left` | `stop_`, the round robin index, `max_accept_n` |
| `queue` | completed connections in the backlog of `listenfd` |
| `pipe`, `ipcEdge` | unread notifications in `fa_pipefd_`, its place on the epoll ready list |
| `pending`, `sigPipe`, `sigEdge` | signals sent and not delivered; bytes in `sig_pipefd`; its place on the ready list |
| `kills`, `crashes` | how much of the bounds `MaxKill`, `MaxCrash` is used up |
| `failing` | the children whose `accept()` finds no descriptor or no memory; of those in `MayFail` any may come and go |
| `recent` | observer: the last `NumProc` children selected |

Each action is the part of a handler between two points where another process
can interfere: `ParentNotify` is lines 173-193, `ChildIpc` the `recv()` of the
notification, `ChildAccept` one turn of the accept loop, `ChildAcceptDrops` and
`ChildAcceptDone` a turn that ends it, `DeliverSignal` a run of
`SioHandler`, `ParentSignals` the whole `sig_pipefd` case with its kill loop.
`Fork` is one turn of the constructor's loop; `Writers` records which processes
inherit the write end of a socketpair, because end of file depends on it. The
order in which the events of a batch are handled is left open, as epoll leaves
it open.

The accept loop ends early for two reasons. With the queue as it is, when `accept()`
fails because nothing waits, or for want of a descriptor or of memory (`EMFILE`,
`ENFILE`, `ENOMEM`), though connections wait. With one connection less, when
`accept()` reports that the client has reset it (`ECONNABORTED`), or when the object
of the descriptor is in use ("accept to quick"). `StartsFailing` and `StopsFailing`
are the environment's: descriptors run out by what `ReqStatMach` says `T` does with
them, and whether one is ever given back is not the pool's to say.

Abstractions: notifications and connections are counted, not named. A process
sets itself up in one step, because before its handlers are installed every
signal has its default action and after that nothing in the set-up can be
observed. The several `kill()` rounds of a batch that contains more than one stop
signal are one: a pending signal is pending once. An `epoll_wait()` that fails with
`EINTR` changes nothing; one that fails otherwise does not happen. What a child
does with an accepted connection is `ReqStatMach`; in the pool it shows only as
`ChildCrash`. `num_process = 0`, which the assertion of the constructor admits, is
excluded by `PoolAssumption`: the round robin would have nobody to select.

### `ReqStatMach` and the code

A byte is one of `CR`, `LF`, `req` (the text of a request line the parser
accepts), `get` (the three letters that, alone on a line, crash the parser), `txt`
(any other text) or `NUL` (written by the scanner). The variables `recvbuf`,
`checked_idx`, `linest_idx`, `lastline_stat`, `check_stat`, `result`, `sockfd` are the
members of the class; `m_read_idx` is `Len(recvbuf)`. `inbox`, `edge`, `fd_open` and
`peer` are the kernel's side; `stream` is what the client has still to send;
`received` and `answered` are observers.

`Event`, `RecvData`, `RecvEmpty`, `RecvZero`, `RecvError` are the loop of `process()`;
`ScanLine`, `ScanMore`, `ScanBad` one turn of `parse_batch()`, with `check_one_line()`
as the operators `Stops` to `LineEnd` (the loop's stopping point, instead of the
loop); `Reply` and `ReplySigPipe` the end of `process()` with `respond_http()` and
`EpollDelFd()`. `Arrive` and `Leave` let the network cut the stream anywhere and
deliver FIN, RST or one after the other at any time. `process()` runs between two
`epoll_wait()`s of its child; arrivals interleave with each of its `recv()`s.

`Verdict` is the reference: what the outcome of a byte sequence should be,
written without states or batches.

### `FirstPool` and the code

`processpool.h` divides the work as `ProcessPool.h` does. Where the code is the same
under other names, the step is that of `ProcessPool`; `FirstSel`, `After`,
`FirstParentNotify`, `FirstKillTargets` and `FirstParentSignals` are what the rewriting
changed: the array has no entry for the parent, so entries are numbered from 0 and
wrap at `m_process_number`. `PoolIdx` maps the round robin index of the first version
to that of the second, and `ImplementsPool` is `ProcessPool!Spec` under that mapping.

### `BlockingServer` and the code

The parser of `handle_http_request.cc` is, function by function, that of
`ReqStatMach.h`, so the module extends `ReqStatMach` and uses its `Recv...` and `Scan...`
actions. New are `Accept` (which sets the members up by hand, `NewParser`), `AcceptFails` (the
client has reset the connection, and `PrintErrnoAndExist()` ends the server), the
`recv()` that blocks, `Respond` with the `close()`, the queue `waiting` of clients that
send and leave while another is served, and `Term` (`HandleTERM()` calls `exit()`).
`test_block_http_handler.cc` is the same file.

### `ChildServer` and the code

`clients` is the array of `T`, an object per descriptor number, of which the model keeps
`m_sockfd`, what is in `recvbuf`, and `m_result`; `conn` is what the kernel has behind the
number. `Wait`, `ReadSignal`, `ReadNotification`, `Accept`, `AcceptDone`, `Process` and
`Exit` are the parts of `RunChild()`; `accept()` returns the lowest free number, or fails
when there is none, or reports a connection that was reset and takes it off the
queue. Here `process()` is one step and a request two halves, because
`ReqStatMach` has the steps and the bytes; a notification is there or not, because
`ProcessPool` counts them. `T` is `ReqStatMach`, or the class `client` of
`TestProcessPool.cc`, which never closes anything (`TestProcess`).

### The timer list and the code

`TimerSortedList` keeps `head_`, `tail_` and the fields of every `ClientTimer` by
address. A loop over `cur` is the operator `StopsAt`, the point where it stops; an
assignment through a pointer is `SetNext` or `SetPrev`. `New` takes any free address, so
that a stale pointer may name a new timer. `DelTimer`, `ChgTimer`, `TickOnce` and
`Destroy` are the calls; the owner is one thread, so a call is one step. `Order` reads the
sequence off the links, and the list refines `SortedTimers` under it. What an
address that is freed contains is reset, which only merges states: nothing reads it.

### The chat servers and the code

| Variable | Code |
|---|---|
| `waiting`, `conn` | the queue of the listening socket; per descriptor the connection, whether something is unread, how much of its window is used |
| `kFDS`, `kCntClient` | the array given to `poll()` and how much of it is in use |
| `listening` | `revents` of the listening socket |
| `pc`, `fds_i`, `send_j` | position in the loop, and the slots its two `for` loops are at |
| `kStop` | the flag |
| `kSigPipeFD`, `signalled`, `kTimeout` | unread bytes of the socketpair, its `revents`, the flag that SIGALRM sets |
| `alarm`, `kClientTimerList`, `client_data`, `kClient` | seconds to the next SIGALRM; the list, as `SortedTimers`; per timer its client; per descriptor slot and timer |
| `expiring` | how many timers `TickOnce()` has still to take off |
| `due`, `moved` | observers |

`Test`, `Poll`, `SignalPhase`, `Accept`, then per slot `DropClient`, `Receive` or
`SkipClient`, and `EndOfRound` are the turns of the loop; `SendMessage`, `SendFails`,
`SendRaisesSigPipe`, `SendInterrupted` and `SkipSender` are one `send()` of the broadcast,
because each may block, and clients move meanwhile. Sockets are blocking: `Blocked` is
a `send()` into a full window. The revents that the loop tests are one value, the first
that its `if`s would find. `TimingGroupChat` replaces `DropClient` by `Drop`, which
does the same through `kClient` and the timers (`RemoveClientFromPoll`), and adds
`ResetSender` and `AlarmHandler()` in the steps `StartTick`, `ExpireFirst` and `EndTick`: one
turn of `TickOnce()` takes the first timer off the list and runs its handler, and
clients may come and leave between two turns.
`Second` is one second on every clock.

Messages are not told apart; a window is a count. In `TimingGroupChat` a time is the
seconds left, which is all that `TickOnce()` and `AddTimer()` compare.

## 3. The runs

| Run | Question | Result |
|---|---|---|
| `pool_dispatch` | Three children, nobody kills anything, deadlock checked; `accept()` may fail in any of them, at any time and for any length of time: are the children notified in turn, with none stuck behind a full socketpair? Is every waiting connection taken in the end, if there is a child that can take one in the end? | holds |
| `pool_shutdown` | The first version of the pool, a signal to anyone at any moment and a crash: is every step one of the rewritten pool? Can a child miss the stop, can a death drop a waiting connection? | yes; no |
| `pool_stops` | Does a stop signal end every process that has its handlers, and a stopping parent the whole pool? | yes |
| `pool_crash` | Does the parent outlive a crashed child, as the code means it to? | **no** |
| `pool_signals_lost` | Is a stop signal handled if it lies behind as many `SIGCHLD` as one `recv()` takes? | **no** |
| `req_clean` | Streams in which every CR belongs to a CR LF, in all pieces: is the verdict that of the bytes, and is a request that is complete when the child reads answered and closed? | holds |
| `req_lone_cr` | Does an LF end a line only after a CR, as the comment says? | **no** |
| `req_forgets` | Does an incomplete request keep its connection, as the message says? | **no** |
| `servers` | The serial server: is each client judged by its own bytes, whatever the one before did? Is a whole request answered, and does everybody get a turn, as long as the server lives and each client leaves some day? A child with many clients: does a descriptor number that is used again bring anything of its last connection with it, is a number ever free while its object is not? | yes; yes; no; no |
| `group_chats` | At both servers without timers: does the swap-removal lose anybody, is anybody passed over, does a `recv()` block, is a leaver closed, does SIGTERM end the server? | no; no; no; yes; yes |
| `timers` | The list: well linked and sorted under every order of calls? The server that uses it: is each client bound to its slot and timer, is there always a next alarm, do expired timers go? | holds, as far as no slot was moved |
| `chat_assert` | Does the assertion hold that a client's data names its slot? | **no** |

Bounds, and why they suffice:

* `pool_dispatch`: three children are the least for which a round robin can skip
  or repeat one, or find one that fails between two that do not; all of them may
  fail, together too. A socketpair of two notifications and a backlog of two fill
  up and leave room; `MsgBatch = 1` leaves notifications unread behind a consumed
  edge, `MaxAccept = 1` connections behind a finished loop.
* `pool_shutdown`: two children, one of which crashes or gets the signal, with the
  parent; a backlog of two, so that a queue that is thrown away differs from a
  connection that is accepted. With a full socketpair of one, every notification
  is at the limit. The invariants named in its configuration are those of
  `ProcessPool`, on the first version's variables; of the second they are proved.
* `pool_stops`: one signal, delivered anywhere. `SigBuf = 10` is the code's, and
  more than two children and one signal can fill, so the loss that
  `pool_signals_lost` shows is out of the way.
* `pool_signals_lost`: two children for `sigs[2]` stand for ten children
  (`k_max_num_process`) and `sigs[10]`.
* `req_clean`: all streams of at most five bytes, and two requests with a header,
  the second longer than the buffer of eight bytes, so that the buffer fills in
  the middle of a line, between CR and LF and between lines. A request without
  headers is five bytes long, so the short streams contain every way to spoil one.
* `req_lone_cr`, `req_forgets`: the streams that show the behaviour.
* `servers`: at the serial server two clients, the least for which one may disturb the other, and
  a buffer that the short request fills exactly and another overflows. The clients
  send no request line without a blank, which crashes the server (below). In the
  child two descriptors, so that one is used again while the other is busy, and so
  that they run out. In both, clients leave with a FIN, a reset, or one after the
  other, before they are accepted and after.
* `group_chats`: two slots, as the source has, three descriptors, so that a client
  too many is refused; a window of one message, so that a broadcast blocks. Resets
  are left to `timers`, where a broadcast may raise SIGPIPE, and to the proofs.
* `timers`: four list timers at three times give every shape of list and every
  place of insertion, with addresses used again; the server has the two slots of
  the source, an alarm each second, and clients that expire from one second to the
  next; clients speak and reset. `SIGURG` stands for the signals that share the
  socketpair.
* `chat_assert`: two clients that leave.

Three runs have bounds on the environment besides, named in their MC modules and part
of the specification with fairness only; the theorems are about the one without.
`SeenAtOnce` (`MCGroupChats`, `MCTimers`) lets clients speak only while the loop is
at `poll()`, and signals that stop nothing come only then or while it is asleep in a
`send()`, which they interrupt; in `MCServers` it lets notifications and signals come
only while the child is at `epoll_wait()`. What would
come earlier lies unseen until then, because nothing else looks for it, so every
behaviour of the loop is still there. SIGTERM to the group chat servers is not
bounded: when it comes is what their properties are about. `SentAtOnce` (`MCServers`)
lets a client that waits at the serial server send all or nothing; once it is accepted,
it can send in any pieces before the first `recv()`, which is the first that can tell.

`CHECK_DEADLOCK FALSE` appears where the system may really stop: a pool or a server
that was told to, a connection that is over, all clients gone.

### The findings

1. `ProcessPool.h:177` — nothing ever sets `pid_` back to `-1`, so the round robin
   returns to a dead child and `SIGPIPE` kills the parent while other children
   live; they are never notified again.
2. `ProcessPool.h:196` — the signal pipe is edge-triggered and read once for ten
   bytes; with ten children a `SIGTERM` can stay unread behind ten `SIGCHLD`s.
3. `ReqStatMach.h:225` — whether an LF ends a line depends on how the batch before
   ended, not on the byte before the LF.
4. `ReqStatMach.h:199` — an object that waits for the rest of a request has
   forgotten its descriptor: a request in two pieces is never answered and its
   connection never closed.
5. `timing_group_chat_service.cc:120` — the removal of a client moves the last slot
   into its place, but copies the data of the moved client to the closed descriptor
   and leaves its slot number as it was. When the moved client leaves, the
   assertion at 346 or 360 ends the server.

Seen on the way, without a run of their own, because the repository makes no
statement that they break, or because the finding above is their cause:

* After a move, the expiry of the moved client's timer closes what is in its old
  slot: another client, or an entry beyond the table. `ClosesTheIdle` and
  `BoundUntilMoved` say that only a move leads there.
* `group_chat_service.cc:161`: a SIGTERM between the test of the flag and `poll()` is
  noticed at the next event only, which may never come. `TermAtNextEvent` is
  what is left.
* The descriptors of connections whose object has forgotten them (finding 4) are
  not given back. When a child has none left, `accept()` fails there, and its turns
  of the round robin are lost (`ChildServer!AcceptFails`). The connections are not:
  `ListenerServed` says that they go to the next child, until the last child has come
  to the same state.
* `handle_http_request.cc:155-157`: the serial server exits when `accept()` fails, and
  a client that resets its connection before its turn can make it fail.
* The branch "accept to quick" (`ProcessPool.h:307-311`) is never taken
  (`FreeNumberFreeObject`).
* A broadcast to a client that does not read blocks the server, and with it SIGTERM
  in the two servers with a socketpair; a `send()` to a client that has reset its
  connection raises SIGPIPE, which nobody ignores.
* `client_timer_list.h:104-107`: appending leaves `tail_` where it was. Nothing reads
  `tail_`.
* `handle_http_request.cc:255-264` and `ReqStatMach.h:246`: a request line without a
  blank makes `strpbrk()` return a null pointer; `GET` alone on the line passes the
  comparison, and the pointer is followed. In the pool a child dies of it, at the
  serial server the whole server.

## 4. Fairness

`ProcessPool!FairSpec` assumes weak fairness of the parent's steps, of each child's
steps, and of the delivery of signals to each process: the scheduler runs every
runnable process and the kernel delivers every pending signal. Nothing is assumed
of clients, operators or crashes, nor that a child out of descriptors gets one
back. Weak fairness is enough, because a process that
can take a step can take it until it does.

`ListenerServed` says that the abstract `Served`, weak fairness of accepting,
follows from this; it is a promise of the pool, not an assumption about it. Its
condition, `<>[]CanAccept(i)` for some child `i`, is needed: if every child fails, or
each of them again whenever its turn comes, the parent notifies for ever and nobody
accepts. It is not a condition on the order of turns, nor on the other children.

`ReqStatMach!FairSpec` assumes weak fairness of the child only; a client may stop
sending at any point.

`GroupChat` and `GroupChatSio` assume that the server's process runs, and that each
client some day reads what it was sent. The second is an assumption about peers, not
about the code, and the properties do need it: the sockets are blocking, and one
client that never reads stops the chat.

`TimingGroupChat!FairSpec` assumes that the process runs and that time goes on
(`Second`). It is checked with clients that always read (no `"stall"` in `Habits`).

`ChildServer!FairSpec` assumes that the child runs, and nothing of clients, the parent
or signals.

`BlockingServer!SerialFairSpec` assumes that the server runs, and that the client being
served sends what it has to send and some day leaves. Without it the server stays
in `recv()` with one silent client, which is what a serial server does.

## 5. What is proved

For all values of the constants, from the assumptions in the modules alone, which
say that capacities are positive, sets of descriptors finite and at least as large
as the table, descriptors of a child numbers, and streams sequences of bytes. Four
theorems assume more of the streams, and `RoomForEverySignal` of the signals, and say so.

`ProcessPoolProofs`:

* `TypeCorrect` — `TypeOK`, with `AllBorn`: the parent selects only after it has
  forked everyone. It is needed because the round robin walks over `pid_`s.
* `NeverWedged` — `NoWedge` is inductive over the types: the send that fills a
  socketpair also makes the edge, and the child that consumes the edge reads.
* `NoChildMissesTheStop` — `ChildrenDoomed` is not inductive: a `recv()` that takes
  only a part of the signal pipe could leave the stop behind without an edge.
  `DoomInv` adds `OnlyStops` (children have no children, so every signal a child
  sees, pending or in its pipe, tells it to stop, and a `recv()` that takes any
  byte stops it; lemma `ReadDoom`) and `StopsAfterForks` (nobody is forked after
  the parent's kill loop).
* `NoChildForgetsASignal` — `ChildKeepsStop`, the safety half of `TermHandled` for a child:
  whoever sends it, a stop signal is pending, in the signal pipe with a wake-up, or
  noted, until the child is dead. `StopStays` says when a process keeps its reason to
  stop: when no `recv()` of the signal pipe stops short of one (`StopInReach`). Of a child
  that holds because of `OnlyStops`.
* `RoomForEverySignal` — `ParentKeepsStop`, the same of the parent, which sees `SIGCHLD`s, too.
  It assumes `NumProc + MaxKill <= SigBuf`: a byte for the death of each child and for
  each signal that is ever sent (`PipeInv`) is no more than one `recv()` takes. That is
  how much room the code would need; `sigs[10]` with ten children leaves none for the
  `SIGTERM` itself, and `pool_signals_lost` shows what follows.
* `FairRound` — `RoundRobin`. `recent` is related to `sub_process_idx`: the child
  selected `k` turns ago lies `k` places back on the ring.
* `PoolServesListener` — every step of the pool is a step of `ListeningSocket` or
  stutters: only `accept()` takes from the queue, one connection at a time, and only the last death closes.

`FirstPoolProofs`:

* `FirstImplementsPool` — the refinement. The invariant is that of `ProcessPool` under
  the mapping, with the index in the range of the array; given that every child is
  born when the parent selects, both loops stop at once (`FirstSelIsIdx`, `SelMaps`) and
  resume at the same child (`NotifyMaps`).
* `FirstNeverWedged`, `FirstStopReachesAll`, `FirstFairRound` — the theorems of
  `ProcessPoolProofs`, carried over by the refinement.

`ReqStatMachProofs`:

* `TypeCorrect` — the buffer never overflows and `linest_idx <= checked_idx <=
  m_read_idx`. The scanner's lemmas (`StopFacts`, `LineFacts`, `TakeLineType`) say
  where a scan stops and that the two bytes a line end overwrites have arrived.
* `AnsweredOnce` — `AnsweredIsOver`, from `Once`: in the middle of `process()` there
  is no result yet, or the object still knows the descriptor that it closes.
* `NothingUnscannedIsTouched` — `ScanFrontier`, inductive over the types.
* `VerdictOfTheBytes` — `PiecesDontMatter`, for buffers of every size and streams of
  every length. `Judged` relates the scanner to the reference: while there is no
  result, only whole lines lie behind `linest_idx`, none of which decides by the
  reference, and there is no line end between `linest_idx` and `checked_idx` (`Undecided`); what is not scanned yet is in the buffer as it was received. The
  verdict lemmas say how the reference's answer changes when one whole line is added.
  The theorem assumes `OnlyCrLf` of the streams: a CR is followed by an LF, if by
  anything. Without it the statement is false; that is finding 3.
  `CleanIsOnlyCrLf` says that the streams of `req_clean` satisfy it.
* `RequestsInTimeAnswered` — `NotOverlooked`, the safety half of `CompleteRequestAnswered`. A
  request is `InTime` when it has arrived and its object is reading, or has an edge
  to be woken by. Every step keeps it in time, or ends with the verdict
  `GOT_REQUEST` about to be answered (`InTimeStep`); what was received can be judged in
  one way only, however much has come behind the request (`OneVerdict`,
  `VerdictOfPrefix`). A request whose rest comes after the child turned away is not in
  time, and is not answered; that is finding 4.

`ServersProofs`, about the two systems of the run `servers`:

* `ServersTypeCorrect` — `ServersTypeOK`. The serial server's types are those of the
  parser it shares (`TypeInv` and the lemmas of `ReqStatMachProofs`), with the queue
  (`SerialInv`); the child's are `ChildShape`.
* `SerialJudgesOwnBytes` — `OwnBytesDecide`. `SerialJudged` is `Judged` of the client being
  served, and `OnlyCrLf` of everything that each waiting client has sent and will
  send, so that `Judged` holds again when the next one is accepted with a new parser.
  The assumption on streams is that of `VerdictOfTheBytes`.
* `FreeNumbersHaveFreeObjects` — `FreeNumberFreeObject`: `process()` may close a
  descriptor only while its own event is handled, and whatever is on the ready list
  belongs to an open descriptor (`ChildShape`), so no event reaches an object whose
  number was closed, or given to another client, in between.
* `NobodyAnsweredForAnother` — `AnswersItsOwn`, an action property. `NothingKept` is the
  reason: an object that holds the descriptor of an open connection has read nothing
  of it and has nothing in its buffer, and one that has forgotten it answers nobody,
  so all that `process()` can answer was sent on this connection.
* `NoRequestForgotten` — `RequestKept`, the safety half of `WholeAnswered`. `WakeUpKept` is
  inductive with the types: whatever can be read of a connection whose object knows
  its descriptor has put it on the ready list, or into the batch of events, and the
  child takes it from there only to look at it. A whole request is therefore woken
  for, and lost by no step but the answer or the end of the child.
* `SerialReadsOut` — `RequestReadOut`, the safety half of `WholeRequestAnswered`: the serial
  server goes on reading, in any pieces, until it has the request that its client
  sends, and a request it has is answered, unless the client leaves first. It uses
  the scanner's lemmas of `ReqStatMachProofs`, and the same assumption on streams.

`ChatTableProofs` and `GroupChatsProofs`, about both servers without timers:

* `ChatTypeCorrect`, `ChatTableStaysExact`, `ChatPassesNobodyOver`, `ChatNeverBlocksInRecv`,
  and once more for each server alone, `FlagServerCorrect` and `SioServerCorrect`. One
  invariant, `Sound`, gives them all: the types, `TableExact`, and
  `AheadOfEvents`, which says what the loop has still to come to — every descriptor
  that is due has a slot ahead of `fds_i`, and a slot ahead that reports data has
  data. The removal of a slot moves the last one, which is ahead, to where the loop
  stands, so it stays ahead; that is the use of the decrement. A new client's slot
  is ahead, too, and reports nothing. `ChatTableProofs` has one lemma per action,
  which both servers share.
* `LeaversRemoved` — `HangUpsRemoved`, the safety half of `LeaverClosed`: when the round ends,
  nobody is in the table of whom `poll()` reported that he had hung up. `HangUpsAhead`
  is inductive: a slot in use that reports a hang-up is ahead of the loop, though the
  last slot may move to the place where the loop stands.
* `TermNotForgotten` — `TermKept`, the safety half of `TermStops` and `TermAtNextEvent`: a byte
  of SIGTERM stays in the socketpair until it sets the flag, the flag stays set, and
  with it `poll()` is not called again.

`TimerListProofs`:

* `PointersWellLinked` and `PointersSorted` — `WellLinked` and `IsSortedList`. The
  invariant says that some sequence `c` of addresses, without repetition,
  `Represents` the pointers: `head_` is its first, each `next_` the one behind, each
  `prev_` the one before, and what is not in it is free. Every call is shown to take a
  represented list to a represented list, and to change `c` as the call of `SortedTimers`
  changes its sequence. `Order`, the walk over the links, is that `c` (`OrderIs`).
* `OrderStaysSorted` — what the walk meets is sorted, so the head is the next to expire.
  It holds of the sorted list, and of the pointers by the refinement.

`TimingGroupChatProofs`, about the server with idle timers:

* `TimersTypeCorrect`, `TimingTypeCorrect` — the types, before and after the first move.
* `OneTimerPerClient` — `TimersMatchClients`, at all times, in the middle of a tick, too.
  What makes it hard is that it survives finding 5: after a move the client
  data is wrong, and the count must come out right all the same. `BaseInv` says how wrong
  it can be: a client moves only towards the head of the table, so what it
  remembers is its slot or a later one (`Behind`), and as long as it is its slot, the
  assertion holds and the client has its timer; whatever is remembered is a slot that
  has had a client (`Slotted`). `Ticking` says that the timers still to be taken off are the
  first ones, and have expired.
* `AlarmsGoOn` — `AlarmChain`, inductive once the alarm is known to be a number.
* `ClientsBound` and `OnlyIdleClosed` — `BoundUntilMoved` and `ClosesTheIdle`. `StrongInv`
  holds until the first move: every client remembers its own slot (`InStep`), and every
  timer that runs was made for a client that is in the table and knows it (`Owned`).

The safety halves say that the state from which a promise follows is kept until it
is fulfilled, or that the round in which it is fulfilled leaves nobody out. What is left
to fairness is that the process takes its next step.

Model-checked only: the liveness properties themselves (`ListenerServed`, `Shutdown`,
`TermHandled`, `CompleteRequestAnswered`, `WholeRequestAnswered`, `EveryoneServed`,
`WholeAnswered`, `LeaverClosed`, `QueueServed`, `TermAtNextEvent`, `TermStops`, `ExpiredGo`), which
need fairness and `ENABLED` and are beyond the prover, and the violations. Every
invariant and every action property that a passing run checks, and every refinement
without fairness, is proved.

## 6. What is not modelled, and what is left

Not modelled:

* the demonstrations and `respond_http.cc`: straight-line I/O without a state of
  its own; `multithread_fork.cc` and `signal_thread.cc`, two threads and one lock
  that show what they were written to show;
* `nonblock_http_handler.h`, which is `ReqStatMach.h` but for an include and the name
  of a function;
* partial writes of the sixty-odd bytes of a response into an empty socket buffer,
  failing system calls of the set-up (the code asserts they succeed);
* a limit of open files above `k_max_clientfd`, with which `clients[client_sockfd]`
  would lie beyond the array.

Left to TLC: liveness, as said above; of `EveryoneServed`, `QueueServed` and `ExpiredGo` no
safety half is stated by itself, because the invariants that are proved (`RoundComplete`,
`AlarmChain`, the types of the serial server) are what they rest on.

Not attempted: a corrected program. The findings 1 and 5 suggest that clearing `pid_` of a
dead child keeps the round robin on living ones, and that moving the client data with
the slot keeps `BoundUntilMoved` for ever; the modules here are of the code as it is.
