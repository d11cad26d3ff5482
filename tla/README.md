# TLA+ verification of Easy-Reactor

Easy-Reactor is a C++ network library for Linux: event loops over epoll, a
multi-threaded TCP server, a TCP client, UDP endpoints and timers. This
directory holds TLA+ models of its core, configurations that check them with
TLC, and proofs that TLAPS checks. Paths such as `src/src/tcp_server.cc` are
relative to the directory that contains `src/` and `tla/`.

## 1. The system and its parts

| part | source | state it keeps | operations |
|---|---|---|---|
| event loop | `event_loop.cc` | `_io_evs`, `listening`, the epoll set, `_pendingFactors`, the current batch | `add_ioev`, `del_ioev` (2), `process_evs`, `add_task`, `run_task`, the timer calls |
| timer queue | `timer_queue.cc` | heap `_event_lst`, index `_position`, `_pioneer`, `_next_timer_id`, the timerfd | `add_timer`, `del_timer`, `get_timo`, `reset_timo` |
| thread queue | `thread_queue.h` | `_queue`, mutex, eventfd | `send_msg`, `recv_msg`, `set_loop` |
| thread pool | `thread_pool.cc` | queues, `_curr_index` | `get_next_thread`, `run_task` (2), `msg_comming_cb`, `thread_domain` |
| TCP server | `tcp_server.cc` | `conns`, `_curr_conns`, `_reservfd` | constructor, `do_accept`, `inc_conn`, `dec_conn`, `get_conn_num` |
| TCP connection | `tcp_conn.cc` | `ibuf`, `obuf`, `_connfd`, `_loop` | `init`, `handle_read`, `handle_write`, `send_data`, `clean_conn` |
| I/O buffers | `io_buffer.cc`, `io_buffer.h` | capacity, length, head of a buffer | `read_data`, `send_data`, `write_fd`, `pop`, `adjust`, `clear` |
| buffer pool | `io_buffer.cc` | free lists, `_total_mem`, mutex | `alloc`, `revert` |
| message dispatcher | `msg_dispatcher.h` | callbacks by message type | `add_msg_cb`, `exist`, `cb` |
| TCP client | `tcp_client.cc` | socket, `net_ok`, two buffers | `do_connect`, `handle_read`, `handle_write`, `send_data`, `clean_conn` |
| UDP server, client | `udp_server.cc`, `udp_client.cc` | socket, a read and a write buffer, `_srcaddr` | `handle_read`, `send_data` |
| configuration | `config_reader.cc` | sections of keys and values | `setPath`, `Load`, `ins`, `GetString`, `GetStringList`, `GetNumber`, `GetBool`, `GetFloat` |

**Interaction.** The main thread's loop calls `do_accept` when the listening
socket is readable. It checks the connection count and gives the descriptor to
a worker by `send_msg` (or keeps it, with no workers). A worker's loop is woken
by its queue's eventfd, and `msg_comming_cb` initialises the `tcp_conn` object
whose index is the descriptor; from then on that loop alone handles the
connection. Objects are never freed: `clean_conn` closes the descriptor, and
the next connection with the same number uses the object again, perhaps in
another thread. All threads share `conns`, `_curr_conns` (with a mutex) and the
buffer pool (with a mutex); everything else belongs to one loop. A client or a
UDP endpoint lives in one loop; the client's callbacks and its retry timer are
called by that loop, and its buffers outlive its connections. Every endpoint
looks callbacks up in its own dispatcher. The configuration is read once, before
the server starts.

**What is hard.** Descriptor numbers come back at once while other threads
still clean up; the accepter's count is behind the queues; the loop works off a
batch that was reported before the batch's own callbacks ran; timers expire
while the queue changes; streams are cut anywhere; datagrams are lost, doubled
and reordered; a client's connection ends at any point of a read, a write or a
retry; the descriptor table and the buffers have limits. `PROJECT.json` lists these hazards at their lines, each
with the properties that watch it.

**What makes the parts correct.** Queues: no lost wakeup, first in first out,
exactly once. Server: one owner for every open descriptor, an exact count, a
slot for every admitted connection, a backlog that drains. Connection: framing
in both directions, EPOLLOUT exactly while something waits. Pool: one owner for
every buffer, exact lists and memory account. Loop: its table equals the
kernel's, every ready descriptor is served, tasks run once in order. Timers: a
heap with a right index, never early, never forgotten. Client: one attempt, one
timer or one connection at a time, and an output stream that survives
reconnections whole. UDP: whole datagrams to callbacks, answers to who asked.
Configuration: the last assignment of a key in its section counts.

## 2. The modules

`ThreadPool` (with `Mailbox`). Every lock, push, eventfd write and read, swap
and unlock of `send_msg` and `recv_msg` is an action. `spc` and `wpc` are the
positions of senders and workers; `todo` is what a `run_task` or `do_accept`
call still has to send, and `left` what calls may still be made, from a workload
chosen at the start. `msg_comming_cb` handles one message per step,
`run_pending` runs one task. `sent`, `handled`, `ran`, `asked`, `assigned` are
history. `Mailbox` is the abstract promise; `MailboxInstance` maps `sent` and
`handled` onto it. What a NEW_CONN message does is left to `TcpServer`.

`TcpServer`. `fdtab` is the kernel's descriptor table, which always hands out
the lowest free number; `setup`, chosen once, is how the server was started
(workers, descriptor limit, descriptors the workers open late, after the
constructor's `dup(1)`). Descriptors that the application's own callbacks open or
close later are not in the model. `do_accept` has
one action per outcome of each system call; `clean_conn` is split where other
threads can see the difference (`dec_conn`; `del_ioev` and `close`; the
`ibuf.adjust()` afterwards, position `adjust`). A message between threads is
sent and received in one step each, which is what `ThreadPool` shows to be all
there is to see. `stolen` is history: `close(_reservfd)` has hit a descriptor
that was not the placeholder. From then on the loop's table and the kernel's
disagree, so `OwnedOnce`, `ConnCount` and `Released` speak of the time before.

`TcpConn`. One object over several connections. A byte is named by its message
(numbered over all connections) and its offset, so a byte that is lost,
repeated, misplaced or left over can be told. `read_ioctl`/`read_bytes` split
`read_data` at its two system calls, the peer acting in between. `parse_*`,
`dispatch` and `callback_returns` are the message loop; `send_*` are the
outcomes of `send_data`; `write_*` those of `handle_write`. `alloc` is the
contract that `BufferPool` checks as `HandsOut`.

`BufferPool`. The free lists are pointers (`pool`, `next`), as in the code; the
history variable `free` says what they should be, and `OneOwner` compares the
two. Taking from and putting on a list are two steps each, so that the lock
matters.

`EventLoop`. `io_evs` and `epoll` are partial functions. While a callback or a
task runs, any calls of `add_ioev`, `del_ioev` and `add_task` may be made, for
any descriptor, those later in the batch too. Left out are the `close` of a
descriptor that is still registered, on which the kernel would forget it and the
loop would not, and an `epoll_ctl` that fails for want of memory or watches; it
fails where the operation does not fit what is registered. Readiness changes only while the
loop polls: a change during a batch is not seen before the next `epoll_wait`
anyway. `capacity` and `valid` follow the storage of the task vector: an
iterator over storage that has been given up may go on over the old entries, and
in the end crashes. `meddled` is history: the descriptors unregistered while
they waited in the batch. The task histories are those of one round, from one
`clear` to the next. The branch of `process_evs` that deletes an event without
callbacks is in `dispatch`, but no event can be without both.

`TimerQueue` (with `TimerService`). The heap operations are operators on a
record of vector and index. A timer has its identifier and `h`, the first one
it was given, which is the handle the application holds. `NoPioneer` stands for
`(uint64_t)-1`, and `Before` compares with it as the code's unsigned comparison
does. A loop of the code is `Rounds(Step, x, n)`: `Step` is one round and leaves
its argument alone once the loop's condition is false, and `n` is enough rounds
for it to end, which `HeapIsRight` and `ImplementsService` prove (section 4);
the recursive `heap_hold` is such a loop too. `TimerService` keeps a set of pending timers and the list of
taken ones.

`TcpClient`. `pc` is the loop's position in `do_connect`, `connection_cb`,
`handle_read` and `handle_write`, with the user's callbacks (`onconnect`,
`onclose`, the message callbacks) as positions of their own in which
`send_data` may be called. `connect` has its three outcomes (at once, in
progress, error), and the result of one in progress comes from the environment
(`connect_result`). `timer` is the pending `reconn_cb`. `sock` says what the
number in `_sockfd` stands for, since `do_connect` closes it once more after
`clean_conn` has. `ibuf` and `obuf` are the two `io_buffer` structs with their
`head`; bytes are named as in `TcpConn`, over all connections. A head that is
not one of the server's (the stream is out of step) ends in `corrupt`. `tidy` is
history: every read so far was exactly one message. `AllFit` says that no message
is larger than `ibuf`; the code does not see to it.

`Udp`. One server and its clients, each with its dispatcher (`cbs`, filled by
`add_msg_cb` before and while the loops run). `net` is a set of datagrams that
may be delivered, duplicated, lost or answered by an ICMP error, in any order;
`stray` injects datagrams that no `send_data` made. `handle_read` takes
datagrams until `recvfrom` has none or fails. What a datagram shorter than a
head is read as depends on the older bytes of `_rbuf`: `HeadsOf` is the set of
heads it may show.

`ConfigReader`. A file is a sequence of lines from the set `Lines`, a line a
sequence of characters, because the properties are about the parsing itself.
`getline` treats one line (section, assignment or neither), and the getters are
operators over `_map`. A key before the first section follows a null pointer:
the model ends in `crashed`. `GetNumber` keeps the width of `unsigned` (`UInt`,
here one byte).

`MC*` modules only give the constants values. `*_Suffix` definitions marked
*Mutant* in the component modules are altered copies of the definition that
follows; no specification uses them. They show what each property excludes.

## 3. Runs

Passing runs:

| run | bounds | shows |
|---|---|---|
| `pool` | 2 senders, 2 workers; 2 calls of `run_task` (each may be for all workers), or a connection and a `run_task`, or 4 connections | `TypeOK`, `NoLostWakeup`, `Balanced`, `TasksInOrder`, refinement of `Mailbox` with liveness, `EveryTaskRuns` |
| `server` | maxConns 2, 3 clients; without workers and 2, 3 or 5 descriptors; with 1 worker and 2 descriptors; with 2 workers and 3 or 6 descriptors, 0 or 1 of them opened late | `OwnedOnce`, `ConnCount`, `ConnLimit`, `NoAbort`, `Released`, `BacklogDrains` |
| `conn` | heads of 2 bytes, bodies up to 3, 5 kinds of message (one unregistered, one too long, one without a body), 2 messages, 3 sends of 3 bytes, buffers of 4 or 6, any number of connections | `InFraming`, `OutFraming`, `EpollOutIffPending`, `Buffers`, `EventuallyWritten`, `EveryMessageHandled` |
| `buffer_pool` | 2 threads, capacities 1 and 3, 3 buffers at first, limit 7, requests of 1, 2 and 4 | `OneOwner`, `MemAccounted`, `HandsOut`, `CallsReturn` |
| `loop` | 2 descriptors, 2 tasks in a round, callbacks and tasks that make any calls of `add_ioev`, `del_ioev` and `add_task` | `TablesAgree`, `TasksInOrder`, `NoCrash`, `Served` |
| `timer` | 4 timers, 2 deletions, clock to 4 | `HeapOK`, `ArmedInTime`, refinement of `TimerService`, `EventuallyFires` |
| `client` | 2 messages of the server (one kind larger than the buffer), 3 sends, buffers of 6, any number of connections | `OneAttempt`, `InFraming`, `OutStream`, `Reconnects`, `EventuallyWritten` |
| `udp` | 2 clients, 3 datagrams (strays included), 1 duplication, sockets that hold 2 | `WholeDatagrams`, `RepliesToSender`, `Drained` |
| `config` | files of up to 4 of 15 lines | `LastOneWins`, `ItemsAreRuns` |

The bounds let the interesting cases happen: two messages in one queue while
its worker swaps, a round robin that wraps and goes on (the third of four connections
wraps, and the fourth shows where the index is left), every descriptor number used twice,
more clients than `maxConns`, a full descriptor table with and without a
connection in it, buffers that must grow and buffers that cannot, an empty free
list and the memory limit, two events in a batch with callbacks that unregister
each other, a task vector that grows under the iterator, a connection lost with
half a message in either buffer, a socket whose queue is full. `timer` stays
below six timers, where the heap is right; the run `timer_sift` shows what
happens from six on. Connections are not bounded in `conn` and `client`: the
histories of a connection end with it (`conn`) or are bounded by the messages
(`client`). Symmetry is used only for interchangeable clients and only in
`server_slot`, which has no liveness.

Three runs end in a counterexample, each recorded under `findings` with the line
of the repository it contradicts:

| run | what the code does |
|---|---|
| `server_slot` | with workers, connections still in a queue are not counted, and `assert(connfd < _conns_size)` can fail |
| `timer_sift` | `heap_del` only sifts down, so a deletion can break the heap order (six timers) |
| `client_framing` | the client's test for an incomplete message is the wrong way round: it waits when more than the message is there and calls the callback when less is |

The passing runs state what holds around these: `NoAbort` lists the only
circumstances in which the slot assertion can fail, `HeapOK` holds below six
timers, and the client's `InFraming` holds as long as every read returns one
message and none is larger than `ibuf`.

### Statements the models refute

Some more statements of the repository, or expectations one would have of it, do
not agree with its code. They are stated at the end of the modules, or are a
listed property under other constants; adding the property to a configuration
with the constants given here makes TLC print the behaviour.

| property | constants | what the code does |
|---|---|---|
| `ThreadPool!TasksRunAsAsked` | as in `pool` | `run_task(task, args)` calls `run_task(i, task)` and drops `args` (`thread_pool.cc:90`) |
| `TcpServer!ReserveIsOurs` | as in `server` | after `EMFILE` with an empty backlog `_reservfd` is a stale number, and the next `EMFILE` closes whatever has it (`tcp_server.cc:125`) |
| `TcpServer!NoReserveLeak` | as in `server` with maxConns 3 and the setup of 1 worker and 2 descriptors | `conn_full` is not reset within a call, so each further connection opens another placeholder (`tcp_server.cc:139`) |
| `TcpServer!ExclusiveConn` | as in `server` | after a malformed head `handle_read` calls `ibuf.adjust()` on an object another thread may have taken over (`tcp_conn.cc:91`) |
| `TcpConn!EmptyBodyHandled` | as in `conn` | for a message without a body `pop(0)` on a buffer already given back meets the assertion of `io_buffer.cc:182` (`tcp_conn.cc:89`) |
| `TcpConn!FailedSendLeavesNoTrace` | as in `conn` | a send whose body does not fit pops the oldest bytes of the buffer instead of its own head (`tcp_conn.cc:136`) |
| `TcpConn!WriteBufferReturned` | as in `conn` | `write_fd` pops with `io_buffer::pop`, which keeps the buffer (`io_buffer.cc:285`; `src/README.md:104`) |
| `EventLoop`: `pc # "aborted"` | as in `loop` | deleting an event that comes later in the batch fails the assertion of `event_loop.cc:42` |
| `EventLoop`: `pc # "crashed"` | as in `loop` | `add_task` from a task can move the vector under `run_task`'s iterator (`event_loop.cc:191`) |
| `TimerQueue!ArmedForTop` | as in `timer` | after the first timer is deleted the timerfd stays armed for its time (`timer_queue.cc:48`; `src/README.md:40`) |
| `TimerQueue!NeverEarly` | as in `timer` | an expiry already reported fires a timer that was added after it (`timer_queue.cc:58`) |
| `TimerQueue!EventuallyFires` | as in `timer`, RunAtTimes {0, 2} | a timer for time 0 disarms the timerfd (`timer_queue.cc:93`) |
| `TimerQueue!DeletedIsGone` | as in `timer` | a periodic timer gets a new identifier each time it fires, so the handle of `run_every` no longer deletes it (`timer_queue.cc:71`) |
| `TcpClient!StartsAtHead` | as in `client` | a message written in part goes on, on the next connection, where it was cut (`tcp_client.cc:263`) |
| `TcpClient!ClosesOwn` | as in `client` | `clean_conn` closes `_sockfd` and keeps the number; `do_connect` closes it again, whoever has it by then (`tcp_client.cc:93`) |
| `TcpClient!Listens` | as in `client` | after a `connect` that succeeds at once no event is registered, so the client does not read (`tcp_client.cc:99`) |
| `Udp!NoAbort` | as in `udp` | a datagram of a type without callback meets the assertion of `msg_dispatcher.h:28` |
| `Udp!WbufInBounds` | as in `udp` | the length check of `send_data` leaves out the head (`udp_server.cc:95`) |
| `Udp!RejectedLeavesSource` | as in `udp` | `recvfrom` stores the source of a datagram before it is checked (`udp_server.cc:63`) |
| `ConfigReader!NoCrash` | as in `config` | a key before any section follows a null pointer (`config_reader.cc:94`) |
| `ConfigReader!FalseIsFalse` | as in `config` | `GetBool` cannot return false if the default is true |
| `ConfigReader!NegativeIsNone` | as in `config` | a negative number is read as a large unsigned one |

`OutFraming` is stated for buffers that no failed send has damaged, and
`InFraming` of `TcpConn` says that an assertion fails only after such a send or
for a message without a body.

**Deadlock** is checked in `pool`. The other systems may really stop: when peers
or the application do nothing more, or when the process has ended.

**Fairness.** A thread that can run is scheduled (weak fairness on each loop,
worker and sender in `send_msg`). A thread that waits for a mutex gets it if
the mutex is free again and again (strong fairness on the lock steps); POSIX
does not promise this, but a critical section here is a few instructions. In
`TcpConn` and `TcpClient` the other side takes what is written, so that a write
tried again and again succeeds. In `TcpClient` the server is not down for ever:
an attempt made again and again succeeds, and the client gets to see it before
it is reset (strong fairness on `connect_result("up")` and `connected`); without
this no retry could promise anything. In `EventLoop` a ready descriptor is in a
batch again and again, because epoll reports in rotation; callbacks return.
In `Udp` only the loops are fair: the network may lose everything. Peers,
clients and the application are never assumed to do anything else.

## 4. Proofs

Every safety invariant that a run checks is also a theorem of its specification,
for every value of the constants, except those of `ConfigReader`; `HeapOK` and
`ArmedInTime` of `TimerQueue` are proved under the conditions without which the
code breaks them. A component's proofs are in the module `<component>Proofs`. Each
theorem rests on an inductive invariant `Inv` with `Init => Inv`,
`Inv /\ [Next]_vars => Inv'` (a lemma per action or group of actions) and
`Inv => ` the property. The bounds of the runs (`MaxMsgs`, `MaxSends`,
`Workloads`, ...) are constants too, so a theorem holds for any bound.

**`ThreadPoolProofs`**: any number of threads from 1 to 30 (the range the
constructor accepts), any senders, connections, tasks, arguments and calls.

- `TypeCorrect`: `[]TypeOK`. The invariant also needs `Busy`: a sender in
  `send_msg` has something to send, or `Head(todo[s])` means nothing.
- `WakeupNeverLost`: `[]NoLostWakeup`, which speaks of unlocked queues only and
  so is not inductive. `Locking` says who holds a lock, by where senders and
  workers are (`Holding`), that the worker enters the swap with an empty local
  queue, so that the swap leaves the shared one empty (`Swapped`), and that a
  non-empty queue with a zero eventfd exists only between a sender's push and
  its write or between a worker's read and its swap (`Wakeup`).
- `RoundRobin`: `[]Balanced`, from `Dealt`: each thread has as many connections
  as the last one, and one more if its turn in this round is past.
- `ImplementsMailbox`: `Spec => MailboxInstance!Safety`, from `Fifo`: what was
  sent is what was handled, then what the worker has taken, then the queue.
- `TasksRunInOrder`: `[]TasksInOrder`. `TasksAmong(r, h)` says that `r` is the
  subsequence of the tasks in `h` by naming the places, increasing and onto, and
  not with a recursive filter; a message handled or a task run extends or moves
  the places.

**`TcpServerProofs`**: any workers, clients, `maxConns`, descriptor limits.

- `ServerInvariant`: `[]Inv`. `Holding` says who has an open descriptor, of
  queues, epoll sets, objects and loops inside `clean_conn` together, up to the
  first theft (`stolen`). `InBounds`, `Single` and `Roomy` hold even after it.
- `EveryConnectionHasOneHolder` (`OwnedOnce`) and `CountIsRight` (`ConnCount`)
  follow from `Holding`, through the cardinalities of what it says.
- `LimitIsKept` (`ConnLimit`): with workers because all connections served have
  a slot, without workers because the count is never behind (`Single`).
- `AssertFailsOnlyBehind` (`NoAbort`): without workers, accept's lowest free
  number is at most one more than the number of connections, all lower numbers
  being connections or the one placeholder (`Roomy`).

**`TcpConnProofs`**: any messages, malformed and empty ones among them, any
capacities, length limit, number of connections, messages and sends.

- `ConnInvariant`: `[]Inv`. `In` says that the bytes in `ibuf` and those not yet
  read are a stretch of what peers have sent which starts with the next head
  (`Stream`, given by its first byte and by which byte follows which), and ends
  with the last byte sent unless the connection was reset (`Ends`).
- `CallbacksGetWholeMessages` (`InFraming`): the first bytes of a stretch are
  those of one message (`WithinFrame`), and taking them off leaves a stretch
  (`DropFrame`).
- `RepliesGoOutInOrder` (`OutFraming`), `ListensForWritingWhenNeeded`
  (`EpollOutIffPending`), `BuffersAreHeldOnlyWhenNeeded` (`Buffers`): from `Out`,
  which claims the stream while no failed send has left its trace, and from
  `Fits` of both buffers and `In`.

**`BufferPoolProofs`**: any threads, finite set of capacities, first
allocation and memory limit.

- `PoolInvariant`: `[]Inv`, which says who holds the mutex (`Locking`), what a
  call knows at each step (`Working`), that a buffer is in one hand or on one
  list (`Owned`), how lists are linked (`Lists`), that only buffers in use hold
  data (`Clean`) and what `_total_mem` is (`Memory`). The parts need each other:
  `alloc` writes a link after the unlock, which is harmless only because of
  `Owned`.
- `EveryBufferHasOneOwner` (`OneOwner`), `AllocHandsOutCleanBuffers`
  (`HandsOut`), `MemoryIsAccounted` (`MemAccounted`). `OneOwner` counts hands and
  list entries of a buffer; that the count is 1 comes from `Owned` and `Lists`.

**`EventLoopProofs`**: any descriptors, batch sizes, tasks, and callbacks that
make any calls.

- `TablesNeverDisagree` (`TablesAgree`), inductive with the types.
- `LoopTripsOnlyOverMeddling` (`NoCrash`), from what is true of the events that
  still wait in the batch (`BatchOK`), which rests on callbacks staying set
  while an event is registered (`CallbacksSet`).
- `TasksRunInOrder` (`TasksInOrder`), from `TasksOK`: the vector holds all tasks
  added, and the iterator separates those that have run.

**`TimerQueueProofs`**: any clock, times, delays, intervals, additions and
deletions.

- `IndexIsExact`: `[]PositionMap`, with no condition. `del_timer` trusts the
  index, so it never removes another timer than the one it is given, not even
  from a heap out of order.
- `HeapIsRight`: `[]HeapOK` if nothing is ever deleted or the application adds at
  most five timers. The limit is that of `DelOrders`: with up to five timers the
  last one is never before the parent at the place it moves to, and sifting it
  down is enough. The run `timer_sift` shows the deletion with six.
- `OnlyDisorderDelays`: `[](HeapOrder => ArmedInTime)` if `run_at(0)` is not
  called. So the two findings, a heap out of order and the time 0, are the only
  ways in which a timer can be late. `ArmedWhileSmall` combines it with
  `HeapIsRight`. Both hypotheses are needed: section 3 has the behaviours.
- `ImplementsService`: `Spec => ServiceSpec`, the whole of `TimerService` (it has
  no fairness), with no condition.

The proofs follow the code from the inside out. The sifting loops keep the
index and the set of timers (`Sifting`) and restore the order (`Rising`: only
the timer that rises may be before its parent, and its children are not before
that parent; `Sinking` likewise). `Taking` and `Readding` are the invariants of
the two loops of `get_timo`: taken and remaining timers are apart and together
all there were, the taken ones have the time of `_pioneer`, and there is a
one-to-one function from the periodic timers among them to the new ones
(`Back`). The invariant of the states, `FullInv`, needs, beyond that, that
`_pioneer` is never later than the top (`Ahead`), that the timerfd is armed for
`_pioneer`, that it has expired when a batch is under way and the queue was not
touched, that identifiers in the heap are below `_next_timer_id`, and that there
are no more timers than were added.

**`TcpClientProofs`**: any messages, capacity, connections, messages and sends.

- `ClientInvariant`: `[]Inv`, of `Attempt`, `Out` and `In`.
- `OneAttemptAtATime` (`OneAttempt`) needs that nothing is registered while
  `do_connect` runs. `NothingLostOrSentTwice` (`OutStream`, with the assertion of
  `handle_write`) needs that EPOLLOUT is registered only while something waits.
  `TidyInputIsFramed` (`InFraming`) needs the contents of `ibuf` from a tidy read
  to the end of its callback.

**`UdpProofs`**: any clients, types, callbacks, strays, losses, duplications.

- `CallbacksGetWholeDatagrams` (`WholeDatagrams`) and `AnswersReachTheirClient`
  (`RepliesToSender`), from `Travelling`: whom every datagram on its way or in a
  socket can be from and whom it answers, and `Serving`: what a callback in
  course has to do with `_rbuf` and `_srcaddr`.

**Assumptions.** Only the named `ASSUME`s of the component modules: types of the
constants, model values that differ from each other, and for the pool that what
is allocated at first is below the limit. TLC evaluates them in the runs.

**Induction.** The provers cannot instantiate induction theorems, so where a
proof needs induction over a number or a finite set it looks at a least
counterexample, which exists because the order is well founded (`WFMin`): the sum
over the pool's buffers, the length of a stretch of the stream, the numbers below
the lowest free descriptor. For `TimerQueue` this gives `AllNaturals`, induction
with a set in place of a predicate; from it follow that the recursive function in
`Rounds` exists and is unique, and the rule that a loop invariant given as a
function `J` from rounds to sets of states holds after every round. `Rounds` takes
an operator, so the rule is stated once per loop body (`SiftUpRounds`,
`SiftDownRounds`, `TakeTopRounds`, `ReaddNextRounds`).

**What the proofs found.** Three places where a property, true in its run, was
not true in general:

- The client's `InFraming` needs that no message is larger than `ibuf`. The
  client never compares a length with `MSG_LENGTH_LIMIT`, its `ibuf` has 4 MB
  (`tcp_client.cc:68`), and a server's output buffer may have 8 MB
  (`io_buffer.h:69`). `AllFit` now says so in the property, and the run has a
  message that is too large.
- `InFraming` of `TcpConn` left out a message without a body, for which `pop`
  meets its assertion. The run has such a message now, and the property says
  exactly when the assertion fails.
- In `OwnedOnce`, `Queued` counted only the first places of a queue, as many as
  the run needed. It counts all of them now.

**Only model-checked.**

- Everything with fairness: `EveryTaskRuns` and the liveness half of `Mailbox`,
  `Released`, `BacklogDrains`, `EventuallyWritten` (twice), `EveryMessageHandled`,
  `CallsReturn`, `Served`, `EventuallyFires`, `Reconnects`, `Drained`.
- `ConfigReader`: `LastOneWins` and `ItemsAreRuns` are about what scans of a
  string find (`trim`, `isSection`, the items of a list), for every string. That
  is an induction of its own for each scan, for a component that runs once, in
  one thread, before the rest starts.

## 5. Not modelled, and the plan

Not modelled: logging (its exits are in the models), the abstract interface
`net_commu` and `easy_reactor.h`, which includes the other headers, the conversion of
`GetFloat` (the C++ library's), examples, tests and generated protobuf code.
Left out of modelled parts: socket options, the user's callbacks at connection
and close on the server's side, the destructors, `pthread_once`, a failing
`ioctl` in the client, the 32-bit arithmetic of delays in `run_after` and
`run_every`, and `EINTR` retries, which change nothing. `udp_server.cc` and
`udp_client.cc` each define a global `read_cb`, which concerns the linker and
not the behaviour.

Order of work:

1. `ThreadPool` and its proofs, `TcpServer`, `TcpConn`, `TimerQueue`,
   `BufferPool`, `EventLoop`: done.
2. `TcpClient`, `Udp` with the message dispatcher, `ConfigReader`: done.
3. Proofs of the safety invariants of `ThreadPool`, `TcpServer`, `TcpConn`,
   `BufferPool`, `EventLoop`, `TimerQueue`, `TcpClient` and `Udp`, and of the
   refinements of `Mailbox` (its safety) and `TimerService`: done.
4. The hand-over contracts between modules as theorems (the pool's `HandsOut`
   as the `alloc` of `TcpConn`, the mailbox as the one-step messages of
   `TcpServer`), as far as they can be stated without a product of state spaces.
5. The delays of `run_after` with their width.
