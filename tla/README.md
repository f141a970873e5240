# A formal model of the network library (`src/src`)

The program is a reactor in C++: loops on epoll, one per thread, with a task
queue, a timing wheel, TCP and UDP sockets on top of them, a name service, an
RTMP handshake, and a small base library for tasks and log files. These modules
model it in TLA+, check it with TLC on small instances and prove part of
it with TLAPS. `PROJECT.json` lists the runs, the theorems, the source lines
every definition stands for, the finding, and the hazards the properties are for.

## The system

| component | state | operations | talks to |
|---|---|---|---|
| `EventLoop` | `looping_`, `events_`, `functions_` under `lock_`, `pipe_event_`, `wheel_` | `Loop`, `Quit`, `RunInLoop`, `RunFunctions`, `WakeUp`, `AddEvent`, `DelEvent`, `EnableEventWriting` | any thread through `RunInLoop`; its `Event`s by virtual handlers |
| `TimingWheel` | four deques of slots, `tick_`, `last_ts_` | `InsertEntry`, `RunAfter`, `RunEvery`, `OnTimer`, `PopUp` | called by its loop once per iteration; runs callbacks in destructors |
| `TcpConnection` | `closed_`, `io_vec_list_`, `message_buffer_`, callbacks, weak `timeout_entry_` | `OnRead`, `OnWrite`, `OnClose`, `Send`, `ForceClose`, `OnTimeout`, `ExtendLife` | its loop, the kernel, the application's callbacks |
| `TcpServer`, `Acceptor` | `connections_`, the listener `fd_` | `Start`, `Stop`, `Open`, `OnAccept`, `OnConnectionClose`, the listener's `OnClose` | creates connections and drops them |
| `MsgBuffer` | `head_`, `tail_`, `initCap_`, `buffer_` | append, add in front, read from a descriptor, retrieve, unwrite | owned by a connection |
| `EventLoopThread` | `loop_`, `running_`, `lock_`, `condition_`, `once_`, `promise_loop` | constructor, `Run`, `StartEventLoop`, destructor | a child thread |
| `EventLoopThreadPool` | `threads_`, `loop_index_` | `Start`, `GetNextLoop`, `GetLoops` | its threads, any caller |
| `TcpClient` | `status_` | `Connect`, `ConnectInLoop`, the first report, `Send`, `OnClose` | its base class `TcpConnection`, other threads that send |
| `UdpSocket`, `UdpServer`, `UdpClient` | `buffer_list_`, `closed_`, `connected_` | `Send`, `OnRead`, `OnWrite`, `OnClose`, `Start`, `Stop`, `Connect` | the loop, the kernel, callbacks |
| `DnsService` | `hosts_info_` under `lock_`, `running_` | `AddHost`, `GetHostAddress`, `UpdateHost`, `OnWork`, `Start`, `Stop` | a worker thread and any caller |
| `RtmpHandShake` | `state_`, `is_complex_handshake_`, packets | `Start`, `HandShake`, `WriteComplete` | a connection's callbacks |
| `TaskMgr`, `Task` | `tasks_` under `lock_`, `when_` | `OnWork`, `Add`, `Del`, `Restart` | the main loop |
| `FileMgr`, `FileLog` | `logs_` under `lock_`, `last_*`, `fd_` | `OnCheck`, `Rotate*`, `GetFileLog`, `RemoveFileLog`, `WriteLog` | a task, and every thread that logs |

What is hard to test: tasks, wake-ups and `Quit` interleave between threads;
epoll reports an edge once, and Loop calls one handler per report; a connection
is closed from handlers, callbacks, posted tasks, timers and destructors, each
with its own references; descriptors are used again within one batch of events;
writes are partial and fail for a while; entries of the wheel cascade and share
references; a child thread starts before the object around it exists; streams are
cut anywhere while a protocol counts bytes; files are renamed while others write.

What makes each component correct is in the table of the modules, below.

## Modules

| module | models | abstract specification |
|---|---|---|
| `EventLoop` | task queue, lock, wake-up pipe, the phases of `Loop` | `TaskQueue`: a task runs once, on its loop, in order |
| `TimingWheel` | the wheels, their cascade, entries with several references | `Alarms`: one alarm per entry, never late, early by less than a slot |
| `TcpConnection` | output and input of one connection, kernel and peer | |
| `TcpClient` | extends `TcpConnection` with the connecting phase; an accepted connection is the case without one | |
| `TcpServer` | listener, life and close of connections on one loop, descriptors, references | |
| `MsgBuffer` | the byte vector and its members | `ByteQueue`: a string that grows and shrinks at its ends |
| `EventLoopThread` | constructor, child, `Run`, destructor | |
| `EventLoopThreadPool` | extends `EventLoopThread`, the last thread of the pool, with `Start` and the round-robin counter | |
| `RtmpHandShake` | both ends of a handshake and the streams between them | |
| `UdpSocket` | a datagram socket of a server or a client | |
| `DnsService` | the table of hosts and its worker | |
| `LogFiles` | `TaskMgr` with tasks, `FileMgr` and its logs | |

`MC*` modules give the constants of the instances; `*Proofs` modules hold the
theorems. `BufferAndWheelProofs` (of `MsgBuffer` and `TimingWheel`) and
`BackgroundProofs` (of `DnsService` and `LogFiles`) each join the proofs about two
components that share nothing; the names of their state machines are kept apart for that
(`WheelSpec`, `LogSpec`).

**EventLoop.** A loop stands for the object and its thread. `pc` follows the
thread through `Loop` (`start`, `check`, `wait`, `read`, `dispatch`, `lock`, `run`,
`pop`, `timer`) and through `RunInLoop` (`call`, `push`, `open`, `write`), for every
thread. Each step is what the code does between two points where another thread
can get in. `RunFunctions` leaves the task in `functions_` until it has run, and
the task may call `RunInLoop` itself with the lock in hand (`Spawn`). A pipe holds
pages; a page is free again when all of it is read, and a read takes eight bytes
while a write brings four, so the pipe can fill up. The write that fails is
dropped, as in the code. `EpollOther` is a timeout or a report of other events: in
the model, as in the code, the tasks run in either case. The callbacks of I/O and
timers are `HandlerCall` steps.

**TimingWheel.** Entries are references in slots; the callback runs when the last
reference goes. `PopUp` rotates a wheel and then drops the slot, so that closures of
an outer wheel insert their entry into wheels that have turned already. The clock
is free: the loop may be late and the clock be set back, and `OnTimer` makes one
tick or none. `crashed` is an index out of range (a delay of whole minutes, hours or
days, or a delay of zero), or the endless recursion of a refused `RunEvery`; what
C++ does then is undefined and the model stops.

**TcpConnection.** Bytes are units `<<message, offset>>`. Between two system calls
the kernel and the peer go on. `ready` is the entry on epoll's ready list: `Dispatch`
takes it and calls one handler, as the `else if` chain of `Loop` does. `SendInLoop`
with its unsigned `send_len` is modelled as written: on a full buffer one unit in
front of the message joins the list (a stray), and `StreamInOrder` leaves strays
out while `StreamIntact`, checked alone, does not. It speaks of connections that the
peer has not reset, on which only a full buffer makes a write fail. A write to a connection
that was reset raises SIGPIPE, which nobody ignores: `phase = "killed"`. System
calls on the non-blocking socket are not interrupted. Nodes of size zero, on which
`OnWrite` would loop, are excluded by an assumption. `OnWrite` finds an empty list
only once, in a client, by the `EPOLLOUT` of its connect.

**TcpClient.** A step of the base class is `Base(A)`: the same action, after which a
connection that closed is a client that is disconnected. While a client connects, the
first report goes to `UpdateConnectionStatus` (`FirstReport`), whatever it reports;
input that comes with it is not read and waits for more (`missed`). `Send` looks at
`status_` in the caller's thread and drops the message unless the client is
connected. `closed_` is never reset: a second `Connect` makes a socket whose reports
`OnRead` and `OnWrite` ignore, so a client of the model connects once.

**TcpServer.** A connection lives while it is in `connections_`, in `events_`, held
by the application, or guarded by a `shared_ptr` on the stack. `OnClose` takes the
references away in the order of the code; a handler that goes on with a destroyed
object, a task that finds its object gone, and a destructor in a foreign thread are
`fault`s, after which the model stops: the program has no defined state to go on
from. The invariants are about every state up to there. The listener is an event like
the others; `Rebuild` is `Stop` and `Open` after a failed `accept` (`ECONNABORTED` and
a full descriptor table both come there), or `Open` alone. Its old descriptor is free
again when the new socket is made. `interest` is what epoll knows, `events` what the
loop knows. `Start` is modelled while the server does not listen: a second one closes
the socket and gets its number back, `AddEvent` finds it in `events_` and epoll is
never told.

**MsgBuffer.** The operators translate the members one by one, capacity rule and
`initCap_` included. `std::copy` of chars is the `memmove` that libstdc++ calls.

**EventLoopThread.** `built` is the end of the constructor; a child that is past its
wait before the members are constructed sets `overtaken`, and the model stops.
`quitters` says whether anybody but the destructor may call `Quit`.

**EventLoopThreadPool.** `GetNextLoop` is two steps, a read and an increment. The
threads before the last one are taken to come back from `Run`; the last is the
`EventLoopThread` module in full, and the owner of the pool is one of its users. A
loop handed out is null if the thread has not run or its `loop_` is gone.

**RtmpHandShake.** Units stand for bytes: `Parts` for 1536. `Send` writes any part
of a packet at once, and `WriteComplete` runs inside `Send` when that is all of it. What
is left waits for `edge`, the one report of room that epoll still owes: the socket was full
or `EnableWriting` lists it anew, so it is owed whenever something has been queued. `OnRead` may use it
up, as the `else if` chain of `Loop` passes a report of input and room to `OnRead` alone, and it
may get one more, when input that comes while `OnRead` reads has the socket listed again. A
foreign side takes the same steps with a C1 or S1 of any format: signed at either place
or not at all, with either key, of either version. A side whose `HandShake` returned 0
leaves the input to its user. A client whose S2 comes after S0S1 reaches
`kHandShakeDone` when its C2 is written and is never told so: `HandShake` returns 1
from then on (`RtmpHandShake_report.cfg`).

**UdpSocket.** `ServerOpen` binds and `ConnectInLoop` connects; neither result is
looked at. A client leaves the loop in its `OnClose`, a server only in `Stop`: any other
way to close it leaves the descriptor in `events_`, which is what `NoStaleEntry` is about.
`closed_` is never reset: a socket that is opened again sends, and reads nothing. A
message that was queued before `Open` waits for the next `Send`, which asks for
`EPOLLOUT`. A datagram of size 0 that comes to `OnWrite` is sent for ever (`spin`, where
the model stops). Only `OnWrite` extends the life of the idle entry.

**DnsService.** Each critical section is one step and `GetHostInfo` one step per address.
`getaddrinfo` may fail for all hosts but `Reliable` ones; `res` is then null or what the
stack has from the lookup before. The worker updates one host in a pass and begins
again: a host may never get its turn, though the comment at `DnsService.cpp:140` speaks
of every host. A second `Start` without `Stop` ends the process and is left out.

**LogFiles.** `OnWork` is several steps under `TaskMgr`'s lock, and the check of the log
files several more under `FileMgr`'s; `Rename`, `OpenNew` and `Dup` are steps of their
own, because `WriteLog` takes no lock and needs none. A file keeps its lines when
it is renamed and a descriptor its file. The clock goes forward: when it is set back, a
date may come twice and the rename overwrites a file, and a periodic task whose
`Restart` lands in the past is erased. Add and Del from a task would wait for the
lock that `OnWork` holds, so tasks do not call them. In `main.cpp` the task that checks
the log files is made and never added: what is modelled here is the library, with
the task added.

## Runs

| run | shows | distinct states |
|---|---|---|
| `EventLoop_safety` | lock discipline, order, wake-ups, refinement of `TaskQueue` | 138 238 |
| `EventLoop_live` | every task runs, `RunInLoop` returns, no deadlock | 23 850 |
| `TimingWheel_wheels` | refinement of `Alarms`, exact seconds, which delays crash | 185 929 |
| `TcpClient_send` | order, completeness and progress of the output; input is reported; a connect ends | 56 424 |
| `TcpServer_lives` | `connections_`, `events_` and epoll agree; a closed connection is released; a listener stays | 100 752, up to symmetry |
| `MsgBuffer_small` | refinement of `ByteQueue`, bounds, footprint | 141 593 |
| `EventLoopThreadPool_run` | `Run` publishes and returns, a running loop is joined, the counter over its wrap, no null loop | 87 758 |
| `RtmpHandShake_both` | packets are consumed exactly, the answer fits the question, the handshake ends unless a report of room is lost | 30 279 |
| `UdpSocket_socket` | order and progress of datagrams; a closed socket is silent and out of `events_` | 1 078 782 |
| `DnsService_table` | lists change as a whole, indices are safe, `Stop` returns | 7 305 |
| `LogFiles_rotate` | no line is lost by a rotation; tasks are erased only when done, and run | 428 370 |
| `TcpConnection_eagain` | finding: a failed write queues bytes outside the buffer | |

**Bounds.** Two loops, one thread without a loop and three tasks are what it takes
for a task that posts a task while another thread posts too; a pipe of one or two
wake-ups fills after one or two posts, as the real one does after 16384. The liveness run leaves
the poster out and the loops call each other. The wheels have 3, 2, 2 and 2 slots
and turn 21 ticks, so that the day wheel is used and every wheel turns more than
once; the delays cover each wheel with and without a remainder, the largest one
that is accepted, and one that is refused. A send buffer of two units
cuts a message in two, fills and empties; the list message is cut between and
inside its nodes. `Width` is 2^64 in the code and 8 here: larger than any message.
Three connections and a listener over three descriptors make a descriptor be used
twice within one batch of three reports, and run out of descriptors. A `MsgBuffer` with one byte in front, one byte of room and
at most four readable bytes goes through every branch: `Offset <= InitLen` is
assumed, as for every buffer of the program (8 and 2048 or 65535). The counter of
the pool has 3 bits and starts one before its wrap; four calls go over it, and three
threads do not divide its range. A handshake packet is two units long, so that it is cut inside and
between packets, and the sums 0 and 1020 are the ends of the range a digest's place
is taken from. A UDP socket is opened twice with one descriptor, which is the case of
reuse; its buffer of one datagram is full after one. Three hosts, one with two possible
answers of different length, and a `size_t` of 4 bits. A day of the log files has
two hours of two minutes, and the clock goes over each change.

`CHECK_DEADLOCK FALSE` is said where the system may stop: a loop that was quit, a
wheel at its last tick, a process that was killed or ended, a thread object that is
gone, a pool whose calls are used up, a handshake that failed or is over, a service
without work, a clock at its bound. `EventLoop_live` and `MsgBuffer_small` check deadlock.

**Fairness.** The scheduler runs every thread that can step (weak fairness per
thread). A thread that waits for a mutex gets it when it is free again and again
(strong fairness on `CallLock`, `RunLock`, `RunNotify`); the standard does not
promise it, the platform's mutexes do in practice. `epoll_wait` returns after
1000 ms, and signals do not interrupt it for ever (strong fairness on
`EpollReturn`). For a connection: the loop goes on and the peer acknowledges what
it got; a connect is answered or refused. For the handshake: both loops go on and TCP
delivers and acknowledges, so `OnWrite` comes while its report is owed (`edge`) and is not
promised afterwards; a client has to send messages only once it knows that it may. For the
name service `getaddrinfo` returns, for the tasks the main loop calls `OnWork` again and
time goes on. Nobody has to call, send, close, quit or fail.

**Properties with an escape.** `OutputFlushed` and `QueueFlushed` do not claim progress
once the peer has sent data of its own: `Loop` handles a report of both input and room
as input only, and says nothing of the room again until epoll sees a new edge. So what
happens to output after such a report is not claimed by either. `HandShakeEnds` models the report and
excepts only what is left queued for ever because of it (`[]Unreported`): without that, TLC
finds a client whose C2 was written in part stay in `kHandShakePostC2` when S2 and the
acknowledgement come in one report.
`InputKnown` excepts input that came with the first report of a client. Each escape
is what the code does, and named in the comment of its property.
`OnlyWholeUnitsCrash` states exactly which delays index out of range.

## Proofs

Every invariant, every action property and every refinement that a passing run checks is
also a theorem: it holds for all values of the constants that the `ASSUME`s of the
modules allow. Those say what the code or the platform gives: disjoint names, sizes that are
numbers, buffers as the program makes them, at least one descriptor, delays that are not
negative. Few of the properties are inductive. The table names the inductive invariant each
rests on and what it adds.

| module | properties | inductive invariant, and why it is needed |
|---|---|---|
| `EventLoopProofs` | `TypeOK`, `OneAtTheQueue`, `QueueOrder`, `WakeUpNotLost`; `QueueSpec` | `Inv`: where threads can be (`Places`), that a front task that ran is still queued (`FrontThere`), and wake-ups of a loop that has not started (`WakeUpKept`); for the refinement `Apart` and `Uncalled`: a task is in one place only and is posted by nobody else |
| `EventLoopThreadPoolProofs` | `RunPublishes`, `QuitFindsTheLoop`, `EveryCallCounts`, `StartedIsNotNull` | `HandShake`: what is published, promised and quit follows from where the child is; `PoolInv` adds the count of the calls and that a pool whose `Start` is through has run its threads |
| `TcpServerProofs` | `OpenIsWatched`, `ClosedIsReleased`, `ListensUntilStopped` | `ServerInv`: who is in `events_` owns the descriptor and no descriptor has two owners (`Tables`), and posted tasks belong to connections that were made (`Posted`) |
| `TcpClientProofs` | `InputKnown`, `StreamInOrder`, `CompleteMeansWritten` | `Control` (types; what is closed is off the ready list for good), `Told` (input is known whenever the loop is about to ask), `Stream` (wire and list account for what is due, with the shape of every buffer in the list) |
| `BufferAndWheelProofs`, `MsgBuffer` | `TypeOK`, `Footprint`; `BytesSpec` | `TypeOK` with the capacity rule; one lemma of the same shape per member |
| `BufferAndWheelProofs`, `TimingWheel` | `OnlyWholeUnitsCrash`, `ExactWithinAMinute`; `AlarmSpec` | `WheelInv`: every reference is one that `InsertEntry` may have left (`Fitting`), and the ticks at which the references of an entry let go keep what was promised (`Promises`) |
| `UdpSocketProofs` | `NoStaleEntry`, `ClosedIsSilent`, `DatagramsInOrder` | `SocketInv`: a client opens once, only an open socket reads, a stopped one is closed; and that what is sent and queued is what was asked for |
| `RtmpHandShakeProofs` | `MessagesNext`, `AnswersTheScheme` | `ShakeInv`: what a side has taken, has in its buffer and is still to get is what the other gave to `Send`, at every pair of states; `SchemeInv` adds that nothing is answered before the packet is set; `EdgeInv`, a theorem of its own, that only queued output waits for a report |
| `BackgroundProofs`, `DnsService` | `UpdatesAreWhole`, `IndexIsSafe` | `ChainInv`: the list being filled and the rest of its chain are together one whole result, wherever that came from |
| `BackgroundProofs`, `LogFiles` | `NothingLost`, `ErasedOnlyWhenDone` | `LogInv`: dates of a rotation are later than all the log has (`Rotates`, from `Checks`), the descriptor writes to the last file, and a live file beside it is empty until `dup2` |

*The wheel.* A reference in a slot of an outer wheel will be moved inwards one to three
times before it lets go, each time to a slot computed from the rest it carries. `Rel` is the tick at
which it finally does, from its level, its slot, its rest and the turns of its wheel so far.
Turning a wheel lowers the slot and adds a turn, which leaves `Rel` alone; moving
a closure to an inner wheel changes both summands and leaves `Rel` alone too, because the
inner wheels have turned already (`TurnKeeps` and the window lemmas, one per wheel).
What is in the front slot of the second wheel is what is due. With `Rel` in hand, an
entry's alarm is the largest `Rel` of its references, and every step is one of `Alarms`.
Index errors are settled by the same bounds: a rest of a whole unit is the only
one that reaches behind the last slot.

*The output of a connection.* `NoStrays` and `Units` are defined with `FlattenSeq` and folds, whose
values for every input need induction. The proof does it with the least-number
principle of `WellFoundedInduction` on the length of a shortest counterexample, once, in the lemmas about
concatenation; the steps of `Send`, `SendInLoop` and `OnWrite` then only cut and join
sequences. `UdpSocketProofs` and `TcpServerProofs` (for the lowest free descriptor) use
the same principle.

*Composition.* The pool takes no steps of its last thread but those of
`EventLoopThread`, so the invariant of a thread is one of the pool. `TcpClientProofs` is
about `ClientSpec`, whose steps are those of `TcpConnection` under `Base`; an accepted
connection is the case that starts connected, so `StreamInOrder` is proved for both.

*Only model-checked*: liveness (`EveryTaskRuns`, `RunInLoopReturns`, `OutputFlushed`,
`ConnectEnds`, `RunReturns`, `RunningLoopIsJoined`, `HandShakeEnds`, `QueueFlushed`,
`StopReturns`, `DueTasksRun`). Liveness under fairness needs `ENABLED`, which is out of the prover's reach. The
fairness conjuncts of the specifications are not used by any proof.

## Findings

`TcpConnection_eagain` is expected to fail, against a comment of the source: an unsigned
length is tested for being negative, and bytes from outside the buffer are queued. TLC's
trace: one message fills the send buffer, its `write_complete_cb_` sends another, and that
write fails with EAGAIN.

Other disagreements of code and comments have a configuration of their own, to be run by
hand (`tlc -config X.cfg MCm`); each shows a counterexample:

| configuration | refutes | what happens |
|---|---|---|
| `EventLoop_cross` | `RunInLoopReturns` | two loops run tasks with their lock held and post to each other: both wait for ever. `TcpConnection.cpp:67` says that posting returns at once |
| `TcpServer_close` | `CloseBeforeDestructor` | `Event::Close` runs on a connection whose last `shared_ptr` `close_cb_` dropped; `TcpConnection.cpp:46` says it is for one whose destructor has not run |
| `EventLoopThread_destructor` | `DestructorReturns` | `looping_ = true` overwrites a `Quit` that came just before; `EventLoop.cpp:34` says true until `Quit` |
| `RtmpHandShake_report` | `DoneIsReported` | a client is done and `HandShake` keeps saying that it waits |
| `DnsService_own` | `OwnAddresses` | an error of `getaddrinfo` is taken for a result, `res` is what the lookup before left; `DnsService.cpp:182` says that it returns on an error |

## Not modelled, and the plan

Not modelled because nothing can be explored: undefined behaviour without a defined
outcome (the dangling captures of `SetTimeoutCallback`, the race of `AddEvent` from
`WakeUp`, members used before their construction), the memory behind the pointers and
the list reference `Send` keeps, address and string helpers, `SocketOpt`,
configuration, `Packet`, the contexts of a connection, jsoncpp. `TestContext` is a
parser of length-prefixed messages for the test programs; once TCP cuts a body it
stays in its loop for ever (`TestContext.cpp:43`), and a model would say no more.

Left out, or out of reach of a property that is checked:

- `RunInLoopReturns` is checked with loops that post in one direction; tasks that post to
  each other block for ever, which `EventLoop_cross` shows.
- `QuitFindsTheLoop` is about threads that only their destructor ends (`~quitters`). A child
  that ends while the destructor looks at `loop_` without the lock is not covered by it.
- The application's actions inside the server's new-connection and destroy callbacks,
  and `UdpServer::Stop` called from inside a callback.
- A `FileLog` that somebody still holds after `RemoveFileLog`, when `GetFileLog` makes
  another of the same name: two objects then write to one file.

Not every run checks a type invariant: in the modules other than `EventLoop` and `MsgBuffer`
the types are a conjunct of the inductive invariant that the proofs establish
(`LogTypes`, `ThreadTypeOK`, `ObjTypeOK`, `StreamTypeOK` and so on).

The plan, most important first:

1. Proofs: all safety properties of the runs are proved. What is left are corollaries that
   no run states, such as a full type theorem for the kernel's side of `TcpServer`, and
   the invariants of the modules that items 2 and 3 bring.
2. An abstract byte stream that `TcpClient` and `RtmpHandShake` share, and the proof
   that each implements it.
3. Loop and wheel composed: timers run although tasks and errors come.
