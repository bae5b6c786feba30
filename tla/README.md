# NetWork_Learning: specifications and proofs

The repository is a collection of small network servers in C++, each in a
directory of its own: a TCP echo server on a thread pool, a reactor on
edge-triggered epoll, echo servers on select, poll and epoll, a UDP chat room, a
calculator with a framed protocol, and two HTTP servers. They share no process and
almost no code. This directory holds TLA+ models of them, TLC configurations, and
proofs checked by TLAPS.

Contents: [the system](#1-the-system), [the modules](#2-the-modules),
[the runs](#3-the-runs), [fairness](#4-fairness), [what is proved](#5-what-is-proved),
[what disagrees with its comments](#6-where-code-and-comments-disagree),
[not modelled](#7-not-modelled), [what could follow](#8-what-could-follow).

## 1. The system

| Component | State it keeps | Operations | What is hard about it |
|---|---|---|---|
| Thread pool, `tcp_socket/Thread_Pool.hpp`, `Thread.hpp`, `Lock_Guard.hpp`, `Task.hpp` | `_task_queue`, `_mtx`, `_cond`, `_threads` | `run` starts the workers; `push`; `_start_func` waits, pops and calls | interleaving of workers and `push`; signals that wake the wrong one, or nobody; spurious wake-ups |
| TCP echo server, `tcp_socket/server_tcp.hpp`, `client_tcp.hpp` | the process's descriptors; in each worker the local buffer of `socketIO` | accept loop pushes a task per connection; `socketIO` reads, writes back, closes | a task carries only a descriptor number; clients are killed at any moment; SIGPIPE; one worker per client |
| Reactor, `Reactor/reactor.hpp`, `epoll.hpp`, `Sock.hpp`, `reactor.cc` | `_conns` from descriptor to object with `_inbuffer`, `_outbuffer`; the epoll set | accept, receive, send, task handlers, called from one loop | an arrival is reported once; partial lines and partial sends; nothing is ever closed |
| select server, `select/select_server` | `fd_array`; the bits of one `select` | pass over the slots: accept, or read and answer | bits that are stale within a pass; a text in pieces; blocking send |
| poll server, `poll` | `_rfds` | accept one connection if any waits, else a pass over the entries | a full array; a failed `recv` that leaves its entry; no reading while accepting |
| epoll server, `epoll` | the epoll set, `_events` | loop over the reported events | an entry whose descriptor was reused; accept that ends the process |
| UDP chat room, `socket/udp_server.*`, `onlineUser.hpp`, `udp_client.*` | `_users` keyed by IP address; `inode` | receive, route, add, remove, broadcast | datagrams lost, repeated and reordered; two clients of one host; lines that look like commands |
| Calculator, `protocol/protocol.hpp`, `server_tcp.*`, `client_tcp.*` | `inbuffer` at both ends of a connection | frame, unframe, compute; ask, take the answer | a package in pieces or several in one read; a read before the buffer is looked at; arithmetic that wraps or traps |
| Forking servers, `protocol/server_tcp.hpp`, `http/server_http.hpp`, `http/daemon.hpp`, `TCP_Test/server_http.hpp` | processes, and the sockets each has open | double fork, waitpid, close, restart | forks that fail; a socket that lives as long as any process has it; a parent that is killed and started again |
| HTTP, `http/server_http.cc`, `protocol.hpp`, `Util.hpp` | one request, one response | recv, parse, stat, open, answer | files that change between stat and open, or cannot be opened, or are larger than an int; one `recv` for a request in pieces; a close with bytes unread |
| Logs, daemon, start-up, console demos, Winsock client | none that lasts | | records written in three writes |

How they interact. Inside the TCP echo server, `main` accepts and calls
`Thread_pool::push` with a callback; workers run it: queue and mutex are shared
memory, the descriptor table is shared through the kernel. Inside the reactor, one
thread calls handlers through the object found under a descriptor; the receive
handler calls the task handler, which calls the send handler. The three echo
servers have one thread each, and their partner is the kernel: what it reports, and
what happens to sockets between report and visit. The chat server is one thread and
a map; its partner is the network. Clients are processes that come, send, read late
or never, and are killed. A forking server shares nothing with the processes it makes but
sockets: who has one open decides when a client sees an end and when a port is free.
The calculator is two processes that run the same `recvPackage` on a stream each.
The HTTP server shares the files with everybody who may write them.

What makes each correct:

- pool: no pop from an empty queue, no lost wake-up, each task run once, oldest
  first, and none waits while a worker is idle;
- TCP echo server: a descriptor number means the same connection from accept to
  close; every client gets back its own bytes in order; nobody is hung up on;
  descriptors come back;
- reactor: nothing is left unread for lack of an event; one whole reply per line, in
  order; an object serves the connection it was made for; to clients that wait for each
  reply it is an echo service that answers lines;
- echo servers: each does what an abstract echo service may do, never makes a call
  that blocks where a report said it would not, gives descriptors back, and answers
  whoever stays;
- chat room: a host is in the room from its first login until it logs out, for the client
  that logged in; all who are in hear the same conversation, and nobody in it under a name
  that was not announced;
- calculator: both ends agree where packages begin, answers come in order and have
  the right values, and a client that waits gets its answer;
- forking servers: one process reads a connection, no connection waits for another to
  be over, no zombie, no socket and no process remains, and a killed server comes back;
- HTTP: an answer is true of some moment of the request, its length is the one
  announced, and a client hears the response, or at least that the connection is over.

## 2. The modules

| Module | Role |
|---|---|
| `TaskDispatch` | abstract: a FIFO dispatcher, no locks and no sleeping |
| `ThreadPool` | the pool, a step between any two points where another thread can be seen; implements `TaskDispatch` |
| `PoolServer` | extends `ThreadPool` with accept loop, `socketIO`, descriptors, streams, clients; implements `EchoService` |
| `Reactor` | the edge-triggered loop with its handlers, and its clients; for clients in step (`Calm`) it implements `EchoService` with a reply for each line |
| `EchoService` | abstract: one connection per client, accepted, read, answered, hung up on; what a client may say (`Messages`) and the reply to one read (`Reply`) are parameters |
| `EchoNet` | kernel, clients and blocking send, shared by the next three |
| `SelectServer`, `PollServer`, `EpollServer` | the three loops; each implements `EchoService` with its own `Reply` |
| `ChatServer` | the server with its map keyed by addresses, any number of clients on a host, and the network |
| `CalcService` | abstract: requests answered in order, values defined as a relation |
| `CalcLink` | one connection of the calculator from both ends; implements `CalcService` |
| `ForkServer` | the three forking servers: parent, children, grandchildren, sockets |
| `HttpGet` | one request in a grandchild of the HTTP server, while files change |
| `PoolServerProofs` | theorems about the pool, and about the server on it |
| `EchoLoopProofs` | what the steps of `EchoNet` do to descriptors and to the abstract service; theorems about the select server and the epoll server, whose definitions have *Epoll* in their names where both have them |
| `PollProofs` | theorems about the poll server, with the lemmas of `EchoLoopProofs` |
| `ReactorProofs`, `ChatProofs`, `CalcLinkProofs`, `ForkServerProofs`, `HttpGetProofs` | theorems about one component each |
| `MC...` | small instances: symmetry sets, sets for constants |

**ThreadPool.** `queue`, `mtx` are `_task_queue`, `_mtx`. `wpc[w]` is the place of
a worker in `_start_func`, `wtask[w]` its local `t`; `mpc` and `arg` the same for
`main` in `run` and `push`. `pthread_cond_wait` is three steps: release and sleep
(`CondWait`), be woken (`PushSignal`, or `SpuriousWakeup`, which POSIX allows), take
the mutex again (`Relock`). `submitted` and `done` only record. A task is one call of
`push`, so pushing it twice is no behaviour. `main` is the only thread that pushes,
as in `server_tcp.cc`.

**PoolServer.** A task is a pair of a descriptor and the connection it was accepted
for; the code has only the first, the second is for the properties. `io[w]` is the
place in `socketIO`, `rbuf[w]` the text between read and write. `fdtab` is the
descriptor table: `Accept` may take any free one. A stream is counted in units that
are shorter than the buffer; a read takes any nonempty prefix of what has arrived. The words
*server[received]* behind each reply count with the last unit of its text. A client sends a line, waits for one read to return, and may be killed. A client that
ends with unread bytes makes the kernel send a reset, one that has read all a
normal end; writing to an ended one draws a reset, and writing on a reset
connection returns an error or kills the process by SIGPIPE.

**Reactor.** `conns[f]` is the connection whose object `_conns` has under `f`;
`inbuf`, `outbuf` its buffers. `ready` is what epoll has to report: an arrival, an
end, or a modification of the registration puts a descriptor in, one report takes it
out. `batch` is what `HandlerEvent` has not visited. A request is two units, the
second with the line end; a reply is header and result, so that partial receives and
sends exist. `Task` is `CalulateTask`, which takes at most one line per `recv`.
The kinds of request are `op`, `noop` (a line with no operator, where the code puts header
and line end around what is in `_outbuffer`) and `bad` (`std::stoi` throws).
`setting` is chosen once: how far clients are ahead, the room in a send buffer, the kinds
of request and the descriptors there are.

**EchoNet and the three loops.** `EchoNet` has the kernel's part (`fdtab`,
`backlog`, `up`, `down`, `peer`), the clients, and the blocking `send`, which is its
own state of the thread because clients go on while it blocks. Each loop adds what
it keeps: `fd_array`, `rfds` and the place of the pass; `slots`, `revents` and the
place of the pass; `events`. A step of a loop is the visit of one entry, with every
change the handler makes. `Reply` is what the reply to one read looks like: select
cuts the last character and adds prefix and line end, poll sends back the same,
epoll adds a prefix.

**ChatServer.** `users[h]` is the entry of `_users` under address `h`: endpoint and
name. `net` is the set of datagrams that were sent, of which any is received in any order,
once, again or never: that is loss, reordering and repetition. A line's `kind` is what the code tells apart: a login
with a nickname, with nothing behind the blank, the bare word, the word offline as a
nickname, the word offline, a line that mentions online, and text. `heard` is what
was sent to each endpoint: the line with its sender and the name found under the sender's
address, or the prompt (`Please`). For the properties `came[h]` is who said online since somebody on
`h` last said offline, and `since[h]` how much the client of the entry had heard before it.

**CalcLink.** A package is four units: length, line end, text, line end. Since each
direction is one growing stream, a buffer is an interval of its units: `erased` is
where `inbuffer` of the server begins, `taken` where it ends; `cerased`, `ctaken` the
same at the client. `Outcome` is one turn of the loop of `recvPackage`, `After` its
`erase`. The client of the repository waits for each answer and drops what is left in
its buffer with it; `ahead` is another client, which asks twice before it reads.
`Callback` computes in ints from `-Half` to `Half - 1`, wrapping as the unoptimised
build of the Makefile does, and `Traps` is the division that raises SIGFPE. A JSON text is its message: the library is
not in question.

**ForkServer.** `pc`, `cur`, `forked` are the parent's place in `run`, `client_socket`
and `id`; `mine` is its children that are not reaped; `proc` the places of the child
and the grandchild of each client; `open[s]` the processes that have socket `s`. A fork
copies the parent's sockets, an exit closes all of a process, the last close of the
listening socket resets what waits in it. `program` is the server: `http` runs `daemon`
first, `protocol` binds without `SO_REUSEADDR`, `test` has a handler that sleeps for
ever. With `short` any fork may fail. `Kill` ends the parent at any place; `Start` is the
next one, whose `bind` fails as long as the port is taken. What a grandchild does
with its connection is `CalcLink` or `HttpGet`, here only whether it is over.

**HttpGet.** A step is one look at the files: `Recv` receives, parses and stats, `Get`
opens and reads, `GetErr` and `ReadErr` stat and read the page for errors; between any two
`Edit` may change either. `target` and `page` are what is there now, `seen` what looks at the path
could find since the request, for a property: what was there, or nothing (`Found`), since a look
fails as well for want of permission or of descriptors. `ToInt` is the `off_t` that
`parse` and `readFile` take as an int from `-Half` to `Half - 1`: `Get` resizes the body by it, which throws
(`close`) if it is below -1, and may if it is the largest. A request is three units, written one by one;
the one `recv` returns any first part of what has come. When the line end is missing `parse` returns early: `_size` is
uninitialised, so that resizing the body throws (`close`), or not, and the empty
path leads to the page for errors (`err`).

## 3. The runs

All runs are exhaustive for their constants. "Bounds" says what is cut off and
why the interesting cases still happen.

| Run | Properties | What it shows, and the bounds |
|---|---|---|
| `pool` | `PopHasTask` `SignalCoversBacklog` `ExactlyOnce` `ImplementsDispatch` `ImplementsFairDispatch` | Three workers, four tasks, spurious wake-ups: two workers race for one task while a third sleeps, and the queue gets longer than the number of sleepers. |
| `server_safety` | `FdOwned` `EchoInOrder` `ImplementsEcho` | Three clients, two descriptors, two workers: descriptors are reused while a client waits for accept. Lines of no, one or two units, so a line may be empty, or be answered twice, after which its client is behind. Two units per client are enough for a second round trip, and for SIGPIPE. |
| `server_live` | `ServerSurvives` `PatientServed` `NoFdLeak` | Lines of one unit: then SIGPIPE cannot happen. One client that is never killed, among two that may hold both workers and both descriptors until they are. |
| `reactor` | `NoLostEdge` `RepliesInOrder` `ServerSurvives` `CalmImplementsEcho` `EveryRequestAnswered` | Two clients, two requests each, in two settings. In the first each waits for its reply, and there is a descriptor for each. In the second both may send two requests at once, with one descriptor, a send buffer of one and a half replies, and unparsable lines: several lines in one read, lines cut anywhere, replies cut short, and all ways the process ends. |
| `select` | `SlotsAreOpen` `NeverBlocks` `ImplementsEcho` `ServedAndReleased` | Three clients, two descriptors, four slots: descriptors are reused, and accept fails with none left. Two clients send a message of two units each, the third only connects and leaves. A reply of up to four units meets a buffer of two, so send blocks. |
| `poll` | `NeverBlocks` `ImplementsEcho` `ServedAndReleased` | The same clients and descriptors, four entries; also a failed `recv`, followed by the one that returns 0. |
| `epoll` | `BatchNeverBlocks` `EpollImplementsEcho` `EpollServes` | The same, with batches in any order, and the accept that fails and ends the process. |
| `chat_room` | `OnlineLogsIn` `OneTalk` | Two clients on one host and one on another, every kind of line, three lines, five receipts: enough for a second login from a host, a log out and a late copy of the first login, and for another member to hear all of it under names that change. |
| `fork` | `OneServes` `ChildrenReaped` `OwnConnection` `NobodyQueues` `NothingRemains` `ComesBack` | Each of the three programs, with and without failing forks, two clients, two kills: a kill before, during and after the service of a client, and a restart beside grandchildren of two generations. |
| `calc` | `FramesAligned` `ImplementsCalc` `AnswersOrEnds` | Three requests out of ten, in ints of four bits: every operator, overflow in both directions, rounding, divisors 0 and -1. Streams cut anywhere; a client in step and one that is one request ahead. The assumption `EveryValue` of `MCCalc`, which TLC evaluates on this run, compares `Callback` with the relation of `CalcService` for every pair of ints of four bits and every operator. |
| `http` | `LengthsAgree` `AnswersWhatWasThere` `Answered` | A path that is absent, a directory, empty, short or long, a page for errors that is absent, short or long, any look that fails, and three changes: enough for a change before and after each look at either file. Ints go from -4 to 3, and the sizes are those that become the largest int, the smallest, -1 and 1. |
| `chat_bare` | `EndlessLoop` | A violation: see section 6. |

Bounds in the guards: `MaxUnits` (units a client of `PoolServer` sends), `MaxReqs` and
the window of a setting (requests, and requests ahead of replies), `MaxMsgs` (messages to an echo
server, given for each client), `MaxLines` and `MaxRouted` (lines entered, datagrams received),
`MaxAsks` (requests to the calculator), `MaxKills` (times a forking server is killed),
`MaxEdits` (changes to the files); `Tasks` bounds the calls of `push`, as one value is
one call. Each connection is a client of its own, so the number of connections is the
number of clients. The capacities of send buffers and the size of an int (`Half`) are not bounds but parameters.

Deadlock. It is checked for the pool and for `server_live`: there some sleeping
worker can always be woken, by POSIX if by nobody else. It is switched off where the
system really stops or waits for ever: `server_safety` (SIGPIPE ends the process, and
the clients with it), the single-threaded servers (when all clients have left, the thread waits
in `epoll_wait`, `select` or `poll` for connections the bound does not allow), the
chat runs (the users have entered their lines), `fork` (all clients have been served
and the parent is in accept, or everybody sleeps), `calc` and `http` (the connection is over). That
the servers do not stop *early* is what the liveness properties, `NeverBlocks` and `BatchNeverBlocks` say.

Exceptions stated in properties, each for something the code really does:

- `RepliesInOrder` excepts a client whose reply once did not fit the send buffer (`cut`
  remembers it), whose rest is then overwritten; `ServerSurvives`,
  `CalmImplementsEcho` and `EveryRequestAnswered` of `Reactor` speak of the first setting (`Calm`).
  In the second the service would not do: lines wait in `_inbuffer` after the read that had their end.
- `ServedAndReleased` (`EpollServes` for epoll) excepts, for select, a client that is still to be accepted while
  all descriptors are taken, and, for poll, any time when a connection waits and no
  descriptor is left, because the loop then reads nobody; for epoll that ends the process.
- `NobodyQueues` excepts the time when the parent waits for a child whose own fork failed
  and which serves its client itself (`Stalled`). `ComesBack` excepts, for `protocol`,
  connections of clients that stay, which keep the port without `SO_REUSEADDR`, and
  systems short of processes, where `daemon` may fail each time and a child that could
  not fork may keep the parent.
- `NothingRemains` says nothing of `TCP_Test`, whose grandchildren sleep for ever.
- `AnswersOrEnds` excepts, for a client that is ahead, the last request: whole in
  `inbuffer`, and looked at only after another read.
- `Answered` lets a client hear the end or a reset instead of the response if recv did not return its
  whole request, since the server then closes with bytes unread, and if the file is so large
  that resizing the body throws (`FilesFit`).
- `AnswersWhatWasThere` allows the zeros a body has behind the bytes of a version that
  was shorter than the one that was stat'ed, and the one zero every body ends in. If a version was larger
  than an int counts the body may be too short; that its bytes are those of one version still holds.

`EchoInOrder`, `FdOwned` and `RepliesInOrder` compare with history (what each client
sent and received), so a reply lost, doubled, mixed or sent to another client shows,
not only one that is malformed.

Refinements. `ImplementsDispatch`: `pending` is the queue, `running` the local
variable of each worker, `done` is shared; locks, sleeping and waking are stutters.
`ImplementsEcho`, `EpollImplementsEcho`: a connection is "waiting" while it is in the listen queue, "open"
while a descriptor refers to it, else "closed"; the part of a reply that a blocking
send still holds counts as sent, and so does a text in the hands of a worker of the pool
server, if its client stays. The abstract service may end only while a client
that has gone is still connected (SIGPIPE), or when it has as many connections as it has room
for (`Limit`): for epoll that is the number of descriptors, the others have no such
limit. `ImplementsCalc`: an answer is given when it is
written, taken when the client has cut it out; reads, buffers and packages are stutters.

## 4. Fairness

- `ThreadPool`: weak fairness of every thread's steps: a thread that can run does.
  Tasks return. Nobody has to push, and no spurious wake-up is owed.
- `PoolServer`: the same per thread, and strong fairness of `PushLock`, because
  spurious wake-ups without end may take the mutex again and again, and an ordinary mutex
  lets a waiting thread in between in the end. Clients read the replies they wait for, and the
  users of clients that are not `Patient` kill them in the end; without that, two
  idle clients hold both workers for ever and `PatientServed` is false, which is the
  design of one worker per client. A patient client does not have to type.
- `Reactor`, `SelectServer`, `PollServer`, `EpollServer`: weak fairness of the only
  thread, and of each client's reading. No fairness between descriptors is assumed:
  a batch or a pass visits every ready one. In the poll server reading has to wait
  for accepts; as each client connects once, accepts come to an end, unless no
  descriptor is left, the exception stated in its properties.
- `ForkServer`: weak fairness of the parent and of each process: a process that is not
  blocked runs. For the parent it includes `Start`: whoever runs the server starts it
  again while it is down and the port is free. Nobody has to connect, ask or leave. That a
  process which answers is not blocked for ever assumes that the kernel takes the response of a client
  that asked, also if it does not read: then `send` comes to an end.
- `CalcLink`, `HttpGet`: weak fairness of the process that serves and of the client's
  reading; nobody has to ask or to leave.
- `ChatServer` has no fairness and no liveness property: datagrams may be lost.

## 5. What is proved

For all values of the constants (with the named assumptions of the modules: the sets
are disjoint where the code's values are different, workers are finite and not none):

| Theorem | States |
|---|---|
| `PoolServerProofs!TypeCorrect` | `[]TypeOK` |
| `PoolServerProofs!PopSafe` | `[]PopHasTask` |
| `PoolServerProofs!NoLostWakeup` | `[]SignalCoversBacklog` |
| `PoolServerProofs!EveryTaskOnce` | `[]ExactlyOnce` |
| `PoolServerProofs!PoolImplementsDispatch` | `Spec => ImplementsDispatch` |
| `PoolServerProofs!ServerUsesPool` | `ServerSpec => Spec`: what is proved of the pool holds in the server |
| `PoolServerProofs!DescriptorsOwned` | `[]FdOwned` |
| `PoolServerProofs!HangsUpLast` | `NoEarlyClose` (in no run, as `ImplementsEcho` says the same and more) |
| `PoolServerProofs!NoCrossTalk` | `[]EchoInOrder` |
| `PoolServerProofs!ServerIsEcho` | `ServerSpec => ImplementsEcho` |
| `PoolServerProofs!ShortLinesSurvive` | `[]ServerSurvives`, if one read takes any line |
| `PoolServerProofs!NobodyWaitsInVain` | `[]NoMutualWait` (in no run) |
| `PoolServerProofs!AnswersBeforeLines` | `[]ClientsInStep` (in no run), if one read takes any line |
| `ReactorProofs!EdgeNeverLost` | `[]NoLostEdge` |
| `ReactorProofs!ObjectIsOwn` | `[]OwnObject` (in no run) |
| `ReactorProofs!CalmReactorIsEcho` | `Spec => CalmImplementsEcho`, for finitely many clients |
| `ReactorProofs!OneReplyPerLine` | `[]RepliesInOrder` |
| `ReactorProofs!CalmClientsAreSurvived` | `[]ServerSurvives`, for finitely many clients |
| `ReactorProofs!NothingIsSleptOver` | `[]SleepsWhenDone` (in no run), for finitely many clients |
| `EchoLoopProofs!TableMirrors` | `[]SlotsAreOpen` of select, if the array has room for all descriptors |
| `EchoLoopProofs!PassNeverBlocks` | `[]NeverBlocks` of select, under the same condition |
| `EchoLoopProofs!SelectImplementsEcho` | `Spec => ImplementsEcho` of select, under the same condition |
| `EchoLoopProofs!BatchStaysReady` | `[]BatchNeverBlocks` of epoll |
| `EchoLoopProofs!EpollIsEcho` | `EpollSpec => EpollImplementsEcho`, for finitely many descriptors |
| `PollProofs!MarkedNeverBlocks` | `[]NeverBlocks` of poll |
| `PollProofs!PollImplementsEcho` | `Spec => ImplementsEcho` of poll |
| `ChatProofs!LoginMeansMember` | `[]OnlineLogsIn` |
| `ChatProofs!RoomIsOneTalk` | `[]OneTalk` |
| `CalcLinkProofs!PackagesAligned` | `[]FramesAligned` |
| `CalcLinkProofs!LinkImplementsCalc` | `Spec => ImplementsCalc`, with the values of `Callback` |
| `CalcLinkProofs!NeverBothWait` | `[]NothingOverlooked` (in no run) |
| `ForkServerProofs!OneReader` | `[]OneServes` |
| `ForkServerProofs!NoChildLeft` | `[]ChildrenReaped` |
| `ForkServerProofs!OpenIsOwn` | `[]OwnConnection` |
| `ForkServerProofs!ParentWaitsForChild` | `[]WaitReturns` (in no run) |
| `ForkServerProofs!PortComesFree` | `[]PortIsOwn` (in no run) |
| `HttpGetProofs!LengthsTrue` | `[]LengthsAgree` |
| `HttpGetProofs!AnswerWasTrue` | `[]AnswersWhatWasThere` |

Some theorems stand under a condition, written as ASSUME of the theorem.

- `RoomForAll` (select): as many slots as descriptors and one more. The array has a slot
  for each bit of an `fd_set`, and select can take no descriptor beyond those. Poll needs
  no such condition: with the array full nobody keeps the new descriptor, which neither
  property minds (its client is never answered; that is a matter of liveness).
- `IsFiniteSet(Fds)` (epoll), `IsFiniteSet(Clients)` (reactor): cardinalities are compared
  in `Crash` of `EchoService` and in `Calm`.
- `LinesFit` (pool server): a line is one unit, the most one read returns, or empty.
  `ClientsInStep` needs it too: a client takes the first part of its echo for the answer.
  Without it `ServerSurvives` is false: a client that reads the echo of the first part of its
  line and leaves has the second echoed at it, and then a third on the reset connection.

`ServerSurvives`, `SleepsWhenDone` and `CalmImplementsEcho` of the reactor have their condition in
themselves (`Calm`): clients that wait
for each reply, requests that parse, a descriptor for each client, and room in a send
buffer for one reply, which is two units.

*Pool.* `PopHasTask` alone is not inductive: that the queue a worker found nonempty
still is so when it pops needs that nobody else can touch it. `Inv` adds `LockOwner`
(the owner of the mutex is the thread between lock and unlock) and `HandsFull` (a
copy of a task exists exactly where the code declares one). `SignalCoversBacklog` is an
account: an enqueue adds one to the queue and puts the signal in prospect, the signal
turns into a woken worker, a pop takes one from both sides, and only a worker that
saw an empty queue under the mutex goes to sleep. The cardinality lemmas say
what joining and leaving do to the set of coming workers. `ExactlyOnce` follows the
one copy of a task from `arg` to the queue, to a worker, to `done`. The refinement uses both:
a popped task is not known to be running or done.

*Server.* Each step of the server is a step of the pool or leaves it alone, given
that what accept returns is a task, so the pool's invariants carry over. `FdOwned` needs
them (`ExactlyOnce`: a descriptor is in one place) and that a worker in `socketIO` runs
a task (`IOInv`). `NoEarlyClose` adds `SawEnd`: a worker on its way to `close` has
seen the end of the client its descriptor belongs to.

`EchoInOrder` is about three places, the kernel's two buffers and the worker's: `StreamInv`
says that what is in them for a client, in this order, is the stretch of its own stream
from what it has received to what it has sent. A read and a write move the border
between two of them; a send and a receipt move the ends. That a worker's text is behind
what the client can already read needs that one worker at a time serves a connection
(`OneWorker`, from `FdOwned` and `ExactlyOnce`) and that a connection is in one place of the
queue or under one descriptor (`OneHome`).
The refinement (`EchoInv`) needs no more than this and `Attached`: a client that is not ended and
has been accepted is under a descriptor. A read of the server is `Serve` of `EchoService`,
since what the worker now has in hand counts as sent; so writing it, and all that the pool
does with its queue and mutex, are stutters. A receipt is `Hear`, by `StreamInv`; a close is
`Hangup`, by `SawEnd`; SIGPIPE is `Crash`, with the client of the write among those that have gone.
`QuietInv` is the argument about SIGPIPE: with one unit of a client in transit at most,
the unit is either to be read, or being written, or to be received; so a connection that
has been reset has nothing left that could be written to it.

*Reactor.* `LoopInv`: no descriptor is closed, so object and connection agree; a
handler runs on an open descriptor; between batches the batch is empty. With it
each step of the loop that takes a descriptor out of `ready` or `batch` puts it in
the next place, and the receive handler leaves only with nothing unread.

`RepliesInOrder` counts line ends; its inductive form (`Served`) has a witness instead, the
number of lines the object has taken: `_inbuffer` and the kernel's buffer join to the
requests behind them, and the kernel's other buffer and `_outbuffer` to the replies up to
them that were not received. `_outbuffer` is empty except while the object sends, as
long as every reply has fit. How many line ends a stretch of requests has is a lemma
(`Cardinality` of the odd places). `CalmInv` is for clients in step what `QuietInv` is for the
other server, with what was cut (`cut`) empty and a descriptor for each client: a
client that is not accepted leaves one free, since two descriptors never share a client.

For the refinement a `recv` is `Serve` of `EchoService` (`RecvMoves`), and the `send` behind it a stutter,
as the reply in `_outbuffer` of a client that stays counts as sent. The reply may depend
on what this one `recv` returned only, while the task handler looks at all of `_inbuffer`: the two
agree because no whole line is left there (`NoLineWaits`), so a line in the input ends in what was
just read (`ReadIsAnswered`). `AcceptFails`, `SendBlocked` and `SendReset` do not happen (`CalmInv`).

*Echo servers.* `NetOK`, `NetInv` are about the steps all three share. Two descriptors never
have one connection and none has one that waits (`OneHome`), so a read, an accept or
a close changes nothing for what the other descriptors were reported for; and what clients
do only makes more ready. So each `NeverBlocks` comes down to which entries
are still to be visited, and that a visited one is not visited again (`HitsReady`,
`BatchReady`, `MarksReady`, which hold during a send as well).
What is hard in select is that a bit cannot become about another connection
within a pass: the listening descriptor is in the first slot and never leaves it
(`ListenFirst`), so the accept comes before any close, and what accept returns was free
when select looked and has no bit. That it finds a slot is a pigeonhole: were
all slots taken, they would be as many different descriptors. In epoll a batch names
descriptors, and one that is closed and accepted again was visited before; in poll a
pass either accepts or reads.

The refinements need that the server learns of the end of every client and of no other, that a
client that stays is in the queue or under a descriptor, and that a reply goes to an
open connection (`NetInv`). Connecting, saying, hearing, leaving, accepting, closing and
a read with its reply are each one step of `EchoService` (`ConnectMoves` to `ReplyMoves`).
The blocking send is none (`SendMoves`): a reply in hand counts as sent, and cutting it into what the
kernel takes and the rest, then joining both, gives the same stream. The exceptions: SIGPIPE is
`Crash`, with the client that has gone still connected; so is the failed accept of epoll, when
the descriptors in use are in bijection with the open connections; the failed `recv` of poll is a
read of everything that is lost, to which nothing is replied, as the client has gone.

*Chat.* `MapInv`: what is under an address has that address, and the history is well typed. A datagram
changes no entry but that of its sender's address (`EntryOfSender`), which with the history gives
`OnlineLogsIn` (`LoginStep`). `OneTalk` is not inductive: what a host is called *now* must also
be known to those who will hear it next (`NamesNow`). Both are stated of what the members
hear as a table of lines, the latest first, so that the one argument (`Heard`) covers a member who
stays, one who just came, and the one who speaks: a line is heard by all members at once, and a host whose name is
new has announced it with the line that brought the name. No condition on who shares a host, on the
lines or on the network is needed.

*Calculator.* `LinkInv` adds `StepInv`: how many requests, answers and taken answers
there are, and that a client in step that reads has exactly one request under way; so the buffer it
drops is one package. The refinement then needs that the request cut out is the
oldest unanswered, and the value (`RightValue`): what an overflow leaves differs from the
sum by a multiple of the number of ints (`WrapWraps`), and a quotient that truncates is an int
unless it is `INT_MIN / -1` (`QuotientDivides`), for ints of any size. The assumption of
`CalcLink` that operands are ints is the type of `_x` and `_y`.

*Forking servers.* `ForkInv`: the parent's only child is the one it forked for the
present client (`ParentInv`), a connection is accepted once and has no process before
(`OnceInv`), and a grandchild exists only when the child is about to exit
(`GrandInv`). A fork that copies `cur` copies no other connection, which is
`OwnConnection` again: it is part of the invariant.

*HTTP.* `HttpInv` says what `HttpHandle` knows at each place (`PlaceInv`): its size is
what an int holds of the size of a version that was seen; at the page for errors there is a
reason for it. `IntOfSize` is what the truncation does: the result is never more than the size,
and equal to it if an int counts it, which is why only the length of a body needs `FilesFit`.

*Who waits for whom.* That an answer comes is liveness, and TLC's; what the provers reach is
its safety half: that in no state everyone waits with an answer outstanding. `ClientsInStep` and the
properties below were checked on the instances of the runs before they were proved.

- Pool, `NoMutualWait`: what a client has to come is in `down`, in the worker's hands or in `up`
  (`StreamInv`); a client that stays is under a descriptor or in the backlog (`Attached`), and a
  descriptor is in a queue or in one worker's hands (`ExactlyOnce`), which closes it only behind
  the end of the client (`SawEnd`). The empty line is the exception that the code makes: nothing
  is written for it, and the client reads.
- Reactor, `SleepsWhenDone`: each `recv` is followed by the task handler, which takes the only line
  (`NoLineWaits`), so what is left in `_inbuffer` is half a line at most; `NoLostEdge` says
  that nothing is left in the kernel, and `Served` that replies and lines taken agree.
- Calculator, `NothingOverlooked`: the server reads on with less than a package left, or one whole
  package of a client that is ahead (`WaitInv`), and the client with none.
- Fork, `WaitReturns`: the child of the present client closes the listening socket, forks and exits; `PortIsOwn`:
  a grandchild is forked by a child that has closed the listening socket (`GrandInv`).

Only model-checked. Liveness is out of the prover's reach: `ImplementsFairDispatch`,
`PatientServed`, `NoFdLeak`, `EveryRequestAnswered`, `ServedAndReleased`, `EpollServes`,
`NobodyQueues`, `NothingRemains`, `ComesBack`, `AnswersOrEnds`, `Answered`. All other properties of
passing runs are theorems.

## 6. Where code and comments disagree

`chat_bare`: "服务器的本质是一个死循环" (`udp_server.hpp:35`: the server is in essence an
endless loop), but `substr(7)` of the bare word *online* throws, nobody catches it, and the process ends.

Others that the models contain and no run is about:

- "删除buf中的换行符" (`select_server.hpp:76`: delete the line end in buf) deletes the last byte of each
  `recv`, whatever it is: a line in two pieces loses a character. `Reply` of `SelectServer` is so,
  and `ImplementsEcho` says that no other byte is lost.
- "Please enter 'online + nickname' to login." (`udp_server.cc:134`) does not log in
  the second client of a host, whose address is taken (`onlineUser.hpp:54`): `OnlineLogsIn`
  says that the entry is of the first who came.
- Any line with *online* in it counts as a login (`udp_server.cc:105`, kind `mention`
  of `ChatServer`), and a line of any client of a host that says *offline* takes out whoever of it
  is in.
- "得到资源的大小" (`http/protocol.hpp:58`: get the size of the resource) keeps what an int holds of
  it (line 62): `ToInt` of `HttpGet`. `AnswersWhatWasThere` and `Answered` except such files.
- An accepted descriptor that finds the array of the poll server full is neither
  watched nor closed (`pollServer.hpp:51`, action `Enter`), which needs a limit of
  descriptors above the 1024 entries.

Behaviour that no text of the repository contradicts, so that it is modelled and not
reported: SIGPIPE ends every TCP server when a client resets at the wrong moment;
the reactor never closes a connection and exits when descriptors run out; a reactor
reply that does not fit the send buffer is overwritten by the next; the poll server
spins when descriptors run out; `INT_MIN / -1` ends the process that serves; the
parent that waits for a child whose fork failed accepts nobody.

## 7. Not modelled

- Logs: records are written and never read by any program here; that those of different workers
  interleave is a hazard listed without a property, as no text says they are whole.
- HTTP in `TCP_Test`: `HttpHandle` there sleeps for ever and calls neither `Get` nor
  `parse`; the fork around it is in `ForkServer`. In `http/`: suffixes and content
  types, a table of texts.
- `tcp_socket/daemon.hpp`: it ends before the pool has threads, so it is before the initial
  state of `PoolServer`; the same text in `http/` is a step of `ForkServer`.
- `Reactor/protocol.hpp`: the reactor includes it and uses the macro `LINE_SEP_LEN` (`reactor.cc:85`),
  by which `Task` of `Reactor` cuts a line off; its functions and classes it does not use.
- `write` that blocks or writes less than it was given, in the pool server and its client: in
  `PoolServer` it takes the whole text at once and the kernel's buffers have no end. A client that does
  not read in fact holds its worker at `write`, as an idle one does at `read`.
  In `EchoNet` and `Reactor` the buffers do have an end.
- In the HTTP server, memory that does not suffice for a body (`bad_alloc`).
- The non-blocking input demo and the Winsock client: a loop around standard input,
  and the UDP client again.
- In the chat room the dictionary and command demos (`main` does not use them), and the
  receiving thread of the client, which prints.
- Start-up that fails with `exit`: it is before the initial state.
- The thread pool's destructor and `getInstance`: the one instance is created by
  `main` and never destroyed.
- Signals other than SIGPIPE and SIGFPE, `EINTR`, failing `malloc`: the programs install
  no handlers and do not look at them. `epoll_wait`, `select` and `poll` do not fail
  on the arguments they are given.
- Byte contents: buffers that are filled to their last byte and lack a terminating zero
  (listed in the hazards), formatting, logging.
- The reset of a connection discards what was sent to the client; whether it also
  discards what the client sent is left open in `PoolServer` and `EchoNet`, and does
  not happen in `Reactor` (Linux delivers what has arrived first).

## 8. What could follow

The forked server of the calculator composed of `ForkServer` and `CalcLink`.
