# Diretrans in TLA+

Diretrans transfers files directly between two hosts over UDP. A server with a
public address introduces them to each other: the sharer registers a file and
gets a share code, the receiver presents the code, and the server tells each
the address of the other. From then on they talk directly: the sharer streams
pieces of 1024 bytes, the receiver acknowledges them, asks for lost ones, and
says FINISH when the file is complete. Everything is single-threaded per
process, around an event loop with a poller, timers and queued functors.

This directory holds a TLA+ model of the server, of the transfer between two
clients, of the connections a client owns, and of the timers, the poller and
the thread pool below them; TLC configurations that check it; and TLAPS proofs.
The code is the reference; `PROJECT.json` maps every definition to the lines it
models and lists the hazards with the properties that cover them.

## Inventory

| component | state | operations | what makes it correct |
|---|---|---|---|
| `server/DiretransServer` | `activeTimes_`, `codesMap_`, `fileDatas_`, `shareFileNum_` | HELLO, SHARE_FILE, GET_FILE, the sweep of `removeTimeoutConn` | the tables stay inverse, quotas exact, silent sharers expire, others keep their code |
| `RandomCode` | a shuffle and two indices | `getCode`, `genCodes` | a free code is found whenever there is one |
| `client/SendConnManager` | `state_`, window, flag, timers, peer and server heartbeat times | nine messages, `holdConn`, `sendFileStream`, `sendLossPieces` | the stream goes on after any loss; sessions follow each other cleanly; a gone peer is noticed |
| `client/GetConnManager` | `state_`, `recvWindow_`, times, timers | five messages, `sendRetranReq`, `holdConn` | the whole file arrives; a gone sharer is noticed |
| `client/SendFileManager` | get position, `curPiece_`, state of the stream | `getNextPiece`, `getPieceOf`, `initStatu` | a piece is read from where its number says |
| `client/GetFileManager` | put position, `curPiece_`, `lossPieces_`, `writtenBytes_`, the file | `writeToFile` | the file is finished exactly when complete |
| `client/DiretransClient` | four maps of connections, a socket pair for commands | SHARE, GET, CHAT, moving and deleting connections | a connection is found by its `closeSelf`, deleted once, and not used afterwards |
| `netlib/EventLoop` | active channels, the queue of functors, an eventfd | `loop`, `queueInLoop`, `runInLoop`, `quit` | a queued functor runs, in order, and never waits for the next datagram |
| `netlib/TimerQueue` | the ordered set of timers, a timerfd | `addTimer`, `handleRead`, `reset` | every live timer fires, a cancelled one does not |
| `netlib/EPoller`, `Channel` | an array, a map, the indices, the epoll set | update, remove, poll | the indices agree with the descriptors, only living channels are polled |
| `netlib/ThreadPool` | tasks, a condition, `running_` | `addTask`, the threads, the join | the join ends, no thread outlives the pool |
| `netlib/UdpCom`, `utils/Header.h` | a socket, a buffer | `send`, `handleRead` | a message is read as it was sent |
| `Mutexlock`, `utils/CRC32`, `Timestamp`, `Log`, `Poller`, `test/` | - | pure, unused, without effect, or test programs | - |

Interaction: `DiretransClient` creates connections on a command and deletes them
in a functor; connections call the file managers directly, queue functors and
timers on the loop, and send datagrams to the server and to each other. A
connection is a `UdpCom`, whose channel the poller reports; a timer fires by the
timerfd, which is a channel, too. The server only reacts to datagrams and to one
timer.

What is hard in this code: datagrams are lost, repeated and overtake each
other, and those from the server race those from the peer; functors queued in
one session run in the next, or behind the deletion of what they call; a timer
ends its own session and drops itself while its batch runs; a heartbeat time
outlives the peer it is about; the read stream is shared by the stream and by
retransmissions; 32-bit products limit file sizes; the code search of the
server loops until it finds a free code; descriptors and codes come back while
old entries are still in the maps; threads of the pool wait without a predicate.

## Modules

Server

* `ShareRegistry` - abstract: a table of shares and the replies about them.
* `DiretransServer` - the four tables of the server, one action per handler and
  outcome. `Addr`, a subset of `Ip` x `Port`, holds the sockets that talk to it.
  `proc` says whether it runs, spins in the code search or has aborted on an
  assertion: that of `handleShareFile` about the address, or that of both request
  handlers about a datagram that is a header and nothing else (`HandleBareRequest`). `sweepIn` counts down to the next sweep;
  `activeTimes` holds ages. The shuffle of `RandomCode` is the set `drawn` of codes
  already handed out of it; its last element is never used (`endIndex_`).
* `MCDiretransServer` - constants and symmetry for TLC.

Files

* `FileLayout` - a file as slots of one piece; `SlotOf` is the 32-bit product of
  both `seekg` and `seekp`.
* `GetFileManager`, `SendFileManager` - the two file managers as operators on a
  record, so that connections can hold one each. A slot holds the number of the
  slot its bytes come from, zeros, or nothing.
* `PieceStore` - abstract: a set of stored pieces that only grows, and `finished`
  once it is all of them.
* `GetFile` - one received file under every schedule of pieces.

Transfer

* `Wire` - datagrams as a set of records; losing and repeating are bounded by
  `MaxFaults`.
* `ConnManager` - the window and the clock, in ticks of one heartbeat period.
* `SendConn` - the sharer's connection and its event loop: in one iteration at
  most one datagram of its socket, then the functors queued by then.
* `GetConn` - the receivers' connections, each in a process of its own.
* `Transfer` - composes them, with the server's replies about this share.
* `MCTransfer` - symmetry of the receivers for TLC.

Client

* `ConnLifecycle` - abstract: a connection is opened once, closed while open, and
  deleted after.
* `FunctorQueue` - abstract: one queue of functors, which run in its order.
* `EPoller` - the table of descriptors as operators on a record, with the
  assertions of `updateChannel` and `removeChannel` beside them.
* `DiretransClient` - the connections of one client as objects that are new, live
  or freed, the four maps that own them, the event loop and the poller. An
  iteration is `Poll`, one `Handle...` per active channel in any order (the map
  order of epoll is not fixed), then the functors taken by `doPendingFunctors`.
  What a connection says to its peer is the matter of `SendConn` and `GetConn`; here
  a datagram only gives it its code, makes it stream, or closes it. `fault` names
  what is undefined or aborts.
* `MCDiretransClient` - constants and symmetry for TLC.

Event loop and threads

* `TimerQueue` - the ordered set with distances from now instead of points in time.
  `handleRead` is cut where time may pass: `HandleRead` takes `now` and the expired
  entries, `RunCallback` runs one of them, `Reset` restarts them and arms the
  timerfd. Dropping a `TimerId` is `Cancel`, or part of a callback.
* `MCTimerQueue` - timers with their intervals.
* `ThreadPool` - the threads with their steps between two uses of the mutex, the
  owner and its destructor.

Proofs: `DiretransServer_proofs`, `GetFileManager_proofs` (the lemmas about
`writeToFile` that `GetFile_proofs` and `Transfer_proofs` share), `GetFile_proofs`,
`Transfer_proofs`, `EPoller_proofs` (lemmas that `DiretransClient_proofs` uses),
`DiretransClient_proofs`, `TimerQueue_proofs`, `ThreadPool_proofs`.

State and actions carry the names of the code (`sendWindow`, `isWindowFull`,
`repeattimers`, `peerHello` for `lastPeerHelloTime_`); `RecvX` is the sharer's
`case X`, `GetX` the receiver's, `HoldConn` is `holdConn` with `checkPeerAlive`. A
definition named `...Slip` is a wrong variant of the one below it and is used by
no other; it shows that a property notices the difference.

## Runs

| run | specification | bounds | shows |
|---|---|---|---|
| server | `Spec` | a host with 3 sharers over a quota of 2, a host with 1, 2 codes, 1 file, timeout 2 ticks | exact quotas, expiry, inverse tables, an accepted share is registered unless every code is live (`AcceptedIsRegistered`), the promise to a sharer in touch, `RegistrySpec` |
| get_file | `Spec` | 7 pieces, 4-bit `uint32_t`, at most 3 gaps | the disk agrees with the bookkeeping, finished exactly when complete, `StoreSpec` |
| transfer_stream | `Spec` | 2 receivers, 2 pieces (the last one short), window 1, 3-bit `uint32_t`; 1 fault: a piece, PACK_ACK, RETRAN or FINISH lost, or a piece, DOWNLOAD_START, RETRAN or FINISH repeated | aligned pieces, `StoreSpec` end to end, only a receiver that has all says FINISH (`FinishMeansComplete`) |
| transfer_loss | `StreamSpec` | 1 receiver, 2 pieces (the last one full), window 2, 1 loss | types (the window is not overfilled), no lost wakeup, a served receiver gets the file |
| transfer_gone | `TimedSpec` | 2 pieces, window 1, 1 loss, timeout 1 tick, the receiver may quit | peers that have replied once and go are noticed, timers follow sessions |
| client | `Spec` | 2 shares and 2 downloads, 2 codes, 4 descriptors, 1 queued stream each | poller and connections agree, each connection can be closed, is deleted before the next poll, and only a GET deletes what is still to be handled; functors run in order (`FunctorsInOrder`); `LifecycleSpec` |
| timer_queue | `FairSpec` | 3 timers of 1, 3 and 3 ticks, least delay 2, lateness 4 | the timerfd covers every entry, timers fire while owned, dead entries go |
| thread_pool | `Spec` | 3 threads, 2 tasks | the join ends, no thread outlives the pool, awake threads empty the queue; the safety under the join (`JoinNeverHangs`) |
| tail_lost | `StreamSpec` | 2 pieces (the last one short), the last is lost once | violation, see below |
| early_start | `FairSpec` | 1 piece, no fault | violation |
| closed_stream | `Spec` | 1 share | violation |
| timer_collision | `Spec` | 2 timers of 3 ticks, least delay 1, lateness 2 | violation |

Why the bounds are enough. For the server, a second host tells the quota of one
from that of another, three ports give a host one sharer too many, and two codes
let the shuffle run out and be renewed while codes are live; the timeout of 2
ticks lets an age lie before, at and after it. Seven pieces are the largest file
for a 4-bit product and allow gaps in gaps and a piece beyond the limit of 3.
Two pieces of 3 bytes with a last one of 2 are the largest file with a short last
piece for a 3-bit product; a window of one piece fills before the end of the file,
one of two is partly given way by an acknowledgement. In transfer_stream only the
datagrams its row names are lost or repeated, to keep the state space small; the
theorems about its properties set no limit to either. Two receivers share the
sharer one after the other or contend for it; they are alike, and only safety is
checked of them, so that the symmetry is sound. One fault is what the
retransmission is there for. Times of a transfer are ticks
of 10 s and the timeout is 1 tick instead of 6: the properties compare times with
the timeout only. Two connections of a kind are enough for one to take the
descriptor, the code or the place in the array of another; two codes let a code
come back while another is live. Three timers of two intervals let a batch hold
one that restarts behind, and one that restarts upon, another; the lateness is
longer than each interval, so that a timer is missed more than once. Three threads
let one sleep, one run a task and one be on its way to wait. What is proved holds
for all values.

Deadlock checking is off where the system may stop: a finished file, a server that
spins, a transfer that is over, a fault that ends the process, a pool that is
destroyed.

Fairness. `StreamFairness`: the loop runs queued functors, the one-second timer
fires, and a datagram of a kind that is under way again and again is read at last
(strong fairness per kind, as one socket is read one datagram at a time and a
flood of one kind cannot starve another for ever). `SessionFairness` adds the
datagrams of introduction and heartbeat, `TimeFairness` the heartbeat timers and
time. Nothing obliges the user to give a command, a datagram to be lost or a
process to quit. In `Timed` runs every datagram is delivered or lost within a tick
of 10 s. `TimerQueue` assumes that the loop comes back to its poller and that time
goes on; nothing obliges an owner to add or drop a timer. `ThreadPool` assumes that
threads are scheduled and tasks end, and that a destructor once begun goes on;
nothing obliges the owner to begin it.

### What the code does not keep

Each of these runs ends in a counterexample; `PROJECT.json` quotes the line of the
source that says otherwise.

* `tail_lost` - the loss of a short last piece is never noticed, as only gaps
  before a piece that has arrived are reported. `transfer_loss` shows that a last
  piece of full length is recovered: the sender then reads on and sends an empty
  piece behind it.
* `early_start` - DOWNLOAD_START before FILE_REQ is dropped and never repeated.
* `closed_stream` - a `sendFileStream` queued behind the deletion of its connection
  is called on the deleted object. In `Transfer`, which holds one connection, what is
  queued before the deletion still runs, and a call behind it does nothing.
* `timer_collision` - two timers of the same interval that expire in one batch are
  restarted from the same `now` and meet the assertion of `insert`.

The models reach more, which no run states as a property; the hazards of
`PROJECT.json` name the lines:

* a SHARE_FILE or GET_FILE that is a header and nothing else passes the size test of
  `handleMessage` and fails the assertion of its handler (`DiretransServer.cpp:126`,
  `:206`; "no body"). A debug build, the default of `CMakeLists.txt:7`, aborts; where
  assertions are compiled out it is one more case of `HandleOther`. The properties
  and theorems about the server speak of the tables up to that point;
* a peer that has never replied is never given up: `checkPeerAlive` asks for a valid
  `lastPeerHelloTime_` (`SendConnManager.cpp:329`), although `ConnManager.h:6` says
  that 60 s without a HELLO_REPLY count as a lost connection. `GonePeerDropped` is
  about a peer that has replied once;
* FINISH names no session and is accepted from any address
  (`SendConnManager.cpp:230`): one that is repeated, or that a peer already given up
  has sent, ends the session of the next receiver, whose PACK_ACKs and RETRANs are
  ignored from then on. `FinishMeansComplete` does not exclude this;
* a second GET of a code destroys the connection it replaces, whose channel may still
  be among those to be handled ("dangling channel", `DiretransClient.cpp:133`);
  `DanglesOnlyReplaced` says that nothing else leads there;
* a gap is filled with full pieces even at a short last piece, so that a finished
  file may end in zeros (`GetFileManager.cpp:71`);
* a `sendFileStream` queued before FINISH moves the file on after it was reset
  (`SendConnManager.cpp:285`);
* the heartbeat time of a peer given up is held against the next
  (`SendConnManager.cpp:329`);
* CHAT to a closed connection calls through an empty pointer (the fault "null
  connection"), and a code that comes back for a new share while the empty entry of
  the old one remains meets an assertion ("code already there");
* a timer that is due in the very microsecond of `handleRead` meets the assertion of
  `getExpired` ("due right now");
* a destructor of the pool that catches a thread between its test of `running_` and
  its wait may join it for ever: `JoinEnds` excludes exactly this moment.

## Proofs

All proofs hold for any values of the constants under the named assumptions
(`ServerAssumption`, `LayoutAssumption`, `FileAssumption`, `WireAssumption`,
`ConnAssumption`, `ClientAssumption`, `TimerAssumption`, `PoolAssumption`), which TLC
evaluates in the runs. A theorem has the name `PROJECT.json` lists.

* `DiretransServer_proofs`. The inductive invariant is `TypeOK /\ RegistryInverse /\
  QuotaExact /\ SharesExpire`. They need each other: the sweep decrements the count
  of a host that must be positive (QuotaExact), erases the code of a sharer that
  must be its own (RegistryInverse), and finds sharers by `activeTimes` only
  (SharesExpire). From it follow that a share that has passed the quota test is
  registered unless every code is live (`AcceptedRegisters`), and always where codes
  suffice (`CodesSuffice`, by counting: injective codes, quota per host; no run has
  that many codes), that a sharer in touch keeps its share, and that the tables
  implement `ShareRegistry` step by step.
* `GetFileManager_proofs`, `GetFile_proofs`. The invariant `Kept` says of an open file
  that gaps lie before `curPiece_`, every slot holds what the bookkeeping says, the
  put position is at `curPiece_`, and `writtenBytes_` is the sum of the sizes of the
  pieces that arrived. That the sum is the length only for all pieces (`BytesTell`)
  is why counting bytes detects the end; that the constructor's test excludes a
  wrapping product (`FitsMeansNoWrap`, `SeekLands`) is why a gap is filled in its
  place. `writeToFile` keeps `Kept` and implements `PieceStore`.
* `Transfer_proofs`. `HoldTimerFollowsSession` is inductive as it stands.
  `NoLostWakeup` needs that the queue holds only sequences, and follows from what
  each call leaves: a stream that stops sets the flag, one that goes on queues
  itself, and a retransmission does not clear the flag. Types, alignment and the
  store need one invariant, `ShareInv`: the sharer's stream is at its `curPiece_`
  between calls, its queue holds only pieces of the file (`SenderInv`); every datagram
  under way is `Sound`, a piece with the bytes of its number, a request for pieces of
  the file (`NetSound`); and the file of every receiver is `Kept` (`ReceiverInv`). None is inductive alone: the
  disk of a receiver is right only if pieces are, pieces are only if the sender
  seeks back after a retransmission, and what is retransmitted comes from the
  receivers. `StoreSpec` follows for every file the receiver's constructor opens
  (`FitsUint32`), however many receivers, faults and sessions there are.
  - Who says FINISH (`FinishIsComplete`). A FINISH under way is from a connection that
    is closed with its file, which nothing opens again, and the file was closed by the
    piece that completed it (`ShareInv`: bytes are counted once each). So the ways in
    which a receiver ends without its file, an error, a file that cannot be created, a
    silent sharer, are silent themselves. It holds with heartbeats, and for a FINISH
    that is late or repeated.
  - Silence (`SilenceIsFinal`). If nothing is queued, no piece, RETRAN or
    DOWNLOAD_START under way, no receiver knows of a loss, and the stream is at its end
    or not waiting for acknowledgements, then no step of anyone changes this, and no
    file gets another piece. `tail_lost` and `early_start` end in such states, with a
    receiver in RECV_FILE: they are no matter of their small instances.
  - Timeouts (`TimeoutsNoticed`). `Heartbeats` says that a time that is over comes with
    a heartbeat that is due, and that nobody has such a time before it has begun to
    greet, as HELLO_REPLY answers HELLO. So no heartbeat period begins with an overdue
    connection: the safety of `OrphanGivesUp`. Of the sharer's peer it is false, because
    `lastPeerHelloTime_` outlives the peer (`SendConnManager.cpp:329`).
* `EPoller_proofs`. `WellFormed` adds to `Indexed` the types and that the epoll set is
  exactly what the map holds; `CloseKeeps` shows that closing any channel fails no
  assertion, keeps it, and takes away this channel only: the entry that moves in the
  array is the delicate case.
* `DiretransClient_proofs`. The invariant is `CInv`, the conjunction of `ConnTypes`,
  `Registered` (the poller holds exactly the living connections), `Owners` (unless
  `movePendConn` has met its assertion, who lives is in the map its `closeSelf` looks
  into, or waits in `deleteconns_`, and whatever entry is not empty lives) and `Loops` (a closed connection has its deletion queued behind it, a queued
  functor has set the eventfd). `FindsItself`, `PolledAreLive` and
  `ReclaimedBeforePoll` are its consequences, `DanglesOnlyReplaced` one of its steps;
  the types of the maps (`OTypes`) rest on it. Two refinements follow:
  `ClientImplementsLifecycle`, with `Live \ deleteconns` as what is open, which needs
  `Owners` (what a map holds lives and is not closing yet), and `ClientImplementsQueue`, with
  `batch \o functors` as the queue, which needs only that the batch is empty outside
  of `doPendingFunctors`.
* `TimerQueue_proofs`. The invariant `TInv` is `TypeOK` with, as long as nothing has
  aborted, `Covered`: outside `handleRead` the timerfd is armed no later than any
  entry, dead ones included; inside, every timer with an owner is entered, still to
  run or done, and what is to run had expired. Dead entries must be included: they
  are dropped only from the front, by a `reset` that they cause. From it follow that no
  two entries ever have the same time (`EntriesApart`), and that timers of distinct
  intervals never meet the assertion `timer_collision` shows (`DistinctNeverTogether`).
* `ThreadPool_proofs`. The threads before the one the join is at have exited. Beneath
  `JoinEnds` lies a fact about single steps, which is proved: once the destructor has
  stopped the pool and notified, with no thread between its test of `running_` and its
  wait, no step brings one back to the wait (`PoolJoinNeverHangs`).

Every safety property of a passing run is proved in this way. Model-checked only
are the liveness properties (`TransferCompletes`, `GonePeerDropped`, `OrphanGivesUp`,
`FiresAgain`, `DeadEntriesGo`, `JoinEnds`, `AwakeDrain`), which are outside the
prover's reach, and the four violations.

## Not modelled, and what is left

Left out for good: CRC32 (a pure function whose result is logged), `Timestamp`, `Log`,
`Poller` (unused), the test programs, the text of CHAT. `MutexLockGuard` takes the lock
by value and so locks a copy; as the only thread that queues functors is the one of
the loop, nothing is lost by leaving it out, and calls of other threads, `quit` and
`runInThreadPool` are made by no program of the repository after its start. Timers
that run once (`runAt`, `runAfter`) are created by nothing.

Abstracted: file names and contents, signs of headers, addresses as values. A
receiver's process holds one connection in `Transfer`. The set of datagrams keeps
identical ones once, a stronger assumption than UDP's only for repetition, which
`DupTypes` gives back. Sockets do not fail and the arithmetic of `Buffer` is left
out; a clock does not jump; a shared file does not change while it is shared.

What is left, in the order of its worth:

1. Windows of several pieces and a limit of gaps below them, for the piece that is
   too far ahead to be noted as lost (`GetFileManager.cpp:63`).
2. How long a second receiver that arrives during a session may wait.
3. `DiretransServer` composed with sharers that lose their code in a restart, once the
   code gives a sharer a way to learn of it.
