-------------------------- MODULE DiretransClient --------------------------
(***************************************************************************)
(* Who owns the connections of a client (client/DiretransClient.cpp), on   *)
(* its event loop (netlib/EventLoop.cpp) and poller.  What a connection    *)
(* says to its peer is the matter of SendConn and GetConn; here it only    *)
(* gets its code, starts to stream, closes itself and is deleted.          *)
(*                                                                         *)
(* A member of Sends or Gets is one object: it is constructed once and its *)
(* memory is not used again.  What is undefined or aborts ends the         *)
(* behaviour, with its cause in fault.                                     *)
(***************************************************************************)
EXTENDS EPoller, FiniteSets, Functions

CONSTANTS
  Sends, Gets,    \* SendConnManager and GetConnManager objects
  Code,           \* share codes, 0 not among them
  Asked,          \* those the user gives to GET and CHAT
  Fd,             \* descriptors the process may use for sockets of connections
  Null,           \* a unique_ptr that is empty
  MaxStreams      \* calls of sendFileStream queued for one connection

Conn == Sends \cup Gets
Timerfd == "timerfd"
Wakeup == "wakeup"
Commands == "commands"

ASSUME ClientAssumption ==
  /\ Sends \cap Gets = {} /\ IsFiniteSet(Sends) /\ IsFiniteSet(Gets)
  /\ Channel = Conn \cup {Timerfd, Wakeup, Commands}
  /\ {Timerfd, Wakeup, Commands} \cap Conn = {}
  /\ Null \notin Conn /\ Code \subseteq Nat \ {0} /\ Asked \subseteq Code
  /\ Fd \subseteq Nat /\ {1, 2, 3} \cap Fd = {}
  /\ MaxStreams \in Nat

VARIABLES
  life,          \* of each object: "new", "live", "freed"
  code,          \* code_ of a connection
  fdOf,          \* its descriptor
  timed,         \* receivers whose heartbeat timer runs
  pendingconns, sendconns, getconns, deleteconns,
  poller,
  pc,            \* "poll", "events" or "functors": where loop() is
  active,        \* what is left of activeChannels_
  functors,      \* pendingFunctors_
  batch,         \* what doPendingFunctors has still to run
  woken,         \* the eventfd of wakeup() is readable
  fault

connVars == <<life, code, fdOf, timed>>
ownerVars == <<pendingconns, sendconns, getconns, deleteconns>>
loopVars == <<pc, active, functors, batch, woken>>
vars == <<connVars, ownerVars, poller, loopVars, fault>>

DeleteCall == [call |-> "deleteConn"]
StreamCall(c) == [call |-> "sendFileStream", conn |-> c]
Call == {DeleteCall} \cup {StreamCall(c) : c \in Sends}

Live == {c \in Conn : life[c] = "live"}

TypeOK ==
  /\ life \in [Conn -> {"new", "live", "freed"}]
  /\ code \in [Conn -> Code \cup {0}]
  /\ fdOf \in [Conn -> Fd \cup {0}]
  /\ timed \subseteq Gets
  /\ DOMAIN pendingconns \subseteq Fd
  /\ pendingconns \in [DOMAIN pendingconns -> Sends \cup {Null}]
  /\ DOMAIN sendconns \subseteq Code /\ sendconns \in [DOMAIN sendconns -> Sends \cup {Null}]
  /\ DOMAIN getconns \subseteq Code /\ getconns \in [DOMAIN getconns -> Gets \cup {Null}]
  /\ deleteconns \subseteq Conn
  /\ pc \in {"poll", "events", "functors"}
  /\ active \subseteq Channel
  /\ functors \in Seq(Call) /\ batch \in Seq(Call)
  /\ woken \in BOOLEAN
  /\ fault \in {"none", "event on a deleted connection", "call on a deleted connection",
                "code already there", "null connection"}

(* The constructors of EventLoop, TimerQueue and DiretransClient add the   *)
(* three channels that stay.                                               *)
Init ==
  /\ life = [c \in Conn |-> "new"]
  /\ code = [c \in Conn |-> 0] /\ fdOf = [c \in Conn |-> 0] /\ timed = {}
  /\ pendingconns = <<>> /\ sendconns = <<>> /\ getconns = <<>> /\ deleteconns = {}
  /\ poller = AddChannel(AddChannel(AddChannel(NewPoller, Timerfd, 1), Wakeup, 2), Commands, 3)
  /\ pc = "poll" /\ active = {} /\ functors = <<>> /\ batch = <<>>
  /\ woken = FALSE /\ fault = "none"

(* std::map::operator[] with an assignment. *)
Put(map, k, v) == [x \in DOMAIN map \cup {k} |-> IF x = k THEN v ELSE map[x]]

Fails(why) == fault' = why /\ UNCHANGED <<connVars, ownerVars, poller, loopVars>>
-----------------------------------------------------------------------------
(***************************************************************************)
(* EPoller::poll: whatever is readable, in any order.  A connection is     *)
(* readable when a datagram has come, the timerfd when a timer is due, the *)
(* socket pair when the user has typed a command.                          *)
(***************************************************************************)
Polled == {poller.channels[f] : f \in poller.kernel}

Poll ==
  /\ pc = "poll" /\ fault = "none"
  /\ \E ready \in SUBSET Polled :
       /\ ready # {} /\ (Wakeup \in ready <=> woken)
       /\ active' = ready
  /\ pc' = "events"
  /\ UNCHANGED <<connVars, ownerVars, poller, functors, batch, woken, fault>>

(* Channel::handleEvent of one of the active channels. *)
Handles(ch) == pc = "events" /\ fault = "none" /\ ch \in active /\ active' = active \ {ch}

(* queueInLoop: a functor queued while functors run wakes the next poll.   *)
(* A slip to compare with: it never does.                                  *)
QueueInLoopSlip(calls) ==
  /\ functors' = functors \o calls
  /\ UNCHANGED woken

QueueInLoop(calls) ==
  /\ functors' = functors \o calls
  /\ woken' = (woken \/ (pc = "functors" /\ calls # <<>>))

HandleWakeup ==
  /\ Handles(Wakeup) /\ woken' = FALSE
  /\ UNCHANGED <<connVars, ownerVars, poller, pc, functors, batch, fault>>

HandleDangling(c) ==
  /\ pc = "events" /\ fault = "none"
  /\ c \in active \cap Conn /\ life[c] = "freed"
  /\ Fails("event on a deleted connection")
-----------------------------------------------------------------------------
(***************************************************************************)
(* closeSelf of the connections S.  closeSendConn, closeGetConn and        *)
(* closePendConn find a connection by its code or descriptor, move it to   *)
(* deleteconns_, leave the entry empty and queue deleteConn.               *)
(***************************************************************************)
SendKeys(S) == {code[c] : c \in S \cap Sends} \ {0}
PendKeys(S) == {fdOf[c] : c \in {x \in S \cap Sends : code[x] = 0}}
GetKeys(S) == {code[c] : c \in S \cap Gets} \ {0}

Held(map, keys) == {map[k] : k \in keys \cap DOMAIN map} \ {Null}
(* A slip: the entry keeps its pointer. *)
EmptiedSlip(map, keys) == map

Emptied(map, keys) == [k \in DOMAIN map |-> IF k \in keys THEN Null ELSE map[k]]

Closed(S) ==
  Held(sendconns, SendKeys(S)) \cup Held(pendingconns, PendKeys(S)) \cup Held(getconns, GetKeys(S))

(* deleteConn is queued at every call, so once more for a connection that  *)
(* closes itself again; closePendConn queues nothing when it finds nothing.*)
Calls(S, again) == Cardinality(S) + Cardinality(again)

(* A slip: connections without a code are not deleted. *)
DeletionsSlip(S, again) == [i \in 1..Calls({c \in S : code[c] # 0}, again) |-> DeleteCall]

Deletions(S, again) ==
  [i \in 1..Calls({c \in S : code[c] # 0 \/ fdOf[c] \in DOMAIN pendingconns}, again) |-> DeleteCall]

(* A slip: the connection is deleted at once, within its own handler. *)
CloseSelfSlip(S, again) ==
  /\ life' = [c \in Conn |-> IF c \in Closed(S) THEN "freed" ELSE life[c]]
  /\ sendconns' = Emptied(sendconns, SendKeys(S))
  /\ pendingconns' = Emptied(pendingconns, PendKeys(S))
  /\ getconns' = Emptied(getconns, GetKeys(S))
  /\ UNCHANGED <<deleteconns, code, fdOf, timed, poller, functors, woken>>

CloseSelf(S, again) ==
  /\ deleteconns' = deleteconns \cup Closed(S)
  /\ sendconns' = Emptied(sendconns, SendKeys(S))
  /\ pendingconns' = Emptied(pendingconns, PendKeys(S))
  /\ getconns' = Emptied(getconns, GetKeys(S))
  /\ QueueInLoop(Deletions(S, again))
  /\ UNCHANGED <<connVars, poller>>

(* The heartbeat timers: from SHARE_CODE on for a sharer, from FILE_DATA   *)
(* on for a receiver.  Any of them may find its peer or the server gone;   *)
(* both timers of a sharer, the one to the server and the one to the peer, *)
(* may do so.                                                              *)
Timed == {c \in Live : c \in timed \/ (c \in Sends /\ code[c] # 0)}

HandleTimers ==
  /\ Handles(Timerfd)
  /\ \E S \in SUBSET Timed : \E again \in SUBSET (S \cap Sends) : CloseSelf(S, again)
  /\ UNCHANGED <<pc, batch, fault>>
-----------------------------------------------------------------------------
(* A datagram for a connection. *)
HandleMessage(c) == Handles(c) /\ c \in Live /\ UNCHANGED <<pc, batch>>

RecvOther(c) ==
  /\ HandleMessage(c)
  /\ UNCHANGED <<connVars, ownerVars, poller, functors, woken, fault>>

(* ERROR_FORMAT, ERROR_LIMIT, ERROR_404, the last DATA_STREAM. *)
RecvAndClose(c) ==
  /\ HandleMessage(c) /\ CloseSelf({c}, {}) /\ UNCHANGED fault

(* Slips: the connection is not moved, or put under its descriptor. *)
NotMovedSlip(c, k) ==
  /\ sendconns' = Put(sendconns, k, Null)
  /\ UNCHANGED pendingconns

WrongKeySlip(c, k) ==
  /\ sendconns' = Put(sendconns, fdOf[c], pendingconns[fdOf[c]])
  /\ pendingconns' = Restrict(pendingconns, DOMAIN pendingconns \ {fdOf[c]})

(* The assertion of movePendConn fails for a code that is there already. *)
CodeTaken(k) == k \in DOMAIN sendconns

(* movePendConn; an entry that is empty moves as well. *)
MovePendConn(c, k) ==
  IF fdOf[c] \in DOMAIN pendingconns
  THEN /\ sendconns' = Put(sendconns, k, pendingconns[fdOf[c]])
       /\ pendingconns' = Restrict(pendingconns, DOMAIN pendingconns \ {fdOf[c]})
  ELSE UNCHANGED <<sendconns, pendingconns>>

(* SHARE_CODE: the server gives out a code that no live share has. *)
RecvShareCode(c, k) ==
  /\ c \in Sends /\ code[c] = 0
  /\ \A d \in Live : d \in Sends => code[d] # k
  /\ HandleMessage(c)
  /\ code' = [code EXCEPT ![c] = k]
  /\ IF fdOf[c] \in DOMAIN pendingconns /\ CodeTaken(k)
     THEN fault' = "code already there" /\ UNCHANGED <<sendconns, pendingconns>>
     ELSE MovePendConn(c, k) /\ UNCHANGED fault
  /\ UNCHANGED <<life, fdOf, timed, getconns, deleteconns, poller, functors, woken>>

(* FILE_DATA starts the heartbeat of a receiver. *)
RecvFileData(c) ==
  /\ c \in Gets
  /\ HandleMessage(c)
  /\ timed' = timed \cup {c}
  /\ UNCHANGED <<life, code, fdOf, ownerVars, poller, functors, woken, fault>>

(* DOWNLOAD_START, PACK_ACK or RETRAN: sendFileStream or sendLossPieces    *)
(* sends a piece and queues itself.                                        *)
Streams(c) == Cardinality({i \in DOMAIN functors : functors[i] = StreamCall(c)})

RecvAndStream(c) ==
  /\ c \in Sends /\ code[c] # 0 /\ Streams(c) < MaxStreams
  /\ HandleMessage(c)
  /\ QueueInLoop(<<StreamCall(c)>>)
  /\ UNCHANGED <<connVars, ownerVars, poller, fault>>
-----------------------------------------------------------------------------
(* A new connection gets the lowest free descriptor and is polled. *)
UsedFds == {fdOf[c] : c \in Live}
LowestFree(f) == f \in Fd \ UsedFds /\ \A g \in Fd \ UsedFds : f <= g

(* Deleting an object closes its channel and frees its descriptor. *)
Delete(c) ==
  /\ life' = [life EXCEPT ![c] = "freed"]
  /\ code' = [code EXCEPT ![c] = 0] /\ fdOf' = [fdOf EXCEPT ![c] = 0]
  /\ timed' = timed \ {c}
  /\ poller' = CloseChannel(poller, c, fdOf[c])

(***************************************************************************)
(* handleCmd: one command.  What is written to the socket pair before it   *)
(* is read is taken for one command, too: the first is carried out, with   *)
(* an argument that runs into the next, which is lost.                     *)
(***************************************************************************)
ReadsCommand == Handles(Commands) /\ UNCHANGED <<pc, batch>>

(* A file that cannot be opened closes the connection at once. *)
DoShare(c, f) ==
  /\ ReadsCommand
  /\ c \in Sends /\ life[c] = "new" /\ LowestFree(f)
  /\ life' = [life EXCEPT ![c] = "live"] /\ fdOf' = [fdOf EXCEPT ![c] = f]
  /\ poller' = AddChannel(poller, c, f)
  /\ \/ /\ pendingconns' = Put(pendingconns, f, c)
        /\ UNCHANGED <<deleteconns, functors, woken>>
     \/ /\ pendingconns' = Put(pendingconns, f, Null)
        /\ deleteconns' = deleteconns \cup {c}
        /\ QueueInLoop(<<DeleteCall>>)
  /\ UNCHANGED <<code, timed, sendconns, getconns, fault>>

(* The connection GET replaces is deleted on the spot. *)
Replaced(k) == Held(getconns, {k})

DoGet(c, k, f) ==
  /\ ReadsCommand
  /\ c \in Gets /\ life[c] = "new" /\ LowestFree(f)
  /\ LET gone(d) == d \in Replaced(k) IN
       /\ life' = [d \in Conn |-> IF d = c THEN "live" ELSE IF gone(d) THEN "freed" ELSE life[d]]
       /\ code' = [d \in Conn |-> IF d = c THEN k ELSE IF gone(d) THEN 0 ELSE code[d]]
       /\ fdOf' = [d \in Conn |-> IF d = c THEN f ELSE IF gone(d) THEN 0 ELSE fdOf[d]]
  /\ timed' = timed \ Replaced(k)
  /\ getconns' = Put(getconns, k, c)
  /\ \/ Replaced(k) = {} /\ poller' = AddChannel(poller, c, f)
     \/ \E d \in Replaced(k) : poller' = CloseChannel(AddChannel(poller, c, f), d, fdOf[d])
  /\ UNCHANGED <<pendingconns, sendconns, deleteconns, functors, woken, fault>>

(* CHAT sends through the entry it finds, which may be empty. *)
Addressed(k) ==
  IF k \in DOMAIN getconns THEN Held(getconns, {k}) # {}
  ELSE k \in DOMAIN sendconns => Held(sendconns, {k}) # {}

DoChat(k) ==
  /\ ReadsCommand
  /\ fault' = IF Addressed(k) THEN fault ELSE "null connection"
  /\ UNCHANGED <<connVars, ownerVars, poller, functors, woken>>
-----------------------------------------------------------------------------
(* doPendingFunctors takes all that is queued. *)
EndEvents ==
  /\ pc = "events" /\ fault = "none" /\ active = {}
  /\ pc' = IF functors = <<>> THEN "poll" ELSE "functors"
  /\ batch' = functors /\ functors' = <<>>
  /\ UNCHANGED <<connVars, ownerVars, poller, active, woken, fault>>

Runs(call) == pc = "functors" /\ fault = "none" /\ batch # <<>> /\ Head(batch) = call

(* deleteConn, one of the connections that deleteconns_ owns at a time. *)
DeleteOne(c) ==
  /\ Runs(DeleteCall) /\ c \in deleteconns
  /\ Delete(c) /\ deleteconns' = deleteconns \ {c}
  /\ UNCHANGED <<pendingconns, sendconns, getconns, loopVars, fault>>

DeleteConn ==
  /\ Runs(DeleteCall) /\ deleteconns = {}
  /\ batch' = Tail(batch)
  /\ UNCHANGED <<connVars, ownerVars, poller, pc, active, functors, woken, fault>>

(* sendFileStream goes on or stops at the end of the file or window. *)
SendFileStream(c) ==
  /\ Runs(StreamCall(c))
  /\ IF life[c] = "freed"
     THEN Fails("call on a deleted connection")
     ELSE /\ batch' = Tail(batch)
          /\ \E calls \in {<<StreamCall(c)>>, <<>>} : QueueInLoop(calls)
          /\ UNCHANGED <<connVars, ownerVars, poller, pc, active, fault>>

(* A slip: what is queued is cleared after the batch, not before it. *)
EndFunctorsSlip ==
  /\ pc = "functors" /\ fault = "none" /\ batch = <<>>
  /\ pc' = "poll" /\ functors' = <<>>
  /\ UNCHANGED <<connVars, ownerVars, poller, active, batch, woken, fault>>

EndFunctors ==
  /\ pc = "functors" /\ fault = "none" /\ batch = <<>>
  /\ pc' = "poll"
  /\ UNCHANGED <<connVars, ownerVars, poller, active, functors, batch, woken, fault>>

HandleCmd ==
  \/ \E c \in Sends, f \in Fd : DoShare(c, f)
  \/ \E c \in Gets, k \in Asked, f \in Fd : DoGet(c, k, f)
  \/ \E k \in Asked : DoChat(k)

HandleConn(c) ==
  \/ RecvOther(c) \/ RecvAndClose(c) \/ RecvFileData(c) \/ RecvAndStream(c)
  \/ \E k \in Code : RecvShareCode(c, k)
  \/ HandleDangling(c)

DoPendingFunctors ==
  \/ \E c \in Conn : DeleteOne(c)
  \/ DeleteConn
  \/ \E c \in Sends : SendFileStream(c)
  \/ EndFunctors

Next ==
  \/ Poll \/ HandleWakeup \/ HandleTimers \/ HandleCmd
  \/ \E c \in Conn : HandleConn(c)
  \/ EndEvents \/ DoPendingFunctors

Spec == Init /\ [][Next]_vars
-----------------------------------------------------------------------------
(* The array, the map and the indices of the poller tell the same, after   *)
(* any order of creations and deletions: so no assertion of EPoller.cpp    *)
(* fails and no channel is closed in the place of another.                 *)
PollerIndexed == Indexed(poller)

(* Exactly the living connections are polled, each under its own           *)
(* descriptor, also when descriptors are used again: poll never returns    *)
(* the channel of a deleted one.                                           *)
PolledAreLive ==
  /\ poller.kernel = UsedFds \cup {1, 2, 3}
  /\ \A c \in Live : poller.channels[fdOf[c]] = c

(* A connection that runs is where its closeSelf will look for it, so it   *)
(* can always be closed; the only one that is not met the assertion of     *)
(* movePendConn.                                                           *)
FindsItself ==
  fault # "code already there" =>
    \A c \in Live \ deleteconns : Closed({c}) = {c}

(* What closes in an iteration is deleted before the next poll: no closed  *)
(* connection answers another datagram.                                    *)
ReclaimedBeforePoll == pc = "poll" => deleteconns = {}

(* Deletion is put off until no handler of the iteration is to come: a     *)
(* channel that is still to be handled is deleted only by a GET of the     *)
(* code it downloads.                                                      *)
DanglesOnlyReplaced ==
  [][\A c \in active \cap Live :
       life'[c] = "freed" =>
         c \in Gets /\ \E d \in Gets : life[d] = "new" /\ life'[d] = "live" /\ code'[d] = code[c]]_vars

(* The loop never sleeps while a functor waits. *)
WakesForFunctors == pc = "poll" /\ functors # <<>> => woken

(* pendingFunctors_ is swapped into a batch, which runs while more is      *)
(* queued: every functor still runs, and in its turn.                      *)
Queued == INSTANCE FunctorQueue WITH queue <- batch \o functors

FunctorsInOrder == Queued!Spec

(* The maps, deleteconns_ and the queued deletions together let no         *)
(* connection leak, none be deleted twice and none be used again.          *)
Lifecycle == INSTANCE ConnLifecycle WITH
  open <- Live \ deleteconns,
  closing <- deleteconns,
  gone <- {c \in Conn : life[c] = "freed"}

LifecycleSpec == Lifecycle!Spec

(* deleteconns_ holds "the connections to be reclaimed"                    *)
(* (DiretransClient.h:42) until nothing calls them any more.               *)
NoCallOnDeleted == fault # "call on a deleted connection"
=============================================================================
