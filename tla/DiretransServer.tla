-------------------------- MODULE DiretransServer --------------------------
(***************************************************************************)
(* The rendezvous server (server/DiretransServer.cpp).  It is a single     *)
(* event loop: a handler runs to its end before the next datagram or timer *)
(* is looked at, so each action below is one whole handler.                *)
(*                                                                         *)
(* Time is counted in ticks; kTimeoutSec is the timeout and the period of  *)
(* the sweep, in ticks.  activeTimes holds the AGE of the last contact     *)
(* with an address instead of its timestamp.                               *)
(***************************************************************************)
EXTENDS Naturals, FiniteSets, Functions

CONSTANTS
  Ip, Port,          \* hosts and ports
  Addr,              \* the addresses clients send from
  Code,              \* the values RandomCode shuffles (kCodeNums of them)
  File,              \* what a well-formed SHARE_FILE may describe
  EmptyFile,         \* a file without a name or without bytes
  kMaxSharedPerIp,   \* files one host may share
  kTimeoutSec        \* ticks of silence after which a share is dropped

ASSUME ServerAssumption ==
  /\ IsFiniteSet(Ip) /\ IsFiniteSet(Port) /\ IsFiniteSet(Code)
  /\ Addr \subseteq Ip \X Port
  /\ Cardinality(Code) > 1
  /\ EmptyFile \notin File
  /\ kMaxSharedPerIp \in Nat \ {0}
  /\ kTimeoutSec \in Nat \ {0}

(* getSockaddrIp *)
IpOf(a) == a[1]

VARIABLES
  activeTimes,    \* address -> ticks since its last datagram
  codesMap,       \* address -> the code it shares under
  fileDatas,      \* code -> the file shared and the sharer's address
  shareFileNum,   \* host -> number of its shares
  drawn,          \* the codes RandomCode gave out since its last shuffle
  sweepIn,        \* ticks until removeTimeoutConn runs
  proc,           \* "running", or why it serves nobody any more
  sent            \* the datagrams the last handler sent

(* It spins in the search for a code, or an assertion has aborted it: that *)
(* of a body behind the header, or of an address that shares nothing yet.  *)
Stops == {"spinning", "no body", "already shares"}

vars == <<activeTimes, codesMap, fileDatas, shareFileNum, drawn, sweepIn, proc, sent>>

Datagram ==
       [type : {"HELLO_REPLY", "ERROR_FORMAT", "ERROR_LIMIT", "ERROR_404"}, to : Addr]
  \cup [type : {"SHARE_CODE"}, to : Addr, code : Code]
  \cup [type : {"FILE_DATA"}, to : Addr, file : File, addr : Addr]
  \cup [type : {"FILE_REQ"}, to : Addr, addr : Addr]

Sharers == DOMAIN codesMap
Live == DOMAIN fileDatas

(* The type of every table; RandomCode gives out one code less than it     *)
(* shuffles, because endIndex_ is the index of the last one.               *)
TypeOK ==
  /\ DOMAIN activeTimes \subseteq Addr /\ activeTimes \in [DOMAIN activeTimes -> Nat]
  /\ Sharers \subseteq Addr /\ codesMap \in [Sharers -> Code]
  /\ Live \subseteq Code /\ fileDatas \in [Live -> [file : File, addr : Addr]]
  /\ DOMAIN shareFileNum \subseteq Ip /\ shareFileNum \in [DOMAIN shareFileNum -> Nat]
  /\ drawn \subseteq Code /\ Cardinality(drawn) < Cardinality(Code)
  /\ sweepIn \in 0..kTimeoutSec
  /\ proc \in {"running"} \cup Stops
  /\ sent \subseteq Datagram

Empty == [x \in {} |-> 0]

Init ==
  /\ activeTimes = Empty
  /\ codesMap = Empty
  /\ fileDatas = Empty
  /\ shareFileNum = Empty
  /\ drawn = {}
  /\ sweepIn = kTimeoutSec
  /\ proc = "running"
  /\ sent = {}
-----------------------------------------------------------------------------
(* m[k] = v on a std::map: the entry is created or overwritten. *)
Put(m, k, v) == [x \in DOMAIN m \cup {k} |-> IF x = k THEN v ELSE m[x]]

Erase(m, keys) == Restrict(m, DOMAIN m \ keys)

(* handleMessage notes the time before it looks at the type. *)
Touch(a) == activeTimes' = Put(activeTimes, a, 0)

(***************************************************************************)
(* RandomCode::getCode inside the do-while of handleShareFile: codes are   *)
(* drawn until one is not live.  The live ones drawn on the way are        *)
(* skipped; when all but the last code of the shuffle are out, the codes   *)
(* are shuffled again.                                                     *)
(***************************************************************************)
(* A slip to compare with: endIndex_ one too large. *)
LastIndexSlip == Cardinality(Code)

LastIndex == Cardinality(Code) - 1

DrawFromShuffle(c) ==
  \E skipped \in SUBSET (Live \ drawn) :
    /\ c \notin drawn
    /\ Cardinality(drawn \cup skipped) < LastIndex
    /\ drawn' = drawn \cup skipped \cup {c}

DrawAfterReshuffle(c) ==
  \E rest \in SUBSET (Live \ drawn), skipped \in SUBSET Live :
    /\ Cardinality(drawn \cup rest) = LastIndex
    /\ Cardinality(skipped) < LastIndex
    /\ drawn' = skipped \cup {c}

(* A slip: whether the code is taken is not looked up. *)
FreshCodeSlip(c) == c \in Code

FreshCode(c) == c \notin Live

GetCode(c) ==
  /\ FreshCode(c)
  /\ DrawFromShuffle(c) \/ DrawAfterReshuffle(c)
-----------------------------------------------------------------------------
HandleHello(a) ==
  /\ proc = "running"
  /\ Touch(a)
  /\ sent' = {[type |-> "HELLO_REPLY", to |-> a]}
  /\ UNCHANGED <<codesMap, fileDatas, shareFileNum, drawn, sweepIn, proc>>

(* A datagram of another type, or a request with a body whose dataLenth is *)
(* too small: it counts as a sign of life all the same.                    *)
HandleOther(a) ==
  /\ proc = "running"
  /\ Touch(a)
  /\ sent' = {}
  /\ UNCHANGED <<codesMap, fileDatas, shareFileNum, drawn, sweepIn, proc>>

(* assert(req.readableBytes() > sizeof(Header)) of handleShareFile and     *)
(* handleGetFile fails for a request that is a header and nothing else,    *)
(* which handleMessage lets through.  Where assertions are compiled out    *)
(* the request is one of HandleOther.                                      *)
HandleBareRequest(a) ==
  /\ proc = "running"
  /\ Touch(a)
  /\ proc' = "no body"
  /\ sent' = {}
  /\ UNCHANGED <<codesMap, fileDatas, shareFileNum, drawn, sweepIn>>

(* handleShareFile, the request names no file or an empty one. *)
HandleShareFileInvalid(a, f) ==
  /\ proc = "running"
  /\ f = EmptyFile
  /\ Touch(a)
  /\ sent' = {[type |-> "ERROR_FORMAT", to |-> a]}
  /\ UNCHANGED <<codesMap, fileDatas, shareFileNum, drawn, sweepIn, proc>>

(* A slip: only the number of shares is tested. *)
QuotaRefusesSlip(a) ==
  IpOf(a) \in DOMAIN shareFileNum /\ shareFileNum[IpOf(a)] >= kMaxSharedPerIp

(* The quota test; an address that shares already is only noticed when its *)
(* host has an entry in shareFileNum.                                      *)
QuotaRefuses(a) ==
  /\ IpOf(a) \in DOMAIN shareFileNum
  /\ \/ shareFileNum[IpOf(a)] >= kMaxSharedPerIp
     \/ a \in Sharers

HandleShareFileRefused(a, f) ==
  /\ proc = "running"
  /\ f # EmptyFile
  /\ QuotaRefuses(a)
  /\ Touch(a)
  /\ sent' = {[type |-> "ERROR_LIMIT", to |-> a]}
  /\ UNCHANGED <<codesMap, fileDatas, shareFileNum, drawn, sweepIn, proc>>

(* The share is counted before a code is looked for. *)
CountShare(a) ==
  shareFileNum' = Put(shareFileNum, IpOf(a),
    IF IpOf(a) \in DOMAIN shareFileNum THEN shareFileNum[IpOf(a)] + 1 ELSE 1)

(* assert(codesMap_.find(addr) == codesMap_.end()): the tables an aborted  *)
(* server leaves behind are of no interest.                                *)
AssertNotSharing(a) == proc' = IF a \in Sharers THEN "already shares" ELSE proc

Register(a, f, c) ==
  /\ codesMap' = Put(codesMap, a, c)
  /\ fileDatas' = Put(fileDatas, c, [file |-> f, addr |-> a])

HandleShareFileAccepted(a, f, c) ==
  /\ proc = "running"
  /\ f # EmptyFile
  /\ ~QuotaRefuses(a)
  /\ GetCode(c)
  /\ Touch(a)
  /\ CountShare(a)
  /\ AssertNotSharing(a)
  /\ Register(a, f, c)
  /\ sent' = {[type |-> "SHARE_CODE", to |-> a, code |-> c]}
  /\ UNCHANGED sweepIn

(* Every code is live: the do-while never ends.  What it goes on drawing   *)
(* is seen by nobody.                                                      *)
HandleShareFileSpins(a, f) ==
  /\ proc = "running"
  /\ f # EmptyFile
  /\ ~QuotaRefuses(a)
  /\ \A c \in Code : ~FreshCode(c)
  /\ Touch(a)
  /\ CountShare(a)
  /\ proc' = "spinning"
  /\ sent' = {}
  /\ UNCHANGED <<codesMap, fileDatas, drawn, sweepIn>>

HandleGetFileMiss(g, c) ==
  /\ proc = "running"
  /\ c \notin Live
  /\ Touch(g)
  /\ sent' = {[type |-> "ERROR_404", to |-> g]}
  /\ UNCHANGED <<codesMap, fileDatas, shareFileNum, drawn, sweepIn, proc>>

(* A slip: the two addresses are swapped. *)
IntroductionSlip(g, d) ==
  {[type |-> "FILE_DATA", to |-> g, file |-> d.file, addr |-> g],
   [type |-> "FILE_REQ", to |-> d.addr, addr |-> d.addr]}

(* The two datagrams of a hit: FILE_DATA to the getter, FILE_REQ to the sharer. *)
Introduction(g, d) ==
  {[type |-> "FILE_DATA", to |-> g, file |-> d.file, addr |-> d.addr],
   [type |-> "FILE_REQ", to |-> d.addr, addr |-> g]}

HandleGetFileHit(g, c) ==
  /\ proc = "running"
  /\ c \in Live
  /\ Touch(g)
  /\ sent' = Introduction(g, fileDatas[c])
  /\ UNCHANGED <<codesMap, fileDatas, shareFileNum, drawn, sweepIn, proc>>
-----------------------------------------------------------------------------
TimedOut == {a \in DOMAIN activeTimes : activeTimes[a] > kTimeoutSec}

(* A slip: the sweep forgets what the addresses share. *)
DroppedSlip == {}

(* The timed-out addresses that share a file. *)
Dropped == TimedOut \cap Sharers

(* A slip: the file stays under its code. *)
DropCodesSlip == UNCHANGED fileDatas

DropCodes == fileDatas' = Erase(fileDatas, {codesMap[a] : a \in Dropped})

(* A slip: the decrement stands outside the test for a share. *)
DropCountsSlip ==
  shareFileNum' = [ip \in DOMAIN shareFileNum |->
    shareFileNum[ip] - Cardinality({a \in TimedOut : IpOf(a) = ip})]

DropCounts ==
  shareFileNum' = [ip \in DOMAIN shareFileNum |->
    shareFileNum[ip] - Cardinality({a \in Dropped : IpOf(a) = ip})]

(* The timer started by start() fires every kTimeoutSec. *)
RemoveTimeoutConn ==
  /\ proc = "running"
  /\ sweepIn = 0
  /\ sweepIn' = kTimeoutSec
  /\ activeTimes' = Erase(activeTimes, TimedOut)
  /\ codesMap' = Erase(codesMap, Dropped)
  /\ DropCodes
  /\ DropCounts
  /\ sent' = {}
  /\ UNCHANGED <<drawn, proc>>

(* Time passes; a sweep that is due runs first. *)
Tick ==
  /\ proc = "running"
  /\ sweepIn > 0
  /\ sweepIn' = sweepIn - 1
  /\ activeTimes' = [a \in DOMAIN activeTimes |-> activeTimes[a] + 1]
  /\ sent' = {}
  /\ UNCHANGED <<codesMap, fileDatas, shareFileNum, drawn, proc>>

HandleShareFile(a) ==
  \E f \in File \cup {EmptyFile} :
    \/ HandleShareFileInvalid(a, f)
    \/ HandleShareFileRefused(a, f)
    \/ \E c \in Code : HandleShareFileAccepted(a, f, c)
    \/ HandleShareFileSpins(a, f)

HandleGetFile(g) ==
  \E c \in Code : HandleGetFileMiss(g, c) \/ HandleGetFileHit(g, c)

Next ==
  \/ \E a \in Addr :
       \/ HandleHello(a) \/ HandleOther(a) \/ HandleBareRequest(a)
       \/ HandleShareFile(a) \/ HandleGetFile(a)
  \/ RemoveTimeoutConn
  \/ Tick

Spec == Init /\ [][Next]_vars
-----------------------------------------------------------------------------
SharersOn(ip) == {a \in Sharers : IpOf(a) = ip}

(* codesMap_ and fileDatas_ are kept apart and changed by two handlers and *)
(* a timer; they stay inverse to each other, so a code leads to one sharer *)
(* and erasing a sharer's code erases its own file and nobody else's.      *)
RegistryInverse ==
  /\ \A a \in Sharers : codesMap[a] \in Live /\ fileDatas[codesMap[a]].addr = a
  /\ \A c \in Live : fileDatas[c].addr \in Sharers /\ codesMap[fileDatas[c].addr] = c

(* shareFileNum_, incremented by SHARE_FILE and decremented by the sweep,  *)
(* counts exactly the shares of the host, within the quota.  The handler   *)
(* that spins has counted a share it never registers.                      *)
QuotaExact ==
  proc = "running" =>
    /\ \A ip \in DOMAIN shareFileNum :
         /\ shareFileNum[ip] = Cardinality(SharersOn(ip))
         /\ shareFileNum[ip] <= kMaxSharedPerIp
    /\ \A a \in Sharers : IpOf(a) \in DOMAIN shareFileNum

(* A share cannot outlive its sharer's silence by more than one sweep: the *)
(* sweep finds shares through activeTimes_ only, so every sharer must be   *)
(* there, and by the next sweep no entry is older than two timeouts.       *)
SharesExpire ==
  /\ Sharers \subseteq DOMAIN activeTimes
  /\ \A a \in DOMAIN activeTimes : activeTimes[a] + sweepIn <= 2 * kTimeoutSec

(* A share that has passed the quota test and is counted is registered,    *)
(* too: it finds a code unless every code is taken, and no interleaving of *)
(* shares and sweeps lets an address that shares already past the test, to *)
(* fail the assertion behind it (DiretransServer.cpp:184).                 *)
AcceptedIsRegistered ==
  /\ proc = "spinning" => Live = Code
  /\ proc # "already shares"

(* Where the quotas allow no more shares than there are codes every share  *)
(* that is accepted gets its code: the do-while of handleShareFile ends.   *)
SharesSucceed == proc \notin {"spinning", "already shares"}

(* A sharer heard of within the timeout keeps its code, and its code keeps *)
(* leading to its file, whatever the other clients and the sweep do.       *)
KeepsPromise ==
  [][\A a \in Sharers : activeTimes[a] <= kTimeoutSec =>
       /\ a \in DOMAIN codesMap'
       /\ codesMap'[a] = codesMap[a]
       /\ codesMap[a] \in DOMAIN fileDatas'
       /\ fileDatas'[codesMap[a]] = fileDatas[codesMap[a]]]_vars

(* The tables implement the abstract registry of shares. *)
Registry == INSTANCE ShareRegistry WITH
  Quota <- kMaxSharedPerIp,
  HostOf <- IpOf,
  shares <- [a \in Sharers |-> [code |-> codesMap[a], file |-> fileDatas[codesMap[a]].file]],
  replies <- sent

RegistrySpec == Registry!Spec
=============================================================================
