----------------------- MODULE DiretransServer_proofs -----------------------
(***************************************************************************)
(* Theorems about the rendezvous server, for every set of clients and      *)
(* codes, every quota and every timeout.                                   *)
(***************************************************************************)
EXTENDS DiretransServer, FiniteSetTheorems, FunctionTheorems, TLAPS

LEMMA AddrFinite == IsFiniteSet(Addr)
  BY ServerAssumption, FS_Product, FS_Subset

LEMMA AddrIp == \A a \in Addr : IpOf(a) \in Ip
  BY ServerAssumption DEF IpOf

LEMMA SharersOnFinite ==
  ASSUME TypeOK
  PROVE  \A ip : IsFiniteSet(SharersOn(ip)) /\ Cardinality(SharersOn(ip)) \in Nat
  BY AddrFinite, FS_Subset, FS_CardinalityType DEF SharersOn, TypeOK

LEMMA CodeCard == IsFiniteSet(Code) /\ Cardinality(Code) \in Nat /\ Cardinality(Code) > 1
  BY ServerAssumption, FS_CardinalityType

(* What Put and Erase do to a map. *)
LEMMA PutFacts ==
  ASSUME NEW m, NEW k, NEW v
  PROVE  /\ DOMAIN Put(m, k, v) = DOMAIN m \cup {k}
         /\ Put(m, k, v)[k] = v
         /\ \A x \in DOMAIN m : x # k => Put(m, k, v)[x] = m[x]
  BY DEF Put

LEMMA EraseFacts ==
  ASSUME NEW m, NEW keys
  PROVE  /\ DOMAIN Erase(m, keys) = DOMAIN m \ keys
         /\ \A x \in DOMAIN m \ keys : Erase(m, keys)[x] = m[x]
  BY DEF Erase, Restrict

-----------------------------------------------------------------------------
(* The inductive invariant.  QuotaExact needs TypeOK and that every        *)
(* sharer's host has an entry; TypeOK needs QuotaExact, or the sweep might *)
(* count below zero; RegistryInverse lets the sweep erase by address what  *)
(* is stored by code; SharesExpire keeps sharers within the sweep's reach. *)
IInv == TypeOK /\ RegistryInverse /\ QuotaExact /\ SharesExpire

LEMMA InitInv == Init => IInv
<1> SUFFICES ASSUME Init PROVE IInv
  OBVIOUS
<1>1. TypeOK
  BY CodeCard, FS_EmptySet, ServerAssumption DEF Init, TypeOK, Empty, Sharers, Live
<1>2. RegistryInverse /\ QuotaExact /\ SharesExpire
  BY DEF Init, RegistryInverse, QuotaExact, SharesExpire, Empty, Sharers, Live
<1> QED BY <1>1, <1>2 DEF IInv

(* A datagram from a leaves every table but activeTimes alone. *)
Contact(a) ==
  /\ Touch(a)
  /\ UNCHANGED <<codesMap, fileDatas, shareFileNum, drawn, sweepIn, proc>>

LEMMA TouchTimes ==
  ASSUME IInv, NEW a \in Addr, Touch(a), UNCHANGED sweepIn
  PROVE  /\ DOMAIN activeTimes' = DOMAIN activeTimes \cup {a}
         /\ DOMAIN activeTimes' \subseteq Addr
         /\ activeTimes' \in [DOMAIN activeTimes' -> Nat]
         /\ \A b \in DOMAIN activeTimes' : activeTimes'[b] + sweepIn' <= 2 * kTimeoutSec
<1>1. /\ activeTimes' = Put(activeTimes, a, 0)
      /\ DOMAIN activeTimes \subseteq Addr
      /\ activeTimes \in [DOMAIN activeTimes -> Nat]
      /\ sweepIn \in 0..kTimeoutSec
      /\ \A b \in DOMAIN activeTimes : activeTimes[b] + sweepIn <= 2 * kTimeoutSec
  BY DEF IInv, TypeOK, Touch, SharesExpire
<1>2. kTimeoutSec \in Nat
  BY ServerAssumption
<1> QED BY <1>1, <1>2 DEF Put

LEMMA ContactInv ==
  ASSUME IInv, NEW a \in Addr, Contact(a), sent' \subseteq Datagram
  PROVE  IInv'
<1>1. TypeOK' /\ SharesExpire'
  BY TouchTimes DEF IInv, TypeOK, SharesExpire, Contact, Sharers, Live
<1>2. RegistryInverse'
  BY DEF IInv, RegistryInverse, Contact, Sharers, Live
<1>3. QuotaExact'
  BY DEF IInv, QuotaExact, Contact, Sharers, SharersOn
<1> QED BY <1>1, <1>2, <1>3 DEF IInv

(* The codes drawn stay short of a whole shuffle. *)
LEMMA GetCodeDrawn ==
  ASSUME TypeOK, NEW c \in Code, GetCode(c)
  PROVE  drawn' \subseteq Code /\ Cardinality(drawn') < Cardinality(Code)
<1>1. drawn \subseteq Code /\ Live \subseteq Code
  BY DEF TypeOK
<1>2. \A S \in SUBSET Code : /\ IsFiniteSet(S) /\ Cardinality(S) \in Nat
                             /\ Cardinality(S \cup {c}) <= Cardinality(S) + 1
  BY CodeCard, FS_Subset, FS_CardinalityType, FS_AddElement
<1>3. CASE DrawFromShuffle(c)
  <2>1. PICK skipped \in SUBSET (Live \ drawn) :
          /\ Cardinality(drawn \cup skipped) < LastIndex
          /\ drawn' = drawn \cup skipped \cup {c}
    BY <1>3 DEF DrawFromShuffle
  <2>2. drawn \cup skipped \in SUBSET Code
    BY <1>1
  <2> QED BY <2>1, <2>2, <1>2, CodeCard DEF LastIndex
<1>4. CASE DrawAfterReshuffle(c)
  <2>1. PICK skipped \in SUBSET Live :
          Cardinality(skipped) < LastIndex /\ drawn' = skipped \cup {c}
    BY <1>4 DEF DrawAfterReshuffle
  <2>2. skipped \in SUBSET Code
    BY <1>1
  <2> QED BY <2>1, <2>2, <1>2, CodeCard DEF LastIndex
<1> QED BY <1>3, <1>4 DEF GetCode

(* Below the quota no sharer slips past the duplicate test: the address of *)
(* a sharer has a counted host.                                            *)
LEMMA NotSharing ==
  ASSUME IInv, proc = "running", NEW a \in Addr, ~QuotaRefuses(a)
  PROVE  /\ a \notin Sharers
         /\ Cardinality(SharersOn(IpOf(a))) < kMaxSharedPerIp
<1>1. a \notin Sharers
  BY DEF IInv, QuotaExact, QuotaRefuses
<1>2. CASE IpOf(a) \in DOMAIN shareFileNum
  BY <1>2, ServerAssumption, SharersOnFinite DEF IInv, QuotaExact, QuotaRefuses
<1>3. CASE IpOf(a) \notin DOMAIN shareFileNum
  <2>1. SharersOn(IpOf(a)) = {}
    BY <1>3 DEF IInv, QuotaExact, SharersOn
  <2> QED BY <1>1, <2>1, FS_EmptySet, ServerAssumption
<1> QED BY <1>1, <1>2, <1>3

(* Counting a share keeps the table of counts well typed. *)
LEMMA CountShareType ==
  ASSUME TypeOK, NEW a \in Addr, CountShare(a)
  PROVE  /\ DOMAIN shareFileNum' = DOMAIN shareFileNum \cup {IpOf(a)}
         /\ DOMAIN shareFileNum' \subseteq Ip
         /\ shareFileNum' \in [DOMAIN shareFileNum' -> Nat]
<1>1. IpOf(a) \in Ip
  BY AddrIp
<1> QED BY <1>1 DEF TypeOK, CountShare, Put

LEMMA AcceptedInv ==
  ASSUME IInv, NEW a \in Addr, NEW f \in File \cup {EmptyFile}, NEW c \in Code,
         HandleShareFileAccepted(a, f, c)
  PROVE  IInv'
<1> USE DEF HandleShareFileAccepted
<1>1. /\ proc = "running" /\ f \in File
      /\ a \notin Sharers /\ c \notin Live
      /\ Cardinality(SharersOn(IpOf(a))) < kMaxSharedPerIp
  BY NotSharing DEF GetCode, FreshCode
<1>2. proc' = "running" /\ UNCHANGED sweepIn
  BY <1>1 DEF AssertNotSharing
<1>3. /\ Sharers' = Sharers \cup {a}
      /\ codesMap'[a] = c
      /\ \A b \in Sharers : codesMap'[b] = codesMap[b]
      /\ codesMap' \in [Sharers' -> Code]
  BY <1>1 DEF Register, Put, Sharers, IInv, TypeOK
<1>4. /\ Live' = Live \cup {c}
      /\ fileDatas'[c] = [file |-> f, addr |-> a]
      /\ \A d \in Live : fileDatas'[d] = fileDatas[d]
      /\ fileDatas' \in [Live' -> [file : File, addr : Addr]]
  BY <1>1 DEF Register, Put, Live, IInv, TypeOK
<1>5. TypeOK'
  <2>1. drawn' \subseteq Code /\ Cardinality(drawn') < Cardinality(Code)
    BY GetCodeDrawn DEF IInv
  <2>2. /\ DOMAIN activeTimes' \subseteq Addr
        /\ activeTimes' \in [DOMAIN activeTimes' -> Nat]
    BY TouchTimes
  <2>3. /\ DOMAIN shareFileNum' \subseteq Ip
        /\ shareFileNum' \in [DOMAIN shareFileNum' -> Nat]
    BY CountShareType DEF IInv
  <2>4. sent' \subseteq Datagram
    BY DEF Datagram
  <2>5. Sharers' \subseteq Addr /\ Live' \subseteq Code
    BY <1>3, <1>4 DEF IInv, TypeOK
  <2> QED BY <1>2, <1>3, <1>4, <2>1, <2>2, <2>3, <2>4, <2>5 DEF IInv, TypeOK
<1>6. RegistryInverse'
  BY <1>1, <1>3, <1>4 DEF RegistryInverse, IInv
<1>7. QuotaExact'
  <2> DEFINE h == IpOf(a)
  <2>1. \A ip : SharersOn(ip)' = IF ip = h THEN SharersOn(ip) \cup {a} ELSE SharersOn(ip)
    BY <1>3 DEF SharersOn
  <2>2. Cardinality(SharersOn(h)') = Cardinality(SharersOn(h)) + 1
    <3>1. a \notin SharersOn(h) /\ SharersOn(h)' = SharersOn(h) \cup {a}
      BY <1>1, <2>1 DEF SharersOn
    <3>2. IsFiniteSet(SharersOn(h))
      BY SharersOnFinite DEF IInv
    <3> HIDE DEF h
    <3> QED BY <3>1, <3>2, FS_AddElement
  <2>3. DOMAIN shareFileNum' = DOMAIN shareFileNum \cup {h}
    BY CountShareType DEF IInv
  <2>4. \A ip \in DOMAIN shareFileNum : ip # h => shareFileNum'[ip] = shareFileNum[ip]
    BY DEF CountShare, Put
  <2>5. shareFileNum'[h] = Cardinality(SharersOn(h)) + 1
    <3>1. CASE h \in DOMAIN shareFileNum
      BY <3>1, <1>1 DEF CountShare, Put, IInv, QuotaExact
    <3>2. CASE h \notin DOMAIN shareFileNum
      <4>1. SharersOn(h) = {}
        BY <3>2, <1>1 DEF IInv, QuotaExact, SharersOn
      <4> QED BY <3>2, <4>1, FS_EmptySet DEF CountShare, Put
    <3> QED BY <3>1, <3>2
  <2>6. Cardinality(SharersOn(h)) + 1 <= kMaxSharedPerIp
    BY <1>1, SharersOnFinite, ServerAssumption DEF IInv
  <2>7. \A ip \in DOMAIN shareFileNum' :
          /\ shareFileNum'[ip] = Cardinality(SharersOn(ip)')
          /\ shareFileNum'[ip] <= kMaxSharedPerIp
    BY <1>1, <2>1, <2>2, <2>3, <2>4, <2>5, <2>6 DEF IInv, QuotaExact
  <2>8. \A b \in Sharers' : IpOf(b) \in DOMAIN shareFileNum'
    BY <1>1, <1>3, <2>3 DEF IInv, QuotaExact
  <2> HIDE DEF h
  <2> QED BY <2>7, <2>8 DEF QuotaExact
<1>8. SharesExpire'
  BY <1>2, <1>3, TouchTimes DEF IInv, SharesExpire
<1> QED BY <1>5, <1>6, <1>7, <1>8 DEF IInv

LEMMA SpinsInv ==
  ASSUME IInv, NEW a \in Addr, NEW f \in File \cup {EmptyFile}, HandleShareFileSpins(a, f)
  PROVE  IInv'
<1> USE DEF HandleShareFileSpins
<1>1. TypeOK'
  BY TouchTimes, CountShareType DEF IInv, TypeOK, Stops, Sharers, Live
<1>2. RegistryInverse' /\ QuotaExact' /\ SharesExpire'
  BY TouchTimes DEF IInv, RegistryInverse, QuotaExact, SharesExpire, Sharers, Live
<1> QED BY <1>1, <1>2 DEF IInv

LEMMA BareInv ==
  ASSUME IInv, NEW a \in Addr, HandleBareRequest(a)
  PROVE  IInv'
<1> USE DEF HandleBareRequest
<1>1. TypeOK'
  BY TouchTimes DEF IInv, TypeOK, Stops, Sharers, Live
<1>2. RegistryInverse' /\ QuotaExact' /\ SharesExpire'
  BY TouchTimes DEF IInv, RegistryInverse, QuotaExact, SharesExpire, Sharers, Live
<1> QED BY <1>1, <1>2 DEF IInv

LEMMA SweepInv ==
  ASSUME IInv, RemoveTimeoutConn
  PROVE  IInv'
<1> USE DEF RemoveTimeoutConn
<1>1. /\ Sharers' = Sharers \ Dropped
      /\ \A a \in Sharers' : codesMap'[a] = codesMap[a]
      /\ codesMap' \in [Sharers' -> Code]
  BY DEF Erase, Restrict, Sharers, IInv, TypeOK
<1>2. /\ Live' = Live \ {codesMap[a] : a \in Dropped}
      /\ \A c \in Live' : fileDatas'[c] = fileDatas[c]
      /\ fileDatas' \in [Live' -> [file : File, addr : Addr]]
  BY DEF DropCodes, Erase, Restrict, Live, IInv, TypeOK
<1>3. /\ DOMAIN activeTimes' = DOMAIN activeTimes \ TimedOut
      /\ \A a \in DOMAIN activeTimes' : activeTimes'[a] = activeTimes[a]
      /\ activeTimes' \in [DOMAIN activeTimes' -> Nat]
  BY DEF Erase, Restrict, IInv, TypeOK
<1> DEFINE Gone(ip) == {a \in Dropped : IpOf(a) = ip}
<1>4. \A ip : SharersOn(ip)' = SharersOn(ip) \ Gone(ip)
  BY <1>1 DEF SharersOn, Dropped
<1>5. \A ip : /\ Cardinality(Gone(ip)) \in Nat
              /\ Cardinality(SharersOn(ip)') = Cardinality(SharersOn(ip)) - Cardinality(Gone(ip))
              /\ Cardinality(SharersOn(ip)') \in Nat
  <2> TAKE ip
  <2>1. Gone(ip) \subseteq SharersOn(ip)
    BY DEF SharersOn, Dropped
  <2>2. IsFiniteSet(SharersOn(ip)) /\ Cardinality(SharersOn(ip)) \in Nat
    BY SharersOnFinite DEF IInv
  <2>3. IsFiniteSet(Gone(ip)) /\ Cardinality(Gone(ip)) \in Nat
    BY <2>1, <2>2, FS_Subset, FS_CardinalityType
  <2>4. SharersOn(ip) \cap Gone(ip) = Gone(ip)
    BY <2>1
  <2>5. /\ IsFiniteSet(SharersOn(ip) \ Gone(ip))
        /\ Cardinality(SharersOn(ip) \ Gone(ip)) =
             Cardinality(SharersOn(ip)) - Cardinality(SharersOn(ip) \cap Gone(ip))
    BY <2>2, FS_Difference
  <2>6. Cardinality(SharersOn(ip) \ Gone(ip)) \in Nat
    BY <2>5, FS_CardinalityType
  <2> HIDE DEF Gone
  <2> QED BY <1>4, <2>3, <2>4, <2>5, <2>6
<1>6. /\ DOMAIN shareFileNum' = DOMAIN shareFileNum
      /\ \A ip \in DOMAIN shareFileNum :
           shareFileNum'[ip] = shareFileNum[ip] - Cardinality(Gone(ip))
      /\ shareFileNum' = [ip \in DOMAIN shareFileNum |->
                            shareFileNum[ip] - Cardinality(Gone(ip))]
  BY DEF DropCounts
<1> HIDE DEF Gone
<1>7. /\ \A ip \in DOMAIN shareFileNum : /\ shareFileNum[ip] = Cardinality(SharersOn(ip))
                                         /\ shareFileNum[ip] <= kMaxSharedPerIp
      /\ \A a \in Sharers : IpOf(a) \in DOMAIN shareFileNum
      /\ \A ip : Cardinality(SharersOn(ip)) \in Nat
      /\ kMaxSharedPerIp \in Nat
  BY SharersOnFinite, ServerAssumption DEF IInv, QuotaExact
<1>8. \A ip \in DOMAIN shareFileNum' :
        /\ shareFileNum'[ip] = Cardinality(SharersOn(ip)')
        /\ shareFileNum'[ip] <= kMaxSharedPerIp
        /\ shareFileNum'[ip] \in Nat
  <2> TAKE ip \in DOMAIN shareFileNum'
  <2>1. Cardinality(SharersOn(ip)') = Cardinality(SharersOn(ip)) - Cardinality(Gone(ip))
    BY <1>5
  <2>2. Cardinality(SharersOn(ip)') \in Nat /\ Cardinality(Gone(ip)) \in Nat
    BY <1>5
  <2>3. Cardinality(SharersOn(ip)) \in Nat
    BY <1>7
  <2>4. /\ shareFileNum'[ip] = shareFileNum[ip] - Cardinality(Gone(ip))
        /\ shareFileNum[ip] = Cardinality(SharersOn(ip))
        /\ shareFileNum[ip] <= kMaxSharedPerIp
    BY <1>6, <1>7
  <2> QED BY <2>1, <2>2, <2>3, <2>4, <1>7
<1>9. QuotaExact'
  BY <1>1, <1>6, <1>7, <1>8 DEF QuotaExact
<1>10. TypeOK'
  <2>1. /\ DOMAIN shareFileNum' \subseteq Ip
        /\ shareFileNum' \in [DOMAIN shareFileNum' -> Nat]
    BY <1>6, <1>8 DEF IInv, TypeOK
  <2>2. sweepIn' \in 0..kTimeoutSec
    BY ServerAssumption
  <2>3. Sharers' \subseteq Addr /\ Live' \subseteq Code /\ DOMAIN activeTimes' \subseteq Addr
    BY <1>1, <1>2, <1>3 DEF IInv, TypeOK
  <2> QED BY <1>1, <1>2, <1>3, <2>1, <2>2, <2>3 DEF IInv, TypeOK
<1>11. RegistryInverse'
  <2>1. ASSUME NEW a \in Sharers'
        PROVE  codesMap'[a] \in Live' /\ fileDatas'[codesMap'[a]].addr = a
    <3>1. a \in Sharers /\ a \notin Dropped /\ codesMap'[a] = codesMap[a]
      BY <1>1
    <3>2. codesMap[a] \in Live /\ fileDatas[codesMap[a]].addr = a
      BY <3>1 DEF IInv, RegistryInverse
    <3>3. \A b \in Dropped : fileDatas[codesMap[b]].addr = b
      BY DEF IInv, RegistryInverse, Dropped
    <3>4. codesMap[a] \in Live'
      BY <1>2, <3>1, <3>2, <3>3
    <3> QED BY <1>2, <3>1, <3>2, <3>4
  <2>2. ASSUME NEW c \in Live'
        PROVE  fileDatas'[c].addr \in Sharers' /\ codesMap'[fileDatas'[c].addr] = c
    <3>1. c \in Live /\ c \notin {codesMap[a] : a \in Dropped} /\ fileDatas'[c] = fileDatas[c]
      BY <1>2
    <3>2. fileDatas[c].addr \in Sharers /\ codesMap[fileDatas[c].addr] = c
      BY <3>1 DEF IInv, RegistryInverse
    <3>3. fileDatas[c].addr \notin Dropped
      BY <3>1, <3>2
    <3> QED BY <1>1, <3>1, <3>2, <3>3
  <2> QED BY <2>1, <2>2 DEF RegistryInverse
<1>12. SharesExpire'
  <2>1. Sharers' \subseteq DOMAIN activeTimes'
    BY <1>1, <1>3 DEF IInv, SharesExpire, Dropped
  <2>2. \A a \in DOMAIN activeTimes' : activeTimes'[a] + sweepIn' <= 2 * kTimeoutSec
    BY <1>3, ServerAssumption DEF IInv, TypeOK, TimedOut
  <2> QED BY <2>1, <2>2 DEF SharesExpire
<1> QED BY <1>9, <1>10, <1>11, <1>12 DEF IInv

LEMMA TickInv ==
  ASSUME IInv, Tick
  PROVE  IInv'
<1> USE DEF Tick
<1>1. TypeOK'
  BY ServerAssumption DEF IInv, TypeOK, Sharers, Live
<1>2. RegistryInverse' /\ QuotaExact'
  BY DEF IInv, RegistryInverse, QuotaExact, Sharers, Live, SharersOn
<1>3. SharesExpire'
  BY ServerAssumption DEF IInv, TypeOK, SharesExpire, Sharers
<1> QED BY <1>1, <1>2, <1>3 DEF IInv

LEMMA NextInv == IInv /\ [Next]_vars => IInv'
<1> SUFFICES ASSUME IInv, [Next]_vars PROVE IInv'
  OBVIOUS
<1>1. ASSUME NEW a \in Addr, HandleHello(a) \/ HandleOther(a) PROVE IInv'
  BY <1>1, ContactInv DEF HandleHello, HandleOther, Contact, Datagram
<1>2. ASSUME NEW a \in Addr, HandleShareFile(a) PROVE IInv'
  <2> PICK f \in File \cup {EmptyFile} :
        \/ HandleShareFileInvalid(a, f)
        \/ HandleShareFileRefused(a, f)
        \/ \E c \in Code : HandleShareFileAccepted(a, f, c)
        \/ HandleShareFileSpins(a, f)
    BY <1>2 DEF HandleShareFile
  <2>1. CASE HandleShareFileInvalid(a, f)
    BY <2>1, ContactInv DEF HandleShareFileInvalid, Contact, Datagram
  <2>2. CASE HandleShareFileRefused(a, f)
    BY <2>2, ContactInv DEF HandleShareFileRefused, Contact, Datagram
  <2>3. CASE \E c \in Code : HandleShareFileAccepted(a, f, c)
    BY <2>3, AcceptedInv
  <2>4. CASE HandleShareFileSpins(a, f)
    BY <2>4, SpinsInv
  <2> QED BY <2>1, <2>2, <2>3, <2>4
<1>3. ASSUME NEW g \in Addr, HandleGetFile(g) PROVE IInv'
  <2> PICK c \in Code : HandleGetFileMiss(g, c) \/ HandleGetFileHit(g, c)
    BY <1>3 DEF HandleGetFile
  <2>1. CASE HandleGetFileMiss(g, c)
    BY <2>1, ContactInv DEF HandleGetFileMiss, Contact, Datagram
  <2>2. CASE HandleGetFileHit(g, c)
    <3>1. fileDatas[c].file \in File /\ fileDatas[c].addr \in Addr
      BY <2>2 DEF HandleGetFileHit, IInv, TypeOK
    <3>2. sent' \subseteq Datagram
      BY <2>2, <3>1 DEF HandleGetFileHit, Introduction, Datagram
    <3> QED BY <2>2, <3>2, ContactInv DEF HandleGetFileHit, Contact
  <2> QED BY <2>1, <2>2
<1>4. CASE RemoveTimeoutConn
  BY <1>4, SweepInv
<1>5. CASE Tick
  BY <1>5, TickInv
<1>6. CASE UNCHANGED vars
  BY <1>6 DEF vars, IInv, TypeOK, RegistryInverse, QuotaExact, SharesExpire,
              Sharers, Live, SharersOn
<1>7. ASSUME NEW a \in Addr, HandleBareRequest(a) PROVE IInv'
  BY <1>7, BareInv
<1> QED BY <1>1, <1>2, <1>3, <1>4, <1>5, <1>6, <1>7 DEF Next

LEMMA Inductive == Spec => []IInv
  BY InitInv, NextInv, PTL DEF Spec

-----------------------------------------------------------------------------
(* Every table keeps its type; in particular no count drops below zero and *)
(* RandomCode never gives out a whole shuffle.                             *)
THEOREM TypeCorrect == Spec => []TypeOK
<1>1. IInv => TypeOK
  BY DEF IInv
<1> QED BY <1>1, Inductive, PTL

(* codesMap_ and fileDatas_ stay inverse to each other. *)
THEOREM RegistryConsistent == Spec => []RegistryInverse
<1>1. IInv => RegistryInverse
  BY DEF IInv
<1> QED BY <1>1, Inductive, PTL

(* shareFileNum_ counts the shares of each host, within the quota. *)
THEOREM QuotaHolds == Spec => []QuotaExact
<1>1. IInv => QuotaExact
  BY DEF IInv
<1> QED BY <1>1, Inductive, PTL

(* Shares of silent clients are gone after two timeouts at the latest. *)
THEOREM ExpiryHolds == Spec => []SharesExpire
<1>1. IInv => SharesExpire
  BY DEF IInv
<1> QED BY <1>1, Inductive, PTL

-----------------------------------------------------------------------------
(* A host below its quota leaves one of the |Ip| * kMaxSharedPerIp slots   *)
(* free, so the live codes, one per share, are fewer than the slots.       *)
LEMMA CodeLeft ==
  ASSUME IInv, proc = "running", NEW a \in Addr, ~QuotaRefuses(a),
         Cardinality(Ip) * kMaxSharedPerIp <= Cardinality(Code)
  PROVE  Live # Code
<1> DEFINE max == kMaxSharedPerIp
           On(ip) == SharersOn(ip)
           slots == Ip \X (1..max)
           free == <<IpOf(a), max>>
           Place(ip) == CHOOSE g : g \in Injection(On(ip), 1..Cardinality(On(ip)))
           Sharer(c) == fileDatas[c].addr
           slotOf == [c \in Code |-> <<IpOf(Sharer(c)), Place(IpOf(Sharer(c)))[Sharer(c)]>>]
<1> SUFFICES ASSUME Live = Code PROVE FALSE
  OBVIOUS
<1>1. \A ip : /\ IsFiniteSet(On(ip)) /\ Cardinality(On(ip)) \in Nat
              /\ Place(ip) \in Injection(On(ip), 1..Cardinality(On(ip)))
  <2> TAKE ip
  <2>1. IsFiniteSet(On(ip)) /\ Cardinality(On(ip)) \in Nat
    BY SharersOnFinite DEF IInv
  <2>2. ExistsBijection(1..Cardinality(On(ip)), On(ip))
    BY <2>1, FS_CardinalityType
  <2>3. ExistsBijection(On(ip), 1..Cardinality(On(ip)))
    BY <2>2, Fun_ExistsBijSymmetric
  <2>4. \E g : g \in Injection(On(ip), 1..Cardinality(On(ip)))
    BY <2>3 DEF ExistsBijection, Bijection
  <2> QED BY <2>1, <2>4
<1>2. \A c \in Code : /\ Sharer(c) \in On(IpOf(Sharer(c)))
                      /\ Sharer(c) \in Addr
                      /\ IpOf(Sharer(c)) \in Ip
                      /\ codesMap[Sharer(c)] = c
  BY AddrIp DEF IInv, RegistryInverse, SharersOn, TypeOK
<1>3. \A ip \in Ip : Cardinality(On(ip)) <= max
  <2> TAKE ip \in Ip
  <2>1. CASE ip \in DOMAIN shareFileNum
    BY <2>1 DEF IInv, QuotaExact
  <2>2. CASE ip \notin DOMAIN shareFileNum
    <3>1. On(ip) = {}
      BY <2>2 DEF IInv, QuotaExact, SharersOn
    <3> QED BY <3>1, FS_EmptySet, ServerAssumption
  <2> QED BY <2>1, <2>2
<1>4. Cardinality(On(IpOf(a))) < max
  BY NotSharing
<1>5. max \in Nat \ {0} /\ IpOf(a) \in Ip
  BY ServerAssumption, AddrIp
<1> HIDE DEF Place, On, Sharer, max
<1>6. \A c \in Code : slotOf[c] \in slots \ {free}
  <2> TAKE c \in Code
  <2> DEFINE ip == IpOf(Sharer(c))
  <2>1. Place(ip)[Sharer(c)] \in 1..Cardinality(On(ip))
    BY <1>1, <1>2 DEF Injection
  <2>2. Cardinality(On(ip)) \in Nat /\ Cardinality(On(ip)) <= max /\ ip \in Ip
    BY <1>1, <1>2, <1>3
  <2>3. slotOf[c] = <<ip, Place(ip)[Sharer(c)]>>
    OBVIOUS
  <2> HIDE DEF ip
  <2>4. Place(ip)[Sharer(c)] \in 1..max
    BY <2>1, <2>2, <1>5
  <2>5. slotOf[c] # free
    BY <2>1, <2>2, <2>3, <1>4, <1>5
  <2> QED BY <2>2, <2>3, <2>4, <2>5
<1>7. \A c, d \in Code : slotOf[c] = slotOf[d] => c = d
  <2> TAKE c, d \in Code
  <2> HAVE slotOf[c] = slotOf[d]
  <2>1. IpOf(Sharer(c)) = IpOf(Sharer(d))
    OBVIOUS
  <2>2. Place(IpOf(Sharer(c)))[Sharer(c)] = Place(IpOf(Sharer(c)))[Sharer(d)]
    BY <2>1
  <2>3. Sharer(c) = Sharer(d)
    BY <1>1, <1>2, <2>1, <2>2 DEF Injection, IsInjective
  <2> QED BY <1>2, <2>3
<1>8. /\ IsFiniteSet(slots \ {free})
      /\ Cardinality(slots \ {free}) < Cardinality(Code)
  <2>1. IsFiniteSet(1..max) /\ Cardinality(1..max) = max
    BY <1>5, FS_Interval
  <2>2. IsFiniteSet(slots) /\ Cardinality(slots) = Cardinality(Ip) * max
    BY <2>1, FS_Product, ServerAssumption
  <2>3. free \in slots
    BY <1>5
  <2>4. /\ IsFiniteSet(slots \ {free})
        /\ Cardinality(slots \ {free}) = Cardinality(slots) - 1
    BY <2>2, <2>3, FS_RemoveElement
  <2>5. Cardinality(slots) \in Nat /\ Cardinality(slots) <= Cardinality(Code)
    BY <2>2, FS_CardinalityType DEF max
  <2> QED BY <2>4, <2>5, CodeCard
<1>9. \E c, d \in Code : c # d /\ slotOf[c] = slotOf[d]
  <2> HIDE DEF slots, free
  <2>1. slotOf \in [Code -> slots \ {free}]
    BY <1>6
  <2> HIDE DEF slotOf
  <2> QED BY <2>1, <1>8, CodeCard, FS_PigeonHole
<1> QED BY <1>7, <1>9

(* Only an accepted share can get the server to spin or to the assertion   *)
(* behind the code search; nothing else it does leads there.               *)
LEMMA OnlySharesFail ==
  ASSUME [Next]_vars, \A a \in Addr : ~HandleShareFile(a)
  PROVE  /\ proc' \in {proc, "no body"}
         /\ proc # "running" => UNCHANGED <<proc, fileDatas>>
<1>1. ASSUME NEW a \in Addr,
             HandleHello(a) \/ HandleOther(a) \/ HandleBareRequest(a) \/ HandleGetFile(a)
      PROVE  proc = "running" /\ proc' \in {proc, "no body"}
  BY <1>1 DEF HandleHello, HandleOther, HandleBareRequest, HandleGetFile, HandleGetFileMiss,
              HandleGetFileHit
<1>2. CASE RemoveTimeoutConn \/ Tick
  BY <1>2 DEF RemoveTimeoutConn, Tick
<1>3. CASE UNCHANGED vars
  BY <1>3 DEF vars
<1> QED BY <1>1, <1>2, <1>3 DEF Next

(* An accepted share is registered, or every code is live.                 *)
LEMMA ShareEnds ==
  ASSUME IInv, NEW a \in Addr, HandleShareFile(a)
  PROVE  /\ proc = "running"
         /\ \/ proc' = "running"
            \/ proc' = "spinning" /\ ~QuotaRefuses(a) /\ Live = Code /\ Live' = Live
<1>1. ASSUME NEW f \in File \cup {EmptyFile}, HandleShareFileSpins(a, f)
      PROVE  /\ proc = "running" /\ proc' = "spinning" /\ ~QuotaRefuses(a)
             /\ Live = Code /\ Live' = Live
  BY <1>1 DEF HandleShareFileSpins, FreshCode, Live, IInv, TypeOK
<1>2. ASSUME NEW f \in File \cup {EmptyFile}, NEW c \in Code, HandleShareFileAccepted(a, f, c)
      PROVE  proc = "running" /\ proc' = "running"
  <2>1. a \notin Sharers
    BY <1>2, NotSharing DEF HandleShareFileAccepted
  <2> QED BY <1>2, <2>1 DEF HandleShareFileAccepted, AssertNotSharing
<1> QED BY <1>1, <1>2 DEF HandleShareFile, HandleShareFileInvalid, HandleShareFileRefused

(* Enough codes for every quota: every accepted share gets its code,       *)
(* whatever the clients do.  With the code's constants, 100000 codes serve *)
(* 10000 hosts.                                                            *)
THEOREM CodesSuffice ==
  ASSUME Cardinality(Ip) * kMaxSharedPerIp <= Cardinality(Code)
  PROVE  Spec => []SharesSucceed
<1>1. Init => SharesSucceed
  BY DEF Init, SharesSucceed
<1>2. IInv /\ SharesSucceed /\ [Next]_vars => SharesSucceed'
  <2> SUFFICES ASSUME IInv, SharesSucceed, [Next]_vars PROVE SharesSucceed'
    OBVIOUS
  <2> USE DEF SharesSucceed
  <2>1. ASSUME NEW a \in Addr, HandleShareFile(a) PROVE SharesSucceed'
    BY <2>1, ShareEnds, CodeLeft
  <2>2. CASE \A a \in Addr : ~HandleShareFile(a)
    BY <2>2, OnlySharesFail
  <2> QED BY <2>1, <2>2
<1> QED BY <1>1, <1>2, Inductive, PTL DEF Spec

-----------------------------------------------------------------------------
(* A share that has been counted is registered, too, unless every code is  *)
(* live: the assertion that its address shares nothing yet holds.          *)
THEOREM AcceptedRegisters == Spec => []AcceptedIsRegistered
<1>1. Init => AcceptedIsRegistered
  BY DEF Init, AcceptedIsRegistered
<1>2. IInv /\ AcceptedIsRegistered /\ [Next]_vars => AcceptedIsRegistered'
  <2> SUFFICES ASSUME IInv, AcceptedIsRegistered, [Next]_vars PROVE AcceptedIsRegistered'
    OBVIOUS
  <2> USE DEF AcceptedIsRegistered
  <2>1. ASSUME NEW a \in Addr, HandleShareFile(a) PROVE AcceptedIsRegistered'
    BY <2>1, ShareEnds
  <2>2. CASE \A a \in Addr : ~HandleShareFile(a)
    BY <2>2, OnlySharesFail DEF Live
  <2> QED BY <2>1, <2>2
<1> QED BY <1>1, <1>2, Inductive, PTL DEF Spec

-----------------------------------------------------------------------------
(* A step keeps the share of every sharer heard of within the timeout: an  *)
(* accepted share takes a code that is not live, and the sweep erases the  *)
(* codes of timed-out sharers, which by RegistryInverse are no one else's. *)
KeptShares ==
  \A a \in Sharers : activeTimes[a] <= kTimeoutSec =>
    /\ a \in DOMAIN codesMap'
    /\ codesMap'[a] = codesMap[a]
    /\ codesMap[a] \in DOMAIN fileDatas'
    /\ fileDatas'[codesMap[a]] = fileDatas[codesMap[a]]

LEMMA StepKeeps == IInv /\ [Next]_vars => KeptShares
<1> SUFFICES ASSUME IInv, [Next]_vars, NEW a \in Sharers, activeTimes[a] <= kTimeoutSec
             PROVE  /\ a \in DOMAIN codesMap'
                    /\ codesMap'[a] = codesMap[a]
                    /\ codesMap[a] \in DOMAIN fileDatas'
                    /\ fileDatas'[codesMap[a]] = fileDatas[codesMap[a]]
  BY DEF KeptShares
<1> DEFINE Kept == /\ a \in DOMAIN codesMap'
                   /\ codesMap'[a] = codesMap[a]
                   /\ codesMap[a] \in DOMAIN fileDatas'
                   /\ fileDatas'[codesMap[a]] = fileDatas[codesMap[a]]
<1>1. codesMap[a] \in Live /\ fileDatas[codesMap[a]].addr = a
  BY DEF IInv, RegistryInverse
<1>2. CASE UNCHANGED <<codesMap, fileDatas>>
  BY <1>1, <1>2 DEF Sharers, Live
<1>3. ASSUME NEW b \in Addr, NEW f \in File \cup {EmptyFile}, NEW c \in Code,
             HandleShareFileAccepted(b, f, c)
      PROVE  Kept
  <2>1. b \notin Sharers /\ c \notin Live
    BY <1>3, NotSharing DEF HandleShareFileAccepted, GetCode, FreshCode
  <2> QED BY <1>1, <1>3, <2>1 DEF HandleShareFileAccepted, Register, Put, Sharers, Live
<1>4. CASE RemoveTimeoutConn
  <2>1. a \notin Dropped
    <3>1. activeTimes[a] \in Nat
      BY DEF IInv, SharesExpire, TypeOK
    <3> QED BY <3>1, ServerAssumption DEF Dropped, TimedOut
  <2>2. \A b \in Dropped : fileDatas[codesMap[b]].addr = b
    BY DEF Dropped, IInv, RegistryInverse
  <2>3. codesMap[a] \notin {codesMap[b] : b \in Dropped}
    BY <1>1, <2>1, <2>2
  <2>4. a \in DOMAIN codesMap' /\ codesMap'[a] = codesMap[a]
    BY <1>4, <2>1 DEF RemoveTimeoutConn, Erase, Restrict, Sharers
  <2>5. codesMap[a] \in DOMAIN fileDatas' /\ fileDatas'[codesMap[a]] = fileDatas[codesMap[a]]
    BY <1>1, <1>4, <2>3 DEF RemoveTimeoutConn, DropCodes, Erase, Restrict, Live
  <2> QED BY <2>4, <2>5
<1>5. ASSUME NEW b \in Addr, HandleShareFile(b) PROVE Kept
  BY <1>2, <1>3, <1>5 DEF HandleShareFile, HandleShareFileInvalid, HandleShareFileRefused,
                          HandleShareFileSpins
<1>6. ASSUME NEW b \in Addr,
             HandleHello(b) \/ HandleOther(b) \/ HandleBareRequest(b) \/ HandleGetFile(b)
      PROVE  Kept
  BY <1>2, <1>6 DEF HandleHello, HandleOther, HandleBareRequest, HandleGetFile, HandleGetFileMiss,
                    HandleGetFileHit
<1>7. CASE Tick
  BY <1>2, <1>7 DEF Tick
<1>8. CASE UNCHANGED vars
  BY <1>2, <1>8 DEF vars
<1> QED BY <1>4, <1>5, <1>6, <1>7, <1>8 DEF Next

(* The server keeps its promise to every sharer that keeps in touch. *)
THEOREM PromiseKept == Spec => KeepsPromise
<1>1. IInv /\ [Next]_vars =>
        [\A a \in Sharers : activeTimes[a] <= kTimeoutSec =>
           /\ a \in DOMAIN codesMap'
           /\ codesMap'[a] = codesMap[a]
           /\ codesMap[a] \in DOMAIN fileDatas'
           /\ fileDatas'[codesMap[a]] = fileDatas[codesMap[a]]]_vars
  BY StepKeeps DEF KeptShares
<1> QED BY <1>1, Inductive, PTL DEF Spec, KeepsPromise

-----------------------------------------------------------------------------
(* Refinement: the share of an address is read off both tables.            *)
Shares == [a \in Sharers |-> [code |-> codesMap[a], file |-> fileDatas[codesMap[a]].file]]

LEMMA TakenAreLive ==
  ASSUME RegistryInverse
  PROVE  {Shares[a].code : a \in Sharers} = Live
  BY DEF RegistryInverse, Shares

LEMMA SharesUnchanged ==
  ASSUME UNCHANGED <<codesMap, fileDatas>>
  PROVE  Shares' = Shares
  BY DEF Shares, Sharers

(* The instance has operators of its own for the standard ones. *)
LEMMA SameOperators ==
  /\ \A S : Registry!Cardinality(S) = Cardinality(S)
  /\ \A f, S : Registry!Restrict(f, S) = Restrict(f, S)
<1>1. ASSUME NEW S PROVE Registry!Cardinality(S) = Cardinality(S)
  BY DEF Registry!Cardinality, Cardinality
<1>2. ASSUME NEW f, NEW S PROVE Registry!Restrict(f, S) = Restrict(f, S)
  BY DEF Registry!Restrict, Restrict
<1> QED BY <1>1, <1>2

LEMMA StepImplements == IInv /\ IInv' /\ [Next]_vars => [Registry!Next]_(Registry!vars)
<1> SUFFICES ASSUME IInv, IInv', [Next]_vars, ~UNCHANGED Registry!vars
             PROVE  Registry!Next
  OBVIOUS
<1>1. Registry!Sharers = Sharers
  BY DEF Registry!Sharers
<1>2. Registry!TakenCodes = Live
  BY <1>1, TakenAreLive DEF Registry!TakenCodes, Shares, IInv
<1>3. \A ip : Registry!SharersOn(ip) = SharersOn(ip)
  BY <1>1 DEF Registry!SharersOn, SharersOn
<1>4. ASSUME NEW a \in Addr, HandleHello(a) PROVE Registry!Next
  <2>1. Registry!Greet(a)
    BY <1>4, SharesUnchanged DEF HandleHello, Registry!Greet, Shares
  <2> QED BY <2>1 DEF Registry!Next
<1>5. ASSUME NEW a \in Addr, NEW f \in File \cup {EmptyFile}, HandleShareFileInvalid(a, f)
      PROVE  Registry!Next
  <2>1. Registry!Reject(a)
    BY <1>5, SharesUnchanged DEF HandleShareFileInvalid, Registry!Reject, Shares
  <2> QED BY <2>1 DEF Registry!Next
<1>6. ASSUME NEW a \in Addr, NEW f \in File \cup {EmptyFile}, HandleShareFileRefused(a, f)
      PROVE  Registry!Next
  <2>1. a \in Sharers \/ Cardinality(SharersOn(IpOf(a))) >= kMaxSharedPerIp
    BY <1>6 DEF HandleShareFileRefused, QuotaRefuses, IInv, QuotaExact
  <2>2. Registry!Refuse(a)
    BY <1>1, <1>3, <1>6, <2>1, SharesUnchanged, SameOperators
       DEF HandleShareFileRefused, Registry!Refuse, Shares
  <2> QED BY <2>2 DEF Registry!Next
<1>7. ASSUME NEW a \in Addr, NEW f \in File \cup {EmptyFile}, NEW c \in Code,
             HandleShareFileAccepted(a, f, c)
      PROVE  Registry!Next
  <2>1. /\ a \notin Sharers /\ c \notin Live /\ f \in File
        /\ Cardinality(SharersOn(IpOf(a))) < kMaxSharedPerIp
    BY <1>7, NotSharing DEF HandleShareFileAccepted, GetCode, FreshCode
  <2>2. /\ Sharers' = Sharers \cup {a}
        /\ codesMap'[a] = c /\ fileDatas'[c].file = f
        /\ \A b \in Sharers : codesMap'[b] = codesMap[b]
        /\ \A d \in Live : fileDatas'[d] = fileDatas[d]
    BY <1>7, <2>1 DEF HandleShareFileAccepted, Register, Put, Sharers, Live
  <2>3. \A b \in Sharers : codesMap[b] \in Live
    BY DEF IInv, RegistryInverse
  <2>4. Shares' = [b \in Sharers \cup {a} |->
                     IF b = a THEN [code |-> c, file |-> f] ELSE Shares[b]]
    BY <2>1, <2>2, <2>3 DEF Shares
  <2>5. sent' = {[type |-> "SHARE_CODE", to |-> a, code |-> c]}
    BY <1>7 DEF HandleShareFileAccepted
  <2>6. Registry!Grant(a, f, c)
    BY <1>1, <1>2, <1>3, <2>1, <2>4, <2>5, SameOperators DEF Registry!Grant, Shares
  <2> QED BY <2>1, <2>6 DEF Registry!Next
<1>8. ASSUME NEW a \in Addr, NEW f \in File \cup {EmptyFile}, HandleShareFileSpins(a, f)
      PROVE  Registry!Next
  <2>1. Shares' = Restrict(Shares, Sharers \ {})
    BY <1>8, SharesUnchanged DEF HandleShareFileSpins, Shares, Restrict
  <2>2. Registry!Withdraw({})
    BY <1>1, <1>8, <2>1, SameOperators DEF HandleShareFileSpins, Registry!Withdraw, Shares
  <2> QED BY <2>2 DEF Registry!Next
<1>9. ASSUME NEW g \in Addr, NEW c \in Code, HandleGetFileMiss(g, c) PROVE Registry!Next
  <2>1. Registry!Miss(g, c)
    BY <1>2, <1>9, SharesUnchanged DEF HandleGetFileMiss, Registry!Miss, Shares
  <2> QED BY <2>1 DEF Registry!Next
<1>10. ASSUME NEW g \in Addr, NEW c \in Code, HandleGetFileHit(g, c) PROVE Registry!Next
  <2> DEFINE s == fileDatas[c].addr
  <2>1. /\ s \in Sharers /\ s \in Addr /\ codesMap[s] = c
        /\ Shares[s].file = fileDatas[c].file
    BY <1>10 DEF HandleGetFileHit, IInv, RegistryInverse, TypeOK, Shares
  <2>2. sent' = {[type |-> "FILE_DATA", to |-> g, file |-> Shares[s].file, addr |-> s],
                 [type |-> "FILE_REQ", to |-> s, addr |-> g]}
    BY <1>10, <2>1 DEF HandleGetFileHit, Introduction
  <2>3. Shares' = Shares
    BY <1>10, SharesUnchanged DEF HandleGetFileHit
  <2>4. Registry!Introduce(g, s)
    BY <1>1, <2>1, <2>2, <2>3 DEF Registry!Introduce, Shares
  <2> QED BY <2>1, <2>4 DEF Registry!Next
<1>11. CASE RemoveTimeoutConn
  <2>1. \A a \in Sharers \ Dropped :
          codesMap'[a] = codesMap[a] /\ fileDatas'[codesMap[a]] = fileDatas[codesMap[a]]
    <3> TAKE a \in Sharers \ Dropped
    <3>1. codesMap'[a] = codesMap[a]
      BY <1>11 DEF RemoveTimeoutConn, Erase, Restrict, Sharers
    <3>2. codesMap[a] \in Live /\ \A b \in Dropped : codesMap[b] # codesMap[a]
      BY DEF IInv, RegistryInverse, Dropped
    <3> QED BY <1>11, <3>1, <3>2 DEF RemoveTimeoutConn, DropCodes, Erase, Restrict, Live
  <2>2. Sharers' = Sharers \ Dropped
    BY <1>11 DEF RemoveTimeoutConn, Erase, Restrict, Sharers
  <2>3. Shares' = Restrict(Shares, Sharers \ Dropped)
    BY <2>1, <2>2 DEF Shares, Restrict
  <2>4. PICK gone : gone = Dropped
    OBVIOUS
  <2>5. Registry!Withdraw(gone)
    BY <1>1, <1>11, <2>3, <2>4, SameOperators DEF RemoveTimeoutConn, Registry!Withdraw, Shares
  <2>6. gone \in SUBSET Addr
    BY <2>4 DEF Dropped, IInv, TypeOK
  <2> QED BY <2>5, <2>6 DEF Registry!Next
<1>12. ASSUME Tick \/ \E a \in Addr : HandleOther(a) \/ HandleBareRequest(a)
       PROVE  Registry!Next
  <2>1. Shares' = Restrict(Shares, Sharers \ {}) /\ sent' = {}
    BY <1>12, SharesUnchanged DEF Tick, HandleOther, HandleBareRequest, Shares, Restrict
  <2>2. Registry!Withdraw({})
    BY <1>1, <2>1, SameOperators DEF Registry!Withdraw, Shares
  <2> QED BY <2>2 DEF Registry!Next
<1>13. CASE UNCHANGED vars
  <2>1. UNCHANGED Registry!vars
    BY <1>13, SharesUnchanged DEF vars, Registry!vars, Shares
  <2> QED BY <2>1
<1> QED
  BY <1>4, <1>5, <1>6, <1>7, <1>8, <1>9, <1>10, <1>11, <1>12, <1>13
     DEF Next, HandleShareFile, HandleGetFile

(* The server implements the registry of shares its clients rely on.       *)
THEOREM ServerImplementsRegistry == Spec => RegistrySpec
<1>1. Init => Registry!Init
  BY DEF Init, Registry!Init, Sharers, Empty
<1> QED BY <1>1, StepImplements, Inductive, PTL DEF Spec, RegistrySpec, Registry!Spec
=============================================================================
