----------------------- MODULE DiretransClient_proofs -----------------------
(***************************************************************************)
(* Theorems about the connections of a client, for any number of them, any *)
(* codes and any descriptors.                                              *)
(***************************************************************************)
EXTENDS DiretransClient, EPoller_proofs, FiniteSetTheorems, SequenceTheorems

(* Functions of the connections have their type; one to come has no code. *)
ConnTypes ==
  /\ life \in [Conn -> {"new", "live", "freed"}]
  /\ code \in [Conn -> Code \cup {0}]
  /\ fdOf \in [Conn -> Fd \cup {0}]
  /\ \A c \in Conn : life[c] = "new" => code[c] = 0

(* The poller p knows the connections L, whose descriptors g tells, and    *)
(* the three channels that stay.                                           *)
RegisteredAs(L, g, p) ==
  /\ WellFormed(p)
  /\ DOMAIN p.channels = {g[c] : c \in L} \cup {1, 2, 3}
  /\ p.channels[1] = Timerfd /\ p.channels[2] = Wakeup /\ p.channels[3] = Commands
  /\ \A c \in L : g[c] \in Fd /\ p.channels[g[c]] = c

Registered == RegisteredAs(Live, fdOf, poller)

(* What an entry holds lives, is not to be deleted, and has the code or    *)
(* the descriptor it is entered under.                                     *)
Entered ==
  /\ \A f \in DOMAIN pendingconns :
       pendingconns[f] # Null =>
         /\ pendingconns[f] \in (Sends \cap Live) \ deleteconns
         /\ code[pendingconns[f]] = 0 /\ fdOf[pendingconns[f]] = f
  /\ \A k \in DOMAIN sendconns :
       sendconns[k] # Null =>
         sendconns[k] \in (Sends \cap Live) \ deleteconns /\ code[sendconns[k]] = k /\ k # 0
  /\ \A k \in DOMAIN getconns :
       getconns[k] # Null =>
         getconns[k] \in (Gets \cap Live) \ deleteconns /\ code[getconns[k]] = k /\ k # 0
  /\ deleteconns \subseteq Live

(* What lives and is not to be deleted has an entry. *)
Located ==
  \A c \in Live \ deleteconns :
    \/ c \in Sends /\ code[c] = 0 /\ fdOf[c] \in DOMAIN pendingconns /\ pendingconns[fdOf[c]] = c
    \/ c \in Sends /\ code[c] # 0 /\ code[c] \in DOMAIN sendconns /\ sendconns[code[c]] = c
    \/ c \in Gets /\ code[c] # 0 /\ code[c] \in DOMAIN getconns /\ getconns[code[c]] = c

Owners == fault # "code already there" => Entered /\ Located

(* While something is to be deleted, the call that does it is queued;      *)
(* while functors are queued outside the handlers, the loop is woken.      *)
Pends(calls) == \E i \in DOMAIN calls : calls[i] = DeleteCall

Loops ==
  /\ pc \in {"poll", "events", "functors"}
  /\ functors \in Seq(Call) /\ batch \in Seq(Call)
  /\ pc # "events" => active = {}
  /\ functors # <<>> /\ pc # "events" => woken
  /\ deleteconns # {} =>
       \/ pc = "events" /\ Pends(functors)
       \/ pc = "functors" /\ Pends(batch)

CInv == ConnTypes /\ Registered /\ Owners /\ Loops
-----------------------------------------------------------------------------
(* The steps that change who lives or who owns, and the others. *)
Rest == UNCHANGED <<life, code, fdOf, ownerVars, poller>>

LEMMA StepKinds ==
  ASSUME [Next]_vars
  PROVE  \/ Rest /\ (UNCHANGED fault \/ fault = "none")
         \/ \E S \in SUBSET Conn, again \in SUBSET Sends :
                fault = "none" /\ CloseSelf(S, again) /\ UNCHANGED <<pc, batch, fault>>
         \/ \E c \in Sends, k \in Code : RecvShareCode(c, k)
         \/ \E c \in Sends, f \in Fd : DoShare(c, f)
         \/ \E c \in Gets, k \in Asked, f \in Fd : DoGet(c, k, f)
         \/ \E c \in Conn : DeleteOne(c)
<1>1. CASE UNCHANGED vars
  BY <1>1 DEF vars, connVars, ownerVars, loopVars, Rest
<1>2. CASE Poll \/ HandleWakeup \/ EndEvents \/ DeleteConn \/ EndFunctors
  BY <1>2 DEF Poll, HandleWakeup, EndEvents, DeleteConn, EndFunctors, connVars, ownerVars, Rest
<1>3. CASE HandleTimers
  <2>1. PICK S \in SUBSET Timed, again \in SUBSET Sends : CloseSelf(S, again)
    BY <1>3 DEF HandleTimers
  <2>2. S \in SUBSET Conn
    BY DEF Timed, Live
  <2> QED BY <1>3, <2>1, <2>2 DEF HandleTimers, Handles
<1>4. CASE HandleCmd
  <2>1. ASSUME NEW k \in Asked, DoChat(k) PROVE Rest /\ (UNCHANGED fault \/ fault = "none")
    BY <2>1 DEF DoChat, ReadsCommand, Handles, connVars, ownerVars, Rest
  <2> QED BY <1>4, <2>1 DEF HandleCmd
<1>5. ASSUME NEW c \in Conn, HandleConn(c)
      PROVE  \/ Rest /\ (UNCHANGED fault \/ fault = "none")
             \/ \E S \in SUBSET Conn, again \in SUBSET Sends :
                fault = "none" /\ CloseSelf(S, again) /\ UNCHANGED <<pc, batch, fault>>
             \/ c \in Sends /\ \E k \in Code : RecvShareCode(c, k)
  <2>1. CASE RecvOther(c) \/ RecvFileData(c) \/ RecvAndStream(c) \/ HandleDangling(c)
    BY <2>1 DEF RecvOther, RecvFileData, RecvAndStream, HandleDangling, Fails,
             HandleMessage, Handles, connVars, ownerVars, Rest
  <2>2. CASE RecvAndClose(c)
    BY <2>2 DEF RecvAndClose, HandleMessage, Handles
  <2>3. ASSUME NEW k \in Code, RecvShareCode(c, k) PROVE c \in Sends
    BY <2>3 DEF RecvShareCode
  <2> QED BY <1>5, <2>1, <2>2, <2>3 DEF HandleConn
<1>6. ASSUME NEW c \in Sends, SendFileStream(c)
      PROVE  Rest /\ (UNCHANGED fault \/ fault = "none")
  BY <1>6 DEF SendFileStream, Runs, Fails, connVars, ownerVars, Rest
<1> QED BY <1>1, <1>2, <1>3, <1>4, <1>5, <1>6 DEF Next, DoPendingFunctors
-----------------------------------------------------------------------------
(* The poller *)

LEMMA Names ==
  /\ \A c \in Conn : c \in Channel /\ c # Timerfd /\ c # Wakeup /\ c # Commands
  /\ Timerfd \in Channel /\ Wakeup \in Channel /\ Commands \in Channel
  /\ Timerfd # Wakeup /\ Timerfd # Commands /\ Wakeup # Commands
  /\ \A f \in Fd : f \in Nat /\ f # 1 /\ f # 2 /\ f # 3
  BY ClientAssumption DEF Timerfd, Wakeup, Commands

(* A connection on a descriptor of its own is added. *)
LEMMA OpenRegisters ==
  ASSUME NEW L, L \subseteq Conn, NEW g, NEW h, NEW p, RegisteredAs(L, g, p),
         NEW c \in Conn, c \notin L, NEW f \in Fd, f \notin {g[d] : d \in L},
         h[c] = f, \A d \in L : h[d] = g[d]
  PROVE  RegisteredAs(L \cup {c}, h, AddChannel(p, c, f))
<1>1. f \in Nat /\ f \notin DOMAIN p.channels /\ AddAsserts(p, f)
  BY Names DEF RegisteredAs, AddAsserts
<1>2. \A x \in DOMAIN p.channels : p.channels[x] # c
  BY Names DEF RegisteredAs
<1>3. WellFormed(AddChannel(p, c, f))
  BY <1>1, <1>2, AddKeeps, Names DEF RegisteredAs
<1>4. AddChannel(p, c, f).channels =
        [x \in DOMAIN p.channels \cup {f} |-> IF x = f THEN c ELSE p.channels[x]]
  BY DEF AddChannel
<1> QED BY <1>1, <1>3, <1>4, Names DEF RegisteredAs

(* A connection that is there is closed. *)
LEMMA CloseRegisters ==
  ASSUME NEW L, L \subseteq Conn, NEW g, NEW h, NEW p, RegisteredAs(L, g, p),
         NEW c \in L, \A d \in L \ {c} : h[d] = g[d]
  PROVE  RegisteredAs(L \ {c}, h, CloseChannel(p, c, g[c]))
<1>1. g[c] \in DOMAIN p.channels /\ p.channels[g[c]] = c /\ g[c] \in Fd
  BY DEF RegisteredAs
<1>2. /\ WellFormed(CloseChannel(p, c, g[c]))
      /\ CloseChannel(p, c, g[c]).channels = [x \in DOMAIN p.channels \ {g[c]} |-> p.channels[x]]
  BY <1>1, CloseKeeps DEF RegisteredAs
<1>3. \A d \in L \ {c} : g[d] # g[c]
  BY DEF RegisteredAs
<1>4. DOMAIN p.channels \ {g[c]} = {h[d] : d \in L \ {c}} \cup {1, 2, 3}
  <2>1. {g[d] : d \in L} = {h[d] : d \in L \ {c}} \cup {g[c]}
    OBVIOUS
  <2>2. g[c] \notin {h[d] : d \in L \ {c}} \cup {1, 2, 3}
    BY <1>1, <1>3, Names
  <2> QED BY <2>1, <2>2 DEF RegisteredAs
<1> QED BY <1>1, <1>2, <1>3, <1>4, Names DEF RegisteredAs

LEMMA DeleteRegisters ==
  ASSUME CInv, NEW c \in Live, Delete(c)
  PROVE  ConnTypes' /\ Registered' /\ Live' = Live \ {c}
<1>1. Live \subseteq Conn /\ c \in Conn
  BY DEF Live
<1>2. ConnTypes'
  BY DEF Delete, CInv, ConnTypes
<1>3. Live' = Live \ {c}
  BY DEF Delete, Live, CInv, ConnTypes
<1>4. \A d \in Live \ {c} : fdOf'[d] = fdOf[d]
  BY DEF Delete, CInv, ConnTypes, Live
<1>5. poller' = CloseChannel(poller, c, fdOf[c])
  BY DEF Delete
<1>6. RegisteredAs(Live \ {c}, fdOf', CloseChannel(poller, c, fdOf[c]))
  BY <1>1, <1>4, CloseRegisters DEF CInv, Registered
<1> QED BY <1>2, <1>3, <1>5, <1>6 DEF Registered

LEMMA ShareRegisters ==
  ASSUME CInv, NEW c \in Sends, NEW f \in Fd, DoShare(c, f)
  PROVE  ConnTypes' /\ Registered' /\ Live' = Live \cup {c} /\ c \in Conn \ Live /\ f \notin UsedFds
<1>1. /\ life[c] = "new" /\ f \in Fd \ UsedFds /\ c \in Conn
      /\ life' = [life EXCEPT ![c] = "live"] /\ fdOf' = [fdOf EXCEPT ![c] = f]
      /\ code' = code /\ poller' = AddChannel(poller, c, f)
  BY DEF DoShare, LowestFree, Conn
<1>2. ConnTypes'
  BY <1>1 DEF CInv, ConnTypes
<1>3. c \notin Live /\ Live \subseteq Conn /\ f \notin {fdOf[d] : d \in Live}
  BY <1>1 DEF Live, UsedFds
<1>4. Live' = Live \cup {c}
  BY <1>1 DEF Live, CInv, ConnTypes
<1>5. fdOf'[c] = f /\ \A d \in Live : fdOf'[d] = fdOf[d]
  BY <1>1, <1>3 DEF CInv, ConnTypes
<1>6. RegisteredAs(Live \cup {c}, fdOf', AddChannel(poller, c, f))
  BY <1>1, <1>3, <1>5, OpenRegisters DEF CInv, Registered
<1> QED BY <1>1, <1>2, <1>3, <1>4, <1>6 DEF Registered

(* What a GET replaces is one connection, and it lives. *)
LEMMA ReplacedLives ==
  ASSUME CInv, fault = "none", NEW k
  PROVE  /\ Replaced(k) \subseteq (Gets \cap Live) \ deleteconns
         /\ \A d \in Replaced(k) : Replaced(k) = {d} /\ code[d] = k /\ k \in DOMAIN getconns
                                   /\ getconns[k] = d
  BY DEF Replaced, Held, CInv, Owners, Entered

LEMMA GetRegisters ==
  ASSUME CInv, NEW c \in Gets, NEW k \in Asked, NEW f \in Fd, DoGet(c, k, f)
  PROVE  /\ ConnTypes' /\ Registered' /\ Live' = (Live \ Replaced(k)) \cup {c}
         /\ c \in Conn \ Live /\ \A d \in Live : fdOf[d] # f
<1>1. /\ life[c] = "new" /\ f \in Fd \ UsedFds /\ c \in Conn /\ fault = "none"
      /\ life' = [d \in Conn |-> IF d = c THEN "live"
                                 ELSE IF d \in Replaced(k) THEN "freed" ELSE life[d]]
      /\ code' = [d \in Conn |-> IF d = c THEN k ELSE IF d \in Replaced(k) THEN 0 ELSE code[d]]
      /\ fdOf' = [d \in Conn |-> IF d = c THEN f ELSE IF d \in Replaced(k) THEN 0 ELSE fdOf[d]]
  BY DEF DoGet, ReadsCommand, Handles, LowestFree, Conn
<1>2. ConnTypes'
  <2>1. k \in Code
    BY ClientAssumption
  <2> QED BY <1>1, <2>1 DEF CInv, ConnTypes
<1>3. c \notin Live /\ Live \subseteq Conn /\ f \notin {fdOf[d] : d \in Live}
  BY <1>1 DEF Live, UsedFds
<1>4. Live' = (Live \ Replaced(k)) \cup {c}
  BY <1>1 DEF Live, CInv, ConnTypes
<1> DEFINE h == [fdOf EXCEPT ![c] = f]
           p == AddChannel(poller, c, f)
<1>5. h[c] = f /\ \A d \in Live : h[d] = fdOf[d]
  BY <1>1, <1>3 DEF CInv, ConnTypes
<1>6. RegisteredAs(Live \cup {c}, h, p)
  <2> HIDE DEF h
  <2> QED BY <1>1, <1>3, <1>5, OpenRegisters DEF CInv, Registered
<1>7. \A d \in Live \ Replaced(k) : fdOf'[d] = fdOf[d]
  BY <1>1, <1>3
<1>8. CASE Replaced(k) = {}
  <2>1. poller' = p /\ Live' = Live \cup {c}
    BY <1>4, <1>8 DEF DoGet
  <2>2. \A d \in Live \cup {c} : fdOf'[d] = h[d]
    BY <1>1, <1>5, <1>7, <1>8
  <2>3. {fdOf'[d] : d \in Live \cup {c}} = {h[d] : d \in Live \cup {c}}
    BY <2>2
  <2> HIDE DEF h, p
  <2>4. RegisteredAs(Live \cup {c}, fdOf', p)
    BY <1>6, <2>2, <2>3 DEF RegisteredAs
  <2> QED BY <1>1, <1>2, <1>3, <1>4, <2>1, <2>4 DEF Registered
<1>9. CASE Replaced(k) # {}
  <2>1. PICK d \in Replaced(k) : poller' = CloseChannel(p, d, fdOf[d])
    BY <1>9 DEF DoGet
  <2>2. Replaced(k) = {d} /\ d \in Live /\ d # c
    BY <1>1, <1>3, <2>1, ReplacedLives
  <2>3. Live' = (Live \cup {c}) \ {d}
    BY <1>4, <2>2
  <2>4. \A x \in (Live \cup {c}) \ {d} : fdOf'[x] = h[x]
    BY <1>1, <1>5, <1>7, <2>2
  <2>5. d \in Live \cup {c} /\ Live \cup {c} \subseteq Conn /\ h[d] = fdOf[d]
    BY <1>1, <1>3, <1>5, <2>2
  <2> HIDE DEF h, p
  <2>6. RegisteredAs((Live \cup {c}) \ {d}, fdOf', CloseChannel(p, d, h[d]))
    BY <1>6, <2>4, <2>5, CloseRegisters
  <2>7. Registered'
    BY <2>1, <2>3, <2>5, <2>6 DEF Registered
  <2> QED BY <1>1, <1>2, <1>3, <1>4, <2>7
<1> QED BY <1>8, <1>9

LEMMA RegisteredNext ==
  ASSUME CInv, [Next]_vars
  PROVE  ConnTypes' /\ Registered'
<1>1. CASE Rest
  BY <1>1 DEF Rest, CInv, ConnTypes, Registered, Live
<1>2. ASSUME NEW S \in SUBSET Conn, NEW again \in SUBSET Sends, CloseSelf(S, again)
      PROVE  ConnTypes' /\ Registered'
  BY <1>2 DEF CloseSelf, connVars, CInv, ConnTypes, Registered, Live
<1>3. ASSUME NEW c \in Sends, NEW k \in Code, RecvShareCode(c, k) PROVE ConnTypes' /\ Registered'
  <2>1. life' = life /\ fdOf' = fdOf /\ poller' = poller /\ code' = [code EXCEPT ![c] = k]
    BY <1>3 DEF RecvShareCode
  <2>2. life[c] = "live" /\ c \in Conn
    BY <1>3 DEF RecvShareCode, HandleMessage, Live
  <2>3. ConnTypes'
    BY <2>1, <2>2 DEF CInv, ConnTypes
  <2> QED BY <2>1, <2>3 DEF CInv, Registered, Live
<1>4. ASSUME NEW c \in Conn, DeleteOne(c) PROVE ConnTypes' /\ Registered'
  <2>1. c \in deleteconns /\ fault = "none" /\ Delete(c)
    BY <1>4 DEF DeleteOne, Runs
  <2>2. c \in Live
    BY <2>1 DEF CInv, Owners, Entered
  <2> QED BY <2>1, <2>2, DeleteRegisters
<1> QED BY <1>1, <1>2, <1>3, <1>4, StepKinds, ShareRegisters, GetRegisters
-----------------------------------------------------------------------------
(* The owners *)

LEMMA CloseKeepsOwners ==
  ASSUME CInv, fault = "none", NEW S \in SUBSET Conn, NEW again, CloseSelf(S, again)
  PROVE  Entered' /\ Located'
<1>1. /\ UNCHANGED <<life, code, fdOf>> /\ deleteconns' = deleteconns \cup Closed(S)
      /\ sendconns' = Emptied(sendconns, SendKeys(S))
      /\ pendingconns' = Emptied(pendingconns, PendKeys(S))
      /\ getconns' = Emptied(getconns, GetKeys(S))
  BY DEF CloseSelf, connVars
<1>2. Entered /\ Located
  BY DEF CInv, Owners
<1>3. Live' = Live
  BY <1>1 DEF Live
<1>4. /\ DOMAIN sendconns' = DOMAIN sendconns /\ DOMAIN pendingconns' = DOMAIN pendingconns
      /\ DOMAIN getconns' = DOMAIN getconns
      /\ \A k \in DOMAIN sendconns :
           sendconns'[k] = IF k \in SendKeys(S) THEN Null ELSE sendconns[k]
      /\ \A f \in DOMAIN pendingconns :
           pendingconns'[f] = IF f \in PendKeys(S) THEN Null ELSE pendingconns[f]
      /\ \A k \in DOMAIN getconns :
           getconns'[k] = IF k \in GetKeys(S) THEN Null ELSE getconns[k]
  BY <1>1 DEF Emptied
<1>5. \A x \in Closed(S) :
        \/ \E k \in SendKeys(S) \cap DOMAIN sendconns : x = sendconns[k] /\ x # Null
        \/ \E f \in PendKeys(S) \cap DOMAIN pendingconns : x = pendingconns[f] /\ x # Null
        \/ \E k \in GetKeys(S) \cap DOMAIN getconns : x = getconns[k] /\ x # Null
  BY DEF Closed, Held
<1>6. \A x \in Closed(S) :
        /\ x \in Live
        /\ \/ x \in Sends /\ code[x] \in SendKeys(S) /\ code[x] # 0
           \/ x \in Sends /\ fdOf[x] \in PendKeys(S) /\ code[x] = 0
           \/ x \in Gets /\ code[x] \in GetKeys(S)
  BY <1>2, <1>5 DEF Entered
<1>7. /\ \A k \in SendKeys(S) \cap DOMAIN sendconns : sendconns[k] # Null => sendconns[k] \in Closed(S)
      /\ \A f \in PendKeys(S) \cap DOMAIN pendingconns :
           pendingconns[f] # Null => pendingconns[f] \in Closed(S)
      /\ \A k \in GetKeys(S) \cap DOMAIN getconns : getconns[k] # Null => getconns[k] \in Closed(S)
  BY DEF Closed, Held
<1>8. Sends \cap Gets = {} /\ Null \notin Conn
  BY ClientAssumption
<1>9. Entered'
  <2>1. ASSUME NEW f \in DOMAIN pendingconns', pendingconns'[f] # Null
        PROVE  /\ pendingconns'[f] \in (Sends \cap Live') \ deleteconns'
               /\ code'[pendingconns'[f]] = 0 /\ fdOf'[pendingconns'[f]] = f
    <3>1. f \notin PendKeys(S) /\ pendingconns'[f] = pendingconns[f] /\ f \in DOMAIN pendingconns
      BY <1>4, <2>1
    <3>2. /\ pendingconns[f] \in (Sends \cap Live) \ deleteconns /\ code[pendingconns[f]] = 0
          /\ fdOf[pendingconns[f]] = f
      BY <1>2, <2>1, <3>1 DEF Entered
    <3>3. pendingconns[f] \notin Closed(S)
      BY <1>6, <1>8, <3>1, <3>2
    <3> QED BY <1>1, <1>3, <3>1, <3>2, <3>3
  <2>2. ASSUME NEW k \in DOMAIN sendconns', sendconns'[k] # Null
        PROVE  /\ sendconns'[k] \in (Sends \cap Live') \ deleteconns'
               /\ code'[sendconns'[k]] = k /\ k # 0
    <3>1. k \notin SendKeys(S) /\ sendconns'[k] = sendconns[k] /\ k \in DOMAIN sendconns
      BY <1>4, <2>2
    <3>2. /\ sendconns[k] \in (Sends \cap Live) \ deleteconns /\ code[sendconns[k]] = k /\ k # 0
      BY <1>2, <2>2, <3>1 DEF Entered
    <3>3. sendconns[k] \notin Closed(S)
      BY <1>6, <1>8, <3>1, <3>2
    <3> QED BY <1>1, <1>3, <3>1, <3>2, <3>3
  <2>3. ASSUME NEW k \in DOMAIN getconns', getconns'[k] # Null
        PROVE  /\ getconns'[k] \in (Gets \cap Live') \ deleteconns'
               /\ code'[getconns'[k]] = k /\ k # 0
    <3>1. k \notin GetKeys(S) /\ getconns'[k] = getconns[k] /\ k \in DOMAIN getconns
      BY <1>4, <2>3
    <3>2. /\ getconns[k] \in (Gets \cap Live) \ deleteconns /\ code[getconns[k]] = k /\ k # 0
      BY <1>2, <2>3, <3>1 DEF Entered
    <3>3. getconns[k] \notin Closed(S)
      BY <1>6, <1>8, <3>1, <3>2
    <3> QED BY <1>1, <1>3, <3>1, <3>2, <3>3
  <2>4. deleteconns' \subseteq Live'
    BY <1>1, <1>2, <1>3, <1>6 DEF Entered
  <2> QED BY <2>1, <2>2, <2>3, <2>4 DEF Entered
<1>10. Located'
  <2> SUFFICES ASSUME NEW c \in Live \ deleteconns, c \notin Closed(S)
               PROVE  \/ /\ c \in Sends /\ code[c] = 0 /\ fdOf[c] \in DOMAIN pendingconns'
                         /\ pendingconns'[fdOf[c]] = c
                      \/ /\ c \in Sends /\ code[c] # 0 /\ code[c] \in DOMAIN sendconns'
                         /\ sendconns'[code[c]] = c
                      \/ /\ c \in Gets /\ code[c] # 0 /\ code[c] \in DOMAIN getconns'
                         /\ getconns'[code[c]] = c
    BY <1>1, <1>3 DEF Located
  <2>1. c # Null
    BY <1>8 DEF Live
  <2> QED BY <1>2, <1>4, <1>7, <2>1 DEF Located
<1> QED BY <1>9, <1>10

LEMMA CodeKeepsOwners ==
  ASSUME CInv, NEW c \in Sends, NEW k \in Code, RecvShareCode(c, k)
  PROVE  Owners'
<1>1. /\ fault = "none" /\ c \in Live /\ code[c] = 0 /\ code' = [code EXCEPT ![c] = k]
      /\ UNCHANGED <<life, fdOf, getconns, deleteconns>>
      /\ IF fdOf[c] \in DOMAIN pendingconns /\ CodeTaken(k)
         THEN fault' = "code already there"
         ELSE MovePendConn(c, k) /\ UNCHANGED fault
  BY DEF RecvShareCode, HandleMessage, Handles
<1>2. Entered /\ Located /\ Live' = Live /\ k # 0
  BY <1>1, ClientAssumption DEF CInv, Owners, Live
<1>3. \A d \in Conn : code'[d] = IF d = c THEN k ELSE code[d]
  BY <1>1 DEF CInv, ConnTypes
<1>4. Sends \cap Gets = {} /\ Null \notin Conn /\ c \in Conn /\ Live \subseteq Conn
  BY ClientAssumption DEF Conn, Live
<1>5. \A d \in Live : fdOf[d] = fdOf[c] => d = c
  BY <1>1 DEF CInv, Registered, RegisteredAs
<1>6. CASE fdOf[c] \in DOMAIN pendingconns /\ CodeTaken(k)
  BY <1>1, <1>6 DEF Owners
<1>7. CASE fdOf[c] \in DOMAIN pendingconns /\ ~CodeTaken(k)
  <2>1. /\ k \notin DOMAIN sendconns
        /\ sendconns' = Put(sendconns, k, pendingconns[fdOf[c]])
        /\ pendingconns' = Restrict(pendingconns, DOMAIN pendingconns \ {fdOf[c]})
    BY <1>1, <1>7 DEF MovePendConn, CodeTaken
  <2>2. /\ DOMAIN sendconns' = DOMAIN sendconns \cup {k} /\ sendconns'[k] = pendingconns[fdOf[c]]
        /\ \A j \in DOMAIN sendconns : sendconns'[j] = sendconns[j] /\ j # k
    BY <2>1 DEF Put
  <2>3. /\ DOMAIN pendingconns' = DOMAIN pendingconns \ {fdOf[c]}
        /\ \A f \in DOMAIN pendingconns' : pendingconns'[f] = pendingconns[f]
    BY <2>1 DEF Restrict
  <2>4. pendingconns[fdOf[c]] # Null => pendingconns[fdOf[c]] = c
    BY <1>2, <1>5, <1>7 DEF Entered
  <2>5. Entered'
    <3>1. \A f \in DOMAIN pendingconns' : pendingconns'[f] # Null =>
            /\ pendingconns'[f] \in (Sends \cap Live) \ deleteconns /\ pendingconns'[f] # c
            /\ code[pendingconns'[f]] = 0 /\ fdOf[pendingconns'[f]] = f
      BY <1>2, <2>3 DEF Entered
    <3>2. \A j \in DOMAIN sendconns' : sendconns'[j] # Null =>
            /\ sendconns'[j] \in (Sends \cap Live) \ deleteconns
            /\ code'[sendconns'[j]] = j /\ j # 0
      BY <1>1, <1>2, <1>3, <1>4, <1>7, <2>2, <2>4 DEF Entered
    <3>3. \A j \in DOMAIN getconns : getconns[j] # Null =>
            /\ getconns[j] \in (Gets \cap Live) \ deleteconns
            /\ code'[getconns[j]] = j /\ j # 0
      BY <1>2, <1>3, <1>4 DEF Entered
    <3>4. \A f \in DOMAIN pendingconns' : pendingconns'[f] # Null => code'[pendingconns'[f]] = 0
      BY <1>3, <1>4, <3>1
    <3> QED BY <1>1, <1>2, <3>1, <3>2, <3>3, <3>4 DEF Entered
  <2>6. ASSUME NEW d \in Live \ deleteconns
        PROVE  \/ /\ d \in Sends /\ code'[d] = 0 /\ fdOf[d] \in DOMAIN pendingconns'
                  /\ pendingconns'[fdOf[d]] = d
               \/ /\ d \in Sends /\ code'[d] # 0 /\ code'[d] \in DOMAIN sendconns'
                  /\ sendconns'[code'[d]] = d
               \/ /\ d \in Gets /\ code'[d] # 0 /\ code'[d] \in DOMAIN getconns
                  /\ getconns[code'[d]] = d
    <3>1. CASE d = c
      <4>1. pendingconns[fdOf[c]] = c
        BY <1>1, <1>2, <1>4, <2>6, <3>1 DEF Located
      <4> QED BY <1>2, <1>3, <1>4, <2>2, <3>1, <4>1
    <3>2. CASE d # c
      <4>1. code'[d] = code[d] /\ fdOf[d] # fdOf[c]
        BY <1>3, <1>4, <1>5, <3>2
      <4> QED BY <1>2, <2>2, <2>3, <4>1 DEF Located
    <3> QED BY <3>1, <3>2
  <2> QED BY <1>1, <1>2, <2>5, <2>6 DEF Owners, Located
<1>8. CASE fdOf[c] \notin DOMAIN pendingconns
  <2>1. UNCHANGED <<sendconns, pendingconns>>
    BY <1>1, <1>8 DEF MovePendConn
  <2>2. c \in deleteconns
    BY <1>1, <1>2, <1>4, <1>8 DEF Located
  <2>3. \A d \in Live \ deleteconns : code'[d] = code[d]
    BY <1>3, <1>4, <2>2
  <2>4. Entered'
    BY <1>1, <1>2, <2>1, <2>3 DEF Entered
  <2>5. Located'
    <3> SUFFICES ASSUME NEW d \in Live \ deleteconns
                 PROVE  \/ /\ d \in Sends /\ code'[d] = 0 /\ fdOf[d] \in DOMAIN pendingconns
                           /\ pendingconns[fdOf[d]] = d
                        \/ /\ d \in Sends /\ code'[d] # 0 /\ code'[d] \in DOMAIN sendconns
                           /\ sendconns[code'[d]] = d
                        \/ /\ d \in Gets /\ code'[d] # 0 /\ code'[d] \in DOMAIN getconns
                           /\ getconns[code'[d]] = d
      BY <1>1, <1>2, <2>1 DEF Located
    <3>1. code'[d] = code[d]
      BY <2>3
    <3> QED BY <1>2, <3>1 DEF Located
  <2> QED BY <2>4, <2>5 DEF Owners
<1> QED BY <1>6, <1>7, <1>8

LEMMA ShareKeepsOwners ==
  ASSUME CInv, NEW c \in Sends, NEW f \in Fd, DoShare(c, f)
  PROVE  Owners'
<1>1. /\ fault = "none" /\ fault' = "none" /\ UNCHANGED <<code, sendconns, getconns>>
      /\ fdOf' = [fdOf EXCEPT ![c] = f]
      /\ \/ pendingconns' = Put(pendingconns, f, c) /\ UNCHANGED deleteconns
         \/ pendingconns' = Put(pendingconns, f, Null) /\ deleteconns' = deleteconns \cup {c}
  BY DEF DoShare, ReadsCommand, Handles
<1>2. Live' = Live \cup {c} /\ c \in Conn \ Live /\ f \notin UsedFds
  BY ShareRegisters
<1>3. Entered /\ Located
  BY <1>1 DEF CInv, Owners
<1>4. /\ fdOf'[c] = f /\ \A d \in Live : fdOf'[d] = fdOf[d] /\ fdOf[d] # f
      /\ Live \subseteq Conn /\ Sends \cap Gets = {} /\ Null \notin Conn
  BY <1>1, <1>2, ClientAssumption DEF CInv, ConnTypes, Live, UsedFds
<1>5. /\ DOMAIN pendingconns' = DOMAIN pendingconns \cup {f}
      /\ \A g \in DOMAIN pendingconns \ {f} : pendingconns'[g] = pendingconns[g]
      /\ pendingconns'[f] \in {c, Null}
      /\ pendingconns'[f] = c => deleteconns' = deleteconns
      /\ pendingconns'[f] = Null => deleteconns' = deleteconns \cup {c}
  BY <1>1, <1>2, <1>4 DEF Put
<1>6. deleteconns \subseteq Live /\ c \notin deleteconns
  BY <1>2, <1>3 DEF Entered
<1>7. code[c] = 0 /\ code' = code
  BY <1>1, <1>2 DEF DoShare, CInv, ConnTypes, Conn
<1>8. Entered'
  <2>1. \A g \in DOMAIN pendingconns' : pendingconns'[g] # Null =>
          /\ pendingconns'[g] \in (Sends \cap Live') \ deleteconns'
          /\ code[pendingconns'[g]] = 0 /\ fdOf'[pendingconns'[g]] = g
    <3> SUFFICES ASSUME NEW g \in DOMAIN pendingconns', pendingconns'[g] # Null
                 PROVE  /\ pendingconns'[g] \in (Sends \cap Live') \ deleteconns'
                        /\ code[pendingconns'[g]] = 0 /\ fdOf'[pendingconns'[g]] = g
      OBVIOUS
    <3>1. CASE g = f
      BY <1>2, <1>4, <1>5, <1>6, <1>7, <3>1
    <3>2. CASE g # f
      <4>1. /\ pendingconns'[g] = pendingconns[g] /\ g \in DOMAIN pendingconns
            /\ pendingconns[g] \in (Sends \cap Live) \ deleteconns
            /\ code[pendingconns[g]] = 0 /\ fdOf[pendingconns[g]] = g
        BY <1>3, <1>5, <3>2 DEF Entered
      <4> QED BY <1>2, <1>4, <1>5, <4>1
    <3> QED BY <3>1, <3>2
  <2>2. \A k \in DOMAIN sendconns : sendconns[k] # Null =>
          /\ sendconns[k] \in (Sends \cap Live') \ deleteconns' /\ code[sendconns[k]] = k /\ k # 0
    BY <1>2, <1>3, <1>5 DEF Entered
  <2>3. \A k \in DOMAIN getconns : getconns[k] # Null =>
          /\ getconns[k] \in (Gets \cap Live') \ deleteconns' /\ code[getconns[k]] = k /\ k # 0
    BY <1>2, <1>3, <1>5 DEF Entered
  <2>4. deleteconns' \subseteq Live'
    BY <1>2, <1>5, <1>6
  <2> QED BY <1>1, <2>1, <2>2, <2>3, <2>4 DEF Entered
<1>9. Located'
  <2> SUFFICES ASSUME NEW d \in Live' \ deleteconns'
               PROVE  \/ /\ d \in Sends /\ code[d] = 0 /\ fdOf'[d] \in DOMAIN pendingconns'
                         /\ pendingconns'[fdOf'[d]] = d
                      \/ /\ d \in Sends /\ code[d] # 0 /\ code[d] \in DOMAIN sendconns
                         /\ sendconns[code[d]] = d
                      \/ /\ d \in Gets /\ code[d] # 0 /\ code[d] \in DOMAIN getconns
                         /\ getconns[code[d]] = d
    BY <1>1 DEF Located
  <2>1. CASE d = c
    BY <1>4, <1>5, <1>7, <2>1
  <2>2. CASE d # c
    <3>1. d \in Live \ deleteconns /\ fdOf'[d] = fdOf[d] /\ fdOf[d] # f
      BY <1>2, <1>4, <1>5, <2>2
    <3> QED BY <1>3, <1>5, <3>1 DEF Located
  <2> QED BY <2>1, <2>2
<1> QED BY <1>8, <1>9 DEF Owners

LEMMA GetKeepsOwners ==
  ASSUME CInv, NEW c \in Gets, NEW k \in Asked, NEW f \in Fd, DoGet(c, k, f)
  PROVE  Owners'
<1>1. /\ fault = "none" /\ UNCHANGED <<pendingconns, sendconns, deleteconns>>
      /\ getconns' = Put(getconns, k, c)
  BY DEF DoGet, ReadsCommand, Handles
<1>2. Live' = (Live \ Replaced(k)) \cup {c} /\ c \in Conn \ Live
  BY GetRegisters
<1>3. Entered /\ Located
  BY <1>1 DEF CInv, Owners
<1>4. /\ Live \subseteq Conn /\ Sends \cap Gets = {} /\ Null \notin Conn /\ k # 0
      /\ Replaced(k) \subseteq (Gets \cap Live) \ deleteconns
      /\ \A d \in Replaced(k) : code[d] = k
  BY <1>1, ClientAssumption, ReplacedLives DEF Live
<1>5. /\ code'[c] = k
      /\ \A d \in Live \ Replaced(k) : d # c /\ code'[d] = code[d] /\ fdOf'[d] = fdOf[d]
  BY <1>2, <1>4 DEF DoGet
<1>6. /\ DOMAIN getconns' = DOMAIN getconns \cup {k} /\ getconns'[k] = c
      /\ \A j \in DOMAIN getconns \ {k} : getconns'[j] = getconns[j]
  BY <1>1 DEF Put
<1>7. \A d \in Live : d \in Sends \/ d \in deleteconns => d \notin Replaced(k)
  BY <1>4
<1>8. c \notin deleteconns /\ deleteconns \subseteq Live
  BY <1>2, <1>3 DEF Entered
<1>9. Entered'
  <2>1. \A g \in DOMAIN pendingconns : pendingconns[g] # Null =>
          /\ pendingconns[g] \in (Sends \cap Live') \ deleteconns
          /\ code'[pendingconns[g]] = 0 /\ fdOf'[pendingconns[g]] = g
    BY <1>2, <1>3, <1>5, <1>7 DEF Entered
  <2>2. \A j \in DOMAIN sendconns : sendconns[j] # Null =>
          /\ sendconns[j] \in (Sends \cap Live') \ deleteconns /\ code'[sendconns[j]] = j /\ j # 0
    BY <1>2, <1>3, <1>5, <1>7 DEF Entered
  <2>3. ASSUME NEW j \in DOMAIN getconns', getconns'[j] # Null
        PROVE  /\ getconns'[j] \in (Gets \cap Live') \ deleteconns
               /\ code'[getconns'[j]] = j /\ j # 0
    <3>1. CASE j = k
      BY <1>2, <1>4, <1>5, <1>6, <1>8, <3>1
    <3>2. CASE j # k
      <4>1. /\ getconns'[j] = getconns[j] /\ getconns[j] \in (Gets \cap Live) \ deleteconns
            /\ code[getconns[j]] = j /\ j # 0
        BY <1>3, <1>6, <2>3, <3>2 DEF Entered
      <4>2. getconns[j] \notin Replaced(k)
        BY <1>4, <3>2, <4>1
      <4> QED BY <1>2, <1>5, <4>1, <4>2
    <3> QED BY <3>1, <3>2
  <2>4. deleteconns \subseteq Live'
    BY <1>2, <1>7, <1>8
  <2> QED BY <1>1, <2>1, <2>2, <2>3, <2>4 DEF Entered
<1>10. Located'
  <2> SUFFICES ASSUME NEW d \in Live' \ deleteconns
               PROVE  \/ /\ d \in Sends /\ code'[d] = 0 /\ fdOf'[d] \in DOMAIN pendingconns
                         /\ pendingconns[fdOf'[d]] = d
                      \/ /\ d \in Sends /\ code'[d] # 0 /\ code'[d] \in DOMAIN sendconns
                         /\ sendconns[code'[d]] = d
                      \/ /\ d \in Gets /\ code'[d] # 0 /\ code'[d] \in DOMAIN getconns'
                         /\ getconns'[code'[d]] = d
    BY <1>1 DEF Located
  <2>1. CASE d = c
    BY <1>4, <1>5, <1>6, <2>1
  <2>2. CASE d # c
    <3>1. d \in Live \ deleteconns /\ d \notin Replaced(k) /\ code'[d] = code[d] /\ fdOf'[d] = fdOf[d]
      BY <1>2, <1>5, <2>2
    <3>2. CASE d \in Gets /\ code[d] = k
      <4>1. k \in DOMAIN getconns /\ getconns[k] = d
        BY <1>3, <1>4, <3>1, <3>2 DEF Located
      <4>2. d \in Replaced(k)
        BY <1>4, <3>1, <4>1 DEF Replaced, Held
      <4> QED BY <3>1, <4>2
    <3>3. CASE ~(d \in Gets /\ code[d] = k)
      BY <1>3, <1>6, <3>1, <3>3 DEF Located
    <3> QED BY <3>2, <3>3
  <2> QED BY <2>1, <2>2
<1> QED BY <1>9, <1>10 DEF Owners

LEMMA DeleteKeepsOwners ==
  ASSUME CInv, NEW c \in Conn, DeleteOne(c)
  PROVE  Owners'
<1>1. /\ fault = "none" /\ c \in deleteconns /\ deleteconns' = deleteconns \ {c}
      /\ UNCHANGED <<pendingconns, sendconns, getconns>>
      /\ code' = [code EXCEPT ![c] = 0] /\ fdOf' = [fdOf EXCEPT ![c] = 0] /\ Delete(c)
  BY DEF DeleteOne, Delete, Runs
<1>2. Entered /\ Located /\ c \in Live
  BY <1>1 DEF CInv, Owners, Entered
<1>3. Live' = Live \ {c}
  BY <1>1, <1>2, DeleteRegisters
<1>4. \A d \in Live \ {c} : code'[d] = code[d] /\ fdOf'[d] = fdOf[d]
  BY <1>1 DEF CInv, ConnTypes, Live
<1>5. Live' \ deleteconns' = Live \ deleteconns
  BY <1>1, <1>3
<1>6. Entered'
  BY <1>1, <1>2, <1>3, <1>4 DEF Entered
<1>7. Located'
  <2> SUFFICES ASSUME NEW d \in Live \ deleteconns
               PROVE  \/ /\ d \in Sends /\ code'[d] = 0 /\ fdOf'[d] \in DOMAIN pendingconns
                         /\ pendingconns[fdOf'[d]] = d
                      \/ /\ d \in Sends /\ code'[d] # 0 /\ code'[d] \in DOMAIN sendconns
                         /\ sendconns[code'[d]] = d
                      \/ /\ d \in Gets /\ code'[d] # 0 /\ code'[d] \in DOMAIN getconns
                         /\ getconns[code'[d]] = d
    BY <1>1, <1>5 DEF Located
  <2>1. code'[d] = code[d] /\ fdOf'[d] = fdOf[d]
    BY <1>1, <1>4
  <2> QED BY <1>2, <2>1 DEF Located
<1> QED BY <1>6, <1>7 DEF Owners

LEMMA OwnersNext ==
  ASSUME CInv, [Next]_vars
  PROVE  Owners'
<1>1. CASE Rest /\ (UNCHANGED fault \/ fault = "none")
  BY <1>1 DEF Rest, ownerVars, CInv, Owners, Entered, Located, Live
<1>2. ASSUME NEW S \in SUBSET Conn, NEW again \in SUBSET Sends, fault = "none",
             CloseSelf(S, again) PROVE Owners'
  BY <1>2, CloseKeepsOwners DEF Owners
<1> QED BY <1>1, <1>2, StepKinds, CodeKeepsOwners, ShareKeepsOwners, GetKeepsOwners, DeleteKeepsOwners
-----------------------------------------------------------------------------
(* The loop *)

LEMMA CallsJoin ==
  ASSUME NEW s \in Seq(Call), NEW t \in Seq(Call)
  PROVE  /\ s \o t \in Seq(Call)
         /\ Pends(s) \/ Pends(t) => Pends(s \o t)
         /\ s \o t # <<>> => s # <<>> \/ t # <<>>
<1>1. s \o t \in Seq(Call) /\ Len(s \o t) = Len(s) + Len(t)
  OBVIOUS
<1>2. \A i \in 1..Len(s) : (s \o t)[i] = s[i] /\ i \in DOMAIN (s \o t)
  OBVIOUS
<1>3. \A i \in 1..Len(t) : (s \o t)[Len(s) + i] = t[i] /\ Len(s) + i \in DOMAIN (s \o t)
  OBVIOUS
<1>4. Pends(s) \/ Pends(t) => Pends(s \o t)
  <2>1. ASSUME NEW i \in 1..Len(s), s[i] = DeleteCall PROVE Pends(s \o t)
    BY <1>2, <2>1 DEF Pends
  <2>2. ASSUME NEW i \in 1..Len(t), t[i] = DeleteCall PROVE Pends(s \o t)
    BY <1>3, <2>2 DEF Pends
  <2>3. DOMAIN s = 1..Len(s) /\ DOMAIN t = 1..Len(t)
    OBVIOUS
  <2> QED BY <2>1, <2>2, <2>3 DEF Pends
<1>5. s \o t # <<>> => s # <<>> \/ t # <<>>
  OBVIOUS
<1> QED BY <1>1, <1>4, <1>5

LEMMA TailPends ==
  ASSUME NEW s \in Seq(Call), s # <<>>, Head(s) # DeleteCall
  PROVE  Tail(s) \in Seq(Call) /\ (Pends(s) => Pends(Tail(s)))
<1>1. /\ Tail(s) \in Seq(Call) /\ Head(s) = s[1] /\ Len(s) \in Nat
      /\ DOMAIN s = 1..Len(s) /\ DOMAIN Tail(s) = 1..Len(s) - 1
      /\ \A j \in 1..Len(s) - 1 : Tail(s)[j] = s[j + 1]
  OBVIOUS
<1>2. ASSUME NEW i \in DOMAIN s, s[i] = DeleteCall PROVE Pends(Tail(s))
  <2>1. i # 1 /\ i \in 1..Len(s)
    BY <1>1, <1>2
  <2>2. i - 1 \in 1..Len(s) - 1 /\ (i - 1) + 1 = i
    BY <1>1, <2>1
  <2>3. i - 1 \in DOMAIN Tail(s) /\ Tail(s)[i - 1] = DeleteCall
    BY <1>1, <1>2, <2>2
  <2> QED BY <2>3 DEF Pends
<1> QED BY <1>1, <1>2 DEF Pends

LEMMA OneCalls ==
  /\ DeleteCall \in Call /\ <<DeleteCall>> \in Seq(Call) /\ Pends(<<DeleteCall>>)
  /\ \A c \in Sends : StreamCall(c) # DeleteCall /\ <<StreamCall(c)>> \in Seq(Call)
<1>1. DeleteCall \in Call /\ \A c \in Sends : StreamCall(c) \in Call
  BY DEF Call
<1>2. \A c \in Sends : StreamCall(c) # DeleteCall
  BY DEF StreamCall, DeleteCall
<1>3. <<DeleteCall>>[1] = DeleteCall /\ 1 \in DOMAIN <<DeleteCall>>
  OBVIOUS
<1> QED BY <1>1, <1>2, <1>3 DEF Pends

(* Whoever is to be deleted has somebody who calls. *)
LEMMA ClosedAreCalled ==
  ASSUME NEW S \in SUBSET Conn, NEW again \in SUBSET Sends
  PROVE  Deletions(S, again) \in Seq(Call) /\ (Closed(S) # {} => Pends(Deletions(S, again)))
<1> DEFINE T == {c \in S : code[c] # 0 \/ fdOf[c] \in DOMAIN pendingconns}
           n == Calls(T, again)
<1>1. IsFiniteSet(T) /\ IsFiniteSet(again)
  BY ClientAssumption, FS_Union, FS_Subset DEF Conn
<1>2. n \in Nat /\ (T # {} => n # 0)
  BY <1>1, FS_CardinalityType, FS_EmptySet DEF Calls
<1>3. Deletions(S, again) = [i \in 1..n |-> DeleteCall]
  BY DEF Deletions
<1>4. Closed(S) # {} => T # {}
  BY DEF Closed, Held, SendKeys, PendKeys, GetKeys
<1> HIDE DEF T, n
<1>5. Deletions(S, again) \in Seq(Call)
  BY <1>2, <1>3, OneCalls
<1>6. T # {} => 1 \in 1..n
  BY <1>2
<1>7. 1 \in 1..n => Pends(Deletions(S, again))
  BY <1>3 DEF Pends
<1> QED BY <1>4, <1>5, <1>6, <1>7

LEMMA QueueKeepsLoops ==
  ASSUME CInv, NEW calls \in Seq(Call), QueueInLoop(calls), pc = "events", pc' = "events",
         batch' = batch, deleteconns' # deleteconns => Pends(calls)
  PROVE  Loops'
<1>1. functors' = functors \o calls /\ functors \in Seq(Call)
  BY DEF QueueInLoop, CInv, Loops
<1>2. functors' \in Seq(Call) /\ (Pends(functors) \/ Pends(calls) => Pends(functors'))
  BY <1>1, CallsJoin
<1>3. deleteconns' # {} => Pends(functors) \/ Pends(calls)
  BY DEF CInv, Loops
<1>4. Pends(functors)' <=> Pends(functors')
  BY DEF Pends
<1> QED BY <1>2, <1>3, <1>4 DEF CInv, Loops

LEMMA LoopsNext ==
  ASSUME CInv, [Next]_vars
  PROVE  Loops'
<1> USE DEF CInv
<1>1. ASSUME UNCHANGED <<deleteconns, loopVars>> PROVE Loops'
  BY <1>1 DEF Loops, loopVars, Pends
<1>2. ASSUME pc = "events", UNCHANGED <<pc, deleteconns, functors, batch>> PROVE Loops'
  BY <1>2 DEF Loops, Pends
<1>3. CASE Poll
  BY <1>3 DEF Poll, ownerVars, Loops
<1>4. CASE HandleWakeup
  BY <1>2, <1>4 DEF HandleWakeup, Handles, ownerVars
<1>5. CASE HandleTimers
  <2>1. PICK S \in SUBSET Timed, again \in SUBSET Sends : CloseSelf(S, again)
    BY <1>5 DEF HandleTimers
  <2>2. S \in SUBSET Conn
    BY DEF Timed, Live
  <2>3. QueueInLoop(Deletions(S, again)) /\ deleteconns' = deleteconns \cup Closed(S)
    BY <2>1 DEF CloseSelf
  <2>4. pc = "events" /\ pc' = pc /\ batch' = batch
    BY <1>5 DEF HandleTimers, Handles
  <2> QED BY <2>2, <2>3, <2>4, ClosedAreCalled, QueueKeepsLoops
<1>6. ASSUME NEW c \in Conn, HandleConn(c) PROVE Loops'
  <2>1. CASE RecvOther(c) \/ RecvFileData(c)
    BY <1>2, <2>1 DEF RecvOther, RecvFileData, HandleMessage, Handles, ownerVars
  <2>2. ASSUME NEW k \in Code, RecvShareCode(c, k) PROVE Loops'
    BY <1>2, <2>2 DEF RecvShareCode, HandleMessage, Handles
  <2>3. CASE HandleDangling(c)
    BY <1>1, <2>3 DEF HandleDangling, Fails, ownerVars
  <2>4. CASE RecvAndClose(c)
    <3>1. QueueInLoop(Deletions({c}, {})) /\ deleteconns' = deleteconns \cup Closed({c})
      BY <2>4 DEF RecvAndClose, CloseSelf
    <3>2. pc = "events" /\ pc' = pc /\ batch' = batch
      BY <2>4 DEF RecvAndClose, HandleMessage, Handles
    <3> QED BY <3>1, <3>2, ClosedAreCalled, QueueKeepsLoops
  <2>5. CASE RecvAndStream(c)
    <3>1. c \in Sends /\ QueueInLoop(<<StreamCall(c)>>) /\ deleteconns' = deleteconns
      BY <2>5 DEF RecvAndStream, ownerVars
    <3>2. pc = "events" /\ pc' = pc /\ batch' = batch
      BY <2>5 DEF RecvAndStream, HandleMessage, Handles
    <3> QED BY <3>1, <3>2, OneCalls, QueueKeepsLoops
  <2> QED BY <1>6, <2>1, <2>2, <2>3, <2>4, <2>5 DEF HandleConn
<1>7. CASE HandleCmd
  <2>1. ASSUME NEW c \in Sends, NEW f \in Fd, DoShare(c, f) PROVE Loops'
    <3>1. pc = "events" /\ pc' = pc /\ batch' = batch
      BY <2>1 DEF DoShare, ReadsCommand, Handles
    <3>2. CASE UNCHANGED <<deleteconns, functors, woken>>
      BY <1>2, <3>1, <3>2
    <3>3. CASE QueueInLoop(<<DeleteCall>>)
      BY <3>1, <3>3, OneCalls, QueueKeepsLoops
    <3> QED BY <2>1, <3>2, <3>3 DEF DoShare
  <2>2. ASSUME NEW c \in Gets, NEW k \in Asked, NEW f \in Fd, DoGet(c, k, f) PROVE Loops'
    BY <1>2, <2>2 DEF DoGet, ReadsCommand, Handles
  <2>3. ASSUME NEW k \in Asked, DoChat(k) PROVE Loops'
    BY <1>2, <2>3 DEF DoChat, ReadsCommand, Handles, ownerVars
  <2> QED BY <1>7, <2>1, <2>2, <2>3 DEF HandleCmd
<1>8. CASE EndEvents
  BY <1>8 DEF EndEvents, ownerVars, Loops, Pends
<1>9. CASE DoPendingFunctors
  <2>1. ASSUME NEW c \in Conn, DeleteOne(c) PROVE Loops'
    BY <2>1 DEF DeleteOne, Runs, loopVars, Loops, Pends
  <2>2. CASE DeleteConn
    BY <2>2 DEF DeleteConn, Runs, ownerVars, Loops
  <2>3. ASSUME NEW c \in Sends, SendFileStream(c) PROVE Loops'
    <3>1. CASE life[c] = "freed"
      BY <1>1, <2>3, <3>1 DEF SendFileStream, Fails, ownerVars
    <3>2. CASE life[c] # "freed"
      <4>1. PICK calls \in {<<StreamCall(c)>>, <<>>} : QueueInLoop(calls)
        BY <2>3, <3>2 DEF SendFileStream
      <4>2. /\ pc = "functors" /\ pc' = pc /\ deleteconns' = deleteconns /\ active' = active
            /\ batch # <<>> /\ batch' = Tail(batch) /\ Head(batch) # DeleteCall
        BY <2>3, <3>2, OneCalls DEF SendFileStream, Runs, ownerVars
      <4>3. calls \in Seq(Call) /\ functors \in Seq(Call) /\ batch \in Seq(Call)
        <5>1. <<>> \in Seq(Call) /\ <<StreamCall(c)>> \in Seq(Call)
          BY OneCalls
        <5> QED BY <5>1 DEF Loops
      <4>4. functors' \in Seq(Call) /\ (functors' # <<>> => woken')
        <5>1. functors' = functors \o calls /\ woken' = (woken \/ calls # <<>>)
          BY <4>1, <4>2 DEF QueueInLoop
        <5>2. functors # <<>> => woken
          BY <4>2 DEF Loops
        <5> QED BY <4>3, <5>1, <5>2, CallsJoin
      <4>5. batch' \in Seq(Call) /\ (Pends(batch) => Pends(batch'))
        BY <4>2, <4>3, TailPends
      <4>6. Pends(batch)' <=> Pends(batch')
        BY DEF Pends
      <4> QED BY <4>2, <4>4, <4>5, <4>6 DEF Loops
    <3> QED BY <3>1, <3>2
  <2>4. CASE EndFunctors
    BY <2>4 DEF EndFunctors, ownerVars, Loops, Pends
  <2> QED BY <1>9, <2>1, <2>2, <2>3, <2>4 DEF DoPendingFunctors
<1>10. CASE UNCHANGED vars
  BY <1>1, <1>10 DEF vars, ownerVars
<1> QED BY <1>3, <1>4, <1>5, <1>6, <1>7, <1>8, <1>9, <1>10 DEF Next
-----------------------------------------------------------------------------
LEMMA ClientInit == Init => CInv
<1> SUFFICES ASSUME Init PROVE CInv
  OBVIOUS
<1>1. Live = {}
  BY DEF Init, Live
<1>2. ConnTypes
  BY DEF Init, ConnTypes
<1> DEFINE p1 == AddChannel(NewPoller, Timerfd, 1)
           p2 == AddChannel(p1, Wakeup, 2)
           p3 == AddChannel(p2, Commands, 3)
<1>3. WellFormed(p1) /\ p1.channels = [f \in {1} |-> Timerfd]
  <2>1. DOMAIN NewPoller.channels = {}
    BY DEF NewPoller
  <2>2. WellFormed(p1)
    BY <2>1, NewIsWellFormed, AddKeeps, Names DEF AddAsserts
  <2>3. p1.channels = [f \in {} \cup {1} |-> IF f = 1 THEN Timerfd ELSE NewPoller.channels[f]]
    BY <2>1 DEF AddChannel
  <2> QED BY <2>2, <2>3
<1> HIDE DEF p1
<1>4. /\ WellFormed(p2) /\ DOMAIN p2.channels = {1, 2}
      /\ p2.channels[1] = Timerfd /\ p2.channels[2] = Wakeup
  <2>1. WellFormed(p2)
    BY <1>3, AddKeeps, Names DEF AddAsserts
  <2>2. p2.channels = [f \in {1} \cup {2} |-> IF f = 2 THEN Wakeup ELSE p1.channels[f]]
    BY <1>3 DEF AddChannel
  <2> QED BY <1>3, <2>1, <2>2
<1> HIDE DEF p2
<1>5. /\ WellFormed(p3) /\ DOMAIN p3.channels = {1, 2, 3}
      /\ p3.channels[1] = Timerfd /\ p3.channels[2] = Wakeup /\ p3.channels[3] = Commands
  <2>1. WellFormed(p3)
    BY <1>4, AddKeeps, Names DEF AddAsserts
  <2>2. p3.channels = [f \in {1, 2} \cup {3} |-> IF f = 3 THEN Commands ELSE p2.channels[f]]
    BY <1>4 DEF AddChannel
  <2> QED BY <1>4, <2>1, <2>2
<1>6. poller = p3
  BY DEF Init, p1, p2
<1>7. Registered
  <2> HIDE DEF p3
  <2> QED BY <1>1, <1>5, <1>6 DEF Registered, RegisteredAs
<1>8. Entered /\ Located
  BY <1>1 DEF Init, Entered, Located
<1>9. Loops
  BY DEF Init, Loops
<1> QED BY <1>2, <1>7, <1>8, <1>9 DEF CInv, Owners

LEMMA ClientInv == Spec => []CInv
<1>1. CInv /\ [Next]_vars => CInv'
  BY RegisteredNext, OwnersNext, LoopsNext DEF CInv
<1> QED BY <1>1, ClientInit, PTL DEF Spec

(* The tables of the poller agree after any creations and deletions. *)
THEOREM PollerAgrees == Spec => []PollerIndexed
<1>1. CInv => PollerIndexed
  BY DEF CInv, Registered, RegisteredAs, WellFormed, PollerIndexed
<1> QED BY <1>1, ClientInv, PTL

(* The poller polls what lives, and nothing that was deleted. *)
THEOREM PollsTheLiving == Spec => []PolledAreLive
<1>1. CInv => PolledAreLive
  BY DEF CInv, Registered, RegisteredAs, WellFormed, PolledAreLive, UsedFds
<1> QED BY <1>1, ClientInv, PTL

(* A connection that runs can be closed. *)
THEOREM EachFindsItself == Spec => []FindsItself
<1>1. CInv => FindsItself
  <2> SUFFICES ASSUME CInv, fault # "code already there", NEW c \in Live \ deleteconns
               PROVE  Closed({c}) = {c}
    BY DEF FindsItself
  <2>1. c \in Conn /\ c # Null /\ Sends \cap Gets = {}
    BY ClientAssumption DEF Live
  <2>2. CASE c \in Sends /\ code[c] = 0
    <3>1. SendKeys({c}) = {} /\ PendKeys({c}) = {fdOf[c]} /\ GetKeys({c}) = {}
      BY <2>1, <2>2 DEF SendKeys, PendKeys, GetKeys
    <3>2. fdOf[c] \in DOMAIN pendingconns /\ pendingconns[fdOf[c]] = c
      BY <2>1, <2>2 DEF CInv, Owners, Located
    <3>3. Held(pendingconns, {fdOf[c]}) = {c} /\ Held(sendconns, {}) = {} /\ Held(getconns, {}) = {}
      BY <2>1, <3>2 DEF Held
    <3> QED BY <3>1, <3>3 DEF Closed
  <2>3. CASE c \in Sends /\ code[c] # 0
    <3>1. SendKeys({c}) = {code[c]} /\ PendKeys({c}) = {} /\ GetKeys({c}) = {}
      BY <2>1, <2>3 DEF SendKeys, PendKeys, GetKeys
    <3>2. code[c] \in DOMAIN sendconns /\ sendconns[code[c]] = c
      BY <2>1, <2>3 DEF CInv, Owners, Located
    <3>3. Held(sendconns, {code[c]}) = {c} /\ Held(pendingconns, {}) = {} /\ Held(getconns, {}) = {}
      BY <2>1, <3>2 DEF Held
    <3> QED BY <3>1, <3>3 DEF Closed
  <2>4. CASE c \in Gets
    <3>1. code[c] # 0 /\ code[c] \in DOMAIN getconns /\ getconns[code[c]] = c
      BY <2>1, <2>4 DEF CInv, Owners, Located
    <3>2. SendKeys({c}) = {} /\ PendKeys({c}) = {} /\ GetKeys({c}) = {code[c]}
      BY <2>1, <2>4, <3>1 DEF SendKeys, PendKeys, GetKeys
    <3>3. Held(getconns, {code[c]}) = {c} /\ Held(sendconns, {}) = {} /\ Held(pendingconns, {}) = {}
      BY <2>1, <3>1 DEF Held
    <3> QED BY <3>2, <3>3 DEF Closed
  <2> QED BY <2>1, <2>2, <2>3, <2>4 DEF Conn
<1> QED BY <1>1, ClientInv, PTL

(* What closes in an iteration is deleted before the next poll. *)
THEOREM ReclaimsBeforePoll == Spec => []ReclaimedBeforePoll
<1>1. CInv => ReclaimedBeforePoll
  BY DEF CInv, Loops, ReclaimedBeforePoll
<1> QED BY <1>1, ClientInv, PTL

(* The loop never sleeps while a functor waits. *)
THEOREM AlwaysWakes == Spec => []WakesForFunctors
<1>1. CInv => WakesForFunctors
  BY DEF CInv, Loops, WakesForFunctors
<1> QED BY <1>1, ClientInv, PTL

(* A channel still to be handled is deleted only by the GET that replaces  *)
(* its connection.                                                         *)
THEOREM OnlyReplacedDangle == Spec => DanglesOnlyReplaced
<1> DEFINE OnlyReplaced ==
      \A c \in active \cap Live :
        life'[c] = "freed" =>
          c \in Gets /\ \E d \in Gets : life[d] = "new" /\ life'[d] = "live" /\ code'[d] = code[c]
<1>1. CInv /\ [Next]_vars => [OnlyReplaced]_vars
  <2> SUFFICES ASSUME CInv, [Next]_vars, NEW c \in active \cap Live, life'[c] = "freed"
               PROVE  c \in Gets /\ \E d \in Gets : /\ life[d] = "new" /\ life'[d] = "live"
                                                    /\ code'[d] = code[c]
    OBVIOUS
  <2>1. c \in Conn /\ life[c] = "live" /\ pc = "events"
    BY DEF Live, CInv, Loops
  <2>2. life' # life
    BY <2>1
  <2>3. ASSUME NEW d \in Sends, NEW f \in Fd, DoShare(d, f) PROVE FALSE
    BY <2>1, <2>3 DEF DoShare, CInv, ConnTypes
  <2>4. ASSUME NEW d \in Conn, DeleteOne(d) PROVE FALSE
    BY <2>1, <2>4 DEF DeleteOne, Runs
  <2>5. ASSUME NEW d \in Gets, NEW k \in Asked, NEW f \in Fd, DoGet(d, k, f)
        PROVE  /\ c \in Replaced(k) /\ life[d] = "new" /\ life'[d] = "live" /\ code'[d] = k
               /\ fault = "none"
    BY <2>1, <2>5 DEF DoGet, ReadsCommand, Handles, Conn
  <2>6. ASSUME NEW k, c \in Replaced(k), fault = "none" PROVE c \in Gets /\ code[c] = k
    BY <2>6, ReplacedLives
  <2>7. \/ \E d \in Sends, f \in Fd : DoShare(d, f)
        \/ \E d \in Gets, k \in Asked, f \in Fd : DoGet(d, k, f)
        \/ \E d \in Conn : DeleteOne(d)
    BY <2>2, StepKinds DEF Rest, CloseSelf, connVars, RecvShareCode
  <2> QED BY <2>3, <2>4, <2>5, <2>6, <2>7
<1> QED BY <1>1, ClientInv, PTL DEF Spec, DanglesOnlyReplaced

-----------------------------------------------------------------------------
(* The types of what is left: the maps of the owners, the flags of the     *)
(* loop.                                                                   *)
MapOf(map, K, V) == DOMAIN map \subseteq K /\ map \in [DOMAIN map -> V]

Faults ==
  {"none", "event on a deleted connection", "call on a deleted connection",
   "code already there", "null connection"}

OwnerMaps ==
  /\ MapOf(pendingconns, Fd, Sends \cup {Null})
  /\ MapOf(sendconns, Code, Sends \cup {Null})
  /\ MapOf(getconns, Code, Gets \cup {Null})
  /\ deleteconns \subseteq Conn

Flags == timed \subseteq Gets /\ active \subseteq Channel /\ woken \in BOOLEAN /\ fault \in Faults

OTypes == OwnerMaps /\ Flags

LEMMA EmptyMap == \A K, V : MapOf(<<>>, K, V)
<1> TAKE K, V
<1>1. <<>> \in Seq(V) /\ Len(<<>>) = 0 /\ DOMAIN <<>> = 1..0
  BY EmptySeq
<1>2. DOMAIN <<>> = {}
  BY <1>1
<1>3. PICK n \in Nat : <<>> \in [1..n -> V]
  BY <1>1, SeqDef
<1> QED BY <1>2, <1>3 DEF MapOf

LEMMA PutMap ==
  ASSUME NEW K, NEW V, NEW map, MapOf(map, K, V), NEW k \in K, NEW v \in V
  PROVE  MapOf(Put(map, k, v), K, V)
BY DEF MapOf, Put

LEMMA EmptiedMap ==
  ASSUME NEW K, NEW V, Null \in V, NEW map, MapOf(map, K, V), NEW keys
  PROVE  MapOf(Emptied(map, keys), K, V) /\ Held(map, keys) \subseteq V \ {Null}
BY DEF MapOf, Emptied, Held

LEMMA RestrictMap ==
  ASSUME NEW K, NEW V, NEW map, MapOf(map, K, V), NEW k
  PROVE  MapOf(Restrict(map, DOMAIN map \ {k}), K, V)
BY DEF MapOf, Restrict

LEMMA CloseSelfTypes ==
  ASSUME OTypes, NEW S, NEW again, CloseSelf(S, again)
  PROVE  OwnerMaps' /\ woken' \in BOOLEAN /\ timed' = timed
<1>1. OwnerMaps
  BY DEF OTypes
<1>2. /\ deleteconns' = deleteconns \cup Closed(S)
      /\ sendconns' = Emptied(sendconns, SendKeys(S))
      /\ pendingconns' = Emptied(pendingconns, PendKeys(S))
      /\ getconns' = Emptied(getconns, GetKeys(S))
  BY DEF CloseSelf
<1>3. /\ Held(sendconns, SendKeys(S)) \subseteq Sends
      /\ Held(pendingconns, PendKeys(S)) \subseteq Sends
      /\ Held(getconns, GetKeys(S)) \subseteq Gets
  <2>1. /\ MapOf(sendconns, Code, Sends \cup {Null}) /\ MapOf(getconns, Code, Gets \cup {Null})
        /\ MapOf(pendingconns, Fd, Sends \cup {Null})
    BY <1>1 DEF OwnerMaps
  <2>2. \A V : (V \cup {Null}) \ {Null} \subseteq V
    OBVIOUS
  <2>3. Held(sendconns, SendKeys(S)) \subseteq Sends
    BY <2>1, <2>2, EmptiedMap
  <2>4. Held(pendingconns, PendKeys(S)) \subseteq Sends
    BY <2>1, <2>2, EmptiedMap
  <2> QED BY <2>1, <2>2, <2>3, <2>4, EmptiedMap
<1>4. deleteconns' \subseteq Conn
  BY <1>1, <1>2, <1>3 DEF OwnerMaps, Closed, Conn
<1>5. /\ MapOf(Emptied(sendconns, SendKeys(S)), Code, Sends \cup {Null})
      /\ MapOf(Emptied(pendingconns, PendKeys(S)), Fd, Sends \cup {Null})
      /\ MapOf(Emptied(getconns, GetKeys(S)), Code, Gets \cup {Null})
  BY <1>1, EmptiedMap DEF OwnerMaps
<1>6. OwnerMaps'
  BY <1>2, <1>4, <1>5 DEF OwnerMaps
<1>7. woken' \in BOOLEAN
  BY DEF CloseSelf, QueueInLoop, OTypes, Flags
<1> QED BY <1>6, <1>7 DEF CloseSelf, connVars

LEMMA TypesNext ==
  ASSUME CInv, OTypes, [Next]_vars
  PROVE  OTypes'
<1> USE DEF OTypes
<1>1. ASSUME UNCHANGED ownerVars PROVE OwnerMaps'
  BY <1>1 DEF OwnerMaps, ownerVars
<1>2. CASE UNCHANGED vars
  BY <1>1, <1>2 DEF vars, connVars, loopVars, Flags
<1>3. CASE Poll
  <2>1. Polled \subseteq Channel
    BY DEF CInv, Registered, RegisteredAs, WellFormed, Polled
  <2> QED BY <1>1, <1>3, <2>1 DEF Poll, connVars, Flags
<1>4. CASE HandleWakeup
  BY <1>1, <1>4 DEF HandleWakeup, Handles, connVars, Flags
<1>5. CASE HandleTimers
  <2>1. OwnerMaps' /\ woken' \in BOOLEAN /\ timed' = timed
    BY <1>5, CloseSelfTypes DEF HandleTimers
  <2> QED BY <1>5, <2>1 DEF HandleTimers, Handles, Flags
<1>6. ASSUME NEW c \in Sends, NEW f \in Fd, DoShare(c, f) PROVE OTypes'
  <2>1. OwnerMaps'
    <3>1. /\ MapOf(Put(pendingconns, f, c), Fd, Sends \cup {Null})
          /\ MapOf(Put(pendingconns, f, Null), Fd, Sends \cup {Null})
      BY PutMap DEF OwnerMaps
    <3>2. /\ pendingconns' \in {Put(pendingconns, f, c), Put(pendingconns, f, Null)}
          /\ deleteconns' \in {deleteconns, deleteconns \cup {c}}
          /\ UNCHANGED <<sendconns, getconns>>
      BY <1>6 DEF DoShare
    <3>3. deleteconns' \subseteq Conn
      BY <3>2 DEF OwnerMaps, Conn
    <3> QED BY <3>1, <3>2, <3>3 DEF OwnerMaps
  <2>2. Flags'
    BY <1>6 DEF DoShare, ReadsCommand, Handles, QueueInLoop, Flags
  <2> QED BY <2>1, <2>2
<1>7. ASSUME NEW c \in Gets, NEW k \in Asked, NEW f \in Fd, DoGet(c, k, f) PROVE OTypes'
  <2>1. OwnerMaps'
    <3>1. MapOf(Put(getconns, k, c), Code, Gets \cup {Null})
      BY PutMap, ClientAssumption DEF OwnerMaps
    <3>2. getconns' = Put(getconns, k, c) /\ UNCHANGED <<pendingconns, sendconns, deleteconns>>
      BY <1>7 DEF DoGet
    <3> QED BY <3>1, <3>2 DEF OwnerMaps
  <2>2. Flags'
    BY <1>7 DEF DoGet, ReadsCommand, Handles, Flags
  <2> QED BY <2>1, <2>2
<1>8. ASSUME NEW k \in Asked, DoChat(k) PROVE OTypes'
  BY <1>1, <1>8 DEF DoChat, ReadsCommand, Handles, connVars, Flags, Faults
<1>9. ASSUME NEW c \in Conn, HandleConn(c) PROVE OTypes'
  <2>1. CASE RecvOther(c)
    BY <1>1, <2>1 DEF RecvOther, HandleMessage, Handles, connVars, Flags
  <2>2. CASE RecvAndClose(c)
    <3>1. OwnerMaps' /\ woken' \in BOOLEAN /\ timed' = timed
      BY <2>2, CloseSelfTypes DEF RecvAndClose
    <3> QED BY <2>2, <3>1 DEF RecvAndClose, HandleMessage, Handles, Flags
  <2>3. CASE RecvFileData(c)
    BY <1>1, <2>3 DEF RecvFileData, HandleMessage, Handles, Flags
  <2>4. CASE RecvAndStream(c)
    BY <1>1, <2>4 DEF RecvAndStream, HandleMessage, Handles, QueueInLoop, connVars, Flags
  <2>5. ASSUME NEW k \in Code, RecvShareCode(c, k) PROVE OTypes'
    <3>1. Flags'
      BY <2>5 DEF RecvShareCode, HandleMessage, Handles, Flags, Faults
    <3>2. UNCHANGED <<getconns, deleteconns>>
      BY <2>5 DEF RecvShareCode
    <3>3. CASE UNCHANGED <<sendconns, pendingconns>>
      BY <3>1, <3>2, <3>3 DEF OwnerMaps
    <3>4. CASE /\ fdOf[c] \in DOMAIN pendingconns
               /\ sendconns' = Put(sendconns, k, pendingconns[fdOf[c]])
               /\ pendingconns' = Restrict(pendingconns, DOMAIN pendingconns \ {fdOf[c]})
      <4>1. pendingconns[fdOf[c]] \in Sends \cup {Null}
        BY <3>4 DEF OwnerMaps, MapOf
      <4>2. /\ MapOf(Put(sendconns, k, pendingconns[fdOf[c]]), Code, Sends \cup {Null})
            /\ MapOf(Restrict(pendingconns, DOMAIN pendingconns \ {fdOf[c]}), Fd, Sends \cup {Null})
        BY <4>1, PutMap, RestrictMap DEF OwnerMaps
      <4> QED BY <3>1, <3>2, <3>4, <4>2 DEF OwnerMaps
    <3> QED BY <2>5, <3>3, <3>4 DEF RecvShareCode, MovePendConn
  <2>6. CASE HandleDangling(c)
    BY <1>1, <2>6 DEF HandleDangling, Fails, connVars, loopVars, Flags, Faults
  <2> QED BY <1>9, <2>1, <2>2, <2>3, <2>4, <2>5, <2>6 DEF HandleConn
<1>10. CASE EndEvents
  BY <1>1, <1>10 DEF EndEvents, connVars, Flags
<1>11. ASSUME NEW c \in Conn, DeleteOne(c) PROVE OTypes'
  BY <1>11 DEF DeleteOne, Delete, loopVars, OwnerMaps, Flags
<1>12. CASE DeleteConn
  BY <1>1, <1>12 DEF DeleteConn, connVars, Flags
<1>13. ASSUME NEW c \in Sends, SendFileStream(c) PROVE OTypes'
  BY <1>1, <1>13 DEF SendFileStream, Fails, QueueInLoop, connVars, loopVars, Flags, Faults
<1>14. CASE EndFunctors
  BY <1>1, <1>14 DEF EndFunctors, connVars, Flags
<1> QED
  BY <1>2, <1>3, <1>4, <1>5, <1>6, <1>7, <1>8, <1>9, <1>10, <1>11, <1>12, <1>13, <1>14
     DEF Next, HandleCmd, DoPendingFunctors

(* The connections and the loop keep their types: no map of owners ever    *)
(* holds a connection of the wrong kind, whatever codes the server gives.  *)
THEOREM ClientTypes == Spec => []TypeOK
<1>1. ASSUME Init PROVE OTypes
  <2>1. /\ pendingconns = <<>> /\ sendconns = <<>> /\ getconns = <<>> /\ deleteconns = {}
        /\ timed = {} /\ active = {} /\ woken = FALSE /\ fault = "none"
    BY <1>1 DEF Init
  <2>2. OwnerMaps
    BY <2>1, EmptyMap DEF OwnerMaps
  <2> QED BY <2>1, <2>2 DEF OTypes, Flags, Faults
<1>2. CInv /\ OTypes /\ [Next]_vars => OTypes'
  BY TypesNext
<1>3. CInv /\ OTypes => TypeOK
  BY DEF CInv, ConnTypes, Loops, OTypes, OwnerMaps, MapOf, Flags, Faults, TypeOK
<1> QED BY <1>1, <1>2, <1>3, ClientInv, PTL DEF Spec
-----------------------------------------------------------------------------
(* The life of the connections *)

Freed == {c \in Conn : life[c] = "freed"}

LEMMA LifeParts ==
  ASSUME CInv
  PROVE  /\ Live \subseteq Conn /\ Live \cap Freed = {}
         /\ \A c \in Conn : life[c] = "new" => c \notin Live \cup Freed
         /\ fault # "code already there" => deleteconns \subseteq Live
  BY DEF CInv, Owners, Entered, Live, Freed

LEMMA CloseLives ==
  ASSUME CInv, fault = "none", NEW S
  PROVE  Closed(S) \subseteq Live \ deleteconns
  BY DEF Closed, Held, CInv, Owners, Entered

LEMMA LifecycleStep ==
  ASSUME CInv, [Next]_vars
  PROVE  Lifecycle!Next \/ UNCHANGED <<Live \ deleteconns, deleteconns, Freed>>
<1>1. CASE UNCHANGED <<life, deleteconns>>
  BY <1>1 DEF Live, Freed
<1>2. CASE Rest
  BY <1>1, <1>2 DEF Rest, ownerVars
<1>3. ASSUME NEW S \in SUBSET Conn, NEW again \in SUBSET Sends, fault = "none",
             CloseSelf(S, again) PROVE Lifecycle!Next
  <2>1. life' = life /\ deleteconns' = deleteconns \cup Closed(S)
    BY <1>3 DEF CloseSelf, connVars
  <2>2. Closed(S) \subseteq Live \ deleteconns /\ Closed(S) \in SUBSET Conn
    BY <1>3, CloseLives, LifeParts
  <2>3. Live' = Live /\ Freed' = Freed
    BY <2>1 DEF Live, Freed
  <2>4. Lifecycle!Close(Closed(S))
    BY <2>1, <2>2, <2>3 DEF Lifecycle!Close, Freed
  <2> QED BY <2>2, <2>4 DEF Lifecycle!Next
<1>4. ASSUME NEW c \in Sends, NEW k \in Code, RecvShareCode(c, k) PROVE UNCHANGED <<life, deleteconns>>
  BY <1>4 DEF RecvShareCode
<1>5. ASSUME NEW c \in Sends, NEW f \in Fd, DoShare(c, f) PROVE Lifecycle!Next
  <2>1. /\ life[c] = "new" /\ life' = [life EXCEPT ![c] = "live"] /\ fault = "none"
        /\ deleteconns' \in {deleteconns, deleteconns \cup {c}}
    BY <1>5 DEF DoShare, ReadsCommand, Handles
  <2>2. c \in Conn /\ c \notin Live /\ c \notin Freed /\ deleteconns \subseteq Live
    BY <2>1, LifeParts DEF Conn
  <2>3. Live' = Live \cup {c} /\ Freed' = Freed
    BY <2>1, <2>2 DEF Live, Freed, CInv, ConnTypes
  <2>4. Lifecycle!New(c)
    BY <2>2 DEF Lifecycle!New, Freed
  <2>5. Lifecycle!Open(c) \/ Lifecycle!OpenInVain(c)
    BY <2>1, <2>2, <2>3, <2>4 DEF Lifecycle!Open, Lifecycle!OpenInVain, Freed
  <2> QED BY <2>2, <2>5 DEF Lifecycle!Next
<1>6. ASSUME NEW c \in Gets, NEW k \in Asked, NEW f \in Fd, DoGet(c, k, f) PROVE Lifecycle!Next
  <2>1. /\ life[c] = "new" /\ fault = "none" /\ deleteconns' = deleteconns
        /\ life' = [d \in Conn |-> IF d = c THEN "live"
                                   ELSE IF d \in Replaced(k) THEN "freed" ELSE life[d]]
    BY <1>6 DEF DoGet, ReadsCommand, Handles
  <2>2. c \in Conn /\ c \notin Live /\ c \notin Freed /\ deleteconns \subseteq Live
    BY <2>1, LifeParts DEF Conn
  <2>3. /\ Replaced(k) \subseteq Live \ deleteconns
        /\ \A d \in Replaced(k) : Replaced(k) = {d}
    BY <2>1, ReplacedLives
  <2>4. Live' = (Live \ Replaced(k)) \cup {c} /\ Freed' = Freed \cup Replaced(k)
    BY <2>1, <2>2, <2>3, LifeParts DEF Live, Freed
  <2>5. Lifecycle!New(c)
    BY <2>2 DEF Lifecycle!New, Freed
  <2>6. CASE Replaced(k) = {}
    <3>1. Lifecycle!Open(c)
      BY <2>1, <2>2, <2>4, <2>5, <2>6 DEF Lifecycle!Open, Freed
    <3> QED BY <2>2, <3>1 DEF Lifecycle!Next
  <2>7. CASE Replaced(k) # {}
    <3>1. PICK d \in Replaced(k) : Replaced(k) = {d}
      BY <2>3, <2>7
    <3>2. d \in Live \ deleteconns /\ d \in Conn
      BY <2>3, <3>1, LifeParts
    <3>3. Lifecycle!Replace(c, d)
      BY <2>1, <2>2, <2>4, <2>5, <3>1, <3>2 DEF Lifecycle!Replace, Freed
    <3> QED BY <2>2, <3>2, <3>3 DEF Lifecycle!Next
  <2> QED BY <2>6, <2>7
<1>7. ASSUME NEW c \in Conn, DeleteOne(c) PROVE Lifecycle!Next
  <2>1. /\ c \in deleteconns /\ deleteconns' = deleteconns \ {c} /\ fault = "none"
        /\ life' = [life EXCEPT ![c] = "freed"]
    BY <1>7 DEF DeleteOne, Runs, Delete
  <2>2. c \in Live
    BY <2>1, LifeParts
  <2>3. Live' = Live \ {c} /\ Freed' = Freed \cup {c}
    BY <2>1, <2>2 DEF Live, Freed, CInv, ConnTypes
  <2>4. Lifecycle!Delete(c)
    BY <2>1, <2>2, <2>3 DEF Lifecycle!Delete, Freed
  <2> QED BY <2>4 DEF Lifecycle!Next
<1> QED BY <1>1, <1>2, <1>3, <1>4, <1>5, <1>6, <1>7, StepKinds

(* However closing, deletion and replacement come together, a connection   *)
(* goes through its life once: ownership in four maps and a queue of       *)
(* deletions implements the life cycle.                                    *)
THEOREM ClientImplementsLifecycle == Spec => LifecycleSpec
<1>1. Init => Lifecycle!Init
  BY DEF Init, Live, Lifecycle!Init
<1>2. CInv /\ [Next]_vars => [Lifecycle!Next]_Lifecycle!vars
  BY LifecycleStep DEF Lifecycle!vars, Freed
<1> QED BY <1>1, <1>2, ClientInv, PTL DEF Spec, LifecycleSpec, Lifecycle!Spec
-----------------------------------------------------------------------------
(* The order of the functors *)

LEMMA EmptyQueue == <<>> \in Seq(Call) /\ \A s \in Seq(Call) : s \o <<>> = s /\ <<>> \o s = s
  BY ConcatEmptySeq

LEMMA PrefixOfJoin ==
  ASSUME NEW s \in Seq(Call), NEW t \in Seq(Call)
  PROVE  Queued!IsPrefix(s, s \o t)
<1>1. Len(s) \in Nat /\ Len(t) \in Nat /\ Len(s) <= Len(s \o t)
  BY ConcatProperties, LenProperties
<1>2. SubSeq(s \o t, 1, Len(s)) = SubSeq(s, 1, Len(s))
  <2>1. CASE Len(s) = 0
    <3>1. SubSeq(s, 1, 0) = <<>> /\ SubSeq(s \o t, 1, 0) = <<>>
      BY SubSeqEmpty
    <3> QED BY <2>1, <3>1
  <2>2. CASE Len(s) # 0
    <3>1. 1 \in 1..Len(s) /\ Len(s) \in 1..Len(s)
      BY <2>2, <1>1
    <3> QED BY <3>1, SubSeqOfConcat1
  <2> QED BY <2>1, <2>2
<1> QED BY <1>1, <1>2 DEF Queued!IsPrefix

LEMMA TailOfJoin ==
  ASSUME NEW s \in Seq(Call), NEW t \in Seq(Call), s # <<>>
  PROVE  Tail(s \o t) = Tail(s) \o t
  OBVIOUS

(* Calls are added at the end. *)
LEMMA AddsCalls ==
  ASSUME NEW b \in Seq(Call), NEW f \in Seq(Call), NEW calls \in Seq(Call)
  PROVE  b \o (f \o calls) \in Seq(Call) /\ Queued!IsPrefix(b \o f, b \o (f \o calls))
<1>1. b \o f \in Seq(Call) /\ f \o calls \in Seq(Call)
  BY ConcatProperties
<1>2. (b \o f) \o calls = b \o (f \o calls)
  BY ConcatAssociative
<1>3. b \o (f \o calls) \in Seq(Call)
  BY <1>1, ConcatProperties
<1> QED BY <1>1, <1>2, <1>3, PrefixOfJoin

(* The first one runs, and calls are added at the end. *)
LEMMA RunsFirst ==
  ASSUME NEW b \in Seq(Call), NEW f \in Seq(Call), NEW calls \in Seq(Call), b # <<>>
  PROVE  /\ Tail(b) \o (f \o calls) \in Seq(Call) /\ b \o f # <<>>
         /\ Queued!IsPrefix(Tail(b \o f), Tail(b) \o (f \o calls))
<1>1. Tail(b) \in Seq(Call)
  BY HeadTailProperties
<1>2. b \o f # <<>>
  BY ConcatEqualIffEmpty
<1>3. Tail(b \o f) = Tail(b) \o f
  BY TailOfJoin
<1> QED BY <1>1, <1>2, <1>3, AddsCalls

(* The steps that touch the functors, and the others. *)
LEMMA LoopMoves ==
  ASSUME [Next]_vars
  PROVE  \/ UNCHANGED <<pc, batch, functors>>
         \/ Poll \/ EndEvents \/ EndFunctors \/ DeleteConn
         \/ \E S \in SUBSET Conn, again \in SUBSET Sends :
                CloseSelf(S, again) /\ UNCHANGED <<pc, batch>>
         \/ \E c \in Sends : RecvAndStream(c) /\ UNCHANGED <<pc, batch>>
         \/ \E c \in Sends, f \in Fd : DoShare(c, f) /\ UNCHANGED <<pc, batch>>
         \/ \E c \in Sends : SendFileStream(c) /\ life[c] # "freed"
<1>1. CASE UNCHANGED vars \/ HandleWakeup
  BY <1>1 DEF vars, loopVars, HandleWakeup
<1>2. CASE HandleTimers
  <2>1. PICK S \in SUBSET Timed, again \in SUBSET Sends : CloseSelf(S, again)
    BY <1>2 DEF HandleTimers
  <2>2. S \in SUBSET Conn
    BY DEF Timed, Live
  <2> QED BY <1>2, <2>1, <2>2 DEF HandleTimers
<1>3. CASE HandleCmd
  BY <1>3 DEF HandleCmd, DoShare, DoGet, DoChat, ReadsCommand
<1>4. ASSUME NEW c \in Conn, HandleConn(c)
      PROVE  \/ UNCHANGED <<pc, batch, functors>>
             \/ \E S \in SUBSET Conn, again \in SUBSET Sends :
                CloseSelf(S, again) /\ UNCHANGED <<pc, batch>>
             \/ c \in Sends /\ RecvAndStream(c) /\ UNCHANGED <<pc, batch>>
  <2>1. CASE RecvOther(c) \/ RecvFileData(c) \/ HandleDangling(c)
    BY <2>1 DEF RecvOther, RecvFileData, HandleDangling, HandleMessage, Fails, loopVars
  <2>2. CASE RecvAndClose(c)
    BY <2>2 DEF RecvAndClose, HandleMessage
  <2>3. CASE RecvAndStream(c)
    BY <2>3 DEF RecvAndStream, HandleMessage
  <2>4. ASSUME NEW k \in Code, RecvShareCode(c, k) PROVE UNCHANGED <<pc, batch, functors>>
    BY <2>4 DEF RecvShareCode, HandleMessage
  <2> QED BY <1>4, <2>1, <2>2, <2>3, <2>4 DEF HandleConn
<1>5. ASSUME NEW c \in Conn, DeleteOne(c) PROVE UNCHANGED <<pc, batch, functors>>
  BY <1>5 DEF DeleteOne, loopVars
<1>6. ASSUME NEW c \in Sends, SendFileStream(c), life[c] = "freed"
      PROVE  UNCHANGED <<pc, batch, functors>>
  BY <1>6 DEF SendFileStream, Fails, loopVars
<1> QED BY <1>1, <1>2, <1>3, <1>4, <1>5, <1>6 DEF Next, DoPendingFunctors

(* A batch exists only while it runs. *)
BatchRuns == pc # "functors" => batch = <<>>

LEMMA BatchRunsNext ==
  ASSUME BatchRuns, [Next]_vars
  PROVE  BatchRuns'
<1>1. CASE UNCHANGED <<pc, batch>>
  BY <1>1 DEF BatchRuns
<1>2. CASE Poll \/ EndEvents \/ EndFunctors
  BY <1>2 DEF Poll, EndEvents, EndFunctors, BatchRuns
<1>3. CASE DeleteConn \/ \E c \in Sends : SendFileStream(c)
  <2>1. pc = "functors" /\ pc' = pc
    BY <1>3 DEF DeleteConn, SendFileStream, Runs, Fails, loopVars
  <2> QED BY <2>1 DEF BatchRuns
<1> QED BY <1>1, <1>2, <1>3, LoopMoves

(* What a step does to the functors. *)
QueueStep ==
  \/ UNCHANGED <<batch, functors>>
  \/ \E calls \in Seq(Call) : batch' = batch /\ functors' = functors \o calls
  \/ batch = <<>> /\ batch' = functors /\ functors' = <<>>
  \/ \E calls \in Seq(Call) :
       batch # <<>> /\ batch' = Tail(batch) /\ functors' = functors \o calls

LEMMA QueueSteps ==
  ASSUME CInv, BatchRuns, [Next]_vars
  PROVE  QueueStep
<1>1. functors \in Seq(Call) /\ functors = functors \o <<>>
  BY EmptyQueue DEF CInv, Loops
<1>2. CASE UNCHANGED <<batch, functors>>
  BY <1>2 DEF QueueStep
<1>3. ASSUME NEW S \in SUBSET Conn, NEW again \in SUBSET Sends, CloseSelf(S, again),
             batch' = batch
      PROVE  QueueStep
  BY <1>3, ClosedAreCalled DEF CloseSelf, QueueInLoop, QueueStep
<1>4. ASSUME NEW c \in Sends, RecvAndStream(c) PROVE QueueStep
  <2>1. batch' = batch /\ functors' = functors \o <<StreamCall(c)>>
    BY <1>4 DEF RecvAndStream, HandleMessage, QueueInLoop
  <2> QED BY <2>1, OneCalls DEF QueueStep
<1>5. ASSUME NEW c \in Sends, NEW f \in Fd, DoShare(c, f) PROVE QueueStep
  <2>1. batch' = batch
    BY <1>5 DEF DoShare, ReadsCommand
  <2>2. functors' = functors \/ functors' = functors \o <<DeleteCall>>
    BY <1>5 DEF DoShare, QueueInLoop
  <2> QED BY <2>1, <2>2, OneCalls DEF QueueStep
<1>6. CASE Poll \/ EndEvents \/ EndFunctors
  BY <1>6 DEF Poll, EndEvents, EndFunctors, BatchRuns, QueueStep
<1>7. CASE DeleteConn
  <2>1. batch # <<>> /\ batch' = Tail(batch) /\ functors' = functors \o <<>>
    BY <1>1, <1>7 DEF DeleteConn, Runs
  <2> QED BY <2>1, EmptyQueue DEF QueueStep
<1>8. ASSUME NEW c \in Sends, SendFileStream(c), life[c] # "freed" PROVE QueueStep
  <2>1. PICK calls \in {<<StreamCall(c)>>, <<>>} : functors' = functors \o calls
    BY <1>8 DEF SendFileStream, QueueInLoop
  <2>2. batch # <<>> /\ batch' = Tail(batch)
    BY <1>8 DEF SendFileStream, Runs
  <2>3. calls \in Seq(Call)
    BY OneCalls, EmptyQueue
  <2> QED BY <2>1, <2>2, <2>3 DEF QueueStep
<1> QED BY <1>2, <1>3, <1>4, <1>5, <1>6, <1>7, <1>8, LoopMoves

(* Swapped, run in part and added to at once, the two vectors of functors  *)
(* are one queue: every functor runs, and in the order of queueing.        *)
THEOREM ClientImplementsQueue == Spec => FunctorsInOrder
<1>1. Init => Queued!Init /\ BatchRuns
  <2>1. Init => batch = <<>> /\ functors = <<>>
    BY DEF Init
  <2> QED BY <2>1, EmptyQueue DEF Queued!Init, BatchRuns
<1>2. ASSUME CInv, BatchRuns, [Next]_vars PROVE [Queued!Next]_(batch \o functors)
  <2>1. batch \in Seq(Call) /\ functors \in Seq(Call)
    BY <1>2 DEF CInv, Loops
  <2>2. CASE UNCHANGED <<batch, functors>>
    BY <2>2
  <2>3. ASSUME NEW calls \in Seq(Call), batch' = batch, functors' = functors \o calls
        PROVE  Queued!Next
    BY <2>1, <2>3, AddsCalls DEF Queued!Next, Queued!Enqueue
  <2>4. CASE batch = <<>> /\ batch' = functors /\ functors' = <<>>
    BY <2>1, <2>4, EmptyQueue
  <2>5. ASSUME NEW calls \in Seq(Call), batch # <<>>, batch' = Tail(batch),
               functors' = functors \o calls
        PROVE  Queued!Next
    BY <2>1, <2>5, RunsFirst DEF Queued!Next, Queued!Run
  <2> QED BY <1>2, <2>2, <2>3, <2>4, <2>5, QueueSteps DEF QueueStep
<1>3. BatchRuns /\ [Next]_vars => BatchRuns'
  BY BatchRunsNext
<1> QED BY <1>1, <1>2, <1>3, ClientInv, PTL DEF Spec, FunctorsInOrder, Queued!Spec

=============================================================================
