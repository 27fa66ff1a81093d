--------------------------- MODULE EPoller_proofs ---------------------------
(***************************************************************************)
(* What the poller's operations keep, for any channels and descriptors.    *)
(***************************************************************************)
EXTENDS EPoller, TLAPS

(* A table between two operations: every channel has interest. *)
WellFormed(p) ==
  /\ p = [pollfds |-> p.pollfds, index |-> p.index, channels |-> p.channels, kernel |-> p.kernel]
  /\ p.pollfds \in Seq(Nat) /\ p.index \in [Channel -> Int]
  /\ DOMAIN p.channels \subseteq Nat
  /\ p.channels \in [DOMAIN p.channels -> Channel]
  /\ p.kernel = DOMAIN p.channels
  /\ Indexed(p)

LEMMA ChannelsDiffer ==
  ASSUME NEW p, WellFormed(p), NEW f \in DOMAIN p.channels, NEW g \in DOMAIN p.channels,
         p.channels[f] = p.channels[g]
  PROVE  f = g
  BY DEF WellFormed, Indexed

LEMMA NewIsWellFormed == WellFormed(NewPoller)
<1>1. NewPoller.index \in [Channel -> Int] /\ NewPoller.pollfds = <<>>
  BY DEF NewPoller
<1>2. DOMAIN NewPoller.channels = {} /\ NewPoller.kernel = {}
  BY DEF NewPoller
<1>3. NewPoller = [pollfds |-> NewPoller.pollfds, index |-> NewPoller.index,
                   channels |-> NewPoller.channels, kernel |-> NewPoller.kernel]
  BY DEF NewPoller
<1>4. NewPoller.channels \in [DOMAIN NewPoller.channels -> Channel]
  <2>1. NewPoller.channels = [f \in {} |-> CHOOSE c \in Channel : TRUE]
    BY DEF NewPoller
  <2> QED BY <2>1
<1> QED BY <1>1, <1>2, <1>3, <1>4 DEF WellFormed, Indexed

(* A channel that is not there may be added. *)
LEMMA AddKeeps ==
  ASSUME NEW p, WellFormed(p), NEW c \in Channel, NEW f \in Nat, AddAsserts(p, f),
         \A g \in DOMAIN p.channels : p.channels[g] # c
  PROVE  WellFormed(AddChannel(p, c, f))
<1> DEFINE q == AddChannel(p, c, f)
           n == Len(p.pollfds)
<1>1. /\ q.pollfds = Append(p.pollfds, f) /\ q.index = [p.index EXCEPT ![c] = n]
      /\ q.channels = [g \in DOMAIN p.channels \cup {f} |-> IF g = f THEN c ELSE p.channels[g]]
      /\ q.kernel = p.kernel \cup {f}
      /\ q = [pollfds |-> q.pollfds, index |-> q.index, channels |-> q.channels, kernel |-> q.kernel]
  BY DEF AddChannel
<1>2. p.pollfds \in Seq(Nat) /\ n \in Nat /\ p.index \in [Channel -> Int]
  BY DEF WellFormed
<1>3. /\ DOMAIN q.channels = DOMAIN p.channels \cup {f} /\ q.channels[f] = c
      /\ \A g \in DOMAIN p.channels : q.channels[g] = p.channels[g] /\ g # f
  BY <1>1 DEF AddAsserts
<1>4. /\ q.pollfds \in Seq(Nat) /\ DOMAIN q.pollfds = 1..n + 1 /\ q.pollfds[n + 1] = f
      /\ \A i \in 1..n : q.pollfds[i] = p.pollfds[i]
      /\ DOMAIN p.pollfds = 1..n
  BY <1>1, <1>2
<1>5. /\ q.index \in [Channel -> Int] /\ q.index[c] = n
      /\ \A d \in Channel : d # c => q.index[d] = p.index[d]
  BY <1>1, <1>2
<1>6. \A g \in DOMAIN p.channels : p.channels[g] \in Channel /\ p.channels[g] # c
  BY DEF WellFormed
<1> HIDE DEF q, n
<1>7. ASSUME NEW g \in DOMAIN q.channels
      PROVE  /\ q.index[q.channels[g]] + 1 \in DOMAIN q.pollfds
             /\ q.pollfds[q.index[q.channels[g]] + 1] = g
  <2>1. CASE g = f
    BY <1>2, <1>3, <1>4, <1>5, <2>1
  <2>2. CASE g # f
    <3>1. g \in DOMAIN p.channels /\ q.index[q.channels[g]] = p.index[p.channels[g]]
      BY <1>3, <1>5, <1>6, <2>2
    <3>2. p.index[p.channels[g]] + 1 \in 1..n /\ p.pollfds[p.index[p.channels[g]] + 1] = g
      <4>1. \A h \in DOMAIN p.channels :
              p.index[p.channels[h]] + 1 \in DOMAIN p.pollfds /\ p.pollfds[p.index[p.channels[h]] + 1] = h
        BY DEF WellFormed, Indexed
      <4> QED BY <1>4, <3>1, <4>1
    <3> DEFINE i == p.index[p.channels[g]] + 1
    <3>3. i \in 1..n + 1 /\ q.pollfds[i] = p.pollfds[i]
      <4>1. i \in 1..n /\ n \in Nat
        BY <1>2, <3>2
      <4> HIDE DEF i
      <4> QED BY <1>4, <4>1
    <3> QED BY <1>4, <3>1, <3>2, <3>3
  <2> QED BY <2>1, <2>2
<1>8. ASSUME NEW i \in DOMAIN q.pollfds
      PROVE  q.pollfds[i] \in DOMAIN q.channels /\ q.index[q.channels[q.pollfds[i]]] = i - 1
  <2>1. CASE i = n + 1
    BY <1>2, <1>3, <1>4, <1>5, <2>1
  <2>2. CASE i \in 1..n
    <3>1. p.pollfds[i] \in DOMAIN p.channels /\ p.index[p.channels[p.pollfds[i]]] = i - 1
      BY <1>4, <2>2 DEF WellFormed, Indexed
    <3> QED BY <1>3, <1>4, <1>5, <1>6, <2>2, <3>1
  <2> QED BY <1>2, <1>4, <2>1, <2>2
<1>9. /\ DOMAIN q.channels \subseteq Nat /\ q.channels \in [DOMAIN q.channels -> Channel]
      /\ q.kernel = DOMAIN q.channels
  BY <1>1, <1>3, <1>6 DEF WellFormed
<1>10. WellFormed(q)
  BY <1>1, <1>4, <1>5, <1>7, <1>8, <1>9 DEF WellFormed, Indexed
<1> QED BY <1>10 DEF q

(* A channel that is there may be closed: no assertion of updateChannel or *)
(* removeChannel fails, and the rest is as it was.                         *)
THEOREM CloseKeeps ==
  ASSUME NEW p, WellFormed(p), NEW f \in DOMAIN p.channels, NEW c, p.channels[f] = c
  PROVE  /\ CloseAsserts(p, c, f)
         /\ WellFormed(CloseChannel(p, c, f))
         /\ CloseChannel(p, c, f).channels = [g \in DOMAIN p.channels \ {f} |-> p.channels[g]]
<1> DEFINE k == p.index[c] + 1
           n == Len(p.pollfds)
           d == DisableAll(p, c, f)
           e == d.pollfds[n]
           q == CloseChannel(p, c, f)
<1>1. /\ p.pollfds \in Seq(Nat) /\ p.index \in [Channel -> Int] /\ n \in Nat
      /\ DOMAIN p.pollfds = 1..n /\ c \in Channel /\ f \in Nat
      /\ \A g \in DOMAIN p.channels : p.channels[g] \in Channel
  BY DEF WellFormed
<1>2. k \in 1..n /\ p.pollfds[k] = f /\ p.index[c] = k - 1 /\ k \in Int
  <2>1. p.index[p.channels[f]] + 1 \in DOMAIN p.pollfds /\ p.pollfds[p.index[p.channels[f]] + 1] = f
    BY DEF WellFormed, Indexed
  <2>2. p.index[c] \in Int
    BY <1>1
  <2> QED BY <1>1, <2>1, <2>2
<1>3. /\ d.pollfds = [p.pollfds EXCEPT ![k] = Hidden(f)] /\ d.index = p.index
      /\ d.channels = p.channels /\ d.kernel = p.kernel \ {f}
  BY DEF DisableAll, WellFormed
<1>4. /\ DOMAIN d.pollfds = 1..n /\ d.pollfds[k] = Hidden(f)
      /\ \A i \in 1..n : i # k => d.pollfds[i] = p.pollfds[i]
      /\ Len(d.pollfds) = n
  BY <1>1, <1>2, <1>3
<1>5. CloseAsserts(p, c, f)
  BY <1>1, <1>2, <1>3, <1>4 DEF CloseAsserts, DisableAsserts, RemoveAsserts
<1>6. /\ q.pollfds = [j \in 1..n - 1 |-> IF j = k THEN e ELSE d.pollfds[j]]
      /\ q.index = [MovedIndex(d, p.index[c]) EXCEPT ![c] = -1]
      /\ q.channels = [g \in DOMAIN p.channels \ {f} |-> p.channels[g]]
      /\ q.kernel = p.kernel \ {f}
      /\ q = [pollfds |-> q.pollfds, index |-> q.index, channels |-> q.channels, kernel |-> q.kernel]
  <2> DEFINE r == RemoveChannel(d, c, f)
  <2>1. /\ r.pollfds = [j \in 1..n - 1 |-> IF j = k THEN e ELSE d.pollfds[j]]
        /\ r.index = MovedIndex(d, p.index[c])
        /\ r.channels = [g \in DOMAIN p.channels \ {f} |-> p.channels[g]]
        /\ r.kernel = p.kernel \ {f}
        /\ r = [pollfds |-> r.pollfds, index |-> r.index, channels |-> r.channels, kernel |-> r.kernel]
    <3> HIDE DEF d
    <3> QED BY <1>3, <1>4 DEF RemoveChannel, LastEntry
  <2>2. q = [r EXCEPT !.index[c] = -1]
    BY DEF CloseChannel
  <2> HIDE DEF r, q
  <2> QED BY <2>1, <2>2
<1>e. e = d.pollfds[n]
  OBVIOUS
<1> HIDE DEF k, n, d, e, q
<1>7. \A g \in DOMAIN q.channels : g \in DOMAIN p.channels /\ g # f /\ q.channels[g] = p.channels[g]
                                   /\ p.channels[g] # c
  BY <1>6, ChannelsDiffer
<1>8. \A i \in 1..n : /\ p.pollfds[i] \in DOMAIN p.channels /\ p.pollfds[i] \in Nat
                      /\ p.index[p.channels[p.pollfds[i]]] = i - 1
  BY <1>1 DEF WellFormed, Indexed
<1>9. \A i \in 1..n : i # k => p.pollfds[i] # f
  <2>1. ASSUME NEW i \in 1..n, p.pollfds[i] = f PROVE i = k
    <3>1. p.index[c] = i - 1
      BY <1>8, <2>1
    <3> QED BY <1>2, <3>1
  <2> QED BY <2>1
<1>10. \A g \in DOMAIN p.channels : p.index[p.channels[g]] + 1 \in 1..n
                                    /\ p.pollfds[p.index[p.channels[g]] + 1] = g
                                    /\ p.index[p.channels[g]] \in Int
  BY <1>1 DEF WellFormed, Indexed
<1>11. /\ q.index \in [Channel -> Int]
       /\ \A g \in DOMAIN q.channels :
            q.index[q.channels[g]] = IF p.index[p.channels[g]] = n - 1 THEN k - 1
                                     ELSE p.index[p.channels[g]]
  <2>1. CASE k = n
    <3>1. q.index = [p.index EXCEPT ![c] = -1]
      BY <1>2, <1>3, <1>4, <1>6, <2>1 DEF MovedIndex
    <3>2. \A g \in DOMAIN q.channels : p.index[p.channels[g]] # n - 1
      BY <1>1, <1>2, <1>7, <1>10, <2>1
    <3> QED BY <1>1, <1>7, <3>1, <3>2
  <2>2. CASE k # n
    <3>1. n \in 1..n /\ e = p.pollfds[n] /\ e \in Nat /\ e \in DOMAIN p.channels
      BY <1>1, <1>2, <1>4, <1>e, <1>8, <2>2
    <3>2. LastEntry(d) = e
      BY <1>4, <1>e DEF LastEntry
    <3>3. Descriptor(LastEntry(d)) = e
      BY <3>1, <3>2 DEF Descriptor
    <3>4. q.index = [[p.index EXCEPT ![p.channels[e]] = p.index[c]] EXCEPT ![c] = -1]
      BY <1>2, <1>3, <1>4, <1>6, <2>2, <3>3 DEF MovedIndex
    <3>5. \A g \in DOMAIN q.channels : p.index[p.channels[g]] = n - 1 <=> g = e
      <4>1. p.index[p.channels[e]] = n - 1
        BY <1>8, <3>1
      <4>2. ASSUME NEW g \in DOMAIN q.channels, p.index[p.channels[g]] = n - 1 PROVE g = e
        <5>1. g \in DOMAIN p.channels /\ p.pollfds[p.index[p.channels[g]] + 1] = g
          BY <1>7, <1>10
        <5>2. p.index[p.channels[g]] + 1 = n
          BY <1>1, <4>2
        <5> QED BY <3>1, <5>1, <5>2
      <4> QED BY <4>1, <4>2
    <3>6. \A g \in DOMAIN q.channels : p.channels[g] = p.channels[e] <=> g = e
      BY <1>7, <3>1, ChannelsDiffer
    <3>7. /\ p.channels[e] \in Channel /\ p.index[c] = k - 1 /\ k - 1 \in Int /\ -1 \in Int
          /\ p.index \in [Channel -> Int]
      BY <1>1, <1>2, <3>1
    <3>8. q.index \in [Channel -> Int]
      <4> DEFINE m == [p.index EXCEPT ![p.channels[e]] = p.index[c]]
      <4>1. m \in [Channel -> Int]
        BY <3>7
      <4>2. q.index = [m EXCEPT ![c] = -1]
        BY <3>4
      <4> HIDE DEF m
      <4> QED BY <3>7, <4>1, <4>2
    <3>9. ASSUME NEW g \in DOMAIN q.channels
          PROVE  q.index[q.channels[g]] = IF g = e THEN k - 1 ELSE p.index[p.channels[g]]
      <4>1. q.channels[g] = p.channels[g] /\ p.channels[g] # c /\ p.channels[g] \in Channel
        BY <1>1, <1>7
      <4>2. p.channels[g] = p.channels[e] <=> g = e
        BY <3>6
      <4> QED BY <3>4, <3>7, <4>1, <4>2
    <3> QED BY <3>5, <3>8, <3>9
  <2> QED BY <2>1, <2>2
<1>12. /\ q.pollfds \in Seq(Nat) /\ DOMAIN q.pollfds = 1..n - 1
       /\ \A j \in 1..n - 1 : q.pollfds[j] = IF j = k THEN p.pollfds[n] ELSE p.pollfds[j]
  <2>1. \A j \in 1..n - 1 : q.pollfds[j] = IF j = k THEN p.pollfds[n] ELSE p.pollfds[j]
    BY <1>1, <1>2, <1>4, <1>e, <1>6
  <2>2. ASSUME NEW j \in 1..n - 1 PROVE q.pollfds[j] \in Nat
    <3>1. n \in Nat \ {0} /\ n \in 1..n /\ j \in 1..n
      BY <1>1, <1>2
    <3>2. p.pollfds[n] \in Nat /\ p.pollfds[j] \in Nat
      BY <1>8, <3>1
    <3> QED BY <2>1, <3>2
  <2>3. q.pollfds = [j \in 1..n - 1 |-> q.pollfds[j]] /\ n - 1 \in Nat
    BY <1>1, <1>2, <1>6
  <2> QED BY <2>1, <2>2, <2>3
<1>13. ASSUME NEW g \in DOMAIN q.channels
       PROVE  /\ q.index[q.channels[g]] + 1 \in DOMAIN q.pollfds
              /\ q.pollfds[q.index[q.channels[g]] + 1] = g
  <2> DEFINE i == p.index[p.channels[g]]
  <2>1. i \in Int /\ i + 1 \in 1..n /\ p.pollfds[i + 1] = g /\ i + 1 # k
    BY <1>1, <1>2, <1>7, <1>10
  <2>2. q.index[q.channels[g]] = IF i = n - 1 THEN k - 1 ELSE i
    BY <1>11
  <2> HIDE DEF i
  <2>3. CASE i = n - 1
    <3>1. k \in 1..n - 1 /\ k - 1 + 1 = k
      BY <1>1, <1>2, <2>1, <2>3
    <3>2. q.pollfds[k] = p.pollfds[n] /\ i + 1 = n
      BY <1>1, <1>12, <2>3, <3>1
    <3> QED BY <1>12, <2>1, <2>2, <2>3, <3>1, <3>2
  <2>4. CASE i # n - 1
    <3>1. i + 1 \in 1..n - 1
      BY <1>1, <2>1, <2>4
    <3> QED BY <1>12, <2>1, <2>2, <2>4, <3>1
  <2> QED BY <2>3, <2>4
<1>14. ASSUME NEW j \in DOMAIN q.pollfds
       PROVE  q.pollfds[j] \in DOMAIN q.channels /\ q.index[q.channels[q.pollfds[j]]] = j - 1
  <2> DEFINE i == IF j = k THEN n ELSE j
  <2>0. i = (IF j = k THEN n ELSE j) /\ j \in 1..n - 1
    BY <1>12
  <2> HIDE DEF i
  <2>1. i \in 1..n /\ i # k /\ q.pollfds[j] = p.pollfds[i] /\ j \in 1..n - 1
    <3>1. CASE j = k
      BY <1>1, <1>2, <1>12, <2>0, <3>1
    <3>2. CASE j # k
      <4>1. i = j
        BY <2>0, <3>2
      <4>2. q.pollfds[j] = p.pollfds[j]
        BY <1>12, <2>0, <3>2
      <4>3. j \in 1..n
        BY <1>1, <2>0
      <4> QED BY <2>0, <3>2, <4>1, <4>2, <4>3
    <3> QED BY <3>1, <3>2
  <2>2. p.pollfds[i] \in DOMAIN q.channels
    BY <1>6, <1>8, <1>9, <2>1
  <2>3. p.index[p.channels[p.pollfds[i]]] = i - 1
    BY <1>8, <2>1
  <2>4. q.index[q.channels[q.pollfds[j]]] = IF i - 1 = n - 1 THEN k - 1 ELSE i - 1
    BY <1>11, <2>1, <2>2, <2>3
  <2> QED BY <1>1, <1>2, <2>0, <2>1, <2>2, <2>4
<1>15. /\ DOMAIN q.channels \subseteq Nat /\ q.channels \in [DOMAIN q.channels -> Channel]
       /\ q.kernel = DOMAIN q.channels
  BY <1>1, <1>6 DEF WellFormed
<1>16. WellFormed(q)
  BY <1>6, <1>11, <1>12, <1>13, <1>14, <1>15 DEF WellFormed, Indexed
<1> QED BY <1>5, <1>6, <1>16 DEF q
=============================================================================
