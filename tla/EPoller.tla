------------------------------ MODULE EPoller ------------------------------
(***************************************************************************)
(* The table of descriptors behind the event loop (netlib/EPoller.cpp),    *)
(* as operators on a record:                                               *)
(*   pollfds   the array; -fd-1 stands for a channel without interest      *)
(*   index     Channel::index_, the place of a channel in the array (from  *)
(*             0), -1 while it is not there                                *)
(*   channels  channels_, from descriptor to channel                       *)
(*   kernel    the descriptors in the epoll set                            *)
(* The channels of this program read from construction (enableReading) to  *)
(* destruction (disableAll, remove) and never change their interest in     *)
(* between.                                                                *)
(***************************************************************************)
EXTENDS Integers, Sequences

CONSTANT Channel

NewPoller ==
  [pollfds |-> <<>>, index |-> [c \in Channel |-> -1],
   channels |-> [f \in {} |-> CHOOSE c \in Channel : TRUE], kernel |-> {}]

Hidden(f) == -f - 1

(* The descriptor of an entry of the array. *)
Descriptor(e) == IF e < 0 THEN -e - 1 ELSE e

(* updateChannel of a new channel c on descriptor f. *)
AddAsserts(p, f) == f \notin DOMAIN p.channels

AddChannel(p, c, f) ==
  [pollfds |-> Append(p.pollfds, f),
   index |-> [p.index EXCEPT ![c] = Len(p.pollfds)],
   channels |-> [g \in DOMAIN p.channels \cup {f} |-> IF g = f THEN c ELSE p.channels[g]],
   kernel |-> p.kernel \cup {f}]

(* updateChannel of a channel that loses its interest. *)
DisableAsserts(p, c, f) ==
  /\ f \in DOMAIN p.channels /\ p.channels[f] = c
  /\ p.index[c] + 1 \in DOMAIN p.pollfds /\ p.pollfds[p.index[c] + 1] \in {f, Hidden(f)}

(* A slip to compare with: the descriptor stays in the epoll set. *)
DisableAllSlip(p, c, f) == [p EXCEPT !.pollfds[p.index[c] + 1] = Hidden(f)]

DisableAll(p, c, f) ==
  [p EXCEPT !.pollfds[p.index[c] + 1] = Hidden(f), !.kernel = @ \ {f}]

(* removeChannel: the last entry takes the place of the one removed, and   *)
(* its channel is told.                                                    *)
RemoveAsserts(p, c, f) ==
  /\ f \in DOMAIN p.channels /\ p.channels[f] = c
  /\ p.index[c] + 1 \in DOMAIN p.pollfds /\ p.pollfds[p.index[c] + 1] = Hidden(f)

LastEntry(p) == p.pollfds[Len(p.pollfds)]

(* A slip: the channel of the entry that moves is not told. *)
MovedIndexSlip(p, i) == p.index

MovedIndex(p, i) ==
  IF i + 1 = Len(p.pollfds) THEN p.index
  ELSE [p.index EXCEPT ![p.channels[Descriptor(LastEntry(p))]] = i]

RemoveChannel(p, c, f) ==
  [pollfds |-> [j \in 1..Len(p.pollfds) - 1 |->
                  IF j = p.index[c] + 1 THEN LastEntry(p) ELSE p.pollfds[j]],
   index |-> MovedIndex(p, p.index[c]),
   channels |-> [g \in DOMAIN p.channels \ {f} |-> p.channels[g]],
   kernel |-> p.kernel]

(* The destructor of a UdpCom: disableAll, remove, close; the channel and  *)
(* its index are gone then.                                                *)
CloseChannel(p, c, f) ==
  LET q == RemoveChannel(DisableAll(p, c, f), c, f) IN [q EXCEPT !.index[c] = -1]

CloseAsserts(p, c, f) ==
  DisableAsserts(p, c, f) /\ RemoveAsserts(DisableAll(p, c, f), c, f)
-----------------------------------------------------------------------------
(* The array, the map and the indices tell the same. *)
Indexed(p) ==
  /\ \A f \in DOMAIN p.channels :
       /\ p.index[p.channels[f]] + 1 \in DOMAIN p.pollfds
       /\ p.pollfds[p.index[p.channels[f]] + 1] = f
  /\ \A i \in DOMAIN p.pollfds :
       /\ p.pollfds[i] \in DOMAIN p.channels
       /\ p.index[p.channels[p.pollfds[i]]] = i - 1
=============================================================================
