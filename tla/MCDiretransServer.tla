------------------------- MODULE MCDiretransServer -------------------------
(***************************************************************************)
(* Model values and symmetry for model-checking DiretransServer: a host    *)
(* with three sharers, one more than its quota, and a host with one.       *)
(***************************************************************************)
EXTENDS DiretransServer, TLC

CONSTANTS ip1, ip2, p1, p2, p3, p4, c1, c2, f1

Ips == {ip1, ip2}
Ports == {p1, p2, p3, p4}
Addrs == {<<ip1, p1>>, <<ip1, p2>>, <<ip1, p3>>, <<ip2, p4>>}
TwoCodes == {c1, c2}
OneFile == {f1}

(* The ports of the first host, codes and files are only ever compared.    *)
Symmetry ==
  Permutations({p1, p2, p3}) \cup Permutations(Code) \cup Permutations(File)
=============================================================================
