------------------------- MODULE MCForwardLifecycle -------------------------
(* Instances of ForwardLifecycle for TLC.                                  *)
EXTENDS ForwardLifecycle, TLC

CONSTANTS c1, c2, f1, f2, f3, t1, t2, t3, n1, n2, n3

(* Targets that ask for one route: ports 80 and 443 of one host.          *)
OneName == [t \in Target |-> n1]

(* They have different schemes.                                            *)
PortScheme == [t \in Target |-> t]

(* One target asks for a name of the banned list.                          *)
BannedName == [t \in Target |-> IF t = t3 THEN n3 ELSE n1]

(* Two connections that log in with one ID, or each with its own.          *)
SameID == [c \in Conn |-> "id"]

OwnID == [c \in Conn |-> c]

(* What the constants do not tell apart.                                   *)
Symmetry ==
  Permutations(Conn \ Deniable) \cup Permutations(Fwd \ (Faulty \cup Manual))
    \cup Permutations(RandomName)
=============================================================================
