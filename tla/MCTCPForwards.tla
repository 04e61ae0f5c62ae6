--------------------------- MODULE MCTCPForwards ---------------------------
(* Instances of TCPForwards for TLC.                                       *)
EXTENDS TCPForwards, TLC

CONSTANTS f1, f2, f3, f4, f5, n1, n2, n3, plainHost

(* Two SNI forwards of one host, one of another host, one of a banned host *)
(* and a plain forward.                                                    *)
HostNames == [f \in Fwd |-> CASE f \in {f1, f2} -> n1 [] f = f3 -> n2
                              [] f = f4 -> n3 [] OTHER -> plainHost]

(* They all want one port; the plain one would also take any port.         *)
OnePort == [f \in Fwd |-> IF f \in Sni THEN {1} ELSE {0, 1}]

(* The flags off; SNI load balancing; that with names forced and plain     *)
(* load balancing; the defaults of the program.                            *)
Off == [bindRandomPorts |-> FALSE, forceRequestedPorts |-> FALSE,
        bindRandomHosts |-> FALSE, forceRequestedHosts |-> FALSE,
        tcpLoadBalancer |-> FALSE, sniLoadBalancer |-> FALSE]

Balanced == [Off EXCEPT !.sniLoadBalancer = TRUE]

Forced == [Balanced EXCEPT !.forceRequestedHosts = TRUE, !.tcpLoadBalancer = TRUE]

Defaults == [Off EXCEPT !.bindRandomPorts = TRUE]

ThreeConfigs == {Off, Balanced, Forced}

OneConfig == {Defaults}

(* The forwards of one host.                                               *)
Symmetry == Permutations({f1, f2})
=============================================================================
