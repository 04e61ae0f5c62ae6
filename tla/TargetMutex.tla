---------------------------- MODULE TargetMutex ----------------------------
(***************************************************************************)
(* What the force-connect lock promises: at any time at most one takeover  *)
(* handler is inside the critical section of a target, and a handler is    *)
(* inside at most one.                                                     *)
(***************************************************************************)
CONSTANTS
  Proc,     \* request handlers that take a target over
  Key,      \* targets
  NoKey     \* nil

VARIABLE inside   \* inside[p]: the target p is taking over, or NoKey

Init == inside = [p \in Proc |-> NoKey]

Enter(p, k) ==
  /\ inside[p] = NoKey
  /\ \A q \in Proc : inside[q] # k
  /\ inside' = [inside EXCEPT ![p] = k]

Leave(p) ==
  /\ inside[p] # NoKey
  /\ inside' = [inside EXCEPT ![p] = NoKey]

Next == \E p \in Proc : Leave(p) \/ \E k \in Key : Enter(p, k)

Spec == Init /\ [][Next]_inside
=============================================================================
