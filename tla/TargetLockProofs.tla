-------------------------- MODULE TargetLockProofs --------------------------
(***************************************************************************)
(* For any set of handlers, targets and lock objects: the reference        *)
(* counted registry of acquireForceConnectTargetLock is a mutex per        *)
(* target.                                                                 *)
(***************************************************************************)
EXTENDS TargetLock, TLAPS, FiniteSetTheorems

(* A handler has a target and an object from Lookup to Drop, and all that  *)
(* time the registry leads from the one to the other.                      *)
Captured ==
  \A p \in Proc :
    /\ pc[p] = "idle" => key[p] = NoKey /\ lock[p] = NoObj
    /\ pc[p] # "idle" => key[p] \in Key /\ lock[p] \in Obj /\ registry[key[p]] = lock[p]

(* An object serves one target only, and the entry of a target has a user. *)
Injective ==
  \A k, l \in Key : registry[k] # NoObj /\ registry[k] = registry[l] => k = l

Used == \A k \in Key : registry[k] # NoObj => \E p \in Proc : key[p] = k

(* refCount is the number of handlers between Lookup and Drop.             *)
Counted == \A o \in Obj : refCount[o] = Cardinality(Users(o))

(* The mutex of an object is locked by the handler that is inside.         *)
Owned ==
  /\ \A p \in Proc : pc[p] = "held" => mu[lock[p]] = p
  /\ \A o \in Obj : mu[o] # NoProc => pc[mu[o]] = "held" /\ lock[mu[o]] = o

IInv == TypeOK /\ Captured /\ Injective /\ Used /\ Counted /\ Owned

-----------------------------------------------------------------------------
(* Users of an object form a finite set, so that they can be counted.      *)
LEMMA UsersFinite ==
  ASSUME NEW o
  PROVE  IsFiniteSet(Users(o)) /\ Cardinality(Users(o)) \in Nat
<1>1. Users(o) \subseteq Proc
  BY DEF Users
<1>2. IsFiniteSet(Users(o))
  BY <1>1, ProcAssumption, FS_Subset
<1> QED
  BY <1>2, FS_CardinalityType

(* The invariant holds in the initial state.                               *)
LEMMA InitIInv == Init => IInv
<1> SUFFICES ASSUME Init PROVE IInv
  OBVIOUS
<1>1. TypeOK
  BY DEF Init, TypeOK, Control
<1>2. Captured /\ Injective /\ Used
  BY DEF Init, Captured, Injective, Used
<1>3. Counted
  <2> SUFFICES ASSUME NEW o \in Obj PROVE refCount[o] = Cardinality(Users(o))
    BY DEF Counted
  <2>1. Users(o) = {}
    BY ObjAssumption DEF Init, Users
  <2> QED
    BY <2>1, FS_EmptySet DEF Init
<1>4. Owned
  BY DEF Init, Owned
<1> QED
  BY <1>1, <1>2, <1>3, <1>4 DEF IInv

(* Lookup preserves the invariant, whether the entry is found or created.  *)
LEMMA LookupIInv ==
  ASSUME IInv, NEW p \in Proc, NEW k \in Key, NEW o \in Obj, Lookup(p, k, o)
  PROVE  IInv'
<1> USE ProcAssumption, KeyAssumption, ObjAssumption DEF Control
<1>1. pc[p] = "idle" /\ key[p] = NoKey /\ lock[p] = NoObj
  BY DEF IInv, Captured, Lookup
<1>2. refCount[o] \in Nat /\ refCount[o] = Cardinality(Users(o))
  BY DEF IInv, TypeOK, Counted
<1>3. registry[k] = NoObj => Users(o) = {}
  BY DEF Lookup, Fresh, Users
<1>4. refCount'[o] = refCount[o] + 1
  <2>1. registry[k] = NoObj => refCount[o] = 0
    BY <1>2, <1>3, FS_EmptySet
  <2>2. refCount'[o] = IF registry[k] # NoObj THEN refCount[o] + 1 ELSE 1
    BY DEF Lookup, IInv, TypeOK
  <2> QED
    BY <2>1, <2>2, <1>2
<1>5. TypeOK'
  BY <1>2, <1>4 DEF IInv, TypeOK, Lookup
<1>6. \A l \in Key \ {k} : registry[l] # NoObj => registry[l] # o
  BY DEF Lookup, Fresh, IInv, Injective
<1>7. Captured'
  BY <1>6 DEF IInv, Captured, Lookup, TypeOK, Fresh
<1>8. Injective'
  BY <1>6 DEF IInv, Injective, Lookup, TypeOK
<1>9. Used'
  BY <1>1 DEF IInv, Used, Lookup, TypeOK
<1>10. Counted'
  <2> SUFFICES ASSUME NEW x \in Obj PROVE refCount'[x] = Cardinality(Users(x)')
    BY DEF Counted
  <2>1. CASE x = o
    <3>1. Users(o)' = Users(o) \cup {p} /\ p \notin Users(o)
      BY <1>1 DEF Users, Lookup, IInv, TypeOK
    <3> QED
      BY <2>1, <3>1, <1>2, <1>4, UsersFinite, FS_AddElement
  <2>2. CASE x # o
    <3>1. Users(x)' = Users(x)
      BY <1>1, <2>2 DEF Users, Lookup, IInv, TypeOK
    <3>2. refCount'[x] = refCount[x]
      BY <2>2 DEF Lookup, IInv, TypeOK
    <3> QED
      BY <3>1, <3>2 DEF IInv, Counted
  <2> QED
    BY <2>1, <2>2
<1>11. Owned'
  BY <1>1 DEF IInv, Owned, Captured, Lookup, Fresh, TypeOK
<1> QED
  BY <1>5, <1>7, <1>8, <1>9, <1>10, <1>11 DEF IInv

(* Locking and unlocking the mutex change nothing of the registry.         *)
LEMMA MutexIInv ==
  ASSUME IInv, NEW p \in Proc, Lock(p) \/ Unlock(p)
  PROVE  IInv'
<1> USE ProcAssumption, KeyAssumption, ObjAssumption DEF Control
<1>1. TypeOK'
  BY DEF IInv, TypeOK, Captured, Lock, Unlock
<1>2. Captured' /\ Injective' /\ Used'
  BY DEF IInv, TypeOK, Captured, Injective, Used, Lock, Unlock
<1>3. Counted'
  BY DEF IInv, Counted, Users, Lock, Unlock
<1>4. Owned'
  BY DEF IInv, TypeOK, Captured, Owned, Lock, Unlock
<1> QED
  BY <1>1, <1>2, <1>3, <1>4 DEF IInv

(* Drop preserves the invariant: the entry goes with its last user.        *)
LEMMA DropIInv ==
  ASSUME IInv, NEW p \in Proc, Drop(p)
  PROVE  IInv'
<1> USE ProcAssumption, KeyAssumption, ObjAssumption DEF Control
<1>1. PICK o \in Obj : /\ pc[p] = "unlocked" /\ key[p] \in Key
                      /\ lock[p] = o /\ registry[key[p]] = o
  BY DEF IInv, Captured, Drop
<1>2. refCount[o] \in Nat /\ refCount[o] = Cardinality(Users(o))
  BY <1>1 DEF IInv, TypeOK, Counted
<1>3. p \in Users(o)
  BY <1>1 DEF Users
<1>4. /\ IsFiniteSet(Users(o) \ {p})
      /\ Cardinality(Users(o) \ {p}) = Cardinality(Users(o)) - 1
      /\ Cardinality(Users(o) \ {p}) \in Nat
  BY <1>3, UsersFinite, FS_RemoveElement, FS_CardinalityType
<1>5. refCount'[o] = Cardinality(Users(o) \ {p})
  BY <1>1, <1>2, <1>4 DEF Drop, IInv, TypeOK
<1>6. refCount'[o] = 0 <=> Users(o) = {p}
  BY <1>3, <1>4, <1>5, FS_EmptySet
<1>7. TypeOK'
  BY <1>1, <1>4, <1>5 DEF IInv, TypeOK, Drop
<1>8. \A q \in Proc \ {p} : pc[q] # "idle" /\ lock[q] # o => key[q] # key[p]
  BY <1>1 DEF IInv, Captured
<1>9. refCount'[o] = 0 => \A q \in Proc \ {p} : pc[q] # "idle" => key[q] # key[p]
  BY <1>1, <1>6, <1>8 DEF Users
<1>10. Captured'
  <2>1. ASSUME NEW q \in Proc, q # p, pc[q] # "idle"
        PROVE  key[q] \in Key /\ lock[q] \in Obj /\ registry'[key[q]] = lock[q]
    BY <2>1, <1>1, <1>9 DEF IInv, Captured, TypeOK, Drop
  <2> QED
    BY <2>1 DEF IInv, Captured, TypeOK, Drop
<1>11. Injective'
  BY <1>1 DEF IInv, Injective, TypeOK, Drop
<1>12. Used'
  <2> SUFFICES ASSUME NEW k \in Key, registry'[k] # NoObj
               PROVE  \E q \in Proc : key'[q] = k
    BY DEF Used
  <2>1. registry[k] # NoObj
    BY <1>1 DEF Drop, IInv, TypeOK
  <2>2. CASE k # key[p]
    BY <2>1, <2>2 DEF IInv, Used, TypeOK, Drop
  <2>3. CASE k = key[p]
    <3>1. Users(o) # {p}
      BY <1>1, <1>6, <2>3 DEF Drop, IInv, TypeOK
    <3>2. PICK q \in Users(o) : q # p
      BY <1>3, <3>1
    <3>3. q \in Proc /\ pc[q] # "idle" /\ lock[q] = o
      BY <1>1, <3>2 DEF Users, IInv, Captured
    <3>4. key[q] = key[p]
      BY <1>1, <3>3 DEF IInv, Captured, Injective
    <3> QED
      BY <2>3, <3>2, <3>3, <3>4 DEF Drop, IInv, TypeOK
  <2> QED
    BY <2>2, <2>3
<1>13. Counted'
  <2> SUFFICES ASSUME NEW x \in Obj PROVE refCount'[x] = Cardinality(Users(x)')
    BY DEF Counted
  <2>1. CASE x = o
    <3>1. Users(o)' = Users(o) \ {p}
      BY <1>1 DEF Users, Drop, IInv, TypeOK
    <3> QED
      BY <2>1, <3>1, <1>5
  <2>2. CASE x # o
    <3>1. Users(x)' = Users(x)
      BY <1>1, <2>2 DEF Users, Drop, IInv, TypeOK
    <3>2. refCount'[x] = refCount[x]
      BY <1>1, <2>2 DEF Drop, IInv, TypeOK
    <3> QED
      BY <3>1, <3>2 DEF IInv, Counted
  <2> QED
    BY <2>1, <2>2
<1>14. Owned'
  BY <1>1 DEF IInv, Owned, Captured, Drop, TypeOK
<1> QED
  BY <1>7, <1>10, <1>11, <1>12, <1>13, <1>14 DEF IInv

(* Every step of the specification preserves the invariant.                *)
LEMMA NextIInv == IInv /\ [Next]_vars => IInv'
<1> SUFFICES ASSUME IInv, [Next]_vars PROVE IInv'
  OBVIOUS
<1>1. CASE UNCHANGED vars
  <2>1. Counted'
    BY <1>1 DEF IInv, Counted, Users, vars
  <2> QED
    BY <1>1, <2>1 DEF vars, IInv, TypeOK, Captured, Injective, Used, Owned
<1>2. ASSUME NEW p \in Proc, Step(p) PROVE IInv'
  BY <1>2, MutexIInv, DropIInv DEF Step
<1>3. ASSUME NEW p \in Proc, NEW k \in Key, NEW o \in Obj, Lookup(p, k, o) PROVE IInv'
  BY <1>3, LookupIInv
<1> QED
  BY <1>1, <1>2, <1>3 DEF Next

(* The invariant holds in every state acquireForceConnectTargetLock can    *)
(* bring the registry to.                                                  *)
THEOREM Inductive == Spec => []IInv
BY InitIInv, NextIInv, PTL DEF Spec

(* Types, and with them a reference count that is never negative.          *)
THEOREM TypeCorrect == Spec => []TypeOK
<1>1. IInv => TypeOK
  BY DEF IInv
<1> QED
  BY <1>1, Inductive, PTL

(* Two takeovers of one target are never inside at once.                   *)
THEOREM MutexSafe == Spec => []MutualExclusion
<1>1. IInv => MutualExclusion
  BY DEF IInv, Captured, Owned, MutualExclusion
<1> QED
  BY <1>1, Inductive, PTL

(* The registry holds exactly the locks in use.                            *)
THEOREM RegistrySafe == Spec => []RegistryExact
<1>1. IInv => RegistryExact
  BY KeyAssumption DEF IInv, Captured, Used, RegistryExact
<1> QED
  BY <1>1, Inductive, PTL

(* acquireForceConnectTargetLock implements one mutex per target: a lock   *)
(* is an Enter, an unlock a Leave, and the work on the registry invisible. *)
THEOREM Refinement == Spec => ImplementsMutex
<1> DEFINE in == [p \in Proc |-> IF pc[p] = "held" THEN key[p] ELSE NoKey]
<1>1. Init => Abstract!Init
  BY DEF Init, Abstract!Init
<1>2. IInv /\ [Next]_vars => [Abstract!Next]_in
  <2> SUFFICES ASSUME IInv, [Next]_vars PROVE [Abstract!Next]_in
    OBVIOUS
  <2> USE KeyAssumption DEF Control
  <2>1. CASE UNCHANGED vars
    BY <2>1 DEF vars
  <2>2. ASSUME NEW p \in Proc, Lock(p) PROVE Abstract!Next
    <3>1. key[p] \in Key /\ pc[p] # "held" /\ in[p] = NoKey
      BY <2>2 DEF Lock, IInv, Captured
    <3>2. \A q \in Proc : in[q] # key[p]
      BY <2>2, <3>1, ProcAssumption DEF Lock, IInv, Captured, Owned
    <3>3. in' = [in EXCEPT ![p] = key[p]]
      BY <2>2, <3>1 DEF Lock, IInv, TypeOK
    <3> QED
      BY <3>1, <3>2, <3>3 DEF Abstract!Enter, Abstract!Next
  <2>3. ASSUME NEW p \in Proc, Unlock(p) PROVE Abstract!Next
    <3>1. in[p] # NoKey
      BY <2>3 DEF Unlock, IInv, Captured
    <3>2. in' = [in EXCEPT ![p] = NoKey]
      BY <2>3 DEF Unlock, IInv, TypeOK
    <3> QED
      BY <3>1, <3>2 DEF Abstract!Leave, Abstract!Next
  <2>4. ASSUME NEW p \in Proc, Drop(p) PROVE in' = in
    BY <2>4 DEF Drop, IInv, TypeOK
  <2>5. ASSUME NEW p \in Proc, NEW k \in Key, NEW o \in Obj, Lookup(p, k, o)
        PROVE  in' = in
    BY <2>5 DEF Lookup, IInv, TypeOK
  <2> QED
    BY <2>1, <2>2, <2>3, <2>4, <2>5 DEF Next, Step
<1> QED
  BY <1>1, <1>2, Inductive, PTL DEF Spec, ImplementsMutex, Abstract!Spec
=============================================================================
