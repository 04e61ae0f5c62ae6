----------------------------- MODULE TargetLock -----------------------------
(***************************************************************************)
(* acquireForceConnectTargetLock (sshmuxer/requests.go): a registry of     *)
(* reference-counted mutexes, one per takeover target. An entry is created *)
(* by the first handler that asks for it and deleted by the last one that  *)
(* lets go; the registry itself is guarded by forceConnectTargetLocksMu,   *)
(* which makes each of its two critical sections one action here.          *)
(***************************************************************************)
EXTENDS Integers, FiniteSets

CONSTANTS
  Proc,                  \* request handlers that take a target over
  Key,                   \* targets, as normalised by forceConnectTargetKey
  Obj,                   \* forceConnectTargetLock objects in the heap
  NoProc, NoKey, NoObj   \* nil

ASSUME ProcAssumption == IsFiniteSet(Proc) /\ NoProc \notin Proc
ASSUME KeyAssumption  == NoKey \notin Key
ASSUME ObjAssumption  == NoObj \notin Obj

VARIABLES
  pc,         \* pc[p]: where handler p is
  key,        \* key[p]: the target it takes over
  lock,       \* lock[p]: the object its release function has captured
  registry,   \* forceConnectTargetLocks
  refCount,   \* refCount[o]: o.refCount
  mu          \* mu[o]: the handler that has locked o.mu

vars == <<pc, key, lock, registry, refCount, mu>>

Control == {"idle", "locking", "held", "unlocked"}

TypeOK ==
  /\ pc \in [Proc -> Control]
  /\ key \in [Proc -> Key \cup {NoKey}]
  /\ lock \in [Proc -> Obj \cup {NoObj}]
  /\ registry \in [Key -> Obj \cup {NoObj}]
  /\ refCount \in [Obj -> Nat]
  /\ mu \in [Obj -> Proc \cup {NoProc}]

Init ==
  /\ pc = [p \in Proc |-> "idle"]
  /\ key = [p \in Proc |-> NoKey]
  /\ lock = [p \in Proc |-> NoObj]
  /\ registry = [k \in Key |-> NoObj]
  /\ refCount = [o \in Obj |-> 0]
  /\ mu = [o \in Obj |-> NoProc]

(* An object nobody refers to: what &forceConnectTargetLock{} can return.  *)
Fresh(o) ==
  /\ \A p \in Proc : lock[p] # o
  /\ \A k \in Key : registry[k] # o

(* Mutant: an entry found in the registry is not counted.                  *)
LookupUncounted(p, k, o) ==
  /\ pc[p] = "idle"
  /\ IF registry[k] # NoObj THEN o = registry[k] ELSE Fresh(o)
  /\ registry' = [registry EXCEPT ![k] = o]
  /\ refCount' = [refCount EXCEPT ![o] = 1]
  /\ mu' = [mu EXCEPT ![o] = IF registry[k] # NoObj THEN @ ELSE NoProc]
  /\ pc' = [pc EXCEPT ![p] = "locking"]
  /\ key' = [key EXCEPT ![p] = k]
  /\ lock' = [lock EXCEPT ![p] = o]

(* Under the registry mutex: find or create the entry and count this user. *)
Lookup(p, k, o) ==
  /\ pc[p] = "idle"
  /\ IF registry[k] # NoObj THEN o = registry[k] ELSE Fresh(o)
  /\ registry' = [registry EXCEPT ![k] = o]
  /\ refCount' = [refCount EXCEPT ![o] = IF registry[k] # NoObj THEN @ + 1 ELSE 1]
  /\ mu' = [mu EXCEPT ![o] = IF registry[k] # NoObj THEN @ ELSE NoProc]
  /\ pc' = [pc EXCEPT ![p] = "locking"]
  /\ key' = [key EXCEPT ![p] = k]
  /\ lock' = [lock EXCEPT ![p] = o]

(* lock.mu.Lock(), outside the registry mutex.                             *)
Lock(p) ==
  /\ pc[p] = "locking"
  /\ mu[lock[p]] = NoProc
  /\ mu' = [mu EXCEPT ![lock[p]] = p]
  /\ pc' = [pc EXCEPT ![p] = "held"]
  /\ UNCHANGED <<key, lock, registry, refCount>>

(* Mutant: the mutex stays locked.                                         *)
UnlockKept(p) ==
  /\ pc[p] = "held"
  /\ pc' = [pc EXCEPT ![p] = "unlocked"]
  /\ UNCHANGED <<key, lock, registry, refCount, mu>>

(* release, first half: lock.mu.Unlock().                                  *)
Unlock(p) ==
  /\ pc[p] = "held"
  /\ mu' = [mu EXCEPT ![lock[p]] = NoProc]
  /\ pc' = [pc EXCEPT ![p] = "unlocked"]
  /\ UNCHANGED <<key, lock, registry, refCount>>

(* Mutant: the last user does not delete the entry.                        *)
DropKeep(p) ==
  LET o == lock[p] IN
  /\ pc[p] = "unlocked"
  /\ refCount' = [refCount EXCEPT ![o] = @ - 1]
  /\ pc' = [pc EXCEPT ![p] = "idle"]
  /\ key' = [key EXCEPT ![p] = NoKey]
  /\ lock' = [lock EXCEPT ![p] = NoObj]
  /\ UNCHANGED <<registry, mu>>

(* release, second half, under the registry mutex: the last user deletes   *)
(* the entry of its key.                                                   *)
Drop(p) ==
  LET o == lock[p] IN
  /\ pc[p] = "unlocked"
  /\ refCount' = [refCount EXCEPT ![o] = @ - 1]
  /\ registry' = IF refCount'[o] = 0 THEN [registry EXCEPT ![key[p]] = NoObj] ELSE registry
  /\ pc' = [pc EXCEPT ![p] = "idle"]
  /\ key' = [key EXCEPT ![p] = NoKey]
  /\ lock' = [lock EXCEPT ![p] = NoObj]
  /\ UNCHANGED mu

Step(p) == Lock(p) \/ Unlock(p) \/ Drop(p)

Next == \E p \in Proc : Step(p) \/ \E k \in Key, o \in Obj : Lookup(p, k, o)

Spec == Init /\ [][Next]_vars

(* A handler inside its critical section leaves it, and a sync.Mutex does  *)
(* not starve a waiter.                                                    *)
FairSpec == Spec /\ \A p \in Proc : /\ WF_vars(Unlock(p)) /\ WF_vars(Drop(p))
                                    /\ SF_vars(Lock(p))

-----------------------------------------------------------------------------
(* Properties.                                                             *)

(* The handlers that will still use or count down o.                       *)
Users(o) == {p \in Proc : lock[p] = o}

(* Takeovers of one target are serialised, although the mutex they use is  *)
(* created and thrown away as handlers come and go.                        *)
MutualExclusion ==
  \A p, q \in Proc : pc[p] = "held" /\ pc[q] = "held" /\ key[p] = key[q] => p = q

(* The registry holds exactly the entries in use: it neither forgets a     *)
(* lock somebody waits for nor grows with the targets of the past.         *)
RegistryExact ==
  \A k \in Key : /\ \A p \in Proc : key[p] = k => registry[k] = lock[p]
                 /\ registry[k] # NoObj => \E p \in Proc : key[p] = k

(* The lock is a mutex per target: it implements TargetMutex.              *)
Abstract == INSTANCE TargetMutex
  WITH inside <- [p \in Proc |-> IF pc[p] = "held" THEN key[p] ELSE NoKey]

ImplementsMutex == Abstract!Spec

(* Every handler that asks for the lock gets it.                           *)
LockGranted == \A p \in Proc : pc[p] = "locking" ~> pc[p] = "held"
=============================================================================
