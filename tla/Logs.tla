-------------------------------- MODULE Logs --------------------------------
(***************************************************************************)
(* The two bounded tables of the server's logs.                            *)
(*                                                                         *)
(* Forwarder logs: goroutines write lines to per-forward files through a   *)
(* table of rotating writers, under a read lock as long as the writer is   *)
(* registered; idle writers are evicted and closed under the write lock.   *)
(* Writers are numbered in the order they are made; a writer holds its     *)
(* file open from its first line until it is closed (lumberjack).          *)
(*                                                                         *)
(* Origin IP audit: one row per address, the row seen longest ago gives    *)
(* way to a new one.                                                       *)
(***************************************************************************)
EXTENDS Naturals, Sequences, SequencesExt, FiniteSetsExt

CONSTANTS
  Logger,    \* goroutines that write lines
  File,      \* keys of log files
  MaxIdle,   \* forwardersLogWriterMaxIdle
  CleanupInterval,  \* forwardersLogCleanupInterval
  Horizon,   \* bound: the clock
  IP,        \* remote addresses
  MaxRows,   \* maxOriginIPAuditEntries
  MaxEvents  \* bound: audit records

ASSUME LogsAssumption ==
  /\ MaxIdle \in Nat \ {0} /\ CleanupInterval \in Nat /\ Horizon \in Nat
  /\ MaxRows \in Nat \ {0} /\ MaxEvents \in Nat

VARIABLES
  clock,     \* the time
  writers,   \* forwardersLogWriters: file -> writer
  lastUsed,  \* of the writers
  opened,    \* the writers that hold their file open, with their file
  lastCleanup,   \* forwardersLogLastCleanupNs; 0 is never
  readers,   \* who holds forwardersLogLock for reading
  line,      \* the lines being written
  auditRows,      \* originIPAuditData
  seen       \* history variable: the addresses in the order of the records

writerVars == <<writers, lastUsed, opened>>
logVars == <<clock, writerVars, lastCleanup, readers, line, auditRows, seen>>

Idle == [pc |-> "idle", file |-> "", now |-> 0, found |-> 0]
NoWriter == 0

LogTypeOK ==
  /\ clock \in 1 .. Horizon /\ lastCleanup \in 0 .. Horizon
  /\ DOMAIN writers = File /\ readers \subseteq Logger
  /\ \A g \in Logger : line[g].pc \in {"idle", "find", "write", "make", "clean"}
  /\ auditRows \subseteq IP /\ Len(seen) <= MaxEvents

LogInit ==
  /\ clock = 1 /\ lastCleanup = 0
  /\ writers = [f \in File |-> NoWriter] /\ lastUsed = <<>> /\ opened = {}
  /\ readers = {} /\ line = [g \in Logger |-> Idle]
  /\ auditRows = {} /\ seen = <<>>

Tick ==
  /\ clock < Horizon /\ clock' = clock + 1
  /\ UNCHANGED <<writerVars, lastCleanup, readers, line, auditRows, seen>>

-----------------------------------------------------------------------------
(* WriteForwardersLogLine takes the time, and then looks for the writer    *)
(* under the read lock, which it keeps while it writes.                    *)
WriteLine(g, f) ==
  /\ line[g].pc = "idle" /\ g \notin readers
  /\ line' = [line EXCEPT ![g] = [Idle EXCEPT !.pc = "find", !.file = f, !.now = clock]]
  /\ UNCHANGED <<clock, writerVars, lastCleanup, readers, auditRows, seen>>

(* A mutant: the read lock is only held to look the writer up.             *)
FindUnlocked(g) ==
  LET w == writers[line[g].file] IN
  /\ line[g].pc = "find"
  /\ line' = [line EXCEPT ![g].pc = IF w = NoWriter THEN "make" ELSE "write", ![g].found = w]
  /\ UNCHANGED <<clock, writerVars, lastCleanup, readers, auditRows, seen>>

Find(g) ==
  LET w == writers[line[g].file] IN
  /\ line[g].pc = "find"
  /\ readers' = IF w = NoWriter THEN readers ELSE readers \cup {g}
  /\ line' = [line EXCEPT ![g].pc = IF w = NoWriter THEN "make" ELSE "write", ![g].found = w]
  /\ UNCHANGED <<clock, writerVars, lastCleanup, auditRows, seen>>

(* The line is written under the writer's own lock.                        *)
WriteToFile(g) ==
  LET w == line[g].found IN
  /\ line[g].pc = "write"
  /\ lastUsed' = [lastUsed EXCEPT ![w] = line[g].now]
  /\ opened' = opened \cup {<<w, line[g].file>>}
  /\ readers' = readers \ {g}
  /\ line' = [line EXCEPT ![g].pc = "clean"]
  /\ UNCHANGED <<clock, writers, lastCleanup, auditRows, seen>>

(* There was no writer: getForwardersLogWriter, under the write lock, uses *)
(* one that was made in the meantime, makes one, or fails.                 *)
Make(g) ==
  LET f == line[g].file
      w == IF writers[f] = NoWriter THEN Len(lastUsed) + 1 ELSE writers[f]
  IN /\ line[g].pc = "make" /\ readers = {}
     /\ writers' = [writers EXCEPT ![f] = w]
     /\ lastUsed' = IF w > Len(lastUsed) THEN Append(lastUsed, line[g].now)
                    ELSE [lastUsed EXCEPT ![w] = line[g].now]
     /\ opened' = opened \cup {<<w, f>>}
     /\ line' = [line EXCEPT ![g].pc = "clean"]
     /\ UNCHANGED <<clock, lastCleanup, readers, auditRows, seen>>

MakeFails(g) ==
  /\ line[g].pc = "make" /\ readers = {} /\ writers[line[g].file] = NoWriter
  /\ line' = [line EXCEPT ![g].pc = "clean"]
  /\ UNCHANGED <<clock, writerVars, lastCleanup, readers, auditRows, seen>>

(* cleanupForwardersLogWriters, with the time of the line: at most once    *)
(* per interval, checked again under the write lock.                       *)
CleanupDue(g) == lastCleanup = 0 \/ line[g].now >= lastCleanup + CleanupInterval

NoCleanup(g) ==
  /\ line[g].pc = "clean" /\ ~CleanupDue(g)
  /\ line' = [line EXCEPT ![g] = Idle]
  /\ UNCHANGED <<clock, writerVars, lastCleanup, readers, auditRows, seen>>

Stale(g, w) == w # NoWriter /\ line[g].now > lastUsed[w] + MaxIdle

Cleanup(g) ==
  /\ line[g].pc = "clean" /\ CleanupDue(g) /\ readers = {}
  /\ lastCleanup' = line[g].now
  /\ writers' = [f \in File |-> IF Stale(g, writers[f]) THEN NoWriter ELSE writers[f]]
  /\ opened' = {o \in opened : ~\E f \in File : writers[f] = o[1] /\ Stale(g, o[1])}
  /\ line' = [line EXCEPT ![g] = Idle]
  /\ UNCHANGED <<clock, lastUsed, readers, auditRows, seen>>

-----------------------------------------------------------------------------
(* An attempt, a success or a rejection is recorded for an address; a new  *)
(* row at the limit replaces the one with the oldest LastSeen.             *)
LastSeen(ip) == Max({0} \cup {i \in DOMAIN seen : seen[i] = ip})

Oldest == CHOOSE r \in auditRows : \A s \in auditRows : LastSeen(r) <= LastSeen(s)

(* A mutant: the limit is checked too late.                                *)
getOrInitLate(ip) ==
  IF ip \in auditRows THEN auditRows
  ELSE IF Cardinality(auditRows) > MaxRows THEN (auditRows \ {Oldest}) \cup {ip}
  ELSE auditRows \cup {ip}

getOrInit(ip) ==
  IF ip \in auditRows THEN auditRows
  ELSE IF Cardinality(auditRows) >= MaxRows THEN (auditRows \ {Oldest}) \cup {ip}
  ELSE auditRows \cup {ip}

RecordOriginIP(ip) ==
  /\ Len(seen) < MaxEvents
  /\ auditRows' = getOrInit(ip) /\ seen' = Append(seen, ip)
  /\ UNCHANGED <<clock, writerVars, lastCleanup, readers, line>>

-----------------------------------------------------------------------------
LogNext ==
  \/ Tick
  \/ \E g \in Logger : \/ \E f \in File : WriteLine(g, f)
                       \/ Find(g) \/ WriteToFile(g) \/ Make(g) \/ MakeFails(g)
                       \/ NoCleanup(g) \/ Cleanup(g)

AuditNext == \E ip \in IP : RecordOriginIP(ip)

-----------------------------------------------------------------------------
(* A log file is open in the registered writer only, however evictions and *)
(* lines interleave: no line goes to a writer that was evicted, which      *)
(* would reopen the file for ever and rotate it behind its successor.      *)
OneWriterPerFile == \A o \in opened : writers[o[2]] = o[1]

(* The audit keeps the rows of the addresses seen most recently, as many   *)
(* as the limit allows.                                                    *)
AuditKeepsLatest ==
  LET all == ToSet(seen) IN
  /\ auditRows \subseteq all
  /\ Cardinality(auditRows) = Min({MaxRows, Cardinality(all)})
  /\ \A r \in auditRows, s \in all \ auditRows : LastSeen(s) < LastSeen(r)
=============================================================================
