------------------------------ MODULE Transfer ------------------------------
(***************************************************************************)
(* One proxied stream: how it is opened (TCPHolder.Handle, the accept loop *)
(* of a forward, handleAlias), copyBothInternal with its two goroutines,   *)
(* the idle deadline, and the exchange of the bandwidth profile under the  *)
(* running copy (SetBandwidthProfile, ReconcileBandwidthProfiles).         *)
(*                                                                         *)
(* Direction "in" copies from the writer (a socket, with the idle          *)
(* deadline) to the reader (a client or an SSH channel), "out" the other   *)
(* way round. The close of an SSH channel only sends a message: the        *)
(* operations on it return when the client answers it, closes the channel  *)
(* itself or its connection ends.  Every Read moves one chunk.  Profile    *)
(* objects are numbered in the order they are installed; count[d][i] is    *)
(* the byte counter of profile i, and ptr[d] the counter a Read has        *)
(* resolved but not yet added to.  moved and stray are history variables.  *)
(***************************************************************************)
EXTENDS Integers

CONSTANTS
  Callers,       \* who opens the stream: "tcp", "forward" or "alias"
  IdleTimeout,   \* idle-connection-timeout, in units of a clock tick
  Profiles,      \* bandwidth settings of the user: limited or not
  MaxChunks,     \* bound: chunks per direction
  MaxExchanges   \* bound: exchanges of the profile

ASSUME TransferAssumption ==
  /\ Callers \subseteq {"tcp", "forward", "alias"}
  /\ IdleTimeout \in Nat \ {0} /\ MaxChunks \in Nat /\ MaxExchanges \in Nat

Dir == {"in", "out"}

VARIABLES
  caller,     \* the opener of this stream
  stage,      \* how far it has come
  owner,      \* may the message queue of the owner take a line?
  cp,         \* the copy goroutines
  ptr,        \* the counter resolved by a Read
  count,      \* DataInBytes and DataOutBytes of the profiles
  profile,    \* the installed profile: its number
  limit,      \* and its setting
  migrating,  \* the counters SetBandwidthProfile has yet to fold in
  ends,       \* which ends are open
  gone,       \* has the SSH client closed the channel, or its connection ended?
  cancelled,  \* was the context of the copy cancelled?
  sinceRefresh, sinceActivity, \* of the writer: idle deadline, operations
  idleGap,    \* the idle time for which the deadline ended the copy, or None
  moved,      \* chunks read
  stray       \* chunks added to a profile whose total was already migrated

trVars == <<caller, stage, owner, cp, ptr, count, profile, limit, migrating,
            ends, gone, cancelled, sinceRefresh, sinceActivity, idleGap, moved,
            stray>>

histVars == <<moved, stray>>
openVars == <<caller, stage, owner, gone>>
profVars == <<profile, limit, migrating>>
idleVars == <<sinceRefresh, sinceActivity, idleGap>>
clocks == <<sinceRefresh, sinceActivity>>

None == -1
Numbers == 0 .. MaxExchanges

TrTypeOK ==
  /\ caller \in Callers
  /\ stage \in {"new", "route", "say", "dial", "copy", "over"}
  /\ owner \in {"takes", "stuck"}
  /\ cp \in [Dir -> {"off", "read", "resolved", "throttled", "write",
                     "closing", "done"}]
  /\ ptr \in [Dir -> Numbers \cup {None}]
  /\ count \in [Dir -> [Numbers -> Nat]]
  /\ profile \in Numbers /\ limit \in Profiles
  /\ migrating \subseteq Dir
  /\ ends \in SUBSET {"reader", "writer"} /\ gone \in BOOLEAN
  /\ cancelled \in BOOLEAN /\ idleGap \in 0 .. IdleTimeout \cup {None}
  /\ sinceRefresh \in 0 .. IdleTimeout
  /\ sinceActivity \in 0 .. IdleTimeout
  /\ moved \in [Dir -> 0 .. MaxChunks] /\ stray \in [Dir -> 0 .. MaxChunks]

TrInit ==
  /\ caller \in Callers /\ stage = "new" /\ owner = "takes"
  /\ cp = [d \in Dir |-> "off"] /\ ptr = [d \in Dir |-> None]
  /\ count = [d \in Dir |-> [i \in Numbers |-> 0]]
  /\ profile = 0 /\ limit \in Profiles /\ migrating = {}
  /\ ends = {} /\ gone = FALSE /\ cancelled = FALSE
  /\ sinceRefresh = 0 /\ sinceActivity = 0 /\ idleGap = None
  /\ moved = [d \in Dir |-> 0] /\ stray = [d \in Dir |-> 0]

-----------------------------------------------------------------------------
(* Opening.  A connection is accepted, refused by the IP filter, without   *)
(* ClientHello or backend, and otherwise routed.                           *)
OpenStream ==
  /\ stage = "new" /\ stage' = "route" /\ ends' = {"reader"}
  /\ UNCHANGED <<caller, owner, gone, cp, ptr, count, profVars, cancelled, idleVars,
                 histVars>>

GiveUp ==
  /\ stage \in {"route", "dial"} /\ stage' = "over" /\ ends' = {}
  /\ UNCHANGED <<caller, owner, gone, cp, ptr, count, profVars, cancelled, idleVars,
                 histVars>>

(* An alias tells the owner of the backend about the visitor, with a send  *)
(* that waits for the owner's queue; the others never wait.                *)
Route ==
  /\ stage = "route"
  /\ stage' = IF caller = "alias" THEN "say" ELSE "dial"
  /\ UNCHANGED <<caller, owner, gone, cp, ptr, count, profVars, ends, cancelled,
                 idleVars, histVars>>

(* The owner's queue fills up or is drained; see Session.                  *)
OwnerQueue ==
  /\ stage \in {"route", "say"}
  /\ owner' = IF owner = "takes" THEN "stuck" ELSE "takes"
  /\ UNCHANGED <<caller, stage, gone, cp, ptr, count, profVars, ends, cancelled,
                 idleVars, histVars>>

Said ==
  /\ stage = "say" /\ owner = "takes" /\ stage' = "dial"
  /\ UNCHANGED <<caller, owner, gone, cp, ptr, count, profVars, ends, cancelled,
                 idleVars, histVars>>

(* The unix socket of the backend, or an SSH channel to its client.        *)
Dial ==
  /\ stage = "dial" /\ stage' = "copy"
  /\ ends' = {"reader", "writer"} /\ cp' = [d \in Dir |-> "read"]
  /\ sinceRefresh' = 0 /\ sinceActivity' = 0
  /\ UNCHANGED <<caller, owner, gone, ptr, count, profVars, cancelled, idleGap,
                 histVars>>

-----------------------------------------------------------------------------
(* The copy.                                                               *)
Source(d) == IF d = "in" THEN "writer" ELSE "reader"
Sink(d) == IF d = "in" THEN "reader" ELSE "writer"

(* refreshDeadline, before each operation on the writer: at most once per  *)
(* quarter of the timeout.                                                 *)
Quarter == IF IdleTimeout \div 4 = 0 THEN 1 ELSE IdleTimeout \div 4

(* A mutant: the deadline is refreshed once per timeout.                   *)
RefreshRarely ==
  /\ sinceRefresh' = IF sinceRefresh < IdleTimeout - 1 THEN sinceRefresh ELSE 0
  /\ sinceActivity' = 0

Refresh ==
  /\ sinceRefresh' = IF sinceRefresh < Quarter THEN sinceRefresh ELSE 0
  /\ sinceActivity' = 0

(* Where a goroutine goes next; an operation on the writer refreshes.      *)
Goto(d, pc) ==
  /\ cp' = [cp EXCEPT ![d] = pc]
  /\ IF <<d, pc>> \in {<<"in", "read">>, <<"out", "write">>}
     THEN Refresh ELSE UNCHANGED clocks

(* Who counts: the streams that go to or come from an SSH channel.         *)
Counting == caller # "tcp"

(* For them the reader is an SSH channel.                                  *)
Channel(end) == end = "reader" /\ Counting

(* The client closes the channel, answers its close, or its connection     *)
(* ends: only then does an operation blocked on the channel return.        *)
ClientCloses ==
  /\ stage = "copy" /\ Counting /\ ~gone /\ gone' = TRUE
  /\ UNCHANGED <<caller, stage, owner, cp, ptr, count, profVars, ends, cancelled,
                 idleVars, histVars>>

(* Read returns a chunk, also of a channel that was closed on this side    *)
(* only, or that has some in its buffer.  countingReader resolves the      *)
(* counter of the profile installed at this moment ...                     *)
Read(d) ==
  /\ cp[d] = "read" /\ (Source(d) \in ends \/ Channel(Source(d)))
  /\ moved[d] < MaxChunks
  /\ moved' = [moved EXCEPT ![d] = @ + 1]
  /\ IF Counting
     THEN Goto(d, "resolved") /\ ptr' = [ptr EXCEPT ![d] = profile]
     ELSE Goto(d, "write") /\ UNCHANGED ptr
  /\ UNCHANGED <<openVars, count, profVars, ends, cancelled, idleGap, stray>>

(* The counter in hand is the installed one, or is still to be folded in.  *)
Folded(d) == \/ ptr[d] = profile
             \/ d \in migrating /\ ptr[d] = profile - 1

(* ... and adds to it; rateLimitedReader then takes the limiter.           *)
Add(d) ==
  /\ cp[d] = "resolved"
  /\ count' = [count EXCEPT ![d][ptr[d]] = @ + 1]
  /\ stray' = [stray EXCEPT ![d] = @ + (IF Folded(d) THEN 0 ELSE 1)]
  /\ ptr' = [ptr EXCEPT ![d] = None]
  /\ Goto(d, IF limit = "limited" THEN "throttled" ELSE "write")
  /\ UNCHANGED <<openVars, profVars, ends, cancelled, idleGap, moved>>

(* A mutant: the wait ignores the context and waits for its tokens.        *)
ThrottledDeaf(d) ==
  /\ cp[d] = "throttled" /\ ~cancelled
  /\ Goto(d, "write")
  /\ UNCHANGED <<openVars, ptr, count, profVars, ends, cancelled, idleGap,
                 histVars>>

(* waitForTokens: the tokens are granted, or the context is cancelled.     *)
Throttled(d) ==
  /\ cp[d] = "throttled"
  /\ Goto(d, IF cancelled THEN "closing" ELSE "write")
  /\ UNCHANGED <<openVars, ptr, count, profVars, ends, cancelled, idleGap,
                 histVars>>

(* An end takes data unless it is closed on this side or by the client.    *)
Writable(end) == end \in ends /\ ~(Channel(end) /\ gone)

(* The chunk is written, and the next Read begins.                         *)
WriteChunk(d) ==
  /\ cp[d] = "write" /\ Writable(Sink(d))
  /\ Goto(d, "read")
  /\ UNCHANGED <<openVars, ptr, count, profVars, ends, cancelled, idleGap,
                 histVars>>

(* The source is at its end or closed, or the sink is closed.              *)
CopyEnds(d) ==
  /\ \/ cp[d] = "read"
     \/ cp[d] = "write" /\ ~Writable(Sink(d))
  /\ Goto(d, "closing")
  /\ UNCHANGED <<openVars, ptr, count, profVars, ends, cancelled, idleGap,
                 histVars>>

(* The clock, and the idle deadline of the writer: it ends the operations  *)
(* that are under way on it.                                               *)
OnWriter == cp["in"] = "read" \/ cp["out"] = "write"

Tock ==
  /\ stage = "copy" /\ "writer" \in ends
  /\ sinceRefresh < IdleTimeout
  /\ sinceRefresh' = sinceRefresh + 1
  /\ sinceActivity' = sinceActivity + 1
  /\ UNCHANGED <<openVars, cp, ptr, count, profVars, ends, cancelled, idleGap,
                 histVars>>

IdleDeadline ==
  /\ sinceRefresh = IdleTimeout /\ "writer" \in ends /\ OnWriter
  /\ idleGap' = sinceActivity
  /\ cp' = [d \in Dir |-> IF \/ d = "in" /\ cp[d] = "read"
                             \/ d = "out" /\ cp[d] = "write"
                          THEN "closing" ELSE cp[d]]
  /\ UNCHANGED <<openVars, ptr, count, profVars, ends, cancelled, sinceRefresh,
                 sinceActivity, histVars>>

(* closeBoth, under a sync.Once: cancel, close the reader, the writer.     *)
CloseBoth(d) ==
  /\ cp[d] = "closing"
  /\ ends' = {} /\ cancelled' = TRUE
  /\ Goto(d, "done")
  /\ stage' = IF \A e \in Dir : cp'[e] = "done" THEN "over" ELSE stage
  /\ UNCHANGED <<caller, owner, gone, ptr, count, profVars, idleGap, histVars>>

-----------------------------------------------------------------------------
(* SetBandwidthProfile, under the lock: a profile with other limits is     *)
(* published, then the totals of the old one are added to it.              *)
Swap(next) ==
  /\ stage = "copy" /\ migrating = {} /\ next # limit
  /\ profile < MaxExchanges
  /\ profile' = profile + 1 /\ limit' = next /\ migrating' = Dir
  /\ UNCHANGED <<openVars, cp, ptr, count, ends, cancelled, idleVars, histVars>>

(* A mutant: Store instead of Add (B42).                                   *)
MigrateStore(d) ==
  /\ d \in migrating
  /\ count' = [count EXCEPT ![d][profile] = count[d][profile - 1]]
  /\ migrating' = migrating \ {d}
  /\ UNCHANGED <<openVars, cp, ptr, profile, limit, ends, cancelled, idleVars,
                 histVars>>

Migrate(d) ==
  /\ d \in migrating
  /\ count' = [count EXCEPT ![d][profile] = @ + count[d][profile - 1]]
  /\ migrating' = migrating \ {d}
  /\ UNCHANGED <<openVars, cp, ptr, profile, limit, ends, cancelled, idleVars,
                 histVars>>

-----------------------------------------------------------------------------
TrNext ==
  \/ OpenStream \/ GiveUp \/ Route \/ OwnerQueue \/ Said \/ Dial \/ ClientCloses
  \/ \E d \in Dir : Read(d) \/ Add(d) \/ Throttled(d) \/ WriteChunk(d)
                      \/ CopyEnds(d) \/ CloseBoth(d) \/ Migrate(d)
  \/ \E p \in Profiles : Swap(p)
  \/ Tock \/ IdleDeadline

(* The end a goroutine reads from or writes to, and whether it waits for   *)
(* the SSH client there.                                                   *)
UsedEnd(d) == IF cp[d] = "read" THEN Source(d) ELSE Sink(d)

AwaitsClient(d) == cp[d] \in {"read", "write"} /\ Channel(UsedEnd(d)) /\ ~gone

(* Goroutines run and limiters grant tokens. A Read or Write on a closed   *)
(* socket returns, on a channel once the client has closed it. Peers,      *)
(* clients and owners owe nothing.                                         *)
Returns(d) ==
  IF Channel(UsedEnd(d)) THEN gone ELSE UsedEnd(d) \notin ends

TrFairness ==
  /\ WF_trVars(Route) /\ WF_trVars(Dial)
  /\ \A d \in Dir :
       /\ WF_trVars(Add(d) \/ Throttled(d) \/ CloseBoth(d))
       /\ WF_trVars(Returns(d) /\ CopyEnds(d))

-----------------------------------------------------------------------------
(* The byte counters of a connection neither forget nor invent traffic     *)
(* while its profile is exchanged under the running copies (B42): once the *)
(* totals are migrated, every chunk read is in the installed profile, but  *)
(* for one in hand and at most one stray per exchange.                     *)
BytesAccounted ==
  Counting => \A d \in Dir \ migrating :
    /\ count[d][profile] + stray[d] + (IF ptr[d] = None THEN 0 ELSE 1)
         = moved[d]
    /\ stray[d] <= profile

(* The idle deadline only ends a stream whose writer saw no operation for  *)
(* three quarters of the timeout, although it is refreshed that rarely.    *)
IdleCutIsIdle == idleGap # None => idleGap > IdleTimeout - Quarter

(* When one direction of a copy has ended, both ends are closed and both   *)
(* goroutines return, one that waits for the rate limiter included (B41).  *)
(* The one exception is a goroutine on an SSH channel that the client does *)
(* not close: it waits for the client, and for nothing else.               *)
OneEndEndsBoth ==
  (\E d \in Dir : cp[d] = "closing") ~>
    [](ends = {} /\ \A d \in Dir : cp[d] = "done" \/ AwaitsClient(d))
=============================================================================
