--------------------------- MODULE DataPathProofs ---------------------------
(***************************************************************************)
(* Proofs about the bytes that pass through a forward.                     *)
(*                                                                         *)
(* Transfer: the byte counters of a connection survive every exchange of   *)
(* its bandwidth profile, and the idle deadline spares streams in use.     *)
(* TrInv is the inductive invariant.                                       *)
(*                                                                         *)
(* FrameParser: the messages reported are those of the stream, however it  *)
(* is cut into chunks.  FpInv is the inductive invariant.                  *)
(***************************************************************************)
EXTENDS Transfer, FrameParser, SequenceTheorems, WellFoundedInduction, TLAPS


TrSpec == TrInit /\ [][TrNext]_trVars

(* A Read has a counter in hand between its two steps and at no other      *)
(* time, of a profile that is or was installed; the plain TCP copy never.  *)
InHand ==
  \A d \in Dir : /\ cp[d] = "resolved" <=> ptr[d] # None
                 /\ ptr[d] <= profile
                 /\ ~Counting => ptr[d] = None /\ stray[d] = 0

(* Totals are migrated from a predecessor, and profiles that are still to  *)
(* come have counted nothing.                                              *)
Installed ==
  /\ migrating # {} => profile > 0
  /\ \A d \in Dir : \A i \in Numbers : i > profile => count[d][i] = 0

Owed(d) == IF d \in migrating THEN count[d][profile - 1] ELSE 0
Hand(d) == IF ptr[d] = None THEN 0 ELSE 1
Late(d) == IF ptr[d] # None /\ ~Folded(d) THEN 1 ELSE 0

(* Every chunk is counted, owed by the migration, stray or in hand.        *)
Balanced ==
  Counting => \A d \in Dir :
    count[d][profile] + Owed(d) + stray[d] + Hand(d) = moved[d]

(* A chunk goes astray only when its counter was migrated in its hands:    *)
(* once per exchange that is complete.                                     *)
Strayed ==
  \A d \in Dir :
    stray[d] + Late(d) + (IF d \in migrating THEN 1 ELSE 0) <= profile

(* Only a stream that is being copied, or was, has goroutines.             *)
Staged == \A d \in Dir : cp[d] # "off" => stage \in {"copy", "over"}

(* The deadline lags behind the activity by less than a quarter.           *)
Timed ==
  /\ sinceActivity <= sinceRefresh
  /\ sinceRefresh - sinceActivity < Quarter

TrInv ==
  /\ TrTypeOK /\ InHand /\ Installed /\ Balanced /\ Strayed
  /\ Staged /\ Timed /\ IdleCutIsIdle

-----------------------------------------------------------------------------
(* A quarter of the timeout, but never nothing.                            *)
LEMMA QuarterType == Quarter \in Nat /\ Quarter > 0
  BY TransferAssumption DEF Quarter

(* Profile numbers are integers from 0, and None is none of them.          *)
LEMMA NumbersType == Numbers \subseteq Int /\ None \notin Numbers /\ 0 \in Numbers
  BY TransferAssumption DEF Numbers, None

(* A step that leaves counters, profile and what is in hand alone keeps    *)
(* the books in balance.                                                   *)
LEMMA BooksKept ==
  ASSUME TrInv, UNCHANGED <<caller, ptr, count, profVars, histVars>>,
         \A d \in Dir : cp'[d] = "resolved" <=> cp[d] = "resolved"
  PROVE  InHand' /\ Installed' /\ Balanced' /\ Strayed'
  BY DEF TrInv, InHand, Installed, Balanced, Strayed, Owed, Hand, Late, Folded,
         Counting, profVars, histVars

(* Where a goroutine goes, the clocks stay or are refreshed.               *)
LEMMA GotoTimed ==
  ASSUME TrInv, NEW d \in Dir, NEW pc, Goto(d, pc)
  PROVE  /\ Timed' /\ sinceRefresh' \in 0 .. IdleTimeout
         /\ sinceActivity' \in 0 .. IdleTimeout
  BY QuarterType, TransferAssumption
  DEF TrInv, TrTypeOK, Timed, Goto, Refresh, clocks, Quarter

(* ... and the other goroutine stays where it is.                          *)
LEMMA GotoType ==
  ASSUME TrInv, NEW d \in Dir,
         NEW pc \in {"read", "resolved", "throttled", "write", "closing"},
         cp[d] # "off", Goto(d, pc), stage' = stage
  PROVE  /\ cp' \in [Dir -> {"off", "read", "resolved", "throttled", "write",
                             "closing", "done"}]
         /\ cp'[d] = pc /\ \A e \in Dir \ {d} : cp'[e] = cp[e]
         /\ Staged'
<1>1. cp' = [cp EXCEPT ![d] = pc]
  BY DEF Goto
<1>2. cp \in [Dir -> {"off", "read", "resolved", "throttled", "write",
                      "closing", "done"}]
  BY DEF TrInv, TrTypeOK
<1>3. cp'[d] = pc /\ \A e \in Dir \ {d} : cp'[e] = cp[e]
  BY <1>1, <1>2
<1> QED
  BY <1>1, <1>2, <1>3 DEF TrInv, Staged

(* A step of the copy that only moves a chunk along.                       *)
LEMMA GotoTrInv ==
  ASSUME TrInv, NEW d \in Dir,
         NEW pc \in {"read", "write", "closing"},
         cp[d] \notin {"off", "resolved"}, Goto(d, pc),
         UNCHANGED <<openVars, ptr, count, profVars, ends, cancelled, idleGap,
                     histVars>>
  PROVE  TrInv'
<1>1. /\ cp' \in [Dir -> {"off", "read", "resolved", "throttled", "write",
                          "closing", "done"}]
      /\ cp'[d] = pc /\ \A e \in Dir \ {d} : cp'[e] = cp[e]
      /\ Staged'
  BY GotoType DEF openVars
<1>2. UNCHANGED <<caller, ptr, count, profVars, histVars>>
  BY DEF openVars
<1>3. \A e \in Dir : cp'[e] = "resolved" <=> cp[e] = "resolved"
  BY <1>1
<1>4. InHand' /\ Installed' /\ Balanced' /\ Strayed'
  BY <1>2, <1>3, BooksKept
<1>5. TrTypeOK' /\ IdleCutIsIdle'
  BY <1>1, GotoTimed DEF TrInv, TrTypeOK, IdleCutIsIdle, openVars, profVars,
     histVars
<1> QED
  BY <1>1, <1>4, <1>5, GotoTimed DEF TrInv

(* The invariant holds when the stream arrives.                            *)
LEMMA InitTrInv == TrInit => TrInv
<1> SUFFICES ASSUME TrInit PROVE TrInv
  OBVIOUS
<1> USE TransferAssumption, QuarterType, NumbersType
<1>1. TrTypeOK
  <2>1. /\ caller \in Callers /\ stage = "new" /\ owner = "takes"
        /\ profile = 0 /\ limit \in Profiles /\ migrating = {} /\ ends = {}
        /\ sinceRefresh = 0 /\ sinceActivity = 0 /\ idleGap = None
    BY DEF TrInit
  <2>2. /\ cp \in [Dir -> {"off"}] /\ ptr \in [Dir -> {None}]
        /\ count \in [Dir -> [Numbers -> Nat]]
        /\ moved \in [Dir -> 0 .. MaxChunks] /\ stray \in [Dir -> 0 .. MaxChunks]
    BY DEF TrInit
  <2>3. /\ cp \in [Dir -> {"off", "read", "resolved", "throttled", "write",
                           "closing", "done"}]
        /\ ptr \in [Dir -> Numbers \cup {None}]
    BY <2>2
  <2>4. cancelled \in BOOLEAN /\ gone \in BOOLEAN
    BY DEF TrInit
  <2> QED
    BY <2>1, <2>2, <2>3, <2>4 DEF TrTypeOK
<1>2. InHand /\ Installed /\ Balanced /\ Strayed
  BY DEF TrInit, InHand, Installed, Balanced, Strayed, Owed, Hand, Late, Dir,
         None, Numbers
<1>3. Staged /\ Timed /\ IdleCutIsIdle
  BY DEF TrInit, Staged, Timed, IdleCutIsIdle
<1> QED
  BY <1>1, <1>2, <1>3 DEF TrInv

(* Opening a stream moves nothing, nor does the client's end of it.        *)
LEMMA OpenTrInv ==
  ASSUME TrInv,
         OpenStream \/ GiveUp \/ Route \/ OwnerQueue \/ Said \/ ClientCloses
  PROVE  TrInv'
<1>1. /\ UNCHANGED <<caller, ptr, count, profVars, histVars>>
      /\ UNCHANGED <<cp, idleVars, cancelled>>
  BY DEF OpenStream, GiveUp, Route, OwnerQueue, Said, ClientCloses
<1>2. InHand' /\ Installed' /\ Balanced' /\ Strayed'
  BY <1>1, BooksKept
<1>3. /\ stage' \in {"new", "route", "say", "dial", "copy", "over"}
      /\ owner' \in {"takes", "stuck"} /\ ends' \in SUBSET {"reader", "writer"}
      /\ stage \in {"copy", "over"} => stage' = stage
  BY DEF TrInv, TrTypeOK, OpenStream, GiveUp, Route, OwnerQueue, Said,
     ClientCloses
<1>4. gone' \in BOOLEAN
  BY DEF TrInv, TrTypeOK, OpenStream, GiveUp, Route, OwnerQueue, Said,
     ClientCloses
<1>5. TrTypeOK' /\ Staged' /\ Timed' /\ IdleCutIsIdle'
  BY <1>1, <1>3, <1>4 DEF TrInv, TrTypeOK, Staged, Timed, IdleCutIsIdle, profVars,
     histVars, idleVars
<1> QED
  BY <1>2, <1>5 DEF TrInv

(* The copy starts with a fresh deadline and nothing in hand.              *)
LEMMA DialTrInv ==
  ASSUME TrInv, Dial
  PROVE  TrInv'
<1>1. /\ UNCHANGED <<caller, ptr, count, profVars, histVars>>
      /\ \A d \in Dir : cp'[d] = "resolved" <=> cp[d] = "resolved"
  BY DEF Dial, TrInv, Staged
<1>2. InHand' /\ Installed' /\ Balanced' /\ Strayed'
  BY <1>1, BooksKept
<1>3. cp' \in [Dir -> {"off", "read", "resolved", "throttled", "write",
                       "closing", "done"}]
  BY DEF Dial
<1>4. TrTypeOK' /\ Staged' /\ Timed' /\ IdleCutIsIdle'
  BY <1>3, QuarterType, TransferAssumption
  DEF TrInv, TrTypeOK, Staged, Timed, IdleCutIsIdle, profVars, histVars, Dial
<1> QED
  BY <1>2, <1>4 DEF TrInv

(* The steps after the chunk is counted.                                   *)
LEMMA ForwardTrInv ==
  ASSUME TrInv, NEW d \in Dir, Throttled(d) \/ WriteChunk(d) \/ CopyEnds(d)
  PROVE  TrInv'
<1>1. CASE Throttled(d)
  BY <1>1, GotoTrInv DEF Throttled
<1>2. CASE WriteChunk(d)
  BY <1>2, GotoTrInv DEF WriteChunk
<1>3. CASE CopyEnds(d)
  BY <1>3, GotoTrInv DEF CopyEnds
<1> QED
  BY <1>1, <1>2, <1>3

(* The clock runs.                                                         *)
LEMMA TockTrInv ==
  ASSUME TrInv, Tock
  PROVE  TrInv'
<1>1. /\ UNCHANGED <<caller, ptr, count, profVars, histVars>>
      /\ UNCHANGED <<openVars, cp, ends, cancelled, idleGap>>
      /\ sinceRefresh < IdleTimeout /\ sinceRefresh' = sinceRefresh + 1
      /\ sinceActivity' = sinceActivity + 1
  BY DEF Tock, openVars
<1>2. InHand' /\ Installed' /\ Balanced' /\ Strayed'
  BY <1>1, BooksKept
<1>3. TrTypeOK' /\ Staged' /\ Timed' /\ IdleCutIsIdle'
  BY <1>1, QuarterType, TransferAssumption
  DEF TrInv, TrTypeOK, Staged, Timed, IdleCutIsIdle, profVars, histVars,
      openVars
<1> QED
  BY <1>2, <1>3 DEF TrInv

(* The deadline expires: the deadline lags, so the writer was idle.        *)
LEMMA IdleDeadlineTrInv ==
  ASSUME TrInv, IdleDeadline
  PROVE  TrInv'
<1>1. /\ UNCHANGED <<caller, ptr, count, profVars, histVars>>
      /\ UNCHANGED <<openVars, ends, cancelled, sinceRefresh, sinceActivity>>
      /\ sinceRefresh = IdleTimeout /\ idleGap' = sinceActivity
  BY DEF IdleDeadline, openVars
<1>2. /\ \A d \in Dir : \/ cp'[d] = cp[d]
                        \/ cp'[d] = "closing" /\ cp[d] \in {"read", "write"}
      /\ cp' \in [Dir -> {"off", "read", "resolved", "throttled", "write",
                          "closing", "done"}]
  <2> DEFINE cut(d) == \/ d = "in" /\ cp[d] = "read"
                       \/ d = "out" /\ cp[d] = "write"
  <2>1. cp' = [d \in Dir |-> IF cut(d) THEN "closing" ELSE cp[d]]
    BY DEF IdleDeadline
  <2>2. \A d \in Dir : cut(d) => cp[d] \in {"read", "write"}
    OBVIOUS
  <2>3. cp \in [Dir -> {"off", "read", "resolved", "throttled", "write",
                        "closing", "done"}]
    BY DEF TrInv, TrTypeOK
  <2> HIDE DEF cut
  <2> QED
    BY <2>1, <2>2, <2>3
<1>3. \A d \in Dir : cp'[d] = "resolved" <=> cp[d] = "resolved"
  BY <1>2
<1>4. InHand' /\ Installed' /\ Balanced' /\ Strayed'
  BY <1>1, <1>3, BooksKept
<1>5. Staged'
  BY <1>1, <1>2 DEF TrInv, Staged, openVars
<1>6. TrTypeOK' /\ Timed' /\ IdleCutIsIdle'
  BY <1>1, <1>2, QuarterType, TransferAssumption
  DEF TrInv, TrTypeOK, Timed, IdleCutIsIdle, profVars, histVars, openVars
<1> QED
  BY <1>4, <1>5, <1>6 DEF TrInv

(* closeBoth closes both ends; the counters are left alone.                *)
LEMMA CloseBothTrInv ==
  ASSUME TrInv, NEW d \in Dir, CloseBoth(d)
  PROVE  TrInv'
<1>1. /\ UNCHANGED <<caller, ptr, count, profVars, histVars>>
      /\ UNCHANGED <<owner, gone, idleGap>>
      /\ ends' = {} /\ cp[d] = "closing" /\ Goto(d, "done")
      /\ stage' = stage \/ stage' = "over"
  BY DEF CloseBoth
<1>2. cancelled' \in BOOLEAN
  BY DEF CloseBoth
<1>3. /\ cp' = [cp EXCEPT ![d] = "done"]
      /\ cp \in [Dir -> {"off", "read", "resolved", "throttled", "write",
                          "closing", "done"}]
  BY <1>1 DEF Goto, TrInv, TrTypeOK
<1>4. /\ cp' \in [Dir -> {"off", "read", "resolved", "throttled", "write",
                          "closing", "done"}]
      /\ \A e \in Dir : cp'[e] = "resolved" <=> cp[e] = "resolved"
  BY <1>1, <1>3
<1>5. InHand' /\ Installed' /\ Balanced' /\ Strayed'
  BY <1>1, <1>4, BooksKept
<1>6. Staged'
  BY <1>1, <1>3 DEF TrInv, Staged
<1>7. TrTypeOK' /\ Timed' /\ IdleCutIsIdle'
  BY <1>1, <1>2, <1>4, GotoTimed DEF TrInv, TrTypeOK, IdleCutIsIdle, profVars,
     histVars
<1> QED
  BY <1>5, <1>6, <1>7 DEF TrInv

-----------------------------------------------------------------------------
(* The numbers of the books, for one direction.                            *)
LEMMA Figures ==
  ASSUME TrInv, NEW d \in Dir
  PROVE  /\ profile \in Int /\ profile \in Numbers /\ profile >= 0
         /\ profile <= MaxExchanges
         /\ ptr[d] \in Int /\ ptr[d] <= profile /\ ptr[d] >= -1
         /\ count[d] \in [Numbers -> Nat]
         /\ count[d][profile] \in Nat /\ stray[d] \in Nat /\ moved[d] \in Nat
         /\ moved[d] <= MaxChunks
         /\ d \in migrating => profile > 0 /\ profile - 1 \in Numbers
  BY TransferAssumption
  DEF TrInv, TrTypeOK, InHand, Installed, Numbers, None

(* Read: a chunk comes in hand, of the installed profile.                  *)
LEMMA ReadTrInv ==
  ASSUME TrInv, NEW d \in Dir, Read(d)
  PROVE  TrInv'
<1> DEFINE pc == IF Counting THEN "resolved" ELSE "write"
<1>1. /\ UNCHANGED <<caller, stage, owner, gone, count, profile, limit, migrating>>
      /\ UNCHANGED <<ends, cancelled, idleGap, stray>>
      /\ cp[d] = "read" /\ Goto(d, pc) /\ moved[d] < MaxChunks
      /\ moved' = [moved EXCEPT ![d] = @ + 1]
      /\ ptr' = IF Counting THEN [ptr EXCEPT ![d] = profile] ELSE ptr
  BY DEF Read, openVars, profVars
<1>2. /\ cp' \in [Dir -> {"off", "read", "resolved", "throttled", "write",
                          "closing", "done"}]
      /\ cp'[d] = pc /\ \A e \in Dir \ {d} : cp'[e] = cp[e]
      /\ Staged'
  BY <1>1, GotoType
<1>3. ptr[d] = None
  BY <1>1 DEF TrInv, InHand
<1>4. /\ ptr' \in [Dir -> Numbers \cup {None}]
      /\ ptr'[d] = IF Counting THEN profile ELSE None
      /\ \A e \in Dir \ {d} : ptr'[e] = ptr[e]
  BY <1>1, <1>3 DEF TrInv, TrTypeOK
<1>5. /\ moved' \in [Dir -> 0 .. MaxChunks] /\ moved'[d] = moved[d] + 1
      /\ \A e \in Dir \ {d} : moved'[e] = moved[e]
  BY <1>1, TransferAssumption DEF TrInv, TrTypeOK
<1>6. TrTypeOK' /\ Timed' /\ IdleCutIsIdle'
  BY <1>1, <1>2, <1>4, <1>5, GotoTimed DEF TrInv, TrTypeOK, IdleCutIsIdle
<1>7. InHand' /\ Installed'
  BY <1>1, <1>2, <1>4, NumbersType, Figures
  DEF TrInv, TrTypeOK, InHand, Installed, Counting
<1>8. Balanced'
  <2>1. SUFFICES ASSUME Counting, NEW e \in Dir
                 PROVE  (count[e][profile] + Owed(e) + stray[e] + Hand(e)
                           = moved[e])'
    BY <1>1 DEF Balanced, Counting
  <2>2. count[e][profile] + Owed(e) + stray[e] + Hand(e) = moved[e]
    BY <2>1 DEF TrInv, Balanced
  <2>3. Owed(e)' = Owed(e) /\ Owed(e) \in Nat
    BY <1>1, Figures DEF Owed
  <2>4. CASE e = d
    BY <1>1, <1>3, <1>4, <1>5, <2>1, <2>2, <2>3, <2>4, NumbersType, Figures
    DEF Hand
  <2>5. CASE e # d
    BY <1>1, <1>4, <1>5, <2>2, <2>3, <2>5 DEF Hand
  <2> QED
    BY <2>4, <2>5
<1>9. Strayed'
  BY <1>1, <1>3, <1>4, Figures DEF TrInv, Strayed, Late, Folded
<1> QED
  BY <1>2, <1>6, <1>7, <1>8, <1>9 DEF TrInv

(* Add: the chunk in hand is counted, or goes astray.                      *)
LEMMA AddTrInv ==
  ASSUME TrInv, NEW d \in Dir, Add(d)
  PROVE  TrInv'
<1> DEFINE pc == IF limit = "limited" THEN "throttled" ELSE "write"
           lost == IF Folded(d) THEN 0 ELSE 1
<1>1. /\ UNCHANGED <<caller, stage, owner, gone, profile, limit, migrating>>
      /\ UNCHANGED <<ends, cancelled, idleGap, moved>>
      /\ cp[d] = "resolved" /\ Goto(d, pc)
      /\ count' = [count EXCEPT ![d][ptr[d]] = @ + 1]
      /\ stray' = [stray EXCEPT ![d] = @ + lost]
      /\ ptr' = [ptr EXCEPT ![d] = None]
  BY DEF Add, openVars, profVars
<1>2. /\ cp' \in [Dir -> {"off", "read", "resolved", "throttled", "write",
                          "closing", "done"}]
      /\ cp'[d] = pc /\ \A e \in Dir \ {d} : cp'[e] = cp[e]
      /\ Staged'
  BY <1>1, GotoType
<1>3. ptr[d] # None /\ ptr[d] \in Numbers /\ Counting
  BY <1>1 DEF TrInv, TrTypeOK, InHand
<1>4. /\ ptr' \in [Dir -> Numbers \cup {None}] /\ ptr'[d] = None
      /\ \A e \in Dir \ {d} : ptr'[e] = ptr[e]
  BY <1>1 DEF TrInv, TrTypeOK
<1>5. /\ count' \in [Dir -> [Numbers -> Nat]]
      /\ count'[d][ptr[d]] = count[d][ptr[d]] + 1
      /\ \A i \in Numbers \ {ptr[d]} : count'[d][i] = count[d][i]
      /\ \A e \in Dir \ {d} : count'[e] = count[e]
  BY <1>1, <1>3 DEF TrInv, TrTypeOK
<1>6. /\ stray'[d] = stray[d] + lost
      /\ \A e \in Dir \ {d} : stray'[e] = stray[e]
      /\ lost \in {0, 1}
  BY <1>1 DEF TrInv, TrTypeOK
<1>7. Installed' /\ InHand'
  <2>1. Installed'
    BY <1>1, <1>3, <1>5, Figures, NumbersType DEF TrInv, Installed
  <2>2. /\ cp'[d] # "resolved" /\ ptr'[d] = None /\ ptr'[d] <= profile'
    BY <1>1, <1>2, <1>4, Figures DEF None
  <2>3. Counting'
    BY <1>1, <1>3 DEF Counting
  <2> QED
    BY <1>1, <1>2, <1>4, <2>1, <2>2, <2>3 DEF TrInv, InHand
<1>8. ASSUME NEW e \in Dir
      PROVE  (count[e][profile] + Owed(e) + stray[e] + Hand(e) = moved[e])'
  <2>1. count[e][profile] + Owed(e) + stray[e] + Hand(e) = moved[e]
    BY <1>3 DEF TrInv, Balanced
  <2>2. CASE e # d
    BY <1>1, <1>4, <1>5, <1>6, <2>1, <2>2 DEF Hand, Owed
  <2>3. CASE e = d
    <3>1. Hand(d) = 1 /\ Hand(d)' = 0
      BY <1>3, <1>4 DEF Hand
    <3>2. count'[d][profile] + Owed(d)' + lost = count[d][profile] + Owed(d) + 1
      <4>1. CASE ptr[d] = profile
        BY <1>1, <1>5, <4>1, Figures DEF Owed, Folded
      <4>2. CASE d \in migrating /\ ptr[d] = profile - 1
        BY <1>1, <1>5, <4>2, Figures DEF Owed, Folded
      <4>3. CASE ptr[d] # profile /\ ~(d \in migrating /\ ptr[d] = profile - 1)
        BY <1>1, <1>5, <4>3, Figures DEF Owed, Folded
      <4> QED
        BY <4>1, <4>2, <4>3
    <3>3. /\ count'[d][profile] \in Nat /\ Owed(d) \in Nat /\ Owed(d)' \in Nat
      BY <1>1, <1>5, Figures DEF Owed
    <3> QED
      BY <1>1, <1>6, <2>1, <2>3, <3>1, <3>2, <3>3, Figures
  <2> QED
    BY <2>2, <2>3
<1>9. stray' \in [Dir -> 0 .. MaxChunks]
  <2>1. /\ count'[d][profile] \in Nat /\ Owed(d)' \in Nat
        /\ Hand(d)' = 0
    BY <1>1, <1>4, <1>5, Figures DEF Owed, Hand
  <2>2. stray[d] + lost \in 0 .. MaxChunks
    BY <1>1, <1>6, <1>8, <2>1, Figures, TransferAssumption
  <2> QED
    BY <1>1, <2>2 DEF TrInv, TrTypeOK
<1>10. Balanced' /\ TrTypeOK' /\ Timed' /\ IdleCutIsIdle'
  BY <1>1, <1>2, <1>4, <1>5, <1>8, <1>9, GotoTimed
  DEF TrInv, TrTypeOK, IdleCutIsIdle, Balanced
<1>11. Strayed'
  BY <1>1, <1>3, <1>4, <1>6, Figures DEF TrInv, Strayed, Late, Folded
<1> QED
  BY <1>2, <1>7, <1>10, <1>11 DEF TrInv

(* Swap: the old counters are owed, and what is in hand is not yet late.   *)
LEMMA SwapTrInv ==
  ASSUME TrInv, NEW p \in Profiles, Swap(p)
  PROVE  TrInv'
<1>1. /\ UNCHANGED <<caller, stage, owner, gone, cp, ptr, count, ends, cancelled>>
      /\ UNCHANGED <<sinceRefresh, sinceActivity, idleGap, moved, stray>>
      /\ migrating = {} /\ profile < MaxExchanges /\ profile' = profile + 1
      /\ limit' = p /\ migrating' = Dir
  BY DEF Swap, openVars, idleVars, histVars
<1>2. profile \in Int /\ profile >= 0 /\ profile' \in Numbers
  BY <1>1, TransferAssumption DEF TrInv, TrTypeOK, Numbers
<1>3. TrTypeOK' /\ Staged' /\ Timed' /\ IdleCutIsIdle'
  BY <1>1, <1>2 DEF TrInv, TrTypeOK, Staged, Timed, IdleCutIsIdle
<1>4. InHand' /\ Installed'
  BY <1>1, <1>2, Figures, TransferAssumption
  DEF TrInv, InHand, Installed, Counting, Numbers
<1>5. Balanced'
  <2>1. SUFFICES ASSUME Counting, NEW e \in Dir
                 PROVE  (count[e][profile] + Owed(e) + stray[e] + Hand(e)
                           = moved[e])'
    BY <1>1 DEF Balanced, Counting
  <2>2. /\ count[e][profile] + Owed(e) + stray[e] + Hand(e) = moved[e]
        /\ Owed(e) = 0
    BY <1>1, <2>1 DEF TrInv, Balanced, Owed
  <2>3. count'[e][profile'] = 0
    BY <1>1, <1>2 DEF TrInv, Installed
  <2>4. Owed(e)' = count[e][profile]
    BY <1>1, <1>2 DEF Owed
  <2> QED
    BY <1>1, <2>2, <2>3, <2>4, Figures DEF Hand
<1>6. Strayed'
  BY <1>1, <1>2, Figures DEF TrInv, Strayed, Late, Folded
<1> QED
  BY <1>3, <1>4, <1>5, <1>6 DEF TrInv

(* Migrate: the debt of one direction is paid.                             *)
LEMMA MigrateTrInv ==
  ASSUME TrInv, NEW d \in Dir, Migrate(d)
  PROVE  TrInv'
<1>1. /\ UNCHANGED <<caller, stage, owner, gone, cp, ptr, profile, limit>>
      /\ UNCHANGED <<ends, cancelled, sinceRefresh, sinceActivity, idleGap,
                     moved, stray>>
      /\ d \in migrating /\ migrating' = migrating \ {d}
      /\ count' = [count EXCEPT ![d][profile] = @ + count[d][profile - 1]]
  BY DEF Migrate, openVars, idleVars, histVars
<1>2. /\ profile > 0 /\ profile - 1 \in Numbers /\ profile \in Numbers
      /\ profile \in Int /\ count[d][profile - 1] \in Nat
  BY <1>1, Figures
<1>3. /\ count' \in [Dir -> [Numbers -> Nat]]
      /\ count'[d][profile] = count[d][profile] + count[d][profile - 1]
      /\ \A i \in Numbers \ {profile} : count'[d][i] = count[d][i]
      /\ \A e \in Dir \ {d} : count'[e] = count[e]
  BY <1>1, <1>2 DEF TrInv, TrTypeOK
<1>4. TrTypeOK' /\ Staged' /\ Timed' /\ IdleCutIsIdle'
  BY <1>1, <1>3 DEF TrInv, TrTypeOK, Staged, Timed, IdleCutIsIdle
<1>5. InHand' /\ Installed'
  BY <1>1, <1>2, <1>3, NumbersType DEF TrInv, InHand, Installed, Counting
<1>6. Balanced'
  <2>1. SUFFICES ASSUME Counting, NEW e \in Dir
                 PROVE  (count[e][profile] + Owed(e) + stray[e] + Hand(e)
                           = moved[e])'
    BY <1>1 DEF Balanced, Counting
  <2>2. count[e][profile] + Owed(e) + stray[e] + Hand(e) = moved[e]
    BY <2>1 DEF TrInv, Balanced
  <2>3. Hand(e)' = Hand(e) /\ Hand(e) \in Nat
    BY <1>1 DEF Hand
  <2>4. CASE e = d
    BY <1>1, <1>2, <1>3, <2>2, <2>3, <2>4, Figures DEF Owed
  <2>5. CASE e # d
    BY <1>1, <1>3, <2>2, <2>3, <2>5 DEF Owed
  <2> QED
    BY <2>4, <2>5
<1>7. Strayed'
  BY <1>1, <1>2, Figures DEF TrInv, Strayed, Late, Folded
<1> QED
  BY <1>4, <1>5, <1>6, <1>7 DEF TrInv

-----------------------------------------------------------------------------
(* TrInv is inductive.                                                     *)
LEMMA NextTrInv == TrInv /\ [TrNext]_trVars => TrInv'
<1> SUFFICES ASSUME TrInv, [TrNext]_trVars PROVE TrInv'
  OBVIOUS
<1>1. CASE UNCHANGED trVars
  <2>1. InHand' /\ Installed' /\ Balanced' /\ Strayed'
    BY <1>1, BooksKept DEF trVars, profVars, histVars
  <2> QED
    BY <1>1, <2>1 DEF TrInv, TrTypeOK, Staged, Timed, IdleCutIsIdle, trVars
<1>2. CASE OpenStream \/ GiveUp \/ Route \/ OwnerQueue \/ Said \/ ClientCloses
  BY <1>2, OpenTrInv
<1>3. CASE Dial
  BY <1>3, DialTrInv
<1>4. ASSUME NEW d \in Dir, Read(d) PROVE TrInv'
  BY <1>4, ReadTrInv
<1>5. ASSUME NEW d \in Dir, Add(d) PROVE TrInv'
  BY <1>5, AddTrInv
<1>6. ASSUME NEW d \in Dir, Throttled(d) \/ WriteChunk(d) \/ CopyEnds(d)
      PROVE TrInv'
  BY <1>6, ForwardTrInv
<1>7. ASSUME NEW d \in Dir, CloseBoth(d) PROVE TrInv'
  BY <1>7, CloseBothTrInv
<1>8. ASSUME NEW d \in Dir, Migrate(d) PROVE TrInv'
  BY <1>8, MigrateTrInv
<1>9. ASSUME NEW p \in Profiles, Swap(p) PROVE TrInv'
  BY <1>9, SwapTrInv
<1>10. CASE Tock
  BY <1>10, TockTrInv
<1>11. CASE IdleDeadline
  BY <1>11, IdleDeadlineTrInv
<1> QED
  BY <1>1, <1>2, <1>3, <1>4, <1>5, <1>6, <1>7, <1>8, <1>9, <1>10, <1>11
  DEF TrNext

(* The inductive invariant holds of every stream.                          *)
THEOREM TransferInductive == TrSpec => []TrInv
  BY InitTrInv, NextTrInv, PTL DEF TrSpec

(* SetBandwidthProfile under a running copy neither forgets nor invents    *)
(* traffic, for any number of chunks and of exchanges: once the totals are *)
(* migrated, every chunk read is counted by the installed profile, in hand *)
(* of its countingReader, or one of at most one stray per exchange.        *)
THEOREM BytesSafe == TrSpec => []BytesAccounted
<1>1. TrInv => BytesAccounted
  <2> SUFFICES ASSUME TrInv, Counting, NEW d \in Dir \ migrating
               PROVE  /\ count[d][profile] + stray[d]
                           + (IF ptr[d] = None THEN 0 ELSE 1) = moved[d]
                      /\ stray[d] <= profile
    BY DEF BytesAccounted
  <2>1. count[d][profile] + Owed(d) + stray[d] + Hand(d) = moved[d]
    BY DEF TrInv, Balanced
  <2>2. Owed(d) = 0 /\ Hand(d) = (IF ptr[d] = None THEN 0 ELSE 1)
    BY DEF Owed, Hand
  <2>3. stray[d] <= profile
    BY Figures DEF TrInv, Strayed, Late
  <2> QED
    BY <2>1, <2>2, <2>3, Figures
<1> QED
  BY <1>1, TransferInductive, PTL

(* The idle deadline, refreshed once per quarter of any timeout, only ends *)
(* streams whose writer was idle for the other three quarters.             *)
THEOREM IdleSafe == TrSpec => []IdleCutIsIdle
<1>1. TrInv => IdleCutIsIdle
  BY DEF TrInv
<1> QED
  BY <1>1, TransferInductive, PTL

-----------------------------------------------------------------------------
(* FrameParser.  A least counterexample takes the place of induction over  *)
(* the frames of a stream.                                                 *)
LEMMA MinMember ==
  ASSUME NEW S, S \subseteq Nat, S # {}
  PROVE  Min(S) \in S /\ \A y \in S : Min(S) <= y
<1>1. PICK x \in S : \A y \in S : ~(<<y, x>> \in OpToRel(<, Nat))
  BY NatLessThanWellFounded, WFMin
<1>2. ASSUME NEW y \in S PROVE x <= y
  <2>1. x \in Nat /\ y \in Nat /\ <<y, x>> \in Nat \X Nat
    OBVIOUS
  <2>2. y < x => <<y, x>> \in OpToRel(<, Nat)
    BY <2>1, Zenon DEF OpToRel
  <2>3. ~(y < x)
    BY <1>1, <2>2, Zenon
  <2> QED
    BY <2>1, <2>3
<1> QED
  BY <1>2 DEF Min

(* The stream of one direction.                                            *)
FpSpec == FpInit /\ [][FpNext]_fpVars

(* Payload bytes, messages, and the states of the parser and of the        *)
(* reference.                                                              *)
Byte == Nat \X Nat
Report == [opcode : Opcode, compressed : BOOLEAN, undecoded : BOOLEAN,
           payload : Seq(Byte), size : Nat, truncated : BOOLEAN]

ParserState ==
  [headerLen : Nat, inFrame : BOOLEAN, remaining : Nat, opcode : Opcode,
   fin : BOOLEAN, masked : BOOLEAN, maskPos : Nat, control : Seq(Byte),
   inMessage : BOOLEAN, msgOpcode : Opcode, compressed : BOOLEAN,
   payload : Seq(Byte), size : Nat, truncated : BOOLEAN, overflow : BOOLEAN,
   corrupt : BOOLEAN, err : BOOLEAN]

RefState ==
  [msgs : Seq(Report), first : Nat, bytes : Seq(Byte), damaged : BOOLEAN,
   lost : BOOLEAN, err : BOOLEAN]

(* The first k bytes of frame i, the n that follow them, and of a message  *)
(* what the limit leaves.                                                  *)
Part(i, k) == [j \in 1 .. k |-> <<i, j - 1>>]
After(i, k, n) == [j \in 1 .. n |-> <<i, k + j - 1>>]
CutOff(b) == SubSeq(b, 1, Min({Limit, Len(b)}))

(* The next byte to be read is the one at offset k of frame i's payload.   *)
NextByte(i, k) == pos[1] = i /\ pos[2] - headerSize(stream[i]) = k

(* The parser has read the bytes b of the message that begins with frame   *)
(* first; damaged says whether it has seen a corrupt frame.                *)
Gathered(p, first, b, damaged) ==
  /\ p.msgOpcode = stream[first].op /\ p.compressed = stream[first].rsv1
  /\ ~p.compressed => /\ p.payload = CutOff(b) /\ p.size = Len(b)
                      /\ p.truncated <=> Len(b) > Limit
  /\ p.compressed => /\ p.corrupt <=> damaged
                     /\ p.overflow <=> Len(b) > MaxCompressed
                     /\ ~p.overflow => p.payload = b

Pending(p, st) ==
  /\ p.inMessage <=> st.first # 0
  /\ st.first # 0 => Gathered(p, st.first, st.bytes, st.damaged)

(* It is between frames, with h bytes of a header read ...                 *)
Between(p, st, h) ==
  /\ ~p.err /\ ~p.inFrame /\ p.headerLen = h /\ Pending(p, st)

(* ... or has read k bytes of the payload of frame i.                      *)
First(st, i) == IF st.first = 0 THEN i ELSE st.first

Within(p, st, i, k) ==
  LET f == stream[i] IN
  /\ ~p.err /\ p.inFrame /\ p.headerLen = 0
  /\ p.opcode = f.op /\ p.fin = f.fin /\ p.masked = f.masked
  /\ p.maskPos = k /\ k <= f.len /\ p.remaining = f.len - k
  /\ ~Bad([inMessage |-> st.first # 0], f)
  /\ f.op \in ControlOp => p.control = Part(i, k) /\ Pending(p, st)
  /\ f.op \notin ControlOp =>
       /\ p.inMessage
       /\ Gathered(p, First(st, i), st.bytes \o Part(i, k),
                   st.damaged \/ (f.corrupt /\ k > 0))

(* What the messages reported have in common with the reference's.         *)
Shapes(s) == [i \in DOMAIN s |-> Shape(s[i])]

FpTypes ==
  /\ stream \in Seq(FrameHeader) /\ deflate \in Deflate /\ buf \in Nat
  /\ parser \in ParserState /\ broken \in BOOLEAN /\ out \in Seq(Report)

(* Where the parser is, and what is left of the chunk is to come.          *)
Placed ==
  /\ pos \in Nat \X Nat /\ pos[1] \in 1 .. (Len(stream) + 1)
  /\ pos[1] = Len(stream) + 1 => pos[2] = 0
  /\ pos[1] <= Len(stream) => pos[2] < FrameSize(stream[pos[1]])
  /\ buf <= Rest(pos[1], pos[2])

(* An error has stopped it, at the frame at which the reference stops ...  *)
Stopped ==
  /\ ~parser.inFrame /\ buf = 0 /\ protocolErrors = 1
  /\ LET st == Whole(IF pos[2] > 0 THEN pos[1] ELSE pos[1] - 1)
     IN st.err = TRUE /\ Shapes(out) = st.msgs

(* ... or it is where the reference is, within a frame or before one.      *)
Following ==
  LET st == Whole(pos[1] - 1)
      i == pos[1]
  IN /\ st \in RefState /\ ~st.err /\ protocolErrors = 0
     /\ Shapes(out) = st.msgs /\ broken = st.lost
     /\ st.first < i /\ (st.first = 0 => st.bytes = <<>> /\ ~st.damaged)
     /\ ~parser.inFrame => /\ Between(parser, st, pos[2])
                           /\ i <= Len(stream) => pos[2] < headerSize(stream[i])
     /\ parser.inFrame => /\ Within(parser, st, i, pos[2] - headerSize(stream[i]))
                          /\ pos[2] >= headerSize(stream[i]) /\ i <= Len(stream)

FpInv ==
  /\ FpTypes /\ Placed
  /\ parser.err => Stopped
  /\ ~parser.err => Following

-----------------------------------------------------------------------------
(* Through and Whole unfold one frame at a time.                           *)
Summing(n, f) ==
  f = [k \in 0 .. n |-> IF k = 0 THEN 0 ELSE f[k - 1] + FrameSize(stream[k])]

LEMMA SumsAgree ==
  ASSUME NEW n \in Nat, NEW m \in Nat, NEW f, NEW g, Summing(n, f), Summing(m, g),
         NEW j \in Nat, j <= n, j <= m
  PROVE  f[j] = g[j]
<1> DEFINE D == {k \in Nat : k <= n /\ k <= m /\ f[k] # g[k]}
<1> SUFFICES ASSUME D # {} PROVE FALSE
  OBVIOUS
<1>1. PICK k \in D : \A y \in D : k <= y
  BY MinMember
<1>2. k \in 0 .. n /\ k \in 0 .. m /\ f[k] # g[k]
  BY <1>1
<1>3. k # 0
  BY <1>2 DEF Summing
<1>4. k - 1 \in Nat /\ k - 1 <= n /\ k - 1 <= m /\ k - 1 \notin D
  BY <1>1, <1>2, <1>3
<1>5. f[k - 1] = g[k - 1]
  BY <1>4
<1> QED
  BY <1>2, <1>3, <1>5 DEF Summing

LEMMA SumsExist ==
  ASSUME NEW n \in Nat
  PROVE  \E f : Summing(n, f)
<1> DEFINE D == {k \in Nat : ~\E f : Summing(k, f)}
<1> SUFFICES ASSUME D # {} PROVE FALSE
  OBVIOUS
<1>1. PICK m \in D : \A y \in D : m <= y
  BY MinMember
<1>2. m # 0
  <2> SUFFICES ASSUME m = 0 PROVE FALSE
    OBVIOUS
  <2> DEFINE f == [k \in 0 .. 0 |-> 0]
  <2>1. Summing(0, f)
    BY DEF Summing
  <2> QED
    BY <1>1, <2>1
<1>3. m - 1 \in Nat /\ m - 1 \notin D
  BY <1>1, <1>2
<1>4. PICK g : Summing(m - 1, g)
  BY <1>3
<1> DEFINE f == [k \in 0 .. m |-> IF k = m THEN g[m - 1] + FrameSize(stream[m]) ELSE g[k]]
<1>5. \A k \in 0 .. m : f[k] = IF k = 0 THEN 0 ELSE f[k - 1] + FrameSize(stream[k])
  <2> TAKE k \in 0 .. m
  <2>1. CASE k = m
    BY <1>2, <2>1
  <2>2. CASE k # m
    <3>1. k \in 0 .. (m - 1) /\ f[k] = g[k] /\ (k # 0 => f[k - 1] = g[k - 1])
      BY <1>3, <2>2
    <3> QED
      BY <1>4, <3>1 DEF Summing
  <2> QED
    BY <2>1, <2>2
<1>6. Summing(m, f)
  BY <1>5 DEF Summing
<1> QED
  BY <1>1, <1>6

LEMMA ThroughStep ==
  ASSUME NEW n \in Nat
  PROVE  Through(0) = 0 /\ Through(n + 1) = Through(n) + FrameSize(stream[n + 1])
<1>1. ASSUME NEW k \in Nat PROVE \E f : Summing(k, f) /\ Through(k) = f[k]
  <2> DEFINE c == CHOOSE f : f = [j \in 0 .. k |->
                     IF j = 0 THEN 0 ELSE f[j - 1] + FrameSize(stream[j])]
  <2>1. Through(k) = c[k]
    BY DEF Through
  <2>2. Summing(k, c)
    BY SumsExist DEF Summing
  <2> HIDE DEF c
  <2> QED
    BY <2>1, <2>2
<1>2. PICK f : Summing(n + 1, f) /\ Through(n + 1) = f[n + 1]
  BY <1>1
<1>3. PICK g : Summing(n, g) /\ Through(n) = g[n]
  BY <1>1
<1>4. PICK h : Summing(0, h) /\ Through(0) = h[0]
  BY <1>1
<1>5. f[n] = g[n]
  BY <1>2, <1>3, SumsAgree
<1>6. f[n + 1] = f[n] + FrameSize(stream[n + 1])
  <2>1. n + 1 \in 0 .. (n + 1) /\ n + 1 # 0 /\ (n + 1) - 1 = n
    OBVIOUS
  <2> QED
    BY <1>2, <2>1 DEF Summing
<1>7. h[0] = 0
  BY <1>4 DEF Summing
<1> QED
  BY <1>2, <1>3, <1>4, <1>5, <1>6, <1>7

LEMMA ThroughKept ==
  ASSUME stream' = stream, NEW n
  PROVE  Through(n)' = Through(n)
BY DEF Through, FrameSize, headerSize

Reading(n, f) ==
  f = [k \in 0 .. n |-> IF k = 0 THEN Unread ELSE ReadFrame(f[k - 1], k)]

LEMMA ReadingsAgree ==
  ASSUME NEW n \in Nat, NEW m \in Nat, NEW f, NEW g, Reading(n, f), Reading(m, g),
         NEW j \in Nat, j <= n, j <= m
  PROVE  f[j] = g[j]
<1> DEFINE D == {k \in Nat : k <= n /\ k <= m /\ f[k] # g[k]}
<1> SUFFICES ASSUME D # {} PROVE FALSE
  OBVIOUS
<1>1. PICK k \in D : \A y \in D : k <= y
  BY MinMember
<1>2. k \in 0 .. n /\ k \in 0 .. m /\ f[k] # g[k]
  BY <1>1
<1>3. k # 0
  BY <1>2 DEF Reading
<1>4. k - 1 \in Nat /\ k - 1 <= n /\ k - 1 <= m /\ k - 1 \notin D
  BY <1>1, <1>2, <1>3
<1>5. f[k - 1] = g[k - 1]
  BY <1>4
<1> QED
  BY <1>2, <1>3, <1>5 DEF Reading

LEMMA ReadingsExist ==
  ASSUME NEW n \in Nat
  PROVE  \E f : Reading(n, f)
<1> DEFINE D == {k \in Nat : ~\E f : Reading(k, f)}
<1> SUFFICES ASSUME D # {} PROVE FALSE
  OBVIOUS
<1>1. PICK m \in D : \A y \in D : m <= y
  BY MinMember
<1>2. m # 0
  <2> SUFFICES ASSUME m = 0 PROVE FALSE
    OBVIOUS
  <2> DEFINE f == [k \in 0 .. 0 |-> Unread]
  <2>1. Reading(0, f)
    BY DEF Reading
  <2> QED
    BY <1>1, <2>1
<1>3. m - 1 \in Nat /\ m - 1 \notin D
  BY <1>1, <1>2
<1>4. PICK g : Reading(m - 1, g)
  BY <1>3
<1> DEFINE f == [k \in 0 .. m |-> IF k = m THEN ReadFrame(g[m - 1], m) ELSE g[k]]
<1>5. \A k \in 0 .. m : f[k] = IF k = 0 THEN Unread ELSE ReadFrame(f[k - 1], k)
  <2> TAKE k \in 0 .. m
  <2>1. CASE k = m
    BY <1>2, <2>1
  <2>2. CASE k # m
    <3>1. k \in 0 .. (m - 1) /\ f[k] = g[k] /\ (k # 0 => f[k - 1] = g[k - 1])
      BY <1>3, <2>2
    <3> QED
      BY <1>4, <3>1 DEF Reading
  <2> QED
    BY <2>1, <2>2
<1>6. Reading(m, f)
  BY <1>5 DEF Reading
<1> QED
  BY <1>1, <1>6

LEMMA WholeStep ==
  ASSUME NEW n \in Nat
  PROVE  Whole(0) = Unread /\ Whole(n + 1) = ReadFrame(Whole(n), n + 1)
<1>1. ASSUME NEW k \in Nat PROVE \E f : Reading(k, f) /\ Whole(k) = f[k]
  <2> DEFINE c == CHOOSE f : f = [j \in 0 .. k |->
                     IF j = 0 THEN Unread ELSE ReadFrame(f[j - 1], j)]
  <2>1. Whole(k) = c[k]
    BY DEF Whole
  <2>2. Reading(k, c)
    BY ReadingsExist DEF Reading
  <2> HIDE DEF c
  <2> QED
    BY <2>1, <2>2
<1>2. PICK f : Reading(n + 1, f) /\ Whole(n + 1) = f[n + 1]
  BY <1>1
<1>3. PICK g : Reading(n, g) /\ Whole(n) = g[n]
  BY <1>1
<1>4. PICK h : Reading(0, h) /\ Whole(0) = h[0]
  BY <1>1
<1>5. f[n] = g[n]
  BY <1>2, <1>3, ReadingsAgree
<1>6. f[n + 1] = ReadFrame(f[n], n + 1)
  <2>1. n + 1 \in 0 .. (n + 1) /\ n + 1 # 0 /\ (n + 1) - 1 = n
    OBVIOUS
  <2> QED
    BY <1>2, <2>1 DEF Reading
<1>7. h[0] = Unread
  BY <1>4 DEF Reading
<1> QED
  BY <1>2, <1>3, <1>4, <1>5, <1>6, <1>7

LEMMA WholeKept ==
  ASSUME stream' = stream, deflate' = deflate, NEW n
  PROVE  Whole(n)' = Whole(n)
BY DEF Whole, ReadFrame, Emit, Bytes, Bad, Message

-----------------------------------------------------------------------------
(* Bytes.                                                                  *)
LEMMA PartIs ==
  ASSUME NEW i \in Nat, NEW k \in Nat
  PROVE  /\ Part(i, k) \in Seq(Byte) /\ Len(Part(i, k)) = k
         /\ \A j \in 1 .. k : Part(i, k)[j] = <<i, j - 1>>
         /\ k = 0 => Part(i, k) = <<>>
<1>1. \A j \in 1 .. k : <<i, j - 1>> \in Byte
  BY DEF Byte
<1>2. Part(i, k) \in Seq(Byte)
  BY <1>1 DEF Part
<1>3. Len(Part(i, k)) = k
  BY <1>1, <1>2 DEF Part
<1>4. k = 0 => Part(i, k) = <<>>
  BY <1>2, <1>3
<1> QED
  BY <1>2, <1>3, <1>4 DEF Part

LEMMA AfterAt ==
  ASSUME NEW i, NEW k, NEW n, NEW j \in 1 .. n
  PROVE  After(i, k, n)[j] = <<i, k + j - 1>>
BY DEF After

LEMMA AfterIs ==
  ASSUME NEW i \in Nat, NEW k \in Nat, NEW n \in Nat
  PROVE  After(i, k, n) \in Seq(Byte) /\ Len(After(i, k, n)) = n
<1>1. \A j \in 1 .. n : <<i, k + j - 1>> \in Byte
  BY DEF Byte
<1>2. After(i, k, n) \in Seq(Byte)
  BY <1>1 DEF After
<1>3. Len(After(i, k, n)) = n
  BY <1>1, <1>2 DEF After
<1> QED
  BY <1>2, <1>3

LEMMA PartMore ==
  ASSUME NEW i \in Nat, NEW k \in Nat, NEW n \in Nat
  PROVE  Part(i, k) \o After(i, k, n) = Part(i, k + n)
<1> DEFINE x == After(i, k, n)
<1>0. /\ x \in Seq(Byte) /\ Len(x) = n
      /\ \A j \in 1 .. n : x[j] = <<i, k + j - 1>>
  <2>1. ASSUME NEW j \in 1 .. n PROVE x[j] = <<i, k + j - 1>>
    BY AfterAt
  <2>2. x \in Seq(Byte) /\ Len(x) = n
    BY AfterIs
  <2> QED
    BY <2>1, <2>2
<1> HIDE DEF x
<1> DEFINE a == Part(i, k)
           b == Part(i, k + n)
<1>1. a \in Seq(Byte) /\ Len(a) = k /\ \A j \in 1 .. k : a[j] = <<i, j - 1>>
  BY PartIs
<1>2. b \in Seq(Byte) /\ Len(b) = k + n /\ \A j \in 1 .. (k + n) : b[j] = <<i, j - 1>>
  <2>1. k + n \in Nat
    OBVIOUS
  <2> QED
    BY <2>1, PartIs
<1> HIDE DEF a, b
<1>3. /\ a \o x \in Seq(Byte) /\ Len(a \o x) = k + n
      /\ \A j \in 1 .. (k + n) : (a \o x)[j] = IF j <= k THEN a[j] ELSE x[j - k]
  BY <1>0, <1>1, ConcatProperties
<1>4. ASSUME NEW j \in 1 .. (k + n) PROVE (a \o x)[j] = b[j]
  <2>1. CASE j <= k
    <3>1. j \in 1 .. k
      BY <2>1
    <3>2. (a \o x)[j] = a[j]
      BY <1>3, <2>1
    <3> QED
      BY <1>1, <1>2, <3>1, <3>2
  <2>2. CASE ~(j <= k)
    <3>1. j - k \in 1 .. n /\ k + (j - k) - 1 = j - 1
      BY <2>2
    <3>2. x[j - k] = <<i, j - 1>>
      BY <1>0, <3>1
    <3> QED
      BY <1>2, <1>3, <2>2, <3>2
  <2> QED
    BY <2>1, <2>2
<1>5. a \o x = b
  BY <1>2, <1>3, <1>4, SeqEqual
<1> QED
  BY <1>5 DEF a, b, x

(* The smaller of two numbers.                                             *)
LEMMA MinOfTwo ==
  ASSUME NEW a \in Nat, NEW b \in Nat
  PROVE  Min({a, b}) = IF a <= b THEN a ELSE b
<1> DEFINE S == {a, b}
<1>1. Min(S) \in S /\ \A y \in S : Min(S) <= y
  BY MinMember
<1> QED
  BY <1>1

LEMMA CutIs ==
  ASSUME NEW b \in Seq(Byte), Limit \in Nat
  PROVE  LET m == IF Limit <= Len(b) THEN Limit ELSE Len(b) IN
         /\ CutOff(b) \in Seq(Byte) /\ Len(CutOff(b)) = m
         /\ \A j \in 1 .. m : CutOff(b)[j] = b[j]
<1> DEFINE m == IF Limit <= Len(b) THEN Limit ELSE Len(b)
<1>1. Len(b) \in Nat /\ m \in 0 .. Len(b)
  OBVIOUS
<1>2. CutOff(b) = SubSeq(b, 1, m)
  BY <1>1, MinOfTwo DEF CutOff
<1> HIDE DEF m
<1>3. \A i \in 1 .. m : b[i] \in Byte
  BY <1>1
<1>4. /\ SubSeq(b, 1, m) \in Seq(Byte) /\ Len(SubSeq(b, 1, m)) = m
      /\ \A j \in 1 .. m : SubSeq(b, 1, m)[j] = b[j]
  BY <1>1, <1>3, SubSeqProperties
<1> QED
  BY <1>2, <1>4 DEF m

(* How many of x more bytes fit when b bytes have come.                    *)
LEMMA RoomLeft ==
  ASSUME NEW most \in Nat, NEW b \in Nat, NEW x \in Nat
  PROVE  LET n == IF most <= b THEN most ELSE b
             m == IF most <= b + x THEN most ELSE b + x
             keep == IF n + x > most THEN most - n ELSE x
         IN keep \in 0 .. x /\ n + keep = m /\ n \in Nat /\ m \in Nat
OBVIOUS

(* Cutting a message at the limit as its bytes come.                       *)
LEMMA CutMore ==
  ASSUME NEW b \in Seq(Byte), NEW x \in Seq(Byte), Limit \in Nat,
         NEW keep \in Nat, keep = IF Len(CutOff(b)) + Len(x) > Limit
                          THEN Limit - Len(CutOff(b)) ELSE Len(x),
         NEW y \in Seq(Byte), Len(y) = keep, \A j \in 1 .. keep : y[j] = x[j]
  PROVE  CutOff(b) \o y = CutOff(b \o x)
<1> DEFINE c == CutOff(b)
           d == CutOff(b \o x)
           n == IF Limit <= Len(b) THEN Limit ELSE Len(b)
           m == IF Limit <= Len(b) + Len(x) THEN Limit ELSE Len(b) + Len(x)
<1>1. Len(b) \in Nat /\ Len(x) \in Nat
  OBVIOUS
<1>2. c \in Seq(Byte) /\ Len(c) = n /\ \A j \in 1 .. n : c[j] = b[j]
  BY CutIs
<1>3. /\ b \o x \in Seq(Byte) /\ Len(b \o x) = Len(b) + Len(x)
      /\ \A j \in 1 .. (Len(b) + Len(x)) :
           (b \o x)[j] = IF j <= Len(b) THEN b[j] ELSE x[j - Len(b)]
  BY ConcatProperties
<1>4. d \in Seq(Byte) /\ Len(d) = m /\ \A j \in 1 .. m : d[j] = (b \o x)[j]
  BY <1>3, CutIs
<1> HIDE DEF c, d
<1>5. keep = (IF n + Len(x) > Limit THEN Limit - n ELSE Len(x))
  BY <1>2 DEF c
<1>6. keep \in 0 .. Len(x) /\ n + keep = m /\ n \in Nat /\ m \in Nat
  <2> DEFINE r == IF n + Len(x) > Limit THEN Limit - n ELSE Len(x)
  <2>1. r \in 0 .. Len(x) /\ n + r = m /\ n \in Nat /\ m \in Nat
    BY <1>1, RoomLeft, Zenon
  <2>2. keep = r
    BY <1>5
  <2> HIDE DEF n, m, r
  <2> QED
    BY <2>1, <2>2
<1>7. /\ c \o y \in Seq(Byte) /\ Len(c \o y) = m
      /\ \A j \in 1 .. m : (c \o y)[j] = IF j <= n THEN c[j] ELSE y[j - n]
  <2> HIDE DEF n, m
  <2>1. /\ c \o y \in Seq(Byte) /\ Len(c \o y) = Len(c) + Len(y)
        /\ \A j \in 1 .. (Len(c) + Len(y)) :
             (c \o y)[j] = IF j <= Len(c) THEN c[j] ELSE y[j - Len(c)]
    BY <1>2, ConcatProperties
  <2>2. Len(c) + Len(y) = m
    BY <1>2, <1>6
  <2> QED
    BY <1>2, <2>1, <2>2
<1>8. ASSUME NEW j \in 1 .. m PROVE (c \o y)[j] = d[j]
  <2>0. j \in 1 .. (Len(b) + Len(x))
    BY <1>1
  <2>1. CASE j <= n
    <3>1. j \in 1 .. n /\ j <= Len(b)
      BY <1>1, <2>1
    <3> QED
      BY <1>2, <1>3, <1>4, <1>7, <2>0, <2>1, <3>1
  <2>2. CASE ~(j <= n)
    <3>1. n = Len(b)
      BY <1>1, <2>2
    <3> HIDE DEF n, m
    <3>2. j - n \in 1 .. keep /\ ~(j <= Len(b))
      BY <1>1, <1>6, <2>2, <3>1
    <3>3. (c \o y)[j] = x[j - n]
      BY <1>7, <2>2, <3>2
    <3>4. d[j] = x[j - n]
      BY <1>3, <1>4, <2>0, <3>1, <3>2
    <3> QED
      BY <3>3, <3>4
  <2> QED
    BY <2>1, <2>2
<1>9. c \o y = d
  BY <1>4, <1>7, <1>8, SeqEqual
<1> QED
  BY <1>9 DEF c, d

(* The shapes of the messages, one more of which is reported.              *)
LEMMA ShapesMore ==
  ASSUME NEW s \in Seq(Report), NEW m \in Report
  PROVE  Shapes(Append(s, m)) = Append(Shapes(s), Shape(m)) /\ Shapes(s) \in Seq(Report)
<1>1. ASSUME NEW r \in Report PROVE Shape(r) \in Report
  BY DEF Shape, Report
<1>2. DOMAIN s = 1 .. Len(s) /\ Len(s) \in Nat /\ \A i \in 1 .. Len(s) : s[i] \in Report
  OBVIOUS
<1> DEFINE t == Append(s, m)
           u == Shapes(t)
           v == Shapes(s)
           w == Append(v, Shape(m))
<1>3. /\ t \in Seq(Report) /\ Len(t) = Len(s) + 1 /\ DOMAIN t = 1 .. (Len(s) + 1)
      /\ \A i \in 1 .. (Len(s) + 1) : t[i] = IF i = Len(s) + 1 THEN m ELSE s[i]
  BY <1>2
<1> HIDE DEF t
<1>4. v = [i \in 1 .. Len(s) |-> Shape(s[i])] /\ u = [i \in 1 .. (Len(s) + 1) |-> Shape(t[i])]
  BY <1>2, <1>3 DEF Shapes
<1>5. v \in Seq(Report) /\ Len(v) = Len(s)
  BY <1>1, <1>2, <1>4
<1>6. u \in Seq(Report) /\ Len(u) = Len(s) + 1
  <2>1. \A i \in 1 .. (Len(s) + 1) : Shape(t[i]) \in Report
    BY <1>1, <1>2, <1>3
  <2> QED
    BY <1>2, <1>4, <2>1
<1>7. /\ w \in Seq(Report) /\ Len(w) = Len(s) + 1
      /\ \A i \in 1 .. (Len(s) + 1) : w[i] = IF i = Len(s) + 1 THEN Shape(m) ELSE v[i]
  BY <1>1, <1>2, <1>5
<1>8. \A i \in 1 .. (Len(s) + 1) : u[i] = w[i]
  BY <1>2, <1>3, <1>4, <1>7
<1> HIDE DEF u, v, w
<1>9. u = w
  BY <1>6, <1>7, <1>8, SeqEqual
<1> QED
  BY <1>5, <1>9 DEF t, u, v, w

(* The bytes of a message grow by those of its frame.                      *)
LEMMA BytesType ==
  ASSUME NEW s \in Seq(Byte), NEW i \in Nat, NEW k \in Nat
  PROVE  s \o Part(i, k) \in Seq(Byte) /\ Len(s \o Part(i, k)) = Len(s) + k
<1> DEFINE a == Part(i, k)
<1>1. a \in Seq(Byte) /\ Len(a) = k
  BY PartIs
<1> HIDE DEF a
<1>2. s \o a \in Seq(Byte) /\ Len(s \o a) = Len(s) + Len(a)
  BY <1>1, ConcatProperties
<1> QED
  BY <1>1, <1>2 DEF a

LEMMA BytesMore ==
  ASSUME NEW s \in Seq(Byte), NEW i \in Nat, NEW k \in Nat, NEW n \in Nat
  PROVE  (s \o Part(i, k)) \o After(i, k, n) = s \o Part(i, k + n)
<1> DEFINE a == Part(i, k)
           u == After(i, k, n)
<1>1. a \in Seq(Byte)
  BY PartIs
<1>2. u \in Seq(Byte)
  BY AfterIs
<1>3. a \o u = Part(i, k + n)
  BY PartMore, Zenon
<1> HIDE DEF a, u
<1>4. (s \o a) \o u = s \o (a \o u)
  BY <1>1, <1>2, ConcatAssociative
<1> QED
  BY <1>3, <1>4 DEF a, u

(* And so does what the limit leaves of them.                              *)
LEMMA CutGrows ==
  ASSUME Limit \in Nat, NEW s \in Seq(Byte), NEW i \in Nat, NEW k \in Nat,
         NEW n \in Nat
  PROVE  LET a == s \o Part(i, k)
             b == s \o Part(i, k + n)
             c == CutOff(a)
             keep == IF Len(c) + n > Limit THEN Limit - Len(c) ELSE n
         IN  /\ keep \in Nat /\ c \o After(i, k, keep) = CutOff(b)
             /\ (Len(a) > Limit \/ Len(c) + n > Limit) <=> Len(b) > Limit
             /\ After(i, k, keep) \in Seq(Byte)
<1> DEFINE a == s \o Part(i, k)
           b == s \o Part(i, k + n)
           c == CutOff(a)
           keep == IF Len(c) + n > Limit THEN Limit - Len(c) ELSE n
           u == After(i, k, n)
           y == After(i, k, keep)
<1>1. a \in Seq(Byte) /\ Len(a) \in Nat /\ a \o u = b /\ Len(b) = Len(a) + n
  <2>1. a \in Seq(Byte) /\ Len(a) = Len(s) + k
    BY BytesType
  <2>2. k + n \in Nat
    OBVIOUS
  <2>3. Len(b) = Len(s) + (k + n)
    BY <2>2, BytesType, Zenon
  <2>4. a \o u = b
    BY BytesMore, Zenon
  <2> HIDE DEF a, b, u
  <2> QED
    BY <2>1, <2>3, <2>4
<1>2. u \in Seq(Byte) /\ Len(u) = n
  BY AfterIs
<1> HIDE DEF a, b, u
<1>3. Len(c) = IF Limit <= Len(a) THEN Limit ELSE Len(a)
  BY <1>1, CutIs
<1> HIDE DEF c
<1>4. keep \in Nat /\ keep <= n /\ ((Len(a) > Limit \/ Len(c) + n > Limit) <=> Len(b) > Limit)
  BY <1>1, <1>3
<1>5. keep = IF Len(c) + Len(u) > Limit THEN Limit - Len(c) ELSE Len(u)
  BY <1>2
<1> HIDE DEF keep
<1>6. y \in Seq(Byte) /\ Len(y) = keep
  BY <1>4, AfterIs
<1>7. ASSUME NEW j \in 1 .. keep PROVE y[j] = u[j]
  <2>1. j \in 1 .. n
    BY <1>4
  <2>2. y[j] = <<i, k + j - 1>>
    BY AfterAt
  <2>3. u[j] = <<i, k + j - 1>>
    BY <2>1, AfterAt DEF u
  <2> QED
    BY <2>2, <2>3
<1> HIDE DEF y
<1>8. c \o y = CutOff(a \o u)
  <2>1. keep = IF Len(CutOff(a)) + Len(u) > Limit THEN Limit - Len(CutOff(a)) ELSE Len(u)
    BY <1>5 DEF c
  <2>2. CutOff(a) \o y = CutOff(a \o u)
    <3>1. \A j \in 1 .. keep : y[j] = u[j]
      BY <1>7
    <3>2. a \in Seq(Byte) /\ u \in Seq(Byte) /\ y \in Seq(Byte) /\ Len(y) = keep /\ keep \in Nat
      BY <1>1, <1>2, <1>4, <1>6
    <3> QED
      BY <2>1, <3>1, <3>2, CutMore, Zenon
  <2> QED
    BY <2>2 DEF c
<1> QED
  BY <1>1, <1>4, <1>6, <1>8 DEF a, b, c, keep, y

-----------------------------------------------------------------------------
(* The parser's operations, field by field.                                *)
LEMMA BeginIs ==
  ASSUME NEW p \in ParserState, NEW f \in FrameHeader
  PROVE  LET q == Begin(p, f) IN
         /\ q \in ParserState /\ q.headerLen = 0 /\ q.inFrame = TRUE
         /\ q.remaining = f.len /\ q.opcode = f.op /\ q.fin = f.fin
         /\ q.masked = f.masked /\ q.maskPos = 0 /\ q.err = p.err
         /\ f.op \in ControlOp => q.control = <<>>
         /\ f.op \in DataOp =>
              /\ q.inMessage = TRUE /\ q.msgOpcode = f.op /\ q.compressed = f.rsv1
              /\ q.payload = <<>> /\ q.size = 0 /\ q.truncated = FALSE
              /\ q.overflow = FALSE /\ q.corrupt = FALSE
         /\ f.op \notin DataOp =>
              /\ q.inMessage = p.inMessage /\ q.msgOpcode = p.msgOpcode
              /\ q.compressed = p.compressed /\ q.payload = p.payload
              /\ q.size = p.size /\ q.truncated = p.truncated
              /\ q.overflow = p.overflow /\ q.corrupt = p.corrupt
<1> DEFINE c == IF f.op \in ControlOp THEN <<>> ELSE p.control
           r == [p EXCEPT !.headerLen = 0, !.inFrame = TRUE, !.remaining = f.len,
                     !.opcode = f.op, !.fin = f.fin, !.masked = f.masked,
                     !.maskPos = 0, !.control = c]
           q == Begin(p, f)
<1>1. /\ f.len \in Nat /\ f.op \in Opcode /\ f.fin \in BOOLEAN /\ f.masked \in BOOLEAN
      /\ f.rsv1 \in BOOLEAN
  BY DEF FrameHeader
<1>2. c \in Seq(Byte) /\ <<>> \in Seq(Byte)
  BY DEF ParserState
<1>3. q = IF f.op \notin DataOp THEN r
          ELSE [r EXCEPT !.inMessage = TRUE, !.msgOpcode = f.op, !.compressed = f.rsv1,
                    !.payload = <<>>, !.size = 0, !.truncated = FALSE,
                    !.overflow = FALSE, !.corrupt = FALSE]
  BY DEF Begin
<1>4. f.op \in ControlOp => c = <<>>
  OBVIOUS
<1> HIDE DEF c, q
<1>5. /\ r \in ParserState /\ r.headerLen = 0 /\ r.inFrame = TRUE
      /\ r.remaining = f.len /\ r.opcode = f.op /\ r.fin = f.fin
      /\ r.masked = f.masked /\ r.maskPos = 0 /\ r.err = p.err /\ r.control = c
  BY <1>1, <1>2 DEF ParserState
<1>6. /\ r.inMessage = p.inMessage /\ r.msgOpcode = p.msgOpcode
      /\ r.compressed = p.compressed /\ r.payload = p.payload
      /\ r.size = p.size /\ r.truncated = p.truncated
      /\ r.overflow = p.overflow /\ r.corrupt = p.corrupt
  BY DEF ParserState
<1> HIDE DEF r
<1>7. CASE f.op \notin DataOp
  <2>1. q = r
    BY <1>3, <1>7
  <2> QED
    BY <1>4, <1>5, <1>6, <1>7, <2>1 DEF q
<1>8. CASE f.op \in DataOp
  <2>1. /\ q \in ParserState /\ q.headerLen = 0 /\ q.inFrame = TRUE
        /\ q.remaining = f.len /\ q.opcode = f.op /\ q.fin = f.fin
        /\ q.masked = f.masked /\ q.maskPos = 0 /\ q.err = p.err /\ q.control = c
    BY <1>1, <1>2, <1>3, <1>5, <1>8 DEF ParserState
  <2>2. /\ q.inMessage = TRUE /\ q.msgOpcode = f.op /\ q.compressed = f.rsv1
        /\ q.payload = <<>> /\ q.size = 0 /\ q.truncated = FALSE
        /\ q.overflow = FALSE /\ q.corrupt = FALSE
    BY <1>3, <1>5, <1>8 DEF ParserState
  <2> QED
    BY <1>4, <1>8, <2>1, <2>2 DEF q
<1> QED
  BY <1>7, <1>8

(* A header is judged alike by the parser and by the reference.            *)
LEMMA BadAlike ==
  ASSUME NEW p \in ParserState, NEW st \in RefState, p.inMessage <=> st.first # 0,
         NEW f \in FrameHeader
  PROVE  Bad(p, f) <=> Bad([inMessage |-> st.first # 0], f)
<1> DEFINE b == [inMessage |-> st.first # 0]
<1>1. b.inMessage <=> p.inMessage
  OBVIOUS
<1> HIDE DEF b
<1>2. Bad(p, f) <=> Bad(b, f)
  BY <1>1 DEF Bad
<1> QED
  BY <1>2 DEF b

(* A frame that begins.                                                    *)
LEMMA BeginWithin ==
  ASSUME ParserAssumption, NEW p \in ParserState, NEW st \in RefState, NEW h,
         NEW i \in Nat \ {0}, stream[i] \in FrameHeader, Between(p, st, h),
         ~Bad([inMessage |-> st.first # 0], stream[i]),
         st.first = 0 => st.bytes = <<>> /\ ~st.damaged
  PROVE  LET q == Begin(p, stream[i]) IN q \in ParserState /\ Within(q, st, i, 0)
<1> DEFINE f == stream[i]
           q == Begin(p, f)
           b == st.bytes \o Part(i, 0)
<1>1. /\ q \in ParserState /\ q.headerLen = 0 /\ q.inFrame = TRUE
      /\ q.remaining = f.len /\ q.opcode = f.op /\ q.fin = f.fin
      /\ q.masked = f.masked /\ q.maskPos = 0 /\ q.err = p.err
      /\ f.op \in ControlOp => q.control = <<>>
      /\ f.op \in DataOp =>
           /\ q.inMessage = TRUE /\ q.msgOpcode = f.op /\ q.compressed = f.rsv1
           /\ q.payload = <<>> /\ q.size = 0 /\ q.truncated = FALSE
           /\ q.overflow = FALSE /\ q.corrupt = FALSE
      /\ f.op \notin DataOp =>
           /\ q.inMessage = p.inMessage /\ q.msgOpcode = p.msgOpcode
           /\ q.compressed = p.compressed /\ q.payload = p.payload
           /\ q.size = p.size /\ q.truncated = p.truncated
           /\ q.overflow = p.overflow /\ q.corrupt = p.corrupt
  BY BeginIs
<1> HIDE DEF q
<1>2. f.len \in Nat /\ 0 <= f.len /\ f.len - 0 = f.len
  BY DEF FrameHeader
<1>3. Part(i, 0) = <<>> /\ st.bytes \in Seq(Byte) /\ st.first \in Nat
  BY PartIs DEF RefState
<1>4. b = st.bytes
  BY <1>3, ConcatEmptySeq
<1>5. Pending(p, st) /\ ~p.err
  BY DEF Between
<1>6. ASSUME NEW g, NEW c, NEW d, Gathered(p, g, c, d), f.op \notin DataOp
      PROVE  Gathered(q, g, c, d)
  BY <1>1, <1>6 DEF Gathered
<1>7. CASE f.op \in ControlOp
  <2>1. f.op \notin DataOp
    BY <1>7 DEF ControlOp, DataOp
  <2>2. Pending(q, st)
    BY <1>1, <1>5, <1>6, <2>1 DEF Pending
  <2> QED
    BY <1>1, <1>2, <1>3, <1>5, <1>7, <2>2 DEF Within, q
<1>8. CASE f.op \in DataOp
  <2>1. f.op \notin ControlOp
    BY <1>8 DEF ControlOp, DataOp
  <2>2. st.first = 0
    BY <1>8 DEF Bad
  <2>3. b = <<>> /\ First(st, i) = i /\ ~st.damaged
    BY <1>4, <2>2 DEF First
  <2>4. CutOff(<<>>) = <<>> /\ Len(<<>>) = 0 /\ Limit \in Nat /\ MaxCompressed \in Nat
    <3>1. <<>> \in Seq(Byte) /\ Len(<<>>) = 0 /\ Limit \in Nat /\ MaxCompressed \in Nat
      BY DEF ParserAssumption
    <3>2. CutOff(<<>>) \in Seq(Byte) /\ Len(CutOff(<<>>)) = IF Limit <= 0 THEN Limit ELSE 0
      BY <3>1, CutIs
    <3> QED
      BY <3>1, <3>2
  <2>5. Gathered(q, i, <<>>, st.damaged \/ (f.corrupt /\ 0 > 0))
    <3>1. ~(0 > 0) /\ ~(0 > Limit) /\ ~(0 > MaxCompressed)
      BY <2>4
    <3> QED
      BY <1>1, <1>8, <2>3, <2>4, <3>1 DEF Gathered
  <2>6. Gathered(q, First(st, i), b, st.damaged \/ (f.corrupt /\ 0 > 0))
    BY <2>3, <2>5
  <2> QED
    BY <1>1, <1>2, <1>5, <1>8, <2>1, <2>6 DEF Within, q
<1>9. CASE f.op \notin ControlOp /\ f.op \notin DataOp
  <2>1. f.op = "continuation"
    BY <1>9 DEF Bad, FrameHeader, Opcode
  <2>2. st.first # 0
    BY <2>1 DEF Bad
  <2>3. q.inMessage /\ Gathered(q, st.first, st.bytes, st.damaged)
    BY <1>1, <1>5, <1>6, <1>9, <2>2 DEF Pending
  <2>4. Gathered(q, First(st, i), b, st.damaged \/ (f.corrupt /\ 0 > 0))
    <3>1. First(st, i) = st.first /\ ~(0 > 0)
      BY <2>2 DEF First
    <3>2. (st.damaged \/ (f.corrupt /\ 0 > 0)) <=> st.damaged
      BY <3>1
    <3> QED
      BY <1>4, <2>3, <3>1, <3>2 DEF Gathered
  <2> QED
    BY <1>1, <1>2, <1>5, <1>9, <2>3, <2>4 DEF Within, q
<1> QED
  BY <1>7, <1>8, <1>9

(* Unmasking from the right place gives the bytes that were sent.          *)
LEMMA UnmaskedIs ==
  ASSUME NEW p, NEW i, NEW n, NextByte(i, p.maskPos), p.maskPos \in Nat
  PROVE  Unmasked(p, n) = After(i, p.maskPos, n)
BY DEF Unmasked, After, NextByte

(* What consume and the count of the payload do, field by field.           *)
Takes(p, n, q) ==
  /\ q \in ParserState /\ q.headerLen = p.headerLen /\ q.inFrame = p.inFrame
  /\ q.remaining = p.remaining - n /\ q.opcode = p.opcode /\ q.fin = p.fin
  /\ q.masked = p.masked /\ q.maskPos = p.maskPos + n
  /\ q.inMessage = p.inMessage /\ q.err = p.err
  /\ q.msgOpcode = p.msgOpcode /\ q.compressed = p.compressed
  /\ p.opcode \in ControlOp =>
       /\ q.control = p.control \o Unmasked(p, n) /\ q.payload = p.payload
       /\ q.size = p.size /\ q.truncated = p.truncated
       /\ q.overflow = p.overflow /\ q.corrupt = p.corrupt
  /\ p.opcode \notin ControlOp /\ p.compressed =>
       /\ q.corrupt = (p.corrupt \/ stream[pos[1]].corrupt)
       /\ q.overflow = (p.overflow \/ Len(p.payload) + n > MaxCompressed)
       /\ q.payload = IF Len(p.payload) + n > MaxCompressed THEN p.payload
                      ELSE p.payload \o Unmasked(p, n)
  /\ p.opcode \notin ControlOp /\ ~p.compressed =>
       /\ q.size = p.size + n /\ q.payload = p.payload \o Unmasked(p, Kept(p, n))
       /\ q.truncated = (p.truncated \/ Len(p.payload) + n > Limit)

LEMMA ConsumeIs ==
  ASSUME NEW p \in ParserState, NEW n \in Nat, stream[pos[1]] \in FrameHeader,
         n <= p.remaining, Unmasked(p, n) \in Seq(Byte),
         p.opcode \notin ControlOp /\ ~p.compressed => Unmasked(p, Kept(p, n)) \in Seq(Byte)
  PROVE  Takes(p, n, [consume(p, n) EXCEPT !.remaining = @ - n])
<1> DEFINE u == Unmasked(p, n)
           y == Unmasked(p, Kept(p, n))
           c == consume(p, n)
           q == [c EXCEPT !.remaining = @ - n]
<1>1. /\ p.maskPos \in Nat /\ p.size \in Nat /\ p.remaining \in Nat
      /\ p.control \in Seq(Byte) /\ p.payload \in Seq(Byte) /\ p.corrupt \in BOOLEAN
      /\ p.overflow \in BOOLEAN /\ p.truncated \in BOOLEAN /\ p.compressed \in BOOLEAN
  BY DEF ParserState
<1>2. p.control \o u \in Seq(Byte) /\ p.payload \o u \in Seq(Byte)
  BY <1>1, ConcatProperties
<1>3. /\ p.maskPos + n \in Nat /\ p.size + n \in Nat /\ p.remaining - n \in Nat
  BY <1>1
<1>4. stream[pos[1]].corrupt \in BOOLEAN
  BY DEF FrameHeader
<1>5. CASE p.opcode \in ControlOp
  <2>1. c = [p EXCEPT !.control = p.control \o u, !.maskPos = p.maskPos + n]
    BY <1>5 DEF consume, ParserState
  <2> HIDE DEF c
  <2>2. c \in ParserState /\ c.remaining = p.remaining
    BY <1>2, <1>3, <2>1 DEF ParserState
  <2>3. /\ c.headerLen = p.headerLen /\ c.inFrame = p.inFrame
        /\ c.opcode = p.opcode /\ c.fin = p.fin
        /\ c.masked = p.masked /\ c.maskPos = p.maskPos + n
        /\ c.inMessage = p.inMessage /\ c.err = p.err
        /\ c.msgOpcode = p.msgOpcode /\ c.compressed = p.compressed
    BY <2>1 DEF ParserState
  <2>4. /\ c.control = p.control \o u /\ c.payload = p.payload
        /\ c.size = p.size /\ c.truncated = p.truncated
        /\ c.overflow = p.overflow /\ c.corrupt = p.corrupt
    BY <2>1 DEF ParserState
  <2>5. q \in ParserState /\ q.remaining = p.remaining - n
    BY <1>3, <2>2 DEF ParserState
  <2>6. /\ q.headerLen = c.headerLen /\ q.inFrame = c.inFrame
        /\ q.opcode = c.opcode /\ q.fin = c.fin
        /\ q.masked = c.masked /\ q.maskPos = c.maskPos
        /\ q.inMessage = c.inMessage /\ q.err = c.err
        /\ q.msgOpcode = c.msgOpcode /\ q.compressed = c.compressed
        /\ q.control = c.control /\ q.payload = c.payload
        /\ q.size = c.size /\ q.truncated = c.truncated
        /\ q.overflow = c.overflow /\ q.corrupt = c.corrupt
    BY <2>2 DEF ParserState
  <2> HIDE DEF q
  <2> QED
    BY <1>5, <2>3, <2>4, <2>5, <2>6 DEF Takes, q, c
<1>6. CASE p.opcode \notin ControlOp /\ p.compressed
  <2> DEFINE k == p.corrupt \/ stream[pos[1]].corrupt
             o == p.overflow \/ Len(p.payload) + n > MaxCompressed
             b == IF Len(p.payload) + n > MaxCompressed THEN p.payload
                  ELSE p.payload \o u
  <2>1. c = [p EXCEPT !.maskPos = p.maskPos + n, !.corrupt = k, !.overflow = o, !.payload = b]
    BY <1>6 DEF consume, ParserState
  <2>2. k \in BOOLEAN /\ o \in BOOLEAN /\ b \in Seq(Byte)
    BY <1>1, <1>2, <1>4
  <2> HIDE DEF c, k, o, b
  <2>3. c \in ParserState /\ c.remaining = p.remaining
    BY <1>2, <1>3, <2>1, <2>2 DEF ParserState
  <2>4. /\ c.headerLen = p.headerLen /\ c.inFrame = p.inFrame
        /\ c.opcode = p.opcode /\ c.fin = p.fin
        /\ c.masked = p.masked /\ c.maskPos = p.maskPos + n
        /\ c.inMessage = p.inMessage /\ c.err = p.err
        /\ c.msgOpcode = p.msgOpcode /\ c.compressed = p.compressed
    BY <2>1 DEF ParserState
  <2>5. c.payload = b /\ c.overflow = o /\ c.corrupt = k
    BY <2>1 DEF ParserState
  <2>6. q \in ParserState /\ q.remaining = p.remaining - n
    BY <1>3, <2>3 DEF ParserState
  <2>7. /\ q.headerLen = c.headerLen /\ q.inFrame = c.inFrame
        /\ q.opcode = c.opcode /\ q.fin = c.fin
        /\ q.masked = c.masked /\ q.maskPos = c.maskPos
        /\ q.inMessage = c.inMessage /\ q.err = c.err
        /\ q.msgOpcode = c.msgOpcode /\ q.compressed = c.compressed
        /\ q.payload = c.payload /\ q.overflow = c.overflow /\ q.corrupt = c.corrupt
    BY <2>3 DEF ParserState
  <2> HIDE DEF q
  <2> QED
    BY <1>6, <2>4, <2>5, <2>6, <2>7 DEF Takes, q, c, k, o, b
<1>7. CASE p.opcode \notin ControlOp /\ ~p.compressed
  <2> DEFINE t == p.truncated \/ Len(p.payload) + n > Limit
             b == p.payload \o y
  <2>1. c = [p EXCEPT !.size = p.size + n, !.maskPos = p.maskPos + n, !.truncated = t,
                      !.payload = b]
    BY <1>7 DEF consume, ParserState
  <2>2. t \in BOOLEAN /\ b \in Seq(Byte)
    BY <1>1, <1>7, ConcatProperties
  <2> HIDE DEF c, t, b
  <2>3. c \in ParserState /\ c.remaining = p.remaining
    BY <1>2, <1>3, <2>1, <2>2 DEF ParserState
  <2>4. /\ c.headerLen = p.headerLen /\ c.inFrame = p.inFrame
        /\ c.opcode = p.opcode /\ c.fin = p.fin
        /\ c.masked = p.masked /\ c.maskPos = p.maskPos + n
        /\ c.inMessage = p.inMessage /\ c.err = p.err
        /\ c.msgOpcode = p.msgOpcode /\ c.compressed = p.compressed
    BY <2>1 DEF ParserState
  <2>5. c.payload = b /\ c.truncated = t /\ c.size = p.size + n
    BY <2>1 DEF ParserState
  <2>6. q \in ParserState /\ q.remaining = p.remaining - n
    BY <1>3, <2>3 DEF ParserState
  <2>7. /\ q.headerLen = c.headerLen /\ q.inFrame = c.inFrame
        /\ q.opcode = c.opcode /\ q.fin = c.fin
        /\ q.masked = c.masked /\ q.maskPos = c.maskPos
        /\ q.inMessage = c.inMessage /\ q.err = c.err
        /\ q.msgOpcode = c.msgOpcode /\ q.compressed = c.compressed
        /\ q.payload = c.payload /\ q.truncated = c.truncated /\ q.size = c.size
    BY <2>3 DEF ParserState
  <2> HIDE DEF q
  <2> QED
    BY <1>7, <2>4, <2>5, <2>6, <2>7 DEF Takes, q, c, t, b
<1> QED
  BY <1>1, <1>5, <1>6, <1>7

(* n more bytes of a frame's payload.                                      *)
LEMMA ConsumeWithin ==
  ASSUME ParserAssumption, NEW p \in ParserState, NEW st \in RefState,
         NEW i \in Nat \ {0}, stream[i] \in FrameHeader, NEW k \in Nat, NEW n \in Nat,
         n > 0, NextByte(i, k),
         Within(p, st, i, k), n <= p.remaining
  PROVE  LET q == [consume(p, n) EXCEPT !.remaining = @ - n]
         IN  q \in ParserState /\ Within(q, st, i, k + n)
<1> DEFINE f == stream[i]
           u == Unmasked(p, n)
           keep == Kept(p, n)
           y == Unmasked(p, keep)
           q == [consume(p, n) EXCEPT !.remaining = @ - n]
           a == st.bytes \o Part(i, k)
           b == st.bytes \o Part(i, k + n)
           d == st.damaged \/ (f.corrupt /\ k > 0)
           e == st.damaged \/ (f.corrupt /\ k + n > 0)
<1>0. stream[pos[1]] = f
  BY DEF NextByte
<1>1. /\ ~p.err /\ p.inFrame /\ p.headerLen = 0
      /\ p.opcode = f.op /\ p.fin = f.fin /\ p.masked = f.masked
      /\ p.maskPos = k /\ k <= f.len /\ p.remaining = f.len - k
      /\ ~Bad([inMessage |-> st.first # 0], f)
      /\ f.op \in ControlOp => p.control = Part(i, k) /\ Pending(p, st)
      /\ f.op \notin ControlOp => p.inMessage /\ Gathered(p, First(st, i), a, d)
  BY DEF Within
<1>2. /\ Limit \in Nat /\ MaxCompressed \in Nat /\ f.len \in Nat /\ i \in Nat
      /\ p.payload \in Seq(Byte) /\ Len(p.payload) \in Nat /\ p.control \in Seq(Byte)
      /\ p.compressed \in BOOLEAN /\ st.bytes \in Seq(Byte) /\ p.size \in Nat
      /\ st.damaged \in BOOLEAN /\ f.corrupt \in BOOLEAN
  BY DEF ParserAssumption, FrameHeader, ParserState, RefState
<1>3. u = After(i, k, n) /\ u \in Seq(Byte)
  <2>1. p.maskPos = k /\ i \in Nat
    BY <1>1
  <2>2. u = After(i, p.maskPos, n)
    BY <2>1, UnmaskedIs
  <2>3. After(i, k, n) \in Seq(Byte)
    BY <2>1, AfterIs, Zenon
  <2> QED
    BY <2>1, <2>2, <2>3
<1>4. Part(i, k) \o u = Part(i, k + n)
  <2>1. Part(i, k) \o After(i, k, n) = Part(i, k + n)
    BY PartMore
  <2> QED
    BY <1>3, <2>1
<1>5. a \in Seq(Byte) /\ a \o u = b /\ Len(b) = Len(a) + n /\ Len(a) \in Nat
  <2>1. k + n \in Nat
    OBVIOUS
  <2>2. a \in Seq(Byte) /\ Len(a) = Len(st.bytes) + k
    BY <1>2, BytesType, Zenon
  <2>3. b \in Seq(Byte) /\ Len(b) = Len(st.bytes) + (k + n)
    BY <1>2, <2>1, BytesType, Zenon
  <2>4. a \o u = b
    <3> DEFINE s == st.bytes
               t == Part(i, k)
    <3>1. s \in Seq(Byte) /\ t \in Seq(Byte) /\ u \in Seq(Byte)
      BY <1>2, <1>3, PartIs
    <3> HIDE DEF s, t, u
    <3>2. (s \o t) \o u = s \o (t \o u)
      BY <3>1, ConcatAssociative
    <3> QED
      BY <1>4, <3>2 DEF s, t
  <2>5. Len(st.bytes) \in Nat
    BY <1>2
  <2> DEFINE l == Len(st.bytes)
  <2>6. Len(a) = l + k /\ Len(b) = l + (k + n) /\ l \in Nat
    BY <2>2, <2>3, <2>5
  <2> HIDE DEF a, b, u, l
  <2> QED
    BY <2>2, <2>4, <2>6
<1> HIDE DEF u
<1>6. k + n <= f.len /\ f.len - (k + n) = p.remaining - n /\ k + n \in Nat /\ k + n > 0
  BY <1>1, <1>2
<1>10. ASSUME p.opcode \notin ControlOp /\ ~p.compressed => y \in Seq(Byte)
       PROVE  Takes(p, n, q)
  <2>1. stream[pos[1]] \in FrameHeader /\ Unmasked(p, n) \in Seq(Byte)
    BY <1>0, <1>3 DEF u
  <2> QED
    BY <1>10, <2>1, ConsumeIs
<1> HIDE DEF q
<1>7. CASE f.op \notin ControlOp /\ ~p.compressed
  <2>1. /\ p.payload = CutOff(a) /\ p.size = Len(a) /\ (p.truncated <=> Len(a) > Limit)
        /\ p.msgOpcode = stream[First(st, i)].op /\ p.compressed = stream[First(st, i)].rsv1
    BY <1>1, <1>7 DEF Gathered
  <2>2. keep = IF Len(CutOff(a)) + n > Limit THEN Limit - Len(CutOff(a)) ELSE n
    BY <2>1 DEF Kept
  <2> HIDE DEF keep
  <2>3. /\ keep \in Nat /\ CutOff(a) \o After(i, k, keep) = CutOff(b)
        /\ (Len(a) > Limit \/ Len(CutOff(a)) + n > Limit) <=> Len(b) > Limit
        /\ After(i, k, keep) \in Seq(Byte)
    BY <1>2, <2>2, CutGrows, Zenon
  <2>4. p.maskPos = k
    BY <1>1
  <2>5. y = After(i, k, keep)
    BY <2>3, <2>4, UnmaskedIs
  <2>6. y \in Seq(Byte)
    BY <2>3, <2>5
  <2>7. CutOff(a) \o y = CutOff(b)
    BY <2>3, <2>5
  <2>8. /\ q \in ParserState /\ q.headerLen = p.headerLen /\ q.inFrame = p.inFrame
        /\ q.remaining = p.remaining - n /\ q.opcode = p.opcode /\ q.fin = p.fin
        /\ q.masked = p.masked /\ q.maskPos = p.maskPos + n
        /\ q.inMessage = p.inMessage /\ q.err = p.err
        /\ q.msgOpcode = p.msgOpcode /\ q.compressed = p.compressed
        /\ q.size = p.size + n /\ q.payload = p.payload \o y
        /\ q.truncated = (p.truncated \/ Len(p.payload) + n > Limit)
    <3>1. Takes(p, n, q) /\ p.opcode \notin ControlOp /\ ~p.compressed
      BY <1>1, <1>7, <1>10, <2>6
    <3> QED
      BY <3>1 DEF Takes, keep, y
  <2>9. q.truncated <=> Len(b) > Limit
    BY <2>1, <2>3, <2>8
  <2> HIDE DEF q, a, b, y, u, keep, d
  <2>10. Gathered(q, First(st, i), b, e)
    BY <1>5, <1>7, <2>1, <2>7, <2>8, <2>9 DEF Gathered
  <2> QED
    BY <1>1, <1>6, <1>7, <2>8, <2>10 DEF Within, q, b
<1>8. CASE f.op \notin ControlOp /\ p.compressed
  <2>1. /\ (p.corrupt <=> d) /\ (p.overflow <=> Len(a) > MaxCompressed)
        /\ (~p.overflow => p.payload = a)
        /\ p.msgOpcode = stream[First(st, i)].op /\ p.compressed = stream[First(st, i)].rsv1
    BY <1>1, <1>8 DEF Gathered
  <2>3. /\ q \in ParserState /\ q.headerLen = p.headerLen /\ q.inFrame = p.inFrame
        /\ q.remaining = p.remaining - n /\ q.opcode = p.opcode /\ q.fin = p.fin
        /\ q.masked = p.masked /\ q.maskPos = p.maskPos + n
        /\ q.inMessage = p.inMessage /\ q.err = p.err
        /\ q.msgOpcode = p.msgOpcode /\ q.compressed = p.compressed
        /\ q.corrupt = (p.corrupt \/ f.corrupt)
        /\ q.overflow = (p.overflow \/ Len(p.payload) + n > MaxCompressed)
        /\ q.payload = IF Len(p.payload) + n > MaxCompressed THEN p.payload
                       ELSE p.payload \o u
    <3>1. Takes(p, n, q) /\ p.opcode \notin ControlOp /\ p.compressed
      BY <1>1, <1>8, <1>10
    <3> QED
      BY <1>0, <3>1 DEF Takes, u
  <2> HIDE DEF q, u, a, b, y, keep
  <2>4. q.corrupt <=> e
    BY <1>2, <1>6, <2>1, <2>3
  <2>5. q.overflow <=> Len(b) > MaxCompressed
    <3>1. CASE p.overflow
      <4>1. q.overflow /\ Len(a) > MaxCompressed
        BY <2>1, <2>3, <3>1
      <4> QED
        BY <1>2, <1>5, <4>1
    <3>2. CASE ~p.overflow
      <4>1. p.payload = a /\ (q.overflow <=> Len(p.payload) + n > MaxCompressed)
        BY <2>1, <2>3, <3>2
      <4> QED
        BY <1>5, <4>1
    <3> QED
      BY <3>1, <3>2
  <2>6. ~q.overflow => q.payload = b
    BY <1>2, <1>5, <2>1, <2>3
  <2> HIDE DEF d, e
  <2>7. Gathered(q, First(st, i), b, e)
    BY <1>8, <2>1, <2>3, <2>4, <2>5, <2>6 DEF Gathered
  <2> QED
    BY <1>1, <1>6, <1>8, <2>3, <2>7 DEF Within, q, b, e
<1>9. CASE f.op \in ControlOp
  <2>2. /\ q \in ParserState /\ q.headerLen = p.headerLen /\ q.inFrame = p.inFrame
        /\ q.remaining = p.remaining - n /\ q.opcode = p.opcode /\ q.fin = p.fin
        /\ q.masked = p.masked /\ q.maskPos = p.maskPos + n
        /\ q.inMessage = p.inMessage /\ q.err = p.err
        /\ q.msgOpcode = p.msgOpcode /\ q.compressed = p.compressed
        /\ q.control = p.control \o u /\ q.payload = p.payload
        /\ q.size = p.size /\ q.truncated = p.truncated
        /\ q.overflow = p.overflow /\ q.corrupt = p.corrupt
    <3>1. Takes(p, n, q) /\ p.opcode \in ControlOp
      BY <1>1, <1>9, <1>10
    <3> QED
      BY <3>1 DEF Takes, u
  <2> HIDE DEF q, u, a, b, y, keep
  <2>3. Pending(q, st)
    BY <1>1, <1>9, <2>2 DEF Pending, Gathered
  <2>4. q.control = Part(i, k + n)
    BY <1>1, <1>4, <1>9, <2>2
  <2> QED
    BY <1>1, <1>6, <1>9, <2>2, <2>3, <2>4 DEF Within, q
<1> QED
  BY <1>2, <1>7, <1>8, <1>9

-----------------------------------------------------------------------------
(* What the reference makes of a frame.                                    *)
LEMMA BytesAre ==
  ASSUME NEW i, stream[i] \in FrameHeader
  PROVE  /\ Bytes(i) = Part(i, stream[i].len) /\ stream[i].len \in Nat
         /\ i \in Nat => Bytes(i) \in Seq(Byte)
<1> DEFINE n == stream[i].len
<1>1. n \in Nat
  BY DEF FrameHeader
<1>2. Bytes(i) = Part(i, n)
  BY DEF Bytes, Part
<1> HIDE DEF n
<1>3. i \in Nat => Part(i, n) \in Seq(Byte)
  BY <1>1, PartIs
<1> QED
  BY <1>1, <1>2, <1>3 DEF n

LEMMA ReadBad ==
  ASSUME NEW st \in RefState, ~st.err, NEW i, Bad([inMessage |-> st.first # 0], stream[i])
  PROVE  ReadFrame(st, i).err = TRUE /\ ReadFrame(st, i).msgs = st.msgs
BY DEF ReadFrame, RefState

LEMMA ReadControl ==
  ASSUME NEW st \in RefState, ~st.err, NEW i \in Nat, stream[i] \in FrameHeader,
         ~Bad([inMessage |-> st.first # 0], stream[i]), stream[i].op \in ControlOp,
         NEW st2, st2 = ReadFrame(st, i)
  PROVE  /\ st2 \in RefState /\ ~st2.err /\ st2.first = st.first /\ st2.bytes = st.bytes
         /\ st2.damaged = st.damaged /\ st2.lost = st.lost
         /\ st2.msgs = Append(st.msgs, Message(stream[i].op, FALSE, FALSE, Bytes(i),
                                               stream[i].len, FALSE))
<1> DEFINE f == stream[i]
           m == Message(f.op, FALSE, FALSE, Bytes(i), f.len, FALSE)
<1>1. st2 = [st EXCEPT !.msgs = Append(@, m)]
  BY DEF ReadFrame
<1>2. Bytes(i) \in Seq(Byte) /\ f.len \in Nat /\ f.op \in Opcode
  BY BytesAre DEF FrameHeader
<1>3. m \in Report
  BY <1>2 DEF Message, Report
<1> HIDE DEF m
<1>4. Append(st.msgs, m) \in Seq(Report)
  BY <1>3 DEF RefState
<1> QED
  BY <1>1, <1>4 DEF m, RefState

LEMMA ReadMore ==
  ASSUME NEW st \in RefState, ~st.err, NEW i \in Nat, stream[i] \in FrameHeader,
         ~Bad([inMessage |-> st.first # 0], stream[i]), stream[i].op \notin ControlOp,
         ~stream[i].fin, NEW st2, st2 = ReadFrame(st, i)
  PROVE  /\ st2 \in RefState /\ ~st2.err /\ st2.first = First(st, i)
         /\ st2.bytes = st.bytes \o Bytes(i)
         /\ st2.damaged = (st.damaged \/ (stream[i].corrupt /\ stream[i].len > 0))
         /\ st2.lost = st.lost /\ st2.msgs = st.msgs
<1> DEFINE f == stream[i]
           b == st.bytes \o Bytes(i)
           d == st.damaged \/ (f.corrupt /\ f.len > 0)
           g == First(st, i)
<1>1. st2 = [st EXCEPT !.first = g, !.bytes = b, !.damaged = d]
  BY DEF ReadFrame, First
<1>2. Bytes(i) \in Seq(Byte) /\ st.bytes \in Seq(Byte)
  BY BytesAre DEF RefState
<1>3. b \in Seq(Byte)
  BY <1>2, ConcatProperties
<1>4. g \in Nat
  BY DEF First, RefState
<1>5. d \in BOOLEAN
  BY DEF RefState, FrameHeader
<1> HIDE DEF b, d, g
<1> QED
  BY <1>1, <1>3, <1>4, <1>5 DEF b, d, g, RefState

LEMMA EmitIs ==
  ASSUME ParserAssumption, NEW first, stream[first] \in FrameHeader, NEW b \in Seq(Byte),
         NEW bad \in BOOLEAN
  PROVE  LET f == stream[first]
             fails == bad \/ Len(b) > MaxCompressed \/ 2 * Len(b) > MaxInflated
             m == Emit(first, b, bad)
         IN /\ m \in Report
            /\ ~f.rsv1 => m = Message(f.op, FALSE, FALSE, CutOff(b), Len(b), Len(b) > Limit)
            /\ f.rsv1 /\ fails => m = Message(f.op, TRUE, TRUE, <<>>, 0, FALSE)
            /\ f.rsv1 /\ ~fails =>
                 m = Message(f.op, TRUE, FALSE, b, 2 * Len(b), 2 * Len(b) > Limit)
            /\ m.undecoded = (f.rsv1 /\ fails)
<1> DEFINE f == stream[first]
           fails == bad \/ Len(b) > MaxCompressed \/ 2 * Len(b) > MaxInflated
           m == Emit(first, b, bad)
           long == Len(b) > Limit
           wide == 2 * Len(b) > Limit
           size == 2 * Len(b)
<1>1. /\ ~f.rsv1 => m = Message(f.op, FALSE, FALSE, CutOff(b), Len(b), long)
      /\ f.rsv1 /\ fails => m = Message(f.op, TRUE, TRUE, <<>>, 0, FALSE)
      /\ f.rsv1 /\ ~fails => m = Message(f.op, TRUE, FALSE, b, size, wide)
  BY DEF Emit, CutOff
<1>2. /\ f.op \in Opcode /\ f.rsv1 \in BOOLEAN /\ Len(b) \in Nat /\ size \in Nat /\ long \in BOOLEAN
      /\ wide \in BOOLEAN /\ <<>> \in Seq(Byte) /\ Limit \in Nat
  BY DEF FrameHeader, ParserAssumption
<1>3. CutOff(b) \in Seq(Byte)
  BY <1>2, CutIs
<1> HIDE DEF fails, m, long, wide, size
<1>4. CASE ~f.rsv1
  <2> DEFINE r == Message(f.op, FALSE, FALSE, CutOff(b), Len(b), long)
  <2>1. r \in Report /\ r.undecoded = FALSE
    BY <1>2, <1>3 DEF Message, Report
  <2>2. m = r
    BY <1>1, <1>4
  <2> HIDE DEF r
  <2> QED
    BY <1>4, <2>1, <2>2 DEF m, r, long
<1>5. CASE f.rsv1 /\ fails
  <2> DEFINE r == Message(f.op, TRUE, TRUE, <<>>, 0, FALSE)
  <2>1. r \in Report /\ r.undecoded = TRUE
    BY <1>2 DEF Message, Report
  <2>2. m = r
    BY <1>1, <1>5
  <2> HIDE DEF r
  <2> QED
    BY <1>5, <2>1, <2>2 DEF m, r, fails
<1>6. CASE f.rsv1 /\ ~fails
  <2> DEFINE r == Message(f.op, TRUE, FALSE, b, size, wide)
  <2>1. r \in Report /\ r.undecoded = FALSE
    BY <1>2 DEF Message, Report
  <2>2. m = r
    BY <1>1, <1>6
  <2> HIDE DEF r
  <2> QED
    BY <1>6, <2>1, <2>2 DEF m, r, fails, size, wide
<1> QED
  BY <1>2, <1>4, <1>5, <1>6

LEMMA EmitType ==
  ASSUME NEW first, stream[first] \in FrameHeader, NEW b \in Seq(Byte), NEW bad \in BOOLEAN
  PROVE  Emit(first, b, bad) \in Report
BY ParserAssumption, EmitIs

LEMMA ReadLast ==
  ASSUME ParserAssumption, NEW st \in RefState, ~st.err, NEW i \in Nat,
         stream[i] \in FrameHeader, stream[First(st, i)] \in FrameHeader,
         ~Bad([inMessage |-> st.first # 0], stream[i]), stream[i].op \notin ControlOp,
         stream[i].fin, NEW st2, st2 = ReadFrame(st, i), NEW m,
         m = Emit(First(st, i), st.bytes \o Bytes(i),
                  st.damaged \/ (stream[i].corrupt /\ stream[i].len > 0) \/ st.lost)
  PROVE  /\ st2 \in RefState /\ ~st2.err /\ st2.first = 0 /\ st2.bytes = <<>> /\ ~st2.damaged
         /\ st2.msgs = Append(st.msgs, m) /\ m \in Report
         /\ st2.lost = (st.lost \/ (m.undecoded /\ deflate = "takeover"))
<1> DEFINE f == stream[i]
           g == First(st, i)
           b == st.bytes \o Bytes(i)
           d == st.damaged \/ (f.corrupt /\ f.len > 0) \/ st.lost
           l == st.lost \/ (m.undecoded /\ deflate = "takeover")
<1>1. m = Emit(g, b, d)
  OBVIOUS
<1>2. st2 = [st EXCEPT !.first = 0, !.bytes = <<>>, !.damaged = FALSE,
                       !.msgs = Append(@, m), !.lost = @ \/ (m.undecoded /\ deflate = "takeover")]
  BY DEF ReadFrame, First
<1>3. Bytes(i) \in Seq(Byte) /\ st.bytes \in Seq(Byte)
  BY BytesAre DEF RefState
<1>4. b \in Seq(Byte)
  BY <1>3, ConcatProperties
<1>5. d \in BOOLEAN
  BY DEF RefState, FrameHeader
<1> HIDE DEF b, d, g
<1>6. m \in Report
  <2>1. stream[g] \in FrameHeader
    BY DEF g
  <2> QED
    BY <1>1, <1>4, <1>5, <2>1, EmitType
<1>7. Append(st.msgs, m) \in Seq(Report) /\ m.undecoded \in BOOLEAN
  BY <1>6 DEF RefState, Report
<1>8. l \in BOOLEAN
  BY <1>7 DEF RefState
<1>9. st2 = [st EXCEPT !.first = 0, !.bytes = <<>>, !.damaged = FALSE,
                       !.msgs = Append(st.msgs, m), !.lost = l]
  BY <1>2 DEF RefState
<1> HIDE DEF l
<1>10. st2 \in RefState
  <2> DEFINE a == Append(st.msgs, m)
  <2>1. a \in Seq(Report) /\ <<>> \in Seq(Byte) /\ 0 \in Nat
    BY <1>7
  <2>2. st2 = [st EXCEPT !.first = 0, !.bytes = <<>>, !.damaged = FALSE, !.msgs = a, !.lost = l]
    BY <1>9
  <2> HIDE DEF a
  <2> QED
    BY <1>8, <2>1, <2>2 DEF RefState
<1>11. /\ st2.first = 0 /\ st2.bytes = <<>> /\ st2.damaged = FALSE
       /\ st2.msgs = Append(st.msgs, m) /\ st2.lost = l /\ st2.err = st.err
  BY <1>9 DEF RefState
<1> QED
  BY <1>6, <1>10, <1>11 DEF l

(* The parser q and what it has reported agree with the reference st, to   *)
(* which i frames have been shown.                                         *)
Agree(q, b, o, st, i) ==
  /\ q \in ParserState /\ b \in BOOLEAN /\ o \in Seq(Report) /\ st \in RefState
  /\ ~st.err /\ Shapes(o) = st.msgs /\ b = st.lost /\ Between(q, st, 0)
  /\ st.first <= i /\ (st.first = 0 => st.bytes = <<>> /\ ~st.damaged)

(* A frame ends, field by field.                                           *)
Ends(p, q) ==
  /\ q \in ParserState /\ q.inFrame = FALSE /\ q.headerLen = p.headerLen
  /\ q.inMessage = (p.inMessage /\ (p.opcode \in ControlOp \/ ~p.fin))
  /\ q.msgOpcode = p.msgOpcode /\ q.compressed = p.compressed /\ q.payload = p.payload
  /\ q.size = p.size /\ q.truncated = p.truncated /\ q.overflow = p.overflow
  /\ q.corrupt = p.corrupt /\ q.err = p.err

LEMMA EndsIs ==
  ASSUME NEW p \in ParserState, endFrame(p)
  PROVE  Ends(p, parser')
<1> DEFINE more == IF p.opcode \in ControlOp THEN p.inMessage ELSE p.inMessage /\ ~p.fin
           q == parser'
<1>1. q = [p EXCEPT !.inFrame = FALSE, !.inMessage = more]
  BY DEF endFrame, ParserState
<1>2. more \in BOOLEAN /\ more = (p.inMessage /\ (p.opcode \in ControlOp \/ ~p.fin))
  BY DEF ParserState
<1> HIDE DEF more, q
<1>3. q \in ParserState /\ q.inFrame = FALSE /\ q.inMessage = more
  BY <1>1, <1>2 DEF ParserState
<1>4. /\ q.headerLen = p.headerLen /\ q.msgOpcode = p.msgOpcode
      /\ q.compressed = p.compressed /\ q.payload = p.payload
      /\ q.size = p.size /\ q.truncated = p.truncated /\ q.overflow = p.overflow
      /\ q.corrupt = p.corrupt /\ q.err = p.err
  BY <1>1 DEF ParserState
<1> QED
  BY <1>2, <1>3, <1>4 DEF Ends, q

LEMMA EndsGathered ==
  ASSUME NEW p, NEW q, Ends(p, q), NEW g, NEW b, NEW d, Gathered(p, g, b, d)
  PROVE  Gathered(q, g, b, d)
BY DEF Ends, Gathered

(* One more message.                                                       *)
LEMMA Reported ==
  ASSUME NEW o \in Seq(Report), NEW ms, Shapes(o) = ms, NEW m \in Report, NEW r, Shape(m) = r
  PROVE  Append(o, m) \in Seq(Report) /\ Shapes(Append(o, m)) = Append(ms, r)
BY ShapesMore

(* The end of a control frame.                                             *)
LEMMA EndControl ==
  ASSUME NEW p \in ParserState, NEW st \in RefState, NEW i \in Nat, stream[i] \in FrameHeader,
         NEW k, k = stream[i].len, Within(p, st, i, k), ~st.err, broken \in BOOLEAN,
         broken = st.lost, out \in Seq(Report), Shapes(out) = st.msgs, st.first < i,
         st.first = 0 => st.bytes = <<>> /\ ~st.damaged,
         stream[i].op \in ControlOp, endFrame(p)
  PROVE  Agree(parser', broken', out', ReadFrame(st, i), i)
<1> DEFINE f == stream[i]
           q == parser'
           st2 == ReadFrame(st, i)
           m == Message(f.op, FALSE, FALSE, Bytes(i), k, FALSE)
<1>1. /\ ~p.err /\ p.headerLen = 0 /\ p.opcode = f.op
      /\ ~Bad([inMessage |-> st.first # 0], f)
      /\ p.control = Part(i, k) /\ Pending(p, st)
  BY DEF Within
<1>2. k \in Nat /\ Bytes(i) = Part(i, k) /\ Bytes(i) \in Seq(Byte) /\ f.op \in Opcode
  BY BytesAre DEF FrameHeader
<1>3. Len(p.control) = k
  BY <1>1, <1>2, PartIs
<1>4. out' = Append(out, m) /\ broken' = broken
  BY <1>1, <1>2, <1>3 DEF endFrame
<1>5. /\ st2 \in RefState /\ ~st2.err /\ st2.first = st.first /\ st2.bytes = st.bytes
      /\ st2.damaged = st.damaged /\ st2.lost = st.lost /\ st2.msgs = Append(st.msgs, m)
  BY <1>1, ReadControl
<1>6. Ends(p, q)
  BY EndsIs
<1>7. m \in Report /\ Shape(m) = m
  BY <1>2 DEF Message, Report, Shape
<1> HIDE DEF m, st2, q
<1>8. Append(out, m) \in Seq(Report) /\ Shapes(Append(out, m)) = Append(st.msgs, m)
  BY <1>7, Reported
<1>9. q.inMessage = p.inMessage
  BY <1>1, <1>6 DEF Ends, ParserState
<1>10. Pending(q, st2)
  BY <1>1, <1>5, <1>6, <1>9, EndsGathered DEF Pending
<1>11. Between(q, st2, 0)
  BY <1>1, <1>6, <1>10 DEF Between, Ends
<1>12. st2.first <= i
  BY <1>5 DEF RefState
<1> QED
  BY <1>4, <1>5, <1>6, <1>8, <1>11, <1>12 DEF Agree, Ends, st2, q

(* The end of a data frame that more will follow.                          *)
LEMMA EndMore ==
  ASSUME NEW p \in ParserState, NEW st \in RefState, NEW i \in Nat, stream[i] \in FrameHeader,
         NEW k, k = stream[i].len, Within(p, st, i, k), ~st.err, broken \in BOOLEAN,
         broken = st.lost, out \in Seq(Report), Shapes(out) = st.msgs, st.first < i,
         stream[i].op \notin ControlOp, ~stream[i].fin, endFrame(p)
  PROVE  Agree(parser', broken', out', ReadFrame(st, i), i)
<1> DEFINE f == stream[i]
           q == parser'
           st2 == ReadFrame(st, i)
           g == First(st, i)
<1>1. /\ ~p.err /\ p.headerLen = 0 /\ p.opcode = f.op /\ p.fin = f.fin /\ p.inMessage
      /\ ~Bad([inMessage |-> st.first # 0], f)
      /\ Gathered(p, g, st.bytes \o Part(i, k), st.damaged \/ (f.corrupt /\ k > 0))
  BY DEF Within
<1>2. Bytes(i) = Part(i, k)
  BY BytesAre
<1>3. out' = out /\ broken' = broken
  BY <1>1 DEF endFrame
<1>4. /\ st2 \in RefState /\ ~st2.err /\ st2.first = g /\ st2.bytes = st.bytes \o Bytes(i)
      /\ st2.damaged = (st.damaged \/ (f.corrupt /\ k > 0))
      /\ st2.lost = st.lost /\ st2.msgs = st.msgs
  BY <1>1, ReadMore
<1>5. Ends(p, q)
  BY EndsIs
<1>6. g # 0 /\ g <= i
  BY DEF First, RefState
<1> HIDE DEF st2, q, g
<1>7. q.inMessage = TRUE
  BY <1>1, <1>5 DEF Ends, ParserState
<1>8. Gathered(q, st2.first, st2.bytes, st2.damaged)
  BY <1>1, <1>2, <1>4, <1>5, EndsGathered
<1>9. Pending(q, st2)
  BY <1>4, <1>6, <1>7, <1>8 DEF Pending
<1>10. Between(q, st2, 0)
  BY <1>1, <1>5, <1>9 DEF Between, Ends
<1> QED
  BY <1>3, <1>4, <1>5, <1>6, <1>10 DEF Agree, Ends, st2, q

(* What the parser reports of a message is what the reference does.        *)
LEMMA EndReport ==
  ASSUME ParserAssumption, NEW p \in ParserState, NEW g, stream[g] \in FrameHeader,
         NEW b \in Seq(Byte), NEW d \in BOOLEAN, Gathered(p, g, b, d), NEW lost \in BOOLEAN,
         broken \in BOOLEAN, broken = lost, NEW bad \in BOOLEAN, bad <=> d \/ lost,
         p.opcode \notin ControlOp, p.fin, endFrame(p), NEW m, m = Emit(g, b, bad)
  PROVE  /\ \E r \in Report : out' = Append(out, r) /\ Shape(r) = m
         /\ broken' = (lost \/ (m.undecoded /\ deflate = "takeover"))
<1> DEFINE f == stream[g]
           fails == bad \/ Len(b) > MaxCompressed \/ 2 * Len(b) > MaxInflated
<1>1. /\ Limit \in Nat /\ MaxCompressed \in Nat /\ MaxInflated \in Nat /\ Len(b) \in Nat
      /\ f.op \in Opcode /\ f.rsv1 \in BOOLEAN /\ p.payload \in Seq(Byte)
      /\ Len(p.payload) \in Nat /\ p.truncated \in BOOLEAN
  BY DEF ParserAssumption, FrameHeader, ParserState
<1>2. /\ m \in Report
      /\ ~f.rsv1 => m = Message(f.op, FALSE, FALSE, CutOff(b), Len(b), Len(b) > Limit)
      /\ f.rsv1 /\ fails => m = Message(f.op, TRUE, TRUE, <<>>, 0, FALSE)
      /\ f.rsv1 /\ ~fails =>
           m = Message(f.op, TRUE, FALSE, b, 2 * Len(b), 2 * Len(b) > Limit)
      /\ m.undecoded = (f.rsv1 /\ fails)
  BY EmitIs
<1>3. p.msgOpcode = f.op /\ p.compressed = f.rsv1
  BY DEF Gathered
<1>4. CASE ~f.rsv1
  <2>1. p.payload = CutOff(b) /\ p.size = Len(b) /\ (p.truncated <=> Len(b) > Limit)
    BY <1>3, <1>4 DEF Gathered
  <2>2. p.truncated = (Len(b) > Limit)
    BY <1>1, <2>1
  <2>3. out' = Append(out, m) /\ broken' = broken
    BY <1>2, <1>3, <1>4, <2>1, <2>2 DEF endFrame
  <2>4. m.undecoded = FALSE
    BY <1>2, <1>4
  <2>5. Shape(m) = m
    BY <2>4 DEF Shape
  <2> QED
    BY <1>2, <2>3, <2>4, <2>5
<1>5. CASE f.rsv1
  <2>1. /\ p.corrupt <=> d
        /\ p.overflow <=> Len(b) > MaxCompressed
        /\ ~p.overflow => p.payload = b
    BY <1>3, <1>5 DEF Gathered
  <2>2. Fails(p) <=> fails
    <3>1. CASE p.overflow
      BY <2>1, <3>1 DEF Fails
    <3>2. CASE ~p.overflow
      <4>1. p.payload = b
        BY <2>1, <3>2
      <4> QED
        BY <2>1, <3>2, <4>1 DEF Fails
    <3> QED
      BY <3>1, <3>2
  <2>3. CASE fails
    <3> DEFINE r == Message(f.op, TRUE, TRUE, <<>>, Len(p.payload), FALSE)
    <3>1. out' = Append(out, r) /\ broken' = (broken \/ deflate = "takeover")
      BY <1>3, <1>5, <2>2, <2>3 DEF endFrame
    <3>2. r \in Report /\ Shape(r) = Message(f.op, TRUE, TRUE, <<>>, 0, FALSE)
      <4>1. <<>> \in Seq(Byte)
        OBVIOUS
      <4> QED
        BY <1>1, <4>1 DEF Message, Report, Shape
    <3>3. m.undecoded = TRUE /\ Shape(r) = m
      BY <1>2, <1>5, <2>3, <3>2
    <3> HIDE DEF r, fails
    <3> QED
      BY <3>1, <3>2, <3>3
  <2>4. CASE ~fails
    <3>1. p.payload = b
      BY <1>1, <2>1, <2>4
    <3>2. out' = Append(out, m) /\ broken' = broken
      BY <1>2, <1>3, <1>5, <2>2, <2>4, <3>1 DEF endFrame
    <3>3. m.undecoded = FALSE
      BY <1>2, <2>4
    <3>4. Shape(m) = m
      BY <3>3 DEF Shape
    <3> HIDE DEF fails
    <3> QED
      BY <1>2, <3>2, <3>3, <3>4
  <2> QED
    BY <2>3, <2>4
<1> QED
  BY <1>4, <1>5

(* The end of a message.                                                   *)
LEMMA EndLast ==
  ASSUME ParserAssumption, NEW p \in ParserState, NEW st \in RefState, NEW i \in Nat,
         stream[i] \in FrameHeader, stream[First(st, i)] \in FrameHeader,
         NEW k, k = stream[i].len, Within(p, st, i, k), ~st.err, broken \in BOOLEAN,
         broken = st.lost, out \in Seq(Report), Shapes(out) = st.msgs, st.first < i,
         stream[i].op \notin ControlOp, stream[i].fin, endFrame(p)
  PROVE  Agree(parser', broken', out', ReadFrame(st, i), i)
<1> DEFINE f == stream[i]
           q == parser'
           st2 == ReadFrame(st, i)
           g == First(st, i)
           b == st.bytes \o Bytes(i)
           d == st.damaged \/ (f.corrupt /\ k > 0)
           bad == st.damaged \/ (f.corrupt /\ k > 0) \/ st.lost
           m == Emit(g, b, bad)
<1>1. Bytes(i) = Part(i, k) /\ Bytes(i) \in Seq(Byte)
  BY BytesAre
<1>2. /\ ~p.err /\ p.headerLen = 0 /\ p.opcode = f.op /\ p.fin = f.fin
      /\ ~Bad([inMessage |-> st.first # 0], f) /\ Gathered(p, g, b, d)
  BY <1>1 DEF Within
<1>3. b \in Seq(Byte)
  BY <1>1, ConcatProperties DEF RefState
<1>4. d \in BOOLEAN /\ bad \in BOOLEAN /\ (bad <=> d \/ st.lost) /\ st.lost \in BOOLEAN
  BY DEF RefState, FrameHeader
<1>5. /\ st2 \in RefState /\ ~st2.err /\ st2.first = 0 /\ st2.bytes = <<>> /\ ~st2.damaged
      /\ st2.msgs = Append(st.msgs, m) /\ m \in Report
      /\ st2.lost = (st.lost \/ (m.undecoded /\ deflate = "takeover"))
  BY <1>2, ReadLast
<1>6. Ends(p, q)
  BY EndsIs
<1> HIDE DEF st2, q, g, b, d, bad
<1>7. /\ \E r \in Report : out' = Append(out, r) /\ Shape(r) = m
      /\ broken' = (st.lost \/ (m.undecoded /\ deflate = "takeover"))
  <2>1. stream[g] \in FrameHeader
    BY DEF g
  <2> QED
    BY <1>2, <1>3, <1>4, <2>1, EndReport
<1> HIDE DEF m
<1>8. PICK r \in Report : out' = Append(out, r) /\ Shape(r) = m
  BY <1>7
<1>9. out' \in Seq(Report) /\ Shapes(out') = Append(st.msgs, m)
  BY <1>8, Reported
<1>10. q.inMessage = FALSE
  BY <1>2, <1>6 DEF Ends, ParserState
<1>11. Between(q, st2, 0)
  BY <1>2, <1>5, <1>6, <1>10 DEF Between, Ends, Pending
<1>12. broken' = st2.lost /\ broken' \in BOOLEAN /\ st2.first <= i
  BY <1>5, <1>7 DEF RefState
<1> QED
  BY <1>5, <1>6, <1>9, <1>11, <1>12 DEF Agree, Ends, st2, q

-----------------------------------------------------------------------------
(* Where the parser is in the stream.                                      *)
LEMMA SizeIs ==
  ASSUME NEW f \in FrameHeader
  PROVE  headerSize(f) \in Nat /\ headerSize(f) >= 2 /\ f.len \in Nat
         /\ FrameSize(f) = headerSize(f) + f.len
BY DEF headerSize, FrameSize, FrameHeader

LEMMA FrameAt ==
  ASSUME stream \in Seq(FrameHeader), NEW i \in Nat, i # 0, i <= Len(stream)
  PROVE  stream[i] \in FrameHeader
OBVIOUS

LEMMA ThroughNat ==
  ASSUME stream \in Seq(FrameHeader), NEW n \in Nat, n <= Len(stream)
  PROVE  Through(n) \in Nat
<1> DEFINE D == {k \in Nat : k <= Len(stream) /\ Through(k) \notin Nat}
<1> SUFFICES ASSUME D # {} PROVE FALSE
  OBVIOUS
<1>1. PICK k \in D : \A y \in D : k <= y
  BY MinMember
<1>2. k # 0
  BY <1>1, ThroughStep
<1> DEFINE j == k - 1
<1>3. j \in Nat /\ j <= Len(stream) /\ j \notin D /\ k = j + 1
  BY <1>1, <1>2
<1>4. Through(j) \in Nat
  BY <1>3
<1>5. Through(j + 1) = Through(j) + FrameSize(stream[j + 1])
  BY <1>3, ThroughStep
<1>6. FrameSize(stream[k]) \in Nat
  <2>1. stream[k] \in FrameHeader
    BY <1>1, <1>2, FrameAt
  <2> QED
    BY <2>1, SizeIs
<1> HIDE DEF j
<1> QED
  BY <1>1, <1>3, <1>4, <1>5, <1>6

LEMMA MoreToRead ==
  ASSUME stream \in Seq(FrameHeader), Placed, buf \in Nat, buf > 0
  PROVE  pos[1] \in Nat /\ pos[1] # 0 /\ pos[1] <= Len(stream)
<1>1. pos[1] \in Nat /\ pos[1] # 0 /\ pos[1] <= Len(stream) + 1
  BY DEF Placed
<1>2. CASE pos[1] = Len(stream) + 1
  <2> DEFINE t == Through(Len(stream))
  <2>1. t \in Nat
    BY ThroughNat
  <2>2. pos[1] - 1 = Len(stream) /\ pos[2] = 0
    BY <1>2 DEF Placed
  <2>3. buf <= t - t - 0
    BY <2>2 DEF Placed, Rest
  <2> HIDE DEF t
  <2> QED
    BY <2>1, <2>3
<1> QED
  BY <1>1, <1>2

LEMMA RestNow ==
  ASSUME stream' = stream, NEW i, NEW o, pos' = <<i, o>>
  PROVE  Rest(pos[1], pos[2])' = Through(Len(stream)) - Through(i - 1) - o
<1>1. Rest(pos[1], pos[2])' = Rest(i, o)'
  OBVIOUS
<1>2. Rest(i, o)' = Through(Len(stream))' - Through(i - 1)' - o
  BY DEF Rest
<1>3. Through(Len(stream))' = Through(Len(stream)) /\ Through(i - 1)' = Through(i - 1)
  BY ThroughKept DEF Through, FrameSize, headerSize
<1> QED
  BY <1>1, <1>2, <1>3

LEMMA PlacedMore ==
  ASSUME stream \in Seq(FrameHeader), Placed, buf \in Nat, buf > 0, NEW n \in Nat,
         pos[2] + n <= FrameSize(stream[pos[1]]), Consumed(n), stream' = stream,
         buf' \in Nat, buf' <= buf - n
  PROVE  /\ Placed'
         /\ pos[2] + n = FrameSize(stream[pos[1]]) => pos' = <<pos[1] + 1, 0>>
         /\ pos[2] + n # FrameSize(stream[pos[1]]) => pos' = <<pos[1], pos[2] + n>>
<1> DEFINE i == pos[1]
           o == pos[2]
           j == i - 1
           a == FrameSize(stream[i])
           t == Through(Len(stream))
           u == Through(j)
<1>1. i \in Nat /\ i # 0 /\ i <= Len(stream) /\ o \in Nat /\ Len(stream) \in Nat
  BY MoreToRead DEF Placed
<1>2. stream[i] \in FrameHeader
  BY <1>1, FrameAt
<1>3. a \in Nat
  BY <1>2, SizeIs
<1>4. j \in Nat /\ j <= Len(stream) /\ j + 1 = i
  BY <1>1
<1>5. t \in Nat /\ u \in Nat
  BY <1>1, <1>4, ThroughNat
<1>6. Through(i) = u + a
  <2>1. Through(j + 1) = Through(j) + FrameSize(stream[j + 1])
    BY <1>4, ThroughStep
  <2> QED
    BY <1>4, <2>1
<1>7. buf <= t - u - o
  BY DEF Placed, Rest
<1>9. CASE o + n = a
  <2>1. pos' = <<i + 1, 0>>
    BY <1>9 DEF Consumed
  <2>2. i + 1 <= Len(stream) => FrameSize(stream[i + 1]) > 0
    <3>1. SUFFICES ASSUME i + 1 <= Len(stream) PROVE FrameSize(stream[i + 1]) > 0
      OBVIOUS
    <3>2. stream[i + 1] \in FrameHeader
      BY <1>1, <3>1, FrameAt
    <3> QED
      BY <3>2, SizeIs
  <2>3. buf' <= t - Through(i) - 0
    <3> HIDE DEF a, t, u, o
    <3> QED
      BY <1>1, <1>3, <1>5, <1>6, <1>7, <1>9
  <2>4. buf' <= Rest(pos[1], pos[2])'
    <3>1. Rest(pos[1], pos[2])' = t - Through((i + 1) - 1) - 0
      BY <2>1, RestNow
    <3>2. (i + 1) - 1 = i
      BY <1>1
    <3> QED
      BY <2>3, <3>1, <3>2
  <2>5. (FrameSize(stream[pos[1]]))' = FrameSize(stream[i + 1])
    BY <2>1 DEF FrameSize, headerSize
  <2> QED
    BY <1>1, <1>9, <2>1, <2>2, <2>4, <2>5 DEF Placed
<1>10. CASE o + n # a
  <2>1. pos' = <<i, o + n>>
    BY <1>10 DEF Consumed
  <2>2. o + n < a /\ o + n \in Nat
    BY <1>1, <1>3, <1>10
  <2>3. buf' <= t - u - (o + n)
    <3> HIDE DEF t, u, o
    <3> QED
      BY <1>1, <1>5, <1>7
  <2>4. buf' <= Rest(pos[1], pos[2])'
    <3>1. Rest(pos[1], pos[2])' = t - u - (o + n)
      BY <2>1, RestNow
    <3> QED
      BY <2>3, <3>1
  <2>5. (FrameSize(stream[pos[1]]))' = a
    BY <2>1 DEF FrameSize, headerSize
  <2> QED
    BY <1>1, <1>10, <2>1, <2>2, <2>4, <2>5 DEF Placed
<1> QED
  BY <1>9, <1>10

-----------------------------------------------------------------------------
(* What the invariant says of a parser with bytes to read.                 *)
Facing(i, st) ==
  /\ FpTypes /\ Placed /\ i = pos[1] /\ st = Whole(i - 1)
  /\ i \in Nat /\ i # 0 /\ i <= Len(stream)
  /\ st \in RefState /\ protocolErrors = 0 /\ ~st.err /\ Shapes(out) = st.msgs
  /\ broken = st.lost /\ st.first < i /\ (st.first = 0 => st.bytes = <<>> /\ ~st.damaged)

LEMMA Faced ==
  ASSUME FpInv, ~parser.err, buf > 0 \/ pos[1] <= Len(stream)
  PROVE  Facing(pos[1], Whole(pos[1] - 1))
<1>1. FpTypes /\ Placed /\ Following
  BY DEF FpInv
<1>2. pos[1] \in Nat /\ pos[1] # 0 /\ pos[1] <= Len(stream)
  BY <1>1, MoreToRead DEF FpTypes, Placed
<1> QED
  BY <1>1, <1>2 DEF Facing, Following

LEMMA FacingFrames ==
  ASSUME NEW i, NEW st, Facing(i, st)
  PROVE  stream[i] \in FrameHeader /\ stream[First(st, i)] \in FrameHeader
<1>1. stream \in Seq(FrameHeader) /\ i \in Nat /\ i # 0 /\ i <= Len(stream)
  BY DEF Facing, FpTypes
<1>2. st.first \in Nat /\ st.first < i
  BY DEF Facing, RefState
<1>3. stream[i] \in FrameHeader
  BY <1>1, FrameAt
<1>4. CASE st.first = 0
  BY <1>3, <1>4 DEF First
<1>5. CASE st.first # 0
  <2>1. stream[st.first] \in FrameHeader
    BY <1>1, <1>2, <1>5, FrameAt
  <2> QED
    BY <1>3, <1>5, <2>1 DEF First
<1> QED
  BY <1>4, <1>5

LEMMA EndAgrees ==
  ASSUME ParserAssumption, NEW i, NEW st, Facing(i, st), NEW p \in ParserState,
         Within(p, st, i, stream[i].len), endFrame(p)
  PROVE  Agree(parser', broken', out', ReadFrame(st, i), i)
<1>1. /\ st \in RefState /\ i \in Nat /\ ~st.err /\ broken = st.lost /\ Shapes(out) = st.msgs
      /\ st.first < i /\ (st.first = 0 => st.bytes = <<>> /\ ~st.damaged)
      /\ broken \in BOOLEAN /\ out \in Seq(Report)
  BY DEF Facing, FpTypes
<1>2. stream[i] \in FrameHeader /\ stream[First(st, i)] \in FrameHeader
  BY FacingFrames
<1>3. CASE stream[i].op \in ControlOp
  BY <1>1, <1>2, <1>3, EndControl
<1>4. CASE stream[i].op \notin ControlOp /\ ~stream[i].fin
  BY <1>1, <1>2, <1>4, EndMore
<1>5. CASE stream[i].op \notin ControlOp /\ stream[i].fin
  BY <1>1, <1>2, <1>5, EndLast
<1> QED
  BY <1>3, <1>4, <1>5

(* A frame ends.                                                           *)
LEMMA FrameEnds ==
  ASSUME ParserAssumption, NEW i, NEW st, Facing(i, st), NEW p \in ParserState,
         Within(p, st, i, stream[i].len), endFrame(p), pos' = <<i + 1, 0>>,
         Placed', buf' \in Nat, UNCHANGED <<stream, deflate, protocolErrors>>
  PROVE  FpInv'
<1> DEFINE st2 == ReadFrame(st, i)
<1>1. Agree(parser', broken', out', st2, i)
  BY EndAgrees
<1>2. /\ i \in Nat /\ i # 0 /\ i <= Len(stream) /\ protocolErrors = 0 /\ FpTypes
      /\ st = Whole(i - 1) /\ stream \in Seq(FrameHeader)
  BY DEF Facing, FpTypes
<1>3. Whole(pos[1] - 1)' = st2
  <2> DEFINE j == i - 1
  <2>1. j \in Nat /\ j + 1 = i /\ (i + 1) - 1 = i
    BY <1>2
  <2>2. Whole(j + 1) = ReadFrame(Whole(j), j + 1)
    BY <2>1, WholeStep
  <2>3. Whole(i)' = Whole(i)
    BY WholeKept
  <2>4. Whole(pos[1] - 1)' = Whole(i)'
    BY <2>1
  <2> QED
    BY <1>2, <2>1, <2>2, <2>3, <2>4
<1> HIDE DEF st2
<1>4. FpTypes'
  BY <1>1, <1>2 DEF FpTypes, Agree
<1>5. ~parser'.err /\ ~parser'.inFrame /\ st2 \in RefState
  BY <1>1 DEF Agree, Between
<1>6. st2.first < pos'[1]
  BY <1>1, <1>2 DEF Agree, RefState
<1>7. Between(parser, Whole(pos[1] - 1), pos[2])'
  <2>1. Between(parser', st2, 0)
    BY <1>1 DEF Agree
  <2> QED
    BY <1>3, <2>1 DEF Between, Pending, Gathered, CutOff
<1>8. pos'[1] <= Len(stream') => pos'[2] < headerSize(stream[pos[1]])'
  <2>1. SUFFICES ASSUME i + 1 <= Len(stream) PROVE 0 < headerSize(stream[pos[1]])'
    OBVIOUS
  <2>2. stream[i + 1] \in FrameHeader
    BY <1>2, <2>1, FrameAt
  <2>3. headerSize(stream[i + 1]) > 0
    BY <2>2, SizeIs
  <2>4. headerSize(stream[pos[1]])' = headerSize(stream[i + 1])
    BY DEF headerSize
  <2> QED
    BY <2>3, <2>4
<1>9. Shapes(out)' = st2.msgs /\ broken' = st2.lost /\ ~st2.err
  BY <1>1 DEF Agree, Shapes, Shape
<1>10. st2.first = 0 => st2.bytes = <<>> /\ ~st2.damaged
  BY <1>1 DEF Agree
<1>11. Following'
  BY <1>2, <1>3, <1>5, <1>6, <1>7, <1>8, <1>9, <1>10 DEF Following
<1> QED
  BY <1>4, <1>5, <1>11 DEF FpInv

LEMMA WithinKept ==
  ASSUME stream' = stream, deflate' = deflate, NEW p, NEW st, NEW i, NEW k, Within(p, st, i, k)
  PROVE  Within(p, st, i, k)'
<1>1. ASSUME NEW g, NEW b, NEW d, Gathered(p, g, b, d) PROVE Gathered(p, g, b, d)'
  BY <1>1 DEF Gathered, CutOff
<1>2. Pending(p, st) => Pending(p, st)'
  BY <1>1 DEF Pending
<1>3. Bad([inMessage |-> st.first # 0], stream[i])' = Bad([inMessage |-> st.first # 0], stream[i])
  BY DEF Bad
<1>4. Part(i, k)' = Part(i, k) /\ First(st, i)' = First(st, i)
  BY DEF Part, First
<1> QED
  BY <1>1, <1>2, <1>3, <1>4 DEF Within

(* The parser moves on within a frame.                                     *)
LEMMA FrameGoesOn ==
  ASSUME NEW i, NEW st, Facing(i, st), parser' \in ParserState, ~parser'.err, NEW o,
         pos' = <<i, o>>, Placed', buf' \in Nat,
         ~parser'.inFrame => Between(parser', st, o) /\ o < headerSize(stream[i]),
         parser'.inFrame => /\ Within(parser', st, i, o - headerSize(stream[i]))
                            /\ o >= headerSize(stream[i]),
         UNCHANGED <<stream, deflate, broken, out, protocolErrors>>
  PROVE  FpInv'
<1>1. /\ i \in Nat /\ i # 0 /\ i <= Len(stream) /\ protocolErrors = 0 /\ FpTypes
      /\ st = Whole(i - 1)
      /\ st \in RefState /\ ~st.err /\ Shapes(out) = st.msgs
      /\ broken = st.lost /\ st.first < i /\ (st.first = 0 => st.bytes = <<>> /\ ~st.damaged)
  BY DEF Facing
<1>2. Whole(pos[1] - 1)' = st
  <2>1. Whole(i - 1)' = Whole(i - 1)
    BY WholeKept
  <2>2. Whole(pos[1] - 1)' = Whole(i - 1)'
    OBVIOUS
  <2> QED
    BY <1>1, <2>1, <2>2
<1>3. FpTypes'
  BY <1>1 DEF FpTypes
<1>4. headerSize(stream[pos[1]])' = headerSize(stream[i])
  BY DEF headerSize
<1>5. ~parser'.inFrame => Between(parser, Whole(pos[1] - 1), pos[2])'
  <2>1. SUFFICES ASSUME Between(parser', st, o) PROVE Between(parser, Whole(pos[1] - 1), pos[2])'
    OBVIOUS
  <2> QED
    BY <1>2, <2>1 DEF Between, Pending, Gathered, CutOff
<1>6. parser'.inFrame =>
        Within(parser, Whole(pos[1] - 1), pos[1], pos[2] - headerSize(stream[pos[1]]))'
  <2> DEFINE k == o - headerSize(stream[i])
  <2>1. SUFFICES ASSUME Within(parser', st, i, k)
                 PROVE  Within(parser, Whole(pos[1] - 1), pos[1],
                               pos[2] - headerSize(stream[pos[1]]))'
    OBVIOUS
  <2>2. (pos[2] - headerSize(stream[pos[1]]))' = k
    BY <1>4
  <2> HIDE DEF k
  <2>3. PICK p, n : p = parser' /\ n = k
    OBVIOUS
  <2>4. Within(p, st, i, n)'
    BY <2>1, <2>3, WithinKept
  <2>5. pos'[1] = i
    OBVIOUS
  <2> QED
    BY <1>2, <2>2, <2>3, <2>4, <2>5
<1>7. Shapes(out)' = st.msgs
  BY <1>1 DEF Shapes, Shape
<1>8. Following'
  BY <1>1, <1>2, <1>4, <1>5, <1>6, <1>7 DEF Following
<1> QED
  BY <1>3, <1>8 DEF FpInv

LEMMA InitFpInv == FpInit => FpInv
<1> SUFFICES ASSUME FpInit PROVE FpInv
  OBVIOUS
<1>1. /\ stream \in Seq(FrameHeader) /\ deflate \in Deflate /\ pos = <<1, 0>> /\ buf = 0
      /\ parser = newParser /\ broken = FALSE /\ out = <<>> /\ protocolErrors = 0
  BY ParserAssumption DEF FpInit
<1>2. /\ newParser \in ParserState /\ newParser.err = FALSE /\ newParser.inFrame = FALSE
      /\ newParser.headerLen = 0 /\ newParser.inMessage = FALSE
  <2>1. <<>> \in Seq(Byte) /\ "text" \in Opcode
    BY DEF Opcode, DataOp
  <2> QED
    BY <2>1 DEF newParser, ParserState
<1>3. FpTypes
  <2>1. buf \in Nat /\ broken \in BOOLEAN
    BY <1>1
  <2>3. <<>> \in Seq(Report)
    OBVIOUS
  <2>2. parser \in ParserState
    BY <1>1, <1>2, Zenon
  <2> QED
    BY <1>1, <2>1, <2>2, <2>3 DEF FpTypes
<1>4. Placed
  <2> DEFINE t == Through(Len(stream))
  <2>1. t \in Nat /\ Through(0) = 0
    BY <1>1, ThroughNat, ThroughStep
  <2>2. Rest(1, 0) = t - Through(0) - 0
    <3>1. 1 - 1 = 0
      OBVIOUS
    <3> QED
      BY <3>1 DEF Rest
  <2> HIDE DEF t
  <2>3. buf <= Rest(pos[1], pos[2])
    BY <1>1, <2>1, <2>2
  <2>4. Len(stream) \in Nat /\ (1 <= Len(stream) => 0 < FrameSize(stream[1]))
    <3>1. 1 <= Len(stream) => stream[1] \in FrameHeader
      BY <1>1, FrameAt
    <3> QED
      BY <1>1, <3>1, SizeIs
  <2> QED
    BY <1>1, <2>3, <2>4 DEF Placed
<1>5. Following
  <2>1. Whole(pos[1] - 1) = Unread
    <3>1. pos[1] - 1 = 0
      BY <1>1
    <3> QED
      BY <3>1, WholeStep
  <2>2. /\ Unread \in RefState /\ Unread.err = FALSE /\ Unread.msgs = <<>>
        /\ Unread.lost = FALSE /\ Unread.first = 0 /\ Unread.bytes = <<>> /\ Unread.damaged = FALSE
    <3>1. <<>> \in Seq(Report) /\ <<>> \in Seq(Byte)
      OBVIOUS
    <3> QED
      BY <3>1 DEF Unread, RefState
  <2>3. Shapes(out) = <<>>
    <3>1. out = <<>> /\ DOMAIN out = {}
      BY <1>1
    <3> QED
      BY <3>1 DEF Shapes
  <2>4. Between(newParser, Unread, 0)
    BY <1>2, <2>2 DEF Between, Pending
  <2>5. 1 <= Len(stream) => 0 < headerSize(stream[1])
    <3>1. 1 <= Len(stream) => stream[1] \in FrameHeader
      BY <1>1, FrameAt
    <3> QED
      BY <3>1, SizeIs
  <2>6. /\ pos[1] = 1 /\ pos[2] = 0 /\ Unread.first < 1 /\ parser.inFrame = FALSE
        /\ protocolErrors = 0 /\ broken = Unread.lost /\ parser = newParser
    <3>1. pos[1] = 1 /\ pos[2] = 0
      BY <1>1
    <3>2. parser.inFrame = FALSE /\ protocolErrors = 0 /\ broken = Unread.lost /\ parser = newParser
      BY <1>1, <1>2, <2>2, Zenon
    <3>3. Unread.first < 1
      BY <2>2
    <3> QED
      BY <3>1, <3>2, <3>3
  <2> QED
    BY <2>1, <2>2, <2>3, <2>4, <2>5, <2>6 DEF Following
<1> QED
  BY <1>1, <1>2, <1>3, <1>4, <1>5 DEF FpInv

LEMMA ChunkFpInv ==
  ASSUME FpInv, NEW n \in Nat, Chunk(n)
  PROVE  FpInv'
<1>1. PICK i, st, o : i = pos[1] /\ st = Whole(pos[1] - 1) /\ o = pos[2]
  OBVIOUS
<1>2. /\ ~parser.err /\ pos[1] <= Len(stream) /\ n <= Rest(pos[1], pos[2]) /\ buf' = n
      /\ UNCHANGED <<stream, deflate, pos, parser, broken, out, protocolErrors>>
  BY DEF Chunk
<1>3. Facing(i, st)
  BY <1>1, <1>2, Faced
<1>4. pos' = <<i, o>> /\ Placed /\ FpTypes /\ Following
  BY <1>1, <1>2 DEF FpInv, Placed
<1>5. Placed'
  <2>1. Rest(pos[1], pos[2])' = Rest(pos[1], pos[2])
    <3>1. Rest(pos[1], pos[2])' = Through(Len(stream)) - Through(i - 1) - o
      BY <1>2, <1>4, RestNow
    <3> QED
      BY <1>1, <3>1 DEF Rest
  <2>2. (FrameSize(stream[pos[1]]))' = FrameSize(stream[pos[1]])
    BY <1>2 DEF FrameSize, headerSize
  <2> QED
    BY <1>2, <1>4, <2>1, <2>2 DEF Placed
<1>6. ~parser'.inFrame => Between(parser', st, o) /\ o < headerSize(stream[i])
  BY <1>1, <1>2, <1>4 DEF Following
<1>7. parser'.inFrame => /\ Within(parser', st, i, o - headerSize(stream[i]))
                         /\ o >= headerSize(stream[i])
  BY <1>1, <1>2, <1>4 DEF Following
<1>8. parser' \in ParserState /\ ~parser'.err /\ buf' \in Nat
  BY <1>2, <1>4 DEF FpTypes
<1> QED
  BY <1>2, <1>3, <1>4, <1>5, <1>6, <1>7, <1>8, FrameGoesOn

LEMMA PartialFpInv ==
  ASSUME FpInv, PartialHeader
  PROVE  FpInv'
<1>1. PICK i, st, h, f : /\ i = pos[1] /\ st = Whole(pos[1] - 1) /\ h = pos[2]
                         /\ f = stream[pos[1]]
  OBVIOUS
<1>2. /\ buf > 0 /\ ~parser.inFrame /\ ~parser.err
      /\ parser.headerLen + buf < headerSize(f)
      /\ parser' = [parser EXCEPT !.headerLen = @ + buf]
      /\ buf' = 0 /\ Consumed(buf)
      /\ UNCHANGED <<stream, deflate, broken, out, protocolErrors>>
  BY <1>1 DEF PartialHeader
<1>3. Facing(i, st)
  BY <1>1, <1>2, Faced
<1>4. /\ Placed /\ FpTypes /\ Following /\ buf \in Nat /\ parser \in ParserState
      /\ stream \in Seq(FrameHeader) /\ h \in Nat
  BY <1>1, <1>2 DEF FpInv, FpTypes, Placed
<1>5. Between(parser, st, h) /\ parser.headerLen = h
  BY <1>1, <1>2, <1>4 DEF Following, Between
<1>6. f \in FrameHeader /\ f = stream[i]
  BY <1>1, <1>3, FacingFrames
<1>7. headerSize(f) \in Nat /\ f.len \in Nat /\ FrameSize(f) = headerSize(f) + f.len
  BY <1>6, SizeIs
<1>8. h + buf < headerSize(f) /\ h + buf # FrameSize(f) /\ h + buf <= FrameSize(f)
  BY <1>2, <1>4, <1>5, <1>7
<1>9. Placed' /\ pos' = <<i, h + buf>>
  <2>1. buf' \in Nat /\ buf' <= buf - buf
    BY <1>2, <1>4
  <2> QED
    BY <1>1, <1>2, <1>4, <1>8, <2>1, PlacedMore
<1>10. /\ parser' \in ParserState /\ parser'.err = parser.err
       /\ parser'.inFrame = parser.inFrame /\ parser'.headerLen = h + buf
  <2> DEFINE n == h + buf
  <2>1. n \in Nat /\ parser' = [parser EXCEPT !.headerLen = n]
    BY <1>2, <1>4, <1>5
  <2> HIDE DEF n
  <2>2. parser' \in ParserState
    BY <1>4, <2>1 DEF ParserState
  <2>3. parser'.err = parser.err /\ parser'.inFrame = parser.inFrame /\ parser'.headerLen = n
    BY <1>4, <2>1 DEF ParserState
  <2> QED
    BY <2>2, <2>3 DEF n
<1>11. /\ parser'.inMessage = parser.inMessage /\ parser'.msgOpcode = parser.msgOpcode
       /\ parser'.compressed = parser.compressed /\ parser'.payload = parser.payload
       /\ parser'.size = parser.size /\ parser'.truncated = parser.truncated
       /\ parser'.overflow = parser.overflow /\ parser'.corrupt = parser.corrupt
  BY <1>2, <1>4 DEF ParserState
<1>12. Between(parser', st, h + buf)
  BY <1>2, <1>5, <1>10, <1>11 DEF Between, Pending, Gathered
<1>13. buf' \in Nat
  BY <1>2
<1>14. PICK o : o = h + buf
  OBVIOUS
<1> QED
  BY <1>2, <1>3, <1>6, <1>8, <1>9, <1>10, <1>12, <1>13, <1>14, FrameGoesOn

(* A bad header stops the parser.                                          *)
LEMMA HeaderStops ==
  ASSUME NEW i, NEW st, Facing(i, st), NEW f, f = stream[i], Bad([inMessage |-> st.first # 0], f),
         parser \in ParserState, ~parser.inFrame, parser' = [parser EXCEPT !.err = TRUE],
         buf' = 0, protocolErrors' = protocolErrors + 1, Placed',
         NEW s \in Nat, s > 0, pos' = <<i + 1, 0>> \/ pos' = <<i, s>>,
         UNCHANGED <<stream, deflate, broken, out>>
  PROVE  FpInv'
<1>1. /\ i \in Nat /\ i # 0 /\ protocolErrors = 0 /\ FpTypes /\ st = Whole(i - 1)
      /\ st \in RefState /\ ~st.err /\ Shapes(out) = st.msgs
  BY DEF Facing
<1>2. parser' \in ParserState /\ parser'.err = TRUE /\ parser'.inFrame = parser.inFrame
  BY DEF ParserState
<1>3. Whole(i)' = ReadFrame(st, i)
  <2> DEFINE j == i - 1
  <2>1. j \in Nat /\ j + 1 = i
    BY <1>1
  <2>2. Whole(j + 1) = ReadFrame(Whole(j), j + 1)
    BY <2>1, WholeStep
  <2>3. Whole(i)' = Whole(i)
    BY WholeKept
  <2> QED
    BY <1>1, <2>1, <2>2, <2>3
<1>4. ReadFrame(st, i).err = TRUE /\ ReadFrame(st, i).msgs = st.msgs
  BY <1>1, ReadBad
<1>5. (IF pos[2] > 0 THEN pos[1] ELSE pos[1] - 1)' = i
  BY <1>1
<1>6. Whole(IF pos[2] > 0 THEN pos[1] ELSE pos[1] - 1)' = Whole(i)'
  BY <1>5
<1>7. Shapes(out)' = st.msgs
  BY <1>1 DEF Shapes, Shape
<1>8. Stopped'
  BY <1>1, <1>2, <1>3, <1>4, <1>6, <1>7 DEF Stopped
<1>9. FpTypes'
  BY <1>1, <1>2 DEF FpTypes
<1> QED
  BY <1>2, <1>8, <1>9 DEF FpInv

LEMMA ReadHeaderFpInv ==
  ASSUME FpInv, readHeader
  PROVE  FpInv'
<1>1. PICK i, st, h, f, n : /\ i = pos[1] /\ st = Whole(pos[1] - 1) /\ h = pos[2]
                            /\ f = stream[pos[1]] /\ n = headerSize(f) - parser.headerLen
  OBVIOUS
<1>2. /\ buf > 0 /\ ~parser.inFrame /\ ~parser.err /\ buf >= n /\ Consumed(n)
      /\ stream' = stream /\ deflate' = deflate
      /\ Bad(parser, f) => /\ parser' = [parser EXCEPT !.err = TRUE] /\ buf' = 0
                           /\ protocolErrors' = protocolErrors + 1
                           /\ UNCHANGED <<broken, out>>
      /\ ~Bad(parser, f) =>
           /\ buf' = buf - n /\ protocolErrors' = protocolErrors
           /\ f.len = 0 => endFrame(Begin(parser, f))
           /\ f.len # 0 => parser' = Begin(parser, f) /\ UNCHANGED <<broken, out>>
  BY <1>1 DEF readHeader
<1>3. Facing(i, st)
  BY <1>1, <1>2, Faced
<1>4. /\ Placed /\ FpTypes /\ Following /\ buf \in Nat /\ parser \in ParserState
      /\ stream \in Seq(FrameHeader) /\ h \in Nat
  BY <1>1, <1>2 DEF FpInv, FpTypes, Placed
<1>5. f \in FrameHeader /\ f = stream[i] /\ i \in Nat /\ i # 0 /\ i <= Len(stream)
  BY <1>1, <1>3, FacingFrames DEF Facing
<1>6. Between(parser, st, h) /\ parser.headerLen = h /\ h < headerSize(f)
  BY <1>1, <1>2, <1>4, <1>5 DEF Following, Between
<1>7. /\ headerSize(f) \in Nat /\ headerSize(f) >= 2 /\ f.len \in Nat
      /\ FrameSize(f) = headerSize(f) + f.len
  BY <1>5, SizeIs
<1>8. n \in Nat /\ h + n = headerSize(f) /\ h + n <= FrameSize(f)
  <2>1. PICK s \in Nat, l \in Nat : s = headerSize(f) /\ l = f.len
    BY <1>7
  <2>2. h \in Nat /\ h < s /\ n = s - h
    BY <1>1, <1>4, <1>6, <2>1
  <2>3. n \in Nat /\ h + n = s /\ h + n <= s + l
    BY <2>2
  <2> QED
    BY <1>7, <2>1, <2>3
<1>9. /\ st \in RefState /\ (st.first = 0 => st.bytes = <<>> /\ ~st.damaged)
  BY <1>3 DEF Facing
<1>10. Bad(parser, f) <=> Bad([inMessage |-> st.first # 0], f)
  BY <1>4, <1>5, <1>6, <1>9, BadAlike DEF Between, Pending
<1>11. buf' \in Nat /\ buf' <= buf - n
  BY <1>2, <1>4, <1>8
<1>12. /\ Placed'
       /\ f.len = 0 => pos' = <<i + 1, 0>>
       /\ f.len # 0 => pos' = <<i, headerSize(f)>>
  <2>1. /\ Placed'
        /\ h + n = FrameSize(f) => pos' = <<i + 1, 0>>
        /\ h + n # FrameSize(f) => pos' = <<i, h + n>>
    BY <1>1, <1>2, <1>4, <1>8, <1>11, PlacedMore
  <2> QED
    BY <1>7, <1>8, <2>1
<1>13. CASE Bad(parser, f)
  <2>1. pos' = <<i + 1, 0>> \/ pos' = <<i, headerSize(f)>>
    BY <1>12
  <2>2. PICK s \in Nat : s = headerSize(f) /\ s > 0
    BY <1>7
  <2> QED
    BY <1>2, <1>3, <1>4, <1>5, <1>10, <1>12, <1>13, <2>1, <2>2, HeaderStops
<1>14. CASE ~Bad(parser, f)
  <2>1. PICK q : q = Begin(parser, f)
    OBVIOUS
  <2>2. q \in ParserState /\ Within(q, st, i, 0)
    BY <1>4, <1>5, <1>6, <1>9, <1>10, <1>14, <2>1, ParserAssumption, BeginWithin
  <2>3. CASE f.len = 0
    <3>1. Within(q, st, i, stream[i].len) /\ endFrame(q) /\ pos' = <<i + 1, 0>>
      BY <1>2, <1>5, <1>12, <1>14, <2>1, <2>2, <2>3
    <3> QED
      BY <1>2, <1>3, <1>11, <1>12, <1>14, <2>2, <3>1, ParserAssumption, FrameEnds
  <2>4. CASE f.len # 0
    <3>1. PICK o : o = headerSize(f)
      OBVIOUS
    <3>2. parser' = q /\ UNCHANGED <<broken, out, protocolErrors>> /\ pos' = <<i, o>>
      BY <1>2, <1>12, <1>14, <2>1, <2>4, <3>1
    <3>3. parser'.inFrame /\ ~parser'.err
      BY <2>2, <3>2 DEF Within
    <3>4. o - headerSize(stream[i]) = 0 /\ o >= headerSize(stream[i])
      BY <1>5, <1>7, <3>1
    <3>5. /\ Within(parser', st, i, o - headerSize(stream[i]))
          /\ parser' \in ParserState
      BY <2>2, <3>2, <3>4
    <3> QED
      BY <1>2, <1>3, <1>11, <1>12, <3>2, <3>3, <3>4, <3>5, FrameGoesOn
  <2> QED
    BY <2>3, <2>4
<1> QED
  BY <1>13, <1>14

LEMMA PayloadFpInv ==
  ASSUME FpInv, Payload
  PROVE  FpInv'
<1>1. PICK i, st, h, f, k, n, q :
        /\ i = pos[1] /\ st = Whole(pos[1] - 1) /\ h = pos[2] /\ f = stream[pos[1]]
        /\ k = h - headerSize(f) /\ n = Min({buf, parser.remaining})
        /\ q = [consume(parser, n) EXCEPT !.remaining = @ - n]
  OBVIOUS
<1>2. /\ buf > 0 /\ parser.inFrame /\ buf' = buf - n /\ Consumed(n)
      /\ q.remaining = 0 => endFrame(q)
      /\ q.remaining # 0 => parser' = q /\ UNCHANGED <<broken, out>>
      /\ stream' = stream /\ deflate' = deflate /\ protocolErrors' = protocolErrors
  BY <1>1 DEF Payload
<1>3. ~parser.err
  BY <1>2 DEF FpInv, Stopped
<1>4. Facing(i, st)
  BY <1>1, <1>2, <1>3, Faced
<1>5. /\ Placed /\ FpTypes /\ Following /\ buf \in Nat /\ parser \in ParserState
      /\ stream \in Seq(FrameHeader) /\ h \in Nat /\ parser.remaining \in Nat
  BY <1>1, <1>3 DEF FpInv, FpTypes, Placed, ParserState
<1>6. f \in FrameHeader /\ f = stream[i] /\ i \in Nat /\ i # 0 /\ i <= Len(stream)
  BY <1>1, <1>4, FacingFrames DEF Facing
<1>7. Within(parser, st, i, k) /\ h >= headerSize(f) /\ st \in RefState
  BY <1>1, <1>2, <1>5, <1>6 DEF Following
<1>8. /\ headerSize(f) \in Nat /\ f.len \in Nat
      /\ FrameSize(f) = headerSize(f) + f.len /\ h < FrameSize(f)
  BY <1>1, <1>5, <1>6, SizeIs DEF Placed
<1>9. parser.remaining = f.len - k
  BY <1>6, <1>7 DEF Within
<1>10. k \in Nat /\ parser.remaining > 0
  BY <1>1, <1>5, <1>7, <1>8, <1>9
<1>11. n = IF buf <= parser.remaining THEN buf ELSE parser.remaining
  BY <1>1, <1>5, MinOfTwo
<1>12. n \in Nat /\ n > 0 /\ n <= buf /\ n <= parser.remaining
  BY <1>2, <1>5, <1>10, <1>11
<1>13. NextByte(i, k)
  BY <1>1, <1>6 DEF NextByte
<1>14. q \in ParserState /\ Within(q, st, i, k + n)
  <2>1. i \in Nat \ {0} /\ stream[i] \in FrameHeader
    BY <1>6
  <2> QED
    BY <1>1, <1>5, <1>7, <1>10, <1>12, <1>13, <2>1, ParserAssumption, ConsumeWithin
<1>15. q.remaining = f.len - (k + n) /\ ~q.err /\ q.inFrame
  BY <1>6, <1>14 DEF Within
<1>16. /\ h + n <= FrameSize(f) /\ (h + n = FrameSize(f) <=> q.remaining = 0)
       /\ h + n - headerSize(f) = k + n
  <2>1. PICK s \in Nat, l \in Nat : s = headerSize(f) /\ l = f.len
    BY <1>8
  <2>2. h \in Nat /\ k \in Nat /\ n \in Nat /\ k = h - s /\ n <= l - k
    BY <1>1, <1>5, <1>9, <1>10, <1>12, <2>1
  <2>3. h + n <= s + l /\ (h + n = s + l <=> l - (k + n) = 0) /\ h + n - s = k + n
    BY <2>2
  <2>4. FrameSize(f) = s + l /\ q.remaining = l - (k + n)
    BY <1>8, <1>15, <2>1
  <2> QED
    BY <2>1, <2>3, <2>4, Zenon
<1>17. buf' \in Nat /\ buf' <= buf - n
  BY <1>2, <1>5, <1>12
<1>18. /\ Placed'
       /\ h + n = FrameSize(f) => pos' = <<i + 1, 0>>
       /\ h + n # FrameSize(f) => pos' = <<i, h + n>>
  BY <1>1, <1>2, <1>5, <1>12, <1>16, <1>17, PlacedMore
<1>19. CASE q.remaining = 0
  <2>1. k + n = f.len
    BY <1>8, <1>10, <1>12, <1>15, <1>19
  <2>2. Within(q, st, i, stream[i].len) /\ endFrame(q) /\ pos' = <<i + 1, 0>>
    BY <1>2, <1>6, <1>14, <1>16, <1>18, <1>19, <2>1
  <2> QED
    BY <1>2, <1>4, <1>14, <1>17, <1>18, <2>2, ParserAssumption, FrameEnds
<1>20. CASE q.remaining # 0
  <2>1. PICK o : o = h + n
    OBVIOUS
  <2>2. parser' = q /\ UNCHANGED <<broken, out>> /\ pos' = <<i, o>>
    BY <1>2, <1>16, <1>18, <1>20, <2>1
  <2>3. o - headerSize(stream[i]) = k + n /\ o >= headerSize(stream[i])
    BY <1>5, <1>6, <1>7, <1>8, <1>12, <1>16, <2>1
  <2>4. /\ Within(parser', st, i, o - headerSize(stream[i])) /\ parser' \in ParserState
        /\ parser'.inFrame /\ ~parser'.err
    BY <1>14, <1>15, <2>2, <2>3
  <2> QED
    BY <1>2, <1>4, <1>17, <1>18, <2>2, <2>3, <2>4, FrameGoesOn
<1> QED
  BY <1>19, <1>20

LEMMA StutterFpInv ==
  ASSUME FpInv, UNCHANGED fpVars
  PROVE  FpInv'
<1>1. UNCHANGED <<stream, deflate, pos, buf, parser, broken, out, protocolErrors>>
  BY DEF fpVars
<1>2. FpTypes => FpTypes'
  BY <1>1 DEF FpTypes
<1>3. Placed => Placed'
  <2>1. PICK i, o : pos' = <<i, o>> \/ ~Placed
    BY <1>1 DEF Placed
  <2>2. Placed => Rest(pos[1], pos[2])' = Rest(pos[1], pos[2])
    <3>1. SUFFICES ASSUME Placed PROVE Rest(pos[1], pos[2])' = Rest(pos[1], pos[2])
      OBVIOUS
    <3>2. Rest(pos[1], pos[2])' = Through(Len(stream)) - Through(i - 1) - o
      BY <1>1, <2>1, <3>1, RestNow
    <3> QED
      BY <1>1, <2>1, <3>1, <3>2 DEF Rest
  <2>3. (FrameSize(stream[pos[1]]))' = FrameSize(stream[pos[1]])
    BY <1>1 DEF FrameSize, headerSize
  <2> QED
    BY <1>1, <2>2, <2>3 DEF Placed
<1>4. PICK i, h, n, p, st :
        /\ i = pos[1] /\ h = pos[2] /\ p = parser /\ st = Whole(pos[1] - 1)
        /\ n = IF pos[2] > 0 THEN pos[1] ELSE pos[1] - 1
  OBVIOUS
<1>5. Whole(pos[1] - 1)' = st /\ Whole(IF pos[2] > 0 THEN pos[1] ELSE pos[1] - 1)' = Whole(n)
  <2>1. Whole(i - 1)' = Whole(i - 1) /\ Whole(n)' = Whole(n)
    BY <1>1, WholeKept
  <2>2. Whole(pos[1] - 1)' = Whole(i - 1)'
    BY <1>1, <1>4
  <2>3. Whole(IF pos[2] > 0 THEN pos[1] ELSE pos[1] - 1)' = Whole(n)'
    BY <1>1, <1>4
  <2> QED
    BY <1>4, <2>1, <2>2, <2>3
<1>6. Shapes(out)' = Shapes(out) /\ headerSize(stream[pos[1]])' = headerSize(stream[pos[1]])
  BY <1>1 DEF Shapes, Shape, headerSize
<1>7. Stopped => Stopped'
  BY <1>1, <1>4, <1>5, <1>6 DEF Stopped
<1>8. Between(p, st, h) => Between(parser, Whole(pos[1] - 1), pos[2])'
  <2>1. SUFFICES ASSUME Between(p, st, h) PROVE Between(parser, Whole(pos[1] - 1), pos[2])'
    OBVIOUS
  <2> QED
    BY <1>1, <1>4, <1>5, <2>1 DEF Between, Pending, Gathered, CutOff
<1>9. PICK k : k = pos[2] - headerSize(stream[pos[1]])
  OBVIOUS
<1>10. Within(p, st, i, k) =>
         Within(parser, Whole(pos[1] - 1), pos[1], pos[2] - headerSize(stream[pos[1]]))'
  <2>1. SUFFICES ASSUME Within(p, st, i, k)
                 PROVE  Within(parser, Whole(pos[1] - 1), pos[1],
                               pos[2] - headerSize(stream[pos[1]]))'
    OBVIOUS
  <2>2. Within(p, st, i, k)'
    BY <1>1, <2>1, WithinKept
  <2>3. (pos[2] - headerSize(stream[pos[1]]))' = k
    BY <1>1, <1>6, <1>9
  <2>4. pos'[1] = i /\ parser' = p
    BY <1>1, <1>4
  <2> QED
    BY <1>5, <2>2, <2>3, <2>4
<1>11. Following => Following'
  BY <1>1, <1>4, <1>5, <1>6, <1>8, <1>9, <1>10 DEF Following
<1> QED
  BY <1>1, <1>2, <1>3, <1>7, <1>11 DEF FpInv

LEMMA NextFpInv == FpInv /\ [FpNext]_fpVars => FpInv'
<1> SUFFICES ASSUME FpInv, [FpNext]_fpVars PROVE FpInv'
  OBVIOUS
<1>1. ASSUME NEW n \in 1 .. MaxChunk, Chunk(n) PROVE FpInv'
  <2>1. n \in Nat
    BY ParserAssumption
  <2> QED
    BY <1>1, <2>1, ChunkFpInv
<1>2. CASE PartialHeader
  BY <1>2, PartialFpInv
<1>3. CASE readHeader
  BY <1>3, ReadHeaderFpInv
<1>4. CASE Payload
  BY <1>4, PayloadFpInv
<1>5. CASE UNCHANGED fpVars
  BY <1>5, StutterFpInv
<1> QED
  BY <1>1, <1>2, <1>3, <1>4, <1>5 DEF FpNext

(* The parser reports what the stream says, however it is cut into chunks. *)
THEOREM StreamIsParsed == FpSpec => []ParsesTheStream
<1>1. FpInv => ParsesTheStream
  <2> SUFFICES ASSUME FpInv, pos[2] = 0 \/ parser.err
               PROVE  LET ref == Whole(IF parser.err /\ pos[2] > 0 THEN pos[1] ELSE pos[1] - 1)
                      IN  /\ Shapes(out) = ref.msgs
                          /\ parser.err = ref.err /\ protocolErrors = (IF ref.err THEN 1 ELSE 0)
    BY DEF ParsesTheStream, Shapes
  <2>1. parser.err \in BOOLEAN /\ pos[2] \in Nat
    BY DEF FpInv, FpTypes, ParserState, Placed
  <2>2. CASE parser.err
    <3>1. Stopped
      BY <2>2 DEF FpInv
    <3> QED
      BY <2>1, <2>2, <3>1 DEF Stopped
  <2>3. CASE ~parser.err
    <3>1. Following
      BY <2>3 DEF FpInv
    <3>2. PICK st \in RefState : st = Whole(pos[1] - 1) /\ ~st.err
      BY <3>1 DEF Following
    <3>3. st.err = FALSE
      BY <3>2 DEF RefState
    <3> QED
      BY <2>1, <2>3, <3>1, <3>2, <3>3 DEF Following
  <2> QED
    BY <2>2, <2>3
<1> QED
  BY InitFpInv, NextFpInv, <1>1, PTL DEF FpSpec
=============================================================================
