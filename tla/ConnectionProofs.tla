-------------------------- MODULE ConnectionProofs --------------------------
(***************************************************************************)
(* Two proofs about connections, for any number of them and any times:     *)
(* the channel between the SNI stage and the HTTPS server is closed last   *)
(* (SSHMux, with MuxInv as inductive invariant), and the deadline that     *)
(* pings push ahead cuts off exactly the silent (KeepAlive, with PingInv). *)
(***************************************************************************)
EXTENDS SSHMux, KeepAlive, FiniteSetTheorems, TLAPS

-----------------------------------------------------------------------------
(* The shared port.                                                        *)
MuxSpec == MuxInit /\ [][MuxNext]_muxVars

(* The connections a route goroutine works on.                             *)
Flying == {p \in Peer : at[p] \in {"hello", "local"}}

Closing == {"open", "base", "ssh", "done"}

(* The wait group counts the route goroutines; the loop that starts them   *)
(* leaves its loop when Close is complete, and closes ready when it ends.  *)
MuxInv ==
  /\ at \in [Peer -> Places] /\ closing \in Closing
  /\ inFlight = Cardinality(Flying)
  /\ sniLoop \in {"wait", "stopped"} => closing = "done"
  /\ ~ready => sniLoop = "stopped" /\ Flying = {}

-----------------------------------------------------------------------------
(* Only the loop starts route goroutines, and each gives its count back.   *)
LEMMA FlyingFinite == IsFiniteSet(Flying) /\ Cardinality(Flying) \in Nat
<1>1. Flying \subseteq Peer
  BY DEF Flying
<1>2. IsFiniteSet(Flying)
  BY <1>1, FS_Subset, MuxAssumption
<1> QED
  BY <1>2, FS_CardinalityType

(* A step that moves no connection into or out of a route goroutine, and   *)
(* leaves the loop and the wait group alone.                               *)
LEMMA FlightKept ==
  ASSUME MuxInv, Flying' = Flying, at' \in [Peer -> Places],
         UNCHANGED inFlight, closing' = closing, UNCHANGED <<sniLoop, ready>>
  PROVE  MuxInv'
  BY DEF MuxInv

(* A connection that is moved elsewhere, neither from nor to the routes.   *)
LEMMA MovePastRoutes ==
  ASSUME MuxInv, NEW p \in Peer, NEW place \in Places, Move(p, place),
         (at[p] \in {"hello", "local"}) <=> (place \in {"hello", "local"})
  PROVE  at' \in [Peer -> Places] /\ Flying' = Flying
<1>1. at \in [Peer -> Places] /\ at' = [at EXCEPT ![p] = place]
  BY DEF MuxInv, Move
<1>2. at' \in [Peer -> Places] /\ \A q \in Peer :
        (at'[q] \in {"hello", "local"}) <=> (at[q] \in {"hello", "local"})
  BY <1>1
<1> QED
  BY <1>2 DEF Flying

(* A route goroutine starts.                                               *)
LEMMA TakeSniSlotInv ==
  ASSUME MuxInv, NEW p \in Peer, TakeSniSlot(p)
  PROVE  MuxInv'
<1>1. /\ at \in [Peer -> Places] /\ at' = [at EXCEPT ![p] = "hello"]
      /\ at[p] = "heldSni" /\ sniLoop = "slot" /\ sniLoop' = "accept"
      /\ inFlight' = inFlight + 1 /\ UNCHANGED <<closing, ready>>
  BY DEF MuxInv, TakeSniSlot, Move
<1>2. at' \in [Peer -> Places] /\ Flying' = Flying \cup {p} /\ p \notin Flying
  BY <1>1 DEF Flying, Places
<1>3. Cardinality(Flying') = Cardinality(Flying) + 1
  BY <1>2, FlyingFinite, FS_AddElement
<1> QED
  BY <1>1, <1>2, <1>3 DEF MuxInv

(* A route goroutine ends.                                                 *)
LEMMA RouteDoneInv ==
  ASSUME MuxInv, NEW p \in Peer, NEW place \in {"backend", "closed", "served"},
         at[p] \in {"hello", "local"}, RouteDone(p, place)
  PROVE  MuxInv'
<1>1. /\ at \in [Peer -> Places] /\ at' = [at EXCEPT ![p] = place]
      /\ inFlight' = inFlight - 1 /\ UNCHANGED <<closing, ready, sniLoop>>
  BY DEF MuxInv, RouteDone, Move
<1>2. at' \in [Peer -> Places] /\ Flying' = Flying \ {p} /\ p \in Flying
  BY <1>1 DEF Flying, Places
<1>3. Cardinality(Flying') = Cardinality(Flying) - 1
  BY <1>2, FlyingFinite, FS_RemoveElement
<1> QED
  BY <1>1, <1>2, <1>3 DEF MuxInv

(* The invariant holds when the listeners are set up.                      *)
LEMMA InitMuxInv == MuxInit => MuxInv
<1> SUFFICES ASSUME MuxInit PROVE MuxInv
  OBVIOUS
<1>1. /\ at \in [Peer -> Places] /\ closing \in Closing /\ Flying = {}
      /\ inFlight = 0 /\ sniLoop = "accept"
  BY DEF MuxInit, Places, Closing, Flying
<1>2. ready
  BY DEF MuxInit
<1> QED
  BY <1>1, <1>2, FS_EmptySet DEF MuxInv

(* A connection on its way to a route goroutine, or elsewhere.             *)
LEMMA BeforeRoutes ==
  ASSUME MuxInv, NEW p \in Peer,
         \/ Arrive(p) \/ DispatchAccept(p) \/ TakeSlot(p) \/ HeldClosed(p)
         \/ Peek(p) \/ PeekFails(p) \/ OfferClosed(p) \/ AcceptSSH(p)
         \/ RouteLocal(p)
  PROVE  MuxInv'
<1>1. /\ UNCHANGED <<inFlight, sniLoop, ready, closing>>
      /\ \E place \in Places :
           /\ Move(p, place)
           /\ (at[p] \in {"hello", "local"}) <=> (place \in {"hello", "local"})
  BY DEF Arrive, DispatchAccept, TakeSlot, HeldClosed, Peek, PeekFails,
         OfferClosed, AcceptSSH, RouteLocal, Places
<1> QED
  BY <1>1, MovePastRoutes, FlightKept

(* The loop takes a connection, or closes it at once.                      *)
LEMMA AcceptOtherInv ==
  ASSUME MuxInv, NEW p \in Peer, AcceptOther(p)
  PROVE  MuxInv'
<1>1. /\ UNCHANGED <<inFlight, ready, closing>>
      /\ sniLoop = "accept" /\ sniLoop' \in {"accept", "slot"}
      /\ at[p] = "offer"
      /\ Move(p, "closed") \/ Move(p, "heldSni")
  BY DEF AcceptOther
<1>2. at' \in [Peer -> Places] /\ Flying' = Flying
  BY <1>1, MovePastRoutes DEF Places
<1> QED
  BY <1>1, <1>2 DEF MuxInv

(* The loops, the clients and Close.                                       *)
LEMMA LoopsInv ==
  ASSUME MuxInv, CloseStep \/ AcceptError \/ MuxLoopStep
  PROVE  MuxInv'
<1>0. Flying' = Flying /\ at' \in [Peer -> Places] /\ UNCHANGED inFlight
  BY DEF CloseStep, AcceptError, MuxLoopStep, Slept, DispatchClosed,
         SSHLoopClosed, SniLoopClosed, CloseReady, ServeTLSReturns, Flying, MuxInv
<1>1. CASE CloseStep
  BY <1>0, <1>1 DEF CloseStep, MuxInv, Closing
<1>2. CASE AcceptError \/ Slept \/ DispatchClosed \/ SSHLoopClosed \/ ServeTLSReturns
  <2>1. closing' = closing /\ UNCHANGED <<sniLoop, ready>>
    BY <1>2 DEF AcceptError, Slept, DispatchClosed, SSHLoopClosed, ServeTLSReturns
  <2> QED
    BY <1>0, <2>1, FlightKept
<1>3. CASE SniLoopClosed
  BY <1>0, <1>3 DEF SniLoopClosed, OtherClosed, MuxInv
<1>4. CASE CloseReady
  <2>1. sniLoop = "wait" /\ inFlight = 0 /\ sniLoop' = "stopped" /\ closing' = closing
    BY <1>4 DEF CloseReady
  <2>2. Flying = {}
    BY <2>1, FlyingFinite, FS_EmptySet DEF MuxInv
  <2> QED
    BY <1>0, <2>1, <2>2 DEF MuxInv
<1> QED
  BY <1>1, <1>2, <1>3, <1>4 DEF MuxLoopStep

(* MuxInv is inductive.                                                    *)
LEMMA NextMuxInv == MuxInv /\ [MuxNext]_muxVars => MuxInv'
<1> SUFFICES ASSUME MuxInv, [MuxNext]_muxVars PROVE MuxInv'
  OBVIOUS
<1>1. CASE UNCHANGED muxVars
  BY <1>1 DEF muxVars, MuxInv, Flying
<1>2. CASE CloseStep \/ AcceptError \/ MuxLoopStep
  BY <1>2, LoopsInv
<1>3. ASSUME NEW p \in Peer, Arrive(p) \/ MuxPeerStep(p) PROVE MuxInv'
  <2>1. CASE TakeSniSlot(p)
    BY <2>1, TakeSniSlotInv
  <2>2. CASE AcceptOther(p)
    BY <2>2, AcceptOtherInv
  <2>3. CASE RouteBackend(p)
    BY <2>3, RouteDoneInv DEF RouteBackend
  <2>4. CASE AcceptLocal(p)
    BY <2>4, RouteDoneInv DEF AcceptLocal
  <2> QED
    BY <1>3, <2>1, <2>2, <2>3, <2>4, BeforeRoutes DEF MuxPeerStep
<1> QED
  BY <1>1, <1>2, <1>3 DEF MuxNext

(* proxyListener.ready is closed after the shared port, whatever errors    *)
(* Accept returned before, and after the last route goroutine: nobody      *)
(* sends on the closed channel, for any number of connections and slots.   *)
THEOREM ReadySafe == MuxSpec => []ReadyClosedLast
<1>1. MuxInv => ReadyClosedLast
  BY DEF MuxInv, ReadyClosedLast, Flying
<1> QED
  BY <1>1, InitMuxInv, NextMuxInv, PTL DEF MuxSpec

-----------------------------------------------------------------------------
(* The pings.                                                              *)

(* The types that the clock's arithmetic needs.                            *)
Clocks ==
  /\ now \in Nat /\ timeout \in Timeouts /\ tickAt \in Nat /\ waitUntil \in Nat
  /\ sentAt \in Nat /\ deadline \in Nat /\ lastAnswer \in Nat /\ slowest \in Nat
  /\ tickReady \in BOOLEAN

(* While the connection is open nothing has ended the loop.                *)
Running ==
  /\ pinger \in {"select", "send", "wait"} /\ reply \in {"none", "flying", "ok"}
  /\ pingClosed = FALSE

(* A tick in the channel has come just now.                                *)
Ticker ==
  /\ now <= tickAt /\ tickAt <= now + Interval
  /\ tickReady => tickAt = now + Interval

(* Requests are sent at ticks, and the wait for one ends at the next.      *)
Sending ==
  /\ pinger = "send" =>
       reply = "none" /\ ~tickReady /\ tickAt = now + Interval
  /\ pinger = "wait" =>
       /\ reply # "none" /\ waitUntil = sentAt + Interval /\ now <= waitUntil
       /\ tickReady => now = waitUntil
       /\ ~tickReady => tickAt = waitUntil

Whole(n) == \E k \in Nat : n = k * Interval

InFlight ==
  reply # "none" =>
    /\ sentAt <= now /\ sentAt <= tickAt /\ Whole(tickAt - sentAt)
    /\ deadline >= sentAt + timeout
    /\ reply = "flying" => slowest >= now - sentAt
    /\ reply = "flying" /\ pinger = "select" => now >= sentAt + Interval

(* Without a request in flight the deadline is far enough for the next.    *)
Granted ==
  reply = "none" =>
    /\ pinger = "send" \/ tickReady => deadline >= now + timeout
    /\ pinger = "select" /\ ~tickReady => deadline >= tickAt + timeout

(* An answer waits for the next tick at most, and took the client as long  *)
(* as the ticks that passed without it.                                    *)
Uncounted ==
  reply = "ok" =>
    /\ now <= lastAnswer + Interval
    /\ tickReady \/ tickAt <= lastAnswer + Interval
    /\ pinger = "wait" => now = lastAnswer
    /\ pinger = "select" => lastAnswer >= sentAt + Interval
    /\ slowest >= lastAnswer - sentAt
    /\ tickReady => slowest >= tickAt - sentAt - 2 * Interval
    /\ ~tickReady => slowest >= tickAt - sentAt - Interval

Deadlines ==
  /\ lastAnswer <= now /\ now <= deadline
  /\ deadline <= lastAnswer + 2 * Interval + timeout

OpenInv ==
  /\ Running /\ Ticker /\ Sending /\ InFlight /\ Granted /\ Uncounted /\ Deadlines

(* The client was silent for the timeout, or answered after the last tick. *)
Deserved(late) ==
  \/ slowest >= timeout
  \/ late /\ timeout > Interval /\ slowest >= LastTick

PingInv ==
  /\ Clocks
  /\ net = "open" => OpenInv
  /\ net = "cut" => Deserved(unheard)

-----------------------------------------------------------------------------
(* Whole numbers of intervals.                                             *)
LEMMA WholeSteps ==
  /\ Whole(Interval)
  /\ \A n : Whole(n) => Whole(n + Interval)
<1>1. Interval \in Nat /\ Interval = 1 * Interval
  BY KeepAliveAssumption
<1>2. Whole(Interval)
  BY <1>1 DEF Whole
<1>3. ASSUME NEW n, Whole(n) PROVE Whole(n + Interval)
  <2>1. PICK k \in Nat : n = k * Interval
    BY <1>3 DEF Whole
  <2>2. n + Interval = (k + 1) * Interval /\ k + 1 \in Nat
    BY <1>1, <2>1
  <2> QED
    BY <2>2 DEF Whole
<1> QED
  BY <1>2, <1>3

(* Multiples of the interval are ordered as their factors.                 *)
LEMMA TimesMonotone ==
  ASSUME NEW a \in Int, NEW b \in Int, NEW c \in Nat, a <= b
  PROVE  a * c <= b * c
<1>1. (b - a) \in Nat
  OBVIOUS
<1>2. (b - a) * c >= 0
  BY <1>1
<1>3. (b - a) * c = b * c - a * c
  OBVIOUS
<1> QED
  BY <1>2, <1>3

(* A whole number of intervals that is not less than the timeout is at     *)
(* least one interval longer than the last tick before it.                 *)
LEMMA LastTickBefore ==
  ASSUME timeout \in Nat \ {0}, NEW n, Whole(n), n >= timeout
  PROVE  n - Interval >= LastTick
<1> DEFINE q == (timeout - 1) \div Interval
           r == (timeout - 1) % Interval
<1>1. Interval \in Nat /\ Interval > 0 /\ timeout - 1 \in Nat
  BY KeepAliveAssumption
<1>2. q \in Int /\ r \in 0 .. (Interval - 1) /\ timeout - 1 = q * Interval + r
  BY <1>1
<1>3. PICK k \in Nat : n = k * Interval
  BY DEF Whole
<1> HIDE DEF q, r
<1>4. q * Interval \in Int /\ k * Interval \in Int
  BY <1>1, <1>2
<1>5. q * Interval < k * Interval
  BY <1>1, <1>2, <1>3, <1>4
<1>6. ~(k <= q)
  BY <1>1, <1>2, <1>4, <1>5, TimesMonotone
<1>7. q <= k - 1 /\ k - 1 \in Int
  BY <1>2, <1>6
<1>8. q * Interval <= (k - 1) * Interval
  BY <1>1, <1>2, <1>7, TimesMonotone
<1>9. (k - 1) * Interval = n - Interval
  BY <1>1, <1>3
<1> QED
  BY <1>8, <1>9 DEF q, LastTick

(* The interval and the timeout are positive.                              *)
LEMMA PingNumbers ==
  ASSUME Clocks
  PROVE  Interval \in Nat /\ Interval > 0 /\ timeout \in Nat /\ timeout > 0
  BY KeepAliveAssumption DEF Clocks

(* The invariant holds when the connection is set up.                      *)
LEMMA InitPingInv == PingInit => PingInv
<1> SUFFICES ASSUME PingInit PROVE PingInv
  OBVIOUS
<1>1. Clocks
  <2>1. timeout \in Nat /\ Interval \in Nat
    BY KeepAliveAssumption DEF PingInit
  <2>2. deadline \in Nat
    BY <2>1 DEF PingInit, nextDeadline
  <2> QED
    BY <2>1, <2>2 DEF PingInit, Clocks
<1> USE PingNumbers
<1>2. OpenInv
  BY <1>1 DEF PingInit, OpenInv, Running, Ticker, Sending, InFlight, Granted, Uncounted,
         Deadlines, nextDeadline
<1> QED
  BY <1>1, <1>2 DEF PingInv, PingInit

(* Once the connection has ended nothing that a later step does matters:   *)
(* the longest silence only grows.                                         *)
LEMMA EndedKeeps ==
  ASSUME PingInv, Clocks', net # "open", net' = net, slowest' >= slowest,
         UNCHANGED <<timeout, unheard>>
  PROVE  PingInv'
<1>1. LastTick' = LastTick
  BY DEF LastTick
<1>2. LastTick \in Int /\ timeout \in Int /\ slowest \in Int /\ slowest' \in Int
  BY KeepAliveAssumption DEF PingInv, Clocks, LastTick
<1>3. ASSUME net = "cut" PROVE Deserved(unheard)'
  BY <1>1, <1>2, <1>3 DEF PingInv, Deserved
<1> QED
  BY <1>3 DEF PingInv

(* The ticker fires.                                                       *)
LEMMA TickerKeeps == ASSUME PingInv, TickerFires PROVE PingInv'
<1>1. /\ tickAt = now /\ tickAt' = tickAt + Interval /\ tickReady' = TRUE
      /\ UNCHANGED <<now, timeout, pinger, waitUntil, reply, sentAt, deadline, net,
                     pingClosed, lastAnswer, slowest, unheard>>
  BY DEF TickerFires
<1>2. Interval \in Nat /\ Interval > 0 /\ timeout \in Nat /\ timeout > 0 /\ Clocks
  BY PingNumbers DEF PingInv
<1>3. Clocks'
  BY <1>1, <1>2 DEF Clocks
<1>4. CASE net # "open"
  BY <1>1, <1>2, <1>3, <1>4, EndedKeeps DEF Clocks
<1>5. CASE net = "open"
  <2>1. OpenInv
    BY <1>5 DEF PingInv
  <2>2. Running' /\ Ticker' /\ Deadlines'
    BY <1>1, <1>2, <2>1 DEF OpenInv, Running, Ticker, Deadlines, Clocks
  <2>3. ~tickReady
    BY <1>1, <1>2, <2>1 DEF OpenInv, Ticker, Clocks
  <2>4. Sending'
    BY <1>1, <1>2, <2>1, <2>3 DEF OpenInv, Sending, Ticker, Clocks
  <2>5. InFlight'
    <3> SUFFICES ASSUME reply # "none"
                 PROVE  /\ sentAt <= now /\ sentAt <= tickAt' /\ Whole(tickAt' - sentAt)
                        /\ deadline >= sentAt + timeout
                        /\ reply = "flying" => slowest >= now - sentAt
                        /\ reply = "flying" /\ pinger = "select" => now >= sentAt + Interval
      BY <1>1 DEF InFlight, Whole
    <3>1. Whole(tickAt - sentAt) /\ tickAt' - sentAt = (tickAt - sentAt) + Interval
      BY <1>1, <1>2, <2>1 DEF OpenInv, InFlight, Clocks
    <3>2. Whole(tickAt' - sentAt)
      BY <3>1, WholeSteps
    <3> QED
      BY <1>1, <1>2, <2>1, <3>2 DEF OpenInv, InFlight, Clocks
  <2>6. Granted'
    BY <1>1, <1>2, <2>1, <2>3 DEF OpenInv, Granted, Running, Sending, Clocks
  <2>7. Uncounted'
    BY <1>1, <1>2, <2>1, <2>3 DEF OpenInv, Uncounted, Ticker, Clocks
  <2> QED
    BY <1>1, <1>3, <1>5, <2>2, <2>4, <2>5, <2>6, <2>7 DEF PingInv, OpenInv
<1> QED
  BY <1>4, <1>5

(* A deadline that passes shows that the client was silent for long, or    *)
(* that its answer missed the last tick.                                   *)
LEMMA CutIsDeserved ==
  ASSUME Clocks, OpenInv, now >= deadline PROVE Deserved(reply = "ok")
<1>1. Interval \in Nat /\ Interval > 0 /\ timeout \in Nat /\ timeout > 0
  BY PingNumbers
<1>2. reply # "none"
  BY <1>1 DEF Clocks, OpenInv, Running, Ticker, Sending, Granted
<1>3. now >= sentAt + timeout /\ Whole(tickAt - sentAt)
  BY <1>1, <1>2 DEF Clocks, OpenInv, InFlight
<1>4. CASE reply = "flying"
  BY <1>1, <1>3, <1>4 DEF Clocks, OpenInv, InFlight, Deserved
<1>5. CASE reply = "ok" /\ pinger = "wait"
  BY <1>1, <1>3, <1>5 DEF Clocks, OpenInv, Uncounted, Deserved
<1>6. CASE reply = "ok" /\ pinger = "select"
  <2>1. CASE timeout <= Interval
    BY <1>1, <1>6, <2>1 DEF Clocks, OpenInv, Uncounted, Deserved
  <2>2. CASE ~(timeout <= Interval)
    <3>0. LastTick \in Int
      BY <1>1 DEF LastTick
    <3>1. CASE ~tickReady
      <4>1. tickAt - sentAt >= timeout
        BY <1>1, <1>3 DEF Clocks, OpenInv, Ticker
      <4>2. tickAt - sentAt - Interval >= LastTick
        BY <1>1, <1>3, <4>1, LastTickBefore
      <4>3. slowest >= LastTick
        BY <1>1, <1>6, <3>0, <3>1, <4>2 DEF Clocks, OpenInv, Uncounted
      <4> QED
        BY <1>1, <1>6, <2>2, <4>3 DEF Deserved
    <3>2. CASE tickReady
      <4> DEFINE n == tickAt - sentAt - Interval
      <4>1. n >= timeout /\ n \in Int
        BY <1>1, <1>3, <3>2 DEF Clocks, OpenInv, Ticker
      <4>2. Whole(n)
        <5>1. PICK k \in Nat : tickAt - sentAt = k * Interval
          BY <1>3 DEF Whole
        <5>2. n = (k - 1) * Interval
          BY <1>1, <5>1
        <5>3. k # 0
          BY <1>1, <4>1, <5>1
        <5> QED
          BY <5>2, <5>3 DEF Whole
      <4>3. n - Interval >= LastTick
        BY <1>1, <4>1, <4>2, LastTickBefore
      <4>4. slowest >= LastTick
        BY <1>1, <1>6, <3>0, <3>2, <4>3 DEF Clocks, OpenInv, Uncounted
      <4> QED
        BY <1>1, <1>6, <2>2, <4>4 DEF Deserved
    <3> QED
      BY <3>1, <3>2 DEF Clocks
  <2> QED
    BY <2>1, <2>2
<1> QED
  BY <1>2, <1>4, <1>5, <1>6 DEF OpenInv, Running, Sending

-----------------------------------------------------------------------------
(* The client answers.                                                     *)
LEMMA AnswerKeeps == ASSUME PingInv, Answer PROVE PingInv'
<1>1. /\ reply = "flying" /\ net = "open" /\ reply' = "ok" /\ lastAnswer' = now
      /\ UNCHANGED <<now, timeout, tickAt, tickReady, pinger, waitUntil, sentAt,
                     deadline, net, pingClosed, slowest>>
  BY DEF Answer
<1>2. Interval \in Nat /\ Interval > 0 /\ timeout \in Nat /\ timeout > 0 /\ Clocks
      /\ OpenInv
  BY <1>1, PingNumbers DEF PingInv
<1>3. Clocks'
  BY <1>1, <1>2 DEF Clocks
<1>4. Running' /\ Ticker' /\ Sending' /\ Granted'
  BY <1>1, <1>2 DEF OpenInv, Running, Ticker, Sending, Granted
<1>5. InFlight'
  BY <1>1, <1>2 DEF OpenInv, InFlight, Whole
<1>6. Uncounted' /\ Deadlines'
  BY <1>1, <1>2 DEF OpenInv, Clocks, Ticker, InFlight, Uncounted, Deadlines
<1> QED
  BY <1>1, <1>3, <1>4, <1>5, <1>6 DEF PingInv, OpenInv

(* Closes, Cut and CleanUp.                                                *)
LEMMA EndsKeeps == ASSUME PingInv, Cut \/ Closes \/ PingCleanUp PROVE PingInv'
<1>1. UNCHANGED <<now, timeout, tickAt, tickReady, waitUntil, sentAt, deadline,
                  lastAnswer, slowest>>
  BY DEF Cut, Closes, Ends, PingCleanUp
<1>2. Clocks' /\ Clocks
  BY <1>1 DEF PingInv, Clocks
<1>3. LastTick' = LastTick
  BY <1>1 DEF LastTick
<1>4. CASE Cut
  <2>1. net = "open" /\ net' = "cut" /\ now >= deadline /\ unheard' = (reply = "ok")
    BY <1>4 DEF Cut, Ends
  <2>2. Deserved(reply = "ok")
    BY <2>1, CutIsDeserved DEF PingInv
  <2>3. Deserved(unheard)'
    BY <1>1, <1>3, <2>1, <2>2 DEF Deserved
  <2> QED
    BY <1>2, <2>1, <2>3 DEF PingInv
<1>5. CASE Closes
  BY <1>2, <1>5 DEF PingInv, Closes, Ends
<1>6. CASE PingCleanUp
  <2>1. net # "open" /\ net' = net /\ slowest' >= slowest /\ unheard' = unheard
    BY <1>1, <1>2, <1>6 DEF PingCleanUp, Clocks
  <2> QED
    BY <1>1, <1>2, <2>1, EndedKeeps
<1> QED
  BY <1>4, <1>5, <1>6

(* A step of the loop that moves no deadline.                              *)
LEMMA LoopKeeps ==
  ASSUME PingInv, TickSends \/ TickError \/ TickNoAnswer \/ WaitError \/ WaitTimeout
                  \/ LoopClosed
  PROVE  PingInv'
<1>1. /\ UNCHANGED <<now, timeout, tickAt, waitUntil, sentAt, deadline, net,
                     pingClosed, lastAnswer, slowest, unheard>>
      /\ tickReady' \in BOOLEAN
  BY DEF TickSends, TickError, TickNoAnswer, WaitError, WaitTimeout, LoopClosed,
         PingInv, Clocks
<1>2. Interval \in Nat /\ Interval > 0 /\ timeout \in Nat /\ timeout > 0 /\ Clocks
  BY PingNumbers DEF PingInv
<1>3. Clocks'
  BY <1>1, <1>2 DEF Clocks
<1>4. CASE net # "open"
  BY <1>1, <1>2, <1>3, <1>4, EndedKeeps DEF Clocks
<1>5. CASE net = "open"
  <2>1. OpenInv
    BY <1>5 DEF PingInv
  <2>2. TickSends \/ TickNoAnswer \/ WaitTimeout
    BY <2>1 DEF OpenInv, Running, TickError, WaitError, LoopClosed
  <2>3. Deadlines'
    BY <1>1, <2>1 DEF OpenInv, Deadlines
  <2>4. CASE TickSends
    <3>1. /\ pinger = "select" /\ pinger' = "send" /\ tickReady = TRUE
          /\ tickReady' = FALSE /\ reply = "none" /\ reply' = "none"
      BY <1>2, <2>4 DEF TickSends, Clocks
    <3>2. Running' /\ Ticker' /\ Sending' /\ InFlight' /\ Uncounted'
      BY <1>1, <2>1, <3>1 DEF OpenInv, Running, Ticker, Sending, InFlight, Uncounted
    <3>3. Granted'
      BY <1>1, <2>1, <3>1 DEF OpenInv, Granted
    <3> QED
      BY <1>3, <1>1, <1>5, <2>3, <3>2, <3>3 DEF PingInv, OpenInv
  <2>5. CASE TickNoAnswer
    <3>1. /\ pinger = "select" /\ pinger' = "select" /\ reply = "flying"
          /\ reply' = "flying" /\ tickReady' = FALSE
      BY <2>5 DEF TickNoAnswer
    <3>2. Running' /\ Ticker' /\ Sending' /\ Granted' /\ Uncounted'
      BY <1>1, <2>1, <3>1 DEF OpenInv, Running, Ticker, Sending, Granted, Uncounted
    <3>3. InFlight'
      BY <1>1, <2>1, <3>1 DEF OpenInv, InFlight, Whole
    <3> QED
      BY <1>3, <1>1, <1>5, <2>3, <3>2, <3>3 DEF PingInv, OpenInv
  <2>6. CASE WaitTimeout
    <3>1. /\ pinger = "wait" /\ pinger' = "select" /\ reply' = reply
          /\ tickReady' = tickReady /\ now >= waitUntil
      BY <2>6 DEF WaitTimeout
    <3>2. Running' /\ Ticker' /\ Sending' /\ Granted'
      BY <1>1, <2>1, <3>1 DEF OpenInv, Running, Ticker, Sending, Granted
    <3>3. now >= sentAt + Interval
      BY <1>2, <2>1, <3>1 DEF OpenInv, Sending, Clocks
    <3>4. InFlight'
      BY <1>1, <2>1, <3>1, <3>3 DEF OpenInv, InFlight, Whole
    <3>5. Uncounted'
      BY <1>1, <1>2, <2>1, <3>1, <3>3 DEF OpenInv, Uncounted, Clocks
    <3> QED
      BY <1>3, <1>1, <1>5, <2>3, <3>2, <3>4, <3>5 DEF PingInv, OpenInv
  <2> QED
    BY <2>2, <2>4, <2>5, <2>6
<1> QED
  BY <1>4, <1>5

(* A counted answer moves the deadline.                                    *)
LEMMA CountedKeeps ==
  ASSUME PingInv, TickLateAnswer \/ WaitAnswer PROVE PingInv'
<1>1. /\ UNCHANGED <<now, timeout, tickAt, waitUntil, sentAt, net, pingClosed,
                     lastAnswer, slowest, unheard>>
      /\ tickReady' \in BOOLEAN /\ reply = "ok" /\ reply' = "none"
      /\ deadline' = now + Interval + timeout
  BY DEF TickLateAnswer, WaitAnswer, Succeeded, nextDeadline, PingInv, Clocks
<1>2. Interval \in Nat /\ Interval > 0 /\ timeout \in Nat /\ timeout > 0 /\ Clocks
  BY PingNumbers DEF PingInv
<1>3. Clocks'
  BY <1>1, <1>2 DEF Clocks
<1>4. CASE net # "open"
  BY <1>1, <1>2, <1>3, <1>4, EndedKeeps DEF Clocks
<1>5. CASE net = "open"
  <2>1. OpenInv
    BY <1>5 DEF PingInv
  <2>2. Deadlines' /\ InFlight' /\ Uncounted'
    BY <1>1, <1>2, <2>1 DEF OpenInv, Deadlines, Uncounted, InFlight, Clocks
  <2>3. \/ pinger = "select" /\ pinger' = "send" /\ tickReady = TRUE /\ tickReady' = FALSE
        \/ pinger = "wait" /\ pinger' = "select" /\ tickReady' = tickReady
    BY <1>2 DEF TickLateAnswer, WaitAnswer, Clocks
  <2>4. Running' /\ Ticker' /\ Sending'
    BY <1>1, <2>1, <2>3 DEF OpenInv, Running, Ticker, Sending
  <2>5. Granted'
    BY <1>1, <1>2, <2>1, <2>3 DEF OpenInv, Granted, Ticker, Clocks
  <2> QED
    BY <1>1, <1>3, <1>5, <2>2, <2>4, <2>5 DEF PingInv, OpenInv
<1> QED
  BY <1>4, <1>5

(* A ping is sent at a tick.                                               *)
LEMMA SendKeeps == ASSUME PingInv, Send PROVE PingInv'
<1>1. /\ UNCHANGED <<now, timeout, tickAt, tickReady, deadline, net, pingClosed,
                     lastAnswer, slowest, unheard>>
      /\ pinger = "send" /\ pinger' = "wait"
      /\ sentAt' = now /\ waitUntil' = now + Interval
      /\ net = "open" => reply' = "flying"
  BY DEF Send
<1>2. Interval \in Nat /\ Interval > 0 /\ timeout \in Nat /\ timeout > 0 /\ Clocks
  BY PingNumbers DEF PingInv
<1>3. Clocks'
  BY <1>1, <1>2 DEF Clocks
<1>4. CASE net # "open"
  BY <1>1, <1>2, <1>3, <1>4, EndedKeeps DEF Clocks
<1>5. CASE net = "open"
  <2>1. OpenInv /\ reply = "none" /\ ~tickReady /\ tickAt = now + Interval
    BY <1>1, <1>5 DEF PingInv, OpenInv, Sending
  <2>2. Running' /\ Ticker' /\ Granted' /\ Uncounted' /\ Deadlines'
    BY <1>1, <1>5, <2>1 DEF OpenInv, Running, Ticker, Granted, Uncounted, Deadlines
  <2>3. Sending'
    BY <1>1, <1>2, <1>5, <2>1 DEF Sending, Clocks
  <2>4. InFlight'
    <3>1. tickAt' - sentAt' = Interval /\ Whole(Interval)
      BY <1>1, <1>2, <2>1, WholeSteps DEF Clocks
    <3>2. Whole(tickAt' - sentAt')
      BY <3>1
    <3>3. deadline >= now + timeout
      BY <1>1, <2>1 DEF OpenInv, Granted
    <3> QED
      BY <1>1, <1>2, <1>5, <2>1, <3>2, <3>3 DEF InFlight, Clocks, Whole
  <2> QED
    BY <1>1, <1>3, <1>5, <2>2, <2>3, <2>4 DEF PingInv, OpenInv
<1> QED
  BY <1>4, <1>5

(* Time passes only when nothing is due: no tick, no deadline.             *)
LEMMA TimeKeeps == ASSUME PingInv, TimePasses PROVE PingInv'
<1>1. /\ UNCHANGED <<timeout, tickAt, tickReady, pinger, waitUntil, reply, sentAt,
                     deadline, net, pingClosed, lastAnswer, unheard>>
      /\ now' = now + 1 /\ ~SomethingDue
      /\ slowest' = IF reply = "flying" /\ now' - sentAt > slowest
                    THEN now' - sentAt ELSE slowest
  BY DEF TimePasses
<1>2. Interval \in Nat /\ Interval > 0 /\ timeout \in Nat /\ timeout > 0 /\ Clocks
  BY PingNumbers DEF PingInv
<1>3. Clocks' /\ slowest' >= slowest
  BY <1>1, <1>2 DEF Clocks
<1>4. CASE net # "open"
  BY <1>1, <1>2, <1>3, <1>4, EndedKeeps
<1>5. CASE net = "open"
  <2>1. OpenInv
    BY <1>5 DEF PingInv
  <2>2. tickAt # now /\ now < deadline
    BY <1>1, <1>2, <1>5 DEF SomethingDue, Clocks
  <2>3. /\ pinger # "send" /\ (pinger = "select" => ~tickReady)
        /\ pinger = "wait" => now < waitUntil /\ reply = "flying"
    BY <1>1, <1>2, <2>1 DEF SomethingDue, OpenInv, Running, Sending, Clocks
  <2>4. tickReady = FALSE
    BY <1>2, <2>1, <2>3 DEF OpenInv, Running, Sending, Clocks
  <2>5. Running' /\ Ticker' /\ Deadlines'
    BY <1>1, <1>2, <2>1, <2>2, <2>4 DEF OpenInv, Running, Ticker, Deadlines, Clocks
  <2>6. Sending'
    BY <1>1, <1>2, <2>1, <2>3, <2>4 DEF OpenInv, Sending, Clocks
  <2>7. InFlight'
    BY <1>1, <1>2, <2>1, <2>3, <1>3 DEF OpenInv, InFlight, Clocks, Whole
  <2>8. Granted'
    BY <1>1, <1>2, <2>1, <2>3, <2>4 DEF OpenInv, Granted, Running, Clocks
  <2>9. Uncounted'
    BY <1>1, <1>2, <1>3, <2>1, <2>2, <2>3, <2>4 DEF OpenInv, Uncounted, Ticker, Running, Clocks
  <2> QED
    BY <1>1, <1>3, <1>5, <2>5, <2>6, <2>7, <2>8, <2>9 DEF PingInv, OpenInv
<1> QED
  BY <1>4, <1>5

(* Every step keeps the invariant.                                         *)
LEMMA NextPingInv == PingInv /\ [PingNext]_pingVars => PingInv'
<1> SUFFICES ASSUME PingInv, [PingNext]_pingVars PROVE PingInv'
  OBVIOUS
<1>1. CASE PingNext
  BY <1>1, TickerKeeps, AnswerKeeps, EndsKeeps, LoopKeeps, CountedKeeps, SendKeeps,
     TimeKeeps DEF PingNext, LoopStep
<1>2. CASE UNCHANGED pingVars
  BY <1>2 DEF pingVars, PingInv, Clocks, OpenInv, Running, Ticker, Sending, InFlight,
              Whole, Granted, Uncounted, Deadlines, Deserved, LastTick
<1> QED
  BY <1>1, <1>2

PingSpec == PingInit /\ [][PingNext]_pingVars

(* For every ping interval and every timeout: a client that the deadline   *)
(* cuts off left a ping unanswered for the timeout, or, with a timeout     *)
(* longer than the interval, answered after the last tick that counts; and *)
(* one that is silent for two intervals and the timeout is cut off.        *)
THEOREM DeadlineCutsTheSilent == PingSpec => []CutIffSilent
<1>1. ASSUME PingInv PROVE CutIffSilent
  <2>1. Interval \in Nat /\ timeout \in Nat /\ Clocks
    BY <1>1, PingNumbers DEF PingInv
  <2> QED
    BY <1>1, <2>1 DEF PingInv, OpenInv, Deadlines, Clocks, Deserved, CutIffSilent
<1> QED
  BY <1>1, InitPingInv, NextPingInv, PTL DEF PingSpec
=============================================================================
