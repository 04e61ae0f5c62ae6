------------------------------- MODULE SSHMux -------------------------------
(***************************************************************************)
(* The port that HTTPS and SSH share (ssh-over-https) and the SNI proxy    *)
(* behind it (sni-proxy-https):                                            *)
(*                                                                         *)
(*   dispatch --slots--> classify --ssh---> accept loop of sshmuxer        *)
(*                           |                                             *)
(*                           +-----other--> proxyListener.acceptLoop       *)
(*                                            --slots--> route --> backend *)
(*                                                         |               *)
(*                                                         +-ready-> HTTPS *)
(*                                                                   server*)
(* at[p] is the place of connection p in this pipeline.  Both stages sniff *)
(* the first bytes on a goroutine that holds a slot and gives up after ten *)
(* seconds.  The sub-listeners hand connections over on unbuffered         *)
(* channels, so a hand-over is one step of the two sides.                  *)
(***************************************************************************)
EXTENDS Naturals, FiniteSets

CONSTANTS
  Peer,          \* the connections that arrive
  Blocked,       \* those whose address the IP filter blocks
  MuxSlots,      \* muxHandshakeConcurrency
  SniSlots,      \* sniHandshakeConcurrency
  BackoffMax,    \* acceptBackoffMax, in units of acceptBackoffMin
  MaxErrors      \* bound: transient errors of the shared listener

ASSUME MuxAssumption ==
  /\ MuxSlots \in Nat \ {0} /\ SniSlots \in Nat \ {0}
  /\ BackoffMax \in Nat \ {0} /\ MaxErrors \in Nat
  /\ IsFiniteSet(Peer) /\ Blocked \subseteq Peer

VARIABLES
  at,         \* where a connection is
  says,       \* what it sends first
  closing,    \* how far sharedMuxConnListener.Close has come
  dispatcher, \* the goroutine of dispatch
  backoff,    \* its AcceptBackoff
  errors,     \* transient errors so far
  slots,      \* tokens in sshMuxListener.slots
  sshLoop,    \* the accept loop of sshmuxer.Start
  sniLoop,    \* proxyListener.acceptLoop
  sniSlots,   \* tokens in proxyListener.slots
  inFlight,   \* the wait group of acceptLoop
  ready,      \* is proxyListener.ready open?
  alive       \* does the process run?

muxVars == <<at, says, closing, dispatcher, backoff, errors, slots, sshLoop,
             sniLoop, sniSlots, inFlight, ready, alive>>

(* What a client may send first: an SSH banner, a ClientHello with the name*)
(* of a backend, any other ClientHello or plain bytes, less than the SNI   *)
(* stage needs, or less than four bytes.                                   *)
Hello == {"ssh", "sni", "local", "stall", "mute"}

Places == {"out", "backlog", "held", "peek", "offer", "ssh", "heldSni",
           "hello", "local", "served", "backend", "closed"}

Settled(p) == at[p] \in {"ssh", "served", "backend", "closed"}

(* closed(ssh) or closed(other): what the goroutines of the mux select on. *)
SubClosed == closing \in {"ssh", "done"}

OtherClosed == closing = "done"

MuxTypeOK ==
  /\ at \in [Peer -> Places]
  /\ says \in [Peer -> Hello]
  /\ closing \in {"open", "base", "ssh", "done"}
  /\ dispatcher \in {"accept", "slot", "sleep", "stopped"}
  /\ backoff \in 0 .. BackoffMax /\ errors \in 0 .. MaxErrors
  /\ slots \in 0 .. MuxSlots /\ sniSlots \in 0 .. SniSlots
  /\ sshLoop \in {"accept", "stopped"}
  /\ sniLoop \in {"accept", "slot", "wait", "stopped"}
  /\ inFlight \in 0 .. Cardinality(Peer)
  /\ ready \in BOOLEAN /\ alive \in BOOLEAN

MuxInit ==
  /\ at = [p \in Peer |-> "out"]
  /\ says = [p \in Peer |-> "mute"]
  /\ closing = "open"
  /\ dispatcher = "accept" /\ backoff = 0 /\ errors = 0 /\ slots = 0
  /\ sshLoop = "accept"
  /\ sniLoop = "accept" /\ sniSlots = 0 /\ inFlight = 0 /\ ready = TRUE
  /\ alive = TRUE

Move(p, place) == at' = [at EXCEPT ![p] = place]

-----------------------------------------------------------------------------
(* The environment: a client connects.                                     *)
Arrive(p) ==
  /\ at[p] = "out" /\ closing = "open"
  /\ Move(p, "backlog")
  /\ \E h \in Hello : says' = [says EXCEPT ![p] = h]
  /\ UNCHANGED <<closing, dispatcher, backoff, errors, slots, sshLoop,
                 sniLoop, sniSlots, inFlight, ready, alive>>

(* Close of one of the two listeners, under one sync.Once: the base        *)
(* listener, then ssh.closed, then other.closed.                           *)
CloseStep ==
  /\ closing # "done"
  /\ closing' = CASE closing = "open" -> "base"
                  [] closing = "base" -> "ssh"
                  [] closing = "ssh"  -> "done"
  /\ UNCHANGED <<at, says, dispatcher, backoff, errors, slots, sshLoop,
                 sniLoop, sniSlots, inFlight, ready, alive>>

-----------------------------------------------------------------------------
(* dispatch: accept, back off after a transient error, stop on a closed    *)
(* listener.  close.Do waits for a Close under way.                        *)
DispatchAccept(p) ==
  /\ dispatcher = "accept" /\ at[p] = "backlog" /\ closing = "open"
  /\ Move(p, "held")
  /\ dispatcher' = "slot" /\ backoff' = 0
  /\ UNCHANGED <<says, closing, errors, slots, sshLoop, sniLoop, sniSlots,
                 inFlight, ready, alive>>

Pause ==
  LET next == IF backoff = 0 THEN 1 ELSE 2 * backoff
  IN  IF next > BackoffMax THEN BackoffMax ELSE next

AcceptError ==
  /\ dispatcher = "accept" /\ errors < MaxErrors
  /\ errors' = errors + 1
  /\ backoff' = Pause /\ dispatcher' = "sleep"
  /\ UNCHANGED <<at, says, closing, slots, sshLoop, sniLoop, sniSlots,
                 inFlight, ready, alive>>

Slept ==
  /\ dispatcher = "sleep" /\ dispatcher' = "accept"
  /\ UNCHANGED <<at, says, closing, backoff, errors, slots, sshLoop, sniLoop,
                 sniSlots, inFlight, ready, alive>>

DispatchClosed ==
  /\ dispatcher = "accept" /\ closing = "done"
  /\ dispatcher' = "stopped"
  /\ UNCHANGED <<at, says, closing, backoff, errors, slots, sshLoop, sniLoop,
                 sniSlots, inFlight, ready, alive>>

TakeSlot(p) ==
  /\ dispatcher = "slot" /\ at[p] = "held" /\ slots < MuxSlots
  /\ slots' = slots + 1
  /\ Move(p, "peek")
  /\ dispatcher' = "accept"
  /\ UNCHANGED <<says, closing, backoff, errors, sshLoop, sniLoop, sniSlots,
                 inFlight, ready, alive>>

HeldClosed(p) ==
  /\ dispatcher = "slot" /\ at[p] = "held" /\ SubClosed
  /\ Move(p, "closed")
  /\ dispatcher' = "stopped"
  /\ UNCHANGED <<says, closing, backoff, errors, slots, sshLoop, sniLoop,
                 sniSlots, inFlight, ready, alive>>

-----------------------------------------------------------------------------
(* classify: the peek succeeds, or fails at the deadline or with the       *)
(* connection; then hand over or give up.  The deferred receive returns    *)
(* the slot on every path.                                                 *)
Peek(p) ==
  /\ at[p] = "peek" /\ says[p] # "mute"
  /\ Move(p, "offer")
  /\ UNCHANGED <<says, closing, dispatcher, backoff, errors, slots, sshLoop,
                 sniLoop, sniSlots, inFlight, ready, alive>>

(* A mutant: the failed peek keeps its slot.                               *)
PeekFailsLeak(p) ==
  /\ at[p] = "peek"
  /\ Move(p, "closed")
  /\ UNCHANGED <<says, closing, dispatcher, backoff, errors, slots, sshLoop,
                 sniLoop, sniSlots, inFlight, ready, alive>>

PeekFails(p) ==
  /\ at[p] = "peek"
  /\ Move(p, "closed")
  /\ slots' = slots - 1
  /\ UNCHANGED <<says, closing, dispatcher, backoff, errors, sshLoop, sniLoop,
                 sniSlots, inFlight, ready, alive>>

OfferClosed(p) ==
  /\ at[p] = "offer" /\ SubClosed
  /\ Move(p, "closed")
  /\ slots' = slots - 1
  /\ UNCHANGED <<says, closing, dispatcher, backoff, errors, sshLoop, sniLoop,
                 sniSlots, inFlight, ready, alive>>

(* muxConnListener.Accept of the SSH side, and its error when closed.  A   *)
(* connection that is offered then may still be taken.                     *)
AcceptSSH(p) ==
  /\ at[p] = "offer" /\ says[p] = "ssh" /\ sshLoop = "accept"
  /\ Move(p, "ssh")
  /\ slots' = slots - 1
  /\ UNCHANGED <<says, closing, dispatcher, backoff, errors, sshLoop, sniLoop,
                 sniSlots, inFlight, ready, alive>>

SSHLoopClosed ==
  /\ sshLoop = "accept" /\ SubClosed
  /\ sshLoop' = "stopped"
  /\ UNCHANGED <<at, says, closing, dispatcher, backoff, errors, slots,
                 sniLoop, sniSlots, inFlight, ready, alive>>

-----------------------------------------------------------------------------
(* proxyListener.acceptLoop: a blocked address is closed at once, anything *)
(* else waits for a slot; a closed listener ends the loop, which waits for *)
(* the connections in flight before it closes ready.                       *)
AcceptOther(p) ==
  /\ at[p] = "offer" /\ says[p] # "ssh" /\ sniLoop = "accept"
  /\ slots' = slots - 1
  /\ IF p \in Blocked
     THEN Move(p, "closed") /\ UNCHANGED sniLoop
     ELSE Move(p, "heldSni") /\ sniLoop' = "slot"
  /\ UNCHANGED <<says, closing, dispatcher, backoff, errors, sshLoop,
                 sniSlots, inFlight, ready, alive>>

TakeSniSlot(p) ==
  /\ sniLoop = "slot" /\ at[p] = "heldSni" /\ sniSlots < SniSlots
  /\ sniSlots' = sniSlots + 1 /\ inFlight' = inFlight + 1
  /\ Move(p, "hello")
  /\ sniLoop' = "accept"
  /\ UNCHANGED <<says, closing, dispatcher, backoff, errors, slots, sshLoop,
                 ready, alive>>

SniLoopClosed ==
  /\ sniLoop = "accept" /\ OtherClosed
  /\ sniLoop' = "wait"
  /\ UNCHANGED <<at, says, closing, dispatcher, backoff, errors, slots,
                 sshLoop, sniSlots, inFlight, ready, alive>>

(* A mutant: the loop closes ready without waiting for the routes.         *)
CloseReadyNow ==
  /\ sniLoop = "wait"
  /\ sniLoop' = "stopped" /\ ready' = FALSE
  /\ UNCHANGED <<at, says, closing, dispatcher, backoff, errors, slots,
                 sshLoop, sniSlots, inFlight, alive>>

CloseReady ==
  /\ sniLoop = "wait" /\ inFlight = 0
  /\ sniLoop' = "stopped" /\ ready' = FALSE
  /\ UNCHANGED <<at, says, closing, dispatcher, backoff, errors, slots,
                 sshLoop, sniSlots, inFlight, alive>>

(* A route goroutine ends: its deferred calls give back slot and count.    *)
RouteDone(p, place) ==
  /\ Move(p, place)
  /\ sniSlots' = sniSlots - 1 /\ inFlight' = inFlight - 1
  /\ UNCHANGED <<says, closing, dispatcher, backoff, errors, slots, sshLoop,
                 sniLoop, ready, alive>>

(* route: a known name goes to its backend, or is closed when the balancer *)
(* is empty or the dial fails; everything else, a hello that did not come  *)
(* in time included, is for the local server.                              *)
RouteBackend(p) ==
  /\ at[p] = "hello" /\ says[p] = "sni"
  /\ \E place \in {"backend", "closed"} : RouteDone(p, place)

RouteLocal(p) ==
  /\ at[p] = "hello"
  /\ Move(p, "local")
  /\ UNCHANGED <<says, closing, dispatcher, backoff, errors, slots, sshLoop,
                 sniLoop, sniSlots, inFlight, ready, alive>>

(* deliverLocal: Accept takes the connection.  The send on a closed        *)
(* channel that it recovers from never happens: ReadyClosedLast.           *)
AcceptLocal(p) ==
  /\ at[p] = "local" /\ ready
  /\ RouteDone(p, "served")

(* Accept returns net.ErrClosed, ServeTLS returns it and log.Fatal exits.  *)
ServeTLSReturns ==
  /\ ~ready /\ alive' = FALSE
  /\ UNCHANGED <<at, says, closing, dispatcher, backoff, errors, slots,
                 sshLoop, sniLoop, sniSlots, inFlight, ready>>

-----------------------------------------------------------------------------
MuxPeerStep(p) ==
  \/ DispatchAccept(p) \/ TakeSlot(p) \/ HeldClosed(p)
  \/ Peek(p) \/ PeekFails(p) \/ OfferClosed(p) \/ AcceptSSH(p)
  \/ AcceptOther(p) \/ TakeSniSlot(p) \/ RouteBackend(p) \/ RouteLocal(p)
  \/ AcceptLocal(p)

MuxLoopStep ==
  \/ Slept \/ DispatchClosed \/ SSHLoopClosed \/ SniLoopClosed \/ CloseReady
  \/ ServeTLSReturns

MuxNext ==
  /\ alive
  /\ \/ \E p \in Peer : Arrive(p) \/ MuxPeerStep(p)
     \/ CloseStep \/ AcceptError \/ MuxLoopStep

(* Every goroutine runs and every deadline fires; the accept loops are     *)
(* fair to each connection that waits (a kernel queue and Go channels are  *)
(* first in, first out).  Nothing obliges clients to send, nor listeners   *)
(* to be closed; a Close that has begun goes on.                           *)
Served(p) ==
  \/ DispatchAccept(p) \/ TakeSlot(p) \/ HeldClosed(p) \/ PeekFails(p)
  \/ AcceptSSH(p) \/ AcceptOther(p) \/ OfferClosed(p) \/ TakeSniSlot(p)
  \/ RouteLocal(p) \/ AcceptLocal(p)

MuxFairness ==
  /\ \A p \in Peer : SF_muxVars(alive /\ Served(p))
  /\ WF_muxVars(alive /\ (MuxLoopStep \/ (closing # "open" /\ CloseStep)))

-----------------------------------------------------------------------------
(* The channel of the SNI stage is closed only after the port was closed,  *)
(* whatever errors Accept returned, and only when no route goroutine is    *)
(* left that could send on it: a send would panic, and the closed channel  *)
(* ends the process through ServeTLS (B57).                                *)
ReadyClosedLast ==
  ~ready => closing = "done" /\ \A p \in Peer : at[p] \notin {"hello", "local"}

(* Silent clients delay nobody for ever: a connection that arrives reaches *)
(* a server or is closed, unless the port is closed before it is accepted  *)
(* or the process exits.                                                   *)
ArrivalsSettle ==
  \A p \in Peer :
    at[p] = "backlog" ~>
      (Settled(p) \/ (at[p] = "backlog" /\ closing # "open") \/ ~alive)
=============================================================================
