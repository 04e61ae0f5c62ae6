----------------------------- MODULE KeepAlive ------------------------------
(***************************************************************************)
(* The ping loop of handleConn: a keepalive request per tick of a ticker,  *)
(* at most one of them unanswered, and a deadline on the connection that   *)
(* only a counted answer moves.  Time is discrete; a goroutine that can    *)
(* run does so before time passes, and what falls due at one instant comes *)
(* in any order.                                                           *)
(*                                                                         *)
(* lastAnswer, slowest and unheard are history variables: when the client  *)
(* answered last, the longest it ever took, and whether an answer that had *)
(* arrived was still uncounted when the deadline cut the connection.       *)
(***************************************************************************)
EXTENDS Integers, Sequences, SequencesExt

CONSTANTS
  Interval,      \* ping-client-interval
  Timeouts,      \* the values of ping-client-timeout to consider
  MaxTime        \* bound: the clock stops

ASSUME KeepAliveAssumption ==
  /\ Interval \in Nat \ {0} /\ MaxTime \in Nat
  /\ Timeouts \subseteq Nat \ {0}

VARIABLES
  now, timeout,
  tickAt,        \* when the ticker fires next
  tickReady,     \* is a tick in its channel?
  pinger,        \* the ping goroutine
  waitUntil,     \* its time.After
  reply,         \* the channel of the one request in flight
  sentAt,        \* when that request was sent
  deadline,      \* conn.SetDeadline, PingDeadlineNs
  net,           \* the network connection
  pingClosed,       \* has CleanUp closed the Close channel?
  sent, fail,    \* PingSentTotal, PingFailTotal
  lastOk, lastFail, \* LastPingOkAtNs, LastPingFailAtNs
  windows,       \* PingFailWindows
  pingRows,          \* ClosedPingRows
  lastAnswer, slowest, unheard

pingVars == <<now, timeout, tickAt, tickReady, pinger, waitUntil, reply, sentAt,
          deadline, net, pingClosed, sent, fail, lastOk, lastFail, windows, pingRows,
          lastAnswer, slowest, unheard>>

Never == -1

(* Of a fail window: how many failures, and how it ended.                  *)
Window == [count : Nat, ended : {"no", "recovered", "closed"}]

PingTypeOK ==
  /\ now \in 0 .. MaxTime /\ timeout \in Timeouts
  /\ tickAt \in Nat /\ tickReady \in BOOLEAN
  /\ pinger \in {"select", "send", "wait", "done"}
  /\ waitUntil \in Nat /\ sentAt \in Nat /\ deadline \in Nat
  /\ reply \in {"none", "flying", "ok", "err"}
  /\ net \in {"open", "cut", "closed"} /\ pingClosed \in BOOLEAN
  /\ sent \in Nat /\ fail \in Nat
  /\ lastOk \in Nat \cup {Never} /\ lastFail \in Nat \cup {Never}
  /\ windows \in Seq(Window) /\ pingRows \in Seq(Seq(Window))
  /\ lastAnswer \in Nat /\ slowest \in Nat /\ unheard \in BOOLEAN

nextDeadline(from) == from + Interval + timeout

PingInit ==
  /\ now = 0 /\ timeout \in Timeouts
  /\ tickAt = Interval /\ tickReady = FALSE
  /\ pinger = "select" /\ waitUntil = 0 /\ reply = "none" /\ sentAt = 0
  /\ deadline = nextDeadline(0)
  /\ net = "open" /\ pingClosed = FALSE
  /\ sent = 0 /\ fail = 0 /\ lastOk = Never /\ lastFail = Never
  /\ windows = <<>> /\ pingRows = <<>>
  /\ lastAnswer = 0 /\ slowest = 0 /\ unheard = FALSE

-----------------------------------------------------------------------------
(* RecordPingFail, RecordPingRecovery and CloseOpenFailWindow.             *)
WindowOpen(w) == w # <<>> /\ Last(w).ended # "recovered"

RecordPingFail(w) ==
  IF WindowOpen(w) THEN [w EXCEPT ![Len(w)].count = @ + 1]
             ELSE Append(w, [count |-> 1, ended |-> "no"])

RecordPingRecovery(w) ==
  IF WindowOpen(w) THEN [w EXCEPT ![Len(w)].ended = "recovered"] ELSE w

CloseOpenFailWindow(w) ==
  IF WindowOpen(w) THEN [w EXCEPT ![Len(w)].ended = "closed"] ELSE w

Failed ==
  /\ fail' = fail + 1 /\ lastFail' = now
  /\ windows' = RecordPingFail(windows)
  /\ UNCHANGED lastOk

Succeeded ==
  /\ lastOk' = now /\ deadline' = nextDeadline(now)
  /\ windows' = RecordPingRecovery(windows)
  /\ UNCHANGED <<fail, lastFail>>

-----------------------------------------------------------------------------
(* Time and the outside world.                                             *)
TickerFires ==
  /\ tickAt = now /\ tickAt' = now + Interval /\ tickReady' = TRUE
  /\ UNCHANGED <<now, timeout, pinger, waitUntil, reply, sentAt, deadline, net,
                 pingClosed, sent, fail, lastOk, lastFail, windows, pingRows,
                 lastAnswer, slowest, unheard>>

(* The client answers the request in flight.                               *)
Answer ==
  /\ reply = "flying" /\ net = "open"
  /\ reply' = "ok" /\ lastAnswer' = now
  /\ UNCHANGED <<now, timeout, tickAt, tickReady, pinger, waitUntil, sentAt,
                 deadline, net, pingClosed, sent, fail, lastOk, lastFail, windows,
                 pingRows, slowest, unheard>>

(* The connection ends: its deadline passes ("cut") or someone closes it.  *)
(* A SendRequest in flight then returns an error.                          *)
Ends(how) ==
  /\ net = "open"
  /\ net' = how
  /\ reply' = IF reply = "flying" THEN "err" ELSE reply
  /\ UNCHANGED <<now, timeout, tickAt, tickReady, pinger, waitUntil, sentAt,
                 deadline, pingClosed, sent, fail, lastOk, lastFail, windows,
                 pingRows, lastAnswer, slowest>>

Cut == now >= deadline /\ Ends("cut") /\ unheard' = (reply = "ok")

Closes == Ends("closed") /\ UNCHANGED unheard

(* sshConn.Wait returns; CleanUp files the final row (if a ping was sent)  *)
(* and closes the Close channel.                                           *)
AddClosedPingRow ==
  IF sent = 0
  THEN UNCHANGED <<windows, pingRows>>
  ELSE LET closed == CloseOpenFailWindow(windows)
       IN  windows' = closed /\ pingRows' = Append(pingRows, closed)

PingCleanUp ==
  /\ net # "open" /\ ~pingClosed
  /\ AddClosedPingRow
  /\ pingClosed' = TRUE
  /\ UNCHANGED <<now, timeout, tickAt, tickReady, pinger, waitUntil, reply,
                 sentAt, deadline, net, sent, fail, lastOk, lastFail,
                 lastAnswer, slowest, unheard>>

-----------------------------------------------------------------------------
(* The loop takes a tick: an answer to the earlier request is counted now, *)
(* an error ends the loop, no answer is one more failure.                  *)
TickSends ==
  /\ pinger = "select" /\ tickReady /\ reply = "none"
  /\ tickReady' = FALSE /\ pinger' = "send"
  /\ UNCHANGED <<now, timeout, tickAt, waitUntil, reply, sentAt, deadline, net,
                 pingClosed, sent, fail, lastOk, lastFail, windows, pingRows,
                 lastAnswer, slowest, unheard>>

TickLateAnswer ==
  /\ pinger = "select" /\ tickReady /\ reply = "ok"
  /\ tickReady' = FALSE /\ pinger' = "send" /\ reply' = "none"
  /\ Succeeded
  /\ UNCHANGED <<now, timeout, tickAt, waitUntil, sentAt, net, pingClosed, sent,
                 pingRows, lastAnswer, slowest, unheard>>

TickError ==
  /\ pinger = "select" /\ tickReady /\ reply = "err"
  /\ tickReady' = FALSE /\ pinger' = "done" /\ reply' = "none"
  /\ Failed
  /\ UNCHANGED <<now, timeout, tickAt, waitUntil, sentAt, deadline, net,
                 pingClosed, sent, pingRows, lastAnswer, slowest, unheard>>

TickNoAnswer ==
  /\ pinger = "select" /\ tickReady /\ reply = "flying"
  /\ tickReady' = FALSE
  /\ sent' = sent + 1
  /\ Failed
  /\ UNCHANGED <<now, timeout, tickAt, pinger, waitUntil, reply, sentAt,
                 deadline, net, pingClosed, pingRows, lastAnswer, slowest, unheard>>

(* A new request; on a dead connection it fails at once.                   *)
Send ==
  /\ pinger = "send"
  /\ sent' = sent + 1
  /\ sentAt' = now /\ waitUntil' = now + Interval
  /\ reply' = IF net = "open" THEN "flying" ELSE "err"
  /\ pinger' = "wait"
  /\ UNCHANGED <<now, timeout, tickAt, tickReady, deadline, net, pingClosed, fail,
                 lastOk, lastFail, windows, pingRows, lastAnswer, slowest, unheard>>

(* The wait for the answer: it comes, it is an error, an interval passes.  *)
WaitAnswer ==
  /\ pinger = "wait" /\ reply = "ok"
  /\ pinger' = "select" /\ reply' = "none"
  /\ Succeeded
  /\ UNCHANGED <<now, timeout, tickAt, tickReady, waitUntil, sentAt, net,
                 pingClosed, sent, pingRows, lastAnswer, slowest, unheard>>

WaitError ==
  /\ pinger = "wait" /\ reply = "err"
  /\ pinger' = "done" /\ reply' = "none"
  /\ Failed
  /\ UNCHANGED <<now, timeout, tickAt, tickReady, waitUntil, sentAt, deadline,
                 net, pingClosed, sent, pingRows, lastAnswer, slowest, unheard>>

(* A mutant: the request that was not answered is forgotten.               *)
WaitTimeoutForgets ==
  /\ pinger = "wait" /\ now >= waitUntil
  /\ pinger' = "select" /\ reply' = "none"
  /\ Failed
  /\ UNCHANGED <<now, timeout, tickAt, tickReady, waitUntil, sentAt,
                 deadline, net, pingClosed, sent, pingRows, lastAnswer, slowest, unheard>>

WaitTimeout ==
  /\ pinger = "wait" /\ now >= waitUntil
  /\ pinger' = "select"
  /\ Failed
  /\ UNCHANGED <<now, timeout, tickAt, tickReady, waitUntil, reply, sentAt,
                 deadline, net, pingClosed, sent, pingRows, lastAnswer, slowest, unheard>>

LoopClosed ==
  /\ pinger \in {"select", "wait"} /\ pingClosed
  /\ pinger' = "done"
  /\ UNCHANGED <<now, timeout, tickAt, tickReady, waitUntil, reply, sentAt,
                 deadline, net, pingClosed, sent, fail, lastOk, lastFail, windows,
                 pingRows, lastAnswer, slowest, unheard>>

LoopStep ==
  \/ TickSends \/ TickLateAnswer \/ TickError \/ TickNoAnswer \/ Send
  \/ WaitAnswer \/ WaitError \/ WaitTimeout \/ LoopClosed

-----------------------------------------------------------------------------
(* Time passes when nothing is due.                                        *)
SomethingDue ==
  \/ tickAt = now
  \/ net = "open" /\ now >= deadline
  \/ net # "open" /\ ~pingClosed
  \/ pinger = "select" /\ (tickReady \/ pingClosed)
  \/ pinger = "send"
  \/ pinger = "wait" /\ (reply \in {"ok", "err"} \/ now >= waitUntil \/ pingClosed)

TimePasses ==
  /\ ~SomethingDue /\ now < MaxTime /\ pinger # "done"
  /\ now' = now + 1
  /\ slowest' = IF reply = "flying" /\ now' - sentAt > slowest
                THEN now' - sentAt ELSE slowest
  /\ UNCHANGED <<timeout, tickAt, tickReady, pinger, waitUntil, reply, sentAt,
                 deadline, net, pingClosed, sent, fail, lastOk, lastFail, windows,
                 pingRows, lastAnswer, unheard>>

PingNext ==
  \/ TickerFires \/ Answer \/ Cut \/ Closes \/ PingCleanUp \/ LoopStep
  \/ TimePasses

-----------------------------------------------------------------------------
(* The last tick before the deadline, from the request on: a later answer  *)
(* than that is counted by nobody.                                         *)
LastTick == ((timeout - 1) \div Interval) * Interval

(* The deadline of the ping loop cuts off the silent and nobody else. A    *)
(* client that is cut off left a ping unanswered for the timeout, except   *)
(* that with a timeout longer than the interval an answer may have come    *)
(* after the last tick that could count it. And one that stopped answering *)
(* is cut off within two intervals and the timeout, late answers included. *)
CutIffSilent ==
  /\ net = "cut" =>
       \/ slowest >= timeout
       \/ unheard /\ timeout > Interval /\ slowest >= LastTick
  /\ net = "open" => now <= lastAnswer + 2 * Interval + timeout

(* What the flag promises, "Duration to wait for activity before closing a *)
(* connection after sending a ping to a client", and the comment on the    *)
(* deadline, "plus the timeout to answer it": who is cut off left a ping   *)
(* unanswered for the timeout.                                             *)
FullTimeout == net = "cut" => slowest >= timeout
=============================================================================
