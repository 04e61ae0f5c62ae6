------------------------------ MODULE Session -------------------------------
(***************************************************************************)
(* One SSH connection from the accepted socket to the end of CleanUp: the  *)
(* handshake and the timer that closes clients which never log in, the     *)
(* session channel with its requests, the queue of console messages and    *)
(* who drains it, the loop that enforces deadline, auto-close and          *)
(* cleanup-unbound, and the handler of a forward request as far as it      *)
(* meets these.                                                            *)
(*                                                                         *)
(* A goroutine inside SendMessage(.., true) is at a "say" point: it leaves *)
(* when the queue has room or the Close channel is closed.  The forward    *)
(* itself is the subject of ForwardLifecycle.                              *)
(***************************************************************************)
EXTENDS Naturals, Sequences

CONSTANTS
  MessageQueueSize,     \* messageQueueSize
  Execs,         \* the option lists an exec request may carry
  CleanupUnbound,\* cleanup-unbound
  MaxRequests    \* bound: requests on the session channel

(* Connection options by what they do here; "bad" is any invalid one.      *)
Option == {"deadline", "auto-close", "local-forward", "other", "bad"}

ASSUME SessionAssumption ==
  /\ MessageQueueSize \in Nat \ {0} /\ MaxRequests \in Nat
  /\ CleanupUnbound \in BOOLEAN
  /\ Execs \subseteq Seq(Option)

VARIABLES
  login,       \* handleConn up to state.SSHConnections.Store
  tcp,         \* is the network connection open?
  unauthTimer, \* cleanup-unauthed
  registered,  \* in state.SSHConnections
  messages,    \* length of the Messages channel
  session,     \* the session channel
  reader,      \* the goroutine that writes messages to the session
  requester,   \* the goroutine that serves the session's requests
  options,     \* what is left of the exec request under way
  requests,    \* session requests so far
  due,         \* the deadline option
  autoClose,   \* the auto-close option
  localFwd,    \* the local-forward option
  keeper,      \* the loop over ticks of one second
  forward,     \* the handler of a tcpip-forward request
  checker,     \* checkSession
  cleanup,     \* progress of CleanUp
  closeCh      \* is the Close channel closed?

sesVars == <<login, tcp, unauthTimer, registered, messages, session, reader,
             requester, options, requests, due, autoClose, localFwd, keeper,
             forward, checker, cleanup, closeCh>>

optVars == <<options, requests, due, autoClose, localFwd>>

SesTypeOK ==
  /\ login \in {"idle", "handshake", "authed", "up", "refused"}
  /\ tcp \in BOOLEAN /\ unauthTimer \in BOOLEAN /\ registered \in BOOLEAN
  /\ messages \in 0 .. MessageQueueSize
  /\ session \in {"none", "welcome", "open"}
  /\ reader \in {"off", "idle", "writing", "done"}
  /\ requester \in {"off", "idle", "apply", "say", "sayBad", "done"}
  /\ options \in Seq(Option)
  /\ requests \in 0 .. MaxRequests
  /\ autoClose \in BOOLEAN /\ localFwd \in BOOLEAN
  /\ due \in {"none", "ahead", "past"}
  /\ keeper \in {"off", "exec", "tick", "sayDeadline", "sayUnbound",
                 "deadline", "unbound", "done"}
  /\ forward \in {"none", "wait", "setup", "sayDenied", "denied", "bound",
                  "gone"}
  /\ checker \in {"off", "wait", "drain", "done"}
  /\ cleanup \in {"no", "forwards", "close", "conn", "done"}
  /\ closeCh \in BOOLEAN

SesInit ==
  /\ login = "idle" /\ tcp = TRUE /\ unauthTimer = TRUE
  /\ registered = FALSE /\ messages = 0 /\ session = "none" /\ reader = "off"
  /\ requester = "off" /\ options = <<>> /\ requests = 0
  /\ due = "none" /\ autoClose = FALSE /\ localFwd = FALSE /\ keeper = "off"
  /\ forward = "none" /\ checker = "off"
  /\ cleanup = "no" /\ closeCh = FALSE

-----------------------------------------------------------------------------
(* SendMessage(.., true) and TrySendMessage.                               *)
Say ==
  \/ messages < MessageQueueSize /\ messages' = messages + 1
  \/ closeCh /\ UNCHANGED messages

(* SetCloseInfo (the reasons are not told apart) and CleanUp, which runs   *)
(* once.                                                                   *)
BeginCleanUp == cleanup' = IF cleanup = "no" THEN "forwards" ELSE cleanup

-----------------------------------------------------------------------------
(* handleConn.  The timer of cleanup-unauthed closes the socket of a       *)
(* client whose login is not yet recorded, even if the handshake is over;  *)
(* afterwards it changes nothing.                                          *)
AcceptConn ==
  /\ login = "idle" /\ login' = "handshake"
  /\ UNCHANGED <<tcp, unauthTimer, registered, messages, session, reader,
                 requester, optVars, keeper, forward, checker, cleanup,
                 closeCh>>

Handshake ==
  /\ login = "handshake" /\ tcp /\ login' = "authed"
  /\ UNCHANGED <<tcp, unauthTimer, registered, messages, session, reader,
                 requester, optVars, keeper, forward, checker, cleanup,
                 closeCh>>

HandshakeFails ==
  /\ login = "handshake" /\ login' = "refused" /\ tcp' = FALSE
  /\ UNCHANGED <<unauthTimer, registered, messages, session, reader,
                 requester, optVars, keeper, forward, checker, cleanup,
                 closeCh>>

UnauthTimer ==
  /\ login \in {"handshake", "authed"} /\ unauthTimer
  /\ unauthTimer' = FALSE /\ tcp' = FALSE
  /\ UNCHANGED <<login, registered, messages, session, reader, requester,
                 optVars, keeper, forward, checker, cleanup, closeCh>>

LoggedIn ==
  /\ login = "authed" /\ login' = "up"
  /\ registered' = TRUE /\ keeper' = "exec"
  /\ UNCHANGED <<tcp, unauthTimer, messages, session, reader, requester,
                 optVars, forward, checker, cleanup, closeCh>>

(* The client drops the connection, or a ping deadline passes.             *)
Disconnect ==
  /\ login # "idle" /\ tcp /\ tcp' = FALSE
  /\ UNCHANGED <<login, unauthTimer, registered, messages, session, reader,
                 requester, optVars, keeper, forward, checker, cleanup,
                 closeCh>>

(* A mutant: with a session its reader is left to notice the end.          *)
WaitReturnsNoSession ==
  /\ login = "up" /\ ~tcp /\ ~closeCh /\ cleanup = "no" /\ session = "none"
  /\ BeginCleanUp
  /\ UNCHANGED <<login, tcp, unauthTimer, registered, messages, session, reader,
                 requester, optVars, keeper, forward, checker, closeCh>>

(* The goroutine behind sshConn.Wait.                                      *)
WaitReturns ==
  /\ login = "up" /\ ~tcp /\ ~closeCh /\ cleanup = "no"
  /\ BeginCleanUp
  /\ UNCHANGED <<login, tcp, unauthTimer, registered, messages, session,
                 reader, requester, optVars, keeper, forward, checker,
                 closeCh>>

(* HandleDisconnectClient, a takeover, the census: someone else ends it.   *)
Kick ==
  /\ registered /\ cleanup = "no"
  /\ BeginCleanUp
  /\ UNCHANGED <<login, tcp, unauthTimer, registered, messages, session,
                 reader, requester, optVars, keeper, forward, checker,
                 closeCh>>

-----------------------------------------------------------------------------
(* handleChannel and handleSession.  The welcome message is written before *)
(* the goroutines of the session start.                                    *)
OpenSession ==
  /\ login = "up" /\ tcp /\ session = "none" /\ session' = "welcome"
  /\ UNCHANGED <<login, tcp, unauthTimer, registered, messages, reader,
                 requester, optVars, keeper, forward, checker, cleanup,
                 closeCh>>

Welcomed ==
  /\ session = "welcome" /\ session' = "open"
  /\ reader' = "idle" /\ requester' = "idle"
  /\ UNCHANGED <<login, tcp, unauthTimer, registered, messages, optVars,
                 keeper, forward, checker, cleanup, closeCh>>

ReadMessage ==
  /\ reader = "idle" /\ messages > 0
  /\ messages' = messages - 1 /\ reader' = "writing"
  /\ UNCHANGED <<login, tcp, unauthTimer, registered, session, requester,
                 optVars, keeper, forward, checker, cleanup, closeCh>>

(* The write returns: the client took it, or the connection is gone.       *)
SessionWritten ==
  /\ reader = "writing" /\ reader' = "idle"
  /\ UNCHANGED <<login, tcp, unauthTimer, registered, messages, session,
                 requester, optVars, keeper, forward, checker, cleanup,
                 closeCh>>

ReaderClosed ==
  /\ reader = "idle" /\ closeCh /\ reader' = "done"
  /\ UNCHANGED <<login, tcp, unauthTimer, registered, messages, session,
                 requester, optVars, keeper, forward, checker, cleanup,
                 closeCh>>

(* The goroutine that reads the session: Ctrl+C, or a read error.          *)
SessionInput ==
  /\ session = "open" /\ cleanup = "no"
  /\ BeginCleanUp
  /\ UNCHANGED <<login, tcp, unauthTimer, registered, messages, session,
                 reader, requester, optVars, keeper, forward, checker,
                 closeCh>>

(* A request on the session: shell, or exec with its options, which are    *)
(* applied one by one; each answers with a message.  Only then is the Exec *)
(* channel closed.                                                         *)
SessionRequest(list) ==
  /\ requester = "idle" /\ requests < MaxRequests /\ tcp
  /\ requests' = requests + 1 /\ options' = list /\ requester' = "apply"
  /\ UNCHANGED <<login, tcp, unauthTimer, registered, messages, session,
                 reader, due, autoClose, localFwd, keeper, forward, checker,
                 cleanup, closeCh>>

ApplyOption ==
  /\ requester = "apply" /\ options # <<>>
  /\ due' = IF Head(options) = "deadline" THEN "ahead" ELSE due
  /\ autoClose' = (autoClose \/ Head(options) = "auto-close")
  /\ localFwd' = (localFwd \/ Head(options) = "local-forward")
  /\ requester' = IF Head(options) = "bad" THEN "sayBad" ELSE "say"
  /\ options' = Tail(options)
  /\ UNCHANGED <<login, tcp, unauthTimer, registered, messages, session,
                 reader, requests, keeper, forward, checker, cleanup,
                 closeCh>>

OptionSaid ==
  /\ requester = "say" /\ Say /\ requester' = "apply"
  /\ UNCHANGED <<login, tcp, unauthTimer, registered, session, reader,
                 optVars, keeper, forward, checker, cleanup, closeCh>>

CloseExecChannel ==
  /\ requester = "apply" /\ options = <<>>
  /\ requester' = "idle"
  /\ UNCHANGED <<login, tcp, unauthTimer, registered, messages, session,
                 reader, optVars, keeper, forward, checker, cleanup, closeCh>>

BadOptionSaid ==
  /\ requester = "sayBad" /\ Say /\ requester' = "done"
  /\ BeginCleanUp
  /\ UNCHANGED <<login, tcp, unauthTimer, registered, session, reader,
                 optVars, keeper, forward, checker, closeCh>>

(* Log lines of the data path (log-to-client) never wait for the queue.    *)
TrySendMessage ==
  /\ registered /\ messages < MessageQueueSize
  /\ messages' = messages + 1
  /\ UNCHANGED <<login, tcp, unauthTimer, registered, session, reader,
                 requester, optVars, keeper, forward, checker, cleanup,
                 closeCh>>

-----------------------------------------------------------------------------
(* The loop that starts after exec or a second, and ticks every second.    *)
(* Its ticks are after the timeout of cleanup-unbound, if that is set.     *)
KeeperStarts ==
  /\ keeper = "exec" /\ keeper' = "tick"
  /\ UNCHANGED <<login, tcp, unauthTimer, registered, messages, session,
                 reader, requester, optVars, forward, checker, cleanup,
                 closeCh>>

DeadlinePasses ==
  /\ due = "ahead" /\ due' = "past"
  /\ UNCHANGED <<login, tcp, unauthTimer, registered, messages, session,
                 reader, requester, options, requests, autoClose, localFwd,
                 keeper, forward, checker, cleanup, closeCh>>

(* A mutant: a connection that forwards something has no deadline.         *)
KeeperTickIdle ==
  /\ keeper = "tick" /\ forward # "bound"
  /\ \/ due = "past" /\ keeper' = "sayDeadline"
     \/ /\ due # "past" /\ (autoClose \/ CleanupUnbound) /\ ~localFwd
        /\ keeper' = "sayUnbound"
  /\ UNCHANGED <<login, tcp, unauthTimer, registered, messages, session, reader,
                 requester, optVars, forward, checker, cleanup, closeCh>>

KeeperTick ==
  /\ keeper = "tick"
  /\ \/ due = "past" /\ keeper' = "sayDeadline"
     \/ /\ due # "past" /\ (autoClose \/ CleanupUnbound)
        /\ forward # "bound" /\ ~localFwd
        /\ keeper' = "sayUnbound"
  /\ UNCHANGED <<login, tcp, unauthTimer, registered, messages, session,
                 reader, requester, optVars, forward, checker, cleanup,
                 closeCh>>

KeeperSaid ==
  /\ keeper \in {"sayDeadline", "sayUnbound"} /\ Say
  /\ keeper' = IF keeper = "sayDeadline" THEN "deadline" ELSE "unbound"
  /\ UNCHANGED <<login, tcp, unauthTimer, registered, session, reader,
                 requester, optVars, forward, checker, cleanup, closeCh>>

(* After a deadline the loop returns; after cleanup-unbound it goes on to  *)
(* see the Close channel.                                                  *)
KeeperCleansUp ==
  /\ keeper \in {"deadline", "unbound"}
  /\ BeginCleanUp
  /\ keeper' = IF keeper = "deadline" THEN "done" ELSE "tick"
  /\ UNCHANGED <<login, tcp, unauthTimer, registered, messages, session,
                 reader, requester, optVars, forward, checker, closeCh>>

KeeperClosed ==
  /\ keeper = "tick" /\ closeCh /\ keeper' = "done"
  /\ UNCHANGED <<login, tcp, unauthTimer, registered, messages, session,
                 reader, requester, optVars, forward, checker, cleanup,
                 closeCh>>

-----------------------------------------------------------------------------
(* handleRequest: a tcpip-forward starts checkSession and its handler.     *)
RequestForward ==
  /\ login = "up" /\ tcp /\ forward = "none"
  /\ forward' = "wait" /\ checker' = "wait"
  /\ UNCHANGED <<login, tcp, unauthTimer, registered, messages, session,
                 reader, requester, optVars, keeper, cleanup, closeCh>>

(* The wait for exec ends: exec came, a second passed, or Close is closed, *)
(* and then nothing is set up.  The request may be denied.                 *)
ForwardProceeds ==
  /\ forward = "wait"
  /\ \/ closeCh /\ forward' = "gone"
     \/ ~closeCh /\ forward' \in {"setup", "sayDenied"}
  /\ UNCHANGED <<login, tcp, unauthTimer, registered, messages, session,
                 reader, requester, optVars, keeper, checker, cleanup,
                 closeCh>>

DeniedSaid ==
  /\ forward = "sayDenied" /\ Say /\ forward' = "denied"
  /\ UNCHANGED <<login, tcp, unauthTimer, registered, session, reader,
                 requester, optVars, keeper, checker, cleanup, closeCh>>

DeniedCleanUp ==
  /\ forward = "denied" /\ forward' = "gone"
  /\ BeginCleanUp
  /\ UNCHANGED <<login, tcp, unauthTimer, registered, messages, session,
                 reader, requester, optVars, keeper, checker, closeCh>>

(* The listener is stored, or the set-up comes to nothing; a connection    *)
(* that is closed meanwhile undoes it.  The banner is sent on a goroutine  *)
(* of its own, which to the queue is one more TrySendMessage.              *)
Bind ==
  /\ forward = "setup"
  /\ \/ forward' = "bound" /\ cleanup = "no"
     \/ forward' = "gone"
  /\ UNCHANGED <<login, tcp, unauthTimer, registered, messages, session,
                 reader, requester, optVars, keeper, checker, cleanup,
                 closeCh>>

Unforward ==
  /\ forward = "bound" /\ forward' = "gone"
  /\ UNCHANGED <<login, tcp, unauthTimer, registered, messages, session,
                 reader, requester, optVars, keeper, checker, cleanup,
                 closeCh>>

(* checkSession: without a session within two seconds it drains the queue  *)
(* until Close, and cleans up when the connection ends.                    *)
CheckSession ==
  /\ checker = "wait"
  /\ checker' = IF session = "none" THEN "drain" ELSE "done"
  /\ UNCHANGED <<login, tcp, unauthTimer, registered, messages, session,
                 reader, requester, optVars, keeper, forward, cleanup,
                 closeCh>>

(* A mutant: the queue is only drained once the connection is closed.      *)
DrainLate ==
  /\ checker = "drain" /\ messages > 0 /\ closeCh
  /\ messages' = messages - 1
  /\ UNCHANGED <<login, tcp, unauthTimer, registered, session, reader,
                 requester, optVars, keeper, forward, checker, cleanup,
                 closeCh>>

Drain ==
  /\ checker = "drain" /\ messages > 0
  /\ messages' = messages - 1
  /\ UNCHANGED <<login, tcp, unauthTimer, registered, session, reader,
                 requester, optVars, keeper, forward, checker, cleanup,
                 closeCh>>

NoSessionCleanUp ==
  /\ checker = "drain" /\ ~tcp /\ checker' = "done"
  /\ BeginCleanUp
  /\ UNCHANGED <<login, tcp, unauthTimer, registered, messages, session,
                 reader, requester, optVars, keeper, forward, closeCh>>

-----------------------------------------------------------------------------
(* CleanUp: the forwards, the Close channel, the connection, the tables.   *)
CleanUpForwards ==
  /\ cleanup = "forwards" /\ cleanup' = "close"
  /\ forward' = IF forward = "bound" THEN "gone" ELSE forward
  /\ UNCHANGED <<login, tcp, unauthTimer, registered, messages, session,
                 reader, requester, optVars, keeper, checker, closeCh>>

CleanUpClose ==
  /\ cleanup = "close" /\ cleanup' = "conn" /\ closeCh' = TRUE
  /\ UNCHANGED <<login, tcp, unauthTimer, registered, messages, session,
                 reader, requester, optVars, keeper, forward, checker>>

CleanUpConn ==
  /\ cleanup = "conn" /\ cleanup' = "done"
  /\ tcp' = FALSE /\ registered' = FALSE
  /\ UNCHANGED <<login, unauthTimer, messages, session, reader, requester,
                 optVars, keeper, forward, checker, closeCh>>

-----------------------------------------------------------------------------
ClientStep ==
  \/ AcceptConn \/ Handshake \/ Disconnect \/ OpenSession \/ Welcomed
  \/ SessionWritten \/ SessionInput \/ RequestForward
  \/ \E list \in Execs : SessionRequest(list)

ServerStep ==
  \/ HandshakeFails \/ UnauthTimer \/ LoggedIn \/ WaitReturns
  \/ ReadMessage \/ ReaderClosed \/ ApplyOption \/ OptionSaid
  \/ CloseExecChannel \/ BadOptionSaid
  \/ KeeperStarts \/ KeeperTick \/ KeeperSaid \/ KeeperCleansUp
  \/ KeeperClosed
  \/ ForwardProceeds \/ DeniedSaid \/ DeniedCleanUp \/ Bind
  \/ CheckSession \/ Drain \/ NoSessionCleanUp
  \/ CleanUpForwards \/ CleanUpClose \/ CleanUpConn

SesNext ==
  ClientStep \/ ServerStep \/ Kick \/ TrySendMessage \/ DeadlinePasses
    \/ Unforward

(* Every goroutine of the server is scheduled and its timers fire.  A      *)
(* blocked send is served in turn, so it does not lose for ever to log     *)
(* lines.  The client owes nothing: it may never log in, answer or read.   *)
SesFairness ==
  /\ WF_sesVars(~tcp /\ HandshakeFails) /\ WF_sesVars(LoggedIn)
  /\ WF_sesVars(WaitReturns) /\ WF_sesVars(ReadMessage)
  /\ WF_sesVars(KeeperStarts \/ KeeperTick \/ KeeperCleansUp)
  /\ SF_sesVars(KeeperSaid)
  /\ WF_sesVars(ForwardProceeds \/ DeniedCleanUp \/ Bind)
  /\ SF_sesVars(DeniedSaid)
  /\ WF_sesVars(CheckSession) /\ WF_sesVars(~closeCh /\ Drain)
  /\ WF_sesVars(CleanUpForwards \/ CleanUpClose \/ CleanUpConn)

-----------------------------------------------------------------------------
(* A client that opened a session and does not take what is written to it. *)
NotReading == session = "welcome" \/ reader = "writing"

(* Once its deadline has passed a connection is closed, with or without a  *)
(* session, whatever fills the message queue, unless another exec request  *)
(* moves the deadline in time; only a client that keeps a session open and *)
(* stops reading it can hold the loop in SendMessage.                      *)
DeadlineCloses ==
  (due = "past" /\ registered) ~>
    (~registered \/ due = "ahead" \/ []NotReading)

(* A socket that is gone, even one the login timer closed behind a         *)
(* successful handshake, is removed from the tables and in the history.    *)
BrokenIsRemoved ==
  (login # "idle" /\ ~tcp) ~>
    (login = "refused" \/ (~registered /\ cleanup = "done"))

(* A request that is denied is closed although the message about it goes   *)
(* first: a client without a session has its queue drained.                *)
DeniedIsClosed ==
  forward = "sayDenied" ~> (cleanup = "done" \/ []NotReading)
=============================================================================
