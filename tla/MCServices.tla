----------------------------- MODULE MCServices -----------------------------
(* The services around the forwards, for TLC.  They share no state at this *)
(* level: what one does to another is an environment action of the other   *)
(* module (a full message queue, a closed socket, a teardown).  So a       *)
(* behaviour of this instance is one of the first service, or one of the   *)
(* second, ...: focus says of which, and the others stay at their start.   *)
EXTENDS TargetLock, SSHMux, KeepAlive, Transfer, ConsoleFeed, FrameParser,
        Logs, ConfigReload, HeaderSettings

CONSTANTS p1, p2, p3, k1, k2, o1, o2, o3, peer1, peer2, page1, g1, g2, h1, h2,
          ip1, ip2, ip3

CONSTANT InFocus   \* the services of a run

VARIABLE focus

(* Frames of every kind the parser tells apart, in pairs, and as messages  *)
(* of three frames with a control frame in between.                        *)
Frame(code, fin, rsv1, ext, masked, len) ==
  [op |-> code, fin |-> fin, rsv1 |-> rsv1, reserved |-> FALSE, ext |-> ext,
   masked |-> masked, len |-> len, corrupt |-> FALSE]

Ping == Frame("ping", TRUE, FALSE, 0, FALSE, 0)
Deflated == Frame("binary", TRUE, TRUE, 0, FALSE, 1)
Corrupt == [Deflated EXCEPT !.corrupt = TRUE]
Unfinished == {Frame("text", FALSE, FALSE, 2, TRUE, 3),
               Frame("text", FALSE, TRUE, 0, FALSE, 2)}
Continued == {Frame("continuation", TRUE, FALSE, 0, TRUE, 2),
              Frame("continuation", FALSE, FALSE, 0, FALSE, 0)}
Frames == {Frame("text", TRUE, FALSE, 0, TRUE, 3), Deflated, Corrupt, Ping,
           Frame("close", TRUE, FALSE, 0, TRUE, 1),
           Frame("close", FALSE, FALSE, 0, TRUE, 1)}
            \cup Unfinished \cup Continued

MCStreams ==
  [1 .. 2 -> Frames] \cup {<<Corrupt, Ping, Deflated>>} \cup
    {<<a, b, c>> : a \in Unfinished, b \in Continued \cup {Ping}, c \in Continued}

(* Two files, the second of the insert API: a password of ann, then other  *)
(* passwords and a key of bob. Edits break a file in the two ways, empty   *)
(* it, or give ann another password.                                       *)
MCAtStart == <<{"ann1"}, {}>>
MCUserOf == [e \in Entry |-> IF e = "bobkey" THEN "bob" ELSE "ann"]
MCContents == {[form |-> "garbled", has |-> {}], [form |-> "invalid", has |-> {}],
               Readable({}), Readable({"ann2"})}
HandlerSymmetry == Permutations(Handler)

-----------------------------------------------------------------------------
servicesVars == <<focus, vars, muxVars, pingVars, trVars, feedVars,
                  fpVars, logVars, reloadVars, headerVars>>

(* A service that is not in focus has one initial state.                   *)
AnyOf(S) == CHOOSE x \in S : TRUE

ServicesInit ==
  /\ focus \in InFocus
  /\ Init /\ MuxInit /\ FeedInit /\ LogInit
  /\ PingInit /\ (focus = "ping" \/ timeout = AnyOf(Timeouts))
  /\ TrInit /\ (focus = "transfer" \/ <<caller, limit>> = AnyOf(Callers \X Profiles))
  /\ FpInit /\ (focus = "parser" \/ <<stream, deflate>> = AnyOf(Streams \X Deflate))
  /\ ReloadInit /\ (focus = "reload" \/ kind = AnyOf(Kinds))
  /\ HeaderInit
  /\ focus = "headers" \/ (defaults = NotGiven /\ override = NotGiven
                            /\ scope = "none" /\ host = "root")

ServicesNext ==
  /\ UNCHANGED focus
  /\ \/ /\ focus = "lock" /\ Next
        /\ UNCHANGED <<muxVars, pingVars, trVars, feedVars, fpVars,
                       logVars, reloadVars, headerVars>>
     \/ /\ focus = "mux" /\ MuxNext
        /\ UNCHANGED <<vars, pingVars, trVars, feedVars, fpVars,
                       logVars, reloadVars, headerVars>>
     \/ /\ focus = "ping" /\ PingNext
        /\ UNCHANGED <<vars, muxVars, trVars, feedVars, fpVars,
                       logVars, reloadVars, headerVars>>
     \/ /\ focus = "transfer" /\ TrNext
        /\ UNCHANGED <<vars, muxVars, pingVars, feedVars, fpVars,
                       logVars, reloadVars, headerVars>>
     \/ /\ focus = "feed" /\ FeedNext
        /\ UNCHANGED <<vars, muxVars, pingVars, trVars, fpVars,
                       logVars, reloadVars, headerVars>>
     \/ /\ focus = "parser" /\ FpNext
        /\ UNCHANGED <<vars, muxVars, pingVars, trVars, feedVars,
                       logVars, reloadVars, headerVars>>
     \/ /\ focus = "logs" /\ LogNext
        /\ UNCHANGED <<vars, muxVars, pingVars, trVars, feedVars,
                       fpVars, reloadVars, headerVars>>
     \/ /\ focus = "audit" /\ AuditNext
        /\ UNCHANGED <<vars, muxVars, pingVars, trVars, feedVars,
                       fpVars, reloadVars, headerVars>>
     \/ /\ focus = "reload" /\ ReloadNext
        /\ UNCHANGED <<vars, muxVars, pingVars, trVars, feedVars,
                       fpVars, logVars, headerVars>>
     \/ /\ focus = "headers" /\ HeaderNext
        /\ UNCHANGED <<vars, muxVars, pingVars, trVars, feedVars,
                       fpVars, logVars, reloadVars>>

(* The fairness of each module.  A service that is not in focus stays at   *)
(* its start, where it owes no step: no action under fairness is enabled.  *)
LockFairness ==
  \A p \in Proc : WF_vars(Unlock(p)) /\ WF_vars(Drop(p)) /\ SF_vars(Lock(p))

ServicesSafety == ServicesInit /\ [][ServicesNext]_servicesVars

ServicesSpec ==
  /\ ServicesSafety
  /\ LockFairness /\ MuxFairness /\ TrFairness /\ FeedFairness
=============================================================================
