----------------------------- MODULE MCSession ------------------------------
(* An instance of Session for TLC: one connection, a message queue that    *)
(* one message fills, and the exec requests that set the options in play.  *)
EXTENDS Session

MCExecs == {<<>>, <<"deadline">>, <<"auto-close", "bad">>,
            <<"auto-close", "local-forward">>}

SesSpec == SesInit /\ [][SesNext]_sesVars /\ SesFairness
=============================================================================
