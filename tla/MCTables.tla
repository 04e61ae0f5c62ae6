------------------------------ MODULE MCTables ------------------------------
(* The tables of TCP and SNI forwards, and the census, for TLC. They share *)
(* no state: a behaviour of this instance is one of the first or one of    *)
(* the second, and the other stays at an initial state.                    *)
EXTENDS MCTCPForwards, MCCensus

VARIABLE focus

tablesVars == <<focus, vars, censusVars>>

(* The part that is not in focus has one initial state.                    *)
TablesInit ==
  /\ focus \in {"forwards", "census"}
  /\ Init /\ (focus = "forwards" \/ conf = CHOOSE k \in Configs : TRUE)
  /\ CensusInit
  /\ \/ focus = "census"
     \/ /\ server = "booting"
        /\ \A s \in Source : src[s].ids = Kept[s]

TablesNext ==
  /\ UNCHANGED focus
  /\ \/ focus = "forwards" /\ Next /\ UNCHANGED censusVars
     \/ focus = "census" /\ CensusNext /\ UNCHANGED vars

TablesSpec == TablesInit /\ [][TablesNext]_tablesVars
=============================================================================
