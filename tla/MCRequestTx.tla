----------------------------- MODULE MCRequestTx -----------------------------
(* RequestTx for TLC.                                                      *)
EXTENDS RequestTxInv

Direct(journal, local, parse) ==
    [daemon |-> FALSE, journal |-> journal, local |-> local, parse |-> parse]

DaemonRoad == [daemon |-> TRUE, journal |-> TRUE, local |-> TRUE, parse |-> TRUE]

\* The daemon road; the direct road of a database with the gateway patch, in
\* both its session forms; and one that does not journal.
MCFeatureSets == {DaemonRoad, Direct(TRUE, TRUE, TRUE), Direct(TRUE, FALSE, FALSE),
                  Direct(FALSE, FALSE, FALSE)}
=============================================================================
