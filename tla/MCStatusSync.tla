---------------------------- MODULE MCStatusSync ----------------------------
(* StatusSync for TLC.                                                     *)
EXTENDS StatusSync, TLC

Symmetry == Permutations(Workers)

\* A session that is over: its socket is ended and carries nothing, it is not
\* the client's, and so nothing that it holds is looked at again.
Over(s) == s < cur \/ (s = cur /\ pc["main"] \in {"offline", "dial"})

\* States that differ only in what such a session held are one state.
LiveView ==
    <<loadVars, wake, watchVars, clientVars, lock, callVars, cur, reloadVars,
      [s \in Sessions |->
         IF Over(s) THEN <<ended[s], wire[s]>>
         ELSE <<ended[s], wire[s], said[s], draining[s], heard[s], s \in slipped>>]>>
=============================================================================
