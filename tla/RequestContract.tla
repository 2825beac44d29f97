--------------------------- MODULE RequestContract ---------------------------
(***************************************************************************)
(* What lib/pgtx promises of a request, without the transaction it runs    *)
(* in: its durable effect is decided in one step, before the answer, and   *)
(* the answer tells which effect it was.                                   *)
(***************************************************************************)
CONSTANT Requests

VARIABLES
    fate,    \* what is durable of the request: nothing, its work, its audit row alone
    told,    \* what the client was told
    doubt    \* the work is durable and the process does not know

cvars == <<fate, told, doubt>>

Init ==
    /\ fate = [r \in Requests |-> "nothing"]
    /\ told = [r \in Requests |-> "waits"]
    /\ doubt = [r \in Requests |-> FALSE]

\* The work becomes durable, or the row of a refusal does; once, and only
\* while the client has no answer.
Decide(r) ==
    /\ fate[r] = "nothing"
    /\ told[r] = "waits"
    /\ \E f \in {"work", "row"} : fate' = [fate EXCEPT ![r] = f]
    /\ \E d \in BOOLEAN : doubt' = [doubt EXCEPT ![r] = d]
    /\ UNCHANGED told

\* Success is told of durable work only; a problem of anything but known work.
Tell(r) ==
    /\ told[r] = "waits"
    /\ \/ /\ fate[r] = "work"
          /\ ~doubt[r]
          /\ told' = [told EXCEPT ![r] = "success"]
       \/ /\ fate[r] # "work" \/ doubt[r]
          /\ told' = [told EXCEPT ![r] = "problem"]
    /\ UNCHANGED <<fate, doubt>>

Next == \E r \in Requests : Decide(r) \/ Tell(r)

Spec == Init /\ [][Next]_cvars
=============================================================================
