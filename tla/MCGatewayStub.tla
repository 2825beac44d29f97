---------------------------- MODULE MCGatewayStub ----------------------------
(* What the peers of the small instance send.                              *)
EXTENDS GatewayStub

Wire(t, a, p, c) ==
    [large |-> FALSE, json |-> TRUE, t |-> t, u |-> "id", a |-> a, p |-> p, c |-> c]

Info == "info"
Good == Wire(Call, "/heartbeat", Absent, Absent)

\* One that Parse would find too large, and one that it would take.
MCOverLimit == {[Good EXCEPT !.large = TRUE], [Good EXCEPT !.p = "long"]}

MCMessages ==
    MCOverLimit \cup
    {Binary, Good, [Good EXCEPT !.u = "x"],
     Wire(Call, "/register", Info, Absent), Wire(Call, "/status", Info, Absent),
     Wire(CallError, Absent, Absent, Absent)}
MCActions == {"/register", "/heartbeat", "/status", "/unregister", "/unknown"}
=============================================================================
