------------------------- MODULE ControlPlaneProofs -------------------------
(***************************************************************************)
(* The theorems of ControlPlane, for any callers of Drain, any requests    *)
(* and any bounds.                                                         *)
(*                                                                         *)
(* The inductive invariant adds to the types what the counters of Run mean *)
(* between its steps (AttemptInv, ReplacedInv), which Run a drain channel  *)
(* belongs to (CycleInv), and which requests a drain still waits for while *)
(* the session goes on (OwedInv).  Each part is preserved by a lemma of    *)
(* its own, with a step for each action that writes what it speaks of.     *)
(***************************************************************************)
EXTENDS ControlPlane, SequenceTheorems, TLAPS

\* Where Run is while runSession is on the stack, after the dial.
InSession == {"register", "loop", "beat", "announce", "wait", "unregister", "end"}

\* Run dials only while the bound allows it, and its counters are gone when
\* it returned.
AttemptInv ==
    /\ rpc = "out" => attempt = 0 /\ replaced = 0 /\ row = 0 /\ waits = 0
    /\ rpc \notin {"out", "backoff"} => attempt < MaxAttempts

\* A 1001 is counted once for each socket, and what came in a row is counted.
ReplacedInv ==
    /\ row <= replaced /\ replaced <= cur
    /\ rpc \in InSession \/ (rpc = "settle" /\ outcome = "away") => replaced < cur
    /\ rpc = "backoff" => waits >= row - 1

\* A channel is closed by the drain of the Run it belongs to, which then ends.
CycleInv ==
    /\ cycle <= runs \/ cycle = 1
    /\ rpc # "out" => cycle <= runs
    /\ closed \subseteq 1..cycle /\ (cycle \in closed => cycle <= runs)
    /\ rpc # "out" /\ ~(rpc = "settle" /\ outcome = "drained") => cycle \notin closed

\* A request that a drain waits for is no new one, and is over when the wait
\* was not cut.
OwedInv ==
    /\ owed \cap fresh = {} /\ busy \cap fresh = {}
    /\ (rpc = "unregister" \/ (rpc = "settle" /\ outcome = "drained")) /\ ~cut
         => owed \cap busy = {}

IndInv == TypeOK /\ AttemptInv /\ ReplacedInv /\ CycleInv /\ OwedInv

-----------------------------------------------------------------------------
(* Types.                                                                  *)

\* The types, by what they belong to.
TypeRun ==
    /\ rpc \in {"out", "token", "dial", "register", "loop", "beat", "announce", "wait",
        "unregister", "end", "settle", "backoff"}
    /\ runs \in 0..MaxRuns
    /\ ctxDone \in BOOLEAN
    /\ cur \in 0..MaxSessions

TypeReg ==
    /\ snap \in Registrations
    /\ reg \in Registrations

TypeEnd ==
    /\ unanswered \in 0..1
    /\ outcome \in {"none", "drained", "away", "refused", "rejected", "dial", "lost"}
    /\ registered \in BOOLEAN

TypeBack ==
    /\ attempt \in 0..MaxAttempts
    /\ replaced \in 0..MaxSessions
    /\ row \in 0..MaxSessions
    /\ waits \in 0..(MaxAttempts + MaxSessions)

TypeDrain ==
    /\ drainCh \in BOOLEAN
    /\ cycle \in 1..MaxRuns
    /\ closed \subseteq 1..MaxRuns
    /\ dpc \in [Callers -> {"none", "ask", "wait"}]
    /\ dcycle \in [Callers -> 0..MaxRuns]

TypeNet ==
    /\ state \in {"offline", "connecting", "ready", "draining"}
    /\ sock \in Closes \cup {"none", "open"}
    /\ pend \in {"none", "sent", "result", "error"}
    /\ phase \in {"none", "register", "draining", "unregister"}
    /\ hung \in BOOLEAN

TypeInbox ==
    /\ inbox \in Seq({"register", "heartbeat", "draining", "unregister"})

TypeHandler ==
    /\ hpc \in {"none", "hook", "close"}
    /\ hs \in 0..MaxSessions

TypeReq ==
    /\ busy \subseteq Requests
    /\ fresh \subseteq Requests
    /\ owed \subseteq Requests
    /\ cut \in BOOLEAN

\* TypeOK is these.
LEMMA TypeGroups ==
    TypeOK <=> /\ TypeRun /\ TypeReg /\ TypeEnd
               /\ TypeBack /\ TypeDrain /\ TypeNet
               /\ TypeInbox /\ TypeHandler /\ TypeReq
BY DEF TypeOK, TypeRun, TypeReg, TypeEnd, TypeBack, TypeDrain, TypeNet, TypeInbox, TypeHandler, TypeReq

\* Run starts at most MaxRuns times and opens at most MaxSessions sockets.
LEMMA TypeRunNext ==
    ASSUME IndInv, [Next]_vars
    PROVE  TypeRun'
<1> USE ControlPlaneAssumption DEF IndInv, TypeOK, TypeRun, tryVars, endVars, runVars,
        backVars, drainVars, handlerVars, netVars, reqVars, waitVars, clientVars, sideVars
<1>1. CASE StartRun
  <2>1. runs' \in 0..MaxRuns BY <1>1 DEF StartRun
  <2>2. ctxDone' \in BOOLEAN BY <1>1 DEF StartRun
  <2>3. QED BY <1>1, <2>1, <2>2 DEF StartRun
<1>2. CASE Cancel
  BY <1>2 DEF Cancel
<1>3. CASE Settle
  BY <1>3 DEF Settle, RunReturns, AwayWait, NoRegistration
<1>4. CASE Backoff
  BY <1>4 DEF Backoff, RunReturns
<1>5. CASE TakeToken
  BY <1>5 DEF TakeToken
<1>6. CASE NoSocket
  BY <1>6 DEF NoSocket, Returns
<1>7. CASE Dial
  BY <1>7 DEF Dial
<1>8. CASE RegisterFails
  BY <1>8 DEF RegisterFails, TimedOut, SocketEnded, Open
<1>9. CASE RegisterRefused
  BY <1>9 DEF RegisterRefused, CloseSocket, SocketIs, Open, Returns
<1>10. CASE Registered
  BY <1>10 DEF Registered, WriteBack
<1>11. CASE LoopEnds
  BY <1>11 DEF LoopEnds, SocketEnded, Open
<1>12. CASE Beat
  BY <1>12 DEF Beat, Sends, Open, Ticks
<1>13. CASE BeatAnswered
  BY <1>13 DEF BeatAnswered, Answered
<1>14. CASE BeatOffline
  BY <1>14 DEF BeatOffline, CloseSocket, SocketIs, Open, Returns
<1>15. CASE BeatTimeout
  BY <1>15 DEF BeatTimeout, CloseSocket, SocketIs, Open, Returns, TimedOut, Silent
<1>16. CASE BeatFails
  BY <1>16 DEF BeatFails, SocketEnded, Open
<1>17. CASE EndError
  BY <1>17 DEF EndError, Returns, SocketEnded, Open
<1>18. CASE TakeDrain
  BY <1>18 DEF TakeDrain, Sends, Open
<1>19. CASE Announced
  BY <1>19 DEF Announced, Answered, TimedOut, SocketEnded, Open
<1>20. CASE DrainWaited
  BY <1>20 DEF DrainWaited, Unregister, Sends, Open, NothingInFlight
<1>21. CASE DrainGivesUp
  BY <1>21 DEF DrainGivesUp, Unregister, Sends, Open, NothingInFlight
<1>22. CASE Drained
  BY <1>22 DEF Drained, CloseSocket, SocketIs, Open, Returns, Answered, TimedOut,
     SocketEnded
<1>23. CASE UNCHANGED <<rpc, runs, ctxDone, cur>>
  BY <1>23
<1>24. QED
  BY <1>1, <1>2, <1>3, <1>4, <1>5, <1>6, <1>7, <1>8, <1>9, <1>10, <1>11, <1>12, <1>13,
     <1>14, <1>15, <1>16, <1>17, <1>18, <1>19, <1>20, <1>21, <1>22, <1>23
     DEF Next, RunSteps, CallDrain, AskDrain, DrainReturns, DrainAbandoned, Reload,
         Open, Apply, CloseToReregister, CloseSocket, SocketIs, ReaderStops, Hangs,
         GatewayReads, SocketCloses, Arrive, Finish, vars

\* A session's registration is the client's with the address filled in, and
\* what is written back is a registration too.
LEMMA TypeRegNext ==
    ASSUME IndInv, [Next]_vars
    PROVE  TypeReg'
<1> USE ControlPlaneAssumption DEF IndInv, TypeOK, TypeReg, Registrations, NoRegistration,
        tryVars, endVars, runVars, backVars, drainVars, handlerVars, netVars, reqVars,
        waitVars, clientVars, sideVars
<1>1. CASE Settle
  BY <1>1 DEF Settle, RunReturns, AwayWait, NoRegistration
<1>2. CASE TakeToken
  BY <1>2 DEF TakeToken
<1>3. CASE Dial
  BY <1>3 DEF Dial
<1>4. CASE Registered
  BY <1>4 DEF Registered, WriteBack
<1>5. CASE Apply
  BY <1>5 DEF Apply
<1>6. CASE UNCHANGED <<snap, reg>>
  BY <1>6
<1>7. QED
  BY <1>1, <1>2, <1>3, <1>4, <1>5, <1>6
     DEF Next, RunSteps, StartRun, NextCycle, Cancel, Backoff, RunReturns, NoSocket,
         Returns, RegisterFails, TimedOut, SocketEnded, Open, RegisterRefused,
         CloseSocket, SocketIs, LoopEnds, Beat, Sends, Ticks, BeatAnswered, Answered,
         BeatOffline, BeatTimeout, Silent, BeatFails, EndError, TakeDrain, Announced,
         DrainWaited, Unregister, NothingInFlight, DrainGivesUp, Drained, CallDrain,
         AskDrain, DrainReturns, DrainAbandoned, Reload, CloseToReregister, ReaderStops,
         Hangs, GatewayReads, SocketCloses, Arrive, Finish, vars

\* A session ends in one of the ways that Run tells apart.
LEMMA TypeEndNext ==
    ASSUME IndInv, [Next]_vars
    PROVE  TypeEnd'
<1> USE ControlPlaneAssumption DEF IndInv, TypeOK, TypeEnd, tryVars, endVars, runVars,
        backVars, drainVars, handlerVars, netVars, reqVars, waitVars, clientVars, sideVars
<1>1. CASE Settle
  BY <1>1 DEF Settle, RunReturns, AwayWait, NoRegistration
<1>2. CASE NoSocket
  <2>1. Returns("dial", FALSE) \/ Returns("rejected", FALSE) BY <1>2 DEF NoSocket
  <2>2. registered' \in BOOLEAN BY <2>1 DEF Returns
  <2>3. QED BY <2>1, <2>2 DEF Returns
<1>3. CASE RegisterFails
  BY <1>3 DEF RegisterFails, TimedOut, SocketEnded, Open
<1>4. CASE RegisterRefused
  <2>1. Returns("refused", FALSE) \/ Returns("lost", FALSE) BY <1>4 DEF RegisterRefused
  <2>2. registered' \in BOOLEAN BY <2>1 DEF Returns
  <2>3. QED BY <2>1, <2>2 DEF Returns
<1>5. CASE Registered
  BY <1>5 DEF Registered, WriteBack
<1>6. CASE BeatAnswered
  BY <1>6 DEF BeatAnswered, Answered
<1>7. CASE BeatOffline
  BY <1>7 DEF BeatOffline, CloseSocket, SocketIs, Open, Returns
<1>8. CASE BeatTimeout
  <2>1. CASE Silent BY <1>8, <2>1 DEF BeatTimeout, Returns
  <2>2. CASE ~Silent
    <3>1. unanswered' \in 0..1 BY <1>8, <2>2 DEF BeatTimeout, Silent
    <3>2. QED BY <1>8, <2>2, <3>1 DEF BeatTimeout
  <2>3. QED BY <2>1, <2>2
<1>9. CASE EndError
  BY <1>9 DEF EndError, Returns, SocketEnded, Open
<1>10. CASE Drained
  BY <1>10 DEF Drained, CloseSocket, SocketIs, Open, Returns, Answered, TimedOut,
     SocketEnded
<1>11. CASE UNCHANGED <<unanswered, outcome, registered>>
  BY <1>11
<1>12. QED
  BY <1>1, <1>2, <1>3, <1>4, <1>5, <1>6, <1>7, <1>8, <1>9, <1>10, <1>11
     DEF Next, RunSteps, StartRun, NextCycle, Cancel, Backoff, RunReturns, TakeToken,
         Dial, LoopEnds, SocketEnded, Open, Beat, Sends, Ticks, BeatFails, TakeDrain,
         Announced, Answered, TimedOut, DrainWaited, Unregister, NothingInFlight,
         DrainGivesUp, CallDrain, AskDrain, DrainReturns, DrainAbandoned, Reload, Apply,
         CloseToReregister, CloseSocket, SocketIs, ReaderStops, Hangs, GatewayReads,
         SocketCloses, Arrive, Finish, vars

\* The counters of the backoff stay within the bounds that Run's guards name.
LEMMA TypeBackNext ==
    ASSUME IndInv, [Next]_vars
    PROVE  TypeBack'
<1> USE ControlPlaneAssumption DEF IndInv, TypeOK, TypeBack, AttemptInv, ReplacedInv,
        InSession, tryVars, endVars, runVars, backVars, drainVars, handlerVars, netVars,
        reqVars, waitVars, clientVars, sideVars
<1>1. CASE Settle
  BY <1>1 DEF Settle, RunReturns, AwayWait, NoRegistration
<1>2. CASE Backoff
  BY <1>2 DEF Backoff, RunReturns
<1>3. CASE UNCHANGED <<attempt, replaced, row, waits>>
  BY <1>3
<1>4. QED
  BY <1>1, <1>2, <1>3
     DEF Next, RunSteps, StartRun, NextCycle, Cancel, TakeToken, NoSocket, Returns,
         Dial, RegisterFails, TimedOut, SocketEnded, Open, RegisterRefused, CloseSocket,
         SocketIs, Registered, WriteBack, LoopEnds, Beat, Sends, Ticks, BeatAnswered,
         Answered, BeatOffline, BeatTimeout, Silent, BeatFails, EndError, TakeDrain,
         Announced, DrainWaited, Unregister, NothingInFlight, DrainGivesUp, Drained,
         CallDrain, AskDrain, DrainReturns, DrainAbandoned, Reload, Apply,
         CloseToReregister, ReaderStops, Hangs, GatewayReads, SocketCloses, Arrive,
         Finish, vars

\* A Drain waits on the channel of a cycle that began, or on none.
LEMMA TypeDrainNext ==
    ASSUME IndInv, [Next]_vars
    PROVE  TypeDrain'
<1> USE ControlPlaneAssumption DEF IndInv, TypeOK, TypeDrain, CycleInv, tryVars, endVars,
        runVars, backVars, drainVars, handlerVars, netVars, reqVars, waitVars, clientVars,
        sideVars
<1>1. CASE StartRun
  BY <1>1 DEF StartRun, NextCycle
<1>2. CASE TakeDrain
  BY <1>2 DEF TakeDrain, Sends, Open
<1>3. CASE Drained
  BY <1>3 DEF Drained, CloseSocket, SocketIs, Open, Returns, Answered, TimedOut,
     SocketEnded
<1>4. ASSUME NEW c \in Callers, CallDrain(c) PROVE TypeDrain'
  BY <1>4 DEF CallDrain
<1>5. ASSUME NEW c \in Callers, AskDrain(c) PROVE TypeDrain'
  BY <1>5 DEF AskDrain
<1>6. ASSUME NEW c \in Callers, DrainReturns(c) PROVE TypeDrain'
  BY <1>6 DEF DrainReturns
<1>7. ASSUME NEW c \in Callers, DrainAbandoned(c) PROVE TypeDrain'
  BY <1>7 DEF DrainAbandoned
<1>8. CASE UNCHANGED <<drainCh, cycle, closed, dpc, dcycle>>
  BY <1>8
<1>9. QED
  BY <1>1, <1>2, <1>3, <1>4, <1>5, <1>6, <1>7, <1>8
     DEF Next, RunSteps, Cancel, Settle, RunReturns, AwayWait, NoRegistration, Backoff,
         TakeToken, NoSocket, Returns, Dial, RegisterFails, TimedOut, SocketEnded, Open,
         RegisterRefused, CloseSocket, SocketIs, Registered, WriteBack, LoopEnds, Beat,
         Sends, Ticks, BeatAnswered, Answered, BeatOffline, BeatTimeout, Silent,
         BeatFails, EndError, Announced, DrainWaited, Unregister, NothingInFlight,
         DrainGivesUp, Reload, Apply, CloseToReregister, ReaderStops, Hangs,
         GatewayReads, SocketCloses, Arrive, Finish, vars

\* The socket, the call in flight and the announced state keep to their values.
LEMMA TypeNetNext ==
    ASSUME IndInv, [Next]_vars
    PROVE  TypeNet'
<1> USE ControlPlaneAssumption DEF IndInv, TypeOK, TypeNet, Closes, tryVars, endVars,
        runVars, backVars, drainVars, handlerVars, netVars, reqVars, waitVars, clientVars,
        sideVars
<1>1. CASE StartRun
  BY <1>1 DEF StartRun, NextCycle
<1>2. CASE Settle
  BY <1>2 DEF Settle, RunReturns, AwayWait, NoRegistration
<1>3. CASE Backoff
  BY <1>3 DEF Backoff, RunReturns
<1>4. CASE Dial
  BY <1>4 DEF Dial
<1>5. CASE RegisterFails
  BY <1>5 DEF RegisterFails, TimedOut, SocketEnded, Open
<1>6. CASE RegisterRefused
  BY <1>6 DEF RegisterRefused, CloseSocket, SocketIs, Open, Returns
<1>7. CASE Registered
  BY <1>7 DEF Registered, WriteBack
<1>8. CASE Beat
  BY <1>8 DEF Beat, Sends, Open, Ticks
<1>9. CASE BeatAnswered
  BY <1>9 DEF BeatAnswered, Answered
<1>10. CASE BeatOffline
  BY <1>10 DEF BeatOffline, CloseSocket, SocketIs, Open, Returns
<1>11. CASE BeatTimeout
  BY <1>11 DEF BeatTimeout, CloseSocket, SocketIs, Open, Returns, TimedOut, Silent
<1>12. CASE BeatFails
  BY <1>12 DEF BeatFails, SocketEnded, Open
<1>13. CASE TakeDrain
  BY <1>13 DEF TakeDrain, Sends, Open
<1>14. CASE Announced
  BY <1>14 DEF Announced, Answered, TimedOut, SocketEnded, Open
<1>15. CASE DrainWaited
  BY <1>15 DEF DrainWaited, Unregister, Sends, Open, NothingInFlight
<1>16. CASE DrainGivesUp
  BY <1>16 DEF DrainGivesUp, Unregister, Sends, Open, NothingInFlight
<1>17. CASE Drained
  BY <1>17 DEF Drained, CloseSocket, SocketIs, Open, Returns, Answered, TimedOut,
     SocketEnded
<1>18. CASE CloseToReregister
  BY <1>18 DEF CloseToReregister, CloseSocket, SocketIs, Open
<1>19. CASE ReaderStops
  BY <1>19 DEF ReaderStops, CloseSocket, SocketIs, Open
<1>20. CASE Hangs
  BY <1>20 DEF Hangs, Open
<1>21. CASE GatewayReads
  BY <1>21 DEF GatewayReads, Open
<1>22. ASSUME NEW how \in Closes, SocketCloses(how) PROVE TypeNet'
  BY <1>22 DEF SocketCloses, SocketIs, Open
<1>23. CASE UNCHANGED <<state, sock, pend, phase, hung>>
  BY <1>23
<1>24. QED
  BY <1>1, <1>2, <1>3, <1>4, <1>5, <1>6, <1>7, <1>8, <1>9, <1>10, <1>11, <1>12, <1>13,
     <1>14, <1>15, <1>16, <1>17, <1>18, <1>19, <1>20, <1>21, <1>22, <1>23
     DEF Next, RunSteps, Cancel, TakeToken, NoSocket, Returns, LoopEnds, SocketEnded,
         Open, EndError, CallDrain, AskDrain, DrainReturns, DrainAbandoned, Reload,
         Apply, Arrive, Finish, vars

\* The gateway is sent the four kinds of message and nothing else.
LEMMA TypeInboxNext ==
    ASSUME IndInv, [Next]_vars
    PROVE  TypeInbox'
<1> USE ControlPlaneAssumption DEF IndInv, TypeOK, TypeInbox, tryVars, endVars, runVars,
        backVars, drainVars, handlerVars, netVars, reqVars, waitVars, clientVars, sideVars
<1>1. CASE Dial
  BY <1>1 DEF Dial
<1>2. CASE RegisterRefused
  BY <1>2 DEF RegisterRefused, CloseSocket, SocketIs, Open, Returns
<1>3. CASE Beat
  BY <1>3 DEF Beat, Sends, Open, Ticks
<1>4. CASE BeatOffline
  BY <1>4 DEF BeatOffline, CloseSocket, SocketIs, Open, Returns
<1>5. CASE BeatTimeout
  <2>1. <<>> \in Seq({"register", "heartbeat", "draining", "unregister"}) OBVIOUS
  <2>2. inbox' \in {inbox, <<>>} BY <1>5 DEF BeatTimeout, CloseSocket, SocketIs
  <2>3. QED BY <2>1, <2>2
<1>6. CASE TakeDrain
  BY <1>6 DEF TakeDrain, Sends, Open
<1>7. CASE DrainWaited
  BY <1>7 DEF DrainWaited, Unregister, Sends, Open, NothingInFlight
<1>8. CASE DrainGivesUp
  BY <1>8 DEF DrainGivesUp, Unregister, Sends, Open, NothingInFlight
<1>9. CASE Drained
  BY <1>9 DEF Drained, CloseSocket, SocketIs, Open, Returns, Answered, TimedOut,
     SocketEnded
<1>10. CASE CloseToReregister
  <2>1. <<>> \in Seq({"register", "heartbeat", "draining", "unregister"}) OBVIOUS
  <2>2. inbox' \in {inbox, <<>>} BY <1>10 DEF CloseToReregister, CloseSocket, SocketIs
  <2>3. QED BY <2>1, <2>2
<1>11. CASE ReaderStops
  BY <1>11 DEF ReaderStops, CloseSocket, SocketIs, Open
<1>12. CASE GatewayReads
  BY <1>12 DEF GatewayReads, Open
<1>13. ASSUME NEW how \in Closes, SocketCloses(how) PROVE TypeInbox'
  BY <1>13 DEF SocketCloses, SocketIs, Open
<1>14. CASE UNCHANGED <<inbox>>
  BY <1>14
<1>15. QED
  BY <1>1, <1>2, <1>3, <1>4, <1>5, <1>6, <1>7, <1>8, <1>9, <1>10, <1>11, <1>12, <1>13,
     <1>14
     DEF Next, RunSteps, StartRun, NextCycle, Cancel, Settle, RunReturns, AwayWait,
         NoRegistration, Backoff, TakeToken, NoSocket, Returns, RegisterFails, TimedOut,
         SocketEnded, Open, Registered, WriteBack, LoopEnds, BeatAnswered, Answered,
         BeatFails, EndError, Announced, CallDrain, AskDrain, DrainReturns,
         DrainAbandoned, Reload, Apply, Hangs, Arrive, Finish, vars

\* The handler of a message belongs to a socket that was opened.
LEMMA TypeHandlerNext ==
    ASSUME IndInv, [Next]_vars
    PROVE  TypeHandler'
<1> USE ControlPlaneAssumption DEF IndInv, TypeOK, TypeHandler, tryVars, endVars, runVars,
        backVars, drainVars, handlerVars, netVars, reqVars, waitVars, clientVars, sideVars
<1>1. CASE Reload
  BY <1>1 DEF Reload, Open
<1>2. CASE Apply
  BY <1>2 DEF Apply
<1>3. CASE CloseToReregister
  BY <1>3 DEF CloseToReregister, CloseSocket, SocketIs, Open
<1>4. CASE UNCHANGED <<hpc, hs>>
  BY <1>4
<1>5. QED
  BY <1>1, <1>2, <1>3, <1>4
     DEF Next, RunSteps, StartRun, NextCycle, Cancel, Settle, RunReturns, AwayWait,
         NoRegistration, Backoff, TakeToken, NoSocket, Returns, Dial, RegisterFails,
         TimedOut, SocketEnded, Open, RegisterRefused, CloseSocket, SocketIs,
         Registered, WriteBack, LoopEnds, Beat, Sends, Ticks, BeatAnswered, Answered,
         BeatOffline, BeatTimeout, Silent, BeatFails, EndError, TakeDrain, Announced,
         DrainWaited, Unregister, NothingInFlight, DrainGivesUp, Drained, CallDrain,
         AskDrain, DrainReturns, DrainAbandoned, ReaderStops, Hangs, GatewayReads,
         SocketCloses, Arrive, Finish, vars

\* The requests that run, are new or are waited for are requests.
LEMMA TypeReqNext ==
    ASSUME IndInv, [Next]_vars
    PROVE  TypeReq'
<1> USE ControlPlaneAssumption DEF IndInv, TypeOK, TypeReq, tryVars, endVars, runVars,
        backVars, drainVars, handlerVars, netVars, reqVars, waitVars, clientVars, sideVars
<1>1. CASE Settle
  BY <1>1 DEF Settle, RunReturns, AwayWait, NoRegistration
<1>2. CASE TakeDrain
  BY <1>2 DEF TakeDrain, Sends, Open
<1>3. CASE DrainGivesUp
  BY <1>3 DEF DrainGivesUp, Unregister, Sends, Open, NothingInFlight
<1>4. ASSUME NEW r \in Requests, Arrive(r) PROVE TypeReq'
  BY <1>4 DEF Arrive
<1>5. ASSUME NEW r \in Requests, Finish(r) PROVE TypeReq'
  BY <1>5 DEF Finish
<1>6. CASE UNCHANGED <<busy, fresh, owed, cut>>
  BY <1>6
<1>7. QED
  BY <1>1, <1>2, <1>3, <1>4, <1>5, <1>6
     DEF Next, RunSteps, StartRun, NextCycle, Cancel, Backoff, RunReturns, TakeToken,
         NoSocket, Returns, Dial, RegisterFails, TimedOut, SocketEnded, Open,
         RegisterRefused, CloseSocket, SocketIs, Registered, WriteBack, LoopEnds, Beat,
         Sends, Ticks, BeatAnswered, Answered, BeatOffline, BeatTimeout, Silent,
         BeatFails, EndError, Announced, DrainWaited, Unregister, NothingInFlight,
         Drained, CallDrain, AskDrain, DrainReturns, DrainAbandoned, Reload, Apply,
         CloseToReregister, ReaderStops, Hangs, GatewayReads, SocketCloses, vars

\* Every step of Run that dials has found the attempts below their bound, and
\* the steps that return reset what the next Run must not inherit.
LEMMA AttemptNext ==
    ASSUME IndInv, [Next]_vars
    PROVE  AttemptInv'
<1> USE ControlPlaneAssumption DEF IndInv, TypeOK, AttemptInv, tryVars, endVars, runVars,
        backVars, drainVars, handlerVars, netVars, reqVars, waitVars, clientVars, sideVars
<1>1. CASE StartRun
  BY <1>1 DEF StartRun, NextCycle
<1>2. CASE Settle
  BY <1>2 DEF Settle, RunReturns, AwayWait, NoRegistration
<1>3. CASE Backoff
  BY <1>3 DEF Backoff, RunReturns
<1>4. CASE TakeToken
  BY <1>4 DEF TakeToken
<1>5. CASE NoSocket
  BY <1>5 DEF NoSocket, Returns
<1>6. CASE Dial
  BY <1>6 DEF Dial
<1>7. CASE RegisterFails
  BY <1>7 DEF RegisterFails, TimedOut, SocketEnded, Open
<1>8. CASE RegisterRefused
  BY <1>8 DEF RegisterRefused, CloseSocket, SocketIs, Open, Returns
<1>9. CASE Registered
  BY <1>9 DEF Registered, WriteBack
<1>10. CASE LoopEnds
  BY <1>10 DEF LoopEnds, SocketEnded, Open
<1>11. CASE Beat
  BY <1>11 DEF Beat, Sends, Open, Ticks
<1>12. CASE BeatAnswered
  BY <1>12 DEF BeatAnswered, Answered
<1>13. CASE BeatOffline
  BY <1>13 DEF BeatOffline, CloseSocket, SocketIs, Open, Returns
<1>14. CASE BeatTimeout
  BY <1>14 DEF BeatTimeout, CloseSocket, SocketIs, Open, Returns, TimedOut, Silent
<1>15. CASE BeatFails
  BY <1>15 DEF BeatFails, SocketEnded, Open
<1>16. CASE EndError
  BY <1>16 DEF EndError, Returns, SocketEnded, Open
<1>17. CASE TakeDrain
  BY <1>17 DEF TakeDrain, Sends, Open
<1>18. CASE Announced
  BY <1>18 DEF Announced, Answered, TimedOut, SocketEnded, Open
<1>19. CASE DrainWaited
  BY <1>19 DEF DrainWaited, Unregister, Sends, Open, NothingInFlight
<1>20. CASE DrainGivesUp
  BY <1>20 DEF DrainGivesUp, Unregister, Sends, Open, NothingInFlight
<1>21. CASE Drained
  BY <1>21 DEF Drained, CloseSocket, SocketIs, Open, Returns, Answered, TimedOut,
     SocketEnded
<1>22. CASE UNCHANGED <<rpc, attempt, replaced, row, waits>>
  BY <1>22
<1>23. QED
  BY <1>1, <1>2, <1>3, <1>4, <1>5, <1>6, <1>7, <1>8, <1>9, <1>10, <1>11, <1>12, <1>13,
     <1>14, <1>15, <1>16, <1>17, <1>18, <1>19, <1>20, <1>21, <1>22
     DEF Next, RunSteps, Cancel, CallDrain, AskDrain, DrainReturns, DrainAbandoned,
         Reload, Open, Apply, CloseToReregister, CloseSocket, SocketIs, ReaderStops,
         Hangs, GatewayReads, SocketCloses, Arrive, Finish, vars

\* Only the end of a socket counts a 1001, and each such end is a socket that
\* had not been counted; the wait of a backoff is as long as the row asks for.
LEMMA ReplacedNext ==
    ASSUME IndInv, [Next]_vars
    PROVE  ReplacedInv'
<1> USE ControlPlaneAssumption DEF IndInv, TypeOK, ReplacedInv, InSession, tryVars, endVars,
        runVars, backVars, drainVars, handlerVars, netVars, reqVars, waitVars, clientVars,
        sideVars
<1>1. CASE StartRun
  BY <1>1 DEF StartRun, NextCycle
<1>2. CASE Settle
  BY <1>2 DEF Settle, RunReturns, AwayWait, NoRegistration
<1>3. CASE Backoff
  BY <1>3 DEF Backoff, RunReturns
<1>4. CASE TakeToken
  BY <1>4 DEF TakeToken
<1>5. CASE NoSocket
  BY <1>5 DEF NoSocket, Returns
<1>6. CASE Dial
  BY <1>6 DEF Dial
<1>7. CASE RegisterFails
  BY <1>7 DEF RegisterFails, TimedOut, SocketEnded, Open
<1>8. CASE RegisterRefused
  BY <1>8 DEF RegisterRefused, CloseSocket, SocketIs, Open, Returns
<1>9. CASE Registered
  BY <1>9 DEF Registered, WriteBack
<1>10. CASE LoopEnds
  BY <1>10 DEF LoopEnds, SocketEnded, Open
<1>11. CASE Beat
  BY <1>11 DEF Beat, Sends, Open, Ticks
<1>12. CASE BeatAnswered
  BY <1>12 DEF BeatAnswered, Answered
<1>13. CASE BeatOffline
  BY <1>13 DEF BeatOffline, CloseSocket, SocketIs, Open, Returns
<1>14. CASE BeatTimeout
  BY <1>14 DEF BeatTimeout, CloseSocket, SocketIs, Open, Returns, TimedOut, Silent
<1>15. CASE BeatFails
  BY <1>15 DEF BeatFails, SocketEnded, Open
<1>16. CASE EndError
  BY <1>16 DEF EndError, Returns, SocketEnded, Open
<1>17. CASE TakeDrain
  BY <1>17 DEF TakeDrain, Sends, Open
<1>18. CASE Announced
  BY <1>18 DEF Announced, Answered, TimedOut, SocketEnded, Open
<1>19. CASE DrainWaited
  BY <1>19 DEF DrainWaited, Unregister, Sends, Open, NothingInFlight
<1>20. CASE DrainGivesUp
  BY <1>20 DEF DrainGivesUp, Unregister, Sends, Open, NothingInFlight
<1>21. CASE Drained
  BY <1>21 DEF Drained, CloseSocket, SocketIs, Open, Returns, Answered, TimedOut,
     SocketEnded
<1>22. CASE UNCHANGED <<row, replaced, cur, rpc, outcome, waits>>
  BY <1>22
<1>23. QED
  BY <1>1, <1>2, <1>3, <1>4, <1>5, <1>6, <1>7, <1>8, <1>9, <1>10, <1>11, <1>12, <1>13,
     <1>14, <1>15, <1>16, <1>17, <1>18, <1>19, <1>20, <1>21, <1>22
     DEF Next, RunSteps, Cancel, CallDrain, AskDrain, DrainReturns, DrainAbandoned,
         Reload, Open, Apply, CloseToReregister, CloseSocket, SocketIs, ReaderStops,
         Hangs, GatewayReads, SocketCloses, Arrive, Finish, vars

\* Only the end of a drain closes its channel, once, and Run then returns:
\* what starts next makes a channel of its own.
LEMMA CycleNext ==
    ASSUME IndInv, [Next]_vars
    PROVE  CycleInv'
<1> USE ControlPlaneAssumption DEF IndInv, TypeOK, CycleInv, tryVars, endVars, runVars,
        backVars, drainVars, handlerVars, netVars, reqVars, waitVars, clientVars, sideVars
<1>1. CASE StartRun
  BY <1>1 DEF StartRun, NextCycle
<1>2. CASE Settle
  BY <1>2 DEF Settle, RunReturns, AwayWait, NoRegistration
<1>3. CASE Backoff
  BY <1>3 DEF Backoff, RunReturns
<1>4. CASE TakeToken
  BY <1>4 DEF TakeToken
<1>5. CASE NoSocket
  BY <1>5 DEF NoSocket, Returns
<1>6. CASE Dial
  BY <1>6 DEF Dial
<1>7. CASE RegisterFails
  BY <1>7 DEF RegisterFails, TimedOut, SocketEnded, Open
<1>8. CASE RegisterRefused
  BY <1>8 DEF RegisterRefused, CloseSocket, SocketIs, Open, Returns
<1>9. CASE Registered
  BY <1>9 DEF Registered, WriteBack
<1>10. CASE LoopEnds
  BY <1>10 DEF LoopEnds, SocketEnded, Open
<1>11. CASE Beat
  BY <1>11 DEF Beat, Sends, Open, Ticks
<1>12. CASE BeatAnswered
  BY <1>12 DEF BeatAnswered, Answered
<1>13. CASE BeatOffline
  BY <1>13 DEF BeatOffline, CloseSocket, SocketIs, Open, Returns
<1>14. CASE BeatTimeout
  BY <1>14 DEF BeatTimeout, CloseSocket, SocketIs, Open, Returns, TimedOut, Silent
<1>15. CASE BeatFails
  BY <1>15 DEF BeatFails, SocketEnded, Open
<1>16. CASE EndError
  BY <1>16 DEF EndError, Returns, SocketEnded, Open
<1>17. CASE TakeDrain
  BY <1>17 DEF TakeDrain, Sends, Open
<1>18. CASE Announced
  BY <1>18 DEF Announced, Answered, TimedOut, SocketEnded, Open
<1>19. CASE DrainWaited
  BY <1>19 DEF DrainWaited, Unregister, Sends, Open, NothingInFlight
<1>20. CASE DrainGivesUp
  BY <1>20 DEF DrainGivesUp, Unregister, Sends, Open, NothingInFlight
<1>21. CASE Drained
  BY <1>21 DEF Drained, CloseSocket, SocketIs, Open, Returns, Answered, TimedOut,
     SocketEnded
<1>22. CASE UNCHANGED <<cycle, runs, rpc, closed, outcome>>
  BY <1>22
<1>23. QED
  BY <1>1, <1>2, <1>3, <1>4, <1>5, <1>6, <1>7, <1>8, <1>9, <1>10, <1>11, <1>12, <1>13,
     <1>14, <1>15, <1>16, <1>17, <1>18, <1>19, <1>20, <1>21, <1>22
     DEF Next, RunSteps, Cancel, CallDrain, AskDrain, DrainReturns, DrainAbandoned,
         Reload, Open, Apply, CloseToReregister, CloseSocket, SocketIs, ReaderStops,
         Hangs, GatewayReads, SocketCloses, Arrive, Finish, vars

\* A drain leaves its wait with the requests that it found all over, or with
\* the wait cut; a request that comes later is none of them.
LEMMA OwedNext ==
    ASSUME IndInv, [Next]_vars
    PROVE  OwedInv'
<1> USE ControlPlaneAssumption DEF IndInv, TypeOK, OwedInv, tryVars, endVars, runVars,
        backVars, drainVars, handlerVars, netVars, reqVars, waitVars, clientVars, sideVars
<1>1. CASE StartRun
  BY <1>1 DEF StartRun, NextCycle
<1>2. CASE Settle
  BY <1>2 DEF Settle, RunReturns, AwayWait, NoRegistration
<1>3. CASE Backoff
  BY <1>3 DEF Backoff, RunReturns
<1>4. CASE TakeToken
  BY <1>4 DEF TakeToken
<1>5. CASE NoSocket
  BY <1>5 DEF NoSocket, Returns
<1>6. CASE Dial
  BY <1>6 DEF Dial
<1>7. CASE RegisterFails
  BY <1>7 DEF RegisterFails, TimedOut, SocketEnded, Open
<1>8. CASE RegisterRefused
  BY <1>8 DEF RegisterRefused, CloseSocket, SocketIs, Open, Returns
<1>9. CASE Registered
  BY <1>9 DEF Registered, WriteBack
<1>10. CASE LoopEnds
  BY <1>10 DEF LoopEnds, SocketEnded, Open
<1>11. CASE Beat
  BY <1>11 DEF Beat, Sends, Open, Ticks
<1>12. CASE BeatAnswered
  BY <1>12 DEF BeatAnswered, Answered
<1>13. CASE BeatOffline
  BY <1>13 DEF BeatOffline, CloseSocket, SocketIs, Open, Returns
<1>14. CASE BeatTimeout
  BY <1>14 DEF BeatTimeout, CloseSocket, SocketIs, Open, Returns, TimedOut, Silent
<1>15. CASE BeatFails
  BY <1>15 DEF BeatFails, SocketEnded, Open
<1>16. CASE EndError
  BY <1>16 DEF EndError, Returns, SocketEnded, Open
<1>17. CASE TakeDrain
  BY <1>17 DEF TakeDrain, Sends, Open
<1>18. CASE Announced
  BY <1>18 DEF Announced, Answered, TimedOut, SocketEnded, Open
<1>19. CASE DrainWaited
  BY <1>19 DEF DrainWaited, Unregister, Sends, Open, NothingInFlight
<1>20. CASE DrainGivesUp
  BY <1>20 DEF DrainGivesUp, Unregister, Sends, Open, NothingInFlight
<1>21. CASE Drained
  BY <1>21 DEF Drained, CloseSocket, SocketIs, Open, Returns, Answered, TimedOut,
     SocketEnded
<1>22. ASSUME NEW r \in Requests, Arrive(r) PROVE OwedInv'
  BY <1>22 DEF Arrive
<1>23. ASSUME NEW r \in Requests, Finish(r) PROVE OwedInv'
  BY <1>23 DEF Finish
<1>24. CASE UNCHANGED <<owed, fresh, busy, rpc, outcome, cut>>
  BY <1>24
<1>25. QED
  BY <1>1, <1>2, <1>3, <1>4, <1>5, <1>6, <1>7, <1>8, <1>9, <1>10, <1>11, <1>12, <1>13,
     <1>14, <1>15, <1>16, <1>17, <1>18, <1>19, <1>20, <1>21, <1>22, <1>23, <1>24
     DEF Next, RunSteps, Cancel, CallDrain, AskDrain, DrainReturns, DrainAbandoned,
         Reload, Open, Apply, CloseToReregister, CloseSocket, SocketIs, ReaderStops,
         Hangs, GatewayReads, SocketCloses, vars

-----------------------------------------------------------------------------
(* The theorems.                                                           *)

\* It holds at the start.
LEMMA InitInd == Init => IndInv
<1> SUFFICES ASSUME Init PROVE IndInv OBVIOUS
<1> USE ControlPlaneAssumption DEF Init
<1>1. TypeOK
  <2>1. TypeRun
    <3>1. ctxDone \in BOOLEAN OBVIOUS
    <3>2. QED BY <3>1 DEF TypeRun
  <2>2. TypeReg BY DEF TypeReg, Registrations, NoRegistration
  <2>3. TypeEnd
    <3>1. registered \in BOOLEAN OBVIOUS
    <3>2. QED BY <3>1 DEF TypeEnd
  <2>4. TypeBack BY DEF TypeBack
  <2>5. TypeDrain
    <3>1. drainCh \in BOOLEAN OBVIOUS
    <3>2. QED BY <3>1 DEF TypeDrain
  <2>6. TypeNet
    <3>1. hung \in BOOLEAN OBVIOUS
    <3>2. QED BY <3>1 DEF TypeNet
  <2>7. TypeInbox BY DEF TypeInbox
  <2>8. TypeHandler BY DEF TypeHandler
  <2>9. TypeReq
    <3>1. cut \in BOOLEAN OBVIOUS
    <3>2. QED BY <3>1 DEF TypeReq
  <2>10. QED
    BY <2>1, <2>2, <2>3, <2>4, <2>5, <2>6, <2>7, <2>8, <2>9, TypeGroups
<1>2. AttemptInv BY DEF AttemptInv
<1>3. ReplacedInv BY DEF ReplacedInv, InSession
<1>4. CycleInv BY DEF CycleInv
<1>5. OwedInv BY DEF OwedInv
<1>6. QED BY <1>1, <1>2, <1>3, <1>4, <1>5 DEF IndInv

\* The inductive invariant of Run, its sessions and the callers of Drain.
THEOREM Invariance == Spec => []IndInv
<1>1. IndInv /\ [Next]_vars => IndInv'
  <2> SUFFICES ASSUME IndInv, [Next]_vars PROVE IndInv' OBVIOUS
  <2>1. /\ TypeRun' /\ TypeReg' /\ TypeEnd' /\ TypeBack' /\ TypeDrain' /\ TypeNet'
        /\ TypeInbox' /\ TypeHandler' /\ TypeReq'
    BY TypeRunNext, TypeRegNext, TypeEndNext, TypeBackNext, TypeDrainNext, TypeNetNext,
       TypeInboxNext, TypeHandlerNext, TypeReqNext
  <2>2. TypeOK'
    BY <2>1 DEF TypeOK, TypeRun, TypeReg, TypeEnd, TypeBack, TypeDrain, TypeNet,
                TypeInbox, TypeHandler, TypeReq
  <2>3. AttemptInv' /\ ReplacedInv' /\ CycleInv' /\ OwedInv'
    BY AttemptNext, ReplacedNext, CycleNext, OwedNext
  <2>4. QED BY <2>2, <2>3 DEF IndInv
<1>2. QED BY InitInd, <1>1, PTL DEF Spec

\* Type correctness, with every counter within its bound.
THEOREM TypeCorrect == Spec => []TypeOK
<1>1. IndInv => TypeOK BY DEF IndInv
<1>2. QED BY <1>1, Invariance, PTL

\* A drain spares the requests in flight, however many there are.
THEOREM RequestsAreSpared == Spec => []DrainSparesRequests
<1>1. IndInv => DrainSparesRequests BY DEF IndInv, OwedInv, DrainSparesRequests
<1>2. QED BY <1>1, Invariance, PTL

\* close(c.drained) never panics, however often Run and Drain are called.
THEOREM ClosedOnce == Spec => []DrainedClosedOnce
<1>1. IndInv => DrainedClosedOnce BY DEF IndInv, CycleInv, DrainedClosedOnce
<1>2. QED BY <1>1, Invariance, PTL

\* Twins slow each other down.
THEOREM TwinsBackOff == Spec => []TwinsSlowDown
<1>1. IndInv => TwinsSlowDown BY DEF IndInv, ReplacedInv, TwinsSlowDown
<1>2. QED BY <1>1, Invariance, PTL

\* Only Registered and Apply write Client.reg, and neither takes back what a
\* reload changed.
THEOREM ReloadsStay == Spec => NoReloadIsLost
<1> DEFINE Kept == reg'.rest >= reg.rest /\ (reg.addr = "given" => reg'.addr = "given")
<1>1. IndInv /\ [Next]_vars => Kept \/ UNCHANGED vars
  <2> SUFFICES ASSUME IndInv, [Next]_vars, ~UNCHANGED vars PROVE Kept OBVIOUS
  <2>1. reg \in Registrations /\ reg.rest \in Nat /\ snap \in Registrations
    BY ControlPlaneAssumption DEF IndInv, TypeOK, Registrations
  <2>2. CASE Registered
    <3>1. reg' = WriteBack BY <2>2 DEF Registered
    <3>2. QED BY <2>1, <3>1 DEF WriteBack, Registrations
  <2>3. CASE Apply
    <3>1. PICK addr \in {reg.addr, "given"}, rest \in {reg.rest, reg.rest + 1} :
            reg' = [addr |-> addr, rest |-> rest]
      BY <2>3 DEF Apply
    <3>2. QED BY <2>1, <3>1
  <2>4. CASE reg' = reg
    BY <2>1, <2>4
  <2>5. QED
    BY <2>2, <2>3, <2>4 DEF Next, RunSteps, clientVars, StartRun, Cancel, Settle, Backoff,
       TakeToken, NoSocket, Dial, RegisterFails, RegisterRefused, LoopEnds, Beat,
       BeatAnswered, BeatOffline, BeatTimeout, BeatFails, EndError, TakeDrain, Announced,
       DrainWaited, Unregister, DrainGivesUp, Drained, CallDrain, AskDrain, DrainReturns,
       DrainAbandoned, Reload, CloseToReregister, ReaderStops, Hangs, GatewayReads,
       SocketCloses, Arrive, Finish, vars
<1>2. QED BY <1>1, Invariance, PTL DEF Spec, NoReloadIsLost
=============================================================================
