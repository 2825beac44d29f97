---------------------------- MODULE ControlPlane ----------------------------
(***************************************************************************)
(* The life of a control-plane connection: lib/gatewayclient, Client.Run,  *)
(* Client.Drain, runSession, session.loop, session.drain, session.call,    *)
(* the reader and the handlers of the gateway's commands.                  *)
(*                                                                         *)
(* Run is one goroutine that goes from session to session.  Beside it run  *)
(* the callers of Drain (the application's, and one for every /drain of    *)
(* the gateway), the handler of a /reload, which may outlive the session   *)
(* it came on, and the requests of the data plane.  The gateway may        *)
(* answer, answer too late, refuse, close, or hang: keep the socket open   *)
(* and never say anything again.  The /status traffic of Load is module    *)
(* StatusSync's.                                                           *)
(***************************************************************************)
EXTENDS Integers, Sequences

CONSTANTS
    Callers,      \* goroutines that call Drain, each any number of times
    Requests,     \* requests of the data plane
    MaxRuns,      \* bound: calls of Run
    MaxSessions,  \* bound: sockets opened
    MaxAttempts,  \* bound: failures in a row before the model stops dialling
    MaxReloads    \* bound: /reloads that change the prefixes or the capacity

ASSUME ControlPlaneAssumption ==
    /\ MaxRuns \in Nat \ {0}
    /\ MaxSessions \in Nat \ {0}
    /\ MaxAttempts \in Nat \ {0}
    /\ MaxReloads \in Nat

VARIABLES
    rpc,         \* where Run is
    runs,        \* calls of Run so far
    ctxDone,     \* Run's context is done
    cur,         \* the session Run is in, or was in last
    snap,        \* the registration this session asks for
    unanswered,  \* session.loop's count
    outcome,     \* what runSession returned
    registered,
    attempt, replaced, waits,  \* Run's counters, and the wait it chose
    row,         \* 1001s that really came in a row, each soon
    reg,         \* Client.reg: the address, and the rest: prefixes and capacity
    drainCh,     \* Client.drainCh holds a request
    cycle,       \* Client.drained, numbered
    closed,      \* the cycles whose channel is closed
    state,       \* Client.state; overloaded is StatusSync's
    dpc, dcycle, \* each caller of Drain, and the channel it took
    sock,        \* its socket: "none", "open", or how the reader ended
    pend,        \* the answer to Run's call
    hpc, hs,     \* the handler of a /reload, and its session
    inbox,       \* the calls the gateway has still to read on it
    hung,        \* the gateway does not serve it any more
    phase,       \* the last call on it the gateway carried out
    busy, fresh, \* requests in flight, and still to come
    owed, cut    \* in flight when draining was announced; no longer waited for

tryVars     == <<runs, ctxDone, cur, snap>>
endVars     == <<unanswered, outcome, registered>>
runVars     == <<rpc, tryVars, endVars>>
backVars    == <<attempt, replaced, waits, row>>
drainVars   == <<drainCh, cycle, closed, dpc, dcycle>>
handlerVars == <<hpc, hs>>
netVars     == <<sock, inbox, hung, phase>>
reqVars     == <<busy, fresh>>
waitVars    == <<owed, cut>>
clientVars  == <<reg, drainVars, state>>
sideVars    == <<handlerVars, reqVars, waitVars>>
vars == <<runVars, backVars, clientVars, netVars, pend, sideVars>>

-----------------------------------------------------------------------------
\* "unset" is the empty address.
Registrations == [addr : {"unset", "local", "given"}, rest : 0..MaxReloads]
NoRegistration == [addr |-> "unset", rest |-> 0]
Closes == {"away", "policy", "rejected", "lost"}
Open == sock = "open"

\* The socket ends, and with it what was on it; it ends once.
SocketIs(how) ==
    /\ sock' = IF Open THEN how ELSE sock
    /\ inbox' = <<>>
    /\ hung' = FALSE
    /\ phase' = "none"

\* session.close, and the cancel runSession defers: the reader stops.
CloseSocket == SocketIs("lost")

\* session.call: the frame is written, if there is a socket to write it on.
Sends(action) ==
    /\ inbox' = IF Open THEN Append(inbox, action) ELSE inbox
    /\ pend' = "sent"

\* session.call: its three ways to come back.
Answered == pend \in {"result", "error"}
TimedOut == pend = "sent"
SocketEnded == ~Open

-----------------------------------------------------------------------------
(* Run: a call of it, and what it does between two sessions.               *)

\* Mutation: a Run after a drain keeps the channel the drain closed.
NextCycleNever == cycle

\* After a drain, a Run has a channel of its own.
NextCycle == IF cycle \in closed THEN cycle + 1 ELSE cycle

\* Run begins, with a context of its own; after a drain it starts a fresh
\* cycle.
StartRun ==
    /\ rpc = "out"
    /\ runs < MaxRuns
    /\ runs' = runs + 1
    /\ cycle' = NextCycle
    /\ ctxDone' = FALSE
    /\ rpc' = "token"
    /\ state' = "connecting"
    /\ UNCHANGED <<cur, snap, endVars, backVars, reg, drainCh, closed, dpc, dcycle, netVars,
                   pend, sideVars>>

\* The context Run was given ends.
Cancel ==
    /\ rpc # "out"
    /\ ~ctxDone
    /\ ctxDone' = TRUE
    /\ UNCHANGED <<rpc, runs, cur, snap, endVars, backVars, clientVars, netVars, pend,
                   sideVars>>

\* runSession returns to Run, cancelling the session's context.
Returns(why, wasRegistered) ==
    /\ rpc' = "settle"
    /\ outcome' = why
    /\ registered' = wasRegistered
    /\ unanswered' = 0

\* Mutation: the 1001s in a row are counted and not used.
AwayWaitPlain(tries, count) == tries

\* The wait after a 1001, the count-th of its kind.
AwayWait(tries, count) == IF count - 1 > tries THEN count - 1 ELSE tries

\* Run returns; its counters are gone with it.
RunReturns ==
    /\ rpc' = "out"
    /\ attempt' = 0 /\ replaced' = 0 /\ waits' = 0 /\ row' = 0

\* Run, the switch on how the session ended; the session is let go.
Settle ==
    /\ rpc = "settle"
    /\ LET tries == IF registered THEN 0 ELSE attempt IN
       \/ /\ ctxDone
          /\ RunReturns
          /\ UNCHANGED state
       \/ /\ ~ctxDone /\ outcome = "drained"
          /\ RunReturns
          /\ state' = "offline"
       \/ /\ ~ctxDone /\ outcome = "away"
          /\ rpc' = "backoff"
          /\ state' = "offline"
          /\ \E soon \in BOOLEAN :
               /\ replaced' = IF soon THEN replaced + 1 ELSE 0
               /\ row' = IF soon THEN row + 1 ELSE 0
          /\ waits' = AwayWait(tries, replaced')
          /\ attempt' = tries + 1
       \/ /\ ~ctxDone /\ outcome \in {"refused", "rejected"}
          /\ rpc' = "backoff"
          /\ state' = "offline"
          /\ attempt' = tries
          /\ waits' = 0 /\ row' = 0
          /\ UNCHANGED replaced
       \/ /\ ~ctxDone /\ outcome \in {"dial", "lost"}
          /\ rpc' = "backoff"
          /\ state' = "offline"
          /\ waits' = tries
          /\ attempt' = tries + 1
          /\ row' = 0
          /\ UNCHANGED replaced
    /\ outcome' = "none" /\ registered' = FALSE
    /\ owed' = {} /\ cut' = FALSE
    /\ snap' = NoRegistration
    /\ sock' = "none"
    /\ UNCHANGED <<runs, ctxDone, cur, unanswered, reg, drainVars, inbox, hung, phase, pend,
                   handlerVars, reqVars>>

\* Run sleeps, and goes to the next session or ends with its context.
Backoff ==
    /\ rpc = "backoff"
    /\ \/ /\ ctxDone
          /\ RunReturns
          /\ UNCHANGED state
       \/ /\ attempt < MaxAttempts
          /\ rpc' = "token"
          /\ state' = "connecting"
          /\ waits' = 0
          /\ UNCHANGED <<attempt, replaced, row>>
    /\ UNCHANGED <<tryVars, endVars, reg, drainVars, netVars, pend, sideVars>>

-----------------------------------------------------------------------------
(* runSession: from the token to the registration.                         *)

\* The token is there, and the registration is read.
TakeToken ==
    /\ rpc = "token"
    /\ rpc' = "dial"
    /\ snap' = reg
    /\ UNCHANGED <<runs, ctxDone, cur, endVars, backVars, clientVars, netVars, pend,
                   sideVars>>

\* No token, no socket within the time (or the context), or a handshake
\* answered 4xx.
NoSocket ==
    /\ \/ rpc = "token" /\ Returns("dial", FALSE)
       \/ rpc = "dial" /\ Returns("dial", FALSE)
       \/ rpc = "dial" /\ ~ctxDone /\ Returns("rejected", FALSE)
    /\ UNCHANGED <<tryVars, backVars, clientVars, netVars, pend, sideVars>>

\* A socket: the reader starts, an empty address is the socket's own, and
\* /register is sent.
Dial ==
    /\ rpc = "dial"
    /\ ~ctxDone
    /\ cur < MaxSessions
    /\ cur' = cur + 1
    /\ sock' = "open" /\ hung' = FALSE /\ phase' = "none"
    /\ snap' = IF snap.addr = "unset" THEN [snap EXCEPT !.addr = "local"] ELSE snap
    /\ inbox' = <<"register">>
    /\ pend' = "sent"
    /\ rpc' = "register"
    /\ UNCHANGED <<runs, ctxDone, endVars, backVars, clientVars, sideVars>>

\* /register has no answer within 5 s, or the socket ended: endError.
RegisterFails ==
    /\ rpc = "register"
    /\ TimedOut \/ SocketEnded
    /\ rpc' = "end"
    /\ pend' = "none"
    /\ registered' = FALSE
    /\ UNCHANGED <<tryVars, unanswered, outcome, backVars, clientVars, netVars, sideVars>>

\* /register is refused, or its result is not one: the module closes.
RegisterRefused ==
    /\ rpc = "register"
    /\ \/ pend = "error" /\ Returns("refused", FALSE)
       \/ pend = "result" /\ Returns("lost", FALSE)
    /\ CloseSocket
    /\ pend' = "none"
    /\ UNCHANGED <<tryVars, backVars, clientVars, sideVars>>

\* Mutation: the registration goes back whole.
WriteBackWhole == snap

\* What goes back into Client.reg: an address it has not, and no more.
WriteBack == IF reg.addr = "unset" THEN [reg EXCEPT !.addr = snap.addr] ELSE reg

\* /register is accepted; of the registration only the address goes back.
Registered ==
    /\ rpc = "register"
    /\ pend = "result"
    /\ pend' = "none"
    /\ rpc' = "loop"
    /\ unanswered' = 0
    /\ registered' = TRUE
    /\ reg' = WriteBack
    /\ state' = "ready"
    /\ UNCHANGED <<tryVars, outcome, backVars, drainVars, netVars, sideVars>>

-----------------------------------------------------------------------------
(* session.loop.                                                           *)

\* The reader stopped: endError.
LoopEnds ==
    /\ rpc = "loop"
    /\ SocketEnded
    /\ rpc' = "end"
    /\ UNCHANGED <<tryVars, endVars, backVars, clientVars, netVars, pend, sideVars>>

\* Mutation: no heartbeat is sent after one that was not answered.
TicksAnswered == rpc = "loop" /\ unanswered = 0

\* The loop's ticker.
Ticks == rpc = "loop"

\* /heartbeat is sent.
Beat ==
    /\ Ticks
    /\ rpc' = "beat"
    /\ Sends("heartbeat")
    /\ UNCHANGED <<tryVars, endVars, backVars, clientVars, sock, hung, phase, sideVars>>

\* Any answer to a heartbeat, an error too, shows the gateway is there ...
BeatAnswered ==
    /\ rpc = "beat"
    /\ Answered
    /\ pend' = "none"
    /\ unanswered' = 0
    /\ rpc' = "loop"
    /\ UNCHANGED <<tryVars, outcome, registered, backVars, clientVars, netVars, sideVars>>

\* ... unless it says the instance is offline.
BeatOffline ==
    /\ rpc = "beat"
    /\ pend = "result"
    /\ pend' = "none"
    /\ Returns("lost", TRUE)
    /\ CloseSocket
    /\ UNCHANGED <<tryVars, backVars, clientVars, sideVars>>

\* Mutation: the third unanswered heartbeat closes.
SilentThird == unanswered + 1 > 2

\* This unanswered heartbeat is the second in a row.
Silent == unanswered + 1 >= 2

\* No answer within the interval: the second in a row closes 4001.
BeatTimeout ==
    /\ rpc = "beat"
    /\ TimedOut
    /\ pend' = "none"
    /\ IF Silent
         THEN Returns("lost", TRUE) /\ CloseSocket
         ELSE /\ rpc' = "loop"
              /\ unanswered' = unanswered + 1
              /\ UNCHANGED <<outcome, registered, netVars>>
    /\ UNCHANGED <<tryVars, backVars, clientVars, sideVars>>

\* The socket ended under the heartbeat: endError.
BeatFails ==
    /\ rpc = "beat"
    /\ SocketEnded
    /\ rpc' = "end"
    /\ pend' = "none"
    /\ UNCHANGED <<tryVars, endVars, backVars, clientVars, netVars, sideVars>>

\* endError waits for the reader, and tells how the socket ended.
EndError ==
    /\ rpc = "end"
    /\ SocketEnded
    /\ Returns(CASE sock = "away" -> "away"
                 [] sock = "policy" -> "refused"
                 [] sock = "rejected" -> "rejected"
                 [] OTHER -> "lost", registered)
    /\ UNCHANGED <<tryVars, backVars, clientVars, netVars, pend, sideVars>>

-----------------------------------------------------------------------------
(* session.drain: announce, wait, unregister, close.                       *)

\* The loop takes a request to drain and announces it.
TakeDrain ==
    /\ rpc = "loop"
    /\ drainCh
    /\ drainCh' = FALSE
    /\ rpc' = "announce"
    /\ state' = "draining"
    /\ Sends("draining")
    /\ owed' = busy /\ cut' = FALSE
    /\ UNCHANGED <<tryVars, endVars, backVars, reg, cycle, closed, dpc, dcycle, sock,
                   hung, phase, handlerVars, reqVars>>

\* Answered or not, the wait begins.
Announced ==
    /\ rpc = "announce"
    /\ Answered \/ TimedOut \/ SocketEnded
    /\ rpc' = "wait"
    /\ pend' = "none"
    /\ UNCHANGED <<tryVars, endVars, backVars, clientVars, netVars, sideVars>>

Unregister ==
    /\ rpc' = "unregister"
    /\ Sends("unregister")

\* Mutation: what is in flight is not asked.
NothingInFlightEver == TRUE

NothingInFlight == busy = {}

\* Mutation: no deadline cuts the wait, only the end of the socket.
WaitIsCutLate == SocketEnded

\* The deadline may pass, or the socket end, at any time.
WaitIsCut == TRUE

\* Nothing is in flight any more.
DrainWaited ==
    /\ rpc = "wait"
    /\ NothingInFlight
    /\ Unregister
    /\ UNCHANGED <<tryVars, endVars, backVars, clientVars, sock, hung, phase, sideVars>>

\* The deadline passed, or the socket ended, with requests in flight.
DrainGivesUp ==
    /\ rpc = "wait"
    /\ ~NothingInFlight /\ WaitIsCut
    /\ cut' = TRUE
    /\ Unregister
    /\ UNCHANGED <<tryVars, endVars, backVars, clientVars, sock, hung, phase, handlerVars,
                   reqVars, owed>>

\* Answered or not, the module closes 1000 and releases the callers.
Drained ==
    /\ rpc = "unregister"
    /\ Answered \/ TimedOut \/ SocketEnded
    /\ pend' = "none"
    /\ CloseSocket
    /\ closed' = closed \cup {cycle}
    /\ Returns("drained", TRUE)
    /\ UNCHANGED <<tryVars, backVars, reg, drainCh, cycle, dpc, dcycle, state, sideVars>>

-----------------------------------------------------------------------------
(* Client.drain, called by the application and for the gateway's /drain.   *)

\* The caller takes the channel that will be closed.
CallDrain(c) ==
    /\ dpc[c] = "none"
    /\ dpc' = [dpc EXCEPT ![c] = "ask"]
    /\ dcycle' = [dcycle EXCEPT ![c] = cycle]
    /\ UNCHANGED <<runVars, backVars, reg, drainCh, cycle, closed, state, netVars, pend,
                   sideVars>>

\* It leaves a request, unless one is pending, ...
AskDrain(c) ==
    /\ dpc[c] = "ask"
    /\ dpc' = [dpc EXCEPT ![c] = "wait"]
    /\ drainCh' = TRUE
    /\ UNCHANGED <<runVars, backVars, reg, cycle, closed, dcycle, state, netVars, pend,
                   sideVars>>

\* ... and waits for the channel.
DrainReturns(c) ==
    /\ dpc[c] = "wait"
    /\ dcycle[c] \in closed
    /\ dpc' = [dpc EXCEPT ![c] = "none"]
    /\ dcycle' = [dcycle EXCEPT ![c] = 0]
    /\ UNCHANGED <<runVars, backVars, reg, drainCh, cycle, closed, state, netVars, pend,
                   sideVars>>

\* A caller whose own context ends leaves; its request stays in the channel.
DrainAbandoned(c) ==
    /\ dpc[c] = "wait"
    /\ dpc' = [dpc EXCEPT ![c] = "none"]
    /\ dcycle' = [dcycle EXCEPT ![c] = 0]
    /\ UNCHANGED <<runVars, backVars, reg, drainCh, cycle, closed, state, netVars, pend,
                   sideVars>>

-----------------------------------------------------------------------------
(* The handler of a /reload.                                               *)

\* The reader starts it; commands come to a registered instance.
Reload ==
    /\ hpc = "none"
    /\ Open /\ ~hung
    /\ phase \in {"register", "draining"}
    /\ hpc' = "hook"
    /\ hs' = cur
    /\ UNCHANGED <<runVars, backVars, clientVars, netVars, pend, reqVars, waitVars>>

\* OnReload returned: what it changed goes into the registration.
Apply ==
    /\ hpc = "hook"
    /\ \E addr \in {reg.addr, "given"}, rest \in {reg.rest, reg.rest + 1} :
         /\ rest <= MaxReloads
         /\ reg' = [addr |-> addr, rest |-> rest]
    /\ hpc' = IF reg' = reg THEN "none" ELSE "close"
    /\ hs' = IF reg' = reg THEN 0 ELSE hs
    /\ UNCHANGED <<runVars, backVars, drainVars, state, netVars, pend, reqVars, waitVars>>

\* The session the command came on is closed, to register anew.
CloseToReregister ==
    /\ hpc = "close"
    /\ hpc' = "none" /\ hs' = 0
    /\ IF hs = cur THEN CloseSocket ELSE UNCHANGED netVars
    /\ UNCHANGED <<runVars, backVars, clientVars, pend, reqVars, waitVars>>

-----------------------------------------------------------------------------
(* The reader's end, the gateway and the data plane.                       *)

\* Mutation: a session's context is not derived from Run's.
SessionCtxDoneNever == FALSE

\* A session's context is derived from Run's.
SessionCtxDone == ctxDone

\* The session's context ends with Run's: the reader stops.
ReaderStops ==
    /\ SessionCtxDone
    /\ Open
    /\ CloseSocket
    /\ UNCHANGED <<runVars, backVars, clientVars, pend, sideVars>>

\* The gateway closes, 1001, 1008 or otherwise; or the network drops the
\* socket; or the frame it sent is too large, and the reader closes 1009.
SocketCloses(how) ==
    /\ Open
    /\ how # "lost" => ~hung
    /\ how = "rejected" => phase = "none"
    /\ SocketIs(how)
    /\ UNCHANGED <<runVars, backVars, clientVars, pend, sideVars>>

\* The gateway hangs.
Hangs ==
    /\ Open /\ ~hung
    /\ hung' = TRUE
    /\ UNCHANGED <<runVars, backVars, clientVars, sock, inbox, phase, pend, sideVars>>

\* The gateway reads a call and answers it.  The answer is the awaited one
\* only to the last call made; a late one finds no pending call and is dropped.
GatewayReads ==
    /\ Open /\ ~hung
    /\ inbox # <<>>
    /\ inbox' = Tail(inbox)
    /\ \E reply \in {"none", "result", "error"} :
         /\ pend' = IF pend = "sent" /\ Len(inbox) = 1 /\ reply # "none" THEN reply ELSE pend
         /\ phase' = CASE reply = "error" \/ Head(inbox) = "heartbeat" -> phase
                       [] OTHER -> Head(inbox)
    /\ UNCHANGED <<runVars, backVars, clientVars, sock, hung, sideVars>>

\* A request comes over the data plane, and ends.
Arrive(r) ==
    /\ r \in fresh
    /\ cur # 0
    /\ fresh' = fresh \ {r}
    /\ busy' = busy \cup {r}
    /\ UNCHANGED <<runVars, backVars, clientVars, netVars, pend, handlerVars, waitVars>>

Finish(r) ==
    /\ r \in busy
    /\ busy' = busy \ {r}
    /\ UNCHANGED <<runVars, backVars, clientVars, netVars, pend, handlerVars, fresh,
                   waitVars>>

-----------------------------------------------------------------------------
Init ==
    /\ rpc = "out" /\ runs = 0 /\ ctxDone = FALSE /\ cur = 0
    /\ reg \in [addr : {"unset", "given"}, rest : {0}]
    /\ snap = NoRegistration
    /\ unanswered = 0 /\ outcome = "none" /\ registered = FALSE
    /\ attempt = 0 /\ replaced = 0 /\ waits = 0 /\ row = 0
    /\ drainCh = FALSE /\ cycle = 1 /\ closed = {}
    /\ state = "offline"
    /\ dpc = [c \in Callers |-> "none"] /\ dcycle = [c \in Callers |-> 0]
    /\ sock = "none" /\ inbox = <<>> /\ hung = FALSE /\ phase = "none" /\ pend = "none"
    /\ hpc = "none" /\ hs = 0
    /\ busy = {} /\ fresh = Requests /\ owed = {} /\ cut = FALSE

RunSteps ==
    \/ Settle \/ Backoff \/ TakeToken \/ NoSocket \/ Dial
    \/ RegisterFails \/ RegisterRefused \/ Registered
    \/ LoopEnds \/ Beat \/ BeatAnswered \/ BeatOffline \/ BeatTimeout \/ BeatFails \/ EndError
    \/ TakeDrain \/ Announced \/ DrainWaited \/ DrainGivesUp \/ Drained

Next ==
    \/ StartRun \/ Cancel
    \/ RunSteps
    \/ \E c \in Callers : CallDrain(c) \/ AskDrain(c) \/ DrainReturns(c)
                          \/ DrainAbandoned(c)
    \/ Reload \/ Apply \/ CloseToReregister
    \/ ReaderStops \/ Hangs \/ GatewayReads
    \/ \E how \in Closes : SocketCloses(how)
    \/ \E r \in Requests : Arrive(r) \/ Finish(r)

Spec == Init /\ [][Next]_vars

\* Run's goroutine runs on: every call in it has a timeout, and the ticker
\* and the deadline fire.  The loop's select takes any case that stays ready
\* round after round, as Go's picks among them at random.  A reader whose
\* context ended stops, and a caller of Drain is scheduled.  Nothing is
\* asked of the gateway, the network, the requests or the application's hooks.
Fairness ==
    /\ WF_vars(RunSteps)
    /\ SF_vars(TakeDrain) /\ SF_vars(LoopEnds)
    /\ WF_vars(DrainGivesUp)
    /\ WF_vars(ReaderStops)
    /\ \A c \in Callers : WF_vars(AskDrain(c)) /\ WF_vars(DrainReturns(c))

FairSpec == Spec /\ Fairness

-----------------------------------------------------------------------------
(* Properties.                                                             *)

\* Types; session.loop never counts a second unanswered heartbeat, it closes.
TypeOK ==
    /\ rpc \in {"out", "token", "dial", "register", "loop", "beat", "announce", "wait",
                "unregister", "end", "settle", "backoff"}
    /\ runs \in 0..MaxRuns /\ ctxDone \in BOOLEAN /\ cur \in 0..MaxSessions
    /\ snap \in Registrations /\ reg \in Registrations
    /\ unanswered \in 0..1
    /\ outcome \in {"none", "drained", "away", "refused", "rejected", "dial", "lost"}
    /\ registered \in BOOLEAN
    /\ attempt \in 0..MaxAttempts /\ replaced \in 0..MaxSessions
    /\ row \in 0..MaxSessions /\ waits \in 0..(MaxAttempts + MaxSessions)
    /\ drainCh \in BOOLEAN /\ cycle \in 1..MaxRuns /\ closed \subseteq 1..MaxRuns
    /\ state \in {"offline", "connecting", "ready", "draining"}
    /\ dpc \in [Callers -> {"none", "ask", "wait"}]
    /\ dcycle \in [Callers -> 0..MaxRuns]
    /\ sock \in Closes \cup {"none", "open"}
    /\ pend \in {"none", "sent", "result", "error"}
    /\ hpc \in {"none", "hook", "close"} /\ hs \in 0..MaxSessions
    /\ inbox \in Seq({"register", "heartbeat", "draining", "unregister"})
    /\ phase \in {"none", "register", "draining", "unregister"} /\ hung \in BOOLEAN
    /\ busy \subseteq Requests /\ fresh \subseteq Requests
    /\ owed \subseteq Requests /\ cut \in BOOLEAN

\* Every request in flight when draining was announced is over before the
\* gateway is told to forget the instance and before Drain's callers are let
\* go, unless the deadline passed or the socket ended.
DrainSparesRequests ==
    (rpc = "unregister" \/ (rpc = "settle" /\ outcome = "drained")) /\ ~cut
        => owed \cap busy = {}

\* close(c.drained) never meets a channel that is closed: it would panic.
\* Every drain closes the channel of its own Run.
DrainedClosedOnce ==
    rpc \in {"announce", "wait", "unregister"} => cycle \notin closed

\* Two instances under one name slow each other down: after k 1001s in a
\* row, each soon after its session began, the wait is that of attempt k - 1
\* at least, though every registration between them resets the attempts.
TwinsSlowDown == rpc = "backoff" => waits >= row - 1

\* What a /reload changed is never undone by a registration that was in
\* flight meanwhile.
NoReloadIsLost ==
    [][reg'.rest >= reg.rest /\ (reg.addr = "given" => reg'.addr = "given")]_vars

\* A gateway that hangs under a registered session is noticed: the session
\* is given up.
SilenceIsNoticed ==
    (rpc = "loop" /\ hung) ~> (rpc \in {"backoff", "out"})

\* A request to drain that finds a registered session is carried out, though
\* the gateway hangs and the requests in flight never end; or the session
\* ends first.
DrainIsCarriedOut ==
    (rpc = "loop" /\ drainCh) ~> (cycle \in closed \/ rpc \in {"backoff", "out"})

\* When its context ends Run returns, wherever it is.
CancelStopsRun == ctxDone ~> (rpc = "out")

\* A registration the gateway does not answer ends: Run reconnects until its
\* context is done.
RegisterIsGivenUp == (rpc = "register") ~> (rpc \in {"loop", "backoff", "out"})

\* A caller that drains after Run's context is done is let go, to stop the
\* HTTP server then.
DrainAfterDone == \A c \in Callers : (dpc[c] = "wait" /\ ctxDone) ~> (dpc[c] = "none")
=============================================================================
