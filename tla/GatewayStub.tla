---------------------------- MODULE GatewayStub ----------------------------
(***************************************************************************)
(* The gateway's side of the control plane: internal/gatewaystub, the      *)
(* double of it that the modules are tested, and run, against.             *)
(*                                                                         *)
(* Every connection has a goroutine of its own, serve, a timer that ends   *)
(* it when it does not register, and a watcher that ends it when it falls  *)
(* silent.  A registration replaces the connection before it, the tests    *)
(* drop, replace and kick the current one, and the peer may go at any      *)
(* time: whoever ends a connection decides under the lock, or before it,   *)
(* and closes after it, so that several may be about to close one          *)
(* connection.  What they are about to do is in closing.                   *)
(*                                                                         *)
(* Of the time, there is what is told apart: the register timer may fire   *)
(* at any moment, and a connection is silent once OfflineAfter intervals   *)
(* have passed without a heartbeat.  Of what is recorded, there are the    *)
(* registrations and the close codes.                                      *)
(*                                                                         *)
(* The library's read limit, which the stub leaves as it is, is half of    *)
(* frame.MaxSize: a Read of more fails, so that Parse is never given a     *)
(* frame that is too large here.                                           *)
(***************************************************************************)
EXTENDS Frames, Integers, Sequences, FiniteSets, SequencesExt

CONSTANTS
    MaxConns,           \* bound: connections, numbered as they come
    Messages,           \* what a peer may send: Binary, or a wire
    Binary,             \* a message that is not text
    OverLimit,          \* those of them that are above the read limit
    None,               \* nil
    KickCodes,          \* what Kick is called with
    PeerCodes,          \* what a peer closes with; 1006 is no close frame
    MaxKicks            \* bound: calls of Kick and Replace that differ

ASSUME GatewayStubAssumption ==
    /\ MaxConns \in Nat /\ None \notin 1..MaxConns
    /\ \A msg \in Messages \ (OverLimit \cup {Binary}) : ~msg.large
    /\ MaxKicks \in Nat

VARIABLES
    sock,               \* the socket: none, open, closing, or dead
    peerCode,           \* the code the peer closed it with, or 1006
    rd,                 \* where serve is
    registered,         \* serve's variable, which the timer reads too
    timer,              \* regTimer: none, set, stopped, or fired, to close
    silent,             \* lastBeat is OfflineAfter intervals ago, or more
    watched,            \* watchHeartbeat runs
    closed,             \* conn.closed
    recorded,           \* its registration is in Stub.registrations
    closeCodes,         \* what Stub.closeCodes has of it
    current,            \* Stub.conn
    closing,            \* who is about to close what
    kicked              \* history: what Kick and Replace were called for

connVars  == <<sock, peerCode, rd, registered, timer, silent, watched>>
closeVars == <<closed, closeCodes>>
vars == <<connVars, closeVars, recorded, current, closing, kicked>>

Conns == 1..MaxConns

\* One who is about to close a connection, with a code; nobody is, who will
\* find it closed.
Closer(c, code) == [conn |-> c, code |-> code]

\* Mutation: close does not look whether somebody was faster.
FirstAlways(c) == TRUE

\* close and observeClose: whoever is first records the code.
First(c) == ~closed[c]

\* serve has returned, or handle has without it.
Gone(c) == rd[c] \in {"refused", "returned"}

\* Whoever comes later finds it closed, and returns.
Recorded(k) ==
    /\ closing' = {j \in closing : j.conn # k.conn}
    /\ closed' = [closed EXCEPT ![k.conn] = TRUE]
    /\ closeCodes' = IF First(k.conn) THEN [closeCodes EXCEPT ![k.conn] = Append(@, k.code)]
                     ELSE closeCodes

\* close: who is first closes the socket, too, after the lock.
Closes(k) ==
    /\ Recorded(k)
    /\ sock' = [sock EXCEPT ![k.conn] = IF First(k.conn) /\ @ # "dead" THEN "closing" ELSE @]

-----------------------------------------------------------------------------
(* The handshake.                                                          *)

Comes(c) == sock[c] = "none" /\ \A d \in Conns : d < c => sock[d] # "none"

\* handle: no route, a bad segment, or a bad token, and no connection.
Refuse(c) ==
    /\ Comes(c)
    /\ sock' = [sock EXCEPT ![c] = "refused"]
    /\ UNCHANGED <<peerCode, rd, registered, timer, silent, watched, closeVars, recorded,
                   current, closing, kicked>>

\* handle: a bad token, refused after 101, as RejectAfterUpgrade asks for.
RefuseLate(c) ==
    /\ Comes(c)
    /\ Recorded(Closer(c, 1008))
    /\ sock' = [sock EXCEPT ![c] = "closing"]
    /\ rd' = [rd EXCEPT ![c] = "refused"]
    /\ UNCHANGED <<peerCode, registered, timer, silent, watched, recorded, current, kicked>>

\* handle, and the start of serve.
Accept(c) ==
    /\ Comes(c)
    /\ sock' = [sock EXCEPT ![c] = "open"]
    /\ rd' = [rd EXCEPT ![c] = "reading"]
    /\ timer' = [timer EXCEPT ![c] = "set"]
    /\ UNCHANGED <<peerCode, registered, silent, watched, closeVars, recorded, current, closing,
                   kicked>>

-----------------------------------------------------------------------------
(* serve: a message is read.                                               *)

\* A socket that is being closed still gives what came on it.
Reads(c, msg) ==
    /\ rd[c] = "reading"
    /\ sock[c] \in {"open", "closing"}
    /\ msg \in Messages \ OverLimit

\* serve returns, and stops its timer.
Returns(c, how) ==
    /\ rd' = [rd EXCEPT ![c] = how]
    /\ timer' = [timer EXCEPT ![c] = IF @ = "set" THEN "stopped" ELSE @]
    /\ UNCHANGED <<peerCode, registered, silent, watched, recorded, current, kicked>>

\* serve closes the connection itself, and returns: what it read is nobody
\* else's, and it may as well have read it when it closes.
Leaves(c, code, how) == Closes(Closer(c, code)) /\ Returns(c, how)

ReadBinary(c) == Reads(c, Binary) /\ Leaves(c, 1003, "returned")

\* A message above the limit: the library tells the peer 1009 and fails the
\* Read with an error that has no close status, so that observeClose records
\* 1006.  The branch of serve for frame.ErrTooLarge is never reached.
ReadLarge(c) ==
    /\ rd[c] = "reading"
    /\ sock[c] \in {"open", "closing"}
    /\ Messages \cap OverLimit # {}
    /\ Recorded(Closer(c, 1006))
    /\ sock' = [sock EXCEPT ![c] = "dead"]
    /\ Returns(c, "returned")

\* A frame that is malformed is answered, with an id that nobody waits for;
\* so are a call before /register, with 409, an unknown action, with 404,
\* and a bad state, with 422.  A good one, and /unregister, are recorded, and
\* the module closes after the latter.  An answer goes to the Call that waits
\* for it, if one does.  The connection stays as it is.
ReadOther(c) ==
    /\ \E msg \in Messages \ {Binary} :
         /\ Reads(c, msg)
         /\ LET f == Parse(msg)
            IN  \/ f.type \in {Malformed.type, CallResult, CallError}
                \/ /\ f.type = Call
                   /\ \/ ~registered[c] /\ f.action # "/register"
                      \/ f.action \notin {"/register", "/heartbeat"}
    /\ UNCHANGED vars

\* A call that is taken: of a registered connection, or /register.
ReadsCall(c, action, payloads) ==
    \E msg \in Messages \ {Binary} :
        /\ Reads(c, msg)
        /\ Parse(msg).type = Call
        /\ Parse(msg).action = action
        /\ Parse(msg).payload \in payloads
        /\ registered[c] \/ action = "/register"

\* checkRegister: a payload that earns a refusal; FailRegister has every one
\* refused.
RegisterRefused(c) ==
    /\ ReadsCall(c, "/register", Objects)
    /\ Leaves(c, 1008, "refused")

\* Mutation: the connection before is forgotten, and not closed.
ReplacesNone(c) == {}

\* The connection that this registration replaces.
Replaces(c) ==
    IF current \notin {None, c} /\ ~closed[current]
      THEN {Closer(current, 1001)} ELSE {}

\* The registration is recorded, under the lock.
Register(c) ==
    /\ ReadsCall(c, "/register", Objects \ {Empty})
    /\ closing' = closing \cup Replaces(c)
    /\ current' = c
    /\ silent' = [silent EXCEPT ![c] = FALSE]
    /\ recorded' = [recorded EXCEPT ![c] = TRUE]
    /\ rd' = [rd EXCEPT ![c] = "registering"]
    /\ UNCHANGED <<sock, peerCode, registered, timer, watched, closeVars, kicked>>

\* After it: the variable, the answer, the watcher.
Registered(c) ==
    /\ rd[c] = "registering"
    /\ registered' = [registered EXCEPT ![c] = TRUE]
    /\ watched' = [watched EXCEPT ![c] = TRUE]
    /\ rd' = [rd EXCEPT ![c] = "reading"]
    /\ UNCHANGED <<sock, peerCode, timer, silent, closeVars, recorded, current,
                   closing, kicked>>

ReadHeartbeat(c) ==
    /\ ReadsCall(c, "/heartbeat", Objects)
    /\ silent' = [silent EXCEPT ![c] = FALSE]
    /\ UNCHANGED <<sock, peerCode, rd, registered, timer, watched, closeVars, recorded,
                   current, closing, kicked>>

-----------------------------------------------------------------------------
(* The ends of a connection.                                               *)

\* One who had decided to closes it.
Close(k) ==
    /\ k \in closing
    /\ Closes(k)
    /\ UNCHANGED <<peerCode, rd, registered, timer, silent, watched, recorded, current, kicked>>

\* The websocket's Close is through, or has waited long enough.
SocketEnds(c) ==
    /\ sock[c] = "closing"
    /\ sock' = [sock EXCEPT ![c] = "dead"]
    /\ UNCHANGED <<peerCode, rd, registered, timer, silent, watched, closeVars, recorded,
                   current, closing, kicked>>

\* The peer closes it, with a code or without: the module does with 1000
\* when it unregistered, 1002 and 1008 on an answer to /register, 1009, 1012
\* and 4001; the network may, and DropConnection does, with no close frame.
PeerEnds(c, code) ==
    /\ sock[c] = "open"
    /\ sock' = [sock EXCEPT ![c] = "dead"]
    /\ peerCode' = [peerCode EXCEPT ![c] = code]
    /\ UNCHANGED <<rd, registered, timer, silent, watched, closeVars, recorded, current, closing,
                   kicked>>

\* serve's read fails: observeClose, and serve returns, its timer stopped.
ReadFails(c) ==
    /\ rd[c] = "reading"
    /\ sock[c] = "dead"
    /\ Recorded(Closer(c, peerCode[c]))
    /\ Returns(c, "returned")
    /\ UNCHANGED sock

\* regTimer: it reads serve's variable, which nothing orders with the write,
\* and may see it as it was, whenever it closes.
TimerFires(c) ==
    /\ timer[c] = "set"
    /\ \/ /\ registered[c] \/ closed[c]
          /\ timer' = [timer EXCEPT ![c] = "stopped"]
          /\ UNCHANGED <<sock, closeVars, closing>>
       \/ /\ ~closed[c]
          /\ timer' = [timer EXCEPT ![c] = "fired"]
          /\ Closes(Closer(c, 1008))
    /\ UNCHANGED <<peerCode, rd, registered, silent, watched, recorded, current, kicked>>

\* The watcher stops when serve returned, or when the connection is closed.
WatchDone(c) == Gone(c) \/ closed[c]

\* A tick of watchHeartbeat that changes something.
Watch(c) ==
    /\ watched[c]
    /\ WatchDone(c) \/ silent[c]
    /\ watched' = [watched EXCEPT ![c] = FALSE]
    /\ closing' = IF WatchDone(c) THEN closing
                  ELSE closing \cup {Closer(c, 4000)}
    /\ UNCHANGED <<sock, peerCode, rd, registered, timer, silent, closeVars, recorded,
                   current, kicked>>

\* OfflineAfter intervals have passed.
Silence(c) ==
    /\ watched[c]
    /\ ~silent[c]
    /\ silent' = [silent EXCEPT ![c] = TRUE]
    /\ UNCHANGED <<sock, peerCode, rd, registered, timer, watched, closeVars, recorded,
                   current, closing, kicked>>

-----------------------------------------------------------------------------
(* The controls.                                                           *)

\* A control reads Stub.conn under the lock, and closes it after; it does
\* nothing to one that is closed.
Control(code) ==
    /\ current # None
    /\ ~closed[current]
    /\ kicked' = kicked \cup {Closer(current, code)}
    /\ Cardinality(kicked') <= MaxKicks
    /\ closing' = closing \cup {Closer(current, code)}
    /\ UNCHANGED <<connVars, closeVars, recorded, current>>

Kick(code) == code \in KickCodes /\ Control(code)

\* Replace: as a newer registration would, with none.
Replace == Control(1001)

-----------------------------------------------------------------------------
Init ==
    /\ sock = [c \in Conns |-> "none"] /\ peerCode = [c \in Conns |-> 1006]
    /\ rd = [c \in Conns |-> "none"] /\ registered = [c \in Conns |-> FALSE]
    /\ timer = [c \in Conns |-> "none"] /\ silent = [c \in Conns |-> FALSE]
    /\ watched = [c \in Conns |-> FALSE] /\ closed = [c \in Conns |-> FALSE]
    /\ recorded = [c \in Conns |-> FALSE] /\ current = None
    /\ closeCodes = [c \in Conns |-> <<>>] /\ closing = {} /\ kicked = {}

Serve(c) == Registered(c) \/ ReadFails(c)

Receive(c) ==
    \/ ReadBinary(c) \/ ReadLarge(c) \/ ReadOther(c)
    \/ RegisterRefused(c) \/ Register(c) \/ ReadHeartbeat(c)

Next ==
    \/ \E c \in Conns :
         \/ Refuse(c) \/ RefuseLate(c) \/ Accept(c)
         \/ Receive(c) \/ Serve(c)
         \/ SocketEnds(c) \/ TimerFires(c) \/ Silence(c) \/ Watch(c)
         \/ \E code \in PeerCodes \cup {1006} : PeerEnds(c, code)
    \/ \E k \in closing : Close(k)
    \/ \E code \in KickCodes : Kick(code)
    \/ Replace

\* Goroutines run, time passes, the websocket's Close gives up waiting and
\* timers fire; a peer may do nothing for ever.
Fairness ==
    \A c \in Conns :
        /\ WF_vars(Serve(c)) /\ WF_vars(SocketEnds(c)) /\ WF_vars(TimerFires(c))
        /\ WF_vars(Watch(c)) /\ WF_vars(\E k \in closing : k.conn = c /\ Close(k))

Spec == Init /\ [][Next]_vars /\ Fairness

-----------------------------------------------------------------------------
(* Properties.                                                             *)

\* Why a connection has a code: it is what the peer ended it with, or 1006
\* for a Read that failed; it is what a control asked for; it is of a
\* replaced connection, which registered as another did; of a silent one,
\* which had registered; of one that handle or serve refused, or that the
\* register timer ended; or of one that sent a binary message.
Cause(c, code) ==
    \/ sock[c] = "dead" /\ code = peerCode[c]
    \/ Closer(c, code) \in kicked
    \/ code = 1001 /\ recorded[c] /\ \E d \in Conns \ {c} : recorded[d]
    \/ code = 4000 /\ registered[c]
    \/ code = 1008 /\ (rd[c] = "refused" \/ timer[c] = "fired")
    \/ code = 1003 /\ rd[c] = "returned"

\* CloseCodes, "the close code of every finished connection, in order":
\* however many close a connection at once, it has one code when it is
\* finished and none before, and the code has its cause.  With 1008, that is
\* a refusal or the register timer: when the timer was stopped in time, a
\* connection that registered and was not refused ends otherwise.  A
\* registered connection that is not the current one is closed, or about to
\* be.
CloseCodesHaveCauses ==
    \A c \in Conns :
        /\ Len(closeCodes[c]) = IF closed[c] THEN 1 ELSE 0
        /\ \A i \in DOMAIN closeCodes[c] : Cause(c, closeCodes[c][i])
        /\ Gone(c) => closed[c]
        /\ recorded[c] /\ ~closed[c] /\ current # c => Closer(c, 1001) \in closing

\* A connection that never registers, that is silent for good, or that
\* another one has replaced for good, is let go: serve returns, its timer is
\* off, and nobody watches it any more.
QuietConnectionsAreLetGo ==
    \A c \in Conns :
        <>[](rd[c] # "none" /\ (~recorded[c] \/ silent[c] \/ current # c))
        => <>[](Gone(c) /\ timer[c] # "set" /\ ~watched[c])
=============================================================================
