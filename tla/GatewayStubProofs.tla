-------------------------- MODULE GatewayStubProofs --------------------------
(***************************************************************************)
(* The theorems of the frames, and of GatewayStub, for any number of       *)
(* connections, whatever their peers send: every finished connection has   *)
(* one close code, and the code has its cause.                             *)
(*                                                                         *)
(* That property speaks of what is recorded.  A cause is decided first and *)
(* recorded by a close that comes after it, so that the inductive          *)
(* invariant says the same of whoever is about to close (ClosersInv), and  *)
(* of the state that they decide by (ServeInv).  No step takes a cause     *)
(* away (Steady), whatever the codes of the controls and of the peers are. *)
(***************************************************************************)
EXTENDS GatewayStub, TLAPS

-----------------------------------------------------------------------------
(* Frames: what lib/gateway/frame writes, it reads back.                  *)

\* Parse gives back every frame that is sent as it was before Encode: a CALL,
\* a CALLRESULT and a CALLERROR, which is sent without its payload.
THEOREM RoundTrip == \A f \in Frames : Parse(Encode(f)) = f
<1>1. SUFFICES ASSUME NEW f \in Frames PROVE Parse(Encode(f)) = f
  OBVIOUS
<1>2. CASE f.type = Call
  <2>1. f \in [type : {Call}, id : Ids, action : Actions, payload : Objects, code : {Absent}]
    BY <1>2 DEF Frames, Call, CallResult, CallError
  <2>2. Encode(f) = [large |-> FALSE, json |-> TRUE, t |-> Call, u |-> f.id, a |-> f.action,
                     p |-> f.payload, c |-> Absent]
    BY <1>2 DEF Encode, Call, CallError
  <2>3. PayloadOf(Encode(f)) = f.payload
    BY <2>1, <2>2, FramesAssumption DEF PayloadOf
  <2> QED
    BY <2>1, <2>2, <2>3 DEF Parse, Frame, Call, CallResult, CallError
<1>3. CASE f.type = CallResult
  <2>1. f \in [type : {CallResult}, id : Ids, action : {Absent}, payload : Objects, code : {Absent}]
    BY <1>3 DEF Frames, Call, CallResult, CallError
  <2>2. Encode(f) = [large |-> FALSE, json |-> TRUE, t |-> CallResult, u |-> f.id, a |-> Absent,
                     p |-> f.payload, c |-> Absent]
    BY <1>3 DEF Encode, Call, CallResult, CallError
  <2>3. PayloadOf(Encode(f)) = f.payload
    BY <2>1, <2>2, FramesAssumption DEF PayloadOf
  <2> QED
    BY <2>1, <2>2, <2>3 DEF Parse, Frame, Call, CallResult, CallError
<1>4. CASE f.type = CallError
  <2>1. f \in [type : {CallError}, id : Ids, action : {Absent}, payload : {Empty}, code : Codes]
    BY <1>4 DEF Frames, Call, CallResult, CallError
  <2>2. Encode(f) = [large |-> FALSE, json |-> TRUE, t |-> CallError, u |-> f.id, a |-> Absent,
                     p |-> Absent, c |-> f.code]
    BY <1>4 DEF Encode, Call, CallError
  <2>3. PayloadOf(Encode(f)) = Empty /\ Empty \in Objects
    BY <2>2, FramesAssumption DEF PayloadOf
  <2> QED
    BY <2>1, <2>2, <2>3 DEF Parse, Frame, Call, CallResult, CallError
<1> QED
  BY <1>1, <1>2, <1>3, <1>4 DEF Frames

\* A frame that Parse refuses is never answered with a frame it refuses: the
\* CALLERROR for it, as the answers to any CALL, reads as an answer, with the
\* id it was given, so that neither side answers it again.
THEOREM AnswersAreRead ==
    ASSUME NEW f, f.id \in Ids, NEW payload \in Objects, NEW code \in Codes
    PROVE  /\ Parse(Encode(Result(f, payload))) = Result(f, payload)
           /\ Parse(Encode(Error(f, code))) = Error(f, code)
<1>1. Result(f, payload) \in Frames
  BY DEF Result, Frame, Frames
<1>2. Error(f, code) \in Frames
  BY FramesAssumption DEF Error, Frame, Frames
<1> QED
  BY <1>1, <1>2, RoundTrip

-----------------------------------------------------------------------------
(* The close codes.                                                        *)

\* The types, of what the causes are read from.
StubTypes ==
    /\ sock \in [Conns -> {"none", "refused", "open", "closing", "dead"}]
    /\ DOMAIN peerCode = Conns
    /\ rd \in [Conns -> {"none", "reading", "registering", "refused", "returned"}]
    /\ timer \in [Conns -> {"none", "set", "stopped", "fired"}]
    /\ registered \in [Conns -> BOOLEAN]
    /\ watched \in [Conns -> BOOLEAN]
    /\ closed \in [Conns -> BOOLEAN]
    /\ recorded \in [Conns -> BOOLEAN]
    /\ current \in Conns \cup {None}
    /\ \A k \in closing : k.conn \in Conns /\ k = Closer(k.conn, k.code)
    /\ DOMAIN closeCodes = Conns

\* A connection is closed once, with a code that has its cause.
CodesInv ==
    \A c \in Conns :
        IF closed[c] THEN \E code : closeCodes[c] = <<code>> /\ Cause(c, code)
        ELSE closeCodes[c] = <<>>

\* Whoever is about to close a connection has a cause, and one that was
\* replaced has somebody who is about to close it.
ClosersInv ==
    /\ \A k \in closing : Cause(k.conn, k.code)
    /\ \A c \in Conns : recorded[c] /\ ~closed[c] /\ current # c => Closer(c, 1001) \in closing

\* serve returns after the connection is closed; its watcher starts after the
\* registration, and Stub.conn is a connection that registered.  A socket has
\* no code of the peer's before it is dead, and before it comes there is
\* neither serve nor a timer.
ServeInv ==
    /\ \A c \in Conns : Gone(c) => closed[c]
    /\ \A c \in Conns : watched[c] => registered[c]
    /\ current # None => recorded[current]
    /\ \A c \in Conns : sock[c] # "dead" => peerCode[c] = 1006
    /\ \A c \in Conns : sock[c] = "none" => rd[c] = "none" /\ timer[c] = "none"

IndInv == StubTypes /\ CodesInv /\ ClosersInv /\ ServeInv

\* What the causes are read from only grows.
Steady ==
    /\ \A c \in Conns :
         /\ sock[c] = "dead" => sock'[c] = "dead" /\ peerCode'[c] = peerCode[c]
         /\ recorded[c] => recorded'[c]
         /\ registered[c] => registered'[c]
         /\ rd[c] \in {"refused", "returned"} => rd'[c] = rd[c]
         /\ timer[c] = "fired" => timer'[c] = "fired"
    /\ kicked \subseteq kicked'

-----------------------------------------------------------------------------
(* Causes, and closing a connection.                                       *)

\* A cause stays one.
LEMMA CausesStay ==
    ASSUME Steady, NEW c \in Conns, NEW m, Cause(c, m)
    PROVE  Cause(c, m)'
BY DEF Cause, Steady, Closer

\* close and observeClose, of whoever has a cause: the first records its
\* code, and nobody else is about to close the connection after it.
LEMMA CloseKeeps ==
    ASSUME IndInv, NEW c \in Conns, NEW code, Recorded(Closer(c, code)), Steady,
           Cause(c, code)', UNCHANGED <<recorded, current>>
    PROVE  /\ CodesInv' /\ ClosersInv' /\ closed'[c]
           /\ \A d \in Conns : closed[d] => closed'[d]
           /\ closed' \in [Conns -> BOOLEAN]
           /\ closing' \subseteq closing
           /\ DOMAIN closeCodes' = Conns
<1>1. Closer(c, code).conn = c /\ Closer(c, code).code = code BY DEF Closer
<1>2. /\ closing' = {j \in closing : j.conn # c}
      /\ closed' = [closed EXCEPT ![c] = TRUE]
      /\ closeCodes' = IF ~closed[c] THEN [closeCodes EXCEPT ![c] = Append(@, code)]
                       ELSE closeCodes
  BY <1>1 DEF Recorded, First
<1>3. /\ closed'[c] /\ closed' \in [Conns -> BOOLEAN]
      /\ \A d \in Conns : d # c => closed'[d] = closed[d]
  BY <1>2 DEF IndInv, StubTypes
<1>4. closing' \subseteq closing /\ \A j \in closing : j.conn # c => j \in closing'
  BY <1>2
<1>5. DOMAIN closeCodes' = Conns BY <1>2 DEF IndInv, StubTypes
<1>6. CodesInv'
  <2> SUFFICES ASSUME NEW d \in Conns
               PROVE  IF closed'[d]
                      THEN \E m : closeCodes'[d] = <<m>> /\ Cause(d, m)'
                      ELSE closeCodes'[d] = <<>>
    BY DEF CodesInv
  <2>1. CASE d = c /\ ~closed[c]
    <3>1. closeCodes[c] = <<>> BY <2>1 DEF IndInv, CodesInv
    <3>2. closeCodes'[c] = <<code>> BY <1>2, <2>1, <3>1 DEF IndInv, StubTypes
    <3>3. QED BY <1>3, <2>1, <3>2
  <2>2. CASE d # c \/ closed[c]
    <3>1. closeCodes'[d] = closeCodes[d] BY <1>2, <2>2 DEF IndInv, StubTypes
    <3>2. closed'[d] <=> closed[d] BY <1>3, <2>2
    <3>3. QED BY <3>1, <3>2, CausesStay DEF IndInv, CodesInv
  <2>3. QED BY <2>1, <2>2
<1>7. ClosersInv'
  <2>1. ASSUME NEW j \in closing' PROVE Cause(j.conn, j.code)'
    BY <1>4, CausesStay DEF IndInv, StubTypes, ClosersInv
  <2>2. ASSUME NEW d \in Conns, recorded'[d], ~closed'[d], current' # d
        PROVE  Closer(d, 1001) \in closing'
    <3>1. d # c /\ ~closed[d] BY <1>3, <2>2
    <3>2. Closer(d, 1001) \in closing BY <2>2, <3>1 DEF IndInv, ClosersInv
    <3>3. Closer(d, 1001).conn = d BY DEF Closer
    <3>4. QED BY <1>4, <3>1, <3>2, <3>3
  <2>3. QED BY <2>1, <2>2 DEF ClosersInv
<1>8. QED BY <1>3, <1>4, <1>5, <1>6, <1>7

\* A closer is added with its cause, or none is; the connections that are
\* replaced are the same.
LEMMA CloserKeeps ==
    ASSUME IndInv, Steady, UNCHANGED <<recorded, closed, closeCodes, current>>,
           NEW c \in Conns, NEW code,
           closing' = closing \/ (closing' = closing \cup {Closer(c, code)} /\ Cause(c, code)')
    PROVE  /\ CodesInv' /\ ClosersInv'
           /\ \A k \in closing' : k.conn \in Conns /\ k = Closer(k.conn, k.code)
<1>1. Closer(c, code).conn = c /\ Closer(c, code).code = code BY DEF Closer
<1>2. \A k \in closing' : k.conn \in Conns /\ k = Closer(k.conn, k.code)
  BY <1>1 DEF IndInv, StubTypes
<1>3. \A k \in closing' : Cause(k.conn, k.code)'
  BY <1>1, CausesStay DEF IndInv, StubTypes, ClosersInv
<1>4. \A d \in Conns : recorded'[d] /\ ~closed'[d] /\ current' # d => Closer(d, 1001) \in closing'
  BY DEF IndInv, ClosersInv
<1>5. CodesInv' BY CausesStay DEF IndInv, CodesInv
<1>6. QED BY <1>2, <1>3, <1>4, <1>5 DEF ClosersInv

\* A step that closes nothing, and decides nothing.
LEMMA QuietKeeps ==
    ASSUME IndInv, UNCHANGED <<closed, closeCodes, recorded, current, closing>>, StubTypes',
           ServeInv', Steady
    PROVE  IndInv'
<1>1. CodesInv' BY CausesStay DEF IndInv, CodesInv
<1>2. ClosersInv' BY CausesStay DEF IndInv, StubTypes, ClosersInv
<1>3. QED BY <1>1, <1>2 DEF IndInv

-----------------------------------------------------------------------------
(* The actions.                                                            *)

\* A socket that is closed: it was dead, or it is closing.
LEMMA ClosesSock ==
    ASSUME StubTypes, NEW c \in Conns, NEW code, Closes(Closer(c, code))
    PROVE  /\ Recorded(Closer(c, code))
           /\ sock' \in [Conns -> {"none", "refused", "open", "closing", "dead"}]
           /\ \A d \in Conns : /\ d # c => sock'[d] = sock[d]
                               /\ sock'[d] = "dead" <=> sock[d] = "dead"
                               /\ sock'[d] = "none" => sock[d] = "none"
BY DEF Closes, Closer, StubTypes

\* serve, or handle, closes the connection, for what it read.
LEMMA LeavesKeeps ==
    ASSUME IndInv, NEW c \in Conns,
           NEW code, NEW how, <<code, how>> \in {<<1008, "refused">>, <<1003, "returned">>},
           Leaves(c, code, how), rd[c] = "reading"
    PROVE  IndInv'
<1>1. /\ Closes(Closer(c, code)) /\ rd' = [rd EXCEPT ![c] = how]
      /\ timer' = [timer EXCEPT ![c] = IF @ = "set" THEN "stopped" ELSE @]
      /\ UNCHANGED <<peerCode, registered, watched, recorded, current, kicked>>
  BY DEF Leaves, Returns
<1>2. /\ Recorded(Closer(c, code))
      /\ sock' \in [Conns -> {"none", "refused", "open", "closing", "dead"}]
      /\ \A d \in Conns : /\ d # c => sock'[d] = sock[d]
                          /\ sock'[d] = "dead" <=> sock[d] = "dead"
                          /\ sock'[d] = "none" => sock[d] = "none"
  BY <1>1, ClosesSock DEF IndInv
<1>3. Steady BY <1>1, <1>2 DEF Steady, IndInv, StubTypes
<1>4. rd'[c] = how BY <1>1 DEF IndInv, StubTypes
<1>5. Cause(c, code)' BY <1>4 DEF Cause
<1>6. /\ CodesInv' /\ ClosersInv' /\ closed'[c]
      /\ \A d \in Conns : closed[d] => closed'[d]
      /\ closed' \in [Conns -> BOOLEAN]
      /\ closing' \subseteq closing
      /\ DOMAIN closeCodes' = Conns
  BY <1>1, <1>2, <1>3, <1>5, CloseKeeps
<1>7. StubTypes'
  <2>1. rd' \in [Conns -> {"none", "reading", "registering", "refused", "returned"}]
    BY <1>1 DEF IndInv, StubTypes
  <2>2. timer' \in [Conns -> {"none", "set", "stopped", "fired"}]
    BY <1>1 DEF IndInv, StubTypes
  <2>3. QED BY <1>1, <1>2, <1>6, <2>1, <2>2 DEF IndInv, StubTypes
<1>8. ServeInv'
  <2>1. ASSUME NEW d \in Conns PROVE Gone(d)' => closed'[d]
    BY <1>1, <1>6 DEF IndInv, StubTypes, ServeInv, Gone
  <2>2. ASSUME NEW d \in Conns, sock'[d] = "none"
        PROVE  rd'[d] = "none" /\ timer'[d] = "none"
    BY <1>1, <1>2, <2>2 DEF IndInv, StubTypes, ServeInv
  <2>3. QED BY <1>1, <1>2, <2>1, <2>2 DEF IndInv, ServeInv
<1>9. QED BY <1>6, <1>7, <1>8 DEF IndInv

\* A bad token, after 101.
LEMMA RefuseLateKeeps ==
    ASSUME IndInv, NEW c \in Conns, RefuseLate(c)
    PROVE  IndInv'
<1>1. /\ Recorded(Closer(c, 1008)) /\ rd' = [rd EXCEPT ![c] = "refused"] /\ sock[c] = "none"
      /\ UNCHANGED <<peerCode, registered, timer, watched, recorded, current, kicked>>
  BY DEF RefuseLate, Comes
<1>2. /\ sock' = [sock EXCEPT ![c] = "closing"]
      /\ sock'[c] = "closing" /\ \A d \in Conns : d # c => sock'[d] = sock[d]
  BY DEF RefuseLate, IndInv, StubTypes
<1>3. Steady BY <1>1, <1>2 DEF Steady, IndInv, StubTypes, ServeInv
<1>4. rd'[c] = "refused" BY <1>1 DEF IndInv, StubTypes
<1>5. Cause(c, 1008)' BY <1>4 DEF Cause
<1>6. /\ CodesInv' /\ ClosersInv' /\ closed'[c]
      /\ \A d \in Conns : closed[d] => closed'[d]
      /\ closed' \in [Conns -> BOOLEAN]
      /\ closing' \subseteq closing
      /\ DOMAIN closeCodes' = Conns
  BY <1>1, <1>3, <1>5, CloseKeeps
<1>7. StubTypes' BY <1>1, <1>2, <1>6 DEF IndInv, StubTypes
<1>8. ServeInv'
  <2>1. ASSUME NEW d \in Conns PROVE Gone(d)' => closed'[d]
    BY <1>1, <1>6 DEF IndInv, StubTypes, ServeInv, Gone
  <2>2. ASSUME NEW d \in Conns, sock'[d] = "none"
        PROVE  rd'[d] = "none" /\ timer'[d] = "none"
    BY <1>1, <1>2, <2>2 DEF IndInv, StubTypes, ServeInv
  <2>3. QED BY <1>1, <1>2, <2>1, <2>2 DEF IndInv, StubTypes, ServeInv
<1>9. QED BY <1>6, <1>7, <1>8 DEF IndInv

\* The Read of a message above the limit fails: nothing of the peer's is
\* recorded, as for a socket without a close frame.
LEMMA ReadLargeKeeps ==
    ASSUME IndInv, NEW c \in Conns, ReadLarge(c)
    PROVE  IndInv'
<1>1. /\ Recorded(Closer(c, 1006)) /\ rd[c] = "reading" /\ sock[c] # "dead"
      /\ rd' = [rd EXCEPT ![c] = "returned"]
      /\ timer' = [timer EXCEPT ![c] = IF @ = "set" THEN "stopped" ELSE @]
      /\ UNCHANGED <<peerCode, registered, watched, recorded, current, kicked>>
  BY DEF ReadLarge, Returns
<1>2. /\ sock' = [sock EXCEPT ![c] = "dead"]
      /\ sock'[c] = "dead" /\ \A d \in Conns : d # c => sock'[d] = sock[d]
  BY DEF ReadLarge, IndInv, StubTypes
<1>3. Steady BY <1>1, <1>2 DEF Steady, IndInv, StubTypes
<1>4. peerCode[c] = 1006 BY <1>1 DEF IndInv, ServeInv
<1>5. Cause(c, 1006)' BY <1>1, <1>2, <1>4 DEF Cause
<1>6. /\ CodesInv' /\ ClosersInv' /\ closed'[c]
      /\ \A d \in Conns : closed[d] => closed'[d]
      /\ closed' \in [Conns -> BOOLEAN]
      /\ closing' \subseteq closing
      /\ DOMAIN closeCodes' = Conns
  BY <1>1, <1>3, <1>5, CloseKeeps
<1>7. StubTypes' BY <1>1, <1>2, <1>6, ZenonT(60) DEF IndInv, StubTypes
<1>8. ServeInv'
  <2>1. ASSUME NEW d \in Conns PROVE Gone(d)' => closed'[d]
    BY <1>1, <1>6 DEF IndInv, StubTypes, ServeInv, Gone
  <2>2. ASSUME NEW d \in Conns, sock'[d] = "none"
        PROVE  rd'[d] = "none" /\ timer'[d] = "none"
    BY <1>1, <1>2, <2>2 DEF IndInv, StubTypes, ServeInv
  <2>3. QED BY <1>1, <1>2, <2>1, <2>2 DEF IndInv, StubTypes, ServeInv
<1>9. QED BY <1>6, <1>7, <1>8 DEF IndInv

\* serve finds the socket gone, and records the peer's code if it is first.
LEMMA ReadFailsKeeps ==
    ASSUME IndInv, NEW c \in Conns, ReadFails(c)
    PROVE  IndInv'
<1>1. /\ Recorded(Closer(c, peerCode[c])) /\ rd[c] = "reading"
      /\ rd' = [rd EXCEPT ![c] = "returned"]
      /\ timer' = [timer EXCEPT ![c] = IF @ = "set" THEN "stopped" ELSE @]
      /\ UNCHANGED <<peerCode, registered, watched, recorded, current, kicked>>
  BY DEF ReadFails, Returns
<1>2. sock' = sock /\ sock[c] = "dead" BY DEF ReadFails
<1>3. Steady BY <1>1, <1>2 DEF Steady, IndInv, StubTypes
<1>5. Cause(c, peerCode[c])' BY <1>1, <1>2 DEF Cause
<1>6. /\ CodesInv' /\ ClosersInv' /\ closed'[c]
      /\ \A d \in Conns : closed[d] => closed'[d]
      /\ closed' \in [Conns -> BOOLEAN]
      /\ closing' \subseteq closing
      /\ DOMAIN closeCodes' = Conns
  BY <1>1, <1>3, <1>5, CloseKeeps
<1>7. StubTypes' BY <1>1, <1>2, <1>6 DEF IndInv, StubTypes
<1>8. ServeInv'
  <2>1. ASSUME NEW d \in Conns PROVE Gone(d)' => closed'[d]
    BY <1>1, <1>6 DEF IndInv, StubTypes, ServeInv, Gone
  <2>2. ASSUME NEW d \in Conns, sock'[d] = "none"
        PROVE  rd'[d] = "none" /\ timer'[d] = "none"
    BY <1>1, <1>2, <2>2 DEF IndInv, StubTypes, ServeInv
  <2>3. QED BY <1>1, <1>2, <2>1, <2>2 DEF IndInv, StubTypes, ServeInv
<1>9. QED BY <1>6, <1>7, <1>8 DEF IndInv

\* Whoever had decided to closes it.
LEMMA CloseStepKeeps ==
    ASSUME IndInv, NEW k \in closing, Close(k)
    PROVE  IndInv'
<1> DEFINE c == k.conn
<1>1. /\ c \in Conns /\ k = Closer(c, k.code) /\ Closes(Closer(c, k.code))
      /\ UNCHANGED <<rd, timer, peerCode, registered, watched, recorded, current, kicked>>
  BY DEF Close, IndInv, StubTypes
<1>2. /\ Recorded(Closer(c, k.code))
      /\ sock' \in [Conns -> {"none", "refused", "open", "closing", "dead"}]
      /\ \A d \in Conns : /\ d # c => sock'[d] = sock[d]
                          /\ sock'[d] = "dead" <=> sock[d] = "dead"
                          /\ sock'[d] = "none" => sock[d] = "none"
  BY <1>1, ClosesSock DEF IndInv
<1>3. Steady BY <1>1, <1>2 DEF Steady, IndInv, StubTypes
<1>4. Cause(c, k.code) BY DEF IndInv, ClosersInv
<1>5. Cause(c, k.code)' BY <1>1, <1>3, <1>4, CausesStay
<1>6. /\ CodesInv' /\ ClosersInv' /\ closed'[c]
      /\ \A d \in Conns : closed[d] => closed'[d]
      /\ closed' \in [Conns -> BOOLEAN]
      /\ closing' \subseteq closing
      /\ DOMAIN closeCodes' = Conns
  BY <1>1, <1>2, <1>3, <1>5, CloseKeeps
<1>7. StubTypes' BY <1>1, <1>2, <1>6 DEF IndInv, StubTypes
<1>8. ServeInv'
  <2>1. ASSUME NEW d \in Conns PROVE Gone(d)' => closed'[d]
    BY <1>1, <1>6 DEF IndInv, StubTypes, ServeInv, Gone
  <2>2. ASSUME NEW d \in Conns, sock'[d] = "none"
        PROVE  rd'[d] = "none" /\ timer'[d] = "none"
    BY <1>1, <1>2, <2>2 DEF IndInv, StubTypes, ServeInv
  <2>3. QED BY <1>1, <1>2, <2>1, <2>2 DEF IndInv, StubTypes, ServeInv
<1>9. QED BY <1>6, <1>7, <1>8 DEF IndInv

\* The register timer closes it.
LEMMA TimerKeeps ==
    ASSUME IndInv, NEW c \in Conns, TimerFires(c), Closes(Closer(c, 1008)),
           timer' = [timer EXCEPT ![c] = "fired"]
    PROVE  IndInv'
<1>1. /\ timer[c] = "set"
      /\ UNCHANGED <<rd, peerCode, registered, watched, recorded, current, kicked>>
  BY DEF TimerFires
<1>2. /\ Recorded(Closer(c, 1008))
      /\ sock' \in [Conns -> {"none", "refused", "open", "closing", "dead"}]
      /\ \A d \in Conns : /\ d # c => sock'[d] = sock[d]
                          /\ sock'[d] = "dead" <=> sock[d] = "dead"
                          /\ sock'[d] = "none" => sock[d] = "none"
  BY <1>1, ClosesSock DEF IndInv
<1>3. Steady BY <1>1, <1>2 DEF Steady, IndInv, StubTypes
<1>4. timer'[c] = "fired" BY DEF IndInv, StubTypes
<1>5. Cause(c, 1008)' BY <1>4 DEF Cause
<1>6. /\ CodesInv' /\ ClosersInv' /\ closed'[c]
      /\ \A d \in Conns : closed[d] => closed'[d]
      /\ closed' \in [Conns -> BOOLEAN]
      /\ closing' \subseteq closing
      /\ DOMAIN closeCodes' = Conns
  BY <1>1, <1>2, <1>3, <1>5, CloseKeeps
<1>7. StubTypes' BY <1>1, <1>2, <1>6, ZenonT(60) DEF IndInv, StubTypes
<1>8. ServeInv'
  <2>1. ASSUME NEW d \in Conns PROVE Gone(d)' => closed'[d]
    BY <1>1, <1>6 DEF IndInv, StubTypes, ServeInv, Gone
  <2>2. ASSUME NEW d \in Conns, sock'[d] = "none"
        PROVE  rd'[d] = "none" /\ timer'[d] = "none"
    BY <1>1, <1>2, <2>2 DEF IndInv, StubTypes, ServeInv
  <2>3. QED BY <1>1, <1>2, <2>1, <2>2 DEF IndInv, StubTypes, ServeInv
<1>9. QED BY <1>6, <1>7, <1>8 DEF IndInv

\* A registration: the connection before it is about to be closed, and both
\* are recorded.
LEMMA RegisterKeeps ==
    ASSUME IndInv, NEW c \in Conns, Register(c)
    PROVE  IndInv'
<1>1. /\ closing' = closing \cup Replaces(c) /\ current' = c
      /\ recorded' = [recorded EXCEPT ![c] = TRUE]
      /\ rd' = [rd EXCEPT ![c] = "registering"] /\ rd[c] = "reading"
      /\ UNCHANGED <<sock, peerCode, registered, timer, watched, closed, closeCodes, kicked>>
  BY DEF Register, ReadsCall, Reads, closeVars
<1>2. recorded'[c] /\ \A d \in Conns : d # c => recorded'[d] = recorded[d]
  BY <1>1 DEF IndInv, StubTypes
<1>3. Steady BY <1>1, <1>2 DEF Steady, IndInv, StubTypes
<1>4. ASSUME NEW k \in Replaces(c)
      PROVE  /\ current \in Conns \ {c} /\ k = Closer(current, 1001)
             /\ k.conn \in Conns /\ k = Closer(k.conn, k.code)
             /\ Cause(k.conn, k.code)'
  <2>1. current \in Conns \ {c} /\ k = Closer(current, 1001)
    BY <1>4 DEF Replaces, IndInv, StubTypes
  <2>2. k.conn = current /\ k.code = 1001
    BY <2>1 DEF Closer
  <2>3. PICK p \in Conns \ {c} : p = current BY <2>1
  <2>4. recorded'[p] BY <1>2, <2>3, GatewayStubAssumption DEF IndInv, ServeInv, Conns
  <2>5. Cause(p, 1001)' BY <1>2, <2>3, <2>4 DEF Cause
  <2>6. QED BY <2>1, <2>2, <2>3, <2>5
<1>5. StubTypes' BY <1>1, <1>4 DEF IndInv, StubTypes
<1>6. CodesInv' BY <1>1, <1>3, CausesStay DEF IndInv, CodesInv
<1>7. ClosersInv'
  <2>1. ASSUME NEW k \in closing' PROVE Cause(k.conn, k.code)'
    BY <1>1, <1>3, <1>4, CausesStay DEF IndInv, StubTypes, ClosersInv
  <2>2. ASSUME NEW d \in Conns, recorded'[d], ~closed'[d], current' # d
        PROVE  Closer(d, 1001) \in closing'
    <3>1. d # c /\ recorded[d] /\ ~closed[d] BY <1>1, <1>2, <2>2
    <3>2. CASE current = d
      <4>1. current \notin {None, c} BY <3>1, <3>2, GatewayStubAssumption DEF Conns
      <4>2. QED BY <1>1, <3>1, <3>2, <4>1 DEF Replaces
    <3>3. CASE current # d BY <1>1, <3>1, <3>3 DEF IndInv, ClosersInv
    <3>4. QED BY <3>2, <3>3
  <2>3. QED BY <2>1, <2>2 DEF ClosersInv
<1>8. ServeInv'
  <2>1. ASSUME NEW d \in Conns PROVE Gone(d)' => closed'[d]
    BY <1>1 DEF IndInv, StubTypes, ServeInv, Gone
  <2>2. ASSUME NEW d \in Conns, sock'[d] = "none"
        PROVE  rd'[d] = "none" /\ timer'[d] = "none"
    BY <1>1, <2>2 DEF IndInv, StubTypes, ServeInv
  <2>3. QED BY <1>1, <1>2, <2>1, <2>2 DEF IndInv, StubTypes, ServeInv
<1>9. QED BY <1>5, <1>6, <1>7, <1>8 DEF IndInv

\* A watcher that finds the connection silent decides to close it with 4000,
\* and has the registration to show for it.
LEMMA WatchKeeps ==
    ASSUME IndInv, NEW c \in Conns, Watch(c)
    PROVE  IndInv'
<1>1. /\ watched[c] /\ watched' = [watched EXCEPT ![c] = FALSE]
      /\ UNCHANGED <<sock, peerCode, rd, timer, registered, closed, closeCodes, recorded, current,
                     kicked>>
  BY DEF Watch, closeVars
<1>2. closing' = closing \/ closing' = closing \cup {Closer(c, 4000)}
  BY DEF Watch
<1>3. Steady BY <1>1 DEF Steady
<1>4. Cause(c, 4000)' BY <1>1 DEF Cause, IndInv, ServeInv
<1>6. /\ CodesInv' /\ ClosersInv'
      /\ \A k \in closing' : k.conn \in Conns /\ k = Closer(k.conn, k.code)
  BY <1>1, <1>2, <1>3, <1>4, CloserKeeps
<1>7. StubTypes' BY <1>1, <1>6 DEF IndInv, StubTypes
<1>8. ServeInv' BY <1>1 DEF IndInv, StubTypes, ServeInv, Gone
<1>9. QED BY <1>6, <1>7, <1>8 DEF IndInv

\* Kick and Replace need no cause but the call.
LEMMA ControlKeeps ==
    ASSUME IndInv, NEW code, Control(code)
    PROVE  IndInv'
<1>1. current \in Conns BY DEF Control, IndInv, StubTypes
<1>2. /\ UNCHANGED <<sock, peerCode, rd, timer, registered, watched, closed, closeCodes, recorded>>
      /\ UNCHANGED current
  BY DEF Control, connVars, closeVars
<1>3. /\ closing' = closing \cup {Closer(current, code)}
      /\ kicked' = kicked \cup {Closer(current, code)}
  BY DEF Control
<1>4. Steady BY <1>2, <1>3 DEF Steady
<1>5. PICK c \in Conns : c = current BY <1>1
<1>6. Cause(c, code)' BY <1>3, <1>5 DEF Cause, Closer
<1>7. /\ CodesInv' /\ ClosersInv'
      /\ \A k \in closing' : k.conn \in Conns /\ k = Closer(k.conn, k.code)
  BY <1>2, <1>3, <1>4, <1>5, <1>6, CloserKeeps
<1>8. StubTypes' BY <1>2, <1>7 DEF IndInv, StubTypes
<1>9. ServeInv' BY <1>2 DEF IndInv, ServeInv, Gone
<1>10. QED BY <1>7, <1>8, <1>9 DEF IndInv

\* The handshake of a connection that is refused before 101, or taken.
LEMMA HandshakeKeeps ==
    ASSUME IndInv, NEW c \in Conns, Refuse(c) \/ Accept(c)
    PROVE  IndInv'
<1>1. UNCHANGED <<peerCode, registered, watched, closed, closeCodes, recorded, current, closing,
                  kicked>>
  BY DEF Refuse, Accept, closeVars
<1>2. /\ sock[c] = "none"
      /\ sock' = [sock EXCEPT ![c] = "refused"] \/ sock' = [sock EXCEPT ![c] = "open"]
      /\ rd' = rd \/ rd' = [rd EXCEPT ![c] = "reading"]
      /\ timer' = timer \/ timer' = [timer EXCEPT ![c] = "set"]
  BY DEF Refuse, Accept, Comes
<1>3. StubTypes' BY <1>1, <1>2 DEF IndInv, StubTypes
<1>4. ServeInv' BY <1>1, <1>2 DEF IndInv, StubTypes, ServeInv, Gone
<1>5. Steady BY <1>1, <1>2 DEF IndInv, StubTypes, ServeInv, Steady
<1>6. QED BY <1>1, <1>3, <1>4, <1>5, QuietKeeps

\* A socket ends: the peer's code is set when it is the peer who ends it, and
\* not afterwards.
LEMMA SocketKeeps ==
    ASSUME IndInv, NEW c \in Conns,
           SocketEnds(c) \/ \E code \in PeerCodes \cup {1006} : PeerEnds(c, code)
    PROVE  IndInv'
<1>1. UNCHANGED <<rd, timer, registered, watched, closed, closeCodes, recorded, current, closing,
                  kicked>>
  BY DEF SocketEnds, PeerEnds, closeVars
<1>2. /\ sock' = [sock EXCEPT ![c] = "dead"] /\ sock[c] # "dead"
      /\ peerCode' = peerCode
         \/ \E code \in PeerCodes \cup {1006} : peerCode' = [peerCode EXCEPT ![c] = code]
  BY DEF SocketEnds, PeerEnds
<1>3. StubTypes' BY <1>1, <1>2 DEF IndInv, StubTypes
<1>4. ServeInv' BY <1>1, <1>2 DEF IndInv, StubTypes, ServeInv, Gone
<1>5. Steady BY <1>1, <1>2 DEF IndInv, StubTypes, Steady
<1>6. QED BY <1>1, <1>3, <1>4, <1>5, QuietKeeps

\* After the registration: serve's variable, and the watcher.
LEMMA RegisteredKeeps ==
    ASSUME IndInv, NEW c \in Conns, Registered(c)
    PROVE  IndInv'
<1>1. /\ registered' = [registered EXCEPT ![c] = TRUE]
      /\ watched' = [watched EXCEPT ![c] = TRUE]
      /\ rd' = [rd EXCEPT ![c] = "reading"] /\ rd[c] = "registering"
      /\ UNCHANGED <<sock, peerCode, timer, closed, closeCodes, recorded, current, closing, kicked>>
  BY DEF Registered, closeVars
<1>2. StubTypes' BY <1>1 DEF IndInv, StubTypes
<1>3. ServeInv' BY <1>1 DEF IndInv, StubTypes, ServeInv, Gone
<1>4. Steady BY <1>1 DEF IndInv, StubTypes, Steady
<1>5. QED BY <1>1, <1>2, <1>3, <1>4, QuietKeeps

\* What only moves the clock, answers, or finds the timer of no use.
LEMMA StillKeeps ==
    ASSUME IndInv,
           UNCHANGED <<sock, peerCode, rd, registered, watched, closed, closeCodes, recorded,
                       current, closing, kicked>>,
           timer' = timer
           \/ \E c \in Conns : timer[c] = "set" /\ timer' = [timer EXCEPT ![c] = "stopped"]
    PROVE  IndInv'
<1>1. StubTypes' BY DEF IndInv, StubTypes
<1>2. ServeInv' BY DEF IndInv, StubTypes, ServeInv, Gone
<1>3. Steady BY DEF IndInv, StubTypes, Steady
<1>4. QED BY <1>1, <1>2, <1>3, QuietKeeps

-----------------------------------------------------------------------------
(* The theorem.                                                            *)

\* Before the first connection there is nothing to explain.
LEMMA InitInd == Init => IndInv
<1> SUFFICES ASSUME Init PROVE IndInv OBVIOUS
<1>1. StubTypes BY DEF Init, StubTypes
<1>2. CodesInv BY DEF Init, CodesInv
<1>3. ClosersInv BY DEF Init, ClosersInv
<1>4. ServeInv BY DEF Init, ServeInv, Gone
<1>5. QED BY <1>1, <1>2, <1>3, <1>4 DEF IndInv

\* The inductive invariant of the connections and of whoever ends them.
THEOREM Invariance == Spec => []IndInv
<1>1. IndInv /\ [Next]_vars => IndInv'
  <2> SUFFICES ASSUME IndInv, [Next]_vars PROVE IndInv' OBVIOUS
  <2>1. ASSUME NEW c \in Conns, Receive(c) PROVE IndInv'
    <3>1. CASE ReadBinary(c)
      <4>1. rd[c] = "reading" /\ Leaves(c, 1003, "returned") BY <3>1 DEF ReadBinary, Reads
      <4>2. <<1003, "returned">> \in {<<1008, "refused">>, <<1003, "returned">>} OBVIOUS
      <4>3. QED BY <4>1, <4>2, LeavesKeeps
    <3>2. CASE ReadLarge(c) BY <3>2, ReadLargeKeeps
    <3>3. CASE ReadOther(c)
      BY <3>3, StillKeeps DEF ReadOther, vars, connVars, closeVars
    <3>4. CASE RegisterRefused(c)
      <4>1. rd[c] = "reading" /\ Leaves(c, 1008, "refused")
        BY <3>4 DEF RegisterRefused, ReadsCall, Reads
      <4>2. <<1008, "refused">> \in {<<1008, "refused">>, <<1003, "returned">>} OBVIOUS
      <4>3. QED BY <4>1, <4>2, LeavesKeeps
    <3>5. CASE Register(c) BY <3>5, RegisterKeeps
    <3>6. CASE ReadHeartbeat(c) BY <3>6, StillKeeps DEF ReadHeartbeat, closeVars
    <3>7. QED BY <2>1, <3>1, <3>2, <3>3, <3>4, <3>5, <3>6 DEF Receive
  <2>2. ASSUME NEW c \in Conns, Serve(c) PROVE IndInv'
    BY <2>2, RegisteredKeeps, ReadFailsKeeps DEF Serve
  <2>3. ASSUME NEW c \in Conns, TimerFires(c) PROVE IndInv'
    <3>1. CASE UNCHANGED <<sock, closeVars, closing>>
               /\ timer' = [timer EXCEPT ![c] = "stopped"]
      BY <2>3, <3>1, StillKeeps DEF TimerFires, closeVars
    <3>2. CASE Closes(Closer(c, 1008)) /\ timer' = [timer EXCEPT ![c] = "fired"]
      BY <2>3, <3>2, TimerKeeps
    <3>3. QED BY <2>3, <3>1, <3>2 DEF TimerFires
  <2>4. ASSUME NEW c \in Conns, Silence(c) PROVE IndInv'
    BY <2>4, StillKeeps DEF Silence, closeVars
  <2>5. CASE UNCHANGED vars BY <2>5, StillKeeps DEF vars, connVars, closeVars
  <2>6. (\E code \in KickCodes : Kick(code)) \/ Replace => IndInv'
    BY ControlKeeps DEF Kick, Replace
  <2>7. QED
    BY <2>1, <2>2, <2>3, <2>4, <2>5, <2>6, HandshakeKeeps, RefuseLateKeeps, SocketKeeps,
       WatchKeeps, CloseStepKeeps DEF Next
<1>2. QED BY InitInd, <1>1, PTL DEF Spec

\* CloseCodes: however many end a connection at once, it has one code when it
\* is finished, the code has its cause, and a connection that was replaced is
\* closed, or is about to be.
THEOREM CodesAreExplained == Spec => []CloseCodesHaveCauses
<1>1. IndInv => CloseCodesHaveCauses
  <2> SUFFICES ASSUME IndInv, NEW c \in Conns
               PROVE  /\ Len(closeCodes[c]) = IF closed[c] THEN 1 ELSE 0
                      /\ \A i \in DOMAIN closeCodes[c] : Cause(c, closeCodes[c][i])
                      /\ Gone(c) => closed[c]
                      /\ recorded[c] /\ ~closed[c] /\ current # c =>
                           Closer(c, 1001) \in closing
    BY DEF CloseCodesHaveCauses
  <2>1. Gone(c) => closed[c] BY DEF IndInv, ServeInv
  <2>2. recorded[c] /\ ~closed[c] /\ current # c => Closer(c, 1001) \in closing
    BY DEF IndInv, ClosersInv
  <2>3. CASE closed[c]
    <3>1. PICK code : closeCodes[c] = <<code>> /\ Cause(c, code)
      BY <2>3 DEF IndInv, CodesInv
    <3>2. Len(closeCodes[c]) = 1 BY <3>1
    <3>3. \A i \in DOMAIN closeCodes[c] : closeCodes[c][i] = code BY <3>1
    <3>4. QED BY <2>1, <2>2, <2>3, <3>1, <3>2, <3>3
  <2>4. CASE ~closed[c]
    <3>1. closeCodes[c] = <<>> BY <2>4 DEF IndInv, CodesInv
    <3>2. QED BY <2>1, <2>2, <2>4, <3>1
  <2>5. QED BY <2>3, <2>4
<1>2. QED BY <1>1, Invariance, PTL
=============================================================================
