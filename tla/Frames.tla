------------------------------- MODULE Frames -------------------------------
(***************************************************************************)
(* The frames of the control plane: lib/gateway/frame.                     *)
(*                                                                         *)
(* A wire is what a text message holds: its JSON members, an absent one    *)
(* being Absent.  A payload is an object, or the JSON null, or something   *)
(* else; an id is a UUID, or not.                                          *)
(***************************************************************************)
CONSTANTS
    Absent,     \* a member that is not there
    Ids,        \* the UUIDs
    Actions,    \* what begins with a slash
    Objects,    \* the JSON objects, {} among them
    Empty,      \* {}
    Null,       \* the JSON null
    Codes       \* the codes of a CALLERROR

ASSUME FramesAssumption ==
    /\ Absent \notin Ids /\ Absent \notin Actions /\ Absent \notin Objects /\ Absent \notin Codes
    /\ Empty \in Objects /\ Null \notin Objects /\ Null # Absent

Call       == "CALL"
CallResult == "CALLRESULT"
CallError  == "CALLERROR"

\* The frames that are sent: a member its type has not is Absent.
Frames ==
    [type : {Call}, id : Ids, action : Actions, payload : Objects, code : {Absent}]
    \cup [type : {CallResult}, id : Ids, action : {Absent}, payload : Objects, code : {Absent}]
    \cup [type : {CallError}, id : Ids, action : {Absent}, payload : {Empty}, code : Codes]

Frame(type, id, action, payload, code) ==
    [type |-> type, id |-> id, action |-> action, payload |-> payload, code |-> code]

\* What Parse says of a message it does not take.
TooLarge == [type |-> "too large"]
Malformed == [type |-> "malformed"]

\* An absent payload, and a null, are an empty object.
PayloadOf(w) == IF w.p \in {Absent, Null} THEN Empty ELSE w.p

\* Parse: the size, the JSON, t, u, what the type needs, and p.
Parse(w) ==
    IF w.large THEN TooLarge
    ELSE IF \/ ~w.json \/ w.u \notin Ids
            \/ w.t \notin {Call, CallResult, CallError}
            \/ w.t = Call /\ w.a \notin Actions
            \/ w.t = CallError /\ w.c \notin Codes
            \/ PayloadOf(w) \notin Objects
      THEN Malformed
    ELSE Frame(w.t, w.u, w.a, PayloadOf(w), IF w.t = CallError THEN w.c ELSE Absent)

\* Encode, of a frame that is not too large: it does not look.
Encode(f) ==
    [large |-> FALSE, json |-> TRUE, t |-> f.type, u |-> f.id,
     a |-> IF f.type = Call THEN f.action ELSE Absent,
     p |-> IF f.type = CallError THEN Absent ELSE f.payload,
     c |-> IF f.type = CallError THEN f.code ELSE Absent]

\* NewCall, Result and Error; the id of a call is fresh.
NewCall(id, action, payload) == Frame(Call, id, action, payload, Absent)
Result(f, payload) == Frame(CallResult, f.id, Absent, payload, Absent)
Error(f, code) == Frame(CallError, f.id, Absent, Empty, code)
=============================================================================
