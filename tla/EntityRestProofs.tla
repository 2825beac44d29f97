-------------------------- MODULE EntityRestProofs --------------------------
(***************************************************************************)
(* The theorems of EntityRest, for any calls at once over any rows, users  *)
(* and keys, whatever they ask for.                                        *)
(*                                                                         *)
(* The properties speak of calls that have been answered.  The inductive   *)
(* invariant says what a call has at each place of its handler: what its   *)
(* transaction has written and locks (StagedInv, WorkInv), what it made    *)
(* durable (EffectInv), which revisions of its row it may have seen        *)
(* (LivedInv); and, of Idempotency, whose answer each entry is (StoreInv,  *)
(* ReplayInv) and which calls are bound to find one (OwedInv).             *)
(***************************************************************************)
EXTENDS EntityRest, TLAPS

PCs == {"new", "once", "get", "call", "again", "commit", "store", "done"}
Statuses == {0, 200, 201, 204, 304, 400, 404, 409, 412, 428, 500}
Replies == [status : Statuses, ver : Nat, replayed : BOOLEAN]
Works == [tab : {"none", "row", "access"}, id : Ids \cup {None}, ver : Nat]

\* The types of what a call has.
CallTypes ==
    /\ req \in [Calls -> Menu \cup {None}]
    /\ pc \in [Calls -> PCs]
    /\ staged \in [Calls -> Works]
    /\ ans \in [Calls -> Replies]
    /\ ran \in [Calls -> BOOLEAN]

\* The types of the rows and of the store.
RowTypes ==
    /\ row \in [Ids -> Nat]
    /\ access \in [Ids -> 0..MaskBits10]
    /\ lock \in [Ids -> Calls \cup {None}]
    /\ stamp \in Nat
    /\ stored \in [Scopes -> Entries \cup {None}]

\* The types of the history.
HistTypes ==
    /\ lived \in [Calls -> SUBSET Nat]
    /\ effect \in [Calls -> Works]
    /\ doubt \in [Calls -> BOOLEAN]
    /\ owed \in [Calls -> SUBSET Calls]
    /\ lapsed \subseteq Calls

\* A request that the handler did not refuse by itself.
Accepted(q) ==
    /\ q.verb # "create" => q.id # None
    /\ q.verb = "grant" => Bound(q)

\* Which requests come to which place, and which have reached the database.
PlaceOf(c) ==
    /\ pc[c] # "new" => req[c] \in Menu
    /\ pc[c] \notin {"new", "done"} => Accepted(req[c])
    /\ pc[c] \in {"once", "store"} => Keyed(req[c])
    /\ pc[c] = "get" => req[c].verb # "create"
    /\ pc[c] = "again" => req[c].verb \in {"patch", "action", "run"}
    /\ pc[c] \in {"call", "commit"} => req[c].verb # "read"
    /\ pc[c] \in {"new", "once"} => ~ran[c]
    /\ pc[c] = "store" \/ (pc[c] = "commit" /\ req[c].verb = "create") => ran[c]

PlaceInv == \A c \in Calls : PlaceOf(c)

\* What is written and not committed belongs to a transaction under way, which
\* holds the lock of its row; a row that was there is not gone meanwhile.
Holds(c) ==
    /\ staged[c].tab = "row" =>
         /\ staged[c].id \in Ids
         /\ lock[staged[c].id] = c
         /\ staged[c].id \in Rows => row[staged[c].id] # 0
    /\ staged[c].tab = "access" => staged[c].id \in Ids /\ staged[c].ver \in 0..MaskBits10

\* A lock is of a row that its transaction has written.
Owned(id) ==
    lock[id] # None => staged[lock[id]].tab = "row" /\ staged[lock[id]].id = id

StagedInv ==
    /\ \A c \in Calls : pc[c] \notin {"again", "commit"} => staged[c] = Nothing
    /\ \A c \in Calls : Holds(c)
    /\ \A id \in Ids : Owned(id)

\* The revision that c gives to a row.
Writes(c, id) == staged[c].tab = "row" /\ staged[c].id = id /\ staged[c].ver # 0

\* What a transaction that is about to commit has written: a PATCH that found
\* no row is not among them, since a row that is gone does not come back.
WorkOf(c) ==
    /\ pc[c] = "again" /\ req[c].verb = "patch" =>
         Writes(c, req[c].id) \/ (staged[c] = Nothing /\ row[req[c].id] = 0)
    /\ pc[c] = "commit" =>
         /\ req[c].verb = "create" => Writes(c, c)
         /\ req[c].verb \in {"update", "patch"} => Writes(c, req[c].id)
         /\ req[c].verb = "patch" => ans[c].ver = staged[c].ver
         /\ req[c].verb = "grant" =>
              staged[c] = [tab |-> "access", id |-> req[c].id, ver |-> req[c].mask]

WorkInv == \A c \in Calls : WorkOf(c)

\* What an answer says of the call's own write.
Truthful(c) ==
    /\ ans[c].status = 201 => effect[c] = [tab |-> "row", id |-> c, ver |-> ans[c].ver]
    /\ ans[c].status = 200 /\ req[c].verb \in {"update", "patch"} =>
         effect[c] = [tab |-> "row", id |-> req[c].id, ver |-> ans[c].ver]
    /\ ans[c].status = 200 /\ req[c].verb = "grant" =>
         effect[c] = [tab |-> "access", id |-> req[c].id, ver |-> req[c].mask]
    /\ ans[c].status >= 400 /\ ~doubt[c] => effect[c] = Nothing

\* Nothing is durable before the commit, and the answer tells of it after.
EffectOf(c) ==
    /\ pc[c] \notin {"store", "done"} => effect[c] = Nothing /\ ~doubt[c]
    /\ pc[c] \in {"store", "done"} /\ ~ans[c].replayed => Truthful(c)

EffectInv == \A c \in Calls : EffectOf(c)

\* What an answer says of the row's revision.
Conditional(c) ==
    LET q == req[c] IN
    /\ ans[c].status = 304 => q.tag \in lived[c]
    /\ ans[c].status = 200 /\ q.verb \in {"update", "patch"} /\ q.tag # Star =>
         q.tag \in lived[c]
    /\ ans[c].status = 412 => lived[c] \ {0, q.tag} # {}
    /\ ans[c].status = 404 /\ q.verb # "run" => 0 \in lived[c]
    /\ ans[c].status \in {200, 204, 304, 412} => lived[c] \ {0} # {}

\* The revision a call may read is among those that lived in it, and what the
\* first read has shown stays true of them.
LivedOf(c) ==
    /\ pc[c] # "new" /\ req[c].id # None => row[req[c].id] \in lived[c]
    /\ pc[c] \in {"call", "again", "commit"} /\ req[c].verb # "create" =>
         /\ lived[c] \ {0} # {}
         /\ req[c].verb \in {"update", "patch"} /\ req[c].tag # Star =>
              req[c].tag \in lived[c]
    /\ pc[c] = "done" /\ req[c].verb # "create" => Conditional(c)

LivedInv == \A c \in Calls : LivedOf(c)

\* A keyed create that the database answered, and that may be stored.
Settled(d) == pc[d] = "done" /\ ran[d] /\ Keyed(req[d]) /\ ans[d].status \in 200..499

\* Every entry is somebody's answer, under the user and the key it is kept by.
StoreInv ==
    /\ \A c \in Calls : pc[c] = "store" => ans[c].status \in {201, 400, 500}
    /\ \A c \in Calls : pc[c] = "done" => ans[c].status # 0
    /\ \A k \in Scopes : stored[k] # None =>
         \E d \in Calls : /\ Settled(d) /\ IdemScope(req[d]) = k
                          /\ stored[k].body = req[d].body
                          /\ stored[k].status = ans[d].status /\ stored[k].ver = ans[d].ver

\* A call that was answered from the store has somebody else's answer to show.
ReplayInv ==
    \A c \in Calls : pc[c] = "done" /\ Keyed(req[c]) /\ ~ran[c] /\ ans[c].status # 400 =>
        \E d \in Calls \ {c} :
            /\ Settled(d)
            /\ IdemScope(req[d]) = IdemScope(req[c])
            /\ IF ans[c].replayed
                 THEN /\ req[d].body = req[c].body
                      /\ ans[d].status = ans[c].status /\ ans[d].ver = ans[c].ver
                 ELSE ans[c].status = 409 /\ req[d].body # req[c].body

\* An answer that has not expired is in the store, and a call that is owed one
\* is before its lookup, or has had it.
OwedInv ==
    /\ \A d \in Calls \ lapsed : Settled(d) =>
         stored[IdemScope(req[d])] # None /\ stored[IdemScope(req[d])].fresh
    /\ \A c \in Calls :
         /\ pc[c] = "once" => \A d \in owed[c] :
              d \notin lapsed /\ Settled(d) /\ IdemScope(req[d]) = IdemScope(req[c])
         /\ pc[c] \in {"new", "get", "call", "again", "commit", "store"} => owed[c] = {}
         /\ pc[c] = "done" /\ owed[c] # {} => ~ran[c]

IndInv ==
    /\ CallTypes /\ RowTypes /\ HistTypes /\ PlaceInv
    /\ StagedInv /\ WorkInv /\ EffectInv /\ LivedInv
    /\ StoreInv /\ ReplayInv /\ OwedInv
-----------------------------------------------------------------------------
(* What the pieces of a handler do.                                        *)

\* A request that came is of the menu, and has its fields.
LEMMA Fields ==
    ASSUME IndInv, NEW c \in Calls, pc[c] # "new"
    PROVE  /\ req[c] \in Menu /\ req[c].verb \in Verbs /\ req[c].body \in Bodies
           /\ req[c].id \in Rows \cup {None} /\ req[c].tag \in Int /\ req[c].mask \in Nat
           /\ req[c].max \in {MaskBits6, MaskBits10}
           /\ IdemScope(req[c]) \in Scopes
           /\ pc[c] # "done" /\ req[c].verb # "create" => req[c].id \in Rows
<1>1. req[c] \in Menu BY DEF IndInv, PlaceInv, PlaceOf
<1>2. /\ req[c].verb \in Verbs /\ req[c].body \in Bodies /\ req[c].user \in Users
      /\ req[c].key \in Keys \cup {None} /\ req[c].id \in Rows \cup {None}
      /\ req[c].tag \in Nat \cup {Star} /\ req[c].mask \in Nat
      /\ req[c].max \in {MaskBits6, MaskBits10}
  BY <1>1, EntityRestAssumption
<1>3. req[c].tag \in Int BY <1>2 DEF Star
<1>4. IdemScope(req[c]) \in Scopes BY <1>2 DEF IdemScope, Scopes
<1>5. pc[c] # "done" /\ req[c].verb # "create" => req[c].id \in Rows
  BY <1>2 DEF IndInv, PlaceInv, PlaceOf, Accepted
<1>6. QED BY <1>1, <1>2, <1>3, <1>4, <1>5

\* A cast gives a mask, and a mask that its form takes is cast to itself.
LEMMA CastAt ==
    ASSUME NEW q, q.mask \in Nat, q.max \in {MaskBits6, MaskBits10}
    PROVE  /\ Cast(q) \in Nat /\ Cast(q) \in 0..MaskBits10
           /\ Bound(q) => Cast(q) = q.mask
<1>1. CASE q.max = MaskBits6 BY <1>1 DEF Cast, Bound, MaskBits6, MaskBits10
<1>2. CASE q.max = MaskBits10 BY <1>2, SMTT(30) DEF Cast, Bound, MaskBits6, MaskBits10
<1>3. QED BY <1>1, <1>2

\* A row is a row.
LEMMA IdsAre == Rows \subseteq Ids /\ Calls \subseteq Ids /\ None \notin Ids /\ Rows \cap Calls = {}
BY EntityRestAssumption DEF Ids

\* A jump.
LEMMA GotoAt ==
    ASSUME CallTypes, NEW c \in Calls, NEW where \in PCs, Goto(c, where)
    PROVE  /\ pc' \in [Calls -> PCs] /\ pc'[c] = where
           /\ \A d \in Calls : d # c => pc'[d] = pc[d]
BY DEF CallTypes, Goto

\* An answer that the handler wrote.
LEMMA AnswerAt ==
    ASSUME CallTypes, NEW c \in Calls, NEW status \in Statuses, NEW ver \in Nat,
           Answer(c, status, ver)
    PROVE  /\ pc' \in [Calls -> PCs] /\ ans' \in [Calls -> Replies]
           /\ pc'[c] = IF Keyed(req[c]) THEN "store" ELSE "done"
           /\ ans'[c] = [status |-> status, ver |-> ver, replayed |-> FALSE]
           /\ \A d \in Calls : d # c => pc'[d] = pc[d] /\ ans'[d] = ans[d]
<1>1. [status |-> status, ver |-> ver, replayed |-> FALSE] \in Replies BY DEF Replies
<1>2. /\ ans' \in [Calls -> Replies]
      /\ ans'[c] = [status |-> status, ver |-> ver, replayed |-> FALSE]
      /\ \A d \in Calls : d # c => ans'[d] = ans[d]
  BY <1>1 DEF Answer, CallTypes
<1>3. /\ pc' \in [Calls -> PCs]
      /\ pc'[c] = IF Keyed(req[c]) THEN "store" ELSE "done"
      /\ \A d \in Calls : d # c => pc'[d] = pc[d]
  <2>1. (IF Keyed(req[c]) THEN "store" ELSE "done") \in PCs BY DEF PCs
  <2>2. QED BY <2>1, GotoAt DEF Answer
<1>4. QED BY <1>2, <1>3

\* What a transaction writes is a piece of work.
LEMMA WorksAre ==
    /\ Nothing \in Works /\ Nothing.tab = "none"
    /\ \A t \in {"row", "access"}, id \in Ids, v \in Nat :
         [tab |-> t, id |-> id, ver |-> v] \in Works
BY DEF Nothing, Works

\* The end of a transaction: its locks are gone, and nobody else's.
LEMMA UnlockAt ==
    ASSUME IndInv, NEW c \in Calls, Unlock(c)
    PROVE  /\ lock' \in [Ids -> Calls \cup {None}]
           /\ \A id \in Ids : lock[id] = c => lock'[id] = None
           /\ \A id \in Ids : lock[id] # c => lock'[id] = lock[id]
BY DEF Unlock, IndInv, RowTypes

\* A rollback.
LEMMA UndoAt ==
    ASSUME IndInv, NEW c \in Calls, Undo(c)
    PROVE  /\ staged' \in [Calls -> Works] /\ staged'[c] = Nothing
           /\ \A d \in Calls : d # c => staged'[d] = staged[d]
           /\ Unlock(c) /\ UNCHANGED <<row, access, stamp>>
BY WorksAre DEF Undo, IndInv, CallTypes

\* The transaction has its row to itself.
LEMMA StageAt ==
    ASSUME IndInv, NEW c \in Calls, NEW id \in Ids, NEW ver \in Nat, Stage(c, id, ver)
    PROVE  /\ staged' \in [Calls -> Works]
           /\ staged'[c] = [tab |-> "row", id |-> id, ver |-> ver]
           /\ \A d \in Calls : d # c => staged'[d] = staged[d]
           /\ lock' \in [Ids -> Calls \cup {None}] /\ lock[id] = None /\ lock'[id] = c
           /\ \A i \in Ids : i # id => lock'[i] = lock[i]
<1>1. [tab |-> "row", id |-> id, ver |-> ver] \in Works BY WorksAre
<1>2. QED BY <1>1 DEF Stage, IndInv, CallTypes, RowTypes

\* A commit: what was staged is the call's effect, and what others see.
LEMMA PublishAt ==
    ASSUME IndInv, NEW c \in Calls, Publish(c)
    PROVE  /\ staged' \in [Calls -> Works] /\ staged'[c] = Nothing
           /\ effect' \in [Calls -> Works] /\ effect'[c] = staged[c]
           /\ \A d \in Calls : d # c => staged'[d] = staged[d] /\ effect'[d] = effect[d]
           /\ row' \in [Ids -> Nat] /\ access' \in [Ids -> 0..MaskBits10]
           /\ \A id \in Ids : IF staged[c].tab = "row" /\ staged[c].id = id
                                THEN row'[id] = staged[c].ver ELSE row'[id] = row[id]
           /\ lived' \in [Calls -> SUBSET Nat]
           /\ \A d \in Calls : lived[d] \subseteq lived'[d]
           /\ \A d \in Calls : staged[c].tab = "row" /\ pc[d] # "new" /\ req[d].id = staged[c].id
                                 => staged[c].ver \in lived'[d]
           /\ Unlock(c) /\ stamp' = stamp
<1> DEFINE s == staged[c]
<1>1. s \in Works /\ s.ver \in Nat BY DEF IndInv, CallTypes, Works
<1>2. s.tab = "row" => s.id \in Ids BY DEF IndInv, StagedInv, Holds
<1>3. s.tab = "access" => s.id \in Ids /\ s.ver \in 0..MaskBits10 BY DEF IndInv, StagedInv, Holds
<1>4. /\ staged' = [staged EXCEPT ![c] = Nothing] /\ effect' = [effect EXCEPT ![c] = s]
      /\ row' = IF s.tab = "row" THEN [row EXCEPT ![s.id] = s.ver] ELSE row
      /\ access' = IF s.tab = "access" THEN [access EXCEPT ![s.id] = s.ver] ELSE access
      /\ lived' = [d \in Calls |->
                     IF s.tab = "row" /\ pc[d] # "new" /\ req[d].id = s.id
                       THEN lived[d] \cup {s.ver} ELSE lived[d]]
      /\ Unlock(c) /\ stamp' = stamp
  BY DEF Publish
<1>5. /\ staged' \in [Calls -> Works] /\ staged'[c] = Nothing
      /\ effect' \in [Calls -> Works] /\ effect'[c] = s
      /\ \A d \in Calls : d # c => staged'[d] = staged[d] /\ effect'[d] = effect[d]
  BY <1>1, <1>4, WorksAre DEF IndInv, CallTypes, HistTypes
<1>6. row' \in [Ids -> Nat] /\ \A id \in Ids : IF s.tab = "row" /\ s.id = id
                                              THEN row'[id] = s.ver ELSE row'[id] = row[id]
  BY <1>1, <1>2, <1>4 DEF IndInv, RowTypes
<1>7. access' \in [Ids -> 0..MaskBits10] BY <1>3, <1>4 DEF IndInv, RowTypes
<1>8. /\ lived' \in [Calls -> SUBSET Nat] /\ \A d \in Calls : lived[d] \subseteq lived'[d]
      /\ \A d \in Calls : s.tab = "row" /\ pc[d] # "new" /\ req[d].id = s.id => s.ver \in lived'[d]
  BY <1>1, <1>4 DEF IndInv, HistTypes
<1>9. QED BY <1>4, <1>5, <1>6, <1>7, <1>8

\* What the row of a call is, as its transaction sees it.
LEMMA SeenAt ==
    ASSUME IndInv, NEW c \in Calls, pc[c] \in {"again", "commit"}, req[c].verb # "create"
    PROVE  Seen(c) \in Nat
<1>1. req[c].id \in Ids BY Fields, IdsAre
<1>2. staged[c].ver \in Nat BY DEF IndInv, CallTypes, Works
<1>3. QED BY <1>1, <1>2 DEF Seen, IndInv, RowTypes

\* The answer of a handler whose transaction is about to commit.
LEMMA SuccessAt ==
    ASSUME IndInv, NEW c \in Calls, pc[c] = "commit", Success(c)
    PROVE  \E status \in {200, 201, 204}, ver \in Nat :
             /\ Answer(c, status, ver)
             /\ IF req[c].verb = "create" THEN status = 201 /\ ver = staged[c].ver
                ELSE status # 201
             /\ req[c].verb \in {"update", "patch"} => status = 200 /\ ver = staged[c].ver
             /\ req[c].verb = "grant" => status = 200
<1>1. staged[c].ver \in Nat /\ ans[c].ver \in Nat BY DEF IndInv, CallTypes, Works, Replies
<1>2. req[c].verb = "patch" => ans[c].ver = staged[c].ver BY DEF IndInv, WorkInv, WorkOf
<1>3. CASE req[c].verb = "create"
  <2>1. Answer(c, 201, staged[c].ver) BY <1>3 DEF Success
  <2>2. QED BY <1>1, <1>3, <2>1
<1>4. CASE req[c].verb = "delete" \/ (req[c].verb = "action" /\ ans[c].ver = 0)
  <2>1. Answer(c, 204, 0) BY <1>4 DEF Success
  <2>2. QED BY <1>4, <2>1
<1>5. CASE req[c].verb \in {"grant", "update"}
  <2>1. Answer(c, 200, staged[c].ver) BY <1>5 DEF Success
  <2>2. QED BY <1>1, <1>5, <2>1
<1>6. CASE /\ req[c].verb \notin {"create", "delete", "grant", "update"}
           /\ ~(req[c].verb = "action" /\ ans[c].ver = 0)
  <2>1. Answer(c, 200, ans[c].ver) BY <1>6 DEF Success
  <2>2. QED BY <1>1, <1>2, <1>6, <2>1
<1>7. QED BY <1>3, <1>4, <1>5, <1>6

\* The entries that Room leaves: all but the expired ones.
LEMMA RoomAt ==
    ASSUME IndInv
    PROVE  /\ Room(stored) \in [Scopes -> Entries \cup {None}]
           /\ \A k \in Scopes : \/ Room(stored)[k] = stored[k]
                                \/ Room(stored)[k] = None /\ stored[k] # None /\ ~stored[k].fresh
<1>1. stored \in [Scopes -> Entries \cup {None}] BY DEF IndInv, RowTypes
<1>2. QED BY <1>1 DEF Room

-----------------------------------------------------------------------------
(* What a step of one call leaves alone.                                   *)

SameCall(d) ==
    /\ pc'[d] = pc[d] /\ req'[d] = req[d] /\ ans'[d] = ans[d] /\ ran'[d] = ran[d]
    /\ staged'[d] = staged[d] /\ effect'[d] = effect[d] /\ doubt'[d] = doubt[d]
    /\ owed'[d] = owed[d] /\ lived[d] \subseteq lived'[d]

\* The types of a call, and that the others are as they were: Arrive.
LEMMA ArriveFrame ==
    ASSUME IndInv, NEW c \in Calls, Arrive(c)
    PROVE  /\ CallTypes' /\ RowTypes' /\ HistTypes'
           /\ \A d \in Calls : d # c => SameCall(d)
           /\ UNCHANGED <<stored, row, access, lock, staged, stamp, effect, doubt, ran, lapsed>>
<1>1. PICK q \in Menu :
         /\ req' = [req EXCEPT ![c] = q]
         /\ lived' = [lived EXCEPT ![c] = IF q.id = None THEN {} ELSE {row[q.id]}]
         /\ owed' = [owed EXCEPT ![c] = IF Keyed(q) THEN Kept(q) ELSE {}]
         /\ IF Refusal(q) # 0
              THEN /\ ans' = [ans EXCEPT ![c] = [NoAnswer EXCEPT !.status = Refusal(q)]]
                   /\ Goto(c, "done")
              ELSE /\ Goto(c, IF Keyed(q) THEN "once"
                              ELSE IF q.verb = "create" THEN "call" ELSE "get")
                   /\ UNCHANGED ans
  BY DEF Arrive
<1>2. UNCHANGED <<stored, row, access, lock, staged, stamp, effect, doubt, ran, lapsed>>
  BY DEF Arrive, dbVars
<1>3. pc' \in [Calls -> PCs] /\ \A d \in Calls : d # c => pc'[d] = pc[d]
  <2>1. \E where \in PCs : Goto(c, where) BY <1>1 DEF PCs
  <2>2. QED BY <2>1, GotoAt DEF IndInv
<1>4. req' \in [Calls -> Menu \cup {None}] /\ \A d \in Calls : d # c => req'[d] = req[d]
  BY <1>1 DEF IndInv, CallTypes
<1>5. ans' \in [Calls -> Replies] /\ \A d \in Calls : d # c => ans'[d] = ans[d]
  <2>1. Refusal(q) \in Statuses BY DEF Refusal, Statuses
  <2>2. [NoAnswer EXCEPT !.status = Refusal(q)] \in Replies BY <2>1 DEF NoAnswer, Replies
  <2>3. QED BY <1>1, <2>2 DEF IndInv, CallTypes
<1>6. owed' \in [Calls -> SUBSET Calls] /\ \A d \in Calls : d # c => owed'[d] = owed[d]
  <2>1. Kept(q) \subseteq Calls BY DEF Kept
  <2>2. QED BY <1>1, <2>1 DEF IndInv, HistTypes
<1>7. lived' \in [Calls -> SUBSET Nat] /\ \A d \in Calls : d # c => lived'[d] = lived[d]
  <2>1. q.id = None \/ q.id \in Ids BY EntityRestAssumption, IdsAre
  <2>2. q.id # None => row[q.id] \in Nat BY <2>1 DEF IndInv, RowTypes
  <2>3. QED BY <1>1, <2>2 DEF IndInv, HistTypes
<1>8. CallTypes' BY <1>2, <1>3, <1>4, <1>5 DEF IndInv, CallTypes
<1>9. RowTypes' /\ HistTypes' BY <1>2, <1>6, <1>7 DEF IndInv, RowTypes, HistTypes
<1>10. \A d \in Calls : d # c => SameCall(d)
  BY <1>2, <1>3, <1>4, <1>5, <1>6, <1>7 DEF SameCall
<1>11. QED BY <1>2, <1>8, <1>9, <1>10

\* Once: the lookup, and the store.
LEMMA OnceFrame ==
    ASSUME IndInv, NEW c \in Calls, Lookup(c) \/ Store(c)
    PROVE  /\ CallTypes' /\ RowTypes' /\ HistTypes'
           /\ \A d \in Calls : d # c => SameCall(d)
           /\ UNCHANGED <<req, row, access, lock, staged, stamp, histVars>>
<1>0. UNCHANGED <<req, row, access, lock, staged, stamp, lived, effect, doubt, owed, ran, lapsed>>
  BY DEF Lookup, Store, dbVars, histVars
<1>1. IdemScope(req[c]) \in Scopes BY Fields DEF Lookup, Store
<1>2. pc' \in [Calls -> PCs] /\ \A d \in Calls : d # c => pc'[d] = pc[d]
  <2>1. \E where \in PCs : Goto(c, where) BY DEF Lookup, Store, PCs
  <2>2. QED BY <2>1, GotoAt DEF IndInv
<1>3. CASE Lookup(c)
  <2> DEFINE s == stored[IdemScope(req[c])]
  <2>1. stored' = stored BY <1>3 DEF Lookup
  <2>2. ans' \in [Calls -> Replies] /\ \A d \in Calls : d # c => ans'[d] = ans[d]
    <3>1. CASE UNCHANGED ans BY <3>1 DEF IndInv, CallTypes
    <3>2. CASE ans' = [ans EXCEPT ![c] = [NoAnswer EXCEPT !.status = 409]]
      <4>1. 409 \in Statuses BY DEF Statuses
      <4>2. [NoAnswer EXCEPT !.status = 409] \in Replies BY <4>1 DEF NoAnswer, Replies
      <4>3. QED BY <3>2, <4>2 DEF IndInv, CallTypes
    <3>3. CASE /\ s # None
               /\ ans' = [ans EXCEPT ![c] =
                            [status |-> s.status, ver |-> s.ver, replayed |-> TRUE]]
      <4>1. PICK d \in Calls : s.status = ans[d].status /\ s.ver = ans[d].ver
        BY <1>1, <3>3 DEF IndInv, StoreInv
      <4>2. [status |-> s.status, ver |-> s.ver, replayed |-> TRUE] \in Replies
        BY <4>1 DEF IndInv, CallTypes, Replies
      <4>3. QED BY <3>3, <4>2 DEF IndInv, CallTypes
    <3>4. QED BY <1>3, <3>1, <3>2, <3>3 DEF Lookup
  <2>3. CallTypes' BY <1>0, <1>2, <2>2 DEF IndInv, CallTypes
  <2>4. QED BY <1>0, <1>2, <2>1, <2>2, <2>3 DEF IndInv, RowTypes, HistTypes, SameCall, histVars
<1>4. CASE Store(c)
  <2>1. ans' = ans BY <1>4 DEF Store
  <2>2. stored' \in [Scopes -> Entries \cup {None}]
    <3> DEFINE e == [body |-> req[c].body, status |-> ans[c].status, ver |-> ans[c].ver,
                     fresh |-> TRUE]
    <3>1. req[c].body \in Bodies BY <1>4, Fields DEF Store
    <3>2. e \in Entries BY <3>1 DEF IndInv, CallTypes, Replies, Statuses, Entries
    <3>3. stored' = stored \/ stored' = [Room(stored) EXCEPT ![IdemScope(req[c])] = e]
      BY <1>4 DEF Store
    <3>4. QED BY <1>1, <3>2, <3>3, RoomAt DEF IndInv, RowTypes
  <2>3. CallTypes' BY <1>0, <1>2, <2>1 DEF IndInv, CallTypes
  <2>4. QED BY <1>0, <1>2, <2>1, <2>2, <2>3 DEF IndInv, RowTypes, HistTypes, SameCall, histVars
<1>5. QED BY <1>3, <1>4

\* The first read.
LEMMA GetFrame ==
    ASSUME IndInv, NEW c \in Calls, Get(c)
    PROVE  /\ CallTypes' /\ RowTypes' /\ HistTypes'
           /\ \A d \in Calls : d # c => SameCall(d)
           /\ UNCHANGED <<req, stored, row, access, lock, staged, stamp, lived, effect, doubt,
                          owed, lapsed>>
           /\ ran'[c]
<1>1. UNCHANGED <<req, stored, row, access, lock, staged, stamp, lived, effect, doubt, owed, lapsed>>
  BY DEF Get, dbVars
<1>2. row[req[c].id] \in Nat BY Fields, IdsAre DEF Get, IndInv, RowTypes, PlaceInv, PlaceOf
<1>3. \/ \E status \in Statuses, ver \in Nat : Answer(c, status, ver)
      \/ Goto(c, "call") /\ UNCHANGED ans
  BY <1>2 DEF Get, Statuses
<1>4. /\ pc' \in [Calls -> PCs] /\ ans' \in [Calls -> Replies]
      /\ \A d \in Calls : d # c => pc'[d] = pc[d] /\ ans'[d] = ans[d]
  <2>1. CASE \E status \in Statuses, ver \in Nat : Answer(c, status, ver)
    BY <2>1, AnswerAt DEF IndInv
  <2>2. CASE Goto(c, "call") /\ UNCHANGED ans
    BY <2>2, GotoAt DEF IndInv, CallTypes, PCs
  <2>3. QED BY <1>3, <2>1, <2>2
<1>5. ran' \in [Calls -> BOOLEAN] /\ ran'[c] /\ \A d \in Calls : d # c => ran'[d] = ran[d]
  BY DEF Get, IndInv, CallTypes
<1>6. CallTypes' BY <1>1, <1>4, <1>5 DEF IndInv, CallTypes
<1>7. QED BY <1>1, <1>4, <1>5, <1>6 DEF IndInv, RowTypes, HistTypes, SameCall

\* The writes.
LEMMA WriteFrame ==
    ASSUME IndInv, NEW c \in Calls, Create(c) \/ Set(c) \/ Act(c) \/ Remove(c) \/ Grant(c)
    PROVE  /\ CallTypes' /\ RowTypes' /\ HistTypes'
           /\ \A d \in Calls : d # c => SameCall(d)
           /\ UNCHANGED <<req, ans, stored, row, access, lived, effect, doubt, owed, lapsed>>
<1>1. UNCHANGED <<req, ans, stored, row, access, lived, effect, doubt, owed, lapsed>>
  BY DEF Create, Set, Act, Remove, Grant, histVars
<1>2. pc' \in [Calls -> PCs] /\ \A d \in Calls : d # c => pc'[d] = pc[d]
  <2>1. \E where \in PCs : Goto(c, where) BY DEF Create, Set, Act, Remove, Grant, PCs
  <2>2. QED BY <2>1, GotoAt DEF IndInv
<1>3. pc[c] = "call" BY DEF Create, Set, Act, Remove, Grant
<1>4. req[c].verb # "create" => req[c].id \in Ids BY <1>3, Fields, IdsAre
<1>5. stamp \in Nat /\ stamp + 1 \in Nat BY DEF IndInv, RowTypes
<1>6. \/ Create(c) \/ Grant(c)
      \/ \E ver \in Nat : Stage(c, req[c].id, ver) /\ stamp' \in {stamp, stamp + 1}
      \/ UNCHANGED <<lock, staged, stamp>>
  BY <1>5 DEF Set, Act, Remove
<1>7. /\ staged' \in [Calls -> Works] /\ lock' \in [Ids -> Calls \cup {None}] /\ stamp' \in Nat
      /\ \A d \in Calls : d # c => staged'[d] = staged[d]
  <2>1. CASE Create(c)
    BY <1>5, <2>1, StageAt, IdsAre DEF Create
  <2>2. CASE Grant(c)
    <3>1. req[c].id \in Ids BY <1>4, <2>2 DEF Grant
    <3>2. Cast(req[c]) \in Nat BY <1>3, Fields, CastAt
    <3>3. [tab |-> "access", id |-> req[c].id, ver |-> Cast(req[c])] \in Works
      BY <3>1, <3>2, WorksAre
    <3>4. QED BY <1>5, <2>2, <3>3 DEF Grant, IndInv, CallTypes, RowTypes
  <2>3. CASE \E ver \in Nat : Stage(c, req[c].id, ver) /\ stamp' \in {stamp, stamp + 1}
    <3>1. CASE req[c].verb = "create"
      BY <1>3, <3>1, <2>1 DEF Create, Set, Act, Remove, Grant
    <3>2. CASE req[c].verb # "create"
      BY <1>4, <1>5, <2>3, <3>2, StageAt
    <3>3. QED BY <3>1, <3>2
  <2>4. CASE UNCHANGED <<lock, staged, stamp>>
    BY <2>4 DEF IndInv, CallTypes, RowTypes
  <2>5. QED BY <1>6, <2>1, <2>2, <2>3, <2>4
<1>8. ran' \in [Calls -> BOOLEAN] /\ \A d \in Calls : d # c => ran'[d] = ran[d]
  BY DEF Create, Set, Act, Remove, Grant, histVars, IndInv, CallTypes
<1>9. CallTypes' BY <1>1, <1>2, <1>7, <1>8 DEF IndInv, CallTypes
<1>10. RowTypes' BY <1>1, <1>7 DEF IndInv, RowTypes
<1>11. QED BY <1>1, <1>2, <1>7, <1>8, <1>9, <1>10 DEF IndInv, HistTypes, SameCall

\* The second read, the commit, and a transaction that fails.
LEMMA EndFrame ==
    ASSUME IndInv, NEW c \in Calls, Again(c) \/ Commit(c) \/ DoFails(c)
    PROVE  /\ CallTypes' /\ RowTypes' /\ HistTypes'
           /\ \A d \in Calls : d # c => SameCall(d)
           /\ UNCHANGED <<req, stored, owed, lapsed>>
<1>1. UNCHANGED <<req, stored, owed, lapsed>>
  BY DEF Again, Commit, DoFails, histVars
<1>2. /\ pc' \in [Calls -> PCs] /\ ans' \in [Calls -> Replies]
      /\ \A d \in Calls : d # c => pc'[d] = pc[d] /\ ans'[d] = ans[d]
  <2>1. \/ \E status \in Statuses, ver \in Nat : Answer(c, status, ver)
        \/ Goto(c, "commit") /\ \E ver \in Nat : ans' = [ans EXCEPT ![c].ver = ver]
    <3>1. CASE Again(c)
      <4>1. pc[c] = "again" BY <3>1 DEF Again
      <4>2. Seen(c) \in Nat BY <4>1, SeenAt DEF IndInv, PlaceInv, PlaceOf
      <4>3. QED BY <3>1, <4>2 DEF Again, Statuses
    <3>2. CASE Commit(c) \/ DoFails(c) BY <3>2, SuccessAt DEF Commit, DoFails, Statuses
    <3>3. QED BY <3>1, <3>2
  <2>2. CASE \E status \in Statuses, ver \in Nat : Answer(c, status, ver)
    BY <2>2, AnswerAt DEF IndInv
  <2>3. CASE Goto(c, "commit") /\ \E ver \in Nat : ans' = [ans EXCEPT ![c].ver = ver]
    <3>1. pc' \in [Calls -> PCs] /\ \A d \in Calls : d # c => pc'[d] = pc[d]
      BY <2>3, GotoAt DEF IndInv, PCs
    <3>2. ans' \in [Calls -> Replies] /\ \A d \in Calls : d # c => ans'[d] = ans[d]
      BY <2>3 DEF IndInv, CallTypes, Replies
    <3>3. QED BY <3>1, <3>2
  <2>4. QED BY <2>1, <2>2, <2>3
<1>3. \/ Undo(c) /\ UNCHANGED <<lived, effect>>
      \/ Publish(c)
      \/ UNCHANGED <<row, access, lock, staged, stamp, lived, effect>>
  BY DEF Again, Commit, DoFails, dbVars, histVars
<1>4. /\ staged' \in [Calls -> Works] /\ lock' \in [Ids -> Calls \cup {None}] /\ stamp' \in Nat
      /\ row' \in [Ids -> Nat] /\ access' \in [Ids -> 0..MaskBits10]
      /\ lived' \in [Calls -> SUBSET Nat] /\ effect' \in [Calls -> Works]
      /\ \A d \in Calls : lived[d] \subseteq lived'[d]
      /\ \A d \in Calls : d # c => staged'[d] = staged[d] /\ effect'[d] = effect[d]
  <2>1. CASE Undo(c) /\ UNCHANGED <<lived, effect>>
    BY <2>1, UndoAt, UnlockAt DEF IndInv, RowTypes, HistTypes
  <2>2. CASE Publish(c)
    BY <2>2, PublishAt, UnlockAt DEF IndInv, RowTypes
  <2>3. CASE UNCHANGED <<row, access, lock, staged, stamp, lived, effect>>
    BY <2>3 DEF IndInv, RowTypes, HistTypes, CallTypes
  <2>4. QED BY <1>3, <2>1, <2>2, <2>3
<1>5. /\ ran' \in [Calls -> BOOLEAN] /\ doubt' \in [Calls -> BOOLEAN]
      /\ \A d \in Calls : d # c => ran'[d] = ran[d] /\ doubt'[d] = doubt[d]
  <2>1. ran' = ran \/ ran' = [ran EXCEPT ![c] = TRUE]
    BY DEF Again, Commit, DoFails, histVars
  <2>2. doubt' = doubt \/ doubt' = [doubt EXCEPT ![c] = TRUE]
    BY DEF Again, Commit, DoFails, histVars
  <2>3. QED BY <2>1, <2>2 DEF IndInv, CallTypes, HistTypes
<1>6. CallTypes' BY <1>1, <1>2, <1>4, <1>5 DEF IndInv, CallTypes
<1>7. RowTypes' BY <1>1, <1>4 DEF IndInv, RowTypes
<1>8. HistTypes' BY <1>1, <1>4, <1>5 DEF IndInv, HistTypes
<1>9. \A d \in Calls : d # c => SameCall(d) BY <1>1, <1>2, <1>4, <1>5 DEF SameCall
<1>10. QED BY <1>1, <1>6, <1>7, <1>8, <1>9

\* A step of a call leaves the others as they are; their rows may move.
LEMMA CallFrame ==
    ASSUME IndInv, NEW c \in Calls, Arrive(c) \/ Step(c)
    PROVE  /\ CallTypes' /\ RowTypes' /\ HistTypes'
           /\ \A d \in Calls : d # c => SameCall(d)
           /\ lapsed' = lapsed
BY ArriveFrame, OnceFrame, GetFrame, WriteFrame, EndFrame DEF Step, histVars

-----------------------------------------------------------------------------
(* What a step makes of its own call.                                      *)

\* An answer without a body.
LEMMA BareAnswer ==
    ASSUME NEW n, NEW a, a = [NoAnswer EXCEPT !.status = n]
    PROVE  a = [status |-> n, ver |-> 0, replayed |-> FALSE]
BY DEF NoAnswer

\* What a handler refuses by itself.
LEMMA RefusalAt ==
    ASSUME NEW q \in Menu
    PROVE  /\ Refusal(q) = 0 => Accepted(q)
           /\ Refusal(q) \in {0, 400, 428}
           /\ q.verb = "create" => Refusal(q) \in {0, 400}
BY DEF Refusal, Accepted

\* A call that comes is refused, or goes on as its verb asks.
LEMMA ArriveAt ==
    ASSUME IndInv, NEW c \in Calls, Arrive(c)
    PROVE  /\ pc[c] = "new" /\ req'[c] \in Menu
           /\ lived'[c] = IF req'[c].id = None THEN {} ELSE {row[req'[c].id]}
           /\ owed'[c] = IF Keyed(req'[c]) THEN Kept(req'[c]) ELSE {}
           /\ \/ /\ pc'[c] = "done" /\ Refusal(req'[c]) # 0
                 /\ ans'[c] = [status |-> Refusal(req'[c]), ver |-> 0, replayed |-> FALSE]
              \/ /\ Accepted(req'[c])
                 /\ pc'[c] = IF Keyed(req'[c]) THEN "once"
                             ELSE IF req'[c].verb = "create" THEN "call" ELSE "get"
                 /\ ans'[c] = ans[c]
<1>1. PICK q \in Menu :
         /\ req' = [req EXCEPT ![c] = q]
         /\ lived' = [lived EXCEPT ![c] = IF q.id = None THEN {} ELSE {row[q.id]}]
         /\ owed' = [owed EXCEPT ![c] = IF Keyed(q) THEN Kept(q) ELSE {}]
         /\ IF Refusal(q) # 0
              THEN /\ ans' = [ans EXCEPT ![c] = [NoAnswer EXCEPT !.status = Refusal(q)]]
                   /\ Goto(c, "done")
              ELSE /\ Goto(c, IF Keyed(q) THEN "once"
                              ELSE IF q.verb = "create" THEN "call" ELSE "get")
                   /\ UNCHANGED ans
  BY DEF Arrive
<1>2. /\ req'[c] = q /\ lived'[c] = (IF q.id = None THEN {} ELSE {row[q.id]})
      /\ owed'[c] = IF Keyed(q) THEN Kept(q) ELSE {}
  BY <1>1 DEF IndInv, CallTypes, HistTypes
<1>3. CASE Refusal(q) # 0
  <2>1. pc'[c] = "done" BY <1>1, <1>3 DEF Goto, IndInv, CallTypes
  <2>2. ans'[c] = [NoAnswer EXCEPT !.status = Refusal(q)] BY <1>1, <1>3 DEF IndInv, CallTypes
  <2>3. ans'[c] = [status |-> Refusal(q), ver |-> 0, replayed |-> FALSE] BY <2>2, BareAnswer
  <2>4. QED BY <1>2, <1>3, <2>1, <2>3 DEF Arrive
<1>4. CASE Refusal(q) = 0
  <2>1. pc'[c] = IF Keyed(q) THEN "once" ELSE IF q.verb = "create" THEN "call" ELSE "get"
    BY <1>1, <1>4 DEF Goto, IndInv, CallTypes
  <2>2. QED BY <1>1, <1>2, <1>4, <2>1, RefusalAt, SMTT(30) DEF Arrive
<1>5. QED BY <1>3, <1>4

\* The lookup misses, or answers.
LEMMA LookupAt ==
    ASSUME IndInv, NEW c \in Calls, Lookup(c)
    PROVE  LET s == stored[IdemScope(req[c])] IN
           /\ pc[c] = "once"
           /\ \/ (s = None \/ ~s.fresh) /\ pc'[c] = "call" /\ ans'[c] = ans[c]
              \/ /\ s # None /\ s.body # req[c].body /\ pc'[c] = "done"
                 /\ ans'[c] = [status |-> 409, ver |-> 0, replayed |-> FALSE]
              \/ /\ s # None /\ s.body = req[c].body /\ pc'[c] = "done"
                 /\ ans'[c] = [status |-> s.status, ver |-> s.ver, replayed |-> TRUE]
<1> DEFINE s == stored[IdemScope(req[c])]
<1>1. pc[c] = "once" BY DEF Lookup
<1>2. CASE ~(s # None /\ s.fresh)
  <2>1. Goto(c, "call") /\ UNCHANGED ans BY <1>2 DEF Lookup
  <2>2. pc'[c] = "call" BY <2>1 DEF Goto, IndInv, CallTypes
  <2>3. QED BY <1>1, <1>2, <2>1, <2>2
<1>3. CASE s # None /\ s.fresh /\ s.body # req[c].body
  <2>1. Goto(c, "done") /\ ans' = [ans EXCEPT ![c] = [NoAnswer EXCEPT !.status = 409]]
    BY <1>3 DEF Lookup
  <2>2. pc'[c] = "done" /\ ans'[c] = [NoAnswer EXCEPT !.status = 409]
    BY <2>1 DEF Goto, IndInv, CallTypes
  <2>3. \A n : [NoAnswer EXCEPT !.status = n] = [status |-> n, ver |-> 0, replayed |-> FALSE]
    BY BareAnswer
  <2>4. ans'[c] = [status |-> 409, ver |-> 0, replayed |-> FALSE] BY <2>2, <2>3, Zenon
  <2>5. QED BY <1>1, <1>3, <2>2, <2>4
<1>4. CASE s # None /\ s.fresh /\ s.body = req[c].body
  <2>1. /\ Goto(c, "done")
        /\ ans' = [ans EXCEPT ![c] = [status |-> s.status, ver |-> s.ver, replayed |-> TRUE]]
    BY <1>4 DEF Lookup
  <2>2. /\ pc'[c] = "done"
        /\ ans'[c] = [status |-> s.status, ver |-> s.ver, replayed |-> TRUE]
    BY <2>1 DEF Goto, IndInv, CallTypes
  <2>3. QED BY <1>1, <1>4, <2>2
<1>5. QED BY <1>2, <1>3, <1>4

\* The first read answers, or the handler goes on.
LEMMA GetAt ==
    ASSUME IndInv, NEW c \in Calls, Get(c)
    PROVE  LET q == req[c]
               v == row[q.id]
           IN
           /\ pc[c] = "get" /\ q.verb # "create" /\ ~Keyed(q)
           /\ \/ v = 0 /\ pc'[c] = "done" /\ ans'[c] = [status |-> 404, ver |-> 0, replayed |-> FALSE]
              \/ /\ v # 0 /\ q.verb = "read" /\ pc'[c] = "done"
                 /\ \/ q.tag = v /\ ans'[c] = [status |-> 304, ver |-> v, replayed |-> FALSE]
                    \/ ans'[c] = [status |-> 200, ver |-> v, replayed |-> FALSE]
              \/ /\ v # 0 /\ q.verb \in {"update", "patch"} /\ q.tag # v /\ pc'[c] = "done"
                 /\ ans'[c] = [status |-> 412, ver |-> 0, replayed |-> FALSE]
              \/ /\ v # 0 /\ q.verb # "read" /\ pc'[c] = "call" /\ ans'[c] = ans[c]
                 /\ q.verb \in {"update", "patch"} /\ q.tag # Star => q.tag = v
<1> DEFINE q == req[c]
           v == row[q.id]
<1>1. pc[c] = "get" /\ q.verb # "create" /\ ~Keyed(q)
  BY DEF Get, Keyed, IndInv, PlaceInv, PlaceOf
<1>2. v \in Nat BY <1>1, Fields, IdsAre DEF IndInv, RowTypes
<1>3. \A st \in Statuses, n \in Nat : Answer(c, st, n) =>
        pc'[c] = "done" /\ ans'[c] = [status |-> st, ver |-> n, replayed |-> FALSE]
  BY <1>1, AnswerAt DEF IndInv
<1>4. {200, 304, 404, 412} \subseteq Statuses BY DEF Statuses
<1>5. CASE v = 0
  <2>1. Answer(c, 404, 0) BY <1>5 DEF Get
  <2>2. QED BY <1>1, <1>3, <1>4, <1>5, <2>1
<1>6. CASE v # 0 /\ q.verb = "read"
  <2>1. (q.tag = v /\ Answer(c, 304, v)) \/ Answer(c, 200, v) BY <1>6 DEF Get, Matches
  <2>2. QED BY <1>1, <1>2, <1>3, <1>4, <1>6, <2>1
<1>7. CASE v # 0 /\ q.verb \in {"update", "patch"} /\ ~IfMatch(q, v)
  <2>1. Answer(c, 412, 0) BY <1>7 DEF Get
  <2>2. q.tag # v BY <1>7 DEF IfMatch, Matches
  <2>3. QED BY <1>1, <1>3, <1>4, <1>7, <2>1, <2>2
<1>8. CASE v # 0 /\ q.verb # "read" /\ (q.verb \in {"update", "patch"} => IfMatch(q, v))
  <2>1. Goto(c, "call") /\ UNCHANGED ans BY <1>8 DEF Get
  <2>2. pc'[c] = "call" BY <2>1 DEF Goto, IndInv, CallTypes
  <2>3. q.verb \in {"update", "patch"} /\ q.tag # Star => q.tag = v
    BY <1>8 DEF IfMatch, Matches
  <2>4. QED BY <1>1, <1>8, <2>1, <2>2, <2>3
<1>9. QED BY <1>5, <1>6, <1>7, <1>8

\* A write stages its row, or leaves it.
LEMMA WriteAt ==
    ASSUME IndInv, NEW c \in Calls, Create(c) \/ Set(c) \/ Act(c) \/ Remove(c) \/ Grant(c)
    PROVE  LET q == req[c] IN
           /\ pc[c] = "call" /\ staged[c] = Nothing
           /\ pc'[c] = IF q.verb \in {"patch", "action", "run"} THEN "again" ELSE "commit"
           /\ q.verb # "create" => ran'[c] = ran[c]
           /\ \/ q.verb = "create" /\ Stage(c, c, stamp + 1) /\ ran'[c]
              \/ /\ q.verb \in {"update", "patch", "action", "run", "delete"} /\ row[q.id] # 0
                 /\ \/ Stage(c, q.id, stamp + 1)
                    \/ Stage(c, q.id, 0) /\ q.verb \notin {"update", "patch"}
              \/ /\ q.verb = "patch" /\ row[q.id] = 0 /\ UNCHANGED <<lock, staged>>
              \/ q.verb \in {"action", "run", "delete"} /\ UNCHANGED <<lock, staged>>
              \/ /\ q.verb = "grant" /\ UNCHANGED lock
                 /\ staged' = [staged EXCEPT ![c] =
                                 [tab |-> "access", id |-> q.id, ver |-> Cast(q)]]
<1>1. pc[c] = "call" BY DEF Create, Set, Act, Remove, Grant
<1>2. staged[c] = Nothing BY <1>1 DEF IndInv, StagedInv
<1>3. CASE Create(c)
  <2>1. pc'[c] = "commit" /\ ran'[c] BY <1>3 DEF Create, Goto, IndInv, CallTypes
  <2>2. QED BY <1>1, <1>2, <1>3, <2>1 DEF Create
<1>4. CASE Set(c)
  <2>1. pc'[c] = IF req[c].verb = "patch" THEN "again" ELSE "commit"
    BY <1>4 DEF Set, Goto, IndInv, CallTypes
  <2>2. ran' = ran BY <1>4 DEF Set, histVars
  <2>3. QED BY <1>1, <1>2, <1>4, <2>1, <2>2 DEF Set
<1>5. CASE Act(c)
  <2>1. pc'[c] = "again" BY <1>5 DEF Act, Goto, IndInv, CallTypes
  <2>2. ran' = ran BY <1>5 DEF Act, histVars
  <2>3. QED BY <1>1, <1>2, <1>5, <2>1, <2>2 DEF Act
<1>6. CASE Remove(c)
  <2>1. pc'[c] = "commit" BY <1>6 DEF Remove, Goto, IndInv, CallTypes
  <2>2. ran' = ran BY <1>6 DEF Remove, histVars
  <2>3. QED BY <1>1, <1>2, <1>6, <2>1, <2>2 DEF Remove
<1>7. CASE Grant(c)
  <2>1. pc'[c] = "commit" BY <1>7 DEF Grant, Goto, IndInv, CallTypes
  <2>2. ran' = ran BY <1>7 DEF Grant, histVars
  <2>3. QED BY <1>1, <1>2, <1>7, <2>1, <2>2 DEF Grant
<1>8. QED BY <1>3, <1>4, <1>5, <1>6, <1>7

\* The second read is content, or there is no row, and all is undone.
LEMMA AgainAt ==
    ASSUME IndInv, NEW c \in Calls, Again(c)
    PROVE  /\ pc[c] = "again" /\ ran' = ran /\ doubt' = doubt /\ UNCHANGED <<lived, effect>>
           /\ \/ /\ Seen(c) = 0 /\ req[c].verb # "action" /\ Undo(c) /\ pc'[c] = "done"
                 /\ ans'[c] = [status |-> 404, ver |-> 0, replayed |-> FALSE]
              \/ /\ Seen(c) # 0 \/ req[c].verb = "action"
                 /\ pc'[c] = "commit" /\ UNCHANGED dbVars
                 /\ ans'[c] = [ans[c] EXCEPT !.ver = Seen(c)] /\ ans'[c].ver = Seen(c)
<1>1. pc[c] = "again" /\ ~Keyed(req[c])
  BY DEF Again, Keyed, IndInv, PlaceInv, PlaceOf
<1>2. UNCHANGED <<ran, doubt, lived, effect>> BY DEF Again, histVars
<1>3. CASE Seen(c) = 0 /\ req[c].verb # "action"
  <2>1. Answer(c, 404, 0) /\ Undo(c) BY <1>3 DEF Again
  <2>2. 404 \in Statuses BY DEF Statuses
  <2>3. QED BY <1>1, <1>2, <1>3, <2>1, <2>2, AnswerAt DEF IndInv
<1>4. CASE ~(Seen(c) = 0 /\ req[c].verb # "action")
  <2>1. Goto(c, "commit") /\ ans' = [ans EXCEPT ![c].ver = Seen(c)] /\ UNCHANGED dbVars
    BY <1>4 DEF Again
  <2>2. /\ pc'[c] = "commit" /\ ans'[c] = [ans[c] EXCEPT !.ver = Seen(c)]
        /\ ans'[c].ver = Seen(c)
    BY <2>1 DEF Goto, IndInv, CallTypes, Replies
  <2>3. QED BY <1>1, <1>2, <1>4, <2>1, <2>2
<1>5. QED BY <1>3, <1>4

\* The commit: done and told, undone and told, or done and not known.
LEMMA CommitAt ==
    ASSUME IndInv, NEW c \in Calls, Commit(c)
    PROVE  /\ pc[c] = "commit" /\ ran' = ran
           /\ pc'[c] = IF Keyed(req[c]) THEN "store" ELSE "done"
           /\ ans'[c].replayed = FALSE
           /\ \/ /\ Publish(c) /\ doubt' = doubt /\ ans'[c].status \in {200, 201, 204}
                 /\ IF req[c].verb = "create"
                      THEN ans'[c].status = 201 /\ ans'[c].ver = staged[c].ver
                      ELSE ans'[c].status # 201
                 /\ req[c].verb \in {"update", "patch"} =>
                      ans'[c].status = 200 /\ ans'[c].ver = staged[c].ver
                 /\ req[c].verb = "grant" => ans'[c].status = 200
              \/ Undo(c) /\ UNCHANGED <<lived, effect, doubt>> /\ ans'[c].status = 500
              \/ Publish(c) /\ doubt'[c] /\ ans'[c].status = 500
<1>1. pc[c] = "commit" /\ ran' = ran BY DEF Commit
<1>2. \A st \in Statuses, n \in Nat : Answer(c, st, n) =>
        /\ pc'[c] = IF Keyed(req[c]) THEN "store" ELSE "done"
        /\ ans'[c].replayed = FALSE /\ ans'[c].status = st /\ ans'[c].ver = n
  <2> SUFFICES ASSUME NEW st \in Statuses, NEW n \in Nat, Answer(c, st, n)
               PROVE  /\ pc'[c] = IF Keyed(req[c]) THEN "store" ELSE "done"
                      /\ ans'[c].replayed = FALSE /\ ans'[c].status = st /\ ans'[c].ver = n
    OBVIOUS
  <2>1. /\ pc'[c] = IF Keyed(req[c]) THEN "store" ELSE "done"
        /\ ans'[c] = [status |-> st, ver |-> n, replayed |-> FALSE]
    BY AnswerAt DEF IndInv
  <2>2. QED BY <2>1
<1>3. {200, 201, 204, 500} \subseteq Statuses BY DEF Statuses
<1>4. CASE Success(c) /\ Publish(c) /\ UNCHANGED doubt
  <2>1. PICK status \in {200, 201, 204}, ver \in Nat :
             /\ Answer(c, status, ver)
             /\ IF req[c].verb = "create" THEN status = 201 /\ ver = staged[c].ver
                ELSE status # 201
             /\ req[c].verb \in {"update", "patch"} => status = 200 /\ ver = staged[c].ver
             /\ req[c].verb = "grant" => status = 200
    BY <1>1, <1>4, SuccessAt
  <2>2. QED BY <1>1, <1>2, <1>3, <1>4, <2>1
<1>5. CASE Answer(c, 500, 0) /\ Undo(c) /\ UNCHANGED <<lived, effect, doubt>>
  BY <1>1, <1>2, <1>3, <1>5
<1>6. CASE Answer(c, 500, 0) /\ Publish(c) /\ doubt' = [doubt EXCEPT ![c] = TRUE]
  <2>1. doubt'[c] BY <1>6 DEF IndInv, HistTypes
  <2>2. QED BY <1>1, <1>2, <1>3, <1>6, <2>1
<1>7. QED BY <1>4, <1>5, <1>6 DEF Commit

\* A transaction that fails on the way.
LEMMA DoFailsAt ==
    ASSUME IndInv, NEW c \in Calls, DoFails(c)
    PROVE  /\ pc[c] \in {"get", "call", "again"} /\ ran'[c] /\ Undo(c)
           /\ UNCHANGED <<lived, effect, doubt>>
           /\ Keyed(req[c]) => pc'[c] = "store"
           /\ ~Keyed(req[c]) => pc'[c] = "done"
           /\ ans'[c].replayed = FALSE /\ ans'[c].status \in {400, 500}
<1>1. PICK status \in {400, 500} : Answer(c, status, 0) BY DEF DoFails
<1>2. status \in Statuses BY DEF Statuses
<1>3. /\ pc'[c] = IF Keyed(req[c]) THEN "store" ELSE "done"
      /\ ans'[c] = [status |-> status, ver |-> 0, replayed |-> FALSE]
  BY <1>1, <1>2, AnswerAt DEF IndInv
<1>4. ran'[c] BY DEF DoFails, IndInv, CallTypes
<1>5. QED BY <1>3, <1>4 DEF DoFails

\* The last step of Once.
LEMMA StoreAt ==
    ASSUME IndInv, NEW c \in Calls, Store(c)
    PROVE  /\ pc[c] = "store" /\ pc'[c] = "done" /\ ans' = ans
           /\ LET e == [body |-> req[c].body, status |-> ans[c].status, ver |-> ans[c].ver,
                        fresh |-> TRUE]
              IN  \/ ans[c].status >= 500 /\ stored' = stored
                  \/ /\ ans[c].status < 500
                     /\ stored' = [Room(stored) EXCEPT ![IdemScope(req[c])] = e]
<1>1. pc[c] = "store" /\ ans' = ans BY DEF Store
<1>2. pc'[c] = "done" BY DEF Store, Goto, IndInv, CallTypes
<1>3. ans[c].status \in Int BY DEF IndInv, CallTypes, Replies, Statuses
<1>4. QED BY <1>1, <1>2, <1>3 DEF Store

-----------------------------------------------------------------------------
(* A step of a call keeps each part of the invariant.                      *)

\* The places.
LEMMA PlaceNext ==
    ASSUME IndInv, NEW c \in Calls, Arrive(c) \/ Step(c)
    PROVE  PlaceInv'
<1> SUFFICES ASSUME NEW d \in Calls PROVE PlaceOf(d)'
  BY DEF PlaceInv
<1>1. PlaceOf(d) BY DEF IndInv, PlaceInv
<1>2. CASE d # c
  <2>1. pc'[d] = pc[d] /\ req'[d] = req[d] /\ ran'[d] = ran[d] BY <1>2, CallFrame DEF SameCall
  <2>2. QED BY <1>1, <2>1 DEF PlaceOf
<1>3. CASE d = c
  <2>1. CASE Arrive(c)
    <3>1. ran'[c] = ran[c] /\ ~ran[c] BY <2>1, <1>1, <1>3, ArriveFrame, ArriveAt DEF PlaceOf
    <3>2. QED BY <1>3, <2>1, <3>1, ArriveAt DEF PlaceOf, Keyed
  <2>2. CASE Lookup(c)
    <3>1. req' = req BY <2>2, OnceFrame
    <3>2. QED BY <1>1, <1>3, <2>2, <3>1, LookupAt DEF PlaceOf, Keyed
  <2>3. CASE Store(c)
    <3>1. req' = req BY <2>3, OnceFrame
    <3>2. pc[c] = "store" /\ pc'[c] = "done" BY <2>3, StoreAt
    <3>3. QED BY <1>1, <1>3, <3>1, <3>2 DEF PlaceOf
  <2>4. CASE Get(c)
    <3>1. req' = req BY <2>4, GetFrame
    <3>2. QED BY <1>1, <1>3, <2>4, <3>1, GetAt DEF PlaceOf
  <2>5. CASE Create(c) \/ Set(c) \/ Act(c) \/ Remove(c) \/ Grant(c)
    <3>1. req' = req BY <2>5, WriteFrame
    <3>2. QED BY <1>1, <1>3, <2>5, <3>1, WriteAt DEF PlaceOf
  <2>6. CASE Again(c)
    <3>1. req' = req BY <2>6, EndFrame
    <3>2. QED BY <1>1, <1>3, <2>6, <3>1, AgainAt DEF PlaceOf
  <2>7. CASE Commit(c)
    <3>1. req' = req BY <2>7, EndFrame
    <3>2. pc[c] = "commit" /\ ran' = ran BY <2>7, CommitAt
    <3>3. pc'[c] = IF Keyed(req[c]) THEN "store" ELSE "done" BY <2>7, CommitAt, ZenonT(60)
    <3>4. Keyed(req[c]) => req[c].verb = "create" BY DEF Keyed
    <3>5. QED BY <1>1, <1>3, <3>1, <3>2, <3>3, <3>4 DEF PlaceOf
  <2>8. CASE DoFails(c)
    <3>1. req' = req BY <2>8, EndFrame
    <3>2. pc[c] \in {"get", "call", "again"} BY <2>8, DoFailsAt
    <3>3. (Keyed(req[c]) => pc'[c] = "store") /\ (~Keyed(req[c]) => pc'[c] = "done")
      BY <2>8, DoFailsAt
    <3>4. ran'[c] BY <2>8, DoFailsAt
    <3>5. QED BY <1>1, <1>3, <3>1, <3>2, <3>3, <3>4 DEF PlaceOf
  <2>9. QED BY <2>1, <2>2, <2>3, <2>4, <2>5, <2>6, <2>7, <2>8 DEF Step
<1>4. QED BY <1>2, <1>3

\* A commit moves the row that the call holds, and no other; a row that is gone
\* stays so.
LEMMA PublishRows ==
    ASSUME IndInv, NEW c \in Calls, Publish(c)
    PROVE  /\ \A d \in Calls : d # c /\ staged[d].tab = "row" =>
                row'[staged[d].id] = row[staged[d].id]
           /\ \A id \in Rows : row[id] = 0 => row'[id] = 0
<1>1. \A id \in Ids : IF staged[c].tab = "row" /\ staged[c].id = id
                        THEN row'[id] = staged[c].ver ELSE row'[id] = row[id]
  BY PublishAt
<1>2. Holds(c) /\ \A d \in Calls : Holds(d) BY DEF IndInv, StagedInv
<1>3. ASSUME NEW d \in Calls, d # c, staged[d].tab = "row"
      PROVE  row'[staged[d].id] = row[staged[d].id]
  BY <1>1, <1>2, <1>3 DEF Holds
<1>4. ASSUME NEW id \in Rows, row[id] = 0
      PROVE  row'[id] = 0
  BY <1>1, <1>2, <1>4, IdsAre DEF Holds
<1>5. QED BY <1>3, <1>4

\* What a transaction holds when another ends.
LEMMA HoldsEnd ==
    ASSUME IndInv, NEW c \in Calls, Unlock(c), staged'[c] = Nothing,
           \A d \in Calls : d # c => staged'[d] = staged[d],
           \A d \in Calls : d # c /\ staged[d].tab = "row" =>
             row'[staged[d].id] = row[staged[d].id]
    PROVE  (\A d \in Calls : Holds(d)') /\ (\A id \in Ids : Owned(id)')
<1>1. /\ \A id \in Ids : lock[id] = c => lock'[id] = None
      /\ \A id \in Ids : lock[id] # c => lock'[id] = lock[id]
      /\ lock \in [Ids -> Calls \cup {None}]
  BY UnlockAt DEF IndInv, RowTypes
<1>2. (\A d \in Calls : Holds(d)) /\ (\A id \in Ids : Owned(id)) BY DEF IndInv, StagedInv
<1>3. ASSUME NEW d \in Calls PROVE Holds(d)'
  <2>1. CASE d = c BY <2>1, WorksAre DEF Holds
  <2>2. CASE d # c BY <1>1, <1>2, <2>2 DEF Holds
  <2>3. QED BY <2>1, <2>2
<1>4. ASSUME NEW id \in Ids PROVE Owned(id)'
  <2>1. CASE lock[id] = c BY <1>1, <2>1 DEF Owned
  <2>2. CASE lock[id] # c BY <1>1, <1>2, <2>2 DEF Owned
  <2>3. QED BY <2>1, <2>2
<1>5. QED BY <1>3, <1>4

\* A transaction that writes a row has it, and the others what they had.
LEMMA HoldsStage ==
    ASSUME IndInv, NEW c \in Calls, staged[c] = Nothing, row' = row,
           NEW id \in Ids, NEW ver \in Nat, Stage(c, id, ver), id \in Rows => row[id] # 0
    PROVE  (\A d \in Calls : Holds(d)') /\ (\A i \in Ids : Owned(i)')
<1>1. /\ staged'[c] = [tab |-> "row", id |-> id, ver |-> ver]
      /\ \A d \in Calls : d # c => staged'[d] = staged[d]
      /\ lock[id] = None /\ lock'[id] = c /\ \A i \in Ids : i # id => lock'[i] = lock[i]
      /\ lock \in [Ids -> Calls \cup {None}]
  BY StageAt DEF IndInv, RowTypes
<1>2. (\A d \in Calls : Holds(d)) /\ (\A i \in Ids : Owned(i)) BY DEF IndInv, StagedInv
<1>3. None \notin Calls BY EntityRestAssumption
<1>4. ASSUME NEW d \in Calls PROVE Holds(d)'
  <2>1. CASE d = c
    <3>1. staged'[d].tab = "row" /\ staged'[d].id = id BY <1>1, <2>1
    <3>2. QED BY <1>1, <2>1, <3>1 DEF Holds
  <2>2. CASE d # c BY <1>1, <1>2, <1>3, <2>2 DEF Holds
  <2>3. QED BY <2>1, <2>2
<1>5. ASSUME NEW i \in Ids PROVE Owned(i)'
  <2>1. CASE i = id
    <3>1. staged'[c].tab = "row" /\ staged'[c].id = id BY <1>1
    <3>2. QED BY <1>1, <2>1, <3>1 DEF Owned
  <2>2. CASE i # id
    <3>1. lock'[i] = lock[i] BY <1>1, <2>2
    <3>2. lock[i] # c BY <1>2, WorksAre, <1>3 DEF Owned
    <3>3. QED BY <1>1, <1>2, <3>1, <3>2 DEF Owned
  <2>3. QED BY <2>1, <2>2
<1>6. QED BY <1>4, <1>5

\* What a handler writes.
LEMMA HoldsWrite ==
    ASSUME IndInv, NEW c \in Calls, Create(c) \/ Set(c) \/ Act(c) \/ Remove(c) \/ Grant(c)
    PROVE  (\A d \in Calls : Holds(d)') /\ (\A i \in Ids : Owned(i)')
<1> DEFINE q == req[c]
<1>1. row' = row BY WriteFrame
<1>2. pc[c] = "call" /\ staged[c] = Nothing BY WriteAt
<1>3. stamp + 1 \in Nat BY DEF IndInv, RowTypes
<1>4. q.verb # "create" => q.id \in Rows /\ q.id \in Ids BY <1>2, Fields, IdsAre
<1>5. CASE q.verb = "create" /\ Stage(c, c, stamp + 1)
  BY <1>1, <1>2, <1>3, <1>5, HoldsStage, IdsAre
<1>6. CASE /\ q.verb # "create" /\ row[q.id] # 0
           /\ Stage(c, q.id, stamp + 1) \/ Stage(c, q.id, 0)
  BY <1>1, <1>2, <1>3, <1>4, <1>6, HoldsStage
<1>7. (\A d \in Calls : Holds(d)) /\ (\A i \in Ids : Owned(i)) BY DEF IndInv, StagedInv
<1>8. CASE UNCHANGED <<lock, staged>>
  BY <1>1, <1>7, <1>8 DEF Holds, Owned
<1>9. CASE /\ q.verb = "grant" /\ lock' = lock
           /\ staged' = [staged EXCEPT ![c] =
                           [tab |-> "access", id |-> q.id, ver |-> Cast(q)]]
  <2>1. Cast(q) \in 0..MaskBits10 BY <1>2, Fields, CastAt
  <2>2. /\ staged'[c] = [tab |-> "access", id |-> q.id, ver |-> Cast(q)]
        /\ \A d \in Calls : d # c => staged'[d] = staged[d]
    BY <1>9 DEF IndInv, CallTypes
  <2>3. staged'[c].tab = "access" /\ staged'[c].id = q.id /\ staged'[c].ver = Cast(q)
    BY <2>2
  <2>4. ASSUME NEW d \in Calls PROVE Holds(d)'
    <3>1. CASE d = c BY <1>4, <1>9, <2>1, <2>3, <3>1 DEF Holds
    <3>2. CASE d # c BY <1>1, <1>7, <1>9, <2>2, <3>2 DEF Holds
    <3>3. QED BY <3>1, <3>2
  <2>5. ASSUME NEW i \in Ids PROVE Owned(i)'
    <3>1. lock[i] # c BY <1>2, <1>7, WorksAre, EntityRestAssumption DEF Owned
    <3>2. QED BY <1>7, <1>9, <2>2, <3>1 DEF Owned, IndInv, RowTypes
  <2>6. QED BY <2>4, <2>5
<1>10. QED
  <2>1. \/ q.verb = "create" /\ Stage(c, c, stamp + 1)
        \/ /\ q.verb # "create" /\ row[q.id] # 0
           /\ Stage(c, q.id, stamp + 1) \/ Stage(c, q.id, 0)
        \/ UNCHANGED <<lock, staged>>
        \/ /\ q.verb = "grant" /\ lock' = lock
           /\ staged' = [staged EXCEPT ![c] =
                           [tab |-> "access", id |-> q.id, ver |-> Cast(q)]]
    BY WriteAt
  <2>2. QED BY <1>5, <1>6, <1>8, <1>9, <2>1

\* A step of a call touches the rows and the locks as one of these.
LEMMA RowsMove ==
    ASSUME IndInv, NEW c \in Calls, Arrive(c) \/ Step(c)
    PROVE  \/ UNCHANGED <<row, lock, staged>>
           \/ Create(c) \/ Set(c) \/ Act(c) \/ Remove(c) \/ Grant(c)
           \/ Undo(c) /\ pc'[c] \in {"store", "done"}
           \/ Publish(c) /\ pc'[c] \in {"store", "done"}
<1>1. CASE Arrive(c) BY <1>1, ArriveFrame
<1>2. CASE Lookup(c) \/ Store(c) BY <1>2, OnceFrame
<1>3. CASE Get(c) BY <1>3, GetFrame
<1>4. CASE Again(c)
  <2>1. (Undo(c) /\ pc'[c] = "done") \/ UNCHANGED dbVars BY <1>4, AgainAt
  <2>2. QED BY <2>1 DEF dbVars
<1>5. CASE Commit(c)
  <2>1. pc'[c] = IF Keyed(req[c]) THEN "store" ELSE "done" BY <1>5, CommitAt, ZenonT(60)
  <2>2. Undo(c) \/ Publish(c) BY <1>5, CommitAt
  <2>3. QED BY <2>1, <2>2
<1>6. CASE DoFails(c)
  <2>1. (Keyed(req[c]) => pc'[c] = "store") /\ (~Keyed(req[c]) => pc'[c] = "done")
    BY <1>6, DoFailsAt, ZenonT(60)
  <2>2. Undo(c) BY <1>6, DoFailsAt
  <2>3. QED BY <2>1, <2>2
<1>7. QED BY <1>1, <1>2, <1>3, <1>4, <1>5, <1>6 DEF Step

\* What is staged.
LEMMA StagedNext ==
    ASSUME IndInv, NEW c \in Calls, Arrive(c) \/ Step(c)
    PROVE  StagedInv'
<1>1. (\A d \in Calls : Holds(d)) /\ (\A i \in Ids : Owned(i)) BY DEF IndInv, StagedInv
<1>2. (\A d \in Calls : Holds(d)') /\ (\A i \in Ids : Owned(i)')
  <2>1. CASE UNCHANGED <<row, lock, staged>> BY <1>1, <2>1 DEF Holds, Owned
  <2>2. CASE Create(c) \/ Set(c) \/ Act(c) \/ Remove(c) \/ Grant(c) BY <2>2, HoldsWrite
  <2>3. CASE Undo(c)
    <3>1. /\ Unlock(c) /\ staged'[c] = Nothing /\ row' = row
          /\ \A d \in Calls : d # c => staged'[d] = staged[d]
      BY <2>3, UndoAt
    <3>2. QED BY <3>1, HoldsEnd
  <2>4. CASE Publish(c)
    <3>1. /\ Unlock(c) /\ staged'[c] = Nothing
          /\ \A d \in Calls : d # c => staged'[d] = staged[d]
      BY <2>4, PublishAt
    <3>2. \A d \in Calls : d # c /\ staged[d].tab = "row" => row'[staged[d].id] = row[staged[d].id]
      BY <2>4, PublishRows
    <3>3. QED BY <3>1, <3>2, HoldsEnd
  <2>5. QED BY <2>1, <2>2, <2>3, <2>4, RowsMove
<1>3. ASSUME NEW d \in Calls, pc'[d] \notin {"again", "commit"}
      PROVE  staged'[d] = Nothing
  <2>1. pc[d] \notin {"again", "commit"} => staged[d] = Nothing BY DEF IndInv, StagedInv
  <2>2. CASE d # c BY <1>3, <2>1, <2>2, CallFrame DEF SameCall
  <2>3. CASE d = c
    <3>1. CASE Undo(c) BY <2>3, <3>1, UndoAt
    <3>2. CASE Publish(c) BY <2>3, <3>2, PublishAt
    <3>3. CASE Create(c) \/ Set(c) \/ Act(c) \/ Remove(c) \/ Grant(c)
      <4>1. pc'[c] = IF req[c].verb \in {"patch", "action", "run"} THEN "again" ELSE "commit"
        BY <3>3, WriteAt
      <4>2. QED BY <1>3, <2>3, <4>1
    <3>4. CASE Arrive(c) \/ Lookup(c) \/ Store(c) \/ Get(c)
      <4>1. pc[c] \in {"new", "once", "store", "get"} BY <3>4 DEF Arrive, Lookup, Store, Get
      <4>2. staged' = staged BY <3>4, ArriveFrame, OnceFrame, GetFrame
      <4>3. QED BY <2>1, <2>3, <4>1, <4>2
    <3>5. CASE Again(c) BY <1>3, <2>3, <3>1, <3>5, AgainAt
    <3>6. CASE Commit(c) BY <3>1, <3>2, <3>6, CommitAt
    <3>7. CASE DoFails(c) BY <3>1, <3>7 DEF DoFails
    <3>8. QED BY <3>3, <3>4, <3>5, <3>6, <3>7 DEF Step
  <2>4. QED BY <2>2, <2>3
<1>4. QED BY <1>2, <1>3 DEF StagedInv

\* A row that is gone does not come back.
LEMMA GoneStays ==
    ASSUME IndInv, NEW c \in Calls, Arrive(c) \/ Step(c), NEW id \in Rows, row[id] = 0
    PROVE  row'[id] = 0
<1>1. CASE UNCHANGED <<row, lock, staged>> BY <1>1
<1>2. CASE Create(c) \/ Set(c) \/ Act(c) \/ Remove(c) \/ Grant(c) BY <1>2, WriteFrame
<1>3. CASE Undo(c) BY <1>3, UndoAt
<1>4. CASE Publish(c) BY <1>4, PublishRows
<1>5. QED BY <1>1, <1>2, <1>3, <1>4, RowsMove

\* What a write has written.
LEMMA WorkWrite ==
    ASSUME IndInv, NEW c \in Calls, Create(c) \/ Set(c) \/ Act(c) \/ Remove(c) \/ Grant(c)
    PROVE  WorkOf(c)'
<1> DEFINE q == req[c]
<1>1. req' = req /\ row' = row BY WriteFrame
<1>2. /\ pc[c] = "call" /\ staged[c] = Nothing
      /\ pc'[c] = IF q.verb \in {"patch", "action", "run"} THEN "again" ELSE "commit"
  BY WriteAt
<1>3. stamp + 1 \in Nat /\ stamp + 1 # 0 BY DEF IndInv, RowTypes
<1>4. q.verb # "create" => q.id \in Ids BY <1>2, Fields, IdsAre
<1>5. CASE q.verb = "create"
  <2>1. Stage(c, c, stamp + 1) BY <1>5, WriteAt
  <2>2. staged'[c] = [tab |-> "row", id |-> c, ver |-> stamp + 1]
    BY <1>3, <2>1, StageAt, IdsAre
  <2>3. Writes(c, c)' BY <1>3, <2>2 DEF Writes
  <2>4. QED BY <1>1, <1>2, <1>5, <2>3 DEF WorkOf
<1>6. CASE q.verb \in {"update", "patch"} /\ Stage(c, q.id, stamp + 1)
  <2>1. staged'[c] = [tab |-> "row", id |-> q.id, ver |-> stamp + 1]
    BY <1>3, <1>4, <1>6, StageAt
  <2>2. Writes(c, req[c].id)' BY <1>1, <1>3, <2>1 DEF Writes
  <2>3. QED BY <1>1, <1>2, <1>6, <2>2 DEF WorkOf
<1>7. CASE q.verb = "patch" /\ row[q.id] = 0 /\ UNCHANGED <<lock, staged>>
  BY <1>1, <1>2, <1>7 DEF WorkOf
<1>8. CASE q.verb \in {"action", "run", "delete"}
  BY <1>1, <1>2, <1>8 DEF WorkOf
<1>9. CASE /\ q.verb = "grant"
           /\ staged' = [staged EXCEPT ![c] =
                           [tab |-> "access", id |-> q.id, ver |-> Cast(q)]]
  <2>1. q.mask \in Nat /\ q.max \in {MaskBits6, MaskBits10} BY <1>2, Fields
  <2>2. Bound(q) BY <1>2, <1>9 DEF IndInv, PlaceInv, PlaceOf, Accepted
  <2>3. Cast(q) = q.mask BY <2>1, <2>2, CastAt
  <2>4. staged'[c] = [tab |-> "access", id |-> q.id, ver |-> Cast(q)]
    BY <1>9 DEF IndInv, CallTypes
  <2>5. QED BY <1>1, <1>2, <1>9, <2>3, <2>4 DEF WorkOf
<1>10. QED BY <1>5, <1>6, <1>7, <1>8, <1>9, WriteAt

\* What is written before a commit.
LEMMA WorkNext ==
    ASSUME IndInv, NEW c \in Calls, Arrive(c) \/ Step(c)
    PROVE  WorkInv'
<1> SUFFICES ASSUME NEW d \in Calls PROVE WorkOf(d)'
  BY DEF WorkInv
<1>1. WorkOf(d) BY DEF IndInv, WorkInv
<1>2. CASE d # c
  <2>1. pc'[d] = pc[d] /\ req'[d] = req[d] /\ staged'[d] = staged[d] /\ ans'[d] = ans[d]
    BY <1>2, CallFrame DEF SameCall
  <2>2. pc[d] = "again" => req[d].id \in Rows
    BY Fields DEF IndInv, PlaceInv, PlaceOf
  <2>3. pc[d] = "again" /\ row[req[d].id] = 0 => row'[req[d].id] = 0 BY <2>2, GoneStays
  <2>4. QED BY <1>1, <2>1, <2>3 DEF WorkOf, Writes
<1>3. CASE d = c
  <2>1. CASE Create(c) \/ Set(c) \/ Act(c) \/ Remove(c) \/ Grant(c) BY <1>3, <2>1, WorkWrite
  <2>2. CASE Again(c) /\ pc'[c] = "commit"
    <3>1. /\ pc[c] = "again" /\ UNCHANGED dbVars
          /\ Seen(c) # 0 \/ req[c].verb = "action"
          /\ ans'[c].ver = Seen(c)
      BY <2>2, AgainAt
    <3>2. req' = req /\ staged' = staged BY <2>2, <3>1, EndFrame DEF dbVars
    <3>3. req[c].verb \in {"patch", "action", "run"} BY <3>1 DEF IndInv, PlaceInv, PlaceOf
    <3>4. req[c].verb = "patch" => Writes(c, req[c].id) /\ Seen(c) = staged[c].ver
      BY <1>1, <1>3, <3>1, WorksAre DEF WorkOf, Writes, Seen
    <3>5. QED BY <1>3, <2>2, <3>1, <3>2, <3>3, <3>4 DEF WorkOf, Writes
  <2>3. CASE pc'[c] \notin {"again", "commit"} BY <1>3, <2>3 DEF WorkOf
  <2>4. CASE Arrive(c) \/ Lookup(c) \/ Store(c) \/ Get(c)
    <3>1. pc'[c] \notin {"again", "commit"}
      <4>1. CASE Arrive(c) BY <4>1, ArriveAt
      <4>2. CASE Lookup(c) BY <4>2, LookupAt
      <4>3. CASE Store(c) BY <4>3, StoreAt
      <4>4. CASE Get(c) BY <4>4, GetAt
      <4>5. QED BY <2>4, <4>1, <4>2, <4>3, <4>4
    <3>2. QED BY <2>3, <3>1
  <2>5. CASE Again(c) /\ pc'[c] # "commit" BY <2>3, <2>5, AgainAt
  <2>6. CASE Commit(c) BY <2>3, <2>6, CommitAt
  <2>7. CASE DoFails(c) BY <2>3, <2>7, DoFailsAt, ZenonT(60)
  <2>8. QED BY <2>1, <2>2, <2>4, <2>5, <2>6, <2>7 DEF Step
<1>4. QED BY <1>2, <1>3

\* A transaction that has given a row a revision has staged just that.
LEMMA WritesAre ==
    ASSUME IndInv, NEW c \in Calls, NEW id, Writes(c, id)
    PROVE  staged[c] = [tab |-> "row", id |-> id, ver |-> staged[c].ver]
<1>1. staged[c] \in Works BY DEF IndInv, CallTypes
<1>2. staged[c] = [tab |-> staged[c].tab, id |-> staged[c].id, ver |-> staged[c].ver]
  BY <1>1 DEF Works
<1>3. QED BY <1>2 DEF Writes

\* What a commit tells of its effect.
LEMMA EffectCommit ==
    ASSUME IndInv, NEW c \in Calls, Commit(c)
    PROVE  EffectOf(c)'
<1> DEFINE q == req[c]
<1>1. req' = req BY EndFrame
<1>2. pc[c] = "commit" /\ ran' = ran /\ pc'[c] = IF Keyed(q) THEN "store" ELSE "done"
  BY CommitAt, ZenonT(60)
<1>3. pc'[c] \in {"store", "done"} BY <1>2
<1>4. effect[c] = Nothing /\ ~doubt[c] BY <1>2 DEF IndInv, EffectInv, EffectOf
<1>5. CASE Undo(c) /\ UNCHANGED <<lived, effect, doubt>> /\ ans'[c].status = 500
  BY <1>3, <1>4, <1>5 DEF EffectOf, Truthful
<1>6. CASE Publish(c) /\ doubt'[c] /\ ans'[c].status = 500
  BY <1>3, <1>6 DEF EffectOf, Truthful
<1>7. CASE /\ Publish(c) /\ doubt' = doubt /\ ans'[c].status \in {200, 201, 204}
           /\ IF q.verb = "create" THEN ans'[c].status = 201 /\ ans'[c].ver = staged[c].ver
              ELSE ans'[c].status # 201
           /\ q.verb \in {"update", "patch"} => ans'[c].status = 200 /\ ans'[c].ver = staged[c].ver
           /\ q.verb = "grant" => ans'[c].status = 200
  <2>1. effect'[c] = staged[c] BY <1>7, PublishAt
  <2>2. WorkOf(c) BY DEF IndInv, WorkInv
  <2>3. q.verb = "create" => staged[c] = [tab |-> "row", id |-> c, ver |-> staged[c].ver]
    BY <1>2, <2>2, WritesAre DEF WorkOf
  <2>4. q.verb \in {"update", "patch"} =>
          staged[c] = [tab |-> "row", id |-> q.id, ver |-> staged[c].ver]
    BY <1>2, <2>2, WritesAre DEF WorkOf
  <2>6. q.verb = "grant" => staged[c] = [tab |-> "access", id |-> q.id, ver |-> q.mask]
    BY <1>2, <2>2 DEF WorkOf
  <2>7. Truthful(c)'
    <3>1. ans'[c].status = 201 => effect'[c] = [tab |-> "row", id |-> c, ver |-> ans'[c].ver]
      BY <1>7, <2>1, <2>3
    <3>2. ans'[c].status = 200 /\ q.verb \in {"update", "patch"} =>
            effect'[c] = [tab |-> "row", id |-> q.id, ver |-> ans'[c].ver]
      BY <1>7, <2>1, <2>4
    <3>3. ans'[c].status = 200 /\ q.verb = "grant" =>
            effect'[c] = [tab |-> "access", id |-> q.id, ver |-> q.mask]
      BY <2>1, <2>6
    <3>4. ~(ans'[c].status >= 400) BY <1>7
    <3>5. QED BY <1>1, <3>1, <3>2, <3>3, <3>4 DEF Truthful
  <2>8. QED BY <1>3, <2>7 DEF EffectOf
<1>8. QED
  <2>1. \/ /\ Publish(c) /\ doubt' = doubt /\ ans'[c].status \in {200, 201, 204}
           /\ IF q.verb = "create" THEN ans'[c].status = 201 /\ ans'[c].ver = staged[c].ver
              ELSE ans'[c].status # 201
           /\ q.verb \in {"update", "patch"} => ans'[c].status = 200 /\ ans'[c].ver = staged[c].ver
           /\ q.verb = "grant" => ans'[c].status = 200
        \/ Undo(c) /\ UNCHANGED <<lived, effect, doubt>> /\ ans'[c].status = 500
        \/ Publish(c) /\ doubt'[c] /\ ans'[c].status = 500
    BY CommitAt
  <2>2. QED BY <1>5, <1>6, <1>7, <2>1

\* What is durable, and what is told of it.
LEMMA EffectNext ==
    ASSUME IndInv, NEW c \in Calls, Arrive(c) \/ Step(c)
    PROVE  EffectInv'
<1> SUFFICES ASSUME NEW d \in Calls PROVE EffectOf(d)'
  BY DEF EffectInv
<1>1. EffectOf(d) BY DEF IndInv, EffectInv
<1>2. CASE d # c
  <2>1. /\ pc'[d] = pc[d] /\ req'[d] = req[d] /\ ans'[d] = ans[d]
        /\ effect'[d] = effect[d] /\ doubt'[d] = doubt[d]
    BY <1>2, CallFrame DEF SameCall
  <2>2. QED BY <1>1, <2>1 DEF EffectOf, Truthful
<1>3. CASE d = c
  <2>0. ASSUME UNCHANGED <<effect, doubt>>, effect[c] = Nothing, ~doubt[c],
               ans'[c].status # 201, ans'[c].status = 200 => req'[c].verb = "read"
        PROVE  EffectOf(c)'
    BY <2>0 DEF EffectOf, Truthful
  <2>1. CASE Arrive(c)
    <3>1. pc[c] = "new" BY <2>1, ArriveAt
    <3>2. UNCHANGED <<effect, doubt>> /\ effect[c] = Nothing /\ ~doubt[c]
      BY <1>1, <1>3, <2>1, <3>1, ArriveFrame DEF EffectOf
    <3>3. CASE /\ Refusal(req'[c]) # 0
               /\ ans'[c] = [status |-> Refusal(req'[c]), ver |-> 0, replayed |-> FALSE]
      <4>1. req'[c] \in Menu BY <2>1, ArriveAt
      <4>2. Refusal(req'[c]) \in {400, 428} BY <3>3, <4>1, RefusalAt
      <4>3. ans'[c].status \in {400, 428} BY <3>3, <4>2
      <4>4. QED BY <1>3, <2>0, <3>2, <4>3
    <3>4. CASE pc'[c] \notin {"store", "done"} BY <1>3, <3>2, <3>4 DEF EffectOf
    <3>5. QED BY <2>1, <3>3, <3>4, ArriveAt
  <2>2. CASE Lookup(c)
    <3>1. pc[c] = "once" BY <2>2, LookupAt
    <3>2. UNCHANGED <<effect, doubt>> /\ effect[c] = Nothing /\ ~doubt[c]
      BY <1>1, <1>3, <2>2, <3>1, OnceFrame DEF EffectOf, histVars
    <3>3. CASE pc'[c] = "call" BY <1>3, <3>2, <3>3 DEF EffectOf
    <3>4. CASE ans'[c] = [status |-> 409, ver |-> 0, replayed |-> FALSE]
      <4>1. ans'[c].status = 409 BY <3>4
      <4>2. QED BY <1>3, <2>0, <3>2, <4>1
    <3>5. CASE /\ pc'[c] = "done"
               /\ \E st, n : ans'[c] = [status |-> st, ver |-> n, replayed |-> TRUE]
      <4>1. ans'[c].replayed = TRUE BY <3>5
      <4>2. QED BY <1>3, <3>5, <4>1 DEF EffectOf
    <3>6. \/ pc'[c] = "call" \/ ans'[c] = [status |-> 409, ver |-> 0, replayed |-> FALSE]
          \/ /\ pc'[c] = "done"
             /\ ans'[c] = [status |-> stored[IdemScope(req[c])].status,
                          ver |-> stored[IdemScope(req[c])].ver, replayed |-> TRUE]
      BY <2>2, LookupAt
    <3>7. QED BY <3>3, <3>4, <3>5, <3>6
  <2>3. CASE Store(c)
    <3>1. pc[c] = "store" /\ pc'[c] = "done" /\ ans' = ans BY <2>3, StoreAt
    <3>2. UNCHANGED <<req, effect, doubt>> BY <2>3, OnceFrame DEF histVars
    <3>3. QED BY <1>1, <1>3, <3>1, <3>2 DEF EffectOf, Truthful
  <2>4. CASE Get(c)
    <3>1. pc[c] = "get" BY <2>4, GetAt
    <3>2. UNCHANGED <<effect, doubt>> /\ effect[c] = Nothing /\ ~doubt[c] /\ req' = req
      BY <1>1, <1>3, <2>4, <3>1, GetFrame DEF EffectOf
    <3>3. CASE pc'[c] = "call" BY <1>3, <3>2, <3>3 DEF EffectOf
    <3>4. CASE pc'[c] # "call"
      <4>1. /\ ans'[c].status \in {200, 304, 404, 412}
            /\ ans'[c].status = 200 => req[c].verb = "read"
        <5>1. \A st, n : ans'[c] = [status |-> st, ver |-> n, replayed |-> FALSE] =>
                ans'[c].status = st
          OBVIOUS
        <5>2. \/ ans'[c] = [status |-> 404, ver |-> 0, replayed |-> FALSE]
              \/ /\ req[c].verb = "read"
                 /\ \/ ans'[c] = [status |-> 304, ver |-> row[req[c].id], replayed |-> FALSE]
                    \/ ans'[c] = [status |-> 200, ver |-> row[req[c].id], replayed |-> FALSE]
              \/ ans'[c] = [status |-> 412, ver |-> 0, replayed |-> FALSE]
          BY <2>4, <3>4, GetAt
        <5>3. QED BY <5>1, <5>2
      <4>2. QED BY <1>3, <2>0, <3>2, <4>1
    <3>5. QED BY <3>3, <3>4
  <2>5. CASE Create(c) \/ Set(c) \/ Act(c) \/ Remove(c) \/ Grant(c)
    <3>1. pc[c] = "call" /\ pc'[c] \in {"again", "commit"} BY <2>5, WriteAt
    <3>2. UNCHANGED <<effect, doubt>> BY <2>5, WriteFrame
    <3>3. QED BY <1>1, <1>3, <3>1, <3>2 DEF EffectOf
  <2>6. CASE Again(c)
    <3>1. pc[c] = "again" /\ UNCHANGED <<effect, doubt>> BY <2>6, AgainAt
    <3>2. effect[c] = Nothing /\ ~doubt[c] BY <1>1, <1>3, <3>1 DEF EffectOf
    <3>3. CASE pc'[c] = "commit" BY <1>3, <3>1, <3>2, <3>3 DEF EffectOf
    <3>4. CASE ans'[c] = [status |-> 404, ver |-> 0, replayed |-> FALSE]
      <4>1. ans'[c].status = 404 BY <3>4
      <4>2. QED BY <1>3, <2>0, <3>1, <3>2, <4>1
    <3>5. QED BY <2>6, <3>3, <3>4, AgainAt
  <2>7. CASE Commit(c) BY <1>3, <2>7, EffectCommit
  <2>8. CASE DoFails(c)
    <3>1. UNCHANGED <<effect, doubt>> BY <2>8, DoFailsAt
    <3>2. ans'[c].status \in {400, 500} BY <2>8, DoFailsAt, ZenonT(60)
    <3>3. effect[c] = Nothing /\ ~doubt[c] BY <1>1, <1>3, <2>8 DEF EffectOf, DoFails
    <3>4. QED BY <1>3, <2>0, <3>1, <3>2, <3>3
  <2>9. QED BY <2>1, <2>2, <2>3, <2>4, <2>5, <2>6, <2>7, <2>8 DEF Step
<1>4. QED BY <1>2, <1>3

\* Within a step of a call that has come, no revision is forgotten, and the
\* request is what it was.
LEMMA StepLived ==
    ASSUME IndInv, NEW c \in Calls, Step(c)
    PROVE  /\ pc[c] # "new" /\ req' = req
           /\ \A d \in Calls : lived[d] \subseteq lived'[d]
<1>1. pc[c] # "new"
  BY DEF Step, Lookup, Store, Get, Create, Set, Act, Remove, Grant, Again, Commit, DoFails
<1>2. req' = req BY OnceFrame, GetFrame, WriteFrame, EndFrame DEF Step
<1>3. lived' = lived \/ Publish(c)
  BY OnceFrame, GetFrame, WriteFrame DEF Step, Again, Commit, DoFails, histVars
<1>4. QED BY <1>1, <1>2, <1>3, PublishAt

\* The revision of a call's row, however others move it, has lived in the call.
LEMMA LivedRow ==
    ASSUME IndInv, NEW c \in Calls, Arrive(c) \/ Step(c), NEW d \in Calls,
           pc[d] # "new", req[d].id # None, d = c => Step(c)
    PROVE  row'[req[d].id] \in lived'[d]
<1>1. row[req[d].id] \in lived[d] BY DEF IndInv, LivedInv, LivedOf
<1>2. lived[d] \subseteq lived'[d] BY CallFrame, StepLived DEF SameCall
<1>3. CASE row' = row BY <1>1, <1>2, <1>3
<1>4. CASE Publish(c)
  <2>1. req[d].id \in Ids BY Fields, IdsAre
  <2>2. IF staged[c].tab = "row" /\ staged[c].id = req[d].id
          THEN row'[req[d].id] = staged[c].ver ELSE row'[req[d].id] = row[req[d].id]
    BY <1>4, <2>1, PublishAt
  <2>3. staged[c].tab = "row" /\ req[d].id = staged[c].id => staged[c].ver \in lived'[d]
    BY <1>4, PublishAt
  <2>4. QED BY <1>1, <1>2, <2>2, <2>3
<1>5. row' = row \/ Publish(c)
  BY RowsMove, WriteFrame, UndoAt
<1>6. QED BY <1>3, <1>4, <1>5

\* A condition that was true of some revision stays true of it.
LEMMA ConditionalStays ==
    ASSUME NEW d \in Calls, Conditional(d), ans'[d] = ans[d], req'[d] = req[d],
           lived[d] \subseteq lived'[d]
    PROVE  Conditional(d)'
BY DEF Conditional

\* What the first read shows.
LEMMA LivedGet ==
    ASSUME IndInv, NEW c \in Calls, Get(c)
    PROVE  LivedOf(c)'
<1> DEFINE q == req[c]
           v == row[q.id]
<1>1. UNCHANGED <<req, row, lived>> BY GetFrame
<1>2. pc[c] = "get" /\ q.verb # "create" BY GetAt
<1>3. q.id \in Rows /\ q.id # None BY <1>2, Fields, EntityRestAssumption
<1>4. v \in lived[c] BY <1>2, <1>3 DEF IndInv, LivedInv, LivedOf
<1>5. \A st, n : ans'[c] = [status |-> st, ver |-> n, replayed |-> FALSE] =>
        ans'[c].status = st
  OBVIOUS
<1>6. CASE v = 0 /\ pc'[c] = "done" /\ ans'[c] = [status |-> 404, ver |-> 0, replayed |-> FALSE]
  <2>1. ans'[c].status = 404 BY <1>5, <1>6
  <2>2. Conditional(c)' BY <1>1, <1>4, <1>6, <2>1 DEF Conditional
  <2>3. QED BY <1>1, <1>4, <1>6, <2>2 DEF LivedOf
<1>7. CASE /\ v # 0 /\ q.verb = "read" /\ pc'[c] = "done"
           /\ \/ q.tag = v /\ ans'[c] = [status |-> 304, ver |-> v, replayed |-> FALSE]
              \/ ans'[c] = [status |-> 200, ver |-> v, replayed |-> FALSE]
  <2>1. ans'[c].status = 200 \/ (ans'[c].status = 304 /\ q.tag = v) BY <1>5, <1>7
  <2>2. Conditional(c)' BY <1>1, <1>4, <1>7, <2>1 DEF Conditional
  <2>3. QED BY <1>1, <1>4, <1>7, <2>2 DEF LivedOf
<1>8. CASE /\ v # 0 /\ q.verb \in {"update", "patch"} /\ q.tag # v /\ pc'[c] = "done"
           /\ ans'[c] = [status |-> 412, ver |-> 0, replayed |-> FALSE]
  <2>1. ans'[c].status = 412 BY <1>5, <1>8
  <2>2. v \in lived[c] \ {0, q.tag} BY <1>4, <1>8
  <2>3. Conditional(c)' BY <1>1, <2>1, <2>2 DEF Conditional
  <2>4. QED BY <1>1, <1>4, <1>8, <2>3 DEF LivedOf
<1>9. CASE /\ v # 0 /\ q.verb # "read" /\ pc'[c] = "call" /\ ans'[c] = ans[c]
           /\ q.verb \in {"update", "patch"} /\ q.tag # Star => q.tag = v
  BY <1>1, <1>4, <1>9 DEF LivedOf
<1>10. QED
  <2>1. \/ v = 0 /\ pc'[c] = "done" /\ ans'[c] = [status |-> 404, ver |-> 0, replayed |-> FALSE]
        \/ /\ v # 0 /\ q.verb = "read" /\ pc'[c] = "done"
           /\ \/ q.tag = v /\ ans'[c] = [status |-> 304, ver |-> v, replayed |-> FALSE]
              \/ ans'[c] = [status |-> 200, ver |-> v, replayed |-> FALSE]
        \/ /\ v # 0 /\ q.verb \in {"update", "patch"} /\ q.tag # v /\ pc'[c] = "done"
           /\ ans'[c] = [status |-> 412, ver |-> 0, replayed |-> FALSE]
        \/ /\ v # 0 /\ q.verb # "read" /\ pc'[c] = "call" /\ ans'[c] = ans[c]
           /\ q.verb \in {"update", "patch"} /\ q.tag # Star => q.tag = v
    BY GetAt
  <2>2. QED BY <1>6, <1>7, <1>8, <1>9, <2>1

\* What the second read, the commit and a failure say of the row.
LEMMA LivedEnd ==
    ASSUME IndInv, NEW c \in Calls, Again(c) \/ Commit(c) \/ DoFails(c)
    PROVE  LivedOf(c)'
<1> DEFINE q == req[c]
<1>1. Step(c) BY DEF Step
<1>2. pc[c] # "new" /\ req' = req /\ lived[c] \subseteq lived'[c] BY <1>1, StepLived
<1>3. q.id # None => row'[q.id] \in lived'[c] BY <1>1, <1>2, LivedRow
<1>4. LivedOf(c) BY DEF IndInv, LivedInv
<1>5. CASE Again(c) /\ pc'[c] = "commit"
  <2>1. pc[c] = "again" BY <1>5, AgainAt
  <2>2. QED BY <1>2, <1>3, <1>4, <1>5, <2>1 DEF LivedOf
<1>6. CASE Again(c) /\ pc'[c] # "commit"
  <2>1. /\ pc[c] = "again" /\ Seen(c) = 0 /\ q.verb # "action" /\ pc'[c] = "done"
        /\ ans'[c] = [status |-> 404, ver |-> 0, replayed |-> FALSE]
    BY <1>6, AgainAt
  <2>2. ans'[c].status = 404 BY <2>1
  <2>3. q.verb \in {"patch", "run"} BY <2>1 DEF IndInv, PlaceInv, PlaceOf
  <2>4. q.id \in Rows /\ q.id # None BY <2>1, <2>3, Fields, EntityRestAssumption
  <2>5. WorkOf(c) BY DEF IndInv, WorkInv
  <2>6. q.verb = "patch" => row[q.id] = 0
    BY <2>1, <2>5, WorksAre DEF WorkOf, Writes, Seen
  <2>7. q.verb = "patch" => 0 \in lived'[c] BY <1>2, <1>4, <2>1, <2>4, <2>6 DEF LivedOf
  <2>8. Conditional(c)' BY <1>2, <2>2, <2>3, <2>7 DEF Conditional
  <2>9. QED BY <1>2, <1>3, <2>1, <2>8 DEF LivedOf
<1>7. CASE Commit(c)
  <2>1. pc[c] = "commit" /\ ans'[c].status \in {200, 201, 204, 500}
    BY <1>7, CommitAt, ZenonT(60)
  <2>2. q.verb # "create" => Conditional(c)'
    BY <1>2, <1>4, <2>1 DEF LivedOf, Conditional
  <2>3. pc'[c] \in {"store", "done"} BY <1>7, CommitAt
  <2>4. QED BY <1>2, <1>3, <2>2, <2>3 DEF LivedOf
<1>8. CASE DoFails(c)
  <2>1. ans'[c].status \in {400, 500} BY <1>8, DoFailsAt, ZenonT(60)
  <2>2. Conditional(c)' BY <1>2, <2>1 DEF Conditional
  <2>3. pc'[c] \in {"store", "done"} BY <1>8, DoFailsAt, ZenonT(60)
  <2>4. QED BY <1>2, <1>3, <2>2, <2>3 DEF LivedOf
<1>9. QED BY <1>5, <1>6, <1>7, <1>8

\* What lived in a call.
LEMMA LivedNext ==
    ASSUME IndInv, NEW c \in Calls, Arrive(c) \/ Step(c)
    PROVE  LivedInv'
<1> SUFFICES ASSUME NEW d \in Calls PROVE LivedOf(d)'
  BY DEF LivedInv
<1>1. LivedOf(d) BY DEF IndInv, LivedInv
<1>2. CASE d # c
  <2>1. /\ pc'[d] = pc[d] /\ req'[d] = req[d] /\ ans'[d] = ans[d]
        /\ lived[d] \subseteq lived'[d]
    BY <1>2, CallFrame DEF SameCall
  <2>2. pc[d] # "new" /\ req[d].id # None => row'[req[d].id] \in lived'[d]
    BY <1>2, LivedRow
  <2>3. Conditional(d) => Conditional(d)' BY <2>1, ConditionalStays
  <2>4. QED BY <1>1, <2>1, <2>2, <2>3 DEF LivedOf
<1>3. CASE d = c
  <2>1. CASE Arrive(c)
    <3>1. /\ req'[c] \in Menu /\ row' = row
          /\ lived'[c] = IF req'[c].id = None THEN {} ELSE {row[req'[c].id]}
      BY <2>1, ArriveAt, ArriveFrame
    <3>2. CASE /\ pc'[c] = "done" /\ Refusal(req'[c]) # 0
               /\ ans'[c] = [status |-> Refusal(req'[c]), ver |-> 0, replayed |-> FALSE]
      <4>1. Refusal(req'[c]) \in {400, 428} BY <3>1, <3>2, RefusalAt
      <4>2. ans'[c].status \in {400, 428} BY <3>2, <4>1
      <4>3. Conditional(c)' BY <4>2 DEF Conditional
      <4>4. QED BY <1>3, <3>1, <3>2, <4>3 DEF LivedOf
    <3>3. CASE pc'[c] = IF Keyed(req'[c]) THEN "once"
                        ELSE IF req'[c].verb = "create" THEN "call" ELSE "get"
      BY <1>3, <3>1, <3>3 DEF LivedOf
    <3>4. QED BY <2>1, <3>2, <3>3, ArriveAt
  <2>2. CASE Lookup(c) \/ Store(c)
    <3>1. Step(c) BY <2>2 DEF Step
    <3>2. req[c].verb = "create" /\ req' = req
      BY <2>2, <3>1, StepLived DEF Lookup, Store, IndInv, PlaceInv, PlaceOf, Keyed
    <3>3. pc[c] # "new" BY <3>1, StepLived
    <3>4. req[c].id # None => row'[req[c].id] \in lived'[c] BY <3>1, <3>3, LivedRow
    <3>5. QED BY <1>3, <3>2, <3>4 DEF LivedOf
  <2>3. CASE Get(c) BY <1>3, <2>3, LivedGet
  <2>4. CASE Create(c) \/ Set(c) \/ Act(c) \/ Remove(c) \/ Grant(c)
    <3>1. UNCHANGED <<req, row, lived>> BY <2>4, WriteFrame
    <3>2. pc[c] = "call" /\ pc'[c] \in {"again", "commit"} BY <2>4, WriteAt
    <3>3. QED BY <1>1, <1>3, <3>1, <3>2 DEF LivedOf
  <2>5. CASE Again(c) \/ Commit(c) \/ DoFails(c) BY <1>3, <2>5, LivedEnd
  <2>6. QED BY <2>1, <2>2, <2>3, <2>4, <2>5 DEF Step
<1>4. QED BY <1>2, <1>3

\* A settled answer is not touched again, and only Store settles one.
LEMMA SettledStays ==
    ASSUME IndInv, NEW c \in Calls, Arrive(c) \/ Step(c), NEW d \in Calls, Settled(d)
    PROVE  d # c /\ Settled(d)' /\ req'[d] = req[d] /\ ans'[d] = ans[d]
<1>1. pc[c] # "done"
  BY DEF Arrive, Step, Lookup, Store, Get, Create, Set, Act, Remove, Grant, Again, Commit, DoFails
<1>2. d # c BY <1>1 DEF Settled
<1>3. pc'[d] = pc[d] /\ req'[d] = req[d] /\ ans'[d] = ans[d] /\ ran'[d] = ran[d]
  BY <1>2, CallFrame DEF SameCall
<1>4. QED BY <1>2, <1>3 DEF Settled

\* Where a call stands after a step of it: what is answered, and by whom.
LEMMA AnsweredAt ==
    ASSUME IndInv, NEW c \in Calls, Arrive(c) \/ Step(c)
    PROVE  /\ pc'[c] = "store" => ans'[c].status \in {201, 400, 500}
           /\ pc'[c] = "done" => ans'[c].status # 0
           /\ pc'[c] = "done" /\ Keyed(req'[c]) =>
                \/ Store(c)
                \/ Lookup(c) /\ ~ran'[c]
                \/ Arrive(c) /\ ans'[c].status = 400 /\ ~ran'[c]
<1>1. CASE Arrive(c)
  <2>1. req'[c] \in Menu /\ pc[c] = "new" /\ pc'[c] # "store" BY <1>1, ArriveAt
  <2>2. ~ran'[c] BY <1>1, <2>1, ArriveFrame DEF IndInv, PlaceInv, PlaceOf
  <2>3. pc'[c] = "done" =>
          /\ Refusal(req'[c]) # 0
          /\ ans'[c] = [status |-> Refusal(req'[c]), ver |-> 0, replayed |-> FALSE]
    BY <1>1, ArriveAt
  <2>4. pc'[c] = "done" => Refusal(req'[c]) # 0 /\ ans'[c].status = Refusal(req'[c]) BY <2>3
  <2>5. /\ Refusal(req'[c]) \in {0, 400, 428}
        /\ req'[c].verb = "create" => Refusal(req'[c]) \in {0, 400}
    BY <2>1, RefusalAt
  <2>6. QED BY <1>1, <2>1, <2>2, <2>4, <2>5 DEF Keyed
<1>2. CASE Lookup(c)
  <2>1. pc[c] = "once" /\ pc'[c] # "store" BY <1>2, LookupAt
  <2>2. ran' = ran BY <1>2, OnceFrame DEF histVars
  <2>3. ~ran'[c] BY <2>1, <2>2 DEF IndInv, PlaceInv, PlaceOf
  <2>4. pc'[c] = "done" => ans'[c].status # 0
    <3> DEFINE s == stored[IdemScope(req[c])]
    <3>1. CASE s # None /\ ans'[c] = [status |-> s.status, ver |-> s.ver, replayed |-> TRUE]
      <4>1. IdemScope(req[c]) \in Scopes BY <2>1, Fields
      <4>2. PICK d \in Calls : Settled(d) /\ s.status = ans[d].status
        BY <3>1, <4>1 DEF IndInv, StoreInv
      <4>3. ans'[c].status = s.status BY <3>1
      <4>4. QED BY <4>2, <4>3 DEF Settled
    <3>2. CASE ans'[c] = [status |-> 409, ver |-> 0, replayed |-> FALSE]
      <4>1. ans'[c].status = 409 BY <3>2
      <4>2. QED BY <4>1
    <3>3. \/ pc'[c] = "call" \/ ans'[c] = [status |-> 409, ver |-> 0, replayed |-> FALSE]
          \/ s # None /\ ans'[c] = [status |-> s.status, ver |-> s.ver, replayed |-> TRUE]
      BY <1>2, LookupAt
    <3>4. QED BY <3>1, <3>2, <3>3
  <2>5. QED BY <1>2, <2>1, <2>3, <2>4
<1>3. CASE Store(c)
  <2>1. pc[c] = "store" /\ pc'[c] = "done" /\ ans' = ans BY <1>3, StoreAt
  <2>2. QED BY <1>3, <2>1 DEF IndInv, StoreInv
<1>4. CASE Get(c)
  <2>1. pc'[c] \in {"call", "done"} /\ ~Keyed(req[c]) BY <1>4, GetAt
  <2>2. req' = req BY <1>4, GetFrame
  <2>3. \A st, n : ans'[c] = [status |-> st, ver |-> n, replayed |-> FALSE] => ans'[c].status = st
    OBVIOUS
  <2>4. \/ pc'[c] = "call" \/ ans'[c] = [status |-> 404, ver |-> 0, replayed |-> FALSE]
        \/ ans'[c] = [status |-> 304, ver |-> row[req[c].id], replayed |-> FALSE]
        \/ ans'[c] = [status |-> 200, ver |-> row[req[c].id], replayed |-> FALSE]
        \/ ans'[c] = [status |-> 412, ver |-> 0, replayed |-> FALSE]
    BY <1>4, GetAt
  <2>5. pc'[c] = "call" \/ ans'[c].status \in {404, 304, 200, 412} BY <2>3, <2>4
  <2>6. QED BY <2>1, <2>2, <2>5
<1>5. CASE Create(c) \/ Set(c) \/ Act(c) \/ Remove(c) \/ Grant(c)
  <2>1. pc'[c] \in {"again", "commit"} BY <1>5, WriteAt
  <2>2. QED BY <2>1
<1>6. CASE Again(c)
  <2>1. \/ pc'[c] = "commit"
        \/ pc'[c] = "done" /\ ans'[c] = [status |-> 404, ver |-> 0, replayed |-> FALSE]
    BY <1>6, AgainAt
  <2>2. pc'[c] = "commit" \/ (pc'[c] = "done" /\ ans'[c].status = 404) BY <2>1
  <2>3. req' = req /\ ~Keyed(req[c])
    BY <1>6, EndFrame DEF Again, Keyed, IndInv, PlaceInv, PlaceOf
  <2>4. QED BY <2>2, <2>3
<1>7. CASE Commit(c)
  <2>1. req' = req BY <1>7, EndFrame
  <2>2. pc'[c] = IF Keyed(req[c]) THEN "store" ELSE "done" BY <1>7, CommitAt, ZenonT(60)
  <2>3. /\ ans'[c].status \in {200, 201, 204, 500}
        /\ req[c].verb = "create" => ans'[c].status \in {201, 500}
    BY <1>7, CommitAt, ZenonT(60)
  <2>4. QED BY <2>1, <2>2, <2>3 DEF Keyed
<1>8. CASE DoFails(c)
  <2>1. req' = req BY <1>8, EndFrame
  <2>2. (Keyed(req[c]) => pc'[c] = "store") /\ (~Keyed(req[c]) => pc'[c] = "done")
    BY <1>8, DoFailsAt, ZenonT(60)
  <2>3. ans'[c].status \in {400, 500} BY <1>8, DoFailsAt, ZenonT(60)
  <2>4. QED BY <2>1, <2>2, <2>3
<1>9. QED BY <1>1, <1>2, <1>3, <1>4, <1>5, <1>6, <1>7, <1>8 DEF Step

\* The store is what it was, or a settled answer has come to it and, past the
\* bound, expired ones have gone.
LEMMA StoredAt ==
    ASSUME IndInv, NEW c \in Calls, Arrive(c) \/ Step(c)
    PROVE  \/ stored' = stored /\ ~Settled(c)'
           \/ /\ Settled(c)' /\ req'[c] = req[c] /\ IdemScope(req[c]) \in Scopes
              /\ stored'[IdemScope(req[c])] =
                   [body |-> req[c].body, status |-> ans'[c].status, ver |-> ans'[c].ver,
                    fresh |-> TRUE]
              /\ \A k \in Scopes : k # IdemScope(req[c]) =>
                   \/ stored'[k] = stored[k]
                   \/ stored'[k] = None /\ stored[k] # None /\ ~stored[k].fresh
<1>1. CASE ~Store(c)
  <2>1. stored' = stored
    BY <1>1, ArriveFrame, GetFrame, WriteFrame, EndFrame DEF Step, Lookup
  <2>2. ~Settled(c)' BY <1>1, AnsweredAt DEF Settled
  <2>3. QED BY <2>1, <2>2
<1>2. CASE Store(c)
  <2>1. pc[c] = "store" /\ pc'[c] = "done" /\ ans' = ans BY <1>2, StoreAt
  <2>2. req' = req /\ ran' = ran BY <1>2, OnceFrame DEF histVars
  <2>3. Keyed(req[c]) /\ ran[c] /\ ans[c].status \in {201, 400, 500}
    BY <2>1 DEF IndInv, PlaceInv, PlaceOf, StoreInv
  <2>4. CASE ans[c].status >= 500 /\ stored' = stored BY <2>1, <2>4 DEF Settled
  <2>5. CASE /\ ans[c].status < 500
             /\ stored' = [Room(stored) EXCEPT ![IdemScope(req[c])] =
                             [body |-> req[c].body, status |-> ans[c].status,
                              ver |-> ans[c].ver, fresh |-> TRUE]]
    <3>1. Settled(c)' BY <2>1, <2>2, <2>3, <2>5 DEF Settled
    <3>2. IdemScope(req[c]) \in Scopes BY <2>1, Fields
    <3>3. QED BY <2>1, <2>2, <2>5, <3>1, <3>2, RoomAt
  <2>6. QED BY <1>2, <2>4, <2>5, StoreAt
<1>3. QED BY <1>1, <1>2

\* Every entry stays somebody's answer.
LEMMA StoreNext ==
    ASSUME IndInv, NEW c \in Calls, Arrive(c) \/ Step(c)
    PROVE  StoreInv'
<1>1. ASSUME NEW d \in Calls
      PROVE  /\ pc'[d] = "store" => ans'[d].status \in {201, 400, 500}
             /\ pc'[d] = "done" => ans'[d].status # 0
  <2>1. CASE d = c BY <2>1, AnsweredAt
  <2>2. CASE d # c
    <3>1. pc'[d] = pc[d] /\ ans'[d] = ans[d] BY <2>2, CallFrame DEF SameCall
    <3>2. QED BY <3>1 DEF IndInv, StoreInv
  <2>3. QED BY <2>1, <2>2
<1>2. ASSUME NEW k \in Scopes, stored'[k] # None
      PROVE  \E d \in Calls : /\ Settled(d)' /\ IdemScope(req'[d]) = k
                              /\ stored'[k].body = req'[d].body
                              /\ stored'[k].status = ans'[d].status
                              /\ stored'[k].ver = ans'[d].ver
  <2>1. CASE stored'[k] = stored[k]
    <3>1. PICK d \in Calls : /\ Settled(d) /\ IdemScope(req[d]) = k
                             /\ stored[k].body = req[d].body
                             /\ stored[k].status = ans[d].status /\ stored[k].ver = ans[d].ver
      BY <1>2, <2>1 DEF IndInv, StoreInv
    <3>2. Settled(d)' /\ req'[d] = req[d] /\ ans'[d] = ans[d] BY <3>1, SettledStays
    <3>3. QED BY <2>1, <3>1, <3>2
  <2>2. CASE /\ Settled(c)' /\ req'[c] = req[c] /\ k = IdemScope(req[c])
             /\ stored'[k] = [body |-> req[c].body, status |-> ans'[c].status,
                              ver |-> ans'[c].ver, fresh |-> TRUE]
    BY <2>2
  <2>3. QED BY <1>2, <2>1, <2>2, StoredAt
<1>3. QED BY <1>1, <1>2 DEF StoreInv

\* Who was answered from the store keeps the answer that it was given.
LEMMA ReplayNext ==
    ASSUME IndInv, NEW c \in Calls, Arrive(c) \/ Step(c)
    PROVE  ReplayInv'
<1> DEFINE Given(b, d) ==
             /\ Settled(d) /\ IdemScope(req[d]) = IdemScope(req[b])
             /\ IF ans[b].replayed
                  THEN /\ req[d].body = req[b].body
                       /\ ans[d].status = ans[b].status /\ ans[d].ver = ans[b].ver
                  ELSE ans[b].status = 409 /\ req[d].body # req[b].body
<1> SUFFICES ASSUME NEW b \in Calls, pc'[b] = "done", Keyed(req'[b]), ~ran'[b], ans'[b].status # 400
             PROVE  \E d \in Calls \ {b} : Given(b, d)'
  BY DEF ReplayInv
<1>1. CASE b # c
  <2>1. pc'[b] = pc[b] /\ req'[b] = req[b] /\ ans'[b] = ans[b] /\ ran'[b] = ran[b]
    BY <1>1, CallFrame DEF SameCall
  <2>2. PICK d \in Calls \ {b} : Given(b, d) BY <2>1 DEF IndInv, ReplayInv
  <2>3. Settled(d)' /\ req'[d] = req[d] /\ ans'[d] = ans[d] BY <2>2, SettledStays
  <2>4. QED BY <2>1, <2>2, <2>3
<1>2. CASE b = c
  <2> DEFINE s == stored[IdemScope(req[c])]
  <2>1. ~Store(c)
    <3>1. Store(c) => ran'[c] BY OnceFrame DEF Store, histVars, IndInv, PlaceInv, PlaceOf
    <3>2. QED BY <1>2, <3>1
  <2>2. Lookup(c) BY <1>2, <2>1, AnsweredAt
  <2>3. req' = req /\ IdemScope(req[c]) \in Scopes /\ pc[c] = "once"
    BY <2>2, OnceFrame, LookupAt, Fields, ZenonT(60)
  <2>4. /\ s # None
        /\ \/ /\ s.body # req[c].body
              /\ ans'[c] = [status |-> 409, ver |-> 0, replayed |-> FALSE]
           \/ /\ s.body = req[c].body
              /\ ans'[c] = [status |-> s.status, ver |-> s.ver, replayed |-> TRUE]
    BY <1>2, <2>2, LookupAt
  <2>5. \/ s.body # req[c].body /\ ans'[c].status = 409 /\ ans'[c].replayed = FALSE
        \/ /\ s.body = req[c].body /\ ans'[c].replayed = TRUE
           /\ ans'[c].status = s.status /\ ans'[c].ver = s.ver
    BY <2>4
  <2>6. PICK d \in Calls : /\ Settled(d) /\ IdemScope(req[d]) = IdemScope(req[c])
                           /\ s.body = req[d].body /\ s.status = ans[d].status
                           /\ s.ver = ans[d].ver
    BY <2>3, <2>4 DEF IndInv, StoreInv
  <2>7. d # c /\ Settled(d)' /\ ans'[d] = ans[d] BY <2>6, SettledStays
  <2>8. Given(c, d)'
    <3>1. CASE s.body # req[c].body /\ ans'[c].status = 409 /\ ans'[c].replayed = FALSE
      BY <2>3, <2>6, <2>7, <3>1
    <3>2. CASE /\ s.body = req[c].body /\ ans'[c].replayed = TRUE
               /\ ans'[c].status = s.status /\ ans'[c].ver = s.ver
      BY <2>3, <2>6, <2>7, <3>2
    <3>3. QED BY <2>5, <3>1, <3>2
  <2>9. QED BY <1>2, <2>7, <2>8
<1>3. QED BY <1>1, <1>2

\* What Store keeps of an answer is an entry, and fresh.
LEMMA EntryAt ==
    ASSUME IndInv, NEW c \in Calls, Arrive(c) \/ Step(c), Settled(c)'
    PROVE  LET e == [body |-> req[c].body, status |-> ans'[c].status, ver |-> ans'[c].ver,
                     fresh |-> TRUE]
           IN  e # None /\ e.fresh
<1> DEFINE e == [body |-> req[c].body, status |-> ans'[c].status, ver |-> ans'[c].ver,
                 fresh |-> TRUE]
<1>1. pc'[c] = "done" /\ Keyed(req'[c]) /\ ran'[c] BY DEF Settled
<1>2. Store(c) BY <1>1, AnsweredAt
<1>3. req[c].body \in Bodies BY <1>2, Fields DEF Store
<1>4. CallTypes' BY CallFrame
<1>5. e \in Entries BY <1>3, <1>4 DEF CallTypes, Replies, Statuses, Entries
<1>6. QED BY <1>5, EntityRestAssumption

\* A stored answer that has not expired is there for the calls that are owed it.
LEMMA OwedNext ==
    ASSUME IndInv, NEW c \in Calls, Arrive(c) \/ Step(c)
    PROVE  OwedInv'
<1>0. lapsed' = lapsed BY CallFrame
<1>1. ASSUME NEW d \in Calls \ lapsed', Settled(d)'
      PROVE  stored'[IdemScope(req'[d])] # None /\ stored'[IdemScope(req'[d])].fresh
  <2>1. CASE Settled(d)
    <3> DEFINE k == IdemScope(req[d])
    <3>1. d # c /\ req'[d] = req[d] BY <2>1, SettledStays
    <3>2. stored[k] # None /\ stored[k].fresh BY <1>0, <1>1, <2>1 DEF IndInv, OwedInv
    <3>3. k \in Scopes BY <2>1, Fields DEF Settled
    <3>4. CASE stored'[k] = stored[k] BY <3>1, <3>2, <3>4
    <3>5. CASE /\ Settled(c)' /\ k = IdemScope(req[c])
               /\ stored'[k] = [body |-> req[c].body, status |-> ans'[c].status,
                                ver |-> ans'[c].ver, fresh |-> TRUE]
      BY <3>1, <3>5, EntryAt
    <3>6. QED BY <3>2, <3>3, <3>4, <3>5, StoredAt
  <2>2. CASE ~Settled(d)
    <3>1. d = c
      <4>1. d # c => pc'[d] = pc[d] /\ req'[d] = req[d] /\ ans'[d] = ans[d] /\ ran'[d] = ran[d]
        BY CallFrame DEF SameCall
      <4>2. QED BY <1>1, <2>2, <4>1 DEF Settled
    <3> DEFINE k == IdemScope(req[c])
               e == [body |-> req[c].body, status |-> ans'[c].status, ver |-> ans'[c].ver,
                     fresh |-> TRUE]
    <3>2. req'[c] = req[c] /\ k \in Scopes /\ stored'[k] = e BY <1>1, <3>1, StoredAt
    <3>3. e # None /\ e.fresh BY <1>1, <3>1, EntryAt
    <3>4. QED BY <3>1, <3>2, <3>3
  <2>3. QED BY <2>1, <2>2
<1>2. ASSUME NEW b \in Calls
      PROVE  /\ pc'[b] = "once" => \A d \in owed'[b] :
                  d \notin lapsed' /\ Settled(d)' /\ IdemScope(req'[d]) = IdemScope(req'[b])
             /\ pc'[b] \in {"new", "get", "call", "again", "commit", "store"} => owed'[b] = {}
             /\ pc'[b] = "done" /\ owed'[b] # {} => ~ran'[b]
  <2>0. owed \in [Calls -> SUBSET Calls] BY DEF IndInv, HistTypes
  <2>1. CASE b # c
    <3>1. pc'[b] = pc[b] /\ req'[b] = req[b] /\ ran'[b] = ran[b] /\ owed'[b] = owed[b]
      BY <2>1, CallFrame DEF SameCall
    <3>2. pc[b] = "once" => \A d \in owed[b] : d \in Calls /\ d \notin lapsed /\ Settled(d)
                                                /\ IdemScope(req[d]) = IdemScope(req[b])
      BY <2>0 DEF IndInv, OwedInv
    <3>3. \A d \in Calls : Settled(d) => Settled(d)' /\ req'[d] = req[d] BY SettledStays
    <3>4. pc[b] = "once" => \A d \in owed[b] : d \notin lapsed /\ Settled(d)'
                                                /\ IdemScope(req'[d]) = IdemScope(req[b])
      BY <3>2, <3>3
    <3>5. QED BY <1>0, <3>1, <3>4 DEF IndInv, OwedInv
  <2>2. CASE b = c /\ Arrive(c)
    <3>1. /\ pc[c] = "new" /\ req'[c] \in Menu
          /\ owed'[c] = IF Keyed(req'[c]) THEN Kept(req'[c]) ELSE {}
      BY <2>2, ArriveAt
    <3>2. pc'[c] = "once" => Keyed(req'[c]) BY <2>2, ArriveAt
    <3>3. pc'[c] \in {"call", "get"} => ~Keyed(req'[c]) BY <2>2, ArriveAt
    <3>4. pc'[c] \in {"once", "call", "get", "done"} BY <2>2, ArriveAt
    <3>5. ~ran'[c] BY <2>2, <3>1, ArriveFrame DEF IndInv, PlaceInv, PlaceOf
    <3>6. ASSUME NEW d \in Kept(req'[c])
          PROVE  d \notin lapsed' /\ Settled(d)' /\ IdemScope(req'[d]) = IdemScope(req'[c])
      <4>1. /\ d \in Calls /\ d \notin lapsed /\ pc[d] = "done" /\ ran[d] /\ Keyed(req[d])
            /\ req[d].user = req'[c].user /\ req[d].key = req'[c].key /\ ans[d].status < 500
        BY DEF Kept
      <4>2. ans[d].status \in 200..499
        BY <4>1 DEF IndInv, StoreInv, CallTypes, Replies, Statuses
      <4>3. Settled(d) BY <4>1, <4>2 DEF Settled
      <4>4. Settled(d)' /\ req'[d] = req[d] BY <4>1, <4>3, SettledStays
      <4>5. QED BY <1>0, <4>1, <4>4 DEF IdemScope
    <3>7. QED BY <2>2, <3>1, <3>2, <3>3, <3>4, <3>5, <3>6
  <2>3. CASE b = c /\ Lookup(c)
    <3> DEFINE k == IdemScope(req[c])
    <3>1. UNCHANGED <<req, owed, ran>> BY <2>3, OnceFrame DEF histVars
    <3>2. pc[c] = "once" /\ pc'[c] \in {"call", "done"} BY <2>3, LookupAt
    <3>3. ~ran[c] BY <3>2 DEF IndInv, PlaceInv, PlaceOf
    <3>4. pc'[c] = "call" => stored[k] = None \/ ~stored[k].fresh BY <2>3, LookupAt
    <3>5. \A d \in owed[c] : stored[k] # None /\ stored[k].fresh
      BY <2>0, <3>2 DEF IndInv, OwedInv
    <3>6. QED BY <2>3, <3>1, <3>2, <3>3, <3>4, <3>5
  <2>4. CASE b = c /\ ~Arrive(c) /\ ~Lookup(c)
    <3>1. pc[c] \in {"get", "call", "again", "commit", "store"}
      BY <2>4 DEF Step, Store, Get, Create, Set, Act, Remove, Grant, Again, Commit, DoFails
    <3>2. owed[c] = {} BY <3>1 DEF IndInv, OwedInv
    <3>3. owed' = owed BY <2>4, OnceFrame, GetFrame, WriteFrame, EndFrame DEF Step, histVars
    <3>4. QED BY <2>4, <3>2, <3>3
  <2>5. QED BY <2>1, <2>2, <2>3, <2>4
<1>3. QED BY <1>1, <1>2 DEF OwedInv

-----------------------------------------------------------------------------
(* The day passes, the start, and the theorems.                            *)

\* An answer that expires is nobody's due any more.
LEMMA ExpireKeeps ==
    ASSUME IndInv, NEW k \in Scopes, Expire(k)
    PROVE  IndInv'
<1>1. UNCHANGED <<req, pc, ans, row, access, lock, staged, stamp, lived, effect, doubt, ran>>
  BY DEF Expire, dbVars
<1>2. /\ stored[k] # None /\ stored' = [stored EXCEPT ![k].fresh = FALSE]
      /\ lapsed' = lapsed \cup {d \in Calls : pc[d] = "done" /\ <<req[d].user, req[d].key>> = k}
      /\ owed' = [c \in Calls |-> IF pc[c] = "once" THEN owed[c] \ lapsed' ELSE owed[c]]
  BY DEF Expire
<1>3. stored \in [Scopes -> Entries \cup {None}] BY DEF IndInv, RowTypes
<1>4. /\ stored'[k] \in Entries
      /\ stored'[k].body = stored[k].body /\ stored'[k].status = stored[k].status
      /\ stored'[k].ver = stored[k].ver
  <2>1. stored[k] \in Entries BY <1>2, <1>3
  <2>2. stored'[k] = [stored[k] EXCEPT !.fresh = FALSE] BY <1>2, <1>3
  <2>3. QED BY <2>1, <2>2 DEF Entries
<1>5. \A j \in Scopes : j # k => stored'[j] = stored[j] BY <1>2, <1>3
<1>6. stored' \in [Scopes -> Entries \cup {None}]
  <2>1. stored' = [j \in Scopes |-> stored'[j]] BY <1>2, <1>3
  <2>2. \A j \in Scopes : stored'[j] \in Entries \cup {None} BY <1>3, <1>4, <1>5
  <2>3. QED BY <2>1, <2>2
<1>7. CallTypes' /\ RowTypes' /\ HistTypes'
  <2>1. CallTypes' BY <1>1 DEF IndInv, CallTypes
  <2>2. RowTypes' BY <1>1, <1>6 DEF IndInv, RowTypes
  <2>3. HistTypes' BY <1>1, <1>2 DEF IndInv, HistTypes
  <2>4. QED BY <2>1, <2>2, <2>3
<1>8. PlaceInv' BY <1>1 DEF IndInv, PlaceInv, PlaceOf
<1>9. StagedInv' BY <1>1 DEF IndInv, StagedInv, Holds, Owned
<1>10. WorkInv' BY <1>1 DEF IndInv, WorkInv, WorkOf, Writes
<1>11. EffectInv' BY <1>1 DEF IndInv, EffectInv, EffectOf, Truthful
<1>12. LivedInv' BY <1>1 DEF IndInv, LivedInv, LivedOf, Conditional
<1>13. \A d \in Calls : Settled(d)' = Settled(d) BY <1>1 DEF Settled
<1>14. StoreInv'
  <2>1. ASSUME NEW j \in Scopes, stored'[j] # None
        PROVE  \E d \in Calls : /\ Settled(d)' /\ IdemScope(req'[d]) = j
                                /\ stored'[j].body = req'[d].body
                                /\ stored'[j].status = ans'[d].status
                                /\ stored'[j].ver = ans'[d].ver
    <3>1. stored[j] # None BY <1>2, <1>5, <2>1
    <3>2. PICK d \in Calls : /\ Settled(d) /\ IdemScope(req[d]) = j
                             /\ stored[j].body = req[d].body
                             /\ stored[j].status = ans[d].status /\ stored[j].ver = ans[d].ver
      BY <3>1 DEF IndInv, StoreInv
    <3>3. QED BY <1>1, <1>4, <1>5, <1>13, <3>2
  <2>2. QED BY <1>1, <2>1 DEF IndInv, StoreInv
<1>15. ReplayInv' BY <1>1 DEF IndInv, ReplayInv, Settled
<1>16. OwedInv'
  <2>1. ASSUME NEW d \in Calls \ lapsed', Settled(d)'
        PROVE  stored'[IdemScope(req'[d])] # None /\ stored'[IdemScope(req'[d])].fresh
    <3>1. Settled(d) /\ d \notin lapsed BY <1>2, <1>13, <2>1
    <3>2. IdemScope(req[d]) # k BY <1>2, <2>1, <3>1 DEF IdemScope, Settled
    <3>3. IdemScope(req[d]) \in Scopes BY <3>1, Fields DEF Settled
    <3>4. stored[IdemScope(req[d])] # None /\ stored[IdemScope(req[d])].fresh
      BY <3>1 DEF IndInv, OwedInv
    <3>5. QED BY <1>1, <1>5, <3>2, <3>3, <3>4
  <2>2. ASSUME NEW b \in Calls
        PROVE  /\ pc'[b] = "once" => \A d \in owed'[b] :
                    d \notin lapsed' /\ Settled(d)' /\ IdemScope(req'[d]) = IdemScope(req'[b])
               /\ pc'[b] \in {"new", "get", "call", "again", "commit", "store"} => owed'[b] = {}
               /\ pc'[b] = "done" /\ owed'[b] # {} => ~ran'[b]
    <3>1. owed[b] \subseteq Calls BY DEF IndInv, HistTypes
    <3>2. owed'[b] = IF pc[b] = "once" THEN owed[b] \ lapsed' ELSE owed[b] BY <1>2
    <3>3. QED BY <1>1, <1>13, <3>1, <3>2 DEF IndInv, OwedInv
  <2>3. QED BY <2>1, <2>2 DEF OwedInv
<1>17. QED
  BY <1>7, <1>8, <1>9, <1>10, <1>11, <1>12, <1>14, <1>15, <1>16 DEF IndInv

\* Before any call.
LEMMA InitInd == Init => IndInv
<1> SUFFICES ASSUME Init PROVE IndInv
  OBVIOUS
<1>1. /\ \A c \in Calls : /\ pc[c] = "new" /\ req[c] = None /\ staged[c] = Nothing
                          /\ ans[c] = NoAnswer /\ ran[c] = FALSE /\ lived[c] = {}
                          /\ effect[c] = Nothing /\ doubt[c] = FALSE /\ owed[c] = {}
      /\ \A id \in Ids : lock[id] = None
      /\ \A k \in Scopes : stored[k] = None
  BY DEF Init
<1>2. NoAnswer \in Replies BY DEF NoAnswer, Replies, Statuses
<1>3. CallTypes BY <1>2, WorksAre DEF Init, CallTypes, PCs
<1>4. RowTypes BY DEF Init, RowTypes, MaskBits10
<1>5. HistTypes BY WorksAre DEF Init, HistTypes
<1>6. PlaceInv BY <1>1 DEF PlaceInv, PlaceOf
<1>7. StagedInv BY <1>1, WorksAre DEF StagedInv, Holds, Owned
<1>8. WorkInv BY <1>1 DEF WorkInv, WorkOf
<1>9. EffectInv BY <1>1 DEF EffectInv, EffectOf
<1>10. LivedInv BY <1>1 DEF LivedInv, LivedOf
<1>11. StoreInv BY <1>1 DEF StoreInv
<1>12. ReplayInv BY <1>1 DEF ReplayInv
<1>13. OwedInv BY <1>1 DEF OwedInv, Settled
<1>14. QED BY <1>3, <1>4, <1>5, <1>6, <1>7, <1>8, <1>9, <1>10, <1>11, <1>12, <1>13 DEF IndInv

\* Every step keeps the invariant.
LEMMA NextKeeps == IndInv /\ [Next]_vars => IndInv'
<1> SUFFICES ASSUME IndInv, [Next]_vars PROVE IndInv'
  OBVIOUS
<1>1. ASSUME NEW c \in Calls, Arrive(c) \/ Step(c) PROVE IndInv'
  BY <1>1, CallFrame, PlaceNext, StagedNext, WorkNext, EffectNext, LivedNext, StoreNext,
     ReplayNext, OwedNext DEF IndInv
<1>2. ASSUME NEW k \in Scopes, Expire(k) PROVE IndInv'
  BY <1>2, ExpireKeeps
<1>3. CASE UNCHANGED vars
  <2>1. UNCHANGED <<req, pc, ans, stored, row, access, lock, staged, stamp, lived, effect,
                    doubt, owed, ran, lapsed>>
    BY <1>3 DEF vars, dbVars, histVars
  <2>2. CallTypes' /\ RowTypes' /\ HistTypes' /\ PlaceInv'
    BY <2>1 DEF IndInv, CallTypes, RowTypes, HistTypes, PlaceInv, PlaceOf
  <2>3. StagedInv' /\ WorkInv' /\ EffectInv' /\ LivedInv'
    <3>1. StagedInv' BY <2>1 DEF IndInv, StagedInv, Holds, Owned
    <3>2. WorkInv' BY <2>1 DEF IndInv, WorkInv, WorkOf, Writes
    <3>3. EffectInv' BY <2>1 DEF IndInv, EffectInv, EffectOf, Truthful
    <3>4. LivedInv' BY <2>1 DEF IndInv, LivedInv, LivedOf, Conditional
    <3>5. QED BY <3>1, <3>2, <3>3, <3>4
  <2>4. StoreInv' /\ ReplayInv' /\ OwedInv'
    BY <2>1, SMTT(30) DEF IndInv, StoreInv, ReplayInv, OwedInv, Settled
  <2>5. QED BY <2>2, <2>3, <2>4 DEF IndInv
<1>4. QED BY <1>1, <1>2, <1>3 DEF Next

\* The invariant holds of every behaviour.
THEOREM Invariance == Spec => []IndInv
<1>1. Init => IndInv BY InitInd
<1>2. IndInv /\ [Next]_vars => IndInv' BY NextKeeps
<1>3. QED BY <1>1, <1>2, PTL DEF Spec

\* The type invariant: row locks and uncommitted work (Runner.Do) belong to a
\* transaction under way and end with it, and a mask fits its six bits.
THEOREM TypeCorrect == Spec => []TypeOK
<1>1. IndInv => TypeOK
  <2> SUFFICES ASSUME IndInv PROVE TypeOK
    OBVIOUS
  <2>1. /\ req \in [Calls -> Menu \cup {None}] /\ pc \in [Calls -> PCs]
        /\ row \in [Ids -> Nat] /\ access \in [Ids -> 0..MaskBits10]
        /\ lock \in [Ids -> Calls \cup {None}] /\ stamp \in Nat
        /\ DOMAIN stored = Scopes /\ owed \in [Calls -> SUBSET Calls]
    BY DEF IndInv, CallTypes, RowTypes, HistTypes
  <2>2. ASSUME NEW c \in Calls
        PROVE  /\ staged[c].tab \in {"none", "row", "access"} /\ staged[c].ver \in Nat
               /\ staged[c] # Nothing => pc[c] \in {"again", "commit"}
               /\ ans[c].status \in Statuses
    <3>1. staged[c] \in Works /\ ans[c] \in Replies BY DEF IndInv, CallTypes
    <3>2. QED BY <3>1 DEF Works, Replies, IndInv, StagedInv
  <2>3. \A id \in Ids : lock[id] # None =>
          staged[lock[id]].tab = "row" /\ staged[lock[id]].id = id
    BY DEF IndInv, StagedInv, Owned
  <2>4. QED BY <2>1, <2>2, <2>3 DEF TypeOK, PCs, Statuses
<1>2. QED BY <1>1, Invariance, PTL

\* What a client is told of its own write (create, update, patch, grant) is
\* what became durable, for any calls at once and any interleaving of their
\* transactions.
THEOREM AnswersAreEffects == Spec => []AnswerIsItsEffect
<1>1. IndInv => AnswerIsItsEffect
  BY DEF IndInv, EffectInv, EffectOf, Truthful, AnswerIsItsEffect, Done
<1>2. QED BY <1>1, Invariance, PTL

\* A 304, 412, 404 or an accepted If-Match was right at a moment of its call.
THEOREM ConditionsAreTrue == Spec => []ConditionsWereTrue
<1>1. IndInv => ConditionsWereTrue
  BY DEF IndInv, LivedInv, LivedOf, Conditional, ConditionsWereTrue, Done
<1>2. QED BY <1>1, Invariance, PTL

\* What Once replays, or refuses with 409, is due to an answer that this user
\* was given under this key, and never a 5xx.
THEOREM ReplaysAreOwn == Spec => []ReplayIsOwn
<1>1. IndInv => ReplayIsOwn
  <2> SUFFICES ASSUME IndInv, NEW c \in Calls, Done(c), Keyed(req[c]), ~ran[c],
                      ans[c].status # 400
               PROVE  \E d \in Calls \ {c} :
                        /\ ran[d] /\ Keyed(req[d]) /\ ans[d].status \in 200..499
                        /\ req[d].user = req[c].user /\ req[d].key = req[c].key
                        /\ IF ans[c].replayed
                             THEN /\ req[d].body = req[c].body
                                  /\ ans[d].status = ans[c].status /\ ans[d].ver = ans[c].ver
                             ELSE ans[c].status = 409 /\ req[d].body # req[c].body
    BY DEF ReplayIsOwn
  <2>1. PICK d \in Calls \ {c} :
          /\ Settled(d) /\ IdemScope(req[d]) = IdemScope(req[c])
          /\ IF ans[c].replayed
               THEN /\ req[d].body = req[c].body
                    /\ ans[d].status = ans[c].status /\ ans[d].ver = ans[c].ver
               ELSE ans[c].status = 409 /\ req[d].body # req[c].body
    BY DEF IndInv, ReplayInv, Done
  <2>2. req[d].user = req[c].user /\ req[d].key = req[c].key BY <2>1 DEF IdemScope
  <2>3. QED BY <2>1, <2>2 DEF Settled
<1>2. QED BY <1>1, Invariance, PTL

\* A key that was answered less than 500 does not run the handler again before
\* the answer expires, whatever Store makes room for at its bound meanwhile.
THEOREM AnsweredKeysAreKept == Spec => []AnsweredKeyIsNotRunAgain
<1>1. IndInv => AnsweredKeyIsNotRunAgain
  <2> SUFFICES ASSUME IndInv, NEW c \in Calls, owed[c] # {} PROVE ~ran[c]
    BY DEF AnsweredKeyIsNotRunAgain
  <2>1. pc[c] \in {"once", "done"} BY DEF IndInv, CallTypes, PCs, OwedInv
  <2>2. QED BY <2>1 DEF IndInv, PlaceInv, PlaceOf, OwedInv
<1>2. QED BY <1>1, Invariance, PTL

=============================================================================
