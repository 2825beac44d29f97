----------------------------- MODULE EntityRest -----------------------------
(***************************************************************************)
(* The /api/v2 form of a resource: lib/rest and lib/entity, with the       *)
(* handlers of the packages that are made the same way.  Several calls at  *)
(* once over the rows of one resource, in one process.                     *)
(*                                                                         *)
(* A handler is one request transaction (Runner.Do: RequestTx models it,   *)
(* here it is its contract: all of the work or none, and a commit whose    *)
(* acknowledgement was lost).  One action is one api.* call in it: a read  *)
(* sees what is committed by then, a write holds the row until the end.    *)
(***************************************************************************)
EXTENDS Integers, FiniteSets

CONSTANTS
    Calls,      \* the HTTP calls
    Rows,       \* rows that are there at first; a call may create one more
    Menu,       \* what a call may ask for
    Users,      \* session codes
    Keys,       \* Idempotency-Key values
    None,
    MaxStored   \* len(i.m) at which Store looks for expired answers (10000)

\* A request: its verb (the handler), user, key, body, row, If-Match or
\* If-None-Match tag, and the mask of a grant with the widest that its form
\* takes (an object's and a method's, or a class's).  The bodies "a" and "b" are
\* two a create accepts, "bad" is one the handler refuses by itself.
Verbs == {"create", "update", "patch", "action", "run", "delete", "read", "grant"}

\* A tag is the revision it names; there are none at all and "*".
NoTag == 0
Star == -1

\* Six bits of an object's or a method's grant, ten of a class's.
MaskBits6 == 63
MaskBits10 == 1023

\* What Idempotency.m keeps under a key: the body's digest, the answer, and
\* whether it is younger than a day.
Bodies == {"a", "b", "bad"}
Entries == [body : Bodies, status : Nat, ver : Nat, fresh : BOOLEAN]

ASSUME EntityRestAssumption ==
    /\ None \notin Calls \cup Rows \cup Keys \cup Entries
    /\ Calls \cap Rows = {}
    /\ MaxStored \in Nat
    /\ \A q \in Menu : /\ q.verb \in Verbs /\ q.user \in Users
                       /\ q.key \in Keys \cup {None} /\ q.body \in Bodies
                       /\ q.id \in Rows \cup {None}
                       /\ q.tag \in Nat \cup {Star}
                       /\ q.mask \in Nat /\ q.max \in {MaskBits6, MaskBits10}

VARIABLES
    req,      \* what each call asked for
    pc,       \* where its handler stands
    row,      \* the committed revision of each row; 0 when there is none
    access,   \* the committed mask of each row's one grant
    lock,     \* the call whose transaction has written the row
    staged,   \* what a transaction has written and not committed
    stamp,    \* the last revision given out
    ans,      \* the answer: status, and the revision its ETag or body names;
              \* that is known when a handler reads its row again
    stored,   \* Idempotency.m
    \* history, for the properties
    lived,    \* revisions of its row that were committed during a call
    effect,   \* what a call made durable
    doubt,    \* it committed and was answered 500
    owed,     \* answers of the same key that returned before a call came
    ran,      \* the call reached the database
    lapsed    \* calls whose stored answer has expired

dbVars   == <<row, access, lock, staged, stamp>>
histVars == <<lived, effect, doubt, owed, ran, lapsed>>
vars     == <<req, pc, ans, stored, dbVars, histVars>>

Ids == Rows \cup Calls
Scopes == Users \X (Keys \cup {None})

NoAnswer == [status |-> 0, ver |-> 0, replayed |-> FALSE]

-----------------------------------------------------------------------------
(* What a handler decides by itself.                                       *)

\* Mutation: one bit too many.
BoundWide(q) == q.mask <= q.max + 1

\* Access.Bound: a wider mask would wrap in the database.
Bound(q) == q.mask <= q.max

\* IDOf, Precondition, ReadBody and Validate, in the order every handler
\* decides them: the id, then If-Match, then the body.
Refusal(q) ==
    CASE q.verb # "create" /\ q.id = None -> 400
      [] q.verb \in {"update", "patch"} /\ q.tag = NoTag -> 428
      [] q.verb \notin {"read", "delete"} /\ q.body = "bad" -> 400
      [] q.verb = "grant" /\ ~Bound(q) -> 400
      [] OTHER -> 0

\* Mutation: any tag will do.
MatchesAny(q, v) == TRUE

\* IfMatch and If-None-Match compare the tag with the row as read.
Matches(q, v) == q.tag = v

IfMatch(q, v) == q.tag = Star \/ Matches(q, v)

\* Mutation: the key alone.
IdemScopeAnyone(q) == <<CHOOSE u \in Users : TRUE, q.key>>

\* The user and the path (here: the one resource) scope the key.
IdemScope(q) == <<q.user, q.key>>

Keyed(q) == q.verb = "create" /\ q.key # None

Goto(c, where) == pc' = [pc EXCEPT ![c] = where]

\* WriteJSON, Fail: the answer is written, and Once may still store it.
Answer(c, status, ver) ==
    /\ ans' = [ans EXCEPT ![c] = [status |-> status, ver |-> ver, replayed |-> FALSE]]
    /\ Goto(c, IF Keyed(req[c]) THEN "store" ELSE "done")

\* The transaction writes a row: it has to wait for the one that has.
Stage(c, id, ver) ==
    /\ lock[id] = None
    /\ lock' = [lock EXCEPT ![id] = c]
    /\ staged' = [staged EXCEPT ![c] = [tab |-> "row", id |-> id, ver |-> ver]]

Nothing == [tab |-> "none", id |-> None, ver |-> 0]

Unlock(c) == lock' = [id \in Ids |-> IF lock[id] = c THEN None ELSE lock[id]]

\* Mutation: the transaction is left open.
UndoNot(c) == UNCHANGED dbVars

\* Do rolled back: nothing of the call is left.
Undo(c) ==
    /\ staged' = [staged EXCEPT ![c] = Nothing]
    /\ Unlock(c)
    /\ UNCHANGED <<row, access, stamp>>

\* Do committed: what was staged is what every later read sees.
Publish(c) ==
    LET s == staged[c] IN
    /\ row' = IF s.tab = "row" THEN [row EXCEPT ![s.id] = s.ver] ELSE row
    /\ access' = IF s.tab = "access" THEN [access EXCEPT ![s.id] = s.ver] ELSE access
    /\ lived' = [d \in Calls |->
                   IF s.tab = "row" /\ pc[d] # "new" /\ req[d].id = s.id
                     THEN lived[d] \cup {s.ver} ELSE lived[d]]
    /\ effect' = [effect EXCEPT ![c] = s]
    /\ staged' = [staged EXCEPT ![c] = Nothing]
    /\ Unlock(c)
    /\ UNCHANGED stamp

-----------------------------------------------------------------------------
(* A call comes in.                                                        *)

\* Answers that returned under the same user and key and are still kept.
Kept(q) == {d \in Calls : /\ pc[d] = "done" /\ ran[d] /\ Keyed(req[d])
                          /\ req[d].user = q.user /\ req[d].key = q.key
                          /\ ans[d].status < 500} \ lapsed

\* The handler reads the request and refuses what needs no database.
Arrive(c) ==
    /\ pc[c] = "new"
    /\ \E q \in Menu :
         /\ req' = [req EXCEPT ![c] = q]
         /\ lived' = [lived EXCEPT ![c] = IF q.id = None THEN {} ELSE {row[q.id]}]
         /\ owed' = [owed EXCEPT ![c] = IF Keyed(q) THEN Kept(q) ELSE {}]
         /\ IF Refusal(q) # 0
              THEN /\ ans' = [ans EXCEPT ![c] = [NoAnswer EXCEPT !.status = Refusal(q)]]
                   /\ Goto(c, "done")
              ELSE /\ Goto(c, IF Keyed(q) THEN "once"
                              ELSE IF q.verb = "create" THEN "call" ELSE "get")
                   /\ UNCHANGED ans
    /\ UNCHANGED <<stored, dbVars, effect, doubt, ran, lapsed>>

\* Once asks the store first: another body under the key is 409, the same
\* one gets the stored answer, and only a miss runs the handler.
Lookup(c) ==
    LET s == stored[IdemScope(req[c])]
        hit == s # None /\ s.fresh
    IN
    /\ pc[c] = "once"
    /\ \/ /\ ~hit
          /\ Goto(c, "call")
          /\ UNCHANGED ans
       \/ /\ hit /\ s.body # req[c].body
          /\ ans' = [ans EXCEPT ![c] = [NoAnswer EXCEPT !.status = 409]]
          /\ Goto(c, "done")
       \/ /\ hit /\ s.body = req[c].body
          /\ ans' = [ans EXCEPT ![c] =
                       [status |-> s.status, ver |-> s.ver, replayed |-> TRUE]]
          /\ Goto(c, "done")
    /\ UNCHANGED <<req, stored, dbVars, histVars>>

\* Mutation: at the bound the whole store goes.
RoomEverything(m) == [k \in DOMAIN m |-> None]

\* Past the bound Store drops the answers that have expired, and no other.
Room(m) ==
    IF Cardinality({k \in DOMAIN m : m[k] # None}) > MaxStored
      THEN [k \in DOMAIN m |-> IF m[k] # None /\ ~m[k].fresh THEN None ELSE m[k]]
      ELSE m

\* Store, when the answer is not a 5xx: the retry of one must reach the
\* database.  The handler returns.
Store(c) ==
    /\ pc[c] = "store"
    /\ stored' = IF ans[c].status < 500
                   THEN [Room(stored) EXCEPT ![IdemScope(req[c])] =
                           [body |-> req[c].body, status |-> ans[c].status,
                            ver |-> ans[c].ver, fresh |-> TRUE]]
                   ELSE stored
    /\ Goto(c, "done")
    /\ UNCHANGED <<req, ans, dbVars, histVars>>

\* A day has passed since an answer was stored.
Expire(k) ==
    /\ stored[k] # None
    /\ stored[k].fresh
    /\ stored' = [stored EXCEPT ![k].fresh = FALSE]
    /\ lapsed' = lapsed \cup {d \in Calls : pc[d] = "done" /\ <<req[d].user, req[d].key>> = k}
    /\ owed' = [c \in Calls |-> IF pc[c] = "once" THEN owed[c] \ lapsed' ELSE owed[c]]
    /\ UNCHANGED <<req, pc, ans, dbVars, lived, effect, doubt, ran>>

-----------------------------------------------------------------------------
(* The handler's transaction.                                              *)

\* GetRow, Current: no visible row is 404; the row as it is now answers a
\* read, or is what If-Match is compared with.
Get(c) ==
    LET q == req[c]
        v == row[q.id]
    IN
    /\ pc[c] = "get"
    /\ IF v = 0 THEN Answer(c, 404, 0)
       ELSE CASE q.verb = "read" /\ Matches(q, v) -> Answer(c, 304, v)
              [] q.verb = "read" /\ ~Matches(q, v) -> Answer(c, 200, v)
              [] q.verb \in {"update", "patch"} /\ ~IfMatch(q, v) -> Answer(c, 412, 0)
              [] OTHER -> Goto(c, "call") /\ UNCHANGED ans
    /\ ran' = [ran EXCEPT ![c] = TRUE]
    /\ UNCHANGED <<req, stored, dbVars, lived, effect, doubt, owed, lapsed>>

\* api.set_<x>(NULL, ...) or api.add_<x>: a row of its own id.
Create(c) ==
    /\ pc[c] = "call" /\ req[c].verb = "create"
    /\ Stage(c, c, stamp + 1)
    /\ stamp' = stamp + 1
    /\ Goto(c, "commit")
    /\ ran' = [ran EXCEPT ![c] = TRUE]
    /\ UNCHANGED <<req, ans, stored, row, access, lived, effect, doubt, owed, lapsed>>

\* api.set_<x>(id, ...), which answers the row, or a void api.update_<x>,
\* after which it is read again.  It finds the row as it is by then, and the
\* void one may find none to change.
Set(c) ==
    LET id == req[c].id IN
    /\ pc[c] = "call" /\ req[c].verb \in {"update", "patch"}
    /\ \/ /\ row[id] # 0
          /\ Stage(c, id, stamp + 1)
          /\ stamp' = stamp + 1
       \/ /\ row[id] = 0 /\ req[c].verb = "patch"
          /\ UNCHANGED <<lock, staged, stamp>>
    /\ Goto(c, IF req[c].verb = "patch" THEN "again" ELSE "commit")
    /\ UNCHANGED <<req, ans, stored, row, access, histVars>>

\* execute_object_action, execute_method: a step of the workflow may change
\* the row, leave it, or drop it.
Act(c) ==
    LET id == req[c].id IN
    /\ pc[c] = "call" /\ req[c].verb \in {"action", "run"}
    /\ \/ row[id] # 0 /\ Stage(c, id, stamp + 1) /\ stamp' = stamp + 1
       \/ row[id] # 0 /\ Stage(c, id, 0) /\ UNCHANGED stamp
       \/ UNCHANGED <<lock, staged, stamp>>
    /\ Goto(c, "again")
    /\ UNCHANGED <<req, ans, stored, row, access, histVars>>

\* api.delete_<x>, of a row that another call may have deleted meanwhile.
Remove(c) ==
    LET id == req[c].id IN
    /\ pc[c] = "call" /\ req[c].verb = "delete"
    /\ IF row[id] = 0 THEN UNCHANGED <<lock, staged>> ELSE Stage(c, id, 0)
    /\ Goto(c, "commit")
    /\ UNCHANGED <<req, ans, stored, row, access, stamp, histVars>>

\* The database casts the mask of a grant to bit(6) or bit(10): a wider one
\* wraps.
Cast(q) == q.mask % (q.max + 1)

\* api.chmodo, api.chmodm, api.chmodc.
Grant(c) ==
    /\ pc[c] = "call" /\ req[c].verb = "grant"
    /\ staged' = [staged EXCEPT ![c] =
                    [tab |-> "access", id |-> req[c].id, ver |-> Cast(req[c])]]
    /\ Goto(c, "commit")
    /\ UNCHANGED <<req, ans, stored, row, access, lock, stamp, histVars>>

\* The row is read again, as this transaction sees it by now.
Seen(c) == IF staged[c].tab = "row" THEN staged[c].ver ELSE row[req[c].id]

\* Mutation: run commits although there is no row to answer with.
AgainCommits(c) ==
    /\ pc[c] = "again"
    /\ IF Seen(c) = 0 /\ req[c].verb # "action"
         THEN Answer(c, 404, 0) /\ Publish(c)
         ELSE /\ Goto(c, "commit") /\ ans' = [ans EXCEPT ![c].ver = Seen(c)]
              /\ UNCHANGED <<dbVars, lived, effect>>
    /\ UNCHANGED <<req, stored, doubt, owed, ran, lapsed>>

\* The row that was read is what the handler answers with: Action 204 when it
\* is gone; to run and to patch no row is 404, and the transaction is undone.
Again(c) ==
    /\ pc[c] = "again"
    /\ IF Seen(c) = 0 /\ req[c].verb # "action"
         THEN Answer(c, 404, 0) /\ Undo(c)
         ELSE Goto(c, "commit") /\ ans' = [ans EXCEPT ![c].ver = Seen(c)] /\ UNCHANGED dbVars
    /\ UNCHANGED <<req, stored, histVars>>

\* What the handler answers when Do has committed.
Success(c) ==
    LET q == req[c] IN
    CASE q.verb = "create" -> Answer(c, 201, staged[c].ver)
      [] q.verb = "delete" \/ (q.verb = "action" /\ ans[c].ver = 0) -> Answer(c, 204, 0)
      [] q.verb \in {"grant", "update"} -> Answer(c, 200, staged[c].ver)
      [] OTHER -> Answer(c, 200, ans[c].ver)

\* Do returns nil, or an error: the work undone, or durable unknown to it.
Commit(c) ==
    /\ pc[c] = "commit"
    /\ \/ Success(c) /\ Publish(c) /\ UNCHANGED doubt
       \/ Answer(c, 500, 0) /\ Undo(c) /\ UNCHANGED <<lived, effect, doubt>>
       \/ Answer(c, 500, 0) /\ Publish(c) /\ doubt' = [doubt EXCEPT ![c] = TRUE]
    /\ UNCHANGED <<req, stored, owed, ran, lapsed>>

\* Do refuses on the way: the database raised a problem, or failed.
DoFails(c) ==
    /\ pc[c] \in {"get", "call", "again"}
    /\ \E status \in {400, 500} : Answer(c, status, 0)
    /\ Undo(c)
    /\ ran' = [ran EXCEPT ![c] = TRUE]
    /\ UNCHANGED <<req, stored, lived, effect, doubt, owed, lapsed>>

-----------------------------------------------------------------------------
Init ==
    /\ req = [c \in Calls |-> None]
    /\ pc = [c \in Calls |-> "new"]
    /\ row = [id \in Ids |-> IF id \in Rows THEN 1 ELSE 0]
    /\ access = [id \in Ids |-> 0]
    /\ lock = [id \in Ids |-> None]
    /\ staged = [c \in Calls |-> Nothing]
    /\ stamp = 1
    /\ ans = [c \in Calls |-> NoAnswer]
    /\ stored = [k \in Scopes |-> None]
    /\ lived = [c \in Calls |-> {}]
    /\ effect = [c \in Calls |-> Nothing]
    /\ doubt = [c \in Calls |-> FALSE]
    /\ owed = [c \in Calls |-> {}]
    /\ ran = [c \in Calls |-> FALSE]
    /\ lapsed = {}

\* What a handler does by itself once called.
Step(c) ==
    \/ Lookup(c) \/ Store(c)
    \/ Get(c) \/ Create(c) \/ Set(c) \/ Act(c) \/ Remove(c) \/ Grant(c)
    \/ Again(c) \/ Commit(c) \/ DoFails(c)

Next ==
    \/ \E c \in Calls : Arrive(c) \/ Step(c)
    \/ \E k \in Scopes : Expire(k)

Spec == Init /\ [][Next]_vars

-----------------------------------------------------------------------------
(* Properties.                                                             *)

\* Types; a row lock and uncommitted work belong to a transaction under way,
\* and end with it.
TypeOK ==
    /\ req \in [Calls -> Menu \cup {None}]
    /\ pc \in [Calls -> {"new", "once", "get", "call", "again", "commit", "store", "done"}]
    /\ row \in [Ids -> Nat]
    /\ access \in [Ids -> 0..MaskBits10]
    /\ lock \in [Ids -> Calls \cup {None}]
    /\ \A c \in Calls :
         /\ staged[c].tab \in {"none", "row", "access"}
         /\ staged[c].ver \in Nat
         /\ staged[c] # Nothing => pc[c] \in {"again", "commit"}
    /\ \A id \in Ids : lock[id] # None =>
         staged[lock[id]].tab = "row" /\ staged[lock[id]].id = id
    /\ stamp \in Nat
    /\ \A c \in Calls : ans[c].status \in {0, 200, 201, 204, 304, 400, 404, 409, 412, 428, 500}
    /\ DOMAIN stored = Scopes
    /\ owed \in [Calls -> SUBSET Calls]

Done(c) == pc[c] = "done"

\* What a client is told of its own write is what became durable, under any
\* interleaving: 201 and the 200 of a PATCH name the very revision this call
\* made, a grant's 200 the very mask the database keeps, and no problem is
\* told of work that is there, unless the commit's answer was lost.
AnswerIsItsEffect ==
    \A c \in Calls : Done(c) /\ ~ans[c].replayed =>
        /\ ans[c].status = 201 => effect[c] = [tab |-> "row", id |-> c, ver |-> ans[c].ver]
        /\ ans[c].status = 200 /\ req[c].verb \in {"update", "patch"} =>
             effect[c] = [tab |-> "row", id |-> req[c].id, ver |-> ans[c].ver]
        /\ ans[c].status = 200 /\ req[c].verb = "grant" =>
             effect[c] = [tab |-> "access", id |-> req[c].id, ver |-> req[c].mask]
        /\ ans[c].status >= 400 /\ ~doubt[c] => effect[c] = Nothing

\* A conditional answer was right at some moment of its call: the tag of a
\* 304 or of an accepted PATCH named a revision that was committed then, 412
\* was told of another one, 404 of no row.  A tag that was stale, or a row
\* that was gone, before the call came is never taken.  One that goes stale
\* between the read and the write may be: OneWritePerTag is about that.
ConditionsWereTrue ==
    \A c \in Calls : Done(c) /\ req[c].verb # "create" =>
        LET q == req[c] IN
        /\ ans[c].status = 304 => q.tag \in lived[c]
        /\ ans[c].status = 200 /\ q.verb \in {"update", "patch"} /\ q.tag # Star =>
             q.tag \in lived[c]
        /\ ans[c].status = 412 => lived[c] \ {0, q.tag} # {}
        /\ ans[c].status = 404 /\ q.verb # "run" => 0 \in lived[c]
        /\ ans[c].status \in {200, 204, 304, 412} => lived[c] \ {0} # {}

\* A call answered from the store gets what this user was answered under this
\* key: the answer to the same body, or 409 after another one; never a 5xx.
ReplayIsOwn ==
    \A c \in Calls : Done(c) /\ Keyed(req[c]) /\ ~ran[c] /\ ans[c].status # 400 =>
        \E d \in Calls \ {c} :
            /\ ran[d] /\ Keyed(req[d]) /\ ans[d].status \in 200..499
            /\ req[d].user = req[c].user /\ req[d].key = req[c].key
            /\ IF ans[c].replayed
                 THEN /\ req[d].body = req[c].body
                      /\ ans[d].status = ans[c].status /\ ans[d].ver = ans[c].ver
                 ELSE ans[c].status = 409 /\ req[d].body # req[c].body

\* Once a keyed POST has returned less than 500, one that comes later under
\* the same user and key never reaches the database before the answer
\* expires, whatever other keys are stored and dropped meanwhile.
AnsweredKeyIsNotRunAgain ==
    \A c \in Calls : owed[c] # {} => ~ran[c]

\* "the same key with the same body replays the stored answer" (Once): of
\* two POSTs with one key and one body only one creates.
OncePerKey ==
    \A c, d \in Calls \ lapsed :
        /\ c # d /\ Done(c) /\ Done(d)
        /\ Keyed(req[c]) /\ Keyed(req[d])
        /\ IdemScope(req[c]) = IdemScope(req[d]) /\ req[c].body = req[d].body
        => ~(ans[c].status = 201 /\ ans[d].status = 201
               /\ ~ans[c].replayed /\ ~ans[d].replayed)

\* "412 when the row moved on since it was read" (IfMatch): of two PATCHes with
\* the tag of one revision only one is accepted.
OneWritePerTag ==
    \A c, d \in Calls :
        /\ c # d /\ Done(c) /\ Done(d)
        /\ req[c].verb \in {"update", "patch"} /\ req[d].verb \in {"update", "patch"}
        /\ req[c].id = req[d].id /\ req[c].tag = req[d].tag /\ req[c].tag # Star
        => ~(ans[c].status = 200 /\ ans[d].status = 200)

\* One of the two at least: a behaviour that breaks this breaks both.  Once
\* holds nothing between its lookup and its store, and Current reads the row
\* that If-Match is compared with under no lock.
AGuardHolds == OncePerKey \/ OneWritePerTag
=============================================================================
