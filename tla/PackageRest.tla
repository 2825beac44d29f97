----------------------------- MODULE PackageRest -----------------------------
(***************************************************************************)
(* Handlers beside the form of EntityRest: lists, and what the packages    *)
(* (admin, current, object, workflow, registry, verification,              *)
(* notification, log, observer, error, kladr) do with the parts of a row   *)
(* or of a session.  Each is one request transaction of a fixed row of     *)
(* api.* calls; one action is one of these calls.  A read sees what is     *)
(* committed by then or written by its own transaction; a write holds its  *)
(* part until the transaction ends.                                        *)
(* The rows themselves come and go by the calls of EntityRest.             *)
(***************************************************************************)
EXTENDS EntityRest, Sequences, FiniteSetsExt

CONSTANTS
    PkgCalls,    \* the HTTP calls of these handlers
    PkgMenu,     \* what they may ask for
    MaxTogether  \* bound: calls in all, when one is of these handlers

\* The handlers of a row's parts, of a session's, of a class's, and of rows.
OfARow == {"iptable-get", "iptable-put", "memberships", "user-memberships", "membership-add",
           "membership-delete", "members", "members-add", "members-delete",
           "change-password", "methods", "files", "files-add", "file", "file-delete",
           "files-clear"}
OfASession == {"me", "me-patch", "registry-write", "registry-read", "registry-delete",
               "registry-delete-key", "registry-delete-tree", "registry", "registry-keys",
               "registry-enum", "key-path", "log-write", "log-entry", "listeners", "listener",
               "error", "address", "new-code", "confirm"}
OfAClass == {"class-copy", "class-clone"}
Lists == {"list", "entities"}
OfRows == Lists \cup {"search", "changed"}

VARIABLES
    task,    \* what each call asked for
    todo,    \* the api.* calls it has still to make
    at,      \* "new", "run" or "done"
    part,    \* the committed parts: who wrote it last, or None
    mine,    \* what a transaction has written and not committed
    said,    \* the parts it has read for its answer
    total, items,  \* a list's count and page
    reply,   \* the status
    \* history, for the properties
    kept,    \* the parts a call made durable
    took,    \* what it deleted or spent
    unsure,  \* it committed and was answered 500
    moved    \* rows came or went since a list counted them

pkgVars == <<task, todo, at, part, mine, said, total, items, reply, kept, took, unsure, moved>>
allVars == <<vars, pkgVars>>

MeParts == {"area", "interface", "locale", "oper_date"}
RowParts == {"allow", "deny", "member", "file", "password", "method"}
UserParts == MeParts \cup {"code", "value", "entry", "shown"}
Classes == {q.to : q \in PkgMenu} \ {None}  \* the targets of copies
Cells == (Rows \X RowParts) \cup (Users \X UserParts) \cup (Classes \X {"class"})

\* The file, the method, the code and what is only shown, that are there at first.
Seed == "seed"
NoCells == [x \in {} |-> None]

\* A request is [handler, user, id, to, set, params, body]: id is the row it
\* names, to the target of a copy, set what it gives, params its parameters.
ASSUME PackageRestAssumption ==
    /\ PkgCalls \cap (Ids \cup {None, Seed}) = {} /\ Seed # None
    /\ IsFiniteSet(Ids)
    /\ MaxTogether \in Nat
    /\ \A q \in PkgMenu :
         /\ q.handler \in OfARow \cup OfASession \cup OfAClass \cup OfRows
         /\ q.handler \in OfARow => q.to = None /\ q.id \in Rows
         /\ q.handler \in OfASession => q.to = None /\ q.id = None /\ q.user \in Users
         /\ q.handler \in OfAClass => q.to # None
         /\ q.handler = "me-patch" => q.set \subseteq MeParts
         /\ \A x \in q.params : x.n \in Int
         /\ q.handler \in Lists => \A x \in q.params :
              \/ x.kind \in {"filter", "term", "typo", "own"}
              \/ x.kind \in {"limit", "offset"} /\ Ids \subseteq x.rows
         /\ q.handler \in {"search", "changed"} => \A x \in q.params : x.kind \in {"term", "objects"}

-----------------------------------------------------------------------------
(* lib/query and lib/entity: the parameters of a list.  kind is its name,  *)
(* ok that its text is one, n its number, and rows what the client means   *)
(* to select by it.                                                        *)

DefaultLimit == 500
MaxLimit == 1000

\* Mutation: a name of the list language that is not known is ignored.
UnknownNever(kind) == FALSE

\* A name made of a-z that Parse does not know, as "filters[state]".
Unknown(kind) == kind = "typo"

\* Parse, page and condition: what is refused.  A bare filter or page, a
\* field, an operator, a page key or a number that is not one are not ok.
ParseRefuses(x) ==
    \/ Unknown(x.kind)
    \/ ~x.ok
    \/ x.kind = "limit" /\ x.n \notin 1..MaxLimit
    \/ x.kind = "offset" /\ x.n < 0

\* listArgs of an entity takes q once and no name of the client's own;
\* elsewhere q is a name Parse does not know, and one of the client's own is
\* ignored.
ListRefuses(q) ==
    \/ \E x \in q.params : ParseRefuses(x)
    \/ IF q.handler = "entities"
         THEN \/ \E x \in q.params : x.kind = "own"
              \/ Cardinality({x \in q.params : x.kind = "term"}) > 1
         ELSE \E x \in q.params : x.kind = "term"

\* The search of JSONArgs and SearchOf: every condition, and the term.
Search(q) == {id \in Ids : \A x \in q.params : x.kind \in {"filter", "term", "objects"} => id \in x.rows}

\* Params.Limit and Params.Offset.
Number(q, kind, default) ==
    IF \E x \in q.params : x.kind = kind
      THEN (CHOOSE x \in q.params : x.kind = kind).n ELSE default

\* The rows a page of n has, as the database cuts it.
PageLen(q, n) ==
    Min({Number(q, "limit", DefaultLimit), Max({0, n - Number(q, "offset", 0)})})

-----------------------------------------------------------------------------
(* The handlers, each the api.* calls of its transaction in their order.   *)

GetRow == [op |-> "row", part |-> "row", none |-> 404]
Read(p) == [op |-> "read", part |-> p, none |-> 0]
Need(p, status) == [op |-> "read", part |-> p, none |-> status]
Write(p) == [op |-> "write", part |-> p, none |-> 0]
Clear(p) == [op |-> "clear", part |-> p, none |-> 0]
Take(p, status) == [op |-> "take", part |-> p, none |-> status]

IptableGet == <<GetRow, Read("allow"), Read("deny")>>

\* Mutation: an empty list is not written.
IptablePutGiven(q) ==
    <<GetRow>> \o SelectSeq(<<Write("allow"), Write("deny")>>, LAMBDA w : w.part \in q.set)

\* Mutation: the empty lists go first.
IptablePutEmptyFirst(q) ==
    IF q.set = {"allow"} THEN <<GetRow, Write("deny"), Write("allow")>>
    ELSE <<GetRow, Write("allow"), Write("deny")>>

\* Both lists are written, an empty one as NULL.
IptablePut(q) == <<GetRow, Write("allow"), Write("deny")>>

\* What belongs to a row, after the row.
RowsOf(p) == <<GetRow, Read(p)>>

\* Every row of one call, and the one row of a call that is not by id.
CallRowsOf(p) == <<Read(p)>>
RowFunc(p) == <<Need(p, 404)>>

\* That a user belongs to a group, asked and changed from the user's side ...
UserMemberships == RowsOf("member")
MembershipList == RowsOf("member")
MembershipAdd == <<Write("member")>>
MembershipDelete == <<Clear("member")>>

\* ... and from the group's.
MembersList == RowsOf("member")
MembersAdd == <<Write("member")>>
MembersDelete == <<Clear("member")>>

ChangePassword == <<Write("password")>>

\* What may be done with an object as it is.
Methods == RowsOf("method")

\* The object's files, here one name: a count and a page, an upsert, a read,
\* two deletes.
Files == <<GetRow, Read("file"), Read("file")>>
FilesAdd == <<GetRow, Write("file")>>
File == <<GetRow, Need("file", 404)>>
FileDelete == <<GetRow, Take("file", 404)>>
FilesClear == <<GetRow, Clear("file")>>

\* A class that is there is copied to another and to a new one.
ClassCopy == <<GetRow, Write("class")>>
ClassClone == <<GetRow, Write("class")>>

\* The caller's session; the user in it is nothing a call here changes.
ReadMe == <<Read("area"), Read("interface"), Read("locale"), Read("oper_date")>>

\* PATCH /me: the fields that are given, in a fixed order, then all of them
\* are read.
Given(q, p, rest) == IF p \in q.set THEN <<Write(p)>> \o rest ELSE rest
MePatch(q) ==
    Given(q, "area", Given(q, "interface", Given(q, "locale", Given(q, "oper_date", ReadMe))))

\* The registry, here one key with one value.
RegistryWrite == <<Write("value")>>
RegistryRead == <<Need("value", 500)>>
RegistryDelete == <<Clear("value")>>
RegistryDeleteKey == <<Clear("value")>>
RegistryDeleteTree == <<Clear("value")>>
RegistryList == CallRowsOf("value")
RegistryKeys == CallRowsOf("value")
RegistryEnum == CallRowsOf("value")
KeyPath == <<Need("value", 404)>>  \* refused after the commit of a read

\* The JSON a value of a type may be given as; no other type is known.
Typed == [integer |-> {"whole"}, numeric |-> {"whole", "fraction", "text"},
          boolean |-> {"truth"}, string |-> {"text"}, datetime |-> {"text"}]
TypedRefuses(type, json) == type \notin DOMAIN Typed \/ json \notin Typed[type]

\* The event log, written without an Idempotency-Key, and the caller's own.
LogWrite == <<Write("entry")>>
LogEntry == <<Need("entry", 404)>>

\* The caller's listeners; the catalogue of errors and the tree of addresses
\* are looked up in the same way.
Listeners == CallRowsOf("shown")
Listener == RowFunc("shown")
ErrorByCode == RowFunc("shown")
AddressTree == RowFunc("shown")

\* The id of an address: a positive integer of four bytes.
MaxInt32 == 2147483647
AddressRefuses(q) == \E x \in q.params : ~x.ok \/ x.n \notin 1..MaxInt32

\* A one-time code, asked for without an Idempotency-Key (with one, Once is
\* EntityRest's), and its confirmation: a code that is spent is 400.
NewCode == <<Write("code")>>
Confirm == <<Take("code", 400)>>

List == <<[op |-> "count"], [op |-> "page"]>>

\* The objects that match a text, in one statement and without a page.
SearchObjects == <<[op |-> "page"]>>

\* The notifications of a period, then every object they are about.
Look(ids) == [op |-> "look", ids |-> ids]
Changed == <<[op |-> "notes"]>>

Script(q) ==
    CASE q.handler = "iptable-get" -> IptableGet
      [] q.handler = "iptable-put" -> IptablePut(q)
      [] q.handler = "memberships" -> MembershipList
      [] q.handler = "user-memberships" -> UserMemberships
      [] q.handler = "membership-add" -> MembershipAdd
      [] q.handler = "membership-delete" -> MembershipDelete
      [] q.handler = "members" -> MembersList
      [] q.handler = "members-add" -> MembersAdd
      [] q.handler = "members-delete" -> MembersDelete
      [] q.handler = "change-password" -> ChangePassword
      [] q.handler = "methods" -> Methods
      [] q.handler = "files" -> Files
      [] q.handler = "files-add" -> FilesAdd
      [] q.handler = "file" -> File
      [] q.handler = "file-delete" -> FileDelete
      [] q.handler = "files-clear" -> FilesClear
      [] q.handler = "class-copy" -> ClassCopy
      [] q.handler = "class-clone" -> ClassClone
      [] q.handler = "me" -> ReadMe
      [] q.handler = "me-patch" -> MePatch(q)
      [] q.handler = "registry-write" -> RegistryWrite
      [] q.handler = "registry-read" -> RegistryRead
      [] q.handler = "registry-delete" -> RegistryDelete
      [] q.handler = "registry-delete-key" -> RegistryDeleteKey
      [] q.handler = "registry-delete-tree" -> RegistryDeleteTree
      [] q.handler = "registry" -> RegistryList
      [] q.handler = "registry-keys" -> RegistryKeys
      [] q.handler = "registry-enum" -> RegistryEnum
      [] q.handler = "key-path" -> KeyPath
      [] q.handler = "log-write" -> LogWrite
      [] q.handler = "log-entry" -> LogEntry
      [] q.handler = "listeners" -> Listeners
      [] q.handler = "listener" -> Listener
      [] q.handler = "error" -> ErrorByCode
      [] q.handler = "address" -> AddressTree
      [] q.handler = "new-code" -> NewCode
      [] q.handler = "confirm" -> Confirm
      [] q.handler = "search" -> SearchObjects
      [] q.handler = "changed" -> Changed
      [] q.handler \in Lists -> List

\* Refused before the database: a list's parameters, an id or a body that is
\* not one (body stands for both), a PATCH /me with nothing to set, /changed
\* without objects, a search without a text, a value that is not of its type.
Refuses(q) ==
    \/ q.body = "bad"
    \/ q.handler \in Lists \cup {"files"} /\ ListRefuses(q)
    \/ q.handler = "me-patch" /\ q.set = {}
    \/ q.handler \in {"changed", "search"} /\ q.params = {}
    \/ q.handler = "registry-write" /\ \E type \in q.set : TypedRefuses(type, q.body)
    \/ q.handler = "address" /\ AddressRefuses(q)

\* The status of success.
Answers(q) ==
    CASE q.handler \in {"membership-add", "membership-delete", "members-add",
                        "members-delete", "change-password", "file-delete", "files-clear",
                        "class-copy", "registry-delete", "registry-delete-key",
                        "registry-delete-tree"} -> 204
      [] q.handler \in {"class-clone", "new-code", "log-write"} -> 201
      [] OTHER -> 200

-----------------------------------------------------------------------------
(* The steps of a call.                                                    *)

\* Whose parts the handler's calls are about.
Owner(q) ==
    CASE q.to # None -> q.to
      [] q.to = None /\ q.id # None -> q.id
      [] q.to = None /\ q.id = None -> q.user
Cell(p) == <<Owner(task[p]), Head(todo[p]).part>>
Doing(p, op) == at[p] = "run" /\ todo[p] # <<>> /\ Head(todo[p]).op = op

\* The transaction of another call has written the part.
Held(x, p) == \E o \in PkgCalls \ {p} : x \in DOMAIN mine[o]

\* The part as this transaction sees it.
Now(x, p) == IF x \in DOMAIN mine[p] THEN mine[p][x] ELSE part[x]

Put(f, x, v) == [y \in DOMAIN f \cup {x} |-> IF y = x THEN v ELSE f[y]]

Onward(p) == todo' = [todo EXCEPT ![p] = Tail(@)]

\* The answer is written; Do has committed or undone the transaction.
Reply(p, status) ==
    /\ reply' = [reply EXCEPT ![p] = status]
    /\ at' = [at EXCEPT ![p] = "done"]
    /\ todo' = [todo EXCEPT ![p] = <<>>]
    /\ mine' = [mine EXCEPT ![p] = NoCells]

Rolled(p) == took' = [took EXCEPT ![p] = None] /\ UNCHANGED <<part, kept, unsure>>

\* The bound on the calls that come, when one is of these handlers.
Came == {p \in PkgCalls : at[p] # "new"}
Beside == {c \in Calls : pc[c] # "new"}
WithinBound(n) == Cardinality(Came) + Cardinality(Beside) <= n

\* A call comes, and is refused before the database or begins.
Come(p) ==
    /\ at[p] = "new"
    /\ WithinBound(MaxTogether - 1)
    /\ \E q \in PkgMenu :
         /\ task' = [task EXCEPT ![p] = q]
         /\ IF Refuses(q)
              THEN /\ at' = [at EXCEPT ![p] = "done"]
                   /\ reply' = [reply EXCEPT ![p] = 400]
                   /\ UNCHANGED todo
              ELSE /\ at' = [at EXCEPT ![p] = "run"]
                   /\ todo' = [todo EXCEPT ![p] = Script(q)]
                   /\ UNCHANGED reply
    /\ UNCHANGED <<part, mine, said, total, items, kept, took, unsure, moved>>

\* The row is read first: none is 404.
ReadRow(p) ==
    /\ Doing(p, "row")
    /\ IF row[task[p].id] = 0
         THEN Reply(p, 404) /\ Rolled(p)
         ELSE Onward(p) /\ UNCHANGED <<reply, at, mine, part, kept, took, unsure>>
    /\ UNCHANGED <<task, said, total, items, moved>>

\* A part is read; where the handler needs one, none is a problem.
ReadPart(p) ==
    /\ Doing(p, "read")
    /\ LET v == Now(Cell(p), p) IN
       IF v = None /\ Head(todo[p]).none # 0
         THEN Reply(p, Head(todo[p]).none) /\ Rolled(p) /\ UNCHANGED said
         ELSE /\ said' = [said EXCEPT ![p] = Put(@, Cell(p), v)]
              /\ Onward(p)
              /\ UNCHANGED <<reply, at, mine, part, kept, took, unsure>>
    /\ UNCHANGED <<task, total, items, moved>>

\* A part is written or cleared, after whoever holds it.
WritePart(p) ==
    /\ Doing(p, "write") \/ Doing(p, "clear")
    /\ ~Held(Cell(p), p)
    /\ mine' = [mine EXCEPT ![p] =
                  Put(@, Cell(p), IF Head(todo[p]).op = "write" THEN p ELSE None)]
    /\ Onward(p)
    /\ UNCHANGED <<task, at, part, said, total, items, reply, kept, took, unsure, moved>>

\* Mutation: whether anything was deleted is not looked at.
NothingThereNever(x, p) == FALSE

\* The call says it found nothing to delete, or no valid code.
NothingThere(x, p) == Now(x, p) = None

\* A part is deleted or spent, and the call says whether there was one.
TakePart(p) ==
    /\ Doing(p, "take")
    /\ ~Held(Cell(p), p)
    /\ IF NothingThere(Cell(p), p)
         THEN Reply(p, Head(todo[p]).none) /\ Rolled(p)
         ELSE /\ took' = [took EXCEPT ![p] = Now(Cell(p), p)]
              /\ mine' = [mine EXCEPT ![p] = Put(@, Cell(p), None)]
              /\ Onward(p)
              /\ UNCHANGED <<reply, at, part, kept, unsure>>
    /\ UNCHANGED <<task, said, total, items, moved>>

\* api.count_<x> and, in a statement of its own, api.list_<x>.
CountRows(p) ==
    /\ Doing(p, "count")
    /\ total' = [total EXCEPT ![p] = Cardinality({id \in Search(task[p]) : row[id] # 0})]
    /\ Onward(p)
    /\ UNCHANGED <<task, at, part, mine, said, items, reply, kept, took, unsure, moved>>

ListRows(p) ==
    LET found == {id \in Search(task[p]) : row[id] # 0} IN
    /\ Doing(p, "page")
    /\ \E page \in kSubset(PageLen(task[p], Cardinality(found)), found) :
         items' = [items EXCEPT ![p] = page]
    /\ Onward(p)
    /\ UNCHANGED <<task, at, part, mine, said, total, reply, kept, took, unsure, moved>>

\* What is notified of the objects asked for, as distinct objects.
ReadNotes(p) ==
    /\ Doing(p, "notes")
    /\ \E ids \in SUBSET Search(task[p]) :
         todo' = [todo EXCEPT ![p] = IF ids = {} THEN <<>> ELSE <<Look(ids)>>]
    /\ UNCHANGED <<task, at, part, mine, said, total, items, reply, kept, took, unsure, moved>>

\* One of them is read, and left out when there is none to see.
LookAt(p) ==
    /\ Doing(p, "look")
    /\ LET ids == Head(todo[p]).ids IN
       \E id \in ids :
         /\ items' = [items EXCEPT ![p] = IF row[id] = 0 THEN @ ELSE @ \cup {id}]
         /\ todo' = [todo EXCEPT ![p] = IF ids = {id} THEN <<>> ELSE <<Look(ids \ {id})>>]
    /\ UNCHANGED <<task, at, part, mine, said, total, reply, kept, took, unsure, moved>>

\* Every call is made: Do commits, or returns an error, the work undone, or
\* durable unknown to it.
Close(p) ==
    /\ at[p] = "run" /\ todo[p] = <<>>
    /\ \/ /\ Reply(p, Answers(task[p]))
          /\ UNCHANGED unsure
          /\ part' = [x \in Cells |-> Now(x, p)]
          /\ kept' = [kept EXCEPT ![p] = DOMAIN mine[p]]
          /\ UNCHANGED took
       \/ Reply(p, 500) /\ Rolled(p)
       \/ /\ Reply(p, 500)
          /\ unsure' = [unsure EXCEPT ![p] = TRUE]
          /\ part' = [x \in Cells |-> Now(x, p)]
          /\ kept' = [kept EXCEPT ![p] = DOMAIN mine[p]]
          /\ UNCHANGED took
    /\ UNCHANGED <<task, said, total, items, moved>>

\* A call raises a problem (400 for all of them), or fails: Do undoes the
\* transaction.
CallFails(p) ==
    /\ at[p] = "run" /\ todo[p] # <<>>
    /\ \E status \in {400, 500} : Reply(p, status)
    /\ Rolled(p)
    /\ UNCHANGED <<task, said, total, items, moved>>

-----------------------------------------------------------------------------
PkgInit ==
    /\ Init
    /\ task = [p \in PkgCalls |-> None]
    /\ todo = [p \in PkgCalls |-> <<>>]
    /\ at = [p \in PkgCalls |-> "new"]
    /\ part = [x \in Cells |-> IF x[2] \in {"file", "method", "code", "shown"} THEN Seed ELSE None]
    /\ mine = [p \in PkgCalls |-> NoCells]
    /\ said = [p \in PkgCalls |-> NoCells]
    /\ total = [p \in PkgCalls |-> 0]
    /\ items = [p \in PkgCalls |-> {}]
    /\ reply = [p \in PkgCalls |-> 0]
    /\ kept = [p \in PkgCalls |-> {}]
    /\ took = [p \in PkgCalls |-> None]
    /\ unsure = [p \in PkgCalls |-> FALSE]
    /\ moved = [p \in PkgCalls |-> FALSE]

\* A call of EntityRest moves; a list that has counted may see rows come and go.
RowStep ==
    /\ Next
    /\ moved' = [p \in PkgCalls |-> \/ moved[p]
                                    \/ Doing(p, "page") /\ row' # row]
    /\ UNCHANGED <<task, todo, at, part, mine, said, total, items, reply, kept, took, unsure>>
    /\ Came = {} \/ WithinBound(MaxTogether)'

PkgStep(p) ==
    /\ \/ Come(p) \/ ReadRow(p) \/ ReadPart(p) \/ WritePart(p) \/ TakePart(p)
       \/ CountRows(p) \/ ListRows(p) \/ ReadNotes(p) \/ LookAt(p) \/ Close(p) \/ CallFails(p)
    /\ UNCHANGED vars

PkgNext == RowStep \/ \E p \in PkgCalls : PkgStep(p)

PkgSpec == PkgInit /\ [][PkgNext]_allVars

-----------------------------------------------------------------------------
(* Properties.                                                             *)

Succeeded(p) == at[p] = "done" /\ reply[p] \in 200..299

\* The two lists of a user's IP table are always of one PUT, whichever PUTs
\* overlap, whatever they leave empty and wherever one fails.
IptablesAreWhole == \A r \in Rows : part[<<r, "allow">>] = part[<<r, "deny">>]

\* p waits for a part that o has written.
WaitsFor(p, o) ==
    /\ p # o
    /\ \E op \in {"write", "clear", "take"} : Doing(p, op)
    /\ Cell(p) \in DOMAIN mine[o]

\* No handlers wait for each other in a circle: those that write several
\* parts write them in one order.
NoCircleOfWaits ==
    \A S \in (SUBSET PkgCalls) \ {{}} : \E p \in S : \A o \in S : ~WaitsFor(p, o)

\* The parts a request is to change.
ToChange(q) ==
    CASE q.handler = "iptable-put" -> {"allow", "deny"}
      [] q.handler = "me-patch" -> q.set
      [] q.handler \in {"membership-add", "membership-delete", "members-add",
                        "members-delete"} -> {"member"}
      [] q.handler \in {"class-copy", "class-clone"} -> {"class"}
      [] q.handler = "change-password" -> {"password"}
      [] q.handler \in {"files-add", "file-delete", "files-clear"} -> {"file"}
      [] q.handler \in {"registry-write", "registry-delete", "registry-delete-key",
                        "registry-delete-tree"} -> {"value"}
      [] q.handler = "log-write" -> {"entry"}
      [] q.handler \in {"new-code", "confirm"} -> {"code"}
      [] OTHER -> {}

\* A success is told of everything the request was to change, an answer that
\* reads back a part this call set tells its own value, a problem is told of
\* nothing changed unless the commit's answer was lost; and no file is deleted,
\* no code spent, by two calls.
ToldIsDone ==
    /\ \A p \in PkgCalls : Succeeded(p) =>
         /\ kept[p] = {Owner(task[p])} \X ToChange(task[p])
         /\ \A x \in kept[p] \cap DOMAIN said[p] : said[p][x] = p
         /\ task[p].handler \in {"file-delete", "confirm"} => took[p] # None
    /\ \A p \in PkgCalls : at[p] = "done" /\ reply[p] >= 400 /\ ~unsure[p] => kept[p] = {}
    /\ \A p, o \in PkgCalls :
         /\ p # o /\ at[p] = "done" /\ at[o] = "done"
         /\ took[p] # None
         /\ kept[p] = kept[o]
         => took[p] # took[o]

\* A list gives no row the client did not mean to select, though a parameter
\* was mistyped, no more rows than the limit, and, unless rows came or went
\* between its two statements, as many as the total leaves for the page.
ListsAddUp ==
    \A p \in PkgCalls : Succeeded(p) =>
        LET q == task[p] IN
        /\ \A x \in q.params : x.kind # "own" => items[p] \subseteq x.rows
        /\ q.handler \in Lists =>
             /\ Cardinality(items[p]) <= Number(q, "limit", DefaultLimit)
             /\ ~moved[p] => Cardinality(items[p]) = PageLen(q, total[p])
=============================================================================
