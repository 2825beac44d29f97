-------------------------- MODULE PackageRestProofs --------------------------
(***************************************************************************)
(* The theorems of PackageRest, for any number of calls of any of its      *)
(* handlers beside any number of EntityRest's.                             *)
(*                                                                         *)
(* The handlers differ only in their scripts, so what the proofs need of   *)
(* one is said once, of what is left of a script (Fit): which parts it     *)
(* writes, in which order, and that it reads nothing back before it has    *)
(* written.  The scripts are looked at one by one in ScriptFits and never  *)
(* again.  The invariant then says of a call under way what its            *)
(* transaction holds, given what is left of its script (Running), and of   *)
(* the parts who may have written them (PartInv).                          *)
(***************************************************************************)
EXTENDS PackageRest, EntityRestProofs, SequenceTheorems, FiniteSetTheorems

-----------------------------------------------------------------------------
(* PackageRest is EntityRest with more beside it.                          *)

\* Seen by the calls of EntityRest, a step of PackageRest is one of theirs or
\* none: nothing of these handlers changes a row.
THEOREM RowsAreEntityRests == PkgSpec => Spec
<1>1. PkgInit => Init BY DEF PkgInit
<1>2. [PkgNext]_allVars => [Next]_vars
  <2> SUFFICES ASSUME [PkgNext]_allVars PROVE [Next]_vars
    OBVIOUS
  <2>1. CASE RowStep BY <2>1 DEF RowStep
  <2>2. ASSUME NEW p \in PkgCalls, PkgStep(p) PROVE [Next]_vars BY <2>2 DEF PkgStep
  <2>3. CASE UNCHANGED allVars BY <2>3 DEF allVars
  <2>4. QED BY <2>1, <2>2, <2>3 DEF PkgNext
<1>3. QED BY <1>1, <1>2, PTL DEF PkgSpec, Spec

\* So the properties of EntityRest hold beside any calls of these handlers.
THEOREM EntityRestCarriesOver ==
    PkgSpec => [](TypeOK /\ AnswerIsItsEffect /\ ConditionsWereTrue /\ ReplayIsOwn
                    /\ AnsweredKeyIsNotRunAgain)
BY RowsAreEntityRests, TypeCorrect, AnswersAreEffects, ConditionsAreTrue, ReplaysAreOwn,
   AnsweredKeysAreKept, PTL

-----------------------------------------------------------------------------
(* Scripts.                                                                *)

Parts == RowParts \cup UserParts \cup {"class"}

Ops == {GetRow} \cup {Read(x) : x \in Parts} \cup {Write(x) : x \in Parts}
       \cup {Clear(x) : x \in Parts}
       \cup {Need(x, n) : x \in Parts, n \in {400, 404, 500}}
       \cup {Take(x, n) : x \in Parts, n \in {400, 404, 500}}
       \cup {[op |-> "count"], [op |-> "page"], [op |-> "notes"]}
       \cup {Look(ids) : ids \in SUBSET Ids}

Writing(e) == e.op \in {"write", "clear", "take"}

\* The parts a script writes.
PartsOf(s) == {s[i].part : i \in {j \in 1..Len(s) : Writing(s[j])}}

\* The order in which the handlers that write several parts write them.
Rank(x) == IF x \in {"deny", "interface"} THEN 1
           ELSE IF x = "locale" THEN 2
           ELSE IF x = "oper_date" THEN 3
           ELSE 0

\* Those that delete or spend a part, and those that set several.
Takers == {"file-delete", "confirm"}
Setters == {"iptable-put", "me-patch"}

\* A delete tells a problem when there was nothing, and no write is before it.
TakesFirst(e) == e.none \in {400, 404, 500} /\ Rank(e.part) = 0

\* One api.* call of the handler of q.
FitsOne(q, e) ==
    /\ e.op \in {"row", "read", "write", "clear", "take", "count", "page", "notes", "look"}
    /\ Writing(e) => /\ e.part \in ToChange(q)
                     /\ e.op = "take" <=> q.handler \in Takers
                     /\ q.handler \in Setters => e.op = "write"
    /\ e.op = "read" => /\ e.none \in {0, 400, 404, 500}
                        /\ ToChange(q) # {} => q.handler = "me-patch"
    /\ e.op = "take" => TakesFirst(e)
    /\ e.op \in {"count", "page", "notes", "look"} => q.handler \in OfRows
    /\ q.handler \in Lists => e.op \in {"count", "page"}
    /\ q.handler \notin Lists => e.op # "count"
    /\ e.op = "look" => e.ids \subseteq Search(q)

\* What may be left of the script of q.
Fit(q, s) ==
    /\ s \in Seq(Ops)
    /\ \A i \in 1..Len(s) : FitsOne(q, s[i])
    /\ \A i, j \in 1..Len(s) : i < j /\ Writing(s[j]) =>
         s[i].op # "read" /\ (Writing(s[i]) => Rank(s[i].part) < Rank(s[j].part))
    /\ q.handler \in Lists => s \in {List, <<[op |-> "page"]>>, <<>>}

\* A script that has begun still fits.
LEMMA TailAt ==
    ASSUME NEW s \in Seq(Ops), s # <<>>
    PROVE  /\ Len(s) \in Nat \ {0} /\ Head(s) = s[1] /\ 1 \in 1..Len(s)
           /\ Tail(s) \in Seq(Ops) /\ Len(Tail(s)) = Len(s) - 1
           /\ \A i \in 1..Len(Tail(s)) : i + 1 \in 1..Len(s) /\ Tail(s)[i] = s[i + 1]
OBVIOUS

LEMMA FitTail ==
    ASSUME NEW q, NEW s, Fit(q, s), s # <<>>
    PROVE  Fit(q, Tail(s)) /\ FitsOne(q, Head(s))
<1>1. s \in Seq(Ops) BY DEF Fit
<1>2. /\ Len(s) \in Nat \ {0} /\ Head(s) = s[1] /\ 1 \in 1..Len(s)
      /\ Tail(s) \in Seq(Ops) /\ Len(Tail(s)) = Len(s) - 1
      /\ \A i \in 1..Len(Tail(s)) : i + 1 \in 1..Len(s) /\ Tail(s)[i] = s[i + 1]
  BY <1>1, TailAt
<1>3. FitsOne(q, Head(s)) BY <1>2 DEF Fit
<1>4. \A i \in 1..Len(Tail(s)) : FitsOne(q, Tail(s)[i]) BY <1>2 DEF Fit
<1>5. ASSUME NEW i \in 1..Len(Tail(s)), NEW j \in 1..Len(Tail(s)), i < j, Writing(Tail(s)[j])
      PROVE  /\ Tail(s)[i].op # "read"
             /\ Writing(Tail(s)[i]) => Rank(Tail(s)[i].part) < Rank(Tail(s)[j].part)
  <2>1. i + 1 \in 1..Len(s) /\ j + 1 \in 1..Len(s) /\ i + 1 < j + 1 BY <1>2, <1>5
  <2>2. Tail(s)[i] = s[i + 1] /\ Tail(s)[j] = s[j + 1] BY <1>2
  <2>3. QED BY <1>5, <2>1, <2>2 DEF Fit
<1>6. q.handler \in Lists => Tail(s) \in {List, <<[op |-> "page"]>>, <<>>}
  <2>1. s = List => Tail(s) = <<[op |-> "page"]>> BY DEF List
  <2>2. s = <<[op |-> "page"]>> => Tail(s) = <<>> OBVIOUS
  <2>3. QED BY <2>1, <2>2 DEF Fit
<1>7. QED BY <1>2, <1>3, <1>4, <1>5, <1>6 DEF Fit

\* What a script writes is what its first call writes, and then the others.
LEMMA PartsOfTail ==
    ASSUME NEW s \in Seq(Ops), s # <<>>
    PROVE  PartsOf(s) = PartsOf(Tail(s)) \cup (IF Writing(Head(s)) THEN {Head(s).part} ELSE {})
<1>1. /\ Len(s) \in Nat \ {0} /\ Head(s) = s[1] /\ 1 \in 1..Len(s)
      /\ Len(Tail(s)) = Len(s) - 1
      /\ \A i \in 1..Len(Tail(s)) : i + 1 \in 1..Len(s) /\ Tail(s)[i] = s[i + 1]
  BY TailAt
<1>2. ASSUME NEW x \in PartsOf(s)
      PROVE  x \in PartsOf(Tail(s)) \/ (Writing(Head(s)) /\ x = Head(s).part)
  <2>1. PICK j \in 1..Len(s) : Writing(s[j]) /\ x = s[j].part BY <1>2 DEF PartsOf
  <2>2. CASE j = 1 BY <1>1, <2>1, <2>2
  <2>3. CASE j # 1
    <3>1. j - 1 \in 1..Len(Tail(s)) /\ (j - 1) + 1 = j BY <1>1, <2>3
    <3>2. Tail(s)[j - 1] = s[j] BY <1>1, <3>1
    <3>3. QED BY <2>1, <3>1, <3>2 DEF PartsOf
  <2>4. QED BY <2>2, <2>3
<1>3. ASSUME NEW x \in PartsOf(Tail(s)) PROVE x \in PartsOf(s)
  <2>1. PICK j \in 1..Len(Tail(s)) : Writing(Tail(s)[j]) /\ x = Tail(s)[j].part BY <1>3 DEF PartsOf
  <2>2. j + 1 \in 1..Len(s) /\ Tail(s)[j] = s[j + 1] BY <1>1
  <2>3. QED BY <2>1, <2>2 DEF PartsOf
<1>4. Writing(Head(s)) => Head(s).part \in PartsOf(s) BY <1>1 DEF PartsOf
<1>5. QED BY <1>2, <1>3, <1>4

\* The calls a script is made of.
LEMMA RowOp == GetRow \in Ops /\ GetRow.op = "row" /\ GetRow.none = 404
<1>1. GetRow \in Ops BY DEF Ops
<1>2. QED BY <1>1 DEF GetRow

LEMMA ReadOp ==
    ASSUME NEW x \in Parts
    PROVE  Read(x) \in Ops /\ Read(x).op = "read" /\ Read(x).part = x /\ Read(x).none = 0
<1>1. Read(x) \in Ops BY DEF Ops
<1>2. QED BY <1>1 DEF Read

LEMMA NeedOp ==
    ASSUME NEW x \in Parts, NEW n \in {400, 404, 500}
    PROVE  Need(x, n) \in Ops /\ Need(x, n).op = "read" /\ Need(x, n).part = x /\ Need(x, n).none = n
<1>1. Need(x, n) \in Ops BY DEF Ops
<1>2. QED BY <1>1 DEF Need

LEMMA WriteOp ==
    ASSUME NEW x \in Parts
    PROVE  Write(x) \in Ops /\ Write(x).op = "write" /\ Write(x).part = x
<1>1. Write(x) \in Ops BY DEF Ops
<1>2. QED BY <1>1 DEF Write

LEMMA ClearOp ==
    ASSUME NEW x \in Parts
    PROVE  Clear(x) \in Ops /\ Clear(x).op = "clear" /\ Clear(x).part = x
<1>1. Clear(x) \in Ops BY DEF Ops
<1>2. QED BY <1>1 DEF Clear

LEMMA TakeOp ==
    ASSUME NEW x \in Parts, NEW n \in {400, 404, 500}
    PROVE  Take(x, n) \in Ops /\ Take(x, n).op = "take" /\ Take(x, n).part = x /\ Take(x, n).none = n
<1>1. Take(x, n) \in Ops BY DEF Ops
<1>2. QED BY <1>1 DEF Take

LEMMA ListOps ==
    /\ [op |-> "count"] \in Ops /\ [op |-> "page"] \in Ops /\ [op |-> "notes"] \in Ops
    /\ \A ids \in SUBSET Ids : Look(ids) \in Ops /\ Look(ids).op = "look" /\ Look(ids).ids = ids
<1>1. [op |-> "count"] \in Ops /\ [op |-> "page"] \in Ops /\ [op |-> "notes"] \in Ops BY DEF Ops
<1>2. \A ids \in SUBSET Ids : Look(ids) \in Ops BY DEF Ops
<1>3. \A ids \in SUBSET Ids : Look(ids).op = "look" /\ Look(ids).ids = ids BY DEF Look
<1>4. QED BY <1>1, <1>2, <1>3

Reading(e) == e \in Ops /\ e.op \in {"row", "read"} /\ e.none \in {0, 400, 404, 500}

\* A script that only reads.
LEMMA ReadingFits ==
    ASSUME NEW q, NEW s \in Seq(Ops), ToChange(q) = {}, q.handler \notin OfRows,
           \A i \in 1..Len(s) : Reading(s[i])
    PROVE  Fit(q, s) /\ PartsOf(s) = ToChange(q)
<1>1. \A i \in 1..Len(s) : ~Writing(s[i]) BY DEF Writing, Reading
<1>2. PartsOf(s) = {} BY <1>1 DEF PartsOf
<1>3. q.handler \notin Lists BY DEF OfRows
<1>4. \A i \in 1..Len(s) : FitsOne(q, s[i]) BY <1>1, <1>3 DEF FitsOne, Reading
<1>5. QED BY <1>1, <1>2, <1>3, <1>4 DEF Fit

\* A script that writes one part, whether or not after the row.
LEMMA WritingFits ==
    ASSUME NEW q, NEW w \in Ops, NEW s \in {<<w>>, <<GetRow, w>>}, Writing(w),
           ToChange(q) = {w.part}, q.handler \notin OfRows \cup Setters,
           w.op = "take" <=> q.handler \in Takers,
           w.op = "take" => TakesFirst(w)
    PROVE  Fit(q, s) /\ PartsOf(s) = ToChange(q)
<1>1. GetRow \in Ops /\ GetRow.op = "row" BY RowOp
<1>2. s \in Seq(Ops)
  <2>1. <<w>> \in Seq(Ops) OBVIOUS
  <2>2. <<GetRow, w>> \in Seq(Ops) BY <1>1
  <2>3. QED BY <2>1, <2>2
<1>3. \A i \in 1..Len(s) : s[i] = w \/ s[i] = GetRow BY <1>1
<1>4. FitsOne(q, w) BY DEF FitsOne, OfRows, Writing
<1>5. FitsOne(q, GetRow) BY <1>1 DEF FitsOne, OfRows, Writing
<1>6. \A i \in 1..Len(s) : FitsOne(q, s[i]) BY <1>3, <1>4, <1>5
<1>7. ~Writing(GetRow) BY <1>1 DEF Writing
<1>8. \A i, j \in 1..Len(s) : i < j => s[i] = GetRow
  <2>1. s = <<w>> => Len(s) = 1 OBVIOUS
  <2>2. s = <<GetRow, w>> => Len(s) = 2 /\ s[1] = GetRow OBVIOUS
  <2>3. \A i, j \in 1..1 : ~(i < j) OBVIOUS
  <2>4. \A i, j \in 1..2 : i < j => i = 1 OBVIOUS
  <2>5. QED BY <2>1, <2>2, <2>3, <2>4
<1>9. PartsOf(s) = {w.part}
  <2>1. \A x \in PartsOf(s) : x = w.part BY <1>3, <1>7 DEF PartsOf
  <2>2. \E i \in 1..Len(s) : s[i] = w
    <3>1. CASE s = <<w>>
      <4>1. 1 \in 1..Len(s) /\ s[1] = w BY <3>1
      <4>2. QED BY <4>1
    <3>2. CASE s = <<GetRow, w>>
      <4>1. 2 \in 1..Len(s) /\ s[2] = w BY <3>2
      <4>2. QED BY <4>1
    <3>3. QED BY <3>1, <3>2
  <2>3. w.part \in PartsOf(s) BY <2>2 DEF PartsOf
  <2>4. QED BY <2>1, <2>3
<1>10. QED BY <1>1, <1>2, <1>6, <1>7, <1>8, <1>9 DEF Fit, OfRows

LEMMA WriteFits ==
    ASSUME NEW q, NEW x \in Parts, ToChange(q) = {x},
           q.handler \notin OfRows \cup Setters \cup Takers
    PROVE  \A s \in {<<Write(x)>>, <<GetRow, Write(x)>>} : Fit(q, s) /\ PartsOf(s) = ToChange(q)
<1>1. Write(x) \in Ops /\ Write(x).op = "write" /\ Write(x).part = x BY WriteOp
<1>2. Writing(Write(x)) BY <1>1 DEF Writing
<1>3. QED BY <1>1, <1>2, WritingFits

LEMMA ClearFits ==
    ASSUME NEW q, NEW x \in Parts, ToChange(q) = {x},
           q.handler \notin OfRows \cup Setters \cup Takers
    PROVE  \A s \in {<<Clear(x)>>, <<GetRow, Clear(x)>>} : Fit(q, s) /\ PartsOf(s) = ToChange(q)
<1>1. Clear(x) \in Ops /\ Clear(x).op = "clear" /\ Clear(x).part = x BY ClearOp
<1>2. Writing(Clear(x)) BY <1>1 DEF Writing
<1>3. QED BY <1>1, <1>2, WritingFits

LEMMA TakeFits ==
    ASSUME NEW q, NEW w \in Ops, w.op = "take", TakesFirst(w),
           ToChange(q) = {w.part}, q.handler \notin OfRows \cup Setters, q.handler \in Takers
    PROVE  \A s \in {<<w>>, <<GetRow, w>>} : Fit(q, s) /\ PartsOf(s) = ToChange(q)
<1>1. Writing(w) BY DEF Writing
<1>2. QED BY <1>1, WritingFits

\* The handlers that write one part.
OnePart == {"membership-add", "membership-delete", "members-add",
            "members-delete", "change-password", "files-add",
            "file-delete", "files-clear", "class-copy", "class-clone",
            "registry-write", "registry-delete", "registry-delete-key",
            "registry-delete-tree", "log-write", "new-code", "confirm"}

\* The scripts that write one part: q.handler decides which.
LEMMA OnePartScripts ==
    ASSUME NEW q, q.handler \in OnePart
    PROVE  Fit(q, Script(q)) /\ PartsOf(Script(q)) = ToChange(q)
<1>1. CASE q.handler \in {"membership-add", "members-add"}
  <2>1. Script(q) = <<Write("member")>> BY <1>1 DEF Script, Lists, MembershipAdd, MembersAdd
  <2>2. ToChange(q) = {"member"} BY <1>1 DEF ToChange
  <2>3. q.handler \notin OfRows \cup Setters \cup Takers BY <1>1 DEF OfRows, Lists, Setters, Takers
  <2>4. "member" \in Parts BY DEF Parts, RowParts, UserParts, MeParts
  <2>5. \A s \in {<<Write("member")>>, <<GetRow, Write("member")>>} : Fit(q, s) /\ PartsOf(s) = ToChange(q)
    BY <2>2, <2>3, <2>4, WriteFits, Zenon
  <2>6. QED BY <2>1, <2>5, Zenon
<1>2. CASE q.handler \in {"membership-delete", "members-delete"}
  <2>1. Script(q) = <<Clear("member")>> BY <1>2 DEF Script, Lists, MembershipDelete, MembersDelete
  <2>2. ToChange(q) = {"member"} BY <1>2 DEF ToChange
  <2>3. q.handler \notin OfRows \cup Setters \cup Takers BY <1>2 DEF OfRows, Lists, Setters, Takers
  <2>4. "member" \in Parts BY DEF Parts, RowParts, UserParts, MeParts
  <2>5. \A s \in {<<Clear("member")>>, <<GetRow, Clear("member")>>} : Fit(q, s) /\ PartsOf(s) = ToChange(q)
    BY <2>2, <2>3, <2>4, ClearFits, Zenon
  <2>6. QED BY <2>1, <2>5, Zenon
<1>3. CASE q.handler = "change-password"
  <2>1. Script(q) = <<Write("password")>> BY <1>3 DEF Script, Lists, ChangePassword
  <2>2. ToChange(q) = {"password"} BY <1>3 DEF ToChange
  <2>3. q.handler \notin OfRows \cup Setters \cup Takers BY <1>3 DEF OfRows, Lists, Setters, Takers
  <2>4. "password" \in Parts BY DEF Parts, RowParts, UserParts, MeParts
  <2>5. \A s \in {<<Write("password")>>, <<GetRow, Write("password")>>} : Fit(q, s) /\ PartsOf(s) = ToChange(q)
    BY <2>2, <2>3, <2>4, WriteFits, Zenon
  <2>6. QED BY <2>1, <2>5, Zenon
<1>4. CASE q.handler = "files-add"
  <2>1. Script(q) = <<GetRow, Write("file")>> BY <1>4 DEF Script, Lists, FilesAdd
  <2>2. ToChange(q) = {"file"} BY <1>4 DEF ToChange
  <2>3. q.handler \notin OfRows \cup Setters \cup Takers BY <1>4 DEF OfRows, Lists, Setters, Takers
  <2>4. "file" \in Parts BY DEF Parts, RowParts, UserParts, MeParts
  <2>5. \A s \in {<<Write("file")>>, <<GetRow, Write("file")>>} : Fit(q, s) /\ PartsOf(s) = ToChange(q)
    BY <2>2, <2>3, <2>4, WriteFits, Zenon
  <2>6. QED BY <2>1, <2>5, Zenon
<1>5. CASE q.handler = "file-delete"
  <2>1. Script(q) = <<GetRow, Take("file", 404)>> BY <1>5 DEF Script, Lists, FileDelete
  <2>2. ToChange(q) = {"file"} BY <1>5 DEF ToChange
  <2>3. q.handler \notin OfRows \cup Setters /\ q.handler \in Takers BY <1>5 DEF OfRows, Lists, Setters, Takers
  <2> DEFINE w == Take("file", 404)
  <2>4. "file" \in Parts BY DEF Parts, RowParts, UserParts, MeParts
  <2>5. w \in Ops /\ w.op = "take" /\ w.part = "file" /\ w.none = 404 BY <2>4, TakeOp
  <2> HIDE DEF w
  <2>6. TakesFirst(w) BY <2>5 DEF TakesFirst, Rank
  <2>7. w \in Ops /\ w.op = "take" /\ ToChange(q) = {w.part} BY <2>2, <2>5
  <2>8. \A s \in {<<w>>, <<GetRow, w>>} : Fit(q, s) /\ PartsOf(s) = ToChange(q)
    BY <2>3, <2>6, <2>7, TakeFits
  <2>9. QED BY <2>1, <2>8 DEF w
<1>6. CASE q.handler = "files-clear"
  <2>1. Script(q) = <<GetRow, Clear("file")>> BY <1>6 DEF Script, Lists, FilesClear
  <2>2. ToChange(q) = {"file"} BY <1>6 DEF ToChange
  <2>3. q.handler \notin OfRows \cup Setters \cup Takers BY <1>6 DEF OfRows, Lists, Setters, Takers
  <2>4. "file" \in Parts BY DEF Parts, RowParts, UserParts, MeParts
  <2>5. \A s \in {<<Clear("file")>>, <<GetRow, Clear("file")>>} : Fit(q, s) /\ PartsOf(s) = ToChange(q)
    BY <2>2, <2>3, <2>4, ClearFits, Zenon
  <2>6. QED BY <2>1, <2>5, Zenon
<1>7. CASE q.handler \in {"class-copy", "class-clone"}
  <2>1. Script(q) = <<GetRow, Write("class")>> BY <1>7 DEF Script, Lists, ClassCopy, ClassClone
  <2>2. ToChange(q) = {"class"} BY <1>7 DEF ToChange
  <2>3. q.handler \notin OfRows \cup Setters \cup Takers BY <1>7 DEF OfRows, Lists, Setters, Takers
  <2>4. "class" \in Parts BY DEF Parts, RowParts, UserParts, MeParts
  <2>5. \A s \in {<<Write("class")>>, <<GetRow, Write("class")>>} : Fit(q, s) /\ PartsOf(s) = ToChange(q)
    BY <2>2, <2>3, <2>4, WriteFits, Zenon
  <2>6. QED BY <2>1, <2>5, Zenon
<1>8. CASE q.handler = "registry-write"
  <2>1. Script(q) = <<Write("value")>> BY <1>8 DEF Script, Lists, RegistryWrite
  <2>2. ToChange(q) = {"value"} BY <1>8 DEF ToChange
  <2>3. q.handler \notin OfRows \cup Setters \cup Takers BY <1>8 DEF OfRows, Lists, Setters, Takers
  <2>4. "value" \in Parts BY DEF Parts, RowParts, UserParts, MeParts
  <2>5. \A s \in {<<Write("value")>>, <<GetRow, Write("value")>>} : Fit(q, s) /\ PartsOf(s) = ToChange(q)
    BY <2>2, <2>3, <2>4, WriteFits, Zenon
  <2>6. QED BY <2>1, <2>5, Zenon
<1>9. CASE q.handler \in {"registry-delete", "registry-delete-key", "registry-delete-tree"}
  <2>1. Script(q) = <<Clear("value")>> BY <1>9 DEF Script, Lists, RegistryDelete, RegistryDeleteKey,
                                                            RegistryDeleteTree
  <2>2. ToChange(q) = {"value"} BY <1>9 DEF ToChange
  <2>3. q.handler \notin OfRows \cup Setters \cup Takers BY <1>9 DEF OfRows, Lists, Setters, Takers
  <2>4. "value" \in Parts BY DEF Parts, RowParts, UserParts, MeParts
  <2>5. \A s \in {<<Clear("value")>>, <<GetRow, Clear("value")>>} : Fit(q, s) /\ PartsOf(s) = ToChange(q)
    BY <2>2, <2>3, <2>4, ClearFits, Zenon
  <2>6. QED BY <2>1, <2>5, Zenon
<1>10. CASE q.handler = "log-write"
  <2>1. Script(q) = <<Write("entry")>> BY <1>10 DEF Script, Lists, LogWrite
  <2>2. ToChange(q) = {"entry"} BY <1>10 DEF ToChange
  <2>3. q.handler \notin OfRows \cup Setters \cup Takers BY <1>10 DEF OfRows, Lists, Setters, Takers
  <2>4. "entry" \in Parts BY DEF Parts, RowParts, UserParts, MeParts
  <2>5. \A s \in {<<Write("entry")>>, <<GetRow, Write("entry")>>} : Fit(q, s) /\ PartsOf(s) = ToChange(q)
    BY <2>2, <2>3, <2>4, WriteFits, Zenon
  <2>6. QED BY <2>1, <2>5, Zenon
<1>11. CASE q.handler = "new-code"
  <2>1. Script(q) = <<Write("code")>> BY <1>11 DEF Script, Lists, NewCode
  <2>2. ToChange(q) = {"code"} BY <1>11 DEF ToChange
  <2>3. q.handler \notin OfRows \cup Setters \cup Takers BY <1>11 DEF OfRows, Lists, Setters, Takers
  <2>4. "code" \in Parts BY DEF Parts, RowParts, UserParts, MeParts
  <2>5. \A s \in {<<Write("code")>>, <<GetRow, Write("code")>>} : Fit(q, s) /\ PartsOf(s) = ToChange(q)
    BY <2>2, <2>3, <2>4, WriteFits, Zenon
  <2>6. QED BY <2>1, <2>5, Zenon
<1>12. CASE q.handler = "confirm"
  <2>1. Script(q) = <<Take("code", 400)>> BY <1>12 DEF Script, Lists, Confirm
  <2>2. ToChange(q) = {"code"} BY <1>12 DEF ToChange
  <2>3. q.handler \notin OfRows \cup Setters /\ q.handler \in Takers BY <1>12 DEF OfRows, Lists, Setters, Takers
  <2> DEFINE w == Take("code", 400)
  <2>4. "code" \in Parts BY DEF Parts, RowParts, UserParts, MeParts
  <2>5. w \in Ops /\ w.op = "take" /\ w.part = "code" /\ w.none = 400 BY <2>4, TakeOp
  <2> HIDE DEF w
  <2>6. TakesFirst(w) BY <2>5 DEF TakesFirst, Rank
  <2>7. w \in Ops /\ w.op = "take" /\ ToChange(q) = {w.part} BY <2>2, <2>5
  <2>8. \A s \in {<<w>>, <<GetRow, w>>} : Fit(q, s) /\ PartsOf(s) = ToChange(q)
    BY <2>3, <2>6, <2>7, TakeFits
  <2>9. QED BY <2>1, <2>8 DEF w
<1>13. QED BY <1>1, <1>2, <1>3, <1>4, <1>5, <1>6, <1>7, <1>8, <1>9, <1>10, <1>11, <1>12 DEF OnePart

LEMMA ReadingOps ==
    /\ Reading(GetRow)
    /\ \A x \in Parts : Reading(Read(x)) /\ Reading(Need(x, 404)) /\ Reading(Need(x, 500))
BY RowOp, ReadOp, NeedOp DEF Reading

\* The scripts that only read are short.
LEMMA ShortReadingFits ==
    ASSUME NEW q, NEW a, NEW b, NEW c, NEW d, Reading(a), Reading(b), Reading(c), Reading(d),
           ToChange(q) = {}, q.handler \notin OfRows
    PROVE  \A s \in {<<a>>, <<a, b>>, <<a, b, c>>, <<a, b, c, d>>} :
              Fit(q, s) /\ PartsOf(s) = ToChange(q)
<1> SUFFICES ASSUME NEW s \in {<<a>>, <<a, b>>, <<a, b, c>>, <<a, b, c, d>>}
             PROVE  Fit(q, s) /\ PartsOf(s) = ToChange(q)
  OBVIOUS
<1>1. a \in Ops /\ b \in Ops /\ c \in Ops /\ d \in Ops BY DEF Reading
<1>2. <<a>> \in Seq(Ops) /\ <<a, b>> \in Seq(Ops) BY <1>1
<1>3. <<a, b, c>> \in Seq(Ops) /\ <<a, b, c, d>> \in Seq(Ops) BY <1>1
<1>4. s \in Seq(Ops) BY <1>2, <1>3
<1>5. \A i \in 1..Len(s) : s[i] \in {a, b, c, d} OBVIOUS
<1>6. \A i \in 1..Len(s) : Reading(s[i]) BY <1>5
<1>7. QED BY <1>4, <1>6, ReadingFits

\* The handlers that write nothing.
ReadOnly == {"iptable-get", "memberships", "user-memberships", "members",
             "methods", "files", "file", "me", "registry-read",
             "registry", "registry-keys", "registry-enum", "key-path",
             "log-entry", "listeners", "listener", "error", "address"}

\* The scripts that write nothing: q.handler decides which.
LEMMA ReadingScripts ==
    ASSUME NEW q, q.handler \in ReadOnly
    PROVE  Fit(q, Script(q)) /\ PartsOf(Script(q)) = ToChange(q)
<1>1. ToChange(q) = {} /\ q.handler \notin OfRows BY DEF ReadOnly, ToChange, OfRows, Lists
<1>2. CASE q.handler = "iptable-get"
  <2>1. Script(q) = <<GetRow, Read("allow"), Read("deny")>> BY <1>2 DEF Script, Lists, IptableGet
  <2>2. "allow" \in Parts /\ "deny" \in Parts
    BY DEF Parts, RowParts, UserParts, MeParts
  <2>3. Reading(GetRow) /\ Reading(Read("allow")) /\ Reading(Read("deny"))
    BY <2>2, ReadingOps
  <2>4. Fit(q, <<GetRow, Read("allow"), Read("deny")>>) /\ PartsOf(<<GetRow, Read("allow"), Read("deny")>>) = ToChange(q)
    BY <1>1, <2>3, ShortReadingFits, Zenon
  <2>5. QED BY <2>1, <2>4, Zenon
<1>3. CASE q.handler \in {"memberships", "user-memberships", "members"}
  <2>1. Script(q) = <<GetRow, Read("member")>> BY <1>3 DEF Script, Lists, MembershipList, UserMemberships,
                              MembersList, RowsOf
  <2>2. "member" \in Parts
    BY DEF Parts, RowParts, UserParts, MeParts
  <2>3. Reading(GetRow) /\ Reading(Read("member"))
    BY <2>2, ReadingOps
  <2>4. Fit(q, <<GetRow, Read("member")>>) /\ PartsOf(<<GetRow, Read("member")>>) = ToChange(q)
    BY <1>1, <2>3, ShortReadingFits, Zenon
  <2>5. QED BY <2>1, <2>4, Zenon
<1>4. CASE q.handler = "methods"
  <2>1. Script(q) = <<GetRow, Read("method")>> BY <1>4 DEF Script, Lists, Methods, RowsOf
  <2>2. "method" \in Parts
    BY DEF Parts, RowParts, UserParts, MeParts
  <2>3. Reading(GetRow) /\ Reading(Read("method"))
    BY <2>2, ReadingOps
  <2>4. Fit(q, <<GetRow, Read("method")>>) /\ PartsOf(<<GetRow, Read("method")>>) = ToChange(q)
    BY <1>1, <2>3, ShortReadingFits, Zenon
  <2>5. QED BY <2>1, <2>4, Zenon
<1>5. CASE q.handler = "files"
  <2>1. Script(q) = <<GetRow, Read("file"), Read("file")>> BY <1>5 DEF Script, Lists, Files
  <2>2. "file" \in Parts
    BY DEF Parts, RowParts, UserParts, MeParts
  <2>3. Reading(GetRow) /\ Reading(Read("file"))
    BY <2>2, ReadingOps
  <2>4. Fit(q, <<GetRow, Read("file"), Read("file")>>) /\ PartsOf(<<GetRow, Read("file"), Read("file")>>) = ToChange(q)
    BY <1>1, <2>3, ShortReadingFits, Zenon
  <2>5. QED BY <2>1, <2>4, Zenon
<1>6. CASE q.handler = "file"
  <2> DEFINE w == Need("file", 404)
  <2>1. Script(q) = <<GetRow, w>> BY <1>6 DEF Script, Lists, File
  <2>2. "file" \in Parts
    BY DEF Parts, RowParts, UserParts, MeParts
  <2>3. Reading(GetRow) /\ Reading(w)
    BY <2>2, ReadingOps
  <2> HIDE DEF w
  <2>4. Fit(q, <<GetRow, w>>) /\ PartsOf(<<GetRow, w>>) = ToChange(q)
    BY <1>1, <2>3, ShortReadingFits, Zenon
  <2>5. QED BY <2>1, <2>4, Zenon
<1>7. CASE q.handler = "me"
  <2>1. Script(q) = <<Read("area"), Read("interface"), Read("locale"), Read("oper_date")>> BY <1>7 DEF Script, Lists, ReadMe
  <2>2. "area" \in Parts /\ "interface" \in Parts /\ "locale" \in Parts /\ "oper_date" \in Parts
    BY DEF Parts, RowParts, UserParts, MeParts
  <2>3. Reading(Read("area")) /\ Reading(Read("interface")) /\ Reading(Read("locale")) /\ Reading(Read("oper_date"))
    BY <2>2, ReadingOps
  <2>4. Fit(q, <<Read("area"), Read("interface"), Read("locale"), Read("oper_date")>>) /\ PartsOf(<<Read("area"), Read("interface"), Read("locale"), Read("oper_date")>>) = ToChange(q)
    BY <1>1, <2>3, ShortReadingFits, Zenon
  <2>5. QED BY <2>1, <2>4, Zenon
<1>8. CASE q.handler = "registry-read"
  <2> DEFINE w == Need("value", 500)
  <2>1. Script(q) = <<w>> BY <1>8 DEF Script, Lists, RegistryRead
  <2>2. "value" \in Parts
    BY DEF Parts, RowParts, UserParts, MeParts
  <2>3. Reading(w)
    BY <2>2, ReadingOps
  <2> HIDE DEF w
  <2>4. Fit(q, <<w>>) /\ PartsOf(<<w>>) = ToChange(q)
    BY <1>1, <2>3, ShortReadingFits, Zenon
  <2>5. QED BY <2>1, <2>4, Zenon
<1>9. CASE q.handler \in {"registry", "registry-keys", "registry-enum"}
  <2>1. Script(q) = <<Read("value")>> BY <1>9 DEF Script, Lists, RegistryList, RegistryKeys, RegistryEnum,
                              CallRowsOf
  <2>2. "value" \in Parts
    BY DEF Parts, RowParts, UserParts, MeParts
  <2>3. Reading(Read("value"))
    BY <2>2, ReadingOps
  <2>4. Fit(q, <<Read("value")>>) /\ PartsOf(<<Read("value")>>) = ToChange(q)
    BY <1>1, <2>3, ShortReadingFits, Zenon
  <2>5. QED BY <2>1, <2>4, Zenon
<1>10. CASE q.handler = "key-path"
  <2> DEFINE w == Need("value", 404)
  <2>1. Script(q) = <<w>> BY <1>10 DEF Script, Lists, KeyPath
  <2>2. "value" \in Parts
    BY DEF Parts, RowParts, UserParts, MeParts
  <2>3. Reading(w)
    BY <2>2, ReadingOps
  <2> HIDE DEF w
  <2>4. Fit(q, <<w>>) /\ PartsOf(<<w>>) = ToChange(q)
    BY <1>1, <2>3, ShortReadingFits, Zenon
  <2>5. QED BY <2>1, <2>4, Zenon
<1>11. CASE q.handler = "log-entry"
  <2> DEFINE w == Need("entry", 404)
  <2>1. Script(q) = <<w>> BY <1>11 DEF Script, Lists, LogEntry
  <2>2. "entry" \in Parts
    BY DEF Parts, RowParts, UserParts, MeParts
  <2>3. Reading(w)
    BY <2>2, ReadingOps
  <2> HIDE DEF w
  <2>4. Fit(q, <<w>>) /\ PartsOf(<<w>>) = ToChange(q)
    BY <1>1, <2>3, ShortReadingFits, Zenon
  <2>5. QED BY <2>1, <2>4, Zenon
<1>12. CASE q.handler = "listeners"
  <2>1. Script(q) = <<Read("shown")>> BY <1>12 DEF Script, Lists, Listeners, CallRowsOf
  <2>2. "shown" \in Parts
    BY DEF Parts, RowParts, UserParts, MeParts
  <2>3. Reading(Read("shown"))
    BY <2>2, ReadingOps
  <2>4. Fit(q, <<Read("shown")>>) /\ PartsOf(<<Read("shown")>>) = ToChange(q)
    BY <1>1, <2>3, ShortReadingFits, Zenon
  <2>5. QED BY <2>1, <2>4, Zenon
<1>13. CASE q.handler \in {"listener", "error", "address"}
  <2> DEFINE w == Need("shown", 404)
  <2>1. Script(q) = <<w>>
    <3>1. CASE q.handler = "listener" BY <3>1 DEF Script, Lists, Listener, RowFunc
    <3>2. CASE q.handler = "error" BY <3>2 DEF Script, Lists, ErrorByCode, RowFunc
    <3>3. CASE q.handler = "address" BY <3>3 DEF Script, Lists, AddressTree, RowFunc
    <3>4. QED BY <1>13, <3>1, <3>2, <3>3
  <2>2. "shown" \in Parts
    BY DEF Parts, RowParts, UserParts, MeParts
  <2>3. Reading(w)
    BY <2>2, ReadingOps
  <2> HIDE DEF w
  <2>4. Fit(q, <<w>>) /\ PartsOf(<<w>>) = ToChange(q)
    BY <1>1, <2>3, ShortReadingFits, Zenon
  <2>5. QED BY <2>1, <2>4, Zenon
<1>14. QED BY <1>2, <1>3, <1>4, <1>5, <1>6, <1>7, <1>8, <1>9, <1>10, <1>11, <1>12, <1>13
  DEF ReadOnly

\* A script with one more call before it.
LEMMA ConsAt ==
    ASSUME NEW e \in Ops, NEW s \in Seq(Ops)
    PROVE  LET t == <<e>> \o s
           IN  /\ t \in Seq(Ops) /\ Len(t) \in Nat /\ Len(s) \in Nat /\ Len(t) = Len(s) + 1
               /\ t[1] = e /\ \A i \in 1..Len(s) : t[i + 1] = s[i]
<1> DEFINE t == <<e>> \o s
<1>1. <<e>> \in Seq(Ops) /\ Len(<<e>>) = 1 /\ <<e>>[1] = e OBVIOUS
<1>2. Len(s) \in Nat OBVIOUS
<1>3. /\ t \in Seq(Ops) /\ Len(t) = Len(<<e>>) + Len(s)
      /\ \A i \in 1..(Len(<<e>>) + Len(s)) :
           t[i] = IF i <= Len(<<e>>) THEN <<e>>[i] ELSE s[i - Len(<<e>>)]
  BY <1>1, ConcatProperties
<1> HIDE DEF t
<1>4. /\ Len(t) = 1 + Len(s)
      /\ \A i \in 1..(1 + Len(s)) : t[i] = IF i <= 1 THEN <<e>>[i] ELSE s[i - 1]
  BY <1>1, <1>3
<1>5. \A n \in Nat : /\ 1 \in 1..(1 + n) /\ 1 + n = n + 1 /\ n + 1 \in Nat
                     /\ \A i \in 1..n : i + 1 \in 1..(1 + n) /\ ~(i + 1 <= 1) /\ (i + 1) - 1 = i
  OBVIOUS
<1>6. t[1] = e BY <1>1, <1>2, <1>4, <1>5
<1>7. \A i \in 1..Len(s) : t[i + 1] = s[i] BY <1>2, <1>4, <1>5
<1>8. Len(t) \in Nat /\ Len(t) = Len(s) + 1 BY <1>2, <1>4
<1>9. QED BY <1>2, <1>3, <1>6, <1>7, <1>8 DEF t

\* PATCH /me: a field before others of a higher rank.
LEMMA GivenFits ==
    ASSUME NEW q, q.handler = "me-patch", NEW x \in MeParts, NEW s, Fit(q, s),
           \A y \in PartsOf(s) : Rank(x) < Rank(y)
    PROVE  /\ Fit(q, Given(q, x, s))
           /\ PartsOf(Given(q, x, s)) = PartsOf(s) \cup (q.set \cap {x})
<1>1. CASE x \notin q.set BY <1>1 DEF Given
<1>2. CASE x \in q.set
  <2> DEFINE e == Write(x)
             t == <<e>> \o s
  <2>1. x \in Parts BY DEF Parts, UserParts
  <2>2. e \in Ops /\ e.op = "write" /\ e.part = x BY <2>1, WriteOp
  <2>3. s \in Seq(Ops) BY DEF Fit
  <2>4. Given(q, x, s) = t BY <1>2 DEF Given
  <2> HIDE DEF e
  <2>5. /\ t \in Seq(Ops) /\ Len(t) \in Nat /\ Len(s) \in Nat /\ Len(t) = Len(s) + 1
        /\ t[1] = e /\ \A i \in 1..Len(s) : t[i + 1] = s[i]
    BY <2>2, <2>3, ConsAt
  <2> HIDE DEF t
  <2>6. ASSUME NEW i \in 1..Len(t), i # 1
        PROVE  i - 1 \in 1..Len(s) /\ t[i] = s[i - 1]
    <3>1. i - 1 \in 1..Len(s) /\ (i - 1) + 1 = i BY <2>5, <2>6
    <3>2. QED BY <2>5, <3>1
  <2>7. 1 \in 1..Len(t) /\ \A i \in 1..Len(s) : i + 1 \in 1..Len(t) BY <2>5
  <2>8. Writing(e) BY <2>2 DEF Writing
  <2>9. ToChange(q) = q.set BY DEF ToChange
  <2>10. FitsOne(q, e) BY <1>2, <2>2, <2>8, <2>9 DEF FitsOne, Takers, Lists
  <2>11. \A i \in 1..Len(t) : FitsOne(q, t[i]) BY <2>5, <2>6, <2>10 DEF Fit
  <2>12. ASSUME NEW i \in 1..Len(t), NEW j \in 1..Len(t), i < j, Writing(t[j])
         PROVE  t[i].op # "read" /\ (Writing(t[i]) => Rank(t[i].part) < Rank(t[j].part))
    <3>1. j # 1 BY <2>5, <2>12
    <3>2. j - 1 \in 1..Len(s) /\ t[j] = s[j - 1] BY <2>6, <3>1
    <3>3. CASE i = 1
      <4>1. s[j - 1].part \in PartsOf(s) BY <2>12, <3>2 DEF PartsOf
      <4>2. Rank(x) < Rank(t[j].part) BY <3>2, <4>1
      <4>3. QED BY <2>2, <2>5, <3>3, <4>2
    <3>4. CASE i # 1
      <4>1. i - 1 \in 1..Len(s) /\ t[i] = s[i - 1] BY <2>6, <3>4
      <4>2. i - 1 < j - 1 BY <2>5, <2>12
      <4>3. Writing(s[j - 1]) BY <2>12, <3>2
      <4>4. s[i - 1].op # "read" /\ (Writing(s[i - 1]) => Rank(s[i - 1].part) < Rank(s[j - 1].part))
        BY <3>2, <4>1, <4>2, <4>3 DEF Fit
      <4>5. QED BY <3>2, <4>1, <4>4
    <3>5. QED BY <3>3, <3>4
  <2>13. q.handler \notin Lists BY DEF Lists
  <2>14. Fit(q, t) BY <2>5, <2>11, <2>12, <2>13 DEF Fit
  <2>15. PartsOf(t) = PartsOf(s) \cup {x}
    <3>1. ASSUME NEW y \in PartsOf(t) PROVE y \in PartsOf(s) \/ y = x
      <4>1. PICK i \in 1..Len(t) : Writing(t[i]) /\ y = t[i].part BY <3>1 DEF PartsOf
      <4>2. CASE i = 1 BY <2>2, <2>5, <4>1, <4>2
      <4>3. CASE i # 1
        <5>1. i - 1 \in 1..Len(s) /\ t[i] = s[i - 1] BY <2>6, <4>3
        <5>2. QED BY <4>1, <5>1 DEF PartsOf
      <4>4. QED BY <4>2, <4>3
    <3>2. x \in PartsOf(t) BY <2>2, <2>5, <2>7, <2>8 DEF PartsOf
    <3>3. ASSUME NEW y \in PartsOf(s) PROVE y \in PartsOf(t)
      <4>1. PICK i \in 1..Len(s) : Writing(s[i]) /\ y = s[i].part BY <3>3 DEF PartsOf
      <4>2. i + 1 \in 1..Len(t) /\ t[i + 1] = s[i] BY <2>5, <2>7
      <4>3. QED BY <4>1, <4>2 DEF PartsOf
    <3>4. QED BY <3>1, <3>2, <3>3
  <2>16. q.set \cap {x} = {x} BY <1>2
  <2>17. QED BY <2>4, <2>14, <2>15, <2>16
<1>3. QED BY <1>1, <1>2

LEMMA MePatchFits ==
    ASSUME NEW q, q.handler = "me-patch", q.set \subseteq MeParts
    PROVE  Fit(q, Script(q)) /\ PartsOf(Script(q)) = ToChange(q)
<1> DEFINE s1 == Given(q, "oper_date", ReadMe)
           s2 == Given(q, "locale", s1)
           s3 == Given(q, "interface", s2)
           s4 == Given(q, "area", s3)
<1>1. Script(q) = s4 BY DEF Script, Lists, MePatch
<1>2. ToChange(q) = q.set BY DEF ToChange
<1>3. /\ "area" \in MeParts /\ "interface" \in MeParts /\ "locale" \in MeParts
      /\ "oper_date" \in MeParts
  BY DEF MeParts
<1>4. /\ "area" \in Parts /\ "interface" \in Parts /\ "locale" \in Parts /\ "oper_date" \in Parts
  BY <1>3 DEF Parts, UserParts
<1>5. /\ Rank("area") = 0 /\ Rank("interface") = 1 /\ Rank("locale") = 2 /\ Rank("oper_date") = 3
  BY DEF Rank
<1>6. Fit(q, ReadMe) /\ PartsOf(ReadMe) = {}
  <2>1. ReadMe \in Seq(Ops) /\ \A i \in 1..Len(ReadMe) : \E x \in Parts : ReadMe[i] = Read(x)
    <3>1. \A x \in Parts : Read(x) \in Ops BY ReadOp
    <3>2. QED BY <1>4, <3>1 DEF ReadMe
  <2> HIDE DEF s1, s2, s3, s4
  <2>2. \A x \in Parts : FitsOne(q, Read(x)) /\ ~Writing(Read(x))
    <3>1. SUFFICES ASSUME NEW x \in Parts PROVE FitsOne(q, Read(x)) /\ ~Writing(Read(x))
      OBVIOUS
    <3>2. Read(x).op = "read" /\ Read(x).none = 0 BY ReadOp
    <3>3. ~Writing(Read(x)) BY <3>2 DEF Writing
    <3>4. QED BY <3>2, <3>3 DEF FitsOne, Lists
  <2>3. \A i \in 1..Len(ReadMe) : FitsOne(q, ReadMe[i]) /\ ~Writing(ReadMe[i]) BY <2>1, <2>2
  <2>4. PartsOf(ReadMe) = {} BY <2>3 DEF PartsOf
  <2>5. q.handler \notin Lists BY DEF Lists
  <2>6. QED BY <2>1, <2>3, <2>4, <2>5 DEF Fit
<1>7. Fit(q, s1) /\ PartsOf(s1) = q.set \cap {"oper_date"} BY <1>3, <1>6, GivenFits
<1> HIDE DEF s1
<1>8. \A y \in PartsOf(s1) : Rank("locale") < Rank(y) BY <1>5, <1>7
<1>9. Fit(q, s2) /\ PartsOf(s2) = q.set \cap {"oper_date", "locale"}
  <2>1. Fit(q, s2) /\ PartsOf(s2) = PartsOf(s1) \cup (q.set \cap {"locale"})
    BY <1>3, <1>7, <1>8, GivenFits
  <2>2. QED BY <1>7, <2>1
<1> HIDE DEF s2
<1>10. \A y \in PartsOf(s2) : Rank("interface") < Rank(y) BY <1>5, <1>9
<1>11. Fit(q, s3) /\ PartsOf(s3) = q.set \cap {"oper_date", "locale", "interface"}
  <2>1. Fit(q, s3) /\ PartsOf(s3) = PartsOf(s2) \cup (q.set \cap {"interface"})
    BY <1>3, <1>9, <1>10, GivenFits
  <2>2. QED BY <1>9, <2>1
<1> HIDE DEF s3
<1>12. \A y \in PartsOf(s3) : Rank("area") < Rank(y) BY <1>5, <1>11
<1>13. Fit(q, s4) /\ PartsOf(s4) = PartsOf(s3) \cup (q.set \cap {"area"})
  BY <1>3, <1>11, <1>12, GivenFits
<1>14. PartsOf(s3) \cup (q.set \cap {"area"}) = q.set BY <1>11 DEF MeParts
<1>15. QED BY <1>1, <1>2, <1>13, <1>14

LEMMA IptablePutFits ==
    ASSUME NEW q, q.handler = "iptable-put"
    PROVE  Fit(q, Script(q)) /\ PartsOf(Script(q)) = ToChange(q)
<1> DEFINE a == Write("allow")
           d == Write("deny")
           s == <<GetRow, a, d>>
<1>1. Script(q) = s BY DEF Script, Lists, IptablePut
<1>2. ToChange(q) = {"allow", "deny"} BY DEF ToChange
<1>3. "allow" \in Parts /\ "deny" \in Parts BY DEF Parts, RowParts
<1>4. /\ a \in Ops /\ a.op = "write" /\ a.part = "allow"
      /\ d \in Ops /\ d.op = "write" /\ d.part = "deny"
  BY <1>3, WriteOp
<1>5. GetRow \in Ops /\ GetRow.op = "row" BY RowOp
<1> HIDE DEF a, d
<1>6. s \in Seq(Ops) /\ Len(s) = 3 /\ s[1] = GetRow /\ s[2] = a /\ s[3] = d BY <1>4, <1>5
<1> HIDE DEF s
<1>7. q.handler \in Setters /\ q.handler \notin Takers /\ q.handler \notin Lists
  BY DEF Setters, Takers, Lists
<1>8. Writing(a) /\ Writing(d) /\ ~Writing(GetRow) BY <1>4, <1>5 DEF Writing
<1>9. FitsOne(q, a) /\ FitsOne(q, d) BY <1>2, <1>4, <1>7, <1>8 DEF FitsOne
<1>10. FitsOne(q, GetRow) BY <1>5, <1>7, <1>8 DEF FitsOne
<1>11. \A i \in 1..Len(s) : i = 1 \/ i = 2 \/ i = 3 BY <1>6
<1>12. \A i \in 1..Len(s) : FitsOne(q, s[i]) BY <1>6, <1>9, <1>10, <1>11
<1>13. Rank(a.part) < Rank(d.part)
  <2>1. Rank("allow") = 0 /\ Rank("deny") = 1 BY DEF Rank
  <2>2. QED BY <1>4, <2>1
<1>14. ASSUME NEW i \in 1..Len(s), NEW j \in 1..Len(s), i < j, Writing(s[j])
       PROVE  s[i].op # "read" /\ (Writing(s[i]) => Rank(s[i].part) < Rank(s[j].part))
  <2>1. CASE i = 1 BY <1>5, <1>6, <1>8, <2>1
  <2>2. CASE i = 2
    <3>1. j = 3 BY <1>6, <1>14, <2>2
    <3>2. QED BY <1>4, <1>6, <1>13, <2>2, <3>1
  <2>3. CASE i = 3 BY <1>6, <1>14, <2>3
  <2>4. QED BY <1>11, <2>1, <2>2, <2>3
<1>15. Fit(q, s) BY <1>6, <1>7, <1>12, <1>14 DEF Fit
<1>16. PartsOf(s) = {"allow", "deny"}
  <2>1. \A y \in PartsOf(s) : y = "allow" \/ y = "deny" BY <1>4, <1>6, <1>8, <1>11 DEF PartsOf
  <2>2. 2 \in 1..Len(s) /\ 3 \in 1..Len(s) BY <1>6
  <2>3. "allow" \in PartsOf(s) BY <1>4, <1>6, <1>8, <2>2 DEF PartsOf
  <2>4. "deny" \in PartsOf(s) BY <1>4, <1>6, <1>8, <2>2 DEF PartsOf
  <2>5. QED BY <2>1, <2>3, <2>4
<1>17. QED BY <1>1, <1>2, <1>15, <1>16

\* The calls over rows.
LEMMA RowScripts ==
    ASSUME NEW q, q.handler \in OfRows
    PROVE  Fit(q, Script(q)) /\ PartsOf(Script(q)) = ToChange(q)
<1> DEFINE count == [op |-> "count"]
           page == [op |-> "page"]
           notes == [op |-> "notes"]
<1>1. ToChange(q) = {} BY DEF ToChange, OfRows, Lists
<1>2. count \in Ops /\ page \in Ops /\ notes \in Ops BY ListOps
<1>3. count.op = "count" /\ page.op = "page" /\ notes.op = "notes" OBVIOUS
<1>4. Script(q) \in {<<count, page>>, <<page>>, <<notes>>}
      /\ (q.handler \in Lists => Script(q) = List /\ Script(q) = <<count, page>>)
      /\ (q.handler \notin Lists => Script(q) # <<count, page>> /\ Script(q) \in {<<page>>, <<notes>>})
  <2>1. q.handler \in Lists => Script(q) = List /\ Script(q) = <<count, page>>
    BY DEF Script, Lists, List
  <2>2. q.handler = "search" => Script(q) = <<page>> BY DEF Script, Lists, SearchObjects
  <2>3. q.handler = "changed" => Script(q) = <<notes>> BY DEF Script, Lists, Changed
  <2>4. Len(<<page>>) # Len(<<count, page>>) /\ Len(<<notes>>) # Len(<<count, page>>) OBVIOUS
  <2>5. <<page>> # <<count, page>> /\ <<notes>> # <<count, page>> BY <2>4
  <2>6. QED BY <2>1, <2>2, <2>3, <2>5 DEF OfRows
<1> HIDE DEF count, page, notes
<1>5. <<count, page>> \in Seq(Ops) /\ <<page>> \in Seq(Ops) /\ <<notes>> \in Seq(Ops) BY <1>2
<1>6. ~Writing(count) /\ ~Writing(page) /\ ~Writing(notes) BY <1>3 DEF Writing
<1>7. FitsOne(q, page) BY <1>3, <1>6 DEF FitsOne
<1>8. q.handler \in Lists => FitsOne(q, count) BY <1>3, <1>6 DEF FitsOne
<1>9. q.handler \notin Lists => FitsOne(q, notes) BY <1>3, <1>6 DEF FitsOne
<1>10. \A i \in 1..Len(<<count, page>>) : <<count, page>>[i] \in {count, page} OBVIOUS
<1>11. \A i \in 1..Len(<<page>>) : <<page>>[i] = page OBVIOUS
<1>12. \A i \in 1..Len(<<notes>>) : <<notes>>[i] = notes OBVIOUS
<1>13. CASE q.handler \in Lists
  <2> DEFINE s == <<count, page>>
  <2>1. \A i \in 1..Len(s) : FitsOne(q, s[i]) /\ ~Writing(s[i]) BY <1>6, <1>7, <1>8, <1>10, <1>13
  <2>2. s \in Seq(Ops) /\ s = List /\ Script(q) = s BY <1>4, <1>5, <1>13
  <2> HIDE DEF s
  <2>3. Fit(q, s) BY <2>1, <2>2 DEF Fit
  <2>4. PartsOf(s) = {} BY <2>1 DEF PartsOf
  <2>5. QED BY <1>1, <2>2, <2>3, <2>4
<1>14. CASE q.handler \notin Lists
  <2>1. PICK s \in {<<page>>, <<notes>>} : Script(q) = s BY <1>4, <1>14
  <2>2. \A i \in 1..Len(s) : s[i] = page \/ s[i] = notes BY <1>11, <1>12, <2>1
  <2>3. \A i \in 1..Len(s) : FitsOne(q, s[i]) /\ ~Writing(s[i]) BY <1>6, <1>7, <1>9, <1>14, <2>2
  <2>4. s \in Seq(Ops) BY <1>5, <2>1
  <2>5. Fit(q, s) BY <1>14, <2>3, <2>4 DEF Fit
  <2>6. PartsOf(s) = {} BY <2>3 DEF PartsOf
  <2>7. QED BY <1>1, <2>1, <2>5, <2>6
<1>15. QED BY <1>13, <1>14

\* Every handler's script: it writes what the request is to change, in the
\* order of ranks, reads back after that, and deletes nothing beside.
LEMMA ScriptFits ==
    ASSUME NEW q \in PkgMenu
    PROVE  Fit(q, Script(q)) /\ PartsOf(Script(q)) = ToChange(q)
<1>1. q.handler \in OfARow \cup OfASession \cup OfAClass \cup OfRows BY PackageRestAssumption
<1>2. q.handler = "me-patch" => q.set \subseteq MeParts BY PackageRestAssumption
<1>3. CASE q.handler \in OfRows BY <1>3, RowScripts
<1>4. CASE q.handler = "me-patch" BY <1>2, <1>4, MePatchFits
<1>5. CASE q.handler = "iptable-put" BY <1>5, IptablePutFits
<1>6. CASE q.handler \in OfARow \ {"iptable-put"}
  <2>1. q.handler \in OnePart \/ q.handler \in ReadOnly BY <1>6 DEF OfARow, OnePart, ReadOnly
  <2>2. QED BY <2>1, OnePartScripts, ReadingScripts
<1>7. CASE q.handler \in OfASession \ {"me-patch"}
  <2>1. q.handler \in OnePart \/ q.handler \in ReadOnly BY <1>7 DEF OfASession, OnePart, ReadOnly
  <2>2. QED BY <2>1, OnePartScripts, ReadingScripts
<1>8. CASE q.handler \in OfAClass
  <2>1. q.handler \in OnePart BY <1>8 DEF OfAClass, OnePart
  <2>2. QED BY <2>1, OnePartScripts
<1>9. QED BY <1>1, <1>3, <1>4, <1>5, <1>6, <1>7, <1>8

\* What a request is to change is among the parts there are.
LEMMA ChangesAreCells ==
    ASSUME NEW q \in PkgMenu, NEW x \in ToChange(q)
    PROVE  <<Owner(q), x>> \in Cells
<1>1. q.handler \in OfARow \cup OfASession \cup OfAClass \cup OfRows BY PackageRestAssumption
<1>2. CASE q.handler \in OfARow
  <2>1. q.to = None /\ q.id \in Rows BY <1>2, PackageRestAssumption
  <2>2. q.id # None BY <2>1, EntityRestAssumption
  <2>3. Owner(q) = q.id BY <2>1, <2>2 DEF Owner
  <2>4. x \in RowParts BY <1>2 DEF OfARow, ToChange, RowParts
  <2>5. QED BY <2>1, <2>3, <2>4 DEF Cells
<1>3. CASE q.handler \in OfASession
  <2>1. q.to = None /\ q.id = None /\ q.user \in Users BY <1>3, PackageRestAssumption
  <2>2. Owner(q) = q.user BY <2>1 DEF Owner
  <2>3. x \in UserParts
    <3>1. CASE q.handler = "me-patch"
      <4>1. x \in q.set BY <3>1 DEF ToChange
      <4>2. QED BY <3>1, <4>1, PackageRestAssumption DEF UserParts
    <3>2. CASE q.handler # "me-patch" BY <1>3, <3>2 DEF OfASession, ToChange, UserParts
    <3>3. QED BY <3>1, <3>2
  <2>4. QED BY <2>1, <2>2, <2>3 DEF Cells
<1>4. CASE q.handler \in OfAClass
  <2>1. q.to # None BY <1>4, PackageRestAssumption
  <2>2. Owner(q) = q.to /\ q.to \in Classes BY <2>1 DEF Owner, Classes
  <2>3. x = "class" BY <1>4 DEF OfAClass, ToChange
  <2>4. QED BY <2>2, <2>3 DEF Cells
<1>5. CASE q.handler \in OfRows
  <2>1. ToChange(q) = {} BY <1>5 DEF OfRows, Lists, ToChange
  <2>2. QED BY <2>1
<1>6. QED BY <1>1, <1>2, <1>3, <1>4, <1>5

\* One PUT of an IP table writes both lists, and nothing else writes either.
LEMMA ListsGoTogether ==
    ASSUME NEW q \in PkgMenu, ToChange(q) \cap {"allow", "deny"} # {}
    PROVE  q.handler = "iptable-put" /\ ToChange(q) = {"allow", "deny"}
<1>1. q.handler \in OfARow \cup OfASession \cup OfAClass \cup OfRows BY PackageRestAssumption
<1>2. CASE q.handler = "me-patch"
  <2>1. ToChange(q) \subseteq MeParts BY <1>2, PackageRestAssumption DEF ToChange
  <2>2. QED BY <2>1 DEF MeParts
<1>3. CASE q.handler = "iptable-put" BY <1>3 DEF ToChange
<1>4. CASE q.handler \notin {"me-patch", "iptable-put"} BY <1>4 DEF ToChange
<1>5. QED BY <1>2, <1>3, <1>4

-----------------------------------------------------------------------------
(* The inductive invariant.                                                *)

PkgTypes ==
    /\ task \in [PkgCalls -> PkgMenu \cup {None}]
    /\ at \in [PkgCalls -> {"new", "run", "done"}]
    /\ DOMAIN part = Cells
    /\ DOMAIN todo = PkgCalls /\ DOMAIN mine = PkgCalls /\ DOMAIN said = PkgCalls
    /\ DOMAIN items = PkgCalls /\ DOMAIN kept = PkgCalls /\ DOMAIN took = PkgCalls
    /\ total \in [PkgCalls -> Nat] /\ reply \in [PkgCalls -> Nat]
    /\ unsure \in [PkgCalls -> BOOLEAN] /\ moved \in [PkgCalls -> BOOLEAN]

\* A call that has not come.
Fresh(p) ==
    at[p] = "new" => /\ DOMAIN mine[p] = {} /\ DOMAIN said[p] = {} /\ items[p] = {}
                     /\ kept[p] = {} /\ took[p] = None

\* A call under way: its script has come as far as what its transaction has
\* written, in the order of ranks; what it has read back is its own.
Running(p) ==
    at[p] = "run" =>
        LET q == task[p] IN
        /\ q \in PkgMenu /\ ~Refuses(q)
        /\ Fit(q, todo[p])
        /\ DOMAIN mine[p] \subseteq {Owner(q)} \X ToChange(q)
        /\ \A y \in ToChange(q) : <<Owner(q), y>> \in DOMAIN mine[p] \/ y \in PartsOf(todo[p])
        /\ \A y \in ToChange(q) : <<Owner(q), y>> \in DOMAIN mine[p] =>
             \A z \in PartsOf(todo[p]) : Rank(y) < Rank(z)
        /\ DOMAIN said[p] # {} => PartsOf(todo[p]) = {}
        /\ \A x \in DOMAIN mine[p] :
             /\ mine[p][x] \in {p, None}
             /\ q.handler \in Setters => mine[p][x] = p
             /\ x \in DOMAIN said[p] => said[p][x] = p
             /\ q.handler \in Takers => took[p] # None /\ mine[p][x] = None
        /\ took[p] # None => q.handler \in Takers /\ DOMAIN mine[p] # {}
        /\ kept[p] = {}

\* A call that was answered.
Finished(p) ==
    at[p] = "done" =>
        LET q == task[p] IN
        /\ q \in PkgMenu
        /\ DOMAIN mine[p] = {}
        /\ kept[p] # {} => kept[p] = {Owner(q)} \X ToChange(q)
        /\ took[p] # None => q.handler \in Takers /\ kept[p] # {}
        /\ reply[p] \in 200..299 =>
             /\ ~Refuses(q)
             /\ kept[p] = {Owner(q)} \X ToChange(q)
             /\ \A x \in kept[p] \cap DOMAIN said[p] : said[p][x] = p
             /\ q.handler \in Takers => took[p] # None
        /\ reply[p] >= 400 /\ ~unsure[p] => kept[p] = {}

Found(p) == {id \in Search(task[p]) : row[id] # 0}

PageIs(p) ==
    \E n \in Nat : /\ Cardinality(items[p]) = PageLen(task[p], n)
                   /\ ~moved[p] => n = total[p]

\* A list: what it has counted is there until rows come or go, and its page
\* is cut from what it then found.
Listing(p) ==
    at[p] # "new" =>
        LET q == task[p] IN
        /\ items[p] \subseteq Search(q)
        /\ items[p] # {} => q.handler \in OfRows
        /\ q.handler \in Lists =>
             /\ at[p] = "run" /\ todo[p] = <<[op |-> "page"]>> /\ ~moved[p] =>
                  total[p] = Cardinality(Found(p))
             /\ at[p] = "run" /\ todo[p] = <<>> => PageIs(p)
             /\ at[p] = "done" /\ reply[p] \in 200..299 => PageIs(p)

\* The parts.  No two transactions have written one; who is found in a part
\* has ended; and what was deleted or spent is never there again.
PartInv ==
    /\ \A p, o \in PkgCalls : p # o => DOMAIN mine[p] \cap DOMAIN mine[o] = {}
    /\ \A x \in Cells : part[x] \in PkgCalls => at[part[x]] = "done"
    /\ \A p \in PkgCalls : took[p] # None =>
         /\ took[p] \in PkgCalls => at[took[p]] = "done"
         /\ at[p] = "run" => \A x \in DOMAIN mine[p] : part[x] = took[p]
         /\ at[p] = "done" => \A x \in kept[p] : part[x] # took[p]
    /\ \A p, o \in PkgCalls :
         p # o /\ at[p] = "done" /\ at[o] = "done" /\ took[p] # None /\ took[p] = took[o]
           => kept[p] \cap kept[o] = {}
    /\ IptablesAreWhole

CallsInv == \A p \in PkgCalls : Fresh(p) /\ Running(p) /\ Finished(p)
ListsInv == \A p \in PkgCalls : Listing(p)

PkgInv == PkgTypes /\ CallsInv /\ ListsInv /\ PartInv

LEMMA InitPkgInv == PkgInit => PkgInv
<1> SUFFICES ASSUME PkgInit PROVE PkgInv
  OBVIOUS
<1>1. PkgTypes BY DEF PkgInit, PkgTypes
<1>2. DOMAIN NoCells = {} BY DEF NoCells
<1>3. CallsInv BY <1>2 DEF PkgInit, CallsInv, Fresh, Running, Finished
<1>4. ListsInv BY DEF PkgInit, ListsInv, Listing
<1>5. IptablesAreWhole
  <2>1. \A r \in Rows : <<r, "allow">> \in Cells /\ <<r, "deny">> \in Cells BY DEF Cells, RowParts
  <2>2. \A r \in Rows : part[<<r, "allow">>] = None /\ part[<<r, "deny">>] = None
    BY <2>1 DEF PkgInit
  <2>3. QED BY <2>2 DEF IptablesAreWhole
<1>6. \A x \in Cells : part[x] \notin PkgCalls
  <2>1. \A x \in Cells : part[x] \in {Seed, None} BY DEF PkgInit
  <2>2. QED BY <2>1, PackageRestAssumption
<1>7. PartInv BY <1>2, <1>5, <1>6 DEF PkgInit, PartInv
<1>8. QED BY <1>1, <1>3, <1>4, <1>7 DEF PkgInv

-----------------------------------------------------------------------------
(* The steps.                                                              *)

\* A step leaves a call alone, but for the rows it may have counted.
Still(o) ==
    /\ task'[o] = task[o] /\ todo'[o] = todo[o] /\ at'[o] = at[o] /\ mine'[o] = mine[o]
    /\ said'[o] = said[o] /\ total'[o] = total[o] /\ items'[o] = items[o]
    /\ reply'[o] = reply[o] /\ kept'[o] = kept[o] /\ took'[o] = took[o]
    /\ unsure'[o] = unsure[o]

Same(o) == Still(o) /\ moved'[o] = moved[o]

LEMMA StillFresh ==
    ASSUME NEW o \in PkgCalls, Still(o), Fresh(o)
    PROVE  Fresh(o)'
BY DEF Still, Fresh

LEMMA StillRunning ==
    ASSUME NEW o \in PkgCalls, Still(o), Running(o)
    PROVE  Running(o)'
BY DEF Still, Running

LEMMA StillFinished ==
    ASSUME NEW o \in PkgCalls, Still(o), Finished(o)
    PROVE  Finished(o)'
BY DEF Still, Finished

LEMMA SameListing ==
    ASSUME NEW o \in PkgCalls, Same(o), row' = row, Listing(o)
    PROVE  Listing(o)'
<1>1. Found(o)' = Found(o) BY DEF Same, Still, Found
<1>2. PageIs(o)' <=> PageIs(o) BY DEF Same, Still, PageIs
<1>3. QED BY <1>1, <1>2 DEF Same, Still, Listing

\* A step of one call is looked at for that call only.
LEMMA OthersStay ==
    ASSUME CallsInv, ListsInv, NEW p \in PkgCalls, row' = row,
           \A o \in PkgCalls \ {p} : Same(o),
           Fresh(p)', Running(p)', Finished(p)', Listing(p)'
    PROVE  CallsInv' /\ ListsInv'
<1>1. ASSUME NEW o \in PkgCalls, o # p
      PROVE  Fresh(o)' /\ Running(o)' /\ Finished(o)' /\ Listing(o)'
  <2>1. Same(o) /\ Still(o) BY <1>1 DEF Same
  <2>2. Fresh(o) /\ Running(o) /\ Finished(o) /\ Listing(o) BY DEF CallsInv, ListsInv
  <2>3. QED BY <2>1, <2>2, StillFresh, StillRunning, StillFinished, SameListing, Zenon
<1>2. CallsInv' BY <1>1 DEF CallsInv
<1>3. ListsInv' BY <1>1 DEF ListsInv
<1>4. QED BY <1>2, <1>3

\* A call of its own goes on, with nothing written.
LEMMA GoesOn ==
    ASSUME PkgInv, NEW p \in PkgCalls, at[p] = "run",
           UNCHANGED <<task, at, part, mine, reply, kept, took, unsure, moved, row>>,
           \A o \in PkgCalls \ {p} : /\ todo'[o] = todo[o] /\ said'[o] = said[o]
                                     /\ total'[o] = total[o] /\ items'[o] = items[o],
           DOMAIN todo' = PkgCalls, DOMAIN said' = PkgCalls, DOMAIN items' = PkgCalls,
           total' \in [PkgCalls -> Nat],
           Fit(task[p], todo'[p]), PartsOf(todo'[p]) = PartsOf(todo[p]),
           DOMAIN said'[p] # {} => PartsOf(todo[p]) = {},
           \A x \in DOMAIN mine[p] : x \in DOMAIN said'[p] => said'[p][x] = p,
           Listing(p)'
    PROVE  PkgInv'
<1>1. PkgTypes' BY DEF PkgInv, PkgTypes
<1>2. \A o \in PkgCalls \ {p} : Same(o) BY DEF Same, Still
<1>3. Running(p) BY DEF PkgInv, CallsInv
<1>4. Fresh(p)' /\ Running(p)' /\ Finished(p)'
  <2>1. Fresh(p)' BY DEF Fresh
  <2>2. Finished(p)' BY DEF Finished
  <2>3. Running(p)' BY <1>3 DEF Running
  <2>4. QED BY <2>1, <2>2, <2>3
<1>5. CallsInv' /\ ListsInv' BY <1>2, <1>4, OthersStay DEF PkgInv
<1>6. PartInv' BY DEF PkgInv, PartInv, IptablesAreWhole
<1>7. QED BY <1>1, <1>5, <1>6 DEF PkgInv

\* The transaction is undone, and a problem is told.
LEMMA FailStep ==
    ASSUME PkgInv, NEW p \in PkgCalls, at[p] = "run", NEW n \in {400, 404, 500},
           Reply(p, n), Rolled(p), UNCHANGED <<task, said, total, items, moved, row>>
    PROVE  PkgInv'
<1>1. /\ reply' = [reply EXCEPT ![p] = n] /\ at' = [at EXCEPT ![p] = "done"]
      /\ todo' = [todo EXCEPT ![p] = <<>>] /\ mine' = [mine EXCEPT ![p] = NoCells]
      /\ took' = [took EXCEPT ![p] = None] /\ UNCHANGED <<part, kept, unsure>>
  BY DEF Reply, Rolled
<1>2. PkgTypes BY DEF PkgInv
<1>3. PkgTypes' BY <1>1, <1>2 DEF PkgTypes
<1>4. \A o \in PkgCalls \ {p} : Same(o) BY <1>1, <1>2 DEF Same, Still, PkgTypes
<1>5. DOMAIN mine'[p] = {} /\ at'[p] = "done" /\ reply'[p] = n /\ took'[p] = None
  BY <1>1, <1>2 DEF PkgTypes, NoCells
<1>6. kept[p] = {} /\ task[p] \in PkgMenu BY DEF PkgInv, CallsInv, Running
<1>7. ~(n \in 200..299) OBVIOUS
<1>8. Fresh(p)' /\ Running(p)' BY <1>5 DEF Fresh, Running
<1>9. Finished(p)' BY <1>1, <1>5, <1>6, <1>7 DEF Finished
<1>10. Listing(p)' BY <1>5, <1>7 DEF PkgInv, ListsInv, Listing
<1>11. CallsInv' /\ ListsInv' BY <1>4, <1>8, <1>9, <1>10, OthersStay DEF PkgInv
<1>12. \A o \in PkgCalls \ {p} : Still(o) BY <1>4 DEF Same
<1>13. PartInv'
  <2>1. \A o \in PkgCalls : DOMAIN mine'[o] \subseteq DOMAIN mine[o] BY <1>5, <1>12 DEF Still
  <2>2. \A o \in PkgCalls : at[o] = "done" => at'[o] = "done" BY <1>5, <1>12 DEF Still
  <2>3. \A o \in PkgCalls : took'[o] # None => o # p BY <1>5
  <2>4. \A o, r \in PkgCalls : o # r => DOMAIN mine'[o] \cap DOMAIN mine'[r] = {}
    BY <2>1 DEF PkgInv, PartInv
  <2>5. \A x \in Cells : part'[x] \in PkgCalls => at'[part'[x]] = "done"
    BY <1>1, <2>2 DEF PkgInv, PartInv
  <2>6. \A o \in PkgCalls : took'[o] # None =>
          /\ took'[o] \in PkgCalls => at'[took'[o]] = "done"
          /\ at'[o] = "run" => \A x \in DOMAIN mine'[o] : part'[x] = took'[o]
          /\ at'[o] = "done" => \A x \in kept'[o] : part'[x] # took'[o]
    BY <1>1, <1>12, <2>2, <2>3 DEF PkgInv, PartInv, Still
  <2>7. \A o, r \in PkgCalls :
          o # r /\ at'[o] = "done" /\ at'[r] = "done" /\ took'[o] # None /\ took'[o] = took'[r]
            => kept'[o] \cap kept'[r] = {}
    <3>1. SUFFICES ASSUME NEW o \in PkgCalls, NEW r \in PkgCalls, o # r, at'[o] = "done",
                          at'[r] = "done", took'[o] # None, took'[o] = took'[r]
                   PROVE  kept'[o] \cap kept'[r] = {}
      OBVIOUS
    <3>2. o # p /\ r # p BY <2>3, <3>1
    <3>3. QED BY <1>1, <1>12, <3>1, <3>2 DEF PkgInv, PartInv, Still
  <2>8. IptablesAreWhole' BY <1>1 DEF PkgInv, PartInv, IptablesAreWhole
  <2>9. QED BY <2>4, <2>5, <2>6, <2>7, <2>8 DEF PartInv
<1>14. QED BY <1>3, <1>11, <1>13 DEF PkgInv

\* What is known of a call that makes an api.* call.
LEMMA DoingIs ==
    ASSUME PkgInv, NEW p \in PkgCalls, NEW op, Doing(p, op)
    PROVE  /\ at[p] = "run" /\ todo[p] # <<>> /\ Head(todo[p]).op = op
           /\ Running(p) /\ task[p] \in PkgMenu
           /\ Fit(task[p], todo[p]) /\ todo[p] \in Seq(Ops)
           /\ Fit(task[p], Tail(todo[p])) /\ FitsOne(task[p], Head(todo[p]))
           /\ PartsOf(todo[p]) = PartsOf(Tail(todo[p]))
                \cup (IF Writing(Head(todo[p])) THEN {Head(todo[p]).part} ELSE {})
<1>1. at[p] = "run" /\ todo[p] # <<>> /\ Head(todo[p]).op = op BY DEF Doing
<1>2. Running(p) BY DEF PkgInv, CallsInv
<1>3. Fit(task[p], todo[p]) /\ task[p] \in PkgMenu BY <1>1, <1>2 DEF Running
<1>4. todo[p] \in Seq(Ops) BY <1>3 DEF Fit
<1>5. Fit(task[p], Tail(todo[p])) /\ FitsOne(task[p], Head(todo[p])) BY <1>1, <1>3, FitTail
<1>6. PartsOf(todo[p]) = PartsOf(Tail(todo[p]))
                \cup (IF Writing(Head(todo[p])) THEN {Head(todo[p]).part} ELSE {})
  BY <1>1, <1>4, PartsOfTail
<1>7. QED BY <1>1, <1>2, <1>3, <1>4, <1>5, <1>6

\* Where a script reads a part, it has nothing left to write.
LEMMA ReadsAreLast ==
    ASSUME NEW q, NEW s, Fit(q, s), s # <<>>, Head(s).op = "read"
    PROVE  PartsOf(s) = {}
<1>1. s \in Seq(Ops) BY DEF Fit
<1>2. Len(s) \in Nat \ {0} /\ Head(s) = s[1] /\ 1 \in 1..Len(s) BY <1>1, TailAt
<1>3. ASSUME NEW j \in 1..Len(s), Writing(s[j]) PROVE FALSE
  <2>1. CASE j = 1 BY <1>2, <1>3, <2>1 DEF Writing
  <2>2. CASE j # 1
    <3>1. 1 < j BY <1>2, <2>2
    <3>2. s[1].op # "read" BY <1>2, <1>3, <3>1 DEF Fit
    <3>3. QED BY <1>2, <3>2
  <2>3. QED BY <2>1, <2>2
<1>4. QED BY <1>3 DEF PartsOf

\* What is written first has the lowest rank.
LEMMA WritesInOrder ==
    ASSUME NEW q, NEW s, Fit(q, s), s # <<>>, Writing(Head(s)), NEW z \in PartsOf(Tail(s))
    PROVE  Rank(Head(s).part) < Rank(z)
<1>1. s \in Seq(Ops) BY DEF Fit
<1>2. /\ Head(s) = s[1] /\ 1 \in 1..Len(s) /\ Len(Tail(s)) \in Nat
      /\ \A i \in 1..Len(Tail(s)) : i + 1 \in 1..Len(s) /\ Tail(s)[i] = s[i + 1]
  BY <1>1, TailAt
<1>3. PICK i \in 1..Len(Tail(s)) : Writing(Tail(s)[i]) /\ z = Tail(s)[i].part BY DEF PartsOf
<1>4. i + 1 \in 1..Len(s) /\ Tail(s)[i] = s[i + 1] /\ 1 < i + 1 BY <1>2
<1>5. QED BY <1>2, <1>3, <1>4 DEF Fit

\* A request that changes nothing writes nothing.
LEMMA NothingToWrite ==
    ASSUME NEW q, NEW s, Fit(q, s), ToChange(q) = {}
    PROVE  PartsOf(s) = {}
BY DEF Fit, FitsOne, PartsOf

LEMMA NothingLeft == PartsOf(<<>>) = {}
<1>1. \A i \in 1..Len(<<>>) : FALSE OBVIOUS
<1>2. QED BY <1>1 DEF PartsOf

\* The objects of the notifications, still to be looked at.
LEMMA LooksFit ==
    ASSUME NEW q, q.handler \in OfRows \ Lists, NEW ids \in SUBSET Search(q)
    PROVE  Fit(q, <<Look(ids)>>) /\ Fit(q, <<>>)
<1> DEFINE e == Look(ids)
<1>1. ids \in SUBSET Ids BY DEF Search
<1>2. e \in Ops /\ e.op = "look" /\ e.ids = ids BY <1>1, ListOps
<1> HIDE DEF e
<1>3. ~Writing(e) BY <1>2 DEF Writing
<1>4. FitsOne(q, e) BY <1>2, <1>3 DEF FitsOne
<1>5. <<e>> \in Seq(Ops) /\ \A i \in 1..Len(<<e>>) : <<e>>[i] = e BY <1>2
<1>6. Fit(q, <<e>>) BY <1>3, <1>4, <1>5 DEF Fit
<1>7. <<>> \in Seq(Ops) /\ \A i \in 1..Len(<<>>) : FALSE OBVIOUS
<1>8. Fit(q, <<>>) BY <1>7 DEF Fit
<1>9. QED BY <1>6, <1>8 DEF e

\* What is left of a list.
LEMMA ListIsAt ==
    ASSUME NEW q, NEW s, Fit(q, s), q.handler \in Lists, s # <<>>
    PROVE  \/ Head(s).op = "count" /\ Tail(s) = <<[op |-> "page"]>>
           \/ Head(s).op = "page" /\ s = <<[op |-> "page"]>> /\ Tail(s) = <<>>
<1>1. s \in {List, <<[op |-> "page"]>>} BY DEF Fit
<1>2. Head(List).op = "count" /\ Tail(List) = <<[op |-> "page"]>> BY DEF List
<1>3. Head(<<[op |-> "page"]>>).op = "page" /\ Tail(<<[op |-> "page"]>>) = <<>> OBVIOUS
<1>4. QED BY <1>1, <1>2, <1>3

LEMMA RowsAreFinite ==
    ASSUME NEW p
    PROVE  IsFiniteSet(Found(p)) /\ Cardinality(Found(p)) \in Nat
<1>1. Found(p) \in SUBSET Ids BY DEF Found, Search
<1>2. QED BY <1>1, PackageRestAssumption, FS_Subset, FS_CardinalityType

\* A call that is not of a list: only what it selects matters to Listing.
LEMMA NoListing ==
    ASSUME NEW p \in PkgCalls, Listing(p), at[p] = "run", at'[p] = "run", task'[p] = task[p],
           task[p].handler \notin Lists, items'[p] = items[p]
    PROVE  Listing(p)'
BY DEF Listing

\* The row is read first.
LEMMA ReadRowStep ==
    ASSUME PkgInv, NEW p \in PkgCalls, ReadRow(p), row' = row
    PROVE  PkgInv'
<1>1. Doing(p, "row") BY DEF ReadRow
<1>2. /\ at[p] = "run" /\ Head(todo[p]).op = "row" /\ Fit(task[p], Tail(todo[p]))
      /\ FitsOne(task[p], Head(todo[p])) /\ Running(p)
      /\ PartsOf(todo[p]) = PartsOf(Tail(todo[p]))
           \cup (IF Writing(Head(todo[p])) THEN {Head(todo[p]).part} ELSE {})
  BY <1>1, DoingIs
<1>3. UNCHANGED <<task, said, total, items, moved>> BY DEF ReadRow
<1>4. CASE row[task[p].id] = 0
  <2>1. Reply(p, 404) /\ Rolled(p) BY <1>4 DEF ReadRow
  <2>2. 404 \in {400, 404, 500} OBVIOUS
  <2>3. QED BY <1>2, <1>3, <2>1, <2>2, FailStep
<1>5. CASE row[task[p].id] # 0
  <2>1. Onward(p) /\ UNCHANGED <<reply, at, mine, part, kept, took, unsure>> BY <1>5 DEF ReadRow
  <2>2. PkgTypes BY DEF PkgInv
  <2>3. /\ todo'[p] = Tail(todo[p]) /\ DOMAIN todo' = PkgCalls
        /\ \A o \in PkgCalls \ {p} : todo'[o] = todo[o]
    BY <2>1, <2>2 DEF Onward, PkgTypes
  <2>4. ~Writing(Head(todo[p])) BY <1>2 DEF Writing
  <2>5. PartsOf(todo'[p]) = PartsOf(todo[p]) BY <1>2, <2>3, <2>4
  <2>6. task[p].handler \notin Lists BY <1>2 DEF FitsOne
  <2>7. Listing(p)' BY <1>2, <1>3, <2>1, <2>6, NoListing DEF PkgInv, ListsInv
  <2>8. /\ DOMAIN said[p] # {} => PartsOf(todo[p]) = {}
        /\ \A x \in DOMAIN mine[p] : x \in DOMAIN said[p] => said[p][x] = p
    BY <1>2 DEF Running
  <2>9. /\ DOMAIN said' = PkgCalls /\ DOMAIN items' = PkgCalls /\ total' \in [PkgCalls -> Nat]
    BY <1>3, <2>2 DEF PkgTypes
  <2>10. QED BY <1>2, <1>3, <2>1, <2>3, <2>5, <2>7, <2>8, <2>9, GoesOn
<1>6. QED BY <1>4, <1>5

\* A part is read: a call that has set it reads its own value back.
LEMMA ReadPartStep ==
    ASSUME PkgInv, NEW p \in PkgCalls, ReadPart(p), row' = row
    PROVE  PkgInv'
<1> DEFINE x == Cell(p)
           v == Now(x, p)
           n == Head(todo[p]).none
<1>1. Doing(p, "read") BY DEF ReadPart
<1>2. /\ at[p] = "run" /\ todo[p] # <<>> /\ Head(todo[p]).op = "read"
      /\ Fit(task[p], todo[p]) /\ Fit(task[p], Tail(todo[p]))
      /\ FitsOne(task[p], Head(todo[p])) /\ Running(p)
      /\ PartsOf(todo[p]) = PartsOf(Tail(todo[p]))
           \cup (IF Writing(Head(todo[p])) THEN {Head(todo[p]).part} ELSE {})
  BY <1>1, DoingIs
<1>3. UNCHANGED <<task, total, items, moved>> BY DEF ReadPart
<1>4. CASE v = None /\ n # 0
  <2>1. Reply(p, n) /\ Rolled(p) /\ UNCHANGED said BY <1>4 DEF ReadPart
  <2>2. n \in {0, 400, 404, 500} BY <1>2 DEF FitsOne
  <2>3. n \in {400, 404, 500} BY <1>4, <2>2
  <2> HIDE DEF n
  <2>4. QED BY <1>2, <1>3, <2>1, <2>3, FailStep
<1>5. CASE ~(v = None /\ n # 0)
  <2>1. /\ said' = [said EXCEPT ![p] = Put(@, x, v)] /\ Onward(p)
        /\ UNCHANGED <<reply, at, mine, part, kept, took, unsure>>
    BY <1>5 DEF ReadPart
  <2> HIDE DEF n
  <2>2. PkgTypes BY DEF PkgInv
  <2>3. /\ todo'[p] = Tail(todo[p]) /\ DOMAIN todo' = PkgCalls
        /\ \A o \in PkgCalls \ {p} : todo'[o] = todo[o]
    BY <2>1, <2>2 DEF Onward, PkgTypes
  <2>4. /\ said'[p] = Put(said[p], x, v) /\ DOMAIN said' = PkgCalls
        /\ \A o \in PkgCalls \ {p} : said'[o] = said[o]
    BY <2>1, <2>2 DEF PkgTypes
  <2>5. PartsOf(todo[p]) = {} /\ PartsOf(todo'[p]) = {} BY <1>2, <2>3, ReadsAreLast
  <2>6. task[p].handler \notin Lists BY <1>2 DEF FitsOne
  <2>7. Listing(p)' BY <1>2, <1>3, <2>1, <2>6, NoListing DEF PkgInv, ListsInv
  <2>8. ASSUME NEW y \in DOMAIN mine[p], y \in DOMAIN said'[p] PROVE said'[p][y] = p
    <3>1. CASE y = x
      <4>1. said'[p][y] = mine[p][y] BY <2>4, <2>8, <3>1 DEF Put, Now
      <4>2. ToChange(task[p]) # {} BY <1>2, <2>8 DEF Running
      <4>3. task[p].handler \in Setters BY <1>2, <4>2 DEF FitsOne, Setters
      <4>4. QED BY <1>2, <2>8, <4>1, <4>3 DEF Running
    <3>2. CASE y # x
      <4>1. y \in DOMAIN said[p] /\ said'[p][y] = said[p][y] BY <2>4, <2>8, <3>2 DEF Put
      <4>2. QED BY <1>2, <2>8, <4>1 DEF Running
    <3>3. QED BY <3>1, <3>2
  <2>9. DOMAIN items' = PkgCalls /\ total' \in [PkgCalls -> Nat] BY <1>3, <2>2 DEF PkgTypes
  <2>10. QED BY <1>2, <1>3, <2>1, <2>3, <2>4, <2>5, <2>7, <2>8, <2>9, GoesOn
<1>6. QED BY <1>4, <1>5

\* The rows are counted: until one comes or goes, the page is of that many.
LEMMA CountRowsStep ==
    ASSUME PkgInv, NEW p \in PkgCalls, CountRows(p), row' = row
    PROVE  PkgInv'
<1>1. Doing(p, "count") BY DEF CountRows
<1>2. /\ at[p] = "run" /\ todo[p] # <<>> /\ Head(todo[p]).op = "count"
      /\ Fit(task[p], todo[p]) /\ Fit(task[p], Tail(todo[p]))
      /\ FitsOne(task[p], Head(todo[p])) /\ Running(p)
      /\ PartsOf(todo[p]) = PartsOf(Tail(todo[p]))
           \cup (IF Writing(Head(todo[p])) THEN {Head(todo[p]).part} ELSE {})
  BY <1>1, DoingIs
<1>3. /\ total' = [total EXCEPT ![p] = Cardinality(Found(p))] /\ Onward(p)
      /\ UNCHANGED <<task, at, part, mine, said, items, reply, kept, took, unsure, moved>>
  BY DEF CountRows, Found
<1>4. PkgTypes BY DEF PkgInv
<1>5. /\ todo'[p] = Tail(todo[p]) /\ DOMAIN todo' = PkgCalls
      /\ \A o \in PkgCalls \ {p} : todo'[o] = todo[o]
  BY <1>3, <1>4 DEF Onward, PkgTypes
<1>6. Cardinality(Found(p)) \in Nat BY RowsAreFinite
<1>7. /\ total'[p] = Cardinality(Found(p)) /\ total' \in [PkgCalls -> Nat]
      /\ \A o \in PkgCalls \ {p} : total'[o] = total[o]
  BY <1>3, <1>4, <1>6 DEF PkgTypes
<1>8. ~Writing(Head(todo[p])) BY <1>2 DEF Writing
<1>9. PartsOf(todo'[p]) = PartsOf(todo[p]) BY <1>2, <1>5, <1>8
<1>10. task[p].handler \in Lists BY <1>2 DEF FitsOne
<1>11. todo'[p] = <<[op |-> "page"]>> BY <1>2, <1>5, <1>10, ListIsAt
<1>12. Found(p)' = Found(p) BY <1>3 DEF Found
<1>13. <<[op |-> "page"]>> # <<>> OBVIOUS
<1>14. Listing(p)' BY <1>2, <1>3, <1>7, <1>11, <1>12, <1>13 DEF PkgInv, ListsInv, Listing
<1>15. /\ DOMAIN said[p] # {} => PartsOf(todo[p]) = {}
       /\ \A x \in DOMAIN mine[p] : x \in DOMAIN said[p] => said[p][x] = p
  BY <1>2 DEF Running
<1>16. DOMAIN said' = PkgCalls /\ DOMAIN items' = PkgCalls BY <1>3, <1>4 DEF PkgTypes
<1>17. QED BY <1>2, <1>3, <1>5, <1>7, <1>9, <1>14, <1>15, <1>16, GoesOn

\* A page is read, of the rows there then are.
LEMMA ListRowsStep ==
    ASSUME PkgInv, NEW p \in PkgCalls, ListRows(p), row' = row
    PROVE  PkgInv'
<1>1. Doing(p, "page") BY DEF ListRows
<1>2. /\ at[p] = "run" /\ todo[p] # <<>> /\ Head(todo[p]).op = "page"
      /\ Fit(task[p], todo[p]) /\ Fit(task[p], Tail(todo[p]))
      /\ FitsOne(task[p], Head(todo[p])) /\ Running(p)
      /\ PartsOf(todo[p]) = PartsOf(Tail(todo[p]))
           \cup (IF Writing(Head(todo[p])) THEN {Head(todo[p]).part} ELSE {})
  BY <1>1, DoingIs
<1>3. PICK page \in kSubset(PageLen(task[p], Cardinality(Found(p))), Found(p)) :
        items' = [items EXCEPT ![p] = page]
  BY DEF ListRows, Found
<1>4. /\ Onward(p)
      /\ UNCHANGED <<task, at, part, mine, said, total, reply, kept, took, unsure, moved>>
  BY DEF ListRows
<1>5. page \subseteq Found(p) /\ Cardinality(page) = PageLen(task[p], Cardinality(Found(p)))
  BY DEF kSubset
<1>6. PkgTypes BY DEF PkgInv
<1>7. /\ todo'[p] = Tail(todo[p]) /\ DOMAIN todo' = PkgCalls
      /\ \A o \in PkgCalls \ {p} : todo'[o] = todo[o]
  BY <1>4, <1>6 DEF Onward, PkgTypes
<1>8. /\ items'[p] = page /\ DOMAIN items' = PkgCalls
      /\ \A o \in PkgCalls \ {p} : items'[o] = items[o]
  BY <1>3, <1>6 DEF PkgTypes
<1>9. ~Writing(Head(todo[p])) BY <1>2 DEF Writing
<1>10. PartsOf(todo'[p]) = PartsOf(todo[p]) BY <1>2, <1>7, <1>9
<1>11. task[p].handler \in OfRows BY <1>2 DEF FitsOne
<1>12. page \subseteq Search(task[p]) BY <1>5 DEF Found
<1>13. Listing(p)'
  <2>1. CASE task[p].handler \notin Lists BY <1>4, <1>8, <1>11, <1>12, <2>1 DEF Listing
  <2>2. CASE task[p].handler \in Lists
    <3>1. todo[p] = <<[op |-> "page"]>> /\ todo'[p] = <<>> BY <1>2, <1>7, <2>2, ListIsAt
    <3>2. ~moved[p] => total[p] = Cardinality(Found(p))
      BY <1>2, <2>2, <3>1 DEF PkgInv, ListsInv, Listing
    <3>3. Cardinality(Found(p)) \in Nat BY RowsAreFinite
    <3>4. PageIs(p)' BY <1>4, <1>5, <1>8, <3>2, <3>3 DEF PageIs
    <3>5. <<[op |-> "page"]>> # <<>> OBVIOUS
    <3>6. QED BY <1>2, <1>4, <1>8, <1>11, <1>12, <3>1, <3>4, <3>5 DEF Listing
  <2>3. QED BY <2>1, <2>2
<1>14. /\ DOMAIN said[p] # {} => PartsOf(todo[p]) = {}
       /\ \A x \in DOMAIN mine[p] : x \in DOMAIN said[p] => said[p][x] = p
  BY <1>2 DEF Running
<1>15. DOMAIN said' = PkgCalls /\ total' \in [PkgCalls -> Nat] BY <1>4, <1>6 DEF PkgTypes
<1>16. QED BY <1>2, <1>4, <1>7, <1>8, <1>10, <1>13, <1>14, <1>15, GoesOn

\* Objects are notified, or looked at, that were asked for.
LEMMA NotedStep ==
    ASSUME PkgInv, NEW p \in PkgCalls, at[p] = "run", todo[p] # <<>>,
           Head(todo[p]).op \in {"notes", "look"}, row' = row,
           NEW ids \in SUBSET Search(task[p]),
           todo' = [todo EXCEPT ![p] = IF ids = {} THEN <<>> ELSE <<Look(ids)>>],
           DOMAIN items' = PkgCalls, \A o \in PkgCalls \ {p} : items'[o] = items[o],
           items'[p] \subseteq Search(task[p]),
           UNCHANGED <<task, at, part, mine, said, total, reply, kept, took, unsure, moved>>
    PROVE  PkgInv'
<1>1. Doing(p, Head(todo[p]).op) BY DEF Doing
<1>2. Fit(task[p], todo[p]) /\ FitsOne(task[p], Head(todo[p])) /\ Running(p) BY <1>1, DoingIs
<1>3. task[p].handler \in OfRows \ Lists BY <1>2 DEF FitsOne
<1>4. ToChange(task[p]) = {} BY <1>3 DEF OfRows, Lists, ToChange
<1>5. Fit(task[p], <<Look(ids)>>) /\ Fit(task[p], <<>>) BY <1>3, LooksFit
<1>6. PkgTypes BY DEF PkgInv
<1>7. /\ todo'[p] \in {<<>>, <<Look(ids)>>} /\ DOMAIN todo' = PkgCalls
      /\ \A o \in PkgCalls \ {p} : todo'[o] = todo[o]
  BY <1>6 DEF PkgTypes
<1>8. Fit(task[p], todo'[p]) BY <1>5, <1>7
<1>9. PartsOf(todo[p]) = {} /\ PartsOf(todo'[p]) = {} BY <1>2, <1>4, <1>8, NothingToWrite
<1>10. Listing(p)' BY <1>3 DEF Listing
<1>11. \A x \in DOMAIN mine[p] : x \in DOMAIN said[p] => said[p][x] = p BY <1>2 DEF Running
<1>12. DOMAIN said' = PkgCalls /\ total' \in [PkgCalls -> Nat] BY <1>6 DEF PkgTypes
<1>13. QED BY <1>7, <1>8, <1>9, <1>10, <1>11, <1>12, GoesOn

LEMMA ReadNotesStep ==
    ASSUME PkgInv, NEW p \in PkgCalls, ReadNotes(p), row' = row
    PROVE  PkgInv'
<1>1. at[p] = "run" /\ todo[p] # <<>> /\ Head(todo[p]).op = "notes" BY DEF ReadNotes, Doing
<1>2. PICK ids \in SUBSET Search(task[p]) :
        todo' = [todo EXCEPT ![p] = IF ids = {} THEN <<>> ELSE <<Look(ids)>>]
  BY DEF ReadNotes
<1>3. UNCHANGED <<task, at, part, mine, said, total, items, reply, kept, took, unsure, moved>>
  BY DEF ReadNotes
<1>4. DOMAIN items = PkgCalls /\ items[p] \subseteq Search(task[p])
  BY <1>1 DEF PkgInv, PkgTypes, ListsInv, Listing
<1>5. QED BY <1>1, <1>2, <1>3, <1>4, NotedStep

LEMMA LookAtStep ==
    ASSUME PkgInv, NEW p \in PkgCalls, LookAt(p), row' = row
    PROVE  PkgInv'
<1> DEFINE ids == Head(todo[p]).ids
<1>1. Doing(p, "look") BY DEF LookAt
<1>2. /\ at[p] = "run" /\ todo[p] # <<>> /\ Head(todo[p]).op = "look"
      /\ FitsOne(task[p], Head(todo[p]))
  BY <1>1, DoingIs
<1>3. ids \subseteq Search(task[p]) BY <1>2 DEF FitsOne
<1>4. PICK id \in ids :
        /\ items' = [items EXCEPT ![p] = IF row[id] = 0 THEN @ ELSE @ \cup {id}]
        /\ todo' = [todo EXCEPT ![p] = IF ids = {id} THEN <<>> ELSE <<Look(ids \ {id})>>]
  BY DEF LookAt
<1>5. UNCHANGED <<task, at, part, mine, said, total, reply, kept, took, unsure, moved>>
  BY DEF LookAt
<1> HIDE DEF ids
<1> DEFINE rest == ids \ {id}
<1>6. rest \in SUBSET Search(task[p]) /\ (rest = {} <=> ids = {id}) BY <1>3
<1>7. todo' = [todo EXCEPT ![p] = IF rest = {} THEN <<>> ELSE <<Look(rest)>>] BY <1>4, <1>6
<1>8. DOMAIN items = PkgCalls /\ items[p] \subseteq Search(task[p])
  BY <1>2 DEF PkgInv, PkgTypes, ListsInv, Listing
<1>9. /\ DOMAIN items' = PkgCalls /\ \A o \in PkgCalls \ {p} : items'[o] = items[o]
      /\ items'[p] \subseteq items[p] \cup {id}
  BY <1>4, <1>8
<1>10. items'[p] \subseteq Search(task[p]) BY <1>3, <1>8, <1>9
<1> HIDE DEF rest
<1>11. QED BY <1>2, <1>5, <1>6, <1>7, <1>9, <1>10, NotedStep

\* Ranks start at 0.
LEMMA RankIsNat == \A x : Rank(x) \in 0..3
BY DEF Rank

\* A part is written that nobody holds: the order of ranks is kept.
LEMMA WritePartStep ==
    ASSUME PkgInv, NEW p \in PkgCalls, WritePart(p), row' = row
    PROVE  PkgInv'
<1> DEFINE q == task[p]
           e == Head(todo[p])
           x == Cell(p)
           v == IF e.op = "write" THEN p ELSE None
<1>1. Doing(p, e.op) /\ e.op \in {"write", "clear"} BY DEF WritePart, Doing
<1>2. /\ at[p] = "run" /\ todo[p] # <<>> /\ q \in PkgMenu
      /\ Fit(q, todo[p]) /\ Fit(q, Tail(todo[p])) /\ FitsOne(q, e) /\ Running(p)
      /\ PartsOf(todo[p]) = PartsOf(Tail(todo[p])) \cup (IF Writing(e) THEN {e.part} ELSE {})
  BY <1>1, DoingIs
<1>3. /\ ~Held(x, p) /\ Onward(p) /\ mine' = [mine EXCEPT ![p] = Put(@, x, v)]
      /\ UNCHANGED <<task, at, part, said, total, items, reply, kept, took, unsure, moved>>
  BY DEF WritePart
<1>4. x = <<Owner(q), e.part>> BY DEF Cell
<1>5. Writing(e) BY <1>1 DEF Writing
<1>6. /\ e.part \in ToChange(q) /\ q.handler \notin Takers
      /\ q.handler \in Setters => v = p
      /\ q.handler \notin OfRows
  <2>1. e.part \in ToChange(q) /\ q.handler \notin Takers /\ (q.handler \in Setters => e.op = "write")
    BY <1>1, <1>2, <1>5 DEF FitsOne
  <2>2. q.handler \in OfRows => ToChange(q) = {} BY DEF OfRows, Lists, ToChange
  <2>3. QED BY <2>1, <2>2
<1>7. v \in {p, None} OBVIOUS
<1>8. \A z \in PartsOf(Tail(todo[p])) : Rank(e.part) < Rank(z) BY <1>2, <1>5, WritesInOrder
<1> HIDE DEF e, x, v
<1>9. PkgTypes BY DEF PkgInv
<1>10. PkgTypes' BY <1>3, <1>9 DEF PkgTypes, Onward
<1>11. /\ todo'[p] = Tail(todo[p]) /\ mine'[p] = Put(mine[p], x, v)
       /\ \A o \in PkgCalls \ {p} : todo'[o] = todo[o] /\ mine'[o] = mine[o]
  BY <1>3, <1>9 DEF PkgTypes, Onward
<1>12. /\ DOMAIN mine'[p] = DOMAIN mine[p] \cup {x} /\ mine'[p][x] = v
       /\ \A y \in DOMAIN mine[p] : y # x => mine'[p][y] = mine[p][y]
  BY <1>11 DEF Put
<1>13. PartsOf(todo[p]) = PartsOf(Tail(todo[p])) \cup {e.part} BY <1>2, <1>5
<1>14. DOMAIN said[p] = {} /\ took[p] = None BY <1>2, <1>6, <1>13 DEF Running
<1>15. Running(p)'
  <2>1. q \in PkgMenu /\ ~Refuses(q) /\ kept[p] = {} BY <1>2 DEF Running
  <2>2. DOMAIN mine'[p] \subseteq {Owner(q)} \X ToChange(q) BY <1>2, <1>4, <1>6, <1>12 DEF Running
  <2>3. \A y \in ToChange(q) : <<Owner(q), y>> \in DOMAIN mine'[p] \/ y \in PartsOf(todo'[p])
    BY <1>2, <1>4, <1>11, <1>12, <1>13 DEF Running
  <2>4. ASSUME NEW y \in ToChange(q), <<Owner(q), y>> \in DOMAIN mine'[p], NEW z \in PartsOf(todo'[p])
        PROVE  Rank(y) < Rank(z)
    <3>1. z \in PartsOf(Tail(todo[p])) /\ z \in PartsOf(todo[p]) BY <1>11, <1>13, <2>4
    <3>2. CASE <<Owner(q), y>> \in DOMAIN mine[p] BY <1>2, <3>1, <3>2 DEF Running
    <3>3. CASE <<Owner(q), y>> = x BY <1>4, <1>8, <3>1, <3>3
    <3>4. QED BY <1>12, <2>4, <3>2, <3>3
  <2>5. ASSUME NEW y \in DOMAIN mine'[p]
        PROVE  /\ mine'[p][y] \in {p, None}
               /\ q.handler \in Setters => mine'[p][y] = p
    BY <1>2, <1>6, <1>7, <1>12 DEF Running
  <2> HIDE DEF q
  <2>6. QED BY <1>2, <1>3, <1>6, <1>11, <1>14, <2>1, <2>2, <2>3, <2>4, <2>5 DEF Running, q
<1>16. Fresh(p)' /\ Finished(p)' BY <1>2, <1>3 DEF Fresh, Finished
<1>17. Listing(p)'
  <2>1. q.handler \notin Lists BY <1>6 DEF OfRows
  <2>2. QED BY <1>2, <1>3, <2>1, NoListing DEF PkgInv, ListsInv
<1>18. \A o \in PkgCalls \ {p} : Same(o) BY <1>3, <1>11 DEF Same, Still
<1>19. CallsInv' /\ ListsInv' BY <1>15, <1>16, <1>17, <1>18, OthersStay DEF PkgInv
<1>20. PartInv'
  <2>1. \A o \in PkgCalls \ {p} : x \notin DOMAIN mine[o] BY <1>3 DEF Held
  <2>2. \A o, r \in PkgCalls : o # r => DOMAIN mine'[o] \cap DOMAIN mine'[r] = {}
    BY <1>11, <1>12, <2>1 DEF PkgInv, PartInv
  <2>3. \A o \in PkgCalls : took'[o] # None =>
          /\ took'[o] \in PkgCalls => at'[took'[o]] = "done"
          /\ at'[o] = "run" => \A y \in DOMAIN mine'[o] : part'[y] = took'[o]
          /\ at'[o] = "done" => \A y \in kept'[o] : part'[y] # took'[o]
    BY <1>3, <1>11, <1>14 DEF PkgInv, PartInv
  <2>4. QED BY <1>3, <2>2, <2>3 DEF PkgInv, PartInv, IptablesAreWhole
<1>21. QED BY <1>10, <1>19, <1>20 DEF PkgInv

\* A part is deleted or spent: nobody holds it, and it is there as committed.
LEMMA TakePartStep ==
    ASSUME PkgInv, NEW p \in PkgCalls, TakePart(p), row' = row
    PROVE  PkgInv'
<1> DEFINE q == task[p]
           e == Head(todo[p])
           x == Cell(p)
           n == e.none
<1>1. Doing(p, "take") BY DEF TakePart
<1>2. /\ at[p] = "run" /\ todo[p] # <<>> /\ e.op = "take" /\ q \in PkgMenu
      /\ Fit(q, todo[p]) /\ Fit(q, Tail(todo[p])) /\ FitsOne(q, e) /\ Running(p)
      /\ PartsOf(todo[p]) = PartsOf(Tail(todo[p])) \cup (IF Writing(e) THEN {e.part} ELSE {})
  BY <1>1, DoingIs
<1>3. ~Held(x, p) /\ UNCHANGED <<task, said, total, items, moved>> BY DEF TakePart
<1>4. x = <<Owner(q), e.part>> BY DEF Cell
<1>5. Writing(e) BY <1>2 DEF Writing
<1>6. e.part \in ToChange(q) /\ q.handler \in Takers /\ TakesFirst(e)
  BY <1>2, <1>5 DEF FitsOne
<1>7. CASE NothingThere(x, p)
  <2>1. Reply(p, n) /\ Rolled(p) BY <1>7 DEF TakePart
  <2>2. n \in {400, 404, 500} BY <1>6 DEF TakesFirst
  <2> HIDE DEF n
  <2>3. QED BY <1>2, <1>3, <2>1, <2>2, FailStep
<1>8. CASE ~NothingThere(x, p)
  <2>1. /\ took' = [took EXCEPT ![p] = Now(x, p)] /\ mine' = [mine EXCEPT ![p] = Put(@, x, None)]
        /\ Onward(p) /\ UNCHANGED <<reply, at, part, kept, unsure>>
    BY <1>8 DEF TakePart
  <2>2. \A z \in PartsOf(Tail(todo[p])) : Rank(e.part) < Rank(z) BY <1>2, <1>5, WritesInOrder
  <2>3. PartsOf(todo[p]) = PartsOf(Tail(todo[p])) \cup {e.part} BY <1>2, <1>5
  <2>4. DOMAIN mine[p] = {}
    <3>1. Rank(e.part) = 0 BY <1>6 DEF TakesFirst
    <3>2. \A y : ~(Rank(y) < Rank(e.part)) BY <3>1, RankIsNat
    <3>3. \A y \in DOMAIN mine[p] : \E z \in ToChange(q) : y = <<Owner(q), z>> BY <1>2 DEF Running
    <3>4. \A z \in ToChange(q) : <<Owner(q), z>> \notin DOMAIN mine[p]
      BY <1>2, <2>3, <3>2 DEF Running
    <3>5. QED BY <3>3, <3>4
  <2> HIDE DEF n, e, x
  <2>5. Now(x, p) = part[x] /\ part[x] # None BY <1>8, <2>4 DEF Now, NothingThere
  <2>6. q.handler \notin Setters /\ q.handler \notin Lists BY <1>6 DEF Takers, Setters, Lists
  <2>7. PkgTypes BY DEF PkgInv
  <2>8. PkgTypes' BY <1>3, <2>1, <2>7 DEF PkgTypes, Onward
  <2>9. /\ todo'[p] = Tail(todo[p]) /\ mine'[p] = Put(mine[p], x, None) /\ took'[p] = part[x]
        /\ \A o \in PkgCalls \ {p} : todo'[o] = todo[o] /\ mine'[o] = mine[o] /\ took'[o] = took[o]
    BY <2>1, <2>5, <2>7 DEF PkgTypes, Onward
  <2>10. DOMAIN mine'[p] = {x} /\ mine'[p][x] = None BY <2>4, <2>9 DEF Put
  <2>11. DOMAIN said[p] = {} BY <1>2, <2>3 DEF Running
  <2>12. Running(p)'
    <3>1. q \in PkgMenu /\ ~Refuses(q) /\ kept[p] = {} BY <1>2 DEF Running
    <3>2. DOMAIN mine'[p] \subseteq {Owner(q)} \X ToChange(q) BY <1>4, <1>6, <2>10
    <3>3. \A y \in ToChange(q) : <<Owner(q), y>> \in DOMAIN mine'[p] \/ y \in PartsOf(todo'[p])
      BY <1>2, <1>4, <2>3, <2>4, <2>9, <2>10 DEF Running
    <3>4. \A y \in ToChange(q) : <<Owner(q), y>> \in DOMAIN mine'[p] =>
            \A z \in PartsOf(todo'[p]) : Rank(y) < Rank(z)
      BY <1>4, <2>2, <2>9, <2>10
    <3> HIDE DEF q
    <3>5. QED BY <1>2, <1>3, <1>6, <2>1, <2>5, <2>6, <2>9, <2>10, <2>11, <3>1, <3>2, <3>3, <3>4
          DEF Running, q
  <2>13. Fresh(p)' /\ Finished(p)' BY <1>2, <2>1 DEF Fresh, Finished
  <2>14. Listing(p)' BY <1>2, <1>3, <2>1, <2>6, NoListing DEF PkgInv, ListsInv
  <2>15. \A o \in PkgCalls \ {p} : Same(o) BY <1>3, <2>1, <2>9 DEF Same, Still
  <2>16. CallsInv' /\ ListsInv' BY <2>12, <2>13, <2>14, <2>15, OthersStay DEF PkgInv
  <2>17. PartInv'
    <3>1. \A o \in PkgCalls \ {p} : x \notin DOMAIN mine[o] BY <1>3 DEF Held
    <3>2. \A o, r \in PkgCalls : o # r => DOMAIN mine'[o] \cap DOMAIN mine'[r] = {}
      BY <2>9, <2>10, <3>1 DEF PkgInv, PartInv
    <3>3. x \in Cells BY <1>2, <1>4, <1>6, ChangesAreCells
    <3>4. took'[p] \in PkgCalls => at[took'[p]] = "done" BY <2>9, <3>3 DEF PkgInv, PartInv
    <3>5. \A o \in PkgCalls : took'[o] # None =>
            /\ took'[o] \in PkgCalls => at'[took'[o]] = "done"
            /\ at'[o] = "run" => \A y \in DOMAIN mine'[o] : part'[y] = took'[o]
            /\ at'[o] = "done" => \A y \in kept'[o] : part'[y] # took'[o]
      BY <1>2, <2>1, <2>9, <2>10, <3>4 DEF PkgInv, PartInv
    <3>6. \A o, r \in PkgCalls :
            o # r /\ at'[o] = "done" /\ at'[r] = "done" /\ took'[o] # None /\ took'[o] = took'[r]
              => kept'[o] \cap kept'[r] = {}
      BY <1>2, <2>1, <2>9 DEF PkgInv, PartInv
    <3>7. QED BY <2>1, <3>2, <3>5, <3>6 DEF PkgInv, PartInv, IptablesAreWhole
  <2>18. QED BY <2>8, <2>16, <2>17 DEF PkgInv
<1>9. QED BY <1>7, <1>8

LEMMA SuccessIsNoProblem == \A n \in 200..299 : ~(n >= 400)
OBVIOUS

\* The transaction is durable, and the call told so or not: what it wrote is
\* everything it was to write, and nobody else's.
LEMMA CommitStep ==
    ASSUME PkgInv, NEW p \in PkgCalls, at[p] = "run", todo[p] = <<>>, NEW n \in Nat,
           Reply(p, n), part' = [x \in Cells |-> Now(x, p)],
           kept' = [kept EXCEPT ![p] = DOMAIN mine[p]],
           unsure' \in [PkgCalls -> BOOLEAN],
           \A o \in PkgCalls \ {p} : unsure'[o] = unsure[o],
           n \in 200..299 \/ (n = 500 /\ unsure'[p]),
           UNCHANGED <<took, task, said, total, items, moved, row>>
    PROVE  PkgInv'
<1> DEFINE q == task[p]
           K == {Owner(q)} \X ToChange(q)
<1>1. /\ reply' = [reply EXCEPT ![p] = n] /\ at' = [at EXCEPT ![p] = "done"]
      /\ todo' = [todo EXCEPT ![p] = <<>>] /\ mine' = [mine EXCEPT ![p] = NoCells]
  BY DEF Reply
<1>2. PkgTypes BY DEF PkgInv
<1>3. Running(p) BY DEF PkgInv, CallsInv
<1>4. q \in PkgMenu /\ ~Refuses(q) BY <1>3 DEF Running
<1>5. DOMAIN mine[p] = K
  <2>1. \A y \in ToChange(q) : <<Owner(q), y>> \in DOMAIN mine[p] BY <1>3, NothingLeft DEF Running
  <2>2. DOMAIN mine[p] \subseteq K BY <1>3 DEF Running
  <2>3. QED BY <2>1, <2>2
<1>6. \A y \in K :
        /\ y \in Cells /\ mine[p][y] \in {p, None}
        /\ q.handler \in Setters => mine[p][y] = p
        /\ y \in DOMAIN said[p] => said[p][y] = p
        /\ q.handler \in Takers => took[p] # None /\ mine[p][y] = None
  <2>1. \A y \in K : y \in Cells BY <1>4, ChangesAreCells
  <2>2. QED BY <1>3, <1>5, <2>1 DEF Running
<1>7. /\ took[p] # None => q.handler \in Takers /\ K # {}
      /\ q.handler \in Takers => took[p] # None
  <2>1. took[p] # None => q.handler \in Takers /\ K # {} BY <1>3, <1>5 DEF Running
  <2>2. ASSUME q.handler \in Takers PROVE took[p] # None
    <3>1. ToChange(q) # {} BY <2>2 DEF Takers, ToChange
    <3>2. PICK y \in ToChange(q) : TRUE BY <3>1
    <3>3. <<Owner(q), y>> \in K BY <3>2
    <3>4. QED BY <1>6, <2>2, <3>3
  <2>3. QED BY <2>1, <2>2
<1>8. /\ \A x \in K : part'[x] = mine[p][x]
      /\ \A x \in Cells \ K : part'[x] = part[x]
  BY <1>5, <1>6 DEF Now
<1>9. PkgTypes' BY <1>1, <1>2 DEF PkgTypes
<1>10. /\ at'[p] = "done" /\ reply'[p] = n /\ DOMAIN mine'[p] = {} /\ kept'[p] = K
       /\ \A o \in PkgCalls \ {p} : /\ at'[o] = at[o] /\ reply'[o] = reply[o] /\ mine'[o] = mine[o]
                                    /\ todo'[o] = todo[o] /\ kept'[o] = kept[o]
  BY <1>1, <1>2, <1>5 DEF PkgTypes, NoCells
<1>11. \A o \in PkgCalls \ {p} : Same(o) BY <1>10 DEF Same, Still
<1>12. Fresh(p)' /\ Running(p)' BY <1>10 DEF Fresh, Running
<1>13. n \in 200..299 => ~(n >= 400) BY SuccessIsNoProblem, Zenon
<1>14. Finished(p)'
  <2>1. kept'[p] = {Owner(task'[p])} \X ToChange(task'[p]) BY <1>10
  <2>2. \A x \in kept'[p] \cap DOMAIN said'[p] : said'[p][x] = p BY <1>6, <1>10
  <2>3. took'[p] # None => task'[p].handler \in Takers /\ kept'[p] # {} BY <1>7, <1>10
  <2>4. task'[p].handler \in Takers => took'[p] # None BY <1>7
  <2>5. task'[p] \in PkgMenu /\ ~Refuses(task'[p]) BY <1>4
  <2>6. ~(reply'[p] >= 400 /\ ~unsure'[p]) BY <1>10, <1>13
  <2>7. DOMAIN mine'[p] = {} BY <1>10
  <2> HIDE DEF K, q
  <2>8. QED BY <2>1, <2>2, <2>3, <2>4, <2>5, <2>6, <2>7 DEF Finished
<1> HIDE DEF K
<1>15. Listing(p)'
  <2>1. Listing(p) BY DEF PkgInv, ListsInv
  <2>2. PageIs(p)' <=> PageIs(p) BY DEF PageIs
  <2>3. QED BY <1>10, <2>1, <2>2 DEF Listing
<1>16. CallsInv' /\ ListsInv' BY <1>11, <1>12, <1>14, <1>15, OthersStay DEF PkgInv
<1>17. \A o \in PkgCalls : kept[o] \subseteq Cells /\ DOMAIN mine[o] \subseteq Cells
  <2>1. SUFFICES ASSUME NEW o \in PkgCalls PROVE kept[o] \subseteq Cells /\ DOMAIN mine[o] \subseteq Cells
    OBVIOUS
  <2>2. Fresh(o) /\ Running(o) /\ Finished(o) BY DEF PkgInv, CallsInv
  <2>3. CASE at[o] = "new" BY <2>2, <2>3 DEF Fresh
  <2>4. CASE at[o] = "run"
    <3>1. task[o] \in PkgMenu /\ DOMAIN mine[o] \subseteq {Owner(task[o])} \X ToChange(task[o]) /\ kept[o] = {}
      BY <2>2, <2>4 DEF Running
    <3>2. QED BY <3>1, ChangesAreCells
  <2>5. CASE at[o] = "done"
    <3>1. /\ task[o] \in PkgMenu /\ DOMAIN mine[o] = {}
          /\ kept[o] # {} => kept[o] = {Owner(task[o])} \X ToChange(task[o])
      BY <2>2, <2>5 DEF Finished
    <3>2. QED BY <3>1, ChangesAreCells
  <2>6. QED BY <1>2, <2>3, <2>4, <2>5 DEF PkgTypes
<1>18. PartInv'
  <2>1. PartInv BY DEF PkgInv
  <2>2. \A o \in PkgCalls : at[o] = "done" => at'[o] = "done" BY <1>10
  <2>3. \A o, r \in PkgCalls : o # r => DOMAIN mine'[o] \cap DOMAIN mine'[r] = {}
    BY <1>10, <2>1 DEF PartInv
  <2>4. None \notin PkgCalls BY PackageRestAssumption
  <2>5. \A x \in Cells : part'[x] \in PkgCalls => at'[part'[x]] = "done"
    <3>1. SUFFICES ASSUME NEW x \in Cells, part'[x] \in PkgCalls PROVE at'[part'[x]] = "done"
      OBVIOUS
    <3>2. CASE x \in K
      <4>1. part'[x] = mine[p][x] /\ mine[p][x] \in {p, None} BY <1>6, <1>8, <3>2
      <4>2. part'[x] = p BY <2>4, <3>1, <4>1
      <4>3. QED BY <1>10, <4>2
    <3>3. CASE x \notin K BY <1>8, <2>1, <2>2, <3>1, <3>3 DEF PartInv
    <3>4. QED BY <3>2, <3>3
  <2>6. ASSUME NEW o \in PkgCalls, took[o] # None
        PROVE  /\ took[o] \in PkgCalls => at'[took[o]] = "done"
               /\ at'[o] = "run" => \A x \in DOMAIN mine'[o] : part'[x] = took[o]
               /\ at'[o] = "done" => \A x \in kept'[o] : part'[x] # took[o]
    <3>1. took[o] \in PkgCalls => at[took[o]] = "done" BY <2>1, <2>6 DEF PartInv
    <3>2. took[o] # p BY <3>1
    <3>3. CASE o = p
      <4>1. \A x \in kept'[p] : part'[x] = None BY <1>6, <1>7, <1>8, <1>10, <2>6, <3>3, SMTT(30)
      <4>2. QED BY <1>10, <2>2, <2>6, <3>1, <3>3, <4>1
    <3>4. CASE o # p
      <4>1. at'[o] = at[o] /\ mine'[o] = mine[o] /\ kept'[o] = kept[o] BY <1>10, <3>4
      <4>2. ASSUME at[o] = "run", NEW x \in DOMAIN mine[o] PROVE part'[x] = took[o]
        <5>1. x \notin K BY <1>5, <2>1, <3>4, <4>2 DEF PartInv
        <5>2. x \in Cells BY <1>17, <4>2
        <5>3. QED BY <1>8, <2>1, <2>6, <4>2, <5>1, <5>2 DEF PartInv
      <4>3. ASSUME at[o] = "done", NEW x \in kept[o] PROVE part'[x] # took[o]
        <5>1. x \in Cells BY <1>17, <4>3
        <5>2. CASE x \in K BY <1>6, <1>8, <2>6, <3>2, <5>2
        <5>3. CASE x \notin K BY <1>8, <2>1, <2>6, <4>3, <5>1, <5>3 DEF PartInv
        <5>4. QED BY <5>2, <5>3
      <4>4. took[o] \in PkgCalls => at'[took[o]] = "done" BY <2>2, <3>1
      <4>5. at'[o] = "run" => \A x \in DOMAIN mine'[o] : part'[x] = took[o] BY <4>1, <4>2, ZenonT(60)
      <4>6. at'[o] = "done" => \A x \in kept'[o] : part'[x] # took[o] BY <4>1, <4>3
      <4>7. QED BY <4>4, <4>5, <4>6
    <3>5. QED BY <3>3, <3>4
  <2>7. ASSUME NEW o \in PkgCalls \ {p}, at[o] = "done", took[p] # None, took[p] = took[o],
               NEW x \in K, x \in kept[o]
        PROVE  FALSE
    <3>1. part[x] = took[p] BY <1>5, <2>1, <2>7 DEF PartInv
    <3>2. part[x] # took[o] BY <2>1, <2>7 DEF PartInv
    <3>3. QED BY <2>7, <3>1, <3>2
  <2>8. \A o, r \in PkgCalls :
          o # r /\ at'[o] = "done" /\ at'[r] = "done" /\ took[o] # None /\ took[o] = took[r]
            => kept'[o] \cap kept'[r] = {}
    <3>1. SUFFICES ASSUME NEW o \in PkgCalls, NEW r \in PkgCalls, o # r, at'[o] = "done",
                          at'[r] = "done", took[o] # None, took[o] = took[r]
                   PROVE  kept'[o] \cap kept'[r] = {}
      OBVIOUS
    <3>2. CASE o = p
      <4>1. kept'[o] = K /\ kept'[r] = kept[r] /\ at[r] = "done" BY <1>10, <3>1, <3>2
      <4>2. QED BY <2>7, <3>1, <3>2, <4>1
    <3>3. CASE r = p
      <4>1. kept'[r] = K /\ kept'[o] = kept[o] /\ at[o] = "done" BY <1>10, <3>1, <3>3
      <4>2. QED BY <2>7, <3>1, <3>3, <4>1
    <3>4. CASE o # p /\ r # p
      <4>1. /\ kept'[r] = kept[r] /\ kept'[o] = kept[o] /\ at[o] = "done" /\ at[r] = "done"
        BY <1>10, <3>1, <3>4
      <4>2. QED BY <2>1, <3>1, <4>1 DEF PartInv
    <3>5. QED BY <3>2, <3>3, <3>4
  <2>9. ASSUME NEW r \in Rows PROVE part'[<<r, "allow">>] = part'[<<r, "deny">>]
    <3>1. <<r, "allow">> \in Cells /\ <<r, "deny">> \in Cells BY DEF Cells, RowParts
    <3>2. part[<<r, "allow">>] = part[<<r, "deny">>] BY <2>1 DEF PartInv, IptablesAreWhole
    <3>3. CASE ToChange(q) \cap {"allow", "deny"} # {}
      <4>1. q.handler \in Setters /\ ToChange(q) = {"allow", "deny"}
        BY <1>4, <3>3, ListsGoTogether DEF Setters
      <4>2. <<r, "allow">> \in K <=> <<r, "deny">> \in K BY <4>1 DEF K
      <4>3. \A x \in K : part'[x] = p BY <1>6, <1>8, <4>1
      <4>4. QED BY <1>8, <3>1, <3>2, <4>2, <4>3, SMTT(30)
    <3>4. CASE ToChange(q) \cap {"allow", "deny"} = {}
      <4>1. <<r, "allow">> \notin K /\ <<r, "deny">> \notin K BY <3>4 DEF K
      <4>2. QED BY <1>8, <3>1, <3>2, <4>1
    <3>5. QED BY <3>3, <3>4
  <2>10. IptablesAreWhole' BY <2>9 DEF IptablesAreWhole
  <2>11. took' = took OBVIOUS
  <2>12. \A o \in PkgCalls : took'[o] # None =>
           /\ took'[o] \in PkgCalls => at'[took'[o]] = "done"
           /\ at'[o] = "run" => \A x \in DOMAIN mine'[o] : part'[x] = took'[o]
           /\ at'[o] = "done" => \A x \in kept'[o] : part'[x] # took'[o]
    <3>1. SUFFICES ASSUME NEW o \in PkgCalls, took'[o] # None
                   PROVE  /\ took'[o] \in PkgCalls => at'[took'[o]] = "done"
                          /\ at'[o] = "run" => \A x \in DOMAIN mine'[o] : part'[x] = took'[o]
                          /\ at'[o] = "done" => \A x \in kept'[o] : part'[x] # took'[o]
      OBVIOUS
    <3>2. took[o] # None /\ took'[o] = took[o] BY <2>11, <3>1
    <3>3. took'[o] \in PkgCalls => at'[took'[o]] = "done" BY <2>6, <3>2
    <3>4. at'[o] = "run" => \A x \in DOMAIN mine'[o] : part'[x] = took'[o] BY <2>6, <3>2
    <3>5. at'[o] = "done" => \A x \in kept'[o] : part'[x] # took'[o] BY <2>6, <3>2
    <3>6. QED BY <3>3, <3>4, <3>5
  <2>13. \A o, r \in PkgCalls :
           o # r /\ at'[o] = "done" /\ at'[r] = "done" /\ took'[o] # None /\ took'[o] = took'[r]
             => kept'[o] \cap kept'[r] = {}
    BY <2>8, <2>11
  <2>14. QED BY <2>3, <2>5, <2>10, <2>12, <2>13 DEF PartInv
<1>19. QED BY <1>9, <1>16, <1>18 DEF PkgInv

\* Do has made every call.
LEMMA CloseStep ==
    ASSUME PkgInv, NEW p \in PkgCalls, Close(p), row' = row
    PROVE  PkgInv'
<1>1. at[p] = "run" /\ todo[p] = <<>> /\ UNCHANGED <<task, said, total, items, moved>> BY DEF Close
<1>2. unsure \in [PkgCalls -> BOOLEAN] BY DEF PkgInv, PkgTypes
<1>3. CASE Reply(p, 500) /\ Rolled(p)
  <2>1. 500 \in {400, 404, 500} OBVIOUS
  <2>2. QED BY <1>1, <1>3, <2>1, FailStep
<1>4. CASE /\ Reply(p, Answers(task[p])) /\ UNCHANGED unsure
           /\ part' = [x \in Cells |-> Now(x, p)] /\ kept' = [kept EXCEPT ![p] = DOMAIN mine[p]]
           /\ UNCHANGED took
  <2> DEFINE n == Answers(task[p])
  <2>1. n \in {200, 201, 204} BY DEF Answers
  <2> HIDE DEF n
  <2>2. n \in Nat /\ n \in 200..299 BY <2>1
  <2>3. Reply(p, n) BY <1>4 DEF n
  <2>4. QED BY <1>1, <1>2, <1>4, <2>2, <2>3, CommitStep
<1>5. CASE /\ Reply(p, 500) /\ unsure' = [unsure EXCEPT ![p] = TRUE]
           /\ part' = [x \in Cells |-> Now(x, p)] /\ kept' = [kept EXCEPT ![p] = DOMAIN mine[p]]
           /\ UNCHANGED took
  <2> DEFINE n == 500
  <2>1. n \in Nat /\ n = 500 OBVIOUS
  <2>2. Reply(p, n) BY <1>5
  <2> HIDE DEF n
  <2>3. unsure' \in [PkgCalls -> BOOLEAN] /\ unsure'[p] = TRUE
    BY <1>2, <1>5
  <2>4. \A o \in PkgCalls \ {p} : unsure'[o] = unsure[o] BY <1>2, <1>5
  <2>5. QED BY <1>1, <1>5, <2>1, <2>2, <2>3, <2>4, CommitStep
<1>6. QED BY <1>3, <1>4, <1>5 DEF Close

LEMMA CallFailsStep ==
    ASSUME PkgInv, NEW p \in PkgCalls, CallFails(p), row' = row
    PROVE  PkgInv'
<1>1. PICK n \in {400, 500} : Reply(p, n) BY DEF CallFails
<1>2. n \in {400, 404, 500} BY <1>1
<1>3. at[p] = "run" /\ Rolled(p) /\ UNCHANGED <<task, said, total, items, moved>> BY DEF CallFails
<1>4. QED BY <1>1, <1>2, <1>3, FailStep

\* A call comes.
LEMMA ComeStep ==
    ASSUME PkgInv, NEW p \in PkgCalls, Come(p), row' = row
    PROVE  PkgInv'
<1>1. PICK q \in PkgMenu :
        /\ task' = [task EXCEPT ![p] = q]
        /\ IF Refuses(q)
             THEN /\ at' = [at EXCEPT ![p] = "done"]
                  /\ reply' = [reply EXCEPT ![p] = 400]
                  /\ UNCHANGED todo
             ELSE /\ at' = [at EXCEPT ![p] = "run"]
                  /\ todo' = [todo EXCEPT ![p] = Script(q)]
                  /\ UNCHANGED reply
  BY DEF Come
<1>2. at[p] = "new" /\ UNCHANGED <<part, mine, said, total, items, kept, took, unsure, moved>>
  BY DEF Come
<1>3. PkgTypes BY DEF PkgInv
<1>4. PkgTypes'
  <2>1. 400 \in Nat OBVIOUS
  <2>2. reply' \in [PkgCalls -> Nat] BY <1>1, <1>3, <2>1 DEF PkgTypes
  <2>3. at' \in [PkgCalls -> {"new", "run", "done"}] BY <1>1, <1>3 DEF PkgTypes
  <2>4. task' \in [PkgCalls -> PkgMenu \cup {None}] BY <1>1, <1>3 DEF PkgTypes
  <2>5. DOMAIN todo' = PkgCalls BY <1>1, <1>3 DEF PkgTypes
  <2>6. QED BY <1>2, <1>3, <2>2, <2>3, <2>4, <2>5 DEF PkgTypes
<1>5. /\ DOMAIN mine'[p] = {} /\ DOMAIN said'[p] = {} /\ items'[p] = {}
      /\ kept'[p] = {} /\ took'[p] = None
  BY <1>2 DEF PkgInv, CallsInv, Fresh
<1>6. task'[p] = q BY <1>1, <1>3 DEF PkgTypes
<1>7. \A o \in PkgCalls \ {p} : Same(o) BY <1>1, <1>2, <1>3 DEF Same, Still, PkgTypes
<1>8. at'[p] # "new" BY <1>1, <1>3 DEF PkgTypes
<1>9. Fresh(p)' BY <1>8 DEF Fresh
<1>10. Running(p)'
  <2>1. CASE Refuses(q)
    <3>1. at'[p] = "done" BY <1>1, <1>3, <2>1 DEF PkgTypes
    <3>2. QED BY <3>1 DEF Running
  <2>2. CASE ~Refuses(q)
    <3>1. at'[p] = "run" /\ todo'[p] = Script(q) BY <1>1, <1>3, <2>2 DEF PkgTypes
    <3>2. Fit(q, Script(q)) /\ PartsOf(Script(q)) = ToChange(q) BY ScriptFits
    <3>3. QED BY <1>5, <1>6, <2>2, <3>1, <3>2 DEF Running
  <2>3. QED BY <2>1, <2>2
<1>11. Refuses(q) => at'[p] = "done" /\ reply'[p] = 400 BY <1>1, <1>3 DEF PkgTypes
<1>12. ~Refuses(q) => at'[p] = "run" /\ todo'[p] = Script(q) BY <1>1, <1>3 DEF PkgTypes
<1>13. 400 \notin 200..299 OBVIOUS
<1>14. Finished(p)' BY <1>5, <1>6, <1>11, <1>12, <1>13 DEF Finished
<1>15. Listing(p)'
  <2>1. q.handler \in Lists => Script(q) = List BY DEF Script, Lists
  <2>2. List # <<>> /\ List # <<[op |-> "page"]>> 
    <3>1. Len(List) = 2 /\ Len(<<>>) = 0 /\ Len(<<[op |-> "page"]>>) = 1 BY DEF List
    <3>2. QED BY <3>1
  <2>3. QED BY <1>5, <1>6, <1>11, <1>12, <1>13, <2>1, <2>2 DEF Listing
<1>16. CallsInv' /\ ListsInv' BY <1>7, <1>9, <1>10, <1>14, <1>15, OthersStay DEF PkgInv
<1>17. PartInv'
  <2>1. PartInv BY DEF PkgInv
  <2>2. \A o \in PkgCalls : o # p => at'[o] = at[o] BY <1>1, <1>3 DEF PkgTypes
  <2>3. \A o \in PkgCalls : at[o] = "done" => at'[o] = "done" BY <1>2, <2>2
  <2>4. \A o \in PkgCalls : took'[o] # None => o # p BY <1>5
  <2>5. \A x \in Cells : part'[x] \in PkgCalls => at'[part'[x]] = "done"
    BY <1>2, <2>1, <2>3 DEF PartInv
  <2>6. ASSUME NEW o \in PkgCalls, took'[o] # None
        PROVE  /\ took'[o] \in PkgCalls => at'[took'[o]] = "done"
               /\ at'[o] = "run" => \A x \in DOMAIN mine'[o] : part'[x] = took'[o]
               /\ at'[o] = "done" => \A x \in kept'[o] : part'[x] # took'[o]
    BY <1>2, <2>1, <2>2, <2>3, <2>4, <2>6 DEF PartInv
  <2>7. ASSUME NEW o \in PkgCalls, NEW r \in PkgCalls, o # r, at'[o] = "done", at'[r] = "done",
               took'[o] # None, took'[o] = took'[r]
        PROVE  kept'[o] \cap kept'[r] = {}
    <3>1. o # p /\ r # p BY <2>4, <2>7
    <3>2. QED BY <1>2, <2>1, <2>2, <2>7, <3>1 DEF PartInv
  <2>8. \A o, r \in PkgCalls : o # r => DOMAIN mine'[o] \cap DOMAIN mine'[r] = {}
    BY <1>2, <2>1 DEF PartInv
  <2>9. IptablesAreWhole' BY <1>2, <2>1 DEF PartInv, IptablesAreWhole
  <2>10. QED BY <2>5, <2>6, <2>7, <2>8, <2>9 DEF PartInv
<1>18. QED BY <1>4, <1>16, <1>17 DEF PkgInv

\* A row comes or goes: a list that has counted, and has its page still to
\* read, is told so.
LEMMA RowsComeAndGo ==
    ASSUME PkgInv, moved' \in [PkgCalls -> BOOLEAN],
           \A p \in PkgCalls : moved[p] => moved'[p],
           \A p \in PkgCalls : Doing(p, "page") /\ ~moved'[p] => row' = row,
           UNCHANGED <<task, todo, at, part, mine, said, total, items, reply, kept, took, unsure>>
    PROVE  PkgInv'
<1>1. PkgTypes' BY DEF PkgInv, PkgTypes
<1>2. ASSUME NEW o \in PkgCalls PROVE Fresh(o)' /\ Running(o)' /\ Finished(o)'
  <2>1. Still(o) BY DEF Still
  <2>2. Fresh(o) /\ Running(o) /\ Finished(o) BY DEF PkgInv, CallsInv
  <2>3. QED BY <2>1, <2>2, StillFresh, StillRunning, StillFinished, Zenon
<1>3. CallsInv' BY <1>2 DEF CallsInv
<1>4. ASSUME NEW o \in PkgCalls PROVE Listing(o)'
  <2>1. Listing(o) BY DEF PkgInv, ListsInv
  <2>2. PageIs(o) => PageIs(o)' BY DEF PageIs
  <2>3. ASSUME at[o] = "run", todo[o] = <<[op |-> "page"]>>, ~moved'[o], task[o].handler \in Lists
        PROVE  total[o] = Cardinality(Found(o)')
    <3>1. Head(<<[op |-> "page"]>>).op = "page" /\ <<[op |-> "page"]>> # <<>> OBVIOUS
    <3>2. Doing(o, "page") BY <2>3, <3>1 DEF Doing
    <3>3. Found(o)' = Found(o) BY <2>3, <3>2 DEF Found
    <3>4. at[o] # "new" /\ ~moved[o] BY <2>3
    <3>5. QED BY <2>1, <2>3, <3>3, <3>4 DEF Listing
  <2>4. QED BY <2>1, <2>2, <2>3 DEF Listing
<1>5. ListsInv' BY <1>4 DEF ListsInv
<1>6. PartInv' BY DEF PkgInv, PartInv, IptablesAreWhole
<1>7. QED BY <1>1, <1>3, <1>5, <1>6 DEF PkgInv

LEMMA RowStepStep ==
    ASSUME PkgInv, RowStep
    PROVE  PkgInv'
<1>1. moved \in [PkgCalls -> BOOLEAN] BY DEF PkgInv, PkgTypes
<1>2. /\ moved' = [p \in PkgCalls |-> moved[p] \/ (Doing(p, "page") /\ row' # row)]
      /\ UNCHANGED <<task, todo, at, part, mine, said, total, items, reply, kept, took, unsure>>
  BY DEF RowStep
<1>3. \A p \in PkgCalls : (moved[p] \/ (Doing(p, "page") /\ row' # row)) \in BOOLEAN
  BY <1>1 DEF Doing
<1>4. moved' \in [PkgCalls -> BOOLEAN] BY <1>2, <1>3
<1>5. \A p \in PkgCalls : moved'[p] <=> moved[p] \/ (Doing(p, "page") /\ row' # row) BY <1>1, <1>2
<1>6. QED BY <1>2, <1>4, <1>5, RowsComeAndGo

LEMMA PkgStutter ==
    ASSUME PkgInv, UNCHANGED allVars
    PROVE  PkgInv'
<1>1. UNCHANGED pkgVars /\ row' = row BY DEF allVars, vars, dbVars
<1>2. moved \in [PkgCalls -> BOOLEAN] BY DEF PkgInv, PkgTypes
<1>3. QED BY <1>1, <1>2, RowsComeAndGo DEF pkgVars

-----------------------------------------------------------------------------
(* The theorems.                                                           *)

LEMMA PkgStepInv ==
    ASSUME PkgInv, NEW p \in PkgCalls, PkgStep(p)
    PROVE  PkgInv'
<1>1. row' = row BY DEF PkgStep, vars, dbVars
<1>2. \/ Come(p) \/ ReadRow(p) \/ ReadPart(p) \/ WritePart(p) \/ TakePart(p)
      \/ CountRows(p) \/ ListRows(p) \/ ReadNotes(p) \/ LookAt(p) \/ Close(p) \/ CallFails(p)
  BY DEF PkgStep
<1>3. CASE Come(p) BY <1>1, <1>3, ComeStep
<1>4. CASE ReadRow(p) BY <1>1, <1>4, ReadRowStep
<1>5. CASE ReadPart(p) BY <1>1, <1>5, ReadPartStep
<1>6. CASE WritePart(p) BY <1>1, <1>6, WritePartStep
<1>7. CASE TakePart(p) BY <1>1, <1>7, TakePartStep
<1>8. CASE CountRows(p) BY <1>1, <1>8, CountRowsStep
<1>9. CASE ListRows(p) BY <1>1, <1>9, ListRowsStep
<1>10. CASE ReadNotes(p) BY <1>1, <1>10, ReadNotesStep
<1>11. CASE LookAt(p) BY <1>1, <1>11, LookAtStep
<1>12. CASE Close(p) BY <1>1, <1>12, CloseStep
<1>13. CASE CallFails(p) BY <1>1, <1>13, CallFailsStep
<1>14. QED BY <1>2, <1>3, <1>4, <1>5, <1>6, <1>7, <1>8, <1>9, <1>10, <1>11, <1>12, <1>13

\* The invariant holds whatever handlers' transactions overlap: every part is
\* written by one of them at a time, and a call has written exactly as much
\* as its script has come along.
THEOREM PkgInvariance == PkgSpec => []PkgInv
<1>1. PkgInit => PkgInv BY InitPkgInv
<1>2. PkgInv /\ [PkgNext]_allVars => PkgInv'
  <2> SUFFICES ASSUME PkgInv, [PkgNext]_allVars PROVE PkgInv'
    OBVIOUS
  <2>1. CASE RowStep BY <2>1, RowStepStep
  <2>2. ASSUME NEW p \in PkgCalls, PkgStep(p) PROVE PkgInv' BY <2>2, PkgStepInv
  <2>3. CASE UNCHANGED allVars BY <2>3, PkgStutter
  <2>4. QED BY <2>1, <2>2, <2>3 DEF PkgNext
<1>3. QED BY <1>1, <1>2, PTL DEF PkgSpec

\* The two lists of a user's IP table are of one PUT, for any number of PUTs
\* that overlap, fail anywhere or commit unknown to their callers.
THEOREM IptablesWhole == PkgSpec => []IptablesAreWhole
<1>1. PkgInv => IptablesAreWhole BY DEF PkgInv, PartInv
<1>2. QED BY <1>1, PkgInvariance, PTL

\* Who waits holds only parts of lower rank than the one it waits for.
LEMMA WaitsGoUp ==
    ASSUME PkgInv, NEW p \in PkgCalls, NEW o \in PkgCalls, NEW r \in PkgCalls,
           WaitsFor(p, o), WaitsFor(o, r)
    PROVE  Rank(Head(todo[p]).part) < Rank(Head(todo[o]).part)
<1>1. PICK op \in {"write", "clear", "take"} : Doing(o, op) BY DEF WaitsFor
<1>2. /\ at[o] = "run" /\ Head(todo[o]).op = op /\ Running(o)
      /\ PartsOf(todo[o]) = PartsOf(Tail(todo[o]))
           \cup (IF Writing(Head(todo[o])) THEN {Head(todo[o]).part} ELSE {})
  BY <1>1, DoingIs
<1>3. Writing(Head(todo[o])) BY <1>1, <1>2 DEF Writing
<1>4. Head(todo[o]).part \in PartsOf(todo[o]) BY <1>2, <1>3
<1>5. Cell(p) \in DOMAIN mine[o] BY DEF WaitsFor
<1>6. Cell(p) = <<Owner(task[p]), Head(todo[p]).part>> BY DEF Cell
<1>7. DOMAIN mine[o] \subseteq {Owner(task[o])} \X ToChange(task[o]) BY <1>2 DEF Running
<1>8. Owner(task[p]) = Owner(task[o]) /\ Head(todo[p]).part \in ToChange(task[o]) BY <1>5, <1>6, <1>7
<1>9. QED BY <1>2, <1>4, <1>5, <1>6, <1>8 DEF Running

\* No handlers wait for each other in a circle, however many: the part one
\* waits for ranks above those it holds, so a chain of waits climbs, and has
\* no more links than there are ranks.
THEOREM NoCircles == PkgSpec => []NoCircleOfWaits
<1>1. PkgInv => NoCircleOfWaits
  <2> SUFFICES ASSUME PkgInv, NEW S \in (SUBSET PkgCalls) \ {{}},
                      \A p \in S : \E o \in S : WaitsFor(p, o)
               PROVE  FALSE
    BY DEF NoCircleOfWaits
  <2> DEFINE R(p) == Rank(Head(todo[p]).part)
  <2>1. \A p \in S : R(p) \in 0..3 BY RankIsNat
  <2>2. \A p \in S : \E o \in S : R(p) < R(o)
    <3>1. SUFFICES ASSUME NEW p \in S PROVE \E o \in S : R(p) < R(o)
      OBVIOUS
    <3>2. PICK o \in S : WaitsFor(p, o) OBVIOUS
    <3>3. PICK r \in S : WaitsFor(o, r) OBVIOUS
    <3>4. R(p) < R(o) BY <3>2, <3>3, WaitsGoUp
    <3>5. QED BY <3>4
  <2> HIDE DEF R
  <2>3. PICK a \in S : TRUE OBVIOUS
  <2>4. PICK b \in S : R(a) < R(b) BY <2>2
  <2>5. PICK c \in S : R(b) < R(c) BY <2>2
  <2>6. PICK d \in S : R(c) < R(d) BY <2>2
  <2>7. PICK e \in S : R(d) < R(e) BY <2>2
  <2>8. /\ R(a) \in 0..3 /\ R(b) \in 0..3 /\ R(c) \in 0..3 /\ R(d) \in 0..3 /\ R(e) \in 0..3
    BY <2>1
  <2>9. QED BY <2>4, <2>5, <2>6, <2>7, <2>8
<1>2. QED BY <1>1, PkgInvariance, PTL

\* A success is told of everything the request was to change and reads back
\* its own values, a problem is told of nothing changed unless the commit's
\* answer was lost, and what one call deleted or spent no other did.
THEOREM AnswersAreDone == PkgSpec => []ToldIsDone
<1>1. PkgInv => ToldIsDone
  <2> SUFFICES ASSUME PkgInv PROVE ToldIsDone
    OBVIOUS
  <2>1. \A p \in PkgCalls : Finished(p) BY DEF PkgInv, CallsInv
  <2>2. ASSUME NEW p \in PkgCalls, Succeeded(p)
        PROVE  /\ kept[p] = {Owner(task[p])} \X ToChange(task[p])
               /\ \A x \in kept[p] \cap DOMAIN said[p] : said[p][x] = p
               /\ task[p].handler \in {"file-delete", "confirm"} => took[p] # None
    <3>1. at[p] = "done" /\ reply[p] \in 200..299 BY <2>2 DEF Succeeded
    <3>2. QED BY <2>1, <3>1 DEF Finished, Takers
  <2>3. ASSUME NEW p \in PkgCalls, at[p] = "done", reply[p] >= 400, ~unsure[p]
        PROVE  kept[p] = {}
    BY <2>1, <2>3 DEF Finished
  <2>4. ASSUME NEW p \in PkgCalls, NEW o \in PkgCalls, p # o, at[p] = "done", at[o] = "done",
               took[p] # None, kept[p] = kept[o], took[p] = took[o]
        PROVE  FALSE
    <3>1. kept[p] # {} BY <2>1, <2>4 DEF Finished
    <3>2. kept[p] \cap kept[o] = {} BY <2>4 DEF PkgInv, PartInv
    <3>3. QED BY <2>4, <3>1, <3>2
  <2>5. QED BY <2>2, <2>3, <2>4 DEF ToldIsDone
<1>2. QED BY <1>1, PkgInvariance, PTL

\* The numbers of a list are integers.
LEMMA NumbersAreInt ==
    ASSUME NEW q \in PkgMenu, NEW kind, NEW default \in Int
    PROVE  Number(q, kind, default) \in Int
<1>1. \A x \in q.params : x.n \in Int BY PackageRestAssumption
<1>2. CASE \E x \in q.params : x.kind = kind
  <2>1. (CHOOSE x \in q.params : x.kind = kind) \in q.params BY <1>2
  <2>2. QED BY <1>1, <1>2, <2>1 DEF Number
<1>3. CASE ~\E x \in q.params : x.kind = kind BY <1>3 DEF Number
<1>4. QED BY <1>2, <1>3

\* A page is no longer than the limit.
LEMMA SmallerOfTwo ==
    ASSUME NEW a \in Int, NEW b \in Int
    PROVE  Min({a, b}) <= a /\ Max({a, b}) \in Int
<1>1. \E x \in {a, b} : \A y \in {a, b} : x =< y OBVIOUS
<1>2. Min({a, b}) \in {a, b} /\ \A y \in {a, b} : Min({a, b}) =< y BY <1>1 DEF Min
<1>3. \E x \in {a, b} : \A y \in {a, b} : x >= y OBVIOUS
<1>4. Max({a, b}) \in {a, b} BY <1>3 DEF Max
<1>5. QED BY <1>2, <1>4

LEMMA PagesKeepTheLimit ==
    ASSUME NEW q \in PkgMenu, NEW n \in Nat
    PROVE  PageLen(q, n) <= Number(q, "limit", DefaultLimit)
<1> DEFINE L == Number(q, "limit", DefaultLimit)
           O == Number(q, "offset", 0)
<1>1. DefaultLimit \in Int /\ 0 \in Int BY DEF DefaultLimit
<1>2. L \in Int /\ O \in Int BY <1>1, NumbersAreInt
<1>3. PageLen(q, n) = Min({L, Max({0, n - O})}) BY DEF PageLen
<1> HIDE DEF L, O
<1>4. n - O \in Int BY <1>2
<1>5. Max({0, n - O}) \in Int BY <1>1, <1>4, SmallerOfTwo
<1>6. QED BY <1>2, <1>3, <1>5, SmallerOfTwo DEF L

\* A list gives no row the client did not mean to select, no more than the
\* limit, and as many as the total leaves unless rows came or went between.
THEOREM ListsAreWhole == PkgSpec => []ListsAddUp
<1>1. PkgInv => ListsAddUp
  <2> SUFFICES ASSUME PkgInv, NEW p \in PkgCalls, Succeeded(p)
               PROVE  /\ \A x \in task[p].params : x.kind # "own" => items[p] \subseteq x.rows
                      /\ task[p].handler \in Lists =>
                           /\ Cardinality(items[p]) <= Number(task[p], "limit", DefaultLimit)
                           /\ ~moved[p] => Cardinality(items[p]) = PageLen(task[p], total[p])
    BY DEF ListsAddUp
  <2> DEFINE q == task[p]
  <2>1. at[p] = "done" /\ reply[p] \in 200..299 BY DEF Succeeded
  <2>2. q \in PkgMenu /\ ~Refuses(q) BY <2>1 DEF PkgInv, CallsInv, Finished
  <2>3. /\ items[p] \subseteq Search(q) /\ (items[p] # {} => q.handler \in OfRows)
        /\ q.handler \in Lists => PageIs(p)
    BY <2>1 DEF PkgInv, ListsInv, Listing
  <2>4. ASSUME NEW x \in q.params, x.kind # "own" PROVE items[p] \subseteq x.rows
    <3>1. CASE q.handler \notin OfRows BY <2>3, <3>1
    <3>2. x.kind \in {"filter", "term", "objects"} => Search(q) \subseteq x.rows BY <2>4 DEF Search
    <3>3. CASE q.handler \in Lists
      <4>1. x.kind \in {"filter", "term", "typo", "own"} \/ Ids \subseteq x.rows
        BY <2>2, <2>4, <3>3, PackageRestAssumption
      <4>2. ~ListRefuses(q) BY <2>2, <3>3 DEF Refuses
      <4>3. x.kind # "typo" BY <2>4, <4>2 DEF ListRefuses, ParseRefuses, Unknown
      <4>4. Search(q) \subseteq Ids BY DEF Search
      <4>5. QED BY <2>3, <2>4, <3>2, <4>1, <4>3, <4>4
    <3>4. CASE q.handler \in {"search", "changed"}
      <4>1. x.kind \in {"term", "objects"} BY <2>2, <2>4, <3>4, PackageRestAssumption
      <4>2. QED BY <2>3, <3>2, <4>1
    <3>5. QED BY <3>1, <3>3, <3>4 DEF OfRows
  <2>5. ASSUME q.handler \in Lists
        PROVE  /\ Cardinality(items[p]) <= Number(q, "limit", DefaultLimit)
               /\ ~moved[p] => Cardinality(items[p]) = PageLen(q, total[p])
    <3>1. PICK n \in Nat : Cardinality(items[p]) = PageLen(q, n) /\ (~moved[p] => n = total[p])
      BY <2>3, <2>5 DEF PageIs
    <3>2. PageLen(q, n) <= Number(q, "limit", DefaultLimit) BY <2>2, PagesKeepTheLimit
    <3>3. QED BY <3>1, <3>2
  <2>6. QED BY <2>4, <2>5
<1>2. QED BY <1>1, PkgInvariance, PTL

=============================================================================
