--------------------------- MODULE OpenApiProofs ---------------------------
(***************************************************************************)
(* The theorems of OpenApi, for any modules, entities and patterns that a  *)
(* mux takes: what Gaps finds by one try of each path and method holds for *)
(* whatever values a request has in their place.                           *)
(*                                                                         *)
(* Two facts carry it: of the patterns that take a request one is the most *)
(* specific (ChosenTakes), and a pattern is itself the choice for the path *)
(* that Gaps makes of it, as long as no pattern has the segment Gaps puts  *)
(* for a {name} (TriedIsChosen).                                           *)
(***************************************************************************)
EXTENDS OpenApi, HostProofs

-----------------------------------------------------------------------------
(* The mux.                                                                *)

AllRoutes == UNION {Table[p] : p \in DOMAIN Table}

MuxInv == setup \in Setups /\ mux \subseteq AllRoutes /\ IsFiniteSet(mux)

LEMMA RoutesAre ==
    ASSUME NEW r \in AllRoutes
    PROVE  /\ r # None /\ Len(r.path) \in Nat /\ DOMAIN r.path = 1..Len(r.path)
           /\ r.method \in {"GET", "POST", "PUT", "PATCH", "DELETE"}
           /\ \A i \in 1..Len(r.path) : r.path[i] # "v" /\ r.path[i] # Blank
<1>1. /\ r # None /\ r.path \in Seq(Range(r.path)) /\ "v" \notin Range(r.path)
      /\ r.method \in {"GET", "POST", "PUT", "PATCH", "DELETE"}
  BY MuxAssumption DEF AllRoutes
<1>2. Len(r.path) \in Nat /\ DOMAIN r.path = 1..Len(r.path) BY <1>1
<1>3. \A i \in 1..Len(r.path) : r.path[i] # "v" BY <1>1, <1>2 DEF Range
<1>4. \A i \in 1..Len(r.path) : r.path[i] # Blank BY PatternAssumption DEF AllRoutes
<1>5. QED BY <1>1, <1>2, <1>3, <1>4

\* Patterns that take one request are for one method, and meet.
LEMMA TakersMeet ==
    ASSUME MuxInv, NEW path, NEW method, NEW r \in Handler(path, method),
           NEW s \in Handler(path, method)
    PROVE  /\ Len(r.path) = Len(path) /\ Meet(r, s) /\ r \in AllRoutes /\ s \in AllRoutes
           /\ r = s \/ (MoreSpecific(r, s) <=> ~MoreSpecific(s, r))
<1>1. /\ r \in mux /\ s \in mux /\ Matches(r, path, method) /\ Matches(s, path, method)
  BY DEF Handler
<1>2. r \in AllRoutes /\ s \in AllRoutes BY <1>1 DEF MuxInv
<1>3. r.method # "HEAD" /\ s.method # "HEAD" BY <1>2, RoutesAre
<1>4. r.method = s.method BY <1>1, <1>3 DEF Matches
<1>5. Len(r.path) = Len(path) /\ Len(s.path) = Len(path) BY <1>1 DEF Matches
<1>6. Meet(r, s) BY <1>1, <1>4, <1>5 DEF Meet, Matches
<1>7. r = s \/ (MoreSpecific(r, s) <=> ~MoreSpecific(s, r))
  BY <1>2, <1>6, MuxAssumption DEF AllRoutes
<1>8. QED BY <1>2, <1>5, <1>6, <1>7

\* Of the patterns that take a request there is a most specific one: the sets
\* of those more specific than one of them are finite, and a smallest of
\* these sets is of the one.
LEMMA MostSpecific ==
    ASSUME MuxInv, NEW path, NEW method, Handler(path, method) # {}
    PROVE  \E r \in Handler(path, method) : \A s \in Handler(path, method) : MoreSpecific(r, s)
<1> DEFINE H == Handler(path, method)
           D(r) == {s \in H : MoreSpecific(s, r)}
           T == {D(r) : r \in H}
           R == StrictSubsetOrdering(mux)
<1>1. H \subseteq mux BY DEF Handler
<1>2. \A r \in H : D(r) \in SUBSET mux BY <1>1
<1>3. T \subseteq SUBSET mux /\ T # {} BY <1>2
<1>4. IsWellFoundedOn(R, SUBSET mux)
  <2>1. IsFiniteSet(mux) BY DEF MuxInv
  <2>2. FiniteSubsetsOf(mux) = SUBSET mux BY <2>1, FS_FiniteSubsetsOfFinite
  <2>3. IsWellFoundedOn(R, FiniteSubsetsOf(mux)) BY FS_StrictSubsetOrderingWellFounded
  <2>4. QED BY <2>2, <2>3
<1> HIDE DEF R
<1>5. PICK X \in T : \A Y \in T : ~(<<Y, X>> \in R)
  <2> HIDE DEF T
  <2>1. QED BY <1>3, <1>4, WFMin
<1>6. PICK r \in H : X = D(r) BY <1>5
<1>7. ASSUME NEW s \in H PROVE MoreSpecific(r, s)
  <2>1. /\ Len(r.path) = Len(path) /\ Len(s.path) = Len(path)
        /\ r = s \/ (MoreSpecific(r, s) <=> ~MoreSpecific(s, r))
    BY TakersMeet
  <2>2. CASE r = s BY <2>2 DEF MoreSpecific
  <2>3. CASE MoreSpecific(s, r)
    <3>1. \A t \in H : Len(t.path) = Len(path) BY TakersMeet
    <3>2. \A t \in H : MoreSpecific(t, s) => MoreSpecific(t, r)
      BY <2>1, <2>3, <3>1 DEF MoreSpecific
    <3>3. D(s) \subseteq D(r) BY <3>2
    <3>4. D(s) \in T /\ D(r) \in T /\ D(s) \in SUBSET mux /\ D(r) \in SUBSET mux BY <1>2
    <3>5. D(s) = D(r) BY <1>5, <1>6, <3>3, <3>4 DEF R, StrictSubsetOrdering
    <3>6. MoreSpecific(r, r) BY DEF MoreSpecific
    <3>7. QED BY <3>5, <3>6
  <2>4. QED BY <2>1, <2>2, <2>3
<1>8. QED BY <1>7

\* What the mux chooses takes the request, and is the most specific.
LEMMA ChosenTakes ==
    ASSUME MuxInv, NEW path, NEW method, Handler(path, method) # {}
    PROVE  /\ Chosen(path, method) \in Handler(path, method)
           /\ \A s \in Handler(path, method) : MoreSpecific(Chosen(path, method), s)
           /\ Chosen(path, method) # None
<1>1. \E r \in Handler(path, method) : \A s \in Handler(path, method) : MoreSpecific(r, s)
  BY MostSpecific
<1>2. Chosen(path, method) =
        CHOOSE r \in Handler(path, method) : \A s \in Handler(path, method) : MoreSpecific(r, s)
  BY DEF Chosen
<1>3. /\ Chosen(path, method) \in Handler(path, method)
      /\ \A s \in Handler(path, method) : MoreSpecific(Chosen(path, method), s)
  BY <1>1, <1>2
<1>4. Chosen(path, method) # None BY <1>3, RoutesAre DEF Handler, MuxInv
<1>5. QED BY <1>3, <1>4

\* A route is what the mux chooses for the path that Gaps tries of it.
LEMMA TriedIsChosen ==
    ASSUME MuxInv, NEW r \in mux
    PROVE  Chosen(Concrete(r.path), r.method) = r
<1> DEFINE path == Concrete(r.path)
           c == Chosen(path, r.method)
           H == Handler(path, r.method)
<1>1. r \in AllRoutes BY DEF MuxInv
<1>2. Len(r.path) \in Nat /\ \A i \in 1..Len(r.path) : r.path[i] # "v" /\ r.path[i] # Blank
  BY <1>1, RoutesAre
<1>3. Len(path) = Len(r.path) BY <1>2 DEF Concrete
<1>4. \A i \in 1..Len(path) : path[i] = IF r.path[i] = Wild THEN "v" ELSE r.path[i]
  BY <1>3 DEF Concrete
<1> HIDE DEF path
<1>5. "v" # Blank BY DEF Blank
<1>6. \A i \in 1..Len(path) : r.path[i] = path[i] \/ (r.path[i] = Wild /\ path[i] # Blank)
  BY <1>4, <1>5
<1>7. Matches(r, path, r.method) BY <1>3, <1>6 DEF Matches
<1>8. r \in H BY <1>7 DEF Handler
<1>9. c \in H /\ MoreSpecific(c, r) BY <1>8, ChosenTakes
<1>10. Matches(c, path, r.method) /\ c \in AllRoutes BY <1>9 DEF Handler, MuxInv
<1>11. \A i \in 1..Len(c.path) : c.path[i] # "v" BY <1>10, RoutesAre
<1>12. Len(c.path) = Len(path) BY <1>10 DEF Matches
<1>13. MoreSpecific(r, c)
  <2>1. ASSUME NEW i \in 1..Len(r.path) PROVE c.path[i] \in {Wild, r.path[i]}
    <3>1. i \in 1..Len(path) /\ i \in 1..Len(c.path) BY <1>3, <1>12
    <3>2. c.path[i] = path[i] \/ c.path[i] = Wild BY <1>10, <3>1 DEF Matches
    <3>3. c.path[i] # "v" BY <1>11, <3>1
    <3>4. QED BY <1>4, <3>1, <3>2, <3>3
  <2>2. QED BY <2>1 DEF MoreSpecific
<1>14. c = r \/ (MoreSpecific(c, r) <=> ~MoreSpecific(r, c)) BY <1>8, <1>9, TakersMeet
<1>15. QED BY <1>9, <1>13, <1>14 DEF path

-----------------------------------------------------------------------------
(* The inductive invariant.                                                *)

\* What was described is what the process is composed of.
DescribedInv == described # None => described = [doc |-> Build(Ops), gaps |-> Gaps(Ops)]

OpenInv == MuxInv /\ DescribedInv

\* The modules' patterns are finitely many.
LEMMA MuxIsFinite ==
    ASSUME setup \in Setups, NEW routes, routes = UNION {Table[p] : p \in Range(Claimed)}
    PROVE  routes \subseteq AllRoutes /\ IsFiniteSet(routes)
<1> DEFINE n == Len(Claimed)
           S == {Table[p] : p \in Range(Claimed)}
           f == [i \in 1..n |-> Table[Claimed[i]]]
<1>1. Range(Claimed) \subseteq DOMAIN Table BY MuxAssumption DEF Claimed
<1>2. routes \subseteq AllRoutes BY <1>1 DEF AllRoutes
<1>3. n \in Nat /\ DOMAIN Claimed = 1..n
  <2>1. Claimed \in Seq(Seq(STRING)) BY HostAssumption DEF Claimed
  <2>2. QED BY <2>1
<1> HIDE DEF n
<1>4. \A i \in 1..n : Claimed[i] \in Range(Claimed) BY <1>3 DEF Range
<1>5. \A p \in Range(Claimed) : \E i \in 1..n : Claimed[i] = p BY <1>3 DEF Range
<1>6. f \in [1..n -> S] /\ \A t \in S : \E i \in 1..n : f[i] = t BY <1>4, <1>5
<1>7. f \in Surjection(1..n, S) BY <1>6 DEF Surjection
<1>8. IsFiniteSet(1..n) BY <1>3, FS_Interval
<1>9. IsFiniteSet(S) BY <1>7, <1>8, FS_Surjection
<1>10. \A t \in S : IsFiniteSet(t) BY <1>1, MuxAssumption
<1>11. IsFiniteSet(UNION S) BY <1>9, <1>10, FS_UNION
<1>12. QED BY <1>2, <1>11

LEMMA SameDescription ==
    ASSUME setup' = setup, mux' = mux
    PROVE  Build(Ops)' = Build(Ops) /\ Gaps(Ops)' = Gaps(Ops)
<1>1. Ops' = Ops BY DEF Ops, Claimed
<1>2. Build(Ops)' = Build(Ops') BY DEF Build
<1>3. Gaps(Ops)' = Gaps(Ops) BY <1>1 DEF Gaps, Chosen, Handler
<1>4. QED BY <1>1, <1>2, <1>3

LEMMA OpenInvInit == OpenInit => OpenInv
<1>1. IsFiniteSet({}) BY FS_EmptySet
<1>2. QED BY <1>1 DEF OpenInit, Init, OpenInv, MuxInv, DescribedInv

LEMMA OpenInvStep == OpenInv /\ [OpenNext]_openVars => OpenInv'
<1> SUFFICES ASSUME OpenInv, [OpenNext]_openVars PROVE OpenInv'
  OBVIOUS
<1>1. ASSUME setup' = setup, mux' = mux PROVE MuxInv'
  BY <1>1 DEF OpenInv, MuxInv, AllRoutes
<1>2. CASE Describe
  <2>1. setup' = setup /\ mux' = mux BY <1>2 DEF Describe, vars
  <2>2. DescribedInv' BY <1>2, <2>1, SameDescription DEF Describe, DescribedInv
  <2>3. QED BY <1>1, <2>1, <2>2 DEF OpenInv
<1>3. CASE Next /\ described' = described /\ described = None
  <2>1. DescribedInv' BY <1>3 DEF DescribedInv
  <2>2. MuxInv'
    <3>1. CASE New
      <4>1. setup' = setup /\ setup \in Setups BY <3>1 DEF New, OpenInv, MuxInv
      <4>2. CASE mux' = mux BY <1>1, <4>1, <4>2
      <4>3. CASE mux' = UNION {Table[p] : p \in Range(Claimed)}
        <5>1. mux' \subseteq AllRoutes /\ IsFiniteSet(mux') BY <4>1, <4>3, MuxIsFinite
        <5>2. QED BY <4>1, <5>1 DEF MuxInv, AllRoutes
      <4>4. QED BY <3>1, <4>2, <4>3 DEF New
    <3>2. CASE Announce BY <1>1, <3>2 DEF Announce
    <3>3. CASE CheckRegister BY <1>1, <3>3 DEF CheckRegister
    <3>4. CASE Tick BY <1>1, <3>4 DEF Tick, startVars
    <3>5. ASSUME NEW c \in Calls, ServeHTTP(c) \/ Return(c) PROVE MuxInv'
      BY <1>1, <3>5 DEF ServeHTTP, Return, startVars
    <3>6. QED BY <1>3, <3>1, <3>2, <3>3, <3>4, <3>5 DEF Next
  <2>3. QED BY <2>1, <2>2 DEF OpenInv
<1>4. CASE UNCHANGED openVars
  <2>1. setup' = setup /\ mux' = mux /\ described' = described BY <1>4 DEF openVars, vars
  <2>2. DescribedInv' BY <2>1, SameDescription DEF OpenInv, DescribedInv
  <2>3. QED BY <1>1, <2>1, <2>2 DEF OpenInv
<1>5. QED BY <1>2, <1>3, <1>4 DEF OpenNext

\* The invariant: a description is made of the mux that serves, and of no
\* other.
THEOREM OpenInvariance == OpenSpec => []OpenInv
BY OpenInvInit, OpenInvStep, PTL DEF OpenSpec

\* Seen without the description, the process is the host: a step of OpenApi is
\* one of Host's or none, so that Host's properties hold of it.
THEOREM OpenIsAHost == OpenSpec => Spec
<1>1. OpenInit => Init BY DEF OpenInit
<1>2. [OpenNext]_openVars => [Next]_vars BY DEF OpenNext, Describe, openVars
<1>3. QED BY <1>1, <1>2, PTL DEF OpenSpec, Spec

\* Host's properties, of a process that may describe itself before it starts.
THEOREM HostCarriesOver ==
    OpenSpec => [](TypeOK /\ AnnouncedIsTakenAndWhole /\ UnsignedLearnNothing
                     /\ RoutesSeeVerifiedCallers /\ AddressIsOnTheWay /\ NothingOfNetHTTP)
BY OpenIsAHost, TypeCorrect, AnnouncedTakenAndWhole, UnsignedAreTold, RoutesAreForVerified,
   AddressesAreOnTheWay, AnswersAreTheHosts, PTL

-----------------------------------------------------------------------------
(* The document.                                                           *)

\* What is described was built: no check of Build failed.
LEMMA BuiltIs ==
    ASSUME OpenInv, Built
    PROVE  /\ described.gaps = Gaps(Ops)
           /\ described.doc.paths = {Pattern(o) : o \in Range(Ops)}
           /\ described.doc.schemas = [n \in {s.name : s \in Sources(Ops)} |->
                                         CHOOSE s \in Sources(Ops) : s.name = n]
           /\ NamedOnce(Sources(Ops))
           /\ IsInjective([i \in DOMAIN Ops |-> Pattern(Ops[i])])
<1>1. described = [doc |-> Build(Ops), gaps |-> Gaps(Ops)] BY DEF OpenInv, DescribedInv, Built
<1>2. described.doc = Build(Ops) /\ described.gaps = Gaps(Ops) BY <1>1
<1>3. Build(Ops) # None BY <1>2 DEF Built
<1>4. /\ NamedOnce(Sources(Ops))
      /\ IsInjective([i \in DOMAIN Ops |-> Pattern(Ops[i])])
      /\ Build(Ops) = [paths |-> {Pattern(o) : o \in Range(Ops)},
                       schemas |-> [n \in {s.name : s \in Sources(Ops)} |->
                                      CHOOSE s \in Sources(Ops) : s.name = n]]
  BY <1>3, Zenon DEF Build
<1>5. QED BY <1>2, <1>4

\* An operation is one of a module's, and its pattern is a route or nothing.
LEMMA OpsAre ==
    ASSUME NEW at \in DOMAIN Ops
    PROVE  /\ at[1] \in DOMAIN Claimed /\ at[2] \in DOMAIN Operations(Claimed[at[1]])
           /\ Pattern(Ops[at]) # None
<1>1. /\ at[1] \in DOMAIN Claimed /\ at[2] \in DOMAIN Operations(Claimed[at[1]])
      /\ Ops[at] = Operations(Claimed[at[1]])[at[2]]
  BY DEF Ops
<1> DEFINE p == Claimed[at[1]]
<1>2. Operations(p) # <<>> BY <1>1
<1>3. p \in DOMAIN Entities BY <1>2 DEF Operations
<1>4. Ops[at] \in Range(Operations(p)) BY <1>1 DEF Range
<1>5. Pattern(Ops[at]) # None BY <1>3, <1>4, EntityAssumption
<1>6. QED BY <1>1, <1>5

\* A described pattern that Gaps does not miss is a route, and takes every
\* request that is spelled like it.
LEMMA DescribedIsTaken ==
    ASSUME MuxInv, Gaps(Ops).missing = {}, NEW o \in {Pattern(x) : x \in Range(Ops)}
    PROVE  o \in mux /\ \A path \in Asks(o.path) : Chosen(path, o.method) # None
<1>1. o # None BY OpsAre DEF Range
<1> DEFINE want == {Pattern(x) : x \in Range(Ops)}
<1>2. Gaps(Ops).missing = {r \in want : Chosen(Concrete(r.path), r.method) # r} BY DEF Gaps
<1>3. Chosen(Concrete(o.path), o.method) = o BY <1>2
<1>4. Handler(Concrete(o.path), o.method) # {} BY <1>1, <1>3 DEF Chosen
<1>5. o \in mux BY <1>3, <1>4, ChosenTakes DEF Handler
<1>6. ASSUME NEW path \in Asks(o.path) PROVE Chosen(path, o.method) # None
  <2>1. /\ Len(o.path) \in Nat /\ DOMAIN o.path = 1..Len(o.path)
        /\ \A i \in 1..Len(o.path) : o.path[i] # Blank
    BY <1>5, RoutesAre DEF MuxInv
  <2>2. /\ path \in [1..Len(o.path) -> {"v", "w", "actions", "methods"} \cup Range(o.path)]
        /\ \A i \in 1..Len(o.path) : IF o.path[i] = Wild THEN path[i] # Wild ELSE path[i] = o.path[i]
    BY DEF Asks
  <2>3. Len(path) = Len(o.path) BY <2>1, <2>2
  <2>4. "v" # Blank /\ "w" # Blank /\ "actions" # Blank /\ "methods" # Blank BY DEF Blank
  <2>5. \A x \in Range(o.path) : x # Blank BY <2>1 DEF Range
  <2>6. \A i \in 1..Len(o.path) : path[i] # Blank BY <2>2, <2>4, <2>5
  <2>7. Matches(o, path, o.method) BY <2>2, <2>3, <2>6 DEF Matches
  <2>8. o \in Handler(path, o.method) BY <1>5, <2>7 DEF Handler
  <2>9. QED BY <2>8, ChosenTakes
<1>7. QED BY <1>5, <1>6

\* A route on a path that is described is described, where Gaps finds no
\* other: its one try of the path, with the route's method, is the route.
LEMMA TakenIsDescribed ==
    ASSUME MuxInv, Gaps(Ops).undocumented = {}, NEW path, NEW method,
           Chosen(path, method) # None,
           NEW d \in {Pattern(x) : x \in Range(Ops)}, d.path = Chosen(path, method).path
    PROVE  Chosen(path, method) \in {Pattern(x) : x \in Range(Ops)}
<1> DEFINE r == Chosen(path, method)
           want == {Pattern(x) : x \in Range(Ops)}
<1>1. Handler(path, method) # {} BY DEF Chosen
<1>2. r \in mux BY <1>1, ChosenTakes DEF Handler
<1>3. r.method \in Probed BY <1>2, RoutesAre DEF MuxInv, Probed
<1>4. Chosen(Concrete(d.path), r.method) = r BY <1>2, TriedIsChosen
<1>5. Gaps(Ops).undocumented =
        {Chosen(Concrete(q.path), m) : m \in Probed, q \in want} \ (want \cup {None})
  BY DEF Gaps
<1> HIDE DEF r, want
<1>6. r \in {Chosen(Concrete(q.path), m) : m \in Probed, q \in want} BY <1>3, <1>4 DEF want
<1>7. r \in want \cup {None} BY <1>5, <1>6
<1>8. r # None BY DEF r
<1>9. QED BY <1>7, <1>8 DEF r, want

\* The operations of a module are finitely many, and so are all of them.
LEMMA OpsAreFinite ==
    ASSUME MuxInv
    PROVE  IsFiniteSet(DOMAIN Ops)
<1> DEFINE n == Len(Claimed)
           At(i) == {i} \X DOMAIN Operations(Claimed[i])
           f == [i \in 1..n |-> At(i)]
           S == {At(i) : i \in DOMAIN Claimed}
<1>1. n \in Nat /\ DOMAIN Claimed = 1..n
  <2>1. Claimed \in Seq(Seq(STRING)) BY HostAssumption DEF Claimed, MuxInv
  <2>2. QED BY <2>1
<1>2. ASSUME NEW i \in DOMAIN Claimed PROVE IsFiniteSet(At(i))
  <2> DEFINE p == Claimed[i]
             ops == Operations(p)
  <2>1. \E m \in Nat : DOMAIN ops = 1..m
    <3>1. CASE ops = <<>> BY <3>1
    <3>2. CASE ops # <<>>
      <4>1. p \in DOMAIN Entities /\ ops = Form(p) \o Entities[p].own BY <3>2 DEF Operations
      <4>2. Entities[p].own \in Seq(Range(Entities[p].own)) BY <4>1, EntityAssumption
      <4>3. \E X : Form(p) \in Seq(X)
        <5>1. \A a, b, c, d, e, g : <<a, b, c, d, e, g>> \in Seq({a, b, c, d, e, g}) OBVIOUS
        <5>2. QED BY <5>1 DEF Form
      <4>4. PICK X : Form(p) \in Seq(X) BY <4>3
      <4> DEFINE Y == X \cup Range(Entities[p].own)
      <4>5. Form(p) \in Seq(Y) /\ Entities[p].own \in Seq(Y) BY <4>2, <4>4
      <4>6. ops \in Seq(Y) BY <4>1, <4>5
      <4> HIDE DEF ops, Y
      <4>7. QED BY <4>6
    <3>3. QED BY <3>1, <3>2
  <2>2. PICK m \in Nat : DOMAIN ops = 1..m BY <2>1
  <2>3. IsFiniteSet(1..m) BY FS_Interval
  <2>4. IsFiniteSet(DOMAIN ops) BY <2>2, <2>3
  <2>5. IsFiniteSet({i}) BY FS_Singleton
  <2> HIDE DEF ops
  <2>6. IsFiniteSet({i} \X DOMAIN ops) BY <2>4, <2>5, FS_Product
  <2>7. QED BY <2>6 DEF ops
<1> HIDE DEF n
<1>3. f \in Surjection(1..n, S)
  <2> HIDE DEF At
  <2>1. QED BY <1>1 DEF Surjection
<1>4. IsFiniteSet(1..n) BY <1>1, FS_Interval
<1>5. IsFiniteSet(S) BY <1>3, <1>4, FS_Surjection
<1>6. IsFiniteSet(UNION S) BY <1>2, <1>5, FS_UNION
<1>7. DOMAIN Ops = UNION S BY DEF Ops
<1>8. QED BY <1>6, <1>7

\* A document with no gaps is the service, whatever the values in the paths
\* of a request; every $ref leads to its own schema; and no operation is lost
\* in another's place (Build, Gaps and the mux of lib/openapi).
THEOREM GaplessIsTheService == OpenSpec => []DocumentIsTheService
<1>1. ASSUME OpenInv PROVE DocumentIsTheService
  <2> SUFFICES ASSUME Built PROVE DocumentIsTheService BY DEF DocumentIsTheService
  <2> DEFINE want == {Pattern(x) : x \in Range(Ops)}
  <2>1. /\ described.gaps = Gaps(Ops) /\ described.doc.paths = want
        /\ described.doc.schemas = [n \in {s.name : s \in Sources(Ops)} |->
                                      CHOOSE s \in Sources(Ops) : s.name = n]
        /\ NamedOnce(Sources(Ops))
        /\ IsInjective([i \in DOMAIN Ops |-> Pattern(Ops[i])])
    BY <1>1, BuiltIs
  <2>2. MuxInv BY <1>1 DEF OpenInv
  <2>3. ASSUME Gaps(Ops).missing = {}, Gaps(Ops).undocumented = {},
               NEW o \in want, NEW path \in Asks(o.path)
        PROVE  /\ Chosen(path, o.method) # None
               /\ \A method \in AnyMethod : Chosen(path, method) # None =>
                    \/ Chosen(path, method) \in want
                    \/ \A d \in want : d.path # Chosen(path, method).path
    <3>1. Chosen(path, o.method) # None BY <2>2, <2>3, DescribedIsTaken
    <3>2. ASSUME NEW method, Chosen(path, method) # None, NEW d \in want,
                 d.path = Chosen(path, method).path
          PROVE  Chosen(path, method) \in want
      BY <2>2, <2>3, <3>2, TakenIsDescribed
    <3> HIDE DEF want
    <3>3. QED BY <3>1, <3>2
  <2>4. ASSUME NEW o \in Range(Ops), NEW s \in o.refs PROVE described.doc.schemas[s.name] = s
    <3>1. s \in Sources(Ops) BY DEF Sources
    <3>2. described.doc.schemas[s.name] = CHOOSE t \in Sources(Ops) : t.name = s.name
      BY <2>1, <3>1
    <3>3. \A t \in Sources(Ops) : t.name = s.name => t = s BY <2>1, <3>1 DEF NamedOnce
    <3>4. QED BY <3>1, <3>2, <3>3
  <2>5. Cardinality(want) = Cardinality(DOMAIN Ops)
    <3> DEFINE f == [i \in DOMAIN Ops |-> Pattern(Ops[i])]
    <3>1. f \in Surjection(DOMAIN Ops, want) BY DEF Surjection, Range
    <3>2. f \in Injection(DOMAIN Ops, want) BY <2>1, <3>1 DEF Injection, Surjection, IsInjective
    <3> HIDE DEF f, want
    <3>3. QED BY <2>2, <3>1, <3>2, OpsAreFinite, FS_Surjection
  <2> HIDE DEF want
  <2>6. QED BY <2>1, <2>3, <2>4, <2>5 DEF DocumentIsTheService
<1>2. QED BY <1>1, OpenInvariance, PTL
=============================================================================
