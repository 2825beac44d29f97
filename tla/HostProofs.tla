----------------------------- MODULE HostProofs -----------------------------
(***************************************************************************)
(* The theorems of Host, for any modules with any prefixes, any guards of  *)
(* the database, any tokens and any way of a request over any proxies.     *)
(*                                                                         *)
(* A request is decided in one step, so most of the argument is about the  *)
(* decision: what a prefix of a path is (Prefixes), what the walk over     *)
(* X-Forwarded-For stops at (the client's address), what Verify and the    *)
(* mux let through (the answer).  The invariant only carries it to the     *)
(* states after: what a request was decided by, at a time the clock has    *)
(* shown, does not change while it is inside.                              *)
(***************************************************************************)
EXTENDS Host, FiniteSetTheorems, SequenceTheorems, TLAPS

-----------------------------------------------------------------------------
(* Smallest and largest.                                                   *)

\* Any numbers have a smallest.
LEMMA Smallest ==
    ASSUME NEW T, T \subseteq Nat, T # {}
    PROVE  \E x \in T : \A y \in T : x <= y
<1>1. PICK x \in T : \A y \in T : ~(<<y, x>> \in OpToRel(<, Nat))
  BY WFMin, NatLessThanWellFounded
<1>2. \A y \in T : ~(y < x) BY <1>1 DEF OpToRel
<1>3. QED BY <1>2

\* Numbers below a bound have a largest, and Max is it.
LEMMA Largest ==
    ASSUME NEW n \in Nat, NEW T, T \subseteq 0..n, T # {}
    PROVE  Max(T) \in T /\ \A y \in T : y <= Max(T)
<1>0. \A y \in T : y \in Int /\ 0 <= y /\ y <= n OBVIOUS
<1>1. {n - y : y \in T} \subseteq Nat /\ {n - y : y \in T} # {}
  <2>1. \A y \in T : n - y \in Nat BY <1>0
  <2>2. QED BY <2>1
<1>2. PICK d \in {n - y : y \in T} : \A e \in {n - y : y \in T} : d <= e BY <1>1, Smallest
<1>3. PICK x \in T : d = n - x BY <1>2
<1>4. ASSUME NEW y \in T PROVE y <= x
  <2>1. n - x <= n - y BY <1>2, <1>3
  <2>2. QED BY <1>0, <2>1
<1>5. \E m \in T : \A y \in T : m >= y BY <1>4
<1>6. Max(T) \in T /\ \A y \in T : Max(T) >= y BY <1>5 DEF Max
<1>7. QED BY <1>6

-----------------------------------------------------------------------------
(* Prefixes of paths.                                                      *)

Path == Seq(STRING)

\* One path is under another when it begins with it.
LEMMA UnderAt ==
    ASSUME NEW p \in Path, NEW q \in Path
    PROVE  Under(p, q) <=> Len(q) <= Len(p) /\ \A i \in 1..Len(q) : q[i] = p[i]
<1>1. CASE Len(q) <= Len(p)
  <2>1. SubSeq(q, 1, Len(q)) \in Path /\ SubSeq(p, 1, Len(q)) \in Path BY <1>1 DEF Path
  <2>2. Len(SubSeq(q, 1, Len(q))) = Len(q) /\ Len(SubSeq(p, 1, Len(q))) = Len(q)
    BY <1>1 DEF Path
  <2>3. \A i \in 1..Len(q) : SubSeq(q, 1, Len(q))[i] = q[i] /\ SubSeq(p, 1, Len(q))[i] = p[i]
    BY <1>1 DEF Path
  <2>4. SubSeq(q, 1, Len(q)) = SubSeq(p, 1, Len(q)) <=> \A i \in 1..Len(q) : q[i] = p[i]
    BY <2>1, <2>2, <2>3 DEF Path
  <2>5. QED BY <1>1, <2>4 DEF Under, IsPrefix
<1>2. CASE ~(Len(q) <= Len(p)) BY <1>2 DEF Under, IsPrefix
<1>3. QED BY <1>1, <1>2

\* What is under a path that is under another is under that.
LEMMA UnderTransitive ==
    ASSUME NEW p \in Path, NEW q \in Path, NEW r \in Path, Under(p, q), Under(q, r)
    PROVE  Under(p, r)
<1>1. Len(q) \in Nat /\ Len(r) \in Nat /\ Len(p) \in Nat BY DEF Path
<1>2. QED BY <1>1, UnderAt

\* Two paths that one is under lie on one line.
LEMMA OnOneLine ==
    ASSUME NEW p \in Path, NEW q \in Path, NEW r \in Path, Under(p, q), Under(p, r)
    PROVE  Under(q, r) \/ Under(r, q)
<1>1. Len(q) \in Nat /\ Len(r) \in Nat /\ Len(p) \in Nat BY DEF Path
<1>2. QED BY <1>1, UnderAt

\* A path under another that it is not is the longer one.
LEMMA UnderIsLonger ==
    ASSUME NEW p \in Path, NEW q \in Path, Under(p, q), p # q
    PROVE  Len(q) < Len(p)
<1>1. Len(q) \in Nat /\ Len(p) \in Nat BY DEF Path
<1>2. Len(q) = Len(p) => p = q BY UnderAt DEF Path
<1>3. QED BY <1>1, <1>2, UnderAt

\* Every path that a module claims is under a prefix that Prefixes leaves.
LEMMA PrefixesCover ==
    ASSUME NEW all, Range(all) \subseteq Path, NEW path \in Path,
           NEW j \in DOMAIN all, Under(path, all[j])
    PROVE  \E i \in PrefixesOf(all) : Under(path, all[i])
<1> DEFINE On == {i \in DOMAIN all : Under(path, all[i])}
           T == {Len(all[i]) : i \in On}
<1>1. \A i \in DOMAIN all : all[i] \in Path BY DEF Range
<1>2. T \subseteq Nat /\ T # {}
  <2>1. \A i \in DOMAIN all : Len(all[i]) \in Nat BY <1>1 DEF Path
  <2>2. Len(all[j]) \in T OBVIOUS
  <2>3. QED BY <2>1, <2>2
<1>3. PICK x \in T : \A y \in T : x <= y BY <1>2, Smallest
<1>4. PICK i \in On : x = Len(all[i]) BY <1>3
<1>5. ASSUME NEW q \in Range(all), q # all[i] PROVE ~Under(all[i], q)
  <2>1. PICK k \in DOMAIN all : q = all[k] BY DEF Range
  <2>2. SUFFICES ASSUME Under(all[i], q) PROVE FALSE
    OBVIOUS
  <2>3. Under(path, q) BY <1>1, <1>4, <2>1, <2>2, UnderTransitive
  <2>4. Len(q) < Len(all[i]) BY <1>1, <1>4, <1>5, <2>1, <2>2, UnderIsLonger
  <2>5. Len(q) \in T BY <2>1, <2>3
  <2>6. Len(q) \in Nat /\ Len(all[i]) \in Nat BY <1>1, <1>4, <2>1 DEF Path
  <2>7. QED BY <1>3, <1>4, <2>4, <2>5, <2>6
<1>6. QED BY <1>4, <1>5 DEF PrefixesOf

\* No prefix that Prefixes leaves is under another.
LEMMA PrefixesApart ==
    ASSUME NEW all, ~ClaimedTwice(all), NEW i \in PrefixesOf(all), NEW j \in PrefixesOf(all),
           i # j
    PROVE  ~Under(all[i], all[j])
<1>1. i \in DOMAIN all /\ j \in DOMAIN all BY DEF PrefixesOf
<1>2. all[i] # all[j] BY <1>1 DEF ClaimedTwice, IsInjective
<1>3. all[j] \in Range(all) BY <1>1 DEF Range
<1>4. QED BY <1>2, <1>3 DEF PrefixesOf

\* What is announced is never refused for overlapping.
LEMMA AnnouncedIsTaken ==
    ASSUME ~ClaimedTwice(Claimed), announced = OpenPrefixes(PrefixesOf(Claimed))
    PROVE  ~Overlap(announced)
<1>1. announced \subseteq PrefixesOf(Claimed) BY DEF OpenPrefixes
<1>2. QED BY <1>1, PrefixesApart DEF Overlap

\* The prefixes of a setup are paths, and so are the routes of the database.
LEMMA SetupPaths ==
    ASSUME setup \in Setups
    PROVE  Range(Claimed) \subseteq Path /\ (setup.routes # None => setup.routes \subseteq Path)
<1>1. FlattenSeq(setup.manifest) \in Seq(Path) BY HostAssumption DEF Path
<1>2. Range(Claimed) \subseteq Path BY <1>1 DEF Claimed, Range
<1>3. QED BY <1>2, HostAssumption DEF Path

\* A path that a module claims and a guard answers for is announced.
LEMMA AnnouncedIsWhole ==
    ASSUME setup \in Setups, announced = OpenPrefixes(PrefixesOf(Claimed)), setup.routes # None,
           NEW path \in Path, NEW p \in Range(Claimed), Under(path, p),
           NEW route \in setup.routes, Under(path, route)
    PROVE  \E i \in announced : Under(path, Claimed[i])
<1>1. PICK j \in DOMAIN Claimed : p = Claimed[j] BY DEF Range
<1>2. PICK i \in PrefixesOf(Claimed) : Under(path, Claimed[i])
  BY <1>1, SetupPaths, PrefixesCover
<1>3. Claimed[i] \in Path BY <1>2, SetupPaths DEF PrefixesOf, Range
<1>4. route \in Path BY SetupPaths
<1>5. LiesOn(Claimed[i], route) BY <1>2, <1>3, <1>4, OnOneLine DEF LiesOn
<1>6. i \in announced BY <1>2, <1>5 DEF OpenPrefixes
<1>7. QED BY <1>2, <1>6

-----------------------------------------------------------------------------
(* The client's address.                                                   *)

Hop == [addr : Addresses, hides : BOOLEAN]
Element == Addresses \cup {None}

\* The types of what a request travelled over, and of what it brought.
LEMMA TravelTypes ==
    ASSUME NEW q \in Menu
    PROVE  /\ q.hops \in Seq(Hop) /\ q.header \in Seq(Element) /\ q.client \in Element
           /\ Len(q.hops) \in Nat /\ Len(q.header) \in Nat
           /\ \A i \in 1..Len(q.hops) : q.hops[i].addr \in Addresses /\ q.hops[i].hides \in BOOLEAN
<1>1. q.hops \in Seq(Hop) /\ q.header \in Seq(Element) /\ q.client \in Element
  BY HostAssumption DEF Hop, Element
<1>2. Len(q.hops) \in Nat /\ Len(q.header) \in Nat BY <1>1
<1>3. ASSUME NEW i \in 1..Len(q.hops)
      PROVE  q.hops[i].addr \in Addresses /\ q.hops[i].hides \in BOOLEAN
  <2>1. q.hops[i] \in Hop BY <1>1
  <2>2. QED BY <2>1 DEF Hop
<1>4. QED BY <1>1, <1>2, <1>3

\* Who a request comes from and over.
Way(q) == {q.client} \cup {q.hops[i].addr : i \in 1..Len(q.hops)}

\* The client has an address, and every hop says who spoke to it.
Honest(q) == q.client # None /\ \A i \in 1..Len(q.hops) : ~q.hops[i].hides

\* Whoever speaks is on the way, and has an address, but for the client.
LEMMA SendersAreOnTheWay ==
    ASSUME NEW q \in Menu, NEW i \in 1..(Len(q.hops) + 1)
    PROVE  /\ Sender(q, i) \in Way(q) /\ Sender(q, i) \in Element
           /\ i # 1 => Sender(q, i) \in Addresses
<1>1. Len(q.hops) \in Nat /\ q.client \in Element BY TravelTypes
<1>2. CASE i = 1 BY <1>1, <1>2 DEF Sender, Way
<1>3. CASE i # 1
  <2>1. i - 1 \in 1..Len(q.hops) BY <1>1, <1>3
  <2>2. q.hops[i - 1].addr \in Addresses BY <2>1, TravelTypes
  <2>3. QED BY <1>3, <2>1, <2>2 DEF Sender, Way, Element
<1>4. QED BY <1>2, <1>3

\* The chain that arrives: the client's own header, then what each hop wrote.
LEMMA ChainAt ==
    ASSUME NEW q \in Menu
    PROVE  LET chain == ForwardedChain(q)
               m == Len(q.header)
               n == Len(q.hops)
           IN  /\ m \in Nat /\ n \in Nat
               /\ chain \in Seq(Element) /\ Len(chain) = m + n
               /\ \A i \in 1..n : chain[m + i] = IF q.hops[i].hides THEN None ELSE Sender(q, i)
<1> DEFINE wrote == [i \in 1..Len(q.hops) |-> IF q.hops[i].hides THEN None ELSE Sender(q, i)]
<1>1. q.header \in Seq(Element) BY TravelTypes
<1>2. Len(q.hops) \in Nat /\ Len(q.header) \in Nat BY TravelTypes
<1>3. \A i \in 1..Len(q.hops) : wrote[i] \in Element
  BY <1>2, SendersAreOnTheWay DEF Element
<1>4. wrote \in Seq(Element) /\ Len(wrote) = Len(q.hops)
  <2>1. wrote \in [1..Len(q.hops) -> Element] BY <1>3
  <2> HIDE DEF wrote
  <2>2. QED BY <1>2, <2>1
<1>5. ForwardedChain(q) = q.header \o wrote BY DEF ForwardedChain
<1> HIDE DEF wrote
<1>6. /\ q.header \o wrote \in Seq(Element)
      /\ Len(q.header \o wrote) = Len(q.header) + Len(wrote)
      /\ \A i \in 1..(Len(q.header) + Len(wrote)) :
           (q.header \o wrote)[i] =
             IF i <= Len(q.header) THEN q.header[i] ELSE wrote[i - Len(q.header)]
  BY <1>1, <1>4, ConcatProperties
<1>7. \A i \in 1..Len(q.hops) : (q.header \o wrote)[Len(q.header) + i] = wrote[i]
  <2> SUFFICES ASSUME NEW i \in 1..Len(q.hops)
               PROVE  (q.header \o wrote)[Len(q.header) + i] = wrote[i]
    OBVIOUS
  <2>1. \A m, n \in Nat : \A k \in 1..n : m + k \in 1..(m + n) /\ ~(m + k <= m) /\ m + k - m = k
    OBVIOUS
  <2>2. /\ Len(q.header) + i \in 1..(Len(q.header) + Len(wrote))
        /\ ~(Len(q.header) + i <= Len(q.header)) /\ Len(q.header) + i - Len(q.header) = i
    BY <1>2, <1>4, <2>1
  <2>3. QED BY <1>6, <2>2
<1>8. \A i \in 1..Len(q.hops) :
        wrote[i] = IF q.hops[i].hides THEN None ELSE Sender(q, i)
  BY DEF wrote
<1>9. QED BY <1>2, <1>4, <1>5, <1>6, <1>7, <1>8

\* There is an address, when the peer has one: what the walk has read before
\* it stops are addresses that are trusted.
LEMMA AddressIsSome ==
    ASSUME NEW q \in Menu, NEW trusted, trusted = None \/ trusted \subseteq Addresses,
           ClientAddr(q, trusted) = None
    PROVE  Peer(q) = None
<1> DEFINE chain == ForwardedChain(q)
           read == Append(chain, Peer(q))
           stops == {i \in 1..Len(chain) : chain[i] \notin trusted}
           stop == Max(stops \cup {0})
<1>1. chain \in Seq(Element) /\ Len(chain) \in Nat
  <2>1. chain \in Seq(Element) BY ChainAt
  <2> HIDE DEF chain
  <2>2. QED BY <2>1
<1>2. None \notin Addresses BY HostAssumption
<1>3. CASE trusted = None BY <1>2, <1>3 DEF ClientAddr
<1>4. CASE trusted # None
  <2>1. trusted \subseteq Addresses BY <1>4
  <2>2. \/ ClientAddr(q, trusted) = Peer(q)
        \/ stop # 0 /\ chain[stop] \in Addresses /\ ClientAddr(q, trusted) = chain[stop]
        \/ ClientAddr(q, trusted) = read[stop + 1]
    BY <1>4 DEF ClientAddr
  <2> HIDE DEF chain
  <2>3. stops \cup {0} \subseteq 0..Len(chain) BY <1>1
  <2>4. stop \in stops \cup {0} /\ \A y \in stops \cup {0} : y <= stop
    <3> HIDE DEF stops
    <3>1. QED BY <1>1, <2>3, Largest
  <2>5. stop \in 0..Len(chain) BY <2>3, <2>4
  <2> HIDE DEF stop
  <2>6. CASE stop = Len(chain)
    <3>1. read[stop + 1] = Peer(q) BY <1>1, <2>6
    <3>2. QED BY <1>2, <2>2, <3>1
  <2>7. CASE stop # Len(chain)
    <3>1. stop + 1 \in 1..Len(chain) /\ ~(stop + 1 <= stop) BY <1>1, <2>5, <2>7
    <3>2. read[stop + 1] = chain[stop + 1] BY <1>1, <3>1
    <3>3. stop + 1 \notin stops BY <2>4, <3>1
    <3>4. chain[stop + 1] \in trusted BY <3>1, <3>3
    <3>5. QED BY <1>2, <2>1, <2>2, <3>2, <3>4
  <2>8. QED BY <2>6, <2>7
<1>5. QED BY <1>3, <1>4

\* Without a list, and with a gateway in front, the client is who the gateway
\* says, or the gateway.
LEMMA AddressWithoutList ==
    ASSUME NEW q \in Menu, q.hops # <<>>
    PROVE  /\ ClientAddr(q, None) \in Way(q)
           /\ Len(q.hops) = 1 /\ Honest(q) => ClientAddr(q, None) = q.client
<1> DEFINE chain == ForwardedChain(q)
           m == Len(q.header)
           n == Len(q.hops)
           last == IF q.hops[n].hides THEN None ELSE Sender(q, n)
<1>1. m \in Nat /\ n \in Nat /\ q.hops \in Seq(Hop) BY TravelTypes
<1>2. n # 0 BY <1>1
<1>3. n \in 1..n /\ n \in 1..(n + 1) /\ n + 1 \in 1..(n + 1) BY <1>1, <1>2
<1>4. chain \in Seq(Element) /\ Len(chain) = m + n BY ChainAt
<1>5. chain[m + n] = last BY <1>3, ChainAt
<1>6. chain # <<>>
  <2> HIDE DEF chain, m, n
  <2>1. Len(chain) # 0 BY <1>1, <1>2, <1>4
  <2>2. QED BY <2>1
<1>7. Last(chain) = last BY <1>4, <1>5 DEF Last
<1>8. Sender(q, n) \in Way(q) /\ Sender(q, n) \in Element BY <1>3, SendersAreOnTheWay
<1>9. Peer(q) \in Way(q) BY <1>3, SendersAreOnTheWay DEF Peer
<1>10. None \notin Addresses BY HostAssumption
<1>11. ClientAddr(q, None) = IF last \in Addresses THEN last ELSE Peer(q)
  BY <1>6, <1>7 DEF ClientAddr
<1>12. CASE q.hops[n].hides
  <2>1. ClientAddr(q, None) = Peer(q) BY <1>10, <1>11, <1>12
  <2>2. ~Honest(q) BY <1>3, <1>12 DEF Honest
  <2>3. QED BY <1>9, <2>1, <2>2
<1>13. CASE ~q.hops[n].hides
  <2>1. ClientAddr(q, None) = IF Sender(q, n) \in Addresses THEN Sender(q, n) ELSE Peer(q)
    BY <1>11, <1>13
  <2>2. n = 1 => Sender(q, n) = q.client BY DEF Sender
  <2>3. Sender(q, n) \notin Addresses => Sender(q, n) = None BY <1>8 DEF Element
  <2>4. QED BY <1>8, <1>9, <2>1, <2>2, <2>3 DEF Honest
<1>14. QED BY <1>12, <1>13

\* Behind trusted proxies, a client that is not one of them cannot choose its
\* address: the walk from the right stops where the first hop wrote, or later.
LEMMA AddressWithList ==
    ASSUME NEW q \in Menu, NEW trusted, trusted # None, trusted \subseteq Addresses,
           q.client \notin trusted
    PROVE  /\ ClientAddr(q, trusted) \in Way(q)
           /\ Way(q) \ {q.client} \subseteq trusted /\ Honest(q) => ClientAddr(q, trusted) = q.client
<1> DEFINE chain == ForwardedChain(q)
           m == Len(q.header)
           n == Len(q.hops)
           read == Append(chain, Peer(q))
           stops == {i \in 1..Len(chain) : chain[i] \notin trusted}
           stop == Max(stops \cup {0})
<1>1. m \in Nat /\ n \in Nat BY TravelTypes
<1>2. chain \in Seq(Element) /\ Len(chain) = m + n BY ChainAt
<1>3. \A i \in 1..n : chain[m + i] = IF q.hops[i].hides THEN None ELSE Sender(q, i) BY ChainAt
<1> HIDE DEF m, n, chain
<1>4. \A i \in 1..(n + 1) : /\ Sender(q, i) \in Way(q) /\ Sender(q, i) \in Element
                            /\ i # 1 => Sender(q, i) \in Addresses
  BY SendersAreOnTheWay DEF n
<1>5. n + 1 \in 1..(n + 1) BY <1>1
<1>6. Peer(q) = Sender(q, n + 1) /\ Peer(q) \in Way(q)
  BY <1>4, <1>5 DEF Peer, n
<1>7. Sender(q, 1) = q.client BY DEF Sender
<1>8. None \notin Addresses BY HostAssumption
<1>9. ClientAddr(q, trusted) = IF Peer(q) \notin trusted THEN Peer(q)
                               ELSE IF stop # 0 /\ chain[stop] \in Addresses THEN chain[stop]
                               ELSE read[stop + 1]
  BY DEF ClientAddr, chain
<1>10. CASE Peer(q) \notin trusted
  <2>1. ClientAddr(q, trusted) = Peer(q) BY <1>9, <1>10
  <2>2. Way(q) \ {q.client} \subseteq trusted => Peer(q) = q.client BY <1>6, <1>10
  <2>3. QED BY <1>6, <2>1, <2>2
<1>11. CASE Peer(q) \in trusted
  <2>1. n # 0 BY <1>6, <1>7, <1>11
  <2>2. 1 \in 1..n /\ m + 1 \in 1..(m + n) BY <1>1, <2>1
  <2>3. chain[m + 1] \notin trusted
    <3>1. chain[m + 1] = IF q.hops[1].hides THEN None ELSE q.client BY <1>3, <1>7, <2>2
    <3>2. QED BY <1>8, <3>1
  <2>4. m + 1 \in stops BY <1>2, <2>2, <2>3
  <2>5. stops \cup {0} \subseteq 0..(m + n) /\ m + n \in Nat BY <1>1, <1>2
  <2>6. stop \in stops \cup {0} /\ \A y \in stops \cup {0} : y <= stop
    <3> HIDE DEF stops
    <3>1. QED BY <2>5, Largest
  <2>7. m + 1 <= stop /\ stop \in stops \cup {0}
    <3> HIDE DEF stops, stop
    <3>1. QED BY <2>4, <2>6
  <2>8. stop # 0 /\ stop \in 1..(m + n) /\ chain[stop] \notin trusted
    <3> HIDE DEF stop
    <3>1. stop # 0 BY <1>1, <2>7
    <3>2. QED BY <1>2, <2>7, <3>1
  <2> HIDE DEF stop, stops
  <2>9. PICK k \in 1..n : stop = m + k
    <3>1. stop - m \in 1..n /\ stop = m + (stop - m) BY <1>1, <2>7, <2>8
    <3>2. QED BY <3>1
  <2>10. chain[stop] = IF q.hops[k].hides THEN None ELSE Sender(q, k) BY <1>3, <2>9
  <2>11. k \in 1..(n + 1) /\ k + 1 \in 1..(n + 1) BY <1>1, <2>9
  <2>12. CASE ~q.hops[k].hides /\ Sender(q, k) \in Addresses
    <3>1. chain[stop] = Sender(q, k) /\ Sender(q, k) \in Addresses /\ Sender(q, k) \in Way(q)
      BY <1>4, <2>10, <2>11, <2>12
    <3>2. ClientAddr(q, trusted) = Sender(q, k) BY <1>9, <1>11, <2>8, <3>1
    <3>3. Way(q) \ {q.client} \subseteq trusted => Sender(q, k) = q.client BY <2>8, <3>1
    <3>4. QED BY <3>1, <3>2, <3>3
  <2>13. CASE q.hops[k].hides \/ Sender(q, k) \notin Addresses
    <3>1. chain[stop] = None BY <1>4, <2>10, <2>11, <2>13 DEF Element
    <3>2. ClientAddr(q, trusted) = read[stop + 1] BY <1>8, <1>9, <1>11, <3>1
    <3>3. ~Honest(q)
      <4>1. CASE q.hops[k].hides BY <2>9, <4>1 DEF Honest, n
      <4>2. CASE Sender(q, k) \notin Addresses
        <5>1. k = 1 /\ q.client = None BY <1>4, <1>7, <2>11, <4>2 DEF Element
        <5>2. QED BY <5>1 DEF Honest
      <4>3. QED BY <2>13, <4>1, <4>2
    <3>4. CASE k = n
      <4>1. stop + 1 = Len(chain) + 1 BY <1>1, <1>2, <2>9, <3>4
      <4>2. read[stop + 1] = Peer(q) BY <1>2, <4>1
      <4>3. QED BY <1>6, <3>2, <3>3, <4>2
    <3>5. CASE k # n
      <4>1. k + 1 \in 1..n /\ stop + 1 = m + (k + 1) /\ stop + 1 \in 1..(m + n)
        BY <1>1, <2>9, <3>5
      <4>2. read[stop + 1] = chain[stop + 1] BY <1>2, <4>1
      <4>3. chain[stop + 1] \in trusted
        <5>1. ~(stop + 1 <= stop) BY <1>1, <2>9
        <5>2. stop + 1 \notin stops BY <2>6, <5>1
        <5>3. QED BY <1>2, <4>1, <5>2 DEF stops
      <4>4. chain[stop + 1] = IF q.hops[k + 1].hides THEN None ELSE Sender(q, k + 1)
        BY <1>3, <4>1
      <4>5. chain[stop + 1] = Sender(q, k + 1) BY <1>8, <4>3, <4>4
      <4>6. Sender(q, k + 1) \in Way(q) BY <1>4, <2>11
      <4>7. QED BY <3>2, <3>3, <4>2, <4>5, <4>6
    <3>6. QED BY <3>4, <3>5
  <2>14. QED BY <2>12, <2>13
<1>12. QED BY <1>10, <1>11

-----------------------------------------------------------------------------
(* What is decided.                                                        *)

\* A token that was not signed gets one answer.
LEMMA UnsignedIsRefused ==
    ASSUME NEW q, NEW t, q.token # None, q.token.form = "jwt" => ~Signed(q.token)
    PROVE  Decision(q, t) = Problem(401, "ERR-401-001")
<1>1. Verify(q.token, t) \in {"malformed", "audience", "signature"} BY DEF Verify, Signed
<1>2. QED BY <1>1 DEF Decision, Unauthorized

\* What Verify lets through was signed, by an issuer accepted, and has time left.
LEMMA VerifiedIsValid ==
    ASSUME NEW token, NEW t, Verify(token, t) = "ok"
    PROVE  Signed(token) /\ token.iss \in Issuers /\ token.exp # 0 /\ ~(t >= token.exp)
BY DEF Verify, Signed

\* What is not the host's answer got past Verify.
LEMMA RoutesAreVerified ==
    ASSUME NEW q, NEW t, Decision(q, t).by # "host"
    PROVE  q.token # None /\ Verify(q.token, t) = "ok"
<1>1. \A s, k : Problem(s, k).by = "host" BY DEF Problem
<1>2. CASE q.token = None BY <1>1, <1>2 DEF Decision
<1>3. CASE q.token # None /\ Verify(q.token, t) # "ok"
  <2>1. Decision(q, t) = Unauthorized(Verify(q.token, t)) BY <1>3 DEF Decision
  <2>2. Unauthorized(Verify(q.token, t)).by = "host" BY <1>1 DEF Unauthorized
  <2>3. QED BY <2>1, <2>2
<1>4. QED BY <1>2, <1>3

\* What serves GET serves HEAD.
LEMMA HeadIsServed ==
    ASSUME NEW path, Handler(path, "GET") # {}
    PROVE  Handler(path, "HEAD") # {}
<1>1. PICK route \in mux : Matches(route, path, "GET") BY DEF Handler
<1>2. route.method = "GET" BY <1>1 DEF Matches
<1>3. Matches(route, path, "HEAD") BY <1>1, <1>2 DEF Matches
<1>4. QED BY <1>3 DEF Handler

\* A canonical path is not redirected.
LEMMA CanonicalStays ==
    ASSUME NEW path \in Path, Canonical(path), NEW method
    PROVE  MuxServes(path, method) = IF Handler(path, method) = {} THEN "text" ELSE "handler"
BY DEF Canonical, MuxServes

\* Allow names the methods the mux serves on a path, and no other.
LEMMA AllowIsServed ==
    ASSUME NEW path, NEW m \in Allow(path)
    PROVE  Handler(path, m) # {}
BY HeadIsServed DEF Allow

\* The answer is the host's or a route's; a 405 names other methods that serve.
LEMMA DecisionIsTheHosts ==
    ASSUME NEW q \in Menu, NEW t
    PROVE  LET a == Decision(q, t)
           IN  /\ a.by \in {"host", "handler"}
               /\ a.status = 405 => /\ a.allow # {}
                                    /\ q.method \notin a.allow
                                    /\ \A m \in a.allow : MuxServes(q.path, m) = "handler"
<1> DEFINE a == Decision(q, t)
<1>0. q.path \in Path BY HostAssumption DEF Path
<1>1. \A s, k : Problem(s, k).by = "host" /\ Problem(s, k).status = s BY DEF Problem
<1>2. CASE q.token = None
  <2>1. a = Problem(401, "ERR-401-001") BY <1>2 DEF Decision
  <2>2. a.by = "host" /\ a.status = 401 BY <1>1, <2>1
  <2>3. QED BY <2>2
<1>3. CASE q.token # None /\ Verify(q.token, t) # "ok"
  <2>1. a = Unauthorized(Verify(q.token, t)) BY <1>3 DEF Decision
  <2>2. a.by = "host" /\ a.status = 401 BY <1>1, <2>1 DEF Unauthorized
  <2>3. QED BY <2>2
<1>4. CASE q.token # None /\ Verify(q.token, t) = "ok" /\ ~Canonical(q.path)
  <2>1. a = Problem(404, None) BY <1>4 DEF Decision
  <2>2. a.by = "host" /\ a.status = 404 BY <1>1, <2>1
  <2>3. QED BY <2>2
<1>5. CASE q.token # None /\ Verify(q.token, t) = "ok" /\ Canonical(q.path)
  <2>1. \A m : MuxServes(q.path, m) = IF Handler(q.path, m) = {} THEN "text" ELSE "handler"
    BY <1>0, <1>5, CanonicalStays
  <2>2. CASE MuxServes(q.path, q.method) = "text"
    <3>1. a = NotServed(q.path) BY <1>5, <2>2 DEF Decision
    <3>2. CASE Allow(q.path) = {}
      <4>1. a = Problem(404, None) BY <3>1, <3>2 DEF NotServed
      <4>2. a.by = "host" /\ a.status = 404 BY <1>1, <4>1
      <4>3. QED BY <4>2
    <3>3. CASE Allow(q.path) # {}
      <4>1. a = [Problem(405, None) EXCEPT !.allow = Allow(q.path)] BY <3>1, <3>3 DEF NotServed
      <4>2. a.by = "host" /\ a.allow = Allow(q.path) BY <4>1 DEF Problem
      <4>3. \A m \in Allow(q.path) : Handler(q.path, m) # {} BY AllowIsServed
      <4>4. Handler(q.path, q.method) = {} BY <2>1, <2>2
      <4>5. QED BY <2>1, <3>3, <4>2, <4>3, <4>4
    <3>4. QED BY <3>2, <3>3
  <2>3. CASE MuxServes(q.path, q.method) # "text" /\ ~q.query
    <3>1. a = Problem(400, None) BY <1>5, <2>3 DEF Decision
    <3>2. a.by = "host" /\ a.status = 400 BY <1>1, <3>1
    <3>3. QED BY <3>2
  <2>4. CASE MuxServes(q.path, q.method) # "text" /\ q.query
    <3>1. MuxServes(q.path, q.method) = "handler" BY <2>1, <2>4
    <3>2. a = [by |-> "handler", status |-> 0, code |-> None, allow |-> {}]
      BY <1>5, <2>4, <3>1 DEF Decision
    <3>3. a.by = "handler" /\ a.status = 0 BY <3>2
    <3>4. QED BY <3>3
  <2>5. QED BY <2>2, <2>3, <2>4
<1>6. QED BY <1>2, <1>3, <1>4, <1>5

\* What is decided depends on the patterns and the trusted proxies only.
LEMMA DecidedByTheSetup ==
    ASSUME setup' = setup, mux' = mux, NEW q, NEW t
    PROVE  Decision(q, t)' = Decision(q, t) /\ SessionOf(q, t)' = SessionOf(q, t)
<1>1. \A m : Handler(q.path, m)' = Handler(q.path, m) BY DEF Handler
<1>2. \A m : MuxServes(q.path, m)' = MuxServes(q.path, m) BY <1>1 DEF MuxServes
<1>3. Allow(q.path)' = Allow(q.path) BY <1>1 DEF Allow
<1>4. NotServed(q.path)' = NotServed(q.path) BY <1>3 DEF NotServed
<1>5. Decision(q, t)' = Decision(q, t) BY <1>2, <1>4 DEF Decision
<1>6. SessionOf(q, t)' = SessionOf(q, t) BY DEF SessionOf
<1>7. QED BY <1>5, <1>6

-----------------------------------------------------------------------------
(* The inductive invariant.                                                *)

\* The start: what got past New claims nothing twice, and what is announced
\* is what OpenPrefixes left.
StartInv ==
    /\ setup \in Setups
    /\ stage \in {"start", "failed", "composed", "announced", "empty", "serving"}
    /\ stage \in {"composed", "announced"} => ~ClaimedTwice(Claimed)
    /\ stage \in {"announced", "empty", "serving"} => announced = OpenPrefixes(PrefixesOf(Claimed))

\* The types of the requests.
CallTypes ==
    /\ clock \in 0..MaxTime
    /\ pc \in [Calls -> {"none", "inside", "done"}]
    /\ call \in [Calls -> Menu \cup {None}]
    /\ DOMAIN sess = Calls /\ DOMAIN answer = Calls

\* Every request that came was decided at one time, and found the session of
\* that decision.
CallInv ==
    \A c \in Calls :
        /\ pc[c] = "none" => sess[c] = None
        /\ pc[c] # "none" =>
             /\ stage = "serving"
             /\ \E q \in Menu, t \in Nat : /\ call[c] = q
                                           /\ answer[c] = Decision(q, t)
                                           /\ sess[c] = SessionOf(q, t)

Inside == {c \in Calls : pc[c] = "inside"}

\* The requests inside are finitely many, and counted.
CountInv == IsFiniteSet(Inside) /\ inFlight = Cardinality(Inside)

IndInv == StartInv /\ CallTypes /\ CallInv /\ CountInv

LEMMA InitIndInv == Init => IndInv
<1> SUFFICES ASSUME Init PROVE IndInv
  OBVIOUS
<1>1. StartInv BY DEF Init, StartInv
<1>2. CallTypes BY HostAssumption DEF Init, CallTypes
<1>3. CallInv BY DEF Init, CallInv
<1>4. CountInv
  <2>1. Inside = {} BY DEF Init, Inside
  <2>2. QED BY <2>1, FS_EmptySet DEF Init, CountInv
<1>5. QED BY <1>1, <1>2, <1>3, <1>4 DEF IndInv

\* A step that leaves the requests alone, while there are none or with the
\* setup and the patterns as they were, keeps what is known of them.
LEMMA CallsStay ==
    ASSUME IndInv, UNCHANGED callVars, clock' \in 0..MaxTime, setup' = setup,
           (stage' = stage /\ mux' = mux) \/ stage # "serving"
    PROVE  CallTypes' /\ CallInv' /\ CountInv'
<1>1. CallTypes' BY DEF IndInv, CallTypes, callVars
<1>2. CallInv'
  <2>1. SUFFICES ASSUME NEW c \in Calls
                 PROVE  /\ pc'[c] = "none" => sess'[c] = None
                        /\ pc'[c] # "none" =>
                             /\ stage' = "serving"
                             /\ \E q \in Menu, t \in Nat : /\ call'[c] = q
                                                           /\ answer'[c] = Decision(q, t)'
                                                           /\ sess'[c] = SessionOf(q, t)'
    BY DEF CallInv
  <2>2. CASE pc[c] = "none" BY <2>2 DEF IndInv, CallInv, callVars
  <2>3. CASE pc[c] # "none"
    <3>1. stage = "serving" BY <2>3 DEF IndInv, CallInv
    <3>2. stage' = "serving" /\ mux' = mux BY <3>1
    <3>3. PICK q \in Menu, t \in Nat :
             call[c] = q /\ answer[c] = Decision(q, t) /\ sess[c] = SessionOf(q, t)
      BY <2>3 DEF IndInv, CallInv
    <3>4. Decision(q, t)' = Decision(q, t) /\ SessionOf(q, t)' = SessionOf(q, t)
      BY <3>2, DecidedByTheSetup
    <3>5. pc' = pc /\ call' = call /\ answer' = answer /\ sess' = sess BY DEF callVars
    <3>6. QED BY <2>3, <3>2, <3>3, <3>4, <3>5
  <2>4. QED BY <2>2, <2>3
<1>3. CountInv' BY DEF IndInv, CountInv, Inside, callVars
<1>4. QED BY <1>1, <1>2, <1>3

LEMMA NewStep == IndInv /\ New => IndInv'
<1> SUFFICES ASSUME IndInv, New PROVE IndInv'
  OBVIOUS
<1>1. StartInv'
  <2>1. setup' = setup /\ Claimed' = Claimed BY DEF New, Claimed
  <2>2. ClaimedTwice(Claimed)' <=> ClaimedTwice(Claimed) BY <2>1 DEF ClaimedTwice
  <2>3. stage' = "failed" \/ (stage' = "composed" /\ ~ClaimedTwice(Claimed)) BY DEF New
  <2>4. QED BY <2>1, <2>2, <2>3 DEF IndInv, StartInv
<1>2. CallTypes' /\ CallInv' /\ CountInv'
  BY CallsStay DEF New, IndInv, CallTypes
<1>3. QED BY <1>1, <1>2 DEF IndInv

LEMMA AnnounceStep == IndInv /\ Announce => IndInv'
<1> SUFFICES ASSUME IndInv, Announce PROVE IndInv'
  OBVIOUS
<1>1. StartInv'
  <2>1. setup' = setup /\ Claimed' = Claimed BY DEF Announce, Claimed
  <2>2. ClaimedTwice(Claimed)' <=> ClaimedTwice(Claimed) BY <2>1 DEF ClaimedTwice
  <2>3. OpenPrefixes(PrefixesOf(Claimed))' = OpenPrefixes(PrefixesOf(Claimed))
    BY <2>1 DEF OpenPrefixes, PrefixesOf
  <2>4. stage' = "announced" /\ announced' = OpenPrefixes(PrefixesOf(Claimed))
        /\ ~ClaimedTwice(Claimed)
    BY DEF Announce, IndInv, StartInv
  <2>5. QED BY <2>1, <2>2, <2>3, <2>4 DEF IndInv, StartInv
<1>2. CallTypes' /\ CallInv' /\ CountInv'
  BY CallsStay DEF Announce, IndInv, CallTypes
<1>3. QED BY <1>1, <1>2 DEF IndInv

LEMMA CheckRegisterStep == IndInv /\ CheckRegister => IndInv'
<1> SUFFICES ASSUME IndInv, CheckRegister PROVE IndInv'
  OBVIOUS
<1>1. StartInv'
  <2>1. setup' = setup /\ Claimed' = Claimed /\ announced' = announced
    BY DEF CheckRegister, Claimed
  <2>2. OpenPrefixes(PrefixesOf(Claimed))' = OpenPrefixes(PrefixesOf(Claimed))
    BY <2>1 DEF OpenPrefixes, PrefixesOf
  <2>3. ~ClaimedTwice(Claimed) /\ announced = OpenPrefixes(PrefixesOf(Claimed))
    BY DEF CheckRegister, IndInv, StartInv
  <2>4. ~Overlap(announced) BY <2>3, AnnouncedIsTaken
  <2>5. stage' \in {"empty", "serving"} BY <2>4 DEF CheckRegister
  <2>6. QED BY <2>1, <2>2, <2>3, <2>5 DEF IndInv, StartInv
<1>2. CallTypes' /\ CallInv' /\ CountInv'
  BY CallsStay DEF CheckRegister, IndInv, CallTypes
<1>3. QED BY <1>1, <1>2 DEF IndInv

\* What happens to the requests and to the clock leaves the start as it was.
LEMMA StartStays ==
    ASSUME StartInv, UNCHANGED startVars
    PROVE  StartInv'
<1>1. setup' = setup /\ Claimed' = Claimed /\ announced' = announced /\ stage' = stage
  BY DEF startVars, Claimed
<1>2. ClaimedTwice(Claimed)' <=> ClaimedTwice(Claimed) BY <1>1 DEF ClaimedTwice
<1>3. OpenPrefixes(PrefixesOf(Claimed))' = OpenPrefixes(PrefixesOf(Claimed))
  BY <1>1 DEF OpenPrefixes, PrefixesOf
<1>4. QED BY <1>1, <1>2, <1>3 DEF StartInv

LEMMA TickStep == IndInv /\ Tick => IndInv'
<1> SUFFICES ASSUME IndInv, Tick PROVE IndInv'
  OBVIOUS
<1>1. StartInv' BY StartStays DEF IndInv, Tick
<1>2. clock' \in 0..MaxTime BY HostAssumption DEF IndInv, CallTypes, Tick
<1>3. CallTypes' /\ CallInv' /\ CountInv' BY <1>2, CallsStay DEF Tick, startVars
<1>4. QED BY <1>1, <1>3 DEF IndInv

LEMMA ServeStep ==
    ASSUME IndInv, NEW c \in Calls, ServeHTTP(c)
    PROVE  IndInv'
<1>1. StartInv' BY StartStays DEF IndInv, ServeHTTP
<1>2. PICK q \in Menu : /\ call' = [call EXCEPT ![c] = q]
                        /\ answer' = [answer EXCEPT ![c] = Decision(q, clock)]
                        /\ sess' = [sess EXCEPT ![c] = SessionOf(q, clock)]
  BY DEF ServeHTTP
<1>3. CallTypes'
  <2>1. call' \in [Calls -> Menu \cup {None}] BY <1>2 DEF IndInv, CallTypes
  <2>2. DOMAIN sess' = Calls /\ DOMAIN answer' = Calls BY <1>2 DEF IndInv, CallTypes
  <2>3. QED BY <2>1, <2>2 DEF IndInv, CallTypes, ServeHTTP
<1>4. stage' = stage /\ mux' = mux /\ setup' = setup /\ stage = "serving"
  BY DEF ServeHTTP, startVars
<1>5. CallInv'
  <2>1. SUFFICES ASSUME NEW d \in Calls
                 PROVE  /\ pc'[d] = "none" => sess'[d] = None
                        /\ pc'[d] # "none" =>
                             /\ stage' = "serving"
                             /\ \E r \in Menu, t \in Nat : /\ call'[d] = r
                                                           /\ answer'[d] = Decision(r, t)'
                                                           /\ sess'[d] = SessionOf(r, t)'
    BY DEF CallInv
  <2>2. CASE d = c
    <3>1. clock \in Nat BY HostAssumption DEF IndInv, CallTypes
    <3>2. pc'[c] = "inside" BY DEF ServeHTTP, IndInv, CallTypes
    <3>3. /\ call'[c] = q /\ answer'[c] = Decision(q, clock)
          /\ sess'[c] = SessionOf(q, clock)
      BY <1>2 DEF IndInv, CallTypes
    <3>4. \A t \in Nat : Decision(q, t)' = Decision(q, t) /\ SessionOf(q, t)' = SessionOf(q, t)
      BY <1>4, DecidedByTheSetup
    <3>5. QED BY <1>4, <2>2, <3>1, <3>2, <3>3, <3>4
  <2>3. CASE d # c
    <3>1. pc'[d] = pc[d] BY <2>3 DEF ServeHTTP, IndInv, CallTypes
    <3>2. call'[d] = call[d] /\ answer'[d] = answer[d] /\ sess'[d] = sess[d]
      BY <1>2, <2>3 DEF IndInv, CallTypes
    <3>3. CASE pc[d] = "none" BY <3>1, <3>2, <3>3 DEF IndInv, CallInv
    <3>4. CASE pc[d] # "none"
      <4>1. PICK r \in Menu, t \in Nat :
               call[d] = r /\ answer[d] = Decision(r, t) /\ sess[d] = SessionOf(r, t)
        BY <3>4 DEF IndInv, CallInv
      <4>2. Decision(r, t)' = Decision(r, t) /\ SessionOf(r, t)' = SessionOf(r, t)
        BY <1>4, DecidedByTheSetup
      <4>3. QED BY <1>4, <3>1, <3>2, <3>4, <4>1, <4>2
    <3>5. QED BY <3>3, <3>4
  <2>4. QED BY <2>2, <2>3
<1>6. CountInv'
  <2>1. c \notin Inside /\ Inside' = Inside \cup {c}
    BY DEF ServeHTTP, IndInv, CallTypes, Inside
  <2>2. IsFiniteSet(Inside) /\ inFlight = Cardinality(Inside) BY DEF IndInv, CountInv
  <2>3. IsFiniteSet(Inside') /\ Cardinality(Inside') = Cardinality(Inside) + 1
    BY <2>1, <2>2, FS_AddElement
  <2>4. QED BY <2>2, <2>3 DEF ServeHTTP, CountInv
<1>7. QED BY <1>1, <1>3, <1>5, <1>6 DEF IndInv

LEMMA ReturnStep ==
    ASSUME IndInv, NEW c \in Calls, Return(c)
    PROVE  IndInv'
<1>1. StartInv' BY StartStays DEF IndInv, Return
<1>2. CallTypes' BY DEF Return, IndInv, CallTypes
<1>3. stage' = stage /\ mux' = mux /\ setup' = setup BY DEF Return, startVars
<1>4. CallInv'
  <2>1. SUFFICES ASSUME NEW d \in Calls
                 PROVE  /\ pc'[d] = "none" => sess'[d] = None
                        /\ pc'[d] # "none" =>
                             /\ stage' = "serving"
                             /\ \E r \in Menu, t \in Nat : /\ call'[d] = r
                                                           /\ answer'[d] = Decision(r, t)'
                                                           /\ sess'[d] = SessionOf(r, t)'
    BY DEF CallInv
  <2>2. pc'[d] = "none" <=> pc[d] = "none" BY DEF Return, IndInv, CallTypes
  <2>3. call' = call /\ answer' = answer /\ sess' = sess BY DEF Return
  <2>4. CASE pc[d] = "none" BY <2>2, <2>3, <2>4 DEF IndInv, CallInv
  <2>5. CASE pc[d] # "none"
    <3>1. stage = "serving" BY <2>5 DEF IndInv, CallInv
    <3>2. PICK r \in Menu, t \in Nat :
             call[d] = r /\ answer[d] = Decision(r, t) /\ sess[d] = SessionOf(r, t)
      BY <2>5 DEF IndInv, CallInv
    <3>3. Decision(r, t)' = Decision(r, t) /\ SessionOf(r, t)' = SessionOf(r, t)
      BY <1>3, DecidedByTheSetup
    <3>4. QED BY <1>3, <2>2, <2>3, <2>5, <3>1, <3>2, <3>3
  <2>6. QED BY <2>4, <2>5
<1>5. CountInv'
  <2>1. c \in Inside /\ Inside' = Inside \ {c}
    BY DEF Return, IndInv, CallTypes, Inside
  <2>2. IsFiniteSet(Inside) /\ inFlight = Cardinality(Inside) BY DEF IndInv, CountInv
  <2>3. IsFiniteSet(Inside') /\ Cardinality(Inside') = Cardinality(Inside) - 1
    BY <2>1, <2>2, FS_RemoveElement
  <2>4. QED BY <2>2, <2>3 DEF Return, Leave, CountInv
<1>6. QED BY <1>1, <1>2, <1>4, <1>5 DEF IndInv

LEMMA StutterStep == IndInv /\ UNCHANGED vars => IndInv'
<1> SUFFICES ASSUME IndInv, UNCHANGED vars PROVE IndInv'
  OBVIOUS
<1>1. UNCHANGED startVars /\ UNCHANGED callVars /\ clock' = clock BY DEF vars, startVars, callVars
<1>2. StartInv' BY <1>1, StartStays DEF IndInv
<1>3. CallTypes' /\ CallInv' /\ CountInv'
  BY <1>1, CallsStay DEF IndInv, CallTypes, startVars
<1>4. QED BY <1>2, <1>3 DEF IndInv

\* The inductive invariant of the host: every step of Next keeps it.
THEOREM Invariance == Spec => []IndInv
<1>1. Init => IndInv BY InitIndInv
<1>2. IndInv /\ [Next]_vars => IndInv'
  <2> SUFFICES ASSUME IndInv, [Next]_vars PROVE IndInv'
    OBVIOUS
  <2>1. CASE New BY <2>1, NewStep
  <2>2. CASE Announce BY <2>2, AnnounceStep
  <2>3. CASE CheckRegister BY <2>3, CheckRegisterStep
  <2>4. CASE Tick BY <2>4, TickStep
  <2>5. ASSUME NEW c \in Calls, ServeHTTP(c) PROVE IndInv' BY <2>5, ServeStep
  <2>6. ASSUME NEW c \in Calls, Return(c) PROVE IndInv' BY <2>6, ReturnStep
  <2>7. CASE UNCHANGED vars BY <2>7, StutterStep
  <2>8. QED BY <2>1, <2>2, <2>3, <2>4, <2>5, <2>6, <2>7 DEF Next
<1>3. QED BY <1>1, <1>2, PTL DEF Spec

-----------------------------------------------------------------------------
(* The properties.                                                         *)

\* Types, and Config.InFlight counts exactly the requests inside: each takes
\* itself off once, however it was answered.
THEOREM TypeCorrect == Spec => []TypeOK
<1>1. IndInv => TypeOK
  BY DEF IndInv, StartInv, CallTypes, CountInv, Inside, TypeOK
<1>2. QED BY <1>1, Invariance, PTL

\* Whatever prefixes the modules claim, the list a process registers with is
\* never refused for overlapping, and holds every claimed path that a guard
\* of the database answers for.
THEOREM AnnouncedTakenAndWhole == Spec => []AnnouncedIsTakenAndWhole
<1>1. IndInv => AnnouncedIsTakenAndWhole
  <2> SUFFICES ASSUME IndInv PROVE AnnouncedIsTakenAndWhole
    OBVIOUS
  <2>1. stage # "overlap" BY DEF IndInv, StartInv
  <2>2. ASSUME stage = "serving", setup.routes # None, NEW path \in Paths,
               NEW p \in Range(Claimed), Under(path, p),
               NEW route \in setup.routes, Under(path, route)
        PROVE  \E i \in announced : Under(path, Claimed[i])
    <3>1. path \in Path BY HostAssumption DEF Paths, Path
    <3>2. setup \in Setups /\ announced = OpenPrefixes(PrefixesOf(Claimed))
      BY <2>2 DEF IndInv, StartInv
    <3>3. QED BY <2>2, <3>1, <3>2, AnnouncedIsWhole
  <2>3. QED BY <2>1, <2>2 DEF AnnouncedIsTakenAndWhole
<1>2. QED BY <1>1, Invariance, PTL

\* What a request was decided by, once it came.
LEMMA WasDecided ==
    ASSUME IndInv, NEW c \in Calls, pc[c] # "none"
    PROVE  /\ call[c] \in Menu
           /\ \E t \in Nat : /\ answer[c] = Decision(call[c], t)
                             /\ sess[c] = SessionOf(call[c], t)
<1>1. PICK q \in Menu, t \in Nat :
         call[c] = q /\ answer[c] = Decision(q, t) /\ sess[c] = SessionOf(q, t)
  BY DEF IndInv, CallInv
<1>2. QED BY <1>1

\* Two callers whose tokens nobody signed get one and the same answer, whatever
\* audience, issuer or time they wrote: what Verify finds before the signature
\* is one refusal, and the time is looked at after it.
THEOREM UnsignedAreTold == Spec => []UnsignedLearnNothing
<1>1. IndInv => UnsignedLearnNothing
  <2> SUFFICES ASSUME IndInv, NEW c \in Calls, NEW d \in Calls,
                      pc[c] = "done", pc[d] = "done",
                      \A e \in {c, d} : call[e].token # None
                         /\ (call[e].token.form = "jwt" => ~Signed(call[e].token))
               PROVE  answer[c] = answer[d]
    BY DEF UnsignedLearnNothing
  <2>1. ASSUME NEW e \in {c, d} PROVE answer[e] = Problem(401, "ERR-401-001")
    <3>1. PICK t \in Nat : answer[e] = Decision(call[e], t) BY WasDecided
    <3>2. Decision(call[e], t) = Problem(401, "ERR-401-001") BY UnsignedIsRefused
    <3>3. QED BY <3>1, <3>2
  <2>2. QED BY <2>1
<1>2. QED BY <1>1, Invariance, PTL

\* A route runs only under a session whose token was signed with its audience's
\* secret, by an accepted issuer, and was not expired when the request came.
THEOREM RoutesAreForVerified == Spec => []RoutesSeeVerifiedCallers
<1>1. IndInv => RoutesSeeVerifiedCallers
  <2> SUFFICES ASSUME IndInv, NEW c \in Calls, pc[c] # "none", answer[c].by # "host"
               PROVE  LET token == call[c].token
                      IN  /\ token # None /\ Signed(token) /\ token.iss \in Issuers
                          /\ token.exp # 0 /\ sess[c].at < token.exp
                          /\ sess[c].code = token.sub
    BY DEF RoutesSeeVerifiedCallers
  <2> DEFINE token == call[c].token
  <2>1. PICK t \in Nat : answer[c] = Decision(call[c], t) /\ sess[c] = SessionOf(call[c], t)
    BY WasDecided
  <2>2. token # None /\ Verify(token, t) = "ok" BY <2>1, RoutesAreVerified
  <2>3. Signed(token) /\ token.iss \in Issuers /\ token.exp # 0 /\ ~(t >= token.exp)
    BY <2>2, VerifiedIsValid
  <2>4. token.exp \in Nat BY <2>2, WasDecided, HostAssumption
  <2>5. sess[c] = [code |-> token.sub, host |-> ClientAddr(call[c], setup.trusted), at |-> t]
    BY <2>1, <2>2 DEF SessionOf
  <2>6. sess[c].at = t /\ sess[c].code = token.sub BY <2>5
  <2>7. t < token.exp BY <2>3, <2>4
  <2>8. QED BY <2>2, <2>3, <2>6, <2>7
<1>2. QED BY <1>1, Invariance, PTL

\* Over any proxies, honest or not, a client outside the trusted ones cannot
\* choose the address its session has: clientAddr stops at whoever spoke to a
\* trusted proxy.
THEOREM AddressesAreOnTheWay == Spec => []AddressIsOnTheWay
<1>1. IndInv => AddressIsOnTheWay
  <2> SUFFICES ASSUME IndInv, NEW c \in Calls, sess[c] # None
               PROVE  LET q == call[c]
                      IN  /\ sess[c].host = None => Peer(q) = None
                          /\ IF setup.trusted = None
                               THEN q.hops # <<>> =>
                                      /\ sess[c].host \in Way(q)
                                      /\ Len(q.hops) = 1 /\ Honest(q) => sess[c].host = q.client
                               ELSE q.client \notin setup.trusted =>
                                      /\ sess[c].host \in Way(q)
                                      /\ Way(q) \ {q.client} \subseteq setup.trusted /\ Honest(q)
                                           => sess[c].host = q.client
    BY DEF AddressIsOnTheWay, Way, Honest
  <2> DEFINE q == call[c]
  <2>1. pc[c] # "none" BY DEF IndInv, CallInv
  <2>2. PICK t \in Nat : sess[c] = SessionOf(q, t) BY <2>1, WasDecided
  <2>3. q \in Menu BY <2>1, WasDecided
  <2>4. sess[c].host = ClientAddr(q, setup.trusted) BY <2>2 DEF SessionOf
  <2> HIDE DEF q
  <2>5. CASE setup.trusted = None
    BY <2>3, <2>4, <2>5, AddressWithoutList, AddressIsSome DEF q
  <2>6. CASE setup.trusted # None
    <3>1. setup \in Setups BY DEF IndInv, StartInv
    <3>2. setup.trusted \subseteq Addresses BY <2>6, <3>1, HostAssumption
    <3>3. QED BY <2>3, <2>4, <2>6, <3>2, AddressWithList, AddressIsSome DEF q
  <2>7. QED BY <2>5, <2>6
<1>2. QED BY <1>1, Invariance, PTL

\* No answer is the mux's own text or redirect, and a 405 names methods the
\* mux serves on the path, the one that was asked not among them.
THEOREM AnswersAreTheHosts == Spec => []NothingOfNetHTTP
<1>1. IndInv => NothingOfNetHTTP
  <2> SUFFICES ASSUME IndInv, NEW c \in Calls, pc[c] # "none"
               PROVE  /\ answer[c].by \in {"host", "handler"}
                      /\ answer[c].status = 405 =>
                           /\ answer[c].allow # {}
                           /\ call[c].method \notin answer[c].allow
                           /\ \A m \in answer[c].allow : MuxServes(call[c].path, m) = "handler"
    BY DEF NothingOfNetHTTP
  <2>1. PICK t \in Nat : answer[c] = Decision(call[c], t) BY WasDecided
  <2>2. call[c] \in Menu BY WasDecided
  <2>3. QED BY <2>1, <2>2, DecisionIsTheHosts
<1>2. QED BY <1>1, Invariance, PTL

=============================================================================
