-------------------------------- MODULE Host --------------------------------
(***************************************************************************)
(* The host of a process: package platform, and lib/auth/jwt.              *)
(*                                                                         *)
(* New composes the modules' routes, Prefixes and OpenPrefixes say which   *)
(* paths the process announces, and the gateway's check of a registration  *)
(* takes or refuses the list.  Then requests come, each over its proxies,  *)
(* and ServeHTTP decides who the caller is, where it calls from, and       *)
(* whether a route sees it.                                                *)
(*                                                                         *)
(* A path is the sequence of its segments, a trailing slash being an empty *)
(* one at the end; an address is a model value, and an element of          *)
(* X-Forwarded-For that is not an address is None.                         *)
(***************************************************************************)
EXTENDS Integers, Sequences, FiniteSets, SequencesExt

CONSTANTS
    Calls,      \* the requests
    Menu,       \* what a request may be
    Setups,     \* what the process may be configured with
    Table,      \* the routes a module registers for a prefix of its own
    Always,     \* the paths a process answers itself, as a health check
    Keyring,    \* the audiences: what each signs with
    Issuers,    \* the issuers accepted
    Addresses,  \* what reads as an address
    None,       \* nil, and nothing
    Wild,       \* a {name} segment of a pattern
    MaxTime     \* bound of the clock

\* The segment, or the text, that is empty.
Blank == "<blank>"

\* A menu entry is [token, path, method, query, client, header, hops]; a hop
\* is [addr, hides].  The client is None when what it calls from reads as no
\* address; its header is without the blank elements, which forwardedChain
\* drops, and no hop appends one.  A setup is [manifest, routes, trusted].
ASSUME HostAssumption ==
    /\ MaxTime \in Nat
    /\ None \notin Addresses \cup Menu
    /\ \A q \in Menu : /\ q.token = None \/ q.token.exp \in Nat
                       /\ q.path \in Seq(STRING)
                       /\ q.client \in Addresses \cup {None}
                       /\ q.header \in Seq(Addresses \cup {None})
                       /\ q.hops \in Seq([addr : Addresses, hides : BOOLEAN])
    /\ \A s \in Setups : /\ FlattenSeq(s.manifest) \in Seq(Seq(STRING))
                         /\ s.routes = None \/ s.routes \subseteq Seq(STRING)
                         /\ s.trusted = None \/ s.trusted \subseteq Addresses

\* No pattern of the repository ends in a slash or in {name...}: the mux
\* never redirects a canonical path.
ASSUME PatternAssumption ==
    \A p \in DOMAIN Table : \A route \in Table[p] :
        \A i \in 1..Len(route.path) : route.path[i] # Blank

VARIABLES
    setup,      \* the modules, the database's routes, the trusted proxies
    stage,      \* how far the process is
    mux,        \* the patterns registered
    announced,  \* the prefixes sent in /register: their places in Claimed
    clock,      \* Config.Now
    inFlight,   \* Config.InFlight
    pc, call,   \* where each request is, and what it is
    sess,       \* the session its handler finds
    answer      \* what it is answered

vars == <<setup, stage, mux, announced, clock, inFlight, pc, call, sess, answer>>
startVars == <<setup, stage, mux, announced>>
callVars  == <<inFlight, pc, call, sess, answer>>

-----------------------------------------------------------------------------
(* Start: New, Prefixes, OpenPrefixes, and the gateway's check.            *)

Under(p, q) == IsPrefix(q, p)

\* Every prefix the modules claim, in order.
Claimed == FlattenSeq(setup.manifest)

ClaimedTwice(all) == ~IsInjective(all)

\* A list of some of the claimed prefixes, in their order, is the set of their
\* places in Claimed.  Prefixes: one nested under another is left out.
PrefixesOf(all) ==
    {i \in DOMAIN all : \A q \in Range(all) : q # all[i] => ~Under(all[i], q)}

\* Mutation: a route above the prefix does not open it.
LiesOnBelow(p, route) == Under(route, p)

\* A route lies on a prefix, above it or under it.
LiesOn(p, route) == Under(route, p) \/ Under(p, route)

OpenPrefixes(prefixes) ==
    IF setup.routes = None THEN prefixes
    ELSE {i \in prefixes : \/ Claimed[i] \in Always
                           \/ \E route \in setup.routes : LiesOn(Claimed[i], route)}

\* New: no module or a prefix claimed twice, and the process does not start.
New ==
    /\ stage = "start"
    /\ IF setup.manifest = <<>> \/ ClaimedTwice(Claimed)
         THEN stage' = "failed" /\ UNCHANGED mux
         ELSE /\ stage' = "composed"
              /\ mux' = UNION {Table[p] : p \in Range(Claimed)}
    /\ UNCHANGED <<setup, announced, clock, callVars>>

\* The process decides what it announces.
Announce ==
    /\ stage = "composed"
    /\ announced' = OpenPrefixes(PrefixesOf(Claimed))
    /\ stage' = "announced"
    /\ UNCHANGED <<setup, mux, clock, callVars>>

Overlap(prefixes) ==
    \E i, j \in prefixes : i # j /\ (Under(Claimed[i], Claimed[j]) \/ Under(Claimed[j], Claimed[i]))

\* The gateway's check of the list in /register.
CheckRegister ==
    /\ stage = "announced"
    /\ stage' = CASE announced = {} -> "empty"
                  [] announced # {} /\ Overlap(announced) -> "overlap"
                  [] OTHER -> "serving"
    /\ UNCHANGED <<setup, mux, announced, clock, callVars>>

-----------------------------------------------------------------------------
(* Keyring.Verify.                                                         *)

\* The signature holds: made with the audience's algorithm and secret.
Signed(t) ==
    /\ t.aud \in DOMAIN Keyring
    /\ t.alg = Keyring[t.aud].alg
    /\ t.mac = Keyring[t.aud]

\* Mutation: the time is looked at before the signature.
VerifyTimeFirst(t, now) ==
    CASE t.form # "jwt" -> "malformed"
      [] t.form = "jwt" /\ now >= t.exp -> "expired"
      [] t.form = "jwt" /\ now < t.exp /\ ~Signed(t) -> "signature"
      [] OTHER -> IF t.iss \in Issuers THEN "ok" ELSE "issuer"

\* Mutation: the last second counts.
VerifyLastSecond(t, now) ==
    CASE t.form # "jwt" -> "malformed"
      [] t.form = "jwt" /\ ~Signed(t) -> "signature"
      [] t.form = "jwt" /\ Signed(t) /\ t.iss \notin Issuers -> "issuer"
      [] OTHER -> IF t.exp = 0 \/ now > t.exp THEN "expired" ELSE "ok"

\* An exp of 0 is a token without one.
Verify(t, now) ==
    IF t.form # "jwt" THEN "malformed"
    ELSE IF t.aud \notin DOMAIN Keyring THEN "audience"
    ELSE IF t.alg # Keyring[t.aud].alg THEN "signature"
    ELSE IF t.mac # Keyring[t.aud] THEN "signature"
    ELSE IF t.iss \notin Issuers THEN "issuer"
    ELSE IF t.exp = 0 \/ now >= t.exp THEN "expired"
    ELSE "ok"

-----------------------------------------------------------------------------
(* The client's address.                                                   *)

\* Who speaks to hop i: the client, or the hop before.
Sender(q, i) == IF i = 1 THEN q.client ELSE q.hops[i - 1].addr

\* Whoever opened the connection to the process.
Peer(q) == Sender(q, Len(q.hops) + 1)

\* forwardedChain: what the client wrote, then what each hop appended; a hop
\* that hides its sender appends what is not an address.
ForwardedChain(q) ==
    q.header \o [i \in 1..Len(q.hops) |-> IF q.hops[i].hides THEN None ELSE Sender(q, i)]

\* Mutation: the chain is read from the client's end.
ClientAddrFromLeft(q, trusted) ==
    LET read == SelectSeq(ForwardedChain(q), LAMBDA a : a \in Addresses)
    IN  IF trusted # None /\ Peer(q) \in trusted /\ read # <<>> THEN Head(read) ELSE Peer(q)

\* clientAddr.  The walk from the right stops at the first element that is
\* no address (and the one before it is the client), or that is not trusted.
ClientAddr(q, trusted) ==
    LET chain == ForwardedChain(q)
        read  == Append(chain, Peer(q))
        stops == {i \in 1..Len(chain) : chain[i] \notin trusted}
        stop  == Max(stops \cup {0})
    IN  IF trusted = None
          THEN IF chain # <<>> /\ Last(chain) \in Addresses THEN Last(chain) ELSE Peer(q)
          ELSE IF Peer(q) \notin trusted THEN Peer(q)
          ELSE IF stop # 0 /\ chain[stop] \in Addresses THEN chain[stop]
          ELSE read[stop + 1]

-----------------------------------------------------------------------------
(* ServeHTTP.                                                              *)

\* Mutation: every path is canonical.
CanonicalAlways(path) == TRUE

\* A path the mux serves as it is: nothing for path.Clean to take away.
Canonical(path) ==
    /\ path # <<>>
    /\ \A i \in 1..Len(path) :
         path[i] \notin {".", ".."} /\ (path[i] = Blank => i = Len(path))

\* net/http: a pattern takes a path segment by segment; GET serves HEAD.
Matches(route, path, method) ==
    /\ route.method = method \/ (route.method = "GET" /\ method = "HEAD")
    /\ Len(route.path) = Len(path)
    /\ \A i \in 1..Len(path) :
         route.path[i] = path[i] \/ (route.path[i] = Wild /\ path[i] # Blank)

Handler(path, method) == {route \in mux : Matches(route, path, method)}

\* What the mux itself does with a request.
MuxServes(path, method) ==
    IF \E i \in 1..Len(path) : path[i] \in {".", ".."} \/ (path[i] = Blank /\ i # Len(path))
      THEN "redirect"
      ELSE IF Handler(path, method) = {} THEN "text" ELSE "handler"

Problem(status, code) == [by |-> "host", status |-> status, code |-> code, allow |-> {}]

\* A 401, by what Verify said: what is wrong before the signature holds is
\* one answer.
Unauthorized(verdict) ==
    Problem(401, IF verdict = "expired" THEN "ERR-401-008" ELSE "ERR-401-001")

\* Allow: the four methods that are tried, and HEAD where there is GET.
Allow(path) ==
    LET tried == {m \in {"GET", "POST", "PATCH", "DELETE"} : Handler(path, m) # {}}
    IN  IF "GET" \in tried THEN tried \cup {"HEAD"} ELSE tried

\* 405 where another method has the path, of those that are tried.
NotServed(path) ==
    IF Allow(path) # {} THEN [Problem(405, None) EXCEPT !.allow = Allow(path)]
    ELSE Problem(404, None)

\* What ServeHTTP does with a request at a time: refuse it, or the mux.
Decision(q, now) ==
    IF q.token = None THEN Problem(401, "ERR-401-001")
    ELSE IF Verify(q.token, now) # "ok" THEN Unauthorized(Verify(q.token, now))
    ELSE IF ~Canonical(q.path) THEN Problem(404, None)
    ELSE IF MuxServes(q.path, q.method) = "text" THEN NotServed(q.path)
    ELSE IF ~q.query THEN Problem(400, None)
    ELSE [by |-> MuxServes(q.path, q.method), status |-> 0, code |-> None, allow |-> {}]

\* SessionOf: the session goes into the context once the token is verified.
SessionOf(q, now) ==
    IF q.token # None /\ Verify(q.token, now) = "ok"
      THEN [code |-> q.token.sub, host |-> ClientAddr(q, setup.trusted), at |-> now]
      ELSE None

\* A request comes in.
ServeHTTP(c) ==
    /\ stage = "serving"
    /\ pc[c] = "none"
    /\ inFlight' = inFlight + 1
    /\ \E q \in Menu :
         /\ call' = [call EXCEPT ![c] = q]
         /\ answer' = [answer EXCEPT ![c] = Decision(q, clock)]
         /\ sess' = [sess EXCEPT ![c] = SessionOf(q, clock)]
    /\ pc' = [pc EXCEPT ![c] = "inside"]
    /\ UNCHANGED <<startVars, clock>>

\* Mutation: a refusal takes itself off the count, and the defer does again.
LeaveTwice(c) == IF answer[c].by = "host" THEN 2 ELSE 1

\* What the deferred Add takes off.
Leave(c) == 1

\* The handler is through, or panicked, or there was none: the defer runs.
Return(c) ==
    /\ pc[c] = "inside"
    /\ inFlight' = inFlight - Leave(c)
    /\ pc' = [pc EXCEPT ![c] = "done"]
    /\ UNCHANGED <<startVars, clock, call, sess, answer>>

Tick ==
    /\ stage = "serving"
    /\ clock < MaxTime
    /\ clock' = clock + 1
    /\ UNCHANGED <<startVars, callVars>>

-----------------------------------------------------------------------------
Init ==
    /\ setup \in Setups
    /\ stage = "start" /\ mux = {} /\ announced = {}
    /\ clock = 0 /\ inFlight = 0
    /\ pc = [c \in Calls |-> "none"] /\ call = [c \in Calls |-> None]
    /\ sess = [c \in Calls |-> None] /\ answer = [c \in Calls |-> None]

Next ==
    \/ New \/ Announce \/ CheckRegister \/ Tick
    \/ \E c \in Calls : ServeHTTP(c) \/ Return(c)

Spec == Init /\ [][Next]_vars

-----------------------------------------------------------------------------
(* Properties.                                                             *)

\* Types; Config.InFlight counts the requests inside, refused ones too.
TypeOK ==
    /\ setup \in Setups
    /\ stage \in {"start", "failed", "composed", "announced", "empty", "overlap", "serving"}
    /\ clock \in 0..MaxTime
    /\ inFlight = Cardinality({c \in Calls : pc[c] = "inside"})
    /\ pc \in [Calls -> {"none", "inside", "done"}]
    /\ call \in [Calls -> Menu \cup {None}]

Paths == {q.path : q \in Menu}

\* Whatever its modules claim, what a composed process announces is never
\* refused for overlapping, and leaves out nothing that is asked for: a path
\* that a module claims and a guard of the database answers for, on it or
\* above it, is announced, so that the gateway brings its requests here.
AnnouncedIsTakenAndWhole ==
    /\ stage # "overlap"
    /\ stage = "serving" /\ setup.routes # None =>
         \A path \in Paths :
             (\E p \in Range(Claimed) : Under(path, p))
               /\ (\E route \in setup.routes : Under(path, route))
             => \E i \in announced : Under(path, Claimed[i])

\* Whoever presents a token nobody signed is told one and the same thing,
\* whatever else is in it: no answer tells an audience, an issuer or a time.
UnsignedLearnNothing ==
    \A c, d \in Calls :
        (pc[c] = "done" /\ pc[d] = "done"
           /\ (\A e \in {c, d} : call[e].token # None
                 /\ (call[e].token.form = "jwt" => ~Signed(call[e].token))))
        => answer[c] = answer[d]

\* A route runs only under the session of a token that was signed, by an
\* issuer accepted, and had time left when the request came.
RoutesSeeVerifiedCallers ==
    \A c \in Calls :
        pc[c] # "none" /\ answer[c].by # "host" =>
            LET t == call[c].token
            IN  /\ t # None /\ Signed(t) /\ t.iss \in Issuers
                /\ t.exp # 0 /\ sess[c].at < t.exp
                /\ sess[c].code = t.sub

\* A client outside the trusted proxies cannot choose its address: it is its
\* own, or that of a proxy on its way; and its own when every proxy on the
\* way is trusted and says who spoke to it.  Without a list that needs a
\* gateway in front, the one hop that is trusted.  Whatever it sends, it has
\* an address as long as the peer does: none is no restriction to the IP
\* tables of the database.
AddressIsOnTheWay ==
    \A c \in Calls :
        sess[c] # None =>
            LET q == call[c]
                way == {q.client} \cup {q.hops[i].addr : i \in 1..Len(q.hops)}
                honest == q.client # None /\ \A i \in 1..Len(q.hops) : ~q.hops[i].hides
            IN  /\ sess[c].host = None => Peer(q) = None
                /\ IF setup.trusted = None
                     THEN q.hops # <<>> => /\ sess[c].host \in way
                                           /\ Len(q.hops) = 1 /\ honest => sess[c].host = q.client
                     ELSE q.client \notin setup.trusted =>
                            /\ sess[c].host \in way
                            /\ way \ {q.client} \subseteq setup.trusted /\ honest
                                 => sess[c].host = q.client

\* README.md:23, "Every answer of the process is JSON ... including 404, 405
\* (with Allow)": every answer is the host's problem or a route's, nothing of
\* net/http's own text, and no redirect, reaches the client; a 405 names
\* methods the mux serves on the path, and not the one that was asked.
NothingOfNetHTTP ==
    \A c \in Calls : pc[c] # "none" =>
        /\ answer[c].by \in {"host", "handler"}
        /\ answer[c].status = 405 =>
             /\ answer[c].allow # {}
             /\ call[c].method \notin answer[c].allow
             /\ \A m \in answer[c].allow : MuxServes(call[c].path, m) = "handler"
=============================================================================
