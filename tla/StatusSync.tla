----------------------------- MODULE StatusSync -----------------------------
(***************************************************************************)
(* What the gateway is told of the instance's load: lib/gatewayclient,     *)
(* Load (Add, poke, watch), Client.SetOverloaded, Client.syncStatus, the   *)
(* tail of a registration in runSession, the /status of a drain, and the   *)
(* capacity that a /reload changes.                                        *)
(*                                                                         *)
(* Four kinds of goroutine run it: the HTTP requests that call Load.Add,   *)
(* the one watcher, the one that runs the sessions, and a handler for each *)
(* /reload.  A step ends where a goroutine takes or releases a lock, sends *)
(* on the socket, or touches an atomic or an unlocked field another        *)
(* goroutine reads.                                                        *)
(***************************************************************************)
EXTENDS Integers, Sequences

CONSTANTS
    Workers,      \* the goroutines of HTTP requests
    Capacities,   \* the capacities the instance is configured with
    MaxReloads,   \* bound: capacities that a /reload changes in a behaviour
    MaxSessions,  \* bound: connections made in a behaviour
    MaxUnread     \* bound: /status frames the gateway has still to read

ASSUME StatusSyncAssumption ==
    /\ Capacities \in SUBSET (Nat \ {0})
    /\ MaxReloads \in Nat
    /\ MaxSessions \in Nat \ {0}
    /\ MaxUnread \in Nat \ {0}

Sessions == 1..MaxSessions
Threads == {"watcher", "main"}

VARIABLES
    n,           \* Load.n
    wpc, seen,   \* each worker, and the count its Add returned
    wake,        \* Load.wake, a channel of one
    on,          \* the watcher's own flag
    marks,       \* the capacity it has loaded, to compare the count with, or 0
    overloaded,  \* Client.overloaded
    active,      \* Client.active: a session, 0 for nil
    state,       \* Client.state
    lock,        \* the holder of Client.statusMu, "free"
    pc,          \* the watcher's and the session goroutine's place
    tgt, want,   \* the session and the state a /status of theirs is about
    cur,         \* the latest session
    said,        \* session.said
    draining,    \* session.draining
    ended,       \* sessions whose socket is gone
    wire,        \* the /status frames on each socket, in order
    heard,       \* what the gateway last heard of the instance on each socket
    slipped,     \* sessions used by a /status before runSession had said "ready"
    capacity,    \* Client.capacity
    closing,     \* sessions whose /reload handler is about to close them
    reloads,     \* how many there were
    stale        \* whose handler changed the capacity after the last poke of a
                 \* registration, 0 for nobody's

loadVars   == <<n, wpc, seen>>
watchVars  == <<on, marks>>
reloadVars == <<capacity, closing, reloads, stale>>
clientVars == <<overloaded, active, state>>
callVars   == <<pc, tgt, want>>
sessVars   == <<cur, said, draining>>
netVars    == <<ended, wire, heard>>
vars == <<loadVars, wake, watchVars, clientVars, lock, callVars, sessVars, netVars, slipped,
          reloadVars>>

-----------------------------------------------------------------------------
(* Load.                                                                   *)

\* low: the count at which an overloaded instance is ready again.
Low(cap) == cap - (IF cap \div 4 > 1 THEN cap \div 4 ELSE 1)

\* Load.Add, the count: an HTTP request begins or ends.
Add(w) ==
    /\ wpc[w] \in {"out", "in"}
    /\ n' = IF wpc[w] = "out" THEN n + 1 ELSE n - 1
    /\ seen' = [seen EXCEPT ![w] = n']
    /\ wpc' = [wpc EXCEPT ![w] = IF @ = "out" THEN "came" ELSE "left"]
    /\ UNCHANGED <<wake, watchVars, clientVars, lock, callVars, sessVars, netVars, slipped,
                   reloadVars>>

\* Load.Add, the marks of the capacity as it is: the watcher is woken, unless it already is.
Judge(w) ==
    /\ wpc[w] \in {"came", "left"}
    /\ wake' = (wake \/ seen[w] >= capacity \/ seen[w] <= Low(capacity))
    /\ seen' = [seen EXCEPT ![w] = 0]
    /\ wpc' = [wpc EXCEPT ![w] = IF @ = "came" THEN "in" ELSE "out"]
    /\ UNCHANGED <<n, watchVars, clientVars, lock, callVars, sessVars, netVars, slipped,
                   reloadVars>>

\* watch receives from wake ...
Wake ==
    /\ pc["watcher"] = "wait"
    /\ wake
    /\ wake' = FALSE
    /\ pc' = [pc EXCEPT !["watcher"] = "compare"]
    /\ UNCHANGED <<loadVars, watchVars, clientVars, lock, tgt, want, sessVars, netVars, slipped,
                   reloadVars>>

\* ... loads the capacity ...
LoadCapacity ==
    /\ pc["watcher"] = "compare"
    /\ marks' = capacity
    /\ pc' = [pc EXCEPT !["watcher"] = "count"]
    /\ UNCHANGED <<loadVars, wake, on, clientVars, lock, tgt, want, sessVars, netVars, slipped,
                   reloadVars>>

\* ... then the count, and compares.
Compare ==
    /\ pc["watcher"] = "count"
    /\ on' = IF on THEN n > Low(marks) ELSE n >= marks
    /\ marks' = 0
    /\ pc' = [pc EXCEPT !["watcher"] = IF on' = on THEN "wait" ELSE "set"]
    /\ UNCHANGED <<loadVars, wake, clientVars, lock, tgt, want, sessVars, netVars, slipped,
                   reloadVars>>

\* SetOverloaded: kept between connections, told on a live one.
SetOverloaded ==
    /\ pc["watcher"] = "set"
    /\ overloaded' = on
    /\ pc' = [pc EXCEPT !["watcher"] = IF active # 0 THEN "sync" ELSE "wait"]
    /\ tgt' = [tgt EXCEPT !["watcher"] = active]
    /\ UNCHANGED <<loadVars, wake, watchVars, active, state, lock, want, sessVars, netVars,
                   slipped, reloadVars>>

-----------------------------------------------------------------------------
(* syncStatus, called by the watcher and by a registration.                *)

\* Where the caller goes on.
Back(t) == IF t = "watcher" THEN "wait" ELSE "poke"

Wanted == IF overloaded THEN "overloaded" ELSE "ready"

\* Nothing is said on a socket that is no longer the client's, while it
\* drains, or when the gateway heard it already.
NothingToSay(s) == active # s \/ draining[s] \/ said[s] = Wanted

\* Mutation: statusMu is not held across the call.
SyncLockBriefly(t) ==
    /\ pc[t] = "sync"
    /\ lock = "free"
    /\ IF NothingToSay(tgt[t])
         THEN pc' = [pc EXCEPT ![t] = Back(t)] /\ UNCHANGED want
         ELSE pc' = [pc EXCEPT ![t] = "send"] /\ want' = [want EXCEPT ![t] = Wanted]
    /\ UNCHANGED <<loadVars, wake, watchVars, clientVars, lock, tgt, sessVars, netVars, slipped,
                   reloadVars>>

\* The turn comes: the flag is read now.
SyncLock(t) ==
    /\ pc[t] = "sync"
    /\ lock = "free"
    /\ IF NothingToSay(tgt[t])
         THEN pc' = [pc EXCEPT ![t] = Back(t)] /\ UNCHANGED <<lock, want>>
         ELSE /\ pc' = [pc EXCEPT ![t] = "send"]
              /\ lock' = t
              /\ want' = [want EXCEPT ![t] = Wanted]
    /\ UNCHANGED <<loadVars, wake, watchVars, clientVars, tgt, sessVars, netVars, slipped,
                   reloadVars>>

\* A /status goes out on the socket, if there still is one.
Send(s, word) ==
    /\ wire' = IF ended[s] THEN wire ELSE [wire EXCEPT ![s] = Append(@, word)]
    /\ UNCHANGED <<ended, heard>>

SyncSend(t) ==
    /\ pc[t] = "send"
    /\ Send(tgt[t], want[t])
    /\ pc' = [pc EXCEPT ![t] = "told"]
    /\ slipped' = IF pc["main"] \in {"mark", "enter"} THEN slipped \cup {tgt[t]} ELSE slipped
    /\ UNCHANGED <<loadVars, wake, watchVars, clientVars, lock, tgt, want, sessVars, reloadVars>>

\* A call is over: answered, timed out or cut by the socket's end.
CallEnds(s) == ended[s] \/ Len(wire[s]) <= MaxUnread

\* Mutation: no second look at Client.active after the call.
SyncToldAlways(t) ==
    /\ pc[t] = "told"
    /\ CallEnds(tgt[t])
    /\ said' = [said EXCEPT ![tgt[t]] = want[t]]
    /\ state' = IF want[t] = "overloaded" THEN "Overloaded" ELSE "Ready"
    /\ lock' = "free"
    /\ pc' = [pc EXCEPT ![t] = Back(t)]
    /\ UNCHANGED <<loadVars, wake, watchVars, overloaded, active, tgt, want, cur, draining,
                   netVars, slipped, reloadVars>>

SyncTold(t) ==
    /\ pc[t] = "told"
    /\ CallEnds(tgt[t])
    /\ said' = [said EXCEPT ![tgt[t]] = want[t]]
    /\ state' = IF active = tgt[t]
                  THEN (IF want[t] = "overloaded" THEN "Overloaded" ELSE "Ready")
                  ELSE state
    /\ lock' = "free"
    /\ pc' = [pc EXCEPT ![t] = Back(t)]
    /\ tgt' = [tgt EXCEPT ![t] = 0]
    /\ want' = [want EXCEPT ![t] = "ready"]
    /\ UNCHANGED <<loadVars, wake, watchVars, overloaded, active, cur, draining, netVars,
                   slipped, reloadVars>>

-----------------------------------------------------------------------------
(* The session goroutine: runSession from the answer to /register on.      *)

Main(from, to) ==
    /\ pc["main"] = from
    /\ pc' = [pc EXCEPT !["main"] = to]

\* runSession begins, in the loop of a Run or in that of a later one.
Connect ==
    /\ Main("offline", "dial")
    /\ cur < MaxSessions
    /\ state' = "Connecting"
    /\ UNCHANGED <<loadVars, wake, watchVars, overloaded, active, lock, tgt, want, sessVars,
                   netVars, slipped, reloadVars>>

\* Run sets the state, unless its context is done: it returns then, and the
\* state is as it was.
RunState == state' \in {"Offline", state}

\* No token, no connection, no registration, or a refusal.
ConnectFails ==
    /\ Main("dial", "offline")
    /\ RunState
    /\ UNCHANGED <<loadVars, wake, watchVars, overloaded, active, lock, tgt, want, sessVars,
                   netVars, slipped, reloadVars>>

\* The gateway took the registration, and enters the instance as ready.
Registered ==
    /\ Main("dial", "publish")
    /\ cur < MaxSessions
    /\ cur' = cur + 1
    /\ heard' = [heard EXCEPT ![cur'] = "ready"]
    /\ UNCHANGED <<loadVars, wake, watchVars, clientVars, lock, tgt, want, said, draining,
                   ended, wire, slipped, reloadVars>>

\* The session is published under Client.mu ...
Publish ==
    /\ Main("publish", "mark")
    /\ active' = cur
    /\ UNCHANGED <<loadVars, wake, watchVars, overloaded, state, lock, tgt, want, sessVars,
                   netVars, slipped, reloadVars>>

\* Mutation: the name of the state, not the word of the wire.
MarkReadyByState ==
    /\ Main("mark", "enter")
    /\ said' = [said EXCEPT ![cur] = "Ready"]
    /\ UNCHANGED <<loadVars, wake, watchVars, clientVars, lock, tgt, want, cur, draining,
                   netVars, slipped, reloadVars>>

\* ... then marked "ready", under no lock ...
MarkReady ==
    /\ Main("mark", "enter")
    /\ said' = [said EXCEPT ![cur] = "ready"]
    /\ UNCHANGED <<loadVars, wake, watchVars, clientVars, lock, tgt, want, cur, draining,
                   netVars, slipped, reloadVars>>

\* ... then State says so; the flag of before the registration is told next.
EnterReady ==
    /\ Main("enter", "sync")
    /\ state' = "Ready"
    /\ tgt' = [tgt EXCEPT !["main"] = cur]
    /\ UNCHANGED <<loadVars, wake, watchVars, overloaded, active, lock, want, sessVars,
                   netVars, slipped, reloadVars>>

\* Mutation: the watcher is not woken by a registration.
PokeNobody ==
    /\ Main("poke", "loop")
    /\ stale' = 0
    /\ UNCHANGED <<loadVars, wake, watchVars, clientVars, lock, tgt, want, sessVars, netVars,
                   slipped, capacity, closing, reloads>>

\* The capacity may have changed with this registration.
Poke ==
    /\ Main("poke", "loop")
    /\ wake' = TRUE
    /\ stale' = 0
    /\ UNCHANGED <<loadVars, watchVars, clientVars, lock, tgt, want, sessVars, netVars, slipped,
                   capacity, closing, reloads>>

\* drain: no ready or overloaded in flight may land after draining.
DrainLock ==
    /\ Main("loop", "drain")
    /\ lock = "free"
    /\ lock' = "main"
    /\ state' = "Draining"
    /\ draining' = [draining EXCEPT ![cur] = TRUE]
    /\ UNCHANGED <<loadVars, wake, watchVars, overloaded, active, tgt, want, cur, said,
                   netVars, slipped, reloadVars>>

DrainSend ==
    /\ Main("drain", "drainTold")
    /\ Send(cur, "draining")
    /\ UNCHANGED <<loadVars, wake, watchVars, clientVars, lock, tgt, want, sessVars, slipped,
                   reloadVars>>

DrainTold ==
    /\ Main("drainTold", "drained")
    /\ CallEnds(cur)
    /\ lock' = "free"
    /\ UNCHANGED <<loadVars, wake, watchVars, clientVars, tgt, want, sessVars, netVars, slipped,
                   reloadVars>>

\* The session is over, drained or cut: runSession's defer, and Run.
Leave ==
    /\ pc["main"] \in {"loop", "drained"}
    /\ pc["main"] = "loop" => ended[cur]
    /\ pc' = [pc EXCEPT !["main"] = "offline"]
    /\ ended' = [ended EXCEPT ![cur] = TRUE]
    /\ wire' = [wire EXCEPT ![cur] = <<>>]
    /\ active' = 0
    /\ RunState
    /\ UNCHANGED <<loadVars, wake, watchVars, overloaded, lock, tgt, want, sessVars, heard,
                   slipped, reloadVars>>

-----------------------------------------------------------------------------
(* The handlers of /reload, one goroutine for every frame: OnReload may    *)
(* take its time, and a session be gone when it returns.                   *)

\* The capacity changes, under Client.mu ...
Reload(s, cap) ==
    /\ s \in 1..cur
    /\ reloads < MaxReloads
    /\ cap # capacity
    /\ capacity' = cap
    /\ closing' = closing \cup {s}
    /\ reloads' = reloads + 1
    /\ stale' = s
    /\ UNCHANGED <<loadVars, wake, watchVars, clientVars, lock, callVars, sessVars, netVars,
                   slipped>>

\* ... and the handler's own session is closed, for a registration anew.
ReloadCloses(s) ==
    /\ s \in closing
    /\ closing' = closing \ {s}
    /\ ended' = [ended EXCEPT ![s] = TRUE]
    /\ wire' = [wire EXCEPT ![s] = <<>>]
    /\ UNCHANGED <<loadVars, wake, watchVars, clientVars, lock, callVars, sessVars, heard, slipped,
                   capacity, reloads, stale>>

-----------------------------------------------------------------------------
(* The socket and the gateway.                                             *)

\* What it carried and the gateway had not read is lost.
SocketEnds ==
    /\ pc["main"] \notin {"offline", "dial"}
    /\ ~ended[cur]
    /\ ended' = [ended EXCEPT ![cur] = TRUE]
    /\ wire' = [wire EXCEPT ![cur] = <<>>]
    /\ UNCHANGED <<loadVars, wake, watchVars, clientVars, lock, callVars, sessVars, heard,
                   slipped, reloadVars>>

\* The gateway reads the next /status, in the order of the socket.
Hear(s) ==
    /\ wire[s] # <<>>
    /\ heard' = [heard EXCEPT ![s] = Head(wire[s])]
    /\ wire' = [wire EXCEPT ![s] = Tail(@)]
    /\ UNCHANGED <<loadVars, wake, watchVars, clientVars, lock, callVars, sessVars, ended,
                   slipped, reloadVars>>

Init ==
    /\ n = 0
    /\ wpc = [w \in Workers |-> "out"]
    /\ seen = [w \in Workers |-> 0]
    /\ wake = FALSE
    /\ on = FALSE
    /\ capacity \in Capacities
    /\ marks = 0
    /\ closing = {}
    /\ reloads = 0
    /\ stale = 0
    /\ overloaded = FALSE
    /\ active = 0
    /\ state = "Offline"
    /\ lock = "free"
    /\ pc = [watcher |-> "wait", main |-> "offline"]
    /\ tgt = [t \in Threads |-> 0]
    /\ want = [t \in Threads |-> "ready"]
    /\ cur = 0
    /\ said = [s \in Sessions |-> "nothing"]
    /\ draining = [s \in Sessions |-> FALSE]
    /\ ended = [s \in Sessions |-> FALSE]
    /\ wire = [s \in Sessions |-> <<>>]
    /\ heard = [s \in Sessions |-> "nothing"]
    /\ slipped = {}

Watcher == Wake \/ LoadCapacity \/ Compare \/ SetOverloaded
Sync(t) == SyncLock(t) \/ SyncSend(t) \/ SyncTold(t)
Session == \/ Connect \/ ConnectFails \/ Registered \/ Publish \/ MarkReady \/ EnterReady \/ Poke
           \/ DrainLock \/ DrainSend \/ DrainTold \/ Leave

Next ==
    \/ \E w \in Workers : Add(w) \/ Judge(w)
    \/ Watcher
    \/ \E t \in Threads : Sync(t)
    \/ Session
    \/ \E s \in Sessions : ReloadCloses(s) \/ \E cap \in Capacities : Reload(s, cap)
    \/ SocketEnds
    \/ \E s \in Sessions : Hear(s)

Spec == Init /\ [][Next]_vars

-----------------------------------------------------------------------------
(* Properties.                                                             *)

Words == {"ready", "overloaded", "draining"}

\* Types: session.said and the frames hold words of the wire, Client.state
\* names of states.
TypeOK ==
    /\ n \in Int
    /\ wpc \in [Workers -> {"out", "came", "in", "left"}]
    /\ seen \in [Workers -> Int]
    /\ wake \in BOOLEAN
    /\ on \in BOOLEAN
    /\ capacity \in Capacities /\ marks \in Capacities \cup {0}
    /\ closing \in SUBSET (1..cur)
    /\ reloads \in 0..MaxReloads
    /\ stale \in 0..cur
    /\ overloaded \in BOOLEAN
    /\ active \in 0..MaxSessions
    /\ state \in {"Offline", "Connecting", "Ready", "Overloaded", "Draining"}
    /\ lock \in Threads \cup {"free"}
    /\ pc \in [Threads -> {"wait", "compare", "count", "set", "sync", "send", "told", "offline",
                           "dial", "publish", "mark", "enter", "poke", "loop", "drain",
                           "drainTold", "drained"}]
    /\ tgt \in [Threads -> 0..MaxSessions]
    /\ want \in [Threads -> {"ready", "overloaded"}]
    /\ cur \in 0..MaxSessions
    /\ said \in [Sessions -> {"nothing", "ready", "overloaded"}]
    /\ draining \in [Sessions -> BOOLEAN]
    /\ ended \in [Sessions -> BOOLEAN]
    /\ wire \in [Sessions -> Seq(Words)]
    /\ heard \in [Sessions -> Words \cup {"nothing"}]
    /\ slipped \in SUBSET Sessions

\* Nothing is left to do: no Add half done, no check pending or running, the
\* session in its loop on a live socket that nobody is about to close,
\* everything sent read.
Settled ==
    /\ \A w \in Workers : wpc[w] \in {"out", "in"}
    /\ ~wake
    /\ pc = [watcher |-> "wait", main |-> "loop"]
    /\ ~ended[cur] /\ cur \notin closing
    /\ wire[cur] = <<>>

\* When all is quiet, whatever Adds raced the watcher, whichever session
\* replaced another and however its capacity changed on the way: the flag
\* agrees with the count and the two marks of the capacity, unless that was
\* changed after the registration by the handler of a session before it; what
\* the gateway believes is the flag, and State agrees, for every session that
\* no /status used before runSession had marked it.  SaidOrRegistered is about
\* the two exceptions.
GatewayKnowsTheLoad ==
    Settled =>
        /\ overloaded = on
        /\ stale \notin 1..(cur - 1) =>
             IF on THEN n > Low(capacity) ELSE n < capacity
        /\ cur \notin slipped =>
             /\ heard[cur] = Wanted
             /\ state = (IF overloaded THEN "Overloaded" ELSE "Ready")

\* Of every session, "what the gateway last heard is then session.said"
\* (client.go), as runSession says "no /status has used s yet" when it sets
\* it (session.go).
SaidIsHeard == Settled => heard[cur] = said[cur]

\* "a changed address, prefixes or capacity make the client re-register"
\* (README): a session that goes on is not one that was registered before the
\* handler of an earlier session changed the capacity.
ReloadReregisters == Settled => stale \notin 1..(cur - 1)

\* One of the two at least: a behaviour that breaks this breaks both, the
\* session's said when the watcher slips in between Publish and MarkReady, and
\* the re-registration when OnReload outlives the session its frame came on.
SaidOrRegistered == SaidIsHeard \/ ReloadReregisters

\* Once a socket carries "draining" the gateway hears nothing after it: neither
\* a /status that was under way when the drain began nor a later one.
NothingFollowsDraining ==
    \A s \in Sessions :
        LET words == <<heard[s]>> \o wire[s] IN
        \A i \in DOMAIN words : words[i] = "draining" => i = Len(words)

\* A /status that outlives its session, or crosses a drain, does not rewrite
\* Client.state: while there is no session, while the next one connects and
\* while one drains, only the goroutine that runs the sessions changes it.
StateFollowsTheSession ==
    [][pc'["main"] = pc["main"]
         /\ pc["main"] \in {"offline", "dial", "publish", "drain", "drainTold", "drained"}
       => state' = state]_vars
=============================================================================
