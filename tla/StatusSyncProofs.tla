-------------------------- MODULE StatusSyncProofs --------------------------
(***************************************************************************)
(* The theorems of StatusSync, for any set of workers, any capacities and  *)
(* any number of sessions and reloads.  IndInv says what holds at each     *)
(* place of the watcher and of the session's goroutine: who holds          *)
(* statusMu, which session a call is about, what a socket carries, who has *)
(* still to wake the watcher or to tell the gateway.                       *)
(***************************************************************************)
EXTENDS StatusSync, SequenceTheorems, TLAPS

WatcherPlaces == {"wait", "compare", "count", "set", "sync", "send", "told"}
MainPlaces == {"offline", "dial", "publish", "mark", "enter", "sync", "send", "told", "poke",
               "loop", "drain", "drainTold", "drained"}

\* statusMu is held from the decision to send to the end of the call.
LockInv ==
    /\ pc["watcher"] \in WatcherPlaces
    /\ pc["main"] \in MainPlaces
    /\ pc["watcher"] \in {"send", "told"} <=> lock = "watcher"
    /\ pc["main"] \in {"send", "told", "drain", "drainTold"} <=> lock = "main"

\* The session Client.active points to is the latest, and what a /status is
\* about is a session that was.
SessionInv ==
    /\ active = IF pc["main"] \in {"offline", "dial", "publish"} THEN 0 ELSE cur
    /\ pc["main"] \notin {"offline", "dial"} => cur \in Sessions
    /\ \A t \in Threads :
         tgt[t] <= cur /\ (pc[t] \in {"sync", "send", "told"} => tgt[t] # 0)
    /\ pc["main"] \in {"sync", "send", "told"} => tgt["main"] = cur
    /\ pc["main"] = "publish" => tgt["watcher"] # cur
    /\ \A s \in Sessions : 
         s < cur \/ (s = cur /\ pc["main"] \in {"offline", "dial"}) => ended[s]
    /\ \A s \in Sessions : ended[s] => wire[s] = <<>>
    /\ \A s \in Sessions : s > cur => /\ wire[s] = <<>> /\ ~ended[s] /\ ~draining[s]
                                      /\ heard[s] = "nothing"
    /\ stale # 0 /\ stale = cur => cur \in closing \/ ended[cur]

\* A drain keeps every other /status away from its session.
DrainInv ==
    /\ pc["main"] \in {"drain", "drainTold", "drained"} =>
         draining[cur] /\ pc["watcher"] \notin {"send", "told"}
    /\ pc["main"] \notin {"offline", "dial", "drain", "drainTold", "drained"} => ~draining[cur]

\* No word is behind "draining", and there is none before the drain sends it.
WireInv ==
    \A s \in Sessions :
        /\ heard[s] = "draining" => wire[s] = <<>>
        /\ \A i \in 1..Len(wire[s]) : wire[s][i] = "draining" => i = Len(wire[s])
        /\ s = cur /\ pc["main"] \notin {"offline", "dial", "drainTold", "drained"} =>
             heard[s] # "draining" /\ \A i \in 1..Len(wire[s]) : wire[s][i] # "draining"

\* The watcher has been woken and has not compared yet.
Awake == wake \/ pc["watcher"] \in {"compare", "count"}

\* Whoever moved the count over a mark of the capacity has woken the watcher,
\* or is about to; a capacity that changed while the watcher compared has woken
\* it again, once the session of the change has given way to the next.
LoadInv ==
    /\ stale = 0 =>
         /\ pc["watcher"] = "count" => wake \/ marks = capacity
         /\ ~on /\ n >= capacity =>
              Awake \/ \E w \in Workers : wpc[w] \in {"came", "left"} /\ seen[w] >= capacity
         /\ on /\ n <= Low(capacity) =>
              Awake \/ \E w \in Workers : wpc[w] \in {"came", "left"} /\ seen[w] <= Low(capacity)
    /\ pc["watcher"] # "set" => overloaded = on

\* What the gateway will have heard of a session when it has read everything.
Last(s) == IF wire[s] = <<>> THEN heard[s] ELSE wire[s][Len(wire[s])]

StateOf(word) == IF word = "overloaded" THEN "Overloaded" ELSE "Ready"

\* The watcher is about to tell the latest session.
Pending == pc["watcher"] \in {"sync", "send", "told"} /\ tgt["watcher"] = cur

\* What was said is what was heard, or the call is under way; and it is the
\* flag, or somebody is about to say it.
SaidInv ==
    /\ pc["watcher"] \in {"send", "told"} => want["watcher"] = Wanted
    /\ pc["watcher"] = "told" /\ tgt["watcher"] = cur /\ pc["main"] \in {"mark", "enter"} =>
         cur \in slipped
    /\ pc["main"] \in {"send", "told"} => want["main"] = Wanted \/ Pending
    /\ pc["main"] \in {"poke", "loop"} => said[cur] = Wanted \/ Pending

\* The same for a session that was not used before it was marked.
HeardInv ==
    cur \notin slipped =>
        /\ pc["main"] \in {"publish", "mark", "enter"} /\ ~ended[cur] => Last(cur) = "ready"
        /\ pc["main"] = "enter" => said[cur] = "ready"
        /\ pc["main"] \in {"sync", "send", "told", "poke", "loop"} =>
             /\ state = StateOf(said[cur])
             /\ said[cur] \in {"ready", "overloaded"}
             /\ ~ended[cur] =>
                  \/ \E t \in Threads : pc[t] = "told" /\ tgt[t] = cur /\ Last(cur) = want[t]
                  \/ /\ \A t \in Threads : ~(pc[t] = "told" /\ tgt[t] = cur)
                     /\ Last(cur) = said[cur]

IndInv == TypeOK /\ LockInv /\ SessionInv /\ DrainInv /\ WireInv /\ LoadInv /\ SaidInv /\ HeardInv

-----------------------------------------------------------------------------
(* Types.                                                                  *)

\* The low mark is below the high one.
LEMMA LowIsBelow == \A cap \in Capacities : cap \in Int /\ Low(cap) \in Int /\ Low(cap) < cap
BY StatusSyncAssumption DEF Low

\* The types, by who writes them.
TypeLoad ==
    /\ n \in Int
    /\ wpc \in [Workers -> {"out", "came", "in", "left"}]
    /\ seen \in [Workers -> Int]
    /\ wake \in BOOLEAN
    /\ on \in BOOLEAN

TypeClient ==
    /\ overloaded \in BOOLEAN
    /\ active \in 0..MaxSessions
    /\ state \in {"Offline", "Connecting", "Ready", "Overloaded", "Draining"}
    /\ lock \in Threads \cup {"free"}

TypeCall ==
    /\ pc \in [Threads -> {"wait", "compare", "count", "set", "sync", "send", "told", "offline",
                           "dial", "publish", "mark", "enter", "poke", "loop", "drain",
                           "drainTold", "drained"}]
    /\ tgt \in [Threads -> 0..MaxSessions]
    /\ want \in [Threads -> {"ready", "overloaded"}]

TypeSess ==
    /\ cur \in 0..MaxSessions
    /\ said \in [Sessions -> {"nothing", "ready", "overloaded"}]
    /\ draining \in [Sessions -> BOOLEAN]
    /\ slipped \in SUBSET Sessions

TypeNet ==
    /\ ended \in [Sessions -> BOOLEAN]
    /\ wire \in [Sessions -> Seq(Words)]
    /\ heard \in [Sessions -> Words \cup {"nothing"}]

TypeReload ==
    /\ capacity \in Capacities /\ marks \in Capacities \cup {0}
    /\ closing \in SUBSET (1..cur)
    /\ reloads \in 0..MaxReloads
    /\ stale \in 0..cur

\* TypeOK is these six.
LEMMA TypeGroups ==
    TypeOK <=> TypeLoad /\ TypeClient /\ TypeCall /\ TypeSess /\ TypeNet /\ TypeReload
BY DEF TypeOK, TypeLoad, TypeClient, TypeCall, TypeSess, TypeNet, TypeReload

\* A /status under way is about a session that was.
LEMMA TargetIsSession ==
    ASSUME TypeOK, SessionInv, NEW t \in Threads, pc[t] \in {"sync", "send", "told"}
    PROVE  tgt[t] \in Sessions
BY StatusSyncAssumption DEF TypeOK, SessionInv, Sessions

\* Reading a socket, as facts about sequences.
LEMMA TailFacts ==
    ASSUME NEW q \in Seq(Words), q # <<>>
    PROVE  /\ Len(q) \in Nat /\ Len(q) > 0
           /\ Head(q) = q[1] /\ q[1] \in Words
           /\ Tail(q) \in Seq(Words)
           /\ Len(Tail(q)) = Len(q) - 1
           /\ \A i \in 1..(Len(q) - 1) : Tail(q)[i] = q[i + 1]
           /\ Tail(q) = <<>> <=> Len(q) = 1
<1>1. Len(q) \in Nat /\ Len(q) > 0 BY EmptySeq
<1>2. Head(q) = q[1] /\ q[1] \in Words BY <1>1, HeadTailProperties
<1>3. Tail(q) \in Seq(Words) /\ Len(Tail(q)) = Len(q) - 1 BY HeadTailProperties
<1>4. \A i \in 1..(Len(q) - 1) : Tail(q)[i] = q[i + 1] BY <1>3, HeadTailProperties
<1>5. Tail(q) = <<>> <=> Len(q) = 1 BY <1>1, <1>3, EmptySeq
<1>6. QED BY <1>1, <1>2, <1>3, <1>4, <1>5

\* What a frame that is sent does to the sockets.
LEMMA SendDoes ==
    ASSUME TypeOK, NEW s \in Sessions, NEW word \in Words, Send(s, word)
    PROVE  /\ ended' = ended /\ heard' = heard
           /\ wire' \in [Sessions -> Seq(Words)]
           /\ \A q \in Sessions : q # s \/ ended[q] => wire'[q] = wire[q]
           /\ ~ended[s] =>
                /\ Len(wire'[s]) = Len(wire[s]) + 1
                /\ wire'[s] # <<>>
                /\ wire'[s][Len(wire[s]) + 1] = word
                /\ \A i \in 1..Len(wire[s]) : wire'[s][i] = wire[s][i]
<1>1. wire[s] \in Seq(Words) /\ s \in DOMAIN wire BY DEF TypeOK
<1>2. /\ Append(wire[s], word) \in Seq(Words)
      /\ Len(Append(wire[s], word)) = Len(wire[s]) + 1
      /\ Append(wire[s], word)[Len(wire[s]) + 1] = word
      /\ \A i \in 1..Len(wire[s]) : Append(wire[s], word)[i] = wire[s][i]
      /\ Append(wire[s], word) # <<>>
  BY <1>1, AppendProperties
<1>3. ~ended[s] => wire' = [wire EXCEPT ![s] = Append(wire[s], word)]
  BY DEF Send
<1>4. ended[s] => wire' = wire BY DEF Send
<1>5. wire' \in [Sessions -> Seq(Words)]
  BY <1>2, <1>3, <1>4 DEF TypeOK
<1>6. \A q \in Sessions : q # s \/ ended[q] => wire'[q] = wire[q]
  BY <1>3, <1>4 DEF TypeOK
<1>7. ~ended[s] => wire'[s] = Append(wire[s], word)
  BY <1>1, <1>3
<1>8. ended' = ended /\ heard' = heard BY DEF Send
<1>9. QED BY <1>2, <1>5, <1>6, <1>7, <1>8

\* What the gateway's reading does to them.
LEMMA HearDoes ==
    ASSUME TypeOK, NEW s \in Sessions, Hear(s)
    PROVE  /\ heard' \in [Sessions -> Words \cup {"nothing"}]
           /\ wire' \in [Sessions -> Seq(Words)]
           /\ \A q \in Sessions : q # s => wire'[q] = wire[q] /\ heard'[q] = heard[q]
           /\ Len(wire[s]) \in Nat /\ Len(wire[s]) > 0
           /\ heard'[s] = wire[s][1]
           /\ Len(wire'[s]) = Len(wire[s]) - 1
           /\ \A i \in 1..Len(wire'[s]) : wire'[s][i] = wire[s][i + 1]
           /\ wire'[s] = <<>> <=> Len(wire[s]) = 1
<1>1. wire[s] \in Seq(Words) /\ wire[s] # <<>> BY DEF TypeOK, Hear
<1>2. wire' = [wire EXCEPT ![s] = Tail(wire[s])] /\ heard' = [heard EXCEPT ![s] = wire[s][1]]
  BY <1>1, TailFacts DEF Hear
<1>3. wire' \in [Sessions -> Seq(Words)] /\ wire'[s] = Tail(wire[s])
  BY <1>1, <1>2, TailFacts DEF TypeOK
<1>4. heard' \in [Sessions -> Words \cup {"nothing"}] /\ heard'[s] = wire[s][1]
  BY <1>1, <1>2, TailFacts DEF TypeOK
<1>5. \A q \in Sessions : q # s => wire'[q] = wire[q] /\ heard'[q] = heard[q]
  BY <1>2 DEF TypeOK
<1>6. /\ Len(wire[s]) \in Nat /\ Len(wire[s]) > 0
      /\ Len(wire'[s]) = Len(wire[s]) - 1
      /\ wire'[s] = <<>> <=> Len(wire[s]) = 1
  BY <1>1, <1>3, TailFacts
<1>7. \A i \in 1..Len(wire'[s]) : wire'[s][i] = wire[s][i + 1]
  BY <1>1, <1>3, <1>6, TailFacts
<1>8. QED BY <1>3, <1>4, <1>5, <1>6, <1>7

\* Every step keeps the types of Load and the watcher ...
LEMMA TypeLoadNext ==
    ASSUME TypeOK, SessionInv, [Next]_vars
    PROVE  TypeLoad'
<1> USE StatusSyncAssumption
    DEF TypeOK, Threads, Sessions, TypeLoad, loadVars, watchVars, reloadVars, clientVars,
        callVars, sessVars, netVars
<1>1. ASSUME NEW w \in Workers, Add(w) PROVE TypeLoad'
  BY <1>1 DEF Add
<1>2. ASSUME NEW w \in Workers, Judge(w) PROVE TypeLoad'
  BY <1>2 DEF Judge
<1>3. CASE Wake
  BY <1>3 DEF Wake
<1>4. CASE Compare
  <2>1. (n > Low(marks)) \in BOOLEAN /\ (n >= marks) \in BOOLEAN OBVIOUS
  <2>2. on' \in BOOLEAN BY <1>4, <2>1 DEF Compare
  <2>3. QED BY <1>4, <2>2 DEF Compare
<1>5. CASE Poke
  BY <1>5 DEF Poke, Main
<1>6. CASE UNCHANGED <<n, wpc, seen, wake, on>>
  BY <1>6
<1>7. QED
  BY <1>1, <1>2, <1>3, <1>4, <1>5, <1>6
     DEF Next, Watcher, Sync, Session, SetOverloaded, SyncLock, NothingToSay, Wanted, Back,
         SyncSend, Send, SyncTold, Registered, Main, Publish, MarkReady, EnterReady,
         DrainLock, DrainSend, DrainTold, Leave, SocketEnds, Hear, vars, LoadCapacity,
         Connect, ConnectFails, Reload, ReloadCloses

\* ... of the client ...
LEMMA TypeClientNext ==
    ASSUME TypeOK, SessionInv, [Next]_vars
    PROVE  TypeClient'
<1> USE StatusSyncAssumption
    DEF TypeOK, Threads, Sessions, TypeClient, loadVars, watchVars, reloadVars, clientVars,
        callVars, sessVars, netVars
<1>1. CASE SetOverloaded
  BY <1>1 DEF SetOverloaded
<1>2. ASSUME NEW t \in Threads, SyncLock(t) PROVE TypeClient'
  BY <1>2 DEF SyncLock, NothingToSay, Wanted, Back
<1>3. ASSUME NEW t \in Threads, SyncTold(t) PROVE TypeClient'
  BY <1>3 DEF SyncTold, Back
<1>4. CASE Publish
  BY <1>4 DEF Publish, Main
<1>5. CASE EnterReady
  BY <1>5 DEF EnterReady, Main
<1>6. CASE DrainLock
  BY <1>6 DEF DrainLock, Main
<1>7. CASE DrainTold
  BY <1>7 DEF DrainTold, Main
<1>8. CASE Leave
  BY <1>8 DEF Leave, RunState
<1>9. CASE UNCHANGED <<overloaded, active, state, lock>>
  BY <1>9
<1>10. CASE Connect
  BY <1>10 DEF Connect, Main
<1>11. CASE ConnectFails
  BY <1>11 DEF ConnectFails, Main, RunState
<1>12. QED
  BY <1>1, <1>2, <1>3, <1>4, <1>5, <1>6, <1>7, <1>8, <1>9, <1>10, <1>11
     DEF Next, Watcher, Sync, Session, Add, Judge, Wake, Compare, SyncSend, Send,
         Registered, Main, MarkReady, Poke, DrainSend, SocketEnds, Hear, vars, LoadCapacity,
         Reload, ReloadCloses

\* ... of the calls under way ...
LEMMA TypeCallNext ==
    ASSUME TypeOK, SessionInv, [Next]_vars
    PROVE  TypeCall'
<1> USE StatusSyncAssumption
    DEF TypeOK, Threads, Sessions, TypeCall, loadVars, watchVars, reloadVars, clientVars,
        callVars, sessVars, netVars
<1>1. CASE Wake
  BY <1>1 DEF Wake
<1>2. CASE Compare
  BY <1>2 DEF Compare
<1>3. CASE SetOverloaded
  BY <1>3 DEF SetOverloaded
<1>4. ASSUME NEW t \in Threads, SyncLock(t) PROVE TypeCall'
  BY <1>4 DEF SyncLock, NothingToSay, Wanted, Back
<1>5. ASSUME NEW t \in Threads, SyncSend(t) PROVE TypeCall'
  BY <1>5 DEF SyncSend, Send
<1>6. ASSUME NEW t \in Threads, SyncTold(t) PROVE TypeCall'
  BY <1>6 DEF SyncTold, Back
<1>7. CASE Registered
  BY <1>7 DEF Registered, Main
<1>8. CASE Publish
  BY <1>8 DEF Publish, Main
<1>9. CASE MarkReady
  BY <1>9 DEF MarkReady, Main
<1>10. CASE EnterReady
  BY <1>10 DEF EnterReady, Main
<1>11. CASE Poke
  BY <1>11 DEF Poke, Main
<1>12. CASE DrainLock
  BY <1>12 DEF DrainLock, Main
<1>13. CASE DrainSend
  BY <1>13 DEF DrainSend, Main, Send
<1>14. CASE DrainTold
  BY <1>14 DEF DrainTold, Main
<1>15. CASE Leave
  BY <1>15 DEF Leave
<1>16. CASE UNCHANGED <<pc, tgt, want>>
  BY <1>16
<1>17. CASE LoadCapacity
  BY <1>17 DEF LoadCapacity
<1>18. CASE Connect
  BY <1>18 DEF Connect, Main
<1>19. CASE ConnectFails
  BY <1>19 DEF ConnectFails, Main, RunState
<1>20. QED
  BY <1>1, <1>2, <1>3, <1>4, <1>5, <1>6, <1>7, <1>8, <1>9, <1>10, <1>11, <1>12, <1>13,
     <1>14, <1>15, <1>16, <1>17, <1>18, <1>19
     DEF Next, Watcher, Sync, Session, Add, Judge, SocketEnds, Hear, vars, Reload,
         ReloadCloses

\* ... of the sessions, as a /status is about one that was ...
LEMMA TypeSessNext ==
    ASSUME TypeOK, SessionInv, [Next]_vars
    PROVE  TypeSess'
<1> USE StatusSyncAssumption
    DEF TypeOK, Threads, Sessions, TypeSess, loadVars, watchVars, reloadVars, clientVars,
        callVars, sessVars, netVars
<1>1. ASSUME NEW t \in Threads, SyncSend(t) PROVE TypeSess'
  <2>1. tgt[t] \in Sessions BY <1>1, TargetIsSession DEF SyncSend
  <2>2. slipped' \in SUBSET Sessions BY <1>1, <2>1 DEF SyncSend
  <2>3. QED BY <1>1, <2>2 DEF SyncSend
<1>2. ASSUME NEW t \in Threads, SyncTold(t) PROVE TypeSess'
  BY <1>2 DEF SyncTold, Back
<1>3. CASE Registered
  <2>1. cur' \in 0..MaxSessions BY <1>3 DEF Registered
  <2>2. QED BY <1>3, <2>1 DEF Registered
<1>4. CASE MarkReady
  BY <1>4 DEF MarkReady, Main
<1>5. CASE DrainLock
  BY <1>5 DEF DrainLock, Main
<1>6. CASE UNCHANGED <<cur, said, draining, slipped>>
  BY <1>6
<1>7. QED
  BY <1>1, <1>2, <1>3, <1>4, <1>5, <1>6
     DEF Next, Watcher, Sync, Session, Add, Judge, Wake, Compare, SetOverloaded, SyncLock,
         NothingToSay, Wanted, Back, Publish, Main, EnterReady, Poke, DrainSend, Send,
         DrainTold, Leave, SocketEnds, Hear, vars, LoadCapacity, Connect, ConnectFails,
         Reload, ReloadCloses

\* ... of the sockets ...
LEMMA TypeNetNext ==
    ASSUME TypeOK, SessionInv, [Next]_vars
    PROVE  TypeNet'
<1> USE StatusSyncAssumption
    DEF TypeOK, Threads, TypeNet, loadVars, watchVars, reloadVars, clientVars, callVars,
        sessVars, netVars
<1>1. ASSUME NEW t \in Threads, SyncSend(t) PROVE TypeNet'
  <2>1. tgt[t] \in Sessions /\ want[t] \in Words BY <1>1, TargetIsSession DEF SyncSend,
      Words
  <2>2. QED BY <1>1, <2>1, SendDoes DEF SyncSend
<1>2. CASE Registered
  <2>1. "ready" \in Words BY DEF Words
  <2>2. QED BY <1>2, <2>1 DEF Registered
<1>3. CASE DrainSend
  <2>1. cur \in Sessions /\ "draining" \in Words BY <1>3 DEF DrainSend, Main, Words,
      SessionInv
  <2>2. QED BY <1>3, <2>1, SendDoes DEF DrainSend
<1>4. CASE Leave
  <2>1. <<>> \in Seq(Words) OBVIOUS
  <2>2. QED BY <1>4, <2>1 DEF Leave
<1>5. CASE SocketEnds
  <2>1. <<>> \in Seq(Words) OBVIOUS
  <2>2. QED BY <1>5, <2>1 DEF SocketEnds
<1>6. ASSUME NEW s \in Sessions, Hear(s) PROVE TypeNet'
  BY <1>6, HearDoes DEF Hear
<1>7. CASE UNCHANGED <<ended, wire, heard>>
  BY <1>7
<1>8. ASSUME NEW s \in Sessions, ReloadCloses(s) PROVE TypeNet'
  <2>1. <<>> \in Seq(Words) OBVIOUS
  <2>2. QED BY <1>8, <2>1 DEF ReloadCloses
<1>9. QED
  BY <1>1, <1>2, <1>3, <1>4, <1>5, <1>6, <1>7, <1>8
     DEF Next, Watcher, Sync, Session, Add, Judge, Wake, Compare, SetOverloaded, SyncLock,
         NothingToSay, Wanted, Back, SyncTold, Publish, Main, MarkReady, EnterReady, Poke,
         DrainLock, DrainTold, vars, LoadCapacity, Connect, ConnectFails, Reload

\* ... and of the reloads.
LEMMA TypeReloadNext ==
    ASSUME TypeOK, SessionInv, [Next]_vars
    PROVE  TypeReload'
<1> USE StatusSyncAssumption
    DEF TypeOK, TypeReload, Sessions, loadVars, watchVars, reloadVars, clientVars, callVars,
        sessVars, netVars
<1>1. CASE LoadCapacity
  BY <1>1 DEF LoadCapacity
<1>2. CASE Compare
  BY <1>2 DEF Compare
<1>3. CASE Registered
  <2>1. cur \in Nat /\ cur' = cur + 1 BY <1>3 DEF Registered
  <2>2. 1..cur \subseteq 1..cur' /\ 0..cur \subseteq 0..cur' BY <2>1
  <2>3. QED BY <1>3, <2>2 DEF Registered
<1>4. CASE Poke
  BY <1>4 DEF Poke
<1>5. ASSUME NEW s \in Sessions, NEW cap \in Capacities, Reload(s, cap) PROVE TypeReload'
  BY <1>5 DEF Reload
<1>6. ASSUME NEW s \in Sessions, ReloadCloses(s) PROVE TypeReload'
  BY <1>6 DEF ReloadCloses
<1>7. CASE UNCHANGED <<cur, marks, capacity, closing, reloads, stale>>
  BY <1>7
<1>8. QED
  BY <1>1, <1>2, <1>3, <1>4, <1>5, <1>6, <1>7
     DEF Next, Watcher, Sync, Session, Add, Judge, Wake, SetOverloaded, SyncLock, SyncSend,
         SyncTold, Connect, ConnectFails, Publish, MarkReady, EnterReady, DrainLock, DrainSend,
         DrainTold, Leave, SocketEnds, Hear, vars

\* statusMu is taken and released with the places in between.
LEMMA LockNext ==
    ASSUME TypeOK, LockInv, [Next]_vars
    PROVE  LockInv'
<1> USE StatusSyncAssumption
    DEF TypeOK, Threads, WatcherPlaces, MainPlaces, LockInv, loadVars, watchVars,
        reloadVars, clientVars, callVars, sessVars, netVars
<1>1. CASE Wake
  BY <1>1 DEF Wake
<1>2. CASE Compare
  BY <1>2 DEF Compare
<1>3. CASE SetOverloaded
  BY <1>3 DEF SetOverloaded
<1>4. ASSUME NEW t \in Threads, SyncLock(t) PROVE LockInv'
  BY <1>4 DEF SyncLock, NothingToSay, Wanted, Back
<1>5. ASSUME NEW t \in Threads, SyncSend(t) PROVE LockInv'
  BY <1>5 DEF SyncSend, Send
<1>6. ASSUME NEW t \in Threads, SyncTold(t) PROVE LockInv'
  BY <1>6 DEF SyncTold, Back
<1>7. CASE Registered
  BY <1>7 DEF Registered, Main
<1>8. CASE Publish
  BY <1>8 DEF Publish, Main
<1>9. CASE MarkReady
  BY <1>9 DEF MarkReady, Main
<1>10. CASE EnterReady
  BY <1>10 DEF EnterReady, Main
<1>11. CASE Poke
  BY <1>11 DEF Poke, Main
<1>12. CASE DrainLock
  BY <1>12 DEF DrainLock, Main
<1>13. CASE DrainSend
  BY <1>13 DEF DrainSend, Main, Send
<1>14. CASE DrainTold
  BY <1>14 DEF DrainTold, Main
<1>15. CASE Leave
  BY <1>15 DEF Leave
<1>16. CASE UNCHANGED <<pc, lock>>
  BY <1>16
<1>17. CASE LoadCapacity
  BY <1>17 DEF LoadCapacity
<1>18. CASE Connect
  BY <1>18 DEF Connect, Main
<1>19. CASE ConnectFails
  BY <1>19 DEF ConnectFails, Main, RunState
<1>20. QED
  BY <1>1, <1>2, <1>3, <1>4, <1>5, <1>6, <1>7, <1>8, <1>9, <1>10, <1>11, <1>12, <1>13,
     <1>14, <1>15, <1>16, <1>17, <1>18, <1>19
     DEF Next, Watcher, Sync, Session, Add, Judge, SocketEnds, Hear, vars, Reload,
         ReloadCloses

\* A frame that is sent leaves the sessions as they are.
LEMMA SessionSend ==
    ASSUME TypeOK, LockInv, SessionInv, NEW t \in Threads, SyncSend(t)
    PROVE  SessionInv'
<1>1. tgt[t] \in Sessions /\ want[t] \in Words
  BY TargetIsSession DEF SyncSend, TypeOK, Words
<1>2. /\ ended' = ended /\ heard' = heard
      /\ \A q \in Sessions : q # tgt[t] \/ ended[q] => wire'[q] = wire[q]
  BY <1>1, SendDoes DEF SyncSend
<1>3. UNCHANGED <<active, tgt, cur, draining, stale, closing>>
  BY DEF SyncSend, clientVars, sessVars, reloadVars
<1>4. pc' = [pc EXCEPT ![t] = "told"] /\ pc[t] = "send" BY DEF SyncSend
<1>5. /\ pc'["main"] \in {"offline", "dial"} <=> pc["main"] \in {"offline", "dial"}
      /\ pc'["main"] = "publish" <=> pc["main"] = "publish"
      /\ pc'["main"] \in {"sync", "send", "told"} <=> pc["main"] \in {"sync", "send", "told"}
      /\ \A u \in Threads : pc'[u] \in {"sync", "send", "told"} => pc[u] \in {"sync", "send", "told"}
  BY <1>4 DEF TypeOK, Threads
<1>6. tgt[t] <= cur BY DEF SessionInv
<1>7. QED BY <1>1, <1>2, <1>3, <1>5, <1>6 DEF SessionInv, TypeOK, Sessions

\* A new session is the latest, and nothing was said on it.
LEMMA SessionRegistered ==
    ASSUME TypeOK, LockInv, SessionInv, Registered
    PROVE  SessionInv'
<1>1. /\ cur' = cur + 1 /\ cur < MaxSessions /\ active' = active
      /\ UNCHANGED <<tgt, ended, wire, draining>>
      /\ heard' = [heard EXCEPT ![cur'] = "ready"]
      /\ pc["main"] = "dial" /\ pc' = [pc EXCEPT !["main"] = "publish"]
      /\ stale' = stale
  BY DEF Registered, Main, clientVars, reloadVars
<1>2. pc'["main"] = "publish" /\ pc'["watcher"] = pc["watcher"]
  BY <1>1 DEF TypeOK, Threads
<1>3. cur' \in Sessions /\ cur \in Nat /\ active' = 0
  BY <1>1, StatusSyncAssumption DEF TypeOK, Sessions, SessionInv
<1>4. \A s \in Sessions : s > cur' => heard'[s] = heard[s]
  BY <1>1, <1>3 DEF TypeOK, Sessions
<1>5. \A s \in Sessions : s < cur' => ended'[s]
  BY <1>1, <1>3 DEF SessionInv, Sessions
<1>6. \A u \in Threads : tgt[u] <= cur /\ tgt[u] \in Nat
  BY StatusSyncAssumption DEF SessionInv, TypeOK
<1>7. stale' # cur' BY <1>1, <1>3 DEF TypeOK
<1>8. QED BY <1>1, <1>2, <1>3, <1>4, <1>5, <1>6, <1>7 DEF SessionInv, Sessions, Threads

\* A /status that waited for its turn is about the session it was about.
LEMMA SessionLock ==
    ASSUME TypeOK, LockInv, SessionInv, NEW t \in Threads, SyncLock(t)
    PROVE  SessionInv'
<1>1. /\ UNCHANGED <<active, cur, tgt, ended, wire, draining, heard, stale, closing>>
      /\ pc[t] = "sync"
      /\ pc' = [pc EXCEPT ![t] = Back(t)] \/ pc' = [pc EXCEPT ![t] = "send"]
  BY DEF SyncLock, clientVars, sessVars, netVars, reloadVars
<1>2. /\ pc'["main"] \in {"offline", "dial"} <=> pc["main"] \in {"offline", "dial"}
      /\ pc'["main"] = "publish" <=> pc["main"] = "publish"
      /\ \A u \in Threads : pc'[u] \in {"sync", "send", "told"} => pc[u] \in {"sync", "send", "told"}
  BY <1>1 DEF TypeOK, Threads, Back
<1>3. pc'["main"] \in {"sync", "send", "told"} => pc["main"] \in {"sync", "send", "told"}
  BY <1>2 DEF Threads
<1>4. QED BY <1>1, <1>2, <1>3 DEF SessionInv

\* The registration's own /status is about the latest session.
LEMMA SessionEnter ==
    ASSUME TypeOK, LockInv, SessionInv, EnterReady
    PROVE  SessionInv'
<1>1. /\ pc["main"] = "enter" /\ pc'["main"] = "sync" /\ pc'["watcher"] = pc["watcher"]
      /\ tgt'["main"] = cur /\ tgt'["watcher"] = tgt["watcher"]
      /\ UNCHANGED <<active, cur, ended, wire, draining, heard, stale, closing>>
  BY DEF EnterReady, Main, TypeOK, Threads, clientVars, sessVars, netVars, reloadVars
<1>2. cur \in Sessions /\ cur # 0 /\ cur <= cur
  BY <1>1, StatusSyncAssumption DEF SessionInv, Sessions
<1>3. \A u \in Threads : tgt'[u] <= cur /\ (pc'[u] \in {"sync", "send", "told"} => tgt'[u] # 0)
  BY <1>1, <1>2 DEF SessionInv, Threads
<1>4. QED BY <1>1, <1>2, <1>3 DEF SessionInv

\* A /reload closes the session it came on, the latest or one before it.
LEMMA SessionCloses ==
    ASSUME TypeOK, LockInv, SessionInv, NEW s \in Sessions, ReloadCloses(s)
    PROVE  SessionInv'
<1>1. /\ s <= cur /\ s \in Nat /\ cur \in Nat /\ closing' = closing \ {s}
      /\ UNCHANGED <<active, pc, cur, tgt, draining, heard, stale>>
  BY StatusSyncAssumption
     DEF ReloadCloses, TypeOK, Sessions, clientVars, callVars, sessVars
<1>2. /\ ended'[s] /\ wire'[s] = <<>>
      /\ \A q \in Sessions : q # s => ended'[q] = ended[q] /\ wire'[q] = wire[q]
  BY DEF ReloadCloses, TypeOK
<1>3. \A q \in Sessions : ended[q] => ended'[q] BY <1>2
<1>4. \A q \in Sessions : ended'[q] => wire'[q] = <<>> BY <1>2 DEF SessionInv
<1>5. \A q \in Sessions : q > cur => q # s BY <1>1 DEF Sessions
<1>6. \A q \in Sessions : q > cur => /\ wire'[q] = <<>> /\ ~ended'[q] /\ ~draining'[q]
                                     /\ heard'[q] = "nothing"
  BY <1>1, <1>2, <1>5 DEF SessionInv
<1>7. stale' # 0 /\ stale' = cur' => cur' \in closing' \/ ended'[cur']
  <2>1. CASE s = cur BY <1>1, <1>2, <2>1
  <2>2. CASE s # cur
    <3>1. stale # 0 /\ stale = cur => cur \in Sessions
      BY StatusSyncAssumption DEF TypeOK, Sessions
    <3>2. QED BY <1>1, <1>2, <2>2, <3>1 DEF SessionInv
  <2>3. QED BY <2>1, <2>2
<1>8. QED BY <1>1, <1>3, <1>4, <1>6, <1>7 DEF SessionInv

\* The latest session stays the one Client.active points to.
LEMMA SessionNext ==
    ASSUME TypeOK, LockInv, SessionInv, [Next]_vars
    PROVE  SessionInv'
<1> USE StatusSyncAssumption
    DEF TypeOK, Threads, Sessions, WatcherPlaces, MainPlaces, LockInv, SessionInv, loadVars,
        watchVars, reloadVars, clientVars, callVars, sessVars, netVars
<1>1. CASE Wake
  BY <1>1 DEF Wake
<1>2. CASE Compare
  BY <1>2 DEF Compare
<1>3. CASE SetOverloaded
  BY <1>3 DEF SetOverloaded
<1>4. ASSUME NEW t \in Threads, SyncLock(t) PROVE SessionInv'
  BY <1>4, SessionLock
<1>5. ASSUME NEW t \in Threads, SyncSend(t) PROVE SessionInv'
  BY <1>5, SessionSend
<1>6. ASSUME NEW t \in Threads, SyncTold(t) PROVE SessionInv'
  <2>1. /\ pc'["main"] \in {"offline", "dial"} <=> pc["main"] \in {"offline", "dial"}
        /\ pc'["main"] = "publish" <=> pc["main"] = "publish"
        /\ \A u \in Threads : u # t => pc[u] = pc'[u] /\ tgt'[u] = tgt[u]
        /\ pc'[t] \notin {"sync", "send", "told"} /\ tgt'[t] = 0
    BY <1>6 DEF SyncTold, Back
  <2>2. QED BY <1>6, <2>1, SMTT(30) DEF SyncTold
<1>7. CASE Registered
  BY <1>7, SessionRegistered
<1>8. CASE Publish
  BY <1>8 DEF Publish, Main
<1>9. CASE MarkReady
  BY <1>9 DEF MarkReady, Main
<1>10. CASE EnterReady
  BY <1>10, SessionEnter
<1>11. CASE Poke
  BY <1>11 DEF Poke, Main
<1>12. CASE DrainLock
  BY <1>12, ZenonT(60) DEF DrainLock, Main
<1>13. CASE DrainSend
  BY <1>13, ZenonT(60) DEF DrainSend, Main, Send
<1>14. CASE DrainTold
  BY <1>14 DEF DrainTold, Main
<1>15. CASE Leave
  BY <1>15, ZenonT(60) DEF Leave
<1>16. CASE SocketEnds
  BY <1>16, ZenonT(60) DEF SocketEnds
<1>17. ASSUME NEW s \in Sessions, Hear(s) PROVE SessionInv'
  BY <1>17, ZenonT(60) DEF Hear
<1>18. CASE UNCHANGED <<active, pc, cur, tgt, ended, wire, draining, heard, stale, closing>>
  BY <1>18
<1>19. CASE LoadCapacity
  BY <1>19 DEF LoadCapacity
<1>20. CASE Connect
  BY <1>20 DEF Connect, Main
<1>21. CASE ConnectFails
  BY <1>21 DEF ConnectFails, Main, RunState
<1>22. ASSUME NEW s \in Sessions, ReloadCloses(s) PROVE SessionInv'
  BY <1>22, SessionCloses
<1>23. ASSUME NEW s \in Sessions, NEW cap \in Capacities, Reload(s, cap) PROVE SessionInv'
  BY <1>23 DEF Reload
<1>24. QED
  BY <1>1, <1>2, <1>3, <1>4, <1>5, <1>6, <1>7, <1>8, <1>9, <1>10, <1>11, <1>12, <1>13,
     <1>14, <1>15, <1>16, <1>17, <1>18, <1>19, <1>20, <1>21, <1>22, <1>23
     DEF Next, Watcher, Sync, Session, Add, Judge, vars

\* From DrainLock to Leave no /status of another goroutine starts: the flag
\* draining, written under statusMu, stops it.
LEMMA DrainNext ==
    ASSUME TypeOK, LockInv, SessionInv, DrainInv, [Next]_vars
    PROVE  DrainInv'
<1> USE StatusSyncAssumption
    DEF TypeOK, Threads, Sessions, WatcherPlaces, MainPlaces, LockInv, SessionInv, DrainInv,
        loadVars, watchVars, reloadVars, clientVars, callVars, sessVars, netVars
<1>1. CASE Wake
  BY <1>1 DEF Wake
<1>2. CASE Compare
  BY <1>2 DEF Compare
<1>3. CASE SetOverloaded
  BY <1>3 DEF SetOverloaded
<1>4. ASSUME NEW t \in Threads, SyncLock(t) PROVE DrainInv'
  <2>1. CASE t = "main"
    <3>1. /\ pc["main"] = "sync" /\ pc'["main"] \in {"poke", "send"}
          /\ UNCHANGED <<cur, draining>>
      BY <1>4, <2>1 DEF SyncLock, Back
    <3>2. QED BY <3>1
  <2>2. CASE t = "watcher"
    <3>1. pc'["main"] = pc["main"] BY <1>4, <2>2 DEF SyncLock
    <3>2. pc["main"] \in {"drain", "drainTold", "drained"} => NothingToSay(tgt[t])
      BY <1>4, <2>2 DEF SyncLock, NothingToSay
    <3>3. pc["main"] \in {"drain", "drainTold", "drained"} => pc'["watcher"] = "wait"
      BY <1>4, <2>2, <3>2 DEF SyncLock, Back
    <3>4. QED BY <1>4, <2>2, <3>1, <3>3 DEF SyncLock
  <2>3. QED BY <2>1, <2>2
<1>5. ASSUME NEW t \in Threads, SyncSend(t) PROVE DrainInv'
  BY <1>5 DEF SyncSend, Send
<1>6. ASSUME NEW t \in Threads, SyncTold(t) PROVE DrainInv'
  BY <1>6 DEF SyncTold, Back
<1>7. CASE Registered
  BY <1>7 DEF Registered, Main
<1>8. CASE Publish
  BY <1>8 DEF Publish, Main
<1>9. CASE MarkReady
  BY <1>9 DEF MarkReady, Main
<1>10. CASE EnterReady
  BY <1>10 DEF EnterReady, Main
<1>11. CASE Poke
  BY <1>11 DEF Poke, Main
<1>12. CASE DrainLock
  BY <1>12 DEF DrainLock, Main
<1>13. CASE DrainSend
  BY <1>13 DEF DrainSend, Main, Send
<1>14. CASE DrainTold
  BY <1>14 DEF DrainTold, Main
<1>15. CASE Leave
  BY <1>15 DEF Leave
<1>16. CASE UNCHANGED <<pc, draining, cur>>
  BY <1>16
<1>17. CASE LoadCapacity
  BY <1>17 DEF LoadCapacity
<1>18. CASE Connect
  BY <1>18 DEF Connect, Main
<1>19. CASE ConnectFails
  BY <1>19 DEF ConnectFails, Main, RunState
<1>20. QED
  BY <1>1, <1>2, <1>3, <1>4, <1>5, <1>6, <1>7, <1>8, <1>9, <1>10, <1>11, <1>12, <1>13,
     <1>14, <1>15, <1>16, <1>17, <1>18, <1>19
     DEF Next, Watcher, Sync, Session, Add, Judge, SocketEnds, Hear, vars, Reload,
         ReloadCloses

\* Reading keeps the order.
LEMMA WireHear ==
    ASSUME TypeOK, WireInv, NEW s \in Sessions, Hear(s)
    PROVE  WireInv'
<1> DEFINE Fresh == s = cur /\ pc["main"] \notin {"offline", "dial", "drainTold", "drained"}
<1>1. UNCHANGED <<pc, cur>> BY DEF Hear, callVars, sessVars
<1>2. \A q \in Sessions : q # s => wire'[q] = wire[q] /\ heard'[q] = heard[q]
  BY HearDoes
<1>3. /\ Len(wire[s]) \in Nat /\ Len(wire[s]) > 0
      /\ heard'[s] = wire[s][1]
      /\ Len(wire'[s]) = Len(wire[s]) - 1
      /\ wire'[s] = <<>> <=> Len(wire[s]) = 1
  BY HearDoes
<1>4. \A i \in 1..Len(wire'[s]) : wire'[s][i] = wire[s][i + 1] BY HearDoes
<1>5. \A i \in 1..Len(wire[s]) :
        (wire[s][i] = "draining" => i = Len(wire[s])) /\ (Fresh => wire[s][i] # "draining")
  BY DEF WireInv
<1>6. 1 \in 1..Len(wire[s]) BY <1>3
<1>7. heard'[s] = "draining" => wire'[s] = <<>> BY <1>3, <1>5, <1>6
<1>8. ASSUME NEW i \in 1..Len(wire'[s])
      PROVE  /\ wire'[s][i] = "draining" => i = Len(wire'[s])
             /\ Fresh => wire'[s][i] # "draining"
  <2>1. i + 1 \in 1..Len(wire[s]) BY <1>3
  <2>2. QED BY <1>3, <1>4, <1>5, <2>1
<1>9. Fresh => heard'[s] # "draining" BY <1>3, <1>5, <1>6
<1>10. QED BY <1>1, <1>2, <1>7, <1>8, <1>9 DEF WireInv

\* Only DrainSend puts "draining" on a socket, and nothing comes after it.
LEMMA WireNext ==
    ASSUME TypeOK, LockInv, SessionInv, DrainInv, WireInv, [Next]_vars
    PROVE  WireInv'
<1> USE StatusSyncAssumption
    DEF TypeOK, Threads, loadVars, watchVars, reloadVars, clientVars, callVars, sessVars,
        netVars
<1> DEFINE Over == pc["main"] \in {"offline", "dial", "drainTold", "drained"}
<1>1. ASSUME UNCHANGED <<cur, heard, wire>>, Over => Over' PROVE WireInv'
  BY <1>1 DEF WireInv
<1>2. ASSUME NEW w \in Workers, Add(w) \/ Judge(w) PROVE WireInv'
  BY <1>1, <1>2 DEF Add, Judge
<1>3. CASE Wake \/ LoadCapacity \/ Compare \/ SetOverloaded
  BY <1>1, <1>3 DEF Wake, LoadCapacity, Compare, SetOverloaded
<1>4. ASSUME NEW t \in Threads, SyncLock(t) \/ SyncTold(t) PROVE WireInv'
  BY <1>1, <1>4 DEF SyncLock, SyncTold
<1>5. ASSUME NEW t \in Threads, SyncSend(t) PROVE WireInv'
  <2>1. tgt[t] \in Sessions /\ want[t] \in Words /\ want[t] # "draining"
    BY <1>5, TargetIsSession DEF SyncSend, Words
  <2>2. CASE ended[tgt[t]]
    <3>1. UNCHANGED <<cur, heard, wire>> /\ (Over => Over')
      BY <1>5, <2>1, <2>2 DEF SyncSend, Send
    <3>2. QED BY <1>1, <3>1
  <2>3. CASE ~ended[tgt[t]]
    <3>1. tgt[t] = cur /\ ~Over
      BY <1>5, <2>1, <2>3 DEF SyncSend, SessionInv, LockInv, DrainInv, Sessions, MainPlaces
    <3>2. heard[cur] # "draining" /\ \A i \in 1..Len(wire[cur]) : wire[cur][i] # "draining"
      BY <2>1, <3>1 DEF WireInv
    <3>3. heard' = heard /\ \A q \in Sessions : q # cur => wire'[q] = wire[q]
      BY <1>5, <2>1, <3>1, SendDoes DEF SyncSend
    <3>4. \A i \in 1..Len(wire'[cur]) : wire'[cur][i] # "draining"
      <4>1. /\ Len(wire'[cur]) = Len(wire[cur]) + 1
            /\ wire'[cur][Len(wire[cur]) + 1] = want[t]
            /\ \A i \in 1..Len(wire[cur]) : wire'[cur][i] = wire[cur][i]
        BY <1>5, <2>1, <2>3, <3>1, SendDoes DEF SyncSend
      <4>2. Len(wire[cur]) \in Nat BY <2>1, <3>1
      <4>3. ASSUME NEW i \in 1..Len(wire'[cur]) PROVE wire'[cur][i] # "draining"
        <5>1. i \in 1..Len(wire[cur]) \/ i = Len(wire[cur]) + 1 BY <4>1, <4>2
        <5>2. QED BY <2>1, <3>2, <4>1, <5>1
      <4>4. QED BY <4>3
    <3>5. cur' = cur BY <1>5 DEF SyncSend
    <3>6. QED BY <2>1, <3>1, <3>2, <3>3, <3>4, <3>5 DEF WireInv
  <2>4. QED BY <2>2, <2>3
<1>6. CASE Registered
  <2>1. /\ cur' = cur + 1 /\ cur' \in Sessions /\ wire' = wire /\ wire[cur'] = <<>>
        /\ heard'[cur'] = "ready"
        /\ \A q \in Sessions : q # cur' => heard'[q] = heard[q]
    BY <1>6 DEF Registered, SessionInv, Sessions
  <2>2. QED BY <2>1 DEF WireInv
<1>7. CASE \/ Connect \/ ConnectFails \/ Publish \/ MarkReady \/ EnterReady \/ Poke
          \/ DrainLock \/ DrainTold
  BY <1>1, <1>7 DEF Connect, ConnectFails, Publish, MarkReady, EnterReady, Poke, DrainLock,
      DrainTold, Main
<1>8. CASE DrainSend
  <2>1. cur \in Sessions /\ "draining" \in Words /\ ~Over
    BY <1>8 DEF DrainSend, Main, Words, SessionInv
  <2>2. Over' /\ cur' = cur /\ heard' = heard
    BY <1>8, <2>1, SendDoes DEF DrainSend, Main
  <2>3. heard[cur] # "draining" /\ \A i \in 1..Len(wire[cur]) : wire[cur][i] # "draining"
    BY <2>1 DEF WireInv
  <2>4. \A q \in Sessions : q # cur => wire'[q] = wire[q]
    BY <1>8, <2>1, SendDoes, SMTT(30) DEF DrainSend
  <2>5. \A i \in 1..Len(wire'[cur]) : wire'[cur][i] = "draining" => i = Len(wire'[cur])
    <3>1. CASE ended[cur]
      BY <1>8, <2>1, <2>3, <3>1, SendDoes DEF DrainSend
    <3>2. CASE ~ended[cur]
      <4>1. /\ Len(wire'[cur]) = Len(wire[cur]) + 1
            /\ \A i \in 1..Len(wire[cur]) : wire'[cur][i] = wire[cur][i]
        BY <1>8, <2>1, <3>2, SendDoes DEF DrainSend
      <4>2. Len(wire[cur]) \in Nat BY <2>1
      <4>3. ASSUME NEW i \in 1..Len(wire'[cur]), i # Len(wire'[cur])
            PROVE  wire'[cur][i] # "draining"
        <5>1. i \in 1..Len(wire[cur]) BY <4>1, <4>2, <4>3
        <5>2. QED BY <2>3, <4>1, <5>1
      <4>4. QED BY <4>3
    <3>3. QED BY <3>1, <3>2
  <2>6. heard[cur] = "draining" => wire'[cur] = <<>> BY <2>3
  <2>7. ASSUME NEW q \in Sessions
        PROVE  /\ heard'[q] = "draining" => wire'[q] = <<>>
               /\ \A i \in 1..Len(wire'[q]) : wire'[q][i] = "draining" => i = Len(wire'[q])
    <3>1. CASE q = cur BY <2>2, <2>5, <2>6, <3>1
    <3>2. CASE q # cur
      <4>1. wire'[q] = wire[q] /\ heard'[q] = heard[q] BY <2>2, <2>4, <3>2
      <4>2. QED BY <4>1 DEF WireInv
    <3>3. QED BY <3>1, <3>2
  <2>8. QED BY <2>2, <2>7 DEF WireInv
<1>9. CASE Leave \/ SocketEnds
  <2>1. cur \in Sessions /\ cur' = cur /\ heard' = heard /\ wire' = [wire EXCEPT ![cur] = <<>>]
    BY <1>9 DEF Leave, SocketEnds, SessionInv, MainPlaces
  <2>2. wire'[cur] = <<>> /\ \A q \in Sessions : q # cur => wire'[q] = wire[q]
    BY <2>1
  <2>3. pc["main"] \notin {"drainTold", "drained"} /\ ~Over' => ~Over
    BY <1>9 DEF Leave, SocketEnds
  <2>4. Over /\ pc'["main"] # "offline" => Over'
    BY <1>9 DEF Leave, SocketEnds
  <2>5. Over' \/ ~Over BY <2>4
  <2>6. ASSUME NEW q \in Sessions
        PROVE  /\ heard'[q] = heard[q]
               /\ wire'[q] = IF q = cur THEN <<>> ELSE wire[q]
    BY <2>1, <2>2
  <2>7. \A i \in 1..Len(wire'[cur]) : FALSE BY <2>2
  <2>8. QED
    <3>1. ASSUME NEW q \in Sessions
          PROVE  /\ heard'[q] = "draining" => wire'[q] = <<>>
                 /\ \A i \in 1..Len(wire'[q]) : wire'[q][i] = "draining" => i = Len(wire'[q])
      <4>1. CASE q = cur BY <2>2, <2>7, <4>1
      <4>2. CASE q # cur BY <2>6, <4>2 DEF WireInv
      <4>3. QED BY <4>1, <4>2
    <3>2. ~Over' => heard'[cur] # "draining" /\ \A i \in 1..Len(wire'[cur]) : wire'[cur][i] # "draining"
      <4>1. ~Over' => heard[cur] # "draining" BY <2>1, <2>5 DEF WireInv
      <4>2. QED BY <2>6, <2>7, <4>1, <2>1
    <3>3. QED BY <2>1, <3>1, <3>2 DEF WireInv
<1>10. ASSUME NEW s \in Sessions, Hear(s) PROVE WireInv'
  BY <1>10, WireHear
<1>11. CASE UNCHANGED vars
  BY <1>1, <1>11 DEF vars
<1>12. ASSUME NEW s \in Sessions, ReloadCloses(s) PROVE WireInv'
  <2>1. UNCHANGED <<cur, heard, pc>> /\ wire' = [wire EXCEPT ![s] = <<>>]
    BY <1>12 DEF ReloadCloses
  <2>2. wire'[s] = <<>> /\ \A q \in Sessions : q # s => wire'[q] = wire[q] BY <2>1
  <2>3. QED BY <2>1, <2>2 DEF WireInv
<1>13. ASSUME NEW s \in Sessions, NEW cap \in Capacities, Reload(s, cap) PROVE WireInv'
  BY <1>1, <1>13 DEF Reload
<1>14. QED
  BY <1>2, <1>3, <1>4, <1>5, <1>6, <1>7, <1>8, <1>9, <1>10, <1>11, <1>12, <1>13
     DEF Next, Watcher, Sync, Session

\* Every Add that moves the count over a mark has a Judge before it.
LEMMA LoadNext ==
    ASSUME TypeOK, LockInv, LoadInv, [Next]_vars
    PROVE  LoadInv'
<1> USE StatusSyncAssumption
    DEF TypeOK, Threads, LoadInv, Awake, loadVars, watchVars, reloadVars, clientVars,
        callVars, sessVars, netVars
<1>1. ASSUME NEW w \in Workers, Add(w) PROVE LoadInv'
  BY <1>1 DEF Add
<1>2. ASSUME NEW w \in Workers, Judge(w) PROVE LoadInv'
  BY <1>2 DEF Judge
<1>3. CASE Wake
  BY <1>3 DEF Wake
<1>4. CASE Compare
  <2>1. /\ pc'["watcher"] \in {"wait", "set"}
        /\ UNCHANGED <<n, wake, capacity, stale, wpc, seen, overloaded>>
        /\ pc'["watcher"] # "set" => on' = on
        /\ pc["watcher"] = "count"
    BY <1>4 DEF Compare
  <2>2. marks = capacity => (~on' => n < capacity) /\ (on' => n > Low(capacity))
    <3>1. IF on THEN on' <=> n > Low(marks) ELSE on' <=> n >= marks
      BY <1>4 DEF Compare
    <3>2. QED BY <3>1, LowIsBelow
  <2>3. stale = 0 => wake \/ marks = capacity BY <2>1
  <2>4. Low(capacity) \in Int /\ capacity \in Int BY LowIsBelow
  <2>5. QED BY <2>1, <2>2, <2>3, <2>4
<1>5. CASE SetOverloaded
  BY <1>5 DEF SetOverloaded
<1>6. ASSUME NEW t \in Threads, SyncLock(t) PROVE LoadInv'
  BY <1>6 DEF SyncLock, NothingToSay, Wanted, Back
<1>7. ASSUME NEW t \in Threads, SyncSend(t) PROVE LoadInv'
  BY <1>7 DEF SyncSend, Send
<1>8. ASSUME NEW t \in Threads, SyncTold(t) PROVE LoadInv'
  BY <1>8 DEF SyncTold, Back
<1>9. CASE Registered
  BY <1>9 DEF Registered, Main
<1>10. CASE Publish
  BY <1>10 DEF Publish, Main
<1>11. CASE MarkReady
  BY <1>11 DEF MarkReady, Main
<1>12. CASE EnterReady
  BY <1>12 DEF EnterReady, Main
<1>13. CASE Poke
  BY <1>13 DEF Poke, Main
<1>14. CASE DrainLock
  BY <1>14 DEF DrainLock, Main
<1>15. CASE DrainSend
  BY <1>15 DEF DrainSend, Main, Send
<1>16. CASE DrainTold
  BY <1>16 DEF DrainTold, Main
<1>17. CASE Leave
  BY <1>17 DEF Leave
<1>18. CASE UNCHANGED <<pc, on, marks, n, wake, wpc, seen, overloaded, capacity, stale>>
  BY <1>18
<1>19. CASE LoadCapacity
  BY <1>19 DEF LoadCapacity
<1>20. CASE Connect
  BY <1>20 DEF Connect, Main
<1>21. CASE ConnectFails
  BY <1>21 DEF ConnectFails, Main, RunState
<1>22. ASSUME NEW s \in Sessions, NEW cap \in Capacities, Reload(s, cap) PROVE LoadInv'
  BY <1>22 DEF Reload
<1>23. QED
  BY <1>1, <1>2, <1>3, <1>4, <1>5, <1>6, <1>7, <1>8, <1>9, <1>10, <1>11, <1>12, <1>13,
     <1>14, <1>15, <1>16, <1>17, <1>18, <1>19, <1>20, <1>21, <1>22
     DEF Next, Watcher, Sync, Session, SocketEnds, Hear, vars, ReloadCloses

\* The flag that is not told yet is about to be.
LEMMA SaidNext ==
    ASSUME IndInv, [Next]_vars
    PROVE  SaidInv'
<1>0. pc["main"] \notin {"offline", "dial"} => cur # 0
  BY StatusSyncAssumption DEF IndInv, SessionInv, Sessions
<1> USE <1>0, StatusSyncAssumption
    DEF IndInv, TypeOK, Threads, WatcherPlaces, MainPlaces, LockInv, SessionInv, DrainInv,
        SaidInv, Pending, Wanted, loadVars, watchVars, reloadVars, clientVars, callVars,
        sessVars, netVars
<1>1. CASE Wake
  BY <1>1 DEF Wake
<1>2. CASE Compare
  BY <1>2 DEF Compare
<1>3. CASE SetOverloaded
  <2>1. pc'["main"] = pc["main"] /\ UNCHANGED <<want, cur, said, slipped>>
    BY <1>3 DEF SetOverloaded
  <2>2. pc'["watcher"] \in {"sync", "wait"} BY <1>3 DEF SetOverloaded
  <2>3. pc["main"] \in {"send", "told", "poke", "loop"} => Pending'
    <3>1. pc["main"] \in {"send", "told", "poke", "loop"} => active = cur OBVIOUS
    <3>2. QED BY <1>3, <3>1 DEF SetOverloaded
  <2>4. QED BY <2>1, <2>2, <2>3
<1>4. ASSUME NEW t \in Threads, SyncLock(t) PROVE SaidInv'
  BY <1>4 DEF SyncLock, NothingToSay, Wanted, Back
<1>5. ASSUME NEW t \in Threads, SyncSend(t) PROVE SaidInv'
  BY <1>5 DEF SyncSend, Send
<1>6. ASSUME NEW t \in Threads, SyncTold(t) PROVE SaidInv'
  BY <1>6 DEF SyncTold, Back
<1>7. CASE Registered
  BY <1>7 DEF Registered, Main
<1>8. CASE Publish
  BY <1>8 DEF Publish, Main
<1>9. CASE MarkReady
  BY <1>9 DEF MarkReady, Main
<1>10. CASE EnterReady
  BY <1>10 DEF EnterReady, Main
<1>11. CASE Poke
  BY <1>11 DEF Poke, Main
<1>12. CASE DrainLock
  BY <1>12 DEF DrainLock, Main
<1>13. CASE DrainSend
  BY <1>13 DEF DrainSend, Main, Send
<1>14. CASE DrainTold
  BY <1>14 DEF DrainTold, Main
<1>15. CASE Leave
  BY <1>15 DEF Leave
<1>16. CASE UNCHANGED <<pc, want, tgt, cur, slipped, said, overloaded>>
  BY <1>16
<1>17. CASE LoadCapacity
  BY <1>17 DEF LoadCapacity
<1>18. CASE Connect
  BY <1>18 DEF Connect, Main
<1>19. CASE ConnectFails
  BY <1>19 DEF ConnectFails, Main, RunState
<1>20. QED
  BY <1>1, <1>2, <1>3, <1>4, <1>5, <1>6, <1>7, <1>8, <1>9, <1>10, <1>11, <1>12, <1>13,
     <1>14, <1>15, <1>16, <1>17, <1>18, <1>19
     DEF Next, Watcher, Sync, Session, Add, Judge, SocketEnds, Hear, vars, Reload,
         ReloadCloses

\* What is heard last is what was sent last.
LEMMA LastSent ==
    ASSUME TypeOK, NEW s \in Sessions, NEW word \in Words, Send(s, word)
    PROVE  /\ ~ended[s] => Last(s)' = word
           /\ \A q \in Sessions : q # s \/ ended[q] => Last(q)' = Last(q)
BY SendDoes DEF Last

\* Reading does not change it.
LEMMA LastHeard ==
    ASSUME TypeOK, NEW s \in Sessions, Hear(s)
    PROVE  \A q \in Sessions : Last(q)' = Last(q)
<1>1. \A q \in Sessions : q # s => Last(q)' = Last(q) BY HearDoes DEF Last
<1>2. /\ wire[s] # <<>> /\ Len(wire[s]) \in Nat /\ Len(wire[s]) > 0
      /\ heard'[s] = wire[s][1]
      /\ Len(wire'[s]) = Len(wire[s]) - 1
      /\ \A i \in 1..Len(wire'[s]) : wire'[s][i] = wire[s][i + 1]
      /\ wire'[s] = <<>> <=> Len(wire[s]) = 1
  BY HearDoes DEF Hear
<1>3. CASE Len(wire[s]) = 1
  <2>1. wire'[s] = <<>> BY <1>2, <1>3
  <2>2. Last(s)' = heard'[s] BY <2>1 DEF Last
  <2>3. Last(s) = wire[s][1] BY <1>2, <1>3 DEF Last
  <2>4. QED BY <1>1, <1>2, <2>2, <2>3
<1>4. CASE Len(wire[s]) # 1
  <2>1. Len(wire'[s]) \in 1..Len(wire'[s]) BY <1>2, <1>4
  <2>2. wire'[s][Len(wire'[s])] = wire[s][Len(wire'[s]) + 1] BY <1>2, <2>1
  <2>3. Len(wire'[s]) + 1 = Len(wire[s]) BY <1>2
  <2>4. wire'[s] # <<>> BY <1>2, <1>4
  <2>5. Last(s)' = wire'[s][Len(wire'[s])] BY <2>4 DEF Last
  <2>6. Last(s) = wire[s][Len(wire[s])] BY <1>2 DEF Last
  <2>7. QED BY <1>1, <2>2, <2>3, <2>5, <2>6
<1>5. QED BY <1>1, <1>3, <1>4

\* The call that decides what is said.
LEMMA HeardLock ==
    ASSUME IndInv, NEW t \in Threads, SyncLock(t)
    PROVE  HeardInv'
<1>1. /\ UNCHANGED <<wire, heard, ended, said, state, cur, slipped, tgt>>
      /\ pc[t] = "sync"
      /\ pc' = [pc EXCEPT ![t] = Back(t)] \/ pc' = [pc EXCEPT ![t] = "send"]
      /\ \A u \in Threads : u # t => want'[u] = want[u]
  BY DEF SyncLock, clientVars, sessVars, netVars, IndInv, TypeOK
<1>2. /\ \A u \in Threads : pc'[u] = "told" <=> pc[u] = "told"
      /\ pc'["main"] \in {"sync", "send", "told", "poke", "loop"} =>
           pc["main"] \in {"sync", "send", "told", "poke", "loop"}
      /\ pc'["main"] \in {"publish", "mark", "enter"} => pc'["main"] = pc["main"]
  BY <1>1 DEF IndInv, TypeOK, Threads, Back
<1>3. \A u \in Threads : pc[u] = "told" => want'[u] = want[u] BY <1>1
<1>4. \A s \in Sessions : Last(s)' = Last(s) BY <1>1 DEF Last
<1>5. pc["main"] \notin {"offline", "dial"} => cur \in Sessions BY DEF IndInv, SessionInv
<1>6. QED BY <1>1, <1>2, <1>3, <1>4, <1>5 DEF IndInv, HeardInv, Last

\* The frame itself.
LEMMA HeardSend ==
    ASSUME IndInv, NEW t \in Threads, SyncSend(t)
    PROVE  HeardInv'
<1>1. tgt[t] \in Sessions /\ want[t] \in Words
  BY TargetIsSession DEF SyncSend, IndInv, TypeOK, Words
<1>2. /\ UNCHANGED <<heard, ended, said, state, cur, tgt, want>>
      /\ pc[t] = "send" /\ pc' = [pc EXCEPT ![t] = "told"]
      /\ slipped \subseteq slipped'
      /\ pc["main"] \in {"mark", "enter"} => tgt[t] \in slipped'
  BY DEF SyncSend, Send, clientVars, sessVars
<1>3. /\ \A u \in Threads : u # t => pc'[u] = pc[u] /\ pc[u] # "told"
      /\ pc'[t] = "told"
      /\ pc'["main"] \in {"publish", "mark", "enter"} => pc'["main"] = pc["main"]
      /\ pc'["main"] \in {"sync", "send", "told", "poke", "loop"} =>
           pc["main"] \in {"sync", "send", "told", "poke", "loop"}
  BY <1>2 DEF IndInv, TypeOK, Threads, LockInv
<1>4. /\ ~ended[tgt[t]] => Last(tgt[t])' = want[t]
      /\ \A q \in Sessions : q # tgt[t] \/ ended[q] => Last(q)' = Last(q)
  BY <1>1, LastSent DEF SyncSend, IndInv
<1>5. pc["main"] \notin {"offline", "dial"} => cur \in Sessions BY DEF IndInv, SessionInv
<1>6. pc["main"] = "publish" => tgt[t] # cur
  BY <1>2 DEF IndInv, SessionInv, Threads
<1>7. CASE tgt[t] = cur
  BY <1>1, <1>2, <1>3, <1>4, <1>5, <1>6, <1>7 DEF IndInv, HeardInv
<1>8. CASE tgt[t] # cur
  BY <1>1, <1>2, <1>3, <1>4, <1>5, <1>6, <1>8 DEF IndInv, HeardInv
<1>9. QED BY <1>7, <1>8

\* Its end.
LEMMA HeardTold ==
    ASSUME IndInv, NEW t \in Threads, SyncTold(t)
    PROVE  HeardInv'
<1>1. tgt[t] \in Sessions /\ want[t] \in {"ready", "overloaded"}
  BY TargetIsSession DEF SyncTold, IndInv, TypeOK
<1>2. /\ UNCHANGED <<wire, heard, ended, cur, slipped>>
      /\ pc[t] = "told" /\ pc' = [pc EXCEPT ![t] = Back(t)]
      /\ said' = [said EXCEPT ![tgt[t]] = want[t]]
      /\ active = tgt[t] => state' = StateOf(want[t])
      /\ active # tgt[t] => state' = state
      /\ \A u \in Threads : u # t => want'[u] = want[u] /\ tgt'[u] = tgt[u]
  BY DEF SyncTold, netVars, StateOf, IndInv, TypeOK
<1>3. /\ \A u \in Threads : pc'[u] # "told"
      /\ \A u \in Threads : u # t => pc[u] # "told"
      /\ pc'["main"] \in {"publish", "mark", "enter"} => pc'["main"] = pc["main"]
      /\ pc'["main"] \in {"sync", "send", "told", "poke", "loop"} =>
           pc["main"] \in {"sync", "send", "told", "poke", "loop"}
  BY <1>2 DEF IndInv, TypeOK, Threads, LockInv, Back
<1>4. \A s \in Sessions : Last(s)' = Last(s) BY <1>2 DEF Last
<1>5. /\ pc["main"] \notin {"offline", "dial"} => cur \in Sessions
      /\ pc["main"] \in {"sync", "send", "told", "poke", "loop"} => active = cur
  BY DEF IndInv, SessionInv
<1>6. CASE tgt[t] = cur
  <2>1. said'[cur] = want[t] BY <1>1, <1>2, <1>6 DEF IndInv, TypeOK
  <2>2. pc["main"] \in {"mark", "enter"} => cur \in slipped
    BY <1>2, <1>6 DEF IndInv, SaidInv, Threads
  <2>3. pc["main"] # "publish"
    BY <1>2, <1>6 DEF IndInv, SessionInv, Threads
  <2>4. QED BY <1>1, <1>2, <1>3, <1>4, <1>5, <1>6, <2>1, <2>2, <2>3 DEF IndInv, HeardInv
<1>7. CASE tgt[t] # cur
  <2>1. pc["main"] \notin {"offline", "dial"} => said'[cur] = said[cur]
    BY <1>1, <1>2, <1>5, <1>7 DEF IndInv, TypeOK
  <2>2. QED BY <1>1, <1>2, <1>3, <1>4, <1>5, <1>7, <2>1 DEF IndInv, HeardInv
<1>8. QED BY <1>6, <1>7

\* What the client believes it said is what the gateway will hear.
LEMMA HeardNext ==
    ASSUME IndInv, [Next]_vars
    PROVE  HeardInv'
<1> USE StatusSyncAssumption
    DEF IndInv, TypeOK, Threads, Sessions, WatcherPlaces, MainPlaces, LockInv, SessionInv,
        SaidInv, HeardInv, Last, StateOf, loadVars, watchVars, reloadVars, clientVars,
        callVars, sessVars, netVars
<1>1. CASE Wake
  BY <1>1 DEF Wake
<1>2. CASE Compare
  BY <1>2 DEF Compare
<1>3. CASE SetOverloaded
  BY <1>3 DEF SetOverloaded
<1>4. ASSUME NEW t \in Threads, SyncLock(t) PROVE HeardInv'
  BY <1>4, HeardLock
<1>5. ASSUME NEW t \in Threads, SyncSend(t) PROVE HeardInv'
  BY <1>5, HeardSend
<1>6. ASSUME NEW t \in Threads, SyncTold(t) PROVE HeardInv'
  BY <1>6, HeardTold
<1>7. CASE Registered
  BY <1>7 DEF Registered, Main
<1>8. CASE Publish
  BY <1>8 DEF Publish, Main
<1>9. CASE MarkReady
  BY <1>9 DEF MarkReady, Main
<1>10. CASE EnterReady
  BY <1>10 DEF EnterReady, Main
<1>11. CASE Poke
  BY <1>11 DEF Poke, Main
<1>12. CASE DrainLock
  BY <1>12 DEF DrainLock, Main
<1>13. CASE DrainSend
  BY <1>13 DEF DrainSend, Main, Send
<1>14. CASE DrainTold
  BY <1>14 DEF DrainTold, Main
<1>15. CASE Leave
  BY <1>15 DEF Leave
<1>16. CASE SocketEnds
  BY <1>16 DEF SocketEnds
<1>17. ASSUME NEW s \in Sessions, Hear(s) PROVE HeardInv'
  <2>1. \A q \in Sessions : Last(q)' = Last(q) BY <1>17, LastHeard
  <2>2. UNCHANGED <<pc, want, tgt, cur, slipped, said, ended, state>> BY <1>17 DEF Hear
  <2> HIDE DEF Last
  <2>3. QED BY <2>1, <2>2
<1>18. CASE UNCHANGED <<pc, want, tgt, cur, slipped, said, ended, state, wire, heard>>
  BY <1>18
<1>19. CASE LoadCapacity
  BY <1>19 DEF LoadCapacity
<1>20. CASE Connect
  BY <1>20 DEF Connect, Main
<1>21. CASE ConnectFails
  BY <1>21 DEF ConnectFails, Main, RunState
<1>22. ASSUME NEW s \in Sessions, ReloadCloses(s) PROVE HeardInv'
  BY <1>22, ZenonT(60) DEF ReloadCloses
<1>23. QED
  BY <1>1, <1>2, <1>3, <1>4, <1>5, <1>6, <1>7, <1>8, <1>9, <1>10, <1>11, <1>12, <1>13,
     <1>14, <1>15, <1>16, <1>17, <1>18, <1>19, <1>20, <1>21, <1>22
     DEF Next, Watcher, Sync, Session, Add, Judge, vars, Reload

-----------------------------------------------------------------------------
(* The theorems.                                                           *)

\* It holds at the start.
LEMMA InitInd == Init => IndInv
<1> SUFFICES ASSUME Init PROVE IndInv OBVIOUS
<1> USE StatusSyncAssumption
    DEF Init
<1>1. TypeOK
  <2>1. TypeLoad
    <3>1. wake \in BOOLEAN /\ on \in BOOLEAN OBVIOUS
    <3>2. n \in Int /\ wpc \in [Workers -> {"out", "came", "in", "left"}] /\ seen \in [Workers -> Int]
      OBVIOUS
    <3>3. QED BY <3>1, <3>2 DEF TypeLoad
  <2>5. TypeClient
    <3>1. overloaded \in BOOLEAN OBVIOUS
    <3>2. active \in 0..MaxSessions OBVIOUS
    <3>3. QED BY <3>1, <3>2 DEF TypeClient
  <2>2. TypeCall BY DEF TypeCall, Threads
  <2>3. TypeSess BY DEF TypeSess, Sessions
  <2>4. TypeNet BY DEF TypeNet
  <2>6. TypeReload BY DEF TypeReload
  <2>7. QED BY <2>1, <2>2, <2>3, <2>4, <2>5, <2>6, TypeGroups
<1>2. pc["watcher"] = "wait" /\ pc["main"] = "offline" OBVIOUS
<1>3. LockInv BY <1>2 DEF LockInv, WatcherPlaces, MainPlaces
<1>4. SessionInv BY <1>2 DEF SessionInv, Threads, Sessions
<1>5. DrainInv BY <1>2 DEF DrainInv
<1>6. WireInv BY <1>2 DEF WireInv, Sessions
<1>7. LoadInv
  <2>1. ~on /\ overloaded = on OBVIOUS
  <2>2. ~(n >= capacity) /\ pc["watcher"] = "wait" OBVIOUS
  <2>3. QED BY <2>1, <2>2 DEF LoadInv
<1>8. SaidInv BY <1>2 DEF SaidInv
<1>9. HeardInv BY <1>2 DEF HeardInv
<1>10. QED BY <1>1, <1>3, <1>4, <1>5, <1>6, <1>7, <1>8, <1>9 DEF IndInv

\* The inductive invariant of the three goroutines holds throughout.
THEOREM Invariance == Spec => []IndInv
<1>1. IndInv /\ [Next]_vars => IndInv'
  <2> SUFFICES ASSUME IndInv, [Next]_vars PROVE IndInv' OBVIOUS
  <2>1. TypeOK'
    BY TypeLoadNext, TypeClientNext, TypeCallNext, TypeSessNext, TypeNetNext, TypeReloadNext,
       TypeGroups
       DEF IndInv, TypeOK, TypeLoad, TypeClient, TypeCall, TypeSess, TypeNet, TypeReload
  <2>2. LockInv' /\ SessionInv' /\ DrainInv' /\ WireInv'
    BY LockNext, SessionNext, DrainNext, WireNext DEF IndInv
  <2>3. LoadInv' /\ SaidInv' /\ HeardInv'
    BY LoadNext, SaidNext, HeardNext DEF IndInv
  <2>4. QED BY <2>1, <2>2, <2>3 DEF IndInv
<1>2. QED BY InitInd, <1>1, PTL DEF Spec

\* Type correctness.
THEOREM TypeCorrect == Spec => []TypeOK
<1>1. IndInv => TypeOK BY DEF IndInv
<1>2. QED BY <1>1, Invariance, PTL

\* When all is quiet the gateway knows the load.
THEOREM LoadIsKnown == Spec => []GatewayKnowsTheLoad
<1>1. IndInv => GatewayKnowsTheLoad
  <2> SUFFICES ASSUME IndInv, Settled PROVE
        /\ overloaded = on
        /\ stale \notin 1..(cur - 1) => IF on THEN n > Low(capacity) ELSE n < capacity
        /\ cur \notin slipped =>
             heard[cur] = Wanted /\ state = (IF overloaded THEN "Overloaded" ELSE "Ready")
    BY DEF GatewayKnowsTheLoad
  <2>1. /\ pc["watcher"] = "wait" /\ pc["main"] = "loop" /\ ~wake
        /\ ~ended[cur] /\ cur \notin closing /\ wire[cur] = <<>>
        /\ \A w \in Workers : wpc[w] \notin {"came", "left"}
    BY DEF Settled
  <2>2. overloaded = on BY <2>1 DEF IndInv, LoadInv
  <2>3. ASSUME stale \notin 1..(cur - 1)
        PROVE  IF on THEN n > Low(capacity) ELSE n < capacity
    <3>1. stale \in 0..cur /\ cur \in Nat BY StatusSyncAssumption DEF IndInv, TypeOK
    <3>2. stale = 0 \/ stale = cur BY <2>3, <3>1
    <3>3. stale = 0 BY <2>1, <3>2 DEF IndInv, SessionInv
    <3>4. (on => ~(n <= Low(capacity))) /\ (~on => ~(n >= capacity))
      BY <2>1, <3>3 DEF IndInv, LoadInv, Awake
    <3>5. n \in Int /\ capacity \in Int /\ Low(capacity) \in Int
      BY LowIsBelow DEF IndInv, TypeOK
    <3>6. QED BY <3>4, <3>5
  <2>4. said[cur] = Wanted BY <2>1 DEF IndInv, SaidInv, Pending
  <2>5. ASSUME cur \notin slipped
        PROVE  heard[cur] = said[cur] /\ state = StateOf(said[cur])
    BY <2>1, <2>5 DEF IndInv, HeardInv, Last, Threads
  <2>6. QED BY <2>2, <2>3, <2>4, <2>5 DEF Wanted, StateOf
<1>2. QED BY <1>1, Invariance, PTL

\* Nothing follows "draining" on a socket.
THEOREM DrainingIsLast == Spec => []NothingFollowsDraining
<1>1. IndInv => NothingFollowsDraining
  <2> SUFFICES ASSUME IndInv, NEW s \in Sessions,
                      NEW i \in DOMAIN (<<heard[s]>> \o wire[s]),
                      (<<heard[s]>> \o wire[s])[i] = "draining"
               PROVE  i = Len(<<heard[s]>> \o wire[s])
    BY DEF NothingFollowsDraining
  <2> DEFINE Any == Words \cup {"nothing"}
  <2>1. wire[s] \in Seq(Any) /\ <<heard[s]>> \in Seq(Any)
    BY SeqMonotonic DEF IndInv, TypeOK
  <2>2. /\ Len(<<heard[s]>> \o wire[s]) = 1 + Len(wire[s])
        /\ DOMAIN (<<heard[s]>> \o wire[s]) = 1..(1 + Len(wire[s]))
        /\ Len(wire[s]) \in Nat
    BY <2>1
  <2>3. CASE i = 1
    <3>1. (<<heard[s]>> \o wire[s])[1] = heard[s] BY <2>1
    <3>2. wire[s] = <<>> BY <2>3, <3>1 DEF IndInv, WireInv
    <3>3. QED BY <2>2, <2>3, <3>2
  <2>4. CASE i # 1
    <3>1. i - 1 \in 1..Len(wire[s]) BY <2>2, <2>4
    <3>2. (<<heard[s]>> \o wire[s])[i] = wire[s][i - 1] BY <2>1, <2>2, <2>4
    <3>3. i - 1 = Len(wire[s]) BY <3>1, <3>2 DEF IndInv, WireInv
    <3>4. QED BY <2>2, <3>3
  <2>5. QED BY <2>3, <2>4
<1>2. QED BY <1>1, Invariance, PTL

\* Client.state is the session goroutine's: nobody else's /status writes it
\* while there is no session, while one is connecting and while one drains.
THEOREM StateIsTheSessions == Spec => StateFollowsTheSession
<1> DEFINE Quiet == {"offline", "dial", "publish", "drain", "drainTold", "drained"}
           Kept == pc'["main"] = pc["main"] /\ pc["main"] \in Quiet => state' = state
<1>1. ASSUME IndInv, Next PROVE Kept
  <2> SUFFICES ASSUME pc'["main"] = pc["main"], pc["main"] \in Quiet PROVE state' = state
    OBVIOUS
  <2> USE DEF loadVars, watchVars, reloadVars, clientVars, callVars, sessVars, netVars
  <2>1. ASSUME NEW t \in Threads, SyncTold(t) PROVE state' = state
    <3>1. pc[t] = "told" /\ (active # tgt[t] => state' = state) BY <2>1 DEF SyncTold
    <3>2. t = "watcher" /\ pc["watcher"] = "told" BY <3>1 DEF Threads
    <3>3. pc["main"] \in {"offline", "dial", "publish"} BY <1>1, <3>2 DEF IndInv, DrainInv
    <3>4. active = 0 /\ tgt[t] # 0 BY <1>1, <3>1, <3>3 DEF IndInv, SessionInv
    <3>5. QED BY <3>1, <3>4
  <2>2. ASSUME NEW to, NEW from, Main(from, to), to # from PROVE FALSE
    BY <1>1, <2>2 DEF Main, IndInv, TypeOK, Threads
  <2>3. ~(Connect \/ ConnectFails \/ EnterReady \/ DrainLock)
    BY <2>2 DEF Connect, ConnectFails, EnterReady, DrainLock
  <2>4. ~Leave BY <1>1 DEF Leave, IndInv, TypeOK, Threads
  <2>5. QED
    BY <1>1, <2>1, <2>3, <2>4
       DEF Next, Watcher, Sync, Session, Add, Judge, Wake, LoadCapacity, Compare,
           SetOverloaded, SyncLock, SyncSend, Registered, Publish, MarkReady, Poke, DrainSend,
           DrainTold, Reload, ReloadCloses, SocketEnds, Hear
<1>2. IndInv /\ [Next]_vars => [Kept]_vars BY <1>1
<1>3. QED BY <1>2, Invariance, PTL DEF Spec, StateFollowsTheSession
=============================================================================
