---------------------------- MODULE RequestTxInv ----------------------------
(***************************************************************************)
(* The inductive invariant of RequestTx: what holds at each place of       *)
(* Runner.Do and Runner.doDaemon, and of the pool between them; and what a *)
(* refusal that goes unrecorded has for an excuse.  RequestTxProofs proves *)
(* them for any requests and connections.                                  *)
(***************************************************************************)
EXTENDS RequestTx

\* While explain asks the catalogue Do stands where it will go on.
At(r) == IF pc[r] = "lookup" THEN cont[r] ELSE pc[r]

NoTx == {"idle", "begin", "fresh", "answered"}
InTx == {"authorize", "savepoint", "handler", "undo", "discard", "journal",
         "commitRefusal", "salvage", "commitLine", "log", "commit", "refused"}

\* A transaction and its connection come and go together, and what is not
\* committed goes with them.
Holding(r) ==
    /\ At(r) \in InTx => held[r] # None
    /\ At(r) \in NoTx => held[r] = None
    /\ held[r] = None => tx[r] = "none" /\ ~work[r] /\ line[r] = NoLine
    /\ held[r] # None => tx[r] # "none"
    /\ aux[r] # None => pc[r] = "lookup"
    /\ pc[r] = "lookup" => asks[r] >= 1

\* What daemon.begin left in the transaction.
BaseLine(r) == IF features.daemon THEN [status |-> "open", by |-> r] ELSE NoLine

\* Nothing of the request is durable, and no row is claimed.
Nothing(r) ==
    /\ rows[r] = 0 /\ row[r] = NoLine
    /\ r \notin done
    /\ ~doubt[r] /\ ~logId[r]

\* The work is durable, with its own row where requests are journalled, and
\* the client will be told so unless the acknowledgement was lost.
Succeeded(r) ==
    /\ r \in done
    /\ IF Journals THEN rows[r] = 1 /\ row[r] = [status |-> "ok", by |-> r]
                   ELSE rows[r] = 0 /\ row[r] = NoLine
    /\ \/ verdict[r] = "ok" /\ ~doubt[r] /\ logId[r] = Journals
       \/ verdict[r] # "ok" /\ doubt[r] /\ ~logId[r]

\* Only the row of a refusal is durable.
RefusalRow(r) ==
    /\ r \notin done
    /\ rows[r] = 1 /\ row[r].status # "ok" /\ row[r].by \in {r, None}
    /\ verdict[r] # "ok"
    /\ logId[r] => row[r].status = verdict[r]

\* Before anything is decided: the transaction at each place.
Before(r) ==
    /\ At(r) \in {"idle", "begin"} => verdict[r] = "ok"
    /\ At(r) = "authorize" =>
         /\ verdict[r] = "ok" /\ tx[r] = "active" /\ ~work[r] /\ line[r] = NoLine
         /\ sess[held[r]] = None
    /\ At(r) \in {"savepoint", "handler"} =>
         /\ verdict[r] = "ok" /\ tx[r] = "active" /\ ~work[r] /\ line[r] = BaseLine(r)
         /\ sess[held[r]] = r
    /\ At(r) = "savepoint" => Journals
    /\ At(r) = "log" =>
         /\ Journals
         /\ verdict[r] = "ok" /\ work[r] = (tx[r] = "active") /\ line[r] = BaseLine(r)
         /\ sess[held[r]] = r
    /\ At(r) = "commit" =>
         /\ verdict[r] = "ok" /\ work[r] = (tx[r] = "active")
         /\ IF Journals
              THEN tx[r] = "active" /\ line[r] = [status |-> "ok", by |-> r]
              ELSE line[r] = NoLine

\* On the way of a refusal.
Refusing(r) ==
    /\ At(r) \in {"undo", "discard", "fresh", "journal", "commitRefusal", "salvage",
                  "commitLine", "refused"} => verdict[r] # "ok" /\ Journals
    /\ At(r) \in {"discard", "fresh"} => ~features.daemon
    /\ At(r) \in {"salvage", "commitLine", "refused"} => features.daemon
    /\ At(r) = "undo" => line[r] = BaseLine(r) /\ sess[held[r]] = r
    /\ At(r) = "discard" => ~work[r] /\ line[r] = NoLine
    /\ At(r) = "journal" =>
         tx[r] = "active" /\ ~work[r] /\ line[r] = BaseLine(r) /\ sess[held[r]] \in {r, None}
    /\ At(r) = "commitRefusal" =>
         /\ tx[r] = "active" /\ ~work[r]
         /\ line[r].status = verdict[r] /\ line[r].by \in {r, None}
    /\ At(r) = "salvage" => line[r] = BaseLine(r)
    /\ At(r) = "commitLine" => tx[r] = "active" /\ ~work[r] /\ line[r] = BaseLine(r)
    /\ At(r) = "refused" =>
         tx[r] = "active" /\ ~work[r] /\ line[r] = [status |-> "refused", by |-> None]

\* What is durable: nothing before the one commit, one of three outcomes after.
\* LogID is set with the row, and taken back when its commit failed.
Durably(r) ==
    /\ At(r) \in {"commit", "commitRefusal"} =>
         /\ rows[r] = 0 /\ row[r] = NoLine /\ r \notin done /\ ~doubt[r]
         /\ logId[r] = Journals
    /\ At(r) \in (NoTx \cup InTx) \ {"commit", "commitRefusal", "answered"} => Nothing(r)
    /\ At(r) \in {"return", "answered"} =>
         (Nothing(r) /\ verdict[r] # "ok") \/ Succeeded(r) \/ RefusalRow(r)
    /\ At(r) = "return" /\ held[r] # None => Nothing(r)

\* The pool: a connection is lent to one transaction or query at a time, and
\* only a connection without a session can be lent.
PoolInv ==
    /\ \A r \in Requests :
         /\ held[r] # None => pool[held[r]] = "lent"
         /\ aux[r] # None => pool[aux[r]] = "lent" /\ sess[aux[r]] = None
    /\ \A c \in Conns : pool[c] = "lent" => \E r \in Requests : held[r] = c \/ aux[r] = c
    /\ \A r, q \in Requests :
         /\ r # q /\ held[r] # None => held[r] # held[q]
         /\ held[r] # None => held[r] # aux[q]
         /\ r # q /\ aux[r] # None => aux[r] # aux[q]
    /\ \A c \in Conns : pool[c] = "idle" => sess[c] = None

Stage(r) == Holding(r) /\ Before(r) /\ Refusing(r) /\ Durably(r)

\* The inductive invariant: where Do stands tells what its transaction holds
\* and what is durable; connections and sessions are never shared.
IndInv == TypeOK /\ PoolInv /\ \A r \in Requests : Stage(r)

\* A refusal without its row has an excuse: what the journal needs failed, or
\* the hang-up itself is what made it a 500.
Excused(r) == fault[r] \/ (verdict[r] = "internal" /\ hungup[r])

\* Whoever goes on without the row of a refusal is excused: on the way to
\* salvage already, and at the end if there is no row with the status told.
RowKept(r) ==
    /\ At(r) \in {"salvage", "commitLine"} => Excused(r)
    /\ At(r) \in {"return", "answered"} /\ Journals /\ verdict[r] # "ok" =>
         Excused(r) \/ (rows[r] = 1 /\ row[r].status = verdict[r])

RowInv == \A r \in Requests : RowKept(r)
=============================================================================
