------------------------------ MODULE RequestTx ------------------------------
(***************************************************************************)
(* One HTTP request as one database transaction: lib/pgtx, Runner.Do on    *)
(* the direct road and Runner.doDaemon on the daemon road, for several     *)
(* requests at once over one bounded pool of connections.                  *)
(*                                                                         *)
(* One action is one statement sent to the database (or one wait for a     *)
(* pool connection), with every outcome pgx can report for it: it works,   *)
(* it raises and aborts the transaction, the connection is lost under it,  *)
(* or it is never sent because the client hung up before it.  The database *)
(* and pgx are outside the repository: their part is what pgtx relies on.  *)
(***************************************************************************)
EXTENDS Naturals

CONSTANTS
    Requests,     \* the calls of Do
    Conns,        \* the connections the pool may open (pool_max_conns)
    None,         \* no connection, no session
    FeatureSets   \* what Detect may have found in the database

ASSUME RequestTxAssumption ==
    /\ None \notin Requests
    /\ None \notin Conns
    /\ FeatureSets \subseteq
         [daemon : BOOLEAN, journal : BOOLEAN, local : BOOLEAN, parse : BOOLEAN]

VARIABLES
    features,  \* Runner.Features, fixed by Detect before the process serves
    pc,        \* where Do stands in each request
    held,      \* the connection of the request's transaction
    tx,        \* that transaction, as the database sees it
    work,      \* the handler's uncommitted work in it
    line,      \* the uncommitted api_log row in it
    verdict,   \* the problem Do will return: "ok" while there is none
    logId,     \* Request.LogID is not 0
    cont,      \* where Do goes on once explain has its problem
    asks,      \* catalogue queries explain has still to make
    aux,       \* the connection such a query runs on
    hungup,    \* the client gave up: the request's context is cancelled
    looked,    \* Runner.looked holds the code's title
    pool,      \* each connection of the pool
    sess,      \* the session context set on each connection
    done,      \* requests whose handler's work is committed
    rows,      \* committed api_log rows of each request
    row,       \* the last of them
    doubt,     \* a commit happened whose acknowledgement was lost
    fault      \* what the journal needs failed: a connection, a statement

reqVars  == <<pc, verdict, logId, cont, asks, aux, hungup>>
txVars   == <<held, tx, work, line>>
poolVars == <<pool, sess>>
dbVars   == <<done, rows, row, doubt>>
vars     == <<features, reqVars, txVars, poolVars, dbVars, looked, fault>>

-----------------------------------------------------------------------------
(* The road and the errors.                                                *)

\* Every request of the daemon road is journalled (daemon.begin writes the
\* line); on the direct road, when the database has api.log_request.
Journals == features.daemon \/ features.journal

\* kindRaise stands for the three kinds that are a 4xx without a lookup.
Kinds == {"problem", "catalogue", "raise", "internal"}

\* What explain makes of a kind: a problem for the client, or a 500.
Verdict(kind) == IF kind = "internal" THEN "internal" ELSE "refused"

NoLine == [status |-> "none", by |-> None]

PCs == {"idle", "begin", "authorize", "savepoint", "handler", "lookup", "undo",
        "discard", "fresh", "journal", "commitRefusal", "salvage", "commitLine",
        "log", "commit", "refused", "return", "answered"}

\* Mutation: an aborted transaction taken for a good one.
WorksWhenAborted(r, cancellable) == tx[r] # "lost" /\ ~(cancellable /\ hungup[r])

\* A statement works only in a transaction that is neither aborted nor lost,
\* and, under the request's own context, only while the client waits.
Works(r, cancellable) == tx[r] = "active" /\ ~(cancellable /\ hungup[r])

\* The ways a statement fails: the kind classify gives the error, and the
\* transaction it leaves.  A context already cancelled fails the statement
\* before it is sent; one cancelled under way costs the connection.
Failures(r, cancellable) ==
    IF tx[r] = "lost" \/ (cancellable /\ hungup[r])
      THEN {[kind |-> "internal", tx |-> tx[r]]}
      ELSE [kind : {"internal"}, tx : {"lost", "aborted"}] \cup
           (IF tx[r] = "active"
              THEN [kind : {"catalogue", "raise"}, tx : {"aborted"}] ELSE {})

\* api_log and the handler's work become durable together.
Durable(r) ==
    /\ done' = IF work[r] THEN done \cup {r} ELSE done
    /\ IF line[r] = NoLine
         THEN UNCHANGED <<rows, row>>
         ELSE /\ rows' = [rows EXCEPT ![r] = @ + 1]
              /\ row' = [row EXCEPT ![r] = line[r]]

\* The transaction is over and its connection goes back: a broken one is
\* replaced by a new one, any other is reset before it is lent again.  A
\* session set without authorize_local outlives a commit.
GiveBack(r, broken, kept) ==
    /\ held' = [held EXCEPT ![r] = None]
    /\ tx' = [tx EXCEPT ![r] = "none"]
    /\ work' = [work EXCEPT ![r] = FALSE]
    /\ line' = [line EXCEPT ![r] = NoLine]
    /\ pool' = [pool EXCEPT ![held[r]] = IF broken THEN "idle" ELSE "resetting"]
    /\ sess' = [sess EXCEPT ![held[r]] = IF kept /\ ~broken THEN @ ELSE None]

\* Mutation: Do's defer commits.
RollbackCommits(r) ==
    /\ IF held[r] = None
         THEN UNCHANGED <<txVars, poolVars, done, rows, row>>
         ELSE Durable(r) /\ GiveBack(r, tx[r] = "lost", FALSE)
    /\ UNCHANGED doubt

\* tx.Rollback, of Do's defer or by hand.
Rollback(r) ==
    /\ IF held[r] = None
         THEN UNCHANGED <<txVars, poolVars>>
         ELSE GiveBack(r, tx[r] = "lost", FALSE)
    /\ UNCHANGED dbVars

Committed(r) ==
    /\ Durable(r)
    /\ GiveBack(r, FALSE, ~features.daemon /\ ~features.local)
    /\ UNCHANGED doubt

\* A commit that reports an error: the database rolled back, ...
CommitUndone(r) ==
    /\ \E broken \in {TRUE, tx[r] = "lost"} : GiveBack(r, broken, FALSE)
    /\ UNCHANGED dbVars

\* ... or it committed, and the connection broke before it said so.
CommitInDoubt(r) ==
    /\ Durable(r)
    /\ GiveBack(r, TRUE, FALSE)
    /\ doubt' = [doubt EXCEPT ![r] = TRUE]

CommitFails(r) == CommitUndone(r) \/ (Works(r, FALSE) /\ CommitInDoubt(r))

\* A connection of the pool is lent to a new transaction.
Lend(r, c) ==
    /\ pool[c] = "idle"
    /\ pool' = [pool EXCEPT ![c] = "lent"]
    /\ held' = [held EXCEPT ![r] = c]
    /\ tx' = [tx EXCEPT ![r] = "active"]
    /\ UNCHANGED <<work, line, sess>>

Goto(r, where) == pc' = [pc EXCEPT ![r] = where]

\* How many catalogue queries explain makes for a raised code: on the daemon
\* road catalogueTitle asks once per code and remembers, otherwise
\* api.parse_message (when there is one) and api.get_error_by_code.
Lookups == IF features.daemon THEN (IF looked THEN 0 ELSE 1)
           ELSE IF features.parse THEN 2 ELSE 1

\* explain: the problem is known at once, or after the catalogue is asked.
Explain(r, kind, where) ==
    /\ verdict' = [verdict EXCEPT ![r] = Verdict(kind)]
    /\ IF kind = "catalogue" /\ Lookups > 0
         THEN /\ Goto(r, "lookup")
              /\ asks' = [asks EXCEPT ![r] = Lookups]
              /\ cont' = [cont EXCEPT ![r] = where]
         ELSE Goto(r, where) /\ UNCHANGED <<asks, cont>>

\* internal: the 500 that ends Do.
Internal(r) == verdict' = [verdict EXCEPT ![r] = "internal"] /\ Goto(r, "return")

Fault(r) == fault' = [fault EXCEPT ![r] = TRUE]

-----------------------------------------------------------------------------
(* Do and doDaemon, statement by statement.                                *)

Start(r) ==
    /\ pc[r] = "idle"
    /\ Goto(r, "begin")
    /\ logId' = [logId EXCEPT ![r] = FALSE]
    /\ UNCHANGED <<features, verdict, cont, asks, aux, hungup, txVars, poolVars,
                   dbVars, looked, fault>>

\* begin: a connection within BeginTimeout, and BEGIN on it.
Begin(r) ==
    /\ pc[r] = "begin"
    /\ ~hungup[r]
    /\ \E c \in Conns : Lend(r, c)
    /\ Goto(r, "authorize")
    /\ UNCHANGED <<verdict, logId, cont, asks, aux, dbVars, looked, fault>>

\* No connection in time, or a database that does not answer: a fast 500.
BeginFails(r) ==
    /\ pc[r] = "begin"
    /\ Internal(r)
    /\ Fault(r)
    /\ UNCHANGED <<logId, cont, asks, aux, txVars, poolVars, dbVars, looked>>

\* api.authorize(_local) answered true, or daemon.begin did: the session
\* context is set, and daemon.begin has written the journal line.
Authorize(r) ==
    /\ pc[r] = "authorize"
    /\ Works(r, TRUE)
    /\ sess' = [sess EXCEPT ![held[r]] = r]
    /\ line' = [line EXCEPT ![r] =
                  IF features.daemon THEN [status |-> "open", by |-> r] ELSE @]
    /\ Goto(r, IF Journals THEN "savepoint" ELSE "handler")
    /\ UNCHANGED <<verdict, logId, cont, asks, aux, held, tx, work, pool,
                   dbVars, looked, fault>>

\* It answered false.  The direct road journals the 401 in this transaction;
\* daemon.begin has journalled its refusal itself.
AuthorizeRefuses(r) ==
    /\ pc[r] = "authorize"
    /\ Works(r, TRUE)
    /\ verdict' = [verdict EXCEPT ![r] = "refused"]
    /\ line' = [line EXCEPT ![r] =
                  IF features.daemon THEN [status |-> "refused", by |-> None] ELSE @]
    /\ Goto(r, IF features.daemon THEN "refused"
               ELSE IF features.journal THEN "journal" ELSE "return")
    /\ UNCHANGED <<logId, cont, asks, aux, held, tx, work, poolVars, dbVars,
                   looked, fault>>

\* It failed.  On the direct road the error is explained while the aborted
\* transaction keeps its connection; daemon.begin never raises a refusal.
AuthorizeFails(r) ==
    /\ pc[r] = "authorize"
    /\ \E f \in Failures(r, TRUE) :
         /\ tx' = [tx EXCEPT ![r] = f.tx]
         /\ IF features.daemon
              THEN Internal(r) /\ Fault(r) /\ UNCHANGED <<asks, cont>>
              ELSE /\ Explain(r, f.kind, IF features.journal THEN "discard" ELSE "return")
                   /\ UNCHANGED fault
    /\ UNCHANGED <<logId, aux, held, work, line, poolVars, dbVars, looked>>

Savepoint(r) ==
    /\ pc[r] = "savepoint"
    /\ \/ /\ Works(r, TRUE)
          /\ Goto(r, "handler")
          /\ UNCHANGED <<verdict, tx, fault>>
       \/ \E f \in Failures(r, TRUE) :
            /\ tx' = [tx EXCEPT ![r] = f.tx]
            /\ Internal(r)
            /\ Fault(r)
    /\ UNCHANGED <<logId, cont, asks, aux, held, work, line, poolVars, dbVars,
                   looked>>

\* fn returned nil: its work is in the transaction, unless it swallowed an
\* error that aborted or lost it.
HandlerSucceeds(r) ==
    /\ pc[r] = "handler"
    /\ \E t \in {"active", "aborted", "lost"} :
         /\ tx' = [tx EXCEPT ![r] = t]
         /\ work' = [work EXCEPT ![r] = t = "active"]
         /\ fault' = [fault EXCEPT ![r] = @ \/ t # "active"]
    /\ Goto(r, IF Journals THEN "log" ELSE "commit")
    /\ UNCHANGED <<verdict, logId, cont, asks, aux, held, line, poolVars,
                   dbVars, looked>>

\* fn refused, with whatever it had done by then in the transaction; the
\* error is explained while the transaction keeps its connection.
HandlerRefuses(r) ==
    /\ pc[r] = "handler"
    /\ \E k \in Kinds, t \in {"active", "aborted", "lost"} :
         /\ tx' = [tx EXCEPT ![r] = t]
         /\ work' = [work EXCEPT ![r] = t = "active"]
         /\ Explain(r, k, IF Journals THEN "undo" ELSE "return")
         /\ fault' = [fault EXCEPT ![r] = @ \/ t = "lost"]
    /\ UNCHANGED <<logId, aux, held, line, poolVars, dbVars, looked>>

-----------------------------------------------------------------------------
(* explain's catalogue queries, each on a connection of its own.           *)

LookupStart(r) ==
    /\ pc[r] = "lookup"
    /\ aux[r] = None
    /\ \E c \in Conns :
         /\ pool[c] = "idle"
         /\ pool' = [pool EXCEPT ![c] = "lent"]
         /\ aux' = [aux EXCEPT ![r] = c]
    /\ UNCHANGED <<pc, verdict, logId, cont, asks, txVars, sess, dbVars, looked,
                   fault>>

\* The query answered, or was refused; the title is remembered when it was
\* read.  The next query, or back to Do.
LookupDone(r) ==
    /\ pc[r] = "lookup"
    /\ aux[r] # None
    /\ pool' = [pool EXCEPT ![aux[r]] = "resetting"]
    /\ aux' = [aux EXCEPT ![r] = None]
    /\ asks' = [asks EXCEPT ![r] = @ - 1]
    /\ Goto(r, IF asks[r] > 1 THEN "lookup" ELSE cont[r])
    /\ looked' \in {looked, features.daemon}
    /\ UNCHANGED <<verdict, logId, cont, txVars, sess, dbVars, fault>>

\* Mutation: the timeout covers the query, not the wait for a connection.
LookupTimeoutInQuery(r) ==
    /\ pc[r] = "lookup"
    /\ aux[r] # None
    /\ pool' = [pool EXCEPT ![aux[r]] = "idle"]
    /\ aux' = [aux EXCEPT ![r] = None]
    /\ asks' = [asks EXCEPT ![r] = 0]
    /\ Goto(r, cont[r])
    /\ UNCHANGED <<verdict, logId, cont, txVars, sess, dbVars, looked, fault>>

\* The two seconds all the queries share are over, with or without a
\* connection; one cut off under way is closed.  The raised text is the title.
LookupTimeout(r) ==
    /\ pc[r] = "lookup"
    /\ IF aux[r] = None
         THEN UNCHANGED pool
         ELSE pool' = [pool EXCEPT ![aux[r]] = "idle"]
    /\ aux' = [aux EXCEPT ![r] = None]
    /\ asks' = [asks EXCEPT ![r] = 0]
    /\ Goto(r, cont[r])
    /\ UNCHANGED <<verdict, logId, cont, txVars, sess, dbVars, looked, fault>>

-----------------------------------------------------------------------------
(* The refusal's journal, under journalCtx: the hang-up does not reach it. *)

\* authorize aborted the request's transaction: it is rolled back first.
Discard(r) ==
    /\ pc[r] = "discard"
    /\ Rollback(r)
    /\ Goto(r, "fresh")
    /\ UNCHANGED <<verdict, logId, cont, asks, aux, looked, fault>>

Fresh(r) ==
    /\ pc[r] = "fresh"
    /\ \E c \in Conns : Lend(r, c)
    /\ Goto(r, "journal")
    /\ UNCHANGED <<verdict, logId, cont, asks, aux, dbVars, looked, fault>>

FreshFails(r) ==
    /\ pc[r] = "fresh"
    /\ Goto(r, "return")
    /\ Fault(r)
    /\ UNCHANGED <<verdict, logId, cont, asks, aux, txVars, poolVars, dbVars,
                   looked>>

\* Mutation: the handler's work survives the refusal.
ToSavepointKeepsWork(r) ==
    /\ tx[r] \in {"active", "aborted"}
    /\ tx' = [tx EXCEPT ![r] = "active"]
    /\ UNCHANGED <<work, line>>

\* ROLLBACK TO SAVEPOINT request, which also revives an aborted transaction:
\* the handler's work is gone, what was written before the savepoint stays.
ToSavepoint(r) ==
    /\ tx[r] \in {"active", "aborted"}
    /\ tx' = [tx EXCEPT ![r] = "active"]
    /\ work' = [work EXCEPT ![r] = FALSE]
    /\ line' = [line EXCEPT ![r] =
                  IF features.daemon THEN [status |-> "open", by |-> r] ELSE NoLine]

Undo(r) ==
    /\ pc[r] = "undo"
    /\ \/ ToSavepoint(r) /\ Goto(r, "journal") /\ UNCHANGED fault
       \/ /\ tx' = [tx EXCEPT ![r] = "lost"]
          /\ Goto(r, "return")
          /\ Fault(r)
          /\ UNCHANGED <<work, line>>
    /\ UNCHANGED <<verdict, logId, cont, asks, aux, held, poolVars, dbVars,
                   looked>>

\* The row of an outcome: api.log_request writes it, daemon.end completes the
\* one daemon.begin wrote.  Either returns its id.
WriteLine(r, status) ==
    /\ line' = [line EXCEPT ![r] =
                  IF features.daemon THEN [@ EXCEPT !.status = status]
                  ELSE [status |-> status, by |-> sess[held[r]]]]
    /\ logId' = [logId EXCEPT ![r] = TRUE]

\* Mutation: the row is written under the request's own context.
JournalRefusalUnderRequest(r) ==
    /\ pc[r] = "journal"
    /\ \/ /\ Works(r, TRUE)
          /\ WriteLine(r, verdict[r])
          /\ Goto(r, "commitRefusal")
       \/ hungup[r] /\ Goto(r, "return") /\ UNCHANGED <<logId, line>>
    /\ UNCHANGED <<verdict, cont, asks, aux, held, tx, work, poolVars, dbVars,
                   looked, fault>>

JournalRefusal(r) ==
    /\ pc[r] = "journal"
    /\ \/ /\ Works(r, FALSE)
          /\ WriteLine(r, verdict[r])
          /\ Goto(r, "commitRefusal")
          /\ UNCHANGED <<tx, fault>>
       \/ \E f \in Failures(r, FALSE) :
            /\ tx' = [tx EXCEPT ![r] = f.tx]
            /\ logId' = [logId EXCEPT ![r] = FALSE]
            /\ Goto(r, IF features.daemon THEN "salvage" ELSE "return")
            /\ Fault(r)
            /\ UNCHANGED line
    /\ UNCHANGED <<verdict, cont, asks, aux, held, work, poolVars, dbVars,
                   looked>>

\* Mutation: the id is kept when the commit failed.
CommitRefusalKeepsId(r) ==
    /\ pc[r] = "commitRefusal"
    /\ (Works(r, FALSE) /\ Committed(r)) \/ CommitFails(r)
    /\ Goto(r, "return")
    /\ UNCHANGED <<verdict, logId, cont, asks, aux, looked, fault>>

\* Mutation: a row that could not be committed is written again.
CommitRefusalRetries(r) ==
    /\ pc[r] = "commitRefusal"
    /\ \/ Works(r, FALSE) /\ Committed(r) /\ Goto(r, "return")
       \/ CommitFails(r) /\ Goto(r, "fresh")
    /\ UNCHANGED <<verdict, logId, cont, asks, aux, looked, fault>>

CommitRefusal(r) ==
    /\ pc[r] = "commitRefusal"
    /\ \/ Works(r, FALSE) /\ Committed(r) /\ UNCHANGED <<logId, fault>>
       \/ /\ CommitFails(r)
          /\ logId' = [logId EXCEPT ![r] = FALSE]
          /\ Fault(r)
    /\ Goto(r, "return")
    /\ UNCHANGED <<verdict, cont, asks, aux, looked>>

\* daemon.begin's refusal: its line commits before the problem is titled.  A
\* refusal without a code is not the road's contract, and a 500.
CommitRefused(r) ==
    /\ pc[r] = "refused"
    /\ \E k \in {"raise", "catalogue", "internal"} :
         /\ Explain(r, k, "return")
         /\ \/ /\ Works(r, FALSE)
               /\ Committed(r)
               /\ fault' = [fault EXCEPT ![r] = @ \/ k = "internal"]
            \/ CommitFails(r) /\ Fault(r)
    /\ UNCHANGED <<logId, aux, looked>>

\* salvage: back to the savepoint, so that daemon.begin's line alone commits.
Salvage(r) ==
    /\ pc[r] = "salvage"
    /\ \/ ToSavepoint(r) /\ Goto(r, "commitLine")
       \/ tx' = [tx EXCEPT ![r] = "lost"] /\ Goto(r, "return") /\ UNCHANGED <<work, line>>
    /\ UNCHANGED <<verdict, logId, cont, asks, aux, held, poolVars, dbVars,
                   looked, fault>>

CommitLine(r) ==
    /\ pc[r] = "commitLine"
    /\ (Works(r, FALSE) /\ Committed(r)) \/ CommitFails(r)
    /\ Goto(r, "return")
    /\ UNCHANGED <<verdict, logId, cont, asks, aux, looked, fault>>

-----------------------------------------------------------------------------
(* Success: the row and the commit, under the request's own context.       *)

\* The road that cannot close its request is a 500 and salvages begin's line;
\* without one the error is explained and everything rolled back.
LogSuccess(r) ==
    /\ pc[r] = "log"
    /\ \/ /\ Works(r, TRUE)
          /\ WriteLine(r, "ok")
          /\ Goto(r, "commit")
          /\ UNCHANGED <<tx, verdict, cont, asks, fault>>
       \/ \E f \in Failures(r, TRUE) :
            /\ tx' = [tx EXCEPT ![r] = f.tx]
            /\ logId' = [logId EXCEPT ![r] = FALSE]
            /\ IF features.daemon
                 THEN /\ verdict' = [verdict EXCEPT ![r] = "internal"]
                      /\ Goto(r, "salvage")
                      /\ UNCHANGED <<cont, asks>>
                 ELSE Explain(r, f.kind, "return")
            /\ fault' = [fault EXCEPT ![r] = @ \/ f.tx # "active"]
            /\ UNCHANGED line
    /\ UNCHANGED <<aux, held, work, poolVars, dbVars, looked>>

Commit(r) ==
    /\ pc[r] = "commit"
    /\ \/ /\ Works(r, TRUE)
          /\ Committed(r)
          /\ Goto(r, "return")
          /\ UNCHANGED <<verdict, logId, cont, asks, fault>>
       \/ /\ \/ CommitUndone(r) /\ \E f \in Failures(r, TRUE) : Explain(r, f.kind, "return")
             \/ Works(r, TRUE) /\ CommitInDoubt(r) /\ Explain(r, "internal", "return")
          /\ logId' = [logId EXCEPT ![r] = FALSE]
          /\ fault' = [fault EXCEPT ![r] = @ \/ ~hungup[r]]
    /\ UNCHANGED <<aux, looked>>

\* Mutation: no deferred Rollback.
ReturnLeaks(r) ==
    /\ pc[r] = "return"
    /\ Goto(r, "answered")
    /\ UNCHANGED <<verdict, logId, cont, asks, aux, txVars, poolVars, dbVars,
                   looked, fault>>

\* Do returns, its deferred Rollback first; the handler writes the answer.
Return(r) ==
    /\ pc[r] = "return"
    /\ Rollback(r)
    /\ Goto(r, "answered")
    /\ UNCHANGED <<verdict, logId, cont, asks, aux, looked, fault>>

-----------------------------------------------------------------------------
(* The client and the pool.                                                *)

HangUp(r) ==
    /\ pc[r] \notin {"idle", "answered"}
    /\ ~hungup[r]
    /\ hungup' = [hungup EXCEPT ![r] = TRUE]
    /\ UNCHANGED <<features, pc, verdict, logId, cont, asks, aux, txVars,
                   poolVars, dbVars, looked, fault>>

\* Mutation: the connection is lent again as it is.
AfterReleaseKeeps(c) ==
    /\ pool[c] = "resetting"
    /\ pool' = [pool EXCEPT ![c] = "idle"]
    /\ UNCHANGED <<features, reqVars, txVars, sess, dbVars, looked, fault>>

\* AfterRelease: RESET ALL; a connection that cannot be reset is dropped, and
\* a new one takes its place.
AfterRelease(c) ==
    /\ pool[c] = "resetting"
    /\ pool' = [pool EXCEPT ![c] = "idle"]
    /\ sess' = [sess EXCEPT ![c] = None]
    /\ UNCHANGED <<features, reqVars, txVars, dbVars, looked, fault>>

Init ==
    /\ features \in FeatureSets
    /\ pc = [r \in Requests |-> "idle"]
    /\ held = [r \in Requests |-> None]
    /\ tx = [r \in Requests |-> "none"]
    /\ work = [r \in Requests |-> FALSE]
    /\ line = [r \in Requests |-> NoLine]
    /\ verdict = [r \in Requests |-> "ok"]
    /\ logId = [r \in Requests |-> FALSE]
    /\ cont = [r \in Requests |-> "return"]
    /\ asks = [r \in Requests |-> 0]
    /\ aux = [r \in Requests |-> None]
    /\ hungup = [r \in Requests |-> FALSE]
    /\ looked = FALSE
    /\ pool = [c \in Conns |-> "idle"]
    /\ sess = [c \in Conns |-> None]
    /\ done = {}
    /\ rows = [r \in Requests |-> 0]
    /\ row = [r \in Requests |-> NoLine]
    /\ doubt = [r \in Requests |-> FALSE]
    /\ fault = [r \in Requests |-> FALSE]

\* What Do does by itself once called: every wait in it has a timer.
Step(r) ==
    /\ \/ Begin(r) \/ BeginFails(r)
       \/ Authorize(r) \/ AuthorizeRefuses(r) \/ AuthorizeFails(r)
       \/ Savepoint(r) \/ HandlerSucceeds(r) \/ HandlerRefuses(r)
       \/ LookupStart(r) \/ LookupDone(r) \/ LookupTimeout(r)
       \/ Discard(r) \/ Fresh(r) \/ FreshFails(r)
       \/ Undo(r) \/ JournalRefusal(r) \/ CommitRefusal(r) \/ CommitRefused(r)
       \/ Salvage(r) \/ CommitLine(r)
       \/ LogSuccess(r) \/ Commit(r) \/ Return(r)
    /\ UNCHANGED <<features, hungup>>

Next ==
    \/ \E r \in Requests : Start(r) \/ Step(r) \/ HangUp(r)
    \/ \E c \in Conns : AfterRelease(c)

Spec == Init /\ [][Next]_vars

\* Every goroutine that can go on does, the handler returns, and the pool's
\* own goroutine resets what was released.  Clients need not call or wait.
Fairness ==
    /\ \A r \in Requests : WF_vars(Step(r))
    /\ \A c \in Conns : WF_vars(AfterRelease(c))

FairSpec == Spec /\ Fairness

-----------------------------------------------------------------------------
(* Properties.                                                             *)

Statuses == {"none", "open", "ok", "refused", "internal"}
Lines == [status : Statuses, by : Requests \cup {None}]

\* Types: where Do stands, what its transaction and the pool hold, and the
\* problems explain may return (never an error as it came).
TypeOK ==
    /\ features \in FeatureSets
    /\ pc \in [Requests -> PCs]
    /\ held \in [Requests -> Conns \cup {None}]
    /\ tx \in [Requests -> {"none", "active", "aborted", "lost"}]
    /\ work \in [Requests -> BOOLEAN]
    /\ line \in [Requests -> Lines]
    /\ verdict \in [Requests -> {"ok", "refused", "internal"}]
    /\ logId \in [Requests -> BOOLEAN]
    /\ cont \in [Requests -> {"undo", "discard", "return"}]
    /\ asks \in [Requests -> 0..2]
    /\ aux \in [Requests -> Conns \cup {None}]
    /\ hungup \in [Requests -> BOOLEAN]
    /\ looked \in BOOLEAN
    /\ pool \in [Conns -> {"idle", "lent", "resetting"}]
    /\ sess \in [Conns -> Requests \cup {None}]
    /\ done \in SUBSET Requests
    /\ rows \in [Requests -> Nat]
    /\ row \in [Requests -> Lines]
    /\ doubt \in [Requests -> BOOLEAN]
    /\ fault \in [Requests -> BOOLEAN]

Answered(r) == pc[r] = "answered"

\* What the client is told is what happened: an answer without a problem means
\* the handler's work is committed (a handler that swallowed an SQL error
\* included), a problem means that none of it is -- unless the database
\* committed and the connection broke before pgx heard of it.
AnswerIsTheTruth ==
    \A r \in Requests : Answered(r) =>
        /\ verdict[r] = "ok" => r \in done
        /\ verdict[r] # "ok" /\ ~doubt[r] => r \notin done

\* In every state, not only at the end: where requests are journalled the work
\* of a handler is never durable without its own 2xx row, written under the
\* request's own session, and a refusal's row never comes with any work.
JournalMatchesWork ==
    \A r \in Requests :
        /\ r \in done /\ Journals => row[r] = [status |-> "ok", by |-> r]
        /\ rows[r] > 0 /\ row[r].status # "ok" => r \notin done

\* One request is at most one row of api_log, whatever is retried, undone,
\* salvaged or journalled in a fresh transaction on the way.
OneRowPerRequest == \A r \in Requests : rows[r] <= 1

\* Request.LogID, once Do returned, is 0 or a row that is committed and says
\* what the client was told: "0 when Do could not confirm the row".
LogIdIsConfirmed ==
    \A r \in Requests : Answered(r) /\ logId[r] =>
        rows[r] = 1 /\ row[r].status = verdict[r]

\* A refusal is journalled with the status on the wire whenever the journal's
\* own statements and connection hold, also when the client hung up meanwhile;
\* only a 500 that the hang-up itself caused may go unrecorded.
RefusalIsJournalled ==
    \A r \in Requests :
        /\ Answered(r) /\ Journals /\ verdict[r] # "ok" /\ ~fault[r]
        /\ verdict[r] = "internal" => ~hungup[r]
        => rows[r] = 1 /\ row[r].status = verdict[r]

\* No request inherits a stranger's session over the pool: a connection that
\* can be lent carries none, nor does one a catalogue query runs on, a handler
\* runs under its own, and a row is written under its own or under none.
SessionsStayApart ==
    /\ \A c \in Conns : pool[c] = "idle" => sess[c] = None
    /\ \A r \in Requests :
         /\ aux[r] # None => sess[aux[r]] = None
         /\ pc[r] \in {"savepoint", "handler", "log"} => sess[held[r]] = r
         /\ row[r].by \in {r, None}

\* Every connection lent is held by exactly one transaction or query: none
\* leaks when a request ends, and none serves two requests.
ConnectionsAccounted ==
    /\ \A c \in Conns : pool[c] = "lent" <=>
         \E r \in Requests : held[r] = c \/ aux[r] = c
    /\ \A r, q \in Requests :
         /\ r # q /\ held[r] # None => held[r] # held[q]
         /\ held[r] # None => held[r] # aux[q]
         /\ r # q /\ aux[r] # None => aux[r] # aux[q]
    /\ \A r \in Requests : Answered(r) => held[r] = None /\ aux[r] = None

\* Every call of Do returns, also with every connection of the pool held by a
\* refused request that waits for another one to explain its error.
EveryRequestAnswered ==
    \A r \in Requests : pc[r] # "idle" ~> Answered(r)

\* What is durable of a request, and what its client was told.
Fate(r) == IF r \in done THEN "work" ELSE IF rows[r] > 0 THEN "row" ELSE "nothing"
Told(r) == IF ~Answered(r) THEN "waits"
           ELSE IF verdict[r] = "ok" THEN "success" ELSE "problem"

Contract == INSTANCE RequestContract WITH
                fate  <- [r \in Requests |-> Fate(r)],
                told  <- [r \in Requests |-> Told(r)],
                doubt <- doubt

\* Do refines the contract: the durable effect of a request is decided in one
\* step of one transaction, never after the answer and never twice, and the
\* answer agrees with it.
KeepsContract == Contract!Spec

\* README.md:119 and the comment on journalCtx: a client that gave up on the
\* answer does not take the audit row with it.
HangUpKeepsTheRow ==
    \A r \in Requests :
        Answered(r) /\ Journals /\ hungup[r] /\ ~fault[r] => rows[r] = 1
=============================================================================
