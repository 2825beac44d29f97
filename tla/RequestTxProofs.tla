--------------------------- MODULE RequestTxProofs ---------------------------
(***************************************************************************)
(* The theorems of RequestTx, for any number of requests and connections   *)
(* and every set of features Detect may find.  IndInv is inductive: types  *)
(* first, then the pool, then the stage each request is in.  A step of one *)
(* request leaves the others as they are (the Frame lemmas), so that what  *)
(* remains is one small case for each action.                              *)
(***************************************************************************)
EXTENDS RequestTxInv, TLAPS

-----------------------------------------------------------------------------
(* Types.                                                                  *)

TypeReq ==
    /\ pc \in [Requests -> PCs]
    /\ verdict \in [Requests -> {"ok", "refused", "internal"}]
    /\ logId \in [Requests -> BOOLEAN]
    /\ cont \in [Requests -> {"undo", "discard", "return"}]
    /\ asks \in [Requests -> 0..2]
    /\ aux \in [Requests -> Conns \cup {None}]

TypeTx ==
    /\ held \in [Requests -> Conns \cup {None}]
    /\ tx \in [Requests -> {"none", "active", "aborted", "lost"}]
    /\ work \in [Requests -> BOOLEAN]
    /\ line \in [Requests -> Lines]

TypePool ==
    /\ pool \in [Conns -> {"idle", "lent", "resetting"}]
    /\ sess \in [Conns -> Requests \cup {None}]

TypeDb ==
    /\ done \in SUBSET Requests
    /\ rows \in [Requests -> Nat]
    /\ row \in [Requests -> Lines]
    /\ doubt \in [Requests -> BOOLEAN]

TypeRest ==
    /\ features \in FeatureSets
    /\ looked \in BOOLEAN
    /\ fault \in [Requests -> BOOLEAN]
    /\ hungup \in [Requests -> BOOLEAN]

\* Features are flags, and explain makes at most two lookups.
LEMMA FeaturesAreFlags ==
    ASSUME TypeOK
    PROVE  /\ features.daemon \in BOOLEAN /\ features.journal \in BOOLEAN
           /\ features.local \in BOOLEAN /\ features.parse \in BOOLEAN
           /\ Lookups \in 0..2
BY RequestTxAssumption DEF TypeOK, Lookups

\* A journal line is a status and a session.
LEMMA LinesAreTyped ==
    /\ NoLine \in Lines
    /\ \A s \in Statuses, b \in Requests \cup {None} : [status |-> s, by |-> b] \in Lines
BY DEF NoLine, Lines, Statuses

\* A transaction that ends leaves the request's and the pool's types.
LEMMA GiveBackType ==
    ASSUME TypeOK, NEW r \in Requests, NEW broken, NEW kept, GiveBack(r, broken, kept)
    PROVE  TypeTx' /\ TypePool'
<1>1. held' \in [Requests -> Conns \cup {None}] /\ tx' \in [Requests -> {"none", "active", "aborted", "lost"}]
  BY DEF TypeOK, GiveBack
<1>2. work' \in [Requests -> BOOLEAN] /\ line' \in [Requests -> Lines]
  BY LinesAreTyped DEF TypeOK, GiveBack
<1>3. pool' \in [Conns -> {"idle", "lent", "resetting"}]
  BY DEF TypeOK, GiveBack
<1>4. sess' \in [Conns -> Requests \cup {None}]
  BY DEF TypeOK, GiveBack
<1>5. QED BY <1>1, <1>2, <1>3, <1>4 DEF TypeTx, TypePool

\* Committing keeps the types of what is durable.
LEMMA DurableType ==
    ASSUME TypeOK, NEW r \in Requests, Durable(r)
    PROVE  /\ done' \in SUBSET Requests /\ rows' \in [Requests -> Nat]
           /\ row' \in [Requests -> Lines]
BY DEF TypeOK, Durable

\* So does every end of COMMIT.
LEMMA CommitType ==
    ASSUME TypeOK, NEW r \in Requests, Committed(r) \/ CommitUndone(r) \/ CommitInDoubt(r)
    PROVE  TypeTx' /\ TypePool' /\ TypeDb'
<1>1. CASE Committed(r)
  BY <1>1, GiveBackType, DurableType DEF Committed, TypeDb, TypeOK
<1>2. CASE CommitUndone(r)
  BY <1>2, GiveBackType DEF CommitUndone, dbVars, TypeDb, TypeOK
<1>3. CASE CommitInDoubt(r)
  BY <1>3, GiveBackType, DurableType DEF CommitInDoubt, TypeDb, TypeOK
<1>4. QED BY <1>1, <1>2, <1>3

\* A rollback keeps the types, with or without a transaction.
LEMMA RollbackType ==
    ASSUME TypeOK, NEW r \in Requests, Rollback(r)
    PROVE  TypeTx' /\ TypePool' /\ TypeDb'
<1>1. TypeDb' BY DEF Rollback, dbVars, TypeDb, TypeOK
<1>2. CASE held[r] = None
  BY <1>1, <1>2 DEF Rollback, txVars, poolVars, TypeTx, TypePool, TypeOK
<1>3. CASE held[r] # None
  BY <1>1, <1>3, GiveBackType DEF Rollback
<1>4. QED BY <1>2, <1>3

\* A connection that is lent keeps them.
LEMMA LendType ==
    ASSUME TypeOK, NEW r \in Requests, NEW c \in Conns, Lend(r, c)
    PROVE  TypeTx' /\ TypePool'
BY DEF TypeOK, Lend, TypeTx, TypePool

\* A jump to a place of Do keeps the places.
LEMMA GotoType ==
    ASSUME TypeOK, NEW r \in Requests, NEW where \in PCs, Goto(r, where)
    PROVE  pc' \in [Requests -> PCs]
BY DEF TypeOK, Goto

\* Marking a fault keeps the marks.
LEMMA FaultType ==
    ASSUME TypeOK, NEW r \in Requests, Fault(r)
    PROVE  fault' \in [Requests -> BOOLEAN]
BY DEF TypeOK, Fault

\* The 500 keeps the types of the request.
LEMMA InternalType ==
    ASSUME TypeOK, NEW r \in Requests, Internal(r)
    PROVE  pc' \in [Requests -> PCs] /\ verdict' \in [Requests -> {"ok", "refused", "internal"}]
BY DEF TypeOK, Internal, Goto, PCs

\* explain keeps them, whichever way it goes.
LEMMA ExplainType ==
    ASSUME TypeOK, NEW r \in Requests, NEW kind, NEW where \in {"undo", "discard", "return"},
           Explain(r, kind, where)
    PROVE  /\ pc' \in [Requests -> PCs]
           /\ verdict' \in [Requests -> {"ok", "refused", "internal"}]
           /\ cont' \in [Requests -> {"undo", "discard", "return"}]
           /\ asks' \in [Requests -> 0..2]
BY FeaturesAreFlags DEF TypeOK, Explain, Verdict, Goto, PCs

\* Going back to the savepoint keeps the transaction's types.
LEMMA ToSavepointType ==
    ASSUME TypeOK, NEW r \in Requests, ToSavepoint(r)
    PROVE  /\ tx' \in [Requests -> {"none", "active", "aborted", "lost"}]
           /\ work' \in [Requests -> BOOLEAN] /\ line' \in [Requests -> Lines]
BY LinesAreTyped DEF TypeOK, ToSavepoint, Statuses

\* Writing the journal line keeps them.
LEMMA WriteLineType ==
    ASSUME TypeOK, NEW r \in Requests, NEW status \in Statuses, held[r] # None,
           WriteLine(r, status)
    PROVE  line' \in [Requests -> Lines] /\ logId' \in [Requests -> BOOLEAN]
BY DEF TypeOK, WriteLine, Lines, Statuses

\* Every action keeps the types.
LEMMA TypeStep ==
    ASSUME TypeOK, NEW r \in Requests, Holding(r), Step(r)
    PROVE  TypeOK'
<1> USE RequestTxAssumption, FeaturesAreFlags
<1>0. features' = features /\ hungup' = hungup BY DEF Step
<1> SUFFICES TypeReq' /\ TypeTx' /\ TypePool' /\ TypeDb' /\ TypeRest'
  BY DEF TypeOK, TypeReq, TypeTx, TypePool, TypeDb, TypeRest
<1>1. CASE Begin(r)
  <2>1. TypeTx' /\ TypePool' BY <1>1, LendType DEF Begin
  <2>2. QED BY <1>0, <1>1, <2>1 DEF Begin, Goto, PCs, dbVars, TypeOK, TypeReq, TypeDb, TypeRest
<1>2. CASE BeginFails(r)
  BY <1>0, <1>2 DEF BeginFails, Internal, Goto, Fault, PCs, txVars, poolVars, dbVars, TypeOK,
                    TypeReq, TypeTx, TypePool, TypeDb, TypeRest
<1>3. CASE Authorize(r)
  BY <1>0, <1>3, LinesAreTyped DEF Authorize, Goto, PCs, dbVars, Statuses, TypeOK, TypeReq,
                    TypeTx, TypePool, TypeDb, TypeRest
<1>4. CASE AuthorizeRefuses(r)
  BY <1>0, <1>4, LinesAreTyped DEF AuthorizeRefuses, Goto, PCs, poolVars, dbVars, Statuses,
                    TypeOK, TypeReq, TypeTx, TypePool, TypeDb, TypeRest
<1>5. CASE AuthorizeFails(r)
  <2>1. PICK f \in Failures(r, TRUE) :
          /\ tx' = [tx EXCEPT ![r] = f.tx]
          /\ IF features.daemon
               THEN Internal(r) /\ Fault(r) /\ UNCHANGED <<asks, cont>>
               ELSE /\ Explain(r, f.kind, IF features.journal THEN "discard" ELSE "return")
                    /\ UNCHANGED fault
    BY <1>5 DEF AuthorizeFails
  <2>2. f.tx \in {"none", "active", "aborted", "lost"} BY DEF Failures, TypeOK
  <2>3. TypeTx' /\ TypePool' /\ TypeDb'
    BY <1>5, <2>1, <2>2 DEF AuthorizeFails, poolVars, dbVars, TypeOK, TypeTx, TypePool, TypeDb
  <2>4. CASE features.daemon
    BY <1>0, <1>5, <2>1, <2>3, <2>4, InternalType, FaultType DEF AuthorizeFails, TypeOK,
                                        TypeReq, TypeRest
  <2>5. CASE ~features.daemon
    <3>1. \E where \in {"undo", "discard", "return"} : Explain(r, f.kind, where)
      BY <2>1, <2>5
    <3>2. QED BY <1>0, <1>5, <2>1, <2>3, <2>5, <3>1, ExplainType
              DEF AuthorizeFails, TypeOK, TypeReq, TypeRest
  <2>6. QED BY <2>4, <2>5
<1>6. CASE Savepoint(r)
  <2>1. \A f \in Failures(r, TRUE) : f.tx \in {"none", "active", "aborted", "lost"}
    BY DEF Failures, TypeOK
  <2>2. tx' \in [Requests -> {"none", "active", "aborted", "lost"}]
    BY <1>6, <2>1 DEF Savepoint, TypeOK
  <2>3. /\ pc' \in [Requests -> PCs] /\ verdict' \in [Requests -> {"ok", "refused", "internal"}]
        /\ fault' \in [Requests -> BOOLEAN]
    <3>1. CASE Internal(r) /\ Fault(r) BY <3>1, InternalType, FaultType
    <3>2. CASE Goto(r, "handler") /\ UNCHANGED <<verdict, fault>>
      BY <3>2, GotoType DEF PCs, TypeOK
    <3>3. QED BY <1>6, <3>1, <3>2 DEF Savepoint
  <2>4. QED
    BY <1>0, <1>6, <2>2, <2>3 DEF Savepoint, poolVars, dbVars, TypeOK, TypeReq, TypeTx,
                                  TypePool, TypeDb, TypeRest
<1>7. CASE HandlerSucceeds(r)
  BY <1>0, <1>7 DEF HandlerSucceeds, Goto, PCs, poolVars, dbVars, TypeOK, TypeReq, TypeTx,
                    TypePool, TypeDb, TypeRest
<1>8. CASE HandlerRefuses(r)
  <2>1. \E k \in Kinds, where \in {"undo", "discard", "return"} : Explain(r, k, where)
    BY <1>8 DEF HandlerRefuses
  <2>2. TypeReq' BY <1>8, <2>1, ExplainType DEF HandlerRefuses, TypeOK, TypeReq
  <2>3. TypeTx' BY <1>8 DEF HandlerRefuses, TypeOK, TypeTx
  <2>4. TypePool' /\ TypeDb' /\ TypeRest'
    BY <1>0, <1>8 DEF HandlerRefuses, poolVars, dbVars, TypeOK, TypePool, TypeDb, TypeRest
  <2>5. QED BY <2>2, <2>3, <2>4
<1>9. CASE LookupStart(r)
  BY <1>0, <1>9 DEF LookupStart, txVars, dbVars, TypeOK, TypeReq, TypeTx, TypePool, TypeDb, TypeRest
<1>10. CASE LookupDone(r)
  BY <1>0, <1>10 DEF LookupDone, Holding, Goto, PCs, txVars, dbVars, TypeOK, TypeReq, TypeTx,
                     TypePool, TypeDb, TypeRest
<1>11. CASE LookupTimeout(r)
  BY <1>0, <1>11 DEF LookupTimeout, Goto, PCs, txVars, dbVars, TypeOK, TypeReq, TypeTx,
                     TypePool, TypeDb, TypeRest
<1>12. CASE Discard(r)
  BY <1>0, <1>12, RollbackType DEF Discard, Goto, PCs, TypeOK, TypeReq, TypeRest
<1>13. CASE Fresh(r)
  <2>1. TypeTx' /\ TypePool' BY <1>13, LendType DEF Fresh
  <2>2. QED BY <1>0, <1>13, <2>1 DEF Fresh, Goto, PCs, dbVars, TypeOK, TypeReq, TypeDb, TypeRest
<1>14. CASE FreshFails(r)
  BY <1>0, <1>14 DEF FreshFails, Fault, Goto, PCs, txVars, poolVars, dbVars, TypeOK,
                     TypeReq, TypeTx, TypePool, TypeDb, TypeRest
<1>15. CASE Undo(r)
  <2>1. TypeTx' BY <1>15, ToSavepointType DEF Undo, TypeOK, TypeTx
  <2>2. pc' \in [Requests -> PCs] BY <1>15 DEF Undo, Goto, PCs, TypeOK
  <2>3. fault' \in [Requests -> BOOLEAN] BY <1>15, FaultType DEF Undo, TypeOK
  <2>4. QED BY <1>0, <1>15, <2>1, <2>2, <2>3 DEF Undo, poolVars, dbVars, TypeOK, TypeReq, TypePool,
                                     TypeDb, TypeRest
<1>16. CASE JournalRefusal(r)
  <2>1. held[r] # None BY <1>16 DEF JournalRefusal, Holding, At, InTx
  <2>2. verdict[r] \in Statuses BY DEF TypeOK, Statuses
  <2>3. \A f \in Failures(r, FALSE) : f.tx \in {"none", "active", "aborted", "lost"}
    BY DEF Failures, TypeOK
  <2>4. line' \in [Requests -> Lines] /\ logId' \in [Requests -> BOOLEAN]
    BY <1>16, <2>1, <2>2, WriteLineType DEF JournalRefusal, TypeOK
  <2>5. TypeTx' BY <1>16, <2>3, <2>4 DEF JournalRefusal, TypeOK, TypeTx
  <2>6. /\ pc' \in [Requests -> PCs]
        /\ fault' \in [Requests -> BOOLEAN]
    <3>0. \E where \in {"commitRefusal", "salvage", "return"} : Goto(r, where)
      BY <1>16 DEF JournalRefusal
    <3>1. pc' \in [Requests -> PCs] BY <3>0, GotoType DEF PCs
    <3>2. fault' \in [Requests -> BOOLEAN] BY <1>16, FaultType DEF JournalRefusal, TypeOK
    <3>3. QED BY <3>1, <3>2
  <2>7. QED BY <1>0, <1>16, <2>4, <2>5, <2>6 DEF JournalRefusal, poolVars, dbVars, TypeOK, TypeReq,
                                 TypePool, TypeDb, TypeRest
<1>17. CASE CommitRefusal(r)
  <2>1. TypeTx' /\ TypePool' /\ TypeDb' BY <1>17, CommitType DEF CommitRefusal, CommitFails
  <2>2. QED BY <1>0, <1>17, <2>1 DEF CommitRefusal, Fault, Goto, PCs, TypeOK, TypeReq, TypeRest
<1>18. CASE CommitRefused(r)
  <2>1. TypeTx' /\ TypePool' /\ TypeDb' BY <1>18, CommitType DEF CommitRefused, CommitFails
  <2>2. PICK k \in {"raise", "catalogue", "internal"} : Explain(r, k, "return")
    BY <1>18 DEF CommitRefused
  <2>5. TypeReq' BY <1>18, <2>2, ExplainType DEF CommitRefused, TypeOK, TypeReq
  <2>3. TypeRest' BY <1>0, <1>18 DEF CommitRefused, Fault, TypeOK, TypeRest
  <2>4. QED BY <2>1, <2>5, <2>3
<1>19. CASE Salvage(r)
  <2>1. TypeTx' BY <1>19, ToSavepointType DEF Salvage, TypeOK, TypeTx
  <2>2. QED BY <1>0, <1>19, <2>1 DEF Salvage, Goto, PCs, poolVars, dbVars, TypeOK, TypeReq,
                                     TypePool, TypeDb, TypeRest
<1>20. CASE CommitLine(r)
  <2>1. TypeTx' /\ TypePool' /\ TypeDb' BY <1>20, CommitType DEF CommitLine, CommitFails
  <2>2. QED BY <1>0, <1>20, <2>1 DEF CommitLine, Goto, PCs, TypeOK, TypeReq, TypeRest
<1>21. CASE LogSuccess(r)
  <2>1. held[r] # None BY <1>21 DEF LogSuccess, Holding, At, InTx
  <2>2. line' \in [Requests -> Lines] /\ logId' \in [Requests -> BOOLEAN]
    BY <1>21, <2>1, WriteLineType DEF LogSuccess, TypeOK, Statuses
  <2>3. \A f \in Failures(r, TRUE) : f.tx \in {"none", "active", "aborted", "lost"}
    BY DEF Failures, TypeOK
  <2>4. TypeTx' BY <1>21, <2>2, <2>3 DEF LogSuccess, TypeOK, TypeTx
  <2>5. TypeReq'
    <3>1. CASE \E f \in Failures(r, TRUE) : Explain(r, f.kind, "return")
      BY <1>21, <2>2, <3>1, ExplainType DEF LogSuccess, TypeOK, TypeReq
    <3>2. CASE /\ verdict' \in {verdict, [verdict EXCEPT ![r] = "internal"]}
               /\ pc' \in {[pc EXCEPT ![r] = "commit"], [pc EXCEPT ![r] = "salvage"]}
               /\ UNCHANGED <<cont, asks>>
      BY <1>21, <2>2, <3>2 DEF LogSuccess, PCs, TypeOK, TypeReq
    <3>3. QED BY <1>21, <3>1, <3>2 DEF LogSuccess, Goto
  <2>6. QED BY <1>0, <1>21, <2>4, <2>5 DEF LogSuccess, poolVars, dbVars, TypeOK, TypePool, TypeDb,
                                           TypeRest
<1>22. CASE Commit(r)
  <2>1. TypeTx' /\ TypePool' /\ TypeDb' BY <1>22, CommitType DEF Commit
  <2>2. TypeReq'
    <3>1. CASE \E kind \in {"internal", "catalogue", "raise"} : Explain(r, kind, "return")
      BY <1>22, <3>1, ExplainType DEF Commit, TypeOK, TypeReq
    <3>2. CASE Goto(r, "return") /\ UNCHANGED <<verdict, logId, cont, asks>>
      BY <1>22, <3>2 DEF Commit, Goto, PCs, TypeOK, TypeReq
    <3>3. \A f \in Failures(r, TRUE) : f.kind \in {"internal", "catalogue", "raise"}
      BY DEF Failures
    <3>4. QED BY <1>22, <3>1, <3>2, <3>3 DEF Commit
  <2>3. TypeRest' BY <1>0, <1>22 DEF Commit, TypeOK, TypeRest
  <2>4. QED BY <2>1, <2>2, <2>3
<1>23. CASE Return(r)
  BY <1>0, <1>23, RollbackType DEF Return, Goto, PCs, TypeOK, TypeReq, TypeRest
<1>24. QED
  BY <1>1, <1>2, <1>3, <1>4, <1>5, <1>6, <1>7, <1>8, <1>9, <1>10, <1>11, <1>12, <1>13, <1>14,
     <1>15, <1>16, <1>17, <1>18, <1>19, <1>20, <1>21, <1>22, <1>23 DEF Step

-----------------------------------------------------------------------------
(* What a step of one request leaves alone.                                *)

SameReq(q) ==
    /\ pc'[q] = pc[q] /\ verdict'[q] = verdict[q] /\ logId'[q] = logId[q]
    /\ cont'[q] = cont[q] /\ asks'[q] = asks[q] /\ aux'[q] = aux[q]

SameTx(q) ==
    held'[q] = held[q] /\ tx'[q] = tx[q] /\ work'[q] = work[q] /\ line'[q] = line[q]

SameDb(q) ==
    /\ q \in done' <=> q \in done
    /\ rows'[q] = rows[q] /\ row'[q] = row[q] /\ doubt'[q] = doubt[q]

\* sess changes at most at one connection.
SessAt(d) == \A c \in Conns : c # d => sess'[c] = sess[c]

\* A transaction that ends touches its own request and connection only.
LEMMA GiveBackFrame ==
    ASSUME TypeOK, NEW r \in Requests, NEW broken, NEW kept, GiveBack(r, broken, kept)
    PROVE  /\ \A q \in Requests : q # r => SameTx(q)
           /\ SessAt(held[r])
BY DEF TypeOK, GiveBack, SameTx, SessAt

\* A commit makes nothing of another request durable.
LEMMA DurableFrame ==
    ASSUME TypeOK, NEW r \in Requests, Durable(r)
    PROVE  \A q \in Requests : q # r =>
             (q \in done' <=> q \in done) /\ rows'[q] = rows[q] /\ row'[q] = row[q]
BY DEF TypeOK, Durable

\* Every end of COMMIT stays within its request.
LEMMA CommitFrame ==
    ASSUME TypeOK, NEW r \in Requests, Committed(r) \/ CommitUndone(r) \/ CommitInDoubt(r)
    PROVE  /\ \A q \in Requests : q # r => SameTx(q) /\ SameDb(q)
           /\ SessAt(held[r])
<1>1. CASE Committed(r)
  BY <1>1, GiveBackFrame, DurableFrame DEF Committed, SameDb
<1>2. CASE CommitUndone(r)
  BY <1>2, GiveBackFrame DEF CommitUndone, dbVars, SameDb
<1>3. CASE CommitInDoubt(r)
  <2>1. \A q \in Requests : q # r => doubt'[q] = doubt[q] BY <1>3 DEF CommitInDoubt, TypeOK
  <2>2. QED BY <1>3, <2>1, GiveBackFrame, DurableFrame DEF CommitInDoubt, SameDb
<1>4. QED BY <1>1, <1>2, <1>3

\* So does a rollback.
LEMMA RollbackFrame ==
    ASSUME TypeOK, NEW r \in Requests, Rollback(r)
    PROVE  /\ \A q \in Requests : q # r => SameTx(q) /\ SameDb(q)
           /\ SessAt(held[r])
BY GiveBackFrame DEF Rollback, txVars, poolVars, dbVars, SameTx, SameDb, SessAt

\* explain changes nothing of another request.
LEMMA ExplainFrame ==
    ASSUME TypeOK, NEW r \in Requests, NEW kind, NEW where, Explain(r, kind, where)
    PROVE  \A q \in Requests : q # r =>
             pc'[q] = pc[q] /\ verdict'[q] = verdict[q] /\ cont'[q] = cont[q] /\ asks'[q] = asks[q]
BY DEF TypeOK, Explain, Goto

\* A step of r leaves every other request, and every connection r does not
\* hold, as they are.
LEMMA StepFrame ==
    ASSUME TypeOK, NEW r \in Requests, Step(r)
    PROVE  /\ \A q \in Requests : q # r => SameReq(q) /\ SameTx(q) /\ SameDb(q)
           /\ SessAt(held[r])
<1> USE DEF SameReq, SameTx, SameDb
<1>1. CASE Begin(r) \/ BeginFails(r)
  BY <1>1 DEF Begin, BeginFails, Lend, Internal, Goto, txVars, poolVars, dbVars, TypeOK, SessAt
<1>2. CASE Authorize(r) \/ AuthorizeRefuses(r)
  BY <1>2 DEF Authorize, AuthorizeRefuses, Goto, poolVars, dbVars, TypeOK, SessAt
<1>3. CASE AuthorizeFails(r)
  <2>1. \A q \in Requests : q # r => SameReq(q)
    BY <1>3, ExplainFrame DEF AuthorizeFails, Internal, Goto, TypeOK
  <2>2. \A q \in Requests : q # r => SameTx(q) /\ SameDb(q)
    BY <1>3 DEF AuthorizeFails, dbVars, TypeOK
  <2>3. QED BY <1>3, <2>1, <2>2 DEF AuthorizeFails, poolVars, SessAt
<1>4. CASE Savepoint(r) \/ HandlerSucceeds(r)
  BY <1>4 DEF Savepoint, HandlerSucceeds, Internal, Goto, poolVars, dbVars, TypeOK, SessAt
<1>5. CASE HandlerRefuses(r)
  <2>1. \A q \in Requests : q # r => SameReq(q)
    BY <1>5, ExplainFrame DEF HandlerRefuses
  <2>2. \A q \in Requests : q # r => SameTx(q) /\ SameDb(q)
    BY <1>5 DEF HandlerRefuses, dbVars, TypeOK
  <2>3. QED BY <1>5, <2>1, <2>2 DEF HandlerRefuses, poolVars, SessAt
<1>6. CASE LookupStart(r) \/ LookupDone(r) \/ LookupTimeout(r)
  BY <1>6 DEF LookupStart, LookupDone, LookupTimeout, Goto, txVars, dbVars, TypeOK, SessAt
<1>7. CASE Discard(r) \/ Return(r)
  <2>1. Rollback(r) BY <1>7 DEF Discard, Return
  <2>2. \A q \in Requests : q # r => SameReq(q)
    BY <1>7 DEF Discard, Return, Goto, TypeOK
  <2>3. QED BY <2>1, <2>2, RollbackFrame
<1>8. CASE Fresh(r) \/ FreshFails(r)
  BY <1>8 DEF Fresh, FreshFails, Lend, Goto, txVars, poolVars, dbVars, TypeOK, SessAt
<1>9. CASE Undo(r) \/ Salvage(r)
  BY <1>9 DEF Undo, Salvage, ToSavepoint, Goto, poolVars, dbVars, TypeOK, SessAt
<1>10. CASE JournalRefusal(r)
  BY <1>10 DEF JournalRefusal, WriteLine, Goto, poolVars, dbVars, TypeOK, SessAt
<1>11. CASE CommitRefusal(r) \/ CommitLine(r)
  <2>1. Committed(r) \/ CommitUndone(r) \/ CommitInDoubt(r)
    BY <1>11 DEF CommitRefusal, CommitLine, CommitFails
  <2>2. \A q \in Requests : q # r => SameReq(q)
    BY <1>11 DEF CommitRefusal, CommitLine, Goto, TypeOK
  <2>3. QED BY <2>1, <2>2, CommitFrame
<1>12. CASE CommitRefused(r)
  <2>1. Committed(r) \/ CommitUndone(r) \/ CommitInDoubt(r)
    BY <1>12 DEF CommitRefused, CommitFails
  <2>2. \A q \in Requests : q # r => SameReq(q)
    BY <1>12, ExplainFrame DEF CommitRefused
  <2>3. QED BY <2>1, <2>2, CommitFrame
<1>13. CASE LogSuccess(r)
  <2>1. \A q \in Requests : q # r => line'[q] = line[q] /\ logId'[q] = logId[q] /\ tx'[q] = tx[q]
    BY <1>13 DEF LogSuccess, WriteLine, TypeOK
  <2>2. \A q \in Requests : q # r =>
          pc'[q] = pc[q] /\ verdict'[q] = verdict[q] /\ cont'[q] = cont[q] /\ asks'[q] = asks[q]
    <3>1. CASE \E f \in Failures(r, TRUE) : Explain(r, f.kind, "return")
      BY <3>1, ExplainFrame
    <3>2. CASE /\ verdict' \in {verdict, [verdict EXCEPT ![r] = "internal"]}
               /\ pc' \in {[pc EXCEPT ![r] = "commit"], [pc EXCEPT ![r] = "salvage"]}
               /\ UNCHANGED <<cont, asks>>
      BY <3>2 DEF TypeOK
    <3>3. QED BY <1>13, <3>1, <3>2 DEF LogSuccess, Goto
  <2>3. QED BY <1>13, <2>1, <2>2 DEF LogSuccess, poolVars, dbVars, SessAt
<1>14. CASE Commit(r)
  <2>1. Committed(r) \/ CommitUndone(r) \/ CommitInDoubt(r) BY <1>14 DEF Commit
  <2>2. \A q \in Requests : q # r => logId'[q] = logId[q] BY <1>14 DEF Commit, TypeOK
  <2>3. \A q \in Requests : q # r =>
          pc'[q] = pc[q] /\ verdict'[q] = verdict[q] /\ cont'[q] = cont[q] /\ asks'[q] = asks[q]
    BY <1>14, ExplainFrame DEF Commit, Goto, TypeOK
  <2>4. \A q \in Requests : q # r => SameReq(q) BY <1>14, <2>2, <2>3 DEF Commit
  <2>5. QED BY <2>1, <2>4, CommitFrame
<1>15. QED
  BY <1>1, <1>2, <1>3, <1>4, <1>5, <1>6, <1>7, <1>8, <1>9, <1>10, <1>11, <1>12, <1>13, <1>14
     DEF Step

\* A request that nothing happened to is where it was.
LEMMA StageFrame ==
    ASSUME TypeOK, NEW q \in Requests, Stage(q), features' = features,
           SameReq(q), SameTx(q), SameDb(q),
           held[q] # None => sess'[held[q]] = sess[held[q]]
    PROVE  Stage(q)'
<1>1. At(q)' = At(q) BY DEF At, SameReq
<1>2. Journals' = Journals /\ BaseLine(q)' = BaseLine(q) BY DEF Journals, BaseLine, NoLine
<1>3. Holding(q)' BY <1>1 DEF Stage, Holding, SameReq, SameTx, NoLine
<1>4. Before(q)' BY <1>1, <1>2 DEF Stage, Holding, Before, SameReq, SameTx, NoLine, InTx
<1>5. Refusing(q)' BY <1>1, <1>2 DEF Stage, Holding, Refusing, SameReq, SameTx, NoLine, InTx
<1>6. Durably(q)'
  BY <1>1, <1>2 DEF Stage, Durably, Nothing, Succeeded, RefusalRow, SameReq, SameTx, SameDb, NoLine
<1>7. QED BY <1>3, <1>4, <1>5, <1>6 DEF Stage

-----------------------------------------------------------------------------
(* The pool.                                                               *)

\* A step that leaves the pool and the requests' connections keeps PoolInv.
LEMMA PoolSame ==
    ASSUME PoolInv, held' = held, aux' = aux, pool' = pool, sess' = sess
    PROVE  PoolInv'
BY DEF PoolInv

\* A connection that can be lent belongs to nobody.
LEMMA PoolLend ==
    ASSUME TypeOK, PoolInv, NEW r \in Requests, held[r] = None, NEW c \in Conns, Lend(r, c),
           aux' = aux
    PROVE  PoolInv'
<1>1. \A q \in Requests : held[q] # c /\ aux[q] # c
  BY RequestTxAssumption DEF PoolInv, Lend
<1>2. held' = [held EXCEPT ![r] = c] /\ pool' = [pool EXCEPT ![c] = "lent"] /\ sess' = sess
  BY DEF Lend
<1>3. QED BY <1>1, <1>2, RequestTxAssumption DEF PoolInv, TypeOK

\* A connection given back belongs to nobody, and cannot be lent with a session.
LEMMA PoolGiveBack ==
    ASSUME TypeOK, PoolInv, NEW r \in Requests, held[r] # None,
           NEW broken \in BOOLEAN, NEW kept \in BOOLEAN, GiveBack(r, broken, kept), aux' = aux
    PROVE  PoolInv'
<1> DEFINE c == held[r]
<1>1. c \in Conns BY DEF TypeOK
<1>2. /\ held' = [held EXCEPT ![r] = None]
      /\ pool' = [pool EXCEPT ![c] = IF broken THEN "idle" ELSE "resetting"]
      /\ sess' = [sess EXCEPT ![c] = IF kept /\ ~broken THEN @ ELSE None]
  BY DEF GiveBack
<1>3. \A q \in Requests : aux[q] # c /\ (q # r => held[q] # c)
  BY DEF PoolInv
<1> HIDE DEF c
<1>4. \A q \in Requests :
        /\ held'[q] # None => pool'[held'[q]] = "lent"
        /\ aux'[q] # None => pool'[aux'[q]] = "lent" /\ sess'[aux'[q]] = None
  BY <1>1, <1>2, <1>3 DEF PoolInv, TypeOK
<1>5. \A d \in Conns : pool'[d] = "lent" => \E q \in Requests : held'[q] = d \/ aux'[q] = d
  <2> SUFFICES ASSUME NEW d \in Conns, pool'[d] = "lent"
               PROVE  \E q \in Requests : held'[q] = d \/ aux'[q] = d
    OBVIOUS
  <2>1. d # c /\ pool[d] = "lent" BY <1>1, <1>2 DEF TypeOK
  <2>2. PICK q \in Requests : held[q] = d \/ aux[q] = d BY <2>1 DEF PoolInv
  <2>3. held[q] = d => q # r BY <2>1 DEF c
  <2>4. QED BY <1>2, <2>2, <2>3 DEF TypeOK
<1>6. \A p, q \in Requests :
        /\ p # q /\ held'[p] # None => held'[p] # held'[q]
        /\ held'[p] # None => held'[p] # aux'[q]
        /\ p # q /\ aux'[p] # None => aux'[p] # aux'[q]
  BY <1>2 DEF PoolInv, TypeOK
<1>7. \A d \in Conns : pool'[d] = "idle" => sess'[d] = None
  BY <1>1, <1>2 DEF PoolInv, TypeOK
<1>8. QED BY <1>4, <1>5, <1>6, <1>7 DEF PoolInv

\* Every end of COMMIT gives the connection back.
LEMMA PoolCommit ==
    ASSUME TypeOK, PoolInv, NEW r \in Requests, held[r] # None, aux' = aux,
           Committed(r) \/ CommitUndone(r) \/ CommitInDoubt(r)
    PROVE  PoolInv'
<1>1. features.daemon \in BOOLEAN /\ features.local \in BOOLEAN BY FeaturesAreFlags
<1>2. \E broken, kept \in BOOLEAN : GiveBack(r, broken, kept)
  BY <1>1 DEF Committed, CommitUndone, CommitInDoubt
<1>3. QED BY <1>2, PoolGiveBack

\* A rollback does, when there is a transaction.
LEMMA PoolRollback ==
    ASSUME TypeOK, PoolInv, NEW r \in Requests, aux' = aux, Rollback(r)
    PROVE  PoolInv'
<1>1. CASE held[r] = None BY <1>1, PoolSame DEF Rollback, txVars, poolVars
<1>2. CASE held[r] # None
  <2>1. GiveBack(r, tx[r] = "lost", FALSE) BY <1>2 DEF Rollback
  <2>2. (tx[r] = "lost") \in BOOLEAN OBVIOUS
  <2>3. QED BY <1>2, <2>1, <2>2, PoolGiveBack
<1>3. QED BY <1>1, <1>2

\* A lookup takes a connection nobody holds.
LEMMA PoolLookupStart ==
    ASSUME TypeOK, PoolInv, NEW r \in Requests, LookupStart(r)
    PROVE  PoolInv'
<1>1. PICK c \in Conns : /\ pool[c] = "idle"
                         /\ pool' = [pool EXCEPT ![c] = "lent"]
                         /\ aux' = [aux EXCEPT ![r] = c]
  BY DEF LookupStart
<1>2. \A q \in Requests : held[q] # c /\ aux[q] # c
  BY <1>1, RequestTxAssumption DEF PoolInv
<1>3. held' = held /\ sess' = sess /\ aux[r] = None BY DEF LookupStart, txVars
<1>4. QED BY <1>1, <1>2, <1>3, RequestTxAssumption DEF PoolInv, TypeOK

\* A lookup that ends gives it back without a session.
LEMMA PoolLookupEnd ==
    ASSUME TypeOK, PoolInv, NEW r \in Requests, LookupDone(r) \/ LookupTimeout(r)
    PROVE  PoolInv'
<1>1. held' = held /\ sess' = sess /\ aux' = [aux EXCEPT ![r] = None]
  BY DEF LookupDone, LookupTimeout, txVars
<1>2. CASE aux[r] = None
  <2>1. aux' = aux BY <1>1, <1>2 DEF TypeOK
  <2>2. pool' = pool BY <1>2 DEF LookupDone, LookupTimeout
  <2>3. QED BY <1>1, <2>1, <2>2, PoolSame
<1>3. CASE aux[r] # None
  <2>1. PICK w \in {"idle", "resetting"} : pool' = [pool EXCEPT ![aux[r]] = w]
    BY <1>3 DEF LookupDone, LookupTimeout
  <2>2. aux[r] \in Conns /\ sess[aux[r]] = None BY <1>3 DEF TypeOK, PoolInv
  <2>3. QED BY <1>1, <1>3, <2>1, <2>2 DEF PoolInv, TypeOK
<1>4. QED BY <1>2, <1>3

\* No step of Do shares or loses a connection.
LEMMA PoolStep ==
    ASSUME TypeOK, PoolInv, NEW r \in Requests, Stage(r), Step(r)
    PROVE  PoolInv'
<1> USE DEF Stage, Holding, At, InTx, NoTx
<1>1. CASE Begin(r) \/ Fresh(r)
  <2>1. aux' = aux BY <1>1 DEF Begin, Fresh
  <2>2. held[r] = None BY <1>1 DEF Begin, Fresh
  <2>3. \E c \in Conns : Lend(r, c) BY <1>1 DEF Begin, Fresh
  <2>4. QED BY <2>1, <2>2, <2>3, PoolLend
<1>2. CASE Authorize(r)
  <2>1. held[r] # None BY <1>2 DEF Authorize
  <2>2. held' = held /\ aux' = aux /\ pool' = pool /\ sess' = [sess EXCEPT ![held[r]] = r]
    BY <1>2 DEF Authorize
  <2>3. QED BY <2>1, <2>2 DEF PoolInv, TypeOK
<1>3. CASE \/ BeginFails(r) \/ AuthorizeRefuses(r) \/ AuthorizeFails(r) \/ Savepoint(r)
           \/ HandlerSucceeds(r) \/ HandlerRefuses(r) \/ FreshFails(r) \/ Undo(r)
           \/ JournalRefusal(r) \/ Salvage(r) \/ LogSuccess(r)
  <2>1. held' = held /\ aux' = aux /\ pool' = pool /\ sess' = sess
    BY <1>3 DEF BeginFails, AuthorizeRefuses, AuthorizeFails, Savepoint, HandlerSucceeds,
                HandlerRefuses, FreshFails, Undo, JournalRefusal, Salvage, LogSuccess,
                txVars, poolVars
  <2>2. QED BY <2>1, PoolSame
<1>4. CASE LookupStart(r) BY <1>4, PoolLookupStart
<1>5. CASE LookupDone(r) \/ LookupTimeout(r) BY <1>5, PoolLookupEnd
<1>6. CASE Discard(r) \/ Return(r)
  BY <1>6, PoolRollback DEF Discard, Return
<1>7. CASE CommitRefusal(r) \/ CommitRefused(r) \/ CommitLine(r) \/ Commit(r)
  <2>1. aux' = aux BY <1>7 DEF CommitRefusal, CommitRefused, CommitLine, Commit
  <2>2. held[r] # None BY <1>7 DEF CommitRefusal, CommitRefused, CommitLine, Commit
  <2>3. Committed(r) \/ CommitUndone(r) \/ CommitInDoubt(r)
    BY <1>7 DEF CommitRefusal, CommitRefused, CommitLine, Commit, CommitFails
  <2>4. QED BY <2>1, <2>2, <2>3, PoolCommit
<1>8. QED BY <1>1, <1>2, <1>3, <1>4, <1>5, <1>6, <1>7 DEF Step

\* AfterRelease leaves what is lent alone.
LEMMA ReleaseStep ==
    ASSUME IndInv, NEW c \in Conns, AfterRelease(c)
    PROVE  IndInv'
<1>1. TypeOK' BY DEF IndInv, AfterRelease, TypeOK, reqVars, txVars, dbVars
<1>2. PoolInv'
  <2>1. held' = held /\ aux' = aux /\ pool' = [pool EXCEPT ![c] = "idle"]
        /\ sess' = [sess EXCEPT ![c] = None] /\ pool[c] = "resetting"
    BY DEF AfterRelease, reqVars, txVars
  <2>2. QED BY <2>1 DEF IndInv, PoolInv, TypeOK
<1>3. ASSUME NEW q \in Requests PROVE Stage(q)'
  <2>1. SameReq(q) /\ SameTx(q) /\ SameDb(q) /\ features' = features
    BY DEF AfterRelease, SameReq, SameTx, SameDb, reqVars, txVars, dbVars
  <2>2. held[q] # None => sess'[held[q]] = sess[held[q]]
    BY DEF AfterRelease, IndInv, PoolInv, TypeOK
  <2>3. QED BY <2>1, <2>2, StageFrame DEF IndInv
<1>4. QED BY <1>1, <1>2, <1>3 DEF IndInv

\* A client that hangs up changes no stage.
LEMMA HangUpStep ==
    ASSUME IndInv, NEW r \in Requests, HangUp(r)
    PROVE  IndInv'
<1>1. TypeOK'
  BY DEF IndInv, HangUp, TypeOK, txVars, poolVars, dbVars
<1>2. PoolInv' BY PoolSame DEF IndInv, HangUp, txVars, poolVars
<1>3. ASSUME NEW q \in Requests PROVE Stage(q)'
  <2>1. SameReq(q) /\ SameTx(q) /\ SameDb(q) /\ features' = features /\ sess' = sess
    BY DEF HangUp, SameReq, SameTx, SameDb, txVars, dbVars, poolVars
  <2>2. QED BY <2>1, StageFrame DEF IndInv
<1>4. QED BY <1>1, <1>2, <1>3 DEF IndInv

\* A call of Do enters its first stage.
LEMMA StartStep ==
    ASSUME IndInv, NEW r \in Requests, Start(r)
    PROVE  IndInv'
<1>1. TypeOK'
  BY DEF IndInv, Start, Goto, PCs, TypeOK, txVars, poolVars, dbVars
<1>2. PoolInv' BY PoolSame DEF IndInv, Start, txVars, poolVars
<1>3. ASSUME NEW q \in Requests, q # r PROVE Stage(q)'
  <2>1. SameReq(q) /\ SameTx(q) /\ SameDb(q) /\ features' = features /\ sess' = sess
    BY <1>3 DEF Start, Goto, SameReq, SameTx, SameDb, txVars, dbVars, poolVars, IndInv, TypeOK
  <2>2. QED BY <2>1, StageFrame DEF IndInv
<1>4. Stage(r)'
  <2>1. /\ pc[r] = "idle" /\ pc'[r] = "begin" /\ logId'[r] = FALSE /\ Stage(r)
        /\ UNCHANGED <<features, verdict, cont, asks, aux, txVars, poolVars, dbVars>>
    BY DEF Start, Goto, IndInv, TypeOK
  <2>2. QED
    BY <2>1 DEF Stage, Holding, Before, Refusing, Durably, Nothing, Succeeded, RefusalRow, At,
                InTx, NoTx, NoLine, txVars, dbVars, poolVars
<1>5. QED BY <1>1, <1>2, <1>3, <1>4 DEF IndInv

-----------------------------------------------------------------------------
(* The stage of the request that takes a step.                             *)

\* What the end of a transaction does to its request.
LEMMA GiveBackAt ==
    ASSUME TypeOK, NEW r \in Requests, NEW broken, NEW kept, GiveBack(r, broken, kept)
    PROVE  held'[r] = None /\ tx'[r] = "none" /\ work'[r] = FALSE /\ line'[r] = NoLine
BY DEF TypeOK, GiveBack

\* What a commit makes of its own request.
LEMMA DurableAt ==
    ASSUME TypeOK, NEW r \in Requests, Durable(r)
    PROVE  /\ r \in done' <=> (r \in done \/ work[r])
           /\ line[r] = NoLine => rows'[r] = rows[r] /\ row'[r] = row[r]
           /\ line[r] # NoLine => rows'[r] = rows[r] + 1 /\ row'[r] = line[r]
BY DEF TypeOK, Durable

Gone(r) == held'[r] = None /\ tx'[r] = "none" /\ ~work'[r] /\ line'[r] = NoLine

\* The three ends of a commit: undone, durable, or durable without pgx knowing.
Kept(r) == rows'[r] = rows[r] /\ row'[r] = row[r] /\ (r \in done' <=> r \in done)
Made(r) ==
    /\ r \in done' <=> (r \in done \/ work[r])
    /\ line[r] = NoLine => rows'[r] = rows[r] /\ row'[r] = row[r]
    /\ line[r] # NoLine => rows'[r] = rows[r] + 1 /\ row'[r] = line[r]

\* COMMIT answered: the transaction is gone and what it held is durable.
LEMMA CommittedAt ==
    ASSUME TypeOK, NEW r \in Requests, Committed(r)
    PROVE  Gone(r) /\ Made(r) /\ doubt'[r] = doubt[r]
BY GiveBackAt, DurableAt DEF Committed, Gone, Made

\* COMMIT failed and was undone: the transaction is gone, nothing is durable.
LEMMA UndoneAt ==
    ASSUME TypeOK, NEW r \in Requests, CommitUndone(r)
    PROVE  Gone(r) /\ Kept(r) /\ doubt'[r] = doubt[r]
BY GiveBackAt DEF CommitUndone, dbVars, Gone, Kept

\* COMMIT was made and its answer lost: durable, and in doubt.
LEMMA InDoubtAt ==
    ASSUME TypeOK, NEW r \in Requests, CommitInDoubt(r)
    PROVE  Gone(r) /\ Made(r) /\ doubt'[r] = TRUE
<1>1. doubt'[r] = TRUE BY DEF CommitInDoubt, TypeOK
<1>2. QED BY <1>1, GiveBackAt, DurableAt DEF CommitInDoubt, Gone, Made

\* After a rollback the transaction is gone and nothing is durable.
LEMMA RollbackAt ==
    ASSUME TypeOK, NEW r \in Requests, Holding(r), Rollback(r)
    PROVE  Gone(r) /\ Kept(r) /\ doubt'[r] = doubt[r]
<1>1. CASE held[r] = None
  BY <1>1 DEF Holding, Rollback, txVars, dbVars, Gone, Kept
<1>2. CASE held[r] # None
  BY <1>2, GiveBackAt DEF Rollback, dbVars, Gone, Kept
<1>3. QED BY <1>1, <1>2

\* explain ends where it was told to, with a problem.
LEMMA ExplainAt ==
    ASSUME TypeOK, NEW r \in Requests, NEW kind, NEW where \in {"undo", "discard", "return"},
           Explain(r, kind, where), pc[r] # "lookup"
    PROVE  /\ At(r)' = where
           /\ verdict'[r] # "ok"
           /\ pc'[r] = "lookup" => asks'[r] >= 1
BY FeaturesAreFlags DEF TypeOK, Explain, Verdict, Goto, At

\* BEGIN opens a transaction without a session, as lent.
LEMMA StageBegin ==
    ASSUME TypeOK, PoolInv, NEW r \in Requests, Stage(r), Begin(r), features' = features
    PROVE  Stage(r)'
<1>1. PICK c \in Conns : Lend(r, c) BY DEF Begin
<1>2. /\ held'[r] = c /\ tx'[r] = "active" /\ work'[r] = work[r] /\ line'[r] = line[r]
      /\ pc[r] = "begin" /\ pc'[r] = "authorize" /\ sess'[c] = None /\ c # None
      /\ UNCHANGED <<verdict, logId, cont, asks, aux, dbVars>>
  BY <1>1, RequestTxAssumption DEF Begin, Lend, Goto, PoolInv, TypeOK
<1>3. QED
  BY <1>2 DEF Stage, Holding, Before, Refusing, Durably, Nothing, At, InTx, NoTx, NoLine, dbVars

\* daemon.begin or authorize answered: the session is set, or refused.
LEMMA StageAuthorize ==
    ASSUME TypeOK, PoolInv, NEW r \in Requests, Stage(r), features' = features,
           Authorize(r) \/ AuthorizeRefuses(r)
    PROVE  Stage(r)'
<1>0. pc[r] = "authorize" BY DEF Authorize, AuthorizeRefuses
<1>1. held[r] # None /\ held[r] \in Conns
  BY <1>0 DEF Stage, Holding, At, InTx, TypeOK
<1>2. CASE Authorize(r)
  <2>1. /\ sess'[held[r]] = r /\ line'[r] = BaseLine(r)
        /\ pc[r] = "authorize" /\ pc'[r] = IF Journals THEN "savepoint" ELSE "handler"
        /\ UNCHANGED <<verdict, logId, cont, asks, aux, held, tx, work, dbVars>>
    BY <1>1, <1>2 DEF Authorize, Goto, TypeOK, BaseLine, Stage, Before, At
  <2>2. QED
    BY <2>1, FeaturesAreFlags DEF Stage, Holding, Before, Refusing, Durably, Nothing, At, InTx, NoTx, NoLine,
                dbVars, BaseLine, Journals
<1>3. CASE AuthorizeRefuses(r)
  <2>1. /\ line'[r] = IF features.daemon THEN [status |-> "refused", by |-> None] ELSE NoLine
        /\ pc[r] = "authorize" /\ verdict'[r] = "refused"
        /\ pc'[r] = IF features.daemon THEN "refused"
                    ELSE IF features.journal THEN "journal" ELSE "return"
        /\ UNCHANGED <<logId, cont, asks, aux, held, tx, work, poolVars, dbVars>>
    BY <1>1, <1>3 DEF AuthorizeRefuses, Goto, TypeOK, Stage, Before, At
  <2>2. QED
    BY <1>1, <2>1, FeaturesAreFlags DEF Stage, Holding, Before, Refusing, Durably, Nothing, At, InTx, NoTx, NoLine,
                dbVars, poolVars, BaseLine, Journals
<1>4. QED BY <1>2, <1>3

\* It failed: the transaction is still there to be discarded.
LEMMA StageAuthorizeFails ==
    ASSUME TypeOK, NEW r \in Requests, Stage(r), AuthorizeFails(r), features' = features
    PROVE  Stage(r)'
<1>1. PICK f \in Failures(r, TRUE) :
        /\ tx' = [tx EXCEPT ![r] = f.tx]
        /\ IF features.daemon
             THEN Internal(r) /\ UNCHANGED <<asks, cont>>
             ELSE Explain(r, f.kind, IF features.journal THEN "discard" ELSE "return")
  BY DEF AuthorizeFails
<1>2. /\ pc[r] = "authorize" /\ tx'[r] # "none" /\ held[r] # None
      /\ UNCHANGED <<logId, aux, held, work, line, poolVars, dbVars>>
  BY <1>1 DEF AuthorizeFails, Failures, TypeOK, Stage, Holding, Before, At, InTx
<1>3. /\ At(r)' = IF ~features.daemon /\ features.journal THEN "discard" ELSE "return"
      /\ verdict'[r] # "ok"
      /\ pc'[r] = "lookup" => asks'[r] >= 1
  <2>1. CASE features.daemon
    BY <1>1, <1>2, <2>1 DEF Internal, Goto, At, TypeOK
  <2>2. CASE ~features.daemon
    BY <1>1, <1>2, <2>2, ExplainAt
  <2>3. QED BY <2>1, <2>2
<1>4. aux[r] = None BY <1>2 DEF Stage, Holding
<1>5. QED
  BY <1>2, <1>3, <1>4, FeaturesAreFlags
     DEF Stage, Holding, Before, Refusing, Durably, Nothing, At, InTx, NoTx, NoLine, dbVars,
         poolVars, Journals

\* SAVEPOINT leaves the transaction as it was, or the request at a 500.
LEMMA StageSavepoint ==
    ASSUME TypeOK, NEW r \in Requests, Stage(r), Savepoint(r), features' = features
    PROVE  Stage(r)'
<1>1. /\ pc[r] = "savepoint"
      /\ UNCHANGED <<logId, cont, asks, aux, held, work, line, poolVars, dbVars>>
  BY DEF Savepoint
<1>2. held[r] # None BY <1>1 DEF Stage, Holding, At, InTx
<1>3. CASE pc'[r] = "handler" /\ UNCHANGED <<verdict, tx>>
  BY <1>1, <1>2, <1>3
     DEF Stage, Holding, Before, Refusing, Durably, Nothing, At, InTx, NoTx, NoLine, dbVars,
         poolVars, BaseLine, Journals
<1>4. CASE pc'[r] = "return" /\ verdict'[r] = "internal" /\ tx'[r] # "none"
  BY <1>1, <1>2, <1>4
     DEF Stage, Holding, Before, Refusing, Durably, Nothing, At, InTx, NoTx, NoLine, dbVars,
         poolVars, BaseLine, Journals
<1>5. QED
  <2>1. \A f \in Failures(r, TRUE) : f.tx # "none"
    BY <1>1, <1>2 DEF Failures, Stage, Holding
  <2>2. CASE Goto(r, "handler") /\ UNCHANGED <<verdict, tx>>
    BY <1>3, <2>2 DEF Goto, TypeOK
  <2>3. ASSUME NEW f \in Failures(r, TRUE), tx' = [tx EXCEPT ![r] = f.tx], Internal(r)
        PROVE  Stage(r)'
    <3>1. pc'[r] = "return" /\ verdict'[r] = "internal" BY <2>3 DEF Internal, Goto, TypeOK
    <3>2. tx'[r] = f.tx BY <2>3 DEF TypeOK
    <3>3. QED BY <1>4, <2>1, <3>1, <3>2
  <2>4. QED BY <2>2, <2>3 DEF Savepoint

\* The handler's work is in the transaction, unless that was aborted.
LEMMA StageHandlerSucceeds ==
    ASSUME TypeOK, NEW r \in Requests, Stage(r), HandlerSucceeds(r), features' = features
    PROVE  Stage(r)'
<1>0. PICK t \in {"active", "aborted", "lost"} :
        /\ tx' = [tx EXCEPT ![r] = t]
        /\ work' = [work EXCEPT ![r] = t = "active"]
  BY DEF HandlerSucceeds
<1>a. tx'[r] = t /\ work'[r] = (t = "active") BY <1>0 DEF TypeOK
<1>b. pc'[r] = IF Journals THEN "log" ELSE "commit" BY DEF HandlerSucceeds, Goto, TypeOK
<1>1. /\ pc[r] = "handler" /\ pc'[r] = IF Journals THEN "log" ELSE "commit"
      /\ tx'[r] # "none" /\ work'[r] = (tx'[r] = "active")
      /\ UNCHANGED <<verdict, logId, cont, asks, aux, held, line, poolVars, dbVars>>
  BY <1>a, <1>b DEF HandlerSucceeds
<1>2. held[r] # None BY <1>1 DEF Stage, Holding, At, InTx
<1>3. ~Journals => line[r] = NoLine BY <1>1 DEF Stage, Before, At, BaseLine, Journals
<1>4. Holding(r)' /\ Refusing(r)'
  BY <1>1, <1>2, <1>3, FeaturesAreFlags
     DEF Stage, Holding, Refusing, At, InTx, NoTx, NoLine, Journals
<1>5. Before(r)'
  BY <1>1, <1>2, <1>3, FeaturesAreFlags
     DEF Stage, Before, At, NoLine, poolVars, BaseLine, Journals
<1>6. Durably(r)'
  <2>1. Nothing(r) /\ logId[r] \in BOOLEAN BY <1>1 DEF Stage, Durably, At, InTx, NoTx, TypeOK
  <2>2. Nothing(r)' BY <1>1, <2>1 DEF Nothing, dbVars, NoLine
  <2>3. pc'[r] = "commit" => ~Journals' /\ ~logId'[r]
    BY <1>1, <2>1, FeaturesAreFlags DEF Nothing, Journals
  <2>4. Journals' \in BOOLEAN /\ logId'[r] \in BOOLEAN
    BY <1>1, <2>1, FeaturesAreFlags DEF Journals
  <2>5. QED BY <1>1, <2>2, <2>3, <2>4 DEF Durably, Nothing, At
<1>7. QED BY <1>4, <1>5, <1>6 DEF Stage

\* A refusal keeps the transaction open to be undone and journalled.
LEMMA StageHandlerRefuses ==
    ASSUME TypeOK, NEW r \in Requests, Stage(r), HandlerRefuses(r), features' = features
    PROVE  Stage(r)'
<1>1. /\ pc[r] = "handler" /\ tx'[r] # "none"
      /\ UNCHANGED <<logId, aux, held, line, poolVars, dbVars>>
  BY DEF HandlerRefuses, TypeOK
<1>2. held[r] # None /\ aux[r] = None BY <1>1 DEF Stage, Holding, At, InTx
<1>3. /\ At(r)' = IF Journals THEN "undo" ELSE "return"
      /\ verdict'[r] # "ok"
      /\ pc'[r] = "lookup" => asks'[r] >= 1
  BY <1>1, ExplainAt DEF HandlerRefuses
<1>4. QED
  BY <1>1, <1>2, <1>3, FeaturesAreFlags
     DEF Stage, Holding, Before, Refusing, Durably, Nothing, At, InTx, NoTx, NoLine, dbVars,
         poolVars, BaseLine, Journals

\* The catalogue queries change only where explain stands.
LEMMA StageLookup ==
    ASSUME TypeOK, PoolInv, NEW r \in Requests, Stage(r), features' = features,
           LookupStart(r) \/ LookupDone(r) \/ LookupTimeout(r)
    PROVE  Stage(r)'
<1>1. /\ pc[r] = "lookup"
      /\ UNCHANGED <<verdict, logId, cont, txVars, sess, dbVars>>
  BY DEF LookupStart, LookupDone, LookupTimeout
<1>2. /\ pc'[r] \in {"lookup", cont[r]}
      /\ aux'[r] # None => pc'[r] = "lookup"
      /\ pc'[r] = "lookup" => asks'[r] >= 1
      /\ cont[r] # "lookup"
  <2>1. CASE LookupStart(r)
    BY <1>1, <2>1 DEF LookupStart, TypeOK, Stage, Holding
  <2>2. CASE LookupDone(r) \/ LookupTimeout(r)
    BY <1>1, <2>2 DEF LookupDone, LookupTimeout, Goto, TypeOK, Stage, Holding
  <2>3. QED BY <2>1, <2>2
<1>3. At(r)' = At(r) BY <1>1, <1>2 DEF At
<1>4. Journals' = Journals /\ BaseLine(r)' = BaseLine(r) BY DEF Journals, BaseLine, NoLine
<1>5. Holding(r)' BY <1>1, <1>2, <1>3 DEF Stage, Holding, txVars, NoLine
<1>6. Before(r)' /\ Refusing(r)'
  BY <1>1, <1>3, <1>4 DEF Stage, Before, Refusing, txVars, NoLine
<1>7. Durably(r)'
  BY <1>1, <1>3, <1>4 DEF Stage, Durably, Nothing, Succeeded, RefusalRow, txVars, dbVars, NoLine
<1>8. QED BY <1>5, <1>6, <1>7 DEF Stage

\* A statement that cannot be journalled or begun leaves nothing behind.
LEMMA StageBeginFails ==
    ASSUME TypeOK, NEW r \in Requests, Stage(r), BeginFails(r) \/ FreshFails(r),
           features' = features
    PROVE  Stage(r)'
<1>1. /\ pc[r] \in {"begin", "fresh"} /\ pc'[r] = "return" /\ verdict'[r] # "ok"
      /\ UNCHANGED <<logId, cont, asks, aux, txVars, poolVars, dbVars>>
  BY DEF BeginFails, FreshFails, Internal, Goto, TypeOK, Stage, Refusing, At
<1>2. QED
  BY <1>1
     DEF Stage, Holding, Before, Refusing, Durably, Nothing, At, InTx, NoTx, NoLine, dbVars,
         poolVars, txVars, Journals

\* The fresh transaction of a direct-road refusal has no session.
LEMMA StageFresh ==
    ASSUME TypeOK, PoolInv, NEW r \in Requests, Stage(r), Fresh(r), features' = features
    PROVE  Stage(r)'
<1>1. PICK c \in Conns : Lend(r, c) BY DEF Fresh
<1>2. /\ held'[r] = c /\ tx'[r] = "active" /\ work'[r] = work[r] /\ line'[r] = line[r]
      /\ pc[r] = "fresh" /\ pc'[r] = "journal" /\ sess'[c] = None /\ c # None
      /\ UNCHANGED <<verdict, logId, cont, asks, aux, dbVars>>
  BY <1>1, RequestTxAssumption DEF Fresh, Lend, Goto, PoolInv, TypeOK
<1>3. QED
  BY <1>2 DEF Stage, Holding, Before, Refusing, Durably, Nothing, At, InTx, NoTx, NoLine, dbVars,
              BaseLine, Journals

\* The aborted transaction is gone before a fresh one is asked for.
LEMMA StageDiscard ==
    ASSUME TypeOK, NEW r \in Requests, Stage(r), Discard(r), features' = features
    PROVE  Stage(r)'
<1>1. Gone(r) /\ Kept(r) /\ doubt'[r] = doubt[r]
  BY RollbackAt DEF Discard, Stage
<1>2. /\ pc[r] = "discard" /\ pc'[r] = "fresh"
      /\ UNCHANGED <<verdict, logId, cont, asks, aux>>
  BY DEF Discard, Goto, TypeOK
<1>3. QED
  BY <1>1, <1>2
     DEF Stage, Holding, Before, Refusing, Durably, Nothing, At, InTx, NoTx, NoLine, Gone, Kept,
         Journals

\* Back at the savepoint no work is left, and begin's line is.
LEMMA StageUndo ==
    ASSUME TypeOK, NEW r \in Requests, Stage(r), Undo(r), features' = features
    PROVE  Stage(r)'
<1>1. /\ pc[r] = "undo"
      /\ UNCHANGED <<verdict, logId, cont, asks, aux, held, poolVars, dbVars>>
  BY DEF Undo
<1>2. held[r] # None BY <1>1 DEF Stage, Holding, At, InTx
<1>3. CASE ToSavepoint(r) /\ Goto(r, "journal")
  <2>1. /\ tx'[r] = "active" /\ ~work'[r] /\ line'[r] = BaseLine(r) /\ pc'[r] = "journal"
    BY <1>3 DEF ToSavepoint, Goto, TypeOK, BaseLine
  <2>2. QED
    BY <1>1, <1>2, <2>1
       DEF Stage, Holding, Before, Refusing, Durably, Nothing, At, InTx, NoTx, NoLine, dbVars,
           poolVars, BaseLine, Journals
<1>4. CASE tx' = [tx EXCEPT ![r] = "lost"] /\ Goto(r, "return") /\ UNCHANGED <<work, line>>
  <2>1. tx'[r] = "lost" /\ pc'[r] = "return" BY <1>4 DEF Goto, TypeOK
  <2>2. QED
    BY <1>1, <1>2, <1>4, <2>1
       DEF Stage, Holding, Before, Refusing, Durably, Nothing, At, InTx, NoTx, NoLine, dbVars,
           poolVars, BaseLine, Journals
<1>5. QED BY <1>3, <1>4 DEF Undo

\* So it is when the journal is salvaged.
LEMMA StageSalvage ==
    ASSUME TypeOK, NEW r \in Requests, Stage(r), Salvage(r), features' = features
    PROVE  Stage(r)'
<1>1. /\ pc[r] = "salvage"
      /\ UNCHANGED <<verdict, logId, cont, asks, aux, held, poolVars, dbVars>>
  BY DEF Salvage
<1>2. held[r] # None BY <1>1 DEF Stage, Holding, At, InTx
<1>3. CASE ToSavepoint(r) /\ Goto(r, "commitLine")
  <2>1. /\ tx'[r] = "active" /\ ~work'[r] /\ line'[r] = BaseLine(r) /\ pc'[r] = "commitLine"
    BY <1>3 DEF ToSavepoint, Goto, TypeOK, BaseLine
  <2>2. QED
    BY <1>1, <1>2, <2>1
       DEF Stage, Holding, Before, Refusing, Durably, Nothing, At, InTx, NoTx, NoLine, dbVars,
           poolVars, BaseLine, Journals
<1>4. CASE tx' = [tx EXCEPT ![r] = "lost"] /\ Goto(r, "return") /\ UNCHANGED <<work, line>>
  <2>1. tx'[r] = "lost" /\ pc'[r] = "return" BY <1>4 DEF Goto, TypeOK
  <2>2. QED
    BY <1>1, <1>2, <1>4, <2>1
       DEF Stage, Holding, Before, Refusing, Durably, Nothing, At, InTx, NoTx, NoLine, dbVars,
           poolVars, BaseLine, Journals
<1>5. QED BY <1>3, <1>4 DEF Salvage

\* The row of the refusal has the status the client is told.
LEMMA StageJournalRefusal ==
    ASSUME TypeOK, NEW r \in Requests, Stage(r), JournalRefusal(r), features' = features
    PROVE  Stage(r)'
<1>1. /\ pc[r] = "journal"
      /\ UNCHANGED <<verdict, cont, asks, aux, held, work, poolVars, dbVars>>
  BY DEF JournalRefusal
<1>2. /\ held[r] # None /\ held[r] \in Conns /\ tx[r] = "active" /\ ~work[r]
      /\ line[r] = BaseLine(r) /\ verdict[r] # "ok" /\ Nothing(r) /\ Journals
      /\ aux[r] = None /\ sess[held[r]] \in {r, None}
  BY <1>1 DEF Stage, Holding, Refusing, Durably, At, InTx, NoTx, TypeOK
<1>3. CASE WriteLine(r, verdict[r]) /\ Goto(r, "commitRefusal") /\ UNCHANGED tx
  <2>1. pc'[r] = "commitRefusal" /\ logId'[r] /\ tx'[r] = "active" BY <1>2, <1>3 DEF WriteLine, Goto, TypeOK
  <2>2. line'[r].status = verdict[r] /\ line'[r].by \in {r, None}
    <3>1. CASE features.daemon
      BY <1>2, <1>3, <3>1 DEF WriteLine, TypeOK, BaseLine
    <3>2. CASE ~features.daemon
      BY <1>2, <1>3, <3>2 DEF WriteLine, TypeOK
    <3>3. QED BY <3>1, <3>2
  <2>3. Journals' /\ Journals' \in BOOLEAN BY <1>2, FeaturesAreFlags DEF Journals
  <2>4. Durably(r)'
    <3>1. logId'[r] = Journals' BY <2>1, <2>3, <1>3 DEF WriteLine, TypeOK
    <3>2. QED BY <1>1, <1>2, <2>1, <3>1 DEF Durably, Nothing, At, dbVars, InTx, NoTx, NoLine
  <2>5. QED
    BY <1>1, <1>2, <2>1, <2>2, <2>3, <2>4 DEF Stage, Holding, Before, Refusing, At, InTx, NoTx, NoLine
<1>4. CASE \E f \in Failures(r, FALSE) :
            /\ tx' = [tx EXCEPT ![r] = f.tx]
            /\ logId' = [logId EXCEPT ![r] = FALSE]
            /\ Goto(r, IF features.daemon THEN "salvage" ELSE "return")
            /\ UNCHANGED line
  <2>1. \A f \in Failures(r, FALSE) : f.tx # "none"
    BY <1>2 DEF Failures
  <2>2. /\ tx'[r] # "none" /\ ~logId'[r] /\ UNCHANGED line
        /\ pc'[r] = IF features.daemon THEN "salvage" ELSE "return"
    <3>1. PICK f \in Failures(r, FALSE) : tx' = [tx EXCEPT ![r] = f.tx] BY <1>4
    <3>2. tx'[r] # "none" BY <2>1, <3>1 DEF TypeOK
    <3>3. logId'[r] = FALSE BY <1>4 DEF TypeOK
    <3>4. pc'[r] = IF features.daemon THEN "salvage" ELSE "return"
      <4>1. Goto(r, IF features.daemon THEN "salvage" ELSE "return") BY <1>4
      <4>2. QED BY <4>1 DEF Goto, TypeOK
    <3>5. QED BY <1>4, <3>2, <3>3, <3>4
  <2>3. QED
    BY <1>1, <1>2, <2>2, FeaturesAreFlags
       DEF Stage, Holding, Before, Refusing, Durably, Nothing, At, InTx, NoTx, NoLine, dbVars,
           BaseLine, Journals
<1>5. QED BY <1>3, <1>4 DEF JournalRefusal

\* How a commit ends, for the request that made it.
LEMMA CommitFailsAt ==
    ASSUME TypeOK, NEW r \in Requests, CommitFails(r)
    PROVE  Gone(r) /\ ((Kept(r) /\ doubt'[r] = doubt[r]) \/ (Made(r) /\ doubt'[r] = TRUE))
<1>1. CASE CommitUndone(r) BY <1>1, UndoneAt
<1>2. CASE CommitInDoubt(r) BY <1>2, InDoubtAt
<1>3. QED BY <1>1, <1>2 DEF CommitFails

\* The refusal's commit leaves its row alone durable, or nothing.
LEMMA StageCommitRefusal ==
    ASSUME TypeOK, NEW r \in Requests, Stage(r), CommitRefusal(r), features' = features
    PROVE  Stage(r)'
<1>1. /\ pc[r] = "commitRefusal" /\ pc'[r] = "return"
      /\ UNCHANGED <<verdict, cont, asks, aux>>
  BY DEF CommitRefusal, Goto, TypeOK
<1>2. /\ verdict[r] # "ok" /\ ~work[r] /\ aux[r] = None
      /\ line[r].status = verdict[r] /\ line[r].by \in {r, None}
      /\ rows[r] = 0 /\ row[r] = NoLine /\ r \notin done /\ ~doubt[r]
  BY <1>1 DEF Stage, Holding, Refusing, Durably, At
<1>3. line[r] # NoLine /\ line[r].status # "ok" BY <1>2 DEF TypeOK, NoLine
<1>4. Gone(r)
  BY CommittedAt, CommitFailsAt DEF CommitRefusal
<1>5. (Nothing(r) /\ verdict[r] # "ok")' \/ RefusalRow(r)'
  <2>1. CASE Made(r)
    BY <1>1, <1>2, <1>3, <2>1 DEF Made, RefusalRow
  <2>2. CASE Kept(r) /\ doubt'[r] = doubt[r] /\ logId' = [logId EXCEPT ![r] = FALSE]
    BY <1>1, <1>2, <2>2 DEF Kept, Nothing, TypeOK, NoLine
  <2>3. QED BY <2>1, <2>2, CommittedAt, CommitFailsAt DEF CommitRefusal
<1>6. QED
  BY <1>1, <1>2, <1>4, <1>5
     DEF Stage, Holding, Before, Refusing, Durably, At, InTx, NoTx, NoLine, Gone

\* So does the commit of begin's line.
LEMMA StageCommitLine ==
    ASSUME TypeOK, NEW r \in Requests, Stage(r), CommitLine(r), features' = features
    PROVE  Stage(r)'
<1>1. /\ pc[r] = "commitLine" /\ pc'[r] = "return"
      /\ UNCHANGED <<verdict, logId, cont, asks, aux>>
  BY DEF CommitLine, Goto, TypeOK
<1>2. /\ verdict[r] # "ok" /\ ~work[r] /\ aux[r] = None
      /\ line[r] = [status |-> "open", by |-> r] /\ Nothing(r)
  BY <1>1 DEF Stage, Holding, Refusing, Durably, At, BaseLine, InTx, NoTx
<1>3. line[r] # NoLine BY <1>2 DEF NoLine
<1>4. Gone(r)
  BY CommittedAt, CommitFailsAt DEF CommitLine
<1>5. (Nothing(r) /\ verdict[r] # "ok")' \/ RefusalRow(r)'
  <2>1. CASE Made(r)
    BY <1>1, <1>2, <1>3, <2>1 DEF Made, RefusalRow, Nothing
  <2>2. CASE Kept(r) /\ doubt'[r] = doubt[r]
    BY <1>1, <1>2, <2>2 DEF Kept, Nothing, NoLine
  <2>3. QED BY <2>1, <2>2, CommittedAt, CommitFailsAt DEF CommitLine
<1>6. QED
  BY <1>1, <1>2, <1>4, <1>5
     DEF Stage, Holding, Before, Refusing, Durably, At, InTx, NoTx, NoLine, Gone

\* And the commit of the refusal daemon.begin wrote.
LEMMA StageCommitRefused ==
    ASSUME TypeOK, NEW r \in Requests, Stage(r), CommitRefused(r), features' = features
    PROVE  Stage(r)'
<1>1. pc[r] = "refused" /\ UNCHANGED <<logId, aux>>
  BY DEF CommitRefused
<1>2. /\ ~work[r] /\ aux[r] = None
      /\ line[r] = [status |-> "refused", by |-> None] /\ Nothing(r)
  BY <1>1 DEF Stage, Holding, Refusing, Durably, At, BaseLine, InTx, NoTx
<1>3. line[r] # NoLine BY <1>2 DEF NoLine
<1>4. /\ At(r)' = "return" /\ verdict'[r] # "ok"
      /\ pc'[r] = "lookup" => asks'[r] >= 1
  <2>1. PICK k \in {"raise", "catalogue", "internal"} : Explain(r, k, "return")
    BY DEF CommitRefused
  <2>2. QED BY <1>1, <2>1, ExplainAt
<1>5. Gone(r) /\ (Made(r) \/ (Kept(r) /\ doubt'[r] = doubt[r]))
  BY CommittedAt, CommitFailsAt DEF CommitRefused
<1>6. (Nothing(r) /\ verdict[r] # "ok")' \/ RefusalRow(r)'
  <2>1. CASE Made(r)
    BY <1>1, <1>2, <1>3, <1>4, <2>1 DEF Made, RefusalRow, Nothing
  <2>2. CASE Kept(r) /\ doubt'[r] = doubt[r]
    BY <1>1, <1>2, <1>4, <2>2 DEF Kept, Nothing, NoLine
  <2>3. QED BY <1>5, <2>1, <2>2
<1>7. QED
  BY <1>1, <1>2, <1>4, <1>5, <1>6
     DEF Stage, Holding, Before, Refusing, Durably, At, InTx, NoTx, NoLine, Gone

\* Do's deferred Rollback changes nothing durable.
LEMMA StageReturn ==
    ASSUME TypeOK, NEW r \in Requests, Stage(r), Return(r), features' = features
    PROVE  Stage(r)'
<1>1. Gone(r) /\ Kept(r) /\ doubt'[r] = doubt[r]
  BY RollbackAt DEF Return, Stage
<1>2. /\ pc[r] = "return" /\ pc'[r] = "answered"
      /\ UNCHANGED <<verdict, logId, cont, asks, aux>>
  BY DEF Return, Goto, TypeOK
<1>3. Journals' = Journals BY DEF Journals
<1>4. ((Nothing(r) /\ verdict[r] # "ok") \/ Succeeded(r) \/ RefusalRow(r))'
  BY <1>1, <1>2, <1>3 DEF Stage, Durably, Nothing, Succeeded, RefusalRow, At, Kept, NoLine
<1>5. QED
  BY <1>1, <1>2, <1>4
     DEF Stage, Holding, Before, Refusing, Durably, At, InTx, NoTx, NoLine, Gone

\* The row of a success joins the work in its transaction.
LEMMA StageLogSuccess ==
    ASSUME TypeOK, NEW r \in Requests, Stage(r), LogSuccess(r), features' = features
    PROVE  Stage(r)'
<1>1. /\ pc[r] = "log"
      /\ UNCHANGED <<aux, held, work, poolVars, dbVars>>
  BY DEF LogSuccess
<1>2. /\ held[r] # None /\ held[r] \in Conns /\ Journals /\ Nothing(r)
      /\ verdict[r] = "ok" /\ work[r] = (tx[r] = "active") /\ line[r] = BaseLine(r)
      /\ tx[r] # "none" /\ aux[r] = None /\ sess[held[r]] = r
  BY <1>1 DEF Stage, Holding, Before, Durably, At, InTx, NoTx, TypeOK
<1>3. CASE /\ Works(r, TRUE) /\ WriteLine(r, "ok") /\ Goto(r, "commit")
           /\ UNCHANGED <<tx, verdict, cont, asks>>
  <2>1. pc'[r] = "commit" /\ logId'[r] = TRUE /\ tx'[r] = "active" /\ tx[r] = "active"
    BY <1>3 DEF Works, WriteLine, Goto, TypeOK
  <2>2. line'[r] = [status |-> "ok", by |-> r]
    <3>1. CASE features.daemon
      BY <1>2, <1>3, <3>1 DEF WriteLine, TypeOK, BaseLine
    <3>2. CASE ~features.daemon
      BY <1>2, <1>3, <3>2 DEF WriteLine, TypeOK
    <3>3. QED BY <3>1, <3>2
  <2>3. Journals' /\ Journals' = TRUE BY <1>2, FeaturesAreFlags DEF Journals
  <2>4. Durably(r)'
    BY <1>1, <1>2, <2>1, <2>3 DEF Durably, Nothing, At, dbVars, InTx, NoTx, NoLine
  <2>5. Before(r)'
    BY <1>1, <1>2, <1>3, <2>1, <2>2, <2>3 DEF Before, At, InTx, NoTx, NoLine
  <2>6. QED
    BY <1>1, <1>2, <2>1, <2>4, <2>5 DEF Stage, Holding, Refusing, At, InTx, NoTx
<1>4. CASE \E f \in Failures(r, TRUE) :
            /\ tx' = [tx EXCEPT ![r] = f.tx]
            /\ logId' = [logId EXCEPT ![r] = FALSE]
            /\ IF features.daemon
                 THEN verdict' = [verdict EXCEPT ![r] = "internal"] /\ Goto(r, "salvage")
                 ELSE Explain(r, f.kind, "return")
            /\ UNCHANGED line
  <2>1. PICK f \in Failures(r, TRUE) :
            /\ tx' = [tx EXCEPT ![r] = f.tx]
            /\ logId' = [logId EXCEPT ![r] = FALSE]
            /\ IF features.daemon
                 THEN verdict' = [verdict EXCEPT ![r] = "internal"] /\ Goto(r, "salvage")
                 ELSE Explain(r, f.kind, "return")
            /\ UNCHANGED line
    BY <1>4
  <2>2. tx'[r] # "none"
    <3>1. f.tx # "none" BY <1>2 DEF Failures
    <3>2. QED BY <2>1, <3>1 DEF TypeOK
  <2>3. logId'[r] = FALSE BY <2>1 DEF TypeOK
  <2>4. Nothing(r)' BY <1>1, <1>2, <2>3 DEF Nothing, dbVars, NoLine
  <2>5. CASE features.daemon
    <3>1. pc'[r] = "salvage" /\ verdict'[r] = "internal" BY <2>1, <2>5 DEF Goto, TypeOK
    <3>2. QED
      BY <1>1, <1>2, <2>1, <2>2, <2>4, <2>5, <3>1, FeaturesAreFlags
         DEF Stage, Holding, Before, Refusing, Durably, At, InTx, NoTx, BaseLine, NoLine, Journals
  <2>6. CASE ~features.daemon
    <3>1. /\ At(r)' = "return" /\ verdict'[r] # "ok"
          /\ pc'[r] = "lookup" => asks'[r] >= 1
      BY <1>1, <2>1, <2>6, ExplainAt
    <3>2. QED
      BY <1>1, <1>2, <2>1, <2>2, <2>4, <3>1
         DEF Stage, Holding, Before, Refusing, Durably, InTx, NoTx
  <2>7. QED BY <2>5, <2>6
<1>5. QED BY <1>3, <1>4 DEF LogSuccess

\* The commit of a success makes both durable, or neither.
LEMMA StageCommit ==
    ASSUME TypeOK, NEW r \in Requests, Stage(r), Commit(r), features' = features
    PROVE  Stage(r)'
<1>1. pc[r] = "commit" /\ UNCHANGED aux
  BY DEF Commit
<1>2. /\ verdict[r] = "ok" /\ work[r] = (tx[r] = "active") /\ aux[r] = None
      /\ rows[r] = 0 /\ row[r] = NoLine /\ r \notin done /\ ~doubt[r]
      /\ logId[r] = Journals
      /\ IF Journals THEN line[r] = [status |-> "ok", by |-> r] ELSE line[r] = NoLine
  BY <1>1 DEF Stage, Holding, Before, Durably, At
<1>3. Journals' = Journals BY DEF Journals
<1>4. CASE Works(r, TRUE) /\ Committed(r) /\ Goto(r, "return") /\ UNCHANGED <<verdict, logId, cont, asks>>
  <2>1. pc'[r] = "return" BY <1>4 DEF Goto, TypeOK
  <2>2. work[r] BY <1>2, <1>4 DEF Works
  <2>3. Gone(r) /\ Made(r) /\ doubt'[r] = doubt[r] BY <1>4, CommittedAt
  <2>4. Succeeded(r)'
    BY <1>2, <1>3, <1>4, <2>2, <2>3 DEF Succeeded, Made, NoLine
  <2>5. QED
    BY <1>1, <1>2, <2>1, <2>3, <2>4
       DEF Stage, Holding, Before, Refusing, Durably, At, InTx, NoTx, NoLine, Gone
<1>5. ASSUME NEW kind, Explain(r, kind, "return"), logId' = [logId EXCEPT ![r] = FALSE],
             CommitUndone(r) \/ (Works(r, TRUE) /\ CommitInDoubt(r))
      PROVE  Stage(r)'
  <2>1. /\ At(r)' = "return" /\ verdict'[r] # "ok"
        /\ pc'[r] = "lookup" => asks'[r] >= 1
    BY <1>1, <1>5, ExplainAt
  <2>2. logId'[r] = FALSE BY <1>5 DEF TypeOK
  <2>3. Gone(r) BY <1>5, UndoneAt, InDoubtAt
  <2>4. (Nothing(r) /\ verdict[r] # "ok")' \/ Succeeded(r)'
    <3>1. CASE CommitUndone(r)
      BY <1>2, <2>1, <2>2, <3>1, UndoneAt DEF Kept, Nothing, NoLine
    <3>2. CASE Works(r, TRUE) /\ CommitInDoubt(r)
      <4>1. work[r] BY <1>2, <3>2 DEF Works
      <4>2. Made(r) /\ doubt'[r] = TRUE BY <3>2, InDoubtAt
      <4>3. QED BY <1>2, <1>3, <2>1, <2>2, <4>1, <4>2 DEF Succeeded, Made, NoLine
    <3>3. QED BY <1>5, <3>1, <3>2
  <2>5. QED
    BY <1>1, <1>2, <2>1, <2>3, <2>4
       DEF Stage, Holding, Before, Refusing, Durably, InTx, NoTx, NoLine, Gone
<1>6. QED BY <1>4, <1>5 DEF Commit

-----------------------------------------------------------------------------
(* The invariant is inductive.                                             *)

\* Every step of Do leaves its own request at a stage.
LEMMA StageStep ==
    ASSUME TypeOK, PoolInv, NEW r \in Requests, Stage(r), Step(r)
    PROVE  Stage(r)'
<1>1. features' = features BY DEF Step
<1>2. QED
  BY <1>1, StageBegin, StageBeginFails, StageAuthorize, StageAuthorizeFails, StageSavepoint,
     StageHandlerSucceeds, StageHandlerRefuses, StageLookup, StageDiscard, StageFresh,
     StageUndo, StageJournalRefusal, StageCommitRefusal, StageCommitRefused, StageSalvage,
     StageCommitLine, StageLogSuccess, StageCommit, StageReturn, Zenon
     DEF Step

\* A step of one request keeps the invariant of all.
LEMMA DoStep ==
    ASSUME IndInv, NEW r \in Requests, Step(r)
    PROVE  IndInv'
<1>1. TypeOK' /\ PoolInv' /\ Stage(r)'
  BY TypeStep, PoolStep, StageStep DEF IndInv, Stage
<1>2. ASSUME NEW q \in Requests, q # r PROVE Stage(q)'
  <2>1. /\ SameReq(q) /\ SameTx(q) /\ SameDb(q) /\ SessAt(held[r]) /\ features' = features
    BY <1>2, StepFrame DEF IndInv, Step
  <2>2. held[q] # None => held[q] \in Conns /\ held[q] # held[r]
    BY <1>2 DEF IndInv, PoolInv, TypeOK
  <2>3. QED BY <2>1, <2>2, StageFrame DEF IndInv, SessAt
<1>3. QED BY <1>1, <1>2 DEF IndInv

\* The invariant holds when the process starts.
LEMMA IndInvInit == Init => IndInv
<1> SUFFICES ASSUME Init PROVE IndInv OBVIOUS
<1> USE RequestTxAssumption
<1>1. TypeOK
  <2>1. TypeReq /\ TypeTx BY LinesAreTyped DEF Init, TypeReq, TypeTx, PCs
  <2>2. TypePool /\ TypeRest BY DEF Init, TypePool, TypeRest
  <2>3. TypeDb BY LinesAreTyped DEF Init, TypeDb
  <2>4. QED BY <2>1, <2>2, <2>3 DEF TypeOK, TypeReq, TypeTx, TypePool, TypeRest, TypeDb
<1>2. PoolInv BY DEF Init, PoolInv
<1>3. ASSUME NEW r \in Requests PROVE Stage(r)
  BY DEF Init, Stage, Holding, Before, Refusing, Durably, Nothing, At, InTx, NoTx
<1>4. QED BY <1>1, <1>2, <1>3 DEF IndInv

\* It says nothing of what the variables do not show.
LEMMA IndInvStutters == IndInv /\ UNCHANGED vars => IndInv'
<1> SUFFICES ASSUME IndInv, UNCHANGED vars PROVE IndInv' OBVIOUS
<1> USE DEF vars, reqVars, txVars, poolVars, dbVars
<1>1. TypeOK' BY DEF IndInv, TypeOK
<1>2. PoolInv' BY PoolSame DEF IndInv
<1>3. ASSUME NEW q \in Requests PROVE Stage(q)'
  <2>1. SameReq(q) /\ SameTx(q) /\ SameDb(q) /\ features' = features /\ sess' = sess
    BY DEF SameReq, SameTx, SameDb
  <2>2. QED BY <2>1, StageFrame DEF IndInv
<1>4. QED BY <1>1, <1>2, <1>3 DEF IndInv

\* Every step keeps it.
LEMMA IndInvNext == IndInv /\ [Next]_vars => IndInv'
BY StartStep, DoStep, HangUpStep, ReleaseStep, IndInvStutters DEF Next

\* IndInv holds throughout, for every number of requests and connections:
\* where Do stands tells what its transaction holds and what is durable.
THEOREM Invariance == Spec => []IndInv
BY IndInvInit, IndInvNext, PTL DEF Spec

-----------------------------------------------------------------------------
(* What follows from it.                                                   *)

\* Every variable of Do, the pool and the journal keeps its type.
THEOREM TypeCorrect == Spec => []TypeOK
<1>1. IndInv => TypeOK BY DEF IndInv
<1>2. QED BY <1>1, Invariance, PTL

\* A client that is told success has its work committed, and one that is told
\* a problem has not, unless the acknowledgement of the commit was lost.
THEOREM TruthfulAnswers == Spec => []AnswerIsTheTruth
<1>1. IndInv => AnswerIsTheTruth
  BY DEF IndInv, Stage, Durably, Nothing, Succeeded, RefusalRow, At, AnswerIsTheTruth, Answered
<1>2. QED BY <1>1, Invariance, PTL

\* Where a request is, of its durable effect there is one of four.
LEMMA Outcomes ==
    ASSUME IndInv, NEW r \in Requests
    PROVE  \/ r \notin done /\ rows[r] = 0 /\ row[r] = NoLine
           \/ Succeeded(r)
           \/ RefusalRow(r)
<1>1. pc[r] \in PCs /\ cont[r] \in {"undo", "discard", "return"} BY DEF IndInv, TypeOK
<1>2. At(r) \in NoTx \cup InTx \cup {"return"} BY <1>1 DEF At, PCs, NoTx, InTx
<1>3. QED BY <1>2 DEF IndInv, Stage, Durably, Nothing, InTx, NoTx

\* Work is never durable without its own 2xx row, written under the request's
\* own session, and the row of a refusal never comes with any work.
THEOREM WorkAndRowTogether == Spec => []JournalMatchesWork
<1>1. IndInv => JournalMatchesWork
  <2> SUFFICES ASSUME IndInv, NEW r \in Requests
               PROVE  /\ r \in done /\ Journals => row[r] = [status |-> "ok", by |-> r]
                      /\ rows[r] > 0 /\ row[r].status # "ok" => r \notin done
    BY DEF JournalMatchesWork
  <2>1. CASE r \notin done BY <2>1
  <2>2. CASE Succeeded(r)
    <3>1. CASE Journals BY <2>2, <3>1 DEF Succeeded
    <3>2. CASE ~Journals BY <2>2, <3>2 DEF Succeeded
    <3>3. QED BY <3>1, <3>2
  <2>3. QED BY <2>1, <2>2, Outcomes DEF RefusalRow
<1>2. QED BY <1>1, Invariance, PTL

\* Whatever is undone, salvaged or journalled again, a request is one row.
THEOREM AtMostOneRow == Spec => []OneRowPerRequest
<1>1. IndInv => OneRowPerRequest
  <2> SUFFICES ASSUME IndInv, NEW r \in Requests PROVE rows[r] <= 1
    BY DEF OneRowPerRequest
  <2>1. rows[r] = 0 \/ rows[r] = 1 BY Outcomes DEF Succeeded, RefusalRow
  <2>2. QED BY <2>1
<1>2. QED BY <1>1, Invariance, PTL

\* A LogID that Do hands out is the id of a committed row with the status the
\* client was told.
THEOREM LogIdConfirmed == Spec => []LogIdIsConfirmed
<1>1. IndInv => LogIdIsConfirmed
  BY DEF IndInv, Stage, Durably, Nothing, Succeeded, RefusalRow, At, LogIdIsConfirmed, Answered,
         TypeOK
<1>2. QED BY <1>1, Invariance, PTL

\* No session crosses the pool from one request to another.
THEOREM SessionsApart == Spec => []SessionsStayApart
<1>1. IndInv => SessionsStayApart
  <2> SUFFICES ASSUME IndInv PROVE SessionsStayApart OBVIOUS
  <2>1. ASSUME NEW r \in Requests PROVE row[r].by \in {r, None}
    <3>1. CASE row[r] = NoLine BY <3>1 DEF NoLine
    <3>2. CASE row[r] = [status |-> "ok", by |-> r] BY <3>2
    <3>3. QED BY <3>1, <3>2, Outcomes DEF Succeeded, RefusalRow
  <2>2. \A r \in Requests : pc[r] \in {"savepoint", "handler", "log"} => sess[held[r]] = r
    BY DEF IndInv, Stage, Before, At
  <2>3. QED BY <2>1, <2>2 DEF IndInv, PoolInv, SessionsStayApart
<1>2. QED BY <1>1, Invariance, PTL

\* No connection is lost and none serves two requests.
THEOREM NoConnectionLeaks == Spec => []ConnectionsAccounted
<1>1. IndInv => ConnectionsAccounted
  <2> SUFFICES ASSUME IndInv PROVE ConnectionsAccounted OBVIOUS
  <2>1. \A r \in Requests : Answered(r) => held[r] = None /\ aux[r] = None
    BY DEF IndInv, Stage, Holding, At, NoTx, Answered
  <2>2. \A c \in Conns : pool[c] = "lent" <=> \E r \in Requests : held[r] = c \/ aux[r] = c
    BY RequestTxAssumption DEF IndInv, PoolInv
  <2>3. QED BY <2>1, <2>2 DEF IndInv, PoolInv, ConnectionsAccounted
<1>2. QED BY <1>1, Invariance, PTL

-----------------------------------------------------------------------------
(* The row of a refusal.                                                   *)

\* A step of r marks no other request.
LEMMA FaultFrame ==
    ASSUME TypeOK, NEW r \in Requests, Step(r)
    PROVE  \A q \in Requests : q # r => fault'[q] = fault[q]
<1>1. CASE Begin(r) \/ BeginFails(r) \/ Authorize(r) \/ AuthorizeRefuses(r) \/ AuthorizeFails(r)
  BY <1>1 DEF Begin, BeginFails, Authorize, AuthorizeRefuses, AuthorizeFails, Fault, TypeOK
<1>2. CASE Savepoint(r) \/ HandlerSucceeds(r) \/ HandlerRefuses(r)
  BY <1>2 DEF Savepoint, HandlerSucceeds, HandlerRefuses, Fault, TypeOK
<1>3. CASE LookupStart(r) \/ LookupDone(r) \/ LookupTimeout(r) \/ Discard(r)
  BY <1>3 DEF LookupStart, LookupDone, LookupTimeout, Discard
<1>4. CASE Fresh(r) \/ FreshFails(r) \/ Undo(r) \/ JournalRefusal(r)
  BY <1>4 DEF Fresh, FreshFails, Undo, JournalRefusal, Fault, TypeOK
<1>5. CASE CommitRefusal(r) \/ CommitRefused(r) \/ Salvage(r) \/ CommitLine(r)
  BY <1>5 DEF CommitRefusal, CommitRefused, Salvage, CommitLine, Fault, TypeOK
<1>6. CASE LogSuccess(r) \/ Commit(r) \/ Return(r)
  BY <1>6 DEF LogSuccess, Commit, Return, TypeOK
<1>7. QED BY <1>1, <1>2, <1>3, <1>4, <1>5, <1>6 DEF Step

\* A step that marks the request needs no more excuse.
LEMMA MarkedIsKept ==
    ASSUME NEW r \in Requests, fault'[r]
    PROVE  RowKept(r)'
BY DEF RowKept, Excused

\* Nor does one to a place where the row is not yet owed.
LEMMA UndecidedIsKept ==
    ASSUME NEW r \in Requests, At(r)' \notin {"salvage", "commitLine", "return", "answered"}
    PROVE  RowKept(r)'
BY DEF RowKept

\* A step that ends nothing, and leaves what the excuse is read from.
LEMMA SameIsKept ==
    ASSUME NEW r \in Requests, RowKept(r), At(r)' = At(r), features' = features,
           verdict'[r] = verdict[r], rows'[r] = rows[r], row'[r] = row[r],
           fault[r] => fault'[r], hungup[r] => hungup'[r]
    PROVE  RowKept(r)'
BY DEF RowKept, Excused, Journals

\* explain's kind is what the client is told.
LEMMA ExplainTells ==
    ASSUME TypeOK, NEW r \in Requests, NEW kind, NEW where \in {"undo", "discard", "return"},
           Explain(r, kind, where), pc[r] # "lookup"
    PROVE  At(r)' = where /\ verdict'[r] = Verdict(kind)
<1>1. At(r)' = where BY ExplainAt
<1>2. QED BY <1>1 DEF Explain, TypeOK

\* authorize: a refusal is journalled on the way, unless nothing is.
LEMMA RowAuthorize ==
    ASSUME TypeOK, NEW r \in Requests, features' = features,
           Authorize(r) \/ AuthorizeRefuses(r) \/ AuthorizeFails(r)
    PROVE  RowKept(r)'
<1>0. pc[r] = "authorize" BY DEF Authorize, AuthorizeRefuses, AuthorizeFails
<1>1. CASE Authorize(r)
  <2>1. pc'[r] \in {"savepoint", "handler"} BY <1>1 DEF Authorize, Goto, TypeOK
  <2>2. QED BY <2>1, UndecidedIsKept DEF At
<1>2. CASE AuthorizeRefuses(r)
  <2>1. pc'[r] \in {"refused", "journal"} \/ (pc'[r] = "return" /\ ~Journals)
    BY <1>2 DEF AuthorizeRefuses, Goto, TypeOK, Journals
  <2>2. CASE pc'[r] \in {"refused", "journal"} BY <2>2, UndecidedIsKept DEF At
  <2>3. CASE pc'[r] = "return" /\ ~Journals BY <2>3 DEF RowKept, At, Journals
  <2>4. QED BY <2>1, <2>2, <2>3
<1>3. CASE AuthorizeFails(r)
  <2>1. CASE features.daemon
    BY <1>3, <2>1, MarkedIsKept DEF AuthorizeFails, Fault, TypeOK
  <2>2. CASE ~features.daemon
    <3>1. PICK f \in Failures(r, TRUE) :
            Explain(r, f.kind, IF features.journal THEN "discard" ELSE "return")
      BY <1>3, <2>2 DEF AuthorizeFails
    <3>2. At(r)' = IF features.journal THEN "discard" ELSE "return"
      BY <1>0, <3>1, ExplainAt
    <3>3. QED BY <2>2, <3>2 DEF RowKept, Journals
  <2>3. QED BY <2>1, <2>2
<1>4. QED BY <1>1, <1>2, <1>3

\* The handler: its refusal is undone and journalled, unless nothing is.
LEMMA RowHandler ==
    ASSUME TypeOK, NEW r \in Requests, features' = features,
           Savepoint(r) \/ HandlerSucceeds(r) \/ HandlerRefuses(r)
    PROVE  RowKept(r)'
<1>1. CASE Savepoint(r)
  <2>1. CASE Goto(r, "handler")
    <3>1. pc'[r] = "handler" BY <2>1 DEF Goto, TypeOK
    <3>2. QED BY <3>1, UndecidedIsKept DEF At
  <2>2. CASE Fault(r)
    <3>1. fault'[r] BY <2>2 DEF Fault, TypeOK
    <3>2. QED BY <3>1, MarkedIsKept
  <2>3. QED BY <1>1, <2>1, <2>2 DEF Savepoint
<1>2. CASE HandlerSucceeds(r)
  <2>1. pc'[r] \in {"log", "commit"} BY <1>2 DEF HandlerSucceeds, Goto, TypeOK
  <2>2. QED BY <2>1, UndecidedIsKept DEF At
<1>3. CASE HandlerRefuses(r)
  <2>1. PICK k \in Kinds : Explain(r, k, IF Journals THEN "undo" ELSE "return")
    BY <1>3 DEF HandlerRefuses
  <2>2. pc[r] # "lookup" BY <1>3 DEF HandlerRefuses
  <2>3. At(r)' = IF Journals THEN "undo" ELSE "return" BY <2>1, <2>2, ExplainAt
  <2>4. QED BY <2>3 DEF RowKept, Journals
<1>4. QED BY <1>1, <1>2, <1>3

\* Of a refusal: the row is written and committed, or the journal failed.
LEMMA RowJournal ==
    ASSUME TypeOK, NEW r \in Requests, features' = features, hungup' = hungup, Stage(r),
           RowKept(r), Fresh(r) \/ FreshFails(r) \/ Undo(r) \/ JournalRefusal(r) \/ Discard(r)
    PROVE  RowKept(r)'
<1>1. CASE Fresh(r) \/ Discard(r)
  <2>1. pc'[r] \in {"fresh", "journal"} BY <1>1 DEF Fresh, Discard, Goto, TypeOK
  <2>2. QED BY <2>1, UndecidedIsKept DEF At
<1>2. CASE FreshFails(r)
  <2>1. fault'[r] BY <1>2 DEF FreshFails, Fault, TypeOK
  <2>2. QED BY <2>1, MarkedIsKept
<1>3. CASE Undo(r) \/ JournalRefusal(r)
  <2>1. CASE Goto(r, "journal") \/ Goto(r, "commitRefusal")
    <3>1. pc'[r] \in {"journal", "commitRefusal"} BY <2>1 DEF Goto, TypeOK
    <3>2. QED BY <3>1, UndecidedIsKept DEF At
  <2>2. CASE Fault(r)
    <3>1. fault'[r] BY <2>2 DEF Fault, TypeOK
    <3>2. QED BY <3>1, MarkedIsKept
  <2>3. QED BY <1>3, <2>1, <2>2 DEF Undo, JournalRefusal
<1>4. QED BY <1>1, <1>2, <1>3

\* COMMIT of a refusal's row, and of daemon.begin's.
LEMMA RowCommitRefusal ==
    ASSUME TypeOK, NEW r \in Requests, features' = features, Stage(r),
           CommitRefusal(r) \/ CommitRefused(r)
    PROVE  RowKept(r)'
<1>1. CASE Fault(r)
  <2>1. fault'[r] BY <1>1 DEF Fault, TypeOK
  <2>2. QED BY <2>1, MarkedIsKept
<1>2. CASE CommitRefusal(r) /\ Committed(r)
  <2>1. pc[r] = "commitRefusal" /\ pc'[r] = "return" /\ verdict' = verdict
    BY <1>2 DEF CommitRefusal, Goto, TypeOK
  <2>2. line[r].status = verdict[r] /\ rows[r] = 0 /\ verdict[r] # "ok"
    BY <2>1 DEF Stage, Refusing, Durably, At
  <2>3. line[r] # NoLine BY <2>2 DEF TypeOK, NoLine
  <2>4. rows'[r] = 1 /\ row'[r] = line[r] BY <1>2, <2>2, <2>3, CommittedAt DEF Made
  <2>5. QED BY <2>1, <2>2, <2>4 DEF RowKept, At
<1>3. CASE CommitRefused(r) /\ Committed(r) /\ ~Fault(r)
  <2>1. pc[r] = "refused" BY <1>3 DEF CommitRefused
  <2>2. line[r] = [status |-> "refused", by |-> None] /\ rows[r] = 0
    BY <2>1 DEF Stage, Refusing, Durably, Nothing, At, InTx, NoTx
  <2>3. line[r] # NoLine BY <2>2 DEF NoLine
  <2>4. rows'[r] = 1 /\ row'[r].status = "refused" BY <1>3, <2>2, <2>3, CommittedAt DEF Made
  <2>5. PICK k \in {"raise", "catalogue", "internal"} :
          Explain(r, k, "return") /\ fault' = [fault EXCEPT ![r] = @ \/ k = "internal"]
    BY <1>3 DEF CommitRefused
  <2>6. At(r)' = "return" /\ verdict'[r] = Verdict(k) BY <2>1, <2>5, ExplainTells
  <2>7. CASE k = "internal"
    <3>1. fault'[r] BY <2>5, <2>7 DEF TypeOK
    <3>2. QED BY <3>1, MarkedIsKept
  <2>8. CASE k # "internal" BY <2>4, <2>6, <2>8 DEF RowKept, Verdict
  <2>9. QED BY <2>7, <2>8
<1>4. QED BY <1>1, <1>2, <1>3 DEF CommitRefusal, CommitRefused

\* salvage is reached with an excuse, and whatever it commits keeps it.
LEMMA RowSalvage ==
    ASSUME TypeOK, NEW r \in Requests, features' = features, hungup' = hungup, RowKept(r),
           Salvage(r) \/ CommitLine(r)
    PROVE  RowKept(r)'
<1>1. /\ At(r) \in {"salvage", "commitLine"}
      /\ UNCHANGED <<verdict, fault>>
  BY DEF Salvage, CommitLine, At
<1>2. Excused(r) BY <1>1 DEF RowKept
<1>3. Excused(r)' BY <1>1, <1>2 DEF Excused
<1>4. QED BY <1>3 DEF RowKept

\* A statement that leaves the transaction active was not sent: the client
\* has hung up, and the error is a 500.
LEMMA UnsentIsInternal ==
    ASSUME NEW r \in Requests, NEW f \in Failures(r, TRUE), hungup[r]
    PROVE  f.kind = "internal"
BY DEF Failures

\* The row and the commit of a success that fail: the journal failed, or the
\* hang-up made the 500.
LEMMA RowSuccess ==
    ASSUME TypeOK, NEW r \in Requests, features' = features, hungup' = hungup, Stage(r),
           LogSuccess(r) \/ Commit(r)
    PROVE  RowKept(r)'
<1>0. pc[r] # "lookup" BY DEF LogSuccess, Commit
<1>1. CASE LogSuccess(r) /\ Goto(r, "commit")
  <2>1. pc'[r] = "commit" BY <1>1 DEF Goto, TypeOK
  <2>2. QED BY <2>1, UndecidedIsKept DEF At
<1>2. CASE LogSuccess(r) /\ ~Goto(r, "commit")
  <2>1. PICK f \in Failures(r, TRUE) :
          /\ IF features.daemon
               THEN verdict' = [verdict EXCEPT ![r] = "internal"] /\ Goto(r, "salvage")
               ELSE Explain(r, f.kind, "return")
          /\ fault' = [fault EXCEPT ![r] = @ \/ f.tx # "active"]
    BY <1>2 DEF LogSuccess
  <2>2. CASE f.tx # "active"
    <3>1. fault'[r] BY <2>1, <2>2 DEF TypeOK
    <3>2. QED BY <3>1, MarkedIsKept
  <2>3. CASE f.tx = "active"
    <3>1. hungup[r] /\ f.kind = "internal" BY <2>3 DEF Failures
    <3>2. verdict'[r] = "internal"
      BY <1>0, <2>1, <3>1, ExplainTells DEF Verdict, TypeOK
    <3>3. QED BY <3>1, <3>2 DEF RowKept, Excused
  <2>4. QED BY <2>2, <2>3
<1>3. CASE Commit(r) /\ fault' = [fault EXCEPT ![r] = @ \/ ~hungup[r]] /\ verdict' # verdict
  <2>1. CASE ~hungup[r]
    <3>1. fault'[r] BY <1>3, <2>1 DEF TypeOK
    <3>2. QED BY <3>1, MarkedIsKept
  <2>2. CASE hungup[r]
    <3>1. Explain(r, "internal", "return")
      BY <1>3, <2>2, UnsentIsInternal DEF Commit
    <3>2. verdict'[r] = "internal" BY <1>0, <3>1, ExplainTells DEF Verdict
    <3>3. QED BY <2>2, <3>2 DEF RowKept, Excused
  <2>3. QED BY <2>1, <2>2
<1>4. CASE Commit(r) /\ verdict' = verdict
  <2>1. verdict[r] = "ok" BY <1>4 DEF Commit, Stage, Before, At
  <2>2. At(r)' = "return"
    <3>1. Goto(r, "return") \/ \E kind : Explain(r, kind, "return") BY <1>4 DEF Commit
    <3>2. QED BY <1>0, <3>1, ExplainAt DEF Goto, At, TypeOK
  <2>3. QED BY <1>4, <2>1, <2>2 DEF RowKept
<1>5. QED BY <1>1, <1>2, <1>3, <1>4 DEF Commit

\* Every step of Do keeps the row of its own request, or has an excuse.
LEMMA RowStep ==
    ASSUME TypeOK, NEW r \in Requests, Stage(r), RowKept(r), Step(r)
    PROVE  RowKept(r)'
<1>0. features' = features /\ hungup' = hungup BY DEF Step
<1>1. CASE Begin(r)
  <2>1. pc'[r] = "authorize" BY <1>1 DEF Begin, Goto, TypeOK
  <2>2. QED BY <2>1, UndecidedIsKept DEF At
<1>2. CASE BeginFails(r)
  <2>1. fault'[r] BY <1>2 DEF BeginFails, Fault, TypeOK
  <2>2. QED BY <2>1, MarkedIsKept
<1>3. CASE LookupStart(r) \/ LookupDone(r) \/ LookupTimeout(r)
  <2>1. UNCHANGED <<verdict, cont, rows, row, fault>>
    BY <1>3 DEF LookupStart, LookupDone, LookupTimeout, dbVars
  <2>2. pc[r] = "lookup" /\ pc'[r] \in {"lookup", cont[r]} /\ cont[r] # "lookup"
    BY <1>3 DEF LookupStart, LookupDone, LookupTimeout, Goto, TypeOK
  <2>3. At(r)' = At(r) BY <2>1, <2>2 DEF At
  <2>4. QED BY <1>0, <2>1, <2>3, SameIsKept
<1>4. CASE Return(r)
  <2>1. /\ pc[r] = "return" /\ pc'[r] = "answered" /\ UNCHANGED <<verdict, fault>>
        /\ UNCHANGED <<rows, row>>
    BY <1>4 DEF Return, Rollback, dbVars, Goto, TypeOK
  <2>2. QED BY <1>0, <2>1 DEF RowKept, Excused, At, Journals
<1>5. QED
  BY <1>0, <1>1, <1>2, <1>3, <1>4, RowAuthorize, RowHandler, RowJournal, RowCommitRefusal,
     RowSalvage, RowSuccess DEF Step

\* So does every step of the system.
LEMMA RowNext == IndInv /\ RowInv /\ [Next]_vars => RowInv'
<1> SUFFICES ASSUME IndInv, RowInv, [Next]_vars, NEW q \in Requests PROVE RowKept(q)'
  BY DEF RowInv
<1>0. TypeOK /\ RowKept(q) /\ Stage(q) BY DEF IndInv, RowInv
<1>1. ASSUME NEW r \in Requests, Step(r) PROVE RowKept(q)'
  <2>1. CASE q = r BY <1>0, <1>1, <2>1, RowStep
  <2>2. CASE q # r
    <3>1. SameReq(q) /\ SameDb(q) /\ fault'[q] = fault[q]
      BY <1>0, <1>1, <2>2, StepFrame, FaultFrame
    <3>2. features' = features /\ hungup' = hungup BY <1>1 DEF Step
    <3>3. At(q)' = At(q) BY <3>1 DEF At, SameReq
    <3>4. QED BY <1>0, <3>1, <3>2, <3>3, SameIsKept DEF SameReq, SameDb
  <2>3. QED BY <2>1, <2>2
<1>2. ASSUME NEW r \in Requests, Start(r) PROVE RowKept(q)'
  <2>1. CASE q = r
    <3>1. pc'[q] = "begin" BY <1>0, <1>2, <2>1 DEF Start, Goto, TypeOK
    <3>2. QED BY <3>1, UndecidedIsKept DEF At
  <2>2. CASE q # r
    <3>1. /\ pc'[q] = pc[q]
          /\ UNCHANGED <<features, verdict, cont, rows, row, fault, hungup>>
      BY <1>0, <1>2, <2>2 DEF Start, Goto, TypeOK, dbVars
    <3>2. At(q)' = At(q) BY <3>1 DEF At
    <3>3. QED BY <1>0, <3>1, <3>2, SameIsKept
  <2>3. QED BY <2>1, <2>2
<1>3. ASSUME NEW r \in Requests, HangUp(r) PROVE RowKept(q)'
  <2>1. UNCHANGED <<features, pc, verdict, cont, rows, row, fault>>
    BY <1>3 DEF HangUp, dbVars
  <2>2. hungup[q] => hungup'[q] BY <1>0, <1>3 DEF HangUp, TypeOK
  <2>3. At(q)' = At(q) BY <2>1 DEF At
  <2>4. QED BY <1>0, <2>1, <2>2, <2>3, SameIsKept
<1>4. ASSUME UNCHANGED <<features, reqVars, dbVars, fault>> PROVE RowKept(q)'
  <2>1. UNCHANGED <<features, pc, verdict, cont, rows, row, fault, hungup>>
    BY <1>4 DEF reqVars, dbVars
  <2>2. At(q)' = At(q) BY <2>1 DEF At
  <2>3. QED BY <1>0, <2>1, <2>2, SameIsKept
<1>5. QED BY <1>1, <1>2, <1>3, <1>4 DEF Next, AfterRelease, vars

\* A refusal is journalled with the status on the wire, or something the
\* journal needs failed, or the hang-up itself made the 500.
THEOREM RefusalsAreJournalled == Spec => []RefusalIsJournalled
<1>1. Init => RowInv
  <2> SUFFICES ASSUME Init, NEW r \in Requests PROVE RowKept(r) BY DEF RowInv
  <2>1. At(r) = "idle" BY DEF Init, At
  <2>2. QED BY <2>1 DEF RowKept
<1>2. Spec => []RowInv BY <1>1, RowNext, Invariance, PTL DEF Spec
<1>3. RowInv => RefusalIsJournalled
  <2> SUFFICES ASSUME RowInv, NEW r \in Requests, Answered(r), Journals, verdict[r] # "ok",
                      ~fault[r], verdict[r] = "internal" => ~hungup[r]
               PROVE  rows[r] = 1 /\ row[r].status = verdict[r]
    BY DEF RefusalIsJournalled
  <2>1. At(r) = "answered" BY DEF Answered, At
  <2>2. QED BY <2>1 DEF RowInv, RowKept, Excused
<1>4. QED BY <1>2, <1>3, PTL

-----------------------------------------------------------------------------
(* Do refines the contract.                                                *)

SameFate(r) == Fate(r)' = Fate(r) /\ doubt'[r] = doubt[r]
SameTold(r) == Told(r)' = Told(r)

\* A commit decides the fate of its request, or leaves it undecided.
LEMMA CommitDecides ==
    ASSUME TypeOK, NEW r \in Requests, r \notin done, rows[r] = 0, ~doubt[r],
           Made(r) \/ (Kept(r) /\ doubt'[r] = doubt[r]),
           Made(r) => work[r] \/ line[r] # NoLine
    PROVE  SameFate(r) \/ (Fate(r) = "nothing" /\ Fate(r)' \in {"work", "row"})
<1>1. Fate(r) = "nothing" BY DEF Fate
<1>2. CASE Made(r)
  <2>1. CASE work[r] BY <1>1, <1>2, <2>1 DEF Made, Fate
  <2>2. CASE ~work[r] /\ line[r] # NoLine BY <1>1, <1>2, <2>2 DEF Made, Fate
  <2>3. QED BY <1>2, <2>1, <2>2
<1>3. CASE Kept(r) /\ doubt'[r] = doubt[r] BY <1>3 DEF Kept, SameFate, Fate
<1>4. QED BY <1>2, <1>3

\* Only Return answers.
LEMMA PcAlive ==
    ASSUME TypeOK, NEW r \in Requests, Step(r), ~Return(r), Stage(r)
    PROVE  pc[r] # "answered" /\ pc'[r] # "answered"
<1>1. pc[r] # "answered"
  BY DEF Step, Begin, BeginFails, Authorize, AuthorizeRefuses, AuthorizeFails, Savepoint,
         HandlerSucceeds, HandlerRefuses, LookupStart, LookupDone, LookupTimeout, Discard,
         Fresh, FreshFails, Undo, JournalRefusal, CommitRefusal, CommitRefused, CommitLine,
         Commit, Salvage, LogSuccess
<1>2. pc'[r] # "answered"
  <2>1. \/ UNCHANGED pc
        \/ \E where \in PCs \ {"answered"} : Goto(r, where)
    <3> USE DEF PCs
    <3>1. CASE Begin(r) \/ BeginFails(r) \/ Authorize(r) \/ AuthorizeRefuses(r) \/ Savepoint(r)
               \/ HandlerSucceeds(r) \/ Discard(r) \/ Fresh(r) \/ FreshFails(r) \/ Undo(r)
               \/ JournalRefusal(r) \/ CommitRefusal(r) \/ CommitLine(r) \/ Salvage(r)
      BY <3>1 DEF Begin, BeginFails, Authorize, AuthorizeRefuses, Savepoint, HandlerSucceeds,
                  Discard, Fresh, FreshFails, Undo, JournalRefusal, CommitRefusal, CommitLine,
                  Salvage, Internal
    <3>2. CASE LookupStart(r) \/ LookupDone(r) \/ LookupTimeout(r)
      BY <3>2 DEF LookupStart, LookupDone, LookupTimeout, TypeOK
    <3>3. CASE AuthorizeFails(r) \/ HandlerRefuses(r) \/ CommitRefused(r) \/ LogSuccess(r)
               \/ Commit(r)
      BY <3>3 DEF AuthorizeFails, HandlerRefuses, CommitRefused, LogSuccess, Commit, Explain,
                  Internal
    <3>4. QED BY <3>1, <3>2, <3>3 DEF Step
  <2>2. QED BY <1>1, <2>1 DEF Goto, TypeOK
<1>3. QED BY <1>1, <1>2

\* A step of Do is, for its request, one of three: nothing the contract sees,
\* the decision, or the answer.
LEMMA StepContract ==
    ASSUME IndInv, NEW r \in Requests, Step(r)
    PROVE  \/ SameFate(r) /\ SameTold(r)
           \/ /\ Fate(r) = "nothing" /\ Fate(r)' \in {"work", "row"}
              /\ Told(r) = "waits" /\ SameTold(r)
           \/ /\ SameFate(r) /\ Told(r) = "waits"
              /\ \/ Fate(r) = "work" /\ ~doubt[r] /\ Told(r)' = "success"
                 \/ (Fate(r) # "work" \/ doubt[r]) /\ Told(r)' = "problem"
<1> USE DEF IndInv
<1>0. ~Return(r) => pc[r] # "answered" /\ pc'[r] # "answered" BY PcAlive
<1>1. CASE Return(r)
  <2>1. /\ pc[r] = "return" /\ pc'[r] = "answered" /\ verdict' = verdict /\ UNCHANGED dbVars
    BY <1>1 DEF Return, Goto, TypeOK, Rollback
  <2>2. SameFate(r) /\ Told(r) = "waits" BY <2>1 DEF SameFate, Fate, Told, Answered, dbVars
  <2>3. \/ Nothing(r) /\ verdict[r] # "ok"
        \/ Succeeded(r)
        \/ RefusalRow(r)
    BY <2>1 DEF Stage, Durably, At
  <2>4. CASE verdict[r] = "ok"
    <3>1. r \in done /\ ~doubt[r] BY <2>3, <2>4 DEF Succeeded, RefusalRow
    <3>2. QED BY <2>1, <2>2, <2>4, <3>1 DEF Fate, Told, Answered
  <2>5. CASE verdict[r] # "ok"
    <3>1. r \notin done \/ doubt[r] BY <2>3, <2>5 DEF Nothing, Succeeded, RefusalRow
    <3>2. Fate(r) # "work" \/ doubt[r] BY <3>1 DEF Fate
    <3>3. Told(r)' = "problem" BY <2>1, <2>5 DEF Told, Answered
    <3>4. QED BY <2>2, <3>2, <3>3
  <2>6. QED BY <2>4, <2>5
<1>2. CASE CommitRefusal(r) \/ CommitRefused(r) \/ CommitLine(r) \/ Commit(r)
  <2>0. ~Return(r) BY <1>2 DEF CommitRefusal, CommitRefused, CommitLine, Commit, Return
  <2>1. /\ pc[r] \in {"commitRefusal", "refused", "commitLine", "commit"}
        /\ pc'[r] # "answered"
    BY <1>0, <1>2, <2>0 DEF CommitRefusal, CommitRefused, CommitLine, Commit
  <2>2. Told(r) = "waits" /\ SameTold(r) BY <2>1 DEF SameTold, Told, Answered
  <2>3. r \notin done /\ rows[r] = 0 /\ ~doubt[r]
    BY <2>1 DEF Stage, Durably, Nothing, At, InTx, NoTx
  <2>4. Made(r) \/ (Kept(r) /\ doubt'[r] = doubt[r])
    BY <1>2, CommittedAt, CommitFailsAt, UndoneAt, InDoubtAt
       DEF CommitRefusal, CommitRefused, CommitLine, Commit
  <2>5. CASE Kept(r) /\ doubt'[r] = doubt[r]
    BY <2>2, <2>5 DEF Kept, SameFate, Fate
  <2>6. CASE ~(Kept(r) /\ doubt'[r] = doubt[r])
    <3>1. work[r] \/ line[r] # NoLine
      <4>1. CASE Commit(r)
        <5>1. ~CommitUndone(r) BY <2>6, UndoneAt
        <5>2. Works(r, TRUE) BY <4>1, <5>1 DEF Commit
        <5>3. QED BY <4>1, <5>2 DEF Stage, Before, At, Works, Commit
      <4>2. CASE ~Commit(r)
        <5>1. pc[r] \in {"commitRefusal", "refused", "commitLine"}
          BY <1>2, <4>2 DEF CommitRefusal, CommitRefused, CommitLine
        <5>2. line[r].status # "none"
          BY <5>1 DEF Stage, Refusing, At, BaseLine, Journals, TypeOK
        <5>3. QED BY <5>2 DEF NoLine
      <4>3. QED BY <4>1, <4>2
    <3>2. QED BY <2>2, <2>3, <2>4, <3>1, CommitDecides
  <2>7. QED BY <2>5, <2>6
<1>3. CASE ~(CommitRefusal(r) \/ CommitRefused(r) \/ CommitLine(r) \/ Commit(r) \/ Return(r))
  <2>1. UNCHANGED dbVars
    BY <1>3 DEF Step, Begin, BeginFails, Authorize, AuthorizeRefuses, AuthorizeFails, Savepoint,
                HandlerSucceeds, HandlerRefuses, LookupStart, LookupDone, LookupTimeout, Discard,
                Rollback, Fresh, FreshFails, Undo, JournalRefusal, Salvage, LogSuccess
  <2>2. pc[r] # "answered" /\ pc'[r] # "answered"
    BY <1>0, <1>3
  <2>3. QED BY <2>1, <2>2 DEF SameFate, SameTold, Fate, Told, Answered, dbVars
<1>4. QED BY <1>1, <1>2, <1>3

\* Every step of the system is a step of the contract, or none of it.
LEMMA NextContract == IndInv /\ [Next]_vars => [Contract!Next]_(Contract!cvars)
<1> SUFFICES ASSUME IndInv, [Next]_vars PROVE [Contract!Next]_(Contract!cvars) OBVIOUS
<1> DEFINE fate == [q \in Requests |-> Fate(q)]
           told == [q \in Requests |-> Told(q)]
<1>1. ASSUME \A q \in Requests : SameFate(q) /\ SameTold(q), doubt' = doubt
      PROVE  [Contract!Next]_(Contract!cvars)
  <2>1. fate' = fate /\ told' = told BY <1>1 DEF SameFate, SameTold
  <2>2. QED BY <1>1, <2>1 DEF Contract!cvars
<1>2. ASSUME NEW r \in Requests, Step(r) PROVE [Contract!Next]_(Contract!cvars)
  <2>1. \A q \in Requests : q # r => SameFate(q) /\ SameTold(q)
    <3>1. ASSUME NEW q \in Requests, q # r PROVE SameFate(q) /\ SameTold(q)
      <4>1. SameReq(q) /\ SameDb(q) BY <1>2, <3>1, StepFrame DEF IndInv
      <4>2. QED BY <4>1 DEF SameReq, SameDb, SameFate, SameTold, Fate, Told, Answered
    <3>2. QED BY <3>1
  <2>2. TypeOK /\ TypeOK' BY <1>2, DoStep DEF IndInv
  <2>3. /\ SameFate(r) => fate' = fate
        /\ SameTold(r) => told' = told
        /\ fate' = [fate EXCEPT ![r] = Fate(r)']
        /\ told' = [told EXCEPT ![r] = Told(r)']
    BY <2>1 DEF SameFate, SameTold
  <2>4. /\ SameFate(r) => doubt' = doubt
        /\ doubt' = [doubt EXCEPT ![r] = doubt'[r]]
        /\ doubt'[r] \in BOOLEAN
    BY <2>1, <2>2 DEF SameFate, TypeOK
  <2>5. CASE SameFate(r) /\ SameTold(r)
    BY <2>3, <2>4, <2>5 DEF Contract!cvars
  <2>6. CASE /\ Fate(r) = "nothing" /\ Fate(r)' \in {"work", "row"}
             /\ Told(r) = "waits" /\ SameTold(r)
    <3>1. Contract!Decide(r) BY <2>3, <2>4, <2>6 DEF Contract!Decide
    <3>2. QED BY <3>1 DEF Contract!Next
  <2>7. CASE /\ SameFate(r) /\ Told(r) = "waits"
             /\ \/ Fate(r) = "work" /\ ~doubt[r] /\ Told(r)' = "success"
                \/ (Fate(r) # "work" \/ doubt[r]) /\ Told(r)' = "problem"
    <3>1. Contract!Tell(r) BY <2>3, <2>4, <2>7 DEF Contract!Tell
    <3>2. QED BY <3>1 DEF Contract!Next
  <2>8. QED BY <1>2, <2>5, <2>6, <2>7, StepContract
<1>3. ASSUME NEW r \in Requests, Start(r) \/ HangUp(r) PROVE [Contract!Next]_(Contract!cvars)
  <2>1. UNCHANGED <<dbVars, verdict>> /\ \A q \in Requests : Answered(q)' = Answered(q)
    BY <1>3 DEF Start, HangUp, Goto, Answered, IndInv, TypeOK
  <2>2. QED BY <1>1, <2>1 DEF SameFate, SameTold, Fate, Told, dbVars
<1>4. ASSUME (\E c \in Conns : AfterRelease(c)) \/ UNCHANGED vars
      PROVE  [Contract!Next]_(Contract!cvars)
  <2>1. UNCHANGED <<dbVars, verdict, pc>>
    BY <1>4 DEF AfterRelease, vars, reqVars
  <2>2. QED BY <1>1, <2>1 DEF SameFate, SameTold, Fate, Told, Answered, dbVars
<1>5. QED BY <1>2, <1>3, <1>4 DEF Next

\* Do refines RequestContract: the durable effect of a request is decided in
\* one step, before the answer, and the answer tells which effect it was.
THEOREM Refinement == Spec => KeepsContract
<1>1. Init => Contract!Init BY DEF Init, Contract!Init, Fate, Told, Answered
<1>2. QED BY <1>1, IndInvInit, NextContract, Invariance, PTL DEF Spec, KeepsContract, Contract!Spec
=============================================================================
