----------------------------- MODULE SimAppProofs -----------------------------
(***************************************************************************)
(* Proofs about sim_app.py for any number of requests, readings, threads,  *)
(* connections and database faults: types, and what the requests find      *)
(* stored while either nothing fails or no two of them overlap.            *)
(***************************************************************************)
EXTENDS SimApp, FiniteSetTheorems, TLAPS

Labels == {"new", "check", "connect", "configure", "return", "select", "insertRow",
           "insertLog", "commit", "read", "recheck", "reconnect",
           "reconfigure", "rereturn", "rollback", "done"}
Answers == {"none", "stored", "duplicate", "failed", "nothing", "ok", "error"}

-----------------------------------------------------------------------------
(* The inductive invariant.                                                *)

AtConn == {"select", "insertRow", "insertLog", "read", "commit", "rollback"}
Kept == {"return", "select", "insertRow", "insertLog", "read", "commit"}
Failing == {"recheck", "reconnect", "reconfigure", "rereturn", "rollback"}

\* Always: what a thread has in hand where it stands.
ThreadInv ==
    \A r \in Request :
        /\ pc[r] # "new" => kind[r] \in Kinds
        /\ pc[r] \notin {"new", "done"} /\ kind[r] # "read" => seq[r] \in SeqNo
        /\ pc[r] \in {"select", "insertRow", "insertLog", "commit"} => kind[r] # "read"
        /\ pc[r] \in {"configure", "return", "reconfigure", "rereturn"} => db # None
        /\ pc[r] \in AtConn => conn[r] \in 1 .. nconn
        /\ pc[r] # "done" => answer[r] = "none"

ConnInv ==
    /\ db # None => db \in 1 .. nconn
    /\ \A c \in Conn : c > nconn => cx[c] = Fresh

BaseInv == TypeOK /\ ThreadInv /\ ConnInv

\* While nothing fails, threads may share a connection: a row is its request's
\* until somebody's commit, and its entry in the log follows it.
AllWell ==
    /\ \A r \in Request : pc[r] \notin Failing
    /\ \A c \in Conn : ~ cx[c].closed /\ cx[c].alive /\ ~ cx[c].aborted

RowsShared ==
    /\ \A c \in Conn : \A r \in cx[c].rows : conn[r] = c /\ pc[r] \in {"insertLog", "commit"}
    /\ \A r \in rows : pc[r] \in {"insertLog", "commit", "done"}
    /\ \A r \in Request :
          pc[r] \in {"insertLog", "commit"} => r \in rows \/ r \in cx[conn[r]].rows

LogShared ==
    /\ \A r \in rows : pc[r] = "done" => seq[r] \in log
    /\ \A r \in Request : pc[r] = "commit" => seq[r] \in log \cup cx[conn[r]].log
    /\ log \subseteq SeqOf(rows)
    /\ \A c \in Conn : cx[c].log \subseteq SeqOf(rows \cup cx[c].rows)

AnswersShared ==
    \A r \in Request :
        /\ answer[r] = "stored" => r \in rows
        /\ answer[r] = "duplicate" =>
               seq[r] \in SeqOf(rows \cup UNION { cx[c].rows : c \in Conn })

SharedInv == AllWell /\ RowsShared /\ LogShared /\ AnswersShared

\* One request at a time: what is not committed is the request's that runs,
\* on the connection the next one will use, and a dead or aborted connection
\* holds nothing.
OneThread == \A q, r \in Active : q = r

Empty(c) == cx[c].rows = {} /\ cx[c].log = {}

ConnSerial ==
    \A c \in Conn :
        /\ cx[c].closed => ~ cx[c].alive
        /\ ~ cx[c].alive \/ cx[c].aborted \/ c # db => Empty(c)
        /\ \A r \in cx[c].rows : pc[r] \in {"insertLog", "commit"}
        /\ \A n \in cx[c].log : \E r \in Request : pc[r] = "commit" /\ seq[r] = n

ThreadSerial ==
    \A r \in Request :
        /\ pc[r] \in AtConn => conn[r] = db
        /\ pc[r] \in Kept => ~ cx[db].closed
        /\ pc[r] \in {"configure", "reconfigure"} => ~ cx[db].closed /\ ~ cx[db].begun
        /\ pc[r] \in {"insertLog", "commit"} =>
             /\ cx[db].begun /\ ~ cx[db].aborted
             /\ cx[db].alive => r \in cx[db].rows
        /\ pc[r] = "commit" /\ cx[db].alive => seq[r] \in log \cup cx[db].log

StoreSerial ==
    /\ \A r \in Request :
          kind[r] = "ingest" /\ pc[r] \in {"insertRow", "insertLog", "commit"} => seq[r] \notin log
    /\ \A r \in rows : pc[r] \in Failing \cup {"done"} /\ seq[r] \in log
    /\ log \subseteq SeqOf(rows)
    /\ \A r \in Request :
          /\ answer[r] = "stored" => r \in rows
          /\ answer[r] = "duplicate" => seq[r] \in SeqOf(rows)
    /\ NoUnforcedDuplicate

SerialInv == OneThread /\ ConnSerial /\ ThreadSerial /\ StoreSerial

\* A fault is paid for by a reading that has failed, by the thread that will
\* answer so, or by the next one at a broken connection.
Failed == { r \in Request : answer[r] = "failed" }
Busy == \E r \in Request : pc[r] \in Failing
Broken == db # None /\ ~ cx[db].closed /\ (~ cx[db].alive \/ (cx[db].aborted /\ ~ Busy))
Owed == (IF Busy THEN 1 ELSE 0) + (IF Broken THEN 1 ELSE 0)

CostInv == IsFiniteSet(Failed) /\ Cardinality(Failed) + Owed <= faults

IInv ==
    /\ BaseInv
    /\ faults = 0 /\ ~ clashed => SharedInv
    /\ ~ overlapped => SerialInv /\ CostInv

-----------------------------------------------------------------------------
(* What each step does, without the updates of nested records.             *)

\* Thread r goes to b and the client of r knows a; no other thread moves.
Goes(r, b, a) ==
    /\ pc' \in [Request -> Labels] /\ answer' \in [Request -> Answers]
    /\ pc'[r] = b /\ answer'[r] = a
    /\ \A q \in Request : q # r => pc'[q] = pc[q] /\ answer'[q] = answer[q]

\* Where an exception takes thread r.
Raised(r) ==
    \/ pc[r] \in Failing /\ Goes(r, "done", "failed")
    \/ pc[r] \notin Failing /\ kind[r] = "read" /\ Goes(r, "done", "error")
    \/ pc[r] \notin Failing /\ kind[r] # "read" /\ Goes(r, "recheck", "none")

\* Connection c becomes x; no other connection changes.
Becomes(c, x) ==
    /\ cx' \in [Conn -> Connection]
    /\ cx'[c] = x
    /\ \A d \in Conn : d # c => cx'[d] = cx[d]

LEMMA AnswerGoes ==
    ASSUME BaseInv, NEW r \in Request, NEW a \in Answers, Answer(r, a)
    PROVE  Goes(r, "done", a)
BY DEF BaseInv, TypeOK, Answer, Goto, Goes, Labels, Answers

LEMMA GotoGoes ==
    ASSUME BaseInv, NEW r \in Request, pc[r] # "done", NEW b \in Labels, Goto(r, b),
           UNCHANGED answer
    PROVE  Goes(r, b, "none")
BY DEF BaseInv, TypeOK, ThreadInv, Goto, Goes, Labels, Answers

LEMMA RaiseRaised ==
    ASSUME BaseInv, NEW r \in Request, pc[r] # "done", pc[r] # "rollback", Raise(r)
    PROVE  Raised(r)
<1>1. Recovering(r) <=> pc[r] \in Failing
    BY DEF Recovering, Failing
<1>2. CASE Recovering(r)
  <2>1. Answer(r, "failed")
    BY <1>2 DEF Raise
  <2>2. QED
    BY <1>1, <1>2, <2>1, AnswerGoes DEF Raised, Answers
<1>3. CASE ~ Recovering(r) /\ kind[r] = "read"
  <2>1. Answer(r, "error")
    BY <1>3 DEF Raise
  <2>2. QED
    BY <1>1, <1>3, <2>1, AnswerGoes DEF Raised, Answers
<1>4. CASE ~ Recovering(r) /\ kind[r] # "read"
  <2>1. Goto(r, "recheck") /\ UNCHANGED answer
    BY <1>4 DEF Raise
  <2>2. QED
    BY <1>1, <1>4, <2>1, GotoGoes DEF Raised, Labels
<1>5. QED
    BY <1>2, <1>3, <1>4

LEMMA Update ==
    ASSUME cx \in [Conn -> Connection], NEW c \in Conn, NEW x \in Connection,
           cx' = [cx EXCEPT ![c] = x]
    PROVE  Becomes(c, x)
BY DEF Becomes

LEMMA Cleaned ==
    ASSUME NEW x \in Connection
    PROVE  /\ Cleared(x) \in Connection
           /\ Cleared(x).closed = x.closed /\ Cleared(x).alive = x.alive
           /\ Cleared(x).begun = FALSE /\ Cleared(x).aborted = FALSE
           /\ Cleared(x).rows = {} /\ Cleared(x).log = {}
BY DEF Connection, Cleared

\* The connection in the hand of a thread.
LEMMA InHand ==
    ASSUME BaseInv, NEW r \in Request, pc[r] \in AtConn
    PROVE  /\ cx \in [Conn -> Connection] /\ conn[r] \in Conn /\ conn[r] <= nconn
           /\ cx[conn[r]] \in Connection
           /\ pc[r] \in {"select", "insertRow", "insertLog", "commit"} => seq[r] \in SeqNo
<1>1. conn[r] \in 1 .. nconn /\ nconn \in 0 .. MaxConns
    BY DEF BaseInv, ThreadInv, TypeOK
<1>2. conn[r] \in Conn /\ conn[r] <= nconn
    BY <1>1, BoundsAssumption DEF Conn
<1>3. cx \in [Conn -> Connection]
    BY DEF BaseInv, TypeOK
<1>4. QED
    BY <1>2, <1>3 DEF BaseInv, ThreadInv

\* What a step at a connection leaves alone.
ByThread == UNCHANGED <<kind, seq, frame, conn, db, nconn>>
NoStore == UNCHANGED <<rows, log>>
NoFault == UNCHANGED <<faults, overlapped, clashed>>

LEMMA SelectDoes ==
    ASSUME BaseInv, NEW r \in Request, Select(r)
    PROVE  /\ pc[r] = "select" /\ Usable(conn[r]) /\ ByThread /\ NoStore /\ NoFault
           /\ Becomes(conn[r], [cx[conn[r]] EXCEPT !.begun = TRUE])
           /\ \/ seq[r] \in log \cup cx[conn[r]].log /\ Goes(r, "done", "duplicate")
              \/ seq[r] \notin log \cup cx[conn[r]].log /\ Goes(r, "insertRow", "none")
<1> DEFINE x == [cx[conn[r]] EXCEPT !.begun = TRUE]
<1>1. /\ cx \in [Conn -> Connection] /\ conn[r] \in Conn /\ cx[conn[r]] \in Connection
    BY InHand DEF Select, AtConn
<1>2. x \in Connection
    BY <1>1 DEF Connection
<1>3. cx' = [cx EXCEPT ![conn[r]] = x]
    BY <1>1 DEF Select, Connection
<1>4. Becomes(conn[r], x)
    BY <1>1, <1>2, <1>3, Update
<1>5. \/ seq[r] \in log \cup cx[conn[r]].log /\ Goes(r, "done", "duplicate")
      \/ seq[r] \notin log \cup cx[conn[r]].log /\ Goes(r, "insertRow", "none")
    BY AnswerGoes, GotoGoes DEF Select, Labels, Answers
<1>6. QED
    BY <1>4, <1>5 DEF Select, ByThread, NoStore, NoFault, ghosts

LEMMA InsertRowDoes ==
    ASSUME BaseInv, NEW r \in Request, InsertRow(r)
    PROVE  /\ pc[r] = "insertRow" /\ Usable(conn[r]) /\ ByThread /\ NoStore /\ NoFault
           /\ Becomes(conn[r], [cx[conn[r]] EXCEPT !.begun = TRUE, !.rows = @ \cup {r}])
           /\ Goes(r, "insertLog", "none")
<1> DEFINE x == [cx[conn[r]] EXCEPT !.begun = TRUE, !.rows = @ \cup {r}]
<1>1. /\ cx \in [Conn -> Connection] /\ conn[r] \in Conn /\ cx[conn[r]] \in Connection
    BY InHand DEF InsertRow, AtConn
<1>2. x \in Connection
    BY <1>1 DEF Connection
<1>3. cx' = [cx EXCEPT ![conn[r]] = x]
    BY <1>1 DEF InsertRow, Connection
<1>4. Becomes(conn[r], x)
    BY <1>1, <1>2, <1>3, Update
<1>5. Goes(r, "insertLog", "none")
    BY GotoGoes DEF InsertRow, Labels
<1>6. QED
    BY <1>4, <1>5 DEF InsertRow, ByThread, NoStore, NoFault, ghosts

LEMMA InsertLogDoes ==
    ASSUME BaseInv, NEW r \in Request, InsertLog(r)
    PROVE  /\ pc[r] = "insertLog" /\ Usable(conn[r]) /\ ByThread /\ NoStore /\ NoFault
           /\ Becomes(conn[r], [cx[conn[r]] EXCEPT !.begun = TRUE,
                                                   !.log = @ \cup ({seq[r]} \ log)])
           /\ Goes(r, "commit", "none")
<1> DEFINE x == [cx[conn[r]] EXCEPT !.begun = TRUE, !.log = @ \cup ({seq[r]} \ log)]
<1>1. /\ cx \in [Conn -> Connection] /\ conn[r] \in Conn /\ cx[conn[r]] \in Connection
      /\ seq[r] \in SeqNo
    BY InHand DEF InsertLog, AtConn
<1>2. x \in Connection
    BY <1>1 DEF Connection
<1>3. cx' = [cx EXCEPT ![conn[r]] = x]
    BY <1>1 DEF InsertLog, Connection
<1>4. Becomes(conn[r], x)
    BY <1>1, <1>2, <1>3, Update
<1>5. Goes(r, "commit", "none")
    BY GotoGoes DEF InsertLog, Labels
<1>6. QED
    BY <1>4, <1>5 DEF InsertLog, ByThread, NoStore, NoFault, ghosts

LEMMA ReadDoes ==
    ASSUME BaseInv, NEW r \in Request, Read(r)
    PROVE  /\ pc[r] = "read" /\ Usable(conn[r]) /\ ByThread /\ NoStore /\ NoFault
           /\ Becomes(conn[r], [cx[conn[r]] EXCEPT !.begun = TRUE])
           /\ Goes(r, "done", "ok")
<1> DEFINE x == [cx[conn[r]] EXCEPT !.begun = TRUE]
<1>1. /\ cx \in [Conn -> Connection] /\ conn[r] \in Conn /\ cx[conn[r]] \in Connection
    BY InHand DEF Read, AtConn
<1>2. x \in Connection
    BY <1>1 DEF Connection
<1>3. cx' = [cx EXCEPT ![conn[r]] = x]
    BY <1>1 DEF Read, Connection
<1>4. Becomes(conn[r], x)
    BY <1>1, <1>2, <1>3, Update
<1>5. Goes(r, "done", "ok")
    BY AnswerGoes DEF Read, Answers
<1>6. QED
    BY <1>4, <1>5 DEF Read, ByThread, NoStore, NoFault, ghosts

\* The statement is not run.
LEMMA StatementRaisesDoes ==
    ASSUME BaseInv, NEW r \in Request, StatementRaises(r)
    PROVE  /\ AtStatement(r) /\ ~ Usable(conn[r]) /\ ByThread /\ NoStore /\ NoFault
           /\ Becomes(conn[r], [cx[conn[r]] EXCEPT !.closed = @ \/ ~ cx[conn[r]].alive])
           /\ Raised(r)
<1> DEFINE x == [cx[conn[r]] EXCEPT !.closed = @ \/ ~ cx[conn[r]].alive]
<1>1. /\ cx \in [Conn -> Connection] /\ conn[r] \in Conn /\ cx[conn[r]] \in Connection
    BY InHand DEF StatementRaises, AtStatement, AtConn
<1>2. x \in Connection
    BY <1>1 DEF Connection
<1>3. cx' = [cx EXCEPT ![conn[r]] = x]
    BY <1>1 DEF StatementRaises, Connection
<1>4. Becomes(conn[r], x)
    BY <1>1, <1>2, <1>3, Update
<1>5. Raised(r)
    BY RaiseRaised DEF StatementRaises, AtStatement
<1>6. QED
    BY <1>4, <1>5 DEF StatementRaises, ByThread, NoStore, NoFault, ghosts

LEMMA StatementFailsDoes ==
    ASSUME BaseInv, NEW r \in Request, StatementFails(r)
    PROVE  /\ AtStatement(r) /\ Usable(conn[r]) /\ ByThread /\ NoStore /\ Fault
           /\ Becomes(conn[r], [Cleared(cx[conn[r]]) EXCEPT !.begun = TRUE, !.aborted = TRUE])
           /\ Raised(r)
<1> DEFINE x == [Cleared(cx[conn[r]]) EXCEPT !.begun = TRUE, !.aborted = TRUE]
<1>1. /\ cx \in [Conn -> Connection] /\ conn[r] \in Conn /\ cx[conn[r]] \in Connection
    BY InHand DEF StatementFails, AtStatement, AtConn
<1>2. x \in Connection
    BY <1>1 DEF Connection, Cleared
<1>3. cx' = [cx EXCEPT ![conn[r]] = x]
    BY <1>1 DEF StatementFails
<1>4. Becomes(conn[r], x)
    BY <1>1, <1>2, <1>3, Update
<1>5. Raised(r)
    BY RaiseRaised DEF StatementFails, AtStatement
<1>6. QED
    BY <1>4, <1>5 DEF StatementFails, ByThread, NoStore

LEMMA CommitDoes ==
    ASSUME BaseInv, NEW r \in Request, Commit(r)
    PROVE  /\ pc[r] = "commit" /\ ByThread /\ NoFault
           /\ ~ cx[conn[r]].closed /\ (cx[conn[r]].begun => cx[conn[r]].alive)
           /\ Becomes(conn[r], Cleared(cx[conn[r]]))
           /\ rows' = rows \cup cx[conn[r]].rows /\ log' = log \cup cx[conn[r]].log
           /\ Goes(r, "done", "stored")
<1>1. /\ cx \in [Conn -> Connection] /\ conn[r] \in Conn /\ cx[conn[r]] \in Connection
    BY InHand DEF Commit, AtConn
<1>2. Cleared(cx[conn[r]]) \in Connection
    BY <1>1, Cleaned
<1>3. cx' = [cx EXCEPT ![conn[r]] = Cleared(cx[conn[r]])]
    BY <1>1 DEF Commit
<1>4. Becomes(conn[r], Cleared(cx[conn[r]]))
    BY <1>1, <1>2, <1>3, Update
<1>5. Goes(r, "done", "stored")
    BY AnswerGoes DEF Commit, Answers
<1>6. QED
    BY <1>4, <1>5 DEF Commit, ByThread, NoFault, ghosts

LEMMA CommitRaisesDoes ==
    ASSUME BaseInv, NEW r \in Request, CommitRaises(r)
    PROVE  /\ pc[r] = "commit" /\ ByThread /\ NoStore /\ NoFault
           /\ cx[conn[r]].closed \/ (cx[conn[r]].begun /\ ~ cx[conn[r]].alive)
           /\ Becomes(conn[r], [cx[conn[r]] EXCEPT !.closed = TRUE])
           /\ Raised(r)
<1> DEFINE x == [cx[conn[r]] EXCEPT !.closed = TRUE]
<1>1. /\ cx \in [Conn -> Connection] /\ conn[r] \in Conn /\ cx[conn[r]] \in Connection
    BY InHand DEF CommitRaises, AtConn
<1>2. x \in Connection
    BY <1>1 DEF Connection
<1>3. cx' = [cx EXCEPT ![conn[r]] = x]
    BY <1>1 DEF CommitRaises, Connection
<1>4. Becomes(conn[r], x)
    BY <1>1, <1>2, <1>3, Update
<1>5. Raised(r)
    BY RaiseRaised DEF CommitRaises
<1>6. QED
    BY <1>4, <1>5 DEF CommitRaises, ByThread, NoStore, NoFault, ghosts

LEMMA CommitReplyLostDoes ==
    ASSUME BaseInv, NEW r \in Request, CommitReplyLost(r)
    PROVE  /\ pc[r] = "commit" /\ ByThread /\ Fault
           /\ ~ cx[conn[r]].closed /\ cx[conn[r]].begun /\ cx[conn[r]].alive
           /\ Becomes(conn[r], [Cleared(cx[conn[r]]) EXCEPT !.alive = FALSE, !.closed = TRUE])
           /\ rows' = rows \cup cx[conn[r]].rows /\ log' = log \cup cx[conn[r]].log
           /\ Raised(r)
<1> DEFINE x == [Cleared(cx[conn[r]]) EXCEPT !.alive = FALSE, !.closed = TRUE]
<1>1. /\ cx \in [Conn -> Connection] /\ conn[r] \in Conn /\ cx[conn[r]] \in Connection
    BY InHand DEF CommitReplyLost, AtConn
<1>2. x \in Connection
    BY <1>1 DEF Connection, Cleared
<1>3. cx' = [cx EXCEPT ![conn[r]] = x]
    BY <1>1 DEF CommitReplyLost
<1>4. Becomes(conn[r], x)
    BY <1>1, <1>2, <1>3, Update
<1>5. Raised(r)
    BY RaiseRaised DEF CommitReplyLost
<1>6. QED
    BY <1>4, <1>5 DEF CommitReplyLost, ByThread

\* The connection is clean or noticed to be dead.
LEMMA RollbackDoes ==
    ASSUME BaseInv, NEW r \in Request, Rollback(r)
    PROVE  /\ pc[r] = "rollback" /\ ByThread /\ NoStore /\ NoFault
           /\ LET x == cx[conn[r]] IN
              \/ /\ x.closed \/ (x.begun /\ ~ x.alive)
                 /\ Becomes(conn[r], [x EXCEPT !.closed = TRUE])
              \/ /\ ~ (x.closed \/ (x.begun /\ ~ x.alive))
                 /\ Becomes(conn[r], Cleared(x))
           /\ Goes(r, "done", "failed")
<1> DEFINE x == cx[conn[r]]
           gone == x.closed \/ (x.begun /\ ~ x.alive)
<1>1. /\ cx \in [Conn -> Connection] /\ conn[r] \in Conn /\ x \in Connection
    BY InHand DEF Rollback, AtConn
<1>2. cx' = [cx EXCEPT ![conn[r]] = IF gone THEN [x EXCEPT !.closed = TRUE] ELSE Cleared(x)]
    BY <1>1 DEF Rollback
<1>3. Cleared(x) \in Connection /\ [x EXCEPT !.closed = TRUE] \in Connection
    BY <1>1, Cleaned DEF Connection
<1>4. CASE gone
  <2>1. cx' = [cx EXCEPT ![conn[r]] = [x EXCEPT !.closed = TRUE]]
    BY <1>2, <1>4
  <2>2. QED
    BY <1>1, <1>3, <1>4, <2>1, Update, AnswerGoes
       DEF Rollback, ByThread, NoStore, NoFault, ghosts, Answers
<1>5. CASE ~ gone
  <2>1. cx' = [cx EXCEPT ![conn[r]] = Cleared(x)]
    BY <1>2, <1>5
  <2>2. QED
    BY <1>1, <1>3, <1>5, <2>1, Update, AnswerGoes
       DEF Rollback, ByThread, NoStore, NoFault, ghosts, Answers
<1>6. QED
    BY <1>4, <1>5

LEMMA GetDbCheckDoes ==
    ASSUME BaseInv, NEW r \in Request, GetDbCheck(r)
    PROVE  /\ ByThread /\ NoStore /\ NoFault /\ UNCHANGED cx
           /\ \/ pc[r] = "check" /\ NeedsConnect /\ Goes(r, "connect", "none")
              \/ pc[r] = "check" /\ ~ NeedsConnect /\ Goes(r, "return", "none")
              \/ pc[r] = "recheck" /\ NeedsConnect /\ Goes(r, "reconnect", "none")
              \/ pc[r] = "recheck" /\ ~ NeedsConnect /\ Goes(r, "rereturn", "none")
<1>1. /\ ByThread /\ NoStore /\ NoFault /\ UNCHANGED <<cx, answer>>
      /\ pc[r] \in {"check", "recheck"} /\ pc[r] # "done"
    BY DEF GetDbCheck, ByThread, NoStore, NoFault, dbVars, ghosts
<1>2. CASE pc[r] = "check"
  <2>1. Goto(r, IF NeedsConnect THEN "connect" ELSE "return")
    BY <1>2 DEF GetDbCheck, Recovering
  <2>2. QED
    BY <1>1, <1>2, <2>1, GotoGoes DEF Labels
<1>3. CASE pc[r] = "recheck"
  <2>1. Goto(r, IF NeedsConnect THEN "reconnect" ELSE "rereturn")
    BY <1>3 DEF GetDbCheck, Recovering
  <2>2. QED
    BY <1>1, <1>3, <2>1, GotoGoes DEF Labels
<1>4. QED
    BY <1>1, <1>2, <1>3

LEMMA GetDbConnectDoes ==
    ASSUME BaseInv, NEW r \in Request, GetDbConnect(r)
    PROVE  /\ UNCHANGED <<kind, seq, frame, conn, cx>> /\ NoStore /\ NoFault
           /\ nconn + 1 \in Conn /\ nconn' = nconn + 1 /\ db' = nconn + 1
           /\ \/ pc[r] = "connect" /\ Goes(r, "configure", "none")
              \/ pc[r] = "reconnect" /\ Goes(r, "reconfigure", "none")
<1>1. nconn + 1 \in Conn
    BY BoundsAssumption DEF GetDbConnect, BaseInv, TypeOK, Conn
<1>2. CASE pc[r] = "connect"
  <2>1. Goto(r, "configure") /\ UNCHANGED answer
    BY <1>2 DEF GetDbConnect, Recovering
  <2>2. QED
    BY <1>1, <1>2, <2>1, GotoGoes DEF GetDbConnect, Labels, NoStore, NoFault, ghosts
<1>3. CASE pc[r] = "reconnect"
  <2>1. Goto(r, "reconfigure") /\ UNCHANGED answer
    BY <1>3 DEF GetDbConnect, Recovering
  <2>2. QED
    BY <1>1, <1>3, <2>1, GotoGoes DEF GetDbConnect, Labels, NoStore, NoFault, ghosts
<1>4. QED
    BY <1>2, <1>3 DEF GetDbConnect

LEMMA GetDbConfigureDoes ==
    ASSUME BaseInv, NEW r \in Request, GetDbConfigure(r)
    PROVE  /\ ByThread /\ NoStore /\ UNCHANGED <<cx, faults, overlapped>>
           /\ pc[r] \in {"configure", "reconfigure"}
           /\ \/ /\ cx[db].closed \/ cx[db].begun
                 /\ clashed' = TRUE /\ Raised(r)
              \/ pc[r] = "configure" /\ UNCHANGED clashed /\ Goes(r, "return", "none")
              \/ pc[r] = "reconfigure" /\ UNCHANGED clashed /\ Goes(r, "rereturn", "none")
<1>1. /\ ByThread /\ NoStore /\ UNCHANGED <<cx, faults, overlapped>>
      /\ pc[r] \in {"configure", "reconfigure"} /\ pc[r] # "done" /\ pc[r] # "rollback"
    BY DEF GetDbConfigure, ByThread, NoStore, dbVars
<1>2. CASE cx[db].closed \/ cx[db].begun
  <2>1. clashed' = TRUE /\ Raise(r)
    BY <1>2 DEF GetDbConfigure
  <2>2. QED
    BY <1>1, <1>2, <2>1, RaiseRaised
<1>3. CASE ~ (cx[db].closed \/ cx[db].begun)
  <2>1. /\ Goto(r, IF Recovering(r) THEN "rereturn" ELSE "return")
        /\ UNCHANGED <<answer, clashed>>
    BY <1>3 DEF GetDbConfigure
  <2>2. QED
    BY <1>1, <2>1, GotoGoes DEF Labels, Recovering
<1>4. QED
    BY <1>2, <1>3

LEMMA GetDbReturnDoes ==
    ASSUME BaseInv, NEW r \in Request, GetDbReturn(r)
    PROVE  /\ UNCHANGED <<kind, seq, frame, db, nconn, cx>> /\ NoStore /\ NoFault
           /\ conn' \in [Request -> Conn \cup {None}] /\ conn'[r] = db
           /\ \A q \in Request : q # r => conn'[q] = conn[q]
           /\ \/ pc[r] = "rereturn" /\ Goes(r, "rollback", "none")
              \/ pc[r] = "return" /\ kind[r] = "ingest" /\ Goes(r, "select", "none")
              \/ pc[r] = "return" /\ kind[r] \in {"forced", "sms"} /\ Goes(r, "insertRow", "none")
              \/ pc[r] = "return" /\ kind[r] = "read" /\ Goes(r, "read", "none")
<1>1. /\ UNCHANGED <<kind, seq, frame, db, nconn, cx>> /\ NoStore /\ NoFault
      /\ UNCHANGED answer /\ pc[r] \in {"return", "rereturn"} /\ pc[r] # "done"
    BY DEF GetDbReturn, NoStore, NoFault, dbVars, ghosts
<1>2. /\ conn' \in [Request -> Conn \cup {None}] /\ conn'[r] = db
      /\ \A q \in Request : q # r => conn'[q] = conn[q]
    BY DEF GetDbReturn, BaseInv, TypeOK
<1>3. kind[r] \in {"ingest", "forced", "sms", "read"}
    BY <1>1, KindsAssumption DEF BaseInv, ThreadInv
<1>4. CASE pc[r] = "rereturn"
  <2>1. Goto(r, "rollback")
    BY <1>4 DEF GetDbReturn, Recovering
  <2>2. QED
    BY <1>1, <1>2, <1>4, <2>1, GotoGoes DEF Labels
<1>5. CASE pc[r] = "return"
  <2>1. CASE kind[r] = "ingest"
    <3>1. Goto(r, "select")
      BY <1>5, <2>1 DEF GetDbReturn, Recovering
    <3>2. QED
      BY <1>1, <1>2, <1>5, <2>1, <3>1, GotoGoes DEF Labels
  <2>2. CASE kind[r] \in {"forced", "sms"}
    <3>1. Goto(r, "insertRow")
      BY <1>5, <2>2 DEF GetDbReturn, Recovering
    <3>2. QED
      BY <1>1, <1>2, <1>5, <2>2, <3>1, GotoGoes DEF Labels
  <2>3. CASE kind[r] = "read"
    <3>1. Goto(r, "read")
      BY <1>5, <2>3 DEF GetDbReturn, Recovering
    <3>2. QED
      BY <1>1, <1>2, <1>5, <2>3, <3>1, GotoGoes DEF Labels
  <2>4. QED
    BY <1>3, <2>1, <2>2, <2>3
<1>6. QED
    BY <1>1, <1>4, <1>5

LEMMA ConnectFailsDoes ==
    ASSUME BaseInv, NEW r \in Request, ConnectFails(r)
    PROVE  /\ ByThread /\ NoStore /\ Fault /\ UNCHANGED cx
           /\ pc[r] \in {"connect", "reconnect"} /\ Raised(r)
BY RaiseRaised DEF ConnectFails, ByThread, NoStore, dbVars

LEMMA RestartDoes ==
    ASSUME BaseInv, Restart
    PROVE  /\ ByThread /\ NoStore /\ Fault /\ UNCHANGED <<pc, answer>>
           /\ cx' \in [Conn -> Connection]
           /\ \A c \in Conn :
                IF c <= nconn
                THEN /\ cx'[c].closed = cx[c].closed /\ cx'[c].begun = cx[c].begun
                     /\ cx'[c].alive = FALSE /\ cx'[c].aborted = FALSE
                     /\ cx'[c].rows = {} /\ cx'[c].log = {}
                ELSE cx'[c] = cx[c]
<1> DEFINE dead(c) == [cx[c] EXCEPT !.alive = FALSE, !.aborted = FALSE, !.rows = {}, !.log = {}]
<1>1. ASSUME NEW c \in Conn
      PROVE  /\ dead(c) \in Connection /\ cx[c] \in Connection
             /\ dead(c).closed = cx[c].closed /\ dead(c).begun = cx[c].begun
             /\ dead(c).alive = FALSE /\ dead(c).aborted = FALSE
             /\ dead(c).rows = {} /\ dead(c).log = {}
    BY DEF BaseInv, TypeOK, Connection
<1>2. cx' = [c \in Conn |-> IF c <= nconn THEN dead(c) ELSE cx[c]]
    BY DEF Restart
<1> HIDE DEF dead
<1>3. cx' \in [Conn -> Connection]
    BY <1>1, <1>2
<1>4. QED
    BY <1>1, <1>2, <1>3 DEF Restart, ByThread, NoStore, threadVars

LEMMA ArriveDoes ==
    ASSUME BaseInv, NEW r \in Request, Arrive(r)
    PROVE  /\ pc[r] = "new" /\ UNCHANGED <<conn, db, nconn, cx, faults, clashed>> /\ NoStore
           /\ overlapped' = (overlapped \/ Active # {})
           /\ kind' \in [Request -> {"none"} \cup Kinds] /\ seq' \in [Request -> SeqNo \cup {None}]
           /\ frame' \in [Request -> SmsFrames \cup {None}]
           /\ kind'[r] \in Kinds
           /\ \A q \in Request : q # r => kind'[q] = kind[q] /\ seq'[q] = seq[q]
           /\ \/ (kind'[r] # "read" => seq'[r] \in SeqNo) /\ Goes(r, "check", "none")
              \/ Goes(r, "done", "nothing")
<1>1. /\ pc[r] = "new" /\ pc[r] # "done"
      /\ UNCHANGED <<conn, db, nconn, cx, faults, clashed>> /\ NoStore
      /\ overlapped' = (overlapped \/ Active # {})
    BY DEF Arrive, dbVars, NoStore
<1>2. /\ kind \in [Request -> {"none"} \cup Kinds] /\ seq \in [Request -> SeqNo \cup {None}]
      /\ frame \in [Request -> SmsFrames \cup {None}]
    BY DEF BaseInv, TypeOK
<1>3. CASE ArriveReading(r)
  <2>1. PICK k \in Kinds, n \in SeqNo :
            /\ kind' = [kind EXCEPT ![r] = k] /\ seq' = [seq EXCEPT ![r] = n]
            /\ Goto(r, "check") /\ UNCHANGED <<frame, answer>>
    BY <1>3 DEF ArriveReading
  <2>2. Goes(r, "check", "none")
    BY <1>1, <2>1, GotoGoes DEF Labels
  <2>3. QED
    BY <1>1, <1>2, <2>1, <2>2
<1>4. CASE ArriveSms(r)
  <2>1. PICK f \in SmsFrames :
            /\ "sms" \in Kinds
            /\ kind' = [kind EXCEPT ![r] = "sms"] /\ frame' = [frame EXCEPT ![r] = f]
            /\ \/ Answer(r, "nothing") /\ UNCHANGED seq
               \/ seq' = [seq EXCEPT ![r] = 0] /\ Goto(r, "check") /\ UNCHANGED answer
    BY <1>4 DEF ArriveSms, Found, FoundAt
  <2>2. CASE Answer(r, "nothing") /\ UNCHANGED seq
    BY <1>1, <1>2, <2>1, <2>2, AnswerGoes DEF Answers
  <2>3. CASE seq' = [seq EXCEPT ![r] = 0] /\ Goto(r, "check") /\ UNCHANGED answer
    <3>1. Goes(r, "check", "none")
      BY <1>1, <2>3, GotoGoes DEF Labels
    <3>2. QED
      BY <1>1, <1>2, <2>1, <2>3, <3>1, SeqNoAssumption
  <2>4. QED
    BY <2>1, <2>2, <2>3
<1>5. CASE ArriveRead(r)
  <2>1. /\ "read" \in Kinds /\ kind' = [kind EXCEPT ![r] = "read"]
        /\ Goto(r, "check") /\ UNCHANGED <<seq, frame, answer>>
    BY <1>5 DEF ArriveRead
  <2>2. Goes(r, "check", "none")
    BY <1>1, <2>1, GotoGoes DEF Labels
  <2>3. QED
    BY <1>1, <1>2, <2>1, <2>2
<1>6. QED
    BY <1>3, <1>4, <1>5 DEF Arrive

-----------------------------------------------------------------------------
(* What holds always.                                                      *)

\* A step at a connection.
LEMMA AtConnBase ==
    ASSUME BaseInv, NEW r \in Request, pc[r] \in AtConn, ByThread,
           NEW x, Becomes(conn[r], x),
           rows' \subseteq Request, log' \subseteq SeqNo, faults' \in 0 .. MaxFaults,
           UNCHANGED <<overlapped, clashed>>,
           NEW b \in {"insertRow", "insertLog", "commit", "recheck", "done"},
           NEW a \in Answers, Goes(r, b, a), b = "done" \/ a = "none",
           b \in {"insertRow", "insertLog", "commit"} => kind[r] # "read"
    PROVE  BaseInv'
<1>1. TypeOK'
    BY DEF BaseInv, TypeOK, ByThread, Becomes, Goes, Labels, Answers
<1>2. ThreadInv'
    BY DEF BaseInv, ThreadInv, ByThread, Goes, AtConn
<1>3. ConnInv'
  <2>1. conn[r] <= nconn /\ nconn \in Nat /\ conn[r] \in Conn
    BY InHand DEF BaseInv, TypeOK
  <2>2. \A c \in Conn : c > nconn => c # conn[r]
    BY <2>1 DEF Conn
  <2>3. QED
    BY <2>2 DEF BaseInv, ConnInv, ByThread, Becomes
<1>4. QED
    BY <1>1, <1>2, <1>3 DEF BaseInv

\* The cases of a statement that raises.
LEMMA AtConnRaised ==
    ASSUME BaseInv, NEW r \in Request, pc[r] \in AtConn, ByThread,
           NEW x, Becomes(conn[r], x),
           rows' \subseteq Request, log' \subseteq SeqNo, faults' \in 0 .. MaxFaults,
           UNCHANGED <<overlapped, clashed>>, Raised(r)
    PROVE  BaseInv'
<1>1. CASE Goes(r, "done", "failed") \/ Goes(r, "done", "error")
    BY <1>1, AtConnBase DEF Answers
<1>2. CASE Goes(r, "recheck", "none")
    BY <1>2, AtConnBase DEF Answers
<1>3. QED
    BY <1>1, <1>2 DEF Raised

LEMMA StatementBase ==
    ASSUME BaseInv, NEW r \in Request,
           Select(r) \/ InsertRow(r) \/ InsertLog(r) \/ Read(r) \/ StatementRaises(r)
    PROVE  BaseInv'
<1>1. /\ rows \subseteq Request /\ log \subseteq SeqNo /\ faults \in 0 .. MaxFaults
      /\ pc[r] \in {"select", "insertRow", "insertLog", "commit"} => kind[r] # "read"
    BY DEF BaseInv, TypeOK, ThreadInv
<1>2. CASE Select(r)
    BY <1>1, <1>2, SelectDoes, AtConnBase DEF NoStore, NoFault, AtConn, Answers
<1>3. CASE InsertRow(r)
    BY <1>1, <1>3, InsertRowDoes, AtConnBase DEF NoStore, NoFault, AtConn, Answers
<1>4. CASE InsertLog(r)
    BY <1>1, <1>4, InsertLogDoes, AtConnBase DEF NoStore, NoFault, AtConn, Answers
<1>5. CASE Read(r)
    BY <1>1, <1>5, ReadDoes, AtConnBase DEF NoStore, NoFault, AtConn, Answers
<1>6. CASE StatementRaises(r)
    BY <1>1, <1>6, StatementRaisesDoes, AtConnRaised
       DEF NoStore, NoFault, AtConn, AtStatement
<1>7. QED
    BY <1>2, <1>3, <1>4, <1>5, <1>6

LEMMA EndBase ==
    ASSUME BaseInv, NEW r \in Request, Commit(r) \/ CommitRaises(r) \/ Rollback(r)
    PROVE  BaseInv'
<1>1. rows \subseteq Request /\ log \subseteq SeqNo /\ faults \in 0 .. MaxFaults
    BY DEF BaseInv, TypeOK
<1>2. CASE Commit(r)
  <2>1. cx[conn[r]].rows \subseteq Request /\ cx[conn[r]].log \subseteq SeqNo
    BY <1>2, CommitDoes, InHand DEF AtConn, Connection
  <2>2. QED
    BY <1>1, <1>2, <2>1, CommitDoes, AtConnBase DEF NoFault, AtConn, Answers
<1>3. CASE CommitRaises(r)
    BY <1>1, <1>3, CommitRaisesDoes, AtConnRaised DEF NoStore, NoFault, AtConn
<1>4. CASE Rollback(r)
  <2>1. PICK x : Becomes(conn[r], x)
    BY <1>4, RollbackDoes
  <2>2. QED
    BY <1>1, <1>4, <2>1, RollbackDoes, AtConnBase DEF NoStore, NoFault, AtConn, Answers
<1>5. QED
    BY <1>2, <1>3, <1>4

LEMMA FaultBase ==
    ASSUME BaseInv, NEW r \in Request,
           StatementFails(r) \/ ConnectFails(r) \/ CommitReplyLost(r)
    PROVE  BaseInv'
<1>1. /\ rows \subseteq Request /\ log \subseteq SeqNo
      /\ Fault => faults' \in 0 .. MaxFaults /\ UNCHANGED <<overlapped, clashed>>
    BY BoundsAssumption DEF BaseInv, TypeOK, Fault
<1>2. CASE StatementFails(r)
    BY <1>1, <1>2, StatementFailsDoes, AtConnRaised DEF NoStore, AtConn, AtStatement
<1>3. CASE CommitReplyLost(r)
  <2>1. cx[conn[r]].rows \subseteq Request /\ cx[conn[r]].log \subseteq SeqNo
    BY <1>3, CommitReplyLostDoes, InHand DEF AtConn, Connection
  <2>2. QED
    BY <1>1, <1>3, <2>1, CommitReplyLostDoes, AtConnRaised DEF AtConn
<1>4. CASE ConnectFails(r)
  <2>1. /\ ByThread /\ NoStore /\ Fault /\ UNCHANGED cx
        /\ pc[r] \in {"connect", "reconnect"} /\ Raised(r)
    BY <1>4, ConnectFailsDoes
  <2>2. TypeOK'
    BY <1>1, <2>1 DEF BaseInv, TypeOK, ByThread, NoStore, Raised, Goes, Labels, Answers
  <2>3. ThreadInv'
    BY <2>1 DEF BaseInv, ThreadInv, ByThread, Raised, Goes, AtConn
  <2>4. QED
    BY <2>1, <2>2, <2>3 DEF BaseInv, ConnInv, ByThread
<1>5. QED
    BY <1>2, <1>3, <1>4

LEMMA RestartBase == BaseInv /\ Restart => BaseInv'
<1> SUFFICES ASSUME BaseInv, Restart PROVE BaseInv'
    OBVIOUS
<1>1. /\ ByThread /\ NoStore /\ Fault /\ UNCHANGED <<pc, answer>>
      /\ cx' \in [Conn -> Connection]
      /\ \A c \in Conn : ~ (c <= nconn) => cx'[c] = cx[c]
    BY RestartDoes
<1>2. nconn \in Nat
    BY DEF BaseInv, TypeOK
<1>3. TypeOK'
    BY <1>1, BoundsAssumption DEF BaseInv, TypeOK, ByThread, NoStore, Fault
<1>4. ThreadInv'
    BY <1>1 DEF BaseInv, ThreadInv, ByThread
<1>5. ConnInv'
    BY <1>1, <1>2 DEF BaseInv, ConnInv, ByThread, Conn
<1>6. QED
    BY <1>3, <1>4, <1>5 DEF BaseInv

LEMMA GetDbBase ==
    ASSUME BaseInv, NEW r \in Request,
           GetDbCheck(r) \/ GetDbConnect(r) \/ GetDbConfigure(r) \/ GetDbReturn(r)
    PROVE  BaseInv'
<1>1. CASE GetDbCheck(r)
  <2>1. TypeOK'
    BY <1>1, GetDbCheckDoes
       DEF BaseInv, TypeOK, ByThread, NoStore, NoFault, Goes, Labels, Answers
  <2>2. ThreadInv'
    BY <1>1, GetDbCheckDoes DEF BaseInv, ThreadInv, ByThread, Goes, AtConn, NeedsConnect
  <2>3. QED
    BY <1>1, <2>1, <2>2, GetDbCheckDoes DEF BaseInv, ConnInv, ByThread
<1>2. CASE GetDbConnect(r)
  <2>1. nconn \in Nat /\ nconn + 1 \in Conn /\ nconn' = nconn + 1 /\ db' = nconn + 1
    BY <1>2, GetDbConnectDoes DEF BaseInv, TypeOK
  <2>2. TypeOK'
    BY <1>2, <2>1, GetDbConnectDoes, BoundsAssumption
       DEF BaseInv, TypeOK, NoStore, NoFault, Goes, Labels, Answers, Conn
  <2>3. db' # None /\ \A q \in Request : conn[q] \in 1 .. nconn => conn[q] \in 1 .. nconn'
    BY <2>1, NoneAssumption
  <2>4. ThreadInv'
    BY <1>2, <2>3, GetDbConnectDoes DEF BaseInv, ThreadInv, Goes, AtConn
  <2>5. ConnInv'
    BY <1>2, <2>1, GetDbConnectDoes DEF BaseInv, ConnInv, Conn
  <2>6. QED
    BY <2>2, <2>4, <2>5 DEF BaseInv
<1>3. CASE GetDbConfigure(r)
  <2>1. TypeOK'
    BY <1>3, GetDbConfigureDoes
       DEF BaseInv, TypeOK, ByThread, NoStore, Raised, Goes, Labels, Answers
  <2>2. ThreadInv'
    BY <1>3, GetDbConfigureDoes DEF BaseInv, ThreadInv, ByThread, Raised, Goes, AtConn
  <2>3. QED
    BY <1>3, <2>1, <2>2, GetDbConfigureDoes DEF BaseInv, ConnInv, ByThread
<1>4. CASE GetDbReturn(r)
  <2>1. TypeOK'
    BY <1>4, GetDbReturnDoes
       DEF BaseInv, TypeOK, NoStore, NoFault, Goes, Labels, Answers
  <2>2. conn'[r] \in 1 .. nconn
    BY <1>4, GetDbReturnDoes DEF BaseInv, ThreadInv, ConnInv
  <2>3. ThreadInv'
    BY <1>4, <2>2, GetDbReturnDoes DEF BaseInv, ThreadInv, Goes, AtConn
  <2>4. QED
    BY <1>4, <2>1, <2>3, GetDbReturnDoes DEF BaseInv, ConnInv
<1>5. QED
    BY <1>1, <1>2, <1>3, <1>4

LEMMA ArriveBase ==
    ASSUME BaseInv, NEW r \in Request, Arrive(r)
    PROVE  BaseInv'
<1>1. TypeOK'
    BY ArriveDoes DEF BaseInv, TypeOK, NoStore, Goes, Labels, Answers
<1>2. ThreadInv'
    BY ArriveDoes DEF BaseInv, ThreadInv, Goes, AtConn
<1>3. QED
    BY <1>1, <1>2, ArriveDoes DEF BaseInv, ConnInv

LEMMA BaseInitial == Init => BaseInv
<1> SUFFICES ASSUME Init PROVE BaseInv
    OBVIOUS
<1>1. Fresh \in Connection
    BY DEF Fresh, Connection
<1>2. TypeOK
  <2>1. cx \in [Conn -> Connection]
    BY <1>1 DEF Init
  <2>2. nconn \in 0 .. MaxConns /\ faults \in 0 .. MaxFaults
    BY BoundsAssumption DEF Init
  <2>3. QED
    BY <2>1, <2>2 DEF Init, TypeOK
<1>3. ThreadInv /\ ConnInv
    BY DEF Init, ThreadInv, ConnInv, AtConn
<1>4. QED
    BY <1>2, <1>3 DEF BaseInv

LEMMA BaseStep == BaseInv /\ [Next]_vars => BaseInv'
<1> SUFFICES ASSUME BaseInv, [Next]_vars PROVE BaseInv'
    OBVIOUS
<1>1. CASE UNCHANGED vars
    BY <1>1 DEF vars, threadVars, dbVars, ghosts, BaseInv, TypeOK, ThreadInv, ConnInv
<1>2. ASSUME NEW r \in Request, Arrive(r) \/ Thread(r) \/ FaultStep(r) PROVE BaseInv'
    BY <1>2, ArriveBase, GetDbBase, StatementBase, EndBase, FaultBase
       DEF Thread, FaultStep
<1>3. QED
    BY <1>1, <1>2, RestartBase DEF Next

-----------------------------------------------------------------------------
(* Threads that overlap while nothing fails.                               *)

LEMMA BaseTypes ==
    ASSUME BaseInv
    PROVE  rows \subseteq Request /\ \A c \in Conn : cx[c].rows \subseteq Request
BY DEF BaseInv, TypeOK, Connection

\* A step before the first statement, or an SMS in which nothing is found.
LEMMA SharedCalm ==
    ASSUME BaseInv, SharedInv, NEW r \in Request,
           pc[r] \notin {"insertLog", "commit", "done"},
           UNCHANGED cx, NoStore,
           \A q \in Request : q # r => conn'[q] = conn[q] /\ seq'[q] = seq[q],
           NEW b, b \notin Failing \cup {"insertLog", "commit"},
           NEW a \in {"none", "nothing"}, Goes(r, b, a)
    PROVE  SharedInv'
<1>1. /\ rows \subseteq Request /\ \A c \in Conn : cx[c].rows \subseteq Request
    BY BaseTypes
<1>2. r \notin rows /\ \A c \in Conn : r \notin cx[c].rows
    BY DEF SharedInv, RowsShared
<1>3. /\ \A q \in rows : q \in Request /\ q # r /\ seq'[q] = seq[q]
      /\ \A c \in Conn : \A q \in cx[c].rows : q \in Request /\ q # r /\ seq'[q] = seq[q]
    BY <1>1, <1>2
<1>4. /\ SeqOf(rows)' = SeqOf(rows)
      /\ \A c \in Conn : SeqOf(rows \cup cx[c].rows)' = SeqOf(rows \cup cx[c].rows)
      /\ SeqOf(rows \cup UNION { cx[c].rows : c \in Conn })'
            = SeqOf(rows \cup UNION { cx[c].rows : c \in Conn })
    BY <1>3 DEF SeqOf, NoStore
<1>5. AllWell'
    BY DEF SharedInv, AllWell, Goes
<1>6. RowsShared'
    BY <1>3 DEF SharedInv, RowsShared, Goes, NoStore
<1>7. LogShared'
    BY <1>3, <1>4 DEF SharedInv, LogShared, Goes, NoStore
<1>8. AnswersShared'
    BY <1>3, <1>4 DEF SharedInv, AnswersShared, Goes, NoStore
<1>9. QED
    BY <1>5, <1>6, <1>7, <1>8 DEF SharedInv

\* A statement that changes no row and no entry.
LEMMA SharedLook ==
    ASSUME BaseInv, SharedInv, NEW r \in Request, pc[r] \in {"select", "read"},
           ByThread, NoStore, Becomes(conn[r], [cx[conn[r]] EXCEPT !.begun = TRUE]),
           NEW b \in {"insertRow", "done"}, NEW a \in Answers \ {"stored"}, Goes(r, b, a),
           a = "duplicate" => seq[r] \in log \cup cx[conn[r]].log
    PROVE  SharedInv'
<1>1. conn[r] \in Conn /\ cx[conn[r]] \in Connection /\ cx \in [Conn -> Connection]
    BY InHand DEF AtConn
<1>2. \A c \in Conn : /\ cx'[c].closed = cx[c].closed /\ cx'[c].alive = cx[c].alive
                      /\ cx'[c].aborted = cx[c].aborted
                      /\ cx'[c].rows = cx[c].rows /\ cx'[c].log = cx[c].log
    BY <1>1 DEF Becomes, Connection
<1>3. r \notin rows /\ \A c \in Conn : r \notin cx[c].rows
    BY DEF SharedInv, RowsShared
<1>4. /\ SeqOf(rows)' = SeqOf(rows)
      /\ \A c \in Conn : SeqOf(rows \cup cx[c].rows)' = SeqOf(rows \cup cx[c].rows)
      /\ SeqOf(rows \cup UNION { cx[c].rows : c \in Conn })'
            = SeqOf(rows \cup UNION { cx[c].rows : c \in Conn })
    BY <1>2 DEF SeqOf, NoStore, ByThread
<1>5. AllWell'
    BY <1>2 DEF SharedInv, AllWell, Goes, Failing
<1>6. \A q \in Request : pc[q] \in {"insertLog", "commit"} => conn[q] \in Conn
    BY InHand DEF AtConn
<1>7. \A q \in Request : /\ pc'[q] \in {"insertLog", "commit"} <=> pc[q] \in {"insertLog", "commit"}
                         /\ pc'[q] = "commit" <=> pc[q] = "commit"
                         /\ pc'[q] = "done" /\ q # r => pc[q] = "done"
                         /\ pc[q] = "done" => pc'[q] = "done"
    BY DEF Goes
<1>8. RowsShared'
  <2>1. \A c \in Conn : \A q \in cx'[c].rows :
            conn'[q] = c /\ pc'[q] \in {"insertLog", "commit"}
    BY <1>2, <1>7, BaseTypes DEF SharedInv, RowsShared, ByThread
  <2>2. \A q \in rows' : pc'[q] \in {"insertLog", "commit", "done"}
    BY <1>7, BaseTypes DEF SharedInv, RowsShared, NoStore
  <2>3. \A q \in Request :
            pc'[q] \in {"insertLog", "commit"} => q \in rows' \/ q \in cx'[conn'[q]].rows
    BY <1>2, <1>6, <1>7 DEF SharedInv, RowsShared, NoStore, ByThread
  <2>4. QED
    BY <2>1, <2>2, <2>3 DEF RowsShared
<1>9. LogShared'
  <2>1. \A q \in rows' : pc'[q] = "done" => seq'[q] \in log'
    BY <1>3, <1>7, BaseTypes DEF SharedInv, LogShared, NoStore, ByThread
  <2>2. \A q \in Request : pc'[q] = "commit" => seq'[q] \in log' \cup cx'[conn'[q]].log
    BY <1>2, <1>6, <1>7 DEF SharedInv, LogShared, NoStore, ByThread
  <2>3. /\ log' \subseteq SeqOf(rows)'
        /\ \A c \in Conn : cx'[c].log \subseteq SeqOf(rows \cup cx[c].rows)'
    BY <1>2, <1>4 DEF SharedInv, LogShared, NoStore
  <2>4. QED
    BY <2>1, <2>2, <2>3 DEF LogShared
<1>10. seq[r] \in log \cup cx[conn[r]].log =>
           seq[r] \in SeqOf(rows \cup UNION { cx[c].rows : c \in Conn })
    BY <1>1 DEF SharedInv, LogShared, SeqOf
<1>11. AnswersShared'
    BY <1>4, <1>10 DEF SharedInv, AnswersShared, Goes, NoStore, ByThread
<1>12. QED
    BY <1>5, <1>8, <1>9, <1>11 DEF SharedInv

LEMMA SharedInsertRow ==
    ASSUME BaseInv, SharedInv, NEW r \in Request, InsertRow(r)
    PROVE  SharedInv'
<1>1. conn[r] \in Conn /\ cx[conn[r]] \in Connection /\ cx \in [Conn -> Connection]
    BY InHand DEF InsertRow, AtConn
<1>2. /\ pc[r] = "insertRow" /\ ByThread /\ NoStore /\ Goes(r, "insertLog", "none")
      /\ cx'[conn[r]].rows = cx[conn[r]].rows \cup {r}
      /\ cx'[conn[r]].log = cx[conn[r]].log
      /\ cx'[conn[r]].closed = cx[conn[r]].closed /\ cx'[conn[r]].alive = cx[conn[r]].alive
      /\ cx'[conn[r]].aborted = cx[conn[r]].aborted
      /\ \A d \in Conn : d # conn[r] => cx'[d] = cx[d]
  <2> DEFINE x == [cx[conn[r]] EXCEPT !.begun = TRUE, !.rows = @ \cup {r}]
  <2>1. Becomes(conn[r], x)
    BY InsertRowDoes
  <2>2. /\ x.closed = cx[conn[r]].closed /\ x.alive = cx[conn[r]].alive
        /\ x.aborted = cx[conn[r]].aborted
        /\ x.rows = cx[conn[r]].rows \cup {r}
        /\ x.log = cx[conn[r]].log
    BY <1>1 DEF Connection
  <2> HIDE DEF x
  <2>3. QED
    BY <2>1, <2>2, InsertRowDoes DEF Becomes
<1>3. r \notin rows /\ \A c \in Conn : r \notin cx[c].rows
    BY <1>2 DEF SharedInv, RowsShared
<1>4. AllWell'
    BY <1>2 DEF SharedInv, AllWell, Goes, Failing
<1>5. \A q \in Request : pc[q] \in {"insertLog", "commit"} => conn[q] \in Conn
    BY InHand DEF AtConn
<1>6. RowsShared'
  <2>1. ASSUME NEW c \in Conn, NEW q \in cx'[c].rows
        PROVE  conn'[q] = c /\ pc'[q] \in {"insertLog", "commit"}
    <3>1. q \in Request /\ (q \in cx[c].rows \/ (q = r /\ c = conn[r]))
      BY <1>2, BaseTypes
    <3>2. QED
      BY <1>2, <3>1 DEF SharedInv, RowsShared, Goes, ByThread
  <2>2. \A q \in rows' : pc'[q] \in {"insertLog", "commit", "done"}
    BY <1>2, BaseTypes DEF SharedInv, RowsShared, Goes, NoStore
  <2>3. \A q \in Request :
            pc'[q] \in {"insertLog", "commit"} => q \in rows' \/ q \in cx'[conn'[q]].rows
    BY <1>1, <1>2, <1>5 DEF SharedInv, RowsShared, Goes, NoStore, ByThread
  <2>4. QED
    BY <2>1, <2>2, <2>3 DEF RowsShared
<1>7. \A c \in Conn : cx[c].rows \subseteq cx'[c].rows /\ cx'[c].log = cx[c].log
    BY <1>2
<1>8. LogShared'
  <2>1. \A c \in Conn : SeqOf(rows \cup cx[c].rows) \subseteq SeqOf(rows \cup cx[c].rows)'
    BY <1>2, <1>7 DEF SeqOf, NoStore, ByThread
  <2>2. \A c \in Conn : cx'[c].log \subseteq SeqOf(rows \cup cx[c].rows)'
    BY <1>7, <2>1 DEF SharedInv, LogShared
  <2>3. log' \subseteq SeqOf(rows)'
    BY <1>2 DEF SharedInv, LogShared, SeqOf, NoStore, ByThread
  <2>4. \A q \in Request : pc'[q] = "commit" => seq'[q] \in log' \cup cx'[conn'[q]].log
    BY <1>2, <1>5, <1>7 DEF SharedInv, LogShared, Goes, NoStore, ByThread
  <2>5. \A q \in rows' : pc'[q] = "done" => seq'[q] \in log'
    BY <1>2, <1>3, BaseTypes DEF SharedInv, LogShared, Goes, NoStore, ByThread
  <2>6. QED
    BY <2>2, <2>3, <2>4, <2>5 DEF LogShared
<1>9. AnswersShared'
  <2>1. SeqOf(rows \cup UNION { cx[c].rows : c \in Conn })
            \subseteq SeqOf(rows \cup UNION { cx[c].rows : c \in Conn })'
    BY <1>2, <1>7 DEF SeqOf, NoStore, ByThread
  <2>2. QED
    BY <1>2, <2>1 DEF SharedInv, AnswersShared, Goes, NoStore, ByThread
<1>10. QED
    BY <1>4, <1>6, <1>8, <1>9 DEF SharedInv

LEMMA SharedInsertLog ==
    ASSUME BaseInv, SharedInv, NEW r \in Request, InsertLog(r)
    PROVE  SharedInv'
<1>1. conn[r] \in Conn /\ cx[conn[r]] \in Connection /\ cx \in [Conn -> Connection]
    BY InHand DEF InsertLog, AtConn
<1>2. /\ pc[r] = "insertLog" /\ ByThread /\ NoStore /\ Goes(r, "commit", "none")
      /\ cx'[conn[r]].rows = cx[conn[r]].rows
      /\ cx'[conn[r]].log = cx[conn[r]].log \cup ({seq[r]} \ log)
      /\ cx'[conn[r]].closed = cx[conn[r]].closed /\ cx'[conn[r]].alive = cx[conn[r]].alive
      /\ cx'[conn[r]].aborted = cx[conn[r]].aborted
      /\ \A d \in Conn : d # conn[r] => cx'[d] = cx[d]
  <2> DEFINE x == [cx[conn[r]] EXCEPT !.begun = TRUE, !.log = @ \cup ({seq[r]} \ log)]
  <2>1. Becomes(conn[r], x)
    BY InsertLogDoes
  <2>2. /\ x.closed = cx[conn[r]].closed /\ x.alive = cx[conn[r]].alive
        /\ x.aborted = cx[conn[r]].aborted
        /\ x.rows = cx[conn[r]].rows
        /\ x.log = cx[conn[r]].log \cup ({seq[r]} \ log)
    BY <1>1 DEF Connection
  <2> HIDE DEF x
  <2>3. QED
    BY <2>1, <2>2, InsertLogDoes DEF Becomes
<1>3. r \in rows \/ r \in cx[conn[r]].rows
    BY <1>2 DEF SharedInv, RowsShared
<1>4. AllWell'
    BY <1>2 DEF SharedInv, AllWell, Goes, Failing
<1>5. \A c \in Conn : cx'[c].rows = cx[c].rows /\ cx[c].log \subseteq cx'[c].log
    BY <1>2
<1>6. \A q \in Request : pc[q] \in {"insertLog", "commit"} => conn[q] \in Conn
    BY InHand DEF AtConn
<1>7. RowsShared'
  <2>1. \A q \in Request : pc'[q] \in {"insertLog", "commit"} <=> pc[q] \in {"insertLog", "commit"}
    BY <1>2 DEF Goes
  <2>2. \A c \in Conn : \A q \in cx'[c].rows :
            conn'[q] = c /\ pc'[q] \in {"insertLog", "commit"}
    BY <1>2, <1>5, <2>1, BaseTypes DEF SharedInv, RowsShared, ByThread
  <2>3. \A q \in rows' : pc'[q] \in {"insertLog", "commit", "done"}
    BY <1>2, BaseTypes DEF SharedInv, RowsShared, Goes, NoStore
  <2>4. \A q \in Request :
            pc'[q] \in {"insertLog", "commit"} => q \in rows' \/ q \in cx'[conn'[q]].rows
    BY <1>2, <1>5, <1>6, <2>1 DEF SharedInv, RowsShared, NoStore, ByThread
  <2>5. QED
    BY <2>2, <2>3, <2>4 DEF RowsShared
<1>8. LogShared'
  <2>1. \A c \in Conn : SeqOf(rows \cup cx[c].rows)' = SeqOf(rows \cup cx[c].rows)
    BY <1>2, <1>5 DEF SeqOf, NoStore, ByThread
  <2>2. seq[r] \in SeqOf(rows \cup cx[conn[r]].rows)
    BY <1>3 DEF SeqOf
  <2>3. \A c \in Conn : cx'[c].log \subseteq SeqOf(rows \cup cx[c].rows)'
    <3>1. \A c \in Conn : cx[c].log \subseteq SeqOf(rows \cup cx[c].rows)
      BY DEF SharedInv, LogShared
    <3>2. \A c \in Conn : cx'[c].log \subseteq SeqOf(rows \cup cx[c].rows)
      <4>1. cx'[conn[r]].log \subseteq SeqOf(rows \cup cx[conn[r]].rows)
        BY <1>1, <1>2, <2>2, <3>1
      <4>2. \A c \in Conn : c # conn[r] => cx'[c].log = cx[c].log
        BY <1>2
      <4>3. QED
        BY <3>1, <4>1, <4>2
    <3>3. QED
      BY <2>1, <3>2
  <2>4. log' \subseteq SeqOf(rows)'
    BY <1>2 DEF SharedInv, LogShared, SeqOf, NoStore, ByThread
  <2>5. \A q \in Request : pc'[q] = "commit" => seq'[q] \in log' \cup cx'[conn'[q]].log
    <3>1. seq[r] \in log \cup cx'[conn[r]].log
      BY <1>2
    <3>2. QED
      BY <1>2, <1>5, <1>6, <3>1 DEF SharedInv, LogShared, Goes, NoStore, ByThread
  <2>6. \A q \in rows' : pc'[q] = "done" => seq'[q] \in log'
    BY <1>2, BaseTypes DEF SharedInv, LogShared, Goes, NoStore, ByThread
  <2>7. QED
    BY <2>3, <2>4, <2>5, <2>6 DEF LogShared
<1>9. AnswersShared'
  <2>1. SeqOf(rows \cup UNION { cx[c].rows : c \in Conn })'
            = SeqOf(rows \cup UNION { cx[c].rows : c \in Conn })
    BY <1>2, <1>5 DEF SeqOf, NoStore, ByThread
  <2>2. QED
    BY <1>2, <2>1 DEF SharedInv, AnswersShared, Goes, NoStore, ByThread
<1>10. QED
    BY <1>4, <1>7, <1>8, <1>9 DEF SharedInv

\* The commit of one thread takes the statements of the others along.
LEMMA SharedCommit ==
    ASSUME BaseInv, SharedInv, NEW r \in Request, Commit(r)
    PROVE  SharedInv'
<1>1. conn[r] \in Conn /\ cx[conn[r]] \in Connection /\ cx \in [Conn -> Connection]
    BY InHand DEF Commit, AtConn
<1>2. /\ pc[r] = "commit" /\ ByThread /\ Goes(r, "done", "stored")
      /\ rows' = rows \cup cx[conn[r]].rows /\ log' = log \cup cx[conn[r]].log
      /\ cx'[conn[r]].rows = {} /\ cx'[conn[r]].log = {}
      /\ cx'[conn[r]].closed = cx[conn[r]].closed /\ cx'[conn[r]].alive = cx[conn[r]].alive
      /\ ~ cx'[conn[r]].aborted
      /\ \A d \in Conn : d # conn[r] => cx'[d] = cx[d]
  <2> DEFINE x == Cleared(cx[conn[r]])
  <2>1. Becomes(conn[r], x)
    BY CommitDoes
  <2>2. /\ x.closed = cx[conn[r]].closed /\ x.alive = cx[conn[r]].alive
        /\ x.aborted = FALSE /\ x.rows = {} /\ x.log = {}
    BY <1>1, Cleaned
  <2> HIDE DEF x
  <2>3. QED
    BY <2>1, <2>2, CommitDoes DEF Becomes
<1>3. /\ r \in rows' /\ seq[r] \in log'
    BY <1>2 DEF SharedInv, RowsShared, LogShared
<1>4. AllWell'
    BY <1>2 DEF SharedInv, AllWell, Goes, Failing
<1>5. \A q \in Request : pc[q] \in {"insertLog", "commit"} => conn[q] \in Conn
    BY InHand DEF AtConn
<1>6. rows \subseteq Request /\ \A c \in Conn : cx[c].rows \subseteq Request
    BY BaseTypes
<1>7. RowsShared'
  <2>1. \A c \in Conn : \A q \in cx'[c].rows :
            /\ c # conn[r] /\ q \in cx[c].rows /\ conn[q] = c /\ q # r
    BY <1>2 DEF SharedInv, RowsShared
  <2>2. \A c \in Conn : \A q \in cx'[c].rows :
            conn'[q] = c /\ pc'[q] \in {"insertLog", "commit"}
    BY <1>2, <1>6, <2>1 DEF SharedInv, RowsShared, Goes, ByThread
  <2>3. \A q \in rows' : pc'[q] \in {"insertLog", "commit", "done"}
    BY <1>1, <1>2, <1>6 DEF SharedInv, RowsShared, Goes
  <2>4. \A q \in Request : pc'[q] \in {"insertLog", "commit"} =>
            q \in rows' \/ q \in cx'[conn'[q]].rows
    BY <1>2, <1>5 DEF SharedInv, RowsShared, Goes, ByThread
  <2>5. QED
    BY <2>2, <2>3, <2>4 DEF RowsShared
<1>8. \A c \in Conn : cx[c].log \subseteq log' \cup cx'[c].log
    BY <1>2
<1>9. LogShared'
  <2>1. \A q \in rows' : pc'[q] = "done" => seq'[q] \in log'
    BY <1>1, <1>2, <1>3, <1>6 DEF SharedInv, RowsShared, LogShared, Goes, ByThread
  <2>2. \A q \in Request : pc'[q] = "commit" => seq'[q] \in log' \cup cx'[conn'[q]].log
    <3>1. log \subseteq log'
      BY <1>2
    <3>2. \A q \in Request : pc'[q] = "commit" => pc[q] = "commit" /\ conn[q] \in Conn
      BY <1>2, <1>5 DEF Goes
    <3>3. QED
      BY <1>2, <1>8, <3>1, <3>2 DEF SharedInv, LogShared, ByThread
  <2>3. log' \subseteq SeqOf(rows)'
    BY <1>1, <1>2 DEF SharedInv, LogShared, SeqOf, ByThread
  <2>4. \A c \in Conn : cx'[c].log \subseteq SeqOf(rows \cup cx[c].rows)'
    BY <1>2 DEF SharedInv, LogShared, SeqOf, ByThread
  <2>5. QED
    BY <2>1, <2>2, <2>3, <2>4 DEF LogShared
<1>10. AnswersShared'
  <2>1. \A q \in rows \cup UNION { cx[c].rows : c \in Conn } :
            q \in rows' \cup UNION { cx'[c].rows : c \in Conn }
    BY <1>2
  <2>2. SeqOf(rows \cup UNION { cx[c].rows : c \in Conn })
            \subseteq SeqOf(rows \cup UNION { cx[c].rows : c \in Conn })'
    BY <1>2, <2>1 DEF SeqOf, ByThread
  <2>3. QED
    BY <1>2, <1>3, <2>2 DEF SharedInv, AnswersShared, Goes, ByThread
<1>11. QED
    BY <1>4, <1>7, <1>9, <1>10 DEF SharedInv

LEMMA SharedStep ==
    ASSUME BaseInv, SharedInv, faults = 0, [Next]_vars, faults' = 0, ~ clashed'
    PROVE  SharedInv'
<1>1. ~ Fault
    BY DEF Fault
<1>2. ASSUME NEW r \in Request, pc[r] \in AtConn PROVE Usable(conn[r])
    BY <1>2, InHand DEF SharedInv, AllWell, Usable
<1>3. ASSUME NEW r \in Request, Arrive(r) PROVE SharedInv'
    BY <1>3, ArriveDoes, SharedCalm DEF Failing
<1>4. ASSUME NEW r \in Request, GetDbCheck(r) PROVE SharedInv'
    BY <1>4, GetDbCheckDoes, SharedCalm DEF SharedInv, AllWell, Failing, ByThread
<1>5. ASSUME NEW r \in Request, GetDbConnect(r) PROVE SharedInv'
    BY <1>5, GetDbConnectDoes, SharedCalm DEF SharedInv, AllWell, Failing
<1>6. ASSUME NEW r \in Request, GetDbConfigure(r) PROVE SharedInv'
    BY <1>6, GetDbConfigureDoes, SharedCalm DEF SharedInv, AllWell, Failing, ByThread
<1>7. ASSUME NEW r \in Request, GetDbReturn(r) PROVE SharedInv'
    BY <1>7, GetDbReturnDoes, SharedCalm DEF SharedInv, AllWell, Failing
<1>8. ASSUME NEW r \in Request, Select(r) PROVE SharedInv'
    BY <1>8, SelectDoes, SharedLook DEF Answers
<1>9. ASSUME NEW r \in Request, Read(r) PROVE SharedInv'
    BY <1>9, ReadDoes, SharedLook DEF Answers
<1>10. ASSUME NEW r \in Request PROVE ~ StatementRaises(r) /\ ~ CommitRaises(r) /\ ~ Rollback(r)
  <2>1. ~ StatementRaises(r)
    BY <1>2 DEF StatementRaises, AtStatement, AtConn
  <2>2. ~ CommitRaises(r)
    BY <1>2 DEF CommitRaises, AtConn, Usable
  <2>3. ~ Rollback(r)
    BY DEF Rollback, SharedInv, AllWell, Failing
  <2>4. QED
    BY <2>1, <2>2, <2>3
<1>11. ASSUME NEW r \in Request, Thread(r) PROVE SharedInv'
    BY <1>4, <1>5, <1>6, <1>7, <1>8, <1>9, <1>10, <1>11, SharedInsertRow, SharedInsertLog,
       SharedCommit DEF Thread
<1>12. CASE UNCHANGED vars
  <2>1. UNCHANGED <<pc, seq, conn, answer, cx, rows, log>>
    BY <1>12 DEF vars, threadVars, dbVars
  <2>2. QED
    BY <2>1 DEF SharedInv, AllWell, RowsShared, LogShared, AnswersShared, SeqOf
<1>13. QED
    BY <1>1, <1>3, <1>11, <1>12
       DEF Next, FaultStep, StatementFails, ConnectFails, CommitReplyLost, Restart

-----------------------------------------------------------------------------
(* One request after the other, whatever fails.                            *)

\* No other request is in progress.
Alone(r) == \A q \in Request : q # r => pc[q] \in {"new", "done"}

LEMMA IsAlone ==
    ASSUME OneThread, NEW r \in Request, pc[r] \notin {"new", "done"}
    PROVE  Alone(r)
BY DEF OneThread, Active, Alone

LEMMA StaysAlone ==
    ASSUME NEW r \in Request, Alone(r), NEW b, NEW a, Goes(r, b, a)
    PROVE  OneThread'
BY DEF Alone, OneThread, Active, Goes

\* Nothing uncommitted is left while no thread is past its insert.
LEMMA NothingOpen ==
    ASSUME BaseInv, ConnSerial, NEW r \in Request, Alone(r),
           pc[r] \notin {"insertLog", "commit"}
    PROVE  \A c \in Conn : Empty(c)
BY BaseTypes DEF ConnSerial, Alone, Empty

\* A step that commits nothing.
LEMMA StoreStays ==
    ASSUME BaseInv, StoreSerial, NEW r \in Request, NoStore,
           \A q \in Request : q # r => kind'[q] = kind[q] /\ seq'[q] = seq[q],
           NEW b, NEW a \in Answers \ {"stored"}, Goes(r, b, a),
           r \in rows => b \in Failing \cup {"done"} /\ kind'[r] = kind[r] /\ seq'[r] = seq[r],
           kind'[r] = "ingest" /\ b \in {"insertRow", "insertLog", "commit"} =>
               seq'[r] \notin log,
           a = "duplicate" => seq[r] \in log /\ seq'[r] = seq[r]
    PROVE  StoreSerial'
<1>1. rows \subseteq Request /\ \A q \in rows : seq'[q] = seq[q] /\ kind'[q] = kind[q]
    BY BaseTypes
<1>2. SeqOf(rows)' = SeqOf(rows)
    BY <1>1 DEF SeqOf, NoStore
<1>3. \A q \in Request :
          kind'[q] = "ingest" /\ pc'[q] \in {"insertRow", "insertLog", "commit"} =>
              seq'[q] \notin log'
    BY DEF StoreSerial, Goes, NoStore
<1>4. \A q \in rows' : pc'[q] \in Failing \cup {"done"} /\ seq'[q] \in log'
    BY <1>1 DEF StoreSerial, Goes, NoStore
<1>5. log' \subseteq SeqOf(rows)'
    BY <1>2 DEF StoreSerial, NoStore
<1>6. \A q \in Request : answer'[q] = "stored" => q \in rows'
    BY DEF StoreSerial, Goes, NoStore
<1>7. \A q \in Request : answer'[q] = "duplicate" => seq'[q] \in SeqOf(rows)'
    BY <1>2 DEF StoreSerial, Goes
<1>8. NoUnforcedDuplicate'
    BY <1>1 DEF StoreSerial, NoUnforcedDuplicate, NoStore
<1>9. QED
    BY <1>3, <1>4, <1>5, <1>6, <1>7, <1>8 DEF StoreSerial

\* A step that touches no connection.
LEMMA ConnCalm ==
    ASSUME BaseInv, ConnSerial, NEW r \in Request, Alone(r),
           pc[r] \notin {"insertLog", "commit"}, UNCHANGED cx
    PROVE  ConnSerial'
<1>1. \A c \in Conn : cx'[c].rows = {} /\ cx'[c].log = {}
    BY NothingOpen DEF Empty
<1>2. QED
    BY <1>1 DEF ConnSerial, Empty

LEMMA SerialCalm ==
    ASSUME BaseInv, SerialInv, NEW r \in Request, Alone(r),
           pc[r] \notin {"insertLog", "commit"}, NoStore, UNCHANGED cx,
           \A q \in Request : q # r => kind'[q] = kind[q] /\ seq'[q] = seq[q],
           NEW b, b \notin {"insertLog", "commit"}, NEW a \in Answers \ {"stored", "duplicate"},
           Goes(r, b, a),
           r \in rows => b \in Failing \cup {"done"} /\ kind'[r] = kind[r] /\ seq'[r] = seq[r],
           kind'[r] = "ingest" => b # "insertRow",
           b \in AtConn => conn'[r] = db',
           b \in Kept => ~ cx[db'].closed,
           b \in {"configure", "reconfigure"} => ~ cx[db'].closed /\ ~ cx[db'].begun
    PROVE  SerialInv'
<1>1. OneThread' /\ ConnSerial'
    BY StaysAlone, ConnCalm DEF SerialInv
<1>2. ThreadSerial'
    BY DEF ThreadSerial, Alone, Goes, AtConn, Kept
<1>3. StoreSerial'
    BY StoreStays DEF SerialInv
<1>4. QED
    BY <1>1, <1>2, <1>3 DEF SerialInv

LEMMA SerialGetDb ==
    ASSUME BaseInv, SerialInv, NEW r \in Request,
           GetDbCheck(r) \/ GetDbConnect(r) \/ GetDbConfigure(r) \/ GetDbReturn(r)
    PROVE  SerialInv' /\ UNCHANGED clashed
<1>1. pc[r] \in {"check", "recheck", "connect", "reconnect", "configure", "reconfigure",
                 "return", "rereturn"}
    BY DEF GetDbCheck, GetDbConnect, GetDbConfigure, GetDbReturn
<1>2. Alone(r)
    BY <1>1, IsAlone DEF SerialInv
<1>3. r \in rows => pc[r] \in {"recheck", "reconnect", "reconfigure", "rereturn"}
    BY <1>1 DEF SerialInv, StoreSerial, Failing
<1>4. CASE GetDbCheck(r)
  <2>1. ~ NeedsConnect => ~ cx[db].closed
    BY DEF NeedsConnect
  <2>2. /\ NoStore /\ UNCHANGED <<cx, db, conn, kind, seq, clashed>>
        /\ \/ pc[r] = "check" /\ Goes(r, "connect", "none")
           \/ pc[r] = "check" /\ ~ NeedsConnect /\ Goes(r, "return", "none")
           \/ pc[r] = "recheck" /\ Goes(r, "reconnect", "none")
           \/ pc[r] = "recheck" /\ ~ NeedsConnect /\ Goes(r, "rereturn", "none")
    BY <1>4, GetDbCheckDoes DEF ByThread, NoFault
  <2>3. QED
    BY <1>1, <1>2, <1>3, <2>1, <2>2, SerialCalm DEF Answers, AtConn, Kept, Failing
<1>5. CASE GetDbConnect(r)
  <2>1. /\ NoStore /\ UNCHANGED <<cx, conn, kind, seq, clashed>>
        /\ nconn + 1 \in Conn /\ db' = nconn + 1
        /\ \/ pc[r] = "connect" /\ Goes(r, "configure", "none")
           \/ pc[r] = "reconnect" /\ Goes(r, "reconfigure", "none")
    BY <1>5, GetDbConnectDoes DEF NoFault
  <2>2. nconn \in Nat
    BY DEF BaseInv, TypeOK
  <2>3. cx[db'] = Fresh
    BY <2>1, <2>2 DEF BaseInv, ConnInv
  <2>4. ~ cx[db'].closed /\ ~ cx[db'].begun
    BY <2>3 DEF Fresh
  <2>5. QED
    BY <1>1, <1>2, <1>3, <2>1, <2>4, SerialCalm DEF Answers, AtConn, Kept, Failing
<1>6. CASE GetDbConfigure(r)
  <2>1. ~ cx[db].closed /\ ~ cx[db].begun
    BY <1>6 DEF GetDbConfigure, SerialInv, ThreadSerial
  <2>2. /\ NoStore /\ UNCHANGED <<cx, db, conn, kind, seq, clashed>>
        /\ \/ pc[r] = "configure" /\ Goes(r, "return", "none")
           \/ pc[r] = "reconfigure" /\ Goes(r, "rereturn", "none")
    BY <1>6, <2>1, GetDbConfigureDoes DEF ByThread
  <2>3. QED
    BY <1>1, <1>2, <1>3, <2>1, <2>2, SerialCalm DEF Answers, AtConn, Kept, Failing
<1>7. CASE GetDbReturn(r)
  <2>1. pc[r] = "return" => ~ cx[db].closed
    BY DEF SerialInv, ThreadSerial, Kept
  <2>2. /\ NoStore /\ UNCHANGED <<cx, db, kind, seq, clashed>> /\ conn'[r] = db
        /\ \/ pc[r] = "rereturn" /\ Goes(r, "rollback", "none")
           \/ pc[r] = "return" /\ kind[r] = "ingest" /\ Goes(r, "select", "none")
           \/ pc[r] = "return" /\ kind[r] # "ingest" /\ Goes(r, "insertRow", "none")
           \/ pc[r] = "return" /\ kind[r] = "read" /\ Goes(r, "read", "none")
    BY <1>7, GetDbReturnDoes DEF NoFault
  <2>3. QED
    BY <1>1, <1>2, <1>3, <2>1, <2>2, SerialCalm DEF Answers, AtConn, Kept, Failing
<1>8. QED
    BY <1>4, <1>5, <1>6, <1>7

LEMMA SerialArrive ==
    ASSUME BaseInv, SerialInv, NEW r \in Request, Arrive(r), ~ overlapped'
    PROVE  SerialInv'
<1>1. Alone(r)
    BY ArriveDoes DEF Alone, Active
<1>2. r \notin rows
    BY ArriveDoes DEF SerialInv, StoreSerial, Failing
<1>3. QED
    BY <1>1, <1>2, ArriveDoes, SerialCalm DEF Answers, AtConn, Kept

LEMMA SerialConnectFails ==
    ASSUME BaseInv, SerialInv, NEW r \in Request, ConnectFails(r)
    PROVE  SerialInv'
<1>1. /\ UNCHANGED <<kind, seq, conn, db, cx>> /\ NoStore
      /\ pc[r] \in {"connect", "reconnect"} /\ Raised(r)
    BY ConnectFailsDoes DEF ByThread
<1>2. Alone(r)
    BY <1>1, IsAlone DEF SerialInv
<1>3. CASE Goes(r, "done", "failed") \/ Goes(r, "done", "error")
    BY <1>1, <1>2, <1>3, SerialCalm DEF Answers, AtConn, Kept
<1>4. CASE Goes(r, "recheck", "none")
    BY <1>1, <1>2, <1>4, SerialCalm DEF Answers, AtConn, Kept, Failing
<1>5. QED
    BY <1>1, <1>3, <1>4 DEF Raised

\* What a step does to the bill: the thread's answer and what is owed.
LEMMA BusyIs ==
    ASSUME NEW r \in Request, Alone(r), NEW b, NEW a, Goes(r, b, a)
    PROVE  (Busy <=> pc[r] \in Failing) /\ (Busy' <=> b \in Failing)
BY DEF Alone, Busy, Goes, Failing

LEMMA CostStep ==
    ASSUME BaseInv, CostInv, NEW r \in Request, NEW b, NEW a, a # "failed", Goes(r, b, a),
           pc[r] # "done", NEW n \in Nat, faults' = faults + n, Owed' <= Owed + n
    PROVE  CostInv'
<1>1. faults \in Nat /\ Owed \in Nat /\ Owed' \in Nat /\ answer[r] = "none"
    BY DEF BaseInv, TypeOK, ThreadInv, Owed
<1>2. IsFiniteSet(Failed) /\ Cardinality(Failed) \in Nat
    BY FS_CardinalityType DEF CostInv
<1>3. Failed' = Failed
    BY <1>1 DEF Failed, Goes
<1>4. Cardinality(Failed) + Owed <= faults
    BY DEF CostInv
<1>5. Cardinality(Failed) + Owed' <= faults'
    BY <1>1, <1>2, <1>4
<1>6. QED
    BY <1>2, <1>3, <1>5 DEF CostInv

LEMMA CostPaid ==
    ASSUME BaseInv, CostInv, NEW r \in Request, NEW b, Goes(r, b, "failed"),
           pc[r] # "done", NEW n \in Nat, faults' = faults + n, Owed' < Owed + n
    PROVE  CostInv'
<1>1. faults \in Nat /\ Owed \in Nat /\ Owed' \in Nat /\ answer[r] = "none"
    BY DEF BaseInv, TypeOK, ThreadInv, Owed
<1>2. IsFiniteSet(Failed) /\ Cardinality(Failed) \in Nat
    BY FS_CardinalityType DEF CostInv
<1>3. Failed' = Failed \cup {r} /\ r \notin Failed
    BY <1>1 DEF Failed, Goes
<1>4. IsFiniteSet(Failed') /\ Cardinality(Failed') = Cardinality(Failed) + 1
    BY <1>2, <1>3, FS_AddElement
<1>5. Cardinality(Failed) + Owed <= faults
    BY DEF CostInv
<1>6. Cardinality(Failed) + 1 + Owed' <= faults'
    BY <1>1, <1>2, <1>5
<1>7. QED
    BY <1>4, <1>6 DEF CostInv

\* A step that leaves what is owed.
LEMMA CostSame ==
    ASSUME BaseInv, CostInv, NEW r \in Request, Alone(r), pc[r] # "done",
           NEW b, NEW a, a # "failed", Goes(r, b, a), UNCHANGED faults,
           b \in Failing <=> pc[r] \in Failing, Broken' => Broken
    PROVE  CostInv'
<1>1. faults \in Nat
    BY DEF BaseInv, TypeOK
<1>2. Busy' <=> Busy
    BY BusyIs
<1>3. Owed' <= Owed /\ Owed \in Nat /\ Owed' \in Nat
    BY <1>2 DEF Owed
<1>4. faults' = faults + 0 /\ Owed' <= Owed + 0
    BY <1>1, <1>3
<1>5. QED
    BY <1>4, CostStep

LEMMA CostGetDb ==
    ASSUME BaseInv, SerialInv, CostInv, NEW r \in Request,
           GetDbCheck(r) \/ GetDbConnect(r) \/ GetDbConfigure(r) \/ GetDbReturn(r)
    PROVE  CostInv'
<1>1. pc[r] \in {"check", "recheck", "connect", "reconnect", "configure", "reconfigure",
                 "return", "rereturn"}
    BY DEF GetDbCheck, GetDbConnect, GetDbConfigure, GetDbReturn
<1>2. Alone(r)
    BY <1>1, IsAlone DEF SerialInv
<1>3. ASSUME UNCHANGED <<db, cx>>, NEW b, Goes(r, b, "none"), b \in Failing <=> pc[r] \in Failing
      PROVE  Broken' => Broken
    BY <1>2, <1>3, BusyIs DEF Broken
<1>4. CASE GetDbCheck(r)
  <2>1. UNCHANGED <<db, cx, faults>>
    BY <1>4, GetDbCheckDoes DEF ByThread, NoFault
  <2>2. PICK b : Goes(r, b, "none") /\ (b \in Failing <=> pc[r] \in Failing)
    BY <1>4, GetDbCheckDoes DEF Failing
  <2>3. QED
    BY <1>1, <1>2, <1>3, <2>1, <2>2, CostSame
<1>5. CASE GetDbConnect(r)
  <2>1. UNCHANGED <<cx, faults>> /\ nconn + 1 \in Conn /\ db' = nconn + 1
    BY <1>5, GetDbConnectDoes DEF NoFault
  <2>2. PICK b : Goes(r, b, "none") /\ (b \in Failing <=> pc[r] \in Failing)
    BY <1>5, GetDbConnectDoes DEF Failing
  <2>3. cx'[db'] = Fresh
    BY <2>1 DEF BaseInv, TypeOK, ConnInv
  <2>4. ~ Broken'
    BY <2>3 DEF Broken, Fresh
  <2>5. QED
    BY <1>1, <1>2, <2>1, <2>2, <2>4, CostSame
<1>6. CASE GetDbConfigure(r)
  <2>1. ~ cx[db].closed /\ ~ cx[db].begun
    BY <1>6 DEF GetDbConfigure, SerialInv, ThreadSerial
  <2>2. UNCHANGED <<db, cx, faults>>
    BY <1>6, GetDbConfigureDoes DEF ByThread
  <2>3. \/ pc[r] = "configure" /\ Goes(r, "return", "none")
        \/ pc[r] = "reconfigure" /\ Goes(r, "rereturn", "none")
    BY <1>6, <2>1, GetDbConfigureDoes
  <2>4. PICK b : Goes(r, b, "none") /\ (b \in Failing <=> pc[r] \in Failing)
    BY <2>3 DEF Failing
  <2>5. QED
    BY <1>1, <1>2, <1>3, <2>2, <2>4, CostSame
<1>7. CASE GetDbReturn(r)
  <2>1. UNCHANGED <<db, cx, faults>>
    BY <1>7, GetDbReturnDoes DEF NoFault
  <2>2. PICK b : Goes(r, b, "none") /\ (b \in Failing <=> pc[r] \in Failing)
    BY <1>7, GetDbReturnDoes DEF Failing
  <2>3. QED
    BY <1>1, <1>2, <1>3, <2>1, <2>2, CostSame
<1>8. QED
    BY <1>4, <1>5, <1>6, <1>7

LEMMA CostArrive ==
    ASSUME BaseInv, CostInv, NEW r \in Request, Arrive(r), ~ overlapped'
    PROVE  CostInv'
<1>1. Alone(r) /\ pc[r] = "new" /\ UNCHANGED <<db, cx, faults>>
    BY ArriveDoes DEF Alone, Active
<1>2. PICK b \in {"check", "done"}, a \in {"none", "nothing"} : Goes(r, b, a)
    BY ArriveDoes
<1>3. Broken' => Broken
    BY <1>1, <1>2, BusyIs DEF Broken, Failing
<1>4. QED
    BY <1>1, <1>2, <1>3, CostSame DEF Failing

LEMMA CostConnectFails ==
    ASSUME BaseInv, SerialInv, CostInv, NEW r \in Request, ConnectFails(r)
    PROVE  CostInv'
<1>1. /\ UNCHANGED <<db, cx>> /\ faults' = faults + 1
      /\ pc[r] \in {"connect", "reconnect"} /\ Raised(r)
    BY ConnectFailsDoes DEF ByThread, Fault
<1>2. Alone(r) /\ faults \in Nat
    BY <1>1, IsAlone DEF SerialInv, BaseInv, TypeOK
<1>3. CASE pc[r] \in Failing /\ Goes(r, "done", "failed")
  <2>1. Busy
    BY <1>2, <1>3, BusyIs
  <2>2. ~ Busy'
    BY <1>2, <1>3, BusyIs DEF Failing
  <2>3. Owed >= 1 /\ Owed' <= 1 /\ Owed \in Nat /\ Owed' \in Nat
    BY <2>1, <2>2 DEF Owed
  <2>4. Owed' < Owed + 1
    BY <2>3
  <2>5. QED
    BY <1>1, <1>3, <2>4, CostPaid
<1>4. CASE pc[r] \notin Failing /\ Goes(r, "done", "error")
  <2>1. ~ Busy /\ ~ Busy'
    BY <1>2, <1>4, BusyIs DEF Failing
  <2>2. Broken' => Broken
    BY <1>1, <2>1 DEF Broken
  <2>3. Owed' <= Owed /\ Owed \in Nat /\ Owed' \in Nat
    BY <2>1, <2>2 DEF Owed
  <2>4. Owed' <= Owed + 1
    BY <2>3
  <2>5. QED
    BY <1>1, <1>4, <2>4, CostStep
<1>5. CASE pc[r] \notin Failing /\ Goes(r, "recheck", "none")
  <2>1. ~ Busy /\ Busy'
    BY <1>2, <1>5, BusyIs DEF Failing
  <2>2. Broken' => Broken
    BY <1>1, <2>1 DEF Broken
  <2>3. Owed' <= Owed + 1 /\ Owed \in Nat /\ Owed' \in Nat
    BY <2>1, <2>2 DEF Owed
  <2>4. Owed' <= Owed + 1
    BY <2>3
  <2>5. QED
    BY <1>1, <1>5, <2>4, CostStep
<1>6. QED
    BY <1>1, <1>3, <1>4, <1>5 DEF Raised

\* A step at the connection after which nothing of it is uncommitted.
LEMMA SerialEmptied ==
    ASSUME BaseInv, SerialInv, NEW r \in Request, pc[r] \in AtConn, ByThread, NoStore,
           NEW x, Becomes(conn[r], x), x.rows = {}, x.log = {}, x.closed => ~ x.alive,
           NEW b \in {"recheck", "done"}, NEW a \in Answers \ {"stored"}, Goes(r, b, a),
           a = "duplicate" => seq[r] \in log
    PROVE  SerialInv'
<1>1. Alone(r)
    BY IsAlone DEF SerialInv, AtConn
<1>2. conn[r] = db /\ UNCHANGED <<kind, seq, conn, db>>
    BY DEF SerialInv, ThreadSerial, ByThread
<1>3. \A q \in Request : pc'[q] \notin AtConn \cup Kept \cup {"configure", "reconfigure"}
    BY <1>1 DEF Alone, Goes, AtConn, Kept
<1>4. \A c \in Conn : cx'[c].rows = {} /\ cx'[c].log = {} /\ (cx'[c].closed => ~ cx'[c].alive)
    BY <1>2 DEF SerialInv, ConnSerial, Empty, Becomes
<1>5. OneThread'
    BY <1>1, StaysAlone
<1>6. ConnSerial'
    BY <1>4 DEF ConnSerial, Empty
<1>7. ThreadSerial'
    BY <1>3 DEF ThreadSerial, AtConn, Kept
<1>8. StoreSerial'
    BY <1>2, StoreStays DEF SerialInv, Failing
<1>9. QED
    BY <1>5, <1>6, <1>7, <1>8 DEF SerialInv

\* The same, where the step raises and not in the except clause.
LEMMA SerialRaised ==
    ASSUME BaseInv, SerialInv, NEW r \in Request, pc[r] \in AtConn, ByThread, NoStore,
           NEW x, Becomes(conn[r], x), x.rows = {}, x.log = {}, x.closed => ~ x.alive,
           pc[r] # "rollback", Raised(r)
    PROVE  SerialInv'
<1>1. CASE Goes(r, "done", "error")
    BY <1>1, SerialEmptied DEF Answers
<1>2. CASE Goes(r, "recheck", "none")
    BY <1>2, SerialEmptied DEF Answers
<1>3. QED
    BY <1>1, <1>2 DEF Raised, AtConn, Failing

\* What a raising step adds to what is owed.
LEMMA RaisedOwes ==
    ASSUME BaseInv, CostInv, NEW r \in Request, Alone(r), pc[r] \notin Failing, pc[r] # "done",
           Raised(r), NEW n \in Nat, faults' = faults + n,
           ~ Broken => n = 1,
           kind[r] # "read" => ~ Broken',
           Broken' => n = 1 \/ Broken
    PROVE  CostInv'
<1>1. CASE kind[r] = "read"
  <2>1. Goes(r, "done", "error")
    BY <1>1 DEF Raised
  <2>2. ~ Busy /\ ~ Busy'
    BY <2>1, BusyIs DEF Failing
  <2>3. Owed' <= Owed + n
    BY <2>2 DEF Owed
  <2>4. QED
    BY <2>1, <2>3, CostStep
<1>2. CASE kind[r] # "read"
  <2>1. Goes(r, "recheck", "none")
    BY <1>2 DEF Raised
  <2>2. ~ Busy
    BY <2>1, BusyIs
  <2>3. Owed' <= Owed + n
    BY <1>2, <2>2 DEF Owed
  <2>4. QED
    BY <2>1, <2>3, CostStep
<1>3. QED
    BY <1>1, <1>2

\* The thread of a reading is in the except clause after a raise.
LEMMA RaisedBusy ==
    ASSUME NEW r \in Request, Alone(r), pc[r] \notin Failing, kind[r] # "read", Raised(r)
    PROVE  Busy'
BY BusyIs DEF Raised, Failing

\* What a thread at a connection knows of it while it is alone.
LEMMA AtDb ==
    ASSUME BaseInv, SerialInv, NEW r \in Request, pc[r] \in AtConn
    PROVE  /\ Alone(r) /\ conn[r] = db /\ db \in Conn /\ db # None
           /\ cx \in [Conn -> Connection] /\ cx[db] \in Connection
           /\ pc[r] # "rollback" => ~ cx[db].closed /\ pc[r] \notin Failing
           /\ cx[db].closed => ~ cx[db].alive
           /\ ~ cx[db].alive \/ cx[db].aborted => Empty(db)
           /\ pc[r] \notin {"insertLog", "commit"} =>
                  Empty(db) /\ (r \notin rows \/ pc[r] = "rollback")
<1>1. Alone(r) /\ conn[r] = db
    BY IsAlone DEF SerialInv, ThreadSerial, AtConn
<1>2. db \in Conn /\ cx \in [Conn -> Connection] /\ cx[db] \in Connection
    BY <1>1, InHand
<1>3. db # None
    BY <1>2, NoneAssumption, BoundsAssumption DEF Conn
<1>4. pc[r] # "rollback" => ~ cx[db].closed /\ pc[r] \notin Failing
    BY DEF SerialInv, ThreadSerial, AtConn, Kept, Failing
<1>5. /\ cx[db].closed => ~ cx[db].alive
      /\ ~ cx[db].alive \/ cx[db].aborted => Empty(db)
    BY <1>2 DEF SerialInv, ConnSerial
<1>6. pc[r] \notin {"insertLog", "commit"} => Empty(db)
    BY <1>1, <1>2, NothingOpen DEF SerialInv
<1>7. r \in rows => pc[r] = "rollback"
    BY DEF SerialInv, StoreSerial, AtConn, Failing
<1>8. QED
    BY <1>1, <1>2, <1>3, <1>4, <1>5, <1>6, <1>7

LEMMA SerialRead ==
    ASSUME BaseInv, SerialInv, CostInv, NEW r \in Request, Read(r)
    PROVE  SerialInv' /\ CostInv'
<1> DEFINE x == [cx[conn[r]] EXCEPT !.begun = TRUE]
<1>1. /\ pc[r] = "read" /\ Usable(conn[r]) /\ ByThread /\ NoStore /\ NoFault
      /\ Becomes(conn[r], x) /\ Goes(r, "done", "ok")
    BY ReadDoes
<1>2. /\ Alone(r) /\ conn[r] = db /\ db \in Conn /\ cx[db] \in Connection /\ Empty(db)
      /\ cx[db].closed => ~ cx[db].alive
    BY <1>1, AtDb DEF AtConn
<1>3. /\ x.rows = {} /\ x.log = {} /\ x.closed = cx[db].closed /\ x.alive = cx[db].alive
      /\ x.aborted = cx[db].aborted
    BY <1>2 DEF Connection, Empty
<1> HIDE DEF x
<1>4. SerialInv'
    BY <1>1, <1>2, <1>3, SerialEmptied DEF AtConn, Answers
<1>5. ~ Broken'
    BY <1>1, <1>2, <1>3 DEF Broken, Becomes, ByThread, Usable
<1>6. CostInv'
    BY <1>1, <1>2, <1>5, CostSame DEF Failing, NoFault
<1>7. QED
    BY <1>4, <1>6

LEMMA SerialSelect ==
    ASSUME BaseInv, SerialInv, CostInv, NEW r \in Request, Select(r)
    PROVE  SerialInv' /\ CostInv'
<1> DEFINE x == [cx[conn[r]] EXCEPT !.begun = TRUE]
<1>1. /\ pc[r] = "select" /\ Usable(conn[r]) /\ ByThread /\ NoStore /\ NoFault
      /\ Becomes(conn[r], x)
      /\ \/ seq[r] \in log \cup cx[conn[r]].log /\ Goes(r, "done", "duplicate")
         \/ seq[r] \notin log \cup cx[conn[r]].log /\ Goes(r, "insertRow", "none")
    BY SelectDoes
<1>2. /\ Alone(r) /\ conn[r] = db /\ db \in Conn /\ cx[db] \in Connection /\ Empty(db)
      /\ cx[db].closed => ~ cx[db].alive
      /\ r \notin rows
    BY <1>1, AtDb DEF AtConn
<1>3. /\ x.rows = {} /\ x.log = {} /\ x.closed = cx[db].closed /\ x.alive = cx[db].alive
      /\ x.aborted = cx[db].aborted
    BY <1>2 DEF Connection, Empty
<1> HIDE DEF x
<1>4. ~ Broken'
    BY <1>1, <1>2, <1>3 DEF Broken, Becomes, ByThread, Usable
<1>5. CASE seq[r] \in log \cup cx[conn[r]].log /\ Goes(r, "done", "duplicate")
  <2>1. seq[r] \in log
    BY <1>2, <1>5 DEF Empty
  <2>2. SerialInv'
    BY <1>1, <1>2, <1>3, <1>5, <2>1, SerialEmptied DEF AtConn, Answers
  <2>3. CostInv'
    BY <1>1, <1>2, <1>4, <1>5, CostSame DEF Failing, NoFault
  <2>4. QED
    BY <2>2, <2>3
<1>6. CASE seq[r] \notin log /\ Goes(r, "insertRow", "none")
  <2>1. \A c \in Conn : cx'[c].rows = {} /\ cx'[c].log = {} /\ (cx'[c].closed => ~ cx'[c].alive)
    BY <1>1, <1>2, <1>3 DEF SerialInv, ConnSerial, Empty, Becomes
  <2>2. OneThread' /\ ConnSerial'
    BY <1>2, <1>6, <2>1, StaysAlone DEF ConnSerial, Empty
  <2>3. /\ \A q \in Request : q # r => pc'[q] \in {"new", "done"}
        /\ pc'[r] = "insertRow" /\ conn'[r] = db' /\ ~ cx'[db'].closed
    BY <1>1, <1>2, <1>3, <1>6 DEF Alone, Goes, ByThread, Becomes, Usable
  <2>4. ThreadSerial'
    BY <2>3 DEF ThreadSerial, AtConn, Kept
  <2>5. StoreSerial'
    BY <1>1, <1>2, <1>6, StoreStays DEF SerialInv, ByThread, Answers
  <2>6. CostInv'
    BY <1>1, <1>2, <1>4, <1>6, CostSame DEF Failing, NoFault
  <2>7. QED
    BY <2>2, <2>4, <2>5, <2>6 DEF SerialInv
<1>7. QED
    BY <1>1, <1>5, <1>6

LEMMA SerialInsertRow ==
    ASSUME BaseInv, SerialInv, CostInv, NEW r \in Request, InsertRow(r)
    PROVE  SerialInv' /\ CostInv'
<1> DEFINE x == [cx[conn[r]] EXCEPT !.begun = TRUE, !.rows = @ \cup {r}]
<1>1. /\ pc[r] = "insertRow" /\ Usable(conn[r]) /\ ByThread /\ NoStore /\ NoFault
      /\ Becomes(conn[r], x) /\ Goes(r, "insertLog", "none")
    BY InsertRowDoes
<1>2. /\ Alone(r) /\ conn[r] = db /\ db \in Conn /\ cx[db] \in Connection /\ Empty(db)
      /\ r \notin rows
    BY <1>1, AtDb DEF AtConn
<1>3. /\ x.rows = {r} /\ x.log = {} /\ x.closed = cx[db].closed /\ x.alive = cx[db].alive
      /\ x.aborted = cx[db].aborted /\ x.begun = TRUE
    BY <1>2 DEF Connection, Empty
<1> HIDE DEF x
<1>4. /\ \A q \in Request : q # r => pc'[q] \in {"new", "done"}
      /\ pc'[r] = "insertLog" /\ conn'[r] = db' /\ db' = db
      /\ cx'[db].rows = {r} /\ cx'[db].log = {} /\ cx'[db].begun
      /\ ~ cx'[db].closed /\ cx'[db].alive /\ ~ cx'[db].aborted
      /\ \A c \in Conn : c # db => cx'[c] = cx[c]
    BY <1>1, <1>2, <1>3 DEF Alone, Goes, ByThread, Becomes, Usable
<1>5. ConnSerial'
  <2>1. \A c \in Conn : c # db => cx'[c].rows = {} /\ cx'[c].log = {}
                                   /\ (cx'[c].closed => ~ cx'[c].alive)
    BY <1>4 DEF SerialInv, ConnSerial, Empty
  <2>2. QED
    BY <1>4, <2>1 DEF ConnSerial, Empty
<1>6. ThreadSerial'
    BY <1>4 DEF ThreadSerial, AtConn, Kept
<1>7. StoreSerial'
  <2>1. kind[r] = "ingest" => seq[r] \notin log
    BY <1>1 DEF SerialInv, StoreSerial
  <2>2. QED
    BY <1>1, <1>2, <2>1, StoreStays DEF SerialInv, ByThread, Answers
<1>8. OneThread'
    BY <1>1, <1>2, StaysAlone
<1>9. CostInv'
  <2>1. ~ Broken'
    BY <1>4 DEF Broken
  <2>2. QED
    BY <1>1, <1>2, <2>1, CostSame DEF Failing, NoFault
<1>10. QED
    BY <1>5, <1>6, <1>7, <1>8, <1>9 DEF SerialInv

LEMMA SerialInsertLog ==
    ASSUME BaseInv, SerialInv, CostInv, NEW r \in Request, InsertLog(r)
    PROVE  SerialInv' /\ CostInv'
<1> DEFINE x == [cx[conn[r]] EXCEPT !.begun = TRUE, !.log = @ \cup ({seq[r]} \ log)]
<1>1. /\ pc[r] = "insertLog" /\ Usable(conn[r]) /\ ByThread /\ NoStore /\ NoFault
      /\ Becomes(conn[r], x) /\ Goes(r, "commit", "none")
    BY InsertLogDoes
<1>2. /\ Alone(r) /\ conn[r] = db /\ db \in Conn /\ cx[db] \in Connection
    BY <1>1, AtDb DEF AtConn
<1>3. /\ x.rows = cx[db].rows /\ x.log = cx[db].log \cup ({seq[r]} \ log)
      /\ x.closed = cx[db].closed /\ x.alive = cx[db].alive
      /\ x.aborted = cx[db].aborted /\ x.begun = TRUE
    BY <1>2 DEF Connection
<1> HIDE DEF x
<1>4. /\ \A q \in Request : q # r => pc'[q] \in {"new", "done"}
      /\ pc'[r] = "commit" /\ conn'[r] = db' /\ db' = db /\ UNCHANGED <<seq, log>>
      /\ cx'[db].rows = cx[db].rows /\ cx'[db].log = cx[db].log \cup ({seq[r]} \ log)
      /\ cx'[db].begun /\ ~ cx'[db].closed /\ cx'[db].alive /\ ~ cx'[db].aborted
      /\ \A c \in Conn : c # db => cx'[c] = cx[c]
    BY <1>1, <1>2, <1>3 DEF Alone, Goes, ByThread, NoStore, Becomes, Usable
<1>5. r \in cx[db].rows /\ \A q \in cx[db].rows : q = r
    BY <1>1, <1>2, BaseTypes
       DEF SerialInv, ConnSerial, ThreadSerial, Alone, Usable
<1>6. cx[db].log = {}
    BY <1>1, <1>2 DEF SerialInv, ConnSerial, Alone
<1>7. ConnSerial'
  <2>1. \A c \in Conn : c # db => cx'[c].rows = {} /\ cx'[c].log = {}
                                   /\ (cx'[c].closed => ~ cx'[c].alive)
    BY <1>4 DEF SerialInv, ConnSerial, Empty
  <2>2. \A n \in cx'[db].log : n = seq'[r]
    BY <1>4, <1>6
  <2>3. QED
    BY <1>4, <1>5, <2>1, <2>2 DEF ConnSerial, Empty
<1>8. ThreadSerial'
    BY <1>4, <1>5 DEF ThreadSerial, AtConn, Kept
<1>9. StoreSerial'
  <2>1. kind[r] = "ingest" => seq[r] \notin log
    BY <1>1 DEF SerialInv, StoreSerial
  <2>2. r \notin rows
    BY <1>1 DEF SerialInv, StoreSerial, Failing
  <2>3. QED
    BY <1>1, <1>2, <2>1, <2>2, StoreStays DEF SerialInv, ByThread, Answers
<1>10. OneThread'
    BY <1>1, <1>2, StaysAlone
<1>11. CostInv'
  <2>1. ~ Broken'
    BY <1>4 DEF Broken
  <2>2. QED
    BY <1>1, <1>2, <2>1, CostSame DEF Failing, NoFault
<1>12. QED
    BY <1>7, <1>8, <1>9, <1>10, <1>11 DEF SerialInv

LEMMA SerialStatementRaises ==
    ASSUME BaseInv, SerialInv, CostInv, NEW r \in Request, StatementRaises(r)
    PROVE  SerialInv' /\ CostInv'
<1> DEFINE x == [cx[conn[r]] EXCEPT !.closed = @ \/ ~ cx[conn[r]].alive]
<1>1. /\ AtStatement(r) /\ ~ Usable(conn[r]) /\ ByThread /\ NoStore /\ NoFault
      /\ Becomes(conn[r], x) /\ Raised(r)
    BY StatementRaisesDoes
<1>2. pc[r] \in AtConn /\ pc[r] # "rollback" /\ pc[r] # "done"
    BY <1>1 DEF AtStatement, AtConn
<1>3. /\ Alone(r) /\ conn[r] = db /\ db \in Conn /\ db # None /\ cx[db] \in Connection
      /\ ~ cx[db].closed /\ pc[r] \notin Failing
      /\ ~ cx[db].alive \/ cx[db].aborted => Empty(db)
    BY <1>2, AtDb
<1>4. /\ x.rows = {} /\ x.log = {} /\ x.closed = ~ cx[db].alive /\ x.alive = cx[db].alive
      /\ x.aborted = cx[db].aborted
    BY <1>1, <1>3 DEF Connection, Empty, Usable
<1> HIDE DEF x
<1>5. SerialInv'
    BY <1>1, <1>2, <1>4, SerialRaised
<1>6. Broken
    BY <1>1, <1>3, BusyIs DEF Broken, Usable, Raised
<1>7. kind[r] # "read" => ~ Broken'
    BY <1>1, <1>3, <1>4, RaisedBusy DEF Broken, Becomes, ByThread
<1>8. faults' = faults + 0
    BY <1>1 DEF NoFault, BaseInv, TypeOK
<1>9. CostInv'
    BY <1>1, <1>2, <1>3, <1>6, <1>7, <1>8, RaisedOwes
<1>10. QED
    BY <1>5, <1>9

LEMMA SerialStatementFails ==
    ASSUME BaseInv, SerialInv, CostInv, NEW r \in Request, StatementFails(r)
    PROVE  SerialInv' /\ CostInv'
<1> DEFINE x == [Cleared(cx[conn[r]]) EXCEPT !.begun = TRUE, !.aborted = TRUE]
<1>1. /\ AtStatement(r) /\ Usable(conn[r]) /\ ByThread /\ NoStore /\ Fault
      /\ Becomes(conn[r], x) /\ Raised(r)
    BY StatementFailsDoes
<1>2. pc[r] \in AtConn /\ pc[r] # "rollback" /\ pc[r] # "done"
    BY <1>1 DEF AtStatement, AtConn
<1>3. /\ Alone(r) /\ conn[r] = db /\ db \in Conn /\ cx[db] \in Connection
      /\ ~ cx[db].closed /\ cx[db].alive /\ pc[r] \notin Failing
    BY <1>1, <1>2, AtDb DEF Usable
<1>4. /\ x.rows = {} /\ x.log = {} /\ x.closed = FALSE /\ x.alive = TRUE
    BY <1>3 DEF Connection, Cleared
<1> HIDE DEF x
<1>5. SerialInv'
    BY <1>1, <1>2, <1>4, SerialRaised
<1>6. kind[r] # "read" => ~ Broken'
    BY <1>1, <1>3, <1>4, RaisedBusy DEF Broken, Becomes, ByThread
<1>7. faults' = faults + 1
    BY <1>1 DEF Fault
<1>8. CostInv'
    BY <1>1, <1>2, <1>3, <1>6, <1>7, RaisedOwes
<1>9. QED
    BY <1>5, <1>8

LEMMA SerialCommitRaises ==
    ASSUME BaseInv, SerialInv, CostInv, NEW r \in Request, CommitRaises(r)
    PROVE  SerialInv' /\ CostInv'
<1> DEFINE x == [cx[conn[r]] EXCEPT !.closed = TRUE]
<1>1. /\ pc[r] = "commit" /\ ByThread /\ NoStore /\ NoFault
      /\ cx[conn[r]].closed \/ (cx[conn[r]].begun /\ ~ cx[conn[r]].alive)
      /\ Becomes(conn[r], x) /\ Raised(r)
    BY CommitRaisesDoes
<1>2. /\ Alone(r) /\ conn[r] = db /\ db \in Conn /\ db # None /\ cx[db] \in Connection
      /\ ~ cx[db].closed /\ ~ cx[db].alive /\ pc[r] \notin Failing /\ Empty(db)
    BY <1>1, AtDb DEF AtConn
<1>3. /\ x.rows = {} /\ x.log = {} /\ x.closed = TRUE /\ x.alive = FALSE
    BY <1>2 DEF Connection, Empty
<1> HIDE DEF x
<1>4. SerialInv'
    BY <1>1, <1>3, SerialRaised DEF AtConn
<1>5. Broken /\ ~ Broken'
    BY <1>1, <1>2, <1>3 DEF Broken, Becomes, ByThread
<1>6. faults' = faults + 0
    BY <1>1 DEF NoFault, BaseInv, TypeOK
<1>7. CostInv'
    BY <1>1, <1>2, <1>5, <1>6, RaisedOwes
<1>8. QED
    BY <1>4, <1>7

LEMMA SerialRollback ==
    ASSUME BaseInv, SerialInv, CostInv, NEW r \in Request, Rollback(r)
    PROVE  SerialInv' /\ CostInv'
<1>1. /\ pc[r] = "rollback" /\ ByThread /\ NoStore /\ NoFault /\ Goes(r, "done", "failed")
    BY RollbackDoes
<1>2. /\ Alone(r) /\ conn[r] = db /\ db \in Conn /\ cx[db] \in Connection /\ Empty(db)
      /\ cx[db].closed => ~ cx[db].alive
    BY <1>1, AtDb DEF AtConn
<1>3. PICK x : /\ Becomes(conn[r], x) /\ x.rows = {} /\ x.log = {}
               /\ x.closed => ~ x.alive
               /\ ~ x.closed => x.alive = cx[db].alive /\ ~ x.aborted /\ ~ cx[db].closed
  <2> DEFINE gone == cx[db].closed \/ (cx[db].begun /\ ~ cx[db].alive)
             y == [cx[db] EXCEPT !.closed = TRUE]
             z == Cleared(cx[db])
  <2>1. (gone /\ Becomes(conn[r], y)) \/ (~ gone /\ Becomes(conn[r], z))
    BY <1>2, RollbackDoes
  <2>2. y.rows = {} /\ y.log = {} /\ y.closed = TRUE /\ y.alive = cx[db].alive
    BY <1>2 DEF Connection, Empty
  <2>3. /\ z.rows = {} /\ z.log = {} /\ z.closed = cx[db].closed /\ z.alive = cx[db].alive
        /\ z.aborted = FALSE
    BY <1>2, Cleaned
  <2> HIDE DEF y, z
  <2>4. CASE gone /\ Becomes(conn[r], y)
    BY <1>2, <2>2, <2>4
  <2>5. CASE ~ gone /\ Becomes(conn[r], z)
    BY <1>2, <2>3, <2>5
  <2>6. QED
    BY <2>1, <2>4, <2>5
<1>4. SerialInv'
    BY <1>1, <1>3, SerialEmptied DEF AtConn, Answers
<1>5. Busy /\ ~ Busy'
    BY <1>1, <1>2, BusyIs DEF Failing
<1>6. Broken' => Broken
    BY <1>1, <1>2, <1>3 DEF Broken, Becomes, ByThread
<1>7. Owed' < Owed + 0
    BY <1>5, <1>6 DEF Owed
<1>8. faults' = faults + 0
    BY <1>1 DEF NoFault, BaseInv, TypeOK
<1>9. CostInv'
    BY <1>1, <1>7, <1>8, CostPaid
<1>10. QED
    BY <1>4, <1>9

\* The server commits: what was open is the row and the entry of the reading.
LEMMA SerialCommitted ==
    ASSUME BaseInv, SerialInv, NEW r \in Request, pc[r] = "commit", ByThread,
           cx[db].alive,
           NEW x, Becomes(conn[r], x), x.rows = {}, x.log = {}, x.closed => ~ x.alive,
           rows' = rows \cup cx[conn[r]].rows, log' = log \cup cx[conn[r]].log,
           Goes(r, "done", "stored") \/ Goes(r, "recheck", "none")
    PROVE  SerialInv'
<1>1. /\ Alone(r) /\ conn[r] = db /\ db \in Conn /\ cx[db] \in Connection
      /\ UNCHANGED <<kind, seq, conn, db>>
    BY AtDb DEF AtConn, ByThread
<1>2. cx[db].rows = {r}
  <2>1. r \in cx[db].rows
    BY DEF SerialInv, ThreadSerial
  <2>2. \A q \in cx[db].rows : q = r
    BY <1>1, BaseTypes DEF SerialInv, ConnSerial, Alone
  <2>3. QED
    BY <2>1, <2>2
<1>3. seq[r] \in log' /\ log' \subseteq log \cup {seq[r]}
    BY <1>1 DEF SerialInv, ConnSerial, ThreadSerial, Alone
<1>4. /\ rows' = rows \cup {r} /\ r \notin rows /\ rows \subseteq Request
      /\ kind[r] = "ingest" => seq[r] \notin log
    BY <1>1, <1>2 DEF SerialInv, StoreSerial, Failing, BaseInv, TypeOK
<1>5. /\ \A q \in Request : q # r => pc'[q] \in {"new", "done"} /\ pc'[q] = pc[q]
                                      /\ answer'[q] = answer[q]
      /\ pc'[r] \in {"done", "recheck"} /\ answer'[r] \in {"stored", "none"}
    BY <1>1 DEF Alone, Goes
<1>6. OneThread'
    BY <1>1, StaysAlone
<1>7. ConnSerial'
  <2>1. \A c \in Conn : cx'[c].rows = {} /\ cx'[c].log = {} /\ (cx'[c].closed => ~ cx'[c].alive)
    BY <1>1 DEF SerialInv, ConnSerial, Empty, Becomes
  <2>2. QED
    BY <2>1 DEF ConnSerial, Empty
<1>8. ThreadSerial'
    BY <1>5 DEF ThreadSerial, AtConn, Kept
<1>9. SeqOf(rows)' = SeqOf(rows) \cup {seq[r]}
    BY <1>1, <1>4 DEF SeqOf
<1>10. StoreSerial'
  <2>1. \A q \in Request :
            kind'[q] = "ingest" /\ pc'[q] \in {"insertRow", "insertLog", "commit"} =>
                seq'[q] \notin log'
    BY <1>5
  <2>2. \A q \in rows' : pc'[q] \in Failing \cup {"done"} /\ seq'[q] \in log'
    BY <1>1, <1>3, <1>4, <1>5 DEF SerialInv, StoreSerial, Failing
  <2>3. log' \subseteq SeqOf(rows)'
    BY <1>3, <1>9 DEF SerialInv, StoreSerial
  <2>4. \A q \in Request : /\ answer'[q] = "stored" => q \in rows'
                           /\ answer'[q] = "duplicate" => seq'[q] \in SeqOf(rows)'
    BY <1>1, <1>4, <1>5, <1>9 DEF SerialInv, StoreSerial
  <2>5. NoUnforcedDuplicate'
    BY <1>1, <1>4 DEF SerialInv, StoreSerial, NoUnforcedDuplicate
  <2>6. QED
    BY <2>1, <2>2, <2>3, <2>4, <2>5 DEF StoreSerial
<1>11. QED
    BY <1>6, <1>7, <1>8, <1>10 DEF SerialInv

LEMMA SerialCommit ==
    ASSUME BaseInv, SerialInv, CostInv, NEW r \in Request, Commit(r)
    PROVE  SerialInv' /\ CostInv'
<1> DEFINE x == Cleared(cx[conn[r]])
<1>1. /\ pc[r] = "commit" /\ ByThread /\ NoFault
      /\ cx[conn[r]].begun => cx[conn[r]].alive
      /\ Becomes(conn[r], x)
      /\ rows' = rows \cup cx[conn[r]].rows /\ log' = log \cup cx[conn[r]].log
      /\ Goes(r, "done", "stored")
    BY CommitDoes
<1>2. /\ Alone(r) /\ conn[r] = db /\ db \in Conn /\ cx[db] \in Connection
      /\ ~ cx[db].closed
    BY <1>1, AtDb DEF AtConn
<1>3. cx[db].alive
    BY <1>1, <1>2 DEF SerialInv, ThreadSerial
<1>4. /\ x.rows = {} /\ x.log = {} /\ x.closed = cx[db].closed /\ x.alive = cx[db].alive
      /\ x.aborted = FALSE
    BY <1>2, Cleaned
<1> HIDE DEF x
<1>5. SerialInv'
    BY <1>1, <1>2, <1>3, <1>4, SerialCommitted
<1>6. ~ Broken'
    BY <1>1, <1>2, <1>3, <1>4 DEF Broken, Becomes, ByThread
<1>7. CostInv'
    BY <1>1, <1>2, <1>6, CostSame DEF Failing, NoFault
<1>8. QED
    BY <1>5, <1>7

LEMMA SerialCommitReplyLost ==
    ASSUME BaseInv, SerialInv, CostInv, NEW r \in Request, CommitReplyLost(r)
    PROVE  SerialInv' /\ CostInv'
<1> DEFINE x == [Cleared(cx[conn[r]]) EXCEPT !.alive = FALSE, !.closed = TRUE]
<1>1. /\ pc[r] = "commit" /\ ByThread /\ Fault /\ cx[conn[r]].alive
      /\ Becomes(conn[r], x)
      /\ rows' = rows \cup cx[conn[r]].rows /\ log' = log \cup cx[conn[r]].log
      /\ Raised(r)
    BY CommitReplyLostDoes
<1>2. /\ Alone(r) /\ conn[r] = db /\ db \in Conn /\ cx[db] \in Connection
      /\ pc[r] \notin Failing /\ kind[r] # "read"
    BY <1>1, AtDb DEF AtConn, BaseInv, ThreadInv
<1>3. /\ x.rows = {} /\ x.log = {} /\ x.closed = TRUE /\ x.alive = FALSE
    BY <1>2 DEF Connection, Cleared
<1> HIDE DEF x
<1>4. Goes(r, "recheck", "none")
    BY <1>1, <1>2 DEF Raised
<1>5. SerialInv'
    BY <1>1, <1>2, <1>3, <1>4, SerialCommitted
<1>6. ~ Broken'
    BY <1>1, <1>2, <1>3 DEF Broken, Becomes, ByThread
<1>7. faults' = faults + 1
    BY <1>1 DEF Fault
<1>8. CostInv'
    BY <1>1, <1>2, <1>6, <1>7, RaisedOwes
<1>9. QED
    BY <1>5, <1>8

\* Every session dies, and what was open with it; no thread notices.
LEMMA SerialRestart ==
    ASSUME BaseInv, SerialInv, CostInv, Restart
    PROVE  SerialInv' /\ CostInv'
<1>1. /\ UNCHANGED <<pc, answer, kind, seq, conn, db, rows, log>>
      /\ faults' = faults + 1 /\ faults \in Nat /\ nconn \in Nat
  <2>1. faults \in Nat /\ nconn \in Nat
    BY DEF BaseInv, TypeOK
  <2>2. QED
    BY <2>1, RestartDoes DEF ByThread, NoStore, Fault
<1>2. ASSUME NEW c \in Conn
      PROVE  /\ cx'[c].closed = cx[c].closed /\ cx'[c].begun = cx[c].begun
             /\ cx'[c].rows = {} /\ cx'[c].log = {} /\ cx'[c].aborted = FALSE
             /\ c \in 1 .. nconn => cx'[c].alive = FALSE
             /\ cx'[c].closed => ~ cx'[c].alive
  <2>1. CASE c <= nconn
    BY <2>1, RestartDoes
  <2>2. CASE c > nconn
    <3>1. ~ c <= nconn /\ c \notin 1 .. nconn
      BY <1>1, <2>2 DEF Conn
    <3>2. cx'[c] = Fresh /\ cx[c] = Fresh
      BY <2>2, <3>1, RestartDoes DEF BaseInv, ConnInv
    <3>3. QED
      BY <3>1, <3>2 DEF Fresh
  <2>3. c <= nconn \/ c > nconn
    BY <1>1, BoundsAssumption DEF Conn
  <2>4. QED
    BY <2>1, <2>2, <2>3
<1>3. OneThread'
    BY <1>1 DEF SerialInv, OneThread, Active
<1>4. ConnSerial'
    BY <1>2 DEF ConnSerial, Empty
<1>5. \A r \in Request : pc[r] \in AtConn \cup {"return", "configure", "reconfigure"} =>
          db \in Conn /\ db \in 1 .. nconn
    BY BoundsAssumption
       DEF AtConn, Conn, BaseInv, TypeOK, ThreadInv, ConnInv, SerialInv, ThreadSerial
<1>6. ThreadSerial'
    BY <1>1, <1>2, <1>5 DEF SerialInv, ThreadSerial, AtConn, Kept
<1>7. StoreSerial'
    BY <1>1 DEF SerialInv, StoreSerial, SeqOf, NoUnforcedDuplicate
<1>8. CostInv'
  <2>1. Failed' = Failed /\ (Busy' <=> Busy)
    BY <1>1 DEF Failed, Busy
  <2>2. IsFiniteSet(Failed) /\ Cardinality(Failed) \in Nat /\ Cardinality(Failed) + Owed <= faults
    BY FS_CardinalityType DEF CostInv
  <2>3. Owed' <= Owed + 1 /\ Owed \in Nat /\ Owed' \in Nat
    BY <2>1 DEF Owed
  <2>4. Cardinality(Failed) + Owed' <= faults'
    BY <1>1, <2>2, <2>3
  <2>5. QED
    BY <2>1, <2>2, <2>4 DEF CostInv
<1>9. QED
    BY <1>3, <1>4, <1>6, <1>7, <1>8 DEF SerialInv

LEMMA SerialStep ==
    ASSUME BaseInv, SerialInv, CostInv, [Next]_vars, ~ overlapped'
    PROVE  SerialInv' /\ CostInv'
<1>1. ASSUME NEW r \in Request, Arrive(r) PROVE SerialInv' /\ CostInv'
    BY <1>1, SerialArrive, CostArrive
<1>2. ASSUME NEW r \in Request, Thread(r) PROVE SerialInv' /\ CostInv'
  <2>1. CASE GetDbCheck(r) \/ GetDbConnect(r) \/ GetDbConfigure(r) \/ GetDbReturn(r)
    BY <2>1, SerialGetDb, CostGetDb
  <2>2. QED
    BY <1>2, <2>1, SerialSelect, SerialInsertRow, SerialInsertLog, SerialRead,
       SerialStatementRaises, SerialCommit, SerialCommitRaises, SerialRollback DEF Thread
<1>3. ASSUME NEW r \in Request, FaultStep(r) PROVE SerialInv' /\ CostInv'
    BY <1>3, SerialStatementFails, SerialConnectFails, CostConnectFails, SerialCommitReplyLost
       DEF FaultStep
<1>4. CASE Restart
    BY <1>4, SerialRestart
<1>5. CASE UNCHANGED vars
  <2>1. UNCHANGED <<pc, kind, seq, conn, answer, db, cx, rows, log, faults>>
    BY <1>5 DEF vars, threadVars, dbVars, ghosts
  <2>2. OneThread' /\ ConnSerial'
    BY <2>1 DEF SerialInv, OneThread, Active, ConnSerial, Empty
  <2>3. ThreadSerial'
    BY <2>1 DEF SerialInv, ThreadSerial
  <2>4. StoreSerial'
    BY <2>1 DEF SerialInv, StoreSerial, SeqOf, NoUnforcedDuplicate
  <2>5. Failed' = Failed /\ Owed' = Owed
    BY <2>1 DEF Failed, Owed, Busy, Broken
  <2>6. CostInv'
    BY <2>1, <2>5 DEF CostInv
  <2>7. QED
    BY <2>2, <2>3, <2>4, <2>6 DEF SerialInv
<1>6. QED
    BY <1>1, <1>2, <1>3, <1>4, <1>5 DEF Next

-----------------------------------------------------------------------------
(* The whole.                                                              *)

\* A fault, an overlap and a clash are not forgotten.
LEMMA GhostsGrow ==
    ASSUME BaseInv, [Next]_vars
    PROVE  /\ faults \in Nat /\ faults' \in {faults, faults + 1}
           /\ overlapped => overlapped'
           /\ clashed => clashed'
<1>1. faults \in Nat
    BY DEF BaseInv, TypeOK
<1>2. ASSUME NEW r \in Request, Arrive(r)
      PROVE  faults' = faults /\ (overlapped => overlapped') /\ clashed' = clashed
    BY <1>2 DEF Arrive
<1>3. ASSUME NEW r \in Request, Thread(r)
      PROVE  faults' = faults /\ overlapped' = overlapped /\ (clashed => clashed')
  <2>1. CASE GetDbConfigure(r)
    BY <2>1 DEF GetDbConfigure
  <2>2. CASE UNCHANGED ghosts
    BY <2>2 DEF ghosts
  <2>3. QED
    BY <1>3, <2>1, <2>2
       DEF Thread, GetDbCheck, GetDbConnect, GetDbReturn, Select, InsertRow, InsertLog, Read,
           StatementRaises, Commit, CommitRaises, Rollback
<1>4. ASSUME NEW r \in Request, FaultStep(r)
      PROVE  Fault
    BY <1>4 DEF FaultStep, StatementFails, ConnectFails, CommitReplyLost
<1>5. Restart => Fault
    BY DEF Restart
<1>6. Fault => faults' = faults + 1 /\ UNCHANGED <<overlapped, clashed>>
    BY DEF Fault
<1>7. CASE UNCHANGED vars
    BY <1>1, <1>7 DEF vars, ghosts
<1>8. QED
    BY <1>1, <1>2, <1>3, <1>4, <1>5, <1>6, <1>7 DEF Next

LEMMA Initial ==
    ASSUME Init
    PROVE  IInv
<1>1. BaseInv
    BY BaseInitial
<1>2. /\ \A c \in Conn : cx[c] = Fresh
      /\ \A r \in Request : pc[r] = "new" /\ answer[r] = "none" /\ kind[r] = "none"
      /\ rows = {} /\ log = {} /\ db = None /\ faults = 0
    BY DEF Init
<1>3. \A c \in Conn : /\ ~ cx[c].closed /\ cx[c].alive /\ ~ cx[c].aborted
                      /\ cx[c].rows = {} /\ cx[c].log = {}
    BY <1>2 DEF Fresh
<1>4. SharedInv
  <2>1. AllWell
    BY <1>2, <1>3 DEF AllWell, Failing
  <2>2. RowsShared
    BY <1>2, <1>3 DEF RowsShared
  <2>3. LogShared
    BY <1>2, <1>3 DEF LogShared
  <2>4. AnswersShared
    BY <1>2 DEF AnswersShared
  <2>5. QED
    BY <2>1, <2>2, <2>3, <2>4 DEF SharedInv
<1>5. SerialInv
  <2>1. OneThread
    BY <1>2 DEF OneThread, Active
  <2>2. ConnSerial
    BY <1>3 DEF ConnSerial, Empty
  <2>3. ThreadSerial
    BY <1>2 DEF ThreadSerial, AtConn, Kept
  <2>4. StoreSerial
    BY <1>2 DEF StoreSerial, NoUnforcedDuplicate
  <2>5. QED
    BY <2>1, <2>2, <2>3, <2>4 DEF SerialInv
<1>6. CostInv
  <2>1. Failed = {} /\ ~ Busy /\ ~ Broken
    BY <1>2 DEF Failed, Busy, Broken, Failing
  <2>2. IsFiniteSet(Failed) /\ Cardinality(Failed) = 0
    BY <2>1, FS_EmptySet
  <2>3. Owed = 0
    BY <2>1 DEF Owed
  <2>4. QED
    BY <1>2, <2>2, <2>3 DEF CostInv
<1>7. QED
    BY <1>1, <1>4, <1>5, <1>6 DEF IInv

LEMMA Step ==
    ASSUME IInv, [Next]_vars
    PROVE  IInv'
<1>1. BaseInv /\ BaseInv'
    BY BaseStep DEF IInv
<1>2. ASSUME faults' = 0, ~ clashed' PROVE SharedInv'
  <2>1. faults = 0 /\ ~ clashed
    BY <1>1, <1>2, GhostsGrow
  <2>2. QED
    BY <1>1, <1>2, <2>1, SharedStep DEF IInv
<1>3. ASSUME ~ overlapped' PROVE SerialInv' /\ CostInv'
  <2>1. ~ overlapped
    BY <1>1, <1>3, GhostsGrow
  <2>2. QED
    BY <1>1, <1>3, <2>1, SerialStep DEF IInv
<1>4. QED
    BY <1>1, <1>2, <1>3 DEF IInv

LEMMA Invariance == Spec => []IInv
<1>1. Init => IInv
    BY Initial
<1>2. IInv /\ [Next]_vars => IInv'
    BY Step
<1>3. QED
    BY <1>1, <1>2, PTL DEF Spec

(***************************************************************************)
(* Every variable of sim_app.py's model keeps its type.                    *)
(***************************************************************************)
THEOREM TypeCorrect == Spec => []TypeOK
<1>1. IInv => TypeOK
    BY DEF IInv, BaseInv
<1>2. QED
    BY <1>1, Invariance, PTL

(***************************************************************************)
(* What a client is told of its reading is so in the tables: stored means  *)
(* committed, duplicate means there is a row, under faults or under        *)
(* threads that share the connection, for any number of either.            *)
(***************************************************************************)
THEOREM AnswersAreTrueAlways == Spec => []AnswersAreTrue
<1>1. ASSUME SharedInv PROVE AnswersAreTrue
    BY <1>1 DEF SharedInv, AnswersShared, AnswersAreTrue
<1>2. ASSUME SerialInv PROVE AnswersAreTrue
    BY <1>2 DEF SerialInv, StoreSerial, AnswersAreTrue, SeqOf
<1>3. IInv => AnswersAreTrue
    BY <1>1, <1>2 DEF IInv, AnswersAreTrue, FaultsOrThreads
<1>4. QED
    BY <1>3, Invariance, PTL

(***************************************************************************)
(* The two statements of a reading's transaction, the row and the entry of *)
(* the dedup log, take effect together, whoever commits them.              *)
(***************************************************************************)
THEOREM RowAndLogTogetherAlways == Spec => []RowAndLogTogether
<1>1. ASSUME SharedInv PROVE RowAndLogTogether
    BY <1>1 DEF SharedInv, LogShared, RowAndLogTogether
<1>2. ASSUME SerialInv PROVE RowAndLogTogether
    BY <1>2 DEF SerialInv, StoreSerial, RowAndLogTogether
<1>3. IInv => RowAndLogTogether
    BY <1>1, <1>2 DEF IInv, RowAndLogTogether, FaultsOrThreads
<1>4. QED
    BY <1>3, Invariance, PTL

(***************************************************************************)
(* _is_duplicate works for requests that come one after the other, however *)
(* often a reading is sent again and whatever fails in between.            *)
(***************************************************************************)
THEOREM SerialDedupAlways == Spec => []SerialDedup
<1>1. IInv => SerialDedup
    BY DEF IInv, SerialInv, StoreSerial, SerialDedup
<1>2. QED
    BY <1>1, Invariance, PTL

(***************************************************************************)
(* A failed statement, connect or commit, or a restart of the database,    *)
(* costs at most one reading: _get_db and the rollback of the except       *)
(* clause mend the shared connection.                                      *)
(***************************************************************************)
THEOREM FaultCostsOneReadingAlways == Spec => []FaultCostsOneReading
<1>1. ASSUME IInv, ~ overlapped PROVE Cardinality(Failed) <= faults
  <2>1. IsFiniteSet(Failed) /\ Cardinality(Failed) + Owed <= faults /\ faults \in Nat
    BY <1>1 DEF IInv, CostInv, BaseInv, TypeOK
  <2>2. Cardinality(Failed) \in Nat
    BY <2>1, FS_CardinalityType
  <2>3. Owed \in Nat
    BY DEF Owed
  <2>4. QED
    BY <2>1, <2>2, <2>3
<1>2. IInv => FaultCostsOneReading
    BY <1>1 DEF FaultCostsOneReading, Failed
<1>3. QED
    BY <1>2, Invariance, PTL

=============================================================================
