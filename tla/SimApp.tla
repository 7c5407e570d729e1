------------------------------- MODULE SimApp -------------------------------
(***************************************************************************)
(* The cloud store as the project runs it: cloud/lambda/sim_app.py, a      *)
(* threaded Flask server whose request threads share one psycopg2          *)
(* connection, _db_conn, and with it one transaction; and the two tables   *)
(* of schema.sql.  A request is a thread; each call into psycopg2 is one   *)
(* step, since the threads interleave there.  Validation, decryption and   *)
(* the JSON of the answers are abstracted: a request arrives as the        *)
(* reading it carries, told by its sequence number (one device).           *)
(***************************************************************************)
EXTENDS Naturals, FiniteSets

CONSTANTS
    Request,    \* the requests a run handles
    SeqNo,      \* sequence numbers of the readings; 0 is the first
    Kinds,      \* which of "ingest", "forced", "sms", "read" arrive
    MaxThreads, \* bound: requests in progress at once
    MaxConns,   \* bound: connections ever opened
    MaxFaults,  \* bound: failed statements, connects and commits, restarts
    None

ASSUME SeqNoAssumption == SeqNo \subseteq Nat /\ 0 \in SeqNo
ASSUME KindsAssumption == Kinds \subseteq {"ingest", "forced", "sms", "read"}
ASSUME BoundsAssumption == MaxConns \in Nat /\ MaxFaults \in Nat
ASSUME NoneAssumption == None \notin Nat

VARIABLES
    pc,         \* the next call of each request thread
    kind,       \* /ingest, /ingest with force, /sms, or a GET
    seq,        \* the sequence number of the reading to insert
    frame,      \* of an SMS: the numbers of its two halves
    conn,       \* the connection object the thread holds
    answer,     \* what the client was told of the reading
    db,         \* _db_conn
    cx,         \* the connections: client flags and the server's transaction
    nconn,      \* connections opened so far, numbered from 1
    rows,       \* sensor_readings, committed: the requests with a row
    log,        \* sequence_log, committed: sequence numbers
    faults,
    overlapped, \* ghost: have two requests ever been in progress together?
    clashed     \* ghost: has a thread failed to configure a connection in use?

threadVars == <<pc, kind, seq, frame, conn, answer>>
dbVars == <<db, cx, nconn, rows, log>>
ghosts == <<faults, overlapped, clashed>>
vars == <<threadVars, dbVars, ghosts>>

Conn == 1 .. MaxConns

\* A connection: psycopg2 knows closed and begun; the server knows whether
\* the session lives, whether its transaction is aborted, and its rows.
Fresh == [closed |-> FALSE, begun |-> FALSE, alive |-> TRUE,
          aborted |-> FALSE, rows |-> {}, log |-> {}]

\* The SMS carries a reading and its predecessor; the first has none.
SmsFrames == { <<s, IF s = 0 THEN None ELSE s - 1>> : s \in SeqNo }

\* sms()'s search for the sequence number of one half starts at 0, and a
\* wrong guess makes parse raise on the CRC, which ends the search.  (A
\* wrong guess passing a 16-bit CRC by chance is left out.)
FoundAt(half) == half = 0

Found(f) == { s \in {f[1], f[2]} \ {None} : FoundAt(s) }

Active == { r \in Request : pc[r] \notin {"new", "done"} }

-----------------------------------------------------------------------------

Init ==
    /\ pc = [r \in Request |-> "new"]
    /\ kind = [r \in Request |-> "none"]
    /\ seq = [r \in Request |-> None]
    /\ frame = [r \in Request |-> None]
    /\ conn = [r \in Request |-> None]
    /\ answer = [r \in Request |-> "none"]
    /\ db = None
    /\ cx = [c \in Conn |-> Fresh]
    /\ nconn = 0
    /\ rows = {}
    /\ log = {}
    /\ faults = 0
    /\ overlapped = FALSE
    /\ clashed = FALSE

Goto(r, label) == pc' = [pc EXCEPT ![r] = label]

Answer(r, a) ==
    /\ answer' = [answer EXCEPT ![r] = a]
    /\ Goto(r, "done")

\* A request with a reading in it, or a GET of /readings or /summary.
ArriveReading(r) ==
    \E k \in Kinds \cap {"ingest", "forced"}, s \in SeqNo :
        /\ kind' = [kind EXCEPT ![r] = k]
        /\ seq' = [seq EXCEPT ![r] = s]
        /\ Goto(r, "check")
        /\ UNCHANGED <<frame, answer>>

\* An SMS: the halves whose number is found are inserted; at most one is.
ArriveSms(r) ==
    \E f \in SmsFrames :
        /\ "sms" \in Kinds
        /\ kind' = [kind EXCEPT ![r] = "sms"]
        /\ frame' = [frame EXCEPT ![r] = f]
        /\ \/ /\ Found(f) = {}
              /\ Answer(r, "nothing")
              /\ UNCHANGED seq
           \/ \E s \in Found(f) :
                /\ seq' = [seq EXCEPT ![r] = s]
                /\ Goto(r, "check")
                /\ UNCHANGED answer

ArriveRead(r) ==
    /\ "read" \in Kinds
    /\ kind' = [kind EXCEPT ![r] = "read"]
    /\ Goto(r, "check")
    /\ UNCHANGED <<seq, frame, answer>>

Arrive(r) ==
    /\ pc[r] = "new"
    /\ Cardinality(Active) < MaxThreads
    /\ ArriveReading(r) \/ ArriveSms(r) \/ ArriveRead(r)
    /\ overlapped' = (overlapped \/ Active # {})
    /\ UNCHANGED <<conn, dbVars, faults, clashed>>

-----------------------------------------------------------------------------
(* _get_db, called from the handler ("check") and from its except clause   *)
(* ("recheck"): test the global, perhaps connect, assign and configure it, *)
(* and return the global as it is by then.                                 *)

NeedsConnect == db = None \/ (db # None /\ cx[db].closed)

Recovering(r) == pc[r] \in {"recheck", "reconnect", "reconfigure", "rereturn"}

\* The exception leaves the try block: the handler of a reading goes on to
\* roll back; a GET only answers 500.  In the except clause it is swallowed.
Raise(r) ==
    \/ Recovering(r) /\ Answer(r, "failed")
    \/ ~ Recovering(r) /\ kind[r] = "read" /\ Answer(r, "error")
    \/ ~ Recovering(r) /\ kind[r] # "read" /\ Goto(r, "recheck") /\ UNCHANGED answer

GetDbCheck(r) ==
    /\ pc[r] \in {"check", "recheck"}
    /\ Goto(r, IF Recovering(r)
                 THEN IF NeedsConnect THEN "reconnect" ELSE "rereturn"
                 ELSE IF NeedsConnect THEN "connect" ELSE "return")
    /\ UNCHANGED <<kind, seq, frame, conn, answer, dbVars, ghosts>>

GetDbConnect(r) ==
    /\ pc[r] \in {"connect", "reconnect"}
    /\ nconn < MaxConns
    /\ nconn' = nconn + 1
    /\ db' = nconn + 1
    /\ Goto(r, IF Recovering(r) THEN "reconfigure" ELSE "configure")
    /\ UNCHANGED <<kind, seq, frame, conn, answer, cx, rows, log, ghosts>>

\* autocommit is set on the global, as it is by now.  It has that value
\* already, but psycopg2 refuses to set it where a transaction has begun.
GetDbConfigure(r) ==
    /\ pc[r] \in {"configure", "reconfigure"}
    /\ IF cx[db].closed \/ cx[db].begun
         THEN clashed' = TRUE /\ Raise(r)
         ELSE /\ Goto(r, IF Recovering(r) THEN "rereturn" ELSE "return")
              /\ UNCHANGED <<answer, clashed>>
    /\ UNCHANGED <<kind, seq, frame, conn, dbVars, faults, overlapped>>

\* Mutant of GetDbReturn: a GET goes on to the insert.
GetDbReturnNoRead(r) ==
    /\ pc[r] \in {"return", "rereturn"}
    /\ conn' = [conn EXCEPT ![r] = db]
    /\ Goto(r, IF Recovering(r) THEN "rollback"
                ELSE IF kind[r] = "ingest" THEN "select" ELSE "insertRow")
    /\ UNCHANGED <<kind, seq, frame, answer, dbVars, ghosts>>

GetDbReturn(r) ==
    /\ pc[r] \in {"return", "rereturn"}
    /\ conn' = [conn EXCEPT ![r] = db]
    /\ Goto(r, IF Recovering(r) THEN "rollback"
                ELSE CASE kind[r] = "ingest" -> "select"
                       [] kind[r] \in {"forced", "sms"} -> "insertRow"
                       [] kind[r] = "read" -> "read")
    /\ UNCHANGED <<kind, seq, frame, answer, dbVars, ghosts>>

-----------------------------------------------------------------------------
(* Statements.  Each runs on the transaction of the thread's connection,   *)
(* whoever began it.                                                       *)

Usable(c) == ~ cx[c].closed /\ cx[c].alive /\ ~ cx[c].aborted

\* Mutant of Select: committed entries are not looked at.
SelectOwnOnly(r) ==
    /\ pc[r] = "select"
    /\ Usable(conn[r])
    /\ cx' = [cx EXCEPT ![conn[r]].begun = TRUE]
    /\ IF seq[r] \in cx[conn[r]].log
         THEN Answer(r, "duplicate")
         ELSE Goto(r, "insertRow") /\ UNCHANGED answer
    /\ UNCHANGED <<kind, seq, frame, conn, db, nconn, rows, log, ghosts>>

\* SELECT of _is_duplicate.  A duplicate is answered with the transaction
\* left open.
Select(r) ==
    /\ pc[r] = "select"
    /\ Usable(conn[r])
    /\ cx' = [cx EXCEPT ![conn[r]].begun = TRUE]
    /\ IF seq[r] \in log \cup cx[conn[r]].log
         THEN Answer(r, "duplicate")
         ELSE Goto(r, "insertRow") /\ UNCHANGED answer
    /\ UNCHANGED <<kind, seq, frame, conn, db, nconn, rows, log, ghosts>>

InsertRow(r) ==
    /\ pc[r] = "insertRow"
    /\ Usable(conn[r])
    /\ cx' = [cx EXCEPT ![conn[r]].begun = TRUE, ![conn[r]].rows = @ \cup {r}]
    /\ Goto(r, "insertLog")
    /\ UNCHANGED <<kind, seq, frame, conn, answer, db, nconn, rows, log, ghosts>>

\* Mutant of InsertLog: no entry is written.
InsertLogForgotten(r) ==
    /\ pc[r] = "insertLog"
    /\ Usable(conn[r])
    /\ Goto(r, "commit")
    /\ UNCHANGED <<kind, seq, frame, conn, answer, dbVars, ghosts>>

\* INSERT ... ON CONFLICT DO NOTHING waits while another transaction holds
\* the same key uncommitted.
InsertLog(r) ==
    /\ pc[r] = "insertLog"
    /\ Usable(conn[r])
    /\ \A c \in Conn \ {conn[r]} : seq[r] \notin cx[c].log
    /\ cx' = [cx EXCEPT ![conn[r]].begun = TRUE, ![conn[r]].log = @ \cup ({seq[r]} \ log)]
    /\ Goto(r, "commit")
    /\ UNCHANGED <<kind, seq, frame, conn, answer, db, nconn, rows, log, ghosts>>

\* The SELECT of a GET; it begins a transaction that nothing ends.
Read(r) ==
    /\ pc[r] = "read"
    /\ Usable(conn[r])
    /\ cx' = [cx EXCEPT ![conn[r]].begun = TRUE]
    /\ Answer(r, "ok")
    /\ UNCHANGED <<kind, seq, frame, conn, db, nconn, rows, log, ghosts>>

AtStatement(r) == pc[r] \in {"select", "insertRow", "insertLog", "read"}

\* Mutant of StatementRaises: the statement is tried again on the same connection.
StatementRetries(r) ==
    /\ AtStatement(r)
    /\ ~ Usable(conn[r])
    /\ cx' = [cx EXCEPT ![conn[r]].closed = @ \/ ~ cx[conn[r]].alive]
    /\ UNCHANGED <<threadVars, db, nconn, rows, log, ghosts>>

\* The statement meets a closed connection, a dead session or a transaction
\* another statement has aborted; a dead session is noticed by this.
StatementRaises(r) ==
    /\ AtStatement(r)
    /\ ~ Usable(conn[r])
    /\ cx' = [cx EXCEPT ![conn[r]].closed = @ \/ ~ cx[conn[r]].alive]
    /\ Raise(r)
    /\ UNCHANGED <<kind, seq, frame, conn, db, nconn, rows, log, ghosts>>

-----------------------------------------------------------------------------
(* conn.commit and the rollback of the except clause.                      *)

Cleared(x) == [x EXCEPT !.begun = FALSE, !.aborted = FALSE, !.rows = {}, !.log = {}]

\* Mutant of Commit: the reading is answered stored without a commit.
CommitForgotten(r) ==
    /\ pc[r] = "commit"
    /\ Answer(r, "stored")
    /\ UNCHANGED <<kind, seq, frame, conn, dbVars, ghosts>>

\* Committing where no transaction is open does nothing, and the server
\* turns the commit of an aborted one into a rollback; neither raises.
Commit(r) ==
    LET c == conn[r] IN
    /\ pc[r] = "commit"
    /\ ~ cx[c].closed
    /\ cx[c].begun => cx[c].alive
    /\ rows' = rows \cup cx[c].rows
    /\ log' = log \cup cx[c].log
    /\ cx' = [cx EXCEPT ![c] = Cleared(@)]
    /\ Answer(r, "stored")
    /\ UNCHANGED <<kind, seq, frame, conn, db, nconn, ghosts>>

CommitRaises(r) ==
    LET c == conn[r] IN
    /\ pc[r] = "commit"
    /\ cx[c].closed \/ (cx[c].begun /\ ~ cx[c].alive)
    /\ cx' = [cx EXCEPT ![c].closed = TRUE]
    /\ Raise(r)
    /\ UNCHANGED <<kind, seq, frame, conn, db, nconn, rows, log, ghosts>>

\* Mutant of Rollback: the exception is swallowed without a rollback.
RollbackForgotten(r) ==
    /\ pc[r] = "rollback"
    /\ Answer(r, "failed")
    /\ UNCHANGED <<kind, seq, frame, conn, dbVars, ghosts>>

\* rollback on the connection _get_db returned, which need not be the one
\* that failed; its own failure is swallowed.
Rollback(r) ==
    LET c == conn[r] IN
    /\ pc[r] = "rollback"
    /\ cx' = [cx EXCEPT ![c] =
                 IF @.closed \/ (@.begun /\ ~ @.alive) THEN [@ EXCEPT !.closed = TRUE]
                                                      ELSE Cleared(@)]
    /\ Answer(r, "failed")
    /\ UNCHANGED <<kind, seq, frame, conn, db, nconn, rows, log, ghosts>>

-----------------------------------------------------------------------------
(* Faults of the database, each counted.                                   *)

Fault == faults < MaxFaults /\ faults' = faults + 1 /\ UNCHANGED <<overlapped, clashed>>

StatementFails(r) ==
    /\ Fault
    /\ AtStatement(r)
    /\ Usable(conn[r])
    /\ cx' = [cx EXCEPT ![conn[r]] = [Cleared(@) EXCEPT !.begun = TRUE, !.aborted = TRUE]]
    /\ Raise(r)
    /\ UNCHANGED <<kind, seq, frame, conn, db, nconn, rows, log>>

\* connect() raises.
ConnectFails(r) ==
    /\ Fault
    /\ pc[r] \in {"connect", "reconnect"}
    /\ Raise(r)
    /\ UNCHANGED <<kind, seq, frame, conn, dbVars>>

\* The server committed, but the session died before the reply.
CommitReplyLost(r) ==
    LET c == conn[r] IN
    /\ Fault
    /\ pc[r] = "commit"
    /\ ~ cx[c].closed /\ cx[c].begun /\ cx[c].alive
    /\ rows' = rows \cup cx[c].rows
    /\ log' = log \cup cx[c].log
    /\ cx' = [cx EXCEPT ![c] = [Cleared(@) EXCEPT !.alive = FALSE, !.closed = TRUE]]
    /\ Raise(r)
    /\ UNCHANGED <<kind, seq, frame, conn, db, nconn>>

\* The database restarts: every session dies with its open transaction.
Restart ==
    /\ Fault
    /\ cx' = [c \in Conn |->
                 IF c <= nconn THEN [cx[c] EXCEPT !.alive = FALSE, !.aborted = FALSE,
                                                  !.rows = {}, !.log = {}]
                               ELSE cx[c]]
    /\ UNCHANGED <<threadVars, db, nconn, rows, log>>

-----------------------------------------------------------------------------

Thread(r) ==
    \/ GetDbCheck(r) \/ GetDbConnect(r) \/ GetDbConfigure(r) \/ GetDbReturn(r)
    \/ Select(r) \/ InsertRow(r) \/ InsertLog(r) \/ Read(r) \/ StatementRaises(r)
    \/ Commit(r) \/ CommitRaises(r) \/ Rollback(r)

FaultStep(r) == StatementFails(r) \/ ConnectFails(r) \/ CommitReplyLost(r)

Next ==
    \/ \E r \in Request : Arrive(r) \/ Thread(r) \/ FaultStep(r)
    \/ Restart

\* The operating system runs every thread; clients and faults owe nothing.
Spec == Init /\ [][Next]_vars /\ \A r \in Request : WF_vars(Thread(r))

-----------------------------------------------------------------------------

Connection ==
    [closed : BOOLEAN, begun : BOOLEAN, alive : BOOLEAN, aborted : BOOLEAN,
     rows : SUBSET Request, log : SUBSET SeqNo]

TypeOK ==
    /\ pc \in [Request -> {"new", "check", "connect", "configure", "return", "select", "insertRow",
                           "insertLog", "commit", "read", "recheck", "reconnect",
                           "reconfigure", "rereturn", "rollback", "done"}]
    /\ kind \in [Request -> {"none"} \cup Kinds]
    /\ seq \in [Request -> SeqNo \cup {None}]
    /\ frame \in [Request -> SmsFrames \cup {None}]
    /\ conn \in [Request -> Conn \cup {None}]
    /\ answer \in [Request -> {"none", "stored", "duplicate", "failed", "nothing", "ok", "error"}]
    /\ db \in Conn \cup {None}
    /\ cx \in [Conn -> Connection]
    /\ nconn \in 0 .. MaxConns
    /\ rows \subseteq Request
    /\ log \subseteq SeqNo
    /\ faults \in 0 .. MaxFaults
    /\ overlapped \in BOOLEAN
    /\ clashed \in BOOLEAN

SeqOf(R) == { seq[r] : r \in R }

\* Either alone is harmless: database faults while requests come one after
\* the other, and threads that share the connection while nothing fails, as
\* long as none of them meets the connection of another half configured.
\* Together they are not: see ForcedIsStored.
FaultsOrThreads == (faults = 0 /\ ~ clashed) \/ ~ overlapped

(***************************************************************************)
(* The answers are true: "stored": true means the row is committed, and a  *)
(* reading refused as a duplicate has a row, committed or about to be on a *)
(* live connection.  A request after a fault is told the truth, and so is  *)
(* one whose statements another thread's commit has already committed.     *)
(***************************************************************************)
AnswersAreTrue ==
    FaultsOrThreads =>
        \A r \in Request :
            /\ answer[r] = "stored" => r \in rows
            /\ answer[r] = "duplicate" =>
                   seq[r] \in SeqOf(rows \cup UNION { cx[c].rows : c \in Conn })

(***************************************************************************)
(* A reading's row and its entry in sequence_log, two statements of one    *)
(* transaction, become visible together: an entry without a row would make *)
(* the dedup refuse a reading that was never stored, a row without an      *)
(* entry would let it in twice.  While the request runs its row may be     *)
(* ahead of its entry, committed by another thread.                        *)
(***************************************************************************)
RowAndLogTogether ==
    FaultsOrThreads =>
        /\ log \subseteq SeqOf(rows)
        /\ \A r \in rows : pc[r] = "done" => seq[r] \in log

(***************************************************************************)
(* Dedup: of the readings posted to /ingest without force, at most one row *)
(* per sequence number, however often it is sent again (an insert by /sms  *)
(* skips the check).  schema.sql calls sequence_log the "Sequence          *)
(* deduplication log".  The code keeps this only while requests do not     *)
(* overlap.                                                                *)
(***************************************************************************)
NoUnforcedDuplicate ==
    \A q, r \in rows : q # r /\ kind[q] = "ingest" /\ kind[r] = "ingest" => seq[q] # seq[r]

(***************************************************************************)
(* One request after the other, dedup holds, through database faults too:  *)
(* what a fault undid is let in again and what it did not is refused.      *)
(***************************************************************************)
SerialDedup == ~ overlapped => NoUnforcedDuplicate

(***************************************************************************)
(* A fault costs at most one reading: the rollback or the reconnection it  *)
(* provokes leaves the shared connection usable for the next request.      *)
(***************************************************************************)
FaultCostsOneReading ==
    ~ overlapped => Cardinality({ r \in Request : answer[r] = "failed" }) <= faults

(***************************************************************************)
(* Every request is answered: no thread waits for ever for the others or   *)
(* for a transaction left open.                                            *)
(***************************************************************************)
EveryRequestAnswered == \A r \in Request : (pc[r] # "new") ~> (pc[r] = "done")

-----------------------------------------------------------------------------
(* What comments and documentation say and the code does not do.           *)

(***************************************************************************)
(* sim_bridge.py: "force=true bypasses dedup so every packet is stored in  *)
(* the DB": a forced reading the server answered stored has its row.       *)
(***************************************************************************)
ForcedIsStored ==
    \A r \in Request : kind[r] = "forced" /\ answer[r] = "stored" => r \in rows

(***************************************************************************)
(* sim_app.py of the search for an SMS half's sequence number: "Converges  *)
(* in 1-2 steps under normal conditions".  Every half with a reading in it *)
(* is found.                                                               *)
(***************************************************************************)
SmsHalvesFound ==
    \A r \in Request :
        kind[r] = "sms" => Found(frame[r]) = {frame[r][1], frame[r][2]} \ {None}
=============================================================================
