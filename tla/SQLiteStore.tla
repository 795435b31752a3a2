----------------------------- MODULE SQLiteStore -----------------------------
(***************************************************************************)
(* replay/sqlite_store.py: processes that open, save to, load from and     *)
(* query one database file.  Every SQL statement outside a transaction is  *)
(* a transaction of its own; a writer holds the database's only write      *)
(* lock, and a statement that waits for it longer than the busy timeout    *)
(* raises.  Any process may die between two statements.                    *)
(* A file of a later build is opened too, until its version is read.       *)
(***************************************************************************)
EXTENDS Integers, Sequences, FiniteSets

CONSTANTS
  Procs,          \* processes that use the database
  Artifacts,      \* records [id, at, cases]
  Limit,          \* the limit of query_sessions
  NewerVersion,   \* a schema version of a later build
  NoProc          \* nobody holds the write lock

SCHEMA_VERSION == 1

ASSUME SQLiteStoreAssumption ==
  /\ IsFiniteSet(Artifacts)
  /\ \A a \in Artifacts : a.at \in Nat /\ IsFiniteSet(a.cases)
  /\ Limit \in Nat
  /\ NewerVersion \in Nat /\ NewerVersion > SCHEMA_VERSION
  /\ NoProc \notin Procs

VARIABLES
  schema,    \* which parts of Setup the file has
  meta,      \* the rows of schema_meta, in rowid order
  sessions,  \* the committed rows of sessions (the payload is the artifact)
  caseRows,  \* the committed rows of case_results, as <<session id, case id>>
  lock,      \* the process in a write transaction, or none
  pc,        \* where each process is
  pending,   \* the case_results rows of its open transaction
  reply      \* its save call and artifact, or what its last call gave

database == <<schema, meta, sessions, caseRows>>
vars == <<database, lock, pc, pending, reply>>

(* What __init__ runs before it reads the version, in order: the journal   *)
(* mode, and the CREATE statements (a table's indexes as one).             *)
Setup == << "wal", "schema_meta", "sessions", "idx_sessions",
            "case_results", "idx_case_results" >>
Parts == { Setup[i] : i \in DOMAIN Setup }

Newer == meta # <<>> /\ Head(meta) > SCHEMA_VERSION

Reply(kind, of) == [kind |-> kind, of |-> of]
Down == Reply("down", <<>>)
Idle == Reply("idle", <<>>)

SessionIds == { a.id : a \in Artifacts }
CaseIds == UNION { a.cases : a \in Artifacts }
RowsOf(a) == {a.id} \X a.cases

Opening == {"schema", "version", "stamp"}
InCall == {"lookup", "insert", "cases"}

TypeOK ==
  /\ schema \subseteq Parts
  /\ meta \in Seq({SCHEMA_VERSION, NewerVersion})
  /\ sessions \subseteq Artifacts
  /\ caseRows \subseteq SessionIds \X CaseIds
  /\ lock \in Procs \cup {NoProc}
  /\ pc \in [Procs -> Opening \cup InCall \cup {"closed", "ready"}]
  /\ pending \in [Procs -> SUBSET (SessionIds \X CaseIds)]
  /\ reply \in [Procs -> [ kind : { "down", "idle", "saving", "saved", "duplicate",
                                    "integrity_error", "failed", "loaded",
                                    "not_found", "listed" },
                           of : Seq(Artifacts) ]]
  /\ \A p \in Procs : pc[p] \in InCall <=> reply[p].kind = "saving"

(* A file that does not exist yet, the empty database of this build, or    *)
(* one of a later build, which says its version where this build looks for *)
(* it and may have dropped or renamed anything else.                       *)
Init ==
  /\ \/ schema = {} /\ meta = <<>>
     \/ schema = Parts /\ meta = <<SCHEMA_VERSION>>
     \/ /\ schema \in { s \in SUBSET Parts : "schema_meta" \in s }
        /\ meta = <<NewerVersion>>
  /\ sessions = {}
  /\ caseRows = {}
  /\ lock = NoProc
  /\ pc = [p \in Procs |-> "closed"]
  /\ pending = [p \in Procs |-> {}]
  /\ reply = [p \in Procs |-> Down]

-----------------------------------------------------------------------------
(* SQLiteStore.__init__ *)

Goto(p, step) == pc' = [pc EXCEPT ![p] = step]
Unlocked == lock = NoProc

Connect(p) ==
  /\ pc[p] = "closed"
  /\ Goto(p, "schema")
  /\ UNCHANGED <<database, lock, pending, reply>>

(* PRAGMA journal_mode=WAL and executescript's CREATE ... IF NOT EXISTS,   *)
(* one statement at a time: the next that has anything to do.              *)
CreateMissing(p) ==
  /\ pc[p] = "schema" /\ Unlocked
  /\ \E i \in DOMAIN Setup :
       /\ Setup[i] \notin schema
       /\ \A j \in DOMAIN Setup : j < i => Setup[j] \in schema
       /\ schema' = schema \cup {Setup[i]}
  /\ UNCHANGED <<meta, sessions, caseRows, lock, pc, pending, reply>>

(* Mutant of SchemaDone: a database with one of the tables has them all.   *)
SchemaDone_FirstTable(p) ==
  /\ pc[p] = "schema"
  /\ "schema_meta" \in schema
  /\ Goto(p, "version")
  /\ UNCHANGED <<database, lock, pending, reply>>

SchemaDone(p) ==
  /\ pc[p] = "schema"
  /\ schema = Parts
  /\ Goto(p, "version")
  /\ UNCHANGED <<database, lock, pending, reply>>

Opened(p) ==
  /\ Goto(p, "ready")
  /\ reply' = [reply EXCEPT ![p] = Idle]

(* Mutant of ReadVersion: the version row is not compared.                 *)
ReadVersion_Trusts(p) ==
  /\ pc[p] = "version"
  /\ IF meta = <<>> THEN Goto(p, "stamp") /\ UNCHANGED reply ELSE Opened(p)
  /\ UNCHANGED <<database, lock, pending>>

(* SELECT version ... LIMIT 1. *)
ReadVersion(p) ==
  /\ pc[p] = "version"
  /\ \/ meta = <<>> /\ Goto(p, "stamp") /\ UNCHANGED reply
     \/ meta # <<>> /\ ~ Newer /\ Opened(p)
     \/ Newer /\ Goto(p, "closed") /\ UNCHANGED reply
  /\ UNCHANGED <<database, lock, pending>>

(* INSERT INTO schema_meta, on what the SELECT saw. *)
StampVersion(p) ==
  /\ pc[p] = "stamp" /\ Unlocked
  /\ meta' = Append(meta, SCHEMA_VERSION)
  /\ Opened(p)
  /\ UNCHANGED <<schema, sessions, caseRows, lock, pending>>

(* A statement of __init__ raises: locked beyond the busy timeout, disk    *)
(* full, not a database.                                                   *)
OpenFails(p) ==
  /\ pc[p] \in Opening
  /\ Goto(p, "closed")
  /\ UNCHANGED <<database, lock, pending, reply>>

-----------------------------------------------------------------------------
(* save_session *)

Artifact(p) == reply[p].of[1]
Stored(id) == \E a \in sessions : a.id = id

SaveSession(p, a) ==
  /\ pc[p] = "ready"
  /\ Goto(p, "lookup")
  /\ reply' = [reply EXCEPT ![p] = Reply("saving", <<a>>)]
  /\ UNCHANGED <<database, lock, pending>>

Answer(p, kind) ==
  /\ Goto(p, "ready")
  /\ reply' = [reply EXCEPT ![p].kind = kind]

LookUp(p) ==
  /\ pc[p] = "lookup"
  /\ IF Stored(Artifact(p).id)
     THEN Answer(p, "duplicate")
     ELSE Goto(p, "insert") /\ UNCHANGED reply
  /\ UNCHANGED <<database, lock, pending>>

(* The SELECT or the serialization, before BEGIN, raises. *)
SerializeFails(p) ==
  /\ pc[p] \in {"lookup", "insert"}
  /\ Answer(p, "failed")
  /\ UNCHANGED <<database, lock, pending>>

(* BEGIN; INSERT INTO sessions: the write lock is taken here. *)
InsertSession(p) ==
  /\ pc[p] = "insert" /\ Unlocked
  /\ ~ Stored(Artifact(p).id)
  /\ lock' = p
  /\ Goto(p, "cases")
  /\ UNCHANGED <<database, pending, reply>>

(* IntegrityError: the id was stored after the SELECT.  ROLLBACK; raise.   *)
PrimaryKeyFails(p) ==
  /\ pc[p] = "insert" /\ Unlocked
  /\ Stored(Artifact(p).id)
  /\ Answer(p, "integrity_error")
  /\ UNCHANGED <<database, lock, pending>>

(* INSERT INTO case_results, a row at a time. *)
InsertCase(p) ==
  /\ pc[p] = "cases"
  /\ \E row \in RowsOf(Artifact(p)) \ pending[p] :
       pending' = [pending EXCEPT ![p] = @ \cup {row}]
  /\ UNCHANGED <<database, lock, pc, reply>>

Release(p) ==
  /\ lock' = IF lock = p THEN NoProc ELSE lock
  /\ pending' = [pending EXCEPT ![p] = {}]

Commit(p) ==
  /\ pc[p] = "cases"
  /\ pending[p] = RowsOf(Artifact(p))
  /\ sessions' = sessions \cup {Artifact(p)}
  /\ caseRows' = caseRows \cup pending[p]
  /\ Release(p)
  /\ Answer(p, "saved")
  /\ UNCHANGED <<schema, meta>>

(* Mutants of RollBack: a transaction that is committed as it stands; one  *)
(* that is left open.                                                      *)
RollBack_Commits(p) ==
  /\ pc[p] \in {"insert", "cases"}
  /\ sessions' = IF lock = p THEN sessions \cup {Artifact(p)} ELSE sessions
  /\ caseRows' = caseRows \cup pending[p]
  /\ Release(p)
  /\ Answer(p, "failed")
  /\ UNCHANGED <<schema, meta>>

RollBack_LeavesOpen(p) ==
  /\ pc[p] \in {"insert", "cases"}
  /\ Answer(p, "failed")
  /\ UNCHANGED <<database, lock, pending>>

(* except Exception: ROLLBACK; raise.  The statement that failed met the   *)
(* busy timeout or a full disk.                                            *)
RollBack(p) ==
  /\ pc[p] \in {"insert", "cases"}
  /\ Release(p)
  /\ Answer(p, "failed")
  /\ UNCHANGED database

-----------------------------------------------------------------------------
(* The rowids of equal created_at_iso decide between them; any order is    *)
(* allowed here.                                                           *)
Length(s) == IF Cardinality(s) < Limit THEN Cardinality(s) ELSE Limit

OrderByCreatedAtDesc(s) ==
  { q \in [1..Length(s) -> s] :
      /\ \A i, j \in 1..Length(s) : i < j => q[i] # q[j] /\ q[i].at >= q[j].at
      /\ \A a \in s : \/ \E i \in 1..Length(s) : q[i] = a
                      \/ \A i \in 1..Length(s) : q[i].at >= a.at }

LoadSession(p, id) ==
  /\ pc[p] = "ready"
  /\ \/ \E a \in sessions : /\ a.id = id
                            /\ reply' = [reply EXCEPT ![p] = Reply("loaded", <<a>>)]
     \/ /\ ~ Stored(id)
        /\ reply' = [reply EXCEPT ![p] = Reply("not_found", <<>>)]
  /\ UNCHANGED <<database, lock, pc, pending>>

(* Mutant of Matching: the subquery is not tied to the session.            *)
Matching_AnySession(asked) ==
  { a \in sessions :
      asked = {} \/ \E c \in asked : \E row \in caseRows : row[2] = c }

(* The case_id clause reads the index table, not the payloads.  The rows   *)
(* of a SELECT are those of one snapshot, however slowly they are fetched. *)
Matching(asked) ==
  { a \in sessions :
      asked = {} \/ \E c \in asked : <<a.id, c>> \in caseRows }

QuerySessions(p, asked) ==
  /\ pc[p] = "ready"
  /\ \E q \in OrderByCreatedAtDesc(Matching(asked)) :
       reply' = [reply EXCEPT ![p] = Reply("listed", q)]
  /\ UNCHANGED <<database, lock, pc, pending>>

(* What falsifyai history makes of the sessions listed for a case.  There  *)
(* is nothing to show, or a session that has not exactly one such case (a  *)
(* spec's case ids are distinct, so that is none), or a table.             *)
cmd_history(q, c) ==
  IF q = <<>> THEN "no sessions found"
  ELSE IF \E i \in DOMAIN q : c \notin q[i].cases THEN "malformed"
  ELSE "rendered"

(* close(), a kill, or an exception no except clause catches: the          *)
(* connection goes away, and with it the open transaction.                 *)
Close(p) ==
  /\ pc[p] # "closed"
  /\ Goto(p, "closed")
  /\ Release(p)
  /\ reply' = [reply EXCEPT ![p] = Down]
  /\ UNCHANGED database

-----------------------------------------------------------------------------
Opens(p) == CreateMissing(p) \/ SchemaDone(p) \/ ReadVersion(p) \/ StampVersion(p)
              \/ OpenFails(p)

Saves(p) == LookUp(p) \/ SerializeFails(p) \/ InsertSession(p)
              \/ PrimaryKeyFails(p) \/ InsertCase(p) \/ Commit(p) \/ RollBack(p)

Next ==
  \E p \in Procs :
    \/ Connect(p) \/ Opens(p) \/ Saves(p) \/ Close(p)
    \/ \E a \in Artifacts : SaveSession(p, a)
    \/ \E id \in SessionIds : LoadSession(p, id)
    \/ \E asked \in { {c} : c \in CaseIds } \cup { {} } : QuerySessions(p, asked)

(* A statement succeeds, raises, or waits no longer than the busy timeout. *)
Fairness == \A p \in Procs : WF_vars(Opens(p)) /\ WF_vars(Saves(p))

Spec == Init /\ [][Next]_vars /\ Fairness

-----------------------------------------------------------------------------
(* Properties *)

(* The protocol's promises, kept by the database up to the exception that  *)
(* rejects a second save: save_session's own, or the primary key's if the  *)
(* id was stored by another process in between.  sessions and reply are    *)
(* the state of the contract.                                              *)
Contract == INSTANCE ReplayStore
  WITH Clients <- Procs, stored <- sessions,
       Rejections <- {"duplicate", "integrity_error"}
ImplementsContract == Contract!Spec

(* The protocol to the letter: every second save raises ReplayStoreError.  *)
Protocol == INSTANCE ReplayStore
  WITH Clients <- Procs, stored <- sessions, Rejections <- {"duplicate"}
ImplementsProtocol == Protocol!Spec

(* A process that holds the store open found the whole schema and a        *)
(* version row this build understands, although the process that was       *)
(* creating it may have died half-way, and whatever a later build left.    *)
OpenIsSound ==
  \A p \in Procs : pc[p] \in {"ready"} \cup InCall =>
    /\ schema = Parts
    /\ meta # <<>> /\ ~ Newer

(* The denormalized case index says what the payloads say: a case_id query *)
(* neither misses a session nor finds one that was never committed.        *)
IndexMatchesPayload == caseRows = UNION { RowsOf(a) : a \in sessions }

(* So history, which is handed sessions by the index and looks for the case *)
(* in their payloads, never meets malformed evidence, and says that there  *)
(* are no sessions only if none that was committed has the case.  (Its     *)
(* --limit 0 is no limit.)                                                 *)
HistoryFindsTheCase ==
  Limit > 0 =>
    \A c \in CaseIds : \A q \in OrderByCreatedAtDesc(Matching({c})) :
      cmd_history(q, c) = IF \E a \in sessions : c \in a.cases
                          THEN "rendered" ELSE "no sessions found"

(* Only a process inside a save holds the write lock, and a process        *)
(* outside one has no rows pending: the next save of a store whose last    *)
(* save failed starts clean.                                               *)
NoDanglingTransaction ==
  /\ \A p \in Procs : lock = p <=> pc[p] = "cases"
  /\ \A p \in Procs : pending[p] # {} => lock = p

(* Nobody adds to, takes from or restamps the rows of a later build, by    *)
(* whatever interleaving of openers, and it loses no table.  (It may gain  *)
(* what it had dropped, empty: Setup runs before the version is read.)     *)
NewerKeepsItsRows ==
  [][Newer => /\ UNCHANGED <<meta, sessions, caseRows>>
              /\ schema \subseteq schema']_vars
=============================================================================
