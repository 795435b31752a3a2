------------------------- MODULE SQLiteStore_proofs -------------------------
(***************************************************************************)
(* Safety of the SQLite store for any number of processes and any set of   *)
(* artifacts, and its step simulation of the store contract.               *)
(***************************************************************************)
EXTENDS SQLiteStore, FiniteSetTheorems, SequenceTheorems, TLAPS

-----------------------------------------------------------------------------
(* The inductive invariant *)

(* What a process last heard goes with where it is. *)
Phase(p) ==
  /\ pc[p] \in Opening \cup {"closed"} => reply[p] = Down
  /\ pc[p] = "ready" => reply[p].kind \notin {"down", "saving"}
  /\ pc[p] \in InCall => \E a \in Artifacts : reply[p] = Reply("saving", <<a>>)

(* This build stamps its version after the whole schema is there, and only *)
(* where no later build was before.                                        *)
SchemaFirst ==
  /\ meta # <<>> /\ ~ Newer => schema = Parts
  /\ \A p \in Procs :
       /\ pc[p] \notin {"closed", "schema"} => schema = Parts
       /\ pc[p] \in {"stamp", "ready"} \cup InCall => ~ Newer
       /\ pc[p] \in {"ready"} \cup InCall => meta # <<>>

UniqueIds == \A a, b \in sessions : a.id = b.id => a = b

(* The writer found its id free, and nobody has written since. *)
WriterIsFirst ==
  \A p \in Procs : pc[p] = "cases" => ~ Stored(Artifact(p).id)

StoreInv ==
  /\ TypeOK
  /\ \A p \in Procs : Phase(p)
  /\ SchemaFirst
  /\ UniqueIds
  /\ IndexMatchesPayload
  /\ NoDanglingTransaction
  /\ WriterIsFirst

-----------------------------------------------------------------------------
(* Initially: nothing is stored and nobody is connected.                   *)
LEMMA StoreInvInit == Init => StoreInv
<1> SUFFICES ASSUME Init PROVE StoreInv
  OBVIOUS
<1>1. TypeOK
  <2>1. Down = [kind |-> "down", of |-> <<>>] /\ <<>> \in Seq(Artifacts)
    BY DEF Down, Reply
  <2>2. schema \subseteq Parts
    BY DEF Init
  <2>3. meta \in Seq({SCHEMA_VERSION, NewerVersion})
    <3>1. /\ <<>> \in Seq({SCHEMA_VERSION, NewerVersion})
          /\ <<SCHEMA_VERSION>> \in Seq({SCHEMA_VERSION, NewerVersion})
          /\ <<NewerVersion>> \in Seq({SCHEMA_VERSION, NewerVersion})
      OBVIOUS
    <3> QED
      BY <3>1 DEF Init
  <2>4. \A p \in Procs : pc[p] = "closed" /\ reply[p].kind = "down"
    BY <2>1 DEF Init
  <2> QED
    BY <2>1, <2>2, <2>3, <2>4 DEF Init, TypeOK, InCall
<1>2. \A p \in Procs : Phase(p)
  BY DEF Init, Phase, Opening, InCall
<1>3. SchemaFirst
  <2>1. meta # <<>> /\ ~ Newer => schema = Parts
    BY SQLiteStoreAssumption DEF Init, Newer, SCHEMA_VERSION
  <2> QED
    BY <2>1 DEF Init, SchemaFirst, InCall
<1>4. UniqueIds /\ IndexMatchesPayload
  BY DEF Init, UniqueIds, IndexMatchesPayload
<1>5. NoDanglingTransaction /\ WriterIsFirst
  BY SQLiteStoreAssumption DEF Init, NoDanglingTransaction, WriterIsFirst
<1> QED
  BY <1>1, <1>2, <1>3, <1>4, <1>5 DEF StoreInv

(* A row of an artifact is a row the index may hold.                       *)
LEMMA RowsType ==
  ASSUME NEW a \in Artifacts PROVE RowsOf(a) \subseteq SessionIds \X CaseIds
BY DEF RowsOf, SessionIds, CaseIds

(* The artifact of a process in a call is one of the artifacts.            *)
LEMMA ArtifactType ==
  ASSUME NEW p \in Procs, Phase(p), pc[p] \in InCall
  PROVE  Artifact(p) \in Artifacts
<1>1. PICK a \in Artifacts : reply[p] = Reply("saving", <<a>>)
  BY DEF Phase
<1>2. reply[p].of = <<a>>
  BY <1>1 DEF Reply
<1> QED
  BY <1>2 DEF Artifact

(* Every listing is a sequence of stored artifacts.                        *)
LEMMA ListingType ==
  ASSUME NEW s \in SUBSET Artifacts, NEW q \in OrderByCreatedAtDesc(s)
  PROVE  q \in Seq(Artifacts) /\ DOMAIN q = 1..Length(s)
<1>1. Length(s) \in Nat
  <2>1. IsFiniteSet(s)
    BY SQLiteStoreAssumption, FS_Subset
  <2> QED
    BY <2>1, FS_CardinalityType, SQLiteStoreAssumption DEF Length
<1>2. q \in [1..Length(s) -> Artifacts]
  BY DEF OrderByCreatedAtDesc
<1> QED
  BY <1>1, <1>2

-----------------------------------------------------------------------------
(* Types and phases are kept by every step.  A process moves within an     *)
(* open or a call and hears nothing, or it ends up ready with an answer.   *)

Replies == [ kind : { "down", "idle", "saving", "saved", "duplicate",
                      "integrity_error", "failed", "loaded", "not_found",
                      "listed" },
             of : Seq(Artifacts) ]

Control ==
  /\ pc \in [Procs -> Opening \cup InCall \cup {"closed", "ready"}]
  /\ reply \in [Procs -> Replies]
  /\ \A p \in Procs : pc[p] \in InCall <=> reply[p].kind = "saving"
  /\ \A p \in Procs : Phase(p)

(* A process that goes on with an open or a call hears nothing yet.        *)
LEMMA MoveKeeps ==
  ASSUME Control, NEW p \in Procs, NEW step, Goto(p, step), UNCHANGED reply,
         \/ pc[p] \in Opening \cup {"closed"} /\ step \in Opening \cup {"closed"}
         \/ pc[p] \in InCall /\ step \in InCall
  PROVE  Control'
BY DEF Control, Phase, Opening, InCall, Goto, Down, Reply

(* A process that becomes ready has heard an answer.                       *)
LEMMA ReadyKeeps ==
  ASSUME Control, NEW p \in Procs, Goto(p, "ready"),
         NEW r \in Replies, r.kind \notin {"down", "saving"},
         reply' = [reply EXCEPT ![p] = r]
  PROVE  Control'
BY DEF Control, Phase, Opening, InCall, Goto

(* Answer ends a call of save_session, with any of its outcomes.           *)
LEMMA AnswerKeeps ==
  ASSUME Control, NEW p \in Procs, pc[p] \in InCall,
         NEW kind \in {"saved", "duplicate", "integrity_error", "failed"},
         Answer(p, kind)
  PROVE  Control'
<1> DEFINE r == [reply[p] EXCEPT !.kind = kind]
<1>1. reply[p] \in Replies
  BY DEF Control
<1>2. r \in Replies /\ r.kind = kind
  BY <1>1 DEF Replies
<1>3. reply' = [reply EXCEPT ![p] = r]
  BY DEF Answer
<1> HIDE DEF r
<1> QED
  BY <1>2, <1>3, ReadyKeeps DEF Answer

(* Control is kept by every statement of every process.                    *)
LEMMA ControlStep ==
  ASSUME TypeOK, Control, Next
  PROVE  Control'
<1>1. ASSUME NEW p \in Procs, Connect(p) PROVE Control'
  <2>1. Goto(p, "schema") /\ UNCHANGED reply /\ pc[p] = "closed"
    BY <1>1 DEF Connect
  <2> QED
    BY <2>1, MoveKeeps DEF Opening
<1>2. ASSUME NEW p \in Procs, CreateMissing(p) \/ InsertCase(p) PROVE Control'
  BY <1>2 DEF CreateMissing, InsertCase, Control, Phase
<1>3. ASSUME NEW p \in Procs, SchemaDone(p) PROVE Control'
  <2>1. Goto(p, "version") /\ UNCHANGED reply /\ pc[p] = "schema"
    BY <1>3 DEF SchemaDone
  <2> QED
    BY <2>1, MoveKeeps DEF Opening
<1>4. ASSUME NEW p \in Procs, OpenFails(p) PROVE Control'
  <2>1. Goto(p, "closed") /\ UNCHANGED reply /\ pc[p] \in Opening
    BY <1>4 DEF OpenFails
  <2> QED
    BY <2>1, MoveKeeps DEF Opening
<1>5. ASSUME NEW p \in Procs, Opened(p) PROVE Control'
  <2>1. Idle \in Replies /\ Idle.kind = "idle"
    BY DEF Idle, Reply, Replies
  <2> QED
    BY <1>5, <2>1, ReadyKeeps DEF Opened
<1>6. ASSUME NEW p \in Procs, ReadVersion(p) PROVE Control'
  <2>1. CASE Opened(p)
    BY <1>5, <2>1
  <2>2. CASE ~ Opened(p)
    <3>1. /\ Goto(p, "stamp") \/ Goto(p, "closed")
          /\ UNCHANGED reply /\ pc[p] = "version"
      BY <1>6, <2>2 DEF ReadVersion
    <3> QED
      BY <3>1, MoveKeeps DEF Opening
  <2> QED
    BY <2>1, <2>2
<1>7. ASSUME NEW p \in Procs, StampVersion(p) PROVE Control'
  BY <1>5, <1>7 DEF StampVersion
<1>8. ASSUME NEW p \in Procs, NEW a \in Artifacts, SaveSession(p, a)
      PROVE  Control'
  BY <1>8 DEF SaveSession, Control, Phase, Opening, InCall, Goto, Reply, Replies
<1>9. ASSUME NEW p \in Procs, LookUp(p) PROVE Control'
  <2>1. pc[p] = "lookup"
    BY <1>9 DEF LookUp
  <2>2. CASE Answer(p, "duplicate")
    BY <2>1, <2>2, AnswerKeeps DEF InCall
  <2>3. CASE Goto(p, "insert") /\ UNCHANGED reply
    BY <2>1, <2>3, MoveKeeps DEF InCall
  <2> QED
    BY <1>9, <2>2, <2>3 DEF LookUp
<1>10. ASSUME NEW p \in Procs, InsertSession(p) PROVE Control'
  <2>1. Goto(p, "cases") /\ UNCHANGED reply /\ pc[p] = "insert"
    BY <1>10 DEF InsertSession
  <2> QED
    BY <2>1, MoveKeeps DEF InCall
<1>11. ASSUME NEW p \in Procs, SerializeFails(p) \/ PrimaryKeyFails(p) \/ RollBack(p)
                                  \/ Commit(p)
       PROVE  Control'
  <2>1. /\ pc[p] \in InCall
        /\ \/ Answer(p, "failed") \/ Answer(p, "integrity_error")
           \/ Answer(p, "saved")
    BY <1>11 DEF SerializeFails, PrimaryKeyFails, RollBack, Commit, InCall
  <2> QED
    BY <2>1, AnswerKeeps
<1>12. ASSUME NEW p \in Procs, pc[p] = "ready", UNCHANGED pc,
              NEW kind \in {"loaded", "not_found", "listed"},
              NEW q \in Seq(Artifacts),
              reply' = [reply EXCEPT ![p] = Reply(kind, q)]
       PROVE  Control'
  <2>1. Reply(kind, q) \in Replies /\ Reply(kind, q).kind = kind
    BY <1>12 DEF Reply, Replies
  <2>2. Goto(p, "ready")
    BY <1>12 DEF Goto, Control
  <2> QED
    BY <1>12, <2>1, <2>2, ReadyKeeps
<1>13. ASSUME NEW p \in Procs, NEW id \in SessionIds, LoadSession(p, id)
       PROVE  Control'
  <2>1. <<>> \in Seq(Artifacts) /\ \A a \in sessions : <<a>> \in Seq(Artifacts)
    BY DEF TypeOK
  <2> QED
    BY <1>12, <1>13, <2>1 DEF LoadSession
<1>14. ASSUME NEW p \in Procs, NEW asked, QuerySessions(p, asked)
       PROVE  Control'
  <2>1. PICK listed \in OrderByCreatedAtDesc(Matching(asked)) :
          reply' = [reply EXCEPT ![p] = Reply("listed", listed)]
    BY <1>14 DEF QuerySessions
  <2>2. Matching(asked) \in SUBSET Artifacts
    BY DEF Matching, TypeOK
  <2> QED
    BY <1>12, <1>14, <2>1, <2>2, ListingType DEF QuerySessions
<1>15. ASSUME NEW p \in Procs, Close(p) PROVE Control'
  BY <1>15 DEF Close, Control, Phase, Opening, InCall, Goto, Down, Reply, Replies
<1> QED
  BY <1>1, <1>2, <1>3, <1>4, <1>6, <1>7, <1>8, <1>9, <1>10, <1>11, <1>13,
     <1>14, <1>15
  DEF Next, Opens, Saves

(* So are those of the database, the lock and the open transactions.         *)
LEMMA TypeStep ==
  ASSUME TypeOK, \A p \in Procs : Phase(p), Next
  PROVE  TypeOK' /\ \A q \in Procs : Phase(q)'
<1> DEFINE Data == /\ schema \subseteq Parts
                   /\ meta \in Seq({SCHEMA_VERSION, NewerVersion})
                   /\ sessions \subseteq Artifacts
                   /\ caseRows \subseteq SessionIds \X CaseIds
                   /\ lock \in Procs \cup {NoProc}
                   /\ pending \in [Procs -> SUBSET (SessionIds \X CaseIds)]
<1>1. Control
  BY DEF TypeOK, Control, Replies
<1>2. Control'
  BY <1>1, ControlStep
<1>3. Data
  BY DEF TypeOK
<1>4. ASSUME NEW p \in Procs,
             UNCHANGED <<database, lock, pending>> PROVE Data'
  BY <1>3, <1>4 DEF database
<1>5. ASSUME NEW p \in Procs, Connect(p) \/ SchemaDone(p) \/ ReadVersion(p)
                                \/ OpenFails(p) \/ LookUp(p) \/ SerializeFails(p)
                                \/ PrimaryKeyFails(p)
      PROVE Data'
  BY <1>4, <1>5
  DEF Connect, SchemaDone, ReadVersion, OpenFails, LookUp, SerializeFails,
      PrimaryKeyFails
<1>6. ASSUME NEW p \in Procs, CreateMissing(p) PROVE Data'
  BY <1>3, <1>6 DEF CreateMissing, Parts
<1>7. ASSUME NEW p \in Procs, StampVersion(p) PROVE Data'
  BY <1>3, <1>7 DEF StampVersion
<1>8. ASSUME NEW p \in Procs, InsertSession(p) PROVE Data'
  BY <1>3, <1>8 DEF InsertSession, database
<1>9. ASSUME NEW p \in Procs, pc[p] \in InCall
      PROVE  Artifact(p) \in Artifacts /\ RowsOf(Artifact(p)) \subseteq SessionIds \X CaseIds
  BY <1>9, ArtifactType, RowsType
<1>10. ASSUME NEW p \in Procs, InsertCase(p) PROVE Data'
  BY <1>3, <1>9, <1>10 DEF InsertCase, database, InCall
<1>11. ASSUME NEW p \in Procs, Release(p)
       PROVE  /\ lock' \in Procs \cup {NoProc}
              /\ pending' \in [Procs -> SUBSET (SessionIds \X CaseIds)]
  BY <1>3, <1>11 DEF Release
<1>12. ASSUME NEW p \in Procs, Commit(p) PROVE Data'
  BY <1>3, <1>9, <1>11, <1>12 DEF Commit, InCall
<1>13. ASSUME NEW p \in Procs, RollBack(p) \/ Close(p) PROVE Data'
  BY <1>3, <1>11, <1>13 DEF RollBack, Close, database
<1>14. ASSUME NEW p \in Procs, NEW x,
              SaveSession(p, x) \/ LoadSession(p, x) \/ QuerySessions(p, x)
       PROVE  Data'
  BY <1>4, <1>14 DEF SaveSession, LoadSession, QuerySessions
<1>15. Data'
  <2> HIDE DEF Data
  <2> QED
    BY <1>5, <1>6, <1>7, <1>8, <1>10, <1>12, <1>13, <1>14
    DEF Next, Opens, Saves
<1> QED
  BY <1>2, <1>15 DEF TypeOK, Control, Replies

-----------------------------------------------------------------------------
(* The order of the schema is kept by every step: Setup is complete before *)
(* the version, and a version that another process stamped is this build's. *)
LEMMA SchemaStep ==
  ASSUME TypeOK, SchemaFirst, Next
  PROVE  SchemaFirst'
<1> USE DEF SchemaFirst, InCall, Goto, Newer
<1>1. pc \in [Procs -> Opening \cup InCall \cup {"closed", "ready"}]
  BY DEF TypeOK
<1>2. ASSUME NEW p \in Procs, Connect(p) \/ OpenFails(p) \/ Close(p)
      PROVE  SchemaFirst'
  BY <1>1, <1>2 DEF Connect, OpenFails, Close, database
<1>3. ASSUME NEW p \in Procs, CreateMissing(p) PROVE SchemaFirst'
  <2>1. schema # Parts
    BY <1>3 DEF CreateMissing, Parts
  <2> QED
    BY <1>1, <1>3, <2>1 DEF CreateMissing
<1>4. ASSUME NEW p \in Procs, SchemaDone(p) PROVE SchemaFirst'
  BY <1>1, <1>4 DEF SchemaDone, database
<1>5. ASSUME NEW p \in Procs, ReadVersion(p) PROVE SchemaFirst'
  BY <1>1, <1>5 DEF ReadVersion, Opened, database
<1>6. ASSUME NEW p \in Procs, StampVersion(p) PROVE SchemaFirst'
  <2>1. meta' # <<>> /\ ~ Newer'
    <3>1. CASE meta = <<>>
      BY <1>6, <3>1 DEF StampVersion, SCHEMA_VERSION
    <3>2. CASE meta # <<>>
      <4>1. Head(meta') = Head(meta) /\ meta' # <<>>
        BY <1>6, <3>2 DEF StampVersion, TypeOK
      <4> QED
        BY <1>6, <3>2, <4>1 DEF StampVersion
    <3> QED
      BY <3>1, <3>2
  <2>2. schema = Parts /\ schema' = Parts
    BY <1>6 DEF StampVersion
  <2> QED
    BY <1>1, <1>6, <2>1, <2>2 DEF StampVersion, Opened
<1>7. ASSUME NEW p \in Procs, LookUp(p) \/ SerializeFails(p) \/ PrimaryKeyFails(p)
      PROVE  SchemaFirst'
  BY <1>1, <1>7 DEF LookUp, SerializeFails, PrimaryKeyFails, Answer, database
<1>8. ASSUME NEW p \in Procs, InsertSession(p) \/ InsertCase(p)
      PROVE  SchemaFirst'
  BY <1>1, <1>8 DEF InsertSession, InsertCase, database
<1>9. ASSUME NEW p \in Procs, Commit(p) \/ RollBack(p) PROVE SchemaFirst'
  BY <1>1, <1>9 DEF Commit, RollBack, Answer, database
<1>10. ASSUME NEW p \in Procs, NEW x, SaveSession(p, x) PROVE SchemaFirst'
  BY <1>1, <1>10 DEF SaveSession, database
<1>11. ASSUME NEW p \in Procs, NEW x, LoadSession(p, x) \/ QuerySessions(p, x)
       PROVE  SchemaFirst'
  BY <1>11 DEF LoadSession, QuerySessions, database
<1> QED
  BY <1>2, <1>3, <1>4, <1>5, <1>6, <1>7, <1>8, <1>9, <1>10, <1>11
  DEF Next, Opens, Saves

-----------------------------------------------------------------------------
(* The lock is held exactly in a write transaction, at every step.         *)
LEMMA LockStep ==
  ASSUME TypeOK, NoDanglingTransaction, Next
  PROVE  NoDanglingTransaction'
<1> USE SQLiteStoreAssumption DEF NoDanglingTransaction, Goto
<1>1. /\ pc \in [Procs -> Opening \cup InCall \cup {"closed", "ready"}]
      /\ pending \in [Procs -> SUBSET (SessionIds \X CaseIds)]
  BY DEF TypeOK
<1>2. ASSUME NEW p \in Procs, NEW step, step # "cases", pc[p] # "cases",
             Goto(p, step) \/ UNCHANGED pc, UNCHANGED <<lock, pending>>
      PROVE  NoDanglingTransaction'
  BY <1>1, <1>2
<1>3. ASSUME NEW p \in Procs, Opens(p) \/ Connect(p)
      PROVE  NoDanglingTransaction'
  <2>1. /\ pc[p] # "cases" /\ UNCHANGED <<lock, pending>>
        /\ \/ Goto(p, "schema") \/ Goto(p, "version") \/ Goto(p, "stamp")
           \/ Goto(p, "ready") \/ Goto(p, "closed") \/ UNCHANGED pc
    BY <1>3
    DEF Opens, Connect, CreateMissing, SchemaDone, ReadVersion, StampVersion,
        OpenFails, Opened, Opening
  <2> HIDE DEF Goto
  <2> QED
    BY <1>2, <2>1
<1>4. ASSUME NEW p \in Procs, LookUp(p) PROVE NoDanglingTransaction'
  BY <1>1, <1>4 DEF LookUp, Answer
<1>5. ASSUME NEW p \in Procs, SerializeFails(p) \/ PrimaryKeyFails(p)
      PROVE  NoDanglingTransaction'
  BY <1>1, <1>5 DEF SerializeFails, PrimaryKeyFails, Answer
<1>6. ASSUME NEW p \in Procs, InsertSession(p) PROVE NoDanglingTransaction'
  BY <1>1, <1>6 DEF InsertSession, Unlocked
<1>7. ASSUME NEW p \in Procs, InsertCase(p) PROVE NoDanglingTransaction'
  BY <1>1, <1>7 DEF InsertCase
<1>8. ASSUME NEW p \in Procs, Commit(p) \/ RollBack(p)
      PROVE  NoDanglingTransaction'
  BY <1>1, <1>8 DEF Commit, RollBack, Answer, Release
<1>9. ASSUME NEW p \in Procs, Close(p) PROVE NoDanglingTransaction'
  BY <1>1, <1>9 DEF Close, Release
<1>10. ASSUME NEW p \in Procs, NEW x,
              SaveSession(p, x) \/ LoadSession(p, x) \/ QuerySessions(p, x)
       PROVE  NoDanglingTransaction'
  BY <1>1, <1>10 DEF SaveSession, LoadSession, QuerySessions
<1> QED
  BY <1>3, <1>4, <1>5, <1>6, <1>7, <1>8, <1>9, <1>10 DEF Next, Saves

-----------------------------------------------------------------------------
(* What is stored is kept by every step but a commit.                      *)
LEMMA OnlyCommitStores ==
  ASSUME Next, \A p \in Procs : ~ Commit(p)
  PROVE  UNCHANGED <<sessions, caseRows>>
<1> USE DEF database
<1>1. ASSUME NEW p \in Procs, Opens(p) \/ Connect(p) \/ Close(p)
      PROVE  UNCHANGED <<sessions, caseRows>>
  BY <1>1
  DEF Opens, Connect, Close, CreateMissing, SchemaDone, ReadVersion, StampVersion,
      OpenFails
<1>2. ASSUME NEW p \in Procs, Saves(p)
      PROVE  UNCHANGED <<sessions, caseRows>>
  BY <1>2
  DEF Saves, LookUp, SerializeFails, InsertSession, PrimaryKeyFails, InsertCase,
      RollBack
<1>3. ASSUME NEW p \in Procs, NEW x,
             SaveSession(p, x) \/ LoadSession(p, x) \/ QuerySessions(p, x)
      PROVE  UNCHANGED <<sessions, caseRows>>
  BY <1>3 DEF SaveSession, LoadSession, QuerySessions
<1> QED
  BY <1>1, <1>2, <1>3 DEF Next

OthersStay(p) ==
  \A q \in Procs \ {p} : pc'[q] = pc[q] /\ reply'[q] = reply[q]

WritesOnInsert(p) == pc'[p] = "cases" => InsertSession(p) \/ InsertCase(p)

(* A step is one process's: the others stay where they are, and it is in a *)
(* write transaction only from the first INSERT on.                        *)
LEMMA StepOfOne ==
  ASSUME TypeOK, Next
  PROVE  \E p \in Procs : OthersStay(p) /\ WritesOnInsert(p)
<1> USE DEF OthersStay, WritesOnInsert, Goto
<1>1. /\ pc \in [Procs -> Opening \cup InCall \cup {"closed", "ready"}]
      /\ DOMAIN reply = Procs
  BY DEF TypeOK
<1>2. ASSUME NEW p \in Procs, Opens(p) \/ Connect(p) \/ Close(p)
      PROVE  OthersStay(p) /\ WritesOnInsert(p)
  BY <1>1, <1>2
  DEF Opens, Connect, Close, CreateMissing, SchemaDone, ReadVersion, StampVersion,
      OpenFails, Opened, Opening
<1>3. ASSUME NEW p \in Procs, Saves(p)
      PROVE  OthersStay(p) /\ WritesOnInsert(p)
  BY <1>1, <1>3
  DEF Saves, LookUp, SerializeFails, InsertSession, PrimaryKeyFails, InsertCase, Commit,
      RollBack, Answer
<1>4. ASSUME NEW p \in Procs, NEW x,
             SaveSession(p, x) \/ LoadSession(p, x) \/ QuerySessions(p, x)
      PROVE  OthersStay(p) /\ WritesOnInsert(p)
  BY <1>1, <1>4 DEF SaveSession, LoadSession, QuerySessions
<1> QED
  BY <1>2, <1>3, <1>4 DEF Next

(* Ids stay unique, the index stays true to the payloads, and the writer   *)
(* stays the first to use its id.                                          *)
LEMMA StoredStep ==
  ASSUME StoreInv, Next
  PROVE  UniqueIds' /\ IndexMatchesPayload' /\ WriterIsFirst'
<1> USE DEF StoreInv
<1>1. ASSUME NEW p \in Procs, Commit(p)
      PROVE  /\ sessions' = sessions \cup {Artifact(p)}
             /\ ~ Stored(Artifact(p).id)
             /\ caseRows' = caseRows \cup RowsOf(Artifact(p))
             /\ \A q \in Procs : pc'[q] # "cases"
  <2>1. \A q \in Procs : pc[q] = "cases" => q = p
    BY <1>1 DEF Commit, NoDanglingTransaction
  <2>2. /\ pc' = [pc EXCEPT ![p] = "ready"]
        /\ pc \in [Procs -> Opening \cup InCall \cup {"closed", "ready"}]
    BY <1>1 DEF Commit, Answer, Goto, TypeOK
  <2> QED
    BY <1>1, <2>1, <2>2 DEF Commit, WriterIsFirst
<1>2. UniqueIds'
  <2>1. CASE \E p \in Procs : Commit(p)
    BY <1>1, <2>1 DEF UniqueIds, Stored
  <2>2. CASE \A p \in Procs : ~ Commit(p)
    BY <2>2, OnlyCommitStores DEF UniqueIds
  <2> QED
    BY <2>1, <2>2
<1>3. IndexMatchesPayload'
  <2>1. CASE \E p \in Procs : Commit(p)
    BY <1>1, <2>1 DEF IndexMatchesPayload
  <2>2. CASE \A p \in Procs : ~ Commit(p)
    BY <2>2, OnlyCommitStores DEF IndexMatchesPayload
  <2> QED
    BY <2>1, <2>2
<1>4. WriterIsFirst'
  <2>1. CASE \E p \in Procs : Commit(p)
    BY <1>1, <2>1 DEF WriterIsFirst
  <2>2. CASE \A p \in Procs : ~ Commit(p)
    <3>1. sessions' = sessions
      BY <2>2, OnlyCommitStores
    <3>2. ASSUME NEW q \in Procs, pc'[q] = "cases"
          PROVE  Artifact(q)' = Artifact(q) /\ ~ Stored(Artifact(q).id)
      <4>1. PICK p \in Procs : OthersStay(p) /\ WritesOnInsert(p)
        BY StepOfOne
      <4>2. CASE q # p
        BY <3>2, <4>1, <4>2 DEF OthersStay, WriterIsFirst, Artifact
      <4>3. CASE q = p /\ InsertSession(p)
        BY <4>3 DEF InsertSession, Artifact
      <4>4. CASE q = p /\ InsertCase(p)
        BY <4>4 DEF InsertCase, Artifact, WriterIsFirst
      <4> QED
        BY <3>2, <4>1, <4>2, <4>3, <4>4 DEF WritesOnInsert
    <3> QED
      BY <3>1, <3>2 DEF WriterIsFirst, Stored
  <2> QED
    BY <2>1, <2>2
<1> QED
  BY <1>2, <1>3, <1>4

-----------------------------------------------------------------------------
(* The invariant is inductive.                                             *)
LEMMA StoreInvStep == StoreInv /\ [Next]_vars => StoreInv'
<1> SUFFICES ASSUME StoreInv, [Next]_vars PROVE StoreInv'
  OBVIOUS
<1>1. CASE Next
  <2>1. TypeOK /\ SchemaFirst /\ NoDanglingTransaction /\ \A p \in Procs : Phase(p)
    BY DEF StoreInv
  <2>2. TypeOK' /\ \A p \in Procs : Phase(p)'
    BY <1>1, <2>1, TypeStep
  <2>3. SchemaFirst' /\ NoDanglingTransaction'
    BY <1>1, <2>1, SchemaStep, LockStep
  <2>4. UniqueIds' /\ IndexMatchesPayload' /\ WriterIsFirst'
    BY <1>1, StoredStep
  <2> QED
    BY <2>2, <2>3, <2>4 DEF StoreInv
<1>2. CASE UNCHANGED vars
  BY <1>2
  DEF vars, database, StoreInv, TypeOK, Phase, SchemaFirst, Newer, UniqueIds,
      IndexMatchesPayload, NoDanglingTransaction, WriterIsFirst, Stored, Artifact
<1> QED
  BY <1>1, <1>2

(* The inductive invariant holds of every behaviour: processes may open,   *)
(* save, fail and die in any order.                                        *)
THEOREM StoreIsSafe == Spec => []StoreInv
BY StoreInvInit, StoreInvStep, PTL DEF Spec

(* Every reachable state of the store is well typed, and a process is in a *)
(* save exactly while its call has not answered.                           *)
THEOREM StoreTypeCorrect == Spec => []TypeOK
<1>1. StoreInv => TypeOK
  BY DEF StoreInv
<1> QED
  BY <1>1, StoreIsSafe, PTL

(* _initialize_schema: whoever holds the store open found the whole schema *)
(* and a version row it understands, however often the creation was cut    *)
(* short.                                                                  *)
THEOREM OpeningIsSound == Spec => []OpenIsSound
<1>1. StoreInv => OpenIsSound
  BY DEF StoreInv, SchemaFirst, OpenIsSound, InCall
<1> QED
  BY <1>1, StoreIsSafe, PTL

(* save_session's transaction: the case index and the payloads never       *)
(* disagree, in whatever statement a save fails or its process dies.       *)
THEOREM IndexIsTrue == Spec => []IndexMatchesPayload
<1>1. StoreInv => IndexMatchesPayload
  BY DEF StoreInv
<1> QED
  BY <1>1, StoreIsSafe, PTL

(* A save that failed has left no lock and no pending rows behind.         *)
THEOREM TransactionsEnd == Spec => []NoDanglingTransaction
<1>1. StoreInv => NoDanglingTransaction
  BY DEF StoreInv
<1> QED
  BY <1>1, StoreIsSafe, PTL

(* Whoever opens a database of a later build, and whatever that build had  *)
(* dropped from it, no row of it is added, removed or restamped: what runs *)
(* before the version check can only create what is missing.               *)
THEOREM NewerIsKept == Spec => NewerKeepsItsRows
<1> DEFINE Kept == UNCHANGED <<meta, sessions, caseRows>> /\ schema \subseteq schema'
<1>1. ASSUME StoreInv, Next, Newer PROVE Kept
  <2> USE DEF database
  <2>1. \A p \in Procs : pc[p] \notin {"stamp", "ready"} \cup InCall
    BY <1>1 DEF StoreInv, SchemaFirst
  <2>2. ASSUME NEW p \in Procs, Opens(p) \/ Connect(p) \/ Close(p)
        PROVE  Kept
    BY <2>1, <2>2
    DEF Opens, Connect, Close, CreateMissing, SchemaDone, ReadVersion,
        StampVersion, OpenFails
  <2>3. ASSUME NEW p \in Procs, Saves(p) PROVE Kept
    BY <2>1, <2>3
    DEF Saves, LookUp, SerializeFails, InsertSession, PrimaryKeyFails,
        InsertCase, Commit, RollBack, InCall
  <2>4. ASSUME NEW p \in Procs, NEW x,
               SaveSession(p, x) \/ LoadSession(p, x) \/ QuerySessions(p, x)
        PROVE  Kept
    BY <2>4 DEF SaveSession, LoadSession, QuerySessions
  <2> HIDE DEF Kept
  <2> QED
    BY <1>1, <2>2, <2>3, <2>4 DEF Next
<1>2. StoreInv /\ [Next]_vars => [Newer => Kept]_vars
  BY <1>1
<1> QED
  BY <1>2, StoreIsSafe, PTL DEF Spec, NewerKeepsItsRows

-----------------------------------------------------------------------------
(* The step simulation of the contract *)

(* The listings the ORDER BY may give are those the contract allows.       *)
LEMMA ListingsAgree ==
  ASSUME NEW s \in SUBSET Artifacts
  PROVE  OrderByCreatedAtDesc(s) = Contract!Listings(s)
<1>1. Length(s) = Contract!Length(s)
  BY Zenon DEF Length, Contract!Length, Cardinality, Contract!Cardinality
<1>2. ASSUME NEW q \in [1..Length(s) -> s]
      PROVE  q \in OrderByCreatedAtDesc(s) <=> q \in Contract!Listings(s)
  <2>1. DOMAIN q = 1..Length(s)
    OBVIOUS
  <2>2. (\A i, j \in 1..Length(s) : i < j => q[i] # q[j] /\ q[i].at >= q[j].at)
          <=> Contract!NewestFirst(q)
    BY <2>1 DEF Contract!NewestFirst
  <2>3. ASSUME NEW a \in s
        PROVE  (\/ \E i \in 1..Length(s) : q[i] = a
                \/ \A i \in 1..Length(s) : q[i].at >= a.at)
               <=> ((\A i \in DOMAIN q : q[i] # a) =>
                      \A i \in DOMAIN q : q[i].at >= a.at)
    BY <2>1, Zenon
  <2> QED
    BY <1>1, <2>2, <2>3, Zenon DEF OrderByCreatedAtDesc, Contract!Listings
<1> QED
  BY <1>1, <1>2, Zenon DEF OrderByCreatedAtDesc, Contract!Listings

(* The case filter on the index table finds what the payloads hold.        *)
LEMMA FiltersAgree ==
  ASSUME StoreInv, NEW asked
  PROVE  Matching(asked) = Contract!Holding(sessions, asked)
<1>1. ASSUME NEW a \in sessions, NEW c
      PROVE  <<a.id, c>> \in caseRows <=> c \in a.cases
  <2>1. ASSUME <<a.id, c>> \in caseRows PROVE c \in a.cases
    <3>1. PICK b \in sessions : <<a.id, c>> \in RowsOf(b)
      BY <2>1 DEF StoreInv, IndexMatchesPayload
    <3>2. b.id = a.id /\ c \in b.cases
      BY <3>1 DEF RowsOf
    <3> QED
      BY <3>2 DEF StoreInv, UniqueIds
  <2>2. ASSUME c \in a.cases PROVE <<a.id, c>> \in caseRows
    <3>1. <<a.id, c>> \in RowsOf(a)
      BY <2>2 DEF RowsOf
    <3> QED
      BY <3>1 DEF StoreInv, IndexMatchesPayload
  <2> QED
    BY <2>1, <2>2
<1> QED
  BY <1>1 DEF Matching, Contract!Holding

(* history gives a table exactly of the cases some stored session has.     *)
LEMMA HistoryIsSound == StoreInv => HistoryFindsTheCase
<1> SUFFICES ASSUME StoreInv, Limit > 0, NEW c \in CaseIds,
                    NEW q \in OrderByCreatedAtDesc(Matching({c}))
             PROVE  cmd_history(q, c) = IF \E a \in sessions : c \in a.cases
                                        THEN "rendered" ELSE "no sessions found"
  BY DEF HistoryFindsTheCase
<1> DEFINE s == Matching({c})
<1>1. s = { a \in sessions : c \in a.cases }
  BY FiltersAgree DEF Contract!Holding
<1>2. s \in SUBSET Artifacts
  BY <1>1 DEF StoreInv, TypeOK
<1>3. q \in [1..Length(s) -> s]
  BY DEF OrderByCreatedAtDesc
<1>4. /\ q \in Seq(Artifacts)
      /\ DOMAIN q = 1..Length(s)
  BY <1>2, ListingType
<1>5. IsFiniteSet(s) /\ Cardinality(s) \in Nat /\ (Cardinality(s) = 0 <=> s = {})
  BY <1>2, SQLiteStoreAssumption, FS_Subset, FS_CardinalityType, FS_EmptySet
<1> HIDE DEF s
<1>6. Length(s) \in Nat /\ (Length(s) = 0 <=> s = {})
  <2>1. Length(s) = IF Cardinality(s) < Limit THEN Cardinality(s) ELSE Limit
    BY DEF Length
  <2> QED
    BY <1>5, <2>1, SQLiteStoreAssumption
<1>7. q = <<>> <=> s = {}
  BY <1>4, <1>6
<1>8. \A i \in DOMAIN q : c \in q[i].cases
  BY <1>1, <1>3, <1>4
<1> QED
  BY <1>1, <1>7, <1>8 DEF cmd_history

(* Whatever saves fail or are cut short, history finds the evidence that   *)
(* was committed, all of it well-formed.                                   *)
THEOREM HistoryIsComplete == Spec => []HistoryFindsTheCase
  BY StoreIsSafe, HistoryIsSound, PTL

(* An id is stored for the code when it is for the contract.               *)
LEMMA StoredAgrees ==
  ASSUME NEW id PROVE Stored(id) <=> id \in Contract!Ids(sessions)
BY DEF Stored, Contract!Ids

(* Within a call the contract sees a client that is saving the same        *)
(* artifact; ready, one that may call; opening or closed, one that is away. *)
LEMMA PhasesAgree ==
  ASSUME StoreInv, NEW p \in Procs
  PROVE  /\ pc[p] \in InCall => Contract!Saving(p) /\ Contract!Arg(p) = Artifact(p)
         /\ pc[p] = "ready" => Contract!Ready(p) /\ reply[p] # Contract!Down
         /\ pc[p] \in Opening => reply[p] = Contract!Down
<1> USE DEF StoreInv, Phase
<1>1. Down = Contract!Down
  BY DEF Down, Reply, Contract!Down, Contract!Reply
<1>2. ASSUME pc[p] \in InCall PROVE reply[p].kind = "saving"
  BY <1>2 DEF TypeOK
<1>3. Contract!Down.kind = "down"
  BY DEF Contract!Down, Contract!Reply
<1> QED
  BY <1>1, <1>2, <1>3 DEF Contract!Saving, Contract!Arg, Artifact, Contract!Ready, Opening

(* Every step of the statements is a step of the contract or leaves its    *)
(* state alone: a save happens at COMMIT, a rejection at the SELECT or  *)
(* at the first INSERT.                                                    *)
LEMMA StepSimulates ==
  ASSUME StoreInv, Next
  PROVE  Contract!Next \/ UNCHANGED <<sessions, reply>>
<1> DEFINE Simulated == Contract!Next \/ UNCHANGED <<sessions, reply>>
<1>1. ASSUME NEW p \in Procs,
             \/ Contract!Open(p) \/ Contract!Save(p) \/ Contract!Reject(p)
             \/ Contract!Fail(p) \/ Contract!Leave(p)
      PROVE  Simulated
  BY <1>1 DEF Contract!Next
<1>2. TypeOK
  BY DEF StoreInv
<1>3. ASSUME NEW p \in Procs, Connect(p) \/ CreateMissing(p) \/ SchemaDone(p)
                                \/ OpenFails(p) \/ InsertSession(p) \/ InsertCase(p)
      PROVE  Simulated
  BY <1>3
  DEF Connect, CreateMissing, SchemaDone, OpenFails, InsertSession, InsertCase, database
<1>4. ASSUME NEW p \in Procs, pc[p] \in Opening, Opened(p), UNCHANGED sessions
      PROVE  Simulated
  <2>1. Idle = Contract!Idle /\ reply[p] = Contract!Down
    BY <1>4, PhasesAgree DEF Idle, Reply, Contract!Idle, Contract!Reply
  <2>2. Contract!Open(p)
    BY <1>4, <2>1 DEF Contract!Open, Opened
  <2> QED
    BY <1>1, <2>2
<1>5. ASSUME NEW p \in Procs, ReadVersion(p) \/ StampVersion(p)
      PROVE  Simulated
  <2>1. pc[p] \in Opening /\ UNCHANGED sessions /\ (Opened(p) \/ UNCHANGED reply)
    BY <1>5 DEF ReadVersion, StampVersion, Opening, database
  <2> QED
    BY <1>4, <2>1
<1>6. ASSUME NEW p \in Procs, NEW a \in Artifacts, SaveSession(p, a)
      PROVE  Simulated
  <2>1. Contract!Ready(p)
    BY <1>6, PhasesAgree DEF SaveSession
  <2>2. Contract!Call(p, a)
    BY <1>6, <2>1
    DEF SaveSession, Contract!Call, Reply, Contract!Reply, database
  <2> QED
    BY <2>2 DEF Contract!Next
<1>7. ASSUME NEW p \in Procs, SerializeFails(p) \/ RollBack(p)
      PROVE  Simulated
  <2>1. /\ pc[p] \in InCall /\ UNCHANGED sessions
        /\ reply' = [reply EXCEPT ![p].kind = "failed"]
    BY <1>7 DEF SerializeFails, RollBack, Answer, InCall, database
  <2>2. Contract!Fail(p)
    BY <2>1, PhasesAgree DEF Contract!Fail
  <2> QED
    BY <1>1, <2>2
<1>8. ASSUME NEW p \in Procs, LookUp(p) PROVE Simulated
  <2>1. pc[p] \in InCall /\ UNCHANGED sessions
    BY <1>8 DEF LookUp, InCall, database
  <2>2. CASE Stored(Artifact(p).id) /\ Answer(p, "duplicate")
    <3>1. Contract!Reject(p)
      BY <2>1, <2>2, PhasesAgree, StoredAgrees DEF Contract!Reject, Answer
    <3> QED
      BY <1>1, <3>1
  <2>3. CASE UNCHANGED reply
    BY <2>1, <2>3
  <2> QED
    BY <1>8, <2>2, <2>3 DEF LookUp
<1>9. ASSUME NEW p \in Procs, Commit(p) PROVE Simulated
  <2>1. /\ pc[p] \in InCall /\ ~ Stored(Artifact(p).id)
        /\ sessions' = sessions \cup {Artifact(p)}
        /\ reply' = [reply EXCEPT ![p].kind = "saved"]
    BY <1>9 DEF Commit, Answer, InCall, StoreInv, WriterIsFirst
  <2>2. Contract!Save(p)
    BY <2>1, PhasesAgree, StoredAgrees DEF Contract!Save
  <2> QED
    BY <1>1, <2>2
<1>10. ASSUME NEW p \in Procs, NEW id \in SessionIds, LoadSession(p, id)
       PROVE  Simulated
  <2>1. Contract!Ready(p) /\ UNCHANGED sessions
    BY <1>10, PhasesAgree DEF LoadSession, database
  <2>2. Contract!Load(p, id)
    BY <1>10, <2>1, StoredAgrees DEF LoadSession, Contract!Load, Reply, Contract!Reply
  <2>3. id \in Contract!SessionIds
    BY DEF SessionIds, Contract!SessionIds
  <2> QED
    BY <2>2, <2>3 DEF Contract!Next
<1>11. ASSUME NEW p \in Procs, NEW asked \in { {c} : c \in CaseIds } \cup { {} },
              QuerySessions(p, asked)
       PROVE  Simulated
  <2>1. Contract!Ready(p) /\ UNCHANGED sessions
    BY <1>11, PhasesAgree DEF QuerySessions, database
  <2>2. Matching(asked) \in SUBSET Artifacts
    BY <1>2 DEF Matching, TypeOK
  <2>3. OrderByCreatedAtDesc(Matching(asked))
          = Contract!Listings(Contract!Holding(sessions, asked))
    BY <2>2, ListingsAgree, FiltersAgree
  <2>4. Contract!Query(p, asked)
    BY <1>11, <2>1, <2>3
    DEF QuerySessions, Contract!Query, Reply, Contract!Reply
  <2>5. CaseIds = Contract!CaseIds
    BY DEF CaseIds, Contract!CaseIds
  <2> QED
    BY <2>4, <2>5 DEF Contract!Next
<1>12. ASSUME NEW p \in Procs, Close(p) PROVE Simulated
  <2>1. UNCHANGED sessions /\ reply' = [reply EXCEPT ![p] = Down]
    BY <1>12 DEF Close, database
  <2>2. CASE reply[p] = Down
    BY <1>2, <2>1, <2>2 DEF TypeOK
  <2>3. CASE reply[p] # Down
    <3>1. Down = Contract!Down
      BY DEF Down, Reply, Contract!Down, Contract!Reply
    <3>2. Contract!Leave(p)
      BY <2>1, <2>3, <3>1 DEF Contract!Leave
    <3> QED
      BY <1>1, <3>2
  <2> QED
    BY <2>2, <2>3
<1>13. ASSUME NEW p \in Procs, PrimaryKeyFails(p) PROVE Simulated
  <2>1. /\ pc[p] \in InCall /\ UNCHANGED sessions
        /\ Stored(Artifact(p).id)
        /\ reply' = [reply EXCEPT ![p].kind = "integrity_error"]
    BY <1>13 DEF PrimaryKeyFails, Answer, InCall, database
  <2>2. Contract!Reject(p)
    BY <2>1, PhasesAgree, StoredAgrees DEF Contract!Reject
  <2> QED
    BY <1>1, <2>2
<1> HIDE DEF Simulated
<1>14. Simulated
  BY <1>3, <1>5, <1>6, <1>7, <1>8, <1>9, <1>10, <1>11, <1>12,
     <1>13
  DEF Next, Opens, Saves
<1> QED
  BY <1>14 DEF Simulated

(* The safety of the contract: SQLiteStore starts as the contract does and *)
(* takes only its steps.  (ImplementsContract adds that a save ends, which *)
(* is model-checked.)                                                      *)
THEOREM StoreKeepsContract ==
  Spec => Contract!Init /\ [][Contract!Next]_(Contract!storeVars)
<1>1. Init => Contract!Init
  BY DEF Init, Contract!Init, Down, Reply, Contract!Down, Contract!Reply
<1>2. StoreInv /\ [Next]_vars => [Contract!Next]_(Contract!storeVars)
  <2>1. ASSUME StoreInv, Next PROVE [Contract!Next]_(Contract!storeVars)
    BY <2>1, StepSimulates DEF Contract!storeVars
  <2>2. ASSUME UNCHANGED vars PROVE [Contract!Next]_(Contract!storeVars)
    BY <2>2 DEF vars, database, Contract!storeVars
  <2> QED
    BY <2>1, <2>2
<1> QED
  BY <1>1, <1>2, StoreIsSafe, PTL DEF Spec
=============================================================================
