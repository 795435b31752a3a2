----------------------------- MODULE ReplayStore -----------------------------
(***************************************************************************)
(* The contract of replay/protocol.py, for the clients of one store:       *)
(* saves are atomic, a session id is saved once, loads and queries see     *)
(* whole sessions, newest first.  A client is a process that holds the     *)
(* store open; it makes one call at a time and may disappear at any point. *)
(***************************************************************************)
EXTENDS Integers, Sequences, FiniteSets

CONSTANTS
  Clients,    \* processes that use the store
  Artifacts,  \* a finite set of records [id, at, cases]: session_id,
              \* created_at (a number), the ids of its cases
  Limit,      \* the limit of query_sessions, a number
  Rejections  \* what a client may hear of a save whose id is stored

VARIABLES
  stored,  \* the artifacts the store holds
  reply    \* the call each client is in, or what its last call gave

storeVars == <<stored, reply>>

Reply(kind, of) == [kind |-> kind, of |-> of]
Down == Reply("down", <<>>)
Idle == Reply("idle", <<>>)

SessionIds == { a.id : a \in Artifacts }
CaseIds == UNION { a.cases : a \in Artifacts }

Ids(s) == { a.id : a \in s }

(* What query_sessions may list of a set of sessions: at most Limit of     *)
(* them, none twice, newest first, and none left out that is newer.        *)
Length(s) == IF Cardinality(s) < Limit THEN Cardinality(s) ELSE Limit

NewestFirst(q) ==
  \A i, j \in DOMAIN q : i < j => q[i] # q[j] /\ q[i].at >= q[j].at

Listings(s) ==
  { q \in [1..Length(s) -> s] :
      /\ NewestFirst(q)
      /\ \A a \in s : (\A i \in DOMAIN q : q[i] # a) =>
           \A i \in DOMAIN q : q[i].at >= a.at }

-----------------------------------------------------------------------------
Init ==
  /\ stored = {}
  /\ reply = [p \in Clients |-> Down]

Open(p) ==
  /\ reply[p] = Down
  /\ reply' = [reply EXCEPT ![p] = Idle]
  /\ UNCHANGED stored

Ready(p) == reply[p].kind \notin {"down", "saving"}

Call(p, a) ==
  /\ Ready(p)
  /\ reply' = [reply EXCEPT ![p] = Reply("saving", <<a>>)]
  /\ UNCHANGED stored

Saving(p) == reply[p].kind = "saving"
Arg(p) == reply[p].of[1]

Save(p) ==
  /\ Saving(p)
  /\ Arg(p).id \notin Ids(stored)
  /\ stored' = stored \cup {Arg(p)}
  /\ reply' = [reply EXCEPT ![p].kind = "saved"]

(* A second save with the same id, and only that, is rejected. *)
Reject(p) ==
  /\ Saving(p)
  /\ Arg(p).id \in Ids(stored)
  /\ \E kind \in Rejections : reply' = [reply EXCEPT ![p].kind = kind]
  /\ UNCHANGED stored

(* The environment fails the save (a lock, a disk, a value that cannot be  *)
(* written), whatever its id: the store is left unchanged.                 *)
Fail(p) ==
  /\ Saving(p)
  /\ reply' = [reply EXCEPT ![p].kind = "failed"]
  /\ UNCHANGED stored

Load(p, id) ==
  /\ Ready(p)
  /\ \/ \E a \in stored : /\ a.id = id
                          /\ reply' = [reply EXCEPT ![p] = Reply("loaded", <<a>>)]
     \/ /\ id \notin Ids(stored)
        /\ reply' = [reply EXCEPT ![p] = Reply("not_found", <<>>)]
  /\ UNCHANGED stored

(* The sessions that hold one of the cases asked for (every session, when  *)
(* the query has no case_id).                                              *)
Holding(s, asked) == { a \in s : asked = {} \/ a.cases \cap asked # {} }

Query(p, asked) ==
  /\ Ready(p)
  /\ \E q \in Listings(Holding(stored, asked)) :
       reply' = [reply EXCEPT ![p] = Reply("listed", q)]
  /\ UNCHANGED stored

(* close(), or the end of the process in the middle of a call. *)
Leave(p) ==
  /\ reply[p] # Down
  /\ reply' = [reply EXCEPT ![p] = Down]
  /\ UNCHANGED stored

Next ==
  \E p \in Clients :
    \/ Open(p) \/ Save(p) \/ Reject(p) \/ Fail(p) \/ Leave(p)
    \/ \E a \in Artifacts : Call(p, a)
    \/ \E id \in SessionIds : Load(p, id)
    \/ \E asked \in { {c} : c \in CaseIds } \cup { {} } : Query(p, asked)

(* A save ends: the call returns or raises. *)
Spec ==
  /\ Init /\ [][Next]_storeVars
  /\ \A p \in Clients : WF_storeVars(Save(p) \/ Reject(p) \/ Fail(p))
=============================================================================
