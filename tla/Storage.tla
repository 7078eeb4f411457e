------------------------------ MODULE Storage -------------------------------
(***************************************************************************)
(* The durable side of an accepter: persistence::State and its LevelDB     *)
(* store, one record per instance (src/state.cpp, src/storageleveldb.cpp). *)
(* A record survives the crash of the process.                             *)
(***************************************************************************)
EXTENDS Role

CONSTANT NoRecord      \* what LoadState finds where nothing was saved (404)

VARIABLE storage       \* storage[n][i]: the record of instance i on node n

ASSUME NoRecordAssumption == NoRecord \notin State

\* State::Reset, and a default StateProto.
EmptyState ==
  [promised |-> FALSE, accepted |-> FALSE, promisedId |-> 0, proposal |-> NoProposal]

StorageTypeOK == storage \in [Node -> [Inst -> State \cup {NoRecord}]]

StorageInit == storage = [n \in Node |-> [i \in Inst |-> NoRecord]]

\* Wrong: a promise is not written.
PersistAccepted(n, i, st) ==
  storage' = IF st.accepted THEN [storage EXCEPT ![n][i] = st] ELSE storage

\* Wrong: the first state of an instance stays.
PersistOnce(n, i, st) ==
  storage' = IF storage[n][i] = NoRecord THEN [storage EXCEPT ![n][i] = st] ELSE storage

\* State::Persist(i) of state st on node n.
Persist(n, i, st) == storage' = [storage EXCEPT ![n][i] = st]

Recorded(n) == {i \in Inst : storage[n][i] # NoRecord}

\* GetMaxInstanceId: the last key of the store, 0 when it is empty.
GetMaxInstanceId(n) ==
  IF Recorded(n) = {} THEN 0
  ELSE CHOOSE i \in Recorded(n) : \A j \in Recorded(n) : j <= i

\* Wrong: the last record is not given to the accepter unless it is accepted.
LoadAcceptedState(n) ==
  LET st == storage[n][GetMaxInstanceId(n)]
  IN  IF st = NoRecord THEN EmptyState ELSE IF st.accepted THEN st ELSE EmptyState

\* LoadState as InstanceImpl::Init uses it: 404 leaves the default StateProto.
LoadLastState(n) ==
  IF storage[n][GetMaxInstanceId(n)] = NoRecord
    THEN EmptyState
    ELSE storage[n][GetMaxInstanceId(n)]
=============================================================================
