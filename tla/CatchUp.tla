------------------------------- MODULE CatchUp ------------------------------
(***************************************************************************)
(* Learners that catch up: the group has run for some time, some nodes     *)
(* missed messages, and clients propose no more.                           *)
(***************************************************************************)
EXTENDS InstanceProperties

\* The record of instance i, decided for v by a proposal of number 2 * i + 2, and
\* one of an earlier proposal.
Decided(i, v) ==
  [promised |-> TRUE, accepted |-> TRUE, promisedId |-> 2 * i + 2,
   proposal |-> [id |-> 2 * i + 2, value |-> v]]

Earlier(i, v) ==
  [promised |-> TRUE, accepted |-> TRUE, promisedId |-> 2 * i + 1,
   proposal |-> [id |-> 2 * i + 1, value |-> v]]

\* Every node has learned the instances before learned[n].  In the instance they
\* are in, the nodes of `voted' have also accepted, and missed LEARN; those of
\* `stale' have accepted the value old of an earlier proposal and missed the
\* rest (Init would execute that value after a crash: these do not crash).  The
\* decided instances have been accepted by a majority.
FirstRecord(learned, vals, old, voted, stale, n, i) ==
  IF i < learned[n] \/ (i = learned[n] /\ n \in voted) THEN Decided(i, vals[i])
  ELSE IF i = learned[n] /\ n \in stale THEN Earlier(i, old)
  ELSE NoRecord

Behind(learned) == {n \in Node : \E r \in Node : learned[n] < learned[r]}

CatchUpFrom(learned, vals, old, voted, stale) ==
  LET Record(n, i) == FirstRecord(learned, vals, old, voted, stale, n, i)
      Records == {r \in Node \X Inst : Record(r[1], r[2]) # NoRecord}
  IN
  /\ voted \cap stale = {} /\ stale \cap CrashingNodes = {}
  /\ \A i \in Inst : (\E n \in Node : i < learned[n]) =>
       Cardinality({n \in Node : Record(n, i) = Decided(i, vals[i])}) >= GetMajority
  /\ up = [n \in Node |-> TRUE]
  /\ inst = learned
  /\ net = [s \in Node |-> [r \in Node |-> <<>>]]
  /\ breaks = 0
  /\ storage = [n \in Node |-> [i \in Inst |-> Record(n, i)]]
  /\ acc = [n \in Node |->
              IF n \in voted \cup stale THEN Record(n, learned[n]) ELSE EmptyState]
  /\ promises = {[node |-> r[1], inst |-> r[2], id |-> Record(r[1], r[2]).promisedId] :
                   r \in Records}
  /\ votes = {[node |-> r[1], inst |-> r[2], id |-> Record(r[1], r[2]).proposal.id,
                value |-> Record(r[1], r[2]).proposal.value] : r \in Records}
  /\ ContextInit
  /\ prop = [n \in Node |-> [NoRound EXCEPT !.id = 2 * MaxInst + 2]]
  /\ ballot = [n \in Node |-> EmptyBallot]
  /\ LearnerInit
  /\ smlog = [n \in Node |->
                [k \in 1 .. learned[n] |-> [id |-> k - 1, value |-> vals[k - 1]]]]
  /\ cp = [n \in Node |-> IF learned[n] = 0 THEN 0 ELSE learned[n] - 1]
  /\ crashes = 0

CatchUpInit ==
  \E learned \in [Node -> InstOrEnd], vals \in [Inst -> Value], old \in Value :
  \E voted, stale \in SUBSET Behind(learned) :
    CatchUpFrom(learned, vals, old, voted, stale)

CatchUpSpec == CatchUpInit /\ [][Next]_vars

FairCatchUpSpec == CatchUpSpec /\ Fairness
-----------------------------------------------------------------------------
\* A copied record overwrites whatever vote the node had in that instance, also
\* when it crashes before it has executed the value: only a chosen value may do
\* so.  (Here every vote was cast before the nodes began to catch up.)
CopiesOnlyChosen ==
  [][\A n \in Node : \A i \in Inst :
        storage'[n][i] # storage[n][i] => Chosen(i, storage'[n][i].proposal.value)]_vars
=============================================================================
