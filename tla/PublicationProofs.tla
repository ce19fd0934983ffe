------------------------- MODULE PublicationProofs -------------------------
(***************************************************************************)
(* Safety of Publication for any set of envelopes, publishers and packages *)
(* and any number of operations.                                           *)
(*                                                                         *)
(* The argument does not rest on the session fence.  The journal's intent  *)
(* is a compare-and-set, so an operation has at most one attempt whose     *)
(* request may still commit; a publisher stands at an operation only when  *)
(* all earlier ones are applied; and a request carries a lockVersion that  *)
(* is out of date as soon as somebody else touched the package.            *)
(***************************************************************************)
EXTENDS Publication, TLAPS

-----------------------------------------------------------------------------
(* What the shared parts of the actions leave behind.                       *)

\* A publisher that ends is left in a well-typed state.
LEMMA EndType ==
    ASSUME TypeOK, NEW p \in Publishers, End(p)
    PROVE  /\ pc' \in [Publishers -> Pcs]
           /\ fence' \in Publishers \union {"none"}
           /\ at' \in [Publishers -> 1..N + 1]
           /\ known' \in [Publishers -> SUBSET Ops]
           /\ resumed' \in [Publishers -> BOOLEAN]
           /\ seen' \in [Publishers -> Nat]
           /\ attempt' \in [Publishers -> 0..2]
  <1>1. pc' \in [Publishers -> Pcs]
    BY DEF End, Goto, TypeOK, Pcs
  <1>2. fence' \in Publishers \union {"none"}
    BY DEF End, TypeOK
  <1>3. at' \in [Publishers -> 1..N + 1]
    BY PublicationAssumption DEF End, TypeOK
  <1>4. known' \in [Publishers -> SUBSET Ops]
    BY DEF End, TypeOK
  <1>5. resumed' \in [Publishers -> BOOLEAN]
    BY Zenon DEF End, TypeOK
  <1>6. seen' \in [Publishers -> Nat] /\ attempt' \in [Publishers -> 0..2]
    BY DEF End, TypeOK
  <1> QED
    BY <1>1, <1>2, <1>3, <1>4, <1>5, <1>6

\* The applied operations are operations.
LEMMA AppliedOpsType ==
    ASSUME NEW e
    PROVE  AppliedOps(e) \in SUBSET Ops
  BY DEF AppliedOps

\* The operation after one of the operations is a place a publisher can be at.
LEMMA NextOp ==
    ASSUME NEW i \in Ops
    PROVE  i + 1 \in 1..N + 1
  BY PublicationAssumption DEF Ops

\* The journal stays well typed when the state of an operation is set.
LEMMA SetOpType ==
    ASSUME TypeOK, NEW e \in Envelopes, NEW i \in Ops, NEW s \in OpState, SetOp(e, i, s)
    PROVE  op' \in [Envelopes -> [Ops -> OpState]]
  BY DEF SetOp, TypeOK

\* journal.failure keeps the journal well typed, and the run is over.
LEMMA FailType ==
    ASSUME TypeOK, NEW p \in Publishers, at[p] \in Ops,
           NEW s \in {"retryable", "ambiguous"}, Fail(p, s)
    PROVE  /\ op' \in [Envelopes -> [Ops -> OpState]]
           /\ publication' = publication
           /\ End(p)
  <1>1. EnvelopeOf[p] \in Envelopes
    BY PublicationAssumption
  <1>2. CASE op[EnvelopeOf[p]][at[p]] = "intent"
    BY <1>1, <1>2, SetOpType DEF Fail, OpState
  <1>3. CASE op[EnvelopeOf[p]][at[p]] # "intent"
    BY <1>3 DEF Fail, TypeOK
  <1> QED
    BY <1>2, <1>3 DEF Fail

\* OpenProject's state stays well typed over a commit.
LEMMA CommitType ==
    ASSUME TypeOK, NEW e \in Envelopes, NEW i \in Ops, Commit(e, i)
    PROVE  /\ effects' \in [Envelopes -> [Ops -> Nat]]
           /\ lock' \in [Packages -> Nat]
           /\ foreign' \in [Envelopes -> SUBSET Packages]
           /\ stale' \subseteq Envelopes
  <1>1. Package[e][i] \in Packages
    BY PublicationAssumption
  <1>2. effects' \in [Envelopes -> [Ops -> Nat]]
    BY DEF Commit, TypeOK
  <1>3. lock' \in [Packages -> Nat]
    BY <1>1 DEF Commit, TypeOK
  <1>4. foreign' \in [Envelopes -> SUBSET Packages]
    BY <1>1 DEF Commit, TypeOK
  <1> QED
    BY <1>2, <1>3, <1>4 DEF Commit, TypeOK

-----------------------------------------------------------------------------
(* Type correctness.                                                        *)

\* The places at which a publisher works on an operation.
OpPcs == {"intending", "applying", "sending", "lost", "verifying", "outcome", "recovering"}

\* A publisher that works on an operation stands at one.
AtOp == \A p \in Publishers : pc[p] \in OpPcs => at[p] \in Ops

\* A publisher takes up an operation only when there is one left.
LEMMA AtOpStep ==
    ASSUME TypeOK, AtOp, [Next]_vars
    PROVE  AtOp'
  <1> USE PublicationAssumption DEF AtOp, TypeOK, OpPcs
  <1>1. ASSUME NEW p \in Publishers, End(p) PROVE AtOp'
    BY <1>1 DEF End, Goto
  <1>2. ASSUME NEW p \in Publishers, Fail(p, "retryable") \/ Fail(p, "ambiguous") PROVE AtOp'
    BY <1>1, <1>2 DEF Fail
  <1>3. ASSUME NEW p \in Publishers, Start(p) \/ Load(p) \/ Begin(p) \/ Skip(p)
        PROVE  AtOp'
    BY <1>3 DEF Start, Load, Begin, Skip, Goto, local
  <1>4. ASSUME NEW p \in Publishers, Snapshot(p) \/ Finalize(p) \/ Crash(p) PROVE AtOp'
    BY <1>1, <1>4 DEF Snapshot, Finalize, Crash, Goto, local
  <1>5. ASSUME NEW p \in Publishers, Recover(p) \/ Check(p) PROVE AtOp'
    BY <1>1, <1>2, <1>5 DEF Recover, Check, Goto, local
  <1>6. ASSUME NEW p \in Publishers, Intend(p) \/ Apply(p) \/ Outcome(p) PROVE AtOp'
    BY <1>1, <1>2, <1>6 DEF Intend, Apply, Outcome, Goto, local
  <1>7. ASSUME NEW p \in Publishers, Reply(p) \/ Conflict(p) \/ Refused(p) \/ ResponseLost(p)
        PROVE  AtOp'
    BY <1>2, <1>7 DEF Reply, Conflict, Refused, ResponseLost, Goto, local
  <1>8. ASSUME NEW p \in Publishers, AfterLoss(p) \/ Verify(p) \/ VerifyError(p) \/ SessionLost(p)
        PROVE  AtOp'
    BY <1>2, <1>8 DEF AfterLoss, Verify, VerifyError, SessionLost, Goto, local
  <1>9. CASE UNCHANGED <<pc, at>>
    BY <1>9
  <1>10. ASSUME NEW e \in Envelopes, Approve(e) PROVE AtOp'
    BY <1>9, <1>10 DEF Approve, local
  <1>11. ASSUME NEW r \in inflight, LateCommit(r) PROVE AtOp'
    BY <1>9, <1>11 DEF LateCommit, local
  <1>12. ASSUME NEW k \in Packages, Edit(k) PROVE AtOp'
    BY <1>9, <1>12 DEF Edit, local
  <1>13. CASE UNCHANGED vars
    BY <1>9, <1>13 DEF vars
  <1> QED
    BY <1>3, <1>4, <1>5, <1>6, <1>7, <1>8, <1>10, <1>11, <1>12, <1>13 DEF Next, Run, Faulty

\* Type correctness is inductive together with AtOp.
LEMMA TypeStep ==
    ASSUME TypeOK, AtOp, [Next]_vars
    PROVE  TypeOK'
  <1> USE PublicationAssumption
  <1>a. ASSUME NEW p \in Publishers, End(p), UNCHANGED <<journal, remote, environment>>
        PROVE  TypeOK'
    BY <1>a, EndType DEF TypeOK, journal, remote, environment
  <1>b. ASSUME NEW p \in Publishers, at[p] \in Ops,
               Fail(p, "retryable") \/ Fail(p, "ambiguous"), UNCHANGED <<remote, environment>>
        PROVE  TypeOK'
    BY <1>b, EndType, FailType DEF TypeOK, remote, environment
  <1>1. ASSUME NEW p \in Publishers, Start(p) PROVE TypeOK'
    BY <1>1 DEF Start, TypeOK, Goto, Pcs, journal, local, remote, environment
  <1>2. ASSUME NEW p \in Publishers, Load(p) PROVE TypeOK'
    <2>1. pc' \in [Publishers -> Pcs]
      BY <1>2 DEF Load, TypeOK, Goto, Pcs
    <2>2. known' \in [Publishers -> SUBSET Ops]
      <3>1. known' = known \/ known' = [known EXCEPT ![p] = AppliedOps(EnvelopeOf[p])]
        BY <1>2 DEF Load
      <3>2. known \in [Publishers -> SUBSET Ops]
        BY DEF TypeOK
      <3>3. AppliedOps(EnvelopeOf[p]) \in SUBSET Ops
        BY AppliedOpsType
      <3> QED
        BY <3>1, <3>2, <3>3
    <2>3. resumed' \in [Publishers -> BOOLEAN]
      BY <1>2, Zenon DEF Load, TypeOK
    <2> QED
      BY <1>2, <2>1, <2>2, <2>3 DEF Load, TypeOK, journal, remote, environment
  <1>3. ASSUME NEW p \in Publishers, Snapshot(p) PROVE TypeOK'
    <2>1. CASE End(p)
      BY <1>3, <1>a, <2>1 DEF Snapshot
    <2>2. CASE Goto(p, "begin") /\ UNCHANGED <<fence, local>>
      BY <1>3, <2>2 DEF Snapshot, TypeOK, Goto, Pcs, journal, local, remote, environment
    <2> QED
      BY <1>3, <2>1, <2>2 DEF Snapshot
  <1>4. ASSUME NEW p \in Publishers, Begin(p) PROVE TypeOK'
    BY <1>4, AppliedOpsType DEF Begin, TypeOK, Goto, Pcs, remote, environment
  <1>5. ASSUME NEW p \in Publishers, Skip(p) PROVE TypeOK'
    <2>1. at[p] \in known[p] => at[p] + 1 \in 1..N + 1
      BY NextOp DEF TypeOK
    <2>2. at' \in [Publishers -> 1..N + 1]
      BY <1>5, <2>1 DEF Skip, TypeOK
    <2>3. pc' \in [Publishers -> Pcs]
      BY <1>5 DEF Skip, TypeOK, Goto, Pcs
    <2> QED
      BY <1>5, <2>2, <2>3 DEF Skip, TypeOK, journal, remote, environment
  <1>6. ASSUME NEW p \in Publishers, Recover(p) PROVE TypeOK'
    <2>1. CASE Fail(p, "ambiguous")
      BY <1>6, <1>b, <2>1 DEF Recover
    <2>2. CASE Goto(p, "recovering") /\ UNCHANGED <<journal, fence, local>>
      BY <1>6, <2>2 DEF Recover, TypeOK, Goto, Pcs, journal, local, remote, environment
    <2> QED
      BY <1>6, <2>1, <2>2 DEF Recover
  <1>7. ASSUME NEW p \in Publishers, Check(p) PROVE TypeOK'
    <2>1. CASE End(p)
      BY <1>7, <1>a, <2>1 DEF Check
    <2>2. CASE Goto(p, "intending") /\ UNCHANGED <<fence, local>>
      BY <1>7, <2>2 DEF Check, TypeOK, Goto, Pcs, journal, local, remote, environment
    <2> QED
      BY <1>7, <2>1, <2>2 DEF Check
  <1>8. ASSUME NEW p \in Publishers, Intend(p) PROVE TypeOK'
    <2>1. at[p] \in Ops
      BY <1>8 DEF Intend, AtOp, OpPcs
    <2>2. CASE op' = op /\ End(p)
      BY <1>8, <1>a, <2>2 DEF Intend, journal
    <2>3. CASE SetOp(EnvelopeOf[p], at[p], "intent") /\ Goto(p, "applying") /\ UNCHANGED <<fence, local>>
      <3>1. op' \in [Envelopes -> [Ops -> OpState]]
        BY <2>1, <2>3, SetOpType DEF OpState
      <3> QED
        BY <1>8, <2>3, <3>1 DEF Intend, TypeOK, Goto, Pcs, local, remote, environment
    <2> QED
      BY <1>8, <2>2, <2>3 DEF Intend
  <1>9. ASSUME NEW p \in Publishers, Apply(p) PROVE TypeOK'
    <2>1. at[p] \in Ops /\ EnvelopeOf[p] \in Envelopes /\ lock[Package[EnvelopeOf[p]][at[p]]] \in Nat
      BY <1>9 DEF Apply, AtOp, OpPcs, TypeOK
    <2>2. CASE Fail(p, "retryable")
      BY <1>9, <1>b, <2>1, <2>2 DEF Apply
    <2>3. CASE Goto(p, "outcome") /\ UNCHANGED <<journal, fence, local>>
      BY <1>9, <2>3 DEF Apply, TypeOK, Goto, Pcs, journal, local, remote, environment
    <2>4. CASE /\ seen' = [seen EXCEPT ![p] = lock[Package[EnvelopeOf[p]][at[p]]]]
               /\ attempt' = [attempt EXCEPT ![p] = 1]
               /\ Goto(p, "sending")
               /\ UNCHANGED <<journal, fence, at, known, resumed>>
      BY <1>9, <2>1, <2>4 DEF Apply, TypeOK, Goto, Pcs, journal, remote, environment
    <2> QED
      BY <1>9, <2>2, <2>3, <2>4 DEF Apply
  <1>10. ASSUME NEW p \in Publishers, Reply(p) PROVE TypeOK'
    <2>1. at[p] \in Ops /\ EnvelopeOf[p] \in Envelopes
      BY <1>10 DEF Reply, AtOp, OpPcs
    <2>2. pc' \in [Publishers -> Pcs]
      BY <1>10 DEF Reply, TypeOK, Goto, Pcs
    <2> QED
      BY <1>10, <2>1, <2>2, CommitType DEF Reply, TypeOK, journal, local, environment
  <1>11. ASSUME NEW p \in Publishers, Conflict(p) PROVE TypeOK'
    <2>1. at[p] \in Ops /\ EnvelopeOf[p] \in Envelopes /\ lock[Package[EnvelopeOf[p]][at[p]]] \in Nat
      BY <1>11 DEF Conflict, AtOp, OpPcs, TypeOK
    <2>2. CASE Fail(p, "retryable")
      BY <1>11, <1>b, <2>1, <2>2 DEF Conflict
    <2>3. CASE /\ seen' = [seen EXCEPT ![p] = lock[Package[EnvelopeOf[p]][at[p]]]]
               /\ attempt' = [attempt EXCEPT ![p] = 2]
               /\ UNCHANGED <<journal, fence, pc, at, known, resumed>>
      BY <1>11, <2>1, <2>3 DEF Conflict, TypeOK, journal, remote, environment
    <2> QED
      BY <1>11, <2>2, <2>3 DEF Conflict
  <1>12. ASSUME NEW p \in Publishers, Refused(p) \/ VerifyError(p) PROVE TypeOK'
    <2>1. at[p] \in Ops /\ Fail(p, "retryable")
      BY <1>12 DEF Refused, VerifyError, AtOp, OpPcs
    <2> QED
      BY <1>12, <2>1, EndType, FailType DEF Refused, VerifyError, Fault, TypeOK, remote
  <1>13. ASSUME NEW p \in Publishers, ResponseLost(p) PROVE TypeOK'
    <2>1. [env |-> EnvelopeOf[p], op |-> at[p], seen |-> seen[p]] \in Requests
      BY <1>13 DEF ResponseLost, AtOp, OpPcs, TypeOK, Requests
    <2>2. pc' \in [Publishers -> Pcs]
      BY <1>13 DEF ResponseLost, TypeOK, Goto, Pcs
    <2> QED
      BY <1>13, <2>1, <2>2 DEF ResponseLost, TypeOK, Fault, journal, local
  <1>14. ASSUME NEW p \in Publishers, AfterLoss(p) \/ Verify(p) PROVE TypeOK'
    <2>1. at[p] \in Ops
      BY <1>14 DEF AfterLoss, Verify, AtOp, OpPcs
    <2>2. CASE Fail(p, "ambiguous")
      BY <1>14, <1>b, <2>1, <2>2 DEF AfterLoss, Verify
    <2>3. CASE (Goto(p, "outcome") \/ Goto(p, "verifying")) /\ UNCHANGED <<journal, fence, local>>
      BY <1>14, <2>3 DEF AfterLoss, Verify, TypeOK, Goto, Pcs, journal, local, remote, environment
    <2> QED
      BY <1>14, <2>2, <2>3 DEF AfterLoss, Verify
  <1>15. ASSUME NEW p \in Publishers, Outcome(p) PROVE TypeOK'
    <2>1. at[p] \in Ops
      BY <1>15 DEF Outcome, AtOp, OpPcs
    <2>2. CASE op' = op /\ End(p)
      BY <1>15, <1>a, <2>2 DEF Outcome, journal
    <2>3. CASE /\ SetOp(EnvelopeOf[p], at[p], "applied")
               /\ at' = [at EXCEPT ![p] = @ + 1]
               /\ Goto(p, "next")
               /\ UNCHANGED <<fence, known, resumed, seen, attempt>>
      <3>1. op' \in [Envelopes -> [Ops -> OpState]]
        BY <2>1, <2>3, SetOpType DEF OpState
      <3>2. at' \in [Publishers -> 1..N + 1]
        BY <2>1, <2>3, NextOp DEF TypeOK
      <3> QED
        BY <1>15, <2>3, <3>1, <3>2 DEF Outcome, TypeOK, Goto, Pcs, remote, environment
    <2> QED
      BY <1>15, <2>2, <2>3 DEF Outcome
  <1>16. ASSUME NEW p \in Publishers, Finalize(p) PROVE TypeOK'
    <2>1. publication' \in [Envelopes -> {"absent", "in_progress", "completed"}]
      BY <1>16 DEF Finalize, TypeOK
    <2> QED
      BY <1>16, <2>1, EndType DEF Finalize, TypeOK, remote, environment
  <1>17. ASSUME NEW p \in Publishers, Crash(p) PROVE TypeOK'
    BY <1>17, EndType DEF Crash, Fault, TypeOK, journal, remote
  <1>18. ASSUME NEW p \in Publishers, SessionLost(p) PROVE TypeOK'
    BY <1>18 DEF SessionLost, Fault, TypeOK, journal, local, remote
  <1>19. ASSUME NEW r \in inflight, LateCommit(r) PROVE TypeOK'
    <2>1. r.env \in Envelopes /\ r.op \in Ops
      BY DEF TypeOK, Requests
    <2>2. CASE Commit(r.env, r.op)
      BY <1>19, <2>1, <2>2, CommitType DEF LateCommit, TypeOK, journal, local, environment
    <2>3. CASE UNCHANGED <<effects, lock, foreign, stale>>
      BY <1>19, <2>3 DEF LateCommit, TypeOK, journal, local, environment
    <2> QED
      BY <1>19, <2>2, <2>3 DEF LateCommit
  <1>20. ASSUME NEW k \in Packages, Edit(k) PROVE TypeOK'
    <2>1. foreign' \in [Envelopes -> SUBSET Packages]
      <3>1. \A x \in Envelopes : foreign[x] \union {k} \in SUBSET Packages
        BY <1>20 DEF TypeOK
      <3>2. CASE UNCHANGED foreign
        BY <3>2 DEF TypeOK
      <3>3. CASE foreign' = [x \in Envelopes |-> IF x \in approved THEN foreign[x] \union {k}
                                                                   ELSE foreign[x]]
        BY <3>1, <3>3 DEF TypeOK
      <3> QED
        BY <1>20, <3>2, <3>3 DEF Edit
    <2> QED
      BY <1>20, <2>1 DEF Edit, TypeOK, journal, local
  <1>21. ASSUME NEW e \in Envelopes, Approve(e) PROVE TypeOK'
    BY <1>21 DEF Approve, TypeOK, journal, local, remote
  <1>22. CASE UNCHANGED vars
    BY <1>22 DEF vars, TypeOK
  <1> QED
    BY <1>1, <1>2, <1>3, <1>4, <1>5, <1>6, <1>7, <1>8, <1>9, <1>10, <1>11, <1>12, <1>13,
       <1>14, <1>15, <1>16, <1>17, <1>18, <1>19, <1>20, <1>21, <1>22 DEF Next, Run, Faulty

-----------------------------------------------------------------------------
(* Operations are attempted in order.                                       *)

\* Everything before the place of a publisher is applied, and so is everything
\* it believes to be.
Behind ==
    \A p \in Publishers :
        /\ \A j \in Ops : j < at[p] => op[EnvelopeOf[p]][j] = "applied"
        /\ \A j \in known[p] : op[EnvelopeOf[p]][j] = "applied"

\* The journal is written at the place of a publisher, and only forward.
Forward ==
    \A e \in Envelopes : \A i \in Ops :
        /\ op'[e][i] # op[e][i] => \E p \in Publishers : EnvelopeOf[p] = e /\ at[p] = i
        /\ op[e][i] = "applied" => op'[e][i] = "applied"
        /\ op[e][i] # "planned" => op'[e][i] # "planned"

\* A publisher moves past applied operations only and learns of no others.
Advances ==
    \A p \in Publishers :
        /\ \/ at'[p] \in {at[p], 1}
           \/ at[p] \in Ops /\ at'[p] = at[p] + 1 /\ op'[EnvelopeOf[p]][at[p]] = "applied"
        /\ \A j \in known'[p] : j \in known[p] \/ op[EnvelopeOf[p]][j] = "applied"

\* A publisher that ends starts over and knows nothing.
LEMMA EndMoves ==
    ASSUME TypeOK, NEW p \in Publishers, End(p)
    PROVE  Advances
  BY DEF End, TypeOK, Advances

\* journal.failure writes at the place of its publisher, and only forward.
LEMMA FailMoves ==
    ASSUME TypeOK, NEW p \in Publishers, at[p] \in Ops,
           NEW s \in {"retryable", "ambiguous"}, Fail(p, s)
    PROVE  Forward /\ Advances
  <1>1. EnvelopeOf[p] \in Envelopes
    BY PublicationAssumption
  <1>2. Forward
    BY <1>1 DEF Fail, SetOp, TypeOK, Forward
  <1> QED
    BY <1>2, EndMoves DEF Fail

\* Every step of the specification writes the journal forward.
LEMMA JournalStep ==
    ASSUME TypeOK, AtOp, Behind, [Next]_vars
    PROVE  Forward /\ Advances
  <1> USE PublicationAssumption
  <1>a. UNCHANGED op => Forward
    BY DEF Forward
  <1>b. UNCHANGED <<at, known>> => Advances
    BY DEF Advances
  <1>c. ASSUME NEW p \in Publishers, End(p), UNCHANGED op PROVE Forward /\ Advances
    BY <1>a, <1>c, EndMoves
  <1>1. ASSUME NEW p \in Publishers, Start(p) \/ SessionLost(p) PROVE Forward /\ Advances
    BY <1>1, <1>a, <1>b DEF Start, SessionLost, journal, local
  <1>2. ASSUME NEW p \in Publishers, Load(p) \/ Begin(p) PROVE Forward /\ Advances
    <2>1. known' = known \/ known' = [known EXCEPT ![p] = AppliedOps(EnvelopeOf[p])]
      BY <1>2 DEF Load, Begin
    <2>2. at' = at /\ op' = op
      BY <1>2 DEF Load, Begin, journal
    <2>3. \A j \in AppliedOps(EnvelopeOf[p]) : op[EnvelopeOf[p]][j] = "applied"
      BY DEF AppliedOps
    <2> QED
      BY <1>a, <2>1, <2>2, <2>3 DEF Advances, TypeOK
  <1>3. ASSUME NEW p \in Publishers, Snapshot(p) \/ Check(p) \/ Crash(p) \/ Finalize(p)
        PROVE  Forward /\ Advances
    BY <1>3, <1>a, <1>b, <1>c DEF Snapshot, Check, Crash, Finalize, journal, local
  <1>4. ASSUME NEW p \in Publishers, Skip(p) PROVE Forward /\ Advances
    <2>1. op' = op /\ known' = known
      BY <1>4 DEF Skip, journal
    <2>2. at' = at \/ (at[p] \in known[p] /\ at' = [at EXCEPT ![p] = @ + 1])
      BY <1>4 DEF Skip
    <2>3. at[p] \in known[p] => at[p] \in Ops /\ op[EnvelopeOf[p]][at[p]] = "applied"
      BY DEF TypeOK, Behind
    <2> QED
      BY <1>a, <2>1, <2>2, <2>3 DEF Advances, TypeOK
  <1>5. ASSUME NEW p \in Publishers, Recover(p) PROVE Forward /\ Advances
    BY <1>5, <1>a, <1>b, FailMoves DEF Recover, journal, local
  <1>6. ASSUME NEW p \in Publishers, Intend(p) PROVE Forward /\ Advances
    <2>1. at[p] \in Ops
      BY <1>6 DEF Intend, AtOp, OpPcs
    <2>2. CASE op' = op /\ End(p)
      BY <1>c, <2>2
    <2>3. CASE op[EnvelopeOf[p]][at[p]] \in {"planned", "retryable"}
               /\ SetOp(EnvelopeOf[p], at[p], "intent") /\ UNCHANGED <<fence, local>>
      BY <1>b, <2>1, <2>3 DEF SetOp, TypeOK, Forward, local
    <2> QED
      BY <1>6, <2>2, <2>3 DEF Intend
  <1>7. ASSUME NEW p \in Publishers, Apply(p) \/ Conflict(p) PROVE Forward /\ Advances
    <2>1. at[p] \in Ops
      BY <1>7 DEF Apply, Conflict, AtOp, OpPcs
    <2> QED
      BY <1>7, <1>a, <1>b, <2>1, FailMoves DEF Apply, Conflict, journal, local
  <1>8. ASSUME NEW p \in Publishers, Refused(p) \/ VerifyError(p) \/ AfterLoss(p) \/ Verify(p)
        PROVE  Forward /\ Advances
    <2>1. at[p] \in Ops
      BY <1>8 DEF Refused, VerifyError, AfterLoss, Verify, AtOp, OpPcs
    <2> QED
      BY <1>8, <1>a, <1>b, <2>1, FailMoves
      DEF Refused, VerifyError, AfterLoss, Verify, journal, local
  <1>9. ASSUME NEW p \in Publishers, Reply(p) \/ ResponseLost(p) PROVE Forward /\ Advances
    BY <1>9, <1>a, <1>b DEF Reply, ResponseLost, journal, local
  <1>10. ASSUME NEW p \in Publishers, Outcome(p) PROVE Forward /\ Advances
    <2>1. at[p] \in Ops
      BY <1>10 DEF Outcome, AtOp, OpPcs
    <2>2. CASE op' = op /\ End(p)
      BY <1>c, <2>2
    <2>3. CASE /\ SetOp(EnvelopeOf[p], at[p], "applied")
               /\ at' = [at EXCEPT ![p] = @ + 1]
               /\ UNCHANGED known
      BY <2>1, <2>3 DEF SetOp, TypeOK, Forward, Advances
    <2> QED
      BY <1>10, <2>2, <2>3 DEF Outcome
  <1>11. ASSUME NEW e \in Envelopes, Approve(e) PROVE Forward /\ Advances
    BY <1>11, <1>a, <1>b DEF Approve, journal, local
  <1>12. ASSUME NEW r \in inflight, LateCommit(r) PROVE Forward /\ Advances
    BY <1>12, <1>a, <1>b DEF LateCommit, journal, local
  <1>13. ASSUME NEW k \in Packages, Edit(k) PROVE Forward /\ Advances
    BY <1>13, <1>a, <1>b DEF Edit, journal, local
  <1>14. CASE UNCHANGED vars
    BY <1>14, <1>a, <1>b DEF vars
  <1> QED
    BY <1>1, <1>2, <1>3, <1>4, <1>5, <1>6, <1>7, <1>8, <1>9, <1>10, <1>11, <1>12, <1>13, <1>14
    DEF Next, Run, Faulty

\* A publisher stands behind applied operations only, so attempts are in order.
LEMMA OrderStep ==
    ASSUME TypeOK, AtOp, Behind, InOrder, [Next]_vars
    PROVE  Behind' /\ InOrder'
  <1> USE PublicationAssumption
  <1>1. Forward /\ Advances
    BY JournalStep
  <1>2. TypeOK'
    BY TypeStep
  <1>3. Behind'
    <2> SUFFICES ASSUME NEW p \in Publishers
                 PROVE  /\ \A j \in Ops : j < at'[p] => op'[EnvelopeOf[p]][j] = "applied"
                        /\ \A j \in known'[p] : op'[EnvelopeOf[p]][j] = "applied"
      BY DEF Behind
    <2>1. ASSUME NEW j \in Ops, j < at'[p] PROVE op'[EnvelopeOf[p]][j] = "applied"
      <3>1. EnvelopeOf[p] \in Envelopes /\ at[p] \in 1..N + 1
        BY DEF TypeOK
      <3>2. CASE at'[p] = at[p]
        BY <1>1, <2>1, <3>1, <3>2 DEF Forward, Behind
      <3>3. CASE at'[p] = 1
        BY <2>1, <3>3 DEF Ops
      <3>4. CASE at'[p] = at[p] + 1 /\ op'[EnvelopeOf[p]][at[p]] = "applied"
        <4>1. j < at[p] \/ j = at[p]
          BY <2>1, <3>1, <3>4 DEF Ops
        <4> QED
          BY <1>1, <3>1, <3>4, <4>1 DEF Forward, Behind
      <3> QED
        BY <1>1, <3>2, <3>3, <3>4 DEF Advances
    <2>2. ASSUME NEW j \in known'[p] PROVE op'[EnvelopeOf[p]][j] = "applied"
      BY <1>1, <1>2, <2>2 DEF Forward, Advances, Behind, TypeOK
    <2> QED
      BY <2>1, <2>2
  <1>4. InOrder'
    <2> SUFFICES ASSUME NEW e \in Envelopes, NEW i \in Ops, NEW j \in Ops,
                        j < i, op'[e][i] # "planned"
                 PROVE  op'[e][j] = "applied"
      BY DEF InOrder
    <2>1. op[e][j] = "applied"
      BY <1>1 DEF Forward, Behind, InOrder
    <2> QED
      BY <1>1, <2>1 DEF Forward
  <1> QED
    BY <1>3, <1>4

\* The inductive invariant of the order of operations.
OrderInv == TypeOK /\ AtOp /\ Behind /\ InOrder

\* The initial state is well typed.
LEMMA InitTyped == Init => TypeOK /\ AtOp
  <1> SUFFICES ASSUME Init PROVE TypeOK /\ AtOp
    OBVIOUS
  <1>1. at \in [Publishers -> 1..N + 1]
    BY PublicationAssumption DEF Init
  <1>2. resumed \in [Publishers -> BOOLEAN] /\ sessionLost \in BOOLEAN
    BY Zenon DEF Init
  <1>3. pc \in [Publishers -> Pcs] /\ AtOp
    BY DEF Init, Pcs, AtOp, OpPcs
  <1>4. op \in [Envelopes -> [Ops -> OpState]] /\ effects \in [Envelopes -> [Ops -> Nat]]
    BY DEF Init, OpState
  <1> QED
    BY <1>1, <1>2, <1>3, <1>4 DEF Init, TypeOK

\* The order of attempts is an invariant.
LEMMA OrderInvariant == Spec => []OrderInv
  <1>1. Init => OrderInv
    <2> SUFFICES ASSUME Init PROVE Behind /\ InOrder
      BY InitTyped DEF OrderInv
    <2> QED
      BY PublicationAssumption DEF Init, Behind, InOrder, Ops
  <1>2. OrderInv /\ [Next]_vars => OrderInv'
    BY AtOpStep, TypeStep, OrderStep DEF OrderInv
  <1> QED
    BY <1>1, <1>2, PTL DEF Spec

\* The model's variables keep their types: every operation of the journal is in
\* one of its five states, every publisher stands at an operation of its
\* envelope or after the last one, and no request is sent more than twice.
THEOREM PublicationTypeCorrect == Spec => []TypeOK
  BY OrderInvariant, PTL DEF OrderInv

\* Operations are attempted strictly in plan order, for any number of publishers,
\* crashes and lost sessions: the journal orders them, not the fence.
THEOREM AttemptedInOrder == Spec => []InOrder
  BY OrderInvariant, PTL DEF OrderInv

-----------------------------------------------------------------------------
(* Attempts and their requests.                                             *)

\* The places of a publisher that won the journal's intent.
ActivePcs == {"applying", "sending", "lost", "verifying", "outcome"}

\* p stands at operation i of envelope e.
At(p, e, i) == EnvelopeOf[p] = e /\ at[p] = i

\* r is a request for operation i of envelope e.
For(r, e, i) == r.env = e /\ r.op = i

\* An operation that may be attempted has no attempt yet, and an attempt is made
\* by one publisher.
AttemptInv ==
    /\ \A p \in Publishers :
          /\ pc[p] \in ActivePcs => op[EnvelopeOf[p]][at[p]] \notin {"planned", "retryable"}
          /\ pc[p] = "recovering" => op[EnvelopeOf[p]][at[p]] # "planned"
    /\ \A p, q \in Publishers :
          pc[p] \in ActivePcs /\ pc[q] \in ActivePcs /\ At(p, EnvelopeOf[q], at[q]) => p = q

\* Where a publisher, or the journal, says that an effect is there, it is.
EvidenceInv ==
    /\ \A p \in Publishers :
          /\ pc[p] \in {"sending", "lost", "verifying"} => Kind[EnvelopeOf[p]][at[p]] # "audit"
          /\ /\ pc[p] \in {"verifying", "outcome", "recovering"}
             /\ Kind[EnvelopeOf[p]][at[p]] # "audit"
             => effects[EnvelopeOf[p]][at[p]] > 0
    /\ AppliedHasEffect

\* A request belongs to an attempt; except for status changes it is the only one
\* of its operation, and its operation has no effect yet.
RequestInv ==
    /\ \A r \in inflight :
          /\ op[r.env][r.op] # "planned"
          /\ Kind[r.env][r.op] # "audit"
          /\ Kind[r.env][r.op] # "status" =>
                /\ op[r.env][r.op] # "retryable"
                /\ effects[r.env][r.op] = 0
                /\ \A s \in inflight : For(s, r.env, r.op) => r = s
                /\ \A p \in Publishers :
                      pc[p] \in {"applying", "sending"} => ~At(p, r.env, r.op)
    /\ \A p \in Publishers :
          pc[p] = "sending" /\ Kind[EnvelopeOf[p]][at[p]] # "status"
             => effects[EnvelopeOf[p]][at[p]] = 0
    /\ EffectOnce

\* A request whose lockVersion is current is for a package nobody else changed.
Fresh(e, i, v) ==
    /\ v <= lock[Package[e][i]]
    /\ Kind[e][i] \in Patches /\ v = lock[Package[e][i]] => Package[e][i] \notin foreign[e]

LockInv ==
    /\ \A p \in Publishers : pc[p] = "sending" => Fresh(EnvelopeOf[p], at[p], seen[p])
    /\ \A r \in inflight : Fresh(r.env, r.op, r.seen)

\* A publisher that runs holds the fence, as long as no session was dropped.
FenceHeld ==
    ~sessionLost => \A p \in Publishers : pc[p] # "idle" => fence = p

\* A completed publication has no operation left.
CompletedInv ==
    \A e \in Envelopes : publication[e] = "completed" => \A i \in Ops : op[e][i] = "applied"

\* A step of one publisher leaves the others where they are.
LEMMA OthersStay ==
    ASSUME TypeOK, NEW p \in Publishers, Run(p) \/ Faulty(p)
    PROVE  \A q \in Publishers : q # p => /\ pc'[q] = pc[q]
                                          /\ at'[q] = at[q]
                                          /\ seen'[q] = seen[q]
  <1> DEFINE Stay == \A q \in Publishers : q # p => /\ pc'[q] = pc[q]
                                                    /\ at'[q] = at[q]
                                                    /\ seen'[q] = seen[q]
  <1>a. End(p) => Stay
    BY DEF End, Goto, TypeOK
  <1>b. Fail(p, "retryable") \/ Fail(p, "ambiguous") => Stay
    BY <1>a DEF Fail
  <1>c. ASSUME NEW l, Goto(p, l), UNCHANGED <<at, seen>> PROVE Stay
    BY <1>c DEF Goto, TypeOK
  <1>1. Start(p) \/ Load(p) \/ Begin(p) \/ Reply(p) \/ ResponseLost(p) => Stay
    BY <1>c DEF Start, Load, Begin, Reply, ResponseLost, local
  <1>2. Snapshot(p) \/ Check(p) \/ Intend(p) \/ Crash(p) \/ Finalize(p) => Stay
    BY <1>a, <1>c DEF Snapshot, Check, Intend, Crash, Finalize, local
  <1>3. Recover(p) \/ AfterLoss(p) \/ Verify(p) \/ VerifyError(p) \/ Refused(p) => Stay
    BY <1>b, <1>c DEF Recover, AfterLoss, Verify, VerifyError, Refused, local
  <1>4. Skip(p) => Stay
    BY DEF Skip, Goto, TypeOK
  <1>5. Apply(p) => Stay
    BY <1>b, <1>c DEF Apply, Goto, TypeOK, local
  <1>6. Conflict(p) => Stay
    BY <1>b DEF Conflict, TypeOK
  <1>7. Outcome(p) => Stay
    BY <1>a DEF Outcome, Goto, TypeOK
  <1>8. SessionLost(p) => Stay
    BY DEF SessionLost, local
  <1> QED
    BY <1>1, <1>2, <1>3, <1>4, <1>5, <1>6, <1>7, <1>8 DEF Run, Faulty

\* What the environment leaves alone.
LEMMA EnvironmentStays ==
    ASSUME [Next]_vars, ~(\E p \in Publishers : Run(p) \/ Faulty(p))
    PROVE  UNCHANGED <<journal, fence, pc, local, sessionLost>>
  <1>1. ASSUME NEW e \in Envelopes, Approve(e) PROVE UNCHANGED <<journal, fence, pc, local, sessionLost>>
    BY <1>1 DEF Approve
  <1>2. ASSUME NEW r \in inflight, LateCommit(r) PROVE UNCHANGED <<journal, fence, pc, local, sessionLost>>
    BY <1>2 DEF LateCommit, environment
  <1>3. ASSUME NEW k \in Packages, Edit(k) PROVE UNCHANGED <<journal, fence, pc, local, sessionLost>>
    BY <1>3 DEF Edit
  <1>4. CASE UNCHANGED vars
    BY <1>4 DEF vars, journal, local
  <1> QED
    BY <1>1, <1>2, <1>3, <1>4 DEF Next

-----------------------------------------------------------------------------
(* The session fence.                                                       *)

\* Only the holder of the fence leaves idle, and it releases the fence when it ends.
LEMMA FenceStep ==
    ASSUME TypeOK, FenceHeld, [Next]_vars
    PROVE  FenceHeld'
  <1> USE PublicationAssumption
  <1>1. CASE \E p \in Publishers : Run(p) \/ Faulty(p)
    <2>1. PICK p \in Publishers : Run(p) \/ Faulty(p)
      BY <1>1
    <2>2. CASE SessionLost(p)
      BY <2>2 DEF SessionLost, FenceHeld
    <2>3. CASE Start(p)
      BY <2>3 DEF Start, FenceHeld, TypeOK, Goto, environment
    <2>4. ASSUME End(p), sessionLost' = sessionLost PROVE FenceHeld'
      BY <2>4 DEF End, FenceHeld, TypeOK, Goto
    <2>5. ASSUME fence' = fence, sessionLost' = sessionLost, pc[p] # "idle" PROVE FenceHeld'
      BY <2>1, <2>5, OthersStay DEF FenceHeld
    <2>6. ASSUME Fail(p, "retryable") \/ Fail(p, "ambiguous"), sessionLost' = sessionLost
          PROVE  FenceHeld'
      BY <2>4, <2>6 DEF Fail
    <2>7. CASE Load(p) \/ Snapshot(p) \/ Begin(p) \/ Skip(p) \/ Check(p) \/ Intend(p)
      BY <2>4, <2>5, <2>7 DEF Load, Snapshot, Begin, Skip, Check, Intend, environment
    <2>8. CASE Recover(p) \/ Apply(p) \/ Reply(p) \/ Conflict(p) \/ AfterLoss(p) \/ Verify(p)
      BY <2>5, <2>6, <2>8 DEF Recover, Apply, Reply, Conflict, AfterLoss, Verify, environment
    <2>9. CASE Outcome(p) \/ Finalize(p) \/ Crash(p)
      BY <2>4, <2>5, <2>9 DEF Outcome, Finalize, Crash, environment
    <2>10. CASE Refused(p) \/ ResponseLost(p) \/ VerifyError(p)
      BY <2>5, <2>6, <2>10 DEF Refused, ResponseLost, VerifyError
    <2> QED
      BY <2>1, <2>2, <2>3, <2>7, <2>8, <2>9, <2>10 DEF Run, Faulty
  <1>2. CASE ~(\E p \in Publishers : Run(p) \/ Faulty(p))
    BY <1>2, EnvironmentStays DEF FenceHeld
  <1> QED
    BY <1>1, <1>2

\* Two publishers of one plan never run at the same time, whatever their
\* versions, unless the database dropped a fence session.
THEOREM OnePublisherPerPlan == Spec => []FenceExclusive
  <1>1. Init => FenceHeld
    BY DEF Init, FenceHeld
  <1>2. OrderInv /\ FenceHeld /\ [Next]_vars => FenceHeld'
    BY FenceStep DEF OrderInv
  <1>3. FenceHeld => FenceExclusive
    BY DEF FenceHeld, FenceExclusive
  <1> QED
    BY <1>1, <1>2, <1>3, OrderInvariant, PTL DEF Spec

-----------------------------------------------------------------------------
(* What one publisher's step does to its operation.                         *)

\* It ends or stays between operations ...
Leaves(p) == op' = op /\ pc'[p] \notin ActivePcs \union {"recovering"}

\* ... goes on with its attempt ...
Continues(p) ==
    /\ op' = op
    /\ at'[p] = at[p]
    /\ pc'[p] \in ActivePcs => pc[p] \in ActivePcs
    /\ pc'[p] \in {"applying", "sending"} => pc[p] \in {"applying", "sending"}
    /\ pc'[p] = "recovering" => op[EnvelopeOf[p]][at[p]] # "planned" \/ pc[p] = "recovering"

\* ... wins the intent ...
Wins(p) ==
    /\ at[p] \in Ops
    /\ op[EnvelopeOf[p]][at[p]] \in {"planned", "retryable"}
    /\ SetOp(EnvelopeOf[p], at[p], "intent")
    /\ at'[p] = at[p]
    /\ pc'[p] = "applying"

\* ... gives up ...
GivesUp(p) ==
    /\ at[p] \in Ops
    /\ op[EnvelopeOf[p]][at[p]] = "intent"
    /\ \/ SetOp(EnvelopeOf[p], at[p], "ambiguous")
       \/ /\ pc[p] \in {"applying", "sending", "verifying"}
          /\ SetOp(EnvelopeOf[p], at[p], "retryable")
    /\ pc'[p] = "idle"

\* ... or records it as applied.
Records(p) ==
    /\ at[p] \in Ops
    /\ pc[p] \in {"outcome", "recovering"}
    /\ op[EnvelopeOf[p]][at[p]] # "applied"
    /\ UNCHANGED <<publication, remote>>
    /\ SetOp(EnvelopeOf[p], at[p], "applied")
    /\ pc'[p] = "next"

\* A publisher's step is one of the five kinds.
LEMMA OwnStep ==
    ASSUME TypeOK, AtOp, NEW p \in Publishers, Run(p) \/ Faulty(p)
    PROVE  Leaves(p) \/ Continues(p) \/ Wins(p) \/ GivesUp(p) \/ Records(p)
  <1> DEFINE Own == Leaves(p) \/ Continues(p) \/ Wins(p) \/ GivesUp(p) \/ Records(p)
  <1>a. End(p) /\ UNCHANGED op => Leaves(p)
    BY DEF End, Goto, TypeOK, Leaves, ActivePcs
  <1>b. ASSUME NEW l \in Pcs \ (ActivePcs \union {"recovering"}), Goto(p, l), UNCHANGED op
        PROVE  Leaves(p)
    BY <1>b DEF Goto, TypeOK, Leaves
  <1>c. ASSUME at[p] \in Ops, Fail(p, "ambiguous") PROVE Leaves(p) \/ GivesUp(p)
    <2>1. CASE op[EnvelopeOf[p]][at[p]] = "intent"
      BY <1>c, <2>1 DEF Fail, End, Goto, TypeOK, GivesUp
    <2>2. CASE op[EnvelopeOf[p]][at[p]] # "intent"
      BY <1>a, <1>c, <2>2 DEF Fail
    <2> QED
      BY <2>1, <2>2
  <1>d. ASSUME at[p] \in Ops, pc[p] \in {"applying", "sending", "verifying"}, Fail(p, "retryable")
        PROVE  Leaves(p) \/ GivesUp(p)
    <2>1. CASE op[EnvelopeOf[p]][at[p]] = "intent"
      BY <1>d, <2>1 DEF Fail, End, Goto, TypeOK, GivesUp
    <2>2. CASE op[EnvelopeOf[p]][at[p]] # "intent"
      BY <1>a, <1>d, <2>2 DEF Fail
    <2> QED
      BY <2>1, <2>2
  <1>e. ASSUME NEW l, Goto(p, l), pc[p] \in ActivePcs, l \in ActivePcs, UNCHANGED <<op, at>>,
               l \in {"applying", "sending"} => pc[p] \in {"applying", "sending"}
        PROVE  Continues(p)
    BY <1>e DEF Goto, TypeOK, Continues, ActivePcs
  <1>f. pc[p] \in OpPcs => at[p] \in Ops
    BY DEF AtOp
  <1>1. Start(p) \/ Load(p) \/ Begin(p) => Own
    BY <1>b DEF Start, Load, Begin, journal, Pcs, ActivePcs
  <1>2. Snapshot(p) \/ Check(p) \/ Crash(p) \/ Finalize(p) => Own
    BY <1>a, <1>b DEF Snapshot, Check, Crash, Finalize, journal, Pcs, ActivePcs
  <1>3. Skip(p) => Own
    BY <1>b DEF Skip, journal, Pcs, ActivePcs, Leaves
  <1>4. ASSUME Recover(p) PROVE Own
    <2>1. at[p] \in Ops
      BY <1>4 DEF Recover
    <2>2. CASE Goto(p, "recovering") /\ UNCHANGED <<journal, fence, local>>
      BY <1>4, <2>2 DEF Recover, Goto, TypeOK, Continues, ActivePcs, journal, local
    <2> QED
      BY <1>4, <1>c, <2>1, <2>2 DEF Recover
  <1>5. ASSUME Intend(p) PROVE Own
    <2>1. at[p] \in Ops
      BY <1>5, <1>f DEF Intend, OpPcs
    <2>2. CASE op[EnvelopeOf[p]][at[p]] \in {"planned", "retryable"}
      BY <1>5, <2>1, <2>2 DEF Intend, Goto, TypeOK, Wins, local
    <2>3. CASE op[EnvelopeOf[p]][at[p]] \notin {"planned", "retryable"}
      BY <1>5, <1>a, <2>3 DEF Intend
    <2> QED
      BY <2>2, <2>3
  <1>6. ASSUME Apply(p) PROVE Own
    BY <1>6, <1>d, <1>e, <1>f DEF Apply, OpPcs, ActivePcs, journal, local
  <1>7. ASSUME Conflict(p) PROVE Own
    BY <1>7, <1>d, <1>f DEF Conflict, OpPcs, ActivePcs, Continues, journal
  <1>8. ASSUME Reply(p) \/ ResponseLost(p) PROVE Own
    BY <1>8, <1>e DEF Reply, ResponseLost, ActivePcs, journal, local
  <1>9. ASSUME Refused(p) \/ VerifyError(p) PROVE Own
    BY <1>9, <1>d, <1>f DEF Refused, VerifyError, OpPcs, ActivePcs
  <1>10. ASSUME AfterLoss(p) \/ Verify(p) PROVE Own
    BY <1>10, <1>c, <1>e, <1>f DEF AfterLoss, Verify, OpPcs, ActivePcs, journal, local
  <1>11. ASSUME Outcome(p) PROVE Own
    <2>1. at[p] \in Ops
      BY <1>11, <1>f DEF Outcome, OpPcs
    <2>2. CASE op[EnvelopeOf[p]][at[p]] \in {"intent", "retryable", "ambiguous"}
      BY <1>11, <2>1, <2>2 DEF Outcome, Goto, TypeOK, Records
    <2>3. CASE op[EnvelopeOf[p]][at[p]] \notin {"intent", "retryable", "ambiguous"}
      BY <1>11, <1>a, <2>3 DEF Outcome
    <2> QED
      BY <2>2, <2>3
  <1>12. ASSUME SessionLost(p) PROVE Own
    BY <1>12 DEF SessionLost, Leaves, Continues, journal, local
  <1> QED
    BY <1>1, <1>2, <1>3, <1>4, <1>5, <1>6, <1>7, <1>8, <1>9, <1>10, <1>11, <1>12
    DEF Run, Faulty

\* Setting the state of one operation changes no other.
LEMMA SetOpAt ==
    ASSUME TypeOK, NEW e \in Envelopes, NEW i \in Ops, NEW s, SetOp(e, i, s)
    PROVE  \A x \in Envelopes : \A j \in Ops :
              op'[x][j] = IF x = e /\ j = i THEN s ELSE op[x][j]
  BY DEF SetOp, TypeOK

\* Who is active after a step was active before, or just won the intent.
LEMMA ActiveStep ==
    ASSUME TypeOK, AtOp, NEW p \in Publishers, Run(p) \/ Faulty(p),
           NEW q \in Publishers, pc'[q] \in ActivePcs
    PROVE  at'[q] = at[q] /\ (pc[q] \in ActivePcs \/ (q = p /\ Wins(p)))
  <1>1. CASE q # p
    BY <1>1, OthersStay
  <1>2. CASE q = p
    BY <1>2, OwnStep DEF Leaves, Continues, Wins, GivesUp, Records, ActivePcs
  <1> QED
    BY <1>1, <1>2

\* The compare-and-set of journal.intent admits one attempt at a time.
LEMMA AttemptStep ==
    ASSUME TypeOK, AtOp, AttemptInv, [Next]_vars
    PROVE  AttemptInv'
  <1> USE PublicationAssumption
  <1>1. CASE \E p \in Publishers : Run(p) \/ Faulty(p)
    <2>1. PICK p \in Publishers : Run(p) \/ Faulty(p)
      BY <1>1
    <2>2. \A q \in Publishers : q # p => pc'[q] = pc[q] /\ at'[q] = at[q]
      BY <2>1, OthersStay
    <2>3. \A q \in Publishers : /\ EnvelopeOf[q] \in Envelopes
                                /\ pc[q] \in ActivePcs \union {"recovering"} => at[q] \in Ops
      BY DEF AtOp, OpPcs, ActivePcs
    <2>4. ASSUME NEW q \in Publishers, NEW r \in Publishers,
                 pc'[q] \in ActivePcs, pc'[r] \in ActivePcs,
                 EnvelopeOf[q] = EnvelopeOf[r], at'[q] = at'[r]
          PROVE  q = r
      <3>1. /\ at'[q] = at[q] /\ (pc[q] \in ActivePcs \/ (q = p /\ Wins(p)))
            /\ at'[r] = at[r] /\ (pc[r] \in ActivePcs \/ (r = p /\ Wins(p)))
        BY <2>1, <2>4, ActiveStep
      <3> QED
        BY <2>4, <3>1 DEF AttemptInv, At, Wins
    <2>5. ASSUME NEW q \in Publishers, pc'[q] \in ActivePcs
          PROVE  op'[EnvelopeOf[q]][at'[q]] \notin {"planned", "retryable"}
      <3>1. at'[q] = at[q] /\ (pc[q] \in ActivePcs \/ (q = p /\ Wins(p)))
        BY <2>1, <2>5, ActiveStep
      <3>2. CASE op' = op
        BY <2>3, <3>1, <3>2, SetOpAt DEF AttemptInv, Wins
      <3>3. CASE Wins(p)
        BY <2>3, <3>1, <3>3, SetOpAt DEF AttemptInv, Wins
      <3>4. CASE Records(p)
        BY <2>3, <3>1, <3>4, SetOpAt DEF AttemptInv, Records, Wins
      <3>5. CASE GivesUp(p)
        <4>1. q # p /\ pc[q] \in ActivePcs
          BY <2>5, <3>1, <3>5 DEF GivesUp, ActivePcs, Wins
        <4>2. CASE SetOp(EnvelopeOf[p], at[p], "ambiguous")
          BY <2>3, <3>1, <3>5, <4>1, <4>2, SetOpAt DEF AttemptInv, GivesUp
        <4>3. CASE /\ pc[p] \in {"applying", "sending", "verifying"}
                   /\ SetOp(EnvelopeOf[p], at[p], "retryable")
          BY <2>3, <3>1, <3>5, <4>1, <4>3, SetOpAt DEF AttemptInv, At, GivesUp, ActivePcs
        <4> QED
          BY <3>5, <4>2, <4>3 DEF GivesUp
      <3> QED
        BY <2>1, <3>2, <3>3, <3>4, <3>5, OwnStep DEF Leaves, Continues
    <2>6. ASSUME NEW q \in Publishers, pc'[q] = "recovering"
          PROVE  op'[EnvelopeOf[q]][at'[q]] # "planned"
      <3>1. CASE q = p
        <4>1. op' = op /\ at'[p] = at[p] /\ op[EnvelopeOf[p]][at[p]] # "planned"
          BY <2>1, <2>6, <3>1, OwnStep
          DEF Leaves, Continues, Wins, GivesUp, Records, AttemptInv
        <4> QED
          BY <3>1, <4>1
      <3>2. CASE q # p
        <4>1. pc[q] = "recovering" /\ at'[q] = at[q] /\ op[EnvelopeOf[q]][at[q]] # "planned"
          BY <2>2, <2>6, <3>2 DEF AttemptInv
        <4>2. at[q] \in Ops
          BY <2>3, <4>1
        <4>3. op'[EnvelopeOf[q]][at[q]] # "planned"
          <5>1. CASE op' = op
            BY <4>1, <5>1
          <5>2. ASSUME at[p] \in Ops, NEW s, s # "planned", SetOp(EnvelopeOf[p], at[p], s)
                PROVE  op'[EnvelopeOf[q]][at[q]] # "planned"
            BY <2>3, <4>1, <4>2, <5>2, SetOpAt
          <5> QED
            BY <2>1, <5>1, <5>2, OwnStep DEF Leaves, Continues, Wins, GivesUp, Records
        <4> QED
          BY <4>1, <4>3
      <3> QED
        BY <3>1, <3>2
    <2> QED
      BY <2>4, <2>5, <2>6 DEF AttemptInv, At
  <1>2. CASE ~(\E p \in Publishers : Run(p) \/ Faulty(p))
    BY <1>2, EnvironmentStays DEF AttemptInv, At, journal, local
  <1> QED
    BY <1>1, <1>2

-----------------------------------------------------------------------------
(* What OpenProject does.                                                   *)

\* A commit counts one effect and moves one lockVersion.
LEMMA CommitAt ==
    ASSUME TypeOK, NEW e \in Envelopes, NEW i \in Ops, Commit(e, i)
    PROVE  /\ \A x \in Envelopes : \A j \in Ops :
                 effects'[x][j] = IF x = e /\ j = i THEN effects[x][j] + 1 ELSE effects[x][j]
           /\ \A k \in Packages :
                 lock'[k] = IF k = Package[e][i] THEN lock[k] + 1 ELSE lock[k]
           /\ \A x \in Envelopes : \A k \in Packages :
                 k \in foreign'[x] => k \in foreign[x] \/ k = Package[e][i]
  <1>1. Package[e][i] \in Packages
    BY PublicationAssumption
  <1>2. \A x \in Envelopes : \A j \in Ops :
           effects'[x][j] = IF x = e /\ j = i THEN effects[x][j] + 1 ELSE effects[x][j]
    BY DEF Commit, TypeOK
  <1>3. \A k \in Packages : lock'[k] = IF k = Package[e][i] THEN lock[k] + 1 ELSE lock[k]
    BY <1>1 DEF Commit, TypeOK
  <1>4. \A x \in Envelopes : \A k \in Packages :
           k \in foreign'[x] => k \in foreign[x] \/ k = Package[e][i]
    BY DEF Commit
  <1> QED
    BY <1>2, <1>3, <1>4

\* Only an answered request, a lost response, a late commit and an edit touch
\* OpenProject's state or the requests in flight.
LEMMA RemoteStep ==
    ASSUME TypeOK, AtOp, [Next]_vars
    PROVE  \/ UNCHANGED <<effects, inflight, lock, foreign>>
           \/ \E p \in Publishers : Reply(p) /\ at[p] \in Ops /\ EnvelopeOf[p] \in Envelopes
           \/ \E p \in Publishers : ResponseLost(p) /\ at[p] \in Ops /\ EnvelopeOf[p] \in Envelopes
           \/ \E r \in inflight : LateCommit(r) /\ r.op \in Ops /\ r.env \in Envelopes
           \/ \E k \in Packages : Edit(k)
  <1> USE PublicationAssumption
  <1>1. ASSUME NEW p \in Publishers, Reply(p) \/ ResponseLost(p)
        PROVE  at[p] \in Ops /\ EnvelopeOf[p] \in Envelopes
    BY <1>1 DEF Reply, ResponseLost, AtOp, OpPcs
  <1>2. ASSUME NEW r \in inflight PROVE r.op \in Ops /\ r.env \in Envelopes
    BY <1>2 DEF TypeOK, Requests
  <1>3. ASSUME NEW p \in Publishers,
               Run(p) \/ Faulty(p), ~Reply(p), ~ResponseLost(p)
        PROVE  UNCHANGED <<effects, inflight, lock, foreign>>
    <2>1. UNCHANGED remote
      BY <1>3 DEF Run, Faulty, Start, Load, Snapshot, Begin, Skip, Recover, Check, Intend, Apply,
                  Conflict, AfterLoss, Verify, Outcome, Finalize, Refused, VerifyError, Crash,
                  SessionLost
    <2> QED
      BY <2>1 DEF remote
  <1>4. ASSUME NEW e \in Envelopes, Approve(e) PROVE UNCHANGED <<effects, inflight, lock, foreign>>
    BY <1>4 DEF Approve, remote
  <1>5. CASE UNCHANGED vars
    BY <1>5 DEF vars
  <1> QED
    BY <1>1, <1>2, <1>3, <1>4, <1>5 DEF Next

\* Effects are never undone.
LEMMA EffectsGrow ==
    ASSUME TypeOK, AtOp, [Next]_vars
    PROVE  \A e \in Envelopes : \A i \in Ops : effects[e][i] > 0 => effects'[e][i] > 0
  <1>1. ASSUME NEW x \in Envelopes, NEW j \in Ops, Commit(x, j)
        PROVE  \A e \in Envelopes : \A i \in Ops : effects[e][i] > 0 => effects'[e][i] > 0
    BY <1>1, CommitAt DEF TypeOK
  <1>2. CASE UNCHANGED effects
    BY <1>2
  <1> QED
    BY <1>1, <1>2, RemoteStep DEF Reply, ResponseLost, LateCommit, Edit

\* The publisher's own part of EvidenceInv.
EvidenceOf(p) ==
    /\ pc[p] \in {"sending", "lost", "verifying"} => Kind[EnvelopeOf[p]][at[p]] # "audit"
    /\ /\ pc[p] \in {"verifying", "outcome", "recovering"}
       /\ Kind[EnvelopeOf[p]][at[p]] # "audit"
       => effects[EnvelopeOf[p]][at[p]] > 0

\* A publisher reaches verifying, outcome or recovering only over a visible effect.
LEMMA OwnEvidence ==
    ASSUME TypeOK, AtOp, [Next]_vars, NEW p \in Publishers, EvidenceOf(p), Run(p) \/ Faulty(p)
    PROVE  EvidenceOf(p)'
  <1> USE PublicationAssumption
  <1> DEFINE e == EnvelopeOf[p]
             i == at[p]
  <1>1. CASE pc'[p] \notin {"sending", "lost", "verifying", "outcome", "recovering"}
    BY <1>1 DEF EvidenceOf
  <1>2. pc[p] \in OpPcs => i \in Ops /\ e \in Envelopes
    BY DEF AtOp
  <1>a. ASSUME End(p) PROVE EvidenceOf(p)'
    BY <1>1, <1>a DEF End, Goto, TypeOK
  <1>b. ASSUME Fail(p, "retryable") \/ Fail(p, "ambiguous") PROVE EvidenceOf(p)'
    BY <1>a, <1>b DEF Fail
  <1>c. ASSUME NEW l \in Pcs, l \notin {"sending", "lost", "verifying", "outcome", "recovering"},
               Goto(p, l)
        PROVE  EvidenceOf(p)'
    BY <1>1, <1>c DEF Goto, TypeOK
  <1>d. ASSUME NEW l \in {"verifying", "outcome", "recovering"}, Goto(p, l),
               Post(e, i), UNCHANGED <<effects, at>>
        PROVE  EvidenceOf(p)'
    BY <1>d DEF Goto, TypeOK, Post, EvidenceOf
  <1>3. CASE Start(p) \/ Load(p) \/ Begin(p)
    BY <1>3, <1>c DEF Start, Load, Begin, Pcs
  <1>4. CASE Snapshot(p) \/ Check(p) \/ Crash(p) \/ Finalize(p) \/ Intend(p)
    BY <1>4, <1>a, <1>c DEF Snapshot, Check, Crash, Finalize, Intend, Pcs
  <1>5. CASE Skip(p)
    BY <1>5, <1>1 DEF Skip, Goto, TypeOK
  <1>6. CASE Recover(p) \/ Verify(p) \/ AfterLoss(p)
    BY <1>6, <1>b, <1>d DEF Recover, Verify, AfterLoss, local, remote
  <1>7. CASE Apply(p)
    BY <1>7, <1>b DEF Apply, Goto, TypeOK, EvidenceOf, local
  <1>8. CASE Reply(p)
    <2>1. i \in Ops /\ e \in Envelopes
      BY <1>2, <1>8 DEF Reply, OpPcs
    <2>2. effects'[e][i] > 0
      BY <1>8, <2>1, CommitAt DEF Reply, TypeOK
    <2> QED
      BY <1>8, <2>2 DEF Reply, Goto, TypeOK, EvidenceOf, local
  <1>9. CASE Conflict(p)
    BY <1>9, <1>b DEF Conflict, EvidenceOf, remote
  <1>10. CASE Refused(p) \/ VerifyError(p)
    BY <1>10, <1>b DEF Refused, VerifyError
  <1>11. CASE ResponseLost(p)
    BY <1>11 DEF ResponseLost, Goto, TypeOK, EvidenceOf, local
  <1>12. CASE Outcome(p)
    BY <1>12, <1>a, <1>c DEF Outcome, Pcs
  <1>13. CASE SessionLost(p)
    BY <1>13 DEF SessionLost, EvidenceOf, local, remote
  <1> QED
    BY <1>3, <1>4, <1>5, <1>6, <1>7, <1>8, <1>9, <1>10, <1>11, <1>12, <1>13 DEF Run, Faulty

\* Evidence is never lost, and nothing is recorded as applied without it.
LEMMA EvidenceStep ==
    ASSUME TypeOK, AtOp, EvidenceInv, [Next]_vars
    PROVE  EvidenceInv'
  <1> USE PublicationAssumption
  <1>1. \A q \in Publishers : EvidenceOf(q)
    BY DEF EvidenceInv, EvidenceOf
  <1>2. ASSUME NEW q \in Publishers, pc'[q] = pc[q], at'[q] = at[q] PROVE EvidenceOf(q)'
    <2>1. CASE pc[q] \in OpPcs
      BY <1>1, <1>2, <2>1, EffectsGrow DEF EvidenceOf, AtOp
    <2>2. CASE pc[q] \notin OpPcs
      BY <1>2, <2>2 DEF EvidenceOf, OpPcs
    <2> QED
      BY <2>1, <2>2
  <1>3. CASE \E p \in Publishers : Run(p) \/ Faulty(p)
    <2>1. PICK p \in Publishers : Run(p) \/ Faulty(p)
      BY <1>3
    <2>2. ASSUME NEW q \in Publishers PROVE EvidenceOf(q)'
      BY <1>1, <1>2, <2>1, OthersStay, OwnEvidence
    <2>3. AppliedHasEffect'
      <3>1. ASSUME NEW e \in Envelopes, NEW i \in Ops, op'[e][i] = "applied", op[e][i] # "applied"
            PROVE  Records(p) /\ e = EnvelopeOf[p] /\ i = at[p]
        <4>1. op' # op
          BY <3>1
        <4>2. CASE Records(p)
          BY <3>1, <4>2, SetOpAt DEF Records
        <4>3. CASE Wins(p)
          BY <3>1, <4>3, SetOpAt DEF Wins
        <4>4. CASE GivesUp(p)
          BY <3>1, <4>4, SetOpAt DEF GivesUp
        <4> QED
          BY <2>1, <4>1, <4>2, <4>3, <4>4, OwnStep DEF Leaves, Continues
      <3>2. ASSUME NEW e \in Envelopes, NEW i \in Ops, op'[e][i] = "applied", Kind[e][i] # "audit"
            PROVE  effects[e][i] > 0
        BY <3>1, <3>2, <1>1 DEF EvidenceInv, EvidenceOf, AppliedHasEffect, Records
      <3> QED
        BY <3>2, EffectsGrow DEF AppliedHasEffect
    <2> QED
      BY <2>2, <2>3 DEF EvidenceInv, EvidenceOf
  <1>4. CASE ~(\E p \in Publishers : Run(p) \/ Faulty(p))
    <2>1. UNCHANGED <<op, pc, at>>
      BY <1>4, EnvironmentStays DEF journal, local
    <2>2. ASSUME NEW q \in Publishers PROVE EvidenceOf(q)'
      BY <1>2, <2>1
    <2>3. AppliedHasEffect'
      BY <2>1, EffectsGrow DEF EvidenceInv, AppliedHasEffect
    <2> QED
      BY <2>2, <2>3 DEF EvidenceInv, EvidenceOf
  <1> QED
    BY <1>3, <1>4

-----------------------------------------------------------------------------
(* An operation takes effect once.                                          *)

\* A publisher that sends has just checked the precondition, or was sending before.
LEMMA OwnSending ==
    ASSUME TypeOK, AtOp, NEW p \in Publishers, Run(p) \/ Faulty(p), pc'[p] = "sending"
    PROVE  /\ at'[p] = at[p]
           /\ at[p] \in Ops
           /\ UNCHANGED remote
           /\ \/ pc[p] = "sending" /\ seen'[p] = seen[p]
              \/ /\ Pre(EnvelopeOf[p], at[p])
                 /\ Kind[EnvelopeOf[p]][at[p]] # "audit"
                 /\ seen'[p] = lock[Package[EnvelopeOf[p]][at[p]]]
  <1>a. ~End(p)
    BY DEF End, Goto, TypeOK
  <1>b. ~Fail(p, "retryable") /\ ~Fail(p, "ambiguous")
    BY <1>a DEF Fail
  <1>c. ASSUME NEW l, Goto(p, l), l # "sending" PROVE FALSE
    BY <1>c DEF Goto, TypeOK
  <1>1. ~Start(p) /\ ~Load(p) /\ ~Begin(p) /\ ~Reply(p) /\ ~ResponseLost(p)
    BY <1>c DEF Start, Load, Begin, Reply, ResponseLost
  <1>2. ~Snapshot(p) /\ ~Check(p) /\ ~Crash(p) /\ ~Finalize(p) /\ ~Intend(p) /\ ~Outcome(p)
    BY <1>a, <1>c DEF Snapshot, Check, Crash, Finalize, Intend, Outcome
  <1>3. ~Recover(p) /\ ~AfterLoss(p) /\ ~Verify(p) /\ ~VerifyError(p) /\ ~Refused(p)
    BY <1>b, <1>c DEF Recover, AfterLoss, Verify, VerifyError, Refused
  <1>4. ~Skip(p)
    BY <1>c DEF Skip
  <1>5. CASE Apply(p)
    BY <1>5, <1>b, <1>c DEF Apply, AtOp, OpPcs, TypeOK
  <1>6. CASE Conflict(p)
    BY <1>6, <1>b DEF Conflict, AtOp, OpPcs, TypeOK, Accepts, Patches
  <1>7. CASE SessionLost(p)
    BY <1>7 DEF SessionLost, AtOp, OpPcs, local
  <1> QED
    BY <1>1, <1>2, <1>3, <1>4, <1>5, <1>6, <1>7 DEF Run, Faulty

\* The parts of RequestInv.
RequestOf(r) ==
    /\ op[r.env][r.op] # "planned"
    /\ Kind[r.env][r.op] # "audit"
    /\ Kind[r.env][r.op] # "status" =>
          /\ op[r.env][r.op] # "retryable"
          /\ effects[r.env][r.op] = 0
          /\ \A s \in inflight : For(s, r.env, r.op) => r = s
          /\ \A p \in Publishers : pc[p] \in {"applying", "sending"} => ~At(p, r.env, r.op)

SendingOf(p) ==
    pc[p] = "sending" /\ Kind[EnvelopeOf[p]][at[p]] # "status"
        => effects[EnvelopeOf[p]][at[p]] = 0

\* RequestInv, taken apart.
LEMMA RequestParts ==
    RequestInv <=> /\ \A r \in inflight : RequestOf(r)
                   /\ \A p \in Publishers : SendingOf(p)
                   /\ EffectOnce
  BY DEF RequestInv, RequestOf, SendingOf

\* A request that is answered was the only one of its operation.
LEMMA ReplyRequests ==
    ASSUME OrderInv, AttemptInv, EvidenceInv, RequestInv, NEW p \in Publishers, Reply(p)
    PROVE  RequestInv'
  <1> USE PublicationAssumption
  <1> DEFINE e == EnvelopeOf[p]
             i == at[p]
  <1>1. TypeOK /\ AtOp
    BY DEF OrderInv
  <1>2. e \in Envelopes /\ i \in Ops /\ pc[p] = "sending"
    BY <1>1 DEF Reply, AtOp, OpPcs
  <1>3. \A x \in Envelopes : \A j \in Ops :
           effects'[x][j] = IF x = e /\ j = i THEN effects[x][j] + 1 ELSE effects[x][j]
    BY <1>1, <1>2, CommitAt DEF Reply
  <1>4. op' = op /\ at' = at /\ inflight' = inflight
    BY DEF Reply, journal, local
  <1>5. /\ pc'[p] \in {"outcome", "verifying"}
        /\ \A q \in Publishers : q # p => pc'[q] = pc[q]
    BY <1>1 DEF Reply, Goto, TypeOK
  <1>6. ASSUME NEW r \in inflight PROVE RequestOf(r)'
    <2>1. RequestOf(r) /\ r.env \in Envelopes /\ r.op \in Ops
      BY <1>1, <1>6, RequestParts DEF TypeOK, Requests
    <2>2. Kind[r.env][r.op] # "status" => ~(r.env = e /\ r.op = i)
      BY <1>2, <2>1 DEF RequestOf, At
    <2>3. Kind[r.env][r.op] # "status" => effects'[r.env][r.op] = 0
      BY <1>3, <2>1, <2>2 DEF RequestOf
    <2> QED
      BY <1>4, <1>5, <2>1, <2>3 DEF RequestOf, At, For
  <1>7. ASSUME NEW q \in Publishers, pc'[q] = "sending", Kind[EnvelopeOf[q]][at'[q]] # "status"
        PROVE  effects'[EnvelopeOf[q]][at'[q]] = 0
    <2>1. q # p /\ pc[q] = "sending" /\ at'[q] = at[q]
      BY <1>4, <1>5, <1>7
    <2>2. EnvelopeOf[q] \in Envelopes /\ at[q] \in Ops /\ ~(EnvelopeOf[q] = e /\ at[q] = i)
      BY <1>1, <1>2, <2>1 DEF AttemptInv, ActivePcs, At, AtOp, OpPcs
    <2> QED
      BY <1>3, <1>7, <2>1, <2>2 DEF RequestInv
  <1>8. EffectOnce'
    <2> SUFFICES ASSUME NEW x \in Envelopes, NEW j \in Ops, Kind[x][j] # "status"
                 PROVE  effects'[x][j] <= 1
      BY DEF EffectOnce
    <2>1. x = e /\ j = i => effects[x][j] = 0
      BY <1>2 DEF RequestInv
    <2> QED
      BY <1>3, <2>1 DEF RequestInv, EffectOnce
  <1> QED
    BY <1>4, <1>6, <1>7, <1>8 DEF RequestInv, RequestOf

\* A request that is given up remains the only one of its operation.
LEMMA ResponseLostRequests ==
    ASSUME OrderInv, AttemptInv, EvidenceInv, RequestInv, NEW p \in Publishers, ResponseLost(p)
    PROVE  RequestInv'
  <1> USE PublicationAssumption
  <1>1. TypeOK /\ AtOp
    BY DEF OrderInv
  <1>0. PICK new \in {[env |-> EnvelopeOf[p], op |-> at[p], seen |-> seen[p]]} : TRUE
    OBVIOUS
  <1>2. EnvelopeOf[p] \in Envelopes /\ at[p] \in Ops /\ pc[p] = "sending"
    BY <1>1 DEF ResponseLost, AtOp, OpPcs
  <1>3. op' = op /\ at' = at /\ effects' = effects /\ inflight' = inflight \union {new}
    BY <1>0 DEF ResponseLost, journal, local
  <1>12. new.env = EnvelopeOf[p] /\ new.op = at[p]
    BY <1>0
  <1>4. pc'[p] = "lost" /\ \A q \in Publishers : q # p => pc'[q] = pc[q]
    BY <1>1 DEF ResponseLost, Goto, TypeOK
  <1>5. \A q \in Publishers : pc'[q] \in {"applying", "sending"} => q # p /\ pc[q] \in {"applying", "sending"}
    BY <1>4
  <1>6. \A r \in inflight : Kind[r.env][r.op] # "status" => ~For(r, EnvelopeOf[p], at[p])
    BY <1>2 DEF RequestInv, For, At
  <1>7. ASSUME NEW r \in inflight PROVE RequestOf(r)'
    <2>1. RequestOf(r)
      BY <1>7, RequestParts
    <2>2. Kind[r.env][r.op] # "status" => ~For(new, r.env, r.op)
      BY <1>6, <1>7, <1>12 DEF For
    <2> QED
      BY <1>3, <1>5, <2>1, <2>2 DEF RequestOf, At, For
  <1>8. RequestOf(new)'
    <2>1. op[new.env][new.op] \notin {"planned", "retryable"} /\ Kind[new.env][new.op] # "audit"
      BY <1>2, <1>12 DEF AttemptInv, ActivePcs, EvidenceInv
    <2>2. Kind[new.env][new.op] # "status" => effects[new.env][new.op] = 0
      BY <1>2, <1>12 DEF RequestInv
    <2>3. ASSUME Kind[new.env][new.op] # "status", NEW s \in inflight', For(s, new.env, new.op)
          PROVE  new = s
      BY <1>3, <1>6, <1>12, <2>3 DEF For
    <2>4. ASSUME NEW q \in Publishers, pc'[q] \in {"applying", "sending"}
          PROVE  ~(EnvelopeOf[q] = new.env /\ at[q] = new.op)
      BY <1>2, <1>5, <1>12, <2>4 DEF AttemptInv, ActivePcs, At
    <2> QED
      BY <1>3, <2>1, <2>2, <2>3, <2>4 DEF RequestOf, At, For
  <1>9. \A q \in Publishers : SendingOf(q)'
    BY <1>3, <1>4 DEF RequestInv, SendingOf
  <1>10. \A r \in inflight' : RequestOf(r)'
    BY <1>3, <1>7, <1>8
  <1>11. EffectOnce'
    BY <1>3 DEF RequestInv, EffectOnce
  <1> QED
    BY <1>9, <1>10, <1>11, RequestParts DEF RequestInv, RequestOf, SendingOf

\* A request that commits late was the only one of its operation.
LEMMA LateCommitRequests ==
    ASSUME OrderInv, AttemptInv, EvidenceInv, RequestInv, NEW r \in inflight, LateCommit(r)
    PROVE  RequestInv'
  <1> USE PublicationAssumption
  <1>1. TypeOK /\ AtOp
    BY DEF OrderInv
  <1>2. r.env \in Envelopes /\ r.op \in Ops
    BY <1>1 DEF TypeOK, Requests
  <1>3. op' = op /\ at' = at /\ pc' = pc /\ inflight' = inflight \ {r}
    BY DEF LateCommit, journal, local
  <1>4. CASE UNCHANGED effects
    BY <1>3, <1>4 DEF RequestInv, EffectOnce, At, For
  <1>5. CASE Commit(r.env, r.op)
    <2>1. \A x \in Envelopes : \A j \in Ops :
             effects'[x][j] = IF x = r.env /\ j = r.op THEN effects[x][j] + 1 ELSE effects[x][j]
      BY <1>1, <1>2, <1>5, CommitAt
    <2>2. ASSUME NEW s \in inflight' PROVE RequestOf(s)'
      <3>1. s \in inflight /\ s # r /\ s.env \in Envelopes /\ s.op \in Ops
        BY <1>1, <1>3, <2>2 DEF TypeOK, Requests
      <3>2. Kind[s.env][s.op] # "status" => effects'[s.env][s.op] = 0
        BY <2>1, <3>1 DEF RequestInv, For
      <3> QED
        BY <1>3, <3>1, <3>2 DEF RequestInv, RequestOf, At, For
    <2>3. ASSUME NEW q \in Publishers, pc[q] = "sending", Kind[EnvelopeOf[q]][at[q]] # "status"
          PROVE  effects'[EnvelopeOf[q]][at[q]] = 0
      <3>1. EnvelopeOf[q] \in Envelopes /\ at[q] \in Ops
        BY <1>1, <2>3 DEF AtOp, OpPcs
      <3>2. ~(EnvelopeOf[q] = r.env /\ at[q] = r.op)
        BY <2>3 DEF RequestInv, At
      <3> QED
        BY <2>1, <2>3, <3>1, <3>2 DEF RequestInv
    <2>4. EffectOnce'
      BY <1>2, <2>1 DEF RequestInv, EffectOnce
    <2> QED
      BY <1>3, <2>2, <2>3, <2>4 DEF RequestInv, RequestOf
  <1> QED
    BY <1>4, <1>5 DEF LateCommit

\* No step gives an operation a second request that may commit.
LEMMA RequestStep ==
    ASSUME OrderInv, AttemptInv, EvidenceInv, RequestInv, [Next]_vars
    PROVE  RequestInv'
  <1> USE PublicationAssumption
  <1>1. TypeOK /\ AtOp /\ Behind /\ Forward
    BY JournalStep DEF OrderInv
  <1>2. CASE UNCHANGED <<effects, inflight>>
    <2>1. CASE \E p \in Publishers : Run(p) \/ Faulty(p)
      <3>1. PICK p \in Publishers : Run(p) \/ Faulty(p)
        BY <2>1
      <3>2. \A q \in Publishers : q # p => pc'[q] = pc[q] /\ at'[q] = at[q]
        BY <1>1, <3>1, OthersStay
      <3>3. Leaves(p) \/ Continues(p) \/ Wins(p) \/ GivesUp(p) \/ Records(p)
        BY <1>1, <3>1, OwnStep
      <3>4. ASSUME NEW r \in inflight PROVE RequestOf(r)'
        <4>1. RequestOf(r) /\ r.env \in Envelopes /\ r.op \in Ops
          BY <1>1, <3>4, RequestParts DEF TypeOK, Requests
        <4>2. op'[r.env][r.op] # "planned"
          BY <1>1, <4>1 DEF Forward, RequestOf
        <4>3. ASSUME Kind[r.env][r.op] # "status" PROVE op'[r.env][r.op] # "retryable"
          <5>1. op[r.env][r.op] # "retryable" /\ effects[r.env][r.op] = 0
            BY <4>1, <4>3 DEF RequestOf
          <5>2. CASE op' = op
            BY <5>1, <5>2
          <5>3. CASE Wins(p)
            BY <1>1, <4>1, <5>1, <5>3, SetOpAt DEF Wins
          <5>5. CASE Records(p)
            BY <1>1, <4>1, <5>1, <5>5, SetOpAt DEF Records
          <5>4. CASE GivesUp(p)
            <6>1. ASSUME pc[p] \in {"applying", "sending", "verifying"}
                  PROVE  ~(r.env = EnvelopeOf[p] /\ r.op = at[p])
              BY <4>1, <4>3, <6>1 DEF RequestOf, At, EvidenceInv
            <6> QED
              BY <1>1, <4>1, <5>1, <5>4, <6>1, SetOpAt DEF GivesUp
          <5> QED
            BY <3>3, <5>2, <5>3, <5>4, <5>5 DEF Leaves, Continues
        <4>4. ASSUME Kind[r.env][r.op] # "status", NEW q \in Publishers,
                     pc'[q] \in {"applying", "sending"}
              PROVE  ~(EnvelopeOf[q] = r.env /\ at'[q] = r.op)
          <5>1. CASE q # p
            BY <3>2, <4>1, <4>4, <5>1 DEF RequestOf, At
          <5>2. CASE q = p
            BY <3>3, <4>1, <4>4, <5>2
            DEF Leaves, Continues, Wins, GivesUp, Records, ActivePcs, RequestOf, At
          <5> QED
            BY <5>1, <5>2
        <4> QED
          BY <1>2, <4>1, <4>2, <4>3, <4>4 DEF RequestOf, At, For
      <3>5. ASSUME NEW q \in Publishers, pc'[q] = "sending", Kind[EnvelopeOf[q]][at'[q]] # "status"
            PROVE  effects'[EnvelopeOf[q]][at'[q]] = 0
        <4>1. CASE q # p
          BY <1>2, <3>2, <3>5, <4>1 DEF RequestInv
        <4>2. CASE q = p
          BY <1>1, <1>2, <3>1, <3>5, <4>2, OwnSending DEF RequestInv, Pre
        <4> QED
          BY <4>1, <4>2
      <3>6. EffectOnce'
        BY <1>2 DEF RequestInv, EffectOnce
      <3> QED
        BY <1>2, <3>4, <3>5, <3>6 DEF RequestInv, RequestOf
    <2>2. CASE ~(\E p \in Publishers : Run(p) \/ Faulty(p))
      BY <1>2, <2>2, EnvironmentStays DEF RequestInv, EffectOnce, At, For, journal, local
    <2> QED
      BY <2>1, <2>2
  <1>3. ASSUME NEW k \in Packages, Edit(k) PROVE UNCHANGED <<effects, inflight>>
    BY <1>3 DEF Edit
  <1> QED
    BY <1>1, <1>2, <1>3, RemoteStep, ReplyRequests, ResponseLostRequests, LateCommitRequests

-----------------------------------------------------------------------------
(* Nobody's change is overwritten.                                          *)

\* Whoever changes what the plan manages also moves the lockVersion.
Tracked ==
    \A k \in Packages :
        /\ lock[k] <= lock'[k]
        /\ \A e \in Envelopes : k \in foreign'[e] /\ k \notin foreign[e] => lock[k] < lock'[k]

\* Every change of managed content moves the lockVersion of its package.
LEMMA TrackedStep ==
    ASSUME TypeOK, AtOp, [Next]_vars
    PROVE  Tracked
  <1>1. CASE UNCHANGED <<lock, foreign>>
    BY <1>1 DEF Tracked, TypeOK
  <1>2. ASSUME NEW e \in Envelopes, NEW i \in Ops, Commit(e, i) PROVE Tracked
    <2>1. \A x \in Packages : lock'[x] = IF x = Package[e][i] THEN lock[x] + 1 ELSE lock[x]
      BY <1>2, CommitAt
    <2>2. \A x \in Envelopes : \A k \in Packages :
             k \in foreign'[x] => k \in foreign[x] \/ k = Package[e][i]
      BY <1>2, CommitAt
    <2>3. lock \in [Packages -> Nat]
      BY DEF TypeOK
    <2> QED
      BY <2>1, <2>2, <2>3 DEF Tracked
  <1>3. ASSUME NEW k \in Packages, Edit(k) PROVE Tracked
    <2>1. \A x \in Packages : lock'[x] = IF x = k THEN lock[x] + 1 ELSE lock[x]
      BY <1>3 DEF Edit, TypeOK
    <2>2. \A e \in Envelopes : \A x \in Packages : x \in foreign'[e] => x \in foreign[e] \/ x = k
      BY <1>3 DEF Edit
    <2> QED
      BY <2>1, <2>2 DEF Tracked, TypeOK
  <1> QED
    BY <1>1, <1>2, <1>3, RemoteStep DEF Reply, ResponseLost, LateCommit

\* A fresh request stays fresh: a change elsewhere makes its lockVersion old.
LEMMA FreshStep ==
    ASSUME TypeOK, TypeOK', Tracked, NEW e \in Envelopes, NEW i \in Ops, NEW v \in Nat, Fresh(e, i, v)
    PROVE  Fresh(e, i, v)'
  <1>1. Package[e][i] \in Packages
    BY PublicationAssumption
  <1>2. lock[Package[e][i]] \in Nat /\ lock'[Package[e][i]] \in Nat
    BY <1>1 DEF TypeOK
  <1> QED
    BY <1>1, <1>2 DEF Fresh, Tracked

\* Every request that may commit is fresh.
LEMMA LockStep ==
    ASSUME TypeOK, AtOp, LockInv, [Next]_vars
    PROVE  LockInv'
  <1> USE PublicationAssumption
  <1>1. TypeOK' /\ Tracked
    BY TypeStep, TrackedStep
  <1>2. \A r \in inflight : r.env \in Envelopes /\ r.op \in Ops /\ r.seen \in Nat
    BY DEF TypeOK, Requests
  <1>3. \A r \in inflight : Fresh(r.env, r.op, r.seen)'
    BY <1>1, <1>2, FreshStep DEF LockInv
  <1>4. ASSUME NEW q \in Publishers, pc[q] = "sending" PROVE Fresh(EnvelopeOf[q], at[q], seen[q])
    BY <1>4 DEF LockInv
  <1>5. ASSUME NEW q \in Publishers, pc[q] = "sending", at'[q] = at[q], seen'[q] = seen[q]
        PROVE  Fresh(EnvelopeOf[q], at[q], seen[q])'
    <2>1. EnvelopeOf[q] \in Envelopes /\ at[q] \in Ops /\ seen[q] \in Nat
      BY <1>5 DEF AtOp, OpPcs, TypeOK
    <2>2. PICK v \in Nat : v = seen[q]
      BY <2>1
    <2>3. PICK i \in Ops : i = at[q]
      BY <2>1
    <2>4. Fresh(EnvelopeOf[q], i, v)'
      BY <1>1, <1>4, <1>5, <2>1, <2>2, <2>3, FreshStep
    <2> QED
      BY <1>5, <2>2, <2>3, <2>4 DEF Fresh
  <1>6. ASSUME NEW q \in Publishers, pc'[q] = "sending"
        PROVE  Fresh(EnvelopeOf[q], at[q], seen[q])'
    <2>1. CASE pc[q] = "sending" /\ at'[q] = at[q] /\ seen'[q] = seen[q]
      BY <1>5, <2>1
    <2>2. CASE /\ at[q] \in Ops
               /\ at'[q] = at[q]
               /\ UNCHANGED remote
               /\ Pre(EnvelopeOf[q], at[q])
               /\ Kind[EnvelopeOf[q]][at[q]] # "audit"
               /\ seen'[q] = lock[Package[EnvelopeOf[q]][at[q]]]
      <3>1. lock[Package[EnvelopeOf[q]][at[q]]] \in Nat
        BY <2>2 DEF TypeOK
      <3> QED
        BY <2>2, <3>1 DEF Pre, Undisturbed, Fresh, remote
    <2>3. CASE \E p \in Publishers : Run(p) \/ Faulty(p)
      BY <1>6, <2>1, <2>2, <2>3, OthersStay, OwnSending
    <2>4. CASE ~(\E p \in Publishers : Run(p) \/ Faulty(p))
      BY <1>6, <2>1, <2>4, EnvironmentStays DEF local
    <2> QED
      BY <2>3, <2>4
  <1>7. ASSUME NEW r \in inflight', r \notin inflight PROVE Fresh(r.env, r.op, r.seen)'
    <2>1. PICK p \in Publishers : ResponseLost(p)
      BY <1>7, RemoteStep DEF Reply, LateCommit, Edit
    <2>2. r = [env |-> EnvelopeOf[p], op |-> at[p], seen |-> seen[p]]
      BY <1>7, <2>1 DEF ResponseLost
    <2>3. pc[p] = "sending" /\ at' = at /\ seen' = seen
      BY <2>1 DEF ResponseLost, local
    <2> QED
      BY <1>5, <2>2, <2>3 DEF Fresh
  <1> QED
    BY <1>3, <1>6, <1>7 DEF LockInv

\* No update lands on a package whose managed content others changed.
LEMMA OverwriteStep ==
    ASSUME TypeOK, AtOp, LockInv, [Next]_vars
    PROVE  \A e \in Envelopes : \A i \in Ops :
              Kind[e][i] \in Patches /\ effects'[e][i] # effects[e][i]
                  => Package[e][i] \notin foreign[e]
  <1> SUFFICES ASSUME NEW e \in Envelopes, NEW i \in Ops,
                      Kind[e][i] \in Patches, effects'[e][i] # effects[e][i]
               PROVE  Package[e][i] \notin foreign[e]
    OBVIOUS
  <1>1. ASSUME NEW p \in Publishers, Reply(p), at[p] \in Ops, EnvelopeOf[p] \in Envelopes
        PROVE  Package[e][i] \notin foreign[e]
    <2>1. e = EnvelopeOf[p] /\ i = at[p]
      BY <1>1, CommitAt DEF Reply
    <2> QED
      BY <1>1, <2>1 DEF Reply, Accepts, LockInv, Fresh
  <1>2. ASSUME NEW r \in inflight, LateCommit(r), r.op \in Ops, r.env \in Envelopes
        PROVE  Package[e][i] \notin foreign[e]
    <2>1. Commit(r.env, r.op) /\ Accepts(r.env, r.op, r.seen)
      BY <1>2 DEF LateCommit
    <2>2. e = r.env /\ i = r.op
      BY <1>2, <2>1, CommitAt
    <2> QED
      BY <1>2, <2>1, <2>2 DEF Accepts, LockInv, Fresh
  <1> QED
    BY <1>1, <1>2, RemoteStep DEF ResponseLost, Edit

-----------------------------------------------------------------------------
(* Completion and the safety theorems.                                      *)

\* What a step may do to the rows of the publications.
LEMMA PublicationStep ==
    ASSUME TypeOK, [Next]_vars, NEW e \in Envelopes, publication'[e] # publication[e]
    PROVE  /\ UNCHANGED <<op, effects>>
           /\ \/ publication'[e] = "completed" /\ AppliedOps(e) = Ops
              \/ publication'[e] # "completed" /\ publication[e] # "completed"
           /\ \A x \in Envelopes : x # e => publication'[x] = publication[x]
  <1> USE PublicationAssumption
  <1>1. CASE \E p \in Publishers : Run(p) \/ Faulty(p)
    <2>1. PICK p \in Publishers : Run(p) \/ Faulty(p)
      BY <1>1
    <2>2. Begin(p) \/ Finalize(p)
      BY <2>1 DEF Run, Faulty, Start, Load, Snapshot, Skip, Recover, Check, Intend, Apply, Reply,
                  Conflict, AfterLoss, Verify, Outcome, Refused, ResponseLost, VerifyError, Crash,
                  SessionLost, Fail, journal
    <2>3. CASE Begin(p)
      BY <2>3 DEF Begin, TypeOK, remote
    <2>4. CASE Finalize(p)
      BY <2>4 DEF Finalize, TypeOK, remote
    <2> QED
      BY <2>2, <2>3, <2>4
  <1>2. CASE ~(\E p \in Publishers : Run(p) \/ Faulty(p))
    BY <1>2, EnvironmentStays DEF journal
  <1> QED
    BY <1>1, <1>2

\* A publication is completed over applied operations, and these stay applied.
LEMMA CompletedStep ==
    ASSUME TypeOK, AtOp, Behind, CompletedInv, [Next]_vars
    PROVE  CompletedInv'
  <1> SUFFICES ASSUME NEW e \in Envelopes, NEW i \in Ops, publication'[e] = "completed"
               PROVE  op'[e][i] = "applied"
    BY DEF CompletedInv
  <1>1. CASE publication'[e] = publication[e]
    BY <1>1, JournalStep DEF CompletedInv, Forward
  <1>2. CASE publication'[e] # publication[e]
    <2>1. op' = op /\ AppliedOps(e) = Ops
      BY <1>2, PublicationStep
    <2> QED
      BY <2>1 DEF AppliedOps
  <1> QED
    BY <1>1, <1>2

\* The inductive invariant of the module.
SafetyInv ==
    /\ OrderInv
    /\ AttemptInv
    /\ EvidenceInv
    /\ RequestInv
    /\ LockInv
    /\ CompletedInv

\* The invariant of the module holds throughout.
LEMMA SafetyInvariant == Spec => []SafetyInv
  <1>1. Init => SafetyInv
    <2> SUFFICES ASSUME Init PROVE SafetyInv
      OBVIOUS
    <2>1. TypeOK /\ AtOp
      BY InitTyped
    <2>2. Behind /\ InOrder
      BY PublicationAssumption DEF Init, Behind, InOrder, Ops
    <2>3. AttemptInv /\ LockInv /\ CompletedInv
      BY DEF Init, AttemptInv, LockInv, CompletedInv, ActivePcs
    <2>4. EvidenceInv
      BY DEF Init, EvidenceInv, AppliedHasEffect
    <2>5. RequestInv
      BY DEF Init, RequestInv, EffectOnce
    <2> QED
      BY <2>1, <2>2, <2>3, <2>4, <2>5 DEF SafetyInv, OrderInv
  <1>2. SafetyInv /\ [Next]_vars => SafetyInv'
    <2> SUFFICES ASSUME SafetyInv, [Next]_vars PROVE SafetyInv'
      OBVIOUS
    <2>1. OrderInv'
      BY AtOpStep, TypeStep, OrderStep DEF SafetyInv, OrderInv
    <2>2. AttemptInv' /\ EvidenceInv'
      BY AttemptStep, EvidenceStep DEF SafetyInv, OrderInv
    <2>3. RequestInv'
      BY RequestStep DEF SafetyInv
    <2>4. LockInv' /\ CompletedInv'
      BY LockStep, CompletedStep DEF SafetyInv, OrderInv
    <2> QED
      BY <2>1, <2>2, <2>3, <2>4 DEF SafetyInv
  <1> QED
    BY <1>1, <1>2, PTL DEF Spec

\* What the journal calls applied was committed by OpenProject.
THEOREM AppliedIsCommitted == Spec => []AppliedHasEffect
  BY SafetyInvariant, PTL DEF SafetyInv, EvidenceInv

\* No mutation but an idempotent status change is committed twice, whatever
\* crashes, lost responses, late commits, resumes and lost fence sessions occur.
THEOREM CommittedOnce == Spec => []EffectOnce
  BY SafetyInvariant, PTL DEF SafetyInv, RequestInv

\* A completed publication has all its operations applied and committed.
THEOREM CompletionIsPublication == Spec => []CompletedIsPublished
  <1>1. SafetyInv => CompletedIsPublished
    BY DEF SafetyInv, CompletedInv, EvidenceInv, AppliedHasEffect, CompletedIsPublished
  <1> QED
    BY <1>1, SafetyInvariant, PTL

\* An update never lands on a package whose managed content somebody else
\* changed after the snapshot, however late the request commits.
THEOREM NothingOverwritten == Spec => NoOverwrite
  <1>1. SafetyInv /\ [Next]_vars =>
           [\A e \in Envelopes : \A i \in Ops :
               Kind[e][i] \in Patches /\ effects'[e][i] # effects[e][i]
                   => Package[e][i] \notin foreign[e]]_vars
    BY OverwriteStep DEF SafetyInv, OrderInv
  <1> QED
    BY <1>1, SafetyInvariant, PTL DEF Spec, NoOverwrite

-----------------------------------------------------------------------------
(* Publication implements OrderedPublication.                               *)

\* An attempted operation that is not yet applied is the next one to record.
LEMMA NextToRecord ==
    ASSUME OrderInv, NEW e \in Envelopes, NEW i \in Ops, op[e][i] # "applied",
           \A j \in Ops : j < i => op[e][j] = "applied"
    PROVE  Recorded[e] = 1..(i - 1)
  <1>1. i \in Nat /\ N \in Nat /\ 1..(i - 1) \subseteq Ops
    BY PublicationAssumption DEF Ops
  <1>2. ASSUME NEW j \in Ops PROVE op[e][j] = "applied" <=> j \in 1..(i - 1)
    <2>1. CASE j < i
      BY <1>1, <2>1 DEF Ops
    <2>2. CASE j = i
      BY <1>1, <2>2
    <2>3. CASE j > i
      BY <1>1, <2>3 DEF OrderInv, InOrder, Ops
    <2> QED
      BY <1>1, <2>1, <2>2, <2>3 DEF Ops
  <1> QED
    BY <1>1, <1>2 DEF Recorded, AppliedOps

\* A commit makes one operation visible, or changes nothing one can see.
LEMMA CommitShows ==
    ASSUME SafetyInv, NEW e \in Envelopes, NEW i \in Ops, Commit(e, i), UNCHANGED journal,
           op[e][i] # "planned", Kind[e][i] # "audit"
    PROVE  Ordered!Show(e, i) \/ UNCHANGED <<Shown, Recorded, Finished>>
  <1>1. TypeOK /\ OrderInv
    BY DEF SafetyInv, OrderInv
  <1>2. UNCHANGED <<Recorded, Finished>>
    BY DEF journal, Recorded, Finished, AppliedOps
  <1>3. \A x \in Envelopes : \A j \in Ops :
           effects'[x][j] = IF x = e /\ j = i THEN effects[x][j] + 1 ELSE effects[x][j]
    BY <1>1, CommitAt
  <1>4. \A x \in Envelopes : \A j \in Ops :
           effects'[x][j] > 0 <=> effects[x][j] > 0 \/ (x = e /\ j = i)
    BY <1>1, <1>3 DEF TypeOK
  <1>5. CASE effects[e][i] > 0
    <2>1. Shown' = Shown
      BY <1>4, <1>5 DEF Shown
    <2> QED
      BY <1>2, <2>1
  <1>6. CASE ~(effects[e][i] > 0)
    <2>1. op[e][i] # "applied"
      BY <1>6 DEF SafetyInv, EvidenceInv, AppliedHasEffect
    <2>2. Recorded[e] = 1..(i - 1)
      BY <1>1, <2>1, NextToRecord DEF OrderInv, InOrder
    <2>3. i \notin Shown[e]
      BY <1>6 DEF Shown
    <2>4. Shown' = [Shown EXCEPT ![e] = @ \union {i}]
      <3>1. \A x \in Envelopes : Shown'[x] = IF x = e THEN Shown[x] \union {i} ELSE Shown[x]
        BY <1>4 DEF Shown
      <3> QED
        BY <3>1 DEF Shown
    <2> QED
      BY <1>2, <2>2, <2>3, <2>4 DEF Ordered!Show, Ordered!Upcoming
  <1> QED
    BY <1>5, <1>6

\* Recording an outcome is the abstract step that records the operation.
LEMMA RecordsRecord ==
    ASSUME SafetyInv, NEW p \in Publishers, Records(p)
    PROVE  Ordered!Record(EnvelopeOf[p], at[p])
  <1> DEFINE e == EnvelopeOf[p]
             i == at[p]
  <1>1. TypeOK /\ OrderInv /\ e \in Envelopes /\ i \in Ops
    BY PublicationAssumption DEF SafetyInv, OrderInv, Records
  <1>2. Recorded[e] = 1..(i - 1)
    BY <1>1, NextToRecord DEF Records, OrderInv, Behind
  <1>3. Kind[e][i] # "audit" => i \in Shown[e]
    BY <1>1 DEF SafetyInv, EvidenceInv, Records, Shown
  <1>4. Recorded' = [Recorded EXCEPT ![e] = @ \union {i}]
    <2>1. \A x \in Envelopes : \A j \in Ops :
             op'[x][j] = "applied" <=> op[x][j] = "applied" \/ (x = e /\ j = i)
      BY <1>1, SetOpAt DEF Records
    <2>2. \A x \in Envelopes : Recorded'[x] = IF x = e THEN Recorded[x] \union {i} ELSE Recorded[x]
      BY <1>1, <2>1 DEF Recorded, AppliedOps
    <2> QED
      BY <1>1, <2>2 DEF Recorded
  <1>5. UNCHANGED <<Shown, Finished>>
    BY DEF Records, remote, Shown, Finished
  <1> QED
    BY <1>1, <1>2, <1>3, <1>4, <1>5 DEF Ordered!Record, Ordered!Upcoming

\* Every step is a step of the ordered publication or changes nothing of it.
LEMMA RefinementStep ==
    ASSUME SafetyInv, [Next]_vars
    PROVE  [Ordered!Next]_<<Shown, Recorded, Finished>>
  <1> USE PublicationAssumption
  <1>1. TypeOK /\ AtOp /\ OrderInv
    BY DEF SafetyInv, OrderInv
  <1>a. ASSUME NEW e \in Envelopes, NEW i \in Ops, Ordered!Show(e, i) \/ Ordered!Record(e, i)
        PROVE  Ordered!Next
    BY <1>a DEF Ordered!Next, Ops
  <1>b. UNCHANGED <<op, effects, publication>> => UNCHANGED <<Shown, Recorded, Finished>>
    BY DEF Shown, Recorded, Finished, AppliedOps
  <1>2. ASSUME NEW e \in Envelopes, publication'[e] # publication[e]
        PROVE  Ordered!Next \/ UNCHANGED <<Shown, Recorded, Finished>>
    <2>1. /\ UNCHANGED <<op, effects>>
          /\ \/ publication'[e] = "completed" /\ AppliedOps(e) = Ops
             \/ publication'[e] # "completed" /\ publication[e] # "completed"
          /\ \A x \in Envelopes : x # e => publication'[x] = publication[x]
      BY <1>1, <1>2, PublicationStep
    <2>2. UNCHANGED <<Shown, Recorded>>
      BY <2>1 DEF Shown, Recorded, AppliedOps
    <2>3. CASE publication'[e] = "completed" /\ AppliedOps(e) = Ops
      <3>1. Finished' = Finished \union {e}
        BY <2>1, <2>3 DEF Finished
      <3>2. Recorded[e] = 1..N
        BY <2>3 DEF Recorded, Ops
      <3> QED
        BY <2>2, <3>1, <3>2 DEF Ordered!Next, Ordered!Complete
    <2>4. CASE publication'[e] # "completed" /\ publication[e] # "completed"
      BY <2>1, <2>2, <2>4 DEF Finished
    <2> QED
      BY <2>1, <2>3, <2>4
  <1>3. ASSUME \A e \in Envelopes : publication'[e] = publication[e]
        PROVE  Ordered!Next \/ UNCHANGED <<Shown, Recorded, Finished>>
    <2>1. Finished' = Finished
      BY <1>3 DEF Finished
    <2>2. ASSUME NEW p \in Publishers, Reply(p), at[p] \in Ops, EnvelopeOf[p] \in Envelopes
          PROVE  Ordered!Next \/ UNCHANGED <<Shown, Recorded, Finished>>
      <3>1. op[EnvelopeOf[p]][at[p]] # "planned" /\ Kind[EnvelopeOf[p]][at[p]] # "audit"
        BY <2>2 DEF Reply, SafetyInv, AttemptInv, ActivePcs, EvidenceInv
      <3> QED
        BY <1>a, <2>2, <3>1, CommitShows DEF Reply
    <2>3. ASSUME NEW r \in inflight, LateCommit(r), r.op \in Ops, r.env \in Envelopes
          PROVE  Ordered!Next \/ UNCHANGED <<Shown, Recorded, Finished>>
      <3>1. op[r.env][r.op] # "planned" /\ Kind[r.env][r.op] # "audit"
        BY <2>3 DEF SafetyInv, RequestInv
      <3>2. CASE Commit(r.env, r.op)
        BY <1>a, <2>3, <3>1, <3>2, CommitShows DEF LateCommit
      <3>3. CASE UNCHANGED effects
        BY <1>b, <2>3, <3>3 DEF LateCommit, journal
      <3> QED
        BY <2>3, <3>2, <3>3 DEF LateCommit
    <2>4. ASSUME UNCHANGED effects PROVE Ordered!Next \/ UNCHANGED <<Shown, Recorded, Finished>>
      <3>1. Shown' = Shown
        BY <2>4 DEF Shown
      <3>2. CASE op' = op
        BY <2>1, <3>1, <3>2 DEF Recorded, AppliedOps
      <3>3. ASSUME NEW p \in Publishers, Run(p) \/ Faulty(p)
            PROVE  Ordered!Next \/ UNCHANGED <<Shown, Recorded, Finished>>
        <4>1. CASE Records(p)
          <5>1. Ordered!Record(EnvelopeOf[p], at[p])
            BY <4>1, RecordsRecord
          <5> QED
            BY <1>a, <4>1, <5>1 DEF Records
        <4>2. CASE Wins(p) \/ GivesUp(p)
          <5>1. \A x \in Envelopes : \A j \in Ops : op'[x][j] = "applied" <=> op[x][j] = "applied"
            <6>1. ASSUME NEW s, s # "applied", at[p] \in Ops,
                         SetOp(EnvelopeOf[p], at[p], s), op[EnvelopeOf[p]][at[p]] # "applied"
                  PROVE  \A x \in Envelopes : \A j \in Ops :
                            op'[x][j] = "applied" <=> op[x][j] = "applied"
              BY <1>1, <6>1, SetOpAt
            <6> QED
              BY <4>2, <6>1 DEF Wins, GivesUp
          <5>2. Recorded' = Recorded
            BY <5>1 DEF Recorded, AppliedOps
          <5> QED
            BY <2>1, <3>1, <5>2
        <4> QED
          BY <1>1, <3>2, <3>3, <4>1, <4>2, OwnStep DEF Leaves, Continues
      <3> QED
        BY <3>2, <3>3, EnvironmentStays DEF journal
    <2> QED
      BY <1>1, <2>2, <2>3, <2>4, RemoteStep DEF ResponseLost, Edit
  <1> QED
    BY <1>2, <1>3

\* The journal, the publishers and OpenProject together implement the ordered
\* publication: effects appear one by one in plan order, none appears before its
\* predecessor is recorded and none is recorded before it appeared, whatever
\* publishers crash, responses get lost and requests commit late.
THEOREM PublicationImplementsOrdered == Spec => ImplementsOrdered
  <1>1. Init => Ordered!Init
    <2> SUFFICES ASSUME Init PROVE Ordered!Init
      OBVIOUS
    <2>1. Shown = [e \in Envelopes |-> {}]
      BY DEF Init, Shown
    <2>2. Recorded = [e \in Envelopes |-> {}]
      BY DEF Init, Recorded, AppliedOps
    <2>3. Finished = {}
      BY DEF Init, Finished
    <2> QED
      BY <2>1, <2>2, <2>3 DEF Ordered!Init
  <1>2. SafetyInv /\ [Next]_vars => [Ordered!Next]_(Ordered!vars)
    BY RefinementStep DEF Ordered!vars
  <1> QED
    BY <1>1, <1>2, SafetyInvariant, PTL DEF Spec, ImplementsOrdered, Ordered!Spec
=============================================================================
