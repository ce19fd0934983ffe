------------------------- MODULE DeliveryLeaseProofs -------------------------
(***************************************************************************)
(* Safety of DeliveryLease for any set of deliveries, flows and retries.   *)
(*                                                                         *)
(* The argument rests on the fence.  A token is drawn once, so two flows    *)
(* never share one; the fence of a delivery is one token; hence at most one *)
(* flow of a delivery is between taking and releasing a fence it still      *)
(* holds, and only that flow can write the row.                             *)
(***************************************************************************)
EXTENDS DeliveryLease, TLAPS

\* No token is larger than the number of tokens drawn.
TokensIssued ==
    /\ \A f \in Flows : token[f] <= issued
    /\ \A d \in Deliveries : fence[d] <= issued

\* No two flows hold the same token.
TokenUnique ==
    \A f, g \in Flows : token[f] = token[g] /\ token[f] # NoToken => f = g

\* A flow that took the fence still holds it, unless its session was lost.
FenceHeld ==
    \A f \in Flows :
        pc[f] \in FencedPcs =>
            /\ token[f] # NoToken
            /\ fence[DeliveryOf[f]] = token[f] \/ token[f] \in lost[DeliveryOf[f]]

\* The inductive invariant behind the safety theorems.
FenceInv == TypeOK /\ TokensIssued /\ TokenUnique /\ FenceHeld

\* A flow that is about to complete a delivery has finished its effect.
CompletingApplied ==
    \A f \in Flows : pc[f] = "completing" => applied[DeliveryOf[f]] > 0

\* Without faults no session was lost, no running effect has a dead heartbeat,
\* and an effect that finished is either recorded or about to be.
FaultFree ==
    faults = 0 =>
        /\ \A d \in Deliveries : lost[d] = {}
        /\ \A f \in Flows : pc[f] = "effect" => beat[f] # "failed"
        /\ \A d \in Deliveries :
              applied[d] > 0 =>
                  \/ row[d].state = "completed"
                  \/ \E f \in Flows : DeliveryOf[f] = d /\ pc[f] = "completing"

\* What is known of finished effects.
EffectInv == CompletingApplied /\ CompletedAfterEffect /\ FaultFree /\ EffectOnce

\* The inductive invariant of the module.
SafetyInv ==
    /\ FenceInv
    /\ OwnerKeepsRow
    /\ NoFenceLeak
    /\ EffectInv

-----------------------------------------------------------------------------
(* What the shared parts of the actions leave behind.                       *)

\* A script that ends, well or badly, leaves flows at known places.
LEMMA JobFailsType ==
    ASSUME TypeOK, NEW f \in Flows, JobFails(f)
    PROVE  /\ pc' \in [Flows -> Pcs]
           /\ script' \in [Flows -> Scripts]
           /\ tries' \in [Flows -> Nat]
           /\ pc' = [pc EXCEPT ![f] = pc'[f]]
           /\ pc'[f] \in {"queued", "failed"}
  <1>1. CASE tries[f] > 0
    BY <1>1 DEF JobFails, TypeOK, Goto, Pcs, EndPcs
  <1>2. CASE tries[f] = 0
    BY <1>2 DEF JobFails, TypeOK, Goto, Pcs, EndPcs, Scripts
  <1> QED
    BY <1>1, <1>2 DEF TypeOK

\* So does a claim that was not acquired.
LEMMA NotAcquiredType ==
    ASSUME TypeOK, NEW f \in Flows, NotAcquired(f)
    PROVE  /\ pc' \in [Flows -> Pcs]
           /\ script' \in [Flows -> Scripts]
           /\ tries' \in [Flows -> Nat]
           /\ pc' = [pc EXCEPT ![f] = pc'[f]]
           /\ pc'[f] \in {"queued", "failed", "returned"}
  <1>1. CASE JobFails(f)
    BY <1>1, JobFailsType
  <1>2. CASE Goto(f, "returned") /\ UNCHANGED <<script, tries>>
    BY <1>2 DEF TypeOK, Goto, Pcs, EndPcs
  <1> QED
    BY <1>1, <1>2 DEF NotAcquired

\* Releasing a fence touches only the fence the flow holds.
LEMMA ReleaseFenceType ==
    ASSUME TypeOK, NEW f \in Flows, ReleaseFence(f)
    PROVE  /\ fence' \in [Deliveries -> Nat]
           /\ \A d \in Deliveries :
                 /\ fence'[d] = fence[d] \/ fence'[d] = NoToken
                 /\ fence[d] # token[f] => fence'[d] = fence[d]
           /\ fence'[DeliveryOf[f]] # token[f] \/ token[f] = NoToken
  BY DeliveryLeaseAssumption DEF TypeOK, ReleaseFence, NoToken

\* Every row an action writes is a row.
LEMMA RowsType ==
    ASSUME TypeOK, NEW f \in Flows
    PROVE  /\ LeasedTo(token[f]) \in Row
           /\ Final("completed") \in Row
           /\ Final("dead_letter") \in Row
           /\ FailedRow(f) \in Row
           /\ FinalizedRow(f) \in Row
           /\ \A r \in Row : SetRow(f, r) => row' \in [Deliveries -> Row]
  <1>1. LeasedTo(token[f]) \in Row /\ Final("completed") \in Row /\ Final("dead_letter") \in Row
    BY DEF TypeOK, Row, LeasedTo, Final, NoToken
  <1>2. row[DeliveryOf[f]] \in Row
    BY DeliveryLeaseAssumption DEF TypeOK
  <1>3. FailedRow(f) \in Row
    BY <1>1, <1>2 DEF FailedRow, Row
  <1>4. FinalizedRow(f) \in Row
    BY <1>1, <1>3 DEF FinalizedRow
  <1>5. \A r \in Row : SetRow(f, r) => row' \in [Deliveries -> Row]
    BY DeliveryLeaseAssumption DEF SetRow, TypeOK
  <1> QED
    BY <1>1, <1>3, <1>4, <1>5

-----------------------------------------------------------------------------
(* Type correctness.                                                        *)

\* Type correctness is inductive by itself.
LEMMA TypeStep == TypeOK /\ [Next]_vars => TypeOK'
  <1> SUFFICES ASSUME TypeOK, [Next]_vars PROVE TypeOK'
    OBVIOUS
  <1> USE DeliveryLeaseAssumption
  <1>1. ASSUME NEW f \in Flows, AcquireFence(f) PROVE TypeOK'
    BY <1>1 DEF AcquireFence, TypeOK, Goto, Pcs, RunningPcs, FencedPcs
  <1>2. ASSUME NEW f \in Flows, FenceRefused(f) PROVE TypeOK'
    <2>1. CASE Goto(f, "reading") /\ UNCHANGED <<script, tries>>
      BY <1>2, <2>1 DEF FenceRefused, TypeOK, Goto, Pcs, RunningPcs
    <2>2. CASE JobFails(f)
      BY <1>2, <2>2, JobFailsType DEF FenceRefused, TypeOK
    <2> QED
      BY <1>2, <2>1, <2>2 DEF FenceRefused
  <1>3. ASSUME NEW f \in Flows, ReadExisting(f) PROVE TypeOK'
    BY <1>3, NotAcquiredType DEF ReadExisting, TypeOK
  <1>4. ASSUME NEW f \in Flows, Claim(f) PROVE TypeOK'
    <2>1. row' \in [Deliveries -> Row]
      BY <1>4, RowsType DEF Claim
    <2> QED
      BY <1>4, <2>1 DEF Claim, TypeOK, Goto, Pcs, RunningPcs, FencedPcs
  <1>5. ASSUME NEW f \in Flows, ClaimRefused(f) PROVE TypeOK'
    BY <1>5, NotAcquiredType, ReleaseFenceType DEF ClaimRefused, TypeOK
  <1>6. ASSUME NEW f \in Flows, EffectSucceeds(f) \/ EffectFails(f) \/ HeartbeatFails(f)
        PROVE TypeOK'
    BY <1>6 DEF EffectSucceeds, EffectFails, HeartbeatFails, TypeOK, Goto, Pcs, RunningPcs, FencedPcs
  <1>7. ASSUME NEW f \in Flows, Complete(f) PROVE TypeOK'
    <2>1. row' \in [Deliveries -> Row]
      BY <1>7, RowsType DEF Complete, TypeOK
    <2> QED
      BY <1>7, <2>1, ReleaseFenceType DEF Complete, TypeOK, Goto, Pcs, RunningPcs, CleanupPcs
  <1>8. ASSUME NEW f \in Flows, Retry(f) PROVE TypeOK'
    <2>1. row' \in [Deliveries -> Row]
      BY <1>8, RowsType DEF Retry, TypeOK
    <2> QED
      BY <1>8, <2>1, ReleaseFenceType DEF Retry, TypeOK, Goto, Pcs, RunningPcs, CleanupPcs
  <1>9. ASSUME NEW f \in Flows, DeadLetter(f) PROVE TypeOK'
    <2>1. row' \in [Deliveries -> Row]
      BY <1>9, RowsType DEF DeadLetter, TypeOK
    <2> QED
      BY <1>9, <2>1, ReleaseFenceType DEF DeadLetter, TypeOK, Goto, Pcs, EndPcs
  <1>10. ASSUME NEW f \in Flows, Cleanup(f) PROVE TypeOK'
    <2>1. CASE JobFails(f)
      BY <1>10, <2>1, JobFailsType, ReleaseFenceType DEF Cleanup, TypeOK
    <2>2. CASE Goto(f, "returned") /\ UNCHANGED <<script, tries>>
      BY <1>10, <2>2, ReleaseFenceType DEF Cleanup, TypeOK, Goto, Pcs, EndPcs
    <2> QED
      BY <1>10, <2>1, <2>2 DEF Cleanup
  <1>11. ASSUME NEW f \in Flows, Renew(f) \/ RenewError(f) PROVE TypeOK'
    <2>0. row[DeliveryOf[f]] \in Row
      BY DEF TypeOK
    <2>1. [row[DeliveryOf[f]] EXCEPT !.lease = "live"] \in Row
      BY <2>0 DEF Row
    <2>2. CASE row' = [row EXCEPT ![DeliveryOf[f]].lease = "live"]
      <3>1. row' = [row EXCEPT ![DeliveryOf[f]] = [@ EXCEPT !.lease = "live"]]
        BY <2>2
      <3> QED
        BY <2>1, <3>1, <1>11 DEF Renew, RenewError, Fault, TypeOK
    <2> QED
      BY <1>11, <2>2 DEF Renew, RenewError, Fault, TypeOK
  <1>12. ASSUME NEW f \in Flows, ClaimCancelled(f) PROVE TypeOK'
    <2>1. row' \in [Deliveries -> Row]
      BY <1>12, RowsType DEF ClaimCancelled
    <2> QED
      BY <1>12, <2>1 DEF ClaimCancelled, TypeOK, Goto, Pcs, RunningPcs, FencedPcs, Fault
  <1>13. ASSUME NEW f \in Flows, ClaimError(f) PROVE TypeOK'
    <2>1. row' \in [Deliveries -> Row]
      BY <1>13, RowsType DEF ClaimError, TypeOK
    <2>2. fence' \in [Deliveries -> Nat]
      BY <1>13, ReleaseFenceType DEF ClaimError, TypeOK
    <2> QED
      BY <1>13, <2>1, <2>2 DEF ClaimError, TypeOK, Goto, Pcs, RunningPcs, CleanupPcs, Fault
  <1>14. ASSUME NEW f \in Flows, FinalizeError(f) PROVE TypeOK'
    <2>1. row' \in [Deliveries -> Row]
      BY <1>14, RowsType DEF FinalizeError, TypeOK
    <2> QED
      BY <1>14, <2>1, ReleaseFenceType
      DEF FinalizeError, TypeOK, Goto, Pcs, RunningPcs, CleanupPcs, EndPcs, Fault
  <1>15. ASSUME NEW f \in Flows, Crash(f) PROVE TypeOK'
    BY <1>15, JobFailsType, ReleaseFenceType DEF Crash, TypeOK, Fault
  <1>16. ASSUME NEW f \in Flows, FenceSessionLost(f) PROVE TypeOK'
    BY <1>16 DEF FenceSessionLost, TypeOK, Fault, NoToken
  <1>17. ASSUME NEW d \in Deliveries, LeaseExpires(d) PROVE TypeOK'
    BY <1>17 DEF LeaseExpires, TypeOK, Row
  <1>18. CASE UNCHANGED vars
    BY <1>18 DEF vars, TypeOK
  <1> QED
    BY <1>1, <1>2, <1>3, <1>4, <1>5, <1>6, <1>7, <1>8, <1>9, <1>10, <1>11, <1>12,
       <1>13, <1>14, <1>15, <1>16, <1>17, <1>18 DEF Next, Work, Faulty, AllEnded

\* Every reachable state of the delivery lease is well typed.
THEOREM TypeCorrect == Spec => []TypeOK
  <1>1. Init => TypeOK
    BY DeliveryLeaseAssumption
    DEF Init, TypeOK, Absent, Row, NoToken, Pcs, Scripts
  <1> QED
    BY <1>1, TypeStep, PTL DEF Spec

-----------------------------------------------------------------------------
(* The fence.                                                               *)

\* A step of one flow that draws no token keeps the fence invariant when it
\* either leaves the fence alone and does not enter the fenced section, or
\* releases the fence and leaves the section.
LEMMA FenceFrame ==
    ASSUME FenceInv, NEW f \in Flows, TypeOK',
           UNCHANGED <<issued, token, lost>>,
           pc' = [pc EXCEPT ![f] = pc'[f]],
           \/ UNCHANGED fence /\ (pc'[f] \in FencedPcs => pc[f] \in FencedPcs)
           \/ ReleaseFence(f) /\ pc'[f] \notin FencedPcs
    PROVE  FenceInv'
  <1> USE DeliveryLeaseAssumption
  <1>1. CASE UNCHANGED fence /\ (pc'[f] \in FencedPcs => pc[f] \in FencedPcs)
    BY <1>1 DEF FenceInv, TypeOK, TokensIssued, TokenUnique, FenceHeld
  <1>2. CASE ReleaseFence(f) /\ pc'[f] \notin FencedPcs
    <2>1. TokensIssued'
      BY <1>2, ReleaseFenceType DEF FenceInv, TokensIssued, TypeOK, NoToken
    <2>2. TokenUnique'
      BY DEF FenceInv, TokenUnique
    <2>3. ASSUME NEW g \in Flows, pc'[g] \in FencedPcs
          PROVE  /\ token'[g] # NoToken
                 /\ fence'[DeliveryOf[g]] = token'[g] \/ token'[g] \in lost'[DeliveryOf[g]]
      <3>1. g # f /\ pc[g] \in FencedPcs
        BY <1>2, <2>3 DEF FenceInv, TypeOK
      <3>2. token[g] # token[f]
        BY <3>1 DEF FenceInv, TokenUnique, FenceHeld
      <3> QED
        BY <1>2, <3>1, <3>2, ReleaseFenceType DEF FenceInv, FenceHeld
    <2> QED
      BY <2>1, <2>2, <2>3 DEF FenceInv, FenceHeld
  <1> QED
    BY <1>1, <1>2

\* The fence invariant is inductive.
LEMMA FenceStep == FenceInv /\ [Next]_vars => FenceInv'
  <1> SUFFICES ASSUME FenceInv, [Next]_vars PROVE FenceInv'
    OBVIOUS
  <1> USE DeliveryLeaseAssumption
  <1>t. TypeOK /\ TypeOK'
    BY TypeStep DEF FenceInv
  <1>1. ASSUME NEW f \in Flows, AcquireFence(f) PROVE FenceInv'
    <2>1. TokensIssued'
      BY <1>1, <1>t DEF AcquireFence, FenceInv, TypeOK, TokensIssued
    <2>2. TokenUnique'
      BY <1>1, <1>t DEF AcquireFence, FenceInv, TypeOK, TokensIssued, TokenUnique
    <2>3. FenceHeld'
      BY <1>1, <1>t DEF AcquireFence, FenceInv, TypeOK, FenceHeld, Goto, NoToken
    <2> QED
      BY <1>t, <2>1, <2>2, <2>3 DEF FenceInv
  <1>2. ASSUME NEW f \in Flows, FenceRefused(f) PROVE FenceInv'
    <2>1. pc' = [pc EXCEPT ![f] = pc'[f]] /\ pc'[f] \notin FencedPcs
      BY <1>2, <1>t, JobFailsType DEF FenceRefused, Goto, FencedPcs, TypeOK
    <2> QED
      BY <1>2, <1>t, <2>1, FenceFrame DEF FenceRefused
  <1>3. ASSUME NEW f \in Flows, ReadExisting(f) PROVE FenceInv'
    <2>1. pc' = [pc EXCEPT ![f] = pc'[f]] /\ pc'[f] \notin FencedPcs
      BY <1>3, <1>t, NotAcquiredType DEF ReadExisting, FencedPcs
    <2> QED
      BY <1>3, <1>t, <2>1, FenceFrame DEF ReadExisting
  <1>4. ASSUME NEW f \in Flows, Claim(f) \/ ClaimCancelled(f) PROVE FenceInv'
    <2>1. pc' = [pc EXCEPT ![f] = pc'[f]] /\ pc[f] \in FencedPcs
      BY <1>4, <1>t DEF Claim, ClaimCancelled, Goto, FencedPcs, TypeOK
    <2> QED
      BY <1>4, <1>t, <2>1, FenceFrame DEF Claim, ClaimCancelled
  <1>5. ASSUME NEW f \in Flows, ClaimRefused(f) PROVE FenceInv'
    <2>1. pc' = [pc EXCEPT ![f] = pc'[f]] /\ pc'[f] \notin FencedPcs
      BY <1>5, <1>t, NotAcquiredType DEF ClaimRefused, FencedPcs
    <2> QED
      BY <1>5, <1>t, <2>1, FenceFrame DEF ClaimRefused
  <1>6. ASSUME NEW f \in Flows, EffectSucceeds(f) \/ EffectFails(f) \/ HeartbeatFails(f)
        PROVE FenceInv'
    <2>1. pc' = [pc EXCEPT ![f] = pc'[f]] /\ pc[f] \in FencedPcs
      BY <1>6, <1>t DEF EffectSucceeds, EffectFails, HeartbeatFails, Goto, FencedPcs, TypeOK
    <2> QED
      BY <1>6, <1>t, <2>1, FenceFrame DEF EffectSucceeds, EffectFails, HeartbeatFails
  <1>7. ASSUME NEW f \in Flows, Complete(f) \/ Retry(f) \/ DeadLetter(f) \/ FinalizeError(f)
        PROVE FenceInv'
    <2>1. pc' = [pc EXCEPT ![f] = pc'[f]] /\ pc'[f] \notin FencedPcs
      BY <1>7, <1>t DEF Complete, Retry, DeadLetter, FinalizeError, Goto, FencedPcs, TypeOK
    <2>2. ReleaseFence(f) /\ UNCHANGED <<issued, token, lost>>
      BY <1>7 DEF Complete, Retry, DeadLetter, FinalizeError
    <2> QED
      BY <1>t, <2>1, <2>2, FenceFrame
  <1>8. ASSUME NEW f \in Flows, Cleanup(f) \/ Crash(f) PROVE FenceInv'
    <2>1. pc' = [pc EXCEPT ![f] = pc'[f]] /\ pc'[f] \notin FencedPcs
      BY <1>8, <1>t, JobFailsType DEF Cleanup, Crash, Goto, FencedPcs, TypeOK
    <2> QED
      BY <1>8, <1>t, <2>1, FenceFrame DEF Cleanup, Crash
  <1>9. ASSUME NEW f \in Flows, ClaimError(f) PROVE FenceInv'
    <2>1. pc' = [pc EXCEPT ![f] = pc'[f]] /\ pc'[f] \notin FencedPcs
      BY <1>9, <1>t DEF ClaimError, Goto, FencedPcs, TypeOK
    <2>2. UNCHANGED <<issued, token, lost>> /\ (UNCHANGED fence \/ ReleaseFence(f))
      BY <1>9 DEF ClaimError
    <2> QED
      BY <1>t, <2>1, <2>2, FenceFrame
  <1>10. ASSUME NEW f \in Flows, FenceSessionLost(f) PROVE FenceInv'
    <2>1. TokensIssued' /\ TokenUnique'
      BY <1>10, <1>t DEF FenceSessionLost, FenceInv, TypeOK, TokensIssued, TokenUnique, NoToken
    <2>2. FenceHeld'
      BY <1>10, <1>t DEF FenceSessionLost, FenceInv, TypeOK, TokenUnique, FenceHeld
    <2> QED
      BY <1>t, <2>1, <2>2 DEF FenceInv
  <1>11. CASE UNCHANGED <<issued, token, lost, fence, pc>>
    BY <1>t, <1>11 DEF FenceInv, TokensIssued, TokenUnique, FenceHeld
  <1> QED
    BY <1>1, <1>2, <1>3, <1>4, <1>5, <1>6, <1>7, <1>8, <1>9, <1>10, <1>11
    DEF Next, Work, Faulty, AllEnded, Renew, RenewError, LeaseExpires, vars

\* At most one flow of a delivery is in the fenced section with its session
\* intact.
LEMMA SoleHolder ==
    ASSUME FenceInv, NEW f \in Flows, NEW g \in Flows, DeliveryOf[f] = DeliveryOf[g],
           pc[f] \in FencedPcs, pc[g] \in FencedPcs,
           token[f] \notin lost[DeliveryOf[f]], token[g] \notin lost[DeliveryOf[g]]
    PROVE  f = g
  BY DEF FenceInv, FenceHeld, TokenUnique

\* Duplicate deliveries, retries, the failure module and operator recovery never
\* overlap in the fenced section unless a fence session was dropped.
THEOREM Exclusive == Spec => []EffectExclusive
  <1>1. Init => FenceInv
    BY DeliveryLeaseAssumption
    DEF Init, FenceInv, TypeOK, Absent, Row, NoToken, Pcs, Scripts, TokensIssued,
        TokenUnique, FenceHeld, FencedPcs
  <1>2. FenceInv => EffectExclusive
    BY SoleHolder DEF EffectExclusive
  <1> QED
    BY <1>1, <1>2, FenceStep, PTL DEF Spec

-----------------------------------------------------------------------------
(* The row and its owner.                                                   *)

\* A step of a flow that leaves the rows alone keeps every owner's row.
LEMMA OwnerFrame ==
    ASSUME FenceInv, OwnerKeepsRow, NEW f \in Flows,
           UNCHANGED <<row, lost>>,
           token' = token \/ (token' = [token EXCEPT ![f] = token'[f]] /\ pc'[f] \notin OwningPcs),
           pc' = [pc EXCEPT ![f] = pc'[f]],
           pc'[f] \in OwningPcs => pc[f] \in OwningPcs
    PROVE  OwnerKeepsRow'
  BY DEF FenceInv, TypeOK, OwnerKeepsRow, Owns

\* A flow in the fenced section may write the row: nobody else owns it.
LEMMA WriterFrame ==
    ASSUME FenceInv, OwnerKeepsRow, NEW f \in Flows, pc[f] \in FencedPcs,
           UNCHANGED <<token, lost>>,
           row' = [row EXCEPT ![DeliveryOf[f]] = row'[DeliveryOf[f]]],
           pc' = [pc EXCEPT ![f] = pc'[f]],
           pc'[f] \in OwningPcs => Owns(f)'
    PROVE  OwnerKeepsRow'
  <1> SUFFICES ASSUME NEW g \in Flows, pc'[g] \in OwningPcs, lost'[DeliveryOf[g]] = {}
               PROVE  Owns(g)'
    BY DEF OwnerKeepsRow, Owns
  <1>1. CASE g = f
    BY <1>1
  <1>2. CASE g # f /\ DeliveryOf[g] = DeliveryOf[f]
    <2>1. pc[g] \in FencedPcs
      BY <1>2 DEF FenceInv, TypeOK, OwningPcs
    <2> QED
      BY <1>2, <2>1, SoleHolder
  <1>3. CASE g # f /\ DeliveryOf[g] # DeliveryOf[f]
    <2>1. pc[g] \in OwningPcs /\ row'[DeliveryOf[g]] = row[DeliveryOf[g]]
      BY <1>3, DeliveryLeaseAssumption DEF FenceInv, TypeOK
    <2> QED
      BY <2>1 DEF OwnerKeepsRow, Owns
  <1> QED
    BY <1>1, <1>2, <1>3

\* Writing only a lease leaves the state and the token of every row.
LEMMA LeaseOnly ==
    ASSUME TypeOK, NEW d \in Deliveries, NEW l, row' = [row EXCEPT ![d].lease = l]
    PROVE  \A e \in Deliveries : row'[e].state = row[e].state /\ row'[e].token = row[e].token
  <1>1. \A e \in Deliveries : row[e] \in Row
    BY DEF TypeOK
  <1>2. row'[d] = [row[d] EXCEPT !.lease = l]
    BY DEF TypeOK
  <1>3. \A e \in Deliveries : e # d => row'[e] = row[e]
    BY DEF TypeOK
  <1> QED
    BY <1>1, <1>2, <1>3 DEF Row

\* The owner keeps its row, step by step.
LEMMA OwnerStep == FenceInv /\ OwnerKeepsRow /\ [Next]_vars => OwnerKeepsRow'
  <1> SUFFICES ASSUME FenceInv, OwnerKeepsRow, [Next]_vars PROVE OwnerKeepsRow'
    OBVIOUS
  <1> USE DeliveryLeaseAssumption
  <1>t. TypeOK /\ TypeOK'
    BY TypeStep DEF FenceInv
  <1>1. ASSUME NEW f \in Flows, AcquireFence(f) PROVE OwnerKeepsRow'
    <2>1. /\ pc' = [pc EXCEPT ![f] = pc'[f]] /\ pc'[f] \notin OwningPcs
          /\ token' = [token EXCEPT ![f] = token'[f]]
      BY <1>1, <1>t DEF AcquireFence, Goto, OwningPcs, TypeOK
    <2> QED
      BY <1>1, <2>1, OwnerFrame DEF AcquireFence
  <1>2. ASSUME NEW f \in Flows,
               FenceRefused(f) \/ ReadExisting(f) \/ ClaimRefused(f) \/ Cleanup(f) \/ Crash(f)
        PROVE OwnerKeepsRow'
    <2>1. pc' = [pc EXCEPT ![f] = pc'[f]] /\ pc'[f] \notin OwningPcs
      BY <1>2, <1>t, JobFailsType, NotAcquiredType
      DEF FenceRefused, ReadExisting, ClaimRefused, Cleanup, Crash, Goto, OwningPcs, FencedPcs, TypeOK
    <2>2. UNCHANGED <<row, token, lost>>
      BY <1>2 DEF FenceRefused, ReadExisting, ClaimRefused, Cleanup, Crash
    <2> QED
      BY <2>1, <2>2, OwnerFrame
  <1>3. ASSUME NEW f \in Flows, Claim(f) \/ ClaimCancelled(f) PROVE OwnerKeepsRow'
    <2>1. pc' = [pc EXCEPT ![f] = pc'[f]] /\ pc[f] \in FencedPcs
      BY <1>3, <1>t DEF Claim, ClaimCancelled, Goto, FencedPcs, TypeOK
    <2>2. row' = [row EXCEPT ![DeliveryOf[f]] = row'[DeliveryOf[f]]] /\ Owns(f)'
      BY <1>3, <1>t DEF Claim, ClaimCancelled, SetRow, Owns, LeasedTo, TypeOK
    <2>3. UNCHANGED <<token, lost>>
      BY <1>3 DEF Claim, ClaimCancelled
    <2> QED
      BY <2>1, <2>2, <2>3, WriterFrame
  <1>4. ASSUME NEW f \in Flows, ClaimError(f) PROVE OwnerKeepsRow'
    <2>1. pc' = [pc EXCEPT ![f] = pc'[f]] /\ pc[f] \in FencedPcs /\ pc'[f] \notin OwningPcs
      BY <1>4, <1>t DEF ClaimError, Goto, FencedPcs, OwningPcs, TypeOK
    <2>2. row' = [row EXCEPT ![DeliveryOf[f]] = row'[DeliveryOf[f]]]
      BY <1>4, <1>t DEF ClaimError, SetRow, TypeOK
    <2>3. UNCHANGED <<token, lost>>
      BY <1>4 DEF ClaimError
    <2> QED
      BY <2>1, <2>2, <2>3, WriterFrame
  <1>5. ASSUME NEW f \in Flows, EffectSucceeds(f) \/ EffectFails(f) \/ HeartbeatFails(f)
        PROVE OwnerKeepsRow'
    <2>1. pc' = [pc EXCEPT ![f] = pc'[f]] /\ pc[f] \in OwningPcs
      BY <1>5, <1>t
      DEF EffectSucceeds, EffectFails, HeartbeatFails, Goto, OwningPcs, FencedPcs, TypeOK
    <2>2. UNCHANGED <<row, token, lost>>
      BY <1>5 DEF EffectSucceeds, EffectFails, HeartbeatFails
    <2> QED
      BY <2>1, <2>2, OwnerFrame
  <1>6. ASSUME NEW f \in Flows, Complete(f) \/ Retry(f) \/ DeadLetter(f) \/ FinalizeError(f)
        PROVE OwnerKeepsRow'
    <2>1. pc' = [pc EXCEPT ![f] = pc'[f]] /\ pc[f] \in FencedPcs /\ pc'[f] \notin OwningPcs
      BY <1>6, <1>t
      DEF Complete, Retry, DeadLetter, FinalizeError, Goto, FencedPcs, OwningPcs, TypeOK
    <2>2. row' = [row EXCEPT ![DeliveryOf[f]] = row'[DeliveryOf[f]]]
      BY <1>6, <1>t DEF Complete, Retry, DeadLetter, FinalizeError, SetRow, TypeOK
    <2>3. UNCHANGED <<token, lost>>
      BY <1>6 DEF Complete, Retry, DeadLetter, FinalizeError
    <2> QED
      BY <2>1, <2>2, <2>3, WriterFrame
  <1>7. ASSUME NEW f \in Flows, FenceSessionLost(f) PROVE OwnerKeepsRow'
    BY <1>7, <1>t DEF FenceSessionLost, OwnerKeepsRow, Owns, TypeOK
  <1>8. ASSUME NEW f \in Flows, Renew(f) \/ RenewError(f) PROVE OwnerKeepsRow'
    <2>1. \A d \in Deliveries : row'[d].state = row[d].state /\ row'[d].token = row[d].token
      BY <1>8, <1>t, LeaseOnly DEF Renew, RenewError
    <2>2. UNCHANGED <<pc, token, lost>>
      BY <1>8 DEF Renew, RenewError
    <2> QED
      BY <2>1, <2>2 DEF OwnerKeepsRow, Owns
  <1>9. ASSUME NEW d \in Deliveries, LeaseExpires(d) PROVE OwnerKeepsRow'
    <2>1. \A e \in Deliveries : row'[e].state = row[e].state /\ row'[e].token = row[e].token
      BY <1>9, <1>t, LeaseOnly DEF LeaseExpires
    <2>2. UNCHANGED <<pc, token, lost>>
      BY <1>9 DEF LeaseExpires
    <2> QED
      BY <2>1, <2>2 DEF OwnerKeepsRow, Owns
  <1>10. CASE UNCHANGED vars
    BY <1>10 DEF vars, OwnerKeepsRow, Owns
  <1> QED
    BY <1>1, <1>2, <1>3, <1>4, <1>5, <1>6, <1>7, <1>8, <1>9, <1>10
    DEF Next, Work, Faulty, AllEnded

-----------------------------------------------------------------------------
(* No fence outlives its script.                                            *)

\* A step of one flow that draws no token leaks nothing when it releases the
\* fence, or leaves it alone and stays where it may hold it.
LEMMA LeakFrame ==
    ASSUME FenceInv, NoFenceLeak, NEW f \in Flows, UNCHANGED token,
           pc' = [pc EXCEPT ![f] = pc'[f]],
           \/ ReleaseFence(f)
           \/ UNCHANGED fence /\ pc'[f] \in FencedPcs \union CleanupPcs
           \/ UNCHANGED fence /\ pc[f] \notin FencedPcs \union CleanupPcs
    PROVE  NoFenceLeak'
  <1> SUFFICES ASSUME NEW d \in Deliveries, fence'[d] # NoToken
               PROVE  \E g \in Flows : /\ DeliveryOf[g] = d
                                       /\ token'[g] = fence'[d]
                                       /\ pc'[g] \in FencedPcs \union CleanupPcs
    BY DEF NoFenceLeak
  <1>1. fence'[d] = fence[d]
    BY ReleaseFenceType DEF FenceInv
  <1>2. PICK g \in Flows : /\ DeliveryOf[g] = d
                           /\ token[g] = fence[d]
                           /\ pc[g] \in FencedPcs \union CleanupPcs
    BY <1>1 DEF NoFenceLeak
  <1>3. CASE g # f
    BY <1>1, <1>2, <1>3 DEF FenceInv, TypeOK
  <1>4. CASE g = f
    <2>1. ~ReleaseFence(f)
      BY <1>1, <1>2, <1>4, ReleaseFenceType DEF FenceInv
    <2> QED
      BY <1>1, <1>2, <1>4, <2>1
  <1> QED
    BY <1>3, <1>4

\* No step leaks a fence.
LEMMA LeakStep == FenceInv /\ NoFenceLeak /\ [Next]_vars => NoFenceLeak'
  <1> SUFFICES ASSUME FenceInv, NoFenceLeak, [Next]_vars PROVE NoFenceLeak'
    OBVIOUS
  <1> USE DeliveryLeaseAssumption
  <1>t. TypeOK /\ TypeOK'
    BY TypeStep DEF FenceInv
  <1>1. ASSUME NEW f \in Flows, AcquireFence(f) PROVE NoFenceLeak'
    <2> SUFFICES ASSUME NEW d \in Deliveries, fence'[d] # NoToken
                 PROVE  \E g \in Flows : /\ DeliveryOf[g] = d
                                         /\ token'[g] = fence'[d]
                                         /\ pc'[g] \in FencedPcs \union CleanupPcs
      BY DEF NoFenceLeak
    <2>1. CASE d = DeliveryOf[f]
      BY <1>1, <1>t, <2>1 DEF AcquireFence, Goto, TypeOK, FencedPcs
    <2>2. CASE d # DeliveryOf[f]
      <3>1. fence'[d] = fence[d]
        BY <1>1, <1>t, <2>2 DEF AcquireFence, TypeOK
      <3>2. PICK g \in Flows : /\ DeliveryOf[g] = d
                               /\ token[g] = fence[d]
                               /\ pc[g] \in FencedPcs \union CleanupPcs
        BY <3>1 DEF NoFenceLeak
      <3> QED
        BY <1>1, <1>t, <2>2, <3>1, <3>2 DEF AcquireFence, Goto, TypeOK
    <2> QED
      BY <2>1, <2>2
  <1>2. ASSUME NEW f \in Flows, FenceRefused(f) \/ ReadExisting(f) PROVE NoFenceLeak'
    <2>1. /\ pc' = [pc EXCEPT ![f] = pc'[f]]
          /\ pc[f] \notin FencedPcs \union CleanupPcs
      BY <1>2, <1>t, JobFailsType, NotAcquiredType
      DEF FenceRefused, ReadExisting, Goto, TypeOK, FencedPcs, CleanupPcs
    <2> QED
      BY <1>2, <2>1, LeakFrame DEF FenceRefused, ReadExisting
  <1>3. ASSUME NEW f \in Flows,
               Claim(f) \/ ClaimCancelled(f) \/ EffectSucceeds(f) \/ EffectFails(f) \/ HeartbeatFails(f)
        PROVE NoFenceLeak'
    <2>1. /\ pc' = [pc EXCEPT ![f] = pc'[f]]
          /\ pc'[f] \in FencedPcs \union CleanupPcs
      BY <1>3, <1>t
      DEF Claim, ClaimCancelled, EffectSucceeds, EffectFails, HeartbeatFails, Goto, TypeOK, FencedPcs
    <2> QED
      BY <1>3, <2>1, LeakFrame DEF Claim, ClaimCancelled, EffectSucceeds, EffectFails, HeartbeatFails
  <1>4. ASSUME NEW f \in Flows, ClaimRefused(f) \/ Cleanup(f) \/ Crash(f) PROVE NoFenceLeak'
    <2>1. pc' = [pc EXCEPT ![f] = pc'[f]]
      BY <1>4, <1>t, JobFailsType, NotAcquiredType DEF ClaimRefused, Cleanup, Crash, Goto, TypeOK
    <2> QED
      BY <1>4, <2>1, LeakFrame DEF ClaimRefused, Cleanup, Crash
  <1>5. ASSUME NEW f \in Flows, Complete(f) \/ Retry(f) \/ DeadLetter(f) \/ FinalizeError(f)
        PROVE NoFenceLeak'
    <2>1. pc' = [pc EXCEPT ![f] = pc'[f]] /\ ReleaseFence(f) /\ UNCHANGED token
      BY <1>5, <1>t DEF Complete, Retry, DeadLetter, FinalizeError, Goto, TypeOK
    <2> QED
      BY <2>1, LeakFrame
  <1>6. ASSUME NEW f \in Flows, ClaimError(f) PROVE NoFenceLeak'
    <2>1. /\ pc' = [pc EXCEPT ![f] = pc'[f]]
          /\ pc'[f] \in FencedPcs \union CleanupPcs
          /\ ReleaseFence(f) \/ UNCHANGED fence
          /\ UNCHANGED token
      BY <1>6, <1>t DEF ClaimError, Goto, TypeOK, CleanupPcs
    <2> QED
      BY <2>1, LeakFrame
  <1>7. ASSUME NEW f \in Flows, FenceSessionLost(f) PROVE NoFenceLeak'
    BY <1>7, <1>t DEF FenceSessionLost, NoFenceLeak, TypeOK
  <1>8. CASE UNCHANGED <<fence, token, pc>>
    BY <1>8 DEF NoFenceLeak
  <1> QED
    BY <1>1, <1>2, <1>3, <1>4, <1>5, <1>6, <1>7, <1>8
    DEF Next, Work, Faulty, AllEnded, Renew, RenewError, LeaseExpires, vars

-----------------------------------------------------------------------------
(* Effects.                                                                 *)

\* A step that finishes no effect, completes no row and moves no flow into or
\* out of the completing state keeps what is known of effects.
LEMMA EffectFrame ==
    ASSUME FenceInv, EffectInv, NEW f \in Flows,
           applied' = applied, lost' = lost, faults' = faults,
           pc' = [pc EXCEPT ![f] = pc'[f]],
           pc[f] # "completing", pc'[f] # "completing",
           beat' = [beat EXCEPT ![f] = beat'[f]],
           faults = 0 /\ pc'[f] = "effect" => beat'[f] # "failed",
           \A d \in Deliveries : row'[d].state = "completed" <=> row[d].state = "completed"
    PROVE  EffectInv'
  <1>1. CompletingApplied'
    BY DEF FenceInv, TypeOK, EffectInv, CompletingApplied
  <1>2. CompletedAfterEffect' /\ EffectOnce'
    BY DEF EffectInv, CompletedAfterEffect, EffectOnce
  <1>3. FaultFree'
    BY DEF FenceInv, TypeOK, EffectInv, FaultFree
  <1> QED
    BY <1>1, <1>2, <1>3 DEF EffectInv

\* After a fault only the first two parts of EffectInv say anything.
LEMMA FaultFrame ==
    ASSUME TypeOK, EffectInv, NEW f \in Flows, Fault, applied' = applied,
           pc' = [pc EXCEPT ![f] = pc'[f]],
           pc'[f] = "completing" => pc[f] = "completing",
           \A d \in Deliveries : row'[d].state = "completed" =>
                                   row[d].state = "completed" \/ applied[d] > 0
    PROVE  EffectInv'
  <1>1. faults' # 0
    BY DEF TypeOK, Fault
  <1> QED
    BY <1>1 DEF TypeOK, EffectInv, CompletingApplied, CompletedAfterEffect, FaultFree, EffectOnce

\* What is known of effects survives every step.
LEMMA EffectStep ==
    FenceInv /\ OwnerKeepsRow /\ EffectInv /\ [Next]_vars => EffectInv'
  <1> SUFFICES ASSUME FenceInv, OwnerKeepsRow, EffectInv, [Next]_vars PROVE EffectInv'
    OBVIOUS
  <1> USE DeliveryLeaseAssumption
  <1>t. TypeOK /\ TypeOK'
    BY TypeStep DEF FenceInv
  <1>1. ASSUME NEW f \in Flows,
               \/ AcquireFence(f) \/ FenceRefused(f) \/ ReadExisting(f) \/ ClaimRefused(f)
               \/ EffectFails(f) \/ Cleanup(f)
        PROVE EffectInv'
    <2>1. /\ pc' = [pc EXCEPT ![f] = pc'[f]]
          /\ pc[f] # "completing" /\ pc'[f] \notin {"completing", "effect"}
      BY <1>1, <1>t, JobFailsType, NotAcquiredType
      DEF AcquireFence, FenceRefused, ReadExisting, ClaimRefused, EffectFails, Cleanup,
          CleanupPcs, Goto, TypeOK
    <2>2. /\ applied' = applied /\ lost' = lost /\ faults' = faults /\ row' = row
          /\ beat' = [beat EXCEPT ![f] = beat'[f]]
      BY <1>1, <1>t
      DEF AcquireFence, FenceRefused, ReadExisting, ClaimRefused, EffectFails, Cleanup, TypeOK
    <2> QED
      BY <2>1, <2>2, EffectFrame
  <1>2. ASSUME NEW f \in Flows, Claim(f) PROVE EffectInv'
    <2>1. row[DeliveryOf[f]].state # "completed"
      BY <1>2 DEF Claim, MayClaim, Claimable, Recoverable
    <2>2. \A d \in Deliveries : row'[d].state = "completed" <=> row[d].state = "completed"
      BY <1>2, <1>t, <2>1 DEF Claim, SetRow, LeasedTo, TypeOK
    <2>3. /\ pc' = [pc EXCEPT ![f] = pc'[f]]
          /\ pc[f] # "completing" /\ pc'[f] # "completing"
          /\ beat' = [beat EXCEPT ![f] = beat'[f]]
          /\ pc'[f] = "effect" => beat'[f] # "failed"
      BY <1>2, <1>t DEF Claim, Goto, TypeOK
    <2> QED
      BY <1>2, <2>2, <2>3, EffectFrame DEF Claim
  <1>3. ASSUME NEW f \in Flows, EffectSucceeds(f) PROVE EffectInv'
    <2>1. /\ pc' = [pc EXCEPT ![f] = "completing"] /\ pc[f] = "effect"
          /\ applied' = [applied EXCEPT ![DeliveryOf[f]] = @ + 1]
          /\ UNCHANGED <<row, lost, faults, beat>>
      BY <1>3 DEF EffectSucceeds, Goto
    <2>2. ASSUME faults = 0 PROVE applied[DeliveryOf[f]] = 0
      <3>1. /\ lost[DeliveryOf[f]] = {}
            /\ pc[f] \in OwningPcs /\ pc[f] \in FencedPcs
        BY <2>1, <2>2 DEF EffectInv, FaultFree, OwningPcs, FencedPcs
      <3>2. row[DeliveryOf[f]].state # "completed"
        BY <3>1 DEF OwnerKeepsRow, Owns
      <3>3. ASSUME NEW g \in Flows, DeliveryOf[g] = DeliveryOf[f], pc[g] = "completing" PROVE FALSE
        BY <2>1, <3>1, <3>3, SoleHolder DEF FencedPcs
      <3>4. DeliveryOf[f] \in Deliveries /\ applied[DeliveryOf[f]] \in Nat
        BY <1>t DEF TypeOK
      <3>5. ~(applied[DeliveryOf[f]] > 0)
        BY <2>2, <3>2, <3>3, <3>4 DEF EffectInv, FaultFree
      <3> QED
        BY <3>4, <3>5
    <2>3. CompletingApplied' /\ CompletedAfterEffect'
      BY <1>t, <2>1 DEF EffectInv, CompletingApplied, CompletedAfterEffect, TypeOK
    <2>4. EffectOnce'
      BY <1>t, <2>1, <2>2 DEF EffectInv, EffectOnce, TypeOK
    <2>5. FaultFree'
      BY <1>t, <2>1 DEF EffectInv, FaultFree, TypeOK
    <2> QED
      BY <2>3, <2>4, <2>5 DEF EffectInv
  <1>4. ASSUME NEW f \in Flows, HeartbeatFails(f) PROVE EffectInv'
    <2>1. /\ pc' = [pc EXCEPT ![f] = "failing"] /\ pc[f] = "effect"
          /\ applied' = [applied EXCEPT ![DeliveryOf[f]] = @ + 1] \/ UNCHANGED applied
          /\ UNCHANGED <<row, lost, faults, beat>>
          /\ beat[f] = "failed"
      BY <1>4 DEF HeartbeatFails, Goto
    <2>2. faults # 0 /\ faults' # 0
      BY <2>1 DEF EffectInv, FaultFree
    <2>3. \A d \in Deliveries : applied[d] > 0 => applied'[d] > 0
      BY <1>t, <2>1 DEF TypeOK
    <2>4. \A g \in Flows : pc'[g] = "completing" => pc[g] = "completing"
      BY <1>t, <2>1 DEF TypeOK
    <2>5. CompletingApplied' /\ CompletedAfterEffect'
      BY <2>1, <2>3, <2>4 DEF EffectInv, CompletingApplied, CompletedAfterEffect
    <2> QED
      BY <2>2, <2>5 DEF EffectInv, FaultFree, EffectOnce
  <1>5. ASSUME NEW f \in Flows, Complete(f) PROVE EffectInv'
    <2>1. /\ pc' = [pc EXCEPT ![f] = pc'[f]] /\ pc[f] = "completing"
          /\ pc'[f] \notin {"completing", "effect"}
          /\ UNCHANGED <<applied, lost, faults, beat>>
      BY <1>5, <1>t DEF Complete, Goto, TypeOK
    <2>2. applied[DeliveryOf[f]] > 0
      BY <2>1 DEF EffectInv, CompletingApplied
    <2>3. \A d \in Deliveries : d # DeliveryOf[f] => row'[d] = row[d]
      BY <1>5, <1>t DEF Complete, SetRow, TypeOK
    <2>4. CompletingApplied' /\ EffectOnce'
      BY <1>t, <2>1 DEF EffectInv, CompletingApplied, EffectOnce, TypeOK
    <2>5. CompletedAfterEffect'
      BY <1>t, <2>1, <2>2, <2>3 DEF EffectInv, CompletedAfterEffect
    <2>6. ASSUME faults = 0 PROVE row'[DeliveryOf[f]].state = "completed"
      <3>1. Owns(f)
        BY <2>1, <2>6 DEF EffectInv, FaultFree, OwnerKeepsRow, OwningPcs, FencedPcs
      <3> QED
        BY <1>5, <1>t, <3>1 DEF Complete, SetRow, Final, TypeOK
    <2>7. FaultFree'
      <3> SUFFICES ASSUME faults = 0 PROVE FaultFree'
        BY <2>1 DEF FaultFree
      <3>1. \A d \in Deliveries : lost'[d] = {}
        BY <2>1 DEF EffectInv, FaultFree
      <3>2. \A g \in Flows : pc'[g] = "effect" => beat'[g] # "failed"
        BY <1>t, <2>1 DEF EffectInv, FaultFree, TypeOK
      <3>3. ASSUME NEW d \in Deliveries, applied'[d] > 0
            PROVE  \/ row'[d].state = "completed"
                   \/ \E g \in Flows : DeliveryOf[g] = d /\ pc'[g] = "completing"
        <4>1. CASE d = DeliveryOf[f]
          BY <2>6, <4>1
        <4>2. CASE d # DeliveryOf[f]
          BY <1>t, <2>1, <2>3, <3>3, <4>2 DEF EffectInv, FaultFree, TypeOK
        <4> QED
          BY <4>1, <4>2
      <3> QED
        BY <3>1, <3>2, <3>3 DEF FaultFree
    <2> QED
      BY <2>4, <2>5, <2>7 DEF EffectInv
  <1>6. ASSUME NEW f \in Flows, Retry(f) \/ DeadLetter(f) PROVE EffectInv'
    <2>1. /\ pc' = [pc EXCEPT ![f] = pc'[f]]
          /\ pc[f] # "completing" /\ pc'[f] \notin {"completing", "effect"}
          /\ applied' = applied /\ lost' = lost /\ faults' = faults /\ beat' = beat
      BY <1>6, <1>t DEF Retry, DeadLetter, Goto, TypeOK
    <2>2. beat' = [beat EXCEPT ![f] = beat'[f]]
      BY <1>t, <2>1 DEF TypeOK
    <2>3. \A d \in Deliveries : row'[d].state = "completed" <=> row[d].state = "completed"
      <3>1. CASE UNCHANGED row
        BY <3>1
      <3>2. CASE Owns(f) /\ (SetRow(f, FailedRow(f)) \/ SetRow(f, Final("dead_letter")))
        <4>1. row[DeliveryOf[f]] \in Row /\ row[DeliveryOf[f]].state = "claimed"
          BY <1>t, <3>2 DEF Owns, TypeOK
        <4>2. FailedRow(f).state # "completed" /\ Final("dead_letter").state # "completed"
          BY <4>1 DEF FailedRow, Final, Row
        <4> QED
          BY <1>t, <3>2, <4>1, <4>2 DEF SetRow, TypeOK
      <3> QED
        BY <1>6, <3>1, <3>2 DEF Retry, DeadLetter
    <2> QED
      BY <2>1, <2>2, <2>3, EffectFrame
  <1>7. ASSUME NEW f \in Flows, Renew(f) PROVE EffectInv'
    <2>1. /\ pc' = pc /\ beat' = [beat EXCEPT ![f] = beat'[f]]
          /\ applied' = applied /\ lost' = lost /\ faults' = faults
      BY <1>7, <1>t DEF Renew, TypeOK
    <2>2. \A d \in Deliveries : row'[d].state = row[d].state
      BY <1>7, <1>t, LeaseOnly DEF Renew
    <2>3. ASSUME faults = 0, pc[f] = "effect" PROVE beat'[f] # "failed"
      <3>1. Owns(f)
        BY <2>3 DEF EffectInv, FaultFree, OwnerKeepsRow, OwningPcs, FencedPcs
      <3> QED
        BY <1>7, <3>1 DEF Renew
    <2>4. CompletingApplied' /\ CompletedAfterEffect' /\ EffectOnce'
      BY <2>1, <2>2 DEF EffectInv, CompletingApplied, CompletedAfterEffect, EffectOnce
    <2>5. FaultFree'
      <3> SUFFICES ASSUME faults = 0 PROVE FaultFree'
        BY <2>1 DEF FaultFree
      <3>1. \A d \in Deliveries : lost'[d] = {}
        BY <2>1 DEF EffectInv, FaultFree
      <3>2. ASSUME NEW g \in Flows, pc'[g] = "effect" PROVE beat'[g] # "failed"
        <4>1. CASE g = f
          BY <2>1, <2>3, <3>2, <4>1
        <4>2. CASE g # f
          <5>1. beat'[g] = beat[g]
            BY <1>t, <2>1, <4>2 DEF TypeOK
          <5> QED
            BY <2>1, <3>2, <5>1 DEF EffectInv, FaultFree
        <4> QED
          BY <4>1, <4>2
      <3>3. \A d \in Deliveries : applied'[d] > 0 =>
               \/ row'[d].state = "completed"
               \/ \E g \in Flows : DeliveryOf[g] = d /\ pc'[g] = "completing"
        BY <2>1, <2>2 DEF EffectInv, FaultFree
      <3> QED
        BY <3>1, <3>2, <3>3 DEF FaultFree
    <2> QED
      BY <2>4, <2>5 DEF EffectInv
  <1>8. ASSUME NEW f \in Flows,
               ClaimCancelled(f) \/ ClaimError(f) \/ RenewError(f) \/ Crash(f) \/ FenceSessionLost(f)
        PROVE EffectInv'
    <2>1. /\ pc' = [pc EXCEPT ![f] = pc'[f]] /\ Fault /\ applied' = applied
          /\ pc'[f] = "completing" => pc[f] = "completing"
      BY <1>8, <1>t, JobFailsType
      DEF ClaimCancelled, ClaimError, RenewError, Crash, FenceSessionLost, Goto, TypeOK
    <2>2. \A d \in Deliveries : row'[d].state = "completed" => row[d].state = "completed"
      BY <1>8, <1>t
      DEF ClaimCancelled, ClaimError, RenewError, Crash, FenceSessionLost, SetRow, LeasedTo, TypeOK
    <2> QED
      BY <1>t, <2>1, <2>2, FaultFrame
  <1>9. ASSUME NEW f \in Flows, FinalizeError(f) PROVE EffectInv'
    <2>1. /\ pc' = [pc EXCEPT ![f] = pc'[f]] /\ Fault /\ applied' = applied
          /\ pc'[f] # "completing"
      BY <1>9, <1>t DEF FinalizeError, Goto, TypeOK
    <2>2. ASSUME Owns(f), pc[f] # "completing" PROVE FinalizedRow(f).state # "completed"
      <3>1. row[DeliveryOf[f]] \in Row /\ row[DeliveryOf[f]].state = "claimed"
        BY <1>t, <2>2 DEF Owns, TypeOK
      <3> QED
        BY <2>2, <3>1 DEF FinalizedRow, FailedRow, Final, Row
    <2>3. pc[f] = "completing" => applied[DeliveryOf[f]] > 0
      BY DEF EffectInv, CompletingApplied
    <2>4. \A d \in Deliveries : row'[d].state = "completed" =>
                                   row[d].state = "completed" \/ applied[d] > 0
      BY <1>9, <1>t, <2>2, <2>3 DEF FinalizeError, SetRow, TypeOK
    <2> QED
      BY <1>t, <2>1, <2>4, FaultFrame
  <1>10. ASSUME NEW d \in Deliveries, LeaseExpires(d) PROVE EffectInv'
    <2>1. \A e \in Deliveries : row'[e].state = row[e].state
      BY <1>10, <1>t, LeaseOnly DEF LeaseExpires
    <2>2. UNCHANGED <<pc, beat, applied, lost, faults>>
      BY <1>10 DEF LeaseExpires
    <2> QED
      BY <2>1, <2>2 DEF EffectInv, CompletingApplied, CompletedAfterEffect, FaultFree, EffectOnce
  <1>11. CASE UNCHANGED vars
    BY <1>11 DEF vars, EffectInv, CompletingApplied, CompletedAfterEffect, FaultFree, EffectOnce
  <1> QED
    BY <1>1, <1>2, <1>3, <1>4, <1>5, <1>6, <1>7, <1>8, <1>9, <1>10, <1>11
    DEF Next, Work, Faulty, AllEnded

-----------------------------------------------------------------------------
(* The safety theorems.                                                     *)

\* The inductive invariant holds in every reachable state.
LEMMA SafetyInvariant == Spec => []SafetyInv
  <1>1. Init => SafetyInv
    <2> SUFFICES ASSUME Init PROVE SafetyInv
      OBVIOUS
    <2>1. FenceInv
      BY DeliveryLeaseAssumption
      DEF Init, FenceInv, TypeOK, Absent, Row, NoToken, Pcs, Scripts, TokensIssued,
          TokenUnique, FenceHeld, FencedPcs
    <2>2. OwnerKeepsRow /\ NoFenceLeak
      BY DEF Init, OwnerKeepsRow, NoFenceLeak, OwningPcs, FencedPcs, NoToken
    <2>3. EffectInv
      BY DEF Init, EffectInv, CompletingApplied, CompletedAfterEffect, FaultFree, EffectOnce, Absent
    <2> QED
      BY <2>1, <2>2, <2>3 DEF SafetyInv
  <1>2. SafetyInv /\ [Next]_vars => SafetyInv'
    BY FenceStep, OwnerStep, LeakStep, EffectStep DEF SafetyInv
  <1> QED
    BY <1>1, <1>2, PTL DEF Spec

\* While no fence session of a delivery was lost, the flow that runs its effect
\* or finalizes it owns the row, whatever the lease clock does meanwhile.
THEOREM OwnerSafe == Spec => []OwnerKeepsRow
  BY SafetyInvariant, PTL DEF SafetyInv

\* No error path of claim, execute_claimed_delivery or the flow scripts leaves an
\* advisory lock behind.
THEOREM FenceReleased == Spec => []NoFenceLeak
  BY SafetyInvariant, PTL DEF SafetyInv

\* complete() is reached only through a finished effect.
THEOREM CompletionFollowsEffect == Spec => []CompletedAfterEffect
  <1>1. SafetyInv => CompletedAfterEffect
    BY DEF SafetyInv, EffectInv
  <1> QED
    BY <1>1, SafetyInvariant, PTL

\* Without faults a delivery's effect finishes at most once, for any number of
\* duplicate flows, retries and recoveries.
THEOREM AtMostOnce == Spec => []EffectOnce
  <1>1. SafetyInv => EffectOnce
    BY DEF SafetyInv, EffectInv
  <1> QED
    BY <1>1, SafetyInvariant, PTL

\* Completed is final, and only the flow whose token the row carries settles it,
\* also after fence sessions were lost.
THEOREM SettlesOwnRow == Spec => SettledByOwner
  <1> DEFINE A == \A d \in Deliveries :
        /\ row[d].state = "completed" => row'[d] = row[d]
        /\ row'[d] # row[d] /\ row'[d].state \in {"completed", "dead_letter"} =>
              \E f \in Flows : /\ DeliveryOf[f] = d
                               /\ Owns(f)
                               /\ pc[f] \in OwningPcs
                               /\ pc'[f] \notin OwningPcs
  <1>1. TypeOK /\ [Next]_vars => [A]_vars
    <2> SUFFICES ASSUME TypeOK, [Next]_vars, NEW d \in Deliveries, row'[d] # row[d]
                 PROVE  /\ row[d].state # "completed"
                        /\ row'[d].state \in {"completed", "dead_letter"} =>
                              \E f \in Flows : /\ DeliveryOf[f] = d
                                               /\ Owns(f)
                                               /\ pc[f] \in OwningPcs
                                               /\ pc'[f] \notin OwningPcs
      OBVIOUS
    <2> USE DeliveryLeaseAssumption
    <2>1. ASSUME NEW f \in Flows, Claim(f) \/ ClaimCancelled(f) \/ ClaimError(f)
          PROVE row[d].state # "completed" /\ row'[d].state = "claimed"
      BY <2>1 DEF Claim, ClaimCancelled, ClaimError, MayClaim, Claimable, Recoverable, SetRow,
                  LeasedTo, TypeOK
    <2>2. ASSUME NEW f \in Flows, Complete(f) \/ Retry(f) \/ DeadLetter(f) \/ FinalizeError(f)
          PROVE /\ row[d].state # "completed"
                /\ DeliveryOf[f] = d /\ Owns(f) /\ pc[f] \in OwningPcs /\ pc'[f] \notin OwningPcs
      <3>1. DeliveryOf[f] = d /\ Owns(f)
        BY <2>2 DEF Complete, Retry, DeadLetter, FinalizeError, SetRow, TypeOK
      <3>2. pc[f] \in OwningPcs /\ pc'[f] \notin OwningPcs
        BY <2>2 DEF Complete, Retry, DeadLetter, FinalizeError, Goto, OwningPcs, FencedPcs, TypeOK
      <3> QED
        BY <3>1, <3>2 DEF Owns
    <2>3. ASSUME NEW f \in Flows, Renew(f)
          PROVE row[d].state # "completed" /\ row'[d].state = "claimed"
      <3>1. d = DeliveryOf[f] /\ row[d].state = "claimed"
        BY <2>3 DEF Renew, Owns, TypeOK
      <3> QED
        BY <2>3, <3>1, LeaseOnly DEF Renew
    <2>4. ASSUME NEW e \in Deliveries, LeaseExpires(e)
          PROVE row[d].state # "completed" /\ row'[d].state = "claimed"
      <3>1. d = e /\ row[d].state = "claimed"
        BY <2>4 DEF LeaseExpires, TypeOK
      <3> QED
        BY <2>4, <3>1, LeaseOnly DEF LeaseExpires
    <2>5. ~UNCHANGED row
      OBVIOUS
    <2> QED
      BY <2>1, <2>2, <2>3, <2>4, <2>5
      DEF Next, Work, Faulty, AllEnded, AcquireFence, FenceRefused, ReadExisting, ClaimRefused,
          EffectSucceeds, EffectFails, HeartbeatFails, Cleanup, RenewError, Crash,
          FenceSessionLost, vars
  <1> QED
    BY <1>1, TypeCorrect, TypeStep, PTL DEF Spec, SettledByOwner
=============================================================================
