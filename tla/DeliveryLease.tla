---------------------------- MODULE DeliveryLease ----------------------------
(***************************************************************************)
(* Durable delivery deduplication and the retry-safe worker around it.     *)
(*                                                                         *)
(* A Windmill flow carries one delivery.  Its lifecycle job takes a session *)
(* advisory lock (the fence), leases the delivery's row under a fresh       *)
(* token, runs the effect while a heartbeat renews the lease, and then      *)
(* finalizes the row.  A failed job is rescheduled a bounded number of      *)
(* times; after that the flow's failure module dead-letters the delivery.   *)
(* An operator may recover a dead letter with a flow of its own.            *)
(*                                                                         *)
(* Time is the database's: a live lease may expire at any moment.  A token  *)
(* (uuid4) is the number of fences taken so far.                            *)
(***************************************************************************)
EXTENDS Naturals

CONSTANTS
    Deliveries,  \* the idempotency keys
    Flows,       \* Windmill flow runs; several may carry the same delivery
    DeliveryOf,  \* the delivery a flow carries
    Recoveries,  \* the flows that an operator started to recover a dead letter
    Retries,     \* how often Windmill reschedules a failed script of a flow
    MaxFaults    \* bound on crashes, database errors and lost sessions

ASSUME DeliveryLeaseAssumption ==
    /\ DeliveryOf \in [Flows -> Deliveries]
    /\ Recoveries \subseteq Flows
    /\ Retries \in Nat
    /\ MaxFaults \in Nat

VARIABLES
    row,      \* planning_lifecycle.delivery_deduplications
    fence,    \* the token whose session holds the delivery's advisory lock
    issued,   \* tokens drawn so far
    pc,       \* where a flow is
    script,   \* the script a flow is running
    token,    \* the claim token of a flow's current script
    beat,     \* the heartbeat task of a flow's current script
    tries,    \* reschedules a flow has left
    faults,   \* crashes, database errors and lost sessions so far
    applied,  \* history: how often the delivery's effect finished
    retried,  \* history: the last token of a delivery whose retry() was recorded
    lost      \* history: the tokens whose fence session was lost

vars == <<row, fence, issued, pc, script, token, beat, tries, faults,
          applied, retried, lost>>

NoToken == 0

Scripts == {"lifecycle_job", "dead_letter", "recover_dead_letter"}

\* The fence is held from _acquire_fence to the row's finalization, and the
\* row is leased from claim() on.
FencedPcs == {"claiming", "effect", "completing", "failing", "recording"}
OwningPcs == FencedPcs \ {"claiming"}
CleanupPcs == {"cleanup_ok", "cleanup_failed"}
RunningPcs == FencedPcs \union CleanupPcs \union {"reading"}
EndPcs == {"returned", "failed"}
Pcs == {"queued"} \union RunningPcs \union EndPcs

Row == [state : {"absent", "claimed", "completed", "dead_letter"},
        lease : {"none", "live", "expired"},
        token : Nat]

TypeOK ==
    /\ row \in [Deliveries -> Row]
    /\ fence \in [Deliveries -> Nat]
    /\ issued \in Nat
    /\ pc \in [Flows -> Pcs]
    /\ script \in [Flows -> Scripts]
    /\ token \in [Flows -> Nat]
    /\ beat \in [Flows -> {"off", "on", "failed"}]
    /\ tries \in [Flows -> Nat]
    /\ faults \in Nat
    /\ applied \in [Deliveries -> Nat]
    /\ retried \in [Deliveries -> Nat]
    /\ lost \in [Deliveries -> SUBSET Nat]

-----------------------------------------------------------------------------
(* Rows and fences.                                                        *)

Absent == [state |-> "absent", lease |-> "none", token |-> NoToken]
LeasedTo(t) == [state |-> "claimed", lease |-> "live", token |-> t]
Final(state) == [state |-> state, lease |-> "none", token |-> NoToken]

\* Mutant: a completed delivery can be claimed again.
ClaimableSettled(r) ==
    r.state \in {"absent", "completed"} \/ (r.state = "claimed" /\ r.lease = "expired")

\* INSERT ... ON CONFLICT DO UPDATE ... WHERE claimed and expired.
Claimable(r) == r.state = "absent" \/ (r.state = "claimed" /\ r.lease = "expired")

\* UPDATE ... WHERE state = 'dead_letter'.
Recoverable(r) == r.state = "dead_letter"

\* WHERE state = 'claimed' AND claim_token = <the caller's>.
Owns(f) == /\ row[DeliveryOf[f]].state = "claimed"
           /\ row[DeliveryOf[f]].token = token[f]

\* The claim a script asks for: the operator's recovery, or claim().
MayClaim(f) == IF script[f] = "recover_dead_letter"
               THEN Recoverable(row[DeliveryOf[f]])
               ELSE Claimable(row[DeliveryOf[f]])

SetRow(f, r) == row' = [row EXCEPT ![DeliveryOf[f]] = r]

\* Closing the session frees the lock only while that session still holds it.
ReleaseFence(f) ==
    fence' = [fence EXCEPT ![DeliveryOf[f]] = IF @ = token[f] THEN NoToken ELSE @]

Goto(f, l) == pc' = [pc EXCEPT ![f] = l]

Fault == faults < MaxFaults /\ faults' = faults + 1

\* Mutant: one reschedule too many.
JobFailsOffByOne(f) ==
    /\ tries' = [tries EXCEPT ![f] = @ - 1]
    /\ Goto(f, "queued")
    /\ UNCHANGED script

\* Mutant: the flow has no failure module.
JobFailsNoHook(f) ==
    /\ IF tries[f] > 0
       THEN Goto(f, "queued") /\ tries' = [tries EXCEPT ![f] = @ - 1]
       ELSE Goto(f, "failed") /\ UNCHANGED tries
    /\ UNCHANGED script

\* Windmill reschedules a failed script, then runs the flow's failure module;
\* the recovery flow has none.
JobFails(f) ==
    \/ /\ tries[f] > 0
       /\ tries' = [tries EXCEPT ![f] = @ - 1]
       /\ Goto(f, "queued")
       /\ UNCHANGED script
    \/ /\ tries[f] = 0
       /\ script[f] = "lifecycle_job"
       /\ script' = [script EXCEPT ![f] = "dead_letter"]
       /\ Goto(f, "queued")
       /\ UNCHANGED tries
    \/ /\ tries[f] = 0
       /\ script[f] # "lifecycle_job"
       /\ Goto(f, "failed")
       /\ UNCHANGED <<script, tries>>

-----------------------------------------------------------------------------
Init ==
    /\ row = [d \in Deliveries |-> Absent]
    /\ fence = [d \in Deliveries |-> NoToken]
    /\ issued = 0
    /\ pc = [f \in Flows |-> "queued"]
    /\ script = [f \in Flows |-> IF f \in Recoveries THEN "recover_dead_letter"
                                                     ELSE "lifecycle_job"]
    /\ token = [f \in Flows |-> NoToken]
    /\ beat = [f \in Flows |-> "off"]
    /\ tries = [f \in Flows |-> Retries]
    /\ faults = 0
    /\ applied = [d \in Deliveries |-> 0]
    /\ retried = [d \in Deliveries |-> NoToken]
    /\ lost = [d \in Deliveries |-> {}]

\* Mutant: the answer of pg_try_advisory_lock is ignored.
AcquireFenceUnchecked(f) ==
    /\ pc[f] = "queued"
    /\ issued' = issued + 1
    /\ token' = [token EXCEPT ![f] = issued + 1]
    /\ fence' = [fence EXCEPT ![DeliveryOf[f]] = issued + 1]
    /\ Goto(f, "claiming")
    /\ UNCHANGED <<row, script, beat, tries, faults, applied, retried, lost>>

\* pg_try_advisory_lock on a session of its own: taken ...
AcquireFence(f) ==
    /\ pc[f] = "queued"
    /\ fence[DeliveryOf[f]] = NoToken
    /\ issued' = issued + 1
    /\ token' = [token EXCEPT ![f] = issued + 1]
    /\ fence' = [fence EXCEPT ![DeliveryOf[f]] = issued + 1]
    /\ Goto(f, "claiming")
    /\ UNCHANGED <<row, script, beat, tries, faults, applied, retried, lost>>

\* ... or refused: claim() goes on to read the row, recover_dead_letter raises.
FenceRefused(f) ==
    /\ pc[f] = "queued"
    /\ fence[DeliveryOf[f]] # NoToken
    /\ \/ /\ script[f] # "recover_dead_letter"
          /\ Goto(f, "reading")
          /\ UNCHANGED <<script, tries>>
       \/ /\ script[f] = "recover_dead_letter"
          /\ JobFails(f)
    /\ UNCHANGED <<row, fence, issued, token, beat, faults, applied, retried, lost>>

\* What a script makes of a claim it did not acquire.  execute_delivery returns
\* normally whatever the row says; the failure module raises unless the delivery
\* is already settled; the operator's recovery raises.
NotAcquired(f) ==
    \/ /\ \/ script[f] = "lifecycle_job"
          \/ /\ script[f] = "dead_letter"
             /\ row[DeliveryOf[f]].state \in {"completed", "dead_letter"}
       /\ Goto(f, "returned")
       /\ UNCHANGED <<script, tries>>
    \/ /\ \/ script[f] = "recover_dead_letter"
          \/ /\ script[f] = "dead_letter"
             /\ row[DeliveryOf[f]].state \in {"absent", "claimed"}
       /\ JobFails(f)

\* Mutant: the script polls until the other session has settled the row.
ReadExistingPolls(f) ==
    /\ pc[f] = "reading"
    /\ \/ row[DeliveryOf[f]].state \in {"completed", "dead_letter"} /\ NotAcquired(f)
       \/ row[DeliveryOf[f]].state \in {"absent", "claimed"} /\ UNCHANGED <<pc, script, tries>>
    /\ UNCHANGED <<row, fence, issued, token, beat, faults, applied, retried, lost>>

\* SELECT without the fence, after another session held it.
ReadExisting(f) ==
    /\ pc[f] = "reading"
    /\ NotAcquired(f)
    /\ UNCHANGED <<row, fence, issued, token, beat, faults, applied, retried, lost>>

\* Mutant: ON CONFLICT DO UPDATE forgets the new claim token.
ClaimKeepsToken(f) ==
    /\ pc[f] = "claiming"
    /\ MayClaim(f)
    /\ SetRow(f, LeasedTo(row[DeliveryOf[f]].token))
    /\ Goto(f, IF script[f] = "dead_letter" THEN "recording" ELSE "effect")
    /\ beat' = [beat EXCEPT ![f] = IF script[f] = "dead_letter" THEN @ ELSE "on"]
    /\ UNCHANGED <<fence, issued, script, token, tries, faults, applied, retried, lost>>

\* The claim statement leases the row and the script goes on to its work.
Claim(f) ==
    /\ pc[f] = "claiming"
    /\ MayClaim(f)
    /\ SetRow(f, LeasedTo(token[f]))
    /\ \/ /\ script[f] = "dead_letter"
          /\ Goto(f, "recording")
          /\ UNCHANGED beat
       \/ /\ script[f] # "dead_letter"
          /\ Goto(f, "effect")
          /\ beat' = [beat EXCEPT ![f] = "on"]
    /\ UNCHANGED <<fence, issued, script, token, tries, faults, applied, retried, lost>>

\* acquire_sync_owned: a cancellation that wins over the returned claim hands it
\* to the cleanup, which takes the failure path.
ClaimCancelled(f) ==
    /\ pc[f] = "claiming"
    /\ Fault
    /\ MayClaim(f)
    /\ SetRow(f, LeasedTo(token[f]))
    /\ Goto(f, "failing")
    /\ UNCHANGED <<fence, issued, script, token, beat, tries, applied, retried, lost>>

\* Mutant: a refused claim keeps its fence.
ClaimRefusedKeepsFence(f) ==
    /\ pc[f] = "claiming"
    /\ ~MayClaim(f)
    /\ NotAcquired(f)
    /\ UNCHANGED <<row, fence, issued, token, beat, faults, applied, retried, lost>>

\* The row is settled or leased: the fence is given back.
ClaimRefused(f) ==
    /\ pc[f] = "claiming"
    /\ ~MayClaim(f)
    /\ ReleaseFence(f)
    /\ NotAcquired(f)
    /\ UNCHANGED <<row, issued, token, beat, faults, applied, retried, lost>>

\* The claim statement fails; its commit may or may not have happened.  The
\* fence is given back, except when only the commit failed (keep_fence is set by
\* then): that fence stays until the runtime closes at the end of the script.
ClaimError(f) ==
    /\ pc[f] = "claiming"
    /\ Fault
    /\ \/ /\ MayClaim(f)
          /\ SetRow(f, LeasedTo(token[f])) \/ UNCHANGED row
          /\ UNCHANGED fence
       \/ /\ UNCHANGED row
          /\ ReleaseFence(f)
    /\ Goto(f, "cleanup_failed")
    /\ UNCHANGED <<issued, script, token, beat, tries, applied, retried, lost>>

-----------------------------------------------------------------------------
(* execute_claimed_delivery: the effect, its heartbeat, and what follows.  *)

\* The heartbeat runs until the final cleanup cancels it, so it also renews
\* while the row is being finalized and after.
Renew(f) ==
    /\ beat[f] = "on"
    /\ \/ /\ Owns(f)
          /\ row' = [row EXCEPT ![DeliveryOf[f]].lease = "live"]
          /\ UNCHANGED beat
       \/ /\ ~Owns(f)
          /\ beat' = [beat EXCEPT ![f] = "failed"]
          /\ UNCHANGED row
    /\ UNCHANGED <<fence, issued, pc, script, token, tries, faults, applied, retried, lost>>

RenewError(f) ==
    /\ beat[f] = "on"
    /\ Fault
    /\ beat' = [beat EXCEPT ![f] = "failed"]
    /\ UNCHANGED <<row, fence, issued, pc, script, token, tries, applied, retried, lost>>

\* The effect's result counts only if the heartbeat has not failed before it.
EffectSucceeds(f) ==
    /\ pc[f] = "effect"
    /\ beat[f] # "failed"
    /\ applied' = [applied EXCEPT ![DeliveryOf[f]] = @ + 1]
    /\ Goto(f, "completing")
    /\ UNCHANGED <<row, fence, issued, script, token, beat, tries, faults, retried, lost>>

\* Mutant: a failed effect is completed all the same.
EffectFailsCompletes(f) ==
    /\ pc[f] = "effect"
    /\ Goto(f, "completing")
    /\ UNCHANGED <<row, fence, issued, script, token, beat, tries, faults, applied, retried, lost>>

\* The effect raises or is cancelled.
EffectFails(f) ==
    /\ pc[f] = "effect"
    /\ Goto(f, "failing")
    /\ UNCHANGED <<row, fence, issued, script, token, beat, tries, faults, applied, retried, lost>>

\* The heartbeat failed first: the effect is cancelled and awaited, and a part
\* that runs in a thread still runs to its end.
HeartbeatFails(f) ==
    /\ pc[f] = "effect"
    /\ beat[f] = "failed"
    /\ \/ applied' = [applied EXCEPT ![DeliveryOf[f]] = @ + 1]
       \/ UNCHANGED applied
    /\ Goto(f, "failing")
    /\ UNCHANGED <<row, fence, issued, script, token, beat, tries, faults, retried, lost>>

\* Mutant: complete() does not compare the claim token.
CompleteUnfenced(f) ==
    /\ pc[f] = "completing"
    /\ \/ /\ row[DeliveryOf[f]].state = "claimed"
          /\ SetRow(f, Final("completed"))
          /\ Goto(f, "cleanup_ok")
       \/ /\ row[DeliveryOf[f]].state # "claimed"
          /\ UNCHANGED row
          /\ Goto(f, "cleanup_failed")
    /\ ReleaseFence(f)
    /\ UNCHANGED <<issued, script, token, beat, tries, faults, applied, retried, lost>>

\* complete(): finalize under the token, then release the fence either way.
Complete(f) ==
    /\ pc[f] = "completing"
    /\ \/ Owns(f) /\ SetRow(f, Final("completed")) /\ Goto(f, "cleanup_ok")
       \/ ~Owns(f) /\ UNCHANGED row /\ Goto(f, "cleanup_failed")
    /\ ReleaseFence(f)
    /\ UNCHANGED <<issued, script, token, beat, tries, faults, applied, retried, lost>>

\* What the failure path writes: retry() expires the lease and keeps the token,
\* restore_dead_letter() finalizes.
FailedRow(f) == IF script[f] = "recover_dead_letter"
                THEN Final("dead_letter")
                ELSE [row[DeliveryOf[f]] EXCEPT !.lease = "expired"]

\* The failure path: a lost claim (ValueError) is ignored.
Retry(f) ==
    /\ pc[f] = "failing"
    /\ \/ /\ Owns(f)
          /\ SetRow(f, FailedRow(f))
          /\ retried' = IF script[f] = "recover_dead_letter" THEN retried
                        ELSE [retried EXCEPT ![DeliveryOf[f]] = token[f]]
       \/ ~Owns(f) /\ UNCHANGED <<row, retried>>
    /\ ReleaseFence(f)
    /\ Goto(f, "cleanup_failed")
    /\ UNCHANGED <<issued, script, token, beat, tries, faults, applied, lost>>

\* The failure module records the dead letter.
DeadLetter(f) ==
    /\ pc[f] = "recording"
    /\ \/ Owns(f) /\ SetRow(f, Final("dead_letter")) /\ Goto(f, "returned")
       \/ ~Owns(f) /\ UNCHANGED row /\ Goto(f, "failed")
    /\ ReleaseFence(f)
    /\ UNCHANGED <<issued, script, token, beat, tries, faults, applied, retried, lost>>

\* The row a finalization would write.
FinalizedRow(f) == CASE pc[f] = "completing" -> Final("completed")
                     [] pc[f] = "recording" -> Final("dead_letter")
                     [] OTHER -> FailedRow(f)

\* The finalizing statement raises a database error: its commit may or may not
\* have happened, and the fence is released all the same.
FinalizeError(f) ==
    /\ pc[f] \in {"completing", "failing", "recording"}
    /\ Fault
    /\ \/ Owns(f) /\ SetRow(f, FinalizedRow(f))
       \/ UNCHANGED row
    /\ ReleaseFence(f)
    /\ Goto(f, IF pc[f] = "recording" THEN "failed" ELSE "cleanup_failed")
    /\ UNCHANGED <<issued, script, token, beat, tries, applied, retried, lost>>

\* The finally block cancels and awaits the heartbeat, the runtime closes what
\* fences are left, and the script ends.
Cleanup(f) ==
    /\ pc[f] \in CleanupPcs
    /\ beat' = [beat EXCEPT ![f] = "off"]
    /\ ReleaseFence(f)
    /\ \/ /\ pc[f] = "cleanup_ok"
          /\ Goto(f, "returned")
          /\ UNCHANGED <<script, tries>>
       \/ /\ pc[f] = "cleanup_failed"
          /\ JobFails(f)
    /\ UNCHANGED <<row, issued, token, faults, applied, retried, lost>>

-----------------------------------------------------------------------------
(* The environment.                                                        *)

\* clock_timestamp() passes lease_expires_at.
LeaseExpires(d) ==
    /\ row[d].state = "claimed"
    /\ row[d].lease = "live"
    /\ row' = [row EXCEPT ![d].lease = "expired"]
    /\ UNCHANGED <<fence, issued, pc, script, token, beat, tries, faults, applied, retried, lost>>

\* The worker process dies: its sessions close and Windmill fails the script.
Crash(f) ==
    /\ pc[f] \in RunningPcs
    /\ Fault
    /\ ReleaseFence(f)
    /\ beat' = [beat EXCEPT ![f] = "off"]
    /\ JobFails(f)
    /\ UNCHANGED <<row, issued, token, applied, retried, lost>>

\* The server drops the fence's session while the worker goes on.
FenceSessionLost(f) ==
    /\ pc[f] \in FencedPcs
    /\ fence[DeliveryOf[f]] = token[f]
    /\ Fault
    /\ fence' = [fence EXCEPT ![DeliveryOf[f]] = NoToken]
    /\ lost' = [lost EXCEPT ![DeliveryOf[f]] = @ \union {token[f]}]
    /\ UNCHANGED <<row, issued, pc, script, token, beat, tries, applied, retried>>

\* Every flow has ended: the model stutters rather than deadlocks.
AllEnded ==
    /\ \A f \in Flows : pc[f] \in EndPcs
    /\ UNCHANGED vars

\* The steps a worker takes by itself.
Work(f) ==
    \/ AcquireFence(f) \/ FenceRefused(f) \/ ReadExisting(f)
    \/ Claim(f) \/ ClaimRefused(f)
    \/ EffectSucceeds(f) \/ EffectFails(f) \/ HeartbeatFails(f)
    \/ Complete(f) \/ Retry(f) \/ DeadLetter(f) \/ Cleanup(f)

Faulty(f) ==
    \/ ClaimCancelled(f) \/ ClaimError(f) \/ RenewError(f) \/ FinalizeError(f)
    \/ Crash(f) \/ FenceSessionLost(f)

Next ==
    \/ \E f \in Flows : Work(f) \/ Renew(f) \/ Faulty(f)
    \/ \E d \in Deliveries : LeaseExpires(d)
    \/ AllEnded

Spec == Init /\ [][Next]_vars

\* A script that can go on does: Windmill runs what it has scheduled and every
\* call of the effect is bounded by a timeout.  The heartbeat, the clock and
\* the faults owe nothing.
FairSpec == Spec /\ \A f \in Flows : WF_vars(Work(f))

-----------------------------------------------------------------------------
(* Properties.                                                             *)

\* Two flows never work on one delivery at once, however late a lease is
\* renewed, unless the database dropped the fence session of one of them: the
\* advisory lock, not the lease, is what keeps a running effect alone.
EffectExclusive ==
    \A f, g \in Flows :
        /\ f # g
        /\ DeliveryOf[f] = DeliveryOf[g]
        /\ pc[f] \in FencedPcs
        /\ pc[g] \in FencedPcs
        => \/ token[f] \in lost[DeliveryOf[f]]
           \/ token[g] \in lost[DeliveryOf[g]]

\* Lease expiry alone transfers nothing: as long as no fence session of the
\* delivery was ever lost, the flow that runs the effect or finalizes still owns
\* the row under its own token, so complete() and retry() cannot miss it.
OwnerKeepsRow ==
    \A f \in Flows :
        pc[f] \in OwningPcs /\ lost[DeliveryOf[f]] = {} => Owns(f)

\* An advisory lock is held only for a flow that is between taking it and
\* releasing it: no error path, late statement or crash leaks the fence.
NoFenceLeak ==
    \A d \in Deliveries :
        fence[d] # NoToken =>
            \E f \in Flows : /\ DeliveryOf[f] = d
                             /\ token[f] = fence[d]
                             /\ pc[f] \in FencedPcs \union CleanupPcs

\* A delivery is completed only after an effect finished for it.
CompletedAfterEffect ==
    \A d \in Deliveries : row[d].state = "completed" => applied[d] > 0

\* Without crashes, database errors and lost sessions the effect of a delivery
\* finishes at most once, over duplicate flows, retries, the failure module and
\* operator recovery together.
EffectOnce ==
    faults = 0 => \A d \in Deliveries : applied[d] <= 1

\* A completed delivery stays completed; a delivery is settled only by the flow
\* whose token its row carries, so an owner that was replaced cannot settle the
\* claim of its successor.
SettledByOwner ==
    [][\A d \in Deliveries :
        /\ row[d].state = "completed" => row'[d] = row[d]
        /\ row'[d] # row[d] /\ row'[d].state \in {"completed", "dead_letter"} =>
              \E f \in Flows : /\ DeliveryOf[f] = d
                               /\ Owns(f)
                               /\ pc[f] \in OwningPcs
                               /\ pc'[f] \notin OwningPcs]_vars

Settled(d) == row[d].state \in {"completed", "dead_letter"}

\* A heartbeat statement that ran after retry() brought a lease back to life.
LateRenewal(d) == /\ row[d].state = "claimed"
                  /\ row[d].token = retried[d]
                  /\ row[d].lease = "live"

\* A delivery that some flow carries is completed or dead-lettered in the end,
\* unless a fault occurred or a heartbeat renewed a lease that retry() had given
\* back: duplicates, failing effects and the failure module alone lose nothing.
DeliverySettles ==
    \A d \in Deliveries : <>(Settled(d) \/ faults > 0 \/ LateRenewal(d))

\* Every flow ends: a flow that meets another's lock or lease is turned away (claim),
\* and neither waits for it nor retries without end.
FlowsEnd == <>(\A f \in Flows : pc[f] \in EndPcs)
=============================================================================
