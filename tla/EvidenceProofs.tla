--------------------------- MODULE EvidenceProofs ---------------------------
(***************************************************************************)
(* Safety of Evidence for any pull requests, processes and bounds.         *)
(*                                                                         *)
(* Every copy of a fact, in a webhook, in a worker, in an association or    *)
(* in a projection, may be old.  The argument is that the facts that count  *)
(* do not age: a merge is final in GitHub, and that the checks of a head    *)
(* once passed stays true.  The invariant says of each copy that it was     *)
(* true once, so that late deliveries and stale reads stay harmless.        *)
(***************************************************************************)
EXTENDS Evidence, TLAPS

\* The places at which a worker is busy with one pull request.
PullPcs == {"evidence", "checks", "bind", "record"}

\* A worker busy with a pull request knows which.
PullKnown ==
    \A w \in Workers : pc[w] \in PullPcs => facts[w].pull \in Pulls

\* Nothing is known of a pull request that was not opened.
PullsOpened ==
    /\ \A p \in Pulls : gh[p].state = "closed" => gh[p].head # NoHead
    /\ \A e \in sent : e.head # NoHead /\ gh[e.pull].head # NoHead
    /\ \A p \in Pulls : assoc[p].bound => assoc[p].head # NoHead /\ gh[p].head # NoHead
    /\ \A w \in Workers : \A p \in todo[w] : gh[p].head # NoHead
    /\ \A w \in Workers : pc[w] \in PullPcs => gh[facts[w].pull].head # NoHead
    /\ \A w \in Workers : pc[w] \in PullPcs \ {"evidence"} => facts[w].head # NoHead

\* Whoever takes a pull request for merged is right, and takes it for closed.
MergesTrue ==
    /\ \A p \in Pulls : gh[p].merged => gh[p].state = "closed"
    /\ \A e \in sent : e.merged => gh[e.pull].merged /\ e.state = "closed"
    /\ \A w \in Workers : facts[w].merged =>
          facts[w].pull \in Pulls /\ gh[facts[w].pull].merged /\ facts[w].state = "closed"
    /\ \A p \in Pulls : assoc[p].merged =>
          gh[p].merged /\ assoc[p].bound /\ assoc[p].state = "closed"

\* Whoever takes the checks of a head for passed saw them pass.
ChecksTrue ==
    /\ green \subseteq everGreen
    /\ \A w \in Workers : facts[w].green => <<facts[w].pull, facts[w].head>> \in everGreen
    /\ SuccessIsCurrent

\* A projection on its way is as justified as one that arrived.
ProjectionsTrue ==
    /\ \A w \in Workers : desired[w].evidence = "pr_merged" => \E p \in Pulls : gh[p].merged
    /\ \A w \in Workers : desired[w].evidence = "check_passed" => everGreen # {}
    /\ EvidenceJustified

\* The inductive invariant.
EvidenceInv ==
    /\ TypeOK
    /\ PullKnown
    /\ PullsOpened
    /\ MergesTrue
    /\ ChecksTrue
    /\ ProjectionsTrue

-----------------------------------------------------------------------------
(* The transaction that binds facts to an association.                      *)

\* A bound association is an association; its head is the old one or the one
\* bound, its merge was known before or comes with the facts, and its success
\* is the old one of the same head or none.
LEMMA BoundFacts ==
    ASSUME NEW a \in Association, NEW f \in Facts, NEW at \in Nat,
           f.merged => f.state = "closed",
           a.merged => a.bound /\ a.state = "closed",
           a.success # NoHead => a.success = a.head
    PROVE  LET b == Bound(a, f, at) IN
           /\ b \in Association
           /\ b.bound
           /\ b.head = f.head \/ (a.bound /\ b.head = a.head)
           /\ b.merged => (a.merged \/ f.merged) /\ b.state = "closed"
           /\ b.success # NoHead => b.success = a.success /\ b.head = a.head
  <1> DEFINE b == Bound(a, f, at)
  <1>1. CASE ~a.bound
    <2>1. b = Inserted(f, at)
      BY <1>1 DEF Bound
    <2> QED
      BY <2>1 DEF Inserted, Association, Facts, NoHead, PullStates
  <1>2. CASE a.bound /\ Replaces(a, f, at)
    <2>1. b = [a EXCEPT !.head = f.head, !.observed = at, !.state = f.state,
                        !.success = IF f.head # a.head THEN NoHead ELSE @]
      BY <1>2 DEF Bound
    <2>2. ~a.merged
      BY <1>2 DEF Replaces
    <2>3. b \in Association
      <3> DEFINE kept == IF f.head # a.head THEN NoHead ELSE a.success
      <3>1. kept \in Nat /\ f.head \in Nat /\ f.state \in PullStates
        BY DEF Association, Facts, NoHead
      <3>2. b = [a EXCEPT !.head = f.head, !.observed = at, !.state = f.state,
                          !.success = kept]
        BY <2>1
      <3> HIDE DEF kept, b
      <3> QED
        BY <3>1, <3>2 DEF Association
    <2>4. b.bound = a.bound /\ b.merged = a.merged /\ b.head = f.head
      BY <2>1 DEF Association
    <2>5. b.success = IF f.head # a.head THEN NoHead ELSE a.success
      BY <2>1 DEF Association
    <2> QED
      BY <1>2, <2>2, <2>3, <2>4, <2>5
  <1>3. CASE a.bound /\ ~Replaces(a, f, at)
    <2>1. b = Merged(a, f)
      BY <1>3 DEF Bound
    <2>2. b = [a EXCEPT !.merged = a.merged \/ f.merged,
                        !.state = IF a.merged \/ f.merged THEN "closed" ELSE @]
      BY <2>1 DEF Merged
    <2> QED
      BY <1>3, <2>2 DEF Association, Facts, PullStates
  <1> QED
    BY <1>1, <1>2, <1>3

\* After the merge only the same head can be bound, and changes nothing.
LEMMA BoundAfterMerge ==
    ASSUME NEW a \in Association, NEW f \in Facts, NEW at \in Nat,
           a.merged, a.bound, a.state = "closed",
           ~Mismatch(a, f, at)
    PROVE  Bound(a, f, at) = a
  <1>1. ~Replaces(a, f, at)
    BY DEF Replaces
  <1>2. Bound(a, f, at) = Merged(a, f)
    BY <1>1 DEF Bound
  <1>3. Merged(a, f) = [a EXCEPT !.merged = TRUE, !.state = "closed"]
    BY DEF Merged
  <1> QED
    BY <1>2, <1>3 DEF Association

-----------------------------------------------------------------------------
(* GitHub.                                                                  *)

\* What happens in GitHub there.
Changes(p) == Push(p) \/ Close(p) \/ Reopen(p) \/ CheckCompletes(p)

\* A pull request's next facts and the webhook that carries them.
LEMMA ChangesFacts ==
    ASSUME EvidenceInv, NEW p \in Pulls, Changes(p)
    PROVE  \E kind \in {"pull_request", "check_run"}, v \in PullFacts :
              /\ Happens(p, kind, v)
              /\ v.head # NoHead
              /\ gh[p].merged => v.merged
              /\ v.merged => v.state = "closed"
  <1> USE DEF EvidenceInv, TypeOK, MergesTrue, PullFacts, PullStates, NoHead
  <1>0. /\ gh[p] \in PullFacts
        /\ gh[p].merged => gh[p].state = "closed"
    OBVIOUS
  <1>1. CASE Push(p)
    <2> DEFINE v == [gh[p] EXCEPT !.head = @ + 1]
    <2>1. v \in PullFacts /\ v.head # NoHead /\ v.merged = gh[p].merged /\ ~v.merged
      BY <1>0, <1>1 DEF Push
    <2>2. Happens(p, "pull_request", v)
      BY <1>1 DEF Push
    <2> QED
      BY <2>1, <2>2
  <1>2. CASE Close(p)
    <2>1. PICK m \in BOOLEAN :
             Happens(p, "pull_request", [gh[p] EXCEPT !.state = "closed", !.merged = m])
      BY <1>2 DEF Close
    <2> DEFINE v == [gh[p] EXCEPT !.state = "closed", !.merged = m]
    <2>2. v \in PullFacts /\ v.head # NoHead /\ v.state = "closed" /\ ~gh[p].merged
      BY <1>0, <1>2 DEF Close
    <2> QED
      BY <2>1, <2>2
  <1>3. CASE Reopen(p)
    <2> DEFINE v == [gh[p] EXCEPT !.state = "open"]
    <2>1. v \in PullFacts /\ v.merged = gh[p].merged /\ v.head = gh[p].head /\ ~v.merged
      BY <1>0, <1>3 DEF Reopen
    <2>2. Happens(p, "pull_request", v)
      BY <1>3 DEF Reopen
    <2>3. gh[p].head # NoHead
      BY <1>3 DEF Reopen, PullsOpened
    <2> QED
      BY <2>1, <2>2, <2>3
  <1>4. CASE CheckCompletes(p)
    BY <1>0, <1>4 DEF CheckCompletes
  <1> QED
    BY <1>1, <1>2, <1>3, <1>4 DEF Changes

\* The checks of a head that passed once are never forgotten.
LEMMA ChangesChecks ==
    ASSUME EvidenceInv, NEW p \in Pulls, Changes(p)
    PROVE  /\ green' \subseteq everGreen'
           /\ everGreen \subseteq everGreen'
           /\ everGreen' \subseteq Pulls \X Nat
  <1> USE DEF EvidenceInv, ChecksTrue
  <1>1. CASE UNCHANGED <<green, everGreen>>
    BY <1>1 DEF TypeOK
  <1>2. CASE CheckCompletes(p)
    <2>1. <<p, gh[p].head>> \in Pulls \X Nat
      BY DEF TypeOK, PullFacts
    <2> QED
      BY <1>2, <2>1 DEF CheckCompletes, TypeOK
  <1> QED
    BY <1>1, <1>2 DEF Changes, Push, Close, Reopen

\* What happens in GitHub leaves every older copy of a fact true.
LEMMA ChangesStep ==
    ASSUME EvidenceInv, NEW p \in Pulls, Changes(p)
    PROVE  EvidenceInv'
  <1>1. PICK kind \in {"pull_request", "check_run"}, v \in PullFacts :
              /\ Happens(p, kind, v)
              /\ v.head # NoHead
              /\ gh[p].merged => v.merged
              /\ v.merged => v.state = "closed"
    BY ChangesFacts
  <1> DEFINE e0 == [kind |-> kind, pull |-> p, head |-> v.head, state |-> v.state,
                    merged |-> v.merged, at |-> now]
  <1>2. /\ gh' = [gh EXCEPT ![p] = v]
        /\ sent' = sent \union {e0}
        /\ changes' = changes + 1 /\ changes < MaxChanges
        /\ UNCHANGED <<now, assoc, package, pc, job, todo, facts, desired, seen, edits, faults>>
    BY <1>1 DEF Happens, worker
  <1>3. TypeOK
    BY DEF EvidenceInv
  <1>4. /\ gh' \in [Pulls -> PullFacts]
        /\ \A q \in Pulls : gh[q].head # NoHead => gh'[q].head # NoHead
        /\ \A q \in Pulls : gh[q].merged => gh'[q].merged
        /\ gh'[p].head # NoHead
        /\ gh'[p] = v
        /\ \A q \in Pulls : q # p => gh'[q] = gh[q]
    BY <1>1, <1>2, <1>3 DEF TypeOK
  <1>5. e0 \in Events /\ e0.pull = p /\ e0.head = v.head /\ e0.merged = v.merged
        /\ e0.state = v.state
    BY <1>3 DEF Events, PullFacts, TypeOK
  <1> HIDE DEF e0
  <1>6. sent \subseteq Events
    BY <1>3 DEF TypeOK
  <1>7. \A e \in sent : e.pull \in Pulls
    BY <1>6 DEF Events
  <1>8. TypeOK'
    <2>1. sent' \subseteq Events
      BY <1>2, <1>5, <1>6
    <2>2. green' \subseteq Pulls \X Nat /\ everGreen' \subseteq Pulls \X Nat
      BY ChangesChecks
    <2>3. changes' \in 0..MaxChanges
      BY <1>2, <1>3, EvidenceAssumption DEF TypeOK
    <2> QED
      BY <1>2, <1>3, <1>4, <2>1, <2>2, <2>3 DEF TypeOK
  <1>9. PullKnown'
    BY <1>2 DEF EvidenceInv, PullKnown
  <1>10. PullsOpened'
    <2>1. \A e \in sent' : e.head # NoHead /\ gh'[e.pull].head # NoHead
      BY <1>1, <1>2, <1>4, <1>5, <1>7 DEF EvidenceInv, PullsOpened
    <2>2. \A q \in Pulls : gh'[q].state = "closed" => gh'[q].head # NoHead
      BY <1>4 DEF EvidenceInv, PullsOpened
    <2>3. \A w \in Workers : todo[w] \subseteq Pulls
      BY <1>3 DEF TypeOK
    <2>4. \A q \in Pulls : assoc'[q].bound => assoc'[q].head # NoHead /\ gh'[q].head # NoHead
      BY <1>2, <1>4 DEF EvidenceInv, PullsOpened
    <2>5. \A w \in Workers : \A q \in todo'[w] : gh'[q].head # NoHead
      BY <1>2, <1>4, <2>3 DEF EvidenceInv, PullsOpened
    <2>6. \A w \in Workers : pc'[w] \in PullPcs => gh'[facts'[w].pull].head # NoHead
      BY <1>2, <1>4 DEF EvidenceInv, PullsOpened, PullKnown
    <2>7. \A w \in Workers : pc'[w] \in PullPcs \ {"evidence"} => facts'[w].head # NoHead
      BY <1>2 DEF EvidenceInv, PullsOpened
    <2> QED
      BY <2>1, <2>2, <2>4, <2>5, <2>6, <2>7 DEF PullsOpened, NoHead
  <1>11. MergesTrue'
    <2>1. \A e \in sent' : e.merged => gh'[e.pull].merged /\ e.state = "closed"
      BY <1>1, <1>2, <1>4, <1>5, <1>7 DEF EvidenceInv, MergesTrue
    <2>2. \A q \in Pulls : gh'[q].merged => gh'[q].state = "closed"
      BY <1>1, <1>4 DEF EvidenceInv, MergesTrue
    <2>3. \A w \in Workers : facts'[w].merged =>
             facts'[w].pull \in Pulls /\ gh'[facts'[w].pull].merged /\ facts'[w].state = "closed"
      BY <1>2, <1>4 DEF EvidenceInv, MergesTrue
    <2>4. \A q \in Pulls : assoc'[q].merged =>
             gh'[q].merged /\ assoc'[q].bound /\ assoc'[q].state = "closed"
      BY <1>2, <1>4 DEF EvidenceInv, MergesTrue
    <2> QED
      BY <2>1, <2>2, <2>3, <2>4 DEF MergesTrue
  <1>12. ChecksTrue'
    BY <1>2, ChangesChecks DEF EvidenceInv, ChecksTrue, SuccessIsCurrent, NoHead
  <1>13. ProjectionsTrue'
    BY <1>2, <1>4, ChangesChecks DEF EvidenceInv, ProjectionsTrue, EvidenceJustified
  <1> QED
    BY <1>8, <1>9, <1>10, <1>11, <1>12, <1>13 DEF EvidenceInv

-----------------------------------------------------------------------------
(* One worker.                                                              *)

\* What the invariant asks of one worker's facts, of its place with them, of an
\* association and of an evidence value.
GoodFacts(f) ==
    /\ f \in Facts
    /\ f.merged => f.pull \in Pulls /\ gh[f.pull].merged /\ f.state = "closed"
    /\ f.green => <<f.pull, f.head>> \in everGreen

GoodPlace(l, f) ==
    /\ l \in Pcs
    /\ l \in PullPcs => f.pull \in Pulls /\ gh[f.pull].head # NoHead
    /\ l \in PullPcs \ {"evidence"} => f.head # NoHead

GoodAssociation(p, a) ==
    /\ a \in Association
    /\ a.bound => a.head # NoHead /\ gh[p].head # NoHead
    /\ a.merged => gh[p].merged /\ a.bound /\ a.state = "closed"
    /\ a.success # NoHead => a.success = a.head /\ <<p, a.head>> \in everGreen

GoodEvidence(e) ==
    /\ e = "pr_merged" => \E p \in Pulls : gh[p].merged
    /\ e = "check_passed" => everGreen # {}

Packages == [status : Statuses, evidence : Evidences, lock : Nat]

\* A step of worker w that touches no other worker and not GitHub.
Local(w) ==
    /\ UNCHANGED github
    /\ pc' \in [Workers -> Pcs]
    /\ job' \in [Workers -> Jobs]
    /\ todo' \in [Workers -> SUBSET Pulls]
    /\ facts' \in [Workers -> Facts]
    /\ desired' \in [Workers -> Projections]
    /\ seen' \in [Workers -> Nat]
    /\ \A v \in Workers \ {w} :
          /\ pc'[v] = pc[v]
          /\ todo'[v] = todo[v]
          /\ facts'[v] = facts[v]
          /\ desired'[v] = desired[v]

\* Before a step everything is good ...
LEMMA GoodNow ==
    ASSUME EvidenceInv
    PROVE  /\ \A w \in Workers :
                 /\ GoodFacts(facts[w])
                 /\ GoodPlace(pc[w], facts[w])
                 /\ GoodEvidence(desired[w].evidence)
                 /\ \A p \in todo[w] : p \in Pulls /\ gh[p].head # NoHead
           /\ \A p \in Pulls : GoodAssociation(p, assoc[p])
           /\ package \in Packages
           /\ GoodEvidence(package.evidence)
  <1> USE DEF EvidenceInv
  <1>1. \A w \in Workers : GoodFacts(facts[w])
    BY DEF TypeOK, MergesTrue, ChecksTrue, GoodFacts
  <1>2. \A w \in Workers : GoodPlace(pc[w], facts[w])
    BY DEF TypeOK, PullKnown, PullsOpened, GoodPlace
  <1>3. \A w \in Workers : GoodEvidence(desired[w].evidence)
    BY DEF ProjectionsTrue, GoodEvidence
  <1>4. \A w \in Workers : \A p \in todo[w] : p \in Pulls /\ gh[p].head # NoHead
    BY DEF TypeOK, PullsOpened
  <1>5. \A p \in Pulls : GoodAssociation(p, assoc[p])
    BY DEF TypeOK, PullsOpened, MergesTrue, ChecksTrue, SuccessIsCurrent, GoodAssociation
  <1>6. package \in Packages /\ GoodEvidence(package.evidence)
    BY DEF TypeOK, Packages, ProjectionsTrue, EvidenceJustified, GoodEvidence
  <1> QED
    BY <1>1, <1>2, <1>3, <1>4, <1>5, <1>6

\* ... and a local step that leaves good values keeps the invariant.
LEMMA LocalStep ==
    ASSUME EvidenceInv, NEW w \in Workers, Local(w),
           GoodFacts(facts'[w]),
           GoodPlace(pc'[w], facts'[w]),
           GoodEvidence(desired'[w].evidence),
           \A p \in todo'[w] : gh[p].head # NoHead,
           \A p \in Pulls : GoodAssociation(p, assoc'[p]),
           assoc' \in [Pulls -> Association],
           package' \in Packages,
           GoodEvidence(package'.evidence),
           edits' \in 0..MaxEdits,
           faults' \in 0..MaxFaults
    PROVE  EvidenceInv'
  <1>1. UNCHANGED <<now, gh, green, everGreen, sent, changes>>
    BY DEF Local, github
  <1>2. TypeOK'
    BY <1>1 DEF EvidenceInv, TypeOK, Local, Packages
  <1>3. \A v \in Workers :
           /\ GoodFacts(facts'[v])
           /\ GoodPlace(pc'[v], facts'[v])
           /\ GoodEvidence(desired'[v].evidence)
           /\ \A p \in todo'[v] : gh[p].head # NoHead
    BY GoodNow DEF Local
  <1>4. PullKnown'
    BY <1>3 DEF PullKnown, GoodPlace
  <1>5. PullsOpened'
    <2>1. /\ \A p \in Pulls : gh'[p].state = "closed" => gh'[p].head # NoHead
          /\ \A e \in sent' : e.head # NoHead /\ gh'[e.pull].head # NoHead
      BY <1>1 DEF EvidenceInv, PullsOpened
    <2>2. \A p \in Pulls : assoc'[p].bound => assoc'[p].head # NoHead /\ gh'[p].head # NoHead
      BY <1>1 DEF GoodAssociation
    <2>3. \A v \in Workers : \A p \in todo'[v] : gh'[p].head # NoHead
      BY <1>1, <1>3
    <2>4. \A v \in Workers : pc'[v] \in PullPcs => gh'[facts'[v].pull].head # NoHead
      BY <1>1, <1>3 DEF GoodPlace
    <2>5. \A v \in Workers : pc'[v] \in PullPcs \ {"evidence"} => facts'[v].head # NoHead
      BY <1>3 DEF GoodPlace
    <2> QED
      BY <2>1, <2>2, <2>3, <2>4, <2>5 DEF PullsOpened, NoHead
  <1>6. MergesTrue'
    BY <1>1, <1>3 DEF EvidenceInv, MergesTrue, GoodFacts, GoodAssociation
  <1>7. ChecksTrue'
    <2>1. SuccessIsCurrent'
      BY <1>1 DEF SuccessIsCurrent, GoodAssociation, NoHead
    <2> QED
      BY <1>1, <1>3, <2>1 DEF EvidenceInv, ChecksTrue, GoodFacts
  <1>8. ProjectionsTrue'
    BY <1>1, <1>3 DEF ProjectionsTrue, EvidenceJustified, GoodEvidence
  <1> QED
    BY <1>2, <1>4, <1>5, <1>6, <1>7, <1>8 DEF EvidenceInv

\* The empty values are good ones.
LEMMA GoodNothing ==
    /\ GoodFacts(NoFacts)
    /\ NoFacts \in Facts
    /\ NoJob \in Jobs
    /\ Nothing \in Projections
    /\ GoodEvidence(Nothing.evidence)
    /\ \A l \in Pcs \ PullPcs : \A f : GoodPlace(l, f)
  BY DEF GoodFacts, GoodPlace, GoodEvidence, NoFacts, Facts, NoJob, Jobs, Nothing,
         Projections, PullStates, None, NoHead, PullPcs

\* A worker that leaves is local and good.
LEMMA LeaveStep ==
    ASSUME EvidenceInv, NEW w \in Workers, Leave(w), UNCHANGED <<github, assoc>>,
           package' \in Packages,
           GoodEvidence(package'.evidence),
           edits' \in 0..MaxEdits,
           faults' \in 0..MaxFaults
    PROVE  EvidenceInv'
  <1>1. TypeOK
    BY DEF EvidenceInv
  <1>2. /\ pc' = [pc EXCEPT ![w] = "idle"] /\ job' = [job EXCEPT ![w] = NoJob]
        /\ todo' = [todo EXCEPT ![w] = {}] /\ facts' = [facts EXCEPT ![w] = NoFacts]
        /\ desired' = [desired EXCEPT ![w] = Nothing] /\ seen' = [seen EXCEPT ![w] = 0]
    BY DEF Leave, Goto
  <1>3. "idle" \in Pcs \ PullPcs
    BY DEF Pcs, PullPcs
  <1>4. Local(w)
    BY <1>1, <1>2, <1>3, GoodNothing DEF Local, TypeOK
  <1>5. /\ pc'[w] = "idle" /\ facts'[w] = NoFacts /\ desired'[w] = Nothing /\ todo'[w] = {}
    BY <1>1, <1>2 DEF TypeOK
  <1>6. \A p \in Pulls : GoodAssociation(p, assoc'[p])
    BY GoodNow
  <1> QED
    BY <1>1, <1>3, <1>4, <1>5, <1>6, GoodNothing, LocalStep DEF TypeOK

\* A worker that only moves on, with the associations it leaves behind.
LEMMA GotoStep ==
    ASSUME EvidenceInv, NEW w \in Workers, NEW l \in Pcs, Goto(w, l),
           GoodPlace(l, facts[w]),
           UNCHANGED <<github, worker, package, edits>>,
           faults' \in 0..MaxFaults,
           assoc' \in [Pulls -> Association],
           \A p \in Pulls : GoodAssociation(p, assoc'[p])
    PROVE  EvidenceInv'
  <1>1. TypeOK
    BY DEF EvidenceInv
  <1>2. pc' = [pc EXCEPT ![w] = l] /\ UNCHANGED <<job, todo, facts, desired, seen>>
    BY DEF Goto, worker
  <1>3. Local(w)
    BY <1>1, <1>2 DEF Local, TypeOK
  <1>4. pc'[w] = l
    BY <1>1, <1>2 DEF TypeOK
  <1>5. /\ GoodFacts(facts'[w]) /\ GoodPlace(pc'[w], facts'[w])
        /\ GoodEvidence(desired'[w].evidence)
        /\ \A p \in todo'[w] : gh[p].head # NoHead
        /\ package' \in Packages /\ GoodEvidence(package'.evidence)
    BY <1>2, <1>4, GoodNow
  <1>6. edits' \in 0..MaxEdits
    BY <1>1 DEF TypeOK
  <1> QED
    BY <1>3, <1>5, <1>6, LocalStep

\* A worker that moves on with new facts, and perhaps fewer pulls to scan.
LEMMA FactsStep ==
    ASSUME EvidenceInv, NEW w \in Workers, NEW l \in Pcs, NEW f \in Facts,
           NEW T \in SUBSET Pulls,
           Goto(w, l),
           facts' = [facts EXCEPT ![w] = f],
           todo' = [todo EXCEPT ![w] = T],
           job' \in [Workers -> Jobs],
           GoodFacts(f), GoodPlace(l, f),
           \A p \in T : gh[p].head # NoHead,
           UNCHANGED <<github, assoc, package, desired, seen, edits, faults>>
    PROVE  EvidenceInv'
  <1>1. TypeOK
    BY DEF EvidenceInv
  <1>2. pc' = [pc EXCEPT ![w] = l]
    BY DEF Goto
  <1>3. Local(w)
    BY <1>1, <1>2 DEF Local, TypeOK
  <1>4. pc'[w] = l /\ facts'[w] = f /\ todo'[w] = T
    BY <1>1, <1>2 DEF TypeOK
  <1>5. /\ GoodEvidence(desired'[w].evidence)
        /\ \A p \in Pulls : GoodAssociation(p, assoc'[p])
        /\ package' \in Packages /\ GoodEvidence(package'.evidence)
    BY GoodNow
  <1>6. edits' \in 0..MaxEdits /\ faults' \in 0..MaxFaults /\ assoc' \in [Pulls -> Association]
    BY <1>1 DEF TypeOK
  <1> QED
    BY <1>3, <1>4, <1>5, <1>6, LocalStep

-----------------------------------------------------------------------------
(* The actions.                                                             *)

\* A delivery's facts were true when it was sent.
LEMMA DeliveryStep ==
    ASSUME EvidenceInv, NEW w \in Workers, NEW e \in sent, NEW l \in {"bind", "evidence"},
           Begin(w, e, l), UNCHANGED <<github, assoc, package, edits, faults>>
    PROVE  EvidenceInv'
  <1> DEFINE f == [pull |-> e.pull, head |-> e.head, state |-> e.state,
                   merged |-> e.merged, green |-> FALSE]
             j == [kind |-> e.kind, at |-> e.at]
  <1>1. TypeOK
    BY DEF EvidenceInv
  <1>2. e \in Events
    BY <1>1 DEF TypeOK
  <1>3. f \in Facts /\ j \in Jobs /\ e.pull \in Pulls
    BY <1>2 DEF Events, Facts, Jobs
  <1>4. /\ e.head # NoHead /\ gh[e.pull].head # NoHead
        /\ e.merged => gh[e.pull].merged /\ e.state = "closed"
    BY DEF EvidenceInv, PullsOpened, MergesTrue
  <1>5. f.pull = e.pull /\ f.head = e.head /\ f.state = e.state /\ f.merged = e.merged
        /\ f.green = FALSE
    OBVIOUS
  <1>6. /\ Goto(w, l) /\ facts' = [facts EXCEPT ![w] = f] /\ job' = [job EXCEPT ![w] = j]
        /\ UNCHANGED <<todo, desired, seen>>
    BY DEF Begin
  <1> HIDE DEF f, j
  <1>7. GoodFacts(f)
    BY <1>3, <1>4, <1>5 DEF GoodFacts
  <1>8. GoodPlace(l, f) /\ l \in Pcs
    BY <1>3, <1>4, <1>5 DEF GoodPlace, Pcs
  <1>9. todo' = [todo EXCEPT ![w] = todo[w]] /\ todo[w] \in SUBSET Pulls
        /\ job' \in [Workers -> Jobs]
    BY <1>1, <1>3, <1>6 DEF TypeOK
  <1>10. \A p \in todo[w] : gh[p].head # NoHead
    BY GoodNow
  <1> QED
    BY <1>3, <1>6, <1>7, <1>8, <1>9, <1>10, FactsStep

\* A scan begins with associations of opened pull requests.
LEMMA StartReconcileStep ==
    ASSUME EvidenceInv, NEW w \in Workers, StartReconcile(w)
    PROVE  EvidenceInv'
  <1> DEFINE T == {p \in Pulls : assoc[p].bound}
             j == [kind |-> "reconcile", at |-> now]
  <1>1. TypeOK
    BY DEF EvidenceInv
  <1>2. j \in Jobs
    BY <1>1, EvidenceAssumption DEF TypeOK, Jobs
  <1>3. /\ Goto(w, "scan") /\ todo' = [todo EXCEPT ![w] = T] /\ job' = [job EXCEPT ![w] = j]
        /\ UNCHANGED <<github, assoc, package, facts, desired, seen, edits, faults>>
    BY DEF StartReconcile
  <1>4. facts' = [facts EXCEPT ![w] = facts[w]] /\ facts[w] \in Facts
        /\ job' \in [Workers -> Jobs]
    BY <1>1, <1>2, <1>3 DEF TypeOK
  <1>5. \A p \in T : gh[p].head # NoHead
    BY DEF EvidenceInv, PullsOpened
  <1>6. "scan" \in Pcs /\ GoodPlace("scan", facts[w]) /\ GoodFacts(facts[w])
    BY GoodNow DEF Pcs, GoodPlace, PullPcs
  <1> QED
    BY <1>2, <1>3, <1>4, <1>5, <1>6, FactsStep

\* The next association of a scan names an opened pull request.
LEMMA ScanStep ==
    ASSUME EvidenceInv, NEW w \in Workers, Scan(w)
    PROVE  EvidenceInv'
  <1>1. TypeOK
    BY DEF EvidenceInv
  <1>2. PICK p \in todo[w] :
           /\ todo' = [todo EXCEPT ![w] = @ \ {p}]
           /\ facts' = [facts EXCEPT ![w] = [NoFacts EXCEPT !.pull = p]]
    BY DEF Scan
  <1> DEFINE f == [NoFacts EXCEPT !.pull = p]
             T == todo[w] \ {p}
  <1>3. p \in Pulls /\ gh[p].head # NoHead
    BY GoodNow
  <1>4. f \in Facts /\ f.pull = p /\ f.merged = FALSE /\ f.green = FALSE
    BY <1>3 DEF NoFacts, Facts, PullStates, NoHead
  <1>5. /\ Goto(w, "evidence") /\ todo' = [todo EXCEPT ![w] = T]
        /\ facts' = [facts EXCEPT ![w] = f]
        /\ UNCHANGED <<github, assoc, package, job, desired, seen, edits, faults>>
    BY <1>1, <1>2 DEF Scan, TypeOK
  <1> HIDE DEF f
  <1>6. GoodFacts(f) /\ "evidence" \in Pcs /\ GoodPlace("evidence", f)
    BY <1>3, <1>4 DEF GoodFacts, GoodPlace, Pcs, PullPcs
  <1>7. T \in SUBSET Pulls /\ (\A q \in T : gh[q].head # NoHead)
    BY GoodNow
  <1>8. job' \in [Workers -> Jobs] /\ NoJob \in Jobs
    BY <1>1, <1>5, GoodNothing DEF TypeOK
  <1> QED
    BY <1>4, <1>5, <1>6, <1>7, <1>8, FactsStep

\* The facts a worker keeps while it moves to a place without a pull request.
LEMMA MoveAway ==
    ASSUME EvidenceInv, NEW w \in Workers, NEW l \in Pcs \ PullPcs, Goto(w, l),
           UNCHANGED <<github, worker, assoc, package, edits>>,
           faults' \in 0..MaxFaults
    PROVE  EvidenceInv'
  <1>1. GoodPlace(l, facts[w])
    BY DEF GoodPlace
  <1>2. assoc' \in [Pulls -> Association] /\ \A p \in Pulls : GoodAssociation(p, assoc'[p])
    BY GoodNow DEF EvidenceInv, TypeOK
  <1> QED
    BY <1>1, <1>2, GotoStep

\* A worker that gives up leaves the rest as it is.
LEMMA GiveUp ==
    ASSUME EvidenceInv, NEW w \in Workers, Leave(w),
           UNCHANGED <<github, assoc, package, edits>>,
           faults' \in 0..MaxFaults
    PROVE  EvidenceInv'
  <1>1. package' \in Packages /\ GoodEvidence(package'.evidence)
    BY GoodNow
  <1>2. edits' \in 0..MaxEdits
    BY DEF EvidenceInv, TypeOK
  <1> QED
    BY <1>1, <1>2, LeaveStep

\* The end of a scan changes no fact.
LEMMA ScannedStep ==
    ASSUME EvidenceInv, NEW w \in Workers, Scanned(w)
    PROVE  EvidenceInv'
  <1>1. faults' \in 0..MaxFaults /\ UNCHANGED <<github, assoc, package, edits>>
    BY DEF EvidenceInv, TypeOK, Scanned
  <1>2. CASE Goto(w, "project") /\ UNCHANGED worker
    <2>1. "project" \in Pcs \ PullPcs
      BY DEF Pcs, PullPcs
    <2> QED
      BY <1>1, <1>2, <2>1, MoveAway
  <1>3. CASE Leave(w)
    BY <1>1, <1>3, GiveUp
  <1> QED
    BY <1>2, <1>3 DEF Scanned

\* What is read of a pull request is what GitHub has.
LEMMA ReadPullStep ==
    ASSUME EvidenceInv, NEW w \in Workers, ReadPull(w)
    PROVE  EvidenceInv'
  <1>1. TypeOK
    BY DEF EvidenceInv
  <1>2. UNCHANGED <<github, assoc, package, edits, faults>> /\ pc[w] = "evidence"
    BY DEF ReadPull
  <1>3. CASE Leave(w)
    BY <1>1, <1>2, <1>3, GiveUp DEF TypeOK
  <1>4. CASE ~Leave(w)
    <2> DEFINE p == facts[w].pull
               f == [pull |-> p, head |-> gh[p].head, state |-> gh[p].state,
                     merged |-> gh[p].merged, green |-> FALSE]
    <2>1. /\ facts' = [facts EXCEPT ![w] = f] /\ Goto(w, "checks")
          /\ UNCHANGED <<job, todo, desired, seen>>
      BY <1>4 DEF ReadPull
    <2>2. p \in Pulls /\ gh[p].head # NoHead
      BY <1>2, GoodNow DEF GoodPlace, PullPcs
    <2>3. gh[p] \in PullFacts /\ (gh[p].merged => gh[p].state = "closed")
      BY <1>1, <2>2 DEF TypeOK, EvidenceInv, MergesTrue
    <2>4. f \in Facts
      BY <2>2, <2>3 DEF Facts, PullFacts
    <2>5. f.pull = p /\ f.head = gh[p].head /\ f.merged = gh[p].merged
          /\ f.state = gh[p].state /\ f.green = FALSE
      OBVIOUS
    <2> HIDE DEF f, p
    <2>6. GoodFacts(f) /\ GoodPlace("checks", f) /\ "checks" \in Pcs
      BY <2>2, <2>3, <2>4, <2>5 DEF GoodFacts, GoodPlace, Pcs
    <2>7. /\ todo' = [todo EXCEPT ![w] = todo[w]] /\ todo[w] \in SUBSET Pulls
          /\ job' \in [Workers -> Jobs]
      BY <1>1, <2>1 DEF TypeOK
    <2>8. \A q \in todo[w] : gh[q].head # NoHead
      BY GoodNow
    <2> QED
      BY <1>2, <2>1, <2>4, <2>6, <2>7, <2>8, FactsStep
  <1> QED
    BY <1>3, <1>4

\* Checks that are read as passed have passed.
LEMMA ReadChecksStep ==
    ASSUME EvidenceInv, NEW w \in Workers, ReadChecks(w)
    PROVE  EvidenceInv'
  <1>1. TypeOK
    BY DEF EvidenceInv
  <1> DEFINE seenGreen == <<facts[w].pull, facts[w].head>> \in green
             f == [facts[w] EXCEPT !.green = seenGreen]
  <1>2. /\ pc[w] = "checks" /\ Goto(w, "bind") /\ facts' = [facts EXCEPT ![w] = f]
        /\ UNCHANGED <<github, assoc, package, job, todo, desired, seen, edits, faults>>
    BY <1>1 DEF ReadChecks, TypeOK
  <1>3. GoodFacts(facts[w]) /\ GoodPlace("checks", facts[w])
    BY <1>2, GoodNow
  <1>4. seenGreen => <<facts[w].pull, facts[w].head>> \in everGreen
    BY DEF EvidenceInv, ChecksTrue
  <1>5. seenGreen \in BOOLEAN
    OBVIOUS
  <1> HIDE DEF seenGreen
  <1>6. /\ f \in Facts /\ f.pull = facts[w].pull /\ f.head = facts[w].head
        /\ f.merged = facts[w].merged /\ f.state = facts[w].state /\ f.green = seenGreen
    BY <1>3, <1>5 DEF GoodFacts, Facts
  <1> HIDE DEF f
  <1>7. GoodFacts(f) /\ GoodPlace("bind", f) /\ "bind" \in Pcs
    BY <1>3, <1>4, <1>6 DEF GoodFacts, GoodPlace, Pcs, PullPcs
  <1>8. /\ todo' = [todo EXCEPT ![w] = todo[w]] /\ todo[w] \in SUBSET Pulls
        /\ job' \in [Workers -> Jobs]
    BY <1>1, <1>2 DEF TypeOK
  <1>9. \A q \in todo[w] : gh[q].head # NoHead
    BY GoodNow
  <1> QED
    BY <1>2, <1>6, <1>7, <1>8, <1>9, FactsStep

\* A failed read leaves the facts as they were.
LEMMA EvidenceFailsStep ==
    ASSUME EvidenceInv, NEW w \in Workers, EvidenceFails(w)
    PROVE  EvidenceInv'
  <1>1. faults' \in 0..MaxFaults /\ UNCHANGED <<github, assoc, package, edits>>
    BY EvidenceAssumption DEF EvidenceInv, TypeOK, EvidenceFails
  <1>2. "scan" \in Pcs \ PullPcs
    BY DEF Pcs, PullPcs
  <1> QED
    BY <1>1, <1>2, MoveAway, GiveUp DEF EvidenceFails

\* The facts that are bound keep an association good.
LEMMA BindFactsGood ==
    ASSUME EvidenceInv, NEW w \in Workers, pc[w] = "bind",
           assoc' = [assoc EXCEPT ![facts[w].pull] =
                        Bound(assoc[facts[w].pull], facts[w], job[w].at)]
    PROVE  /\ assoc' \in [Pulls -> Association]
           /\ \A p \in Pulls : GoodAssociation(p, assoc'[p])
  <1> DEFINE p == facts[w].pull
             a == assoc[p]
             b == Bound(a, facts[w], job[w].at)
  <1>1. TypeOK
    BY DEF EvidenceInv
  <1>2. GoodFacts(facts[w]) /\ GoodPlace("bind", facts[w])
    BY GoodNow
  <1>3. p \in Pulls /\ gh[p].head # NoHead /\ facts[w].head # NoHead
    BY <1>2 DEF GoodPlace, PullPcs
  <1>4. GoodAssociation(p, a)
    BY <1>3, GoodNow
  <1>5. job[w].at \in Nat
    BY <1>1 DEF TypeOK, Jobs
  <1>6. /\ b \in Association
        /\ b.bound
        /\ b.head = facts[w].head \/ (a.bound /\ b.head = a.head)
        /\ b.merged => (a.merged \/ facts[w].merged) /\ b.state = "closed"
        /\ b.success # NoHead => b.success = a.success /\ b.head = a.head
    BY <1>2, <1>4, <1>5, BoundFacts DEF GoodFacts, GoodAssociation
  <1> HIDE DEF b, a
  <1>7. GoodAssociation(p, b)
    BY <1>2, <1>3, <1>4, <1>6 DEF GoodAssociation, GoodFacts
  <1>8. assoc' = [assoc EXCEPT ![p] = b]
    BY DEF a, b
  <1> QED
    BY <1>1, <1>3, <1>6, <1>7, <1>8, GoodNow DEF TypeOK

\* Binding, or refusing to bind, keeps the associations true.
LEMMA BindFactsStep ==
    ASSUME EvidenceInv, NEW w \in Workers, BindFacts(w)
    PROVE  EvidenceInv'
  <1>1. /\ pc[w] = "bind" /\ faults' \in 0..MaxFaults
        /\ UNCHANGED <<github, package, edits>>
    BY DEF EvidenceInv, TypeOK, BindFacts
  <1>2. "scan" \in Pcs \ PullPcs /\ "project" \in Pcs \ PullPcs /\ "record" \in Pcs
    BY DEF Pcs, PullPcs
  <1>3. CASE UNCHANGED assoc /\ Goto(w, "scan") /\ UNCHANGED worker
    BY <1>1, <1>2, <1>3, MoveAway
  <1>4. CASE UNCHANGED assoc /\ Leave(w)
    BY <1>1, <1>4, GiveUp
  <1>5. CASE /\ assoc' = [assoc EXCEPT ![facts[w].pull] =
                             Bound(assoc[facts[w].pull], facts[w], job[w].at)]
             /\ Goto(w, "project") \/ Goto(w, "record")
             /\ UNCHANGED worker
    <2>1. /\ assoc' \in [Pulls -> Association]
          /\ \A p \in Pulls : GoodAssociation(p, assoc'[p])
      BY <1>1, <1>5, BindFactsGood
    <2>2. GoodPlace("project", facts[w]) /\ GoodPlace("record", facts[w])
      <3>1. GoodPlace("bind", facts[w])
        BY <1>1, GoodNow
      <3> QED
        BY <3>1, <1>2 DEF GoodPlace, PullPcs
    <2> QED
      BY <1>1, <1>2, <1>5, <2>1, <2>2, GotoStep
  <1>6. facts[w].pull \in DOMAIN assoc
    BY <1>1, GoodNow DEF GoodPlace, PullPcs, EvidenceInv, TypeOK
  <1> QED
    BY <1>3, <1>4, <1>5, <1>6 DEF BindFacts

\* A result is recorded only for the head it was read for.
LEMMA RecordStep ==
    ASSUME EvidenceInv, NEW w \in Workers, Record(w)
    PROVE  EvidenceInv'
  <1> DEFINE p == facts[w].pull
             a == assoc[p]
             current == a.head = facts[w].head
             s == IF ~current THEN a.success
                  ELSE IF facts[w].green THEN facts[w].head ELSE NoHead
             b == [a EXCEPT !.success = s]
  <1>1. TypeOK
    BY DEF EvidenceInv
  <1>2. /\ pc[w] = "record" /\ faults' \in 0..MaxFaults
        /\ UNCHANGED <<github, package, edits>>
    BY DEF EvidenceInv, TypeOK, Record
  <1>3. GoodFacts(facts[w]) /\ GoodPlace("record", facts[w])
    BY <1>2, GoodNow
  <1>4. p \in Pulls
    BY <1>3 DEF GoodPlace, PullPcs
  <1>5. GoodAssociation(p, a)
    BY <1>4, GoodNow
  <1>6. facts[w].head \in Nat /\ a.success \in Nat
    BY <1>3, <1>5 DEF GoodFacts, Facts, GoodAssociation, Association
  <1>7. /\ s \in Nat
        /\ s # NoHead => s = a.head /\ <<p, a.head>> \in everGreen
    BY <1>3, <1>5, <1>6 DEF GoodFacts, GoodAssociation, NoHead
  <1>8. assoc' = [assoc EXCEPT ![p] = b]
    BY <1>1, <1>4 DEF Record, TypeOK, Association
  <1> HIDE DEF s
  <1>9. /\ b \in Association /\ b.success = s /\ b.head = a.head /\ b.bound = a.bound
        /\ b.merged = a.merged /\ b.state = a.state
    BY <1>5, <1>7 DEF GoodAssociation, Association
  <1> HIDE DEF a, b
  <1>10. GoodAssociation(p, b)
    BY <1>5, <1>7, <1>9 DEF GoodAssociation
  <1>11. /\ assoc' \in [Pulls -> Association]
         /\ \A q \in Pulls : GoodAssociation(q, assoc'[q])
    BY <1>1, <1>4, <1>8, <1>9, <1>10, GoodNow DEF TypeOK
  <1>12. "scan" \in Pcs \ PullPcs /\ "project" \in Pcs \ PullPcs
    BY DEF Pcs, PullPcs
  <1>13. GoodPlace("scan", facts[w]) /\ GoodPlace("project", facts[w])
    BY <1>12 DEF GoodPlace
  <1>14. CASE (Goto(w, "scan") \/ Goto(w, "project")) /\ UNCHANGED worker
    BY <1>2, <1>11, <1>12, <1>13, <1>14, GotoStep
  <1>15. CASE ~current /\ Leave(w)
    <2>1. s = a.success
      BY <1>15 DEF s, a
    <2>2. b = a
      BY <1>5, <2>1 DEF a, b, GoodAssociation, Association
    <2>3. UNCHANGED assoc
      BY <1>1, <1>4, <1>8, <2>2 DEF a, TypeOK
    <2> QED
      BY <1>2, <1>15, <2>3, GiveUp
  <1> QED
    BY <1>14, <1>15 DEF Record, a

\* What the associations project is justified in GitHub.
LEMMA ProjectionGood ==
    ASSUME EvidenceInv
    PROVE  Projection \in Projections /\ GoodEvidence(Projection.evidence)
  <1>1. \A p \in Pulls : GoodAssociation(p, assoc[p])
    BY GoodNow
  <1> DEFINE open == {p \in Pulls : assoc[p].bound /\ assoc[p].state = "open"}
  <1>2. CASE \E p \in Pulls : assoc[p].bound /\ assoc[p].merged
    <2>1. Projection = [status |-> "Review", evidence |-> "pr_merged"]
      BY <1>2 DEF Projection
    <2>2. \E p \in Pulls : gh[p].merged
      BY <1>1, <1>2 DEF GoodAssociation
    <2> QED
      BY <2>1, <2>2 DEF Projections, Statuses, Evidences, GoodEvidence
  <1>3. CASE /\ ~ \E p \in Pulls : assoc[p].bound /\ assoc[p].merged
             /\ \E p \in open : assoc[p].success = assoc[p].head
    <2>1. Projection = [status |-> "Review", evidence |-> "check_passed"]
      BY <1>3 DEF Projection
    <2>2. PICK p \in open : assoc[p].success = assoc[p].head
      BY <1>3
    <2>3. everGreen # {}
      BY <1>1, <2>2 DEF GoodAssociation
    <2> QED
      BY <2>1, <2>3 DEF Projections, Statuses, Evidences, GoodEvidence
  <1>4. CASE /\ ~ \E p \in Pulls : assoc[p].bound /\ assoc[p].merged
             /\ ~ \E p \in open : assoc[p].success = assoc[p].head
    <2>1. \/ Projection = [status |-> "In Progress", evidence |-> "pr_open"]
          \/ Projection = [status |-> None, evidence |-> "pr_closed"]
      BY <1>4 DEF Projection
    <2>2. CASE Projection = [status |-> "In Progress", evidence |-> "pr_open"]
      BY <2>2 DEF Projections, Statuses, Evidences, GoodEvidence
    <2>3. CASE Projection = [status |-> None, evidence |-> "pr_closed"]
      BY <2>3 DEF Projections, Evidences, GoodEvidence
    <2> QED
      BY <2>1, <2>2, <2>3
  <1> QED
    BY <1>2, <1>3, <1>4

\* A worker that moves on with another projection.
LEMMA DesiredStep ==
    ASSUME EvidenceInv, NEW w \in Workers, NEW l \in Pcs \ PullPcs, NEW d \in Projections,
           Goto(w, l), desired' = [desired EXCEPT ![w] = d],
           seen' \in [Workers -> Nat],
           GoodEvidence(d.evidence),
           UNCHANGED <<github, assoc, package, job, todo, facts, edits, faults>>
    PROVE  EvidenceInv'
  <1>1. TypeOK
    BY DEF EvidenceInv
  <1>2. pc' = [pc EXCEPT ![w] = l]
    BY DEF Goto
  <1>3. Local(w)
    BY <1>1, <1>2 DEF Local, TypeOK
  <1>4. pc'[w] = l /\ desired'[w] = d
    BY <1>1, <1>2 DEF TypeOK
  <1>5. GoodPlace(l, facts[w])
    BY DEF GoodPlace
  <1>6. edits' \in 0..MaxEdits /\ faults' \in 0..MaxFaults /\ assoc' \in [Pulls -> Association]
    BY <1>1 DEF TypeOK
  <1>7. /\ GoodFacts(facts'[w]) /\ GoodPlace(pc'[w], facts'[w])
        /\ GoodEvidence(desired'[w].evidence)
        /\ \A p \in todo'[w] : gh[p].head # NoHead
        /\ package' \in Packages /\ GoodEvidence(package'.evidence)
        /\ \A p \in Pulls : GoodAssociation(p, assoc'[p])
    BY <1>4, <1>5, GoodNow
  <1> QED
    BY <1>3, <1>6, <1>7, LocalStep

\* The projection of the associations is justified.
LEMMA ReadAssociationsStep ==
    ASSUME EvidenceInv, NEW w \in Workers, ReadAssociations(w)
    PROVE  EvidenceInv'
  <1>1. "resolve" \in Pcs \ PullPcs
    BY DEF Pcs, PullPcs
  <1>2. seen' \in [Workers -> Nat]
    BY DEF EvidenceInv, TypeOK, ReadAssociations
  <1> QED
    BY <1>1, <1>2, ProjectionGood, DesiredStep DEF ReadAssociations

\* A projection that lost a part is as good as before.
LEMMA PartGood ==
    ASSUME NEW d \in Projections, GoodEvidence(d.evidence),
           NEW s \in {d.status, None}, NEW e \in {d.evidence, None}
    PROVE  /\ [status |-> s, evidence |-> e] \in Projections
           /\ GoodEvidence([status |-> s, evidence |-> e].evidence)
  BY DEF Projections, GoodEvidence, None

\* What is left of a projection is justified.
LEMMA ResolveStep ==
    ASSUME EvidenceInv, NEW w \in Workers, Resolve(w)
    PROVE  EvidenceInv'
  <1> DEFINE d == Needed(desired[w])
  <1>1. TypeOK /\ UNCHANGED <<github, assoc, package, edits, faults>>
    BY DEF EvidenceInv, Resolve
  <1>2. CASE Leave(w)
    BY <1>1, <1>2, GiveUp DEF TypeOK
  <1>3. CASE ~Leave(w)
    <2>1. /\ desired' = [desired EXCEPT ![w] = d] /\ Goto(w, "get")
          /\ UNCHANGED <<job, todo, facts, seen>>
      BY <1>1, <1>3 DEF Resolve, TypeOK
    <2>2. desired[w] \in Projections /\ GoodEvidence(desired[w].evidence)
      BY <1>1, GoodNow DEF TypeOK
    <2>3. d \in Projections /\ GoodEvidence(d.evidence)
      BY <2>2, PartGood DEF Needed
    <2>4. "get" \in Pcs \ PullPcs
      BY DEF Pcs, PullPcs
    <2>5. seen' \in [Workers -> Nat]
      BY <1>1, <2>1 DEF TypeOK
    <2> HIDE DEF d
    <2> QED
      BY <1>1, <2>1, <2>3, <2>4, <2>5, DesiredStep
  <1> QED
    BY <1>2, <1>3

\* So is what is left of it after the second read.
LEMMA GetStep ==
    ASSUME EvidenceInv, NEW w \in Workers, Get(w)
    PROVE  EvidenceInv'
  <1> DEFINE d == desired[w]
             left == [status |-> IF d.status # package.status THEN d.status ELSE None,
                      evidence |-> IF d.evidence # package.evidence THEN d.evidence ELSE None]
  <1>1. TypeOK /\ UNCHANGED <<github, assoc, package, edits, faults>>
    BY DEF EvidenceInv, Get
  <1>2. CASE Leave(w)
    BY <1>1, <1>2, GiveUp DEF TypeOK
  <1>3. CASE ~Leave(w)
    <2>1. /\ desired' = [desired EXCEPT ![w] = left] /\ Goto(w, "patch")
          /\ seen' = [seen EXCEPT ![w] = package.lock]
          /\ UNCHANGED <<job, todo, facts>>
      BY <1>3 DEF Get
    <2>2. d \in Projections /\ GoodEvidence(d.evidence)
      BY <1>1, GoodNow DEF TypeOK
    <2>3. left \in Projections /\ GoodEvidence(left.evidence)
      BY <2>2, PartGood
    <2>4. "patch" \in Pcs \ PullPcs
      BY DEF Pcs, PullPcs
    <2>5. seen' \in [Workers -> Nat]
      BY <1>1, <2>1 DEF TypeOK
    <2> HIDE DEF left
    <2> QED
      BY <1>1, <2>1, <2>3, <2>4, <2>5, DesiredStep
  <1> QED
    BY <1>2, <1>3

\* The package takes a justified projection or keeps what it had.
LEMMA PatchStep ==
    ASSUME EvidenceInv, NEW w \in Workers, Patch(w)
    PROVE  EvidenceInv'
  <1> DEFINE d == desired[w]
  <1>1. TypeOK /\ UNCHANGED <<github, assoc, edits, faults>> /\ Leave(w)
    BY DEF EvidenceInv, Patch
  <1>2. d \in Projections /\ GoodEvidence(d.evidence)
        /\ package \in Packages /\ GoodEvidence(package.evidence)
    BY <1>1, GoodNow DEF TypeOK
  <1> DEFINE s == IF d.status = None THEN package.status ELSE d.status
             e == IF d.evidence = None THEN package.evidence ELSE d.evidence
  <1>3. s \in Statuses /\ e \in Evidences /\ GoodEvidence(e)
    BY <1>2 DEF Projections, Packages
  <1>4. \/ package' = [status |-> s, evidence |-> e, lock |-> package.lock + 1]
        \/ UNCHANGED package
    BY DEF Patch
  <1> HIDE DEF s, e
  <1>5. package' \in Packages /\ GoodEvidence(package'.evidence)
    BY <1>2, <1>3, <1>4 DEF Packages
  <1> QED
    BY <1>1, <1>5, LeaveStep DEF TypeOK

\* A worker that dies takes only its own state along.
LEMMA CrashStep ==
    ASSUME EvidenceInv, NEW w \in Workers, Crash(w)
    PROVE  EvidenceInv'
  <1>1. faults' \in 0..MaxFaults
    BY EvidenceAssumption DEF EvidenceInv, TypeOK, Crash
  <1> QED
    BY <1>1, GiveUp DEF Crash

\* People and the clock touch neither facts nor evidence.
LEMMA OutsideStep ==
    ASSUME EvidenceInv,
           UNCHANGED <<gh, green, everGreen, sent, changes, assoc, pc, worker, faults>>,
           now' \in 0..MaxTime, edits' \in 0..MaxEdits,
           package' \in [status : Statuses, evidence : Evidences, lock : Nat],
           package'.evidence = package.evidence
    PROVE  EvidenceInv'
  <1>1. UNCHANGED <<job, todo, facts, desired, seen>>
    BY DEF worker
  <1>2. TypeOK'
    BY <1>1 DEF EvidenceInv, TypeOK
  <1>3. PullKnown' /\ PullsOpened'
    BY <1>1 DEF EvidenceInv, PullKnown, PullsOpened, NoHead
  <1>4. MergesTrue' /\ ChecksTrue'
    BY <1>1 DEF EvidenceInv, MergesTrue, ChecksTrue, SuccessIsCurrent, NoHead
  <1>5. ProjectionsTrue'
    BY <1>1 DEF EvidenceInv, ProjectionsTrue, EvidenceJustified
  <1> QED
    BY <1>2, <1>3, <1>4, <1>5 DEF EvidenceInv

\* Time ages copies; it falsifies none of them.
LEMMA TickStep ==
    ASSUME EvidenceInv, Tick
    PROVE  EvidenceInv'
  <1>1. /\ now' \in 0..MaxTime /\ edits' \in 0..MaxEdits
        /\ package' \in [status : Statuses, evidence : Evidences, lock : Nat]
    BY EvidenceAssumption DEF EvidenceInv, TypeOK, Tick
  <1> QED
    BY <1>1, OutsideStep DEF Tick

\* People set statuses, never evidence.
LEMMA EditStep ==
    ASSUME EvidenceInv, NEW s \in Statuses, Edit(s)
    PROVE  EvidenceInv'
  <1>1. TypeOK
    BY DEF EvidenceInv
  <1>2. now' \in 0..MaxTime /\ edits' \in 0..MaxEdits
    BY <1>1, EvidenceAssumption DEF TypeOK, Edit, github
  <1>3. /\ package' \in [status : Statuses, evidence : Evidences, lock : Nat]
        /\ package'.evidence = package.evidence
    <2> DEFINE n == package.lock + 1
    <2>1. package \in [status : Statuses, evidence : Evidences, lock : Nat] /\ n \in Nat
      BY <1>1 DEF TypeOK
    <2>2. package' = [package EXCEPT !.status = s, !.lock = n]
      BY DEF Edit
    <2> HIDE DEF n
    <2> QED
      BY <2>1, <2>2
  <1>4. UNCHANGED <<gh, green, everGreen, sent, changes, assoc, pc, worker, faults>>
    BY DEF Edit, github
  <1> QED
    BY <1>2, <1>3, <1>4, OutsideStep

-----------------------------------------------------------------------------
(* The theorems.                                                            *)

\* The invariant holds before anything was pushed.
LEMMA EvidenceInit == Init => EvidenceInv
  <1> SUFFICES ASSUME Init PROVE EvidenceInv
    OBVIOUS
  <1> USE DEF Init
  <1>1. TypeOK
    <2>1. gh \in [Pulls -> PullFacts] /\ assoc \in [Pulls -> Association]
      BY DEF PullFacts, Association, PullStates, NoHead
    <2>2. package \in [status : Statuses, evidence : Evidences, lock : Nat]
      BY DEF Statuses, Evidences
    <2>3. /\ pc \in [Workers -> Pcs] /\ job \in [Workers -> Jobs]
          /\ facts \in [Workers -> Facts] /\ desired \in [Workers -> Projections]
      BY GoodNothing DEF Pcs
    <2>4. todo \in [Workers -> SUBSET Pulls] /\ seen \in [Workers -> Nat]
      OBVIOUS
    <2>5. now \in 0..MaxTime /\ changes \in 0..MaxChanges /\ edits \in 0..MaxEdits
          /\ faults \in 0..MaxFaults
      BY EvidenceAssumption
    <2>6. green \subseteq Pulls \X Nat /\ everGreen \subseteq Pulls \X Nat /\ sent \subseteq Events
      OBVIOUS
    <2> HIDE DEF Init
    <2> QED
      BY <2>1, <2>2, <2>3, <2>4, <2>5, <2>6 DEF TypeOK
  <1>2. PullKnown /\ PullsOpened
    BY DEF PullKnown, PullsOpened, PullPcs
  <1>3. MergesTrue /\ ChecksTrue
    BY DEF MergesTrue, ChecksTrue, SuccessIsCurrent, NoFacts
  <1>4. ProjectionsTrue
    BY DEF ProjectionsTrue, EvidenceJustified, Nothing, None
  <1> QED
    BY <1>1, <1>2, <1>3, <1>4 DEF EvidenceInv

\* Every step keeps the invariant.
LEMMA EvidenceStep == EvidenceInv /\ [Next]_vars => EvidenceInv'
  <1> SUFFICES ASSUME EvidenceInv, [Next]_vars PROVE EvidenceInv'
    OBVIOUS
  <1>1. CASE \E p \in Pulls : Push(p) \/ Close(p) \/ Reopen(p) \/ CheckCompletes(p)
    BY <1>1, ChangesStep DEF Changes
  <1>2. CASE Tick \/ (\E s \in Statuses : Edit(s))
    BY <1>2, TickStep, EditStep
  <1>3. ASSUME NEW w \in Workers, NEW e \in sent, HandlePull(w, e) \/ HandleCheck(w, e)
        PROVE  EvidenceInv'
    BY <1>3, DeliveryStep DEF HandlePull, HandleCheck
  <1>4. ASSUME NEW w \in Reconcilers, StartReconcile(w) PROVE EvidenceInv'
    BY <1>4, StartReconcileStep, EvidenceAssumption
  <1>5. ASSUME NEW w \in Workers, Work(w) PROVE EvidenceInv'
    BY <1>5, ScanStep, ScannedStep, ReadPullStep, ReadChecksStep, BindFactsStep, RecordStep,
       ReadAssociationsStep, ResolveStep, GetStep, PatchStep DEF Work
  <1>6. ASSUME NEW w \in Workers, EvidenceFails(w) \/ Crash(w) PROVE EvidenceInv'
    BY <1>6, EvidenceFailsStep, CrashStep
  <1>7. CASE UNCHANGED vars
    <2>1. UNCHANGED <<now, gh, green, everGreen, sent, changes, assoc, package, pc, job, todo,
                      facts, desired, seen, edits, faults>>
      BY <1>7 DEF vars, github, worker
    <2>2. TypeOK'
      BY <2>1 DEF EvidenceInv, TypeOK
    <2>3. PullKnown' /\ PullsOpened'
      BY <2>1 DEF EvidenceInv, PullKnown, PullsOpened, NoHead
    <2>4. MergesTrue' /\ ChecksTrue' /\ ProjectionsTrue'
      BY <2>1 DEF EvidenceInv, MergesTrue, ChecksTrue, SuccessIsCurrent, NoHead,
                  ProjectionsTrue, EvidenceJustified
    <2> QED
      BY <2>2, <2>3, <2>4 DEF EvidenceInv
  <1> QED
    BY <1>1, <1>2, <1>3, <1>4, <1>5, <1>6, <1>7 DEF Next

\* Every value stays in its type, whatever is delivered, read, edited or lost.
THEOREM EvidenceTypeCorrect == Spec => []TypeOK
  <1>1. EvidenceInv => TypeOK
    BY DEF EvidenceInv
  <1> QED
    BY <1>1, EvidenceInit, EvidenceStep, PTL DEF Spec

\* A recorded success always belongs to the association's current head and was
\* seen on it, for any number of workers, pull requests and deliveries.
THEOREM SuccessAlwaysCurrent == Spec => []SuccessIsCurrent
  <1>1. EvidenceInv => SuccessIsCurrent
    BY DEF EvidenceInv, ChecksTrue
  <1> QED
    BY <1>1, EvidenceInit, EvidenceStep, PTL DEF Spec

\* The evidence a work package shows was always true once.
THEOREM EvidenceAlwaysJustified == Spec => []EvidenceJustified
  <1>1. EvidenceInv => EvidenceJustified
    BY DEF EvidenceInv, ProjectionsTrue
  <1> QED
    BY <1>1, EvidenceInit, EvidenceStep, PTL DEF Spec

\* What a step may do to an association after its merge: nothing but the success.
SameButSuccess(a, b) ==
    [b EXCEPT !.success = NoHead] = [a EXCEPT !.success = NoHead]

\* No step changes a merged association except in its success.
LEMMA MergeStickyStep ==
    ASSUME EvidenceInv, [Next]_vars, NEW p \in Pulls, assoc[p].merged
    PROVE  SameButSuccess(assoc[p], assoc'[p])
  <1>1. TypeOK /\ GoodAssociation(p, assoc[p])
    BY GoodNow DEF EvidenceInv
  <1>2. CASE UNCHANGED assoc
    BY <1>2 DEF SameButSuccess
  <1>3. ASSUME NEW w \in Workers, BindFacts(w), ~UNCHANGED assoc
        PROVE  SameButSuccess(assoc[p], assoc'[p])
    <2>1. /\ pc[w] = "bind"
          /\ ~Mismatch(assoc[facts[w].pull], facts[w], job[w].at)
          /\ assoc' = [assoc EXCEPT ![facts[w].pull] = Bound(@, facts[w], job[w].at)]
      BY <1>3 DEF BindFacts
    <2>2. CASE facts[w].pull # p
      BY <1>1, <2>1, <2>2 DEF TypeOK, SameButSuccess
    <2>3. CASE facts[w].pull = p
      <3>1. facts[w] \in Facts /\ job[w].at \in Nat
        BY <1>1 DEF TypeOK, Jobs
      <3>2. Bound(assoc[p], facts[w], job[w].at) = assoc[p]
        BY <1>1, <2>1, <2>3, <3>1, BoundAfterMerge DEF GoodAssociation
      <3> QED
        BY <1>1, <2>1, <2>3, <3>2 DEF TypeOK, SameButSuccess
    <2> QED
      BY <2>2, <2>3
  <1>4. ASSUME NEW w \in Workers, Record(w)
        PROVE  SameButSuccess(assoc[p], assoc'[p])
    <2>1. PICK n : assoc' = [assoc EXCEPT ![facts[w].pull].success = n]
      BY <1>4 DEF Record
    <2>2. assoc'[p] = assoc[p] \/ assoc'[p] = [assoc[p] EXCEPT !.success = n]
      BY <1>1, <2>1 DEF TypeOK
    <2> QED
      BY <1>1, <2>2 DEF SameButSuccess, GoodAssociation, Association
  <1>5. CASE Next
    BY <1>2, <1>3, <1>4, <1>5 DEF Next, Push, Close, Reopen, CheckCompletes, Happens, Tick,
       HandlePull, HandleCheck, StartReconcile, Work, Scan, Scanned, ReadPull, ReadChecks,
       EvidenceFails, ReadAssociations, Resolve, Get, Patch, Edit, Crash
  <1>6. CASE UNCHANGED vars
    BY <1>2, <1>6 DEF vars
  <1> QED
    BY <1>5, <1>6

\* A merge that was recorded is never undone, re-headed or reopened by any later
\* delivery, reconciliation or retry.
THEOREM MergesStaySticky == Spec => MergeSticky
  <1>1. EvidenceInv /\ [Next]_vars =>
          [\A p \in Pulls : assoc[p].merged =>
              [assoc'[p] EXCEPT !.success = NoHead] = [assoc[p] EXCEPT !.success = NoHead]]_vars
    BY MergeStickyStep DEF SameButSuccess
  <1> QED
    BY <1>1, EvidenceInit, EvidenceStep, PTL DEF Spec, MergeSticky
=============================================================================
