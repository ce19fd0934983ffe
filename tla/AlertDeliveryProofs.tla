------------------------- MODULE AlertDeliveryProofs -------------------------
(***************************************************************************)
(* Safety of AlertDelivery for any calls, envelopes and bounds.            *)
(*                                                                         *)
(* The advisory lock is a row of PostgreSQL, the work package is in         *)
(* OpenProject, and a call that loses its connection goes on without the    *)
(* lock.  The argument: while a fingerprint was never torn, whoever is      *)
(* between the lock and the commit holds the lock and is alone, so that     *)
(* what it read of the package and of the audit is still true when it       *)
(* writes, unless a request that its sender gave up commits in between.     *)
(* Such an update carries the version of the package as it is; either it     *)
(* takes the package to a transition that is no older, or its fingerprint   *)
(* is overtaken.                                                           *)
(***************************************************************************)
EXTENDS AlertDelivery, FiniteSetTheorems, TLAPS

\* The places of a call between the lock and the end of its transaction.
Busy == {"find", "create", "patch", "recover", "commit"}

Card == [is : {"card"}, id : Nat, shows : Alerts, text : Nat, tagged : BOOLEAN]
Job == [pc : Busy \union {"idle", "lock", "done", "refused"}, index : Nat, attempt : Nat,
        again : BOOLEAN, seen : Card \union {NoCard}, fresh : BOOLEAN, held : BOOLEAN]
Request == [n : Nat, alert : Alerts, seen : Card \union {NoCard}]

\* The states of the flows, of PostgreSQL and of OpenProject.
TypeOK ==
    /\ job \in [Calls -> Job]
    /\ lock \in [Fingerprints -> Calls \union {Nobody}]
    /\ audit \in SUBSET Alerts
    /\ cards \in [Fingerprints -> Seq(Card)]
    /\ inflight \in SUBSET Request
    /\ torn \in SUBSET Fingerprints /\ overtaken \in SUBSET Fingerprints
    /\ faults \in Nat /\ edits \in Nat

\* A call is at one of its alerts, and ends at the last.
Indexed ==
    \A c \in Calls : /\ job[c].index \in DOMAIN Envelope[c]
                     /\ job[c].pc = "done" => job[c].index = Len(Envelope[c])

\* Whoever holds a lock is in the table of locks; whoever goes on without, tore it.
LockHeld ==
    \A c \in Calls : /\ job[c].held => job[c].pc \in Busy /\ lock[fp(c)] = c
                     /\ job[c].pc \in Busy => job[c].held \/ fp(c) \in torn

\* A package that was read is there, and unchanged as long as its version is current.
ReadsTrue ==
    /\ \A f \in Fingerprints : \A i \in DOMAIN cards[f] : cards[f][i].id = i
    /\ \A c \in Calls :
         /\ job[c].pc = "patch" => Found(job[c].seen)
         /\ Found(job[c].seen) => job[c].seen.id \in DOMAIN cards[fp(c)]
         /\ Found(job[c].seen) /\ job[c].fresh => job[c].seen = cards[fp(c)][job[c].seen.id]

\* An update that may still commit carries the version of the package as it is.
InFlightTrue ==
    \A r \in inflight : Found(r.seen) =>
        /\ r.seen.id \in DOMAIN cards[r.alert.fingerprint]
        /\ r.seen = cards[r.alert.fingerprint][r.seen.id]

\* Whoever creates a package knows that there is none.
CreatesFirst ==
    \A c \in Calls : job[c].pc = "create" /\ fp(c) \notin Disturbed => cards[fp(c)] = <<>>

\* The rows of a fingerprint have a latest one.
LatestExists ==
    \A f \in Fingerprints : (\E a \in audit : a.fingerprint = f) => current(f) # {}

\* A package shows an alert or a later transition.
Shown(f, a) == cards[f] # <<>> /\ ~operational_alert_is_stale(cards[f][1].shows, a)

\* A package shows a transition no older than any committed row.
RowsShown == \A r \in audit : r.fingerprint \notin Disturbed => Shown(r.fingerprint, r)

\* A call behind the lock is not older than any committed row, and what it is about
\* to commit is shown.
WritesCurrent ==
    \A c \in Calls : job[c].pc \in Busy /\ fp(c) \notin Disturbed =>
        /\ \A r \in audit : r.fingerprint = fp(c) => ~operational_alert_is_stale(alert(c), r)
        /\ job[c].pc = "commit" => Shown(fp(c), alert(c))

\* A row no older than the alert was committed.
Covered(a) ==
    \E r \in audit : r.fingerprint = a.fingerprint /\ ~operational_alert_is_stale(r, a)

\* The alerts a call left behind are covered.
SettledCovered ==
    \A c \in Calls : \A i \in DOMAIN Envelope[c] :
        (i < job[c].index \/ job[c].pc = "done") => Covered(Envelope[c][i])

\* The inductive invariant.
AlertInv ==
    /\ TypeOK /\ Indexed
    /\ LockHeld /\ ReadsTrue /\ InFlightTrue
    /\ CreatesFirst /\ OnePackage
    /\ LatestExists /\ RowsShown /\ WritesCurrent /\ SettledCovered

-----------------------------------------------------------------------------
(* Operators.                                                              *)

\* The order of transitions is total and transitive (operational_alert_is_stale).
LEMMA StaleOrder ==
    ASSUME NEW a \in Alerts, NEW b \in Alerts, NEW d \in Alerts
    PROVE  /\ ~operational_alert_is_stale(a, b) \/ ~operational_alert_is_stale(b, a)
           /\ ~operational_alert_is_stale(a, a)
           /\ ~operational_alert_is_stale(a, b) /\ ~operational_alert_is_stale(b, d)
                 => ~operational_alert_is_stale(a, d)
<1>1. /\ a.transition_at \in Nat /\ b.transition_at \in Nat /\ d.transition_at \in Nat
      /\ a.state \in States /\ b.state \in States /\ d.state \in States
  BY EnvelopeAssumption
<1> QED  BY <1>1 DEF operational_alert_is_stale, States

\* The alerts of an envelope are alerts, with a fingerprint.
LEMMA EnvelopeAlerts ==
    ASSUME NEW c \in Calls, NEW i \in DOMAIN Envelope[c]
    PROVE  Envelope[c][i] \in Alerts /\ Envelope[c][i].fingerprint \in Fingerprints
BY DEF Alerts, Fingerprints

\* An alert's fingerprint is one of the fingerprints.
LEMMA AlertFingerprint ==
    ASSUME NEW a \in Alerts
    PROVE  a.fingerprint \in Fingerprints
BY DEF Fingerprints

\* The alert a call is at.
LEMMA AlertTyped ==
    ASSUME Indexed, NEW c \in Calls
    PROVE  alert(c) \in Alerts /\ fp(c) \in Fingerprints /\ alert(c).fingerprint = fp(c)
BY EnvelopeAlerts DEF Indexed, alert, fp

\* A body has alerts.
LEMMA EnvelopeLength ==
    ASSUME NEW c \in Calls
    PROVE  /\ Len(Envelope[c]) \in Nat \ {0}
           /\ DOMAIN Envelope[c] = 1 .. Len(Envelope[c])
<1>1. Envelope[c] \in Seq(Alerts) /\ Envelope[c] # <<>>
  BY EnvelopeAssumption DEF alertmanager_envelope
<1> QED  BY <1>1

\* Two calls that are busy with a fingerprint that was never torn are one.
LEMMA Exclusive ==
    ASSUME TypeOK, LockHeld, NEW c \in Calls, NEW d \in Calls, fp(c) = fp(d),
           job[c].pc \in Busy, job[d].pc \in Busy, fp(c) \notin torn
    PROVE  c = d
BY DEF LockHeld

\* A look for the package ends in nothing, in an error or in one of the packages.
LEMMA FindCases ==
    ASSUME TypeOK, NEW f \in Fingerprints
    PROVE  \/ cards[f] = <<>> /\ _find_operational_alert(f) = NoCard
           \/ cards[f] # <<>> /\ _find_operational_alert(f) = Unclear
           \/ \E i \in DOMAIN cards[f] : /\ _find_operational_alert(f) = cards[f][i]
                                         /\ cards[f][i] \in Card
<1>1. CASE cards[f] = <<>>
  <2>1. Tagged(f) = {}
    BY <1>1 DEF Tagged
  <2>2. Cardinality(Tagged(f)) # 1
    BY <2>1, FS_EmptySet
  <2> QED  BY <1>1, <2>2 DEF _find_operational_alert
<1>2. CASE cards[f] # <<>> /\ Cardinality(Tagged(f)) = 1
  <2>1. Tagged(f) # {}
    <3> SUFFICES ASSUME Tagged(f) = {} PROVE FALSE
      OBVIOUS
    <3>1. Cardinality({}) = 0
      BY FS_EmptySet
    <3> QED  BY <3>1, <1>2
  <2>2. PICK i : i = (CHOOSE j \in Tagged(f) : TRUE)
    OBVIOUS
  <2>3. i \in Tagged(f)
    BY <2>1, <2>2, Zenon
  <2>4. i \in DOMAIN cards[f]
    BY <2>3 DEF Tagged
  <2>5. _find_operational_alert(f) = cards[f][i]
    BY <1>2, <2>2 DEF _find_operational_alert
  <2> QED  BY <2>4, <2>5 DEF TypeOK
<1>3. CASE cards[f] # <<>> /\ Cardinality(Tagged(f)) # 1
  BY <1>3 DEF _find_operational_alert
<1> QED  BY <1>1, <1>2, <1>3

\* A package that is found is one of the fingerprint's, and is read with its number.
LEMMA FoundCard ==
    ASSUME TypeOK, ReadsTrue, NEW f \in Fingerprints, Found(_find_operational_alert(f))
    PROVE  \E i \in DOMAIN cards[f] : /\ _find_operational_alert(f) = cards[f][i]
                                      /\ cards[f][i].id = i
                                      /\ cards[f][i] \in Card
BY FindCases DEF ReadsTrue, Found, NoCard, Unclear

\* No package is found only when there is none.
LEMMA NoneFound ==
    ASSUME TypeOK, NEW f \in Fingerprints, _find_operational_alert(f) = NoCard
    PROVE  cards[f] = <<>>
BY FindCases DEF NoCard, Unclear, Card

\* A package that shows an alert is not behind it.
LEMMA ShowsItself ==
    ASSUME NEW f \in Fingerprints, NEW a \in Alerts, cards[f] # <<>>, cards[f][1].shows = a
    PROVE  Shown(f, a)
BY StaleOrder DEF Shown

\* A package that is found for a fingerprint with one package is the first.
LEMMA MatchShown ==
    ASSUME AlertInv, NEW c \in Calls, NEW text,
           _operational_alert_matches(_find_operational_alert(fp(c)), alert(c), text)
    PROVE  fp(c) \in Disturbed \/ Shown(fp(c), alert(c))
<1> USE DEF AlertInv
<1> DEFINE w == _find_operational_alert(fp(c))
<1>1. fp(c) \in Fingerprints /\ alert(c) \in Alerts
  BY AlertTyped
<1>2. PICK i \in DOMAIN cards[fp(c)] : w = cards[fp(c)][i]
  BY <1>1, FoundCard DEF _operational_alert_matches
<1>3. fp(c) \in Disturbed \/ (cards[fp(c)] # <<>> /\ cards[fp(c)][1].shows = alert(c))
  BY <1>1, <1>2 DEF OnePackage, _operational_alert_matches, TypeOK
<1> QED  BY <1>1, <1>3, ShowsItself

\* A request that is given up is of the alert of its call, and an update among them
\* carries the version of the package as it is.
LEMMA AbandonedTrue ==
    ASSUME AlertInv, NEW c \in Calls, UNCHANGED cards,
           inflight' = inflight \union Abandoned(c)
    PROVE  InFlightTrue' /\ inflight' \in SUBSET Request
<1> USE DEF AlertInv
<1>1. /\ alert(c) \in Alerts /\ fp(c) \in Fingerprints /\ alert(c).fingerprint = fp(c)
      /\ faults \in Nat /\ job[c].seen \in Card \union {NoCard}
  BY AlertTyped DEF TypeOK, Job
<1> SUFFICES ASSUME NEW r \in inflight'
             PROVE  /\ r \in Request
                    /\ Found(r.seen) =>
                         /\ r.seen.id \in DOMAIN cards[r.alert.fingerprint]
                         /\ r.seen = cards[r.alert.fingerprint][r.seen.id]
  BY DEF InFlightTrue
<1>2. CASE r \in inflight
  BY <1>2 DEF InFlightTrue, TypeOK
<1>3. CASE r = [n |-> faults, alert |-> alert(c), seen |-> NoCard]
  BY <1>1, <1>3 DEF Request, Found, NoCard
<1>4. CASE job[c].fresh /\ r = [n |-> faults, alert |-> alert(c), seen |-> job[c].seen]
  <2>1. r \in Request /\ r.seen = job[c].seen /\ r.alert.fingerprint = fp(c)
    BY <1>1, <1>4 DEF Request
  <2> QED  BY <1>4, <2>1 DEF ReadsTrue
<1> QED  BY <1>2, <1>3, <1>4 DEF Abandoned

\* The requests in flight, and the packages, as they were.
LEMMA InFlightSame ==
    ASSUME AlertInv, UNCHANGED <<inflight, cards>>
    PROVE  InFlightTrue' /\ inflight' \in SUBSET Request
BY DEF AlertInv, InFlightTrue, TypeOK

-----------------------------------------------------------------------------
(* Steps that write no package.                                            *)

\* A call that gave up is at its first alert, without a lock, having read nothing.
LEMMA FailedJob ==
    ASSUME TypeOK, NEW c \in Calls, Failed(c)
    PROVE  /\ job' \in [Calls -> Job]
           /\ \A d \in Calls : d # c => job'[d] = job[d]
           /\ job'[c].pc \in {"lock", "refused"}
           /\ job'[c].index = 1 /\ job'[c].seen = NoCard
           /\ job'[c].held = FALSE /\ job'[c].fresh = FALSE
<1>1. job[c].attempt \in Nat
  BY DEF TypeOK, Job
<1> DEFINE j == IF job[c].attempt < Attempts
                THEN [Waiting EXCEPT !.pc = "lock", !.attempt = job[c].attempt + 1]
                ELSE [Waiting EXCEPT !.pc = "refused"]
<1>2. /\ j \in Job /\ j.pc \in {"lock", "refused"} /\ j.index = 1 /\ j.seen = NoCard
      /\ j.held = FALSE /\ j.fresh = FALSE
  <2>1. CASE job[c].attempt < Attempts
    <3>1. j = [pc |-> "lock", index |-> 1, attempt |-> job[c].attempt + 1, again |-> FALSE,
               seen |-> NoCard, fresh |-> FALSE, held |-> FALSE]
      BY <2>1 DEF Waiting
    <3>2. job[c].attempt + 1 \in Nat
      BY <1>1
    <3> HIDE DEF j
    <3> QED  BY <3>1, <3>2 DEF Job
  <2>2. CASE ~(job[c].attempt < Attempts)
    BY <2>2 DEF Waiting, Job
  <2> QED  BY <2>1, <2>2
<1>3. job' = [job EXCEPT ![c] = j]
  BY DEF Failed
<1> HIDE DEF j
<1> QED  BY <1>2, <1>3 DEF TypeOK

\* A call that gives up keeps the invariant: it frees its lock and forgets what it read.
LEMMA FailedKeeps ==
    ASSUME AlertInv, NEW c \in Calls, Failed(c), UNCHANGED <<audit, cards, torn, overtaken>>,
           inflight' \in SUBSET Request, InFlightTrue', faults' \in Nat, edits' \in Nat
    PROVE  AlertInv'
<1> USE DEF AlertInv, Disturbed
<1>1. /\ job' \in [Calls -> Job]
      /\ \A d \in Calls : d # c => job'[d] = job[d]
      /\ job'[c].pc \in {"lock", "refused"}
      /\ job'[c].index = 1 /\ job'[c].seen = NoCard
      /\ job'[c].held = FALSE /\ job'[c].fresh = FALSE
  BY FailedJob
<1>2. \A d \in Calls : d # c => alert(d)' = alert(d) /\ fp(d)' = fp(d)
  BY <1>1 DEF alert, fp
<1>3. lock' = IF job[c].held THEN [lock EXCEPT ![fp(c)] = Nobody] ELSE lock
  BY DEF Failed
<1>4. fp(c) \in Fingerprints
  BY AlertTyped
<1>5. TypeOK'
  BY <1>1, <1>3, <1>4 DEF TypeOK
<1>6. Indexed'
  BY <1>1, EnvelopeLength DEF Indexed
<1>7. LockHeld'
  <2> SUFFICES ASSUME NEW d \in Calls
               PROVE  /\ job'[d].held => job'[d].pc \in Busy /\ lock'[fp(d)'] = d
                      /\ job'[d].pc \in Busy => job'[d].held \/ fp(d)' \in torn
    BY DEF LockHeld
  <2>1. CASE d = c
    BY <1>1, <2>1 DEF Busy
  <2>2. CASE d # c
    <3>1. job'[d] = job[d] /\ fp(d)' = fp(d)
      BY <1>1, <1>2, <2>2
    <3>2. job[d].held => lock'[fp(d)] = d
      <4> SUFFICES ASSUME job[d].held PROVE lock'[fp(d)] = d
        OBVIOUS
      <4>1. lock[fp(d)] = d
        BY DEF LockHeld
      <4>2. job[c].held => lock[fp(c)] # d
        BY <2>2 DEF LockHeld
      <4> QED  BY <1>3, <1>4, <4>1, <4>2 DEF TypeOK
    <3> QED  BY <3>1, <3>2 DEF LockHeld
  <2> QED  BY <2>1, <2>2
<1>8. ReadsTrue'
  BY <1>1, <1>2 DEF ReadsTrue, Found, NoCard
<1>9. CreatesFirst' /\ OnePackage'
  BY <1>1, <1>2 DEF CreatesFirst, OnePackage
<1>10. LatestExists' /\ RowsShown'
  BY DEF LatestExists, RowsShown, Shown, current
<1>11. WritesCurrent'
  BY <1>1, <1>2 DEF WritesCurrent, Shown, Busy
<1>12. SettledCovered'
  <2> SUFFICES ASSUME NEW d \in Calls, NEW i \in DOMAIN Envelope[d],
                      i < job'[d].index \/ job'[d].pc = "done"
               PROVE  Covered(Envelope[d][i])
    BY DEF SettledCovered, Covered
  <2>1. d # c
    BY <1>1, EnvelopeLength
  <2> QED  BY <1>1, <2>1 DEF SettledCovered
<1> QED  BY <1>5, <1>6, <1>7, <1>8, <1>9, <1>10, <1>11, <1>12

\* A step of a call that stays with its alert and its lock, and writes nothing but its
\* own job, keeps the invariant when what it goes on with is true.
LEMMA StaysKeeps ==
    ASSUME AlertInv, NEW c \in Calls, UNCHANGED <<lock, audit, cards, torn, overtaken, edits>>,
           inflight' \in SUBSET Request, InFlightTrue', faults' \in Nat,
           job' \in [Calls -> Job],
           \A d \in Calls : d # c => job'[d] = job[d],
           job[c].pc \in Busy, job'[c].pc \in Busy,
           job'[c].index = job[c].index, job'[c].held = job[c].held,
           job'[c].pc = "patch" => Found(job'[c].seen),
           Found(job'[c].seen) => job'[c].seen.id \in DOMAIN cards[fp(c)],
           Found(job'[c].seen) /\ job'[c].fresh =>
               job'[c].seen = cards[fp(c)][job'[c].seen.id],
           job'[c].pc = "create" => cards[fp(c)] = <<>> \/ fp(c) \in Disturbed,
           job'[c].pc = "commit" => fp(c) \in Disturbed \/ Shown(fp(c), alert(c))
    PROVE  AlertInv'
<1> USE DEF AlertInv, Disturbed
<1>1. \A d \in Calls : alert(d)' = alert(d) /\ fp(d)' = fp(d)
  BY DEF alert, fp
<1>2. TypeOK' /\ Indexed'
  BY DEF TypeOK, Indexed, Busy
<1>3. LockHeld'
  BY <1>1 DEF LockHeld
<1>4. ReadsTrue'
  BY <1>1 DEF ReadsTrue
<1>5. CreatesFirst' /\ OnePackage'
  BY <1>1 DEF CreatesFirst, OnePackage
<1>6. LatestExists' /\ RowsShown'
  BY DEF LatestExists, RowsShown, Shown, current
<1>7. WritesCurrent'
  BY <1>1 DEF WritesCurrent, Shown
<1>8. SettledCovered'
  BY DEF SettledCovered, Covered, Busy
<1> QED  BY <1>2, <1>3, <1>4, <1>5, <1>6, <1>7, <1>8

\* A call that settled an alert is at its next one, or done with its last.
LEMMA SettledJob ==
    ASSUME TypeOK, Indexed, NEW c \in Calls, Settled(c)
    PROVE  /\ job' \in [Calls -> Job]
           /\ \A d \in Calls : d # c => job'[d] = job[d]
           /\ job'[c].index \in DOMAIN Envelope[c]
           /\ \/ job'[c].pc = "lock" /\ job'[c].index = job[c].index + 1
              \/ /\ job'[c].pc = "done" /\ job'[c].index = job[c].index
                 /\ job[c].index = Len(Envelope[c])
           /\ job'[c].seen = NoCard
           /\ job'[c].held = FALSE /\ job'[c].fresh = FALSE
<1>1. job[c].attempt \in Nat /\ job[c].index \in 1 .. Len(Envelope[c])
      /\ DOMAIN Envelope[c] = 1 .. Len(Envelope[c]) /\ Len(Envelope[c]) \in Nat
  BY EnvelopeLength DEF TypeOK, Job, Indexed
<1> DEFINE j == IF job[c].index < Len(Envelope[c])
                THEN [Waiting EXCEPT !.pc = "lock", !.attempt = job[c].attempt,
                                     !.index = job[c].index + 1]
                ELSE [Waiting EXCEPT !.pc = "done", !.index = job[c].index]
<1>2. /\ j \in Job /\ j.index \in DOMAIN Envelope[c]
      /\ \/ j.pc = "lock" /\ j.index = job[c].index + 1
         \/ j.pc = "done" /\ j.index = job[c].index /\ job[c].index = Len(Envelope[c])
      /\ j.seen = NoCard /\ j.held = FALSE /\ j.fresh = FALSE
  <2>1. CASE job[c].index < Len(Envelope[c])
    <3>1. j = [pc |-> "lock", index |-> job[c].index + 1, attempt |-> job[c].attempt, again |-> FALSE,
               seen |-> NoCard, fresh |-> FALSE, held |-> FALSE]
      BY <2>1 DEF Waiting
    <3>2. job[c].index + 1 \in Nat /\ job[c].index + 1 \in DOMAIN Envelope[c]
      BY <1>1, <2>1
    <3> HIDE DEF j
    <3> QED  BY <1>1, <3>1, <3>2 DEF Job
  <2>2. CASE ~(job[c].index < Len(Envelope[c]))
    <3>1. j = [pc |-> "done", index |-> job[c].index, attempt |-> 1, again |-> FALSE,
               seen |-> NoCard, fresh |-> FALSE, held |-> FALSE]
      BY <2>2 DEF Waiting
    <3>2. job[c].index \in Nat /\ job[c].index = Len(Envelope[c])
      BY <1>1, <2>2
    <3> HIDE DEF j
    <3> QED  BY <1>1, <3>1, <3>2 DEF Job
  <2> QED  BY <2>1, <2>2
<1>3. job' = [job EXCEPT ![c] = j]
  BY DEF Settled
<1> HIDE DEF j
<1> QED  BY <1>2, <1>3 DEF TypeOK

\* A call that settles an alert that is covered keeps the part of the invariant that
\* the rows of the audit do not appear in.
LEMMA SettledKeeps ==
    ASSUME AlertInv, NEW c \in Calls, Settled(c), UNCHANGED <<cards, inflight, torn, overtaken, faults, edits>>,
           lock[fp(c)] \in {c, Nobody}, audit' \in SUBSET Alerts, audit \subseteq audit',
           \E r \in audit' : r.fingerprint = fp(c) /\ ~operational_alert_is_stale(r, alert(c))
    PROVE  /\ TypeOK' /\ Indexed' /\ LockHeld' /\ ReadsTrue' /\ InFlightTrue'
           /\ CreatesFirst' /\ OnePackage' /\ SettledCovered'
<1> USE DEF AlertInv, Disturbed
<1>1. /\ job' \in [Calls -> Job]
      /\ \A d \in Calls : d # c => job'[d] = job[d]
      /\ job'[c].index \in DOMAIN Envelope[c]
      /\ \/ job'[c].pc = "lock" /\ job'[c].index = job[c].index + 1
         \/ /\ job'[c].pc = "done" /\ job'[c].index = job[c].index
            /\ job[c].index = Len(Envelope[c])
      /\ job'[c].seen = NoCard
      /\ job'[c].held = FALSE /\ job'[c].fresh = FALSE
  BY SettledJob
<1>2. \A d \in Calls : d # c => alert(d)' = alert(d) /\ fp(d)' = fp(d)
  BY <1>1 DEF alert, fp
<1>3. lock' = [lock EXCEPT ![fp(c)] = Nobody]
  BY DEF Settled
<1>4. fp(c) \in Fingerprints
  BY AlertTyped
<1>5. TypeOK'
  BY <1>1, <1>3, <1>4 DEF TypeOK
<1>6. Indexed'
  BY <1>1 DEF Indexed
<1>7. LockHeld'
  <2> SUFFICES ASSUME NEW d \in Calls
               PROVE  /\ job'[d].held => job'[d].pc \in Busy /\ lock'[fp(d)'] = d
                      /\ job'[d].pc \in Busy => job'[d].held \/ fp(d)' \in torn
    BY DEF LockHeld
  <2>1. CASE d = c
    BY <1>1, <2>1 DEF Busy
  <2>2. CASE d # c
    <3>1. job'[d] = job[d] /\ fp(d)' = fp(d)
      BY <1>1, <1>2, <2>2
    <3>2. job[d].held => lock'[fp(d)] = d
      <4> SUFFICES ASSUME job[d].held PROVE lock'[fp(d)] = d
        OBVIOUS
      <4>1. lock[fp(d)] = d
        BY DEF LockHeld
      <4>2. lock[fp(c)] # d
        BY <2>2, EnvelopeAssumption
      <4> QED  BY <1>3, <1>4, <4>1, <4>2 DEF TypeOK
    <3> QED  BY <3>1, <3>2 DEF LockHeld
  <2> QED  BY <2>1, <2>2
<1>8. ReadsTrue'
  BY <1>1, <1>2 DEF ReadsTrue, Found, NoCard
<1>9. CreatesFirst' /\ OnePackage'
  BY <1>1, <1>2 DEF CreatesFirst, OnePackage
<1>10. SettledCovered'
  <2> SUFFICES ASSUME NEW d \in Calls, NEW i \in DOMAIN Envelope[d],
                      i < job'[d].index \/ job'[d].pc = "done"
               PROVE  \E r \in audit' : /\ r.fingerprint = Envelope[d][i].fingerprint
                                        /\ ~operational_alert_is_stale(r, Envelope[d][i])
    BY DEF SettledCovered, Covered
  <2>1. CASE i < job[d].index \/ job[d].pc = "done"
    BY <2>1 DEF SettledCovered, Covered
  <2>2. CASE ~(i < job[d].index \/ job[d].pc = "done")
    <3>1. d = c
      BY <1>1, <2>2
    <3>2. i = job[c].index
      BY <1>1, <2>2, <3>1, EnvelopeLength DEF TypeOK, Job
    <3> QED  BY <3>1, <3>2 DEF alert, fp
  <2> QED  BY <2>1, <2>2
<1> QED  BY <1>5, <1>6, <1>7, <1>8, <1>9, <1>10, InFlightSame

\* A call whose package is ensured is before its commit, having forgotten what it read.
LEMMA EnsuredJob ==
    ASSUME NEW c \in Calls, NEW jobs \in [Calls -> Job], Ensured(c, jobs)
    PROVE  /\ job' \in [Calls -> Job]
           /\ \A d \in Calls : d # c => job'[d] = jobs[d]
           /\ job'[c].pc = "commit" /\ job'[c].seen = NoCard /\ job'[c].fresh = FALSE
           /\ job'[c].index = jobs[c].index /\ job'[c].held = jobs[c].held
<1> DEFINE j == [jobs[c] EXCEPT !.pc = "commit", !.seen = NoCard, !.fresh = FALSE,
                                !.again = FALSE]
<1>1. /\ j \in Job /\ j.pc = "commit" /\ j.seen = NoCard /\ j.fresh = FALSE
      /\ j.index = jobs[c].index /\ j.held = jobs[c].held
  BY DEF Job, Busy
<1>2. job' = [jobs EXCEPT ![c] = j]
  BY DEF Ensured
<1> HIDE DEF j
<1> QED  BY <1>1, <1>2

\* Alertmanager's call begins at the first alert.
LEMMA DeliverKeeps ==
    ASSUME AlertInv, NEW c \in Calls, Deliver(c)
    PROVE  AlertInv'
<1> USE DEF AlertInv, Disturbed
<1> DEFINE j == [Waiting EXCEPT !.pc = "lock"]
<1>1. j \in Job /\ j.pc = "lock" /\ j.index = 1 /\ j.seen = NoCard /\ ~j.held /\ ~j.fresh
  BY DEF Waiting, Job
<1>2. /\ job' \in [Calls -> Job]
      /\ \A d \in Calls : d # c => job'[d] = job[d]
      /\ job'[c] = j
  BY <1>1 DEF Deliver, TypeOK
<1> HIDE DEF j
<1>3. \A d \in Calls : d # c => alert(d)' = alert(d) /\ fp(d)' = fp(d)
  BY <1>2 DEF alert, fp
<1>4. UNCHANGED <<lock, audit, cards, inflight, torn, overtaken, faults, edits>>
  BY DEF Deliver
<1>5. TypeOK' /\ Indexed'
  BY <1>1, <1>2, <1>4, EnvelopeLength DEF TypeOK, Indexed
<1>6. LockHeld'
  BY <1>1, <1>2, <1>3, <1>4 DEF LockHeld, Busy
<1>7. ReadsTrue'
  BY <1>1, <1>2, <1>3, <1>4 DEF ReadsTrue, Found, NoCard
<1>8. CreatesFirst' /\ OnePackage'
  BY <1>1, <1>2, <1>3, <1>4 DEF CreatesFirst, OnePackage
<1>9. LatestExists' /\ RowsShown'
  BY <1>4 DEF LatestExists, RowsShown, Shown, current
<1>10. WritesCurrent'
  BY <1>1, <1>2, <1>3, <1>4 DEF WritesCurrent, Shown, Busy
<1>11. SettledCovered'
  <2> SUFFICES ASSUME NEW d \in Calls, NEW i \in DOMAIN Envelope[d],
                      i < job'[d].index \/ job'[d].pc = "done"
               PROVE  Covered(Envelope[d][i])
    BY <1>4 DEF SettledCovered, Covered
  <2>1. d # c
    BY <1>1, <1>2, EnvelopeLength
  <2> QED  BY <1>2, <2>1 DEF SettledCovered
<1> QED  BY <1>4, <1>5, <1>6, <1>7, <1>8, <1>9, <1>10, <1>11, InFlightSame

\* The lock is free, and the latest row decides for all of them.
LEMMA LockKeeps ==
    ASSUME AlertInv, NEW c \in Calls, Lock(c)
    PROVE  AlertInv'
<1> USE DEF AlertInv, Disturbed
<1>1. alert(c) \in Alerts /\ fp(c) \in Fingerprints /\ alert(c).fingerprint = fp(c)
  BY AlertTyped
<1>2. /\ lock[fp(c)] = Nobody /\ job[c].pc = "lock"
      /\ UNCHANGED <<audit, cards, inflight, torn, overtaken, faults, edits>>
  BY DEF Lock
<1>3. audit \in SUBSET Alerts
  BY DEF TypeOK
<1>4. CASE \E r \in current(fp(c)) : operational_alert_is_stale(alert(c), r)
  <2>1. Settled(c)
    BY <1>4 DEF Lock
  <2>2. PICK r \in current(fp(c)) : operational_alert_is_stale(alert(c), r)
    BY <1>4
  <2>3. r \in audit /\ r.fingerprint = fp(c)
    BY <2>2 DEF current, Latest
  <2>4. r \in Alerts /\ ~operational_alert_is_stale(r, alert(c))
    BY <1>1, <1>3, <2>2, <2>3, StaleOrder
  <2>5. /\ TypeOK' /\ Indexed' /\ LockHeld' /\ ReadsTrue' /\ InFlightTrue'
        /\ CreatesFirst' /\ OnePackage' /\ SettledCovered'
    BY <1>2, <1>3, <2>1, <2>3, <2>4, SettledKeeps
  <2>6. LatestExists' /\ RowsShown'
    BY <1>2 DEF LatestExists, RowsShown, Shown, current
  <2>7. WritesCurrent'
    <3>1. \A d \in Calls : job'[d].pc \in Busy => job'[d] = job[d]
      BY <2>1, SettledJob DEF Busy
    <3> QED  BY <1>2, <3>1 DEF WritesCurrent, Shown, alert, fp
  <2> QED  BY <2>5, <2>6, <2>7
<1>5. CASE ~\E r \in current(fp(c)) : operational_alert_is_stale(alert(c), r)
  <2>1. /\ lock' = [lock EXCEPT ![fp(c)] = c]
        /\ job' = [job EXCEPT ![c].pc = "find", ![c].held = TRUE]
    BY <1>5 DEF Lock
  <2> DEFINE j == [job[c] EXCEPT !.pc = "find", !.held = TRUE]
  <2>2. /\ j \in Job /\ j.pc = "find" /\ j.held /\ j.index = job[c].index
        /\ j.seen = job[c].seen /\ j.fresh = job[c].fresh
    BY DEF TypeOK, Job, Busy
  <2>3. /\ job' \in [Calls -> Job]
        /\ \A d \in Calls : d # c => job'[d] = job[d]
        /\ job'[c] = j
    BY <2>1, <2>2 DEF TypeOK
  <2> HIDE DEF j
  <2>4. \A d \in Calls : alert(d)' = alert(d) /\ fp(d)' = fp(d)
    BY <2>2, <2>3 DEF alert, fp
  <2>5. TypeOK' /\ Indexed'
    BY <1>1, <1>2, <2>1, <2>2, <2>3 DEF TypeOK, Indexed
  <2>6. LockHeld'
    <3>1. \A d \in Calls : job[d].held => fp(d) # fp(c)
      BY <1>2, EnvelopeAssumption DEF LockHeld
    <3> QED  BY <1>1, <1>2, <2>1, <2>2, <2>3, <2>4, <3>1 DEF LockHeld, Busy, TypeOK
  <2>7. ReadsTrue'
    BY <1>2, <2>2, <2>3, <2>4 DEF ReadsTrue
  <2>8. CreatesFirst' /\ OnePackage'
    BY <1>2, <2>2, <2>3, <2>4 DEF CreatesFirst, OnePackage
  <2>9. LatestExists' /\ RowsShown'
    BY <1>2 DEF LatestExists, RowsShown, Shown, current
  <2>10. \A r \in audit : r.fingerprint = fp(c) => ~operational_alert_is_stale(alert(c), r)
    <3> SUFFICES ASSUME NEW r \in audit, r.fingerprint = fp(c)
                 PROVE  ~operational_alert_is_stale(alert(c), r)
      OBVIOUS
    <3>1. PICK m \in current(fp(c)) : TRUE
      BY <1>1 DEF LatestExists
    <3>2. m \in audit /\ ~operational_alert_is_stale(m, r)
      BY <3>1 DEF current, Latest
    <3>3. ~operational_alert_is_stale(alert(c), m)
      BY <1>5, <3>1
    <3> QED  BY <1>1, <1>3, <3>2, <3>3, StaleOrder
  <2>11. WritesCurrent'
    BY <1>2, <2>2, <2>3, <2>4, <2>10 DEF WritesCurrent, Shown, Busy
  <2>12. SettledCovered'
    BY <1>2, <2>2, <2>3 DEF SettledCovered, Covered
  <2> QED  BY <1>2, <2>5, <2>6, <2>7, <2>8, <2>9, <2>11, <2>12, InFlightSame
<1> QED  BY <1>4, <1>5

\* What a call finds is what it goes on with.
LEMMA FindKeeps ==
    ASSUME AlertInv, NEW c \in Calls, Find(c)
    PROVE  AlertInv'
<1> USE DEF AlertInv, Disturbed
<1> DEFINE w == _find_operational_alert(fp(c))
<1>1. fp(c) \in Fingerprints
  BY AlertTyped
<1>2. job[c].pc = "find" /\ UNCHANGED <<audit, cards, inflight, torn, overtaken, faults, edits>>
  BY DEF Find
<1>3. faults' \in Nat /\ edits' \in Nat /\ InFlightTrue' /\ inflight' \in SUBSET Request
  BY <1>2, InFlightSame DEF TypeOK
<1>4. job \in [Calls -> Job] /\ job[c] \in Job
  BY DEF TypeOK
<1>5. CASE w = NoCard /\ Goto(c, "create") /\ lock' = lock
  <2>1. cards[fp(c)] = <<>>
    BY <1>1, <1>5, NoneFound
  <2>2. /\ job' \in [Calls -> Job]
        /\ \A d \in Calls : d # c => job'[d] = job[d]
        /\ job'[c].pc = "create" /\ job'[c].index = job[c].index
        /\ job'[c].held = job[c].held /\ job'[c].seen = job[c].seen
        /\ job'[c].fresh = job[c].fresh
    BY <1>4, <1>5 DEF Goto, Job, Busy
  <2> QED  BY <1>2, <1>3, <1>5, <2>1, <2>2, StaysKeeps DEF ReadsTrue, Busy
<1>6. CASE Failed(c)
  BY <1>2, <1>3, <1>6, FailedKeeps
<1>7. CASE /\ Found(w) /\ _operational_alert_matches(w, alert(c), w.text)
           /\ Ensured(c, job) /\ lock' = lock
  <2>2. fp(c) \in Disturbed \/ Shown(fp(c), alert(c))
    BY <1>7, MatchShown
  <2>3. /\ job' \in [Calls -> Job]
        /\ \A d \in Calls : d # c => job'[d] = job[d]
        /\ job'[c].pc = "commit" /\ job'[c].seen = NoCard /\ job'[c].fresh = FALSE
        /\ job'[c].index = job[c].index /\ job'[c].held = job[c].held
    BY <1>4, <1>7, EnsuredJob
  <2>4. ~Found(job'[c].seen)
    BY <2>3 DEF Found, NoCard
  <2> QED  BY <1>2, <1>3, <1>7, <2>2, <2>3, <2>4, StaysKeeps DEF Busy
<1>8. CASE /\ Found(w)
           /\ job' = [[job EXCEPT ![c].seen = w, ![c].fresh = TRUE] EXCEPT ![c].pc = "patch"]
           /\ lock' = lock
  <2>1. PICK i \in DOMAIN cards[fp(c)] : /\ w = cards[fp(c)][i] /\ cards[fp(c)][i].id = i
                                         /\ cards[fp(c)][i] \in Card
    BY <1>1, <1>8, FoundCard
  <2> HIDE DEF w
  <2>2. /\ job' \in [Calls -> Job]
        /\ \A d \in Calls : d # c => job'[d] = job[d]
        /\ job'[c].pc = "patch" /\ job'[c].seen = w
        /\ job'[c].index = job[c].index /\ job'[c].held = job[c].held
    BY <1>4, <1>8, <2>1 DEF Job, Busy
  <2>3. /\ Found(job'[c].seen) /\ job'[c].seen.id \in DOMAIN cards[fp(c)]
        /\ job'[c].seen = cards[fp(c)][job'[c].seen.id]
    BY <1>8, <2>1, <2>2
  <2>4. job'[c].pc \in Busy /\ job[c].pc \in Busy /\ job'[c].pc # "create" /\ job'[c].pc # "commit"
    BY <1>2, <2>2 DEF Busy
  <2> QED  BY <1>2, <1>3, <1>8, <2>2, <2>3, <2>4, StaysKeeps
<1> QED  BY <1>5, <1>6, <1>7, <1>8 DEF Find

\* A request that was given up has changed nothing yet.
LEMMA LostKeeps ==
    ASSUME AlertInv, NEW c \in Calls, Lost(c)
    PROVE  AlertInv'
<1> USE DEF AlertInv, Disturbed
<1>1. job \in [Calls -> Job] /\ job[c] \in Job /\ faults' \in Nat
  BY DEF TypeOK, Lost
<1>2. /\ job[c].pc \in Busy /\ job' = [job EXCEPT ![c].pc = "recover"]
      /\ inflight' = inflight \union Abandoned(c)
      /\ UNCHANGED <<lock, audit, cards, torn, overtaken, edits>>
  BY DEF Lost, Goto, Busy
<1>3. /\ job' \in [Calls -> Job]
      /\ \A d \in Calls : d # c => job'[d] = job[d]
      /\ job'[c].pc = "recover" /\ job'[c].index = job[c].index
      /\ job'[c].held = job[c].held /\ job'[c].seen = job[c].seen
      /\ job'[c].fresh = job[c].fresh
  BY <1>1, <1>2 DEF Job, Busy
<1>4. job'[c].pc \in Busy
  BY <1>3 DEF Busy
<1>5. InFlightTrue' /\ inflight' \in SUBSET Request
  BY <1>2, AbandonedTrue
<1> QED  BY <1>1, <1>2, <1>3, <1>4, <1>5, StaysKeeps DEF ReadsTrue

\* A conflict sends the call back to its read, or ends it.
LEMMA ConflictKeeps ==
    ASSUME AlertInv, NEW c \in Calls, Conflict(c)
    PROVE  AlertInv'
<1> USE DEF AlertInv, Disturbed
<1>1. job \in [Calls -> Job] /\ job[c] \in Job /\ faults \in Nat /\ edits \in Nat
  BY DEF TypeOK
<1>2. /\ job[c].pc \in Busy
      /\ UNCHANGED <<audit, cards, inflight, torn, overtaken, faults, edits>>
      /\ InFlightTrue' /\ inflight' \in SUBSET Request
  BY InFlightSame DEF Conflict, Busy
<1>3. CASE Failed(c)
  BY <1>1, <1>2, <1>3, FailedKeeps
<1>4. CASE job' = [job EXCEPT ![c].pc = "find", ![c].again = TRUE] /\ lock' = lock
  <2>1. /\ job' \in [Calls -> Job]
        /\ \A d \in Calls : d # c => job'[d] = job[d]
        /\ job'[c].pc = "find" /\ job'[c].index = job[c].index
        /\ job'[c].held = job[c].held /\ job'[c].seen = job[c].seen
        /\ job'[c].fresh = job[c].fresh
    BY <1>1, <1>4 DEF Job, Busy
  <2>2. job'[c].pc \in Busy
    BY <2>1 DEF Busy
  <2> QED  BY <1>1, <1>2, <1>4, <2>1, <2>2, StaysKeeps DEF ReadsTrue
<1> QED  BY <1>3, <1>4 DEF Conflict

\* A call that finds its write after a lost answer has it shown.
LEMMA RecoverKeeps ==
    ASSUME AlertInv, NEW c \in Calls, Recover(c)
    PROVE  AlertInv'
<1> USE DEF AlertInv, Disturbed
<1> DEFINE w == _find_operational_alert(fp(c))
           text == IF job[c].seen = NoCard THEN 0 ELSE job[c].seen.text
<1>1. job \in [Calls -> Job] /\ faults \in Nat /\ edits \in Nat /\ fp(c) \in Fingerprints
  BY AlertTyped DEF TypeOK
<1>2. /\ job[c].pc \in Busy
      /\ UNCHANGED <<audit, cards, inflight, torn, overtaken, faults, edits>>
      /\ InFlightTrue' /\ inflight' \in SUBSET Request
  BY InFlightSame DEF Recover, Busy
<1>3. CASE Failed(c)
  BY <1>1, <1>2, <1>3, FailedKeeps
<1>4. CASE /\ _operational_alert_matches(w, alert(c), text)
           /\ Ensured(c, job) /\ lock' = lock
  <2>2. fp(c) \in Disturbed \/ Shown(fp(c), alert(c))
    BY <1>4, MatchShown
  <2>3. /\ job' \in [Calls -> Job]
        /\ \A d \in Calls : d # c => job'[d] = job[d]
        /\ job'[c].pc = "commit" /\ job'[c].seen = NoCard /\ job'[c].fresh = FALSE
        /\ job'[c].index = job[c].index /\ job'[c].held = job[c].held
    BY <1>1, <1>4, EnsuredJob
  <2>4. ~Found(job'[c].seen) /\ job'[c].pc \in Busy
    BY <2>3 DEF Found, NoCard, Busy
  <2> QED  BY <1>1, <1>2, <1>4, <2>2, <2>3, <2>4, StaysKeeps
<1> QED  BY <1>3, <1>4 DEF Recover

\* The row of a call behind the lock is the latest, and its package shows it.
LEMMA CommitKeeps ==
    ASSUME AlertInv, NEW c \in Calls, Commit(c)
    PROVE  AlertInv'
<1> USE DEF AlertInv, Disturbed
<1>1. faults \in Nat /\ edits \in Nat /\ audit \in SUBSET Alerts
  BY DEF TypeOK
<1>2. job[c].pc = "commit" /\ UNCHANGED <<cards, inflight, torn, overtaken, faults, edits>>
  BY DEF Commit
<1>3. alert(c) \in Alerts /\ fp(c) \in Fingerprints /\ alert(c).fingerprint = fp(c)
  BY AlertTyped
<1>4. CASE ~job[c].held
  BY <1>1, <1>2, <1>4, FailedKeeps, InFlightSame DEF Commit
<1>5. CASE job[c].held
  <2>1. Settled(c) /\ audit' = audit \union {alert(c)}
    BY <1>5 DEF Commit
  <2>2. /\ TypeOK' /\ Indexed' /\ LockHeld' /\ ReadsTrue' /\ InFlightTrue'
        /\ CreatesFirst' /\ OnePackage' /\ SettledCovered'
    <3>1. ~operational_alert_is_stale(alert(c), alert(c))
      BY <1>3, StaleOrder
    <3>2. lock[fp(c)] = c
      BY <1>5 DEF LockHeld
    <3> QED  BY <1>1, <1>2, <1>3, <2>1, <3>1, <3>2, SettledKeeps
  <2>3. LatestExists'
    <3> SUFFICES ASSUME NEW f \in Fingerprints, \E a \in audit' : a.fingerprint = f
                 PROVE  \E m \in audit' : /\ m.fingerprint = f
                                          /\ \A s \in audit' : s.fingerprint = f =>
                                                ~operational_alert_is_stale(m, s)
      BY DEF LatestExists, current, Latest
    <3>1. (\E a \in audit : a.fingerprint = f) =>
             \E m \in audit : /\ m.fingerprint = f
                              /\ \A s \in audit : s.fingerprint = f =>
                                    ~operational_alert_is_stale(m, s)
      BY DEF LatestExists, current, Latest
    <3>2. CASE f # fp(c)
      BY <1>3, <2>1, <3>1, <3>2
    <3>3. CASE f = fp(c) /\ ~\E a \in audit : a.fingerprint = f
      BY <1>3, <2>1, <3>3, StaleOrder
    <3>4. CASE f = fp(c) /\ \E a \in audit : a.fingerprint = f
      <4>1. PICK m \in audit : /\ m.fingerprint = f
                               /\ \A s \in audit : s.fingerprint = f =>
                                     ~operational_alert_is_stale(m, s)
        BY <3>1, <3>4
      <4>2. m \in Alerts
        BY <1>1
      <4>3. CASE ~operational_alert_is_stale(m, alert(c))
        BY <2>1, <4>1, <4>3
      <4>4. CASE operational_alert_is_stale(m, alert(c))
        <5>1. ~operational_alert_is_stale(alert(c), m) /\ ~operational_alert_is_stale(alert(c), alert(c))
          BY <1>3, <4>2, <4>4, StaleOrder
        <5>2. \A s \in audit : s.fingerprint = f => ~operational_alert_is_stale(alert(c), s)
          BY <1>1, <1>3, <4>1, <4>2, <5>1, StaleOrder
        <5> QED  BY <1>3, <2>1, <3>4, <5>1, <5>2
      <4> QED  BY <4>3, <4>4
    <3> QED  BY <3>2, <3>3, <3>4
  <2>4. RowsShown'
    <3>1. fp(c) \notin Disturbed => Shown(fp(c), alert(c))
      BY <1>2 DEF WritesCurrent, Shown, Busy
    <3> QED  BY <1>2, <1>3, <2>1, <3>1 DEF RowsShown, Shown
  <2>5. WritesCurrent'
    <3>1. \A d \in Calls : job'[d].pc \in Busy => d # c /\ job'[d] = job[d]
      BY <2>1, SettledJob DEF Busy
    <3> SUFFICES ASSUME NEW d \in Calls, job'[d].pc \in Busy, fp(d) \notin Disturbed
                 PROVE  \A r \in audit' : r.fingerprint = fp(d) =>
                            ~operational_alert_is_stale(alert(d), r)
      BY <1>2, <3>1 DEF WritesCurrent, Shown, alert, fp
    <3>2. fp(d) # fp(c)
      BY <1>2, <3>1, Exclusive DEF Busy
    <3> QED  BY <1>3, <2>1, <3>1, <3>2 DEF WritesCurrent, Shown
  <2> QED  BY <2>2, <2>3, <2>4, <2>5
<1> QED  BY <1>4, <1>5

\* A worker that dies gives up.
LEMMA DieKeeps ==
    ASSUME AlertInv, NEW c \in Calls, Die(c)
    PROVE  AlertInv'
<1>1. /\ Failed(c) /\ UNCHANGED <<audit, cards, torn, overtaken>>
      /\ inflight' = inflight \union Abandoned(c)
      /\ faults' \in Nat /\ edits' \in Nat
  BY DEF Die, AlertInv, TypeOK
<1>2. InFlightTrue' /\ inflight' \in SUBSET Request
  BY <1>1, AbandonedTrue
<1> QED  BY <1>1, <1>2, FailedKeeps

\* A call that goes on without its lock tore it.
LEMMA LoseConnectionKeeps ==
    ASSUME AlertInv, NEW c \in Calls, LoseConnection(c)
    PROVE  AlertInv'
<1> USE DEF AlertInv, Disturbed
<1>1. /\ job \in [Calls -> Job] /\ job[c] \in Job /\ faults' \in Nat /\ edits \in Nat
      /\ fp(c) \in Fingerprints
  BY AlertTyped DEF TypeOK, LoseConnection
<1>2. /\ lock' = [lock EXCEPT ![fp(c)] = Nobody]
      /\ job' = [job EXCEPT ![c].held = FALSE]
      /\ torn' = torn \union {fp(c)} /\ job[c].held
      /\ UNCHANGED <<audit, cards, inflight, overtaken, edits>>
  BY DEF LoseConnection
<1>3. /\ job' \in [Calls -> Job]
      /\ \A d \in Calls : d # c => job'[d] = job[d]
      /\ \A d \in Calls : /\ job'[d].pc = job[d].pc /\ job'[d].index = job[d].index
                          /\ job'[d].seen = job[d].seen /\ job'[d].fresh = job[d].fresh
      /\ ~job'[c].held
  BY <1>1, <1>2 DEF Job
<1>4. \A d \in Calls : alert(d)' = alert(d) /\ fp(d)' = fp(d)
  BY <1>3 DEF alert, fp
<1>5. TypeOK' /\ Indexed'
  BY <1>1, <1>2, <1>3 DEF TypeOK, Indexed
<1>6. LockHeld'
  <2>1. lock[fp(c)] = c
    BY <1>2 DEF LockHeld
  <2>2. \A d \in Calls : d # c /\ job[d].held => lock'[fp(d)] = d
    BY <1>1, <1>2, <2>1 DEF LockHeld, TypeOK
  <2> QED  BY <1>2, <1>3, <1>4, <2>2 DEF LockHeld
<1>7. ReadsTrue'
  BY <1>2, <1>3, <1>4 DEF ReadsTrue
<1>8. CreatesFirst' /\ OnePackage'
  BY <1>2, <1>3, <1>4 DEF CreatesFirst, OnePackage
<1>9. LatestExists' /\ RowsShown'
  BY <1>2 DEF LatestExists, RowsShown, Shown, current
<1>10. WritesCurrent'
  BY <1>2, <1>3, <1>4 DEF WritesCurrent, Shown
<1>11. SettledCovered'
  BY <1>2, <1>3 DEF SettledCovered, Covered
<1> QED  BY <1>2, <1>5, <1>6, <1>7, <1>8, <1>9, <1>10, <1>11, InFlightSame

-----------------------------------------------------------------------------
(* Steps that write a package.                                             *)

\* A write makes the reads of its package out of date and changes no job otherwise.
LEMMA OutdatedJobs ==
    ASSUME TypeOK, NEW f, NEW id
    PROVE  /\ Outdated(f, id) \in [Calls -> Job]
           /\ \A d \in Calls :
                /\ Outdated(f, id)[d].pc = job[d].pc
                /\ Outdated(f, id)[d].index = job[d].index
                /\ Outdated(f, id)[d].seen = job[d].seen
                /\ Outdated(f, id)[d].held = job[d].held
                /\ Outdated(f, id)[d].fresh =>
                     /\ job[d].fresh
                     /\ ~(fp(d) = f /\ Found(job[d].seen) /\ job[d].seen.id = id)
<1> DEFINE Stale(d) == fp(d) = f /\ Found(job[d].seen) /\ job[d].seen.id = id
           j(d) == IF Stale(d) THEN [job[d] EXCEPT !.fresh = FALSE] ELSE job[d]
<1>1. Outdated(f, id) = [d \in Calls |-> j(d)]
  BY DEF Outdated
<1>2. ASSUME NEW d \in Calls
      PROVE  /\ j(d) \in Job /\ j(d).pc = job[d].pc /\ j(d).index = job[d].index
             /\ j(d).seen = job[d].seen /\ j(d).held = job[d].held
             /\ j(d).fresh => job[d].fresh /\ ~Stale(d)
  <2>1. job[d] \in Job
    BY DEF TypeOK
  <2> HIDE DEF Stale
  <2>2. CASE Stale(d)
    BY <2>1, <2>2 DEF Job
  <2>3. CASE ~Stale(d)
    BY <2>1, <2>3
  <2> QED  BY <2>2, <2>3
<1> HIDE DEF j
<1> QED  BY <1>1, <1>2

\* After a write a call is before its commit, or does not know the answer.
LEMMA AnswerJob ==
    ASSUME TypeOK, NEW c \in Calls, NEW jobs \in [Calls -> Job], Answer(c, jobs)
    PROVE  /\ job' \in [Calls -> Job] /\ faults' \in Nat
           /\ \A d \in Calls : d # c => job'[d] = jobs[d]
           /\ job'[c].pc \in {"commit", "recover"}
           /\ job'[c].index = jobs[c].index /\ job'[c].held = jobs[c].held
           /\ job'[c].seen = NoCard \/ job'[c].seen = jobs[c].seen
           /\ job'[c].fresh => jobs[c].fresh /\ job'[c].seen = jobs[c].seen
<1>1. CASE Ensured(c, jobs) /\ faults' = faults
  BY <1>1, EnsuredJob DEF TypeOK
<1>2. CASE faults' = faults + 1 /\ job' = [jobs EXCEPT ![c].pc = "recover"]
  <2> DEFINE j == [jobs[c] EXCEPT !.pc = "recover"]
  <2>1. /\ j \in Job /\ j.pc = "recover" /\ j.index = jobs[c].index
        /\ j.held = jobs[c].held /\ j.seen = jobs[c].seen /\ j.fresh = jobs[c].fresh
    BY DEF Job, Busy
  <2>2. job' = [jobs EXCEPT ![c] = j]
    BY <1>2
  <2> HIDE DEF j
  <2>3. /\ job' \in [Calls -> Job] /\ job'[c] = j
        /\ \A d \in Calls : d # c => job'[d] = jobs[d]
    BY <2>1, <2>2
  <2>4. faults' \in Nat
    BY <1>2 DEF TypeOK
  <2> QED  BY <2>1, <2>3, <2>4
<1> QED  BY <1>1, <1>2 DEF Answer

\* A write to the package of a call's alert keeps the invariant when the other readers
\* know, and when an undisturbed fingerprint is left with the one package that
\* shows the alert.
LEMMA WriteKeeps ==
    ASSUME AlertInv, NEW c \in Calls, job[c].pc \in Busy,
           UNCHANGED <<lock, audit, torn, overtaken, edits>>, faults' \in Nat,
           inflight' \in SUBSET Request, InFlightTrue',
           job' \in [Calls -> Job], cards' \in [Fingerprints -> Seq(Card)],
           \A d \in Calls : job'[d].index = job[d].index /\ job'[d].held = job[d].held,
           \A d \in Calls : d # c => job'[d].pc = job[d].pc,
           job'[c].pc \in {"commit", "recover"},
           \A d \in Calls : job'[d].seen = job[d].seen \/ (d = c /\ job'[d].seen = NoCard),
           \A d \in Calls : job'[d].fresh => job[d].fresh,
           \A d \in Calls : fp(d) = fp(c) /\ Found(job'[d].seen) /\ job'[d].fresh =>
               job[d].seen = cards'[fp(c)][job[d].seen.id],
           \A f \in Fingerprints : f # fp(c) => cards'[f] = cards[f],
           DOMAIN cards[fp(c)] \subseteq DOMAIN cards'[fp(c)],
           \A i \in DOMAIN cards'[fp(c)] : cards'[fp(c)][i].id = i,
           \/ fp(c) \in Disturbed
           \/ Len(cards'[fp(c)]) = 1 /\ cards'[fp(c)][1].shows = alert(c)
    PROVE  AlertInv'
<1> USE DEF AlertInv, Disturbed
<1>1. \A d \in Calls : alert(d)' = alert(d) /\ fp(d)' = fp(d) /\ fp(d) \in Fingerprints
  BY AlertTyped DEF alert, fp
<1>2. TypeOK' /\ Indexed'
  BY DEF TypeOK, Indexed
<1>3. LockHeld'
  <2>1. \A d \in Calls : job'[d].pc \in Busy <=> job[d].pc \in Busy
    BY DEF Busy
  <2> QED  BY <1>1, <2>1 DEF LockHeld
<1>4. ReadsTrue'
  <2>1. ~Found(NoCard)
    BY DEF Found, NoCard
  <2>2. \A f \in Fingerprints : \A i \in DOMAIN cards'[f] : cards'[f][i].id = i
    BY DEF ReadsTrue
  <2> SUFFICES ASSUME NEW d \in Calls
               PROVE  /\ job'[d].pc = "patch" => Found(job'[d].seen)
                      /\ Found(job'[d].seen) => job'[d].seen.id \in DOMAIN cards'[fp(d)]
                      /\ Found(job'[d].seen) /\ job'[d].fresh =>
                           job'[d].seen = cards'[fp(d)][job'[d].seen.id]
    BY <1>1, <2>2 DEF ReadsTrue
  <2>3. job'[d].pc = "patch" => d # c /\ job[d].pc = "patch" /\ job'[d].seen = job[d].seen
    OBVIOUS
  <2>4. Found(job'[d].seen) => job'[d].seen = job[d].seen
    BY <2>1
  <2>5. Found(job'[d].seen) => job'[d].seen.id \in DOMAIN cards'[fp(d)]
    <3>1. Found(job[d].seen) => job[d].seen.id \in DOMAIN cards[fp(d)]
      BY DEF ReadsTrue
    <3> QED  BY <1>1, <2>4, <3>1
  <2>6. Found(job'[d].seen) /\ job'[d].fresh =>
          job'[d].seen = cards'[fp(d)][job'[d].seen.id]
    <3>1. CASE fp(d) = fp(c)
      BY <2>4, <3>1
    <3>2. CASE fp(d) # fp(c)
      BY <1>1, <2>4, <3>2 DEF ReadsTrue
    <3> QED  BY <3>1, <3>2
  <2> QED  BY <2>3, <2>5, <2>6 DEF ReadsTrue
<1>5. CreatesFirst'
  <2> SUFFICES ASSUME NEW d \in Calls, job'[d].pc = "create", fp(d) \notin Disturbed
               PROVE  cards'[fp(d)] = <<>>
    BY <1>1 DEF CreatesFirst
  <2>1. d # c /\ job[d].pc = "create"
    OBVIOUS
  <2>2. fp(d) # fp(c)
    BY <2>1, Exclusive DEF Busy
  <2> QED  BY <1>1, <2>1, <2>2 DEF CreatesFirst
<1>6. OnePackage'
  <2> SUFFICES ASSUME NEW f \in Fingerprints \ Disturbed PROVE Len(cards'[f]) <= 1
    BY DEF OnePackage
  <2>1. CASE f = fp(c)
    BY <2>1
  <2>2. CASE f # fp(c)
    BY <2>2 DEF OnePackage
  <2> QED  BY <2>1, <2>2
<1>7. LatestExists'
  BY DEF LatestExists, current
<1>8. RowsShown'
  <2> SUFFICES ASSUME NEW r \in audit, r.fingerprint \notin Disturbed
               PROVE  Shown(r.fingerprint, r)'
    BY DEF RowsShown, Shown
  <2>1. r.fingerprint \in Fingerprints
    BY AlertFingerprint DEF TypeOK
  <2>2. CASE r.fingerprint # fp(c)
    BY <2>1, <2>2 DEF RowsShown, Shown
  <2>3. CASE r.fingerprint = fp(c)
    <3>1. ~operational_alert_is_stale(alert(c), r)
      BY <2>3 DEF WritesCurrent
    <3>2. Len(cards'[fp(c)]) = 1 /\ cards'[fp(c)][1].shows = alert(c)
      BY <2>3
    <3> QED  BY <2>3, <3>1, <3>2 DEF Shown
  <2> QED  BY <2>2, <2>3
<1>9. WritesCurrent'
  <2> SUFFICES ASSUME NEW d \in Calls, job'[d].pc \in Busy, fp(d) \notin Disturbed
               PROVE  /\ \A r \in audit : r.fingerprint = fp(d) =>
                             ~operational_alert_is_stale(alert(d), r)
                      /\ job'[d].pc = "commit" =>
                           /\ cards'[fp(d)] # <<>>
                           /\ ~operational_alert_is_stale(cards'[fp(d)][1].shows, alert(d))
    BY <1>1 DEF WritesCurrent, Shown
  <2>1. CASE d = c
    <3>1. Len(cards'[fp(c)]) = 1 /\ cards'[fp(c)][1].shows = alert(c)
      BY <2>1
    <3>2. ~operational_alert_is_stale(alert(c), alert(c))
      BY AlertTyped, StaleOrder
    <3> QED  BY <2>1, <3>1, <3>2 DEF WritesCurrent
  <2>2. CASE d # c
    <3>1. job[d].pc = job'[d].pc
      BY <2>2
    <3>2. fp(d) # fp(c)
      BY <2>2, <3>1, Exclusive
    <3> QED  BY <1>1, <3>1, <3>2 DEF WritesCurrent, Shown
  <2> QED  BY <2>1, <2>2
<1>10. SettledCovered'
  BY DEF SettledCovered, Covered
<1> QED  BY <1>2, <1>3, <1>4, <1>5, <1>6, <1>7, <1>8, <1>9, <1>10

\* A new package is the first one, unless the fingerprint was disturbed.
LEMMA CreateKeeps ==
    ASSUME AlertInv, NEW c \in Calls, Create(c)
    PROVE  AlertInv'
<1> USE DEF AlertInv, Disturbed
<1>1. alert(c) \in Alerts /\ fp(c) \in Fingerprints
  BY AlertTyped
<1>2. /\ job[c].pc = "create" /\ Answer(c, job) /\ UNCHANGED <<lock, audit, torn, overtaken, edits>>
      /\ inflight' = inflight
      /\ cards' = [cards EXCEPT ![fp(c)] = Append(@, NewCard(alert(c), Len(@) + 1))]
  BY DEF Create
<1>3. job \in [Calls -> Job]
  BY DEF TypeOK
<1>4. /\ job' \in [Calls -> Job] /\ faults' \in Nat
      /\ \A d \in Calls : d # c => job'[d] = job[d]
      /\ job'[c].pc \in {"commit", "recover"}
      /\ job'[c].index = job[c].index /\ job'[c].held = job[c].held
      /\ job'[c].seen = NoCard \/ job'[c].seen = job[c].seen
      /\ job'[c].fresh => job[c].fresh /\ job'[c].seen = job[c].seen
  BY <1>2, <1>3, AnswerJob
<1> DEFINE old == cards[fp(c)]
           new == NewCard(alert(c), Len(old) + 1)
<1>5. old \in Seq(Card) /\ Len(old) \in Nat
  BY <1>1 DEF TypeOK
<1>6. new \in Card /\ new.id = Len(old) + 1 /\ new.shows = alert(c)
  BY <1>1, <1>5 DEF NewCard, Card
<1>7. /\ cards'[fp(c)] = Append(old, new)
      /\ \A f \in Fingerprints : f # fp(c) => cards'[f] = cards[f]
  BY <1>1, <1>2 DEF TypeOK
<1> HIDE DEF new
<1>8. cards' \in [Fingerprints -> Seq(Card)]
  BY <1>2, <1>5, <1>6, <1>7 DEF TypeOK
<1>9. /\ DOMAIN old = 1 .. Len(old) /\ DOMAIN cards'[fp(c)] = 1 .. Len(old) + 1
      /\ Len(cards'[fp(c)]) = Len(old) + 1
      /\ cards'[fp(c)][Len(old) + 1] = new
      /\ \A i \in 1 .. Len(old) : cards'[fp(c)][i] = old[i]
  BY <1>5, <1>6, <1>7
<1>10. \A i \in DOMAIN cards'[fp(c)] : cards'[fp(c)][i].id = i
  <2>1. \A i \in 1 .. Len(old) : old[i].id = i
    BY <1>1, <1>9 DEF ReadsTrue
  <2> QED  BY <1>5, <1>6, <1>9, <2>1
<1>11. DOMAIN cards[fp(c)] \subseteq DOMAIN cards'[fp(c)]
  BY <1>5, <1>9
<1>12. \A d \in Calls : fp(d) = fp(c) /\ Found(job'[d].seen) /\ job'[d].fresh =>
           job[d].seen = cards'[fp(c)][job[d].seen.id]
  <2> SUFFICES ASSUME NEW d \in Calls, fp(d) = fp(c), Found(job'[d].seen), job'[d].fresh
               PROVE  job[d].seen = cards'[fp(c)][job[d].seen.id]
    OBVIOUS
  <2>1. Found(job[d].seen) /\ job[d].fresh
    BY <1>4
  <2>2. job[d].seen.id \in DOMAIN old /\ job[d].seen = old[job[d].seen.id]
    BY <2>1 DEF ReadsTrue
  <2> QED  BY <1>9, <2>2
<1>13. fp(c) \in Disturbed \/ (Len(cards'[fp(c)]) = 1 /\ cards'[fp(c)][1].shows = alert(c))
  <2> SUFFICES ASSUME fp(c) \notin Disturbed
               PROVE  Len(cards'[fp(c)]) = 1 /\ cards'[fp(c)][1].shows = alert(c)
    OBVIOUS
  <2>1. Len(old) = 0
    BY <1>2 DEF CreatesFirst
  <2> QED  BY <1>6, <1>9, <2>1
<1>14. /\ \A d \in Calls : job'[d].index = job[d].index /\ job'[d].held = job[d].held
       /\ \A d \in Calls : d # c => job'[d].pc = job[d].pc
       /\ \A d \in Calls : job'[d].seen = job[d].seen \/ (d = c /\ job'[d].seen = NoCard)
       /\ \A d \in Calls : job'[d].fresh => job[d].fresh
  BY <1>4
<1>15. job[c].pc \in Busy
  BY <1>2 DEF Busy
<1>16. InFlightTrue' /\ inflight' \in SUBSET Request
  <2>1. \A r \in inflight : r.alert.fingerprint \in Fingerprints
    BY AlertFingerprint DEF TypeOK, Request
  <2> QED  BY <1>2, <1>7, <1>9, <2>1 DEF InFlightTrue, TypeOK
<1> QED  BY <1>2, <1>4, <1>7, <1>8, <1>10, <1>11, <1>12, <1>13, <1>14, <1>15, <1>16, WriteKeeps

\* An update with a current version writes back what a person wrote.
LEMMA PatchKeeps ==
    ASSUME AlertInv, NEW c \in Calls, Patch(c)
    PROVE  /\ AlertInv'
           /\ \A f \in Fingerprints : \A i \in DOMAIN cards[f] :
                  cards'[f][i].text >= cards[f][i].text
<1> USE DEF AlertInv, Disturbed
<1> DEFINE id == job[c].seen.id
           old == cards[fp(c)]
           new == [job[c].seen EXCEPT !.shows = alert(c)]
           jobs == Outdated(fp(c), id)
<1>1. alert(c) \in Alerts /\ fp(c) \in Fingerprints
  BY AlertTyped
<1>2. /\ job[c].pc = "patch" /\ job[c].fresh /\ Answer(c, jobs)
      /\ inflight' = inflight \ Superseded(fp(c), id)
      /\ UNCHANGED <<lock, audit, torn, overtaken, edits>>
      /\ cards' = [cards EXCEPT ![fp(c)][id] = new]
  BY DEF Patch
<1>3. Found(job[c].seen) /\ id \in DOMAIN old /\ job[c].seen = old[id]
  BY <1>2 DEF ReadsTrue
<1>4. old \in Seq(Card) /\ Len(old) \in Nat /\ DOMAIN old = 1 .. Len(old)
  BY <1>1 DEF TypeOK
<1>5. old[id] \in Card
  BY <1>3, <1>4
<1>6. new \in Card /\ new.id = id /\ new.shows = alert(c) /\ new.text = old[id].text
  BY <1>1, <1>3, <1>5 DEF Card
<1>7. /\ jobs \in [Calls -> Job]
      /\ \A d \in Calls :
           /\ jobs[d].pc = job[d].pc /\ jobs[d].index = job[d].index
           /\ jobs[d].seen = job[d].seen /\ jobs[d].held = job[d].held
           /\ jobs[d].fresh =>
                /\ job[d].fresh
                /\ ~(fp(d) = fp(c) /\ Found(job[d].seen) /\ job[d].seen.id = id)
  BY OutdatedJobs
<1> HIDE DEF new, jobs, id
<1>8. /\ job' \in [Calls -> Job] /\ faults' \in Nat
      /\ \A d \in Calls : d # c => job'[d] = jobs[d]
      /\ job'[c].pc \in {"commit", "recover"}
      /\ job'[c].index = jobs[c].index /\ job'[c].held = jobs[c].held
      /\ job'[c].seen = NoCard \/ job'[c].seen = jobs[c].seen
      /\ job'[c].fresh => jobs[c].fresh /\ job'[c].seen = jobs[c].seen
  BY <1>2, <1>7, AnswerJob
<1>9. /\ cards'[fp(c)] = [old EXCEPT ![id] = new]
      /\ \A f \in Fingerprints : f # fp(c) => cards'[f] = cards[f]
  BY <1>1, <1>2 DEF TypeOK
<1>10. /\ cards'[fp(c)] \in Seq(Card) /\ Len(cards'[fp(c)]) = Len(old)
       /\ DOMAIN cards'[fp(c)] = DOMAIN old /\ cards'[fp(c)][id] = new
       /\ \A i \in DOMAIN old : i # id => cards'[fp(c)][i] = old[i]
  BY <1>3, <1>4, <1>6, <1>9
<1>11. cards' \in [Fingerprints -> Seq(Card)]
  BY <1>2, <1>9, <1>10 DEF TypeOK
<1>12. \A i \in DOMAIN cards'[fp(c)] : cards'[fp(c)][i].id = i
  <2>1. \A i \in DOMAIN old : old[i].id = i
    BY <1>1 DEF ReadsTrue
  <2> QED  BY <1>6, <1>10, <2>1
<1>13. \A d \in Calls : fp(d) = fp(c) /\ Found(job'[d].seen) /\ job'[d].fresh =>
           job[d].seen = cards'[fp(c)][job[d].seen.id]
  <2> SUFFICES ASSUME NEW d \in Calls, fp(d) = fp(c), Found(job'[d].seen), job'[d].fresh
               PROVE  job[d].seen = cards'[fp(c)][job[d].seen.id]
    OBVIOUS
  <2>1. Found(job[d].seen) /\ jobs[d].fresh
    BY <1>7, <1>8
  <2>2. job[d].fresh /\ job[d].seen.id # id
    BY <1>7, <2>1
  <2>3. job[d].seen.id \in DOMAIN old /\ job[d].seen = old[job[d].seen.id]
    BY <2>1, <2>2 DEF ReadsTrue
  <2> QED  BY <1>10, <2>2, <2>3
<1>14. fp(c) \in Disturbed \/ (Len(cards'[fp(c)]) = 1 /\ cards'[fp(c)][1].shows = alert(c))
  <2> SUFFICES ASSUME fp(c) \notin Disturbed
               PROVE  Len(cards'[fp(c)]) = 1 /\ cards'[fp(c)][1].shows = alert(c)
    OBVIOUS
  <2>1. Len(old) <= 1
    BY <1>1 DEF OnePackage
  <2>2. id \in 1 .. Len(old)
    BY <1>3, <1>4 DEF id
  <2>3. \A n \in Nat : \A k \in 1 .. n : n <= 1 => n = 1 /\ k = 1
    OBVIOUS
  <2>4. Len(old) = 1 /\ id = 1
    BY <1>4, <2>1, <2>2, <2>3, Zenon
  <2> QED  BY <1>6, <1>10, <2>4
<1>15. /\ \A d \in Calls : job'[d].index = job[d].index /\ job'[d].held = job[d].held
       /\ \A d \in Calls : d # c => job'[d].pc = job[d].pc
       /\ \A d \in Calls : job'[d].seen = job[d].seen \/ (d = c /\ job'[d].seen = NoCard)
       /\ \A d \in Calls : job'[d].fresh => job[d].fresh
  BY <1>7, <1>8
<1>16. job[c].pc \in Busy /\ DOMAIN cards[fp(c)] \subseteq DOMAIN cards'[fp(c)]
  BY <1>2, <1>10 DEF Busy
<1>17. InFlightTrue' /\ inflight' \in SUBSET Request
  <2>1. \A r \in inflight : r.alert.fingerprint \in Fingerprints
    BY AlertFingerprint DEF TypeOK, Request
  <2> QED  BY <1>2, <1>9, <1>10, <2>1 DEF InFlightTrue, Superseded, TypeOK
<1>18. AlertInv'
  BY <1>2, <1>8, <1>9, <1>11, <1>12, <1>13, <1>14, <1>15, <1>16, <1>17, WriteKeeps
<1>19. \A f \in Fingerprints : \A i \in DOMAIN cards[f] :
           cards'[f][i].text >= cards[f][i].text
  <2> SUFFICES ASSUME NEW f \in Fingerprints, NEW i \in DOMAIN cards[f]
               PROVE  cards'[f][i].text = cards[f][i].text /\ cards[f][i].text \in Nat
    OBVIOUS
  <2>1. cards[f][i].text \in Nat
    <3>1. cards[f][i] \in Card
      BY DEF TypeOK
    <3> QED  BY <3>1 DEF Card
  <2>2. cards'[f][i].text = cards[f][i].text
    BY <1>6, <1>9, <1>10
  <2> QED  BY <2>1, <2>2
<1> QED  BY <1>18, <1>19

\* An edit changes the text or the field of a package and nothing else.
LEMMA EditedCard ==
    ASSUME NEW w \in Card
    PROVE  LET a == [w EXCEPT !.text = @ + 1]
               b == [w EXCEPT !.tagged = ~@]
           IN  /\ a \in Card /\ a.id = w.id /\ a.shows = w.shows /\ a.text >= w.text
               /\ b \in Card /\ b.id = w.id /\ b.shows = w.shows /\ b.text >= w.text
<1> DEFINE a == [w EXCEPT !.text = @ + 1]
           b == [w EXCEPT !.tagged = ~@]
<1>1. /\ w.text \in Nat /\ w.tagged \in BOOLEAN
      /\ w = [is |-> "card", id |-> w.id, shows |-> w.shows, text |-> w.text,
              tagged |-> w.tagged]
  BY DEF Card
<1>2. a \in Card /\ a.id = w.id /\ a.shows = w.shows /\ a.text = w.text + 1
  BY DEF Card
<1>3. b \in Card
  <2>1. (~w.tagged) \in BOOLEAN
    BY <1>1
  <2> QED  BY <2>1 DEF Card
<1>4. b.id = w.id /\ b.shows = w.shows /\ b.text = w.text
  BY DEF Card
<1> QED  BY <1>1, <1>2, <1>3, <1>4

\* A change of a package that did not come from the call behind its lock keeps the
\* invariant when every call and request that read it before is out of date, and when
\* the package shows nothing older than before.
LEMMA RewrittenKeeps ==
    ASSUME AlertInv, NEW f \in Fingerprints, NEW i \in DOMAIN cards[f], NEW new \in Card,
           cards' = [cards EXCEPT ![f] = [cards[f] EXCEPT ![i] = new]],
           job' = Outdated(f, i), inflight' = inflight \ Superseded(f, i),
           UNCHANGED <<lock, audit, torn>>, faults' \in Nat, edits' \in Nat,
           overtaken \subseteq overtaken', overtaken' \in SUBSET Fingerprints,
           new.id = i,
           f \in overtaken' \/ ~operational_alert_is_stale(new.shows, cards[f][i].shows)
    PROVE  AlertInv'
<1> USE DEF AlertInv, Disturbed
<1> DEFINE old == cards[f]
           jobs == Outdated(f, i)
<1>1. job' = jobs
  OBVIOUS
<1>2. old \in Seq(Card) /\ Len(old) \in Nat /\ DOMAIN old = 1 .. Len(old) /\ old[i] \in Card
  BY DEF TypeOK
<1>3. old[i].id = i
  BY DEF ReadsTrue
<1>4. /\ jobs \in [Calls -> Job]
      /\ \A d \in Calls :
           /\ jobs[d].pc = job[d].pc /\ jobs[d].index = job[d].index
           /\ jobs[d].seen = job[d].seen /\ jobs[d].held = job[d].held
           /\ jobs[d].fresh =>
                /\ job[d].fresh
                /\ ~(fp(d) = f /\ Found(job[d].seen) /\ job[d].seen.id = i)
  BY OutdatedJobs
<1> HIDE DEF jobs
<1>5. \A d \in Calls : alert(d)' = alert(d) /\ fp(d)' = fp(d)
  BY <1>1, <1>4 DEF alert, fp
<1>6. /\ cards'[f] = [old EXCEPT ![i] = new]
      /\ \A g \in Fingerprints : g # f => cards'[g] = cards[g]
  BY DEF TypeOK
<1>7. /\ cards'[f] \in Seq(Card) /\ Len(cards'[f]) = Len(old)
      /\ DOMAIN cards'[f] = DOMAIN old /\ cards'[f][i] = new
      /\ \A k \in DOMAIN old : k # i => cards'[f][k] = old[k]
  BY <1>2, <1>6
<1>8. \A g \in Fingerprints :
        /\ cards'[g] \in Seq(Card) /\ Len(cards'[g]) = Len(cards[g])
        /\ DOMAIN cards'[g] = DOMAIN cards[g]
        /\ \A k \in DOMAIN cards[g] :
             /\ cards'[g][k].id = cards[g][k].id
             /\ (g = f /\ k = i) \/ cards'[g][k] = cards[g][k]
  BY <1>3, <1>6, <1>7 DEF TypeOK
<1>9. TypeOK' /\ Indexed'
  <2>1. cards' \in [Fingerprints -> Seq(Card)]
    BY <1>7 DEF TypeOK
  <2>2. TypeOK'
    BY <1>1, <1>4, <2>1 DEF TypeOK
  <2> QED  BY <1>1, <1>4, <2>2 DEF Indexed
<1>10. LockHeld'
  BY <1>1, <1>4, <1>5 DEF LockHeld
<1>11. ReadsTrue'
  <2>1. \A g \in Fingerprints : \A k \in DOMAIN cards'[g] : cards'[g][k].id = k
    BY <1>8 DEF ReadsTrue
  <2> SUFFICES ASSUME NEW d \in Calls
               PROVE  /\ job'[d].pc = "patch" => Found(job'[d].seen)
                      /\ Found(job'[d].seen) => job'[d].seen.id \in DOMAIN cards'[fp(d)]
                      /\ Found(job'[d].seen) /\ job'[d].fresh =>
                           job'[d].seen = cards'[fp(d)][job'[d].seen.id]
    BY <1>5, <2>1 DEF ReadsTrue
  <2>2. fp(d) \in Fingerprints
    BY AlertTyped
  <2>3. /\ job[d].pc = "patch" => Found(job[d].seen)
        /\ Found(job[d].seen) => job[d].seen.id \in DOMAIN cards[fp(d)]
        /\ Found(job[d].seen) /\ job[d].fresh => job[d].seen = cards[fp(d)][job[d].seen.id]
    BY DEF ReadsTrue
  <2> QED  BY <1>1, <1>4, <1>8, <2>2, <2>3
<1>12. InFlightTrue'
  <2>1. \A r \in inflight : r.alert.fingerprint \in Fingerprints
    BY AlertFingerprint DEF TypeOK, Request
  <2> QED  BY <1>8, <2>1 DEF InFlightTrue, Superseded
<1>13. CreatesFirst'
  <2> SUFFICES ASSUME NEW d \in Calls, job'[d].pc = "create", fp(d) \notin Disturbed
               PROVE  cards'[fp(d)] = <<>>
    BY <1>5 DEF CreatesFirst
  <2>1. cards[fp(d)] = <<>> /\ fp(d) \in Fingerprints
    BY <1>1, <1>4, AlertTyped DEF CreatesFirst
  <2>2. Len(cards'[fp(d)]) = 0 /\ cards'[fp(d)] \in Seq(Card)
    BY <1>8, <2>1
  <2> QED  BY <2>2
<1>14. OnePackage'
  BY <1>8 DEF OnePackage
<1>15. LatestExists'
  BY DEF LatestExists, current
<1>16. ASSUME NEW g \in Fingerprints, NEW a \in Alerts, Shown(g, a), g \notin Disturbed'
       PROVE  cards'[g] # <<>> /\ ~operational_alert_is_stale(cards'[g][1].shows, a)
  <2>1. 1 \in DOMAIN cards[g] /\ Len(cards[g]) > 0 /\ cards[g] \in Seq(Card)
    <3>1. cards[g] \in Seq(Card)
      BY DEF TypeOK
    <3> QED  BY <1>16, <3>1 DEF Shown
  <2>2. CASE g = f /\ i = 1
    <3>1. ~operational_alert_is_stale(new.shows, old[1].shows)
      BY <1>16, <2>2
    <3>2. new.shows \in Alerts /\ old[1].shows \in Alerts
      BY <1>2, <2>2 DEF Card
    <3>3. ~operational_alert_is_stale(old[1].shows, a)
      BY <1>16, <2>2 DEF Shown
    <3>4. ~operational_alert_is_stale(new.shows, a)
      BY <3>1, <3>2, <3>3, StaleOrder
    <3> QED  BY <1>7, <1>8, <2>1, <2>2, <3>4
  <2>3. CASE ~(g = f /\ i = 1)
    BY <1>8, <1>16, <2>1, <2>3 DEF Shown
  <2> QED  BY <2>2, <2>3
<1>17. RowsShown'
  <2> SUFFICES ASSUME NEW r \in audit, r.fingerprint \notin Disturbed'
               PROVE  /\ cards'[r.fingerprint] # <<>>
                      /\ ~operational_alert_is_stale(cards'[r.fingerprint][1].shows, r)
    BY DEF RowsShown, Shown
  <2>1. r \in Alerts /\ r.fingerprint \in Fingerprints
    BY AlertFingerprint DEF TypeOK
  <2>2. Shown(r.fingerprint, r)
    BY DEF RowsShown
  <2> QED  BY <1>16, <2>1, <2>2
<1>18. WritesCurrent'
  <2> SUFFICES ASSUME NEW d \in Calls, job[d].pc \in Busy, fp(d) \notin Disturbed'
               PROVE  /\ \A r \in audit : r.fingerprint = fp(d) =>
                             ~operational_alert_is_stale(alert(d), r)
                      /\ job[d].pc = "commit" =>
                           /\ cards'[fp(d)] # <<>>
                           /\ ~operational_alert_is_stale(cards'[fp(d)][1].shows, alert(d))
    BY <1>1, <1>4, <1>5 DEF WritesCurrent, Shown
  <2>1. alert(d) \in Alerts /\ fp(d) \in Fingerprints
    BY AlertTyped
  <2>2. /\ \A r \in audit : r.fingerprint = fp(d) => ~operational_alert_is_stale(alert(d), r)
        /\ job[d].pc = "commit" => Shown(fp(d), alert(d))
    BY DEF WritesCurrent
  <2> QED  BY <1>16, <2>1, <2>2
<1>19. SettledCovered'
  BY <1>1, <1>4 DEF SettledCovered, Covered
<1> QED  BY <1>9, <1>10, <1>11, <1>12, <1>13, <1>14, <1>15, <1>17, <1>18, <1>19

\* A package that is written over keeps its text when the new one has as much.
LEMMA RewrittenText ==
    ASSUME TypeOK, NEW f \in Fingerprints, NEW i \in DOMAIN cards[f], NEW new \in Card,
           cards' = [cards EXCEPT ![f] = [cards[f] EXCEPT ![i] = new]],
           new.text >= cards[f][i].text
    PROVE  \A g \in Fingerprints : \A k \in DOMAIN cards[g] :
               cards'[g][k].text >= cards[g][k].text
<1> SUFFICES ASSUME NEW g \in Fingerprints, NEW k \in DOMAIN cards[g]
             PROVE  cards'[g][k].text >= cards[g][k].text
  OBVIOUS
<1>1. cards[g] \in Seq(Card) /\ cards[f] \in Seq(Card) /\ cards \in [Fingerprints -> Seq(Card)]
  BY DEF TypeOK
<1>2. cards[g][k].text \in Nat
  <2>1. cards[g][k] \in Card
    BY <1>1
  <2> QED  BY <2>1 DEF Card
<1>3. CASE g = f /\ k = i
  BY <1>1, <1>3
<1>4. CASE ~(g = f /\ k = i)
  <2>1. cards'[g][k] = cards[g][k]
    BY <1>1, <1>4
  <2> QED  BY <1>2, <2>1
<1> QED  BY <1>3, <1>4

\* A person's edit is seen by every call that read the package before.
LEMMA EditKeeps ==
    ASSUME AlertInv, NEW f \in Fingerprints, NEW i \in DOMAIN cards[f], Edit(f, i)
    PROVE  /\ AlertInv'
           /\ \A g \in Fingerprints : \A k \in DOMAIN cards[g] :
                  cards'[g][k].text >= cards[g][k].text
<1> USE DEF AlertInv
<1> DEFINE old == cards[f]
<1>1. /\ job' = Outdated(f, i) /\ inflight' = inflight \ Superseded(f, i)
      /\ edits' \in Nat /\ faults' \in Nat /\ overtaken' = overtaken
      /\ overtaken' \in SUBSET Fingerprints /\ UNCHANGED <<lock, audit, torn>>
  BY DEF Edit, TypeOK
<1>2. old[i] \in Card /\ old[i].id = i
  BY DEF TypeOK, ReadsTrue
<1>3. PICK new \in Card : /\ cards' = [cards EXCEPT ![f] = [old EXCEPT ![i] = new]]
                          /\ new.id = old[i].id /\ new.shows = old[i].shows
                          /\ new.text >= old[i].text
  <2>1. CASE cards' = [cards EXCEPT ![f][i].text = @ + 1]
    <3> DEFINE n == [old[i] EXCEPT !.text = @ + 1]
    <3>1. n \in Card /\ n.id = old[i].id /\ n.shows = old[i].shows /\ n.text >= old[i].text
      BY <1>2, EditedCard
    <3>2. cards' = [cards EXCEPT ![f] = [old EXCEPT ![i] = n]]
      BY <2>1
    <3> HIDE DEF n
    <3> QED  BY <3>1, <3>2
  <2>2. CASE cards' = [cards EXCEPT ![f][i].tagged = ~@]
    <3> DEFINE n == [old[i] EXCEPT !.tagged = ~@]
    <3>1. n \in Card /\ n.id = old[i].id /\ n.shows = old[i].shows /\ n.text >= old[i].text
      BY <1>2, EditedCard
    <3>2. cards' = [cards EXCEPT ![f] = [old EXCEPT ![i] = n]]
      BY <2>2
    <3> HIDE DEF n
    <3> QED  BY <3>1, <3>2
  <2> QED  BY <2>1, <2>2 DEF Edit
<1>4. ~operational_alert_is_stale(new.shows, old[i].shows)
  BY <1>2, <1>3, StaleOrder DEF Card
<1>5. AlertInv'
  BY <1>1, <1>2, <1>3, <1>4, RewrittenKeeps
<1>6. \A g \in Fingerprints : \A k \in DOMAIN cards[g] :
          cards'[g][k].text >= cards[g][k].text
  BY <1>3, RewrittenText
<1> QED  BY <1>5, <1>6

\* A late update is one of the package as it is, and what it takes back is overtaken.
LEMMA LatePatchKeeps ==
    ASSUME AlertInv, NEW r \in inflight, LatePatch(r),
           UNCHANGED <<lock, audit, torn, faults, edits>>
    PROVE  /\ AlertInv'
           /\ \A g \in Fingerprints : \A k \in DOMAIN cards[g] :
                  cards'[g][k].text >= cards[g][k].text
<1> USE DEF AlertInv
<1> DEFINE f == r.alert.fingerprint
           i == r.seen.id
           new == [r.seen EXCEPT !.shows = r.alert]
<1>1. r.alert \in Alerts /\ f \in Fingerprints
  BY AlertFingerprint DEF TypeOK, Request
<1>2. Found(r.seen) /\ i \in DOMAIN cards[f] /\ r.seen = cards[f][i]
  BY DEF LatePatch, InFlightTrue
<1>3. cards[f] \in Seq(Card) /\ cards[f][i] \in Card /\ cards[f][i].id = i
  BY <1>1, <1>2 DEF TypeOK, ReadsTrue
<1>4. /\ new \in Card /\ new.id = i /\ new.shows = r.alert
      /\ new.text = cards[f][i].text /\ new.text \in Nat
  BY <1>1, <1>2, <1>3 DEF Card
<1>5. /\ cards' = [cards EXCEPT ![f] = [cards[f] EXCEPT ![i] = new]]
      /\ job' = Outdated(f, i) /\ inflight' = inflight \ Superseded(f, i)
  BY DEF LatePatch
<1>6. /\ overtaken \subseteq overtaken' /\ overtaken' \in SUBSET Fingerprints
      /\ f \in overtaken' \/ ~operational_alert_is_stale(r.alert, cards[f][i].shows)
  BY <1>1 DEF LatePatch, TypeOK
<1>7. faults' \in Nat /\ edits' \in Nat
  BY DEF TypeOK
<1> HIDE DEF f, i, new
<1>8. AlertInv'
  BY <1>1, <1>2, <1>4, <1>5, <1>6, <1>7, RewrittenKeeps
<1>9. new.text >= cards[f][i].text
  BY <1>4
<1>10. \A g \in Fingerprints : \A k \in DOMAIN cards[g] :
           cards'[g][k].text >= cards[g][k].text
  BY <1>1, <1>2, <1>4, <1>5, <1>9, RewrittenText
<1> QED  BY <1>8, <1>10

\* A late creation is the first, unless it is overtaken.
LEMMA LateCreateKeeps ==
    ASSUME AlertInv, NEW r \in inflight, LateCreate(r),
           UNCHANGED <<lock, audit, torn, faults, edits>>
    PROVE  AlertInv'
<1> USE DEF AlertInv, Disturbed
<1> DEFINE f == r.alert.fingerprint
           old == cards[f]
           new == NewCard(r.alert, Len(old) + 1)
<1>1. r.alert \in Alerts /\ f \in Fingerprints
  BY AlertFingerprint DEF TypeOK, Request
<1>2. /\ cards' = [cards EXCEPT ![f] = Append(old, new)]
      /\ inflight' = inflight \ {r} /\ job' = job
  BY DEF LateCreate
<1>3. /\ overtaken \subseteq overtaken' /\ overtaken' \in SUBSET Fingerprints
      /\ f \notin overtaken' =>
           /\ old = <<>>
           /\ \A c \in Calls : job[c].pc = "create" => fp(c) # f
  BY <1>1 DEF LateCreate, TypeOK
<1>4. old \in Seq(Card) /\ Len(old) \in Nat
  BY <1>1 DEF TypeOK
<1>5. new \in Card /\ new.id = Len(old) + 1
  BY <1>1, <1>4 DEF NewCard, Card
<1> HIDE DEF new
<1>6. /\ cards'[f] = Append(old, new)
      /\ \A g \in Fingerprints : g # f => cards'[g] = cards[g]
  BY <1>1, <1>2 DEF TypeOK
<1>7. /\ DOMAIN old = 1 .. Len(old) /\ DOMAIN cards'[f] = 1 .. Len(old) + 1
      /\ Len(cards'[f]) = Len(old) + 1 /\ cards'[f][Len(old) + 1] = new
      /\ \A i \in 1 .. Len(old) : cards'[f][i] = old[i]
  BY <1>4, <1>5, <1>6
<1> HIDE DEF f
<1>8. \A d \in Calls : alert(d)' = alert(d) /\ fp(d)' = fp(d) /\ fp(d) \in Fingerprints
  BY <1>2, AlertTyped DEF alert, fp
<1>9. TypeOK' /\ Indexed'
  <2>1. cards' \in [Fingerprints -> Seq(Card)]
    BY <1>2, <1>4, <1>5, <1>6 DEF TypeOK
  <2>2. TypeOK'
    BY <1>2, <1>3, <2>1 DEF TypeOK
  <2> QED  BY <1>2, <2>2 DEF Indexed
<1>10. LockHeld'
  BY <1>2, <1>8 DEF LockHeld
<1>11. ASSUME NEW g \in Fingerprints
       PROVE  /\ DOMAIN cards[g] \subseteq DOMAIN cards'[g]
              /\ \A k \in DOMAIN cards[g] : cards'[g][k] = cards[g][k]
  BY <1>4, <1>6, <1>7
<1>12. ReadsTrue'
  <2>1. \A i \in DOMAIN cards'[f] : cards'[f][i].id = i
    <3>1. \A i \in 1 .. Len(old) : old[i].id = i
      BY <1>1, <1>7 DEF ReadsTrue
    <3> QED  BY <1>4, <1>5, <1>7, <3>1
  <2>2. \A g \in Fingerprints : \A i \in DOMAIN cards'[g] : cards'[g][i].id = i
    BY <1>6, <2>1 DEF ReadsTrue
  <2>3. \A d \in Calls :
          /\ job[d].pc = "patch" => Found(job[d].seen)
          /\ Found(job[d].seen) => job[d].seen.id \in DOMAIN cards'[fp(d)]
          /\ Found(job[d].seen) /\ job[d].fresh =>
               job[d].seen = cards'[fp(d)][job[d].seen.id]
    BY <1>8, <1>11 DEF ReadsTrue
  <2> QED  BY <1>2, <1>8, <2>2, <2>3 DEF ReadsTrue
<1>13. InFlightTrue'
  <2>1. \A q \in inflight : q.alert.fingerprint \in Fingerprints
    BY AlertFingerprint DEF TypeOK, Request
  <2> QED  BY <1>2, <1>11, <2>1 DEF InFlightTrue
<1>14. CreatesFirst'
  <2> SUFFICES ASSUME NEW d \in Calls, job[d].pc = "create", fp(d) \notin Disturbed'
               PROVE  cards'[fp(d)] = <<>>
    BY <1>2, <1>8 DEF CreatesFirst
  <2>1. fp(d) # f
    BY <1>3
  <2> QED  BY <1>3, <1>6, <1>8, <2>1 DEF CreatesFirst
<1>15. OnePackage'
  <2> SUFFICES ASSUME NEW g \in Fingerprints, g \notin Disturbed'
               PROVE  Len(cards'[g]) <= 1
    BY DEF OnePackage
  <2>1. CASE g = f
    <3>1. Len(old) = 0
      BY <1>3, <2>1
    <3>2. Len(cards'[f]) = 1
      BY <1>7, <3>1
    <3> QED  BY <2>1, <3>2
  <2>2. CASE g # f
    BY <1>3, <1>6, <2>2 DEF OnePackage
  <2> QED  BY <2>1, <2>2
<1>16. LatestExists'
  BY DEF LatestExists, current
<1>17. ASSUME NEW g \in Fingerprints, NEW a \in Alerts, Shown(g, a)
       PROVE  cards'[g] # <<>> /\ ~operational_alert_is_stale(cards'[g][1].shows, a)
  <2>1. cards[g] \in Seq(Card) /\ cards[g] # <<>>
    BY <1>17 DEF TypeOK, Shown
  <2>2. 1 \in DOMAIN cards[g]
    BY <2>1
  <2>3. 1 \in DOMAIN cards'[g] /\ cards'[g][1] = cards[g][1]
    BY <1>11, <2>2
  <2> QED  BY <1>17, <2>3 DEF Shown
<1>18. RowsShown'
  <2> SUFFICES ASSUME NEW q \in audit, q.fingerprint \notin Disturbed'
               PROVE  /\ cards'[q.fingerprint] # <<>>
                      /\ ~operational_alert_is_stale(cards'[q.fingerprint][1].shows, q)
    BY DEF RowsShown, Shown
  <2>1. q \in Alerts /\ q.fingerprint \in Fingerprints
    BY AlertFingerprint DEF TypeOK
  <2>2. Shown(q.fingerprint, q)
    BY <1>3 DEF RowsShown
  <2> QED  BY <1>17, <2>1, <2>2
<1>19. WritesCurrent'
  <2> SUFFICES ASSUME NEW d \in Calls, job[d].pc \in Busy, fp(d) \notin Disturbed'
               PROVE  /\ \A q \in audit : q.fingerprint = fp(d) =>
                             ~operational_alert_is_stale(alert(d), q)
                      /\ job[d].pc = "commit" =>
                           /\ cards'[fp(d)] # <<>>
                           /\ ~operational_alert_is_stale(cards'[fp(d)][1].shows, alert(d))
    BY <1>2, <1>8 DEF WritesCurrent, Shown
  <2>1. alert(d) \in Alerts /\ fp(d) \in Fingerprints
    BY AlertTyped
  <2>2. /\ \A q \in audit : q.fingerprint = fp(d) => ~operational_alert_is_stale(alert(d), q)
        /\ job[d].pc = "commit" => Shown(fp(d), alert(d))
    BY <1>3 DEF WritesCurrent
  <2> QED  BY <1>17, <2>1, <2>2
<1>20. SettledCovered'
  BY <1>2 DEF SettledCovered, Covered
<1> QED  BY <1>9, <1>10, <1>12, <1>13, <1>14, <1>15, <1>16, <1>18, <1>19, <1>20

\* A request that commits late keeps the invariant.
LEMMA LateKeeps ==
    ASSUME AlertInv, NEW r \in inflight, LateCommit(r)
    PROVE  AlertInv'
BY LateCreateKeeps, LatePatchKeeps DEF LateCommit

-----------------------------------------------------------------------------
(* The theorems.                                                           *)

\* The invariant holds before the first call.
LEMMA AlertInitially == Init => AlertInv
<1> SUFFICES ASSUME Init PROVE AlertInv
  OBVIOUS
<1>1. /\ job = [c \in Calls |-> Waiting] /\ lock = [f \in Fingerprints |-> Nobody]
      /\ audit = {} /\ cards = [f \in Fingerprints |-> <<>>] /\ torn = {}
      /\ inflight = {} /\ overtaken = {} /\ faults = 0 /\ edits = 0
  BY DEF Init
<1>2. /\ Waiting \in Job /\ Waiting.index = 1 /\ Waiting.pc = "idle" /\ ~Waiting.held
      /\ Waiting.seen = NoCard
  BY DEF Waiting, Job
<1>3. TypeOK
  BY <1>1, <1>2 DEF TypeOK
<1>4. Indexed
  BY <1>1, <1>2, EnvelopeLength DEF Indexed
<1>5. LockHeld /\ CreatesFirst /\ WritesCurrent
  BY <1>1, <1>2 DEF LockHeld, CreatesFirst, WritesCurrent, Shown, Busy
<1>6. ReadsTrue /\ InFlightTrue
  BY <1>1, <1>2 DEF ReadsTrue, InFlightTrue, Found, NoCard
<1>7. OnePackage /\ LatestExists /\ RowsShown
  BY <1>1 DEF OnePackage, LatestExists, RowsShown
<1>8. SettledCovered
  BY <1>1, <1>2, EnvelopeLength DEF SettledCovered
<1> QED  BY <1>3, <1>4, <1>5, <1>6, <1>7, <1>8 DEF AlertInv

\* A step of the system keeps the invariant.
LEMMA AlertStep == AlertInv /\ [Next]_vars => AlertInv'
<1> SUFFICES ASSUME AlertInv, [Next]_vars PROVE AlertInv'
  OBVIOUS
<1>1. CASE UNCHANGED vars
  BY <1>1 DEF vars, AlertInv, TypeOK, Indexed, LockHeld, ReadsTrue, InFlightTrue, CreatesFirst,
       OnePackage, LatestExists, RowsShown, WritesCurrent, Shown, Disturbed, SettledCovered,
       Covered, current, alert, fp
<1>2. CASE \E c \in Calls : Deliver(c) \/ Step(c) \/ Lost(c) \/ Die(c) \/ LoseConnection(c)
  BY <1>2, DeliverKeeps, LockKeeps, FindKeeps, CreateKeeps, PatchKeeps, ConflictKeeps,
     RecoverKeeps, CommitKeeps, LostKeeps, DieKeeps, LoseConnectionKeeps DEF Step
<1>3. CASE \E f \in Fingerprints : \E i \in DOMAIN cards[f] : Edit(f, i)
  BY <1>3, EditKeeps
<1>4. CASE \E r \in inflight : LateCommit(r)
  BY <1>4, LateKeeps
<1> QED  BY <1>1, <1>2, <1>3, <1>4 DEF Next

\* The invariant holds at all times.
LEMMA AlertAlways == Spec => []AlertInv
BY AlertInitially, AlertStep, PTL DEF Spec

\* The flows, the locks, the audit and the packages keep their types.
THEOREM AlertTypeCorrect == Spec => []TypeOK
BY AlertAlways, PTL DEF AlertInv

\* One work package for a fingerprint, through lost answers, retries, removed fields and
\* creations that commit late, unless a call lost its lock or a creation committed behind
\* the search of another (ensure_operational_alert under the advisory lock).
THEOREM OnePackageAlways == Spec => []OnePackage
BY AlertAlways, PTL DEF AlertInv

\* A notification answered with success is shown by its package, or a later one is, unless
\* a call lost the lock or a late update took the package back
\* (operational_alert_is_stale under the advisory lock).
THEOREM AnsweredShownAlways == Spec => []AnsweredShown
<1>1. AlertInv => AnsweredShown
  <2> SUFFICES ASSUME AlertInv, NEW c \in Calls, job[c].pc = "done",
                      NEW i \in DOMAIN Envelope[c], Envelope[c][i].fingerprint \notin Disturbed
               PROVE  LET a == Envelope[c][i]
                      IN  /\ cards[a.fingerprint] # <<>>
                          /\ ~operational_alert_is_stale(cards[a.fingerprint][1].shows, a)
    BY DEF AnsweredShown
  <2> DEFINE a == Envelope[c][i]
             f == a.fingerprint
  <2>1. a \in Alerts /\ f \in Fingerprints
    BY EnvelopeAlerts
  <2>2. PICK r \in audit : r.fingerprint = f /\ ~operational_alert_is_stale(r, a)
    BY DEF AlertInv, SettledCovered, Covered
  <2>3. r \in Alerts
    BY DEF AlertInv, TypeOK
  <2>4. cards[f] # <<>> /\ ~operational_alert_is_stale(cards[f][1].shows, r)
    BY <2>2 DEF AlertInv, RowsShown, Shown
  <2>5. cards[f][1].shows \in Alerts
    <3>1. cards[f] \in Seq(Card)
      BY <2>1 DEF AlertInv, TypeOK
    <3>2. cards[f][1] \in Card
      BY <2>4, <3>1
    <3> QED  BY <3>2 DEF Card
  <2> QED  BY <2>1, <2>2, <2>3, <2>4, <2>5, StaleOrder
<1> QED  BY <1>1, AlertAlways, PTL

\* No write, late ones included, takes a person's text back to what it was when it was read
\* (the lock version of the update in ensure_operational_alert).
THEOREM TextKeptAlways == Spec => TextKept
<1> DEFINE Kept == \A f \in Fingerprints : \A i \in DOMAIN cards[f] :
                       cards'[f][i].text >= cards[f][i].text
<1>1. AlertInv /\ [Next]_vars => [Kept]_vars
  <2> SUFFICES ASSUME AlertInv, Next PROVE Kept
    OBVIOUS
  <2>1. ASSUME NEW f \in Fingerprints, NEW i \in DOMAIN cards[f]
        PROVE  cards[f][i].text \in Nat
    <3>1. cards[f][i] \in Card
      BY DEF AlertInv, TypeOK
    <3> QED  BY <3>1 DEF Card
  <2>2. CASE UNCHANGED cards
    BY <2>1, <2>2
  <2>3. ASSUME NEW a, NEW g, cards' = [cards EXCEPT ![g] = Append(@, NewCard(a, Len(@) + 1))]
        PROVE  Kept
    <3>1. ASSUME NEW f \in Fingerprints, NEW i \in DOMAIN cards[f]
          PROVE  cards'[f][i] = cards[f][i]
      <4>1. cards[f] \in Seq(Card) /\ cards \in [Fingerprints -> Seq(Card)]
        BY DEF AlertInv, TypeOK
      <4>2. PICK n : cards'[f] = Append(cards[f], n) \/ cards'[f] = cards[f]
        BY <2>3, <4>1
      <4> QED  BY <4>1, <4>2
    <3> QED  BY <2>1, <3>1
  <2>4. CASE \E c \in Calls : Patch(c)
    BY <2>4, PatchKeeps
  <2>5. CASE \E f \in Fingerprints : \E i \in DOMAIN cards[f] : Edit(f, i)
    BY <2>5, EditKeeps
  <2>6. CASE \E c \in Calls : Create(c)
    BY <2>3, <2>6 DEF Create
  <2>7. CASE \E r \in inflight : LateCommit(r)
    <3>1. PICK r \in inflight : LateCommit(r)
      BY <2>7
    <3>2. CASE LateCreate(r)
      BY <2>3, <3>2 DEF LateCreate
    <3>3. CASE LatePatch(r)
      BY <3>1, <3>3, LatePatchKeeps DEF LateCommit
    <3> QED  BY <3>1, <3>2, <3>3 DEF LateCommit
  <2>8. \/ UNCHANGED cards \/ \E c \in Calls : Create(c) \/ Patch(c)
        \/ \E r \in inflight : LateCommit(r)
        \/ \E f \in Fingerprints : \E i \in DOMAIN cards[f] : Edit(f, i)
    BY DEF Next, Step, Deliver, Lock, Find, Conflict, Recover, Commit, Lost, Die, LoseConnection
  <2> QED  BY <2>2, <2>4, <2>5, <2>6, <2>7, <2>8
<1> QED  BY <1>1, AlertAlways, PTL DEF Spec, TextKept
=============================================================================
