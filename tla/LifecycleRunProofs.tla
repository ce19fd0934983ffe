------------------------- MODULE LifecycleRunProofs --------------------------
(***************************************************************************)
(* Safety of LifecycleRun for any number of versions, interrupts, workers   *)
(* and events.                                                              *)
(*                                                                         *)
(* A worker acts on what it read some steps ago.  The argument: what it      *)
(* read can only grow (a completed claim, a review, a binding, a terminal    *)
(* version stay), and what does not stay is compared again by the store.     *)
(***************************************************************************)
EXTENDS LifecycleRun, TLAPS

-----------------------------------------------------------------------------
(* The invariant: rows, threads and workers.                               *)

\* The planner's answer names the interrupt it waits for.
Names(r) == r.status = "needs_input" => r.interrupt # 0

ThreadOK(t) ==
    /\ t.status = "absent" => t = NoThread
    /\ t.status = "needs_input" <=> t.interrupt # 0
    /\ t.status = "failed" => t.consumed = None \/ t.claim[t.consumed].state = "completed"
    /\ t.interrupt <= t.raised
    /\ t.consumed # None => t.claim[t.consumed].state # None /\ 1 <= t.raised
    /\ \A k \in Keys :
         /\ t.claim[k].state # "completed" => t.claim[k].response = NoResponse
         /\ t.claim[k].state = "completed" =>
              /\ t.claim[k].response.status # None
              /\ Names(t.claim[k].response)
              /\ t.claim[k].response.interrupt <= t.raised
    /\ \A c \in Comments :
         /\ t.claim[c].response.status = "failed" /\ t.consumed = c =>
              t.status = "failed" \/ t.interrupt # 0
    /\ t.claim[Start].state = None => t.status = "absent"
    /\ t.claim[Start].state # "abandoned"
    /\ t.claim[Start].state # "completed" =>
         /\ t.raised <= 1 /\ t.consumed = None
         /\ t.status = "planning" => t.raised = 0
         /\ \A c \in Comments : t.claim[c].state = None

\* What a row knows of the pull request, the review and OpenProject.
RowOK(v) ==
    /\ runs[v].state = None => runs[v] = NoRun
    /\ runs[v].state \notin {None, "planning"} => thread[v].status # "absent"
    /\ runs[v].approved => v \in reviewed /\ pull[v] = "merged"
    /\ runs[v].state = "published" =>
         runs[v].approved /\ runs[v].bound /\ applied[v] = "all"

Early == {"idle", "begin", "abandon", "restored", "convert", "corrected", "notify"}
Answering == {"respond", "settle", "pull", "bind_pull", "clear"}
Approving == {"approve", "bind", "publish", "publishing", "published", "block"}

\* What a worker at its place knows.
Knows(w) ==
    LET x == worker[w]
        v == x.v
        t == thread[v]
    IN  /\ x.pc \notin Early => x.state # None /\ runs[v].state # None
        /\ x.pc = "begin" => x.event \in Changes \union Replans
        /\ x.pc \in {"begin", "get", "start", "ask"} => x.marker = NoMarker
        /\ x.pc \in {"ask", "convert", "corrected"} => x.event \in Comments
        /\ x.pc \in {"ask", "record"} \union Answering \union Approving => t.status # "absent"
        /\ x.pc \in {"record", "resume", "abandon", "restored"} => x.marker # NoMarker
        /\ x.pc \in Answering /\ x.marker # NoMarker => t.claim[x.marker.comment].state = "completed"
        /\ x.pc = "respond" => Names(x.response)
        /\ x.pc = "settle" => x.response.status \in {"needs_input", "failed"}
        /\ x.pc = "restored" => t.claim[x.marker.comment].state = "abandoned"
        /\ x.pc \in {"corrected", "notify"} => x.response.interrupt # 0
        /\ x.pc \in Approving => x.event \in Approvals /\ v \in reviewed /\ pull[v] = "merged"
        /\ x.pc \in {"publish", "publishing", "published", "block"} =>
             runs[v].approved /\ runs[v].bound
        /\ x.pc = "published" => applied[v] = "all"

\* The queries of the store find what they look for.
Latest(P) == P = {} \/ \E v \in P : \A u \in P : u <= v
PublishedVersions == {v \in Versions : runs[v].state = "published"}

RunInv ==
    /\ TypeOK
    /\ \A v \in Versions : ThreadOK(thread[v]) /\ RowOK(v)
    /\ \A w \in Workers : Knows(w)
    /\ Latest(Begun) /\ Latest(PublishedVersions)

-----------------------------------------------------------------------------
(* Threads.                                                                *)

\* What a thread never loses.
ThreadGrows(t, n) ==
    /\ n.status # "absent"
    /\ t.raised <= n.raised
    /\ \A k \in Keys :
         /\ t.claim[k].state = "completed" => n.claim[k] = t.claim[k]
         /\ t.claim[k].state = "abandoned" => n.claim[k].state = "abandoned"

\* The fields of a thread.
LEMMA ThreadFields ==
    ASSUME NEW t \in Threads
    PROVE  /\ t.status \in {"absent", "planning", "needs_input", "artifacts_ready", "failed"}
           /\ t.interrupt \in 0 .. MaxInterrupt /\ t.raised \in 0 .. MaxInterrupt
           /\ t.consumed \in Comments \union {None} /\ t.claim \in [Keys -> Claims]
BY DEF Threads

\* The fields of a claim.
LEMMA ClaimFields ==
    ASSUME NEW c \in Claims
    PROVE  /\ c.state \in {None, "open", "completed", "abandoned"}
           /\ c.interrupt \in 0 .. MaxInterrupt /\ c.response \in Responses
BY DEF Claims

\* The constants that mean nothing yet.
LEMMA NothingTyped ==
    /\ NoResponse \in Responses /\ NoResponse.status = None /\ NoResponse.interrupt = 0
    /\ NoClaim \in Claims /\ NoClaim.state = None /\ NoClaim.response = NoResponse
    /\ NoThread \in Threads /\ NoThread.status = "absent" /\ NoThread.interrupt = 0
    /\ NoThread.raised = 0 /\ NoThread.consumed = None
    /\ \A k \in Keys : NoThread.claim[k] = NoClaim
    /\ NoRun \in Rows /\ NoRun.state = None /\ NoRun.marker = NoMarker /\ NoRun.request = None
    /\ ~NoRun.approved /\ ~NoRun.bound /\ ~NoRun.pull
<1>1. 0 \in 0 .. MaxInterrupt
  BY LifecycleAssumption
<1>2. NoResponse \in Responses /\ NoResponse.status = None /\ NoResponse.interrupt = 0
  BY <1>1 DEF NoResponse, Responses
<1>3. NoClaim \in Claims /\ NoClaim.state = None /\ NoClaim.response = NoResponse
  BY <1>1, <1>2 DEF NoClaim, Claims
<1>4. /\ NoThread \in Threads /\ NoThread.status = "absent" /\ NoThread.interrupt = 0
      /\ NoThread.raised = 0 /\ NoThread.consumed = None
      /\ \A k \in Keys : NoThread.claim[k] = NoClaim
  BY <1>1, <1>3 DEF NoThread, Threads
<1>5. /\ NoRun \in Rows /\ NoRun.state = None /\ NoRun.marker = NoMarker /\ NoRun.request = None
      /\ ~NoRun.approved /\ ~NoRun.bound /\ ~NoRun.pull
  BY DEF NoRun, Rows, States
<1> QED  BY <1>2, <1>3, <1>4, <1>5

\* A claim that is written leaves the rest of its thread alone.
LEMMA ClaimSet ==
    ASSUME NEW t \in Threads, NEW k \in Keys, NEW c \in Claims
    PROVE  LET n == [t EXCEPT !.claim[k] = c]
           IN  /\ n \in Threads /\ n.status = t.status /\ n.interrupt = t.interrupt
               /\ n.raised = t.raised /\ n.consumed = t.consumed
               /\ n.claim[k] = c /\ \A j \in Keys : j # k => n.claim[j] = t.claim[j]
<1> DEFINE f == [t.claim EXCEPT ![k] = c]
           n == [t EXCEPT !.claim = f]
<1>1. t.claim \in [Keys -> Claims]
  BY ThreadFields
<1>2. /\ f \in [Keys -> Claims] /\ f[k] = c
      /\ \A j \in Keys : j # k => f[j] = t.claim[j]
  BY <1>1
<1>3. [t EXCEPT !.claim[k] = c] = n
  BY <1>1 DEF Threads
<1> HIDE DEF f
<1>4. /\ n \in Threads /\ n.status = t.status /\ n.interrupt = t.interrupt
      /\ n.raised = t.raised /\ n.consumed = t.consumed /\ n.claim = f
  BY <1>2 DEF Threads
<1> HIDE DEF n
<1> QED  BY <1>2, <1>3, <1>4

\* The planner's answer about a thread that exists.
LEMMA ResponseTyped ==
    ASSUME NEW t \in Threads, t.status # "absent"
    PROVE  /\ Response(t) \in Responses
           /\ Response(t).status = t.status /\ Response(t).interrupt = t.interrupt
BY ThreadFields DEF Response, Responses

\* A claim with its response.
LEMMA CompletedThread ==
    ASSUME NEW t \in Threads, t.status # "absent", NEW k \in Keys, NEW i \in 0 .. MaxInterrupt
    PROVE  LET n == Completed(t, k, i)
           IN  /\ n \in Threads /\ n.status = t.status /\ n.interrupt = t.interrupt
               /\ n.raised = t.raised /\ n.consumed = t.consumed
               /\ n.claim[k].state = "completed" /\ n.claim[k].response = Response(t)
               /\ \A j \in Keys : j # k => n.claim[j] = t.claim[j]
<1> DEFINE c == [state |-> "completed", interrupt |-> i, response |-> Response(t)]
<1>1. c \in Claims /\ c.state = "completed" /\ c.response = Response(t)
  BY ResponseTyped DEF Claims
<1>2. Completed(t, k, i) = [t EXCEPT !.claim[k] = c]
  BY DEF Completed
<1> HIDE DEF c
<1> QED  BY <1>1, <1>2, ClaimSet

\* A claim that was left open.
LEMMA ClaimedThread ==
    ASSUME NEW t \in Threads, NEW k \in Keys, NEW i \in 0 .. MaxInterrupt
    PROVE  LET n == Claimed(t, k, i)
           IN  /\ n \in Threads /\ n.status = t.status /\ n.interrupt = t.interrupt
               /\ n.raised = t.raised /\ n.consumed = t.consumed
               /\ n.claim[k].state = "open" /\ n.claim[k].response = NoResponse
               /\ \A j \in Keys : j # k => n.claim[j] = t.claim[j]
<1> DEFINE c == [NoClaim EXCEPT !.state = "open", !.interrupt = i]
<1>1. c \in Claims /\ c.state = "open" /\ c.response = NoResponse
  BY NothingTyped DEF NoClaim, Claims
<1>2. Claimed(t, k, i) = [t EXCEPT !.claim[k] = c]
  BY DEF Claimed
<1> HIDE DEF c
<1> QED  BY <1>1, <1>2, ClaimSet

\* Where the graph can go.
LEMMA PlannedThread ==
    ASSUME NEW t \in Threads, NEW p \in Planned(t)
    PROVE  /\ p \in Threads /\ p.claim = t.claim /\ p.consumed = t.consumed
           /\ \/ p = t /\ t.status # "planning"
              \/ /\ t.status = "planning" /\ p.status = "artifacts_ready"
                 /\ p.interrupt = t.interrupt /\ p.raised = t.raised
              \/ /\ t.status = "planning" /\ p.status = "needs_input"
                 /\ p.interrupt = t.raised + 1 /\ p.raised = t.raised + 1
<1>1. CASE t.status # "planning"
  BY <1>1 DEF Planned
<1>2. CASE t.status = "planning" /\ p = [t EXCEPT !.status = "artifacts_ready"]
  BY <1>2 DEF Threads
<1>3. CASE /\ t.status = "planning" /\ t.raised # MaxInterrupt
           /\ p = [t EXCEPT !.status = "needs_input", !.interrupt = t.raised + 1,
                            !.raised = t.raised + 1]
  <2>1. t.raised + 1 \in 0 .. MaxInterrupt
    BY <1>3, ThreadFields, LifecycleAssumption
  <2> QED  BY <1>3, <2>1 DEF Threads
<1> QED  BY <1>1, <1>2, <1>3 DEF Planned

\* A start request moves a thread that no answer has reached.
LEMMA StartedThread ==
    ASSUME NEW t \in Threads, ThreadOK(t), t.claim[Start].state # "completed",
           NEW p \in {Started(t)} \union Planned(Started(t))
    PROVE  /\ p \in Threads /\ p.claim = t.claim /\ p.consumed = None
           /\ p.status # "absent" /\ (p.status = "needs_input" <=> p.interrupt # 0)
           /\ p.interrupt <= p.raised /\ p.raised <= 1 /\ t.raised <= p.raised
           /\ p.status = "planning" => p.raised = 0
           /\ t.interrupt # 0 => p.interrupt = t.interrupt
           /\ p.status = "failed" => t.status = "failed"
<1> DEFINE s == Started(t)
<1>1. /\ s \in Threads /\ s.claim = t.claim /\ s.consumed = t.consumed
      /\ s.interrupt = t.interrupt /\ s.raised = t.raised
      /\ s.status = IF t.status = "absent" THEN "planning" ELSE t.status
  BY DEF Started, Threads
<1> HIDE DEF s
<1>2. /\ t.raised \in 0 .. MaxInterrupt /\ t.interrupt \in 0 .. MaxInterrupt
      /\ t.consumed = None /\ t.raised <= 1
      /\ t.status \in {"absent", "planning"} => t.raised = 0 /\ t.interrupt = 0
      /\ t.status = "needs_input" <=> t.interrupt # 0
      /\ t.interrupt <= t.raised
  BY ThreadFields, NothingTyped DEF ThreadOK
<1>3. CASE p = s
  BY <1>1, <1>2, <1>3
<1>4. CASE p \in Planned(s)
  BY <1>1, <1>2, <1>4, PlannedThread
<1> QED  BY <1>3, <1>4 DEF s

\* The comments of a thread whose start request is not completed were not answered.
LEMMA StartCompletes ==
    ASSUME NEW t \in Threads, ThreadOK(t), t.claim[Start].state # "completed",
           NEW p \in {Started(t)} \union Planned(Started(t)),
           NEW n, n = Completed(p, Start, 0) \/ n = Claimed(p, Start, 0)
    PROVE  /\ n \in Threads /\ ThreadOK(n) /\ ThreadGrows(t, n)
           /\ n.consumed = t.consumed
           /\ \A c \in Comments : n.claim[c] = t.claim[c]
           /\ n.raised <= 1 /\ (t.interrupt # 0 => n.interrupt = t.interrupt)
<1>0. Start \in Keys /\ 0 \in 0 .. MaxInterrupt /\ \A c \in Comments : c # Start /\ c \in Keys
  BY LifecycleAssumption DEF Keys
<1>1. /\ p \in Threads /\ p.claim = t.claim /\ p.consumed = None
      /\ p.status # "absent" /\ (p.status = "needs_input" <=> p.interrupt # 0)
      /\ p.interrupt <= p.raised /\ p.raised <= 1 /\ t.raised <= p.raised
      /\ p.status = "planning" => p.raised = 0
      /\ t.interrupt # 0 => p.interrupt = t.interrupt
  BY StartedThread
<1>2. /\ t.consumed = None /\ \A c \in Comments : t.claim[c].state = None
      /\ \A c \in Keys : t.claim[c].state # "completed" => t.claim[c].response = NoResponse
      /\ t.claim[Start].state # "abandoned"
  BY DEF ThreadOK
<1>3. /\ n \in Threads /\ n.status = p.status /\ n.interrupt = p.interrupt
      /\ n.raised = p.raised /\ n.consumed = None
      /\ \A c \in Comments : n.claim[c] = t.claim[c]
      /\ \/ n.claim[Start].state = "completed" /\ n.claim[Start].response = Response(p)
         \/ n.claim[Start].state = "open" /\ n.claim[Start].response = NoResponse
  <2>1. CASE n = Completed(p, Start, 0)
    BY <1>0, <1>1, <2>1, CompletedThread
  <2>2. CASE n = Claimed(p, Start, 0)
    BY <1>0, <1>1, <2>2, ClaimedThread
  <2> QED  BY <2>1, <2>2
<1>4. \A k \in Keys : k = Start \/ k \in Comments
  BY DEF Keys
<1>5. /\ Response(p).status # None /\ Names(Response(p)) /\ Response(p).interrupt <= n.raised
      /\ Response(p).status = n.status /\ Response(p).interrupt = n.interrupt
  BY <1>1, <1>3, ResponseTyped, ThreadFields DEF Names, None
<1>6. /\ \A k \in Keys :
           /\ n.claim[k].state # "completed" => n.claim[k].response = NoResponse
           /\ n.claim[k].state = "completed" =>
                /\ n.claim[k].response.status # None
                /\ Names(n.claim[k].response)
                /\ n.claim[k].response.interrupt <= n.raised
  BY <1>0, <1>2, <1>3, <1>4, <1>5 DEF None
<1>7. ThreadOK(n)
  BY <1>0, <1>1, <1>2, <1>3, <1>6, LifecycleAssumption DEF ThreadOK, None, Events
<1>8. ThreadGrows(t, n)
  BY <1>0, <1>1, <1>2, <1>3, <1>4 DEF ThreadGrows, None
<1> QED  BY <1>1, <1>2, <1>3, <1>7, <1>8

\* The answer of a marker that a thread admits, and that has no response yet.
LEMMA ConsumedThread ==
    ASSUME NEW t \in Threads, ThreadOK(t), NEW m \in Markers, planner_resume_admits(t, m),
           t.claim[m.comment].state # "completed",
           NEW p \in {t, Consumed(t, m)} \union Planned(Consumed(t, m))
    PROVE  /\ p \in Threads /\ p.claim = t.claim
           /\ p.status \notin {"absent", "failed"}
           /\ (p.status = "needs_input" <=> p.interrupt # 0)
           /\ p.interrupt <= p.raised /\ t.raised <= p.raised
           /\ t.claim[Start].state = "completed"
           /\ \/ p = t
              \/ p.consumed = m.comment /\ p.interrupt \in {0, t.raised + 1}
           /\ p \in Planned(Consumed(t, m)) => p.consumed = m.comment
<1> DEFINE s == Consumed(t, m)
<1>1. /\ m.comment \in Comments /\ m.comment \in Keys /\ m.comment # None
      /\ m.interrupt \in 1 .. MaxInterrupt /\ m.interrupt # 0
      /\ Start \in Keys /\ m.comment # Start
  BY LifecycleAssumption DEF Markers, Keys, Events
<1>2. /\ t.raised \in 0 .. MaxInterrupt /\ t.interrupt \in 0 .. MaxInterrupt
      /\ t.claim \in [Keys -> Claims] /\ t.status # "absent"
      /\ t.status = "needs_input" <=> t.interrupt # 0
      /\ t.interrupt <= t.raised
  BY ThreadFields DEF ThreadOK, planner_resume_admits
<1>3. t.interrupt = m.interrupt \/ (t.consumed = m.comment /\ t.claim[m.comment].state = "open")
  BY DEF planner_resume_admits
<1>4. t.status # "failed"
  BY <1>1, <1>2, <1>3 DEF ThreadOK
<1>5. t.claim[Start].state = "completed"
  <2>1. t.claim[Start].state \in {"open", "completed"}
    BY <1>1, <1>2, ClaimFields DEF ThreadOK
  <2>2. CASE t.claim[m.comment].state = None
    BY <1>1, <2>1, <2>2 DEF planner_resume_admits, Open, None
  <2>3. CASE t.claim[m.comment].state # None
    BY <1>1, <2>3 DEF ThreadOK
  <2> QED  BY <2>2, <2>3
<1>6. /\ s \in Threads /\ s.claim = t.claim /\ s.raised = t.raised /\ s.consumed = m.comment
      /\ s.interrupt = IF t.interrupt = m.interrupt THEN 0 ELSE t.interrupt
      /\ s.status = IF t.interrupt = m.interrupt THEN "planning" ELSE t.status
      /\ t.interrupt # m.interrupt => s = t
  <2>1. CASE t.interrupt = m.interrupt
    <3>1. s = [t EXCEPT !.interrupt = 0, !.status = "planning", !.consumed = m.comment]
      BY <2>1 DEF Consumed
    <3>2. 0 \in 0 .. MaxInterrupt
      BY LifecycleAssumption
    <3> HIDE DEF s
    <3> QED  BY <1>1, <2>1, <3>1, <3>2 DEF Threads
  <2>2. CASE t.interrupt # m.interrupt
    BY <1>3, <2>2 DEF Consumed
  <2> QED  BY <2>1, <2>2
<1> HIDE DEF s
<1>7. CASE p = t
  <2>1. p \in Planned(s) => p.consumed = m.comment
    BY <1>6, PlannedThread
  <2> QED  BY <1>2, <1>4, <1>5, <1>7, <2>1 DEF s
<1>8. CASE p = s
  BY <1>2, <1>4, <1>5, <1>6, <1>8 DEF s
<1>9. CASE p \in Planned(s)
  <2>1. /\ p \in Threads /\ p.claim = s.claim /\ p.consumed = s.consumed
        /\ \/ p = s /\ s.status # "planning"
           \/ /\ s.status = "planning" /\ p.status = "artifacts_ready"
              /\ p.interrupt = s.interrupt /\ p.raised = s.raised
           \/ /\ s.status = "planning" /\ p.status = "needs_input"
              /\ p.interrupt = s.raised + 1 /\ p.raised = s.raised + 1
    BY <1>6, <1>9, PlannedThread
  <2> QED  BY <1>2, <1>4, <1>5, <1>6, <2>1
<1> QED  BY <1>7, <1>8, <1>9 DEF s

\* A resume request that is completed, or left open, keeps its thread in order.
LEMMA ResumeCompletes ==
    ASSUME NEW t \in Threads, ThreadOK(t), NEW m \in Markers, planner_resume_admits(t, m),
           t.claim[m.comment].state # "completed",
           NEW p \in {t, Consumed(t, m)} \union Planned(Consumed(t, m)), NEW n,
           \/ n = Completed(p, m.comment, m.interrupt) /\ p \in Planned(Consumed(t, m))
           \/ n = Claimed(p, m.comment, m.interrupt)
    PROVE  /\ n \in Threads /\ ThreadOK(n) /\ ThreadGrows(t, n)
           /\ n.status = p.status /\ n.interrupt = p.interrupt /\ n.consumed = p.consumed
           /\ n.raised = p.raised /\ t.claim[m.comment].state \in {None, "open"}
           /\ \A k \in Keys : k # m.comment => n.claim[k] = t.claim[k]
           /\ \/ n = Completed(p, m.comment, m.interrupt) /\ n.claim[m.comment].state = "completed"
                   /\ n.claim[m.comment].response = Response(p) /\ Response(p) = Response(n)
                   /\ n.consumed = m.comment
              \/ n.claim[m.comment].state = "open" /\ n.claim[m.comment].response = NoResponse
<1>1. /\ m.comment \in Comments /\ m.comment \in Keys /\ m.comment # None
      /\ m.interrupt \in 0 .. MaxInterrupt /\ 1 <= m.interrupt
      /\ Start \in Keys /\ m.comment # Start
  BY LifecycleAssumption DEF Markers, Keys, Events
<1>2. /\ p \in Threads /\ p.claim = t.claim
      /\ p.status \notin {"absent", "failed"}
      /\ (p.status = "needs_input" <=> p.interrupt # 0)
      /\ p.interrupt <= p.raised /\ t.raised <= p.raised
      /\ t.claim[Start].state = "completed"
      /\ \/ p = t
         \/ p.consumed = m.comment /\ p.interrupt \in {0, t.raised + 1}
      /\ p \in Planned(Consumed(t, m)) => p.consumed = m.comment
  BY ConsumedThread
<1>3. /\ n \in Threads /\ n.status = p.status /\ n.interrupt = p.interrupt
      /\ n.raised = p.raised /\ n.consumed = p.consumed
      /\ \A k \in Keys : k # m.comment => n.claim[k] = t.claim[k]
      /\ \/ /\ n = Completed(p, m.comment, m.interrupt) /\ p \in Planned(Consumed(t, m))
            /\ n.claim[m.comment].state = "completed"
            /\ n.claim[m.comment].response = Response(p)
         \/ n.claim[m.comment].state = "open" /\ n.claim[m.comment].response = NoResponse
  <2>1. CASE n = Completed(p, m.comment, m.interrupt) /\ p \in Planned(Consumed(t, m))
    BY <1>1, <1>2, <2>1, CompletedThread
  <2>2. CASE n = Claimed(p, m.comment, m.interrupt)
    BY <1>1, <1>2, <2>2, ClaimedThread
  <2> QED  BY <2>1, <2>2
<1>4. t.claim[m.comment].state \in {None, "open"}
  BY DEF planner_resume_admits
<1>5. /\ Response(p).status = p.status /\ Response(p).interrupt = p.interrupt
      /\ Response(p) = Response(n)
  BY <1>2, <1>3, ResponseTyped DEF Response
<1>6. /\ t.raised \in Nat /\ p.raised \in Nat
      /\ \A k \in Keys : t.claim[k].response.interrupt \in Nat
  BY <1>2, ThreadFields, ClaimFields, LifecycleAssumption DEF Responses
<1>7. \A k \in Keys :
         /\ n.claim[k].state # "completed" => n.claim[k].response = NoResponse
         /\ n.claim[k].state = "completed" =>
              /\ n.claim[k].response.status # None
              /\ Names(n.claim[k].response)
              /\ n.claim[k].response.interrupt <= n.raised
  <2> SUFFICES ASSUME NEW k \in Keys
               PROVE  /\ n.claim[k].state # "completed" => n.claim[k].response = NoResponse
                      /\ n.claim[k].state = "completed" =>
                           /\ n.claim[k].response.status # None
                           /\ Names(n.claim[k].response)
                           /\ n.claim[k].response.interrupt <= n.raised
    OBVIOUS
  <2>1. CASE k = m.comment
    BY <1>2, <1>3, <1>5, <2>1, ThreadFields DEF Names, None
  <2>2. CASE k # m.comment
    BY <1>2, <1>3, <1>6, <2>2 DEF ThreadOK
  <2> QED  BY <2>1, <2>2
<1>8. n.consumed # None => n.claim[n.consumed].state # None /\ 1 <= n.raised
  <2>1. CASE p = t
    <3>1. t.consumed # None => t.consumed \in Keys
      BY ThreadFields DEF Keys
    <3> QED  BY <1>2, <1>3, <1>6, <2>1, <3>1 DEF ThreadOK, None
  <2>2. CASE p.consumed = m.comment
    <3>1. 1 <= t.raised
      <4>1. t.interrupt = m.interrupt \/ t.consumed = m.comment
        BY <1>4 DEF planner_resume_admits
      <4>2. t.interrupt \in Nat /\ t.interrupt <= t.raised /\ m.interrupt \in Nat
        BY <1>1, ThreadFields, LifecycleAssumption DEF ThreadOK
      <4> QED  BY <1>1, <1>6, <4>1, <4>2 DEF ThreadOK
    <3> QED  BY <1>2, <1>3, <1>6, <2>2, <3>1 DEF None
  <2> QED  BY <1>2, <2>1, <2>2
<1>9. \A c \in Comments : n.claim[c].response.status = "failed" /\ n.consumed = c =>
                            n.status = "failed" \/ n.interrupt # 0
  <2> SUFFICES ASSUME NEW c \in Comments, n.claim[c].response.status = "failed", n.consumed = c
               PROVE  n.interrupt # 0
    OBVIOUS
  <2>1. c \in Keys
    BY DEF Keys
  <2>2. c # m.comment
    BY <1>2, <1>3, <1>5, NothingTyped DEF None
  <2>3. p = t /\ t.claim[c].response.status = "failed"
    BY <1>2, <1>3, <2>1, <2>2
  <2> QED  BY <1>2, <1>3, <2>3 DEF ThreadOK
<1>10. ThreadOK(n)
  BY <1>1, <1>2, <1>3, <1>7, <1>8, <1>9 DEF ThreadOK, None
<1>11. ThreadGrows(t, n)
  BY <1>2, <1>3, <1>4 DEF ThreadGrows, None
<1> QED  BY <1>2, <1>3, <1>4, <1>5, <1>10, <1>11

\* A tombstone, and the interrupt it gives back.
LEMMA AbandonedThread ==
    ASSUME NEW t \in Threads, ThreadOK(t), NEW m \in Markers, planner_abandon_admits(t, m)
    PROVE  LET n == Abandoned(t, m)
           IN  /\ n \in Threads /\ ThreadOK(n) /\ ThreadGrows(t, n)
               /\ n.claim[m.comment].state = "abandoned" /\ n.interrupt = m.interrupt
               /\ n.raised = t.raised
               /\ \A k \in Keys : /\ k # m.comment => n.claim[k] = t.claim[k]
                                  /\ n.claim[k].response = t.claim[k].response
               /\ n.consumed = IF t.interrupt = m.interrupt THEN t.consumed ELSE None
<1> DEFINE k == m.comment
           c == [t.claim[k] EXCEPT !.state = "abandoned"]
           s == [t EXCEPT !.claim[k] = c]
           n == Abandoned(t, m)
<1>1. /\ k \in Comments /\ k \in Keys /\ k # None
      /\ m.interrupt \in 0 .. MaxInterrupt /\ 1 <= m.interrupt
      /\ Start \in Keys /\ k # Start
  BY LifecycleAssumption DEF Markers, Keys, Events
<1>2. t.claim \in [Keys -> Claims] /\ t.claim[k] \in Claims
  BY <1>1, ThreadFields
<1>3. c \in Claims /\ c.state = "abandoned" /\ c.response = t.claim[k].response
  BY <1>2 DEF Claims
<1>4. /\ s \in Threads /\ s.status = t.status /\ s.interrupt = t.interrupt
      /\ s.raised = t.raised /\ s.consumed = t.consumed
      /\ s.claim[k] = c /\ \A j \in Keys : j # k => s.claim[j] = t.claim[j]
  <2> HIDE DEF c
  <2> QED  BY <1>1, <1>3, ClaimSet
<1>5. n = [s EXCEPT !.interrupt = m.interrupt, !.status = "needs_input",
                    !.consumed = IF t.interrupt = m.interrupt THEN t.consumed ELSE None]
  BY <1>1, <1>2 DEF Abandoned, Threads
<1> HIDE DEF n, s, c
<1>6. t.consumed \in Comments \union {None} /\ t.raised \in Nat /\ t.interrupt \in Nat
      /\ m.interrupt \in Nat
  BY <1>1, ThreadFields, LifecycleAssumption
<1>7. /\ n \in Threads /\ n.status = "needs_input" /\ n.interrupt = m.interrupt
      /\ n.raised = t.raised /\ n.claim = s.claim
      /\ n.consumed = IF t.interrupt = m.interrupt THEN t.consumed ELSE None
  BY <1>1, <1>4, <1>5, <1>6 DEF Threads
<1>8. /\ t.claim[k].state \in {"open", "abandoned"}
      /\ t.interrupt = m.interrupt \/ (t.consumed = k /\ m.interrupt = 1)
  BY DEF planner_abandon_admits
<1>9. m.interrupt <= t.raised
  BY <1>1, <1>6, <1>8 DEF ThreadOK
<1>10. t.claim[Start].state = "completed"
  BY <1>1, <1>8 DEF ThreadOK, None
<1>11. \A j \in Keys : n.claim[j].response = t.claim[j].response
                       /\ (n.claim[j].state = t.claim[j].state \/ (j = k /\ n.claim[j].state = "abandoned"))
  BY <1>3, <1>4, <1>7
<1>12. \A j \in Keys :
         /\ n.claim[j].state # "completed" => n.claim[j].response = NoResponse
         /\ n.claim[j].state = "completed" =>
              /\ n.claim[j].response.status # None
              /\ Names(n.claim[j].response)
              /\ n.claim[j].response.interrupt <= n.raised
  BY <1>7, <1>8, <1>11 DEF ThreadOK
<1>13. n.consumed # None => n.claim[n.consumed].state # None /\ 1 <= n.raised
  <2>1. n.consumed # None => n.consumed = t.consumed /\ n.consumed \in Keys
    BY <1>6, <1>7 DEF Keys
  <2> QED  BY <1>7, <1>11, <2>1 DEF ThreadOK, None
<1>14. ThreadOK(n)
  BY <1>1, <1>4, <1>6, <1>7, <1>9, <1>10, <1>12, <1>13 DEF ThreadOK, None
<1>15. ThreadGrows(t, n)
  BY <1>3, <1>4, <1>6, <1>7, <1>8 DEF ThreadGrows
<1> QED  BY <1>3, <1>4, <1>7, <1>11, <1>14, <1>15 DEF n

\* The failed critique of an earlier release, converted to an interrupt.
LEMMA ConvertedThread ==
    ASSUME NEW t \in Threads, ThreadOK(t), NEW c \in Comments, planner_convert_admits(t, c)
    PROVE  LET n == Converted(t)
           IN  /\ n \in Threads /\ ThreadOK(n) /\ ThreadGrows(t, n)
               /\ n.claim = t.claim /\ n.consumed = t.consumed /\ n.interrupt # 0
               /\ n = t \/ (t.status = "failed" /\ n.interrupt = t.raised + 1)
<1> DEFINE n == Converted(t)
<1>1. /\ c \in Keys /\ t.raised \in 0 .. MaxInterrupt /\ t.interrupt \in 0 .. MaxInterrupt
      /\ t.claim[c].state = "completed" /\ t.claim[c].response.status = "failed"
      /\ t.consumed = c /\ (t.raised < MaxInterrupt \/ t.interrupt # 0)
  BY ThreadFields DEF planner_convert_admits, Keys
<1>2. t.status # "absent"
  BY <1>1, NothingTyped DEF ThreadOK, None
<1>3. t.claim[Start].state = "completed" /\ \A k \in Keys : t.claim[k].response.interrupt \in Nat
  BY <1>1, ThreadFields, ClaimFields, LifecycleAssumption DEF ThreadOK, None, Responses, Keys
<1>4. CASE t.status # "failed"
  <2>1. n = t /\ t.interrupt # 0
    BY <1>1, <1>4 DEF Converted, ThreadOK
  <2> QED  BY <1>1, <1>2, <2>1 DEF ThreadGrows
<1>5. CASE t.status = "failed"
  <2>1. n = [t EXCEPT !.status = "needs_input", !.interrupt = t.raised + 1, !.raised = t.raised + 1]
    BY <1>5 DEF Converted
  <2>2. t.raised + 1 \in 0 .. MaxInterrupt
    BY <1>1, <1>5, LifecycleAssumption DEF ThreadOK
  <2> HIDE DEF n
  <2>3. /\ n \in Threads /\ n.status = "needs_input" /\ n.interrupt = t.raised + 1
        /\ n.raised = t.raised + 1 /\ n.claim = t.claim /\ n.consumed = t.consumed
    BY <2>1, <2>2 DEF Threads
  <2>4. n.interrupt # 0 /\ n.interrupt <= n.raised /\ t.raised <= n.raised
    BY <1>1, <2>3
  <2>5. \A k \in Keys : t.claim[k].response.interrupt <= t.raised =>
                          t.claim[k].response.interrupt <= n.raised
    BY <1>1, <1>3, <2>3
  <2>6. ThreadOK(n)
    BY <1>1, <1>3, <2>3, <2>4, <2>5 DEF ThreadOK
  <2>7. ThreadGrows(t, n)
    BY <2>3, <2>4 DEF ThreadGrows
  <2> QED  BY <1>5, <2>3, <2>4, <2>6, <2>7 DEF n
<1> QED  BY <1>4, <1>5

-----------------------------------------------------------------------------
(* The frame of a step.                                                    *)

Process == [pc : Places, event : Events \union {None}, v : Versions, state : States,
            marker : Markers \union {NoMarker}, response : Responses]
Deliveries == [Events -> {"new", "completed", "dead_letter"}]
Journals == [Approvals \X Versions -> {None, "in_progress", "completed"}]

\* What no step takes back.
Grows ==
    /\ \A v \in Versions :
         /\ runs[v].state # None => runs'[v].state # None
         /\ runs[v].approved => runs'[v].approved
         /\ runs[v].bound => runs'[v].bound
         /\ pull[v] = "merged" => pull'[v] = "merged"
         /\ applied[v] = "all" => applied'[v] = "all"
         /\ thread[v].status # "absent" => thread'[v].status # "absent"
         /\ \A k \in Keys :
              /\ thread[v].claim[k].state = "completed" => thread'[v].claim[k] = thread[v].claim[k]
              /\ thread[v].claim[k].state = "abandoned" =>
                   thread'[v].claim[k].state = "abandoned"
    /\ reviewed \subseteq reviewed'

\* The fields of a worker.
LEMMA WorkerFields ==
    ASSUME TypeOK, NEW w \in Workers
    PROVE  /\ worker[w] \in Process /\ worker[w].pc \in Places
           /\ worker[w].event \in Events \union {None} /\ worker[w].v \in Versions
           /\ worker[w].state \in States /\ worker[w].marker \in Markers \union {NoMarker}
           /\ worker[w].response \in Responses
           /\ worker[w].marker # NoMarker =>
                /\ worker[w].marker \in Markers /\ worker[w].marker.comment \in Comments
                /\ worker[w].marker.comment \in Keys
                /\ worker[w].marker.interrupt \in 1 .. MaxInterrupt
BY DEF TypeOK, Process, Markers, Keys

\* The fields of a row.
LEMMA RowFields ==
    ASSUME TypeOK, NEW v \in Versions
    PROVE  /\ runs[v] \in Rows /\ runs[v].state \in States
           /\ runs[v].marker \in Markers \union {NoMarker}
           /\ runs[v].request \in Changes \union Replans \union {None}
           /\ runs[v].pull \in BOOLEAN /\ runs[v].approved \in BOOLEAN /\ runs[v].bound \in BOOLEAN
           /\ thread[v] \in Threads
           /\ runs[v].marker # NoMarker =>
                runs[v].marker \in Markers /\ runs[v].marker.comment \in Comments
BY DEF TypeOK, Rows, Markers

\* What a worker knows outlives the steps of others.
LEMMA KnowsKept ==
    ASSUME TypeOK, NEW o \in Workers, Knows(o), Grows, worker'[o] = worker[o]
    PROVE  Knows(o)'
<1>1. worker[o].v \in Versions /\ (worker[o].marker # NoMarker => worker[o].marker.comment \in Keys)
  BY WorkerFields
<1> DEFINE v == worker[o].v
<1>2. /\ runs[v].state # None => runs'[v].state # None
      /\ runs[v].approved => runs'[v].approved
      /\ runs[v].bound => runs'[v].bound
      /\ pull[v] = "merged" => pull'[v] = "merged"
      /\ applied[v] = "all" => applied'[v] = "all"
      /\ thread[v].status # "absent" => thread'[v].status # "absent"
      /\ v \in reviewed => v \in reviewed'
  BY <1>1 DEF Grows
<1>3. \A k \in Keys :
        /\ thread[v].claim[k].state = "completed" => thread'[v].claim[k].state = "completed"
        /\ thread[v].claim[k].state = "abandoned" => thread'[v].claim[k].state = "abandoned"
  BY <1>1 DEF Grows
<1> HIDE DEF v
<1>4. v = worker[o].v /\ v = worker'[o].v
  BY DEF v
<1> QED  BY <1>1, <1>2, <1>3, <1>4 DEF Knows, Answering, Approving, Early

\* The invariant after a step, piece by piece.
LEMMA RunFrame ==
    ASSUME RunInv, Grows, TypeOK',
           \A v \in Versions : ThreadOK(thread'[v]) /\ RowOK(v)',
           Latest(Begun)', Latest(PublishedVersions)',
           \A o \in Workers : worker'[o] = worker[o] \/ Knows(o)'
    PROVE  RunInv'
<1>1. \A o \in Workers : Knows(o)'
  BY KnowsKept DEF RunInv
<1>2. \A v \in Versions : ThreadOK(thread[v])'
  <2> SUFFICES ASSUME NEW v \in Versions PROVE ThreadOK(thread[v])'
    OBVIOUS
  <2>1. ThreadOK(thread'[v])
    OBVIOUS
  <2> QED  BY <2>1 DEF ThreadOK
<1> QED  BY <1>1, <1>2 DEF RunInv

\* A version more in a set that has a latest one.
LEMMA LatestMore ==
    ASSUME NEW P, P \subseteq Versions, Latest(P), NEW v \in Versions
    PROVE  Latest(P \union {v})
<1>1. P = {} \/ \E u \in P : \A x \in P : x <= u
  BY DEF Latest
<1>2. \A x \in P \union {v} : x \in Nat
  BY DEF Versions
<1>3. CASE P = {}
  BY <1>2, <1>3 DEF Latest
<1>4. CASE \E u \in P : \A x \in P : x <= u
  <2>1. PICK u \in P : \A x \in P : x <= u
    BY <1>4
  <2>2. CASE v <= u
    BY <2>1, <2>2 DEF Latest
  <2>3. CASE ~(v <= u)
    <3>1. \A x \in P \union {v} : x <= v
      BY <1>2, <2>1, <2>3
    <3> QED  BY <3>1 DEF Latest
  <2> QED  BY <2>2, <2>3
<1> QED  BY <1>1, <1>3, <1>4

\* latest_for_idea and latest_published answer what they are asked.
LEMMA LatestFound ==
    ASSUME RunInv
    PROVE  /\ \/ Begun = {} /\ latest_for_idea = 0
              \/ latest_for_idea \in Begun /\ \A u \in Begun : u <= latest_for_idea
           /\ \/ PublishedVersions = {} /\ latest_published = 0
              \/ latest_published \in PublishedVersions
                   /\ \A u \in PublishedVersions : u <= latest_published
<1>1. Latest(Begun) /\ Latest(PublishedVersions)
  BY DEF RunInv
<1>2. \/ Begun = {} /\ latest_for_idea = 0
      \/ latest_for_idea \in Begun /\ \A u \in Begun : u <= latest_for_idea
  BY <1>1 DEF Latest, latest_for_idea
<1>3. \/ PublishedVersions = {} /\ latest_published = 0
      \/ latest_published \in PublishedVersions
           /\ \A u \in PublishedVersions : u <= latest_published
  BY <1>1 DEF Latest, latest_published, PublishedVersions
<1> QED  BY <1>2, <1>3

\* A step of one worker that leaves rows, threads and pull requests alone.
LEMMA WorkerKeeps ==
    ASSUME RunInv, NEW w \in Workers, UNCHANGED <<runs, thread, remote, applied>>,
           journal' \in Journals, fence' \in Workers \union {None},
           asked' \subseteq Versions \X (1 .. MaxInterrupt), delivery' \in Deliveries,
           abandoned' \subseteq Markers, worker' \in [Workers -> Process],
           \A o \in Workers : o # w => worker'[o] = worker[o], Knows(w)'
    PROVE  RunInv'
<1> USE DEF RunInv
<1>1. UNCHANGED <<runs, thread, pull, reviewed, applied>>
  BY DEF remote
<1>2. TypeOK'
  BY <1>1 DEF TypeOK, Journals, Deliveries, Process
<1>3. Grows
  BY <1>1 DEF Grows
<1>4. \A v \in Versions : ThreadOK(thread'[v]) /\ RowOK(v)'
  BY <1>1 DEF RowOK
<1>5. Latest(Begun)' /\ Latest(PublishedVersions)'
  BY <1>1 DEF Latest, Begun, PublishedVersions
<1> QED  BY <1>2, <1>3, <1>4, <1>5, RunFrame

\* A step of one worker that writes a row.
LEMMA RowKeeps ==
    ASSUME RunInv, NEW w \in Workers, NEW v \in Versions, NEW row \in Rows,
           runs' = [runs EXCEPT ![v] = row],
           UNCHANGED <<thread, remote, publication, asked>>,
           delivery' \in Deliveries, abandoned' \subseteq Markers,
           worker' \in [Workers -> Process],
           \A o \in Workers : o # w => worker'[o] = worker[o], Knows(w)',
           row.state # None,
           row.state # "planning" => thread[v].status # "absent",
           row.approved => v \in reviewed /\ pull[v] = "merged",
           row.state = "published" => row.approved /\ row.bound /\ applied[v] = "all",
           runs[v].approved => row.approved, runs[v].bound => row.bound,
           runs[v].state = "published" => row.state = "published"
    PROVE  RunInv'
<1> USE DEF RunInv
<1>1. UNCHANGED <<thread, pull, reviewed, journal, applied, fence, asked>>
  BY DEF remote, publication
<1>2. runs' \in [Versions -> Rows] /\ runs'[v] = row /\ \A u \in Versions : u # v => runs'[u] = runs[u]
  BY DEF TypeOK
<1>3. TypeOK'
  BY <1>1, <1>2 DEF TypeOK, Deliveries, Process
<1>4. Grows
  BY <1>1, <1>2 DEF Grows
<1>5. \A u \in Versions : ThreadOK(thread'[u]) /\ RowOK(u)'
  <2> SUFFICES ASSUME NEW u \in Versions PROVE ThreadOK(thread'[u]) /\ RowOK(u)'
    OBVIOUS
  <2>1. CASE u = v
    BY <1>1, <1>2, <2>1 DEF RowOK
  <2>2. CASE u # v
    BY <1>1, <1>2, <2>2 DEF RowOK
  <2> QED  BY <2>1, <2>2
<1>6. Latest(Begun)'
  <2>1. Begun' = Begun \union {v}
    BY <1>2 DEF Begun
  <2>2. Latest(Begun \union {v})
    BY LatestMore DEF Begun
  <2> QED  BY <2>1, <2>2 DEF Latest
<1>7. Latest(PublishedVersions)'
  <2>1. PublishedVersions' = IF row.state = "published" THEN PublishedVersions \union {v}
                             ELSE PublishedVersions
    BY <1>2 DEF PublishedVersions
  <2>2. Latest(PublishedVersions \union {v})
    BY LatestMore DEF PublishedVersions
  <2> QED  BY <2>1, <2>2 DEF Latest
<1> QED  BY <1>3, <1>4, <1>5, <1>6, <1>7, RunFrame

\* A step of one worker that moves a thread.
LEMMA ThreadKeeps ==
    ASSUME RunInv, NEW w \in Workers, NEW v \in Versions, NEW n \in Threads,
           thread' = [thread EXCEPT ![v] = n], ThreadOK(n), ThreadGrows(thread[v], n),
           UNCHANGED <<runs, remote, publication, asked, deliveries>>,
           worker' \in [Workers -> Process],
           \A o \in Workers : o # w => worker'[o] = worker[o], Knows(w)'
    PROVE  RunInv'
<1> USE DEF RunInv
<1>1. UNCHANGED <<runs, pull, reviewed, journal, applied, fence, asked, delivery, abandoned>>
  BY DEF remote, publication, deliveries
<1>2. /\ thread' \in [Versions -> Threads] /\ thread'[v] = n
      /\ \A u \in Versions : u # v => thread'[u] = thread[u]
  BY DEF TypeOK
<1>3. TypeOK'
  BY <1>1, <1>2 DEF TypeOK, Process
<1>4. Grows
  <2>1. \A u \in Versions :
          /\ thread[u].status # "absent" => thread'[u].status # "absent"
          /\ \A k \in Keys :
               /\ thread[u].claim[k].state = "completed" => thread'[u].claim[k] = thread[u].claim[k]
               /\ thread[u].claim[k].state = "abandoned" =>
                    thread'[u].claim[k].state = "abandoned"
    BY <1>2 DEF ThreadGrows
  <2> QED  BY <1>1, <2>1 DEF Grows
<1>5. \A u \in Versions : ThreadOK(thread'[u]) /\ RowOK(u)'
  <2> SUFFICES ASSUME NEW u \in Versions PROVE ThreadOK(thread'[u]) /\ RowOK(u)'
    OBVIOUS
  <2>1. CASE u = v
    BY <1>1, <1>2, <2>1 DEF RowOK, ThreadGrows
  <2>2. CASE u # v
    BY <1>1, <1>2, <2>2 DEF RowOK
  <2> QED  BY <2>1, <2>2
<1>6. Latest(Begun)' /\ Latest(PublishedVersions)'
  BY <1>1 DEF Latest, Begun, PublishedVersions
<1> QED  BY <1>3, <1>4, <1>5, <1>6, RunFrame

-----------------------------------------------------------------------------
(* Places.                                                                 *)

\* A worker that is done.
LEMMA IdleWorker ==
    ASSUME TypeOK, NEW w \in Workers, worker' = [worker EXCEPT ![w] = Idle]
    PROVE  /\ worker' \in [Workers -> Process] /\ worker'[w].pc = "idle"
           /\ \A o \in Workers : o # w => worker'[o] = worker[o]
           /\ Knows(w)'
<1>1. Idle \in Process /\ Idle.pc = "idle"
  BY NothingTyped, LifecycleAssumption DEF Idle, Process, Places, Versions, States
<1>2. /\ worker' \in [Workers -> Process] /\ worker'[w] = Idle
      /\ \A o \in Workers : o # w => worker'[o] = worker[o]
  BY <1>1 DEF TypeOK, Process
<1>3. worker'[w].pc = "idle"
  BY <1>1, <1>2
<1> QED  BY <1>2, <1>3 DEF Knows, Early, Answering, Approving

\* A worker that goes on to another place.
LEMMA GoneTo ==
    ASSUME TypeOK, NEW w \in Workers, NEW place \in Places, Goto(w, place)
    PROVE  /\ worker' \in [Workers -> Process] /\ worker'[w].pc = place
           /\ \A o \in Workers : o # w => worker'[o] = worker[o]
           /\ worker'[w].event = worker[w].event /\ worker'[w].v = worker[w].v
           /\ worker'[w].state = worker[w].state /\ worker'[w].marker = worker[w].marker
           /\ worker'[w].response = worker[w].response
BY DEF TypeOK, Process, Goto

\* A worker that has the planner's answer.
LEMMA RepliedTo ==
    ASSUME TypeOK, NEW w \in Workers, NEW place \in Places, NEW r \in Responses,
           Replied(w, place, r)
    PROVE  /\ worker' \in [Workers -> Process] /\ worker'[w].pc = place
           /\ \A o \in Workers : o # w => worker'[o] = worker[o]
           /\ worker'[w].event = worker[w].event /\ worker'[w].v = worker[w].v
           /\ worker'[w].state = worker[w].state /\ worker'[w].marker = worker[w].marker
           /\ worker'[w].response = r
<1> DEFINE x == [worker[w] EXCEPT !.pc = place, !.response = r]
<1>1. worker[w] \in Process
  BY WorkerFields
<1>2. /\ x \in Process /\ x.pc = place /\ x.event = worker[w].event /\ x.v = worker[w].v
      /\ x.state = worker[w].state /\ x.marker = worker[w].marker /\ x.response = r
  BY <1>1 DEF Process
<1>3. worker' = [worker EXCEPT ![w] = x]
  BY <1>1 DEF TypeOK, Replied, Process
<1> HIDE DEF x
<1> QED  BY <1>2, <1>3 DEF TypeOK, Process

\* A worker that begins.
LEMMA Entered ==
    ASSUME TypeOK, NEW w \in Workers, NEW place \in Places, NEW e \in Events,
           NEW v \in Versions, NEW m \in Markers \union {NoMarker}, Enter(w, place, e, v, m)
    PROVE  /\ worker' \in [Workers -> Process] /\ worker'[w].pc = place
           /\ \A o \in Workers : o # w => worker'[o] = worker[o]
           /\ worker'[w].event = e /\ worker'[w].v = v
           /\ worker'[w].state = runs[v].state /\ worker'[w].marker = m
           /\ worker'[w].response = NoResponse
<1> DEFINE x == [Idle EXCEPT !.pc = place, !.event = e, !.v = v, !.state = runs[v].state,
                             !.marker = m]
<1>1. runs[v].state \in States /\ NoResponse \in Responses
  BY RowFields, NothingTyped
<1>2. /\ x \in Process /\ x.pc = place /\ x.event = e /\ x.v = v
      /\ x.state = runs[v].state /\ x.marker = m /\ x.response = NoResponse
  BY <1>1 DEF Process, Idle
<1>3. worker' = [worker EXCEPT ![w] = x]
  BY DEF Enter
<1> HIDE DEF x
<1> QED  BY <1>2, <1>3 DEF TypeOK, Process

\* The record of deliveries keeps its type.
LEMMA HandledTyped ==
    ASSUME TypeOK, NEW e, Handled(e)
    PROVE  delivery' \in Deliveries
BY DEF TypeOK, Handled, Deliveries

\* A handler that returns without an effect.
LEMMA ReturnKeeps ==
    ASSUME RunInv, NEW w \in Workers, Return(w),
           UNCHANGED <<runs, thread, remote, publication, asked>>
    PROVE  RunInv'
<1>1. TypeOK /\ worker' = [worker EXCEPT ![w] = Idle] /\ Handled(worker[w].event)
      /\ UNCHANGED <<abandoned, journal, applied, fence>>
  BY DEF RunInv, Return, publication
<1>2. delivery' \in Deliveries
  BY <1>1, HandledTyped
<1>3. /\ worker' \in [Workers -> Process] /\ Knows(w)'
      /\ \A o \in Workers : o # w => worker'[o] = worker[o]
  BY <1>1, IdleWorker
<1>4. /\ journal' \in Journals /\ fence' \in Workers \union {None}
      /\ asked' \subseteq Versions \X (1 .. MaxInterrupt) /\ abandoned' \subseteq Markers
  BY <1>1 DEF TypeOK, Journals
<1> QED  BY <1>1, <1>2, <1>3, <1>4, WorkerKeeps

\* A worker that moves, and nothing else does.
LEMMA MoveKeeps ==
    ASSUME RunInv, NEW w \in Workers,
           UNCHANGED <<runs, thread, remote, publication, asked, abandoned>>,
           delivery' \in Deliveries, worker' \in [Workers -> Process],
           \A o \in Workers : o # w => worker'[o] = worker[o], Knows(w)'
    PROVE  RunInv'
<1>1. TypeOK /\ UNCHANGED <<journal, applied, fence>>
  BY DEF RunInv, publication
<1>2. /\ journal' \in Journals /\ fence' \in Workers \union {None}
      /\ asked' \subseteq Versions \X (1 .. MaxInterrupt) /\ abandoned' \subseteq Markers
  BY <1>1 DEF TypeOK, Journals
<1> QED  BY <1>1, <1>2, WorkerKeeps

\* An event that is handled at once.
LEMMA HandledKeeps ==
    ASSUME RunInv, NEW w \in Workers, NEW e, Handled(e), UNCHANGED worker,
           UNCHANGED <<runs, thread, remote, publication, asked, abandoned>>
    PROVE  RunInv'
<1>1. TypeOK /\ Knows(w)
  BY DEF RunInv
<1>2. delivery' \in Deliveries /\ worker' \in [Workers -> Process]
  BY <1>1, HandledTyped DEF TypeOK, Process
<1>3. Knows(w)'
  BY <1>1 DEF Knows, remote, publication
<1> QED  BY <1>2, <1>3, MoveKeeps

-----------------------------------------------------------------------------
(* The steps of the invariant: handlers.                                   *)

\* A worker that begins, when its first place knows what it has to.
LEMMA EnterKeeps ==
    ASSUME RunInv, NEW w \in Workers, NEW place \in Places, NEW e \in Events,
           NEW v \in Versions, NEW m \in Markers \union {NoMarker}, Enter(w, place, e, v, m),
           UNCHANGED <<runs, thread, remote, publication, asked, deliveries>>,
           place \in {"begin", "get", "ask", "resume", "approve", "bind", "abandon", "convert"},
           place = "begin" => e \in Changes \union Replans,
           place \in {"get", "ask", "resume", "approve", "bind"} => runs[v].state # None,
           place \in {"begin", "get", "ask"} => m = NoMarker,
           place \in {"resume", "abandon"} => m # NoMarker,
           place \in {"ask", "convert"} => e \in Comments,
           place = "ask" => runs[v].state = "needs_input",
           place \in {"approve", "bind"} => /\ e \in Approvals /\ v \in reviewed
                                           /\ pull[v] = "merged" /\ thread[v].status # "absent"
    PROVE  RunInv'
<1>1. TypeOK /\ RowOK(v)
  BY DEF RunInv
<1>2. /\ worker' \in [Workers -> Process] /\ worker'[w].pc = place
      /\ \A o \in Workers : o # w => worker'[o] = worker[o]
      /\ worker'[w].event = e /\ worker'[w].v = v
      /\ worker'[w].state = runs[v].state /\ worker'[w].marker = m
      /\ worker'[w].response = NoResponse
  BY <1>1, Entered
<1>3. UNCHANGED <<runs, thread, pull, reviewed, applied, delivery, abandoned>>
  BY DEF remote, publication, deliveries
<1>4. place = "ask" => thread[v].status # "absent"
  BY <1>1 DEF RowOK, None
<1>5. Knows(w)'
  BY <1>2, <1>3, <1>4 DEF Knows, Early, Answering, Approving
<1>6. delivery' \in Deliveries
  BY <1>1, <1>3 DEF TypeOK, Deliveries
<1> QED  BY <1>2, <1>3, <1>5, <1>6, MoveKeeps

\* The latest version of the Idea.
LEMMA LatestVersion ==
    ASSUME RunInv
    PROVE  /\ latest_for_idea \in Nat /\ latest_for_idea <= MaxVersion
           /\ latest_for_idea # 0 => /\ latest_for_idea \in Versions
                                     /\ runs[latest_for_idea].state # None
           /\ \A u \in Versions : u > latest_for_idea => runs[u].state = None
           /\ latest_for_idea < MaxVersion => latest_for_idea + 1 \in Versions
<1>1. \/ Begun = {} /\ latest_for_idea = 0
      \/ latest_for_idea \in Begun /\ \A u \in Begun : u <= latest_for_idea
  BY LatestFound
<1>2. MaxVersion \in Nat \ {0}
  BY LifecycleAssumption
<1> QED  BY <1>1, <1>2 DEF Begun, Versions

\* A work-package event.
LEMMA WorkPackageKeeps ==
    ASSUME RunInv, NEW w \in Workers, NEW e \in Changes, _work_package_changed(w, e)
    PROVE  RunInv'
<1> DEFINE v == latest_for_idea
<1>1. UNCHANGED <<runs, thread, remote, publication, asked, abandoned>> /\ e \in Events
  BY DEF _work_package_changed, Events
<1>2. CASE Handled(e) /\ UNCHANGED worker
  BY <1>1, <1>2, HandledKeeps
<1>3. CASE Active(v) /\ Enter(w, "get", e, v, NoMarker) /\ UNCHANGED delivery
  <2>1. v \in Versions /\ runs[v].state # None /\ "get" \in Places
    BY <1>3, LatestVersion DEF Active, Places
  <2> QED  BY <1>1, <1>3, <2>1, EnterKeeps DEF deliveries
<1>4. CASE v < MaxVersion /\ Enter(w, "begin", e, v + 1, NoMarker) /\ UNCHANGED delivery
  <2>1. v + 1 \in Versions /\ "begin" \in Places
    BY <1>4, LatestVersion DEF Places
  <2> QED  BY <1>1, <1>4, <2>1, EnterKeeps DEF deliveries
<1> QED  BY <1>2, <1>3, <1>4 DEF _work_package_changed

\* An operator's replan.
LEMMA ReplanKeeps ==
    ASSUME RunInv, NEW w \in Workers, NEW e \in Replans, _replan_affected_subgraph(w, e)
    PROVE  RunInv'
<1> DEFINE v == latest_for_idea
           b == Base[e]
<1>1. UNCHANGED <<runs, thread, remote, publication, asked, abandoned>> /\ e \in Events
  BY DEF _replan_affected_subgraph, Events
<1>2. CASE Handled(e) /\ UNCHANGED worker
  BY <1>1, <1>2, HandledKeeps
<1>3. CASE /\ latest_published = b /\ v # b
           /\ runs[v].state \in {"planning", "needs_input", "pr_open"}
           /\ Enter(w, "get", e, v, NoMarker) /\ UNCHANGED delivery
  <2>1. v # 0
    <3>1. b # 0
      BY LifecycleAssumption DEF Versions
    <3>2. b \in Begun
      BY <1>3, <3>1, LatestFound DEF PublishedVersions, Begun, None
    <3> QED  BY <3>2, LatestFound DEF Begun, Versions
  <2>2. v \in Versions /\ runs[v].state # None /\ "get" \in Places
    BY <1>3, <2>1, LatestVersion DEF Places, None
  <2> QED  BY <1>1, <1>3, <2>2, EnterKeeps DEF deliveries
<1>4. CASE v < MaxVersion /\ Enter(w, "begin", e, v + 1, NoMarker) /\ UNCHANGED delivery
  <2>1. v + 1 \in Versions /\ "begin" \in Places
    BY <1>4, LatestVersion DEF Places
  <2> QED  BY <1>1, <1>4, <2>1, EnterKeeps DEF deliveries
<1> QED  BY <1>2, <1>3, <1>4 DEF _replan_affected_subgraph

\* A comment.
LEMMA PlanningInputKeeps ==
    ASSUME RunInv, NEW w \in Workers, NEW c \in Comments, _planning_input(w, c)
    PROVE  RunInv'
<1> DEFINE v == latest_for_idea
<1>1. UNCHANGED <<runs, thread, remote, publication, asked, abandoned>> /\ c \in Events
  BY DEF _planning_input, Events
<1>2. CASE v = 0 \/ runs[v].state # "needs_input"
  BY <1>1, <1>2, HandledKeeps DEF _planning_input
<1>3. CASE ~(v = 0 \/ runs[v].state # "needs_input")
  <2> DEFINE place == IF runs[v].marker = NoMarker THEN "ask" ELSE "resume"
  <2>1. Enter(w, place, c, v, runs[v].marker) /\ UNCHANGED delivery
    BY <1>3 DEF _planning_input
  <2>2. v \in Versions /\ runs[v].state = "needs_input" /\ place \in Places
    BY <1>3, LatestVersion DEF Places
  <2>3. runs[v].marker \in Markers \union {NoMarker}
    BY <2>2, RowFields DEF RunInv
  <2>4. runs[v].state # None
    BY <2>2 DEF None
  <2>5. /\ place \in {"ask", "resume"} /\ (place = "ask" => runs[v].marker = NoMarker)
        /\ (place = "resume" => runs[v].marker # NoMarker)
    OBVIOUS
  <2> HIDE DEF place, v
  <2> QED  BY <1>1, <2>1, <2>2, <2>3, <2>4, <2>5, EnterKeeps DEF deliveries
<1> QED  BY <1>2, <1>3

\* A merge that a webhook or the night found.
LEMMA MergedKeeps ==
    ASSUME RunInv, NEW w \in Workers, NEW e \in Approvals, NEW v \in Versions,
           pull[v] = "merged", Merged(w, e, v),
           UNCHANGED <<runs, thread, remote, publication, asked, abandoned>>
    PROVE  RunInv'
<1>1. e \in Events /\ "approve" \in Places /\ "bind" \in Places /\ UNCHANGED deliveries
  BY DEF Events, Places, Merged, deliveries
<1>0. runs[v].state \in {"pr_open", "publishing"} => thread[v].status # "absent"
  BY DEF RunInv, RowOK, None
<1>2. CASE /\ runs[v].state \in {"pr_open", "publishing"} /\ v \in reviewed
           /\ Enter(w, "approve", e, v, NoMarker)
  BY <1>0, <1>1, <1>2, EnterKeeps DEF None
<1>3. CASE runs[v].state = "publishing" /\ runs[v].approved /\ Enter(w, "bind", e, v, NoMarker)
  <2>1. v \in reviewed
    BY <1>3 DEF RunInv, RowOK
  <2> QED  BY <1>0, <1>1, <1>3, <2>1, EnterKeeps DEF None
<1> QED  BY <1>2, <1>3 DEF Merged

\* The webhook of a merged pull request.
LEMMA PullRequestKeeps ==
    ASSUME RunInv, NEW w \in Workers, NEW e \in Merges, _pull_request(w, e)
    PROVE  RunInv'
<1> DEFINE v == Pull[e]
<1>1. /\ UNCHANGED <<runs, thread, remote, publication, asked, abandoned>>
      /\ pull[v] = "merged" /\ e \in Approvals /\ v \in Versions
  BY LifecycleAssumption DEF _pull_request, Approvals
<1>2. CASE Handled(e) /\ UNCHANGED worker
  BY <1>1, <1>2, HandledKeeps
<1>3. CASE Merged(w, e, v)
  <2> HIDE DEF v
  <2> QED  BY <1>1, <1>3, MergedKeeps
<1> QED  BY <1>2, <1>3 DEF _pull_request

\* The night.
LEMMA ReconcileKeeps ==
    ASSUME RunInv, NEW w \in Workers, NEW e \in Nights, _reconcile(w, e)
    PROVE  RunInv'
<1> DEFINE v == latest_for_idea
<1>1. UNCHANGED <<runs, thread, remote, publication, asked, abandoned>> /\ e \in Approvals
  BY DEF _reconcile, Approvals
<1>2. CASE Handled(e) /\ UNCHANGED worker
  BY <1>1, <1>2, HandledKeeps
<1>3. CASE v # 0 /\ pull[v] = "merged" /\ Merged(w, e, v)
  <2>1. v \in Versions
    BY <1>3, LatestVersion
  <2> HIDE DEF v
  <2> QED  BY <1>1, <1>3, <2>1, MergedKeeps
<1> QED  BY <1>2, <1>3 DEF _reconcile

-----------------------------------------------------------------------------
(* The steps of the invariant: planning.                                   *)

\* The transitions of a row.
LEMMA TransitionsKnown ==
    ASSUME NEW old \in States \ {None}, NEW new \in _TRANSITIONS[old]
    PROVE  /\ new \in States \ {None}
           /\ old \in Terminal => new = old
           /\ new = "published" => old \in {"publishing", "published"}
           /\ new = "needs_input" => old \in {"planning", "needs_input"}
           /\ new = "planning" => old \in {"planning", "needs_input", "blocked"}
BY DEF States, Terminal, _TRANSITIONS, None

\* The state of a row is written.
LEMMA StateSet ==
    ASSUME TypeOK, NEW v \in Versions, NEW new \in States, runs' = [runs EXCEPT ![v].state = new]
    PROVE  LET row == [runs[v] EXCEPT !.state = new]
           IN  /\ runs' = [runs EXCEPT ![v] = row] /\ row \in Rows
               /\ row.state = new /\ row.request = runs[v].request /\ row.marker = runs[v].marker
               /\ row.pull = runs[v].pull /\ row.approved = runs[v].approved
               /\ row.bound = runs[v].bound
               /\ runs'[v] = row /\ \A u \in Versions : u # v => runs'[u] = runs[u]
<1> DEFINE row == [runs[v] EXCEPT !.state = new]
<1>3. runs[v] \in Rows
  BY RowFields
<1>4. /\ row \in Rows /\ row.state = new /\ row.request = runs[v].request
      /\ row.marker = runs[v].marker /\ row.pull = runs[v].pull
      /\ row.approved = runs[v].approved /\ row.bound = runs[v].bound
  BY <1>3 DEF Rows
<1>5. runs' = [runs EXCEPT ![v] = row]
  BY <1>3 DEF TypeOK, Rows
<1> HIDE DEF row
<1>6. runs'[v] = row /\ \A u \in Versions : u # v => runs'[u] = runs[u]
  BY <1>5 DEF TypeOK
<1> QED  BY <1>4, <1>5, <1>6 DEF row

\* begin() inserts a row.
LEMMA BeginKeeps ==
    ASSUME RunInv, NEW w \in Workers, Begin(w)
    PROVE  RunInv'
<1> DEFINE v == worker[w].v
           row == [NoRun EXCEPT !.state = "planning", !.request = worker[w].event]
<1>1. /\ TypeOK /\ Knows(w) /\ worker[w].pc = "begin" /\ begin(v, worker[w].event)
      /\ worker' = [worker EXCEPT ![w].pc = "start", ![w].state = "planning"]
      /\ UNCHANGED <<thread, remote, publication, asked, deliveries>>
  BY DEF RunInv, Begin, At
<1>2. v \in Versions /\ worker[w].event \in Changes \union Replans /\ worker[w].marker = NoMarker
  BY <1>1, WorkerFields DEF Knows
<1>3. runs[v] = NoRun
  BY <1>1, <1>2 DEF RunInv, RowOK, begin
<1>4. runs' = [runs EXCEPT ![v] = row]
  BY <1>1 DEF begin
<1>5. /\ row \in Rows /\ row.state = "planning" /\ ~row.approved /\ ~row.bound
  BY <1>2, NothingTyped DEF NoRun, Rows, States
<1> HIDE DEF row
<1>6. /\ worker' \in [Workers -> Process] /\ worker'[w].pc = "start"
      /\ \A o \in Workers : o # w => worker'[o] = worker[o]
      /\ worker'[w].v = v /\ worker'[w].state = "planning" /\ worker'[w].marker = NoMarker
  <2> DEFINE x == [worker[w] EXCEPT !.pc = "start", !.state = "planning"]
  <2>1. worker[w] \in Process
    BY <1>1, WorkerFields
  <2>2. /\ x \in Process /\ x.pc = "start" /\ x.v = v /\ x.state = "planning"
        /\ x.marker = NoMarker
    BY <1>2, <2>1 DEF Process, Places, States
  <2>3. worker' = [worker EXCEPT ![w] = x]
    BY <1>1, <2>1 DEF TypeOK, Process
  <2>4. worker \in [Workers -> Process]
    BY <1>1 DEF TypeOK, Process
  <2> HIDE DEF x
  <2> QED  BY <2>2, <2>3, <2>4
<1>7. runs'[v].state = "planning"
  BY <1>1, <1>2, <1>4, <1>5 DEF TypeOK
<1>8. Knows(w)'
  BY <1>6, <1>7 DEF Knows, Early, Answering, Approving, None
<1>9. delivery' \in Deliveries /\ abandoned' \subseteq Markers
  BY <1>1 DEF TypeOK, deliveries, Deliveries
<1> QED  BY <1>1, <1>2, <1>3, <1>4, <1>5, <1>6, <1>8, <1>9, NothingTyped, RowKeeps DEF None

\* The Idea names no repository.
LEMMA NeedsRepositoryKeeps ==
    ASSUME RunInv, NEW w \in Workers, NeedsRepository(w)
    PROVE  RunInv'
BY ReturnKeeps DEF NeedsRepository

\* planner.start().
LEMMA PlannerStartKeeps ==
    ASSUME RunInv, NEW w \in Workers, PlannerStart(w)
    PROVE  RunInv'
<1> DEFINE v == worker[w].v
           t == thread[v]
<1>1. /\ TypeOK /\ Knows(w) /\ worker[w].pc = "start"
      /\ UNCHANGED <<runs, remote, publication, asked, deliveries>>
  BY DEF RunInv, PlannerStart, At
<1>2. /\ v \in Versions /\ worker[w].state # None /\ runs[v].state # None
      /\ worker[w].marker = NoMarker /\ t \in Threads /\ ThreadOK(t)
      /\ "respond" \in Places /\ Start \in Keys
  BY <1>1, WorkerFields, RowFields DEF Knows, RunInv, Early, Places, Keys
<1>3. CASE /\ t.claim[Start].state = "completed" /\ UNCHANGED thread
           /\ Replied(w, "respond", t.claim[Start].response)
  <2> DEFINE r == t.claim[Start].response
  <2>1. r \in Responses /\ Names(r) /\ t.status # "absent"
    BY <1>2, <1>3, ThreadFields, ClaimFields, NothingTyped DEF ThreadOK, None
  <2>2. /\ worker' \in [Workers -> Process] /\ worker'[w].pc = "respond"
        /\ \A o \in Workers : o # w => worker'[o] = worker[o]
        /\ worker'[w].v = v /\ worker'[w].state = worker[w].state
        /\ worker'[w].marker = worker[w].marker /\ worker'[w].response = r
    <3> HIDE DEF r
    <3> QED  BY <1>1, <1>2, <1>3, <2>1, RepliedTo DEF r
  <2>3. Knows(w)'
    BY <1>1, <1>2, <1>3, <2>1, <2>2 DEF Knows, Early, Answering, Approving
  <2>4. delivery' \in Deliveries /\ UNCHANGED abandoned
    BY <1>1 DEF TypeOK, deliveries, Deliveries
  <2> QED  BY <1>1, <1>3, <2>2, <2>3, <2>4, MoveKeeps
<1>4. ASSUME t.claim[Start].state # "completed", NEW p \in Planned(Started(t)),
             thread' = [thread EXCEPT ![v] = Completed(p, Start, 0)],
             Replied(w, "respond", Response(p))
      PROVE  RunInv'
  <2> DEFINE n == Completed(p, Start, 0)
  <2>1. p \in {Started(t)} \union Planned(Started(t))
    BY <1>4
  <2>2. n \in Threads /\ ThreadOK(n) /\ ThreadGrows(t, n)
    <3> HIDE DEF t
    <3> QED  BY <1>2, <1>4, <2>1, StartCompletes
  <2>3. /\ p \in Threads /\ p.status # "absent" /\ (p.status = "needs_input" <=> p.interrupt # 0)
    <3> HIDE DEF t
    <3> QED  BY <1>2, <1>4, <2>1, StartedThread
  <2>4. Response(p) \in Responses /\ Names(Response(p))
    BY <2>3, ResponseTyped DEF Names
  <2> HIDE DEF n
  <2>5. /\ worker' \in [Workers -> Process] /\ worker'[w].pc = "respond"
        /\ \A o \in Workers : o # w => worker'[o] = worker[o]
        /\ worker'[w].v = v /\ worker'[w].state = worker[w].state
        /\ worker'[w].marker = worker[w].marker /\ worker'[w].response = Response(p)
    BY <1>1, <1>2, <1>4, <2>4, RepliedTo
  <2>6. thread'[v] = n
    BY <1>1, <1>2, <1>4 DEF TypeOK, n
  <2>7. Knows(w)'
    BY <1>1, <1>2, <2>2, <2>4, <2>5, <2>6 DEF Knows, Early, Answering, Approving, ThreadGrows
  <2>8. thread' = [thread EXCEPT ![v] = n]
    BY <1>4 DEF n
  <2> QED  BY <1>1, <1>2, <2>2, <2>5, <2>7, <2>8, ThreadKeeps
<1>5. ASSUME t.claim[Start].state # "completed",
             NEW p \in {Started(t)} \union Planned(Started(t)),
             thread' = [thread EXCEPT ![v] = Claimed(p, Start, 0)],
             worker' = [worker EXCEPT ![w] = Idle]
      PROVE  RunInv'
  <2> DEFINE n == Claimed(p, Start, 0)
  <2>1. n \in Threads /\ ThreadOK(n) /\ ThreadGrows(t, n)
    <3> HIDE DEF t
    <3> QED  BY <1>2, <1>5, StartCompletes
  <2> HIDE DEF n
  <2>2. /\ worker' \in [Workers -> Process] /\ Knows(w)'
        /\ \A o \in Workers : o # w => worker'[o] = worker[o]
    BY <1>1, <1>5, IdleWorker
  <2>3. thread' = [thread EXCEPT ![v] = n]
    BY <1>5 DEF n
  <2> QED  BY <1>1, <1>2, <2>1, <2>2, <2>3, ThreadKeeps
<1> QED  BY <1>3, <1>4, <1>5 DEF PlannerStart

\* The planner's answer reaches a worker.
LEMMA AnswerKeeps ==
    ASSUME RunInv, NEW w \in Workers, NEW r \in Responses, Replied(w, "respond", r), Names(r),
           UNCHANGED <<runs, thread, remote, publication, asked, deliveries>>,
           worker[w].pc \notin Early, thread[worker[w].v].status # "absent",
           worker[w].marker # NoMarker =>
               thread[worker[w].v].claim[worker[w].marker.comment].state = "completed"
    PROVE  RunInv'
<1>1. TypeOK /\ Knows(w) /\ "respond" \in Places
  BY DEF RunInv, Places
<1>2. /\ worker' \in [Workers -> Process] /\ worker'[w].pc = "respond"
      /\ \A o \in Workers : o # w => worker'[o] = worker[o]
      /\ worker'[w].v = worker[w].v /\ worker'[w].state = worker[w].state
      /\ worker'[w].marker = worker[w].marker /\ worker'[w].response = r
  BY <1>1, RepliedTo
<1>3. worker[w].state # None /\ runs[worker[w].v].state # None
  BY <1>1 DEF Knows
<1>4. Knows(w)'
  BY <1>2, <1>3 DEF Knows, Early, Answering, Approving
<1>5. delivery' \in Deliveries /\ UNCHANGED abandoned
  BY <1>1 DEF TypeOK, deliveries, Deliveries
<1> QED  BY <1>2, <1>4, <1>5, MoveKeeps

\* A worker that only goes on.
LEMMA GotoKeeps ==
    ASSUME RunInv, NEW w \in Workers, NEW place \in Places, Goto(w, place),
           UNCHANGED <<runs, thread, remote, publication, asked, deliveries>>, Knows(w)'
    PROVE  RunInv'
<1>1. TypeOK
  BY DEF RunInv
<1>2. worker' \in [Workers -> Process] /\ \A o \in Workers : o # w => worker'[o] = worker[o]
  BY <1>1, GoneTo
<1>3. delivery' \in Deliveries /\ UNCHANGED abandoned
  BY <1>1 DEF TypeOK, deliveries, Deliveries
<1> QED  BY <1>2, <1>3, MoveKeeps

\* planner.get().
LEMMA PlannerGetKeeps ==
    ASSUME RunInv, NEW w \in Workers, PlannerGet(w)
    PROVE  RunInv'
<1> DEFINE v == worker[w].v
           t == thread[v]
<1>1. /\ TypeOK /\ Knows(w) /\ worker[w].pc = "get"
      /\ UNCHANGED <<runs, thread, remote, publication, asked, deliveries>>
  BY DEF RunInv, PlannerGet, At
<1>2. /\ v \in Versions /\ worker[w].state # None /\ runs[v].state # None
      /\ worker[w].marker = NoMarker /\ t \in Threads /\ ThreadOK(t)
      /\ "start" \in Places /\ worker[w].pc \notin Early
  BY <1>1, WorkerFields, RowFields DEF Knows, RunInv, Early, Places
<1>3. CASE t.status = "absent" /\ Goto(w, "start")
  <2>1. /\ worker'[w].pc = "start" /\ worker'[w].v = v /\ worker'[w].state = worker[w].state
        /\ worker'[w].marker = NoMarker
    BY <1>1, <1>2, <1>3, GoneTo
  <2>2. Knows(w)'
    BY <1>1, <1>2, <2>1 DEF Knows, Early, Answering, Approving
  <2> QED  BY <1>1, <1>2, <1>3, <2>2, GotoKeeps
<1>4. CASE t.status # "absent" /\ Replied(w, "respond", Response(t))
  <2>1. Response(t) \in Responses /\ Names(Response(t))
    BY <1>2, <1>4, ResponseTyped DEF Names, ThreadOK
  <2> QED  BY <1>1, <1>2, <1>4, <2>1, AnswerKeeps
<1> QED  BY <1>3, <1>4 DEF PlannerGet

\* The interrupt a comment answers is one that waits.
LEMMA ReadInterruptKeeps ==
    ASSUME RunInv, NEW w \in Workers, ReadInterrupt(w)
    PROVE  RunInv'
<1> DEFINE v == worker[w].v
           t == thread[v]
<1>1. /\ TypeOK /\ Knows(w) /\ worker[w].pc = "ask"
      /\ UNCHANGED <<runs, thread, remote, publication, asked, deliveries>>
  BY DEF RunInv, ReadInterrupt, At
<1>2. /\ v \in Versions /\ worker[w].state # None /\ runs[v].state # None
      /\ worker[w].marker = NoMarker /\ t \in Threads /\ ThreadOK(t) /\ t.status # "absent"
      /\ worker[w].event \in Comments /\ worker[w].pc \notin Early
  BY <1>1, WorkerFields, RowFields DEF Knows, RunInv, Early
<1>3. CASE Replied(w, "respond", Response(t))
  <2>1. Response(t) \in Responses /\ Names(Response(t))
    BY <1>2, <1>3, ResponseTyped DEF Names, ThreadOK
  <2> QED  BY <1>1, <1>2, <1>3, <2>1, AnswerKeeps
<1> DEFINE m == [comment |-> worker[w].event, interrupt |-> t.interrupt, seal |-> w]
<1>4. CASE t.interrupt # 0 /\ worker' = [worker EXCEPT ![w].pc = "record", ![w].marker = m]
  <2> DEFINE x == [worker[w] EXCEPT !.pc = "record", !.marker = m]
  <2>1. m \in Markers /\ m # NoMarker
    <3>1. t.interrupt \in 1 .. MaxInterrupt
      BY <1>2, <1>4, ThreadFields, LifecycleAssumption
    <3>2. m \in Markers /\ m.comment \in Comments
      BY <1>2, <3>1 DEF Markers
    <3>3. None \notin Comments /\ NoMarker.comment = None
      BY LifecycleAssumption DEF Events, NoMarker
    <3> HIDE DEF m
    <3> QED  BY <3>2, <3>3
  <2>2. worker[w] \in Process /\ worker \in [Workers -> Process]
    BY <1>1, WorkerFields DEF TypeOK, Process
  <2>3. worker' = [worker EXCEPT ![w] = x]
    <3> HIDE DEF m
    <3> QED  BY <1>4, <2>2 DEF Process
  <2> HIDE DEF m
  <2>4. /\ x \in Process /\ x.pc = "record" /\ x.v = v /\ x.state = worker[w].state
        /\ x.marker = m
    BY <2>1, <2>2 DEF Process, Places
  <2> HIDE DEF x
  <2>5. /\ worker' \in [Workers -> Process] /\ worker'[w] = x
        /\ \A o \in Workers : o # w => worker'[o] = worker[o]
    BY <2>2, <2>3, <2>4
  <2>6. Knows(w)'
    BY <1>1, <1>2, <2>1, <2>4, <2>5 DEF Knows, Early, Answering, Approving
  <2>7. delivery' \in Deliveries /\ UNCHANGED abandoned
    BY <1>1 DEF TypeOK, deliveries, Deliveries
  <2> QED  BY <1>1, <2>5, <2>6, <2>7, MoveKeeps
<1> QED  BY <1>3, <1>4 DEF ReadInterrupt

\* The marker of a row is written.
LEMMA MarkerSet ==
    ASSUME TypeOK, NEW v \in Versions, NEW m \in Markers \union {NoMarker},
           runs' = [runs EXCEPT ![v].marker = m]
    PROVE  LET row == [runs[v] EXCEPT !.marker = m]
           IN  /\ runs' = [runs EXCEPT ![v] = row] /\ row \in Rows
               /\ row.state = runs[v].state /\ row.request = runs[v].request /\ row.marker = m
               /\ row.pull = runs[v].pull /\ row.approved = runs[v].approved
               /\ row.bound = runs[v].bound
               /\ runs'[v] = row /\ \A u \in Versions : u # v => runs'[u] = runs[u]
<1> DEFINE row == [runs[v] EXCEPT !.marker = m]
<1>1. runs[v] \in Rows
  BY RowFields
<1>2. /\ row \in Rows /\ row.state = runs[v].state /\ row.request = runs[v].request
      /\ row.marker = m /\ row.pull = runs[v].pull
      /\ row.approved = runs[v].approved /\ row.bound = runs[v].bound
  BY <1>1 DEF Rows
<1>3. runs' = [runs EXCEPT ![v] = row]
  BY <1>1 DEF TypeOK, Rows
<1> HIDE DEF row
<1>4. runs'[v] = row /\ \A u \in Versions : u # v => runs'[u] = runs[u]
  BY <1>3 DEF TypeOK
<1> QED  BY <1>2, <1>3, <1>4 DEF row

\* record_pending_resume().
LEMMA RecordPendingResumeKeeps ==
    ASSUME RunInv, NEW w \in Workers, RecordPendingResume(w)
    PROVE  RunInv'
<1> DEFINE v == worker[w].v
           m == worker[w].marker
           row == [runs[v] EXCEPT !.marker = m]
<1>1. /\ TypeOK /\ Knows(w) /\ worker[w].pc = "record" /\ RowOK(v)
      /\ runs[v].state = "needs_input" /\ runs' = [runs EXCEPT ![v].marker = m]
      /\ worker' = [worker EXCEPT ![w].pc = "resume", ![w].state = "needs_input"]
      /\ UNCHANGED <<thread, remote, publication, asked, deliveries>>
  BY WorkerFields DEF RunInv, RecordPendingResume, At, record_pending_resume
<1>2. v \in Versions /\ m \in Markers /\ m # NoMarker /\ thread[v].status # "absent"
  BY <1>1, WorkerFields DEF Knows
<1>3. /\ runs' = [runs EXCEPT ![v] = row] /\ row \in Rows
      /\ row.state = runs[v].state /\ row.approved = runs[v].approved
      /\ row.bound = runs[v].bound /\ runs'[v] = row
  <2> HIDE DEF m, v
  <2> QED  BY <1>1, <1>2, MarkerSet
<1> HIDE DEF row
<1>4. /\ worker' \in [Workers -> Process] /\ worker'[w].pc = "resume"
      /\ \A o \in Workers : o # w => worker'[o] = worker[o]
      /\ worker'[w].v = v /\ worker'[w].state = "needs_input" /\ worker'[w].marker = m
  <2> DEFINE x == [worker[w] EXCEPT !.pc = "resume", !.state = "needs_input"]
  <2>1. worker[w] \in Process /\ worker \in [Workers -> Process]
    BY <1>1, WorkerFields DEF TypeOK, Process
  <2>2. /\ x \in Process /\ x.pc = "resume" /\ x.v = v /\ x.state = "needs_input"
        /\ x.marker = m
    BY <2>1 DEF Process, Places, States
  <2>3. worker' = [worker EXCEPT ![w] = x]
    BY <1>1, <2>1 DEF Process
  <2> HIDE DEF x
  <2> QED  BY <2>1, <2>2, <2>3
<1>5. Knows(w)'
  BY <1>1, <1>2, <1>3, <1>4 DEF Knows, Early, Answering, Approving, None
<1>6. delivery' \in Deliveries /\ abandoned' \subseteq Markers
  BY <1>1 DEF TypeOK, deliveries, Deliveries
<1>7. row.state = "needs_input" /\ row.state # None /\ row.state # "published"
  BY <1>1, <1>3 DEF None
<1>8. row.approved => v \in reviewed /\ pull[v] = "merged"
  BY <1>1, <1>3 DEF RowOK
<1>9. /\ UNCHANGED <<thread, remote, publication, asked>> /\ runs[v].state # "published"
      /\ \A o \in Workers : o # w => worker'[o] = worker[o]
  BY <1>1, <1>4
<1> HIDE DEF v, m
<1> QED  BY <1>2, <1>3, <1>4, <1>5, <1>6, <1>7, <1>8, <1>9, RowKeeps

\* planner.resume() with the sealed request.
LEMMA PlannerResumeKeeps ==
    ASSUME RunInv, NEW w \in Workers, PlannerResume(w)
    PROVE  RunInv'
<1> DEFINE v == worker[w].v
           m == worker[w].marker
           t == thread[v]
<1>1. /\ TypeOK /\ Knows(w) /\ worker[w].pc = "resume" /\ planner_resume_admits(t, m)
      /\ UNCHANGED <<runs, remote, publication, asked, deliveries>>
  BY DEF RunInv, PlannerResume, At
<1>2. /\ v \in Versions /\ worker[w].state # None /\ runs[v].state # None
      /\ m # NoMarker /\ m \in Markers /\ m.comment \in Keys /\ t \in Threads /\ ThreadOK(t)
      /\ "respond" \in Places /\ worker[w].pc \notin Early
  BY <1>1, WorkerFields, RowFields DEF Knows, RunInv, Early, Places
<1>3. CASE /\ t.claim[m.comment].state = "completed" /\ UNCHANGED thread
           /\ Replied(w, "respond", t.claim[m.comment].response)
  <2> DEFINE r == t.claim[m.comment].response
  <2>1. r \in Responses /\ Names(r) /\ t.status # "absent"
    BY <1>1, <1>2, <1>3, ThreadFields, ClaimFields DEF ThreadOK, planner_resume_admits
  <2>2. Replied(w, "respond", r)
    BY <1>3
  <2> HIDE DEF r
  <2> QED  BY <1>1, <1>2, <1>3, <2>1, <2>2, AnswerKeeps
<1>4. ASSUME t.claim[m.comment].state # "completed", NEW p \in Planned(Consumed(t, m)),
             thread' = [thread EXCEPT ![v] = Completed(p, m.comment, m.interrupt)],
             Replied(w, "respond", Response(p))
      PROVE  RunInv'
  <2> DEFINE n == Completed(p, m.comment, m.interrupt)
  <2>1. p \in {t, Consumed(t, m)} \union Planned(Consumed(t, m))
    BY <1>4
  <2>2. /\ n \in Threads /\ ThreadOK(n) /\ ThreadGrows(t, n)
        /\ n.claim[m.comment].state = "completed"
    <3>1. n = Completed(p, m.comment, m.interrupt) /\ p \in Planned(Consumed(t, m))
      BY <1>4
    <3>2. m.comment \in Keys /\ p \in Threads /\ p.status # "absent"
      BY <1>1, <1>2, <1>4, <2>1, ConsumedThread
    <3>3. n.claim[m.comment].state = "completed"
      <4>1. m.interrupt \in 0 .. MaxInterrupt
        BY <1>2 DEF Markers
      <4> QED  BY <3>2, <4>1, CompletedThread
    <3> HIDE DEF t, m, n
    <3> QED  BY <1>1, <1>2, <1>4, <2>1, <3>1, <3>3, ResumeCompletes
  <2>3. /\ p \in Threads /\ p.status # "absent" /\ (p.status = "needs_input" <=> p.interrupt # 0)
    <3> HIDE DEF t, m
    <3> QED  BY <1>1, <1>2, <1>4, <2>1, ConsumedThread
  <2>4. Response(p) \in Responses /\ Names(Response(p))
    BY <2>3, ResponseTyped DEF Names
  <2> HIDE DEF n
  <2>5. /\ worker' \in [Workers -> Process] /\ worker'[w].pc = "respond"
        /\ \A o \in Workers : o # w => worker'[o] = worker[o]
        /\ worker'[w].v = v /\ worker'[w].state = worker[w].state
        /\ worker'[w].marker = worker[w].marker /\ worker'[w].response = Response(p)
    BY <1>1, <1>2, <1>4, <2>4, RepliedTo
  <2>6. thread'[v] = n
    BY <1>1, <1>2, <1>4 DEF TypeOK, n
  <2>7. Knows(w)'
    BY <1>1, <1>2, <2>2, <2>4, <2>5, <2>6 DEF Knows, Early, Answering, Approving, ThreadGrows
  <2>8. thread' = [thread EXCEPT ![v] = n]
    BY <1>4 DEF n
  <2> QED  BY <1>1, <1>2, <2>2, <2>5, <2>7, <2>8, ThreadKeeps
<1>5. ASSUME t.claim[m.comment].state # "completed",
             NEW p \in {t, Consumed(t, m)} \union Planned(Consumed(t, m)),
             thread' = [thread EXCEPT ![v] = Claimed(p, m.comment, m.interrupt)],
             worker' = [worker EXCEPT ![w] = Idle]
      PROVE  RunInv'
  <2> DEFINE n == Claimed(p, m.comment, m.interrupt)
  <2>1. n \in Threads /\ ThreadOK(n) /\ ThreadGrows(t, n)
    <3> HIDE DEF t, m
    <3> QED  BY <1>1, <1>2, <1>5, ResumeCompletes
  <2> HIDE DEF n
  <2>2. /\ worker' \in [Workers -> Process] /\ Knows(w)'
        /\ \A o \in Workers : o # w => worker'[o] = worker[o]
    BY <1>1, <1>5, IdleWorker
  <2>3. thread' = [thread EXCEPT ![v] = n]
    BY <1>5 DEF n
  <2> QED  BY <1>1, <1>2, <2>1, <2>2, <2>3, ThreadKeeps
<1> QED  BY <1>3, <1>4, <1>5 DEF PlannerResume

-----------------------------------------------------------------------------
(* The steps of the invariant: the planner's answer.                       *)

\* A worker with an answer leaves, or goes to clear its marker.
LEMMA LeaveWorker ==
    ASSUME TypeOK, NEW w \in Workers, Knows(w), worker[w].pc \in Answering, Leave(w),
           UNCHANGED thread, runs'[worker[w].v].state # None
    PROVE  /\ worker' \in [Workers -> Process] /\ Knows(w)'
           /\ \A o \in Workers : o # w => worker'[o] = worker[o]
           /\ delivery' \in Deliveries /\ abandoned' = abandoned
<1>1. CASE worker[w].marker = NoMarker
  <2>1. worker' = [worker EXCEPT ![w] = Idle] /\ Handled(worker[w].event) /\ abandoned' = abandoned
    BY <1>1 DEF Leave, AfterResponse, Return
  <2> QED  BY <2>1, IdleWorker, HandledTyped
<1>2. CASE worker[w].marker # NoMarker
  <2>1. Goto(w, "clear") /\ UNCHANGED deliveries /\ "clear" \in Places
    BY <1>2 DEF Leave, AfterResponse, Places
  <2>2. /\ worker' \in [Workers -> Process] /\ worker'[w].pc = "clear"
        /\ \A o \in Workers : o # w => worker'[o] = worker[o]
        /\ worker'[w].v = worker[w].v /\ worker'[w].state = worker[w].state
        /\ worker'[w].marker = worker[w].marker
    BY <2>1, GoneTo
  <2>3. /\ worker[w].state # None /\ thread[worker[w].v].status # "absent"
        /\ thread[worker[w].v].claim[worker[w].marker.comment].state = "completed"
    BY <1>2 DEF Knows, Answering, Early
  <2>4. Knows(w)'
    BY <1>2, <2>2, <2>3 DEF Knows, Early, Answering, Approving
  <2>5. delivery' \in Deliveries /\ abandoned' = abandoned
    BY <2>1 DEF TypeOK, deliveries, Deliveries
  <2> QED  BY <2>2, <2>4, <2>5
<1> QED  BY <1>1, <1>2

\* The planner's answer is handled.
LEMMA HandleResponseKeeps ==
    ASSUME RunInv, NEW w \in Workers, HandleResponse(w)
    PROVE  RunInv'
<1> DEFINE v == worker[w].v
           r == worker[w].response
<1>1. /\ TypeOK /\ Knows(w) /\ worker[w].pc = "respond"
      /\ UNCHANGED <<runs, thread, remote, publication>>
  BY DEF RunInv, HandleResponse, At
<1>2. /\ v \in Versions /\ worker[w].state # None /\ runs[v].state # None
      /\ thread[v].status # "absent" /\ Names(r) /\ r \in Responses
      /\ worker[w].marker # NoMarker => thread[v].claim[worker[w].marker.comment].state = "completed"
      /\ "settle" \in Places /\ "pull" \in Places
  BY <1>1, WorkerFields DEF Knows, Early, Places, Answering
<1>3. /\ journal' \in Journals /\ fence' \in Workers \union {None} /\ UNCHANGED applied
      /\ asked \subseteq Versions \X (1 .. MaxInterrupt) /\ abandoned \subseteq Markers
      /\ delivery \in Deliveries
  BY <1>1 DEF TypeOK, Journals, publication, Deliveries
<1>4. ASSUME NEW place \in {"settle", "pull"}, Goto(w, place), UNCHANGED deliveries,
             place = "settle" => r.status \in {"needs_input", "failed"},
             asked' \subseteq Versions \X (1 .. MaxInterrupt)
      PROVE  RunInv'
  <2>1. /\ worker' \in [Workers -> Process] /\ worker'[w].pc = place
        /\ \A o \in Workers : o # w => worker'[o] = worker[o]
        /\ worker'[w].v = worker[w].v /\ worker'[w].state = worker[w].state
        /\ worker'[w].marker = worker[w].marker /\ worker'[w].response = r
    BY <1>1, <1>2, <1>4, GoneTo
  <2>2. Knows(w)'
    BY <1>1, <1>2, <1>4, <2>1 DEF Knows, Early, Answering, Approving
  <2>3. delivery' \in Deliveries /\ abandoned' \subseteq Markers
    BY <1>3, <1>4 DEF deliveries
  <2> QED  BY <1>1, <1>3, <1>4, <2>1, <2>2, <2>3, WorkerKeeps
<1>5. CASE /\ r.status = "needs_input" /\ asked' = asked \union {<<v, r.interrupt>>}
           /\ Goto(w, "settle") /\ UNCHANGED deliveries
  <2>1. r.interrupt \in 1 .. MaxInterrupt
    BY <1>2, <1>5, LifecycleAssumption DEF Names, Responses
  <2> QED  BY <1>2, <1>3, <1>4, <1>5, <2>1
<1>6. CASE r.status = "failed" /\ Goto(w, "settle") /\ UNCHANGED <<asked, deliveries>>
  BY <1>3, <1>4, <1>6
<1>7. CASE Leave(w) /\ UNCHANGED asked
  <2>1. /\ worker' \in [Workers -> Process] /\ Knows(w)'
        /\ \A o \in Workers : o # w => worker'[o] = worker[o]
        /\ delivery' \in Deliveries /\ abandoned' = abandoned
    BY <1>1, <1>2, <1>7, LeaveWorker DEF Answering
  <2> QED  BY <1>1, <1>7, <2>1, MoveKeeps
<1>8. CASE Goto(w, "pull") /\ UNCHANGED <<asked, deliveries>>
  BY <1>3, <1>4, <1>8
<1> QED  BY <1>5, <1>6, <1>7, <1>8 DEF HandleResponse

\* The state a worker read is replaced by the one it reports.
LEMMA SetStateKeeps ==
    ASSUME RunInv, NEW w \in Workers, NEW v \in Versions, NEW old \in States \ {None},
           NEW row \in Rows, row.state \in _TRANSITIONS[old], runs[v].state \in {old, row.state},
           runs' = [runs EXCEPT ![v] = row],
           row.approved = runs[v].approved, row.bound = runs[v].bound,
           UNCHANGED <<thread, remote, publication, asked>>, thread[v].status # "absent",
           row.state = "published" => runs[v].approved /\ runs[v].bound /\ applied[v] = "all",
           delivery' \in Deliveries, abandoned' \subseteq Markers,
           worker' \in [Workers -> Process],
           \A o \in Workers : o # w => worker'[o] = worker[o], Knows(w)'
    PROVE  RunInv'
<1>1. RowOK(v)
  BY DEF RunInv
<1>2. row.state # None /\ (runs[v].state \in Terminal => row.state = runs[v].state)
  BY TransitionsKnown
<1>3. row.approved => v \in reviewed /\ pull[v] = "merged"
  BY <1>1 DEF RowOK
<1>4. runs[v].state = "published" => row.state = "published"
  BY <1>2 DEF Terminal
<1> QED  BY <1>2, <1>3, <1>4, RowKeeps

\* The row takes the state the planner answered.
LEMMA SettleResponseKeeps ==
    ASSUME RunInv, NEW w \in Workers, SettleResponse(w)
    PROVE  RunInv'
<1> DEFINE v == worker[w].v
           new == worker[w].response.status
           row == [runs[v] EXCEPT !.state = new]
<1>1. /\ TypeOK /\ Knows(w) /\ worker[w].pc = "settle"
      /\ new \in _TRANSITIONS[worker[w].state] /\ runs[v].state \in {worker[w].state, new}
      /\ UNCHANGED <<thread, remote, publication, asked>> /\ Leave(w)
  BY DEF RunInv, SettleResponse, At, set_state
<1>2. /\ v \in Versions /\ worker[w].state \in States \ {None}
      /\ thread[v].status # "absent" /\ new \in {"needs_input", "failed"}
  BY <1>1, WorkerFields DEF Knows, Early, Answering
<1>3. /\ runs' = [runs EXCEPT ![v] = row] /\ row \in Rows /\ row.state = new
      /\ row.approved = runs[v].approved /\ row.bound = runs[v].bound /\ runs'[v] = row
  <2>1. new \in States /\ TypeOK
    BY <1>1, <1>2 DEF States
  <2>2. runs' = [runs EXCEPT ![v].state = new]
    BY DEF SettleResponse, set_state
  <2> HIDE DEF new, v
  <2> QED  BY <1>2, <2>1, <2>2, StateSet
<1> HIDE DEF row
<1>4. runs'[v].state # None /\ row.state # "published"
  BY <1>2, <1>3 DEF None
<1>5. /\ worker' \in [Workers -> Process] /\ Knows(w)'
      /\ \A o \in Workers : o # w => worker'[o] = worker[o]
      /\ delivery' \in Deliveries /\ abandoned' = abandoned
  BY <1>1, <1>4, LeaveWorker DEF Answering
<1>6. abandoned' \subseteq Markers
  BY <1>1, <1>5 DEF TypeOK
<1> HIDE DEF new, v
<1> QED  BY <1>1, <1>2, <1>3, <1>4, <1>5, <1>6, SetStateKeeps

\* The pull request is opened; one that is merged stays merged.
LEMMA EnsurePullRequestKeeps ==
    ASSUME RunInv, NEW w \in Workers, EnsurePullRequest(w)
    PROVE  RunInv'
<1> DEFINE v == worker[w].v
<1>1. /\ TypeOK /\ Knows(w) /\ worker[w].pc = "pull" /\ pull[v] # "merged"
      /\ pull' = [pull EXCEPT ![v] = "open"] /\ Goto(w, "bind_pull")
      /\ UNCHANGED <<runs, thread, reviewed, publication, asked, deliveries>>
  BY DEF RunInv, EnsurePullRequest, At
<1>2. v \in Versions /\ "bind_pull" \in Places
  BY <1>1, WorkerFields DEF Places
<1>3. UNCHANGED <<runs, thread, reviewed, journal, applied, fence, asked, delivery, abandoned>>
  BY <1>1 DEF publication, deliveries
<1>4. /\ pull' \in [Versions -> {None, "open", "merged"}]
      /\ \A u \in Versions : pull[u] = "merged" => pull'[u] = "merged"
  BY <1>1, <1>2 DEF TypeOK
<1>5. /\ worker' \in [Workers -> Process] /\ worker'[w].pc = "bind_pull"
      /\ \A o \in Workers : o # w => worker'[o] = worker[o]
      /\ worker'[w].v = v /\ worker'[w].state = worker[w].state
      /\ worker'[w].marker = worker[w].marker
  BY <1>1, <1>2, GoneTo
<1>6. Knows(w)'
  BY <1>1, <1>3, <1>5 DEF Knows, Early, Answering, Approving
<1>7. TypeOK'
  BY <1>1, <1>3, <1>4, <1>5 DEF TypeOK, Process
<1>8. Grows
  BY <1>3, <1>4 DEF Grows
<1>9. \A u \in Versions : ThreadOK(thread'[u]) /\ RowOK(u)'
  BY <1>3, <1>4 DEF RunInv, RowOK
<1>10. Latest(Begun)' /\ Latest(PublishedVersions)'
  BY <1>3 DEF RunInv, Latest, Begun, PublishedVersions
<1> QED  BY <1>5, <1>6, <1>7, <1>8, <1>9, <1>10, RunFrame

\* record_pull_request().
LEMMA RecordPullRequestKeeps ==
    ASSUME RunInv, NEW w \in Workers, RecordPullRequest(w)
    PROVE  RunInv'
<1> DEFINE v == worker[w].v
           row == [runs[v] EXCEPT !.state = "pr_open", !.pull = TRUE]
<1>1. /\ TypeOK /\ Knows(w) /\ worker[w].pc = "bind_pull"
      /\ runs[v].state \in {"planning", "needs_input", "pr_open"}
      /\ runs' = [runs EXCEPT ![v].state = "pr_open", ![v].pull = TRUE]
      /\ UNCHANGED <<thread, remote, publication, asked>> /\ Leave(w)
  BY DEF RunInv, RecordPullRequest, At, record_pull_request
<1>2. v \in Versions /\ thread[v].status # "absent" /\ runs[v] \in Rows /\ runs \in [Versions -> Rows]
  BY <1>1, WorkerFields, RowFields DEF Knows, Answering, TypeOK
<1>3. /\ row \in Rows /\ row.state = "pr_open" /\ row.approved = runs[v].approved
      /\ row.bound = runs[v].bound
  BY <1>2 DEF Rows, States
<1>4. runs' = [runs EXCEPT ![v] = row]
  BY <1>1, <1>2 DEF Rows
<1> HIDE DEF row
<1>5. runs'[v].state # None
  BY <1>2, <1>3, <1>4 DEF None
<1>6. /\ worker' \in [Workers -> Process] /\ Knows(w)'
      /\ \A o \in Workers : o # w => worker'[o] = worker[o]
      /\ delivery' \in Deliveries /\ abandoned' = abandoned
  BY <1>1, <1>5, LeaveWorker DEF Answering
<1>7. abandoned' \subseteq Markers
  BY <1>1, <1>6 DEF TypeOK
<1>8. row.approved => v \in reviewed /\ pull[v] = "merged"
  BY <1>2, <1>3 DEF RowOK, RunInv
<1>9. /\ row.state # None /\ row.state # "published" /\ runs[v].state # "published"
      /\ UNCHANGED <<thread, remote, publication, asked>>
  BY <1>1, <1>3 DEF None
<1> HIDE DEF v
<1> QED  BY <1>2, <1>3, <1>4, <1>6, <1>7, <1>8, <1>9, RowKeeps

\* clear_pending_resume().
LEMMA ClearPendingResumeKeeps ==
    ASSUME RunInv, NEW w \in Workers, ClearPendingResume(w)
    PROVE  RunInv'
<1> DEFINE v == worker[w].v
           row == [runs[v] EXCEPT !.marker = NoMarker]
<1>1. /\ TypeOK /\ Knows(w) /\ worker[w].pc = "clear"
      /\ runs' = [runs EXCEPT ![v].marker = NoMarker]
      /\ UNCHANGED <<thread, remote, publication, asked>> /\ Return(w)
  BY DEF RunInv, ClearPendingResume, At, clear_pending_resume
<1>2. v \in Versions /\ thread[v].status # "absent" /\ runs[v].state # None /\ RowOK(v)
  BY <1>1, WorkerFields DEF Knows, Answering, Early, RunInv
<1>3. /\ runs' = [runs EXCEPT ![v] = row] /\ row \in Rows
      /\ row.state = runs[v].state /\ row.approved = runs[v].approved
      /\ row.bound = runs[v].bound
  <2> HIDE DEF v
  <2> QED  BY <1>1, <1>2, MarkerSet
<1> HIDE DEF row
<1>4. /\ worker' \in [Workers -> Process] /\ Knows(w)' /\ delivery' \in Deliveries
      /\ \A o \in Workers : o # w => worker'[o] = worker[o]
      /\ abandoned' \subseteq Markers
  BY <1>1, IdleWorker, HandledTyped DEF Return, TypeOK
<1>5. /\ row.approved => v \in reviewed /\ pull[v] = "merged"
      /\ row.state = "published" => row.approved /\ row.bound /\ applied[v] = "all"
      /\ UNCHANGED <<thread, remote, publication, asked>>
  BY <1>1, <1>2, <1>3 DEF RowOK
<1> HIDE DEF v
<1> QED  BY <1>2, <1>3, <1>4, <1>5, RowKeeps

-----------------------------------------------------------------------------
(* The steps of the invariant: publication.                                *)

\* What a worker that approves knows of its version.
LEMMA ApprovingFacts ==
    ASSUME RunInv, NEW w \in Workers, worker[w].pc \in Approving
    PROVE  LET v == worker[w].v
           IN  /\ v \in Versions /\ worker[w].state \in States \ {None} /\ runs[v].state # None
               /\ worker[w].event \in Approvals /\ v \in reviewed /\ pull[v] = "merged"
               /\ thread[v].status # "absent" /\ runs[v] \in Rows /\ RowOK(v) /\ runs \in [Versions -> Rows]
               /\ "bind" \in Places /\ "publish" \in Places /\ "publishing" \in Places
               /\ "published" \in Places /\ "block" \in Places
<1>1. TypeOK /\ Knows(w) /\ worker[w].v \in Versions /\ worker[w].pc \notin Early
  BY WorkerFields DEF RunInv, Approving, Early
<1>2. RowOK(worker[w].v)
  BY <1>1 DEF RunInv
<1>3. worker[w].state # None /\ runs[worker[w].v].state # None
  BY <1>1 DEF Knows
<1>4. /\ worker[w].event \in Approvals /\ worker[w].v \in reviewed /\ pull[worker[w].v] = "merged"
      /\ thread[worker[w].v].status # "absent"
  BY <1>1 DEF Knows
<1> QED  BY <1>1, <1>2, <1>3, <1>4, WorkerFields, RowFields DEF Places, TypeOK

\* approve_for_publication().
LEMMA ApproveKeeps ==
    ASSUME RunInv, NEW w \in Workers, Approve(w)
    PROVE  RunInv'
<1> DEFINE v == worker[w].v
           row == [runs[v] EXCEPT !.state = "publishing", !.approved = TRUE]
<1>1. /\ TypeOK /\ worker[w].pc = "approve" /\ runs[v].state \in {"pr_open", "publishing"}
      /\ UNCHANGED <<thread, remote, publication, asked, deliveries>> /\ Goto(w, "bind")
  BY DEF RunInv, Approve, At, approve_for_publication
<1>2. /\ v \in Versions /\ worker[w].state \in States \ {None} /\ runs[v].state # None
      /\ worker[w].event \in Approvals /\ v \in reviewed /\ pull[v] = "merged"
      /\ thread[v].status # "absent"
      /\ runs[v] \in Rows /\ RowOK(v) /\ runs \in [Versions -> Rows] /\ "bind" \in Places
  BY <1>1, ApprovingFacts DEF Approving
<1>3. /\ row \in Rows /\ row.state = "publishing" /\ row.approved /\ row.bound = runs[v].bound
  BY <1>2 DEF Rows, States
<1>4. runs' = [runs EXCEPT ![v] = row]
  BY <1>2 DEF Rows, Approve, approve_for_publication
<1> HIDE DEF row
<1>5. runs'[v] = row /\ row.state # None /\ row.state # "published"
  BY <1>2, <1>3, <1>4 DEF None
<1>6. /\ worker' \in [Workers -> Process] /\ worker'[w].pc = "bind"
      /\ \A o \in Workers : o # w => worker'[o] = worker[o]
      /\ worker'[w].v = v /\ worker'[w].state = worker[w].state
      /\ worker'[w].event = worker[w].event
  BY <1>1, <1>2, GoneTo
<1>7. Knows(w)'
  BY <1>1, <1>2, <1>5, <1>6 DEF Knows, Early, Answering, Approving, remote
<1>8. /\ delivery' \in Deliveries /\ abandoned' \subseteq Markers
      /\ thread[v].status # "absent" /\ runs[v].state # "published"
      /\ UNCHANGED <<thread, remote, publication, asked>>
  BY <1>1, <1>2 DEF TypeOK, deliveries, Deliveries, RowOK, None
<1> HIDE DEF v
<1> QED  BY <1>2, <1>3, <1>4, <1>5, <1>6, <1>7, <1>8, RowKeeps

\* record_publication_binding().
LEMMA BindArtifactKeeps ==
    ASSUME RunInv, NEW w \in Workers, BindArtifact(w)
    PROVE  RunInv'
<1> DEFINE v == worker[w].v
           row == [runs[v] EXCEPT !.approved = TRUE, !.bound = TRUE]
           x == [worker[w] EXCEPT !.pc = "publish", !.state = runs[v].state]
<1>1. /\ TypeOK /\ worker[w].pc = "bind" /\ runs[v].state \in {"pr_open", "publishing", "published"}
      /\ UNCHANGED <<thread, remote, publication, asked, deliveries>>
  BY DEF RunInv, BindArtifact, At, record_publication_binding
<1>2. /\ v \in Versions /\ worker[w].state \in States \ {None} /\ runs[v].state # None
      /\ worker[w].event \in Approvals /\ v \in reviewed /\ pull[v] = "merged"
      /\ thread[v].status # "absent"
      /\ runs[v] \in Rows /\ RowOK(v) /\ runs \in [Versions -> Rows]
  BY <1>1, ApprovingFacts DEF Approving
<1>3. /\ row \in Rows /\ row.state = runs[v].state /\ row.approved /\ row.bound
  BY <1>2 DEF Rows
<1>4. runs' = [runs EXCEPT ![v] = row]
  BY <1>2 DEF Rows, BindArtifact, record_publication_binding
<1>5. worker[w] \in Process /\ worker \in [Workers -> Process] /\ runs[v].state \in States
  BY <1>1, <1>2, WorkerFields, RowFields DEF TypeOK, Process
<1>6. worker' = [worker EXCEPT ![w] = x]
  BY <1>5 DEF Process, BindArtifact
<1>7. /\ x \in Process /\ x.pc = "publish" /\ x.v = v /\ x.state = runs[v].state
      /\ x.event = worker[w].event
  BY <1>5 DEF Process, Places
<1> HIDE DEF row, x
<1>8. runs'[v] = row /\ row.state # None
  BY <1>2, <1>3, <1>4
<1>9. /\ worker' \in [Workers -> Process] /\ worker'[w] = x
      /\ \A o \in Workers : o # w => worker'[o] = worker[o]
  BY <1>5, <1>6, <1>7
<1>10. Knows(w)'
  BY <1>1, <1>2, <1>3, <1>7, <1>8, <1>9 DEF Knows, Early, Answering, Approving, remote
<1>11. /\ delivery' \in Deliveries /\ abandoned' \subseteq Markers
       /\ thread[v].status # "absent"
       /\ row.state = "published" => row.approved /\ row.bound /\ applied[v] = "all"
       /\ UNCHANGED <<thread, remote, publication, asked>>
  BY <1>1, <1>2, <1>3 DEF TypeOK, deliveries, Deliveries, RowOK, None
<1> HIDE DEF v
<1> QED  BY <1>2, <1>3, <1>4, <1>8, <1>9, <1>10, <1>11, RowKeeps

\* journal.resume().
LEMMA OpenJournalKeeps ==
    ASSUME RunInv, NEW w \in Workers, OpenJournal(w)
    PROVE  RunInv'
<1> DEFINE v == worker[w].v
<1>1. /\ TypeOK /\ Knows(w) /\ worker[w].pc = "publish"
      /\ UNCHANGED <<runs, thread, remote, applied, asked, deliveries>>
  BY DEF RunInv, OpenJournal, At
<1>2. /\ v \in Versions /\ worker[w].state \in States \ {None} /\ runs[v].state # None
      /\ worker[w].event \in Approvals /\ v \in reviewed /\ pull[v] = "merged"
      /\ thread[v].status # "absent"
      /\ "publishing" \in Places /\ "block" \in Places
  BY <1>1, ApprovingFacts DEF Approving
<1>3. runs[v].approved /\ runs[v].bound
  BY <1>1 DEF Knows
<1>4. PICK place \in {"publishing", "block"} : Goto(w, place)
  BY DEF OpenJournal
<1>5. /\ worker' \in [Workers -> Process] /\ worker'[w].pc = place
      /\ \A o \in Workers : o # w => worker'[o] = worker[o]
      /\ worker'[w].v = v /\ worker'[w].state = worker[w].state
      /\ worker'[w].event = worker[w].event
  BY <1>1, <1>2, <1>4, GoneTo
<1>6. Knows(w)'
  BY <1>1, <1>2, <1>3, <1>4, <1>5 DEF Knows, Early, Answering, Approving, remote
<1>7. journal' \in Journals /\ fence' \in Workers \union {None}
  <2>1. journal \in Journals /\ fence \in Workers \union {None}
    BY <1>1 DEF TypeOK, Journals
  <2>2. fence' = w \/ UNCHANGED fence
    BY DEF OpenJournal
  <2>3. \/ UNCHANGED journal
        \/ journal' = [journal EXCEPT ![<<worker[w].event, v>>] = IF @ = None THEN "in_progress" ELSE @]
    BY DEF OpenJournal
  <2> QED  BY <2>1, <2>2, <2>3 DEF Journals
<1>8. /\ asked' \subseteq Versions \X (1 .. MaxInterrupt) /\ delivery' \in Deliveries
      /\ abandoned' \subseteq Markers /\ UNCHANGED <<runs, thread, remote, applied>>
  BY <1>1 DEF TypeOK, deliveries, Deliveries
<1> QED  BY <1>5, <1>6, <1>7, <1>8, WorkerKeeps

\* publish().
LEMMA PublishKeeps ==
    ASSUME RunInv, NEW w \in Workers, Publish(w)
    PROVE  RunInv'
<1> DEFINE v == worker[w].v
<1>1. /\ TypeOK /\ Knows(w) /\ worker[w].pc = "publishing"
      /\ UNCHANGED <<runs, thread, remote, asked, deliveries>>
  BY DEF RunInv, Publish, At
<1>2. /\ v \in Versions /\ worker[w].state \in States \ {None} /\ runs[v].state # None
      /\ worker[w].event \in Approvals /\ v \in reviewed /\ pull[v] = "merged"
      /\ thread[v].status # "absent"
      /\ "published" \in Places /\ "block" \in Places
  BY <1>1, ApprovingFacts DEF Approving
<1>3. runs[v].approved /\ runs[v].bound
  BY <1>1 DEF Knows
<1>4. journal' \in Journals /\ fence' \in Workers \union {None}
  <2>1. journal \in Journals /\ fence \in Workers \union {None}
    BY <1>1 DEF TypeOK, Journals
  <2>2. fence' = None \/ UNCHANGED fence
    BY DEF Publish
  <2>3. \/ UNCHANGED journal
        \/ journal' = [journal EXCEPT ![<<worker[w].event, v>>] = "completed"]
    BY DEF Publish
  <2> QED  BY <2>1, <2>2, <2>3 DEF Journals
<1>5. /\ applied' \in [Versions -> {"nothing", "part", "all"}]
      /\ \A u \in Versions : applied[u] = "all" => applied'[u] = "all"
  <2>1. \/ applied[v] = "nothing" /\ applied' = [applied EXCEPT ![v] = "part"]
        \/ applied' = [applied EXCEPT ![v] = "all"]
        \/ UNCHANGED applied
    BY DEF Publish
  <2> QED  BY <1>1, <1>2, <2>1 DEF TypeOK
<1>6. UNCHANGED <<runs, thread, pull, reviewed, asked, delivery, abandoned>>
  BY <1>1 DEF remote, deliveries
<1>7. worker' \in [Workers -> Process] /\ \A o \in Workers : worker'[o] = worker[o] \/ Knows(o)'
  <2>1. CASE UNCHANGED worker
    BY <1>1, <2>1 DEF TypeOK, Process
  <2>2. ASSUME NEW place \in {"published", "block"}, Goto(w, place),
               place = "published" => applied' = [applied EXCEPT ![v] = "all"]
        PROVE  worker' \in [Workers -> Process] /\ \A o \in Workers : worker'[o] = worker[o] \/ Knows(o)'
    <3>1. /\ worker' \in [Workers -> Process] /\ worker'[w].pc = place
          /\ \A o \in Workers : o # w => worker'[o] = worker[o]
          /\ worker'[w].v = v /\ worker'[w].state = worker[w].state
          /\ worker'[w].event = worker[w].event
      BY <1>1, <1>2, <2>2, GoneTo
    <3>2. place = "published" => applied'[v] = "all"
      BY <1>1, <1>2, <2>2 DEF TypeOK
    <3>3. Knows(w)'
      BY <1>2, <1>3, <1>6, <2>2, <3>1, <3>2 DEF Knows, Early, Answering, Approving
    <3> QED  BY <3>1, <3>3
  <2> QED  BY <2>1, <2>2 DEF Publish
<1>8. TypeOK'
  BY <1>1, <1>4, <1>5, <1>6, <1>7 DEF TypeOK, Process, Journals
<1>9. Grows
  BY <1>5, <1>6 DEF Grows
<1>10. \A u \in Versions : ThreadOK(thread'[u]) /\ RowOK(u)'
  BY <1>5, <1>6 DEF RunInv, RowOK
<1>11. Latest(Begun)' /\ Latest(PublishedVersions)'
  BY <1>6 DEF RunInv, Latest, Begun, PublishedVersions
<1> QED  BY <1>7, <1>8, <1>9, <1>10, <1>11, RunFrame

\* The outcome of a publication is written to its row.
LEMMA RecordOutcomeKeeps ==
    ASSUME RunInv, NEW w \in Workers, RecordPublished(w) \/ RecordBlocked(w)
    PROVE  RunInv'
<1> DEFINE v == worker[w].v
           new == IF worker[w].pc = "published" THEN "published" ELSE "blocked"
           row == [runs[v] EXCEPT !.state = new]
<1>1. /\ TypeOK /\ Knows(w) /\ worker[w].pc \in {"published", "block"}
      /\ new \in _TRANSITIONS[worker[w].state] /\ runs[v].state \in {worker[w].state, new}
      /\ UNCHANGED <<thread, remote, publication, asked>> /\ Return(w)
  BY DEF RunInv, RecordPublished, RecordBlocked, At, set_state
<1>2. /\ v \in Versions /\ worker[w].state \in States \ {None} /\ thread[v].status # "absent"
  BY <1>1, ApprovingFacts DEF Approving
<1>3. /\ runs[v].approved /\ runs[v].bound /\ (new = "published" => applied[v] = "all")
      /\ new \in States /\ new # None
  BY <1>1 DEF Knows, States, None
<1>5. /\ runs' = [runs EXCEPT ![v] = row] /\ row \in Rows /\ row.state = new
      /\ row.approved = runs[v].approved /\ row.bound = runs[v].bound /\ runs'[v] = row
  <2>1. new \in States /\ TypeOK
    BY <1>1, <1>3
  <2>2. runs' = [runs EXCEPT ![v].state = new]
    BY DEF RecordPublished, RecordBlocked, set_state, At
  <2> HIDE DEF new, v
  <2> QED  BY <1>2, <2>1, <2>2, StateSet
<1>6. /\ worker' \in [Workers -> Process] /\ Knows(w)' /\ delivery' \in Deliveries
      /\ \A o \in Workers : o # w => worker'[o] = worker[o]
      /\ abandoned' \subseteq Markers
  BY <1>1, IdleWorker, HandledTyped DEF Return, TypeOK
<1> HIDE DEF row, new, v
<1> QED  BY <1>1, <1>2, <1>3, <1>5, <1>6, SetStateKeeps

-----------------------------------------------------------------------------
(* The steps of the invariant: corrections, people and failures.           *)

\* An operator abandons the answer of a dead delivery.
LEMMA AbandonKeeps ==
    ASSUME RunInv, NEW w \in Workers, NEW v \in Versions, abandon_terminal_resume(w, v)
    PROVE  RunInv'
<1> DEFINE m == runs[v].marker
<1>1. /\ TypeOK /\ m # NoMarker /\ Enter(w, "abandon", m.comment, v, m)
      /\ UNCHANGED <<runs, thread, remote, publication, asked, deliveries>>
  BY DEF RunInv, abandon_terminal_resume
<1>2. m \in Markers /\ m.comment \in Comments
  BY <1>1, RowFields
<1>3. m.comment \in Events /\ "abandon" \in Places
  BY <1>2 DEF Events, Places
<1> HIDE DEF m
<1> QED  BY <1>1, <1>2, <1>3, EnterKeeps

\* planner.abandon().
LEMMA PlannerAbandonKeeps ==
    ASSUME RunInv, NEW w \in Workers, PlannerAbandon(w)
    PROVE  RunInv'
<1> DEFINE v == worker[w].v
           m == worker[w].marker
           n == Abandoned(thread[v], m)
<1>1. /\ TypeOK /\ Knows(w) /\ worker[w].pc = "abandon" /\ planner_abandon_admits(thread[v], m)
      /\ thread' = [thread EXCEPT ![v] = n] /\ Goto(w, "restored")
      /\ UNCHANGED <<runs, remote, publication, asked, deliveries>>
  BY DEF RunInv, PlannerAbandon, At
<1>2. /\ v \in Versions /\ m # NoMarker /\ m \in Markers /\ thread[v] \in Threads
      /\ ThreadOK(thread[v]) /\ "restored" \in Places
  BY <1>1, WorkerFields, RowFields DEF Knows, RunInv, Places
<1>3. /\ n \in Threads /\ ThreadOK(n) /\ ThreadGrows(thread[v], n)
      /\ n.claim[m.comment].state = "abandoned"
  <2> HIDE DEF v, m
  <2> QED  BY <1>1, <1>2, AbandonedThread
<1> HIDE DEF n
<1>4. /\ worker' \in [Workers -> Process] /\ worker'[w].pc = "restored"
      /\ \A o \in Workers : o # w => worker'[o] = worker[o]
      /\ worker'[w].v = v /\ worker'[w].marker = m
  BY <1>1, <1>2, GoneTo
<1>5. thread'[v] = n
  BY <1>1, <1>2 DEF TypeOK
<1>6. Knows(w)'
  BY <1>2, <1>3, <1>4, <1>5 DEF Knows, Early, Answering, Approving
<1> QED  BY <1>1, <1>2, <1>3, <1>4, <1>6, ThreadKeeps

\* complete_terminal_resume_abandonment().
LEMMA CompleteAbandonmentKeeps ==
    ASSUME RunInv, NEW w \in Workers, CompleteAbandonment(w)
    PROVE  RunInv'
<1> DEFINE v == worker[w].v
           m == worker[w].marker
           row == [runs[v] EXCEPT !.marker = NoMarker]
<1>1. /\ TypeOK /\ Knows(w) /\ worker[w].pc = "restored" /\ runs[v].state = "needs_input"
      /\ UNCHANGED <<thread, remote, publication, asked, delivery>>
      /\ worker' = [worker EXCEPT ![w] = Idle] /\ abandoned' = abandoned \union {m}
  BY DEF RunInv, CompleteAbandonment, At, complete_terminal_resume_abandonment
<1>2. v \in Versions /\ m \in Markers /\ RowOK(v)
  BY <1>1, WorkerFields DEF Knows, RunInv
<1>3. /\ runs' = [runs EXCEPT ![v] = row] /\ row \in Rows
      /\ row.state = runs[v].state /\ row.approved = runs[v].approved
      /\ row.bound = runs[v].bound
  <2>1. runs' = [runs EXCEPT ![v].marker = NoMarker]
    BY DEF CompleteAbandonment, complete_terminal_resume_abandonment
  <2> HIDE DEF v
  <2> QED  BY <1>1, <1>2, <2>1, MarkerSet
<1> HIDE DEF row
<1>4. /\ worker' \in [Workers -> Process] /\ Knows(w)' /\ delivery' \in Deliveries
      /\ \A o \in Workers : o # w => worker'[o] = worker[o]
      /\ abandoned' \subseteq Markers
  BY <1>1, <1>2, IdleWorker DEF TypeOK, Deliveries
<1>5. /\ row.approved => v \in reviewed /\ pull[v] = "merged"
      /\ row.state # "published" /\ row.state # None /\ runs[v].state # "published"
      /\ thread[v].status # "absent" /\ UNCHANGED <<thread, remote, publication, asked>>
  BY <1>1, <1>2, <1>3 DEF RowOK, None
<1> HIDE DEF v, m
<1> QED  BY <1>2, <1>3, <1>4, <1>5, RowKeeps

\* An operator converts a failed critique, or repeats its notice.
LEMMA ConvertKeeps ==
    ASSUME RunInv, NEW w \in Workers, NEW v \in Versions, NEW c \in Comments,
           convert_failed_critique_to_interrupt(w, v, c)
    PROVE  RunInv'
<1> DEFINE t == thread[v]
           x == [Idle EXCEPT !.pc = "notify", !.event = c, !.v = v, !.response = Response(t)]
<1>1. TypeOK /\ UNCHANGED <<runs, thread, remote, publication, asked, deliveries>> /\ c \in Events
  BY DEF RunInv, convert_failed_critique_to_interrupt, Events
<1>2. CASE Enter(w, "convert", c, v, NoMarker)
  <2>1. "convert" \in Places
    BY DEF Places
  <2> QED  BY <1>1, <1>2, <2>1, EnterKeeps
<1>3. CASE t.interrupt # 0 /\ worker' = [worker EXCEPT ![w] = x]
  <2>1. t \in Threads /\ ThreadOK(t)
    BY <1>1, RowFields DEF RunInv
  <2>2. t.status # "absent"
    BY <1>3, <2>1 DEF ThreadOK
  <2>3. Response(t) \in Responses /\ Response(t).interrupt # 0
    BY <1>3, <2>1, <2>2, ResponseTyped
  <2>4. x \in Process /\ x.pc = "notify" /\ x.response = Response(t)
    <3> HIDE DEF t
    <3> QED  BY <1>1, <2>3 DEF Process, Idle, Places, States
  <2> HIDE DEF x
  <2>5. /\ worker' \in [Workers -> Process] /\ worker'[w] = x
        /\ \A o \in Workers : o # w => worker'[o] = worker[o]
    BY <1>1, <1>3, <2>4 DEF TypeOK, Process
  <2>6. Knows(w)'
    BY <2>3, <2>4, <2>5 DEF Knows, Early, Answering, Approving
  <2>7. delivery' \in Deliveries /\ UNCHANGED abandoned
    BY <1>1 DEF TypeOK, deliveries, Deliveries
  <2> QED  BY <1>1, <2>5, <2>6, <2>7, MoveKeeps
<1> QED  BY <1>2, <1>3 DEF convert_failed_critique_to_interrupt

\* planner.convert().
LEMMA PlannerConvertKeeps ==
    ASSUME RunInv, NEW w \in Workers, PlannerConvert(w)
    PROVE  RunInv'
<1> DEFINE v == worker[w].v
           n == Converted(thread[v])
<1>1. /\ TypeOK /\ Knows(w) /\ worker[w].pc = "convert"
      /\ planner_convert_admits(thread[v], worker[w].event)
      /\ thread' = [thread EXCEPT ![v] = n] /\ Replied(w, "corrected", Response(n))
      /\ UNCHANGED <<runs, remote, publication, asked, deliveries>>
  BY DEF RunInv, PlannerConvert, At
<1>2. /\ v \in Versions /\ worker[w].event \in Comments /\ thread[v] \in Threads
      /\ ThreadOK(thread[v]) /\ "corrected" \in Places
  BY <1>1, WorkerFields, RowFields DEF Knows, RunInv, Places
<1>3. n \in Threads /\ ThreadOK(n) /\ ThreadGrows(thread[v], n) /\ n.interrupt # 0
  <2> HIDE DEF v
  <2> QED  BY <1>1, <1>2, ConvertedThread
<1> HIDE DEF n
<1>4. Response(n) \in Responses /\ Response(n).interrupt # 0
  BY <1>3, ResponseTyped DEF ThreadGrows
<1>5. /\ worker' \in [Workers -> Process] /\ worker'[w].pc = "corrected"
      /\ \A o \in Workers : o # w => worker'[o] = worker[o]
      /\ worker'[w].v = v /\ worker'[w].event = worker[w].event
      /\ worker'[w].response = Response(n)
  BY <1>1, <1>2, <1>4, RepliedTo
<1>6. Knows(w)'
  BY <1>2, <1>4, <1>5 DEF Knows, Early, Answering, Approving
<1> QED  BY <1>1, <1>2, <1>3, <1>5, <1>6, ThreadKeeps

\* complete_critique_correction().
LEMMA CompleteCorrectionKeeps ==
    ASSUME RunInv, NEW w \in Workers, CompleteCorrection(w)
    PROVE  RunInv'
<1> DEFINE v == worker[w].v
           new == "needs_input"
           row == [runs[v] EXCEPT !.state = new]
<1>1. /\ TypeOK /\ Knows(w) /\ worker[w].pc = "corrected" /\ runs[v].state = "failed"
      /\ UNCHANGED <<thread, remote, publication, asked, deliveries>> /\ Goto(w, "notify")
  BY DEF RunInv, CompleteCorrection, At, complete_critique_correction
<1>2. v \in Versions /\ RowOK(v) /\ worker[w].response.interrupt # 0 /\ "notify" \in Places
  BY <1>1, WorkerFields DEF Knows, RunInv, Places
<1>3. /\ runs' = [runs EXCEPT ![v] = row] /\ row \in Rows /\ row.state = new
      /\ row.approved = runs[v].approved /\ row.bound = runs[v].bound
  <2>1. new \in States
    BY DEF States
  <2>2. runs' = [runs EXCEPT ![v].state = new]
    BY DEF CompleteCorrection, complete_critique_correction
  <2> HIDE DEF new, v
  <2> QED  BY <1>1, <1>2, <2>1, <2>2, StateSet
<1> HIDE DEF row
<1>4. /\ worker' \in [Workers -> Process] /\ worker'[w].pc = "notify"
      /\ \A o \in Workers : o # w => worker'[o] = worker[o]
      /\ worker'[w].response = worker[w].response
  BY <1>1, <1>2, GoneTo
<1>5. Knows(w)'
  BY <1>2, <1>4 DEF Knows, Early, Answering, Approving
<1>6. /\ row.approved => v \in reviewed /\ pull[v] = "merged"
      /\ row.state # "published" /\ row.state # None /\ runs[v].state # "published"
      /\ thread[v].status # "absent" /\ UNCHANGED <<thread, remote, publication, asked>>
      /\ delivery' \in Deliveries /\ abandoned' \subseteq Markers
  BY <1>1, <1>2, <1>3 DEF RowOK, None, TypeOK, deliveries, Deliveries
<1> HIDE DEF v, new
<1> QED  BY <1>2, <1>3, <1>4, <1>5, <1>6, RowKeeps

\* The notice of a correction.
LEMMA NotifyKeeps ==
    ASSUME RunInv, NEW w \in Workers, _ensure_interrupt_side_effects(w)
    PROVE  RunInv'
<1> DEFINE v == worker[w].v
           i == worker[w].response.interrupt
<1>1. /\ TypeOK /\ Knows(w) /\ worker[w].pc = "notify" /\ asked' = asked \union {<<v, i>>}
      /\ worker' = [worker EXCEPT ![w] = Idle]
      /\ UNCHANGED <<runs, thread, remote, publication, deliveries>>
  BY DEF RunInv, _ensure_interrupt_side_effects, At
<1>2. v \in Versions /\ i \in 1 .. MaxInterrupt
  BY <1>1, WorkerFields, LifecycleAssumption DEF Knows, Responses
<1>3. asked' \subseteq Versions \X (1 .. MaxInterrupt)
  <2> HIDE DEF v, i
  <2> QED  BY <1>1, <1>2 DEF TypeOK
<1>4. /\ worker' \in [Workers -> Process] /\ Knows(w)'
      /\ \A o \in Workers : o # w => worker'[o] = worker[o]
  BY <1>1, IdleWorker
<1>5. /\ journal' \in Journals /\ fence' \in Workers \union {None} /\ UNCHANGED applied
      /\ abandoned' \subseteq Markers /\ delivery' \in Deliveries
  BY <1>1 DEF TypeOK, Journals, publication, deliveries, Deliveries
<1> QED  BY <1>1, <1>3, <1>4, <1>5, WorkerKeeps

\* A handler that failed.
LEMMA FailKeeps ==
    ASSUME RunInv, NEW w \in Workers, Retry(w) \/ DeadLetter(w)
    PROVE  RunInv'
<1>1. /\ TypeOK /\ worker' = [worker EXCEPT ![w] = Idle]
      /\ fence' = (IF fence = w THEN None ELSE fence)
      /\ UNCHANGED <<runs, thread, remote, journal, applied, asked, abandoned>>
  BY DEF RunInv, Retry, DeadLetter, Fail
<1>2. /\ worker' \in [Workers -> Process] /\ Knows(w)'
      /\ \A o \in Workers : o # w => worker'[o] = worker[o]
  BY <1>1, IdleWorker
<1>3. /\ journal' \in Journals /\ fence' \in Workers \union {None}
      /\ asked' \subseteq Versions \X (1 .. MaxInterrupt) /\ abandoned' \subseteq Markers
  BY <1>1 DEF TypeOK, Journals
<1>4. delivery' \in Deliveries
  BY <1>1 DEF TypeOK, Retry, DeadLetter, Deliveries
<1> QED  BY <1>1, <1>2, <1>3, <1>4, WorkerKeeps

\* Somebody merges.
LEMMA MergeKeeps ==
    ASSUME RunInv, NEW v \in Versions, Merge(v)
    PROVE  RunInv'
<1>1. /\ TypeOK /\ pull' = [pull EXCEPT ![v] = "merged"]
      /\ reviewed \subseteq reviewed' /\ reviewed' \subseteq Versions
      /\ UNCHANGED <<runs, thread, journal, applied, fence, asked, delivery, abandoned, worker>>
  <2>1. PICK R \in {{}, {v}} : reviewed' = reviewed \union R
    BY DEF Merge
  <2> QED  BY <2>1 DEF RunInv, Merge, TypeOK, publication, deliveries
<1>2. /\ pull' \in [Versions -> {None, "open", "merged"}]
      /\ \A u \in Versions : pull[u] = "merged" => pull'[u] = "merged"
  BY <1>1 DEF TypeOK
<1>3. TypeOK'
  BY <1>1, <1>2 DEF TypeOK
<1>4. Grows
  BY <1>1, <1>2 DEF Grows
<1>5. \A u \in Versions : ThreadOK(thread'[u]) /\ RowOK(u)'
  BY <1>1, <1>2 DEF RunInv, RowOK
<1>6. Latest(Begun)' /\ Latest(PublishedVersions)'
  BY <1>1 DEF RunInv, Latest, Begun, PublishedVersions
<1> QED  BY <1>1, <1>3, <1>4, <1>5, <1>6, RunFrame

\* The invariant is inductive.
LEMMA RunStep ==
    ASSUME RunInv, [Next]_vars
    PROVE  RunInv'
<1>1. ASSUME NEW w \in Workers, Handle(w)
      PROVE  RunInv'
  BY <1>1, WorkPackageKeeps, ReplanKeeps, PlanningInputKeeps, PullRequestKeeps, ReconcileKeeps
     DEF Handle
<1>2. ASSUME NEW w \in Workers, Step(w)
      PROVE  RunInv'
  BY <1>2, BeginKeeps, NeedsRepositoryKeeps, PlannerStartKeeps, PlannerGetKeeps,
     ReadInterruptKeeps, RecordPendingResumeKeeps, PlannerResumeKeeps, HandleResponseKeeps,
     SettleResponseKeeps, EnsurePullRequestKeeps, RecordPullRequestKeeps,
     ClearPendingResumeKeeps, ApproveKeeps, BindArtifactKeeps, OpenJournalKeeps, PublishKeeps,
     RecordOutcomeKeeps, PlannerAbandonKeeps, CompleteAbandonmentKeeps, PlannerConvertKeeps,
     CompleteCorrectionKeeps, NotifyKeeps DEF Step
<1>3. ASSUME NEW w \in Workers, Correct(w)
      PROVE  RunInv'
  BY <1>3, AbandonKeeps, ConvertKeeps DEF Correct
<1>4. CASE UNCHANGED vars
  <2>1. UNCHANGED <<runs, thread, pull, reviewed, journal, applied, fence, asked, delivery,
                    abandoned, worker>>
    BY <1>4 DEF vars, remote, publication, deliveries
  <2>2. TypeOK' /\ Grows /\ (\A o \in Workers : worker'[o] = worker[o])
    BY <2>1 DEF RunInv, TypeOK, Grows
  <2>3. \A u \in Versions : ThreadOK(thread'[u]) /\ RowOK(u)'
    BY <2>1 DEF RunInv, RowOK
  <2>4. Latest(Begun)' /\ Latest(PublishedVersions)'
    BY <2>1 DEF RunInv, Latest, Begun, PublishedVersions
  <2> QED  BY <2>2, <2>3, <2>4, RunFrame
<1> QED  BY <1>1, <1>2, <1>3, <1>4, FailKeeps, MergeKeeps DEF Next

-----------------------------------------------------------------------------
(* The initial states.                                                     *)

\* A thread that does not exist yet.
LEMMA NoThreadOK == ThreadOK(NoThread)
<1>1. Start \in Keys /\ \A c \in Comments : c \in Keys
  BY DEF Keys
<1> QED  BY <1>1, NothingTyped DEF ThreadOK, None

\* The thread of an earlier release that took an answer and failed.
LEMMA ExhaustedOK ==
    ASSUME NEW c \in Comments, MaxInterrupt > 0
    PROVE  Exhausted(c) \in Threads /\ ThreadOK(Exhausted(c)) /\ Exhausted(c).status = "failed"
<1> DEFINE a == [state |-> "completed", interrupt |-> 1,
                 response |-> [status |-> "failed", interrupt |-> 0]]
           b == [state |-> "completed", interrupt |-> 0,
                 response |-> [status |-> "needs_input", interrupt |-> 1]]
           f == [k \in Keys |-> IF k = c THEN a ELSE IF k = Start THEN b ELSE NoClaim]
           n == [NoThread EXCEPT !.status = "failed", !.raised = 1, !.consumed = c, !.claim = f]
<1>1. /\ Start \in Keys /\ c \in Keys /\ c # Start /\ c # None /\ 0 \in 0 .. MaxInterrupt
      /\ 1 \in 0 .. MaxInterrupt /\ \A k \in Comments : k # Start /\ k \in Keys
  BY LifecycleAssumption DEF Keys, Events
<1>2. /\ a \in Claims /\ a.state = "completed" /\ a.response.status = "failed"
      /\ a.response.interrupt = 0
  BY <1>1 DEF Claims, Responses
<1>3. /\ b \in Claims /\ b.state = "completed" /\ b.response.status = "needs_input"
      /\ b.response.interrupt = 1
  BY <1>1 DEF Claims, Responses
<1>4. Exhausted(c) = n
  BY DEF Exhausted
<1> HIDE DEF a, b
<1>5. /\ f \in [Keys -> Claims] /\ f[c] = a /\ f[Start] = b
      /\ \A k \in Keys : k \notin {c, Start} => f[k] = NoClaim
  BY <1>1, <1>2, <1>3, NothingTyped
<1> HIDE DEF f
<1>6. /\ n \in Threads /\ n.status = "failed" /\ n.interrupt = 0 /\ n.raised = 1 /\ n.consumed = c
      /\ n.claim = f
  BY <1>1, <1>5 DEF NoThread, Threads
<1> HIDE DEF n
<1>7. \A k \in Keys :
        /\ n.claim[k].state # "completed" => n.claim[k].response = NoResponse
        /\ n.claim[k].state = "completed" =>
             /\ n.claim[k].response.status # None
             /\ Names(n.claim[k].response)
             /\ n.claim[k].response.interrupt <= n.raised
  BY <1>2, <1>3, <1>5, <1>6, NothingTyped DEF Names, None
<1>8. ThreadOK(n)
  BY <1>1, <1>2, <1>3, <1>5, <1>6, <1>7 DEF ThreadOK, None
<1> QED  BY <1>4, <1>6, <1>8

\* A thread that a start request brought to its end.
LEMMA EndedOK ==
    ASSUME NEW s \in {"artifacts_ready", "failed"}
    PROVE  LET n == Completed([NoThread EXCEPT !.status = s], Start, 0)
           IN  /\ n \in Threads /\ ThreadOK(n) /\ n.status = s
               /\ \A c \in Comments : n.claim[c] = NoClaim
<1> DEFINE t == [NoThread EXCEPT !.status = s]
           n == Completed(t, Start, 0)
<1>1. Start \in Keys /\ 0 \in 0 .. MaxInterrupt /\ \A c \in Comments : c # Start /\ c \in Keys
  BY LifecycleAssumption DEF Keys
<1>2. /\ t \in Threads /\ t.status = s /\ t.interrupt = 0 /\ t.raised = 0 /\ t.consumed = None
      /\ \A k \in Keys : t.claim[k] = NoClaim
  BY <1>1, NothingTyped DEF NoThread, Threads
<1> HIDE DEF t
<1>3. /\ n \in Threads /\ n.status = t.status /\ n.interrupt = t.interrupt
      /\ n.raised = t.raised /\ n.consumed = t.consumed
      /\ n.claim[Start].state = "completed" /\ n.claim[Start].response = Response(t)
      /\ \A j \in Keys : j # Start => n.claim[j] = t.claim[j]
  BY <1>1, <1>2, CompletedThread
<1> HIDE DEF n
<1>4. Response(t).status = s /\ Response(t).interrupt = 0
  BY <1>2, ResponseTyped
<1>5. \A k \in Keys :
        /\ n.claim[k].state # "completed" => n.claim[k].response = NoResponse
        /\ n.claim[k].state = "completed" =>
             /\ n.claim[k].response.status # None
             /\ Names(n.claim[k].response)
             /\ n.claim[k].response.interrupt <= n.raised
  BY <1>2, <1>3, <1>4, NothingTyped DEF Names, None
<1>6. ThreadOK(n)
  BY <1>1, <1>2, <1>3, <1>4, <1>5, NothingTyped DEF ThreadOK, None
<1> QED  BY <1>1, <1>2, <1>3, <1>6 DEF n, t

\* What the initial states share.
LEMMA InitFrame ==
    ASSUME runs \in [Versions -> Rows], thread \in [Versions -> Threads],
           pull \in [Versions -> {None, "open", "merged"}], reviewed \subseteq Versions,
           journal \in Journals, applied \in [Versions -> {"nothing", "part", "all"}],
           fence = None, asked \subseteq Versions \X (1 .. MaxInterrupt), delivery \in Deliveries,
           abandoned = {}, worker = [w \in Workers |-> Idle],
           \A v \in Versions : ThreadOK(thread[v]) /\ RowOK(v),
           Latest(Begun), Latest(PublishedVersions)
    PROVE  RunInv
<1>1. Idle \in Process /\ Idle.pc = "idle"
  BY NothingTyped, LifecycleAssumption DEF Idle, Process, Places, Versions, States
<1>2. worker \in [Workers -> Process] /\ \A w \in Workers : worker[w].pc = "idle"
  BY <1>1
<1>3. TypeOK
  BY <1>2 DEF TypeOK, Process, Deliveries, Journals
<1>4. \A w \in Workers : Knows(w)
  BY <1>2 DEF Knows, Early, Answering, Approving
<1> QED  BY <1>3, <1>4 DEF RunInv

\* The first and the second version.
LEMMA FirstVersions == 1 \in Versions /\ (MaxVersion > 2 => 2 \in Versions)
BY LifecycleAssumption DEF Versions

\* The invariant holds initially.
LEMMA RunInit ==
    ASSUME Init
    PROVE  RunInv
<1>1. fence = None /\ abandoned = {} /\ worker = [w \in Workers |-> Idle]
  BY DEF Init
<1>2. PICK A \in Arrivals :
        \/ Fresh(A)
        \/ \E e \in Changes, c \in Comments \intersect A : LegacyAnswer(A, e, c)
        \/ \E e \in Changes, m \in Merges, r \in Replans \intersect A : LegacyReplan(A, e, m, r)
  BY DEF Init
<1>3. CASE Fresh(A)
  <2>1. \A v \in Versions : runs[v] = NoRun /\ thread[v] = NoThread
    BY <1>3 DEF Fresh
  <2>2. runs \in [Versions -> Rows] /\ thread \in [Versions -> Threads]
    BY <1>3, NothingTyped DEF Fresh
  <2>3. \A v \in Versions : ThreadOK(thread[v]) /\ RowOK(v)
    BY <2>1, NoThreadOK, NothingTyped DEF RowOK, None
  <2>4. Latest(Begun) /\ Latest(PublishedVersions)
    BY <2>1, NothingTyped DEF Latest, Begun, PublishedVersions, None
  <2>5. /\ pull \in [Versions -> {None, "open", "merged"}] /\ reviewed \subseteq Versions
        /\ journal \in Journals /\ applied \in [Versions -> {"nothing", "part", "all"}]
        /\ asked \subseteq Versions \X (1 .. MaxInterrupt) /\ delivery \in Deliveries
    BY <1>3 DEF Fresh, Journals, Deliveries
  <2> QED  BY <1>1, <2>2, <2>3, <2>4, <2>5, InitFrame
<1>4. ASSUME NEW e \in Changes, NEW c \in Comments, LegacyAnswer(A, e, c)
      PROVE  RunInv
  <2> DEFINE row == [NoRun EXCEPT !.state = "needs_input", !.request = e]
  <2>1. /\ row \in Rows /\ row.state = "needs_input" /\ ~row.approved
    BY NothingTyped DEF NoRun, Rows, States
  <2>2. /\ runs = [v \in Versions |-> IF v = 1 THEN row ELSE NoRun]
        /\ thread = [v \in Versions |-> IF v = 1 THEN Exhausted(c) ELSE NoThread]
        /\ MaxInterrupt > 0 /\ asked = {<<1, 1>>}
    BY <1>4 DEF LegacyAnswer
  <2> HIDE DEF row
  <2>3. /\ runs[1] = row /\ thread[1] = Exhausted(c)
        /\ \A v \in Versions : v # 1 => runs[v] = NoRun /\ thread[v] = NoThread
    BY <2>2, FirstVersions
  <2>4. Exhausted(c) \in Threads /\ ThreadOK(Exhausted(c)) /\ Exhausted(c).status = "failed"
    BY <1>4, <2>2, ExhaustedOK
  <2>5. runs \in [Versions -> Rows] /\ thread \in [Versions -> Threads]
    BY <2>1, <2>2, <2>4, NothingTyped
  <2>6. \A v \in Versions : ThreadOK(thread[v]) /\ RowOK(v)
    <3> SUFFICES ASSUME NEW v \in Versions PROVE ThreadOK(thread[v]) /\ RowOK(v)
      OBVIOUS
    <3>1. CASE v = 1
      BY <2>1, <2>3, <2>4, <3>1 DEF RowOK, None
    <3>2. CASE v # 1
      BY <2>3, <3>2, NoThreadOK, NothingTyped DEF RowOK, None
    <3> QED  BY <3>1, <3>2
  <2>7. Latest(Begun) /\ Latest(PublishedVersions)
    <3>1. Begun = {1} /\ PublishedVersions = {}
      BY <2>1, <2>3, FirstVersions, NothingTyped DEF Begun, PublishedVersions, None
    <3> QED  BY <3>1 DEF Latest
  <2>8. /\ pull \in [Versions -> {None, "open", "merged"}] /\ reviewed \subseteq Versions
        /\ journal \in Journals /\ applied \in [Versions -> {"nothing", "part", "all"}]
        /\ delivery \in Deliveries
    BY <1>4 DEF LegacyAnswer, Journals, Deliveries
  <2>9. asked \subseteq Versions \X (1 .. MaxInterrupt)
    BY <2>2, FirstVersions, LifecycleAssumption
  <2> QED  BY <1>1, <2>5, <2>6, <2>7, <2>8, <2>9, InitFrame
<1>5. ASSUME NEW e \in Changes, NEW m \in Merges, NEW r \in Replans, LegacyReplan(A, e, m, r)
      PROVE  RunInv
  <2> DEFINE one == [NoRun EXCEPT !.state = "published", !.request = e, !.pull = TRUE,
                                  !.approved = TRUE, !.bound = TRUE]
             two == [NoRun EXCEPT !.state = "failed", !.request = r]
             t == Completed([NoThread EXCEPT !.status = "artifacts_ready"], Start, 0)
             u == Completed([NoThread EXCEPT !.status = "failed"], Start, 0)
  <2>1. /\ one \in Rows /\ one.state = "published" /\ one.approved /\ one.bound
        /\ two \in Rows /\ two.state = "failed" /\ ~two.approved
    BY NothingTyped DEF NoRun, Rows, States
  <2>2. /\ t \in Threads /\ ThreadOK(t) /\ t.status = "artifacts_ready"
        /\ u \in Threads /\ ThreadOK(u) /\ u.status = "failed"
    BY EndedOK
  <2>3. /\ runs = [v \in Versions |-> CASE v = 1 -> one [] v = 2 -> two [] OTHER -> NoRun]
        /\ thread = [v \in Versions |-> CASE v = 1 -> t [] v = 2 -> u [] OTHER -> NoThread]
        /\ MaxVersion > 2 /\ asked = {} /\ reviewed = {1}
        /\ pull = [v \in Versions |-> IF v = 1 THEN "merged" ELSE None]
        /\ applied = [v \in Versions |-> IF v = 1 THEN "all" ELSE "nothing"]
    BY <1>5 DEF LegacyReplan
  <2> HIDE DEF one, two, t, u
  <2>4. /\ 1 \in Versions /\ 2 \in Versions
        /\ runs[1] = one /\ runs[2] = two /\ thread[1] = t /\ thread[2] = u
        /\ pull[1] = "merged" /\ applied[1] = "all"
        /\ \A v \in Versions : v \notin {1, 2} => runs[v] = NoRun /\ thread[v] = NoThread
    BY <2>3, FirstVersions
  <2>5. runs \in [Versions -> Rows] /\ thread \in [Versions -> Threads]
    BY <2>1, <2>2, <2>3, NothingTyped
  <2>6. \A v \in Versions : ThreadOK(thread[v]) /\ RowOK(v)
    <3> SUFFICES ASSUME NEW v \in Versions PROVE ThreadOK(thread[v]) /\ RowOK(v)
      OBVIOUS
    <3>1. CASE v = 1
      BY <2>1, <2>2, <2>3, <2>4, <3>1 DEF RowOK, None
    <3>2. CASE v = 2
      BY <2>1, <2>2, <2>4, <3>2 DEF RowOK, None
    <3>3. CASE v \notin {1, 2}
      BY <2>4, <3>3, NoThreadOK, NothingTyped DEF RowOK, None
    <3> QED  BY <3>1, <3>2, <3>3
  <2>7. Latest(Begun) /\ Latest(PublishedVersions)
    <3>1. Begun = {1, 2} /\ PublishedVersions = {1}
      BY <2>1, <2>4, NothingTyped DEF Begun, PublishedVersions, None
    <3> QED  BY <3>1 DEF Latest
  <2>8. /\ journal \in Journals /\ delivery \in Deliveries
    BY <1>5 DEF LegacyReplan, Journals, Deliveries
  <2>9. /\ pull \in [Versions -> {None, "open", "merged"}] /\ reviewed \subseteq Versions
        /\ applied \in [Versions -> {"nothing", "part", "all"}]
        /\ asked \subseteq Versions \X (1 .. MaxInterrupt)
    BY <2>3, <2>4
  <2> QED  BY <1>1, <2>5, <2>6, <2>7, <2>8, <2>9, InitFrame
<1> QED  BY <1>2, <1>3, <1>4, <1>5

\* The invariant holds of every state.
LEMMA RunAlways == Spec => []RunInv
<1>1. Init => RunInv
  BY RunInit
<1>2. RunInv /\ [Next]_vars => RunInv'
  BY RunStep
<1> QED  BY <1>1, <1>2, PTL DEF Spec

-----------------------------------------------------------------------------
(* The theorems.                                                           *)

\* Rows, threads, markers and workers keep their types: for one, a marker names
\* an interrupt that was raised (ReadInterrupt reads it from the thread).
THEOREM RunTypeCorrect == Spec => []TypeOK
<1>1. RunInv => TypeOK
  BY DEF RunInv
<1> QED  BY <1>1, RunAlways, PTL

\* A version is published only with its approval and its binding, reviewed,
\* merged, and with all of its operations in OpenProject, whatever workers
\* publish, block and retry at the same time (_pull_request).
THEOREM PublishedEarnedAlways == Spec => []PublishedEarned
<1>1. RunInv => PublishedEarned
  BY DEF RunInv, RowOK, PublishedEarned
<1> QED  BY <1>1, RunAlways, PTL

-----------------------------------------------------------------------------
(* The markers.                                                            *)

\* The operations of the store that write a row and leave its marker alone.
LEMMA MarkersStay ==
    ASSUME TypeOK, NEW v \in Versions, NEW s, NEW u \in Versions,
           \/ runs' = [runs EXCEPT ![v].state = s]
           \/ runs' = [runs EXCEPT ![v].state = s, ![v].pull = TRUE]
           \/ runs' = [runs EXCEPT ![v].state = s, ![v].approved = TRUE]
           \/ runs' = [runs EXCEPT ![v].approved = TRUE, ![v].bound = TRUE]
    PROVE  runs'[u].marker = runs[u].marker
<1>1. runs \in [Versions -> Rows] /\ runs[v] \in Rows
  BY DEF TypeOK
<1> QED  BY <1>1 DEF Rows

\* The steps that leave the rows alone, or their markers.
LEMMA MarkerSteps ==
    ASSUME RunInv, [Next]_vars, NEW u \in Versions, runs'[u].marker # runs[u].marker
    PROVE  \E w \in Workers : \/ Begin(w) \/ RecordPendingResume(w)
                              \/ ClearPendingResume(w) \/ CompleteAbandonment(w)
<1>1. TypeOK /\ runs' # runs /\ \A w \in Workers : worker[w].v \in Versions
  BY WorkerFields DEF RunInv
<1>2. ASSUME NEW w \in Workers, Handle(w) PROVE FALSE
  BY <1>1, <1>2 DEF Handle, _work_package_changed, _replan_affected_subgraph, _planning_input,
                    _pull_request, _reconcile
<1>3. ASSUME NEW w \in Workers, Correct(w) \/ Retry(w) \/ DeadLetter(w) PROVE FALSE
  BY <1>1, <1>3 DEF Correct, abandon_terminal_resume, convert_failed_critique_to_interrupt,
                    Retry, DeadLetter, Fail
<1>4. ASSUME NEW v \in Versions, Merge(v) PROVE FALSE
  BY <1>1, <1>4 DEF Merge
<1>5. CASE UNCHANGED vars
  BY <1>1, <1>5 DEF vars
<1>6. ASSUME NEW w \in Workers, Step(w),
             ~(Begin(w) \/ RecordPendingResume(w) \/ ClearPendingResume(w) \/ CompleteAbandonment(w))
      PROVE  FALSE
  <2>1. worker[w].v \in Versions
    BY <1>1
  <2>2. CASE SettleResponse(w) \/ RecordPublished(w) \/ RecordBlocked(w) \/ CompleteCorrection(w)
    <3>1. \E s : runs' = [runs EXCEPT ![worker[w].v].state = s]
      BY <2>2 DEF SettleResponse, RecordPublished, RecordBlocked, CompleteCorrection, set_state,
                  complete_critique_correction
    <3> QED  BY <1>1, <2>1, <3>1, MarkersStay
  <2>3. CASE RecordPullRequest(w)
    <3>1. runs' = [runs EXCEPT ![worker[w].v].state = "pr_open", ![worker[w].v].pull = TRUE]
      BY <2>3 DEF RecordPullRequest, record_pull_request
    <3> QED  BY <1>1, <2>1, <3>1, MarkersStay
  <2>4. CASE Approve(w)
    <3>1. runs' = [runs EXCEPT ![worker[w].v].state = "publishing", ![worker[w].v].approved = TRUE]
      BY <2>4 DEF Approve, approve_for_publication
    <3> QED  BY <1>1, <2>1, <3>1, MarkersStay
  <2>5. CASE BindArtifact(w)
    <3>1. runs' = [runs EXCEPT ![worker[w].v].approved = TRUE, ![worker[w].v].bound = TRUE]
      BY <2>5 DEF BindArtifact, record_publication_binding
    <3> QED  BY <1>1, <2>1, <3>1, MarkersStay
  <2>6. CASE \/ NeedsRepository(w) \/ PlannerStart(w) \/ PlannerGet(w) \/ ReadInterrupt(w)
             \/ PlannerResume(w) \/ HandleResponse(w) \/ EnsurePullRequest(w) \/ OpenJournal(w)
             \/ Publish(w) \/ PlannerAbandon(w) \/ PlannerConvert(w)
             \/ _ensure_interrupt_side_effects(w)
    BY <1>1, <2>6 DEF NeedsRepository, PlannerStart, PlannerGet, ReadInterrupt, PlannerResume,
         HandleResponse, EnsurePullRequest, OpenJournal, Publish, PlannerAbandon, PlannerConvert,
         _ensure_interrupt_side_effects
  <2> QED  BY <1>6, <2>2, <2>3, <2>4, <2>5, <2>6 DEF Step
<1> QED  BY <1>2, <1>3, <1>4, <1>5, <1>6 DEF Next

\* A marker that goes is the marker of a claim that is settled.
LEMMA MarkerSettled ==
    ASSUME RunInv, [Next]_vars, NEW u \in Versions, runs[u].marker # NoMarker,
           runs'[u].marker # runs[u].marker
    PROVE  thread[u].claim[runs[u].marker.comment].state \in {"completed", "abandoned"}
<1>1. PICK w \in Workers : \/ Begin(w) \/ RecordPendingResume(w)
                           \/ ClearPendingResume(w) \/ CompleteAbandonment(w)
  BY MarkerSteps
<1> DEFINE v == worker[w].v
           m == worker[w].marker
<1>2. TypeOK /\ Knows(w) /\ v \in Versions /\ m \in Markers \union {NoMarker} /\ RowOK(u)
  BY WorkerFields DEF RunInv
<1>3. runs \in [Versions -> Rows]
  BY <1>2 DEF TypeOK
<1>4. CASE Begin(w)
  <2>1. runs[v].state = None /\ \A x \in Versions : x # v => runs'[x] = runs[x]
    BY <1>2, <1>3, <1>4 DEF Begin, begin
  <2>2. u = v /\ runs[u] = NoRun
    BY <1>2, <2>1 DEF RowOK
  <2> QED  BY <2>2, NothingTyped
<1>5. ASSUME NEW n \in {m, NoMarker}, runs' = [runs EXCEPT ![v].marker = n]
      PROVE  u = v
  <2>1. n \in Markers \union {NoMarker}
    BY <1>2, <1>5
  <2> HIDE DEF v, m
  <2> QED  BY <1>2, <1>5, <2>1, MarkerSet
<1>6. CASE RecordPendingResume(w)
  <2>1. runs' = [runs EXCEPT ![v].marker = m] /\ runs[v].marker \in {NoMarker, m}
    BY <1>6 DEF RecordPendingResume, record_pending_resume
  <2>2. u = v /\ runs[u].marker = m
    BY <1>5, <2>1
  <2>3. runs'[v].marker = m
    <3> HIDE DEF v, m
    <3> QED  BY <1>2, <2>1, MarkerSet
  <2> QED  BY <2>2, <2>3
<1>7. CASE ClearPendingResume(w)
  <2>1. /\ runs' = [runs EXCEPT ![v].marker = NoMarker] /\ runs[v].marker \in {NoMarker, m}
        /\ worker[w].pc = "clear"
    BY <1>7 DEF ClearPendingResume, clear_pending_resume, At
  <2>2. u = v /\ runs[u].marker = m /\ m # NoMarker
    BY <1>5, <2>1
  <2>3. thread[v].claim[m.comment].state = "completed"
    BY <1>2, <2>1, <2>2 DEF Knows, Answering
  <2> QED  BY <2>2, <2>3
<1>8. CASE CompleteAbandonment(w)
  <2>1. /\ runs' = [runs EXCEPT ![v].marker = NoMarker] /\ runs[v].marker \in {NoMarker, m}
        /\ worker[w].pc = "restored"
    BY <1>8 DEF CompleteAbandonment, complete_terminal_resume_abandonment, At
  <2>2. u = v /\ runs[u].marker = m
    BY <1>5, <2>1
  <2>3. thread[v].claim[m.comment].state = "abandoned"
    BY <1>2, <2>1 DEF Knows
  <2> QED  BY <2>2, <2>3
<1> QED  BY <1>1, <1>4, <1>6, <1>7, <1>8

\* An answer that was recorded is not forgotten: its marker is cleared only after
\* the planner completed the request, or after an operator's tombstone, although
\* a worker clears with what it read several calls ago (_planning_input,
\* clear_pending_resume).
THEOREM AnswerKeptAlways == Spec => AnswerKept
<1> DEFINE A == \A v \in Versions :
                   LET c == runs[v].marker.comment
                   IN  runs[v].marker # NoMarker /\ runs'[v].marker # runs[v].marker =>
                         thread[v].claim[c].state \in {"completed", "abandoned"}
<1>1. RunInv /\ [Next]_vars => [A]_vars
  BY MarkerSettled
<1>2. RunInv /\ [][Next]_vars /\ []RunInv => [][A]_vars
  BY <1>1, PTL
<1> QED  BY <1>2, RunAlways, PTL DEF Spec, AnswerKept
=============================================================================
