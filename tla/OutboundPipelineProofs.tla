---------------------- MODULE OutboundPipelineProofs ----------------------
(***************************************************************************)
(* Type correctness of OutboundPipeline and its three safety invariants,    *)
(* for any numbers of posts, destinations, jobs, attempts and faults.       *)
(***************************************************************************)
EXTENDS OutboundPipeline, TLAPS

\* Only a job that has failed for good has used all its attempts.
PostsOK ==
    /\ post \in [Post -> PostState]
    /\ \A p \in Post : post[p].phase # "failed" => post[p].tries < Attempts
JobsOK ==
    /\ job \in [Job -> SendJob \cup {None}]
    /\ \A j \in Jobs : job[j].phase # "failed" => job[j].tries < Attempts
KeysOK ==
    /\ claimed \in [Content -> Post \cup {None}]
    /\ dedup \subseteq Post \X Destination
    /\ lapsed \subseteq Content
RestOK ==
    /\ stalled \subseteq Post \cup Job
    /\ connected \in BOOLEAN
    /\ faults \in 0..MaxFaults
QuotaOK ==
    /\ due \in BOOLEAN
    /\ used \in Nat /\ resets \in Nat /\ today \in Nat
    /\ days \in 0..MaxDays

TypeInv == PostsOK /\ JobsOK /\ KeysOK /\ RestOK /\ QuotaOK

---------------------------------------------------------------------------
(* What the steps do to a post and to a job.                               *)

LEMMA JobTyped ==
    ASSUME JobsOK, NEW j \in Jobs
    PROVE  job[j] \in SendJob /\ j \in Job
BY DEF JobsOK, Jobs

LEMMA PostChange ==
    ASSUME PostsOK, NEW p \in Post, NEW r \in PostState,
           r.phase # "failed" => r.tries < Attempts,
           post' = [post EXCEPT ![p] = r]
    PROVE  PostsOK'
BY DEF PostsOK

LEMMA JobChange ==
    ASSUME JobsOK, NEW j \in Job, NEW r \in SendJob,
           r.phase # "failed" => r.tries < Attempts,
           job' = [job EXCEPT ![j] = r]
    PROVE  JobsOK'
BY DEF JobsOK, Jobs

LEMMA PostMoves ==
    ASSUME PostsOK, NEW p \in Post, post[p].phase # "failed",
           NEW phase \in {"queued"} \cup PostBusy \cup PostEnded, PostGoesTo(p, phase)
    PROVE  PostsOK'
<1> DEFINE r == [post[p] EXCEPT !.phase = phase]
<1>1. post[p] \in PostState /\ post[p].tries < Attempts
  BY DEF PostsOK
<1>2. r \in PostState /\ r.tries < Attempts
  BY <1>1 DEF PostState
<1>3. post' = [post EXCEPT ![p] = r]
  BY DEF PostGoesTo
<1> QED BY <1>2, <1>3, PostChange

LEMMA JobMoves ==
    ASSUME JobsOK, NEW j \in Jobs, job[j].phase # "failed",
           NEW phase \in {"waiting"} \cup JobBusy \cup JobEnded, JobGoesTo(j, phase)
    PROVE  JobsOK'
<1> DEFINE r == [job[j] EXCEPT !.phase = phase]
<1>1. job[j] \in SendJob /\ j \in Job /\ job[j].tries < Attempts
  BY JobTyped DEF JobsOK
<1>2. r \in SendJob /\ r.tries < Attempts
  BY <1>1 DEF SendJob
<1>3. job' = [job EXCEPT ![j] = r]
  BY DEF JobGoesTo
<1> QED BY <1>1, <1>2, <1>3, JobChange

\* A job with the fields that Retry changes.
Ended(r, phase, n, m) == [r EXCEPT !.phase = phase, !.tries = n, !.copy = 0, !.delivered = m]

LEMMA FourFields ==
    ASSUME NEW r \in SendJob, NEW phase \in {"waiting", "failed"}, NEW n \in 0..Attempts,
           NEW m \in Nat
    PROVE  /\ Ended(r, phase, n, m) \in SendJob
           /\ Ended(r, phase, n, m).tries = n
           /\ Ended(r, phase, n, m).post = r.post /\ Ended(r, phase, n, m).dest = r.dest
           /\ Ended(r, phase, n, m).delivered = m /\ Ended(r, phase, n, m).phase = phase
<1>1. [r EXCEPT !.phase = phase] \in SendJob
  BY DEF SendJob, JobEnded
<1> DEFINE q == [r EXCEPT !.phase = phase]
<1>2. [q EXCEPT !.tries = n] \in SendJob
  BY <1>1 DEF SendJob
<1> DEFINE s == [q EXCEPT !.tries = n]
<1> HIDE DEF q
<1>3. [s EXCEPT !.copy = 0] \in SendJob
  BY <1>2 DEF SendJob
<1> DEFINE t == [s EXCEPT !.copy = 0]
<1> HIDE DEF s
<1>4. [t EXCEPT !.delivered = m] \in SendJob
  BY <1>3 DEF SendJob
<1>5. Ended(r, phase, n, m) \in SendJob
  BY <1>4 DEF q, s, Ended
<1> QED BY <1>5 DEF Ended, SendJob

\* What Retry makes of a job.
Retried(r, m) ==
    Ended(r, IF r.tries + 1 < Attempts THEN "waiting" ELSE "failed", r.tries + 1, m)

LEMMA RetryRecord ==
    ASSUME NEW r \in SendJob, r.tries < Attempts, NEW m \in Nat
    PROVE  /\ Retried(r, m) \in SendJob
           /\ Retried(r, m).tries = r.tries + 1
           /\ Retried(r, m).post = r.post /\ Retried(r, m).dest = r.dest
           /\ Retried(r, m).delivered = m
           /\ Retried(r, m).phase \in {"waiting", "failed"}
           /\ Retried(r, m).phase = "waiting" => r.tries + 1 < Attempts
           /\ Retried(r, m).phase = "failed" => r.tries + 1 = Attempts
<1>1. Attempts \in Nat /\ r.tries \in Nat
  BY PipelineAssumption DEF SendJob
<1>2. r.tries + 1 \in 0..Attempts
  BY <1>1
<1> DEFINE next == IF r.tries + 1 < Attempts THEN "waiting" ELSE "failed"
           k == r.tries + 1
<1>3. next \in {"waiting", "failed"} /\ (next = "failed" => r.tries + 1 = Attempts)
  BY <1>1, <1>2
<1>4. next = "waiting" => k < Attempts
  OBVIOUS
<1>5. Retried(r, m) = Ended(r, next, k, m)
  BY DEF Retried
<1>6. k \in 0..Attempts /\ k = r.tries + 1
  BY <1>2
<1> HIDE DEF next, k
<1>7. /\ Ended(r, next, k, m) \in SendJob
      /\ Ended(r, next, k, m).tries = k
      /\ Ended(r, next, k, m).post = r.post
      /\ Ended(r, next, k, m).dest = r.dest
      /\ Ended(r, next, k, m).delivered = m
      /\ Ended(r, next, k, m).phase = next
  <2>1. next \in {"waiting", "failed"} /\ k \in 0..Attempts /\ r \in SendJob /\ m \in Nat
    BY <1>3, <1>6
  <2> QED BY <2>1, FourFields
<1> QED BY <1>3, <1>4, <1>5, <1>6, <1>7

LEMMA RetryMoves ==
    ASSUME JobsOK, NEW j \in Jobs, job[j].phase # "failed", NEW m \in Nat, Retry(j, m)
    PROVE  /\ job' = [job EXCEPT ![j] = Retried(job[j], m)]
           /\ JobsOK'
<1>1. job[j] \in SendJob /\ j \in Job /\ job[j].tries < Attempts
  BY JobTyped DEF JobsOK
<1>2. job' = [job EXCEPT ![j] = Retried(job[j], m)]
  BY DEF Retry, Retried, Ended
<1> DEFINE r == Retried(job[j], m)
<1>3. r \in SendJob /\ (r.phase # "failed" => r.tries < Attempts)
  BY <1>1, RetryRecord
<1>4. JobsOK'
  BY <1>1, <1>2, <1>3, JobChange
<1> QED BY <1>2, <1>4

\* The two fields a send changes, and the phases it leads to.
Sent(r, phase, m) == [r EXCEPT !.phase = phase, !.delivered = m]

LEMMA SentRecord ==
    ASSUME NEW r \in SendJob, NEW phase \in JobBusy, NEW m \in Nat
    PROVE  /\ Sent(r, phase, m) \in SendJob
           /\ Sent(r, phase, m).tries = r.tries
           /\ Sent(r, phase, m).post = r.post /\ Sent(r, phase, m).dest = r.dest
           /\ Sent(r, phase, m).delivered = m /\ Sent(r, phase, m).phase = phase
BY DEF Sent, SendJob

\* A send is taken, or throws.
LEMMA DeliverShape ==
    ASSUME JobsOK, NEW j \in Job, Deliver(j)
    PROVE  /\ j \in Jobs /\ job[j] \in SendJob /\ job[j].phase \in SendPhase
           /\ \E phase \in {"caption", "sent"}, m \in Nat :
                /\ job' = [job EXCEPT ![j] = Sent(job[j], phase, m)]
                /\ phase = IF job[j].phase = "sending" /\ job[j].post \in FollowUp
                           THEN "caption" ELSE "sent"
                /\ m = IF job[j].phase = "caption" THEN job[j].delivered
                       ELSE job[j].delivered + 1
<1>1. j \in Jobs /\ job[j] \in SendJob /\ job[j].phase \in SendPhase
  BY JobTyped DEF Deliver
<1> DEFINE phase == IF job[j].phase = "sending" /\ job[j].post \in FollowUp
                    THEN "caption" ELSE "sent"
           m == IF job[j].phase = "caption" THEN job[j].delivered ELSE job[j].delivered + 1
<1>2. phase \in {"caption", "sent"} /\ m \in Nat
  BY <1>1 DEF SendJob
<1>3. job' = [job EXCEPT ![j] = Sent(job[j], phase, m)]
  BY <1>1 DEF Deliver, In, Sent
<1> HIDE DEF phase, m
<1>4. /\ phase = IF job[j].phase = "sending" /\ job[j].post \in FollowUp
                 THEN "caption" ELSE "sent"
      /\ m = IF job[j].phase = "caption" THEN job[j].delivered ELSE job[j].delivered + 1
  BY DEF phase, m
<1> QED BY <1>1, <1>2, <1>3, <1>4

LEMMA ThrowShape ==
    ASSUME JobsOK, NEW j \in Job, SendThrows(j)
    PROVE  /\ j \in Jobs /\ job[j] \in SendJob /\ job[j].phase \in SendPhase
           /\ \E m \in Nat :
                /\ IF job[j].phase = "caption" THEN m = job[j].delivered
                   ELSE m = job[j].delivered \/ m = job[j].delivered + 1
                /\ \/ /\ job[j].phase = "caption"
                      /\ job' = [job EXCEPT ![j] = Sent(job[j], "merged", m)]
                   \/ /\ \/ job[j].phase = "merged"
                         \/ job[j].phase = "sending" /\ job[j].post \in Image
                      /\ job' = [job EXCEPT ![j] = Sent(job[j], "fallback", m)]
                   \/ /\ \/ job[j].phase = "fallback"
                         \/ job[j].phase = "sending" /\ job[j].post \notin Image
                      /\ Retry(j, m)
<1>1. j \in Jobs /\ job[j] \in SendJob /\ job[j].phase \in SendPhase /\ job[j].delivered \in Nat
  BY JobTyped DEF SendThrows, SendJob
<1>2. PICK taken \in {0, 1} :
        LET n == job[j].delivered + (IF In(j, "caption") THEN 0 ELSE taken) IN
           \/ In(j, "caption") /\ job' = [job EXCEPT ![j].phase = "merged", ![j].delivered = n]
           \/ /\ In(j, "merged") \/ (In(j, "sending") /\ job[j].post \in Image)
              /\ job' = [job EXCEPT ![j].phase = "fallback", ![j].delivered = n]
           \/ /\ In(j, "fallback") \/ (In(j, "sending") /\ job[j].post \notin Image)
              /\ Retry(j, n)
  BY DEF SendThrows
<1> DEFINE m == job[j].delivered + (IF In(j, "caption") THEN 0 ELSE taken)
<1>3. /\ m \in Nat
      /\ IF job[j].phase = "caption" THEN m = job[j].delivered
         ELSE m = job[j].delivered \/ m = job[j].delivered + 1
  BY <1>1 DEF In
<1>4. \/ /\ job[j].phase = "caption"
         /\ job' = [job EXCEPT ![j] = Sent(job[j], "merged", m)]
      \/ /\ \/ job[j].phase = "merged"
            \/ job[j].phase = "sending" /\ job[j].post \in Image
         /\ job' = [job EXCEPT ![j] = Sent(job[j], "fallback", m)]
      \/ /\ \/ job[j].phase = "fallback"
            \/ job[j].phase = "sending" /\ job[j].post \notin Image
         /\ Retry(j, m)
  BY <1>2 DEF In, Sent
<1> HIDE DEF m
<1> QED BY <1>1, <1>3, <1>4

---------------------------------------------------------------------------
(* Every action keeps the type.                                            *)

LEMMA QuotaReadTyped ==
    ASSUME QuotaOK, QuotaRead
    PROVE  QuotaOK'
BY DEF QuotaOK, QuotaRead

LEMMA FaultTyped ==
    ASSUME RestOK, Fault, stalled' \subseteq Post \cup Job, connected' \in BOOLEAN
    PROVE  RestOK'
BY PipelineAssumption DEF RestOK, Fault

LEMMA PostThrowsTyped ==
    ASSUME PostsOK, NEW p \in Post, PostThrows(p)
    PROVE  PostsOK'
<1> DEFINE n == post[p].tries + 1
           r == [phase |-> IF n < Attempts THEN "queued" ELSE "failed",
                 tries |-> n, todo |-> {}]
<1>1. post[p] \in PostState /\ post[p].tries < Attempts
  BY DEF PostsOK, PostThrows, PostBusy
<1>2. n \in 0..Attempts /\ (~(n < Attempts) => n = Attempts)
  BY <1>1, PipelineAssumption DEF PostState
<1>3. r \in PostState /\ (r.phase # "failed" => r.tries < Attempts)
  BY <1>2 DEF PostState, PostEnded
<1>4. post' = [post EXCEPT ![p] = r]
  BY DEF PostThrows
<1> QED BY <1>3, <1>4, PostChange

LEMMA ClaimTyped ==
    ASSUME TypeInv, NEW p \in Post, ClaimContent(p)
    PROVE  PostsOK' /\ KeysOK' /\ RestOK'
<1>1. post[p] \in PostState /\ post[p].tries < Attempts /\ post[p].phase # "failed"
  BY DEF TypeInv, PostsOK, ClaimContent
<1>2. claimed' \in [Content -> Post \cup {None}]
  BY DEF ClaimContent, TypeInv, KeysOK
<1>3. PostsOK'
  <2> DEFINE r == [post[p] EXCEPT !.phase = "fanning", !.todo = Destination]
  <2>1. CASE post' = [post EXCEPT ![p].phase = "fanning", ![p].todo = Destination]
    <3>1. r \in PostState /\ r.tries < Attempts
      BY <1>1 DEF PostState, PostBusy
    <3>2. post' = [post EXCEPT ![p] = r]
      BY <2>1
    <3> QED BY <3>1, <3>2, PostChange DEF TypeInv
  <2>2. CASE PostGoesTo(p, "duplicate")
    BY <1>1, <2>2, PostMoves DEF TypeInv, PostEnded
  <2> QED BY <2>1, <2>2 DEF ClaimContent
<1>4. RestOK'
  BY FaultTyped DEF ClaimContent, TypeInv, RestOK
<1> QED BY <1>2, <1>3, <1>4 DEF TypeInv, KeysOK, ClaimContent

LEMMA FanOutTyped ==
    ASSUME TypeInv, NEW p \in Post, NEW d \in Destination, FanOut(p, d)
    PROVE  PostsOK' /\ JobsOK'
<1>1. PostsOK'
  <2> DEFINE r == [post[p] EXCEPT !.todo = @ \ {d}]
  <2>1. post[p] \in PostState /\ post[p].tries < Attempts
    BY DEF TypeInv, PostsOK, FanOut
  <2>2. r \in PostState /\ r.tries < Attempts
    BY <2>1 DEF PostState
  <2>3. post' = [post EXCEPT ![p] = r]
    BY DEF FanOut
  <2> QED BY <2>2, <2>3, PostChange DEF TypeInv
<1> JobsOK
  BY DEF TypeInv
<1>2. CASE UNCHANGED job
  BY <1>1, <1>2 DEF JobsOK, Jobs
<1>3. CASE \E j \in Job \ Jobs : job' = [job EXCEPT ![j] = NewJob(p, d)]
  <2>1. PICK j \in Job \ Jobs : job' = [job EXCEPT ![j] = NewJob(p, d)]
    BY <1>3
  <2>2. NewJob(p, d) \in SendJob /\ NewJob(p, d).tries < Attempts
    BY PipelineAssumption DEF NewJob, SendJob
  <2>3. j \in Job
    BY <2>1
  <2> QED BY <1>1, <2>1, <2>2, <2>3, JobChange
<1> QED BY <1>1, <1>2, <1>3 DEF FanOut

\* A step of a job that leaves the posts alone, by the kind of its change.
LEMMA JobStepTyped ==
    ASSUME JobsOK, used \in Nat, NEW j \in Job, JobStep(j) \/ JobThrows(j)
    PROVE  JobsOK'
<1>1. j \in Jobs /\ job[j] \in SendJob /\ job[j].phase # "failed" /\ job[j].tries < Attempts
  <2>1. j \in Jobs /\ job[j].phase # "failed"
    BY DEF JobStep, JobThrows, StartJob, EnsureReady, CheckSend, Deliver, SendThrows,
           LoadUsage, SaveUsage, SetDedup, In, JobBusy, SendPhase
  <2> QED BY <2>1, JobTyped DEF JobsOK
<1>0. job[j].delivered \in Nat
  BY <1>1 DEF SendJob
<1>2. CASE StartJob(j)
  BY <1>1, <1>2, JobMoves DEF StartJob, JobBusy
<1>3. CASE EnsureReady(j)
  BY <1>0, <1>1, <1>3, JobMoves, RetryMoves DEF EnsureReady, Fails, JobBusy
<1>4. CASE CheckSend(j)
  BY <1>0, <1>1, <1>4, JobMoves, RetryMoves DEF CheckSend, Fails, JobBusy, SendPhase, JobEnded
<1>5. CASE Deliver(j)
  <2>1. PICK phase \in {"caption", "sent"}, m \in Nat :
          job' = [job EXCEPT ![j] = Sent(job[j], phase, m)]
    BY <1>5, DeliverShape
  <2>0. phase \in JobBusy
    BY DEF JobBusy
  <2> DEFINE r == Sent(job[j], phase, m)
  <2>2. r \in SendJob /\ r.tries < Attempts
    BY <1>1, <2>0, SentRecord
  <2> QED BY <2>1, <2>2, JobChange
<1>10. CASE SendThrows(j)
  <2>1. PICK m \in Nat : \/ job' = [job EXCEPT ![j] = Sent(job[j], "merged", m)]
                         \/ job' = [job EXCEPT ![j] = Sent(job[j], "fallback", m)]
                         \/ Retry(j, m)
    BY <1>10, ThrowShape
  <2>2. ASSUME NEW phase \in {"merged", "fallback"},
               job' = [job EXCEPT ![j] = Sent(job[j], phase, m)]
        PROVE  JobsOK'
    <3>0. phase \in JobBusy
      BY DEF JobBusy
    <3> DEFINE r == Sent(job[j], phase, m)
    <3>1. r \in SendJob /\ r.tries < Attempts
      BY <1>1, <3>0, SentRecord
    <3> QED BY <2>2, <3>1, JobChange
  <2> QED BY <1>1, <2>1, <2>2, RetryMoves
<1>6. CASE LoadUsage(j)
  <2> DEFINE r == [job[j] EXCEPT !.phase = "counting", !.copy = used]
  <2>1. job' = [job EXCEPT ![j] = r]
    BY <1>6 DEF LoadUsage
  <2>2. r \in SendJob /\ r.tries < Attempts
    BY <1>1 DEF SendJob, JobBusy
  <2> QED BY <2>1, <2>2, JobChange
<1>7. CASE SaveUsage(j)
  <2> DEFINE r == [job[j] EXCEPT !.phase = "counted", !.copy = 0]
  <2>1. r \in SendJob /\ r.tries < Attempts
    BY <1>1 DEF SendJob, JobBusy
  <2>2. job' = [job EXCEPT ![j] = r]
    BY <1>7 DEF SaveUsage
  <2> QED BY <2>1, <2>2, JobChange
<1>8. CASE SetDedup(j)
  BY <1>1, <1>8, JobMoves DEF SetDedup, JobEnded
<1>9. CASE JobThrows(j)
  BY <1>0, <1>1, <1>9, RetryMoves DEF JobThrows, Fails
<1> QED BY <1>10, <1>2, <1>3, <1>4, <1>5, <1>6, <1>7, <1>8, <1>9 DEF JobStep

LEMMA CrashTyped ==
    ASSUME TypeInv, Crash
    PROVE  PostsOK' /\ JobsOK' /\ RestOK'
<1> DEFINE busy == {p \in Post : post[p].phase \in PostBusy}
           Again(x, phase) == IF x \in stalled THEN "failed" ELSE phase
           PostNow(p) == IF p \in busy
              THEN [post[p] EXCEPT !.phase = Again(p, "queued"), !.todo = {}] ELSE post[p]
           JobNow(j) == IF j \in Active
              THEN [job[j] EXCEPT !.phase = Again(j, "waiting"), !.copy = 0] ELSE job[j]
<1> USE DEF TypeInv
<1>1. post' = [p \in Post |-> PostNow(p)] /\ job' = [j \in Job |-> JobNow(j)]
  BY DEF Crash
<1>2. PostsOK'
  <2>1. ASSUME NEW p \in Post
        PROVE  /\ PostNow(p) \in PostState
               /\ PostNow(p).phase # "failed" => PostNow(p).tries < Attempts
    <3>1. post[p] \in PostState /\ (post[p].phase # "failed" => post[p].tries < Attempts)
      BY DEF PostsOK
    <3>2. CASE p \in busy
      <4>1. post[p].phase # "failed" /\ Again(p, "queued") \in {"queued", "failed"}
        BY <3>2 DEF PostBusy
      <4>2. [post[p] EXCEPT !.phase = Again(p, "queued"), !.todo = {}] \in PostState
        BY <3>1, <4>1 DEF PostState, PostEnded
      <4> QED BY <3>1, <3>2, <4>1, <4>2 DEF PostState
    <3> QED BY <3>1, <3>2
  <2> HIDE DEF PostNow
  <2> QED BY <1>1, <2>1 DEF PostsOK
<1>3. JobsOK'
  <2>1. ASSUME NEW j \in Job
        PROVE  /\ JobNow(j) \in SendJob \cup {None}
               /\ JobNow(j) # None => (JobNow(j).phase # "failed" => JobNow(j).tries < Attempts)
    <3>1. CASE j \in Active
      <4>1. /\ job[j] \in SendJob /\ job[j].tries < Attempts
            /\ Again(j, "waiting") \in {"waiting", "failed"}
        BY <3>1, JobTyped DEF Active, JobsOK, JobBusy
      <4>2. [job[j] EXCEPT !.phase = Again(j, "waiting"), !.copy = 0] \in SendJob
        BY <4>1 DEF SendJob, JobEnded
      <4> QED BY <3>1, <4>1, <4>2 DEF SendJob
    <3>2. CASE j \notin Active
      BY <3>2 DEF JobsOK, Jobs
    <3> QED BY <3>1, <3>2
  <2> HIDE DEF JobNow
  <2> QED BY <1>1, <2>1 DEF JobsOK, Jobs
<1>4. RestOK'
  <2>1. stalled' \subseteq Post \cup Job /\ connected' \in BOOLEAN
    BY DEF Crash, RestOK, Active, Jobs
  <2> QED BY <2>1, FaultTyped DEF Crash
<1> QED BY <1>2, <1>3, <1>4

LEMMA TypeInductive ==
    ASSUME TypeInv, [Next]_vars
    PROVE  TypeInv'
<1> USE DEF TypeInv
<1>1. ASSUME NEW p \in Post, Captured(p) \/ PostStep(p) \/ PostThrows(p)
      PROVE  TypeInv'
  <2>1. CASE Captured(p) \/ StartPost(p) \/ PostDone(p)
    <3>1. PostsOK'
      BY <2>1, PostMoves DEF Captured, StartPost, PostDone, PostBusy, PostEnded
    <3> QED BY <2>1, <3>1 DEF Captured, StartPost, PostDone, quota, JobsOK, Jobs, KeysOK,
                              RestOK, QuotaOK
  <2>2. CASE LoadTenant(p)
    <3>1. PostsOK'
      BY <2>2, PostMoves DEF LoadTenant, PostBusy, PostEnded
    <3> QED BY <2>2, <3>1, QuotaReadTyped DEF LoadTenant, JobsOK, Jobs, KeysOK, RestOK
  <2>3. CASE CheckConnected(p)
    <3>1. PostsOK'
      BY <2>3, PostMoves DEF CheckConnected, PostBusy, PostEnded
    <3> QED BY <2>3, <3>1 DEF CheckConnected, quota, JobsOK, Jobs, KeysOK, RestOK, QuotaOK
  <2>4. CASE ClaimContent(p)
    BY <2>4, ClaimTyped DEF ClaimContent, quota, JobsOK, Jobs, QuotaOK
  <2>5. CASE \E d \in Destination : FanOut(p, d)
    <3>1. RestOK'
      BY <2>5, FaultTyped DEF FanOut, TypeInv, RestOK
    <3> QED BY <2>5, <3>1, FanOutTyped DEF FanOut, quota, KeysOK, QuotaOK
  <2>6. CASE PostThrows(p)
    <3>1. RestOK'
      BY <2>6, FaultTyped DEF PostThrows, RestOK
    <3> QED BY <2>6, <3>1, PostThrowsTyped DEF PostThrows, quota, JobsOK, Jobs, KeysOK, QuotaOK
  <2> QED BY <1>1, <2>1, <2>2, <2>3, <2>4, <2>5, <2>6 DEF PostStep
<1>2. ASSUME NEW j \in Job, JobStep(j) \/ JobThrows(j)
      PROVE  TypeInv'
  <2>1. JobsOK'
    BY <1>2, JobStepTyped DEF QuotaOK
  <2>2. j \in Jobs /\ job[j] \in SendJob
    <3>1. j \in Jobs
      BY <1>2 DEF JobStep, JobThrows, StartJob, EnsureReady, CheckSend, Deliver, SendThrows,
                  LoadUsage, SaveUsage, SetDedup, In
    <3> QED BY <3>1, JobTyped
  <2>3. CASE StartJob(j) \/ EnsureReady(j) \/ LoadUsage(j)
    BY <2>1, <2>3 DEF StartJob, EnsureReady, LoadUsage, quota, PostsOK, KeysOK, RestOK, QuotaOK
  <2>4. CASE CheckSend(j)
    BY <2>1, <2>4, QuotaReadTyped DEF CheckSend, PostsOK, KeysOK, RestOK
  <2>5. CASE Deliver(j)
    <3>1. today' \in Nat
      BY <2>5 DEF Deliver, QuotaOK
    <3> QED BY <2>1, <2>5, <3>1 DEF Deliver, PostsOK, KeysOK, RestOK, QuotaOK
  <2>9. CASE SendThrows(j)
    <3>1. today' \in Nat
      BY <2>9 DEF SendThrows, QuotaOK
    <3>2. RestOK'
      BY <2>9, FaultTyped DEF SendThrows, RestOK
    <3> QED BY <2>1, <2>9, <3>1, <3>2 DEF SendThrows, PostsOK, KeysOK, QuotaOK
  <2>6. CASE SaveUsage(j)
    <3>1. used' \in Nat
      BY <2>2, <2>6 DEF SaveUsage, SendJob
    <3> QED BY <2>1, <2>6, <3>1 DEF SaveUsage, PostsOK, KeysOK, RestOK, QuotaOK
  <2>7. CASE SetDedup(j)
    <3>1. dedup' \subseteq Post \X Destination
      BY <2>2, <2>7 DEF SetDedup, KeysOK, SendJob
    <3>2. RestOK'
      BY <2>7, FaultTyped DEF SetDedup, RestOK
    <3> QED BY <2>1, <2>7, <3>1, <3>2 DEF SetDedup, quota, PostsOK, KeysOK, QuotaOK
  <2>8. CASE JobThrows(j)
    <3>1. RestOK'
      BY <2>8, FaultTyped DEF JobThrows, RestOK
    <3> QED BY <2>1, <2>8, <3>1 DEF JobThrows, quota, PostsOK, KeysOK, QuotaOK
  <2> QED BY <1>2, <2>3, <2>4, <2>5, <2>6, <2>7, <2>8, <2>9 DEF JobStep
<1>3. ASSUME NEW c \in Content, KeyLapses(c)
      PROVE  TypeInv'
  BY <1>3 DEF KeyLapses, quota, PostsOK, JobsOK, Jobs, KeysOK, RestOK, QuotaOK
<1>4. CASE ResetSaved
  <2>0. resets \in Nat /\ resets > 0 /\ today \in Nat
    BY <1>4 DEF ResetSaved, QuotaOK
  <2>1. due' \in BOOLEAN
    BY <1>4 DEF ResetSaved
  <2>2. resets' \in Nat /\ used' \in Nat /\ UNCHANGED <<today, days>>
    BY <1>4, <2>0 DEF ResetSaved
  <2>3. QuotaOK'
    BY <2>0, <2>1, <2>2 DEF QuotaOK
  <2> QED BY <1>4, <2>3 DEF ResetSaved, PostsOK, JobsOK, Jobs, KeysOK, RestOK
<1>5. CASE ConnectionLost
  <2>1. RestOK'
    BY <1>5, FaultTyped DEF ConnectionLost, RestOK
  <2> QED BY <1>5, <2>1 DEF ConnectionLost, quota, PostsOK, JobsOK, Jobs, KeysOK, QuotaOK
<1>6. CASE Reconnected
  BY <1>6 DEF Reconnected, quota, PostsOK, JobsOK, Jobs, KeysOK, RestOK, QuotaOK
<1>7. CASE DayEnds
  <2>1. QuotaOK'
    BY <1>7, PipelineAssumption DEF DayEnds, QuotaOK
  <2> QED BY <1>7, <2>1 DEF DayEnds, PostsOK, JobsOK, Jobs, KeysOK, RestOK
<1>8. CASE Crash
  <2>1. resets' = 0 /\ UNCHANGED <<claimed, dedup, used, due, today, days, lapsed>>
    BY <1>8 DEF Crash
  <2>2. QuotaOK' /\ KeysOK'
    BY <2>1 DEF QuotaOK, KeysOK
  <2> QED BY <1>8, <2>2, CrashTyped
<1>9. CASE UNCHANGED vars
  BY <1>9 DEF vars, PostsOK, JobsOK, Jobs, KeysOK, RestOK, QuotaOK
<1> QED BY <1>1, <1>2, <1>3, <1>4, <1>5, <1>6, <1>7, <1>8, <1>9 DEF Next

LEMMA TypeInit ==
    ASSUME Init
    PROVE  TypeInv
<1>1. PostsOK
  BY PipelineAssumption DEF Init, PostsOK, PostState
<1>2. JobsOK
  BY DEF Init, JobsOK, Jobs
<1>3. KeysOK /\ RestOK
  BY PipelineAssumption DEF Init, KeysOK, RestOK
<1>4. QuotaOK
  <2>1. due \in BOOLEAN
    BY DEF Init
  <2>2. used \in Nat /\ resets \in Nat /\ today \in Nat
    BY DEF Init
  <2>3. days \in 0..MaxDays
    BY PipelineAssumption DEF Init
  <2> QED BY <2>1, <2>2, <2>3 DEF QuotaOK
<1> QED BY <1>1, <1>2, <1>3, <1>4 DEF TypeInv

LEMMA TypeAlways == Spec => []TypeInv
<1>1. Init => TypeInv
  BY TypeInit
<1>2. TypeInv /\ [Next]_vars => TypeInv'
  BY TypeInductive
<1> QED BY <1>1, <1>2, PTL DEF Spec

\* Posts, jobs, keys and counters keep their types; no job is attempted more
\* often than BullMQ was told (addJob, attempts: 3).
THEOREM PipelineTypeCorrect == Spec => []TypeOK
<1>1. TypeInv => TypeOK
  BY DEF TypeInv, TypeOK, PostsOK, JobsOK, KeysOK, RestOK, QuotaOK
<1> QED BY <1>1, TypeAlways, PTL

---------------------------------------------------------------------------
(* What a step may make of a send job.                                     *)

\* The phases of an attempt that has delivered.
After == {"sent", "counting", "counted", "done"}

SameJob(r, q) == q \in SendJob /\ q.post = r.post /\ q.dest = r.dest

\* It moves on, a send of it is taken, a send of it throws, or it is retried.
MovesOn(r, q) ==
    /\ q.tries = r.tries /\ q.delivered = r.delivered
    /\ r.phase \notin SendPhase /\ r.phase # "failed"
    /\ q.phase # "failed"
    /\ q.phase \in SendPhase => q.phase = "sending"
    /\ r.phase \in After <=> q.phase \in After
Delivers(r, q) ==
    /\ q.tries = r.tries /\ r.phase \in SendPhase
    /\ q.delivered = IF r.phase = "caption" THEN r.delivered ELSE r.delivered + 1
    /\ q.phase = IF r.phase = "sending" /\ r.post \in FollowUp THEN "caption" ELSE "sent"
FallsBack(r, q) ==
    /\ q.tries = r.tries /\ q.delivered \in {r.delivered, r.delivered + 1}
    /\ \/ r.phase = "caption" /\ q.phase = "merged" /\ q.delivered = r.delivered
       \/ r.phase = "merged" /\ q.phase = "fallback"
       \/ r.phase = "sending" /\ r.post \in Image /\ q.phase = "fallback"
IsRetried(r, q) ==
    /\ q.tries = r.tries + 1
    /\ \/ q.delivered = r.delivered /\ r.phase \notin SendPhase
       \/ /\ q.delivered \in {r.delivered, r.delivered + 1}
          /\ r.phase = "fallback" \/ (r.phase = "sending" /\ r.post \notin Image)
    /\ r.phase # "failed"
    /\ q.phase \in {"waiting", "failed"}
    /\ q.phase = "failed" => q.tries = Attempts
Proceeds(r, q) == MovesOn(r, q) \/ Delivers(r, q) \/ FallsBack(r, q) \/ IsRetried(r, q)

Advances(j) ==
    \E q \in SendJob :
        /\ job' = [job EXCEPT ![j] = q]
        /\ SameJob(job[j], q)
        /\ Proceeds(job[j], q)

LEMMA MoveAdvances ==
    ASSUME JobsOK, NEW j \in Jobs, NEW phase \in {"waiting"} \cup JobBusy \cup JobEnded,
           job[j].phase # "failed", phase # "failed", job[j].phase \notin SendPhase,
           phase \in SendPhase => phase = "sending",
           job[j].phase \in After <=> phase \in After,
           JobGoesTo(j, phase)
    PROVE  Advances(j)
<1> DEFINE q == [job[j] EXCEPT !.phase = phase]
<1>1. job[j] \in SendJob
  BY JobTyped
<1>2. /\ q \in SendJob /\ q.post = job[j].post /\ q.dest = job[j].dest
      /\ q.tries = job[j].tries /\ q.delivered = job[j].delivered /\ q.phase = phase
  BY <1>1 DEF SendJob
<1>3. job' = [job EXCEPT ![j] = q]
  BY DEF JobGoesTo
<1> HIDE DEF q
<1> QED BY <1>2, <1>3 DEF Advances, Proceeds, SameJob, MovesOn

LEMMA RetryAdvances ==
    ASSUME JobsOK, NEW j \in Jobs, job[j].phase # "failed", NEW m \in Nat, Retry(j, m),
           \/ m = job[j].delivered /\ job[j].phase \notin SendPhase
           \/ /\ m \in {job[j].delivered, job[j].delivered + 1}
              /\ job[j].phase = "fallback" \/ (job[j].phase = "sending" /\ job[j].post \notin Image)
    PROVE  Advances(j)
<1> DEFINE q == Retried(job[j], m)
<1>1. job[j] \in SendJob /\ job[j].tries < Attempts
  BY JobTyped DEF JobsOK
<1>2. SameJob(job[j], q) /\ IsRetried(job[j], q)
  BY <1>1, RetryRecord DEF SameJob, IsRetried
<1>3. job' = [job EXCEPT ![j] = q]
  BY RetryMoves
<1> HIDE DEF q
<1> QED BY <1>2, <1>3 DEF Advances, Proceeds, SameJob

\* A job that fails outside a send keeps its copies.
LEMMA FailAdvances ==
    ASSUME JobsOK, NEW j \in Jobs, job[j].phase # "failed", job[j].phase \notin SendPhase,
           Fails(j)
    PROVE  Advances(j)
<1>1. job[j].delivered \in Nat
  BY JobTyped DEF SendJob
<1> QED BY <1>1, RetryAdvances DEF Fails

LEMMA JobAdvances ==
    ASSUME JobsOK, used \in Nat, NEW j \in Job, JobStep(j) \/ JobThrows(j)
    PROVE  j \in Jobs /\ Advances(j)
<1>1. j \in Jobs /\ job[j] \in SendJob /\ job[j].phase # "failed"
  <2>1. j \in Jobs /\ job[j].phase # "failed"
    BY DEF JobStep, JobThrows, StartJob, EnsureReady, CheckSend, Deliver, SendThrows,
           LoadUsage, SaveUsage, SetDedup, In, JobBusy, SendPhase
  <2> QED BY <2>1, JobTyped
<1>2. CASE StartJob(j)
  BY <1>1, <1>2, MoveAdvances DEF StartJob, In, After, JobBusy, SendPhase
<1>3. CASE EnsureReady(j)
  BY <1>1, <1>3, MoveAdvances, FailAdvances DEF EnsureReady, In, After, JobBusy, SendPhase
<1>4. CASE CheckSend(j)
  BY <1>1, <1>4, MoveAdvances, FailAdvances DEF CheckSend, In, After, JobBusy, SendPhase, JobEnded
<1>5. CASE Deliver(j)
  <2>1. PICK phase \in {"caption", "sent"}, m \in Nat :
          /\ job' = [job EXCEPT ![j] = Sent(job[j], phase, m)]
          /\ phase = IF job[j].phase = "sending" /\ job[j].post \in FollowUp
                     THEN "caption" ELSE "sent"
          /\ m = IF job[j].phase = "caption" THEN job[j].delivered
                 ELSE job[j].delivered + 1
    BY <1>5, DeliverShape
  <2>0. phase \in JobBusy
    BY DEF JobBusy
  <2> DEFINE q == Sent(job[j], phase, m)
  <2>2. /\ q \in SendJob /\ q.tries = job[j].tries
        /\ q.post = job[j].post /\ q.dest = job[j].dest
        /\ q.delivered = m /\ q.phase = phase
    BY <1>1, <2>0, SentRecord
  <2>3. job' = [job EXCEPT ![j] = q] /\ job[j].phase \in SendPhase
    BY <1>5, <2>1, DeliverShape
  <2> HIDE DEF q
  <2>4. Delivers(job[j], q)
    BY <2>1, <2>2, <2>3 DEF Delivers
  <2> QED BY <1>1, <2>2, <2>3, <2>4 DEF Advances, Proceeds, SameJob
<1>10. CASE SendThrows(j)
  <2>1. PICK m \in Nat :
                /\ IF job[j].phase = "caption" THEN m = job[j].delivered
                   ELSE m = job[j].delivered \/ m = job[j].delivered + 1
                /\ \/ /\ job[j].phase = "caption"
                      /\ job' = [job EXCEPT ![j] = Sent(job[j], "merged", m)]
                   \/ /\ \/ job[j].phase = "merged"
                         \/ job[j].phase = "sending" /\ job[j].post \in Image
                      /\ job' = [job EXCEPT ![j] = Sent(job[j], "fallback", m)]
                   \/ /\ \/ job[j].phase = "fallback"
                         \/ job[j].phase = "sending" /\ job[j].post \notin Image
                      /\ Retry(j, m)
    BY <1>10, ThrowShape
  <2>2. ASSUME NEW phase \in {"merged", "fallback"},
               job' = [job EXCEPT ![j] = Sent(job[j], phase, m)],
               \/ job[j].phase = "caption" /\ phase = "merged"
               \/ job[j].phase = "merged" /\ phase = "fallback"
               \/ job[j].phase = "sending" /\ job[j].post \in Image /\ phase = "fallback"
        PROVE  Advances(j)
    <3>0. phase \in JobBusy
      BY DEF JobBusy
    <3> DEFINE q == Sent(job[j], phase, m)
    <3>1. /\ q \in SendJob /\ q.tries = job[j].tries
          /\ q.post = job[j].post /\ q.dest = job[j].dest
          /\ q.delivered = m /\ q.phase = phase
      BY <1>1, <3>0, SentRecord
    <3>2. job' = [job EXCEPT ![j] = q]
      BY <2>2
    <3> HIDE DEF q
    <3>3. FallsBack(job[j], q)
      BY <2>1, <2>2, <3>1 DEF FallsBack
    <3> QED BY <3>1, <3>2, <3>3 DEF Advances, Proceeds, SameJob
  <2>3. CASE Retry(j, m) /\ (\/ job[j].phase = "fallback"
                             \/ job[j].phase = "sending" /\ job[j].post \notin Image)
    <3>1. m \in {job[j].delivered, job[j].delivered + 1}
      BY <2>1, <2>3
    <3>2. \/ m = job[j].delivered /\ job[j].phase \notin SendPhase
          \/ /\ m \in {job[j].delivered, job[j].delivered + 1}
             /\ job[j].phase = "fallback" \/ (job[j].phase = "sending" /\ job[j].post \notin Image)
      BY <2>3, <3>1
    <3> QED BY <1>1, <2>3, <3>2, RetryAdvances
  <2> QED BY <1>1, <2>1, <2>2, <2>3
<1>6. CASE LoadUsage(j)
  <2> DEFINE q == [job[j] EXCEPT !.phase = "counting", !.copy = used]
  <2>1. /\ q \in SendJob /\ q.post = job[j].post /\ q.dest = job[j].dest
        /\ q.tries = job[j].tries /\ q.delivered = job[j].delivered /\ q.phase = "counting"
    BY <1>1 DEF SendJob, JobBusy
  <2>2. job' = [job EXCEPT ![j] = q] /\ job[j].phase = "sent"
    BY <1>6 DEF LoadUsage, In
  <2> HIDE DEF q
  <2> QED BY <1>1, <2>1, <2>2 DEF Advances, Proceeds, SameJob, MovesOn, After, SendPhase
<1>7. CASE SaveUsage(j)
  <2> DEFINE q == [job[j] EXCEPT !.phase = "counted", !.copy = 0]
  <2>1. /\ q \in SendJob /\ q.post = job[j].post /\ q.dest = job[j].dest
        /\ q.tries = job[j].tries /\ q.delivered = job[j].delivered /\ q.phase = "counted"
    BY <1>1 DEF SendJob, JobBusy
  <2>2. job' = [job EXCEPT ![j] = q] /\ job[j].phase = "counting"
    BY <1>7 DEF SaveUsage, In
  <2> HIDE DEF q
  <2> QED BY <1>1, <2>1, <2>2 DEF Advances, Proceeds, SameJob, MovesOn, After, SendPhase
<1>8. CASE SetDedup(j)
  BY <1>1, <1>8, MoveAdvances DEF SetDedup, In, After, JobEnded, SendPhase
<1>9. CASE JobThrows(j)
  <2>1. job[j].phase \notin SendPhase /\ Fails(j)
    BY <1>9 DEF JobThrows
  <2> QED BY <1>1, <2>1, FailAdvances
<1> QED BY <1>1, <1>10, <1>2, <1>3, <1>4, <1>5, <1>6, <1>7, <1>8, <1>9 DEF JobStep

\* A crash puts an active job back, or fails it the second time.
LEMMA CrashOfJob ==
    ASSUME JobsOK, Crash, NEW j \in Active
    PROVE  /\ SameJob(job[j], job'[j])
           /\ job'[j].tries = job[j].tries /\ job'[j].delivered = job[j].delivered
           /\ job[j].phase # "failed"
           /\ job'[j].phase = IF j \in stalled THEN "failed" ELSE "waiting"
<1> DEFINE now == IF j \in stalled THEN "failed" ELSE "waiting"
<1>1. j \in Jobs /\ j \in Job /\ job[j] \in SendJob /\ job[j].phase # "failed"
  BY JobTyped DEF Active, JobBusy
<1>2. job'[j] = [job[j] EXCEPT !.phase = now, !.copy = 0]
  BY <1>1 DEF Crash
<1>3. now \in {"waiting", "failed"}
  OBVIOUS
<1>4. [job[j] EXCEPT !.phase = now, !.copy = 0] \in SendJob
  BY <1>1, <1>3 DEF SendJob, JobEnded
<1> QED BY <1>1, <1>2, <1>3, <1>4 DEF SameJob, SendJob

LEMMA CrashElsewhere ==
    ASSUME Crash, NEW j \in Job, j \notin Active
    PROVE  job'[j] = job[j]
BY DEF Crash

\* The four things a step can mean for a job.
Untouched(j) == job'[j] = job[j]
Created(j) ==
    /\ j \notin Jobs
    /\ \E p \in Post, d \in Destination :
         FanOut(p, d) /\ job' = [job EXCEPT ![j] = NewJob(p, d)]
Advanced(j) ==
    /\ j \in Jobs
    /\ SameJob(job[j], job'[j])
    /\ Proceeds(job[j], job'[j])
    /\ stalled' = stalled
Recovered(j) == Crash /\ j \in Active

LEMMA JobShape ==
    ASSUME TypeInv, [Next]_vars, NEW j \in Job
    PROVE  Untouched(j) \/ Created(j) \/ Advanced(j) \/ Recovered(j)
<1> JobsOK /\ used \in Nat
  BY DEF TypeInv, QuotaOK
<1>1. CASE \E p \in Post : PostStep(p) \/ Captured(p) \/ PostThrows(p)
  <2>1. PICK p \in Post : PostStep(p) \/ Captured(p) \/ PostThrows(p)
    BY <1>1
  <2>2. CASE \E d \in Destination : FanOut(p, d)
    <3>1. PICK d \in Destination : FanOut(p, d)
      BY <2>2
    <3>2. CASE UNCHANGED job
      BY <3>2 DEF Untouched
    <3>3. CASE \E i \in Job \ Jobs : job' = [job EXCEPT ![i] = NewJob(p, d)]
      <4>1. PICK i \in Job \ Jobs : job' = [job EXCEPT ![i] = NewJob(p, d)]
        BY <3>3
      <4>2. CASE i = j
        BY <3>1, <3>3, <4>1, <4>2 DEF Created
      <4>3. CASE i # j
        BY <4>1, <4>3 DEF Untouched, JobsOK
      <4> QED BY <4>2, <4>3
    <3> QED BY <3>1, <3>2, <3>3 DEF FanOut
  <2>3. CASE ~\E d \in Destination : FanOut(p, d)
    BY <2>1, <2>3 DEF PostStep, Captured, PostThrows, StartPost, LoadTenant, CheckConnected,
                      ClaimContent, PostDone, Untouched
  <2> QED BY <2>2, <2>3
<1>2. CASE \E i \in Job : JobStep(i) \/ JobThrows(i)
  <2>1. PICK i \in Job : JobStep(i) \/ JobThrows(i)
    BY <1>2
  <2>2. i \in Jobs /\ Advances(i)
    BY <2>1, JobAdvances
  <2>3. stalled' = stalled
    BY <2>1 DEF JobStep, JobThrows, StartJob, EnsureReady, CheckSend, Deliver, SendThrows,
                LoadUsage, SaveUsage, SetDedup
  <2>4. CASE i = j
    BY <2>2, <2>3, <2>4 DEF Advances, Advanced, JobsOK
  <2>5. CASE i # j
    BY <2>2, <2>5 DEF Advances, Untouched, JobsOK
  <2> QED BY <2>4, <2>5
<1>3. CASE Crash
  BY <1>3, CrashElsewhere DEF Recovered, Untouched
<1>4. CASE \/ ResetSaved \/ ConnectionLost \/ Reconnected \/ DayEnds \/ UNCHANGED vars
           \/ \E c \in Content : KeyLapses(c)
  BY <1>4 DEF ResetSaved, ConnectionLost, Reconnected, DayEnds, KeyLapses, vars, Untouched
<1> QED BY <1>1, <1>2, <1>3, <1>4 DEF Next

\* A job stays, with its post and its destination, and takes back no copy.
LEMMA JobStays ==
    ASSUME TypeInv, [Next]_vars, NEW j \in Jobs
    PROVE  /\ j \in Jobs'
           /\ job'[j].post = job[j].post /\ job'[j].dest = job[j].dest
           /\ job[j].delivered \in Nat /\ job'[j].delivered \in Nat
           /\ job[j].delivered <= job'[j].delivered
<1> j \in Job /\ job[j] \in SendJob /\ JobsOK
  BY JobTyped DEF TypeInv
<1>1. Untouched(j) \/ Advanced(j) \/ Recovered(j)
  BY JobShape DEF Created
<1>2. CASE Untouched(j)
  BY <1>2 DEF Untouched, Jobs, SendJob
<1>3. SameJob(job[j], job'[j]) => j \in Jobs'
  BY PipelineAssumption DEF SameJob, Jobs
<1>4. CASE Advanced(j)
  BY <1>3, <1>4 DEF Advanced, SameJob, Proceeds, MovesOn, Delivers, FallsBack, IsRetried, SendJob
<1>5. CASE Recovered(j)
  BY <1>3, <1>5, CrashOfJob DEF Recovered, SameJob, SendJob
<1> QED BY <1>1, <1>2, <1>4, <1>5

---------------------------------------------------------------------------
(* Copies cost attempts.                                                   *)

One(b) == IF b THEN 1 ELSE 0

\* A job that failed before its attempts were used up died with its worker.
LostWorker(r) == r.phase = "failed" /\ r.tries < Attempts

\* The copies the attempt in hand may have left.
InHand(r) ==
    IF r.phase \in {"caption", "merged"} THEN 1
    ELSE IF r.phase = "fallback" THEN Sends(r.post) - 1
    ELSE IF r.phase \in After \/ LostWorker(r) THEN Sends(r.post)
    ELSE 0
CopyOK(r, st) ==
    /\ r.delivered <= Sends(r.post) * (r.tries + One(st)) + InHand(r)
    /\ r.phase \in {"caption", "merged"} => r.post \in FollowUp
    /\ r.phase = "fallback" => r.post \in Image
    /\ r.phase \in After \cup {"caption"} => r.delivered > 0
    /\ LostWorker(r) => st
CopyInv == \A j \in Jobs : CopyOK(job[j], j \in stalled)

LEMMA SendsOf ==
    ASSUME NEW p \in Post
    PROVE  /\ Sends(p) \in {1, 2, 3}
           /\ p \in FollowUp => Sends(p) = 3 /\ p \in Image
           /\ p \in Image => Sends(p) >= 2
BY PipelineAssumption DEF Sends

LEMMA OneOf ==
    ASSUME NEW b
    PROVE  One(b) \in {0, 1} /\ (b => One(b) = 1) /\ (~b => One(b) = 0)
BY DEF One

LEMMA CopyAdvances ==
    ASSUME NEW r \in SendJob, NEW q \in SendJob, NEW st, CopyOK(r, st), q.post = r.post,
           Proceeds(r, q)
    PROVE  CopyOK(q, st)
<1> DEFINE S == Sends(r.post)
           B == r.tries + One(st)
           C == q.tries + One(st)
<1>1. /\ r.delivered \in Nat /\ r.tries \in Nat /\ q.delivered \in Nat /\ q.tries \in Nat
      /\ Attempts \in Nat /\ r.post \in Post
  BY PipelineAssumption DEF SendJob
<1>2. S \in {1, 2, 3} /\ B \in Nat /\ C \in Nat
  BY <1>1, SendsOf, OneOf
<1>3. /\ r.post \in FollowUp => S = 3 /\ r.post \in Image
      /\ r.post \in Image => S >= 2
  BY <1>1, SendsOf
<1>4. /\ q.tries = r.tries => S * C = S * B
      /\ q.tries = r.tries + 1 => S * C = S * B + S
  <2>1. q.tries = r.tries + 1 => C = B + 1
    BY <1>1, OneOf
  <2>2. S * (B + 1) = S * B + S
    BY <1>2
  <2> QED BY <2>1, <2>2
<1>5. S * B \in Nat /\ S * C \in Nat
  BY <1>2
<1>6. r.delivered <= S * B + InHand(r)
  BY DEF CopyOK
<1>7. q.delivered <= S * C + InHand(q)
        => q.delivered <= Sends(q.post) * (q.tries + One(st)) + InHand(q)
  OBVIOUS
<1> HIDE DEF S, B, C
<1>8. CASE MovesOn(r, q)
  <2>1. InHand(q) = InHand(r)
    BY <1>8 DEF MovesOn, InHand, LostWorker, SendPhase, S
  <2>2. q.delivered <= S * C + InHand(q)
    BY <1>4, <1>6, <1>8, <2>1 DEF MovesOn
  <2> QED BY <1>7, <1>8, <2>2 DEF MovesOn, CopyOK, LostWorker, SendPhase
<1>9. CASE Delivers(r, q)
  <2>1. CASE r.phase = "sending"
    <3>1. InHand(r) = 0 /\ InHand(q) >= 1
      BY <1>2, <1>9, <2>1 DEF Delivers, InHand, LostWorker, After, S
    <3>2. q.delivered = r.delivered + 1
      BY <1>9, <2>1 DEF Delivers
    <3>3. InHand(q) \in Nat
      BY <1>2, <1>9, <2>1 DEF Delivers, InHand, After, S
    <3>4. q.delivered <= S * C + InHand(q)
      BY <1>1, <1>4, <1>5, <1>6, <1>9, <3>1, <3>2, <3>3 DEF Delivers
    <3> QED BY <1>1, <1>7, <1>9, <2>1, <3>2, <3>4 DEF Delivers, CopyOK, LostWorker, After
  <2>2. CASE r.phase # "sending"
    <3>1. q.phase = "sent" /\ InHand(q) = S
      BY <1>9, <2>2 DEF Delivers, InHand, After, S
    <3>2. InHand(r) + 1 <= S /\ InHand(r) \in Nat
      BY <1>2, <1>3, <1>9, <2>2 DEF Delivers, InHand, SendPhase, CopyOK, S
    <3>3. q.delivered <= r.delivered + 1 /\ (r.phase = "caption" => q.delivered = r.delivered)
          /\ (r.phase # "caption" => q.delivered = r.delivered + 1)
      BY <1>1, <1>9 DEF Delivers
    <3>4. q.delivered <= S * C + InHand(q)
      BY <1>1, <1>2, <1>4, <1>5, <1>6, <1>9, <3>1, <3>2, <3>3 DEF Delivers
    <3> QED BY <1>1, <1>7, <3>1, <3>3, <3>4 DEF CopyOK, LostWorker
  <2> QED BY <2>1, <2>2
<1>10. CASE FallsBack(r, q)
  <2>1. CASE r.phase = "caption"
    <3>1. InHand(r) = 1 /\ InHand(q) = 1
      BY <1>10, <2>1 DEF FallsBack, InHand
    <3> QED BY <1>4, <1>6, <1>7, <1>10, <2>1, <3>1 DEF FallsBack, CopyOK, LostWorker, After
  <2>2. CASE r.phase # "caption"
    <3>1. InHand(q) = S - 1 /\ q.phase = "fallback" /\ r.post \in Image
      BY <1>3, <1>10, <2>2 DEF FallsBack, InHand, CopyOK, S
    <3>2. InHand(r) + 1 <= S - 1 /\ InHand(r) \in Nat
      BY <1>2, <1>3, <1>10, <2>2 DEF FallsBack, InHand, CopyOK, After, LostWorker, S
    <3>3. q.delivered <= S * C + InHand(q)
      BY <1>1, <1>2, <1>4, <1>5, <1>6, <1>10, <3>1, <3>2 DEF FallsBack
    <3> QED BY <1>7, <3>1, <3>3 DEF CopyOK, LostWorker, After
  <2> QED BY <2>1, <2>2
<1>11. CASE IsRetried(r, q)
  <2>1. InHand(q) = 0 /\ ~LostWorker(q)
    BY <1>1, <1>11 DEF IsRetried, InHand, LostWorker, After
  <2>2. q.delivered <= S * B + S
    <3>1. CASE q.delivered = r.delivered /\ r.phase \notin SendPhase
      <4>1. InHand(r) <= S /\ InHand(r) \in Nat
        BY <1>2, <3>1 DEF InHand, SendPhase, S
      <4> QED BY <1>1, <1>2, <1>5, <1>6, <3>1, <4>1
    <3>2. CASE /\ q.delivered \in {r.delivered, r.delivered + 1}
               /\ r.phase = "fallback" \/ (r.phase = "sending" /\ r.post \notin Image)
      <4>1. InHand(r) + 1 <= S /\ InHand(r) \in Nat
        BY <1>2, <1>3, <3>2 DEF InHand, CopyOK, After, LostWorker, S
      <4> QED BY <1>1, <1>2, <1>5, <1>6, <3>2, <4>1
    <3> QED BY <1>11, <3>1, <3>2 DEF IsRetried
  <2>3. q.delivered <= S * C + InHand(q)
    BY <1>1, <1>2, <1>4, <1>5, <1>11, <2>1, <2>2 DEF IsRetried
  <2> QED BY <1>7, <1>11, <2>1, <2>3 DEF IsRetried, CopyOK, After
<1> QED BY <1>8, <1>9, <1>10, <1>11 DEF Proceeds

\* A crash counts the attempt in hand as one of its own, or ends the job.
LEMMA CopyRecovered ==
    ASSUME NEW r \in SendJob, NEW q \in SendJob, NEW st, CopyOK(r, st), q.post = r.post,
           q.tries = r.tries, q.delivered = r.delivered, r.tries < Attempts,
           r.phase # "failed", st \in BOOLEAN,
           q.phase = IF st THEN "failed" ELSE "waiting"
    PROVE  CopyOK(q, TRUE)
<1> DEFINE S == Sends(r.post)
           T == r.tries
<1>1. /\ r.delivered \in Nat /\ T \in Nat /\ S \in {1, 2, 3}
      /\ r.post \in FollowUp => S = 3
      /\ r.post \in Image => S >= 2
  BY SendsOf DEF SendJob
<1>2. InHand(r) <= S /\ InHand(r) \in Nat
  BY <1>1 DEF InHand, CopyOK
<1>3. r.delivered <= S * (T + One(st)) + InHand(r)
  BY DEF CopyOK
<1>4. Sends(q.post) = S /\ q.tries = T
  OBVIOUS
<1>5. S * (T + 1) = S * T + S /\ S * T \in Nat /\ S * (T + 0) = S * T
  BY <1>1
<1> HIDE DEF S, T
<1>6. CASE st
  <2>1. InHand(q) = S
    BY <1>6, <1>4 DEF InHand, LostWorker, After, S, T
  <2>2. One(st) = 1 /\ One(TRUE) = 1
    BY <1>6 DEF One
  <2>3. q.delivered <= S * (T + One(TRUE)) + InHand(q)
    <3>1. S * (T + One(TRUE)) = S * T + S /\ S * (T + One(st)) = S * T + S
      BY <1>5, <2>2
    <3> DEFINE L == S * (T + One(st))
               M == S * (T + One(TRUE))
               h == InHand(r)
    <3>2. /\ r.delivered <= L + h /\ L = M /\ h <= S /\ h \in Nat /\ M = S * T + S
          /\ M \in Nat /\ S \in Nat
      <4>1. r.delivered <= L + h /\ h <= S /\ h \in Nat /\ S \in Nat
        BY <1>1, <1>2, <1>3
      <4>2. M = S * T + S /\ L = M
        BY <3>1
      <4>3. S * T + S \in Nat
        BY <1>1, <1>5
      <4> QED BY <4>1, <4>2, <4>3
    <3> HIDE DEF L, M, h
    <3>3. q.delivered <= M + S
      BY <1>1, <3>2
    <3> QED BY <2>1, <3>3 DEF M
  <2> QED BY <1>4, <1>6, <2>3 DEF CopyOK, After
<1>7. CASE ~st
  <2>1. InHand(q) = 0
    BY <1>7 DEF InHand, LostWorker, After
  <2>2. One(st) = 0 /\ One(TRUE) = 1 /\ T + 0 = T
    BY <1>1, <1>7 DEF One
  <2>3. r.delivered <= S * T + InHand(r)
    BY <1>3, <2>2
  <2>4. q.delivered <= S * (T + One(TRUE)) + InHand(q)
    <3>1. S * (T + One(TRUE)) = S * T + S
      BY <1>5, <2>2
    <3> DEFINE L == S * T
               M == S * (T + One(TRUE))
               h == InHand(r)
    <3>2. /\ r.delivered <= L + h /\ M = L + S /\ h <= S /\ h \in Nat
          /\ L \in Nat /\ S \in Nat
      <4>1. r.delivered <= L + h /\ h <= S /\ h \in Nat /\ S \in Nat
        BY <1>1, <1>2, <2>3
      <4>2. M = L + S
        BY <3>1
      <4>3. L \in Nat
        BY <1>5
      <4> QED BY <4>1, <4>2, <4>3
    <3> HIDE DEF L, M, h
    <3>3. q.delivered <= M + 0
      BY <1>1, <3>2
    <3> QED BY <2>1, <3>3 DEF M
  <2> QED BY <1>4, <1>7, <2>4 DEF CopyOK, After, LostWorker
<1> QED BY <1>6, <1>7

LEMMA CopyInductive ==
    ASSUME TypeInv, CopyInv, [Next]_vars
    PROVE  CopyInv'
<1> SUFFICES ASSUME NEW j \in Job, j \in Jobs'
             PROVE  CopyOK(job'[j], j \in stalled')
  BY DEF CopyInv, Jobs
<1> JobsOK
  BY DEF TypeInv
<1>1. CASE Untouched(j)
  <2>1. j \in Jobs /\ job[j] \in SendJob
    BY <1>1, JobTyped DEF Untouched, Jobs
  <2>3. CASE stalled' = stalled
    BY <1>1, <2>1, <2>3 DEF Untouched, CopyInv
  <2>4. CASE stalled' # stalled
    <3>1. Crash
      BY <2>4 DEF Next, vars, Captured, PostStep, PostThrows, StartPost, LoadTenant,
           CheckConnected, ClaimContent, PostDone, FanOut, JobStep, JobThrows, StartJob,
           EnsureReady, CheckSend, Deliver, SendThrows, LoadUsage, SaveUsage, SetDedup,
           ResetSaved, ConnectionLost, Reconnected, DayEnds, KeyLapses
    <3>2. j \notin Active
      BY <1>1, <2>1, <3>1, CrashOfJob DEF Untouched, Active, JobBusy, SendPhase
    <3>3. j \in stalled' <=> j \in stalled
      BY <3>1, <3>2, PipelineAssumption DEF Crash
    <3> QED BY <1>1, <2>1, <3>3 DEF Untouched, CopyInv
  <2> QED BY <2>3, <2>4
<1>2. CASE Created(j)
  <2>1. PICK p \in Post, d \in Destination : FanOut(p, d) /\ job'[j] = NewJob(p, d)
    BY <1>2 DEF Created, JobsOK
  <2>2. /\ job'[j].phase = "waiting" /\ job'[j].tries = 0 /\ job'[j].delivered = 0
        /\ job'[j].post = p
    BY <2>1 DEF NewJob
  <2>3. Sends(p) * (0 + One(j \in stalled')) \in Nat
    <3>1. Sends(p) \in Nat /\ One(j \in stalled') \in Nat
      BY SendsOf, OneOf
    <3> QED BY <3>1
  <2> QED BY <2>2, <2>3 DEF CopyOK, InHand, LostWorker, After
<1>3. CASE Advanced(j)
  <2>1. j \in Jobs /\ job[j] \in SendJob /\ job'[j] \in SendJob /\ CopyOK(job[j], j \in stalled)
    BY <1>3, JobTyped DEF Advanced, SameJob, CopyInv
  <2> QED BY <1>3, <2>1, CopyAdvances DEF Advanced, SameJob
<1>4. CASE Recovered(j)
  <2>1. j \in Jobs /\ job[j] \in SendJob /\ job[j].delivered \in Nat /\ job[j].tries \in Nat
    BY <1>4, JobTyped DEF Recovered, Active, SendJob
  <2>2. j \in stalled'
    BY <1>4 DEF Recovered, Crash
  <2>3. /\ job'[j].tries = job[j].tries /\ job'[j].delivered = job[j].delivered
        /\ job[j].phase # "failed"
        /\ job'[j].phase = IF j \in stalled THEN "failed" ELSE "waiting"
    BY <1>4, CrashOfJob DEF Recovered
  <2>4. CopyOK(job[j], j \in stalled) /\ job[j].tries < Attempts
    BY <2>1, <2>3 DEF CopyInv, JobsOK
  <2>5. job'[j] \in SendJob /\ job'[j].post = job[j].post
    BY <1>4, CrashOfJob DEF Recovered, SameJob
  <2>6. CopyOK(job'[j], TRUE)
    <3> DEFINE st == j \in stalled
    <3>1. st \in BOOLEAN /\ CopyOK(job[j], st)
      BY <2>4
    <3>2. job'[j].phase = IF st THEN "failed" ELSE "waiting"
      BY <2>3
    <3> HIDE DEF st
    <3> QED BY <2>1, <2>3, <2>4, <2>5, <3>1, <3>2, CopyRecovered
  <2> QED BY <2>2, <2>6
<1> QED BY <1>1, <1>2, <1>3, <1>4, JobShape

LEMMA CopyAlways == Spec => []CopyInv
<1>1. Init => CopyInv
  BY DEF Init, CopyInv, Jobs
<1>2. TypeInv /\ CopyInv /\ [Next]_vars => CopyInv'
  BY CopyInductive
<1> QED BY <1>1, <1>2, TypeAlways, PTL DEF Spec

\* Every copy is paid for by an attempt that was begun, at most one, two or
\* three for each by the kind of the post, whatever fails or dies on the way
\* (the nested catches of handleSendMessage, the queue's retries).
THEOREM PipelineCopiesCostAttempts == Spec => []CopiesCostAttempts
<1>1. TypeInv /\ CopyInv => CopiesCostAttempts
  <2> SUFFICES ASSUME TypeInv, CopyInv, NEW j \in Jobs
               PROVE  job[j].delivered <= Sends(job[j].post) * Begun(j)
    BY DEF CopiesCostAttempts
  <2> DEFINE r == job[j]
             S == Sends(r.post)
             B == r.tries + One(j \in stalled)
             I == IF r.phase # "waiting" /\ r.tries < Attempts THEN 1 ELSE 0
  <2>1. /\ r.delivered \in Nat /\ r.tries \in 0..Attempts /\ Attempts \in Nat /\ r.post \in Post
        /\ r.phase # "failed" => r.tries < Attempts
    BY JobTyped, PipelineAssumption DEF TypeInv, JobsOK, SendJob
  <2>2. CopyOK(r, j \in stalled)
    BY DEF CopyInv
  <2>3. S \in {1, 2, 3} /\ B \in Nat /\ I \in {0, 1}
    BY <2>1, SendsOf, OneOf
  <2>4. Begun(j) = B + I
    BY DEF Begun, One
  <2>5. /\ r.post \in FollowUp => S = 3
        /\ r.post \in Image => S >= 2
    BY <2>1, SendsOf
  <2>6. InHand(r) <= S * I
    <3>1. CASE I = 1
      <4>1. InHand(r) <= S
        BY <2>2, <2>3, <2>5 DEF InHand, CopyOK
      <4> QED BY <2>3, <3>1, <4>1
    <3>2. CASE I = 0
      <4>1. r.phase = "waiting" \/ (r.phase = "failed" /\ ~(r.tries < Attempts))
        BY <2>1, <3>2
      <4>2. InHand(r) = 0
        BY <4>1 DEF InHand, LostWorker, After
      <4> QED BY <2>3, <3>2, <4>2
    <3> QED BY <2>3, <3>1, <3>2
  <2>7. r.delivered <= S * B + InHand(r)
    BY <2>2 DEF CopyOK
  <2>8. InHand(r) \in Nat
    BY <2>3 DEF InHand
  <2> HIDE DEF S, B, I, r
  <2>9. S * (B + I) = S * B + S * I /\ S * B \in Nat /\ S * I \in Nat
    BY <2>3
  <2>10. r.delivered <= S * (B + I)
    BY <2>1, <2>6, <2>7, <2>8, <2>9
  <2> QED BY <2>4, <2>10 DEF r, S
<1> QED BY <1>1, TypeAlways, CopyAlways, PTL

---------------------------------------------------------------------------
(* A dedup key stands for a message that was delivered.                    *)

LEMMA KeyInductive ==
    ASSUME TypeInv, CopyInv, KeyOnlyWhenDelivered, [Next]_vars
    PROVE  KeyOnlyWhenDelivered'
<1> SUFFICES ASSUME NEW s \in dedup'
             PROVE  \E j \in Jobs' : /\ job'[j].post = s[1] /\ job'[j].dest = s[2]
                                     /\ job'[j].delivered > 0
  BY DEF KeyOnlyWhenDelivered
<1>1. CASE s \in dedup
  <2>1. PICK j \in Jobs : job[j].post = s[1] /\ job[j].dest = s[2] /\ job[j].delivered > 0
    BY <1>1 DEF KeyOnlyWhenDelivered
  <2> QED BY <2>1, JobStays
<1>2. CASE s \notin dedup
  <2>1. PICK j \in Job : SetDedup(j) /\ s = <<job[j].post, job[j].dest>>
    <3>1. dedup' # dedup
      BY <1>2
    <3>2. \E j \in Job : SetDedup(j)
      BY <3>1 DEF Next, vars, Captured, PostStep, PostThrows, StartPost, LoadTenant,
           CheckConnected, ClaimContent, PostDone, FanOut, JobStep, JobThrows, StartJob,
           EnsureReady, CheckSend, Deliver, SendThrows, LoadUsage, SaveUsage, ResetSaved,
           ConnectionLost, Reconnected, DayEnds, KeyLapses, Crash
    <3>3. PICK j \in Job : SetDedup(j)
      BY <3>2
    <3> QED BY <1>2, <3>3 DEF SetDedup
  <2>2. j \in Jobs /\ job[j].phase = "counted" /\ job[j].delivered > 0
    BY <2>1 DEF SetDedup, In, CopyInv, CopyOK, After
  <2> QED BY <2>1, <2>2, JobStays
<1> QED BY <1>1, <1>2

\* A dedup key never hides a message that was not sent (handleSendMessage sets
\* it after the send, the fan-out skips a destination by it).
THEOREM PipelineKeyOnlyWhenDelivered == Spec => []KeyOnlyWhenDelivered
<1>1. Init => KeyOnlyWhenDelivered
  BY DEF Init, KeyOnlyWhenDelivered
<1>2. TypeInv /\ CopyInv /\ KeyOnlyWhenDelivered /\ [Next]_vars => KeyOnlyWhenDelivered'
  BY KeyInductive
<1> QED BY <1>1, <1>2, TypeAlways, CopyAlways, PTL DEF Spec

---------------------------------------------------------------------------
(* One job per content and destination.                                    *)

Keyed(p) == p \in Post /\ p \notin Exempt /\ ContentOf[p] \notin lapsed

\* While its key has not lapsed, a content belongs to one post: the one that
\* fans out and the one that has jobs, and it has no job yet for a destination
\* it still has to reach.
OwnerInv ==
    /\ \A p \in Post :
         Keyed(p) /\ post[p].phase = "fanning" => claimed[ContentOf[p]] = p
    /\ \A j \in Jobs :
         Keyed(job[j].post) => claimed[ContentOf[job[j].post]] = job[j].post
    /\ \A j \in Jobs :
         Keyed(job[j].post) /\ post[job[j].post].phase = "fanning"
            => job[j].dest \notin post[job[j].post].todo
OneJobInv == OwnerInv /\ OneJobPerContent

\* Steps that add no job, claim no key and start no fan-out.
Quiet ==
    /\ \A j \in Job : job'[j] # None => /\ job[j] # None
                                        /\ job'[j].post = job[j].post
                                        /\ job'[j].dest = job[j].dest
    /\ \A p \in Post : post'[p].phase = "fanning" => post'[p] = post[p]
    /\ lapsed \subseteq lapsed'
    /\ \A c \in Content : c \notin lapsed' => claimed'[c] = claimed[c]

LEMMA QuietKeeps ==
    ASSUME TypeInv, OneJobInv, Quiet
    PROVE  OneJobInv'
<1> USE DEF Keyed
<1>1. \A j \in Jobs' : j \in Jobs /\ job'[j].post = job[j].post /\ job'[j].dest = job[j].dest
  BY DEF Quiet, Jobs
<1>2. \A j \in Jobs : job[j].post \in Post
  BY JobTyped DEF TypeInv, SendJob
<1>3. \A p \in Post : ContentOf[p] \in Content
  BY PipelineAssumption
<1>4. OneJobPerContent'
  BY <1>1 DEF OneJobInv, OneJobPerContent, Quiet
<1>5. OwnerInv'
  BY <1>1, <1>2, <1>3 DEF OneJobInv, OwnerInv, Quiet
<1> QED BY <1>4, <1>5 DEF OneJobInv

\* The claim and the fan-out are the steps that are not quiet.
LEMMA ClaimKeeps ==
    ASSUME TypeInv, OneJobInv, NEW p \in Post, ClaimContent(p)
    PROVE  OneJobInv'
<1> DEFINE c == ContentOf[p]
<1> USE DEF Keyed
<1>1. /\ \A j \in Jobs : job[j].post \in Post
      /\ \A q \in Post : ContentOf[q] \in Content
      /\ post \in [Post -> PostState] /\ claimed \in [Content -> Post \cup {None}]
      /\ None \notin Post
  BY JobTyped, PipelineAssumption DEF TypeInv, SendJob, PostsOK, KeysOK
<1>2. UNCHANGED <<job, lapsed>>
  BY DEF ClaimContent
<1>3. OneJobPerContent'
  BY <1>2 DEF OneJobInv, OneJobPerContent, Jobs
<1>4. CASE post'[p].phase = "duplicate"
  <2>1. post' = [post EXCEPT ![p].phase = "duplicate"] /\ UNCHANGED claimed
    BY <1>1, <1>4 DEF ClaimContent, PostGoesTo, PostState
  <2>2. Quiet
    BY <1>1, <1>2, <2>1 DEF Quiet, PostState
  <2> QED BY <2>2, QuietKeeps
<1>5. CASE post'[p].phase # "duplicate"
  <2>1. /\ p \in Exempt \/ claimed[c] = None
        /\ post' = [post EXCEPT ![p].phase = "fanning", ![p].todo = Destination]
        /\ claimed' = IF p \in Exempt THEN claimed ELSE [claimed EXCEPT ![c] = p]
    BY <1>1, <1>5 DEF ClaimContent, PostGoesTo, PostState
  <2>2. \A q \in Post \ {p} : post'[q] = post[q]
    BY <1>1, <2>1
  <2>3. \A j \in Jobs : Keyed(job[j].post) => claimed'[ContentOf[job[j].post]] = job[j].post
    BY <1>1, <2>1 DEF OneJobInv, OwnerInv
  <2>4. \A q \in Post : Keyed(q) /\ post'[q].phase = "fanning" => claimed'[ContentOf[q]] = q
    BY <1>1, <2>1, <2>2 DEF OneJobInv, OwnerInv
  <2>5. \A j \in Jobs : Keyed(job[j].post) => job[j].post # p
    BY <1>1, <2>1 DEF OneJobInv, OwnerInv
  <2>6. OwnerInv'
    BY <1>1, <1>2, <2>2, <2>3, <2>4, <2>5 DEF OneJobInv, OwnerInv, Jobs
  <2> QED BY <1>3, <2>6 DEF OneJobInv
<1> QED BY <1>4, <1>5

LEMMA FanOutKeeps ==
    ASSUME TypeInv, OneJobInv, NEW p \in Post, NEW d \in Destination, FanOut(p, d)
    PROVE  OneJobInv'
<1> USE DEF Keyed
<1>1. /\ \A j \in Jobs : job[j].post \in Post /\ j \in Job
      /\ \A q \in Post : ContentOf[q] \in Content
      /\ job \in [Job -> SendJob \cup {None}] /\ post[p] \in PostState
      /\ post \in [Post -> PostState]
  BY JobTyped, PipelineAssumption DEF TypeInv, SendJob, PostsOK, JobsOK
<1>2. /\ UNCHANGED <<claimed, lapsed>> /\ post[p].phase = "fanning" /\ d \in post[p].todo
      /\ post' = [post EXCEPT ![p].todo = @ \ {d}]
  BY DEF FanOut
<1>3. /\ \A q \in Post \ {p} : post'[q] = post[q]
      /\ post'[p].phase = "fanning" /\ post'[p].todo = post[p].todo \ {d}
  BY <1>1, <1>2 DEF PostState
<1>4. CASE UNCHANGED job
  <2>1. OneJobPerContent'
    BY <1>2, <1>4 DEF OneJobInv, OneJobPerContent, Jobs
  <2>2. OwnerInv'
    BY <1>1, <1>2, <1>3, <1>4 DEF OneJobInv, OwnerInv, Jobs
  <2> QED BY <2>1, <2>2 DEF OneJobInv
<1>5. CASE \E i \in Job \ Jobs : job' = [job EXCEPT ![i] = NewJob(p, d)]
  <2>1. PICK i \in Job \ Jobs : job' = [job EXCEPT ![i] = NewJob(p, d)]
    BY <1>5
  <2>2. job'[i].post = p /\ job'[i].dest = d
    BY <1>1, <2>1 DEF NewJob
  <2>3. \A j \in Jobs' : j = i \/ (j \in Jobs /\ job'[j] = job[j])
    BY <1>1, <2>1 DEF Jobs
  <2>4. OwnerInv'
    BY <1>1, <1>2, <1>3, <2>2, <2>3 DEF OneJobInv, OwnerInv
  <2>5. ASSUME NEW j \in Jobs, Keyed(p), Keyed(job[j].post), ContentOf[job[j].post] = ContentOf[p]
        PROVE  job[j].dest # d
    <3>1. claimed[ContentOf[p]] = p /\ job[j].post = p
      BY <1>1, <1>2, <2>5 DEF OneJobInv, OwnerInv
    <3> QED BY <1>2, <2>5, <3>1 DEF OneJobInv, OwnerInv
  <2>6. OneJobPerContent'
    BY <1>1, <1>2, <2>2, <2>3, <2>5 DEF OneJobInv, OneJobPerContent
  <2> QED BY <2>4, <2>6 DEF OneJobInv
<1> QED BY <1>4, <1>5 DEF FanOut

LEMMA OneJobInductive ==
    ASSUME TypeInv, OneJobInv, [Next]_vars
    PROVE  OneJobInv'
<1>1. CASE \E p \in Post : ClaimContent(p) \/ \E d \in Destination : FanOut(p, d)
  BY <1>1, ClaimKeeps, FanOutKeeps
<1>2. CASE ~\E p \in Post : ClaimContent(p) \/ \E d \in Destination : FanOut(p, d)
  <2>1. \A j \in Job : job'[j] # None => /\ job[j] # None
                                         /\ job'[j].post = job[j].post
                                         /\ job'[j].dest = job[j].dest
    <3> SUFFICES ASSUME NEW j \in Job, job'[j] # None
                 PROVE  job[j] # None /\ job'[j].post = job[j].post /\ job'[j].dest = job[j].dest
      OBVIOUS
    <3>1. ~Created(j)
      BY <1>2 DEF Created
    <3> QED BY <3>1, JobShape, JobStays DEF Untouched, Advanced, Recovered, Active, Jobs
  <2>2. \A p \in Post : post'[p].phase = "fanning" => post'[p] = post[p]
    <3> SUFFICES ASSUME NEW p \in Post, post'[p].phase = "fanning", post'[p] # post[p]
                 PROVE  FALSE
      OBVIOUS
    <3> post \in [Post -> PostState]
      BY DEF TypeInv, PostsOK
    <3>1. CASE Crash
      <4>1. post[p].phase \in PostBusy
        BY <3>1 DEF Crash
      <4>2. post'[p].phase \in {"failed", "queued"}
        BY <3>1, <4>1 DEF Crash, PostState
      <4> QED BY <4>2
    <3>2. CASE \E q \in Post : Captured(q) \/ PostStep(q) \/ PostThrows(q)
      <4>1. PICK q \in Post : \/ Captured(q) \/ StartPost(q) \/ LoadTenant(q)
                              \/ CheckConnected(q) \/ PostDone(q) \/ PostThrows(q)
        BY <1>2, <3>2 DEF PostStep
      <4>2. PICK r : r.phase # "fanning" /\ post' = [post EXCEPT ![q] = r]
        BY <4>1 DEF Captured, StartPost, LoadTenant, CheckConnected, PostDone, PostThrows,
                    PostGoesTo, PostState
      <4> QED BY <4>2
    <3>3. CASE post' = post
      BY <3>3
    <3> QED BY <3>1, <3>2, <3>3 DEF Next, vars, JobStep, JobThrows, StartJob, EnsureReady,
           CheckSend, Deliver, SendThrows, LoadUsage, SaveUsage, SetDedup, ResetSaved,
           ConnectionLost, Reconnected, DayEnds, KeyLapses
  <2>3. lapsed \subseteq lapsed' /\ \A c \in Content : c \notin lapsed' => claimed'[c] = claimed[c]
    BY <1>2 DEF Next, vars, Captured, PostStep, PostThrows, StartPost, LoadTenant,
           CheckConnected, PostDone, JobStep, JobThrows, StartJob, EnsureReady, CheckSend,
           Deliver, SendThrows, LoadUsage, SaveUsage, SetDedup, ResetSaved, ConnectionLost,
           Reconnected, DayEnds, KeyLapses, Crash, TypeInv, KeysOK
  <2>4. Quiet
    BY <2>1, <2>2, <2>3 DEF Quiet
  <2> QED BY <2>4, QuietKeeps
<1> QED BY <1>1, <1>2

\* Until its content key lapses, a content is enqueued once per destination,
\* across posts and retries (processDiscordMessage, setIfNotExists and addJob).
THEOREM PipelineOneJobPerContent == Spec => []OneJobPerContent
<1>1. Init => OneJobInv
  BY DEF Init, OneJobInv, OwnerInv, OneJobPerContent, Jobs
<1>2. TypeInv /\ OneJobInv /\ [Next]_vars => OneJobInv'
  BY OneJobInductive
<1>3. OneJobInv => OneJobPerContent
  BY DEF OneJobInv
<1> QED BY <1>1, <1>2, <1>3, TypeAlways, PTL DEF Spec
===========================================================================
