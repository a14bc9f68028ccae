------------------------- MODULE OutboundPipeline -------------------------
(***************************************************************************)
(* From a Discord post to WhatsApp messages, for one organization.  A post  *)
(* is a job of the queue 'message-processing' (QueueProcessorService): it   *)
(* claims the post's content and fans out into one job per destination on   *)
(* the queue 'whatsapp-sending', which WhatsAppService's workers send and   *)
(* count against the plan's daily limit.  BullMQ runs a job again when it   *)
(* throws, a bounded number of times, and once more when its worker died.   *)
(* The step between two awaits is an action.                                *)
(***************************************************************************)
EXTENDS Naturals, FiniteSets

CONSTANTS
    Post,          \* captured posts that match a rule
    Content,       \* content fingerprints
    ContentOf,     \* the fingerprint of each post
    Exempt,        \* posts that skip the content key: a person's, on a live channel
    Image,         \* posts with an image
    FollowUp,      \* those whose caption is too long and goes on in a second message
    Destination,   \* the rule's destinations (a rule and a destination, if rules add up)
    Standing,      \* what the consent checks may find of a destination
    Job,           \* the ids of send jobs
    None,
    Attempts,      \* BullMQ's attempts
    Concurrency,   \* of the sending workers
    DailyLimit,    \* limits.messagesPerDay
    MaxFaults,     \* bound: calls that fail, lost connections and crashes
    MaxDays        \* bound: ends of a day

PostBusy  == {"starting", "checking", "claiming", "fanning"}
PostEnded == {"forwarded", "duplicate", "dropped", "failed"}
SendPhase == {"sending", "caption", "merged", "fallback"}
JobBusy   == {"starting", "checking", "sending", "caption", "merged", "fallback",
              "sent", "counting", "counted"}
JobEnded  == {"done", "held", "failed"}

PostState == [phase : {"idle", "queued"} \cup PostBusy \cup PostEnded,
              tries : 0..Attempts, todo : SUBSET Destination]
SendJob == [post : Post, dest : Destination, phase : {"waiting"} \cup JobBusy \cup JobEnded,
            tries : 0..Attempts, copy : Nat, delivered : Nat]

ASSUME PipelineAssumption ==
    /\ ContentOf \in [Post -> Content]
    /\ Exempt \subseteq Post
    /\ FollowUp \subseteq Image /\ Image \subseteq Post
    /\ Standing \in [Destination -> SUBSET {"granted", "pending", "refused"}]
    /\ None \notin SendJob \cup Post
    /\ Post \cap Job = {}
    /\ Attempts \in Nat \ {0}
    /\ {Concurrency, DailyLimit, MaxFaults, MaxDays} \subseteq Nat

VARIABLES
    post,      \* the job of each post
    job,       \* the send jobs
    claimed,   \* wa-content keys in Redis: the post that set each
    dedup,     \* dedup keys in Redis: the pairs already sent
    stalled,   \* jobs and posts BullMQ has recovered from a dead worker
    connected, \* the organization's WhatsApp socket is open
    used,      \* usage.messagesUsed as stored
    due,       \* usage.lastReset is a day old
    resets,    \* saves of a daily reset that nobody awaits
    today,     \* messages WhatsApp took since the day began
    faults,    \* how much of MaxFaults is spent
    days,      \* how much of MaxDays is spent
    lapsed     \* history: contents whose key Redis has dropped

vars == <<post, job, claimed, dedup, stalled, connected, used, due, resets, today,
          faults, days, lapsed>>
quota == <<used, due, resets, today, days>>

Jobs == {j \in Job : job[j] # None}
In(j, phase) == j \in Jobs /\ job[j].phase = phase
Active == {j \in Jobs : job[j].phase \in JobBusy}

TypeOK ==
    /\ post \in [Post -> PostState]
    /\ job \in [Job -> SendJob \cup {None}]
    /\ claimed \in [Content -> Post \cup {None}]
    /\ dedup \subseteq Post \X Destination
    /\ stalled \subseteq Post \cup Job
    /\ connected \in BOOLEAN
    /\ due \in BOOLEAN
    /\ used \in Nat /\ resets \in Nat /\ today \in Nat
    /\ faults \in 0..MaxFaults
    /\ days \in 0..MaxDays
    /\ lapsed \subseteq Content

Init ==
    /\ post = [p \in Post |-> [phase |-> "idle", tries |-> 0, todo |-> {}]]
    /\ job = [j \in Job |-> None]
    /\ claimed = [c \in Content |-> None]
    /\ dedup = {} /\ stalled = {} /\ lapsed = {}
    /\ connected = TRUE
    /\ used = 0 /\ resets = 0 /\ today = 0
    /\ due = FALSE
    /\ faults = 0 /\ days = 0

---------------------------------------------------------------------------
\* Mutant: the limit is compared with <=.
QuotaLeftOneMore == (IF due THEN 0 ELSE used) <= DailyLimit

\* organization.canSendMessage(): on a new day the document's counter starts
\* from zero, and the save of that is started, not awaited.
QuotaLeft == (IF due THEN 0 ELSE used) < DailyLimit
QuotaRead ==
    /\ resets' = IF due THEN resets + 1 ELSE resets
    /\ UNCHANGED <<used, due, today, days>>

ResetSaved ==
    /\ resets > 0
    /\ resets' = resets - 1
    /\ used' = 0
    /\ due' = FALSE
    /\ UNCHANGED <<post, job, claimed, dedup, stalled, connected, today, faults, days, lapsed>>

Fault == faults < MaxFaults /\ faults' = faults + 1

---------------------------------------------------------------------------
\* The posts.
PostGoesTo(p, phase) == post' = [post EXCEPT ![p].phase = phase]

Captured(p) ==
    /\ post[p].phase = "idle"
    /\ PostGoesTo(p, "queued")
    /\ UNCHANGED <<job, claimed, dedup, stalled, connected, quota, faults, lapsed>>

StartPost(p) ==
    /\ post[p].phase = "queued"
    /\ PostGoesTo(p, "starting")
    /\ UNCHANGED <<job, claimed, dedup, stalled, connected, quota, faults, lapsed>>

LoadTenant(p) ==
    /\ post[p].phase = "starting"
    /\ PostGoesTo(p, IF QuotaLeft THEN "checking" ELSE "dropped")
    /\ QuotaRead
    /\ UNCHANGED <<job, claimed, dedup, stalled, connected, faults, lapsed>>

CheckConnected(p) ==
    /\ post[p].phase = "checking"
    /\ PostGoesTo(p, IF connected THEN "claiming" ELSE "dropped")
    /\ UNCHANGED <<job, claimed, dedup, stalled, connected, quota, faults, lapsed>>

\* Mutant: a retry goes on when the key is its own.
ClaimContentOwn(p) ==
    LET c == ContentOf[p] IN
    /\ post[p].phase = "claiming"
    /\ \/ /\ p \in Exempt \/ claimed[c] \in {None, p}
          /\ post' = [post EXCEPT ![p].phase = "fanning", ![p].todo = Destination]
          /\ claimed' = IF p \in Exempt THEN claimed ELSE [claimed EXCEPT ![c] = p]
       \/ /\ p \notin Exempt /\ claimed[c] \notin {None, p}
          /\ PostGoesTo(p, "duplicate")
          /\ UNCHANGED claimed
    /\ UNCHANGED <<job, dedup, stalled, connected, quota, faults, lapsed>>

\* SET NX of the content key; execute() turns an error of Redis into "not new".
ClaimContent(p) ==
    LET c == ContentOf[p] IN
    /\ post[p].phase = "claiming"
    /\ \/ /\ p \in Exempt \/ claimed[c] = None
          /\ post' = [post EXCEPT ![p].phase = "fanning", ![p].todo = Destination]
          /\ claimed' = IF p \in Exempt THEN claimed ELSE [claimed EXCEPT ![c] = p]
          /\ UNCHANGED faults
       \/ /\ p \notin Exempt /\ claimed[c] # None
          /\ PostGoesTo(p, "duplicate")
          /\ UNCHANGED <<claimed, faults>>
       \/ /\ p \notin Exempt
          /\ Fault
          /\ PostGoesTo(p, "duplicate")
          /\ UNCHANGED claimed
    /\ UNCHANGED <<job, dedup, stalled, connected, quota, lapsed>>

NewJob(p, d) ==
    [post |-> p, dest |-> d, phase |-> "waiting", tries |-> 0, copy |-> 0, delivered |-> 0]

NextId == CHOOSE j \in Job : j \notin Jobs

\* One destination: skipped if its dedup key exists, enqueued otherwise.  An
\* error of Redis reads as "does not exist".
FanOut(p, d) ==
    /\ post[p].phase = "fanning"
    /\ d \in post[p].todo
    /\ post' = [post EXCEPT ![p].todo = @ \ {d}]
    /\ \/ <<p, d>> \in dedup /\ UNCHANGED <<job, faults>>
       \/ /\ IF <<p, d>> \in dedup THEN Fault ELSE UNCHANGED faults
          /\ \E j \in Job \ Jobs : j = NextId /\ job' = [job EXCEPT ![j] = NewJob(p, d)]
    /\ UNCHANGED <<claimed, dedup, stalled, connected, quota, lapsed>>

PostDone(p) ==
    /\ post[p].phase = "fanning"
    /\ post[p].todo = {}
    /\ PostGoesTo(p, "forwarded")
    /\ UNCHANGED <<job, claimed, dedup, stalled, connected, quota, faults, lapsed>>

\* A call of the handler throws: what it did so far stays.
PostThrows(p) ==
    /\ post[p].phase \in PostBusy
    /\ Fault
    /\ LET n == post[p].tries + 1 IN
       post' = [post EXCEPT ![p] = [phase |-> IF n < Attempts THEN "queued" ELSE "failed",
                                    tries |-> n, todo |-> {}]]
    /\ UNCHANGED <<job, claimed, dedup, stalled, connected, quota, lapsed>>

---------------------------------------------------------------------------
\* The send jobs.
JobGoesTo(j, phase) == job' = [job EXCEPT ![j].phase = phase]

\* Mutant: one attempt more than BullMQ is told.
RetryOneMore(j, delivered) ==
    LET n == job[j].tries + 1 IN
    job' = [job EXCEPT ![j].phase = IF n <= Attempts THEN "waiting" ELSE "failed",
                       ![j].tries = n, ![j].copy = 0, ![j].delivered = delivered]

\* A job that throws is retried after a while, Attempts times in all.
Retry(j, delivered) ==
    LET n == job[j].tries + 1 IN
    job' = [job EXCEPT ![j].phase = IF n < Attempts THEN "waiting" ELSE "failed",
                       ![j].tries = n, ![j].copy = 0, ![j].delivered = delivered]
Fails(j) == Retry(j, job[j].delivered)

StartJob(j) ==
    /\ In(j, "waiting")
    /\ Cardinality(Active) < Concurrency
    /\ JobGoesTo(j, "starting")
    /\ UNCHANGED <<post, claimed, dedup, stalled, connected, quota, faults, lapsed>>

\* Mutant: the wait for the socket has no end.
EnsureReadyWaits(j) ==
    /\ In(j, "starting")
    /\ connected
    /\ JobGoesTo(j, "checking")
    /\ UNCHANGED <<post, claimed, dedup, stalled, connected, quota, faults, lapsed>>

\* ensureClientReady(): the socket, or an error after 45 seconds without one.
EnsureReady(j) ==
    /\ In(j, "starting")
    /\ IF connected THEN JobGoesTo(j, "checking") ELSE Fails(j)
    /\ UNCHANGED <<post, claimed, dedup, stalled, connected, quota, faults, lapsed>>

\* Mutant: the dedup key is set before the message is sent.
CheckSendMarks(j) ==
    /\ In(j, "checking")
    /\ QuotaLeft /\ "granted" \in Standing[job[j].dest]
    /\ JobGoesTo(j, "sending")
    /\ QuotaRead
    /\ dedup' = dedup \cup {<<job[j].post, job[j].dest>>}
    /\ UNCHANGED <<post, claimed, stalled, connected, faults, lapsed>>

\* The daily limit, then the destination: an error, held until the contact
\* consents, or to be sent.
CheckSend(j) ==
    /\ In(j, "checking")
    /\ \/ QuotaLeft /\ "granted" \in Standing[job[j].dest] /\ JobGoesTo(j, "sending")
       \/ QuotaLeft /\ "pending" \in Standing[job[j].dest] /\ JobGoesTo(j, "held")
       \/ (~QuotaLeft \/ "refused" \in Standing[job[j].dest]) /\ Fails(j)
    /\ QuotaRead
    /\ UNCHANGED <<post, claimed, dedup, stalled, connected, faults, lapsed>>

\* Mutant: every text that goes out goes out twice.
DeliverBoth(j) ==
    /\ j \in Jobs /\ job[j].phase \in SendPhase
    /\ connected
    /\ job' = [job EXCEPT ![j].phase =
                  IF In(j, "sending") /\ job[j].post \in FollowUp THEN "caption" ELSE "sent",
                          ![j].delivered = IF In(j, "caption") THEN @ ELSE @ + 2]
    /\ today' = today + 1
    /\ UNCHANGED <<post, claimed, dedup, stalled, connected, used, due, resets>>
    /\ UNCHANGED <<days, faults, lapsed>>

\* WhatsApp takes the message in hand: the text, the image with its caption,
\* the rest of the caption after the image, or the text that replaces one that
\* failed.  Only the rest of the caption is no copy of the post.
Deliver(j) ==
    /\ j \in Jobs /\ job[j].phase \in SendPhase
    /\ connected
    /\ job' = [job EXCEPT ![j].phase =
                  IF In(j, "sending") /\ job[j].post \in FollowUp THEN "caption" ELSE "sent",
                          ![j].delivered = IF In(j, "caption") THEN @ ELSE @ + 1]
    /\ today' = today + 1
    /\ UNCHANGED <<post, claimed, dedup, stalled, connected, used, due, resets>>
    /\ UNCHANGED <<days, faults, lapsed>>

\* The send in hand throws: no socket, or an error that WhatsApp may have taken
\* the message before.  A caption that fails is sent whole, an image or that
\* text that fails is replaced by the text, and after this the job has failed.
SendThrows(j) ==
    /\ j \in Jobs /\ job[j].phase \in SendPhase
    /\ \E taken \in {0, 1} :
        /\ \/ ~connected /\ taken = 0 /\ UNCHANGED faults
           \/ connected /\ Fault
        /\ today' = today + taken
        /\ LET n == job[j].delivered + (IF In(j, "caption") THEN 0 ELSE taken) IN
           \/ In(j, "caption") /\ job' = [job EXCEPT ![j].phase = "merged", ![j].delivered = n]
           \/ /\ In(j, "merged") \/ (In(j, "sending") /\ job[j].post \in Image)
              /\ job' = [job EXCEPT ![j].phase = "fallback", ![j].delivered = n]
           \/ /\ In(j, "fallback") \/ (In(j, "sending") /\ job[j].post \notin Image)
              /\ Retry(j, n)
    /\ UNCHANGED <<post, claimed, dedup, stalled, connected, used, due, resets, days, lapsed>>

\* updateLastMessageSent(), and the organization is loaded again.
LoadUsage(j) ==
    /\ In(j, "sent")
    /\ job' = [job EXCEPT ![j].phase = "counting", ![j].copy = used]
    /\ UNCHANGED <<post, claimed, dedup, stalled, connected, quota, faults, lapsed>>

\* incrementUsage(): the loaded counter plus one is saved.
SaveUsage(j) ==
    /\ In(j, "counting")
    /\ used' = job[j].copy + 1
    /\ job' = [job EXCEPT ![j].phase = "counted", ![j].copy = 0]
    /\ UNCHANGED <<post, claimed, dedup, stalled, connected, due, resets, today>>
    /\ UNCHANGED <<days, faults, lapsed>>

\* The dedup key is set last; an error of Redis is swallowed.
SetDedup(j) ==
    /\ In(j, "counted")
    /\ JobGoesTo(j, "done")
    /\ \/ dedup' = dedup \cup {<<job[j].post, job[j].dest>>} /\ UNCHANGED faults
       \/ Fault /\ UNCHANGED dedup
    /\ UNCHANGED <<post, claimed, stalled, connected, quota, lapsed>>

\* Another call throws: an extra image after the send, a read or a save.
JobThrows(j) ==
    /\ j \in Jobs /\ job[j].phase \in JobBusy \ (SendPhase \cup {"counted"})
    /\ Fault
    /\ Fails(j)
    /\ UNCHANGED <<post, claimed, dedup, stalled, connected, quota, lapsed>>

---------------------------------------------------------------------------
\* Redis drops a content key at the end of its time.
KeyLapses(c) ==
    /\ claimed[c] # None
    /\ claimed' = [claimed EXCEPT ![c] = None]
    /\ lapsed' = lapsed \cup {c}
    /\ UNCHANGED <<post, job, dedup, stalled, connected, quota, faults>>

ConnectionLost ==
    /\ connected
    /\ Fault
    /\ connected' = FALSE
    /\ UNCHANGED <<post, job, claimed, dedup, stalled, quota, lapsed>>

Reconnected ==
    /\ ~connected
    /\ connected' = TRUE
    /\ UNCHANGED <<post, job, claimed, dedup, stalled, quota, faults, lapsed>>

\* A day after usage.lastReset.
DayEnds ==
    /\ days < MaxDays
    /\ days' = days + 1
    /\ due' = TRUE
    /\ today' = 0
    /\ UNCHANGED <<post, job, claimed, dedup, stalled, connected, used, resets, faults, lapsed>>

\* The process dies.  BullMQ puts what it was doing back in the queue, once.
Crash ==
    LET busy == {p \in Post : post[p].phase \in PostBusy}
        Again(x, phase) == IF x \in stalled THEN "failed" ELSE phase IN
    /\ Fault
    /\ post' = [p \in Post |-> IF p \in busy
                  THEN [post[p] EXCEPT !.phase = Again(p, "queued"), !.todo = {}] ELSE post[p]]
    /\ job' = [j \in Job |-> IF j \in Active
                 THEN [job[j] EXCEPT !.phase = Again(j, "waiting"), !.copy = 0] ELSE job[j]]
    /\ stalled' = stalled \cup busy \cup Active
    /\ connected' = FALSE
    /\ resets' = 0
    /\ UNCHANGED <<claimed, dedup, used, due, today, days, lapsed>>

PostStep(p) ==
    \/ StartPost(p) \/ LoadTenant(p) \/ CheckConnected(p) \/ ClaimContent(p)
    \/ PostDone(p) \/ \E d \in Destination : FanOut(p, d)

JobStep(j) ==
    \/ StartJob(j) \/ EnsureReady(j) \/ CheckSend(j) \/ Deliver(j) \/ SendThrows(j)
    \/ LoadUsage(j) \/ SaveUsage(j) \/ SetDedup(j)

Next ==
    \/ \E p \in Post : Captured(p) \/ PostStep(p) \/ PostThrows(p)
    \/ \E j \in Job : JobStep(j) \/ JobThrows(j)
    \/ \E c \in Content : KeyLapses(c)
    \/ ResetSaved \/ ConnectionLost \/ Reconnected \/ DayEnds \/ Crash

Spec == Init /\ [][Next]_vars

\* The workers go on with their jobs while the process runs.
Fairness ==
    /\ \A p \in Post : WF_vars(PostStep(p))
    /\ \A j \in Job : WF_vars(JobStep(j))

FairSpec == Spec /\ Fairness

---------------------------------------------------------------------------
\* The content key does its work across posts and retries: while no key has
\* lapsed, no destination is given two jobs with the same content
\* (QueueProcessorService.ts, setIfNotExists before the loop of addJob).
OneJobPerContent ==
    \A i, j \in Jobs :
        LET p == job[i].post  q == job[j].post IN
        (/\ i # j
         /\ {p, q} \cap Exempt = {}
         /\ ContentOf[p] = ContentOf[q]
         /\ job[i].dest = job[j].dest) => ContentOf[p] \in lapsed

\* The attempts a job has begun, the one lost with a dead worker included.
Begun(j) ==
    LET r == job[j] IN
    r.tries + (IF j \in stalled THEN 1 ELSE 0)
            + (IF r.phase # "waiting" /\ r.tries < Attempts THEN 1 ELSE 0)

\* The sends of one attempt that may each leave a copy: the message, what
\* replaces the image, what replaces the rest of the caption.
Sends(p) == 1 + (IF p \in Image THEN 1 ELSE 0) + (IF p \in FollowUp THEN 1 ELSE 0)

\* Every copy a destination has is paid for by an attempt: one for a text, two
\* for an image, three for an image with a long caption; the fall-backs of a
\* failed send do not lead to one another (the nested catches of
\* handleSendMessage, BullMQ's attempts and its recovery of a dead worker).
CopiesCostAttempts ==
    \A j \in Jobs : job[j].delivered <= Sends(job[j].post) * Begun(j)

\* A dedup key never hides a message that was not sent: its pair was delivered
\* by some job (handleSendMessage sets it last, the fan-out skips by it).
KeyOnlyWhenDelivered ==
    \A s \in dedup :
        \E j \in Jobs : job[j].post = s[1] /\ job[j].dest = s[2] /\ job[j].delivered > 0

\* WhatsApp takes no more messages in a day than the plan allows (the error
\* 'Limite diario de mensagens atingido' of handleSendMessage).
WithinDailyLimit == today <= DailyLimit

\* Every captured post and every send job it led to comes to an end: no job
\* waits for ever for a connection, a slot or another attempt.
PostsSettle ==
    <>[](/\ \A p \in Post : post[p].phase \in {"idle"} \cup PostEnded
         /\ \A j \in Jobs : job[j].phase \in JobEnded)
===========================================================================
