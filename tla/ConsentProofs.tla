---------------------------- MODULE ConsentProofs ----------------------------
(***************************************************************************)
(* Consent keeps its types, accepts a contact by the contact's word alone,  *)
(* lets a refusal stand, flushes what was held, and keeps each message in   *)
(* one place, for any messages and any limits.                              *)
(***************************************************************************)
EXTENDS Consent, FiniteSetTheorems, SequenceTheorems, TLAPS

\* What a handler knows of the documents it loaded.
JobSound(j) == j.step \in {"asking", "saving"} => j.count < MaxPending /\ j.held # <<>>
PanelSound == panel.op = "approve" => panel.doc.approvals < MaxApprovals
HandSound ==
    /\ hand.step = "answer" => hand.doc.status = "PENDING"
    /\ hand.step = "optOut" => hand.doc.status = "ACCEPTED"
    /\ hand.step = "replay" <=> hand.queue # <<>>
    /\ hand.step = "clear" /\ hand.fresh => hand.doc.held = row.held /\ row.held # <<>>
    /\ hand.refused => hand.step \in {"telling", "inbox", "channel"}
Sound == (\A m \in Msg : JobSound(job[m])) /\ PanelSound /\ HandSound

\* An ACCEPTED contact's last answer was taken as a yes.
TakenAsYes ==
    \/ hist.untold
    \/ (row.status = "ACCEPTED" \/ hand.queue # <<>>) => hist.word = "yes"

\* What the contact's last word stands for.
WordKept ==
    /\ hand.refused /\ hand.step # "telling" => hist.untold
    /\ hand.step \in {"thanks", "flush", "clear", "replay"} => hist.word = "yes" \/ hist.untold
    /\ TakenAsYes
    /\ RefusalHeldUnlessUntold

\* What waits for an accepted contact is about to be flushed.
FlushDue ==
    row.status = "ACCEPTED" /\ row.held # <<>> /\ ~hist.torn
       => hand.step \in {"thanks", "flush", "clear"}

\* The places of m, were held what the document holds.
Places(m, held) == Occurrences(m, held) + Occurrences(m, hand.queue) + hist.sent[m]
Holding(j) == j.step \in {"asking", "saving"} /\ j.fresh
Waiting(j) == j.step \in {"waiting", "sending", "asking", "saving"}
Due(j) == IF Waiting(j) THEN 1 ELSE 0

\* A message is sent again only after a fault.
SentSeldom ==
    \A m \in Msg :
       /\ Places(m, row.held) + Due(job[m]) <= 1 + hist.faults
       /\ \A k \in Msg : Holding(job[k]) =>
            Places(m, job[k].held) + (IF m = k THEN 0 ELSE Due(job[m])) <= 1 + hist.faults

\* HeldOnce, also of what a send is about to store.
Settled(j) == j.step \in {"settling", "done"}
Tallied(settled, places, dropped) ==
    IF settled THEN places = 1 \/ (places = 0 /\ dropped) ELSE places = 0
Once(m, held) == Tallied(Settled(job[m]), Places(m, held), m \in hist.dropped)
OnceAlways ==
    hist.crashed \/ \A m \in Msg :
       /\ Once(m, row.held)
       /\ \A k \in Msg : Holding(job[k]) =>
            IF m = k THEN /\ Occurrences(m, job[k].held) = 1
                          /\ Occurrences(m, hand.queue) + hist.sent[m] = 0
                     ELSE Once(m, job[k].held)

---------------------------------------------------------------------------
(* How often a message occurs in a sequence.                               *)

\* Where it occurs is a finite set.
LEMMA OccursFinitely ==
    ASSUME NEW m, NEW s \in Seq(Msg)
    PROVE  /\ IsFiniteSet({i \in DOMAIN s : s[i] = m})
           /\ Occurrences(m, s) \in Nat
<1>1. Len(s) \in Nat /\ DOMAIN s = 1..Len(s)
  BY LenProperties
<1>2. IsFiniteSet(1..Len(s))
  BY <1>1, FS_Interval
<1>3. {i \in DOMAIN s : s[i] = m} \in SUBSET (1..Len(s))
  BY <1>1
<1>4. IsFiniteSet({i \in DOMAIN s : s[i] = m})
  BY <1>2, <1>3, FS_Subset
<1> QED
  BY <1>4, FS_CardinalityType DEF Occurrences

\* No message occurs in the empty sequence.
LEMMA OccursNowhere == \A m : Occurrences(m, <<>>) = 0
<1>1. \A m : {i \in DOMAIN <<>> : <<>>[i] = m} = {}
  OBVIOUS
<1> QED
  BY <1>1, FS_EmptySet DEF Occurrences

\* It occurs where the sequence has it as an element.
LEMMA OccursIn ==
    ASSUME NEW m, NEW s \in Seq(Msg)
    PROVE  Occurrences(m, s) # 0 <=> m \in ToSet(s)
<1>1. IsFiniteSet({i \in DOMAIN s : s[i] = m})
  BY OccursFinitely
<1>2. Occurrences(m, s) = 0 <=> {i \in DOMAIN s : s[i] = m} = {}
  BY <1>1, FS_EmptySet DEF Occurrences
<1> QED
  BY <1>2 DEF ToSet

\* Appending a message adds one occurrence of it.
LEMMA OccursAppended ==
    ASSUME NEW m, NEW s \in Seq(Msg), NEW x \in Msg
    PROVE  Occurrences(m, Append(s, x)) = Occurrences(m, s) + IF x = m THEN 1 ELSE 0
<1> DEFINE at == {i \in DOMAIN s : s[i] = m}
           t  == Append(s, x)
           n  == Len(s) + 1
<1>1. /\ DOMAIN s = 1..Len(s) /\ Len(s) \in Nat
      /\ DOMAIN t = 1..n /\ t[n] = x /\ \A i \in 1..Len(s) : t[i] = s[i]
  BY LenProperties, AppendProperties
<1>2. IsFiniteSet(at) /\ Cardinality(at) = Occurrences(m, s)
      /\ Occurrences(m, s) \in Nat
  BY OccursFinitely DEF Occurrences
<1>3. n \notin at
  BY <1>1
<1>4. CASE x = m
  <2>1. {i \in DOMAIN t : t[i] = m} = at \cup {n}
    BY <1>1, <1>4
  <2>2. Occurrences(m, t) = Cardinality(at \cup {n})
    BY <2>1 DEF Occurrences
  <2> HIDE DEF at, n
  <2> QED
    BY <1>2, <1>4, <1>3, <2>2, FS_AddElement
<1>5. CASE x # m
  <2>1. {i \in DOMAIN t : t[i] = m} = at
    BY <1>1, <1>5
  <2>2. Occurrences(m, t) = Cardinality(at)
    BY <2>1 DEF Occurrences
  <2> HIDE DEF at
  <2> QED
    BY <1>2, <1>5, <2>2
<1> QED
  BY <1>4, <1>5

\* Taking the head away.
LEMMA OccursAfterHead ==
    ASSUME NEW m, NEW s \in Seq(Msg), s # <<>>
    PROVE  Occurrences(m, s) = Occurrences(m, Tail(s)) + IF Head(s) = m THEN 1 ELSE 0
<1> DEFINE at   == {i \in DOMAIN s : s[i] = m}
           rest == at \ {1}
           left == {i \in DOMAIN Tail(s) : Tail(s)[i] = m}
           f    == [i \in left |-> i + 1]
<1>1. /\ DOMAIN s = 1..Len(s) /\ Len(s) \in Nat \ {0} /\ Head(s) = s[1]
      /\ Tail(s) \in Seq(Msg) /\ DOMAIN Tail(s) = 1..(Len(s) - 1)
      /\ \A i \in 1..(Len(s) - 1) : Tail(s)[i] = s[i+1]
  BY LenProperties, HeadTailProperties, EmptySeq
<1>2. IsFiniteSet(at) /\ IsFiniteSet(left) /\ Cardinality(at) \in Nat /\ Cardinality(left) \in Nat
  BY <1>1, OccursFinitely DEF Occurrences
<1>3. f \in [left -> rest]
  BY <1>1
<1>4. \A i, j \in left : f[i] = f[j] => i = j
  BY <1>1
<1>5. \A j \in rest : \E i \in left : f[i] = j
  <2> SUFFICES ASSUME NEW j \in rest PROVE \E i \in left : f[i] = j
    OBVIOUS
  <2>1. j - 1 \in left /\ f[j - 1] = j
    BY <1>1
  <2> QED
    BY <2>1
<1> HIDE DEF f, rest, left
<1>6. f \in Bijection(left, rest)
  BY <1>3, <1>4, <1>5 DEF Bijection, Injection, Surjection, IsInjective
<1>7. Cardinality(rest) = Cardinality(left)
  BY <1>2, <1>6, FS_Bijection DEF ExistsBijection
<1>8. Cardinality(rest) = IF 1 \in at THEN Cardinality(at) - 1 ELSE Cardinality(at)
  BY <1>2, FS_RemoveElement DEF rest
<1>9. 1 \in at <=> Head(s) = m
  BY <1>1
<1>10. Occurrences(m, s) = Cardinality(at) /\ Occurrences(m, Tail(s)) = Cardinality(left)
  BY DEF Occurrences, left
<1> HIDE DEF at
<1> QED
  BY <1>2, <1>7, <1>8, <1>9, <1>10

---------------------------------------------------------------------------
(* Records.                                                                *)

\* The limits, as far as the proofs need them.
LEMMA Bounds ==
    /\ MaxPending \in Nat /\ MaxApprovals \in Nat /\ MaxPanel \in Nat /\ MaxFaults \in Nat
    /\ MaxApprovals <= MaxPending
BY ConsentAssumption

\* The changes of a document keep it one.
LEMMA RowChanged ==
    ASSUME NEW d \in Row
    PROVE  /\ \A s \in Statuses : [d EXCEPT !.status = s] \in Row
           /\ \A p \in 0..2 : [d EXCEPT !.prompted = p] \in Row
           /\ \A h \in Seq(Msg) : [d EXCEPT !.held = h] \in Row
           /\ \A n \in 0..MaxPending : [d EXCEPT !.count = n] \in Row
           /\ \A a \in 0..MaxApprovals : [d EXCEPT !.approvals = a] \in Row
           /\ \A b \in BOOLEAN : [d EXCEPT !.optOut = b] \in Row
<1>1. \A s \in Statuses : [d EXCEPT !.status = s] \in Row
  BY Zenon DEF Row
<1>2. \A p \in 0..2 : [d EXCEPT !.prompted = p] \in Row
  BY Zenon DEF Row
<1>3. \A h \in Seq(Msg) : [d EXCEPT !.held = h] \in Row
  BY Zenon DEF Row
<1>4. \A n \in 0..MaxPending : [d EXCEPT !.count = n] \in Row
  BY Zenon DEF Row
<1>5. \A a \in 0..MaxApprovals : [d EXCEPT !.approvals = a] \in Row
  BY Zenon DEF Row
<1>6. \A b \in BOOLEAN : [d EXCEPT !.optOut = b] \in Row
  BY Zenon DEF Row
<1> QED
  BY <1>1, <1>2, <1>3, <1>4, <1>5, <1>6

\* A new contact's document is one.
LEMMA NewRowTyped == NewRow \in Row
<1>1. <<>> \in Seq(Msg) /\ 0 \in 0..MaxPending /\ 0 \in 0..MaxApprovals /\ 0 \in 0..2
  BY Bounds, EmptySeq
<1>2. "PENDING" \in Statuses
  BY DEF Statuses
<1> QED
  BY Zenon, <1>1, <1>2 DEF NewRow, Row

\* applyStatus.
LEMMA AppliedRow ==
    ASSUME NEW d \in Row, NEW s \in Statuses
    PROVE  /\ Applied(d, s) \in Row /\ Applied(d, s).status = s
           /\ Applied(d, s).held = IF s \in Refusals THEN <<>> ELSE d.held
<1>1. <<>> \in Seq(Msg) /\ 0 \in 0..MaxPending /\ 0 \in 0..2 /\ FALSE \in BOOLEAN
  BY Bounds, EmptySeq
<1> DEFINE yes   == [d EXCEPT !.status = s, !.optOut = FALSE, !.count = 0, !.prompted = 0]
           no    == [d EXCEPT !.status = s, !.optOut = FALSE, !.prompted = 0, !.held = <<>>]
           other == [d EXCEPT !.status = s, !.optOut = FALSE]
<1>2. yes \in Row
  BY Zenon, <1>1 DEF Row
<1>3. no \in Row
  BY Zenon, <1>1 DEF Row
<1>4. other \in Row
  BY Zenon, <1>1 DEF Row
<1>5. /\ yes.status = s /\ no.status = s /\ other.status = s
      /\ yes.held = d.held /\ no.held = <<>> /\ other.held = d.held
  BY DEF Row
<1>6. Applied(d, s) = CASE s = "ACCEPTED" -> yes [] s \in Refusals -> no [] OTHER -> other
  BY DEF Applied
<1> HIDE DEF yes, no, other
<1>7. "ACCEPTED" \notin Refusals
  BY DEF Refusals
<1> QED
  BY <1>2, <1>3, <1>4, <1>5, <1>6, <1>7

\* A save writes the fields that differ from those loaded.
LEMMA MergeRow ==
    ASSUME NEW stored \in Row, NEW doc \in Row, NEW new \in Row
    PROVE  /\ Merge(stored, doc, new) \in Row
           /\ Merge(stored, doc, new).status =
                IF new.status = doc.status THEN stored.status ELSE new.status
           /\ Merge(stored, doc, new).held =
                IF new.held = doc.held THEN stored.held ELSE new.held
<1> DEFINE pick(x, y, z) == IF x = y THEN z ELSE x
           m == Merge(stored, doc, new)
<1>0. DOMAIN stored = {"status", "prompted", "held", "count", "approvals", "optOut"}
  BY DEF Row
<1>1. /\ m.status = pick(new.status, doc.status, stored.status)
      /\ m.prompted = pick(new.prompted, doc.prompted, stored.prompted)
      /\ m.held = pick(new.held, doc.held, stored.held)
      /\ m.count = pick(new.count, doc.count, stored.count)
      /\ m.approvals = pick(new.approvals, doc.approvals, stored.approvals)
      /\ m.optOut = pick(new.optOut, doc.optOut, stored.optOut)
  BY <1>0 DEF Merge
<1>2. /\ pick(new.status, doc.status, stored.status) \in Statuses
      /\ pick(new.prompted, doc.prompted, stored.prompted) \in 0..2
      /\ pick(new.held, doc.held, stored.held) \in Seq(Msg)
      /\ pick(new.count, doc.count, stored.count) \in 0..MaxPending
      /\ pick(new.approvals, doc.approvals, stored.approvals) \in 0..MaxApprovals
      /\ pick(new.optOut, doc.optOut, stored.optOut) \in BOOLEAN
  BY Zenon DEF Row
<1>3. m = [f \in DOMAIN stored |-> m[f]] /\ DOMAIN m = DOMAIN stored
  BY DEF Merge
<1> HIDE DEF m, pick
<1>4. m \in Row
  BY <1>0, <1>1, <1>2, <1>3 DEF Row
<1> QED
  BY <1>1, <1>4 DEF m, pick

JobStep  == {"waiting", "sending", "asking", "saving", "settling", "done", "failed"}
Job      == [ step: JobStep, held: Seq(Msg), count: 0..MaxPending, asked: BOOLEAN, fresh: BOOLEAN ]
HandStep == {"idle", "answer", "open", "optOut", "thanks", "telling", "flush",
             "clear", "replay", "inbox", "channel"}
Hand     == [ step: HandStep, text: Text \cup {""}, doc: Row, fresh: BOOLEAN,
              queue: Seq(Msg), refused: BOOLEAN ]
Panel    == [ op: {"none", "approve", "clear", "block"}, doc: Row ]
Hist     == [ word: {"none", "yes", "no"}, released: BOOLEAN, untold: BOOLEAN, torn: BOOLEAN,
              dropped: SUBSET Msg, sent: [Msg -> 0..MaxFaults + 1], faults: 0..MaxFaults,
              crashed: BOOLEAN, requests: 0..MaxPanel ]

\* Types, with a name for each record.
LEMMA Typed ==
    Types <=> /\ row \in Row /\ job \in [Msg -> Job] /\ hand \in Hand /\ panel \in Panel
               /\ renewal \in BOOLEAN /\ hist \in Hist
BY DEF Types, Job, JobStep, Hand, HandStep, Panel, Hist

\* The changes of a send job keep it one.
LEMMA JobChanged ==
    ASSUME NEW j \in Job
    PROVE  /\ \A s \in JobStep : [j EXCEPT !.step = s] \in Job
           /\ \A s \in JobStep, b \in BOOLEAN : [j EXCEPT !.step = s, !.asked = b] \in Job
           /\ \A b \in BOOLEAN : [j EXCEPT !.fresh = b] \in Job
<1>1. \A s \in JobStep : [j EXCEPT !.step = s] \in Job
  BY Zenon DEF Job
<1>2. \A s \in JobStep, b \in BOOLEAN : [j EXCEPT !.step = s, !.asked = b] \in Job
  BY Zenon DEF Job
<1>3. \A b \in BOOLEAN : [j EXCEPT !.fresh = b] \in Job
  BY Zenon DEF Job
<1> QED
  BY <1>1, <1>2, <1>3

\* The jobs the code makes.
LEMMA JobMade ==
    ASSUME NEW s \in JobStep, NEW h \in Seq(Msg), NEW n \in 0..MaxPending
    PROVE  /\ NoJob(s) \in Job /\ NoJob(s).step = s
           /\ [step |-> s, held |-> h, count |-> n, asked |-> FALSE, fresh |-> TRUE] \in Job
<1>1. <<>> \in Seq(Msg) /\ 0 \in 0..MaxPending
  BY Bounds, EmptySeq
<1>2. TRUE \in BOOLEAN /\ FALSE \in BOOLEAN
  OBVIOUS
<1>3. NoJob(s) \in Job
  BY Zenon, <1>1, <1>2 DEF NoJob, Job
<1>4. [step |-> s, held |-> h, count |-> n, asked |-> FALSE, fresh |-> TRUE] \in Job
  BY Zenon, <1>2 DEF Job
<1> QED
  BY <1>3, <1>4 DEF NoJob

\* A save of the array leaves only the jobs that loaded nothing up to date.
LEMMA OutOfDateJobs ==
    ASSUME NEW jobs \in [Msg -> Job]
    PROVE  /\ OutOfDate(jobs) \in [Msg -> Job]
           /\ \A m \in Msg : /\ OutOfDate(jobs)[m].step = jobs[m].step
                             /\ OutOfDate(jobs)[m].held = jobs[m].held
                             /\ OutOfDate(jobs)[m].count = jobs[m].count
                             /\ OutOfDate(jobs)[m].fresh => jobs[m].held = <<>>
<1> DEFINE new(m) == [jobs[m] EXCEPT !.fresh = jobs[m].fresh /\ jobs[m].held = <<>>]
<1>1. \A m \in Msg : (jobs[m].fresh /\ jobs[m].held = <<>>) \in BOOLEAN
  BY Zenon
<1>2. ASSUME NEW m \in Msg
      PROVE  /\ new(m) \in Job
             /\ new(m).step = jobs[m].step /\ new(m).held = jobs[m].held
             /\ new(m).count = jobs[m].count
             /\ new(m).fresh => jobs[m].held = <<>>
  <2>1. jobs[m] \in Job
    OBVIOUS
  <2>2. new(m) \in Job
    BY Zenon, <1>1, <2>1, JobChanged
  <2>3. new(m).step = jobs[m].step /\ new(m).held = jobs[m].held /\ new(m).count = jobs[m].count
    BY <2>1 DEF Job
  <2>4. new(m).fresh => jobs[m].held = <<>>
    BY Zenon, <2>1 DEF Job
  <2> QED
    BY <2>2, <2>3, <2>4
<1>3. OutOfDate(jobs) = [m \in Msg |-> new(m)]
  BY DEF OutOfDate
<1> HIDE DEF new
<1> QED
  BY <1>2, <1>3

\* The handler's records.
LEMMA HandChanged ==
    ASSUME NEW h \in Hand
    PROVE  /\ \A s \in HandStep, d \in Row : [h EXCEPT !.step = s, !.doc = d] \in Hand
           /\ \A s \in HandStep, d \in Row, b \in BOOLEAN :
                [h EXCEPT !.step = s, !.doc = d, !.fresh = b] \in Hand
           /\ \A s \in HandStep, q \in Seq(Msg) : [h EXCEPT !.step = s, !.queue = q] \in Hand
           /\ \A q \in Seq(Msg) : [h EXCEPT !.queue = q] \in Hand
           /\ \A b \in BOOLEAN : [h EXCEPT !.fresh = b] \in Hand
           /\ \A s \in HandStep, b \in BOOLEAN : [h EXCEPT !.step = s, !.refused = b] \in Hand
           /\ \A t \in Text, d \in Row, s \in HandStep :
                [h EXCEPT !.text = t, !.doc = d, !.step = s] \in Hand
<1>1. \A s \in HandStep, d \in Row : [h EXCEPT !.step = s, !.doc = d] \in Hand
  BY Zenon DEF Hand
<1>2. \A s \in HandStep, d \in Row, b \in BOOLEAN :
        [h EXCEPT !.step = s, !.doc = d, !.fresh = b] \in Hand
  BY Zenon DEF Hand
<1>3. \A s \in HandStep, q \in Seq(Msg) : [h EXCEPT !.step = s, !.queue = q] \in Hand
  BY Zenon DEF Hand
<1>4. \A q \in Seq(Msg) : [h EXCEPT !.queue = q] \in Hand
  BY Zenon DEF Hand
<1>5. \A b \in BOOLEAN : [h EXCEPT !.fresh = b] \in Hand
  BY Zenon DEF Hand
<1>6. \A s \in HandStep, b \in BOOLEAN : [h EXCEPT !.step = s, !.refused = b] \in Hand
  BY Zenon DEF Hand
<1>7. \A t \in Text, d \in Row, s \in HandStep :
        [h EXCEPT !.text = t, !.doc = d, !.step = s] \in Hand
  <2>1. \A t \in Text : t \in Text \cup {""}
    OBVIOUS
  <2> QED
    BY Zenon, <2>1 DEF Hand
<1> QED
  BY <1>1, <1>2, <1>3, <1>4, <1>5, <1>6, <1>7

\* A handler that has nothing to do.
LEMMA NoHandTyped ==
    /\ NoHand \in Hand /\ NoHand.step = "idle" /\ NoHand.queue = <<>> /\ NoHand.refused = FALSE
<1>1. <<>> \in Seq(Msg) /\ TRUE \in BOOLEAN /\ FALSE \in BOOLEAN
      /\ "" \in Text \cup {""} /\ "idle" \in HandStep
  BY EmptySeq DEF HandStep
<1> QED
  BY Zenon, <1>1, NewRowTyped DEF NoHand, Hand

\* The history after an acceptance.
LEMMA HistAnswered ==
    ASSUME hist \in Hist, NEW w \in {"none", "yes", "no"}, NEW u \in BOOLEAN, NEW t \in BOOLEAN,
           hist' = [hist EXCEPT !.word = w, !.untold = u, !.torn = t]
    PROVE  /\ hist' \in Hist
           /\ hist'.word = w /\ hist'.released = hist.released /\ hist'.untold = u /\ hist'.torn = t
           /\ hist'.dropped = hist.dropped /\ hist'.faults = hist.faults
           /\ hist'.crashed = hist.crashed
           /\ hist'.requests = hist.requests /\ hist'.sent = hist.sent
<1>1. hist' \in Hist
  BY Zenon DEF Hist
<1>2. /\ hist'.word = w /\ hist'.released = hist.released /\ hist'.untold = u /\ hist'.torn = t
      /\ hist'.dropped = hist.dropped /\ hist'.faults = hist.faults /\ hist'.crashed = hist.crashed
      /\ hist'.requests = hist.requests /\ hist'.sent = hist.sent
  BY Zenon DEF Hist
<1> QED
  BY <1>1, <1>2

\* After a refusal.
LEMMA HistRefused ==
    ASSUME hist \in Hist, NEW w \in {"none", "yes", "no"}, NEW l \in BOOLEAN,
           NEW u \in BOOLEAN, NEW d \in SUBSET Msg,
           hist' = [hist EXCEPT !.word = w, !.released = l, !.untold = u, !.dropped = d]
    PROVE  /\ hist' \in Hist
           /\ hist'.word = w /\ hist'.released = l /\ hist'.untold = u /\ hist'.torn = hist.torn
           /\ hist'.dropped = d /\ hist'.faults = hist.faults
           /\ hist'.crashed = hist.crashed
           /\ hist'.requests = hist.requests /\ hist'.sent = hist.sent
<1>1. hist' \in Hist
  BY Zenon DEF Hist
<1>2. /\ hist'.word = w /\ hist'.released = l /\ hist'.untold = u /\ hist'.torn = hist.torn
      /\ hist'.dropped = d /\ hist'.faults = hist.faults /\ hist'.crashed = hist.crashed
      /\ hist'.requests = hist.requests /\ hist'.sent = hist.sent
  BY Zenon DEF Hist
<1> QED
  BY <1>1, <1>2

\* After a message was held late.
LEMMA HistTorn ==
    ASSUME NEW h \in Hist, NEW t \in BOOLEAN
    PROVE  LET n == [h EXCEPT !.torn = t] IN
           /\ n \in Hist
           /\ n.word = h.word /\ n.released = h.released /\ n.untold = h.untold /\ n.torn = t
           /\ n.dropped = h.dropped /\ n.faults = h.faults /\ n.crashed = h.crashed
           /\ n.requests = h.requests /\ n.sent = h.sent
<1> DEFINE n == [h EXCEPT !.torn = t]
<1>1. n \in Hist
  BY Zenon DEF Hist
<1>2. /\ n.word = h.word /\ n.released = h.released /\ n.untold = h.untold /\ n.torn = t
      /\ n.dropped = h.dropped /\ n.faults = h.faults /\ n.crashed = h.crashed
      /\ n.requests = h.requests /\ n.sent = h.sent
  BY Zenon DEF Hist
<1> QED
  BY <1>1, <1>2

\* After an answer that failed.
LEMMA HistFailed ==
    ASSUME hist \in Hist, NEW f \in 0..MaxFaults, NEW u \in BOOLEAN, NEW t \in BOOLEAN,
           hist' = [hist EXCEPT !.faults = f, !.untold = u, !.torn = t]
    PROVE  /\ hist' \in Hist
           /\ hist'.word = hist.word /\ hist'.released = hist.released
           /\ hist'.untold = u /\ hist'.torn = t
           /\ hist'.dropped = hist.dropped /\ hist'.faults = f /\ hist'.crashed = hist.crashed
           /\ hist'.requests = hist.requests /\ hist'.sent = hist.sent
<1>1. hist' \in Hist
  BY Zenon DEF Hist
<1>2. /\ hist'.word = hist.word /\ hist'.released = hist.released
      /\ hist'.untold = u /\ hist'.torn = t
      /\ hist'.dropped = hist.dropped /\ hist'.faults = f /\ hist'.crashed = hist.crashed
      /\ hist'.requests = hist.requests /\ hist'.sent = hist.sent
  BY Zenon DEF Hist
<1> QED
  BY <1>1, <1>2

\* After a message was sent.
LEMMA HistSent ==
    ASSUME NEW h \in Hist, NEW s \in [Msg -> 0..MaxFaults + 1]
    PROVE  LET n == [h EXCEPT !.sent = s] IN
           /\ n \in Hist
           /\ n.word = h.word /\ n.released = h.released /\ n.untold = h.untold /\ n.torn = h.torn
           /\ n.dropped = h.dropped /\ n.faults = h.faults /\ n.crashed = h.crashed
           /\ n.requests = h.requests /\ n.sent = s
<1> DEFINE n == [h EXCEPT !.sent = s]
<1>1. n \in Hist
  BY Zenon DEF Hist
<1>2. /\ n.word = h.word /\ n.released = h.released /\ n.untold = h.untold /\ n.torn = h.torn
      /\ n.dropped = h.dropped /\ n.faults = h.faults /\ n.crashed = h.crashed
      /\ n.requests = h.requests /\ n.sent = s
  BY Zenon DEF Hist
<1> QED
  BY <1>1, <1>2

\* After one was given up.
LEMMA HistDropped ==
    ASSUME NEW h \in Hist, NEW d \in SUBSET Msg
    PROVE  LET n == [h EXCEPT !.dropped = d] IN
           /\ n \in Hist
           /\ n.word = h.word /\ n.released = h.released /\ n.untold = h.untold /\ n.torn = h.torn
           /\ n.dropped = d /\ n.faults = h.faults /\ n.crashed = h.crashed
           /\ n.requests = h.requests /\ n.sent = h.sent
<1> DEFINE n == [h EXCEPT !.dropped = d]
<1>1. n \in Hist
  BY Zenon DEF Hist
<1>2. /\ n.word = h.word /\ n.released = h.released /\ n.untold = h.untold /\ n.torn = h.torn
      /\ n.dropped = d /\ n.faults = h.faults /\ n.crashed = h.crashed
      /\ n.requests = h.requests /\ n.sent = h.sent
  BY Zenon DEF Hist
<1> QED
  BY <1>1, <1>2

\* After a request of the panel.
LEMMA HistRequested ==
    ASSUME NEW h \in Hist, NEW r \in 0..MaxPanel
    PROVE  LET n == [h EXCEPT !.requests = r] IN
           /\ n \in Hist
           /\ n.word = h.word /\ n.released = h.released /\ n.untold = h.untold /\ n.torn = h.torn
           /\ n.dropped = h.dropped /\ n.faults = h.faults /\ n.crashed = h.crashed
           /\ n.requests = r /\ n.sent = h.sent
<1> DEFINE n == [h EXCEPT !.requests = r]
<1>1. n \in Hist
  BY Zenon DEF Hist
<1>2. /\ n.word = h.word /\ n.released = h.released /\ n.untold = h.untold /\ n.torn = h.torn
      /\ n.dropped = h.dropped /\ n.faults = h.faults /\ n.crashed = h.crashed
      /\ n.requests = r /\ n.sent = h.sent
  BY Zenon DEF Hist
<1> QED
  BY <1>1, <1>2

\* After its decision.
LEMMA HistReleased ==
    ASSUME NEW h \in Hist, NEW l \in BOOLEAN
    PROVE  LET n == [h EXCEPT !.released = l] IN
           /\ n \in Hist
           /\ n.word = h.word /\ n.released = l /\ n.untold = h.untold /\ n.torn = h.torn
           /\ n.dropped = h.dropped /\ n.faults = h.faults /\ n.crashed = h.crashed
           /\ n.requests = h.requests /\ n.sent = h.sent
<1> DEFINE n == [h EXCEPT !.released = l]
<1>1. n \in Hist
  BY Zenon DEF Hist
<1>2. /\ n.word = h.word /\ n.released = l /\ n.untold = h.untold /\ n.torn = h.torn
      /\ n.dropped = h.dropped /\ n.faults = h.faults /\ n.crashed = h.crashed
      /\ n.requests = h.requests /\ n.sent = h.sent
  BY Zenon DEF Hist
<1> QED
  BY <1>1, <1>2

\* After a crash.
LEMMA HistCrashed ==
    ASSUME hist \in Hist, NEW f \in 0..MaxFaults, NEW c \in BOOLEAN, NEW t \in BOOLEAN,
           hist' = [hist EXCEPT !.faults = f, !.crashed = c, !.torn = t]
    PROVE  /\ hist' \in Hist
           /\ hist'.word = hist.word /\ hist'.released = hist.released
           /\ hist'.untold = hist.untold /\ hist'.torn = t
           /\ hist'.dropped = hist.dropped /\ hist'.faults = f /\ hist'.crashed = c
           /\ hist'.requests = hist.requests /\ hist'.sent = hist.sent
<1>1. hist' \in Hist
  BY Zenon DEF Hist
<1>2. /\ hist'.word = hist.word /\ hist'.released = hist.released
      /\ hist'.untold = hist.untold /\ hist'.torn = t
      /\ hist'.dropped = hist.dropped /\ hist'.faults = f /\ hist'.crashed = c
      /\ hist'.requests = hist.requests /\ hist'.sent = hist.sent
  BY Zenon DEF Hist
<1> QED
  BY <1>1, <1>2

---------------------------------------------------------------------------
(* Where the messages are after a step.                                    *)

Kept == Types /\ Sound

\* No message moves.
Still ==
    /\ row'.held = row.held /\ hand'.queue = hand.queue /\ job' = job
    /\ hist'.sent = hist.sent /\ hist'.dropped = hist.dropped
    /\ hist'.faults >= hist.faults /\ hist'.crashed = hist.crashed

\* A send goes on with what it loaded.
JobMoves(m) ==
    \E j \in Job :
       /\ job' = [job EXCEPT ![m] = j] /\ UNCHANGED <<row, hand, hist>>
       /\ Settled(j) <=> Settled(job[m])
       /\ Waiting(j) => Waiting(job[m])
       /\ Holding(j) => \/ j.held = Append(row.held, m) /\ ~Settled(job[m]) /\ Waiting(job[m])
                        \/ j.held = job[m].held /\ Holding(job[m])

\* The message of a send is held.
Holds(m) ==
    /\ Holding(job[m])
    /\ row'.held = job[m].held
    /\ job' = [OutOfDate(job) EXCEPT ![m] = NoJob("settling")]
    /\ hand'.queue = hand.queue
    /\ hist'.sent = hist.sent /\ hist'.dropped = hist.dropped
    /\ hist'.faults = hist.faults /\ hist'.crashed = hist.crashed

\* It is sent.
Delivers(m) ==
    /\ job[m].step = "sending" /\ job' = [job EXCEPT ![m] = NoJob("settling")]
    /\ UNCHANGED <<row, hand>>
    /\ hist'.sent = [hist.sent EXCEPT ![m] = @ + 1] /\ hist'.dropped = hist.dropped
    /\ hist'.faults = hist.faults /\ hist'.crashed = hist.crashed

\* Nothing that was loaded of the contact changes.
LEMMA OneJob ==
    ASSUME Kept, NEW m \in Msg, NEW j \in Job, job' = [job EXCEPT ![m] = j], JobSound(j),
           UNCHANGED <<row, hand, panel, renewal, hist>>
    PROVE  Kept'
<1>1. job \in [Msg -> Job]
  BY Typed DEF Kept
<1>2. job' \in [Msg -> Job] /\ \A k \in Msg : JobSound(job'[k])
  BY <1>1 DEF Kept, Sound
<1>3. Types'
  <2>1. row' \in Row /\ hand' \in Hand /\ panel' \in Panel /\ renewal' \in BOOLEAN /\ hist' \in Hist
    BY Typed DEF Kept
  <2> QED
    BY <1>2, <2>1 DEF Types, Job, JobStep, Hand, HandStep, Panel, Hist
<1>4. PanelSound' /\ HandSound'
  BY DEF Kept, Sound, PanelSound, HandSound
<1> QED
  BY <1>2, <1>3, <1>4 DEF Kept, Sound, JobSound

\* A send that fails is tried again or given up.
LEMMA RetryStep ==
    ASSUME Kept, NEW m \in Msg, Waiting(job[m]), Retry(m)
    PROVE  Kept' /\ JobMoves(m)
<1>1. PICK step \in {"waiting", "failed"} : job' = [job EXCEPT ![m] = NoJob(step)]
  BY DEF Retry
<1>2. <<>> \in Seq(Msg) /\ 0 \in 0..MaxPending
  BY Bounds, EmptySeq
<1>3. NoJob(step) \in Job /\ NoJob(step).step = step
  BY <1>2, JobMade DEF JobStep
<1>4. UNCHANGED <<row, hand, panel, renewal, hist>>
  BY DEF Retry
<1>5. JobSound(NoJob(step))
  BY <1>3 DEF JobSound
<1>6. Kept'
  BY <1>1, <1>3, <1>4, <1>5, OneJob
<1>7. JobMoves(m)
  BY <1>1, <1>3, <1>4 DEF JobMoves, Settled, Waiting, Holding
<1> QED
  BY <1>6, <1>7

\* Loading the contact for a send.
LEMMA LoadStep ==
    ASSUME Kept, NEW m \in Msg, SendLoad(m)
    PROVE  Kept' /\ JobMoves(m)
<1> DEFINE held == [ step |-> IF row.prompted = 1 THEN "saving" ELSE "asking",
                     held |-> Append(row.held, m), count |-> row.count,
                     asked |-> FALSE, fresh |-> TRUE ]
           j == IF row.status = "ACCEPTED" THEN NoJob("sending") ELSE held
<1>1. /\ job[m].step = "waiting" /\ MaySend(row) /\ job' = [job EXCEPT ![m] = j]
      /\ UNCHANGED <<row, hand, panel, renewal, hist>>
  BY DEF SendLoad
<1>2. /\ row.held \in Seq(Msg) /\ row.count \in 0..MaxPending
  BY Typed DEF Kept, Row
<1>3. Append(row.held, m) \in Seq(Msg) /\ Append(row.held, m) # <<>>
  BY <1>2, AppendProperties
<1>4. held \in Job
  <2> DEFINE step == IF row.prompted = 1 THEN "saving" ELSE "asking"
  <2>1. step \in JobStep
    BY DEF JobStep
  <2> QED
    BY <1>2, <1>3, <2>1, JobMade
<1>5. <<>> \in Seq(Msg) /\ 0 \in 0..MaxPending
  BY Bounds, EmptySeq
<1>6. NoJob("sending") \in Job /\ NoJob("sending").step = "sending"
  BY <1>5, JobMade DEF JobStep
<1>7. /\ held.step \in {"saving", "asking"} /\ held.held = Append(row.held, m)
      /\ held.count = row.count
  OBVIOUS
<1> HIDE DEF held
<1>8. j \in Job
  BY <1>4, <1>6
<1>9. JobSound(j)
  <2>1. CASE row.status = "ACCEPTED"
    BY <1>6, <2>1 DEF JobSound
  <2>2. CASE row.status # "ACCEPTED"
    BY <1>1, <1>3, <1>7, <2>2 DEF JobSound, MaySend
  <2> QED
    BY <2>1, <2>2
<1>10. Kept'
  BY <1>1, <1>8, <1>9, OneJob
<1>11. Waiting(job[m]) /\ ~Settled(job[m])
  BY <1>1 DEF Waiting, Settled
<1>12. /\ ~Settled(j)
       /\ Holding(j) => j.held = Append(row.held, m)
  BY <1>6, <1>7 DEF Settled, Holding
<1> QED
  BY <1>1, <1>8, <1>10, <1>11, <1>12 DEF JobMoves

\* The prompt goes out, or a send that is through ends.
LEMMA AskStep ==
    ASSUME Kept, NEW m \in Msg, Ask(m) \/ Settle(m)
    PROVE  Kept' /\ JobMoves(m)
<1>1. job[m] \in Job /\ JobSound(job[m])
  BY Typed DEF Kept, Sound
<1>2. CASE job[m].step = "asking" /\ Retry(m)
  BY <1>2, RetryStep DEF Waiting
<1>3. CASE /\ job[m].step = "asking"
           /\ job' = [job EXCEPT ![m].step = "saving", ![m].asked = TRUE]
           /\ UNCHANGED <<row, hand, panel, renewal, hist>>
  <2> DEFINE j == [job[m] EXCEPT !.step = "saving", !.asked = TRUE]
  <2>1. "saving" \in JobStep /\ TRUE \in BOOLEAN
    BY DEF JobStep
  <2>2. j \in Job
    BY Zenon, <1>1, <2>1, JobChanged
  <2>3. j.step = "saving" /\ j.held = job[m].held /\ j.count = job[m].count
        /\ j.fresh = job[m].fresh
    BY Zenon, <1>1 DEF Job
  <2>4. job' = [job EXCEPT ![m] = j]
    BY <1>3
  <2> HIDE DEF j
  <2>5. JobSound(j)
    BY <1>1, <1>3, <2>3 DEF JobSound
  <2>6. Kept'
    BY <1>3, <2>2, <2>4, <2>5, OneJob
  <2>7. Holding(j) => Holding(job[m])
    BY Zenon, <1>3, <2>3 DEF Holding
  <2>8. ~Settled(j) /\ ~Settled(job[m]) /\ Waiting(job[m])
    BY <1>3, <2>3 DEF Settled, Waiting
  <2> QED
    BY <1>3, <2>2, <2>3, <2>4, <2>6, <2>7, <2>8 DEF JobMoves
<1>4. CASE Settle(m)
  <2>1. <<>> \in Seq(Msg) /\ 0 \in 0..MaxPending
    BY Bounds, EmptySeq
  <2>2. NoJob("done") \in Job /\ NoJob("done").step = "done"
    BY <2>1, JobMade DEF JobStep
  <2>3. job[m].step = "settling" /\ job' = [job EXCEPT ![m] = NoJob("done")]
        /\ UNCHANGED <<row, hand, panel, renewal, hist>>
    BY <1>4 DEF Settle
  <2>4. Kept'
    BY <2>2, <2>3, OneJob DEF JobSound
  <2> QED
    BY <2>2, <2>3, <2>4 DEF JobMoves, Settled, Waiting, Holding
<1> QED
  BY <1>2, <1>3, <1>4 DEF Ask

\* The contact's word and the handler's place stay what they are; nothing is
\* held that an accepted contact would wait for, unless torn.
WordsStay ==
    /\ row'.status = row.status
    /\ row'.held \in {row.held, <<>>} \/ row.status # "ACCEPTED" \/ hist'.torn
    /\ hand'.step = hand.step /\ hand'.refused = hand.refused /\ hand'.queue = hand.queue
    /\ hist'.word = hist.word /\ hist'.released = hist.released /\ hist'.untold = hist.untold
    /\ hist.torn => hist'.torn

\* The save that holds a message.
LEMMA HoldStep ==
    ASSUME Kept, NEW m \in Msg, Hold(m)
    PROVE  Kept' /\ (JobMoves(m) \/ (Holds(m) /\ WordsStay))
<1>0. /\ row \in Row /\ job \in [Msg -> Job] /\ hand \in Hand /\ panel \in Panel
      /\ renewal \in BOOLEAN /\ hist \in Hist
  BY Typed DEF Kept
<1>1. job[m].step = "saving" /\ job[m] \in Job /\ JobSound(job[m])
  BY <1>0 DEF Hold, Kept, Sound
<1>2. CASE ~job[m].fresh /\ Retry(m)
  BY <1>1, <1>2, RetryStep DEF Waiting
<1>3. CASE /\ job[m].fresh
           /\ row' = [row EXCEPT
                       !.held = job[m].held,
                       !.prompted = IF job[m].asked THEN 1 ELSE @,
                       !.count = IF job[m].asked THEN job[m].count + 1 ELSE @]
           /\ job' = [OutOfDate(job) EXCEPT ![m] = NoJob("settling")]
           /\ hand' = [hand EXCEPT !.fresh = FALSE]
           /\ hist' = [hist EXCEPT !.torn = @ \/ row.status # "PENDING"]
           /\ UNCHANGED <<panel, renewal>>
  <2> DEFINE p == IF job[m].asked THEN 1 ELSE row.prompted
             n == IF job[m].asked THEN job[m].count + 1 ELSE row.count
             torn == hist.torn \/ row.status # "PENDING"
  <2>1. job[m].held \in Seq(Msg) /\ p \in 0..2 /\ n \in 0..MaxPending
    BY <1>0, <1>1, Bounds DEF Job, Row, JobSound
  <2>2. row' = [row EXCEPT !.held = job[m].held, !.prompted = p, !.count = n]
    BY <1>3
  <2>3. torn \in BOOLEAN /\ hist' = [hist EXCEPT !.torn = torn]
    BY Zenon, <1>3
  <2> HIDE DEF p, n
  <2>4. row' \in Row /\ row'.status = row.status /\ row'.held = job[m].held
    BY Zenon, <1>0, <2>1, <2>2 DEF Row
  <2>5. /\ hist' \in Hist /\ hist'.word = hist.word /\ hist'.released = hist.released
        /\ hist'.untold = hist.untold /\ hist'.torn = torn /\ hist'.dropped = hist.dropped
        /\ hist'.sent = hist.sent /\ hist'.faults = hist.faults /\ hist'.crashed = hist.crashed
    BY <1>0, <2>3, HistTorn
  <2>6. (hist.torn => hist'.torn) /\ (row.status # "PENDING" => hist'.torn)
    BY Zenon, <2>5
  <2> HIDE DEF torn
  <2>7. FALSE \in BOOLEAN
    OBVIOUS
  <2>8. /\ hand' \in Hand /\ hand'.step = hand.step /\ hand'.refused = hand.refused
        /\ hand'.queue = hand.queue /\ hand'.doc = hand.doc /\ ~hand'.fresh
    BY Zenon, <1>0, <1>3, <2>7 DEF Hand
  <2>9. <<>> \in Seq(Msg) /\ 0 \in 0..MaxPending
    BY Bounds, EmptySeq
  <2>10. NoJob("settling") \in Job /\ NoJob("settling").step = "settling"
    BY <2>9, JobMade DEF JobStep
  <2>11. /\ OutOfDate(job) \in [Msg -> Job]
         /\ \A k \in Msg : JobSound(OutOfDate(job)[k])
    BY <1>0, OutOfDateJobs DEF Kept, Sound, JobSound
  <2>12. job' \in [Msg -> Job] /\ \A k \in Msg : JobSound(job'[k])
    BY <1>3, <2>10, <2>11 DEF JobSound
  <2>13. Types'
    BY <1>0, <1>3, <2>4, <2>5, <2>8, <2>12 DEF Types, Job, JobStep, Hand, HandStep, Panel, Hist
  <2>14. PanelSound' /\ HandSound'
    BY <1>3, <2>8 DEF Kept, Sound, PanelSound, HandSound
  <2>15. Holds(m)
    BY <1>1, <1>3, <2>4, <2>5, <2>8 DEF Holds, Holding
  <2>16. WordsStay
    BY <2>4, <2>5, <2>6, <2>8 DEF WordsStay
  <2> QED
    BY <2>12, <2>13, <2>14, <2>15, <2>16 DEF Kept, Sound, JobSound
<1> QED
  BY <1>2, <1>3 DEF Hold

\* A message goes to an accepted contact.
LEMMA DeliverStep ==
    ASSUME Kept, SentSeldom, NEW m \in Msg, Deliver(m)
    PROVE  Kept' /\ (JobMoves(m) \/ (Delivers(m) /\ WordsStay))
<1>0. /\ row \in Row /\ job \in [Msg -> Job] /\ hand \in Hand /\ panel \in Panel
      /\ renewal \in BOOLEAN /\ hist \in Hist
  BY Typed DEF Kept
<1>1. job[m].step = "sending"
  BY DEF Deliver
<1>2. CASE Retry(m)
  BY <1>1, <1>2, RetryStep DEF Waiting
<1>3. CASE /\ job' = [job EXCEPT ![m] = NoJob("settling")]
           /\ hist' = [hist EXCEPT !.sent[m] = @ + 1]
           /\ UNCHANGED <<row, hand, panel, renewal>>
  <2> DEFINE sent == [hist.sent EXCEPT ![m] = hist.sent[m] + 1]
  <2>1. Occurrences(m, row.held) \in Nat /\ Occurrences(m, hand.queue) \in Nat
    BY <1>0, OccursFinitely DEF Row, Hand
  <2>2. hist.sent \in [Msg -> 0..MaxFaults + 1] /\ hist.faults \in 0..MaxFaults
    BY <1>0 DEF Hist
  <2>3. hist.sent[m] + 1 \in 0..MaxFaults + 1
    BY <1>1, <2>1, <2>2, Bounds DEF SentSeldom, Places, Due, Waiting
  <2>4. sent \in [Msg -> 0..MaxFaults + 1] /\ hist' = [hist EXCEPT !.sent = sent]
    BY <1>3, <2>2, <2>3
  <2> HIDE DEF sent
  <2>5. /\ hist' \in Hist /\ hist'.word = hist.word /\ hist'.released = hist.released
        /\ hist'.untold = hist.untold /\ hist'.torn = hist.torn /\ hist'.dropped = hist.dropped
        /\ hist'.sent = sent /\ hist'.faults = hist.faults /\ hist'.crashed = hist.crashed
    BY <1>0, <2>4, HistSent
  <2>6. <<>> \in Seq(Msg) /\ 0 \in 0..MaxPending
    BY Bounds, EmptySeq
  <2>7. NoJob("settling") \in Job /\ NoJob("settling").step = "settling"
    BY <2>6, JobMade DEF JobStep
  <2>8. job' \in [Msg -> Job] /\ \A k \in Msg : JobSound(job'[k])
    BY <1>0, <1>3, <2>7 DEF Kept, Sound, JobSound
  <2>9. Types'
    BY <1>0, <1>3, <2>5, <2>8 DEF Types, Job, JobStep, Hand, HandStep, Panel, Hist
  <2>10. PanelSound' /\ HandSound'
    BY <1>3 DEF Kept, Sound, PanelSound, HandSound
  <2>11. Delivers(m) /\ WordsStay
    BY <1>1, <1>3, <2>5 DEF Delivers, WordsStay, sent
  <2> QED
    BY <2>8, <2>9, <2>10, <2>11 DEF Kept, Sound, JobSound
<1> QED
  BY <1>1, <1>2, <1>3 DEF Deliver

---------------------------------------------------------------------------
(* The contact's handler.                                                  *)

Words == WordKept /\ FlushDue
TypedParts == /\ row \in Row /\ job \in [Msg -> Job] /\ hand \in Hand /\ panel \in Panel
              /\ renewal \in BOOLEAN /\ hist \in Hist

\* A refusal drops what is held.
Refuses ==
    /\ row'.held \in {row.held, <<>>} /\ hand'.queue = hand.queue /\ job' = job
    /\ hist'.sent = hist.sent
    /\ hist'.dropped = hist.dropped \cup (ToSet(row.held) \ ToSet(row'.held))
    /\ hist'.faults = hist.faults /\ hist'.crashed = hist.crashed

\* A step that leaves the sends and the panel alone.
LEMMA OnlyHand ==
    ASSUME Kept, row' \in Row, hand' \in Hand, hist' \in Hist, HandSound',
           UNCHANGED <<job, panel, renewal>>
    PROVE  Kept'
<1>1. Types'
  BY Typed DEF Kept, Types, Job, JobStep, Hand, HandStep, Panel, Hist
<1> QED
  BY <1>1 DEF Kept, Sound, PanelSound, JobSound

\* What is left of a handler that goes on.
LEMMA GotoHand ==
    ASSUME hand \in Hand,
           NEW step \in {"idle", "thanks", "telling", "flush", "inbox"}, Goto(step),
           step \notin {"idle", "telling", "inbox"} => ~hand.refused
    PROVE  /\ hand' \in Hand /\ hand'.step = step /\ hand'.queue = <<>>
           /\ hand'.refused => hand.refused /\ step # "idle"
           /\ step \notin {"idle"} => (hand.refused => hand'.refused)
           /\ HandSound'
<1>1. hand.refused \in BOOLEAN
  BY DEF Hand
<1>2. CASE step = "idle"
  BY <1>2, NoHandTyped DEF Goto, HandSound
<1>3. CASE step # "idle"
  <2> DEFINE b == hand.refused
             h == [NoHand EXCEPT !.step = step, !.refused = b]
  <2>1. step \in HandStep
    BY DEF HandStep
  <2>2. h \in Hand
    BY Zenon, <1>1, <2>1, NoHandTyped, HandChanged
  <2>3. h.step = step /\ h.queue = <<>> /\ h.refused = b
    BY Zenon, NoHandTyped DEF Hand
  <2>4. hand' = h
    BY <1>3 DEF Goto
  <2> HIDE DEF h
  <2>5. HandSound'
    BY <1>3, <2>3, <2>4 DEF HandSound
  <2> QED
    BY Zenon, <1>3, <2>2, <2>3, <2>4, <2>5
<1> QED
  BY <1>2, <1>3

\* The save of an acceptance.
LEMMA AcceptStep ==
    ASSUME Kept, NEW step \in {"thanks", "inbox", "idle"}, Accept(step),
           UNCHANGED <<job, panel, renewal>>,
           hand.step \in {"answer", "open", "channel"},
           step = "thanks" => hand.step = "answer"
    PROVE  Kept' /\ Still /\ (Words => Words')
<1>0. TypedParts /\ HandSound /\ hand.doc \in Row /\ hand.refused \in BOOLEAN
      /\ hist.untold \in BOOLEAN /\ hist.torn \in BOOLEAN
  BY Typed DEF Kept, Sound, TypedParts, Hand, Hist
<1>1. "ACCEPTED" \in Statuses /\ "ACCEPTED" \notin Refusals
  BY DEF Statuses, Refusals
<1>2. /\ row' \in Row /\ row'.held = row.held
      /\ row'.status = row.status \/ row'.status = "ACCEPTED"
  BY <1>0, <1>1, AppliedRow, MergeRow DEF Accept, TypedParts
<1> DEFINE w == IF hand.refused THEN hist.word ELSE "yes"
           u == hist.untold /\ hand.refused
           t == hist.torn \/ (step # "thanks" /\ row.held # <<>>)
<1>3. w \in {"none", "yes", "no"}
  BY <1>0 DEF TypedParts, Hist
<1>4. u \in BOOLEAN /\ t \in BOOLEAN
  BY Zenon
<1>5. hist' = [hist EXCEPT !.word = w, !.untold = u, !.torn = t]
  BY DEF Accept
<1> HIDE DEF w, u, t
<1>6. /\ hist' \in Hist /\ hist'.word = w /\ hist'.untold = u /\ hist'.torn = t
      /\ hist'.released = hist.released /\ hist'.dropped = hist.dropped
      /\ hist'.sent = hist.sent /\ hist'.faults = hist.faults /\ hist'.crashed = hist.crashed
  <2>1. hist \in Hist
    BY <1>0 DEF TypedParts
  <2> QED
    BY Zenon, <1>3, <1>4, <1>5, <2>1, HistAnswered
<1>7. hand.step # "channel" => ~hand.refused
  BY <1>0 DEF HandSound
<1>8. /\ hand' \in Hand /\ hand'.step = step /\ hand'.queue = <<>> /\ HandSound'
      /\ hand'.refused => hand.refused
  BY <1>0, <1>7, GotoHand DEF Accept, TypedParts
<1>9. Kept'
  BY <1>2, <1>6, <1>8, OnlyHand
<1>10. Still
  <2>1. hand.queue = <<>>
    BY <1>0 DEF HandSound
  <2>2. hist'.faults >= hist.faults
    BY <1>0, <1>6 DEF TypedParts, Hist
  <2> QED
    BY <1>2, <1>6, <1>8, <2>1, <2>2 DEF Still
<1>11. /\ hand.refused => (hist'.word = hist.word /\ (hist.untold => hist'.untold))
       /\ ~hand.refused => hist'.word = "yes"
       /\ ~hist'.torn => ~hist.torn /\ (step = "thanks" \/ row.held = <<>>)
  BY Zenon, <1>6 DEF w, u, t
<1>12. ASSUME Words PROVE Words'
  <2>1. hand.refused => hist'.untold
    BY <1>0, <1>11, <1>12 DEF Words, WordKept
  <2>2. TakenAsYes' /\ RefusalHeldUnlessUntold'
    BY <1>11, <2>1 DEF TakenAsYes, RefusalHeldUnlessUntold
  <2>3. WordKept'
    BY <1>7, <1>8, <1>11, <2>1, <2>2 DEF WordKept
  <2>4. FlushDue'
    BY <1>2, <1>8, <1>11 DEF FlushDue
  <2> QED
    BY <2>3, <2>4 DEF Words
<1> QED
  BY <1>9, <1>10, <1>12

\* The save of a refusal.
LEMMA RefuseStep ==
    ASSUME Kept, Refuse("REFUSED_FIRST"), UNCHANGED <<job, panel, renewal>>,
           hand.step \in {"answer", "optOut"}
    PROVE  Kept' /\ Refuses /\ (Words => Words')
<1>0. TypedParts /\ HandSound /\ hand.doc \in Row /\ row.held \in Seq(Msg)
  BY Typed DEF Kept, Sound, TypedParts, Hand, Row
<1>1. "REFUSED_FIRST" \in Statuses /\ "REFUSED_FIRST" \in Refusals /\ <<>> \in Seq(Msg)
  BY EmptySeq DEF Statuses, Refusals
<1> DEFINE new == Merge(row, hand.doc, Applied(hand.doc, "REFUSED_FIRST"))
<1>2. new \in Row /\ new.status = "REFUSED_FIRST" /\ new.held \in {row.held, <<>>}
  <2>1. hand.doc.status # "REFUSED_FIRST"
    BY <1>0 DEF HandSound
  <2> QED
    BY <1>0, <1>1, <2>1, AppliedRow, MergeRow DEF TypedParts
<1>3. row' \in {new, [new EXCEPT !.held = <<>>]}
  BY DEF Refuse
<1> HIDE DEF new
<1>4. row' \in Row /\ row'.status = "REFUSED_FIRST" /\ row'.held \in {row.held, <<>>}
  <2>1. [new EXCEPT !.held = <<>>] \in Row
    BY <1>1, <1>2, RowChanged
  <2>2. [new EXCEPT !.held = <<>>].status = new.status /\ [new EXCEPT !.held = <<>>].held = <<>>
    BY <1>2 DEF Row
  <2> QED
    BY <1>2, <1>3, <2>1, <2>2
<1> DEFINE d == hist.dropped \cup (ToSet(row.held) \ ToSet(row'.held))
<1>5. d \in SUBSET Msg /\ "no" \in {"none", "yes", "no"} /\ FALSE \in BOOLEAN
  <2>1. ToSet(row.held) \subseteq Msg
    BY <1>0, LenProperties, ElementOfSeq DEF ToSet
  <2> QED
    BY <1>0, <2>1 DEF TypedParts, Hist
<1>6. hist' = [hist EXCEPT !.word = "no", !.released = FALSE, !.untold = FALSE, !.dropped = d]
  BY DEF Refuse
<1> HIDE DEF d
<1>7. /\ hist' \in Hist /\ hist'.word = "no" /\ hist'.untold = FALSE /\ hist'.torn = hist.torn
      /\ hist'.released = FALSE /\ hist'.dropped = d
      /\ hist'.sent = hist.sent /\ hist'.faults = hist.faults /\ hist'.crashed = hist.crashed
  <2>1. hist \in Hist
    BY <1>0 DEF TypedParts
  <2> QED
    BY Zenon, <1>5, <1>6, <2>1, HistRefused
<1>8. /\ hand' \in Hand /\ hand'.step = "telling" /\ hand'.queue = <<>>
  <2>1. "telling" \in HandStep /\ TRUE \in BOOLEAN
    BY DEF HandStep
  <2>2. hand' = [NoHand EXCEPT !.step = "telling", !.refused = TRUE]
    BY DEF Refuse
  <2>3. hand' \in Hand
    BY Zenon, <2>1, <2>2, NoHandTyped, HandChanged
  <2>4. hand'.step = "telling" /\ hand'.queue = NoHand.queue
    BY <2>2, NoHandTyped DEF Hand
  <2> QED
    BY <2>3, <2>4, NoHandTyped
<1>9. HandSound'
  BY <1>8 DEF HandSound
<1>10. Kept'
  BY <1>4, <1>7, <1>8, <1>9, OnlyHand
<1>11. Refuses
  <2>1. hand.queue = <<>>
    BY <1>0 DEF HandSound
  <2> QED
    BY <1>4, <1>7, <1>8, <2>1 DEF Refuses, d
<1>12. Words'
  BY <1>4, <1>7, <1>8 DEF Words, WordKept, TakenAsYes, RefusalHeldUnlessUntold,
                          FlushDue, Refusals
<1> QED
  BY <1>10, <1>11, <1>12

\* A step of the handler that changes nothing else.
LEMMA HandMoves ==
    ASSUME Kept, UNCHANGED <<row, job, panel, renewal, hist>>,
           hand' \in Hand, HandSound', hand'.queue = hand.queue,
           hand'.refused => hand.refused,
           hand'.refused /\ hand'.step # "telling" => hand.step # "telling",
           hand'.step \in {"thanks", "flush", "clear", "replay"}
             => hand.step \in {"thanks", "flush", "clear", "replay"},
           hand.step \in {"thanks", "flush", "clear"}
             => hand'.step \in {"thanks", "flush", "clear"} \/ row.held = <<>>
    PROVE  Kept' /\ Still /\ (Words => Words')
<1>1. TypedParts
  BY Typed DEF Kept, TypedParts
<1>2. Kept'
  BY <1>1, OnlyHand DEF TypedParts
<1>3. Still
  BY <1>1 DEF Still, TypedParts, Hist
<1>4. ASSUME Words PROVE Words'
  <2>1. TakenAsYes' /\ RefusalHeldUnlessUntold'
    BY <1>4 DEF Words, WordKept, TakenAsYes, RefusalHeldUnlessUntold
  <2>2. WordKept'
    BY <1>4, <2>1 DEF Words, WordKept
  <2>3. FlushDue'
    BY <1>4 DEF Words, FlushDue
  <2> QED
    BY <2>2, <2>3 DEF Words
<1> QED
  BY <1>2, <1>3, <1>4

\* The handler is through.
LEMMA HandEnds ==
    ASSUME Kept, UNCHANGED <<row, job, panel, renewal, hist>>, hand' = NoHand,
           hand.step # "replay",
           hand.step \in {"thanks", "flush", "clear"} => row.held = <<>>
    PROVE  Kept' /\ Still /\ (Words => Words')
<1>1. hand.queue = <<>>
  BY DEF Kept, Sound, HandSound
<1>2. HandSound'
  BY NoHandTyped DEF HandSound
<1> QED
  BY <1>1, <1>2, NoHandTyped, HandMoves

\* handleInboundMessage reads the contact.
LEMMA WriteStep ==
    ASSUME Kept, NEW text \in Text, Write(text)
    PROVE  Kept' /\ Still /\ (Words => Words')
<1> DEFINE s == CASE row.status = "ACCEPTED" -> "optOut"
                  [] row.status = "PENDING" /\ row.prompted > 0 -> "answer"
                  [] row.status \in {"PENDING", "REFUSED_FIRST", "REFUSED_SECOND"}
                       /\ row.prompted = 0 -> "open"
                  [] OTHER -> "inbox"
           h == [NoHand EXCEPT !.text = text, !.doc = row, !.step = s]
<1>1. TypedParts /\ HandSound
  BY Typed DEF Kept, Sound, TypedParts
<1>2. row.prompted \in 0..2
  BY <1>1 DEF TypedParts, Row
<1>3. /\ s \in {"optOut", "answer", "open", "inbox"}
      /\ s = "optOut" => row.status = "ACCEPTED"
      /\ s = "answer" => row.status = "PENDING"
  BY <1>2
<1>4. hand.step = "idle" /\ hand' = h /\ UNCHANGED <<row, job, panel, renewal, hist>>
  BY DEF Write, At
<1> HIDE DEF s
<1>5. s \in HandStep
  BY <1>3 DEF HandStep
<1>6. row \in Row
  BY <1>1 DEF TypedParts
<1>7. h \in Hand
  BY Zenon, <1>5, <1>6, NoHandTyped, HandChanged
<1>8. h.step = s /\ h.doc = row /\ h.queue = NoHand.queue /\ h.refused = NoHand.refused
  BY Zenon, NoHandTyped DEF Hand
<1> HIDE DEF h
<1>9. hand.queue = <<>>
  BY <1>1, <1>4 DEF HandSound
<1>10. ~hand'.refused /\ hand'.queue = <<>> /\ hand'.step = s /\ hand'.doc = row /\ row' = row
  BY <1>4, <1>8, NoHandTyped
<1>11. HandSound'
  BY <1>3, <1>10 DEF HandSound
<1> QED
  BY <1>3, <1>4, <1>7, <1>9, <1>10, <1>11, HandMoves

\* An answer that is neither a yes nor a no.
LEMMA AnswerStep ==
    ASSUME Kept, Answer
    PROVE  Kept' /\ (Still \/ Refuses) /\ (Words => Words')
<1>1. hand.step = "answer" /\ UNCHANGED <<job, panel, renewal>>
  BY DEF Answer, At
<1>2. CASE Accept("thanks")
  BY <1>1, <1>2, AcceptStep
<1>3. CASE Refuse(NextRefusal("PENDING"))
  <2>1. NextRefusal("PENDING") = "REFUSED_FIRST"
    BY DEF NextRefusal
  <2> QED
    BY <1>1, <1>3, <2>1, RefuseStep
<1>4. CASE Goto("telling") /\ UNCHANGED <<row, hist>>
  <2>1. hand \in Hand /\ HandSound
    BY Typed DEF Kept, Sound
  <2>2. ~hand.refused /\ hand.queue = <<>>
    BY <1>1, <2>1 DEF HandSound
  <2>3. /\ hand' \in Hand /\ hand'.step = "telling" /\ hand'.queue = <<>> /\ HandSound'
        /\ hand'.refused => hand.refused
    BY <1>4, <2>1, GotoHand
  <2> QED
    BY <1>1, <1>4, <2>2, <2>3, HandMoves
<1> QED
  BY <1>2, <1>3, <1>4 DEF Answer

\* A contact nobody asked is accepted.
LEMMA OpenStep ==
    ASSUME Kept, Open
    PROVE  Kept' /\ Still /\ (Words => Words')
BY AcceptStep DEF Open, At

\* The request to opt out is noted or forgotten.
LEMMA SetOptOutStep ==
    ASSUME Kept, NEW value \in BOOLEAN, NEW step \in {"inbox", "telling", "idle"},
           row' = Merge(row, hand.doc, [hand.doc EXCEPT !.optOut = value]),
           Goto(step), UNCHANGED <<job, panel, renewal, hist>>,
           hand.step \in {"optOut", "channel"}, step # "idle" => hand.step = "optOut"
    PROVE  Kept' /\ Still /\ (Words => Words')
<1>0. TypedParts /\ HandSound /\ hand.doc \in Row
  BY Typed DEF Kept, Sound, TypedParts, Hand
<1> DEFINE new == [hand.doc EXCEPT !.optOut = value]
<1>1. new \in Row
  BY Zenon, <1>0, RowChanged
<1>2. new.status = hand.doc.status /\ new.held = hand.doc.held
  BY Zenon, <1>0 DEF Row
<1>3. row' = Merge(row, hand.doc, new)
  OBVIOUS
<1> HIDE DEF new
<1>4. row' \in Row /\ row'.status = row.status /\ row'.held = row.held
  BY <1>0, <1>1, <1>2, <1>3, MergeRow DEF TypedParts
<1>5. hand.queue = <<>> /\ (step # "idle" => ~hand.refused)
  BY <1>0 DEF HandSound
<1>6. /\ hand' \in Hand /\ hand'.step = step /\ hand'.queue = <<>> /\ HandSound'
      /\ hand'.refused => hand.refused /\ step # "idle"
  BY <1>0, <1>5, GotoHand DEF TypedParts
<1>7. Kept'
  BY <1>0, <1>4, <1>6, OnlyHand DEF TypedParts
<1>8. Still
  BY <1>0, <1>4, <1>5, <1>6 DEF Still, TypedParts, Hist
<1>9. ASSUME Words PROVE Words'
  <2>1. TakenAsYes' /\ RefusalHeldUnlessUntold'
    BY <1>4, <1>5, <1>6, <1>9 DEF Words, WordKept, TakenAsYes, RefusalHeldUnlessUntold
  <2>2. WordKept'
    BY <1>5, <1>6, <2>1 DEF WordKept
  <2>3. FlushDue'
    BY <1>4, <1>6, <1>9 DEF Words, FlushDue
  <2> QED
    BY <2>2, <2>3 DEF Words
<1> QED
  BY <1>7, <1>8, <1>9

\* handleAcceptedInbound.
LEMMA OptOutStep ==
    ASSUME Kept, OptOut
    PROVE  Kept' /\ (Still \/ Refuses) /\ (Words => Words')
<1>1. hand.step = "optOut" /\ UNCHANGED <<job, panel, renewal>>
  BY DEF OptOut, At
<1>2. CASE \E value \in BOOLEAN, step \in {"inbox", "telling"} : SetOptOut(value, step)
  <2>1. PICK value \in BOOLEAN, step \in {"inbox", "telling"} : SetOptOut(value, step)
    BY <1>2
  <2> QED
    BY <1>1, <2>1, SetOptOutStep DEF SetOptOut
<1>3. CASE Refuse("REFUSED_FIRST")
  BY <1>1, <1>3, RefuseStep
<1>4. TRUE \in BOOLEAN /\ FALSE \in BOOLEAN
      /\ "inbox" \in {"inbox", "telling"} /\ "telling" \in {"inbox", "telling"}
  OBVIOUS
<1>5. (\E value \in BOOLEAN, step \in {"inbox", "telling"} : SetOptOut(value, step))
      \/ Refuse("REFUSED_FIRST")
  BY Zenon, <1>4 DEF OptOut
<1> QED
  BY <1>2, <1>3, <1>5

\* The answer goes out, or does not.
LEMMA TellStep ==
    ASSUME Kept, Tell
    PROVE  Kept' /\ Still /\ (Words => Words')
<1>1. CASE hand.step = "telling" /\ hand' = NoHand
  BY <1>1, HandEnds DEF Tell
<1>2. CASE hand.step = "thanks" /\ Goto("flush")
  <2>1. hand \in Hand /\ HandSound
    BY Typed DEF Kept, Sound
  <2>2. ~hand.refused /\ hand.queue = <<>>
    BY <1>2, <2>1 DEF HandSound
  <2>3. /\ hand' \in Hand /\ hand'.step = "flush" /\ hand'.queue = <<>> /\ HandSound'
        /\ hand'.refused => hand.refused
    BY <1>2, <2>1, <2>2, GotoHand
  <2> QED
    BY <1>2, <2>2, <2>3, HandMoves DEF Tell
<1> QED
  BY <1>1, <1>2 DEF Tell, At

\* The answer, the history or the webhook fails.
LEMMA TellFailsStep ==
    ASSUME Kept, TellFails
    PROVE  Kept' /\ Still /\ (Words => Words')
<1>0. TypedParts /\ HandSound /\ hist \in Hist
  BY Typed DEF Kept, Sound, TypedParts
<1> DEFINE f == hist.faults + 1
           u == hist.untold \/ hand.refused
<1>1. f \in 0..MaxFaults /\ f >= hist.faults
  BY <1>0, Bounds DEF TellFails, Hist
<1>2. u \in BOOLEAN /\ TRUE \in BOOLEAN
  BY Zenon
<1>3. hist' = [hist EXCEPT !.faults = f, !.untold = u, !.torn = TRUE]
  BY Zenon DEF TellFails
<1> HIDE DEF f, u
<1>4. /\ hist' \in Hist /\ hist'.word = hist.word /\ hist'.released = hist.released
      /\ hist'.untold = u /\ hist'.torn = TRUE /\ hist'.dropped = hist.dropped
      /\ hist'.faults = f /\ hist'.crashed = hist.crashed /\ hist'.sent = hist.sent
  BY Zenon, <1>0, <1>1, <1>2, <1>3, HistFailed
<1>5. hand.step \in {"telling", "thanks"} /\ Goto("inbox")
      /\ UNCHANGED <<row, job, panel, renewal>>
  BY DEF TellFails, At
<1>6. hand.queue = <<>>
  BY <1>0, <1>5 DEF HandSound
<1>7. /\ hand' \in Hand /\ hand'.step = "inbox" /\ hand'.queue = <<>> /\ HandSound'
      /\ hand'.refused => hand.refused
  BY <1>0, <1>5, GotoHand DEF TypedParts
<1>8. Kept'
  BY <1>0, <1>4, <1>5, <1>7, OnlyHand DEF TypedParts
<1>9. Still
  BY <1>1, <1>4, <1>5, <1>6, <1>7 DEF Still
<1>10. (hist.untold => hist'.untold) /\ (hand.refused => hist'.untold)
  BY Zenon, <1>4 DEF u
<1>11. ASSUME Words PROVE Words'
  <2>1. TakenAsYes' /\ RefusalHeldUnlessUntold'
    BY <1>4, <1>5, <1>6, <1>7, <1>10, <1>11
       DEF Words, WordKept, TakenAsYes, RefusalHeldUnlessUntold
  <2>2. WordKept'
    BY <1>7, <1>10, <2>1 DEF WordKept
  <2>3. FlushDue'
    BY <1>4 DEF FlushDue
  <2> QED
    BY <2>2, <2>3 DEF Words
<1> QED
  BY <1>8, <1>9, <1>11

\* flushPendingDeliveries reads what is held.
LEMMA FlushLoadStep ==
    ASSUME Kept, FlushLoad
    PROVE  Kept' /\ Still /\ (Words => Words')
<1>0. TypedParts /\ HandSound /\ hand \in Hand /\ row \in Row
  BY Typed DEF Kept, Sound, TypedParts
<1>1. hand.step = "flush" /\ UNCHANGED <<row, job, panel, renewal, hist>>
  BY DEF FlushLoad, At
<1>2. CASE row.held = <<>>
  BY <1>1, <1>2, HandEnds DEF FlushLoad
<1>3. CASE row.held # <<>>
  <2> DEFINE h == [hand EXCEPT !.step = "clear", !.doc = row, !.fresh = TRUE]
  <2>1. "clear" \in HandStep /\ TRUE \in BOOLEAN
    BY DEF HandStep
  <2>2. h \in Hand
    BY Zenon, <1>0, <2>1, HandChanged
  <2>3. h.step = "clear" /\ h.doc = row /\ h.queue = hand.queue /\ h.refused = hand.refused
    BY Zenon, <1>0 DEF Hand
  <2>4. hand' = h
    BY <1>3 DEF FlushLoad
  <2> HIDE DEF h
  <2>5. ~hand.refused /\ hand.queue = <<>>
    BY <1>0, <1>1 DEF HandSound
  <2>6. /\ hand' \in Hand /\ hand'.step = "clear" /\ hand'.doc = row /\ hand'.queue = <<>>
        /\ ~hand'.refused
    BY Zenon, <2>2, <2>3, <2>4, <2>5
  <2>7. HandSound'
    BY <1>1, <1>3, <2>6 DEF HandSound
  <2> QED
    BY <1>1, <2>5, <2>6, <2>7, HandMoves
<1> QED
  BY <1>2, <1>3

\* What is held moves to the handler's queue.
Flushes ==
    /\ row'.held = <<>> /\ hand.queue = <<>> /\ hand'.queue = row.held
    /\ job' = OutOfDate(job)
    /\ hist'.sent = hist.sent /\ hist'.dropped = hist.dropped
    /\ hist'.faults = hist.faults /\ hist'.crashed = hist.crashed

\* The save of the flush, or its VersionError.
LEMMA FlushClearStep ==
    ASSUME Kept, FlushClear
    PROVE  Kept' /\ (Still \/ Flushes) /\ (Words => Words')
<1>0. TypedParts /\ HandSound /\ hand \in Hand /\ row \in Row /\ hist \in Hist /\ hand.doc \in Row
      /\ row.held \in Seq(Msg)
  BY Typed DEF Kept, Sound, TypedParts, Hand, Row
<1>1. hand.step = "clear" /\ UNCHANGED <<panel, renewal>> /\ ~hand.refused /\ hand.queue = <<>>
  BY <1>0 DEF FlushClear, At, HandSound
<1>2. CASE /\ hand.fresh
           /\ row' = Merge(row, hand.doc, [hand.doc EXCEPT !.held = <<>>, !.prompted = 0])
           /\ job' = OutOfDate(job)
           /\ hand' = [hand EXCEPT !.step = "replay", !.queue = hand.doc.held]
           /\ UNCHANGED hist
  <2>1. hand.doc.held = row.held /\ row.held # <<>>
    BY <1>0, <1>1, <1>2 DEF HandSound
  <2> DEFINE mid == [hand.doc EXCEPT !.held = <<>>]
             new == [mid EXCEPT !.prompted = 0]
  <2>2. <<>> \in Seq(Msg) /\ 0 \in 0..2
    BY EmptySeq
  <2>3. mid \in Row
    BY Zenon, <1>0, <2>2, RowChanged
  <2>4. mid.held = <<>> /\ mid.status = hand.doc.status
    BY Zenon, <1>0 DEF Row
  <2>5. row' = Merge(row, hand.doc, new)
    BY <1>2
  <2> HIDE DEF mid
  <2>6. new \in Row
    BY Zenon, <2>2, <2>3, RowChanged
  <2>7. new.held = <<>> /\ new.status = hand.doc.status
    BY Zenon, <2>3, <2>4 DEF Row
  <2> HIDE DEF new
  <2>8. row' \in Row /\ row'.status = row.status /\ row'.held = <<>>
    BY <1>0, <2>1, <2>5, <2>6, <2>7, MergeRow
  <2>9. "replay" \in HandStep /\ hand.doc.held \in Seq(Msg)
    BY <1>0, <2>1 DEF HandStep
  <2>10. hand' \in Hand
    BY Zenon, <1>0, <1>2, <2>9, HandChanged
  <2>11. hand'.step = "replay" /\ hand'.queue = row.held /\ hand'.refused = hand.refused
    BY Zenon, <1>0, <1>2, <2>1 DEF Hand
  <2>12. HandSound'
    BY <1>1, <2>1, <2>11 DEF HandSound
  <2>13. job \in [Msg -> Job] /\ \A m \in Msg : JobSound(job[m])
    BY <1>0 DEF TypedParts, Kept, Sound
  <2>14. job' \in [Msg -> Job] /\ \A m \in Msg : JobSound(job'[m])
    BY <1>2, <2>13, OutOfDateJobs DEF JobSound
  <2>15. Types'
    BY <1>0, <1>1, <1>2, <2>8, <2>10, <2>14
       DEF TypedParts, Types, Job, JobStep, Hand, HandStep, Panel, Hist
  <2>16. Kept'
    BY <1>1, <2>12, <2>14, <2>15 DEF Kept, Sound, PanelSound, JobSound
  <2>17. Flushes
    BY <1>1, <1>2, <2>8, <2>11 DEF Flushes
  <2>18. ASSUME Words PROVE Words'
    <3>1. hist.word = "yes" \/ hist.untold
      BY <1>1, <2>18 DEF Words, WordKept
    <3>2. TakenAsYes' /\ RefusalHeldUnlessUntold'
      BY <1>2, <2>8, <2>18, <3>1 DEF Words, WordKept, TakenAsYes, RefusalHeldUnlessUntold
    <3>3. WordKept'
      BY <1>1, <1>2, <2>11, <3>1, <3>2 DEF WordKept
    <3>4. FlushDue'
      BY <2>8 DEF FlushDue
    <3> QED
      BY <3>3, <3>4 DEF Words
  <2> QED
    BY <2>16, <2>17, <2>18
<1>3. CASE ~hand.fresh /\ Goto("inbox") /\ hist' = [hist EXCEPT !.torn = TRUE]
           /\ UNCHANGED <<row, job>>
  <2>1. /\ hist' \in Hist /\ hist'.word = hist.word /\ hist'.released = hist.released
        /\ hist'.untold = hist.untold /\ hist'.torn = TRUE /\ hist'.dropped = hist.dropped
        /\ hist'.faults = hist.faults /\ hist'.crashed = hist.crashed /\ hist'.sent = hist.sent
    BY <1>0, <1>3, HistTorn
  <2>2. /\ hand' \in Hand /\ hand'.step = "inbox" /\ hand'.queue = <<>> /\ HandSound'
        /\ hand'.refused => hand.refused
    BY <1>0, <1>3, GotoHand
  <2>3. Kept'
    BY <1>0, <1>1, <1>3, <2>1, <2>2, OnlyHand
  <2>4. Still
    BY <1>0, <1>1, <1>3, <2>1, <2>2 DEF Still, Hist
  <2>5. ASSUME Words PROVE Words'
    <3>1. TakenAsYes' /\ RefusalHeldUnlessUntold'
      BY <1>1, <1>3, <2>1, <2>2, <2>5 DEF Words, WordKept, TakenAsYes, RefusalHeldUnlessUntold
    <3>2. WordKept'
      BY <1>1, <2>2, <3>1 DEF WordKept
    <3>3. FlushDue'
      BY <2>1 DEF FlushDue
    <3> QED
      BY <3>2, <3>3 DEF Words
  <2> QED
    BY <2>3, <2>4, <2>5
<1> QED
  BY <1>2, <1>3 DEF FlushClear

\* The next message of the queue is sent or given up.
Replays ==
    LET m == Head(hand.queue) IN
    /\ hand.queue # <<>> /\ hand'.queue = Tail(hand.queue)
    /\ row' = row /\ job' = job
    /\ \/ hist'.sent = [hist.sent EXCEPT ![m] = @ + 1] /\ hist'.dropped = hist.dropped
       \/ hist'.sent = hist.sent /\ hist'.dropped = hist.dropped \cup {m}
    /\ hist'.faults = hist.faults /\ hist'.crashed = hist.crashed

\* replayOutboundJob.
LEMMA ReplayStep ==
    ASSUME Kept, SentSeldom, Replay
    PROVE  Kept' /\ Replays /\ (Words => Words')
<1>0. TypedParts /\ HandSound /\ hand \in Hand /\ row \in Row /\ hist \in Hist
      /\ hand.queue \in Seq(Msg) /\ hand.step = "replay" /\ ~hand.refused
  BY Typed DEF Kept, Sound, TypedParts, Hand, HandSound, Replay, At
<1> DEFINE m == Head(hand.queue)
           q == Tail(hand.queue)
<1>1. UNCHANGED <<row, job, panel, renewal>> /\ hand.queue # <<>>
  BY <1>0 DEF Replay, HandSound
<1>2. m \in Msg /\ q \in Seq(Msg) /\ (Len(hand.queue) = 1 <=> q = <<>>)
  <2>1. m \in Msg /\ q \in Seq(Msg) /\ Len(q) = Len(hand.queue) - 1
    BY <1>0, <1>1, HeadTailProperties
  <2>2. Len(hand.queue) \in Nat /\ Len(q) \in Nat
    BY <1>0, <2>1, LenProperties
  <2> HIDE DEF q
  <2>3. Len(q) = 0 <=> q = <<>>
    BY <2>1, EmptySeq
  <2> QED
    BY <2>1, <2>2, <2>3
<1>3. /\ hand' \in Hand /\ hand'.queue = q /\ ~hand'.refused
      /\ hand'.step = IF q = <<>> THEN "idle" ELSE "replay"
  <2>1. CASE Len(hand.queue) = 1
    BY <1>2, <2>1, NoHandTyped DEF Replay
  <2>2. CASE Len(hand.queue) # 1
    <3> DEFINE h == [hand EXCEPT !.queue = q]
    <3>1. hand' = h
      BY <2>2 DEF Replay
    <3>2. h \in Hand
      BY Zenon, <1>0, <1>2, HandChanged
    <3>3. h.queue = q /\ h.step = hand.step /\ h.refused = hand.refused
      BY Zenon, <1>0 DEF Hand
    <3> HIDE DEF h, q
    <3>4. hand'.queue = q /\ hand'.step = "replay" /\ ~hand'.refused /\ hand' \in Hand
      BY Zenon, <1>0, <3>1, <3>2, <3>3
    <3> QED
      BY <1>2, <2>2, <3>4
  <2> QED
    BY <2>1, <2>2
<1>4. Occurrences(m, hand.queue) \in Nat \ {0}
  <2>1. Occurrences(m, q) \in Nat /\ Occurrences(m, hand.queue) = Occurrences(m, q) + 1
    BY <1>0, <1>1, <1>2, OccursFinitely, OccursAfterHead
  <2> QED
    BY <2>1
<1> DEFINE sent == [hist.sent EXCEPT ![m] = hist.sent[m] + 1]
           d == hist.dropped \cup {m}
<1>5. sent \in [Msg -> 0..MaxFaults + 1] /\ d \in SUBSET Msg
  <2>1. Occurrences(m, row.held) \in Nat
    BY <1>0, <1>2, OccursFinitely DEF Row
  <2>2. hist.sent \in [Msg -> 0..MaxFaults + 1] /\ hist.faults \in 0..MaxFaults
        /\ hist.dropped \in SUBSET Msg
    BY <1>0 DEF Hist
  <2>3. Due(job[m]) \in {0, 1}
    BY DEF Due
  <2> HIDE DEF m
  <2>4. Places(m, row.held) + Due(job[m]) <= 1 + hist.faults
    BY <1>2 DEF SentSeldom
  <2>5. hist.sent[m] + 1 \in 0..MaxFaults + 1
    <3>1. hist.sent[m] \in Nat /\ hist.faults \in Nat /\ hist.faults <= MaxFaults
      BY <1>2, <2>2, Bounds
    <3>2. Occurrences(m, row.held) + Occurrences(m, hand.queue) + hist.sent[m] + Due(job[m])
            <= 1 + hist.faults
      BY <2>4 DEF Places
    <3>3. hist.sent[m] <= hist.faults
      BY <1>4, <2>1, <2>3, <3>1, <3>2
    <3> QED
      BY <3>1, <3>3, Bounds
  <2> QED
    BY <1>2, <2>2, <2>5
<1>6. hist' = [hist EXCEPT !.sent = sent] \/ hist' = [hist EXCEPT !.dropped = d]
  BY DEF Replay
<1> HIDE DEF m, q, sent, d
<1>7. /\ hist' \in Hist /\ hist'.word = hist.word /\ hist'.released = hist.released
      /\ hist'.untold = hist.untold /\ hist'.torn = hist.torn
      /\ \/ hist'.sent = sent /\ hist'.dropped = hist.dropped
         \/ hist'.sent = hist.sent /\ hist'.dropped = d
      /\ hist'.faults = hist.faults /\ hist'.crashed = hist.crashed
  <2>1. CASE hist' = [hist EXCEPT !.sent = sent]
    BY <1>0, <1>5, <2>1, HistSent
  <2>2. CASE hist' = [hist EXCEPT !.dropped = d]
    BY <1>0, <1>5, <2>2, HistDropped
  <2> QED
    BY <1>6, <2>1, <2>2
<1>8. HandSound'
  BY <1>3 DEF HandSound
<1>9. Kept'
  BY <1>0, <1>1, <1>3, <1>7, <1>8, OnlyHand
<1>10. Replays
  BY <1>1, <1>3, <1>7 DEF Replays, m, q, sent, d
<1>11. ASSUME Words PROVE Words'
  <2>1. hist.word = "yes" \/ hist.untold
    BY <1>0, <1>11 DEF Words, WordKept
  <2>2. TakenAsYes' /\ RefusalHeldUnlessUntold'
    BY <1>1, <1>7, <1>11, <2>1 DEF Words, WordKept, TakenAsYes, RefusalHeldUnlessUntold
  <2>3. WordKept'
    BY <1>3, <1>7, <2>1, <2>2 DEF WordKept
  <2>4. FlushDue'
    BY <1>0, <1>1, <1>7, <1>11 DEF Words, FlushDue
  <2> QED
    BY <2>3, <2>4 DEF Words
<1> QED
  BY <1>9, <1>10, <1>11

\* The Inbox takes the message, and opens the channel.
LEMMA InboxLoadStep ==
    ASSUME Kept, InboxLoad
    PROVE  Kept' /\ Still /\ (Words => Words')
<1>0. TypedParts /\ HandSound /\ hand \in Hand /\ row \in Row
  BY Typed DEF Kept, Sound, TypedParts
<1>1. hand.step = "inbox" /\ UNCHANGED <<row, job, panel, renewal, hist>>
  BY DEF InboxLoad, At
<1>2. CASE hand' = NoHand
  BY <1>1, <1>2, HandEnds
<1>3. CASE hand' = [hand EXCEPT !.step = "channel", !.doc = row]
  <2>1. "channel" \in HandStep
    BY DEF HandStep
  <2>2. hand' \in Hand
    BY Zenon, <1>0, <1>3, <2>1, HandChanged
  <2>3. hand'.step = "channel" /\ hand'.queue = hand.queue /\ hand'.refused = hand.refused
    BY Zenon, <1>0, <1>3 DEF Hand
  <2>4. hand.queue = <<>>
    BY <1>0, <1>1 DEF HandSound
  <2>5. HandSound'
    BY <2>3, <2>4 DEF HandSound
  <2> QED
    BY <1>1, <2>2, <2>3, <2>5, HandMoves
<1> QED
  BY <1>2, <1>3 DEF InboxLoad

\* acceptInboundInitiated of a message the Inbox took.
LEMMA ChannelStep ==
    ASSUME Kept, Channel
    PROVE  Kept' /\ Still /\ (Words => Words')
<1>1. hand.step = "channel" /\ UNCHANGED <<job, panel, renewal>>
  BY DEF Channel, At
<1>2. CASE hand.doc.status = "ACCEPTED"
  <2>1. row' = Merge(row, hand.doc, [hand.doc EXCEPT !.optOut = FALSE]) /\ Goto("idle")
        /\ UNCHANGED hist
    BY <1>2 DEF Channel
  <2> QED
    BY <1>1, <2>1, SetOptOutStep
<1>3. CASE hand.doc.status \in {"MANUALLY_BLOCKED", "REFUSED_THREE"}
  BY <1>1, <1>3, HandEnds DEF Channel, Goto
<1>4. CASE hand.doc.status \notin {"ACCEPTED", "MANUALLY_BLOCKED", "REFUSED_THREE"}
  <2>1. Accept("idle")
    BY <1>4 DEF Channel
  <2> QED
    BY <1>1, <2>1, AcceptStep
<1> QED
  BY <1>2, <1>3, <1>4

---------------------------------------------------------------------------
(* The panel, and the time that goes by.                                   *)

\* A step that leaves the sends and the handler alone.
LEMMA OnlyPanel ==
    ASSUME Kept, row' \in Row, row'.held = row.held, panel' \in Panel, PanelSound',
           renewal' \in BOOLEAN, hist' \in Hist, UNCHANGED <<job, hand>>
    PROVE  Kept'
<1>1. Types'
  BY Typed DEF Kept, Types, Job, JobStep, Hand, HandStep, Panel, Hist
<1>2. HandSound'
  BY DEF Kept, Sound, HandSound
<1> QED
  BY <1>1, <1>2 DEF Kept, Sound, JobSound

\* What the contact said and the handler's place are left alone.
LEMMA WordsStayed ==
    ASSUME Words, WordsStay
    PROVE  Words'
<1>1. TakenAsYes' /\ RefusalHeldUnlessUntold'
  BY DEF Words, WordsStay, WordKept, TakenAsYes, RefusalHeldUnlessUntold
<1>2. WordKept'
  BY <1>1 DEF Words, WordsStay, WordKept
<1>3. FlushDue'
  BY DEF Words, WordsStay, FlushDue
<1> QED
  BY <1>2, <1>3 DEF Words

\* A renewal is requested.
LEMMA RenewalStep ==
    ASSUME Kept, RequestRenewal
    PROVE  Kept' /\ Still /\ WordsStay
<1>1. TypedParts
  BY Typed DEF Kept, TypedParts
<1>2. renewal' = TRUE /\ UNCHANGED <<row, job, hand, panel, hist>>
  BY DEF RequestRenewal
<1>3. PanelSound'
  BY <1>2 DEF Kept, Sound, PanelSound
<1>4. Kept'
  BY <1>1, <1>2, <1>3, OnlyPanel DEF TypedParts
<1> QED
  BY <1>1, <1>2, <1>4 DEF Still, WordsStay, TypedParts, Hist

\* The panel reads the contact.
LEMMA PanelLoadStep ==
    ASSUME Kept, NEW op \in {"approve", "clear", "block"}, PanelLoad(op)
    PROVE  Kept' /\ Still /\ WordsStay
<1>1. TypedParts /\ hist \in Hist /\ row \in Row
  BY Typed DEF Kept, TypedParts
<1>2. panel' = [op |-> op, doc |-> row] /\ UNCHANGED <<row, job, hand, renewal>>
      /\ (op = "approve" => row.approvals < MaxApprovals)
  BY DEF PanelLoad
<1>3. panel' \in Panel /\ panel'.op = op /\ panel'.doc = row
  BY <1>1, <1>2 DEF Panel
<1>4. PanelSound'
  BY <1>2, <1>3 DEF PanelSound
<1>5. hist.requests + 1 \in 0..MaxPanel
  BY <1>1, Bounds DEF PanelLoad, Hist
<1>6. hist' = [hist EXCEPT !.requests = hist.requests + 1]
  BY DEF PanelLoad
<1>7. /\ hist' \in Hist /\ hist'.word = hist.word /\ hist'.released = hist.released
      /\ hist'.untold = hist.untold /\ hist'.torn = hist.torn /\ hist'.dropped = hist.dropped
      /\ hist'.faults = hist.faults /\ hist'.crashed = hist.crashed /\ hist'.sent = hist.sent
  BY <1>1, <1>5, <1>6, HistRequested
<1>8. Kept'
  BY <1>1, <1>2, <1>3, <1>4, <1>7, OnlyPanel DEF TypedParts
<1> QED
  BY <1>1, <1>2, <1>7, <1>8 DEF Still, WordsStay, Hist

\* A decision neither accepts for the contact nor touches what is held.
LEMMA DecidedRow ==
    ASSUME NEW doc \in Row, NEW op \in {"approve", "clear", "block"},
           op = "approve" => doc.approvals < MaxApprovals
    PROVE  /\ Decided(op, doc) \in Row /\ Decided(op, doc).held = doc.held
           /\ Decided(op, doc).status \in {"PENDING", "MANUALLY_BLOCKED"}
<1>1. /\ "PENDING" \in Statuses /\ "PENDING" \notin Refusals
      /\ "MANUALLY_BLOCKED" \in Statuses /\ "MANUALLY_BLOCKED" \notin Refusals
  BY DEF Statuses, Refusals
<1>2. CASE op = "block"
  BY <1>1, <1>2, AppliedRow DEF Decided
<1>3. CASE op = "approve"
  <2> DEFINE a == doc.approvals + 1
             mid == [doc EXCEPT !.approvals = a]
             new == [mid EXCEPT !.count = a]
  <2>1. a \in 0..MaxApprovals /\ a \in 0..MaxPending
    BY <1>3, Bounds DEF Row
  <2> HIDE DEF a
  <2>2. mid \in Row /\ mid.held = doc.held
    BY Zenon, <2>1, RowChanged DEF Row
  <2>3. new \in Row /\ new.held = doc.held
    <3> HIDE DEF mid
    <3>1. new \in Row
      BY Zenon, <2>1, <2>2, RowChanged
    <3>2. new.held = mid.held
      BY Zenon, <2>2 DEF Row
    <3> QED
      BY <2>2, <3>1, <3>2
  <2>4. Decided(op, doc) = Applied(new, "PENDING")
    BY <1>3 DEF Decided, a
  <2> HIDE DEF new
  <2> QED
    BY <1>1, <2>3, <2>4, AppliedRow
<1>4. CASE op = "clear"
  <2> DEFINE mid == [doc EXCEPT !.approvals = 0]
             new == [mid EXCEPT !.count = 0]
  <2>1. 0 \in 0..MaxApprovals /\ 0 \in 0..MaxPending
    BY Bounds
  <2>2. mid \in Row /\ mid.held = doc.held
    BY Zenon, <2>1, RowChanged DEF Row
  <2>3. new \in Row /\ new.held = doc.held
    <3> HIDE DEF mid
    <3>1. new \in Row
      BY Zenon, <2>1, <2>2, RowChanged
    <3>2. new.held = mid.held
      BY Zenon, <2>2 DEF Row
    <3> QED
      BY <2>2, <3>1, <3>2
  <2>4. Decided(op, doc) = Applied(new, "PENDING")
    BY <1>4 DEF Decided
  <2> HIDE DEF new
  <2> QED
    BY <1>1, <2>3, <2>4, AppliedRow
<1> QED
  BY <1>2, <1>3, <1>4

\* The panel's save.
LEMMA PanelSaveStep ==
    ASSUME Kept, PanelSave
    PROVE  Kept' /\ Still /\ (Words => Words')
<1>1. TypedParts /\ hist \in Hist /\ row \in Row /\ panel \in Panel /\ panel.doc \in Row
  BY Typed DEF Kept, TypedParts, Panel
<1>2. panel.op \in {"approve", "clear", "block"}
  BY <1>1 DEF PanelSave, Panel
<1>3. panel.op = "approve" => panel.doc.approvals < MaxApprovals
  BY DEF Kept, Sound, PanelSound
<1> DEFINE new == Decided(panel.op, panel.doc)
<1>4. new \in Row /\ new.held = panel.doc.held /\ new.status \in {"PENDING", "MANUALLY_BLOCKED"}
  BY <1>1, <1>2, <1>3, DecidedRow
<1>5. row' = Merge(row, panel.doc, new) /\ panel' = NoPanel /\ UNCHANGED <<job, hand>>
  BY DEF PanelSave
<1> HIDE DEF new
<1>6. /\ row' \in Row /\ row'.held = row.held
      /\ row'.status \in {row.status, "PENDING", "MANUALLY_BLOCKED"}
  BY <1>1, <1>4, <1>5, MergeRow
<1>7. renewal' \in BOOLEAN
  BY Zenon DEF PanelSave
<1>8. NoPanel \in Panel /\ NoPanel.op = "none"
  BY NewRowTyped DEF NoPanel, Panel
<1> DEFINE l == hist.released \/ (row'.status = "PENDING" /\ row.status # "PENDING")
<1>9. l \in BOOLEAN /\ hist' = [hist EXCEPT !.released = l]
  BY Zenon DEF PanelSave
<1> HIDE DEF l
<1>10. /\ hist' \in Hist /\ hist'.word = hist.word /\ hist'.released = l
       /\ hist'.untold = hist.untold /\ hist'.torn = hist.torn /\ hist'.dropped = hist.dropped
       /\ hist'.faults = hist.faults /\ hist'.crashed = hist.crashed /\ hist'.sent = hist.sent
  BY <1>1, <1>9, HistReleased
<1>11. ~hist'.released => ~hist.released /\ (row'.status = "PENDING" => row.status = "PENDING")
  BY Zenon, <1>10 DEF l
<1>12. Kept'
  BY <1>5, <1>6, <1>7, <1>8, <1>10, OnlyPanel DEF PanelSound
<1>13. Still
  BY <1>1, <1>5, <1>6, <1>10 DEF Still, Hist
<1>14. ASSUME Words PROVE Words'
  <2>1. TakenAsYes'
    BY <1>5, <1>6, <1>10, <1>14 DEF Words, WordKept, TakenAsYes
  <2>2. RefusalHeldUnlessUntold'
    BY <1>6, <1>10, <1>11, <1>14 DEF Words, WordKept, RefusalHeldUnlessUntold, Refusals
  <2>3. WordKept'
    BY <1>5, <1>10, <1>14, <2>1, <2>2 DEF Words, WordKept
  <2>4. FlushDue'
    BY <1>5, <1>6, <1>10, <1>14 DEF Words, FlushDue
  <2> QED
    BY <2>3, <2>4 DEF Words
<1> QED
  BY <1>12, <1>13, <1>14

\* CONSENT_PROMPT_COOLDOWN_MS goes by.
LEMMA AgeStep ==
    ASSUME Kept, Age
    PROVE  Kept' /\ Still /\ WordsStay
<1>1. TypedParts /\ row \in Row
  BY Typed DEF Kept, TypedParts
<1>2. row' = [row EXCEPT !.prompted = 2] /\ UNCHANGED <<job, hand, panel, renewal, hist>>
  BY DEF Age
<1>3. row' \in Row
  <2>1. 2 \in 0..2
    OBVIOUS
  <2> QED
    BY Zenon, <1>1, <1>2, <2>1, RowChanged
<1>4. row'.status = row.status /\ row'.held = row.held
  BY Zenon, <1>1, <1>2 DEF Row
<1>5. PanelSound'
  BY <1>2 DEF Kept, Sound, PanelSound
<1>6. Kept'
  BY <1>1, <1>2, <1>3, <1>4, <1>5, OnlyPanel DEF TypedParts
<1> QED
  BY <1>1, <1>2, <1>4, <1>6 DEF Still, WordsStay, TypedParts, Hist

\* The process dies: what was under way runs again.
Dies ==
    /\ row' = row /\ hand'.queue = <<>> /\ hist'.sent = hist.sent
    /\ hist'.faults = hist.faults + 1 /\ hist'.crashed = TRUE
    /\ job' \in [Msg -> Job]
    /\ \A m \in Msg : job'[m] = job[m] \/ job'[m].step = "waiting"
    /\ \A m \in Msg : job'[m].step \in {"done", "failed", "waiting"}
    /\ \A m \in Msg : job[m].step = "failed" => job'[m] = job[m]

\* A crash leaves no send and no handler under way.
LEMMA CrashStep ==
    ASSUME Kept, Crash
    PROVE  Kept' /\ Dies /\ (Words => Words')
<1>1. TypedParts /\ hist \in Hist /\ row \in Row /\ job \in [Msg -> Job]
  BY Typed DEF Kept, TypedParts
<1> DEFINE f == hist.faults + 1
<1>2. f \in 0..MaxFaults /\ TRUE \in BOOLEAN
  BY <1>1, Bounds DEF Crash, Hist
<1>3. hist' = [hist EXCEPT !.faults = f, !.crashed = TRUE, !.torn = TRUE]
  BY DEF Crash
<1> HIDE DEF f
<1>4. /\ hist' \in Hist /\ hist'.word = hist.word /\ hist'.released = hist.released
      /\ hist'.untold = hist.untold /\ hist'.torn = TRUE /\ hist'.faults = f
      /\ hist'.crashed = TRUE /\ hist'.sent = hist.sent
  BY Zenon, <1>1, <1>2, <1>3, HistCrashed
<1>5. hand' = NoHand /\ panel' = NoPanel /\ UNCHANGED <<row, renewal>>
  BY DEF Crash
<1>6. NoPanel \in Panel /\ NoPanel.op = "none"
  BY NewRowTyped DEF NoPanel, Panel
<1>7. <<>> \in Seq(Msg) /\ 0 \in 0..MaxPending
  BY Bounds, EmptySeq
<1>8. NoJob("waiting") \in Job /\ NoJob("waiting").step = "waiting"
  BY <1>7, JobMade DEF JobStep
<1>9. job' = [m \in Msg |-> IF job[m].step \in {"done", "failed"} THEN job[m]
                            ELSE NoJob("waiting")]
  BY DEF Crash
<1>10. /\ job' \in [Msg -> Job]
       /\ \A m \in Msg : job'[m] = job[m] \/ job'[m].step = "waiting"
       /\ \A m \in Msg : job'[m].step \in {"done", "failed", "waiting"}
       /\ \A m \in Msg : job[m].step = "failed" => job'[m] = job[m]
  BY <1>1, <1>8, <1>9
<1>11. Types'
  BY <1>1, <1>4, <1>5, <1>6, <1>10, NoHandTyped
     DEF TypedParts, Types, Job, JobStep, Hand, HandStep, Panel, Hist
<1>12. HandSound' /\ PanelSound' /\ \A m \in Msg : JobSound(job'[m])
  BY <1>5, <1>6, <1>10, NoHandTyped DEF HandSound, PanelSound, JobSound
<1>13. Kept'
  BY <1>11, <1>12 DEF Kept, Sound, JobSound
<1>14. Dies
  BY <1>4, <1>5, <1>10, NoHandTyped DEF Dies, f
<1>15. ASSUME Words PROVE Words'
  <2>1. TakenAsYes' /\ RefusalHeldUnlessUntold'
    BY <1>4, <1>5, <1>15, NoHandTyped DEF Words, WordKept, TakenAsYes, RefusalHeldUnlessUntold
  <2>2. WordKept'
    BY <1>5, <2>1, NoHandTyped DEF WordKept
  <2>3. FlushDue'
    BY <1>4 DEF FlushDue
  <2> QED
    BY <2>2, <2>3 DEF Words
<1> QED
  BY <1>13, <1>14, <1>15

\* Every step moves the messages in one of these ways.
Moves ==
    \/ \E m \in Msg : JobMoves(m) \/ Holds(m) \/ Delivers(m)
    \/ Still \/ Refuses \/ Flushes \/ Replays \/ Dies

\* A send that loads or asks changes no word of the contact.
LEMMA JobMovesWords ==
    ASSUME NEW m \in Msg, JobMoves(m)
    PROVE  Words => Words'
<1>1. UNCHANGED <<row, hand, hist>>
  BY DEF JobMoves
<1> QED
  BY <1>1, WordsStayed DEF WordsStay

\* Every step keeps what the handlers know, moves the messages in one of these
\* ways and keeps what the contact's word stands for.
LEMMA Steps ==
    ASSUME Kept, SentSeldom, Next
    PROVE  Kept' /\ Moves /\ (Words => Words')
<1>1. CASE \E m \in Msg : SendStep(m)
  <2>1. PICK m \in Msg : SendStep(m)
    BY <1>1
  <2>2. CASE SendRefused(m)
    <3>1. Waiting(job[m]) /\ Retry(m)
      BY <2>2 DEF SendRefused, Waiting
    <3> QED
      BY <3>1, RetryStep, JobMovesWords DEF Moves
  <2>3. CASE SendLoad(m)
    BY <2>3, LoadStep, JobMovesWords DEF Moves
  <2>4. CASE Ask(m) \/ Settle(m)
    BY <2>4, AskStep, JobMovesWords DEF Moves
  <2>5. CASE Hold(m)
    BY <2>5, HoldStep, JobMovesWords, WordsStayed DEF Moves
  <2>6. CASE Deliver(m)
    BY <2>6, DeliverStep, JobMovesWords, WordsStayed DEF Moves
  <2> QED
    BY <2>1, <2>2, <2>3, <2>4, <2>5, <2>6 DEF SendStep
<1>2. CASE \E text \in Text : Write(text)
  BY <1>2, WriteStep DEF Moves
<1>3. CASE Answer
  BY <1>3, AnswerStep DEF Moves
<1>4. CASE Open
  BY <1>4, OpenStep DEF Moves
<1>5. CASE OptOut
  BY <1>5, OptOutStep DEF Moves
<1>6. CASE Tell
  BY <1>6, TellStep DEF Moves
<1>7. CASE TellFails
  BY <1>7, TellFailsStep DEF Moves
<1>8. CASE FlushLoad
  BY <1>8, FlushLoadStep DEF Moves
<1>9. CASE FlushClear
  BY <1>9, FlushClearStep DEF Moves
<1>10. CASE Replay
  BY <1>10, ReplayStep DEF Moves
<1>11. CASE InboxLoad
  BY <1>11, InboxLoadStep DEF Moves
<1>12. CASE Channel
  BY <1>12, ChannelStep DEF Moves
<1>13. CASE RequestRenewal
  BY <1>13, RenewalStep, WordsStayed DEF Moves
<1>14. CASE \E op \in {"approve", "clear", "block"} : PanelLoad(op)
  BY <1>14, PanelLoadStep, WordsStayed DEF Moves
<1>15. CASE PanelSave
  BY <1>15, PanelSaveStep DEF Moves
<1>16. CASE Age
  BY <1>16, AgeStep, WordsStayed DEF Moves
<1>17. CASE Crash
  BY <1>17, CrashStep DEF Moves
<1> QED
  BY <1>1, <1>2, <1>3, <1>4, <1>5, <1>6, <1>7, <1>8, <1>9, <1>10, <1>11, <1>12, <1>13, <1>14,
     <1>15, <1>16, <1>17 DEF Next

---------------------------------------------------------------------------
(* How often a message is sent.                                            *)

\* The numbers of a message.
LEMMA Numbers ==
    ASSUME Kept, NEW m \in Msg
    PROVE  /\ Occurrences(m, row.held) \in Nat /\ Occurrences(m, hand.queue) \in Nat
           /\ hist.sent \in [Msg -> Nat] /\ hist.faults \in Nat
           /\ row.held \in Seq(Msg) /\ hand.queue \in Seq(Msg) /\ hist.dropped \in SUBSET Msg
           /\ \A k \in Msg : job[k].held \in Seq(Msg) /\ Occurrences(m, job[k].held) \in Nat
<1>1. TypedParts
  BY Typed DEF Kept, TypedParts
<1>2. row.held \in Seq(Msg) /\ hand.queue \in Seq(Msg) /\ \A k \in Msg : job[k].held \in Seq(Msg)
  BY <1>1 DEF TypedParts, Row, Hand, Job
<1>3. hist.sent \in [Msg -> Nat] /\ hist.faults \in Nat /\ hist.dropped \in SUBSET Msg
  BY <1>1, Bounds DEF TypedParts, Hist
<1> QED
  BY <1>2, <1>3, OccursFinitely

\* After a save of the array no send is about to store.
LEMMA NoneHolds ==
    ASSUME Kept, NEW k \in Msg
    PROVE  ~Holding(OutOfDate(job)[k])
<1>1. job \in [Msg -> Job] /\ JobSound(job[k])
  BY Typed DEF Kept, Sound
<1>2. /\ OutOfDate(job)[k].step = job[k].step
      /\ OutOfDate(job)[k].fresh => job[k].held = <<>>
  BY <1>1, OutOfDateJobs
<1> QED
  BY <1>1, <1>2 DEF Holding, JobSound

\* No step of these sends a message once more than the faults allow.
LEMMA SentStep ==
    ASSUME Kept, Kept', SentSeldom, Moves
    PROVE  SentSeldom'
<1> SUFFICES ASSUME NEW m \in Msg
             PROVE  /\ Occurrences(m, row'.held) + Occurrences(m, hand'.queue)
                         + hist'.sent[m] + Due(job'[m]) <= 1 + hist'.faults
                    /\ \A k \in Msg : Holding(job'[k]) =>
                         Occurrences(m, job'[k].held) + Occurrences(m, hand'.queue)
                           + hist'.sent[m] + (IF m = k THEN 0 ELSE Due(job'[m]))
                         <= 1 + hist'.faults
  BY DEF SentSeldom, Holding, Places, Due, Waiting
<1>1. /\ Occurrences(m, row.held) \in Nat /\ Occurrences(m, hand.queue) \in Nat
      /\ hist.sent[m] \in Nat /\ hist.faults \in Nat
      /\ Due(job[m]) \in {0, 1} /\ Due(job'[m]) \in {0, 1}
  BY Numbers DEF Due
<1>2. job \in [Msg -> Job] /\ hist.sent \in [Msg -> Nat] /\ row.held \in Seq(Msg)
      /\ hand.queue \in Seq(Msg)
  BY Typed, Numbers DEF Kept
<1>3. Occurrences(m, row.held) + Occurrences(m, hand.queue) + hist.sent[m] + Due(job[m])
        <= 1 + hist.faults
  BY DEF SentSeldom, Places
<1>4. ASSUME NEW k \in Msg, Holding(job[k])
      PROVE  /\ Occurrences(m, job[k].held) \in Nat
             /\ Occurrences(m, job[k].held) + Occurrences(m, hand.queue) + hist.sent[m]
                  + (IF m = k THEN 0 ELSE Due(job[m])) <= 1 + hist.faults
  BY <1>4, Numbers DEF SentSeldom, Places
<1>5. Occurrences(m, <<>>) = 0
  BY OccursNowhere
<1>6. ASSUME NEW x \in Msg, JobMoves(x)
      PROVE  /\ Occurrences(m, row'.held) + Occurrences(m, hand'.queue)
                  + hist'.sent[m] + Due(job'[m]) <= 1 + hist'.faults
             /\ \A k \in Msg : Holding(job'[k]) =>
                  Occurrences(m, job'[k].held) + Occurrences(m, hand'.queue)
                    + hist'.sent[m] + (IF m = k THEN 0 ELSE Due(job'[m]))
                  <= 1 + hist'.faults
  <2>1. PICK j \in Job :
           /\ job' = [job EXCEPT ![x] = j] /\ UNCHANGED <<row, hand, hist>>
           /\ Waiting(j) => Waiting(job[x])
           /\ Holding(j) => \/ j.held = Append(row.held, x) /\ Waiting(job[x])
                            \/ j.held = job[x].held /\ Holding(job[x])
    BY <1>6 DEF JobMoves
  <2>2. \A k \in Msg : job'[k] = IF k = x THEN j ELSE job[k]
    BY <1>2, <2>1
  <2>3. Waiting(job'[m]) => Waiting(job[m])
    BY <2>1, <2>2
  <2>4. Due(job'[m]) <= Due(job[m])
    BY <2>3 DEF Due
  <2>5. row' = row /\ hand' = hand /\ hist' = hist
    BY <2>1
  <2>6. Occurrences(m, row'.held) + Occurrences(m, hand'.queue)
          + hist'.sent[m] + Due(job'[m]) <= 1 + hist'.faults
    BY <1>1, <1>3, <2>4, <2>5
  <2>7. ASSUME NEW k \in Msg, Holding(job'[k])
        PROVE  Occurrences(m, job'[k].held) + Occurrences(m, hand'.queue)
                 + hist'.sent[m] + (IF m = k THEN 0 ELSE Due(job'[m])) <= 1 + hist'.faults
    <3>1. CASE job'[k].held = job[k].held /\ Holding(job[k])
      <4>1. /\ Occurrences(m, job[k].held) \in Nat
            /\ Occurrences(m, job[k].held) + Occurrences(m, hand.queue) + hist.sent[m]
                 + (IF m = k THEN 0 ELSE Due(job[m])) <= 1 + hist.faults
        BY <1>4, <3>1
      <4> QED
        BY <1>1, <2>4, <2>5, <3>1, <4>1
    <3>2. CASE k = x /\ job'[k].held = Append(row.held, x) /\ Waiting(job[x])
      <4>1. Occurrences(m, job'[k].held) = Occurrences(m, row.held) + IF x = m THEN 1 ELSE 0
        BY <1>2, <3>2, OccursAppended
      <4>2. m = x => Due(job[m]) = 1
        BY <3>2 DEF Due
      <4>3. m = k <=> m = x
        BY <3>2
      <4> QED
        BY <1>1, <1>3, <2>4, <2>5, <4>1, <4>2, <4>3
    <3> QED
      BY <2>1, <2>2, <2>7, <3>1, <3>2
  <2> QED
    BY <2>6, <2>7
<1>7. ASSUME NEW x \in Msg, Holds(x)
      PROVE  /\ Occurrences(m, row'.held) + Occurrences(m, hand'.queue)
                  + hist'.sent[m] + Due(job'[m]) <= 1 + hist'.faults
             /\ \A k \in Msg : ~Holding(job'[k])
  <2>1. \A k \in Msg : job'[k] = IF k = x THEN NoJob("settling") ELSE OutOfDate(job)[k]
    BY <1>2, <1>7, OutOfDateJobs DEF Holds
  <2>2. \A k \in Msg : ~Holding(job'[k])
    BY <2>1, NoneHolds DEF NoJob, Holding
  <2>3. Due(job'[m]) = IF m = x THEN 0 ELSE Due(job[m])
    <3>1. OutOfDate(job)[m].step = job[m].step /\ NoJob("settling").step = "settling"
      BY <1>2, OutOfDateJobs DEF NoJob
    <3>2. job'[m] = IF m = x THEN NoJob("settling") ELSE OutOfDate(job)[m]
      BY <2>1
    <3> QED
      BY <3>1, <3>2 DEF Due, Waiting
  <2>4. row'.held = job[x].held /\ hand'.queue = hand.queue /\ hist'.sent = hist.sent
        /\ hist'.faults = hist.faults /\ Holding(job[x])
    BY <1>7 DEF Holds
  <2>5. /\ Occurrences(m, job[x].held) \in Nat
        /\ Occurrences(m, job[x].held) + Occurrences(m, hand.queue) + hist.sent[m]
             + (IF m = x THEN 0 ELSE Due(job[m])) <= 1 + hist.faults
    BY <1>4, <2>4
  <2>6. Occurrences(m, row'.held) + Occurrences(m, hand'.queue)
          + hist'.sent[m] + Due(job'[m]) <= 1 + hist'.faults
    BY <1>1, <2>3, <2>4, <2>5
  <2> QED
    BY <2>2, <2>6
<1>8. ASSUME NEW x \in Msg, Delivers(x)
      PROVE  /\ Occurrences(m, row'.held) + Occurrences(m, hand'.queue)
                  + hist'.sent[m] + Due(job'[m]) <= 1 + hist'.faults
             /\ \A k \in Msg : Holding(job'[k]) =>
                  Occurrences(m, job'[k].held) + Occurrences(m, hand'.queue)
                    + hist'.sent[m] + (IF m = k THEN 0 ELSE Due(job'[m]))
                  <= 1 + hist'.faults
  <2>1. /\ \A k \in Msg : job'[k] = IF k = x THEN NoJob("settling") ELSE job[k]
        /\ Waiting(job[x]) /\ ~Waiting(NoJob("settling")) /\ ~Holding(NoJob("settling"))
    BY <1>2, <1>8 DEF Delivers, Waiting, Holding, NoJob
  <2>2. hist'.sent[m] = hist.sent[m] + IF m = x THEN 1 ELSE 0
    BY <1>2, <1>8 DEF Delivers
  <2>3. row' = row /\ hand' = hand /\ hist'.faults = hist.faults
    BY <1>8 DEF Delivers
  <2>4. IF m = x THEN Due(job[m]) = 1 /\ Due(job'[m]) = 0 ELSE Due(job'[m]) = Due(job[m])
    BY <2>1 DEF Due
  <2>5. Occurrences(m, row'.held) + Occurrences(m, hand'.queue)
          + hist'.sent[m] + Due(job'[m]) <= 1 + hist'.faults
    BY <1>1, <1>3, <2>2, <2>3, <2>4
  <2>6. ASSUME NEW k \in Msg, Holding(job'[k])
        PROVE  Occurrences(m, job'[k].held) + Occurrences(m, hand'.queue)
                 + hist'.sent[m] + (IF m = k THEN 0 ELSE Due(job'[m])) <= 1 + hist'.faults
    <3>1. k # x /\ job'[k] = job[k]
      BY <2>1, <2>6
    <3>2. /\ Occurrences(m, job[k].held) \in Nat
          /\ Occurrences(m, job[k].held) + Occurrences(m, hand.queue) + hist.sent[m]
               + (IF m = k THEN 0 ELSE Due(job[m])) <= 1 + hist.faults
      BY <1>4, <2>6, <3>1
    <3> QED
      BY <1>1, <2>2, <2>3, <2>4, <3>1, <3>2
  <2> QED
    BY <2>5, <2>6
<1>9. CASE Still \/ Refuses
  <2>1. hist'.faults \in Nat
    <3>1. hist' \in Hist
      BY DEF Kept, Types, Hist
    <3> QED
      BY <3>1, Bounds DEF Hist
  <2>2. /\ job' = job /\ row'.held \in {row.held, <<>>} /\ hand'.queue = hand.queue
        /\ hist'.sent = hist.sent
    BY <1>9 DEF Still, Refuses
  <2>3. hist'.faults >= hist.faults
    BY <1>1, <1>9 DEF Still, Refuses
  <2>4. Occurrences(m, row'.held) <= Occurrences(m, row.held) /\ Occurrences(m, row'.held) \in Nat
    BY <1>1, <1>5, <2>2
  <2>5. Occurrences(m, row'.held) + Occurrences(m, hand'.queue)
          + hist'.sent[m] + Due(job'[m]) <= 1 + hist'.faults
    <3>1. job'[m] = job[m] /\ hand'.queue = hand.queue /\ hist'.sent[m] = hist.sent[m]
      BY <2>2
    <3> QED
      BY <1>1, <1>3, <2>1, <2>3, <2>4, <3>1
  <2>6. ASSUME NEW k \in Msg, Holding(job'[k])
        PROVE  Occurrences(m, job'[k].held) + Occurrences(m, hand'.queue)
                 + hist'.sent[m] + (IF m = k THEN 0 ELSE Due(job'[m])) <= 1 + hist'.faults
    <3>1. /\ Occurrences(m, job[k].held) \in Nat
          /\ Occurrences(m, job[k].held) + Occurrences(m, hand.queue) + hist.sent[m]
               + (IF m = k THEN 0 ELSE Due(job[m])) <= 1 + hist.faults
      BY <1>4, <2>2, <2>6
    <3> QED
      BY <1>1, <2>1, <2>2, <2>3, <3>1
  <2> QED
    BY <2>5, <2>6
<1>10. CASE Flushes
  <2>1. \A k \in Msg : ~Holding(job'[k])
    BY <1>10, NoneHolds DEF Flushes
  <2>2. Due(job'[m]) = Due(job[m])
    BY <1>2, <1>10, OutOfDateJobs DEF Flushes, Due, Waiting
  <2>3. row'.held = <<>> /\ hand.queue = <<>> /\ hand'.queue = row.held
        /\ hist'.sent = hist.sent /\ hist'.faults = hist.faults
    BY <1>10 DEF Flushes
  <2>4. Occurrences(m, row'.held) + Occurrences(m, hand'.queue)
          + hist'.sent[m] + Due(job'[m]) <= 1 + hist'.faults
    BY <1>1, <1>3, <1>5, <2>2, <2>3
  <2> QED
    BY <2>1, <2>4
<1>11. CASE Replays
  <2> DEFINE x == Head(hand.queue)
  <2>1. x \in Msg
    BY <1>2, <1>11, HeadTailProperties DEF Replays
  <2>2. Occurrences(m, hand.queue) = Occurrences(m, hand'.queue) + IF x = m THEN 1 ELSE 0
    BY <1>2, <1>11, OccursAfterHead DEF Replays
  <2>3. Occurrences(m, hand'.queue) \in Nat
    BY <1>2, <1>11, HeadTailProperties, OccursFinitely DEF Replays
  <2>4. hist'.sent[m] \in {hist.sent[m], hist.sent[m] + IF x = m THEN 1 ELSE 0}
    BY <1>2, <1>11, <2>1 DEF Replays
  <2>5. row' = row /\ job' = job /\ hist'.faults = hist.faults
    BY <1>11 DEF Replays
  <2> HIDE DEF x
  <2>6. hist'.sent[m] + Occurrences(m, hand'.queue) <= hist.sent[m] + Occurrences(m, hand.queue)
        /\ hist'.sent[m] \in Nat
    BY <1>1, <2>2, <2>3, <2>4
  <2>7. Occurrences(m, row'.held) + Occurrences(m, hand'.queue)
          + hist'.sent[m] + Due(job'[m]) <= 1 + hist'.faults
    BY <1>1, <1>3, <2>3, <2>5, <2>6
  <2>8. ASSUME NEW k \in Msg, Holding(job'[k])
        PROVE  Occurrences(m, job'[k].held) + Occurrences(m, hand'.queue)
                 + hist'.sent[m] + (IF m = k THEN 0 ELSE Due(job'[m])) <= 1 + hist'.faults
    <3>1. /\ Occurrences(m, job[k].held) \in Nat
          /\ Occurrences(m, job[k].held) + Occurrences(m, hand.queue) + hist.sent[m]
               + (IF m = k THEN 0 ELSE Due(job[m])) <= 1 + hist.faults
      BY <1>4, <2>5, <2>8
    <3> QED
      BY <1>1, <2>3, <2>5, <2>6, <3>1
  <2> QED
    BY <2>7, <2>8
<1>12. CASE Dies
  <2>1. \A k \in Msg : ~Holding(job'[k])
    BY <1>12 DEF Dies, Holding
  <2>2. row' = row /\ hand'.queue = <<>> /\ hist'.sent = hist.sent
        /\ hist'.faults = hist.faults + 1
    BY <1>12 DEF Dies
  <2>3. Occurrences(m, row'.held) + Occurrences(m, hand'.queue)
          + hist'.sent[m] + Due(job'[m]) <= 1 + hist'.faults
    BY <1>1, <1>3, <1>5, <2>2
  <2> QED
    BY <2>1, <2>3
<1> QED
  BY <1>6, <1>7, <1>8, <1>9, <1>10, <1>11, <1>12 DEF Moves

---------------------------------------------------------------------------
(* Where a message is, as long as the process lives.                       *)

\* No step of these but a crash loses or repeats a message.
LEMMA OnceStep ==
    ASSUME Kept, OnceAlways, Moves
    PROVE  OnceAlways'
<1>0. CASE hist'.crashed
  BY <1>0 DEF OnceAlways
<1> SUFFICES ASSUME ~hist'.crashed, NEW m \in Msg
             PROVE  /\ Tallied(Settled(job'[m]),
                               Occurrences(m, row'.held) + Occurrences(m, hand'.queue)
                                 + hist'.sent[m],
                               m \in hist'.dropped)
                    /\ \A k \in Msg : Holding(job'[k]) =>
                         IF m = k
                           THEN /\ Occurrences(m, job'[k].held) = 1
                                /\ Occurrences(m, hand'.queue) + hist'.sent[m] = 0
                           ELSE Tallied(Settled(job'[m]),
                                        Occurrences(m, job'[k].held) + Occurrences(m, hand'.queue)
                                          + hist'.sent[m],
                                        m \in hist'.dropped)
  BY <1>0 DEF OnceAlways, Once, Places, Holding, Settled, Tallied
<1>1. ~hist.crashed
  BY DEF Moves, JobMoves, Holds, Delivers, Still, Refuses, Flushes, Replays, Dies
<1>2. /\ Occurrences(m, row.held) \in Nat /\ Occurrences(m, hand.queue) \in Nat
      /\ hist.sent[m] \in Nat
  BY Numbers
<1>3. job \in [Msg -> Job] /\ hist.sent \in [Msg -> Nat] /\ row.held \in Seq(Msg)
      /\ hand.queue \in Seq(Msg)
  BY Typed, Numbers DEF Kept
<1>4. Tallied(Settled(job[m]),
              Occurrences(m, row.held) + Occurrences(m, hand.queue) + hist.sent[m],
              m \in hist.dropped)
  BY <1>1 DEF OnceAlways, Once, Places
<1>5. ASSUME NEW k \in Msg, Holding(job[k])
      PROVE  /\ Occurrences(m, job[k].held) \in Nat
             /\ IF m = k
                  THEN /\ Occurrences(m, job[k].held) = 1
                       /\ Occurrences(m, hand.queue) + hist.sent[m] = 0
                  ELSE Tallied(Settled(job[m]),
                               Occurrences(m, job[k].held) + Occurrences(m, hand.queue)
                                 + hist.sent[m],
                               m \in hist.dropped)
  <2>1. Occurrences(m, job[k].held) \in Nat
    BY Numbers
  <2>2. CASE m = k
    <3>1. /\ Occurrences(m, job[k].held) = 1
          /\ Occurrences(m, hand.queue) + hist.sent[m] = 0
      BY <1>1, <1>5, <2>2 DEF OnceAlways
    <3> QED
      BY <2>1, <2>2, <3>1
  <2>3. CASE m # k
    BY <1>1, <1>5, <2>1, <2>3 DEF OnceAlways, Once, Places
  <2> QED
    BY <2>2, <2>3
<1>6. Occurrences(m, <<>>) = 0
  BY OccursNowhere
<1>7. ASSUME NEW x \in Msg, JobMoves(x)
      PROVE  /\ Tallied(Settled(job'[m]),
                        Occurrences(m, row'.held) + Occurrences(m, hand'.queue) + hist'.sent[m],
                        m \in hist'.dropped)
             /\ \A k \in Msg : Holding(job'[k]) =>
                  IF m = k
                    THEN /\ Occurrences(m, job'[k].held) = 1
                         /\ Occurrences(m, hand'.queue) + hist'.sent[m] = 0
                    ELSE Tallied(Settled(job'[m]),
                                 Occurrences(m, job'[k].held) + Occurrences(m, hand'.queue)
                                   + hist'.sent[m],
                                 m \in hist'.dropped)
  <2>1. PICK j \in Job :
           /\ job' = [job EXCEPT ![x] = j] /\ UNCHANGED <<row, hand, hist>>
           /\ Settled(j) <=> Settled(job[x])
           /\ Holding(j) => \/ j.held = Append(row.held, x) /\ ~Settled(job[x])
                            \/ j.held = job[x].held /\ Holding(job[x])
    BY <1>7 DEF JobMoves
  <2>2. \A k \in Msg : job'[k] = IF k = x THEN j ELSE job[k]
    BY <1>3, <2>1
  <2>3. Settled(job'[m]) <=> Settled(job[m])
    BY <2>1, <2>2
  <2>4. row' = row /\ hand' = hand /\ hist' = hist
    BY <2>1
  <2>5. Tallied(Settled(job'[m]),
              Occurrences(m, row'.held) + Occurrences(m, hand'.queue) + hist'.sent[m],
              m \in hist'.dropped)
    BY <1>4, <2>3, <2>4 DEF Tallied
  <2>6. ASSUME NEW k \in Msg, Holding(job'[k])
        PROVE  IF m = k
                 THEN /\ Occurrences(m, job'[k].held) = 1
                      /\ Occurrences(m, hand'.queue) + hist'.sent[m] = 0
                 ELSE Tallied(Settled(job'[m]),
                              Occurrences(m, job'[k].held) + Occurrences(m, hand'.queue)
                                + hist'.sent[m],
                              m \in hist'.dropped)
    <3>1. CASE job'[k].held = job[k].held /\ Holding(job[k])
      <4>1. IF m = k
              THEN /\ Occurrences(m, job[k].held) = 1
                   /\ Occurrences(m, hand.queue) + hist.sent[m] = 0
              ELSE Tallied(Settled(job[m]),
                           Occurrences(m, job[k].held) + Occurrences(m, hand.queue)
                             + hist.sent[m],
                           m \in hist.dropped)
        BY <1>5, <3>1
      <4> QED
        BY <2>3, <2>4, <3>1, <4>1 DEF Tallied
    <3>2. CASE k = x /\ job'[k].held = Append(row.held, x) /\ ~Settled(job[x])
      <4>1. Occurrences(m, job'[k].held) = Occurrences(m, row.held) + IF x = m THEN 1 ELSE 0
        BY <1>3, <3>2, OccursAppended
      <4>2. CASE m = k
        <5>1. Occurrences(m, row.held) + Occurrences(m, hand.queue) + hist.sent[m] = 0
          BY <1>4, <3>2, <4>2 DEF Tallied
        <5> QED
          BY <1>2, <2>4, <3>2, <4>1, <4>2, <5>1
      <4>3. CASE m # k
        <5>1. Occurrences(m, job'[k].held) = Occurrences(m, row.held)
          BY <1>2, <3>2, <4>1, <4>3
        <5> QED
          BY <1>4, <2>3, <2>4, <4>3, <5>1 DEF Tallied
      <4> QED
        BY <4>2, <4>3
    <3> QED
      BY <2>1, <2>2, <2>6, <3>1, <3>2
  <2> QED
    BY <2>5, <2>6
<1>8. ASSUME NEW x \in Msg, Holds(x)
      PROVE  /\ Tallied(Settled(job'[m]),
                        Occurrences(m, row'.held) + Occurrences(m, hand'.queue) + hist'.sent[m],
                        m \in hist'.dropped)
             /\ \A k \in Msg : ~Holding(job'[k])
  <2>1. \A k \in Msg : job'[k] = IF k = x THEN NoJob("settling") ELSE OutOfDate(job)[k]
    BY <1>3, <1>8, OutOfDateJobs DEF Holds
  <2>2. \A k \in Msg : ~Holding(job'[k])
    BY <2>1, NoneHolds DEF NoJob, Holding
  <2>3. IF m = x THEN Settled(job'[m]) ELSE (Settled(job'[m]) <=> Settled(job[m]))
    <3>1. OutOfDate(job)[m].step = job[m].step /\ NoJob("settling").step = "settling"
      BY <1>3, OutOfDateJobs DEF NoJob
    <3>2. job'[m] = IF m = x THEN NoJob("settling") ELSE OutOfDate(job)[m]
      BY <2>1
    <3> QED
      BY <3>1, <3>2 DEF Settled
  <2>4. row'.held = job[x].held /\ hand'.queue = hand.queue /\ hist'.sent = hist.sent
        /\ hist'.dropped = hist.dropped /\ Holding(job[x])
    BY <1>8 DEF Holds
  <2>5. /\ Occurrences(m, job[x].held) \in Nat
        /\ IF m = x
             THEN /\ Occurrences(m, job[x].held) = 1
                  /\ Occurrences(m, hand.queue) + hist.sent[m] = 0
             ELSE Tallied(Settled(job[m]),
                          Occurrences(m, job[x].held) + Occurrences(m, hand.queue)
                            + hist.sent[m],
                          m \in hist.dropped)
    BY <1>5, <2>4
  <2>6. Tallied(Settled(job'[m]),
              Occurrences(m, row'.held) + Occurrences(m, hand'.queue) + hist'.sent[m],
              m \in hist'.dropped)
    <3>1. CASE m = x
      BY <1>2, <2>3, <2>4, <2>5, <3>1 DEF Tallied
    <3>2. CASE m # x
      BY <2>3, <2>4, <2>5, <3>2 DEF Tallied
    <3> QED
      BY <3>1, <3>2
  <2> QED
    BY <2>2, <2>6
<1>9. ASSUME NEW x \in Msg, Delivers(x)
      PROVE  /\ Tallied(Settled(job'[m]),
                        Occurrences(m, row'.held) + Occurrences(m, hand'.queue) + hist'.sent[m],
                        m \in hist'.dropped)
             /\ \A k \in Msg : Holding(job'[k]) =>
                  IF m = k
                    THEN /\ Occurrences(m, job'[k].held) = 1
                         /\ Occurrences(m, hand'.queue) + hist'.sent[m] = 0
                    ELSE Tallied(Settled(job'[m]),
                                 Occurrences(m, job'[k].held) + Occurrences(m, hand'.queue)
                                   + hist'.sent[m],
                                 m \in hist'.dropped)
  <2>1. /\ \A k \in Msg : job'[k] = IF k = x THEN NoJob("settling") ELSE job[k]
        /\ ~Settled(job[x]) /\ Settled(NoJob("settling")) /\ ~Holding(NoJob("settling"))
    BY <1>3, <1>9 DEF Delivers, Settled, Holding, NoJob
  <2>2. hist'.sent[m] = hist.sent[m] + IF m = x THEN 1 ELSE 0
    BY <1>3, <1>9 DEF Delivers
  <2>3. row' = row /\ hand' = hand /\ hist'.dropped = hist.dropped
    BY <1>9 DEF Delivers
  <2>4. CASE m = x
    <3>1. Settled(job'[m]) /\ ~Settled(job[m])
      BY <2>1, <2>4
    <3>2. Occurrences(m, row.held) + Occurrences(m, hand.queue) + hist.sent[m] = 0
      BY <1>4, <3>1 DEF Tallied
    <3>3. Tallied(Settled(job'[m]),
                Occurrences(m, row'.held) + Occurrences(m, hand'.queue) + hist'.sent[m],
                m \in hist'.dropped)
      BY <1>2, <2>2, <2>3, <2>4, <3>1, <3>2 DEF Tallied
    <3>4. ASSUME NEW k \in Msg, Holding(job'[k])
          PROVE  IF m = k
                   THEN /\ Occurrences(m, job'[k].held) = 1
                        /\ Occurrences(m, hand'.queue) + hist'.sent[m] = 0
                   ELSE Tallied(Settled(job'[m]),
                                Occurrences(m, job'[k].held) + Occurrences(m, hand'.queue)
                                  + hist'.sent[m],
                                m \in hist'.dropped)
      <4>1. k # m /\ Holding(job[k]) /\ job'[k] = job[k]
        BY <2>1, <2>4, <3>4
      <4>2. /\ Occurrences(m, job[k].held) \in Nat
            /\ Occurrences(m, job[k].held) + Occurrences(m, hand.queue) + hist.sent[m] = 0
        BY <1>5, <3>1, <4>1 DEF Tallied
      <4> QED
        BY <1>2, <2>2, <2>3, <2>4, <3>1, <4>1, <4>2 DEF Tallied
    <3> QED
      BY <3>3, <3>4
  <2>5. CASE m # x
    <3>1. job'[m] = job[m] /\ hist'.sent[m] = hist.sent[m]
      BY <1>2, <2>1, <2>2, <2>5
    <3>2. Tallied(Settled(job'[m]),
                Occurrences(m, row'.held) + Occurrences(m, hand'.queue) + hist'.sent[m],
                m \in hist'.dropped)
      BY <1>4, <2>3, <3>1
    <3>3. ASSUME NEW k \in Msg, Holding(job'[k])
          PROVE  IF m = k
                   THEN /\ Occurrences(m, job'[k].held) = 1
                        /\ Occurrences(m, hand'.queue) + hist'.sent[m] = 0
                   ELSE Tallied(Settled(job'[m]),
                                Occurrences(m, job'[k].held) + Occurrences(m, hand'.queue)
                                  + hist'.sent[m],
                                m \in hist'.dropped)
      <4>1. Holding(job[k]) /\ job'[k] = job[k]
        BY <2>1, <3>3
      <4>2. IF m = k
              THEN /\ Occurrences(m, job[k].held) = 1
                   /\ Occurrences(m, hand.queue) + hist.sent[m] = 0
              ELSE Tallied(Settled(job[m]),
                           Occurrences(m, job[k].held) + Occurrences(m, hand.queue)
                             + hist.sent[m],
                           m \in hist.dropped)
        BY <1>5, <4>1
      <4> QED
        BY <2>3, <3>1, <4>1, <4>2
    <3> QED
      BY <3>2, <3>3
  <2> QED
    BY <2>4, <2>5
<1>10. CASE Still
  <2>1. /\ job' = job /\ row'.held = row.held /\ hand'.queue = hand.queue
        /\ hist'.sent = hist.sent /\ hist'.dropped = hist.dropped
    BY <1>10 DEF Still
  <2> QED
    BY <1>4, <1>5, <2>1
<1>11. CASE Refuses
  <2>1. /\ job' = job /\ hand'.queue = hand.queue /\ hist'.sent = hist.sent
    BY <1>11 DEF Refuses
  <2>2. m \in hist'.dropped
          <=> m \in hist.dropped \/ (m \in ToSet(row.held) /\ m \notin ToSet(row'.held))
    BY <1>11 DEF Refuses
  <2>3. m \in hist.dropped => m \in hist'.dropped
    BY <2>2
  <2>4. \/ Occurrences(m, row'.held) = Occurrences(m, row.held)
        \/ Occurrences(m, row.held) # 0 /\ Occurrences(m, row'.held) = 0 /\ m \in hist'.dropped
    <3>1. row'.held \in {row.held, <<>>} /\ <<>> \in Seq(Msg)
      BY <1>11, EmptySeq DEF Refuses
    <3>2. /\ Occurrences(m, row.held) # 0 <=> m \in ToSet(row.held)
          /\ Occurrences(m, <<>>) # 0 <=> m \in ToSet(<<>>)
      BY <1>3, <3>1, OccursIn
    <3> QED
      BY <1>6, <2>2, <3>1, <3>2
  <2>5. Tallied(Settled(job'[m]),
              Occurrences(m, row'.held) + Occurrences(m, hand'.queue) + hist'.sent[m],
              m \in hist'.dropped)
    BY <1>2, <1>4, <2>1, <2>3, <2>4 DEF Tallied
  <2>6. ASSUME NEW k \in Msg, Holding(job'[k])
        PROVE  IF m = k
                 THEN /\ Occurrences(m, job'[k].held) = 1
                      /\ Occurrences(m, hand'.queue) + hist'.sent[m] = 0
                 ELSE Tallied(Settled(job'[m]),
                              Occurrences(m, job'[k].held) + Occurrences(m, hand'.queue)
                                + hist'.sent[m],
                              m \in hist'.dropped)
    <3>1. IF m = k
            THEN /\ Occurrences(m, job[k].held) = 1
                 /\ Occurrences(m, hand.queue) + hist.sent[m] = 0
            ELSE Tallied(Settled(job[m]),
                         Occurrences(m, job[k].held) + Occurrences(m, hand.queue)
                           + hist.sent[m],
                         m \in hist.dropped)
      BY <1>5, <2>1, <2>6
    <3> QED
      BY <2>1, <2>3, <3>1 DEF Tallied
  <2> QED
    BY <2>5, <2>6
<1>12. CASE Flushes
  <2>1. \A k \in Msg : ~Holding(job'[k])
    BY <1>12, NoneHolds DEF Flushes
  <2>2. Settled(job'[m]) <=> Settled(job[m])
    BY <1>3, <1>12, OutOfDateJobs DEF Flushes, Settled
  <2>3. row'.held = <<>> /\ hand.queue = <<>> /\ hand'.queue = row.held
        /\ hist'.sent = hist.sent /\ hist'.dropped = hist.dropped
    BY <1>12 DEF Flushes
  <2>4. Tallied(Settled(job'[m]),
              Occurrences(m, row'.held) + Occurrences(m, hand'.queue) + hist'.sent[m],
              m \in hist'.dropped)
    BY <1>2, <1>4, <1>6, <2>2, <2>3 DEF Tallied
  <2> QED
    BY <2>1, <2>4
<1>13. CASE Replays
  <2> DEFINE x == Head(hand.queue)
  <2>1. x \in Msg
    BY <1>3, <1>13, HeadTailProperties DEF Replays
  <2>2. Occurrences(m, hand.queue) = Occurrences(m, hand'.queue) + IF x = m THEN 1 ELSE 0
    BY <1>3, <1>13, OccursAfterHead DEF Replays
  <2>3. Occurrences(m, hand'.queue) \in Nat
    BY <1>3, <1>13, HeadTailProperties, OccursFinitely DEF Replays
  <2>4. \/ hist'.sent[m] = hist.sent[m] + (IF x = m THEN 1 ELSE 0)
           /\ hist'.dropped = hist.dropped
        \/ hist'.sent[m] = hist.sent[m] /\ hist'.dropped = hist.dropped \cup {x}
    BY <1>2, <1>3, <1>13, <2>1 DEF Replays
  <2>5. row' = row /\ job' = job
    BY <1>13 DEF Replays
  <2>6. m \in hist.dropped => m \in hist'.dropped
    BY <2>4
  <2> HIDE DEF x
  <2>7. hist'.sent[m] \in Nat
    BY <1>2, <2>4
  <2>8. CASE x # m
    <3>1. Occurrences(m, hand'.queue) = Occurrences(m, hand.queue) /\ hist'.sent[m] = hist.sent[m]
      BY <1>2, <2>2, <2>3, <2>4, <2>8
    <3>2. Tallied(Settled(job'[m]),
                Occurrences(m, row'.held) + Occurrences(m, hand'.queue) + hist'.sent[m],
                m \in hist'.dropped)
      BY <1>4, <2>5, <2>6, <3>1 DEF Tallied
    <3>3. ASSUME NEW k \in Msg, Holding(job'[k])
          PROVE  IF m = k
                   THEN /\ Occurrences(m, job'[k].held) = 1
                        /\ Occurrences(m, hand'.queue) + hist'.sent[m] = 0
                   ELSE Tallied(Settled(job'[m]),
                                Occurrences(m, job'[k].held) + Occurrences(m, hand'.queue)
                                  + hist'.sent[m],
                                m \in hist'.dropped)
      <4>1. IF m = k
              THEN /\ Occurrences(m, job[k].held) = 1
                   /\ Occurrences(m, hand.queue) + hist.sent[m] = 0
              ELSE Tallied(Settled(job[m]),
                           Occurrences(m, job[k].held) + Occurrences(m, hand.queue)
                             + hist.sent[m],
                           m \in hist.dropped)
        BY <1>5, <2>5, <3>3
      <4> QED
        BY <2>5, <2>6, <3>1, <4>1 DEF Tallied
    <3> QED
      BY <3>2, <3>3
  <2>9. CASE x = m
    <3>1. Occurrences(m, hand.queue) = Occurrences(m, hand'.queue) + 1
      BY <2>2, <2>9
    <3>2. \/ hist'.sent[m] = hist.sent[m] + 1
          \/ hist'.sent[m] = hist.sent[m] /\ m \in hist'.dropped
      BY <2>4, <2>9
    <3>3. /\ Settled(job[m])
          /\ Occurrences(m, row.held) + Occurrences(m, hand.queue) + hist.sent[m] = 1
      BY <1>2, <1>4, <2>3, <3>1 DEF Tallied
    <3>4. Tallied(Settled(job'[m]),
                Occurrences(m, row'.held) + Occurrences(m, hand'.queue) + hist'.sent[m],
                m \in hist'.dropped)
      BY <1>2, <2>3, <2>5, <2>7, <3>1, <3>2, <3>3 DEF Tallied
    <3>5. ASSUME NEW k \in Msg, Holding(job'[k])
          PROVE  IF m = k
                   THEN /\ Occurrences(m, job'[k].held) = 1
                        /\ Occurrences(m, hand'.queue) + hist'.sent[m] = 0
                   ELSE Tallied(Settled(job'[m]),
                                Occurrences(m, job'[k].held) + Occurrences(m, hand'.queue)
                                  + hist'.sent[m],
                                m \in hist'.dropped)
      <4>1. Holding(job[k]) /\ job'[k] = job[k] /\ job'[m] = job[m]
        BY <2>5, <3>5
      <4>2. k # m /\ Occurrences(m, job[k].held) \in Nat
            /\ Occurrences(m, job[k].held) + Occurrences(m, hand.queue) + hist.sent[m] = 1
        <5>1. Occurrences(m, job[k].held) \in Nat
          BY <1>5, <4>1
        <5>2. k # m
          BY <3>3, <4>1 DEF Settled, Holding
        <5>3. Tallied(Settled(job[m]),
                      Occurrences(m, job[k].held) + Occurrences(m, hand.queue) + hist.sent[m],
                      m \in hist.dropped)
          BY <1>5, <4>1, <5>2
        <5> QED
          BY <1>2, <2>3, <3>1, <3>3, <5>1, <5>2, <5>3 DEF Tallied
      <4> QED
        BY <1>2, <2>3, <2>7, <3>1, <3>2, <3>3, <4>1, <4>2 DEF Tallied
    <3> QED
      BY <3>4, <3>5
  <2> QED
    BY <2>8, <2>9
<1>14. CASE Dies
  BY <1>14 DEF Dies
<1> QED
  BY <1>7, <1>8, <1>9, <1>10, <1>11, <1>12, <1>13, <1>14 DEF Moves

---------------------------------------------------------------------------
(* What the contact wrote last.                                            *)

\* A handler that goes on from the contact's text, and an ACCEPTED contact,
\* have a text that refused nothing.
SaidKept ==
    /\ said \in {"none", "text", "no"}
    /\ hand.step \notin {"idle", "answer"} /\ ~hand.refused => said = "text"
    /\ hand.step = "answer" => said = IF ReadsRefuse(hand.text) THEN "no" ELSE "text"
    /\ row.status = "ACCEPTED" => said = "text" \/ hist.untold

\* A step that is no text of the contact and accepts nobody.
LEMMA SaidFollows ==
    ASSUME SaidKept, UNCHANGED said, hist.untold => hist'.untold,
           row'.status = "ACCEPTED" => row.status = "ACCEPTED",
           \/ hand'.step = "idle"
           \/ /\ hand'.step = hand.step /\ hand'.refused = hand.refused
              /\ hand'.text = hand.text
           \/ /\ hand.step \notin {"idle", "answer"} /\ hand'.step # "answer"
              /\ hand.refused => hand'.refused
    PROVE  SaidKept'
BY DEF SaidKept, ReadsRefuse

\* On to a step: only an idle handler forgets that it saved a refusal.
LEMMA GotoMoves ==
    ASSUME hand \in Hand, NEW step \in HandStep, Goto(step)
    PROVE  hand'.step = step /\ (step # "idle" => hand'.refused = hand.refused)
<1>1. CASE step = "idle"
  BY <1>1, NoHandTyped DEF Goto
<1>2. CASE step # "idle"
  <2>1. hand' = [NoHand EXCEPT !.step = step, !.refused = hand.refused]
    BY <1>2 DEF Goto
  <2> QED
    BY Zenon, <2>1, NoHandTyped DEF Hand
<1> QED
  BY <1>1, <1>2

\* The save of an acceptance.
LEMMA SaidAccepted ==
    ASSUME Kept, SaidKept, hand.refused => hist.untold,
           NEW step \in {"thanks", "inbox", "idle"}, Accept(step),
           \/ hand.step = "answer" /\ ReadsAccept(hand.text)
           \/ hand.step \in {"open", "channel"},
           step = "thanks" => hand.step = "answer"
    PROVE  SaidKept'
<1>1. hand \in Hand /\ hist \in Hist /\ HandSound
  BY Typed DEF Kept, Sound
<1>2. Goto(step) /\ said' = said
  BY DEF Accept
<1>3. step \notin {"idle", "telling", "inbox"} => ~hand.refused
  BY <1>1 DEF HandSound
<1>4. /\ hand'.step = step
      /\ step # "idle" => (hand.refused => hand'.refused)
  BY <1>1, <1>2, <1>3, GotoHand
<1>5. ~hand.refused => said = "text"
  BY DEF SaidKept, ReadsAccept, ReadsRefuse
<1>6. hand.refused => hist'.untold
  BY <1>1 DEF Accept, Hist
<1>7. hand.refused \in BOOLEAN
  BY <1>1 DEF Hand
<1> QED
  BY <1>2, <1>4, <1>5, <1>6, <1>7 DEF SaidKept

\* The save of a refusal, of a contact that did not have the status it sets.
LEMMA SaidRefused ==
    ASSUME Kept, hand.doc.status # "REFUSED_FIRST", Refuse("REFUSED_FIRST")
    PROVE  SaidKept'
<1>1. row \in Row /\ hand.doc \in Row
  BY Typed DEF Kept, Hand
<1>2. "REFUSED_FIRST" \in Statuses /\ "REFUSED_FIRST" # "ACCEPTED"
  BY DEF Statuses
<1> DEFINE a   == Applied(hand.doc, "REFUSED_FIRST")
           new == Merge(row, hand.doc, a)
<1>3. a \in Row /\ a.status = "REFUSED_FIRST"
  BY <1>1, <1>2, AppliedRow
<1> HIDE DEF a
<1>4. new \in Row /\ new.status = "REFUSED_FIRST"
  BY <1>1, <1>3, MergeRow
<1>5. row' \in {new, [new EXCEPT !.held = <<>>]}
  BY DEF Refuse, a
<1> HIDE DEF new
<1>6. row'.status = "REFUSED_FIRST"
  BY <1>4, <1>5 DEF Row
<1>7. /\ hand' = [NoHand EXCEPT !.step = "telling", !.refused = TRUE]
      /\ said' = "no"
  BY DEF Refuse
<1>8. hand'.step = "telling" /\ hand'.refused
  BY <1>7 DEF NoHand
<1> QED
  BY <1>2, <1>6, <1>7, <1>8 DEF SaidKept

\* Every step keeps it.
LEMMA SaidStep ==
    ASSUME Kept, Words, SaidKept, Next
    PROVE  SaidKept'
<1>1. /\ row \in Row /\ hand \in Hand /\ panel \in Panel /\ hist \in Hist
      /\ HandSound /\ PanelSound
  BY Typed DEF Kept, Sound
<1>2. hand.refused /\ hand.step # "telling" => hist.untold
  BY DEF Words, WordKept
<1>0. hand.doc \in Row
  BY <1>1 DEF Hand
<1>3. CASE \E m \in Msg : SendStep(m)
  <2>1. PICK m \in Msg : SendStep(m)
    BY <1>3
  <2>2. /\ said' = said /\ hist'.untold = hist.untold
    BY <1>1, <2>1 DEF SendStep, SendLoad, SendRefused, Ask, Hold, Deliver, Settle, Retry, Hist
  <2>3. row'.status = row.status
    BY <1>1, <2>1 DEF SendStep, SendLoad, SendRefused, Ask, Hold, Deliver, Settle, Retry, Row
  <2>4. hand'.step = hand.step /\ hand'.refused = hand.refused /\ hand'.text = hand.text
    BY <1>1, <2>1 DEF SendStep, SendLoad, SendRefused, Ask, Hold, Deliver, Settle, Retry, Hand
  <2> QED
    BY <2>2, <2>3, <2>4, SaidFollows
<1>4. CASE \E text \in Text : Write(text)
  <2>1. PICK text \in Text : Write(text)
    BY <1>4
  <2>2. /\ hand'.text = text /\ ~hand'.refused /\ UNCHANGED <<row, hist>>
        /\ hand'.step = "answer" => row.status = "PENDING" /\ row.prompted > 0
        /\ row.status = "PENDING" /\ row.prompted > 0 => hand'.step = "answer"
    BY <2>1 DEF Write, NoHand
  <2>3. said' = IF row.status = "PENDING" /\ row.prompted > 0 /\ ReadsRefuse(text)
                THEN "no" ELSE "text"
    BY <2>1 DEF Write
  <2> QED
    BY <2>2, <2>3 DEF SaidKept, ReadsRefuse
<1>5. CASE Answer
  <2>1. hand.step = "answer" /\ ~hand.refused /\ hand.doc.status = "PENDING"
    BY <1>1, <1>5 DEF Answer, At, HandSound
  <2>2. CASE ReadsAccept(hand.text) /\ Accept("thanks")
    BY <2>1, <2>2, SaidAccepted
  <2>3. CASE Refuse(NextRefusal("PENDING"))
    BY <2>1, <2>3, SaidRefused DEF NextRefusal
  <2>4. CASE ~ReadsRefuse(hand.text) /\ Goto("telling") /\ UNCHANGED <<row, hist, said>>
    <3>1. hand'.step = "telling"
      BY <2>1, <2>4 DEF Goto, NoHand
    <3>2. said = "text"
      BY <2>1, <2>4 DEF SaidKept
    <3> QED
      BY <2>4, <3>1, <3>2 DEF SaidKept
  <2> QED
    BY <1>5, <2>2, <2>3, <2>4 DEF Answer
<1>6. CASE Open
  BY <1>2, <1>6, SaidAccepted DEF Open, At
<1>7. CASE OptOut
  <2>1. hand.step = "optOut" /\ ~hand.refused /\ hand.doc.status = "ACCEPTED"
    BY <1>1, <1>7 DEF OptOut, At, HandSound
  <2>2. CASE Refuse("REFUSED_FIRST")
    BY <2>1, <2>2, SaidRefused
  <2>3. ASSUME NEW value \in BOOLEAN, NEW step \in {"inbox", "telling"}, SetOptOut(value, step)
        PROVE  SaidKept'
    <3> DEFINE new == [hand.doc EXCEPT !.optOut = value]
    <3>1. new \in Row /\ new.status = hand.doc.status
      BY Zenon, <1>0, RowChanged DEF Row
    <3>4. row' = Merge(row, hand.doc, new) /\ UNCHANGED <<hist, said>>
      BY <2>3 DEF SetOptOut
    <3> HIDE DEF new
    <3>2. row'.status = row.status /\ UNCHANGED <<hist, said>>
      BY <1>0, <1>1, <3>1, <3>4, MergeRow
    <3>3. hand'.step = step
      BY <2>3 DEF SetOptOut, Goto, NoHand
    <3> QED
      BY <2>1, <3>2, <3>3, SaidFollows
  <2> QED
    BY <1>7, <2>2, <2>3 DEF OptOut
<1>8. CASE Tell
  <2>1. /\ UNCHANGED <<row, hist, said>>
        /\ hand'.step = "idle" \/ (hand.step = "thanks" /\ hand'.step = "flush")
    BY <1>1, <1>8, NoHandTyped, GotoMoves DEF Tell, At, HandStep
  <2>2. hand.step = "thanks" => ~hand.refused
    BY <1>1 DEF HandSound
  <2> QED
    BY <2>1, <2>2, SaidFollows
<1>9. CASE TellFails
  <2>1. /\ UNCHANGED <<row, said>>
        /\ hist.untold => hist'.untold
        /\ hand.step \in {"telling", "thanks"}
    BY <1>1, <1>9 DEF TellFails, At, Hist
  <2>2. hand'.step = "inbox" /\ (hand.refused => hand'.refused)
    BY <1>1, <1>9, GotoMoves DEF TellFails, HandStep
  <2> QED
    BY <2>1, <2>2, SaidFollows
<1>10. CASE FlushLoad
  <2>1. UNCHANGED <<row, hist, said>> /\ hand.step = "flush"
    BY <1>10 DEF FlushLoad, At
  <2>2. ~hand.refused
    BY <1>1, <2>1 DEF HandSound
  <2>3. hand'.step \in {"idle", "clear"}
    BY <1>1, <1>10 DEF FlushLoad, NoHand, Hand
  <2> QED
    BY <2>1, <2>2, <2>3, SaidFollows
<1>11. CASE FlushClear
  <2>1. hand.step = "clear" /\ said' = said /\ ~hand.refused
    BY <1>1, <1>11 DEF FlushClear, At, HandSound
  <2>2. hist'.untold = hist.untold
    BY <1>1, <1>11 DEF FlushClear, Hist
  <2>3. hand'.step \in {"replay", "inbox"}
    BY <1>1, <1>11 DEF FlushClear, Goto, NoHand, Hand
  <2> DEFINE new == [hand.doc EXCEPT !.held = <<>>, !.prompted = 0]
  <2>4. new \in Row /\ new.status = hand.doc.status
    <3>1. <<>> \in Seq(Msg) /\ 0 \in 0..2
      BY EmptySeq
    <3> QED
      BY Zenon, <1>0, <3>1 DEF Row
  <2>6. row' = Merge(row, hand.doc, new) \/ row' = row
    BY <1>11 DEF FlushClear
  <2> HIDE DEF new
  <2>5. row'.status = row.status
    BY <1>0, <1>1, <2>4, <2>6, MergeRow
  <2> QED
    BY <2>1, <2>2, <2>3, <2>5, SaidFollows
<1>12. CASE Replay
  <2>1. UNCHANGED <<row, said>> /\ hand.step = "replay" /\ hist'.untold = hist.untold
    BY <1>1, <1>12 DEF Replay, At, Hist
  <2>2. ~hand.refused
    BY <1>1, <2>1 DEF HandSound
  <2>3. hand'.step \in {"idle", "replay"}
    BY <1>1, <1>12, <2>1 DEF Replay, NoHand, Hand
  <2> QED
    BY <2>1, <2>2, <2>3, SaidFollows
<1>13. CASE InboxLoad
  <2>1. UNCHANGED <<row, hist, said>> /\ hand.step = "inbox"
    BY <1>13 DEF InboxLoad, At
  <2>2. hand' = NoHand \/ hand' = [hand EXCEPT !.step = "channel", !.doc = row]
    BY <1>13 DEF InboxLoad
  <2>3. hand'.step = "idle" \/ (hand'.step = "channel" /\ hand'.refused = hand.refused)
    BY Zenon, <1>1, <2>2, NoHandTyped DEF Hand
  <2> QED
    BY <2>1, <2>3, SaidFollows
<1>14. CASE Channel
  <2>1. hand.step = "channel"
    BY <1>14 DEF Channel, At
  <2>2. CASE Accept("idle")
    BY <1>2, <2>1, <2>2, SaidAccepted
  <2>3. CASE Goto("idle") /\ UNCHANGED <<row, hist, said>>
    BY <2>3, SaidFollows DEF Goto, NoHand
  <2>4. CASE row' = Merge(row, hand.doc, [hand.doc EXCEPT !.optOut = FALSE]) /\ Goto("idle")
             /\ UNCHANGED <<hist, said>>
    <3> DEFINE new == [hand.doc EXCEPT !.optOut = FALSE]
    <3>1. new \in Row /\ new.status = hand.doc.status
      <4>1. FALSE \in BOOLEAN
        OBVIOUS
      <4> QED
        BY Zenon, <1>0, <4>1, RowChanged DEF Row
    <3>3. row' = Merge(row, hand.doc, new)
      BY <2>4
    <3> HIDE DEF new
    <3>2. row'.status = row.status
      BY <1>0, <1>1, <3>1, <3>3, MergeRow
    <3> QED
      BY <2>4, <3>2, SaidFollows DEF Goto, NoHand
  <2> QED
    BY <1>14, <2>2, <2>3, <2>4 DEF Channel
<1>15. CASE RequestRenewal
  BY <1>15, SaidFollows DEF RequestRenewal
<1>16. CASE \E op \in {"approve", "clear", "block"} : PanelLoad(op)
  <2>1. UNCHANGED <<row, hand, said>> /\ hist'.untold = hist.untold
    BY <1>1, <1>16 DEF PanelLoad, Hist
  <2> QED
    BY <2>1, SaidFollows
<1>17. CASE PanelSave
  <2>1. /\ UNCHANGED <<hand, said>> /\ hist'.untold = hist.untold
        /\ panel.op \in {"approve", "clear", "block"} /\ panel.doc \in Row
    BY <1>1, <1>17 DEF PanelSave, Hist, Panel
  <2> DEFINE new == Decided(panel.op, panel.doc)
  <2>2. new \in Row /\ new.status \in {"PENDING", "MANUALLY_BLOCKED"}
    BY <1>1, <2>1, DecidedRow DEF PanelSound
  <2>3. row' = Merge(row, panel.doc, new)
    BY <1>17 DEF PanelSave
  <2> HIDE DEF new
  <2>4. row'.status = "ACCEPTED" => row.status = "ACCEPTED"
    BY <1>1, <2>1, <2>2, <2>3, MergeRow
  <2> QED
    BY <2>1, <2>4, SaidFollows
<1>18. CASE Age
  BY <1>1, <1>18, SaidFollows DEF Age, Row
<1>19. CASE Crash
  BY <1>1, <1>19, SaidFollows DEF Crash, NoHand, Hist
<1> QED
  BY <1>3, <1>4, <1>5, <1>6, <1>7, <1>8, <1>9, <1>10, <1>11, <1>12, <1>13, <1>14, <1>15, <1>16,
     <1>17, <1>18, <1>19 DEF Next

---------------------------------------------------------------------------
(* The specification.                                                      *)

IInv == Kept /\ SentSeldom /\ Words /\ SaidKept /\ OnceAlways

\* A contact nobody wrote to.
LEMMA Base == Init => IInv
<1> SUFFICES ASSUME Init PROVE IInv
  OBVIOUS
<1>1. /\ row = NewRow /\ job = [m \in Msg |-> NoJob("waiting")] /\ hand = NoHand
      /\ panel = NoPanel /\ renewal = FALSE
  BY DEF Init
<1>2. hist = [ word |-> "none", released |-> FALSE, untold |-> FALSE,
               torn |-> FALSE, dropped |-> {}, sent |-> [m \in Msg |-> 0],
               faults |-> 0, crashed |-> FALSE, requests |-> 0 ]
  BY DEF Init
<1>3. <<>> \in Seq(Msg) /\ 0 \in 0..MaxPending
  BY Bounds, EmptySeq
<1>4. NoJob("waiting") \in Job /\ NoJob("waiting").step = "waiting"
  BY <1>3, JobMade DEF JobStep
<1>5. NoPanel \in Panel /\ NoPanel.op = "none"
  BY NewRowTyped DEF NoPanel, Panel
<1>6. NewRow.held = <<>> /\ NewRow.status = "PENDING"
  BY DEF NewRow
<1>7. hist \in Hist
  <2>1. /\ [m \in Msg |-> 0] \in [Msg -> 0..MaxFaults + 1] /\ 0 \in 0..MaxFaults
        /\ 0 \in 0..MaxPanel /\ {} \in SUBSET Msg /\ "none" \in {"none", "yes", "no"}
        /\ FALSE \in BOOLEAN
    BY Bounds
  <2> QED
    BY Zenon, <1>2, <2>1 DEF Hist
<1>8. Types
  <2>1. renewal \in BOOLEAN /\ job \in [Msg -> Job]
    BY <1>1, <1>4
  <2> QED
    BY <1>1, <1>5, <1>7, <2>1, NewRowTyped, NoHandTyped, Typed
<1>9. Sound
  BY <1>1, <1>4, <1>5, NoHandTyped DEF Sound, JobSound, PanelSound, HandSound
<1>10. \A m \in Msg : Occurrences(m, row.held) = 0 /\ Occurrences(m, hand.queue) = 0
                      /\ hist.sent[m] = 0 /\ ~Holding(job[m]) /\ ~Settled(job[m])
  BY <1>1, <1>2, <1>4, <1>6, NoHandTyped, OccursNowhere DEF Holding, Settled
<1>11. \A m \in Msg : Places(m, row.held) = 0
  BY <1>10 DEF Places
<1>12. SentSeldom
  <2>1. \A m \in Msg : Due(job[m]) \in {0, 1}
    BY DEF Due
  <2>2. hist.faults = 0
    BY <1>2
  <2> QED
    BY <1>10, <1>11, <2>1, <2>2 DEF SentSeldom
<1>13. OnceAlways
  BY <1>10, <1>11 DEF OnceAlways, Once, Tallied
<1>14. Words
  <2>1. hist.word = "none" /\ ~hand.refused /\ hand.step = "idle" /\ hand.queue = <<>>
        /\ row.status = "PENDING"
    BY <1>1, <1>2, <1>6, NoHandTyped
  <2> QED
    BY <2>1 DEF Words, WordKept, TakenAsYes, RefusalHeldUnlessUntold, FlushDue
<1>15. SaidKept
  <2>1. hand.step = "idle" /\ row.status = "PENDING" /\ said = "none"
    BY <1>1, <1>6, NoHandTyped DEF Init
  <2> QED
    BY <2>1 DEF SaidKept
<1> QED
  BY <1>8, <1>9, <1>12, <1>13, <1>14, <1>15 DEF IInv, Kept

\* The invariant is inductive.
LEMMA Step == IInv /\ [Next]_vars => IInv'
<1> SUFFICES ASSUME IInv, [Next]_vars PROVE IInv'
  OBVIOUS
<1>1. Kept /\ SentSeldom /\ Words /\ SaidKept /\ OnceAlways
  BY DEF IInv
<1>2. CASE Next
  <2>1. Kept' /\ Moves /\ Words'
    BY <1>1, <1>2, Steps
  <2>2. SentSeldom'
    BY <1>1, <2>1, SentStep
  <2>3. OnceAlways'
    BY <1>1, <2>1, OnceStep
  <2>4. SaidKept'
    BY <1>1, <1>2, SaidStep
  <2> QED
    BY <2>1, <2>2, <2>3, <2>4 DEF IInv
<1>3. CASE UNCHANGED vars
  <2>1. UNCHANGED <<row, job, hand, panel, renewal, hist>>
    BY <1>3 DEF vars
  <2>2. TypedParts
    BY <1>1, Typed DEF Kept, TypedParts
  <2>3. HandSound'
    BY <1>1, <2>1 DEF Kept, Sound, HandSound
  <2>4. Kept'
    BY <1>1, <2>1, <2>2, <2>3, OnlyHand DEF TypedParts
  <2>5. Still /\ WordsStay
    BY <2>1, <2>2 DEF Still, WordsStay, TypedParts, Hist
  <2>6. Words'
    BY <1>1, <2>5, WordsStayed
  <2>7. SentSeldom'
    BY <1>1, <2>4, <2>5, SentStep DEF Moves
  <2>8. OnceAlways'
    BY <1>1, <2>5, OnceStep DEF Moves
  <2>9. SaidKept'
    BY <1>1, <1>3, SaidFollows DEF vars
  <2> QED
    BY <2>4, <2>6, <2>7, <2>8, <2>9 DEF IInv
<1> QED
  BY <1>2, <1>3

\* The inductive invariant holds in every state.
THEOREM Inductive == Spec => []IInv
BY Base, Step, PTL DEF Spec

\* The variables keep their types: no limit of held messages, of liberations
\* or of sends after a fault is passed.
THEOREM ConsentTyped == Spec => []TypeOK
<1>1. IInv => TypeOK
  BY DEF IInv, Kept, SaidKept, TypeOK
<1> QED
  BY <1>1, Inductive, PTL

\* The contact is ACCEPTED, and what was held is replayed, only while the last
\* text of the contact refused nothing, whatever document a send or the panel
\* loaded before.
THEOREM AcceptedByContact == Spec => []AcceptedByWord
<1>1. IInv => AcceptedByWord
  <2>1. Kept /\ SaidKept => AcceptedByWord
    BY DEF Kept, Sound, HandSound, SaidKept, AcceptedByWord
  <2> QED
    BY <2>1 DEF IInv
<1> QED
  BY <1>1, Inductive, PTL

\* A refusal stands until the owner sets PENDING or the contact writes again.
THEOREM RefusalStands == Spec => []RefusalHeldUnlessUntold
<1>1. IInv => RefusalHeldUnlessUntold
  BY DEF IInv, Words, WordKept
<1> QED
  BY <1>1, Inductive, PTL

\* Once the contact has accepted and nobody is at it, no message waits, unless
\* a handler was cut short or the message was held late.
THEOREM AcceptanceFlushes == Spec => []AcceptedFlushedUnlessTorn
<1>1. IInv => AcceptedFlushedUnlessTorn
  BY DEF IInv, Words, FlushDue, AcceptedFlushedUnlessTorn
<1> QED
  BY <1>1, Inductive, PTL

\* A message is held, replayed or sent in exactly one place, or was dropped;
\* one still to be held is in none: only a crash loses or repeats one.
THEOREM EachMessageOnce == Spec => []HeldOnce
<1>1. IInv => HeldOnce
  BY DEF IInv, OnceAlways, Once, Tallied, Settled, Places, HeldOnce
<1> QED
  BY <1>1, Inductive, PTL


---------------------------------------------------------------------------
(* The refinement of HeldMessages.                                         *)

\* What a send is about to store, as long as its document is current: what is
\* held, with its message at the end; or what it loaded before a refusal
\* dropped it.
HeldKnown ==
    \A m \in Msg : Holding(job[m]) =>
       \/ job[m].held = Append(row.held, m)
       \/ /\ row.held = <<>> /\ job[m].held # <<>>
          /\ Last(job[m].held) = m /\ ToSet(job[m].held) \subseteq hist.dropped \cup {m}

\* The end and the elements of a sequence with one more element.
LEMMA Appended ==
    ASSUME NEW s \in Seq(Msg), NEW m \in Msg
    PROVE  /\ Append(s, m) # <<>> /\ Last(Append(s, m)) = m
           /\ ToSet(Append(s, m)) \subseteq ToSet(s) \cup {m}
<1> DEFINE t == Append(s, m)
           n == Len(s) + 1
<1>1. /\ Len(s) \in Nat /\ DOMAIN s = 1..Len(s) /\ Len(t) = n /\ DOMAIN t = 1..n
      /\ t[n] = m /\ \A i \in 1..Len(s) : t[i] = s[i]
  BY LenProperties, AppendProperties
<1>2. t # <<>> /\ Last(t) = m
  BY <1>1, EmptySeq DEF Last
<1>3. ASSUME NEW x \in ToSet(t) PROVE x \in ToSet(s) \cup {m}
  <2>1. PICK i \in 1..n : x = t[i]
    BY <1>1, <1>3 DEF ToSet
  <2>2. CASE i = n
    BY <1>1, <2>1, <2>2
  <2>3. CASE i \in 1..Len(s)
    BY <1>1, <2>1, <2>3 DEF ToSet
  <2> QED
    BY <1>1, <2>2, <2>3
<1> QED
  BY <1>2, <1>3

\* It stays known what the sends are about to store.
LEMMA HeldKnownStep ==
    ASSUME Kept, HeldKnown, Moves
    PROVE  HeldKnown'
<1> SUFFICES ASSUME NEW m \in Msg, Holding(job'[m])
             PROVE  \/ job'[m].held = Append(row'.held, m)
                    \/ /\ row'.held = <<>> /\ job'[m].held # <<>>
                       /\ Last(job'[m].held) = m
                       /\ ToSet(job'[m].held) \subseteq hist'.dropped \cup {m}
  BY DEF HeldKnown, Holding
<1>1. job \in [Msg -> Job] /\ row.held \in Seq(Msg)
  BY Typed DEF Kept, Row
<1>2. Holding(job[m]) =>
        \/ job[m].held = Append(row.held, m)
        \/ /\ row.held = <<>> /\ job[m].held # <<>>
           /\ Last(job[m].held) = m /\ ToSet(job[m].held) \subseteq hist.dropped \cup {m}
  BY DEF HeldKnown
<1>3. CASE \E k \in Msg : JobMoves(k)
  <2>1. PICK k \in Msg : JobMoves(k)
    BY <1>3
  <2>2. PICK j \in Job :
          /\ job' = [job EXCEPT ![k] = j] /\ UNCHANGED <<row, hand, hist>>
          /\ Holding(j) => \/ j.held = Append(row.held, k)
                           \/ j.held = job[k].held /\ Holding(job[k])
    BY <2>1 DEF JobMoves
  <2>3. CASE m = k
    <3>1. job'[m] = j
      BY <1>1, <2>2, <2>3
    <3> QED
      BY <1>2, <2>2, <2>3, <3>1
  <2>4. CASE m # k
    <3>1. job'[m] = job[m]
      BY <1>1, <2>2, <2>4
    <3> QED
      BY <1>2, <2>2, <3>1
  <2> QED
    BY <2>3, <2>4
<1>4. ASSUME NEW k \in Msg, Holds(k) PROVE FALSE
  <2>1. job' = [OutOfDate(job) EXCEPT ![k] = NoJob("settling")]
    BY <1>4 DEF Holds
  <2>2. job'[m] = NoJob("settling") \/ job'[m] = OutOfDate(job)[m]
    BY <2>1 DEF OutOfDate
  <2>3. ~Holding(NoJob("settling"))
    BY DEF Holding, NoJob
  <2> QED
    BY <2>2, <2>3, NoneHolds
<1>5. ASSUME NEW k \in Msg, Delivers(k)
      PROVE  job'[m] = job[m] /\ row' = row /\ hist'.dropped = hist.dropped
  <2>1. job' = [job EXCEPT ![k] = NoJob("settling")]
    BY <1>5 DEF Delivers
  <2>2. ~Holding(NoJob("settling"))
    BY DEF Holding, NoJob
  <2>3. m # k
    BY <1>1, <2>1, <2>2
  <2> QED
    BY <1>1, <1>5, <2>1, <2>3 DEF Delivers
<1>6. CASE Still
  BY <1>2, <1>6 DEF Still
<1>7. CASE Refuses
  <2>1. /\ job' = job /\ row'.held \in {row.held, <<>>}
        /\ hist'.dropped = hist.dropped \cup (ToSet(row.held) \ ToSet(row'.held))
    BY <1>7 DEF Refuses
  <2>2. CASE row'.held = row.held
    BY <1>2, <2>1, <2>2
  <2>3. CASE row'.held = <<>> /\ job[m].held = Append(row.held, m)
    <3>1. ToSet(<<>>) = {}
      BY DEF ToSet
    <3>2. hist'.dropped = hist.dropped \cup ToSet(row.held)
      BY <2>1, <2>3, <3>1
    <3> QED
      BY <1>1, <2>1, <2>3, <3>2, Appended
  <2>4. CASE row'.held = <<>> /\ row.held = <<>>
    BY <1>2, <2>1, <2>4
  <2> QED
    BY <1>2, <2>1, <2>2, <2>3, <2>4
<1>8. CASE Flushes
  BY <1>8, NoneHolds DEF Flushes
<1>9. CASE Replays
  <2>1. job' = job /\ row' = row /\ hist.dropped \subseteq hist'.dropped
    BY <1>9 DEF Replays
  <2> QED
    BY <1>2, <2>1
<1>10. CASE Dies
  BY <1>10 DEF Dies, Holding
<1> QED
  BY <1>2, <1>3, <1>4, <1>5, <1>6, <1>7, <1>8, <1>9, <1>10 DEF Moves

\* The state of HeldMessages.
Mapped == <<row.held, hand.queue, Taken, Sent, hist.dropped, hist.crashed>>

\* Whether a message was sent, after one more was.
LEMMA SentMore ==
    ASSUME Kept, NEW m \in Msg, hist'.sent = [hist.sent EXCEPT ![m] = @ + 1]
    PROVE  Sent' = Sent \cup {m}
<1>1. hist.sent \in [Msg -> Nat]
  BY Numbers
<1>2. ASSUME NEW k \in Msg
      PROVE  hist'.sent[k] > 0 <=> hist.sent[k] > 0 \/ k = m
  <2>1. hist.sent[k] \in Nat /\ hist.sent[m] \in Nat
    BY <1>1
  <2>2. CASE k = m
    BY <1>1, <2>1, <2>2
  <2>3. CASE k # m
    BY <1>1, <2>1, <2>3
  <2> QED
    BY <2>2, <2>3
<1> QED
  BY <1>2 DEF Sent

\* A message whose job is not through was not sent, nor was one that is replayed.
LEMMA UnsentYet ==
    ASSUME Kept, OnceAlways, ~hist.crashed, NEW m \in Msg,
           ~Settled(job[m]) \/ m \in ToSet(hand.queue)
    PROVE  m \notin Sent
<1>1. /\ Occurrences(m, row.held) \in Nat /\ Occurrences(m, hand.queue) \in Nat
      /\ hist.sent[m] \in Nat
  BY Numbers
<1>2. hand.queue \in Seq(Msg)
  BY Typed DEF Kept, Hand
<1>3. Tallied(Settled(job[m]),
              Occurrences(m, row.held) + Occurrences(m, hand.queue) + hist.sent[m],
              m \in hist.dropped)
  BY DEF OnceAlways, Once, Places
<1>4. CASE ~Settled(job[m])
  <2>1. Occurrences(m, row.held) + Occurrences(m, hand.queue) + hist.sent[m] = 0
    BY <1>3, <1>4 DEF Tallied
  <2> HIDE DEF Settled
  <2>2. hist.sent[m] = 0
    BY <1>1, <2>1
  <2> QED
    BY <2>2 DEF Sent
<1>5. CASE m \in ToSet(hand.queue)
  <2>1. Occurrences(m, hand.queue) # 0
    BY <1>2, <1>5, OccursIn
  <2>2. Occurrences(m, row.held) + Occurrences(m, hand.queue) + hist.sent[m] <= 1
    BY <1>3 DEF Tallied
  <2>3. hist.sent[m] = 0
    BY <1>1, <2>1, <2>2
  <2> QED
    BY <2>3 DEF Sent
<1> QED
  BY <1>4, <1>5

\* Every step is one of HeldMessages, or none.
LEMMA StepRefined ==
    ASSUME Kept, HeldKnown, OnceAlways, Moves
    PROVE  [Messages!Next]_Mapped
<1>1. job \in [Msg -> Job] /\ row.held \in Seq(Msg) /\ hand.queue \in Seq(Msg)
      /\ hist.crashed \in BOOLEAN /\ hist.dropped \in SUBSET Msg
  BY Typed DEF Kept, Row, Hand, Hist
<1>2. Taken = {m \in Msg : Settled(job[m])} /\ Taken' = {m \in Msg : Settled(job'[m])}
  BY DEF Taken, Settled
<1>3. Settled(NoJob("settling"))
  BY DEF Settled, NoJob
<1>4. CASE hist'.crashed = TRUE
  BY <1>4 DEF Messages!Next
<1> SUFFICES ASSUME ~(hist'.crashed = TRUE)
             PROVE  [Messages!Next]_Mapped
  BY <1>4
<1>5. hist'.crashed = hist.crashed /\ hist.crashed = FALSE
  BY <1>1 DEF Moves, JobMoves, Holds, Delivers, Still, Refuses, Flushes, Replays, Dies
<1>6. ASSUME NEW k \in Msg, JobMoves(k) PROVE UNCHANGED Mapped
  <2>1. PICK j \in Job : /\ job' = [job EXCEPT ![k] = j] /\ UNCHANGED <<row, hand, hist>>
                         /\ Settled(j) <=> Settled(job[k])
    BY <1>6 DEF JobMoves
  <2>2. \A m \in Msg : Settled(job'[m]) <=> Settled(job[m])
    BY <1>1, <2>1
  <2>3. Taken' = Taken
    BY <1>2, <2>2
  <2> QED
    BY <2>1, <2>3 DEF Mapped, Sent
<1>7. ASSUME NEW k \in Msg, Holds(k) PROVE Messages!Hold(k)
  <2>1. /\ Holding(job[k]) /\ row'.held = job[k].held
        /\ job' = [OutOfDate(job) EXCEPT ![k] = NoJob("settling")]
        /\ hand'.queue = hand.queue /\ hist'.sent = hist.sent /\ hist'.dropped = hist.dropped
    BY <1>7 DEF Holds
  <2>2. ~Settled(job[k])
    BY <2>1 DEF Holding, Settled
  <2>3. ASSUME NEW m \in Msg PROVE Settled(job'[m]) <=> Settled(job[m]) \/ m = k
    <3>1. OutOfDate(job)[m].step = job[m].step
      BY <1>1, OutOfDateJobs
    <3>2. job'[m] = IF m = k THEN NoJob("settling") ELSE OutOfDate(job)[m]
      BY <2>1 DEF OutOfDate
    <3> QED
      BY <1>3, <3>1, <3>2 DEF Settled
  <2>4. Taken' = Taken \cup {k} /\ k \notin Taken
    BY <1>2, <2>2, <2>3
  <2>5. \/ row'.held = Append(row.held, k)
        \/ /\ row.held = <<>> /\ row'.held # <<>>
           /\ Last(row'.held) = k /\ ToSet(row'.held) \subseteq hist.dropped \cup {k}
    BY <2>1 DEF HeldKnown
  <2> QED
    BY <2>1, <2>4, <2>5 DEF Messages!Hold, Sent, Last, ToSet, Messages!Last, Messages!ToSet
<1>8. ASSUME NEW k \in Msg, Delivers(k) PROVE Messages!Send(k)
  <2>1. /\ job[k].step = "sending" /\ job' = [job EXCEPT ![k] = NoJob("settling")]
        /\ UNCHANGED <<row, hand>> /\ hist'.dropped = hist.dropped
        /\ hist'.sent = [hist.sent EXCEPT ![k] = @ + 1]
    BY <1>8 DEF Delivers
  <2>2. ~Settled(job[k])
    BY <2>1 DEF Settled
  <2>3. \A m \in Msg : Settled(job'[m]) <=> Settled(job[m]) \/ m = k
    BY <1>1, <1>3, <2>1
  <2>4. Taken' = Taken \cup {k} /\ k \notin Taken
    BY <1>2, <2>2, <2>3
  <2>5. Sent' = Sent \cup {k} /\ k \notin Sent
    BY <1>5, <2>1, <2>2, SentMore, UnsentYet
  <2> QED
    BY <2>1, <2>4, <2>5 DEF Messages!Send
<1>9. CASE Still
  BY <1>5, <1>9 DEF Still, Mapped, Taken, Sent
<1>10. CASE Refuses
  <2>1. /\ row'.held \in {row.held, <<>>} /\ hand'.queue = hand.queue /\ job' = job
        /\ hist'.sent = hist.sent
        /\ hist'.dropped = hist.dropped \cup (ToSet(row.held) \ ToSet(row'.held))
    BY <1>10 DEF Refuses
  <2>2. Taken' = Taken /\ Sent' = Sent
    BY <2>1 DEF Taken, Sent
  <2>3. CASE row'.held = row.held
    BY <1>5, <2>1, <2>2, <2>3 DEF Mapped
  <2>4. CASE row'.held = <<>>
    <3>1. ToSet(<<>>) = {}
      BY DEF ToSet
    <3>2. Messages!Drop
      BY <2>1, <2>2, <2>4, <3>1 DEF Messages!Drop, ToSet, Messages!ToSet
    <3> QED
      BY <1>5, <3>2 DEF Messages!Next
  <2> QED
    BY <2>1, <2>3, <2>4
<1>11. CASE Flushes
  <2>1. /\ row'.held = <<>> /\ hand.queue = <<>> /\ hand'.queue = row.held
        /\ job' = OutOfDate(job)
        /\ hist'.sent = hist.sent /\ hist'.dropped = hist.dropped
    BY <1>11 DEF Flushes
  <2>2. \A m \in Msg : OutOfDate(job)[m].step = job[m].step
    BY <1>1, OutOfDateJobs
  <2>3. Taken' = Taken /\ Sent' = Sent
    BY <2>1, <2>2 DEF Taken, Sent
  <2>4. Messages!Release
    BY <2>1, <2>3 DEF Messages!Release
  <2> QED
    BY <1>5, <2>4 DEF Messages!Next
<1>12. CASE Replays
  <2> DEFINE m == Head(hand.queue)
  <2>1. /\ hand.queue # <<>> /\ hand'.queue = Tail(hand.queue)
        /\ row' = row /\ job' = job
        /\ \/ hist'.sent = [hist.sent EXCEPT ![m] = @ + 1] /\ hist'.dropped = hist.dropped
           \/ hist'.sent = hist.sent /\ hist'.dropped = hist.dropped \cup {m}
    BY <1>12 DEF Replays
  <2>2. m \in Msg /\ m \in ToSet(hand.queue)
    BY <1>1, <2>1, HeadTailProperties, EmptySeq DEF ToSet
  <2> HIDE DEF m
  <2>3. m \notin Sent
    BY <1>5, <2>2, UnsentYet
  <2>4. Taken' = Taken
    BY <2>1 DEF Taken
  <2>5. \/ Sent' = Sent \cup {m} /\ hist'.dropped = hist.dropped
        \/ Sent' = Sent /\ hist'.dropped = hist.dropped \cup {m}
    BY <2>1, <2>2, SentMore DEF Sent
  <2>6. Messages!Replay
    BY <2>1, <2>3, <2>4, <2>5 DEF Messages!Replay, m
  <2> QED
    BY <1>5, <2>6 DEF Messages!Next
<1> QED
  BY <1>5, <1>6, <1>7, <1>8, <1>9, <1>10, <1>11, <1>12 DEF Moves, Messages!Next, Dies

\* The sends, the answers and the flush are steps of HeldMessages: what is held
\* goes out once and in the order in which it came, until a crash.
THEOREM ConsentHoldsMessages == Spec => ImplementsHeldMessages
<1>1. Init => Messages!Init /\ HeldKnown
  <2> SUFFICES ASSUME Init PROVE Messages!Init /\ HeldKnown
    OBVIOUS
  <2>1. \A m \in Msg : job[m].step = "waiting" /\ hist.sent[m] = 0
    BY DEF Init, NoJob
  <2>2. Taken = {} /\ Sent = {}
    BY <2>1 DEF Taken, Sent
  <2>3. HeldKnown
    BY <2>1 DEF HeldKnown, Holding
  <2> QED
    BY <2>2, <2>3 DEF Init, Messages!Init, NewRow, NoHand
<1>2. IInv /\ HeldKnown /\ [Next]_vars => HeldKnown' /\ [Messages!Next]_Mapped
  <2> SUFFICES ASSUME IInv, HeldKnown, [Next]_vars
               PROVE  HeldKnown' /\ [Messages!Next]_Mapped
    OBVIOUS
  <2>1. Kept /\ SentSeldom /\ OnceAlways
    BY DEF IInv
  <2>2. CASE Next
    <3>1. Moves
      BY <2>1, <2>2, Steps
    <3> QED
      BY <2>1, <3>1, HeldKnownStep, StepRefined
  <2>3. CASE UNCHANGED vars
    BY <2>3 DEF vars, HeldKnown, Mapped, Taken, Sent
  <2> QED
    BY <2>2, <2>3
<1>3. [Messages!Next]_Mapped
        => [Messages!Next]_<<row.held, hand.queue, Taken, Sent, hist.dropped, hist.crashed>>
  BY DEF Mapped
<1> QED
  BY <1>1, <1>2, <1>3, Inductive, PTL DEF Spec, ImplementsHeldMessages, Messages!Spec

=============================================================================
