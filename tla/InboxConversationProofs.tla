---------------------- MODULE InboxConversationProofs ----------------------
(***************************************************************************)
(* Type correctness of InboxConversation, and that a row is sound until a   *)
(* handler saves it from an outdated document, for any numbers of agents,   *)
(* contacts, rows and handlers under way.                                   *)
(***************************************************************************)
EXTENDS InboxConversation, TLAPS

AgentOps == {"assign", "assignPause", "pause", "claim", "send", "transfer", "resolve",
             "reassign", "suggest"}

\* What the handlers rely on between their steps: who runs them, that a
\* reassignment has its target, and that a suggestion is withdrawn from a
\* document that was queued.
Fits(w, op, target, doc) ==
    /\ op \in Op \ {"idle"}
    /\ op \in AgentOps => w \in Agent
    /\ op \in {"reassign", "suggest"} => target \in Agent
    /\ op \in {"unsuggest", "requeue", "resuggest"} => doc.status = "waiting_queue"

TaskOK == \A w \in Worker :
    task[w].op # "idle" =>
        /\ task[w].conv \in Conv
        /\ Fits(w, task[w].op, task[w].target, task[w].doc)

Task == [op : Op, conv : Conv \cup {None}, doc : Row, target : Anyone]

Sound(r) ==
    /\ r.status = "in_progress" => r.assigned # None
    /\ r.suggested # None => r.status = "waiting_queue"
    /\ r.assigned # None => r.status \in {"in_progress", "resolved"}

RowsOK == row \in [Conv -> Row] /\ stale \subseteq Conv /\ outside \subseteq Conv
MarksOK == pullable \subseteq Conv /\ awaiting \subseteq Conv /\ quiet \subseteq awaiting
TasksOK == task \in [Worker -> Task] /\ TaskOK

\* The inductive invariant.
IInv ==
    /\ RowsOK
    /\ presence \in [Agent -> Presence]
    /\ MarksOK
    /\ TasksOK
    /\ RowSoundUnlessStale

---------------------------------------------------------------------------
(* Documents.                                                              *)

\* The fields a document consists of.
LEMMA RowFields ==
    ASSUME NEW r \in Row, NEW q \in Row,
           r.status = q.status, r.assigned = q.assigned,
           r.suggested = q.suggested, r.paused = q.paused
    PROVE  r = q
BY DEF Row

\* A save leaves a well-formed row.
LEMMA MergeRow ==
    ASSUME NEW stored \in Row, NEW old \in Row, NEW new \in Row
    PROVE  Merge(stored, old, new) \in Row
BY DEF Merge, Row

\* A save into the row it was loaded from writes the whole document.
LEMMA MergeOwn ==
    ASSUME NEW old \in Row, NEW new \in Row
    PROVE  Merge(old, old, new) = new
<1>1. Merge(old, old, new) \in Row
  BY MergeRow
<1> QED
  BY <1>1, RowFields DEF Merge

\* What the handlers make of a document is a document.
LEMMA DocRows ==
    ASSUME NEW doc \in Row, NEW a \in Anyone, InboxAssumption
    PROVE  /\ Held(doc, a) \in Row
           /\ [Held(doc, a) EXCEPT !.paused = None] \in Row
           /\ Queued(doc, a) \in Row
           /\ Triaged(doc) \in Row
           /\ [Triaged(doc) EXCEPT !.paused = None] \in Row
           /\ Closed(doc) \in Row
           /\ Free("bot_triage") \in Row
           /\ Absent \in Row
           /\ [doc EXCEPT !.status = "resolved", !.suggested = None] \in Row
           /\ [doc EXCEPT !.suggested = None] \in Row
           /\ [doc EXCEPT !.assigned = None, !.suggested = a] \in Row
BY DEF Row, Held, Queued, Triaged, Closed, Free, Absent, Status, Open, Terminal, Anyone

\* A document of the repository that is sound stays so, or becomes so.
LEMMA DocSound ==
    ASSUME NEW doc \in Row, NEW a \in Anyone, InboxAssumption
    PROVE  /\ a # None => Sound(Held(doc, a))
           /\ a # None => Sound([Held(doc, a) EXCEPT !.paused = None])
           /\ Sound(Queued(doc, a))
           /\ Sound(Triaged(doc))
           /\ Sound([Triaged(doc) EXCEPT !.paused = None])
           /\ Sound(Closed(doc))
           /\ Sound(Free("bot_triage"))
           /\ Sound(doc) => Sound([doc EXCEPT !.status = "resolved", !.suggested = None])
           /\ Sound(doc) => Sound([doc EXCEPT !.suggested = None])
           /\ doc.status = "waiting_queue" =>
                Sound([doc EXCEPT !.assigned = None, !.suggested = a])
BY DEF Sound, Row, Held, Queued, Triaged, Closed, Free, Anyone

\* Saving what is sound, if the loaded document was, keeps the rows sound.
LEMMA SaveRows ==
    ASSUME IInv, NEW w \in Worker, task[w].op # "idle",
           NEW new \in Row, Save(w, new), Sound(task[w].doc) => Sound(new)
    PROVE  RowsOK' /\ RowSoundUnlessStale'
<1> DEFINE c == task[w].conv
           old == task[w].doc
<1>1. c \in Conv /\ old \in Row /\ row[c] \in Row
  BY DEF IInv, TasksOK, TaskOK, RowsOK, Task
<1>2. row' = [row EXCEPT ![c] = Merge(row[c], old, new)]
  BY DEF Save
<1>3. stale' = IF row[c] # old THEN stale \cup {c} ELSE stale
  BY DEF Save
<1>4. outside' = outside \/ outside' = outside \cup {c}
  BY DEF Save
<1>5. RowsOK'
  BY <1>1, <1>2, <1>3, <1>4, MergeRow DEF IInv, RowsOK
<1>6. ASSUME NEW d \in Conv \ stale'
      PROVE  RowSound(d)'
  <2>1. d \notin stale /\ RowSound(d)
    BY <1>3, <1>6 DEF IInv, RowSoundUnlessStale
  <2>2. CASE d # c
    <3>1. row'[d] = row[d]
      BY <1>1, <1>2, <2>2 DEF IInv, RowsOK
    <3> QED
      BY <2>1, <3>1 DEF RowSound
  <2>3. CASE d = c
    <3>1. row[c] = old
      BY <1>3, <1>6, <2>3
    <3>2. row'[c] = new
      BY <1>1, <1>2, <3>1, MergeOwn DEF IInv, RowsOK
    <3>3. Sound(new)
      BY <2>1, <2>3, <3>1 DEF RowSound, Sound
    <3> QED
      BY <2>3, <3>2, <3>3 DEF RowSound, Sound
  <2> QED
    BY <2>2, <2>3
<1> QED
  BY <1>5, <1>6 DEF RowSoundUnlessStale

\* Steps that write no document.
LEMMA NoSaveRows ==
    ASSUME IInv, NoSave
    PROVE  RowsOK' /\ RowSoundUnlessStale'
BY DEF IInv, NoSave, RowsOK, RowSoundUnlessStale, RowSound

---------------------------------------------------------------------------
(* Handlers under way.                                                     *)

\* What is known of a worker in the middle of a handler.
LEMMA UnderWay ==
    ASSUME IInv, NEW w \in Worker, task[w].op # "idle"
    PROVE  /\ task[w].conv \in Conv
           /\ task[w].doc \in Row
           /\ task[w].target \in Anyone
           /\ task[w].op \in Op
           /\ Fits(w, task[w].op, task[w].target, task[w].doc)
BY DEF IInv, TasksOK, TaskOK, Task

\* A handler that ends leaves the others as they are.
LEMMA Ending ==
    ASSUME IInv, InboxAssumption, NEW w \in Worker, Done(w)
    PROVE  TasksOK'
<1>1. Idle \in Task /\ Idle.op = "idle"
  BY DocRows DEF Idle, Task, Op, Anyone, Absent, Free, Row, Status
<1>2. task' = [task EXCEPT ![w] = Idle]
  BY DEF Done
<1>3. task' \in [Worker -> Task]
  BY <1>1, <1>2 DEF IInv, TasksOK
<1>4. ASSUME NEW v \in Worker, task'[v].op # "idle"
      PROVE  task'[v] = task[v]
  BY <1>1, <1>2, <1>4 DEF IInv, TasksOK
<1>5. TaskOK'
  BY <1>4 DEF TaskOK, IInv, TasksOK, Fits
<1> QED
  BY <1>3, <1>5 DEF TasksOK

\* A handler goes on with a document and an operation that fit it.
LEMMA Going ==
    ASSUME IInv, NEW w \in Worker, task[w].op # "idle",
           NEW op \in Op, NEW doc \in Row, GoOn(w, op, doc),
           Fits(w, op, task[w].target, doc)
    PROVE  TasksOK'
<1>1. task' = [task EXCEPT ![w].op = op, ![w].doc = doc]
  BY DEF GoOn
<1>2. task[w] \in Task /\ task[w].conv \in Conv
  BY DEF IInv, TasksOK, TaskOK
<1>3. /\ task'[w].op = op /\ task'[w].doc = doc /\ task'[w].conv = task[w].conv
      /\ task'[w].target = task[w].target /\ task'[w] \in Task
  BY <1>1, <1>2 DEF Task, IInv, TasksOK
<1>4. \A v \in Worker : v # w => task'[v] = task[v]
  BY <1>1 DEF IInv, TasksOK
<1>5. task' \in [Worker -> Task]
  BY <1>1, <1>3, <1>4 DEF IInv, TasksOK
<1>6. TaskOK'
  <2> SUFFICES ASSUME NEW v \in Worker, task'[v].op # "idle"
               PROVE  /\ task'[v].conv \in Conv
                      /\ Fits(v, task'[v].op, task'[v].target, task'[v].doc)
    BY DEF TaskOK, Fits
  <2>1. CASE v = w
    BY <1>2, <1>3, <2>1
  <2>2. CASE v # w
    BY <1>4, <2>2 DEF IInv, TasksOK, TaskOK
  <2> QED
    BY <2>1, <2>2
<1> QED
  BY <1>5, <1>6 DEF TasksOK

\* A lead's handler goes on with another row, which nobody has created.
LEMMA Opening ==
    ASSUME IInv, InboxAssumption, NEW w \in Worker, NEW d \in Conv,
           task' = [task EXCEPT ![w] = [op |-> "create", conv |-> d, doc |-> Absent,
                                        target |-> None]]
    PROVE  TasksOK'
<1> DEFINE t == [op |-> "create", conv |-> d, doc |-> Absent, target |-> None]
<1>1. t \in Task /\ Fits(w, t.op, t.target, t.doc)
  BY DocRows DEF Task, Op, Anyone, Fits, AgentOps, Absent, Free, Row, Status
<1>2. task' \in [Worker -> Task] /\ task'[w] = t /\ t.conv = d
  BY <1>1 DEF IInv, TasksOK
<1> HIDE DEF t
<1>3. \A v \in Worker : v # w => task'[v] = task[v]
  BY DEF IInv, TasksOK
<1>4. TaskOK'
  <2> SUFFICES ASSUME NEW v \in Worker, task'[v].op # "idle"
               PROVE  /\ task'[v].conv \in Conv
                      /\ Fits(v, task'[v].op, task'[v].target, task'[v].doc)
    BY DEF TaskOK, Fits
  <2>1. CASE v = w
    BY <1>1, <1>2, <2>1
  <2>2. CASE v # w
    BY <1>3, <2>2 DEF IInv, TasksOK, TaskOK
  <2> QED
    BY <2>1, <2>2
<1> QED
  BY <1>2, <1>4 DEF TasksOK

\* A handler begins with the stored document.
LEMMA Loading ==
    ASSUME IInv, NEW w \in Worker, NEW c \in Conv, NEW op \in Op, NEW target \in Anyone,
           Load(w, c, op, target), Fits(w, op, target, row[c])
    PROVE  IInv'
<1> DEFINE t == [op |-> op, conv |-> c, doc |-> row[c], target |-> target]
<1>1. task' = [task EXCEPT ![w] = t]
  BY DEF Load
<1>2. t \in Task
  BY DEF Task, IInv, RowsOK
<1>3. task' \in [Worker -> Task] /\ task'[w] = t
  BY <1>1, <1>2 DEF IInv, TasksOK
<1>4. \A v \in Worker : v # w => task'[v] = task[v]
  BY <1>1 DEF IInv, TasksOK
<1>5. TaskOK'
  <2> SUFFICES ASSUME NEW v \in Worker, task'[v].op # "idle"
               PROVE  /\ task'[v].conv \in Conv
                      /\ Fits(v, task'[v].op, task'[v].target, task'[v].doc)
    BY DEF TaskOK, Fits
  <2>1. CASE v = w
    BY <1>3, <2>1
  <2>2. CASE v # w
    BY <1>4, <2>2 DEF IInv, TasksOK, TaskOK
  <2> QED
    BY <2>1, <2>2
<1>6. RowsOK' /\ RowSoundUnlessStale' /\ MarksOK' /\ presence' \in [Agent -> Presence]
  BY DEF Load, IInv, RowsOK, RowSoundUnlessStale, RowSound, MarksOK
<1> QED
  BY <1>3, <1>5, <1>6 DEF IInv, TasksOK

\* The marks, however a handler's step moves them.
LEMMA Marking ==
    ASSUME IInv, NEW c \in Conv, NEW s,
           pullable' = pullable \/ Suggested(c, s),
           Silence \/ WeSpoke(c) \/ TheySpoke(c)
    PROVE  MarksOK'
BY DEF IInv, MarksOK, Suggested, Silence, WeSpoke, TheySpoke

\* A conversation goes to the queue.
LEMMA Enqueueing ==
    ASSUME IInv, InboxAssumption, NEW w \in Worker, task[w].op # "idle", Enqueue(w)
    PROVE  IInv'
<1>1. PICK s \in Picks : Save(w, Queued(task[w].doc, s)) /\ Suggested(task[w].conv, s)
  BY DEF Enqueue
<1>2. s \in Anyone
  BY <1>1 DEF Picks, Eligible, Anyone
<1>3. task[w].doc \in Row /\ task[w].conv \in Conv
  BY UnderWay
<1>4. RowsOK' /\ RowSoundUnlessStale'
  BY <1>1, <1>2, <1>3, SaveRows, DocRows, DocSound
<1>5. TasksOK'
  BY Ending DEF Enqueue
<1>6. MarksOK'
  BY <1>1, <1>3, Marking DEF Enqueue
<1>7. presence' \in [Agent -> Presence]
  BY DEF Enqueue, IInv
<1> QED
  BY <1>4, <1>5, <1>6, <1>7 DEF IInv

---------------------------------------------------------------------------
(* The steps.                                                              *)

\* Every handler begins with an operation that fits its worker and document.
LEMMA LoadsInductive ==
    ASSUME IInv, InboxAssumption, NEW c \in Conv
    PROVE  /\ \A a \in Agent :
                AssignLoad(a, c) \/ PauseLoad(a, c) \/ ReplyLoad(a, c) \/ TransferLoad(a, c)
                    \/ ResolveLoad(a, c) \/ ReassignLoad(a, c) => IInv'
           /\ \A k \in Contact :
                Load(k, c, "record", None) \/ Load(k, c, "create", None) => IInv'
           /\ \A a \in Agent :
                Load(a, c, "leadClose", None) \/ Load(a, c, "create", None) => IInv'
           /\ \A m \in Monitor :
                InactivityLoad(m, c) \/ PromiseLoad(m, c) \/ ReleaseLoad(m, c)
                    \/ UnsuggestLoad(m, c) => IInv'
<1> USE DEF Op, AgentOps, Fits
<1>1. None \in Anyone /\ Agent \subseteq Anyone
  BY DEF Anyone
<1>2. ASSUME NEW a \in Agent
      PROVE  AssignLoad(a, c) \/ PauseLoad(a, c) \/ ReplyLoad(a, c) \/ TransferLoad(a, c)
                 \/ ResolveLoad(a, c) \/ ReassignLoad(a, c) => IInv'
  <2> a \in Worker
    BY DEF Worker
  <2>1. CASE AssignLoad(a, c)
    BY <1>1, <2>1, Loading DEF AssignLoad, Takes
  <2>2. CASE PauseLoad(a, c)
    BY <1>1, <2>2, Loading DEF PauseLoad
  <2>3. CASE ReplyLoad(a, c)
    BY <1>1, <2>3, Loading DEF ReplyLoad
  <2>4. CASE TransferLoad(a, c)
    BY <1>1, <2>4, Loading DEF TransferLoad
  <2>5. CASE ResolveLoad(a, c)
    BY <1>1, <2>5, Loading DEF ResolveLoad
  <2>6. CASE ReassignLoad(a, c)
    BY <1>1, <2>6, Loading DEF ReassignLoad
  <2> QED
    BY <2>1, <2>2, <2>3, <2>4, <2>5, <2>6
<1>3. ASSUME NEW k \in Contact
      PROVE  Load(k, c, "record", None) \/ Load(k, c, "create", None) => IInv'
  BY <1>1, Loading DEF Worker
<1>5. ASSUME NEW a \in Agent
      PROVE  Load(a, c, "leadClose", None) \/ Load(a, c, "create", None) => IInv'
  BY <1>1, Loading DEF Worker
<1>4. ASSUME NEW m \in Monitor
      PROVE  InactivityLoad(m, c) \/ PromiseLoad(m, c) \/ ReleaseLoad(m, c)
                 \/ UnsuggestLoad(m, c) => IInv'
  <2> m \in Worker
    BY DEF Worker
  <2>1. CASE InactivityLoad(m, c)
    BY <1>1, <2>1, Loading DEF InactivityLoad
  <2>2. CASE PromiseLoad(m, c)
    BY <1>1, <2>2, Loading DEF PromiseLoad
  <2>3. CASE ReleaseLoad(m, c)
    BY <1>1, <2>3, Loading DEF ReleaseLoad
  <2>4. CASE UnsuggestLoad(m, c)
    BY <1>1, <2>4, Loading DEF UnsuggestLoad
  <2> QED
    BY <2>1, <2>2, <2>3, <2>4
<1> QED
  BY <1>2, <1>3, <1>4, <1>5

\* What agents do after a load.
LEMMA AgentInductive ==
    ASSUME IInv, InboxAssumption, NEW a \in Agent, AgentGoesOn(a)
    PROVE  IInv'
<1> DEFINE doc == task[a].doc
           c == task[a].conv
<1> a \in Worker /\ a \in Anyone /\ a # None
  BY DEF Worker, Anyone, InboxAssumption
<1>0. task[a].op # "idle"
  BY DEF AgentGoesOn, Doing, AssignSave, Pause, ReplyClaim, ReplySent, ReplyFailed,
     TransferSave, ResolveSave, ReassignSave, Close, LeadClose, LeadCreate
<1>1. /\ c \in Conv /\ doc \in Row /\ task[a].target \in Anyone
      /\ Fits(a, task[a].op, task[a].target, doc)
  BY <1>0, UnderWay
<1>2. CASE AssignSave(a)
  <2> DEFINE new == [Held(doc, a) EXCEPT !.paused = None]
  <2>1. new \in Row /\ Sound(new)
    BY <1>1, DocRows, DocSound
  <2>2. Save(a, new) /\ Silence /\ UNCHANGED <<presence, pullable>>
    BY <1>2 DEF AssignSave
  <2>3. RowsOK' /\ RowSoundUnlessStale'
    BY <1>0, <2>1, <2>2, SaveRows
  <2>4. Done(a) \/ GoOn(a, "pause", new)
    BY <1>2 DEF AssignSave
  <2>5. "pause" \in Op /\ Fits(a, "pause", task[a].target, new)
    BY DEF Fits, Op
  <2>6. TasksOK'
    BY <1>0, <2>1, <2>4, <2>5, Ending, Going
  <2>7. MarksOK'
    BY <1>1, <2>2, Marking
  <2> QED
    BY <2>2, <2>3, <2>6, <2>7 DEF IInv
<1>3. CASE Pause(a)
  <2>1. row' = [row EXCEPT ![c].paused = a] /\ UNCHANGED <<presence, pullable, stale, outside>>
    BY <1>3 DEF Pause
  <2>2. row' \in [Conv -> Row]
    BY <1>1, <2>1 DEF IInv, RowsOK, Row
  <2>3. \A d \in Conv : /\ row'[d].status = row[d].status
                        /\ row'[d].assigned = row[d].assigned
                        /\ row'[d].suggested = row[d].suggested
    BY <1>1, <2>1 DEF IInv, RowsOK, Row
  <2>4. RowsOK' /\ RowSoundUnlessStale'
    BY <2>1, <2>2, <2>3 DEF IInv, RowsOK, RowSoundUnlessStale, RowSound
  <2>5. TasksOK' /\ MarksOK'
    BY <1>1, <1>3, Ending, Marking DEF Pause
  <2> QED
    BY <2>1, <2>4, <2>5 DEF IInv
<1>4. CASE ReplyClaim(a)
  <2>1. Held(doc, a) \in Row /\ Sound(Held(doc, a))
    BY <1>1, DocRows, DocSound
  <2>2. RowsOK' /\ RowSoundUnlessStale'
    BY <1>0, <1>4, <2>1, SaveRows DEF ReplyClaim
  <2>3. "send" \in Op /\ Fits(a, "send", task[a].target, Held(doc, a))
    BY DEF Fits, Op
  <2>4. TasksOK'
    BY <1>0, <1>4, <2>1, <2>3, Going DEF ReplyClaim
  <2>5. MarksOK'
    BY <1>1, <1>4, Marking DEF ReplyClaim
  <2> QED
    BY <1>4, <2>2, <2>4, <2>5 DEF IInv, ReplyClaim
<1>5. CASE ReplySent(a)
  <2>1. "close" \in Op /\ Fits(a, "close", task[a].target, doc)
    BY DEF Fits, Op, AgentOps
  <2>2. TasksOK'
    BY <1>0, <1>1, <1>5, <2>1, Ending, Going DEF ReplySent
  <2>3. RowsOK' /\ RowSoundUnlessStale' /\ MarksOK'
    BY <1>1, <1>5, NoSaveRows, Marking DEF ReplySent
  <2> QED
    BY <1>5, <2>2, <2>3 DEF IInv, ReplySent
<1>6. CASE ReplyFailed(a)
  <2>1. RowsOK' /\ RowSoundUnlessStale' /\ MarksOK' /\ TasksOK'
    BY <1>1, <1>6, NoSaveRows, Marking, Ending DEF ReplyFailed
  <2> QED
    BY <1>6, <2>1 DEF IInv, ReplyFailed
<1>7. CASE TransferSave(a)
  BY <1>0, <1>7, Enqueueing DEF TransferSave
<1>8. CASE ResolveSave(a)
  <2>1. RowsOK' /\ RowSoundUnlessStale'
    BY <1>0, <1>1, <1>8, SaveRows, DocRows, DocSound DEF ResolveSave
  <2>2. MarksOK' /\ TasksOK'
    BY <1>1, <1>8, Marking, Ending DEF ResolveSave
  <2> QED
    BY <1>8, <2>1, <2>2 DEF IInv, ResolveSave
<1>9. CASE ReassignSave(a)
  <2>1. task[a].op \in {"reassign", "suggest"}
    BY <1>9 DEF ReassignSave, Doing
  <2>2. task[a].target \in Agent /\ task[a].target # None
    BY <1>1, <2>1 DEF Fits, InboxAssumption
  <2>3. RowsOK' /\ RowSoundUnlessStale'
    <3>1. CASE Save(a, Held(doc, task[a].target))
      BY <1>0, <1>1, <2>2, <3>1, SaveRows, DocRows, DocSound
    <3>2. CASE Save(a, Queued(doc, task[a].target))
      BY <1>0, <1>1, <2>2, <3>2, SaveRows, DocRows, DocSound
    <3> QED
      BY <1>9, <3>1, <3>2 DEF ReassignSave
  <2>4. MarksOK' /\ TasksOK'
    BY <1>1, <1>9, Marking, Ending DEF ReassignSave
  <2> QED
    BY <1>9, <2>3, <2>4 DEF IInv, ReassignSave
<1>10. CASE Close(a)
  <2>1. RowsOK' /\ RowSoundUnlessStale'
    BY <1>0, <1>1, <1>10, SaveRows, DocRows, DocSound DEF Close
  <2>2. MarksOK' /\ TasksOK'
    BY <1>1, <1>10, Marking, Ending DEF Close
  <2> QED
    BY <1>10, <2>1, <2>2 DEF IInv, Close
<1>11. CASE LeadClose(a)
  <2>1. RowsOK' /\ RowSoundUnlessStale'
    BY <1>0, <1>1, <1>11, SaveRows, DocRows, DocSound DEF LeadClose
  <2>2. MarksOK'
    BY <1>1, <1>11, Marking DEF LeadClose
  <2>3. TasksOK'
    BY <1>11, Ending, Opening DEF LeadClose, Unused
  <2> QED
    BY <1>11, <2>1, <2>2, <2>3 DEF IInv, LeadClose
<1>12. CASE LeadCreate(a)
  <2>1. RowsOK' /\ RowSoundUnlessStale'
    BY <1>0, <1>1, <1>12, SaveRows, DocRows, DocSound DEF LeadCreate
  <2>2. MarksOK' /\ TasksOK'
    BY <1>1, <1>12, Marking, Ending DEF LeadCreate
  <2> QED
    BY <1>12, <2>1, <2>2 DEF IInv, LeadCreate
<1> QED
  BY <1>2, <1>3, <1>4, <1>5, <1>6, <1>7, <1>8, <1>9, <1>10, <1>11, <1>12 DEF AgentGoesOn

\* The AI's handover, for a contact's message or by the monitor.
LEMMA EscalateInductive ==
    ASSUME IInv, InboxAssumption, NEW w \in Worker, Escalate(w)
    PROVE  IInv'
<1>1. task[w].op # "idle"
  BY DEF Escalate, Doing
<1>2. CASE Enqueue(w)
  BY <1>1, <1>2, Enqueueing
<1>3. CASE Done(w) /\ NoSave /\ UNCHANGED <<presence, pullable>> /\ Silence
  <2>1. RowsOK' /\ RowSoundUnlessStale' /\ MarksOK' /\ TasksOK'
    BY <1>1, <1>3, UnderWay, NoSaveRows, Marking, Ending
  <2> QED
    BY <1>3, <2>1 DEF IInv
<1> QED
  BY <1>2, <1>3 DEF Escalate

\* What follows a contact's message.
LEMMA ContactInductive ==
    ASSUME IInv, InboxAssumption, NEW k \in Contact, ContactGoesOn(k)
    PROVE  IInv'
<1> DEFINE doc == task[k].doc
           c == task[k].conv
<1> k \in Worker /\ None \in Anyone
  BY DEF Worker, Anyone
<1>0. task[k].op # "idle"
  BY DEF ContactGoesOn, Doing, InboundCreate, InboundRecord, InboundReset, InboundTriage,
     InboundDone, InboundQueue, Escalate
<1>1. /\ c \in Conv /\ doc \in Row
      /\ Fits(k, task[k].op, task[k].target, doc)
  BY <1>0, UnderWay
<1>2. ASSUME NEW op \in {"record", "route", "queue", "escalate"}, NEW d \in Row, GoOn(k, op, d)
      PROVE  TasksOK'
  <2>1. op \in Op /\ Fits(k, op, task[k].target, d)
    BY DEF Fits, Op, AgentOps
  <2> QED
    BY <1>0, <1>2, <2>1, Going
<1>3. CASE InboundCreate(k)
  <2>1. RowsOK' /\ RowSoundUnlessStale'
    BY <1>0, <1>1, <1>3, SaveRows, DocRows, DocSound DEF InboundCreate
  <2>2. MarksOK' /\ TasksOK'
    BY <1>1, <1>2, <1>3, DocRows, Marking DEF InboundCreate
  <2> QED
    BY <1>3, <2>1, <2>2 DEF IInv, InboundCreate
<1>4. CASE InboundRecord(k)
  <2>1. RowsOK' /\ RowSoundUnlessStale' /\ MarksOK' /\ TasksOK'
    BY <1>1, <1>2, <1>4, NoSaveRows, Marking DEF InboundRecord
  <2> QED
    BY <1>4, <2>1 DEF IInv, InboundRecord
<1>5. CASE InboundReset(k)
  <2>1. RowsOK' /\ RowSoundUnlessStale'
    BY <1>0, <1>1, <1>5, SaveRows, DocRows, DocSound DEF InboundReset
  <2>2. MarksOK' /\ TasksOK'
    BY <1>1, <1>2, <1>5, DocRows, Marking DEF InboundReset
  <2> QED
    BY <1>5, <2>1, <2>2 DEF IInv, InboundReset
<1>6. CASE InboundTriage(k)
  <2>1. RowsOK' /\ RowSoundUnlessStale' /\ MarksOK'
    BY <1>1, <1>6, NoSaveRows, Marking DEF InboundTriage
  <2>2. TasksOK'
    BY <1>1, <1>2, <1>6, Ending DEF InboundTriage
  <2> QED
    BY <1>6, <2>1, <2>2 DEF IInv, InboundTriage
<1>7. CASE InboundDone(k)
  <2>1. RowsOK' /\ RowSoundUnlessStale' /\ MarksOK' /\ TasksOK'
    BY <1>1, <1>7, NoSaveRows, Marking, Ending DEF InboundDone
  <2> QED
    BY <1>7, <2>1 DEF IInv, InboundDone
<1>8. CASE InboundQueue(k)
  BY <1>0, <1>8, Enqueueing DEF InboundQueue
<1>9. CASE Escalate(k)
  BY <1>9, EscalateInductive
<1> QED
  BY <1>3, <1>4, <1>5, <1>6, <1>7, <1>8, <1>9 DEF ContactGoesOn

\* What the monitor does after a load.
LEMMA MonitorInductive ==
    ASSUME IInv, InboxAssumption, NEW m \in Monitor, MonitorGoesOn(m)
    PROVE  IInv'
<1> DEFINE doc == task[m].doc
           c == task[m].conv
<1> m \in Worker /\ None \in Anyone
  BY DEF Worker, Anyone
<1>0. task[m].op # "idle"
  BY DEF MonitorGoesOn, Doing, WarnSend, Close, Escalate, ReleaseSave, UnsuggestSave, Resuggest
<1>1. /\ c \in Conv /\ doc \in Row
      /\ Fits(m, task[m].op, task[m].target, doc)
  BY <1>0, UnderWay
<1>2. CASE WarnSend(m)
  <2>1. RowsOK' /\ RowSoundUnlessStale' /\ MarksOK' /\ TasksOK'
    BY <1>1, <1>2, NoSaveRows, Marking, Ending DEF WarnSend
  <2> QED
    BY <1>2, <2>1 DEF IInv, WarnSend
<1>3. CASE Close(m)
  <2>1. RowsOK' /\ RowSoundUnlessStale'
    BY <1>0, <1>1, <1>3, SaveRows, DocRows, DocSound DEF Close
  <2>2. MarksOK' /\ TasksOK'
    BY <1>1, <1>3, Marking, Ending DEF Close
  <2> QED
    BY <1>3, <2>1, <2>2 DEF IInv, Close
<1>4. CASE Escalate(m)
  BY <1>4, EscalateInductive
<1>5. CASE ReleaseSave(m)
  <2>1. RowsOK' /\ RowSoundUnlessStale'
    BY <1>0, <1>1, <1>5, SaveRows, DocRows, DocSound DEF ReleaseSave
  <2>2. MarksOK' /\ TasksOK'
    BY <1>1, <1>5, Marking, Ending DEF ReleaseSave
  <2> QED
    BY <1>5, <2>1, <2>2 DEF IInv, ReleaseSave
<1>6. CASE UnsuggestSave(m)
  <2> DEFINE new == [doc EXCEPT !.suggested = None]
  <2>1. Save(m, new) /\ Silence /\ UNCHANGED <<presence, pullable>>
    BY <1>6 DEF UnsuggestSave
  <2>2. new \in Row /\ (Sound(doc) => Sound(new)) /\ new.status = doc.status
    BY <1>1, DocRows, DocSound DEF Row
  <2>3. RowsOK' /\ RowSoundUnlessStale'
    BY <1>0, <2>1, <2>2, SaveRows
  <2>4. task[m].op \in {"unsuggest", "requeue"} /\ (Done(m) \/ GoOn(m, "resuggest", new))
    BY <1>6 DEF UnsuggestSave, Doing
  <2>5. "resuggest" \in Op /\ Fits(m, "resuggest", task[m].target, new)
    BY <1>1, <2>2, <2>4 DEF Fits, Op, AgentOps
  <2>6. TasksOK'
    BY <1>0, <2>2, <2>4, <2>5, Ending, Going
  <2>7. MarksOK'
    BY <1>1, <2>1, Marking
  <2> QED
    BY <2>1, <2>3, <2>6, <2>7 DEF IInv
<1>7. CASE Resuggest(m)
  <2>1. doc.status = "waiting_queue"
    BY <1>1, <1>7 DEF Fits, Resuggest, Doing
  <2>2. PICK s \in Picks :
          /\ Save(m, IF s = None THEN doc ELSE [doc EXCEPT !.assigned = None, !.suggested = s])
          /\ Suggested(c, s)
    BY <1>7 DEF Resuggest
  <2>3. s \in Anyone
    BY <2>2 DEF Picks, Eligible, Anyone
  <2>4. RowsOK' /\ RowSoundUnlessStale'
    BY <1>0, <1>1, <2>1, <2>2, <2>3, SaveRows, DocRows, DocSound
  <2>5. MarksOK' /\ TasksOK'
    BY <1>1, <1>7, <2>2, Marking, Ending DEF Resuggest
  <2> QED
    BY <1>7, <2>4, <2>5 DEF IInv, Resuggest
<1> QED
  BY <1>2, <1>3, <1>4, <1>5, <1>6, <1>7 DEF MonitorGoesOn

\* Time and presence touch no document and no handler.
LEMMA WorldInductive ==
    ASSUME IInv,
           \/ \E a \in Agent : ChangePresence(a)
           \/ \E c \in Conv : PriorityLapses(c) \/ ClientGoesQuiet(c)
    PROVE  IInv'
<1>1. NoSave /\ UNCHANGED task
  BY DEF ChangePresence, PriorityLapses, ClientGoesQuiet
<1>2. RowsOK' /\ RowSoundUnlessStale' /\ TasksOK'
  BY <1>1, NoSaveRows DEF IInv, TasksOK, TaskOK, Fits
<1>3. MarksOK' /\ presence' \in [Agent -> Presence]
  BY DEF IInv, MarksOK, ChangePresence, PriorityLapses, ClientGoesQuiet, Silence
<1> QED
  BY <1>2, <1>3 DEF IInv

\* The invariant holds at first and is kept by every step.
LEMMA InvInductive == Spec => []IInv
<1>1. Init => IInv
  <2> SUFFICES ASSUME Init PROVE IInv
    OBVIOUS
  <2>1. Absent \in Row /\ Absent.suggested = None /\ Absent.assigned = None
           /\ Absent.status = "absent" /\ Idle.op = "idle"
    BY DEF Absent, Free, Row, Status, Anyone, Idle
  <2>2. RowsOK /\ RowSoundUnlessStale
    BY <2>1 DEF Init, RowsOK, RowSoundUnlessStale, RowSound
  <2>3. TasksOK
    BY <2>1 DEF Init, TasksOK, TaskOK, Task, Idle, Op, Anyone
  <2>4. MarksOK /\ presence \in [Agent -> Presence]
    BY InboxAssumption DEF Init, MarksOK, InboxAssumption
  <2> QED
    BY <2>2, <2>3, <2>4 DEF IInv
<1>2. IInv /\ [Next]_vars => IInv'
  <2> SUFFICES ASSUME IInv, [Next]_vars PROVE IInv'
    OBVIOUS
  <2>1. ASSUME NEW a \in Agent, AgentLoad(a) PROVE IInv'
    BY <2>1, InboxAssumption, LoadsInductive DEF AgentLoad
  <2>2. ASSUME NEW a \in Agent, AgentGoesOn(a) PROVE IInv'
    BY <2>2, InboxAssumption, AgentInductive
  <2>3. ASSUME NEW k \in Contact, InboundFind(k) PROVE IInv'
    BY <2>3, InboxAssumption, LoadsInductive DEF InboundFind, OpenRows, Unused
  <2>9. ASSUME NEW a \in Agent, NEW k \in Contact, LeadLook(a, k) PROVE IInv'
    BY <2>9, InboxAssumption, LoadsInductive DEF LeadLook, OpenRows, Unused
  <2>4. ASSUME NEW k \in Contact, ContactGoesOn(k) PROVE IInv'
    BY <2>4, InboxAssumption, ContactInductive
  <2>5. ASSUME NEW m \in Monitor, MonitorLoad(m) PROVE IInv'
    BY <2>5, InboxAssumption, LoadsInductive DEF MonitorLoad
  <2>6. ASSUME NEW m \in Monitor, MonitorGoesOn(m) PROVE IInv'
    BY <2>6, InboxAssumption, MonitorInductive
  <2>7. ASSUME \/ \E a \in Agent : ChangePresence(a)
               \/ \E c \in Conv : PriorityLapses(c) \/ ClientGoesQuiet(c)
        PROVE  IInv'
    BY <2>7, WorldInductive
  <2>8. CASE UNCHANGED vars
    BY <2>8 DEF vars, IInv, RowsOK, MarksOK, TasksOK, TaskOK, Fits, RowSoundUnlessStale, RowSound
  <2> QED
    BY <2>1, <2>2, <2>3, <2>4, <2>5, <2>6, <2>7, <2>8, <2>9 DEF Next
<1> QED
  BY <1>1, <1>2, PTL DEF Spec

\* Every reachable state is well formed, whatever the numbers of agents,
\* contacts, rows and handlers under way.
THEOREM InboxTypeCorrect == Spec => []TypeOK
<1>1. IInv => TypeOK
  BY DEF IInv, RowsOK, MarksOK, TasksOK, Task, TypeOK
<1> QED
  BY <1>1, InvInductive, PTL

\* No handler of InboxService, nor any interleaving of them, leaves a row whose
\* status, agent and suggestion disagree, except by saving an outdated document.
THEOREM InboxRowsSound == Spec => []RowSoundUnlessStale
<1>1. IInv => RowSoundUnlessStale
  BY DEF IInv
<1> QED
  BY <1>1, InvInductive, PTL
===========================================================================
