------------------------- MODULE InboxHistoryProofs -------------------------
(***************************************************************************)
(* What becomes of a conversation in InboxConversation: who may take it     *)
(* from its agent, how it comes back after its end, and that a contact has  *)
(* one open row at a time, for any agents, contacts, rows and handlers.     *)
(***************************************************************************)
EXTENDS InboxConversationProofs, FiniteSetTheorems

USE InboxAssumption

FromOpen == {"assign", "assignPause", "claim", "reassign", "suggest",
             "record", "route", "queue", "escalate", "release", "leadClose"}

\* What a handler knows of the document it holds since it loaded it.
Based(w, op, doc) ==
    /\ op \in FromOpen => doc.status \in Open
    /\ op \in {"assign", "assignPause"} => doc.status # "in_progress"
    /\ op = "claim" => doc.assigned = None
    /\ op = "reassign" => w \in Supervisor
    /\ op = "create" => doc.status = "absent"

DocsBased == \A w \in Worker : Based(w, task[w].op, task[w].doc)

\* What a save may make of the document it changes: only a supervisor replaces
\* an agent, only a transfer takes a conversation back from its end.
Mild(w, op, doc, new) ==
    /\ doc.status = "in_progress" /\ new.status = "in_progress" /\ new.assigned # doc.assigned
         => doc.assigned = None \/ (op = "reassign" /\ w \in Supervisor)
    /\ doc.status \in Terminal /\ new.status \notin Terminal
         => op = "transfer" /\ w \in Agent
    /\ new.status # doc.status => new.status # "absent"
    /\ op = "create" => new.status \in Open

\* The documents after a step of w.
SavedBy(w) ==
    \/ NoSave /\ task[w].op # "create"
    \/ /\ task[w].op = "pause"
       /\ \E a \in Agent : row' = [row EXCEPT ![task[w].conv].paused = a]
       /\ UNCHANGED <<stale, outside>>
    \/ \E new \in Row : Save(w, new) /\ Mild(w, task[w].op, task[w].doc, new)

\* The handler of w after its step.
MovedBy(w) ==
    \/ Done(w)
    \/ \E op \in Op \ {"idle", "create"}, doc \in Row : GoOn(w, op, doc) /\ Based(w, op, doc)
    \/ /\ w \in Agent /\ task[w].op = "leadClose"
       /\ \E k \in Contact : \E d \in Unused(k) :
            task' = [task EXCEPT ![w] = [op |-> "create", conv |-> d, doc |-> Absent,
                                         target |-> None]]

---------------------------------------------------------------------------
(* The handlers' steps.                                                    *)

\* What an agent's later step does.
LEMMA AgentSteps ==
    ASSUME IInv, DocsBased, NEW a \in Agent, AgentGoesOn(a)
    PROVE  task[a].op # "idle" /\ SavedBy(a) /\ MovedBy(a)
<1> DEFINE doc == task[a].doc
           op  == task[a].op
<1> a \in Worker /\ a \in Anyone /\ None \in Anyone
  BY DEF Worker, Anyone
<1>0. op # "idle"
  BY DEF AgentGoesOn, Doing, AssignSave, Pause, ReplyClaim, ReplySent, ReplyFailed,
     TransferSave, ResolveSave, ReassignSave, Close, LeadClose, LeadCreate
<1>1. /\ doc \in Row /\ task[a].target \in Anyone
      /\ Fits(a, op, task[a].target, doc) /\ Based(a, op, doc)
  BY <1>0, UnderWay DEF DocsBased
<1>2. CASE AssignSave(a)
  <2> DEFINE new == [Held(doc, a) EXCEPT !.paused = None]
  <2>1. new \in Row /\ new.status = "in_progress"
    BY <1>1, DocRows DEF Held, Row
  <2>2. op \in {"assign", "assignPause"} /\ Save(a, new) /\ (Done(a) \/ GoOn(a, "pause", new))
    BY <1>2 DEF AssignSave, Doing
  <2> HIDE DEF new
  <2>3. Mild(a, op, doc, new) /\ Based(a, "pause", new)
    BY <1>1, <2>1, <2>2 DEF Mild, Based, FromOpen, Open, Terminal
  <2> QED
    BY <1>0, <2>1, <2>2, <2>3 DEF SavedBy, MovedBy, Op
<1>3. CASE Pause(a)
  BY <1>0, <1>3 DEF Pause, Doing, SavedBy, MovedBy
<1>4. CASE ReplyClaim(a)
  <2> DEFINE new == Held(doc, a)
  <2>1. new \in Row /\ new.status = "in_progress"
    BY <1>1, DocRows DEF Held, Row
  <2>2. op = "claim" /\ Save(a, new) /\ GoOn(a, "send", new)
    BY <1>4 DEF ReplyClaim, Doing
  <2> HIDE DEF new
  <2>3. Mild(a, op, doc, new) /\ Based(a, "send", new)
    BY <1>1, <2>1, <2>2 DEF Mild, Based, FromOpen, Open, Terminal
  <2> QED
    BY <1>0, <2>1, <2>2, <2>3 DEF SavedBy, MovedBy, Op
<1>5. CASE ReplySent(a) \/ ReplyFailed(a)
  <2>1. op = "send" /\ NoSave /\ (Done(a) \/ GoOn(a, "close", doc))
    BY <1>5 DEF ReplySent, ReplyFailed, Doing
  <2>2. Based(a, "close", doc)
    BY DEF Based, FromOpen
  <2> QED
    BY <1>0, <1>1, <2>1, <2>2 DEF SavedBy, MovedBy, Op
<1>6. CASE TransferSave(a)
  <2>1. PICK s \in Picks : Save(a, Queued(doc, s))
    BY <1>6 DEF TransferSave, Enqueue
  <2>2. s \in Anyone
    BY <2>1 DEF Picks, Eligible, Anyone
  <2>3. op = "transfer" /\ Done(a) /\ Queued(doc, s) \in Row
        /\ Queued(doc, s).status = "waiting_queue"
    BY <1>1, <1>6, <2>2, DocRows DEF TransferSave, Enqueue, Doing, Queued, Row
  <2>4. Mild(a, op, doc, Queued(doc, s))
    BY <2>3 DEF Mild
  <2> QED
    BY <1>0, <2>1, <2>3, <2>4 DEF SavedBy, MovedBy
<1>7. CASE ResolveSave(a)
  <2> DEFINE new == [doc EXCEPT !.status = "resolved", !.suggested = None]
  <2>1. new \in Row /\ new.status = "resolved"
    BY <1>1, DocRows DEF Row
  <2>2. op = "resolve" /\ Done(a) /\ Save(a, new)
    BY <1>7 DEF ResolveSave, Doing
  <2> HIDE DEF new
  <2>3. Mild(a, op, doc, new)
    BY <2>1, <2>2 DEF Mild, Terminal
  <2> QED
    BY <1>0, <2>1, <2>2, <2>3 DEF SavedBy, MovedBy
<1>8. CASE ReassignSave(a)
  <2> DEFINE held == Held(doc, task[a].target)
             queued == Queued(doc, task[a].target)
  <2>1. /\ held \in Row /\ held.status = "in_progress"
        /\ queued \in Row /\ queued.status = "waiting_queue"
    BY <1>1, DocRows DEF Held, Queued, Row
  <2>2. Done(a) /\ ((op = "reassign" /\ Save(a, held)) \/ (op = "suggest" /\ Save(a, queued)))
    BY <1>8 DEF ReassignSave, Doing
  <2> HIDE DEF held, queued
  <2>3. /\ op = "reassign" => Mild(a, op, doc, held)
        /\ op = "suggest" => Mild(a, op, doc, queued)
    BY <1>1, <2>1 DEF Mild, Based, FromOpen, Open, Terminal
  <2> QED
    BY <1>0, <2>1, <2>2, <2>3 DEF SavedBy, MovedBy
<1>9. CASE Close(a)
  <2>1. Closed(doc) \in Row /\ Closed(doc).status = "closed"
    BY <1>1, DocRows DEF Closed, Row
  <2>2. op = "close" /\ Done(a) /\ Save(a, Closed(doc))
    BY <1>9 DEF Close, Doing
  <2>3. Mild(a, op, doc, Closed(doc))
    BY <2>1, <2>2 DEF Mild, Terminal
  <2> QED
    BY <1>0, <2>1, <2>2, <2>3 DEF SavedBy, MovedBy
<1>10. CASE LeadClose(a)
  <2>1. Closed(doc) \in Row /\ Closed(doc).status = "closed"
    BY <1>1, DocRows DEF Closed, Row
  <2>2. op = "leadClose" /\ Save(a, Closed(doc))
    BY <1>10 DEF LeadClose, Doing
  <2>3. Mild(a, op, doc, Closed(doc))
    BY <2>1, <2>2 DEF Mild, Terminal
  <2>4. ContactOf[task[a].conv] \in Contact
    BY <1>0, UnderWay DEF InboxAssumption
  <2>5. MovedBy(a)
    BY <1>10, <2>2, <2>4 DEF LeadClose, MovedBy
  <2> QED
    BY <1>0, <2>1, <2>2, <2>3, <2>5 DEF SavedBy
<1>11. CASE LeadCreate(a)
  <2>1. Held(doc, a) \in Row /\ Held(doc, a).status = "in_progress"
    BY <1>1, DocRows DEF Held, Row
  <2>2. op = "create" /\ Done(a) /\ Save(a, Held(doc, a))
    BY <1>11 DEF LeadCreate, Doing
  <2>3. Mild(a, op, doc, Held(doc, a))
    BY <1>1, <2>1, <2>2 DEF Mild, Based, Open, Terminal
  <2> QED
    BY <1>0, <2>1, <2>2, <2>3 DEF SavedBy, MovedBy
<1> QED
  BY <1>2, <1>3, <1>4, <1>5, <1>6, <1>7, <1>8, <1>9, <1>10, <1>11 DEF AgentGoesOn

\* A conversation goes to the queue.
LEMMA QueueSteps ==
    ASSUME IInv, NEW w \in Worker, task[w].op \in {"queue", "escalate"}, Enqueue(w),
           Based(w, task[w].op, task[w].doc)
    PROVE  SavedBy(w) /\ MovedBy(w)
<1> DEFINE doc == task[w].doc
<1>1. PICK s \in Picks : Save(w, Queued(doc, s))
  BY DEF Enqueue
<1>2. s \in Anyone /\ doc \in Row
  BY <1>1, UnderWay DEF Picks, Eligible, Anyone
<1>3. Done(w) /\ Queued(doc, s) \in Row /\ Queued(doc, s).status = "waiting_queue"
  BY <1>2, DocRows DEF Enqueue, Queued, Row
<1>4. Mild(w, task[w].op, doc, Queued(doc, s))
  BY <1>3 DEF Mild, Based, FromOpen, Open, Terminal
<1> QED
  BY <1>1, <1>3, <1>4 DEF SavedBy, MovedBy

\* The AI's handover.
LEMMA EscalateSteps ==
    ASSUME IInv, DocsBased, NEW w \in Worker, Escalate(w)
    PROVE  task[w].op # "idle" /\ SavedBy(w) /\ MovedBy(w)
<1>1. task[w].op = "escalate" /\ Based(w, task[w].op, task[w].doc)
  BY DEF Escalate, Doing, DocsBased
<1>2. CASE Enqueue(w)
  BY <1>1, <1>2, QueueSteps
<1>3. CASE Done(w) /\ NoSave
  BY <1>1, <1>3 DEF SavedBy, MovedBy
<1> QED
  BY <1>1, <1>2, <1>3 DEF Escalate

\* What follows a contact's message.
LEMMA ContactSteps ==
    ASSUME IInv, DocsBased, NEW k \in Contact, ContactGoesOn(k)
    PROVE  task[k].op # "idle" /\ SavedBy(k) /\ MovedBy(k)
<1> DEFINE doc == task[k].doc
           op  == task[k].op
<1> k \in Worker /\ None \in Anyone
  BY DEF Worker, Anyone
<1>0. op # "idle"
  BY DEF ContactGoesOn, Doing, InboundCreate, InboundRecord, InboundReset, InboundTriage,
     InboundDone, InboundQueue, Escalate
<1>1. doc \in Row /\ Based(k, op, doc)
  BY <1>0, UnderWay DEF DocsBased
<1>2. ASSUME NEW p \in {"record", "route", "queue", "escalate"}, NEW d \in Row,
             d.status \in Open, GoOn(k, p, d)
      PROVE  MovedBy(k)
  <2>1. Based(k, p, d) /\ p \in Op \ {"idle", "create"}
    BY <1>2 DEF Based, FromOpen, Op
  <2> QED
    BY <1>2, <2>1 DEF MovedBy
<1>3. CASE InboundCreate(k)
  <2> DEFINE new == Free("bot_triage")
  <2>1. new \in Row /\ new.status = "bot_triage"
    BY <1>1, DocRows DEF Free
  <2>2. op = "create" /\ Save(k, new) /\ GoOn(k, "record", new)
    BY <1>3 DEF InboundCreate, Doing
  <2> HIDE DEF new
  <2>3. Mild(k, op, doc, new)
    BY <1>1, <2>1, <2>2 DEF Mild, Based, Terminal, Open
  <2> QED
    BY <1>0, <1>2, <2>1, <2>2, <2>3 DEF SavedBy, Open
<1>4. CASE InboundRecord(k)
  <2>1. op = "record" /\ NoSave /\ GoOn(k, "route", doc) /\ doc.status \in Open
    BY <1>1, <1>4 DEF InboundRecord, Doing, Based, FromOpen
  <2> QED
    BY <1>0, <1>1, <1>2, <2>1 DEF SavedBy
<1>5. CASE InboundReset(k)
  <2> DEFINE new == Triaged(doc)
  <2>1. new \in Row /\ new.status = "bot_triage"
    BY <1>1, DocRows DEF Triaged, Row
  <2>2. op = "route" /\ Save(k, new) /\ (GoOn(k, "route", new) \/ GoOn(k, "queue", new))
    BY <1>5 DEF InboundReset, Doing
  <2> HIDE DEF new
  <2>3. Mild(k, op, doc, new)
    BY <1>1, <2>1, <2>2 DEF Mild, Based, FromOpen, Open, Terminal
  <2>4. MovedBy(k)
    BY <1>2, <2>1, <2>2 DEF Open
  <2> QED
    BY <1>0, <2>1, <2>2, <2>3, <2>4 DEF SavedBy
<1>6. CASE InboundTriage(k) \/ InboundDone(k)
  <2>1. op = "route" /\ NoSave /\ doc.status \in Open
    BY <1>1, <1>6 DEF InboundTriage, InboundDone, Doing, Based, FromOpen
  <2>2. Done(k) \/ \E p \in {"queue", "escalate"} : GoOn(k, p, doc)
    BY <1>6 DEF InboundTriage, InboundDone
  <2>3. MovedBy(k)
    BY <1>1, <1>2, <2>1, <2>2 DEF MovedBy
  <2> QED
    BY <1>0, <2>1, <2>3 DEF SavedBy
<1>7. CASE InboundQueue(k)
  BY <1>0, <1>1, <1>7, QueueSteps DEF InboundQueue, Doing
<1>8. CASE Escalate(k)
  BY <1>8, EscalateSteps
<1> QED
  BY <1>3, <1>4, <1>5, <1>6, <1>7, <1>8 DEF ContactGoesOn

\* What the monitor does after a load.
LEMMA MonitorSteps ==
    ASSUME IInv, DocsBased, NEW m \in Monitor, MonitorGoesOn(m)
    PROVE  task[m].op # "idle" /\ SavedBy(m) /\ MovedBy(m)
<1> DEFINE doc == task[m].doc
           op  == task[m].op
<1> m \in Worker /\ None \in Anyone
  BY DEF Worker, Anyone
<1>0. op # "idle"
  BY DEF MonitorGoesOn, Doing, WarnSend, Close, Escalate, ReleaseSave, UnsuggestSave, Resuggest
<1>1. doc \in Row /\ Fits(m, op, task[m].target, doc) /\ Based(m, op, doc)
  BY <1>0, UnderWay DEF DocsBased
<1>2. CASE WarnSend(m)
  BY <1>0, <1>2 DEF WarnSend, Doing, SavedBy, MovedBy
<1>3. CASE Close(m)
  <2>1. Closed(doc) \in Row /\ Closed(doc).status = "closed"
    BY <1>1, DocRows DEF Closed, Row
  <2>2. op = "close" /\ Done(m) /\ Save(m, Closed(doc))
    BY <1>3 DEF Close, Doing
  <2>3. Mild(m, op, doc, Closed(doc))
    BY <2>1, <2>2 DEF Mild, Terminal
  <2> QED
    BY <1>0, <2>1, <2>2, <2>3 DEF SavedBy, MovedBy
<1>4. CASE Escalate(m)
  BY <1>4, EscalateSteps
<1>5. CASE ReleaseSave(m)
  <2> DEFINE new == [Triaged(doc) EXCEPT !.paused = None]
  <2>1. new \in Row /\ new.status = "bot_triage"
    BY <1>1, DocRows DEF Triaged, Row
  <2>2. op = "release" /\ Done(m) /\ Save(m, new)
    BY <1>5 DEF ReleaseSave, Doing
  <2> HIDE DEF new
  <2>3. Mild(m, op, doc, new)
    BY <1>1, <2>1, <2>2 DEF Mild, Based, FromOpen, Open, Terminal
  <2> QED
    BY <1>0, <2>1, <2>2, <2>3 DEF SavedBy, MovedBy
<1>6. CASE UnsuggestSave(m)
  <2> DEFINE new == [doc EXCEPT !.suggested = None]
  <2>1. new \in Row /\ new.status = doc.status
    BY <1>1, DocRows DEF Row
  <2>2. /\ op \in {"unsuggest", "requeue"} /\ Save(m, new)
        /\ Done(m) \/ GoOn(m, "resuggest", new)
    BY <1>6 DEF UnsuggestSave, Doing
  <2> HIDE DEF new
  <2>3. Mild(m, op, doc, new) /\ Based(m, "resuggest", new)
    BY <1>1, <2>1, <2>2 DEF Mild, Based, Fits, FromOpen, Terminal
  <2> QED
    BY <1>0, <2>1, <2>2, <2>3 DEF SavedBy, MovedBy, Op
<1>7. CASE Resuggest(m)
  <2>1. PICK s \in Picks :
          Save(m, IF s = None THEN doc ELSE [doc EXCEPT !.assigned = None, !.suggested = s])
    BY <1>7 DEF Resuggest
  <2> DEFINE new == IF s = None THEN doc ELSE [doc EXCEPT !.assigned = None, !.suggested = s]
  <2>2. s \in Anyone
    BY <2>1 DEF Picks, Eligible, Anyone
  <2>3. new \in Row /\ new.status = doc.status
    BY <1>1, <2>2, DocRows DEF Row
  <2>4. op = "resuggest" /\ Save(m, new) /\ Done(m)
    BY <1>7, <2>1 DEF Resuggest, Doing
  <2> HIDE DEF new
  <2>5. Mild(m, op, doc, new)
    BY <1>1, <2>3, <2>4 DEF Mild, Fits, Terminal
  <2> QED
    BY <1>0, <2>3, <2>4, <2>5 DEF SavedBy, MovedBy
<1> QED
  BY <1>2, <1>3, <1>4, <1>5, <1>6, <1>7 DEF MonitorGoesOn

---------------------------------------------------------------------------
(* Every step, seen from one handler.                                      *)

\* A handler of w begins with the row c.
BegunBy(w, c, op, target) ==
    /\ Load(w, c, op, target)
    /\ Based(w, op, row[c])
    /\ IF op = "create"
         THEN /\ w \in Contact \cup Agent /\ \E k \in Contact : c \in Unused(k)
              /\ w \in Contact => ContactOf[c] = w /\ OpenRows(w) = {}
         ELSE row[c].status # "absent"

\* An agent begins.
LEMMA AgentBegins ==
    ASSUME NEW a \in Agent, AgentLoad(a)
    PROVE  \E c \in Conv, op \in Op \ {"idle"}, t \in Anyone : BegunBy(a, c, op, t)
<1> USE DEF BegunBy, Based, FromOpen, Open, Op
<1> None \in Anyone /\ Agent \subseteq Anyone
  BY DEF Anyone
<1>1. PICK c \in Conv :
        \/ AssignLoad(a, c) \/ PauseLoad(a, c) \/ ReplyLoad(a, c) \/ TransferLoad(a, c)
        \/ ResolveLoad(a, c) \/ ReassignLoad(a, c)
  BY DEF AgentLoad
<1>2. CASE AssignLoad(a, c)
  BY <1>2 DEF AssignLoad, Takes
<1>3. CASE PauseLoad(a, c)
  BY <1>3 DEF PauseLoad
<1>4. CASE ReplyLoad(a, c)
  BY <1>4 DEF ReplyLoad
<1>5. CASE TransferLoad(a, c) \/ ResolveLoad(a, c)
  BY <1>5 DEF TransferLoad, ResolveLoad
<1>6. CASE ReassignLoad(a, c)
  BY <1>6 DEF ReassignLoad
<1> QED
  BY <1>1, <1>2, <1>3, <1>4, <1>5, <1>6

\* The monitor begins.
LEMMA MonitorBegins ==
    ASSUME NEW m \in Monitor, MonitorLoad(m)
    PROVE  \E c \in Conv, op \in Op \ {"idle"}, t \in Anyone : BegunBy(m, c, op, t)
<1> USE DEF BegunBy, Based, FromOpen, Open, Op
<1> None \in Anyone
  BY DEF Anyone
<1>1. PICK c \in Conv : \/ InactivityLoad(m, c) \/ PromiseLoad(m, c)
                        \/ ReleaseLoad(m, c) \/ UnsuggestLoad(m, c)
  BY DEF MonitorLoad
<1>2. CASE InactivityLoad(m, c)
  BY <1>2 DEF InactivityLoad, Unattended
<1>3. CASE PromiseLoad(m, c) \/ ReleaseLoad(m, c)
  BY <1>3 DEF PromiseLoad, ReleaseLoad
<1>4. CASE UnsuggestLoad(m, c)
  BY <1>4 DEF UnsuggestLoad
<1> QED
  BY <1>1, <1>2, <1>3, <1>4

\* A lead is opened.
LEMMA LeadBegins ==
    ASSUME NEW a \in Agent, NEW k \in Contact, LeadLook(a, k)
    PROVE  \E c \in Conv, op \in Op \ {"idle"}, t \in Anyone : BegunBy(a, c, op, t)
<1> None \in Anyone /\ a \notin Contact
  BY DEF Anyone, InboxAssumption
<1>1. CASE \E c \in OpenRows(k) : Load(a, c, "leadClose", None)
  BY <1>1 DEF BegunBy, Based, FromOpen, Open, Op, OpenRows
<1>2. ASSUME NEW c \in Unused(k), Load(a, c, "create", None)
      PROVE  c \in Conv /\ BegunBy(a, c, "create", None)
  <2>1. c \in Conv /\ row[c].status = "absent"
    BY DEF Unused
  <2> QED
    BY <1>2, <2>1 DEF BegunBy, Based, FromOpen
<1> QED
  BY <1>1, <1>2 DEF LeadLook, Op

\* A message of a contact begins.
LEMMA ContactBegins ==
    ASSUME NEW k \in Contact, InboundFind(k)
    PROVE  \E c \in Conv, op \in Op \ {"idle"}, t \in Anyone : BegunBy(k, c, op, t)
<1> None \in Anyone
  BY DEF Anyone
<1>1. CASE \E c \in OpenRows(k) : Load(k, c, "record", None)
  BY <1>1 DEF BegunBy, Based, FromOpen, Open, Op, OpenRows
<1>2. ASSUME NEW c \in Unused(k), Load(k, c, "create", None), OpenRows(k) = {}
      PROVE  c \in Conv /\ BegunBy(k, c, "create", None)
  <2>1. c \in Conv /\ row[c].status = "absent" /\ ContactOf[c] = k
    BY DEF Unused
  <2> QED
    BY <1>2, <2>1 DEF BegunBy, Based, FromOpen
<1> QED
  BY <1>1, <1>2 DEF InboundFind, Op

\* A step is the beginning of a handler, a later step of one, or of the world.
LEMMA Steps ==
    ASSUME IInv, DocsBased, Next
    PROVE  \/ \E w \in Worker, c \in Conv, op \in Op \ {"idle"}, t \in Anyone :
                BegunBy(w, c, op, t)
           \/ \E w \in Worker : task[w].op # "idle" /\ SavedBy(w) /\ MovedBy(w)
           \/ NoSave /\ UNCHANGED task
<1> Agent \subseteq Worker /\ Contact \subseteq Worker /\ Monitor \subseteq Worker
  BY DEF Worker
<1>1. CASE \E a \in Agent : AgentLoad(a)
  BY <1>1, AgentBegins
<1>2. CASE \E a \in Agent : AgentGoesOn(a)
  BY <1>2, AgentSteps
<1>3. CASE \E k \in Contact : InboundFind(k)
  BY <1>3, ContactBegins
<1>8. CASE \E k \in Contact, a \in Agent : LeadLook(a, k)
  BY <1>8, LeadBegins
<1>4. CASE \E k \in Contact : ContactGoesOn(k)
  BY <1>4, ContactSteps
<1>5. CASE \E m \in Monitor : MonitorLoad(m)
  BY <1>5, MonitorBegins
<1>6. CASE \E m \in Monitor : MonitorGoesOn(m)
  BY <1>6, MonitorSteps
<1>7. CASE \/ \E a \in Agent : ChangePresence(a)
           \/ \E c \in Conv : PriorityLapses(c) \/ ClientGoesQuiet(c)
  BY <1>7 DEF ChangePresence, PriorityLapses, ClientGoesQuiet
<1> QED
  BY <1>1, <1>2, <1>3, <1>4, <1>5, <1>6, <1>7, <1>8 DEF Next

---------------------------------------------------------------------------
(* The handlers' documents.                                                *)

\* Every step leaves each handler with a document that fits it.
LEMMA DocsStep ==
    ASSUME IInv, DocsBased, [Next]_vars
    PROVE  DocsBased'
<1>0. task \in [Worker -> Task]
  BY DEF IInv, TasksOK
<1>1. ASSUME NEW w \in Worker, NEW t \in Task, task' = [task EXCEPT ![w] = t],
             Based(w, t.op, t.doc)
      PROVE  DocsBased'
  <2> SUFFICES ASSUME NEW v \in Worker PROVE Based(v, task'[v].op, task'[v].doc)
    BY DEF DocsBased, Based
  <2>1. CASE v = w
    BY <1>0, <1>1, <2>1
  <2>2. CASE v # w
    BY <1>0, <1>1, <2>2 DEF DocsBased
  <2> QED
    BY <2>1, <2>2
<1>2. ASSUME NEW w \in Worker, NEW c \in Conv, NEW op \in Op, NEW t \in Anyone,
             BegunBy(w, c, op, t)
      PROVE  DocsBased'
  <2> DEFINE new == [op |-> op, conv |-> c, doc |-> row[c], target |-> t]
  <2>1. new \in Task /\ new.op = op /\ new.doc = row[c]
    BY DEF Task, IInv, RowsOK
  <2>2. task' = [task EXCEPT ![w] = new] /\ Based(w, op, row[c])
    BY <1>2 DEF BegunBy, Load
  <2> HIDE DEF new
  <2> QED
    BY <1>1, <2>1, <2>2
<1>3. ASSUME NEW w \in Worker, MovedBy(w) PROVE DocsBased'
  <2>1. CASE Done(w)
    <3>1. Idle \in Task /\ Based(w, Idle.op, Idle.doc)
      BY DocRows DEF Idle, Task, Op, Anyone, Based, FromOpen, Absent, Free, Row, Status
    <3> QED
      BY <1>1, <2>1, <3>1 DEF Done
  <2>2. ASSUME NEW op \in Op, NEW doc \in Row, GoOn(w, op, doc), Based(w, op, doc)
        PROVE  DocsBased'
    <3> DEFINE new == [task[w] EXCEPT !.op = op, !.doc = doc]
    <3>1. new \in Task /\ new.op = op /\ new.doc = doc
      BY <1>0 DEF Task
    <3>2. task' = [task EXCEPT ![w] = new]
      BY <2>2 DEF GoOn
    <3> HIDE DEF new
    <3> QED
      BY <1>1, <2>2, <3>1, <3>2
  <2>3. ASSUME NEW d \in Conv,
               task' = [task EXCEPT ![w] = [op |-> "create", conv |-> d, doc |-> Absent,
                                            target |-> None]]
        PROVE  DocsBased'
    <3> DEFINE new == [op |-> "create", conv |-> d, doc |-> Absent, target |-> None]
    <3>1. new \in Task /\ Based(w, new.op, new.doc)
      BY DEF Task, Op, Anyone, Based, FromOpen, Absent, Free, Row, Status
    <3> HIDE DEF new
    <3> QED
      BY <1>1, <2>3, <3>1 DEF new
  <2> QED
    BY <1>3, <2>1, <2>2, <2>3 DEF MovedBy, Unused
<1>4. CASE UNCHANGED task
  BY <1>4 DEF DocsBased, Based
<1>5. CASE Next
  BY <1>2, <1>3, <1>4, <1>5, Steps
<1> QED
  BY <1>4, <1>5 DEF vars

\* The handlers' documents fit them throughout.
LEMMA DocsAlways == Spec => [](IInv /\ DocsBased)
<1>1. Init => DocsBased
  BY DEF Init, DocsBased, Based, FromOpen, Idle
<1>2. IInv /\ DocsBased /\ [Next]_vars => DocsBased'
  BY DocsStep
<1> QED
  BY <1>1, <1>2, InvInductive, PTL DEF Spec

---------------------------------------------------------------------------
(* What becomes of a row.                                                  *)

\* A row that is not stale after a step either keeps its status and agent or
\* becomes what a handler made of it.
LEMMA RowMoves ==
    ASSUME IInv, DocsBased, Next, NEW c \in Conv, c \notin stale'
    PROVE  \/ row'[c].status = row[c].status /\ row'[c].assigned = row[c].assigned
           \/ \E w \in Worker : /\ task[w].conv = c
                                /\ Mild(w, task[w].op, row[c], row'[c])
<1>1. ASSUME NoSave
      PROVE  row'[c].status = row[c].status /\ row'[c].assigned = row[c].assigned
  BY <1>1 DEF NoSave
<1>2. ASSUME NEW w \in Worker, task[w].op # "idle", SavedBy(w)
      PROVE  \/ row'[c].status = row[c].status /\ row'[c].assigned = row[c].assigned
             \/ task[w].conv = c /\ Mild(w, task[w].op, row[c], row'[c])
  <2> DEFINE d == task[w].conv
             old == task[w].doc
  <2>1. d \in Conv /\ old \in Row /\ row \in [Conv -> Row]
    BY <1>2, UnderWay DEF IInv, RowsOK
  <2>2. CASE \E a \in Agent : row' = [row EXCEPT ![d].paused = a]
    BY <2>1, <2>2 DEF Row
  <2>3. ASSUME NEW new \in Row, Save(w, new), Mild(w, task[w].op, old, new)
        PROVE  \/ row'[c].status = row[c].status /\ row'[c].assigned = row[c].assigned
               \/ d = c /\ Mild(w, task[w].op, row[c], row'[c])
    <3>1. CASE d # c
      BY <2>1, <2>3, <3>1 DEF Save
    <3>2. CASE d = c
      <4>1. row[c] = old
        BY <2>3, <3>2 DEF Save
      <4>2. row'[c] = Merge(row[c], old, new)
        BY <2>1, <2>3, <3>2 DEF Save
      <4>3. row'[c] = new
        BY <2>1, <4>1, <4>2, MergeOwn
      <4> QED
        BY <2>3, <3>2, <4>1, <4>3
    <3> QED
      BY <3>1, <3>2
  <2> QED
    BY <1>1, <1>2, <2>2, <2>3 DEF SavedBy
<1>3. CASE \E w \in Worker : task[w].op # "idle" /\ SavedBy(w)
  BY <1>2, <1>3
<1>4. CASE \E w \in Worker, d \in Conv, op \in Op, t \in Anyone : BegunBy(w, d, op, t)
  BY <1>4 DEF BegunBy, Load
<1> QED
  BY <1>1, <1>3, <1>4, Steps

\* An attended conversation passes to another agent only by a supervisor's
\* reassignment, as long as no outdated document is saved (HolderKept).
THEOREM InboxHolderKept == Spec => HolderKept
<1> DEFINE Kept == \A c \in Conv :
             /\ row[c].status = "in_progress" /\ row'[c].status = "in_progress"
             /\ row'[c].assigned # row[c].assigned
             => \/ c \in stale'
                \/ \E a \in Supervisor : task[a].op = "reassign" /\ task[a].conv = c
<1>1. IInv /\ DocsBased /\ [Next]_vars => [Kept]_vars
  <2> SUFFICES ASSUME IInv, DocsBased, Next, NEW c \in Conv, c \notin stale',
                      row[c].status = "in_progress", row'[c].status = "in_progress",
                      row'[c].assigned # row[c].assigned
               PROVE  \E a \in Supervisor : task[a].op = "reassign" /\ task[a].conv = c
    OBVIOUS
  <2>1. PICK w \in Worker : task[w].conv = c /\ Mild(w, task[w].op, row[c], row'[c])
    BY RowMoves
  <2>2. c \notin stale
    BY Steps DEF BegunBy, Load, SavedBy, NoSave, Save
  <2>3. row[c].assigned # None
    BY <2>2 DEF IInv, RowSoundUnlessStale, RowSound
  <2> QED
    BY <2>1, <2>3 DEF Mild
<1> QED
  BY <1>1, DocsAlways, PTL DEF Spec, HolderKept

\* An ended conversation comes back only by a transfer, as long as no outdated
\* document is saved (EndedStaysEnded).
THEOREM InboxEndedStaysEnded == Spec => EndedStaysEnded
<1> DEFINE Kept == \A c \in Conv :
             row[c].status \in Terminal /\ row'[c].status \notin Terminal
             => \/ c \in stale'
                \/ \E a \in Agent : task[a].op = "transfer" /\ task[a].conv = c
<1>1. IInv /\ DocsBased /\ [Next]_vars => [Kept]_vars
  <2> SUFFICES ASSUME IInv, DocsBased, Next, NEW c \in Conv, c \notin stale',
                      row[c].status \in Terminal, row'[c].status \notin Terminal
               PROVE  \E a \in Agent : task[a].op = "transfer" /\ task[a].conv = c
    OBVIOUS
  <2>1. PICK w \in Worker : task[w].conv = c /\ Mild(w, task[w].op, row[c], row'[c])
    BY RowMoves
  <2> QED
    BY <2>1 DEF Mild
<1> QED
  BY <1>1, DocsAlways, PTL DEF Spec, EndedStaysEnded

---------------------------------------------------------------------------
(* One open row of a contact.                                              *)

\* A message that is about to open a row found every open row of its contact
\* opened outside its chain since; nobody else is about to create that row, and
\* any other handler has a row that exists.
RowKnown(w) ==
    LET c == task[w].conv IN
    /\ task[w].op = "create" =>
         /\ w \in Contact \cup Agent /\ row[c].status = "absent"
         /\ w \in Contact => ContactOf[c] = w /\ OpenRows(w) \subseteq outside
         /\ \A v \in Worker \ {w} : task[v].op = "create" => task[v].conv # c
    /\ task[w].op \notin {"idle", "create"} => row[c].status # "absent"

OpenInv ==
    /\ \A w \in Worker : RowKnown(w)
    /\ \A k \in Contact : \A c, d \in OpenRows(k) : c # d => c \in outside \/ d \in outside

\* How the status of a row changes: it never disappears, and without a trace
\* only the message that found nothing open opens it.
LEMMA StatusMoves ==
    ASSUME IInv, DocsBased, OpenInv, NEW w \in Worker, task[w].op # "idle", SavedBy(w)
    PROVE  /\ outside \subseteq outside'
           /\ \A c \in Conv :
                /\ row[c].status # "absent" => row'[c].status # "absent"
                /\ row'[c].status \in Open /\ row[c].status \notin Open /\ c \notin outside'
                     => task[w].op = "create" /\ task[w].conv = c /\ w \in Contact
                /\ row[c].status = "absent" /\ row'[c].status # "absent"
                     => task[w].op = "create" /\ task[w].conv = c
                /\ task[w].op = "create" /\ task[w].conv = c => row'[c].status # "absent"
<1> DEFINE e == task[w].conv
           old == task[w].doc
           op == task[w].op
<1>1. e \in Conv /\ old \in Row /\ row \in [Conv -> Row]
  BY UnderWay DEF IInv, RowsOK
<1>2. RowKnown(w) /\ Based(w, op, old)
  BY DEF OpenInv, DocsBased
<1>3. CASE NoSave /\ op # "create"
  BY <1>3 DEF NoSave
<1>4. CASE /\ op = "pause"
           /\ \E a \in Agent : row' = [row EXCEPT ![e].paused = a]
           /\ UNCHANGED <<stale, outside>>
  <2>1. \A c \in Conv : row'[c].status = row[c].status
    BY <1>1, <1>4 DEF Row
  <2> QED
    BY <1>4, <2>1
<1>5. ASSUME NEW new \in Row, Save(w, new), Mild(w, op, old, new)
      PROVE  /\ outside \subseteq outside'
             /\ \A c \in Conv :
                  /\ row[c].status # "absent" => row'[c].status # "absent"
                  /\ row'[c].status \in Open /\ row[c].status \notin Open /\ c \notin outside'
                       => op = "create" /\ e = c /\ w \in Contact
                  /\ row[c].status = "absent" /\ row'[c].status # "absent"
                       => op = "create" /\ e = c
                  /\ op = "create" /\ e = c => row'[c].status # "absent"
  <2>1. \A c \in Conv \ {e} : row'[c] = row[c]
    BY <1>1, <1>5 DEF Save
  <2>2. row'[e].status = IF new.status # old.status THEN new.status ELSE row[e].status
    BY <1>1, <1>5 DEF Save, Merge
  <2>3. row[e].status \in Status /\ row'[e].status \in Status
    BY <1>1, <1>5, <2>2 DEF Row
  <2>4. (row[e].status \in Terminal \/ (w \in Agent /\ op = "create")) /\ row'[e].status \in Open
          => e \in outside'
    BY <1>5 DEF Save
  <2>9. op = "create" => w \in Contact \cup Agent
    BY <1>2 DEF RowKnown
  <2>5. outside \subseteq outside'
    BY <1>5 DEF Save
  <2>6. row[e].status # "absent" => row'[e].status # "absent"
    BY <1>5, <2>2 DEF Mild
  <2>7. op # "create" => row[e].status # "absent"
    BY <1>2 DEF RowKnown
  <2>8. op = "create" => row'[e].status # "absent"
    BY <1>2, <1>5, <2>2 DEF Mild, Based, Open
  <2> QED
    BY <2>1, <2>3, <2>4, <2>5, <2>6, <2>7, <2>8, <2>9 DEF Status
<1> QED
  BY <1>3, <1>4, <1>5 DEF SavedBy

\* A later step of a handler keeps what is known of rows.
LEMMA GoesOnOpen ==
    ASSUME IInv, DocsBased, OpenInv, NEW w \in Worker, task[w].op # "idle",
           SavedBy(w), MovedBy(w)
    PROVE  OpenInv'
<1> DEFINE op == task[w].op
           e  == task[w].conv
<1>1. task \in [Worker -> Task] /\ e \in Conv
  BY UnderWay DEF IInv, TasksOK
<1>2. \A v \in Worker \ {w} : task'[v] = task[v]
  BY <1>1 DEF MovedBy, Done, GoOn
<1>3. \/ task'[w].op # "create" /\ (task'[w].op # "idle" => task'[w].conv = e)
      \/ /\ op = "leadClose" /\ w \in Agent /\ task'[w].op = "create"
         /\ \E k \in Contact : task'[w].conv \in Unused(k)
  <2>1. CASE Done(w)
    BY <1>1, <2>1 DEF Done, Idle
  <2>2. CASE \E p \in Op \ {"idle", "create"}, doc \in Row : GoOn(w, p, doc)
    BY <1>1, <2>2 DEF GoOn, Task
  <2>3. ASSUME op = "leadClose", w \in Agent, NEW k \in Contact, NEW d \in Unused(k),
               task' = [task EXCEPT ![w] = [op |-> "create", conv |-> d, doc |-> Absent,
                                            target |-> None]]
        PROVE  task'[w].op = "create" /\ task'[w].conv \in Unused(k)
    BY <1>1, <2>3
  <2> QED
    BY <2>1, <2>2, <2>3 DEF MovedBy
<1>4. RowKnown(w)
  BY DEF OpenInv
<1>8. ASSUME task'[w].op = "create"
      PROVE  /\ w \in Agent /\ op = "leadClose" /\ task'[w].conv \in Conv
             /\ row'[task'[w].conv].status = "absent"
             /\ \A v \in Worker \ {w} : task[v].op = "create" => task[v].conv # task'[w].conv
  <2>1. PICK k \in Contact : task'[w].conv \in Unused(k)
    BY <1>3, <1>8
  <2>2. op = "leadClose" /\ w \in Agent
    BY <1>3, <1>8
  <2>3. task'[w].conv \in Conv /\ row[task'[w].conv].status = "absent"
    BY <2>1 DEF Unused
  <2>4. row'[task'[w].conv].status = "absent"
    BY <2>2, <2>3, StatusMoves
  <2> QED
    BY <2>1, <2>2, <2>3, <2>4 DEF Unused
<1>5. ASSUME NEW k \in Contact, NEW c \in OpenRows(k)'
      PROVE  \/ c \in OpenRows(k) \/ c \in outside'
             \/ op = "create" /\ e = c /\ w = k
  <2>1. c \in Conv /\ ContactOf[c] = k /\ row'[c].status \in Open
    BY DEF OpenRows
  <2>2. CASE row[c].status \in Open
    BY <2>1, <2>2 DEF OpenRows
  <2>3. CASE row[c].status \notin Open
    BY <1>4, <2>1, <2>3, StatusMoves DEF RowKnown
  <2> QED
    BY <2>2, <2>3
<1>6. ASSUME NEW k \in Contact, NEW c \in OpenRows(k)', NEW d \in OpenRows(k)', c # d
      PROVE  c \in outside' \/ d \in outside'
  <2>1. outside \subseteq outside'
    BY StatusMoves
  <2>2. CASE c \in OpenRows(k) /\ d \in OpenRows(k)
    BY <1>6, <2>1, <2>2 DEF OpenInv
  <2>3. op = "create" /\ w = k => OpenRows(k) \subseteq outside
    BY <1>4 DEF RowKnown
  <2> QED
    BY <1>5, <1>6, <2>1, <2>2, <2>3
<1>7. ASSUME NEW v \in Worker PROVE RowKnown(v)'
  <2>1. CASE v = w
    <3>1. row'[e].status # "absent"
      BY <1>1, <1>4, StatusMoves DEF RowKnown
    <3>2. CASE task'[w].op # "create"
      BY <1>3, <2>1, <3>1, <3>2 DEF RowKnown
    <3>3. CASE task'[w].op = "create"
      <4>1. w \notin Contact
        BY <1>8, <3>3 DEF InboxAssumption
      <4> QED
        BY <1>2, <1>8, <2>1, <3>3, <4>1 DEF RowKnown
    <3> QED
      BY <3>2, <3>3
  <2>2. CASE v # w /\ task[v].op # "idle"
    <3> DEFINE c == task[v].conv
    <3>1. c \in Conv /\ RowKnown(v) /\ task'[v] = task[v]
      BY <1>2, <2>2, UnderWay DEF OpenInv
    <3>2. CASE task[v].op # "create"
      <4>1. row'[c].status # "absent"
        BY <2>2, <3>1, <3>2, StatusMoves DEF RowKnown
      <4> QED
        BY <3>1, <3>2, <4>1 DEF RowKnown
    <3>3. CASE task[v].op = "create"
      <4>1. /\ v \in Contact \cup Agent /\ row[c].status = "absent"
            /\ v \in Contact => ContactOf[c] = v /\ OpenRows(v) \subseteq outside
            /\ \A u \in Worker \ {v} : task[u].op = "create" => task[u].conv # c
        BY <3>1, <3>3 DEF RowKnown
      <4>2. ~(op = "create" /\ e = c)
        BY <2>2, <4>1
      <4>3. row'[c].status = "absent"
        BY <3>1, <4>1, <4>2, StatusMoves
      <4>4. v \in Contact => OpenRows(v)' \subseteq outside'
        BY <1>5, <2>2, <4>1, StatusMoves
      <4>5. \A u \in Worker \ {v} : task'[u].op = "create" => task'[u].conv # c
        BY <1>2, <1>8, <2>2, <3>3, <4>1
      <4> QED
        BY <3>1, <3>3, <4>1, <4>3, <4>4, <4>5 DEF RowKnown
    <3> QED
      BY <3>2, <3>3
  <2>3. CASE v # w /\ task[v].op = "idle"
    BY <1>2, <2>3 DEF RowKnown
  <2> QED
    BY <2>1, <2>2, <2>3
<1> QED
  BY <1>6, <1>7 DEF OpenInv

\* A handler begins with a row that exists, or a message finds nothing open.
LEMMA BeginsOpen ==
    ASSUME IInv, OpenInv, NEW w \in Worker, NEW c \in Conv, NEW op \in Op, NEW t \in Anyone,
           BegunBy(w, c, op, t)
    PROVE  OpenInv'
<1>1. /\ task' = [task EXCEPT ![w] = [op |-> op, conv |-> c, doc |-> row[c], target |-> t]]
      /\ UNCHANGED <<row, outside>>
  BY DEF BegunBy, Load
<1>2. task \in [Worker -> Task]
  BY DEF IInv, TasksOK
<1>3. /\ task'[w].op = op /\ task'[w].conv = c
      /\ \A v \in Worker \ {w} : task'[v] = task[v]
  BY <1>1, <1>2
<1>4. \A k \in Contact : OpenRows(k)' = OpenRows(k)
  BY <1>1 DEF OpenRows
<1>5. ASSUME NEW v \in Worker PROVE RowKnown(v)'
  <2>0. op = "create" => \A u \in Worker : task[u].op = "create" => task[u].conv # c
    BY DEF BegunBy, Unused
  <2>1. CASE v = w
    BY <1>1, <1>3, <1>4, <2>0, <2>1 DEF BegunBy, RowKnown, Unused
  <2>2. CASE v # w
    BY <1>1, <1>3, <1>4, <2>0, <2>2 DEF RowKnown, OpenInv
  <2> QED
    BY <2>1, <2>2
<1> QED
  BY <1>1, <1>4, <1>5 DEF OpenInv

\* Of two open rows of a contact one was opened outside the chain of its
\* messages (OneOpenByMessages; enqueueInboundForContact).
THEOREM InboxOneOpen == Spec => []OneOpenByMessages
<1>1. Init => OpenInv
  <2> SUFFICES ASSUME Init PROVE OpenInv
    OBVIOUS
  <2>1. \A k \in Contact : OpenRows(k) = {}
    BY DEF Init, OpenRows, Absent, Free, Open
  <2> QED
    BY <2>1 DEF Init, OpenInv, RowKnown, Idle
<1>2. IInv /\ DocsBased /\ OpenInv /\ [Next]_vars => OpenInv'
  <2> SUFFICES ASSUME IInv, DocsBased, OpenInv, [Next]_vars PROVE OpenInv'
    OBVIOUS
  <2>1. CASE UNCHANGED <<row, task, outside>>
    BY <2>1 DEF OpenInv, RowKnown, OpenRows
  <2>2. CASE Next
    BY <2>1, <2>2, Steps, GoesOnOpen, BeginsOpen DEF NoSave
  <2> QED
    BY <2>1, <2>2 DEF vars
<1>3. OpenInv => OneOpenByMessages
  <2> SUFFICES ASSUME OpenInv, NEW k \in Contact
               PROVE  Cardinality(OpenRows(k) \ outside) <= 1
    BY DEF OneOpenByMessages
  <2> DEFINE rows == OpenRows(k) \ outside
  <2>1. \A c, d \in rows : c = d
    BY DEF OpenInv
  <2>2. CASE rows = {}
    BY <2>2, FS_EmptySet
  <2>3. ASSUME NEW c \in rows PROVE Cardinality(rows) = 1
    <3>1. rows = {c}
      BY <2>1, <2>3
    <3> QED
      BY <3>1, FS_Singleton
  <2> QED
    BY <2>2, <2>3
<1> QED
  BY <1>1, <1>2, <1>3, DocsAlways, PTL DEF Spec
=============================================================================
