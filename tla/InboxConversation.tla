------------------------- MODULE InboxConversation -------------------------
(***************************************************************************)
(* The life of Inbox conversations (services/inbox/InboxService.ts): the     *)
(* bot's triage, the queue with its round-robin priority, the agent's hold,  *)
(* and the two ways a conversation ends.                                     *)
(*                                                                           *)
(* A handler loads the conversation's document, awaits other queries and the *)
(* WhatsApp gateway, and then saves it.  Mongoose writes the fields that     *)
(* differ from the loaded document, with no version check, so a save merges  *)
(* into whatever the row has become since.  Every handler is therefore a     *)
(* load and one or more saves, and handlers of agents, of contacts and of    *)
(* the SLA monitor interleave between them.                                  *)
(***************************************************************************)
EXTENDS Naturals, FiniteSets

CONSTANTS
    Agent,        \* panel users who attend
    Supervisor,   \* the owners and administrators among them
    Contact,      \* customers
    Monitor,      \* runs of the SLA scan that may overlap
    Conv,         \* conversation rows
    ContactOf,    \* the contact of each row
    None,         \* an unset field
    Presence,     \* the presences agents have
    PausarEnabled, \* whatsappPausarEnabled: agents may pause the bot
    MaxChats,     \* maxConcurrentChatsPerAgent
    MaxInFlight   \* bound: handlers under way at once

Worker == Agent \cup Contact \cup Monitor

ASSUME InboxAssumption ==
    /\ Supervisor \subseteq Agent
    /\ ContactOf \in [Conv -> Contact]
    /\ None \notin Agent \cup Conv
    /\ Agent \cap Contact = {} /\ Agent \cap Monitor = {} /\ Contact \cap Monitor = {}
    /\ "available" \in Presence /\ Presence \subseteq {"offline", "away", "available"}
    /\ PausarEnabled \in BOOLEAN
    /\ MaxChats \in Nat \ {0}
    /\ MaxInFlight \in Nat \ {0}

VARIABLES
    row,       \* the stored documents
    presence,  \* what the presence registry says of each agent
    pullable,  \* waiting rows whose suggestedAt is older than the pull timeout
    awaiting,  \* rows whose last message is ours (lastInboundAt < lastOutboundAt)
    quiet,     \* awaiting rows whose inactivity limit has passed
    task,      \* the handler each worker is in the middle of
    stale,     \* history: rows saved from a document that was no longer the stored one
    outside    \* history: rows that became open outside the chain of their contact's
               \* messages: an ended one came back, or an agent opened it from a lead

vars == <<row, presence, pullable, awaiting, quiet, task, stale, outside>>

Terminal == {"resolved", "closed"}
Open     == {"bot_triage", "waiting_queue", "in_progress"}
Status   == {"absent"} \cup Open \cup Terminal
Anyone   == Agent \cup {None}

\* A row that is free: nobody attends, is suggested or has paused the bot.
Free(status) == [status |-> status, assigned |-> None, suggested |-> None, paused |-> None]
Absent == Free("absent")

Row == [status : Status, assigned : Anyone, suggested : Anyone,
        paused : Anyone]   \* humanTakeoverUntil is set, by this agent

Op == {"idle", "assign", "assignPause", "pause", "claim", "send", "close", "transfer",
       "resolve", "reassign", "suggest", "create", "record", "route", "queue", "escalate",
       "warn", "release", "unsuggest", "requeue", "resuggest", "leadClose"}
Idle == [op |-> "idle", conv |-> None, doc |-> Absent, target |-> None]

TypeOK ==
    /\ row \in [Conv -> Row]
    /\ presence \in [Agent -> Presence]
    /\ pullable \subseteq Conv
    /\ awaiting \subseteq Conv
    /\ quiet \subseteq awaiting
    /\ task \in [Worker -> [op : Op, conv : Conv \cup {None}, doc : Row, target : Anyone]]
    /\ stale \subseteq Conv
    /\ outside \subseteq Conv

Init ==
    /\ row = [c \in Conv |-> Absent]
    /\ presence = [a \in Agent |-> "available"]
    /\ pullable = {} /\ awaiting = {} /\ quiet = {}
    /\ task = [w \in Worker |-> Idle]
    /\ stale = {} /\ outside = {}

---------------------------------------------------------------------------
(* Loading and saving documents.                                           *)

Chats(a, except) == {c \in Conv \ except : row[c].status = "in_progress" /\ row[c].assigned = a}
AtCapacity(a, except) == Cardinality(Chats(a, except)) >= MaxChats

\* pickNextRoundRobinUser: the agents one of whom is suggested, if any.
Eligible == {a \in Agent : presence[a] = "available" /\ ~AtCapacity(a, {})}
Picks == IF Eligible = {} THEN {None} ELSE Eligible

\* A worker begins a handler with the document as it is stored now.
Load(w, c, op, target) ==
    /\ task[w] = Idle
    /\ Cardinality({v \in Worker : task[v] # Idle}) < MaxInFlight
    /\ task' = [task EXCEPT ![w] = [op |-> op, conv |-> c, doc |-> row[c], target |-> target]]
    /\ UNCHANGED <<row, presence, pullable, awaiting, quiet, stale, outside>>

Doing(w, op) == task[w].op = op

\* doc.save(): only what this handler changed is written.
Merge(stored, old, new) ==
    [status    |-> IF new.status # old.status THEN new.status ELSE stored.status,
     assigned  |-> IF new.assigned # old.assigned THEN new.assigned ELSE stored.assigned,
     suggested |-> IF new.suggested # old.suggested THEN new.suggested ELSE stored.suggested,
     paused    |-> IF new.paused # old.paused THEN new.paused ELSE stored.paused]

\* What the handlers make of the document they hold.
Held(doc, a) == [doc EXCEPT !.status = "in_progress", !.assigned = a, !.suggested = None]
Queued(doc, s) == [doc EXCEPT !.status = "waiting_queue", !.assigned = None, !.suggested = s]
Triaged(doc) == [doc EXCEPT !.status = "bot_triage", !.assigned = None, !.suggested = None]
Closed(doc) == [doc EXCEPT !.status = "closed", !.assigned = None, !.suggested = None]

Save(w, new) ==
    LET c == task[w].conv  old == task[w].doc IN
    /\ row' = [row EXCEPT ![c] = Merge(@, old, new)]
    /\ stale' = IF row[c] # old THEN stale \cup {c} ELSE stale
    /\ outside' = IF /\ row[c].status \in Terminal \/ (w \in Agent /\ task[w].op = "create")
                     /\ row'[c].status \in Open
                    THEN outside \cup {c} ELSE outside

\* Nothing the model keeps of the documents is written.
NoSave == UNCHANGED <<row, stale, outside>>

Done(w) == task' = [task EXCEPT ![w] = Idle]

\* The handler goes on with the document it has in memory.
GoOn(w, op, doc) == task' = [task EXCEPT ![w].op = op, ![w].doc = doc]

\* A message of ours restarts the wait for the client; suggestedAt is set anew.
WeSpoke(c)   == awaiting' = awaiting \cup {c} /\ quiet' = quiet \ {c}
TheySpoke(c) == awaiting' = awaiting \ {c} /\ quiet' = quiet \ {c}
Silence      == UNCHANGED <<awaiting, quiet>>
Suggested(c, a) == pullable' = IF a = None THEN pullable ELSE pullable \ {c}

---------------------------------------------------------------------------
(* What agents ask for in the panel and by WhatsApp commands.              *)

\* assertCanTakeQueueConversation: nobody else's priority stands.
MayPull(a, c) ==
    \A s \in {row[c].suggested} \ {None, a} :
        AtCapacity(s, {c}) \/ c \in pullable \/ presence[s] # "available"

\* Taking a conversation, and taking it by !pausar.
Takes == IF PausarEnabled THEN {"assign", "assignPause"} ELSE {"assign"}

\* Mutant: an ended conversation can be taken.
AssignLoadEnded(a, c) ==
    /\ row[c].status \in {"bot_triage", "waiting_queue"} \cup Terminal
    /\ row[c].status = "waiting_queue" =>
         MayPull(a, c) /\ presence[a] # "offline" /\ ~AtCapacity(a, {c})
    /\ \E op \in Takes : Load(a, c, op, None)

\* assignConversation, alone or as the first half of !pausar.  The limit and
\* the presence are looked at only for a queued conversation.
AssignLoad(a, c) ==
    /\ row[c].status \in {"bot_triage", "waiting_queue"}
    /\ row[c].status = "waiting_queue" =>
         MayPull(a, c) /\ presence[a] # "offline" /\ ~AtCapacity(a, {c})
    /\ \E op \in Takes : Load(a, c, op, None)

\* Taking a conversation ends a pause that the document still shows.
AssignSave(a) ==
    LET new == [Held(task[a].doc, a) EXCEPT !.paused = None] IN
    /\ \/ Doing(a, "assign") /\ Done(a)
       \/ Doing(a, "assignPause") /\ GoOn(a, "pause", new)
    /\ Save(a, new)
    /\ UNCHANGED <<presence, pullable>> /\ Silence

\* !pausar of a conversation the agent already attends.
PauseLoad(a, c) ==
    /\ PausarEnabled
    /\ row[c].status = "in_progress"
    /\ row[c].assigned = a
    /\ Load(a, c, "pause", None)

\* applyTemporaryHumanTakeover: an update by id, whoever attends by now.
Pause(a) ==
    /\ Doing(a, "pause")
    /\ row' = [row EXCEPT ![task[a].conv].paused = a]
    /\ Done(a)
    /\ UNCHANGED <<presence, pullable, stale, outside>> /\ Silence

\* Mutant: a conversation somebody else attends is claimed too.
ReplyLoadAnyone(a, c) ==
    /\ row[c].status \in Open
    /\ row[c].status = "waiting_queue" => row[c].suggested \in {None, a} /\ row[c].assigned # None
    /\ Load(a, c, IF row[c].assigned = a THEN "send" ELSE "claim", None)

\* replyToConversation: an unheld conversation outside the queue is claimed
\* on the way, a held one must be the agent's own.
ReplyLoad(a, c) ==
    /\ row[c].status \in Open
    /\ row[c].status = "waiting_queue" => row[c].suggested \in {None, a} /\ row[c].assigned # None
    /\ row[c].assigned \in {None, a}
    /\ Load(a, c, IF row[c].assigned = a THEN "send" ELSE "claim", None)

ReplyClaim(a) ==
    LET new == Held(task[a].doc, a) IN
    /\ Doing(a, "claim")
    /\ Save(a, new)
    /\ GoOn(a, "send", new)
    /\ UNCHANGED <<presence, pullable>> /\ Silence

\* The gateway took the message.  A closing shortcut goes on to close.
ReplySent(a) ==
    /\ Doing(a, "send")
    /\ WeSpoke(task[a].conv)
    /\ Done(a) \/ GoOn(a, "close", task[a].doc)
    /\ NoSave /\ UNCHANGED <<presence, pullable>>

\* sendToContact throws: what was saved stays.
ReplyFailed(a) ==
    /\ Doing(a, "send")
    /\ Done(a)
    /\ NoSave /\ UNCHANGED <<presence, pullable>> /\ Silence

\* The load, the assignment and the round-robin of a conversation that goes
\* (back) to the queue; suggestedAt is written anew.
Enqueue(w) ==
    /\ \E s \in Picks :
         /\ Save(w, Queued(task[w].doc, s))
         /\ Suggested(task[w].conv, s)
    /\ Done(w)
    /\ UNCHANGED presence /\ Silence

\* transferConversation looks at the holder, not at the status.
TransferLoad(a, c) ==
    /\ row[c].status # "absent"
    /\ row[c].assigned \in {None, a} \/ a \in Supervisor
    /\ Load(a, c, "transfer", None)

TransferSave(a) == Doing(a, "transfer") /\ Enqueue(a)

ResolveLoad(a, c) ==
    /\ row[c].status # "absent"
    /\ Load(a, c, "resolve", None)

ResolveSave(a) ==
    /\ Doing(a, "resolve")
    /\ Save(a, [task[a].doc EXCEPT !.status = "resolved", !.suggested = None])
    /\ Done(a)
    /\ UNCHANGED <<presence, pullable>> /\ Silence

\* reassignConversation, in its two modes.
ReassignLoad(a, c) ==
    /\ a \in Supervisor
    /\ row[c].status \in Open
    /\ \E target \in Agent, op \in {"reassign", "suggest"} : Load(a, c, op, target)

ReassignSave(a) ==
    /\ \/ /\ Doing(a, "reassign")
          /\ Save(a, Held(task[a].doc, task[a].target))
          /\ UNCHANGED pullable
       \/ /\ Doing(a, "suggest")
          /\ Save(a, Queued(task[a].doc, task[a].target))
          /\ Suggested(task[a].conv, task[a].target)
    /\ Done(a)
    /\ UNCHANGED presence /\ Silence

---------------------------------------------------------------------------
(* What a contact's message does, and what an agent does with a lead.  The *)
(* messages of one contact are handled one after the other                 *)
(* (enqueueInboundForContact); openConversationFromLead stays outside.     *)

OpenRows(k) == {c \in Conv : ContactOf[c] = k /\ row[c].status \in Open}

\* A row that no document has and no handler is about to create.
Unused(k) == {c \in Conv : /\ ContactOf[c] = k /\ row[c].status = "absent"
                           /\ \A w \in Worker : task[w].op = "create" => task[w].conv # c}

\* Nothing is open, or a conversation the bot still has, which is closed first.
\* Of any other one openConversationFromLead goes on to AssignLoad, or throws.
LeadLook(a, k) ==
    \/ \E c \in OpenRows(k) : /\ row[c].status = "bot_triage" /\ row[c].assigned = None
                              /\ Load(a, c, "leadClose", None)
    \/ OpenRows(k) = {} /\ \E c \in Unused(k) : Load(a, c, "create", None)

\* What follows the save of the closed conversation may throw.
LeadClose(a) ==
    LET c == task[a].conv IN
    /\ Doing(a, "leadClose")
    /\ Save(a, Closed(task[a].doc))
    /\ \/ Done(a)
       \/ \E d \in Unused(ContactOf[c]) :
            task' = [task EXCEPT ![a] = [op |-> "create", conv |-> d, doc |-> Absent,
                                         target |-> None]]
    /\ UNCHANGED <<presence, pullable>> /\ Silence

\* createEmployeeLeadConversation: nobody looks again for an open one.
LeadCreate(a) ==
    /\ Doing(a, "create")
    /\ Save(a, Held(task[a].doc, a))
    /\ WeSpoke(task[a].conv)
    /\ Done(a)
    /\ UNCHANGED <<presence, pullable>>

\* Mutant: a conversation is opened for every message.
InboundFindAlwaysNew(k) == \E c \in Unused(k) : Load(k, c, "create", None)

InboundFind(k) ==
    \/ \E c \in OpenRows(k) : Load(k, c, "record", None)
    \/ OpenRows(k) = {} /\ \E c \in Unused(k) : Load(k, c, "create", None)

InboundCreate(k) ==
    LET new == Free("bot_triage") IN
    /\ Doing(k, "create")
    /\ Save(k, new)
    /\ GoOn(k, "record", new)
    /\ UNCHANGED <<presence, pullable>> /\ Silence

\* recordInbound; then the document in memory decides what follows.
InboundRecord(k) ==
    /\ Doing(k, "record")
    /\ TheySpoke(task[k].conv)
    /\ GoOn(k, "route", task[k].doc)
    /\ NoSave /\ UNCHANGED <<presence, pullable>>

\* A greeting for new service takes an unheld queued conversation back to the
\* triage; so does a sector chosen from a recent menu, whoever attends.
InboundReset(k) ==
    LET doc == task[k].doc IN
    /\ Doing(k, "route")
    /\ \/ doc.status = "waiting_queue" /\ doc.assigned = None /\ GoOn(k, "route", Triaged(doc))
       \/ doc.status # "bot_triage" /\ GoOn(k, "queue", Triaged(doc))
    /\ Save(k, Triaged(doc))
    /\ UNCHANGED <<presence, pullable>> /\ Silence

\* In the triage: the bot or the AI answers, or the conversation is queued.
InboundTriage(k) ==
    /\ Doing(k, "route")
    /\ task[k].doc.status = "bot_triage"
    /\ \/ Done(k) /\ WeSpoke(task[k].conv)
       \/ \E op \in {"queue", "escalate"} : GoOn(k, op, task[k].doc) /\ Silence
    /\ NoSave /\ UNCHANGED <<presence, pullable>>

\* Nothing to route: an agent or the queue attends, or it is after hours.
InboundDone(k) ==
    /\ Doing(k, "route")
    /\ Done(k)
    /\ NoSave /\ UNCHANGED <<presence, pullable>> /\ Silence

\* handleTriageReply and routeHumanOnlyFromBotTriage.
InboundQueue(k) == Doing(k, "queue") /\ Enqueue(k)

\* The AI hands the conversation over: the one handler that looks at the
\* stored row again, and only for a conversation that is queued already.
Escalate(w) ==
    /\ Doing(w, "escalate")
    /\ IF row[task[w].conv].status # "waiting_queue"
         THEN Enqueue(w)
         ELSE Done(w) /\ NoSave /\ UNCHANGED <<presence, pullable>> /\ Silence

---------------------------------------------------------------------------
(* The SLA monitor, every minute; one run does not wait for the last.      *)

\* A silent client in the triage or with an agent.
Unattended(c) ==
    \/ row[c].status = "in_progress" /\ row[c].assigned # None
    \/ row[c].status = "bot_triage" /\ row[c].assigned = None

InactivityLoad(m, c) ==
    /\ Unattended(c)
    /\ c \in awaiting
    /\ Load(m, c, IF c \in quiet THEN "close" ELSE "warn", None)

WarnSend(m) ==
    /\ Doing(m, "warn")
    /\ WeSpoke(task[m].conv)
    /\ Done(m)
    /\ NoSave /\ UNCHANGED <<presence, pullable>>

\* Mutant: the holder stays on the closed conversation.
CloseKeepsHolder(w) ==
    /\ Doing(w, "close")
    /\ Save(w, [task[w].doc EXCEPT !.status = "closed", !.suggested = None])
    /\ IF w \in Monitor THEN WeSpoke(task[w].conv) ELSE Silence
    /\ Done(w)
    /\ UNCHANGED <<presence, pullable>>

\* closeConversationForInactivity, automatic (with a closing message) or by
\* an agent's shortcut (without).
Close(w) ==
    /\ Doing(w, "close")
    /\ Save(w, Closed(task[w].doc))
    /\ IF w \in Monitor THEN WeSpoke(task[w].conv) ELSE Silence
    /\ Done(w)
    /\ UNCHANGED <<presence, pullable>>

\* recoverStuckPromisedHandoffs: the AI promised an agent and left it there.
PromiseLoad(m, c) ==
    /\ row[c].status = "bot_triage"
    /\ c \in awaiting
    /\ Load(m, c, "escalate", None)

\* processExpiredHumanTakeovers: the pause of a held conversation is over.
ReleaseLoad(m, c) ==
    /\ row[c].status = "in_progress"
    /\ row[c].paused # None
    /\ Load(m, c, "release", None)

ReleaseSave(m) ==
    /\ Doing(m, "release")
    /\ Save(m, [Triaged(task[m].doc) EXCEPT !.paused = None])
    /\ Done(m)
    /\ UNCHANGED <<presence, pullable>> /\ Silence

\* Mutant: only a suggested agent at capacity loses the priority.
UnsuggestLoadBusyOnly(m, c) ==
    LET s == row[c].suggested IN
    /\ row[c].status = "waiting_queue"
    /\ s # None
    /\ presence[s] = "available" /\ AtCapacity(s, {c})
    /\ Load(m, c, "requeue", None)

\* processOfflineSuggestedPriority, processBusySuggestedPriority.
UnsuggestLoad(m, c) ==
    LET s == row[c].suggested IN
    /\ row[c].status = "waiting_queue"
    /\ s # None
    /\ \/ presence[s] # "available" /\ Load(m, c, "unsuggest", None)
       \/ presence[s] = "available" /\ AtCapacity(s, {c}) /\ Load(m, c, "requeue", None)

UnsuggestSave(m) ==
    LET new == [task[m].doc EXCEPT !.suggested = None] IN
    /\ \/ Doing(m, "unsuggest") /\ Done(m)
       \/ Doing(m, "requeue") /\ GoOn(m, "resuggest", new)
    /\ Save(m, new)
    /\ UNCHANGED <<presence, pullable>> /\ Silence

\* A busy agent's priority passes to the next eligible one, if any.
Resuggest(m) ==
    LET doc == task[m].doc IN
    /\ Doing(m, "resuggest")
    /\ \E s \in Picks :
         /\ Save(m, IF s = None THEN doc ELSE [doc EXCEPT !.assigned = None, !.suggested = s])
         /\ Suggested(task[m].conv, s)
    /\ Done(m)
    /\ UNCHANGED presence /\ Silence

---------------------------------------------------------------------------
(* Time and the agents' presence.                                          *)

PriorityLapses(c) ==
    /\ row[c].suggested # None
    /\ c \notin pullable
    /\ pullable' = pullable \cup {c}
    /\ NoSave /\ UNCHANGED <<presence, task>> /\ Silence

\* Mutant: the limit runs although the client spoke last.
ClientGoesQuietAnyway(c) ==
    /\ row[c].status # "absent" /\ c \notin quiet
    /\ quiet' = quiet \cup {c}
    /\ NoSave /\ UNCHANGED <<presence, pullable, awaiting, task>>

\* The inactivity limit passes after our last message.
ClientGoesQuiet(c) ==
    /\ c \in awaiting \ quiet
    /\ quiet' = quiet \cup {c}
    /\ NoSave /\ UNCHANGED <<presence, pullable, awaiting, task>>

ChangePresence(a) ==
    /\ \E p \in Presence \ {presence[a]} :
         presence' = [presence EXCEPT ![a] = p]
    /\ NoSave /\ UNCHANGED <<pullable, task>> /\ Silence

---------------------------------------------------------------------------
AgentLoad(a) == \E c \in Conv :
    \/ AssignLoad(a, c) \/ PauseLoad(a, c) \/ ReplyLoad(a, c) \/ TransferLoad(a, c)
    \/ ResolveLoad(a, c) \/ ReassignLoad(a, c)

AgentGoesOn(a) ==
    \/ AssignSave(a) \/ Pause(a) \/ ReplyClaim(a) \/ ReplySent(a) \/ ReplyFailed(a)
    \/ TransferSave(a) \/ ResolveSave(a) \/ ReassignSave(a) \/ Close(a)
    \/ LeadClose(a) \/ LeadCreate(a)

ContactGoesOn(k) ==
    \/ InboundCreate(k) \/ InboundRecord(k) \/ InboundReset(k)
    \/ InboundTriage(k) \/ InboundDone(k) \/ InboundQueue(k) \/ Escalate(k)

MonitorLoad(m) == \E c \in Conv :
    InactivityLoad(m, c) \/ PromiseLoad(m, c) \/ ReleaseLoad(m, c) \/ UnsuggestLoad(m, c)

MonitorGoesOn(m) ==
    \/ WarnSend(m) \/ Close(m) \/ Escalate(m) \/ ReleaseSave(m)
    \/ UnsuggestSave(m) \/ Resuggest(m)

Next ==
    \/ \E a \in Agent : AgentLoad(a) \/ AgentGoesOn(a) \/ ChangePresence(a)
    \/ \E k \in Contact : InboundFind(k) \/ ContactGoesOn(k) \/ \E a \in Agent : LeadLook(a, k)
    \/ \E m \in Monitor : MonitorLoad(m) \/ MonitorGoesOn(m)
    \/ \E c \in Conv : PriorityLapses(c) \/ ClientGoesQuiet(c)

Spec == Init /\ [][Next]_vars

\* A handler that began ends, and the SLA scan, every minute, comes back to
\* each suggestion that is to be withdrawn, whatever else it does between.
Fairness ==
    /\ \A a \in Agent : WF_vars(AgentGoesOn(a))
    /\ \A k \in Contact : WF_vars(ContactGoesOn(k))
    /\ \A m \in Monitor : /\ WF_vars(MonitorGoesOn(m))
                          /\ \A c \in Conv : SF_vars(UnsuggestLoad(m, c))

FairSpec == Spec /\ Fairness

---------------------------------------------------------------------------
(* Properties.                                                             *)

\* What the four fields of a row may say together: an attended conversation
\* has its agent and no suggestion, only a queued one has a suggestion, and
\* nobody holds a conversation that is queued, in the triage or closed.
RowSound(c) ==
    LET r == row[c] IN
    /\ r.status = "in_progress" => r.assigned # None
    /\ r.suggested # None => r.status = "waiting_queue"
    /\ r.assigned # None => r.status \in {"in_progress", "resolved"}

\* A row is sound until a handler saves it from an outdated document: no
\* handler, nor any sequence of them, breaks it by itself.
RowSoundUnlessStale == \A c \in Conv \ stale : RowSound(c)

\* Without such a save the agent of an attended conversation is only replaced
\* by a supervisor's reassignment: a pull, a claim or a release of somebody
\* else never does it.
HolderKept ==
    [][\A c \in Conv :
         /\ row[c].status = "in_progress" /\ row'[c].status = "in_progress"
         /\ row'[c].assigned # row[c].assigned
         => \/ c \in stale'
            \/ \E a \in Supervisor : task[a].op = "reassign" /\ task[a].conv = c]_vars

\* Without such a save an ended conversation only comes back by a transfer.
EndedStaysEnded ==
    [][\A c \in Conv :
         row[c].status \in Terminal /\ row'[c].status \notin Terminal
         => \/ c \in stale'
            \/ \E a \in Agent : task[a].op = "transfer" /\ task[a].conv = c]_vars

\* The messages of a contact open one conversation at a time: of two open ones,
\* one had ended and came back, or an agent opened it from a lead.
OneOpenByMessages == \A k \in Contact : Cardinality(OpenRows(k) \ outside) <= 1

\* A queued conversation is not kept for an agent who is not available.
PriorityReleased ==
    \A c \in Conv, a \in Agent :
        LET Kept == /\ row[c].status = "waiting_queue" /\ row[c].suggested = a
                    /\ presence[a] # "available"
        IN Kept ~> ~Kept

===========================================================================
