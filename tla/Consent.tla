------------------------------ MODULE Consent ------------------------------
(***************************************************************************)
(* ConsentService: the consent of one WhatsApp contact.  Send jobs read it  *)
(* and hold their message while it is PENDING, the contact's messages are   *)
(* handled one at a time (enqueueInboundForContact) and answer it, and the  *)
(* panel renews, clears or blocks it.  Each loads the Destination, awaits   *)
(* and saves the fields it changed; a save that sets the whole array of     *)
(* held messages also requires and increments the version of the document.  *)
(*                                                                          *)
(* Groups, inactive contacts, the LGPD portal's anonymization and tickets,  *)
(* which see the message first, are left out.                               *)
(***************************************************************************)
EXTENDS Naturals, Sequences, FiniteSets, SequencesExt

CONSTANTS
    Msg,          \* messages to send, one job each
    Text,         \* what the contact may write
    MaxPending,   \* MAX_PENDING_OUTBOUND (3)
    MaxApprovals, \* liberations by the owner (2)
    MaxPanel,     \* bound: decisions of the panel
    MaxFaults     \* bound: crashes and answers that could not be enqueued

ASSUME ConsentAssumption ==
    /\ Text \subseteq {"1", "2", "sair", "parar", "nao quero", "nao aceito",
                       "confirmo", "aceito", "oi"}
    /\ MaxPending \in Nat /\ MaxApprovals \in Nat /\ MaxPanel \in Nat /\ MaxFaults \in Nat
    /\ MaxApprovals <= MaxPending

VARIABLES
    row,      \* the fields of the Destination
    job,      \* the send job of each message, with what it loaded
    hand,     \* the handler of the contact's message
    panel,    \* the request of the panel, with the document it loaded
    renewal,  \* a ConsentRenewalRequest is pending
    hist,     \* history, see Types
    said      \* the contact's last text: none, a refusal of what was asked, another

vars == <<row, job, hand, panel, renewal, hist, said>>

Statuses == {"PENDING", "ACCEPTED", "REFUSED_FIRST", "REFUSED_SECOND",
             "REFUSED_THREE", "MANUALLY_BLOCKED"}
Refusals == {"REFUSED_FIRST", "REFUSED_SECOND", "REFUSED_THREE"}

\* prompted: no prompt (0), one of the last 90 s (1), an older one (2).
Row == [ status: Statuses, prompted: 0..2, held: Seq(Msg),
         count: 0..MaxPending, approvals: 0..MaxApprovals, optOut: BOOLEAN ]

\* word: how the contact's last answer was read; released: the owner has set
\* PENDING since; untold: what follows the save of that refusal failed;
\* dropped: held messages no one is to send; torn: a handler was cut short, a
\* message was held after the contact's answer, or one was held when the
\* contact, seen unprompted, was accepted without an answer.
Types ==
    /\ row \in Row
    /\ job \in [Msg -> [ step: {"waiting", "sending", "asking", "saving",
                                "settling", "done", "failed"},
                         held: Seq(Msg), count: 0..MaxPending,
                         asked: BOOLEAN, fresh: BOOLEAN ]]
    /\ hand \in [ step: {"idle", "answer", "open", "optOut", "thanks",
                         "telling", "flush", "clear", "replay", "inbox",
                         "channel"},
                  text: Text \cup {""}, doc: Row, fresh: BOOLEAN,
                  queue: Seq(Msg), refused: BOOLEAN ]
    /\ panel \in [ op: {"none", "approve", "clear", "block"}, doc: Row ]
    /\ renewal \in BOOLEAN
    /\ hist \in [ word: {"none", "yes", "no"}, released: BOOLEAN,
                  untold: BOOLEAN, torn: BOOLEAN, dropped: SUBSET Msg,
                  sent: [Msg -> 0..MaxFaults + 1], faults: 0..MaxFaults,
                  crashed: BOOLEAN,
                  requests: 0..MaxPanel ]

TypeOK == Types /\ said \in {"none", "text", "no"}

NewRow == [ status |-> "PENDING", prompted |-> 0, held |-> <<>>, count |-> 0,
            approvals |-> 0, optOut |-> FALSE ]
NoJob(step) == [ step |-> step, held |-> <<>>, count |-> 0, asked |-> FALSE,
                 fresh |-> TRUE ]
NoHand == [ step |-> "idle", text |-> "", doc |-> NewRow, fresh |-> TRUE,
            queue |-> <<>>, refused |-> FALSE ]
NoPanel == [op |-> "none", doc |-> NewRow]

Init ==
    /\ row = NewRow
    /\ job = [m \in Msg |-> NoJob("waiting")]
    /\ hand = NoHand
    /\ panel = NoPanel
    /\ renewal = FALSE
    /\ hist = [ word |-> "none", released |-> FALSE, untold |-> FALSE,
                torn |-> FALSE, dropped |-> {}, sent |-> [m \in Msg |-> 0],
                faults |-> 0, crashed |-> FALSE, requests |-> 0 ]
    /\ said = "none"

---------------------------------------------------------------------------
(* How types/consent.ts reads a text.                                      *)

ReadsAccept(text) == text \in {"1", "confirmo", "aceito", "nao aceito"}
ReadsRefuse(text) == text \in {"2", "nao quero"}
OptOutRequest(text) == text \in {"sair", "parar"}
OptOutConfirm(text) == text \in {"sair", "confirmo", "nao quero"}
OptOutAbort(text)   == text \in {"nao quero", "nao aceito"}
Resubscribe(text)   == text = "aceito"

---------------------------------------------------------------------------
(* Documents.                                                              *)

\* A save writes the fields that differ from those loaded.
Merge(stored, doc, new) ==
    [f \in DOMAIN stored |-> IF new[f] = doc[f] THEN stored[f] ELSE new[f]]

\* applyStatus: the fields it sets besides the status.
Applied(doc, status) ==
    CASE status = "ACCEPTED" ->
            [doc EXCEPT !.status = status, !.optOut = FALSE, !.count = 0,
                        !.prompted = 0]
      [] status \in Refusals ->
            [doc EXCEPT !.status = status, !.optOut = FALSE, !.prompted = 0,
                        !.held = <<>>]
      [] OTHER -> [doc EXCEPT !.status = status, !.optOut = FALSE]

NextRefusal(status) ==
    CASE status \in {"PENDING", "ACCEPTED"} -> "REFUSED_FIRST"
      [] status = "REFUSED_FIRST"  -> "REFUSED_SECOND"
      [] status = "REFUSED_SECOND" -> "REFUSED_THREE"
      [] OTHER -> status

\* A save of the array makes every document loaded before it out of date.
OutOfDate(jobs) ==
    [m \in Msg |-> [jobs[m] EXCEPT !.fresh = @ /\ jobs[m].held = <<>>]]

---------------------------------------------------------------------------
(* Send jobs.                                                              *)

Retry(m) ==
    /\ \E step \in {"waiting", "failed"} :
           job' = [job EXCEPT ![m] = NoJob(step)]
    /\ UNCHANGED <<row, hand, panel, renewal, hist, said>>

\* Mutant: no limit of prompts.
MaySendUnlimited(r) == r.status \in {"ACCEPTED", "PENDING"}

MaySend(r) == r.status = "ACCEPTED" \/ (r.status = "PENDING" /\ r.count < MaxPending)

\* assertCanSend, hasValidConsent and what queueOutboundUntilConsent reads.
SendLoad(m) ==
    /\ job[m].step = "waiting"
    /\ MaySend(row)
    /\ job' = [job EXCEPT ![m] =
                 IF row.status = "ACCEPTED" THEN NoJob("sending")
                 ELSE [ step  |-> IF row.prompted = 1 THEN "saving" ELSE "asking",
                        held  |-> Append(row.held, m), count |-> row.count,
                        asked |-> FALSE, fresh |-> TRUE ]]
    /\ UNCHANGED <<row, hand, panel, renewal, hist, said>>

SendRefused(m) ==
    /\ job[m].step = "waiting"
    /\ ~MaySend(row)
    /\ Retry(m)

\* sendConsentRequest, which may throw.
Ask(m) ==
    /\ job[m].step = "asking"
    /\ \/ /\ job' = [job EXCEPT ![m].step = "saving", ![m].asked = TRUE]
          /\ UNCHANGED <<row, hand, panel, renewal, hist, said>>
       \/ Retry(m)

\* Mutant: the save repeats the status that was loaded.
HoldPending(m) ==
    /\ job[m].step = "saving" /\ job[m].fresh
    /\ row' = [row EXCEPT !.held = job[m].held, !.status = "PENDING",
                          !.prompted = IF job[m].asked THEN 1 ELSE @]
    /\ job' = [OutOfDate(job) EXCEPT ![m] = NoJob("settling")]
    /\ hand' = [hand EXCEPT !.fresh = FALSE]
    /\ UNCHANGED <<panel, renewal, hist, said>>

\* The save of queueOutboundUntilConsent, or its VersionError.
Hold(m) ==
    /\ job[m].step = "saving"
    /\ \/ /\ job[m].fresh
          /\ row' = [row EXCEPT
                       !.held = job[m].held,
                       !.prompted = IF job[m].asked THEN 1 ELSE @,
                       !.count = IF job[m].asked THEN job[m].count + 1 ELSE @]
          /\ job' = [OutOfDate(job) EXCEPT ![m] = NoJob("settling")]
          /\ hand' = [hand EXCEPT !.fresh = FALSE]
          /\ hist' = [hist EXCEPT !.torn = @ \/ row.status # "PENDING"]
          /\ UNCHANGED <<panel, renewal, said>>
       \/ ~job[m].fresh /\ Retry(m)

\* The message goes to an accepted contact, or the send throws.
Deliver(m) ==
    /\ job[m].step = "sending"
    /\ \/ /\ job' = [job EXCEPT ![m] = NoJob("settling")]
          /\ hist' = [hist EXCEPT !.sent[m] = @ + 1]
          /\ UNCHANGED <<row, hand, panel, renewal, said>>
       \/ Retry(m)

Settle(m) ==
    /\ job[m].step = "settling"
    /\ job' = [job EXCEPT ![m] = NoJob("done")]
    /\ UNCHANGED <<row, hand, panel, renewal, hist, said>>

---------------------------------------------------------------------------
(* The contact's messages.                                                 *)

At(step) == hand.step = step

\* handleInboundMessage reads the contact.
Write(text) ==
    /\ At("idle")
    /\ hand' = [ NoHand EXCEPT
                   !.text = text, !.doc = row,
                   !.step = CASE row.status = "ACCEPTED" -> "optOut"
                              [] row.status = "PENDING" /\ row.prompted > 0 -> "answer"
                              [] row.status \in {"PENDING", "REFUSED_FIRST", "REFUSED_SECOND"}
                                   /\ row.prompted = 0 -> "open"
                              [] OTHER -> "inbox" ]
    /\ said' = IF row.status = "PENDING" /\ row.prompted > 0 /\ ReadsRefuse(text)
                 THEN "no" ELSE "text"
    /\ UNCHANGED <<row, job, panel, renewal, hist>>

\* On to a step that needs nothing of what was read.
Goto(step) ==
    hand' = IF step = "idle" THEN NoHand
            ELSE [NoHand EXCEPT !.step = step, !.refused = hand.refused]

\* The save of applyStatus(ACCEPTED).
Accept(step) ==
    /\ row' = Merge(row, hand.doc, Applied(hand.doc, "ACCEPTED"))
    /\ hist' = [hist EXCEPT
                  !.word = IF hand.refused THEN @ ELSE "yes",
                  !.untold = @ /\ hand.refused,
                  !.torn = @ \/ (step # "thanks" /\ row.held # <<>>)]
    /\ Goto(step)
    /\ UNCHANGED said

\* The save of applyStatus with a refusal, which drops what is held; an empty
\* array that was never stored is not unset, and keeps what came meanwhile.
Refuse(status) ==
    /\ LET new == Merge(row, hand.doc, Applied(hand.doc, status))
       IN  row' \in {new, [new EXCEPT !.held = <<>>]}
    /\ hist' = [hist EXCEPT !.word = "no", !.released = FALSE, !.untold = FALSE,
                            !.dropped = @ \cup (ToSet(row.held) \ ToSet(row'.held))]
    /\ hand' = [NoHand EXCEPT !.step = "telling", !.refused = TRUE]
    /\ said' = "no"

\* handlePendingConsentReply.
Answer ==
    /\ At("answer")
    /\ \/ ReadsAccept(hand.text) /\ Accept("thanks")
       \/ ReadsRefuse(hand.text) /\ Refuse(NextRefusal("PENDING"))
       \/ /\ ~ReadsAccept(hand.text) /\ ~ReadsRefuse(hand.text)
          /\ Goto("telling")
          /\ UNCHANGED <<row, hist, said>>
    /\ UNCHANGED <<job, panel, renewal>>

\* acceptInboundInitiated of a contact nobody asked.
Open ==
    /\ At("open")
    /\ Accept("inbox")
    /\ UNCHANGED <<job, panel, renewal>>

SetOptOut(value, step) ==
    /\ row' = Merge(row, hand.doc, [hand.doc EXCEPT !.optOut = value])
    /\ Goto(step)
    /\ UNCHANGED <<hist, said>>

\* handleAcceptedInbound; a contact being attended is not asked.
OptOut ==
    /\ At("optOut")
    /\ LET pending == /\ hand.doc.optOut
                      /\ \/ OptOutConfirm(hand.text)
                         \/ OptOutAbort(hand.text)
                         \/ Resubscribe(hand.text)
       IN  \/ SetOptOut(FALSE, "inbox")                       \* attended
           \/ pending /\ OptOutAbort(hand.text) /\ SetOptOut(FALSE, "telling")
           \/ /\ pending /\ ~OptOutAbort(hand.text) /\ OptOutConfirm(hand.text)
              /\ Refuse("REFUSED_FIRST")
           \/ /\ pending /\ ~OptOutAbort(hand.text) /\ ~OptOutConfirm(hand.text)
              /\ SetOptOut(TRUE, "telling")
           \/ ~pending /\ OptOutRequest(hand.text) /\ SetOptOut(TRUE, "telling")
           \/ ~pending /\ ~OptOutRequest(hand.text) /\ SetOptOut(FALSE, "inbox")
    /\ UNCHANGED <<job, panel, renewal>>

\* Mutant: the thanks end the handler.
TellNoMore ==
    /\ At("telling") \/ At("thanks")
    /\ hand' = NoHand
    /\ UNCHANGED <<row, job, panel, renewal, hist, said>>

\* The answer is enqueued.
Tell ==
    /\ \/ At("telling") /\ hand' = NoHand
       \/ At("thanks") /\ Goto("flush")
    /\ UNCHANGED <<row, job, panel, renewal, hist, said>>

\* The history, the webhook or the answer fails: the handler throws, and the
\* listener goes on with the Inbox as if nothing had consumed the message.
TellFails ==
    /\ hist.faults < MaxFaults
    /\ At("telling") \/ At("thanks")
    /\ Goto("inbox")
    /\ hist' = [hist EXCEPT !.faults = @ + 1,
                            !.untold = @ \/ hand.refused,
                            !.torn = TRUE]
    /\ UNCHANGED <<row, job, panel, renewal, said>>

\* flushPendingDeliveries: findById.
FlushLoad ==
    /\ At("flush")
    /\ hand' = IF row.held = <<>> THEN NoHand
               ELSE [hand EXCEPT !.step = "clear", !.doc = row, !.fresh = TRUE]
    /\ UNCHANGED <<row, job, panel, renewal, hist, said>>

\* Mutant: the queue is cleared by an update that checks no version.
FlushClearUnchecked ==
    /\ At("clear")
    /\ row' = [row EXCEPT !.held = <<>>, !.prompted = 0]
    /\ job' = OutOfDate(job)
    /\ hand' = [hand EXCEPT !.step = "replay", !.queue = hand.doc.held]
    /\ UNCHANGED <<panel, renewal, hist, said>>

\* Its save, or the VersionError that ends the handler.
FlushClear ==
    /\ At("clear")
    /\ \/ /\ hand.fresh
          /\ row' = Merge(row, hand.doc, [hand.doc EXCEPT !.held = <<>>, !.prompted = 0])
          /\ job' = OutOfDate(job)
          /\ hand' = [hand EXCEPT !.step = "replay", !.queue = hand.doc.held]
          /\ UNCHANGED hist
       \/ /\ ~hand.fresh
          /\ Goto("inbox")
          /\ hist' = [hist EXCEPT !.torn = TRUE]
          /\ UNCHANGED <<row, job>>
    /\ UNCHANGED <<panel, renewal, said>>

\* Mutant: the replay takes the newest message first.
ReplayNewest ==
    /\ At("replay")
    /\ LET m == Last(hand.queue) IN
           /\ \/ hist' = [hist EXCEPT !.sent[m] = @ + 1]
              \/ hist' = [hist EXCEPT !.dropped = @ \cup {m}]
           /\ hand' = IF Len(hand.queue) = 1 THEN NoHand
                      ELSE [hand EXCEPT !.queue = Front(@)]
    /\ UNCHANGED <<row, job, panel, renewal, said>>

\* replayOutboundJob of the next message; a failure is logged.
Replay ==
    /\ At("replay")
    /\ LET m == Head(hand.queue) IN
           /\ \/ hist' = [hist EXCEPT !.sent[m] = @ + 1]
              \/ hist' = [hist EXCEPT !.dropped = @ \cup {m}]
           /\ hand' = IF Len(hand.queue) = 1 THEN NoHand
                      ELSE [hand EXCEPT !.queue = Tail(@)]
    /\ UNCHANGED <<row, job, panel, renewal, said>>

\* The Inbox loads the contact: it lets the consent's messages alone unless a
\* triage is active, and opens the channel of anybody else.
InboxLoad ==
    /\ At("inbox")
    /\ LET deferred == \/ row.status = "PENDING" /\ row.prompted > 0
                       \/ row.held # <<>>
       IN  \E triage \in BOOLEAN :
             hand' = IF deferred /\ ~triage THEN NoHand
                     ELSE [hand EXCEPT !.step = "channel", !.doc = row]
    /\ UNCHANGED <<row, job, panel, renewal, hist, said>>

\* acceptInboundInitiated.
Channel ==
    /\ At("channel")
    /\ CASE hand.doc.status = "ACCEPTED" ->
              /\ row' = Merge(row, hand.doc, [hand.doc EXCEPT !.optOut = FALSE])
              /\ Goto("idle") /\ UNCHANGED <<hist, said>>
         [] hand.doc.status \in {"MANUALLY_BLOCKED", "REFUSED_THREE"} ->
              Goto("idle") /\ UNCHANGED <<row, hist, said>>
         [] OTHER -> Accept("idle")
    /\ UNCHANGED <<job, panel, renewal>>

---------------------------------------------------------------------------
(* The panel, one request at a time.                                       *)

RequestRenewal ==
    /\ ~renewal
    /\ \/ row.status \in {"REFUSED_FIRST", "REFUSED_SECOND"}
       \/ row.status = "PENDING" /\ row.count >= MaxPending
    /\ renewal' = TRUE
    /\ UNCHANGED <<row, job, hand, panel, hist, said>>

\* The checks of approveRenewal, clearRefusal and manualBlock.
PanelLoad(op) ==
    /\ panel.op = "none"
    /\ CASE op = "approve" -> /\ renewal
                              /\ row.status # "REFUSED_THREE"
                              /\ row.approvals < MaxApprovals
         [] op = "clear"   -> row.status \in {"REFUSED_FIRST", "REFUSED_SECOND"}
         [] op = "block"   -> TRUE
    /\ hist.requests < MaxPanel
    /\ hist' = [hist EXCEPT !.requests = @ + 1]
    /\ panel' = [op |-> op, doc |-> row]
    /\ UNCHANGED <<row, job, hand, renewal, said>>

\* Mutant: an approval accepts for the contact.
DecidedAccepts(op, doc) ==
    Applied(doc, IF op = "block" THEN "MANUALLY_BLOCKED" ELSE "ACCEPTED")

\* What each leaves in the document it loaded.
Decided(op, doc) ==
    CASE op = "approve" -> Applied([doc EXCEPT !.approvals = @ + 1,
                                               !.count = doc.approvals + 1], "PENDING")
      [] op = "clear"   -> Applied([doc EXCEPT !.approvals = 0, !.count = 0], "PENDING")
      [] op = "block"   -> Applied(doc, "MANUALLY_BLOCKED")

\* Their save, and that of an approved request.
PanelSave ==
    /\ panel.op # "none"
    /\ row' = Merge(row, panel.doc, Decided(panel.op, panel.doc))
    /\ renewal' = (renewal /\ panel.op # "approve")
    /\ hist' = [hist EXCEPT !.released = @ \/ (row'.status = "PENDING" /\ row.status # "PENDING")]
    /\ panel' = NoPanel
    /\ UNCHANGED <<job, hand, said>>

---------------------------------------------------------------------------
\* CONSENT_PROMPT_COOLDOWN_MS goes by.
Age ==
    /\ row.prompted = 1
    /\ row' = [row EXCEPT !.prompted = 2]
    /\ UNCHANGED <<job, hand, panel, renewal, hist, said>>

\* The process dies; the jobs it was at run again.
Crash ==
    /\ hist.faults < MaxFaults
    /\ job' = [m \in Msg |-> IF job[m].step \in {"done", "failed"} THEN job[m]
                             ELSE NoJob("waiting")]
    /\ hand' = NoHand
    /\ panel' = NoPanel
    /\ hist' = [hist EXCEPT !.faults = @ + 1, !.crashed = TRUE, !.torn = TRUE]
    /\ UNCHANGED <<row, renewal, said>>

SendStep(m) ==
    \/ SendLoad(m) \/ SendRefused(m) \/ Ask(m) \/ Hold(m) \/ Deliver(m)
    \/ Settle(m)

Next ==
    \/ \E m \in Msg : SendStep(m)
    \/ \E text \in Text : Write(text)
    \/ Answer \/ Open \/ OptOut \/ Tell \/ TellFails
    \/ FlushLoad \/ FlushClear \/ Replay \/ InboxLoad \/ Channel
    \/ RequestRenewal
    \/ \E op \in {"approve", "clear", "block"} : PanelLoad(op)
    \/ PanelSave
    \/ Age \/ Crash

Spec == Init /\ [][Next]_vars

---------------------------------------------------------------------------
Occurrences(m, seq) == Cardinality({i \in DOMAIN seq : seq[i] = m})

\* A held message is in exactly one place: the document, the queue being
\* replayed or the contact's phone, unless it was dropped; a message still to
\* be held is in none.  Two sends that hold at once, or a hold while the queue
\* is flushed, neither lose nor repeat one; only a crash may.
HeldOnce ==
    hist.crashed \/ \A m \in Msg :
        LET places == Occurrences(m, row.held) + Occurrences(m, hand.queue)
                        + hist.sent[m]
        IN  IF job[m].step \in {"settling", "done"}
              THEN places = 1 \/ (places = 0 /\ m \in hist.dropped)
              ELSE places = 0

\* The contact is ACCEPTED, and held messages are replayed, only while the last
\* text of the contact refused nothing, whatever document the panel or a send
\* loaded before: no one else's save accepts on the contact's behalf.  A text
\* of a contact nobody asked is an acceptance whatever it says.
AcceptedByWord ==
    \/ hist.untold
    \/ (row.status = "ACCEPTED" \/ hand.queue # <<>>) => said = "text"

\* A refusal stands until the owner sets PENDING or the contact writes again,
\* as long as its handler went through: the saves of sends and of the panel
\* that loaded the document before it do not undo it.
RefusalHeldUnlessUntold ==
    (hist.word = "no" /\ ~hist.released /\ ~hist.untold)
        => row.status \in Refusals \cup {"MANUALLY_BLOCKED"}

\* Once the contact has accepted and nobody is at it, no message waits, as
\* long as no handler was cut short and nothing was held late: the messages
\* that wait are flushed whole, also those held while a flush goes on.
AcceptedFlushedUnlessTorn ==
    (row.status = "ACCEPTED" /\ hand.step = "idle") => hist.torn \/ row.held = <<>>

\* The messages whose job is through, and those replayed or sent.
Taken == {m \in Msg : job[m].step \in {"settling", "done"}}
Sent  == {m \in Msg : hist.sent[m] > 0}

Messages == INSTANCE HeldMessages WITH held <- row.held, queue <- hand.queue,
                                       taken <- Taken, sent <- Sent,
                                       dropped <- hist.dropped, broken <- hist.crashed

\* Sends, answers and the flush, however their loads and saves interleave, are
\* steps of HeldMessages: held messages go out once and in the order they came,
\* until a crash.
ImplementsHeldMessages == Messages!Spec
=============================================================================
