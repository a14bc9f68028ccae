# Radar Chat: a TLA+ model of the attendance core

Radar Chat is a multi-tenant platform for customer attendance: WhatsApp numbers, a
site chat, an inbox shared by a company's agents, tickets, an AI that answers first,
campaigns, a product catalogue paid by PIX, and forwarding of Discord posts to
WhatsApp. It is one Node.js process (or a few on one machine) over MongoDB
(mongoose), Redis and BullMQ queues; WhatsApp is reached through Baileys sockets.
Paths below are relative to `src/` of this repository's checkout (`src/src/...` is the
program, `src/docs/...` its documentation).

What is hard in it is always the same thing in different clothes. JavaScript runs one
callback at a time, so the atomic unit is *the code between two awaits*; but every
handler awaits the database, Redis and the WhatsApp gateway several times, reads a
document first and saves it later, and mongoose saves only the fields that changed,
with a version check only where a whole array is set. Timers start new runs without waiting for the last one. Queued
jobs are repeated when they throw and when their worker dies. The models take these
steps as their actions.

## 1. Inventory

| Component | State | Operations | What makes it correct |
|---|---|---|---|
| WhatsApp socket lock (`utils/wa-session-lock.ts`) | one Redis key per client: the holder's pid, a TTL | acquire, renew, release | at most one socket per client; a dead holder does not block a client for ever |
| WhatsApp sessions (`whatsapp/WhatsAppService.ts`) | maps of sockets, timers, promises; credentials on disk | connect, restart, disconnect, reconnect with back-off, restore at start | one socket and one timer per client; a lost connection comes back or is reported |
| Inbox (`inbox/InboxService.ts`) | conversation documents: status, assigned and suggested agent, pause, times of the last messages | inbound message, triage, queue, assign, reply, transfer, resolve, reassign, pause, SLA scan | status and agents agree; nobody's conversation is taken; one open conversation per contact; no suggestion for an absent agent |
| Agent presence (`inbox/inbox-agent-presence*.ts`) | in-memory registry fed by the panel's sockets, copied between processes | connect, heartbeat, status | an agent who left is noticed |
| WhatsApp fallback of the queue (`inbox/inbox-whatsapp-fallback.service.ts`) | agents tried, times of notices | rotate over agents by WhatsApp | each agent is asked once, then the next |
| Agent commands (`inbox/whatsapp-agent-command.service.ts`) | focus of each agent | `!assumir`, `!pausar`, `!abertos`, ... | as the panel's operations |
| Discord capture (`discord-bot/`) | none that lasts | enqueue a captured post | every matching post becomes a job |
| Queue processing and rules (`queue/QueueProcessorService.ts`, `rules/`, `cache/QueueManager.ts`) | BullMQ jobs; content and dedup keys in Redis | evaluate rules, claim content, fan out | no post twice, none lost |
| Sending and daily limit (`whatsapp/WhatsAppService.ts`, `models/Organization.ts`) | send jobs; the organization's counter and its last reset | wait for the socket, check limit and consent, send, count, mark | the limit holds; a retry does not send again; every job ends |
| Consent (`consent/ConsentService.ts`) | consent of a contact, messages held for it | ask, grant, refuse, opt out, replay | nothing is sent without consent; held messages are sent once |
| Rate limiter, circuit breaker | windows in Redis, failure counts in memory | acquire, record | bounded rate; no call while open |
| Campaigns (`send/CampaignDispatchService.ts`) | scheduled messages with progress per destination | dispatch, cancel | each destination once; a cancelled campaign stops |
| Catalogue orders (`catalog/CatalogSalesService.ts`) | order status, address, freight, proof | create, quote, proof, approve, refuse, notify | no PIX key before the freight; an approved order stays approved; the company hears of a proof |
| AI attendance and wallet (`ai/`) | AI status of a conversation, credits | turn, hand over, debit | a promised hand-over happens; the wallet is not overdrawn |
| WebChat and bridge (`webchat/`) | site conversations, bridge to an agent's WhatsApp | queue, accept, bridge, fall back | as the inbox |
| Tickets and public access (`inbox/ticket-*.ts`) | tickets, codes and attempts | resend, verify | attempts are bounded, codes expire |
| Billing and seats (`billing/`, `team/`) | plans, orders, Stripe events | confirm, webhook, expire, invite | a payment is applied once; seats stay within the plan |
| Webhooks, leads, LGPD portal, backup, dashboard, frontend | documents | CRUD | not modelled, see section 13 |

How they interact: a WhatsApp message reaches `InboxService.handleInboundMessage`
through one promise chain per contact; it may call the AI, the catalogue and the
consent service, and answers through the same socket the sending workers use. A
one-minute timer runs the inbox's SLA scan. A Discord post becomes a job of
`message-processing`, whose handler adds jobs to `whatsapp-sending`; these wait for the
session, which the socket lock admits. Campaigns, consent replays and alerts add to the
same queue. `PROJECT.json` lists the hazards of this code with their lines.

## 2. Modules

| Module | Models | Checked by |
|---|---|---|
| `WaSocketLock` | the lock and the sessions that rely on it, for one client and several processes | `WaSocketLock.cfg` |
| `SocketMutex` | what the lock promises: an abstract mutex that may be broken | as a property of `WaSocketLock` |
| `WaSession` | connection, reconnection and disconnection of one client in one process | `WaSession.cfg` |
| `InboxConversation` | the life of conversations | `MCInboxConversation` with its `.cfg` files |
| `OutboundPipeline` | from a Discord post to WhatsApp messages, with the daily limit | `MCOutboundPipeline` with its `.cfg` files |
| `Consent` | the consent of one contact and the messages held for it | `MCConsent.cfg` |
| `HeldMessages` | what `Consent` promises of the messages: an abstract queue | as a property of `Consent` |
| `CatalogOrder` | orders of one conversation, from the choice to the approval | `MCCatalogOrder` with its `.cfg` files |
| `Billing` | the plan and the credits of one organization, and Stripe | `MCBilling.cfg` |
| `WaSocketLockProofs`, `InboxConversationProofs`, `InboxHistoryProofs`, `OutboundPipelineProofs`, `ConsentProofs`, `CatalogOrderProofs`, `WaSessionProofs`, `BillingProofs` | theorems about the module they are named after, or a part of it | |

How they fit together: `WaSocketLock` is between processes what `WaSession` is inside
one (there the lock is reentrant, so `WaSession` leaves it out); what `WaSession` calls `stray`, an attempt
that the maps forgot, is `loose` in `WaSocketLock`. `OutboundPipeline` takes the
consent check as a free choice of outcome, and `Consent` says which outcomes there are
and when they change. `InboxConversation` has the conversations, `CatalogOrder` the orders the
same inbound handler serves. `Billing` sets the plan whose daily limit `OutboundPipeline` counts
against.

The plan for what is left, in this order:

1. `InboxFallback` with `AgentPresence`: the rotation over agents by WhatsApp.
2. The debit of the AI wallet and the seats of a team, in `Billing`.
3. `CampaignDispatch`, `WebChat`, `TicketOtp`. Of campaigns one thing must be settled
   first: progress is written by assigning a Mixed field the object it already holds
   (`send/CampaignDispatchService.ts`), and whether mongoose then saves it decides what a
   restart finds.

## 3. WaSocketLock

`lock` and `ttl` are the Redis key; every Redis command is an action, because the
commands of two processes interleave. A process has up to three things at once:
`attempt[p]`, where it is in `createWhatsAppSession` (`get`, `del`, `setnx`, `reget` in
`acquireWaSocketLock`, `renewGet`, `renewSet` in the renewal it ends with, then
`connecting`); an open session (`session`), with the 30 s keep-alive in `due` and
`renewing`; and `release[p]`, a `releaseWaSocketLock` between its two commands, which
nothing else waits for. `loose` are the sockets the maps do not know:
`abortClientConnection` (`WhatsAppService.ts:1901-1926`) ends only the socket of the
session, so that an attempt it interrupts lives on, opens later (`LooseOpens`) or ends,
and then its `.catch` aborts whatever there is (`LooseEnds`). `Tick` is 30 seconds:
`LockTtl = 3` is `LOCK_TTL_SEC = 90` and `ConnectTimeout = 4` the 120 s limit of an
attempt, so the bounds are the code's own numbers; the limit of a loose socket is left
open. `Crash` ends a process; its pid then fails `isPidAlive`. `breach` is history: it
records that the key of a process that relies on it, which is one from a granted
`acquire` on or with any socket, expired, was deleted or was overwritten. Whoever deletes it
counts, the process itself included.

* `ExclusiveUnlessBreached` (checked, proved): without a breach at most one process has
  a socket. The guards of the protocol are right; what breaks exclusion is exactly the
  expiry, the pairs of a read and a write, and a release under the process's own socket.
* `ImplementsMutex` (checked, proved): under the mapping `open` = the processes with a socket,
  `broken` = a breach has happened, every behaviour of the lock is one of `SocketMutex`: until
  a breach a process connects only while no other has a socket.
* `OrphanReclaimed` (checked under fairness): a key left by a dead process goes to a
  live one or disappears.

Without the exception for breaches exclusion does not hold, although the comment at
`utils/wa-session-lock.ts:70` speaks of an exclusive lock. The key expires after 90 s of
an attempt that may take 120 s, because the keep-alive starts at `open`; two processes that
found the same orphan delete each other's key; and `refreshQr`, `forceQr` or a wait for
the QR code that gives up release the lock while the socket of the interrupted attempt
is still connecting. The two properties say that there is nothing else.

The run has two processes. All kinds of breach occur with two, and the safety part is
proved for every set of processes. A process has one attempt and one release at a time, and all
its loose sockets are one element of `loose`.
Fairness: time passes, an attempt ends (by its time limit at the latest), and the Redis
commands of a keep-alive and of a release are answered. Nothing forces a process to
connect, to abort or to crash.

## 4. InboxConversation

`row` is the collection: status, `assigned`, `suggested` and `paused` (the agent of
`!pausar`) of each conversation. `awaiting` and `quiet` stand for the comparison of
`lastInboundAt`, `lastOutboundAt` and the inactivity limit; `pullable` for a
`suggestedAt` older than the pull timeout. `task[w]` is the handler a worker is in the
middle of: its name, its conversation and *the document it loaded*. A handler is a
`...Load` with the checks it makes on that document and one or more saves; `Save` is
`doc.save()`: `Merge` writes the fields the handler changed into whatever the row has
become. Agents run one request each, contacts one message each (the promise chain), and
each monitor is one run of the SLA scan; two monitors would be two overlapping runs.
An agent may open a conversation from a lead (`LeadLook`, `LeadClose`, `LeadCreate`:
`openConversationFromLead`), which looks for an open conversation and creates one
outside the contact's chain.
`stale` (history) collects the rows that were saved from an outdated document, and
`outside` (history) those that became open outside the chain of their contact's
messages: an ended one came back, or an agent opened it from a lead.

Assumptions: round-robin is on, the WhatsApp fallback is off
(`whatsappFallbackEnabled = false`), one department whose members are `Agent`, and
opening hours and the AI's answers are free choices.

* `RowSoundUnlessStale` (checked, proved): status, agent and suggestion of a row agree
  as long as nobody saved it from an outdated document. The clause on `resolved` admits
  an agent because `resolveConversation` keeps `assignedUserId` for the survey.
* `HolderKept`, `EndedStaysEnded` (checked, proved): without such a save, only a supervisor's
  reassignment takes an attended conversation from its agent, and only a transfer
  reopens an ended one.
* `OneOpenByMessages` (checked, proved): of a contact's open conversations at most one was
  opened by its messages. The look-up and the creation are not atomic; the chain per contact
  is what saves them. It saves only the messages: a lead opened at the same time makes a second
  conversation (`InboxService.ts:5309-5408`), and a transfer brings an ended one back.
* `PriorityReleased` (checked under fairness): a queued conversation is not kept for an
  agent who is not available.

Bounds. The safety run has one conversation, two agents (one a supervisor), one
contact, one monitor and two handlers under way at once (`MaxInFlight`): every
property of this run is about one row, and every pair of handlers meets in it.
`NoneStale` is a constraint: the three properties say nothing of a row once it is
stale, so stale states are checked and not continued. `NoOutsideView` drops
the history `outside`, which none of them reads. The run of two conversations has
one agent and no monitor (`OneAgentView` drops what then makes no difference: no
priority is ever another agent's, and nobody asks how long a client has been silent).
The liveness run has one handler under way and a presence that changes at any time.

Fairness: a handler that began ends (its awaits return), and the scan comes back to
each suggestion that is to be withdrawn. The second is strong fairness, because the
agent's presence may switch it off and on; the scan runs every minute over all queued
conversations with a suggestion. Nothing forces an agent to act or a client to write.

Some things are worth knowing although no property states them; they are the exceptions
the properties above make, and the properties do not catch them. Two agents who assume one queued conversation at the same time both
pass `assignConversation`'s check, and the last save wins (the code has the error 'Conversa em
atendimento por outro agente' for the one who comes later). The scan sends the closing message and
saves the document it loaded before, whatever the client wrote meanwhile. The limit of
simultaneous conversations is looked at only when a *queued* conversation is assumed,
and before the save: a conversation in triage, a reply that claims, a reassignment and
two assignments at once pass it. And the pause of `!pausar` is cleared only by an
assignment or its own expiry, so after a reassignment the expiry takes the
conversation from the new agent.

## 5. OutboundPipeline

`post[p]` is a job of `message-processing` and `job[j]` a job of `whatsapp-sending`,
each with its stage (the await it is at) and its attempts. `claimed` is the content
key, `dedup` the keys of a post and a destination, `used`, `due` and `resets` the
organization's counter, whether a new day has begun for it, and the resets whose save is
under way. `today` counts what WhatsApp took this day; `delivered` what a job sent.
`Standing` gives the outcomes the consent check may have for a destination; it may find
another one each time. `stalled` holds what was under way when a process died: BullMQ
gives it back once, and fails it the second time. `Fault` is one failing call; `MaxFaults` bounds
failing calls, lost connections and crashes, `MaxDays` the changes of day. Redis errors
are not exceptions here: `RedisManager.execute` turns them into `null`, so a failed
`SET NX` reads as "not new" and a failed `EXISTS` as "no".

* `OneJobPerContent` (checked, proved): while its key lives, a content gives each
  destination one job, whatever throws, dies or is retried.
* `CopiesCostAttempts` (checked, proved): a job gives its destination at most as many copies
  as the attempts it began, the one that was lost with a dead worker included, times the sends
  an attempt may make. That a retry does send again, since nothing before the send reads the
  dedup key, is what this bounds. Within an attempt the phases `sending`, `caption`, `merged`,
  `fallback` are the nested `try` blocks of `handleSendMessage`: an image, the rest of its caption, on
  failure the merged text, on failure of that or of the image the fall-back. A send that throws may have been
  taken by WhatsApp (`SendThrows`), so `Sends` is one for a text, two for an image and three for an
  image with a long caption.
* `KeyOnlyWhenDelivered` (checked, proved): a dedup key never hides a message that was
  not sent.
* `PostsSettle` (checked under fairness): every captured post and its jobs end.
* `WithinDailyLimit` (violated, `...Limit.cfg`): three workers check the limit before any
  counts its message, and their increments overwrite each other.

The content key is set before the work it guards, so the second attempt of a post that failed in
between drops it as a duplicate of itself. `OneJobPerContent` is what is gained by that order; the
model has the loss too, and `PostsSettle` counts such a post as ended: no property catches it.

Bounds. The safety run has two posts with one content, one destination, two workers, two
attempts, one fault and two job ids (`NextId` hands them out in order). The
liveness run has a post with an image and a long caption, without a content key (a person's post on a live channel), the
code's three attempts, a limit of one message, a change of day and one fault: two jobs
are all that can arise. `NoHistoryView` drops `today`, which nothing in that run
reads. These runs set `CHECK_DEADLOCK FALSE`: when every post and job has ended the
system stops, as it should. A rule that matches with several others is a destination of
its own per rule; dry runs, event jobs, user tenants, plan expiry and delays are left out, and
so are the extra images that follow a message: one that fails is a call that fails after the send (`JobThrows`).

Fairness: the workers go on with the jobs they have while the process runs. Nothing
is assumed of the connection or of Redis: `ensureClientReady` gives up after 45 s, and
that is why the jobs end.

## 6. CatalogOrder

`row` are the stored orders: status, pause, address, whether a freight was quoted (`fee`), whether
the PIX key was sent, the proofs and the number of proofs the company was told of. `task[w]` is a
handler with the order it loaded: one for each text of the client handled at once (`Client`: a single one
on WhatsApp, by the chain per contact; several in the site chat, whose texts are requests of their own,
`WebChatAiService.ts:343-367`), one for each proof (`handleInboundProof` is not awaited) and one for each
operator. The company's settings are constants, since they do not change on the way:
`DistanceBased` (`useDistanceBasedDelivery`) and `Notify` (`notifyWhatsapp`), both off by default,
`HumanApproval`, and whether the products want an address. Geocoding and quoting are
awaits, so `Freight` is a step of its own; it succeeds or sends the order to a person. The
address is what `deliveryAddressV1.status` tells apart, and an address the AI collected counts as
confirmed while the order waits for its payment (`ensureV1`), which `Confirmed` says. `due` (history) are the orders to be delivered, by the client's choice or for want of one where an
address is required; `early` those of them whose key was sent without a freight, and `astray` those that the
properties except.

* `KeyAfterFreight` (checked, proved): where delivery is paid by distance and the client's texts wait for each
  other, the key of an order that is delivered goes out after its freight,
  except when an operator sent the order back or wrote the address, a document was
  outdated, or the client chose delivery while the order waited for its payment with part of an address.
  The last exception is real: an
  address collected by the AI whose quote failed, then "retirada", then "entrega" leaves the order
  waiting for its payment with an address that counts as complete
  (`CatalogSalesService.ts:708-724`), and "manda o pix" sends the key without a freight.
* `KeyNeverBeforeFreight` (violated, `MCCatalogOrderKey.cfg`): the same without the setting and the
  exceptions, which is what `docs/CATALOGO-PIX-PEDIDOS.md:66` says ("nunca enviar chave PIX antes do
  frete calculado"). With `useDistanceBasedDelivery` off (the default, `types/catalog-sales.ts:187`) an order for
  delivery with an address the AI collected is stored as `aguardando_pagamento`
  (`CatalogSalesService.ts:1297`) and no freight is ever calculated; "manda o pix" sends its key
  (`CatalogSalesService.ts:1150`). Four states show it.
* `ApprovalKept` (checked, proved): an approved payment is undone only by an operator or by a handler that
  had loaded the order before the approval. Both exceptions happen; the property does not catch them.
* `ProofNoticed` (checked under fairness): with notices on, an order does not stay at
  `comprovante_recebido`. With `notifyWhatsapp` off, the default, it does: `ProofSave` then goes on
  without a notice (`CatalogSalesService.ts:1924`).
* `OneActivePerProduct` (proved, in `CatalogOrderProofs`): where the texts wait for each other one order
  of a product is active, unless one came back or was saved from an outdated document. The search for an
  active order and the creation of one are apart, and only the chain per contact of WhatsApp
  (`OneTextAtATime`) keeps them together. In the site chat nothing does: two messages sent at once create
  two orders of one product, as the model does with two `Client`s.

Bounds. The run has one order, one client, one proof, an operator with one call and two handlers under
way at once, delivery by distance, notices on, and automatic approval (the most dangerous setting for
`ApprovalKept`); each property is about one order. Fairness: what was begun with a proof is finished;
nothing is assumed of texts and operators. The run of `KeyNeverBeforeFreight` has the
default of delivery, a product that requires an address, and no operator. `DistanceBased` off is in the
theorems, which hold for every setting.

## 7. WaSession

`wa` is a record of the maps of `WhatsAppService` for one client: `session`, `creating` (the promise
in `sessionCreatePromises`), `connecting`, `reconnecting`, `timer` (armed for the n-th
reconnection), `attempts`, `cool` (the time since `lastReconnectAt`), `manual`, and `sock`: each
attempt with its socket, the step its promise is at and who awaits it. They are one record
because one helper, `abortClientConnection`, touches nearly all of them, and `Aborted`,
`Scheduled`, `Failed` compose as the functions of the source call each other. `panel` is
`connectInstance` between its awaits, `scan` the minute scan between its awaits.

* `OneSocketUnlessStray` (checked, proved): two live sockets of a client, which WhatsApp answers with
  code 440, need the maps to have dropped an attempt that goes on or a live socket before. `stray`
  records just that: `abortClientConnection` ends only a socket that reached `open`. The property does not
  catch it; it says that the maps and the promise per client let nothing else through.
* `AttemptedAgain` (checked under fairness): a client without a session whose credentials are stored
  (`creds`) is tried again, by the timer or the scan, unless its user must act or the credentials are
  deleted. Without credentials nobody tries: the scan goes over the directories that hold them
  (`WhatsAppService.ts:2561`), and `forceQr`, a wait for the QR code that gives up, a logout and
  `purgeClientCompletely` delete them. `ScanGo` is `restoreSession`, which takes those of the database or
  throws if they disappeared while it awaited the cache.

Worth knowing: `temporaryDisconnect` leaves an armed timer, which connects the client again; and
`scheduleReconnect` schedules nothing within 15 s of the last time
(`WhatsAppService.ts:3222`), so that a session which closes that early stays in `sessions` with a
dead socket, and the scan passes it over as connected. `AttemptedAgain` speaks of an empty map
for that reason.

Bounds. `Socket` has two attempts: two are what the property needs, and an attempt that ended gives its
place back. `Abandon = 1` and `SoftAfter = 2` make the eighth attempt the second: after one refused
attempt both ends, another timer and giving up, are reached. Fairness: time passes, the timer or the scan
runs, and an attempt under way goes on, by its time limit at the latest. The phone, the network and the
user owe nothing.

## 8. Consent

`row` is the Destination: status, age of the last prompt, the held messages, the count of prompts, the
owner's approvals, the opt-out that awaits its confirmation. `job[m]` is a send with the array it
loaded; `hand` the one handler of the contact's messages, which begins in `handleInboundMessage`, goes
on to the flush or to the Inbox, and carries the document it loaded; `panel` a request of the panel.
`Merge` is a save of changed fields; a save that sets the whole array also needs the version it
loaded and makes other documents out of date (`OutOfDate`). `ReadsAccept` and the
other readings translate the patterns of `types/consent.ts`, with their overlaps: "não quero" is both
a refusal and an abort of the opt-out, "não aceito" reads as an acceptance.

* `HeldOnce` (checked, proved): a held message is in exactly one place, however sends and a flush overlap;
  only a crash may lose or repeat one.
* `ImplementsHeldMessages` (checked, proved): seen as `held` = the stored array, `queue` = what the flush has in
  hand, `taken` and `sent` = the messages whose job is through and those that went out, every behaviour is one
  of `HeldMessages` until a crash: first in, first out, whole batches, each message once. That
  specification has to let a dropped message come back: a refusal unsets the array, which does
  not change the document's version, so a send that read the array before saves it back with its own
  message (`ConsentService.ts:242`). If a renewal is then approved and the contact agrees, the old
  messages go out too.
* `AcceptedByWord` (checked, proved): a contact is `ACCEPTED`, and held messages are replayed, only while
  its last text (`said`, which `Write` sets when the text comes, whatever is made of it) refused nothing: no
  save of a send or of the panel, and none of an older document, accepts on its behalf. It is not said that
  the text agreed: a contact who was never prompted is accepted by any text
  (`acceptInboundInitiated`, called by the handler and by the Inbox), and so is one who refused once or
  twice and writes again. `Destination.grantConsent` (`models/Destination.ts:389`) is left out: nothing in the
  repository calls it.
* `RefusalHeldUnlessUntold` (checked, proved): a refusal stands until the owner or the contact takes it back,
  unless the handler failed after the save. That exception is real: when the answer cannot be
  enqueued, the listener's `catch` (`WhatsAppService.ts:3163`) passes the message on to the
  Inbox, which accepts the contact.
* `AcceptedFlushedUnlessTorn` (checked, proved): after a yes nothing waits, unless a handler was cut short or
  a message was held after the answer. The second exception is real too: the prompt is sent before
  the message is saved as held (`ConsentService.ts:234-242`), and a contact who answers in between leaves
  a message that nobody flushes and that keeps the Inbox away.

`REFUSED_SECOND` and `REFUSED_THREE` are in the model, as in the code, and are never reached: a refused
contact is not asked again, and a renewal goes back to `PENDING`.

Bounds. Two messages are what `HeldOnce` needs; `MaxPending = 2`, one approval and one request of the
panel let each limit be met; one fault or crash, since the exceptions need one. The texts leave out "1": to a pending contact it says what "aceito" says, to an
accepted one what "2" says. `WhatMatters` drops
what no later step reads, and the messages are symmetric.

## 9. Billing

`org` is what the Organization says: plan, months to `planExpiresAt`, subscription. `sale[s]` is a
checkout session with its BillingOrder and what Stripe knows of it. `mail` are Stripe's unanswered
events, in no order; an event stays until a handler answers, may be delivered twice, and its
answer may get lost. `task[w]` is a handler - webhook, return page, checkout or sweep - at one of its
awaits, with the document it loaded. A month passes while no handler is under way. `torn` is history: sales
whose fulfilment overlapped with another or was cut short.

* `PackCreditedOnceUnlessTorn` (checked, proved): the credits of a paid pack are added exactly once. The
  exceptions are the two the code has: webhook and return page may both find the order unpaid
  and both add (`BillingService.ts:731`), and a crash between the order and the credits loses them.
* `PlanEndsUnlessTorn` (checked, proved): a paid plan has an expiry, for `activatePlan` saves the plan before
  the date.
* `RunningPlanKept` (checked, proved): a plan that runs ends only with its own subscription, or by an
  outdated document. The sweep's is one: it saves `free` over a renewal made since it loaded.
* `PaymentSettles` (checked under fairness): a session Stripe took money for is settled, whatever fails on
  the way. For a plan that means its order is paid, which is the last save of an activation; what the activation
  left in the plan is the business of the two properties above, for a document that another handler saves
  meanwhile may still take it away. For a pack it means that the credits were added, unless its
  fulfilment was cut short between the order and the credits or overlapped with another (`torn`): the order
  is marked before the credits are added (`BillingService.ts:750`, `762`), and nothing adds them later.
* `ExpiredPlanEnds` (checked under fairness): an expired plan becomes free or is renewed. A plan without a
  date never expires, so this says nothing of an activation cut short before the date.

Worth knowing: a repeated confirmation of an older sale, or two checkouts opened side by side, lower
`pro` to `starter`, because `onCheckoutSessionCompleted` asks only whether *this* plan is active
(`BillingService.ts:611-620`). The first invoice of a subscription, told after the activation,
gives a second month for one payment. And after a return page that died between the plan and its
date the plan has no expiry if Stripe's own event was answered before.

Bounds. One sale, of any kind, two handlers at once, one month and one fault: each property is about
one sale and the organization, and two handlers of one sale are the hard case. Two sales of different
plans are more than TLC finishes here; the three safety properties are proved for any number. Fairness: a handler that began goes on, Stripe
delivers what was not answered, the sweep comes back every hour; the last two are strong, since other
handlers may hold the workers meanwhile. The changes an administrator makes to a plan, and the paid plan without
a date that `OrganizationService.ensureOrganization` gives to users of an older version, are left out.

## 10. Runs

| Run | Expect | Properties | Distinct states |
|---|---|---|---|
| `WaSocketLock` | pass | `TypeOK`, `ExclusiveUnlessBreached`, `OrphanReclaimed`, `ImplementsMutex` | 203,559 |
| `InboxConversation` | pass | `TypeOK`, `RowSoundUnlessStale`, `HolderKept`, `EndedStaysEnded` | 1,399,208 |
| `InboxConversationTwo` | pass | `OneOpenByMessages` | 424,041 |
| `InboxConversationLive` | pass | `PriorityReleased` | 151,370 |
| `OutboundPipeline` | pass | `TypeOK`, `OneJobPerContent` | 2,160,148 |
| `OutboundPipelineLive` | pass | `CopiesCostAttempts`, `KeyOnlyWhenDelivered`, `PostsSettle` | 122,995 |
| `OutboundPipelineLimit` | violation | `WithinDailyLimit` | 315 |
| `WaSession` | pass | `TypeOK`, `OneSocketUnlessStray`, `AttemptedAgain` | 722,930 |
| `Consent` | pass | `TypeOK`, `HeldOnce`, `AcceptedByWord`, `RefusalHeldUnlessUntold`, `AcceptedFlushedUnlessTorn`, `ImplementsHeldMessages` | 2,682,661 |
| `CatalogOrder` | pass | `TypeOK`, `KeyAfterFreight`, `ApprovalKept`, `ProofNoticed` | 695,906 |
| `CatalogOrderKey` | violation | `KeyNeverBeforeFreight` | 40 |
| `Billing` | pass | `TypeOK`, `PackCreditedOnceUnlessTorn`, `PlanEndsUnlessTorn`, `RunningPlanKept`, `PaymentSettles`, `ExpiredPlanEnds` | 275,842 |

Run one with `tlc -config MCInboxConversation.cfg MCInboxConversation.tla`; `WaSocketLock.cfg` and
`WaSession.cfg` run their module itself. Every property of a passing run has a
mutant: an operator next to the one it alters, marked "Mutant", that states a plausible
bug (a dropped guard, an off-by-one, a swapped order) under which TLC finds the property
violated.

## 11. Where the hazards are covered

`PROJECT.json` lists every hazard with its line, and in a note what a property leaves uncovered. In short:
saves that interleave - `RowSoundUnlessStale`, `HolderKept`, `ApprovalKept`, `RunningPlanKept`, `HeldOnce`;
look-up then create - `OneOpenByMessages`, `PackCreditedOnceUnlessTorn`; sends that are repeated -
`CopiesCostAttempts`, `OneJobPerContent`; steps that fail half-way - `AcceptedFlushedUnlessTorn`,
`PlanEndsUnlessTorn`, `PaymentSettles`; locks and time limits - `ExclusiveUnlessBreached`,
`OneSocketUnlessStray`; what must happen in the end - `OrphanReclaimed`, `PriorityReleased`, `PostsSettle`,
`AttemptedAgain`, `ProofNoticed`, `ExpiredPlanEnds`.

A property named `...Unless...` states what the code does achieve, and excepts what it does not. The exceptions
are hazards of their own that the code really meets, and no property catches those: two workers that save one
document (`stale`, `torn`, an outdated `doc`), an attempt the maps forget (`stray`, `breach`), a handler that
dies half-way (`torn`, `untold`). The models contain them all; sections 3 to 9 describe each.

## 12. Proofs

All theorems hold for every value of the constants that satisfies the modules' named
assumptions. `LockAssumption`, `InboxAssumption`, `PipelineAssumption`, `ConsentAssumption`,
`OrderAssumption`, `SessionAssumption` and `BillingAssumption` say that the sets are disjoint where
the code's are, that numbers are naturals, which limit is not below which, and that a company that
requires an address requires it for a delivery. `OneTextAtATime` of `CatalogOrder`, that a single
handler serves the client's texts, which is what `enqueueInboundForContact` does on WhatsApp, is no
assumption but a hypothesis of the two properties that need it.

* `WaSocketLockProofs`: `LockTypeCorrect`, `LockExcludesUnlessBreached` and `LockImplementsMutex`. Exclusion
  is not inductive: it says nothing of a process that is about to connect. The
  strengthening is `GrantedHolds`: without a breach, a process from the renewal on finds its
  own pid under the key, for as long as it has a socket of any kind; two such processes would both be the one pid. It needs that
  `breach` only grows, so that a step into an unbreached state starts in one.
* `InboxConversationProofs`: one inductive invariant `IInv` for `InboxTypeCorrect` and
  `InboxRowsSound`. Its additions say what a handler relies on between its steps: only
  agents run agents' handlers, a reassignment has its target, a suggestion is withdrawn
  from a document that was queued, and `quiet` rows are `awaiting`. The lemma `DocSound` shows that
  each change of a document keeps it sound, `MergeOwn` that a save from the current
  document stores the new one, and `SaveRows` puts them together; each handler is then a few lines.
* `InboxHistoryProofs`: `Steps` sums up every handler's step as a save that is `Mild` and a handler
  that goes on with a document that fits it (`Based`: an agent who claims found nobody, a reply or a
  transfer began with what it needs). `InboxHolderKept` and `InboxEndedStaysEnded` follow for the
  rows that are not stale, the first with `RowSoundUnlessStale`. `InboxOneOpen` needs `RowKnown`: a
  message about to open a row found every open row of its contact brought back or opened from a lead
  since, no other handler is about to create that row, and every other handler has a row that exists.
* `OutboundPipelineProofs`: `PipelineTypeCorrect` from `TypeInv`, whose addition is that
  an unfinished job has attempts left (else its next failure would leave the type);
  `PipelineCopiesCostAttempts` from `CopyInv`, which relates the copies to the attempts
  *and the stage*: before the sends of an attempt the copies are at most those of the failed attempts, and at each
  of its sends as many more as the sends before it; `PipelineKeyOnlyWhenDelivered` from the same; `PipelineOneJobPerContent` from an
  invariant that ties jobs and fan-outs under way to the post that holds the content's key.
* `ConsentProofs`: one inductive invariant (`Inductive`) for all five state and action properties, in four parts. `Kept` has the types
  and `Sound`, what sends, the panel and the contact's handler know of the documents they loaded:
  that a send holds its message only below the limit, and that the array a flush is about to clear is
  the stored one as long as its version is current. `SentSeldom`
  bounds by the faults how often a message is sent, without which the counter would leave its type.
  `Words` adds to the properties about words what is true between the contact's answer and its
  save, and between the save and the flush (`FlushDue`). `OnceAlways` says what `HeldOnce`
  says not only of the stored array but of the array each send is about to store: a save that
  passes the version check makes that one the stored array, and the other sends' arrays are then out of date.
  `Steps` sums up every action as one of eight kinds of step (`Moves`), so that each part is proved
  over kinds, not over actions. `ConsentTyped`, `AcceptedByContact`, `RefusalStands`,
  `AcceptanceFlushes` and `EachMessageOnce` follow. `ConsentHoldsMessages`, that the module implements
  `HeldMessages`, needs one more invariant, `HeldKnown`: what a send with a current version is about to store
  ends with its own message, and what precedes it is the stored array or, when that is empty, only what
  was dropped. `StepRefined` then maps every kind of step to a step of the abstract queue, to a
  stutter or to the breach.
* `CatalogOrderProofs`: the base is `TasksBased`, on which document each handler's step can rest;
  `Steps` sums up every action as a handler that begins or goes on, an order created, a proof without an order
  or a key asked for. `OrdersTyped` is part of this invariant.
  `ApprovalStands` is an action property: each save that undoes an approval is an operator's or one of a
  document older than it. `KeyFollowsFreight` needs `FreightKnown`: an order waits for its payment
  without a freight only while its client's text is at the quote, or after what the
  property excepts. `OneOrderPerProduct` needs `CreatesAlone`: what a text found before it creates an order
  is still true. These two have the hypothesis `OneTextAtATime`. Without it they are false, and a
  model with two such handlers shows it in a few steps: the second text is handled between the other's look
  at the order and its save. That is the site chat.
* `WaSessionProofs`: `Calm` is the invariant behind `OneSocketUp` (`OneSocketUnlessStray`). Unless the
  maps dropped something, an attempt under way is the one in `sessionCreatePromises` and there is no session
  meanwhile, and a socket that is up belongs to an attempt that connects or to the session. The helpers of the model
  (`Cancelled`, `Scheduled`, `Aborted`, ...) are composed as the functions of the code are, and so are the lemmas: one
  for each helper says that it keeps `Good`, the invariant of the maps, and that it raises no socket (`Keeps`). The
  restart after code 515 asks for the other half of `Calm`: an attempt that waits for its replacement
  is at "restart", so that it moves on without being under way when that one resolves. `SessionTyped`
  includes that the count of reconnections stays within the limit.
* `BillingProofs`: `BillingTypeCorrect` from `TypeInv`, which adds that a sale is opened by one
  handler, that nobody is told of a sale that was not opened, and what a handler knows of its
  sale and its document (`Fits`). `BillingPackCreditedOnce` from `PackSound`: an untorn sale is
  fulfilled by one handler, which found it unpaid, and after it marked it paid the credits are
  still to be added. `BillingPlanEnds` needs only `TypeInv` beside itself: `PlanSaved` says what each
  handler does to the plan and its date, `PlanElsewhere` that nothing else touches them. The same two
  lemmas give the action property `BillingRunningPlanKept`.

Every safety property and action property of the passing runs is proved. Only model-checked are the
liveness properties, which need fairness and are out of the prover's reach: `OrphanReclaimed`, `PriorityReleased`,
`PostsSettle`, `AttemptedAgain`, `ProofNoticed`, `PaymentSettles`, `ExpiredPlanEnds`.

## 13. Not modelled

Rendering, routing and validation (`web-dashboard`, `middleware`, the frontend), which are more than half
of the source, keep no state of their own. Leads, birthdays, onboarding, backup and the LGPD portal are
mostly one read and one write. Message texts, templates, the rule language, prices and what the AI
answers are data that the models replace by free choices. Of the modelled components, what is left
out: in the inbox the WhatsApp fallback's rotation, the survey and the close gate's prompts; in the
pipeline dry runs, user tenants and delays; in sessions QR codes and the restore at
start; in consent groups and anonymization; in billing the past-due mark, manual activations, the
enforcement of limits and seats. The remaining components of section 1 are in the plan of section 2;
`PROJECT.json` says for each component and hazard what covers it.
