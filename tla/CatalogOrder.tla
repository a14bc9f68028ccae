---------------------------- MODULE CatalogOrder ----------------------------
(***************************************************************************)
(* Catalogue orders paid by PIX (services/catalog/CatalogSalesService.ts):   *)
(* the orders of one conversation, from the client's choice over address,    *)
(* freight and proof of payment to the operator's decision.                  *)
(*                                                                           *)
(* On WhatsApp the client's texts are handled one after the other (the       *)
(* promise chain of a contact), in the site chat each in a request of its    *)
(* own; a proof is handled without being awaited, and operators act from the *)
(* panel.  All of them load an order, await geocoding, the gateway or other  *)
(* queries, and save what they changed.  The settings of the company, and    *)
(* the product's wish for an address, do not change on the way.              *)
(***************************************************************************)
EXTENDS Naturals, FiniteSets

CONSTANTS
    Order,         \* order documents of the conversation
    Product,       \* the catalogue
    ProductOf,     \* the product of each order document
    Client,        \* texts of the client handled at once: one on WhatsApp
    Proof,         \* media messages of the client, each with its hash
    Operator,      \* panel users
    None,          \* an unset field
    HumanApproval, \* requireHumanApproval
    DistanceBased, \* useDistanceBasedDelivery, off by default
    Notify,        \* notifyWhatsapp, off by default
    AddressRequired,      \* orderRequiresDeliveryAddress of the products
    DeliveryNeedsAddress, \* deliveryFulfillmentNeedsAddress of the products
    MaxInFlight,   \* bound: handlers under way at once
    MaxPanel       \* bound: calls of operators

Worker == Client \cup Proof \cup Operator

ASSUME OrderAssumption ==
    /\ ProductOf \in [Order -> Product]
    /\ None \notin Order
    /\ Client \cap Proof = {} /\ Client \cap Operator = {} /\ Proof \cap Operator = {}
    /\ IsFiniteSet(Proof)
    /\ HumanApproval \in BOOLEAN /\ DistanceBased \in BOOLEAN /\ Notify \in BOOLEAN
    /\ AddressRequired \in BOOLEAN /\ DeliveryNeedsAddress \in BOOLEAN
    /\ DistanceBased \/ AddressRequired => DeliveryNeedsAddress
    /\ MaxInFlight \in Nat \ {0} /\ MaxPanel \in Nat

\* A contact's texts wait for each other (enqueueInboundForContact); nothing
\* makes those of the site chat wait.
OneTextAtATime == \A v, w \in Client : v = w

VARIABLES
    row,     \* the stored orders
    task,    \* the handler each worker is in the middle of
    astray,  \* history: orders saved from a document that was no longer the stored one,
             \* active again after a final status, sent back or given an address by an
             \* operator, or chosen for delivery while they waited for the payment
             \* with part of an address and no freight
    calls,   \* calls of operators so far
    due,     \* history: orders to be delivered: by the client's choice, or for want of one
    early    \* history: orders to be delivered whose key was sent without a freight

vars == <<row, task, calls, astray, due, early>>

\* Mutant: a paid order is still taken for an active one.
ActiveStatusPaid == {"aguardando_endereco", "pendente_humano_endereco", "aguardando_pagamento",
                     "comprovante_recebido", "em_conferencia", "falha_notificacao_whatsapp",
                     "pendente_configuracao_whatsapp", "pagamento_aprovado"}

\* ACTIVE_ORDER_STATUSES
ActiveStatus == {"aguardando_endereco", "pendente_humano_endereco", "aguardando_pagamento",
                 "comprovante_recebido", "em_conferencia", "falha_notificacao_whatsapp",
                 "pendente_configuracao_whatsapp"}
Status == ActiveStatus \cup {"absent", "pagamento_aprovado", "pagamento_recusado",
                             "cancelado", "comprovante_sem_pedido"}
\* deliveryAddressV1.status; "none": empty or partial; "collected": the AI collected
\* one that nobody confirmed.
Address == {"none", "collected", "asking", "confirmed", "review"}

Doc == [status : Status, paused : BOOLEAN, address : Address, fee : BOOLEAN,
        keySent : BOOLEAN, proofs : SUBSET Proof, noticed : Nat]
Fresh(status, address) ==
    [status |-> status, paused |-> FALSE, address |-> address, fee |-> FALSE,
     keySent |-> FALSE, proofs |-> {}, noticed |-> 0]
Absent == Fresh("absent", "none")

At == {"idle", "leave", "cancel", "address", "freight", "quoted", "pickup",
       "delivery", "create", "pin", "proof", "notice", "autoApprove",
       "approve", "reject", "newProof", "resend", "readdress",
       "correct", "recalc", "recalculated"}
Idle == [at |-> "idle", order |-> None, doc |-> Absent, how |-> "none"]
How  == {"none", "pickup", "delivery", "recalc"}

TypeOK ==
    /\ row \in [Order -> Doc]
    /\ task \in [Worker -> [at : At, order : Order \cup {None}, doc : Doc, how : How]]
    /\ calls \in 0..MaxPanel
    /\ astray \subseteq Order /\ due \subseteq Order /\ early \subseteq Order

Init ==
    /\ row = [o \in Order |-> Absent]
    /\ task = [w \in Worker |-> Idle]
    /\ calls = 0 /\ astray = {} /\ due = {} /\ early = {}

---------------------------------------------------------------------------
(* Loading and saving orders.                                              *)

Exists(o) == row[o].status # "absent"
\* findActiveOrderForConversation
Active(o) == row[o].status \in ActiveStatus /\ ~row[o].paused

\* isDeliveryAddressV1Confirmed, with the back-fill of ensureV1.
Confirmed(doc) ==
    doc.address = "confirmed" \/ (doc.address = "collected" /\ doc.status = "aguardando_pagamento")

Begin(w, at, o, how) ==
    /\ task[w] = Idle
    /\ Cardinality({v \in Worker : task[v] # Idle}) < MaxInFlight
    /\ task' = [task EXCEPT ![w] = [at |-> at, order |-> o, how |-> how,
                                    doc |-> IF o = None THEN Absent ELSE row[o]]]
    /\ UNCHANGED <<row, astray, due, early>>

Unquoted(doc) == doc.status = "aguardando_pagamento" /\ ~doc.fee

Doing(w, at) == task[w].at = at
Done(w) == task' = [task EXCEPT ![w] = Idle]
GoOn(w, at, doc) == task' = [task EXCEPT ![w].at = at, ![w].doc = doc]

\* order.save(): the fields that changed, and the proofs that were pushed.
Merge(stored, old, new) ==
    [f \in DOMAIN stored |->
        IF f = "proofs" THEN stored.proofs \cup (new.proofs \ old.proofs)
        ELSE IF new[f] # old[f] THEN new[f] ELSE stored[f]]

Write(o, old, new, odd) ==
    /\ row' = [row EXCEPT ![o] = Merge(@, old, new)]
    /\ astray' = IF \/ odd \/ row[o] # old
                    \/ row[o].status \notin ActiveStatus /\ row'[o].status \in ActiveStatus
                   THEN astray \cup {o} ELSE astray

Save(w, new) == Write(task[w].order, task[w].doc, new, FALSE)
SaveAstray(w, new) == Write(task[w].order, task[w].doc, new, TRUE)

\* A message with the PIX key of order o, whose document is doc, goes out.
KeyShown(o, doc) ==
    early' = IF doc.fee \/ o \notin due THEN early ELSE early \cup {o}

---------------------------------------------------------------------------
(* The client's texts.                                                     *)

\* tryProcessCatalogFlowCommand
CommandLoad(w, o) ==
    /\ Active(o)
    /\ \E at \in {"leave", "cancel"} : Begin(w, at, o, "none")

\* "atendente" and "sair" only pause the order.
Leave(w) ==
    /\ Doing(w, "leave")
    /\ Save(w, [task[w].doc EXCEPT !.paused = TRUE])
    /\ Done(w)
    /\ UNCHANGED <<due, early>>

Cancel(w) ==
    LET new == [task[w].doc EXCEPT !.paused = TRUE, !.status = "cancelado"] IN
    /\ Doing(w, "cancel")
    /\ Save(w, new)
    /\ Done(w)
    /\ UNCHANGED <<due, early>>

\* processIncrementalAddressInput; maybeAttachAddressToOrder goes on with an
\* address that is confirmed already.
AddressLoad(w, o) ==
    /\ Active(o)
    /\ \/ /\ row[o].status \in {"aguardando_endereco", "pendente_humano_endereco"}
          /\ Begin(w, "address", o, "none")
       \/ /\ row[o].status = "aguardando_endereco" /\ Confirmed(row[o])
          /\ Begin(w, "freight", o, "none")

\* Mutant: a status the address does not have.
AfterInputMisspelt(doc) == {[doc EXCEPT !.address = "needs_confirmation"]}

\* processClientInput: what a text makes of the address.
AfterInput(doc) ==
    LET with(a) == [doc EXCEPT !.address = a] IN
    IF doc.address = "asking"
      THEN {with("asking"), with("none")}
             \cup {[with(a) EXCEPT !.fee = FALSE] : a \in {"asking", "none"}}
      ELSE {with("none"), with("asking")}

AddressReply(w) ==
    /\ Doing(w, "address")
    /\ \/ \E new \in AfterInput(task[w].doc) : Save(w, new)
       \/ /\ task[w].doc.address # "asking"
          /\ Save(w, [task[w].doc EXCEPT !.address = "review",
                                         !.status = "pendente_humano_endereco"])
    /\ Done(w)
    /\ UNCHANGED <<due, early>>

AddressYes(w) ==
    LET new == [task[w].doc EXCEPT !.address = "confirmed"] IN
    /\ Doing(w, "address")
    /\ task[w].doc.address = "asking"
    /\ Save(w, new)
    /\ GoOn(w, "freight", new)
    /\ UNCHANGED <<due, early>>

\* Mutant: an address without a quote is sent on to the payment.
FreightUnchecked(w) ==
    LET new == [task[w].doc EXCEPT !.status = "aguardando_pagamento"] IN
    /\ Doing(w, "freight")
    /\ Save(w, new)
    /\ KeyShown(task[w].order, new)
    /\ IF task[w].how = "recalc" THEN GoOn(w, "recalculated", new) ELSE Done(w)
    /\ UNCHANGED due

\* proceedToFreightAfterConfirmedAddress.  Without a distance nothing is quoted
\* and no key is sent here.  sendDeliveryQuoteToCustomer puts
\* delivery_quote_sent into the document and does not save it.
Freight(w) ==
    LET doc == task[w].doc IN
    /\ Doing(w, "freight")
    /\ \/ \E new \in {[doc EXCEPT !.fee = @ \/ DistanceBased,
                                  !.status = "aguardando_pagamento"]} :
          /\ Save(w, new)
          /\ IF DistanceBased THEN KeyShown(task[w].order, new) ELSE UNCHANGED early
          /\ IF task[w].how = "recalc" THEN GoOn(w, "recalculated", new) ELSE Done(w)
       \/ /\ DistanceBased
          /\ Save(w, [doc EXCEPT !.address = "review", !.status = "pendente_humano_endereco"])
          /\ Done(w)
          /\ UNCHANGED early
    /\ UNCHANGED due

\* handleInboundLocation
PinLoad(w, o) ==
    /\ Active(o) /\ row[o].status = "aguardando_endereco"
    /\ Begin(w, "pin", o, "none")

Pin(w) ==
    /\ Doing(w, "pin")
    /\ \E a \in {"none", "asking"} : Save(w, [task[w].doc EXCEPT !.address = a])
    /\ Done(w)
    /\ UNCHANGED <<due, early>>

---------------------------------------------------------------------------
(* An order comes to be.                                                   *)

\* maybeCreateOrderFromAiTurn finds no active order of the product.
Wish(w, o, how) ==
    /\ ~Exists(o)
    /\ ~\E x \in Order : Active(x) /\ ProductOf[x] = ProductOf[o]
    /\ Begin(w, "create", o, how)

\* needsAddress, by what the client chose.
NeedsAddress(how) ==
    \/ how = "delivery" /\ DeliveryNeedsAddress
    \/ how = "none" /\ AddressRequired

\* createOrder.  With an address of the AI the order is stored as waiting for
\* the payment before its freight is known.
Create(w) ==
    LET o == task[w].order  how == task[w].how IN
    /\ Doing(w, "create")
    /\ ~Exists(o)
    /\ \E collected \in BOOLEAN :
         LET doc == Fresh(IF NeedsAddress(how) /\ ~collected THEN "aguardando_endereco"
                                                            ELSE "aguardando_pagamento",
                          IF collected THEN "collected" ELSE "none") IN
         /\ row' = [row EXCEPT ![o] = doc]
         /\ IF collected /\ DistanceBased THEN GoOn(w, "quoted", doc) ELSE Done(w)
    /\ due' = IF how = "delivery" \/ NeedsAddress(how) THEN due \cup {o} ELSE due \ {o}
    /\ UNCHANGED <<astray, early>>

\* The quote for the address the AI collected.
CreateQuoted(w) ==
    LET o == task[w].order  doc == task[w].doc IN
    /\ Doing(w, "quoted")
    /\ \/ LET new == [doc EXCEPT !.fee = TRUE] IN
          /\ Save(w, new)
          /\ KeyShown(o, new)
          /\ Done(w)
       \/ LET new == [doc EXCEPT !.status = "aguardando_endereco"] IN
          /\ Save(w, new)
          /\ Done(w)
          /\ UNCHANGED early
    /\ UNCHANGED due

\* processFulfillmentChoice after its turn has found or created an order.
ChoiceLoad(w, o) ==
    /\ Active(o)
    /\ \E at \in {"pickup", "delivery"} : Begin(w, at, o, "none")

\* preparePickupFulfillmentReply
Pickup(w) ==
    LET o == task[w].order  doc == task[w].doc IN
    /\ Doing(w, "pickup")
    /\ \/ /\ doc.keySent
          /\ UNCHANGED <<row, astray, due>>
       \/ /\ Save(w, [doc EXCEPT !.status = "pendente_configuracao_whatsapp"])
          /\ UNCHANGED due
       \/ /\ Save(w, [doc EXCEPT !.status = "aguardando_pagamento", !.keySent = TRUE])
          /\ due' = due \ {o}
    /\ Done(w)
    /\ UNCHANGED early

\* processFulfillmentChoice of a delivery: an order that waits for the payment goes
\* back to the address only when it has none; where none is needed the key goes out
\* (buildDeliveryPaymentReply).
Delivery(w) ==
    LET o == task[w].order  doc == task[w].doc
        waits == doc.status = "aguardando_pagamento"
    IN
    /\ Doing(w, "delivery")
    /\ IF DeliveryNeedsAddress /\ waits /\ doc.address = "none"
         THEN Save(w, [doc EXCEPT !.status = "aguardando_endereco"])
         ELSE Write(o, row[o], row[o], Unquoted(row[o]))
    /\ due' = due \cup {o}
    /\ early' = IF ~DeliveryNeedsAddress /\ waits /\ doc.address # "none" /\ ~doc.fee
                  THEN early \cup {o} ELSE early
    /\ Done(w)

\* buildPurchaseRecoveryReply: "manda o pix"; recordPixInstructionsSent.
AskKey(w, o) ==
    /\ task[w] = Idle
    /\ Active(o) /\ row[o].status = "aguardando_pagamento"
    /\ Write(o, row[o], [row[o] EXCEPT !.keySent = TRUE], FALSE)
    /\ KeyShown(o, row[o])
    /\ UNCHANGED <<task, due>>

---------------------------------------------------------------------------
(* A proof of payment.                                                     *)

\* handleInboundProof, called without await for every image or document.
ProofLoad(p, o) ==
    /\ Active(o) /\ p \notin row[o].proofs
    /\ Begin(p, "proof", o, "none")

\* createOrphanProofOrder: no order is active, the proof becomes one.
OrphanProof(p, o) ==
    /\ task[p] = Idle
    /\ ~Exists(o)
    /\ ~\E x \in Order : Active(x)
    /\ row' = [row EXCEPT ![o] = [Fresh("comprovante_sem_pedido", "none") EXCEPT !.proofs = {p}]]
    /\ UNCHANGED <<task, astray, due, early>>

\* What follows the notice of a proof.
AfterNotice(w, doc) ==
    IF w \in Proof /\ ~HumanApproval THEN GoOn(w, "autoApprove", doc) ELSE Done(w)

\* Mutant: a notice that fails ends the handler of the proof.
ProofSaveUncaught(p) ==
    LET new == [task[p].doc EXCEPT !.proofs = @ \cup {p}, !.status = "comprovante_recebido"] IN
    /\ Doing(p, "proof")
    /\ Save(p, new)
    /\ IF Notify THEN GoOn(p, "notice", new) \/ Done(p) ELSE AfterNotice(p, new)
    /\ UNCHANGED <<due, early>>

ProofSave(p) ==
    LET new == [task[p].doc EXCEPT !.proofs = @ \cup {p}, !.status = "comprovante_recebido"] IN
    /\ Doing(p, "proof")
    /\ Save(p, new)
    /\ IF Notify THEN GoOn(p, "notice", new) ELSE AfterNotice(p, new)
    /\ UNCHANGED <<due, early>>

\* notificationDedupKey names this order with this number of proofs.
Noticed(doc) == doc.noticed = Cardinality(doc.proofs)

\* notifyInternalWhatsapp: notices are off, no number is configured, it was sent
\* before, it is sent, or the sending failed.
Notice(w) ==
    LET doc == task[w].doc
        orphan == doc.status = "comprovante_sem_pedido"
        put(new) == Save(w, new) /\ AfterNotice(w, new)
    IN
    /\ task[w].at \in {"notice", "resend"}
    /\ IF ~Notify THEN put(doc) ELSE
         \/ put([doc EXCEPT !.status = IF orphan THEN @ ELSE "pendente_configuracao_whatsapp"])
         \/ /\ w \in Proof /\ Noticed(doc)
            /\ AfterNotice(w, doc)
            /\ UNCHANGED <<row, astray>>
         \/ /\ w \in Operator \/ ~Noticed(doc)
            /\ \/ put([doc EXCEPT !.noticed = Cardinality(doc.proofs),
                                !.status = IF @ \in {"comprovante_recebido",
                                                     "pendente_configuracao_whatsapp",
                                                     "falha_notificacao_whatsapp"}
                                             THEN "em_conferencia" ELSE @])
               \/ put([doc EXCEPT !.status = IF orphan THEN @ ELSE "falha_notificacao_whatsapp"])
    /\ UNCHANGED <<due, early>>

\* requireHumanApproval is off.
AutoApprove(p) ==
    LET new == [task[p].doc EXCEPT !.status = "pagamento_aprovado"] IN
    /\ Doing(p, "autoApprove")
    /\ Save(p, new)
    /\ Done(p)
    /\ UNCHANGED <<due, early>>

---------------------------------------------------------------------------
(* The panel.  getOrderForClient finds an order in whatever status and      *)
(* back-fills its address (ensureV1).                                      *)

Backfilled(doc) == [doc EXCEPT !.address = IF Confirmed(doc) THEN "confirmed" ELSE @]
Final == {"pagamento_aprovado", "cancelado"}

PanelLoad(w, o) ==
    /\ calls < MaxPanel /\ calls' = calls + 1
    /\ Exists(o)
    /\ \/ Begin(w, "reject", o, "none")
       \/ Begin(w, "newProof", o, "none")
       \/ Begin(w, "resend", o, "none")
       \/ Begin(w, "readdress", o, "none")
       \/ Begin(w, "correct", o, "none")
       \/ row[o].status \notin Final /\ Begin(w, "approve", o, "none")
       \/ /\ Confirmed(row[o]) /\ row[o].status # "pagamento_aprovado"
          /\ Begin(w, "recalc", o, "recalc")

\* approvePayment
Approve(w) ==
    LET new == [Backfilled(task[w].doc) EXCEPT !.status = "pagamento_aprovado"] IN
    /\ Doing(w, "approve")
    /\ Save(w, new)
    /\ Done(w)
    /\ UNCHANGED <<due, early>>

\* rejectPayment
Reject(w) ==
    /\ Doing(w, "reject")
    /\ Save(w, [Backfilled(task[w].doc) EXCEPT !.status = "pagamento_recusado"])
    /\ Done(w)
    /\ UNCHANGED <<due, early>>

\* requestNewProof
NewProof(w) ==
    /\ Doing(w, "newProof")
    /\ SaveAstray(w, [Backfilled(task[w].doc) EXCEPT !.status = "aguardando_pagamento"])
    /\ Done(w)
    /\ UNCHANGED <<due, early>>

\* updateOrderDeliveryAddress, confirmOrderDeliveryAddressByOperator: the fee
\* of the address before is kept.
Readdress(w) ==
    /\ Doing(w, "readdress")
    /\ SaveAstray(w, [task[w].doc EXCEPT !.address = "confirmed"])
    /\ Done(w)
    /\ UNCHANGED <<due, early>>

\* requestDeliveryAddressCorrection
Correct(w) ==
    /\ Doing(w, "correct")
    /\ Save(w, [task[w].doc EXCEPT !.status = "aguardando_endereco", !.address = "none"])
    /\ Done(w)
    /\ UNCHANGED <<due, early>>

\* recalculateOrderFreight, on to proceedToFreightAfterConfirmedAddress ...
Recalc(w) ==
    LET new == [task[w].doc EXCEPT !.status = "aguardando_endereco", !.address = "confirmed"] IN
    /\ Doing(w, "recalc")
    /\ Save(w, new)
    /\ GoOn(w, "freight", new)
    /\ UNCHANGED <<due, early>>

\* ... and its own save, which stores the delivery_quote_sent of the document.
Recalculated(w) ==
    /\ Doing(w, "recalculated")
    /\ Save(w, [task[w].doc EXCEPT !.keySent = TRUE])
    /\ Done(w)
    /\ UNCHANGED <<due, early>>

---------------------------------------------------------------------------

ClientLoad(w, o) ==
    /\ \/ CommandLoad(w, o) \/ AddressLoad(w, o) \/ PinLoad(w, o)
       \/ ChoiceLoad(w, o) \/ AskKey(w, o)
       \/ \E how \in {"none", "pickup", "delivery"} : Wish(w, o, how)
    /\ UNCHANGED calls

ClientStep(w) ==
    /\ \/ Leave(w) \/ Cancel(w) \/ AddressReply(w) \/ AddressYes(w) \/ Freight(w) \/ Pin(w)
       \/ Create(w) \/ CreateQuoted(w) \/ Pickup(w) \/ Delivery(w)
    /\ UNCHANGED calls

ProofBegin(p, o) == (ProofLoad(p, o) \/ OrphanProof(p, o)) /\ UNCHANGED calls
ProofStep(p) == (ProofSave(p) \/ Notice(p) \/ AutoApprove(p)) /\ UNCHANGED calls

PanelStep(w) ==
    /\ \/ Approve(w) \/ Reject(w) \/ NewProof(w) \/ Notice(w) \/ Readdress(w)
       \/ Correct(w) \/ Recalc(w) \/ Freight(w) \/ Recalculated(w)
    /\ UNCHANGED calls

Next ==
    \/ \E w \in Client : ClientStep(w) \/ \E o \in Order : ClientLoad(w, o)
    \/ \E p \in Proof : ProofStep(p) \/ \E o \in Order : ProofBegin(p, o)
    \/ \E w \in Operator : PanelStep(w) \/ \E o \in Order : PanelLoad(w, o)

Spec == Init /\ [][Next]_vars

\* The process runs on: what was begun with a proof is finished.
FairSpec == Spec /\ \A p \in Proof : WF_vars(ProofStep(p))

---------------------------------------------------------------------------

\* Where the delivery is paid by the distance and the client's texts wait for
\* each other, the PIX key of an order to be delivered goes out after its
\* freight was quoted, but for an order an operator sent back to the payment or
\* gave an address, one saved from a stale document, and one that waited for
\* the payment with part of an address when its client chose the delivery.
KeyAfterFreight == DistanceBased /\ OneTextAtATime => early \subseteq astray

\* The documented rule: the key of an order whose delivery needs an address is
\* never sent before its freight is calculated.
KeyNeverBeforeFreight == DeliveryNeedsAddress => early = {}

\* An approved payment is undone by an operator or by a document read before
\* the approval, never by a text or a proof that came later.
ApprovalKept ==
    [][\A o \in Order :
         row[o].status = "pagamento_aprovado" /\ row'[o].status # "pagamento_aprovado"
           => \E w \in Worker : /\ task[w].order = o /\ task'[w] # task[w]
                               /\ (w \in Operator \/ task[w].doc # row[o])]_vars

\* Where notices are on, the company hears of a proof: an order does not stay
\* at "received".
ProofNoticed ==
    \A o \in Order : (Notify /\ row[o].status = "comprovante_recebido")
                        ~> row[o].status # "comprovante_recebido"

=============================================================================
