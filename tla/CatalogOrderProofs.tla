------------------------- MODULE CatalogOrderProofs -------------------------
(***************************************************************************)
(* CatalogOrder keeps its types; an approved payment is not undone by what  *)
(* came later; the key of an order to be delivered follows its freight; a   *)
(* product has one active order, for any orders, proofs and operators.      *)
(***************************************************************************)
EXTENDS CatalogOrder, FiniteSetTheorems, TLAPS

Task == [at : At, order : Order \cup {None}, doc : Doc, how : How]

\* What a handler knows of the order it is busy with.
Based(w, t) ==
    /\ t.at # "idle" => t.order \in Order
    /\ t.at = "create" => w \in Client /\ t.how \in {"none", "pickup", "delivery"}
    /\ t.at = "address" => t.doc.status \in {"aguardando_endereco", "pendente_humano_endereco"}
    /\ w \notin Operator => t.doc.status # "pagamento_aprovado"

TasksBased == \A w \in Worker : Based(w, task[w])

\* Paid by the distance, an order to be delivered waits for its payment without a
\* freight only while it is quoted.
QuotedSoon(o) == \E w \in Client : task[w].at = "quoted" /\ task[w].order = o
FreightKnown ==
    \A o \in Order :
        DistanceBased /\ Unquoted(row[o]) => o \in astray \/ o \notin due \/ QuotedSoon(o)

\* Where the client's texts wait for each other, two orders of a product are
\* active only when one of them came back from a final status or was saved from
\* a stale document: between finding no active order of the product and storing
\* one, neither a proof nor an operator makes another.
OneActivePerProduct ==
    OneTextAtATime =>
        \A o, x \in Order : o # x /\ Active(o) /\ Active(x) /\ ProductOf[o] = ProductOf[x]
                            => {o, x} \cap astray # {}

\* Where texts wait for each other, what was true when one decided to create an
\* order still is.
CreatesAlone == OneTextAtATime =>
    \A w \in Client : task[w].at = "create" =>
        \A x \in Order : Active(x) /\ ProductOf[x] = ProductOf[task[w].order] => x \in astray

---------------------------------------------------------------------------
(* Documents.                                                              *)

\* An order that was just stored is an order.
LEMMA FreshDoc ==
    ASSUME NEW s \in Status, NEW a \in Address
    PROVE  Fresh(s, a) \in Doc
BY DEF Fresh, Doc

\* So is the place of an order that was never created.
LEMMA AbsentDoc == Absent \in Doc /\ Absent.status = "absent"
BY FreshDoc DEF Absent, Fresh, Status, Address

\* The changes of documents the handlers make keep them documents.
LEMMA DocChanged ==
    ASSUME NEW d \in Doc
    PROVE  /\ \A s \in Status : [d EXCEPT !.status = s] \in Doc
           /\ \A b \in BOOLEAN : [d EXCEPT !.paused = b] \in Doc
           /\ \A a \in Address : [d EXCEPT !.address = a] \in Doc
           /\ \A b \in BOOLEAN : [d EXCEPT !.fee = b] \in Doc
           /\ \A b \in BOOLEAN : [d EXCEPT !.keySent = b] \in Doc
           /\ \A b \in BOOLEAN, s \in Status : [d EXCEPT !.paused = b, !.status = s] \in Doc
           /\ \A a \in Address, b \in BOOLEAN : [d EXCEPT !.address = a, !.fee = b] \in Doc
           /\ \A a \in Address, s \in Status : [d EXCEPT !.address = a, !.status = s] \in Doc
           /\ \A a \in Address, s \in Status : [d EXCEPT !.status = s, !.address = a] \in Doc
           /\ \A b \in BOOLEAN, s \in Status : [d EXCEPT !.fee = b, !.status = s] \in Doc
           /\ \A b \in BOOLEAN, s \in Status : [d EXCEPT !.status = s, !.keySent = b] \in Doc
           /\ \A ps \in SUBSET Proof, s \in Status : [d EXCEPT !.proofs = ps, !.status = s] \in Doc
           /\ \A n \in Nat, s \in Status : [d EXCEPT !.noticed = n, !.status = s] \in Doc
<1>1. \A s \in Status : [d EXCEPT !.status = s] \in Doc
  BY Zenon DEF Doc
<1>2. \A b \in BOOLEAN : [d EXCEPT !.paused = b] \in Doc
  BY Zenon DEF Doc
<1>3. \A a \in Address : [d EXCEPT !.address = a] \in Doc
  BY Zenon DEF Doc
<1>4. \A b \in BOOLEAN : [d EXCEPT !.fee = b] \in Doc
  BY Zenon DEF Doc
<1>5. \A b \in BOOLEAN : [d EXCEPT !.keySent = b] \in Doc
  BY Zenon DEF Doc
<1>6. \A b \in BOOLEAN, s \in Status : [d EXCEPT !.paused = b, !.status = s] \in Doc
  BY Zenon DEF Doc
<1>7. \A a \in Address, b \in BOOLEAN : [d EXCEPT !.address = a, !.fee = b] \in Doc
  BY Zenon DEF Doc
<1>8. \A a \in Address, s \in Status : [d EXCEPT !.address = a, !.status = s] \in Doc
  BY Zenon DEF Doc
<1>9. \A a \in Address, s \in Status : [d EXCEPT !.status = s, !.address = a] \in Doc
  BY Zenon DEF Doc
<1>10. \A b \in BOOLEAN, s \in Status : [d EXCEPT !.fee = b, !.status = s] \in Doc
  BY Zenon DEF Doc
<1>11. \A b \in BOOLEAN, s \in Status : [d EXCEPT !.status = s, !.keySent = b] \in Doc
  BY Zenon DEF Doc
<1>12. \A ps \in SUBSET Proof, s \in Status : [d EXCEPT !.proofs = ps, !.status = s] \in Doc
  BY Zenon DEF Doc
<1>13. \A n \in Nat, s \in Status : [d EXCEPT !.noticed = n, !.status = s] \in Doc
  BY Zenon DEF Doc
<1> QED
  BY <1>1, <1>2, <1>3, <1>4, <1>5, <1>6, <1>7, <1>8, <1>9, <1>10, <1>11, <1>12, <1>13

\* A save writes the fields that changed, and the proofs that were pushed.
LEMMA MergeDoc ==
    ASSUME NEW stored \in Doc, NEW old \in Doc, NEW new \in Doc
    PROVE  /\ Merge(stored, old, new) \in Doc
           /\ Merge(stored, old, new).status =
                IF new.status # old.status THEN new.status ELSE stored.status
           /\ Merge(stored, old, new).paused =
                IF new.paused # old.paused THEN new.paused ELSE stored.paused
           /\ Merge(stored, old, new).fee =
                IF new.fee # old.fee THEN new.fee ELSE stored.fee
<1> DEFINE pick(x, y, z) == IF x # y THEN x ELSE z
           m == Merge(stored, old, new)
           ps == stored.proofs \cup (new.proofs \ old.proofs)
<1>0. DOMAIN stored = {"status", "paused", "address", "fee", "keySent", "proofs", "noticed"}
  BY DEF Doc
<1>1. /\ m.status  = pick(new.status, old.status, stored.status)
      /\ m.paused  = pick(new.paused, old.paused, stored.paused)
      /\ m.address = pick(new.address, old.address, stored.address)
      /\ m.fee     = pick(new.fee, old.fee, stored.fee)
      /\ m.keySent = pick(new.keySent, old.keySent, stored.keySent)
      /\ m.proofs  = ps
      /\ m.noticed = pick(new.noticed, old.noticed, stored.noticed)
  BY <1>0 DEF Merge
<1>2. /\ pick(new.status, old.status, stored.status) \in Status
      /\ pick(new.paused, old.paused, stored.paused) \in BOOLEAN
      /\ pick(new.address, old.address, stored.address) \in Address
      /\ pick(new.fee, old.fee, stored.fee) \in BOOLEAN
      /\ pick(new.keySent, old.keySent, stored.keySent) \in BOOLEAN
      /\ pick(new.noticed, old.noticed, stored.noticed) \in Nat
  BY Zenon DEF Doc
<1>3. ps \in SUBSET Proof
  BY DEF Doc
<1>4. m = [f \in DOMAIN stored |-> m[f]] /\ DOMAIN m = DOMAIN stored
  BY DEF Merge
<1> HIDE DEF m, ps, pick
<1>5. m \in Doc
  BY <1>0, <1>1, <1>2, <1>3, <1>4 DEF Doc
<1> QED
  BY <1>1, <1>5 DEF m, pick

\* A handler that saves the stored document has its way.
LEMMA MergeOwn ==
    ASSUME NEW old \in Doc, NEW new \in Doc
    PROVE  Merge(old, old, new).status = new.status /\ Merge(old, old, new).fee = new.fee
BY MergeDoc

\* Proofs are counted.
LEMMA ProofsCounted == ASSUME NEW d \in Doc PROVE Cardinality(d.proofs) \in Nat
<1>1. d.proofs \subseteq Proof
  BY DEF Doc
<1> QED
  BY <1>1, OrderAssumption, FS_Subset, FS_CardinalityType

---------------------------------------------------------------------------
(* What a step of a handler does.                                          *)

IInv == TypeOK /\ TasksBased

\* What is known of a handler under way.
LEMMA UnderWay ==
    ASSUME IInv, NEW w \in Worker, task[w].at # "idle"
    PROVE  /\ task[w] \in Task /\ task[w].doc \in Doc /\ task[w].order \in Order
           /\ row[task[w].order] \in Doc /\ Based(w, task[w])
BY DEF IInv, TypeOK, TasksBased, Based, Task

\* What a handler's save may do: it does not resume a paused order, changes a
\* status only of the order it loaded, and where the delivery is paid by the
\* distance sends one to the payment with its freight, or to be fetched, unless
\* it is an operator's.
Mild(w, old, new, odd) ==
    LET o == task[w].order IN
    /\ old = task[w].doc \/ new.status = old.status
    /\ old.paused => new.paused
    /\ due' \subseteq due \cup {o} /\ due \subseteq due' \cup {o}
    /\ early' \subseteq early \cup {o}
    /\ DistanceBased => early' = early
    /\ DistanceBased /\ ~odd /\ Unquoted(new)
         => o \notin due' \/ (due' = due /\ Unquoted(old) /\ task[w].at # "quoted")

Wrote(w) ==
    \/ UNCHANGED <<row, astray, due, early>> /\ task[w].at # "quoted"
    \/ \E old \in {task[w].doc, row[task[w].order]}, new \in Doc, odd \in BOOLEAN :
         Write(task[w].order, old, new, odd) /\ Mild(w, old, new, odd)

MovedOn(w) ==
    \/ Done(w)
    \/ \E at \in {"freight", "notice", "autoApprove", "recalculated"}, doc \in Doc :
         /\ GoOn(w, at, doc) /\ at # task[w].at
         /\ Based(w, [task[w] EXCEPT !.at = at, !.doc = doc])

GoesOn(w) == task[w].at \notin {"idle", "create"} /\ Wrote(w) /\ MovedOn(w)

\* A save of the order a handler loaded that leaves the choice of the client alone.
LEMMA PlainSave ==
    ASSUME NEW w \in Worker, NEW new \in Doc, NEW odd \in BOOLEAN,
           Write(task[w].order, task[w].doc, new, odd),
           UNCHANGED <<due, early>>, task[w].doc.paused => new.paused,
           DistanceBased /\ ~odd /\ Unquoted(new)
             => Unquoted(task[w].doc) /\ task[w].at # "quoted"
    PROVE  Wrote(w)
BY DEF Wrote, Mild

\* A handler that goes on knows what the next part of it relies on.
LEMMA PlainGoOn ==
    ASSUME IInv, NEW w \in Worker, task[w].at # "idle",
           NEW at \in {"freight", "notice", "autoApprove", "recalculated"}, NEW doc \in Doc,
           GoOn(w, at, doc), at # task[w].at,
           w \notin Operator => doc.status # "pagamento_aprovado"
    PROVE  MovedOn(w)
<1> DEFINE t == [task[w] EXCEPT !.at = at, !.doc = doc]
<1>1. task[w] \in Task /\ task[w].order \in Order
  BY UnderWay
<1>2. t.at = at /\ t.doc = doc /\ t.order = task[w].order
  BY <1>1 DEF Task
<1>3. Based(w, t)
  BY <1>1, <1>2 DEF Based
<1> QED
  BY <1>3 DEF MovedOn

\* The steps that only put the order aside, cancel it or change its address.
LEMMA AddressSteps ==
    ASSUME IInv, NEW w \in Worker, w \notin Operator,
           Leave(w) \/ Cancel(w) \/ AddressReply(w) \/ AddressYes(w) \/ Pin(w)
    PROVE  GoesOn(w)
<1> DEFINE doc == task[w].doc
<1> USE DEF GoesOn, Doing
<1>0. task[w].at # "idle"
  BY DEF Leave, Cancel, AddressReply, AddressYes, Pin
<1>1. doc \in Doc /\ Based(w, task[w])
  BY <1>0, UnderWay
<1>2. doc.paused \in BOOLEAN /\ doc.status \in Status
  BY <1>1 DEF Doc
<1> TRUE \in BOOLEAN /\ FALSE \in BOOLEAN
  OBVIOUS
<1>3. CASE Leave(w)
  <2> DEFINE new == [doc EXCEPT !.paused = TRUE]
  <2>1. new \in Doc
    BY <1>1, DocChanged
  <2>2. /\ new.paused /\ new.status = doc.status /\ new.fee = doc.fee
        /\ Write(task[w].order, doc, new, FALSE) /\ UNCHANGED <<due, early>>
        /\ task[w].at = "leave" /\ Done(w)
    BY <1>1, <1>3 DEF Leave, Save, Doc
  <2> HIDE DEF new
  <2>3. Wrote(w)
    BY <2>1, <2>2, PlainSave DEF Unquoted
  <2> QED
    BY <2>2, <2>3 DEF MovedOn
<1>4. CASE Cancel(w)
  <2> DEFINE new == [doc EXCEPT !.paused = TRUE, !.status = "cancelado"]
  <2>1. new \in Doc
    BY <1>1, DocChanged DEF Status
  <2>2. /\ new.paused /\ new.status = "cancelado"
        /\ Write(task[w].order, doc, new, FALSE) /\ UNCHANGED <<due, early>>
        /\ task[w].at = "cancel" /\ Done(w)
    BY <1>1, <1>4 DEF Cancel, Save, Doc
  <2> HIDE DEF new
  <2>3. Wrote(w)
    BY <2>1, <2>2, PlainSave DEF Unquoted
  <2> QED
    BY <2>2, <2>3 DEF MovedOn
<1>5. CASE AddressReply(w)
  <2>1. PICK new \in Doc : /\ Write(task[w].order, doc, new, FALSE)
                           /\ new.paused = doc.paused
                           /\ new.status # "aguardando_pagamento"
    <3>1. ASSUME NEW new \in AfterInput(doc)
          PROVE  new \in Doc /\ new.paused = doc.paused /\ new.status = doc.status
      <4>1. PICK a \in {"asking", "none"} :
              new = [doc EXCEPT !.address = a] \/ new = [doc EXCEPT !.address = a, !.fee = FALSE]
        BY <3>1 DEF AfterInput
      <4>2. a \in Address
        BY DEF Address
      <4>3. [doc EXCEPT !.address = a] \in Doc /\ [doc EXCEPT !.address = a, !.fee = FALSE] \in Doc
        BY Zenon, <1>1, <4>2, DocChanged
      <4>4. new \in Doc
        BY <4>1, <4>3
      <4> QED
        BY <1>1, <4>1, <4>4 DEF Doc
    <3>2. doc.status # "aguardando_pagamento"
      BY <1>1, <1>5 DEF AddressReply, Based
    <3> DEFINE review == [doc EXCEPT !.address = "review", !.status = "pendente_humano_endereco"]
    <3>3. review \in Doc
      BY <1>1, DocChanged DEF Address, Status, ActiveStatus
    <3>4. review.paused = doc.paused /\ review.status # "aguardando_pagamento"
      BY <1>1 DEF Doc
    <3> QED
      BY <1>5, <3>1, <3>2, <3>3, <3>4 DEF AddressReply, Save
  <2>2. UNCHANGED <<due, early>> /\ task[w].at = "address" /\ Done(w)
    BY <1>5 DEF AddressReply
  <2>3. Wrote(w)
    BY <2>1, <2>2, PlainSave DEF Unquoted
  <2> QED
    BY <2>2, <2>3 DEF MovedOn
<1>6. CASE AddressYes(w)
  <2> DEFINE new == [doc EXCEPT !.address = "confirmed"]
  <2>1. new \in Doc
    BY <1>1, DocChanged DEF Address
  <2>2. /\ new.paused = doc.paused /\ new.status = doc.status /\ new.fee = doc.fee
        /\ Write(task[w].order, doc, new, FALSE) /\ UNCHANGED <<due, early>>
        /\ task[w].at = "address" /\ GoOn(w, "freight", new)
    BY <1>1, <1>6 DEF AddressYes, Save, Doc
  <2> HIDE DEF new
  <2>3. Wrote(w)
    BY <2>1, <2>2, PlainSave DEF Unquoted
  <2>4. MovedOn(w)
    BY <1>0, <1>1, <2>1, <2>2, PlainGoOn DEF Based
  <2> QED
    BY <2>2, <2>3, <2>4
<1>7. CASE Pin(w)
  <2>1. PICK a \in Address : Save(w, [doc EXCEPT !.address = a])
    BY <1>7 DEF Pin, Address
  <2> DEFINE new == [doc EXCEPT !.address = a]
  <2>2. new \in Doc
    BY <1>1, DocChanged
  <2>3. /\ new.paused = doc.paused /\ new.status = doc.status /\ new.fee = doc.fee
        /\ Write(task[w].order, doc, new, FALSE) /\ UNCHANGED <<due, early>>
        /\ task[w].at = "pin" /\ Done(w)
    BY <1>1, <1>7, <2>1 DEF Pin, Save, Doc
  <2> HIDE DEF new
  <2>4. Wrote(w)
    BY <2>2, <2>3, PlainSave DEF Unquoted
  <2> QED
    BY <2>3, <2>4 DEF MovedOn
<1> QED
  BY <1>3, <1>4, <1>5, <1>6, <1>7

\* The freight, for a client's text or for an operator.
LEMMA FreightSteps ==
    ASSUME IInv, NEW w \in Worker, Freight(w)
    PROVE  GoesOn(w)
<1> DEFINE doc == task[w].doc
           fee == doc.fee \/ DistanceBased
           paid == [doc EXCEPT !.fee = fee, !.status = "aguardando_pagamento"]
           human == [doc EXCEPT !.address = "review", !.status = "pendente_humano_endereco"]
<1> USE DEF GoesOn, Doing
<1>0. task[w].at = "freight" /\ UNCHANGED due
  BY DEF Freight
<1>1. doc \in Doc /\ Based(w, task[w])
  BY <1>0, UnderWay
<1>2. paid \in Doc
  <2>1. fee \in BOOLEAN
    OBVIOUS
  <2> HIDE DEF fee
  <2> QED
    BY Zenon, <1>1, <2>1, DocChanged DEF Status, ActiveStatus
<1>3. human \in Doc
  BY <1>1, DocChanged DEF Address, Status, ActiveStatus
<1>4. /\ paid.paused = doc.paused /\ paid.status = "aguardando_pagamento"
      /\ human.paused = doc.paused /\ human.status = "pendente_humano_endereco"
  BY <1>1 DEF Doc
<1>5. DistanceBased => paid.fee
  BY <1>1 DEF Doc
<1>6. CASE /\ Save(w, paid)
           /\ IF DistanceBased THEN KeyShown(task[w].order, paid) ELSE UNCHANGED early
           /\ IF task[w].how = "recalc" THEN GoOn(w, "recalculated", paid) ELSE Done(w)
  <2> HIDE DEF paid
  <2>1. UNCHANGED <<due, early>> /\ Write(task[w].order, doc, paid, FALSE)
    BY <1>0, <1>5, <1>6 DEF KeyShown, Save
  <2>2. Wrote(w)
    BY <1>2, <1>4, <1>5, <2>1, PlainSave DEF Unquoted
  <2>3. GoOn(w, "recalculated", paid) \/ Done(w)
    BY <1>6
  <2>4. MovedOn(w)
    BY <1>0, <1>2, <1>4, <2>3, PlainGoOn DEF MovedOn
  <2> QED
    BY <1>0, <2>2, <2>4
<1>7. CASE Save(w, human) /\ Done(w) /\ UNCHANGED early
  <2> HIDE DEF human
  <2>1. Wrote(w)
    BY <1>0, <1>3, <1>4, <1>7, PlainSave DEF Unquoted, Save
  <2> QED
    BY <1>0, <1>7, <2>1 DEF MovedOn
<1> QED
  BY <1>6, <1>7 DEF Freight

\* The quote of an order the AI created.
LEMMA QuoteSteps ==
    ASSUME IInv, NEW w \in Worker, CreateQuoted(w)
    PROVE  GoesOn(w)
<1> DEFINE doc == task[w].doc
           paid == [doc EXCEPT !.fee = TRUE]
           asked == [doc EXCEPT !.status = "aguardando_endereco"]
<1> USE DEF GoesOn, Doing
<1>0. task[w].at = "quoted" /\ Done(w)
  BY DEF CreateQuoted
<1>1. doc \in Doc /\ Based(w, task[w])
  BY <1>0, UnderWay
<1>2. paid \in Doc
  BY Zenon, <1>1, DocChanged
<1>3. asked \in Doc
  BY <1>1, DocChanged DEF Status, ActiveStatus
<1>4. /\ paid.paused = doc.paused /\ paid.fee
      /\ asked.paused = doc.paused /\ asked.status = "aguardando_endereco"
  BY <1>1 DEF Doc
<1> SUFFICES Wrote(w)
  BY <1>0 DEF MovedOn
<1>5. CASE Save(w, paid) /\ KeyShown(task[w].order, paid) /\ UNCHANGED due
  <2> HIDE DEF paid
  <2>1. UNCHANGED <<due, early>> /\ Write(task[w].order, doc, paid, FALSE)
    BY <1>4, <1>5 DEF KeyShown, Save
  <2> QED
    BY <1>2, <1>4, <2>1, PlainSave DEF Unquoted
<1>6. CASE Save(w, asked) /\ UNCHANGED <<due, early>>
  <2> HIDE DEF asked
  <2> QED
    BY <1>3, <1>4, <1>6, PlainSave DEF Unquoted, Save
<1> QED
  BY <1>5, <1>6 DEF CreateQuoted

\* The client's choice to fetch the product.
LEMMA PickupSteps ==
    ASSUME IInv, NEW w \in Worker, Pickup(w)
    PROVE  GoesOn(w)
<1> DEFINE doc == task[w].doc
           o == task[w].order
           unset == [doc EXCEPT !.status = "pendente_configuracao_whatsapp"]
           paid == [doc EXCEPT !.status = "aguardando_pagamento", !.keySent = TRUE]
<1> USE DEF GoesOn, Doing
<1>0. task[w].at = "pickup" /\ Done(w) /\ UNCHANGED early
  BY DEF Pickup
<1>1. doc \in Doc /\ Based(w, task[w])
  BY <1>0, UnderWay
<1>2. unset \in Doc
  BY <1>1, DocChanged DEF Status, ActiveStatus
<1>3. paid \in Doc
  BY Zenon, <1>1, DocChanged DEF Status, ActiveStatus
<1>4. /\ paid.paused = doc.paused
      /\ unset.paused = doc.paused /\ unset.status = "pendente_configuracao_whatsapp"
  BY <1>1 DEF Doc
<1> SUFFICES Wrote(w)
  BY <1>0 DEF MovedOn
<1>5. CASE UNCHANGED <<row, astray, due>>
  BY <1>0, <1>5 DEF Wrote
<1>6. CASE Save(w, unset) /\ UNCHANGED due
  <2> HIDE DEF unset
  <2> QED
    BY <1>0, <1>2, <1>4, <1>6, PlainSave DEF Unquoted, Save
<1>7. CASE Save(w, paid) /\ due' = due \ {o}
  <2> HIDE DEF paid
  <2>1. Mild(w, doc, paid, FALSE)
    BY <1>0, <1>4, <1>7 DEF Mild
  <2> QED
    BY <1>3, <1>7, <2>1 DEF Wrote, Save
<1> QED
  BY <1>5, <1>6, <1>7 DEF Pickup

\* The client's choice of a delivery.
LEMMA DeliverySteps ==
    ASSUME IInv, NEW w \in Worker, Delivery(w)
    PROVE  GoesOn(w)
<1> DEFINE doc == task[w].doc
           o == task[w].order
           asked == [doc EXCEPT !.status = "aguardando_endereco"]
<1> USE DEF GoesOn, Doing
<1>0. /\ task[w].at = "delivery" /\ Done(w) /\ due' = due \cup {o}
      /\ early' \subseteq early \cup {o}
      /\ DistanceBased => early' = early
  BY OrderAssumption DEF Delivery
<1>1. doc \in Doc /\ Based(w, task[w]) /\ row[o] \in Doc
  BY <1>0, UnderWay
<1>2. asked \in Doc
  BY <1>1, DocChanged DEF Status, ActiveStatus
<1>3. asked.paused = doc.paused /\ asked.status = "aguardando_endereco"
  BY <1>1 DEF Doc
<1> SUFFICES Wrote(w)
  BY <1>0 DEF MovedOn
<1>4. CASE Save(w, asked)
  <2> HIDE DEF asked
  <2>1. Mild(w, doc, asked, FALSE)
    BY <1>0, <1>3 DEF Mild, Unquoted
  <2> QED
    BY <1>2, <1>4, <2>1 DEF Wrote, Save
<1>5. CASE Write(o, row[o], row[o], Unquoted(row[o]))
  <2> DEFINE odd == Unquoted(row[o])
  <2>1. odd \in BOOLEAN /\ Write(o, row[o], row[o], odd)
    BY <1>5 DEF Unquoted
  <2>2. Mild(w, row[o], row[o], odd)
    BY <1>0 DEF Mild
  <2> HIDE DEF odd
  <2> QED
    BY <1>1, <2>1, <2>2 DEF Wrote
<1> QED
  BY <1>4, <1>5 DEF Delivery

\* A proof of payment, stored and approved.
LEMMA ProofSteps ==
    ASSUME IInv, NEW p \in Proof, ProofSave(p) \/ AutoApprove(p)
    PROVE  GoesOn(p)
<1> DEFINE doc == task[p].doc
           kept == [doc EXCEPT !.proofs = doc.proofs \cup {p}, !.status = "comprovante_recebido"]
           paid == [doc EXCEPT !.status = "pagamento_aprovado"]
<1> USE DEF GoesOn, Doing
<1> p \in Worker
  BY DEF Worker
<1>0. task[p].at \in {"proof", "autoApprove"}
  BY DEF ProofSave, AutoApprove
<1>1. doc \in Doc /\ Based(p, task[p])
  BY <1>0, UnderWay
<1>2. doc.proofs \cup {p} \in SUBSET Proof
  BY <1>1 DEF Doc
<1>3. kept \in Doc
  BY Zenon, <1>1, <1>2, DocChanged DEF Status, ActiveStatus
<1>4. paid \in Doc
  BY <1>1, DocChanged DEF Status
<1>5. /\ kept.paused = doc.paused /\ kept.status = "comprovante_recebido"
      /\ paid.paused = doc.paused /\ paid.status = "pagamento_aprovado"
  BY <1>1 DEF Doc
<1>6. CASE ProofSave(p)
  <2>1. /\ task[p].at = "proof" /\ Write(task[p].order, doc, kept, FALSE)
        /\ GoOn(p, "notice", kept) \/ GoOn(p, "autoApprove", kept) \/ Done(p)
        /\ UNCHANGED <<due, early>>
    BY <1>6 DEF ProofSave, Save, AfterNotice
  <2> HIDE DEF kept
  <2>2. Wrote(p)
    BY <1>3, <1>5, <2>1, PlainSave DEF Unquoted
  <2>3. MovedOn(p)
    BY <1>3, <1>5, <2>1, PlainGoOn DEF MovedOn
  <2> QED
    BY <1>0, <2>2, <2>3
<1>7. CASE AutoApprove(p)
  <2>1. /\ Write(task[p].order, doc, paid, FALSE) /\ Done(p) /\ UNCHANGED <<due, early>>
    BY <1>7 DEF AutoApprove, Save
  <2> HIDE DEF paid
  <2>2. Wrote(p)
    BY <1>4, <1>5, <2>1, PlainSave DEF Unquoted
  <2> QED
    BY <1>0, <2>1, <2>2 DEF MovedOn
<1> QED
  BY <1>6, <1>7

\* The notice to the company, for a proof or sent again by an operator.
LEMMA NoticeSteps ==
    ASSUME IInv, NEW w \in Worker, Notice(w)
    PROVE  GoesOn(w)
<1> DEFINE doc == task[w].doc
<1> USE DEF GoesOn, Doing
<1>0. task[w].at \in {"notice", "resend"} /\ UNCHANGED <<due, early>>
  BY DEF Notice
<1>1. doc \in Doc /\ Based(w, task[w])
  BY <1>0, UnderWay
<1>2. ASSUME NEW new \in Doc, AfterNotice(w, new),
             new.status = "pagamento_aprovado" => doc.status = "pagamento_aprovado"
      PROVE  MovedOn(w)
  <2>1. CASE Done(w)
    BY <2>1 DEF MovedOn
  <2>2. CASE GoOn(w, "autoApprove", new)
    BY <1>0, <1>1, <1>2, <2>2, PlainGoOn DEF Based
  <2> QED
    BY <1>2, <2>1, <2>2 DEF AfterNotice
<1>3. ASSUME NEW s \in Status, NEW n \in Nat,
             s = doc.status \/ s \in {"pendente_configuracao_whatsapp",
                                      "em_conferencia", "falha_notificacao_whatsapp"},
             NEW new, new = [doc EXCEPT !.status = s]
                      \/ new = [doc EXCEPT !.noticed = n, !.status = s],
             Save(w, new), AfterNotice(w, new)
      PROVE  GoesOn(w)
  <2>1. [doc EXCEPT !.status = s] \in Doc /\ [doc EXCEPT !.noticed = n, !.status = s] \in Doc
    BY Zenon, <1>1, DocChanged
  <2>2. new \in Doc
    BY <1>3, <2>1
  <2>3. new.paused = doc.paused /\ new.fee = doc.fee /\ new.status = s
    BY <1>1, <1>3 DEF Doc
  <2>4. Unquoted(new) => Unquoted(doc)
    BY <1>3, <2>3 DEF Unquoted
  <2>5. Wrote(w)
    BY <1>0, <1>3, <2>2, <2>3, <2>4, PlainSave DEF Save
  <2>6. MovedOn(w)
    BY <1>2, <1>3, <2>2, <2>3
  <2> QED
    BY <1>0, <2>5, <2>6
<1>4. doc.status \in Status /\ Cardinality(doc.proofs) \in Nat
  BY <1>1, ProofsCounted DEF Doc
<1>5. {"pendente_configuracao_whatsapp", "em_conferencia", "falha_notificacao_whatsapp"}
         \subseteq Status
  BY DEF Status, ActiveStatus
<1>6. CASE AfterNotice(w, doc) /\ UNCHANGED <<row, astray>>
  BY <1>0, <1>1, <1>2, <1>6 DEF Wrote
<1>7. CASE Save(w, doc) /\ AfterNotice(w, doc)
  <2>1. Wrote(w)
    BY <1>0, <1>1, <1>7, PlainSave DEF Save
  <2> QED
    BY <1>0, <1>1, <1>2, <1>7, <2>1
<1>8. CASE \E s \in {doc.status, "pendente_configuracao_whatsapp", "em_conferencia",
                     "falha_notificacao_whatsapp"} :
             \E new \in {[doc EXCEPT !.status = s],
                         [doc EXCEPT !.noticed = Cardinality(doc.proofs), !.status = s]} :
               Save(w, new) /\ AfterNotice(w, new)
  BY <1>3, <1>4, <1>5, <1>8
<1> QED
  BY <1>6, <1>7, <1>8 DEF Notice

\* A document whose address is back-filled is one, with the same status.
LEMMA BackfilledDoc ==
    ASSUME NEW d \in Doc, NEW s \in Status
    PROVE  /\ [Backfilled(d) EXCEPT !.status = s] \in Doc
           /\ [Backfilled(d) EXCEPT !.status = s].paused = d.paused
           /\ [Backfilled(d) EXCEPT !.status = s].status = s
<1> DEFINE a == IF Confirmed(d) THEN "confirmed" ELSE d.address
<1>1. a \in Address
  BY DEF Doc, Address
<1>2. Backfilled(d) = [d EXCEPT !.address = a]
  BY DEF Backfilled
<1> DEFINE b == [d EXCEPT !.address = a]
<1>3. b \in Doc
  BY <1>1, DocChanged
<1>4. b.paused = d.paused
  BY DEF Doc
<1> HIDE DEF a, b
<1>5. [b EXCEPT !.status = s] \in Doc
  BY <1>3, DocChanged
<1>6. [b EXCEPT !.status = s].paused = b.paused /\ [b EXCEPT !.status = s].status = s
  BY <1>3 DEF Doc
<1> QED
  BY <1>2, <1>4, <1>5, <1>6 DEF b

\* The operators' steps.
LEMMA OperatorSteps ==
    ASSUME IInv, NEW w \in Operator, PanelStep(w)
    PROVE  GoesOn(w)
<1> DEFINE doc == task[w].doc
<1> USE DEF GoesOn, Doing
<1> w \in Worker
  BY DEF Worker
<1>0. /\ task[w].at \in {"approve", "reject", "newProof", "notice", "resend", "readdress",
                         "correct", "recalc", "freight", "recalculated"}
  BY DEF PanelStep, Approve, Reject, NewProof, Notice, Readdress, Correct, Recalc, Freight,
     Recalculated
<1>1. doc \in Doc /\ Based(w, task[w])
  BY <1>0, UnderWay
<1>2. ASSUME NEW new \in Doc, NEW odd \in BOOLEAN, Write(task[w].order, doc, new, odd),
             new.paused = doc.paused, UNCHANGED <<due, early>>,
             odd \/ new.status # "aguardando_pagamento"
                 \/ (new.status = doc.status /\ new.fee = doc.fee)
      PROVE  Wrote(w)
  <2>1. ~odd /\ Unquoted(new) => Unquoted(doc)
    BY <1>2 DEF Unquoted
  <2> QED
    BY <1>0, <1>2, <2>1, PlainSave
<1>3. CASE Approve(w) \/ Reject(w) \/ NewProof(w)
  <2>1. PICK s \in {"pagamento_aprovado", "pagamento_recusado", "aguardando_pagamento"},
             odd \in BOOLEAN :
          /\ Write(task[w].order, doc, [Backfilled(doc) EXCEPT !.status = s], odd)
          /\ odd \/ s # "aguardando_pagamento"
    BY <1>3 DEF Approve, Reject, NewProof, Save, SaveAstray
  <2> DEFINE new == [Backfilled(doc) EXCEPT !.status = s]
  <2>2. s \in Status
    BY DEF Status, ActiveStatus
  <2>3. new \in Doc /\ new.paused = doc.paused /\ new.status = s
    BY <1>1, <2>2, BackfilledDoc
  <2>4. Done(w) /\ UNCHANGED <<due, early>>
    BY <1>3 DEF Approve, Reject, NewProof
  <2> HIDE DEF new
  <2>5. Wrote(w)
    BY <1>2, <2>1, <2>3, <2>4 DEF new
  <2> QED
    BY <1>0, <2>4, <2>5 DEF MovedOn
<1>4. CASE Notice(w)
  BY <1>4, NoticeSteps
<1>5. CASE Readdress(w)
  <2> DEFINE new == [doc EXCEPT !.address = "confirmed"]
  <2>1. new \in Doc
    BY <1>1, DocChanged DEF Address
  <2>2. /\ new.paused = doc.paused /\ Write(task[w].order, doc, new, TRUE)
        /\ Done(w) /\ UNCHANGED <<due, early>>
    BY <1>1, <1>5 DEF Readdress, SaveAstray, Doc
  <2> HIDE DEF new
  <2>3. Wrote(w)
    BY <1>2, <2>1, <2>2
  <2> QED
    BY <1>0, <2>2, <2>3 DEF MovedOn
<1>6. CASE Correct(w)
  <2> DEFINE new == [doc EXCEPT !.status = "aguardando_endereco", !.address = "none"]
  <2>1. new \in Doc
    BY <1>1, DocChanged DEF Address, Status, ActiveStatus
  <2>2. /\ new.paused = doc.paused /\ new.status = "aguardando_endereco"
        /\ Write(task[w].order, doc, new, FALSE)
        /\ Done(w) /\ UNCHANGED <<due, early>>
    BY <1>1, <1>6 DEF Correct, Save, Doc
  <2> HIDE DEF new
  <2>3. Wrote(w)
    BY <1>2, <2>1, <2>2
  <2> QED
    BY <1>0, <2>2, <2>3 DEF MovedOn
<1>7. CASE Recalc(w)
  <2> DEFINE new == [doc EXCEPT !.status = "aguardando_endereco", !.address = "confirmed"]
  <2>1. new \in Doc
    BY <1>1, DocChanged DEF Address, Status, ActiveStatus
  <2>2. /\ new.paused = doc.paused /\ new.status = "aguardando_endereco"
        /\ Write(task[w].order, doc, new, FALSE)
        /\ GoOn(w, "freight", new) /\ UNCHANGED <<due, early>> /\ task[w].at = "recalc"
    BY <1>1, <1>7 DEF Recalc, Save, Doc
  <2> HIDE DEF new
  <2>3. Wrote(w)
    BY <1>2, <2>1, <2>2
  <2>4. MovedOn(w)
    BY <2>1, <2>2, PlainGoOn
  <2> QED
    BY <1>0, <2>3, <2>4
<1>8. CASE Freight(w)
  BY <1>8, FreightSteps
<1>9. CASE Recalculated(w)
  <2> DEFINE new == [doc EXCEPT !.keySent = TRUE]
  <2>1. new \in Doc
    BY Zenon, <1>1, DocChanged
  <2>2. /\ new.paused = doc.paused /\ new.status = doc.status /\ new.fee = doc.fee
        /\ Write(task[w].order, doc, new, FALSE)
        /\ Done(w) /\ UNCHANGED <<due, early>>
    BY <1>1, <1>9 DEF Recalculated, Save, Doc
  <2> HIDE DEF new
  <2>3. Wrote(w)
    BY <1>2, <2>1, <2>2
  <2> QED
    BY <1>0, <2>2, <2>3 DEF MovedOn
<1> QED
  BY <1>3, <1>4, <1>5, <1>6, <1>7, <1>8, <1>9 DEF PanelStep

---------------------------------------------------------------------------
(* Every step, seen from one handler.                                      *)

\* A handler of w begins with the order o.
BegunBy(w, at, o, how) ==
    /\ Begin(w, at, o, how) /\ at \notin {"idle", "quoted"}
    /\ Based(w, [at |-> at, order |-> o, how |-> how, doc |-> row[o]])
    /\ at = "create" => ~\E x \in Order : Active(x) /\ ProductOf[x] = ProductOf[o]

\* A text begins.
LEMMA ClientBegins ==
    ASSUME NEW w \in Client, NEW o \in Order, ClientLoad(w, o), row[o] \in Doc
    PROVE  AskKey(w, o) \/ \E at \in At, how \in How : BegunBy(w, at, o, how)
<1>1. ASSUME NEW a \in At, NEW how \in How, Begin(w, a, o, how), a \notin {"idle", "quoted"},
             Active(o) \/ (a = "create" /\ how \in {"none", "pickup", "delivery"}
                            /\ ~Exists(o)
                            /\ ~\E x \in Order : Active(x) /\ ProductOf[x] = ProductOf[o]),
             a = "create" => ~Active(o),
             a = "address" => row[o].status \in {"aguardando_endereco", "pendente_humano_endereco"}
      PROVE  BegunBy(w, a, o, how)
  BY <1>1 DEF BegunBy, Based, Active, Exists, ActiveStatus
<1>2. CASE CommandLoad(w, o)
  BY <1>1, <1>2 DEF CommandLoad, At, How
<1>3. CASE AddressLoad(w, o)
  BY <1>1, <1>3 DEF AddressLoad, At, How
<1>4. CASE PinLoad(w, o)
  BY <1>1, <1>4 DEF PinLoad, At, How
<1>5. CASE ChoiceLoad(w, o)
  BY <1>1, <1>5 DEF ChoiceLoad, At, How
<1>6. ASSUME NEW how \in {"none", "pickup", "delivery"}, Wish(w, o, how)
      PROVE  BegunBy(w, "create", o, how)
  <2>1. ~Active(o)
    BY <1>6 DEF Wish, Exists, Active, ActiveStatus
  <2> QED
    BY <1>1, <1>6, <2>1 DEF Wish, At, How
<1> QED
  BY <1>2, <1>3, <1>4, <1>5, <1>6 DEF ClientLoad, At, How

\* An operator begins.
LEMMA OperatorBegins ==
    ASSUME NEW w \in Operator, NEW o \in Order, PanelLoad(w, o)
    PROVE  \E at \in At, how \in How : BegunBy(w, at, o, how)
BY DEF PanelLoad, BegunBy, Based, At, How

\* A proof comes in.
LEMMA ProofBegins ==
    ASSUME NEW p \in Proof, NEW o \in Order, ProofBegin(p, o)
    PROVE  OrphanProof(p, o) \/ \E at \in At, how \in How : BegunBy(p, at, o, how)
BY DEF ProofBegin, ProofLoad, BegunBy, Based, Active, ActiveStatus, At, How

\* A step is the beginning of a handler, a later step of one, the storing of an
\* order, or the repetition of the key.
LEMMA Steps ==
    ASSUME IInv, Next
    PROVE  \/ \E w \in Worker, o \in Order, at \in At, how \in How : BegunBy(w, at, o, how)
           \/ \E w \in Worker : GoesOn(w)
           \/ \E w \in Client : Create(w)
           \/ \E p \in Proof, o \in Order : OrphanProof(p, o)
           \/ \E w \in Client, o \in Order : AskKey(w, o)
<1> /\ Client \subseteq Worker /\ Proof \subseteq Worker /\ Operator \subseteq Worker
    /\ Client \cap Operator = {}
  BY OrderAssumption DEF Worker
<1>0. \A o \in Order : row[o] \in Doc
  BY DEF IInv, TypeOK
<1>1. CASE \E w \in Client : ClientStep(w)
  BY <1>1, AddressSteps, FreightSteps, QuoteSteps, PickupSteps, DeliverySteps DEF ClientStep
<1>2. CASE \E w \in Client, o \in Order : ClientLoad(w, o)
  BY <1>0, <1>2, ClientBegins
<1>3. CASE \E p \in Proof : ProofStep(p)
  BY <1>3, ProofSteps, NoticeSteps DEF ProofStep
<1>4. CASE \E p \in Proof, o \in Order : ProofBegin(p, o)
  BY <1>4, ProofBegins
<1>5. CASE \E w \in Operator : PanelStep(w)
  BY <1>5, OperatorSteps
<1>6. CASE \E w \in Operator, o \in Order : PanelLoad(w, o)
  BY <1>6, OperatorBegins
<1> QED
  BY <1>1, <1>2, <1>3, <1>4, <1>5, <1>6 DEF Next

---------------------------------------------------------------------------
(* Types.                                                                  *)

\* What a save does to the stored orders.
LEMMA WriteEffect ==
    ASSUME TypeOK, NEW o \in Order, NEW old \in Doc, NEW new \in Doc, NEW odd,
           Write(o, old, new, odd)
    PROVE  /\ row' \in [Order -> Doc]
           /\ \A x \in Order : x # o => row'[x] = row[x]
           /\ astray \subseteq astray' /\ astray' \subseteq astray \cup {o}
           /\ odd \/ row[o] # old => o \in astray'
           /\ row[o].status \notin ActiveStatus /\ row'[o].status \in ActiveStatus
                => o \in astray'
           /\ row'[o].status = (IF new.status # old.status THEN new.status ELSE row[o].status)
           /\ row[o] = old => row'[o].status = new.status /\ row'[o].fee = new.fee
           /\ row[o].paused /\ (old.paused => new.paused) => row'[o].paused
<1>1. row[o] \in Doc /\ row \in [Order -> Doc]
  BY DEF TypeOK
<1>2. row' = [row EXCEPT ![o] = Merge(row[o], old, new)]
  BY DEF Write
<1> DEFINE m == Merge(row[o], old, new)
<1>3. /\ m \in Doc
      /\ m.status = IF new.status # old.status THEN new.status ELSE row[o].status
      /\ m.paused = IF new.paused # old.paused THEN new.paused ELSE row[o].paused
  BY <1>1, MergeDoc
<1>4. row[o] = old => m.status = new.status /\ m.fee = new.fee
  BY <1>1, MergeDoc
<1> HIDE DEF m
<1>5. row' = [row EXCEPT ![o] = m]
  BY <1>2 DEF m
<1>6. row' \in [Order -> Doc] /\ row'[o] = m /\ \A x \in Order : x # o => row'[x] = row[x]
  BY <1>1, <1>3, <1>5
<1>7. row[o].paused /\ (old.paused => new.paused) => m.paused
  <2>1. CASE new.paused = old.paused
    BY <1>3, <2>1
  <2>2. CASE new.paused # old.paused
    <3>1. new.paused \in BOOLEAN /\ old.paused \in BOOLEAN
      BY DEF Doc
    <3> QED
      BY Zenon, <1>3, <2>2, <3>1
  <2> QED
    BY <2>1, <2>2
<1> QED
  BY <1>3, <1>4, <1>6, <1>7 DEF Write

\* At first everything has its type.
LEMMA TypeInit == Init => TypeOK
<1>1. Idle \in Task
  BY AbsentDoc DEF Idle, Task, At, How
<1> QED
  BY <1>1, AbsentDoc, OrderAssumption DEF Init, TypeOK, Task

\* The panel is called a bounded number of times.
LEMMA CallsStep == TypeOK /\ [Next]_vars => calls' \in 0..MaxPanel
<1> SUFFICES ASSUME TypeOK, [Next]_vars PROVE calls' \in 0..MaxPanel
  OBVIOUS
<1>1. calls' = calls \/ (calls < MaxPanel /\ calls' = calls + 1)
  BY DEF Next, vars, ClientLoad, ClientStep, ProofBegin, ProofStep, PanelStep, PanelLoad
<1> QED
  BY <1>1, OrderAssumption DEF TypeOK

\* A handler's new task.
LEMMA TaskStep ==
    ASSUME IInv, NEW w \in Worker, NEW t \in Task, task' = [task EXCEPT ![w] = t], Based(w, t)
    PROVE  task' \in [Worker -> Task] /\ TasksBased'
<1>1. task \in [Worker -> Task]
  BY DEF IInv, TypeOK, Task
<1>2. task' \in [Worker -> Task]
  BY <1>1
<1>3. ASSUME NEW v \in Worker PROVE Based(v, task'[v])
  BY <1>1 DEF IInv, TasksBased
<1> QED
  BY <1>2, <1>3 DEF TasksBased, Based

\* A handler that ends.
LEMMA DoneStep ==
    ASSUME IInv, NEW w \in Worker, Done(w)
    PROVE  task' \in [Worker -> Task] /\ TasksBased'
<1>1. Idle \in Task /\ Based(w, Idle)
  BY AbsentDoc DEF Idle, Task, At, How, Based
<1> QED
  BY <1>1, TaskStep DEF Done

\* A handler that goes on with a document that fits its next step.
LEMMA GoOnStep ==
    ASSUME IInv, NEW w \in Worker, task[w].at # "idle", NEW at \in At, NEW doc \in Doc,
           GoOn(w, at, doc), Based(w, [task[w] EXCEPT !.at = at, !.doc = doc])
    PROVE  task' \in [Worker -> Task] /\ TasksBased'
<1> DEFINE t == [task[w] EXCEPT !.at = at, !.doc = doc]
<1>1. t \in Task
  BY UnderWay DEF Task
<1>2. task' = [task EXCEPT ![w] = t]
  BY DEF GoOn
<1> QED
  BY <1>1, <1>2, TaskStep

\* An order created for a delivery waits for its payment only while it is quoted,
\* where the delivery is paid by the distance.
LEMMA Created ==
    ASSUME NEW w \in Client, Create(w)
    PROVE  \E doc :
             /\ \E s \in {"aguardando_endereco", "aguardando_pagamento"},
                   a \in {"collected", "none"} : doc = Fresh(s, a)
             /\ row' = [row EXCEPT ![task[w].order] = doc]
             /\ GoOn(w, "quoted", doc) \/ Done(w)
             /\ DistanceBased /\ task[w].order \in due' /\ Unquoted(doc)
                  => GoOn(w, "quoted", doc)
<1>1. PICK collected \in BOOLEAN :
        LET how == task[w].how
            doc == Fresh(IF NeedsAddress(how) /\ ~collected THEN "aguardando_endereco"
                                                            ELSE "aguardando_pagamento",
                         IF collected THEN "collected" ELSE "none")
        IN  /\ row' = [row EXCEPT ![task[w].order] = doc]
            /\ IF collected /\ DistanceBased THEN GoOn(w, "quoted", doc) ELSE Done(w)
  BY DEF Create
<1> DEFINE s == IF NeedsAddress(task[w].how) /\ ~collected THEN "aguardando_endereco"
                                                           ELSE "aguardando_pagamento"
           a == IF collected THEN "collected" ELSE "none"
<1>2. DistanceBased /\ task[w].order \in due' => NeedsAddress(task[w].how)
  BY OrderAssumption DEF Create, NeedsAddress
<1>3. DistanceBased /\ task[w].order \in due' /\ Unquoted(Fresh(s, a)) => collected
  BY <1>2 DEF Unquoted, Fresh
<1>4. row' = [row EXCEPT ![task[w].order] = Fresh(s, a)]
  BY <1>1
<1>5. IF collected /\ DistanceBased THEN GoOn(w, "quoted", Fresh(s, a)) ELSE Done(w)
  BY <1>1
<1>6. s \in {"aguardando_endereco", "aguardando_pagamento"} /\ a \in {"collected", "none"}
  OBVIOUS
<1> HIDE DEF s, a
<1> QED
  BY <1>3, <1>4, <1>5, <1>6

\* Types and what the handlers know are kept.
LEMMA IInvStep == IInv /\ [Next]_vars => IInv'
<1> SUFFICES ASSUME IInv, [Next]_vars PROVE IInv'
  OBVIOUS
<1>0. /\ calls' \in 0..MaxPanel
      /\ row \in [Order -> Doc] /\ astray \subseteq Order /\ due \subseteq Order
      /\ early \subseteq Order
  BY CallsStep DEF IInv, TypeOK
<1> SUFFICES /\ row' \in [Order -> Doc]
             /\ task' \in [Worker -> Task] /\ TasksBased'
             /\ astray' \subseteq Order /\ due' \subseteq Order /\ early' \subseteq Order
  BY <1>0 DEF IInv, TypeOK, Task
<1>1. ASSUME NEW w \in Worker, NEW o \in Order, NEW at \in At, NEW how \in How,
             BegunBy(w, at, o, how)
      PROVE  /\ UNCHANGED <<row, astray, due, early>>
             /\ task' \in [Worker -> Task] /\ TasksBased'
  <2> DEFINE t == [at |-> at, order |-> o, how |-> how, doc |-> row[o]]
  <2>1. t \in Task /\ Based(w, t)
    BY <1>0, <1>1 DEF BegunBy, Task
  <2>2. task' = [task EXCEPT ![w] = t] /\ UNCHANGED <<row, astray, due, early>>
    BY <1>1, OrderAssumption DEF BegunBy, Begin
  <2> HIDE DEF t
  <2> QED
    BY <2>1, <2>2, TaskStep
<1>2. ASSUME NEW w \in Worker, GoesOn(w)
      PROVE  /\ row' \in [Order -> Doc]
             /\ task' \in [Worker -> Task] /\ TasksBased'
             /\ astray' \subseteq Order /\ due' \subseteq Order /\ early' \subseteq Order
  <2>1. task[w].at # "idle" /\ task[w].doc \in Doc /\ task[w].order \in Order
        /\ row[task[w].order] \in Doc
    BY <1>2, UnderWay DEF GoesOn
  <2>2. task' \in [Worker -> Task] /\ TasksBased'
    BY <1>2, <2>1, DoneStep, GoOnStep DEF GoesOn, MovedOn, At
  <2>3. CASE UNCHANGED <<row, astray, due, early>>
    BY <1>0, <2>2, <2>3
  <2>4. ASSUME NEW old \in {task[w].doc, row[task[w].order]}, NEW new \in Doc, NEW odd \in BOOLEAN,
               Write(task[w].order, old, new, odd), Mild(w, old, new, odd)
        PROVE  /\ row' \in [Order -> Doc] /\ astray' \subseteq Order
               /\ due' \subseteq Order /\ early' \subseteq Order
    <3>1. row' \in [Order -> Doc] /\ astray' \subseteq astray \cup {task[w].order}
      BY <2>1, <2>4, WriteEffect DEF IInv
    <3>2. due' \subseteq due \cup {task[w].order} /\ early' \subseteq early \cup {task[w].order}
      BY <2>4 DEF Mild
    <3> QED
      BY <1>0, <2>1, <3>1, <3>2
  <2> QED
    BY <1>2, <2>2, <2>3, <2>4 DEF GoesOn, Wrote
<1>3. ASSUME NEW w \in Client, Create(w)
      PROVE  /\ row' \in [Order -> Doc]
             /\ task' \in [Worker -> Task] /\ TasksBased'
             /\ astray' \subseteq Order /\ due' \subseteq Order /\ early' \subseteq Order
  <2> DEFINE o == task[w].order
             how == task[w].how
  <2> w \in Worker
    BY DEF Worker
  <2>1. task[w].at = "create" /\ o \in Order /\ how \in {"none", "pickup", "delivery"}
        /\ task[w] \in Task
    BY <1>3, UnderWay DEF Create, Doing, Based
  <2>2. PICK doc :
          /\ \E s \in {"aguardando_endereco", "aguardando_pagamento"},
                a \in {"collected", "none"} : doc = Fresh(s, a)
          /\ row' = [row EXCEPT ![o] = doc]
          /\ GoOn(w, "quoted", doc) \/ Done(w)
    BY <1>3, Created
  <2>3. doc \in Doc /\ doc.status # "pagamento_aprovado"
    <3>1. PICK s \in {"aguardando_endereco", "aguardando_pagamento"},
               a \in {"collected", "none"} : doc = Fresh(s, a)
      BY <2>2
    <3>2. s \in Status /\ a \in Address
      BY DEF Status, ActiveStatus, Address
    <3> QED
      BY <3>1, <3>2, FreshDoc DEF Fresh
  <2>4. UNCHANGED <<astray, early>> /\ due' \subseteq due \cup {o}
    BY <1>3 DEF Create
  <2>5. CASE GoOn(w, "quoted", doc)
    <3> DEFINE t == [task[w] EXCEPT !.at = "quoted", !.doc = doc]
    <3>1. t.at = "quoted" /\ t.doc = doc /\ t.order = o
      BY <2>1 DEF Task
    <3>2. Based(w, t)
      BY <2>1, <2>3, <3>1 DEF Based
    <3>3. task' \in [Worker -> Task] /\ TasksBased'
      BY <2>1, <2>3, <2>5, <3>2, GoOnStep DEF At
    <3> QED
      BY <1>0, <2>1, <2>2, <2>3, <2>4, <3>3
  <2>6. CASE Done(w)
    BY <1>0, <2>1, <2>2, <2>3, <2>4, <2>6, DoneStep
  <2> QED
    BY <2>2, <2>5, <2>6
<1>4. ASSUME NEW p \in Proof, NEW o \in Order, OrphanProof(p, o)
      PROVE  row' \in [Order -> Doc] /\ UNCHANGED <<task, astray, due, early>>
  <2> DEFINE free == Fresh("comprovante_sem_pedido", "none")
             new  == [free EXCEPT !.proofs = {p}]
  <2>1. free \in Doc
    BY FreshDoc DEF Status, Address
  <2> HIDE DEF free
  <2>2. new \in Doc
    <3>1. {p} \in SUBSET Proof
      OBVIOUS
    <3> QED
      BY Zenon, <2>1, <3>1 DEF Doc
  <2>3. row' = [row EXCEPT ![o] = new] /\ UNCHANGED <<task, astray, due, early>>
    BY <1>4 DEF OrphanProof, free
  <2> HIDE DEF new
  <2> QED
    BY <1>0, <2>2, <2>3
<1>5. ASSUME NEW w \in Client, NEW o \in Order, AskKey(w, o)
      PROVE  /\ row' \in [Order -> Doc] /\ UNCHANGED <<task, due>>
             /\ astray' \subseteq Order /\ early' \subseteq Order
  <2> DEFINE new == [row[o] EXCEPT !.keySent = TRUE]
  <2>1. row[o] \in Doc /\ new \in Doc
    BY Zenon, <1>0, DocChanged
  <2>2. Write(o, row[o], new, FALSE)
    BY <1>5 DEF AskKey
  <2> HIDE DEF new
  <2>3. row' \in [Order -> Doc] /\ astray' \subseteq astray \cup {o}
    BY <2>1, <2>2, WriteEffect DEF IInv
  <2> QED
    BY <1>0, <1>5, <2>3 DEF AskKey, KeyShown
<1>6. task \in [Worker -> Task] /\ TasksBased
  BY DEF IInv, TypeOK, Task
<1>7. UNCHANGED task => TasksBased'
  BY <1>6 DEF TasksBased, Based
<1>8. CASE UNCHANGED vars
  BY <1>0, <1>6, <1>7, <1>8 DEF vars
<1>9. CASE Next
  BY <1>0, <1>1, <1>2, <1>3, <1>4, <1>5, <1>6, <1>7, <1>9, Steps
<1> QED
  BY <1>8, <1>9

\* The types and what the handlers' documents are based on hold in every state.
LEMMA Grounded == Spec => []IInv
<1>1. Init => IInv
  BY TypeInit, AbsentDoc DEF IInv, Init, TasksBased, Based, Idle
<1> QED
  BY <1>1, IInvStep, PTL DEF Spec

\* Orders, handlers and the histories stay what they are declared to be.
THEOREM OrdersTyped == Spec => []TypeOK
<1>1. IInv => TypeOK
  BY DEF IInv
<1> QED
  BY <1>1, Grounded, PTL

---------------------------------------------------------------------------
(* An approved payment.                                                    *)

\* A handler that goes on is no longer where it was.
LEMMA Moves ==
    ASSUME IInv, NEW w \in Worker, GoesOn(w)
    PROVE  task'[w] # task[w]
<1>1. task \in [Worker -> Task] /\ task[w] \in Task /\ task[w].at # "idle"
  BY UnderWay DEF IInv, TypeOK, Task, GoesOn
<1>2. CASE Done(w)
  BY <1>1, <1>2 DEF Done, Idle
<1>3. ASSUME NEW at, NEW doc, GoOn(w, at, doc), at # task[w].at
      PROVE  task'[w] # task[w]
  BY <1>1, <1>3 DEF GoOn, Task
<1> QED
  BY <1>2, <1>3 DEF GoesOn, MovedOn

\* An approved payment is undone by an operator or by a document read before
\* the approval.
THEOREM ApprovalStands == Spec => ApprovalKept
<1> DEFINE Undone(o) == /\ row[o].status = "pagamento_aprovado"
                        /\ row'[o].status # "pagamento_aprovado"
           By(o) == \E w \in Worker : /\ task[w].order = o /\ task'[w] # task[w]
                                      /\ (w \in Operator \/ task[w].doc # row[o])
           Kept == \A o \in Order :
             row[o].status = "pagamento_aprovado" /\ row'[o].status # "pagamento_aprovado"
               => \E w \in Worker : /\ task[w].order = o /\ task'[w] # task[w]
                                   /\ (w \in Operator \/ task[w].doc # row[o])
<1>1. ASSUME IInv, [Next]_vars, NEW o \in Order, Undone(o) PROVE By(o)
  <2>0. row \in [Order -> Doc] /\ TypeOK
    BY <1>1 DEF IInv, TypeOK
  <2>1. ~UNCHANGED row
    BY <1>1
  <2>2. Next
    BY <1>1, <2>1 DEF vars
  <2>3. ASSUME NEW w \in Worker, GoesOn(w) PROVE By(o)
    <3>1. task[w].order \in Order /\ task[w].doc \in Doc /\ Based(w, task[w])
          /\ row[task[w].order] \in Doc
      BY <1>1, <2>3, UnderWay DEF GoesOn
    <3>2. PICK old \in {task[w].doc, row[task[w].order]}, new \in Doc, odd \in BOOLEAN :
            Write(task[w].order, old, new, odd) /\ Mild(w, old, new, odd)
      BY <2>1, <2>3 DEF GoesOn, Wrote
    <3>3. old \in Doc
      BY <3>1
    <3>4. task[w].order = o
      BY <1>1, <2>0, <3>1, <3>2, <3>3, WriteEffect
    <3>5. new.status # old.status
      BY <1>1, <2>0, <3>2, <3>3, <3>4, WriteEffect
    <3>6. old = task[w].doc
      BY <3>2, <3>5 DEF Mild
    <3>7. w \in Operator \/ task[w].doc # row[o]
      BY <1>1, <3>1 DEF Based
    <3>8. task'[w] # task[w]
      BY <1>1, <2>3, Moves
    <3> QED
      BY <3>4, <3>7, <3>8
  <2>4. ASSUME NEW w \in Client, Create(w) PROVE FALSE
    BY <1>1, <2>0, <2>4 DEF Create, Exists
  <2>5. ASSUME NEW p \in Proof, NEW x \in Order, OrphanProof(p, x) PROVE FALSE
    BY <1>1, <2>0, <2>5 DEF OrphanProof, Exists
  <2>6. ASSUME NEW w \in Client, NEW x \in Order, AskKey(w, x) PROVE FALSE
    <3>1. row[x].status = "aguardando_pagamento"
      BY <2>6 DEF AskKey
    <3>2. row' = [row EXCEPT ![x] = Merge(row[x], row[x], [row[x] EXCEPT !.keySent = TRUE])]
      BY <2>6 DEF AskKey, Write
    <3>3. x # o
      BY <1>1, <3>1
    <3> QED
      BY <1>1, <2>0, <3>2, <3>3
  <2> QED
    BY <1>1, <2>1, <2>2, <2>3, <2>4, <2>5, <2>6, Steps DEF BegunBy, Begin
<1>2. IInv /\ [Next]_vars => [Kept]_vars
  BY <1>1
<1> QED
  BY <1>2, Grounded, PTL DEF Spec, ApprovalKept

---------------------------------------------------------------------------
(* The key and the freight.                                                *)

\* A handler that goes on leaves the other handlers alone.
LEMMA OthersStay ==
    ASSUME IInv, NEW w \in Worker, GoesOn(w), NEW v \in Worker, v # w
    PROVE  task'[v] = task[v]
BY DEF IInv, TypeOK, GoesOn, MovedOn, Done, GoOn

\* An order that waits for the payment without a freight is being quoted, is to
\* be fetched, or is astray.
LEMMA FreightStep ==
    ASSUME IInv, FreightKnown, [Next]_vars
    PROVE  FreightKnown'
<1> SUFFICES ASSUME NEW o \in Order, DistanceBased, Unquoted(row'[o]), o \notin astray',
                    o \in due'
             PROVE  \E w \in Client : task'[w].at = "quoted" /\ task'[w].order = o
  BY DEF FreightKnown, QuotedSoon, Unquoted
<1>0. TypeOK /\ row \in [Order -> Doc] /\ task \in [Worker -> Task] /\ Client \subseteq Worker
  BY DEF IInv, TypeOK, Task, Worker
<1>1. ASSUME Unquoted(row[o]), o \notin astray, o \in due,
             \A w \in Client : task[w].at = "quoted" /\ task[w].order = o => task'[w] = task[w]
      PROVE  \E w \in Client : task'[w].at = "quoted" /\ task'[w].order = o
  BY <1>1 DEF FreightKnown, QuotedSoon
<1>3. CASE \E w \in Worker, x \in Order, at \in At, how \in How : BegunBy(w, at, x, how)
  <2>1. PICK w \in Worker, x \in Order, at \in At, how \in How : BegunBy(w, at, x, how)
    BY <1>3
  <2>2. /\ UNCHANGED <<row, astray, due>> /\ task[w] = Idle
        /\ \A v \in Worker : v # w => task'[v] = task[v]
    BY <1>0, <2>1 DEF BegunBy, Begin
  <2> QED
    BY <1>0, <1>1, <2>2 DEF Idle
<1>4. CASE \E w \in Worker : GoesOn(w)
  <2>1. PICK w \in Worker : GoesOn(w)
    BY <1>4
  <2>2. /\ task[w].order \in Order /\ task[w].doc \in Doc
        /\ row[task[w].order] \in Doc
    BY <2>1, UnderWay DEF GoesOn
  <2>3. \A v \in Worker : v # w => task'[v] = task[v]
    BY <2>1, OthersStay
  <2>4. CASE UNCHANGED <<row, astray, due, early>> /\ task[w].at # "quoted"
    BY <1>0, <1>1, <2>3, <2>4
  <2>5. ASSUME NEW old \in {task[w].doc, row[task[w].order]}, NEW new \in Doc, NEW odd \in BOOLEAN,
               Write(task[w].order, old, new, odd), Mild(w, old, new, odd)
        PROVE  \E v \in Client : task'[v].at = "quoted" /\ task'[v].order = o
    <3>1. old \in Doc
      BY <2>2
    <3>2. CASE task[w].order # o
      <4>1. row'[o] = row[o] /\ o \notin astray /\ o \in due
        BY <1>0, <2>2, <2>5, <3>1, <3>2, WriteEffect DEF Mild
      <4> QED
        BY <1>0, <1>1, <2>3, <3>2, <4>1
    <3>3. CASE task[w].order = o
      <4>1. row[o] = old /\ ~odd /\ o \notin astray
        BY <1>0, <2>2, <2>5, <3>1, <3>3, WriteEffect
      <4>2. row'[o].status = new.status /\ row'[o].fee = new.fee
        BY <1>0, <2>2, <2>5, <3>1, <3>3, <4>1, WriteEffect
      <4>3. Unquoted(old) /\ task[w].at # "quoted" /\ o \in due
        BY <2>5, <3>3, <4>1, <4>2 DEF Mild, Unquoted
      <4> QED
        BY <1>0, <1>1, <2>3, <4>1, <4>3
    <3> QED
      BY <3>2, <3>3
  <2> QED
    BY <2>1, <2>4, <2>5 DEF GoesOn, Wrote
<1>5. CASE \E w \in Client : Create(w)
  <2>1. PICK w \in Client : Create(w)
    BY <1>5
  <2>2. /\ task[w].at = "create" /\ task[w] \in Task /\ task[w].order \in Order
        /\ task[w].how \in {"none", "pickup", "delivery"}
    BY <1>0, <2>1, UnderWay DEF Create, Doing, Based
  <2>3. \A v \in Worker : v # w => task'[v] = task[v]
    BY <1>0, <2>1 DEF Create, Done, GoOn
  <2>4. CASE task[w].order # o
    <3>1. row'[o] = row[o] /\ o \notin astray /\ o \in due
      BY <1>0, <2>1, <2>4 DEF Create
    <3> QED
      BY <1>0, <1>1, <2>2, <2>3, <3>1
  <2>5. CASE task[w].order = o
    <3>1. PICK doc : /\ row' = [row EXCEPT ![o] = doc]
                     /\ DistanceBased /\ o \in due' /\ Unquoted(doc) => GoOn(w, "quoted", doc)
      BY <2>1, <2>5, Created
    <3>2. Unquoted(doc)
      BY <1>0, <3>1
    <3>3. GoOn(w, "quoted", doc)
      BY <3>1, <3>2
    <3> QED
      BY <1>0, <2>2, <2>5, <3>3 DEF GoOn, Task
  <2> QED
    BY <2>4, <2>5
<1>6. CASE \E p \in Proof, x \in Order : OrphanProof(p, x)
  <2>1. PICK p \in Proof, x \in Order : OrphanProof(p, x)
    BY <1>6
  <2>2. x # o
    BY <1>0, <2>1 DEF OrphanProof, Fresh, Unquoted
  <2> QED
    BY <1>0, <1>1, <2>1, <2>2 DEF OrphanProof
<1>7. CASE \E w \in Client, x \in Order : AskKey(w, x)
  <2>1. PICK w \in Client, x \in Order : AskKey(w, x)
    BY <1>7
  <2> DEFINE new == [row[x] EXCEPT !.keySent = TRUE]
  <2>2. new \in Doc
    BY Zenon, <1>0, DocChanged
  <2>3. new.status = row[x].status /\ new.fee = row[x].fee
    BY <1>0 DEF Doc
  <2>4. Write(x, row[x], new, FALSE) /\ UNCHANGED <<task, due>>
    BY <2>1 DEF AskKey
  <2> HIDE DEF new
  <2>5. x # o => row'[o] = row[o]
    BY <1>0, <2>2, <2>4, WriteEffect
  <2>6. row'[x].status = new.status /\ row'[x].fee = new.fee
    <3>1. row[x] \in Doc /\ Merge(row[x], row[x], new) = row'[x]
      BY <1>0, <2>4 DEF Write
    <3> QED
      BY <2>2, <3>1, MergeOwn
  <2>7. o \notin astray
    BY <1>0, <2>2, <2>4, WriteEffect
  <2>8. Unquoted(row[o])
    BY Zenon, <2>3, <2>5, <2>6 DEF Unquoted
  <2> QED
    BY <1>1, <2>4, <2>7, <2>8
<1>8. CASE UNCHANGED vars
  BY <1>0, <1>1, <1>8 DEF vars
<1> QED
  BY <1>3, <1>4, <1>5, <1>6, <1>7, <1>8, Steps

\* Where the delivery is paid by the distance and texts wait for each other, the key
\* of an order to be delivered goes out after its freight was quoted.
THEOREM KeyFollowsFreight == Spec => []KeyAfterFreight
<1>1. Init => FreightKnown /\ KeyAfterFreight
  BY DEF Init, FreightKnown, KeyAfterFreight, Unquoted, Absent, Fresh
<1>2. ASSUME IInv, FreightKnown, KeyAfterFreight, [Next]_vars
      PROVE  KeyAfterFreight'
  <2> SUFFICES ASSUME DistanceBased, OneTextAtATime PROVE early' \subseteq astray'
    BY DEF KeyAfterFreight
  <2>0. TypeOK /\ row \in [Order -> Doc] /\ Client \subseteq Worker
    BY <1>2 DEF IInv, TypeOK, Worker
  <2>1. ASSUME NEW w \in Worker, GoesOn(w) PROVE astray \subseteq astray' /\ early' = early
    BY <2>1 DEF GoesOn, Wrote, Write, Mild
  <2>2. ASSUME NEW w \in Client, NEW o \in Order, AskKey(w, o)
        PROVE  early' \subseteq astray'
    <3>1. task[w] = Idle /\ row[o].status = "aguardando_pagamento" /\ astray \subseteq astray'
          /\ early' = IF row[o].fee \/ o \notin due THEN early ELSE early \cup {o}
      BY <2>2 DEF AskKey, Write, KeyShown
    <3>2. ~QuotedSoon(o)
      BY <3>1 DEF OneTextAtATime, QuotedSoon, Idle
    <3>3. row[o].fee \/ o \notin due \/ o \in astray
      BY <1>2, <3>1, <3>2 DEF FreightKnown, Unquoted
    <3> QED
      BY <1>2, <3>1, <3>3 DEF KeyAfterFreight
  <2>3. CASE UNCHANGED vars
    BY <1>2, <2>3 DEF KeyAfterFreight, vars
  <2>4. CASE Next
    <3>1. ASSUME NEW w \in Worker, NEW o \in Order, NEW at \in At, NEW how \in How,
                 BegunBy(w, at, o, how)
          PROVE  UNCHANGED <<astray, early>>
      BY <3>1 DEF BegunBy, Begin
    <3>2. ASSUME NEW w \in Client, Create(w) PROVE UNCHANGED <<astray, early>>
      BY <3>2 DEF Create
    <3>3. ASSUME NEW p \in Proof, NEW o \in Order, OrphanProof(p, o)
          PROVE  UNCHANGED <<astray, early>>
      BY <3>3 DEF OrphanProof
    <3> QED
      BY <1>2, <2>1, <2>2, <2>4, <3>1, <3>2, <3>3, Steps DEF KeyAfterFreight
  <2> QED
    BY <1>2, <2>3, <2>4
<1>3. IInv /\ FreightKnown /\ [Next]_vars => FreightKnown'
  BY FreightStep
<1> QED
  BY <1>1, <1>2, <1>3, Grounded, PTL DEF Spec

---------------------------------------------------------------------------
(* One active order of a product.                                          *)

\* A step lets an order become active again only astray; a text creates one
\* where there was none.
LEMMA ActiveStep ==
    ASSUME IInv, [Next]_vars, NEW x \in Order, Active(x)', x \notin astray'
    PROVE  /\ x \notin astray
           /\ Active(x) \/ \E w \in Client : Create(w) /\ task[w].order = x
<1>0. TypeOK /\ row \in [Order -> Doc]
  BY DEF IInv, TypeOK
<1>1. ASSUME NEW o \in Order, NEW old \in Doc, NEW new \in Doc, NEW odd \in BOOLEAN,
             Write(o, old, new, odd), old.paused => new.paused
      PROVE  x \notin astray /\ Active(x)
  <2>1. x \notin astray
    BY <1>0, <1>1, WriteEffect
  <2>2. CASE x # o
    BY <1>0, <1>1, <2>1, <2>2, WriteEffect DEF Active
  <2>3. CASE x = o
    <3>1. row[x].status \in ActiveStatus
      BY <1>0, <1>1, <2>3, WriteEffect DEF Active
    <3>2. ~row[x].paused
      BY <1>0, <1>1, <2>3, WriteEffect DEF Active
    <3> QED
      BY <2>1, <3>1, <3>2 DEF Active
  <2> QED
    BY <2>2, <2>3
<1>2. ASSUME UNCHANGED <<row, astray>> PROVE x \notin astray /\ Active(x)
  BY <1>2 DEF Active
<1>3. ASSUME NEW w \in Worker, GoesOn(w) PROVE x \notin astray /\ Active(x)
  <2>1. task[w].order \in Order /\ task[w].doc \in Doc /\ row[task[w].order] \in Doc
    BY <1>3, UnderWay DEF GoesOn
  <2> QED
    BY <1>1, <1>2, <1>3, <2>1 DEF GoesOn, Wrote, Mild
<1>4. ASSUME NEW w \in Client, Create(w)
      PROVE  x \notin astray /\ (Active(x) \/ task[w].order = x)
  BY <1>0, <1>4 DEF Create, Active
<1>5. ASSUME NEW p \in Proof, NEW o \in Order, OrphanProof(p, o)
      PROVE  x \notin astray /\ Active(x)
  BY <1>0, <1>5 DEF OrphanProof, Active, Fresh, ActiveStatus
<1>6. ASSUME NEW w \in Client, NEW o \in Order, AskKey(w, o)
      PROVE  x \notin astray /\ Active(x)
  <2> DEFINE new == [row[o] EXCEPT !.keySent = TRUE]
  <2>1. new \in Doc
    BY Zenon, <1>0, DocChanged
  <2>2. new.paused = row[o].paused
    BY <1>0 DEF Doc
  <2>3. Write(o, row[o], new, FALSE)
    BY <1>6 DEF AskKey
  <2> HIDE DEF new
  <2> QED
    BY <1>0, <1>1, <2>1, <2>2, <2>3
<1>7. CASE UNCHANGED vars
  BY <1>2, <1>7 DEF vars
<1> QED
  BY <1>2, <1>3, <1>4, <1>5, <1>6, <1>7, Steps DEF BegunBy, Begin

\* What a text in the middle of creating an order relies on stays true.
LEMMA CreateStep ==
    ASSUME IInv, CreatesAlone, [Next]_vars
    PROVE  CreatesAlone'
<1> SUFFICES ASSUME OneTextAtATime,
                    NEW w \in Client, task'[w].at = "create", NEW x \in Order, Active(x)',
                    ProductOf[x] = ProductOf[task'[w].order], x \notin astray'
             PROVE  FALSE
  BY DEF CreatesAlone, Active
<1>0. task \in [Worker -> Task] /\ Client \subseteq Worker
  BY DEF IInv, TypeOK, Task, Worker
<1>1. \E v \in Client : Active(x) \/ (Create(v) /\ task[v].order = x)
  BY ActiveStep
<1>2. x \notin astray
  BY ActiveStep
<1>3. \A v \in Client : v = w
  BY DEF OneTextAtATime
<1>4. ~Create(w)
  <2> SUFFICES ASSUME Create(w) PROVE FALSE
    OBVIOUS
  <2>1. w \in Worker /\ task[w] \in Task
    BY <1>0
  <2>2. CASE Done(w)
    BY <1>0, <2>1, <2>2 DEF Done, Idle
  <2>3. ASSUME NEW doc, GoOn(w, "quoted", doc) PROVE FALSE
    BY <1>0, <2>1, <2>3 DEF GoOn, Task
  <2> QED
    BY <2>2, <2>3 DEF Create
<1>5. Active(x)
  BY <1>1, <1>3, <1>4
<1>6. task'[w] # task[w]
  BY <1>2, <1>5 DEF CreatesAlone
<1>7. ASSUME NEW v \in Worker, GoesOn(v) PROVE FALSE
  <2>1. v = w
    BY <1>6, <1>7, OthersStay, <1>0
  <2>2. w \in Worker /\ task[w] \in Task
    BY <1>0
  <2>3. CASE Done(w)
    BY <1>0, <2>2, <2>3 DEF Done, Idle
  <2>4. ASSUME NEW at \in {"freight", "notice", "autoApprove", "recalculated"}, NEW doc,
               GoOn(w, at, doc)
        PROVE  FALSE
    BY <1>0, <2>2, <2>4 DEF GoOn, Task
  <2> QED
    BY <1>7, <2>1, <2>3, <2>4 DEF GoesOn, MovedOn
<1>8. ASSUME NEW v \in Worker, NEW o \in Order, NEW at \in At, NEW how \in How,
             BegunBy(v, at, o, how)
      PROVE  FALSE
  <2>1. v = w /\ at = "create" /\ task'[w].order = o
    BY <1>0, <1>6, <1>8 DEF BegunBy, Begin
  <2> QED
    BY <1>5, <1>8, <2>1 DEF BegunBy
<1>9. Next
  BY <1>6 DEF vars
<1> QED
  BY <1>3, <1>4, <1>6, <1>7, <1>8, <1>9, Steps DEF OrphanProof, AskKey

\* Two orders of a product are active only when one of them came back from a
\* final status or was saved from a stale document.
THEOREM OneOrderPerProduct == Spec => []OneActivePerProduct
<1>1. Init => CreatesAlone /\ OneActivePerProduct
  BY DEF Init, CreatesAlone, OneActivePerProduct, Active, Absent, Fresh, ActiveStatus
<1>2. ASSUME IInv, CreatesAlone, OneActivePerProduct, [Next]_vars
      PROVE  OneActivePerProduct'
  <2> SUFFICES ASSUME OneTextAtATime,
                      NEW o \in Order, NEW x \in Order, o # x, Active(o)', Active(x)',
                      ProductOf[o] = ProductOf[x], o \notin astray', x \notin astray'
               PROVE  FALSE
    BY DEF OneActivePerProduct, Active
  <2>1. o \notin astray /\ x \notin astray
    BY <1>2, ActiveStep
  <2>2. ASSUME NEW w \in Client, Create(w), NEW y \in {o, x}, task[w].order = y
        PROVE  FALSE
    <3>1. PICK z \in {o, x} : z # y
      OBVIOUS
    <3>2. ~Active(z)
      BY <1>2, <2>1, <2>2, <3>1 DEF CreatesAlone, Create, Doing
    <3>3. PICK v \in Client : Create(v) /\ task[v].order = z
      BY <1>2, <3>2, ActiveStep
    <3> QED
      BY <2>2, <3>1, <3>3 DEF OneTextAtATime
  <2>3. Active(o) /\ Active(x)
    BY <1>2, <2>2, ActiveStep
  <2> QED
    BY <1>2, <2>1, <2>3 DEF OneActivePerProduct
<1>3. IInv /\ CreatesAlone /\ [Next]_vars => CreatesAlone'
  BY CreateStep
<1> QED
  BY <1>1, <1>2, <1>3, Grounded, PTL DEF Spec

=============================================================================
