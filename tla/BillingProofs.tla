--------------------------- MODULE BillingProofs ---------------------------
(***************************************************************************)
(* Type correctness of Billing, that the credits of a pack are added once   *)
(* and that a paid plan has an end, unless a fulfilment overlapped or was   *)
(* cut short, and that a plan which runs is kept: for any sales, any number *)
(* of handlers under way and any months and faults.                         *)
(***************************************************************************)
EXTENDS Billing, TLAPS

USE BillingAssumption

Plan    == {"starter", "pro"}
PlanOps == {"order", "org", "load", "upgrade", "dates", "mark"}
PackOps == {"pack", "grant", "credit"}

\* A checkout that has not opened its session yet.
Opening(t) == t.op = "gate" \/ (t.op = "expire" /\ t.sale # None)

\* What a handler may rely on between its steps: of its sale, and of the
\* document it loaded.
Fits(t, sales) ==
    /\ Opening(t) => t.sale \in Sale /\ t.item \in Plan /\ sales[t.sale].item = None
    /\ t.op \in PlanOps => t.sale \in Sale /\ t.item \in Plan /\ sales[t.sale].item = t.item
    /\ t.op \in PackOps => t.sale \in Sale /\ sales[t.sale].item = "pack"
    /\ t.op \in {"renew", "delete"} => t.sale \in Sale /\ sales[t.sale].item # None
    /\ t.op = "delete" => t.doc.sub = t.sale /\ t.doc.plan # "free"
    /\ t.op = "expire" => Expired(t.doc)

SalesFit(sales) == \A s \in Sale :
    /\ sales[s].item = None => sales[s].stripe = "none" /\ sales[s].order = "none"
    /\ sales[s].stripe = "none" => sales[s].item = None
    /\ sales[s].live => sales[s].stripe = "paid"

\* The inductive invariant behind the types: nothing is told of a sale that
\* was not opened, and a sale is opened by one handler.
TypeInv ==
    /\ TypeOK
    /\ SalesFit(sale)
    /\ \A e \in mail : sale[e.sale].item # None
    /\ \A w \in Worker : Fits(task[w], sale)
    /\ \A w, v \in Worker : Opening(task[w]) /\ v # w => task[v].sale # task[w].sale

---------------------------------------------------------------------------
(* Documents and handlers.                                                 *)

\* A worker without a request has nothing to rely on.
LEMMA IdleFits ==
    ASSUME NEW sales
    PROVE  Idle \in Task /\ Fits(Idle, sales) /\ Idle.sale = None /\ ~Opening(Idle)
BY DEF Idle, Task, Op, Org, NewOrg, Plans, Fits, Opening, PlanOps, PackOps

\* A save writes a document, field by field.
LEMMA MergeOrg ==
    ASSUME NEW stored \in Org, NEW doc \in Org, NEW new \in Org
    PROVE  /\ Merge(stored, doc, new) \in Org
           /\ Merge(stored, doc, new).plan =
                IF new.plan = doc.plan THEN stored.plan ELSE new.plan
           /\ Merge(stored, doc, new).until =
                IF new.until = doc.until THEN stored.until ELSE new.until
BY DEF Merge, Org

\* What Stripe makes of a sale.
LEMMA SaleRows ==
    ASSUME NEW q \in SaleRow, NEW live \in BOOLEAN
    PROVE  /\ [q EXCEPT !.live = live] \in SaleRow
           /\ [q EXCEPT !.stripe = "paid", !.live = live] \in SaleRow
BY Zenon DEF SaleRow

\* A handler that goes on keeps its event, its sale and its item.
LEMMA GoOnTask ==
    ASSUME TypeInv, NEW w \in Worker, NEW op \in Op, NEW doc \in Org, GoOn(w, op, doc)
    PROVE  \E t \in Task : /\ task' = [task EXCEPT ![w] = t]
                           /\ t.op = op /\ t.doc = doc
                           /\ t.sale = task[w].sale /\ t.item = task[w].item
<1> DEFINE t == [task[w] EXCEPT !.op = op, !.doc = doc]
<1>1. task[w] \in Task
  BY DEF TypeInv, TypeOK
<1>2. t \in Task /\ t.op = op /\ t.doc = doc /\ t.sale = task[w].sale /\ t.item = task[w].item
  BY <1>1 DEF Task
<1>3. task' = [task EXCEPT ![w] = t]
  BY DEF GoOn
<1> QED
  BY <1>2, <1>3

\* A handler that ends leaves a free worker; at most its own event is answered.
LEMMA DoneTask ==
    ASSUME TypeInv, NEW w \in Worker, Done(w)
    PROVE  /\ task' = [task EXCEPT ![w] = Idle]
           /\ mail' \subseteq mail /\ faults' \in 0..MaxFaults
BY DEF Done, Fault, TypeInv, TypeOK, BillingAssumption

\* One handler moves on to the task t, and a sale nobody else has may open.
LEMMA TaskStep ==
    ASSUME TypeInv, NEW w \in Worker, NEW t \in Task,
           task' = [task EXCEPT ![w] = t],
           \A s \in Sale : \/ sale'[s].item = sale[s].item
                           \/ /\ sale[s].item = None
                              /\ \A v \in Worker \ {w} : task[v].sale # s,
           Fits(t, sale'),
           \A v \in Worker \ {w} : Opening(t) \/ Opening(task[v]) => t.sale # task[v].sale
    PROVE  /\ task' \in [Worker -> Task]
           /\ \A v \in Worker : Fits(task'[v], sale')
           /\ \A v, x \in Worker : Opening(task'[v]) /\ x # v => task'[x].sale # task'[v].sale
<1>1. task \in [Worker -> Task]
  BY DEF TypeInv, TypeOK
<1>2. task' \in [Worker -> Task] /\ task'[w] = t /\ \A v \in Worker \ {w} : task'[v] = task[v]
  BY <1>1
<1>3. ASSUME NEW v \in Worker \ {w} PROVE Fits(task[v], sale')
  <2>1. Fits(task[v], sale)
    BY DEF TypeInv
  <2>2. task[v].sale \in Sale => \/ sale'[task[v].sale].item = sale[task[v].sale].item
    OBVIOUS
  <2> QED
    BY <2>1, <2>2 DEF Fits, Opening
<1>4. \A v, x \in Worker : Opening(task[v]) /\ x # v => task[x].sale # task[v].sale
  BY DEF TypeInv
<1> QED
  BY <1>2, <1>3, <1>4

\* A handler's step that leaves the sales alone.
LEMMA QuietStep ==
    ASSUME TypeInv, NEW w \in Worker, NEW t \in Task,
           task' = [task EXCEPT ![w] = t], Fits(t, sale),
           \/ t.sale = task[w].sale /\ (Opening(t) => Opening(task[w]))
           \/ t.sale = None
           \/ t.sale \in Sale /\ sale[t.sale].item # None
           \/ \A v \in Worker \ {w} : task[v].sale # t.sale,
           org' \in Org, mail' \subseteq mail, faults' \in 0..MaxFaults,
           UNCHANGED <<sale, due, months>>, credited' \in [Sale -> Nat], torn' \subseteq Sale
    PROVE  TypeInv'
<1>1. \A v \in Worker \ {w} : Opening(t) \/ Opening(task[v]) => t.sale # task[v].sale
  <2> SUFFICES ASSUME NEW v \in Worker \ {w}, Opening(t) \/ Opening(task[v])
               PROVE  t.sale # task[v].sale
    OBVIOUS
  <2>1. Opening(t) => t.sale \in Sale /\ sale[t.sale].item = None
    BY DEF Fits
  <2>2. Opening(task[v]) => task[v].sale \in Sale /\ sale[task[v].sale].item = None
    BY DEF TypeInv, Fits
  <2>3. None \notin Sale
    BY DEF BillingAssumption
  <2>4. Opening(task[v]) => task[w].sale # task[v].sale
    BY DEF TypeInv
  <2>5. Opening(task[w]) => task[w].sale # task[v].sale
    BY DEF TypeInv
  <2>6. task[v].sale = None \/ task[v].sale \in Sale
    BY DEF TypeInv, TypeOK, Task
  <2> QED
    BY <2>1, <2>2, <2>3, <2>4, <2>5, <2>6
<1>2. /\ task' \in [Worker -> Task]
      /\ \A v \in Worker : Fits(task'[v], sale')
      /\ \A v, x \in Worker : Opening(task'[v]) /\ x # v => task'[x].sale # task'[v].sale
  BY <1>1, TaskStep
<1>3. TypeOK'
  BY <1>2 DEF TypeInv, TypeOK
<1> QED
  BY <1>2, <1>3 DEF TypeInv

\* What Stripe, the owner or time do while the handlers stay where they are.
LEMMA WorldStep ==
    ASSUME TypeInv, UNCHANGED task,
           sale' \in [Sale -> SaleRow], SalesFit(sale'),
           \A s \in Sale : \/ sale'[s].item = sale[s].item
                           \/ sale[s].item = None /\ \A v \in Worker : task[v].sale # s,
           mail' \subseteq Event, \A e \in mail' : sale'[e.sale].item # None
    PROVE  /\ \A v \in Worker : Fits(task'[v], sale')
           /\ \A v, x \in Worker : Opening(task'[v]) /\ x # v => task'[x].sale # task'[v].sale
<1>1. ASSUME NEW v \in Worker PROVE Fits(task[v], sale')
  <2>1. Fits(task[v], sale)
    BY DEF TypeInv
  <2>2. task[v].sale \in Sale => sale'[task[v].sale].item = sale[task[v].sale].item
    OBVIOUS
  <2> QED
    BY <2>1, <2>2 DEF Fits, Opening
<1> QED
  BY <1>1 DEF TypeInv

---------------------------------------------------------------------------
(* Type correctness, action by action.                                     *)

\* At first there are no sales, no events and no handlers.
LEMMA InitTypeInv ==
    ASSUME Init
    PROVE  TypeInv
<1>1. NewOrg \in Org /\ Idle \in Task
  BY IdleFits DEF NewOrg, Org, Plans
<1>2. TypeOK
  BY <1>1 DEF Init, TypeOK, SaleRow, BillingAssumption
<1>3. SalesFit(sale)
  BY DEF Init, SalesFit
<1>4. \A w \in Worker : task[w] = Idle
  BY DEF Init
<1>5. mail = {}
  BY DEF Init
<1> QED
  BY <1>2, <1>3, <1>4, <1>5, IdleFits DEF TypeInv

\* Stripe, the owner and the events that need no handler.
StripeStep(s) ==
    Pay(s) \/ SessionExpires(s) \/ Charge(s) \/ CancelSubscription(s) \/ PackCheckout(s)

\* Stripe's own steps, and a checkout of credits.
LEMMA StripeTypeInv ==
    ASSUME TypeInv, NEW s \in Sale, StripeStep(s)
    PROVE  TypeInv'
<1> USE DEF Told
<1>0. /\ sale \in [Sale -> SaleRow] /\ SalesFit(sale) /\ mail \subseteq Event
      /\ due \subseteq {x \in Sale : sale[x].live}
      /\ \A e \in mail : sale[e.sale].item # None /\ e.sale \in Sale
  BY DEF TypeInv, TypeOK, Event
<1>1. CASE Pay(s)
  <2>0. PICK live \in BOOLEAN : live = (sale[s].item # "pack")
    OBVIOUS
  <2>1. sale' = [sale EXCEPT ![s].stripe = "paid", ![s].live = live]
    BY <1>1, <2>0 DEF Pay
  <2>a. sale[s].stripe = "open"
    BY <1>1 DEF Pay
  <2>b. sale' = [sale EXCEPT ![s] = [sale[s] EXCEPT !.stripe = "paid", !.live = live]]
    BY <1>0, <2>1
  <2>e. sale' \in [Sale -> SaleRow]
    BY <1>0, <2>b, SaleRows
  <2>c. sale'[s].item = sale[s].item /\ sale'[s].order = sale[s].order /\ sale'[s].stripe = "paid"
    BY <1>0, <2>1 DEF SaleRow
  <2>d. \A x \in Sale : x # s => sale'[x] = sale[x]
    BY <1>0, <2>1
  <2>2. sale' \in [Sale -> SaleRow] /\ SalesFit(sale')
    BY <1>0, <2>a, <2>e, <2>c, <2>d DEF SalesFit
  <2>3. \A x \in Sale : sale'[x].item = sale[x].item /\ (sale[x].live => sale'[x].live)
    BY <1>0, <1>1, <2>1 DEF Pay, SaleRow, SalesFit
  <2>4. sale[s].item # None
    BY <1>0, <1>1 DEF Pay, SalesFit
  <2>5. mail' \subseteq Event /\ \A e \in mail' : sale'[e.sale].item # None
    BY <1>0, <1>1, <2>3, <2>4 DEF Pay, Event
  <2>6. TypeOK'
    BY <1>0, <1>1, <2>2, <2>3, <2>5 DEF Pay, TypeInv, TypeOK
  <2> QED
    BY <1>1, <2>2, <2>3, <2>5, <2>6, WorldStep DEF Pay, TypeInv
<1>2. CASE SessionExpires(s)
  <2>1. sale' = [sale EXCEPT ![s].stripe = "expired"]
    BY <1>2 DEF SessionExpires
  <2>2. sale' \in [Sale -> SaleRow] /\ SalesFit(sale')
    BY <1>0, <1>2, <2>1 DEF SessionExpires, SaleRow, SalesFit
  <2>3. \A x \in Sale : sale'[x].item = sale[x].item /\ sale'[x].live = sale[x].live
    BY <1>0, <2>1 DEF SaleRow
  <2>4. sale[s].item # None
    BY <1>0, <1>2 DEF SessionExpires, SalesFit
  <2>5. mail' \subseteq Event /\ \A e \in mail' : sale'[e.sale].item # None
    BY <1>0, <1>2, <2>3, <2>4 DEF SessionExpires, Event
  <2>6. TypeOK'
    BY <1>0, <1>2, <2>2, <2>3, <2>5 DEF SessionExpires, TypeInv, TypeOK
  <2> QED
    BY <1>2, <2>2, <2>3, <2>5, <2>6, WorldStep DEF SessionExpires, TypeInv
<1>3. CASE Charge(s)
  <2>1. sale[s].item # None
    BY <1>0, <1>3 DEF Charge, SalesFit
  <2>2. mail' \subseteq Event /\ \A e \in mail' : sale'[e.sale].item # None
    BY <1>0, <1>3, <2>1 DEF Charge, Event
  <2>3. TypeOK'
    BY <1>0, <1>3, <2>2 DEF Charge, TypeInv, TypeOK
  <2> QED
    BY <1>0, <1>3, <2>2, <2>3, WorldStep DEF Charge, TypeInv
<1>4. CASE CancelSubscription(s)
  <2>1. sale' = [sale EXCEPT ![s].live = FALSE]
    BY <1>4 DEF CancelSubscription
  <2>2. sale' \in [Sale -> SaleRow] /\ SalesFit(sale')
    <3>0. sale' = [sale EXCEPT ![s] = [sale[s] EXCEPT !.live = FALSE]]
      BY <1>0, <2>1
    <3>1. sale' \in [Sale -> SaleRow]
      BY <1>0, <3>0, SaleRows
    <3>2. /\ sale'[s].item = sale[s].item /\ sale'[s].order = sale[s].order
          /\ sale'[s].stripe = sale[s].stripe
      BY <1>0, <2>1 DEF SaleRow
    <3>3. sale'[s].live = FALSE
      BY <1>0, <2>1 DEF SaleRow
    <3>4. \A x \in Sale : x # s => sale'[x] = sale[x]
      BY <1>0, <2>1
    <3> QED
      BY <1>0, <3>1, <3>2, <3>3, <3>4 DEF SalesFit
  <2>3. \A x \in Sale : /\ sale'[x].item = sale[x].item
                        /\ x # s => sale'[x].live = sale[x].live
    BY <1>0, <2>1 DEF SaleRow
  <2>4. sale[s].item # None
    BY <1>0, <1>4 DEF CancelSubscription, SalesFit
  <2>5. mail' \subseteq Event /\ \A e \in mail' : sale'[e.sale].item # None
    BY <1>0, <1>4, <2>3, <2>4 DEF CancelSubscription, Event
  <2>6. due' \subseteq {x \in Sale : sale'[x].live}
    BY <1>0, <1>4, <2>3 DEF CancelSubscription
  <2>7. TypeOK'
    BY <1>4, <2>2, <2>5, <2>6 DEF CancelSubscription, TypeInv, TypeOK
  <2> QED
    BY <1>4, <2>2, <2>3, <2>5, <2>7, WorldStep DEF CancelSubscription, TypeInv
<1>5. CASE PackCheckout(s)
  <2>1. sale' = [sale EXCEPT ![s] = [item |-> "pack", order |-> "pending",
                                     stripe |-> "open", live |-> FALSE]]
    BY <1>5 DEF PackCheckout, Opened
  <2>2. sale' \in [Sale -> SaleRow] /\ SalesFit(sale')
    BY <1>0, <1>5, <2>1 DEF PackCheckout, SaleRow, SalesFit, BillingAssumption
  <2>3. \A x \in Sale : x # s => sale'[x] = sale[x]
    BY <1>0, <2>1
  <2>4. sale[s].item = None /\ (\A v \in Worker : task[v].sale # s) /\ ~sale[s].live
    BY <1>0, <1>5 DEF PackCheckout, SalesFit
  <2>5. mail' \subseteq Event /\ \A e \in mail' : sale'[e.sale].item # None
    BY <1>0, <1>5, <2>3, <2>4 DEF PackCheckout, Event
  <2>6. TypeOK'
    BY <1>0, <1>5, <2>2, <2>3, <2>4 DEF PackCheckout, TypeInv, TypeOK
  <2> QED
    BY <1>5, <2>2, <2>3, <2>4, <2>5, <2>6, WorldStep DEF PackCheckout, TypeInv
<1> QED
  BY <1>1, <1>2, <1>3, <1>4, <1>5 DEF StripeStep

\* A handler of one of Stripe's events begins.
LEMMA EventTypeInv ==
    ASSUME TypeInv, NEW w \in Worker, EventLoad(w)
    PROVE  TypeInv'
<1> USE DEF Told
<1>0. /\ sale \in [Sale -> SaleRow] /\ SalesFit(sale) /\ mail \subseteq Event /\ org \in Org
      /\ \A e \in mail : sale[e.sale].item # None
      /\ faults \in 0..MaxFaults /\ task \in [Worker -> Task]
      /\ credited \in [Sale -> Nat] /\ torn \subseteq Sale
  BY DEF TypeInv, TypeOK
<1>1. ASSUME NEW s \in Sale, CompletedLoad(w, s) PROVE TypeInv'
  <2> DEFINE op == IF sale[s].item = "pack" THEN "pack" ELSE "order"
             t  == [op |-> op, event |-> Told("completed", s), sale |-> s,
                    item |-> sale[s].item, doc |-> org]
  <2>1. task' = [task EXCEPT ![w] = t]
    BY <1>1 DEF CompletedLoad, Begin
  <2>2. Told("completed", s) \in mail /\ faults' \in 0..MaxFaults
    BY <1>0, <1>1 DEF CompletedLoad, Deliverable, Fault, BillingAssumption
  <2>3. sale[s].item \in Item /\ sale[s].item # None /\ sale[s].item \in Item \cup {None}
    BY <1>0, <2>2 DEF SaleRow
  <2>4. t \in Task
    BY <1>0, <2>2, <2>3 DEF Task, Op, Event
  <2>5. Fits(t, sale)
    BY <2>3 DEF Fits, Opening, PlanOps, PackOps, Plan, BillingAssumption
  <2> HIDE DEF t
  <2>6. t.sale = s
    BY DEF t
  <2> QED
    BY <1>0, <1>1, <2>1, <2>2, <2>3, <2>4, <2>5, <2>6, QuietStep DEF CompletedLoad, World
<1>2. ASSUME NEW s \in Sale, CancelOrder(w, s) PROVE TypeInv'
  <2>1. sale' = sale \/ (sale[s].order = "pending"
                         /\ sale' = [sale EXCEPT ![s].order = "cancelled"])
    BY <1>2 DEF CancelOrder
  <2>2. sale' \in [Sale -> SaleRow]
    BY <1>0, <2>1 DEF SaleRow
  <2>3. \A x \in Sale : /\ sale'[x].item = sale[x].item /\ sale'[x].stripe = sale[x].stripe
                        /\ sale'[x].live = sale[x].live
                        /\ sale'[x].order # sale[x].order => sale[x].order = "pending"
    BY <1>0, <2>1 DEF SaleRow
  <2>4. SalesFit(sale')
    BY <1>0, <2>3 DEF SalesFit
  <2>5. mail' \subseteq Event /\ \A e \in mail' : sale'[e.sale].item # None
    BY <1>0, <1>2, <2>3 DEF CancelOrder, Event
  <2>6. TypeOK'
    BY <1>2, <2>2, <2>3, <2>5 DEF CancelOrder, TypeInv, TypeOK
  <2> QED
    BY <1>2, <2>2, <2>3, <2>4, <2>5, <2>6, WorldStep DEF CancelOrder, TypeInv
<1>3. ASSUME NEW s \in Sale, NEW kind \in {"paid", "deleted"}, SubscriptionLoad(w, s, kind)
      PROVE  TypeInv'
  <2>1. Told(kind, s) \in mail /\ faults' \in 0..MaxFaults
    BY <1>0, <1>3 DEF SubscriptionLoad, Deliverable, Fault, BillingAssumption
  <2>2. CASE org.sub = s /\ org.plan # "free"
    <3> DEFINE t == [op |-> OpOf[kind], event |-> Told(kind, s), sale |-> s,
                     item |-> sale[s].item, doc |-> org]
    <3>1. task' = [task EXCEPT ![w] = t] /\ mail' = mail
      BY <1>3, <2>2 DEF SubscriptionLoad, Begin
    <3>2. OpOf[kind] \in {"renew", "delete"}
      BY DEF OpOf
    <3>3. sale[s].item \in Item \cup {None} /\ sale[s].item # None
      BY <1>0, <2>1 DEF SaleRow
    <3>4. t \in Task
      BY <1>0, <2>1, <3>2, <3>3 DEF Task, Op, Event
    <3>5. Fits(t, sale)
      BY <2>2, <3>2, <3>3 DEF Fits, Opening, PlanOps, PackOps
    <3> HIDE DEF t
    <3>6. t.sale = s
      BY DEF t
    <3> QED
      BY <1>0, <1>3, <2>1, <3>1, <3>3, <3>4, <3>5, <3>6, QuietStep DEF SubscriptionLoad, World
  <2>3. CASE ~(org.sub = s /\ org.plan # "free")
    <3>1. mail' = mail \ {Told(kind, s)} /\ task' = task
      BY <1>3, <2>3 DEF SubscriptionLoad
    <3> QED
      BY <1>0, <1>3, <2>1, <3>1 DEF SubscriptionLoad, World, TypeInv, TypeOK
  <2> QED
    BY <2>2, <2>3
<1> QED
  BY <1>1, <1>2, <1>3 DEF EventLoad

\* Without a handler's own step.
LEMMA TimeTypeInv ==
    ASSUME TypeInv, MonthPasses
    PROVE  TypeInv'
<1>1. org' \in Org
  BY DEF MonthPasses, TypeInv, TypeOK, Org
<1>2. due' \subseteq {s \in Sale : sale'[s].live} /\ months' \in 0..MaxMonths
  BY DEF MonthPasses, TypeInv, TypeOK, BillingAssumption
<1> QED
  BY <1>1, <1>2 DEF MonthPasses, TypeInv, TypeOK

\* Handlers that throw or die.
LEMMA FailsTypeInv ==
    ASSUME TypeInv, NEW W \in SUBSET Worker, Fails(W)
    PROVE  TypeInv'
<1>1. task \in [Worker -> Task]
  BY DEF TypeInv, TypeOK
<1>2. \A w \in Worker : task'[w] = IF w \in W THEN Idle ELSE task[w]
  BY DEF Fails
<1>3. task' \in [Worker -> Task]
  BY <1>1, IdleFits DEF Fails
<1>4. \A w \in Worker : Fits(task'[w], sale)
  BY <1>2, IdleFits DEF TypeInv
<1>5. \A w, v \in Worker : Opening(task'[w]) /\ v # w => task'[v].sale # task'[w].sale
  <2> SUFFICES ASSUME NEW w \in Worker, NEW v \in Worker, Opening(task'[w]), v # w
               PROVE  task'[v].sale # task'[w].sale
    OBVIOUS
  <2>1. task'[w] = task[w]
    BY <1>2, IdleFits
  <2>2. task[w].sale \in Sale /\ task[v].sale # task[w].sale
    BY <2>1 DEF TypeInv, Fits
  <2>3. None \notin Sale
    BY DEF BillingAssumption
  <2> QED
    BY <1>2, <2>1, <2>2, <2>3, IdleFits
<1>6. \A w \in W : task[w].op \in {"dates", "credit"} => task[w].sale \in Sale
  <2>1. \A w \in W : Fits(task[w], sale)
    BY DEF TypeInv
  <2> QED
    BY <2>1 DEF Fits, PlanOps, PackOps
<1>7. torn' \subseteq Sale
  BY <1>6 DEF Fails, TypeInv, TypeOK
<1>8. faults' \in 0..MaxFaults
  BY DEF Fails, Fault, TypeInv, TypeOK, BillingAssumption
<1> QED
  BY <1>3, <1>4, <1>5, <1>7, <1>8 DEF Fails, TypeInv, TypeOK

\* The handlers that begin without an event.
LEMMA BeginTypeInv ==
    ASSUME TypeInv, NEW w \in Worker,
           \/ ExpireLoad(w)
           \/ \E s \in Sale : \/ ConfirmOrder(w, s)
                              \/ \E item \in Item : Checkout(w, s, item)
    PROVE  TypeInv'
<1>0. /\ sale \in [Sale -> SaleRow] /\ SalesFit(sale) /\ org \in Org
      /\ faults \in 0..MaxFaults /\ task \in [Worker -> Task]
      /\ credited \in [Sale -> Nat] /\ torn \subseteq Sale
  BY DEF TypeInv, TypeOK
<1>1. CASE ExpireLoad(w)
  <2> DEFINE t == [Idle EXCEPT !.op = "expire", !.doc = org]
  <2>1. task' = [task EXCEPT ![w] = t] /\ Expired(org)
    BY <1>1 DEF ExpireLoad
  <2>2. t \in Task /\ t.sale = None
    BY <1>0 DEF Idle, Task, Op
  <2>3. Fits(t, sale)
    BY <1>0, <2>1 DEF Fits, Opening, PlanOps, PackOps, Idle
  <2> HIDE DEF t
  <2> QED
    BY <1>0, <1>1, <2>1, <2>2, <2>3, QuietStep DEF ExpireLoad, World
<1>2. ASSUME NEW s \in Sale, ConfirmOrder(w, s) PROVE TypeInv'
  <2> DEFINE op == IF sale[s].item = "pack" THEN "pack"
                   ELSE IF sale[s].order = "paid" THEN "org" ELSE "load"
             t  == [op |-> op, event |-> None, sale |-> s, item |-> sale[s].item,
                    doc |-> NewOrg]
  <2>1. task' = [task EXCEPT ![w] = t]
    BY <1>2 DEF ConfirmOrder, Begin
  <2>2. sale[s].item \in Item /\ sale[s].item # None
    BY <1>0, <1>2 DEF ConfirmOrder, SalesFit, SaleRow
  <2>3. NewOrg \in Org
    BY DEF NewOrg, Org, Plans
  <2>4. t \in Task
    BY <2>2, <2>3 DEF Task, Op
  <2>5. Fits(t, sale)
    BY <2>2 DEF Fits, Opening, PlanOps, PackOps, Plan, BillingAssumption
  <2> HIDE DEF t
  <2>6. t.sale = s
    BY DEF t
  <2> QED
    BY <1>0, <1>2, <2>1, <2>2, <2>4, <2>5, <2>6, QuietStep DEF ConfirmOrder, World
<1>3. ASSUME NEW s \in Sale, NEW item \in Item, Checkout(w, s, item) PROVE TypeInv'
  <2> DEFINE t == [op |-> IF Expired(org) THEN "expire" ELSE "gate", event |-> None,
                   sale |-> s, item |-> item, doc |-> org]
  <2>1. task' = [task EXCEPT ![w] = t]
    BY <1>3 DEF Checkout
  <2>2. /\ item \in Plan /\ sale[s].item = None
        /\ \A v \in Worker : task[v].sale # s
    BY <1>3 DEF Checkout, Plan, BillingAssumption
  <2>3. t \in Task
    BY <1>0 DEF Task, Op
  <2>4. Fits(t, sale)
    BY <2>2 DEF Fits, Opening, PlanOps, PackOps
  <2> HIDE DEF t
  <2>5. t.sale = s
    BY DEF t
  <2> QED
    BY <1>0, <1>3, <2>1, <2>2, <2>3, <2>4, <2>5, QuietStep DEF Checkout, World
<1> QED
  BY <1>1, <1>2, <1>3

\* A handler that moves on with its sale, or ends, and leaves the sales alone.
LEMMA GoOnTypeInv ==
    ASSUME TypeInv, NEW w \in Worker, NEW op \in Op, NEW doc \in Org,
           GoOn(w, op, doc),
           \/ op \in PlanOps /\ task[w].op \in PlanOps
           \/ op \in PackOps /\ task[w].op \in PackOps
           \/ op = "gate" /\ Opening(task[w]),
           org' \in Org, mail' = mail, UNCHANGED <<sale, due, months, faults>>,
           credited' \in [Sale -> Nat], torn' \subseteq Sale
    PROVE  TypeInv'
<1>1. PICK t \in Task : /\ task' = [task EXCEPT ![w] = t]
                        /\ t.op = op /\ t.doc = doc
                        /\ t.sale = task[w].sale /\ t.item = task[w].item
  BY GoOnTask
<1>2. Fits(task[w], sale)
  BY DEF TypeInv
<1>3. Fits(t, sale) /\ (Opening(t) => Opening(task[w]))
  BY <1>1, <1>2 DEF Fits, Opening, PlanOps, PackOps
<1>4. faults' \in 0..MaxFaults
  BY DEF TypeInv, TypeOK
<1> QED
  BY <1>1, <1>3, <1>4, QuietStep

\* A handler that ends and leaves the sales alone.
LEMMA DoneTypeInv ==
    ASSUME TypeInv, NEW w \in Worker, Done(w),
           org' \in Org, UNCHANGED <<sale, due, months>>,
           credited' \in [Sale -> Nat], torn' \subseteq Sale
    PROVE  TypeInv'
BY DoneTask, IdleFits, QuietStep

\* The order of a sale that was opened is paid.
LEMMA OrderPaidFits ==
    ASSUME TypeInv, NEW s \in Sale, OrderPaid(s), sale[s].item # None
    PROVE  /\ sale' \in [Sale -> SaleRow] /\ SalesFit(sale')
           /\ \A x \in Sale : sale'[x].item = sale[x].item /\ sale'[x].live = sale[x].live
<1>1. sale \in [Sale -> SaleRow] /\ SalesFit(sale)
  BY DEF TypeInv, TypeOK
<1>2. sale' = [sale EXCEPT ![s].order = "paid"]
  BY DEF OrderPaid
<1>3. sale' \in [Sale -> SaleRow]
  BY <1>1, <1>2 DEF SaleRow
<1>4. \A x \in Sale : /\ sale'[x].item = sale[x].item /\ sale'[x].stripe = sale[x].stripe
                      /\ sale'[x].live = sale[x].live
                      /\ x # s => sale'[x].order = sale[x].order
  BY <1>1, <1>2 DEF SaleRow
<1> QED
  BY <1>1, <1>3, <1>4 DEF SalesFit

\* Every later step of a handler.
LEMMA GoesOnTypeInv ==
    ASSUME TypeInv, NEW w \in Worker, GoesOn(w)
    PROVE  TypeInv'
<1>0. /\ sale \in [Sale -> SaleRow] /\ SalesFit(sale) /\ org \in Org /\ mail \subseteq Event
      /\ task \in [Worker -> Task] /\ task[w] \in Task /\ task[w].doc \in Org
      /\ credited \in [Sale -> Nat] /\ torn \subseteq Sale /\ NewOrg \in Org
      /\ Fits(task[w], sale)
  BY DEF TypeInv, TypeOK, Task, NewOrg, Org, Plans
<1>1. CASE CompletedOrder(w)
  <2>1. CASE Done(w)
    BY <1>0, <1>1, <2>1, DoneTypeInv DEF CompletedOrder, World
  <2>2. CASE GoOn(w, "load", NewOrg) /\ UNCHANGED <<mail, faults>>
    BY <1>0, <1>1, <2>2, GoOnTypeInv DEF CompletedOrder, World, Doing, PlanOps, Op
  <2> QED
    BY <1>1, <2>1, <2>2 DEF CompletedOrder
<1>2. CASE ConfirmOrg(w)
  <2>1. CASE Done(w)
    BY <1>0, <1>2, <2>1, DoneTypeInv DEF ConfirmOrg, World
  <2>2. CASE GoOn(w, "load", NewOrg) /\ UNCHANGED <<mail, faults>>
    BY <1>0, <1>2, <2>2, GoOnTypeInv DEF ConfirmOrg, World, Doing, PlanOps, Op
  <2> QED
    BY <1>2, <2>1, <2>2 DEF ConfirmOrg
<1>3. CASE ActivateLoad(w)
  BY <1>0, <1>3, GoOnTypeInv DEF ActivateLoad, World, Doing, PlanOps, Op
<1>4. CASE UpgradePlan(w)
  <2> DEFINE new == [task[w].doc EXCEPT !.plan = task[w].item]
  <2>1. task[w].item \in Plan
    BY <1>0, <1>4 DEF UpgradePlan, Doing, Fits, PlanOps
  <2>2. new \in Org
    BY <1>0, <2>1 DEF Org, Plans, Plan
  <2>3. org' = Merge(org, task[w].doc, new) /\ GoOn(w, "dates", new)
    BY <1>4 DEF UpgradePlan
  <2> HIDE DEF new
  <2>4. org' \in Org
    BY <1>0, <2>2, <2>3, MergeOrg
  <2> QED
    BY <1>0, <1>4, <2>2, <2>3, <2>4, GoOnTypeInv DEF UpgradePlan, World, Doing, PlanOps, Op
<1>5. CASE SetDates(w)
  <2> DEFINE new == [task[w].doc EXCEPT !.until = 1, !.sub = task[w].sale]
  <2>1. task[w].sale \in Sale
    BY <1>0, <1>5 DEF SetDates, Doing, Fits, PlanOps
  <2>2. new \in Org
    BY <1>0, <2>1 DEF Org
  <2>3. org' = [Merge(org, task[w].doc, new) EXCEPT !.until = 1]
    BY <1>5 DEF SetDates
  <2> HIDE DEF new
  <2>4. org' \in Org
    BY <1>0, <2>2, <2>3, MergeOrg DEF Org
  <2> QED
    BY <1>0, <1>5, <2>4, GoOnTypeInv DEF SetDates, World, Doing, PlanOps, Op
<1>6. CASE FindPaid(w)
  <2>1. task[w].sale \in Sale
    BY <1>0, <1>6 DEF FindPaid, Doing, Fits, PackOps
  <2>2. torn' \subseteq Sale
    BY <1>0, <1>6, <2>1 DEF FindPaid
  <2>3. CASE Done(w)
    BY <1>0, <1>6, <2>2, <2>3, DoneTypeInv DEF FindPaid
  <2>4. CASE GoOn(w, "grant", NewOrg) /\ UNCHANGED <<mail, faults>>
    BY <1>0, <1>6, <2>2, <2>4, GoOnTypeInv DEF FindPaid, Doing, PackOps, Op
  <2> QED
    BY <1>6, <2>3, <2>4 DEF FindPaid
<1>7. CASE AddCredits(w)
  <2>1. task[w].sale \in Sale
    BY <1>0, <1>7 DEF AddCredits, Doing, Fits, PackOps
  <2>2. credited' \in [Sale -> Nat]
    BY <1>0, <1>7, <2>1 DEF AddCredits
  <2> QED
    BY <1>0, <1>7, <2>2, DoneTypeInv DEF AddCredits
<1>8. CASE Renew(w)
  <2> DEFINE left == IF task[w].doc.until = None THEN 0 ELSE task[w].doc.until
             new  == [task[w].doc EXCEPT !.until = left + 1]
  <2>1. new \in Org
    BY <1>0 DEF Org
  <2>2. org' = Merge(org, task[w].doc, new) /\ Done(w) /\ UNCHANGED World
    BY <1>8 DEF Renew
  <2> HIDE DEF new
  <2> QED
    BY <1>0, <2>1, <2>2, MergeOrg, DoneTypeInv DEF World
<1>9. ASSUME DeleteSave(w) \/ ExpireSave(w) PROVE TypeInv'
  <2> DEFINE new == [task[w].doc EXCEPT !.plan = "free", !.until = None, !.sub = None]
  <2>1. new \in Org
    BY <1>0 DEF Org, Plans
  <2>2. org' = Merge(org, task[w].doc, new) /\ UNCHANGED World
    BY <1>9 DEF DeleteSave, ExpireSave, Freed
  <2> HIDE DEF new
  <2>3. org' \in Org
    BY <1>0, <2>1, <2>2, MergeOrg
  <2>4. CASE Done(w)
    BY <1>0, <2>2, <2>3, <2>4, DoneTypeInv DEF World
  <2>5. CASE ExpireSave(w) /\ task[w].sale # None /\ GoOn(w, "gate", NewOrg)
             /\ UNCHANGED <<mail, faults>>
    BY <1>0, <2>2, <2>3, <2>5, GoOnTypeInv DEF ExpireSave, World, Doing, Opening, Op
  <2> QED
    BY <1>9, <2>4, <2>5 DEF DeleteSave, ExpireSave
<1>10. CASE Gate(w)
  <2> DEFINE s == task[w].sale  item == task[w].item
  <2>0. /\ s \in Sale /\ item \in Plan /\ sale[s].item = None /\ Opening(task[w])
        /\ item \in Item
    BY <1>0, <1>10 DEF Gate, Doing, Fits, Opening, Task, Plan, BillingAssumption
  <2>1. CASE UNCHANGED sale
    BY <1>0, <1>10, <2>1, DoneTypeInv DEF Gate
  <2>2. CASE Opened(s, item)
    <3>1. sale' = [sale EXCEPT ![s] = [item |-> item, order |-> "pending",
                                       stripe |-> "open", live |-> FALSE]]
      BY <2>2 DEF Opened
    <3>2. sale' \in [Sale -> SaleRow] /\ SalesFit(sale')
      BY <1>0, <2>0, <3>1 DEF SaleRow, SalesFit, Plan, BillingAssumption
    <3>3. \A x \in Sale : x # s => sale'[x] = sale[x]
      BY <1>0, <3>1
    <3>4. ~sale[s].live /\ \A v \in Worker \ {w} : task[v].sale # s
      BY <1>0, <2>0 DEF SalesFit, TypeInv
    <3>5. /\ task' = [task EXCEPT ![w] = Idle]
          /\ mail' \subseteq mail /\ faults' \in 0..MaxFaults
      BY <1>10, DoneTask DEF Gate
    <3>6. Idle \in Task /\ Fits(Idle, sale') /\ Idle.sale = None /\ ~Opening(Idle)
      BY IdleFits
    <3>7. \A v \in Worker \ {w} : Opening(Idle) \/ Opening(task[v]) => Idle.sale # task[v].sale
      BY <3>6 DEF TypeInv, Fits, BillingAssumption
    <3>a. \A x \in Sale : \/ sale'[x].item = sale[x].item
                          \/ /\ sale[x].item = None
                             /\ \A v \in Worker \ {w} : task[v].sale # x
      BY <2>0, <3>3, <3>4
    <3>8. /\ task' \in [Worker -> Task]
          /\ \A v \in Worker : Fits(task'[v], sale')
          /\ \A v, x \in Worker : Opening(task'[v]) /\ x # v => task'[x].sale # task'[v].sale
      BY <3>5, <3>6, <3>7, <3>a, TaskStep
    <3>9. \A e \in mail' : sale'[e.sale].item # None
      BY <1>0, <2>0, <3>3, <3>5 DEF TypeInv, Event
    <3>10. TypeOK'
      BY <1>0, <1>10, <3>2, <3>3, <3>4, <3>5, <3>8 DEF Gate, TypeInv, TypeOK
    <3> QED
      BY <3>2, <3>8, <3>9, <3>10 DEF TypeInv
  <2> QED
    BY <1>10, <2>1, <2>2 DEF Gate
<1>11. ASSUME MarkPaid(w) \/ GrantPack(w) PROVE TypeInv'
  <2> DEFINE s == task[w].sale
  <2>0. s \in Sale /\ sale[s].item # None /\ OrderPaid(s)
    BY <1>0, <1>11 DEF MarkPaid, GrantPack, Doing, Fits, PlanOps, PackOps, Plan, BillingAssumption
  <2>1. /\ sale' \in [Sale -> SaleRow] /\ SalesFit(sale')
        /\ \A x \in Sale : sale'[x].item = sale[x].item /\ sale'[x].live = sale[x].live
    BY <2>0, OrderPaidFits
  <2>2. \E t \in Task : /\ task' = [task EXCEPT ![w] = t] /\ Fits(t, sale') /\ ~Opening(t)
                        /\ t.sale \in {s, None}
    <3>1. CASE MarkPaid(w)
      BY <3>1, DoneTask, IdleFits DEF MarkPaid
    <3>2. CASE GrantPack(w)
      <4>1. PICK t \in Task : /\ task' = [task EXCEPT ![w] = t]
                              /\ t.op = "credit" /\ t.sale = s
        BY <1>0, <3>2, GoOnTask DEF GrantPack, Op
      <4>2. sale[s].item = "pack"
        BY <1>0, <3>2 DEF GrantPack, Doing, Fits, PackOps
      <4> QED
        BY <2>0, <2>1, <4>1, <4>2 DEF Fits, Opening, PlanOps, PackOps
    <3> QED
      BY <1>11, <3>1, <3>2
  <2>3. PICK t \in Task : /\ task' = [task EXCEPT ![w] = t] /\ Fits(t, sale') /\ ~Opening(t)
                          /\ t.sale \in {s, None}
    BY <2>2
  <2>4. \A v \in Worker \ {w} : Opening(task[v]) => t.sale # task[v].sale
    BY <2>0, <2>3 DEF TypeInv, Fits, BillingAssumption
  <2>5. /\ task' \in [Worker -> Task]
        /\ \A v \in Worker : Fits(task'[v], sale')
        /\ \A v, x \in Worker : Opening(task'[v]) /\ x # v => task'[x].sale # task'[v].sale
    BY <2>1, <2>3, <2>4, TaskStep
  <2>6. mail' \subseteq mail /\ faults' \in 0..MaxFaults
    BY <1>11, DoneTask DEF MarkPaid, GrantPack, TypeInv, TypeOK
  <2>7. TypeOK'
    BY <1>0, <1>11, <2>1, <2>5, <2>6 DEF MarkPaid, GrantPack, TypeInv, TypeOK
  <2>8. \A e \in mail' : sale'[e.sale].item # None
    BY <1>0, <2>1, <2>6 DEF TypeInv, Event
  <2> QED
    BY <2>1, <2>5, <2>7, <2>8 DEF TypeInv
<1> QED
  BY <1>1, <1>2, <1>3, <1>4, <1>5, <1>6, <1>7, <1>8, <1>9, <1>10, <1>11 DEF GoesOn

\* Every step keeps the invariant.
LEMMA NextTypeInv ==
    ASSUME TypeInv, [Next]_vars
    PROVE  TypeInv'
<1>1. CASE \E s \in Sale : StripeStep(s)
  BY <1>1, StripeTypeInv
<1>2. CASE MonthPasses
  BY <1>2, TimeTypeInv
<1>3. CASE \E w \in Worker : EventLoad(w)
  BY <1>3, EventTypeInv
<1>4. CASE \E w \in Worker : GoesOn(w)
  BY <1>4, GoesOnTypeInv
<1>5. CASE \E w \in Worker : \/ ExpireLoad(w)
                             \/ \E s \in Sale : \/ ConfirmOrder(w, s)
                                                \/ \E item \in Item : Checkout(w, s, item)
  BY <1>5, BeginTypeInv
<1>6. CASE \E W \in SUBSET Worker \ {{}} : Fails(W)
  BY <1>6, FailsTypeInv
<1>7. CASE UNCHANGED vars
  BY <1>7 DEF vars, TypeInv, TypeOK
<1> QED
  BY <1>1, <1>2, <1>3, <1>4, <1>5, <1>6, <1>7 DEF Next, StripeStep

\* The invariant holds throughout.
LEMMA TypeAlways == Spec => []TypeInv
BY InitTypeInv, NextTypeInv, PTL DEF Spec

\* Every field of the organization, sales, events and handlers keeps its type,
\* whatever overlaps, fails or is delivered again (TypeOK).
THEOREM BillingTypeCorrect == Spec => []TypeOK
<1>1. TypeInv => TypeOK
  BY DEF TypeInv
<1> QED
  BY <1>1, TypeAlways, PTL

---------------------------------------------------------------------------
(* Credits.                                                                *)

Filling(w, s) == task[w].sale = s /\ task[w].op \in {"grant", "credit"}

\* A sale that nobody tore is fulfilled by one handler, which found it unpaid
\* and adds the credits after it marked it paid.
PackSound(s) ==
    /\ \A w, v \in Worker : Filling(w, s) /\ Filling(v, s) => w = v
    /\ \A w \in Worker : Filling(w, s) /\ task[w].op = "grant" => sale[s].order # "paid"
    /\ \A w \in Worker : Filling(w, s) /\ task[w].op = "credit"
                           => sale[s].order = "paid" /\ credited[s] = 0
    /\ sale[s].order # "paid" => credited[s] = 0
    /\ credited[s] <= 1
    /\ sale[s].item = "pack" /\ sale[s].order = "paid" /\ credited[s] = 0
         => \E w \in Worker : Filling(w, s) /\ task[w].op = "credit"

PackInv == \A s \in Sale \ torn : PackSound(s)

\* Whoever moves, it is not a handler that fulfils s.
LEMMA PackKept ==
    ASSUME NEW s \in Sale, PackSound(s), NEW w \in Worker,
           \A v \in Worker \ {w} : task'[v] = task[v],
           ~Filling(w, s), ~Filling(w, s)',
           credited'[s] = credited[s],
           sale'[s].order # sale[s].order =>
             sale[s].order # "paid" /\ sale'[s].order # "paid",
           sale'[s].item # sale[s].item => sale'[s].order # "paid"
    PROVE  PackSound(s)'
BY DEF PackSound, Filling

\* Nobody moves.
LEMMA PackStill ==
    ASSUME NEW s \in Sale, PackSound(s), UNCHANGED task,
           credited'[s] = credited[s],
           sale'[s].order # sale[s].order =>
             sale[s].order # "paid" /\ sale'[s].order # "paid",
           sale'[s].item # sale[s].item => sale'[s].order # "paid"
    PROVE  PackSound(s)'
BY DEF PackSound, Filling

\* What Stripe does of a sale leaves its credits alone.
LEMMA StripePack ==
    ASSUME TypeInv, PackInv, NEW x \in Sale, StripeStep(x)
    PROVE  PackInv'
<1> SUFFICES ASSUME NEW s \in Sale \ torn' PROVE PackSound(s)'
  BY DEF PackInv
<1>1. /\ UNCHANGED <<task, credited, torn>> /\ PackSound(s)
      /\ sale \in [Sale -> SaleRow] /\ SalesFit(sale)
  BY DEF StripeStep, Pay, SessionExpires, Charge, CancelSubscription, PackCheckout,
         PackInv, TypeInv, TypeOK
<1>2. CASE PackCheckout(x)
  <2>1. /\ sale' = [sale EXCEPT ![x] = [item |-> "pack", order |-> "pending",
                                        stripe |-> "open", live |-> FALSE]]
        /\ sale[x].order = "none"
    BY <1>1, <1>2 DEF PackCheckout, Opened, SalesFit
  <2>2. sale'[s] # sale[s] => sale[s].order # "paid" /\ sale'[s].order # "paid"
    BY <1>1, <2>1
  <2> QED
    BY <1>1, <2>2, PackStill
<1>3. CASE Pay(x) \/ SessionExpires(x) \/ Charge(x) \/ CancelSubscription(x)
  <2>1. sale'[s].order = sale[s].order /\ sale'[s].item = sale[s].item
    BY <1>1, <1>3 DEF Pay, SessionExpires, Charge, CancelSubscription, SaleRow
  <2> QED
    BY <1>1, <2>1, PackStill
<1> QED
  BY <1>2, <1>3 DEF StripeStep

\* A handler begins, with any operation but those of a pack that is filled.
LEMMA BeginPack ==
    ASSUME TypeInv, PackInv, NEW w \in Worker,
           \/ EventLoad(w) \/ ExpireLoad(w)
           \/ \E s \in Sale : \/ ConfirmOrder(w, s)
                              \/ \E item \in Item : Checkout(w, s, item)
    PROVE  PackInv'
<1> SUFFICES ASSUME NEW s \in Sale \ torn' PROVE PackSound(s)'
  BY DEF PackInv
<1>1. /\ task[w] = Idle /\ task \in [Worker -> Task] /\ sale \in [Sale -> SaleRow]
      /\ UNCHANGED <<credited, torn>>
  BY DEF EventLoad, ExpireLoad, ConfirmOrder, Checkout, CompletedLoad, CancelOrder,
         SubscriptionLoad, World, TypeInv, TypeOK
<1>2. PackSound(s)
  BY <1>1 DEF PackInv
<1>3. ~Filling(w, s)
  BY <1>1 DEF Filling, Idle
<1>4. CASE \E x \in Sale : CancelOrder(w, x)
  <2>1. /\ UNCHANGED task
        /\ sale'[s].item = sale[s].item
        /\ sale'[s].order # sale[s].order =>
             sale[s].order # "paid" /\ sale'[s].order # "paid"
    BY <1>1, <1>4 DEF CancelOrder, SaleRow
  <2> QED
    BY <1>1, <1>2, <2>1, PackStill
<1>5. ASSUME UNCHANGED sale, NEW t, task' = [task EXCEPT ![w] = t],
             t.op \notin {"grant", "credit"}
      PROVE  PackSound(s)'
  <2>1. (\A v \in Worker \ {w} : task'[v] = task[v]) /\ ~Filling(w, s)'
    BY <1>1, <1>5 DEF Filling
  <2> QED
    BY <1>1, <1>2, <1>3, <1>5, <2>1, PackKept
<1>6. ASSUME NEW op \in {"pack", "order", "renew", "delete", "org", "load"}, NEW e, NEW x,
             NEW doc, Begin(w, op, e, x, doc), UNCHANGED sale
      PROVE  PackSound(s)'
  <2> DEFINE t == [op |-> op, event |-> e, sale |-> x, item |-> sale[x].item, doc |-> doc]
  <2>1. task' = [task EXCEPT ![w] = t] /\ t.op \notin {"grant", "credit"}
    BY <1>6 DEF Begin
  <2> HIDE DEF t
  <2> QED
    BY <1>5, <1>6, <2>1
<1>7. ASSUME NEW x \in Sale, CompletedLoad(w, x) PROVE PackSound(s)'
  <2>1. UNCHANGED sale
    BY <1>7 DEF CompletedLoad, World
  <2>2. CASE sale[x].item = "pack"
    <3>1. Begin(w, "pack", Told("completed", x), x, org)
      BY <1>7, <2>2 DEF CompletedLoad
    <3> QED
      BY <1>6, <2>1, <3>1
  <2>3. CASE sale[x].item # "pack"
    <3>1. Begin(w, "order", Told("completed", x), x, org)
      BY <1>7, <2>3 DEF CompletedLoad
    <3> QED
      BY <1>6, <2>1, <3>1
  <2> QED
    BY <2>2, <2>3
<1>8. ASSUME NEW x \in Sale, NEW kind \in {"paid", "deleted"}, SubscriptionLoad(w, x, kind)
      PROVE  PackSound(s)'
  <2>1. UNCHANGED sale
    BY <1>8 DEF SubscriptionLoad, World
  <2>2. CASE UNCHANGED task
    BY <1>1, <1>2, <2>1, <2>2, PackStill
  <2>3. CASE Begin(w, OpOf[kind], Told(kind, x), x, org)
    <3>1. OpOf[kind] \in {"pack", "order", "renew", "delete", "org", "load"}
      BY DEF OpOf
    <3> QED
      BY <1>6, <2>1, <2>3, <3>1
  <2> QED
    BY <1>8, <2>2, <2>3 DEF SubscriptionLoad
<1>9. ASSUME NEW x \in Sale, ConfirmOrder(w, x) PROVE PackSound(s)'
  <2> DEFINE op == IF sale[x].item = "pack" THEN "pack"
                   ELSE IF sale[x].order = "paid" THEN "org" ELSE "load"
  <2>1. Begin(w, op, None, x, NewOrg) /\ UNCHANGED sale
    BY <1>9 DEF ConfirmOrder, World
  <2>2. op \in {"pack", "order", "renew", "delete", "org", "load"}
    OBVIOUS
  <2> HIDE DEF op
  <2> QED
    BY <1>6, <2>1, <2>2
<1>10. CASE ExpireLoad(w)
  <2> DEFINE t == [Idle EXCEPT !.op = "expire", !.doc = org]
  <2>1. task' = [task EXCEPT ![w] = t] /\ UNCHANGED sale
    BY <1>10 DEF ExpireLoad, World
  <2>2. t.op \notin {"grant", "credit"}
    BY DEF Idle
  <2> HIDE DEF t
  <2> QED
    BY <1>5, <2>1, <2>2
<1>11. ASSUME NEW x \in Sale, NEW item \in Item, Checkout(w, x, item) PROVE PackSound(s)'
  <2> DEFINE t == [op |-> IF Expired(org) THEN "expire" ELSE "gate", event |-> None,
                   sale |-> x, item |-> item, doc |-> org]
  <2>1. task' = [task EXCEPT ![w] = t] /\ UNCHANGED sale
    BY <1>11 DEF Checkout, World
  <2>2. t.op \notin {"grant", "credit"}
    OBVIOUS
  <2> HIDE DEF t
  <2> QED
    BY <1>5, <2>1, <2>2
<1> QED
  BY <1>4, <1>7, <1>8, <1>9, <1>10, <1>11 DEF EventLoad

\* Those who are cut short while they add credits tear their sales.
LEMMA FailsPack ==
    ASSUME TypeInv, PackInv, NEW W \in SUBSET Worker, Fails(W)
    PROVE  PackInv'
<1> SUFFICES ASSUME NEW s \in Sale \ torn' PROVE PackSound(s)'
  BY DEF PackInv
<1>1. /\ UNCHANGED <<sale, credited>>
      /\ torn' = torn \cup {task[w].sale : w \in {v \in W : task[v].op \in {"dates", "credit"}}}
      /\ \A w \in Worker : task'[w] = IF w \in W THEN Idle ELSE task[w]
  BY DEF Fails
<1>2. PackSound(s)
  BY <1>1 DEF PackInv
<1>3. \A w \in W : task[w].op = "credit" => task[w].sale # s
  BY <1>1
<1>4. \A w \in Worker : /\ Filling(w, s)' => w \notin W /\ Filling(w, s)
                        /\ Filling(w, s) /\ task[w].op = "credit" => task'[w] = task[w]
  BY <1>1, <1>3 DEF Filling, Idle
<1> QED
  BY <1>1, <1>2, <1>4 DEF PackSound, Filling

\* A handler moves to t, which does not fill a pack, and did not before.
LEMMA OtherPack ==
    ASSUME TypeInv, PackInv, NEW w \in Worker, NEW t, task' = [task EXCEPT ![w] = t],
           task[w].op \notin {"grant", "credit"}, t.op \notin {"grant", "credit"},
           UNCHANGED <<sale, credited, torn>>
    PROVE  PackInv'
<1> SUFFICES ASSUME NEW s \in Sale \ torn' PROVE PackSound(s)'
  BY DEF PackInv
<1>1. PackSound(s) /\ task \in [Worker -> Task]
  BY DEF PackInv, TypeInv, TypeOK
<1>2. (\A v \in Worker \ {w} : task'[v] = task[v]) /\ ~Filling(w, s) /\ ~Filling(w, s)'
  BY <1>1 DEF Filling
<1> QED
  BY <1>1, <1>2, PackKept

\* A handler ends without having touched a sale.
LEMMA DonePack ==
    ASSUME TypeInv, PackInv, NEW w \in Worker, Done(w),
           task[w].op \notin {"grant", "credit"}, UNCHANGED <<sale, credited, torn>>
    PROVE  PackInv'
<1>1. task' = [task EXCEPT ![w] = Idle] /\ Idle.op \notin {"grant", "credit"}
  BY DoneTask DEF Idle
<1> QED
  BY <1>1, OtherPack

\* A handler goes on with something else than a pack.
LEMMA GoOnPack ==
    ASSUME TypeInv, PackInv, NEW w \in Worker, NEW op \in Op, NEW doc \in Org,
           GoOn(w, op, doc), op \notin {"grant", "credit"},
           task[w].op \notin {"grant", "credit"}, UNCHANGED <<sale, credited, torn>>
    PROVE  PackInv'
<1>1. PICK t \in Task : task' = [task EXCEPT ![w] = t] /\ t.op = op
  BY GoOnTask
<1> QED
  BY <1>1, OtherPack

\* The handlers of plans.
LEMMA PlanPack ==
    ASSUME TypeInv, PackInv, NEW w \in Worker,
           \/ CompletedOrder(w) \/ ConfirmOrg(w) \/ ActivateLoad(w) \/ UpgradePlan(w)
           \/ SetDates(w) \/ Renew(w) \/ DeleteSave(w) \/ ExpireSave(w)
    PROVE  PackInv'
<1>0. /\ org \in Org /\ task[w] \in Task /\ task[w].doc \in Org /\ NewOrg \in Org
      /\ Fits(task[w], sale) /\ UNCHANGED <<sale, credited, torn>>
      /\ task[w].op \notin {"grant", "credit"}
  BY DEF TypeInv, TypeOK, Task, NewOrg, Org, Plans, World, CompletedOrder, ConfirmOrg,
         ActivateLoad, UpgradePlan, SetDates, Renew, DeleteSave, ExpireSave, Doing
<1>1. CASE Done(w)
  BY <1>0, <1>1, DonePack
<1>2. CASE GoOn(w, "load", NewOrg) \/ GoOn(w, "upgrade", org) \/ GoOn(w, "mark", NewOrg)
           \/ GoOn(w, "gate", NewOrg)
  BY <1>0, <1>2, GoOnPack DEF Op
<1>3. CASE UpgradePlan(w)
  <2> DEFINE new == [task[w].doc EXCEPT !.plan = task[w].item]
  <2>1. task[w].item \in Plan
    BY <1>0, <1>3 DEF UpgradePlan, Doing, Fits, PlanOps
  <2>2. new \in Org
    BY <1>0, <2>1 DEF Org, Plans, Plan
  <2>3. GoOn(w, "dates", new)
    BY <1>3 DEF UpgradePlan
  <2> HIDE DEF new
  <2> QED
    BY <1>0, <2>2, <2>3, GoOnPack DEF Op
<1> QED
  BY <1>1, <1>2, <1>3 DEF CompletedOrder, ConfirmOrg, ActivateLoad, SetDates, Renew,
                          DeleteSave, ExpireSave

\* A checkout opens a sale that nobody fulfils.
LEMMA GatePack ==
    ASSUME TypeInv, PackInv, NEW w \in Worker, Gate(w)
    PROVE  PackInv'
<1>0. /\ task[w] \in Task /\ Fits(task[w], sale) /\ task[w].op = "gate"
      /\ sale \in [Sale -> SaleRow] /\ SalesFit(sale) /\ task \in [Worker -> Task]
      /\ Done(w) /\ UNCHANGED <<credited, torn>>
  BY DEF TypeInv, TypeOK, Gate, Doing
<1>1. CASE UNCHANGED sale
  BY <1>0, <1>1, DonePack
<1>2. CASE Opened(task[w].sale, task[w].item)
  <2> SUFFICES ASSUME NEW s \in Sale \ torn' PROVE PackSound(s)'
    BY DEF PackInv
  <2>1. PackSound(s)
    BY <1>0 DEF PackInv
  <2>2. task' = [task EXCEPT ![w] = Idle] /\ Idle.op = "idle"
    BY <1>0, DoneTask DEF Idle
  <2>3. (\A v \in Worker \ {w} : task'[v] = task[v]) /\ ~Filling(w, s) /\ ~Filling(w, s)'
    BY <1>0, <2>2 DEF Filling
  <2>4. /\ task[w].sale \in Sale /\ sale[task[w].sale].order = "none"
        /\ sale' = [sale EXCEPT ![task[w].sale] =
                      [item |-> task[w].item, order |-> "pending", stripe |-> "open",
                       live |-> FALSE]]
    BY <1>0, <1>2 DEF Opened, Fits, Opening, SalesFit
  <2>5. sale'[s] # sale[s] => sale[s].order # "paid" /\ sale'[s].order # "paid"
    BY <1>0, <2>4
  <2> QED
    BY <1>0, <2>1, <2>3, <2>5, PackKept
<1> QED
  BY <1>1, <1>2 DEF Gate

\* A pack is found unpaid, its order is paid, its credits are added.
LEMMA FillPack ==
    ASSUME TypeInv, PackInv, NEW w \in Worker,
           FindPaid(w) \/ GrantPack(w) \/ AddCredits(w) \/ MarkPaid(w)
    PROVE  PackInv'
<1>0. /\ task \in [Worker -> Task] /\ task[w] \in Task /\ NewOrg \in Org
      /\ sale \in [Sale -> SaleRow] /\ credited \in [Sale -> Nat]
      /\ \A v \in Worker : Fits(task[v], sale)
  BY DEF TypeInv, TypeOK, NewOrg, Org, Plans
<1>1. \A s \in Sale : ~(s \in torn') => ~(s \in torn)
  BY DEF FindPaid, GrantPack, AddCredits, MarkPaid
<1>2. CASE FindPaid(w)
  <2>1. CASE Done(w) /\ UNCHANGED torn
    BY <1>2, <2>1, DonePack DEF FindPaid, Doing
  <2>2. CASE /\ sale[task[w].sale].order # "paid" /\ GoOn(w, "grant", NewOrg)
             /\ torn' = IF AtPack(task[w].sale) = {} THEN torn
                                                    ELSE torn \cup {task[w].sale}
    <3> SUFFICES ASSUME NEW s \in Sale \ torn' PROVE PackSound(s)'
      BY DEF PackInv
    <3>1. PackSound(s) /\ UNCHANGED <<sale, credited>> /\ task[w].op = "pack"
      BY <1>1, <1>2 DEF PackInv, FindPaid, Doing
    <3>2. PICK t \in Task : /\ task' = [task EXCEPT ![w] = t]
                            /\ t.op = "grant" /\ t.sale = task[w].sale
      BY <1>0, <2>2, GoOnTask DEF Op
    <3>3. task'[w] = t /\ \A v \in Worker \ {w} : task'[v] = task[v]
      BY <1>0, <3>2
    <3>4. CASE task[w].sale # s
      BY <3>1, <3>2, <3>3, <3>4, PackKept DEF Filling
    <3>5. CASE task[w].sale = s
      <4>1. sale[s].order # "paid" /\ AtPack(s) = {}
        BY <2>2, <3>5
      <4>2. \A v \in Worker : ~Filling(v, s)
        BY <3>1, <4>1 DEF PackSound, Filling, AtPack
      <4> QED
        BY <3>1, <3>2, <3>3, <3>5, <4>1, <4>2 DEF PackSound, Filling
    <3> QED
      BY <3>4, <3>5
  <2> QED
    BY <1>2, <2>1, <2>2 DEF FindPaid
<1>3. CASE GrantPack(w)
  <2> SUFFICES ASSUME NEW s \in Sale \ torn' PROVE PackSound(s)'
    BY DEF PackInv
  <2>1. PackSound(s) /\ UNCHANGED credited /\ task[w].op = "grant"
    BY <1>1, <1>3 DEF PackInv, GrantPack, Doing
  <2>2. PICK t \in Task : /\ task' = [task EXCEPT ![w] = t]
                          /\ t.op = "credit" /\ t.sale = task[w].sale
    BY <1>0, <1>3, GoOnTask DEF GrantPack, Op
  <2>3. task'[w] = t /\ \A v \in Worker \ {w} : task'[v] = task[v]
    BY <1>0, <2>2
  <2>4. /\ sale' = [sale EXCEPT ![task[w].sale].order = "paid"]
        /\ task[w].sale \in Sale
    BY <1>0, <1>3, <2>1 DEF GrantPack, OrderPaid, Fits, PackOps
  <2>5. CASE task[w].sale # s
    <3>1. sale'[s] = sale[s]
      BY <1>0, <2>4, <2>5
    <3> QED
      BY <2>1, <2>2, <2>3, <2>5, <3>1, PackKept DEF Filling
  <2>6. CASE task[w].sale = s
    <3>1. sale'[s].order = "paid" /\ sale'[s].item = sale[s].item
      BY <1>0, <2>4, <2>6 DEF SaleRow
    <3>2. credited[s] = 0 /\ \A v \in Worker \ {w} : ~Filling(v, s)
      BY <2>1, <2>6 DEF PackSound, Filling
    <3> QED
      BY <2>1, <2>2, <2>3, <2>6, <3>1, <3>2 DEF PackSound, Filling
  <2> QED
    BY <2>5, <2>6
<1>4. CASE AddCredits(w)
  <2> SUFFICES ASSUME NEW s \in Sale \ torn' PROVE PackSound(s)'
    BY DEF PackInv
  <2>1. PackSound(s) /\ UNCHANGED sale /\ task[w].op = "credit"
    BY <1>1, <1>4 DEF PackInv, AddCredits, Doing
  <2>2. task' = [task EXCEPT ![w] = Idle] /\ Idle.op = "idle"
    BY <1>4, DoneTask DEF AddCredits, Idle
  <2>3. task'[w].op = "idle" /\ \A v \in Worker \ {w} : task'[v] = task[v]
    BY <1>0, <2>2
  <2>4. credited' = [credited EXCEPT ![task[w].sale] = @ + 1]
    BY <1>4 DEF AddCredits
  <2>5. CASE task[w].sale # s
    <3>1. credited'[s] = credited[s]
      BY <1>0, <2>4, <2>5
    <3> QED
      BY <2>1, <2>3, <2>5, <3>1, PackKept DEF Filling
  <2>6. CASE task[w].sale = s
    <3>1. sale[s].order = "paid" /\ credited[s] = 0
      BY <2>1, <2>6 DEF PackSound, Filling
    <3>2. credited'[s] = 1
      BY <1>0, <2>4, <2>6, <3>1
    <3>3. \A v \in Worker \ {w} : ~Filling(v, s)
      BY <2>1, <2>6 DEF PackSound, Filling
    <3> QED
      BY <2>1, <2>3, <3>1, <3>2, <3>3 DEF PackSound, Filling
  <2> QED
    BY <2>5, <2>6
<1>5. CASE MarkPaid(w)
  <2> SUFFICES ASSUME NEW s \in Sale \ torn' PROVE PackSound(s)'
    BY DEF PackInv
  <2>1. PackSound(s) /\ UNCHANGED credited /\ task[w].op = "mark"
    BY <1>1, <1>5 DEF PackInv, MarkPaid, Doing
  <2>2. task' = [task EXCEPT ![w] = Idle] /\ Idle.op = "idle"
    BY <1>5, DoneTask DEF MarkPaid, Idle
  <2>3. task'[w].op = "idle" /\ \A v \in Worker \ {w} : task'[v] = task[v]
    BY <1>0, <2>2
  <2>4. /\ sale' = [sale EXCEPT ![task[w].sale].order = "paid"]
        /\ task[w].sale \in Sale /\ sale[task[w].sale].item # "pack"
    BY <1>0, <1>5, <2>1 DEF MarkPaid, OrderPaid, Fits, PlanOps, Plan
  <2>5. CASE task[w].sale # s
    <3>1. sale'[s] = sale[s]
      BY <1>0, <2>4, <2>5
    <3> QED
      BY <2>1, <2>3, <3>1, PackKept DEF Filling
  <2>6. CASE task[w].sale = s
    <3>1. sale'[s].order = "paid" /\ sale'[s].item # "pack"
      BY <1>0, <2>4, <2>6 DEF SaleRow
    <3>2. \A v \in Worker : ~Filling(v, s)
      BY <1>0, <2>4, <2>6 DEF Fits, PackOps, Filling
    <3>3. credited[s] = 0 \/ sale[s].order = "paid"
      BY <2>1 DEF PackSound
    <3> QED
      BY <2>1, <2>3, <3>1, <3>2 DEF PackSound, Filling
  <2> QED
    BY <2>5, <2>6
<1> QED
  BY <1>2, <1>3, <1>4, <1>5

\* Every step keeps an untorn pack sound.
LEMMA NextPackInv ==
    ASSUME TypeInv, PackInv, [Next]_vars
    PROVE  PackInv'
<1>1. CASE \E s \in Sale : StripeStep(s)
  BY <1>1, StripePack
<1>2. CASE MonthPasses
  BY <1>2, PackStill DEF MonthPasses, PackInv
<1>3. CASE \E w \in Worker : \/ EventLoad(w) \/ ExpireLoad(w)
                             \/ \E s \in Sale : \/ ConfirmOrder(w, s)
                                                \/ \E item \in Item : Checkout(w, s, item)
  BY <1>3, BeginPack
<1>4. CASE \E w \in Worker : GoesOn(w)
  BY <1>4, PlanPack, GatePack, FillPack DEF GoesOn
<1>5. CASE \E W \in SUBSET Worker \ {{}} : Fails(W)
  BY <1>5, FailsPack
<1>6. CASE UNCHANGED vars
  BY <1>6, PackStill DEF vars, PackInv
<1> QED
  BY <1>1, <1>2, <1>3, <1>4, <1>5, <1>6 DEF Next, StripeStep

\* The credits of a pack are added exactly once, by whichever of the webhook
\* and the return page finds its order unpaid, unless both did or one was cut
\* short (PackCreditedOnceUnlessTorn, fulfillAiCreditPackPurchase).
THEOREM BillingPackCreditedOnce == Spec => []PackCreditedOnceUnlessTorn
<1>1. Init => PackInv
  BY DEF Init, PackInv, PackSound, Filling, Idle
<1>2. TypeInv /\ PackInv /\ [Next]_vars => PackInv'
  BY NextPackInv
<1>3. PackInv => PackCreditedOnceUnlessTorn
  BY DEF PackInv, PackSound, Filling, PackCreditedOnceUnlessTorn
<1> QED
  BY <1>1, <1>2, <1>3, TypeAlways, PTL DEF Spec

---------------------------------------------------------------------------
(* Plans.                                                                  *)

\* Only the handler that takes a step moves.
LEMMA OneMoves ==
    ASSUME TypeInv, NEW w \in Worker,
           \/ EventLoad(w) \/ GoesOn(w) \/ ExpireLoad(w)
           \/ \E s \in Sale : \/ ConfirmOrder(w, s)
                              \/ \E item \in Item : Checkout(w, s, item)
    PROVE  \A v \in Worker \ {w} : task'[v] = task[v]
<1>1. task \in [Worker -> Task]
  BY DEF TypeInv, TypeOK
<1>2. CASE GoesOn(w)
  <2>1. Done(w) \/ \E op, doc : GoOn(w, op, doc)
    BY <1>2 DEF GoesOn, CompletedOrder, ConfirmOrg, ActivateLoad, UpgradePlan, SetDates,
                MarkPaid, FindPaid, GrantPack, AddCredits, Renew, DeleteSave, ExpireSave, Gate
  <2> QED
    BY <1>1, <2>1 DEF Done, GoOn
<1>3. CASE EventLoad(w)
  BY <1>1, <1>3 DEF EventLoad, CompletedLoad, CancelOrder, SubscriptionLoad, Begin
<1>4. CASE \/ ExpireLoad(w)
           \/ \E s \in Sale : \/ ConfirmOrder(w, s)
                              \/ \E item \in Item : Checkout(w, s, item)
  BY <1>1, <1>4 DEF ExpireLoad, ConfirmOrder, Checkout, Begin
<1> QED
  BY <1>2, <1>3, <1>4

\* What a handler does to the plan and its expiry.
LEMMA PlanSaved ==
    ASSUME TypeInv, NEW w \in Worker, GoesOn(w)
    PROVE  \/ UpgradePlan(w) /\ org'.until = org.until /\ org'.plan \in {org.plan} \cup Plan
                             /\ task'[w].op = "dates"
           \/ SetDates(w) /\ org'.plan = org.plan /\ org'.until # None
           \/ Renew(w) /\ org'.plan = org.plan /\ org'.until # None
           \/ (DeleteSave(w) \/ ExpireSave(w)) /\ org'.plan = "free"
           \/ org' = org /\ task[w].op # "dates"
<1>0. /\ org \in Org /\ task \in [Worker -> Task] /\ task[w].doc \in Org
      /\ Fits(task[w], sale)
  BY DEF TypeInv, TypeOK, Task
<1> DEFINE doc == task[w].doc
<1>1. CASE UpgradePlan(w)
  <2> DEFINE new == [doc EXCEPT !.plan = task[w].item]
  <2>1. task[w].item \in Plan
    BY <1>0, <1>1 DEF UpgradePlan, Doing, Fits, PlanOps
  <2>2. new \in Org /\ new.plan = task[w].item /\ new.until = doc.until
    BY <1>0, <2>1 DEF Org, Plans, Plan
  <2>3. org' = Merge(org, doc, new) /\ GoOn(w, "dates", new)
    BY <1>1 DEF UpgradePlan
  <2> HIDE DEF new
  <2>4. \E t \in Task : task' = [task EXCEPT ![w] = t] /\ t.op = "dates"
    BY <2>2, <2>3, GoOnTask DEF Op
  <2>5. task'[w].op = "dates"
    BY <1>0, <2>4
  <2> QED
    BY <1>0, <1>1, <2>1, <2>2, <2>3, <2>5, MergeOrg
<1>2. CASE SetDates(w)
  <2> DEFINE new == [doc EXCEPT !.until = 1, !.sub = task[w].sale]
  <2>1. new \in Org /\ new.plan = doc.plan
    BY <1>0, <1>2 DEF SetDates, Doing, Fits, PlanOps, Org
  <2>2. org' = [Merge(org, doc, new) EXCEPT !.until = 1]
    BY <1>2 DEF SetDates
  <2> HIDE DEF new
  <2>3. Merge(org, doc, new) \in Org /\ Merge(org, doc, new).plan = org.plan
    BY <1>0, <2>1, MergeOrg
  <2>4. org'.plan = org.plan /\ org'.until = 1
    BY <2>2, <2>3 DEF Org
  <2> QED
    BY <1>2, <2>4 DEF BillingAssumption
<1>3. CASE Renew(w)
  <2> DEFINE left == IF doc.until = None THEN 0 ELSE doc.until
             new  == [doc EXCEPT !.until = left + 1]
  <2>1. left \in Nat /\ (doc.until = None \/ doc.until = left)
    BY <1>0 DEF Org
  <2>2. new \in Org /\ new.plan = doc.plan /\ new.until = left + 1
    BY <1>0, <2>1 DEF Org
  <2>3. org' = Merge(org, doc, new)
    BY <1>3 DEF Renew
  <2>4. new.until # doc.until /\ new.until # None
    BY <2>1, <2>2 DEF BillingAssumption
  <2> HIDE DEF new
  <2> QED
    BY <1>0, <1>3, <2>2, <2>3, <2>4, MergeOrg
<1>4. CASE DeleteSave(w) \/ ExpireSave(w)
  <2> DEFINE new == [doc EXCEPT !.plan = "free", !.until = None, !.sub = None]
  <2>1. new \in Org /\ new.plan = "free"
    BY <1>0 DEF Org, Plans
  <2>2. org' = Merge(org, doc, new)
    BY <1>4 DEF DeleteSave, ExpireSave, Freed
  <2>3. doc.plan # "free"
    BY <1>0, <1>4 DEF DeleteSave, ExpireSave, Doing, Fits, Expired
  <2> HIDE DEF new
  <2> QED
    BY <1>0, <1>4, <2>1, <2>2, <2>3, MergeOrg
<1>5. CASE \/ CompletedOrder(w) \/ ConfirmOrg(w) \/ ActivateLoad(w) \/ MarkPaid(w)
           \/ FindPaid(w) \/ GrantPack(w) \/ AddCredits(w) \/ Gate(w)
  BY <1>5 DEF CompletedOrder, ConfirmOrg, ActivateLoad, MarkPaid, FindPaid, GrantPack,
              AddCredits, Gate, Doing
<1> QED
  BY <1>1, <1>2, <1>3, <1>4, <1>5 DEF GoesOn

\* Everything else leaves the plan alone, and its expiry but for time.
LEMMA PlanElsewhere ==
    ASSUME TypeInv, Next, ~\E w \in Worker : GoesOn(w)
    PROVE  /\ org'.plan = org.plan
           /\ org'.until = None => org.until = None
<1>1. CASE MonthPasses
  <2>1. org \in Org
    BY DEF TypeInv, TypeOK
  <2>2. CASE org.until \in {None, 0}
    BY <1>1, <2>2 DEF MonthPasses
  <2>3. CASE org.until \notin {None, 0}
    <3>1. org' = [org EXCEPT !.until = @ - 1] /\ org.until \in Nat /\ org.until # 0
      BY <1>1, <2>1, <2>3 DEF MonthPasses, Org
    <3>2. org'.plan = org.plan /\ org'.until = org.until - 1
      BY <2>1, <3>1 DEF Org
    <3>3. org.until - 1 \in Nat
      BY <3>1
    <3> QED
      BY <3>2, <3>3 DEF BillingAssumption
  <2> QED
    BY <2>2, <2>3
<1>2. CASE \E s \in Sale : StripeStep(s)
  BY <1>2 DEF StripeStep, Pay, SessionExpires, Charge, CancelSubscription, PackCheckout
<1>3. CASE \E w \in Worker : EventLoad(w)
  BY <1>3 DEF EventLoad, CompletedLoad, CancelOrder, SubscriptionLoad
<1>4. CASE \E w \in Worker : \/ ExpireLoad(w)
                             \/ \E s \in Sale : \/ ConfirmOrder(w, s)
                                                \/ \E item \in Item : Checkout(w, s, item)
  BY <1>4 DEF ExpireLoad, ConfirmOrder, Checkout
<1>5. CASE \E W \in SUBSET Worker \ {{}} : Fails(W)
  BY <1>5 DEF Fails
<1> QED
  BY <1>1, <1>2, <1>3, <1>4, <1>5 DEF Next, StripeStep

\* Every step keeps the end of a plan.
LEMMA NextPlanEnds ==
    ASSUME TypeInv, PlanEndsUnlessTorn, [Next]_vars
    PROVE  PlanEndsUnlessTorn'
<1> SUFFICES ASSUME org'.plan # "free", org'.until = None, torn' = {}
             PROVE  \E w \in Worker : task'[w].op = "dates"
  BY DEF PlanEndsUnlessTorn
<1>1. torn = {}
  BY DEF Next, vars, Pay, SessionExpires, Charge, CancelSubscription, PackCheckout,
         MonthPasses, EventLoad, CompletedLoad, CancelOrder, SubscriptionLoad, ExpireLoad,
         ConfirmOrder, Checkout, World, GoesOn, CompletedOrder, ConfirmOrg, ActivateLoad,
         UpgradePlan, SetDates, MarkPaid, FindPaid, GrantPack, AddCredits, Renew,
         DeleteSave, ExpireSave, Gate, Fails
<1>2. ASSUME NEW w \in Worker, GoesOn(w) PROVE \E v \in Worker : task'[v].op = "dates"
  <2>1. CASE UpgradePlan(w) /\ task'[w].op = "dates"
    BY <2>1
  <2>2. CASE org' = org /\ task[w].op # "dates"
    <3>1. PICK v \in Worker : task[v].op = "dates"
      BY <1>1, <2>2 DEF PlanEndsUnlessTorn
    <3>2. v # w
      BY <2>2, <3>1
    <3> QED
      BY <1>2, <3>1, <3>2, OneMoves
  <2> QED
    BY <1>2, <2>1, <2>2, PlanSaved
<1>3. ASSUME ~\E w \in Worker : GoesOn(w) PROVE \E w \in Worker : task'[w].op = "dates"
  <2>1. org.plan # "free" /\ org.until = None
    BY <1>3, PlanElsewhere DEF vars
  <2>2. PICK v \in Worker : task[v].op = "dates"
    BY <1>1, <2>1 DEF PlanEndsUnlessTorn
  <2>3. CASE UNCHANGED task
    BY <2>2, <2>3
  <2>4. ASSUME NEW w \in Worker, task[w] = Idle,
               \/ EventLoad(w) \/ ExpireLoad(w)
               \/ \E s \in Sale : \/ ConfirmOrder(w, s)
                                  \/ \E item \in Item : Checkout(w, s, item)
        PROVE  task'[v].op = "dates"
    <3>1. v # w
      BY <2>2, <2>4 DEF Idle
    <3> QED
      BY <2>2, <2>4, <3>1, OneMoves
  <2>5. ASSUME NEW W \in SUBSET Worker, Fails(W) PROVE task'[v].op = "dates"
    <3>1. v \notin W
      BY <1>1, <2>2, <2>5 DEF Fails
    <3> QED
      BY <2>2, <2>5, <3>1 DEF Fails
  <2>6. CASE MonthPasses \/ \E s \in Sale : StripeStep(s)
    BY <2>3, <2>6 DEF MonthPasses, StripeStep, Pay, SessionExpires, Charge,
                      CancelSubscription, PackCheckout
  <2>7. CASE \E w \in Worker : \/ EventLoad(w) \/ ExpireLoad(w)
                               \/ \E s \in Sale : \/ ConfirmOrder(w, s)
                                                  \/ \E item \in Item : Checkout(w, s, item)
    BY <2>2, <2>4, <2>7 DEF EventLoad, CompletedLoad, CancelOrder, SubscriptionLoad,
                            ExpireLoad, ConfirmOrder, Checkout
  <2> QED
    BY <1>3, <2>2, <2>3, <2>5, <2>6, <2>7 DEF Next, StripeStep, vars
<1> QED
  BY <1>2, <1>3

\* A paid plan has an expiry as long as no activation was cut short between
\* the save of the plan and that of the date (PlanEndsUnlessTorn, activatePlan).
THEOREM BillingPlanEnds == Spec => []PlanEndsUnlessTorn
<1>1. Init => PlanEndsUnlessTorn
  BY DEF Init, PlanEndsUnlessTorn, NewOrg
<1>2. TypeInv /\ PlanEndsUnlessTorn /\ [Next]_vars => PlanEndsUnlessTorn'
  BY NextPlanEnds
<1> QED
  BY <1>1, <1>2, TypeAlways, PTL DEF Spec

\* A plan that runs is ended only with its own subscription, or by a handler
\* whose document is outdated (RunningPlanKept, expireOrg).
THEOREM BillingRunningPlanKept == Spec => RunningPlanKept
<1> DEFINE Kept ==
      org.plan # "free" /\ org'.plan = "free" /\ ~Expired(org)
        => \E w \in Worker : \/ task[w].op = "delete" /\ task[w].sale = org.sub
                             \/ task[w].op \in {"delete", "expire"} /\ task[w].doc # org
<1>1. TypeInv /\ [Next]_vars => [Kept]_vars
  <2> SUFFICES ASSUME TypeInv, Next PROVE Kept
    OBVIOUS
  <2>1. ASSUME NEW w \in Worker, GoesOn(w) PROVE Kept
    <3>1. CASE DeleteSave(w) \/ ExpireSave(w)
      <4>1. Fits(task[w], sale) /\ task[w].op \in {"delete", "expire"}
        BY <3>1 DEF TypeInv, DeleteSave, ExpireSave, Doing
      <4>2. CASE task[w].doc # org
        BY <4>1, <4>2
      <4>3. CASE task[w].doc = org
        BY <4>1, <4>3 DEF Fits
      <4> QED
        BY <4>2, <4>3
    <3>2. CASE UpgradePlan(w) /\ org'.plan \in {org.plan} \cup Plan
      BY <3>2 DEF Plan
    <3>3. CASE org'.plan = org.plan
      BY <3>3
    <3> QED
      BY <2>1, <3>1, <3>2, <3>3, PlanSaved
  <2>2. CASE ~\E w \in Worker : GoesOn(w)
    BY <2>2, PlanElsewhere
  <2> QED
    BY <2>1, <2>2
<1> QED
  BY <1>1, TypeAlways, PTL DEF Spec, RunningPlanKept
=============================================================================
