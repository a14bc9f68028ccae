------------------------------ MODULE Billing ------------------------------
(***************************************************************************)
(* BillingService and SubscriptionExpiryService: the plan and the AI        *)
(* credits of one organization, its BillingOrders and what Stripe tells.    *)
(* A payment is applied by the webhook and by the return page, whichever    *)
(* comes first; Stripe delivers an event again until it is answered.  Each  *)
(* handler loads the Organization, awaits, and saves the fields it changed. *)
(*                                                                          *)
(* Stripe is external: it has Sales, its checkout sessions, and, for a      *)
(* plan, the subscription of the same name.  Time goes by months, between   *)
(* handlers.  The limits of a plan follow `plan` in the same save, and a    *)
(* failed invoice only marks the organization past due: both are left out.  *)
(***************************************************************************)
EXTENDS Integers, FiniteSets

CONSTANTS
    Sale,       \* checkout sessions of Stripe
    Item,       \* what is sold: plans and packs of credits
    Worker,     \* handlers that may be under way at once
    None,
    MaxMonths,  \* bound: months that pass
    MaxFaults   \* bound: handlers that fail, deliveries repeated, crashes

ASSUME BillingAssumption ==
    /\ Item \subseteq {"starter", "pro", "pack"}
    /\ None \notin Nat \cup Sale \cup {"starter", "pro", "pack"}
    /\ MaxMonths \in Nat /\ MaxFaults \in Nat

VARIABLES
    org,      \* the fields of the Organization
    sale,     \* each session and its BillingOrder
    mail,     \* Stripe's events that have not been answered
    due,      \* subscriptions of which Stripe has a month to charge
    task,     \* what each worker is in the middle of
    credited, \* history: how often the credits of each sale were added
    torn,     \* history: sales whose fulfilment overlapped or was cut short
    months, faults

vars == <<org, sale, mail, due, task, credited, torn, months, faults>>

Plans == {"free", "starter", "pro"}
Event == [kind : {"completed", "expired", "paid", "deleted"}, sale : Sale]

\* until: months to planExpiresAt, 0 when it has passed, None without one.
Org == [plan : Plans, until : Nat \cup {None}, sub : Sale \cup {None}]

NewOrg == [plan |-> "free", until |-> None, sub |-> None]

SaleRow == [item : Item \cup {None}, order : {"none", "pending", "paid", "cancelled"},
            stripe : {"none", "open", "paid", "expired"}, live : BOOLEAN]

Op == {"idle", "order", "org", "load", "upgrade", "dates", "mark", "pack", "grant",
       "credit", "renew", "delete", "expire", "gate"}

Task == [op : Op, event : Event \cup {None}, sale : Sale \cup {None},
         item : Item \cup {None}, doc : Org]

Idle == [op |-> "idle", event |-> None, sale |-> None, item |-> None, doc |-> NewOrg]

TypeOK ==
    /\ org \in Org
    /\ sale \in [Sale -> SaleRow]
    /\ mail \subseteq Event
    /\ due \subseteq {s \in Sale : sale[s].live}
    /\ task \in [Worker -> Task]
    /\ credited \in [Sale -> Nat]
    /\ torn \subseteq Sale
    /\ months \in 0..MaxMonths /\ faults \in 0..MaxFaults

Init ==
    /\ org = NewOrg
    /\ sale = [s \in Sale |-> [item |-> None, order |-> "none", stripe |-> "none",
                               live |-> FALSE]]
    /\ mail = {} /\ due = {} /\ torn = {}
    /\ task = [w \in Worker |-> Idle]
    /\ credited = [s \in Sale |-> 0]
    /\ months = 0 /\ faults = 0

---------------------------------------------------------------------------
(* Handlers and documents.                                                 *)

Rank(plan) == CASE plan = "free" -> 0 [] plan = "starter" -> 1 [] OTHER -> 2

\* isPaidPlanActive: a plan without an expiry is active.
Active(doc) == doc.plan = "free" \/ doc.until # 0

Expired(doc) == doc.plan # "free" /\ doc.until = 0

\* A save writes the fields that differ from those loaded.
Merge(stored, doc, new) ==
    [f \in DOMAIN stored |-> IF new[f] = doc[f] THEN stored[f] ELSE new[f]]

Fault == faults < MaxFaults /\ faults' = faults + 1

Doing(w, op) == task[w].op = op

Begin(w, op, event, s, doc) ==
    task' = [task EXCEPT ![w] = [op |-> op, event |-> event, sale |-> s,
                                 item |-> sale[s].item, doc |-> doc]]

GoOn(w, op, doc) == task' = [task EXCEPT ![w].op = op, ![w].doc = doc]

\* The handler ends; a webhook is answered, though the answer may get lost.
Done(w) ==
    /\ task' = [task EXCEPT ![w] = Idle]
    /\ \/ mail' = mail \ {task[w].event} /\ UNCHANGED faults
       \/ task[w].event # None /\ Fault /\ UNCHANGED mail

World == <<sale, due, credited, torn, months>>

---------------------------------------------------------------------------
(* Stripe, the owner and time.                                             *)

Told(kind, s) == [kind |-> kind, sale |-> s]

\* The owner pays: a plan's first invoice is told too, in no order.
Pay(s) ==
    /\ sale[s].stripe = "open"
    /\ sale' = [sale EXCEPT ![s].stripe = "paid", ![s].live = sale[s].item # "pack"]
    /\ mail' = mail \cup {Told("completed", s)}
                    \cup (IF sale[s].item = "pack" THEN {} ELSE {Told("paid", s)})
    /\ UNCHANGED <<org, due, task, credited, torn, months, faults>>

SessionExpires(s) ==
    /\ sale[s].stripe = "open"
    /\ sale' = [sale EXCEPT ![s].stripe = "expired"]
    /\ mail' = mail \cup {Told("expired", s)}
    /\ UNCHANGED <<org, due, task, credited, torn, months, faults>>

Charge(s) ==
    /\ s \in due
    /\ due' = due \ {s}
    /\ mail' = mail \cup {Told("paid", s)}
    /\ UNCHANGED <<org, sale, task, credited, torn, months, faults>>

CancelSubscription(s) ==
    /\ sale[s].live
    /\ sale' = [sale EXCEPT ![s].live = FALSE]
    /\ due' = due \ {s}
    /\ mail' = mail \cup {Told("deleted", s)}
    /\ UNCHANGED <<org, task, credited, torn, months, faults>>

MonthPasses ==
    /\ months < MaxMonths
    /\ \A w \in Worker : task[w] = Idle
    /\ months' = months + 1
    /\ due' = {s \in Sale : sale[s].live}
    /\ org' = IF org.until \in {None, 0} THEN org ELSE [org EXCEPT !.until = @ - 1]
    /\ UNCHANGED <<sale, mail, task, credited, torn, faults>>

---------------------------------------------------------------------------
(* Checkout.                                                               *)

\* createCheckout: the plan is expired lazily, then the gate looks at it.
Checkout(w, s, item) ==
    /\ task[w] = Idle /\ sale[s].item = None /\ item # "pack"
    /\ \A v \in Worker : task[v].sale # s
    /\ task' = [task EXCEPT ![w] = [op |-> IF Expired(org) THEN "expire" ELSE "gate",
                                    event |-> None, sale |-> s, item |-> item, doc |-> org]]
    /\ UNCHANGED <<org, mail, faults>> /\ UNCHANGED World

Opened(s, item) ==
    sale' = [sale EXCEPT ![s] = [item |-> item, order |-> "pending", stripe |-> "open",
                                 live |-> FALSE]]

\* canSubscribeToPlan; the owner has the URL once the order is stored.
Gate(w) ==
    /\ Doing(w, "gate")
    /\ IF Rank(org.plan) >= Rank(task[w].item) THEN UNCHANGED sale
                                               ELSE Opened(task[w].sale, task[w].item)
    /\ Done(w)
    /\ UNCHANGED <<org, due, credited, torn, months>>

PackCheckout(s) ==
    /\ sale[s].item = None /\ "pack" \in Item
    /\ \A v \in Worker : task[v].sale # s
    /\ Opened(s, "pack")
    /\ UNCHANGED <<org, mail, due, task, credited, torn, months, faults>>

---------------------------------------------------------------------------
(* A plan that was paid.                                                   *)

\* An event is delivered while nobody handles it, or again when the answer
\* takes too long.
Deliverable(e) ==
    /\ e \in mail
    /\ IF \E w \in Worker : task[w].event = e THEN Fault ELSE UNCHANGED faults

CompletedLoad(w, s) ==
    /\ task[w] = Idle
    /\ Deliverable(Told("completed", s))
    /\ Begin(w, IF sale[s].item = "pack" THEN "pack" ELSE "order",
             Told("completed", s), s, org)
    /\ UNCHANGED <<org, mail>> /\ UNCHANGED World

\* Mutant: an active plan is taken for a payment that was applied.
CompletedOrderActive(w) ==
    /\ Doing(w, "order")
    /\ IF task[w].doc.plan = task[w].item /\ Active(task[w].doc)
         THEN Done(w)
         ELSE GoOn(w, "load", NewOrg) /\ UNCHANGED <<mail, faults>>
    /\ UNCHANGED org /\ UNCHANGED World

\* onCheckoutSessionCompleted has the organization and finds the paid order.
CompletedOrder(w) ==
    LET s == task[w].sale  doc == task[w].doc IN
    /\ Doing(w, "order")
    /\ IF sale[s].order = "paid" /\ doc.plan = task[w].item /\ Active(doc)
         THEN Done(w)
         ELSE GoOn(w, "load", NewOrg) /\ UNCHANGED <<mail, faults>>
    /\ UNCHANGED org /\ UNCHANGED World

\* The return page: confirmCheckout finds the paid order, then the organization.
ConfirmOrder(w, s) ==
    /\ task[w] = Idle
    /\ sale[s].stripe = "paid"
    /\ Begin(w, IF sale[s].item = "pack" THEN "pack"
                ELSE IF sale[s].order = "paid" THEN "org" ELSE "load", None, s, NewOrg)
    /\ UNCHANGED <<org, mail, faults>> /\ UNCHANGED World

ConfirmOrg(w) ==
    /\ Doing(w, "org")
    /\ IF org.plan = task[w].item /\ Active(org)
         THEN Done(w)
         ELSE GoOn(w, "load", NewOrg) /\ UNCHANGED <<mail, faults>>
    /\ UNCHANGED org /\ UNCHANGED World

\* activatePlan.
ActivateLoad(w) ==
    /\ Doing(w, "load")
    /\ GoOn(w, "upgrade", org)
    /\ UNCHANGED <<org, mail, faults>> /\ UNCHANGED World

UpgradePlan(w) ==
    LET new == [task[w].doc EXCEPT !.plan = task[w].item] IN
    /\ Doing(w, "upgrade")
    /\ org' = Merge(org, task[w].doc, new)
    /\ GoOn(w, "dates", new)
    /\ UNCHANGED <<mail, faults>> /\ UNCHANGED World

\* Mutant: only the subscription is saved.
SetDatesForgotten(w) ==
    LET new == [task[w].doc EXCEPT !.sub = task[w].sale] IN
    /\ Doing(w, "dates")
    /\ org' = Merge(org, task[w].doc, new)
    /\ GoOn(w, "mark", NewOrg)
    /\ UNCHANGED <<mail, faults>> /\ UNCHANGED World

\* A new date always differs from the one loaded.
SetDates(w) ==
    LET new == [task[w].doc EXCEPT !.until = 1, !.sub = task[w].sale] IN
    /\ Doing(w, "dates")
    /\ org' = [Merge(org, task[w].doc, new) EXCEPT !.until = 1]
    /\ GoOn(w, "mark", NewOrg)
    /\ UNCHANGED <<mail, faults>> /\ UNCHANGED World

\* Mutant: Stripe's word for it; updateMany does not validate it.
OrderPaidComplete(s) == sale' = [sale EXCEPT ![s].order = "complete"]

OrderPaid(s) == sale' = [sale EXCEPT ![s].order = "paid"]

MarkPaid(w) ==
    /\ Doing(w, "mark")
    /\ OrderPaid(task[w].sale)
    /\ Done(w)
    /\ UNCHANGED <<org, due, credited, torn, months>>

---------------------------------------------------------------------------
(* A pack of credits that was paid.                                        *)

AtPack(s) == {w \in Worker : task[w].sale = s /\ task[w].op = "grant"}

\* Mutant: the paid order is not looked for.
FindPaidNever(w) ==
    LET s == task[w].sale IN
    /\ Doing(w, "pack")
    /\ GoOn(w, "grant", NewOrg)
    /\ torn' = IF AtPack(s) = {} THEN torn ELSE torn \cup {s}
    /\ UNCHANGED <<org, sale, mail, due, credited, months, faults>>

\* fulfillAiCreditPackPurchase: nothing is left to do once the order is paid.
FindPaid(w) ==
    LET s == task[w].sale IN
    /\ Doing(w, "pack")
    /\ IF sale[s].order = "paid"
         THEN Done(w) /\ UNCHANGED torn
         ELSE /\ GoOn(w, "grant", NewOrg)
              /\ torn' = IF AtPack(s) = {} THEN torn ELSE torn \cup {s}
              /\ UNCHANGED <<mail, faults>>
    /\ UNCHANGED <<org, sale, due, credited, months>>

GrantPack(w) ==
    /\ Doing(w, "grant")
    /\ OrderPaid(task[w].sale)
    /\ GoOn(w, "credit", NewOrg)
    /\ UNCHANGED <<org, mail, due, credited, torn, months, faults>>

\* addPurchasedCredits: one $inc.
AddCredits(w) ==
    /\ Doing(w, "credit")
    /\ credited' = [credited EXCEPT ![task[w].sale] = @ + 1]
    /\ Done(w)
    /\ UNCHANGED <<org, sale, due, torn, months>>

---------------------------------------------------------------------------
(* The other events, and the end of a plan.                                *)

\* onCheckoutSessionExpired: one updateMany of what is pending.
CancelOrder(w, s) ==
    /\ task[w] = Idle
    /\ Told("expired", s) \in mail
    /\ mail' = mail \ {Told("expired", s)}
    /\ sale' = IF sale[s].order = "pending" THEN [sale EXCEPT ![s].order = "cancelled"]
                                            ELSE sale
    /\ UNCHANGED <<org, due, task, credited, torn, months, faults>>

OpOf == [paid |-> "renew", deleted |-> "delete"]

\* The organization of the subscription, if there is one and it has a plan.
SubscriptionLoad(w, s, kind) ==
    /\ task[w] = Idle
    /\ Deliverable(Told(kind, s))
    /\ IF org.sub = s /\ org.plan # "free"
         THEN Begin(w, OpOf[kind], Told(kind, s), s, org) /\ UNCHANGED mail
         ELSE mail' = mail \ {Told(kind, s)} /\ UNCHANGED task
    /\ UNCHANGED org /\ UNCHANGED World

\* renewOrganizationSubscription: a month from the expiry, or from now.
Renew(w) ==
    LET doc  == task[w].doc
        left == IF doc.until = None THEN 0 ELSE doc.until
        new  == [doc EXCEPT !.until = left + 1] IN
    /\ Doing(w, "renew")
    /\ org' = Merge(org, doc, new)
    /\ Done(w)
    /\ UNCHANGED World

\* expireOrg.
Freed(doc) == Merge(org, doc, [doc EXCEPT !.plan = "free", !.until = None, !.sub = None])

DeleteSave(w) ==
    /\ Doing(w, "delete")
    /\ org' = Freed(task[w].doc)
    /\ Done(w)
    /\ UNCHANGED World

\* Mutant: every paid plan is swept.
ExpireLoadAny(w) ==
    /\ task[w] = Idle
    /\ org.plan # "free"
    /\ task' = [task EXCEPT ![w] = [Idle EXCEPT !.op = "expire", !.doc = org]]
    /\ UNCHANGED <<org, mail, faults>> /\ UNCHANGED World

\* Mutant: a plan with a subscription is left to Stripe.
ExpireLoadUnsubscribed(w) ==
    /\ task[w] = Idle
    /\ Expired(org) /\ org.sub = None
    /\ task' = [task EXCEPT ![w] = [Idle EXCEPT !.op = "expire", !.doc = org]]
    /\ UNCHANGED <<org, mail, faults>> /\ UNCHANGED World

\* sweepExpired, and expireOrgIfNeeded when the panel asks for the plan.
ExpireLoad(w) ==
    /\ task[w] = Idle
    /\ Expired(org)
    /\ task' = [task EXCEPT ![w] = [Idle EXCEPT !.op = "expire", !.doc = org]]
    /\ UNCHANGED <<org, mail, faults>> /\ UNCHANGED World

ExpireSave(w) ==
    /\ Doing(w, "expire")
    /\ org' = Freed(task[w].doc)
    /\ IF task[w].sale = None THEN Done(w)
                              ELSE GoOn(w, "gate", NewOrg) /\ UNCHANGED <<mail, faults>>
    /\ UNCHANGED World

\* The handlers of W throw, or die with their process: what they saved stays.
Fails(W) ==
    /\ Fault
    /\ \A w \in W : task[w] # Idle
    /\ task' = [w \in Worker |-> IF w \in W THEN Idle ELSE task[w]]
    /\ torn' = torn \cup {task[w].sale : w \in {v \in W : task[v].op \in {"dates", "credit"}}}
    /\ UNCHANGED <<org, sale, mail, due, credited, months>>

---------------------------------------------------------------------------
EventLoad(w) == \E s \in Sale :
    \/ CompletedLoad(w, s) \/ CancelOrder(w, s)
    \/ \E kind \in {"paid", "deleted"} : SubscriptionLoad(w, s, kind)

GoesOn(w) ==
    \/ CompletedOrder(w) \/ ConfirmOrg(w) \/ ActivateLoad(w) \/ UpgradePlan(w)
    \/ SetDates(w) \/ MarkPaid(w) \/ FindPaid(w) \/ GrantPack(w) \/ AddCredits(w)
    \/ Renew(w) \/ DeleteSave(w) \/ ExpireSave(w) \/ Gate(w)

Next ==
    \/ \E s \in Sale : \/ Pay(s) \/ SessionExpires(s) \/ Charge(s)
                       \/ CancelSubscription(s) \/ PackCheckout(s)
    \/ MonthPasses
    \/ \E w \in Worker :
         \/ EventLoad(w) \/ GoesOn(w) \/ ExpireLoad(w)
         \/ \E s \in Sale : \/ ConfirmOrder(w, s)
                            \/ \E item \in Item : Checkout(w, s, item)
    \/ \E W \in SUBSET Worker \ {{}} : Fails(W)

Spec == Init /\ [][Next]_vars

\* A handler that began goes on, Stripe delivers what was not answered, and
\* the sweep comes back every hour, whatever other handlers run meanwhile.
Fairness ==
    /\ \A w \in Worker : WF_vars(GoesOn(w))
    /\ \A s \in Sale : SF_vars(\E w \in Worker : CompletedLoad(w, s))
    /\ SF_vars(\E w \in Worker : ExpireLoad(w))

FairSpec == Spec /\ Fairness

---------------------------------------------------------------------------
\* The credits of a paid pack are added once, unless two handlers both found
\* the order unpaid or one was cut short between the order and the credits
\* (fulfillAiCreditPackPurchase has no transaction and no condition in its
\* update).
PackCreditedOnceUnlessTorn ==
    \A s \in Sale \ torn :
        /\ credited[s] <= 1
        /\ sale[s].item = "pack" /\ sale[s].order = "paid" /\ credited[s] = 0
             => \E w \in Worker : task[w].sale = s /\ task[w].op = "credit"

\* A paid plan has an expiry, so it does not run for ever: activatePlan saves
\* the plan first and the date after it, and only a handler cut short between
\* the two leaves it without one.
PlanEndsUnlessTorn ==
    org.plan # "free" /\ org.until = None /\ torn = {}
        => \E w \in Worker : task[w].op = "dates"

\* A plan that still runs is ended only by the deletion of its own
\* subscription, or by a handler whose document is outdated (expireOrg saves
\* what the sweep, a panel's request or the webhook has loaded).
RunningPlanKept ==
    [][org.plan # "free" /\ org'.plan = "free" /\ ~Expired(org)
         => \E w \in Worker :
              \/ task[w].op = "delete" /\ task[w].sale = org.sub
              \/ task[w].op \in {"delete", "expire"} /\ task[w].doc # org]_vars

\* A paid session is settled in the end, whichever of the webhook and the return
\* page comes first, and whatever fails on the way: its order is paid, which for
\* a plan means that an activation went through to its last save, and the credits
\* of a pack were added, but for a pack whose fulfilment overlapped or was cut
\* short: the order is marked before the credits, and nothing adds them later.
PaymentSettles ==
    \A s \in Sale :
        (sale[s].stripe = "paid") ~>
            /\ sale[s].order = "paid"
            /\ sale[s].item = "pack" => credited[s] > 0 \/ s \in torn

\* An expired plan becomes free or is renewed.
ExpiredPlanEnds == Expired(org) ~> ~Expired(org)
============================================================================
