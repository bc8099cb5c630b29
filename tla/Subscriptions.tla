---------------------------- MODULE Subscriptions ---------------------------
(***************************************************************************)
(* Checkout, the billing portal and the webhook through which Stripe tells *)
(* the backend what was paid.                                              *)
(*                                                                         *)
(* CreateCheckoutSession runs outside of any transaction, so each of its   *)
(* statements and each call of Stripe is an action.  A Stripe customer is  *)
(* named by the checkout that created it.  Every webhook handler is one    *)
(* statement; but an event that is not looked at is answered with 200 too. *)
(* Stripe (external) delivers an event until it is answered with 200, in   *)
(* any order, and may deliver it again afterwards.                         *)
(***************************************************************************)
EXTENDS Naturals, Sequences, FiniteSets

CONSTANTS Users, Checkouts,
          Unset,        \* no user, no customer
          MaxEvents     \* bound of the model: events that Stripe sends

ASSUME UnsetAssumption == Unset \notin Users /\ Unset \notin Checkouts
ASSUME EventsAssumption == MaxEvents \in Nat

VARIABLES
    customer, plan,     \* users.stripe_customer_id, users.plan
    gone, left,         \* accounts deleted now, and ever
    replaced,           \* customers that another one has overwritten
    checkout,           \* where each CreateCheckoutSession is
    payer, wants,       \* its user and what is bought
    billed,             \* the customer its checkout session bills
    stripe,             \* the subscription of each checkout, at Stripe
    sent,               \* Stripe's events, in the order they happened
    applied,            \* which were handled, and answered with 200
    unheard,            \* which were answered with 200, and never handled so far
    late,               \* customers of whom an event came after a later one
    ledger              \* grants of the events: <<event, user>>

userState   == <<customer, plan, gone, left, replaced>>
callState   == <<checkout, payer, wants, billed>>
stripeState == <<stripe, sent>>
webhookState == <<applied, unheard, late, ledger>>
subscriptionVars == <<userState, callState, stripeState, webhookState>>

Goods == {"subscription", "pack", "nonsense"}
Plans == {"free", "pro"}
CheckoutCode == [ok |-> "open", failed |-> "internal"]
PortalCode   == [none |-> "failed_precondition", failed |-> "internal"]

SubscriptionInit ==
    /\ customer = [u \in Users |-> Unset] /\ plan = [u \in Users |-> "free"]
    /\ gone = {} /\ left = {} /\ replaced = {}
    /\ checkout = [c \in Checkouts |-> "idle"]
    /\ payer = [c \in Checkouts |-> Unset]
    /\ wants = [c \in Checkouts |-> "nonsense"]
    /\ billed = [c \in Checkouts |-> Unset]
    /\ stripe = [c \in Checkouts |-> "none"] /\ sent = <<>>
    /\ applied = {} /\ unheard = {} /\ late = {} /\ ledger = <<>>
-----------------------------------------------------------------------------
(***************************************************************************)
(* CreateCheckoutSession                                                   *)
(***************************************************************************)
\* The statements on users: no account that is deleted is found.
GetUserByID(u) == u \notin gone
UpdateUserStripeCustomerID(u, cust) == customer' = [customer EXCEPT ![u] = cust]

Proceed(c, from, to) == checkout[c] = from /\ checkout' = [checkout EXCEPT ![c] = to]

\* The authenticated user, and the customer it has, if any.
BeginCheckout(c, u, goods) ==
    /\ GetUserByID(u)
    /\ Proceed(c, "idle", IF customer[u] = Unset THEN "creating" ELSE "pricing")
    /\ payer' = [payer EXCEPT ![c] = u] /\ wants' = [wants EXCEPT ![c] = goods]
    /\ billed' = [billed EXCEPT ![c] = customer[u]]
    /\ UNCHANGED <<userState, stripeState, webhookState>>

\* customer.New
NewCustomer(c) ==
    /\ Proceed(c, "creating", "saving")
    /\ billed' = [billed EXCEPT ![c] = c]
    /\ UNCHANGED <<userState, payer, wants, stripeState, webhookState>>

\* Overwrites what a racing checkout has saved.
SaveCustomer(c) ==
    /\ Proceed(c, "saving", "pricing")
    /\ UpdateUserStripeCustomerID(payer[c], c)
    /\ replaced' = IF customer[payer[c]] = Unset THEN replaced
                   ELSE replaced \cup {customer[payer[c]]}
    /\ UNCHANGED <<plan, gone, left, payer, wants, billed, stripeState, webhookState>>

\* PlanByName, ValidPackSize and the configured prices.
Priced(goods) == goods \in {"subscription", "pack"}

\* The type is looked at only now, and Stripe makes the checkout session.
OpenCheckout(c) ==
    /\ Proceed(c, "pricing", IF Priced(wants[c]) THEN CheckoutCode.ok ELSE CheckoutCode.failed)
    /\ UNCHANGED <<userState, payer, wants, billed, stripeState, webhookState>>

\* Stripe or the database does not answer, or the user is deleted by now.
CheckoutFails(c) ==
    /\ checkout[c] \in {"creating", "saving", "pricing"}
    /\ checkout' = [checkout EXCEPT ![c] = CheckoutCode.failed]
    /\ UNCHANGED <<userState, payer, wants, billed, stripeState, webhookState>>

\* DeleteAccount, and the OAuthLogin that reactivates (Accounts).
Leave(u) ==
    /\ u \notin gone /\ gone' = gone \cup {u} /\ left' = left \cup {u}
    /\ UNCHANGED <<customer, plan, replaced, callState, stripeState, webhookState>>
ComeBack(u) ==
    /\ u \in gone /\ gone' = gone \ {u}
    /\ UNCHANGED <<customer, plan, left, replaced, callState, stripeState, webhookState>>
-----------------------------------------------------------------------------
(***************************************************************************)
(* Stripe: what happens to what was bought, and the events that say so.    *)
(***************************************************************************)
Event(c, kind) == [of |-> c, kind |-> kind]
Report(events) == Len(sent) + Len(events) <= MaxEvents /\ sent' = sent \o events
Becomes(c, from, to) == stripe[c] \in from /\ stripe' = [stripe EXCEPT ![c] = to]

\* checkout.session.completed comes in either mode.
PayPack(c) ==
    /\ checkout[c] = CheckoutCode.ok /\ wants[c] = "pack" /\ Becomes(c, {"none"}, "paid")
    /\ Report(<<Event(c, "pack")>>)
    /\ UNCHANGED <<userState, callState, webhookState>>

Subscribe(c) ==
    /\ checkout[c] = CheckoutCode.ok /\ wants[c] = "subscription" /\ Becomes(c, {"none"}, "active")
    /\ Report(<<Event(c, "subscribed"), Event(c, "invoice")>>)
    /\ UNCHANGED <<userState, callState, webhookState>>

\* The next month, or an unpaid one paid after all.
Renew(c) ==
    /\ Becomes(c, {"active", "past_due"}, "active")
    /\ Report(IF stripe[c] = "active" THEN <<Event(c, "invoice")>>
              ELSE <<Event(c, "invoice"), Event(c, "active")>>)
    /\ UNCHANGED <<userState, callState, webhookState>>

Lapse(c) ==
    /\ Becomes(c, {"active"}, "past_due") /\ Report(<<Event(c, "past_due")>>)
    /\ UNCHANGED <<userState, callState, webhookState>>

\* CreatePortalSession: the portal of the customer that is stored.
PortalOf(u) == IF customer[u] = Unset THEN PortalCode.none ELSE customer[u]

\* By the user in the portal, or by Stripe when nothing is paid.
Cancel(c) ==
    /\ stripe[c] = "past_due" \/ \E u \in Users : GetUserByID(u) /\ PortalOf(u) = billed[c]
    /\ Becomes(c, {"active", "past_due"}, "canceled") /\ Report(<<Event(c, "deleted")>>)
    /\ UNCHANGED <<userState, callState, webhookState>>
-----------------------------------------------------------------------------
(***************************************************************************)
(* PostStripeWebhook                                                       *)
(***************************************************************************)
CustomerOf(i) == billed[sent[i].of]
Holders(i) == {u \in Users \ gone : customer[u] = CustomerOf(i)}
Granted == {ledger[k][1] : k \in DOMAIN ledger}

\* Mutant: without the conflict clause (and without the UNIQUE column).
InsertGrantAlways(i, u) == ledger' = Append(ledger, <<i, u>>)

\* ON CONFLICT (stripe_event_id) DO NOTHING
InsertGrant(i, u) == ledger' = IF i \in Granted THEN ledger ELSE Append(ledger, <<i, u>>)

\* The user of the metadata, deleted or not.
CreatePurchaseGrant(i) == InsertGrant(i, payer[sent[i].of]) /\ UNCHANGED plan

\* Mutant: update_plan joins target_user and not new_grant.
CreateSubscriptionGrantForUser(i) ==
    \/ Holders(i) = {} /\ UNCHANGED <<ledger, plan>>
    \/ \E u \in Holders(i) : InsertGrant(i, u) /\ plan' = [plan EXCEPT ![u] = "pro"]

\* The holder of the customer, if there is one; the plan only with a grant.
CreateSubscriptionGrant(i) ==
    \/ Holders(i) = {} /\ UNCHANGED <<ledger, plan>>
    \/ \E u \in Holders(i) :
           /\ InsertGrant(i, u)
           /\ plan' = IF i \in Granted THEN plan ELSE [plan EXCEPT ![u] = "pro"]

UpdatePlanByStripeCustomer(i, name) ==
    plan' = [u \in Users |-> IF u \in Holders(i) THEN name ELSE plan[u]] /\ UNCHANGED ledger

HandleCheckoutCompleted(i) ==
    \/ sent[i].kind = "pack" /\ CreatePurchaseGrant(i)
    \/ sent[i].kind = "subscribed" /\ UNCHANGED <<ledger, plan>>
HandleInvoicePaid(i) == sent[i].kind = "invoice" /\ CreateSubscriptionGrant(i)
HandleSubscriptionDeleted(i) ==
    sent[i].kind = "deleted" /\ UpdatePlanByStripeCustomer(i, "free")

\* Mutant: past_due is not in the list.
HandleSubscriptionUpdatedAlways(i) ==
    sent[i].kind \in {"active", "past_due"} /\ UpdatePlanByStripeCustomer(i, "pro")

HandleSubscriptionUpdated(i) ==
    /\ sent[i].kind \in {"active", "past_due"}
    /\ UpdatePlanByStripeCustomer(i, IF sent[i].kind = "past_due" THEN "free" ELSE "pro")

HandleStripeWebhook(i) == HandleCheckoutCompleted(i) \/ HandleInvoicePaid(i)
                          \/ HandleSubscriptionDeleted(i) \/ HandleSubscriptionUpdated(i)

\* The body cannot be read, or no webhook secret is configured: 200 to spare
\* a storm of retries.
SwallowEvent(i) ==
    /\ unheard' = IF i \in applied THEN unheard ELSE unheard \cup {i}
    /\ UNCHANGED <<userState, callState, stripeState, applied, late, ledger>>

\* Mutant: an error of the handler is answered with 200 too.
AcknowledgeAnyway(i) ==
    /\ HandleStripeWebhook(i) \/ UNCHANGED <<ledger, plan>>
    /\ applied' = applied \cup {i} /\ unheard' = unheard \ {i}
    /\ UNCHANGED <<customer, gone, left, replaced, callState, stripeState, late>>

AcknowledgeEvent(i) ==
    /\ HandleStripeWebhook(i)
    /\ applied' = applied \cup {i} /\ unheard' = unheard \ {i}
    /\ late' = IF \E j \in applied : j > i /\ CustomerOf(j) = CustomerOf(i)
                 THEN late \cup {CustomerOf(i)} ELSE late
    /\ UNCHANGED <<customer, gone, left, replaced, callState, stripeState>>

\* A signature that does not verify is a 400, an error of the handler a 500:
\* both change nothing.  After a 200 that was lost, and at times without a
\* reason, Stripe delivers once more.
PostStripeWebhook(i) == SwallowEvent(i) \/ AcknowledgeEvent(i)
-----------------------------------------------------------------------------
CheckoutStep(c) ==
    \/ \E u \in Users, goods \in Goods : BeginCheckout(c, u, goods)
    \/ NewCustomer(c) \/ SaveCustomer(c) \/ OpenCheckout(c) \/ CheckoutFails(c)

StripeStep(c) == PayPack(c) \/ Subscribe(c) \/ Renew(c) \/ Lapse(c) \/ Cancel(c)

SubscriptionNext ==
    \/ \E c \in Checkouts : CheckoutStep(c) \/ StripeStep(c)
    \/ \E u \in Users : Leave(u) \/ ComeBack(u)
    \/ \E i \in DOMAIN sent : PostStripeWebhook(i)

SubscriptionSpec == SubscriptionInit /\ [][SubscriptionNext]_subscriptionVars
-----------------------------------------------------------------------------
SubscriptionTypeOK ==
    /\ customer \in [Users -> Checkouts \cup {Unset}] /\ plan \in [Users -> Plans]
    /\ gone \subseteq left /\ left \subseteq Users /\ replaced \subseteq Checkouts
    /\ checkout \in [Checkouts -> {"idle", "creating", "saving", "pricing", "open", "internal"}]
    /\ payer \in [Checkouts -> Users \cup {Unset}] /\ wants \in [Checkouts -> Goods]
    /\ billed \in [Checkouts -> Checkouts \cup {Unset}]
    /\ stripe \in [Checkouts -> {"none", "paid", "active", "past_due", "canceled"}]
    /\ sent \in Seq([of : Checkouts,
                     kind : {"pack", "subscribed", "invoice", "active", "past_due", "deleted"}])
    /\ {applied, unheard} \subseteq SUBSET DOMAIN sent /\ late \subseteq Checkouts
    /\ ledger \in Seq((DOMAIN sent) \X Users)

(***************************************************************************)
(* However often and in whatever order Stripe delivers an event, it is     *)
(* credited at most once and to the account that paid, even when accounts  *)
(* are deleted and customers overwritten meanwhile ("Idempotent via        *)
(* stripe_event_id").                                                      *)
(***************************************************************************)
CreditedOnce ==
    /\ \A k, l \in DOMAIN ledger : ledger[k][1] = ledger[l][1] => k = l
    /\ \A k \in DOMAIN ledger : ledger[k][2] = payer[sent[ledger[k][1]].of]

(***************************************************************************)
(* When Stripe has been told to stop delivering a payment, the payment is  *)
(* credited, or else the code has waived it knowingly: it was never looked *)
(* at, for want of a readable body or of a secret ("deliberately           *)
(* swallowing a misconfiguration"), or it is the renewal of a customer     *)
(* that a racing checkout has overwritten or of an account that was        *)
(* deleted ("unknown customer").  An event that was swallowed once is      *)
(* credited when a later delivery is handled.                              *)
(***************************************************************************)
PaidIsCredited ==
    \A i \in applied \cup unheard :
        \/ i \in Granted \/ sent[i].kind \notin {"pack", "invoice"}
        \/ i \in unheard \ applied
        \/ /\ sent[i].kind = "invoice"
           /\ CustomerOf(i) \in replaced \/ payer[sent[i].of] \in left

(***************************************************************************)
(* A payment delivered once more does not bring the plan back: an account  *)
(* becomes pro only with a new grant, or when Stripe calls its             *)
(* subscription active again.                                              *)
(***************************************************************************)
ReplayKeepsPlan ==
    [][\A u \in Users :
          plan[u] = "free" /\ plan'[u] = "pro" =>
              \/ Len(ledger') > Len(ledger)
              \/ \E i \in DOMAIN sent : sent[i].kind = "active" /\ CustomerOf(i) = customer[u]
      ]_subscriptionVars

\* The subscriptions that have been paid for by a customer, or for a user.
SubscribedBy(cust) == {c \in Checkouts : billed[c] = cust /\ wants[c] = "subscription"
                                                         /\ stripe[c] # "none"}
SubscribedFor(u) == {c \in Checkouts : payer[c] = u /\ wants[c] = "subscription"
                                                    /\ stripe[c] # "none"}

(***************************************************************************)
(* A user with one subscription, whose events have all been handled and    *)
(* none after a later one of the same customer, has the plan that Stripe   *)
(* says is paid for - unless the account was deleted at some time or       *)
(* another checkout overwrote its customer.                                *)
(***************************************************************************)
PlanFollowsSubscription ==
    \A u \in Users \ left : \A c \in SubscribedFor(u) :
        /\ SubscribedFor(u) = {c} /\ billed[c] = customer[u] /\ customer[u] \notin late
        /\ \A i \in DOMAIN sent : CustomerOf(i) = customer[u] => i \in applied
        => (plan[u] = "pro" <=> stripe[c] = "active")
=============================================================================
