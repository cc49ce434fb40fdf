------------------------------- MODULE Billing -------------------------------
(***************************************************************************)
(* The plan of one user: checkouts, the webhook and the billing profile of *)
(* modules/billing, with Stripe as an external party whose events come     *)
(* late, out of order and more than once.                                  *)
(*                                                                         *)
(* "active" stands for active, past_due and unpaid, "ended" for the        *)
(* statuses that give no plan.  A Stripe subscription is tagged when its   *)
(* metadata has the user's id: startCheckout puts it on the session, not   *)
(* on the subscription, so that only those made by hand at Stripe are.     *)
(* Prices, addresses and customers may be changed by hand at Stripe too.   *)
(***************************************************************************)
EXTENDS Integers, Sequences, FiniteSets

CONSTANTS
  Customers,    \* Stripe customers that may be created
  Subs,         \* subscriptions that may be bought
  Prices,       \* prices at Stripe
  PriceOf,      \* stripePriceStartup and stripePriceBusiness of the config
  ListLimit,    \* how many subscriptions Stripe is asked for (20 in the code)
  MaxChanges,   \* bound on the changes at Stripe
  Checkouts,    \* requests to start a checkout or open the portal
  Fetches,      \* requests for the billing profile
  Nobody

ASSUME BillingConstants ==
  /\ MaxChanges \in Nat \ {0} /\ ListLimit \in Nat \ {0}
  /\ IsFiniteSet(Subs)
  /\ Nobody \notin Customers \cup Subs \cup Prices
  /\ PriceOf \in [{"startup", "business"} -> Prices \cup {Nobody}]

VARIABLES
  customers,   \* external: customers that were made for the user at Stripe
  addressed,   \* external: customers with the user's address
  erased,      \* external: customers that were deleted
  sessions,    \* external: customers with a checkout session
  customerOf,  \* external: who pays for a subscription
  tagged,      \* external: subscriptions with metadata.userId
  ticks,       \* external: changes so far
  created,     \* external: when each subscription was bought
  status,      \* external: each subscription as its last change left it
  outbox,      \* external: events of Stripe, which may be delivered at any time
  recorded,    \* billing_webhook_events
  working,     \* events whose delivery is past the insert
  writing,     \* events whose customer link is written and whose row is not
  effects,     \* how often an event was applied
  linked,      \* billing_customer_links with the user's id
  rows,        \* billing_subscriptions: status and plan of each row
  owned,       \* rows with the user's id
  recent,      \* rows, the last updated first
  checkout,    \* where each checkout is
  fetch        \* where each profile request is

stripeVars == <<customers, addressed, erased, sessions, customerOf, tagged, ticks,
                created, status, outbox>>
hookVars   == <<recorded, working, writing, effects>>
rowVars    == <<rows, owned, recent>>
tableVars  == <<linked, rowVars>>
billingVars == <<stripeVars, hookVars, tableVars, checkout, fetch>>

PaidStatuses == {"trialing", "active"}

(* A subscription as an event or an answer of Stripe shows it: resumed,    *)
(* created and the like count as updated, paused as deleted.               *)
Changes ==
  [type : {"updated", "deleted"}, sub : Subs, number : 1..MaxChanges,
   is : PaidStatuses \cup {"ended"}, price : Prices]

EventsOfStripe ==
  Changes \cup [type : {"checkout"}, customer : Customers, number : 1..MaxChanges]

NotBought == [is |-> "none"]
NoRow     == [is |-> "none", plan |-> "free"]
NoFetch == [step |-> "idle", customer |-> Nobody, seen |-> NotBought, owed |-> {},
            answer |-> "none"]

BillingInit ==
  /\ customers = {} /\ addressed = {} /\ erased = {} /\ sessions = {}
  /\ tagged = {} /\ outbox = {} /\ ticks = 0
  /\ customerOf = [s \in Subs |-> Nobody]
  /\ created = [s \in Subs |-> 0]
  /\ status = [s \in Subs |-> NotBought]
  /\ recorded = {} /\ working = {} /\ writing = {} /\ effects = [e \in {} |-> 0]
  /\ linked = {} /\ owned = {} /\ recent = <<>>
  /\ rows = [s \in Subs |-> NoRow]
  /\ checkout = [k \in Checkouts |-> "idle"]
  /\ fetch = [f \in Fetches |-> NoFetch]

Bought == {s \in Subs : status[s].is # "none"}
Active == {s \in Subs : status[s].is \in PaidStatuses}

-----------------------------------------------------------------------------
(* Plans.  A price that is not configured gives the free plan. *)

getPlanFromPriceId(price) ==
  CASE price = PriceOf.business -> "business"
    [] price = PriceOf.startup /\ price # PriceOf.business -> "startup"
    [] OTHER -> "free"

PlanOf(change) ==
  IF change.is = "trialing" THEN "trial" ELSE getPlanFromPriceId(change.price)

getPlanFromSubscriptionRecord(row) == IF row.is = "trialing" THEN "trial" ELSE row.plan

(* upsertCustomerLink: an id of another customer of the user violates the  *)
(* unique index on the user id.                                            *)
CanLink(c) == linked \subseteq {c}

(* upsertSubscription writes the link first, and without a userId in the   *)
(* metadata both the link and the row lose the user's id.                  *)
CanUpsert(s) == s \in tagged => CanLink(customerOf[s])

LinkCustomerOf(s) ==
  linked' = IF s \in tagged THEN linked \cup {customerOf[s]}
            ELSE linked \ {customerOf[s]}

WriteRow(change) ==
  LET s == change.sub IN
  /\ rows' = [rows EXCEPT ![s] =
                [is |-> change.is, plan |-> getPlanFromPriceId(change.price)]]
  /\ owned' = IF s \in tagged THEN owned \cup {s} ELSE owned \ {s}
  /\ recent' = <<s>> \o SelectSeq(recent, LAMBDA r : r # s)

(* an existing row keeps its user *)
markSubscriptionCanceled(change) ==
  LET s == change.sub IN
  /\ rows' = [rows EXCEPT ![s] = [is |-> change.is, plan |-> "free"]]
  /\ owned' = IF rows[s] = NoRow /\ s \in tagged THEN owned \cup {s} ELSE owned
  /\ recent' = <<s>> \o SelectSeq(recent, LAMBDA r : r # s)

-----------------------------------------------------------------------------
(* Stripe *)

AtStripe == ticks < MaxChanges /\ ticks' = ticks + 1

Changed(type, s, is, price) ==
  [type |-> type, sub |-> s, number |-> ticks + 1, is |-> is, price |-> price]

(* A checkout is paid for: the session is completed and the subscription   *)
(* starts, each with an event.                                             *)
Buy(s, c, is, price) ==
  /\ AtStripe
  /\ c \in sessions \ erased /\ status[s] = NotBought
  /\ sessions' = sessions \ {c}
  /\ customerOf' = [customerOf EXCEPT ![s] = c]
  /\ created' = [created EXCEPT ![s] = ticks + 1]
  /\ status' = [status EXCEPT ![s] = Changed("updated", s, is, price)]
  /\ tagged' \in {tagged, tagged \cup {s}}
  /\ outbox' = outbox \cup {Changed("updated", s, is, price),
       [type |-> "checkout", customer |-> c, number |-> ticks + 1]}
  /\ UNCHANGED <<customers, addressed, erased, hookVars, tableVars, checkout, fetch>>

(* A subscription is renewed, gets another price, ends or resumes. *)
Change(s, type, is, price) ==
  /\ AtStripe
  /\ status[s] # NotBought /\ customerOf[s] \notin erased
  /\ type = "deleted" => is = "ended"
  /\ status' = [status EXCEPT ![s] = Changed(type, s, is, price)]
  /\ outbox' = outbox \cup {Changed(type, s, is, price)}
  /\ fetch' = IF is \in PaidStatuses THEN fetch
              ELSE [f \in Fetches |-> [fetch[f] EXCEPT !.owed = @ \ {s}]]
  /\ UNCHANGED <<customers, addressed, erased, sessions, customerOf, created, tagged,
                 hookVars, tableVars, checkout>>

(* A customer gets another address, *)
Readdress(c) ==
  /\ AtStripe
  /\ c \in addressed
  /\ addressed' = addressed \ {c}
  /\ UNCHANGED <<customers, erased, sessions, customerOf, created, tagged, status,
                 outbox, hookVars, tableVars, checkout, fetch>>

(* or is deleted, after its subscriptions have ended. *)
EraseCustomer(c) ==
  /\ AtStripe
  /\ c \in customers \ erased
  /\ \A s \in Active : customerOf[s] # c
  /\ erased' = erased \cup {c}
  /\ UNCHANGED <<customers, addressed, sessions, customerOf, created, tagged, status,
                 outbox, hookVars, tableVars, checkout, fetch>>

-----------------------------------------------------------------------------
(* handleWebhook *)

(* Mutated form of RecordEvent: a duplicate is processed again. *)
RecordEventAlways(e) ==
  /\ e \in outbox
  /\ recorded' = recorded \cup {e}
  /\ working' = working \cup {e}
  /\ UNCHANGED <<stripeVars, writing, effects, tableVars, checkout, fetch>>

(* Only the delivery that inserts the event goes on; every other one, a    *)
(* retry after a failure included, is answered as a duplicate.             *)
RecordEvent(e) ==
  /\ e \in outbox \ recorded
  /\ recorded' = recorded \cup {e}
  /\ working' = working \cup {e}
  /\ UNCHANGED <<stripeVars, writing, effects, tableVars, checkout, fetch>>

(* The first statement of the handler, whatever the status in the event:   *)
(* the link of a checkout or of upsertSubscription, or the row of          *)
(* markSubscriptionCanceled.                                               *)
ProcessEvent(e) ==
  /\ e \in working
  /\ \/ /\ e.type = "checkout" /\ CanLink(e.customer)
        /\ linked' = linked \cup {e.customer}
        /\ UNCHANGED <<rowVars, writing>>
     \/ /\ e.type = "updated" /\ CanUpsert(e.sub)
        /\ LinkCustomerOf(e.sub)
        /\ writing' = writing \cup {e}
        /\ UNCHANGED rowVars
     \/ /\ e.type = "deleted"
        /\ markSubscriptionCanceled(e)
        /\ UNCHANGED <<linked, writing>>
  /\ working' = working \ {e}
  /\ effects' = [x \in DOMAIN effects \cup {e} |->
                   IF x # e THEN effects[x]
                   ELSE IF e \in DOMAIN effects THEN effects[e] + 1 ELSE 1]
  /\ UNCHANGED <<stripeVars, recorded, checkout, fetch>>

(* The second statement of upsertSubscription. *)
ProcessRow(e) ==
  /\ e \in writing
  /\ WriteRow(e)
  /\ writing' = writing \ {e}
  /\ UNCHANGED <<stripeVars, recorded, working, effects, linked, checkout, fetch>>

(* A statement fails, the unique index included: Stripe gets a 500, and    *)
(* its retry will be a duplicate.                                          *)
ProcessFails(e) ==
  /\ e \in working \cup writing
  /\ working' = working \ {e} /\ writing' = writing \ {e}
  /\ UNCHANGED <<stripeVars, recorded, effects, tableVars, checkout, fetch>>

-----------------------------------------------------------------------------
(* findStripeCustomerByUser, given the link that was read: the linked      *)
(* customer unless it was deleted, or else one with the user's address,    *)
(* which is then linked.                                                   *)
Links == IF linked = {} THEN {Nobody} ELSE linked

(* Mutated form of the next definition: the address is not searched for. *)
CandidatesByLink(link) == IF link \in customers \ erased THEN {link} ELSE {}

Candidates(link) ==
  IF link \in customers \ erased THEN {link} ELSE addressed \ erased

(* startCheckout and openBillingPortal *)
FindCustomer(k) ==
  /\ checkout[k] = "idle"
  /\ \E link \in Links :
       \/ \E c \in Candidates(link) :
            /\ IF CanLink(c)
               THEN linked' = linked \cup {c} /\ sessions' = sessions \cup {c}
               ELSE UNCHANGED <<linked, sessions>>
            /\ checkout' = [checkout EXCEPT ![k] = "done"]
       \/ /\ Candidates(link) = {}
          /\ checkout' = [checkout EXCEPT ![k] = "create"]
          /\ UNCHANGED <<linked, sessions>>
  /\ UNCHANGED <<customers, addressed, erased, customerOf, tagged, ticks, created,
                 status, outbox, hookVars, rowVars, fetch>>

(* A second customer is created all the same, and only its link fails.     *)
CreateCustomer(k, c) ==
  /\ checkout[k] = "create" /\ c \notin customers
  /\ customers' = customers \cup {c} /\ addressed' = addressed \cup {c}
  /\ IF CanLink(c)
     THEN linked' = linked \cup {c} /\ sessions' = sessions \cup {c}
     ELSE UNCHANGED <<linked, sessions>>
  /\ checkout' = [checkout EXCEPT ![k] = "done"]
  /\ UNCHANGED <<erased, customerOf, tagged, ticks, created, status, outbox, hookVars,
                 rowVars, fetch>>

-----------------------------------------------------------------------------
(* fetchCurrentBillingProfile *)

(* the row of the user that was updated last, if there is one *)
StoredSubscription ==
  {s \in owned : \E i \in DOMAIN recent : /\ recent[i] = s
                                         /\ \A j \in 1..(i - 1) : recent[j] \notin owned}

Answer(f, plan) ==
  fetch' = [fetch EXCEPT ![f].step = "done", ![f].answer = plan]

StartFetch(f) ==
  /\ fetch[f].step = "idle"
  /\ fetch' = [fetch EXCEPT ![f] = [NoFetch EXCEPT !.step = "stored", !.owed = Active]]
  /\ UNCHANGED <<stripeVars, hookVars, tableVars, checkout>>

(* A stored subscription with a paid status is answered as it was stored. *)
ReadStored(f) ==
  LET current == {s \in StoredSubscription : rows[s].is \in PaidStatuses} IN
  /\ fetch[f].step = "stored"
  /\ \/ \E s \in current : Answer(f, getPlanFromSubscriptionRecord(rows[s]))
     \/ current = {} /\ fetch' = [fetch EXCEPT ![f].step = "lookup"]
  /\ UNCHANGED <<stripeVars, hookVars, tableVars, checkout>>

(* Otherwise the link is read, *)
ReadLink(f) ==
  /\ fetch[f].step = "lookup"
  /\ \E link \in Links :
       fetch' = [fetch EXCEPT ![f].step = "customer", ![f].customer = link]
  /\ UNCHANGED <<stripeVars, hookVars, tableVars, checkout>>

(* Stripe is asked for the customer, *)
AskStripe(f) ==
  LET found == Candidates(fetch[f].customer) IN
  /\ fetch[f].step = "customer"
  /\ \/ /\ found = {} /\ Answer(f, "free") /\ UNCHANGED linked
     \/ \E c \in found \ {fetch[f].customer} :
          IF CanLink(c)
          THEN /\ linked' = linked \cup {c}
               /\ fetch' = [fetch EXCEPT ![f].step = "list", ![f].customer = c]
          ELSE Answer(f, "error") /\ UNCHANGED linked
     \/ /\ fetch[f].customer \in found
        /\ fetch' = [fetch EXCEPT ![f].step = "list"]
        /\ UNCHANGED linked
  /\ UNCHANGED <<stripeVars, hookVars, rowVars, checkout>>

(* and for its subscriptions, the last ListLimit of which are listed and   *)
(* the newest active one of them is picked;                                *)
Newer(s) == {r \in Bought : customerOf[r] = customerOf[s] /\ created[r] > created[s]}
Listed(c) ==
  {s \in Bought : customerOf[s] = c /\ Cardinality(Newer(s)) < ListLimit}

Newest(candidates) ==
  {s \in candidates : \A r \in candidates : created[r] <= created[s]}

(* with pickActiveSubscription *)
ListSubscriptions(f) ==
  LET candidates == Listed(fetch[f].customer) \cap Active IN
  /\ fetch[f].step = "list"
  /\ \/ candidates = {} /\ Answer(f, "free")
     \/ \E s \in Newest(candidates) :
          fetch' = [fetch EXCEPT ![f].step = "link", ![f].seen = status[s]]
  /\ UNCHANGED <<stripeVars, hookVars, tableVars, checkout>>

(* what it said is stored, though it may have changed since. *)
StoreLink(f) ==
  LET s == fetch[f].seen.sub IN
  /\ fetch[f].step = "link"
  /\ IF CanUpsert(s)
     THEN LinkCustomerOf(s) /\ fetch' = [fetch EXCEPT ![f].step = "row"]
     ELSE Answer(f, "error") /\ UNCHANGED linked
  /\ UNCHANGED <<stripeVars, hookVars, rowVars, checkout>>

StoreAnswer(f) ==
  /\ fetch[f].step = "row"
  /\ WriteRow(fetch[f].seen)
  /\ Answer(f, PlanOf(fetch[f].seen))
  /\ UNCHANGED <<stripeVars, hookVars, linked, checkout>>

-----------------------------------------------------------------------------
StripeMoves(s) ==
  \E price \in Prices :
    \/ \E c \in Customers, is \in PaidStatuses : Buy(s, c, is, price)
    \/ \E type \in {"updated", "deleted"}, is \in PaidStatuses \cup {"ended"} :
         Change(s, type, is, price)

EventRuns(e) == RecordEvent(e) \/ ProcessEvent(e) \/ ProcessRow(e) \/ ProcessFails(e)

ProfileRuns(f) ==
  \/ StartFetch(f) \/ ReadStored(f) \/ ReadLink(f) \/ AskStripe(f)
  \/ ListSubscriptions(f) \/ StoreLink(f) \/ StoreAnswer(f)

BillingNext ==
  \/ \E s \in Subs : StripeMoves(s)
  \/ \E c \in Customers : Readdress(c) \/ EraseCustomer(c)
  \/ \E e \in outbox : EventRuns(e)
  \/ \E k \in Checkouts : FindCustomer(k) \/ \E c \in Customers : CreateCustomer(k, c)
  \/ \E f \in Fetches : ProfileRuns(f)

BillingSpec == BillingInit /\ [][BillingNext]_billingVars

-----------------------------------------------------------------------------
(* Properties. *)

(* Types of the state, with the unique index on the user of a link. *)
BillingTypeOK ==
  /\ customers \subseteq Customers /\ sessions \subseteq customers
  /\ addressed \subseteq customers /\ erased \subseteq customers
  /\ customerOf \in [Subs -> Customers \cup {Nobody}]
  /\ outbox \subseteq EventsOfStripe
  /\ working \subseteq recorded /\ recorded \subseteq outbox /\ writing \subseteq recorded
  /\ \A s \in Subs : /\ rows[s].is \in PaidStatuses \cup {"ended", "none"}
                      /\ rows[s].plan \in {"free", "startup", "business"}
  /\ owned \subseteq Subs /\ tagged \subseteq Subs
  /\ linked \subseteq customers /\ Cardinality(linked) <= 1

(* An event of Stripe takes effect at most once, however often and on      *)
(* however many processes it is delivered.                                 *)
AppliedAtMostOnce == \A e \in DOMAIN effects : effects[e] <= 1

(* A user as the application makes them at Stripe: one customer, under the *)
(* user's address, with configured prices only and no more subscriptions   *)
(* than are listed.                                                        *)
Ordinary ==
  /\ Cardinality(customers) <= 1 /\ customers \subseteq addressed
  /\ \A e \in outbox : e.type # "checkout" => getPlanFromPriceId(e.price) # "free"
  /\ Cardinality(Bought) <= ListLimit

(* An ordinary user who has paid is never shown the free plan: when a      *)
(* subscription was active all through a profile request, the answer is no *)
(* "free", even though webhook events may be missing, late, half applied,  *)
(* applied in the wrong order or stored without the user.                  *)
PaidIsServed ==
  \A f \in Fetches : fetch[f].answer = "free" => fetch[f].owed = {} \/ ~Ordinary
=============================================================================
