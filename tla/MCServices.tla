----------------------------- MODULE MCServices -----------------------------
(***************************************************************************)
(* The components around the board state share no variable with each       *)
(* other, so one run checks them side by side: `service` names the one a   *)
(* behaviour is about, and the variables of the others keep their initial  *)
(* values.                                                                 *)
(***************************************************************************)
EXTENDS MoveBuffers, MutationDelivery, RoomBroadcast, FlushScheduler,
        BoardPreviews, RefreshTokens, Billing, Sharing

CONSTANTS s1, s2, a1, a2, a3, u1, u2, b1, b2

(* Two sockets of one node; attempts at two processes. *)
NodeOfSocket == [s \in Dragging |-> CHOOSE n \in DragNodes : TRUE]
ProcessOfAttempt == [a \in Attempts |-> IF a = a3 THEN "p2" ELSE "p1"]

(* A mutation, and its retry over REST. *)
EditOfBatch == [b \in Batches |-> "e1"]

(* One paid plan is configured, and there is a price that is not. *)
PriceOfPlan == [startup |-> "known", business |-> Nobody]

(* What makes a user's dealings with Stripe unusual.  One of it at a time, *)
(* and profiles of paying users only, keep the run small.                  *)
Oddities ==
  {odd \in {"repeated", "price", "trial", "address", "erased", "tagged", "failed",
            "overlapping"} :
     CASE odd = "repeated" -> Cardinality({k \in Checkouts : checkout[k] # "idle"}) > 1
       [] odd = "price"    -> \E s \in Bought : status[s].price # "known"
       [] odd = "trial"    -> \E e \in outbox : e.type # "checkout" /\ e.is = "trialing"
       [] odd = "address"  -> addressed # customers
       [] odd = "erased"   -> erased # {}
       [] odd = "tagged"   -> tagged # {}
       [] odd = "failed"   -> recorded \ working # DOMAIN effects
       [] odd = "overlapping" -> Cardinality(working \cup writing) > 1}

VARIABLE service

boardJobVars == <<bufferVars, deliveryVars, broadcastVars, schedulerVars, previewVars>>
accountVars == <<tokenVars, billingVars, sharingVars>>

ServicesInit ==
  /\ BufferInit /\ DeliveryInit /\ BroadcastInit /\ SchedulerInit /\ PreviewInit
  /\ TokenInit /\ BillingInit /\ SharingInit
  /\ service \in {"moves", "deliveries", "views", "flushes", "previews",
                  "tokens", "billing", "sharing"}

MoveSteps ==
  /\ service = "moves" /\ BufferNext
  /\ UNCHANGED <<service, deliveryVars, broadcastVars, schedulerVars, previewVars,
                 accountVars>>

DeliverySteps ==
  /\ service = "deliveries" /\ DeliveryNext
  /\ UNCHANGED <<service, bufferVars, broadcastVars, schedulerVars, previewVars, accountVars>>

ViewSteps ==
  /\ service = "views" /\ BroadcastNext
  /\ UNCHANGED <<service, bufferVars, deliveryVars, schedulerVars, previewVars, accountVars>>

FlushSteps ==
  /\ service = "flushes" /\ SchedulerNext
  /\ UNCHANGED <<service, bufferVars, deliveryVars, broadcastVars, previewVars, accountVars>>

PreviewSteps ==
  /\ service = "previews" /\ PreviewNext
  /\ UNCHANGED <<service, bufferVars, deliveryVars, broadcastVars, schedulerVars, accountVars>>

TokenSteps ==
  /\ service = "tokens" /\ TokenNext
  /\ UNCHANGED <<service, boardJobVars, billingVars, sharingVars>>

BillingSteps ==
  /\ service = "billing" /\ BillingNext
  /\ Cardinality(Oddities') <= 1
  /\ b2 \in Bought' => b1 \in Bought'
  /\ (\E f \in Fetches : fetch[f].step = "idle" /\ fetch'[f].step # "idle") => Active # {}
  /\ UNCHANGED <<service, boardJobVars, tokenVars, sharingVars>>

SharingSteps ==
  /\ service = "sharing" /\ SharingNext
  /\ UNCHANGED <<service, boardJobVars, tokenVars, billingVars>>

ServicesNext ==
  \/ MoveSteps \/ DeliverySteps \/ ViewSteps \/ FlushSteps \/ PreviewSteps
  \/ TokenSteps \/ BillingSteps \/ SharingSteps

(* The fairness of each component, as in its own specification. *)
ServicesSpec ==
  /\ ServicesInit
  /\ [][ServicesNext]_<<service, boardJobVars, accountVars>>
  /\ WF_bufferVars(service = "moves" /\ BufferProgress)
  /\ WF_deliveryVars(service = "deliveries" /\ \E a \in Attempts : AttemptRuns(a))
  /\ WF_schedulerVars(service = "flushes" /\ BoardAges)
  /\ WF_schedulerVars(service = "flushes" /\ PassRuns)
  /\ WF_previewVars(service = "previews" /\ PreviewProgress)

(* Types of the state of the services. *)
ServicesTypeOK ==
  /\ BufferTypeOK /\ DeliveryTypeOK /\ BroadcastTypeOK /\ PreviewTypeOK
  /\ TokenTypeOK /\ BillingTypeOK /\ SharingTypeOK
=============================================================================
