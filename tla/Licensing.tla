------------------------------ MODULE Licensing ------------------------------
(***************************************************************************)
(* The licence of an organisation as handleStripeWebhook of                *)
(* apps/argos-functions keeps it from the events of Stripe.                *)
(*                                                                         *)
(* Stripe delivers an event until it is answered with 200, in any order;   *)
(* the handler looks at the event alone, not at the licence it replaces.   *)
(* The licence store has one licence per organisation, whichever           *)
(* subscription it came from.                                              *)
(***************************************************************************)
EXTENDS Naturals

CONSTANTS
    Subscriptions, \* subscriptions the organisation ever has
    MaxEvents,     \* bound: events of Stripe
    MaxOutages     \* bound: deliveries that are answered with an error

VARIABLES
    stripe,   \* the status of each subscription at Stripe
    pending,  \* events not answered with 200 yet
    licence,  \* the stored licence, or NoLicence
    delivery  \* history: events sent, the last one handled, was the order kept

licenceVars == << stripe, pending, licence, delivery >>

Statuses == {"active", "trialing", "past_due", "unpaid", "canceled"}
NoLicence == [status |-> "none"]

LicenceInit ==
    /\ stripe = [s \in Subscriptions |-> "none"]
    /\ pending = {}
    /\ licence = NoLicence
    /\ delivery = [sent |-> 0, latest |-> 0, inOrder |-> TRUE, outages |-> 0]

(* Stripe creates, updates or deletes a subscription. *)
Emits(s, type, status) ==
    /\ delivery.sent < MaxEvents
    /\ stripe' = [stripe EXCEPT ![s] = IF type = "deleted" THEN "ended" ELSE status]
    /\ delivery' = [delivery EXCEPT !.sent = @ + 1]
    /\ pending' = pending \cup {[nr |-> delivery.sent + 1, sub |-> s, type |-> type, status |-> status]}
    /\ UNCHANGED licence

Creates(s) ==
    /\ stripe[s] = "none"
    /\ \E status \in {"active", "trialing"} : Emits(s, "created", status)
Updates(s) ==
    /\ stripe[s] \in Statuses \ {"canceled"}
    /\ \E status \in Statuses \ {stripe[s]} : Emits(s, "updated", status)
Deletes(s) ==
    /\ stripe[s] \in Statuses
    /\ Emits(s, "deleted", "canceled")

(* Mutant: an unpaid subscription keeps its licence. *)
LicenceOfUnpaid(e) ==
    IF e.type = "deleted" \/ e.status = "canceled" THEN NoLicence
    ELSE [status |-> IF e.status = "past_due" THEN "past_due" ELSE "active", sub |-> e.sub]

(* revoke for a deletion or a canceled status, set for the others: a trial is
   active, an unpaid subscription is stored as canceled. *)
LicenceOf(e) ==
    IF e.type = "deleted" \/ e.status = "canceled" THEN NoLicence
    ELSE [status |-> CASE e.status \in {"active", "trialing"} -> "active"
                       [] e.status = "past_due" -> "past_due"
                       [] OTHER -> "canceled",
          sub |-> e.sub]

(* A delivery is handled and answered, or ends in an error before or after the
   store was written, and the event comes back. *)
handleStripeWebhook(e) ==
    /\ e \in pending
    /\ \/ /\ licence' = LicenceOf(e)
          /\ delivery' = [delivery EXCEPT !.latest = IF e.nr > @ THEN e.nr ELSE @,
                                          !.inOrder = e.nr >= delivery.latest]
          /\ pending' \in {pending, pending \ {e}}
          /\ pending' = pending => delivery.outages < MaxOutages
       \/ /\ delivery.outages < MaxOutages
          /\ delivery' = [delivery EXCEPT !.outages = @ + 1]
          /\ UNCHANGED << licence, pending >>
    /\ UNCHANGED stripe

LicenceNext ==
    \/ \E s \in Subscriptions : Creates(s) \/ Updates(s) \/ Deletes(s)
    \/ \E e \in pending : handleStripeWebhook(e)

LicenceSpec == LicenceInit /\ [][LicenceNext]_licenceVars

-----------------------------------------------------------------------------
(* When every event is answered and the last one handled was not older than one
   handled before, whatever was redelivered or overtaken on the way, a licence
   is that of its subscription at Stripe: active if and only if that one is
   active or on trial; and an organisation none of whose subscriptions lives
   has no active licence. *)
LicenceFollowsStripe ==
    (pending = {} /\ delivery.inOrder) =>
        /\ licence # NoLicence =>
              (licence.status = "active") <=> (stripe[licence.sub] \in {"active", "trialing"})
        /\ (\A s \in Subscriptions : stripe[s] \in {"none", "ended", "canceled"})
              => licence = NoLicence
=============================================================================
