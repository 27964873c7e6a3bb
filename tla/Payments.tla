------------------------------- MODULE Payments -------------------------------
(***************************************************************************)
(* Purchases of one user: the orders, invoices, saved card and subscriptions *)
(* of billing/payments.py, the renewal scan of billing/subscriptions.py, and *)
(* the payment gateway as the code relies on it.                             *)
(*                                                                         *)
(* A request to the gateway runs between two transactions, so its answer can *)
(* be late, lost or refused, and the signed result of the payment can arrive *)
(* before it, twice, or after the user changed their mind.                   *)
(*                                                                         *)
(* External: SeoSmith creates one invoice per order id (a retry returns it)  *)
(* and redelivers the result of a paid order until it is accepted.  A user    *)
(* pays only through a link that was sent; a recurring submission may charge  *)
(* as soon as it is accepted.  The invoice number is the order itself.        *)
(***************************************************************************)
EXTENDS Naturals, FiniteSets

CONSTANTS
    Orders,      \* order ids, in no particular order
    NoOrder,     \* previous_invoice_id IS NULL
    MaxPeriods   \* bound on the billing periods of a subscription

ASSUME ConstantsAssumption ==
    /\ NoOrder \notin Orders
    /\ MaxPeriods \in Nat \ {0}

VARIABLES
    order,         \* billing_orders with the robokassa_payments row of each
    call,          \* the gateway request in flight for an order
    invoice,       \* external: the gateway's invoice of an order
    links,         \* checkout orders whose payment link was sent to the user
    source,        \* intro_recurring_charge_sources by source order
    subscription,  \* subscriptions by the order that created them
    credit         \* purchases granted into each balance

vars == <<order, call, invoice, links, source, subscription, credit>>

Checkouts == {"intro", "package", "monthly"}
Kinds == Checkouts \cup {"repeat", "renewal"}
Periods == 0..MaxPeriods
Unconfirmed == {"initializing", "pending", "submitted"}

OrderRow == [kind     : Kinds \cup {"none"},
             status   : {"none", "pending", "confirmed", "failed"},
             payment  : Unconfirmed \cup {"none", "confirmed", "rejected"},
             recorded : BOOLEAN,                  \* invoice_id IS NOT NULL
             parent   : Orders \cup {NoOrder},    \* previous_invoice_id
             period   : Periods,                  \* renewal_period_start
             recent   : BOOLEAN]                  \* created within the last hour

Call == [step : {"none", "posting", "answered", "refused"}, reused : BOOLEAN]

Subscription == [status : {"none", "active", "cancelled", "past_due"},
                 period : Periods,                \* billing_period_start
                 due    : BOOLEAN]                \* billing_period_end <= now

Balances == [intro : Nat, package : Nat, bonus : {0, 2}]

NoRow == [kind |-> "none", status |-> "none", payment |-> "none", recorded |-> FALSE,
          parent |-> NoOrder, period |-> 0, recent |-> FALSE]

NoCall == [step |-> "none", reused |-> FALSE]

TypeOK ==
    /\ order \in [Orders -> OrderRow]
    /\ call \in [Orders -> Call]
    /\ invoice \in [Orders -> {"none", "open", "paid"}]
    /\ links \subseteq Orders
    /\ source \in [Orders -> {"none", "active", "cancelled"}]
    /\ subscription \in [Orders -> Subscription]
    /\ credit \in Balances

Init ==
    /\ order = [o \in Orders |-> NoRow]
    /\ call = [o \in Orders |-> NoCall]
    /\ invoice = [o \in Orders |-> "none"]
    /\ links = {}
    /\ source = [o \in Orders |-> "none"]
    /\ subscription = [o \in Orders |-> [status |-> "none", period |-> 0, due |-> FALSE]]
    /\ credit = [intro |-> 0, package |-> 0, bonus |-> 0]

-----------------------------------------------------------------------------
SetOrder(o, row) == order' = [order EXCEPT ![o] = row]
SetCall(o, step, reused) == call' = [call EXCEPT ![o] = [step |-> step, reused |-> reused]]

(* The pending introduction order whose link start_checkout hands out again.  *)
(* The code takes the latest of them; which one makes no difference here.     *)
Reusable(o) ==
    /\ order[o].kind = "intro"
    /\ order[o].status = "pending"
    /\ order[o].recent
    /\ order[o].payment = "pending"
    /\ order[o].recorded

NewOrder(o, kind, parent, period) ==
    /\ order[o].kind = "none"
    /\ SetOrder(o, [NoRow EXCEPT !.kind = kind, !.status = "pending",
                                 !.payment = "initializing", !.recent = TRUE,
                                 !.parent = parent, !.period = period])
    /\ SetCall(o, "posting", FALSE)
    /\ UNCHANGED <<invoice, links, source, subscription, credit>>

StartCheckout(o) ==
    \E kind \in Checkouts :
        /\ kind = "intro" => ~ \E p \in Orders : Reusable(p)
        /\ NewOrder(o, kind, NoOrder, 0)

ReuseCheckout(o) ==
    /\ Reusable(o)
    /\ call[o].step = "none"
    /\ SetCall(o, "posting", TRUE)
    /\ UNCHANGED <<order, invoice, links, source, subscription, credit>>

(* The pending repeat charge that forbids another.                           *)
RepeatInFlight(o) ==
    order[o].kind = "repeat" /\ order[o].status = "pending" /\ order[o].payment \in Unconfirmed

(* Mutant of StartRepeat: charges in flight are not looked for.              *)
MutantStartRepeat(o) ==
    \E s \in Orders : source[s] = "active" /\ NewOrder(o, "repeat", s, 0)

(* start_intro_recurring_charge: under the account lock, with the active card *)
(* and no repeat charge in flight.                                            *)
StartRepeat(o) ==
    \E s \in Orders :
        /\ source[s] = "active"
        /\ ~ \E p \in Orders : RepeatInFlight(p)
        /\ NewOrder(o, "repeat", s, 0)

(* Mutant of StartRenewal: an order of the same period is not looked for.    *)
MutantStartRenewal(o) ==
    \E s \in Orders :
        /\ subscription[s].status = "active"
        /\ subscription[s].due
        /\ subscription[s].period < MaxPeriods
        /\ NewOrder(o, "renewal", s, subscription[s].period)

(* scan_due and start_renewal: the subscription row is locked and due, and     *)
(* this period has no order yet, whatever became of it.  The limit of three    *)
(* failures never binds: the first one makes the subscription past_due.        *)
StartRenewal(o) ==
    \E s \in Orders :
        /\ subscription[s].status = "active"
        /\ subscription[s].due
        /\ subscription[s].period < MaxPeriods
        /\ ~ \E p \in Orders : /\ order[p].kind = "renewal"
                               /\ order[p].parent = s
                               /\ order[p].period = subscription[s].period
        /\ NewOrder(o, "renewal", s, subscription[s].period)

-----------------------------------------------------------------------------
(* External: the request reaches the gateway; its answer may still be lost or *)
(* be unusable, which the code leaves as it is (PaymentGatewayOutcomeAmbiguous).*)
GatewayAccepts(o) ==
    /\ call[o].step = "posting"
    /\ invoice' = [invoice EXCEPT ![o] = IF @ = "none" THEN "open" ELSE @]
    /\ \/ SetCall(o, "answered", call[o].reused)
       \/ SetCall(o, "none", FALSE)
    /\ UNCHANGED <<order, links, source, subscription, credit>>

(* Nothing was sent, or the gateway answered 4xx.                             *)
GatewayRefuses(o) ==
    /\ call[o].step = "posting"
    /\ SetCall(o, "refused", call[o].reused)
    /\ UNCHANGED <<order, invoice, links, source, subscription, credit>>

(* Mutant of RequestLost: an ambiguous answer is taken for a refusal.         *)
MutantRequestLost(o) ==
    /\ call[o].step # "none"
    /\ SetCall(o, "refused", call[o].reused)
    /\ UNCHANGED <<order, invoice, links, source, subscription, credit>>

(* The request is lost on the way, or the process dies around it.             *)
RequestLost(o) ==
    /\ call[o].step # "none"
    /\ SetCall(o, "none", FALSE)
    /\ UNCHANGED <<order, invoice, links, source, subscription, credit>>

(* _record_gateway_invoice, which a reused order skips; the link goes out.    *)
RecordInvoice(o) ==
    /\ call[o].step = "answered"
    /\ SetCall(o, "none", FALSE)
    /\ IF call[o].reused \/ order[o].payment # "initializing" THEN UNCHANGED order
       ELSE SetOrder(o, [order[o] EXCEPT !.recorded = TRUE,
                !.payment = IF order[o].kind \in Checkouts THEN "pending" ELSE "submitted"])
    /\ links' = IF order[o].kind \in Checkouts THEN links \cup {o} ELSE links
    /\ UNCHANGED <<invoice, source, subscription, credit>>

(* _mark_gateway_rejected, and _mark_renewal_rejected for a renewal.          *)
MarkRejected(o) ==
    /\ call[o].step = "refused"
    /\ SetCall(o, "none", FALSE)
    /\ IF order[o].payment = "confirmed" THEN UNCHANGED <<order, subscription>>
       ELSE /\ SetOrder(o, [order[o] EXCEPT !.payment = "rejected",
                              !.status = IF @ = "pending" THEN "failed" ELSE @])
            /\ subscription' =
                  IF order[o].kind = "renewal"
                  THEN [subscription EXCEPT ![order[o].parent].status =
                           IF @ = "cancelled" THEN @ ELSE "past_due"]
                  ELSE subscription
    /\ UNCHANGED <<invoice, links, source, credit>>

(* External: the user pays a link, or the gateway charges the saved card.     *)
Pay(o) ==
    /\ invoice[o] = "open"
    /\ order[o].kind \in Checkouts => o \in links
    /\ invoice' = [invoice EXCEPT ![o] = "paid"]
    /\ UNCHANGED <<order, call, links, source, subscription, credit>>

-----------------------------------------------------------------------------
(* Mutants of Confirmable: the state of the rows is not checked; the result   *)
(* of a cancelled subscription is refused.                                    *)
MutantConfirmable(o) == order[o].kind = "repeat" => source[order[o].parent] = "active"

MutantConfirmableActive(o) ==
    /\ order[o].status = "pending"
    /\ order[o].payment \in Unconfirmed
    /\ order[o].kind = "repeat" => source[order[o].parent] = "active"
    /\ order[o].kind = "renewal" => subscription[order[o].parent].status = "active"

(* What confirm_result, _grant_purchase and _renew_subscription require of    *)
(* the rows; otherwise the result is answered with 400 or, once confirmed,    *)
(* with a repeated success, and changes nothing.                              *)
Confirmable(o) ==
    /\ order[o].status = "pending"
    /\ order[o].payment \in Unconfirmed
    /\ order[o].kind = "repeat" => source[order[o].parent] = "active"
    /\ order[o].kind = "renewal" => subscription[order[o].parent].period = order[o].period

(* The card of a paid introduction checkout replaces the saved one.           *)
Saved(o) ==
    [s \in Orders |-> IF s = o THEN "active"
                      ELSE IF source[s] = "active" THEN "cancelled" ELSE source[s]]

(* The balances after the grant of a purchase: the bonus comes with the first *)
(* package or subscription only.                                              *)
Granted(kind) ==
    CASE kind \in {"intro", "repeat"} -> [credit EXCEPT !.intro = @ + 1]
      [] kind = "package" -> [credit EXCEPT !.package = @ + 1, !.bonus = 2]
      [] kind = "monthly" -> [credit EXCEPT !.bonus = 2]
      [] OTHER            -> credit

(* confirm_result on a delivery of the signed result; a delivery may repeat.  *)
Confirm(o) ==
    /\ invoice[o] = "paid"
    /\ Confirmable(o)
    /\ SetOrder(o, [order[o] EXCEPT !.status = "confirmed", !.payment = "confirmed",
                                    !.recorded = TRUE])
    /\ credit' = Granted(order[o].kind)
    /\ source' = IF order[o].kind = "intro" THEN Saved(o) ELSE source
    /\ subscription' =
          CASE order[o].kind = "monthly" ->
                 [subscription EXCEPT ![o] = [@ EXCEPT !.status = "active"]]
            [] order[o].kind = "renewal" ->
                 [subscription EXCEPT ![order[o].parent].period = @ + 1,
                                      ![order[o].parent].due = FALSE]
            [] OTHER -> subscription
    /\ UNCHANGED <<call, invoice, links>>

(* cancel_intro_recurring_source                                             *)
CancelSource(s) ==
    /\ source[s] = "active"
    /\ source' = [source EXCEPT ![s] = "cancelled"]
    /\ UNCHANGED <<order, call, invoice, links, subscription, credit>>

(* handle_subscription_cancel reads an active subscription without a lock     *)
(* and then writes: a rejection that comes between is overwritten, and        *)
(* neither status is ever active again.                                       *)
CancelSubscription(s) ==
    /\ subscription[s].status \in {"active", "past_due"}
    /\ subscription' = [subscription EXCEPT ![s] = [@ EXCEPT !.status = "cancelled"]]
    /\ UNCHANGED <<order, call, invoice, links, source, credit>>

(* Time: an hour passes since the order, or a billing period ends.            *)
OrderAges(o) ==
    /\ order[o].recent
    /\ SetOrder(o, [order[o] EXCEPT !.recent = FALSE])
    /\ UNCHANGED <<call, invoice, links, source, subscription, credit>>

PeriodEnds(s) ==
    /\ subscription[s].status # "none"
    /\ ~subscription[s].due
    /\ subscription' = [subscription EXCEPT ![s] = [@ EXCEPT !.due = TRUE]]
    /\ UNCHANGED <<order, call, invoice, links, source, credit>>

Next == \E o \in Orders :
    \/ StartCheckout(o) \/ ReuseCheckout(o) \/ StartRepeat(o) \/ StartRenewal(o)
    \/ GatewayAccepts(o) \/ GatewayRefuses(o) \/ RequestLost(o)
    \/ RecordInvoice(o) \/ MarkRejected(o)
    \/ Pay(o) \/ Confirm(o)
    \/ CancelSource(o) \/ CancelSubscription(o)
    \/ OrderAges(o) \/ PeriodEnds(o)

Spec == Init /\ [][Next]_vars

-----------------------------------------------------------------------------
Confirmed(kinds) == {o \in Orders : order[o].kind \in kinds /\ order[o].status = "confirmed"}

(* The balances are exactly what the confirmed orders bought, and a           *)
(* subscription is in the period its confirmed renewals paid for, however     *)
(* often and in whatever order the results arrive; all of it was paid.        *)
CreditsMatchOrders ==
    /\ credit.intro = Cardinality(Confirmed({"intro", "repeat"}))
    /\ credit.package = Cardinality(Confirmed({"package"}))
    /\ credit.bonus = IF Confirmed({"package", "monthly"}) = {} THEN 0 ELSE 2
    /\ \A s \in Orders : subscription[s].period =
          Cardinality({o \in Confirmed({"renewal"}) : order[o].parent = s})
    /\ \A o \in Confirmed(Kinds) : invoice[o] = "paid" /\ order[o].payment = "confirmed"

(* A paid package, subscription or renewal is granted or its next result will *)
(* be: no rejection, cancellation or late answer takes that away.             *)
PaidIsGrantable ==
    \A o \in Orders :
        (invoice[o] = "paid" /\ order[o].kind \in {"package", "monthly", "renewal"})
            => (order[o].status = "confirmed" \/ Confirmable(o))

(* A subscription is charged at most once for a period, and never for one     *)
(* before the current: scans that overlap or repeat start no second charge.   *)
OneChargePerPeriod ==
    \A o, p \in Orders :
        (/\ order[o].kind = "renewal" /\ order[p].kind = "renewal"
         /\ order[o].parent = order[p].parent /\ order[o].period = order[p].period) => o = p

(* The saved card is charged for one repeat purchase at a time, and one card  *)
(* at most is saved, across checkouts, cancellations and late results.        *)
OneRepeatAtATime ==
    /\ Cardinality({o \in Orders : RepeatInFlight(o)}) <= 1
    /\ Cardinality({s \in Orders : source[s] = "active"}) <= 1

(* A confirmation is never undone: not by the late answer of the gateway, not *)
(* by a refusal of another request for the same order.                        *)
ConfirmationIsFinal ==
    [][\A o \in Orders : order[o].status = "confirmed" =>
          (order'[o].status = "confirmed" /\ order'[o].payment = "confirmed")]_vars

(* What Purchase sees of an order.                                           *)
SaleOf(row) ==
    [kind |-> row.kind, parent |-> row.parent, period |-> row.period, status |-> row.status]

(* Requests, answers, links, cards and time keep the promise of Purchase:      *)
(* whatever is lost, late, repeated or cancelled, nothing is granted unpaid or *)
(* charged without a purchase that was granted before, and nothing but an      *)
(* introduction whose link was handed out again is dropped when paid.         *)
Purchases == INSTANCE Purchase WITH
                 sale <- [o \in Orders |-> SaleOf(order[o])],
                 paid <- {o \in Orders : invoice[o] = "paid"},
                 period <- [s \in Orders |-> subscription[s].period]

ImplementsPurchase == Purchases!Spec

(* A repeat purchase that the saved card was charged for is granted once its  *)
(* result arrives.                                                            *)
PaidRepeatIsGrantable ==
    \A o \in Orders :
        (invoice[o] = "paid" /\ order[o].kind = "repeat")
            => (order[o].status = "confirmed" \/ Confirmable(o))
===============================================================================
