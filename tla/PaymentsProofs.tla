----------------------------- MODULE PaymentsProofs -----------------------------
(***************************************************************************)
(* Proofs about Payments, for any orders and any number of periods: what was  *)
(* paid is granted, once, no period and no card is charged twice, and the     *)
(* requests, answers and results keep the promise of Purchase.               *)
(***************************************************************************)
EXTENDS Payments, FiniteSetTheorems, TLAPS

(* Which states of an order and its payment go together.                     *)
RowInv ==
    \A o \in Orders :
        /\ order[o].kind = "none" <=> order[o].status = "none"
        /\ order[o].status = "none" <=> order[o].payment = "none"
        /\ order[o].status = "pending" <=> order[o].payment \in Unconfirmed
        /\ order[o].status = "confirmed" <=> order[o].payment = "confirmed"
        /\ order[o].status = "failed" <=> order[o].payment = "rejected"

(* An order whose link is never asked for again is refused or gets an         *)
(* invoice, not both.                                                        *)
GatewayInv ==
    \A o \in Orders :
        /\ order[o].kind = "none" => call[o].step = "none" /\ invoice[o] = "none"
        /\ order[o].kind # "intro" /\ call[o].step \in {"posting", "refused"} =>
              invoice[o] = "none"
        /\ order[o].kind # "intro" /\ order[o].status = "failed" =>
              invoice[o] = "none" /\ call[o].step = "none"
        /\ order[o].status = "confirmed" => invoice[o] = "paid"

(* A renewal that is not decided is for the current period.                  *)
RenewalInv ==
    \A o \in Orders : order[o].kind = "renewal" =>
        /\ order[o].parent \in Orders
        /\ order[o].period < MaxPeriods
        /\ order[o].status = "pending" => order[o].period = subscription[order[o].parent].period

RepeatInv ==
    /\ \A o \in Orders : order[o].kind = "repeat" => order[o].parent \in Orders
    /\ \A o, p \in Orders : RepeatInFlight(o) /\ RepeatInFlight(p) => o = p
    /\ \A s, t \in Orders : source[s] = "active" /\ source[t] = "active" => s = t

Used == {o \in Orders : order[o].kind # "none"}

Renewals(s) == {o \in Confirmed({"renewal"}) : order[o].parent = s}

(* CreditsMatchOrders, of the orders that count.                             *)
CreditInv ==
    /\ IsFiniteSet(Used)
    /\ credit.intro = Cardinality(Confirmed({"intro", "repeat"}))
    /\ credit.package = Cardinality(Confirmed({"package"}))
    /\ credit.bonus = IF Confirmed({"package", "monthly"}) = {} THEN 0 ELSE 2
    /\ \A s \in Orders : subscription[s].period = Cardinality(Renewals(s))

IInv ==
    /\ TypeOK
    /\ RowInv
    /\ GatewayInv
    /\ RenewalInv
    /\ OneChargePerPeriod
    /\ RepeatInv
    /\ CreditInv

LEMMA InitInv == Init => IInv
  <1> SUFFICES ASSUME Init PROVE IInv
    OBVIOUS
  <1>0. MaxPeriods \in Nat \ {0}
    BY ConstantsAssumption DEF ConstantsAssumption
  <1>1. TypeOK
    <2>1. NoRow \in OrderRow /\ NoCall \in Call
      BY <1>0 DEF NoRow, OrderRow, NoCall, Call, Unconfirmed, Kinds, Checkouts, Periods
    <2>2. [status |-> "none", period |-> 0, due |-> FALSE] \in Subscription
      BY <1>0 DEF Subscription, Periods
    <2>3. [intro |-> 0, package |-> 0, bonus |-> 0] \in Balances
      BY DEF Balances
    <2> QED BY <2>1, <2>2, <2>3 DEF Init, TypeOK
  <1>2. \A o \in Orders : order[o] = NoRow /\ call[o] = NoCall /\ invoice[o] = "none"
                          /\ source[o] = "none" /\ subscription[o].period = 0
    BY DEF Init
  <1>3. RowInv /\ GatewayInv
    BY <1>2 DEF RowInv, GatewayInv, NoRow, NoCall, Unconfirmed
  <1>4. RenewalInv /\ OneChargePerPeriod /\ RepeatInv
    BY <1>2 DEF RenewalInv, OneChargePerPeriod, RepeatInv, RepeatInFlight, NoRow
  <1>5. Used = {} /\ \A kinds : Confirmed(kinds) = {}
    BY <1>2 DEF Used, Confirmed, NoRow
  <1>6. CreditInv
    <2>1. \A s \in Orders : Renewals(s) = {}
      BY <1>5 DEF Renewals
    <2>2. Cardinality({}) = 0 /\ IsFiniteSet({})
      BY FS_EmptySet
    <2>3. credit.intro = 0 /\ credit.package = 0 /\ credit.bonus = 0
      BY DEF Init
    <2> QED BY <1>2, <1>5, <2>1, <2>2, <2>3 DEF CreditInv
  <1> QED BY <1>1, <1>3, <1>4, <1>6 DEF IInv

-----------------------------------------------------------------------------
(* Steps that confirm nothing.                                               *)

(* An order stays what it is, unless it fails.                               *)
Steady(o) ==
    /\ order'[o].kind = order[o].kind
    /\ order'[o].parent = order[o].parent
    /\ order'[o].period = order[o].period
    /\ \/ order'[o].status = order[o].status
       \/ order[o].status = "pending" /\ order'[o].status = "failed"

LEMMA SteadyStep ==
    ASSUME IInv, RowInv', credit' = credit,
           \A o \in Orders : /\ Steady(o)
                             /\ subscription'[o].period = subscription[o].period
                             /\ source'[o] = "active" => source[o] = "active"
    PROVE  RenewalInv' /\ OneChargePerPeriod' /\ RepeatInv' /\ CreditInv'
  <1>1. RenewalInv'
    BY DEF IInv, RenewalInv, Steady
  <1>2. OneChargePerPeriod'
    BY DEF IInv, OneChargePerPeriod, Steady
  <1>3. RepeatInv'
    <2>1. \A o \in Orders : RepeatInFlight(o)' => RepeatInFlight(o)
      BY DEF IInv, RowInv, RepeatInFlight, Steady
    <2> QED BY <2>1 DEF IInv, RepeatInv, Steady
  <1>4. CreditInv'
    <2>1. Used' = Used
      BY DEF Used, Steady
    <2>2. \A kinds : Confirmed(kinds)' = Confirmed(kinds)
      BY DEF Confirmed, Steady
    <2>3. \A s \in Orders : Renewals(s)' = Renewals(s)
      BY DEF Renewals, Confirmed, Steady
    <2> QED BY <2>1, <2>2, <2>3 DEF IInv, CreditInv
  <1> QED BY <1>1, <1>2, <1>3, <1>4

(* The gateway, the user and the clock leave the orders alone.               *)
LEMMA OutsideStep ==
    ASSUME IInv, NEW o \in Orders,
           \/ ReuseCheckout(o) \/ GatewayAccepts(o) \/ GatewayRefuses(o) \/ RequestLost(o)
           \/ Pay(o) \/ CancelSource(o) \/ CancelSubscription(o) \/ PeriodEnds(o)
    PROVE  IInv'
  <1>t. TypeOK /\ RowInv /\ GatewayInv
    BY DEF IInv
  <1>1. order' = order /\ credit' = credit
    BY DEF ReuseCheckout, GatewayAccepts, GatewayRefuses, RequestLost, Pay, CancelSource,
           CancelSubscription, PeriodEnds
  <1>2. /\ subscription' \in [Orders -> Subscription]
        /\ \A p \in Orders : subscription'[p].period = subscription[p].period
    <2>1. CASE CancelSubscription(o) \/ PeriodEnds(o)
      <3>1. /\ [subscription[o] EXCEPT !.status = "cancelled"] \in Subscription
            /\ [subscription[o] EXCEPT !.status = "cancelled"].period = subscription[o].period
            /\ [subscription[o] EXCEPT !.due = TRUE] \in Subscription
            /\ [subscription[o] EXCEPT !.due = TRUE].period = subscription[o].period
        BY <1>t DEF TypeOK, Subscription
      <3> QED BY <1>t, <2>1, <3>1 DEF TypeOK, CancelSubscription, PeriodEnds
    <2>2. CASE subscription' = subscription
      BY <1>t, <2>2 DEF TypeOK
    <2> QED BY <2>1, <2>2 DEF ReuseCheckout, GatewayAccepts, GatewayRefuses, RequestLost, Pay,
            CancelSource
  <1>3. /\ source' \in [Orders -> {"none", "active", "cancelled"}]
        /\ \A p \in Orders : source'[p] = "active" => source[p] = "active"
    BY <1>t DEF TypeOK, ReuseCheckout, GatewayAccepts, GatewayRefuses, RequestLost, Pay,
         CancelSource, CancelSubscription, PeriodEnds
  <1>4. call' \in [Orders -> Call]
    <2>1. \A step \in {"none", "posting", "answered", "refused"}, reused \in BOOLEAN :
             [step |-> step, reused |-> reused] \in Call
      BY DEF Call
    <2>2. call[o].reused \in BOOLEAN
      BY <1>t DEF TypeOK, Call
    <2> QED BY <1>t, <2>1, <2>2 DEF TypeOK, SetCall, ReuseCheckout, GatewayAccepts,
            GatewayRefuses, RequestLost, Pay, CancelSource, CancelSubscription, PeriodEnds
  <1>5. /\ invoice' \in [Orders -> {"none", "open", "paid"}] /\ links' = links
    BY <1>t DEF TypeOK, ReuseCheckout, GatewayAccepts, GatewayRefuses, RequestLost, Pay,
         CancelSource, CancelSubscription, PeriodEnds
  <1>6. TypeOK'
    BY <1>t, <1>1, <1>2, <1>3, <1>4, <1>5 DEF TypeOK
  <1>7. GatewayInv'
    <2>1. CASE ReuseCheckout(o)
      BY <1>t, <2>1 DEF TypeOK, GatewayInv, ReuseCheckout, Reusable, SetCall
    <2>2. CASE GatewayAccepts(o)
      BY <1>t, <2>2 DEF TypeOK, GatewayInv, GatewayAccepts, SetCall
    <2>3. CASE GatewayRefuses(o) \/ RequestLost(o)
      BY <1>t, <2>3 DEF TypeOK, GatewayInv, GatewayRefuses, RequestLost, SetCall
    <2>4. CASE Pay(o)
      BY <1>t, <2>4 DEF TypeOK, GatewayInv, Pay
    <2>5. CASE CancelSource(o) \/ CancelSubscription(o) \/ PeriodEnds(o)
      BY <1>t, <2>5 DEF GatewayInv, CancelSource, CancelSubscription, PeriodEnds
    <2> QED BY <2>1, <2>2, <2>3, <2>4, <2>5
  <1>8. RowInv'
    BY <1>t, <1>1 DEF RowInv
  <1>9. \A p \in Orders : Steady(p)
    BY <1>1 DEF Steady
  <1>10. RenewalInv' /\ OneChargePerPeriod' /\ RepeatInv' /\ CreditInv'
    BY <1>1, <1>2, <1>3, <1>8, <1>9, SteadyStep
  <1> QED BY <1>6, <1>7, <1>8, <1>10 DEF IInv

(* The invoice is recorded, or the order gets old.                           *)
LEMMA RecordStep ==
    ASSUME IInv, NEW o \in Orders, RecordInvoice(o) \/ OrderAges(o)
    PROVE  IInv'
  <1>t. TypeOK /\ RowInv /\ GatewayInv /\ order[o] \in OrderRow
    BY DEF IInv, TypeOK
  <1>1. PICK row \in OrderRow :
           /\ order' = [order EXCEPT ![o] = row]
           /\ row.kind = order[o].kind /\ row.parent = order[o].parent
           /\ row.period = order[o].period /\ row.status = order[o].status
           /\ row.payment = order[o].payment
              \/ (order[o].payment \in Unconfirmed /\ row.payment \in Unconfirmed)
    <2>1. CASE order' = order
      <3>1. order = [order EXCEPT ![o] = order[o]]
        BY <1>t DEF TypeOK
      <3> QED BY <1>t, <2>1, <3>1
    <2>2. CASE OrderAges(o)
      <3> DEFINE row == [order[o] EXCEPT !.recent = FALSE]
      <3>1. /\ row \in OrderRow /\ row.kind = order[o].kind /\ row.parent = order[o].parent
            /\ row.period = order[o].period /\ row.status = order[o].status
            /\ row.payment = order[o].payment
        BY <1>t DEF OrderRow
      <3>2. order' = [order EXCEPT ![o] = row]
        BY <2>2 DEF OrderAges, SetOrder
      <3> HIDE DEF row
      <3> QED BY <3>1, <3>2
    <2>3. CASE RecordInvoice(o) /\ order' # order
      <3>1. order[o].payment = "initializing"
        BY <2>3 DEF RecordInvoice
      <3>2. PICK payment \in {"pending", "submitted"} :
               order' = [order EXCEPT ![o] = [order[o] EXCEPT !.recorded = TRUE,
                                                              !.payment = payment]]
        BY <2>3 DEF RecordInvoice, SetOrder
      <3> DEFINE row == [order[o] EXCEPT !.recorded = TRUE, !.payment = payment]
      <3>3. /\ row \in OrderRow /\ row.kind = order[o].kind /\ row.parent = order[o].parent
            /\ row.period = order[o].period /\ row.status = order[o].status
            /\ row.payment = payment
        BY <1>t DEF OrderRow, Unconfirmed
      <3> HIDE DEF row
      <3>4. order' = [order EXCEPT ![o] = row]
        BY <3>2 DEF row
      <3> QED BY <3>1, <3>3, <3>4 DEF Unconfirmed
    <2> QED BY <2>1, <2>2, <2>3
  <1>2. /\ order' \in [Orders -> OrderRow] /\ order'[o] = row
        /\ \A p \in Orders : p # o => order'[p] = order[p]
    BY <1>t, <1>1 DEF TypeOK
  <1>3. RowInv' /\ \A p \in Orders : Steady(p) /\ order'[p].status = order[p].status
    <2>1. RowInv'
      BY <1>t, <1>1, <1>2 DEF RowInv, Unconfirmed
    <2> QED BY <2>1, <1>1, <1>2 DEF Steady
  <1>4. /\ UNCHANGED <<invoice, source, subscription, credit>>
        /\ links' \subseteq Orders
    BY <1>t DEF RecordInvoice, OrderAges, TypeOK
  <1>5. call' = call \/ call' = [call EXCEPT ![o] = NoCall]
    BY DEF RecordInvoice, OrderAges, SetCall, NoCall
  <1>6. NoCall \in Call /\ NoCall.step = "none"
    BY DEF NoCall, Call
  <1>7. TypeOK'
    BY <1>t, <1>2, <1>4, <1>5, <1>6 DEF TypeOK
  <1>8. GatewayInv'
    BY <1>t, <1>3, <1>4, <1>5, <1>6 DEF GatewayInv, Steady, TypeOK
  <1>9. RenewalInv' /\ OneChargePerPeriod' /\ RepeatInv' /\ CreditInv'
    BY <1>3, <1>4, SteadyStep
  <1> QED BY <1>3, <1>7, <1>8, <1>9 DEF IInv

(* The gateway has refused, and the order fails unless it is confirmed.       *)
LEMMA RejectStep ==
    ASSUME IInv, NEW o \in Orders, MarkRejected(o)
    PROVE  IInv'
  <1>t. TypeOK /\ RowInv /\ GatewayInv /\ RenewalInv /\ order[o] \in OrderRow
        /\ call[o].step = "refused"
    BY DEF IInv, TypeOK, MarkRejected
  <1>1. PICK row \in OrderRow :
           /\ order' = [order EXCEPT ![o] = row]
           /\ row.kind = order[o].kind /\ row.parent = order[o].parent
           /\ row.period = order[o].period
           /\ \/ row.status = order[o].status /\ row.payment = order[o].payment
              \/ /\ order[o].status \in {"pending", "failed"}
                 /\ row.status = "failed" /\ row.payment = "rejected"
    <2>1. CASE order' = order
      <3>1. order = [order EXCEPT ![o] = order[o]]
        BY <1>t DEF TypeOK
      <3> QED BY <1>t, <2>1, <3>1
    <2>2. CASE order[o].payment # "confirmed"
      <3> DEFINE end == IF order[o].status = "pending" THEN "failed" ELSE order[o].status
                 row == [order[o] EXCEPT !.payment = "rejected", !.status = end]
      <3>1. order[o].status \in {"none", "pending", "confirmed", "failed"}
        BY <1>t DEF OrderRow
      <3>2. order[o].status # "none"
        BY <1>t DEF RowInv, GatewayInv
      <3>3. order[o].status \in {"pending", "failed"} /\ end = "failed"
        BY <1>t, <2>2, <3>1, <3>2 DEF RowInv
      <3>4. order' = [order EXCEPT ![o] = row]
        BY <2>2 DEF MarkRejected, SetOrder
      <3>5. /\ row \in OrderRow /\ row.kind = order[o].kind /\ row.parent = order[o].parent
            /\ row.period = order[o].period /\ row.status = "failed" /\ row.payment = "rejected"
        BY <1>t, <3>3 DEF OrderRow
      <3> HIDE DEF row
      <3> QED BY <3>3, <3>4, <3>5
    <2> QED BY <2>1, <2>2 DEF MarkRejected
  <1>2. /\ order' \in [Orders -> OrderRow] /\ order'[o] = row
        /\ \A p \in Orders : p # o => order'[p] = order[p]
    BY <1>t, <1>1 DEF TypeOK
  <1>3. RowInv' /\ \A p \in Orders : Steady(p)
    <2>1. RowInv'
      BY <1>t, <1>1, <1>2 DEF RowInv, Unconfirmed
    <2>2. ASSUME NEW p \in Orders PROVE Steady(p)
      <3>1. CASE p = o
        BY <1>t, <1>1, <1>2, <3>1 DEF Steady
      <3>2. CASE p # o
        BY <1>2, <3>2 DEF Steady
      <3> QED BY <3>1, <3>2
    <2> QED BY <2>1, <2>2
  <1>4. /\ UNCHANGED <<invoice, links, source, credit>>
        /\ call' = [call EXCEPT ![o] = NoCall]
    BY DEF MarkRejected, SetCall, NoCall
  <1>5. /\ subscription' \in [Orders -> Subscription]
        /\ \A p \in Orders : subscription'[p].period = subscription[p].period
    <2>1. CASE subscription' = subscription
      BY <1>t, <2>1 DEF TypeOK
    <2>2. CASE order[o].kind = "renewal" /\ subscription' # subscription
      <3> DEFINE s == order[o].parent
                 status == IF subscription[s].status = "cancelled"
                           THEN subscription[s].status ELSE "past_due"
      <3>1. s \in Orders /\ subscription[s] \in Subscription
        BY <1>t, <2>2 DEF RenewalInv, TypeOK
      <3>2. subscription' = [subscription EXCEPT ![s] = [subscription[s] EXCEPT !.status = status]]
        BY <1>t, <2>2, <3>1 DEF MarkRejected, TypeOK
      <3>3. status \in {"cancelled", "past_due"}
        OBVIOUS
      <3> HIDE DEF status
      <3>4. /\ [subscription[s] EXCEPT !.status = status] \in Subscription
            /\ [subscription[s] EXCEPT !.status = status].period = subscription[s].period
        BY <3>1, <3>3 DEF Subscription
      <3> QED BY <1>t, <3>1, <3>2, <3>4 DEF TypeOK
    <2> QED BY <2>1, <2>2 DEF MarkRejected
  <1>6. NoCall \in Call /\ NoCall.step = "none"
    BY DEF NoCall, Call
  <1>7. TypeOK'
    BY <1>t, <1>2, <1>4, <1>5, <1>6 DEF TypeOK
  <1>8. GatewayInv'
    <2> SUFFICES ASSUME NEW p \in Orders
                 PROVE  /\ order'[p].kind = "none" => call'[p].step = "none" /\ invoice[p] = "none"
                        /\ order'[p].kind # "intro" /\ call'[p].step \in {"posting", "refused"} =>
                              invoice[p] = "none"
                        /\ order'[p].kind # "intro" /\ order'[p].status = "failed" =>
                              invoice[p] = "none" /\ call'[p].step = "none"
                        /\ order'[p].status = "confirmed" => invoice[p] = "paid"
      BY <1>4 DEF GatewayInv
    <2>1. CASE p # o
      <3>1. call'[p] = call[p] /\ order'[p] = order[p]
        BY <1>t, <1>2, <1>4, <2>1 DEF TypeOK
      <3> QED BY <1>t, <3>1 DEF GatewayInv
    <2>2. CASE p = o
      <3>1. call'[p].step = "none"
        BY <1>t, <1>4, <1>6, <2>2 DEF TypeOK
      <3> QED BY <1>t, <1>1, <1>2, <2>2, <3>1 DEF GatewayInv
    <2> QED BY <2>1, <2>2
  <1>9. RenewalInv' /\ OneChargePerPeriod' /\ RepeatInv' /\ CreditInv'
    BY <1>3, <1>4, <1>5, SteadyStep
  <1> QED BY <1>3, <1>7, <1>8, <1>9 DEF IInv

-----------------------------------------------------------------------------
(* A new order, alone in its kind where the code looks for others.           *)
LEMMA NewOrderStep ==
    ASSUME IInv, NEW o \in Orders, StartCheckout(o) \/ StartRepeat(o) \/ StartRenewal(o)
    PROVE  IInv'
  <1>0. MaxPeriods \in Nat \ {0} /\ NoOrder \notin Orders
    BY ConstantsAssumption DEF ConstantsAssumption
  <1>t. TypeOK /\ RowInv /\ GatewayInv /\ RenewalInv /\ OneChargePerPeriod /\ RepeatInv /\ CreditInv
    BY DEF IInv
  <1>1. PICK kind \in Kinds, parent \in Orders \cup {NoOrder}, period \in Periods :
           /\ NewOrder(o, kind, parent, period)
           /\ kind = "repeat" => parent \in Orders /\ ~ \E p \in Orders : RepeatInFlight(p)
           /\ kind = "renewal" =>
                /\ parent \in Orders
                /\ period < MaxPeriods
                /\ period = subscription[parent].period
                /\ ~ \E p \in Orders : /\ order[p].kind = "renewal"
                                       /\ order[p].parent = parent
                                       /\ order[p].period = period
    <2>1. CASE StartCheckout(o)
      <3>1. PICK kind \in Checkouts : NewOrder(o, kind, NoOrder, 0)
        BY <2>1 DEF StartCheckout
      <3>2. kind \in Kinds /\ kind # "repeat" /\ kind # "renewal" /\ 0 \in Periods
        BY <1>0, <3>1 DEF Kinds, Checkouts, Periods
      <3> QED BY <3>1, <3>2
    <2>2. CASE StartRepeat(o)
      <3>1. "repeat" \in Kinds /\ 0 \in Periods
        BY <1>0 DEF Kinds, Periods
      <3> QED BY <2>2, <3>1 DEF StartRepeat
    <2>3. CASE StartRenewal(o)
      <3>1. "renewal" \in Kinds /\ \A s \in Orders : subscription[s].period \in Periods
        BY <1>t DEF Kinds, TypeOK, Subscription
      <3> QED BY <2>3, <3>1 DEF StartRenewal
    <2> QED BY <2>1, <2>2, <2>3
  <1> DEFINE row == [NoRow EXCEPT !.kind = kind, !.status = "pending",
                                  !.payment = "initializing", !.recent = TRUE,
                                  !.parent = parent, !.period = period]
  <1>2. /\ row \in OrderRow /\ row.kind = kind /\ row.parent = parent /\ row.period = period
        /\ row.status = "pending" /\ row.payment = "initializing"
    BY <1>0 DEF NoRow, OrderRow, Unconfirmed
  <1>3. /\ order[o].kind = "none" /\ order' = [order EXCEPT ![o] = row]
        /\ call' = [call EXCEPT ![o] = [step |-> "posting", reused |-> FALSE]]
        /\ UNCHANGED <<invoice, links, source, subscription, credit>>
    BY <1>1 DEF NewOrder, SetOrder, SetCall
  <1> HIDE DEF row
  <1>4. /\ order' \in [Orders -> OrderRow] /\ order'[o] = row
        /\ \A p \in Orders : p # o => order'[p] = order[p]
    BY <1>t, <1>2, <1>3 DEF TypeOK
  <1>5. /\ call' \in [Orders -> Call] /\ call'[o].step = "posting"
        /\ \A p \in Orders : p # o => call'[p] = call[p]
    <2>1. [step |-> "posting", reused |-> FALSE] \in Call
      BY DEF Call
    <2> QED BY <1>t, <1>3, <2>1 DEF TypeOK
  <1>6. TypeOK'
    BY <1>t, <1>3, <1>4, <1>5 DEF TypeOK
  <1>7. kind # "none"
    BY <1>1 DEF Kinds, Checkouts
  <1>8. RowInv'
    BY <1>t, <1>2, <1>4, <1>7 DEF RowInv, Unconfirmed
  <1>9. GatewayInv'
    BY <1>t, <1>2, <1>3, <1>4, <1>5, <1>7 DEF GatewayInv
  <1>10. RenewalInv'
    BY <1>t, <1>1, <1>2, <1>3, <1>4 DEF RenewalInv
  <1>11. OneChargePerPeriod'
    BY <1>t, <1>1, <1>2, <1>4 DEF OneChargePerPeriod
  <1>12. RepeatInv'
    <2>1. \A p \in Orders : p # o => RepeatInFlight(p)' = RepeatInFlight(p)
      BY <1>4 DEF RepeatInFlight
    <2>2. RepeatInFlight(o)' => ~ \E p \in Orders : RepeatInFlight(p)
      BY <1>1, <1>2, <1>4 DEF RepeatInFlight
    <2>3. \A p \in Orders : order'[p].kind = "repeat" => order'[p].parent \in Orders
      BY <1>t, <1>1, <1>2, <1>4 DEF RepeatInv
    <2> QED BY <1>t, <1>3, <2>1, <2>2, <2>3 DEF RepeatInv
  <1>13. CreditInv'
    <2>1. Used' = Used \cup {o}
      BY <1>2, <1>4, <1>7 DEF Used
    <2>2. IsFiniteSet(Used')
      BY <1>t, <2>1, FS_AddElement DEF CreditInv
    <2>3. order[o].status # "confirmed"
      BY <1>t, <1>3 DEF RowInv
    <2>4. \A kinds : Confirmed(kinds)' = Confirmed(kinds)
      BY <1>2, <1>4, <2>3 DEF Confirmed
    <2>5. \A s \in Orders : Renewals(s)' = Renewals(s)
      BY <1>4, <2>4, <1>2, <2>3 DEF Renewals, Confirmed
    <2> QED BY <1>t, <1>3, <2>2, <2>4, <2>5 DEF CreditInv
  <1> QED BY <1>6, <1>8, <1>9, <1>10, <1>11, <1>12, <1>13 DEF IInv

-----------------------------------------------------------------------------
(* A confirmation, by what was bought.                                       *)
LEMMA GrantedIs ==
    /\ \A kind \in {"intro", "repeat"} : Granted(kind) = [credit EXCEPT !.intro = @ + 1]
    /\ Granted("package") = [credit EXCEPT !.package = @ + 1, !.bonus = 2]
    /\ Granted("monthly") = [credit EXCEPT !.bonus = 2]
    /\ Granted("renewal") = credit
  BY Zenon DEF Granted

LEMMA SubscriptionAfter ==
    ASSUME NEW o, Confirm(o)
    PROVE  /\ order[o].kind = "monthly" =>
                subscription' = [subscription EXCEPT ![o] = [@ EXCEPT !.status = "active"]]
           /\ order[o].kind = "renewal" =>
                subscription' = [subscription EXCEPT ![order[o].parent].period = @ + 1,
                                                     ![order[o].parent].due = FALSE]
           /\ order[o].kind \notin {"monthly", "renewal"} => subscription' = subscription
  <1>1. subscription' =
          CASE order[o].kind = "monthly" ->
                 [subscription EXCEPT ![o] = [@ EXCEPT !.status = "active"]]
            [] order[o].kind = "renewal" ->
                 [subscription EXCEPT ![order[o].parent].period = @ + 1,
                                      ![order[o].parent].due = FALSE]
            [] OTHER -> subscription
    BY DEF Confirm
  <1>2. CASE order[o].kind = "monthly"
    BY <1>1, <1>2, Zenon
  <1>3. CASE order[o].kind = "renewal"
    BY <1>1, <1>3, Zenon
  <1>4. CASE order[o].kind \notin {"monthly", "renewal"}
    BY <1>1, <1>4, Zenon
  <1> QED BY <1>2, <1>3, <1>4

(* The subscriptions after a confirmation: a purchase begins one, a renewal    *)
(* brings one into its next period.                                          *)
LEMMA SubscriptionsAfter ==
    ASSUME TypeOK, RenewalInv, NEW o \in Orders, Confirm(o)
    PROVE  /\ order[o].kind = "renewal" =>
                /\ order[o].parent \in Orders
                /\ subscription[order[o].parent].period = order[o].period
           /\ subscription' \in [Orders -> Subscription]
           /\ \A s \in Orders :
                 /\ subscription'[s].period =
                       IF order[o].kind = "renewal" /\ s = order[o].parent
                       THEN subscription[s].period + 1 ELSE subscription[s].period
                 /\ subscription'[s].status =
                       IF order[o].kind = "monthly" /\ s = o
                       THEN "active" ELSE subscription[s].status
  <1> DEFINE parent == order[o].parent
  <1>0. MaxPeriods \in Nat \ {0}
    BY ConstantsAssumption DEF ConstantsAssumption
  <1>t. subscription \in [Orders -> Subscription] /\ order[o] \in OrderRow
    BY DEF TypeOK
  <1>1. /\ order[o].kind = "renewal" =>
             /\ parent \in Orders
             /\ subscription[parent].period = order[o].period
             /\ order[o].period + 1 \in Periods
        /\ \A s \in Orders : subscription[s] \in Subscription /\ subscription[s].period \in Periods
    <2>1. \A s \in Orders : subscription[s] \in Subscription /\ subscription[s].period \in Periods
      BY <1>t DEF Subscription
    <2> QED BY <1>0, <1>t, <2>1 DEF Confirm, RenewalInv, Confirmable, Periods
  <1>2. CASE order[o].kind = "monthly"
    <2> DEFINE new == [subscription[o] EXCEPT !.status = "active"]
    <2>1. new \in Subscription /\ new.period = subscription[o].period /\ new.status = "active"
      BY <1>1 DEF Subscription
    <2>2. subscription' = [subscription EXCEPT ![o] = new]
      BY <1>2, SubscriptionAfter
    <2> HIDE DEF new
    <2> QED BY <1>t, <1>2, <2>1, <2>2
  <1>3. CASE order[o].kind = "renewal"
    <2> DEFINE later == [subscription[parent] EXCEPT !.period = subscription[parent].period + 1,
                                                     !.due = FALSE]
    <2>1. /\ later \in Subscription /\ later.period = subscription[parent].period + 1
          /\ later.status = subscription[parent].status
      BY <1>1, <1>3 DEF Subscription
    <2>2. subscription' = [subscription EXCEPT ![parent].period = @ + 1, ![parent].due = FALSE]
      BY <1>3, SubscriptionAfter
    <2>3. subscription' = [subscription EXCEPT ![parent] = later]
      BY <1>t, <1>1, <1>3, <2>2
    <2> HIDE DEF later
    <2> QED BY <1>t, <1>1, <1>3, <2>1, <2>3
  <1>4. CASE order[o].kind \notin {"monthly", "renewal"}
    BY <1>t, <1>4, SubscriptionAfter
  <1> QED BY <1>1, <1>2, <1>3, <1>4

(* The balances after a confirmation.                                        *)
LEMMA CreditAfter ==
    ASSUME TypeOK, NEW o \in Orders, Confirm(o), order[o].kind \in Kinds
    PROVE  /\ credit' \in Balances
           /\ credit'.intro = IF order[o].kind \in {"intro", "repeat"}
                              THEN credit.intro + 1 ELSE credit.intro
           /\ credit'.package = IF order[o].kind = "package"
                                THEN credit.package + 1 ELSE credit.package
           /\ credit'.bonus = IF order[o].kind \in {"package", "monthly"}
                              THEN 2 ELSE credit.bonus
  <1>1. credit' = Granted(order[o].kind) /\ credit \in Balances
    BY DEF Confirm, TypeOK
  <1>2. CASE order[o].kind \in {"intro", "repeat"}
    <2>1. credit' = [credit EXCEPT !.intro = @ + 1]
      BY <1>1, <1>2, GrantedIs
    <2> QED BY <1>1, <1>2, <2>1 DEF Balances
  <1>3. CASE order[o].kind = "package"
    <2>1. credit' = [credit EXCEPT !.package = @ + 1, !.bonus = 2]
      BY <1>1, <1>3, GrantedIs
    <2>2. /\ [credit EXCEPT !.package = @ + 1] \in Balances
          /\ [credit EXCEPT !.package = @ + 1].intro = credit.intro
          /\ [credit EXCEPT !.package = @ + 1].package = credit.package + 1
      BY <1>1 DEF Balances
    <2> DEFINE more == [credit EXCEPT !.package = @ + 1]
    <2>3. credit' = [more EXCEPT !.bonus = 2]
      BY <2>1, Zenon
    <2> HIDE DEF more
    <2>4. more \in Balances /\ more.intro = credit.intro /\ more.package = credit.package + 1
      BY <2>2 DEF more
    <2>5. /\ credit' \in Balances /\ credit'.intro = credit.intro
          /\ credit'.package = credit.package + 1 /\ credit'.bonus = 2
      BY <2>3, <2>4 DEF Balances
    <2> QED BY <1>3, <2>5
  <1>4. CASE order[o].kind = "monthly"
    <2>1. credit' = [credit EXCEPT !.bonus = 2]
      BY <1>1, <1>4, GrantedIs
    <2> QED BY <1>1, <1>4, <2>1 DEF Balances
  <1>5. CASE order[o].kind = "renewal"
    <2>1. credit' = credit
      BY <1>1, <1>5, GrantedIs
    <2> QED BY <1>1, <1>5, <2>1 DEF Balances
  <1> QED BY <1>2, <1>3, <1>4, <1>5 DEF Kinds, Checkouts

LEMMA ConfirmStep ==
    ASSUME IInv, NEW o \in Orders, Confirm(o)
    PROVE  IInv'
  <1>t. /\ TypeOK /\ RowInv /\ GatewayInv /\ RenewalInv /\ OneChargePerPeriod /\ RepeatInv /\ CreditInv
        /\ order[o] \in OrderRow /\ Confirmable(o) /\ invoice[o] = "paid"
        /\ order[o].kind \in Kinds
    <2>1. order[o] \in OrderRow /\ Confirmable(o) /\ invoice[o] = "paid"
      BY DEF IInv, TypeOK, Confirm
    <2>2. order[o].kind # "none"
      BY <2>1 DEF IInv, RowInv, Confirmable
    <2> QED BY <2>1, <2>2 DEF IInv, OrderRow
  <1> DEFINE row == [order[o] EXCEPT !.status = "confirmed", !.payment = "confirmed",
                                     !.recorded = TRUE]
             parent == order[o].parent
  <1>1. /\ row \in OrderRow /\ row.kind = order[o].kind /\ row.parent = order[o].parent
        /\ row.period = order[o].period /\ row.status = "confirmed" /\ row.payment = "confirmed"
    BY <1>t DEF OrderRow
  <1>2. order' = [order EXCEPT ![o] = row] /\ UNCHANGED <<call, invoice, links>>
    BY DEF Confirm, SetOrder
  <1> HIDE DEF row
  <1>3. /\ order' \in [Orders -> OrderRow] /\ order'[o] = row
        /\ \A p \in Orders : p # o => order'[p] = order[p]
    BY <1>t, <1>2, <1>1 DEF TypeOK
  <1>4. order[o].kind = "renewal" =>
           parent \in Orders /\ subscription[parent].period = order[o].period
    BY <1>t, SubscriptionsAfter
  <1>5. /\ subscription' \in [Orders -> Subscription]
        /\ \A s \in Orders :
              subscription'[s].period = IF order[o].kind = "renewal" /\ s = parent
                                        THEN subscription[s].period + 1
                                        ELSE subscription[s].period
    BY <1>t, SubscriptionsAfter
  <1>6. /\ source' \in [Orders -> {"none", "active", "cancelled"}]
        /\ \A s, u \in Orders : source'[s] = "active" /\ source'[u] = "active" => s = u
    <2>1. CASE order[o].kind = "intro"
      <3>1. source' = Saved(o)
        BY <2>1 DEF Confirm
      <3> QED BY <1>t, <3>1 DEF Saved, TypeOK
    <2>2. CASE order[o].kind # "intro"
      <3>1. source' = source
        BY <2>2 DEF Confirm
      <3> QED BY <1>t, <3>1 DEF TypeOK, RepeatInv
    <2> QED BY <2>1, <2>2
  <1>7. order[o].status = "pending" /\ o \in Used
    BY <1>t DEF Confirmable, Used, RowInv
  <1>8. ASSUME NEW kinds
        PROVE  Confirmed(kinds)' = IF order[o].kind \in kinds THEN Confirmed(kinds) \cup {o}
                                                              ELSE Confirmed(kinds)
    BY <1>1, <1>3, <1>7 DEF Confirmed
  <1>9. /\ \A kinds : o \notin Confirmed(kinds) /\ IsFiniteSet(Confirmed(kinds) \cap Used)
        /\ \A s : o \notin Renewals(s)
    BY <1>t, <1>7, FS_Subset DEF Confirmed, Renewals, CreditInv
  <1>10. /\ \A kinds : Confirmed(kinds) \subseteq Used /\ IsFiniteSet(Confirmed(kinds))
         /\ \A s : IsFiniteSet(Renewals(s))
    <2>1. ASSUME NEW kinds PROVE Confirmed(kinds) \subseteq Used
      BY <1>t DEF Confirmed, Used, RowInv
    <2>2. ASSUME NEW kinds PROVE IsFiniteSet(Confirmed(kinds))
      BY <1>t, <2>1, FS_Subset DEF CreditInv
    <2>3. ASSUME NEW s PROVE IsFiniteSet(Renewals(s))
      BY <2>2, FS_Subset DEF Renewals
    <2> QED BY <2>1, <2>2, <2>3
  <1>11. /\ \A kinds : Cardinality(Confirmed(kinds) \cup {o}) = Cardinality(Confirmed(kinds)) + 1
         /\ \A s : Cardinality(Renewals(s) \cup {o}) = Cardinality(Renewals(s)) + 1
    BY <1>9, <1>10, FS_AddElement
  <1>12. ASSUME NEW s \in Orders
         PROVE  Renewals(s)' = IF order[o].kind = "renewal" /\ s = parent
                               THEN Renewals(s) \cup {o} ELSE Renewals(s)
    <2>1. Confirmed({"renewal"})' = IF order[o].kind = "renewal"
                                    THEN Confirmed({"renewal"}) \cup {o}
                                    ELSE Confirmed({"renewal"})
      BY <1>8
    <2>2. \A p \in Orders : order'[p].parent = order[p].parent
      BY <1>1, <1>3
    <2>3. Confirmed({"renewal"}) \subseteq Orders
      BY DEF Confirmed
    <2> QED BY <2>1, <2>2, <2>3 DEF Renewals
  <1>13. /\ credit' \in Balances
         /\ credit'.intro = IF order[o].kind \in {"intro", "repeat"}
                            THEN credit.intro + 1 ELSE credit.intro
         /\ credit'.package = IF order[o].kind = "package"
                              THEN credit.package + 1 ELSE credit.package
         /\ credit'.bonus = IF order[o].kind \in {"package", "monthly"} THEN 2 ELSE credit.bonus
    BY <1>t, CreditAfter
  <1>14. TypeOK'
    BY <1>t, <1>2, <1>3, <1>5, <1>6, <1>13 DEF TypeOK
  <1>15. RowInv' /\ GatewayInv'
    BY <1>t, <1>1, <1>2, <1>3 DEF RowInv, GatewayInv, Unconfirmed, Kinds, Checkouts
  <1>16. RenewalInv'
    <2> SUFFICES ASSUME NEW p \in Orders, order'[p].kind = "renewal"
                 PROVE  /\ order'[p].parent \in Orders
                        /\ order'[p].period < MaxPeriods
                        /\ order'[p].status = "pending" =>
                              order'[p].period = subscription'[order'[p].parent].period
      BY DEF RenewalInv
    <2>1. CASE p = o
      BY <1>t, <1>1, <1>3, <2>1 DEF RenewalInv
    <2>2. CASE p # o
      <3>1. order'[p] = order[p]
        BY <1>3, <2>2
      <3>2. ~(order[o].kind = "renewal" /\ order[p].parent = parent /\ order[p].status = "pending")
        BY <1>t, <1>4, <2>2, <3>1 DEF RenewalInv, OneChargePerPeriod
      <3> QED BY <1>t, <1>5, <3>1, <3>2 DEF RenewalInv
    <2> QED BY <2>1, <2>2
  <1>17. OneChargePerPeriod'
    <2>1. \A p \in Orders : /\ order'[p].kind = order[p].kind
                            /\ order'[p].parent = order[p].parent
                            /\ order'[p].period = order[p].period
      BY <1>1, <1>3
    <2> QED BY <1>t, <2>1 DEF OneChargePerPeriod
  <1>18. RepeatInv'
    <2>1. \A p \in Orders : /\ RepeatInFlight(p)' => RepeatInFlight(p)
                            /\ order'[p].kind = "repeat" => order'[p].parent \in Orders
      BY <1>t, <1>1, <1>3 DEF RepeatInFlight, RepeatInv
    <2> QED BY <1>t, <1>6, <2>1 DEF RepeatInv
  <1>19. CreditInv'
    <2>1. Used' = Used
      BY <1>1, <1>3 DEF Used
    <2>2. credit'.intro = Cardinality(Confirmed({"intro", "repeat"})')
      BY <1>t, <1>8, <1>11, <1>13 DEF CreditInv
    <2>3. credit'.package = Cardinality(Confirmed({"package"})')
      BY <1>t, <1>8, <1>11, <1>13 DEF CreditInv
    <2>4. credit'.bonus = IF Confirmed({"package", "monthly"})' = {} THEN 0 ELSE 2
      BY <1>t, <1>8, <1>13 DEF CreditInv
    <2>5. \A s \in Orders : subscription'[s].period = Cardinality(Renewals(s)')
      BY <1>t, <1>5, <1>11, <1>12 DEF CreditInv
    <2> QED BY <1>t, <2>1, <2>2, <2>3, <2>4, <2>5 DEF CreditInv
  <1> QED BY <1>14, <1>15, <1>16, <1>17, <1>18, <1>19 DEF IInv

-----------------------------------------------------------------------------
LEMMA Invariance == IInv /\ [Next]_vars => IInv'
  <1> SUFFICES ASSUME IInv, [Next]_vars PROVE IInv'
    OBVIOUS
  <1>1. CASE UNCHANGED vars
    <2>1. TypeOK' /\ RowInv' /\ GatewayInv'
      BY <1>1 DEF IInv, vars, TypeOK, RowInv, GatewayInv
    <2>2. \A o \in Orders : /\ Steady(o)
                            /\ subscription'[o].period = subscription[o].period
                            /\ source'[o] = "active" => source[o] = "active"
      BY <1>1 DEF vars, Steady
    <2>3. credit' = credit
      BY <1>1 DEF vars
    <2>4. RenewalInv' /\ OneChargePerPeriod' /\ RepeatInv' /\ CreditInv'
      BY <2>1, <2>2, <2>3, SteadyStep
    <2> QED BY <2>1, <2>4 DEF IInv
  <1>2. ASSUME NEW o \in Orders, StartCheckout(o) \/ StartRepeat(o) \/ StartRenewal(o)
        PROVE  IInv'
    BY <1>2, NewOrderStep
  <1>3. ASSUME NEW o \in Orders,
               \/ ReuseCheckout(o) \/ GatewayAccepts(o) \/ GatewayRefuses(o) \/ RequestLost(o)
               \/ Pay(o) \/ CancelSource(o) \/ CancelSubscription(o) \/ PeriodEnds(o)
        PROVE  IInv'
    BY <1>3, OutsideStep
  <1>4. ASSUME NEW o \in Orders, RecordInvoice(o) \/ OrderAges(o)
        PROVE  IInv'
    BY <1>4, RecordStep
  <1>5. ASSUME NEW o \in Orders, MarkRejected(o)
        PROVE  IInv'
    BY <1>5, RejectStep
  <1>6. ASSUME NEW o \in Orders, Confirm(o)
        PROVE  IInv'
    BY <1>6, ConfirmStep
  <1> QED BY <1>1, <1>2, <1>3, <1>4, <1>5, <1>6 DEF Next

(* Every reachable state satisfies the inductive invariant.                  *)
THEOREM Inductive == Spec => []IInv
  BY InitInv, Invariance, PTL DEF Spec

(* The rows, requests and balances keep their types: no period is counted     *)
(* past the last and no balance below zero.                                  *)
THEOREM TypeCorrect == Spec => []TypeOK
  <1>1. IInv => TypeOK
    BY DEF IInv
  <1> QED BY <1>1, Inductive, PTL

(* However often and in whatever order the gateway's answers and results      *)
(* arrive at confirm_result, the balances are what the confirmed orders       *)
(* bought, and every one of them was paid.                                   *)
THEOREM CreditsMatch == Spec => []CreditsMatchOrders
  <1>1. IInv => CreditsMatchOrders
    <2> SUFFICES ASSUME IInv PROVE CreditsMatchOrders
      OBVIOUS
    <2>1. \A o \in Confirmed(Kinds) : invoice[o] = "paid" /\ order[o].payment = "confirmed"
      BY DEF IInv, GatewayInv, RowInv, Confirmed
    <2> QED BY <2>1 DEF IInv, CreditInv, CreditsMatchOrders, Renewals
  <1> QED BY <1>1, Inductive, PTL

(* A paid package, subscription or renewal stays grantable by confirm_result. *)
THEOREM PaidStaysGrantable == Spec => []PaidIsGrantable
  <1>1. IInv => PaidIsGrantable
    <2> SUFFICES ASSUME IInv, NEW o \in Orders, invoice[o] = "paid",
                        order[o].kind \in {"package", "monthly", "renewal"},
                        order[o].status # "confirmed"
                 PROVE  Confirmable(o)
      BY DEF PaidIsGrantable
    <2>1. order[o].status \in {"none", "pending", "confirmed", "failed"}
      BY DEF IInv, TypeOK, OrderRow
    <2>2. order[o].status = "pending" /\ order[o].payment \in Unconfirmed
      BY <2>1 DEF IInv, RowInv, GatewayInv
    <2> QED BY <2>2 DEF IInv, RenewalInv, Confirmable
  <1> QED BY <1>1, Inductive, PTL

(* scan_due and start_renewal charge no period of a subscription twice.      *)
THEOREM PeriodChargedOnce == Spec => []OneChargePerPeriod
  <1>1. IInv => OneChargePerPeriod
    BY DEF IInv
  <1> QED BY <1>1, Inductive, PTL

LEMMA AtMostOne ==
    ASSUME NEW S, \A x, y \in S : x = y
    PROVE  Cardinality(S) <= 1
  <1>1. CASE S = {}
    BY <1>1, FS_EmptySet
  <1>2. CASE S # {}
    <2>1. PICK x \in S : TRUE
      BY <1>2
    <2>2. S = {x}
      BY <2>1
    <2> QED BY <2>2, FS_Singleton
  <1> QED BY <1>1, <1>2

(* start_intro_recurring_charge has one charge in flight, of one saved card.  *)
THEOREM OneRepeatInFlight == Spec => []OneRepeatAtATime
  <1>1. IInv => OneRepeatAtATime
    <2> SUFFICES ASSUME IInv PROVE OneRepeatAtATime
      OBVIOUS
    <2>1. \A x, y \in {o \in Orders : RepeatInFlight(o)} : x = y
      BY DEF IInv, RepeatInv
    <2>2. \A x, y \in {s \in Orders : source[s] = "active"} : x = y
      BY DEF IInv, RepeatInv
    <2> QED BY <2>1, <2>2, AtMostOne DEF OneRepeatAtATime
  <1> QED BY <1>1, Inductive, PTL

(* Neither a late answer (_record_gateway_invoice) nor a refusal              *)
(* (_mark_gateway_rejected) undoes a confirmation.                           *)
THEOREM ConfirmationStays == Spec => ConfirmationIsFinal
  <1> DEFINE Final(o) == order[o].status = "confirmed" =>
                (order'[o].status = "confirmed" /\ order'[o].payment = "confirmed")
  <1>1. ASSUME IInv, [Next]_vars
        PROVE  [\A o \in Orders : Final(o)]_vars
    <2> SUFFICES ASSUME NEW p \in Orders, NEW o \in Orders,
                        order[p].status = "confirmed", order' # order,
                        \/ StartCheckout(o) \/ StartRepeat(o) \/ StartRenewal(o)
                        \/ RecordInvoice(o) \/ MarkRejected(o) \/ OrderAges(o) \/ Confirm(o)
                 PROVE  order'[p].status = "confirmed"
      <3>1. ASSUME NEW o \in Orders,
                   \/ ReuseCheckout(o) \/ GatewayAccepts(o) \/ GatewayRefuses(o) \/ RequestLost(o)
                   \/ Pay(o) \/ CancelSource(o) \/ CancelSubscription(o) \/ PeriodEnds(o)
            PROVE  order' = order
        BY <3>1 DEF ReuseCheckout, GatewayAccepts, GatewayRefuses, RequestLost, Pay, CancelSource,
             CancelSubscription, PeriodEnds
      <3>2. IInv'
        BY <1>1, Invariance
      <3>3. \A q \in Orders : order'[q].status = "confirmed" => order'[q].payment = "confirmed"
        BY <3>2 DEF IInv, RowInv
      <3>4. CASE order' = order
        BY <3>3, <3>4
      <3>5. CASE order' # order
        BY <1>1, <3>1, <3>3, <3>5 DEF Next, vars
      <3> QED BY <3>4, <3>5
    <2>t. order \in [Orders -> OrderRow] /\ order[p].kind # "none" /\ order[p].payment = "confirmed"
      BY <1>1 DEF IInv, TypeOK, RowInv
    <2>1. CASE StartCheckout(o) \/ StartRepeat(o) \/ StartRenewal(o)
      <3>1. PICK row : order' = [order EXCEPT ![o] = row] /\ order[o].kind = "none"
        BY <2>1 DEF StartCheckout, StartRepeat, StartRenewal, NewOrder, SetOrder
      <3> QED BY <2>t, <3>1
    <2>2. CASE RecordInvoice(o) \/ MarkRejected(o)
      <3>1. PICK row : order' = [order EXCEPT ![o] = row]
        BY <2>2 DEF RecordInvoice, MarkRejected, SetOrder
      <3>2. order[o].payment # "confirmed"
        BY <2>2 DEF RecordInvoice, MarkRejected
      <3> QED BY <2>t, <3>1, <3>2
    <2>3. CASE OrderAges(o) \/ Confirm(o)
      <3>1. order[o] \in OrderRow
        BY <2>t
      <3>2. /\ [order[o] EXCEPT !.recent = FALSE].status = order[o].status
            /\ [order[o] EXCEPT !.status = "confirmed", !.payment = "confirmed",
                                !.recorded = TRUE].status = "confirmed"
        BY <3>1 DEF OrderRow
      <3>3. \/ order' = [order EXCEPT ![o] = [order[o] EXCEPT !.recent = FALSE]]
            \/ order' = [order EXCEPT ![o] = [order[o] EXCEPT !.status = "confirmed",
                                                !.payment = "confirmed", !.recorded = TRUE]]
        BY <2>3 DEF OrderAges, Confirm, SetOrder
      <3> QED BY <2>t, <3>2, <3>3
    <2> QED BY <2>1, <2>2, <2>3
  <1> QED BY <1>1, Inductive, PTL DEF Spec, ConfirmationIsFinal

-----------------------------------------------------------------------------
(* On what authority a charge is made: a card was saved by an introduction    *)
(* that was granted, a subscription began with a purchase that was granted,   *)
(* a repeat charge has a card that was saved and a renewal a subscription     *)
(* that began.                                                               *)
AuthorityInv ==
    /\ \A s \in Orders : source[s] # "none" =>
          order[s].kind = "intro" /\ order[s].status = "confirmed"
    /\ \A s \in Orders : subscription[s].status # "none" =>
          order[s].kind = "monthly" /\ order[s].status = "confirmed"
    /\ \A o \in Orders : order[o].kind = "repeat" => source[order[o].parent] # "none"
    /\ \A o \in Orders : order[o].kind = "renewal" =>
          subscription[order[o].parent].status # "none"

(* What a step may do to an order and to the authority of a charge.           *)
LEMMA AuthorityKept ==
    ASSUME AuthorityInv, RenewalInv', RepeatInv',
           \A p \in Orders :
              /\ order[p].status = "confirmed" =>
                    order'[p].status = "confirmed" /\ order'[p].kind = order[p].kind
              /\ source'[p] # "none" =>
                    \/ source[p] # "none"
                    \/ order'[p].kind = "intro" /\ order'[p].status = "confirmed"
              /\ subscription'[p].status # "none" =>
                    \/ subscription[p].status # "none"
                    \/ order'[p].kind = "monthly" /\ order'[p].status = "confirmed"
              /\ source[p] # "none" => source'[p] # "none"
              /\ subscription[p].status # "none" => subscription'[p].status # "none"
              /\ order'[p].kind = "repeat" =>
                    \/ order[p].kind = "repeat" /\ order'[p].parent = order[p].parent
                    \/ source[order'[p].parent] # "none"
              /\ order'[p].kind = "renewal" =>
                    \/ order[p].kind = "renewal" /\ order'[p].parent = order[p].parent
                    \/ subscription[order'[p].parent].status # "none"
    PROVE  AuthorityInv'
  <1>1. \A s \in Orders : source'[s] # "none" =>
           order'[s].kind = "intro" /\ order'[s].status = "confirmed"
    BY DEF AuthorityInv
  <1>2. \A s \in Orders : subscription'[s].status # "none" =>
           order'[s].kind = "monthly" /\ order'[s].status = "confirmed"
    BY DEF AuthorityInv
  <1>3. ASSUME NEW o \in Orders, order'[o].kind = "renewal"
        PROVE  subscription'[order'[o].parent].status # "none"
    <2>1. order'[o].parent \in Orders BY <1>3 DEF RenewalInv
    <2>2. subscription[order'[o].parent].status # "none" BY <1>3 DEF AuthorityInv
    <2> QED BY <2>1, <2>2
  <1>4. ASSUME NEW o \in Orders, order'[o].kind = "repeat"
        PROVE  source'[order'[o].parent] # "none"
    <2>1. order'[o].parent \in Orders BY <1>4 DEF RepeatInv
    <2>2. source[order'[o].parent] # "none" BY <1>4 DEF AuthorityInv
    <2> QED BY <2>1, <2>2
  <1> QED BY <1>1, <1>2, <1>3, <1>4 DEF AuthorityInv

(* The orders after a request: the new one, and the others as they were.      *)
LEMMA NewOrderIs ==
    ASSUME TypeOK, NEW o \in Orders, NEW kind, NEW parent, NEW period,
           NewOrder(o, kind, parent, period)
    PROVE  /\ order[o].kind = "none"
           /\ order'[o].kind = kind /\ order'[o].parent = parent
           /\ order'[o].period = period /\ order'[o].status = "pending"
           /\ \A p \in Orders : p # o => order'[p] = order[p]
           /\ UNCHANGED <<invoice, links, source, subscription, credit>>
  <1> DEFINE row == [NoRow EXCEPT !.kind = kind, !.status = "pending",
                                  !.payment = "initializing", !.recent = TRUE,
                                  !.parent = parent, !.period = period]
  <1>1. /\ row.kind = kind /\ row.parent = parent /\ row.period = period
        /\ row.status = "pending"
    BY DEF NoRow
  <1>2. /\ order[o].kind = "none" /\ order' = [order EXCEPT ![o] = row]
        /\ UNCHANGED <<invoice, links, source, subscription, credit>>
    BY DEF NewOrder, SetOrder
  <1> HIDE DEF row
  <1> QED BY <1>1, <1>2 DEF TypeOK

LEMMA KeptIs ==
    ASSUME TypeOK, NEW o \in Orders,
           \/ ReuseCheckout(o) \/ GatewayAccepts(o) \/ GatewayRefuses(o) \/ RequestLost(o)
           \/ RecordInvoice(o) \/ Pay(o) \/ CancelSource(o) \/ CancelSubscription(o)
           \/ OrderAges(o) \/ PeriodEnds(o)
    PROVE  \A p \in Orders :
              /\ order'[p].kind = order[p].kind /\ order'[p].parent = order[p].parent
              /\ order'[p].period = order[p].period /\ order'[p].status = order[p].status
  <1>t. order \in [Orders -> OrderRow] /\ order[o] \in OrderRow
    BY DEF TypeOK
  <1>1. CASE order' = order
    BY <1>1
  <1>2. CASE OrderAges(o)
    <2> DEFINE row == [order[o] EXCEPT !.recent = FALSE]
    <2>1. /\ row.kind = order[o].kind /\ row.parent = order[o].parent
          /\ row.period = order[o].period /\ row.status = order[o].status
      BY <1>t DEF OrderRow
    <2>2. order' = [order EXCEPT ![o] = row] BY <1>2 DEF OrderAges, SetOrder
    <2> HIDE DEF row
    <2> QED BY <1>t, <2>1, <2>2
  <1>3. CASE RecordInvoice(o) /\ order' # order
    <2>1. PICK payment :
             order' = [order EXCEPT ![o] = [order[o] EXCEPT !.recorded = TRUE,
                                                            !.payment = payment]]
      BY <1>3 DEF RecordInvoice, SetOrder
    <2> DEFINE row == [order[o] EXCEPT !.recorded = TRUE, !.payment = payment]
    <2>2. /\ row.kind = order[o].kind /\ row.parent = order[o].parent
          /\ row.period = order[o].period /\ row.status = order[o].status
      BY <1>t DEF OrderRow
    <2>3. order' = [order EXCEPT ![o] = row] BY <2>1
    <2> HIDE DEF row
    <2> QED BY <1>t, <2>2, <2>3
  <1>4. \/ order' = order \/ OrderAges(o) \/ RecordInvoice(o)
    BY DEF ReuseCheckout, GatewayAccepts, GatewayRefuses, RequestLost, Pay, CancelSource,
           CancelSubscription, PeriodEnds
  <1> QED BY <1>1, <1>2, <1>3, <1>4

(* A refusal drops the order if it is pending, and changes nothing else.      *)
LEMMA RejectedIs ==
    ASSUME TypeOK, RowInv, GatewayInv, NEW o \in Orders, MarkRejected(o)
    PROVE  /\ order'[o].kind = order[o].kind /\ order'[o].parent = order[o].parent
           /\ order'[o].period = order[o].period
           /\ order'[o].status = IF order[o].status = "pending" THEN "failed" ELSE order[o].status
           /\ \A p \in Orders : p # o => order'[p] = order[p]
           /\ order[o].status = "pending" => order[o].kind = "intro" \/ invoice[o] = "none"
           /\ UNCHANGED <<invoice, links, source, credit>>
  <1>t. order \in [Orders -> OrderRow] /\ order[o] \in OrderRow /\ call[o].step = "refused"
    BY DEF TypeOK, MarkRejected
  <1>1. CASE order[o].payment = "confirmed"
    BY <1>t, <1>1 DEF RowInv, GatewayInv, MarkRejected
  <1>2. CASE order[o].payment # "confirmed"
    <2> DEFINE end == IF order[o].status = "pending" THEN "failed" ELSE order[o].status
               row == [order[o] EXCEPT !.payment = "rejected", !.status = end]
    <2>1. /\ row.kind = order[o].kind /\ row.parent = order[o].parent
          /\ row.period = order[o].period /\ row.status = end
      BY <1>t DEF OrderRow
    <2>2. order' = [order EXCEPT ![o] = row] BY <1>2 DEF MarkRejected, SetOrder
    <2>3. order[o].kind = "intro" \/ invoice[o] = "none" BY <1>t DEF GatewayInv
    <2>4. UNCHANGED <<invoice, links, source, credit>> BY DEF MarkRejected
    <2> HIDE DEF row
    <2> QED BY <1>t, <2>1, <2>2, <2>3, <2>4
  <1> QED BY <1>1, <1>2

LEMMA ConfirmedIs ==
    ASSUME TypeOK, NEW o \in Orders, Confirm(o)
    PROVE  /\ order'[o].kind = order[o].kind /\ order'[o].parent = order[o].parent
           /\ order'[o].period = order[o].period
           /\ order[o].status = "pending" /\ order'[o].status = "confirmed"
           /\ \A p \in Orders : p # o => order'[p] = order[p]
           /\ invoice[o] = "paid" /\ UNCHANGED <<call, invoice, links>>
  <1>t. order \in [Orders -> OrderRow] /\ order[o] \in OrderRow
    BY DEF TypeOK
  <1> DEFINE row == [order[o] EXCEPT !.status = "confirmed", !.payment = "confirmed",
                                     !.recorded = TRUE]
  <1>1. /\ row.kind = order[o].kind /\ row.parent = order[o].parent
        /\ row.period = order[o].period /\ row.status = "confirmed"
    BY <1>t DEF OrderRow
  <1>2. /\ order' = [order EXCEPT ![o] = row] /\ order[o].status = "pending"
        /\ invoice[o] = "paid" /\ UNCHANGED <<call, invoice, links>>
    BY DEF Confirm, Confirmable, SetOrder
  <1> HIDE DEF row
  <1> QED BY <1>t, <1>1, <1>2

LEMMA AuthorityInit == Init => AuthorityInv
  <1> SUFFICES ASSUME Init PROVE AuthorityInv
    OBVIOUS
  <1>1. \A o \in Orders : source[o] = "none" /\ subscription[o].status = "none"
                          /\ order[o].kind = "none"
    BY DEF Init, NoRow
  <1> QED BY <1>1 DEF AuthorityInv

LEMMA AuthorityStep == IInv /\ IInv' /\ AuthorityInv /\ [Next]_vars => AuthorityInv'
  <1> SUFFICES ASSUME IInv, IInv', AuthorityInv, [Next]_vars PROVE AuthorityInv'
    OBVIOUS
  <1>t. TypeOK /\ RowInv /\ GatewayInv /\ RenewalInv /\ RenewalInv' /\ RepeatInv'
    BY DEF IInv
  <1> USE <1>t
  <1>1. ASSUME NEW o \in Orders, StartCheckout(o) \/ StartRepeat(o) \/ StartRenewal(o)
        PROVE  AuthorityInv'
    <2>1. PICK kind, parent, period :
             /\ NewOrder(o, kind, parent, period)
             /\ kind = "repeat" => source[parent] = "active"
             /\ kind = "renewal" => subscription[parent].status = "active"
      BY <1>1 DEF StartCheckout, StartRepeat, StartRenewal, Checkouts
    <2>2. order[o].status # "confirmed" BY <2>1 DEF NewOrder, RowInv
    <2>3. /\ order'[o].kind = kind /\ order'[o].parent = parent
          /\ \A p \in Orders : p # o => order'[p] = order[p]
          /\ UNCHANGED <<source, subscription>>
      BY <2>1, NewOrderIs
    <2> QED BY <2>1, <2>2, <2>3, AuthorityKept
  <1>2. ASSUME NEW o \in Orders,
               \/ ReuseCheckout(o) \/ GatewayAccepts(o) \/ GatewayRefuses(o) \/ RequestLost(o)
               \/ RecordInvoice(o) \/ Pay(o) \/ CancelSource(o) \/ CancelSubscription(o)
               \/ OrderAges(o) \/ PeriodEnds(o)
        PROVE  AuthorityInv'
    <2>1. \A p \in Orders : source'[p] # "none" <=> source[p] # "none"
      BY <1>2 DEF TypeOK, ReuseCheckout, GatewayAccepts, GatewayRefuses, RequestLost,
         RecordInvoice, Pay, CancelSource, CancelSubscription, OrderAges, PeriodEnds
    <2>2. \A p \in Orders : subscription'[p].status # "none" <=> subscription[p].status # "none"
      <3>1. CASE CancelSubscription(o) \/ PeriodEnds(o)
        <4>1. /\ [subscription[o] EXCEPT !.status = "cancelled"].status = "cancelled"
              /\ [subscription[o] EXCEPT !.due = TRUE].status = subscription[o].status
              /\ subscription \in [Orders -> Subscription]
          BY DEF TypeOK, Subscription
        <4> QED BY <3>1, <4>1 DEF CancelSubscription, PeriodEnds
      <3>2. CASE subscription' = subscription
        BY <3>2
      <3> QED BY <1>2, <3>1, <3>2 DEF ReuseCheckout, GatewayAccepts, GatewayRefuses,
           RequestLost, RecordInvoice, Pay, CancelSource, OrderAges
    <2> QED BY <1>2, <2>1, <2>2, KeptIs, AuthorityKept
  <1>3. ASSUME NEW o \in Orders, MarkRejected(o)
        PROVE  AuthorityInv'
    <2>1. \A p \in Orders : subscription'[p].status # "none" <=> subscription[p].status # "none"
      <3>1. CASE subscription' # subscription
        <4> DEFINE s == order[o].parent
                   status == IF subscription[s].status = "cancelled"
                             THEN subscription[s].status ELSE "past_due"
        <4>1. order[o].kind = "renewal" BY <1>3, <3>1 DEF MarkRejected
        <4>2. s \in Orders /\ subscription[s] \in Subscription
              /\ subscription[s].status # "none"
          BY <4>1 DEF RenewalInv, TypeOK, AuthorityInv
        <4>3. subscription' = [subscription EXCEPT ![s] =
                                  [subscription[s] EXCEPT !.status = status]]
          BY <1>3, <3>1, <4>1, <4>2 DEF MarkRejected, TypeOK
        <4>4. status \in {"cancelled", "past_due"}
          OBVIOUS
        <4> HIDE DEF status
        <4>5. [subscription[s] EXCEPT !.status = status].status = status
          BY <4>2 DEF Subscription
        <4> QED BY <4>2, <4>3, <4>4, <4>5 DEF TypeOK
      <3>2. CASE subscription' = subscription
        BY <3>2
      <3> QED BY <3>1, <3>2
    <2>2. /\ order'[o].kind = order[o].kind /\ order'[o].parent = order[o].parent
          /\ order[o].status = "confirmed" => order'[o].status = "confirmed"
          /\ \A p \in Orders : p # o => order'[p] = order[p]
          /\ source' = source
      BY <1>3, RejectedIs
    <2> QED BY <2>1, <2>2, AuthorityKept
  <1>4. ASSUME NEW o \in Orders, Confirm(o)
        PROVE  AuthorityInv'
    <2>1. /\ order'[o].kind = order[o].kind /\ order'[o].parent = order[o].parent
          /\ order[o].status = "pending" /\ order'[o].status = "confirmed"
          /\ \A p \in Orders : p # o => order'[p] = order[p]
      BY <1>4, ConfirmedIs
    <2>2. \A p \in Orders :
             /\ source'[p] # "none" => source[p] # "none" \/ (p = o /\ order[o].kind = "intro")
             /\ source[p] # "none" => source'[p] # "none"
      BY <1>4 DEF Confirm, Saved
    <2>3. \A p \in Orders :
             subscription'[p].status = IF order[o].kind = "monthly" /\ p = o
                                       THEN "active" ELSE subscription[p].status
      BY <1>4, SubscriptionsAfter
    <2> QED BY <2>1, <2>2, <2>3, AuthorityKept
  <1>5. CASE UNCHANGED vars
    BY <1>5 DEF vars, AuthorityInv
  <1> QED BY <1>1, <1>2, <1>3, <1>4, <1>5 DEF Next

-----------------------------------------------------------------------------
(* What Purchase sees of a step: Sales, Paid and PeriodsOf stand for the three *)
(* substitutions of the refinement.                                          *)
Sales == [o \in Orders |-> SaleOf(order[o])]
Paid == {o \in Orders : invoice[o] = "paid"}
PeriodsOf == [s \in Orders |-> subscription[s].period]

LEMMA SaleIs ==
    ASSUME NEW row
    PROVE  /\ SaleOf(row).kind = row.kind /\ SaleOf(row).parent = row.parent
           /\ SaleOf(row).period = row.period /\ SaleOf(row).status = row.status
  BY DEF SaleOf

LEMMA SameSale ==
    ASSUME NEW row, NEW new, new.kind = row.kind, new.parent = row.parent,
           new.period = row.period
    PROVE  /\ new.status = row.status => SaleOf(new) = SaleOf(row)
           /\ \A status : new.status = status =>
                 SaleOf(new) = [SaleOf(row) EXCEPT !.status = status]
  BY DEF SaleOf

(* The request for an order is Purchase's, on the authority it wants.         *)
LEMMA AskIsSeen ==
    ASSUME IInv, AuthorityInv, NEW o \in Orders,
           StartCheckout(o) \/ StartRepeat(o) \/ StartRenewal(o)
    PROVE  Purchases!Next
  <1>t. TypeOK /\ RowInv BY DEF IInv
  <1>1. ASSUME NEW kind, NEW parent, NEW of, NewOrder(o, kind, parent, of)
        PROVE  Purchases!Ask(o, kind, parent, of)
    <2>1. /\ order[o].kind = "none"
          /\ order'[o].kind = kind /\ order'[o].parent = parent
          /\ order'[o].period = of /\ order'[o].status = "pending"
          /\ \A p \in Orders : p # o => order'[p] = order[p]
          /\ UNCHANGED <<invoice, subscription, credit>>
      BY <1>t, <1>1, NewOrderIs
    <2>2. SaleOf(order'[o]) = [kind |-> kind, parent |-> parent, period |-> of,
                               status |-> "pending"]
      BY <2>1 DEF SaleOf
    <2>3. Sales' = [Sales EXCEPT ![o] = [kind |-> kind, parent |-> parent, period |-> of,
                                         status |-> "pending"]]
      BY <2>1, <2>2 DEF Sales
    <2>4. Sales[o].status = "none"
      BY <1>t, <2>1, SaleIs DEF Sales, RowInv
    <2>5. UNCHANGED <<Paid, PeriodsOf, credit>>
      BY <2>1 DEF Paid, PeriodsOf
    <2> QED BY <2>3, <2>4, <2>5 DEF Purchases!Ask, Purchases!Sale, Sales, Paid, PeriodsOf
  <1>2. CASE StartCheckout(o)
    <2>1. PICK kind \in Checkouts : NewOrder(o, kind, NoOrder, 0)
      BY <1>2 DEF StartCheckout
    <2>2. Purchases!AskCheckout(o)
      BY <1>1, <2>1 DEF Purchases!AskCheckout, Purchases!Checkouts, Checkouts
    <2> QED BY <2>2 DEF Purchases!Next
  <1>3. CASE StartRepeat(o)
    <2>1. PICK s \in Orders :
             /\ source[s] = "active"
             /\ ~ \E p \in Orders : RepeatInFlight(p)
             /\ NewOrder(o, "repeat", s, 0)
      BY <1>3 DEF StartRepeat
    <2>2. Purchases!IsGranted(s, "intro")
      BY <2>1, SaleIs DEF AuthorityInv, Purchases!IsGranted
    <2>3. \A p \in Orders : order[p].kind = "repeat" => order[p].status # "pending"
      BY <1>t, <2>1 DEF RepeatInFlight, RowInv
    <2>4. \A p \in Orders : Sales[p].kind = "repeat" => Sales[p].status # "pending"
      BY <2>3, SaleIs DEF Sales
    <2>5. Purchases!AskRepeat(o, s)
      BY <1>1, <2>1, <2>2, <2>4 DEF Purchases!AskRepeat, Sales
    <2> QED BY <2>5 DEF Purchases!Next
  <1>4. CASE StartRenewal(o)
    <2>1. PICK s \in Orders :
             /\ subscription[s].status = "active"
             /\ ~ \E p \in Orders : /\ order[p].kind = "renewal"
                                    /\ order[p].parent = s
                                    /\ order[p].period = subscription[s].period
             /\ NewOrder(o, "renewal", s, subscription[s].period)
      BY <1>4 DEF StartRenewal
    <2>2. Purchases!IsGranted(s, "monthly")
      BY <2>1, SaleIs DEF AuthorityInv, Purchases!IsGranted
    <2>3. \A p \in Orders : ~(/\ Sales[p].kind = "renewal" /\ Sales[p].parent = s
                              /\ Sales[p].period = PeriodsOf[s])
      BY <2>1, SaleIs DEF Sales, PeriodsOf
    <2>4. PeriodsOf[s] = subscription[s].period
      BY DEF PeriodsOf
    <2>5. Purchases!Ask(o, "renewal", s, PeriodsOf[s])
      BY <1>1, <2>1, <2>4
    <2>6. Purchases!AskRenewal(o, s)
      BY <2>2, <2>3, <2>5 DEF Purchases!AskRenewal, Sales, PeriodsOf
    <2> QED BY <2>6 DEF Purchases!Next
  <1> QED BY <1>2, <1>3, <1>4

(* A payment is Purchase's: the link of a decided order is not open, but for   *)
(* an introduction's.                                                        *)
LEMMA PayIsSeen ==
    ASSUME IInv, NEW o \in Orders, Pay(o)
    PROVE  Purchases!Next
  <1>t. TypeOK /\ RowInv /\ GatewayInv /\ order[o] \in OrderRow
    BY DEF IInv, TypeOK
  <1>1. /\ invoice[o] = "open" /\ invoice' = [invoice EXCEPT ![o] = "paid"]
        /\ UNCHANGED <<order, subscription, credit>>
    BY DEF Pay
  <1>2. \/ order[o].status = "pending"
        \/ order[o].kind = "intro" /\ order[o].status = "failed"
    <2>1. order[o].status \in {"none", "pending", "confirmed", "failed"}
      BY <1>t DEF OrderRow
    <2> QED BY <1>t, <1>1, <2>1 DEF RowInv, GatewayInv
  <1>3. \/ Sales[o].status = "pending"
        \/ Sales[o].kind = "intro" /\ Sales[o].status = "failed"
    BY <1>2, SaleIs DEF Sales
  <1>4. o \notin Paid /\ Paid' = Paid \cup {o}
    BY <1>t, <1>1 DEF Paid, TypeOK
  <1>5. UNCHANGED <<Sales, credit, PeriodsOf>>
    BY <1>1 DEF Sales, PeriodsOf
  <1>6. Purchases!Pay(o)
    BY <1>3, <1>4, <1>5 DEF Purchases!Pay, Sales, Paid, PeriodsOf
  <1> QED BY <1>6 DEF Purchases!Next

(* A refusal drops a pending order that is unpaid, or an introduction; of a    *)
(* decided order Purchase sees nothing.                                      *)
LEMMA RejectIsSeen ==
    ASSUME IInv, NEW o \in Orders, MarkRejected(o),
           PeriodsOf' = PeriodsOf
    PROVE  Purchases!Next \/ UNCHANGED Purchases!vars
  <1>t. TypeOK /\ RowInv /\ GatewayInv
    BY DEF IInv
  <1>1. /\ order'[o].kind = order[o].kind /\ order'[o].parent = order[o].parent
        /\ order'[o].period = order[o].period
        /\ order'[o].status = IF order[o].status = "pending" THEN "failed" ELSE order[o].status
        /\ \A p \in Orders : p # o => order'[p] = order[p]
        /\ order[o].status = "pending" => order[o].kind = "intro" \/ invoice[o] = "none"
        /\ UNCHANGED <<invoice, credit>>
    BY <1>t, RejectedIs
  <1>2. UNCHANGED <<Paid, credit, PeriodsOf>>
    BY <1>1 DEF Paid
  <1>3. CASE order[o].status = "pending"
    <2>1. SaleOf(order'[o]) = [SaleOf(order[o]) EXCEPT !.status = "failed"]
      BY <1>1, <1>3, SameSale
    <2>2. Sales' = [Sales EXCEPT ![o] = [Sales[o] EXCEPT !.status = "failed"]]
      BY <1>1, <2>1 DEF Sales
    <2>3. Sales[o].status = "pending" /\ (Sales[o].kind = "intro" \/ o \notin Paid)
      BY <1>1, <1>3, SaleIs DEF Sales, Paid
    <2>4. Purchases!Drop(o)
      BY <1>2, <2>2, <2>3 DEF Purchases!Drop, Sales, Paid, PeriodsOf
    <2> QED BY <2>4 DEF Purchases!Next
  <1>4. CASE order[o].status # "pending"
    <2>1. SaleOf(order'[o]) = SaleOf(order[o])
      BY <1>1, <1>4, SameSale
    <2>2. Sales' = Sales
      BY <1>1, <2>1 DEF Sales
    <2> QED BY <1>2, <2>2 DEF Purchases!vars, Sales, Paid, PeriodsOf
  <1> QED BY <1>3, <1>4

(* A confirmation grants what was paid and asked for.                        *)
LEMMA ConfirmIsSeen ==
    ASSUME IInv, NEW o \in Orders, Confirm(o)
    PROVE  Purchases!Next
  <1>t. TypeOK /\ RowInv /\ RenewalInv /\ order[o] \in OrderRow /\ order[o].kind \in Kinds
    <2>1. TypeOK /\ RowInv /\ RenewalInv /\ order[o] \in OrderRow
      BY DEF IInv, TypeOK
    <2> QED BY <2>1 DEF Confirm, Confirmable, RowInv, OrderRow
  <1>1. /\ order'[o].kind = order[o].kind /\ order'[o].parent = order[o].parent
        /\ order'[o].period = order[o].period
        /\ order[o].status = "pending" /\ order'[o].status = "confirmed"
        /\ \A p \in Orders : p # o => order'[p] = order[p]
        /\ invoice[o] = "paid" /\ UNCHANGED invoice
    BY <1>t, ConfirmedIs
  <1>2. SaleOf(order'[o]) = [SaleOf(order[o]) EXCEPT !.status = "confirmed"]
    BY <1>1, SameSale
  <1>3. Sales' = [Sales EXCEPT ![o] = [Sales[o] EXCEPT !.status = "confirmed"]]
    BY <1>1, <1>2 DEF Sales
  <1>4. /\ Sales[o].kind = order[o].kind /\ Sales[o].status = "pending"
        /\ Sales[o].period = order[o].period /\ Sales[o].parent = order[o].parent
        /\ o \in Paid /\ Paid' = Paid
    BY <1>1, SaleIs DEF Sales, Paid
  <1>5. credit' = [intro   |-> credit.intro + IF Sales[o].kind \in {"intro", "repeat"} THEN 1 ELSE 0,
                   package |-> credit.package + IF Sales[o].kind = "package" THEN 1 ELSE 0,
                   bonus   |-> IF Sales[o].kind \in {"package", "monthly"} THEN 2 ELSE credit.bonus]
    BY <1>t, <1>4, CreditAfter DEF Balances
  <1>6. \/ /\ Sales[o].kind = "renewal"
           /\ Sales[o].period = PeriodsOf[Sales[o].parent]
           /\ PeriodsOf' = [PeriodsOf EXCEPT ![Sales[o].parent] = @ + 1]
        \/ Sales[o].kind # "renewal" /\ UNCHANGED PeriodsOf
    <2>1. /\ order[o].kind = "renewal" =>
               /\ order[o].parent \in Orders
               /\ subscription[order[o].parent].period = order[o].period
          /\ \A s \in Orders : subscription'[s].period =
                IF order[o].kind = "renewal" /\ s = order[o].parent
                THEN subscription[s].period + 1 ELSE subscription[s].period
      BY <1>t, SubscriptionsAfter
    <2>2. CASE order[o].kind = "renewal"
      <3>1. PeriodsOf' = [PeriodsOf EXCEPT ![order[o].parent] = @ + 1]
        BY <2>1, <2>2 DEF PeriodsOf
      <3>2. order[o].period = PeriodsOf[order[o].parent]
        BY <2>1, <2>2 DEF PeriodsOf
      <3> QED BY <1>4, <2>2, <3>1, <3>2
    <2>3. CASE order[o].kind # "renewal"
      BY <1>4, <2>1, <2>3 DEF PeriodsOf
    <2> QED BY <2>2, <2>3
  <1>7. Purchases!Grant(o)
    BY <1>3, <1>4, <1>5, <1>6 DEF Purchases!Grant, Sales, Paid, PeriodsOf
  <1> QED BY <1>7 DEF Purchases!Next

(* Answers, links, cards and time: of these Purchase sees nothing.            *)
LEMMA OutsideIsNotSeen ==
    ASSUME IInv, NEW o \in Orders, PeriodsOf' = PeriodsOf,
           \/ ReuseCheckout(o) \/ GatewayAccepts(o) \/ GatewayRefuses(o) \/ RequestLost(o)
           \/ RecordInvoice(o) \/ CancelSource(o) \/ CancelSubscription(o)
           \/ OrderAges(o) \/ PeriodEnds(o)
    PROVE  UNCHANGED Purchases!vars
  <1>t. TypeOK BY DEF IInv
  <1>1. \A p \in Orders : SaleOf(order'[p]) = SaleOf(order[p])
    BY <1>t, KeptIs, SameSale
  <1>2. \A p \in Orders : invoice'[p] = "paid" <=> invoice[p] = "paid"
    BY <1>t DEF TypeOK, ReuseCheckout, GatewayAccepts, GatewayRefuses, RequestLost,
       RecordInvoice, CancelSource, CancelSubscription, OrderAges, PeriodEnds
  <1>3. credit' = credit
    BY DEF ReuseCheckout, GatewayAccepts, GatewayRefuses, RequestLost, RecordInvoice,
       CancelSource, CancelSubscription, OrderAges, PeriodEnds
  <1>4. Sales' = Sales /\ Paid' = Paid
    BY <1>1, <1>2 DEF Sales, Paid
  <1> QED BY <1>3, <1>4 DEF Purchases!vars, Sales, Paid, PeriodsOf

(* No step but a confirmation moves a subscription into another period.       *)
LEMMA PeriodsStay ==
    ASSUME IInv, NEW o \in Orders,
           \/ ReuseCheckout(o) \/ GatewayAccepts(o) \/ GatewayRefuses(o) \/ RequestLost(o)
           \/ RecordInvoice(o) \/ MarkRejected(o) \/ CancelSource(o)
           \/ CancelSubscription(o) \/ OrderAges(o) \/ PeriodEnds(o)
    PROVE  PeriodsOf' = PeriodsOf
  <1>t. /\ subscription \in [Orders -> Subscription] /\ RenewalInv
        /\ \A s \in Orders : subscription[s] \in Subscription
    BY DEF IInv, TypeOK
  <1>1. CASE subscription' = subscription
    BY <1>1 DEF PeriodsOf
  <1>2. CASE subscription' # subscription
    <2>1. PICK s, row :
             /\ s \in Orders /\ row.period = subscription[s].period
             /\ subscription' = [subscription EXCEPT ![s] = row]
      <3>1. CASE MarkRejected(o)
        <4> DEFINE s == order[o].parent
                   status == IF subscription[s].status = "cancelled"
                             THEN subscription[s].status ELSE "past_due"
        <4>1. s \in Orders
          BY <1>t, <1>2, <3>1 DEF MarkRejected, RenewalInv
        <4>2. subscription' = [subscription EXCEPT ![s] =
                                  [subscription[s] EXCEPT !.status = status]]
          BY <1>t, <1>2, <3>1, <4>1 DEF MarkRejected
        <4> HIDE DEF status
        <4>3. [subscription[s] EXCEPT !.status = status].period = subscription[s].period
          BY <1>t, <4>1 DEF Subscription
        <4> QED BY <4>1, <4>2, <4>3
      <3>2. CASE CancelSubscription(o) \/ PeriodEnds(o)
        <4>1. /\ [subscription[o] EXCEPT !.status = "cancelled"].period = subscription[o].period
              /\ [subscription[o] EXCEPT !.due = TRUE].period = subscription[o].period
          BY <1>t DEF Subscription
        <4> QED BY <3>2, <4>1 DEF CancelSubscription, PeriodEnds
      <3> QED BY <1>2, <3>1, <3>2 DEF ReuseCheckout, GatewayAccepts, GatewayRefuses,
           RequestLost, RecordInvoice, CancelSource, OrderAges
    <2>2. \A p \in Orders : subscription'[p].period = subscription[p].period
      BY <1>t, <2>1
    <2> QED BY <2>2 DEF PeriodsOf
  <1> QED BY <1>1, <1>2

LEMMA PurchaseInit == Init => Purchases!Init
  <1> SUFFICES ASSUME Init PROVE Purchases!Init
    OBVIOUS
  <1>1. \A o \in Orders : SaleOf(order[o]) = Purchases!Sale("none", NoOrder, 0, "none")
    BY DEF Init, NoRow, SaleOf, Purchases!Sale
  <1>2. {o \in Orders : invoice[o] = "paid"} = {}
    BY DEF Init
  <1>3. [s \in Orders |-> subscription[s].period] = [s \in Orders |-> 0]
    BY DEF Init
  <1> QED BY <1>1, <1>2, <1>3 DEF Init, Purchases!Init

LEMMA PurchaseStep ==
    ASSUME IInv, AuthorityInv, [Next]_vars
    PROVE  [Purchases!Next]_(Purchases!vars)
  <1>1. ASSUME NEW o \in Orders, MarkRejected(o)
        PROVE  Purchases!Next \/ UNCHANGED Purchases!vars
    BY <1>1, PeriodsStay, RejectIsSeen
  <1>2. ASSUME NEW o \in Orders,
               \/ ReuseCheckout(o) \/ GatewayAccepts(o) \/ GatewayRefuses(o) \/ RequestLost(o)
               \/ RecordInvoice(o) \/ CancelSource(o) \/ CancelSubscription(o)
               \/ OrderAges(o) \/ PeriodEnds(o)
        PROVE  UNCHANGED Purchases!vars
    BY <1>2, PeriodsStay, OutsideIsNotSeen
  <1>3. CASE UNCHANGED vars
    BY <1>3 DEF vars, Purchases!vars
  <1> QED BY <1>1, <1>2, <1>3, AskIsSeen, PayIsSeen, ConfirmIsSeen DEF Next

(* Every charge has its authority in every reachable state: confirm_result     *)
(* alone saves a card or begins a subscription, and only with a purchase.     *)
THEOREM ChargesAreAuthorised == Spec => []AuthorityInv
  BY AuthorityInit, AuthorityStep, InitInv, Invariance, PTL DEF Spec

(* A repeat charge that was paid can be refused for one reason only.          *)
LostWithItsCard ==
    \A o \in Orders :
        (invoice[o] = "paid" /\ order[o].kind = "repeat") =>
            \/ order[o].status = "confirmed"
            \/ Confirmable(o)
            \/ order[o].status = "pending" /\ source[order[o].parent] = "cancelled"

(* What the violated PaidRepeatIsGrantable leaves true: whatever answers and    *)
(* results come, _grant_purchase refuses a paid repeat charge only because its *)
(* card was cancelled or replaced, and never drops its order.                *)
THEOREM RepeatLostWithItsCard == Spec => []LostWithItsCard
  <1>1. IInv /\ AuthorityInv => LostWithItsCard
    <2> SUFFICES ASSUME IInv, AuthorityInv, NEW o \in Orders, invoice[o] = "paid",
                        order[o].kind = "repeat", order[o].status # "confirmed",
                        source[order[o].parent] # "cancelled"
                 PROVE  Confirmable(o)
      <3>1. ASSUME IInv, NEW o \in Orders, invoice[o] = "paid", order[o].kind = "repeat"
            PROVE  order[o].status \in {"pending", "confirmed"}
        <4>1. order[o].status \in {"none", "pending", "confirmed", "failed"}
          BY <3>1 DEF IInv, TypeOK, OrderRow
        <4> QED BY <3>1, <4>1 DEF IInv, RowInv, GatewayInv
      <3> QED BY <3>1 DEF LostWithItsCard
    <2>1. order[o].status \in {"none", "pending", "confirmed", "failed"}
      BY DEF IInv, TypeOK, OrderRow
    <2>2. order[o].status = "pending" /\ order[o].payment \in Unconfirmed
      BY <2>1 DEF IInv, RowInv, GatewayInv
    <2>3. order[o].parent \in Orders
      BY DEF IInv, RepeatInv
    <2>4. source[order[o].parent] = "active"
      BY <2>3 DEF IInv, TypeOK, AuthorityInv
    <2> QED BY <2>2, <2>4 DEF Confirmable
  <1> QED BY <1>1, Inductive, ChargesAreAuthorised, PTL

(* Payments keeps the promise of Purchase for any orders and periods: through  *)
(* lost answers, late results and cancellations every purchase is asked for,   *)
(* paid and granted or dropped, once, on the authority of one granted before.  *)
THEOREM KeepsPurchase == Spec => ImplementsPurchase
  <1>1. IInv /\ AuthorityInv /\ [Next]_vars => [Purchases!Next]_(Purchases!vars)
    BY PurchaseStep
  <1> QED BY <1>1, PurchaseInit, Inductive, ChargesAreAuthorised, PTL
          DEF Spec, ImplementsPurchase, Purchases!Spec
===============================================================================
