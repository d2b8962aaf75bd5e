---------------------------- MODULE BillingProofs ----------------------------
(***************************************************************************)
(* Theorems about Billing, for any number of requests, subscriptions,      *)
(* orders and users, and any limits of the coupon.                         *)
(***************************************************************************)
EXTENDS Billing, FiniteSetTheorems, TLAPS

(* The last event of a subscription says what Stripe holds. *)
EventsTellStripe ==
  \A s \in Subscriptions : LET n == Len(emitted[s]) IN
    /\ n = 0 => stripe[s].status = "none"
    /\ n > 0 => /\ stripe[s].status # "none"
                /\ emitted[s][n].type = "deleted" <=> stripe[s].status = "canceled"
                /\ emitted[s][n].status = stripe[s].status
                /\ emitted[s][n].cancels = stripe[s].cancels

(* A row says what the newest event applied to it says, unless something older  *)
(* was written over that; an answer of Stripe may know of an event still to come. *)
RowTells(row, event, newest) ==
  IF event.type = "deleted"
  THEN row.status \in {"NONE", "CANCELLED"}
  ELSE /\ row.status = mapStripeStatus(event.status)
       /\ row.cancelAtPeriodEnd = event.cancels \/ ~ newest
RowsTellEvents ==
  \A s \in Subscriptions :
    /\ applied[s] <= Len(emitted[s])
    /\ applied[s] = 0 => rows[s].status = "NONE"
    /\ applied[s] > 0 /\ s \notin overtaken =>
         RowTells(rows[s], emitted[s][applied[s]], applied[s] = Len(emitted[s]))

(* A request handles an event there is, or saves the answer Stripe gave with one. *)
CarriesEvent ==
  \A r \in Requests :
    /\ req[r].step \in {"handle", "callStripe", "saveAnswer"} => req[r].sub \in Subscriptions
    /\ req[r].step \in {"handle", "saveAnswer"} => req[r].event \in 1..Len(emitted[req[r].sub])
    /\ At(r, "saveAnswer") => req[r].cancels /\ emitted[req[r].sub][req[r].event].cancels

(* An order is created once, by the request that checks it out. *)
CheckingOut ==
  \A r \in Requests :
    /\ req[r].step \in {"countAll", "countMine", "createOrder"} =>
         /\ req[r].order \in Orders /\ orders[req[r].order] = "NONE"
         /\ \A q \in Requests \ {r} : req[q].order # req[r].order
    /\ req[r].step \in {"readOrder", "markPaid", "markFailed"} =>
         req[r].order \in Orders /\ orders[req[r].order] # "NONE"

(* A checkout that began when a limit was reached meets it: limits stay reached. *)
LateIsRefused ==
  \A r \in Requests : req[r].order \in late =>
    /\ At(r, "countAll") => AtLimit \/ AtUserLimit(Buyer[req[r].order])
    /\ At(r, "countMine") => AtUserLimit(Buyer[req[r].order])
    /\ ~ At(r, "createOrder")

SubscriptionInv == EventsTellStripe /\ RowsTellEvents /\ CarriesEvent
CouponInv == CheckingOut /\ LateIsRefused /\ CouponsAreLimited
IInv == TypeOK /\ SubscriptionInv /\ CouponInv

-----------------------------------------------------------------------------
(* Types *)

Request == [step: Steps, sub: 0..MaxMinute, event: Nat, cancels: BOOLEAN, order: Orders \cup {NoOrder}]
Event == [type: EventTypes, status: Live \cup {"canceled"}, cancels: BOOLEAN]
Held == [status: Live \cup {"none", "canceled"}, cancels: BOOLEAN]
Row == [status: {"NONE", "ACTIVE", "PAST_DUE", "CANCELLED"}, cancelAtPeriodEnd: BOOLEAN]

SubscriptionTypes ==
  /\ planActive \in BOOLEAN /\ minute \in Subscriptions
  /\ sessions \in [Subscriptions -> SessionStatus]
  /\ stripe \in [Subscriptions -> Held]
  /\ emitted \in [Subscriptions -> Seq(Event)]
  /\ claimed \subseteq Subscriptions \X Nat
  /\ rows \in [Subscriptions -> Row]
  /\ applied \in [Subscriptions -> Nat] /\ overtaken \subseteq Subscriptions
CouponTypes ==
  /\ usable \in BOOLEAN /\ discount \in {"part", "whole"}
  /\ orders \in [Orders -> OrderStatus] /\ redeemed \subseteq Orders
  /\ late \subseteq Orders /\ overwritten \subseteq Orders

LEMMA Types ==
  TypeOK <=> /\ desk \in {"subscription", "coupon"}
             /\ SubscriptionTypes /\ CouponTypes
             /\ req \in [Requests -> Request]
BY DEF TypeOK, SubscriptionTypes, CouponTypes, Request, Event, Held, Row

LEMMA NextTypes ==
  TypeOK' <=> /\ desk' \in {"subscription", "coupon"}
              /\ SubscriptionTypes' /\ CouponTypes'
              /\ req' \in [Requests -> Request]
BY DEF TypeOK, SubscriptionTypes, CouponTypes, Request, Event, Held, Row

LEMMA NoRequestType ==
  /\ NoRequest \in Request /\ NoRequest.step = "idle" /\ NoRequest.order = NoOrder
  /\ NoOrder \notin Orders
BY BillingAssumption DEF NoRequest, Request, Steps

LEMMA Going ==
  ASSUME req \in [Requests -> Request], NEW r \in Requests, NEW state \in Request, Goto(r, state)
  PROVE  /\ req' \in [Requests -> Request] /\ req'[r] = state
         /\ \A q \in Requests \ {r} : req'[q] = req[q]
BY DEF Goto

LEMMA Ending ==
  ASSUME req \in [Requests -> Request], NEW r \in Requests, Done(r)
  PROVE  /\ req' \in [Requests -> Request]
         /\ req'[r].step = "idle" /\ req'[r].order = NoOrder
         /\ \A q \in Requests \ {r} : req'[q] = req[q]
BY NoRequestType, Going DEF Done

LEMMA Stepping ==
  ASSUME req \in [Requests -> Request], NEW r \in Requests, NEW step \in Steps, Step(r, step)
  PROVE  /\ req' \in [Requests -> Request]
         /\ req'[r].step = step /\ req'[r].order = req[r].order
         /\ \A q \in Requests \ {r} : req'[q] = req[q]
<1>1. [req[r] EXCEPT !.step = step] \in Request
  BY DEF Request
<1>2. req' = [req EXCEPT ![r] = [req[r] EXCEPT !.step = step]]
  BY DEF Step
<1> QED
  BY <1>1, <1>2 DEF Request

LEMMA InitIInv == Init => IInv
<1> SUFFICES ASSUME Init PROVE IInv
  OBVIOUS
<1>1. 1 \in Subscriptions
  BY BillingAssumption DEF Subscriptions
<1>2. SubscriptionTypes
  BY <1>1 DEF Init, SubscriptionTypes, SessionStatus, Held, NoSubscription, Row, NoRow
<1>3. CouponTypes
  BY DEF Init, CouponTypes, OrderStatus
<1>4. req \in [Requests -> Request] /\ \A r \in Requests : req[r].step = "idle"
  BY NoRequestType DEF Init
<1>5. TypeOK
  BY <1>2, <1>3, <1>4, Types DEF Init
<1>6. SubscriptionInv
  BY <1>4 DEF Init, SubscriptionInv, EventsTellStripe, RowsTellEvents, CarriesEvent, NoSubscription, NoRow, At
<1>7. CouponInv
  BY <1>4 DEF Init, CouponInv, CheckingOut, LateIsRefused, CouponsAreLimited, Bought
<1> QED
  BY <1>5, <1>6, <1>7 DEF IInv

-----------------------------------------------------------------------------
(* The two parts leave each other alone *)

(* What changes nothing of a subscription, and begins nothing about one. *)
LEMMA SubscriptionsAlone ==
  ASSUME SubscriptionInv, UNCHANGED <<stripe, emitted, rows, applied, overtaken>>,
         \A q \in Requests :
           req'[q] = req[q] \/ req'[q].step \notin {"handle", "callStripe", "saveAnswer"}
  PROVE  SubscriptionInv'
<1>1. EventsTellStripe' /\ RowsTellEvents'
  BY DEF SubscriptionInv, EventsTellStripe, RowsTellEvents, RowTells
<1>2. CarriesEvent'
  BY DEF SubscriptionInv, CarriesEvent, At
<1> QED
  BY <1>1, <1>2 DEF SubscriptionInv

(* What changes nothing of the coupon, and leaves its orders. *)
LEMMA CouponsAlone ==
  ASSUME CouponInv, UNCHANGED couponVars,
         \A q \in Requests :
           \/ req'[q] = req[q]
           \/ /\ req'[q].step \notin {"countAll", "countMine", "createOrder", "readOrder", "markPaid",
                                       "markFailed"}
              /\ req'[q].order \in {req[q].order, NoOrder}
  PROVE  CouponInv'
<1>1. CheckingOut'
  BY NoRequestType DEF CouponInv, CheckingOut, couponVars
<1>2. LateIsRefused'
  BY DEF CouponInv, LateIsRefused, couponVars, At, AtLimit, AtUserLimit, Redeemed
<1>3. CouponsAreLimited'
  BY DEF CouponInv, CouponsAreLimited, couponVars
<1> QED
  BY <1>1, <1>2, <1>3 DEF CouponInv

-----------------------------------------------------------------------------
(* Events *)

(* Stripe comes to hold what the event e of s says, and says so. *)
Tells(s, e) ==
  /\ stripe' \in [Subscriptions -> Held]
  /\ stripe'[s].status = e.status /\ stripe'[s].cancels = e.cancels
  /\ \A t \in Subscriptions \ {s} : stripe'[t] = stripe[t]
  /\ e.type = "deleted" <=> e.status = "canceled"
  /\ emitted' = [emitted EXCEPT ![s] = Append(@, e)]

(* Events are never lost or changed. *)
MoreEvents ==
  \A s \in Subscriptions :
    /\ Len(emitted[s]) \in Nat /\ Len(emitted'[s]) \in Nat
    /\ Len(emitted'[s]) >= Len(emitted[s])
    /\ \A i \in 1..Len(emitted[s]) : emitted'[s][i] = emitted[s][i]

LEMMA Telling ==
  ASSUME SubscriptionTypes, NEW s \in Subscriptions, NEW e \in Event, Tells(s, e)
  PROVE  /\ emitted' \in [Subscriptions -> Seq(Event)]
         /\ MoreEvents
         /\ Len(emitted'[s]) = Len(emitted[s]) + 1 /\ emitted'[s][Len(emitted'[s])] = e
         /\ \A t \in Subscriptions \ {s} : emitted'[t] = emitted[t]
<1>1. /\ emitted \in [Subscriptions -> Seq(Event)]
      /\ emitted' = [emitted EXCEPT ![s] = Append(emitted[s], e)]
  BY DEF SubscriptionTypes, Tells
<1>2. /\ Append(emitted[s], e) \in Seq(Event)
      /\ Len(Append(emitted[s], e)) = Len(emitted[s]) + 1 /\ Len(emitted[s]) \in Nat
      /\ Append(emitted[s], e)[Len(emitted[s]) + 1] = e
      /\ \A i \in 1..Len(emitted[s]) : Append(emitted[s], e)[i] = emitted[s][i]
  BY <1>1
<1>3. emitted'[s] = Append(emitted[s], e) /\ \A t \in Subscriptions \ {s} : emitted'[t] = emitted[t]
  BY <1>1
<1>4. emitted' \in [Subscriptions -> Seq(Event)]
  BY <1>1, <1>2
<1>5. \A t \in Subscriptions : Len(emitted[t]) \in Nat /\ Len(emitted'[t]) \in Nat
  BY <1>1, <1>4
<1>6. MoreEvents
  <2>1. ASSUME NEW t \in Subscriptions
        PROVE  /\ Len(emitted'[t]) >= Len(emitted[t])
               /\ \A i \in 1..Len(emitted[t]) : emitted'[t][i] = emitted[t][i]
    <3>1. CASE t = s
      BY <1>2, <1>3, <3>1
    <3>2. CASE t # s
      BY <1>3, <1>5, <3>2
    <3> QED
      BY <3>1, <3>2
  <2> QED
    BY <1>5, <2>1 DEF MoreEvents
<1> QED
  BY <1>2, <1>3, <1>4, <1>6

LEMMA StripeKept ==
  ASSUME SubscriptionTypes, EventsTellStripe, NEW s \in Subscriptions, NEW e \in Event, Tells(s, e)
  PROVE  EventsTellStripe'
<1>1. /\ Len(emitted'[s]) = Len(emitted[s]) + 1 /\ emitted'[s][Len(emitted'[s])] = e
      /\ Len(emitted[s]) \in Nat
      /\ \A t \in Subscriptions \ {s} : emitted'[t] = emitted[t]
  BY Telling DEF MoreEvents
<1>2. e.status \in Live \cup {"canceled"}
  BY DEF Event
<1>3. ASSUME NEW t \in Subscriptions
      PROVE  LET n == Len(emitted'[t]) IN
               /\ n = 0 => stripe'[t].status = "none"
               /\ n > 0 => /\ stripe'[t].status # "none"
                           /\ emitted'[t][n].type = "deleted" <=> stripe'[t].status = "canceled"
                           /\ emitted'[t][n].status = stripe'[t].status
                           /\ emitted'[t][n].cancels = stripe'[t].cancels
  <2>1. CASE t = s
    BY <1>1, <1>2, <2>1 DEF Tells, Live
  <2>2. CASE t # s
    BY <1>1, <2>2 DEF Tells, EventsTellStripe
  <2> QED
    BY <2>1, <2>2
<1> QED
  BY <1>3 DEF EventsTellStripe

(* More events leave the rows behind them, and what requests carry. *)
LEMMA RowsBehind ==
  ASSUME RowsTellEvents, SubscriptionTypes, MoreEvents, UNCHANGED <<rows, applied, overtaken>>
  PROVE  RowsTellEvents'
<1>1. ASSUME NEW s \in Subscriptions
      PROVE  /\ applied'[s] <= Len(emitted'[s])
             /\ applied'[s] = 0 => rows'[s].status = "NONE"
             /\ applied'[s] > 0 /\ s \notin overtaken' =>
                  RowTells(rows'[s], emitted'[s][applied'[s]], applied'[s] = Len(emitted'[s]))
  <2>1. /\ applied[s] \in Nat /\ Len(emitted[s]) \in Nat /\ Len(emitted'[s]) \in Nat
        /\ applied[s] <= Len(emitted[s]) /\ Len(emitted[s]) <= Len(emitted'[s])
    BY DEF SubscriptionTypes, MoreEvents, RowsTellEvents
  <2>2. applied[s] > 0 => emitted'[s][applied[s]] = emitted[s][applied[s]]
    BY <2>1 DEF MoreEvents
  <2>3. applied[s] = Len(emitted'[s]) => applied[s] = Len(emitted[s])
    BY <2>1
  <2>4. ASSUME applied[s] > 0, s \notin overtaken
        PROVE  RowTells(rows[s], emitted'[s][applied[s]], applied[s] = Len(emitted'[s]))
    BY <2>2, <2>3, <2>4 DEF RowsTellEvents, RowTells
  <2> QED
    BY <2>1, <2>4 DEF RowsTellEvents
<1> QED
  BY <1>1 DEF RowsTellEvents

LEMMA CarriedStill ==
  ASSUME CarriesEvent, MoreEvents, NEW q \in Requests,
         \/ req'[q] = req[q]
         \/ req'[q].step \notin {"handle", "callStripe", "saveAnswer"}
  PROVE  /\ req'[q].step \in {"handle", "callStripe", "saveAnswer"} => req'[q].sub \in Subscriptions
         /\ req'[q].step \in {"handle", "saveAnswer"} => req'[q].event \in 1..Len(emitted'[req'[q].sub])
         /\ At(q, "saveAnswer")' => req'[q].cancels /\ emitted'[req'[q].sub][req'[q].event].cancels
<1>1. CASE req'[q] = req[q]
  <2> DEFINE s == req[q].sub
             i == req[q].event
  <2>1. req[q].step \in {"handle", "callStripe", "saveAnswer"} => s \in Subscriptions
    BY DEF CarriesEvent
  <2>2. ASSUME req[q].step \in {"handle", "saveAnswer"}
        PROVE  i \in 1..Len(emitted'[s]) /\ emitted'[s][i] = emitted[s][i]
    <3>1. s \in Subscriptions /\ i \in 1..Len(emitted[s])
      BY <2>2 DEF CarriesEvent
    <3>2. /\ Len(emitted[s]) \in Nat /\ Len(emitted'[s]) \in Nat /\ Len(emitted'[s]) >= Len(emitted[s])
          /\ emitted'[s][i] = emitted[s][i]
      BY <3>1 DEF MoreEvents
    <3> QED
      BY <3>1, <3>2
  <2>3. req[q].step = "saveAnswer" => req[q].cancels /\ emitted[s][i].cancels
    BY DEF CarriesEvent, At
  <2> QED
    BY <1>1, <2>1, <2>2, <2>3 DEF At
<1>2. CASE req'[q].step \notin {"handle", "callStripe", "saveAnswer"}
  BY <1>2 DEF At
<1> QED
  BY <1>1, <1>2

-----------------------------------------------------------------------------
(* Stripe's steps *)

StripeStep(s) ==
  \/ PaySession(s) \/ ExpireSession(s) \/ StripeDeletes(s)
  \/ \E status \in Live, cancels \in BOOLEAN : StripeUpdates(s, status, cancels)

LEMMA StripeTells ==
  ASSUME SubscriptionTypes, NEW s \in Subscriptions, StripeStep(s)
  PROVE  /\ sessions' \in [Subscriptions -> SessionStatus]
         /\ UNCHANGED <<desk, planActive, minute, claimed, rows, applied, overtaken, couponVars, req>>
         /\ UNCHANGED <<stripe, emitted>> \/ \E e \in Event : Tells(s, e)
<1>0. /\ stripe \in [Subscriptions -> Held] /\ sessions \in [Subscriptions -> SessionStatus]
  BY DEF SubscriptionTypes
<1>1. UNCHANGED <<desk, planActive, minute, claimed, rows, applied, overtaken, couponVars, req>>
  BY DEF StripeStep, PaySession, ExpireSession, StripeDeletes, StripeUpdates, StripeOnly
<1>2. sessions' \in [Subscriptions -> SessionStatus]
  BY <1>0 DEF StripeStep, PaySession, ExpireSession, StripeDeletes, StripeUpdates, SessionStatus
<1>3. ASSUME NEW type \in EventTypes, NEW held \in Held, held.status \in Live \cup {"canceled"},
             stripe' = [stripe EXCEPT ![s] = held], Emit(s, type),
             type = "deleted" <=> held.status = "canceled"
      PROVE  \E e \in Event : Tells(s, e)
  <2> DEFINE e == [type |-> type, status |-> held.status, cancels |-> held.cancels]
  <2>1. e \in Event
    BY <1>3 DEF Event, Held
  <2>2. stripe'[s] = held /\ stripe' \in [Subscriptions -> Held] /\ \A t \in Subscriptions \ {s} : stripe'[t] = stripe[t]
    BY <1>0, <1>3
  <2>3. emitted' = [emitted EXCEPT ![s] = Append(@, e)]
    BY <1>3, <2>2 DEF Emit
  <2>4. Tells(s, e)
    BY <1>3, <2>2, <2>3 DEF Tells
  <2> QED
    BY <2>1, <2>4
<1>4. CASE PaySession(s)
  <2>1. PICK status \in {"unpaid", "active"} : stripe' = [stripe EXCEPT ![s].status = status]
    BY <1>4 DEF PaySession
  <2>2. /\ [stripe[s] EXCEPT !.status = status] \in Held
        /\ [stripe[s] EXCEPT !.status = status].status = status
    BY <1>0, <2>1 DEF Held, Live
  <2>3. stripe' = [stripe EXCEPT ![s] = [stripe[s] EXCEPT !.status = status]]
    BY <2>1
  <2> QED
    BY <1>1, <1>2, <1>3, <1>4, <2>1, <2>2, <2>3 DEF PaySession, EventTypes, Live
<1>5. CASE ExpireSession(s)
  BY <1>1, <1>2, <1>5 DEF ExpireSession
<1>6. CASE StripeDeletes(s)
  <2>1. /\ [stripe[s] EXCEPT !.status = "canceled"] \in Held
        /\ [stripe[s] EXCEPT !.status = "canceled"].status = "canceled"
    BY <1>0 DEF Held, Live
  <2>2. stripe' = [stripe EXCEPT ![s] = [stripe[s] EXCEPT !.status = "canceled"]] /\ Emit(s, "deleted")
    BY <1>6 DEF StripeDeletes
  <2> QED
    BY <1>1, <1>2, <1>3, <2>1, <2>2 DEF EventTypes, Live
<1>7. CASE \E status \in Live, cancels \in BOOLEAN : StripeUpdates(s, status, cancels)
  <2>1. PICK status \in Live, cancels \in BOOLEAN : StripeUpdates(s, status, cancels)
    BY <1>7
  <2>2. [status |-> status, cancels |-> cancels] \in Held
    BY DEF Held
  <2>3. stripe' = [stripe EXCEPT ![s] = [status |-> status, cancels |-> cancels]] /\ Emit(s, "updated")
    BY <2>1 DEF StripeUpdates
  <2> QED
    BY <1>1, <1>2, <1>3, <2>2, <2>3 DEF EventTypes, Live
<1> QED
  BY <1>1, <1>2, <1>4, <1>5, <1>6, <1>7 DEF StripeStep

LEMMA StripeStepKept ==
  ASSUME IInv, NEW s \in Subscriptions, StripeStep(s)
  PROVE  IInv'
<1>0. SubscriptionTypes /\ CouponTypes /\ req \in [Requests -> Request] /\ desk \in {"subscription", "coupon"}
  BY Types DEF IInv
<1>1. /\ sessions' \in [Subscriptions -> SessionStatus]
      /\ UNCHANGED <<desk, planActive, minute, claimed, rows, applied, overtaken, couponVars, req>>
      /\ UNCHANGED <<stripe, emitted>> \/ \E e \in Event : Tells(s, e)
  BY <1>0, StripeTells
<1>2. CouponInv' /\ CouponTypes'
  BY <1>0, <1>1, CouponsAlone DEF IInv, CouponTypes, couponVars
<1>3. CASE UNCHANGED <<stripe, emitted>>
  <2>1. TypeOK'
    BY <1>0, <1>1, <1>2, <1>3, NextTypes DEF SubscriptionTypes
  <2> QED
    BY <1>1, <1>2, <1>3, <2>1, SubscriptionsAlone DEF IInv
<1>4. CASE \E e \in Event : Tells(s, e)
  <2>1. PICK e \in Event : Tells(s, e)
    BY <1>4
  <2>2. emitted' \in [Subscriptions -> Seq(Event)] /\ MoreEvents
    BY <1>0, <2>1, Telling
  <2>3. TypeOK'
    BY <1>0, <1>1, <1>2, <2>1, <2>2, NextTypes DEF SubscriptionTypes, Tells
  <2>4. EventsTellStripe'
    BY <1>0, <2>1, StripeKept DEF IInv, SubscriptionInv
  <2>5. RowsTellEvents'
    BY <1>0, <1>1, <2>2, RowsBehind DEF IInv, SubscriptionInv
  <2>6. CarriesEvent'
    BY <1>1, <2>2, CarriedStill DEF IInv, SubscriptionInv, CarriesEvent
  <2> QED
    BY <1>2, <2>3, <2>4, <2>5, <2>6 DEF IInv, SubscriptionInv
<1> QED
  BY <1>1, <1>3, <1>4

-----------------------------------------------------------------------------
(* Requests that change no row *)

SetUp(r) == ReadPlan(r) \/ ReadActive(r) \/ CreateSession(r)
Deliver(r) ==
  \/ ReleaseEvent(r)
  \/ \E s \in Subscriptions : ReadToCancel(r, s) \/ \E i \in 1..MaxEvents : ClaimEvent(r, s, i)
Plan == NextMinute \/ \E active \in BOOLEAN : SetPlanActive(active)

(* A step that changes no row, no event and no order, and begins at most to handle an event. *)
LEMMA QuietKept ==
  ASSUME IInv, NEW r \in Requests, SubscriptionTypes', UNCHANGED <<desk, couponVars>>,
         UNCHANGED <<stripe, emitted, rows, applied, overtaken>>,
         req' \in [Requests -> Request], \A q \in Requests \ {r} : req'[q] = req[q],
         req'[r].step \in {"idle", "readActive", "createSession", "callStripe", "handle"},
         req'[r].order \in {req[r].order, NoOrder},
         req'[r].step \in {"callStripe", "handle"} => req'[r].sub \in Subscriptions,
         req'[r].step = "handle" => req'[r].event \in 1..Len(emitted[req'[r].sub])
  PROVE  IInv'
<1>0. SubscriptionTypes /\ CouponTypes /\ desk \in {"subscription", "coupon"}
  BY Types DEF IInv
<1>1. CouponInv' /\ CouponTypes'
  BY <1>0, CouponsAlone DEF IInv, CouponTypes, couponVars
<1>2. TypeOK'
  BY <1>0, <1>1, NextTypes
<1>3. EventsTellStripe'
  BY DEF IInv, SubscriptionInv, EventsTellStripe
<1>4. MoreEvents
  BY <1>0 DEF MoreEvents, SubscriptionTypes
<1>5. RowsTellEvents'
  BY <1>0, <1>4, RowsBehind DEF IInv, SubscriptionInv
<1>6. CarriesEvent'
  <2>1. ASSUME NEW q \in Requests \ {r}
        PROVE  /\ req'[q].step \in {"handle", "callStripe", "saveAnswer"} => req'[q].sub \in Subscriptions
               /\ req'[q].step \in {"handle", "saveAnswer"} => req'[q].event \in 1..Len(emitted'[req'[q].sub])
               /\ At(q, "saveAnswer")' => req'[q].cancels /\ emitted'[req'[q].sub][req'[q].event].cancels
    BY <1>4, <2>1, CarriedStill DEF IInv, SubscriptionInv
  <2> QED
    BY <2>1 DEF CarriesEvent, At
<1> QED
  BY <1>1, <1>2, <1>3, <1>5, <1>6 DEF IInv, SubscriptionInv

LEMMA SetUpKept ==
  ASSUME IInv, NEW r \in Requests, SetUp(r) \/ Die(r)
  PROVE  IInv'
<1>0. SubscriptionTypes /\ req \in [Requests -> Request] /\ NoRequest \in Request
      /\ NoRequest.order = NoOrder /\ NoRequest.step = "idle"
  BY Types, NoRequestType DEF IInv
<1>1. SubscriptionTypes'
  <2>1. UNCHANGED <<planActive, minute, stripe, emitted, claimed, rows, applied, overtaken>>
    BY DEF SetUp, Die, ReadPlan, ReadActive, CreateSession, subscriptionVars, stripeVars
  <2>2. sessions' \in [Subscriptions -> SessionStatus]
    BY <1>0 DEF SetUp, Die, ReadPlan, ReadActive, CreateSession, subscriptionVars, stripeVars,
                SubscriptionTypes, SessionStatus
  <2> QED
    BY <1>0, <2>1, <2>2 DEF SubscriptionTypes
<1>2. UNCHANGED <<desk, couponVars, stripe, emitted, rows, applied, overtaken>>
  BY DEF SetUp, Die, ReadPlan, ReadActive, CreateSession, subscriptionVars, stripeVars
<1>3. /\ req' \in [Requests -> Request] /\ \A q \in Requests \ {r} : req'[q] = req[q]
      /\ req'[r].step \in {"idle", "readActive", "createSession"}
      /\ req'[r].order \in {req[r].order, NoOrder}
  <2>1. CASE ReadPlan(r)
    <3> DEFINE state == [NoRequest EXCEPT !.step = "readActive"]
    <3>1. state \in Request /\ state.step = "readActive" /\ state.order = NoOrder
      BY <1>0 DEF Request, Steps
    <3>2. Goto(r, state)
      BY <2>1 DEF ReadPlan
    <3> HIDE DEF state
    <3> QED
      BY <1>0, <3>1, <3>2, Going
  <2>2. CASE Done(r)
    BY <1>0, <2>2, Ending
  <2>3. CASE Step(r, "createSession")
    BY <1>0, <2>3, Stepping DEF Steps
  <2> QED
    BY <2>1, <2>2, <2>3 DEF SetUp, Die, ReadActive, CreateSession
<1> QED
  BY <1>1, <1>2, <1>3, QuietKept

LEMMA DeliverKept ==
  ASSUME IInv, NEW r \in Requests, Deliver(r)
  PROVE  IInv'
<1>0. SubscriptionTypes /\ req \in [Requests -> Request] /\ NoRequest \in Request /\ NoRequest.order = NoOrder
  BY Types, NoRequestType DEF IInv
<1>1. CASE ReleaseEvent(r)
  <2>1. /\ UNCHANGED <<desk, planActive, minute, sessions, stripe, emitted, rows, applied, overtaken, couponVars>>
        /\ claimed' \subseteq claimed /\ Done(r)
    BY <1>1 DEF ReleaseEvent, stripeVars
  <2>2. SubscriptionTypes'
    BY <1>0, <2>1 DEF SubscriptionTypes
  <2>3. /\ req' \in [Requests -> Request]
        /\ req'[r].step = "idle" /\ req'[r].order = NoOrder
        /\ \A q \in Requests \ {r} : req'[q] = req[q]
    BY <1>0, <2>1, Ending
  <2> QED
    BY <2>1, <2>2, <2>3, QuietKept
<1>2. ASSUME NEW s \in Subscriptions, ReadToCancel(r, s)
      PROVE  IInv'
  <2> DEFINE state == [NoRequest EXCEPT !.step = "callStripe", !.sub = s]
  <2>1. state \in Request /\ state.step = "callStripe" /\ state.order = NoOrder /\ state.sub = s
    <3>1. s \in 0..MaxMinute
      BY BillingAssumption DEF Subscriptions
    <3> QED
      BY <1>0, <3>1 DEF Request, Steps
  <2>2. Goto(r, state) /\ UNCHANGED <<desk, subscriptionVars, couponVars>>
    BY <1>2 DEF ReadToCancel
  <2> HIDE DEF state
  <2>3. req' \in [Requests -> Request] /\ req'[r] = state /\ \A q \in Requests \ {r} : req'[q] = req[q]
    BY <1>0, <2>1, <2>2, Going
  <2>4. SubscriptionTypes'
    BY <1>0, <2>2 DEF SubscriptionTypes, subscriptionVars, stripeVars
  <2> QED
    BY <2>1, <2>2, <2>3, <2>4, QuietKept DEF subscriptionVars, stripeVars
<1>3. ASSUME NEW s \in Subscriptions, NEW i \in 1..MaxEvents, ClaimEvent(r, s, i)
      PROVE  IInv'
  <2> DEFINE state == [NoRequest EXCEPT !.step = "handle", !.sub = s, !.event = i]
  <2>1. state \in Request /\ state.step = "handle" /\ state.order = NoOrder /\ state.sub = s /\ state.event = i
    <3>1. s \in 0..MaxMinute /\ i \in Nat
      BY BillingAssumption DEF Subscriptions
    <3> QED
      BY <1>0, <3>1 DEF Request, Steps
  <2>2. /\ Goto(r, state) /\ i \in DOMAIN emitted[s] /\ claimed' = claimed \cup {<<s, i>>}
        /\ UNCHANGED <<desk, planActive, minute, stripeVars, rows, applied, overtaken, couponVars>>
    BY <1>3 DEF ClaimEvent
  <2> HIDE DEF state
  <2>3. req' \in [Requests -> Request] /\ req'[r] = state /\ \A q \in Requests \ {r} : req'[q] = req[q]
    BY <1>0, <2>1, <2>2, Going
  <2>4. emitted[s] \in Seq(Event)
    BY <1>0 DEF SubscriptionTypes
  <2>5. i \in 1..Len(emitted[s])
    BY <2>2, <2>4
  <2>6. SubscriptionTypes'
    BY <1>0, <2>2 DEF SubscriptionTypes, stripeVars
  <2> QED
    BY <2>1, <2>2, <2>3, <2>5, <2>6, QuietKept DEF stripeVars
<1> QED
  BY <1>1, <1>2, <1>3 DEF Deliver

LEMMA PlanKept ==
  ASSUME IInv, Plan
  PROVE  IInv'
<1>0. SubscriptionTypes /\ CouponTypes /\ req \in [Requests -> Request] /\ desk \in {"subscription", "coupon"}
  BY Types DEF IInv
<1>1. UNCHANGED <<desk, sessions, stripe, emitted, claimed, rows, applied, overtaken, couponVars, req>>
  BY DEF Plan, NextMinute, SetPlanActive, stripeVars
<1>2. planActive' \in BOOLEAN /\ minute' \in Subscriptions
  <2>1. CASE NextMinute
    BY <1>0, <2>1, BillingAssumption DEF NextMinute, SubscriptionTypes, Subscriptions
  <2>2. CASE \E active \in BOOLEAN : SetPlanActive(active)
    BY <1>0, <2>2 DEF SetPlanActive, SubscriptionTypes
  <2> QED
    BY <2>1, <2>2 DEF Plan
<1>3. CouponInv' /\ CouponTypes'
  BY <1>0, <1>1, CouponsAlone DEF IInv, CouponTypes, couponVars
<1>4. TypeOK'
  BY <1>0, <1>1, <1>2, <1>3, NextTypes DEF SubscriptionTypes
<1> QED
  BY <1>1, <1>3, <1>4, SubscriptionsAlone DEF IInv

-----------------------------------------------------------------------------
(* Requests that write rows *)

LEMMA StatusIsMapped ==
  ASSUME NEW status
  PROVE  mapStripeStatus(status) \in {"ACTIVE", "PAST_DUE", "CANCELLED"}
BY DEF mapStripeStatus

(* An event is written as it is, and counts unless a newer one was. *)
LEMMA HandleKept ==
  ASSUME IInv, NEW r \in Requests, HandleEvent(r)
  PROVE  IInv'
<1> DEFINE s == req[r].sub
           i == req[r].event
           e == emitted[s][i]
<1>0. SubscriptionTypes /\ CouponTypes /\ req \in [Requests -> Request] /\ desk \in {"subscription", "coupon"}
  BY Types DEF IInv
<1>1. /\ req[r].step = "handle" /\ Done(r)
      /\ rows' = [rows EXCEPT ![s] = WriteEvent(rows[s], e)]
      /\ applied' = [applied EXCEPT ![s] = IF i > applied[s] THEN i ELSE applied[s]]
      /\ overtaken' = IF i > applied[s] THEN overtaken \ {s} ELSE overtaken \cup {s}
      /\ UNCHANGED <<desk, planActive, minute, sessions, stripe, emitted, claimed, couponVars>>
  BY DEF HandleEvent, At, stripeVars
<1>2. s \in Subscriptions /\ i \in 1..Len(emitted[s])
  BY <1>1 DEF IInv, SubscriptionInv, CarriesEvent
<1>3. /\ emitted[s] \in Seq(Event) /\ Len(emitted[s]) \in Nat /\ e \in Event
      /\ applied \in [Subscriptions -> Nat] /\ rows \in [Subscriptions -> Row]
      /\ overtaken \subseteq Subscriptions
  BY <1>0, <1>2 DEF SubscriptionTypes
<1> HIDE DEF s, i, e
<1>4. WriteEvent(rows[s], e) \in Row /\ RowTells(WriteEvent(rows[s], e), e, TRUE)
  BY <1>2, <1>3, StatusIsMapped DEF WriteEvent, RowTells, Row, NoRow, Event
<1>5. /\ req' \in [Requests -> Request] /\ req'[r].step = "idle" /\ req'[r].order = NoOrder
      /\ \A q \in Requests \ {r} : req'[q] = req[q]
  BY <1>0, <1>1, Ending
<1>6. CouponInv' /\ CouponTypes'
  BY <1>0, <1>1, <1>5, CouponsAlone DEF IInv, CouponTypes, couponVars
<1>7. SubscriptionTypes'
  <2>1. rows' \in [Subscriptions -> Row]
    BY <1>1, <1>3, <1>4
  <2>2. applied' \in [Subscriptions -> Nat] /\ overtaken' \subseteq Subscriptions
    BY <1>1, <1>2, <1>3
  <2> QED
    BY <1>0, <1>1, <2>1, <2>2 DEF SubscriptionTypes
<1>8. TypeOK'
  BY <1>0, <1>1, <1>5, <1>6, <1>7, NextTypes
<1>9. EventsTellStripe'
  BY <1>1 DEF IInv, SubscriptionInv, EventsTellStripe
<1>10. MoreEvents
  BY <1>0, <1>1 DEF MoreEvents, SubscriptionTypes
<1>11. CarriesEvent'
  BY <1>5, <1>10, CarriedStill DEF IInv, SubscriptionInv, CarriesEvent
<1>12. RowsTellEvents'
  <2>1. ASSUME NEW t \in Subscriptions, t # s
        PROVE  /\ applied'[t] <= Len(emitted'[t])
               /\ applied'[t] = 0 => rows'[t].status = "NONE"
               /\ applied'[t] > 0 /\ t \notin overtaken' =>
                    RowTells(rows'[t], emitted'[t][applied'[t]], applied'[t] = Len(emitted'[t]))
    <3>1. applied'[t] = applied[t] /\ rows'[t] = rows[t] /\ (t \in overtaken' <=> t \in overtaken)
      BY <1>1, <1>3, <2>1
    <3> QED
      BY <1>1, <3>1 DEF IInv, SubscriptionInv, RowsTellEvents
  <2>2. CASE i > applied[s]
    <3>1. applied'[s] = i /\ rows'[s] = WriteEvent(rows[s], e) /\ i > 0
      BY <1>1, <1>2, <1>3, <2>2
    <3>2. RowTells(rows'[s], e, i = Len(emitted[s]))
      BY <1>4, <3>1 DEF RowTells
    <3>3. emitted'[s][applied'[s]] = e
      BY <1>1, <3>1 DEF e
    <3> QED
      BY <1>1, <1>2, <1>3, <2>1, <3>1, <3>2, <3>3 DEF RowsTellEvents
  <2>3. CASE ~ (i > applied[s])
    <3>1. applied'[s] = applied[s] /\ s \in overtaken' /\ applied[s] > 0 /\ applied[s] <= Len(emitted[s])
      BY <1>1, <1>2, <1>3, <2>3 DEF IInv, SubscriptionInv, RowsTellEvents
    <3> QED
      BY <1>1, <2>1, <3>1 DEF RowsTellEvents
  <2> QED
    BY <2>2, <2>3
<1> QED
  BY <1>6, <1>8, <1>9, <1>11, <1>12 DEF IInv, SubscriptionInv

(* An answer of Stripe is written over an event only if it is newer or the same. *)
LEMMA SaveKept ==
  ASSUME IInv, NEW r \in Requests, SaveAnswer(r)
  PROVE  IInv'
<1> DEFINE s == req[r].sub
           i == req[r].event
<1>0. SubscriptionTypes /\ CouponTypes /\ req \in [Requests -> Request] /\ desk \in {"subscription", "coupon"}
  BY Types DEF IInv
<1>1. /\ req[r].step = "saveAnswer" /\ Done(r)
      /\ rows' = [rows EXCEPT ![s].cancelAtPeriodEnd = req[r].cancels]
      /\ overtaken' = IF applied[s] > i THEN overtaken \cup {s} ELSE overtaken
      /\ UNCHANGED <<desk, planActive, minute, sessions, stripe, emitted, claimed, applied, couponVars>>
  BY DEF SaveAnswer, At, stripeVars
<1>2. s \in Subscriptions /\ i \in 1..Len(emitted[s]) /\ req[r].cancels /\ emitted[s][i].cancels
  BY <1>1 DEF IInv, SubscriptionInv, CarriesEvent, At
<1>3. /\ emitted[s] \in Seq(Event) /\ Len(emitted[s]) \in Nat /\ emitted[s][i] \in Event
      /\ applied \in [Subscriptions -> Nat] /\ rows \in [Subscriptions -> Row]
      /\ overtaken \subseteq Subscriptions /\ req[r].cancels \in BOOLEAN
  BY <1>0, <1>2 DEF SubscriptionTypes, Request
<1>4. req[r].cancels = TRUE /\ emitted[s][i].cancels = TRUE
  BY <1>2, <1>3 DEF Event
<1> HIDE DEF s, i
<1>5. /\ rows' \in [Subscriptions -> Row] /\ rows'[s].status = rows[s].status
      /\ rows'[s].cancelAtPeriodEnd = TRUE
      /\ \A t \in Subscriptions : t # s => rows'[t] = rows[t]
  <2>1. rows' = [rows EXCEPT ![s] = [rows[s] EXCEPT !.cancelAtPeriodEnd = TRUE]]
    BY <1>1, <1>4
  <2>2. /\ [rows[s] EXCEPT !.cancelAtPeriodEnd = TRUE] \in Row
        /\ [rows[s] EXCEPT !.cancelAtPeriodEnd = TRUE].status = rows[s].status
        /\ [rows[s] EXCEPT !.cancelAtPeriodEnd = TRUE].cancelAtPeriodEnd = TRUE
    BY <1>2, <1>3 DEF Row
  <2> QED
    BY <1>2, <1>3, <2>1, <2>2
<1>6. /\ req' \in [Requests -> Request] /\ req'[r].step = "idle" /\ req'[r].order = NoOrder
      /\ \A q \in Requests \ {r} : req'[q] = req[q]
  BY <1>0, <1>1, Ending
<1>7. CouponInv' /\ CouponTypes'
  BY <1>0, <1>1, <1>6, CouponsAlone DEF IInv, CouponTypes, couponVars
<1>8. SubscriptionTypes'
  <2>1. overtaken' \subseteq Subscriptions
    BY <1>1, <1>2, <1>3
  <2> QED
    BY <1>0, <1>1, <1>5, <2>1 DEF SubscriptionTypes
<1>9. TypeOK'
  BY <1>0, <1>1, <1>6, <1>7, <1>8, NextTypes
<1>10. EventsTellStripe'
  BY <1>1 DEF IInv, SubscriptionInv, EventsTellStripe
<1>11. MoreEvents
  BY <1>0, <1>1 DEF MoreEvents, SubscriptionTypes
<1>12. CarriesEvent'
  BY <1>6, <1>11, CarriedStill DEF IInv, SubscriptionInv, CarriesEvent
<1>13. RowsTellEvents'
  <2>1. ASSUME NEW t \in Subscriptions, t # s
        PROVE  t \in overtaken' <=> t \in overtaken
    BY <1>1, <2>1
  <2>2. ASSUME applied[s] > 0, s \notin overtaken'
        PROVE  RowTells(rows'[s], emitted[s][applied[s]], applied[s] = Len(emitted[s]))
    <3>1. s \notin overtaken /\ applied[s] <= i
      BY <1>1, <1>2, <1>3, <2>2
    <3>2. RowTells(rows[s], emitted[s][applied[s]], applied[s] = Len(emitted[s]))
      BY <1>2, <2>2, <3>1 DEF IInv, SubscriptionInv, RowsTellEvents
    <3>3. applied[s] = Len(emitted[s]) => applied[s] = i
      BY <1>2, <1>3, <3>1
    <3> QED
      BY <1>4, <1>5, <3>2, <3>3 DEF RowTells
  <2>3. applied[s] <= Len(emitted[s]) /\ (applied[s] = 0 => rows[s].status = "NONE")
    BY <1>2 DEF IInv, SubscriptionInv, RowsTellEvents
  <2>4. ASSUME NEW t \in Subscriptions
        PROVE  /\ applied'[t] <= Len(emitted'[t])
               /\ applied'[t] = 0 => rows'[t].status = "NONE"
               /\ applied'[t] > 0 /\ t \notin overtaken' =>
                    RowTells(rows'[t], emitted'[t][applied'[t]], applied'[t] = Len(emitted'[t]))
    <3>1. CASE t = s
      BY <1>1, <1>5, <2>2, <2>3, <3>1
    <3>2. CASE t # s
      BY <1>1, <1>5, <2>1, <3>2 DEF IInv, SubscriptionInv, RowsTellEvents
    <3> QED
      BY <3>1, <3>2
  <2> QED
    BY <2>4 DEF RowsTellEvents
<1> QED
  BY <1>7, <1>9, <1>10, <1>12, <1>13 DEF IInv, SubscriptionInv

(* Stripe's answer knows of the event that the request has caused, or of the last before it. *)
LEMMA CancelKept ==
  ASSUME IInv, NEW r \in Requests, CancelInStripe(r)
  PROVE  IInv'
<1> DEFINE s == req[r].sub
           state == [req[r] EXCEPT !.step = "saveAnswer", !.event = Len(emitted'[s]), !.cancels = TRUE]
<1>0. SubscriptionTypes /\ CouponTypes /\ req \in [Requests -> Request] /\ desk \in {"subscription", "coupon"}
  BY Types DEF IInv
<1>1. /\ req[r].step = "callStripe"
      /\ UNCHANGED <<desk, planActive, minute, sessions, claimed, rows, applied, overtaken, couponVars>>
  BY DEF CancelInStripe, At
<1>2. s \in Subscriptions
  BY <1>1 DEF IInv, SubscriptionInv, CarriesEvent
<1>3. stripe[s] \in Held /\ stripe \in [Subscriptions -> Held]
  BY <1>0, <1>2 DEF SubscriptionTypes
<1>4. CASE stripe[s].status \notin Live
  <2>1. Done(r) /\ UNCHANGED <<stripe, emitted>>
    BY <1>4 DEF CancelInStripe
  <2>2. /\ req' \in [Requests -> Request] /\ req'[r].step = "idle" /\ req'[r].order = NoOrder
        /\ \A q \in Requests \ {r} : req'[q] = req[q]
    BY <1>0, <2>1, Ending
  <2>3. SubscriptionTypes'
    BY <1>0, <1>1, <2>1 DEF SubscriptionTypes
  <2> QED
    BY <1>1, <2>1, <2>2, <2>3, QuietKept
<1>5. CASE stripe[s].status \in Live
  <2>1. /\ stripe' = [stripe EXCEPT ![s].cancels = TRUE] /\ Goto(r, state)
        /\ IF stripe[s].cancels THEN UNCHANGED emitted ELSE Emit(s, "updated")
    BY <1>5 DEF CancelInStripe
  <2>2. /\ stripe' \in [Subscriptions -> Held]
        /\ stripe'[s].status = stripe[s].status /\ stripe'[s].cancels = TRUE
        /\ \A t \in Subscriptions \ {s} : stripe'[t] = stripe[t]
    <3>1. stripe' = [stripe EXCEPT ![s] = [stripe[s] EXCEPT !.cancels = TRUE]]
      BY <2>1
    <3>2. /\ [stripe[s] EXCEPT !.cancels = TRUE] \in Held
          /\ [stripe[s] EXCEPT !.cancels = TRUE].status = stripe[s].status
          /\ [stripe[s] EXCEPT !.cancels = TRUE].cancels = TRUE
      BY <1>3 DEF Held
    <3> QED
      BY <1>2, <1>3, <3>1, <3>2
  <2> HIDE DEF state, s
  <2>3. /\ emitted' \in [Subscriptions -> Seq(Event)] /\ MoreEvents /\ EventsTellStripe'
        /\ Len(emitted'[s]) > 0 /\ emitted'[s][Len(emitted'[s])].cancels
    <3>1. CASE stripe[s].cancels
      <4>1. UNCHANGED emitted /\ stripe[s].cancels = TRUE
        BY <1>3, <2>1, <3>1 DEF Held
      <4>2. EventsTellStripe'
        <5>1. ASSUME NEW t \in Subscriptions
              PROVE  stripe'[t].status = stripe[t].status /\ stripe'[t].cancels = stripe[t].cancels
          BY <2>2, <4>1
        <5> QED
          BY <4>1, <5>1 DEF IInv, SubscriptionInv, EventsTellStripe
      <4>3. emitted \in [Subscriptions -> Seq(Event)] /\ Len(emitted[s]) \in Nat
        BY <1>0, <1>2 DEF SubscriptionTypes
      <4>4. stripe[s].status # "none"
        BY <1>5 DEF Live
      <4>5. Len(emitted[s]) > 0 /\ emitted[s][Len(emitted[s])].cancels = stripe[s].cancels
        BY <1>2, <4>3, <4>4 DEF IInv, SubscriptionInv, EventsTellStripe
      <4>6. MoreEvents
        BY <4>1, <4>3 DEF MoreEvents
      <4> QED
        BY <4>1, <4>2, <4>3, <4>5, <4>6
    <3>2. CASE ~ stripe[s].cancels
      <4> DEFINE e == [type |-> "updated", status |-> stripe[s].status, cancels |-> TRUE]
      <4>1. e \in Event /\ e.cancels = TRUE
        BY <1>5 DEF Event, EventTypes
      <4>2. emitted' = [emitted EXCEPT ![s] = Append(@, e)]
        BY <2>1, <2>2, <3>2 DEF Emit
      <4>3. Tells(s, e)
        BY <1>5, <2>2, <4>2 DEF Tells, Live
      <4> HIDE DEF e
      <4>4. /\ emitted' \in [Subscriptions -> Seq(Event)] /\ MoreEvents
            /\ Len(emitted'[s]) = Len(emitted[s]) + 1 /\ emitted'[s][Len(emitted'[s])] = e
        BY <1>0, <1>2, <4>1, <4>3, Telling
      <4>5. EventsTellStripe'
        BY <1>0, <1>2, <4>1, <4>3, StripeKept DEF IInv, SubscriptionInv
      <4>6. Len(emitted'[s]) > 0
        BY <1>2, <4>4 DEF MoreEvents
      <4> QED
        BY <4>1, <4>4, <4>5, <4>6
    <3> QED
      BY <3>1, <3>2
  <2>4. Len(emitted'[s]) \in Nat
    BY <1>2, <2>3
  <2>5. /\ state \in Request /\ state.step = "saveAnswer" /\ state.event = Len(emitted'[s])
        /\ state.cancels = TRUE /\ state.sub = s /\ state.order = req[r].order
    BY <1>0, <2>4 DEF state, s, Request, Steps
  <2>6. req' \in [Requests -> Request] /\ req'[r] = state /\ \A q \in Requests \ {r} : req'[q] = req[q]
    BY <1>0, <2>1, <2>5, Going
  <2>7. CouponInv' /\ CouponTypes'
    BY <1>0, <1>1, <2>5, <2>6, CouponsAlone DEF IInv, CouponTypes, couponVars
  <2>8. TypeOK'
    BY <1>0, <1>1, <2>2, <2>3, <2>6, <2>7, NextTypes DEF SubscriptionTypes
  <2>9. RowsTellEvents'
    BY <1>0, <1>1, <2>3, RowsBehind DEF IInv, SubscriptionInv
  <2>10. CarriesEvent'
    <3>1. ASSUME NEW q \in Requests \ {r}
          PROVE  /\ req'[q].step \in {"handle", "callStripe", "saveAnswer"} => req'[q].sub \in Subscriptions
                 /\ req'[q].step \in {"handle", "saveAnswer"} => req'[q].event \in 1..Len(emitted'[req'[q].sub])
                 /\ At(q, "saveAnswer")' => req'[q].cancels /\ emitted'[req'[q].sub][req'[q].event].cancels
      BY <2>3, <2>6, CarriedStill DEF IInv, SubscriptionInv
    <3>2. Len(emitted'[s]) \in 1..Len(emitted'[s])
      BY <2>3, <2>4
    <3> QED
      BY <1>2, <2>3, <2>5, <2>6, <3>1, <3>2 DEF CarriesEvent, At
  <2> QED
    BY <2>3, <2>7, <2>8, <2>9, <2>10 DEF IInv, SubscriptionInv
<1> QED
  BY <1>4, <1>5

-----------------------------------------------------------------------------
(* The coupon *)

LEMMA LimitsHold ==
  ASSUME redeemed \subseteq redeemed', redeemed' \subseteq Orders
  PROVE  /\ AtLimit => AtLimit'
         /\ \A u : AtUserLimit(u) => AtUserLimit(u)'
<1>1. \A S, T : T \subseteq Orders /\ S \subseteq T =>
        Cardinality(S) \in Nat /\ Cardinality(T) \in Nat /\ Cardinality(S) <= Cardinality(T)
  BY BillingAssumption, FS_Subset, FS_CardinalityType
<1>2. AtLimit => AtLimit'
  BY <1>1, BillingAssumption DEF AtLimit
<1>3. ASSUME NEW u, AtUserLimit(u)
      PROVE  AtUserLimit(u)'
  <2>1. Redeemed(u) \subseteq Redeemed(u)' /\ Redeemed(u)' \subseteq Orders
    BY DEF Redeemed
  <2> QED
    BY <1>1, <1>3, <2>1, BillingAssumption DEF AtUserLimit
<1> QED
  BY <1>2, <1>3

CheckOutStep(r) ==
  \/ CountRedemptions(r) \/ CountUserRedemptions(r) \/ CreateOrder(r)
  \/ ReadOrder(r) \/ MarkOrderPaid(r) \/ MarkOrderFailed(r)
  \/ \E o \in Orders : ReadCoupon(r, o) \/ StartMarkOrderPaid(r, o) \/ ReadToFail(r, o)
CouponStep ==
  \/ \E active \in BOOLEAN : SetUsable(active)
  \/ \E o \in Orders : DisputeOrder(o) \/ WinDispute(o) \/ RefundOrder(o)

(* No step of the coupon has to do with a subscription. *)
LEMMA CouponLeaves ==
  ASSUME IInv, UNCHANGED <<desk, subscriptionVars>>, CouponTypes', CouponInv',
         req' \in [Requests -> Request],
         \A q \in Requests :
           req'[q] = req[q] \/ req'[q].step \notin {"handle", "callStripe", "saveAnswer"}
  PROVE  IInv'
<1>1. SubscriptionTypes' /\ desk' \in {"subscription", "coupon"}
  BY Types DEF IInv, SubscriptionTypes, subscriptionVars, stripeVars
<1>2. TypeOK'
  BY <1>1, NextTypes
<1>3. SubscriptionInv'
  BY SubscriptionsAlone DEF IInv, subscriptionVars, stripeVars
<1> QED
  BY <1>2, <1>3 DEF IInv

(* Reading the coupon begins a checkout of an order nobody else has to do with. *)
LEMMA ReadCouponKept ==
  ASSUME IInv, NEW r \in Requests, NEW o \in Orders, ReadCoupon(r, o)
  PROVE  IInv'
<1> DEFINE state == [NoRequest EXCEPT !.step = "countAll", !.order = o]
<1>0. CouponTypes /\ req \in [Requests -> Request] /\ NoRequest \in Request
  BY Types, NoRequestType DEF IInv
<1>1. state \in Request /\ state.step = "countAll" /\ state.order = o
  BY <1>0 DEF Request, Steps
<1>2. /\ Goto(r, state) /\ orders[o] = "NONE" /\ \A q \in Requests : req[q].order # o
      /\ late' = IF AtLimit \/ AtUserLimit(Buyer[o]) THEN late \cup {o} ELSE late \ {o}
      /\ UNCHANGED <<desk, subscriptionVars, usable, discount, orders, redeemed, overwritten>>
  BY DEF ReadCoupon
<1> HIDE DEF state
<1>3. req' \in [Requests -> Request] /\ req'[r] = state /\ \A q \in Requests \ {r} : req'[q] = req[q]
  BY <1>0, <1>1, <1>2, Going
<1>4. CouponTypes'
  BY <1>0, <1>2 DEF CouponTypes
<1>5. CheckingOut'
  BY <1>1, <1>2, <1>3 DEF IInv, CouponInv, CheckingOut
<1>6. LateIsRefused'
  <2>1. \A u : (AtLimit' <=> AtLimit) /\ (AtUserLimit(u)' <=> AtUserLimit(u))
    BY <1>2 DEF AtLimit, AtUserLimit, Redeemed
  <2>2. req'[r].order \in late' => AtLimit' \/ AtUserLimit(Buyer[o])'
    BY <1>1, <1>2, <1>3, <2>1
  <2>3. \A q \in Requests \ {r} : req'[q].order \in late' => req[q].order \in late
    BY <1>2, <1>3
  <2> QED
    BY <1>1, <1>3, <2>1, <2>2, <2>3 DEF IInv, CouponInv, LateIsRefused, At
<1>7. CouponsAreLimited'
  BY <1>2 DEF IInv, CouponInv, CouponsAreLimited
<1> QED
  BY <1>1, <1>2, <1>3, <1>4, <1>5, <1>6, <1>7, CouponLeaves DEF CouponInv

(* Counting refuses who is late; others go on. *)
LEMMA CountKept ==
  ASSUME IInv, NEW r \in Requests, CountRedemptions(r) \/ CountUserRedemptions(r)
  PROVE  IInv'
<1>0. CouponTypes /\ req \in [Requests -> Request] /\ NoOrder \notin Orders
  BY Types, NoRequestType DEF IInv
<1>1. UNCHANGED <<desk, subscriptionVars, couponVars>>
  BY DEF CountRedemptions, CountUserRedemptions
<1>2. /\ req' \in [Requests -> Request] /\ \A q \in Requests \ {r} : req'[q] = req[q]
      /\ \/ req'[r].step = "idle" /\ req'[r].order = NoOrder
         \/ /\ req'[r].order = req[r].order
            /\ \/ At(r, "countAll") /\ ~ AtLimit /\ req'[r].step = "countMine"
               \/ At(r, "countMine") /\ ~ AtUserLimit(Buyer[req[r].order]) /\ req'[r].step = "createOrder"
  <2>1. CASE Done(r)
    BY <1>0, <2>1, Ending
  <2>2. CASE Step(r, "countMine") /\ At(r, "countAll") /\ ~ AtLimit
    BY <1>0, <2>2, Stepping DEF Steps
  <2>3. CASE Step(r, "createOrder") /\ At(r, "countMine") /\ ~ AtUserLimit(Buyer[req[r].order])
    BY <1>0, <2>3, Stepping DEF Steps
  <2> QED
    BY <2>1, <2>2, <2>3 DEF CountRedemptions, CountUserRedemptions
<1>3. CouponTypes'
  BY <1>0, <1>1 DEF CouponTypes, couponVars
<1>4. CheckingOut'
  BY <1>0, <1>1, <1>2 DEF IInv, CouponInv, CheckingOut, couponVars, At
<1>5. LateIsRefused'
  <2>1. \A u : (AtLimit' <=> AtLimit) /\ (AtUserLimit(u)' <=> AtUserLimit(u))
    BY <1>1 DEF AtLimit, AtUserLimit, Redeemed, couponVars
  <2>2. UNCHANGED late
    BY <1>1 DEF couponVars
  <2> QED
    BY <1>2, <2>1, <2>2 DEF IInv, CouponInv, LateIsRefused, At
<1>6. CouponsAreLimited'
  BY <1>1 DEF IInv, CouponInv, CouponsAreLimited, couponVars
<1> QED
  BY <1>1, <1>2, <1>3, <1>4, <1>5, <1>6, CouponLeaves DEF CouponInv

(* An order is created by a checkout that is not late, and is nobody else's. *)
LEMMA CreateKept ==
  ASSUME IInv, NEW r \in Requests, CreateOrder(r)
  PROVE  IInv'
<1> DEFINE o == req[r].order
<1>0. CouponTypes /\ req \in [Requests -> Request] /\ NoOrder \notin Orders
  BY Types, NoRequestType DEF IInv
<1>1. /\ At(r, "createOrder") /\ orders' = [orders EXCEPT ![o] = "PENDING"]
      /\ UNCHANGED <<desk, subscriptionVars, usable, discount, redeemed, late, overwritten>>
  BY DEF CreateOrder
<1>2. /\ o \in Orders /\ orders[o] = "NONE" /\ o \notin late
      /\ \A q \in Requests \ {r} : req[q].order # o
  BY <1>1 DEF IInv, CouponInv, CheckingOut, LateIsRefused, At
<1>3. /\ req' \in [Requests -> Request] /\ \A q \in Requests \ {r} : req'[q] = req[q]
      /\ \/ req'[r].step = "idle" /\ req'[r].order = NoOrder
         \/ req'[r].step = "readOrder" /\ req'[r].order = o
  <2>1. CASE Done(r)
    BY <1>0, <2>1, Ending
  <2>2. CASE Step(r, "readOrder")
    BY <1>0, <2>2, Stepping DEF Steps
  <2> QED
    BY <2>1, <2>2 DEF CreateOrder
<1>4. orders' \in [Orders -> OrderStatus] /\ orders'[o] = "PENDING"
      /\ \A p \in Orders \ {o} : orders'[p] = orders[p]
  BY <1>0, <1>1, <1>2 DEF CouponTypes, OrderStatus
<1> HIDE DEF o
<1>5. CouponTypes'
  BY <1>0, <1>1, <1>4 DEF CouponTypes
<1>6. CheckingOut'
  BY <1>0, <1>2, <1>3, <1>4 DEF IInv, CouponInv, CheckingOut
<1>7. LateIsRefused'
  <2>1. \A u : (AtLimit' <=> AtLimit) /\ (AtUserLimit(u)' <=> AtUserLimit(u))
    BY <1>1 DEF AtLimit, AtUserLimit, Redeemed
  <2> QED
    BY <1>1, <1>3, <2>1 DEF IInv, CouponInv, LateIsRefused, At
<1>8. CouponsAreLimited'
  BY <1>1, <1>2, <1>4 DEF IInv, CouponInv, CouponsAreLimited, Bought
<1> QED
  BY <1>1, <1>3, <1>5, <1>6, <1>7, <1>8, CouponLeaves DEF CouponInv

(* markOrderPaid: an order is paid and its coupon redeemed in one step. *)
LEMMA PayKept ==
  ASSUME IInv, NEW r \in Requests,
         ReadOrder(r) \/ MarkOrderPaid(r) \/ \E o \in Orders : StartMarkOrderPaid(r, o)
  PROVE  IInv'
<1>0. CouponTypes /\ req \in [Requests -> Request] /\ NoOrder \notin Orders /\ NoRequest \in Request
  BY Types, NoRequestType DEF IInv
<1>1. ASSUME NEW o \in Orders, StartMarkOrderPaid(r, o)
      PROVE  /\ req' \in [Requests -> Request] /\ \A q \in Requests \ {r} : req'[q] = req[q]
             /\ req'[r].step = "readOrder" /\ req'[r].order \in Orders
             /\ orders[req'[r].order] # "NONE"
  <2> DEFINE state == [NoRequest EXCEPT !.step = "readOrder", !.order = o]
  <2>1. state \in Request /\ state.step = "readOrder" /\ state.order = o
    BY <1>0 DEF Request, Steps
  <2>2. Goto(r, state) /\ orders[o] # "NONE"
    BY <1>1 DEF StartMarkOrderPaid
  <2> HIDE DEF state
  <2> QED
    BY <1>0, <2>1, <2>2, Going
<1>2. /\ req' \in [Requests -> Request] /\ \A q \in Requests \ {r} : req'[q] = req[q]
      /\ \/ req'[r].step = "idle" /\ req'[r].order = NoOrder
         \/ /\ req'[r].step \in {"readOrder", "markPaid"} /\ req'[r].order \in Orders
            /\ orders[req'[r].order] # "NONE"
  <2>1. CASE Done(r)
    BY <1>0, <2>1, Ending
  <2>2. CASE Step(r, "markPaid") /\ At(r, "readOrder")
    <3>1. req[r].order \in Orders /\ orders[req[r].order] # "NONE"
      BY <2>2 DEF IInv, CouponInv, CheckingOut, At
    <3> QED
      BY <1>0, <2>2, <3>1, Stepping DEF Steps
  <2>3. CASE \E o \in Orders : StartMarkOrderPaid(r, o)
    BY <1>1, <2>3
  <2> QED
    BY <2>1, <2>2, <2>3 DEF ReadOrder, MarkOrderPaid
<1>3. /\ UNCHANGED <<desk, subscriptionVars, usable, discount, late, overwritten>>
      /\ \/ UNCHANGED <<orders, redeemed>>
         \/ \E o \in Orders : /\ orders[o] = "PENDING" /\ orders' = [orders EXCEPT ![o] = "PAID"]
                              /\ redeemed' = redeemed \cup {o}
  <2>1. CASE MarkOrderPaid(r)
    <3>1. req[r].order \in Orders
      BY <2>1 DEF MarkOrderPaid, IInv, CouponInv, CheckingOut, At
    <3> QED
      BY <2>1, <3>1 DEF MarkOrderPaid
  <2>2. CASE ReadOrder(r) \/ \E o \in Orders : StartMarkOrderPaid(r, o)
    BY <2>2 DEF ReadOrder, StartMarkOrderPaid, couponVars
  <2> QED
    BY <2>1, <2>2
<1>4. /\ orders' \in [Orders -> OrderStatus] /\ redeemed' \subseteq Orders
      /\ redeemed \subseteq redeemed'
      /\ \A o \in Orders : orders'[o] = "NONE" <=> orders[o] = "NONE"
      /\ redeemed' = {o \in Orders : orders'[o] \in Bought} \cup overwritten
      /\ \A o \in overwritten : orders'[o] = "FAILED"
  <2>1. /\ redeemed = {o \in Orders : orders[o] \in Bought} \cup overwritten
        /\ \A o \in overwritten : orders[o] = "FAILED"
        /\ orders \in [Orders -> OrderStatus] /\ redeemed \subseteq Orders /\ overwritten \subseteq Orders
    BY <1>0 DEF CouponTypes, IInv, CouponInv, CouponsAreLimited
  <2>2. CASE UNCHANGED <<orders, redeemed>>
    BY <2>1, <2>2
  <2>3. CASE \E o \in Orders : /\ orders[o] = "PENDING" /\ orders' = [orders EXCEPT ![o] = "PAID"]
                              /\ redeemed' = redeemed \cup {o}
    BY <2>1, <2>3 DEF OrderStatus, Bought
  <2> QED
    BY <1>3, <2>2, <2>3
<1>5. CouponTypes'
  BY <1>0, <1>3, <1>4 DEF CouponTypes
<1>6. CheckingOut'
  BY <1>0, <1>2, <1>4 DEF IInv, CouponInv, CheckingOut
<1>7. LateIsRefused'
  <2>1. AtLimit => AtLimit'
    BY <1>4, LimitsHold
  <2>2. \A u : AtUserLimit(u) => AtUserLimit(u)'
    BY <1>4, LimitsHold
  <2> QED
    BY <1>2, <1>3, <2>1, <2>2 DEF IInv, CouponInv, LateIsRefused, At
<1>8. CouponsAreLimited'
  BY <1>0, <1>3, <1>4 DEF IInv, CouponInv, CouponsAreLimited, CouponTypes
<1> QED
  BY <1>2, <1>3, <1>5, <1>6, <1>7, <1>8, CouponLeaves DEF CouponInv

(* markOrderFailed finds an order pending, and takes the status of what it has become. *)
LEMMA FailKept ==
  ASSUME IInv, NEW r \in Requests, MarkOrderFailed(r) \/ \E o \in Orders : ReadToFail(r, o)
  PROVE  IInv'
<1>0. CouponTypes /\ req \in [Requests -> Request] /\ NoOrder \notin Orders /\ NoRequest \in Request
  BY Types, NoRequestType DEF IInv
<1>1. ASSUME NEW o \in Orders, ReadToFail(r, o)
      PROVE  /\ req' \in [Requests -> Request] /\ \A q \in Requests \ {r} : req'[q] = req[q]
             /\ req'[r].step = "markFailed" /\ req'[r].order \in Orders
             /\ orders[req'[r].order] # "NONE"
  <2> DEFINE state == [NoRequest EXCEPT !.step = "markFailed", !.order = o]
  <2>1. state \in Request /\ state.step = "markFailed" /\ state.order = o
    BY <1>0 DEF Request, Steps
  <2>2. Goto(r, state) /\ orders[o] # "NONE"
    BY <1>1 DEF ReadToFail
  <2> HIDE DEF state
  <2> QED
    BY <1>0, <2>1, <2>2, Going
<1>2. /\ req' \in [Requests -> Request] /\ \A q \in Requests \ {r} : req'[q] = req[q]
      /\ \/ req'[r].step = "idle" /\ req'[r].order = NoOrder
         \/ /\ req'[r].step = "markFailed" /\ req'[r].order \in Orders
            /\ orders[req'[r].order] # "NONE"
  <2>1. CASE MarkOrderFailed(r)
    BY <1>0, <2>1, Ending DEF MarkOrderFailed
  <2>2. CASE \E o \in Orders : ReadToFail(r, o)
    BY <1>1, <2>2
  <2> QED
    BY <2>1, <2>2
<1>3. /\ UNCHANGED <<desk, subscriptionVars, usable, discount, redeemed, late>>
      /\ \/ UNCHANGED <<orders, overwritten>>
         \/ \E o \in Orders :
              /\ orders[o] # "NONE" /\ orders' = [orders EXCEPT ![o] = "FAILED"]
              /\ overwritten' = IF orders[o] \in Bought THEN overwritten \cup {o} ELSE overwritten
  <2>1. CASE MarkOrderFailed(r)
    <3>1. req[r].order \in Orders /\ orders[req[r].order] # "NONE"
      BY <2>1 DEF MarkOrderFailed, IInv, CouponInv, CheckingOut, At
    <3> QED
      BY <2>1, <3>1 DEF MarkOrderFailed
  <2>2. CASE \E o \in Orders : ReadToFail(r, o)
    BY <2>2 DEF ReadToFail, couponVars
  <2> QED
    BY <2>1, <2>2
<1>4. /\ orders' \in [Orders -> OrderStatus] /\ overwritten' \subseteq Orders
      /\ \A o \in Orders : orders'[o] = "NONE" <=> orders[o] = "NONE"
      /\ redeemed' = {o \in Orders : orders'[o] \in Bought} \cup overwritten'
      /\ \A o \in overwritten' : orders'[o] = "FAILED"
  <2>1. /\ redeemed = {o \in Orders : orders[o] \in Bought} \cup overwritten
        /\ \A o \in overwritten : orders[o] = "FAILED"
        /\ orders \in [Orders -> OrderStatus] /\ overwritten \subseteq Orders
    BY <1>0 DEF CouponTypes, IInv, CouponInv, CouponsAreLimited
  <2>2. CASE UNCHANGED <<orders, overwritten>>
    BY <1>3, <2>1, <2>2
  <2>3. ASSUME NEW o \in Orders, orders[o] # "NONE", orders' = [orders EXCEPT ![o] = "FAILED"],
               overwritten' = IF orders[o] \in Bought THEN overwritten \cup {o} ELSE overwritten
        PROVE  /\ orders' \in [Orders -> OrderStatus] /\ overwritten' \subseteq Orders
               /\ \A p \in Orders : orders'[p] = "NONE" <=> orders[p] = "NONE"
               /\ redeemed' = {p \in Orders : orders'[p] \in Bought} \cup overwritten'
               /\ \A p \in overwritten' : orders'[p] = "FAILED"
    <3>1. /\ orders'[o] = "FAILED" /\ \A p \in Orders \ {o} : orders'[p] = orders[p]
          /\ orders' \in [Orders -> OrderStatus] /\ "FAILED" \notin Bought /\ "NONE" \notin Bought
      BY <2>1, <2>3 DEF OrderStatus, Bought
    <3>2. CASE orders[o] \in Bought
      BY <1>3, <2>1, <2>3, <3>1, <3>2
    <3>3. CASE orders[o] \notin Bought
      BY <1>3, <2>1, <2>3, <3>1, <3>3
    <3> QED
      BY <3>2, <3>3
  <2> QED
    BY <1>3, <2>2, <2>3
<1>5. CouponTypes'
  BY <1>0, <1>3, <1>4 DEF CouponTypes
<1>6. CheckingOut'
  BY <1>0, <1>2, <1>4 DEF IInv, CouponInv, CheckingOut
<1>7. LateIsRefused'
  BY <1>2, <1>3 DEF IInv, CouponInv, LateIsRefused, At, AtLimit, AtUserLimit, Redeemed
<1>8. CouponsAreLimited'
  BY <1>0, <1>3, <1>4 DEF IInv, CouponInv, CouponsAreLimited, CouponTypes
<1> QED
  BY <1>2, <1>3, <1>5, <1>6, <1>7, <1>8, CouponLeaves DEF CouponInv

(* An order stays bought when its payment is disputed, won or refunded. *)
LEMMA CouponStepKept ==
  ASSUME IInv, CouponStep
  PROVE  IInv'
<1>0. CouponTypes /\ req \in [Requests -> Request] /\ orders \in [Orders -> OrderStatus]
  BY Types DEF IInv, CouponTypes
<1>1. /\ UNCHANGED <<desk, subscriptionVars, discount, redeemed, late, overwritten, req>>
      /\ usable' \in BOOLEAN
      /\ orders' \in [Orders -> OrderStatus]
      /\ \A o \in Orders : orders'[o] = orders[o] \/ (orders[o] \in Bought /\ orders'[o] \in Bought)
  <2>1. CASE \E active \in BOOLEAN : SetUsable(active)
    BY <1>0, <2>1 DEF SetUsable
  <2>2. CASE \E o \in Orders : DisputeOrder(o) \/ WinDispute(o) \/ RefundOrder(o)
    <3>1. PICK o \in Orders : DisputeOrder(o) \/ WinDispute(o) \/ RefundOrder(o)
      BY <2>2
    <3>2. PICK status \in Bought : orders' = [orders EXCEPT ![o] = status]
      BY <3>1 DEF DisputeOrder, WinDispute, RefundOrder, Bought
    <3>3. /\ orders[o] \in Bought
          /\ UNCHANGED <<desk, subscriptionVars, usable, discount, redeemed, late, overwritten, req>>
      BY <3>1 DEF DisputeOrder, WinDispute, RefundOrder, Bought
    <3>4. usable' \in BOOLEAN
      BY <1>0, <3>3 DEF CouponTypes
    <3> QED
      BY <1>0, <3>2, <3>3, <3>4 DEF OrderStatus
  <2> QED
    BY <2>1, <2>2 DEF CouponStep
<1>6. \A o \in Orders : /\ orders'[o] = "NONE" <=> orders[o] = "NONE"
                        /\ orders'[o] \in Bought <=> orders[o] \in Bought
                        /\ orders[o] = "FAILED" => orders'[o] = "FAILED"
  BY <1>1 DEF Bought
<1>2. CouponTypes'
  BY <1>0, <1>1 DEF CouponTypes
<1>3. CheckingOut'
  BY <1>1, <1>6 DEF IInv, CouponInv, CheckingOut
<1>4. LateIsRefused'
  BY <1>1 DEF IInv, CouponInv, LateIsRefused, At, AtLimit, AtUserLimit, Redeemed
<1>5. CouponsAreLimited'
  BY <1>0, <1>1, <1>6 DEF IInv, CouponInv, CouponsAreLimited, CouponTypes
<1> QED
  BY <1>0, <1>1, <1>2, <1>3, <1>4, <1>5, CouponLeaves DEF CouponInv

-----------------------------------------------------------------------------
(* The invariant *)

LEMMA InvariantStep == IInv /\ [Next]_vars => IInv'
<1> SUFFICES ASSUME IInv, [Next]_vars PROVE IInv'
  OBVIOUS
<1>1. CASE UNCHANGED vars
  <2>1. UNCHANGED <<desk, subscriptionVars, couponVars, req>>
    BY <1>1 DEF vars
  <2>2. CouponTypes' /\ CouponInv' /\ req' \in [Requests -> Request]
    BY <2>1, Types, CouponsAlone DEF IInv, CouponTypes, couponVars
  <2> QED
    BY <2>1, <2>2, CouponLeaves
<1>2. \/ UNCHANGED vars
      \/ Plan \/ CouponStep
      \/ \E s \in Subscriptions : StripeStep(s)
      \/ \E r \in Requests :
           \/ SetUp(r) \/ Die(r) \/ Deliver(r)
           \/ HandleEvent(r) \/ SaveAnswer(r) \/ CancelInStripe(r)
           \/ CheckOutStep(r)
  BY DEF Next, Plan, CouponStep, StripeStep, SetUp, Deliver, CheckOutStep
<1>3. CASE \E r \in Requests : CheckOutStep(r)
  BY <1>3, ReadCouponKept, CountKept, CreateKept, PayKept, FailKept DEF CheckOutStep
<1> QED
  BY <1>1, <1>2, <1>3, PlanKept, CouponStepKept, StripeStepKept, SetUpKept, DeliverKept,
     HandleKept, SaveKept, CancelKept

-----------------------------------------------------------------------------
(* Theorems *)

(* The invariant holds in every state the service can reach. *)
THEOREM Invariant == Spec => []IInv
BY InitIInv, InvariantStep, PTL DEF Spec

(* Rows, events and requests are of their types. *)
THEOREM TypeCorrect == Spec => []TypeOK
<1>1. IInv => TypeOK
  BY DEF IInv
<1> QED
  BY <1>1, Invariant, PTL

(* A subscription whose newest event was applied is what Stripe holds *)
(* (upsertSubscriptionFromStripe, markSubscriptionEnded,              *)
(* cancelSubscription), however deliveries and answers interleave.    *)
THEOREM RowsFollowStripe == Spec => []SubscriptionsAgree
<1>1. ASSUME IInv PROVE SubscriptionsAgree
  <2>1. ASSUME NEW s \in Subscriptions, Len(emitted[s]) = applied[s], s \notin overtaken
        PROVE  \/ /\ stripe[s].status \in Live
                  /\ rows[s] = [status |-> mapStripeStatus(stripe[s].status), cancelAtPeriodEnd |-> stripe[s].cancels]
               \/ stripe[s].status \in {"none", "canceled"} /\ rows[s].status \in {"NONE", "CANCELLED"}
    <3>1. /\ stripe[s] \in Held /\ rows[s] \in Row /\ emitted[s] \in Seq(Event) /\ applied[s] \in Nat
      BY <1>1, Types DEF IInv, SubscriptionTypes
    <3>2. CASE applied[s] = 0
      BY <1>1, <2>1, <3>2 DEF IInv, SubscriptionInv, EventsTellStripe, RowsTellEvents
    <3>3. CASE applied[s] > 0
      <4> DEFINE e == emitted[s][applied[s]]
      <4>1. /\ stripe[s].status # "none" /\ (e.type = "deleted" <=> stripe[s].status = "canceled")
            /\ e.status = stripe[s].status /\ e.cancels = stripe[s].cancels
        BY <1>1, <2>1, <3>3 DEF IInv, SubscriptionInv, EventsTellStripe
      <4>2. RowTells(rows[s], e, TRUE)
        BY <1>1, <2>1, <3>3 DEF IInv, SubscriptionInv, RowsTellEvents, RowTells
      <4> HIDE DEF e
      <4>3. CASE e.type = "deleted"
        BY <4>1, <4>2, <4>3 DEF RowTells
      <4>4. CASE e.type # "deleted"
        <5>1. stripe[s].status \in Live
          BY <3>1, <4>1, <4>4 DEF Held
        <5>2. /\ rows[s].status = mapStripeStatus(stripe[s].status)
              /\ rows[s].cancelAtPeriodEnd = stripe[s].cancels
          BY <4>1, <4>2, <4>4 DEF RowTells
        <5> QED
          BY <3>1, <5>1, <5>2 DEF Row
      <4> QED
        BY <4>3, <4>4
    <3> QED
      BY <3>1, <3>2, <3>3
  <2> QED
    BY <2>1 DEF SubscriptionsAgree
<1> QED
  BY <1>1, Invariant, PTL

(* The coupon is redeemed by the orders that were paid, and by none whose checkout *)
(* began at a limit (validateCoupon, markOrderPaid), for any limits.               *)
THEOREM CouponsStayLimited == Spec => []CouponsAreLimited
<1>1. IInv => CouponsAreLimited
  BY DEF IInv, CouponInv
<1> QED
  BY <1>1, Invariant, PTL
=============================================================================
