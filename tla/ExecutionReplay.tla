---------------------------- MODULE ExecutionReplay ----------------------------
(***************************************************************************)
(* The execution reducer: replay() of collector/app/execution.py, the sole *)
(* calculator of the order sandbox.                                        *)
(*                                                                         *)
(* The reducer folds a journal of commands.  An account (cash, shares,     *)
(* reservations, cost) and a simulated broker live side by side: fills,    *)
(* cancellations and rejections change only the broker, and a RECONCILE,   *)
(* REVERSE or DUPLICATE command delivers the broker's events to the        *)
(* account, in order, backwards or twice.  A ValueError anywhere, or a     *)
(* failed conservation check at the end, refuses the newest command: the   *)
(* service does not store it and the state before it stays.                *)
(*                                                                         *)
(* Replaying the stored journal and one more command is modelled as one    *)
(* command on the state the journal left.  Commands are atomic except the  *)
(* three that deliver events: their loop is one step per event, on the     *)
(* working copy "state", while "stored" keeps what a refusal returns to.   *)
(*                                                                         *)
(* Money is counted in quanta of 1e-8 (the precision of money()) and       *)
(* quantities in lots of 0.0001 share, so every amount is an integer.  A   *)
(* lot costs LotPrice quanta, its fee is FeeNum / FeeDen quanta before     *)
(* rounding, the position limit is the fraction WNum / WDen of equity.     *)
(***************************************************************************)
EXTENDS Integers, Sequences, FiniteSets

CONSTANTS OrderKeys,        \* command keys that name orders
          NoOrder,          \* "no order is being reconciled"
          InitialCapital,   \* quanta
          LotPrice,         \* quanta per lot
          FeeNum, FeeDen,   \* fee of one lot, a fraction of a quantum
          MaxOrderValue,    \* quanta
          WNum, WDen,       \* maxPositionWeight
          OrderLots,        \* quantities a BUY, SELL or STALE_BUY may carry
          FillLots          \* quantities a PARTIAL_FILL may carry

\* What replay() demands of a configuration before it reads a command: a
\* capital of at least 1 (a lot is a hundredth), at most 100 basis points.
ASSUME ConfigAssumption ==
    /\ NoOrder \notin OrderKeys
    /\ LotPrice \in Nat \ {0}
    /\ InitialCapital \in Nat /\ InitialCapital >= 100 * LotPrice
    /\ FeeNum \in Nat /\ FeeDen \in Nat \ {0}
    /\ FeeNum * 100 <= LotPrice * FeeDen
    /\ MaxOrderValue \in 1..InitialCapital
    /\ WNum \in Nat \ {0} /\ WDen \in Nat \ {0} /\ WNum <= WDen
    /\ OrderLots \subseteq Nat \ {0}
    /\ FillLots \subseteq Nat \ {0}

VARIABLES state,      \* the reducer's working state
          stored,     \* the state the journal of accepted commands gives
          seen,       \* order keys that accepted commands have used
          delivery,   \* the broker events a reconciliation has yet to deliver
          refusal     \* why the newest command was refused, or "none"

vars == <<state, stored, seen, delivery, refusal>>

-----------------------------------------------------------------------------
(* Orders, broker orders, events.                                          *)

Sides     == {"BUY", "SELL"}
TERMINAL  == {"FILLED", "CANCELLED", "REJECTED"}
Statuses  == TERMINAL \cup {"NONE", "SUBMITTING", "UNKNOWN", "ACCEPTED", "PARTIALLY_FILLED"}
OrderOps  == {"BUY", "SELL", "STRATEGY_BUY", "STALE_BUY"}
BrokerOps == {"PARTIAL_FILL", "FILL", "CANCEL", "REJECT"}
MirrorOps == {"RECONCILE", "REVERSE", "DUPLICATE"}
Ops       == OrderOps \cup BrokerOps \cup MirrorOps \cup {"DISPATCH", "TIMEOUT", "STOP"}
Causes    == {"none", "badCommand", "afterTerminal", "overfill",
              "unbalancedCommand", "unbalancedDelivery"}

\* "total" is the broker's filled quantity after the event.  The code keeps no
\* such field and no action reads it: it lets the properties relate an order
\* to a prefix of its events without summing them.
Event  == [kind : {"ACK", "FILL", "CANCELLED", "REJECTED"}, lots : Nat, total : Nat]
Order  == [side : Sides, quantity : Nat, filled : Nat, status : Statuses, sequence : Nat]
Broker == [status : Statuses, filled : Nat, events : Seq(Event)]

\* "NONE" is the status of an order, or a broker order, that does not exist.
NoOrderYet  == [side |-> "BUY", quantity |-> 0, filled |-> 0, status |-> "NONE", sequence |-> 0]
NoBrokerYet == [status |-> "NONE", filled |-> 0, events |-> <<>>]

Ack         == [kind |-> "ACK", lots |-> 0, total |-> 0]

Exists(r)    == r.status # "NONE"
Open(order)  == Exists(order) /\ order.status \notin TERMINAL
SideOf(op)   == IF op = "SELL" THEN "SELL" ELSE "BUY"

NoDelivery == [op |-> "NONE", order |-> NoOrder, left |-> <<>>]
Idle       == delivery = NoDelivery

-----------------------------------------------------------------------------
(* Money.                                                                  *)

RoundHalfUp(n, d) == (2 * n + d) \div (2 * d)
Fee(lots)         == RoundHalfUp(lots * FeeNum, FeeDen)
Required(lots)    == lots * LotPrice + Fee(lots)
Reserve(order)    == Required(order.quantity - order.filled)
Value(st)         == st.cash + st.shares * LotPrice
Available(st)     == st.cash - st.reservedCash

\* (Mutated form, for the runs' mutants: the average cost is rounded first.)
RemovedAverageCost(st, lots) == lots * RoundHalfUp(st.costBasis, st.shares)

\* The part of the cost basis that a sale of lots removes, the product kept
\* within the width of TLC's integers.
RemovedCost(st, lots) ==
    IF lots = st.shares
    THEN st.costBasis
    ELSE (st.costBasis \div st.shares) * lots
            + RoundHalfUp((st.costBasis % st.shares) * lots, st.shares)

LowerOf(a, b) == IF a <= b THEN a ELSE b

\* STRATEGY_BUY's own quantity: the shortfall from the target weight, the
\* order limit and the free cash, each a whole number of lots.
StrategyLots(st) ==
    LET gap    == Value(st) * WNum - st.shares * LotPrice * WDen
        target == (gap * FeeDen) \div (LotPrice * WDen * FeeDen + WNum * FeeNum)
        cash   == (Available(st) * FeeDen) \div (LotPrice * FeeDen + FeeNum)
        budget == LowerOf(MaxOrderValue \div LotPrice, LowerOf(target, cash))
    IN  IF budget < 0 THEN 0 ELSE budget

-----------------------------------------------------------------------------
(* Commands.                                                               *)

InitialState ==
    [cash |-> InitialCapital, reservedCash |-> 0, shares |-> 0, reservedShares |-> 0,
     costBasis |-> 0, realizedPnl |-> 0, fees |-> 0, stopped |-> FALSE, reentryBlocked |-> FALSE,
     orders |-> [k \in OrderKeys |-> NoOrderYet],
     broker |-> [k \in OrderKeys |-> NoBrokerYet],
     pending |-> {}, applied |-> {}]

Init ==
    /\ state = InitialState
    /\ stored = InitialState
    /\ seen = {}
    /\ delivery = NoDelivery
    /\ refusal = "none"

\* The checks at the end of replay().
Conserved(st) ==
    /\ 0 <= st.cash /\ 0 <= st.reservedCash /\ st.reservedCash <= st.cash
    /\ 0 <= st.reservedShares /\ st.reservedShares <= st.shares
    /\ Value(st) = InitialCapital + st.realizedPnl + (st.shares * LotPrice - st.costBasis)

Refuse(cause) ==
    /\ state' = stored
    /\ refusal' = cause
    /\ delivery' = NoDelivery
    /\ UNCHANGED <<stored, seen>>

\* A command that ends in state st, having used the key (keys) it came with.
Finish(st, keys) ==
    IF Conserved(st)
    THEN /\ state' = st
         /\ stored' = st
         /\ refusal' = "none"
         /\ delivery' = NoDelivery
         /\ seen' = seen \cup keys
    ELSE Refuse(IF Idle THEN "unbalancedCommand" ELSE "unbalancedDelivery")

Stop ==
    /\ Idle
    /\ Finish([state EXCEPT !.stopped = TRUE], {})

\* (Mutated form: only a plain BUY is refused after liquidation.)
AdmissibleStrategyReentry(op, lots) ==
    /\ lots > 0 /\ ~state.stopped /\ op # "STALE_BUY"
    /\ \A k \in OrderKeys : ~Open(state.orders[k])
    /\ lots * LotPrice <= MaxOrderValue
    /\ op = "BUY" => ~state.reentryBlocked
    /\ SideOf(op) = "BUY" => Required(lots) <= Available(state)
    /\ SideOf(op) = "SELL" => lots <= state.shares - state.reservedShares

\* The checks that let an order through to the broker.
Admissible(op, lots) ==
    /\ lots > 0
    /\ ~state.stopped
    /\ op # "STALE_BUY"
    /\ \A k \in OrderKeys : ~Open(state.orders[k])
    /\ lots * LotPrice <= MaxOrderValue
    /\ SideOf(op) = "BUY" =>
         /\ ~state.reentryBlocked
         /\ Required(lots) <= Available(state)
         /\ (state.shares + lots) * LotPrice * WDen <= (Value(state) - Fee(lots)) * WNum
    /\ SideOf(op) = "SELL" => lots <= state.shares - state.reservedShares

NewOrder(op, lots) ==
    [side |-> SideOf(op), quantity |-> lots, filled |-> 0, status |-> "SUBMITTING", sequence |-> 0]

\* An order command that passes the checks records the intent and reserves.
Intend(op, k, lots) ==
    /\ Idle /\ k \notin seen
    /\ Admissible(op, lots)
    /\ Finish([state EXCEPT !.orders[k] = NewOrder(op, lots),
                                !.reservedCash = IF SideOf(op) = "BUY" THEN @ + Required(lots) ELSE @,
                                !.reservedShares = IF SideOf(op) = "SELL" THEN @ + lots ELSE @],
              {k})

\* One that does not is stored too: it only writes a BLOCKED line of the log.
Block(op, k, lots) ==
    /\ Idle /\ k \notin seen
    /\ ~Admissible(op, lots)
    /\ Finish(state, {k})

PlaceOrder(op, k, lots) == Intend(op, k, lots) \/ Block(op, k, lots)

\* The same command under a key already used is skipped.
Repeat(op, k) ==
    /\ Idle /\ k \in seen
    /\ Finish(state, {})

\* (Mutated form: submitting again replaces the broker order.)
DispatchAnew(k) ==
    /\ Idle /\ Exists(state.orders[k])
    /\ Finish([state EXCEPT !.broker[k] =
                  [status |-> "ACCEPTED", filled |-> 0,
                   events |-> <<Ack>>]],
              {})

\* Submitting twice reaches the one broker order that exists.
Dispatch(k) ==
    /\ Idle /\ Exists(state.orders[k])
    /\ Finish(IF Exists(state.broker[k])
              THEN state
              ELSE [state EXCEPT !.broker[k] =
                       [status |-> "ACCEPTED", filled |-> 0,
                        events |-> <<Ack>>]],
              {})

\* (Mutated form: a timeout reopens an order that has ended.)
TimeoutAny(k) ==
    /\ Idle /\ Exists(state.orders[k])
    /\ Finish([state EXCEPT !.orders[k].status = "UNKNOWN"], {})

\* A lost answer leaves an open order UNKNOWN, and its reserve in place.
Timeout(k) ==
    /\ Idle /\ Exists(state.orders[k])
    /\ Finish([state EXCEPT !.orders[k].status = IF @ \in TERMINAL THEN @ ELSE "UNKNOWN"],
              {})

\* (Mutated form: the broker order need not be open.)
WorkingAny(k) == Exists(state.broker[k])

Working(k) == Exists(state.broker[k]) /\ state.broker[k].status \notin TERMINAL
Remaining(k) == state.orders[k].quantity - state.broker[k].filled

BrokerFill(op, k, lots) ==
    LET b == state.broker[k] IN
    /\ Idle /\ Working(k)
    /\ op \in {"PARTIAL_FILL", "FILL"}
    /\ lots \in 1..Remaining(k)
    /\ op = "FILL" => lots = Remaining(k)
    /\ Finish([state EXCEPT !.broker[k] =
                  [status |-> IF lots = Remaining(k) THEN "FILLED" ELSE "PARTIALLY_FILLED",
                   filled |-> b.filled + lots,
                   events |-> Append(b.events, [kind |-> "FILL", lots |-> lots, total |-> b.filled + lots])]],
              {})

\* (Mutated form: the command's name is taken for the status.)
ClosedAsCommand(op) == op

ClosedAs(op) == IF op = "CANCEL" THEN "CANCELLED" ELSE "REJECTED"

BrokerClose(op, k) ==
    LET kind == ClosedAs(op) IN
    /\ Idle /\ Working(k)
    /\ op \in {"CANCEL", "REJECT"}
    /\ op = "REJECT" => state.broker[k].filled = 0
    /\ Finish([state EXCEPT !.broker[k].status = kind,
                                !.broker[k].events = Append(@, [kind |-> kind, lots |-> 0,
                                                                     total |-> state.broker[k].filled])],
              {})

\* The commands that raise before they change anything.
BadCommand(op, k) ==
    /\ Idle
    /\ \/ op \in Ops /\ k \in seen                            \* the key of another command
       \/ op \in Ops \ (OrderOps \cup {"STOP"}) /\ ~Exists(state.orders[k])
       \/ op \in BrokerOps /\ Exists(state.orders[k]) /\ ~Working(k)
       \/ op = "PARTIAL_FILL" /\ Working(k)                   \* a quantity above the remainder
       \/ op = "REJECT" /\ state.broker[k].filled > 0
    /\ Refuse("badCommand")

-----------------------------------------------------------------------------
(* Delivery of broker events.                                              *)

Forward(n) == [i \in 1..n |-> i]

\* (Mutated form: the newest event is left out.)
DeliveryButLast(op, n) == Forward(n - 1)

Delivery(op, n) ==
    CASE op = "RECONCILE" -> Forward(n)
      [] op = "REVERSE"   -> [i \in 1..n |-> n + 1 - i]
      [] op = "DUPLICATE" -> Forward(n) \o Forward(n)

StartDelivery(op, k) ==
    /\ Idle
    /\ Exists(state.orders[k]) /\ Exists(state.broker[k])
    /\ delivery' = [op |-> op, order |-> k, left |-> Delivery(op, Len(state.broker[k].events))]
    /\ UNCHANGED <<state, stored, seen, refusal>>

\* Without a broker order the command only notes that none was found.
NotFound(op, k) ==
    /\ Idle
    /\ Exists(state.orders[k]) /\ ~Exists(state.broker[k])
    /\ Finish(state, {})

Mirror(op, k) == StartDelivery(op, k) \/ NotFound(op, k)

NextId(k)  == <<k, state.orders[k].sequence + 1>>
Ready(k)  == NextId(k) \in state.pending

\* deliver() up to its loop: an event applied before is dropped, any other
\* waits in pending until the events before it have been applied.
Receive ==
    LET k == delivery.order
        e == <<k, Head(delivery.left)>>
    IN  /\ ~Idle /\ delivery.left # <<>> /\ ~Ready(k)
        /\ delivery' = [delivery EXCEPT !.left = Tail(@)]
        /\ state' = IF e \in state.applied
                    THEN state
                    ELSE [state EXCEPT !.pending = @ \cup {e}]
        /\ UNCHANGED <<stored, seen, refusal>>

AfterFill(order, lots) ==
    [order EXCEPT !.filled = @ + lots,
                  !.status = IF order.filled + lots = order.quantity
                             THEN "FILLED" ELSE "PARTIALLY_FILLED",
                  !.sequence = @ + 1]

\* (Mutated form: the reserve is released by the rounded cost of each fill.)
FillBuyByCost(st, k, lots) ==
    [st EXCEPT !.cash = @ - Required(lots), !.reservedCash = @ - Required(lots),
               !.shares = @ + lots, !.costBasis = @ + Required(lots),
               !.fees = @ + Fee(lots), !.orders[k] = AfterFill(@, lots)]

FillBuy(st, k, lots) ==
    LET before == st.orders[k]
        after  == AfterFill(before, lots)
    IN  [st EXCEPT !.cash = @ - Required(lots),
                   !.reservedCash = @ + Reserve(after) - Reserve(before),
                   !.shares = @ + lots,
                   !.costBasis = @ + Required(lots),
                   !.fees = @ + Fee(lots),
                   !.orders[k] = after]

FillSell(st, k, lots) ==
    LET proceeds == lots * LotPrice - Fee(lots)
        removed  == RemovedCost(st, lots)
    IN  [st EXCEPT !.cash = @ + proceeds,
                   !.shares = @ - lots,
                   !.reservedShares = @ - lots,
                   !.costBasis = @ - removed,
                   !.realizedPnl = @ + proceeds - removed,
                   !.reentryBlocked = @ \/ st.shares = lots,
                   !.fees = @ + Fee(lots),
                   !.orders[k] = AfterFill(@, lots)]

Release(st, k, kind) ==
    LET o == st.orders[k]
    IN  [st EXCEPT !.reservedCash = IF o.side = "BUY" THEN @ - Reserve(o) ELSE @,
                   !.reservedShares = IF o.side = "SELL" THEN @ - (o.quantity - o.filled) ELSE @,
                   !.orders[k].status = kind,
                   !.orders[k].sequence = @ + 1]

\* The state an event leaves, before the bookkeeping common to all kinds.
AfterEvent(st, k, event) ==
    CASE event.kind = "FILL" /\ st.orders[k].side = "BUY"  -> FillBuy(st, k, event.lots)
      [] event.kind = "FILL" /\ st.orders[k].side = "SELL" -> FillSell(st, k, event.lots)
      [] event.kind = "ACK" -> [st EXCEPT !.orders[k].status = "ACCEPTED",
                                          !.orders[k].sequence = @ + 1]
      [] OTHER -> Release(st, k, event.kind)

NextEvent(k) == state.broker[k].events[state.orders[k].sequence + 1]

Overfills(k) ==
    /\ NextEvent(k).kind = "FILL"
    /\ \/ NextEvent(k).lots <= 0
       \/ state.orders[k].filled + NextEvent(k).lots > state.orders[k].quantity

\* One turn of deliver()'s loop: the next event in sequence takes effect, or
\* raises when the order is over or would be filled beyond its quantity.
Apply ==
    LET k    == delivery.order
        next == AfterEvent(state, k, NextEvent(k))
    IN  /\ ~Idle /\ Ready(k)
        /\ IF state.orders[k].status \in TERMINAL
           THEN Refuse("afterTerminal")
           ELSE IF Overfills(k)
           THEN Refuse("overfill")
           ELSE /\ state' = [next EXCEPT !.pending = @ \ {NextId(k)},
                                         !.applied = @ \cup {NextId(k)}]
                /\ UNCHANGED <<stored, seen, delivery, refusal>>

Settled == [state EXCEPT !.orders[delivery.order].status = state.broker[delivery.order].status]

\* Everything is delivered: the order takes the broker's status, and the
\* result is checked before anyone sees it.
Settle ==
    /\ ~Idle /\ delivery.left = <<>> /\ ~Ready(delivery.order)
    /\ Finish(Settled, {})

Deliver == Receive \/ Apply \/ Settle

-----------------------------------------------------------------------------

Command(k) ==
    \/ \E op \in {"BUY", "SELL", "STALE_BUY"}, lots \in OrderLots : PlaceOrder(op, k, lots)
    \/ PlaceOrder("STRATEGY_BUY", k, StrategyLots(state))
    \/ \E op \in OrderOps : Repeat(op, k)
    \/ Dispatch(k)
    \/ Timeout(k)
    \/ \E lots \in FillLots : BrokerFill("PARTIAL_FILL", k, lots)
    \/ BrokerFill("FILL", k, Remaining(k))
    \/ \E op \in {"CANCEL", "REJECT"} : BrokerClose(op, k)
    \/ \E op \in MirrorOps : Mirror(op, k)
    \/ \E op \in Ops : BadCommand(op, k)

Next == Stop \/ Deliver \/ \E k \in OrderKeys : Command(k)

Spec == Init /\ [][Next]_vars

-----------------------------------------------------------------------------
(* Properties.                                                             *)

\* The values the variables take.  Events are numbered from 1, as in their ids.
AccountType ==
    [cash : Int, reservedCash : Int, shares : Int, reservedShares : Int,
     costBasis : Int, realizedPnl : Int, fees : Nat, stopped : BOOLEAN, reentryBlocked : BOOLEAN,
     orders : [OrderKeys -> Order], broker : [OrderKeys -> Broker],
     pending : SUBSET (OrderKeys \X (Nat \ {0})), applied : SUBSET (OrderKeys \X (Nat \ {0}))]

TypeOK ==
    /\ state \in AccountType
    /\ stored \in AccountType
    /\ seen \subseteq OrderKeys
    /\ delivery \in [op : MirrorOps \cup {"NONE"}, order : OrderKeys \cup {NoOrder},
                     left : Seq(Nat \ {0})]
    /\ refusal \in Causes

\* At most one order is open, in the middle of a delivery too, whatever
\* timeouts, late events and re-submissions its history has.
OneOpen(st) ==
    \A j, k \in OrderKeys : Open(st.orders[j]) /\ Open(st.orders[k]) => j = k

OneOpenOrder == OneOpen(state)

\* What is reserved is what the open order may still take: nothing leaks from
\* partial fills, cancellations or rounding, and UNKNOWN keeps its reserve.
Reserved(st) ==
    /\ \A k \in OrderKeys : Open(st.orders[k]) =>
          LET o == st.orders[k] IN
          /\ st.reservedCash = (IF o.side = "BUY" THEN Reserve(o) ELSE 0)
          /\ st.reservedShares = (IF o.side = "SELL" THEN o.quantity - o.filled ELSE 0)
    /\ (\A k \in OrderKeys : ~Open(st.orders[k])) =>
          st.reservedCash = 0 /\ st.reservedShares = 0

ReservationsMatch == Reserved(state)

\* Selling everything is final in a run: no share is held afterwards, and no
\* buy order is left that a late fill could turn into shares.
Liquidated(st) ==
    st.reentryBlocked =>
        /\ st.shares = 0
        /\ \A k \in OrderKeys : Open(st.orders[k]) => st.orders[k].side = "SELL"

LiquidationIsFinal == Liquidated(state)

\* The account never runs ahead of the broker: it has applied each event up
\* to the order's sequence number once and none after it, its fills are the
\* broker's up to there, and an order it holds for finished is finished at the
\* broker with every event applied.
Follows(o, b) ==
    /\ o.sequence <= Len(b.events)
    /\ o.filled = (IF o.sequence = 0 THEN 0 ELSE b.events[o.sequence].total)
    /\ o.filled <= b.filled /\ b.filled <= o.quantity
    /\ o.status \in TERMINAL =>
          b.status = o.status /\ o.sequence = Len(b.events) /\ o.filled = b.filled

AccountFollowsBroker ==
    \A k \in OrderKeys :
        /\ Follows(state.orders[k], state.broker[k])
        /\ \A i \in 1..Len(state.broker[k].events) :
              <<k, i>> \in state.applied <=> i <= state.orders[k].sequence

\* The errors deliver() guards against cannot occur: no event follows the end
\* of an order and no fill exceeds it, and the final checks refuse nothing
\* that the checks of a new order let through.
OnlyDeliveryBreaksChecks ==
    refusal \notin {"afterTerminal", "overfill", "unbalancedCommand"}

\* A position of no shares has no cost, so profit is then all realised.
Costed(st) ==
    /\ st.shares >= 0 /\ st.costBasis >= 0
    /\ st.shares = 0 => st.costBasis = 0

FlatMeansNoCost == Costed(state)

\* "UNKNOWN is recovered by reconciliation" (docs/adr/0003): a reconciliation
\* of an order the broker knows is never refused.
ReconcileRecovers == refusal # "unbalancedDelivery"

\* The account, seen through what the journal stores, mirrors the broker.
MirrorSide(o) ==
    IF ~Exists(o) THEN 0 ELSE IF o.side = "BUY" THEN 1 ELSE -1

Mirrored == INSTANCE BrokerMirror WITH
    Orders   <- OrderKeys,
    side     <- [k \in OrderKeys |-> MirrorSide(stored.orders[k])],
    sent     <- [k \in OrderKeys |-> stored.broker[k].events],
    mirrored <- [k \in OrderKeys |-> stored.orders[k].sequence],
    holding  <- stored.shares

\* The stored account implements BrokerMirror: refused commands stutter, and
\* reversed or duplicated deliveries reflect what one in order would.
MirrorsBroker == Mirrored!Mirroring

=============================================================================
