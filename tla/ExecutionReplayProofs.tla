------------------------ MODULE ExecutionReplayProofs ------------------------
(***************************************************************************)
(* What ExecutionReplay promises, proved for every capital, price, fee     *)
(* rate, order limit and any number of orders.                             *)
(*                                                                         *)
(* The argument: an order is a prefix of its broker order's log (OrderOK), *)
(* the log itself is in order and ends once (LogOK), and an account is     *)
(* right when its orders are and its amounts balance (AccountOK).  A       *)
(* delivery adds DeliveryOK: each event of the order has been applied,     *)
(* waits in pending or is still to come, so that when nothing is left to   *)
(* come everything has been applied.  IInv is the conjunction; each        *)
(* command and each step of a delivery keeps it (Invariance), and the      *)
(* properties of ExecutionReplay follow.                                   *)
(*                                                                         *)
(* The last part proves that the reducer implements BrokerMirror.  The     *)
(* shares of the abstract account are a fold over its orders and their     *)
(* logs, so sums over finite sets come first: the fold does not depend on  *)
(* which member it takes next (SumTakes), and a log adds up to its last    *)
(* total (FilledIsTotal).  MInv relates the working account to the stored  *)
(* one and both to what their orders have traded; each command is then a   *)
(* step of BrokerMirror or shows nothing (StepMirrors).                    *)
(***************************************************************************)
EXTENDS ExecutionReplay, FiniteSetTheorems, TLAPS

\* Rounding half up gives a natural number.
LEMMA RoundingIsNatural ==
    ASSUME NEW n \in Nat, NEW d \in Nat \ {0}
    PROVE  RoundHalfUp(n, d) \in Nat
  <1>1. 2 * d \in Nat \ {0} /\ 2 * n + d \in Nat
    OBVIOUS
  <1>2. \A a \in Nat, b \in Nat \ {0} : a \div b \in Nat
    OBVIOUS
  <1> QED BY <1>1, <1>2 DEF RoundHalfUp

\* Nothing rounds to nothing.
LEMMA RoundingZero ==
    ASSUME NEW d \in Nat \ {0}
    PROVE  RoundHalfUp(0, d) = 0
  <1>1. \A a, b \in Nat : a < b => a \div b = 0
    OBVIOUS
  <1> QED BY <1>1 DEF RoundHalfUp

\* A share of an amount, rounded, is not more than the amount.
LEMMA RoundingBounded ==
    ASSUME NEW r \in Nat, NEW l \in Nat, NEW s \in Nat \ {0}, l < s, r < s
    PROVE  RoundHalfUp(r * l, s) <= r
  <1>1. r * l \in Nat /\ 2 * (r * l) + s \in Nat /\ 2 * s \in Nat \ {0} 
    OBVIOUS
  <1>2. \A a \in Nat, b \in Nat \ {0} : a \div b \in Nat /\ b * (a \div b) <= a
    OBVIOUS
  <1> DEFINE q == (2 * (r * l) + s) \div (2 * s)
  <1>3. q \in Nat /\ (2 * s) * q <= 2 * (r * l) + s
    BY <1>1, <1>2
  <1>4. r * l <= r * s 
    OBVIOUS
  <1>5. SUFFICES ASSUME q >= r + 1 PROVE FALSE
    BY <1>3 DEF RoundHalfUp
  <1>6. (2 * s) * q >= (2 * s) * (r + 1)
    BY <1>3, <1>5
  <1>7. (2 * s) * (r + 1) = 2 * (r * s) + 2 * s
    OBVIOUS
  <1> QED BY <1>1, <1>3, <1>4, <1>6, <1>7

\* A fee, as rounded by money(), is a natural number of quanta.
LEMMA FeeIsNatural ==
    ASSUME NEW lots \in Nat
    PROVE  Fee(lots) \in Nat
  <1>1. lots * FeeNum \in Nat
    BY ConfigAssumption
  <1> QED BY <1>1, ConfigAssumption, RoundingIsNatural DEF Fee

\* So is the difference between the price of a sale and its fee.
LEMMA ProceedsAreInteger ==
    ASSUME NEW lots \in Nat
    PROVE  lots * LotPrice - Fee(lots) \in Int
  <1>1. lots * LotPrice \in Nat
    BY ConfigAssumption
  <1> QED BY <1>1, FeeIsNatural

\* An order with nothing left to fill needs no reserve.
LEMMA ReserveOfNothing == Required(0) = 0
  <1>1. 0 * FeeNum = 0 /\ 0 * LotPrice = 0
    BY ConfigAssumption
  <1> QED BY <1>1, ConfigAssumption, RoundingZero DEF Required, Fee

\* What a quantity costs, fee included, is a natural number of quanta.
LEMMA RequiredIsNatural ==
    ASSUME NEW lots \in Nat
    PROVE  Required(lots) \in Nat
  <1>1. lots * LotPrice \in Nat
    BY ConfigAssumption
  <1> QED BY <1>1, FeeIsNatural DEF Required

\* A fee that needs no rounding is the same for a quantity as for its parts.
LEMMA ExactFees ==
    ASSUME FeeDen = 1, NEW a \in Nat, NEW b \in Nat
    PROVE  /\ Required(a + b) = Required(a) + Required(b)
           /\ a * LotPrice - Fee(a) >= 0
  <1>1. \A n \in Nat : (2 * n + 1) \div 2 = n
    OBVIOUS
  <1>2. LotPrice \in Nat /\ FeeNum \in Nat /\ FeeNum <= LotPrice
    BY ConfigAssumption
  <1>3. \A lots \in Nat : lots * FeeNum \in Nat /\ lots * LotPrice \in Nat
    BY <1>2
  <1>4. \A lots \in Nat : Fee(lots) = lots * FeeNum
    BY <1>1, <1>3 DEF Fee, RoundHalfUp
  <1>5. \A lots \in Nat : Required(lots) = lots * LotPrice + lots * FeeNum
    BY <1>4 DEF Required
  <1>6. (a + b) * LotPrice = a * LotPrice + b * LotPrice /\ (a + b) * FeeNum = a * FeeNum + b * FeeNum
    BY <1>2
  <1>7. a * FeeNum <= a * LotPrice
    BY <1>2
  <1> QED
    BY <1>3, <1>4, <1>5, <1>6, <1>7

\* A sale removes a part of the cost basis, never more than all of it.
LEMMA RemovedCostBounded ==
    ASSUME NEW st, st.shares \in Nat \ {0}, st.costBasis \in Nat,
           NEW lots \in Nat, lots <= st.shares
    PROVE  RemovedCost(st, lots) \in Nat /\ RemovedCost(st, lots) <= st.costBasis
  <1> DEFINE c == st.costBasis
             s == st.shares
             q == c \div s
             r == c % s
  <1>1. CASE lots = s
    BY <1>1 DEF RemovedCost
  <1>2. CASE lots # s
    <2>1. lots < s
      BY <1>2
    <2>2. q \in Nat /\ r \in Nat /\ r < s /\ c = s * q + r
      <3> HIDE DEF c, s
      <3>1. \A a \in Nat, b \in Nat \ {0} : 
              /\ a \div b \in Nat /\ a % b \in Nat /\ a % b < b
              /\ a = b * (a \div b) + (a % b)
        OBVIOUS
      <3>2. c \in Nat /\ s \in Nat \ {0}
        BY DEF c, s
      <3> QED BY <3>1, <3>2
    <2> HIDE DEF q, r
    <2>3. r * lots \in Nat /\ q * lots \in Nat /\ q * lots <= s * q
      BY <2>1, <2>2
    <2>4. RoundHalfUp(r * lots, s) \in Nat /\ RoundHalfUp(r * lots, s) <= r
      BY <2>1, <2>2, <2>3, RoundingIsNatural, RoundingBounded
    <2>5. RemovedCost(st, lots) = q * lots + RoundHalfUp(r * lots, s)
      BY <1>2 DEF RemovedCost, q, r
    <2> QED BY <2>2, <2>3, <2>4, <2>5
  <1> QED BY <1>1, <1>2

-----------------------------------------------------------------------------
(* The inductive invariant.                                                *)

\* The broker's log of an order of this quantity: running totals, one end.
LogOK(b, quantity) ==
    /\ b.status = "NONE" <=> Len(b.events) = 0
    /\ b.status \in TERMINAL \cup {"NONE", "ACCEPTED", "PARTIALLY_FILLED"}
    /\ Len(b.events) = 0 => b.filled = 0
    /\ Len(b.events) > 0 => b.events[Len(b.events)].total = b.filled
    /\ b.filled <= quantity
    /\ Exists(b) => (b.status = "FILLED" <=> b.filled = quantity)
    /\ b.status \in {"CANCELLED", "REJECTED"} => b.events[Len(b.events)].kind = b.status
    /\ \A i \in 1..Len(b.events) :
          LET e == b.events[i] IN
          /\ e.total = (IF i = 1 THEN 0 ELSE b.events[i - 1].total) + e.lots
          /\ e.total <= b.filled
          /\ e.kind = "FILL" <=> e.lots > 0
          /\ e.kind \in {"CANCELLED", "REJECTED"} => i = Len(b.events) /\ b.status = e.kind
          /\ i < Len(b.events) => e.total < quantity

OrderOK(o, b) ==
    /\ ~Exists(o) => o.sequence = 0 /\ ~Exists(b)
    /\ Exists(o) => o.quantity > 0
    /\ Follows(o, b)
    /\ Exists(b) /\ o.sequence = Len(b.events) /\ b.status \in TERMINAL => o.status \in TERMINAL
    /\ LogOK(b, o.quantity)

Holdings(st) == 0 <= st.reservedShares /\ st.reservedShares <= st.shares

Balanced(st) == st.cash + st.costBasis = InitialCapital + st.realizedPnl

\* With a fee that needs no rounding, the reserve of the open order pays for
\* every way its fills may be split.
Funded(st) == FeeDen = 1 => 0 <= st.reservedCash /\ st.reservedCash <= st.cash

AppliedPrefix(st) ==
    /\ \A k \in OrderKeys : \A i \in 1..st.orders[k].sequence : <<k, i>> \in st.applied
    /\ \A p \in st.applied : p[2] <= st.orders[p[1]].sequence

AccountOK(st) ==
    /\ st \in AccountType
    /\ \A k \in OrderKeys : OrderOK(st.orders[k], st.broker[k])
    /\ OneOpen(st)
    /\ Reserved(st)
    /\ Liquidated(st)
    /\ Holdings(st)
    /\ Costed(st)
    /\ Balanced(st)
    /\ Funded(st)
    /\ AppliedPrefix(st)

\* In the middle of a delivery every event of the order has been applied, waits
\* in pending, or is still to come.
DeliveryOK ==
    LET k == delivery.order
        n == Len(state.broker[k].events)
    IN  /\ delivery \in [op : MirrorOps, order : OrderKeys, left : Seq(1..n)]
        /\ Exists(state.orders[k]) /\ Exists(state.broker[k])
        /\ \A p \in state.pending : p[1] = k /\ p[2] \in state.orders[k].sequence + 1 .. n
        /\ \A i \in 1..n : \/ i <= state.orders[k].sequence
                           \/ <<k, i>> \in state.pending
                           \/ \E j \in 1..Len(delivery.left) : delivery.left[j] = i

IInv ==
    /\ AccountOK(state)
    /\ AccountOK(stored)
    /\ Conserved(stored)
    /\ stored.pending = {}
    /\ seen \subseteq OrderKeys
    /\ \A k \in OrderKeys : Exists(state.orders[k]) \/ Exists(stored.orders[k]) => k \in seen
    /\ refusal \in Causes
    /\ OnlyDeliveryBreaksChecks
    /\ FeeDen = 1 => ReconcileRecovers
    /\ Idle => state = stored
    /\ ~Idle => DeliveryOK

-----------------------------------------------------------------------------
(* One order and its events.                                               *)

\* The event after those an order has seen finds the order open, and its
\* running total is what the order will have filled.
LEMMA NextEventOfOrder ==
    ASSUME NEW o \in Order, NEW b \in Broker, OrderOK(o, b), Exists(o),
           o.sequence < Len(b.events), NEW e, e = b.events[o.sequence + 1]
    PROVE  /\ e \in Event
           /\ o.status \notin TERMINAL
           /\ e.total = o.filled + e.lots
           /\ e.total <= b.filled
           /\ o.sequence + 1 \in 1..Len(b.events)
  <1>1. b.events \in Seq(Event) /\ Len(b.events) \in Nat /\ o.sequence \in Nat
    BY DEF Order, Broker
  <1>2. o.sequence + 1 \in 1..Len(b.events)
    BY <1>1
  <1>3. e \in Event
    BY <1>1, <1>2
  <1>4. e.total = o.filled + e.lots /\ e.total <= b.filled
    BY <1>1, <1>2 DEF OrderOK, LogOK, Follows
  <1>5. o.status \notin TERMINAL
    BY <1>1 DEF OrderOK, Follows
  <1> QED BY <1>2, <1>3, <1>4, <1>5

\* A fill leaves the order right, and within its quantity.
LEMMA FillKeepsOrder ==
    ASSUME NEW o \in Order, NEW b \in Broker, OrderOK(o, b), Exists(o),
           o.sequence < Len(b.events), NEW e, e = b.events[o.sequence + 1],
           e.kind = "FILL"
    PROVE  /\ e.lots \in Nat \ {0}
           /\ o.filled + e.lots <= o.quantity
           /\ AfterFill(o, e.lots) \in Order
           /\ OrderOK(AfterFill(o, e.lots), b)
  <1> DEFINE o2 == AfterFill(o, e.lots)
  <1>1. /\ e \in Event /\ e.total = o.filled + e.lots /\ e.total <= b.filled
        /\ o.sequence + 1 \in 1..Len(b.events)
    BY NextEventOfOrder
  <1>2. e.lots \in Nat \ {0}
    BY <1>1 DEF OrderOK, LogOK, Event
  <1>3. b.filled <= o.quantity
    BY DEF OrderOK, Follows
  <1>4. /\ o.filled \in Nat /\ o.quantity \in Nat /\ o.sequence \in Nat
        /\ b.filled \in Nat /\ Len(b.events) \in Nat
    BY DEF Order, Broker
  <1>5. o.filled + e.lots <= o.quantity
    BY <1>1, <1>2, <1>3, <1>4
  <1>6. /\ o2.side = o.side /\ o2.quantity = o.quantity /\ o2.filled = o.filled + e.lots
        /\ o2.sequence = o.sequence + 1
        /\ o2.status = (IF o2.filled = o.quantity THEN "FILLED" ELSE "PARTIALLY_FILLED")
        /\ o2 \in Order
    <2> DEFINE status == IF o.filled + e.lots = o.quantity THEN "FILLED" ELSE "PARTIALLY_FILLED"
    <2>1. o2 = [o EXCEPT !.filled = o.filled + e.lots, !.status = status,
                         !.sequence = o.sequence + 1]
      BY DEF AfterFill
    <2>2. /\ status \in Statuses /\ o.filled + e.lots \in Nat /\ o.sequence + 1 \in Nat
      BY <1>2, <1>4 DEF Statuses, TERMINAL
    <2> HIDE DEF o2, status
    <2>3. /\ o2.side = o.side /\ o2.quantity = o.quantity /\ o2.filled = o.filled + e.lots
          /\ o2.sequence = o.sequence + 1 /\ o2.status = status /\ o2 \in Order
      BY <2>1, <2>2 DEF Order
    <2> QED
      BY <2>3 DEF status
  <1> HIDE DEF o2
  <1>9. SUFFICES OrderOK(o2, b)
    BY <1>2, <1>5, <1>6 DEF o2
  <1>7. CASE o2.filled = o.quantity
    <2>1. e.total = o.quantity /\ b.filled = o.quantity
      BY <1>1, <1>3, <1>4, <1>6, <1>7 DEF Event
    <2>2. b.status = "FILLED"
      BY <2>1 DEF OrderOK, LogOK, Exists, Follows
    <2>3. o2.sequence = Len(b.events)
      <3>1. o.sequence + 1 < Len(b.events) => e.total < o.quantity
        BY <1>1 DEF OrderOK, LogOK
      <3> QED
        BY <1>1, <1>4, <1>6, <2>1, <3>1
    <2>4. Follows(o2, b)
      BY <1>1, <1>2, <1>3, <1>4, <1>6, <1>7, <2>1, <2>2, <2>3 DEF Follows
    <2> QED
      BY <1>6, <1>7, <2>2, <2>4 DEF OrderOK, Exists, TERMINAL
  <1>8. CASE o2.filled # o.quantity
    <2>1. Follows(o2, b)
      BY <1>1, <1>2, <1>3, <1>4, <1>6, <1>8 DEF Follows, TERMINAL
    <2>2. ~(Exists(b) /\ o2.sequence = Len(b.events) /\ b.status \in TERMINAL)
      <3> SUFFICES ASSUME Exists(b), o2.sequence = Len(b.events), b.status \in TERMINAL
                   PROVE  FALSE
        OBVIOUS
      <3>1. e = b.events[Len(b.events)]
        BY <1>6
      <3>2. b.filled = e.total
        BY <1>1, <1>4, <1>6, <3>1 DEF OrderOK, LogOK
      <3>3. b.status # "FILLED"
        BY <1>1, <1>6, <1>8, <3>2 DEF OrderOK, LogOK
      <3> QED
        BY <3>1, <3>3 DEF OrderOK, LogOK, TERMINAL
    <2> QED
      BY <1>6, <2>1, <2>2 DEF OrderOK, Exists
  <1> QED BY <1>7, <1>8

\* An acknowledgement, a cancellation or a rejection leaves the order right.
LEMMA OtherEventKeepsOrder ==
    ASSUME NEW o \in Order, NEW b \in Broker, OrderOK(o, b), Exists(o),
           o.sequence < Len(b.events), NEW e, e = b.events[o.sequence + 1],
           e.kind # "FILL", NEW o2,
           o2 = [o EXCEPT !.status = IF e.kind = "ACK" THEN "ACCEPTED" ELSE e.kind,
                          !.sequence = @ + 1]
    PROVE  o2 \in Order /\ OrderOK(o2, b)
  <1>1. /\ e \in Event /\ e.total = o.filled + e.lots /\ e.total <= b.filled
        /\ o.sequence + 1 \in 1..Len(b.events)
    BY NextEventOfOrder
  <1>2. e.lots = 0
    BY <1>1 DEF OrderOK, LogOK, Event
  <1>4. /\ o.filled \in Nat /\ o.quantity \in Nat /\ o.sequence \in Nat
        /\ b.filled \in Nat /\ Len(b.events) \in Nat
    BY DEF Order, Broker
  <1>6. /\ o2.side = o.side /\ o2.quantity = o.quantity /\ o2.filled = o.filled
        /\ o2.sequence = o.sequence + 1
        /\ o2.status = (IF e.kind = "ACK" THEN "ACCEPTED" ELSE e.kind)
        /\ o2 \in Order
    <2> DEFINE status == IF e.kind = "ACK" THEN "ACCEPTED" ELSE e.kind
    <2>1. o2 = [o EXCEPT !.filled = o.filled, !.status = status, !.sequence = o.sequence + 1]
      BY DEF Order
    <2>2. status \in Statuses /\ o.sequence + 1 \in Nat
      BY <1>1, <1>4 DEF Statuses, TERMINAL, Event
    <2> HIDE DEF status
    <2>3. /\ o2.side = o.side /\ o2.quantity = o.quantity /\ o2.filled = o.filled
          /\ o2.sequence = o.sequence + 1 /\ o2.status = status /\ o2 \in Order
      BY <1>4, <2>1, <2>2 DEF Order
    <2> QED
      BY <2>3 DEF status
  <1>7. CASE e.kind = "ACK"
    <2>1. Follows(o2, b)
      BY <1>1, <1>2, <1>4, <1>6, <1>7 DEF OrderOK, Follows, TERMINAL
    <2>2. ~(Exists(b) /\ o2.sequence = Len(b.events) /\ b.status \in TERMINAL)
      <3> SUFFICES ASSUME Exists(b), o2.sequence = Len(b.events), b.status \in TERMINAL
                   PROVE  FALSE
        OBVIOUS
      <3>1. e = b.events[Len(b.events)]
        BY <1>6
      <3>2. b.filled = e.total /\ b.filled = o.filled
        BY <1>1, <1>2, <1>4, <1>6, <3>1 DEF OrderOK, LogOK
      <3>3. b.status = "FILLED"
        BY <3>1, <1>7 DEF OrderOK, LogOK, TERMINAL
      <3>4. o.filled = o.quantity
        BY <3>2, <3>3 DEF OrderOK, LogOK
      <3>5. o.sequence # 0
        BY <1>4, <3>4 DEF OrderOK, Follows
      <3>6. /\ o.sequence \in 1..Len(b.events) /\ o.sequence < Len(b.events)
            /\ b.events[o.sequence].total = o.quantity
        BY <1>4, <3>4, <3>5 DEF OrderOK, Follows
      <3> QED
        BY <1>4, <3>6 DEF OrderOK, LogOK
    <2> QED
      BY <1>6, <1>7, <2>1, <2>2 DEF OrderOK, Exists
  <1>8. CASE e.kind \in {"CANCELLED", "REJECTED"}
    <2>1. o2.sequence = Len(b.events) /\ b.status = e.kind
      BY <1>1, <1>6, <1>8 DEF OrderOK, LogOK
    <2>2. b.filled = o.filled
      BY <1>1, <1>2, <1>4, <1>6, <2>1 DEF OrderOK, LogOK
    <2>3. Follows(o2, b)
      BY <1>1, <1>2, <1>4, <1>6, <1>8, <2>1, <2>2 DEF OrderOK, Follows, TERMINAL
    <2> QED
      BY <1>6, <1>8, <2>1, <2>3 DEF OrderOK, Exists, TERMINAL
  <1> QED BY <1>1, <1>7, <1>8 DEF Event

-----------------------------------------------------------------------------
(* Applying an event keeps the account right.                              *)

\* What every kind of event has in common: the order k advances to o2, its
\* reserve follows, and the event is booked as applied.
Advances(st, k, o2, st2) ==
    LET n == <<k, st.orders[k].sequence + 1>> IN
    /\ st2.orders = [st.orders EXCEPT ![k] = o2]
    /\ st2.broker = st.broker
    /\ st2.pending = st.pending \ {n}
    /\ st2.applied = st.applied \cup {n}

Advanced(st2, k, o2) ==
    /\ \A j \in OrderKeys : OrderOK(st2.orders[j], st2.broker[j])
    /\ OneOpen(st2)
    /\ AppliedPrefix(st2)
    /\ st2.orders[k] = o2
    /\ \A j \in OrderKeys \ {k} : ~Open(st2.orders[j])

\* Advancing the one open order keeps every order right.
LEMMA AdvanceKeepsOrders ==
    ASSUME NEW st, AccountOK(st), NEW k \in OrderKeys, Open(st.orders[k]),
           st.orders[k].sequence < Len(st.broker[k].events),
           NEW o2 \in Order, OrderOK(o2, st.broker[k]), Exists(o2),
           o2.sequence = st.orders[k].sequence + 1,
           NEW st2, Advances(st, k, o2, st2)
    PROVE  Advanced(st2, k, o2)
  <1>1. /\ st.orders \in [OrderKeys -> Order] /\ st.broker \in [OrderKeys -> Broker]
        /\ st.pending \subseteq OrderKeys \X (Nat \ {0})
        /\ st.applied \subseteq OrderKeys \X (Nat \ {0})
    BY DEF AccountOK, AccountType
  <1>2. st.orders[k].sequence \in Nat /\ st.orders[k].sequence + 1 \in Nat \ {0}
    BY <1>1 DEF Order
  <1>3. /\ st2.orders \in [OrderKeys -> Order] /\ st2.broker = st.broker
        /\ st2.orders[k] = o2
        /\ \A j \in OrderKeys \ {k} : st2.orders[j] = st.orders[j]
    BY <1>1 DEF Advances
  <1>5. \A j \in OrderKeys : OrderOK(st2.orders[j], st2.broker[j])
    BY <1>3 DEF AccountOK
  <1>6. \A j \in OrderKeys \ {k} : ~Open(st2.orders[j])
    BY <1>3 DEF AccountOK, OneOpen
  <1>7. OneOpen(st2)
    BY <1>6 DEF OneOpen
  <1>8. AppliedPrefix(st2)
    <2>1. ASSUME NEW j \in OrderKeys, NEW i \in 1..st2.orders[j].sequence
          PROVE  <<j, i>> \in st2.applied
      <3>1. CASE j = k /\ i = st.orders[k].sequence + 1
        BY <3>1 DEF Advances
      <3>2. CASE ~(j = k /\ i = st.orders[k].sequence + 1)
        <4>1. i \in 1..st.orders[j].sequence
          BY <1>2, <1>3, <2>1, <3>2
        <4>2. <<j, i>> \in st.applied
          BY <4>1 DEF AccountOK, AppliedPrefix
        <4> QED
          BY <4>2 DEF Advances
      <3> QED
        BY <3>1, <3>2
    <2>2. ASSUME NEW p \in st2.applied
          PROVE  p[2] <= st2.orders[p[1]].sequence
      <3>1. CASE p = <<k, st.orders[k].sequence + 1>>
        BY <1>2, <1>3, <3>1
      <3>2. CASE p # <<k, st.orders[k].sequence + 1>>
        <4>1. p \in st.applied
          BY <3>2, <2>2 DEF Advances
        <4>2. p[2] <= st.orders[p[1]].sequence /\ p[1] \in OrderKeys /\ p[2] \in Nat
          BY <1>1, <4>1 DEF AccountOK, AppliedPrefix
        <4>3. CASE p[1] = k
          BY <1>2, <1>3, <4>2, <4>3
        <4>4. CASE p[1] # k
          BY <1>3, <4>2, <4>4
        <4> QED
          BY <4>3, <4>4
      <3> QED
        BY <3>1, <3>2
    <2> QED
      BY <2>1, <2>2 DEF AppliedPrefix
  <1> QED BY <1>3, <1>5, <1>6, <1>7, <1>8 DEF Advanced

\* Reserves when k is the only order that may be open.
ReservedFor(st, o) ==
    /\ st.reservedCash = (IF Open(o) /\ o.side = "BUY" THEN Reserve(o) ELSE 0)
    /\ st.reservedShares = (IF Open(o) /\ o.side = "SELL" THEN o.quantity - o.filled ELSE 0)

\* When k alone may be open, its own reserve is the whole reserve.
LEMMA ReservedByOne ==
    ASSUME NEW st, NEW k \in OrderKeys,
           \A j \in OrderKeys \ {k} : ~Open(st.orders[j]),
           ReservedFor(st, st.orders[k])
    PROVE  Reserved(st)
  BY DEF Reserved, ReservedFor

\* The reserve of a right account is that of its open order.
LEMMA OpenOrderReserve ==
    ASSUME NEW st, AccountOK(st), NEW k \in OrderKeys, Open(st.orders[k])
    PROVE  ReservedFor(st, st.orders[k])
  BY DEF AccountOK, Reserved, ReservedFor

\* The amounts of a right account and how they relate.
LEMMA AccountFields ==
    ASSUME NEW st, AccountOK(st)
    PROVE  /\ st.cash \in Int /\ st.reservedCash \in Int /\ st.shares \in Int
           /\ st.reservedShares \in Int /\ st.costBasis \in Int /\ st.realizedPnl \in Int
           /\ st.fees \in Nat /\ st.stopped \in BOOLEAN /\ st.reentryBlocked \in BOOLEAN
           /\ st.shares \in Nat /\ st.costBasis \in Nat /\ st.reservedShares \in Nat
           /\ st.reservedShares <= st.shares
           /\ st.shares = 0 => st.costBasis = 0
           /\ st.cash + st.costBasis = InitialCapital + st.realizedPnl
  BY DEF AccountOK, AccountType, Holdings, Costed, Balanced

\* The fields of an order.
LEMMA OrderFields ==
    ASSUME NEW o \in Order
    PROVE  /\ o.quantity \in Nat /\ o.filled \in Nat /\ o.sequence \in Nat
           /\ o.side \in Sides /\ o.status \in Statuses
  BY DEF Order

\* The orders of a right account, each with its broker order.
LEMMA AccountFunctions ==
    ASSUME NEW st, AccountOK(st), NEW k \in OrderKeys
    PROVE  /\ st \in AccountType
           /\ st.orders \in [OrderKeys -> Order] /\ st.broker \in [OrderKeys -> Broker]
           /\ st.orders[k] \in Order /\ st.broker[k] \in Broker
           /\ OrderOK(st.orders[k], st.broker[k])
  BY DEF AccountOK, AccountType

-----------------------------------------------------------------------------
(* What an event does to the amounts of an account.                        *)

SameAmounts(st, st2) ==
    /\ st2.cash = st.cash /\ st2.reservedCash = st.reservedCash
    /\ st2.shares = st.shares /\ st2.reservedShares = st.reservedShares
    /\ st2.costBasis = st.costBasis /\ st2.realizedPnl = st.realizedPnl
    /\ st2.reentryBlocked = st.reentryBlocked

\* lots are bought and order o becomes o2.
Bought(st, o, lots, o2, st2) ==
    /\ st2.cash = st.cash - Required(lots)
    /\ st2.reservedCash = st.reservedCash + Reserve(o2) - Reserve(o)
    /\ st2.shares = st.shares + lots /\ st2.reservedShares = st.reservedShares
    /\ st2.costBasis = st.costBasis + Required(lots)
    /\ st2.realizedPnl = st.realizedPnl /\ st2.reentryBlocked = st.reentryBlocked

\* lots are sold for proceeds, and the cost basis drops by removed.
Sold(st, lots, proceeds, removed, st2) ==
    /\ st2.cash = st.cash + proceeds /\ st2.reservedCash = st.reservedCash
    /\ st2.shares = st.shares - lots /\ st2.reservedShares = st.reservedShares - lots
    /\ st2.costBasis = st.costBasis - removed
    /\ st2.realizedPnl = st.realizedPnl + proceeds - removed
    /\ st2.reentryBlocked = (st.reentryBlocked \/ st.shares = lots)

\* Nothing is traded, and the reserve of o is freed.
Freed(st, o, st2) ==
    /\ st2.cash = st.cash /\ st2.shares = st.shares /\ st2.costBasis = st.costBasis
    /\ st2.realizedPnl = st.realizedPnl /\ st2.reentryBlocked = st.reentryBlocked
    /\ st2.reservedCash = (IF o.side = "BUY" THEN st.reservedCash - Reserve(o) ELSE st.reservedCash)
    /\ st2.reservedShares = (IF o.side = "SELL" THEN st.reservedShares - (o.quantity - o.filled)
                             ELSE st.reservedShares)

\* Order k becomes o2, and nothing else is touched but amounts.
Moves(st, k, o2, st2) ==
    /\ st2.orders = [st.orders EXCEPT ![k] = o2]
    /\ st2.broker = st.broker /\ st2.pending = st.pending /\ st2.applied = st.applied

\* The bookkeeping of Apply around the effect of an event.
Booked(st, n) == [st EXCEPT !.pending = @ \ {n}, !.applied = @ \cup {n}]

Books(st, n, st2) ==
    /\ st2.orders = st.orders /\ st2.broker = st.broker
    /\ st2.pending = st.pending \ {n} /\ st2.applied = st.applied \cup {n}

\* Booking an event as applied changes neither amounts nor orders.
LEMMA BookedFields ==
    ASSUME NEW st \in AccountType, NEW n \in OrderKeys \X (Nat \ {0})
    PROVE  /\ Booked(st, n) \in AccountType
           /\ SameAmounts(st, Booked(st, n))
           /\ Books(st, n, Booked(st, n))
  <1> DEFINE st2 == Booked(st, n)
  <1>1. /\ st2 \in AccountType
        /\ st2.cash = st.cash /\ st2.reservedCash = st.reservedCash
        /\ st2.shares = st.shares /\ st2.reservedShares = st.reservedShares
        /\ st2.costBasis = st.costBasis /\ st2.realizedPnl = st.realizedPnl
        /\ st2.reentryBlocked = st.reentryBlocked
        /\ st2.orders = st.orders /\ st2.broker = st.broker
        /\ st2.pending = st.pending \ {n} /\ st2.applied = st.applied \cup {n}
    BY DEF Booked, AccountType
  <1> HIDE DEF st2
  <1>2. SameAmounts(st, st2) /\ Books(st, n, st2)
    BY <1>1 DEF SameAmounts, Books
  <1> QED
    BY <1>1, <1>2 DEF st2

\* The amounts FillBuy() leaves.
LEMMA FillBuyFields ==
    ASSUME NEW st \in AccountType, NEW k \in OrderKeys, NEW lots \in Nat,
           AfterFill(st.orders[k], lots) \in Order,
           Reserve(st.orders[k]) \in Nat, Reserve(AfterFill(st.orders[k], lots)) \in Nat
    PROVE  LET next == FillBuy(st, k, lots)
               o2   == AfterFill(st.orders[k], lots)
           IN  next \in AccountType /\ Bought(st, st.orders[k], lots, o2, next) /\ Moves(st, k, o2, next)
  <1> DEFINE next == FillBuy(st, k, lots)
             o == st.orders[k]
             o2 == AfterFill(o, lots)
             cash == st.cash - Required(lots)
             reservedCash == st.reservedCash + Reserve(o2) - Reserve(o)
             shares == st.shares + lots
             costBasis == st.costBasis + Required(lots)
             fees == st.fees + Fee(lots)
             orders == [st.orders EXCEPT ![k] = o2]
  <1>1. next = [st EXCEPT !.cash = cash, !.reservedCash = reservedCash, !.shares = shares,
                          !.costBasis = costBasis, !.fees = fees, !.orders = orders]
    BY DEF FillBuy, AccountType
  <1>2. /\ cash \in Int /\ reservedCash \in Int /\ shares \in Int /\ costBasis \in Int
        /\ fees \in Nat
    BY RequiredIsNatural, FeeIsNatural DEF AccountType
  <1>3. orders \in [OrderKeys -> Order]
    BY DEF AccountType
  <1> HIDE DEF next, cash, reservedCash, shares, costBasis, fees, orders
  <1>4. /\ next \in AccountType
        /\ next.cash = cash /\ next.reservedCash = reservedCash
        /\ next.shares = shares /\ next.reservedShares = st.reservedShares
        /\ next.costBasis = costBasis /\ next.realizedPnl = st.realizedPnl
        /\ next.reentryBlocked = st.reentryBlocked /\ next.orders = orders
        /\ next.broker = st.broker /\ next.pending = st.pending /\ next.applied = st.applied
    BY <1>1, <1>2, <1>3 DEF AccountType
  <1>5. Bought(st, o, lots, o2, next)
    BY <1>4 DEF cash, reservedCash, shares, costBasis, Bought
  <1>6. Moves(st, k, o2, next)
    BY <1>4 DEF orders, Moves
  <1> QED
    BY <1>4, <1>5, <1>6 DEF next

\* The amounts FillSell() leaves.
LEMMA FillSellFields ==
    ASSUME NEW st \in AccountType, NEW k \in OrderKeys, NEW lots \in Nat,
           AfterFill(st.orders[k], lots) \in Order, RemovedCost(st, lots) \in Nat
    PROVE  LET next == FillSell(st, k, lots)
               o2   == AfterFill(st.orders[k], lots)
           IN  /\ next \in AccountType
               /\ Sold(st, lots, lots * LotPrice - Fee(lots), RemovedCost(st, lots), next)
               /\ Moves(st, k, o2, next)
  <1> DEFINE next == FillSell(st, k, lots)
             o2 == AfterFill(st.orders[k], lots)
             proceeds == lots * LotPrice - Fee(lots)
             removed == RemovedCost(st, lots)
             cash == st.cash + proceeds
             shares == st.shares - lots
             reservedShares == st.reservedShares - lots
             costBasis == st.costBasis - removed
             realizedPnl == st.realizedPnl + proceeds - removed
             blocked == st.reentryBlocked \/ st.shares = lots
             fees == st.fees + Fee(lots)
             orders == [st.orders EXCEPT ![k] = o2]
  <1>1. next = [st EXCEPT !.cash = cash, !.shares = shares, !.reservedShares = reservedShares,
                          !.costBasis = costBasis, !.realizedPnl = realizedPnl,
                          !.reentryBlocked = blocked, !.fees = fees, !.orders = orders]
    BY DEF FillSell, AccountType
  <1>2. Fee(lots) \in Nat /\ proceeds \in Int /\ removed \in Nat
    BY FeeIsNatural, ConfigAssumption
  <1> HIDE DEF proceeds, removed, o2
  <1>3. /\ cash \in Int /\ shares \in Int /\ reservedShares \in Int /\ costBasis \in Int
        /\ realizedPnl \in Int /\ fees \in Nat
    BY <1>2 DEF AccountType
  <1>4. orders \in [OrderKeys -> Order] /\ blocked \in BOOLEAN
    BY DEF AccountType, o2
  <1> HIDE DEF next, cash, shares, reservedShares, costBasis, realizedPnl, blocked, fees, orders
  <1>5. /\ next.cash = cash /\ next.reservedCash = st.reservedCash
        /\ next.shares = shares /\ next.reservedShares = reservedShares
        /\ next.costBasis = costBasis /\ next.realizedPnl = realizedPnl
        /\ next.orders = orders
        /\ next.broker = st.broker /\ next.pending = st.pending /\ next.applied = st.applied
    BY <1>1 DEF AccountType
  <1>6. next.reentryBlocked = blocked
    BY <1>1 DEF AccountType
  <1>7. next \in AccountType
    <2> DEFINE mid == [st EXCEPT !.cash = cash, !.shares = shares,
                                 !.reservedShares = reservedShares, !.costBasis = costBasis,
                                 !.realizedPnl = realizedPnl]
    <2>1. next = [mid EXCEPT !.reentryBlocked = blocked, !.fees = fees, !.orders = orders]
      BY <1>1 DEF AccountType
    <2>2. mid \in AccountType
      BY <1>3 DEF AccountType
    <2> HIDE DEF mid
    <2> QED
      BY <1>3, <1>4, <2>1, <2>2 DEF AccountType
  <1>8. Sold(st, lots, proceeds, removed, next)
    <2>1. next.reentryBlocked = (st.reentryBlocked \/ st.shares = lots)
      BY <1>6 DEF blocked
    <2> QED
      BY <1>5, <2>1 DEF cash, shares, reservedShares, costBasis, realizedPnl, Sold
  <1>9. Moves(st, k, o2, next)
    BY <1>5 DEF orders, Moves
  <1> QED
    BY <1>7, <1>8, <1>9 DEF next, proceeds, removed, o2

\* An order that an event moves to another status is still an order.
LEMMA StepOfOrder ==
    ASSUME NEW o \in Order, NEW status \in Statuses
    PROVE  [o EXCEPT !.status = status, !.sequence = @ + 1] \in Order
  <1> DEFINE n == o.sequence + 1
  <1>1. n \in Nat
    BY OrderFields
  <1>2. [o EXCEPT !.status = status, !.sequence = @ + 1] = [o EXCEPT !.status = status, !.sequence = n]
    BY DEF Order
  <1> HIDE DEF n
  <1>3. [o EXCEPT !.status = status, !.sequence = n] \in Order
    BY <1>1 DEF Order
  <1> QED
    BY <1>2, <1>3

Stepped(o, status) == [o EXCEPT !.status = status, !.sequence = @ + 1]

\* The amounts a cancellation or rejection leaves.
LEMMA ReleaseFields ==
    ASSUME NEW st \in AccountType, NEW k \in OrderKeys, NEW kind \in {"CANCELLED", "REJECTED"},
           Reserve(st.orders[k]) \in Nat, st.orders[k].quantity - st.orders[k].filled \in Nat
    PROVE  LET next == Release(st, k, kind)
           IN  /\ next \in AccountType
               /\ Freed(st, st.orders[k], next)
               /\ Moves(st, k, Stepped(st.orders[k], kind), next)
  <1> DEFINE next == Release(st, k, kind)
             o == st.orders[k]
             reservedCash == IF o.side = "BUY" THEN st.reservedCash - Reserve(o) ELSE st.reservedCash
             reservedShares == IF o.side = "SELL" THEN st.reservedShares - (o.quantity - o.filled)
                               ELSE st.reservedShares
             o2 == Stepped(o, kind)
             orders == [st.orders EXCEPT ![k] = o2]
  <1>1. next = [st EXCEPT !.reservedCash = reservedCash, !.reservedShares = reservedShares,
                          !.orders = orders]
    BY DEF Release, AccountType, Stepped
  <1>2. reservedCash \in Int /\ reservedShares \in Int
    BY DEF AccountType
  <1>3. o2 \in Order
    <2>1. o \in Order /\ kind \in Statuses
      BY DEF AccountType, Statuses, TERMINAL
    <2> QED
      BY <2>1, StepOfOrder DEF Stepped
  <1>4. orders \in [OrderKeys -> Order]
    BY <1>3 DEF AccountType
  <1> HIDE DEF next, reservedCash, reservedShares, orders, o2
  <1>5. /\ next \in AccountType
        /\ next.cash = st.cash /\ next.shares = st.shares /\ next.costBasis = st.costBasis
        /\ next.realizedPnl = st.realizedPnl /\ next.reentryBlocked = st.reentryBlocked
        /\ next.reservedCash = reservedCash /\ next.reservedShares = reservedShares
        /\ next.orders = orders
        /\ next.broker = st.broker /\ next.pending = st.pending /\ next.applied = st.applied
    BY <1>1, <1>2, <1>4 DEF AccountType
  <1>6. Freed(st, o, next)
    BY <1>5 DEF reservedCash, reservedShares, Freed
  <1>7. Moves(st, k, o2, next)
    BY <1>5 DEF orders, Moves
  <1> QED
    BY <1>5, <1>6, <1>7 DEF next, o2

\* An acknowledgement leaves every amount as it is.
LEMMA AckFields ==
    ASSUME NEW st \in AccountType, NEW k \in OrderKeys, NEW next,
           next = [st EXCEPT !.orders[k].status = "ACCEPTED", !.orders[k].sequence = @ + 1]
    PROVE  /\ next \in AccountType
           /\ SameAmounts(st, next)
           /\ Moves(st, k, Stepped(st.orders[k], "ACCEPTED"), next)
  <1> DEFINE o2 == Stepped(st.orders[k], "ACCEPTED")
             orders == [st.orders EXCEPT ![k] = o2]
  <1>1. next = [st EXCEPT !.orders = orders]
    BY DEF AccountType, Stepped
  <1>2. o2 \in Order
    <2>1. st.orders[k] \in Order /\ "ACCEPTED" \in Statuses
      BY DEF AccountType, Statuses
    <2> QED
      BY <2>1, StepOfOrder DEF Stepped
  <1>3. orders \in [OrderKeys -> Order]
    BY <1>2 DEF AccountType
  <1> HIDE DEF orders, o2
  <1>4. /\ next \in AccountType
        /\ next.cash = st.cash /\ next.shares = st.shares /\ next.costBasis = st.costBasis
        /\ next.realizedPnl = st.realizedPnl /\ next.reentryBlocked = st.reentryBlocked
        /\ next.reservedCash = st.reservedCash /\ next.reservedShares = st.reservedShares
        /\ next.orders = orders
        /\ next.broker = st.broker /\ next.pending = st.pending /\ next.applied = st.applied
    BY <1>1, <1>3 DEF AccountType
  <1>5. SameAmounts(st, next)
    BY <1>4 DEF SameAmounts
  <1>6. Moves(st, k, o2, next)
    BY <1>4 DEF orders, Moves
  <1> QED
    BY <1>4, <1>5, <1>6 DEF o2

-----------------------------------------------------------------------------
(* The amounts and the orders together.                                    *)

\* A fill of lots that turns order o into o2.
FilledTo(o, lots, o2) ==
    /\ o2.side = o.side /\ o2.quantity = o.quantity /\ o2.filled = o.filled + lots
    /\ o2.filled <= o2.quantity
    /\ o2.status = (IF o2.filled = o2.quantity THEN "FILLED" ELSE "PARTIALLY_FILLED")

\* What a fill leaves of the open quantity.
LEMMA FilledAmounts ==
    ASSUME NEW o \in Order, NEW o2 \in Order, NEW lots \in Nat, FilledTo(o, lots, o2)
    PROVE  /\ o.quantity - o.filled \in Nat /\ o2.quantity - o2.filled \in Nat
           /\ lots <= o.quantity - o.filled
           /\ o2.quantity - o2.filled = (o.quantity - o.filled) - lots
           /\ ~Open(o2) => o2.quantity - o2.filled = 0
  <1>1. /\ o.quantity \in Nat /\ o.filled \in Nat /\ o2.quantity \in Nat /\ o2.filled \in Nat
    BY OrderFields
  <1>2. ~Open(o2) => o2.filled = o2.quantity
    BY DEF FilledTo, Open, Exists, TERMINAL
  <1> QED BY <1>1, <1>2 DEF FilledTo

\* Buying keeps the account right: cash turns into cost, the reserve follows
\* the order.
LEMMA BuyFilled ==
    ASSUME NEW st, AccountOK(st), NEW k \in OrderKeys, NEW o \in Order, o = st.orders[k],
           Open(o), o.side = "BUY",
           NEW lots \in Nat \ {0}, NEW o2 \in Order, FilledTo(o, lots, o2),
           NEW st2 \in AccountType, Advanced(st2, k, o2), Bought(st, o, lots, o2, st2)
    PROVE  AccountOK(st2)
  <1>1. /\ Required(lots) \in Nat /\ Reserve(o) \in Nat /\ Reserve(o2) \in Nat
        /\ ~Open(o2) => Reserve(o2) = 0
    BY FilledAmounts, RequiredIsNatural, ReserveOfNothing DEF Reserve
  <1>2. st.reservedCash = Reserve(o) /\ st.reservedShares = 0 /\ ~st.reentryBlocked
    BY OpenOrderReserve DEF ReservedFor, AccountOK, Liquidated
  <1>3. Reserved(st2)
    <2>1. st2.reservedCash = Reserve(o2) /\ st2.reservedShares = 0
      BY <1>1, <1>2 DEF Bought
    <2>2. o2.side = "BUY"
      BY DEF FilledTo
    <2>3. ReservedFor(st2, o2)
      BY <1>1, <2>1, <2>2 DEF ReservedFor
    <2> QED
      BY <2>3, ReservedByOne DEF Advanced
  <1>4. /\ st.shares \in Nat /\ st.costBasis \in Nat /\ st.cash \in Int /\ st.realizedPnl \in Int
        /\ st.cash + st.costBasis = InitialCapital + st.realizedPnl
    BY AccountFields
  <1>5. Holdings(st2) /\ Costed(st2)
    BY <1>1, <1>2, <1>4 DEF Holdings, Costed, Bought
  <1>6. Balanced(st2)
    BY <1>1, <1>4 DEF Balanced, Bought
  <1>7. Liquidated(st2)
    BY <1>2 DEF Liquidated, Bought
  <1>8. Funded(st2)
    <2> SUFFICES ASSUME FeeDen = 1 PROVE 0 <= st2.reservedCash /\ st2.reservedCash <= st2.cash
      BY DEF Funded
    <2>1. st.reservedCash <= st.cash
      BY DEF AccountOK, Funded
    <2>2. Reserve(o) = Reserve(o2) + Required(lots)
      <3>1. /\ o2.quantity - o2.filled \in Nat
            /\ o.quantity - o.filled = (o2.quantity - o2.filled) + lots
        BY FilledAmounts
      <3> QED
        BY <3>1, ExactFees DEF Reserve
    <2>3. st2.reservedCash = Reserve(o2) /\ st2.cash = st.cash - Required(lots)
      BY <1>1, <1>2 DEF Bought
    <2> QED
      BY <1>1, <1>2, <1>4, <2>1, <2>2, <2>3
  <1> QED
    BY <1>3, <1>5, <1>6, <1>7, <1>8 DEF AccountOK, Advanced

\* Selling keeps the account right: the cost removed and the profit realised
\* balance the proceeds, and the last share takes the last of the cost.
LEMMA SellFilled ==
    ASSUME NEW st, AccountOK(st), NEW k \in OrderKeys, NEW o \in Order, o = st.orders[k],
           Open(o), o.side = "SELL",
           NEW lots \in Nat \ {0}, NEW o2 \in Order, FilledTo(o, lots, o2),
           NEW removed \in Nat, removed <= st.costBasis,
           lots = st.shares => removed = st.costBasis,
           NEW proceeds \in Int, FeeDen = 1 => proceeds >= 0,
           NEW st2 \in AccountType, Advanced(st2, k, o2),
           Sold(st, lots, proceeds, removed, st2)
    PROVE  AccountOK(st2)
  <1>1. /\ st.shares \in Nat /\ st.costBasis \in Nat /\ st.cash \in Int /\ st.realizedPnl \in Int
        /\ st.reservedShares <= st.shares
        /\ st.cash + st.costBasis = InitialCapital + st.realizedPnl
    BY AccountFields
  <1>2. st.reservedCash = 0 /\ st.reservedShares = o.quantity - o.filled
    BY OpenOrderReserve DEF ReservedFor
  <1>3. /\ o.quantity - o.filled \in Nat /\ lots <= o.quantity - o.filled
        /\ o2.quantity - o2.filled = (o.quantity - o.filled) - lots
        /\ ~Open(o2) => o2.quantity - o2.filled = 0
    BY FilledAmounts
  <1>4. Reserved(st2)
    <2>1. st2.reservedCash = 0 /\ st2.reservedShares = o2.quantity - o2.filled
      BY <1>2, <1>3 DEF Sold
    <2>2. o2.side = "SELL"
      BY DEF FilledTo
    <2>3. ReservedFor(st2, o2)
      BY <1>3, <2>1, <2>2 DEF ReservedFor
    <2> QED
      BY <2>3, ReservedByOne DEF Advanced
  <1>5. st2.shares \in Nat /\ st2.reservedShares \in Nat /\ st2.reservedShares <= st2.shares
    BY <1>1, <1>2, <1>3 DEF Sold
  <1>6. Holdings(st2) /\ Costed(st2)
    BY <1>1, <1>5 DEF Holdings, Costed, Sold
  <1>7. Balanced(st2)
    BY <1>1, ConfigAssumption DEF Balanced, Sold
  <1>8. Liquidated(st2)
    <2>1. ~st.reentryBlocked
      BY <1>1, <1>2, <1>3 DEF AccountOK, Liquidated
    <2>2. \A j \in OrderKeys : Open(st2.orders[j]) => st2.orders[j].side = "SELL"
      BY DEF Advanced, FilledTo
    <2>3. st2.reentryBlocked => st2.shares = 0
      <3>1. st2.reentryBlocked => st.shares = lots
        BY <2>1 DEF Sold
      <3>2. st.shares = lots => st2.shares = 0
        BY <1>1 DEF Sold
      <3> QED
        BY <3>1, <3>2
    <2> QED
      BY <2>2, <2>3 DEF Liquidated
  <1>9. Funded(st2)
    <2>1. FeeDen = 1 => 0 <= st.cash
      BY <1>1, <1>2 DEF AccountOK, Funded
    <2> QED
      BY <1>1, <1>2, <2>1 DEF Funded, Sold
  <1> QED
    BY <1>4, <1>6, <1>7, <1>8, <1>9 DEF AccountOK, Advanced

\* An event that fills nothing: it ends the order and frees its reserve, or it
\* acknowledges it.
LEMMA NothingFilled ==
    ASSUME NEW st, AccountOK(st), NEW k \in OrderKeys, NEW o \in Order, o = st.orders[k],
           Open(o), NEW o2 \in Order,
           o2.side = o.side, o2.quantity = o.quantity, o2.filled = o.filled,
           NEW st2 \in AccountType, Advanced(st2, k, o2),
           IF Open(o2) THEN SameAmounts(st, st2) ELSE Freed(st, o, st2)
    PROVE  AccountOK(st2)
  <1>1. /\ st.shares \in Nat /\ st.costBasis \in Nat /\ st.reservedShares \in Nat
        /\ st.reservedShares <= st.shares /\ st.reservedCash \in Int
        /\ st.cash + st.costBasis = InitialCapital + st.realizedPnl
        /\ st.shares = 0 => st.costBasis = 0
    BY AccountFields
  <1>2. ReservedFor(st, o) /\ o.side \in Sides
    BY OpenOrderReserve, OrderFields
  <1>3. Reserve(o2) = Reserve(o)
    BY DEF Reserve
  <1>4. ReservedFor(st2, o2)
    <2>1. CASE Open(o2)
      BY <1>2, <1>3, <2>1 DEF ReservedFor, SameAmounts
    <2>2. CASE ~Open(o2)
      <3>1. CASE o.side = "BUY"
        <4>1. st.reservedCash = Reserve(o) /\ st.reservedShares = 0
          BY <1>2, <3>1 DEF ReservedFor
        <4>2. st2.reservedCash = 0 /\ st2.reservedShares = 0
          BY <1>1, <2>2, <3>1, <4>1 DEF Freed
        <4> QED
          BY <2>2, <4>2 DEF ReservedFor
      <3>2. CASE o.side = "SELL"
        <4>1. st.reservedCash = 0 /\ st.reservedShares = o.quantity - o.filled
          BY <1>2, <3>2 DEF ReservedFor
        <4>2. st2.reservedCash = 0 /\ st2.reservedShares = 0
          BY <1>1, <2>2, <3>2, <4>1 DEF Freed
        <4> QED
          BY <2>2, <4>2 DEF ReservedFor
      <3> QED
        BY <1>2, <3>1, <3>2 DEF Sides
    <2> QED
      BY <2>1, <2>2
  <1>5. Reserved(st2)
    BY <1>4, ReservedByOne DEF Advanced
  <1>6. 0 <= st2.reservedShares /\ st2.reservedShares <= st2.shares
    <2>1. CASE Open(o2)
      BY <1>1, <2>1 DEF SameAmounts
    <2>2. CASE ~Open(o2)
      BY <1>1, <1>4, <2>2 DEF ReservedFor, Freed
    <2> QED
      BY <2>1, <2>2
  <1>7. Holdings(st2) /\ Costed(st2) /\ Balanced(st2)
    BY <1>1, <1>6 DEF Holdings, Costed, Balanced, SameAmounts, Freed
  <1>8. Liquidated(st2)
    BY DEF AccountOK, Liquidated, Advanced, SameAmounts, Freed
  <1>9. Funded(st2)
    <2> SUFFICES ASSUME FeeDen = 1 PROVE 0 <= st2.reservedCash /\ st2.reservedCash <= st2.cash
      BY DEF Funded
    <2>1. st.cash \in Int /\ 0 <= st.reservedCash /\ st.reservedCash <= st.cash
      BY AccountFields DEF AccountOK, Funded
    <2>2. CASE Open(o2)
      BY <2>1, <2>2 DEF SameAmounts
    <2>3. CASE ~Open(o2)
      <3>1. st2.reservedCash = 0
        BY <1>4, <2>3 DEF ReservedFor
      <3>2. st2.cash = st.cash
        BY <2>3 DEF Freed
      <3> QED
        BY <1>1, <2>1, <3>1, <3>2
    <2> QED
      BY <2>2, <2>3
  <1> QED
    BY <1>5, <1>7, <1>8, <1>9 DEF AccountOK, Advanced

\* The effect of an event and its booking together advance the order.
LEMMA EffectThenBooking ==
    ASSUME NEW st, AccountOK(st), NEW k \in OrderKeys, Open(st.orders[k]),
           st.orders[k].sequence < Len(st.broker[k].events),
           NEW o2 \in Order, OrderOK(o2, st.broker[k]), Exists(o2),
           o2.sequence = st.orders[k].sequence + 1,
           NEW next, Moves(st, k, o2, next),
           NEW st2, Books(next, <<k, st.orders[k].sequence + 1>>, st2)
    PROVE  /\ Advanced(st2, k, o2)
           /\ st2.broker = st.broker
           /\ st2.pending = st.pending \ {<<k, st.orders[k].sequence + 1>>}
           /\ \A j \in OrderKeys \ {k} : st2.orders[j] = st.orders[j]
  <1>1. Advances(st, k, o2, st2)
    BY DEF Moves, Books, Advances
  <1>2. Advanced(st2, k, o2)
    BY <1>1, AdvanceKeepsOrders
  <1>3. st.orders \in [OrderKeys -> Order]
    BY AccountFunctions
  <1> QED
    BY <1>1, <1>2, <1>3 DEF Advances

\* A filled order and what its fill may be.
LEMMA NextFill ==
    ASSUME NEW st, AccountOK(st), NEW k \in OrderKeys, Open(st.orders[k]),
           st.orders[k].sequence < Len(st.broker[k].events),
           NEW e, e = st.broker[k].events[st.orders[k].sequence + 1], e.kind = "FILL"
    PROVE  LET o == st.orders[k]  o2 == AfterFill(o, e.lots)
           IN  /\ e.lots \in Nat \ {0} /\ o.filled + e.lots <= o.quantity
               /\ o2 \in Order /\ OrderOK(o2, st.broker[k]) /\ Exists(o2)
               /\ o2.sequence = o.sequence + 1
               /\ FilledTo(o, e.lots, o2)
               /\ Reserve(o) \in Nat /\ Reserve(o2) \in Nat
  <1> DEFINE o == st.orders[k]
             b == st.broker[k]
             o2 == AfterFill(o, e.lots)
  <1>1. o \in Order /\ b \in Broker /\ OrderOK(o, b) /\ Exists(o)
    BY AccountFunctions DEF Open
  <1> HIDE DEF o, b
  <1>2. /\ e.lots \in Nat \ {0} /\ o.filled + e.lots <= o.quantity /\ o2 \in Order /\ OrderOK(o2, b)
    BY <1>1, FillKeepsOrder DEF o, b
  <1>3. FilledTo(o, e.lots, o2) /\ o2.sequence = o.sequence + 1 /\ Exists(o2)
    BY <1>1, <1>2 DEF AfterFill, FilledTo, Order, Exists
  <1> HIDE DEF o2
  <1>4. Reserve(o) \in Nat /\ Reserve(o2) \in Nat
    BY <1>1, <1>2, <1>3, FilledAmounts, RequiredIsNatural DEF Reserve
  <1> QED
    BY <1>2, <1>3, <1>4 DEF o, b, o2

\* Order o became o2 and as many shares changed hands as it was filled.
Trades(st, o, st2, o2) ==
    /\ o2.side = o.side
    /\ \E lots \in Nat :
          /\ o2.filled = o.filled + lots
          /\ st2.shares = (IF o.side = "BUY" THEN st.shares + lots ELSE st.shares - lots)

\* Applying the next event of an order leaves a right account, one event on.
AppliedTo(st, k, st2) ==
    /\ AccountOK(st2)
    /\ Trades(st, st.orders[k], st2, st2.orders[k])
    /\ st2.broker = st.broker
    /\ st2.pending = st.pending \ {<<k, st.orders[k].sequence + 1>>}
    /\ Exists(st2.orders[k])
    /\ st2.orders[k].sequence = st.orders[k].sequence + 1
    /\ \A j \in OrderKeys \ {k} : st2.orders[j] = st.orders[j]

\* FillBuy() on the next event.
LEMMA ApplyBuy ==
    ASSUME NEW st, AccountOK(st), NEW k \in OrderKeys, Open(st.orders[k]),
           st.orders[k].sequence < Len(st.broker[k].events),
           NEW e, e = st.broker[k].events[st.orders[k].sequence + 1], e.kind = "FILL",
           st.orders[k].side = "BUY"
    PROVE  AppliedTo(st, k, Booked(FillBuy(st, k, e.lots), <<k, st.orders[k].sequence + 1>>))
  <1> DEFINE o == st.orders[k]
             lots == e.lots
             o2 == AfterFill(o, lots)
             n == <<k, o.sequence + 1>>
             next == FillBuy(st, k, lots)
             st2 == Booked(next, n)
  <1>1. /\ st \in AccountType /\ o \in Order
    BY AccountFunctions
  <1>2. /\ lots \in Nat \ {0} /\ o2 \in Order /\ OrderOK(o2, st.broker[k]) /\ Exists(o2)
        /\ o2.sequence = o.sequence + 1 /\ FilledTo(o, lots, o2)
        /\ Reserve(o) \in Nat /\ Reserve(o2) \in Nat
    BY NextFill
  <1>3. n \in OrderKeys \X (Nat \ {0})
    BY <1>1, OrderFields
  <1>4. next \in AccountType /\ Bought(st, o, lots, o2, next) /\ Moves(st, k, o2, next)
    BY <1>1, <1>2, FillBuyFields
  <1> HIDE DEF lots, next, o2
  <1>5. st2 \in AccountType /\ SameAmounts(next, st2) /\ Books(next, n, st2)
    BY <1>3, <1>4, BookedFields
  <1> HIDE DEF st2
  <1>6. /\ Advanced(st2, k, o2) /\ st2.broker = st.broker /\ st2.pending = st.pending \ {n}
        /\ \A j \in OrderKeys \ {k} : st2.orders[j] = st.orders[j]
    BY <1>2, <1>4, <1>5, EffectThenBooking
  <1>7. Bought(st, o, lots, o2, st2)
    BY <1>4, <1>5 DEF Bought, SameAmounts
  <1>8. AccountOK(st2)
    BY <1>1, <1>2, <1>5, <1>6, <1>7, BuyFilled
  <1>9. st2.orders[k] = o2
    BY <1>6 DEF Advanced
  <1>10. Trades(st, o, st2, o2)
    BY <1>2, <1>7 DEF Trades, Bought, FilledTo
  <1> QED
    BY <1>2, <1>6, <1>8, <1>9, <1>10 DEF AppliedTo, st2, next, lots

\* FillSell() on the next event; the shares sold are held, as they are reserved.
LEMMA ApplySell ==
    ASSUME NEW st, AccountOK(st), NEW k \in OrderKeys, Open(st.orders[k]),
           st.orders[k].sequence < Len(st.broker[k].events),
           NEW e, e = st.broker[k].events[st.orders[k].sequence + 1], e.kind = "FILL",
           st.orders[k].side = "SELL"
    PROVE  AppliedTo(st, k, Booked(FillSell(st, k, e.lots), <<k, st.orders[k].sequence + 1>>))
  <1> DEFINE o == st.orders[k]
             lots == e.lots
             o2 == AfterFill(o, lots)
             n == <<k, o.sequence + 1>>
             proceeds == lots * LotPrice - Fee(lots)
             removed == RemovedCost(st, lots)
             next == FillSell(st, k, lots)
             st2 == Booked(next, n)
  <1>1. /\ st \in AccountType /\ o \in Order
    BY AccountFunctions
  <1>2. /\ lots \in Nat \ {0} /\ o2 \in Order /\ OrderOK(o2, st.broker[k]) /\ Exists(o2)
        /\ o2.sequence = o.sequence + 1 /\ FilledTo(o, lots, o2)
    BY NextFill
  <1>3. n \in OrderKeys \X (Nat \ {0})
    BY <1>1, OrderFields
  <1>4. proceeds \in Int
    BY <1>2, ProceedsAreInteger
  <1>4a. FeeDen = 1 => proceeds >= 0
    BY <1>2, ExactFees
  <1>5. removed \in Nat /\ removed <= st.costBasis /\ (lots = st.shares => removed = st.costBasis)
    <2>1. st.reservedShares = o.quantity - o.filled
      BY OpenOrderReserve DEF ReservedFor
    <2>2. lots <= o.quantity - o.filled
      BY <1>1, <1>2, FilledAmounts
    <2>3. st.shares \in Nat /\ st.costBasis \in Nat /\ st.reservedShares <= st.shares
      BY AccountFields
    <2>4. st.shares \in Nat \ {0} /\ lots <= st.shares
      <3>1. o.quantity - o.filled \in Int
        BY <1>1, OrderFields
      <3> HIDE DEF lots, o
      <3> QED
        BY <1>2, <2>1, <2>2, <2>3, <3>1
    <2>5. removed \in Nat /\ removed <= st.costBasis
      BY <1>2, <2>3, <2>4, RemovedCostBounded
    <2>6. lots = st.shares => removed = st.costBasis
      BY DEF RemovedCost
    <2> QED
      BY <2>5, <2>6
  <1>6. next \in AccountType /\ Sold(st, lots, proceeds, removed, next) /\ Moves(st, k, o2, next)
    BY <1>1, <1>2, <1>5, FillSellFields
  <1> HIDE DEF lots, next, o2, proceeds, removed
  <1>7. st2 \in AccountType /\ SameAmounts(next, st2) /\ Books(next, n, st2)
    BY <1>3, <1>6, BookedFields
  <1> HIDE DEF st2
  <1>8. /\ Advanced(st2, k, o2) /\ st2.broker = st.broker /\ st2.pending = st.pending \ {n}
        /\ \A j \in OrderKeys \ {k} : st2.orders[j] = st.orders[j]
    BY <1>2, <1>6, <1>7, EffectThenBooking
  <1>9. Sold(st, lots, proceeds, removed, st2)
    BY <1>6, <1>7 DEF Sold, SameAmounts
  <1>10. AccountOK(st2)
    BY <1>1, <1>2, <1>4, <1>4a, <1>5, <1>7, <1>8, <1>9, SellFilled
  <1>11. st2.orders[k] = o2
    BY <1>8 DEF Advanced
  <1>12. Trades(st, o, st2, o2)
    BY <1>2, <1>9 DEF Trades, Sold, FilledTo
  <1> QED
    BY <1>2, <1>8, <1>10, <1>11, <1>12 DEF AppliedTo, st2, next, lots


\* The same for an event that fills nothing.
LEMMA ApplyOther ==
    ASSUME NEW st, AccountOK(st), NEW k \in OrderKeys, Open(st.orders[k]),
           st.orders[k].sequence < Len(st.broker[k].events),
           NEW e, e = st.broker[k].events[st.orders[k].sequence + 1], e.kind # "FILL"
    PROVE  AppliedTo(st, k, Booked(AfterEvent(st, k, e), <<k, st.orders[k].sequence + 1>>))
  <1> DEFINE o == st.orders[k]
             b == st.broker[k]
             status == IF e.kind = "ACK" THEN "ACCEPTED" ELSE e.kind
             o2 == Stepped(o, status)
             n == <<k, o.sequence + 1>>
             next == AfterEvent(st, k, e)
             st2 == Booked(next, n)
  <1>1. /\ st \in AccountType /\ o \in Order /\ b \in Broker /\ OrderOK(o, b) /\ Exists(o)
    BY AccountFunctions DEF Open
  <1>2. n \in OrderKeys \X (Nat \ {0})
    BY <1>1, OrderFields
  <1>3. e \in Event
    BY <1>1, NextEventOfOrder
  <1>4. o2 \in Order /\ OrderOK(o2, b)
    BY <1>1, OtherEventKeepsOrder DEF Stepped
  <1>5. /\ o2.side = o.side /\ o2.quantity = o.quantity /\ o2.filled = o.filled
        /\ o2.sequence = o.sequence + 1 /\ o2.status = status
    BY <1>1 DEF Order, Stepped
  <1>6. Exists(o2) /\ (Open(o2) <=> e.kind = "ACK")
    BY <1>3, <1>5 DEF Exists, Open, TERMINAL, Event
  <1>7. Reserve(o) \in Nat /\ o.quantity - o.filled \in Nat
    <2>1. o.filled <= b.filled /\ b.filled <= o.quantity
      BY <1>1 DEF OrderOK, Follows
    <2>2. o.filled \in Nat /\ b.filled \in Nat /\ o.quantity \in Nat
      BY <1>1 DEF Order, Broker
    <2> HIDE DEF o, b
    <2>3. o.quantity - o.filled \in Nat
      BY <2>1, <2>2
    <2> QED
      BY <2>3, RequiredIsNatural DEF Reserve
  <1>8. /\ next \in AccountType
        /\ IF Open(o2) THEN SameAmounts(st, next) ELSE Freed(st, o, next)
        /\ Moves(st, k, o2, next)
    <2>1. CASE e.kind = "ACK"
      <3>1. next = [st EXCEPT !.orders[k].status = "ACCEPTED", !.orders[k].sequence = @ + 1]
        BY <2>1 DEF AfterEvent
      <3>2. o2 = Stepped(o, "ACCEPTED")
        BY <2>1
      <3> HIDE DEF next, o2
      <3> QED
        BY <1>1, <1>6, <2>1, <3>1, <3>2, AckFields
    <2>2. CASE e.kind # "ACK"
      <3>1. next = Release(st, k, e.kind)
        BY <2>2 DEF AfterEvent
      <3>2. o2 = Stepped(o, e.kind)
        BY <2>2
      <3>3. e.kind \in {"CANCELLED", "REJECTED"}
        BY <1>3, <2>2 DEF Event
      <3> HIDE DEF next, o2
      <3> QED
        BY <1>1, <1>6, <1>7, <2>2, <3>1, <3>2, <3>3, ReleaseFields
    <2> QED
      BY <2>1, <2>2
  <1> HIDE DEF next, o2, status
  <1>9. st2 \in AccountType /\ SameAmounts(next, st2) /\ Books(next, n, st2)
    BY <1>2, <1>8, BookedFields
  <1> HIDE DEF st2
  <1>10. /\ Advanced(st2, k, o2) /\ st2.broker = st.broker /\ st2.pending = st.pending \ {n}
         /\ \A j \in OrderKeys \ {k} : st2.orders[j] = st.orders[j]
    <2>1. Moves(st, k, o2, next) /\ o2 \in Order /\ OrderOK(o2, b) /\ Exists(o2)
          /\ o2.sequence = o.sequence + 1
      BY <1>4, <1>5, <1>6, <1>8
    <2> HIDE DEF AppliedTo
    <2> QED
      BY <1>9, <2>1, EffectThenBooking
  <1>11. IF Open(o2) THEN SameAmounts(st, st2) ELSE Freed(st, o, st2)
    BY <1>8, <1>9 DEF SameAmounts, Freed
  <1>12. AccountOK(st2)
    BY <1>1, <1>4, <1>5, <1>9, <1>10, <1>11, NothingFilled
  <1>13. st2.orders[k] = o2
    BY <1>10 DEF Advanced
  <1>14. Trades(st, o, st2, o2)
    <2>1. st2.shares = st.shares
      BY <1>11 DEF SameAmounts, Freed
    <2>2. st.shares \in Nat /\ o.filled \in Nat
      BY <1>1, AccountFields, OrderFields
    <2>3. o2.filled = o.filled + 0 /\ st2.shares = st.shares + 0 /\ st2.shares = st.shares - 0
      BY <1>5, <2>1, <2>2
    <2> QED
      BY <1>5, <2>3 DEF Trades
  <1> QED
    BY <1>5, <1>6, <1>10, <1>12, <1>13, <1>14 DEF AppliedTo, st2, next

\* Whatever the next event is, applying it leaves a right account, and the
\* errors of deliver() for an event after the end of an order and for a fill
\* beyond its quantity do not arise.
LEMMA ApplyKeepsAccount ==
    ASSUME NEW st, AccountOK(st), NEW k \in OrderKeys, Exists(st.orders[k]),
           st.orders[k].sequence < Len(st.broker[k].events),
           NEW e, e = st.broker[k].events[st.orders[k].sequence + 1]
    PROVE  /\ st.orders[k].status \notin TERMINAL
           /\ e.kind = "FILL" => e.lots > 0 /\ st.orders[k].filled + e.lots <= st.orders[k].quantity
           /\ AppliedTo(st, k, Booked(AfterEvent(st, k, e), <<k, st.orders[k].sequence + 1>>))
  <1>1. /\ st.orders[k] \in Order /\ st.broker[k] \in Broker
        /\ OrderOK(st.orders[k], st.broker[k])
    BY AccountFunctions
  <1>2. st.orders[k].status \notin TERMINAL
    BY <1>1, NextEventOfOrder
  <1>3. Open(st.orders[k])
    BY <1>2 DEF Open
  <1>4. CASE e.kind = "FILL" /\ st.orders[k].side = "BUY"
    <2>1. AfterEvent(st, k, e) = FillBuy(st, k, e.lots)
      BY <1>4 DEF AfterEvent
    <2>2. e.lots > 0 /\ st.orders[k].filled + e.lots <= st.orders[k].quantity
      BY <1>3, <1>4, NextFill
    <2> QED
      BY <1>2, <1>3, <1>4, <2>1, <2>2, ApplyBuy
  <1>5. CASE e.kind = "FILL" /\ st.orders[k].side = "SELL"
    <2>1. AfterEvent(st, k, e) = FillSell(st, k, e.lots)
      BY <1>5 DEF AfterEvent
    <2>2. e.lots > 0 /\ st.orders[k].filled + e.lots <= st.orders[k].quantity
      BY <1>3, <1>5, NextFill
    <2> QED
      BY <1>2, <1>3, <1>5, <2>1, <2>2, ApplySell
  <1>6. CASE e.kind # "FILL"
    BY <1>2, <1>3, <1>6, ApplyOther
  <1> QED
    BY <1>1, <1>4, <1>5, <1>6, OrderFields DEF Sides


-----------------------------------------------------------------------------
(* Commands keep the account right.                                        *)

\* Conserved() is the balance of the account with non-negative amounts.
LEMMA ConservedIsBalanced ==
    ASSUME NEW st, AccountOK(st)
    PROVE  Conserved(st) <=> 0 <= st.cash /\ 0 <= st.reservedCash /\ st.reservedCash <= st.cash
  <1>1. /\ st.cash \in Int /\ st.shares \in Nat /\ st.costBasis \in Nat /\ st.realizedPnl \in Int
        /\ st.cash + st.costBasis = InitialCapital + st.realizedPnl
    BY AccountFields
  <1>2. Holdings(st)
    BY DEF AccountOK
  <1>3. st.shares * LotPrice \in Int
    BY <1>1, ConfigAssumption
  <1>4. Value(st) = InitialCapital + st.realizedPnl + (st.shares * LotPrice - st.costBasis)
    BY <1>1, <1>3, ConfigAssumption DEF Value
  <1> QED
    BY <1>2, <1>4 DEF Conserved, Holdings

\* The closing checks look at the amounts only.
LEMMA SameMoneyConserved ==
    ASSUME NEW st, NEW st2, AccountOK(st), AccountOK(st2), SameAmounts(st, st2), Conserved(st)
    PROVE  Conserved(st2)
  BY ConservedIsBalanced DEF SameAmounts

\* A change that moves no amount and no order keeps the account right.
LEMMA SameOrdersKeepAccount ==
    ASSUME NEW st, AccountOK(st), NEW st2 \in AccountType, SameAmounts(st, st2),
           st2.orders = st.orders, st2.applied = st.applied,
           \A k \in OrderKeys : OrderOK(st.orders[k], st2.broker[k])
    PROVE  AccountOK(st2)
  BY DEF AccountOK, SameAmounts, OneOpen, Reserved, Liquidated, Holdings, Costed, Balanced,
         Funded, AppliedPrefix

\* Giving an order another status, open if it was open and the same if it had
\* ended, keeps the account right.
LEMMA RestatusKeepsAccount ==
    ASSUME NEW st, AccountOK(st), NEW k \in OrderKeys, Exists(st.orders[k]),
           NEW s \in Statuses,
           IF st.orders[k].status \in TERMINAL THEN s = st.orders[k].status
                                               ELSE s \notin TERMINAL \cup {"NONE"},
           NEW st2, st2 = [st EXCEPT !.orders[k].status = s]
    PROVE  /\ AccountOK(st2) /\ SameAmounts(st, st2)
           /\ st2.pending = st.pending
           /\ \A j \in OrderKeys : Exists(st2.orders[j]) => Exists(st.orders[j])
  <1> DEFINE o == st.orders[k]
             o2 == [o EXCEPT !.status = s]
             orders == [st.orders EXCEPT ![k] = o2]
  <1>1. /\ st \in AccountType /\ o \in Order /\ OrderOK(o, st.broker[k])
        /\ st.orders \in [OrderKeys -> Order]
    BY AccountFunctions
  <1>2. /\ o2 \in Order /\ o2.status = s /\ o2.side = o.side /\ o2.quantity = o.quantity
        /\ o2.filled = o.filled /\ o2.sequence = o.sequence
    BY <1>1 DEF Order
  <1>3. Exists(o2) /\ (Open(o2) <=> Open(o))
    BY <1>2 DEF Open, Exists
  <1>4. OrderOK(o2, st.broker[k])
    BY <1>1, <1>2, <1>3 DEF OrderOK, Follows
  <1>5. st2 = [st EXCEPT !.orders = orders]
    BY <1>1 DEF AccountType
  <1>6. orders \in [OrderKeys -> Order] /\ orders[k] = o2
        /\ \A j \in OrderKeys \ {k} : orders[j] = st.orders[j]
    BY <1>1, <1>2
  <1>7. Reserve(o2) = Reserve(o)
    BY <1>2 DEF Reserve
  <1> HIDE DEF orders, o2
  <1>8. /\ st2 \in AccountType /\ SameAmounts(st, st2) /\ st2.orders = orders
        /\ st2.broker = st.broker /\ st2.pending = st.pending /\ st2.applied = st.applied
    <2>1. st2 \in AccountType
      BY <1>1, <1>5, <1>6 DEF AccountType
    <2>2. /\ st2.orders = orders
          /\ st2.broker = st.broker /\ st2.pending = st.pending /\ st2.applied = st.applied
      BY <1>1, <1>5 DEF AccountType
    <2>3. SameAmounts(st, st2)
      BY <1>1, <1>5 DEF AccountType, SameAmounts
    <2> QED
      BY <2>1, <2>2, <2>3
  <1>9. \A j \in OrderKeys :
          /\ Exists(orders[j]) <=> Exists(st.orders[j])
          /\ Open(orders[j]) <=> Open(st.orders[j])
          /\ orders[j].side = st.orders[j].side
          /\ orders[j].quantity = st.orders[j].quantity
          /\ orders[j].filled = st.orders[j].filled
          /\ orders[j].sequence = st.orders[j].sequence
          /\ Reserve(orders[j]) = Reserve(st.orders[j])
          /\ OrderOK(orders[j], st.broker[j])
    <2> SUFFICES ASSUME NEW j \in OrderKeys
                 PROVE  /\ Exists(orders[j]) <=> Exists(st.orders[j])
                        /\ Open(orders[j]) <=> Open(st.orders[j])
                        /\ orders[j].side = st.orders[j].side
                        /\ orders[j].quantity = st.orders[j].quantity
                        /\ orders[j].filled = st.orders[j].filled
                        /\ orders[j].sequence = st.orders[j].sequence
                        /\ Reserve(orders[j]) = Reserve(st.orders[j])
                        /\ OrderOK(orders[j], st.broker[j])
      OBVIOUS
    <2>1. CASE j = k
      BY <1>2, <1>3, <1>4, <1>6, <1>7, <2>1
    <2>2. CASE j # k
      BY <1>6, <2>2, AccountFunctions
    <2> QED
      BY <2>1, <2>2
  <1>10. OneOpen(st2)
    BY <1>8, <1>9 DEF AccountOK, OneOpen
  <1>11. Reserved(st2)
    BY <1>8, <1>9 DEF AccountOK, Reserved, SameAmounts
  <1>12. Liquidated(st2)
    BY <1>8, <1>9 DEF AccountOK, Liquidated, SameAmounts
  <1>13. Holdings(st2) /\ Costed(st2) /\ Balanced(st2) /\ Funded(st2)
    BY <1>8 DEF AccountOK, Holdings, Costed, Balanced, Funded, SameAmounts
  <1>14. AppliedPrefix(st2)
    <2>1. \A j \in OrderKeys : \A i \in 1..orders[j].sequence : <<j, i>> \in st2.applied
      BY <1>8, <1>9 DEF AccountOK, AppliedPrefix
    <2>2. \A p \in st2.applied : p[2] <= orders[p[1]].sequence
      <3>1. \A p \in st.applied : p[1] \in OrderKeys
        BY <1>1 DEF AccountType
      <3> QED
        BY <1>8, <1>9, <3>1 DEF AccountOK, AppliedPrefix
    <2> QED
      BY <1>8, <2>1, <2>2 DEF AppliedPrefix
  <1> QED
    BY <1>8, <1>9, <1>10, <1>11, <1>12, <1>13, <1>14 DEF AccountOK


\* The account with a new order and its reserve.
Intended(st, op, k, lots) ==
    [st EXCEPT !.orders[k] = NewOrder(op, lots),
               !.reservedCash = IF SideOf(op) = "BUY" THEN @ + Required(lots) ELSE @,
               !.reservedShares = IF SideOf(op) = "SELL" THEN @ + lots ELSE @]

\* An order that passes the checks leaves a right and balanced account.
LEMMA IntendKeepsAccount ==
    ASSUME NEW st, AccountOK(st), Conserved(st), NEW k \in OrderKeys, ~Exists(st.orders[k]),
           \A j \in OrderKeys : ~Open(st.orders[j]),
           NEW op \in OrderOps, NEW lots \in Nat \ {0},
           SideOf(op) = "BUY" => ~st.reentryBlocked /\ Required(lots) <= Available(st),
           SideOf(op) = "SELL" => lots <= st.shares - st.reservedShares,
           NEW st2, st2 = Intended(st, op, k, lots)
    PROVE  /\ AccountOK(st2) /\ Conserved(st2) /\ st2.pending = st.pending
           /\ \A j \in OrderKeys \ {k} : Exists(st2.orders[j]) => Exists(st.orders[j])
  <1> DEFINE o == NewOrder(op, lots)
             side == SideOf(op)
             orders == [st.orders EXCEPT ![k] = o]
             reservedCash == IF side = "BUY" THEN st.reservedCash + Required(lots) ELSE st.reservedCash
             reservedShares == IF side = "SELL" THEN st.reservedShares + lots ELSE st.reservedShares
  <1>1. /\ st \in AccountType /\ OrderOK(st.orders[k], st.broker[k])
        /\ st.orders \in [OrderKeys -> Order] /\ st.broker[k] \in Broker
    BY AccountFunctions
  <1>2. /\ st.cash \in Int /\ st.reservedCash \in Int /\ st.shares \in Nat /\ st.costBasis \in Nat
        /\ st.reservedShares \in Nat /\ st.reservedShares <= st.shares
    BY AccountFields
  <1>3. side \in Sides /\ Required(lots) \in Nat
    BY RequiredIsNatural DEF SideOf, Sides
  <1> HIDE DEF side
  <1>4. /\ o \in Order /\ o.side = side /\ o.quantity = lots /\ o.filled = 0 /\ o.sequence = 0
        /\ Open(o) /\ Exists(o)
    <2>1. o = [side |-> side, quantity |-> lots, filled |-> 0, status |-> "SUBMITTING", sequence |-> 0]
      BY DEF NewOrder, side
    <2> HIDE DEF o
    <2>2. "SUBMITTING" \in Statuses
      BY DEF Statuses
    <2>3. o \in Order
      BY <1>3, <2>1, <2>2 DEF Order
    <2>4. Open(o) /\ Exists(o)
      BY <2>1 DEF Open, Exists, TERMINAL
    <2> QED
      BY <2>1, <2>3, <2>4
  <1> HIDE DEF o
  <1>5. st.reservedCash = 0 /\ st.reservedShares = 0
    BY DEF AccountOK, Reserved
  <1>6. ~Exists(st.broker[k])
    BY <1>1 DEF OrderOK
  <1>7. OrderOK(o, st.broker[k])
    <2> DEFINE b == st.broker[k]
    <2>1. /\ b.events \in Seq(Event) /\ b.filled \in Nat /\ Len(b.events) \in Nat
      BY <1>1 DEF Broker
    <2>2. b.status = "NONE" /\ Len(b.events) = 0 /\ b.filled = 0
      BY <1>1, <1>6 DEF OrderOK, LogOK, Exists
    <2> HIDE DEF b
    <2>3. LogOK(b, lots)
      BY <2>1, <2>2 DEF LogOK, Exists, TERMINAL
    <2>4. o.status \notin TERMINAL
      BY <1>4 DEF Open
    <2>5. Follows(o, b)
      BY <1>4, <2>1, <2>2, <2>4 DEF Follows
    <2>6. ~Exists(b)
      BY <2>2 DEF Exists
    <2>7. OrderOK(o, b)
      BY <1>4, <2>3, <2>5, <2>6 DEF OrderOK
    <2> QED
      BY <2>7 DEF b
  <1>8. /\ orders \in [OrderKeys -> Order] /\ orders[k] = o
        /\ \A j \in OrderKeys \ {k} : orders[j] = st.orders[j]
    BY <1>1, <1>4
  <1>9. reservedCash \in Int /\ reservedShares \in Int
    BY <1>2, <1>3
  <1>10. st2 = [st EXCEPT !.orders = orders, !.reservedCash = reservedCash,
                          !.reservedShares = reservedShares]
    BY <1>1 DEF AccountType, o, side, Intended
  <1> HIDE DEF orders, reservedCash, reservedShares
  <1>11. /\ st2 \in AccountType /\ st2.orders = orders /\ st2.broker = st.broker
         /\ st2.pending = st.pending /\ st2.applied = st.applied
         /\ st2.cash = st.cash /\ st2.shares = st.shares /\ st2.costBasis = st.costBasis
         /\ st2.realizedPnl = st.realizedPnl /\ st2.reentryBlocked = st.reentryBlocked
         /\ st2.reservedCash = reservedCash /\ st2.reservedShares = reservedShares
    <2>1. st2 \in AccountType
      BY <1>1, <1>8, <1>9, <1>10 DEF AccountType
    <2> QED
      BY <1>1, <1>10, <2>1 DEF AccountType
  <1>12. reservedCash = (IF side = "BUY" THEN Required(lots) ELSE 0)
    BY <1>3, <1>5 DEF reservedCash
  <1>13. reservedShares = (IF side = "SELL" THEN lots ELSE 0)
    BY <1>5 DEF reservedShares
  <1>14. \A j \in OrderKeys \ {k} : ~Open(st2.orders[j])
    BY <1>8, <1>11
  <1>15. OneOpen(st2)
    BY <1>14 DEF OneOpen
  <1>16. Reserved(st2)
    <2>1. Reserve(o) = Required(lots) /\ o.quantity - o.filled = lots
      BY <1>4 DEF Reserve
    <2>2. ReservedFor(st2, o)
      BY <1>4, <1>11, <1>12, <1>13, <2>1 DEF ReservedFor
    <2> QED
      BY <1>8, <1>11, <1>14, <2>2, ReservedByOne
  <1>17. Liquidated(st2)
    <2>1. st.reentryBlocked => side = "SELL" /\ st.shares = 0
      BY <1>3 DEF side, Sides, AccountOK, Liquidated
    <2> QED
      BY <1>4, <1>8, <1>11, <1>14, <2>1 DEF Liquidated
  <1>18. Holdings(st2)
    <2>1. side = "SELL" => lots <= st.shares
      BY <1>2, <1>5 DEF side
    <2> QED
      BY <1>2, <1>11, <1>13, <2>1 DEF Holdings
  <1>19. Costed(st2) /\ Balanced(st2)
    BY <1>11 DEF AccountOK, Costed, Balanced
  <1>20. \A j \in OrderKeys : OrderOK(st2.orders[j], st2.broker[j])
    BY <1>7, <1>8, <1>11 DEF AccountOK
  <1>21. AppliedPrefix(st2)
    <2>1. \A j \in OrderKeys : orders[j].sequence = st.orders[j].sequence
      <3>1. st.orders[k].sequence = 0
        BY <1>1 DEF OrderOK
      <3> QED
        BY <1>4, <1>8, <3>1
    <2>2. \A p \in st.applied : p[1] \in OrderKeys
      BY <1>1 DEF AccountType
    <2> QED
      BY <1>11, <2>1, <2>2 DEF AccountOK, AppliedPrefix
  <1>21a. 0 <= st.cash /\ 0 <= reservedCash /\ reservedCash <= st.cash
    <2>1. 0 <= st.cash /\ st.reservedCash <= st.cash
      BY ConservedIsBalanced
    <2>2. side = "BUY" => Required(lots) <= st.cash
      BY <1>2, <1>5 DEF side, Available
    <2> QED
      BY <1>2, <1>3, <1>5, <1>12, <2>1, <2>2
  <1>22. AccountOK(st2)
    <2>1. Funded(st2)
      BY <1>11, <1>21a DEF Funded
    <2> QED
      BY <1>11, <1>15, <1>16, <1>17, <1>18, <1>19, <1>20, <1>21, <2>1 DEF AccountOK
  <1>23. Conserved(st2)
    BY <1>11, <1>21a, <1>22, ConservedIsBalanced
  <1> QED
    BY <1>8, <1>11, <1>22, <1>23

\* The change of a broker order: its event log grows, its order has not ended.
LEMMA BrokerKeepsAccount ==
    ASSUME NEW st, AccountOK(st), NEW k \in OrderKeys, NEW b2 \in Broker,
           OrderOK(st.orders[k], b2),
           NEW st2, st2 = [st EXCEPT !.broker[k] = b2]
    PROVE  /\ AccountOK(st2) /\ SameAmounts(st, st2) /\ st2.pending = st.pending
           /\ st2.orders = st.orders
  <1> DEFINE broker == [st.broker EXCEPT ![k] = b2]
  <1>1. /\ st \in AccountType /\ st.broker \in [OrderKeys -> Broker]
    BY AccountFunctions
  <1>2. /\ broker \in [OrderKeys -> Broker] /\ broker[k] = b2
        /\ \A j \in OrderKeys \ {k} : broker[j] = st.broker[j]
    BY <1>1
  <1>3. st2 = [st EXCEPT !.broker = broker]
    BY <1>1 DEF AccountType
  <1> HIDE DEF broker
  <1>4. st2 \in AccountType
    BY <1>1, <1>2, <1>3 DEF AccountType
  <1>5. /\ st2.orders = st.orders /\ st2.broker = broker /\ st2.pending = st.pending
        /\ st2.applied = st.applied
    BY <1>1, <1>3 DEF AccountType
  <1>6. SameAmounts(st, st2)
    BY <1>1, <1>3 DEF AccountType, SameAmounts
  <1>7. \A j \in OrderKeys : OrderOK(st.orders[j], st2.broker[j])
    BY <1>2, <1>5 DEF AccountOK
  <1> QED
    BY <1>4, <1>5, <1>6, <1>7, SameOrdersKeepAccount

\* Submitting an order that has no broker order yet.
LEMMA DispatchKeepsOrder ==
    ASSUME NEW o \in Order, NEW b \in Broker, OrderOK(o, b), Exists(o), ~Exists(b),
           NEW b2, b2 = [status |-> "ACCEPTED", filled |-> 0, events |-> <<Ack>>]
    PROVE  b2 \in Broker /\ OrderOK(o, b2)
  <1>1. /\ b2.status = "ACCEPTED" /\ b2.filled = 0 /\ b2.events = <<Ack>>
        /\ Len(b2.events) = 1 /\ b2.events[1] = Ack
    OBVIOUS
  <1>2. Ack \in Event /\ Ack.kind = "ACK" /\ Ack.lots = 0 /\ Ack.total = 0
    BY DEF Ack, Event
  <1>3. b2 \in Broker
    BY <1>1, <1>2 DEF Broker, Statuses
  <1>4. /\ o.quantity \in Nat \ {0} /\ o.sequence = 0 /\ o.filled = 0 /\ o.status \notin TERMINAL
    <2>1. b.status = "NONE" /\ Len(b.events) = 0
      BY DEF OrderOK, LogOK, Exists
    <2>2. o.sequence \in Nat /\ o.quantity \in Nat
      BY OrderFields
    <2>3. o.sequence = 0
      BY <2>1, <2>2 DEF OrderOK, Follows
    <2>4. o.status \notin TERMINAL
      BY <2>1 DEF OrderOK, Follows, TERMINAL
    <2> QED
      BY <2>2, <2>3, <2>4 DEF OrderOK, Follows
  <1> HIDE DEF Ack
  <1>5. LogOK(b2, o.quantity)
    BY <1>1, <1>2, <1>4 DEF LogOK, Exists, TERMINAL
  <1>6. Follows(o, b2)
    BY <1>1, <1>4 DEF Follows
  <1> QED
    BY <1>1, <1>3, <1>4, <1>5, <1>6 DEF OrderOK, Exists, TERMINAL


\* The broker adds an event to an order it works on: the log stays in order.
LEMMA BrokerEventKeepsOrder ==
    ASSUME NEW o \in Order, NEW b \in Broker, OrderOK(o, b), Exists(o),
           Exists(b), b.status \notin TERMINAL,
           NEW e \in Event, e.total = b.filled + e.lots, e.total <= o.quantity,
           e.kind = "FILL" <=> e.lots > 0,
           e.kind # "ACK",
           NEW b2 \in Broker, b2.events = Append(b.events, e), b2.filled = e.total,
           b2.status = (IF e.kind # "FILL" THEN e.kind
                        ELSE IF e.total = o.quantity THEN "FILLED" ELSE "PARTIALLY_FILLED")
    PROVE  OrderOK(o, b2)
  <1> DEFINE n == Len(b.events)
  <1>1. /\ b.events \in Seq(Event) /\ n \in Nat /\ b.filled \in Nat
        /\ o.quantity \in Nat /\ o.filled \in Nat /\ o.sequence \in Nat
        /\ e.total \in Nat /\ e.lots \in Nat
    BY DEF Broker, Order, Event
  <1>2. /\ Len(b2.events) = n + 1 /\ b2.events[n + 1] = e
        /\ \A i \in 1..n : b2.events[i] = b.events[i]
    BY <1>1
  <1>3. n > 0 /\ b.events[n].total = b.filled
    BY <1>1 DEF OrderOK, LogOK, Exists
  <1>4. /\ b.filled < o.quantity
        /\ b.status \in {"ACCEPTED", "PARTIALLY_FILLED"}
    BY <1>1 DEF OrderOK, LogOK, Exists, TERMINAL
  <1>5. o.status \notin TERMINAL
    BY DEF OrderOK, Follows
  <1> HIDE DEF n
  <1>6. Follows(o, b2)
    <2>1. o.sequence <= n /\ o.filled <= b.filled
      BY DEF OrderOK, Follows, n
    <2>2. o.filled = (IF o.sequence = 0 THEN 0 ELSE b2.events[o.sequence].total)
      <3>1. o.filled = (IF o.sequence = 0 THEN 0 ELSE b.events[o.sequence].total)
        BY DEF OrderOK, Follows
      <3>2. o.sequence # 0 => b2.events[o.sequence] = b.events[o.sequence]
        BY <1>1, <1>2, <2>1
      <3> QED
        BY <3>1, <3>2
    <2>3. o.sequence <= n + 1 /\ o.filled <= e.total
      BY <1>1, <2>1
    <2> QED
      BY <1>2, <1>5, <2>2, <2>3 DEF Follows
  <1>7. o.sequence <= n
    BY DEF OrderOK, Follows, n
  <1>8. b2.status # "NONE" /\ b2.status \in TERMINAL \cup {"PARTIALLY_FILLED"}
    BY DEF Event, TERMINAL
  <1>9. \A i \in 1..n + 1 :
          /\ b2.events[i].total = (IF i = 1 THEN 0 ELSE b2.events[i - 1].total) + b2.events[i].lots
          /\ b2.events[i].total <= b2.filled
          /\ b2.events[i].kind = "FILL" <=> b2.events[i].lots > 0
          /\ b2.events[i].kind \in {"CANCELLED", "REJECTED"} => i = n + 1 /\ b2.status = b2.events[i].kind
          /\ i < n + 1 => b2.events[i].total < o.quantity
    <2> SUFFICES ASSUME NEW i \in 1..n + 1
                 PROVE  /\ b2.events[i].total = (IF i = 1 THEN 0 ELSE b2.events[i - 1].total)
                                                    + b2.events[i].lots
                        /\ b2.events[i].total <= b2.filled
                        /\ b2.events[i].kind = "FILL" <=> b2.events[i].lots > 0
                        /\ b2.events[i].kind \in {"CANCELLED", "REJECTED"} =>
                              i = n + 1 /\ b2.status = b2.events[i].kind
                        /\ i < n + 1 => b2.events[i].total < o.quantity
      OBVIOUS
    <2>1. CASE i = n + 1
      <3>1. b2.events[i] = e
        BY <1>2, <2>1
      <3>2. i # 1 /\ b2.events[i - 1] = b.events[n]
        BY <1>1, <1>2, <1>3, <2>1
      <3>3. e.kind \in {"CANCELLED", "REJECTED"} => b2.status = e.kind
        OBVIOUS
      <3>4. ~(i < n + 1) /\ e.total <= b2.filled
        BY <1>1, <2>1
      <3> QED
        BY <1>3, <2>1, <3>1, <3>2, <3>3, <3>4
    <2>2. CASE i # n + 1
      <3>1. i \in 1..n
        BY <1>1, <2>2
      <3>2. b2.events[i] = b.events[i]
        BY <1>2, <3>1
      <3>3. i # 1 => b2.events[i - 1] = b.events[i - 1]
        BY <1>1, <1>2, <3>1
      <3>4. b.events[i] \in Event
        BY <1>1, <3>1 DEF n
      <3> DEFINE d == b.events[i]
      <3>5. /\ d.total = (IF i = 1 THEN 0 ELSE b.events[i - 1].total) + d.lots
            /\ d.total <= b.filled
            /\ d.kind = "FILL" <=> d.lots > 0
            /\ d.kind \in {"CANCELLED", "REJECTED"} => b.status = d.kind
        BY <3>1 DEF OrderOK, LogOK, n
      <3>6. d.kind \notin {"CANCELLED", "REJECTED"}
        BY <1>4, <3>5
      <3>7. d.total \in Nat
        BY <3>4 DEF Event
      <3> HIDE DEF d
      <3>8. d.total <= b2.filled /\ d.total < o.quantity
        BY <1>1, <1>4, <3>5, <3>7
      <3>9. b2.events[i] = d
        BY <3>2 DEF d
      <3> QED
        BY <3>3, <3>5, <3>6, <3>8, <3>9
    <2> QED
      BY <2>1, <2>2
  <1>10. LogOK(b2, o.quantity)
    <2>1. Len(b2.events) # 0 /\ Len(b2.events) > 0 /\ b2.events[Len(b2.events)] = e
      BY <1>1, <1>2
    <2>2. b2.status = "FILLED" <=> b2.filled = o.quantity
      BY <1>1, <1>4 DEF Event
    <2>3. b2.status \in {"CANCELLED", "REJECTED"} => e.kind = b2.status
      OBVIOUS
    <2> QED
      BY <1>2, <1>8, <1>9, <2>1, <2>2, <2>3 DEF LogOK
  <1>11. o.sequence # Len(b2.events)
    BY <1>1, <1>2, <1>7
  <1>12. o.quantity > 0
    BY DEF OrderOK
  <1> QED
    BY <1>6, <1>10, <1>11, <1>12 DEF OrderOK

-----------------------------------------------------------------------------
(* How a command ends.                                                     *)

\* A command that is refused leaves the journal's state.
LEMMA RefuseKeepsInv ==
    ASSUME IInv, NEW cause, Refuse(cause),
           cause \in Causes \ {"afterTerminal", "overfill", "unbalancedCommand"},
           FeeDen = 1 => cause # "unbalancedDelivery"
    PROVE  IInv'
  <1>1. state' = stored /\ stored' = stored /\ seen' = seen /\ refusal' = cause
        /\ delivery' = NoDelivery
    BY DEF Refuse
  <1>2. Idle'
    BY <1>1 DEF Idle
  <1> QED
    BY <1>1, <1>2 DEF IInv, OnlyDeliveryBreaksChecks, ReconcileRecovers

\* A command that ends in a right account is stored or refused; outside a
\* delivery it has to be in balance.
LEMMA FinishKeepsInv ==
    ASSUME IInv, NEW st, AccountOK(st), st.pending = {}, NEW keys \in SUBSET OrderKeys,
           \A k \in OrderKeys : Exists(st.orders[k]) => k \in seen \cup keys,
           Idle => Conserved(st),
           Finish(st, keys)
    PROVE  IInv'
  <1>1. CASE Conserved(st)
    <2>1. /\ state' = st /\ stored' = st /\ refusal' = "none" /\ delivery' = NoDelivery
          /\ seen' = seen \cup keys
      BY <1>1 DEF Finish
    <2>2. Idle'
      BY <2>1 DEF Idle
    <2>3. seen' \subseteq OrderKeys
      BY <2>1 DEF IInv
    <2>4. refusal' \in Causes /\ OnlyDeliveryBreaksChecks' /\ ReconcileRecovers'
      BY <2>1 DEF Causes, OnlyDeliveryBreaksChecks, ReconcileRecovers
    <2>5. \A k \in OrderKeys : Exists(state'.orders[k]) \/ Exists(stored'.orders[k]) => k \in seen'
      BY <2>1
    <2> QED
      BY <1>1, <2>1, <2>2, <2>3, <2>4, <2>5 DEF IInv
  <1>2. CASE ~Conserved(st)
    <2>1. ~Idle /\ Refuse("unbalancedDelivery")
      BY <1>2 DEF Finish
    <2>2. FeeDen # 1
      <3>1. 0 <= st.reservedCash /\ st.reservedCash <= st.cash => 0 <= st.cash
        BY AccountFields
      <3> QED
        BY <1>2, <3>1, ConservedIsBalanced DEF AccountOK, Funded
    <2> QED
      BY <2>1, <2>2, RefuseKeepsInv DEF Causes
  <1> QED
    BY <1>1, <1>2

\* Between commands the working state is the stored one, and in balance.
LEMMA IdleFacts ==
    ASSUME IInv, Idle
    PROVE  /\ AccountOK(state) /\ Conserved(state) /\ state.pending = {}
           /\ \A k \in OrderKeys : Exists(state.orders[k]) => k \in seen
  BY DEF IInv

\* A command that only writes to the log (blocked, repeated, not found).
LEMMA UnchangedKeepsInv ==
    ASSUME IInv, Idle, NEW keys \in SUBSET OrderKeys, Finish(state, keys)
    PROVE  IInv'
  <1>1. \A k \in OrderKeys : Exists(state.orders[k]) => k \in seen \cup keys
    BY IdleFacts
  <1> QED
    BY <1>1, IdleFacts, FinishKeepsInv

\* A command that changes no amount passes the closing checks.
LEMMA SameMoneyKeepsInv ==
    ASSUME IInv, Idle, NEW st, AccountOK(st), SameAmounts(state, st),
           st.pending = state.pending,
           \A k \in OrderKeys : Exists(st.orders[k]) => Exists(state.orders[k]),
           Finish(st, {})
    PROVE  IInv'
  <1>1. Conserved(st) /\ st.pending = {}
    BY IdleFacts, SameMoneyConserved
  <1>2. \A k \in OrderKeys : Exists(st.orders[k]) => k \in seen \cup {}
    BY IdleFacts
  <1>3. {} \in SUBSET OrderKeys
    OBVIOUS
  <1> QED
    BY <1>1, <1>2, <1>3, FinishKeepsInv


-----------------------------------------------------------------------------
(* Each command.                                                           *)

\* STOP.
LEMMA StopKeepsInv ==
    ASSUME IInv, Stop
    PROVE  IInv'
  <1> DEFINE st == [state EXCEPT !.stopped = TRUE]
  <1>1. Idle /\ Finish(st, {})
    BY DEF Stop
  <1>2. AccountOK(state) /\ state \in AccountType
    BY <1>1, IdleFacts DEF AccountOK
  <1>3. st \in AccountType
    BY <1>2 DEF AccountType
  <1>4. /\ st.orders = state.orders /\ st.applied = state.applied /\ st.broker = state.broker
        /\ st.pending = state.pending
    BY <1>2 DEF AccountType
  <1>5. SameAmounts(state, st)
    BY <1>2 DEF AccountType, SameAmounts
  <1> HIDE DEF st
  <1>6. AccountOK(st)
    <2>1. \A k \in OrderKeys : OrderOK(state.orders[k], st.broker[k])
      BY <1>2, <1>4 DEF AccountOK
    <2> QED
      BY <1>2, <1>3, <1>4, <1>5, <2>1, SameOrdersKeepAccount
  <1> QED
    BY <1>1, <1>4, <1>5, <1>6, SameMoneyKeepsInv

\* STRATEGY_BUY's own quantity is an integer.
LEMMA StrategyLotsIsInteger ==
    ASSUME NEW st, AccountOK(st)
    PROVE  StrategyLots(st) \in Int
  <1> DEFINE gap    == Value(st) * WNum - st.shares * LotPrice * WDen
             price  == LotPrice * WDen * FeeDen + WNum * FeeNum
             target == (gap * FeeDen) \div price
             unit   == LotPrice * FeeDen + FeeNum
             cash   == (Available(st) * FeeDen) \div unit
             top    == MaxOrderValue \div LotPrice
             budget == LowerOf(top, LowerOf(target, cash))
  <1>1. \A a \in Int, b \in Nat \ {0} : a \div b \in Int
    OBVIOUS
  <1>2. \A a, b \in Nat \ {0} : a * b \in Nat \ {0}
    OBVIOUS
  <1>3. \A a, b \in Int : a * b \in Int
    OBVIOUS
  <1>4. /\ LotPrice \in Nat \ {0} /\ FeeNum \in Nat /\ FeeDen \in Nat \ {0}
        /\ WNum \in Nat \ {0} /\ WDen \in Nat \ {0} /\ MaxOrderValue \in Int
    BY ConfigAssumption
  <1>5. st.cash \in Int /\ st.shares \in Int /\ st.reservedCash \in Int
    BY AccountFields
  <1>6. Value(st) \in Int /\ Available(st) \in Int
    <2>1. st.shares * LotPrice \in Int
      BY <1>3, <1>4, <1>5
    <2> QED
      BY <1>5, <2>1 DEF Value, Available
  <1>7. gap * FeeDen \in Int
    <2>1. Value(st) * WNum \in Int /\ st.shares * LotPrice \in Int
      BY <1>3, <1>4, <1>5, <1>6
    <2>2. st.shares * LotPrice * WDen \in Int
      BY <1>3, <1>4, <2>1
    <2>3. gap \in Int
      BY <2>1, <2>2
    <2> HIDE DEF gap
    <2> QED
      BY <1>3, <1>4, <2>3
  <1>8. price \in Nat \ {0}
    <2>1. LotPrice * WDen \in Nat \ {0}
      BY <1>2, <1>4
    <2>2. LotPrice * WDen * FeeDen \in Nat \ {0}
      BY <1>2, <1>4, <2>1
    <2>3. WNum * FeeNum \in Nat
      BY <1>4
    <2> QED
      BY <2>2, <2>3
  <1>9. unit \in Nat \ {0}
    <2>1. LotPrice * FeeDen \in Nat \ {0}
      BY <1>2, <1>4
    <2> QED
      BY <1>4, <2>1
  <1>10. Available(st) * FeeDen \in Int
    BY <1>3, <1>4, <1>6
  <1> HIDE DEF gap, price, unit
  <1>11. target \in Int /\ cash \in Int /\ top \in Int
    BY <1>1, <1>4, <1>7, <1>8, <1>9, <1>10
  <1> HIDE DEF target, cash, top
  <1>12. budget \in Int
    BY <1>11 DEF LowerOf
  <1>13. StrategyLots(st) = IF budget < 0 THEN 0 ELSE budget
    BY DEF StrategyLots, budget, top, cash, target, gap, price, unit
  <1> QED
    BY <1>12, <1>13

\* BUY, SELL, STRATEGY_BUY and STALE_BUY.
LEMMA PlaceOrderKeepsInv ==
    ASSUME IInv, NEW op \in OrderOps, NEW k \in OrderKeys, NEW lots \in Int,
           PlaceOrder(op, k, lots)
    PROVE  IInv'
  <1>1. Idle /\ k \notin seen
    BY DEF PlaceOrder, Intend, Block
  <1>2. {k} \in SUBSET OrderKeys
    OBVIOUS
  <1>3. CASE Block(op, k, lots)
    BY <1>1, <1>2, <1>3, UnchangedKeepsInv DEF Block
  <1>4. CASE Intend(op, k, lots)
    <2> DEFINE st == Intended(state, op, k, lots)
    <2>1. Admissible(op, lots) /\ Finish(st, {k})
      BY <1>4 DEF Intend, Intended
    <2>2. lots \in Nat \ {0}
      BY <2>1 DEF Admissible
    <2>3. /\ \A j \in OrderKeys : ~Open(state.orders[j])
          /\ SideOf(op) = "BUY" => ~state.reentryBlocked /\ Required(lots) <= Available(state)
          /\ SideOf(op) = "SELL" => lots <= state.shares - state.reservedShares
      BY <2>1 DEF Admissible
    <2>4. AccountOK(state) /\ Conserved(state) /\ state.pending = {} /\ ~Exists(state.orders[k])
      BY <1>1, IdleFacts
    <2>5. /\ AccountOK(st) /\ Conserved(st) /\ st.pending = state.pending
          /\ \A j \in OrderKeys \ {k} : Exists(st.orders[j]) => Exists(state.orders[j])
      BY <2>2, <2>3, <2>4, IntendKeepsAccount
    <2> HIDE DEF st
    <2>6. \A j \in OrderKeys : Exists(st.orders[j]) => j \in seen \cup {k}
      BY <1>1, <2>5, IdleFacts
    <2> QED
      BY <1>2, <2>1, <2>4, <2>5, <2>6, FinishKeepsInv
  <1> QED
    BY <1>3, <1>4 DEF PlaceOrder

\* DISPATCH.
LEMMA DispatchKeepsInv ==
    ASSUME IInv, NEW k \in OrderKeys, Dispatch(k)
    PROVE  IInv'
  <1> DEFINE b2 == [status |-> "ACCEPTED", filled |-> 0, events |-> <<Ack>>]
             st == [state EXCEPT !.broker[k] = b2]
  <1>1. Idle /\ Exists(state.orders[k])
    BY DEF Dispatch
  <1>2. AccountOK(state)
    BY <1>1, IdleFacts
  <1>3. CASE Exists(state.broker[k])
    <2>1. Finish(state, {})
      BY <1>3 DEF Dispatch
    <2>2. {} \in SUBSET OrderKeys
      OBVIOUS
    <2> QED
      BY <1>1, <2>1, <2>2, UnchangedKeepsInv
  <1>4. CASE ~Exists(state.broker[k])
    <2>1. Finish(st, {})
      BY <1>4 DEF Dispatch
    <2>2. /\ state.orders[k] \in Order /\ state.broker[k] \in Broker
          /\ OrderOK(state.orders[k], state.broker[k])
      BY <1>2, AccountFunctions
    <2>3. b2 \in Broker /\ OrderOK(state.orders[k], b2)
      BY <1>1, <1>4, <2>2, DispatchKeepsOrder
    <2> HIDE DEF b2
    <2>4. AccountOK(st) /\ SameAmounts(state, st) /\ st.pending = state.pending
          /\ st.orders = state.orders
      BY <1>2, <2>3, BrokerKeepsAccount
    <2> HIDE DEF st
    <2> QED
      BY <1>1, <2>1, <2>4, SameMoneyKeepsInv
  <1> QED
    BY <1>3, <1>4

\* TIMEOUT.
LEMMA TimeoutKeepsInv ==
    ASSUME IInv, NEW k \in OrderKeys, Timeout(k)
    PROVE  IInv'
  <1> DEFINE o == state.orders[k]
             s == IF o.status \in TERMINAL THEN o.status ELSE "UNKNOWN"
             st == [state EXCEPT !.orders[k].status = s]
  <1>1. Idle /\ Exists(state.orders[k])
    BY DEF Timeout
  <1>2. AccountOK(state) /\ o \in Order /\ state \in AccountType
    BY <1>1, IdleFacts, AccountFunctions
  <1>3. Finish(st, {})
    <2>1. st = [state EXCEPT !.orders[k].status = IF @ \in TERMINAL THEN @ ELSE "UNKNOWN"]
      BY <1>2 DEF AccountType
    <2> QED
      BY <2>1 DEF Timeout
  <1>4. s \in Statuses /\ (o.status \notin TERMINAL => s \notin TERMINAL \cup {"NONE"})
    BY <1>2, OrderFields DEF Statuses, TERMINAL
  <1>5. IF o.status \in TERMINAL THEN s = o.status ELSE s \notin TERMINAL \cup {"NONE"}
    BY <1>4
  <1> HIDE DEF s
  <1>6. /\ AccountOK(st) /\ SameAmounts(state, st) /\ st.pending = state.pending
        /\ \A j \in OrderKeys : Exists(st.orders[j]) => Exists(state.orders[j])
    BY <1>1, <1>2, <1>4, <1>5, RestatusKeepsAccount
  <1> HIDE DEF st
  <1> QED
    BY <1>1, <1>3, <1>6, SameMoneyKeepsInv

\* What the broker's own commands share.
LEMMA BrokerEventKeepsInv ==
    ASSUME IInv, Idle, NEW k \in OrderKeys, Working(k), NEW e \in Event, NEW b2 \in Broker,
           e.total = state.broker[k].filled + e.lots, e.total <= state.orders[k].quantity,
           e.kind = "FILL" <=> e.lots > 0, e.kind # "ACK",
           b2.events = Append(state.broker[k].events, e), b2.filled = e.total,
           b2.status = (IF e.kind # "FILL" THEN e.kind
                        ELSE IF e.total = state.orders[k].quantity THEN "FILLED" ELSE "PARTIALLY_FILLED"),
           Finish([state EXCEPT !.broker[k] = b2], {})
    PROVE  IInv'
  <1> DEFINE o == state.orders[k]
             b == state.broker[k]
             st == [state EXCEPT !.broker[k] = b2]
  <1>1. AccountOK(state) /\ o \in Order /\ b \in Broker /\ OrderOK(o, b)
    BY IdleFacts, AccountFunctions
  <1>2. Exists(b) /\ b.status \notin TERMINAL /\ Exists(o)
    BY <1>1 DEF Working, OrderOK
  <1>3. OrderOK(o, b2)
    BY <1>1, <1>2, BrokerEventKeepsOrder
  <1>4. AccountOK(st) /\ SameAmounts(state, st) /\ st.pending = state.pending
        /\ st.orders = state.orders
    BY <1>1, <1>3, BrokerKeepsAccount
  <1> HIDE DEF st
  <1> QED
    BY <1>4, SameMoneyKeepsInv DEF st

\* PARTIAL_FILL and FILL.
LEMMA BrokerFillKeepsInv ==
    ASSUME IInv, NEW op, NEW k \in OrderKeys, NEW lots, BrokerFill(op, k, lots)
    PROVE  IInv'
  <1> DEFINE b == state.broker[k]
             q == state.orders[k].quantity
             filled == b.filled + lots
             e == [kind |-> "FILL", lots |-> lots, total |-> filled]
             b2 == [status |-> IF lots = Remaining(k) THEN "FILLED" ELSE "PARTIALLY_FILLED",
                    filled |-> filled, events |-> Append(b.events, e)]
  <1>1. /\ Idle /\ Working(k) /\ lots \in 1..Remaining(k)
        /\ Finish([state EXCEPT !.broker[k] = b2], {})
    BY DEF BrokerFill
  <1>2. /\ AccountOK(state) /\ state.orders[k] \in Order /\ b \in Broker
    BY <1>1, IdleFacts, AccountFunctions
  <1>3. q \in Nat /\ b.filled \in Nat /\ b.events \in Seq(Event)
    BY <1>2, OrderFields DEF Broker
  <1>4. Remaining(k) = q - b.filled
    BY DEF Remaining
  <1> HIDE DEF b, q
  <1>5. /\ lots \in Nat \ {0} /\ filled \in Nat /\ filled <= q /\ (lots = Remaining(k) <=> filled = q)
    BY <1>1, <1>3, <1>4
  <1> HIDE DEF filled
  <1>6. e \in Event /\ e.kind = "FILL" /\ e.lots = lots /\ e.total = filled
    BY <1>5 DEF Event
  <1>7. /\ b2.events = Append(b.events, e) /\ b2.filled = filled
        /\ b2.status = (IF filled = q THEN "FILLED" ELSE "PARTIALLY_FILLED")
    BY <1>5
  <1>8. b2 \in Broker
    <2> DEFINE status == IF lots = Remaining(k) THEN "FILLED" ELSE "PARTIALLY_FILLED"
               events == Append(b.events, e)
    <2>1. status \in Statuses
      BY DEF Statuses, TERMINAL
    <2>2. events \in Seq(Event)
      BY <1>3, <1>6
    <2>3. b2 = [status |-> status, filled |-> filled, events |-> events]
      OBVIOUS
    <2> HIDE DEF status, events, b2, e
    <2> QED
      BY <1>5, <2>1, <2>2, <2>3 DEF Broker
  <1> HIDE DEF e, b2
  <1>9. e.total = state.broker[k].filled + e.lots
    BY <1>6 DEF filled, b
  <1>10. e.kind = "FILL" <=> e.lots > 0
    BY <1>5, <1>6
  <1> QED
    BY <1>1, <1>5, <1>6, <1>7, <1>8, <1>9, <1>10, BrokerEventKeepsInv DEF b, q

\* CANCEL and REJECT.
LEMMA BrokerCloseKeepsInv ==
    ASSUME IInv, NEW op, NEW k \in OrderKeys, BrokerClose(op, k)
    PROVE  IInv'
  <1> DEFINE b == state.broker[k]
             kind == ClosedAs(op)
             e == [kind |-> kind, lots |-> 0, total |-> b.filled]
             b2 == [b EXCEPT !.status = kind, !.events = Append(@, e)]
  <1>1. Idle /\ Working(k)
    BY DEF BrokerClose
  <1>2. /\ AccountOK(state) /\ state \in AccountType /\ state.orders[k] \in Order /\ b \in Broker
        /\ OrderOK(state.orders[k], b)
    BY <1>1, IdleFacts, AccountFunctions
  <1>3. b.filled \in Nat /\ b.events \in Seq(Event) /\ b.filled <= state.orders[k].quantity
    BY <1>2 DEF Broker, OrderOK, Follows
  <1>4. kind \in {"CANCELLED", "REJECTED"}
    BY DEF ClosedAs
  <1>5. Finish([state EXCEPT !.broker[k] = b2], {})
    <2>1. [state EXCEPT !.broker[k].status = kind,
                        !.broker[k].events = Append(@, [kind |-> kind, lots |-> 0,
                                                        total |-> state.broker[k].filled])]
            = [state EXCEPT !.broker[k] = b2]
      BY <1>2 DEF AccountType, Broker
    <2> QED
      BY <2>1 DEF BrokerClose
  <1> HIDE DEF b, kind
  <1>6. e \in Event /\ e.kind = kind /\ e.lots = 0 /\ e.total = b.filled
    BY <1>3, <1>4 DEF Event
  <1>7. b2.events = Append(b.events, e) /\ b2.filled = b.filled /\ b2.status = kind
    BY <1>2 DEF Broker
  <1>8. b2 \in Broker
    <2> DEFINE events == Append(b.events, e)
    <2>1. kind \in Statuses /\ events \in Seq(Event)
      BY <1>3, <1>4, <1>6 DEF Statuses, TERMINAL
    <2>2. b2 = [b EXCEPT !.status = kind, !.events = events]
      BY <1>2 DEF Broker
    <2> HIDE DEF events, b2, e
    <2> QED
      BY <1>2, <2>1, <2>2 DEF Broker
  <1> HIDE DEF e, b2
  <1>9. e.total = state.broker[k].filled + e.lots /\ e.total <= state.orders[k].quantity
    BY <1>3, <1>6 DEF b
  <1>10. /\ e.kind # "FILL" /\ e.kind # "ACK" /\ ~(e.lots > 0)
    BY <1>4, <1>6
  <1> QED
    BY <1>1, <1>5, <1>6, <1>7, <1>8, <1>9, <1>10, BrokerEventKeepsInv DEF b


-----------------------------------------------------------------------------
(* Delivery.                                                               *)

\* Each way of delivering n events hands over every one of them.
LEMMA DeliveryCovers ==
    ASSUME NEW op \in MirrorOps, NEW n \in Nat
    PROVE  /\ Delivery(op, n) \in Seq(1..n)
           /\ \A i \in 1..n : \E j \in 1..Len(Delivery(op, n)) : Delivery(op, n)[j] = i
  <1>1. /\ Forward(n) \in Seq(1..n) /\ Len(Forward(n)) = n
        /\ \A i \in 1..n : Forward(n)[i] = i
    BY DEF Forward
  <1>2. CASE op = "RECONCILE"
    <2>1. Delivery(op, n) = Forward(n)
      BY <1>2 DEF Delivery
    <2> QED
      BY <1>1, <2>1
  <1>3. CASE op = "REVERSE"
    <2> DEFINE back == [i \in 1..n |-> n + 1 - i]
    <2>1. Delivery(op, n) = back
      BY <1>3 DEF Delivery
    <2>2. back \in Seq(1..n) /\ Len(back) = n
      OBVIOUS
    <2>3. ASSUME NEW i \in 1..n PROVE \E j \in 1..n : back[j] = i
      <3>1. n + 1 - i \in 1..n /\ back[n + 1 - i] = i
        OBVIOUS
      <3> QED
        BY <3>1
    <2> HIDE DEF back
    <2> QED
      BY <2>1, <2>2, <2>3
  <1>4. CASE op = "DUPLICATE"
    <2> DEFINE f == Forward(n)
    <2>1. Delivery(op, n) = f \o f
      BY <1>4 DEF Delivery
    <2> HIDE DEF f
    <2>2. f \in Seq(1..n) /\ Len(f) = n /\ \A i \in 1..n : f[i] = i
      BY <1>1 DEF f
    <2>3. f \o f \in Seq(1..n) /\ Len(f \o f) = n + n /\ \A i \in 1..n : (f \o f)[i] = f[i]
      BY <2>2
    <2>4. \A i \in 1..n : i \in 1..n + n
      OBVIOUS
    <2> QED
      BY <2>1, <2>2, <2>3, <2>4
  <1> QED
    BY <1>2, <1>3, <1>4 DEF MirrorOps

\* RECONCILE, REVERSE and DUPLICATE begin with every event still to come.
LEMMA StartDeliveryKeepsInv ==
    ASSUME IInv, NEW op \in MirrorOps, NEW k \in OrderKeys, StartDelivery(op, k)
    PROVE  IInv'
  <1> DEFINE n == Len(state.broker[k].events)
             left == Delivery(op, n)
  <1>1. /\ Idle /\ Exists(state.orders[k]) /\ Exists(state.broker[k])
        /\ delivery' = [op |-> op, order |-> k, left |-> left]
        /\ state' = state /\ stored' = stored /\ seen' = seen /\ refusal' = refusal
    BY DEF StartDelivery
  <1>2. n \in Nat
    BY <1>1, IdleFacts, AccountFunctions DEF Broker
  <1>3. state.pending = {}
    BY <1>1, IdleFacts
  <1> HIDE DEF n
  <1>4. left \in Seq(1..n) /\ \A i \in 1..n : \E j \in 1..Len(left) : left[j] = i
    BY <1>2, DeliveryCovers
  <1> HIDE DEF left
  <1>5. delivery'.op = op /\ delivery'.order = k /\ delivery'.left = left
    BY <1>1
  <1>6. DeliveryOK'
    <2>1. delivery' \in [op : MirrorOps, order : OrderKeys, left : Seq(1..n)]
      BY <1>1, <1>4
    <2> QED
      BY <1>1, <1>3, <1>4, <1>5, <2>1 DEF DeliveryOK, n
  <1>7. ~Idle'
    BY <1>5 DEF Idle, NoDelivery, MirrorOps
  <1> QED
    BY <1>1, <1>6, <1>7 DEF IInv, OnlyDeliveryBreaksChecks, ReconcileRecovers

\* In a delivery, the facts about its order.
LEMMA DeliveryFacts ==
    ASSUME IInv, ~Idle
    PROVE  LET k == delivery.order  n == Len(state.broker[k].events)
           IN  /\ k \in OrderKeys /\ n \in Nat /\ state.orders[k].sequence \in Nat
               /\ AccountOK(state) /\ DeliveryOK
               /\ Exists(state.orders[k]) /\ Exists(state.broker[k])
               /\ state.orders[k] \in Order /\ state.broker[k] \in Broker
               /\ OrderOK(state.orders[k], state.broker[k])
  <1>1. AccountOK(state) /\ DeliveryOK
    BY DEF IInv
  <1>2. /\ delivery.order \in OrderKeys
        /\ Exists(state.orders[delivery.order]) /\ Exists(state.broker[delivery.order])
    BY <1>1 DEF DeliveryOK
  <1>3. /\ state.orders[delivery.order] \in Order /\ state.broker[delivery.order] \in Broker
        /\ OrderOK(state.orders[delivery.order], state.broker[delivery.order])
    BY <1>1, <1>2, AccountFunctions
  <1>4. Len(state.broker[delivery.order].events) \in Nat
    BY <1>3 DEF Broker
  <1> QED
    BY <1>1, <1>2, <1>3, <1>4, OrderFields

\* An event put aside in pending changes nothing else.
LEMMA PendingKeepsAccount ==
    ASSUME NEW st, AccountOK(st), NEW e \in OrderKeys \X (Nat \ {0}),
           NEW st2, st2 = [st EXCEPT !.pending = @ \cup {e}]
    PROVE  /\ AccountOK(st2) /\ st2.orders = st.orders /\ st2.broker = st.broker
           /\ st2.applied = st.applied /\ st2.pending = st.pending \cup {e}
  <1>1. st \in AccountType
    BY DEF AccountOK
  <1>2. /\ st2 \in AccountType /\ st2.orders = st.orders /\ st2.broker = st.broker
        /\ st2.applied = st.applied /\ st2.pending = st.pending \cup {e}
    BY <1>1 DEF AccountType
  <1>3. SameAmounts(st, st2)
    BY <1>1 DEF AccountType, SameAmounts
  <1>4. \A k \in OrderKeys : OrderOK(st.orders[k], st2.broker[k])
    BY <1>2 DEF AccountOK
  <1> QED
    BY <1>2, <1>3, <1>4, SameOrdersKeepAccount

\* A sequence that is not empty is its head and its tail.
LEMMA HeadAndTail ==
    ASSUME NEW S, NEW q \in Seq(S), q # <<>>
    PROVE  /\ Head(q) \in S /\ Tail(q) \in Seq(S) /\ Len(q) \in Nat
           /\ Len(Tail(q)) = Len(q) - 1 /\ Head(q) = q[1]
           /\ \A j \in 1..Len(q) - 1 : Tail(q)[j] = q[j + 1]
  OBVIOUS

\* Handing over an event keeps every event applied, waiting or to come.
LEMMA ReceiveKeepsInv ==
    ASSUME IInv, Receive
    PROVE  IInv'
  <1> DEFINE k == delivery.order
             left == delivery.left
             i == Head(left)
             n == Len(state.broker[k].events)
             s == state.orders[k].sequence
  <1>1. /\ ~Idle /\ left # <<>>
        /\ delivery' = [delivery EXCEPT !.left = Tail(left)]
        /\ state' = IF <<k, i>> \in state.applied THEN state
                    ELSE [state EXCEPT !.pending = @ \cup {<<k, i>>}]
        /\ stored' = stored /\ seen' = seen /\ refusal' = refusal
    BY DEF Receive
  <1>2. /\ k \in OrderKeys /\ n \in Nat /\ s \in Nat /\ AccountOK(state) /\ DeliveryOK
        /\ Exists(state.orders[k]) /\ Exists(state.broker[k])
    BY <1>1, DeliveryFacts
  <1>3. left \in Seq(1..n)
    BY <1>2 DEF DeliveryOK
  <1>4. /\ i \in 1..n /\ Tail(left) \in Seq(1..n)
        /\ \A j \in 1..Len(left) : left[j] = i \/ \E m \in 1..Len(Tail(left)) : Tail(left)[m] = left[j]
    <2>1. i \in 1..n /\ Tail(left) \in Seq(1..n) /\ Len(Tail(left)) = Len(left) - 1 /\ i = left[1]
          /\ Len(left) \in Nat /\ \A j \in 1..Len(left) - 1 : Tail(left)[j] = left[j + 1]
      BY <1>1, <1>3, HeadAndTail
    <2> HIDE DEF left, n
    <2>2. ASSUME NEW j \in 1..Len(left), j # 1
          PROVE  j - 1 \in 1..Len(Tail(left)) /\ Tail(left)[j - 1] = left[j]
      <3>1. j - 1 \in 1..Len(left) - 1 /\ (j - 1) + 1 = j
        BY <2>1, <2>2
      <3> QED
        BY <2>1, <3>1
    <2> HIDE DEF i
    <2>3. ASSUME NEW j \in 1..Len(left)
          PROVE  left[j] = i \/ \E m \in 1..Len(Tail(left)) : Tail(left)[m] = left[j]
      BY <2>1, <2>2
    <2> QED
      BY <2>1, <2>3
  <1>5. /\ delivery'.op = delivery.op /\ delivery'.order = k /\ delivery'.left = Tail(left)
        /\ delivery' \in [op : MirrorOps, order : OrderKeys, left : Seq(1..n)]
    <2> DEFINE rest == Tail(left)
    <2>1. delivery \in [op : MirrorOps, order : OrderKeys, left : Seq(1..n)]
      BY <1>2 DEF DeliveryOK
    <2>2. delivery' = [delivery EXCEPT !.left = rest] /\ rest \in Seq(1..n)
      BY <1>1, <1>4
    <2> HIDE DEF rest, n
    <2>3. /\ delivery'.op = delivery.op /\ delivery'.order = k /\ delivery'.left = rest
          /\ delivery' \in [op : MirrorOps, order : OrderKeys, left : Seq(1..n)]
      BY <2>1, <2>2
    <2> QED
      BY <2>3 DEF rest
  <1>6. /\ AccountOK(state') /\ state'.orders = state.orders /\ state'.broker = state.broker
        /\ state'.pending = IF <<k, i>> \in state.applied THEN state.pending
                            ELSE state.pending \cup {<<k, i>>}
    <2>1. CASE <<k, i>> \in state.applied
      BY <1>1, <1>2, <2>1
    <2>2. CASE <<k, i>> \notin state.applied
      <3>1. <<k, i>> \in OrderKeys \X (Nat \ {0})
        BY <1>2, <1>4
      <3> HIDE DEF i, k
      <3>2. state' = [state EXCEPT !.pending = @ \cup {<<k, i>>}]
        BY <1>1, <2>2
      <3> QED
        BY <1>2, <2>2, <3>1, <3>2, PendingKeepsAccount
    <2> QED
      BY <2>1, <2>2
  <1>7. <<k, i>> \notin state.applied => i \in s + 1 .. n
    <2>1. i \in 1..s => <<k, i>> \in state.applied
      BY <1>2 DEF AccountOK, AppliedPrefix
    <2> HIDE DEF i, k, s, n
    <2> QED
      BY <1>2, <1>4, <2>1
  <1>8. <<k, i>> \in state.applied => i <= s
    BY <1>2 DEF AccountOK, AppliedPrefix
  <1> HIDE DEF i, left
  <1>9. \A p \in state'.pending : p[1] = k /\ p[2] \in s + 1 .. n
    <2>1. \A p \in state.pending : p[1] = k /\ p[2] \in s + 1 .. n
      BY <1>2 DEF DeliveryOK
    <2> HIDE DEF k, s, n
    <2> QED
      BY <1>6, <1>7, <2>1
  <1>10. \A m \in 1..n : \/ m <= s
                         \/ <<k, m>> \in state'.pending
                         \/ \E j \in 1..Len(Tail(left)) : Tail(left)[j] = m
    <2> SUFFICES ASSUME NEW m \in 1..n, ~(m <= s), <<k, m>> \notin state'.pending
                 PROVE  \E j \in 1..Len(Tail(left)) : Tail(left)[j] = m
      OBVIOUS
    <2>1. <<k, m>> \notin state.pending
      BY <1>6
    <2>2. PICK j \in 1..Len(left) : left[j] = m
      BY <1>2, <2>1 DEF DeliveryOK, left
    <2>3. m # i
      BY <1>6, <1>8
    <2> QED
      BY <1>4, <2>2, <2>3
  <1>11. DeliveryOK'
    BY <1>2, <1>5, <1>6, <1>9, <1>10 DEF DeliveryOK
  <1>12. ~Idle'
    <2>1. delivery'.op # "NONE"
      BY <1>2, <1>5 DEF DeliveryOK, MirrorOps
    <2> QED
      BY <2>1 DEF Idle, NoDelivery
  <1>13. \A j \in OrderKeys : Exists(state'.orders[j]) \/ Exists(stored'.orders[j]) => j \in seen'
    BY <1>1, <1>6 DEF IInv
  <1> QED
    BY <1>1, <1>6, <1>11, <1>12, <1>13 DEF IInv, OnlyDeliveryBreaksChecks, ReconcileRecovers


\* One turn of the loop takes in the next event, and never raises.
LEMMA AppliedByApply ==
    ASSUME IInv, Apply
    PROVE  /\ stored' = stored /\ seen' = seen /\ refusal' = refusal
           /\ delivery' = delivery /\ ~Idle
           /\ state.orders[delivery.order].sequence < Len(state.broker[delivery.order].events)
           /\ NextId(delivery.order) \in state.pending
           /\ AppliedTo(state, delivery.order, state')
  <1> DEFINE k == delivery.order
             n == Len(state.broker[k].events)
             s == state.orders[k].sequence
             e == NextEvent(k)
             id == <<k, s + 1>>
             st == Booked(AfterEvent(state, k, e), id)
  <1>1. ~Idle /\ id \in state.pending
    BY DEF Apply, Ready, NextId
  <1>2. /\ k \in OrderKeys /\ n \in Nat /\ s \in Nat /\ AccountOK(state) /\ DeliveryOK
        /\ Exists(state.orders[k]) /\ Exists(state.broker[k])
    BY <1>1, DeliveryFacts
  <1>3. s < n
    <2>1. \A p \in state.pending : p[1] = k /\ p[2] \in s + 1 .. n
      BY <1>2 DEF DeliveryOK
    <2>2. s + 1 \in s + 1 .. n
      BY <1>1, <2>1
    <2> HIDE DEF s, n
    <2> QED
      BY <1>2, <2>2
  <1>4. /\ state.orders[k].status \notin TERMINAL
        /\ e.kind = "FILL" => e.lots > 0 /\ state.orders[k].filled + e.lots <= state.orders[k].quantity
        /\ AppliedTo(state, k, st)
    BY <1>2, <1>3, ApplyKeepsAccount DEF NextEvent
  <1>5. ~Overfills(k)
    <2>1. CASE e.kind = "FILL"
      <3>1. e.lots > 0 /\ state.orders[k].filled + e.lots <= state.orders[k].quantity
        BY <1>4, <2>1
      <3>2. e \in Event /\ state.orders[k] \in Order
        <4>1. state.broker[k].events \in Seq(Event)
          BY <1>2, AccountFunctions DEF Broker
        <4>2. s + 1 \in 1..n
          BY <1>2, <1>3
        <4> QED
          BY <1>2, <4>1, <4>2, AccountFunctions DEF NextEvent
      <3>3. e.lots \in Nat /\ state.orders[k].filled \in Nat /\ state.orders[k].quantity \in Nat
        BY <3>2, OrderFields DEF Event
      <3> HIDE DEF e, k
      <3> QED
        BY <3>1, <3>3 DEF Overfills, e
    <2>2. CASE e.kind # "FILL"
      BY <2>2 DEF Overfills
    <2> QED
      BY <2>1, <2>2
  <1>6. /\ state' = st /\ stored' = stored /\ seen' = seen /\ refusal' = refusal
        /\ delivery' = delivery
    BY <1>4, <1>5 DEF Apply, Booked, NextId
  <1> HIDE DEF st
  <1> QED
    BY <1>1, <1>3, <1>4, <1>6 DEF NextId

\* One turn of the loop.
LEMMA ApplyKeepsInv ==
    ASSUME IInv, Apply
    PROVE  IInv'
  <1> DEFINE k == delivery.order
             n == Len(state.broker[k].events)
             s == state.orders[k].sequence
             id == <<k, s + 1>>
  <1>1. ~Idle /\ id \in state.pending
    BY AppliedByApply DEF NextId
  <1>2. /\ k \in OrderKeys /\ n \in Nat /\ s \in Nat /\ AccountOK(state) /\ DeliveryOK
        /\ Exists(state.orders[k]) /\ Exists(state.broker[k])
    BY <1>1, DeliveryFacts
  <1>6. /\ stored' = stored /\ seen' = seen /\ refusal' = refusal
        /\ delivery' = delivery
    BY AppliedByApply
  <1>7. /\ AccountOK(state') /\ state'.broker = state.broker
        /\ state'.pending = state.pending \ {id}
        /\ Exists(state'.orders[k]) /\ state'.orders[k].sequence = s + 1
        /\ \A j \in OrderKeys \ {k} : state'.orders[j] = state.orders[j]
    BY AppliedByApply DEF AppliedTo
  <1>8. \A p \in state'.pending : p[1] = k /\ p[2] \in s + 1 + 1 .. n
    <2> SUFFICES ASSUME NEW p \in state'.pending
                 PROVE  p[1] = k /\ p[2] \in s + 1 + 1 .. n
      OBVIOUS
    <2>1. p \in state.pending /\ p # id
      BY <1>7
    <2>2. p[1] = k /\ p[2] \in s + 1 .. n
      BY <1>2, <2>1 DEF DeliveryOK
    <2>3. p \in OrderKeys \X (Nat \ {0})
      BY <1>2, <2>1, AccountFunctions DEF AccountType
    <2>4. p[2] # s + 1
      BY <2>1, <2>2, <2>3
    <2> HIDE DEF s, n, k
    <2> QED
      BY <1>2, <2>2, <2>4
  <1>9. \A i \in 1..n : \/ i <= s + 1
                        \/ <<k, i>> \in state'.pending
                        \/ \E j \in 1..Len(delivery.left) : delivery.left[j] = i
    <2> SUFFICES ASSUME NEW i \in 1..n, ~(i <= s + 1), <<k, i>> \notin state'.pending
                 PROVE  \E j \in 1..Len(delivery.left) : delivery.left[j] = i
      OBVIOUS
    <2>1. ~(i <= s) /\ i # s + 1
      BY <1>2
    <2>2. <<k, i>> \notin state.pending
      BY <1>7, <2>1
    <2> QED
      BY <1>2, <2>1, <2>2 DEF DeliveryOK
  <1>10. DeliveryOK'
    BY <1>2, <1>6, <1>7, <1>8, <1>9 DEF DeliveryOK
  <1>11. \A j \in OrderKeys : Exists(state'.orders[j]) \/ Exists(stored'.orders[j]) => j \in seen'
    BY <1>2, <1>6, <1>7 DEF IInv
  <1>12. ~Idle'
    BY <1>1, <1>6 DEF Idle
  <1> QED
    BY <1>6, <1>7, <1>10, <1>11, <1>12 DEF IInv, OnlyDeliveryBreaksChecks, ReconcileRecovers


\* When a delivery settles, every event of the order has been applied.
LEMMA SettledSequence ==
    ASSUME IInv, Settle
    PROVE  state.orders[delivery.order].sequence = Len(state.broker[delivery.order].events)
  <1> DEFINE k == delivery.order
             o == state.orders[k]
             n == Len(state.broker[k].events)
  <1>1. ~Idle /\ delivery.left = <<>> /\ ~Ready(k)
    BY DEF Settle
  <1>2. /\ k \in OrderKeys /\ n \in Nat /\ o.sequence \in Nat /\ DeliveryOK
        /\ OrderOK(o, state.broker[k])
    BY <1>1, DeliveryFacts
  <1>3. o.sequence <= n
    BY <1>2 DEF OrderOK, Follows
  <1>4. SUFFICES ASSUME o.sequence < n PROVE FALSE
    BY <1>2, <1>3
  <1>5. o.sequence + 1 \in 1..n /\ ~(o.sequence + 1 <= o.sequence)
    <2> HIDE DEF o, n
    <2> QED
      BY <1>2, <1>4
  <1>6. <<k, o.sequence + 1>> \notin state.pending
    BY <1>1 DEF Ready, NextId
  <1>7. \E j \in 1..Len(delivery.left) : delivery.left[j] = o.sequence + 1
    BY <1>2, <1>5, <1>6 DEF DeliveryOK
  <1>8. Len(delivery.left) = 0
    BY <1>1
  <1> QED
    BY <1>7, <1>8

\* When nothing is left to deliver, every event of the order has been applied,
\* so taking the broker's status does not reopen or end the order.
LEMMA SettleKeepsInv ==
    ASSUME IInv, Settle
    PROVE  IInv'
  <1> DEFINE k == delivery.order
             o == state.orders[k]
             b == state.broker[k]
             n == Len(b.events)
             s == b.status
             st == [state EXCEPT !.orders[k].status = s]
  <1>1. ~Idle /\ delivery.left = <<>> /\ ~Ready(k) /\ Finish(st, {})
    BY DEF Settle, Settled
  <1>2. /\ k \in OrderKeys /\ n \in Nat /\ o.sequence \in Nat /\ AccountOK(state) /\ DeliveryOK
        /\ Exists(o) /\ Exists(b) /\ o \in Order /\ b \in Broker /\ OrderOK(o, b)
    BY <1>1, DeliveryFacts
  <1>3. o.sequence = n
    BY SettledSequence
  <1>4. state.pending = {}
    <2>1. \A p \in state.pending : p[2] \in o.sequence + 1 .. n
      BY <1>2 DEF DeliveryOK
    <2>2. o.sequence + 1 .. n = {}
      BY <1>2, <1>3
    <2> QED
      BY <2>1, <2>2
  <1>5. s \in Statuses
    BY <1>2 DEF Broker
  <1>6. IF o.status \in TERMINAL THEN s = o.status ELSE s \notin TERMINAL \cup {"NONE"}
    <2>1. o.status \in TERMINAL => s = o.status
      BY <1>2 DEF OrderOK, Follows
    <2>2. s \in TERMINAL => o.status \in TERMINAL
      BY <1>2, <1>3 DEF OrderOK
    <2>3. s # "NONE"
      BY <1>2 DEF Exists
    <2> QED
      BY <2>1, <2>2, <2>3
  <1> HIDE DEF s
  <1>7. /\ AccountOK(st) /\ st.pending = state.pending
        /\ \A j \in OrderKeys : Exists(st.orders[j]) => Exists(state.orders[j])
    BY <1>2, <1>5, <1>6, RestatusKeepsAccount
  <1> HIDE DEF st
  <1>8. \A j \in OrderKeys : Exists(st.orders[j]) => j \in seen \cup {}
    BY <1>7 DEF IInv
  <1>9. {} \in SUBSET OrderKeys
    OBVIOUS
  <1> QED
    BY <1>1, <1>4, <1>7, <1>8, <1>9, FinishKeepsInv

-----------------------------------------------------------------------------
(* The invariant.                                                          *)

\* The invariant holds before the first command.
LEMMA InitIsRight == Init => IInv
  <1> SUFFICES ASSUME Init PROVE IInv
    OBVIOUS
  <1> DEFINE st == InitialState
  <1>1. InitialCapital \in Nat
    BY ConfigAssumption
  <1>2. NoOrderYet \in Order /\ NoBrokerYet \in Broker
    BY DEF NoOrderYet, NoBrokerYet, Order, Broker, Sides, Statuses
  <1>3. ~Exists(NoOrderYet) /\ ~Open(NoOrderYet) /\ NoOrderYet.sequence = 0
    BY DEF NoOrderYet, Exists, Open
  <1>4. OrderOK(NoOrderYet, NoBrokerYet)
    <2> DEFINE o == NoOrderYet  b == NoBrokerYet
    <2>1. /\ o.status = "NONE" /\ o.sequence = 0 /\ o.filled = 0 /\ o.quantity = 0
          /\ b.status = "NONE" /\ b.filled = 0 /\ b.events = <<>> /\ Len(b.events) = 0
      BY DEF NoOrderYet, NoBrokerYet
    <2> HIDE DEF o, b
    <2>2. LogOK(b, o.quantity)
      BY <2>1 DEF LogOK, Exists, TERMINAL
    <2>3. Follows(o, b)
      BY <2>1 DEF Follows, TERMINAL
    <2>4. OrderOK(o, b)
      BY <2>1, <2>2, <2>3 DEF OrderOK, Exists
    <2> QED
      BY <2>4 DEF o, b
  <1>5. /\ st.cash = InitialCapital /\ st.reservedCash = 0 /\ st.shares = 0
        /\ st.reservedShares = 0 /\ st.costBasis = 0 /\ st.realizedPnl = 0 /\ st.fees = 0
        /\ st.stopped = FALSE /\ st.reentryBlocked = FALSE
        /\ st.orders = [k \in OrderKeys |-> NoOrderYet]
        /\ st.broker = [k \in OrderKeys |-> NoBrokerYet]
        /\ st.pending = {} /\ st.applied = {}
    BY DEF InitialState
  <1>6. st \in AccountType
    <2> DEFINE orders == [k \in OrderKeys |-> NoOrderYet]
               broker == [k \in OrderKeys |-> NoBrokerYet]
    <2>1. orders \in [OrderKeys -> Order] /\ broker \in [OrderKeys -> Broker]
      BY <1>2
    <2>2. st = [cash |-> InitialCapital, reservedCash |-> 0, shares |-> 0, reservedShares |-> 0,
                costBasis |-> 0, realizedPnl |-> 0, fees |-> 0, stopped |-> FALSE,
                reentryBlocked |-> FALSE, orders |-> orders, broker |-> broker,
                pending |-> {}, applied |-> {}]
      BY DEF InitialState
    <2> HIDE DEF st, orders, broker
    <2> QED
      BY <1>1, <2>1, <2>2 DEF AccountType
  <1> HIDE DEF st
  <1>7. \A k \in OrderKeys : st.orders[k] = NoOrderYet /\ st.broker[k] = NoBrokerYet
    BY <1>5
  <1>8. \A k \in OrderKeys : OrderOK(st.orders[k], st.broker[k]) /\ ~Open(st.orders[k])
                             /\ ~Exists(st.orders[k]) /\ st.orders[k].sequence = 0
    BY <1>3, <1>4, <1>7
  <1>9. OneOpen(st) /\ Reserved(st) /\ Liquidated(st)
    BY <1>5, <1>8 DEF OneOpen, Reserved, Liquidated
  <1>10. Holdings(st) /\ Costed(st) /\ Balanced(st) /\ Funded(st)
    BY <1>1, <1>5 DEF Holdings, Costed, Balanced, Funded
  <1>11. AppliedPrefix(st)
    BY <1>5, <1>8 DEF AppliedPrefix
  <1>12. AccountOK(st)
    BY <1>6, <1>8, <1>9, <1>10, <1>11 DEF AccountOK
  <1>13. Conserved(st)
    BY <1>1, <1>5, <1>12, ConservedIsBalanced
  <1>14. /\ state = st /\ stored = st /\ seen = {} /\ delivery = NoDelivery /\ refusal = "none"
    BY DEF Init, st
  <1>15. Idle /\ refusal \in Causes /\ OnlyDeliveryBreaksChecks /\ ReconcileRecovers
    BY <1>14 DEF Idle, Causes, OnlyDeliveryBreaksChecks, ReconcileRecovers
  <1> QED
    BY <1>5, <1>8, <1>12, <1>13, <1>14, <1>15 DEF IInv

\* Every command about an order keeps the invariant.
LEMMA CommandKeepsInv ==
    ASSUME IInv, NEW k \in OrderKeys, Command(k)
    PROVE  IInv'
  <1> {} \in SUBSET OrderKeys
    OBVIOUS
  <1>1. CASE \E op \in {"BUY", "SELL", "STALE_BUY"}, lots \in OrderLots : PlaceOrder(op, k, lots)
    BY <1>1, PlaceOrderKeepsInv, ConfigAssumption DEF OrderOps
  <1>2. CASE PlaceOrder("STRATEGY_BUY", k, StrategyLots(state))
    <2>1. AccountOK(state)
      BY DEF IInv
    <2>2. StrategyLots(state) \in Int /\ "STRATEGY_BUY" \in OrderOps
      BY <2>1, StrategyLotsIsInteger DEF OrderOps
    <2> QED
      BY <1>2, <2>2, PlaceOrderKeepsInv
  <1>3. CASE \E op \in OrderOps : Repeat(op, k)
    BY <1>3, UnchangedKeepsInv DEF Repeat
  <1>4. CASE Dispatch(k)
    BY <1>4, DispatchKeepsInv
  <1>5. CASE Timeout(k)
    BY <1>5, TimeoutKeepsInv
  <1>6. CASE \E lots \in FillLots : BrokerFill("PARTIAL_FILL", k, lots)
    BY <1>6, BrokerFillKeepsInv
  <1>7. CASE BrokerFill("FILL", k, Remaining(k))
    BY <1>7, BrokerFillKeepsInv
  <1>8. CASE \E op \in {"CANCEL", "REJECT"} : BrokerClose(op, k)
    BY <1>8, BrokerCloseKeepsInv
  <1>9. CASE \E op \in MirrorOps : Mirror(op, k)
    <2> PICK op \in MirrorOps : Mirror(op, k)
      BY <1>9
    <2>1. CASE StartDelivery(op, k)
      BY <2>1, StartDeliveryKeepsInv
    <2>2. CASE NotFound(op, k)
      BY <2>2, UnchangedKeepsInv DEF NotFound
    <2> QED
      BY <2>1, <2>2 DEF Mirror
  <1>10. CASE \E op \in Ops : BadCommand(op, k)
    BY <1>10, RefuseKeepsInv DEF BadCommand, Causes
  <1> QED
    BY <1>1, <1>2, <1>3, <1>4, <1>5, <1>6, <1>7, <1>8, <1>9, <1>10 DEF Command

\* The invariant is inductive.
LEMMA StepKeepsInv == IInv /\ [Next]_vars => IInv'
  <1> SUFFICES ASSUME IInv, [Next]_vars PROVE IInv'
    OBVIOUS
  <1>1. CASE Stop
    BY <1>1, StopKeepsInv
  <1>2. CASE Receive
    BY <1>2, ReceiveKeepsInv
  <1>3. CASE Apply
    BY <1>3, ApplyKeepsInv
  <1>4. CASE Settle
    BY <1>4, SettleKeepsInv
  <1>5. CASE \E k \in OrderKeys : Command(k)
    BY <1>5, CommandKeepsInv
  <1>6. CASE UNCHANGED vars
    BY <1>6 DEF vars, IInv, OnlyDeliveryBreaksChecks, ReconcileRecovers, Idle, DeliveryOK
  <1> QED
    BY <1>1, <1>2, <1>3, <1>4, <1>5, <1>6 DEF Next, Deliver

\* Every state the reducer reaches satisfies the inductive invariant.
THEOREM Invariance == Spec => []IInv
  BY InitIsRight, StepKeepsInv, PTL DEF Spec

-----------------------------------------------------------------------------
(* The properties.                                                         *)

\* The reducer's variables always have their types.
THEOREM TypesAreKept == Spec => []TypeOK
  <1>1. IInv => TypeOK
    <2> SUFFICES ASSUME IInv PROVE TypeOK
      OBVIOUS
    <2>1. /\ state \in AccountType /\ stored \in AccountType /\ seen \subseteq OrderKeys
          /\ refusal \in Causes
      BY DEF IInv, AccountOK
    <2>2. delivery \in [op : MirrorOps \cup {"NONE"}, order : OrderKeys \cup {NoOrder},
                        left : Seq(Nat \ {0})]
      <3>1. CASE Idle
        <4>1. <<>> \in Seq(Nat \ {0})
          OBVIOUS
        <4> QED
          BY <3>1, <4>1 DEF Idle, NoDelivery
      <3>2. CASE ~Idle
        <4> DEFINE n == Len(state.broker[delivery.order].events)
        <4>1. delivery \in [op : MirrorOps, order : OrderKeys, left : Seq(1..n)]
          BY <3>2 DEF IInv, DeliveryOK
        <4>2. n \in Nat
          BY <3>2, DeliveryFacts
        <4> HIDE DEF n
        <4>3. \A q \in Seq(1..n) : q \in Seq(Nat \ {0})
          BY <4>2
        <4> QED
          BY <4>1, <4>3
      <3> QED
        BY <3>1, <3>2
    <2> QED
      BY <2>1, <2>2 DEF TypeOK
  <1> QED
    BY <1>1, Invariance, PTL

\* At most one order is open at any time.
THEOREM OneOrderIsOpen == Spec => []OneOpenOrder
  <1>1. IInv => OneOpenOrder
    BY DEF IInv, AccountOK, OneOpenOrder
  <1> QED
    BY <1>1, Invariance, PTL

\* Reserved cash and shares are exactly what the open order may still take,
\* for every fee rate, price and sequence of fills.
THEOREM ReservationsAlwaysMatch == Spec => []ReservationsMatch
  <1>1. IInv => ReservationsMatch
    BY DEF IInv, AccountOK, ReservationsMatch
  <1> QED
    BY <1>1, Invariance, PTL

\* After the position has been sold off nothing is held or bought again.
THEOREM LiquidationStaysFinal == Spec => []LiquidationIsFinal
  <1>1. IInv => LiquidationIsFinal
    BY DEF IInv, AccountOK, LiquidationIsFinal
  <1> QED
    BY <1>1, Invariance, PTL

\* The account is a prefix of what the broker has done, order by order.
THEOREM AccountAlwaysFollowsBroker == Spec => []AccountFollowsBroker
  <1>1. IInv => AccountFollowsBroker
    <2> SUFFICES ASSUME IInv, NEW k \in OrderKeys
                 PROVE  /\ Follows(state.orders[k], state.broker[k])
                        /\ \A i \in 1..Len(state.broker[k].events) :
                              <<k, i>> \in state.applied <=> i <= state.orders[k].sequence
      BY DEF AccountFollowsBroker
    <2>1. AccountOK(state)
      BY DEF IInv
    <2>2. OrderOK(state.orders[k], state.broker[k]) /\ state.orders[k].sequence \in Nat
      BY <2>1, AccountFunctions, OrderFields
    <2>3. AppliedPrefix(state)
      BY <2>1 DEF AccountOK
    <2>4. ASSUME NEW i \in 1..Len(state.broker[k].events)
          PROVE  <<k, i>> \in state.applied <=> i <= state.orders[k].sequence
      <3>1. i <= state.orders[k].sequence => i \in 1..state.orders[k].sequence
        BY <2>2
      <3>2. <<k, i>>[1] = k /\ <<k, i>>[2] = i
        OBVIOUS
      <3> QED
        BY <2>3, <3>1, <3>2 DEF AppliedPrefix
    <2> QED
      BY <2>2, <2>4 DEF OrderOK
  <1> QED
    BY <1>1, Invariance, PTL

\* The errors deliver() guards against never arise, and the closing checks
\* refuse no command that moves no event.
THEOREM ChecksFailOnlyInDelivery == Spec => []OnlyDeliveryBreaksChecks
  <1>1. IInv => OnlyDeliveryBreaksChecks
    BY DEF IInv
  <1> QED
    BY <1>1, Invariance, PTL

\* An account without shares carries no cost, however sales were rounded.
THEOREM FlatAccountsCostNothing == Spec => []FlatMeansNoCost
  <1>1. IInv => FlatMeansNoCost
    BY DEF IInv, AccountOK, FlatMeansNoCost
  <1> QED
    BY <1>1, Invariance, PTL

\* When the fee of a lot is a whole number of quanta, a reconciliation is never
\* refused: the reserve covers every way the fills may be split.  (The run
\* execution_rounding shows that a fee that is rounded can break this.)
THEOREM ExactFeesReconcile ==
    ASSUME FeeDen = 1
    PROVE  Spec => []ReconcileRecovers
  <1>1. IInv => ReconcileRecovers
    BY DEF IInv
  <1> QED
    BY <1>1, Invariance, PTL

-----------------------------------------------------------------------------
(* The quantity of STRATEGY_BUY.                                           *)

\* A quotient rounded down fits as often as it says.
LEMMA QuotientFits ==
    ASSUME NEW a \in Int, NEW b \in Nat \ {0}, NEW l \in Int, l <= a \div b
    PROVE  l * b <= a
  <1>1. \A x \in Int, y \in Nat \ {0} : x \div y \in Int /\ y * (x \div y) <= x
    OBVIOUS
  <1>2. PICK q \in Int : q = a \div b /\ b * q <= a
    BY <1>1
  <1>3. b * l <= b * q
    BY <1>2
  <1> QED
    BY <1>2, <1>3

\* Rounding half up goes half a unit up at most, and not above a whole number
\* that is not below the fraction.
LEMMA RoundingUp ==
    ASSUME NEW n \in Nat, NEW d \in Nat \ {0}
    PROVE  /\ 2 * d * RoundHalfUp(n, d) <= 2 * n + d
           /\ \A m \in Int : n <= m * d => RoundHalfUp(n, d) <= m
  <1>1. 2 * d \in Nat \ {0} /\ 2 * n + d \in Nat
    OBVIOUS
  <1>2. \A a \in Nat, b \in Nat \ {0} : a \div b \in Nat /\ b * (a \div b) <= a
    OBVIOUS
  <1>3. PICK q \in Nat : q = RoundHalfUp(n, d) /\ (2 * d) * q <= 2 * n + d
    BY <1>1, <1>2 DEF RoundHalfUp
  <1>4. ASSUME NEW m \in Int, n <= m * d, q >= m + 1 PROVE FALSE
    <2>1. (2 * d) * q >= (2 * d) * (m + 1)
      BY <1>1, <1>3, <1>4
    <2>2. (2 * d) * (m + 1) = 2 * (m * d) + 2 * d
      OBVIOUS
    <2>3. m * d \in Int
      OBVIOUS
    <2> QED
      BY <1>3, <1>4, <2>1, <2>2, <2>3
  <1> QED
    BY <1>3, <1>4

\* The checks an order has to pass on its size, for the quantity that a
\* STRATEGY_BUY works out itself.  The fee it leaves room for is not rounded
\* and the one it is checked with is, so it may miss the position limit by half
\* a quantum's worth; a fee that is exact, or a limit of one over a whole
\* number, leaves no room for that.
StrategyFits ==
    LET l == StrategyLots(state)
        value == (state.shares + l) * LotPrice * WDen
        limit == (Value(state) - Fee(l)) * WNum
    IN  l > 0 =>
          /\ l * LotPrice <= MaxOrderValue
          /\ Required(l) <= Available(state)
          /\ 2 * value <= 2 * limit + WNum
          /\ (FeeDen = 1 \/ WNum = 1) => value <= limit

\* STRATEGY_BUY never asks for more than the order limit or the free cash, nor
\* for a position above the limit by more than the rounding of its fee.
LEMMA StrategyQuantity ==
    ASSUME AccountOK(state)
    PROVE  StrategyFits
  <1> DEFINE l == StrategyLots(state)
             gap    == Value(state) * WNum - state.shares * LotPrice * WDen
             price  == LotPrice * WDen * FeeDen + WNum * FeeNum
             unit   == LotPrice * FeeDen + FeeNum
             A      == Available(state)
  <1>1. /\ LotPrice \in Nat \ {0} /\ FeeNum \in Nat /\ FeeDen \in Nat \ {0}
        /\ WNum \in Nat \ {0} /\ WDen \in Nat \ {0} /\ MaxOrderValue \in Int
    BY ConfigAssumption
  <1>2. state.cash \in Int /\ state.shares \in Int /\ state.reservedCash \in Int
    BY AccountFields
  <1>3. \A a, b \in Int : a * b \in Int
    OBVIOUS
  <1>4. Value(state) \in Int /\ A \in Int
    BY <1>1, <1>2, <1>3 DEF Value, Available
  <1>5. gap \in Int
    BY <1>1, <1>2, <1>3, <1>4
  <1>6. price \in Nat \ {0} /\ unit \in Nat \ {0}
    <2>1. \A a, b \in Nat \ {0} : a * b \in Nat \ {0}
      OBVIOUS
    <2>2. \A a, b \in Nat : a * b \in Nat
      OBVIOUS
    <2>3. LotPrice * WDen * FeeDen \in Nat \ {0} /\ LotPrice * FeeDen \in Nat \ {0}
      BY <1>1, <2>1
    <2>4. WNum * FeeNum \in Nat
      BY <1>1, <2>2
    <2> QED
      BY <1>1, <2>3, <2>4
  <1>7. l \in Int
    BY StrategyLotsIsInteger
  <1>8. SUFFICES ASSUME l > 0
                 PROVE  /\ l * LotPrice <= MaxOrderValue
                        /\ Required(l) <= Available(state)
                        /\ 2 * ((state.shares + l) * LotPrice * WDen)
                              <= 2 * ((Value(state) - Fee(l)) * WNum) + WNum
                        /\ (FeeDen = 1 \/ WNum = 1) =>
                              (state.shares + l) * LotPrice * WDen <= (Value(state) - Fee(l)) * WNum
    BY DEF StrategyFits
  <1>9. /\ l <= MaxOrderValue \div LotPrice
        /\ l <= (gap * FeeDen) \div price
        /\ l <= (A * FeeDen) \div unit
    <2> DEFINE target == (gap * FeeDen) \div price
               cash == (A * FeeDen) \div unit
               top == MaxOrderValue \div LotPrice
    <2>1. l = IF LowerOf(top, LowerOf(target, cash)) < 0 THEN 0 ELSE LowerOf(top, LowerOf(target, cash))
      BY DEF StrategyLots
    <2>2. target \in Int /\ cash \in Int /\ top \in Int
      <3>1. \A a \in Int, b \in Nat \ {0} : a \div b \in Int
        OBVIOUS
      <3>2. gap * FeeDen \in Int /\ A * FeeDen \in Int
        <4> HIDE DEF gap, A
        <4> QED
          BY <1>1, <1>3, <1>4, <1>5
      <3> HIDE DEF gap, A, price, unit
      <3> QED
        BY <1>1, <1>6, <3>1, <3>2
    <2> HIDE DEF target, cash, top, l
    <2>3. l <= top /\ l <= target /\ l <= cash
      BY <1>8, <2>1, <2>2 DEF LowerOf
    <2> QED
      BY <2>3 DEF target, cash, top
  <1> HIDE DEF l, gap, price, unit, A
  <1>10. PICK n \in Nat : n = l * FeeNum
    BY <1>1, <1>7, <1>8
  <1>11. PICK f \in Nat : /\ f = Fee(l) /\ 2 * FeeDen * f <= 2 * n + FeeDen
                          /\ \A m \in Int : n <= m * FeeDen => f <= m
    <2>1. Fee(l) = RoundHalfUp(n, FeeDen)
      BY <1>10 DEF Fee
    <2>2. RoundHalfUp(n, FeeDen) \in Nat
      BY <1>1, RoundingIsNatural
    <2> QED
      BY <1>1, <2>1, <2>2, RoundingUp
  <1>12. l * LotPrice <= MaxOrderValue
    BY <1>1, <1>7, <1>9, QuotientFits
  <1>13. Required(l) <= A
    <2>1. l * unit <= A * FeeDen
      <3>1. A * FeeDen \in Int
        BY <1>1, <1>3, <1>4
      <3> QED
        BY <1>6, <1>7, <1>9, <3>1, QuotientFits
    <2>2. PICK c \in Int : c = l * LotPrice
      BY <1>1, <1>7
    <2>3. l * unit = c * FeeDen + n
      BY <1>1, <1>7, <1>10, <2>2 DEF unit
    <2>4. c * FeeDen \in Int /\ A * FeeDen \in Int /\ (A - c) * FeeDen = A * FeeDen - c * FeeDen
      BY <1>1, <1>4, <2>2
    <2>5. n <= (A - c) * FeeDen
      BY <1>10, <2>1, <2>3, <2>4
    <2>6. A - c \in Int /\ f <= A - c
      BY <1>4, <1>11, <2>2, <2>5
    <2> QED
      BY <1>4, <1>11, <2>2, <2>6 DEF Required
  <1>14. PICK r \in Int : r = l * LotPrice * WDen
    BY <1>1, <1>3, <1>7
  <1>15. WNum * n <= (gap - r) * FeeDen
    <2>1. l * price <= gap * FeeDen
      <3>1. gap * FeeDen \in Int
        BY <1>1, <1>3, <1>5
      <3> QED
        BY <1>6, <1>7, <1>9, <3>1, QuotientFits
    <2>2. l * price = r * FeeDen + WNum * n
      <3>1. l * (LotPrice * WDen * FeeDen) = r * FeeDen
        BY <1>1, <1>7, <1>14
      <3>2. l * (WNum * FeeNum) = WNum * n
        BY <1>1, <1>7, <1>10
      <3>3. PICK x \in Int, y \in Int : x = LotPrice * WDen * FeeDen /\ y = WNum * FeeNum
        BY <1>1, <1>3
      <3>4. l * (x + y) = l * x + l * y
        BY <1>7, <3>3
      <3> QED
        BY <3>1, <3>2, <3>3, <3>4 DEF price
    <2>3. (gap - r) * FeeDen = gap * FeeDen - r * FeeDen
      BY <1>1, <1>5, <1>14
    <2>4. r * FeeDen \in Int /\ gap * FeeDen \in Int /\ WNum * n \in Int
      BY <1>1, <1>3, <1>5, <1>10, <1>14
    <2> QED
      BY <2>1, <2>2, <2>3, <2>4
  <1>16. PICK g \in Int : g = gap - r
    BY <1>5, <1>14
  <1>17. 2 * (WNum * f) <= 2 * g + WNum
    <2>1. WNum * (2 * FeeDen * f) <= WNum * (2 * n + FeeDen)
      <3>1. PICK x \in Int, y \in Int : x = 2 * FeeDen * f /\ y = 2 * n + FeeDen
        BY <1>1
      <3>2. WNum * x <= WNum * y
        BY <1>1, <1>11, <3>1
      <3> QED
        BY <3>1, <3>2
    <2>2. WNum * (2 * FeeDen * f) = FeeDen * (2 * (WNum * f))
      BY <1>1
    <2>3. WNum * (2 * n + FeeDen) = 2 * (WNum * n) + FeeDen * WNum
      BY <1>1
    <2>4. 2 * (WNum * n) <= 2 * (g * FeeDen)
      <3>1. WNum * n \in Int /\ g * FeeDen \in Int /\ WNum * n <= g * FeeDen
        BY <1>1, <1>3, <1>10, <1>15, <1>16
      <3> QED
        BY <3>1
    <2>5. FeeDen * (2 * g + WNum) = 2 * (g * FeeDen) + FeeDen * WNum
      BY <1>1
    <2>6. PICK x \in Int, y \in Int : x = 2 * (WNum * f) /\ y = 2 * g + WNum
      BY <1>1, <1>3
    <2>7. FeeDen * x <= FeeDen * y
      <3>1. PICK a \in Int, b \in Int, c \in Int :
              /\ a = WNum * n
              /\ b = g * FeeDen
              /\ c = FeeDen * WNum
        BY <1>1, <1>3
      <3>2. PICK d \in Int : d = WNum * (2 * n + FeeDen)
        BY <1>1, <1>3
      <3>3. FeeDen * x <= d
        BY <2>1, <2>2, <2>6, <3>2
      <3>4. d = 2 * a + c
        BY <2>3, <3>1, <3>2
      <3>5. FeeDen * y = 2 * b + c
        BY <2>5, <2>6, <3>1
      <3>6. 2 * a <= 2 * b
        BY <2>4, <3>1
      <3>7. FeeDen * x \in Int /\ FeeDen * y \in Int
        BY <1>1, <1>3
      <3> QED
        BY <3>3, <3>4, <3>5, <3>6, <3>7
    <2>8. x <= y
      <3> SUFFICES ASSUME x >= y + 1 PROVE FALSE
        OBVIOUS
      <3>1. FeeDen * x >= FeeDen * (y + 1)
        BY <1>1
      <3>2. FeeDen * (y + 1) = FeeDen * y + FeeDen
        BY <1>1
      <3>3. FeeDen * x \in Int /\ FeeDen * y \in Int
        BY <1>1, <1>3
      <3> QED
        BY <1>1, <2>7, <3>1, <3>2, <3>3
    <2> QED
      BY <2>6, <2>8
  <1>18. FeeDen = 1 \/ WNum = 1 => WNum * f <= g
    <2>1. CASE FeeDen = 1
      <3>1. f <= n
        BY <1>11, <2>1
      <3>2. WNum * f <= WNum * n
        BY <1>1, <3>1
      <3>3. WNum * n <= g
        BY <1>15, <1>16, <2>1
      <3>4. WNum * f \in Int /\ WNum * n \in Int
        BY <1>1, <1>3
      <3> QED
        BY <3>2, <3>3, <3>4
    <2>2. CASE WNum = 1
      BY <1>17, <2>2
    <2> QED
      BY <2>1, <2>2
  <1>19. /\ (state.shares + l) * LotPrice * WDen = state.shares * LotPrice * WDen + r
         /\ (Value(state) - Fee(l)) * WNum = Value(state) * WNum - WNum * f
         /\ Value(state) * WNum = g + r + state.shares * LotPrice * WDen
    <2>1. (state.shares + l) * LotPrice = state.shares * LotPrice + l * LotPrice
      BY <1>1, <1>2, <1>7
    <2>2. PICK x \in Int, y \in Int : x = state.shares * LotPrice /\ y = l * LotPrice
      BY <1>1, <1>2, <1>3, <1>7
    <2>3. (x + y) * WDen = x * WDen + y * WDen
      BY <1>1, <2>2
    <2>4. (Value(state) - f) * WNum = Value(state) * WNum - WNum * f
      BY <1>1, <1>4
    <2>5. x * WDen \in Int /\ Value(state) * WNum \in Int
      BY <1>1, <1>3, <1>4
    <2>6. Value(state) * WNum = g + r + x * WDen
      BY <1>14, <1>16, <2>2, <2>5 DEF gap
    <2> QED
      BY <1>11, <1>14, <2>1, <2>2, <2>3, <2>4, <2>6
  <1>20. PICK h \in Int : h = state.shares * LotPrice * WDen
    BY <1>1, <1>2, <1>3
  <1>21. WNum * f \in Int
    BY <1>1, <1>3
  <1>22. /\ 2 * (h + r) <= 2 * ((g + r + h) - WNum * f) + WNum
         /\ (FeeDen = 1 \/ WNum = 1) => h + r <= (g + r + h) - WNum * f
    BY <1>1, <1>17, <1>18, <1>21
  <1> QED
    BY <1>12, <1>13, <1>19, <1>20, <1>22 DEF A

\* So it is in every state the reducer reaches.
THEOREM StrategyFitsLimits == Spec => []StrategyFits
  <1>1. IInv => StrategyFits
    BY StrategyQuantity DEF IInv
  <1> QED
    BY <1>1, Invariance, PTL

-----------------------------------------------------------------------------
(* Sums over finite sets, as the folds of BrokerMirror compute them.       *)

One(t) == CHOOSE x \in t : TRUE

\* it gives the sum of h over each subset of D.
IsSum(it, h, D) ==
    it = [t \in SUBSET D |-> IF t = {} THEN 0 ELSE h[One(t)] + it[t \ {One(t)}]]

\* A collection of finite sets has a smallest member.
LEMMA SmallestSet ==
    ASSUME NEW D, IsFiniteSet(D), NEW Bad \in SUBSET (SUBSET D), Bad # {}
    PROVE  \E t \in Bad : \A u \in SUBSET t : u # t => u \notin Bad
  <1> DEFINE less == StrictSubsetOrdering(D)
  <1>1. IsWellFoundedOn(less, SUBSET D)
    BY FS_StrictSubsetOrderingWellFounded, FS_FiniteSubsetsOfFinite
  <1> HIDE DEF less
  <1>2. PICK t \in Bad : \A u \in Bad : ~ (<<u, t>> \in less)
    BY <1>1, WFMin
  <1>3. \A u \in SUBSET t : u # t => <<u, t>> \in less
    BY DEF less, StrictSubsetOrdering
  <1>4. \A u \in SUBSET t : u # t => u \notin Bad
    BY <1>2, <1>3
  <1> QED
    BY <1>4, Zenon

\* So has a set of natural numbers.
LEMMA SmallestNumber ==
    ASSUME NEW Bad \in SUBSET Nat, Bad # {}
    PROVE  \E n \in Bad : \A m \in Nat : m < n => m \notin Bad
  <1> DEFINE less == OpToRel(<, Nat)
  <1>1. \A m, n \in Nat : m < n => <<m, n>> \in less
    BY DEF OpToRel
  <1>2. IsWellFoundedOn(less, Nat)
    BY NatLessThanWellFounded
  <1> HIDE DEF less
  <1>3. PICK n \in Bad : \A m \in Bad : ~ (<<m, n>> \in less)
    BY <1>2, WFMin
  <1> QED
    BY <1>1, <1>3

\* The two cases of a sum.
LEMMA SumCases ==
    ASSUME NEW D, NEW h, NEW it, IsSum(it, h, D)
    PROVE  /\ it[{}] = 0
           /\ \A t \in SUBSET D : t # {} => /\ One(t) \in t
                                            /\ it[t] = h[One(t)] + it[t \ {One(t)}]
  <1>1. \A t \in SUBSET D : it[t] = IF t = {} THEN 0 ELSE h[One(t)] + it[t \ {One(t)}]
    BY Zenon DEF IsSum
  <1>2. \A t : t # {} => One(t) \in t
    BY DEF One
  <1>3. {} \in SUBSET D
    OBVIOUS
  <1> QED
    BY <1>1, <1>2, <1>3

\* The sum over a set depends on the numbers at its members only.
LEMMA SumSame ==
    ASSUME NEW D, NEW h, NEW it, IsSum(it, h, D),
           NEW D2, NEW h2, NEW it2, IsSum(it2, h2, D2),
           NEW s \in (SUBSET D) \cap (SUBSET D2), IsFiniteSet(s),
           \A x \in s : h[x] = h2[x]
    PROVE  it[s] = it2[s]
  <1> DEFINE Bad == {t \in SUBSET s : it[t] # it2[t]}
  <1>1. SUFFICES ASSUME Bad # {} PROVE FALSE
    OBVIOUS
  <1>2. PICK t \in Bad : \A u \in SUBSET t : u # t => u \notin Bad
    <2>1. Bad \in SUBSET (SUBSET s)
      OBVIOUS
    <2> HIDE DEF Bad
    <2> QED
      BY <1>1, <2>1, SmallestSet
  <1>3. t \in SUBSET D /\ t \in SUBSET D2 /\ t \in SUBSET s /\ it[t] # it2[t]
    BY <1>2
  <1>4. t # {}
    BY <1>3, SumCases
  <1>5. One(t) \in t /\ it[t] = h[One(t)] + it[t \ {One(t)}] /\ it2[t] = h2[One(t)] + it2[t \ {One(t)}]
    BY <1>3, <1>4, SumCases
  <1> DEFINE r == t \ {One(t)}
  <1>6. r \in SUBSET t /\ r # t
    BY <1>5
  <1>7. it[r] = it2[r]
    BY <1>2, <1>3, <1>6
  <1> QED
    BY <1>3, <1>5, <1>7

\* There is such a function.
LEMMA SumExists ==
    ASSUME NEW D, IsFiniteSet(D), NEW h
    PROVE  \E it : IsSum(it, h, D)
  <1> DEFINE Bad == {t \in SUBSET D : ~ \E it : IsSum(it, h, t)}
  <1>1. SUFFICES ASSUME Bad # {} PROVE FALSE
    OBVIOUS
  <1>2. PICK t \in Bad : \A u \in SUBSET t : u # t => u \notin Bad
    <2>1. Bad \in SUBSET (SUBSET D)
      OBVIOUS
    <2> HIDE DEF Bad
    <2> QED
      BY <1>1, <2>1, SmallestSet
  <1>3. t \in SUBSET D /\ ~ \E it : IsSum(it, h, t)
    BY <1>2
  <1>4. IsFiniteSet(t)
    BY <1>3, FS_Subset
  <1> DEFINE part(u) == CHOOSE it : IsSum(it, h, u)
             sum == [u \in SUBSET t |-> IF u = {} THEN 0 ELSE h[One(u)] + part(u \ {One(u)})[u \ {One(u)}]]
  <1>5. \A u \in SUBSET t : u # t => IsSum(part(u), h, u)
    BY <1>2
  <1> HIDE DEF part
  <1>6. ASSUME NEW u \in SUBSET t, u # t PROVE sum[u] = part(u)[u]
    <2>1. IsSum(part(u), h, u)
      BY <1>5, <1>6
    <2>2. CASE u = {}
      BY <2>1, <2>2, SumCases
    <2>3. CASE u # {}
      <3> DEFINE r == u \ {One(u)}
      <3>1. One(u) \in u /\ part(u)[u] = h[One(u)] + part(u)[r]
        <4>1. u \in SUBSET u
          OBVIOUS
        <4>2. PICK it : it = part(u)
          OBVIOUS
        <4>3. One(u) \in u /\ it[u] = h[One(u)] + it[u \ {One(u)}]
          BY <2>1, <2>3, <4>1, <4>2, SumCases
        <4> QED
          BY <4>2, <4>3
      <3>2. r \in SUBSET t /\ r # t /\ r \in SUBSET u
        BY <3>1
      <3>3. IsSum(part(r), h, r)
        BY <1>5, <3>2
      <3>4. IsFiniteSet(r)
        BY <1>4, <3>2, FS_Subset
      <3>5. part(r)[r] = part(u)[r]
        BY <2>1, <3>2, <3>3, <3>4, SumSame
      <3>6. sum[u] = h[One(u)] + part(r)[r]
        BY <2>3
      <3> QED
        BY <3>1, <3>5, <3>6
    <2> QED
      BY <2>2, <2>3
  <1>7. IsSum(sum, h, t)
    <2>1. ASSUME NEW u \in SUBSET t, u # {}
          PROVE  part(u \ {One(u)})[u \ {One(u)}] = sum[u \ {One(u)}]
      <3>1. One(u) \in u
        BY <2>1 DEF One
      <3>2. u \ {One(u)} \in SUBSET t /\ u \ {One(u)} # t
        BY <3>1
      <3> HIDE DEF sum
      <3> QED
        BY <1>6, <3>2
    <2>2. PICK rest : rest = [u \in SUBSET t |-> sum[u \ {One(u)}]]
      OBVIOUS
    <2>3. \A u \in SUBSET t : u # {} => part(u \ {One(u)})[u \ {One(u)}] = rest[u]
      <3> HIDE DEF sum
      <3> QED
        BY <2>1, <2>2
    <2>4. sum = [u \in SUBSET t |-> IF u = {} THEN 0 ELSE h[One(u)] + rest[u]]
      BY <2>3
    <2> HIDE DEF sum
    <2>5. sum = [u \in SUBSET t |-> IF u = {} THEN 0 ELSE h[One(u)] + sum[u \ {One(u)}]]
      BY <2>2, <2>4
    <2> QED
      BY <2>5 DEF IsSum
  <1> QED
    BY <1>3, <1>7

\* A sum of integers is an integer.
LEMMA SumTyped ==
    ASSUME NEW D, NEW h, NEW it, IsSum(it, h, D), NEW s \in SUBSET D, IsFiniteSet(s),
           \A x \in s : h[x] \in Int
    PROVE  it[s] \in Int
  <1> DEFINE Bad == {t \in SUBSET s : it[t] \notin Int}
  <1>1. SUFFICES ASSUME Bad # {} PROVE FALSE
    OBVIOUS
  <1>2. PICK t \in Bad : \A u \in SUBSET t : u # t => u \notin Bad
    <2>1. Bad \in SUBSET (SUBSET s)
      OBVIOUS
    <2> HIDE DEF Bad
    <2> QED
      BY <1>1, <2>1, SmallestSet
  <1>3. t \in SUBSET D /\ t \in SUBSET s /\ it[t] \notin Int
    BY <1>2
  <1>4. t # {}
    <2>1. it[{}] = 0 /\ 0 \in Int
      BY SumCases
    <2> QED
      BY <1>3, <2>1
  <1>5. One(t) \in t /\ it[t] = h[One(t)] + it[t \ {One(t)}]
    BY <1>3, <1>4, SumCases
  <1>6. it[t \ {One(t)}] \in Int
    BY <1>2, <1>3, <1>5
  <1> QED
    BY <1>3, <1>5, <1>6

\* Any member can be taken out of a sum, not only the one the fold chooses.
LEMMA SumTakes ==
    ASSUME NEW D, NEW h, NEW it, IsSum(it, h, D), NEW s \in SUBSET D, IsFiniteSet(s),
           \A x \in s : h[x] \in Int, NEW y \in s
    PROVE  it[s] = h[y] + it[s \ {y}]
  <1> DEFINE Bad == {t \in SUBSET s : \E x \in t : it[t] # h[x] + it[t \ {x}]}
  <1>1. SUFFICES ASSUME Bad # {} PROVE FALSE
    OBVIOUS
  <1>2. PICK t \in Bad : \A u \in SUBSET t : u # t => u \notin Bad
    <2>1. Bad \in SUBSET (SUBSET s)
      OBVIOUS
    <2> HIDE DEF Bad
    <2> QED
      BY <1>1, <2>1, SmallestSet
  <1>3. t \in SUBSET D /\ t \in SUBSET s
    BY <1>2
  <1>4. PICK x \in t : it[t] # h[x] + it[t \ {x}]
    BY <1>2
  <1>5. PICK o : o = One(t)
    OBVIOUS
  <1>6. o \in t /\ it[t] = h[o] + it[t \ {o}]
    <2>1. t # {}
      BY <1>4
    <2>2. One(t) \in t /\ it[t] = h[One(t)] + it[t \ {One(t)}]
      BY <1>3, <2>1, SumCases
    <2> QED
      BY <1>5, <2>2
  <1>7. o # x
    BY <1>4, <1>6
  <1>8. t \ {o} \in SUBSET t /\ t \ {o} # t /\ x \in t \ {o} /\ t \ {o} \in SUBSET s
    BY <1>3, <1>6, <1>7
  <1>9. t \ {x} \in SUBSET t /\ t \ {x} # t /\ o \in t \ {x} /\ t \ {x} \in SUBSET s
    BY <1>3, <1>6, <1>7
  <1>10. it[t \ {o}] = h[x] + it[(t \ {o}) \ {x}]
    BY <1>2, <1>8
  <1>11. it[t \ {x}] = h[o] + it[(t \ {x}) \ {o}]
    BY <1>2, <1>9
  <1>12. (t \ {x}) \ {o} = (t \ {o}) \ {x}
    OBVIOUS
  <1>13. h[x] \in Int /\ h[o] \in Int /\ it[(t \ {o}) \ {x}] \in Int
    <2>1. (t \ {o}) \ {x} \in SUBSET D /\ \A z \in (t \ {o}) \ {x} : h[z] \in Int
      BY <1>3
    <2>2. IsFiniteSet((t \ {o}) \ {x})
      BY <1>3, FS_Subset
    <2> QED
      BY <1>3, <1>6, <2>1, <2>2, SumTyped
  <1>14. it[t] = h[o] + (h[x] + it[(t \ {o}) \ {x}]) /\ it[t \ {x}] = h[o] + it[(t \ {o}) \ {x}]
    BY <1>6, <1>10, <1>11, <1>12
  <1>15. it[t] = h[x] + it[t \ {x}]
    BY <1>13, <1>14
  <1> QED
    BY <1>4, <1>15

\* A sum of zeroes is zero.
LEMMA SumOfZeroes ==
    ASSUME NEW D, NEW h, NEW it, IsSum(it, h, D), NEW s \in SUBSET D, IsFiniteSet(s),
           \A x \in s : h[x] = 0
    PROVE  it[s] = 0
  <1> DEFINE Bad == {t \in SUBSET s : it[t] # 0}
  <1>1. SUFFICES ASSUME Bad # {} PROVE FALSE
    OBVIOUS
  <1>2. PICK t \in Bad : \A u \in SUBSET t : u # t => u \notin Bad
    <2>1. Bad \in SUBSET (SUBSET s)
      OBVIOUS
    <2> HIDE DEF Bad
    <2> QED
      BY <1>1, <2>1, SmallestSet
  <1>3. t \in SUBSET D /\ t \in SUBSET s /\ it[t] # 0
    BY <1>2
  <1>4. t # {}
    BY <1>3, SumCases
  <1>5. One(t) \in t /\ it[t] = h[One(t)] + it[t \ {One(t)}]
    BY <1>3, <1>4, SumCases
  <1>6. it[t \ {One(t)}] = 0 /\ h[One(t)] = 0
    BY <1>2, <1>3, <1>5
  <1> QED
    BY <1>3, <1>5, <1>6

-----------------------------------------------------------------------------
(* The sums of BrokerMirror.                                               *)

\* What BrokerMirror!Filled computes is the sum of the lots of a log.
LEMMA FilledIsSum ==
    ASSUME NEW log, NEW h, h = [i \in DOMAIN log |-> log[i].lots], IsFiniteSet(DOMAIN log)
    PROVE  \E it : IsSum(it, h, DOMAIN log) /\ Mirrored!Filled(log) = it[DOMAIN log]
  <1> DEFINE P(j) == j = [t \in SUBSET (DOMAIN log) |->
                            IF t = {} THEN 0 ELSE log[One(t)].lots + j[t \ {One(t)}]]
  <1>1. Mirrored!Filled(log) = (CHOOSE j : P(j))[DOMAIN log]
    BY DEF Mirrored!Filled, Mirrored!FoldSeq, Mirrored!FoldFunction, Mirrored!FoldFunctionOnSet,
           Mirrored!MapThenFoldSet, One
  <1>2. \A j : P(j) <=> IsSum(j, h, DOMAIN log)
    <2>1. \A t \in SUBSET (DOMAIN log) : t # {} => h[One(t)] = log[One(t)].lots
      BY DEF One
    <2> QED
      BY <2>1 DEF IsSum
  <1>3. \E j : P(j)
    BY <1>2, SumExists
  <1>4. P(CHOOSE j : P(j))
    BY <1>3
  <1> QED
    BY <1>1, <1>2, <1>4

\* When the totals of a log run, the sum of its first n lots is the n-th total.
LEMMA FilledIsTotal ==
    ASSUME NEW log \in Seq(Event), NEW n \in 0..Len(log),
           \A i \in 1..Len(log) : log[i].total = (IF i = 1 THEN 0 ELSE log[i - 1].total) + log[i].lots
    PROVE  Mirrored!Filled(SubSeq(log, 1, n)) = IF n = 0 THEN 0 ELSE log[n].total
  <1> DEFINE first == SubSeq(log, 1, n)
             h == [i \in DOMAIN first |-> first[i].lots]
             T(m) == IF m = 0 THEN 0 ELSE log[m].total
  <1>1. /\ n \in Nat /\ Len(log) \in Nat /\ DOMAIN first = 1..n /\ 1..n \subseteq 1..Len(log)
        /\ \A i \in 1..n : first[i] = log[i]
    OBVIOUS
  <1>2. IsFiniteSet(1..n)
    BY <1>1, FS_Interval
  <1>3. PICK it : IsSum(it, h, 1..n) /\ Mirrored!Filled(first) = it[1..n]
    <2>1. IsFiniteSet(DOMAIN first)
      BY <1>1, <1>2
    <2> HIDE DEF first
    <2>2. \E it : IsSum(it, h, DOMAIN first) /\ Mirrored!Filled(first) = it[DOMAIN first]
      BY <2>1, FilledIsSum
    <2> QED
      BY <1>1, <2>2
  <1> HIDE DEF first
  <1>4. \A i \in 1..n : h[i] = log[i].lots /\ h[i] \in Int
    <2> SUFFICES ASSUME NEW i \in 1..n PROVE h[i] = log[i].lots /\ h[i] \in Int
      OBVIOUS
    <2>1. log[i] \in Event
      BY <1>1
    <2>2. h[i] = log[i].lots
      BY <1>1
    <2> QED
      BY <2>1, <2>2 DEF Event
  <1> HIDE DEF h
  <1>5. \A m \in 0..n : it[1..m] = T(m)
    <2> DEFINE Bad == {m \in 0..n : it[1..m] # T(m)}
    <2>1. SUFFICES ASSUME Bad # {} PROVE FALSE
      OBVIOUS
    <2>2. PICK m \in Bad : \A i \in Nat : i < m => i \notin Bad
      <3>1. Bad \in SUBSET Nat
        OBVIOUS
      <3> HIDE DEF Bad
      <3> QED
        BY <2>1, <3>1, SmallestNumber
    <2>3. m \in 0..n /\ it[1..m] # T(m)
      BY <2>2
    <2>4. m # 0
      <3>1. 1..0 = {} /\ it[{}] = 0
        BY <1>3, SumCases
      <3> QED
        BY <2>3, <3>1
    <2>5. m \in 1..n /\ m - 1 \in 0..n /\ m - 1 \in Nat /\ m - 1 < m
      BY <1>1, <2>3, <2>4
    <2>6. it[1..m - 1] = T(m - 1)
      BY <2>2, <2>5
    <2>7. it[1..m] = h[m] + it[(1..m) \ {m}]
      <3>1. 1..m \in SUBSET (1..n) /\ m \in 1..m
        BY <2>5
      <3>2. IsFiniteSet(1..m)
        BY <1>2, <3>1, FS_Subset
      <3>3. \A x \in 1..m : h[x] \in Int
        BY <1>4, <3>1
      <3>4. PICK D, u : D = 1..n /\ u = 1..m
        OBVIOUS
      <3>5. IsSum(it, h, D) /\ u \in SUBSET D /\ IsFiniteSet(u) /\ m \in u
        BY <1>3, <3>1, <3>2, <3>4
      <3>6. \A x \in u : h[x] \in Int
        BY <3>3, <3>4
      <3> HIDE DEF Bad, T
      <3>7. it[u] = h[m] + it[u \ {m}]
        BY <3>5, <3>6, SumTakes
      <3> QED
        BY <3>4, <3>7
    <2>8. (1..m) \ {m} = 1..m - 1
      BY <2>5
    <2>9. T(m) = T(m - 1) + h[m]
      <3>1. m \in 1..Len(log)
        BY <1>1, <2>5
      <3>2. log[m].total = (IF m = 1 THEN 0 ELSE log[m - 1].total) + log[m].lots
        BY <3>1
      <3>3. h[m] = log[m].lots
        BY <1>4, <2>5
      <3>4. (m = 1 <=> m - 1 = 0) /\ m # 0
        BY <2>5
      <3> QED
        BY <3>2, <3>3, <3>4
    <2>10. h[m] \in Int /\ T(m - 1) \in Int
      <3>1. m - 1 # 0 => m - 1 \in 1..Len(log)
        BY <1>1, <2>5
      <3>2. m - 1 # 0 => log[m - 1] \in Event
        BY <3>1
      <3> QED
        BY <1>4, <2>5, <3>2 DEF Event
    <2> HIDE DEF T
    <2>11. it[1..m] = T(m)
      <3>1. it[(1..m) \ {m}] = T(m - 1)
        BY <2>6, <2>8
      <3>2. PICK before : before = T(m - 1) /\ before \in Int
        BY <2>10
      <3>3. it[1..m] = h[m] + before /\ T(m) = before + h[m]
        BY <2>7, <2>9, <3>1, <3>2
      <3> QED
        BY <2>10, <3>2, <3>3
    <2> QED
      BY <2>3, <2>11
  <1>6. it[1..n] = T(n)
    BY <1>1, <1>5
  <1> QED
    BY <1>3, <1>6 DEF first

\* The sum of h over all orders.
Total(h) == (CHOOSE it : IsSum(it, h, OrderKeys))[OrderKeys]

\* Any function that sums h gives it.
LEMMA TotalIs ==
    ASSUME IsFiniteSet(OrderKeys), NEW h, NEW it, IsSum(it, h, OrderKeys)
    PROVE  Total(h) = it[OrderKeys]
  <1>1. IsSum(CHOOSE i : IsSum(i, h, OrderKeys), h, OrderKeys)
    OBVIOUS
  <1>2. PICK i : i = (CHOOSE j : IsSum(j, h, OrderKeys)) /\ IsSum(i, h, OrderKeys)
    BY <1>1
  <1>3. OrderKeys \in (SUBSET OrderKeys) \cap (SUBSET OrderKeys)
    OBVIOUS
  <1>4. i[OrderKeys] = it[OrderKeys]
    BY <1>2, <1>3, SumSame
  <1> QED
    BY <1>2, <1>4 DEF Total

\* Two functions that agree on all orders have the same total.
LEMMA TotalSame ==
    ASSUME IsFiniteSet(OrderKeys), NEW h, NEW h2, \A k \in OrderKeys : h[k] = h2[k]
    PROVE  Total(h) = Total(h2)
  <1>1. PICK it : IsSum(it, h, OrderKeys)
    BY SumExists
  <1>2. PICK it2 : IsSum(it2, h2, OrderKeys)
    BY SumExists
  <1>3. OrderKeys \in (SUBSET OrderKeys) \cap (SUBSET OrderKeys)
    OBVIOUS
  <1>4. it[OrderKeys] = it2[OrderKeys]
    BY <1>1, <1>2, <1>3, SumSame
  <1> QED
    BY <1>1, <1>2, <1>4, TotalIs

\* A change at one order changes the total by as much.
LEMMA TotalChange ==
    ASSUME IsFiniteSet(OrderKeys), NEW h, NEW h2, NEW k \in OrderKeys, NEW d \in Int,
           \A j \in OrderKeys : h[j] \in Int /\ h2[j] \in Int,
           \A j \in OrderKeys \ {k} : h[j] = h2[j],
           h2[k] = h[k] + d
    PROVE  Total(h) \in Int /\ Total(h2) = Total(h) + d
  <1>1. PICK it : IsSum(it, h, OrderKeys)
    BY SumExists
  <1>2. PICK it2 : IsSum(it2, h2, OrderKeys)
    BY SumExists
  <1> DEFINE rest == OrderKeys \ {k}
  <1>3. OrderKeys \in SUBSET OrderKeys /\ rest \in (SUBSET OrderKeys) \cap (SUBSET OrderKeys)
    OBVIOUS
  <1>4. IsFiniteSet(rest)
    BY FS_Subset
  <1>5. it[OrderKeys] = h[k] + it[rest] /\ it2[OrderKeys] = h2[k] + it2[rest]
    BY <1>1, <1>2, <1>3, SumTakes
  <1>6. it[rest] = it2[rest]
    <2> HIDE DEF rest
    <2>1. \A x \in rest : h[x] = h2[x]
      BY DEF rest
    <2> QED
      BY <1>1, <1>2, <1>3, <1>4, <2>1, SumSame
  <1>7. it[OrderKeys] \in Int /\ it[rest] \in Int
    BY <1>1, <1>3, <1>4, SumTyped
  <1>8. h[k] \in Int /\ h2[k] = h[k] + d
    OBVIOUS
  <1>9. it2[OrderKeys] = it[OrderKeys] + d
    BY <1>5, <1>6, <1>7, <1>8
  <1> QED
    BY <1>1, <1>2, <1>7, <1>9, TotalIs

\* The total of nothing traded.
LEMMA TotalOfZeroes ==
    ASSUME IsFiniteSet(OrderKeys), NEW h, \A k \in OrderKeys : h[k] = 0
    PROVE  Total(h) = 0
  <1>1. PICK it : IsSum(it, h, OrderKeys)
    BY SumExists
  <1>2. it[OrderKeys] = 0
    BY <1>1, SumOfZeroes
  <1> QED
    BY <1>1, <1>2, TotalIs

\* What BrokerMirror!Net computes is the total of the fills its logs show.
LEMMA NetIsTotal ==
    ASSUME IsFiniteSet(OrderKeys), NEW s, NEW n, NEW h,
           h = [o \in OrderKeys |-> s[o] * Mirrored!Filled(SubSeq(stored.broker[o].events, 1, n[o]))]
    PROVE  Mirrored!Net(s, n) = Total(h)
  <1> DEFINE sent == [o \in OrderKeys |-> stored.broker[o].events]
             P(j) == j = [t \in SUBSET OrderKeys |->
                            IF t = {} THEN 0
                            ELSE s[One(t)] * Mirrored!Filled(SubSeq(sent[One(t)], 1, n[One(t)]))
                                    + j[t \ {One(t)}]]
  <1>1. Mirrored!Net(s, n) = (CHOOSE j : P(j))[OrderKeys]
    BY DEF Mirrored!Net, Mirrored!MapThenSumSet, Mirrored!MapThenFoldSet, One
  <1>2. \A j : P(j) <=> IsSum(j, h, OrderKeys)
    <2>1. \A t \in SUBSET OrderKeys : t # {} =>
            h[One(t)] = s[One(t)] * Mirrored!Filled(SubSeq(sent[One(t)], 1, n[One(t)]))
      BY DEF One
    <2> QED
      BY <2>1 DEF IsSum
  <1>3. \E j : P(j)
    BY <1>2, SumExists
  <1>4. P(CHOOSE j : P(j))
    BY <1>3
  <1>5. PICK j : j = (CHOOSE i : P(i)) /\ IsSum(j, h, OrderKeys)
    BY <1>2, <1>4
  <1>6. Total(h) = j[OrderKeys]
    BY <1>5, TotalIs
  <1> HIDE DEF P
  <1> QED
    BY <1>1, <1>5, <1>6

-----------------------------------------------------------------------------
(* The account mirrors the broker.                                         *)

\* The shares each order has traded; a sale counts as negative.
Traded(st) == [k \in OrderKeys |-> MirrorSide(st.orders[k]) * st.orders[k].filled]

\* The account holds what its orders have traded, no more and no less.
SharesOK(st) == st.shares = Total(Traded(st))

\* The stored account is the working one without the delivery under way.
Behind ==
    /\ stored.broker = state.broker
    /\ \A k \in OrderKeys :
          /\ MirrorSide(stored.orders[k]) = MirrorSide(state.orders[k])
          /\ stored.orders[k].sequence <= state.orders[k].sequence
          /\ k # delivery.order => stored.orders[k] = state.orders[k]

\* What a mirroring account satisfies beside the inductive invariant.
MInv == SharesOK(state) /\ SharesOK(stored) /\ Behind

\* A step of the reducer is one of BrokerMirror, or changes nothing it shows.
Simulated == [Mirrored!Change]_Mirrored!mirrorVars

\* The amounts an order has traded are integers.
LEMMA TradedIsInteger ==
    ASSUME NEW st, AccountOK(st), NEW k \in OrderKeys
    PROVE  /\ MirrorSide(st.orders[k]) \in {-1, 0, 1} /\ st.orders[k].filled \in Nat
           /\ st.orders[k].sequence \in Nat /\ st.shares \in Nat
           /\ Traded(st)[k] = MirrorSide(st.orders[k]) * st.orders[k].filled
           /\ Traded(st)[k] \in Int
  <1>1. st.orders[k].filled \in Nat /\ st.orders[k].sequence \in Nat /\ st.shares \in Nat
    BY AccountFunctions, OrderFields, AccountFields
  <1>2. PICK s, f : s = MirrorSide(st.orders[k]) /\ f = st.orders[k].filled
    OBVIOUS
  <1>3. s \in {-1, 0, 1}
    BY <1>2 DEF MirrorSide
  <1>4. s * f \in Int
    BY <1>1, <1>2, <1>3
  <1> QED
    BY <1>1, <1>2, <1>3, <1>4 DEF Traded

\* The two accounts show the same orders, fills and shares.
SameTrades(st, st2) ==
    /\ st2.shares = st.shares
    /\ \A k \in OrderKeys : MirrorSide(st2.orders[k]) * st2.orders[k].filled
                              = MirrorSide(st.orders[k]) * st.orders[k].filled

\* Then one holds what it has traded if the other does.
LEMMA SameTradesKeepShares ==
    ASSUME IsFiniteSet(OrderKeys), NEW st, NEW st2, SharesOK(st), SameTrades(st, st2)
    PROVE  SharesOK(st2)
  <1>1. \A k \in OrderKeys : Traded(st)[k] = Traded(st2)[k]
    BY DEF Traded, SameTrades
  <1>2. Total(Traded(st)) = Total(Traded(st2))
    BY <1>1, TotalSame
  <1> QED
    BY <1>2 DEF SharesOK, SameTrades

\* After a command has ended, the stored account is the working one.
LEMMA EndKeepsMirror ==
    ASSUME IInv', state' = stored', SharesOK(stored')
    PROVE  MInv'
  <1>1. \A k \in OrderKeys : stored'.orders[k].sequence \in Nat
    <2>1. AccountOK(stored')
      BY DEF IInv
    <2> QED
      BY <2>1, AccountFunctions, OrderFields
  <1>2. Behind'
    BY <1>1 DEF Behind
  <1> QED
    BY <1>2 DEF MInv

\* A refused command shows nothing.
LEMMA RefuseMirrors ==
    ASSUME IInv', MInv, NEW cause, Refuse(cause)
    PROVE  MInv' /\ Simulated
  <1>1. state' = stored /\ stored' = stored
    BY DEF Refuse
  <1>2. MInv'
    BY <1>1, EndKeepsMirror DEF MInv
  <1>3. Simulated
    BY <1>1 DEF Simulated, Mirrored!mirrorVars
  <1> QED
    BY <1>2, <1>3

\* How a command ends.
LEMMA FinishCases ==
    ASSUME NEW st, NEW keys, Finish(st, keys)
    PROVE  \/ state' = st /\ stored' = st
           \/ \E cause : Refuse(cause)
  BY DEF Finish

\* The view BrokerMirror has of an account.
SameView(st, st2) ==
    /\ st2.shares = st.shares /\ st2.broker = st.broker
    /\ \A k \in OrderKeys :
          /\ MirrorSide(st2.orders[k]) = MirrorSide(st.orders[k])
          /\ st2.orders[k].sequence = st.orders[k].sequence
          /\ st2.orders[k].filled = st.orders[k].filled

\* A command that changes nothing BrokerMirror sees.
LEMMA QuietFinishMirrors ==
    ASSUME IsFiniteSet(OrderKeys), IInv, IInv', MInv, NEW st, NEW keys, Finish(st, keys),
           SameView(stored, st)
    PROVE  MInv' /\ Simulated
  <1>1. CASE \E cause : Refuse(cause)
    BY <1>1, RefuseMirrors
  <1>2. CASE state' = st /\ stored' = st
    <2>1. SharesOK(st)
      BY SameTradesKeepShares DEF SameView, SameTrades, MInv
    <2>2. MInv'
      BY <1>2, <2>1, EndKeepsMirror
    <2>3. Simulated
      BY <1>2 DEF SameView, Simulated, Mirrored!mirrorVars
    <2> QED
      BY <2>2, <2>3
  <1> QED
    BY <1>1, <1>2, FinishCases

\* Commands that only write to the log.
LEMMA UnchangedMirrors ==
    ASSUME IsFiniteSet(OrderKeys), IInv, IInv', MInv, Idle, NEW keys, Finish(state, keys)
    PROVE  MInv' /\ Simulated
  <1>1. state = stored
    BY DEF IInv
  <1>2. SameView(stored, stored)
    BY DEF SameView
  <1> QED
    BY <1>1, <1>2, QuietFinishMirrors

\* STOP.
LEMMA StopMirrors ==
    ASSUME IsFiniteSet(OrderKeys), IInv, IInv', MInv, Stop
    PROVE  MInv' /\ Simulated
  <1> DEFINE st == [state EXCEPT !.stopped = TRUE]
  <1>1. Idle /\ Finish(st, {})
    BY DEF Stop
  <1>2. state = stored /\ state \in AccountType
    BY <1>1 DEF IInv, AccountOK
  <1>3. st.shares = state.shares /\ st.broker = state.broker /\ st.orders = state.orders
    BY <1>2 DEF AccountType
  <1> HIDE DEF st
  <1>4. SameView(stored, st)
    BY <1>2, <1>3 DEF SameView
  <1> QED
    BY <1>1, <1>4, QuietFinishMirrors

\* Another status, of an order that exists, shows nothing.
LEMMA RestatusShowsNothing ==
    ASSUME NEW st \in AccountType, NEW k \in OrderKeys, Exists(st.orders[k]),
           NEW s \in Statuses \ {"NONE"}, NEW st2, st2 = [st EXCEPT !.orders[k].status = s]
    PROVE  SameView(st, st2)
  <1> DEFINE o == st.orders[k]
             o2 == [o EXCEPT !.status = s]
  <1>1. o \in Order /\ st.orders \in [OrderKeys -> Order]
    BY DEF AccountType
  <1>2. o2.side = o.side /\ o2.filled = o.filled /\ o2.sequence = o.sequence /\ o2.status = s
    BY <1>1 DEF Order
  <1>3. MirrorSide(o2) = MirrorSide(o)
    BY <1>2 DEF MirrorSide, Exists
  <1>4. /\ st2.shares = st.shares /\ st2.broker = st.broker
        /\ st2.orders = [st.orders EXCEPT ![k] = o2]
    BY <1>1 DEF AccountType
  <1> HIDE DEF o2
  <1>5. \A j \in OrderKeys : st2.orders[j] = IF j = k THEN o2 ELSE st.orders[j]
    BY <1>1, <1>4
  <1> QED
    BY <1>2, <1>3, <1>4, <1>5 DEF SameView

\* TIMEOUT leaves an order UNKNOWN, which BrokerMirror does not see.
LEMMA TimeoutMirrors ==
    ASSUME IsFiniteSet(OrderKeys), IInv, IInv', MInv, NEW k \in OrderKeys, Timeout(k)
    PROVE  MInv' /\ Simulated
  <1> DEFINE o == state.orders[k]
             s == IF o.status \in TERMINAL THEN o.status ELSE "UNKNOWN"
             st == [state EXCEPT !.orders[k].status = s]
  <1>1. Idle /\ Exists(state.orders[k])
    BY DEF Timeout
  <1>2. state \in AccountType /\ o \in Order /\ state = stored
    BY <1>1 DEF IInv, AccountOK, AccountType
  <1>3. Finish(st, {})
    <2>1. st = [state EXCEPT !.orders[k].status = IF @ \in TERMINAL THEN @ ELSE "UNKNOWN"]
      BY <1>2 DEF AccountType
    <2> QED
      BY <2>1 DEF Timeout
  <1>4. s \in Statuses \ {"NONE"}
    BY <1>2 DEF Statuses, TERMINAL
  <1> HIDE DEF s
  <1>5. SameView(stored, st)
    BY <1>1, <1>2, <1>4, RestatusShowsNothing
  <1> HIDE DEF st
  <1> QED
    BY <1>3, <1>5, QuietFinishMirrors

\* Placing an order is Place.
LEMMA IntendMirrors ==
    ASSUME IsFiniteSet(OrderKeys), IInv, IInv', MInv, NEW op \in OrderOps, NEW k \in OrderKeys,
           NEW lots, Intend(op, k, lots)
    PROVE  MInv' /\ Simulated
  <1> DEFINE st == Intended(state, op, k, lots)
             new == NewOrder(op, lots)
  <1>1. Idle /\ k \notin seen /\ Finish(st, {k})
    BY DEF Intend, Intended
  <1>2. /\ state \in AccountType /\ AccountOK(state) /\ state = stored
        /\ ~Exists(state.orders[k])
    BY <1>1 DEF IInv, AccountOK
  <1>3. /\ st.shares = state.shares /\ st.broker = state.broker
        /\ st.orders = [state.orders EXCEPT ![k] = new]
    BY <1>2 DEF Intended, AccountType
  <1>4. new.filled = 0 /\ new.sequence = 0 /\ MirrorSide(new) \in {-1, 1}
    BY DEF NewOrder, MirrorSide, Exists, SideOf
  <1>5. /\ MirrorSide(state.orders[k]) = 0 /\ state.orders[k].sequence = 0
        /\ state.orders[k].filled = 0
    BY <1>2, AccountFunctions DEF MirrorSide, OrderOK, Follows
  <1> HIDE DEF st, new
  <1>6. \A j \in OrderKeys : st.orders[j] = IF j = k THEN new ELSE state.orders[j]
    BY <1>2, <1>3 DEF AccountType
  <1>7. SharesOK(st)
    <2>1. MirrorSide(new) * 0 = 0 /\ 0 * 0 = 0
      BY <1>4
    <2>2. SameTrades(stored, st)
      BY <1>2, <1>3, <1>4, <1>5, <1>6, <2>1 DEF SameTrades
    <2> QED
      BY <2>2, SameTradesKeepShares DEF MInv
  <1>8. CASE \E cause : Refuse(cause)
    BY <1>8, RefuseMirrors
  <1>9. CASE state' = st /\ stored' = st
    <2>1. MInv'
      BY <1>7, <1>9, EndKeepsMirror
    <2>2. Mirrored!Place(k)
      <3> DEFINE side  == [j \in OrderKeys |-> MirrorSide(stored.orders[j])]
                 side2 == [j \in OrderKeys |-> MirrorSide(st.orders[j])]
      <3>1. side[k] = 0
        BY <1>2, <1>5
      <3>2. side2 \in {[side EXCEPT ![k] = 1], [side EXCEPT ![k] = -1]}
        <4>1. side2 = [side EXCEPT ![k] = MirrorSide(new)]
          BY <1>2, <1>6
        <4> HIDE DEF side, side2
        <4> QED
          BY <1>4, <4>1
      <3>3. \A j \in OrderKeys : st.orders[j].sequence = stored.orders[j].sequence
        BY <1>2, <1>4, <1>5, <1>6
      <3>4. st.broker = stored.broker /\ st.shares = stored.shares
        BY <1>2, <1>3
      <3> QED
        BY <1>9, <3>1, <3>2, <3>3, <3>4 DEF Mirrored!Place
    <2> QED
      BY <2>1, <2>2 DEF Simulated, Mirrored!Change
  <1> QED
    BY <1>1, <1>8, <1>9, FinishCases

\* The broker's log of an order grows by an event: Record.
LEMMA RecordMirrors ==
    ASSUME IsFiniteSet(OrderKeys), IInv, IInv', MInv, Idle, NEW k \in OrderKeys,
           Exists(state.orders[k]), NEW e, NEW b2,
           b2.events = Append(state.broker[k].events, e),
           \A i \in 1..Len(state.broker[k].events) :
              i = Len(state.broker[k].events)
                => state.broker[k].events[i].kind \notin {"CANCELLED", "REJECTED"},
           NEW st, st = [state EXCEPT !.broker[k] = b2], Finish(st, {})
    PROVE  MInv' /\ Simulated
  <1> DEFINE b == state.broker[k]
  <1>1. /\ state \in AccountType /\ AccountOK(state) /\ state = stored
    BY DEF IInv, AccountOK
  <1>2. /\ st.shares = state.shares /\ st.orders = state.orders
        /\ st.broker = [state.broker EXCEPT ![k] = b2]
    BY <1>1 DEF AccountType
  <1>3. b.events \in Seq(Event)
    BY <1>1, AccountFunctions DEF Broker
  <1>4. \A j \in OrderKeys : st.broker[j] = IF j = k THEN b2 ELSE state.broker[j]
    BY <1>1, <1>2 DEF AccountType
  <1>5. SharesOK(st)
    <2>1. SameTrades(stored, st)
      BY <1>1, <1>2 DEF SameTrades
    <2> QED
      BY <2>1, SameTradesKeepShares DEF MInv
  <1>6. CASE \E cause : Refuse(cause)
    BY <1>6, RefuseMirrors
  <1>7. CASE state' = st /\ stored' = st
    <2>1. MInv'
      BY <1>5, <1>7, EndKeepsMirror
    <2>2. Mirrored!Record(k)
      <3> DEFINE log == stored.broker[k].events
      <3>1. log = b.events /\ log \in Seq(Event)
        BY <1>1, <1>3
      <3>2. b2.events # <<>> /\ Mirrored!Front(b2.events) = log
        <4>1. b2.events = Append(log, e)
          BY <1>1
        <4>2. \A q \in Seq(Event) : \A x : Append(q, x) # <<>>
          OBVIOUS
        <4>3. SubSeq(Append(log, e), 1, Len(Append(log, e)) - 1) = log
          <5> HIDE DEF log
          <5>1. log \in Seq(Event \cup {e})
            BY <3>1
          <5> QED
            BY <5>1
        <4> QED
          BY <3>1, <4>1, <4>2, <4>3 DEF Mirrored!Front
      <3>3. log # <<>> => ~Mirrored!Final(Mirrored!Last(log))
        <4>1. log # <<>> => Len(log) \in 1..Len(log)
          BY <3>1
        <4> QED
          BY <1>1, <4>1 DEF Mirrored!Final, Mirrored!Last
      <3>4. MirrorSide(stored.orders[k]) # 0
        BY <1>1 DEF MirrorSide
      <3> DEFINE sent == [j \in OrderKeys |-> stored.broker[j].events]
                 sent2 == [j \in OrderKeys |-> st.broker[j].events]
      <3>5. sent[k] = log /\ sent2[k] = b2.events
        BY <1>4
      <3>6. \A p \in OrderKeys \ {k} : sent2[p] = sent[p]
        BY <1>1, <1>4
      <3>7. st.orders = stored.orders /\ st.shares = stored.shares
        BY <1>1, <1>2
      <3> HIDE DEF log
      <3>8. sent[k] # <<>> => ~Mirrored!Final(Mirrored!Last(sent[k]))
        BY <3>3, <3>5
      <3>9. sent2[k] # <<>> /\ Mirrored!Front(sent2[k]) = sent[k]
        BY <3>2, <3>5
      <3> QED
        BY <1>7, <3>4, <3>6, <3>7, <3>8, <3>9 DEF Mirrored!Record
    <2> QED
      BY <2>1, <2>2 DEF Simulated, Mirrored!Change
  <1> QED
    BY <1>6, <1>7, FinishCases

\* DISPATCH records the acknowledgement, once.
LEMMA DispatchMirrors ==
    ASSUME IsFiniteSet(OrderKeys), IInv, IInv', MInv, NEW k \in OrderKeys, Dispatch(k)
    PROVE  MInv' /\ Simulated
  <1> DEFINE b2 == [status |-> "ACCEPTED", filled |-> 0, events |-> <<Ack>>]
             st == [state EXCEPT !.broker[k] = b2]
  <1>1. Idle /\ Exists(state.orders[k])
    BY DEF Dispatch
  <1>2. CASE Exists(state.broker[k])
    BY <1>1, <1>2, UnchangedMirrors DEF Dispatch
  <1>3. CASE ~Exists(state.broker[k])
    <2>1. Finish(st, {})
      BY <1>3 DEF Dispatch
    <2>2. Len(state.broker[k].events) = 0 /\ state.broker[k].events \in Seq(Event)
      <3>1. AccountOK(state)
        BY DEF IInv
      <3> QED
        BY <1>3, <3>1, AccountFunctions DEF OrderOK, LogOK, Broker, Exists
    <2>3. b2.events = Append(state.broker[k].events, Ack)
      <3>1. state.broker[k].events = <<>>
        BY <2>2
      <3> QED
        BY <3>1
    <2> HIDE DEF b2
    <2>4. \A i \in 1..Len(state.broker[k].events) :
            i = Len(state.broker[k].events)
              => state.broker[k].events[i].kind \notin {"CANCELLED", "REJECTED"}
      BY <2>2
    <2> QED
      BY <1>1, <2>1, <2>3, <2>4, RecordMirrors
  <1> QED
    BY <1>2, <1>3

\* The log of an order the broker works on has no closing event.
LEMMA WorkingLogIsOpen ==
    ASSUME IInv, NEW k \in OrderKeys, Working(k)
    PROVE  /\ Exists(state.orders[k])
           /\ \A i \in 1..Len(state.broker[k].events) :
                i = Len(state.broker[k].events)
                  => state.broker[k].events[i].kind \notin {"CANCELLED", "REJECTED"}
  <1>1. AccountOK(state)
    BY DEF IInv
  <1>2. OrderOK(state.orders[k], state.broker[k])
    BY <1>1, AccountFunctions
  <1> QED
    BY <1>2 DEF Working, OrderOK, LogOK, TERMINAL

\* PARTIAL_FILL and FILL.
LEMMA BrokerFillMirrors ==
    ASSUME IsFiniteSet(OrderKeys), IInv, IInv', MInv, NEW op, NEW k \in OrderKeys, NEW lots,
           BrokerFill(op, k, lots)
    PROVE  MInv' /\ Simulated
  <1> DEFINE b == state.broker[k]
             e == [kind |-> "FILL", lots |-> lots, total |-> b.filled + lots]
             b2 == [status |-> IF lots = Remaining(k) THEN "FILLED" ELSE "PARTIALLY_FILLED",
                    filled |-> b.filled + lots, events |-> Append(b.events, e)]
  <1>1. Idle /\ Working(k) /\ Finish([state EXCEPT !.broker[k] = b2], {})
    BY DEF BrokerFill
  <1>2. b2.events = Append(b.events, e)
    OBVIOUS
  <1> HIDE DEF b2, e
  <1> QED
    BY <1>1, <1>2, WorkingLogIsOpen, RecordMirrors

\* CANCEL and REJECT.
LEMMA BrokerCloseMirrors ==
    ASSUME IsFiniteSet(OrderKeys), IInv, IInv', MInv, NEW op, NEW k \in OrderKeys,
           BrokerClose(op, k)
    PROVE  MInv' /\ Simulated
  <1> DEFINE b == state.broker[k]
             kind == ClosedAs(op)
             e == [kind |-> kind, lots |-> 0, total |-> b.filled]
             b2 == [b EXCEPT !.status = kind, !.events = Append(@, e)]
  <1>1. Idle /\ Working(k)
    BY DEF BrokerClose
  <1>2. state \in AccountType /\ b \in Broker
    BY DEF IInv, AccountOK, AccountType
  <1>3. Finish([state EXCEPT !.broker[k] = b2], {})
    <2>1. [state EXCEPT !.broker[k].status = kind,
                        !.broker[k].events = Append(@, [kind |-> kind, lots |-> 0,
                                                        total |-> state.broker[k].filled])]
            = [state EXCEPT !.broker[k] = b2]
      BY <1>2 DEF AccountType, Broker
    <2> QED
      BY <2>1 DEF BrokerClose
  <1>4. b2.events = Append(b.events, e)
    BY <1>2 DEF Broker
  <1> HIDE DEF b2, e
  <1> QED
    BY <1>1, <1>3, <1>4, WorkingLogIsOpen, RecordMirrors

\* RECONCILE, REVERSE and DUPLICATE show nothing until they settle.
LEMMA StartDeliveryMirrors ==
    ASSUME IInv, MInv, NEW op, NEW k \in OrderKeys, StartDelivery(op, k)
    PROVE  MInv' /\ Simulated
  <1>1. /\ Idle /\ state' = state /\ stored' = stored /\ state = stored
    BY DEF StartDelivery, IInv
  <1>2. MInv'
    BY <1>1 DEF MInv, Behind
  <1>3. Simulated
    BY <1>1 DEF Simulated, Mirrored!mirrorVars
  <1> QED
    BY <1>2, <1>3

\* Nor do the steps of a delivery.  Handing over an event trades nothing.
LEMMA ReceiveMirrors ==
    ASSUME IsFiniteSet(OrderKeys), IInv, MInv, Receive
    PROVE  MInv' /\ Simulated
  <1> DEFINE e == <<delivery.order, Head(delivery.left)>>
  <1>1. stored' = stored /\ delivery'.order = delivery.order /\ ~Idle
    <2>1. ~Idle /\ delivery' = [delivery EXCEPT !.left = Tail(@)] /\ stored' = stored
      BY DEF Receive
    <2>2. DeliveryOK
      BY <2>1 DEF IInv
    <2> QED
      BY <2>1, <2>2 DEF DeliveryOK
  <1>2. state' = state \/ state' = [state EXCEPT !.pending = @ \cup {e}]
    BY DEF Receive
  <1>3. state \in AccountType
    BY DEF IInv, AccountOK
  <1>4. state'.shares = state.shares /\ state'.orders = state.orders /\ state'.broker = state.broker
    BY <1>2, <1>3 DEF AccountType
  <1>5. SharesOK(state')
    <2>1. SameTrades(state, state')
      BY <1>4 DEF SameTrades
    <2>2. SharesOK(state)
      BY DEF MInv
    <2> QED
      BY <2>1, <2>2, SameTradesKeepShares
  <1>6. SharesOK(stored')
    BY <1>1 DEF MInv
  <1>7. Behind'
    BY <1>1, <1>4 DEF MInv, Behind
  <1>8. Simulated
    BY <1>1 DEF Simulated, Mirrored!mirrorVars
  <1> QED
    BY <1>5, <1>6, <1>7, <1>8 DEF MInv

\* A fill of an order trades that many shares.
LEMMA FillTrades ==
    ASSUME IsFiniteSet(OrderKeys), NEW st, AccountOK(st), SharesOK(st), NEW k \in OrderKeys,
           Exists(st.orders[k]), NEW st2, AppliedTo(st, k, st2)
    PROVE  SharesOK(st2) /\ MirrorSide(st2.orders[k]) = MirrorSide(st.orders[k])
  <1> DEFINE o == st.orders[k]
             o2 == st2.orders[k]
  <1>1. AccountOK(st2) /\ o2.side = o.side /\ Exists(o2)
        /\ \A j \in OrderKeys \ {k} : st2.orders[j] = st.orders[j]
    BY DEF AppliedTo, Trades
  <1>2. MirrorSide(o2) = MirrorSide(o)
    BY <1>1 DEF MirrorSide
  <1>3. PICK lots \in Nat : /\ o2.filled = o.filled + lots
                            /\ st2.shares = (IF o.side = "BUY" THEN st.shares + lots ELSE st.shares - lots)
    BY DEF AppliedTo, Trades
  <1>4. PICK d : d = IF o.side = "BUY" THEN lots ELSE -lots
    OBVIOUS
  <1>5. d \in Int /\ st2.shares = st.shares + d
    <2>1. st.shares \in Nat
      BY TradedIsInteger
    <2> HIDE DEF o
    <2> QED
      BY <1>3, <1>4, <2>1
  <1>6. Traded(st2)[k] = Traded(st)[k] + d
    <2>1. /\ Traded(st)[k] = MirrorSide(o) * o.filled /\ o.filled \in Nat
          /\ Traded(st2)[k] = MirrorSide(o2) * o2.filled
      BY <1>1, TradedIsInteger
    <2>2. MirrorSide(o) = IF o.side = "BUY" THEN 1 ELSE -1
      BY DEF MirrorSide
    <2> HIDE DEF o, o2
    <2>3. CASE o.side = "BUY"
      BY <1>2, <1>3, <1>4, <2>1, <2>2, <2>3
    <2>4. CASE o.side # "BUY"
      BY <1>2, <1>3, <1>4, <2>1, <2>2, <2>4
    <2> QED
      BY <2>3, <2>4
  <1>7. \A j \in OrderKeys : Traded(st)[j] \in Int /\ Traded(st2)[j] \in Int
    BY <1>1, TradedIsInteger
  <1>8. \A j \in OrderKeys \ {k} : Traded(st)[j] = Traded(st2)[j]
    BY <1>1 DEF Traded
  <1>9. Total(Traded(st2)) = Total(Traded(st)) + d
    BY <1>5, <1>6, <1>7, <1>8, TotalChange
  <1> QED
    BY <1>2, <1>5, <1>9 DEF SharesOK

\* Applying an event trades what it fills, on the working account only.
LEMMA ApplyMirrors ==
    ASSUME IsFiniteSet(OrderKeys), IInv, IInv', MInv, Apply
    PROVE  MInv' /\ Simulated
  <1> DEFINE k == delivery.order
  <1>1. /\ stored' = stored /\ delivery' = delivery /\ ~Idle
        /\ AppliedTo(state, k, state')
    BY AppliedByApply
  <1>2. /\ k \in OrderKeys /\ AccountOK(state) /\ Exists(state.orders[k])
        /\ state.orders[k].sequence \in Nat
    BY <1>1, DeliveryFacts
  <1>3. SharesOK(state)
    BY DEF MInv
  <1> HIDE DEF k
  <1>4. SharesOK(state') /\ MirrorSide(state'.orders[k]) = MirrorSide(state.orders[k])
    BY <1>1, <1>2, <1>3, FillTrades
  <1>5. /\ state'.broker = state.broker
        /\ state'.orders[k].sequence = state.orders[k].sequence + 1
        /\ \A j \in OrderKeys \ {k} : state'.orders[j] = state.orders[j]
    BY <1>1 DEF AppliedTo
  <1>6. SharesOK(stored')
    BY <1>1 DEF MInv
  <1>7. Behind'
    <2>1. stored'.broker = state'.broker
      BY <1>1, <1>5 DEF MInv, Behind
    <2>2. ASSUME NEW j \in OrderKeys
          PROVE  /\ MirrorSide(stored'.orders[j]) = MirrorSide(state'.orders[j])
                 /\ stored'.orders[j].sequence <= state'.orders[j].sequence
                 /\ j # delivery'.order => stored'.orders[j] = state'.orders[j]
      <3>1. CASE j # k
        BY <1>1, <1>5, <3>1 DEF MInv, Behind, k
      <3>2. CASE j = k
        <4>1. MirrorSide(stored'.orders[j]) = MirrorSide(state'.orders[j])
          BY <1>1, <1>4, <3>2 DEF MInv, Behind
        <4>2. /\ stored.orders[j].sequence \in Nat /\ state.orders[j].sequence \in Nat
              /\ stored.orders[j].sequence <= state.orders[j].sequence
          <5>1. AccountOK(stored)
            BY DEF IInv
          <5> QED
            BY <1>2, <5>1, <3>2, AccountFunctions, OrderFields DEF MInv, Behind
        <4>3. stored'.orders[j].sequence <= state'.orders[j].sequence
          BY <1>1, <1>5, <3>2, <4>2
        <4> QED
          BY <1>1, <3>2, <4>1, <4>3 DEF k
      <3> QED
        BY <3>1, <3>2
    <2> QED
      BY <2>1, <2>2 DEF Behind
  <1>8. Simulated
    BY <1>1 DEF Simulated, Mirrored!mirrorVars
  <1> QED
    BY <1>4, <1>6, <1>7, <1>8 DEF MInv

\* What a right account has traded is what BrokerMirror!Net computes from the
\* logs of its broker, up to the events each order has seen.
LEMMA NetIsTraded ==
    ASSUME IsFiniteSet(OrderKeys), NEW st, AccountOK(st), st.broker = stored.broker,
           NEW s, s = [k \in OrderKeys |-> MirrorSide(st.orders[k])],
           NEW n, n = [k \in OrderKeys |-> st.orders[k].sequence]
    PROVE  Mirrored!Net(s, n) = Total(Traded(st))
  <1> DEFINE h == [k \in OrderKeys |-> s[k] * Mirrored!Filled(SubSeq(stored.broker[k].events, 1, n[k]))]
  <1>1. Mirrored!Net(s, n) = Total(h)
    BY NetIsTotal
  <1>2. ASSUME NEW k \in OrderKeys PROVE h[k] = Traded(st)[k]
    <2> DEFINE o == st.orders[k]
               log == st.broker[k].events
    <2>1. OrderOK(o, st.broker[k]) /\ o.sequence \in Nat /\ log \in Seq(Event)
      BY AccountFunctions, OrderFields DEF Broker
    <2>2. /\ o.sequence <= Len(log)
          /\ o.filled = (IF o.sequence = 0 THEN 0 ELSE log[o.sequence].total)
      BY <2>1 DEF OrderOK, Follows
    <2>3. \A i \in 1..Len(log) :
            log[i].total = (IF i = 1 THEN 0 ELSE log[i - 1].total) + log[i].lots
      BY <2>1 DEF OrderOK, LogOK
    <2>4. h[k] = MirrorSide(o) * Mirrored!Filled(SubSeq(log, 1, o.sequence))
      OBVIOUS
    <2>5. Traded(st)[k] = MirrorSide(o) * o.filled
      BY DEF Traded
    <2> HIDE DEF o, log, h
    <2>6. o.sequence \in 0..Len(log)
      BY <2>1, <2>2
    <2>7. Mirrored!Filled(SubSeq(log, 1, o.sequence)) = o.filled
      BY <2>1, <2>2, <2>3, <2>6, FilledIsTotal
    <2> QED
      BY <2>4, <2>5, <2>7
  <1> HIDE DEF h
  <1>3. Total(h) = Total(Traded(st))
    BY <1>2, TotalSame
  <1> QED
    BY <1>1, <1>3

\* A delivery that settles is Reflect, or shows nothing new.
LEMMA SettleMirrors ==
    ASSUME IsFiniteSet(OrderKeys), IInv, IInv', MInv, Settle
    PROVE  MInv' /\ Simulated
  <1>0. ~Idle
    BY DEF Settle
  <1> PICK k \in OrderKeys : k = delivery.order
    BY <1>0, DeliveryFacts
  <1> DEFINE s == state.broker[k].status
             st == [state EXCEPT !.orders[k].status = s]
  <1>1. Finish(st, {})
    BY DEF Settle, Settled
  <1>2. /\ k \in OrderKeys /\ AccountOK(state) /\ Exists(state.orders[k])
        /\ Exists(state.broker[k]) /\ state.broker[k] \in Broker /\ state \in AccountType
    BY <1>0, DeliveryFacts DEF AccountOK
  <1>3. s \in Statuses \ {"NONE"}
    BY <1>2 DEF Broker, Exists
  <1> HIDE DEF s
  <1>4. SameView(state, st)
    BY <1>2, <1>3, RestatusShowsNothing
  <1> HIDE DEF st
  <1>5. SharesOK(st)
    BY <1>4, SameTradesKeepShares DEF SameView, SameTrades, MInv
  <1>6. CASE \E cause : Refuse(cause)
    BY <1>6, RefuseMirrors
  <1>7. CASE state' = st /\ stored' = st
    <2>1. MInv'
      BY <1>5, <1>7, EndKeepsMirror
    <2>2. /\ st.broker = stored.broker
          /\ \A j \in OrderKeys :
                /\ MirrorSide(st.orders[j]) = MirrorSide(stored.orders[j])
                /\ j # k => /\ st.orders[j].sequence = stored.orders[j].sequence
                            /\ st.orders[j].filled = stored.orders[j].filled
      BY <1>4 DEF SameView, MInv, Behind
    <2>3. /\ st.orders[k].sequence = Len(stored.broker[k].events)
          /\ stored.orders[k].sequence <= st.orders[k].sequence
      BY <1>2, <1>4, SettledSequence DEF SameView, MInv, Behind
    <2>4. AccountOK(st) /\ AccountOK(stored)
      BY <1>7 DEF IInv
    <2>5. stored.orders[k].sequence \in Nat /\ st.orders[k].sequence \in Nat
      BY <1>2, <2>4, AccountFunctions, OrderFields
    <2>6. CASE stored.orders[k].sequence < st.orders[k].sequence
      <3> DEFINE side == [j \in OrderKeys |-> MirrorSide(stored.orders[j])]
                 side2 == [j \in OrderKeys |-> MirrorSide(st.orders[j])]
                 n == [j \in OrderKeys |-> stored.orders[j].sequence]
                 n2 == [j \in OrderKeys |-> st.orders[j].sequence]
                 sent == [j \in OrderKeys |-> stored.broker[j].events]
      <3>1. side2 = side
        BY <2>2
      <3>2. n[k] < Len(sent[k])
        BY <1>2, <2>3, <2>6
      <3>3. n2 = [n EXCEPT ![k] = Len(sent[k])]
        BY <1>2, <2>2, <2>3
      <3>4. st.shares = Mirrored!Net(side, n2)
        <4>1. Mirrored!Net(side2, n2) = Total(Traded(st))
          BY <2>2, <2>4, NetIsTraded
        <4> QED
          BY <1>5, <3>1, <4>1 DEF SharesOK
      <3>5. Mirrored!Reflect(k)
        BY <1>7, <2>2, <3>1, <3>2, <3>3, <3>4 DEF Mirrored!Reflect
      <3> QED
        BY <1>2, <2>1, <3>5 DEF Simulated, Mirrored!Change
    <2>7. CASE stored.orders[k].sequence = st.orders[k].sequence
      <3>1. st.orders[k].filled = stored.orders[k].filled
        <4>1. Follows(st.orders[k], st.broker[k]) /\ Follows(stored.orders[k], stored.broker[k])
          BY <1>2, <2>4, AccountFunctions DEF OrderOK
        <4> QED
          BY <2>2, <2>7, <4>1 DEF Follows
      <3>2. \A j \in OrderKeys : Traded(st)[j] = Traded(stored)[j]
        BY <2>2, <3>1 DEF Traded
      <3>3. st.shares = stored.shares
        <4>1. Total(Traded(st)) = Total(Traded(stored))
          BY <3>2, TotalSame
        <4> QED
          BY <1>5, <4>1 DEF SharesOK, MInv
      <3>4. \A j \in OrderKeys : st.orders[j].sequence = stored.orders[j].sequence
        BY <2>2, <2>7
      <3>5. Simulated
        BY <1>7, <2>2, <3>3, <3>4 DEF Simulated, Mirrored!mirrorVars
      <3> QED
        BY <2>1, <3>5
    <2> QED
      BY <2>3, <2>5, <2>6, <2>7
  <1> QED
    BY <1>1, <1>6, <1>7, FinishCases

\* Every command about an order.
LEMMA CommandMirrors ==
    ASSUME IsFiniteSet(OrderKeys), IInv, IInv', MInv, NEW k \in OrderKeys, Command(k)
    PROVE  MInv' /\ Simulated
  <1>1. CASE \E op \in OrderOps, lots \in Int : PlaceOrder(op, k, lots)
    <2> PICK op \in OrderOps, lots \in Int : PlaceOrder(op, k, lots)
      BY <1>1
    <2>1. CASE Intend(op, k, lots)
      BY <2>1, IntendMirrors
    <2>2. CASE Block(op, k, lots)
      BY <2>2, UnchangedMirrors DEF Block
    <2> QED
      BY <2>1, <2>2 DEF PlaceOrder
  <1>2. CASE \E op \in OrderOps : Repeat(op, k)
    BY <1>2, UnchangedMirrors DEF Repeat
  <1>3. CASE Dispatch(k)
    BY <1>3, DispatchMirrors
  <1>4. CASE Timeout(k)
    BY <1>4, TimeoutMirrors
  <1>5. CASE \E op, lots : BrokerFill(op, k, lots)
    BY <1>5, BrokerFillMirrors
  <1>6. CASE \E op \in {"CANCEL", "REJECT"} : BrokerClose(op, k)
    BY <1>6, BrokerCloseMirrors
  <1>7. CASE \E op \in MirrorOps : Mirror(op, k)
    <2> PICK op \in MirrorOps : Mirror(op, k)
      BY <1>7
    <2>1. CASE StartDelivery(op, k)
      BY <2>1, StartDeliveryMirrors
    <2>2. CASE NotFound(op, k)
      BY <2>2, UnchangedMirrors DEF NotFound
    <2> QED
      BY <2>1, <2>2 DEF Mirror
  <1>8. CASE \E op \in Ops : BadCommand(op, k)
    BY <1>8, RefuseMirrors DEF BadCommand
  <1>9. (\E op \in {"BUY", "SELL", "STALE_BUY"}, lots \in OrderLots : PlaceOrder(op, k, lots))
          => \E op \in OrderOps, lots \in Int : PlaceOrder(op, k, lots)
    BY ConfigAssumption DEF OrderOps
  <1>10. PlaceOrder("STRATEGY_BUY", k, StrategyLots(state))
          => \E op \in OrderOps, lots \in Int : PlaceOrder(op, k, lots)
    <2>1. AccountOK(state)
      BY DEF IInv
    <2>2. StrategyLots(state) \in Int /\ "STRATEGY_BUY" \in OrderOps
      BY <2>1, StrategyLotsIsInteger DEF OrderOps
    <2> QED
      BY <2>2
  <1> QED
    BY <1>1, <1>2, <1>3, <1>4, <1>5, <1>6, <1>7, <1>8, <1>9, <1>10 DEF Command

\* Every step of the reducer.
LEMMA StepMirrors ==
    ASSUME IsFiniteSet(OrderKeys), IInv, IInv', MInv, [Next]_vars
    PROVE  MInv' /\ Simulated
  <1>1. CASE Stop
    BY <1>1, StopMirrors
  <1>2. CASE Receive
    BY <1>2, ReceiveMirrors
  <1>3. CASE Apply
    BY <1>3, ApplyMirrors
  <1>4. CASE Settle
    BY <1>4, SettleMirrors
  <1>5. CASE \E k \in OrderKeys : Command(k)
    BY <1>5, CommandMirrors
  <1>6. CASE UNCHANGED vars
    <2>1. state' = state /\ stored' = stored /\ delivery' = delivery
      BY <1>6 DEF vars
    <2>2. MInv'
      BY <2>1 DEF MInv, Behind
    <2>3. Simulated
      BY <2>1 DEF Simulated, Mirrored!mirrorVars
    <2> QED
      BY <2>2, <2>3
  <1> QED
    BY <1>1, <1>2, <1>3, <1>4, <1>5, <1>6 DEF Next, Deliver

\* Before the first command nothing has been traded.
LEMMA InitMirrors ==
    ASSUME IsFiniteSet(OrderKeys), Init
    PROVE  MInv /\ Mirrored!Start
  <1>1. state = InitialState /\ stored = InitialState
    BY DEF Init
  <1>2. /\ stored.shares = 0
        /\ \A k \in OrderKeys : stored.orders[k] = NoOrderYet /\ stored.broker[k] = NoBrokerYet
    BY <1>1 DEF InitialState
  <1>3. /\ MirrorSide(NoOrderYet) = 0 /\ NoOrderYet.filled = 0 /\ NoOrderYet.sequence = 0
        /\ NoBrokerYet.events = <<>>
    BY DEF MirrorSide, Exists, NoOrderYet, NoBrokerYet
  <1>4. SharesOK(stored)
    <2>1. \A k \in OrderKeys : Traded(stored)[k] = 0
      BY <1>2, <1>3 DEF Traded
    <2> QED
      BY <1>2, <2>1, TotalOfZeroes DEF SharesOK
  <1>5. Behind
    <2>1. \A k \in OrderKeys : stored.orders[k].sequence <= state.orders[k].sequence
      BY <1>1, <1>2, <1>3
    <2> QED
      BY <1>1, <2>1 DEF Behind
  <1>6. Mirrored!Start
    BY <1>2, <1>3 DEF Mirrored!Start
  <1> QED
    BY <1>1, <1>4, <1>5, <1>6 DEF MInv

\* The reducer implements BrokerMirror: refused commands, timeouts and repeats
\* show nothing, and whatever the order and number of times the events of a
\* broker are delivered, the account moves to exactly the fills of its log.
\* A sum over the orders asks for finitely many of them.
THEOREM AccountImplementsMirror ==
    ASSUME IsFiniteSet(OrderKeys)
    PROVE  Spec => MirrorsBroker
  <1>1. Init => MInv /\ Mirrored!Start
    BY InitMirrors
  <1>2. IInv /\ IInv' /\ MInv /\ [Next]_vars => MInv' /\ [Mirrored!Change]_Mirrored!mirrorVars
    BY StepMirrors DEF Simulated
  <1> QED
    BY <1>1, <1>2, Invariance, PTL DEF Spec, MirrorsBroker, Mirrored!Mirroring

\* The shares an account holds are those its orders have traded.
THEOREM SharesAreTraded ==
    ASSUME IsFiniteSet(OrderKeys)
    PROVE  Spec => [](SharesOK(state) /\ SharesOK(stored))
  <1>1. Init => MInv
    BY InitMirrors
  <1>2. IInv /\ IInv' /\ MInv /\ [Next]_vars => MInv'
    BY StepMirrors
  <1>3. MInv => SharesOK(state) /\ SharesOK(stored)
    BY DEF MInv
  <1> QED
    BY <1>1, <1>2, <1>3, Invariance, PTL DEF Spec

=============================================================================
