-------------------------- MODULE ListsAndViewsProofs --------------------------
(***************************************************************************)
(* Proofs about the two kinds of pages that show what the server has:      *)
(* MarketViews, for any keys, symbols, changes, ticks and lost             *)
(* connections, and RowLists, for any rows, commands and refreshes.  The   *)
(* two share no name; MarketViews comes first.                             *)
(*                                                                         *)
(* MarketViews.  Loads by key and the stream share no variable but         *)
(* `changes`, so the invariant has two halves.  LoadsOK: what is on its    *)
(* way is for the key wanted (a search: the last one is, unless it was     *)
(* answered).  StreamOK: the last message queued of a kind is the latest   *)
(* there was, so that what remains when the queue is empty is current, but *)
(* for what is excused.                                                    *)
(*                                                                         *)
(* RowLists.  The invariant is a statement on one row: of its commands at  *)
(* most two are out, one of them its deletion (OneAtATime); what the       *)
(* server has is what the user asked, or a command on its way will make it *)
(* so (AskedOK); what is shown is what the server has, or an answer on its *)
(* way will make it so (ShownOK).  The other parts say which commands each *)
(* page sends, and what loads, forms and the notifications need.           *)
(***************************************************************************)
EXTENDS MarketViews, RowLists, FiniteSetTheorems, TLAPS

-----------------------------------------------------------------------------
(* MarketViews: the inductive invariant.                                   *)

\* Of several searches the last is still out or the newest answered.
SearchOK ==
    /\ latest.n <= changes
    /\ latest.n = changes \/ \E q \in requests : q.n = changes
    /\ \A q \in requests : q.n = changes => q.key = wanted
    /\ requests = {} =>
          /\ ~busy
          /\ ~latest.late /\ ~failed => result # None /\ result.n = latest.n /\ result.data = wanted

LoadsOK ==
    /\ wanted.attempt <= changes
    /\ \A q \in requests : q.n <= changes
    /\ view = "quotes" => requests = {}
    /\ view \in {"panel", "resource", "momentum"} => \A q \in requests : q.key = wanted /\ requests = {q}
    /\ result # None /\ result.outcome = "success" => result.data = result.key
    /\ RetryWorks
    /\ view = "search" => SearchOK

\* A tick queued is of the current price unless another of its symbol follows it.
TicksCurrent(queue, price) ==
    \A i \in DOMAIN queue : queue[i].kind = "tick" =>
        \/ queue[i].price = price[queue[i].of]
        \/ \E j \in DOMAIN queue : j > i /\ queue[j].kind = "tick" /\ queue[j].of = queue[i].of

NewsCurrent(queue, active) ==
    \A i \in DOMAIN queue : queue[i].kind = "symbols" =>
        \/ queue[i].active = active
        \/ \E j \in DOMAIN queue : j > i /\ queue[j].kind = "symbols"

\* Only an open connection has messages on their way, of its symbols.
ConnOK ==
    conn # None =>
        /\ conn.queue # <<>> => conn.phase = "up"
        /\ \A i \in DOMAIN conn.queue : conn.queue[i].kind = "tick" => conn.queue[i].of \in conn.to
        /\ TicksCurrent(conn.queue, Current.price)
        /\ NewsCurrent(conn.queue, Current.active)

SymbolsOK == view = "quotes" /\ snapshot = None /\ ~untold /\ ~QueuedNews => tickers = Current.active

PricesOK ==
    snapshot = None /\ refetches = {} =>
        \A t \in tickers \ missed :
            t \notin QueuedTicks => quotes[t] # None /\ quotes[t].price = Current.price[t]

NamesOK == \A t \in Tickers \ unlisted : quotes[t] # None /\ quotes[t].named

StreamOK == ConnOK /\ SymbolsOK /\ PricesOK /\ NamesOK

IInv == TypeOK /\ LoadsOK /\ StreamOK

-----------------------------------------------------------------------------
(* Queues.                                                                 *)

Messages == Ticks \cup News

\* What the types say of single values.
LEMMA Typed ==
    ASSUME TypeOK
    PROVE  /\ changes \in Nat /\ MaxChanges \in Nat /\ MaxTicks \in Nat /\ MaxDrops \in Nat
           /\ wanted \in Wants /\ wanted.attempt \in Nat
           /\ \A q \in requests : q \in Requests /\ q.n \in Nat /\ q.key \in Wants
           /\ None \notin Wants /\ None \notin Results /\ None \notin Quotes /\ None \notin Connections
           /\ Len(feed) \in Nat \ {0} /\ Len(feed) # None
           /\ \A i \in 1..Len(feed) : feed[i].active \subseteq Tickers /\ feed[i].price \in Prices
           /\ Current.active \subseteq Tickers /\ Current.price \in Prices
           /\ conn # None => conn \in Connections
           /\ latest.n \in Nat /\ latest.late \in BOOLEAN
<1>1. changes \in Nat /\ MaxChanges \in Nat /\ MaxTicks \in Nat /\ MaxDrops \in Nat
  BY MarketViewsAssumption DEF TypeOK
<1>2. wanted \in Wants /\ wanted.attempt \in Nat BY <1>1 DEF TypeOK, Wants
<1>3. \A q \in requests : q \in Requests /\ q.n \in Nat /\ q.key \in Wants
  BY <1>1 DEF TypeOK, Requests
<1>4. None \notin Wants /\ None \notin Results /\ None \notin Quotes /\ None \notin Connections
  BY MarketViewsAssumption
<1>5. Len(feed) \in Nat \ {0} BY DEF TypeOK
<1>6. Len(feed) # None BY <1>5, MarketViewsAssumption
<1>7. ASSUME NEW i \in 1..Len(feed) PROVE feed[i].active \subseteq Tickers /\ feed[i].price \in Prices
  <2>1. PICK states : states = [active : SUBSET Tickers, price : Prices] OBVIOUS
  <2>2. feed \in Seq(states) BY <2>1 DEF TypeOK
  <2>3. feed[i] \in states BY <2>2
  <2>4. QED BY <2>1, <2>3
<1>8. Current.active \subseteq Tickers /\ Current.price \in Prices
  BY <1>5, <1>7 DEF Current
<1>9. conn # None => conn \in Connections BY DEF TypeOK
<1>10. latest.n \in Nat /\ latest.late \in BOOLEAN BY <1>1 DEF TypeOK
<1>11. QED BY <1>1, <1>2, <1>3, <1>4, <1>5, <1>6, <1>7, <1>8, <1>9, <1>10

\* The head of a queue is the first message.
LEMMA Queues ==
    ASSUME NEW queue \in Seq(Messages), queue # <<>>
    PROVE  /\ Head(queue) = queue[1] /\ Head(queue) \in Messages
           /\ 1 \in DOMAIN queue /\ Len(queue) \in Nat \ {0}
           /\ Tail(queue) \in Seq(Messages)
           /\ DOMAIN Tail(queue) = 1..(Len(queue) - 1)
           /\ \A i \in DOMAIN Tail(queue) : i + 1 \in DOMAIN queue /\ Tail(queue)[i] = queue[i + 1]
           /\ \A i \in DOMAIN queue : i # 1 => i - 1 \in DOMAIN Tail(queue) /\ queue[i] = Tail(queue)[i - 1]
<1>1. Len(queue) \in Nat \ {0} /\ DOMAIN queue = 1..Len(queue) OBVIOUS
<1>2. Tail(queue) \in Seq(Messages) /\ Len(Tail(queue)) = Len(queue) - 1 OBVIOUS
<1>3. DOMAIN Tail(queue) = 1..(Len(queue) - 1) BY <1>1, <1>2
<1>4. \A i \in 1..(Len(queue) - 1) : Tail(queue)[i] = queue[i + 1] BY <1>1
<1>5. \A i \in DOMAIN Tail(queue) : i + 1 \in DOMAIN queue /\ Tail(queue)[i] = queue[i + 1]
  BY <1>1, <1>3, <1>4
<1>6. ASSUME NEW i \in DOMAIN queue, i # 1
      PROVE  i - 1 \in DOMAIN Tail(queue) /\ queue[i] = Tail(queue)[i - 1]
  <2>1. i - 1 \in 1..(Len(queue) - 1) /\ (i - 1) + 1 = i BY <1>1, <1>6
  <2>2. Tail(queue)[i - 1] = queue[(i - 1) + 1] BY <1>4, <2>1
  <2>3. QED BY <1>3, <2>1, <2>2
<1>7. Head(queue) = queue[1] /\ 1 \in DOMAIN queue BY <1>1
<1>8. Head(queue) \in Messages BY <1>7
<1>9. QED BY <1>1, <1>2, <1>3, <1>5, <1>6, <1>7, <1>8

\* Taking the first message leaves the rest as current as it was.
LEMMA TailCurrent ==
    ASSUME NEW queue \in Seq(Messages), queue # <<>>, NEW price, NEW active,
           TicksCurrent(queue, price), NewsCurrent(queue, active)
    PROVE  TicksCurrent(Tail(queue), price) /\ NewsCurrent(Tail(queue), active)
<1>1. PICK tail : tail = Tail(queue) OBVIOUS
<1>2. /\ DOMAIN tail = 1..(Len(queue) - 1) /\ Len(queue) \in Nat \ {0} /\ DOMAIN queue = 1..Len(queue)
      /\ \A i \in DOMAIN tail : i + 1 \in DOMAIN queue /\ tail[i] = queue[i + 1]
      /\ \A i \in DOMAIN queue : i # 1 => i - 1 \in DOMAIN tail /\ queue[i] = tail[i - 1]
  BY <1>1, Queues
<1>3. ASSUME NEW i \in DOMAIN tail, NEW j \in DOMAIN queue, j > i + 1
      PROVE  j - 1 \in DOMAIN tail /\ j - 1 > i /\ tail[j - 1] = queue[j]
  <2>1. i \in Nat \ {0} /\ j \in Nat BY <1>2
  <2>2. j # 1 /\ j - 1 > i BY <1>3, <2>1
  <2>3. QED BY <1>2, <2>2
<1>4. ASSUME NEW i \in DOMAIN tail, tail[i].kind = "tick"
      PROVE  \/ tail[i].price = price[tail[i].of]
             \/ \E j \in DOMAIN tail : j > i /\ tail[j].kind = "tick" /\ tail[j].of = tail[i].of
  <2>1. PICK m \in DOMAIN queue : m = i + 1 /\ queue[m] = tail[i] BY <1>2
  <2>2. \/ queue[m].price = price[queue[m].of]
        \/ \E j \in DOMAIN queue : j > m /\ queue[j].kind = "tick" /\ queue[j].of = queue[m].of
    BY <1>4, <2>1 DEF TicksCurrent
  <2>3. CASE \E j \in DOMAIN queue : j > m /\ queue[j].kind = "tick" /\ queue[j].of = queue[m].of
    <3>1. PICK j \in DOMAIN queue : j > i + 1 /\ queue[j].kind = "tick" /\ queue[j].of = tail[i].of
      BY <2>1, <2>3
    <3>2. j - 1 \in DOMAIN tail /\ j - 1 > i /\ tail[j - 1] = queue[j] BY <1>3, <3>1
    <3>3. QED BY <3>1, <3>2
  <2>4. QED BY <2>1, <2>2, <2>3
<1>5. ASSUME NEW i \in DOMAIN tail, tail[i].kind = "symbols"
      PROVE  \/ tail[i].active = active
             \/ \E j \in DOMAIN tail : j > i /\ tail[j].kind = "symbols"
  <2>1. PICK m \in DOMAIN queue : m = i + 1 /\ queue[m] = tail[i] BY <1>2
  <2>2. queue[m].active = active \/ \E j \in DOMAIN queue : j > m /\ queue[j].kind = "symbols"
    BY <1>5, <2>1 DEF NewsCurrent
  <2>3. CASE \E j \in DOMAIN queue : j > m /\ queue[j].kind = "symbols"
    <3>1. PICK j \in DOMAIN queue : j > i + 1 /\ queue[j].kind = "symbols" BY <2>1, <2>3
    <3>2. j - 1 \in DOMAIN tail /\ j - 1 > i /\ tail[j - 1] = queue[j] BY <1>3, <3>1
    <3>3. QED BY <3>1, <3>2
  <2>4. QED BY <2>1, <2>2, <2>3
<1>6. TicksCurrent(tail, price) BY <1>4 DEF TicksCurrent
<1>7. NewsCurrent(tail, active) BY <1>5 DEF NewsCurrent
<1>8. QED BY <1>1, <1>6, <1>7

\* A message that is the latest of its kind may be appended.
LEMMA AppendCurrent ==
    ASSUME NEW queue \in Seq(Messages), NEW m \in Messages,
           NEW price, NEW price2, NEW active, NEW active2,
           TicksCurrent(queue, price), NewsCurrent(queue, active),
           m.kind = "tick" => m.price = price2[m.of] /\ active2 = active,
           m.kind = "symbols" => m.active = active2 /\ price2 = price,
           \A t : (m.kind = "tick" => t # m.of) => price2[t] = price[t]
    PROVE  TicksCurrent(Append(queue, m), price2) /\ NewsCurrent(Append(queue, m), active2)
<1>1. PICK more, n : more = Append(queue, m) /\ n = Len(queue) + 1 OBVIOUS
<1>2. /\ DOMAIN queue = 1..Len(queue) /\ Len(queue) \in Nat
      /\ DOMAIN more = 1..n /\ n \in Nat /\ n \in DOMAIN more /\ more[n] = m
      /\ \A i \in DOMAIN queue : i \in DOMAIN more /\ more[i] = queue[i] /\ n > i
      /\ \A i \in DOMAIN more : i = n \/ i \in DOMAIN queue
  BY <1>1
<1>3. m.kind \in {"tick", "symbols"} BY DEF Messages, Ticks, News
<1>4. ASSUME NEW i \in DOMAIN more, more[i].kind = "tick"
      PROVE  \/ more[i].price = price2[more[i].of]
             \/ \E j \in DOMAIN more : j > i /\ more[j].kind = "tick" /\ more[j].of = more[i].of
  <2>1. CASE i = n BY <1>2, <1>4, <2>1
  <2>2. CASE i \in DOMAIN queue
    <3>1. more[i] = queue[i] BY <1>2, <2>2
    <3>2. \/ queue[i].price = price[queue[i].of]
          \/ \E j \in DOMAIN queue : j > i /\ queue[j].kind = "tick" /\ queue[j].of = queue[i].of
      BY <1>4, <2>2, <3>1 DEF TicksCurrent
    <3>3. CASE m.kind = "tick" /\ m.of = queue[i].of BY <1>2, <2>2, <3>1, <3>3
    <3>4. CASE ~(m.kind = "tick" /\ m.of = queue[i].of)
      <4>1. price2[queue[i].of] = price[queue[i].of] BY <3>4
      <4>2. QED BY <1>2, <3>1, <3>2, <4>1
    <3>5. QED BY <3>3, <3>4
  <2>3. QED BY <1>2, <2>1, <2>2
<1>5. ASSUME NEW i \in DOMAIN more, more[i].kind = "symbols"
      PROVE  more[i].active = active2 \/ \E j \in DOMAIN more : j > i /\ more[j].kind = "symbols"
  <2>1. CASE i = n BY <1>2, <1>5, <2>1
  <2>2. CASE i \in DOMAIN queue
    <3>1. more[i] = queue[i] BY <1>2, <2>2
    <3>2. queue[i].active = active \/ \E j \in DOMAIN queue : j > i /\ queue[j].kind = "symbols"
      BY <1>5, <2>2, <3>1 DEF NewsCurrent
    <3>3. CASE m.kind = "symbols" BY <1>2, <2>2, <3>3
    <3>4. CASE m.kind # "symbols"
      <4>1. active2 = active BY <1>3, <3>4
      <4>2. QED BY <1>2, <3>1, <3>2, <4>1
    <3>5. QED BY <3>3, <3>4
  <2>3. QED BY <1>2, <2>1, <2>2
<1>6. TicksCurrent(more, price2) BY <1>4 DEF TicksCurrent
<1>7. NewsCurrent(more, active2) BY <1>5 DEF NewsCurrent
<1>8. QED BY <1>1, <1>6, <1>7

-----------------------------------------------------------------------------
(* Loads by key.                                                           *)

Looks ==
    \/ \E k \in Keys : Choose(k) \/ Search(k)
    \/ \E a \in Accounts : SwitchAccount(a)
    \/ Retry
    \/ \E q \in requests : Arrives(q) \/ Fails(q)

\* The two halves leave each other alone.
LEMMA LooksOnly ==
    ASSUME Looks
    PROVE  UNCHANGED <<view, streaming>>
BY DEF Looks, Choose, Search, SwitchAccount, Retry, Want, Arrives, Fails, Settle

LEMMA StreamsOnly ==
    ASSUME [Next]_vars, ~Looks
    PROVE  /\ UNCHANGED <<view, loading>>
           /\ \/ changes' = changes
              \/ view = "quotes" /\ changes < MaxChanges /\ changes' = changes + 1
<1>1. CASE \E a \in Accounts : TokenChanges(a) BY <1>1 DEF TokenChanges, Change
<1>2. CASE SnapshotArrives BY <1>2 DEF SnapshotArrives
<1>3. CASE SnapshotFails BY <1>3 DEF SnapshotFails
<1>4. CASE Connect \/ ConnectRefused \/ ConnectFails \/ Reconnect
  BY <1>4 DEF Connect, ConnectRefused, ConnectFails, Reconnect, TurnsTo
<1>5. CASE Disconnect BY <1>5 DEF Disconnect
<1>6. CASE TickArrives BY <1>6 DEF TickArrives
<1>7. CASE SymbolsArrive BY <1>7 DEF SymbolsArrive
<1>8. CASE RefetchArrives BY <1>8 DEF RefetchArrives
<1>9. CASE RefetchFails BY <1>9 DEF RefetchFails
<1>10. CASE \E t \in Tickers : Tick(t) BY <1>10 DEF Tick
<1>11. CASE \E set \in SUBSET Tickers : SetActive(set) BY <1>11 DEF SetActive, Change
<1>12. CASE UNCHANGED vars BY <1>12 DEF vars
<1>13. CASE TokenLapses BY <1>13 DEF TokenLapses
<1>14. QED
  BY <1>1, <1>2, <1>3, <1>4, <1>5, <1>6, <1>7, <1>8, <1>9, <1>10, <1>11, <1>12, <1>13 DEF Next, Looks

LoadTypes ==
    /\ view \in Views
    /\ changes \in 0..MaxChanges
    /\ wanted \in Wants
    /\ requests \subseteq Requests
    /\ {busy, failed} \subseteq BOOLEAN
    /\ result \in Results \cup {None}
    /\ latest \in [n : 0..MaxChanges, late : BOOLEAN]

\* A new key is asked for at once, and nothing else is then.
LEMMA WantKeeps ==
    ASSUME IInv, NEW key \in Wants, key.attempt <= changes + 1, Change, Want(key),
           view \in {"panel", "resource", "momentum"}
    PROVE  LoadTypes' /\ LoadsOK'
<1>1. /\ changes \in Nat /\ MaxChanges \in Nat /\ changes' = changes + 1 /\ changes' \in Nat
      /\ changes' \in 0..MaxChanges
  BY Typed DEF Change, IInv
<1>2. PICK q : q = [n |-> changes', key |-> key] OBVIOUS
<1>3. q \in Requests /\ q.n = changes' /\ q.key = key BY <1>1, <1>2 DEF Requests
<1>4. /\ wanted' = key /\ requests' = {q} /\ busy' = (view \in {"resource", "momentum"})
      /\ UNCHANGED <<view, result, failed, latest>>
  BY <1>2 DEF Want
<1>5. /\ view \in Views /\ failed \in BOOLEAN /\ result \in Results \cup {None}
      /\ latest \in [n : 0..MaxChanges, late : BOOLEAN]
  BY DEF IInv, TypeOK
<1>6. LoadTypes' BY <1>1, <1>3, <1>4, <1>5 DEF LoadTypes
<1>7. result # None /\ result.outcome = "success" => result.data = result.key BY DEF IInv, LoadsOK
<1>8. RetryWorks' BY <1>4 DEF RetryWorks
<1>9. LoadsOK' BY <1>1, <1>3, <1>4, <1>7, <1>8 DEF LoadsOK
<1>10. QED BY <1>6, <1>9

\* Another search is the last, and the earlier ones stay out.
LEMMA SearchKeeps ==
    ASSUME IInv, NEW k \in Keys, Search(k)
    PROVE  LoadTypes' /\ LoadsOK'
<1>1. /\ changes \in Nat /\ MaxChanges \in Nat /\ changes' = changes + 1 /\ changes' \in Nat
      /\ changes' \in 0..MaxChanges /\ latest.n \in Nat
  BY Typed DEF Search, Change, IInv
<1>2. wanted' \in Wants /\ wanted'.attempt = wanted.attempt /\ wanted.attempt \in Nat
  BY Typed DEF Search, Wants, IInv
<1>3. PICK q : q = [n |-> changes', key |-> wanted'] OBVIOUS
<1>4. q \in Requests /\ q.n = changes' /\ q.key = wanted' BY <1>1, <1>2, <1>3 DEF Requests
<1>5. /\ requests' = requests \cup {q} /\ busy' = TRUE /\ failed' = FALSE /\ view = "search"
      /\ UNCHANGED <<view, result, latest>>
  BY <1>3 DEF Search
<1>6. /\ view \in Views /\ result \in Results \cup {None} /\ requests \subseteq Requests
      /\ latest \in [n : 0..MaxChanges, late : BOOLEAN]
  BY DEF IInv, TypeOK
<1>7. LoadTypes' BY <1>1, <1>2, <1>4, <1>5, <1>6 DEF LoadTypes
<1>8. \A p \in requests : p.n \in Nat /\ p.n <= changes BY Typed DEF IInv, LoadsOK
<1>9. /\ result # None /\ result.outcome = "success" => result.data = result.key
      /\ wanted.attempt <= changes /\ latest.n <= changes
  BY <1>5 DEF IInv, LoadsOK, SearchOK
<1>10. \A p \in requests' : p.n <= changes' /\ (p.n = changes' => p = q) BY <1>1, <1>4, <1>5, <1>8
<1>11. SearchOK' BY <1>1, <1>4, <1>5, <1>9, <1>10 DEF SearchOK
<1>12. RetryWorks' BY <1>5 DEF RetryWorks
<1>13. LoadsOK' BY <1>1, <1>2, <1>5, <1>9, <1>10, <1>11, <1>12 DEF LoadsOK
<1>14. QED BY <1>7, <1>13

\* An answer or an error ends a request; by key it is for what is wanted.
LEMMA SettleKeeps ==
    ASSUME IInv, NEW q \in requests, Arrives(q) \/ Fails(q)
    PROVE  LoadTypes' /\ LoadsOK'
<1>1. /\ q \in Requests /\ q.n \in Nat /\ q.n <= changes /\ q.n \in 0..MaxChanges /\ q.key \in Wants
      /\ changes \in Nat /\ latest.n \in Nat
  BY Typed DEF IInv, LoadsOK, TypeOK, Requests
<1>2. /\ requests' = requests \ {q} /\ busy' = FALSE
      /\ latest' = IF q.n < latest.n THEN [latest EXCEPT !.late = TRUE] ELSE [n |-> q.n, late |-> FALSE]
      /\ UNCHANGED <<view, changes, wanted>>
  BY DEF Arrives, Fails, Settle
<1>3. LoadTypes BY DEF IInv, TypeOK, LoadTypes
<1>4. latest \in [n : 0..MaxChanges, late : BOOLEAN] BY <1>3 DEF LoadTypes
<1>5. /\ latest' \in [n : 0..MaxChanges, late : BOOLEAN]
      /\ \/ q.n < latest.n /\ latest'.n = latest.n /\ latest'.late
         \/ ~(q.n < latest.n) /\ latest'.n = q.n /\ ~latest'.late
  <2>1. CASE q.n < latest.n BY <1>2, <1>4, <2>1
  <2>2. CASE ~(q.n < latest.n) BY <1>1, <1>2, <2>2
  <2>3. QED BY <2>1, <2>2
<1>6. /\ result' \in Results \cup {None} /\ failed' \in BOOLEAN
      /\ result' # None /\ result'.outcome = "success" => result'.data = result'.key
      /\ view # "search" => result' # None /\ result'.key = q.key
                            /\ result'.outcome \in {"success", "error"}
      /\ view = "search" /\ ~failed' => result' # None /\ result'.n = q.n /\ result'.data = q.key
  <2>1. CASE Arrives(q)
    <3>1. PICK r : r = [n |-> q.n, key |-> q.key, outcome |-> "success", data |-> q.key] OBVIOUS
    <3>2. r \in Results /\ r.n = q.n /\ r.key = q.key /\ r.outcome = "success" /\ r.data = q.key
      BY <1>1, <3>1 DEF Results
    <3>3. result' = r /\ failed' = failed BY <2>1, <3>1 DEF Arrives
    <3>4. r # None BY <3>2, Typed DEF IInv
    <3>5. QED BY <1>3, <3>2, <3>3, <3>4 DEF LoadTypes
  <2>2. CASE Fails(q) /\ view = "search"
    <3>1. result' = result /\ failed' = TRUE BY <2>2 DEF Fails
    <3>2. QED BY <1>3, <2>2, <3>1 DEF LoadTypes, IInv, LoadsOK
  <2>3. CASE Fails(q) /\ view # "search"
    <3>1. PICK r : r = [n |-> q.n, key |-> q.key, outcome |-> "error", data |-> None] OBVIOUS
    <3>2. r \in Results /\ r.key = q.key /\ r.outcome = "error" BY <1>1, <3>1 DEF Results
    <3>3. result' = r /\ failed' = FALSE BY <2>3, <3>1 DEF Fails
    <3>4. r # None BY <3>2, Typed DEF IInv
    <3>5. QED BY <2>3, <3>2, <3>3, <3>4
  <2>4. QED BY <2>1, <2>2, <2>3
<1>7. LoadTypes' BY <1>2, <1>3, <1>5, <1>6 DEF LoadTypes
<1>8. /\ wanted.attempt <= changes
      /\ \A p \in requests : p.n <= changes /\ p.n \in Nat
      /\ view # "quotes"
      /\ view \in {"panel", "resource", "momentum"} => q.key = wanted /\ requests = {q}
      /\ view = "search" => SearchOK
  BY Typed DEF IInv, LoadsOK
<1>9. ASSUME view \in {"resource", "momentum"} PROVE RetryWorks'
  <2>1. requests' = {} BY <1>2, <1>8, <1>9
  <2>2. Status' = result'.outcome BY <1>2, <1>6, <1>8, <1>9 DEF Status, Matches
  <2>3. Status' # "loading" BY <1>6, <1>9, <2>2
  <2>4. QED BY <1>2, <2>1, <2>3 DEF RetryWorks
<1>10. view \notin {"resource", "momentum"} => RetryWorks' BY <1>2 DEF RetryWorks
<1>11. ASSUME view = "search" PROVE SearchOK'
  <2>1. /\ latest.n <= changes
        /\ latest.n = changes \/ \E p \in requests : p.n = changes
        /\ \A p \in requests : p.n = changes => p.key = wanted
    BY <1>8, <1>11 DEF SearchOK
  <2>2. latest'.n <= changes BY <1>1, <1>5, <2>1
  <2>3. latest'.n = changes \/ \E p \in requests' : p.n = changes
    <3>1. CASE latest.n = changes BY <1>1, <1>5, <3>1
    <3>2. CASE q.n = changes BY <1>1, <1>5, <2>1, <3>2
    <3>3. CASE \E p \in requests : p.n = changes /\ p # q BY <1>2, <3>3
    <3>4. QED BY <2>1, <3>1, <3>2, <3>3
  <2>4. ASSUME requests' = {}, ~latest'.late, ~failed'
        PROVE  result' # None /\ result'.n = latest'.n /\ result'.data = wanted
    <3>1. latest'.n = changes /\ latest'.n = q.n BY <1>5, <2>3, <2>4
    <3>2. q.key = wanted BY <2>1, <3>1
    <3>3. QED BY <1>6, <1>11, <2>4, <3>1, <3>2
  <2>5. QED BY <1>2, <2>1, <2>2, <2>3, <2>4 DEF SearchOK
<1>12. LoadsOK' BY <1>2, <1>6, <1>8, <1>9, <1>10, <1>11 DEF LoadsOK
<1>13. QED BY <1>7, <1>12

\* Whatever is chosen, asked for, answered or refused.
LEMMA LooksKeep ==
    ASSUME IInv, Looks
    PROVE  LoadTypes' /\ LoadsOK'
<1>1. changes \in Nat /\ wanted \in Wants /\ wanted.attempt \in Nat /\ wanted.attempt <= changes
      /\ MaxChanges \in Nat
  BY Typed DEF IInv, LoadsOK
<1>2. ASSUME NEW k \in Keys, Choose(k) PROVE LoadTypes' /\ LoadsOK'
  <2>1. PICK key : key = [wanted EXCEPT !.what = k] OBVIOUS
  <2>2. key \in Wants /\ key.attempt = wanted.attempt BY <1>1, <2>1 DEF Wants
  <2>3. Change /\ Want(key) /\ view \in {"panel", "resource", "momentum"} BY <1>2, <2>1 DEF Choose
  <2>4. key.attempt <= changes + 1 BY <1>1, <2>2
  <2>5. QED BY <2>2, <2>3, <2>4, WantKeeps
<1>3. ASSUME NEW a \in Accounts, SwitchAccount(a) PROVE LoadTypes' /\ LoadsOK'
  <2>1. PICK key : key = [wanted EXCEPT !.owner = a] OBVIOUS
  <2>2. key \in Wants /\ key.attempt = wanted.attempt BY <1>1, <2>1 DEF Wants
  <2>3. Change /\ Want(key) /\ view \in {"panel", "resource", "momentum"} BY <1>3, <2>1 DEF SwitchAccount
  <2>4. key.attempt <= changes + 1 BY <1>1, <2>2
  <2>5. QED BY <2>2, <2>3, <2>4, WantKeeps
<1>4. ASSUME Retry PROVE LoadTypes' /\ LoadsOK'
  <2>1. PICK key : key = [wanted EXCEPT !.attempt = @ + 1] OBVIOUS
  <2>2. Change /\ Want(key) /\ view \in {"panel", "resource", "momentum"}
    BY <1>4, <2>1 DEF Retry, RetryOffered
  <2>3. wanted.attempt + 1 \in 0..MaxChanges BY <1>1, <2>2 DEF Change
  <2>4. key \in Wants /\ key.attempt = wanted.attempt + 1 BY <1>1, <2>1, <2>3 DEF Wants
  <2>5. key.attempt <= changes + 1 BY <1>1, <2>4
  <2>6. QED BY <2>2, <2>4, <2>5, WantKeeps
<1>5. QED BY <1>2, <1>3, <1>4, SearchKeeps, SettleKeeps DEF Looks

\* The stream does not touch what is loaded by key.
LEMMA LoadsStay ==
    ASSUME IInv, [Next]_vars, ~Looks
    PROVE  LoadTypes' /\ LoadsOK'
<1>1. /\ UNCHANGED <<view, wanted, requests, busy, result, failed, latest>>
      /\ changes' = changes \/ (view = "quotes" /\ changes < MaxChanges /\ changes' = changes + 1)
  BY StreamsOnly DEF loading
<1>2. changes \in Nat /\ wanted.attempt \in Nat /\ MaxChanges \in Nat BY Typed DEF IInv
<1>3. LoadTypes /\ LoadsOK BY DEF IInv, TypeOK, LoadTypes
<1>4. LoadTypes' BY <1>1, <1>2, <1>3 DEF LoadTypes
<1>5. RetryWorks' BY <1>1, <1>3 DEF LoadsOK, RetryWorks, Status, Matches
<1>6. CASE changes' = changes
  <2>1. view = "search" => SearchOK' BY <1>1, <1>3, <1>6 DEF LoadsOK, SearchOK
  <2>2. /\ wanted'.attempt <= changes'
        /\ \A q \in requests' : q.n <= changes'
        /\ view' = "quotes" => requests' = {}
        /\ view' \in {"panel", "resource", "momentum"} =>
              \A q \in requests' : q.key = wanted' /\ requests' = {q}
        /\ result' # None /\ result'.outcome = "success" => result'.data = result'.key
    BY <1>1, <1>3, <1>6 DEF LoadsOK
  <2>3. QED BY <1>1, <1>4, <1>5, <2>1, <2>2 DEF LoadsOK
<1>7. CASE view = "quotes" /\ changes' = changes + 1
  <2>1. requests' = {} /\ wanted'.attempt <= changes' BY <1>1, <1>2, <1>3, <1>7 DEF LoadsOK
  <2>2. view' = "quotes" /\ (result' # None /\ result'.outcome = "success" => result'.data = result'.key)
    BY <1>1, <1>3, <1>7 DEF LoadsOK
  <2>3. QED BY <1>4, <1>5, <2>1, <2>2 DEF LoadsOK
<1>8. QED BY <1>1, <1>4, <1>6, <1>7

-----------------------------------------------------------------------------
(* The stream.                                                             *)

States == [active : SUBSET Tickers, price : Prices]

StreamTypes ==
    /\ token \in Accounts /\ lapsed \in BOOLEAN
    /\ tickers \subseteq Tickers
    /\ quotes \in [Tickers -> Quotes \cup {None}]
    /\ snapshot \in 1..Len(feed) \cup {None}
    /\ refetches \subseteq 1..Len(feed)
    /\ conn \in Connections \cup {None}
    /\ feed \in Seq(States) \ {<<>>}
    /\ drops \in 0..MaxDrops
    /\ missed \subseteq Tickers /\ unlisted \subseteq Tickers
    /\ untold \in BOOLEAN

LEMMA Halves ==
    /\ TypeOK <=> LoadTypes /\ StreamTypes
    /\ TypeOK' <=> LoadTypes' /\ StreamTypes'
BY DEF TypeOK, LoadTypes, StreamTypes, States

TickIn(queue, t) == \E i \in DOMAIN queue : queue[i].kind = "tick" /\ queue[i].of = t

NewsIn(queue) == \E i \in DOMAIN queue : queue[i].kind = "symbols"

\* What is queued, said of the queue.
LEMMA QueuedMeans ==
    /\ \A t : t \in QueuedTicks <=> conn # None /\ TickIn(conn.queue, t)
    /\ QueuedNews <=> conn # None /\ NewsIn(conn.queue)
    /\ \A t : t \in QueuedTicks' <=> conn' # None /\ TickIn(conn'.queue, t)
    /\ QueuedNews' <=> conn' # None /\ NewsIn(conn'.queue)
<1>1. ASSUME NEW c, NEW messages,
             messages = IF c = None THEN {} ELSE {c.queue[i] : i \in DOMAIN c.queue}
      PROVE  /\ \A t : t \in {m.of : m \in {q \in messages : q.kind = "tick"}} <=> c # None /\ TickIn(c.queue, t)
             /\ (\E m \in messages : m.kind = "symbols") <=> c # None /\ NewsIn(c.queue)
  <2>1. CASE c = None BY <1>1, <2>1
  <2>2. CASE c # None
    <3>1. messages = {c.queue[i] : i \in DOMAIN c.queue} BY <1>1, <2>2
    <3>2. QED BY <2>2, <3>1 DEF TickIn, NewsIn
  <2>3. QED BY <2>1, <2>2
<1>2. /\ \A t : t \in QueuedTicks <=> conn # None /\ TickIn(conn.queue, t)
      /\ QueuedNews <=> conn # None /\ NewsIn(conn.queue)
  <2>1. PICK messages : messages = Queued OBVIOUS
  <2>2. messages = IF conn = None THEN {} ELSE {conn.queue[i] : i \in DOMAIN conn.queue}
    BY <2>1 DEF Queued
  <2>3. QED BY <1>1, <2>1, <2>2 DEF QueuedTicks, QueuedNews
<1>3. /\ \A t : t \in QueuedTicks' <=> conn' # None /\ TickIn(conn'.queue, t)
      /\ QueuedNews' <=> conn' # None /\ NewsIn(conn'.queue)
  <2>1. PICK messages : messages = Queued' OBVIOUS
  <2>2. messages = IF conn' = None THEN {} ELSE {conn'.queue[i] : i \in DOMAIN conn'.queue}
    BY <2>1 DEF Queued
  <2>3. QED BY <1>1, <2>1, <2>2 DEF QueuedTicks, QueuedNews
<1>4. QED BY <1>2, <1>3

\* A message is the first or in the rest, and one appended is the last.
LEMMA QueueParts ==
    ASSUME NEW queue \in Seq(Messages)
    PROVE  /\ queue # <<>> =>
                /\ \A t : TickIn(queue, t) <=> \/ Head(queue).kind = "tick" /\ Head(queue).of = t
                                               \/ TickIn(Tail(queue), t)
                /\ NewsIn(queue) <=> Head(queue).kind = "symbols" \/ NewsIn(Tail(queue))
           /\ \A m \in Messages :
                /\ Append(queue, m) \in Seq(Messages)
                /\ \A t : TickIn(Append(queue, m), t) <=> TickIn(queue, t) \/ (m.kind = "tick" /\ m.of = t)
                /\ NewsIn(Append(queue, m)) <=> NewsIn(queue) \/ m.kind = "symbols"
<1>1. ASSUME queue # <<>>
      PROVE  /\ \A t : TickIn(queue, t) <=> \/ Head(queue).kind = "tick" /\ Head(queue).of = t
                                            \/ TickIn(Tail(queue), t)
             /\ NewsIn(queue) <=> Head(queue).kind = "symbols" \/ NewsIn(Tail(queue))
  <2>1. PICK tail, head : tail = Tail(queue) /\ head = Head(queue) OBVIOUS
  <2>2. /\ head = queue[1] /\ 1 \in DOMAIN queue
        /\ \A i \in DOMAIN tail : i + 1 \in DOMAIN queue /\ tail[i] = queue[i + 1]
        /\ \A i \in DOMAIN queue : i # 1 => i - 1 \in DOMAIN tail /\ queue[i] = tail[i - 1]
    BY <1>1, <2>1, Queues
  <2>3. ASSUME NEW t PROVE TickIn(queue, t) <=> (head.kind = "tick" /\ head.of = t) \/ TickIn(tail, t)
    BY <2>2 DEF TickIn
  <2>4. NewsIn(queue) <=> head.kind = "symbols" \/ NewsIn(tail) BY <2>2 DEF NewsIn
  <2>5. QED BY <2>1, <2>3, <2>4
<1>2. ASSUME NEW m \in Messages
      PROVE  /\ Append(queue, m) \in Seq(Messages)
             /\ \A t : TickIn(Append(queue, m), t) <=> TickIn(queue, t) \/ (m.kind = "tick" /\ m.of = t)
             /\ NewsIn(Append(queue, m)) <=> NewsIn(queue) \/ m.kind = "symbols"
  <2>1. PICK more, n : more = Append(queue, m) /\ n = Len(queue) + 1 OBVIOUS
  <2>2. /\ more \in Seq(Messages) /\ n \in DOMAIN more /\ more[n] = m
        /\ \A i \in DOMAIN queue : i \in DOMAIN more /\ more[i] = queue[i]
        /\ \A i \in DOMAIN more : i = n \/ i \in DOMAIN queue
    BY <2>1
  <2>3. ASSUME NEW t PROVE TickIn(more, t) <=> TickIn(queue, t) \/ (m.kind = "tick" /\ m.of = t)
    BY <2>2 DEF TickIn
  <2>4. NewsIn(more) <=> NewsIn(queue) \/ m.kind = "symbols" BY <2>2 DEF NewsIn
  <2>5. QED BY <2>1, <2>2, <2>3, <2>4
<1>3. QED BY <1>1, <1>2

\* A connection that was lost, made anew or is not there has nothing on its way.
LEMMA Emptied ==
    ASSUME conn' = None \/ conn'.queue = <<>>
    PROVE  ConnOK' /\ QueuedTicks' = {} /\ ~QueuedNews'
<1>1. ConnOK' BY DEF ConnOK, TicksCurrent, NewsCurrent
<1>2. conn' # None => (\A t : ~TickIn(conn'.queue, t)) /\ ~NewsIn(conn'.queue) BY DEF TickIn, NewsIn
<1>3. QED BY <1>1, <1>2, QueuedMeans

LEMMA FreshConnection ==
    ASSUME NEW tok, NEW set \in SUBSET Tickers
    PROVE  /\ Connection(tok, set) \in Connections \cup {None}
           /\ Connection(tok, set) = None \/ Connection(tok, set).queue = <<>>
<1>1. CASE tok = None \/ set = {} BY <1>1 DEF Connection
<1>2. CASE ~(tok = None \/ set = {})
  <2>1. PICK c : c = [to |-> set, phase |-> "trying", queue |-> <<>>] OBVIOUS
  <2>2. <<>> \in Seq(Ticks \cup News) /\ set \in (SUBSET Tickers) \ {{}} BY <1>2
  <2>3. c \in Connections /\ c.queue = <<>> BY <2>1, <2>2 DEF Connections, Phases
  <2>4. Connection(tok, set) = c BY <1>2, <2>1 DEF Connection
  <2>5. QED BY <2>3, <2>4
<1>3. QED BY <1>1, <1>2

\* The server's quotes move on by one state.
LEMMA Fed ==
    ASSUME IInv, NEW f \in States, feed' = Append(feed, f)
    PROVE  /\ feed' \in Seq(States) \ {<<>>} /\ Current' = f
           /\ 1..Len(feed) \subseteq 1..Len(feed')
<1>1. feed \in Seq(States) /\ Len(feed) \in Nat BY Halves DEF IInv, StreamTypes
<1>2. PICK more : more = Append(feed, f) OBVIOUS
<1>3. more \in Seq(States) /\ Len(more) = Len(feed) + 1 /\ more[Len(more)] = f BY <1>1, <1>2
<1>4. more # <<>> /\ 1..Len(feed) \subseteq 1..Len(more) BY <1>1, <1>3
<1>5. QED BY <1>2, <1>3, <1>4 DEF Current

\* What a request for the quotes may be answered with.
LEMMA Fetched ==
    ASSUME TypeOK, NEW i \in 1..Len(feed)
    PROVE  feed[i] \in States
<1>1. feed \in Seq(States) BY Halves DEF StreamTypes
<1>2. QED BY <1>1

\* The types of what is queued.
LEMMA QueuedTyped ==
    ASSUME TypeOK
    PROVE  QueuedTicks \subseteq Tickers /\ QueuedNews \in BOOLEAN
<1>1. ASSUME NEW t \in QueuedTicks PROVE t \in Tickers
  <2>1. conn # None /\ TickIn(conn.queue, t) BY QueuedMeans
  <2>2. conn.queue \in Seq(Ticks \cup News) BY <2>1, Typed DEF Connections
  <2>3. PICK i \in DOMAIN conn.queue : conn.queue[i].kind = "tick" /\ conn.queue[i].of = t
    BY <2>1 DEF TickIn
  <2>4. conn.queue[i] \in Ticks \cup News BY <2>2
  <2>5. QED BY <2>3, <2>4 DEF Ticks, News
<1>2. QueuedNews \in BOOLEAN BY DEF QueuedNews
<1>3. QED BY <1>1, <1>2

-----------------------------------------------------------------------------
(* One lemma for each step of the stream.                                  *)

StreamKept == StreamTypes' /\ StreamOK'

\* What a snapshot says of the symbols and their quotes.
LEMMA ByNames ==
    ASSUME NEW f \in States
    PROVE  /\ ByName(f) \in [Tickers -> Quotes \cup {None}]
           /\ \A t \in Tickers : t \in f.active => /\ ByName(f)[t] # None /\ ByName(f)[t].named
                                                   /\ ByName(f)[t].price = f.price[t]
<1>1. ASSUME NEW t \in Tickers, t \in f.active
      PROVE  /\ ByName(f)[t] \in Quotes /\ ByName(f)[t].named /\ ByName(f)[t].price = f.price[t]
  <2>1. PICK quote : quote = [price |-> f.price[t], named |-> TRUE] OBVIOUS
  <2>2. f.price[t] \in 0..MaxTicks BY DEF States, Prices
  <2>3. quote \in Quotes /\ quote.named /\ quote.price = f.price[t] BY <2>1, <2>2 DEF Quotes
  <2>4. ByName(f)[t] = quote BY <1>1, <2>1 DEF ByName
  <2>5. QED BY <2>3, <2>4
<1>2. ASSUME NEW t \in Tickers, t \notin f.active PROVE ByName(f)[t] = None BY <1>2 DEF ByName
<1>3. ByName(f) \in [Tickers -> Quotes \cup {None}]
  <2>1. PICK byName : byName = ByName(f) OBVIOUS
  <2>2. byName = [t \in Tickers |-> byName[t]] BY <2>1 DEF ByName
  <2>3. \A t \in Tickers : byName[t] \in Quotes \cup {None} BY <1>1, <1>2, <2>1
  <2>4. QED BY <2>1, <2>2, <2>3
<1>4. None \notin Quotes BY MarketViewsAssumption
<1>5. QED BY <1>1, <1>3, <1>4

LEMMA TokenKeeps ==
    ASSUME IInv, NEW a \in Accounts, TokenChanges(a)
    PROVE  StreamKept
<1>1. StreamTypes /\ StreamOK BY Halves DEF IInv
<1>2. /\ token' = a /\ lapsed' = FALSE /\ snapshot' = Len(feed) /\ conn' = Connection(a, tickers)
      /\ missed' = missed \cup QueuedTicks
      /\ untold' = (untold \/ QueuedNews)
      /\ UNCHANGED <<view, tickers, quotes, refetches, feed, drops, unlisted>>
  BY DEF TokenChanges
<1>3. conn' \in Connections \cup {None} /\ (conn' = None \/ conn'.queue = <<>>)
  BY <1>1, <1>2, FreshConnection DEF StreamTypes
<1>4. Len(feed) \in 1..Len(feed) /\ Len(feed) # None BY Typed DEF IInv
<1>5. QueuedTicks \subseteq Tickers /\ QueuedNews \in BOOLEAN BY QueuedTyped DEF IInv
<1>6. StreamTypes' BY <1>1, <1>2, <1>3, <1>4, <1>5 DEF StreamTypes
<1>7. ConnOK' BY <1>3, Emptied
<1>8. snapshot' # None BY <1>2, <1>4
<1>9. NamesOK' BY <1>1, <1>2 DEF StreamOK, NamesOK
<1>10. QED BY <1>6, <1>7, <1>8, <1>9 DEF StreamKept, StreamOK, SymbolsOK, PricesOK

LEMMA SnapshotKeeps ==
    ASSUME IInv, SnapshotArrives
    PROVE  StreamKept
<1>1. StreamTypes /\ StreamOK BY Halves DEF IInv
<1>2. PICK i \in snapshot..Len(feed) :
          /\ quotes' = ByName(feed[i]) /\ tickers' = feed[i].active
          /\ missed' = Older(feed[i]) /\ untold' = (feed[i].active # Current.active)
          /\ unlisted' = Tickers \ feed[i].active
  BY DEF SnapshotArrives
<1>3. /\ snapshot' = None /\ conn' = Connection(token, tickers')
      /\ UNCHANGED <<view, token, lapsed, refetches, feed, drops>>
  BY DEF SnapshotArrives
<1>4. i \in 1..Len(feed) /\ Len(feed) \in Nat
  <2>1. snapshot \in 1..Len(feed) BY <1>1 DEF SnapshotArrives, StreamTypes
  <2>2. Len(feed) \in Nat BY Typed DEF IInv
  <2>3. QED BY <2>1, <2>2
<1>5. PICK f : f = feed[i] OBVIOUS
<1>6. f \in States BY <1>1, <1>4, <1>5, Fetched DEF IInv
<1>7. f.active \subseteq Tickers BY <1>6 DEF States
<1>8. conn' \in Connections \cup {None} /\ (conn' = None \/ conn'.queue = <<>>)
  BY <1>2, <1>3, <1>5, <1>7, FreshConnection
<1>9. Older(f) \subseteq Tickers BY DEF Older
<1>10. StreamTypes' BY <1>1, <1>2, <1>3, <1>5, <1>6, <1>7, <1>8, <1>9, ByNames DEF StreamTypes
<1>11. Current' = Current BY <1>3 DEF Current
<1>12. SymbolsOK' BY <1>2, <1>11 DEF SymbolsOK
<1>13. ASSUME NEW t \in f.active, t \notin Older(f)
       PROVE  quotes'[t] # None /\ quotes'[t].price = Current.price[t]
  BY <1>2, <1>5, <1>6, <1>7, <1>13, ByNames DEF Older
<1>14. PricesOK' BY <1>2, <1>5, <1>11, <1>13 DEF PricesOK
<1>15. NamesOK' BY <1>2, <1>5, <1>6, ByNames DEF NamesOK
<1>16. QED BY <1>8, <1>10, <1>12, <1>14, <1>15, Emptied DEF StreamKept, StreamOK

LEMMA SnapshotFailsKeeps ==
    ASSUME IInv, SnapshotFails
    PROVE  StreamKept
<1>1. StreamTypes /\ StreamOK BY Halves DEF IInv
<1>2. /\ snapshot' = None /\ missed' = Tickers /\ untold' = TRUE
      /\ UNCHANGED <<view, token, lapsed, tickers, quotes, refetches, conn, feed, drops, unlisted>>
  BY DEF SnapshotFails
<1>3. StreamTypes' BY <1>1, <1>2 DEF StreamTypes
<1>4. Current' = Current BY <1>2 DEF Current
<1>5. ConnOK' BY <1>1, <1>2, <1>4 DEF StreamOK, ConnOK
<1>6. SymbolsOK' BY <1>2 DEF SymbolsOK
<1>7. PricesOK' BY <1>2, <1>3 DEF PricesOK, StreamTypes
<1>8. NamesOK' BY <1>1, <1>2 DEF StreamOK, NamesOK
<1>9. QED BY <1>3, <1>5, <1>6, <1>7, <1>8 DEF StreamKept, StreamOK

\* An expired token changes nothing of what is shown.
LEMMA LapseKeeps ==
    ASSUME IInv, TokenLapses
    PROVE  StreamKept
<1>1. StreamTypes /\ StreamOK BY Halves DEF IInv
<1>2. /\ lapsed' = TRUE
      /\ UNCHANGED <<view, token, tickers, quotes, snapshot, refetches, conn, feed, drops, missed, untold, unlisted>>
  BY DEF TokenLapses
<1>3. StreamTypes' BY <1>1, <1>2 DEF StreamTypes
<1>4. Current' = Current /\ QueuedTicks' = QueuedTicks /\ (QueuedNews' <=> QueuedNews)
  BY <1>2 DEF Current, QueuedTicks, QueuedNews, Queued
<1>5. ConnOK' BY <1>1, <1>2, <1>4 DEF StreamOK, ConnOK
<1>6. SymbolsOK' BY <1>1, <1>2, <1>4 DEF StreamOK, SymbolsOK
<1>7. PricesOK' BY <1>1, <1>2, <1>4 DEF StreamOK, PricesOK
<1>8. NamesOK' BY <1>1, <1>2 DEF StreamOK, NamesOK
<1>9. QED BY <1>3, <1>5, <1>6, <1>7, <1>8 DEF StreamKept, StreamOK

\* An attempt to connect has nothing on its way before, and nothing after.
LEMMA AttemptKeeps ==
    ASSUME IInv, Connect \/ ConnectRefused \/ ConnectFails \/ Reconnect
    PROVE  StreamKept
<1>1. StreamTypes /\ StreamOK BY Halves DEF IInv
<1>2. PICK phase \in Phases : TurnsTo(phase)
  BY DEF Connect, ConnectRefused, ConnectFails, Reconnect, Phases
<1>3. conn # None /\ conn.phase # "up"
  BY DEF Connect, ConnectRefused, ConnectFails, Reconnect, Trying
<1>4. /\ conn' = [conn EXCEPT !.phase = phase]
      /\ UNCHANGED <<view, token, lapsed, tickers, quotes, snapshot, refetches, feed, drops, missed, untold,
                      unlisted>>
  BY <1>2 DEF TurnsTo
<1>5. conn \in Connections /\ None \notin Connections BY <1>3, Typed DEF IInv
<1>6. conn.queue = <<>> BY <1>1, <1>3 DEF StreamOK, ConnOK
<1>7. conn' \in Connections /\ conn' # None /\ conn'.queue = conn.queue
  BY <1>4, <1>5 DEF Connections
<1>8. StreamTypes' BY <1>1, <1>4, <1>7 DEF StreamTypes
<1>9. ConnOK' BY <1>6, <1>7, Emptied
<1>10. Current' = Current BY <1>4 DEF Current
<1>11. (\A t : t \in QueuedTicks' <=> t \in QueuedTicks) /\ (QueuedNews' <=> QueuedNews)
  BY <1>3, <1>7, QueuedMeans
<1>12. SymbolsOK' BY <1>1, <1>4, <1>10, <1>11 DEF StreamOK, SymbolsOK
<1>13. PricesOK' BY <1>1, <1>4, <1>10, <1>11 DEF StreamOK, PricesOK
<1>14. NamesOK' BY <1>1, <1>4 DEF StreamOK, NamesOK
<1>15. QED BY <1>8, <1>9, <1>12, <1>13, <1>14 DEF StreamKept, StreamOK

LEMMA DisconnectKeeps ==
    ASSUME IInv, Disconnect
    PROVE  StreamKept
<1>1. StreamTypes /\ StreamOK BY Halves DEF IInv
<1>2. /\ conn # None /\ drops < MaxDrops /\ drops' = drops + 1
      /\ conn' = [conn EXCEPT !.phase = "waiting", !.queue = <<>>]
      /\ missed' = missed \cup QueuedTicks /\ untold' = (untold \/ QueuedNews)
      /\ UNCHANGED <<view, token, lapsed, tickers, quotes, snapshot, refetches, feed, unlisted>>
  BY DEF Disconnect
<1>3. conn \in Connections /\ <<>> \in Seq(Ticks \cup News) BY <1>2, Typed DEF IInv
<1>4. conn' \in Connections /\ conn'.queue = <<>> BY <1>2, <1>3 DEF Connections, Phases
<1>5. drops' \in 0..MaxDrops BY <1>1, <1>2, Typed DEF IInv, StreamTypes
<1>6. QueuedTicks \subseteq Tickers /\ QueuedNews \in BOOLEAN BY QueuedTyped DEF IInv
<1>7. StreamTypes' BY <1>1, <1>2, <1>4, <1>5, <1>6 DEF StreamTypes
<1>8. ConnOK' /\ QueuedTicks' = {} /\ ~QueuedNews' BY <1>4, Emptied
<1>9. Current' = Current BY <1>2 DEF Current
<1>10. SymbolsOK' BY <1>1, <1>2, <1>9 DEF StreamOK, SymbolsOK
<1>11. PricesOK' BY <1>1, <1>2, <1>9 DEF StreamOK, PricesOK
<1>12. NamesOK' BY <1>1, <1>2 DEF StreamOK, NamesOK
<1>13. QED BY <1>7, <1>8, <1>10, <1>11, <1>12 DEF StreamKept, StreamOK

\* The head of the queue was the last of its symbol, or another tick of it follows.
LEMMA TickArrivesKeeps ==
    ASSUME IInv, TickArrives
    PROVE  StreamKept
<1>1. StreamTypes /\ StreamOK BY Halves DEF IInv
<1>2. PICK m : m = Head(conn.queue) OBVIOUS
<1>3. /\ conn # None /\ conn.queue # <<>> /\ m.kind = "tick"
      /\ quotes' = [quotes EXCEPT ![m.of] = Merged(@, m)]
      /\ conn' = [conn EXCEPT !.queue = Tail(@)]
      /\ UNCHANGED <<view, token, lapsed, tickers, snapshot, refetches, feed, drops, missed, untold, unlisted>>
  BY <1>2 DEF TickArrives
<1>4. conn \in Connections /\ None \notin Connections /\ None \notin Quotes BY <1>3, Typed DEF IInv
<1>5. PICK queue : queue = conn.queue OBVIOUS
<1>6. queue \in Seq(Messages) /\ queue # <<>> BY <1>3, <1>4, <1>5 DEF Connections, Messages
<1>7. /\ m \in Messages /\ m = queue[1] /\ 1 \in DOMAIN queue /\ Tail(queue) \in Seq(Messages)
  BY <1>2, <1>5, <1>6, Queues
<1>8. m.of \in Tickers /\ m.price \in 0..MaxTicks BY <1>3, <1>7 DEF Messages, Ticks, News
<1>9. /\ conn' \in Connections /\ conn' # None /\ conn'.queue = Tail(queue)
      /\ conn'.phase = conn.phase /\ conn'.to = conn.to
  BY <1>3, <1>4, <1>5, <1>7 DEF Connections, Messages
<1>10. PICK quote : quote = Merged(quotes[m.of], m) OBVIOUS
<1>11. /\ quote \in Quotes /\ quote.price = m.price
       /\ quotes[m.of] # None /\ quotes[m.of].named => quote.named
  <2>1. quotes[m.of] \in Quotes \cup {None} BY <1>1, <1>8 DEF StreamTypes
  <2>2. PICK named \in BOOLEAN : named = IF quotes[m.of] = None THEN FALSE ELSE quotes[m.of].named
    BY <2>1 DEF Quotes
  <2>3. quote = [price |-> m.price, named |-> named] BY <1>10, <2>2 DEF Merged
  <2>4. QED BY <1>8, <2>2, <2>3 DEF Quotes
<1>12. quotes' = [quotes EXCEPT ![m.of] = quote] BY <1>3, <1>10
<1>13. /\ quotes' \in [Tickers -> Quotes \cup {None}] /\ quotes'[m.of] = quote
       /\ \A t \in Tickers : t # m.of => quotes'[t] = quotes[t]
  BY <1>1, <1>8, <1>11, <1>12 DEF StreamTypes
<1>14. StreamTypes' BY <1>1, <1>3, <1>9, <1>13 DEF StreamTypes
<1>15. Current' = Current BY <1>3 DEF Current
<1>16. /\ \A t : t \in QueuedTicks <=> t = m.of \/ t \in QueuedTicks'
       /\ QueuedNews <=> QueuedNews'
  BY <1>2, <1>3, <1>5, <1>6, <1>9, QueueParts, QueuedMeans
<1>17. /\ TicksCurrent(queue, Current.price) /\ NewsCurrent(queue, Current.active) /\ conn.phase = "up"
       /\ \A i \in DOMAIN queue : queue[i].kind = "tick" => queue[i].of \in conn.to
  BY <1>1, <1>3, <1>5 DEF StreamOK, ConnOK
<1>18. ConnOK'
  <2>1. TicksCurrent(Tail(queue), Current.price) /\ NewsCurrent(Tail(queue), Current.active)
    BY <1>6, <1>17, TailCurrent
  <2>2. \A i \in DOMAIN Tail(queue) : Tail(queue)[i].kind = "tick" => Tail(queue)[i].of \in conn.to
    BY <1>6, <1>17, Queues
  <2>3. QED BY <1>9, <1>15, <1>17, <2>1, <2>2 DEF ConnOK
<1>19. m.of \notin QueuedTicks' => m.price = Current.price[m.of]
  <2>1. ASSUME NEW j \in DOMAIN queue, j > 1, queue[j].kind = "tick", queue[j].of = m.of
        PROVE  m.of \in QueuedTicks'
    <3>1. j # 1 BY <2>1
    <3>2. j - 1 \in DOMAIN Tail(queue) /\ queue[j] = Tail(queue)[j - 1] BY <1>6, <3>1, Queues
    <3>3. TickIn(Tail(queue), m.of) BY <2>1, <3>2 DEF TickIn
    <3>4. QED BY <1>9, <3>3, QueuedMeans
  <2>2. QED BY <1>3, <1>7, <1>17, <2>1 DEF TicksCurrent
<1>20. SymbolsOK' BY <1>1, <1>3, <1>15, <1>16 DEF StreamOK, SymbolsOK
<1>21. ASSUME snapshot' = None, refetches' = {}, NEW t \in tickers' \ missed', t \notin QueuedTicks'
       PROVE  quotes'[t] # None /\ quotes'[t].price = Current'.price[t]
  <2>1. CASE t = m.of BY <1>4, <1>11, <1>13, <1>15, <1>19, <1>21, <2>1
  <2>2. CASE t # m.of
    <3>1. t \in tickers \ missed /\ t \notin QueuedTicks /\ t \in Tickers
      BY <1>1, <1>3, <1>16, <1>21, <2>2 DEF StreamTypes
    <3>2. quotes[t] # None /\ quotes[t].price = Current.price[t]
      BY <1>1, <1>3, <1>21, <3>1 DEF StreamOK, PricesOK
    <3>3. QED BY <1>13, <1>15, <2>2, <3>1, <3>2
  <2>3. QED BY <2>1, <2>2
<1>22. PricesOK' BY <1>21 DEF PricesOK
<1>23. ASSUME NEW t \in Tickers \ unlisted PROVE quotes'[t] # None /\ quotes'[t].named
  <2>1. quotes[t] # None /\ quotes[t].named BY <1>1 DEF StreamOK, NamesOK
  <2>2. QED BY <1>4, <1>11, <1>13, <2>1
<1>24. NamesOK' BY <1>3, <1>23 DEF NamesOK
<1>25. QED BY <1>14, <1>18, <1>20, <1>22, <1>24 DEF StreamKept, StreamOK

LEMMA SymbolsKeep ==
    ASSUME IInv, SymbolsArrive
    PROVE  StreamKept
<1>1. StreamTypes /\ StreamOK BY Halves DEF IInv
<1>2. PICK m : m = Head(conn.queue) OBVIOUS
<1>3. /\ conn # None /\ conn.queue # <<>> /\ m.kind = "symbols"
      /\ tickers' = m.active /\ conn' = Connection(token, m.active)
      /\ untold' = (untold \/ m.active # Current.active)
      /\ refetches' = refetches \cup {Len(feed)} /\ missed' = missed \cup QueuedTicks
      /\ UNCHANGED <<view, token, lapsed, quotes, snapshot, feed, drops, unlisted>>
  BY <1>2 DEF SymbolsArrive
<1>4. conn \in Connections BY <1>3, Typed DEF IInv
<1>5. m \in Messages
  <2>1. conn.queue \in Seq(Messages) BY <1>4 DEF Connections, Messages
  <2>2. QED BY <1>2, <1>3, <2>1, Queues
<1>6. m.active \in SUBSET Tickers BY <1>3, <1>5 DEF Messages, Ticks, News
<1>7. conn' \in Connections \cup {None} /\ (conn' = None \/ conn'.queue = <<>>)
  BY <1>3, <1>6, FreshConnection
<1>8. QueuedTicks \subseteq Tickers BY QueuedTyped DEF IInv
<1>9. Len(feed) \in 1..Len(feed) BY Typed DEF IInv
<1>10. untold' \in BOOLEAN BY <1>1, <1>3 DEF StreamTypes
<1>11. StreamTypes' BY <1>1, <1>3, <1>6, <1>7, <1>8, <1>9, <1>10 DEF StreamTypes
<1>12. ConnOK' BY <1>7, Emptied
<1>13. Current' = Current BY <1>3 DEF Current
<1>14. SymbolsOK' BY <1>3, <1>13 DEF SymbolsOK
<1>15. PricesOK' BY <1>3 DEF PricesOK
<1>16. NamesOK' BY <1>1, <1>3 DEF StreamOK, NamesOK
<1>17. QED BY <1>11, <1>12, <1>14, <1>15, <1>16 DEF StreamKept, StreamOK

LEMMA RefetchKeeps ==
    ASSUME IInv, RefetchArrives
    PROVE  StreamKept
<1>1. StreamTypes /\ StreamOK BY Halves DEF IInv
<1>2. PICK since \in refetches : \E i \in since..Len(feed) :
          /\ refetches' = refetches \ {since}
          /\ quotes' = ByName(feed[i])
          /\ unlisted' = Tickers \ feed[i].active
          /\ missed' = (Older(feed[i]) \cup unlisted') \ QueuedTicks
          /\ UNCHANGED <<view, token, lapsed, tickers, snapshot, conn, feed, drops, untold>>
  BY DEF RefetchArrives
<1>3. PICK i \in since..Len(feed) :
          /\ refetches' = refetches \ {since}
          /\ quotes' = ByName(feed[i])
          /\ unlisted' = Tickers \ feed[i].active
          /\ missed' = (Older(feed[i]) \cup unlisted') \ QueuedTicks
          /\ UNCHANGED <<view, token, lapsed, tickers, snapshot, conn, feed, drops, untold>>
  BY <1>2
<1>4. i \in 1..Len(feed)
  <2>1. since \in 1..Len(feed) BY <1>1, <1>2 DEF StreamTypes
  <2>2. Len(feed) \in Nat BY Typed DEF IInv
  <2>3. QED BY <2>1, <2>2
<1>5. PICK f : f = feed[i] OBVIOUS
<1>6. f \in States BY <1>4, <1>5, Fetched DEF IInv
<1>7. Older(f) \subseteq Tickers BY DEF Older
<1>8. StreamTypes' BY <1>1, <1>3, <1>5, <1>6, <1>7, ByNames DEF StreamTypes
<1>9. Current' = Current /\ QueuedTicks' = QueuedTicks /\ (QueuedNews' <=> QueuedNews)
  BY <1>3 DEF Current, QueuedTicks, QueuedNews, Queued
<1>10. ConnOK' BY <1>1, <1>3, <1>9 DEF StreamOK, ConnOK
<1>11. SymbolsOK' BY <1>1, <1>3, <1>9 DEF StreamOK, SymbolsOK
<1>12. ASSUME NEW t \in tickers' \ missed', t \notin QueuedTicks'
       PROVE  quotes'[t] # None /\ quotes'[t].price = Current'.price[t]
  <2>1. t \in Tickers /\ t \notin Older(f) /\ t \in f.active
    BY <1>1, <1>3, <1>5, <1>9, <1>12 DEF StreamTypes
  <2>2. f.price[t] = Current.price[t] BY <2>1 DEF Older
  <2>3. QED BY <1>3, <1>5, <1>6, <1>9, <2>1, <2>2, ByNames
<1>13. PricesOK' BY <1>12 DEF PricesOK
<1>14. NamesOK' BY <1>3, <1>5, <1>6, ByNames DEF NamesOK
<1>15. QED BY <1>8, <1>10, <1>11, <1>13, <1>14 DEF StreamKept, StreamOK

LEMMA RefetchFailsKeeps ==
    ASSUME IInv, RefetchFails
    PROVE  StreamKept
<1>1. StreamTypes /\ StreamOK BY Halves DEF IInv
<1>2. /\ refetches' \subseteq refetches /\ missed' = Tickers
      /\ UNCHANGED <<view, token, lapsed, tickers, quotes, snapshot, conn, feed, drops, untold, unlisted>>
  BY DEF RefetchFails
<1>3. StreamTypes' BY <1>1, <1>2 DEF StreamTypes
<1>4. Current' = Current /\ (QueuedNews' <=> QueuedNews)
  BY <1>2 DEF Current, QueuedNews, Queued
<1>5. ConnOK' BY <1>1, <1>2, <1>4 DEF StreamOK, ConnOK
<1>6. SymbolsOK' BY <1>1, <1>2, <1>4 DEF StreamOK, SymbolsOK
<1>7. PricesOK' BY <1>2, <1>3 DEF PricesOK, StreamTypes
<1>8. NamesOK' BY <1>1, <1>2 DEF StreamOK, NamesOK
<1>9. QED BY <1>3, <1>5, <1>6, <1>7, <1>8 DEF StreamKept, StreamOK

\* A tick is queued as the last of its symbol, or it is missed.
LEMMA TickKeeps ==
    ASSUME IInv, NEW t \in Tickers, Tick(t)
    PROVE  StreamKept
<1>1. StreamTypes /\ StreamOK BY Halves DEF IInv
<1>2. PICK price, m : price = Current.price[t] + 1 /\ m = [kind |-> "tick", of |-> t, price |-> price] OBVIOUS
<1>3. PICK f : f = [Current EXCEPT !.price[t] = price] OBVIOUS
<1>4. /\ price <= MaxTicks /\ feed' = Append(feed, f)
      /\ conn' = IF Listening(t) THEN [conn EXCEPT !.queue = Append(@, m)] ELSE conn
      /\ missed' = IF Listening(t) THEN missed \ {t} ELSE missed \cup {t}
      /\ UNCHANGED <<view, token, lapsed, tickers, quotes, snapshot, refetches, drops, untold, unlisted>>
  BY <1>2, <1>3 DEF Tick
<1>5. Current.active \subseteq Tickers /\ Current.price \in Prices /\ MaxTicks \in Nat BY Typed DEF IInv
<1>6. price \in 0..MaxTicks BY <1>2, <1>4, <1>5 DEF Prices
<1>7. m \in Ticks /\ m.kind = "tick" /\ m.of = t /\ m.price = price BY <1>2, <1>6 DEF Ticks
<1>8. m \in Messages BY <1>7 DEF Messages
<1>9. Current \in States
  <2>1. Len(feed) \in 1..Len(feed) BY Typed DEF IInv
  <2>2. QED BY <2>1, Fetched DEF Current, IInv
<1>10. /\ f \in States /\ f.active = Current.active /\ f.price[t] = price
       /\ \A u : u # t => f.price[u] = Current.price[u]
  BY <1>3, <1>5, <1>6, <1>9 DEF States, Prices
<1>11. feed' \in Seq(States) \ {<<>>} /\ Current' = f /\ 1..Len(feed) \subseteq 1..Len(feed')
  BY <1>4, <1>10, Fed
<1>12. ASSUME Listening(t)
       PROVE  /\ conn' \in Connections /\ ConnOK' /\ missed' = missed \ {t}
              /\ \A u : u \in QueuedTicks' <=> u = t \/ u \in QueuedTicks
              /\ QueuedNews' <=> QueuedNews
  <2>1. conn # None /\ conn.phase = "up" /\ t \in conn.to BY <1>12 DEF Listening, IsConnected
  <2>2. conn \in Connections /\ None \notin Connections BY <2>1, Typed DEF IInv
  <2>3. PICK queue : queue = conn.queue OBVIOUS
  <2>4. queue \in Seq(Messages) BY <2>2, <2>3 DEF Connections, Messages
  <2>5. PICK more : more = Append(queue, m) OBVIOUS
  <2>6. more \in Seq(Messages) BY <1>8, <2>4, <2>5
  <2>7. conn' = [conn EXCEPT !.queue = more] /\ missed' = missed \ {t} BY <1>4, <1>12, <2>3, <2>5
  <2>8. /\ conn' \in Connections /\ conn' # None /\ conn'.queue = more /\ conn'.phase = "up" /\ conn'.to = conn.to
    BY <2>1, <2>2, <2>6, <2>7 DEF Connections, Messages
  <2>9. /\ TicksCurrent(queue, Current.price) /\ NewsCurrent(queue, Current.active)
        /\ \A i \in DOMAIN queue : queue[i].kind = "tick" => queue[i].of \in conn.to
    BY <1>1, <2>1, <2>3 DEF StreamOK, ConnOK
  <2>10. TicksCurrent(more, f.price) /\ NewsCurrent(more, f.active)
    <3>1. m.kind # "symbols" BY <1>7
    <3>2. m.kind = "tick" => m.price = f.price[m.of] /\ f.active = Current.active BY <1>7, <1>10
    <3>3. \A u : (m.kind = "tick" => u # m.of) => f.price[u] = Current.price[u] BY <1>7, <1>10
    <3>4. QED BY <1>8, <2>4, <2>5, <2>9, <3>1, <3>2, <3>3, AppendCurrent
  <2>11. \A i \in DOMAIN more : more[i].kind = "tick" => more[i].of \in conn.to
    BY <1>7, <2>1, <2>4, <2>5, <2>9
  <2>12. ConnOK' BY <1>11, <2>8, <2>10, <2>11 DEF ConnOK
  <2>13. /\ \A u : TickIn(more, u) <=> TickIn(queue, u) \/ u = t
         /\ NewsIn(more) <=> NewsIn(queue)
    BY <1>7, <1>8, <2>4, <2>5, QueueParts
  <2>14. QED BY <2>1, <2>3, <2>7, <2>8, <2>12, <2>13, QueuedMeans
<1>13. ASSUME ~Listening(t)
       PROVE  /\ conn' = conn /\ ConnOK' /\ missed' = missed \cup {t}
              /\ QueuedTicks' = QueuedTicks /\ (QueuedNews' <=> QueuedNews)
  <2>1. conn' = conn /\ missed' = missed \cup {t} BY <1>4, <1>13
  <2>2. QueuedTicks' = QueuedTicks /\ (QueuedNews' <=> QueuedNews)
    BY <2>1 DEF QueuedTicks, QueuedNews, Queued
  <2>3. ASSUME conn # None
        PROVE  TicksCurrent(conn.queue, f.price) /\ NewsCurrent(conn.queue, f.active)
    <3>1. /\ TicksCurrent(conn.queue, Current.price) /\ NewsCurrent(conn.queue, Current.active)
          /\ \A i \in DOMAIN conn.queue : conn.queue[i].kind = "tick" => conn.queue[i].of \in conn.to
          /\ conn.queue # <<>> => conn.phase = "up"
      BY <1>1, <2>3 DEF StreamOK, ConnOK
    <3>2. \A i \in DOMAIN conn.queue : conn.queue[i].kind = "tick" => conn.queue[i].of # t
      <4>1. CASE conn.queue = <<>> BY <4>1
      <4>2. CASE conn.queue # <<>> BY <1>13, <2>3, <3>1, <4>2 DEF Listening, IsConnected
      <4>3. QED BY <4>1, <4>2
    <3>3. QED BY <1>10, <3>1, <3>2 DEF TicksCurrent, NewsCurrent
  <2>4. ConnOK' BY <1>1, <1>11, <2>1, <2>3 DEF StreamOK, ConnOK
  <2>5. QED BY <2>1, <2>2, <2>4
<1>14. ConnOK' /\ conn' \in Connections \cup {None} /\ missed' \subseteq Tickers
  BY <1>1, <1>12, <1>13 DEF StreamTypes
<1>15. StreamTypes' BY <1>1, <1>4, <1>11, <1>14 DEF StreamTypes
<1>16. SymbolsOK' BY <1>1, <1>4, <1>10, <1>11, <1>12, <1>13 DEF StreamOK, SymbolsOK
<1>17. ASSUME snapshot' = None, refetches' = {}, NEW u \in tickers' \ missed', u \notin QueuedTicks'
       PROVE  quotes'[u] # None /\ quotes'[u].price = Current'.price[u]
  <2>1. u # t /\ u \in tickers \ missed /\ u \notin QueuedTicks BY <1>4, <1>12, <1>13, <1>17
  <2>2. QED BY <1>1, <1>4, <1>10, <1>11, <1>17, <2>1 DEF StreamOK, PricesOK
<1>18. PricesOK' BY <1>17 DEF PricesOK
<1>19. NamesOK' BY <1>1, <1>4 DEF StreamOK, NamesOK
<1>20. QED BY <1>14, <1>15, <1>16, <1>18, <1>19 DEF StreamKept, StreamOK

\* Changed symbols are queued as the last news, or are not told.
LEMMA SetActiveKeeps ==
    ASSUME IInv, NEW set \in SUBSET Tickers, SetActive(set)
    PROVE  StreamKept
<1>1. StreamTypes /\ StreamOK BY Halves DEF IInv
<1>2. PICK m, f : m = [kind |-> "symbols", active |-> set] /\ f = [Current EXCEPT !.active = set] OBVIOUS
<1>3. /\ feed' = Append(feed, f)
      /\ conn' = IF IsConnected THEN [conn EXCEPT !.queue = Append(@, m)] ELSE conn
      /\ untold' = ~IsConnected
      /\ UNCHANGED <<view, token, lapsed, tickers, quotes, snapshot, refetches, drops, missed, unlisted>>
  BY <1>2 DEF SetActive
<1>4. m \in Messages /\ m.kind = "symbols" /\ m.active = set BY <1>2 DEF Messages, News
<1>5. Current \in States
  <2>1. Len(feed) \in 1..Len(feed) BY Typed DEF IInv
  <2>2. QED BY <2>1, Fetched DEF Current, IInv
<1>6. f \in States /\ f.active = set /\ f.price = Current.price BY <1>2, <1>5 DEF States
<1>7. feed' \in Seq(States) \ {<<>>} /\ Current' = f /\ 1..Len(feed) \subseteq 1..Len(feed')
  BY <1>3, <1>6, Fed
<1>8. ASSUME IsConnected
      PROVE  /\ conn' \in Connections /\ ConnOK' /\ QueuedNews'
             /\ \A u : u \in QueuedTicks' <=> u \in QueuedTicks
  <2>1. conn # None /\ conn.phase = "up" /\ conn \in Connections /\ None \notin Connections
    BY <1>8, Typed DEF IsConnected, IInv
  <2>2. PICK queue : queue = conn.queue OBVIOUS
  <2>3. queue \in Seq(Messages) BY <2>1, <2>2 DEF Connections, Messages
  <2>4. PICK more : more = Append(queue, m) OBVIOUS
  <2>5. more \in Seq(Messages) BY <1>4, <2>3, <2>4
  <2>6. conn' = [conn EXCEPT !.queue = more] BY <1>3, <1>8, <2>2, <2>4
  <2>7. /\ conn' \in Connections /\ conn' # None /\ conn'.queue = more /\ conn'.phase = "up" /\ conn'.to = conn.to
    BY <2>1, <2>5, <2>6 DEF Connections, Messages
  <2>8. /\ TicksCurrent(queue, Current.price) /\ NewsCurrent(queue, Current.active)
        /\ \A i \in DOMAIN queue : queue[i].kind = "tick" => queue[i].of \in conn.to
    BY <1>1, <2>1, <2>2 DEF StreamOK, ConnOK
  <2>9. TicksCurrent(more, f.price) /\ NewsCurrent(more, f.active)
    <3>1. m.kind # "tick" BY <1>4
    <3>2. \A u : f.price[u] = Current.price[u] BY <1>6
    <3>3. m.kind = "symbols" => m.active = f.active /\ f.price = Current.price BY <1>4, <1>6
    <3>4. QED BY <1>4, <2>3, <2>4, <2>8, <3>1, <3>2, <3>3, AppendCurrent
  <2>10. \A i \in DOMAIN more : more[i].kind = "tick" => more[i].of \in conn.to
    BY <1>4, <2>3, <2>4, <2>8
  <2>11. ConnOK' BY <1>7, <2>7, <2>9, <2>10 DEF ConnOK
  <2>12. (\A u : TickIn(more, u) <=> TickIn(queue, u)) /\ NewsIn(more) BY <1>4, <2>3, <2>4, QueueParts
  <2>13. QED BY <2>1, <2>2, <2>7, <2>11, <2>12, QueuedMeans
<1>9. ASSUME ~IsConnected
      PROVE  /\ conn' = conn /\ ConnOK' /\ untold'
             /\ \A u : u \in QueuedTicks' <=> u \in QueuedTicks
  <2>1. conn' = conn /\ untold' BY <1>3, <1>9
  <2>2. conn' = None \/ conn'.queue = <<>> BY <1>1, <1>9, <2>1 DEF StreamOK, ConnOK, IsConnected
  <2>3. QED BY <2>1, <2>2, Emptied DEF QueuedTicks, Queued
<1>10. ConnOK' /\ conn' \in Connections \cup {None} /\ untold' \in BOOLEAN
       /\ \A u : u \in QueuedTicks' <=> u \in QueuedTicks
  BY <1>1, <1>3, <1>8, <1>9 DEF StreamTypes
<1>11. StreamTypes' BY <1>1, <1>3, <1>7, <1>10 DEF StreamTypes
<1>12. SymbolsOK' BY <1>8, <1>9 DEF SymbolsOK
<1>13. PricesOK' BY <1>1, <1>3, <1>6, <1>7, <1>10 DEF StreamOK, PricesOK
<1>14. NamesOK' BY <1>1, <1>3 DEF StreamOK, NamesOK
<1>15. QED BY <1>10, <1>11, <1>12, <1>13, <1>14 DEF StreamKept, StreamOK

\* What happens to the loads, or nothing, leaves the stream as it was.
LEMMA StreamStays ==
    ASSUME IInv, UNCHANGED <<view, streaming>>
    PROVE  StreamKept
<1>1. StreamTypes /\ StreamOK BY Halves DEF IInv
<1>2. UNCHANGED <<view, token, lapsed, tickers, quotes, snapshot, refetches, conn, feed, drops, missed, untold,
                   unlisted>>
  BY DEF streaming
<1>3. StreamTypes' BY <1>1, <1>2 DEF StreamTypes
<1>4. Current' = Current /\ QueuedTicks' = QueuedTicks /\ (QueuedNews' <=> QueuedNews)
  BY <1>2 DEF Current, QueuedTicks, QueuedNews, Queued
<1>5. ConnOK' BY <1>1, <1>2, <1>4 DEF StreamOK, ConnOK
<1>6. SymbolsOK' BY <1>1, <1>2, <1>4 DEF StreamOK, SymbolsOK
<1>7. PricesOK' BY <1>1, <1>2, <1>4 DEF StreamOK, PricesOK
<1>8. NamesOK' BY <1>1, <1>2 DEF StreamOK, NamesOK
<1>9. QED BY <1>3, <1>5, <1>6, <1>7, <1>8 DEF StreamKept, StreamOK

-----------------------------------------------------------------------------
(* The invariant.                                                          *)

LEMMA InitHolds == Init => IInv
<1> SUFFICES ASSUME Init PROVE IInv OBVIOUS
<1>1. {MaxChanges, MaxTicks, MaxDrops} \subseteq Nat BY MarketViewsAssumption
<1>2. PICK k \in Keys : wanted = [what |-> k, owner |-> None, attempt |-> 0] BY DEF Init
<1>3. wanted \in Wants /\ wanted.attempt = 0 BY <1>1, <1>2 DEF Wants, Accounts
<1>4. PICK q : q = [n |-> 0, key |-> wanted] OBVIOUS
<1>5. q \in Requests /\ q.n = 0 /\ q.key = wanted BY <1>1, <1>3, <1>4 DEF Requests
<1>6. /\ view \in Views /\ changes = 0 /\ requests = IF view = "quotes" THEN {} ELSE {q}
      /\ busy = (view \in {"resource", "momentum", "search"}) /\ result = None /\ failed = FALSE
      /\ latest = [n |-> 0, late |-> FALSE]
  BY <1>4 DEF Init
<1>7. LoadTypes
  <2>1. requests \subseteq Requests BY <1>5, <1>6
  <2>2. latest \in [n : 0..MaxChanges, late : BOOLEAN] BY <1>1, <1>6
  <2>3. busy \in BOOLEAN /\ changes \in 0..MaxChanges BY <1>1, <1>6
  <2>4. QED BY <1>3, <1>6, <2>1, <2>2, <2>3 DEF LoadTypes
<1>8. LoadsOK
  <2>1. RetryWorks BY <1>6 DEF RetryWorks
  <2>2. view = "search" => SearchOK BY <1>5, <1>6 DEF SearchOK
  <2>3. wanted.attempt <= changes BY <1>3, <1>6
  <2>4. /\ \A p \in requests : p = q /\ requests = {q}
        /\ view = "quotes" => requests = {}
    BY <1>6
  <2>5. QED BY <1>5, <1>6, <2>1, <2>2, <2>3, <2>4 DEF LoadsOK
<1>10. PICK f : f = [active |-> Tickers, price |-> [t \in Tickers |-> 0]] OBVIOUS
<1>11. f \in States
  <2>1. [t \in Tickers |-> 0] \in Prices BY <1>1 DEF Prices
  <2>2. QED BY <1>10, <2>1 DEF States
<1>12. /\ token = None /\ lapsed = FALSE /\ tickers = {} /\ quotes = [t \in Tickers |-> None]
       /\ snapshot = IF view = "quotes" THEN 1 ELSE None
       /\ refetches = {} /\ conn = None /\ feed = <<f>>
       /\ drops = 0 /\ missed = {} /\ untold = FALSE /\ unlisted = Tickers
  BY <1>10 DEF Init
<1>13. feed \in Seq(States) \ {<<>>} /\ Len(feed) = 1 BY <1>11, <1>12
<1>14. StreamTypes
  <2>1. token \in Accounts /\ drops \in 0..MaxDrops BY <1>1, <1>12 DEF Accounts
  <2>2. quotes \in [Tickers -> Quotes \cup {None}] BY <1>12
  <2>3. snapshot \in 1..Len(feed) \cup {None} BY <1>12, <1>13
  <2>4. QED BY <1>12, <1>13, <2>1, <2>2, <2>3 DEF StreamTypes
<1>15. None # 1 BY MarketViewsAssumption
<1>16. ConnOK /\ PricesOK /\ NamesOK BY <1>12 DEF ConnOK, PricesOK, NamesOK
<1>17. SymbolsOK BY <1>12, <1>15 DEF SymbolsOK
<1>18. QED BY <1>7, <1>8, <1>14, <1>16, <1>17, Halves DEF IInv, StreamOK

LEMMA StreamKeeps ==
    ASSUME IInv, [Next]_vars
    PROVE  StreamKept
<1>1. CASE Looks BY <1>1, LooksOnly, StreamStays
<1>2. CASE UNCHANGED vars BY <1>2, StreamStays DEF vars
<1>3. CASE \E a \in Accounts : TokenChanges(a) BY <1>3, TokenKeeps
<1>4. CASE \E t \in Tickers : Tick(t) BY <1>4, TickKeeps
<1>5. CASE \E set \in SUBSET Tickers : SetActive(set) BY <1>5, SetActiveKeeps
<1>6. CASE \/ SnapshotArrives \/ SnapshotFails \/ TokenLapses
           \/ Connect \/ ConnectRefused \/ ConnectFails \/ Reconnect \/ Disconnect
           \/ TickArrives \/ SymbolsArrive \/ RefetchArrives \/ RefetchFails
  BY <1>6, SnapshotKeeps, SnapshotFailsKeeps, LapseKeeps, AttemptKeeps, DisconnectKeeps, TickArrivesKeeps,
     SymbolsKeep, RefetchKeeps, RefetchFailsKeeps
<1>7. QED BY <1>1, <1>2, <1>3, <1>4, <1>5, <1>6 DEF Next, Looks

LEMMA NextKeeps == IInv /\ [Next]_vars => IInv'
<1> SUFFICES ASSUME IInv, [Next]_vars PROVE IInv' OBVIOUS
<1>1. LoadTypes' /\ LoadsOK' BY LooksKeep, LoadsStay
<1>2. StreamTypes' /\ StreamOK' BY StreamKeeps DEF StreamKept
<1>3. QED BY <1>1, <1>2, Halves DEF IInv

-----------------------------------------------------------------------------
(* Theorems.                                                               *)

\* The invariant holds of every state the market pages can be in.
THEOREM Invariance == Spec => []IInv
<1>1. Init => IInv BY InitHolds
<1>2. IInv /\ [Next]_vars => IInv' BY NextKeeps
<1>3. QED BY <1>1, <1>2, PTL DEF Spec

\* What the variables hold is of its type, in particular a snapshot or a reload is one of
\* the states the server has had since it was asked for.
THEOREM TypesHold == Spec => []TypeOK
<1>1. IInv => TypeOK BY DEF IInv
<1>2. QED BY <1>1, Invariance, PTL

\* A panel or resource shows only what was loaded for the key and the account wanted.
LEMMA ShowsWanted == IInv => DataOfWanted
<1> SUFFICES ASSUME IInv PROVE DataOfWanted OBVIOUS
<1>1. ASSUME view \in {"panel", "resource", "momentum"}, Shown.status = "success" PROVE Shown.data = wanted
  <2>1. Status = "success" BY <1>1 DEF Shown
  <2>2. result # None /\ result.key = wanted /\ result.outcome = "success" BY <2>1 DEF Status, Matches
  <2>3. result.data = result.key BY <2>2 DEF IInv, LoadsOK
  <2>4. QED BY <2>1, <2>2, <2>3 DEF Shown
<1>2. QED BY <1>1 DEF DataOfWanted

LEMMA ShowsLatest == IInv => SearchIsLatest
<1> SUFFICES ASSUME IInv, view = "search", requests = {}
             PROVE  /\ ~busy
                    /\ ~latest.late /\ ~failed =>
                          result # None /\ result.n = latest.n /\ SearchShown = wanted
  BY DEF SearchIsLatest
<1>1. SearchOK BY DEF IInv, LoadsOK
<1>2. QED BY <1>1 DEF SearchOK, SearchShown

LEMMA ShowsMarket == IInv => QuotesKeepUp
<1> SUFFICES ASSUME IInv, view = "quotes", snapshot = None, refetches = {}, Queued = {}
             PROVE  /\ ~untold => tickers = Current.active
                    /\ \A t \in tickers \ missed :
                          PriceShown(t) = Current.price[t] /\ (quotes[t].named \/ t \in unlisted)
  BY DEF QuotesKeepUp
<1>1. QueuedTicks = {} /\ ~QueuedNews BY DEF QueuedTicks, QueuedNews
<1>2. ~untold => tickers = Current.active BY <1>1 DEF IInv, StreamOK, SymbolsOK
<1>3. ASSUME NEW t \in tickers \ missed
      PROVE  PriceShown(t) = Current.price[t] /\ (quotes[t].named \/ t \in unlisted)
  <2>1. quotes[t] # None /\ quotes[t].price = Current.price[t]
    BY <1>1 DEF IInv, StreamOK, PricesOK
  <2>2. t \in Tickers BY DEF IInv, TypeOK
  <2>3. t \in unlisted \/ quotes[t].named BY <2>2 DEF IInv, StreamOK, NamesOK
  <2>4. QED BY <2>1, <2>3 DEF PriceShown
<1>4. QED BY <1>2, <1>3

\* Whatever callbacks come in which order: keyed views show what is wanted or offer to try
\* again, the screener shows its last search unless an older answer came after a newer, and
\* the quotes shown are the market's but for what nothing asks for again.
THEOREM ViewsAreCurrent == Spec => []ShownIsCurrent
<1>1. IInv => ShownIsCurrent
  BY ShowsWanted, ShowsLatest, ShowsMarket DEF ShownIsCurrent, IInv, LoadsOK
<1>2. QED BY <1>1, Invariance, PTL
-----------------------------------------------------------------------------
(* RowLists: the inductive invariant.                                      *)

FormPages   == {"averages", "profile"}
ReloadPages == {"stocks", "star", "averages"}

\* Which commands a page sends, and for which rows.
JobOK(j) ==
    /\ page \in {"stocks", "star", "alerts"} => j.kind \in {"create", "delete"}
    /\ page = "users" => j.kind \in {"change", "touch", "delete"}
    /\ page = "inbox" => j.kind \in {"change", "bulk"} /\ j.on = {"first"}
    /\ page \in FormPages => j.kind = "change" /\ j.rows = {1}
    /\ j.kind # "bulk" => \E r \in Rows : j.rows = {r}
    /\ j.n <= sent

JobsOK == \A j \in jobs : JobOK(j)

\* The slot names a row that has a command out.
SlotOK == pending # NoRow => \E j \in jobs : Slotted(j.kind) /\ j.rows = {pending}

\* But for the pages that load again, what needs the rows comes after the one load.
FirstLoadOK ==
    page \notin ReloadPages =>
        /\ loads \subseteq {[n |-> 1, since |-> 1]}
        /\ loads # {} => ~loaded
        /\ ~loaded => asked = NoRow /\ picked = {} /\ unread = 0 /\ \A j \in jobs : j.kind = "create"
        /\ ~loaded /\ page = "inbox" => \A r \in Rows : shown[r] = NoRow

RowLoadsOK ==
    /\ \A l \in loads : l.since <= Len(table)
    /\ FirstLoadOK
    /\ asked # NoRow => page \in {"users", "symbols"}
    /\ picked # {} => page = "symbols"
    /\ typed => page \in FormPages

\* A form has its one row always; what was not typed into since is what the server has or will have.
FormsOK ==
    page \in FormPages =>
        /\ shown[1] # NoRow /\ shown[1].made = 0
        /\ \A i \in DOMAIN table : table[i][1] # NoRow /\ table[i][1].made = 0
        /\ \A r \in Rows \ {1} : shown[r] = NoRow /\ \A i \in DOMAIN table : table[i][r] = NoRow
        /\ 1 \notin excused /\ ~typed =>
              /\ loaded /\ JobsOn(1) = {} => shown[1] = Stored[1]
              /\ page = "profile" => \A j \in JobsOn(1) : shown[1].on = j.on

\* As long as no two commands met, the count is that of the rows shown, and each command for
\* one row will take one off.
InboxOK ==
    page = "inbox" =>
        /\ \A j \in jobs : j.kind = "bulk" => \A r \in Rows \ j.rows : Stored[r] = NoRow
        /\ loaded /\ excused = {} =>
              /\ unread = Unread(shown)
              /\ \A j \in jobs : j.kind = "change" => \A r \in j.rows : shown[r] # NoRow /\ shown[r].on = {}
              /\ \A j \in jobs : j.kind = "bulk" => jobs = {j}

\* Of two commands for a row, one deletes it and was confirmed while the slot named the row.
OneAtATime(p, J) ==
    \A j, k \in J : j # k =>
        /\ p \in {"users", "symbols"}
        /\ \/ j.kind = "delete" /\ k.kind \in {"change", "touch"}
           \/ k.kind = "delete" /\ j.kind \in {"change", "touch"}

\* What the server has of a row (v) is what the user asked for (w), or a command of J will make it so.
AskedOK(J, v, w) ==
    /\ (\A j \in J : j.step = "sent" => j.kind = "touch") => OnOf(v) = w
    /\ \A j \in J :
          /\ j.kind = "delete" => w = NoRow /\ (j.step = "served" => v = NoRow)
          /\ j.step = "sent" =>
                /\ j.kind = "create" => w = {}
                /\ j.kind = "bulk" => w = j.on /\ v # NoRow
                /\ j.kind = "change" =>
                      \/ w = j.on
                      \/ \E k \in J : k.kind = "delete"
                      \/ w = NoRow /\ v = NoRow

\* What page p shows of a row once it has loaded (s) is what the server has, or an answer will make it so.
ShownOK(p, ready, J, v, s) ==
    /\ p \notin FormPages /\ ready /\ (\A j \in J : j.step = "served" => j.kind = "touch") => s = v
    /\ \A j \in J : j.step = "served" =>
          /\ j.kind = "create" => v = [made |-> j.n, on |-> {}]
          /\ j.kind = "delete" /\ ready => p = "star" \/ s = NoRow \/ s.made = j.made
          /\ j.kind \in {"change", "bulk"} =>
                \/ /\ v = NoRow
                   /\ ready => s = NoRow \/ \E k \in J : k.kind = "delete" /\ k.step = "served"
                \/ /\ v # NoRow /\ v.on = j.on
                   /\ ready /\ p \notin FormPages => s # NoRow /\ s.made = v.made

RowOK(r) ==
    /\ OneAtATime(page, JobsOn(r))
    /\ AskedOK(JobsOn(r), Stored[r], wish[r])
    /\ ShownOK(page, loaded, JobsOn(r), Stored[r], shown[r])

RowsOK == \A r \in Rows \ excused : RowOK(r)

RowsInv == RowTypeOK /\ JobsOK /\ SlotOK /\ RowLoadsOK /\ FormsOK /\ InboxOK /\ RowsOK

-----------------------------------------------------------------------------
(* Values.                                                                 *)

LEMMA RowNumbers ==
    /\ Existing \in Nat \ {0} /\ MaxCreated \in Nat /\ MaxCommands \in Nat /\ MaxReloads \in Nat
    /\ Rows \subseteq Nat \ {0} /\ 1 \in Rows
    /\ NoRow \notin Rows /\ NoRow \notin Values /\ NoRow \notin Nat
    /\ \A on \in SUBSET Switches : on # NoRow
BY RowListsAssumption DEF Rows

LEMMA CountTyped ==
    /\ IsFiniteSet(Rows) /\ Cardinality(Rows) \in Nat
    /\ \A S \in SUBSET Rows : IsFiniteSet(S) /\ Cardinality(S) \in 0..Cardinality(Rows)
<1>1. IsFiniteSet(Rows)
  <2>1. Existing + MaxCreated \in Nat BY RowNumbers
  <2>2. QED BY <2>1, FS_Interval DEF Rows
<1>2. ASSUME NEW S \in SUBSET Rows PROVE IsFiniteSet(S) /\ Cardinality(S) \in 0..Cardinality(Rows)
  <2>1. IsFiniteSet(S) /\ Cardinality(S) <= Cardinality(Rows) BY <1>1, FS_Subset
  <2>2. Cardinality(S) \in Nat /\ Cardinality(Rows) \in Nat BY <1>1, <2>1, FS_CardinalityType
  <2>3. QED BY <2>1, <2>2
<1>3. Cardinality(Rows) \in Nat BY <1>1, FS_CardinalityType
<1>4. QED BY <1>1, <1>2, <1>3

LEMMA UnreadTyped == ASSUME NEW t PROVE Unread(t) \in 0..Cardinality(Rows)
<1>1. {r \in Rows : t[r] # NoRow /\ t[r].on = {}} \in SUBSET Rows OBVIOUS
<1>2. QED BY <1>1, CountTyped DEF Unread

\* A value is its two fields.
LEMMA ValueIs ==
    ASSUME NEW v \in Values, NEW w \in Values, v.made = w.made, v.on = w.on
    PROVE  v = w
BY DEF Values

LEMMA JobTyped ==
    ASSUME NEW j \in Jobs
    PROVE  /\ j.n \in 1..MaxCommands /\ j.kind \in {"create", "change", "delete", "bulk", "touch"}
           /\ j.rows \in SUBSET Rows /\ j.on \in SUBSET Switches /\ j.made \in 0..MaxCommands
           /\ j.step \in {"sent", "served"}
BY DEF Jobs

LEMMA TablesTyped ==
    ASSUME RowTypeOK
    PROVE  /\ Len(table) \in Nat \ {0} /\ \A i \in 1..Len(table) : table[i] \in Tables
           /\ DOMAIN table = 1..Len(table)
           /\ Stored \in Tables /\ \A r \in Rows : Stored[r] \in Values \cup {NoRow}
           /\ \A r \in Rows : shown[r] \in Values \cup {NoRow}
           /\ \A r \in Rows : wish[r] \in (SUBSET Switches) \cup {NoRow}
<1>1. PICK T : T = Tables OBVIOUS
<1>2. table \in Seq(T) /\ table # <<>> BY <1>1 DEF RowTypeOK
<1>3. Len(table) \in Nat \ {0} /\ \A i \in 1..Len(table) : table[i] \in T BY <1>2
<1>4. DOMAIN table = 1..Len(table) BY <1>2
<1>5. Stored \in Tables BY <1>1, <1>3 DEF Stored
<1>6. \A t \in Tables : \A r \in Rows : t[r] \in Values \cup {NoRow} BY DEF Tables
<1>7. QED BY <1>1, <1>3, <1>4, <1>5, <1>6 DEF RowTypeOK

-----------------------------------------------------------------------------
(* One row: its commands J, its value v at the server, the wish w, what is *)
(* shown of it.                                                            *)

\* What the server makes of a value when it serves a command.
After(j, v) ==
    CASE j.kind = "create" -> [made |-> j.n, on |-> {}]
      [] j.kind = "delete" -> NoRow
      [] j.kind = "touch" -> v
      [] OTHER -> IF v = NoRow THEN NoRow ELSE [v EXCEPT !.on = j.on]

\* What the page makes of a row shown when it is answered.
Taken(p, j, s) ==
    CASE j.kind = "create" -> [made |-> j.n, on |-> {}]
      [] j.kind \in {"change", "bulk"} -> IF p = "profile" \/ s = NoRow THEN s ELSE [s EXCEPT !.on = j.on]
      [] j.kind = "delete" -> IF p # "star" /\ s # NoRow /\ s.made # j.made THEN s ELSE NoRow
      [] OTHER -> s

\* A command is sent for a row that has none, or to delete one the slot names.
LEMMA SendRow ==
    ASSUME NEW p, NEW ready, NEW J \in SUBSET Jobs, NEW new \in Jobs, NEW v, NEW w, NEW s, NEW a,
           OneAtATime(p, J), AskedOK(J, v, w), ShownOK(p, ready, J, v, s),
           new.step = "sent",
           \/ J = {}
           \/ /\ p \in {"users", "symbols"} /\ new.kind = "delete"
              /\ \E k \in J : k.kind \in {"change", "touch"}
              /\ \A k \in J : k.kind # "delete",
           new.kind = "create" => a = {}, new.kind = "delete" => a = NoRow,
           new.kind = "change" => a = new.on, new.kind = "bulk" => a = new.on /\ v # NoRow
    PROVE  /\ OneAtATime(p, J \cup {new})
           /\ AskedOK(J \cup {new}, v, IF new.kind = "touch" THEN w ELSE a)
           /\ ShownOK(p, ready, J \cup {new}, v, s)
<1>1. \A k \in J : (k.kind \in {"change", "touch"} /\ J = {k}) \/ J = {}
  BY DEF OneAtATime
<1>2. OneAtATime(p, J \cup {new})
  <2>1. CASE J = {} BY <2>1 DEF OneAtATime
  <2>2. CASE J # {}
    <3>1. PICK k \in J : k.kind \in {"change", "touch"} /\ J = {k} BY <1>1, <2>2
    <3>2. p \in {"users", "symbols"} /\ new.kind = "delete" BY <2>2
    <3>3. QED BY <3>1, <3>2 DEF OneAtATime
  <2>3. QED BY <2>1, <2>2
<1>3. AskedOK(J \cup {new}, v, IF new.kind = "touch" THEN w ELSE a)
  <2>1. CASE new.kind = "touch"
    <3>1. J = {} BY <2>1
    <3>2. QED BY <2>1, <3>1 DEF AskedOK
  <2>2. CASE new.kind # "touch" /\ J = {}
    BY <2>2, JobTyped DEF AskedOK
  <2>3. CASE J # {}
    <3>1. PICK k \in J : k.kind \in {"change", "touch"} /\ J = {k} BY <1>1, <2>3
    <3>2. new.kind = "delete" /\ a = NoRow BY <2>3
    <3>3. QED BY <3>1, <3>2 DEF AskedOK
  <2>4. QED BY <2>1, <2>2, <2>3
<1>4. ShownOK(p, ready, J \cup {new}, v, s) BY DEF ShownOK
<1>5. QED BY <1>2, <1>3, <1>4

\* A command is served.
LEMMA ServeRow ==
    ASSUME NEW p, NEW ready, NEW J \in SUBSET Jobs, NEW j \in J, NEW done, NEW v \in Values \cup {NoRow}, NEW w, NEW s,
           OneAtATime(p, J), AskedOK(J, v, w), ShownOK(p, ready, J, v, s),
           j.step = "sent", done = [j EXCEPT !.step = "served"],
           j.kind = "create" => v = NoRow,
           j.kind \in {"change", "delete", "touch"} => v # NoRow,
           j.kind = "delete" => v.made = j.made /\ p \notin FormPages
    PROVE  /\ OneAtATime(p, (J \ {j}) \cup {done})
           /\ AskedOK((J \ {j}) \cup {done}, After(j, v), w)
           /\ ShownOK(p, ready, (J \ {j}) \cup {done}, After(j, v), s)
<1> DEFINE K == (J \ {j}) \cup {done}
<1> USE RowNumbers
<1>1. /\ done.n = j.n /\ done.kind = j.kind /\ done.rows = j.rows /\ done.on = j.on /\ done.made = j.made
      /\ done.step = "served"
      /\ j.kind \in {"create", "change", "delete", "bulk", "touch"} /\ j.on \in SUBSET Switches
  BY JobTyped DEF Jobs
<1>2. OneAtATime(p, K)
  <2>1. \A k \in K : k = done \/ k \in J \ {j} OBVIOUS
  <2>2. ASSUME NEW k \in J \ {j}
        PROVE  /\ p \in {"users", "symbols"}
               /\ \/ done.kind = "delete" /\ k.kind \in {"change", "touch"}
                  \/ k.kind = "delete" /\ done.kind \in {"change", "touch"}
    BY <1>1 DEF OneAtATime
  <2>3. QED BY <2>1, <2>2 DEF OneAtATime
<1>3. \A k \in J \ {j} : \/ j.kind = "delete" /\ k.kind \in {"change", "touch"}
                         \/ k.kind = "delete" /\ j.kind \in {"change", "touch"}
  BY DEF OneAtATime
<1>4. v # NoRow => v.made \in 0..MaxCommands /\ v.on \in SUBSET Switches BY DEF Values
<1>5. CASE j.kind = "create"
  <2>1. K = {done} BY <1>3, <1>5
  <2>2. After(j, v) = [made |-> j.n, on |-> {}] BY <1>5 DEF After
  <2>3. AskedOK(K, After(j, v), w)
    <3>1. After(j, v) \in Values BY <1>1, <2>2, JobTyped DEF Values
    <3>2. OnOf(After(j, v)) = {} BY <2>2, <3>1 DEF OnOf
    <3>3. w = {} BY <1>5 DEF AskedOK
    <3>4. QED BY <1>1, <1>5, <2>1, <3>2, <3>3 DEF AskedOK
  <2>4. ShownOK(p, ready, K, After(j, v), s) BY <1>1, <1>5, <2>1, <2>2 DEF ShownOK
  <2>5. QED BY <1>2, <2>3, <2>4
<1>6. CASE j.kind = "delete"
  <2>1. After(j, v) = NoRow BY <1>6 DEF After
  <2>2. w = NoRow BY <1>6 DEF AskedOK
  <2>3. AskedOK(K, NoRow, w) BY <1>1, <1>3, <1>6, <2>2 DEF AskedOK, OnOf
  <2>4. ready => s = v \/ (s # NoRow /\ s.made = v.made)
    <3>1. CASE \A k \in J : k.step = "served" => k.kind = "touch" BY <1>6, <3>1 DEF ShownOK
    <3>2. ASSUME NEW k \in J, k.step = "served", k.kind # "touch", ready
          PROVE  s # NoRow /\ s.made = v.made
      <4>1. k.kind = "change" BY <1>3, <1>6, <3>2
      <4>2. QED BY <1>6, <3>2, <4>1 DEF ShownOK
    <3>3. QED BY <3>1, <3>2
  <2>5. QED
    <3>1. ASSUME NEW k \in K, k.step = "served"
          PROVE  /\ k.kind # "create"
                 /\ k.kind = "delete" => k = done
                 /\ k.kind = "bulk" => FALSE
      BY <1>1, <1>3, <1>6, <3>1
    <3>2. ShownOK(p, ready, K, NoRow, s)
      BY <1>1, <1>3, <1>6, <2>4, <3>1 DEF ShownOK
    <3>3. QED BY <1>2, <2>1, <2>3, <3>2
<1>7. CASE j.kind = "touch"
  <2>1. After(j, v) = v BY <1>7 DEF After
  <2>2. AskedOK(K, v, w) BY <1>1, <1>7 DEF AskedOK
  <2>3. ShownOK(p, ready, K, v, s) BY <1>1, <1>7 DEF ShownOK
  <2>4. QED BY <1>2, <2>1, <2>2, <2>3
<1>8. CASE j.kind \in {"change", "bulk"}
  <2>1. v # NoRow BY <1>8 DEF AskedOK
  <2>2. PICK x : x = [v EXCEPT !.on = j.on] OBVIOUS
  <2>3. After(j, v) = x BY <1>8, <2>1, <2>2 DEF After
  <2>4. x \in Values /\ x.made = v.made /\ x.on = j.on /\ x # NoRow BY <1>1, <2>1, <2>2 DEF Values
  <2>5. \A k \in J \ {j} : k.kind = "delete" /\ k.step = "sent"
    BY <1>3, <1>8, <2>1, JobTyped DEF AskedOK
  <2>6. AskedOK(K, x, w)
    <3>1. CASE J = {j}
      <4>1. w = j.on BY <1>8, <2>1, <3>1 DEF AskedOK
      <4>2. QED BY <1>1, <1>8, <2>4, <3>1, <4>1 DEF AskedOK, OnOf
    <3>2. ASSUME NEW k \in J \ {j} PROVE AskedOK(K, x, w)
      <4>1. w = NoRow BY <2>5 DEF AskedOK
      <4>2. QED BY <1>1, <1>8, <2>5, <4>1 DEF AskedOK
    <3>3. QED BY <3>1, <3>2
  <2>7. ShownOK(p, ready, K, x, s)
    <3>1. \A k \in J : k.step = "sent" BY <2>5
    <3>2. ready /\ p \notin FormPages => s = v BY <3>1 DEF ShownOK
    <3>3. QED BY <1>1, <1>8, <2>1, <2>4, <2>5, <3>2 DEF ShownOK
  <2>8. QED BY <1>2, <2>3, <2>6, <2>7
<1>9. QED BY <1>1, <1>5, <1>6, <1>7, <1>8

\* An answer is taken.
LEMMA TakeRow ==
    ASSUME NEW p, NEW ready, NEW J \in SUBSET Jobs, NEW j \in J,
           NEW v \in Values \cup {NoRow}, NEW w, NEW s \in Values \cup {NoRow},
           OneAtATime(p, J), AskedOK(J, v, w), ShownOK(p, ready, J, v, s),
           j.step = "served", p # "profile"
    PROVE  /\ OneAtATime(p, J \ {j})
           /\ AskedOK(J \ {j}, v, w)
           /\ ShownOK(p, ready, J \ {j}, v, Taken(p, j, s))
<1> USE RowNumbers
<1>1. j.kind \in {"create", "change", "delete", "bulk", "touch"} /\ j.on \in SUBSET Switches BY JobTyped
<1>2. \A k \in J \ {j} : \/ j.kind = "delete" /\ k.kind \in {"change", "touch"}
                         \/ k.kind = "delete" /\ j.kind \in {"change", "touch"}
  BY DEF OneAtATime
<1>3. OneAtATime(p, J \ {j}) BY DEF OneAtATime
<1>4. AskedOK(J \ {j}, v, w)
  <2>1. (\A k \in J \ {j} : k.step = "sent" => k.kind = "touch")
            => (\A k \in J : k.step = "sent" => k.kind = "touch")
    OBVIOUS
  <2>2. ASSUME NEW k \in J \ {j}, k.step = "sent", k.kind = "change"
        PROVE  w = k.on \/ (w = NoRow /\ v = NoRow)
    <3>1. CASE j.kind = "delete" BY <3>1 DEF AskedOK
    <3>2. CASE j.kind # "delete" BY <1>2, <2>2, <3>2
    <3>3. QED BY <3>1, <3>2
  <2>3. QED BY <2>1, <2>2 DEF AskedOK
<1>5. ShownOK(p, ready, J \ {j}, v, Taken(p, j, s))
  <2>1. CASE j.kind = "create"
    <3>1. J \ {j} = {} BY <1>2, <2>1
    <3>2. v = [made |-> j.n, on |-> {}] BY <2>1 DEF ShownOK
    <3>3. Taken(p, j, s) = v BY <2>1, <3>2 DEF Taken
    <3>4. QED BY <3>1, <3>3 DEF ShownOK
  <2>2. CASE j.kind = "delete"
    <3>1. v = NoRow BY <2>2 DEF AskedOK
    <3>2. ready => Taken(p, j, s) = NoRow BY <2>2 DEF Taken, ShownOK
    <3>3. \A k \in J \ {j} : k.kind \in {"change", "touch"} BY <1>2, <2>2
    <3>4. QED BY <3>1, <3>2, <3>3 DEF ShownOK
  <2>3. CASE j.kind = "touch"
    <3>1. Taken(p, j, s) = s BY <2>3 DEF Taken
    <3>2. (\A k \in J \ {j} : k.step = "served" => k.kind = "touch")
              => (\A k \in J : k.step = "served" => k.kind = "touch")
      BY <2>3
    <3>3. QED BY <2>3, <3>1, <3>2 DEF ShownOK
  <2>4. CASE j.kind \in {"change", "bulk"}
    <3>1. PICK x : x = Taken(p, j, s) OBVIOUS
    <3>2. s = NoRow => x = NoRow BY <2>4, <3>1 DEF Taken
    <3>3. s # NoRow => x \in Values /\ x.made = s.made /\ x.on = j.on
      BY <1>1, <2>4, <3>1 DEF Taken, Values
    <3>4. \A k \in J \ {j} : k.kind = "delete" BY <1>2, <2>4
    <3>5. ShownOK(p, ready, J \ {j}, v, x)
      <4>1. ASSUME p \notin FormPages, ready, \A k \in J \ {j} : k.step = "served" => k.kind = "touch"
            PROVE  x = v
        <5>1. \A k \in J \ {j} : k.step # "served" BY <3>4, <4>1
        <5>2. CASE v = NoRow
          <6>1. s = NoRow BY <2>4, <4>1, <5>1, <5>2 DEF ShownOK
          <6>2. QED BY <3>2, <5>2, <6>1
        <5>3. CASE v # NoRow
          <6>1. s # NoRow /\ s.made = v.made /\ v.on = j.on BY <2>4, <4>1, <5>3 DEF ShownOK
          <6>2. QED BY <3>3, <5>3, <6>1, ValueIs
        <5>4. QED BY <5>2, <5>3
      <4>2. ASSUME NEW k \in J \ {j}, k.step = "served", ready
            PROVE  p = "star" \/ x = NoRow \/ x.made = k.made
        BY <3>2, <3>3, <3>4, <4>2 DEF ShownOK
      <4>3. QED BY <3>4, <4>1, <4>2 DEF ShownOK
    <3>6. QED BY <3>1, <3>5
  <2>5. QED BY <1>1, <2>1, <2>2, <2>3, <2>4
<1>6. QED BY <1>3, <1>4, <1>5

\* The profile keeps what the form shows; its one command needs no answer for it.
LEMMA TakeProfile ==
    ASSUME NEW ready, NEW J \in SUBSET Jobs, NEW j \in J, NEW v, NEW w, NEW s,
           OneAtATime("profile", J), AskedOK(J, v, w), ShownOK("profile", ready, J, v, s), j.step = "served"
    PROVE  /\ OneAtATime("profile", J \ {j})
           /\ AskedOK(J \ {j}, v, w)
           /\ ShownOK("profile", ready, J \ {j}, v, s)
<1>1. J = {j} BY DEF OneAtATime
<1>2. QED BY <1>1 DEF OneAtATime, AskedOK, ShownOK, FormPages

\* A command fails that no server has seen, and no other is out for the row.
LEMMA FailRow ==
    ASSUME NEW p, NEW ready, NEW J \in SUBSET Jobs, NEW j \in J, NEW v, NEW w, NEW s,
           ShownOK(p, ready, J, v, s), j.step = "sent", J = {j}
    PROVE  /\ OneAtATime(p, J \ {j})
           /\ AskedOK(J \ {j}, v, OnOf(v))
           /\ ShownOK(p, ready, J \ {j}, v, s)
BY DEF OneAtATime, AskedOK, ShownOK

\* A load is answered with the value there is, or one an answer to come brings up to date.
LEMMA LoadTaken ==
    ASSUME NEW p, NEW ready, NEW J \in SUBSET Jobs, NEW v \in Values \cup {NoRow}, NEW w,
           NEW s, NEW new \in Values \cup {NoRow},
           OneAtATime(p, J), AskedOK(J, v, w), ShownOK(p, ready, J, v, s),
           \/ new = v
           \/ \E j \in J : /\ j.step = "served"
                           /\ \/ j.kind = "create"
                              \/ j.kind = "delete" /\ new # NoRow /\ new.made = j.made
                              \/ p \in FormPages /\ j.kind = "change" /\ v # NoRow
    PROVE  ShownOK(p, TRUE, J, v, new)
<1> USE RowNumbers
<1>1. CASE new = v
  <2>1. ASSUME NEW j \in J, j.step = "served", j.kind \in {"change", "bulk"}
        PROVE  \/ v = NoRow
               \/ v # NoRow /\ v.on = j.on
    BY <2>1 DEF ShownOK
  <2>2. ASSUME NEW j \in J, j.step = "served", j.kind = "delete" PROVE v = NoRow
    BY <2>2 DEF AskedOK
  <2>3. QED BY <1>1, <2>1, <2>2 DEF ShownOK
<1>2. ASSUME NEW j \in J, j.step = "served", j.kind = "create" PROVE ShownOK(p, TRUE, J, v, new)
  <2>1. J = {j} BY <1>2 DEF OneAtATime
  <2>2. QED BY <1>2, <2>1 DEF ShownOK
<1>3. ASSUME NEW j \in J, j.step = "served", j.kind = "delete", new # NoRow, new.made = j.made
      PROVE  ShownOK(p, TRUE, J, v, new)
  <2>1. v = NoRow BY <1>3 DEF AskedOK
  <2>2. \A k \in J \ {j} : k.kind \in {"change", "touch"} BY <1>3 DEF OneAtATime
  <2>3. QED BY <1>3, <2>1, <2>2 DEF ShownOK
<1>4. ASSUME NEW j \in J, j.step = "served", j.kind = "change", v # NoRow, p \in FormPages
      PROVE  ShownOK(p, TRUE, J, v, new)
  <2>1. J = {j} BY <1>4 DEF OneAtATime, FormPages
  <2>2. QED BY <1>4, <2>1 DEF ShownOK
<1>5. QED BY <1>1, <1>2, <1>3, <1>4

-----------------------------------------------------------------------------
(* A command is sent.                                                      *)

Kinds == {"create", "change", "delete", "bulk", "touch"}

LEMMA JobsOnTyped ==
    ASSUME RowTypeOK, NEW r
    PROVE  JobsOn(r) \in SUBSET Jobs /\ \A j \in JobsOn(r) : j \in jobs /\ r \in j.rows
BY DEF RowTypeOK, JobsOn

\* A row nothing happens to.
LEMMA RowStays ==
    ASSUME NEW r, RowOK(r), page' = page, loaded' = loaded, JobsOn(r)' = JobsOn(r),
           Stored'[r] = Stored[r], wish'[r] = wish[r], shown'[r] = shown[r]
    PROVE  RowOK(r)'
BY DEF RowOK

\* A notification that is gone is not shown: nobody deletes one from the page.
LEMMA InboxRow ==
    ASSUME RowsInv, page = "inbox", loaded, NEW r \in Rows \ excused, Stored[r] = NoRow
    PROVE  shown[r] = NoRow
<1>1. \A j \in JobsOn(r) : j.kind \in {"change", "bulk"}
  BY DEF JobsOn, RowsInv, JobsOK, JobOK
<1>2. ShownOK(page, loaded, JobsOn(r), Stored[r], shown[r]) BY DEF RowsInv, RowsOK, RowOK
<1>3. QED BY <1>1, <1>2 DEF ShownOK, FormPages

\* What a page sends, and what it asks for with a command of a kind.
MaySend(kind, rows, on) ==
    /\ page \in {"stocks", "star", "alerts"} => kind \in {"create", "delete"}
    /\ page = "users" => kind \in {"change", "touch", "delete"}
    /\ page = "inbox" => kind \in {"change", "bulk"} /\ on = {"first"}
    /\ kind # "bulk" => \E r \in Rows : rows = {r}
    /\ page \notin FormPages
    /\ page \notin ReloadPages /\ ~loaded => kind = "create"
    /\ page = "inbox" /\ kind = "change" =>
          loaded /\ \A r \in rows : shown[r] # NoRow /\ shown[r].on = {}
    /\ page = "inbox" /\ kind = "bulk" =>
          loaded /\ unread # 0 /\ \A r \in Rows \ rows : Stored[r] = NoRow

Asks(kind, r, on, asking) ==
    /\ kind = "create" => asking = {}
    /\ kind = "delete" => asking = NoRow
    /\ kind = "change" => asking = on
    /\ kind = "bulk" => asking = on /\ Stored[r] # NoRow

LEMMA SendKeeps ==
    ASSUME RowsInv, NEW kind \in Kinds, NEW rows \in SUBSET Rows, NEW on \in SUBSET Switches,
           NEW made \in 0..MaxCommands, NEW asking \in (SUBSET Switches) \cup {NoRow},
           Send(kind, rows, on, made, asking),
           MaySend(kind, rows, on),
           \A r \in rows : pending = r /\ kind # "bulk" /\ JobsOn(r) # {} =>
               page \in {"users", "symbols"} /\ kind = "delete" /\ ~Busy("delete"),
           \A r \in rows \ excused : JobsOn(r) = {} \/ kind = "delete" => Asks(kind, r, on, asking)
    PROVE  RowsInv'
<1> DEFINE new == [n |-> sent + 1, kind |-> kind, rows |-> rows, on |-> on, made |-> made, step |-> "sent"]
<1> USE RowNumbers
<1>1. /\ sent < MaxCommands /\ sent' = sent + 1 /\ jobs' = jobs \cup {new}
      /\ pending' = IF Slotted(kind) THEN CHOOSE r \in rows : TRUE ELSE pending
      /\ wish' = [r \in Rows |-> IF r \in rows /\ kind # "touch" THEN asking ELSE wish[r]]
      /\ excused' = excused \cup Overlap(rows, kind)
      /\ UNCHANGED <<page, loaded, loads, shown, unread, typed, asked, picked, asks, table>>
  BY DEF Send
<1>2. sent \in 0..MaxCommands /\ jobs \subseteq Jobs BY DEF RowsInv, RowTypeOK
<1>3. new \in Jobs /\ \A j \in jobs : j.n < new.n /\ j # new
  <2>1. sent + 1 \in 1..MaxCommands BY <1>1, <1>2
  <2>2. new \in Jobs BY <2>1 DEF Jobs, Kinds
  <2>3. \A j \in jobs : j.n <= sent /\ j.n \in Nat BY <1>2, JobTyped DEF RowsInv, JobsOK, JobOK
  <2>4. QED BY <1>2, <2>2, <2>3
<1>4. \A r \in Rows : JobsOn(r)' = IF r \in rows THEN JobsOn(r) \cup {new} ELSE JobsOn(r)
  BY <1>1 DEF JobsOn
<1>5. Stored' = Stored BY <1>1 DEF Stored
<1>6. Slotted(kind) => \E r \in Rows : rows = {r} /\ pending' = r
  <2>1. Slotted(kind) => kind # "bulk" BY DEF Slotted, MaySend
  <2>2. \A r \in Rows : rows = {r} => (CHOOSE q \in rows : TRUE) = r OBVIOUS
  <2>3. QED BY <1>1, <2>1, <2>2 DEF MaySend
<1>7. RowTypeOK'
  <2>1. wish' \in [Rows -> (SUBSET Switches) \cup {NoRow}]
    <3>1. wish \in [Rows -> (SUBSET Switches) \cup {NoRow}] BY DEF RowsInv, RowTypeOK
    <3>2. QED BY <1>1, <3>1
  <2>2. jobs' \subseteq Jobs /\ \A j, k \in jobs' : j.n = k.n => j = k
    <3>1. \A j \in jobs : j.n \in Nat BY <1>2, JobTyped
    <3>2. new.n \in Nat BY <1>2
    <3>3. QED BY <1>1, <1>2, <1>3, <3>1, <3>2 DEF RowsInv, RowTypeOK
  <2>3. excused' \subseteq Rows BY <1>1 DEF RowsInv, RowTypeOK, Overlap
  <2>4. pending' \in Rows \cup {NoRow} BY <1>1, <1>6 DEF RowsInv, RowTypeOK
  <2>5. sent' \in 0..MaxCommands BY <1>1, <1>2
  <2>6. QED BY <1>1, <2>1, <2>2, <2>3, <2>4, <2>5 DEF RowsInv, RowTypeOK
<1>8. JobsOK'
  <2>1. \A j \in jobs : JobOK(j)'
    <3>1. \A j \in jobs : JobOK(j) /\ j.n \in Nat BY <1>2, JobTyped DEF RowsInv, JobsOK
    <3>2. QED BY <1>1, <1>2, <3>1 DEF JobOK
  <2>2. ASSUME NEW j, j = new PROVE JobOK(j)'
    <3>1. j.n = sent + 1 /\ j.kind = kind /\ j.rows = rows /\ j.on = on BY <2>2
    <3>2. j.n <= sent' BY <1>1, <1>2, <3>1
    <3>3. page' = page BY <1>1
    <3>4. QED BY <3>1, <3>2, <3>3 DEF JobOK, MaySend
  <2>3. \A j \in jobs' : j \in jobs \/ j = new BY <1>1
  <2>4. QED BY <2>1, <2>2, <2>3 DEF JobsOK
<1>9. SlotOK'
  <2>1. CASE Slotted(kind)
    <3>1. PICK r \in Rows : rows = {r} /\ pending' = r BY <1>6, <2>1
    <3>2. Slotted(new.kind)' /\ new.rows = {pending'} /\ new \in jobs' BY <1>1, <2>1, <3>1 DEF Slotted
    <3>3. QED BY <3>2 DEF SlotOK
  <2>2. CASE ~Slotted(kind)
    <3>1. \A j \in jobs : Slotted(j.kind)' = Slotted(j.kind) BY <1>1 DEF Slotted
    <3>2. QED BY <1>1, <2>2, <3>1 DEF RowsInv, SlotOK
  <2>3. QED BY <2>1, <2>2
<1>10. RowLoadsOK' BY <1>1 DEF RowsInv, RowLoadsOK, FirstLoadOK, MaySend
<1>11. FormsOK' BY <1>1 DEF MaySend, FormsOK
<1>12. RowsOK'
  <2> SUFFICES ASSUME NEW r \in Rows \ excused' PROVE RowOK(r)' BY DEF RowsOK
  <2>1. r \notin excused /\ RowOK(r) BY <1>1 DEF RowsInv, RowsOK
  <2>2. CASE r \notin rows
    <3>1. JobsOn(r)' = JobsOn(r) BY <1>4, <2>2
    <3>2. wish'[r] = wish[r] BY <1>1, <2>2
    <3>3. QED BY <1>1, <1>5, <2>1, <3>1, <3>2, RowStays
  <2>3. CASE r \in rows
    <3>1. JobsOn(r) = {} \/ (kind # "bulk" /\ pending = r) BY <1>1, <2>3 DEF Overlap
    <3>2. JobsOn(r) # {} =>
              /\ page \in {"users", "symbols"} /\ kind = "delete"
              /\ \E k \in JobsOn(r) : k.kind \in {"change", "touch"}
              /\ \A k \in JobsOn(r) : k.kind # "delete"
      <4> SUFFICES ASSUME JobsOn(r) # {}
                   PROVE  /\ page \in {"users", "symbols"} /\ kind = "delete"
                          /\ \E k \in JobsOn(r) : k.kind \in {"change", "touch"}
                          /\ \A k \in JobsOn(r) : k.kind # "delete"
        OBVIOUS
      <4>1. pending = r /\ kind # "bulk" BY <3>1
      <4>2. page \in {"users", "symbols"} /\ kind = "delete" /\ ~Busy("delete") BY <2>3, <4>1
      <4>3. \A k \in JobsOn(r) : k.kind # "delete" BY <4>2 DEF Busy, JobsOn
      <4>4. pending # NoRow BY <4>1
      <4>5. PICK k \in jobs : Slotted(k.kind) /\ k.rows = {r} BY <4>1, <4>4 DEF RowsInv, SlotOK
      <4>6. k.kind \in {"change", "touch"} BY <4>2, <4>5 DEF Slotted
      <4>7. k \in JobsOn(r) BY <4>5 DEF JobsOn
      <4>8. QED BY <4>2, <4>3, <4>6, <4>7
    <3>3. Asks(kind, r, on, asking)
      <4>1. JobsOn(r) = {} \/ kind = "delete" BY <3>2
      <4>2. QED BY <2>1, <2>3, <4>1
    <3>4. JobsOn(r) \in SUBSET Jobs BY JobsOnTyped DEF RowsInv
    <3>5. wish'[r] = IF new.kind = "touch" THEN wish[r] ELSE asking BY <1>1, <2>3
    <3>6. new.step = "sent" /\ new.kind = kind /\ new.on = on OBVIOUS
    <3>7. PICK J, v, w, s : J = JobsOn(r) /\ v = Stored[r] /\ w = wish[r] /\ s = shown[r] OBVIOUS
    <3>8. OneAtATime(page, J) /\ AskedOK(J, v, w) /\ ShownOK(page, loaded, J, v, s)
      BY <2>1, <3>7 DEF RowOK
    <3>9. \/ J = {}
          \/ /\ page \in {"users", "symbols"} /\ new.kind = "delete"
             /\ \E k \in J : k.kind \in {"change", "touch"}
             /\ \A k \in J : k.kind # "delete"
      BY <3>2, <3>6, <3>7
    <3>10. /\ new.kind = "create" => asking = {}
           /\ new.kind = "delete" => asking = NoRow
           /\ new.kind = "change" => asking = new.on
           /\ new.kind = "bulk" => asking = new.on /\ v # NoRow
      BY <3>3, <3>6, <3>7 DEF Asks
    <3>11. /\ OneAtATime(page, J \cup {new})
           /\ AskedOK(J \cup {new}, v, IF new.kind = "touch" THEN w ELSE asking)
           /\ ShownOK(page, loaded, J \cup {new}, v, s)
      <4>1. J \in SUBSET Jobs BY <3>4, <3>7
      <4>2. PICK job : job = new OBVIOUS
      <4>3. QED BY <1>3, <3>6, <3>8, <3>9, <3>10, <4>1, <4>2, SendRow
    <3>12. JobsOn(r)' = J \cup {new} BY <1>4, <2>3, <3>7
    <3>13. QED BY <1>1, <1>5, <3>5, <3>7, <3>11, <3>12 DEF RowOK
  <2>4. QED BY <2>2, <2>3
<1>13. InboxOK'
  <2> SUFFICES ASSUME page = "inbox" PROVE InboxOK' BY <1>1 DEF InboxOK
  <2>1. kind \in {"change", "bulk"} /\ loaded BY DEF MaySend
  <2>2. ASSUME NEW j \in jobs', j.kind = "bulk" PROVE \A r \in Rows \ j.rows : Stored'[r] = NoRow
    <3>1. CASE j \in jobs
      <4>1. \A r \in Rows \ j.rows : Stored[r] = NoRow BY <2>2, <3>1 DEF RowsInv, InboxOK
      <4>2. QED BY <1>5, <4>1
    <3>2. CASE j = new
      <4>1. j.kind = kind /\ j.rows = rows BY <3>2
      <4>2. \A r \in Rows \ rows : Stored[r] = NoRow BY <2>2, <4>1 DEF MaySend
      <4>3. QED BY <1>5, <4>1, <4>2
    <3>3. QED BY <1>1, <3>1, <3>2
  <2>3. ASSUME excused' = {}
        PROVE  /\ unread' = Unread(shown)'
               /\ \A j \in jobs' : j.kind = "change" => \A r \in j.rows : shown'[r] # NoRow /\ shown'[r].on = {}
               /\ \A j \in jobs' : j.kind = "bulk" => jobs' = {j}
    <3>1. excused = {} /\ Overlap(rows, kind) = {} BY <1>1, <2>3
    <3>2. /\ unread = Unread(shown)
          /\ \A j \in jobs : j.kind = "change" => \A r \in j.rows : shown[r] # NoRow /\ shown[r].on = {}
          /\ \A j \in jobs : j.kind = "bulk" => jobs = {j}
      BY <2>1, <3>1 DEF RowsInv, InboxOK
    <3>3. unread' = Unread(shown)' BY <1>1, <3>2 DEF Unread
    <3>4. pending = NoRow BY DEF RowsInv, SlotOK, Slotted
    <3>5. \A r \in rows : JobsOn(r) = {} BY <3>1, <3>4 DEF Overlap
    <3>6. \A r \in Rows : RowOK(r) BY <3>1 DEF RowsInv, RowsOK
    <3>7. CASE kind = "change"
      <4>1. PICK r \in Rows : rows = {r} BY <3>7 DEF MaySend
      <4>2. shown[r] # NoRow /\ shown[r].on = {} BY <3>7, <4>1 DEF MaySend
      <4>3. JobsOn(r) = {} BY <3>5, <4>1
      <4>4. shown[r] = Stored[r] BY <2>1, <3>6, <4>3 DEF RowOK, ShownOK, FormPages
      <4>5. \A j \in jobs : j.kind # "bulk" BY <4>2, <4>3, <4>4 DEF RowsInv, InboxOK, JobsOn
      <4>6. QED BY <1>1, <3>2, <3>3, <3>7, <4>1, <4>2, <4>5
    <3>8. CASE kind = "bulk"
      <4>1. \A r \in Rows : shown[r] # NoRow => Stored[r] # NoRow BY <2>1, <3>1, InboxRow
      <4>2. \A r \in Rows : shown[r] # NoRow => r \in rows BY <3>8, <4>1 DEF MaySend
      <4>3. PICK r \in Rows : shown[r] # NoRow
        <5>1. ASSUME \A r \in Rows : shown[r] = NoRow PROVE FALSE
          <6>1. {r \in Rows : shown[r] # NoRow /\ shown[r].on = {}} = {} BY <5>1
          <6>2. Unread(shown) = 0 BY <6>1, FS_EmptySet DEF Unread
          <6>3. QED BY <3>2, <3>8, <6>2 DEF MaySend
        <5>2. QED BY <5>1
      <4>4. jobs = {}
        <5> SUFFICES ASSUME NEW j \in jobs PROVE FALSE OBVIOUS
        <5>1. CASE j.kind = "bulk"
          <6>1. Stored[r] # NoRow BY <4>1, <4>3
          <6>2. r \in j.rows BY <5>1, <6>1 DEF RowsInv, InboxOK
          <6>3. JobsOn(r) # {} BY <6>2 DEF JobsOn
          <6>4. QED BY <3>5, <4>2, <4>3, <6>3
        <5>2. CASE j.kind # "bulk"
          <6>1. j.kind = "change" BY <5>2 DEF RowsInv, JobsOK, JobOK
          <6>2. PICK q \in Rows : j.rows = {q} BY <5>2 DEF RowsInv, JobsOK, JobOK
          <6>3. shown[q] # NoRow BY <3>2, <6>1, <6>2
          <6>4. JobsOn(q) # {} BY <6>2 DEF JobsOn
          <6>5. QED BY <3>5, <4>2, <6>3, <6>4
        <5>3. QED BY <5>1, <5>2
      <4>5. QED BY <1>1, <3>3, <3>8, <4>4
    <3>9. QED BY <2>1, <3>7, <3>8
  <2>4. QED BY <1>1, <2>2, <2>3 DEF InboxOK
<1>14. QED BY <1>7, <1>8, <1>9, <1>10, <1>11, <1>12, <1>13 DEF RowsInv


\* The fields of a row shown.
LEMMA ShownFields ==
    ASSUME RowTypeOK, NEW r \in Rows, shown[r] # NoRow
    PROVE  shown[r] \in Values /\ shown[r].made \in 0..MaxCommands /\ shown[r].on \in SUBSET Switches
<1>1. shown[r] \in Values BY TablesTyped
<1>2. QED BY <1>1 DEF Values

\* The pages without a slot.
LEMMA NoSlot ==
    ASSUME SlotOK, page \notin {"stocks", "alerts", "users", "symbols"}
    PROVE  pending = NoRow
BY DEF SlotOK, Slotted

\* What is at rest is as the user asked, at the server and, once loaded, on the page.
LEMMA AtRest ==
    ASSUME RowsInv, NEW r \in Rows \ excused, JobsOn(r) = {}
    PROVE  OnOf(Stored[r]) = wish[r] /\ (loaded /\ page \notin FormPages => shown[r] = Stored[r])
BY DEF RowsInv, RowsOK, RowOK, AskedOK, ShownOK

LEMMA FlipTyped ==
    ASSUME NEW on \in SUBSET Switches, NEW s \in Switches
    PROVE  Flip(on, s) \in SUBSET Switches
BY DEF Flip

\* A row is added, by a form or by its star.
LEMMA SendCreateKeeps ==
    ASSUME RowsInv, NEW r \in Rows, Send("create", {r}, {}, 0, {}), MaySend("create", {r}, {}),
           pending # r \/ JobsOn(r) = {}
    PROVE  RowsInv'
<1>1. PICK rows \in SUBSET Rows, none \in SUBSET Switches, made \in 0..MaxCommands :
          rows = {r} /\ none = {} /\ made = 0
  BY RowNumbers
<1>2. Send("create", rows, none, made, none) /\ MaySend("create", rows, none) BY <1>1
<1>3. \A q \in rows : pending # q \/ JobsOn(q) = {} BY <1>1
<1>4. \A q \in rows \ excused : Asks("create", q, none, none) BY <1>1 DEF Asks
<1>5. "create" \in Kinds BY DEF Kinds
<1>6. QED BY <1>2, <1>3, <1>4, <1>5, SendKeeps

\* A row shown is deleted, by its button, its star or the dialog.
LEMMA SendDeleteKeeps ==
    ASSUME RowsInv, NEW r \in Rows, shown[r] # NoRow,
           Send("delete", {r}, {}, shown[r].made, NoRow), MaySend("delete", {r}, {}),
           pending = r /\ JobsOn(r) # {} => page \in {"users", "symbols"} /\ ~Busy("delete")
    PROVE  RowsInv'
<1>1. shown[r].made \in 0..MaxCommands BY ShownFields DEF RowsInv
<1>2. PICK rows \in SUBSET Rows, none \in SUBSET Switches, made \in 0..MaxCommands :
          rows = {r} /\ none = {} /\ made = shown[r].made
  BY <1>1
<1>3. Send("delete", rows, none, made, NoRow) /\ MaySend("delete", rows, none) BY <1>2
<1>4. \A q \in rows : pending = q /\ JobsOn(q) # {} => page \in {"users", "symbols"} /\ ~Busy("delete")
  BY <1>2
<1>5. \A q \in rows \ excused : Asks("delete", q, none, NoRow) BY DEF Asks
<1>6. "delete" \in Kinds BY DEF Kinds
<1>7. QED BY <1>3, <1>4, <1>5, <1>6, SendKeeps

LEMMA CreateKeeps == ASSUME RowsInv, Create PROVE RowsInv'
<1>1. /\ page \in {"alerts", "symbols"}
      /\ \E r \in Rows : JobsOn(r) = {} /\ Send("create", {r}, {}, 0, {})
  BY DEF Create, JobsOn
<1>2. ASSUME NEW r \in Rows, JobsOn(r) = {}, Send("create", {r}, {}, 0, {}) PROVE RowsInv'
  <2>1. MaySend("create", {r}, {}) BY <1>1 DEF MaySend, FormPages, ReloadPages
  <2>2. QED BY <1>2, <2>1, SendCreateKeeps
<1>3. QED BY <1>1, <1>2

LEMMA StarKeeps == ASSUME RowsInv, NEW r \in Rows, Star(r) PROVE RowsInv'
<1>1. page \in {"stocks", "star"} /\ (pending # r \/ JobsOn(r) = {})
  BY DEF Star, Free, JobsOn
<1>2. CASE shown[r] = NoRow
  <2>1. Send("create", {r}, {}, 0, {}) BY <1>2 DEF Star
  <2>2. MaySend("create", {r}, {}) BY <1>1 DEF MaySend, FormPages, ReloadPages
  <2>3. QED BY <1>1, <2>1, <2>2, SendCreateKeeps
<1>3. CASE shown[r] # NoRow
  <2>1. Send("delete", {r}, {}, shown[r].made, NoRow) BY <1>3 DEF Star
  <2>2. MaySend("delete", {r}, {}) BY <1>1 DEF MaySend, FormPages, ReloadPages
  <2>3. QED BY <1>1, <1>3, <2>1, <2>2, SendDeleteKeeps
<1>4. QED BY <1>2, <1>3

\* The switch is turned in the row as shown, which is the row as asked for when it is at rest.
LEMMA TurnKeeps == ASSUME RowsInv, NEW r \in Rows, NEW s \in Switches, Turn(r, s) PROVE RowsInv'
<1> DEFINE asking == IF wish[r] = NoRow THEN NoRow ELSE Flip(wish[r], s)
<1>1. /\ page \in {"users", "symbols"} /\ loaded /\ pending # r /\ shown[r] # NoRow
      /\ Send("change", {r}, Flip(shown[r].on, s), shown[r].made, asking)
  BY DEF Turn, Free
<1>2. shown[r] \in Values /\ shown[r].made \in 0..MaxCommands /\ shown[r].on \in SUBSET Switches
  BY <1>1, ShownFields DEF RowsInv
<1>3. Flip(shown[r].on, s) \in SUBSET Switches BY <1>2, FlipTyped
<1>4. asking \in (SUBSET Switches) \cup {NoRow}
  <2>1. wish[r] \in (SUBSET Switches) \cup {NoRow} BY DEF RowsInv, RowTypeOK
  <2>2. QED BY <2>1, FlipTyped
<1>5. MaySend("change", {r}, Flip(shown[r].on, s)) BY <1>1 DEF MaySend, FormPages, ReloadPages
<1>6. ASSUME r \notin excused, JobsOn(r) = {} PROVE asking = Flip(shown[r].on, s)
  <2>1. OnOf(shown[r]) = wish[r] BY <1>1, <1>6, AtRest DEF FormPages
  <2>2. wish[r] = shown[r].on /\ wish[r] # NoRow BY <1>1, <1>2, <2>1, RowNumbers DEF OnOf
  <2>3. QED BY <2>2
<1>7. \A q \in {r} \ excused : JobsOn(q) = {} \/ "change" = "delete" => Asks("change", q, Flip(shown[r].on, s), asking)
  BY <1>6 DEF Asks
<1>8. "change" \in Kinds /\ {r} \in SUBSET Rows BY DEF Kinds
<1>9. \A q \in {r} : pending # q BY <1>1
<1>10. PICK on, w, made : on = Flip(shown[r].on, s) /\ w = asking /\ made = shown[r].made OBVIOUS
<1>11. Send("change", {r}, on, made, w) /\ MaySend("change", {r}, on) BY <1>1, <1>5, <1>10
<1>12. \A q \in {r} \ excused : JobsOn(q) = {} \/ "change" = "delete" => Asks("change", q, on, w)
  BY <1>7, <1>10
<1>13. on \in SUBSET Switches /\ w \in (SUBSET Switches) \cup {NoRow} /\ made \in 0..MaxCommands
  BY <1>2, <1>3, <1>4, <1>10
<1> HIDE DEF asking
<1>14. QED BY <1>8, <1>9, <1>11, <1>12, <1>13, SendKeeps

LEMMA RevokeKeeps == ASSUME RowsInv, NEW r \in Rows, Revoke(r) PROVE RowsInv'
<1>1. page = "users" /\ loaded /\ pending # r /\ Send("touch", {r}, {}, 0, NoRow) BY DEF Revoke, Free
<1>2. MaySend("touch", {r}, {}) BY <1>1 DEF MaySend, FormPages, ReloadPages
<1>3. "touch" \in Kinds /\ {r} \in SUBSET Rows /\ {} \in SUBSET Switches /\ 0 \in 0..MaxCommands
  BY RowNumbers DEF Kinds
<1>4. \A q : Asks("touch", q, {}, NoRow) BY DEF Asks
<1>5. PICK rows \in SUBSET Rows, none \in SUBSET Switches, made \in 0..MaxCommands :
          rows = {r} /\ none = {} /\ made = 0
  BY <1>3
<1>6. Send("touch", rows, none, made, NoRow) /\ MaySend("touch", rows, none) BY <1>1, <1>2, <1>5
<1>7. \A q \in rows : pending # q BY <1>1, <1>5
<1>8. \A q \in rows \ excused : Asks("touch", q, none, NoRow) BY <1>4, <1>5
<1>9. QED BY <1>3, <1>6, <1>7, <1>8, SendKeeps

LEMMA OpenKeeps == ASSUME RowsInv, NEW r \in Rows, Open(r) PROVE RowsInv'
<1>1. /\ page = "inbox" /\ loaded /\ shown[r] # NoRow /\ shown[r].on = {}
      /\ Send("change", {r}, {"first"}, shown[r].made, {"first"})
  BY DEF Open
<1>2. pending = NoRow BY <1>1, NoSlot DEF RowsInv
<1>3. \A q \in {r} : pending # q BY <1>2, RowNumbers
<1>4. MaySend("change", {r}, {"first"}) BY <1>1 DEF MaySend, FormPages, ReloadPages
<1>5. shown[r].made \in 0..MaxCommands BY <1>1, ShownFields DEF RowsInv
<1>6. "change" \in Kinds /\ {r} \in SUBSET Rows /\ {"first"} \in SUBSET Switches BY DEF Kinds, Switches
<1>7. \A q : Asks("change", q, {"first"}, {"first"}) BY DEF Asks
<1>8. PICK rows \in SUBSET Rows, on \in SUBSET Switches, made \in 0..MaxCommands :
          rows = {r} /\ on = {"first"} /\ made = shown[r].made
  BY <1>5, <1>6
<1>9. Send("change", rows, on, made, on) /\ MaySend("change", rows, on) BY <1>1, <1>4, <1>8
<1>10. \A q \in rows : pending # q BY <1>3, <1>8
<1>11. \A q \in rows \ excused : Asks("change", q, on, on) BY <1>7, <1>8
<1>12. QED BY <1>6, <1>9, <1>10, <1>11, SendKeeps

LEMMA MarkAllReadKeeps == ASSUME RowsInv, MarkAllRead PROVE RowsInv'
<1>1. page = "inbox" /\ unread # 0 /\ Send("bulk", {r \in Rows : Stored[r] # NoRow}, {"first"}, 0, {"first"})
  BY DEF MarkAllRead
<1>2. PICK rows \in SUBSET Rows : rows = {r \in Rows : Stored[r] # NoRow} OBVIOUS
<1>3. Send("bulk", rows, {"first"}, 0, {"first"}) BY <1>1, <1>2
<1>4. loaded BY <1>1 DEF RowsInv, RowLoadsOK, FirstLoadOK, ReloadPages
<1>5. MaySend("bulk", rows, {"first"}) BY <1>1, <1>2, <1>4 DEF MaySend, FormPages, ReloadPages
<1>6. "bulk" \in Kinds /\ {"first"} \in SUBSET Switches /\ 0 \in 0..MaxCommands
  BY RowNumbers DEF Kinds, Switches
<1>7. \A q \in rows : Asks("bulk", q, {"first"}, {"first"}) BY <1>2 DEF Asks
<1>8. QED BY <1>3, <1>5, <1>6, <1>7, SendKeeps

LEMMA ActivatePickedKeeps == ASSUME RowsInv, ActivatePicked PROVE RowsInv'
<1>1. page = "symbols" /\ picked # {} /\ Send("bulk", {r \in picked : Stored[r] # NoRow}, {"first"}, 0, {"first"})
  BY DEF ActivatePicked
<1>2. picked \subseteq Rows BY DEF RowsInv, RowTypeOK
<1>3. PICK rows \in SUBSET Rows : rows = {r \in picked : Stored[r] # NoRow} BY <1>2
<1>4. Send("bulk", rows, {"first"}, 0, {"first"}) BY <1>1, <1>3
<1>5. loaded BY <1>1 DEF RowsInv, RowLoadsOK, FirstLoadOK, ReloadPages
<1>6. MaySend("bulk", rows, {"first"}) BY <1>1, <1>5 DEF MaySend, FormPages, ReloadPages
<1>7. "bulk" \in Kinds /\ {"first"} \in SUBSET Switches /\ 0 \in 0..MaxCommands
  BY RowNumbers DEF Kinds, Switches
<1>8. \A q \in rows : Asks("bulk", q, {"first"}, {"first"}) BY <1>3 DEF Asks
<1>9. QED BY <1>4, <1>6, <1>7, <1>8, SendKeeps

LEMMA DeleteKeeps == ASSUME RowsInv, NEW r \in Rows, Delete(r) PROVE RowsInv'
<1>1. /\ page = "alerts" /\ loaded /\ pending # r /\ shown[r] # NoRow
      /\ Send("delete", {r}, {}, shown[r].made, NoRow)
  BY DEF Delete, Free
<1>2. MaySend("delete", {r}, {}) BY <1>1 DEF MaySend, FormPages, ReloadPages
<1>3. QED BY <1>1, <1>2, SendDeleteKeeps

\* The dialog does not ask whether the row is busy, but only one deletion is out.
LEMMA ConfirmDeleteKeeps == ASSUME RowsInv, ConfirmDelete PROVE RowsInv'
<1>1. /\ asked # NoRow /\ ~Busy("delete") /\ shown[asked] # NoRow
      /\ Send("delete", {asked}, {}, shown[asked].made, NoRow)
  BY DEF ConfirmDelete
<1>2. PICK r \in Rows : r = asked BY <1>1 DEF RowsInv, RowTypeOK
<1>3. page \in {"users", "symbols"} BY <1>1 DEF RowsInv, RowLoadsOK
<1>4. loaded BY <1>1, <1>3 DEF RowsInv, RowLoadsOK, FirstLoadOK, ReloadPages
<1>5. Send("delete", {r}, {}, shown[r].made, NoRow) /\ shown[r] # NoRow BY <1>1, <1>2
<1>6. MaySend("delete", {r}, {}) BY <1>3, <1>4 DEF MaySend, FormPages, ReloadPages
<1>7. QED BY <1>1, <1>3, <1>5, <1>6, SendDeleteKeeps

LEMMA SaveKeeps == ASSUME RowsInv, Save PROVE RowsInv'
<1> DEFINE new == [n |-> sent + 1, kind |-> "change", rows |-> {1}, on |-> shown[1].on, made |-> 0, step |-> "sent"]
<1> USE RowNumbers
<1>1. /\ page \in FormPages /\ (page = "averages" => jobs = {}) /\ (page = "profile" => loaded)
      /\ sent < MaxCommands /\ sent' = sent + 1 /\ jobs' = jobs \cup {new}
      /\ typed' = FALSE /\ wish' = [wish EXCEPT ![1] = shown[1].on]
      /\ excused' = excused \cup Overlap({1}, "change")
      /\ UNCHANGED <<page, loaded, loads, shown, unread, pending, asked, picked, asks, table>>
  BY DEF Save, FormPages
<1>2. sent \in 0..MaxCommands /\ jobs \subseteq Jobs /\ wish \in [Rows -> (SUBSET Switches) \cup {NoRow}]
  BY DEF RowsInv, RowTypeOK
<1>3. shown[1] # NoRow /\ shown[1].on \in SUBSET Switches
  <2>1. shown[1] # NoRow BY <1>1 DEF RowsInv, FormsOK
  <2>2. QED BY <2>1, ShownFields DEF RowsInv
<1>4. new \in Jobs /\ \A j \in jobs : j.n < new.n /\ j # new
  <2>1. sent + 1 \in 1..MaxCommands BY <1>1, <1>2
  <2>2. new \in Jobs BY <1>3, <2>1 DEF Jobs
  <2>3. \A j \in jobs : j.n <= sent /\ j.n \in Nat BY <1>2, JobTyped DEF RowsInv, JobsOK, JobOK
  <2>4. QED BY <1>2, <2>2, <2>3
<1>5. JobsOn(1)' = JobsOn(1) \cup {new} /\ \A r \in Rows \ {1} : JobsOn(r)' = JobsOn(r)
  BY <1>1 DEF JobsOn
<1>6. Stored' = Stored BY <1>1 DEF Stored
<1>7. pending = NoRow BY <1>1, NoSlot DEF RowsInv, FormPages
<1>8. 1 \notin excused' => 1 \notin excused /\ JobsOn(1) = {} BY <1>1, <1>7 DEF Overlap
<1>9. RowTypeOK'
  <2>1. jobs' \subseteq Jobs /\ \A j, k \in jobs' : j.n = k.n => j = k
    <3>1. PICK job : job = new OBVIOUS
    <3>2. job.n = sent + 1 /\ job.n \in Nat BY <1>2, <3>1
    <3>3. jobs' = jobs \cup {job} /\ job \in Jobs BY <1>1, <1>4, <3>1
    <3>4. \A j \in jobs : j.n \in Nat /\ j.n <= sent BY <1>2, JobTyped DEF RowsInv, JobsOK, JobOK
    <3>5. \A j, k \in jobs : j.n = k.n => j = k BY DEF RowsInv, RowTypeOK
    <3>6. \A j \in jobs : j.n # job.n BY <1>2, <3>2, <3>4
    <3>7. QED BY <1>2, <3>3, <3>5, <3>6
  <2>2. wish' \in [Rows -> (SUBSET Switches) \cup {NoRow}] BY <1>1, <1>2, <1>3
  <2>3. excused' \subseteq Rows BY <1>1 DEF RowsInv, RowTypeOK, Overlap
  <2>4. sent' \in 0..MaxCommands BY <1>1, <1>2
  <2>5. QED BY <1>1, <2>1, <2>2, <2>3, <2>4 DEF RowsInv, RowTypeOK
<1>10. JobsOK'
  <2>1. \A j \in jobs : JobOK(j)'
    <3>1. \A j \in jobs : JobOK(j) /\ j.n \in Nat BY <1>2, JobTyped DEF RowsInv, JobsOK
    <3>2. QED BY <1>1, <1>2, <3>1 DEF JobOK
  <2>2. ASSUME NEW j, j = new PROVE JobOK(j)'
    <3>1. j.n = sent + 1 /\ j.kind = "change" /\ j.rows = {1} BY <2>2
    <3>2. j.n <= sent' BY <1>1, <1>2, <3>1
    <3>3. QED BY <1>1, <3>1, <3>2 DEF JobOK, FormPages
  <2>3. \A j \in jobs' : j \in jobs \/ j = new BY <1>1
  <2>4. QED BY <2>1, <2>2, <2>3 DEF JobsOK
<1>11. SlotOK' BY <1>1, <1>7 DEF SlotOK
<1>12. RowLoadsOK' BY <1>1 DEF RowsInv, RowLoadsOK, FirstLoadOK, FormPages, ReloadPages
<1>13. FormsOK'
  <2>1. 1 \notin excused' => JobsOn(1)' = {new} BY <1>5, <1>8
  <2>2. new.on = shown[1].on OBVIOUS
  <2>3. 1 \notin excused' =>
            /\ loaded' /\ JobsOn(1)' = {} => shown'[1] = Stored'[1]
            /\ \A j \in JobsOn(1)' : shown'[1].on = j.on
    BY <1>1, <2>1, <2>2
  <2>4. /\ shown[1] # NoRow /\ shown[1].made = 0
        /\ \A i \in DOMAIN table : table[i][1] # NoRow /\ table[i][1].made = 0
        /\ \A r \in Rows \ {1} : shown[r] = NoRow /\ \A i \in DOMAIN table : table[i][r] = NoRow
    BY <1>1 DEF RowsInv, FormsOK
  <2>5. QED BY <1>1, <2>3, <2>4 DEF FormsOK
<1>14. InboxOK' BY <1>1 DEF InboxOK, FormPages
<1>15. RowsOK'
  <2> SUFFICES ASSUME NEW r \in Rows \ excused' PROVE RowOK(r)' BY DEF RowsOK
  <2>1. r \notin excused /\ RowOK(r) BY <1>1 DEF RowsInv, RowsOK
  <2>2. CASE r # 1
    <3>1. wish'[r] = wish[r] BY <1>1, <1>2, <2>2
    <3>2. QED BY <1>1, <1>5, <1>6, <2>1, <2>2, <3>1, RowStays
  <2>3. CASE r = 1
    <3>1. PICK v, w, s, a, job : /\ v = Stored[1] /\ w = wish[1] /\ s = shown[1] /\ a = shown[1].on
                                 /\ job = new
      OBVIOUS
    <3>2. JobsOn(1) = {} BY <1>8, <2>3
    <3>3. OneAtATime(page, {}) /\ AskedOK({}, v, w) /\ ShownOK(page, loaded, {}, v, s)
      BY <2>1, <2>3, <3>1, <3>2 DEF RowOK
    <3>4. job \in Jobs /\ job.kind = "change" /\ job.step = "sent" /\ job.on = a BY <1>4, <3>1
    <3>5. /\ OneAtATime(page, {} \cup {job}) /\ AskedOK({} \cup {job}, v, a)
          /\ ShownOK(page, loaded, {} \cup {job}, v, s)
      BY <3>3, <3>4, SendRow
    <3>6. JobsOn(1)' = {job} /\ wish'[1] = a BY <1>1, <1>2, <1>5, <3>1, <3>2
    <3>7. QED BY <1>1, <1>6, <2>3, <3>1, <3>5, <3>6 DEF RowOK
  <2>4. QED BY <2>2, <2>3
<1>16. QED BY <1>9, <1>10, <1>11, <1>12, <1>13, <1>14, <1>15 DEF RowsInv

-----------------------------------------------------------------------------
(* The other clicks.                                                       *)

\* Steps that leave the commands and the rows alone.
LEMMA SameRows ==
    ASSUME RowsInv, UNCHANGED <<page, loaded, shown, unread, typed, pending, jobs, sent, table, wish, excused>>
    PROVE  JobsOK' /\ SlotOK' /\ FormsOK' /\ InboxOK' /\ RowsOK'
<1>1. Stored' = Stored BY DEF Stored
<1>2. \A r : JobsOn(r)' = JobsOn(r) BY DEF JobsOn
<1>3. JobsOK' BY DEF RowsInv, JobsOK, JobOK
<1>4. SlotOK' BY DEF RowsInv, SlotOK, Slotted
<1>5. FormsOK' BY <1>1, <1>2 DEF RowsInv, FormsOK
<1>6. InboxOK' BY <1>1 DEF RowsInv, InboxOK, Unread
<1>7. RowsOK' BY <1>1, <1>2 DEF RowsInv, RowsOK, RowOK
<1>8. QED BY <1>3, <1>4, <1>5, <1>6, <1>7

LEMMA PickKeeps == ASSUME RowsInv, NEW r \in Rows, Pick(r) PROVE RowsInv'
<1>1. JobsOK' /\ SlotOK' /\ FormsOK' /\ InboxOK' /\ RowsOK' BY SameRows DEF Pick
<1>2. RowTypeOK' BY DEF RowsInv, RowTypeOK, Pick
<1>3. RowLoadsOK' BY DEF RowsInv, RowLoadsOK, FirstLoadOK, Pick
<1>4. QED BY <1>1, <1>2, <1>3 DEF RowsInv

LEMMA AskDeleteKeeps == ASSUME RowsInv, NEW r \in Rows, AskDelete(r) PROVE RowsInv'
<1>1. JobsOK' /\ SlotOK' /\ FormsOK' /\ InboxOK' /\ RowsOK' BY SameRows DEF AskDelete
<1>2. RowTypeOK' BY DEF RowsInv, RowTypeOK, AskDelete
<1>3. RowLoadsOK' BY DEF RowsInv, RowLoadsOK, FirstLoadOK, AskDelete
<1>4. QED BY <1>1, <1>2, <1>3 DEF RowsInv

LEMMA DismissDeleteKeeps == ASSUME RowsInv, DismissDelete PROVE RowsInv'
<1>1. JobsOK' /\ SlotOK' /\ FormsOK' /\ InboxOK' /\ RowsOK' BY SameRows DEF DismissDelete
<1>2. RowTypeOK' BY DEF RowsInv, RowTypeOK, DismissDelete
<1>3. RowLoadsOK' BY DEF RowsInv, RowLoadsOK, FirstLoadOK, DismissDelete
<1>4. QED BY <1>1, <1>2, <1>3 DEF RowsInv

\* On a form page, what the row must be does not depend on what the form shows of it.
LEMMA FormRow ==
    ASSUME RowsInv, page \in FormPages, NEW r \in Rows,
           NEW ready \in {loaded, TRUE}, NEW s, NEW t, ShownOK(page, loaded, JobsOn(r), Stored[r], s)
    PROVE  ShownOK(page, ready, JobsOn(r), Stored[r], t)
<1>1. \A j \in JobsOn(r) : j.kind = "change" /\ r = 1 BY DEF RowsInv, JobsOK, JobOK, JobsOn
<1>2. JobsOn(r) # {} => Stored[r] # NoRow
  <2>1. Len(table) \in DOMAIN table BY TablesTyped DEF RowsInv
  <2>2. QED BY <1>1, <2>1 DEF RowsInv, FormsOK, Stored
<1>3. QED BY <1>1, <1>2 DEF ShownOK

LEMMA TypeKeeps == ASSUME RowsInv, NEW s \in Switches, Type(s) PROVE RowsInv'
<1> USE RowNumbers
<1>1. /\ page \in FormPages /\ typed' = TRUE /\ shown' = [shown EXCEPT ![1].on = Flip(@, s)]
      /\ UNCHANGED <<page, loaded, unread, pending, asked, picked, loads, jobs, sent, asks, table, wish, excused>>
  BY DEF Type, FormPages
<1>2. shown[1] # NoRow /\ shown[1].made = 0 BY <1>1 DEF RowsInv, FormsOK
<1>3. shown[1] \in Values /\ shown[1].on \in SUBSET Switches BY <1>2, ShownFields DEF RowsInv
<1>4. shown \in [Rows -> Values \cup {NoRow}] BY DEF RowsInv, RowTypeOK, Tables
<1>5. /\ shown'[1] \in Values /\ shown'[1] # NoRow /\ shown'[1].made = 0
      /\ \A r \in Rows \ {1} : shown'[r] = shown[r]
      /\ shown' \in [Rows -> Values \cup {NoRow}]
  <2>1. Flip(shown[1].on, s) \in SUBSET Switches BY <1>3, FlipTyped
  <2>2. PICK x : x = [shown[1] EXCEPT !.on = Flip(shown[1].on, s)] OBVIOUS
  <2>3. x \in Values /\ x # NoRow /\ x.made = shown[1].made BY <1>3, <2>1, <2>2 DEF Values
  <2>4. shown' = [shown EXCEPT ![1] = x] BY <1>1, <2>2
  <2>5. QED BY <1>2, <1>4, <2>3, <2>4
<1>6. Stored' = Stored BY <1>1 DEF Stored
<1>7. \A r : JobsOn(r)' = JobsOn(r) BY <1>1 DEF JobsOn
<1>8. RowTypeOK' BY <1>1, <1>5 DEF RowsInv, RowTypeOK, Tables
<1>9. JobsOK' BY <1>1 DEF RowsInv, JobsOK, JobOK
<1>10. SlotOK' BY <1>1 DEF RowsInv, SlotOK, Slotted
<1>11. RowLoadsOK' BY <1>1 DEF RowsInv, RowLoadsOK, FirstLoadOK, FormPages
<1>12. FormsOK' BY <1>1, <1>5 DEF RowsInv, FormsOK
<1>13. InboxOK' BY <1>1 DEF InboxOK, FormPages
<1>14. RowsOK'
  <2> SUFFICES ASSUME NEW r \in Rows \ excused' PROVE RowOK(r)' BY DEF RowsOK
  <2>1. RowOK(r) BY <1>1 DEF RowsInv, RowsOK
  <2>2. ShownOK(page, loaded, JobsOn(r), Stored[r], shown'[r])
    <3>1. PICK x : x = shown'[r] OBVIOUS
    <3>2. ShownOK(page, loaded, JobsOn(r), Stored[r], x) BY <1>1, <2>1, FormRow DEF RowOK
    <3>3. QED BY <3>1, <3>2
  <2>3. QED BY <1>1, <1>6, <1>7, <2>1, <2>2 DEF RowOK
<1>15. QED BY <1>8, <1>9, <1>10, <1>11, <1>12, <1>13, <1>14 DEF RowsInv

LEMMA SessionRefreshedKeeps == ASSUME RowsInv, SessionRefreshed PROVE RowsInv'
<1> DEFINE new == [n |-> asks + 1, since |-> Len(table)]
<1>1. /\ page \in ReloadPages /\ asks <= MaxReloads /\ asks' = asks + 1
      /\ loads' \subseteq loads \cup {new}
      /\ UNCHANGED <<page, loaded, shown, unread, typed, pending, asked, picked, jobs, sent, table, wish, excused>>
  BY DEF SessionRefreshed, ReloadPages, mine
<1>2. JobsOK' /\ SlotOK' /\ FormsOK' /\ InboxOK' /\ RowsOK' BY <1>1, SameRows
<1>3. Len(table) \in Nat \ {0} BY TablesTyped DEF RowsInv
<1>4. asks + 1 \in 1..(MaxReloads + 1) BY <1>1, RowNumbers DEF RowsInv, RowTypeOK
<1>5. RowTypeOK'
  <2>1. new \in [n : 1..(MaxReloads + 1), since : Nat \ {0}] BY <1>3, <1>4
  <2>2. loads' \subseteq [n : 1..(MaxReloads + 1), since : Nat \ {0}] BY <1>1, <2>1 DEF RowsInv, RowTypeOK
  <2>3. QED BY <1>1, <1>4, <2>2 DEF RowsInv, RowTypeOK
<1>6. RowLoadsOK'
  <2>1. \A l \in loads : l.since <= Len(table) BY DEF RowsInv, RowLoadsOK
  <2>2. new.since <= Len(table) BY <1>3
  <2>3. \A l \in loads' : l.since <= Len(table)' BY <1>1, <2>1, <2>2
  <2>4. QED BY <1>1, <2>3 DEF RowsInv, RowLoadsOK, FirstLoadOK
<1>7. QED BY <1>2, <1>5, <1>6 DEF RowsInv

-----------------------------------------------------------------------------
(* The server serves a command.                                            *)

LEMMA AfterTyped ==
    ASSUME NEW j \in Jobs, NEW v \in Values \cup {NoRow}
    PROVE  After(j, v) \in Values \cup {NoRow}
<1>1. j.n \in 0..MaxCommands /\ j.on \in SUBSET Switches BY JobTyped, RowNumbers
<1>2. [made |-> j.n, on |-> {}] \in Values BY <1>1 DEF Values
<1>3. v # NoRow => [v EXCEPT !.on = j.on] \in Values BY <1>1 DEF Values
<1>4. QED BY <1>2, <1>3 DEF After

\* What becomes of the tables.
LEMMA ServeTables ==
    ASSUME RowTypeOK, NEW j \in jobs, Serve(j)
    PROVE  /\ table' \in Seq(Tables) \ {<<>>}
           /\ Len(table) <= Len(table') /\ Len(table') \in Nat \ {0}
           /\ \A i \in 1..Len(table') : (i \in 1..Len(table) /\ table'[i] = table[i]) \/ table'[i] = Stored'
           /\ DOMAIN table = 1..Len(table) /\ DOMAIN table' = 1..Len(table')
           /\ \A r \in Rows : Stored'[r] = IF r \in j.rows THEN After(j, Stored[r]) ELSE Stored[r]
<1>1. j \in Jobs BY DEF RowTypeOK
<1>2. Stored \in Tables /\ \A r \in Rows : Stored[r] \in Values \cup {NoRow} BY TablesTyped
<1>3. PICK T : T = Tables OBVIOUS
<1>4. table \in Seq(T) /\ table # <<>> /\ Stored = table[Len(table)] BY <1>3 DEF RowTypeOK, Stored
<1>5. CASE j.kind = "touch"
  <2>1. table' = table /\ Stored' = Stored BY <1>5 DEF Serve, Stored
  <2>2. \A r : After(j, Stored[r]) = Stored[r] BY <1>5 DEF After
  <2>3. QED BY <1>3, <1>4, <2>1, <2>2
<1>6. CASE j.kind # "touch"
  <2>1. PICK t : t = [r \in Rows |-> IF r \in j.rows THEN Served(j, r) ELSE Stored[r]] OBVIOUS
  <2>2. table' = Append(table, t) BY <1>6, <2>1 DEF Serve
  <2>3. \A r \in Rows : Served(j, r) = After(j, Stored[r]) BY <1>1, <1>6, JobTyped DEF Served, After
  <2>4. \A r \in Rows : t[r] = IF r \in j.rows THEN After(j, Stored[r]) ELSE Stored[r] BY <2>1, <2>3
  <2>5. \A r \in Rows : t[r] \in Values \cup {NoRow} BY <1>1, <1>2, <2>4, AfterTyped
  <2>6. t \in T BY <1>3, <2>1, <2>5 DEF Tables
  <2>7. /\ table' \in Seq(T) /\ Len(table') = Len(table) + 1 /\ table'[Len(table) + 1] = t
        /\ \A i \in 1..Len(table) : table'[i] = table[i]
    BY <1>4, <2>2, <2>6
  <2>8. Stored' = t BY <2>7 DEF Stored
  <2>9. QED BY <1>3, <1>4, <2>4, <2>7, <2>8
<1>7. QED BY <1>5, <1>6

LEMMA ServeKeeps == ASSUME RowsInv, NEW j \in jobs, Serve(j) PROVE RowsInv'
<1> USE RowNumbers
<1>1. PICK done : done = [j EXCEPT !.step = "served"] OBVIOUS
<1>2. /\ j.step = "sent" /\ jobs' = (jobs \ {j}) \cup {done}
      /\ UNCHANGED <<page, loaded, shown, unread, typed, pending, asked, picked, loads, sent, asks, wish, excused>>
  BY <1>1 DEF Serve, mine
<1>3. j \in Jobs /\ JobOK(j) BY DEF RowsInv, RowTypeOK, JobsOK
<1>4. /\ done \in Jobs /\ done.n = j.n /\ done.kind = j.kind /\ done.rows = j.rows /\ done.on = j.on
      /\ done.made = j.made /\ done.step = "served"
  BY <1>1, <1>3 DEF Jobs
<1>5. /\ table' \in Seq(Tables) \ {<<>>}
      /\ Len(table) <= Len(table') /\ Len(table') \in Nat \ {0}
      /\ \A i \in 1..Len(table') : (i \in 1..Len(table) /\ table'[i] = table[i]) \/ table'[i] = Stored'
      /\ DOMAIN table = 1..Len(table) /\ DOMAIN table' = 1..Len(table')
      /\ \A r \in Rows : Stored'[r] = IF r \in j.rows THEN After(j, Stored[r]) ELSE Stored[r]
  BY ServeTables DEF RowsInv
<1>6. \A r \in Rows : JobsOn(r)' = IF r \in j.rows THEN (JobsOn(r) \ {j}) \cup {done} ELSE JobsOn(r)
  BY <1>2, <1>4 DEF JobsOn
<1>7. /\ j.kind = "create" => \A r \in j.rows : Stored[r] = NoRow
      /\ j.kind \in {"change", "delete", "touch"} =>
            \A r \in j.rows : Stored[r] # NoRow /\ (j.kind = "delete" => Stored[r].made = j.made)
  BY DEF Serve, Accepted
<1>8. Len(table) \in Nat \ {0} /\ \A r \in Rows : Stored[r] \in Values \cup {NoRow} BY TablesTyped DEF RowsInv
<1>9. RowTypeOK'
  <2>1. jobs' \subseteq Jobs BY <1>2, <1>4 DEF RowsInv, RowTypeOK
  <2>2. \A k, l \in jobs' : k.n = l.n => k = l
    <3>1. \A k, l \in jobs : k.n = l.n => k = l BY DEF RowsInv, RowTypeOK
    <3>2. QED BY <1>2, <1>4, <3>1
  <2>3. QED BY <1>2, <1>5, <2>1, <2>2 DEF RowsInv, RowTypeOK
<1>10. JobsOK'
  <2>1. ASSUME NEW k \in jobs PROVE JobOK(k)' BY <1>2 DEF RowsInv, JobsOK, JobOK
  <2>2. JobOK(done)' BY <1>2, <1>3, <1>4 DEF JobOK
  <2>3. QED BY <1>2, <2>1, <2>2 DEF JobsOK
<1>11. SlotOK'
  <2> SUFFICES ASSUME pending # NoRow PROVE \E k \in jobs' : Slotted(k.kind)' /\ k.rows = {pending}
    BY <1>2 DEF SlotOK
  <2>1. PICK k \in jobs : Slotted(k.kind) /\ k.rows = {pending} BY DEF RowsInv, SlotOK
  <2>2. CASE k = j
    <3>1. done \in jobs' /\ Slotted(done.kind)' /\ done.rows = {pending} BY <1>2, <1>4, <2>1, <2>2 DEF Slotted
    <3>2. QED BY <3>1
  <2>3. CASE k # j
    <3>1. k \in jobs' /\ Slotted(k.kind)' BY <1>2, <2>1, <2>3 DEF Slotted
    <3>2. QED BY <2>1, <3>1
  <2>4. QED BY <2>2, <2>3
<1>12. RowLoadsOK'
  <2>1. \A l \in loads' : l.since <= Len(table)'
    <3>1. \A l \in loads : l.since <= Len(table) /\ l.since \in Nat BY DEF RowsInv, RowLoadsOK, RowTypeOK
    <3>2. QED BY <1>2, <1>5, <1>8, <3>1
  <2>2. FirstLoadOK' BY <1>2, <1>4 DEF RowsInv, RowLoadsOK, FirstLoadOK
  <2>3. QED BY <1>2, <2>1, <2>2 DEF RowsInv, RowLoadsOK
<1>13. FormsOK'
  <2> SUFFICES ASSUME page \in FormPages PROVE FormsOK' BY <1>2 DEF FormsOK
  <2>1. j.kind = "change" /\ j.rows = {1} BY <1>3 DEF JobOK
  <2>2. /\ shown[1] # NoRow /\ shown[1].made = 0
        /\ \A i \in DOMAIN table : table[i][1] # NoRow /\ table[i][1].made = 0
        /\ \A r \in Rows \ {1} : shown[r] = NoRow /\ \A i \in DOMAIN table : table[i][r] = NoRow
        /\ 1 \notin excused /\ ~typed => (page = "profile" => \A k \in JobsOn(1) : shown[1].on = k.on)
    BY DEF RowsInv, FormsOK
  <2>3. Stored[1] # NoRow /\ Stored[1].made = 0 /\ \A r \in Rows \ {1} : Stored[r] = NoRow
    BY <1>5, <1>8, <2>2 DEF Stored
  <2>4. Stored'[1] # NoRow /\ Stored'[1].made = 0
    <3>1. PICK x : x = After(j, Stored[1]) OBVIOUS
    <3>2. x = [Stored[1] EXCEPT !.on = j.on] BY <2>1, <2>3, <3>1 DEF After
    <3>3. Stored[1] \in Values /\ j.on \in SUBSET Switches BY <1>3, <1>8, <2>3, JobTyped
    <3>4. x \in Values /\ x.made = 0 BY <2>3, <3>2, <3>3 DEF Values
    <3>5. QED BY <1>5, <2>1, <3>1, <3>4
  <2>5. \A r \in Rows \ {1} : Stored'[r] = NoRow BY <1>5, <2>1, <2>3
  <2>6. \A i \in DOMAIN table' : table'[i][1] # NoRow /\ table'[i][1].made = 0
    BY <1>5, <2>2, <2>4
  <2>7. \A r \in Rows \ {1} : \A i \in DOMAIN table' : table'[i][r] = NoRow
    BY <1>5, <2>2, <2>5
  <2>8. JobsOn(1)' = (JobsOn(1) \ {j}) \cup {done} /\ j \in JobsOn(1) BY <1>6, <2>1 DEF JobsOn
  <2>9. 1 \notin excused' /\ ~typed' =>
            /\ loaded' /\ JobsOn(1)' = {} => shown'[1] = Stored'[1]
            /\ page' = "profile" => \A k \in JobsOn(1)' : shown'[1].on = k.on
    BY <1>2, <1>4, <2>2, <2>8
  <2>10. QED BY <1>2, <2>2, <2>6, <2>7, <2>9 DEF FormsOK
<1>14. InboxOK'
  <2> SUFFICES ASSUME page = "inbox" PROVE InboxOK' BY <1>2 DEF InboxOK
  <2>1. \A k \in jobs : k.kind = "bulk" => \A r \in Rows \ k.rows : Stored[r] = NoRow
    BY DEF RowsInv, InboxOK
  <2>2. \A r \in Rows : Stored[r] = NoRow => Stored'[r] = NoRow
    <3>1. j.kind \in {"change", "bulk"} BY <1>3 DEF JobOK
    <3>2. After(j, NoRow) = NoRow BY <3>1 DEF After
    <3>3. QED BY <1>5, <3>2
  <2>3. \A k \in jobs' : k.kind = "bulk" => \A r \in Rows \ k.rows : Stored'[r] = NoRow
    BY <1>2, <1>4, <2>1, <2>2
  <2>4. loaded' /\ excused' = {} =>
            /\ unread' = Unread(shown)'
            /\ \A k \in jobs' : k.kind = "change" => \A r \in k.rows : shown'[r] # NoRow /\ shown'[r].on = {}
            /\ \A k \in jobs' : k.kind = "bulk" => jobs' = {k}
    <3> SUFFICES ASSUME loaded, excused = {}
                 PROVE  /\ unread' = Unread(shown)'
                        /\ \A k \in jobs' : k.kind = "change" => \A r \in k.rows : shown'[r] # NoRow /\ shown'[r].on = {}
                        /\ \A k \in jobs' : k.kind = "bulk" => jobs' = {k}
      BY <1>2
    <3>1. /\ unread = Unread(shown)
          /\ \A k \in jobs : k.kind = "change" => \A r \in k.rows : shown[r] # NoRow /\ shown[r].on = {}
          /\ \A k \in jobs : k.kind = "bulk" => jobs = {k}
      BY DEF RowsInv, InboxOK
    <3>2. unread' = Unread(shown)' BY <1>2, <3>1 DEF Unread
    <3>3. QED BY <1>2, <1>4, <3>1, <3>2
  <2>5. QED BY <1>2, <2>3, <2>4 DEF InboxOK
<1>15. RowsOK'
  <2> SUFFICES ASSUME NEW r \in Rows \ excused PROVE RowOK(r)' BY <1>2 DEF RowsOK
  <2>1. RowOK(r) BY DEF RowsInv, RowsOK
  <2>2. CASE r \notin j.rows BY <1>2, <1>5, <1>6, <2>1, <2>2, RowStays
  <2>3. CASE r \in j.rows
    <3>1. PICK J, v, w, s : J = JobsOn(r) /\ v = Stored[r] /\ w = wish[r] /\ s = shown[r] OBVIOUS
    <3>2. J \in SUBSET Jobs /\ j \in J BY <2>3, <3>1, JobsOnTyped DEF RowsInv, JobsOn
    <3>3. v \in Values \cup {NoRow} BY <1>8, <3>1
    <3>4. OneAtATime(page, J) /\ AskedOK(J, v, w) /\ ShownOK(page, loaded, J, v, s) BY <2>1, <3>1 DEF RowOK
    <3>5. /\ j.kind = "create" => v = NoRow
          /\ j.kind \in {"change", "delete", "touch"} => v # NoRow
          /\ j.kind = "delete" => v.made = j.made /\ page \notin FormPages
      BY <1>3, <1>7, <2>3, <3>1 DEF JobOK
    <3>6. /\ OneAtATime(page, (J \ {j}) \cup {done})
          /\ AskedOK((J \ {j}) \cup {done}, After(j, v), w)
          /\ ShownOK(page, loaded, (J \ {j}) \cup {done}, After(j, v), s)
      BY <1>1, <1>2, <3>2, <3>3, <3>4, <3>5, ServeRow
    <3>7. JobsOn(r)' = (J \ {j}) \cup {done} /\ Stored'[r] = After(j, v) BY <1>5, <1>6, <2>3, <3>1
    <3>8. QED BY <1>2, <3>1, <3>6, <3>7 DEF RowOK
  <2>4. QED BY <2>2, <2>3
<1>16. QED BY <1>9, <1>10, <1>11, <1>12, <1>13, <1>14, <1>15 DEF RowsInv

-----------------------------------------------------------------------------
(* A command is answered, or fails.                                        *)

LEMMA TakenTyped ==
    ASSUME NEW p, NEW j \in Jobs, NEW s \in Values \cup {NoRow}
    PROVE  Taken(p, j, s) \in Values \cup {NoRow}
<1>1. j.n \in 0..MaxCommands /\ j.on \in SUBSET Switches BY JobTyped, RowNumbers
<1>2. [made |-> j.n, on |-> {}] \in Values BY <1>1 DEF Values
<1>3. s # NoRow => [s EXCEPT !.on = j.on] \in Values BY <1>1 DEF Values
<1>4. QED BY <1>2, <1>3 DEF Taken

LEMMA JobGone ==
    ASSUME RowsInv, NEW j \in jobs, jobs' = jobs \ {j}, pending' = Released(j), page' = page, sent' = sent
    PROVE  /\ jobs' \subseteq Jobs /\ \A k, l \in jobs' : k.n = l.n => k = l
           /\ pending' \in Rows \cup {NoRow}
           /\ JobsOK' /\ SlotOK'
           /\ \A r : JobsOn(r)' = JobsOn(r) \ {j}
           /\ \A r : r \notin j.rows => JobsOn(r)' = JobsOn(r)
<1>1. jobs' \subseteq Jobs /\ \A k, l \in jobs' : k.n = l.n => k = l BY DEF RowsInv, RowTypeOK
<1>2. pending' \in Rows \cup {NoRow} BY DEF RowsInv, RowTypeOK, Released
<1>3. JobsOK' BY DEF RowsInv, JobsOK, JobOK
<1>4. SlotOK'
  <2> SUFFICES ASSUME pending' # NoRow PROVE \E k \in jobs' : Slotted(k.kind)' /\ k.rows = {pending'}
    BY DEF SlotOK
  <2>1. ~Slotted(j.kind) /\ pending' = pending BY DEF Released
  <2>2. PICK k \in jobs : Slotted(k.kind) /\ k.rows = {pending} BY <2>1 DEF RowsInv, SlotOK
  <2>3. k \in jobs' /\ Slotted(k.kind)' BY <2>1, <2>2 DEF Slotted
  <2>4. QED BY <2>1, <2>2, <2>3
<1>5. \A r : JobsOn(r)' = JobsOn(r) \ {j} BY DEF JobsOn
<1>6. \A r : r \notin j.rows => JobsOn(r)' = JobsOn(r) BY DEF JobsOn
<1>7. QED BY <1>1, <1>2, <1>3, <1>4, <1>5, <1>6

\* One notification that was not read is read.
LEMMA OneRead ==
    ASSUME NEW t, NEW u, NEW q \in Rows, t[q] # NoRow, t[q].on = {}, u[q] # NoRow, u[q].on # {},
           \A r \in Rows \ {q} : u[r] = t[r]
    PROVE  Unread(u) = OneLess(Unread(t))
<1>1. PICK S : S = {r \in Rows : t[r] # NoRow /\ t[r].on = {}} OBVIOUS
<1>2. {r \in Rows : u[r] # NoRow /\ u[r].on = {}} = S \ {q} BY <1>1
<1>3. S \in SUBSET Rows /\ q \in S BY <1>1
<1>4. IsFiniteSet(S) BY <1>3, CountTyped
<1>5. Cardinality(S \ {q}) = Cardinality(S) - 1 BY <1>3, <1>4, FS_RemoveElement
<1>6. Cardinality(S) \in Nat /\ Cardinality(S \ {q}) \in Nat
  <2>1. S \ {q} \in SUBSET Rows BY <1>3
  <2>2. QED BY <1>3, <2>1, CountTyped
<1>7. Unread(t) = Cardinality(S) /\ Unread(u) = Cardinality(S \ {q}) BY <1>1, <1>2 DEF Unread
<1>8. QED BY <1>5, <1>6, <1>7 DEF OneLess

LEMMA AnswerArrivesKeeps == ASSUME RowsInv, NEW j \in jobs, AnswerArrives(j) PROVE RowsInv'
<1> USE RowNumbers
<1>1. /\ j.step = "served" /\ jobs' = jobs \ {j} /\ pending' = Released(j)
      /\ typed' = (typed /\ page # "averages")
      /\ unread' = CASE page # "inbox" -> unread
                     [] j.kind = "bulk" -> 0
                     [] OTHER -> OneLess(unread)
      /\ asked' = (IF j.kind = "delete" THEN NoRow ELSE asked)
      /\ picked' = (IF page = "symbols" /\ j.kind = "bulk" THEN {} ELSE picked)
      /\ excused \subseteq excused' /\ excused' \subseteq excused \cup j.rows
      /\ j.kind # "create" => excused' = excused
      /\ UNCHANGED <<page, loaded, loads, sent, asks, table, wish>>
  BY DEF AnswerArrives
<1>2. j \in Jobs /\ JobOK(j) BY DEF RowsInv, RowTypeOK, JobsOK
<1>3. /\ shown' \in Tables
      /\ \A r \in Rows : shown'[r] = IF r \in j.rows \/ (page = "inbox" /\ j.kind = "bulk")
                                     THEN Taken(page, j, shown[r]) ELSE shown[r]
  <2>1. \A r : Answered(j, r) = Taken(page, j, shown[r]) BY DEF Answered, Taken
  <2>2. shown' = [r \in Rows |-> IF r \in j.rows \/ (page = "inbox" /\ j.kind = "bulk")
                                 THEN Taken(page, j, shown[r]) ELSE shown[r]]
    BY <2>1 DEF AnswerArrives
  <2>3. \A r \in Rows : shown[r] \in Values \cup {NoRow} BY TablesTyped DEF RowsInv
  <2>4. \A r \in Rows : Taken(page, j, shown[r]) \in Values \cup {NoRow} BY <1>2, <2>3, TakenTyped
  <2>5. QED BY <2>2, <2>3, <2>4 DEF Tables
<1>4. /\ jobs' \subseteq Jobs /\ \A k, l \in jobs' : k.n = l.n => k = l
      /\ pending' \in Rows \cup {NoRow}
      /\ JobsOK' /\ SlotOK'
      /\ \A r : JobsOn(r)' = JobsOn(r) \ {j}
      /\ \A r : r \notin j.rows => JobsOn(r)' = JobsOn(r)
  BY <1>1, JobGone
<1>5. Stored' = Stored BY <1>1 DEF Stored
<1>6. j.rows \in SUBSET Rows /\ j.on \in SUBSET Switches BY <1>2, JobTyped
<1>7. \A r \in Rows : Stored[r] \in Values \cup {NoRow} /\ shown[r] \in Values \cup {NoRow}
  BY TablesTyped DEF RowsInv
<1>8. RowTypeOK'
  <2>1. unread' \in 0..Cardinality(Rows)
    <3>1. unread \in 0..Cardinality(Rows) /\ Cardinality(Rows) \in Nat BY CountTyped DEF RowsInv, RowTypeOK
    <3>2. QED BY <1>1, <3>1 DEF OneLess
  <2>2. excused' \subseteq Rows BY <1>1, <1>6 DEF RowsInv, RowTypeOK
  <2>3. typed' \in BOOLEAN /\ asked' \in Rows \cup {NoRow} /\ picked' \subseteq Rows
    BY <1>1 DEF RowsInv, RowTypeOK
  <2>4. QED BY <1>1, <1>3, <1>4, <2>1, <2>2, <2>3 DEF RowsInv, RowTypeOK
<1>9. RowLoadsOK'
  <2>1. FirstLoadOK'
    <3>1. FirstLoadOK BY DEF RowsInv, RowLoadsOK
    <3>2. page = "inbox" => j.kind # "create" BY <1>2 DEF JobOK
    <3>3. page = "inbox" => loaded BY <3>1, <3>2 DEF FirstLoadOK, ReloadPages
    <3>4. QED BY <1>1, <3>1, <3>2, <3>3 DEF FirstLoadOK
  <2>2. QED BY <1>1, <2>1 DEF RowsInv, RowLoadsOK
<1>10. FormsOK'
  <2> SUFFICES ASSUME page \in FormPages PROVE FormsOK' BY <1>1 DEF FormsOK
  <2>1. j.kind = "change" /\ j.rows = {1} /\ excused' = excused BY <1>1, <1>2 DEF JobOK
  <2>2. /\ shown[1] # NoRow /\ shown[1].made = 0
        /\ \A i \in DOMAIN table : table[i][1] # NoRow /\ table[i][1].made = 0
        /\ \A r \in Rows \ {1} : shown[r] = NoRow /\ \A i \in DOMAIN table : table[i][r] = NoRow
        /\ 1 \notin excused /\ ~typed => (page = "profile" => \A k \in JobsOn(1) : shown[1].on = k.on)
    BY DEF RowsInv, FormsOK
  <2>3. Stored[1] # NoRow /\ Stored[1].made = 0
    <3>1. Len(table) \in DOMAIN table BY TablesTyped DEF RowsInv
    <3>2. QED BY <2>2, <3>1 DEF Stored
  <2>4. \A r \in Rows \ {1} : shown'[r] = NoRow BY <1>3, <2>1, <2>2 DEF FormPages
  <2>5. j \in JobsOn(1) BY <2>1 DEF JobsOn
  <2>6. 1 \notin excused => Stored[1].on = j.on
    BY <1>1, <2>1, <2>3, <2>5 DEF RowsInv, RowsOK, RowOK, ShownOK
  <2>7. PICK x : x = Taken(page, j, shown[1]) OBVIOUS
  <2>8. shown'[1] = x BY <1>3, <2>1, <2>7
  <2>9. CASE page = "averages"
    <3>1. x = [shown[1] EXCEPT !.on = j.on] BY <2>1, <2>2, <2>7, <2>9 DEF Taken
    <3>2. x \in Values /\ x.made = 0 /\ x.on = j.on BY <1>6, <1>7, <2>2, <3>1 DEF Values
    <3>3. 1 \notin excused => x = Stored[1] BY <1>7, <2>3, <2>6, <3>2, ValueIs
    <3>4. QED BY <1>1, <1>5, <2>1, <2>2, <2>4, <2>8, <2>9, <3>2, <3>3 DEF FormsOK
  <2>10. CASE page = "profile"
    <3>1. x = shown[1] BY <2>1, <2>7, <2>10 DEF Taken
    <3>2. typed' = typed BY <1>1, <2>10 DEF RowsInv, RowTypeOK
    <3>3. 1 \notin excused /\ ~typed => shown[1].on = j.on BY <2>2, <2>5, <2>10
    <3>4. 1 \notin excused /\ ~typed => shown[1] = Stored[1] BY <1>7, <2>2, <2>3, <2>6, <3>3, ValueIs
    <3>5. JobsOn(1)' \subseteq JobsOn(1) BY <1>4
    <3>6. QED BY <1>1, <1>5, <2>1, <2>2, <2>4, <2>8, <2>10, <3>1, <3>2, <3>4, <3>5 DEF FormsOK
  <2>11. QED BY <2>9, <2>10 DEF FormPages
<1>11. InboxOK'
  <2> SUFFICES ASSUME page = "inbox" PROVE InboxOK' BY <1>1 DEF InboxOK
  <2>1. \A k \in jobs' : k.kind = "bulk" => \A r \in Rows \ k.rows : Stored'[r] = NoRow
    BY <1>1, <1>5 DEF RowsInv, InboxOK
  <2>2. ASSUME loaded', excused' = {}
        PROVE  /\ unread' = Unread(shown)'
               /\ \A k \in jobs' : k.kind = "change" => \A r \in k.rows : shown'[r] # NoRow /\ shown'[r].on = {}
               /\ \A k \in jobs' : k.kind = "bulk" => jobs' = {k}
    <3>1. /\ unread = Unread(shown)
          /\ \A k \in jobs : k.kind = "change" => \A r \in k.rows : shown[r] # NoRow /\ shown[r].on = {}
          /\ \A k \in jobs : k.kind = "bulk" => jobs = {k}
          /\ excused = {}
      BY <1>1, <2>2 DEF RowsInv, InboxOK
    <3>2. j.kind \in {"change", "bulk"} /\ j.on = {"first"} BY <1>2 DEF JobOK
    <3>3. \A r \in Rows : shown[r] = NoRow => Taken(page, j, shown[r]) = NoRow BY <3>2 DEF Taken
    <3>4. ASSUME NEW r \in Rows, shown[r] # NoRow
          PROVE  Taken(page, j, shown[r]) # NoRow /\ Taken(page, j, shown[r]).on = {"first"}
      <4>1. PICK x : x = Taken(page, j, shown[r]) OBVIOUS
      <4>2. x = [shown[r] EXCEPT !.on = j.on] BY <3>2, <3>4, <4>1 DEF Taken
      <4>3. x \in Values /\ x.on = j.on BY <1>6, <1>7, <3>4, <4>2 DEF Values
      <4>4. QED BY <3>2, <4>1, <4>3
    <3>5. CASE j.kind = "bulk"
      <4>1. ASSUME NEW r \in Rows PROVE ~(shown'[r] # NoRow /\ shown'[r].on = {})
        <5>1. PICK x : x = shown'[r] OBVIOUS
        <5>2. x = Taken(page, j, shown[r]) BY <1>3, <3>5, <5>1
        <5>3. x = NoRow \/ x.on = {"first"} BY <3>3, <3>4, <5>2
        <5>4. QED BY <5>1, <5>3
      <4>2. Unread(shown)' = 0
        <5>1. {r \in Rows : shown'[r] # NoRow /\ shown'[r].on = {}} = {} BY <4>1
        <5>2. QED BY <5>1, FS_EmptySet DEF Unread
      <4>3. jobs' = {} BY <1>1, <3>1, <3>5
      <4>4. QED BY <1>1, <3>5, <4>2, <4>3
    <3>6. CASE j.kind = "change"
      <4>1. PICK q \in Rows : j.rows = {q} BY <1>2, <3>6 DEF JobOK
      <4>2. shown[q] # NoRow /\ shown[q].on = {} BY <3>1, <3>6, <4>1
      <4>3. shown'[q] # NoRow /\ shown'[q].on = {"first"} BY <1>3, <3>4, <4>1, <4>2
      <4>4. \A r \in Rows \ {q} : shown'[r] = shown[r] BY <1>3, <3>6, <4>1
      <4>5. unread' = Unread(shown)'
        <5>1. PICK t, u : t = shown /\ u = shown' OBVIOUS
        <5>2. Unread(u) = OneLess(Unread(t)) BY <4>2, <4>3, <4>4, <5>1, OneRead
        <5>3. Unread(shown)' = Unread(u) BY <5>1 DEF Unread
        <5>4. QED BY <1>1, <3>1, <3>6, <5>1, <5>2, <5>3
      <4>6. \A k \in jobs' : k.kind # "bulk" BY <1>1, <3>1
      <4>7. ASSUME NEW k \in jobs', k.kind = "change", NEW r \in k.rows
            PROVE  shown'[r] # NoRow /\ shown'[r].on = {}
        <5>1. k \in jobs /\ k # j BY <1>1
        <5>2. r \in Rows BY <5>1, JobTyped DEF RowsInv, RowTypeOK
        <5>3. r # q
          <6>1. r = q => j \in JobsOn(q) /\ k \in JobsOn(q) BY <4>1, <4>7, <5>1 DEF JobsOn
          <6>2. OneAtATime(page, JobsOn(q)) BY <3>1 DEF RowsInv, RowsOK, RowOK
          <6>3. QED BY <5>1, <6>1, <6>2 DEF OneAtATime
        <5>4. QED BY <3>1, <4>4, <4>7, <5>1, <5>2, <5>3
      <4>8. QED BY <4>5, <4>6, <4>7
    <3>7. QED BY <3>2, <3>5, <3>6
  <2>3. QED BY <1>1, <2>1, <2>2 DEF InboxOK
<1>12. RowsOK'
  <2> SUFFICES ASSUME NEW r \in Rows \ excused' PROVE RowOK(r)' BY DEF RowsOK
  <2>1. r \notin excused /\ RowOK(r) BY <1>1 DEF RowsInv, RowsOK
  <2>2. PICK J, v, w, s : J = JobsOn(r) /\ v = Stored[r] /\ w = wish[r] /\ s = shown[r] OBVIOUS
  <2>3. OneAtATime(page, J) /\ AskedOK(J, v, w) /\ ShownOK(page, loaded, J, v, s) BY <2>1, <2>2 DEF RowOK
  <2>4. J \in SUBSET Jobs BY <2>2, JobsOnTyped DEF RowsInv
  <2>5. CASE r \in j.rows
    <3>1. j \in J BY <2>2, <2>5 DEF JobsOn
    <3>2. shown'[r] = Taken(page, j, s) BY <1>3, <2>2, <2>5
    <3>3. JobsOn(r)' = J \ {j} BY <1>4, <2>2
    <3>4. CASE page = "profile"
      <4>1. Taken(page, j, s) = s BY <1>2, <3>4 DEF JobOK, FormPages, Taken
      <4>2. /\ OneAtATime(page, J \ {j}) /\ AskedOK(J \ {j}, v, w)
            /\ ShownOK(page, loaded, J \ {j}, v, s)
        BY <1>1, <2>3, <2>4, <3>1, <3>4, TakeProfile
      <4>3. QED BY <1>1, <1>5, <2>2, <3>2, <3>3, <4>1, <4>2 DEF RowOK
    <3>5. CASE page # "profile"
      <4>1. v \in Values \cup {NoRow} /\ s \in Values \cup {NoRow} BY <1>7, <2>2
      <4>2. /\ OneAtATime(page, J \ {j}) /\ AskedOK(J \ {j}, v, w)
            /\ ShownOK(page, loaded, J \ {j}, v, Taken(page, j, s))
        BY <1>1, <2>3, <2>4, <3>1, <3>5, <4>1, TakeRow
      <4>3. QED BY <1>1, <1>5, <2>2, <3>2, <3>3, <4>2 DEF RowOK
    <3>6. QED BY <3>4, <3>5
  <2>6. CASE r \notin j.rows
    <3>1. shown'[r] = shown[r]
      <4>1. CASE page = "inbox" /\ j.kind = "bulk"
        <5>1. Stored[r] = NoRow BY <2>6, <4>1 DEF RowsInv, InboxOK
        <5>2. loaded BY <4>1 DEF RowsInv, RowLoadsOK, FirstLoadOK, ReloadPages
        <5>3. shown[r] = NoRow BY <2>1, <4>1, <5>1, <5>2, InboxRow
        <5>4. QED BY <1>3, <4>1, <5>3 DEF Taken
      <4>2. CASE ~(page = "inbox" /\ j.kind = "bulk") BY <1>3, <2>6, <4>2
      <4>3. QED BY <4>1, <4>2
    <3>2. QED BY <1>1, <1>4, <1>5, <2>1, <2>6, <3>1, RowStays
  <2>7. QED BY <2>5, <2>6
<1>13. QED BY <1>4, <1>8, <1>9, <1>10, <1>11, <1>12 DEF RowsInv

LEMMA CommandFailsKeeps == ASSUME RowsInv, NEW j \in jobs, CommandFails(j) PROVE RowsInv'
<1> USE RowNumbers
<1>1. /\ jobs' = jobs \ {j} /\ pending' = Released(j)
      /\ typed' = (typed \/ page \in FormPages)
      /\ wish' = [r \in Rows |-> IF r \in j.rows /\ j.step = "sent" THEN OnOf(Stored[r]) ELSE wish[r]]
      /\ excused' = excused \cup {r \in j.rows : j.step = "served" \/ \E k \in JobsOn(r) : k # j}
      /\ UNCHANGED <<page, loaded, loads, shown, unread, asked, picked, sent, asks, table>>
  BY DEF CommandFails, FormPages
<1>2. j \in Jobs BY DEF RowsInv, RowTypeOK
<1>3. /\ jobs' \subseteq Jobs /\ \A k, l \in jobs' : k.n = l.n => k = l
      /\ pending' \in Rows \cup {NoRow}
      /\ JobsOK' /\ SlotOK'
      /\ \A r : JobsOn(r)' = JobsOn(r) \ {j}
      /\ \A r : r \notin j.rows => JobsOn(r)' = JobsOn(r)
  BY <1>1, JobGone
<1>4. Stored' = Stored BY <1>1 DEF Stored
<1>5. RowTypeOK'
  <2>1. wish' \in [Rows -> (SUBSET Switches) \cup {NoRow}]
    <3>1. \A r \in Rows : Stored[r] \in Values \cup {NoRow} /\ wish[r] \in (SUBSET Switches) \cup {NoRow}
      BY TablesTyped DEF RowsInv
    <3>2. \A v \in Values \cup {NoRow} : OnOf(v) \in (SUBSET Switches) \cup {NoRow} BY DEF OnOf, Values
    <3>3. QED BY <1>1, <3>1, <3>2
  <2>2. excused' \subseteq Rows BY <1>1, <1>2, JobTyped DEF RowsInv, RowTypeOK
  <2>3. typed' \in BOOLEAN BY <1>1 DEF RowsInv, RowTypeOK
  <2>4. QED BY <1>1, <1>3, <2>1, <2>2, <2>3 DEF RowsInv, RowTypeOK
<1>6. RowLoadsOK'
  <2>1. FirstLoadOK' BY <1>1 DEF RowsInv, RowLoadsOK, FirstLoadOK
  <2>2. QED BY <1>1, <2>1 DEF RowsInv, RowLoadsOK
<1>7. FormsOK' BY <1>1 DEF RowsInv, FormsOK
<1>8. InboxOK'
  <2>1. Unread(shown)' = Unread(shown) BY <1>1 DEF Unread
  <2>2. QED BY <1>1, <1>4, <2>1 DEF RowsInv, InboxOK
<1>9. RowsOK'
  <2> SUFFICES ASSUME NEW r \in Rows \ excused' PROVE RowOK(r)' BY DEF RowsOK
  <2>1. r \notin excused /\ RowOK(r) BY <1>1 DEF RowsInv, RowsOK
  <2>2. CASE r \in j.rows
    <3>1. PICK J, v, w, s : J = JobsOn(r) /\ v = Stored[r] /\ w = wish[r] /\ s = shown[r] OBVIOUS
    <3>2. j.step = "sent" /\ J = {j} BY <1>1, <1>2, <2>2, <3>1, JobTyped DEF JobsOn
    <3>3. J \in SUBSET Jobs BY <3>1, JobsOnTyped DEF RowsInv
    <3>4. ShownOK(page, loaded, J, v, s) BY <2>1, <3>1 DEF RowOK
    <3>5. OneAtATime(page, J \ {j}) /\ AskedOK(J \ {j}, v, OnOf(v)) /\ ShownOK(page, loaded, J \ {j}, v, s)
      BY <3>2, <3>3, <3>4, FailRow
    <3>6. JobsOn(r)' = J \ {j} /\ wish'[r] = OnOf(v) BY <1>1, <1>3, <2>2, <3>1, <3>2
    <3>7. QED BY <1>1, <1>4, <3>1, <3>5, <3>6 DEF RowOK
  <2>3. CASE r \notin j.rows
    <3>1. wish'[r] = wish[r] BY <1>1, <2>3
    <3>2. QED BY <1>1, <1>3, <1>4, <2>1, <2>3, <3>1, RowStays
  <2>4. QED BY <2>2, <2>3
<1>10. QED BY <1>3, <1>5, <1>6, <1>7, <1>8, <1>9 DEF RowsInv

-----------------------------------------------------------------------------
(* A load is answered, or fails.                                           *)

\* Where a load may meet a change or a collective command, the page is that of the averages.
LEMMA LoadMeets ==
    ASSUME RowsInv, loads # {}, NEW j \in jobs
    PROVE  /\ page = "averages" => j.kind = "change" /\ j.rows = {1}
           /\ page # "averages" => j.kind \in {"create", "delete"}
           /\ page \notin {"profile", "inbox"}
<1>1. page \notin ReloadPages => j.kind = "create" BY DEF RowsInv, RowLoadsOK, FirstLoadOK
<1>2. JobOK(j) BY DEF RowsInv, JobsOK
<1>3. QED BY <1>1, <1>2 DEF JobOK, ReloadPages, FormPages

\* What a load leaves in a row: what the server has, or what an answer to come brings up to date.
LEMMA LoadUpdates ==
    ASSUME RowsInv, loads # {}, NEW r \in Rows, NEW new \in Values \cup {NoRow},
           OneAtATime(page, JobsOn(r)), AskedOK(JobsOn(r), Stored[r], wish[r]),
           ShownOK(page, loaded, JobsOn(r), Stored[r], shown[r]),
           new = Stored[r] \/ WillFollow(r, new)
    PROVE  ShownOK(page, TRUE, JobsOn(r), Stored[r], new)
<1> USE RowNumbers
<1>1. PICK J, v, w, s, ready : /\ J = JobsOn(r) /\ v = Stored[r] /\ w = wish[r] /\ s = shown[r]
                               /\ ready = loaded
  OBVIOUS
<1>2. OneAtATime(page, J) /\ AskedOK(J, v, w) /\ ShownOK(page, ready, J, v, s) BY <1>1
<1>3. J \in SUBSET Jobs /\ \A j \in J : j \in jobs /\ r \in j.rows BY <1>1, JobsOnTyped DEF RowsInv
<1>4. v \in Values \cup {NoRow} BY <1>1, TablesTyped DEF RowsInv
<1>5. \/ new = v
      \/ \E j \in J : /\ j.step = "served"
                      /\ \/ j.kind = "create"
                         \/ j.kind = "delete" /\ new # NoRow /\ new.made = j.made
                         \/ page \in FormPages /\ j.kind = "change" /\ v # NoRow
  <2> SUFFICES ASSUME new # v
               PROVE  \E j \in J : /\ j.step = "served"
                                   /\ \/ j.kind = "create"
                                      \/ j.kind = "delete" /\ new # NoRow /\ new.made = j.made
                                      \/ page \in FormPages /\ j.kind = "change" /\ v # NoRow
    OBVIOUS
  <2>1. PICK j \in J : /\ j.step = "served"
                       /\ CASE j.kind = "create" -> new = NoRow
                            [] j.kind = "delete" -> new # NoRow /\ new.made = j.made
                            [] j.kind = "touch" -> FALSE
                            [] OTHER -> new # NoRow
    BY <1>1 DEF WillFollow
  <2>2. CASE page = "averages"
    <3>1. j.kind = "change" /\ r = 1 BY <1>3, <2>2, LoadMeets
    <3>2. Len(table) \in DOMAIN table BY TablesTyped DEF RowsInv
    <3>3. v # NoRow BY <1>1, <2>2, <3>1, <3>2 DEF RowsInv, FormsOK, FormPages, Stored
    <3>4. QED BY <2>1, <2>2, <3>1, <3>3 DEF FormPages
  <2>3. CASE page # "averages"
    <3>1. j.kind \in {"create", "delete"} BY <1>3, <2>3, LoadMeets
    <3>2. QED BY <2>1, <3>1
  <2>4. QED BY <2>2, <2>3
<1>6. ShownOK(page, TRUE, J, v, new) BY <1>2, <1>3, <1>4, <1>5, LoadTaken
<1>7. QED BY <1>1, <1>6

LEMMA LoadArrivesKeeps == ASSUME RowsInv, LoadArrives PROVE RowsInv'
<1> USE RowNumbers
<1>1. PICK l \in loads : \E i \in l.since..Len(table) :
        /\ loads' = loads \ {l}
        /\ loaded' = TRUE
        /\ shown' = table[i]
        /\ unread' = IF page = "inbox" THEN Unread(table[i]) ELSE unread
        /\ typed' = FALSE
        /\ excused' = excused \cup {r \in Rows : table[i][r] # Stored[r] /\ ~WillFollow(r, table[i][r])}
        /\ UNCHANGED <<page, pending, asked, picked, jobs, sent, asks, table, wish>>
  BY DEF LoadArrives
<1>2. PICK i \in l.since..Len(table) :
        /\ loads' = loads \ {l}
        /\ loaded' = TRUE
        /\ shown' = table[i]
        /\ unread' = IF page = "inbox" THEN Unread(table[i]) ELSE unread
        /\ typed' = FALSE
        /\ excused' = excused \cup {r \in Rows : table[i][r] # Stored[r] /\ ~WillFollow(r, table[i][r])}
        /\ UNCHANGED <<page, pending, asked, picked, jobs, sent, asks, table, wish>>
  BY <1>1
<1>3. /\ i \in 1..Len(table) /\ i \in DOMAIN table /\ table[i] \in Tables
      /\ \A r \in Rows : table[i][r] \in Values \cup {NoRow}
      /\ Len(table) \in DOMAIN table
      /\ \A r \in Rows : Stored[r] \in Values \cup {NoRow}
  <2>1. l.since \in Nat \ {0} BY DEF RowsInv, RowTypeOK
  <2>2. /\ Len(table) \in Nat \ {0} /\ \A k \in 1..Len(table) : table[k] \in Tables
        /\ DOMAIN table = 1..Len(table) /\ \A r \in Rows : Stored[r] \in Values \cup {NoRow}
    BY TablesTyped DEF RowsInv
  <2>3. i \in 1..Len(table) BY <2>1, <2>2
  <2>4. \A t \in Tables : \A r \in Rows : t[r] \in Values \cup {NoRow} BY DEF Tables
  <2>5. QED BY <2>2, <2>3, <2>4
<1>4. Stored' = Stored BY <1>2 DEF Stored
<1>5. \A r : JobsOn(r)' = JobsOn(r) BY <1>2 DEF JobsOn
<1>6. RowTypeOK'
  <2>1. unread' \in 0..Cardinality(Rows) BY <1>2, UnreadTyped DEF RowsInv, RowTypeOK
  <2>2. excused' \subseteq Rows BY <1>2 DEF RowsInv, RowTypeOK
  <2>3. shown' \in Tables /\ loaded' \in BOOLEAN /\ typed' \in BOOLEAN BY <1>2, <1>3
  <2>4. QED BY <1>2, <2>1, <2>2, <2>3 DEF RowsInv, RowTypeOK
<1>7. JobsOK' BY <1>2 DEF RowsInv, JobsOK, JobOK
<1>8. SlotOK' BY <1>2 DEF RowsInv, SlotOK, Slotted
<1>9. RowLoadsOK'
  <2>1. page \notin ReloadPages => loads' = {} BY <1>2 DEF RowsInv, RowLoadsOK, FirstLoadOK
  <2>2. FirstLoadOK' BY <1>2, <2>1 DEF FirstLoadOK
  <2>3. QED BY <1>2, <2>2 DEF RowsInv, RowLoadsOK
<1>10. ASSUME NEW r \in Rows, r \notin excused'
       PROVE  r \notin excused /\ (table[i][r] = Stored[r] \/ WillFollow(r, table[i][r]))
  BY <1>2, <1>10
<1>11. FormsOK'
  <2> SUFFICES ASSUME page \in FormPages PROVE FormsOK' BY <1>2 DEF FormsOK
  <2>1. /\ \A k \in DOMAIN table : table[k][1] # NoRow /\ table[k][1].made = 0
        /\ \A r \in Rows \ {1} : \A k \in DOMAIN table : table[k][r] = NoRow
    BY DEF RowsInv, FormsOK
  <2>2. shown'[1] # NoRow /\ shown'[1].made = 0 /\ \A r \in Rows \ {1} : shown'[r] = NoRow
    BY <1>2, <1>3, <2>1
  <2>3. 1 \notin excused' /\ JobsOn(1) = {} => shown'[1] = Stored[1] BY <1>2, <1>10 DEF WillFollow
  <2>4. page = "profile" => JobsOn(1) = {} BY LoadMeets DEF JobsOn
  <2>5. QED BY <1>2, <1>4, <1>5, <2>1, <2>2, <2>3, <2>4 DEF FormsOK
<1>12. InboxOK'
  <2> SUFFICES ASSUME page = "inbox" PROVE InboxOK' BY <1>2 DEF InboxOK
  <2>1. jobs = {} BY LoadMeets
  <2>2. unread' = Unread(shown)' BY <1>2 DEF Unread
  <2>3. QED BY <1>2, <2>1, <2>2 DEF InboxOK
<1>13. RowsOK'
  <2> SUFFICES ASSUME NEW r \in Rows \ excused' PROVE RowOK(r)' BY DEF RowsOK
  <2>1. r \notin excused /\ (table[i][r] = Stored[r] \/ WillFollow(r, table[i][r])) BY <1>10
  <2>2. PICK J, v, w, s, new : /\ J = JobsOn(r) /\ v = Stored[r] /\ w = wish[r] /\ s = shown[r]
                               /\ new = table[i][r]
    OBVIOUS
  <2>3. OneAtATime(page, J) /\ AskedOK(J, v, w) /\ ShownOK(page, loaded, J, v, s)
    BY <2>1, <2>2 DEF RowOK, RowsInv, RowsOK
  <2>4. v \in Values \cup {NoRow} /\ new \in Values \cup {NoRow} BY <1>3, <2>2
  <2>5. new = v \/ WillFollow(r, new) BY <2>1, <2>2
  <2>6. ShownOK(page, TRUE, J, v, new) BY <1>1, <2>2, <2>3, <2>4, <2>5, LoadUpdates
  <2>7. QED BY <1>2, <1>4, <1>5, <2>2, <2>3, <2>6 DEF RowOK
<1>14. QED BY <1>6, <1>7, <1>8, <1>9, <1>11, <1>12, <1>13 DEF RowsInv

\* The profile's one load finds nothing else under way, and leaves the form as it is.
LEMMA LoadFailsKeeps == ASSUME RowsInv, LoadFails PROVE RowsInv'
<1> USE RowNumbers
<1>1. PICK l \in loads :
        /\ loads' = loads \ {l}
        /\ loaded' = (page # "profile" \/ loaded)
        /\ shown' = IF page = "star" THEN [shown EXCEPT ![1] = NoRow] ELSE shown
        /\ excused' = excused \cup {r \in Rows : shown'[r] # Stored[r] /\ ~WillFollow(r, shown'[r])}
        /\ UNCHANGED <<page, unread, typed, pending, asked, picked, jobs, sent, asks, table, wish>>
  BY DEF LoadFails
<1>2. Stored' = Stored BY <1>1 DEF Stored
<1>3. shown' \in Tables /\ \A r \in Rows : shown'[r] \in Values \cup {NoRow} /\ Stored[r] \in Values \cup {NoRow}
  <2>1. shown \in [Rows -> Values \cup {NoRow}] BY DEF RowsInv, RowTypeOK, Tables
  <2>2. shown' \in [Rows -> Values \cup {NoRow}] BY <1>1, <2>1
  <2>3. \A r \in Rows : Stored[r] \in Values \cup {NoRow} BY TablesTyped DEF RowsInv
  <2>4. QED BY <2>2, <2>3 DEF Tables
<1>4. \A r : JobsOn(r)' = JobsOn(r) BY <1>1 DEF JobsOn
<1>5. RowTypeOK'
  <2>1. loaded' \in BOOLEAN BY <1>1
  <2>2. excused' \subseteq Rows BY <1>1 DEF RowsInv, RowTypeOK
  <2>3. QED BY <1>1, <1>3, <2>1, <2>2 DEF RowsInv, RowTypeOK
<1>6. JobsOK' BY <1>1 DEF RowsInv, JobsOK, JobOK
<1>7. SlotOK' BY <1>1 DEF RowsInv, SlotOK, Slotted
<1>8. RowLoadsOK'
  <2>1. page \notin ReloadPages => loads' = {} BY <1>1 DEF RowsInv, RowLoadsOK, FirstLoadOK
  <2>2. FirstLoadOK' BY <1>1, <2>1 DEF RowsInv, RowLoadsOK, FirstLoadOK, ReloadPages
  <2>3. QED BY <1>1, <2>2 DEF RowsInv, RowLoadsOK
<1>9. ASSUME NEW r \in Rows, r \notin excused'
      PROVE  r \notin excused /\ (shown'[r] = Stored[r] \/ WillFollow(r, shown'[r]))
  BY <1>1, <1>9
<1>10. FormsOK'
  <2> SUFFICES ASSUME page \in FormPages PROVE FormsOK' BY <1>1 DEF FormsOK
  <2>1. shown' = shown BY <1>1 DEF FormPages
  <2>2. 1 \notin excused' /\ JobsOn(1) = {} => shown'[1] = Stored[1] BY <1>9 DEF WillFollow
  <2>3. 1 \notin excused' => 1 \notin excused BY <1>9
  <2>4. QED BY <1>1, <1>2, <1>4, <2>1, <2>2, <2>3 DEF RowsInv, FormsOK
<1>11. InboxOK'
  <2> SUFFICES ASSUME page = "inbox" PROVE InboxOK' BY <1>1 DEF InboxOK
  <2>1. jobs = {} BY LoadMeets
  <2>2. ~loaded BY <1>1 DEF RowsInv, RowLoadsOK, FirstLoadOK, ReloadPages
  <2>3. unread = 0 /\ \A r \in Rows : shown[r] = NoRow
    BY <2>2 DEF RowsInv, RowLoadsOK, FirstLoadOK, ReloadPages
  <2>4. {r \in Rows : shown[r] # NoRow /\ shown[r].on = {}} = {} BY <2>3
  <2>5. Unread(shown) = 0 BY <2>4, FS_EmptySet DEF Unread
  <2>6. shown' = shown /\ unread' = 0 BY <1>1, <2>3
  <2>7. Unread(shown)' = 0 BY <2>5, <2>6 DEF Unread
  <2>8. QED BY <1>1, <2>1, <2>6, <2>7 DEF InboxOK
<1>12. RowsOK'
  <2> SUFFICES ASSUME NEW r \in Rows \ excused' PROVE RowOK(r)' BY DEF RowsOK
  <2>1. r \notin excused /\ (shown'[r] = Stored[r] \/ WillFollow(r, shown'[r])) BY <1>9
  <2>2. CASE page = "profile"
    <3>1. shown' = shown BY <1>1, <2>2
    <3>2. loaded' = loaded BY <1>1, <2>2 DEF RowsInv, RowTypeOK
    <3>3. QED BY <1>1, <1>2, <1>4, <2>1, <3>1, <3>2, RowStays DEF RowsInv, RowsOK
  <2>3. CASE page # "profile"
    <3>1. PICK J, v, w, s, new : /\ J = JobsOn(r) /\ v = Stored[r] /\ w = wish[r] /\ s = shown[r]
                                 /\ new = shown'[r]
      OBVIOUS
    <3>2. OneAtATime(page, J) /\ AskedOK(J, v, w) /\ ShownOK(page, loaded, J, v, s)
      BY <2>1, <3>1 DEF RowOK, RowsInv, RowsOK
    <3>3. v \in Values \cup {NoRow} /\ new \in Values \cup {NoRow} BY <1>3, <3>1
    <3>4. new = v \/ WillFollow(r, new) BY <2>1, <3>1
    <3>5. ShownOK(page, TRUE, J, v, new) BY <1>1, <3>1, <3>2, <3>3, <3>4, LoadUpdates
    <3>6. QED BY <1>1, <1>2, <1>4, <2>3, <3>1, <3>2, <3>5 DEF RowOK
  <2>4. QED BY <2>2, <2>3
<1>13. QED BY <1>5, <1>6, <1>7, <1>8, <1>10, <1>11, <1>12 DEF RowsInv

-----------------------------------------------------------------------------
(* The first state, and every step.                                        *)

LEMMA RowsBegin == RowsInit => RowsInv
<1> SUFFICES ASSUME RowsInit PROVE RowsInv OBVIOUS
<1> USE RowNumbers
<1>1. PICK t \in InitialTables : table = <<t>> BY DEF RowsInit
<1>2. Blank \in Values /\ [Blank EXCEPT !.on = {"first"}] \in Values BY DEF Blank, Values, Switches
<1>3. /\ t \in Tables
      /\ page \in FormPages => /\ t[1] # NoRow /\ t[1].made = 0
                               /\ \A r \in Rows \ {1} : t[r] = NoRow
  <2>1. PICK values : values = CASE page \in {"stocks", "star"} -> {Blank, NoRow}
                                 [] page = "averages" -> {Blank, [Blank EXCEPT !.on = {"first"}]}
                                 [] OTHER -> {Blank}
    OBVIOUS
  <2>2. PICK some : some = IF page \in Single THEN {1} ELSE 1..Existing OBVIOUS
  <2>3. /\ t \in [Rows -> values \cup {NoRow}]
        /\ \A r \in Rows : IF r \in some THEN t[r] \in values ELSE t[r] = NoRow
    BY <2>1, <2>2 DEF InitialTables
  <2>4. values \subseteq Values \cup {NoRow} BY <1>2, <2>1
  <2>5. t \in Tables BY <2>3, <2>4 DEF Tables
  <2>6. ASSUME page \in FormPages
        PROVE  t[1] # NoRow /\ t[1].made = 0 /\ \A r \in Rows \ {1} : t[r] = NoRow
    <3>1. some = {1} BY <2>2, <2>6 DEF FormPages, Single
    <3>2. \A v \in values : v # NoRow /\ v.made = 0
      BY <1>2, <2>1, <2>6 DEF FormPages, Blank
    <3>3. QED BY <2>3, <3>1, <3>2
  <2>7. QED BY <2>5, <2>6
<1>4. /\ page \in Pages /\ loaded = FALSE /\ loads = {[n |-> 1, since |-> 1]}
      /\ shown = [r \in Rows |-> IF page \in {"averages", "profile"} /\ r = 1 THEN Blank ELSE NoRow]
      /\ unread = 0 /\ typed = FALSE /\ pending = NoRow /\ asked = NoRow /\ picked = {}
      /\ jobs = {} /\ sent = 0 /\ asks = 1 /\ excused = {}
      /\ wish = [r \in Rows |-> OnOf(Stored[r])]
  BY DEF RowsInit
<1>5. Stored = t /\ Len(table) = 1 /\ DOMAIN table = {1} /\ table[1] = t BY <1>1 DEF Stored
<1>6. \A r \in Rows : t[r] \in Values \cup {NoRow} BY <1>3 DEF Tables
<1>7. \A r : JobsOn(r) = {} BY <1>4 DEF JobsOn
<1>8. RowTypeOK
  <2>1. shown \in Tables BY <1>2, <1>4 DEF Tables
  <2>2. \A v \in Values \cup {NoRow} : OnOf(v) \in (SUBSET Switches) \cup {NoRow} BY DEF OnOf, Values
  <2>3. wish \in [Rows -> (SUBSET Switches) \cup {NoRow}] BY <1>4, <1>5, <1>6, <2>2
  <2>4. table \in Seq(Tables) \ {<<>>}
    <3>1. PICK T : T = Tables OBVIOUS
    <3>2. <<t>> \in Seq(T) /\ <<t>> # <<>> BY <1>3, <3>1
    <3>3. QED BY <1>1, <3>1, <3>2
  <2>5. unread \in 0..Cardinality(Rows) BY <1>4, CountTyped
  <2>6. loads \subseteq [n : 1..(MaxReloads + 1), since : Nat \ {0}] BY <1>4
  <2>7. sent \in 0..MaxCommands /\ asks \in 1..(MaxReloads + 1) BY <1>4
  <2>8. QED BY <1>4, <2>1, <2>3, <2>4, <2>5, <2>6, <2>7 DEF RowTypeOK
<1>9. JobsOK /\ SlotOK /\ InboxOK BY <1>4 DEF JobsOK, SlotOK, InboxOK
<1>10. RowLoadsOK
  <2>1. \A l \in loads : l.since <= Len(table) BY <1>4, <1>5
  <2>2. QED BY <1>4, <2>1 DEF RowLoadsOK, FirstLoadOK
<1>11. FormsOK
  <2> SUFFICES ASSUME page \in FormPages PROVE FormsOK BY DEF FormsOK
  <2>1. shown[1] = Blank /\ Blank # NoRow /\ Blank.made = 0 /\ \A r \in Rows \ {1} : shown[r] = NoRow
    BY <1>2, <1>4 DEF FormPages, Blank
  <2>2. QED BY <1>3, <1>4, <1>5, <1>7, <2>1 DEF FormsOK
<1>12. RowsOK
  <2> SUFFICES ASSUME NEW r \in Rows PROVE RowOK(r) BY DEF RowsOK
  <2>1. OnOf(Stored[r]) = wish[r] BY <1>4
  <2>2. QED BY <1>4, <1>7, <2>1 DEF RowOK, OneAtATime, AskedOK, ShownOK
<1>13. QED BY <1>8, <1>9, <1>10, <1>11, <1>12 DEF RowsInv

LEMMA RowsNextKeeps == ASSUME RowsInv, [RowsNext]_rowVars PROVE RowsInv'
<1>1. CASE Create BY <1>1, CreateKeeps
<1>2. CASE MarkAllRead BY <1>2, MarkAllReadKeeps
<1>3. CASE ActivatePicked BY <1>3, ActivatePickedKeeps
<1>4. CASE DismissDelete BY <1>4, DismissDeleteKeeps
<1>5. CASE ConfirmDelete BY <1>5, ConfirmDeleteKeeps
<1>6. CASE Save BY <1>6, SaveKeeps
<1>7. CASE SessionRefreshed BY <1>7, SessionRefreshedKeeps
<1>8. ASSUME NEW r \in Rows, Star(r) PROVE RowsInv' BY <1>8, StarKeeps
<1>9. ASSUME NEW r \in Rows, Revoke(r) PROVE RowsInv' BY <1>9, RevokeKeeps
<1>10. ASSUME NEW r \in Rows, Open(r) PROVE RowsInv' BY <1>10, OpenKeeps
<1>11. ASSUME NEW r \in Rows, Pick(r) PROVE RowsInv' BY <1>11, PickKeeps
<1>12. ASSUME NEW r \in Rows, Delete(r) PROVE RowsInv' BY <1>12, DeleteKeeps
<1>13. ASSUME NEW r \in Rows, AskDelete(r) PROVE RowsInv' BY <1>13, AskDeleteKeeps
<1>14. ASSUME NEW r \in Rows, NEW s \in Switches, Turn(r, s) PROVE RowsInv' BY <1>14, TurnKeeps
<1>15. ASSUME NEW s \in Switches, Type(s) PROVE RowsInv' BY <1>15, TypeKeeps
<1>16. ASSUME NEW j \in jobs, Serve(j) PROVE RowsInv' BY <1>16, ServeKeeps
<1>17. ASSUME NEW j \in jobs, AnswerArrives(j) PROVE RowsInv' BY <1>17, AnswerArrivesKeeps
<1>18. ASSUME NEW j \in jobs, CommandFails(j) PROVE RowsInv' BY <1>18, CommandFailsKeeps
<1>19. CASE LoadArrives BY <1>19, LoadArrivesKeeps
<1>20. CASE LoadFails BY <1>20, LoadFailsKeeps
<1>21. CASE UNCHANGED rowVars
  <2>1. JobsOK' /\ SlotOK' /\ FormsOK' /\ InboxOK' /\ RowsOK' BY <1>21, SameRows DEF rowVars, mine
  <2>2. RowTypeOK' BY <1>21 DEF rowVars, mine, RowsInv, RowTypeOK
  <2>3. RowLoadsOK' BY <1>21 DEF rowVars, mine, RowsInv, RowLoadsOK, FirstLoadOK
  <2>4. QED BY <2>1, <2>2, <2>3 DEF RowsInv
<1>22. QED
  BY <1>1, <1>2, <1>3, <1>4, <1>5, <1>6, <1>7, <1>8, <1>9, <1>10, <1>11, <1>12, <1>13, <1>14, <1>15, <1>16,
     <1>17, <1>18, <1>19, <1>20, <1>21 DEF RowsNext

-----------------------------------------------------------------------------
(* The theorems.                                                           *)

\* What the pages of RowLists keep: which commands are out for a row, what the user asked
\* of it, what the server has of it and what the page shows are tied to one another.
THEOREM RowsInvariance == RowsSpec => []RowsInv
BY RowsBegin, RowsNextKeeps, PTL DEF RowsSpec

\* The pages that list rows and the forms over one keep their state within its type.
THEOREM RowTypesHold == RowsSpec => []RowTypeOK
<1>1. RowsInv => RowTypeOK BY DEF RowsInv
<1>2. QED BY <1>1, RowsInvariance, PTL

LEMMA RowsInvGives == RowsInv => ListFollowsServer
<1> SUFFICES ASSUME RowsInv PROVE ListFollowsServer OBVIOUS
<1>1. ServerAsAsked BY AtRest DEF ServerAsAsked
<1>2. ASSUME loaded, NEW r \in Rows \ excused, JobsOn(r) = {}, ~typed PROVE shown[r] = Stored[r]
  <2>1. CASE page \in FormPages
    <3>1. Len(table) \in DOMAIN table BY TablesTyped DEF RowsInv
    <3>2. QED BY <1>2, <2>1, <3>1 DEF RowsInv, FormsOK, Stored
  <2>2. CASE page \notin FormPages BY <1>2, <2>2, AtRest
  <2>3. QED BY <2>1, <2>2
<1>3. page = "inbox" /\ loaded /\ excused = {} => unread = Unread(shown) BY DEF RowsInv, InboxOK
<1>4. RowsAsServed BY <1>2, <1>3 DEF RowsAsServed
<1>5. QED BY <1>1, <1>4 DEF ListFollowsServer

\* Whatever the user, the server and the loads do, in any order and number: a row at rest is
\* shown as the server has it, the unread notifications are counted right, and what the server
\* has of a row is what the user last asked of it, but for the rows excused.
THEOREM RowsFollowServer == RowsSpec => []ListFollowsServer
BY RowsInvGives, RowsInvariance, PTL
=================================================================================
