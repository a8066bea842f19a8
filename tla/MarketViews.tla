------------------------------ MODULE MarketViews ------------------------------
(***************************************************************************)
(* How the market pages get and show what they show.                       *)
(*   "panel":    a chart, an indicator or a profile, loaded by the key that *)
(*               the page wants (useCandles and the panels of a symbol);    *)
(*   "resource": useResource, whose key is also the account and the attempt,*)
(*               which gives up after ten seconds and offers to try again;  *)
(*   "momentum": the table of the ETF strategy, loaded again on request;    *)
(*   "search":   the screener, which shows whatever answer came last;       *)
(*   "quotes":   the snapshot of the quotes and the ticks that follow it    *)
(*               over one connection.                                       *)
(* A new key is rendered, and its request sent, before another answer is    *)
(* taken.  The user looks at one of the five.                               *)
(***************************************************************************)
EXTENDS Naturals, Sequences

CONSTANTS Keys,        \* what can be wanted: tickers, periods, sort orders, ...
          Tickers,     \* symbols with quotes
          Sessions,    \* access tokens, of one account or another
          MaxChanges,  \* bound: changes of what is wanted, of the account or its token, of the symbols
          MaxTicks,    \* bound: ticks of the market
          MaxDrops,    \* bound: connections lost
          None

Views == {"panel", "resource", "momentum", "search", "quotes"}

VARIABLES
    view,      \* what the user looks at
    changes,   \* changes made so far
    wanted,    \* the key rendered: what, for whom, at which attempt
    requests,  \* requests on their way, the answers of others are ignored
    busy,      \* the ref of useResource, loading of the momentum table and the screener
    result,    \* what was answered last, and to which request
    failed,    \* error of the screener
    latest,    \* history: the newest search answered so far, and whether an older one came after it
    token,     \* access token, None when signed out
    lapsed,    \* whether it has expired
    tickers,   \* symbols the stream knows
    quotes,    \* the quotes shown, None where there is none
    snapshot,  \* the request for the snapshot, None if there is none
    refetches, \* requests made because the symbols changed
    conn,      \* the connection: its subscriptions, its phase, the messages on their way
    feed,      \* server: the active symbols and their quotes so far, the current ones last
    drops,     \* connections lost so far
    missed,    \* history: symbols whose last tick was not sent here, got lost, or was overwritten
    untold,    \* history: the same of the last change of the symbols
    unlisted   \* history: symbols the last answer with quotes had not in it

loading == <<wanted, requests, busy, result, failed, latest>>
streaming == <<token, lapsed, tickers, quotes, snapshot, refetches, conn, feed, drops, missed, untold, unlisted>>
vars == <<view, changes, loading, streaming>>

Accounts == {None} \cup Sessions
Wants == [what : Keys, owner : Accounts, attempt : 0..MaxChanges]
Requests == [n : 0..MaxChanges, key : Wants]
Results == [n : 0..MaxChanges, key : Wants, outcome : {"success", "error"}, data : Wants \cup {None}]

Prices == [Tickers -> 0..MaxTicks]
Quotes == [price : 0..MaxTicks, named : BOOLEAN]
Ticks == [kind : {"tick"}, of : Tickers, price : 0..MaxTicks]
News == [kind : {"symbols"}, active : SUBSET Tickers]

\* A connection is being made, made, or waits to be made again.
Phases == {"waiting", "trying", "up"}
Connections == [to : (SUBSET Tickers) \ {{}}, phase : Phases, queue : Seq(Ticks \cup News)]

ASSUME MarketViewsAssumption ==
    /\ {MaxChanges, MaxTicks, MaxDrops} \subseteq Nat
    /\ Keys # {} /\ Tickers # {}
    /\ None \notin Sessions
    /\ None \notin Nat \cup Wants \cup Results \cup Quotes \cup Connections

TypeOK ==
    /\ view \in Views
    /\ changes \in 0..MaxChanges
    /\ wanted \in Wants
    /\ requests \subseteq Requests
    /\ {busy, failed, untold, lapsed} \subseteq BOOLEAN
    /\ result \in Results \cup {None}
    /\ latest \in [n : 0..MaxChanges, late : BOOLEAN]
    /\ token \in Accounts
    /\ tickers \subseteq Tickers
    /\ quotes \in [Tickers -> Quotes \cup {None}]
    /\ snapshot \in 1..Len(feed) \cup {None}
    /\ refetches \subseteq 1..Len(feed)
    /\ conn \in Connections \cup {None}
    /\ feed \in Seq([active : SUBSET Tickers, price : Prices]) \ {<<>>}
    /\ drops \in 0..MaxDrops
    /\ {missed, unlisted} \subseteq SUBSET Tickers

Init ==
    /\ view \in Views
    /\ changes = 0
    /\ \E k \in Keys : wanted = [what |-> k, owner |-> None, attempt |-> 0]
    /\ requests = IF view = "quotes" THEN {} ELSE {[n |-> 0, key |-> wanted]}
    /\ busy = (view \in {"resource", "momentum", "search"})
    /\ result = None /\ failed = FALSE
    /\ latest = [n |-> 0, late |-> FALSE]
    /\ token = None /\ lapsed = FALSE
    /\ tickers = {} /\ quotes = [t \in Tickers |-> None]
    /\ snapshot = IF view = "quotes" THEN 1 ELSE None
    /\ refetches = {} /\ conn = None
    /\ feed = <<[active |-> Tickers, price |-> [t \in Tickers |-> 0]]>>
    /\ drops = 0 /\ missed = {} /\ untold = FALSE /\ unlisted = Tickers

-----------------------------------------------------------------------------
(* Loads by key.                                                           *)

Change == changes < MaxChanges /\ changes' = changes + 1

\* (Mutated form: what was loaded for another account will do.)
MatchesAnyone(r, key) == r.key.what = key.what /\ r.key.attempt = key.attempt

Matches(r, key) == r.key = key

Status == IF result = None THEN "loading"
          ELSE IF Matches(result, wanted) THEN result.outcome ELSE "loading"

\* What a panel shows: a spinner, an excuse, or what was loaded.
Shown == [status |-> Status, data |-> IF Status = "success" THEN result.data ELSE None]

\* The screener's results stay while another search loads, and when it fails.
SearchShown == IF result = None THEN None ELSE result.data

\* The effect of a new key: the request before it is aborted, or its answer ignored.
Want(key) ==
    /\ wanted' = key
    /\ requests' = {[n |-> changes', key |-> key]}
    /\ busy' = (view \in {"resource", "momentum"})
    /\ UNCHANGED <<view, result, failed, latest, streaming>>

\* Another ticker, timeframe, period, index or date is chosen.
Choose(k) ==
    /\ view \in {"panel", "resource"}
    /\ k # wanted.what
    /\ Change
    /\ Want([wanted EXCEPT !.what = k])

\* Only useResource loads anew for another account.
SwitchAccount(a) ==
    /\ view = "resource"
    /\ a # wanted.owner
    /\ Change
    /\ Want([wanted EXCEPT !.owner = a])

\* A failed resource offers to try again, the momentum table always does.
RetryOffered == (view = "momentum") \/ (view = "resource" /\ Status = "error")

Retry ==
    /\ RetryOffered
    /\ ~busy
    /\ Change
    /\ Want([wanted EXCEPT !.attempt = @ + 1])

\* submit, reset, and the controls of the results; submitting waits for the answer before.
Search(k) ==
    /\ view = "search"
    /\ Change
    /\ wanted' = [wanted EXCEPT !.what = k]
    /\ requests' = requests \cup {[n |-> changes', key |-> wanted']}
    /\ busy' = TRUE /\ failed' = FALSE
    /\ UNCHANGED <<view, result, latest, streaming>>

Settle(q) ==
    /\ requests' = requests \ {q}
    /\ busy' = FALSE
    /\ latest' = IF q.n < latest.n THEN [latest EXCEPT !.late = TRUE] ELSE [n |-> q.n, late |-> FALSE]
    /\ UNCHANGED <<view, changes, wanted, streaming>>

Arrives(q) ==
    /\ Settle(q)
    /\ result' = [n |-> q.n, key |-> q.key, outcome |-> "success", data |-> q.key]
    /\ UNCHANGED failed

\* An error, or ten seconds without an answer; the screener keeps the results it has.
Fails(q) ==
    /\ Settle(q)
    /\ result' = IF view = "search" THEN result
                 ELSE [n |-> q.n, key |-> q.key, outcome |-> "error", data |-> None]
    /\ failed' = (view = "search")

-----------------------------------------------------------------------------
(* The stream of quotes.                                                   *)

Current == feed[Len(feed)]

\* (Mutated form: a connection without a symbol to follow.)
ConnectionAlways(tok, set) == IF tok = None THEN None ELSE [to |-> set, phase |-> "trying", queue |-> <<>>]

\* The effect on the token and the symbols: the connection is made anew.
Connection(tok, set) == IF tok = None \/ set = {} THEN None ELSE [to |-> set, phase |-> "trying", queue |-> <<>>]

Queued == IF conn = None THEN {} ELSE {conn.queue[i] : i \in DOMAIN conn.queue}
QueuedTicks == {m.of : m \in {q \in Queued : q.kind = "tick"}}
QueuedNews == \E m \in Queued : m.kind = "symbols"

\* The session is restored, refreshed or ended.
TokenChanges(tok) ==
    /\ view = "quotes"
    /\ tok # token
    /\ Change
    /\ token' = tok /\ lapsed' = FALSE
    /\ snapshot' = Len(feed)
    /\ conn' = Connection(tok, tickers)
    /\ missed' = missed \cup QueuedTicks
    /\ untold' = (untold \/ QueuedNews)
    /\ UNCHANGED <<view, loading, tickers, quotes, refetches, feed, drops, unlisted>>

\* What a table shows of a quote: a dash without one.
PriceShown(t) == IF quotes[t] = None THEN None ELSE quotes[t].price

ByName(f) == [t \in Tickers |-> IF t \in f.active THEN [price |-> f.price[t], named |-> TRUE] ELSE None]

Older(f) == {t \in Tickers : f.price[t] # Current.price[t]}

SnapshotArrives ==
    /\ snapshot # None
    /\ \E i \in snapshot..Len(feed) :
          /\ quotes' = ByName(feed[i])
          /\ tickers' = feed[i].active
          /\ missed' = Older(feed[i])
          /\ untold' = (feed[i].active # Current.active)
          /\ unlisted' = Tickers \ feed[i].active
    /\ snapshot' = None
    /\ conn' = Connection(token, tickers')
    /\ UNCHANGED <<view, changes, loading, token, lapsed, refetches, feed, drops>>

SnapshotFails ==
    /\ snapshot # None
    /\ snapshot' = None
    /\ missed' = Tickers /\ untold' = TRUE
    /\ UNCHANGED <<view, changes, loading, token, lapsed, tickers, quotes, refetches, conn, feed, drops, unlisted>>

\* It is not told to the page: a connection that is up stays up.
TokenLapses ==
    /\ view = "quotes"
    /\ token # None /\ ~lapsed
    /\ lapsed' = TRUE
    /\ UNCHANGED <<view, changes, loading, token, tickers, quotes, snapshot, refetches, conn, feed, drops,
                   missed, untold, unlisted>>

\* How an attempt to connect goes on.
TurnsTo(phase) ==
    /\ conn' = [conn EXCEPT !.phase = phase]
    /\ UNCHANGED <<view, changes, loading, token, lapsed, tickers, quotes, snapshot, refetches, feed, drops,
                   missed, untold, unlisted>>

Trying == conn # None /\ conn.phase = "trying"

\* onConnect subscribes to the symbols the connection was made for, after a loss as well.
Connect == Trying /\ ~lapsed /\ TurnsTo("up")

\* The server refuses an expired token, and every attempt carries the same.
ConnectRefused == Trying /\ lapsed /\ TurnsTo("waiting")

\* The server is not reached.
ConnectFails == Trying /\ TurnsTo("waiting")

\* (Mutated form: a delay of zero, which turns the timer off.)
ReconnectNever == FALSE

\* Five seconds later it is tried again.
Reconnect == conn # None /\ conn.phase = "waiting" /\ TurnsTo("trying")

Disconnect ==
    /\ conn # None /\ conn.phase = "up"
    /\ drops < MaxDrops
    /\ drops' = drops + 1
    /\ conn' = [conn EXCEPT !.phase = "waiting", !.queue = <<>>]
    /\ missed' = missed \cup QueuedTicks
    /\ untold' = (untold \/ QueuedNews)
    /\ UNCHANGED <<view, changes, loading, token, lapsed, tickers, quotes, snapshot, refetches, feed, unlisted>>

\* isConnected: from onConnect until the connection is lost or given up
IsConnected == conn # None /\ conn.phase = "up"

Listening(t) == IsConnected /\ t \in conn.to

\* (Mutated form: the tick takes the place of the whole quote.)
MergedNameless(quote, tick) == [price |-> tick.price, named |-> FALSE]

\* A tick has no name: it is merged onto the quote before it.
Merged(quote, tick) == [price |-> tick.price, named |-> IF quote = None THEN FALSE ELSE quote.named]

TickArrives ==
    /\ conn # None /\ conn.queue # <<>>
    /\ LET m == Head(conn.queue) IN
          /\ m.kind = "tick"
          /\ quotes' = [quotes EXCEPT ![m.of] = Merged(@, m)]
          /\ conn' = [conn EXCEPT !.queue = Tail(@)]
    /\ UNCHANGED <<view, changes, loading, token, lapsed, tickers, snapshot, refetches, feed, drops, missed, untold,
                   unlisted>>

\* The symbols changed: the quotes are asked for again and the connection is made anew.
SymbolsArrive ==
    /\ conn # None /\ conn.queue # <<>>
    /\ LET m == Head(conn.queue) IN
          /\ m.kind = "symbols"
          /\ tickers' = m.active
          /\ conn' = Connection(token, m.active)
          /\ untold' = (untold \/ m.active # Current.active)
    /\ refetches' = refetches \cup {Len(feed)}
    /\ missed' = missed \cup QueuedTicks
    /\ UNCHANGED <<view, changes, loading, token, lapsed, quotes, snapshot, feed, drops, unlisted>>

RefetchArrives ==
    \E since \in refetches : \E i \in since..Len(feed) :
        /\ refetches' = refetches \ {since}
        /\ quotes' = ByName(feed[i])
        /\ unlisted' = Tickers \ feed[i].active
        /\ missed' = (Older(feed[i]) \cup unlisted') \ QueuedTicks
        /\ UNCHANGED <<view, changes, loading, token, lapsed, tickers, snapshot, conn, feed, drops, untold>>

RefetchFails ==
    \E since \in refetches :
        /\ refetches' = refetches \ {since}
        /\ missed' = Tickers
        /\ UNCHANGED <<view, changes, loading, token, lapsed, tickers, quotes, snapshot, conn, feed, drops, untold,
                       unlisted>>

\* The market: a tick goes to those who are subscribed to its symbol.
Tick(t) ==
    LET price == Current.price[t] + 1 IN
    /\ view = "quotes"
    /\ t \in Current.active
    /\ Len(feed) <= MaxTicks /\ price <= MaxTicks
    /\ feed' = Append(feed, [Current EXCEPT !.price[t] = price])
    /\ conn' = IF Listening(t) THEN [conn EXCEPT !.queue = Append(@, [kind |-> "tick", of |-> t, price |-> price])]
               ELSE conn
    /\ missed' = IF Listening(t) THEN missed \ {t} ELSE missed \cup {t}
    /\ UNCHANGED <<view, changes, loading, token, lapsed, tickers, quotes, snapshot, refetches, drops, untold,
                   unlisted>>

\* The administrator activates or deactivates symbols.
SetActive(set) ==
    /\ view = "quotes"
    /\ set # Current.active
    /\ Change
    /\ feed' = Append(feed, [Current EXCEPT !.active = set])
    /\ conn' = IF IsConnected
               THEN [conn EXCEPT !.queue = Append(@, [kind |-> "symbols", active |-> set])] ELSE conn
    /\ untold' = ~IsConnected
    /\ UNCHANGED <<view, loading, token, lapsed, tickers, quotes, snapshot, refetches, drops, missed, unlisted>>

Next ==
    \/ \E k \in Keys : Choose(k) \/ Search(k)
    \/ \E a \in Accounts : SwitchAccount(a) \/ TokenChanges(a)
    \/ Retry
    \/ \E q \in requests : Arrives(q) \/ Fails(q)
    \/ SnapshotArrives \/ SnapshotFails \/ TokenLapses
    \/ Connect \/ ConnectRefused \/ ConnectFails \/ Reconnect \/ Disconnect
    \/ TickArrives \/ SymbolsArrive \/ RefetchArrives \/ RefetchFails
    \/ \E t \in Tickers : Tick(t)
    \/ \E set \in SUBSET Tickers : SetActive(set)

\* Every request and every attempt to connect is answered or fails in the end, a
\* connection that failed or was lost is tried again, attempts with a token in force do not
\* fail for ever, and what the server sent is delivered; nothing is asked of the user, the
\* market or the session: no token is renewed because a connection was refused.
Fairness ==
    /\ WF_vars(\E q \in requests : Arrives(q) \/ Fails(q))
    /\ WF_vars(SnapshotArrives \/ SnapshotFails)
    /\ WF_vars(RefetchArrives \/ RefetchFails)
    /\ WF_vars(Connect \/ ConnectRefused \/ ConnectFails)
    /\ WF_vars(Reconnect)
    /\ SF_vars(Connect)
    /\ WF_vars(TickArrives \/ SymbolsArrive)

Spec == Init /\ [][Next]_vars /\ Fairness

-----------------------------------------------------------------------------
(* Properties.                                                             *)

\* A panel and a resource show nothing but what was loaded for the key that is wanted
\* and, a resource, for the account that is signed in.
DataOfWanted ==
    view \in {"panel", "resource", "momentum"} /\ Shown.status = "success" =>
        /\ Shown.data.what = wanted.what
        /\ view = "resource" => Shown.data.owner = wanted.owner

\* A retry is refused only while a request is out, and one is while the view loads: an
\* error at rest can always be retried.
RetryWorks == view \in {"resource", "momentum"} => (busy <=> requests # {}) /\ (Status = "loading" => busy)

\* Once no search is out the screener shows the last one's results or an error, and
\* does not load.  (Unless an older answer came after a newer: nothing orders them.)
SearchIsLatest ==
    view = "search" /\ requests = {} =>
        /\ ~busy
        /\ ~latest.late /\ ~failed => result # None /\ result.n = latest.n /\ SearchShown = wanted

\* Once nothing is on its way, the quotes shown of the symbols known are the last ones,
\* with their names.  (But for ticks published while there was no connection, lost with
\* it, or overwritten by a slow snapshot: nothing asks for them again.  A symbol that the
\* last answer had not in it has no name either.)
QuotesKeepUp ==
    view = "quotes" /\ snapshot = None /\ refetches = {} /\ Queued = {} =>
        /\ ~untold => tickers = Current.active
        /\ \A t \in tickers \ missed :
               PriceShown(t) = Current.price[t] /\ (quotes[t].named \/ t \in unlisted)

ShownIsCurrent == DataOfWanted /\ RetryWorks /\ SearchIsLatest /\ QuotesKeepUp

\* Nothing loads for ever: in the end what is wanted is shown, or an error is; and in a
\* session with a symbol the quotes are connected, after any losses and failures, for the
\* symbols known.  (Unless the token lapsed: a connection that is lost then, or made for new
\* symbols, is refused every five seconds until the session renews its token, which nothing
\* here makes it do.)
Settled ==
    /\ view \in {"panel", "resource", "momentum"} => Status # "loading"
    /\ view = "search" => requests = {} /\ ~busy
    /\ view = "quotes" =>
          /\ snapshot = None /\ refetches = {} /\ Queued = {}
          /\ token # None /\ tickers # {} => conn # None /\ conn.to = tickers /\ (IsConnected \/ lapsed)

Settles == <>[]Settled
=============================================================================
