------------------------------ MODULE PortfolioPage ------------------------------
(***************************************************************************)
(* The portfolio page: cards to select a portfolio, and of the selected    *)
(* one its positions, ledger and strategy, with forms that record a trade, *)
(* save a weight limit or a thesis, create a portfolio and delete one.     *)
(*                                                                         *)
(* Selecting starts a load of all three parts, which drops the one before; *)
(* a form that has written asks for the parts it changed, and these answers *)
(* are taken whatever is selected by then.  A read is answered with the    *)
(* data of some moment between the question and the answer.                *)
(***************************************************************************)
EXTENDS Naturals, FiniteSets, Sequences

CONSTANTS Existing,   \* how many portfolios there are when the page is opened
          MaxCreated, \* bound: portfolios created
          MaxTrades,  \* bound: trades filled in
          MaxSaves,   \* bound: strategy changes of a portfolio
          MaxForms,   \* bound: forms used in one visit
          None

Portfolios == 1..(Existing + MaxCreated)   \* in the order of their creation
Trades == 1..MaxTrades
Parts == {"positions", "ledger", "strategy"}
Forms == {"trade", "rule", "thesis", "create", "delete"}

\* Forms busy until the answers have come; the form of a new portfolio is gone by then.
Awaiting == Forms \ {"create"}

VARIABLES
    uses,        \* the forms the user uses, chosen initially
    list,        \* portfolios shown, None until they are loaded
    listFailed,  \* loadError: the cards are replaced by an error
    selected,    \* portfolio clicked, created or left over, None if none
    load,        \* the load of the selected one's parts, None if none
    shown,       \* per part: whose is shown, and which revision of it
    limit,       \* whose weight limit the form shows (a typed one: for whom), None if none
    editing,     \* whose thesis is being revised, None if a new one is entered
    form,        \* the trade filled in, 0 if none
    filled,      \* trades filled in so far
    asked,       \* portfolio in the dialog that confirms a deletion, None if closed
    named,       \* portfolio made for the name in the form and not acknowledged, None if none
    job,         \* per form: what it is doing, None if it is idle
    reads,       \* answers the forms are waiting for, or no longer are
    roster,      \* server: the sets of portfolios there have been, the current one last
    books,       \* server: per portfolio, the trades recorded
    plans,       \* server: per portfolio, the number of strategy changes
    excused      \* history: parts whose last answer was another portfolio's, overtaken or lost

server == <<roster, books, plans>>
inputs == <<limit, editing, form, filled, asked, named>>
vars == <<uses, list, listFailed, selected, load, shown, inputs, job, reads, server, excused>>

Current == roster[Len(roster)]

Revision(part, p) == IF part = "strategy" THEN plans[p] ELSE Cardinality(books[p])

Revisions == 0..(MaxTrades + MaxSaves)
Jobs == [of : Portfolios, step : {"sent", "done", "reading"}, what : 0..MaxTrades \cup Portfolios]
PartReads == [part : Parts, of : Portfolios, since : Revisions, by : Forms \cup {None}]
ListReads == [part : {"list"}, of : {None}, since : Nat \ {0}, by : Forms \cup {"mount", None}]
Loads == [Parts -> Revisions]
Copies == [of : Portfolios, rev : Revisions]

ASSUME PortfolioAssumption ==
    /\ {Existing, MaxCreated, MaxTrades, MaxSaves, MaxForms} \subseteq Nat
    /\ None \notin Nat \cup Forms \cup Jobs \cup Loads \cup Copies

TypeOK ==
    /\ uses \subseteq Forms
    /\ list \in (SUBSET Portfolios) \cup {None}
    /\ listFailed \in BOOLEAN
    /\ {selected, limit, editing, asked, named} \subseteq Portfolios \cup {None}
    /\ load \in Loads \cup {None}
    /\ shown \in [Parts -> Copies \cup {None}]
    /\ form \in 0..MaxTrades /\ filled \in 0..MaxTrades
    /\ job \in [Forms -> Jobs \cup {None}]
    /\ \A r \in reads : r \in PartReads \cup ListReads
    /\ \A r \in reads : r.by \in Awaiting => job[r.by] # None /\ job[r.by].step = "reading"
    /\ roster \in Seq(SUBSET Portfolios) \ {<<>>}
    /\ books \in [Portfolios -> SUBSET Trades]
    /\ plans \in [Portfolios -> 0..MaxSaves]
    /\ excused \subseteq Parts

First(ps) == CHOOSE p \in ps : \A q \in ps : p <= q

\* effectiveSelectedId: by default the first portfolio is selected.
Effective ==
    IF selected # None THEN selected
    ELSE IF list \in {None, {}} THEN None ELSE First(list)

StartLoad(p) == IF p = None THEN None ELSE [part \in Parts |-> Revision(part, p)]

ListRead(by) == [part |-> "list", of |-> None, since |-> Len(roster), by |-> by]
PartRead(part, p, by) == [part |-> part, of |-> p, since |-> Revision(part, p), by |-> by]

Init ==
    /\ uses \in {u \in SUBSET Forms : Cardinality(u) = MaxForms}
    /\ list = None /\ listFailed = FALSE
    /\ selected = None
    /\ load = None
    /\ shown = [part \in Parts |-> None]
    /\ limit = None /\ editing = None
    /\ form = 0 /\ filled = 0
    /\ asked = None /\ named = None
    /\ job = [f \in Forms |-> None]
    /\ roster = <<1..Existing>>
    /\ books = [p \in Portfolios |-> {}]
    /\ plans = [p \in Portfolios |-> 0]
    /\ reads = {ListRead("mount")}
    /\ excused = {}

\* The effect on effectiveSelectedId: another one's load takes the place of the last.
Reload == load' = IF Effective' # Effective THEN StartLoad(Effective') ELSE load

-----------------------------------------------------------------------------
(* What the user does.  The dialog that confirms a deletion is modal.       *)

CardsShown == list # None /\ ~listFailed /\ asked = None

\* The forms of the selected portfolio.
FormsShown == list # None /\ Effective \in list /\ asked = None

Select(p) ==
    /\ CardsShown
    /\ p \in list
    /\ selected' = p
    /\ UNCHANGED list
    /\ Reload
    /\ UNCHANGED <<uses, listFailed, shown, inputs, job, reads, server, excused>>

\* Another trade is entered, over the last one or after it was recorded.
FillTrade ==
    /\ "trade" \in uses
    /\ FormsShown
    /\ filled < MaxTrades
    /\ filled' = filled + 1
    /\ form' = filled + 1
    /\ UNCHANGED <<uses, list, listFailed, selected, load, shown, limit, editing, asked, named,
                   job, reads, server, excused>>

TypeLimit ==
    /\ "rule" \in uses
    /\ FormsShown
    /\ limit' = Effective
    /\ UNCHANGED <<uses, list, listFailed, selected, load, shown, editing, form, filled, asked, named,
                   job, reads, server, excused>>

\* editThesis of a thesis shown, or the button that gives the revision up
EditThesis ==
    /\ "thesis" \in uses
    /\ FormsShown
    /\ \/ /\ shown["strategy"] # None
          /\ shown["strategy"].of = Effective
          /\ shown["strategy"].rev > 0
          /\ editing' = Effective
       \/ editing # None /\ editing' = None
    /\ UNCHANGED <<uses, list, listFailed, selected, load, shown, limit, form, filled, asked, named,
                   job, reads, server, excused>>

AskDelete ==
    /\ "delete" \in uses
    /\ FormsShown
    /\ asked' = Effective
    /\ UNCHANGED <<uses, list, listFailed, selected, load, shown, limit, editing, form, filled, named,
                   job, reads, server, excused>>

\* The dialog can be closed while the deletion is on its way.
CancelDelete ==
    /\ asked # None
    /\ asked' = None
    /\ UNCHANGED <<uses, list, listFailed, selected, load, shown, limit, editing, form, filled, named,
                   job, reads, server, excused>>

\* isSavingStrategy is shared by two forms.
Busy(f) == \E g \in Forms : job[g] # None /\ (g = f \/ {f, g} = {"rule", "thesis"})

\* A form sends its request; one that is busy does not.
Send(f, p, what) ==
    /\ f \in uses
    /\ ~Busy(f)
    /\ job' = [job EXCEPT ![f] = [of |-> p, step |-> "sent", what |-> what]]
    /\ UNCHANGED <<uses, list, listFailed, selected, load, shown, inputs, reads, server, excused>>

RecordTrade == FormsShown /\ form # 0 /\ Send("trade", Effective, form)

SaveWeightRule ==
    FormsShown /\ limit # None /\ plans[Effective] < MaxSaves /\ Send("rule", Effective, 0)

\* A thesis is revised by its id, whatever portfolio is selected.
SaveThesis ==
    /\ FormsShown
    /\ plans[Effective] < MaxSaves
    /\ Send("thesis", Effective, IF editing = None THEN 0 ELSE editing)

\* The name goes by the same key until its creation is acknowledged.
CreatePortfolio ==
    LET made == UNION {roster[i] : i \in DOMAIN roster}
        p == IF named # None THEN named ELSE Cardinality(made) + 1
    IN CardsShown /\ p \in Portfolios /\ Send("create", p, 0)

ConfirmDelete == asked # None /\ Send("delete", asked, 0)

-----------------------------------------------------------------------------
(* What the server does with a request.                                     *)

\* The entry and the position it changes are written together; a repeated one is known by its key.
RecordsTrade(p, trade) ==
    /\ p \in Current
    /\ books' = [books EXCEPT ![p] = @ \cup {trade}]
    /\ UNCHANGED <<roster, plans, named>>

PutsRule(p) ==
    /\ p \in Current
    /\ plans' = [plans EXCEPT ![p] = @ + 1]
    /\ UNCHANGED <<roster, books, named>>

\* A new thesis, or the next revision of one of this portfolio.
SavesThesis(p, revised) ==
    /\ revised \in {0, p}
    /\ PutsRule(p)

\* A repeated request is answered with the portfolio that was made.
CreatesPortfolio(p) ==
    /\ roster' = IF named = p THEN roster ELSE Append(roster, Current \cup {p})
    /\ named' = p
    /\ UNCHANGED <<books, plans>>

\* A portfolio with trades is kept.
DeletesPortfolio(p) ==
    /\ p \in Current
    /\ books[p] = {}
    /\ roster' = Append(roster, Current \ {p})
    /\ UNCHANGED <<books, plans, named>>

Write(f) ==
    \/ f = "trade" /\ RecordsTrade(job[f].of, job[f].what)
    \/ f = "rule" /\ PutsRule(job[f].of)
    \/ f = "thesis" /\ SavesThesis(job[f].of, job[f].what)
    \/ f = "create" /\ CreatesPortfolio(job[f].of)
    \/ f = "delete" /\ DeletesPortfolio(job[f].of)

Serve(f) ==
    /\ job[f] # None
    /\ job[f].step = "sent"
    /\ Write(f)
    /\ job' = [job EXCEPT ![f].step = "done"]
    /\ UNCHANGED <<uses, list, listFailed, selected, load, shown, limit, editing, form, filled, asked,
                   reads, excused>>

-----------------------------------------------------------------------------
(* What the page does with the answers.                                     *)

\* (Mutated form: the trade's ledger is not asked for.)
ReadAfterLess(f) ==
    CASE f = "trade" -> {PartRead("positions", job[f].of, f), ListRead(f)}
      [] f \in {"rule", "thesis"} -> {PartRead("strategy", job[f].of, f)}
      [] OTHER -> {ListRead(f)}

\* What a form asks for when it has written.
ReadAfter(f) ==
    CASE f = "trade" -> {PartRead("positions", job[f].of, f), PartRead("ledger", job[f].of, f), ListRead(f)}
      [] f \in {"rule", "thesis"} -> {PartRead("strategy", job[f].of, f)}
      [] OTHER -> {ListRead(f)}

\* The form is cleared; a new portfolio is selected.
Answered(f) ==
    /\ job[f] # None
    /\ job[f].step = "done"
    /\ job' = IF f \in Awaiting THEN [job EXCEPT ![f].step = "reading"] ELSE [job EXCEPT ![f] = None]
    /\ reads' = reads \cup ReadAfter(f)
    /\ form' = IF f = "trade" THEN 0 ELSE form
    /\ editing' = IF f = "thesis" THEN None ELSE editing
    /\ named' = IF f = "create" THEN None ELSE named
    /\ selected' = IF f = "create" THEN job[f].of ELSE selected
    /\ UNCHANGED list
    /\ Reload
    /\ UNCHANGED <<uses, listFailed, shown, limit, filled, asked, server, excused>>

PartsOf(f) ==
    CASE f = "trade" -> {"positions", "ledger"} [] f \in {"rule", "thesis"} -> {"strategy"} [] OTHER -> {}

\* A request is refused or its answer lost; the reads it would have caused are not made.
Fails(f) ==
    /\ job[f] # None
    /\ job[f].step # "reading"
    /\ excused' = IF job[f].step = "done" THEN excused \cup PartsOf(f) ELSE excused
    /\ job' = [job EXCEPT ![f] = None]
    /\ asked' = IF f = "delete" THEN None ELSE asked
    /\ UNCHANGED <<uses, list, listFailed, selected, load, shown, limit, editing, form, filled, named,
                   reads, server>>

\* (Mutated form: the form is ready again with its first answer.)
TakeReadAsLast(r) ==
    /\ r \in reads
    /\ reads' = reads \ {r}
    /\ job' = [f \in Forms |-> IF f = r.by /\ f \in Awaiting THEN None ELSE job[f]]

\* The form is ready again when its last answer has come.
TakeRead(r) ==
    /\ r \in reads
    /\ reads' = reads \ {r}
    /\ job' = [f \in Forms |-> IF f = r.by /\ f \in Awaiting /\ {q \in reads \ {r} : q.by = f} = {}
                             THEN None ELSE job[f]]

\* Of the answers with several parts, each part has its own moment.
Answers(part, p, since) == {[of |-> p, rev |-> rev] : rev \in since..Revision(part, p)}

\* History: whether the answer speaks for the selected portfolio as it is.
Excuse(part, p, since) ==
    excused' = IF p = Effective /\ since = Revision(part, p) THEN excused \ {part} ELSE excused \cup {part}

\* refreshPositions, refreshTransactions, refreshStrategy, for the portfolio of the form
PartArrives ==
    \E r \in {q \in reads : q.part \in Parts} :
        /\ TakeRead(r)
        /\ \E a \in Answers(r.part, r.of, r.since) : shown' = [shown EXCEPT ![r.part] = a]
        /\ limit' = IF r.part = "strategy" THEN r.of ELSE limit
        /\ Excuse(r.part, r.of, r.since)
        /\ UNCHANGED <<uses, list, listFailed, selected, load, editing, form, filled, asked, named, server>>

\* After a deletion the first of those left is selected, and the dialog closed.
ListArrives ==
    \E r \in {q \in reads : q.part = "list"} :
        /\ TakeRead(r)
        /\ \E i \in r.since..Len(roster) : list' = roster[i]
        /\ listFailed' = FALSE
        /\ IF r.by = "delete"
           THEN /\ selected' = IF list' = {} THEN None ELSE First(list')
                /\ asked' = None
           ELSE UNCHANGED <<selected, asked>>
        /\ Reload
        /\ UNCHANGED <<uses, shown, limit, editing, form, filled, named, server, excused>>

\* The form is ready at the first failure; its other answers are still to come.
ReadFails ==
    \E r \in reads :
        /\ reads' = {IF q.by = r.by THEN [q EXCEPT !.by = None] ELSE q : q \in reads \ {r}}
        /\ job' = [f \in Forms |-> IF f = r.by /\ f \in Awaiting THEN None ELSE job[f]]
        /\ listFailed' = (listFailed \/ r.by \in {"mount", "create"})
        /\ asked' = IF r.by = "delete" THEN None ELSE asked
        /\ excused' = excused \cup ({r.part} \cap Parts)
        /\ UNCHANGED <<uses, list, selected, load, shown, limit, editing, form, filled, named, server>>

LoadArrives ==
    /\ load # None
    /\ \E a \in Answers("positions", Effective, load["positions"]),
          b \in Answers("ledger", Effective, load["ledger"]),
          c \in Answers("strategy", Effective, load["strategy"]) :
          shown' = [positions |-> a, ledger |-> b, strategy |-> c]
    /\ limit' = Effective
    /\ excused' = {part \in Parts : load[part] # Revision(part, Effective)}
    /\ load' = None
    /\ UNCHANGED <<uses, list, listFailed, selected, editing, form, filled, asked, named, job, reads, server>>

LoadFails ==
    /\ load # None
    /\ load' = None
    /\ excused' = Parts
    /\ UNCHANGED <<uses, list, listFailed, selected, shown, inputs, job, reads, server>>

Next ==
    \/ \E p \in Portfolios : Select(p)
    \/ FillTrade \/ TypeLimit \/ EditThesis \/ AskDelete \/ CancelDelete
    \/ RecordTrade \/ SaveWeightRule \/ SaveThesis \/ CreatePortfolio \/ ConfirmDelete
    \/ \E f \in Forms : Serve(f) \/ Answered(f) \/ Fails(f)
    \/ PartArrives \/ ListArrives \/ ReadFails \/ LoadArrives \/ LoadFails

Spec == Init /\ [][Next]_vars

-----------------------------------------------------------------------------
(* Properties.                                                             *)

\* What a table shows: a spinner, unless the part that was loaded is the selected portfolio's.
RowsShown(part) ==
    IF shown[part] # None /\ shown[part].of = Effective THEN shown[part].rev ELSE None

AtRest(part) ==
    /\ load = None
    /\ \A r \in reads : r.part # part
    /\ \A f \in Forms : part \in PartsOf(f) => job[f] = None \/ job[f].step = "sent"

\* Once its requests are over, the page shows the selected portfolio's positions,
\* ledger and strategy, and as the server has them: a form that wrote to it leaves
\* nothing stale behind, and no switch leaves the spinner.  (Unless the last answer
\* was another portfolio's, a failure, or overtaken by a write: nothing guards these.)
PartsAreCurrent ==
    \A part \in Parts \ excused :
        AtRest(part) /\ Effective # None =>
            RowsShown(part) = Revision(part, Effective)

\* The weight limit the form would save is then the selected portfolio's own.
LimitIsItsOwn ==
    "strategy" \notin excused /\ load = None /\ Effective # None => limit = Effective

PageOfSelected == PartsAreCurrent /\ LimitIsItsOwn
=============================================================================
