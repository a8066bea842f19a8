-------------------------------- MODULE RowLists --------------------------------
(***************************************************************************)
(* The pages that list rows of the server and change them one by one: the  *)
(* price alerts of a symbol, the stars of the stock list and of a symbol's *)
(* page, the administrator's users and symbols, the notifications; and two *)
(* forms over a single row, the chart's averages and the profile.          *)
(*                                                                         *)
(* Each page loads its rows once (the stars and the averages again when    *)
(* the session was refreshed), then sends a command per click and puts the *)
(* answer into what it shows.  One slot remembers which row is busy.  A    *)
(* load is answered with the rows of some moment since it was asked.       *)
(***************************************************************************)
EXTENDS Naturals, FiniteSets, Sequences

CONSTANTS Existing,    \* rows there are when the page is opened
          MaxCreated,  \* bound: rows the page adds
          MaxCommands, \* bound: commands of one visit
          MaxReloads,  \* bound: refreshes of the session
          NoRow        \* no row: of a table, of the dialog, of the slot

Pages == {"alerts", "stocks", "star", "users", "symbols", "inbox", "averages", "profile"}
Rows == 1..(Existing + MaxCreated)

\* What can be on or off of a row: a role and a suspension, being active, read, ...
Switches == {"first", "second"}
Values == [made : 0..MaxCommands, on : SUBSET Switches]   \* made: which row of that name it is
Tables == [Rows -> Values \cup {NoRow}]

ASSUME RowListsAssumption ==
    /\ {MaxCreated, MaxCommands, MaxReloads} \subseteq Nat
    /\ Existing \in Nat \ {0}
    /\ NoRow \notin Nat \cup Values
    /\ \A on \in SUBSET Switches : on # NoRow

VARIABLES
    page,     \* the page opened
    loaded,   \* ~isLoading: the rows may be used
    loads,    \* loads on their way: which, and how many server states there were when it was asked
    shown,    \* the rows shown, NoRow where there is none
    unread,   \* unreadCount of the notifications
    typed,    \* a form was typed into since it was last loaded or sent
    pending,  \* pendingId, deletingId, pendingTicker: the one row shown busy
    asked,    \* deleteTarget: the row in the dialog that confirms a deletion
    picked,   \* selectedKeys: symbols selected to be activated together
    jobs,     \* commands sent and not answered
    sent,     \* commands sent so far
    asks,     \* loads asked so far
    table,    \* server: its tables so far, the current one last
    wish,     \* history: per row, what the user last asked it to be
    excused   \* history: rows commanded at once from two places, or whose last answer
              \* was lost, doubled or older than what it replaced

mine == <<loaded, shown, unread, typed, pending, asked, picked>>
rowVars == <<page, mine, loads, jobs, sent, asks, table, wish, excused>>

Stored == table[Len(table)]

Jobs == [n : 1..MaxCommands, kind : {"create", "change", "delete", "bulk", "touch"},
         rows : SUBSET Rows, on : SUBSET Switches, made : 0..MaxCommands, step : {"sent", "served"}]

RowTypeOK ==
    /\ page \in Pages
    /\ {loaded, typed} \subseteq BOOLEAN
    /\ loads \subseteq [n : 1..(MaxReloads + 1), since : Nat \ {0}]
    /\ shown \in Tables
    /\ unread \in 0..Cardinality(Rows)
    /\ {pending, asked} \subseteq Rows \cup {NoRow}
    /\ picked \subseteq Rows
    /\ jobs \subseteq Jobs
    /\ \A j, k \in jobs : j.n = k.n => j = k
    /\ sent \in 0..MaxCommands /\ asks \in 1..(MaxReloads + 1)
    /\ table \in Seq(Tables) \ {<<>>}
    /\ wish \in [Rows -> (SUBSET Switches) \cup {NoRow}]
    /\ excused \subseteq Rows

-----------------------------------------------------------------------------
Blank == [made |-> 0, on |-> {}]

\* A page of one row: the symbol opened, the settings, the account.
Single == {"star", "averages", "profile"}

\* Stars may be on or off when the page is opened; saved averages may differ from the default ones.
InitialTables ==
    LET some == IF page \in Single THEN {1} ELSE 1..Existing
        values == CASE page \in {"stocks", "star"} -> {Blank, NoRow}
                    [] page = "averages" -> {Blank, [Blank EXCEPT !.on = {"first"}]}
                    [] OTHER -> {Blank}
    IN {t \in [Rows -> values \cup {NoRow}] : \A r \in Rows : IF r \in some THEN t[r] \in values ELSE t[r] = NoRow}

OnOf(v) == IF v = NoRow THEN NoRow ELSE v.on

RowsInit ==
    /\ page \in Pages
    /\ loaded = FALSE
    /\ loads = {[n |-> 1, since |-> 1]}
    /\ shown = [r \in Rows |-> IF page \in {"averages", "profile"} /\ r = 1 THEN Blank ELSE NoRow]
    /\ unread = 0 /\ typed = FALSE
    /\ pending = NoRow /\ asked = NoRow /\ picked = {}
    /\ jobs = {} /\ sent = 0 /\ asks = 1
    /\ \E t \in InitialTables : table = <<t>>
    /\ wish = [r \in Rows |-> OnOf(Stored[r])]
    /\ excused = {}

Busy(kind) == \E j \in jobs : j.kind = kind
JobsOn(r) == {j \in jobs : r \in j.rows}

\* (Mutated form: a busy row may be used.)
FreeAnyway(r) == TRUE

\* The controls of a row are busy while the slot names it.
Free(r) == pending # r

Slotted(kind) ==
    \/ page = "stocks"
    \/ page = "alerts" /\ kind = "delete"
    \/ page \in {"users", "symbols"} /\ kind \in {"change", "touch"}

\* History: a row is commanded while an earlier command for it is out, and no slot says so.
Overlap(rows, kind) == {r \in rows : JobsOn(r) # {} /\ (kind = "bulk" \/ pending # r)}

Send(kind, rows, on, made, asking) ==
    /\ sent < MaxCommands
    /\ sent' = sent + 1
    /\ jobs' = jobs \cup {[n |-> sent + 1, kind |-> kind, rows |-> rows, on |-> on, made |-> made, step |-> "sent"]}
    /\ pending' = IF Slotted(kind) THEN CHOOSE r \in rows : TRUE ELSE pending
    /\ wish' = [r \in Rows |-> IF r \in rows /\ kind # "touch" THEN asking ELSE wish[r]]
    /\ excused' = excused \cup Overlap(rows, kind)
    /\ UNCHANGED <<page, loaded, loads, shown, unread, typed, asked, picked, asks, table>>

-----------------------------------------------------------------------------
(* What the user does.  The dialog that confirms a deletion is modal.       *)

\* A price alert or a symbol is added; the form does not wait for the rows.
Create ==
    /\ page \in {"alerts", "symbols"} /\ asked = NoRow
    /\ ~Busy("create")
    /\ LET made == {r \in Rows : wish[r] # NoRow \/ \E i \in DOMAIN table : table[i][r] # NoRow}
                   \cup excused \cup UNION {j.rows : j \in jobs}
       IN \E r \in Rows \ made :
              /\ \A q \in Rows : q < r => q \in made
              /\ Send("create", {r}, {}, 0, {})

\* toggleWatchlist: by what is shown, a star is set or taken away.
Star(r) ==
    /\ \/ page = "stocks" /\ r <= Existing /\ Free(r)
       \/ page = "star" /\ r = 1 /\ loaded /\ jobs = {}
    /\ IF shown[r] = NoRow THEN Send("create", {r}, {}, 0, {})
                          ELSE Send("delete", {r}, {}, shown[r].made, NoRow)

Flip(set, s) == IF s \in set THEN set \ {s} ELSE set \cup {s}

\* changeRole, toggleSuspended, toggleActive: the row as shown, with one switch turned.
Turn(r, s) ==
    /\ page = "users" \/ (page = "symbols" /\ s = "first")
    /\ loaded /\ asked = NoRow /\ Free(r)
    /\ shown[r] # NoRow
    /\ Send("change", {r}, Flip(shown[r].on, s), shown[r].made,
            IF wish[r] = NoRow THEN NoRow ELSE Flip(wish[r], s))

\* revokeToken changes nothing that is shown.
Revoke(r) ==
    /\ page = "users" /\ loaded /\ asked = NoRow /\ Free(r)
    /\ shown[r] # NoRow
    /\ Send("touch", {r}, {}, 0, NoRow)

\* openNotification, of one that is not read
Open(r) ==
    /\ page = "inbox" /\ loaded
    /\ shown[r] # NoRow /\ shown[r].on = {}
    /\ Send("change", {r}, {"first"}, shown[r].made, {"first"})

MarkAllRead ==
    /\ page = "inbox"
    /\ unread # 0
    /\ Send("bulk", {r \in Rows : Stored[r] # NoRow}, {"first"}, 0, {"first"})

Pick(r) ==
    /\ page = "symbols" /\ loaded /\ asked = NoRow
    /\ shown[r] # NoRow /\ shown[r].on = {}
    /\ picked' = (IF r \in picked THEN picked \ {r} ELSE picked \cup {r})
    /\ UNCHANGED <<page, loaded, shown, unread, typed, pending, asked, loads, jobs, sent, asks, table,
                   wish, excused>>

\* handleBulkActivate, confirmed: what is selected may since have been changed or deleted.
ActivatePicked ==
    /\ page = "symbols" /\ asked = NoRow /\ picked # {}
    /\ ~Busy("bulk")
    /\ Send("bulk", {r \in picked : Stored[r] # NoRow}, {"first"}, 0, {"first"})

\* An alert is deleted by its button.
Delete(r) ==
    /\ page = "alerts" /\ loaded /\ Free(r)
    /\ shown[r] # NoRow
    /\ Send("delete", {r}, {}, shown[r].made, NoRow)

AskDelete(r) ==
    /\ page \in {"users", "symbols"} /\ loaded /\ asked = NoRow
    /\ shown[r] # NoRow
    /\ asked' = r
    /\ UNCHANGED <<page, loaded, shown, unread, typed, pending, picked, loads, jobs, sent, asks, table,
                   wish, excused>>

DismissDelete ==
    /\ asked # NoRow
    /\ asked' = NoRow
    /\ UNCHANGED <<page, loaded, shown, unread, typed, pending, picked, loads, jobs, sent, asks, table,
                   wish, excused>>

ConfirmDelete ==
    /\ asked # NoRow
    /\ ~Busy("delete")
    /\ shown[asked] # NoRow
    /\ Send("delete", {asked}, {}, shown[asked].made, NoRow)

Type(s) ==
    /\ page \in {"averages", "profile"}
    /\ shown' = [shown EXCEPT ![1].on = Flip(@, s)]
    /\ typed' = TRUE
    /\ UNCHANGED <<page, loaded, unread, pending, asked, picked, loads, jobs, sent, asks, table, wish, excused>>

\* saveSmaSettings, saveProfile: the form as it is.
Save ==
    /\ \/ page = "averages" /\ jobs = {}
       \/ page = "profile" /\ loaded
    /\ sent < MaxCommands
    /\ sent' = sent + 1
    /\ jobs' = jobs \cup {[n |-> sent + 1, kind |-> "change", rows |-> {1}, on |-> shown[1].on,
                           made |-> 0, step |-> "sent"]}
    /\ typed' = FALSE
    /\ wish' = [wish EXCEPT ![1] = shown[1].on]
    /\ excused' = excused \cup Overlap({1}, "change")
    /\ UNCHANGED <<page, loaded, loads, shown, unread, pending, asked, picked, asks, table>>

\* A refreshed session brings another user object; its load drops the last one but on the stock list.
SessionRefreshed ==
    /\ page \in {"stocks", "star", "averages"}
    /\ asks <= MaxReloads
    /\ asks' = asks + 1
    /\ loads' = (IF page = "stocks" THEN loads ELSE {}) \cup {[n |-> asks + 1, since |-> Len(table)]}
    /\ UNCHANGED <<page, mine, jobs, sent, table, wish, excused>>

-----------------------------------------------------------------------------
(* What the server does with a command.                                     *)

Served(j, r) ==
    CASE j.kind = "create" -> [made |-> j.n, on |-> {}]
      [] j.kind = "delete" -> NoRow
      [] OTHER -> IF Stored[r] = NoRow THEN NoRow ELSE [Stored[r] EXCEPT !.on = j.on]

\* What is there is not added again, and what is gone is neither changed nor deleted, by its id.
Accepted(j) ==
    \A r \in j.rows :
        CASE j.kind = "create" -> Stored[r] = NoRow
          [] j.kind = "bulk" -> TRUE
          [] OTHER -> Stored[r] # NoRow /\ (j.kind = "delete" => Stored[r].made = j.made)

Serve(j) ==
    /\ j.step = "sent"
    /\ Accepted(j)
    /\ table' = IF j.kind = "touch" THEN table
                ELSE Append(table, [r \in Rows |-> IF r \in j.rows THEN Served(j, r) ELSE Stored[r]])
    /\ jobs' = (jobs \ {j}) \cup {[j EXCEPT !.step = "served"]}
    /\ UNCHANGED <<page, mine, loads, sent, asks, wish, excused>>

-----------------------------------------------------------------------------
(* What the page does with the answers.                                     *)

\* (Mutated form: counts below zero.)
OneLessAnyway(n) == n - 1

OneLess(n) == IF n = 0 THEN 0 ELSE n - 1

\* A row as an answer leaves it: added, replaced if there, or taken out by its id.
Answered(j, r) ==
    CASE j.kind = "create" -> [made |-> j.n, on |-> {}]
      [] j.kind \in {"change", "bulk"} -> IF page = "profile" \/ shown[r] = NoRow THEN shown[r]
                                          ELSE [shown[r] EXCEPT !.on = j.on]
      [] j.kind = "delete" -> IF page # "star" /\ shown[r] # NoRow /\ shown[r].made # j.made THEN shown[r] ELSE NoRow
      [] OTHER -> shown[r]

Released(j) == IF Slotted(j.kind) THEN NoRow ELSE pending

AnswerArrives(j) ==
    /\ j.step = "served"
    /\ jobs' = jobs \ {j}
    /\ shown' = [r \in Rows |-> IF r \in j.rows \/ (page = "inbox" /\ j.kind = "bulk")
                                THEN Answered(j, r) ELSE shown[r]]
    /\ unread' = CASE page # "inbox" -> unread
                   [] j.kind = "bulk" -> 0
                   [] OTHER -> OneLess(unread)
    /\ typed' = (typed /\ page # "averages")
    /\ pending' = Released(j)
    /\ asked' = IF j.kind = "delete" THEN NoRow ELSE asked
    /\ picked' = IF page = "symbols" /\ j.kind = "bulk" THEN {} ELSE picked
    /\ excused' = IF j.kind = "create" /\ page # "star"
                  THEN excused \cup {r \in j.rows : shown[r] # NoRow}   \* it was in the load: listed twice
                  ELSE excused
    /\ UNCHANGED <<page, loaded, loads, sent, asks, table, wish>>

\* A command is refused, or its answer lost.
CommandFails(j) ==
    /\ jobs' = jobs \ {j}
    /\ pending' = Released(j)
    /\ typed' = (typed \/ page \in {"averages", "profile"})
    /\ wish' = [r \in Rows |-> IF r \in j.rows /\ j.step = "sent" THEN OnOf(Stored[r]) ELSE wish[r]]
    /\ excused' = excused \cup {r \in j.rows : j.step = "served" \/ \E k \in JobsOn(r) : k # j}
    /\ UNCHANGED <<page, loaded, loads, shown, unread, asked, picked, sent, asks, table>>

Unread(t) == Cardinality({r \in Rows : t[r] # NoRow /\ t[r].on = {}})

\* An answer that is still to come brings the row up to date.
WillFollow(r, v) ==
    \E j \in JobsOn(r) :
        /\ j.step = "served"
        /\ CASE j.kind = "create" -> v = NoRow
             [] j.kind = "delete" -> v # NoRow /\ v.made = j.made
             [] j.kind = "touch" -> FALSE
             [] OTHER -> v # NoRow

LoadArrives ==
    \E l \in loads : \E i \in l.since..Len(table) :
        /\ loads' = loads \ {l}
        /\ loaded' = TRUE
        /\ shown' = table[i]
        /\ unread' = IF page = "inbox" THEN Unread(table[i]) ELSE unread
        /\ typed' = FALSE
        /\ excused' = excused \cup {r \in Rows : table[i][r] # Stored[r] /\ ~WillFollow(r, table[i][r])}
        /\ UNCHANGED <<page, pending, asked, picked, jobs, sent, asks, table, wish>>

\* The tables are then shown empty, the star off, the averages as they were; the profile stays closed.
LoadFails ==
    \E l \in loads :
        /\ loads' = loads \ {l}
        /\ loaded' = (page # "profile" \/ loaded)
        /\ shown' = IF page = "star" THEN [shown EXCEPT ![1] = NoRow] ELSE shown
        /\ excused' = excused \cup {r \in Rows : shown'[r] # Stored[r] /\ ~WillFollow(r, shown'[r])}
        /\ UNCHANGED <<page, unread, typed, pending, asked, picked, jobs, sent, asks, table, wish>>

RowsNext ==
    \/ Create \/ MarkAllRead \/ ActivatePicked \/ DismissDelete \/ ConfirmDelete \/ Save \/ SessionRefreshed
    \/ \E r \in Rows : Star(r) \/ Revoke(r) \/ Open(r) \/ Pick(r) \/ Delete(r) \/ AskDelete(r)
    \/ \E r \in Rows, s \in Switches : Turn(r, s)
    \/ \E s \in Switches : Type(s)
    \/ \E j \in jobs : Serve(j) \/ AnswerArrives(j) \/ CommandFails(j)
    \/ LoadArrives \/ LoadFails

RowsSpec == RowsInit /\ [][RowsNext]_rowVars

-----------------------------------------------------------------------------
(* Properties.                                                             *)

\* A row at rest, in a page that has loaded, is shown as the server has it; so is
\* the number of unread notifications.
RowsAsServed ==
    loaded /\ loads = {} =>
        /\ \A r \in Rows \ excused : JobsOn(r) = {} /\ ~typed => shown[r] = Stored[r]
        /\ page = "inbox" /\ jobs = {} /\ excused = {} => unread = Unread(shown)

\* A row at rest is at the server what the user last asked it to be: a command that
\* sends the whole row as shown never undoes another one of the same page.
ServerAsAsked ==
    \A r \in Rows \ excused : JobsOn(r) = {} => OnOf(Stored[r]) = wish[r]

\* (Rows are excused that were commanded while the one slot named another row, whose
\* answer was lost, or which a slow load set back: nothing in the pages guards these.)
ListFollowsServer == RowsAsServed /\ ServerAsAsked
=============================================================================
