------------------------------ MODULE SavedRecords ------------------------------
(***************************************************************************)
(* The panels that make records and keep a list of them: period            *)
(* validations and cost analyses of the auto-trading page, portfolio       *)
(* designs, backtests, investment reviews and stock reports.               *)
(*                                                                         *)
(* A panel loads its list, creates a record by a POST that may be lost, and *)
(* opens an older record.  The panels differ in how they name a repeated   *)
(* request (a key in memory, or in sessionStorage), in what makes them     *)
(* forget it, and in whether they tell a late answer from a fresh one.  A  *)
(* behaviour is about one panel, chosen initially.                         *)
(***************************************************************************)
EXTENDS Naturals, FiniteSets

CONSTANTS MaxKeys,     \* bound: idempotency keys drawn, one at least per record
          Conditions,  \* what the form of a design can ask for
          Live, Refused, None

ASSUME RecordsAssumption ==
    /\ MaxKeys \in Nat \ {0}
    /\ Conditions # {} /\ None \notin Conditions
    /\ {Live, Refused, None} \cap (Nat \cup BOOLEAN) = {} /\ Live # None

Keys == 1..MaxKeys
Records == Keys   \* the record made for key k is called k

Panels == {"validation", "cost", "design", "backtest", "review", "report"}

\* The key of a request with unknown outcome is kept in the panel's state, or by
\* idempotentPost in sessionStorage, a key per request body.
KeyInMemory == {"validation", "cost", "design"}
KeyInSession == Panels \ KeyInMemory

\* A 4xx makes these forget the key, the others forget it on success only.
ForgetsOnRefusal == {"validation", "cost"}

\* Panels that number their creations to drop the lists asked for before.
Stamped == {"validation", "cost"}

VARIABLES
    panel,
    list,        \* records in the list shown
    load,        \* the list on its way
    post,        \* the creation on its way
    selected,    \* the record selected, None if none
    opening,     \* the record on its way, None if none
    shown,       \* the record loaded last, None if none
    pending,     \* key of a creation with unknown outcome, 0 if none
    form,        \* design: what the form asks for
    computing,   \* design: what a comparison on its way was asked for
    resultOf,    \* design: what the result shown was computed for
    dirty,       \* design: the result is shown as one of other conditions
    live,        \* review: current market data on their way, and still wanted
    data,        \* review: the record whose market data are shown, or Live
    made,        \* server: keys a record was made for
    stray,       \* server: requests given up by the panel and not served yet
    wish,        \* history: first key of the user's wish, 0 once its outcome is known
    wishOf       \* history: per key the wish it was drawn for, 0 if not drawn

designer == <<form, computing, resultOf, dirty>>
market == <<live, data>>
server == <<made, stray>>
history == <<wish, wishOf>>
choice == <<selected, opening, shown>>
vars == <<panel, list, load, post, choice, pending, designer, market, server, history>>

\* fresh: no creation was begun since; overlaps: one was under way at the start
Loads == [fresh : BOOLEAN, overlaps : BOOLEAN, answer : (SUBSET Records) \cup {None}]
Posts == [key : Keys, answer : Records \cup {Refused, None}]

TypeOK ==
    /\ panel \in Panels
    /\ list \subseteq made
    /\ load \in Loads \cup {None}
    /\ post \in Posts \cup {None}
    /\ {selected, opening, shown} \subseteq made \cup {None}
    /\ pending \in 0..MaxKeys
    /\ form \in Conditions
    /\ {computing, resultOf} \subseteq Conditions \cup {None}
    /\ dirty \in BOOLEAN
    /\ live \in BOOLEAN \cup {None}
    /\ data \in made \cup {Live, None}
    /\ made \subseteq Records
    /\ stray \subseteq Keys
    /\ wish \in 0..MaxKeys
    /\ wishOf \in [Keys -> 0..MaxKeys]

\* What the panel asks for when it is mounted.
FirstLoad == [fresh |-> TRUE, overlaps |-> FALSE, answer |-> None]
FirstLive == IF panel = "review" THEN TRUE ELSE None

Init ==
    /\ panel \in Panels
    /\ list = {}
    /\ load = FirstLoad
    /\ post = None
    /\ selected = None /\ opening = None /\ shown = None
    /\ pending = 0
    /\ form \in Conditions /\ computing = None /\ resultOf = None /\ dirty = FALSE
    /\ live = FirstLive
    /\ data = None
    /\ made = {} /\ stray = {}
    /\ wish = 0 /\ wishOf = [k \in Keys |-> 0]

\* busy, recordBusy, isRunning: opening is part of it where a button does it.
Busy ==
    \/ post # None
    \/ computing # None
    \/ opening # None /\ panel \in {"design", "review"}

-----------------------------------------------------------------------------
(* The list.                                                               *)

\* A tab shown again drops the list on its way; the other buttons are disabled.
Refresh ==
    /\ panel \in {"validation", "design", "report"}
    /\ panel # "validation" => load = None
    /\ panel = "design" => ~Busy
    /\ load' = [FirstLoad EXCEPT !.overlaps = (post # None)]
    /\ UNCHANGED <<panel, list, post, choice, pending, designer, market, server, history>>

ListIsServed ==
    /\ load # None
    /\ load.answer = None
    /\ load' = [load EXCEPT !.answer = made]
    /\ UNCHANGED <<panel, list, post, choice, pending, designer, market, server, history>>

Newest(records) == CHOOSE r \in records : \A q \in records : r >= q

\* The newest record is selected, by the validation panel if none is, and the
\* effect of a selection asks for it.
Preselect(records) ==
    IF records # {} /\ (panel = "cost" \/ (panel = "validation" /\ selected = None))
    THEN /\ selected' = Newest(records)
         /\ opening' = Newest(records)
    ELSE UNCHANGED <<selected, opening>>

\* stamp === generation.current, in the panels that have it
Wanted == panel \in Stamped => load.fresh

ListArrives ==
    /\ load # None
    /\ \/ /\ load.answer # None
          /\ Wanted
          /\ list' = load.answer
          /\ Preselect(load.answer)
       \/ UNCHANGED <<list, selected, opening>>
    /\ load' = None
    /\ UNCHANGED <<panel, post, shown, pending, designer, market, server, history>>

-----------------------------------------------------------------------------
(* Creation.                                                               *)

\* (Mutated form: the lists asked for before are taken for fresh.)
BumpNever == UNCHANGED load

\* generation.current++
Bump == load' = IF load # None /\ panel \in Stamped THEN [load EXCEPT !.fresh = FALSE] ELSE load

Drawn == Cardinality({k \in Keys : wishOf[k] # 0})

\* A request repeated keeps its key; anew, it is another request (the one before is
\* not taken up again).
KeyFor(anew) == IF pending # 0 /\ ~anew THEN pending ELSE Drawn + 1

\* (Mutated form: a design can be saved before there is one.)
CanCreateAnyway ==
    /\ ~Busy
    /\ panel = "design" => ~dirty
    /\ panel = "review" => shown = None

\* A design is saved only as it was computed, a review only when none is shown.
CanCreate ==
    /\ ~Busy
    /\ panel = "design" => resultOf # None /\ ~dirty
    /\ panel = "review" => shown = None

Create(anew) ==
    LET k == KeyFor(anew)
        first == IF wish = 0 \/ anew THEN k ELSE wish
    IN  /\ CanCreate
        /\ k \in Keys
        /\ anew => panel \in {"design", "backtest"}
        /\ post' = [key |-> k, answer |-> None]
        /\ pending' = k
        /\ Bump
        /\ wish' = first
        /\ wishOf' = [wishOf EXCEPT ![k] = IF @ = 0 THEN first ELSE @]
        /\ UNCHANGED <<panel, list, choice, designer, market, server>>

\* A key makes one record, however often it comes: the answer to it is that record.
RecordIsMade(k) == made' = made \cup {k}

\* Conditions or dates that are not allowed, too many records; a key that made one is not refused.
CreationIsRefused(k) == k \notin made /\ UNCHANGED made

CreationIsServed ==
    /\ post # None
    /\ post.answer = None
    /\ \/ RecordIsMade(post.key) /\ post' = [post EXCEPT !.answer = post.key]
       \/ CreationIsRefused(post.key) /\ post' = [post EXCEPT !.answer = Refused]
    /\ UNCHANGED <<panel, list, load, choice, pending, designer, market, stray, history>>

StrayIsServed ==
    \E k \in stray :
        /\ RecordIsMade(k)
        /\ stray' = stray \ {k}
        /\ UNCHANGED <<panel, list, load, post, choice, pending, designer, market, history>>

\* (Mutated form: the late answers to the request for current data stay wanted.)
DropLiveNever == UNCHANGED live

\* generation.current++ of the review page
DropLive == live' = IF live = TRUE THEN FALSE ELSE live

\* A review shown replaces the current market data by those saved in it.
ShowReview(r) ==
    IF panel = "review" THEN DropLive /\ data' = r ELSE UNCHANGED market

\* A design saved or opened fills in the form and the result.
ShowDesign(conditions) ==
    IF panel = "design" THEN /\ form' = conditions
                             /\ resultOf' = conditions
                             /\ dirty' = FALSE
                        ELSE UNCHANGED <<form, resultOf, dirty>>

\* The page of the new report takes the place of the report panel.
Created ==
    /\ post # None
    /\ post.answer \in Records
    /\ list' = IF panel = "report" THEN list ELSE list \cup {post.answer}
    /\ selected' = post.answer
    /\ opening' = IF panel \in Stamped THEN post.answer ELSE opening
    /\ shown' = post.answer
    /\ ShowReview(post.answer)
    /\ ShowDesign(resultOf)
    /\ post' = None
    /\ pending' = 0
    /\ wish' = 0
    /\ UNCHANGED <<panel, load, computing, server, wishOf>>

\* A panel that forgets the key takes the refusal for the outcome.
CreationRefused ==
    /\ post # None
    /\ post.answer = Refused
    /\ post' = None
    /\ pending' = IF panel \in ForgetsOnRefusal THEN 0 ELSE pending
    /\ wish' = IF panel \in ForgetsOnRefusal THEN 0 ELSE wish
    /\ UNCHANGED <<panel, list, load, choice, designer, market, server, wishOf>>

\* A request that is given up, if any, may be served later.
GiveUp ==
    stray' \in {stray} \cup (IF post # None /\ post.answer = None
                             THEN {stray \cup {post.key}} ELSE {})

\* No answer, or a 5xx
CreationFails ==
    /\ post # None
    /\ GiveUp
    /\ post' = None
    /\ UNCHANGED <<panel, list, load, choice, pending, designer, market, made, history>>

-----------------------------------------------------------------------------
(* Older records.                                                          *)

\* A backtest is whole in its list; the reports have pages of their own.
Open(r) ==
    /\ r \in list
    /\ panel # "report"
    /\ panel # "backtest" => ~Busy
    /\ panel = "cost" => pending = 0
    /\ selected' = r
    /\ IF panel = "backtest" THEN shown' = r /\ UNCHANGED opening
                             ELSE opening' = r /\ UNCHANGED shown
    /\ UNCHANGED <<panel, list, load, post, pending, designer, market, server, history>>

Opened ==
    /\ opening # None
    /\ \/ /\ shown' = opening
          /\ ShowReview(opening)
          /\ \E c \in Conditions : ShowDesign(c)
       \/ UNCHANGED <<shown, market, form, resultOf, dirty>>
    /\ opening' = None
    /\ UNCHANGED <<panel, list, load, post, selected, pending, computing, server, history>>

-----------------------------------------------------------------------------
(* The designer's form.                                                    *)

\* <fieldset disabled={busy}>
CanEdit == ~Busy

EditDesign ==
    /\ panel = "design"
    /\ CanEdit
    /\ form' \in Conditions \ {form}
    /\ dirty' = TRUE
    /\ UNCHANGED <<panel, list, load, post, choice, pending, computing, resultOf, market, server, history>>

ComputeDesign ==
    /\ panel = "design"
    /\ ~Busy
    /\ computing' = form
    /\ UNCHANGED <<panel, list, load, post, choice, pending, form, resultOf, dirty, market, server, history>>

DesignComputed ==
    /\ computing # None
    /\ \/ resultOf' = computing /\ dirty' = FALSE
       \/ UNCHANGED resultOf /\ dirty' = TRUE
    /\ computing' = None
    /\ UNCHANGED <<panel, list, load, post, choice, pending, form, market, server, history>>

-----------------------------------------------------------------------------
(* The review's current data.                                              *)

LiveArrives ==
    /\ live # None
    /\ data' = IF live THEN Live ELSE data
    /\ live' \in {live, None}   \* one of several resources, or the last
    /\ UNCHANGED <<panel, list, load, post, choice, pending, designer, server, history>>

\* The button back from a record to the current data, or to newer ones.
LookAgain ==
    /\ panel = "review"
    /\ ~Busy
    /\ shown' = None
    /\ data' = None
    /\ live' = TRUE
    /\ UNCHANGED <<panel, list, load, post, selected, opening, pending, designer, server, history>>

-----------------------------------------------------------------------------
\* (Mutated form: idempotentPost keeps its keys in memory.)
SurvivesNever == FALSE

Survives == panel \in KeyInSession

\* The page is loaded again, or the panel is mounted for another validation: all
\* is forgotten but sessionStorage.
Remount ==
    /\ list' = {}
    /\ load' = FirstLoad
    /\ GiveUp
    /\ post' = None
    /\ selected' = None /\ opening' = None /\ shown' = None
    /\ pending' = IF Survives THEN pending ELSE 0
    /\ wish' = IF panel \in KeyInSession THEN wish ELSE 0
    /\ form' \in Conditions /\ computing' = None /\ resultOf' = None /\ dirty' = FALSE
    /\ live' = FirstLive /\ data' = None
    /\ UNCHANGED <<panel, made, wishOf>>

Next ==
    \/ Refresh \/ ListIsServed \/ ListArrives
    \/ \E anew \in BOOLEAN : Create(anew)
    \/ CreationIsServed \/ StrayIsServed
    \/ Created \/ CreationRefused \/ CreationFails
    \/ \E r \in Records : Open(r)
    \/ Opened
    \/ EditDesign \/ ComputeDesign \/ DesignComputed
    \/ LiveArrives \/ LookAgain
    \/ Remount

Spec == Init /\ [][Next]_vars

-----------------------------------------------------------------------------
(* Properties.                                                             *)

\* However often the user repeats a creation whose outcome is unknown, after a
\* reload too where the key is stored, and however late the server gets to the
\* first attempt, one wish makes one record.
OneRecordPerWish ==
    \A j, k \in made : j # k => wishOf[j] # wishOf[k]

\* Where creations are numbered, a list asked for before a creation was begun never
\* takes the new record off the list shown.  (One asked for meanwhile may.)
LateListLosesNothing ==
    [][ListArrives /\ panel \in Stamped /\ ~load.overlaps => list \subseteq list']_vars

\* The page of a review: the record in its heading, and whose market data it shows.
ReviewShown == [record |-> shown, market |-> data]

\* The designer's result, with a notice when the conditions are others by now.
DesignShown == [of |-> resultOf, marked |-> dirty]

\* The market data shown with a saved review are those saved in it: current data
\* asked for before it was opened never get among them.
SavedReviewIsShown ==
    panel = "review" /\ ReviewShown.record # None => ReviewShown.market = ReviewShown.record

\* The design shown is that of the conditions in the form, or is marked as not.
DesignIsOfForm == DesignShown.of # None /\ ~DesignShown.marked => DesignShown.of = form

\* What is shown under a heading is what the heading says, and a late answer takes no
\* record off a list.
ShownAsSaid == [](SavedReviewIsShown /\ DesignIsOfForm) /\ LateListLosesNothing
=============================================================================
