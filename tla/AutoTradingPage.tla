---------------------------- MODULE AutoTradingPage ----------------------------
(***************************************************************************)
(* The auto-trading page and its strategy workbench: three forms whose     *)
(* requests carry an idempotency key (create a run, save a strategy, start *)
(* a saved strategy), the controls of the selected run, and the poll that  *)
(* refreshes the list and the selected run every three seconds.            *)
(*                                                                         *)
(* Page and workbench each have one command under way at most, but do not  *)
(* know of each other's; polls overlap with the workbench's commands and   *)
(* with the server's own daily ticks.  An answer may be lost after the     *)
(* server has done its work, and the server may get to a request the page  *)
(* has given up.                                                           *)
(***************************************************************************)
EXTENDS Naturals, FiniteSets

CONSTANTS MaxRuns,      \* bound: runs of the user
          MaxRev,       \* bound: how often a run changes (ticks and controls)
          MaxKeys,      \* bound: idempotency keys the page draws
          MaxCommands,  \* bound: commands sent
          Saved, Refused, None

Runs == 1..MaxRuns
Keys == 1..MaxKeys
Parts == {"page", "workbench"}
Forms == {"create", "save", "start"}
PartOf(form) == IF form = "create" THEN "page" ELSE "workbench"

VARIABLES
    \* the page
    selected,    \* the run selected, None if none
    polled,      \* the selection the running poll effect was started for
    detail,      \* the run loaded, its revision, and the run its journal is of
    listed,      \* ids of the runs in the list
    poll,        \* the poll on its way: its stamp, and what has been read for it
    generation,  \* counts commands: a poll older than the last one is dropped
    pending,     \* per form: key of a request with unknown outcome, 0 if none
    command,     \* per part: the command on its way
    \* the server
    rev,         \* per run: revision of its state, 0 if it does not exist
    runOf,       \* per key: the run made for it, 0 if none
    saved,       \* keys a strategy was saved for
    stray,       \* requests the page has given up and the server has not served
    \* history
    wish,        \* per form: first key of the user's wish, 0 once its outcome is known
    wishOf,      \* per key: the wish it was drawn for, 0 if it was not drawn
    crossed      \* a strategy was started while the page's command was on its way

server == <<rev, runOf, saved, stray>>
view == <<selected, polled, detail, listed>>
history == <<wish, wishOf, crossed>>
vars == <<view, poll, generation, pending, command, server, history>>

RunStates == [id : Runs, rev : 1..MaxRev]
Details == [id : Runs, rev : 1..MaxRev, journalOf : Runs]
Answers == RunStates \cup {Saved, Refused, None}
Commands == [form : Forms \cup {"control"}, key : 0..MaxKeys, id : 0..MaxRuns, answer : Answers]
Polls == [stamp : 0..MaxCommands, list : 0..MaxRuns \cup {None},
          rev : 1..MaxRev \cup {None}]

ASSUME PageAssumption ==
    /\ {MaxRuns, MaxRev, MaxKeys, MaxCommands} \subseteq Nat \ {0}
    /\ None \notin Nat \cup Details \cup Polls \cup Commands
    /\ {Saved, Refused, None} \cap RunStates = {}
    /\ Saved # None /\ Refused # None /\ Saved # Refused

TypeOK ==
    /\ selected \in Runs \cup {None}
    /\ polled \in Runs \cup {None}
    /\ detail \in Details \cup {None}
    /\ listed \subseteq Runs
    /\ poll \in Polls \cup {None}
    /\ generation \in 0..MaxCommands
    /\ pending \in [Forms -> 0..MaxKeys]
    /\ command \in [Parts -> Commands \cup {None}]
    /\ rev \in [Runs -> 0..MaxRev]
    /\ runOf \in [Keys -> 0..MaxRuns]
    /\ saved \subseteq Keys
    /\ stray \subseteq Forms \X Keys
    /\ wish \in [Forms -> 0..MaxKeys]
    /\ wishOf \in [Keys -> 0..MaxKeys]
    /\ crossed \in BOOLEAN

\* A user who may have one run already opens the page.
Init ==
    /\ selected = None
    /\ polled = None
    /\ detail = None
    /\ listed = {}
    /\ poll = None
    /\ generation = 0
    /\ pending = [f \in Forms |-> 0]
    /\ command = [p \in Parts |-> None]
    /\ rev \in {[r \in Runs |-> 0], [r \in Runs |-> IF r = 1 THEN 1 ELSE 0]}
    /\ runOf = [k \in Keys |-> 0]
    /\ saved = {}
    /\ stray = {}
    /\ wish = [f \in Forms |-> 0]
    /\ wishOf = [k \in Keys |-> 0]
    /\ crossed = FALSE

-----------------------------------------------------------------------------
(* What the page shows and allows.                                         *)

\* run
Shown == IF detail # None /\ detail.id = selected THEN detail ELSE None

Busy(part) == command[part] # None

Starting == Busy("workbench") /\ command["workbench"].form = "start"

\* Commands numbered, the one that will be included.
Numbered == generation + (IF Starting THEN 1 ELSE 0)

\* locked, the workbench's disabled
Locked == Busy("page") \/ pending["create"] # 0

\* The buttons of the forms stay enabled while their own request is pending.  A
\* strategy is the copy of a run's settings.
CanPress(form) ==
    /\ ~Busy(PartOf(form))
    /\ form # "create" => ~Locked /\ rev[1] # 0
    /\ form = "save" => pending["start"] = 0
    /\ form = "start" => pending["save"] = 0

-----------------------------------------------------------------------------
(* Commands.                                                               *)

\* pending ?? { key: crypto.randomUUID() }
KeyFor(form) ==
    IF pending[form] # 0 THEN pending[form]
                         ELSE Cardinality({k \in Keys : wishOf[k] # 0}) + 1

\* (Mutated form: the workbench's run is shown without telling the polls.)
BumpPageOnly(form) == generation' = IF form \in {"create", "control"} THEN generation + 1 ELSE generation

\* The page numbers its commands when it sends them, the workbench's new run
\* when it is there.
Bump(form) == generation' = generation + 1

Press(form) ==
    LET k == KeyFor(form)
        first == IF wish[form] = 0 THEN k ELSE wish[form]
    IN  /\ CanPress(form)
        /\ k \in Keys
        /\ Numbered < MaxCommands
        /\ command' = [command EXCEPT ![PartOf(form)] =
                         [form |-> form, key |-> k, id |-> 0, answer |-> None]]
        /\ pending' = [pending EXCEPT ![form] = k]
        /\ IF form = "create" THEN Bump(form) ELSE UNCHANGED generation
        /\ wish' = [wish EXCEPT ![form] = first]
        /\ wishOf' = [wishOf EXCEPT ![k] = IF @ = 0 THEN first ELSE @]
        /\ UNCHANGED <<view, poll, server, crossed>>

\* PAUSE, RESUME, STOP or VERIFY of the run shown
Control ==
    /\ Shown # None
    /\ ~Busy("page")
    /\ Numbered < MaxCommands
    /\ command' = [command EXCEPT !["page"] =
                     [form |-> "control", key |-> 0, id |-> selected, answer |-> None]]
    /\ Bump("control")
    /\ UNCHANGED <<view, poll, pending, server, history>>

\* What the page does with the run a form has made.
ShowNew(a) ==
    /\ selected' = a.id
    /\ detail' = [id |-> a.id, rev |-> a.rev, journalOf |-> a.id]
    /\ listed' = listed \cup {a.id}

\* setDetail(current => current ? {...current, run} : null)
ShowControlled(a) ==
    /\ detail' = IF detail = None THEN None ELSE [detail EXCEPT !.id = a.id, !.rev = a.rev]
    /\ UNCHANGED <<selected, listed>>

\* (Mutated form: any failure clears the pending request.)
OutcomeKnownAnyway(c) == TRUE

\* A form forgets its key when it has succeeded or was refused with a 4xx.
OutcomeKnown(c) == c.answer # None

Forget(c) ==
    IF c.form \in Forms /\ OutcomeKnown(c) THEN [pending EXCEPT ![c.form] = 0] ELSE pending

Told(c) ==
    IF c.form \in Forms /\ c.answer # None THEN [wish EXCEPT ![c.form] = 0] ELSE wish

\* Success, or a refusal, of the command of part is answered.
Answered(part) ==
    LET c == command[part] IN
    /\ c # None
    /\ c.answer # None
    /\ IF c.answer \in {Saved, Refused} THEN UNCHANGED <<selected, detail, listed>>
       ELSE IF c.form = "control" THEN ShowControlled(c.answer) ELSE ShowNew(c.answer)
    /\ IF c.form = "start" /\ c.answer # Refused
       THEN Bump("start") /\ crossed' = Busy("page")
       ELSE UNCHANGED generation /\ crossed' = (crossed /\ part # "page")
    /\ command' = [command EXCEPT ![part] = None]
    /\ pending' = Forget(c)
    /\ wish' = Told(c)
    /\ UNCHANGED <<polled, poll, server, wishOf>>

\* A 5xx or no answer at all; the server may be done, or still come to it.
Failed(part) ==
    LET c == command[part] IN
    /\ c # None
    /\ command' = [command EXCEPT ![part] = None]
    /\ pending' = Forget([c EXCEPT !.answer = None])
    /\ \E s \in {{}, {<<c.form, c.key>>}} :
           /\ s # {} => c.form \in Forms /\ c.answer = None
           /\ stray' = stray \cup s
    /\ crossed' = (crossed /\ part # "page")
    /\ UNCHANGED <<view, poll, generation, rev, runOf, saved, wish, wishOf>>

-----------------------------------------------------------------------------
(* The selection and the poll.                                             *)

\* (Mutated form: the old run's detail stays until the new one's is loaded.)
ClearNothing == detail' = detail

ClearDetail == detail' = None

\* The list of runs; the effect of a change the user makes runs at once.
Select(r) ==
    /\ ~Busy("page")
    /\ r \in listed \cup {None}
    /\ r # selected
    /\ selected' = r
    /\ polled' = r
    /\ ClearDetail
    /\ poll' = None
    /\ UNCHANGED <<listed, generation, pending, command, server, history>>

\* (Mutated form: the poll effect does not depend on the selection.)
RestartNever == FALSE /\ UNCHANGED vars

\* React renders a selection that an answer has changed and restarts the poll.
Restart ==
    /\ polled # selected
    /\ polled' = selected
    /\ poll' = None
    /\ UNCHANGED <<selected, detail, listed, generation, pending, command, server, history>>

\* Every three seconds, unless a poll or a command of the page is under way.
StartPoll ==
    /\ poll = None
    /\ ~Busy("page")
    /\ poll' = [stamp |-> generation, list |-> None, rev |-> None]
    /\ UNCHANGED <<view, generation, pending, command, server, history>>

\* (Mutated form: a poll is applied whatever was commanded since it started.)
FreshAnyway == TRUE

\* stamp === generation.current
Fresh == poll.stamp = generation

\* (Mutated form: the list is not checked for being empty.)
AutoSelectAnyway == IF polled = None THEN poll.list ELSE selected

\* With nothing selected the newest run of the list is.
AutoSelect == IF polled = None /\ poll.list > 0 THEN poll.list ELSE selected

PollArrives ==
    /\ poll # None
    /\ poll.list # None
    /\ polled # None => poll.rev # None
    /\ IF Fresh
       THEN /\ listed' = 1..poll.list
            /\ detail' = IF polled = None THEN None
                         ELSE [id |-> polled, rev |-> poll.rev, journalOf |-> polled]
            /\ selected' = AutoSelect
       ELSE UNCHANGED <<listed, detail, selected>>
    /\ poll' = None
    /\ UNCHANGED <<polled, generation, pending, command, server, history>>

PollFails ==
    /\ poll # None
    /\ poll' = None
    /\ UNCHANGED <<view, generation, pending, command, server, history>>

-----------------------------------------------------------------------------
(* The server: a key makes at most one run or strategy, a repeated request  *)
(* is answered with what the first has made.                                *)

Existing == Cardinality({r \in Runs : rev[r] # 0})

\* The answer to key k and the state after it, when it is not refused.
Make(form, k, answer) ==
    \/ /\ form = "save"
       /\ saved' = saved \cup {k}
       /\ answer = Saved
       /\ UNCHANGED <<rev, runOf>>
    \/ /\ form # "save"
       /\ runOf[k] # 0
       /\ answer = [id |-> runOf[k], rev |-> rev[runOf[k]]]
       /\ UNCHANGED <<rev, runOf, saved>>
    \/ /\ form # "save"
       /\ runOf[k] = 0
       /\ Existing < MaxRuns
       /\ runOf' = [runOf EXCEPT ![k] = Existing + 1]
       /\ rev' = [rev EXCEPT ![Existing + 1] = 1]
       /\ answer = [id |-> Existing + 1, rev |-> 1]
       /\ UNCHANGED saved

NewAnswers == Answers \ {None}

Serve(part) ==
    LET c == command[part] IN
    /\ c # None
    /\ c.answer = None
    /\ \E a \in NewAnswers :
        /\ \/ c.form \in Forms /\ a # Refused /\ Make(c.form, c.key, a)
           \/ /\ c.form \in Forms
              /\ c.key \notin saved /\ runOf[c.key] = 0
              /\ a = Refused
              /\ UNCHANGED <<rev, runOf, saved>>
           \/ /\ c.form = "control"
              /\ rev[c.id] < MaxRev
              /\ rev' = [rev EXCEPT ![c.id] = @ + 1]
              /\ a = [id |-> c.id, rev |-> rev[c.id] + 1]
              /\ UNCHANGED <<runOf, saved>>
           \/ c.form = "control" /\ a = Refused /\ UNCHANGED <<rev, runOf, saved>>
        /\ command' = [command EXCEPT ![part].answer = a]
    /\ UNCHANGED <<view, poll, generation, pending, stray, history>>

ServeStray ==
    \E s \in stray, a \in NewAnswers :
        /\ Make(s[1], s[2], a)
        /\ stray' = stray \ {s}
        /\ UNCHANGED <<view, poll, generation, pending, command, history>>

\* The scheduler replays the next day of a run.
Tick(r) ==
    /\ rev[r] \in 1..MaxRev - 1
    /\ rev' = [rev EXCEPT ![r] = @ + 1]
    /\ UNCHANGED <<view, poll, generation, pending, command, runOf, saved, stray, history>>

\* GET of the list, then of the run selected.
ReadList ==
    /\ poll # None
    /\ poll.list = None
    /\ poll' = [poll EXCEPT !.list = Existing]
    /\ UNCHANGED <<view, generation, pending, command, server, history>>

ReadDetail ==
    /\ poll # None
    /\ poll.list # None
    /\ polled # None
    /\ poll.rev = None
    /\ poll' = [poll EXCEPT !.rev = rev[polled]]
    /\ UNCHANGED <<view, generation, pending, command, server, history>>

-----------------------------------------------------------------------------
Next ==
    \/ \E f \in Forms : Press(f)
    \/ Control
    \/ \E p \in Parts : Answered(p) \/ Failed(p) \/ Serve(p)
    \/ \E r \in Runs \cup {None} : Select(r)
    \/ \E r \in Runs : Tick(r)
    \/ Restart \/ StartPoll \/ PollArrives \/ PollFails
    \/ ServeStray \/ ReadList \/ ReadDetail

\* Effects run, commands end, the timer ticks, and polls do not fail for ever.
Fairness ==
    /\ WF_vars(Restart)
    /\ \A p \in Parts : WF_vars(Answered(p) \/ Failed(p))
    /\ WF_vars(StartPoll)
    /\ SF_vars(ReadList)
    /\ SF_vars(ReadDetail)
    /\ SF_vars(PollArrives)

Spec == Init /\ [][Next]_vars /\ Fairness

-----------------------------------------------------------------------------
(* Properties.                                                             *)

\* However often the user repeats a form whose outcome is unknown, and however
\* late the server gets to the first attempt, one wish makes one run or strategy.
OneEffectPerWish ==
    \A j, k \in {i \in Keys : runOf[i] # 0 \/ i \in saved} :
        j # k => wishOf[j] # wishOf[k]

\* The journal shown is of the run shown, although the answer of a control keeps
\* the journal of whatever run is loaded when it arrives.
JournalOfShownRun == Shown # None => Shown.journalOf = Shown.id /\ Shown.id = selected

\* Nothing shown is replaced by something older that a poll or a control brings late:
\* the list loses no run it has shown, and the run shown goes back to no earlier state.
\* (But the answer that a strategy was started may set it back, and so may the answer
\* of the page's command that this one overtakes: nothing orders the two.)
ShownNeverOlder ==
    [][/\ listed \subseteq listed'
       /\ /\ Shown # None /\ Shown' # None
          /\ Shown.id = Shown'.id
          /\ ~(Starting /\ ~Starting') /\ ~crossed
          => Shown'.rev >= Shown.rev]_vars

UserActs == \/ \E f \in Forms : Press(f)
            \/ \E r \in Runs \cup {None} : Select(r)

\* Once the user leaves it alone the page comes to show a run, if there is one,
\* and as it is on the server, whatever failed before.
CatchesUp ==
    \/ []<><<UserActs>>_vars
    \/ <>[](\/ selected = None /\ Existing = 0
            \/ Shown # None /\ Shown.rev = rev[selected])
=============================================================================
