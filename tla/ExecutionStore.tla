----------------------------- MODULE ExecutionStore -----------------------------
(***************************************************************************)
(* The execution service: how ExecutionService and ExecutionOperations of  *)
(* the backend keep one sandbox run, its journal of commands and its       *)
(* incidents in the database, while concurrent requests, retries, lost     *)
(* answers, calculator failures and calculator upgrades go on.             *)
(*                                                                         *)
(* A request is one HTTP call handled by one worker.  Its transaction      *)
(* opens with SELECT ... FOR UPDATE of a row (the user's for a creation,   *)
(* the run's otherwise), so it takes the lock and reads in one step, calls *)
(* the calculator while it holds the lock, and writes and commits in one   *)
(* step, or rolls back.  A failed calculation is recorded afterwards, in a *)
(* transaction of its own.                                                 *)
(*                                                                         *)
(* Runs do not share rows and every statement names its run, so the module *)
(* follows one run of one user, the one its creation key names.  The       *)
(* calculator is a pure function of the commands, and of the deployed      *)
(* version of the calculator: ExecutionReplay says what it computes.       *)
(***************************************************************************)
EXTENDS Integers, Sequences, FiniteSets

CONSTANTS Workers,       \* request handlers
          Keys,          \* command keys
          Bodies,        \* what a command says beside its key
          Configs,       \* configurations a creation may ask for
          Calculators,   \* versions of the calculator
          Rejects,       \* <<calculator, body>>: a command it answers with 422
          Revised,       \* bodies whose effect differs between calculators
          Shows,         \* per body: the conditions a state ending in it shows
          MaxCommands,   \* 500 in the code
          None

Observed == {"UNKNOWN", "UNRECONCILED", "STALE_PRICE", "RISK_BLOCKED"}
Kinds    == Observed \cup {"PROCESSING_FAILURE", "REPLAY_MISMATCH"}

ASSUME StoreAssumption ==
    /\ None \notin Workers \cup Keys \cup Bodies \cup Configs \cup Calculators
    /\ Rejects \subseteq Calculators \X Bodies
    /\ Revised \subseteq Bodies
    /\ Shows \in [Bodies -> SUBSET Observed]
    /\ MaxCommands \in Nat \ {0}

Command == [key : Keys, body : Bodies]
Request == [op : {"create"}, key : {None}, body : Configs]
             \cup [op : {"apply"}, key : Keys, body : Bodies]
             \cup [op : {"verify"}, key : {None}, body : {None}]

\* What the calculator answers for a journal: the journal, and the version
\* that made it when versions differ on one of its commands.
State == [commands : Seq(Command), by : Calculators \cup {None}]

NoRun == [config |-> None, version |-> 0, state |-> [commands |-> <<>>, by |-> None]]

VARIABLES run,          \* the row of execution_runs; NoRun before the creation
          journal,      \* the rows of execution_commands, by sequence_no
          active,       \* kinds with active=TRUE in execution_incidents
          calculator,   \* the version of the calculator that is deployed
          worker,       \* per handler: its phase, request and what it has read
          confirmed,    \* requests that clients know to have succeeded
          failed        \* the command whose failure was recorded last

vars == <<run, journal, active, calculator, worker, confirmed, failed>>

Row == [config : Configs \cup {None}, version : Nat, state : State]

Handler == [phase : {"idle", "waiting", "calculating", "failing"},
            request : Request \cup {None},
            run : Row, history : Seq(Command)]

IdleHandler == [phase |-> "idle", request |-> None, run |-> NoRun, history |-> <<>>]

Init ==
    /\ run = NoRun
    /\ journal = <<>>
    /\ active = {}
    /\ calculator \in Calculators
    /\ worker = [w \in Workers |-> IdleHandler]
    /\ confirmed = {}
    /\ failed = None

-----------------------------------------------------------------------------
(* The calculator and the incidents.                                       *)

Uses(commands, bodies) == \E i \in 1..Len(commands) : commands[i].body \in bodies

Valid(c, commands) ==
    /\ Len(commands) <= MaxCommands
    /\ \A i \in 1..Len(commands) : <<c, commands[i].body>> \notin Rejects

Replay(c, commands) ==
    [commands |-> commands, by |-> IF Uses(commands, Revised) THEN c ELSE None]

\* condition(): an incident is opened or resolved only when it changes.
Condition(incidents, kind, on) ==
    IF on THEN incidents \cup {kind} ELSE incidents \ {kind}

\* The kinds that observe() finds in a state.
Seen(state) ==
    IF state.commands = <<>> THEN {} ELSE Shows[state.commands[Len(state.commands)].body]

Observe(incidents, state) ==
    ((incidents \ Observed) \cup Seen(state)) \ {"PROCESSING_FAILURE"}

-----------------------------------------------------------------------------
(* Requests.                                                               *)

RowOf(request) == IF request.op = "create" THEN "user" ELSE "run"

\* (Mutated form: the row is read without FOR UPDATE.)
FreeUnlocked(row) == TRUE

Free(row) ==
    \A w \in Workers : worker[w].phase = "calculating" => RowOf(worker[w].request) # row

\* A client sends a request, for the first time or again.
Send(w, request) ==
    /\ worker[w].phase = "idle"
    /\ worker' = [worker EXCEPT ![w].phase = "waiting", ![w].request = request]
    /\ UNCHANGED <<run, journal, active, calculator, confirmed, failed>>

\* The worker's request has the row it needs.
Enter(w, op) ==
    /\ worker[w].phase = "waiting" /\ worker[w].request.op = op
    /\ Free(RowOf(worker[w].request))

\* The request is over: committed or rolled back, and its client told, if
\* the answer arrives.
Done(w) == worker' = [worker EXCEPT ![w] = IdleHandler]

Succeed(w) ==
    /\ Done(w)
    /\ confirmed' \in {confirmed, confirmed \cup {worker[w].request}}

Refuse(w) ==
    /\ Done(w)
    /\ UNCHANGED <<run, journal, active, calculator, confirmed, failed>>

\* The transaction has what it needs and calls the calculator.
Calculate(w) ==
    /\ worker' = [worker EXCEPT ![w].phase = "calculating",
                                ![w].run = run, ![w].history = journal]
    /\ UNCHANGED <<run, journal, active, calculator, confirmed, failed>>

Entry(w) == [key |-> worker[w].request.key, body |-> worker[w].request.body]

\* The commands that the worker sends to the calculator.
Commands(w) ==
    CASE worker[w].request.op = "create" -> <<>>
      [] worker[w].request.op = "apply"  -> Append(worker[w].history, Entry(w))
      [] worker[w].request.op = "verify" -> worker[w].history

-----------------------------------------------------------------------------
(* create.                                                                 *)

StartCreate(w) ==
    /\ Enter(w, "create") /\ run = NoRun
    /\ Calculate(w)

CreateAgain(w) ==
    /\ Enter(w, "create") /\ run # NoRun
    /\ IF run.config = worker[w].request.body
       THEN Succeed(w) /\ UNCHANGED <<run, journal, active, calculator, failed>>
       ELSE Refuse(w)

FinishCreate(w) ==
    /\ worker[w].phase = "calculating" /\ worker[w].request.op = "create"
    /\ run' = [config |-> worker[w].request.body, version |-> 0,
               state |-> Replay(calculator, Commands(w))]
    /\ Succeed(w)
    /\ UNCHANGED <<journal, active, calculator, failed>>

NotFound(w) ==
    /\ \E op \in {"apply", "verify"} : Enter(w, op)
    /\ run = NoRun
    /\ Refuse(w)

-----------------------------------------------------------------------------
(* apply.                                                                  *)

Stored(key) == {journal[i] : i \in {j \in 1..Len(journal) : journal[j].key = key}}

\* (Mutated form: the stored command is not compared with the new one.)
SameIgnored(w) == Stored(worker[w].request.key) # {}

Same(w) == Entry(w) \in Stored(worker[w].request.key)

\* A key that the journal has is answered from the journal.
RepeatCommand(w) ==
    /\ Enter(w, "apply") /\ run # NoRun
    /\ Stored(worker[w].request.key) # {}
    /\ IF Same(w)
       THEN Succeed(w) /\ UNCHANGED <<run, journal, active, calculator, failed>>
       ELSE Refuse(w)

\* (Mutated form: a mismatch does not block.)
BlockedNever == FALSE

Blocked == "REPLAY_MISMATCH" \in active
Full    == Len(journal) >= MaxCommands

RefuseCommand(w) ==
    /\ Enter(w, "apply") /\ run # NoRun
    /\ Stored(worker[w].request.key) = {}
    /\ Blocked \/ Full
    /\ Refuse(w)

StartApply(w) ==
    /\ Enter(w, "apply") /\ run # NoRun
    /\ Stored(worker[w].request.key) = {}
    /\ ~Blocked /\ ~Full
    /\ Calculate(w)

\* (Mutated form: the conditions are read off the state before the command.)
FinishApplyObservingOld(w) ==
    /\ worker[w].phase = "calculating" /\ worker[w].request.op = "apply"
    /\ Valid(calculator, Commands(w))
    /\ journal' = Append(journal, Entry(w))
    /\ run' = [run EXCEPT !.version = worker[w].run.version + 1,
                          !.state = Replay(calculator, Commands(w))]
    /\ active' = Observe(active, worker[w].run.state)
    /\ Succeed(w)
    /\ UNCHANGED <<calculator, failed>>

FinishApply(w) ==
    /\ worker[w].phase = "calculating" /\ worker[w].request.op = "apply"
    /\ Valid(calculator, Commands(w))
    /\ journal' = Append(journal, Entry(w))
    /\ run' = [run EXCEPT !.version = worker[w].run.version + 1,
                          !.state = Replay(calculator, Commands(w))]
    /\ active' = Observe(active, run'.state)
    /\ Succeed(w)
    /\ UNCHANGED <<calculator, failed>>

-----------------------------------------------------------------------------
(* verify.                                                                 *)

StartVerify(w) ==
    /\ Enter(w, "verify") /\ run # NoRun
    /\ Calculate(w)

FinishVerify(w) ==
    /\ worker[w].phase = "calculating" /\ worker[w].request.op = "verify"
    /\ Valid(calculator, Commands(w))
    /\ active' = Condition(Condition(active, "REPLAY_MISMATCH",
                                     worker[w].run.state # Replay(calculator, Commands(w))),
                           "PROCESSING_FAILURE", FALSE)
    /\ Succeed(w)
    /\ UNCHANGED <<run, journal, calculator, failed>>

-----------------------------------------------------------------------------
(* Failures.                                                               *)

\* The calculator answers 422: the transaction is rolled back.
Invalid(w) ==
    /\ worker[w].phase = "calculating"
    /\ ~Valid(calculator, Commands(w))
    /\ Refuse(w)

\* (Mutated form: a failed creation is recorded too, for a run nobody made.)
CalculatorFailsAnywhere(w) ==
    /\ worker[w].phase = "calculating"
    /\ worker' = [worker EXCEPT ![w] = [IdleHandler EXCEPT !.phase = "failing",
                                                          !.request = worker[w].request]]
    /\ UNCHANGED <<run, journal, active, calculator, confirmed, failed>>

\* The calculator cannot be reached, times out or answers nonsense: the
\* transaction is rolled back, and the controller records it later.
CalculatorFails(w) ==
    /\ worker[w].phase = "calculating"
    /\ worker' = [worker EXCEPT ![w] = IF @.request.op = "create" THEN IdleHandler
                                       ELSE [IdleHandler EXCEPT !.phase = "failing",
                                                                !.request = worker[w].request]]
    /\ UNCHANGED <<run, journal, active, calculator, confirmed, failed>>

RecordFailure(w) ==
    /\ worker[w].phase = "failing" /\ Free("run")
    /\ active' = Condition(active, "PROCESSING_FAILURE", TRUE)
    /\ failed' = worker[w].request
    /\ Done(w)
    /\ UNCHANGED <<run, journal, calculator, confirmed>>

\* The process stops, or the wait for the lock times out: what the
\* transaction did is rolled back and nobody is told.
Crash(w) ==
    /\ worker[w].phase # "idle"
    /\ Refuse(w)

\* Another version of the calculator is deployed.
Deploy(c) ==
    /\ calculator' = c
    /\ UNCHANGED <<run, journal, active, worker, confirmed, failed>>

Step(w) ==
    \/ StartCreate(w) \/ CreateAgain(w) \/ FinishCreate(w) \/ NotFound(w)
    \/ RepeatCommand(w) \/ RefuseCommand(w) \/ StartApply(w) \/ FinishApply(w)
    \/ StartVerify(w) \/ FinishVerify(w)
    \/ Invalid(w) \/ CalculatorFails(w) \/ RecordFailure(w) \/ Crash(w)

Next ==
    \/ \E w \in Workers : Step(w) \/ \E request \in Request : Send(w, request)
    \/ \E c \in Calculators : Deploy(c)

Spec == Init /\ [][Next]_vars

-----------------------------------------------------------------------------
(* Properties.                                                             *)

TypeOK ==
    /\ run \in Row
    /\ journal \in Seq(Command) /\ Len(journal) <= MaxCommands
    /\ active \subseteq Kinds
    /\ calculator \in Calculators
    /\ worker \in [Workers -> Handler]
    /\ confirmed \subseteq Request
    /\ failed \in {r \in Request : r.op # "create"} \cup {None}

\* Whatever requests overlap, fail or are sent again, the stored state is what
\* some calculator made of exactly the stored journal, which numbers its
\* commands without a gap: no update of two workers is lost.
StateMatchesJournal ==
    /\ run.version = Len(journal)
    /\ run = NoRun => journal = <<>>
    /\ \E c \in Calculators : run.state = Replay(c, journal)

\* While a replay mismatch is on record, the run and its journal stay as they
\* are, also for a request that was under way when the mismatch was found
\* (docs/Execution_P1_Verification.md: the state is kept for inspection).
MismatchFreezes ==
    []["REPLAY_MISMATCH" \in active => UNCHANGED <<run, journal>>]_vars

\* The incidents that describe a state describe the stored one: an alert is
\* neither missing nor left over from a command before.
IncidentsMatchState == active \cap Observed = Seen(run.state)

\* The service, seen through its tables and its answers, keeps a journal as
\* CommandJournal describes it.
Journal == INSTANCE CommandJournal WITH
    Entries <- Command,
    log     <- journal,
    account <- run.state.commands,
    told    <- {[key |-> r.key, body |-> r.body] : r \in {q \in confirmed : q.op = "apply"}}

ImplementsJournal == Journal!Journaling

\* The client's retry with the same key is answered with success only with
\* its processing failure resolved ("a successful retry or verification
\* resolves the condition", docs/Execution_P1_Verification.md).
Retried(w) ==
    /\ failed # None /\ worker[w].request = failed
    /\ failed \notin confirmed /\ failed \in confirmed'

RetryResolvesFailure ==
    [][\A w \in Workers : Retried(w) => "PROCESSING_FAILURE" \notin active']_vars

=============================================================================
