-------------------------- MODULE ExecutionStoreProofs --------------------------
(***************************************************************************)
(* Proofs about ExecutionStore, for any number of workers, keys, command   *)
(* bodies, configurations and calculators.                                 *)
(***************************************************************************)
EXTENDS ExecutionStore, TLAPS

-----------------------------------------------------------------------------
(* The inductive invariant.                                                *)

\* What a handler has read stays true while it waits for the calculator,
\* because it holds the lock of the row it read.
HandlerOK(w) ==
    /\ worker[w].phase # "idle" => worker[w].request \in Request
    /\ worker[w].phase = "failing" => worker[w].request.op # "create"
    /\ worker[w].phase = "calculating" =>
         /\ worker[w].run = run /\ worker[w].history = journal
         /\ worker[w].request.op = "create" <=> run = NoRun
         /\ worker[w].request.op = "apply" =>
              /\ \A i \in 1..Len(worker[w].history) :
                    worker[w].history[i].key # worker[w].request.key
              /\ "REPLAY_MISMATCH" \notin active

\* A creation and a command wait for different rows, but a run either exists
\* or does not: one handler at a time is calculating.
AtMostOne ==
    \A v, w \in Workers :
        worker[v].phase = "calculating" /\ worker[w].phase = "calculating" => v = w

IInv ==
    /\ TypeOK
    /\ StateMatchesJournal
    /\ IncidentsMatchState
    /\ AtMostOne
    /\ \A w \in Workers : HandlerOK(w)

-----------------------------------------------------------------------------
(* The calculator's answers.                                               *)

\* A calculator's answer is a state about exactly the commands it was sent.
LEMMA ReplayType ==
    ASSUME NEW c \in Calculators, NEW commands \in Seq(Command)
    PROVE  /\ Replay(c, commands) \in State
           /\ Replay(c, commands).commands = commands
BY DEF Replay, State

\* What observe() finds are conditions it may find.
LEMMA SeenType ==
    ASSUME NEW st \in State
    PROVE  Seen(st) \subseteq Observed
<1>1. CASE st.commands = <<>>
  BY <1>1 DEF Seen
<1>2. CASE st.commands # <<>>
  <2>1. st.commands \in Seq(Command)
    BY DEF State
  <2>2. st.commands[Len(st.commands)] \in Command
    BY <1>2, <2>1
  <2>3. st.commands[Len(st.commands)].body \in Bodies
    BY <2>2 DEF Command
  <2> QED
    BY <1>2, <2>3, StoreAssumption DEF Seen
<1> QED
  BY <1>1, <1>2

\* A run that was created is not NoRun.
LEMMA CreatedRun ==
    ASSUME NEW r, r.config \in Configs
    PROVE  r # NoRun
BY StoreAssumption DEF NoRun

-----------------------------------------------------------------------------
(* The steps that change the handler and nothing else.                     *)

\* A handler that nothing happens to, the tables unchanged.
LEMMA OthersKeep ==
    ASSUME NEW v \in Workers, HandlerOK(v), worker'[v] = worker[v],
           UNCHANGED <<run, journal>>,
           "REPLAY_MISMATCH" \in active' => "REPLAY_MISMATCH" \in active
    PROVE  HandlerOK(v)'
BY DEF HandlerOK

\* A handler put back to idle, the tables unchanged.
LEMMA DoneKeeps ==
    ASSUME IInv, NEW w \in Workers, Done(w),
           UNCHANGED <<run, journal, active, calculator, failed>>,
           confirmed' \subseteq Request
    PROVE  IInv'
<1>1. worker' = [worker EXCEPT ![w] = IdleHandler]
  BY DEF Done
<1>2. IdleHandler \in Handler
  BY DEF IdleHandler, Handler, NoRun, Row, State
<1>3. TypeOK'
  BY <1>1, <1>2 DEF IInv, TypeOK
<1>4. StateMatchesJournal' /\ IncidentsMatchState'
  BY DEF IInv, StateMatchesJournal, IncidentsMatchState
<1>5. \A v \in Workers : worker'[v] = IF v = w THEN IdleHandler ELSE worker[v]
  BY <1>1 DEF IInv, TypeOK
<1>6. AtMostOne'
  BY <1>5 DEF IInv, AtMostOne, IdleHandler
<1>7. ASSUME NEW v \in Workers PROVE HandlerOK(v)'
  <2>1. CASE v = w
    BY <1>5, <2>1 DEF HandlerOK, IdleHandler
  <2>2. CASE v # w
    BY <1>5, <2>2, OthersKeep DEF IInv
  <2> QED
    BY <2>1, <2>2
<1> QED
  BY <1>3, <1>4, <1>6, <1>7 DEF IInv

\* A refused, failed or lost request leaves everything as it was.
LEMMA RefuseKeeps ==
    ASSUME IInv, NEW w \in Workers, Refuse(w)
    PROVE  IInv'
<1>1. confirmed' \subseteq Request
  BY DEF Refuse, IInv, TypeOK
<1> QED
  BY <1>1, DoneKeeps DEF Refuse

\* So does an answer from what is stored, but for what the client knows.
LEMMA AnswerKeeps ==
    ASSUME IInv, NEW w \in Workers, worker[w].phase # "idle", Succeed(w),
           UNCHANGED <<run, journal, active, calculator, failed>>
    PROVE  IInv'
<1>1. worker[w].request \in Request
  BY DEF IInv, HandlerOK
<1>2. confirmed' \subseteq Request
  BY <1>1 DEF Succeed, IInv, TypeOK
<1> QED
  BY <1>2, DoneKeeps DEF Succeed

\* A new request reads nothing yet.
LEMMA SendKeeps ==
    ASSUME IInv, NEW w \in Workers, NEW request \in Request, Send(w, request)
    PROVE  IInv'
<1>1. worker' = [worker EXCEPT ![w] = [worker[w] EXCEPT !.phase = "waiting", !.request = request]]
  BY DEF Send, IInv, TypeOK, Handler
<1>2. worker[w] \in Handler
  BY DEF IInv, TypeOK
<1>3. [worker[w] EXCEPT !.phase = "waiting", !.request = request] \in Handler
  BY <1>2 DEF Handler
<1>4. TypeOK'
  BY <1>1, <1>3 DEF IInv, TypeOK, Send
<1>5. StateMatchesJournal' /\ IncidentsMatchState'
  BY DEF IInv, StateMatchesJournal, IncidentsMatchState, Send
<1>6. /\ worker'[w].phase = "waiting" /\ worker'[w].request = request
      /\ \A v \in Workers \ {w} : worker'[v] = worker[v]
  BY <1>1, <1>2 DEF IInv, TypeOK, Handler
<1>7. AtMostOne'
  BY <1>6 DEF IInv, AtMostOne
<1>8. ASSUME NEW v \in Workers PROVE HandlerOK(v)'
  <2>1. CASE v = w
    BY <1>6, <2>1 DEF HandlerOK
  <2>2. CASE v # w
    BY <1>6, <2>2, OthersKeep DEF IInv, Send
  <2> QED
    BY <2>1, <2>2
<1> QED
  BY <1>4, <1>5, <1>7, <1>8 DEF IInv

\* A handler that gets its row reads what is there, and nobody else is
\* calculating.
LEMMA CalculateKeeps ==
    ASSUME IInv, NEW w \in Workers, NEW op, Enter(w, op), Calculate(w),
           op = "create" <=> run = NoRun,
           op = "apply" => Stored(worker[w].request.key) = {} /\ "REPLAY_MISMATCH" \notin active
    PROVE  IInv'
<1>1. worker' = [worker EXCEPT ![w] = [worker[w] EXCEPT !.phase = "calculating",
                                                        !.run = run, !.history = journal]]
  BY DEF Calculate, IInv, TypeOK, Handler
<1>2. worker[w] \in Handler /\ run \in Row /\ journal \in Seq(Command)
  BY DEF IInv, TypeOK
<1>3. [worker[w] EXCEPT !.phase = "calculating", !.run = run, !.history = journal] \in Handler
  BY <1>2 DEF Handler
<1>4. TypeOK'
  BY <1>1, <1>3 DEF IInv, TypeOK, Calculate
<1>5. StateMatchesJournal' /\ IncidentsMatchState'
  BY DEF IInv, StateMatchesJournal, IncidentsMatchState, Calculate
<1>6. /\ worker'[w].phase = "calculating" /\ worker'[w].request = worker[w].request
      /\ worker'[w].run = run /\ worker'[w].history = journal
      /\ \A v \in Workers \ {w} : worker'[v] = worker[v]
  BY <1>1, <1>2 DEF IInv, TypeOK, Handler
<1>7. worker[w].request \in Request /\ worker[w].request.op = op
  BY DEF Enter, IInv, HandlerOK
<1>8. ASSUME NEW v \in Workers \ {w} PROVE worker[v].phase # "calculating"
  <2>1. SUFFICES ASSUME worker[v].phase = "calculating" PROVE FALSE
    OBVIOUS
  <2>2. worker[v].request.op = "create" <=> op = "create"
    BY <2>1 DEF IInv, HandlerOK
  <2>3. RowOf(worker[v].request) = RowOf(worker[w].request)
    BY <1>7, <2>2 DEF RowOf
  <2> QED
    BY <2>1, <2>3 DEF Enter, Free
<1>9. AtMostOne'
  BY <1>6, <1>8 DEF AtMostOne
<1>10. ASSUME NEW v \in Workers PROVE HandlerOK(v)'
  <2>1. CASE v = w
    <3>1. UNCHANGED <<run, journal, active>>
      BY DEF Calculate
    <3>2. op = "apply" => \A i \in 1..Len(journal) : journal[i].key # worker[w].request.key
      BY DEF Stored
    <3> QED
      BY <1>6, <1>7, <2>1, <3>1, <3>2 DEF HandlerOK
  <2>2. CASE v # w
    BY <1>6, <2>2, OthersKeep DEF IInv, Calculate
  <2> QED
    BY <2>1, <2>2
<1> QED
  BY <1>4, <1>5, <1>9, <1>10 DEF IInv

\* A failed calculation puts its handler in line to record the failure.
LEMMA FailingKeeps ==
    ASSUME IInv, NEW w \in Workers, CalculatorFails(w)
    PROVE  IInv'
<1> DEFINE next == IF worker[w].request.op = "create" THEN IdleHandler
                   ELSE [IdleHandler EXCEPT !.phase = "failing", !.request = worker[w].request]
<1>1. worker' = [worker EXCEPT ![w] = next]
  BY DEF CalculatorFails, IInv, TypeOK
<1>2. worker[w].request \in Request
  BY DEF CalculatorFails, IInv, HandlerOK
<1>3. IdleHandler \in Handler
  BY DEF IdleHandler, Handler, NoRun, Row, State
<1>4. next \in Handler /\ next.phase # "calculating"
  BY <1>2, <1>3 DEF IdleHandler, Handler
<1>5. TypeOK'
  BY <1>1, <1>4 DEF IInv, TypeOK, CalculatorFails
<1>6. StateMatchesJournal' /\ IncidentsMatchState'
  BY DEF IInv, StateMatchesJournal, IncidentsMatchState, CalculatorFails
<1>7. worker'[w] = next /\ \A v \in Workers \ {w} : worker'[v] = worker[v]
  BY <1>1 DEF IInv, TypeOK
<1>8. AtMostOne'
  BY <1>4, <1>7 DEF IInv, AtMostOne
<1>9. ASSUME NEW v \in Workers PROVE HandlerOK(v)'
  <2>1. CASE v = w
    <3>1. next.phase # "idle" => next.request = worker[w].request /\ worker[w].request.op # "create"
      BY DEF IdleHandler
    <3> HIDE DEF next
    <3> QED
      BY <1>2, <1>4, <1>7, <2>1, <3>1 DEF HandlerOK
  <2>2. CASE v # w
    BY <1>7, <2>2, OthersKeep DEF IInv, CalculatorFails
  <2> QED
    BY <2>1, <2>2
<1> QED
  BY <1>5, <1>6, <1>8, <1>9 DEF IInv

-----------------------------------------------------------------------------
(* The steps that write.                                                   *)

\* Incidents change, the row is free: what other handlers have read stays.
LEMMA RecordFailureKeeps ==
    ASSUME IInv, NEW w \in Workers, RecordFailure(w)
    PROVE  IInv'
<1>1. worker' = [worker EXCEPT ![w] = IdleHandler] /\ worker[w].phase = "failing"
  BY DEF RecordFailure, Done
<1>2. IdleHandler \in Handler
  BY DEF IdleHandler, Handler, NoRun, Row, State
<1>3. worker[w].request \in Request /\ worker[w].request.op # "create"
  BY <1>1 DEF IInv, HandlerOK
<1>4. active' = active \cup {"PROCESSING_FAILURE"}
  BY DEF RecordFailure, Condition
<1>5. TypeOK'
  BY <1>1, <1>2, <1>3, <1>4 DEF IInv, TypeOK, RecordFailure, Kinds
<1>6. StateMatchesJournal'
  BY DEF IInv, StateMatchesJournal, RecordFailure
<1>7. IncidentsMatchState'
  <2>1. active' \cap Observed = active \cap Observed
    BY <1>4 DEF Observed
  <2>2. Seen(run'.state) = Seen(run.state)
    BY DEF RecordFailure
  <2> QED
    BY <2>1, <2>2 DEF IInv, IncidentsMatchState, Seen, RecordFailure
<1>8. worker'[w] = IdleHandler /\ \A v \in Workers \ {w} : worker'[v] = worker[v]
  BY <1>1 DEF IInv, TypeOK
<1>9. AtMostOne'
  BY <1>8 DEF IInv, AtMostOne, IdleHandler
<1>10. ASSUME NEW v \in Workers PROVE HandlerOK(v)'
  <2>1. CASE v = w
    BY <1>8, <2>1 DEF HandlerOK, IdleHandler
  <2>2. CASE v # w
    BY <1>4, <1>8, <2>2, OthersKeep DEF IInv, RecordFailure
  <2> QED
    BY <2>1, <2>2
<1> QED
  BY <1>5, <1>6, <1>7, <1>9, <1>10 DEF IInv

\* When the one handler that calculates is done, no other has read anything
\* that a write could make stale.
LEMMA WriterKeepsOthers ==
    ASSUME IInv, NEW w \in Workers, worker[w].phase = "calculating", Done(w)
    PROVE  AtMostOne' /\ \A v \in Workers : HandlerOK(v)'
<1>1. worker'[w] = IdleHandler /\ \A v \in Workers \ {w} : worker'[v] = worker[v]
  BY DEF Done, IInv, TypeOK
<1>2. \A v \in Workers \ {w} : worker[v].phase # "calculating"
  BY DEF IInv, AtMostOne
<1>3. AtMostOne'
  BY <1>1, <1>2 DEF AtMostOne, IdleHandler
<1>4. ASSUME NEW v \in Workers PROVE HandlerOK(v)'
  <2>1. CASE v = w
    BY <1>1, <2>1 DEF HandlerOK, IdleHandler
  <2>2. CASE v # w
    BY <1>1, <1>2, <2>2 DEF IInv, HandlerOK
  <2> QED
    BY <2>1, <2>2
<1> QED
  BY <1>3, <1>4

\* What the finishing steps share: the handler's request was its client's, and
\* what it has read is what the tables hold.
LEMMA WriterReads ==
    ASSUME IInv, NEW w \in Workers, worker[w].phase = "calculating", Succeed(w)
    PROVE  /\ worker[w].run = run /\ worker[w].history = journal
           /\ worker[w].request \in Request
           /\ worker[w].request.op = "create" <=> run = NoRun
           /\ confirmed' \subseteq Request
           /\ worker' \in [Workers -> Handler]
<1>1. IdleHandler \in Handler
  BY DEF IdleHandler, Handler, NoRun, Row, State
<1>2. worker' \in [Workers -> Handler]
  BY <1>1 DEF Succeed, Done, IInv, TypeOK
<1>3. worker[w].request \in Request
  BY DEF IInv, HandlerOK
<1>4. confirmed' \subseteq Request
  BY <1>3 DEF Succeed, IInv, TypeOK
<1> QED
  BY <1>2, <1>3, <1>4 DEF IInv, HandlerOK

\* A creation writes the state of no commands.
LEMMA FinishCreateKeeps ==
    ASSUME IInv, NEW w \in Workers, FinishCreate(w)
    PROVE  IInv'
<1>1. /\ worker[w].phase = "calculating" /\ worker[w].request.op = "create"
      /\ Succeed(w) /\ Done(w)
      /\ UNCHANGED <<journal, active, calculator, failed>>
  BY DEF FinishCreate, Succeed
<1>2. run = NoRun /\ worker[w].request \in Request
      /\ confirmed' \subseteq Request /\ worker' \in [Workers -> Handler]
  BY <1>1, WriterReads
<1>3. journal = <<>>
  BY <1>2 DEF IInv, StateMatchesJournal
<1>4. /\ run' = [config |-> worker[w].request.body, version |-> 0, state |-> Replay(calculator, <<>>)]
      /\ calculator \in Calculators
  BY <1>1 DEF FinishCreate, Commands, IInv, TypeOK
<1>5. Replay(calculator, <<>>) \in State /\ Replay(calculator, <<>>).commands = <<>>
  <2>1. <<>> \in Seq(Command)
    OBVIOUS
  <2> QED
    BY <1>4, <2>1, ReplayType
<1>6. worker[w].request.body \in Configs
  BY <1>1, <1>2 DEF Request
<1>7. run' \in Row
  BY <1>4, <1>5, <1>6 DEF Row
<1>8. TypeOK'
  BY <1>1, <1>2, <1>7 DEF IInv, TypeOK
<1>9. StateMatchesJournal'
  <2>1. run'.version = 0 /\ run'.state = Replay(calculator, <<>>)
    BY <1>4
  <2>2. Len(journal') = 0 /\ journal' = <<>>
    BY <1>1, <1>3
  <2> QED
    BY <1>4, <2>1, <2>2 DEF StateMatchesJournal, Replay
<1>10. IncidentsMatchState'
  <2>1. run.state.commands = <<>> /\ run'.state.commands = <<>>
    BY <1>2, <1>4, <1>5 DEF NoRun
  <2> QED
    BY <1>1, <2>1 DEF IInv, IncidentsMatchState, Seen
<1> QED
  BY <1>1, <1>8, <1>9, <1>10, WriterKeepsOthers DEF IInv

\* A command is written with the state it leads to and its incidents.
LEMMA FinishApplyKeeps ==
    ASSUME IInv, NEW w \in Workers, FinishApply(w)
    PROVE  IInv'
<1> DEFINE log == Append(journal, Entry(w))
<1>1. /\ worker[w].phase = "calculating" /\ worker[w].request.op = "apply"
      /\ Succeed(w) /\ Done(w)
      /\ UNCHANGED <<calculator, failed>>
  BY DEF FinishApply, Succeed
<1>2. /\ worker[w].run = run /\ worker[w].history = journal
      /\ run # NoRun /\ worker[w].request \in Request
      /\ confirmed' \subseteq Request /\ worker' \in [Workers -> Handler]
  BY <1>1, WriterReads
<1>3. Commands(w) = log
  BY <1>1, <1>2 DEF Commands
<1>4. Entry(w) \in Command
  BY <1>1, <1>2 DEF Request, Entry, Command
<1>5. /\ run \in Row /\ journal \in Seq(Command) /\ calculator \in Calculators
      /\ run.version = Len(journal)
  BY DEF IInv, TypeOK, StateMatchesJournal
<1>6. log \in Seq(Command) /\ Len(log) = Len(journal) + 1
  BY <1>4, <1>5
<1>7. Len(log) <= MaxCommands
  BY <1>3 DEF FinishApply, Valid
<1> HIDE DEF log
<1>8. Replay(calculator, log) \in State
  BY <1>5, <1>6, ReplayType
<1>9. /\ journal' = log
      /\ run' = [run EXCEPT !.version = run.version + 1, !.state = Replay(calculator, log)]
      /\ active' = Observe(active, Replay(calculator, log))
  <2>1. journal' = log
    BY DEF FinishApply, log
  <2>2. run' = [run EXCEPT !.version = run.version + 1, !.state = Replay(calculator, log)]
    BY <1>2, <1>3 DEF FinishApply
  <2>3. run'.state = Replay(calculator, log)
    BY <1>5, <2>2 DEF Row
  <2> QED
    BY <2>1, <2>2, <2>3 DEF FinishApply
<1>10. /\ run' \in Row /\ run'.version = Len(log)
       /\ run'.state = Replay(calculator, log) /\ run'.config = run.config
  <2> DEFINE st == Replay(calculator, log)
  <2> HIDE DEF st
  <2>1. run.version + 1 \in Nat /\ run.version + 1 = Len(log)
    BY <1>5, <1>6 DEF Row
  <2>2. run' = [run EXCEPT !.version = run.version + 1, !.state = st] /\ st \in State
    BY <1>8, <1>9 DEF st
  <2>3. /\ run' \in Row /\ run'.version = run.version + 1
        /\ run'.state = st /\ run'.config = run.config
    BY <1>5, <2>1, <2>2 DEF Row
  <2> QED
    BY <2>1, <2>3 DEF st
<1>11. Seen(Replay(calculator, log)) \subseteq Observed
  BY <1>8, SeenType
<1>12. active' \subseteq Kinds
  BY <1>9, <1>11 DEF IInv, TypeOK, Observe, Kinds
<1>13. TypeOK'
  BY <1>1, <1>2, <1>6, <1>7, <1>9, <1>10, <1>12 DEF IInv, TypeOK
<1>14. StateMatchesJournal'
  <2>1. run' # NoRun
    <3>1. run'.version > 0
      BY <1>5, <1>6, <1>10
    <3> QED
      BY <3>1 DEF NoRun
  <2> QED
    BY <1>5, <1>9, <1>10, <2>1 DEF StateMatchesJournal, Replay
<1>15. IncidentsMatchState'
  <2>1. active' \cap Observed = Seen(Replay(calculator, log))
    BY <1>9, <1>11 DEF Observe, Observed
  <2> QED
    BY <1>10, <2>1 DEF IncidentsMatchState, Seen
<1> QED
  BY <1>1, <1>13, <1>14, <1>15, WriterKeepsOthers DEF IInv

\* A verification writes incidents that say nothing about the state.
LEMMA FinishVerifyKeeps ==
    ASSUME IInv, NEW w \in Workers, FinishVerify(w)
    PROVE  IInv'
<1>1. /\ worker[w].phase = "calculating" /\ Succeed(w) /\ Done(w)
      /\ UNCHANGED <<run, journal, calculator, failed>>
  BY DEF FinishVerify, Succeed
<1>2. confirmed' \subseteq Request /\ worker' \in [Workers -> Handler]
  BY <1>1, WriterReads
<1>3. active' \subseteq Kinds /\ active' \cap Observed = active \cap Observed
  BY DEF FinishVerify, Condition, IInv, TypeOK, Kinds, Observed
<1>4. TypeOK'
  BY <1>1, <1>2, <1>3 DEF IInv, TypeOK
<1>5. StateMatchesJournal'
  BY <1>1 DEF IInv, StateMatchesJournal
<1>6. IncidentsMatchState'
  BY <1>1, <1>3 DEF IInv, IncidentsMatchState, Seen
<1> QED
  BY <1>1, <1>4, <1>5, <1>6, WriterKeepsOthers DEF IInv

\* A new calculator changes nothing that is stored.
LEMMA DeployKeeps ==
    ASSUME IInv, NEW c \in Calculators, Deploy(c)
    PROVE  IInv'
<1>1. TypeOK'
  BY DEF IInv, TypeOK, Deploy
<1>2. StateMatchesJournal' /\ IncidentsMatchState' /\ AtMostOne'
  BY DEF IInv, StateMatchesJournal, IncidentsMatchState, AtMostOne, Deploy
<1>3. \A v \in Workers : HandlerOK(v)'
  BY DEF IInv, HandlerOK, Deploy
<1> QED
  BY <1>1, <1>2, <1>3 DEF IInv

-----------------------------------------------------------------------------
(* The invariant, and what it gives.                                       *)

\* The invariant holds before the first request.
LEMMA InitEstablishes ==
    ASSUME Init
    PROVE  IInv
<1>1. IdleHandler \in Handler
  BY DEF IdleHandler, Handler, NoRun, Row, State
<1>2. TypeOK
  BY <1>1, StoreAssumption DEF Init, TypeOK, NoRun, Row, State, Kinds
<1>3. StateMatchesJournal
  <2>1. run.version = 0 /\ Len(journal) = 0
    BY DEF Init, NoRun
  <2>2. run.state = Replay(calculator, journal)
    BY DEF Init, NoRun, Replay, Uses
  <2> QED
    BY <2>1, <2>2 DEF Init, StateMatchesJournal
<1>4. IncidentsMatchState
  BY DEF Init, IncidentsMatchState, Seen, NoRun
<1>5. \A w \in Workers : worker[w] = IdleHandler
  BY DEF Init
<1>6. AtMostOne /\ \A w \in Workers : HandlerOK(w)
  BY <1>5 DEF AtMostOne, HandlerOK, IdleHandler
<1> QED
  BY <1>2, <1>3, <1>4, <1>6 DEF IInv

\* Each step of a handler keeps it.
LEMMA StepKeeps ==
    ASSUME IInv, NEW w \in Workers, Step(w)
    PROVE  IInv'
<1>1. CASE StartCreate(w)
  BY <1>1, CalculateKeeps DEF StartCreate
<1>2. CASE CreateAgain(w)
  <2>1. CASE Refuse(w)
    BY <2>1, RefuseKeeps
  <2>2. CASE Succeed(w) /\ UNCHANGED <<run, journal, active, calculator, failed>>
    <3>1. worker[w].phase # "idle"
      BY <1>2 DEF CreateAgain, Enter
    <3> QED
      BY <2>2, <3>1, AnswerKeeps
  <2> QED
    BY <1>2, <2>1, <2>2 DEF CreateAgain
<1>3. CASE FinishCreate(w)
  BY <1>3, FinishCreateKeeps
<1>4. CASE NotFound(w)
  BY <1>4, RefuseKeeps DEF NotFound
<1>5. CASE RepeatCommand(w)
  <2>1. CASE Refuse(w)
    BY <2>1, RefuseKeeps
  <2>2. CASE Succeed(w) /\ UNCHANGED <<run, journal, active, calculator, failed>>
    <3>1. worker[w].phase # "idle"
      BY <1>5 DEF RepeatCommand, Enter
    <3> QED
      BY <2>2, <3>1, AnswerKeeps
  <2> QED
    BY <1>5, <2>1, <2>2 DEF RepeatCommand
<1>6. CASE RefuseCommand(w)
  BY <1>6, RefuseKeeps DEF RefuseCommand
<1>7. CASE StartApply(w)
  BY <1>7, CalculateKeeps DEF StartApply, Blocked
<1>8. CASE FinishApply(w)
  BY <1>8, FinishApplyKeeps
<1>9. CASE StartVerify(w)
  BY <1>9, CalculateKeeps DEF StartVerify
<1>10. CASE FinishVerify(w)
  BY <1>10, FinishVerifyKeeps
<1>11. CASE Invalid(w) \/ Crash(w)
  BY <1>11, RefuseKeeps DEF Invalid, Crash
<1>12. CASE CalculatorFails(w)
  BY <1>12, FailingKeeps
<1>13. CASE RecordFailure(w)
  BY <1>13, RecordFailureKeeps
<1> QED
  BY <1>1, <1>2, <1>3, <1>4, <1>5, <1>6, <1>7, <1>8, <1>9, <1>10, <1>11, <1>12, <1>13 DEF Step

\* So does every step, and stuttering.
LEMMA NextKeeps ==
    ASSUME IInv, [Next]_vars
    PROVE  IInv'
<1>1. CASE UNCHANGED vars
  <2>1. TypeOK' /\ StateMatchesJournal' /\ IncidentsMatchState' /\ AtMostOne'
    BY <1>1 DEF vars, IInv, TypeOK, StateMatchesJournal, IncidentsMatchState, AtMostOne
  <2>2. \A v \in Workers : HandlerOK(v)'
    BY <1>1 DEF vars, IInv, HandlerOK
  <2> QED
    BY <2>1, <2>2 DEF IInv
<1>2. CASE \E w \in Workers : Step(w)
  BY <1>2, StepKeeps
<1>3. CASE \E w \in Workers, request \in Request : Send(w, request)
  BY <1>3, SendKeeps
<1>4. CASE \E c \in Calculators : Deploy(c)
  BY <1>4, DeployKeeps
<1> QED
  BY <1>1, <1>2, <1>3, <1>4 DEF Next

\* The inductive invariant holds throughout.
THEOREM StoreInvariance == Spec => []IInv
<1>1. Init => IInv
  BY InitEstablishes
<1>2. IInv /\ [Next]_vars => IInv'
  BY NextKeeps
<1> QED
  BY <1>1, <1>2, PTL DEF Spec

\* Types are kept, and the journal stays within its limit.
THEOREM StoreTypesAreKept == Spec => []TypeOK
<1>1. IInv => TypeOK
  BY DEF IInv
<1> QED
  BY <1>1, StoreInvariance, PTL

\* The stored state always is what a calculator made of the stored journal,
\* however requests overlap.
THEOREM StateAlwaysMatchesJournal == Spec => []StateMatchesJournal
<1>1. IInv => StateMatchesJournal
  BY DEF IInv
<1> QED
  BY <1>1, StoreInvariance, PTL

\* The incidents that describe a state always describe the stored one.
THEOREM IncidentsAlwaysMatchState == Spec => []IncidentsMatchState
<1>1. IInv => IncidentsMatchState
  BY DEF IInv
<1> QED
  BY <1>1, StoreInvariance, PTL

\* What a step does to the run and its journal: nothing, a creation, or one
\* command appended while no mismatch is on record.
LEMMA WhatStepsWrite ==
    ASSUME IInv, [Next]_vars
    PROVE  \/ UNCHANGED <<run, journal>>
           \/ \E w \in Workers : FinishCreate(w)
           \/ \E w \in Workers : FinishApply(w)
<1>1. CASE UNCHANGED vars
  BY <1>1 DEF vars
<1>2. CASE \E w \in Workers : Step(w)
  <2>1. PICK w \in Workers : Step(w)
    BY <1>2
  <2> QED
    BY <2>1 DEF Step, StartCreate, CreateAgain, NotFound, RepeatCommand, RefuseCommand, StartApply,
                StartVerify, FinishVerify, Invalid, CalculatorFails, RecordFailure, Crash,
                Calculate, Refuse
<1>3. CASE \E w \in Workers, request \in Request : Send(w, request)
  BY <1>3 DEF Send
<1>4. CASE \E c \in Calculators : Deploy(c)
  BY <1>4 DEF Deploy
<1> QED
  BY <1>1, <1>2, <1>3, <1>4 DEF Next

\* Before the run exists, no mismatch can be on record.
Early == run = NoRun => "REPLAY_MISMATCH" \notin active

\* The creation is the first thing that happens to a run.
LEMMA EarlyKept ==
    ASSUME IInv, Early, [Next]_vars
    PROVE  Early'
<1>1. CASE UNCHANGED <<run, active>>
  BY <1>1 DEF Early
<1>2. CASE \E w \in Workers : Step(w)
  <2>1. PICK w \in Workers : Step(w)
    BY <1>2
  <2>2. CASE UNCHANGED <<run, active>>
    BY <2>2 DEF Early
  <2>3. CASE FinishCreate(w)
    <3>1. worker[w].request \in Request /\ worker[w].request.op = "create"
      BY <2>3 DEF FinishCreate, IInv, HandlerOK
    <3>2. run'.config \in Configs
      BY <2>3, <3>1 DEF FinishCreate, Request
    <3> QED
      BY <3>2, CreatedRun DEF Early
  <2>4. CASE FinishApply(w)
    <3>1. worker[w].run = run /\ run.version = Len(journal) /\ journal \in Seq(Command) /\ run \in Row
      BY <2>4 DEF FinishApply, IInv, HandlerOK, StateMatchesJournal, TypeOK
    <3>2. run'.version = Len(journal) + 1
      BY <2>4, <3>1 DEF FinishApply, Row
    <3>3. run' # NoRun
      BY <3>1, <3>2 DEF NoRun
    <3> QED
      BY <3>3 DEF Early
  <2>5. CASE FinishVerify(w)
    <3>1. run # NoRun /\ run' = run
      BY <2>5 DEF FinishVerify, IInv, HandlerOK
    <3> QED
      BY <3>1 DEF Early
  <2>6. CASE RecordFailure(w)
    BY <2>6 DEF RecordFailure, Condition, Early
  <2> QED
    BY <2>1, <2>2, <2>3, <2>4, <2>5, <2>6
    DEF Step, StartCreate, CreateAgain, NotFound, RepeatCommand, RefuseCommand, StartApply,
        StartVerify, Invalid, CalculatorFails, Crash, Calculate, Refuse
<1>3. CASE \E w \in Workers, request \in Request : Send(w, request)
  BY <1>1, <1>3 DEF Send
<1>4. CASE \E c \in Calculators : Deploy(c)
  BY <1>1, <1>4 DEF Deploy
<1> QED
  BY <1>1, <1>2, <1>3, <1>4 DEF Next, vars

\* A mismatch on record freezes the run and its journal, whatever was under
\* way when it was found.
THEOREM MismatchAlwaysFreezes == Spec => MismatchFreezes
<1>1. Init => Early
  BY DEF Init, Early
<1>2. IInv /\ Early /\ [Next]_vars => Early'
  BY EarlyKept
<1>3. ASSUME IInv, Early, [Next]_vars, "REPLAY_MISMATCH" \in active
      PROVE  UNCHANGED <<run, journal>>
  <2>1. ASSUME NEW w \in Workers, FinishCreate(w) PROVE FALSE
    <3>1. run = NoRun
      BY <1>3, <2>1 DEF FinishCreate, IInv, HandlerOK
    <3> QED
      BY <1>3, <3>1 DEF Early
  <2>2. ASSUME NEW w \in Workers, FinishApply(w) PROVE FALSE
    BY <1>3, <2>2 DEF FinishApply, IInv, HandlerOK
  <2> QED
    BY <1>3, <2>1, <2>2, WhatStepsWrite
<1>4. IInv /\ Early /\ [Next]_vars => ["REPLAY_MISMATCH" \in active => UNCHANGED <<run, journal>>]_vars
  BY <1>3
<1> QED
  BY <1>1, <1>2, <1>4, StoreInvariance, PTL DEF Spec, MismatchFreezes

-----------------------------------------------------------------------------
(* The refinement.                                                         *)

Told(requests) == {[key |-> r.key, body |-> r.body] : r \in {q \in requests : q.op = "apply"}}

\* An answer adds the command of its request, if it is one, to what is told.
LEMMA TellingOne ==
    ASSUME NEW w \in Workers, Succeed(w), worker[w].request.op = "apply"
    PROVE  Told(confirmed') \in {Told(confirmed), Told(confirmed) \cup {Entry(w)}}
<1>1. CASE confirmed' = confirmed
  BY <1>1 DEF Told
<1>2. CASE confirmed' = confirmed \cup {worker[w].request}
  BY <1>2 DEF Told, Entry
<1> QED
  BY <1>1, <1>2 DEF Succeed

\* An answer to any other request adds nothing.
LEMMA TellingNone ==
    ASSUME NEW w \in Workers, Succeed(w), worker[w].request.op # "apply"
    PROVE  Told(confirmed') = Told(confirmed)
<1>1. CASE confirmed' = confirmed
  BY <1>1 DEF Told
<1>2. CASE confirmed' = confirmed \cup {worker[w].request}
  BY <1>2 DEF Told
<1> QED
  BY <1>1, <1>2 DEF Succeed

\* A journal write is a Record step of the abstract journal.
LEMMA ApplyRecords ==
    ASSUME IInv, NEW w \in Workers, FinishApply(w)
    PROVE  \E c \in Command : Journal!Record(c)
<1>1. /\ worker[w].phase = "calculating" /\ worker[w].request.op = "apply" /\ Succeed(w)
  BY DEF FinishApply
<1>2. /\ worker[w].run = run /\ worker[w].history = journal
      /\ worker[w].request \in Request
      /\ \A i \in 1..Len(journal) : journal[i].key # worker[w].request.key
      /\ run \in Row
  BY <1>1 DEF IInv, HandlerOK, TypeOK
<1>3. Entry(w) \in Command
  BY <1>1, <1>2 DEF Request, Entry, Command
<1>4. \A d \in Journal!Recorded(journal) : d.key # Entry(w).key
  BY <1>2 DEF Journal!Recorded, Entry
<1>5. journal' = Append(journal, Entry(w))
  BY DEF FinishApply
<1>6. run'.state.commands = journal'
  BY <1>1, <1>2, <1>5 DEF FinishApply, Row, Replay, Commands
<1>7. Told(confirmed') \in {Told(confirmed), Told(confirmed) \cup {Entry(w)}}
  BY <1>1, TellingOne
<1>8. PICK c \in Command : c = Entry(w)
  BY <1>3
<1>9. Journal!Record(c)
  BY <1>4, <1>5, <1>6, <1>7, <1>8 DEF Journal!Record, Told
<1> QED
  BY <1>9

\* Answering a command again from the journal is a Tell step, or a stutter.
LEMMA RepeatTells ==
    ASSUME IInv, NEW w \in Workers, RepeatCommand(w)
    PROVE  \/ UNCHANGED Journal!journalVars
           \/ \E c \in Command : Journal!Tell(c)
<1>1. worker[w].request \in Request /\ worker[w].request.op = "apply"
  BY DEF RepeatCommand, Enter, IInv, HandlerOK
<1>2. CASE Refuse(w)
  BY <1>2 DEF Refuse, Journal!journalVars
<1>3. CASE Same(w) /\ Succeed(w) /\ UNCHANGED <<run, journal, active, calculator, failed>>
  <2>1. Entry(w) \in Command
    BY <1>1 DEF Request, Entry, Command
  <2>2. Entry(w) \in Journal!Recorded(journal)
    BY <1>3 DEF Same, Stored, Journal!Recorded
  <2>3. Told(confirmed') \in {Told(confirmed), Told(confirmed) \cup {Entry(w)}}
    BY <1>1, <1>3, TellingOne
  <2>4. PICK c \in Command : c = Entry(w)
    BY <2>1
  <2>5. UNCHANGED Journal!journalVars \/ Journal!Tell(c)
    BY <1>3, <2>2, <2>3, <2>4 DEF Journal!Tell, Journal!journalVars, Told
  <2> QED
    BY <2>5
<1> QED
  BY <1>2, <1>3 DEF RepeatCommand

\* Steps that neither write nor tell of a command leave the journal alone.
LEMMA OthersStutter ==
    ASSUME UNCHANGED <<run.state, journal>>, Told(confirmed') = Told(confirmed)
    PROVE  UNCHANGED Journal!journalVars
BY DEF Journal!journalVars, Told

\* Every step of a handler is a step of the abstract journal or a stutter.
LEMMA StepRefines ==
    ASSUME IInv, NEW w \in Workers, Step(w)
    PROVE  \/ UNCHANGED Journal!journalVars
           \/ \E c \in Command : Journal!Record(c) \/ Journal!Tell(c)
<1>1. CASE UNCHANGED <<run, journal, confirmed>>
  BY <1>1, OthersStutter DEF Told
<1>2. CASE CreateAgain(w)
  <2>1. worker[w].request.op = "create" /\ run' = run /\ journal' = journal
    BY <1>2 DEF CreateAgain, Enter, Refuse
  <2>2. CASE Succeed(w)
    BY <2>1, <2>2, TellingNone, OthersStutter
  <2> QED
    BY <1>1, <1>2, <2>2 DEF CreateAgain, Refuse
<1>3. CASE FinishCreate(w)
  <2>1. worker[w].request.op = "create" /\ Succeed(w) /\ journal' = journal
    BY <1>3 DEF FinishCreate
  <2>2. run = NoRun
    BY <1>3, <2>1 DEF FinishCreate, IInv, HandlerOK
  <2>3. run'.state.commands = <<>>
    BY <1>3, <2>1 DEF FinishCreate, Replay, Commands
  <2>4. run.state.commands = <<>>
    BY <2>2 DEF NoRun
  <2>5. Told(confirmed') = Told(confirmed)
    BY <2>1, TellingNone
  <2> QED
    BY <2>1, <2>3, <2>4, <2>5 DEF Journal!journalVars, Told
<1>4. CASE RepeatCommand(w)
  BY <1>4, RepeatTells
<1>5. CASE FinishApply(w)
  BY <1>5, ApplyRecords
<1>6. CASE FinishVerify(w)
  <2>1. Told(confirmed') = Told(confirmed)
    BY <1>6, TellingNone DEF FinishVerify
  <2> QED
    BY <1>6, <2>1, OthersStutter DEF FinishVerify
<1> QED
  BY <1>1, <1>2, <1>3, <1>4, <1>5, <1>6
  DEF Step, StartCreate, NotFound, RefuseCommand, StartApply, StartVerify, Invalid,
      CalculatorFails, RecordFailure, Crash, Calculate, Refuse

\* The service implements CommandJournal: commands are recorded at most once
\* and for good, the account reflects exactly the record, and who was told of
\* success finds the command recorded.
THEOREM ServiceKeepsJournal == Spec => ImplementsJournal
<1>1. Init => Journal!Begin
  BY DEF Init, Journal!Begin, NoRun
<1>2. ASSUME IInv, [Next]_vars
      PROVE  [\E c \in Command : Journal!Record(c) \/ Journal!Tell(c)]_(Journal!journalVars)
  <2>1. CASE UNCHANGED <<run, journal, confirmed>>
    BY <2>1, OthersStutter DEF Told
  <2>2. CASE \E w \in Workers : Step(w)
    BY <1>2, <2>2, StepRefines
  <2>3. CASE \E w \in Workers, request \in Request : Send(w, request)
    BY <2>1, <2>3 DEF Send
  <2>4. CASE \E c \in Calculators : Deploy(c)
    BY <2>1, <2>4 DEF Deploy
  <2> QED
    BY <1>2, <2>1, <2>2, <2>3, <2>4 DEF Next, vars
<1> QED
  BY <1>1, <1>2, StoreInvariance, PTL DEF Spec, ImplementsJournal, Journal!Journaling
=============================================================================
