---------------------------- MODULE ShutdownProofs ----------------------------
(***************************************************************************)
(* What holds of module Shutdown for any number of slots and requests: the *)
(* invariants that its run checks, and that its worker is a WorkerLoop.    *)
(***************************************************************************)
EXTENDS Shutdown, TLAPS

\* The slots that the drain has taken, and when it takes them.
DrainInv ==
  /\ busy + drained <= Slots
  /\ loop \in {"check", "pop", "slot"} => drained = 0
  /\ loop \in {"drain", "exited"} => cancelled \/ API
  /\ loop = "exited" => busy = 0
  /\ API => loop = "exited" /\ busy = 0

\* How far the process has come, and what is over by then.
MainInv ==
  /\ main # "serve" => ~open
  /\ Processor => requests = 0
  /\ API => main \notin {"cancel", "wait"}
  /\ Fetcher /\ main \in {"cancel", "wait", "close"} => requests = 0
  /\ failed => main = "exited" \/ (Processor /\ main = "close")
  /\ main = "close" => (loop = "exited" /\ busy = 0) \/ (Processor /\ failed)
  /\ main = "close" => requests <= gaveUp
  /\ closed # {} => main \in {"close", "exited"}
  /\ NoUseAfterClose

IndInv == TypeOK /\ DrainInv /\ MainInv

LEMMA InitInv == Init => IndInv
<1> SUFFICES ASSUME Init PROVE IndInv
  OBVIOUS
<1> USE BoundsAssumption DEF Init
<1>1. TypeOK
  <2>1. loop \in {"check", "exited"}
    BY DEF API
  <2>2. requests \in 0..MaxRequests /\ busy \in 0..Slots /\ drained \in 0..Slots
    OBVIOUS
  <2> QED
    BY <2>1, <2>2 DEF TypeOK
<1>2. DrainInv
  BY DEF DrainInv, API
<1>3. MainInv
  BY DEF MainInv, NoUseAfterClose, API, Processor, Fetcher
<1> QED
  BY <1>1, <1>2, <1>3 DEF IndInv

LEMMA Safe == IndInv => NoUseAfterClose
  BY DEF IndInv, MainInv

-----------------------------------------------------------------------------
(* Types.                                                                  *)

LEMMA WorkerTypes == ASSUME IndInv, Worker PROVE TypeOK'
<1> USE BoundsAssumption DEF IndInv, TypeOK, API, Processor, Fetcher, serverVars, workerVars, Worker
<1>1. CASE Check
  BY <1>1 DEF Check, ContextDone
<1>2. CASE Pop
  BY <1>2 DEF Pop, ContextDone
<1>3. CASE Dispatch
  BY <1>3 DEF Dispatch
<1>4. CASE DrainSlot
  BY <1>4 DEF DrainSlot
<1>5. CASE JobEnds
  BY <1>5 DEF JobEnds, Release
<1> QED
  BY <1>1, <1>2, <1>3, <1>4, <1>5

LEMMA HandlerTypes == ASSUME IndInv, RequestArrives \/ RequestEnds \/ PrestopCalled \/ Prestop \/ Signal PROVE TypeOK'
<1> USE BoundsAssumption DEF IndInv, TypeOK, API, Processor, Fetcher, serverVars, workerVars
<1>1. CASE RequestArrives
  BY <1>1 DEF RequestArrives
<1>2. CASE RequestEnds
  BY <1>2 DEF RequestEnds
<1>3. CASE PrestopCalled
  BY <1>3 DEF PrestopCalled
<1>4. CASE PrestopActs
  BY <1>4 DEF PrestopActs, WorkerEnded
<1>5. CASE PrestopReplies
  BY <1>5 DEF PrestopReplies
<1>6. CASE Signal
  BY <1>6 DEF Signal
<1> QED
  BY <1>1, <1>2, <1>3, <1>4, <1>5, <1>6 DEF Prestop

LEMMA StopTypes == ASSUME IndInv, ServeFails \/ Stop \/ Watch PROVE TypeOK'
<1> USE BoundsAssumption DEF IndInv, TypeOK, API, Processor, Fetcher, serverVars, workerVars
<1>1. CASE FetcherStops
  BY <1>1 DEF FetcherStops
<1>2. CASE FetcherCancels
  <2>1. CASE main = "conns"
    BY <1>2, <2>1 DEF FetcherCancels, NoConnections
  <2>2. CASE main = "cancel"
    BY <1>2, <2>2 DEF FetcherCancels, NoConnections
  <2> QED
    BY <1>2, <2>1, <2>2 DEF FetcherCancels
<1>3. CASE APIStops
  BY <1>3 DEF APIStops
<1>4. CASE ProcessorStops
  BY <1>4 DEF ProcessorStops
<1>5. CASE Waited
  BY <1>5 DEF Waited, WorkerEnded
<1>6. CASE Close
  BY <1>6 DEF Close, ToClose
<1>7. CASE WatcherWakes
  BY <1>7 DEF WatcherWakes
<1>8. CASE WatcherShutsDown
  <2>1. CASE watcher = "shutdown"
    BY <1>8, <2>1 DEF WatcherShutsDown
  <2>2. CASE watcher = "conns"
    BY <1>8, <2>2 DEF WatcherShutsDown
  <2> QED
    BY <1>8, <2>1, <2>2 DEF WatcherShutsDown
<1>9. CASE ServeFails
  BY <1>9 DEF ServeFails
<1> QED
  BY <1>1, <1>2, <1>3, <1>4, <1>5, <1>6, <1>7, <1>8, <1>9 DEF Stop, Watch

-----------------------------------------------------------------------------
(* The worker.                                                             *)

\* It takes and gives back slots.
LEMMA WorkerDrains == ASSUME IndInv, Worker PROVE DrainInv'
<1> USE BoundsAssumption DEF IndInv, TypeOK, DrainInv, API, Processor, Fetcher, serverVars, workerVars, Worker
<1>1. CASE Check
  BY <1>1 DEF Check, ContextDone
<1>2. CASE Pop
  BY <1>2 DEF Pop, ContextDone
<1>3. CASE Dispatch
  BY <1>3 DEF Dispatch
<1>4. CASE DrainSlot
  BY <1>4 DEF DrainSlot
<1>5. CASE JobEnds
  BY <1>5 DEF JobEnds, Release
<1> QED
  BY <1>1, <1>2, <1>3, <1>4, <1>5

\* Only a prestop call touches it, which cancels it.
LEMMA HandlerDrains == ASSUME IndInv, RequestArrives \/ RequestEnds \/ PrestopCalled \/ Prestop \/ Signal PROVE DrainInv'
<1> USE BoundsAssumption DEF IndInv, TypeOK, DrainInv, API, Processor, Fetcher, serverVars, workerVars
<1>1. CASE RequestArrives
  BY <1>1 DEF RequestArrives
<1>2. CASE RequestEnds
  BY <1>2 DEF RequestEnds
<1>3. CASE PrestopCalled
  BY <1>3 DEF PrestopCalled
<1>4. CASE PrestopActs
  BY <1>4 DEF PrestopActs, WorkerEnded
<1>5. CASE PrestopReplies
  BY <1>5 DEF PrestopReplies
<1>6. CASE Signal
  BY <1>6 DEF Signal
<1> QED
  BY <1>1, <1>2, <1>3, <1>4, <1>5, <1>6 DEF Prestop

\* The main goroutine and the watcher only cancel it and wait for it.
LEMMA StopDrains == ASSUME IndInv, ServeFails \/ Stop \/ Watch PROVE DrainInv'
<1> USE BoundsAssumption DEF IndInv, TypeOK, DrainInv, API, Processor, Fetcher, serverVars, workerVars
<1>1. CASE FetcherStops
  BY <1>1 DEF FetcherStops
<1>2. CASE FetcherCancels
  BY <1>2 DEF FetcherCancels, NoConnections
<1>3. CASE APIStops
  BY <1>3 DEF APIStops
<1>4. CASE ProcessorStops
  BY <1>4 DEF ProcessorStops
<1>5. CASE Waited
  BY <1>5 DEF Waited, WorkerEnded
<1>6. CASE Close
  BY <1>6 DEF Close, ToClose
<1>7. CASE WatcherWakes
  BY <1>7 DEF WatcherWakes
<1>8. CASE WatcherShutsDown
  BY <1>8 DEF WatcherShutsDown
<1>9. CASE ServeFails
  BY <1>9 DEF ServeFails
<1> QED
  BY <1>1, <1>2, <1>3, <1>4, <1>5, <1>6, <1>7, <1>8, <1>9 DEF Stop, Watch

-----------------------------------------------------------------------------
(* The end of the process.                                                 *)

\* A worker that has ended does not start again.
LEMMA WorkerMain == ASSUME IndInv, Worker PROVE MainInv'
<1> USE BoundsAssumption DEF IndInv, TypeOK, DrainInv, MainInv, NoUseAfterClose, API, Processor, Fetcher, serverVars, workerVars, Worker
<1>1. CASE Check
  BY <1>1 DEF Check, ContextDone
<1>2. CASE Pop
  BY <1>2 DEF Pop, ContextDone
<1>3. CASE Dispatch
  BY <1>3 DEF Dispatch
<1>4. CASE DrainSlot
  BY <1>4 DEF DrainSlot
<1>5. CASE JobEnds
  BY <1>5 DEF JobEnds, Release
<1> QED
  BY <1>1, <1>2, <1>3, <1>4, <1>5

\* No handler begins once the listener is closed.
LEMMA HandlerMain == ASSUME IndInv, RequestArrives \/ RequestEnds \/ PrestopCalled \/ Prestop \/ Signal PROVE MainInv'
<1> USE BoundsAssumption DEF IndInv, TypeOK, DrainInv, MainInv, NoUseAfterClose, API, Processor, Fetcher, serverVars, workerVars
<1>1. CASE RequestArrives
  BY <1>1 DEF RequestArrives
<1>2. CASE RequestEnds
  BY <1>2 DEF RequestEnds
<1>3. CASE PrestopCalled
  BY <1>3 DEF PrestopCalled
<1>4. CASE PrestopActs
  BY <1>4 DEF PrestopActs, WorkerEnded
<1>5. CASE PrestopReplies
  BY <1>5 DEF PrestopReplies
<1>6. CASE Signal
  BY <1>6 DEF Signal
<1> QED
  BY <1>1, <1>2, <1>3, <1>4, <1>5, <1>6 DEF Prestop

\* The steps that end the process come in their order.
LEMMA StopMain == ASSUME IndInv, ServeFails \/ Stop \/ Watch PROVE MainInv'
<1> USE BoundsAssumption DEF IndInv, TypeOK, DrainInv, MainInv, NoUseAfterClose, API, Processor, Fetcher, serverVars, workerVars
<1>1. CASE FetcherStops
  BY <1>1 DEF FetcherStops
<1>2. CASE FetcherCancels
  BY <1>2 DEF FetcherCancels, NoConnections
<1>3. CASE APIStops
  BY <1>3 DEF APIStops
<1>4. CASE ProcessorStops
  BY <1>4 DEF ProcessorStops
<1>5. CASE Waited
  BY <1>5 DEF Waited, WorkerEnded
<1>6. CASE Close
  BY <1>6 DEF Close, ToClose
<1>7. CASE WatcherWakes
  BY <1>7 DEF WatcherWakes
<1>8. CASE WatcherShutsDown
  BY <1>8 DEF WatcherShutsDown
<1>9. CASE ServeFails
  BY <1>9 DEF ServeFails
<1> QED
  BY <1>1, <1>2, <1>3, <1>4, <1>5, <1>6, <1>7, <1>8, <1>9 DEF Stop, Watch

LEMMA StutterNext == IndInv /\ UNCHANGED vars => IndInv'
  BY DEF IndInv, TypeOK, DrainInv, MainInv, NoUseAfterClose, API, Processor, Fetcher,
         vars, serverVars, workerVars

\* The inductive invariant of a process, whichever program it runs.
THEOREM Invariant == Spec => []IndInv
<1>1. IndInv /\ [Next]_vars => IndInv'
  <2> SUFFICES ASSUME IndInv, [Next]_vars PROVE IndInv'
    OBVIOUS
  <2>1. CASE Worker
    BY <2>1, WorkerTypes, WorkerDrains, WorkerMain DEF IndInv
  <2>2. CASE RequestArrives \/ RequestEnds \/ PrestopCalled \/ Prestop \/ Signal
    BY <2>2, HandlerTypes, HandlerDrains, HandlerMain DEF IndInv
  <2>3. CASE ServeFails \/ Stop \/ Watch
    BY <2>3, StopTypes, StopDrains, StopMain DEF IndInv
  <2>4. CASE UNCHANGED vars
    BY <2>4, StutterNext
  <2> QED
    BY <2>1, <2>2, <2>3, <2>4 DEF Next
<1> QED
  BY InitInv, <1>1, PTL DEF Spec

\* Every state of a process has its type (runContentFetcher, runQueueProcessor,
\* runAPI).
THEOREM TypeCorrect == Spec => []TypeOK
<1>1. IndInv => TypeOK
  BY DEF IndInv
<1> QED
  BY Invariant, <1>1, PTL

\* Nothing is closed while a loop, a job or a handler may use it, but for a
\* queue-processor whose server failed and for the requests that runAPI gave up
\* on (runContentFetcher, runQueueProcessor, runAPI).
THEOREM NoUseAfterCloseCorrect == Spec => []NoUseAfterClose
<1>1. IndInv => NoUseAfterClose
  BY Safe
<1> QED
  BY Invariant, <1>1, PTL

-----------------------------------------------------------------------------
(* The refinement: the one worker of the process takes the steps of        *)
(* WorkerLoop, and every other step leaves it alone or cancels it.         *)

LoopStep == [Loop!Next]_(Loop!vars)

\* A step that changes neither the loop nor the slots nor the context.
LEMMA LoopStays ==
  ASSUME LoopState' = LoopState, busy' = busy, cancelled' = cancelled PROVE LoopStep
  BY DEF LoopStep, Loop!vars

\* A step that does to the worker what WorkerLoop's worker may do.
LEMMA LoopMoves ==
  ASSUME \/ Loop!Take("worker") \/ Loop!StartHandler("worker") \/ Loop!HandlerEnds("worker")
         \/ Loop!Cancel("worker") \/ Loop!Exit("worker")
  PROVE  LoopStep
  BY DEF LoopStep, Loop!Next

LEMMA LoopCancelled ==
  ASSUME IndInv, ~API, cancelled', LoopState' = LoopState, busy' = busy
  PROVE  LoopStep
<1>1. CASE cancelled
  BY <1>1, LoopStays DEF IndInv, TypeOK
<1>2. CASE ~cancelled
  <2>1. LoopState # "down"
    BY <1>2 DEF IndInv, DrainInv, TypeOK, LoopState
  <2>2. Loop!Cancel("worker")
    BY <2>1 DEF Loop!Cancel
  <2> QED
    BY <2>2, LoopMoves
<1> QED
  BY <1>1, <1>2

LEMMA WorkerLoops == ASSUME IndInv, Worker PROVE LoopStep
<1> USE DEF IndInv, TypeOK, DrainInv, LoopState
<1>0. cancelled' = cancelled
  BY DEF Worker
<1>1. CASE Check
  BY <1>0, <1>1, LoopStays DEF Check
<1>2. CASE Pop
  <2>1. CASE loop' = "check"
    BY <1>0, <1>2, <2>1, LoopStays DEF Pop
  <2>2. CASE ~ContextDone /\ loop' = "slot"
    <3>1. Loop!Take("worker")
      BY <1>0, <1>2, <2>2 DEF Pop, ContextDone, Loop!Take, Loop!Moves
    <3> QED
      BY <3>1, LoopMoves
  <2> QED
    BY <1>2, <2>1, <2>2 DEF Pop
<1>3. CASE Dispatch
  <2>1. LoopState = "slot" /\ LoopState' = "poll"
    BY <1>3 DEF Dispatch
  <2>2. busy < Slots /\ busy' = busy + 1
    BY <1>3, BoundsAssumption DEF Dispatch
  <2>3. Loop!Moves("worker", "slot", "poll")
    BY <2>1 DEF Loop!Moves
  <2>4. Loop!StartHandler("worker")
    BY <1>0, <2>2, <2>3 DEF Loop!StartHandler
  <2> QED
    BY <2>4, LoopMoves
<1>4. CASE DrainSlot
  <2>1. CASE loop' = "drain"
    BY <1>0, <1>4, <2>1, LoopStays DEF DrainSlot
  <2>2. CASE loop' = "exited"
    <3>1. drained + 1 = Slots /\ busy = 0
      BY <1>4, <2>2, BoundsAssumption DEF DrainSlot
    <3>2. cancelled
      BY <1>4 DEF DrainSlot, API
    <3>3. Loop!Exit("worker")
      BY <1>0, <1>4, <2>2, <3>1, <3>2 DEF DrainSlot, Loop!Exit, Loop!Moves
    <3> QED
      BY <3>3, LoopMoves
  <2> QED
    BY <1>4, <2>1, <2>2 DEF DrainSlot
<1>5. CASE JobEnds
  <2>1. Loop!HandlerEnds("worker")
    BY <1>0, <1>5 DEF JobEnds, Release, Loop!HandlerEnds
  <2> QED
    BY <2>1, LoopMoves
<1> QED
  BY <1>1, <1>2, <1>3, <1>4, <1>5 DEF Worker

\* The context is cancelled by the prestop handler, by the signal goroutine and
\* by the deferred cancel of the queue-processor, and by the content-fetcher's
\* main goroutine.
LEMMA OthersLoop == ASSUME IndInv, [Next]_vars, ~Worker PROVE LoopStep
<1>1. LoopState' = LoopState /\ busy' = busy
  BY DEF Next, Prestop, Stop, Watch, RequestArrives, RequestEnds, PrestopCalled, PrestopActs,
         PrestopReplies, Signal, FetcherStops, FetcherCancels, APIStops, ProcessorStops,
         ServeFails, Waited, Close, WatcherWakes, WatcherShutsDown, vars, workerVars, LoopState
<1>2. CASE cancelled' = cancelled
  BY <1>1, <1>2, LoopStays
<1>3. CASE cancelled' # cancelled
  <2>1. cancelled' /\ ~API
    <3>1. CASE Close
      <4>1. cancelled \in BOOLEAN /\ cancelled' = (cancelled \/ (Processor /\ main' = "exited"))
        BY <3>1 DEF Close, IndInv, TypeOK
      <4>2. CASE Processor /\ main' = "exited"
        BY <4>1, <4>2 DEF Processor, API
      <4>3. CASE ~(Processor /\ main' = "exited")
        <5>1. cancelled' = cancelled
          BY <4>1, <4>3
        <5> QED
          BY <1>3, <5>1
      <4> QED
        BY <4>2, <4>3
    <3>2. CASE ~Close
      BY <1>3, <3>2 DEF Next, Prestop, Stop, Watch, RequestArrives, RequestEnds, PrestopCalled,
           PrestopActs, PrestopReplies, Signal, ServeFails, FetcherStops, FetcherCancels,
           APIStops, ProcessorStops, Waited, WatcherWakes, WatcherShutsDown, vars,
           IndInv, MainInv, API, Processor, Fetcher
    <3> QED
      BY <3>1, <3>2
  <2> QED
    BY <1>1, <2>1, LoopCancelled
<1> QED
  BY <1>2, <1>3

\* The worker of the process is a WorkerLoop: the drain that takes its slots
\* one by one is one exit, with no handler left (run).
THEOREM ImplementsLoopCorrect == Spec => ImplementsLoop
<1>1. Init => Loop!Init
  BY DEF Init, Loop!Init, LoopState
<1>2. IndInv /\ [Next]_vars => [Loop!Next]_(Loop!vars)
  BY WorkerLoops, OthersLoop DEF LoopStep
<1> QED
  BY Invariant, <1>1, <1>2, PTL DEF Spec, ImplementsLoop, Loop!Spec

-----------------------------------------------------------------------------
(* Nobody waits in a circle.                                               *)

\* Who cancels the context, who closes the listener, and what is closed; a
\* drain that goes on has a slot to take.
EndInv ==
  /\ loop = "drain" => drained < Slots
  /\ Processor /\ watcher # "select" => cancelled
  /\ Processor => (~open <=> failed \/ watcher \in {"conns", "done"})
  /\ Processor => main \notin {"conns", "cancel"}
  /\ Fetcher /\ cancelled => main \in {"wait", "close", "exited"}
  /\ ~API /\ main = "wait" => cancelled
  /\ prestop = "reply" => Processor \/ WorkerEnded
  /\ main = "close" => \E i \in 1..Len(ToClose) : ToClose[i] \notin closed

LEMMA EndInit == Init => EndInv
  BY DEF Init, EndInv, API, Processor, Fetcher, WorkerEnded

LEMMA EndNext == ASSUME IndInv, EndInv, [Next]_vars PROVE EndInv'
<1> USE DEF IndInv, TypeOK, DrainInv, MainInv, EndInv, API, Processor, Fetcher, WorkerEnded,
            ToClose, serverVars, workerVars
<1>1. CASE Worker
  BY <1>1, BoundsAssumption
  DEF Worker, Check, Pop, Dispatch, DrainSlot, JobEnds, Release, ContextDone
<1>2. CASE RequestArrives \/ RequestEnds
  BY <1>2 DEF RequestArrives, RequestEnds
<1>3. CASE PrestopCalled \/ Prestop \/ Signal
  BY <1>3 DEF PrestopCalled, Prestop, PrestopActs, PrestopReplies, Signal
<1>4. CASE FetcherStops \/ FetcherCancels
  BY <1>4 DEF FetcherStops, FetcherCancels
<1>5. CASE APIStops \/ ProcessorStops \/ ServeFails \/ Waited
  BY <1>5 DEF APIStops, ProcessorStops, ServeFails, Waited
<1>6. CASE Close
  BY <1>6 DEF Close
<1>7. CASE Watch
  BY <1>7 DEF Watch, WatcherWakes, WatcherShutsDown
<1>8. CASE UNCHANGED vars
  BY <1>8 DEF vars
<1> QED
  BY <1>1, <1>2, <1>3, <1>4, <1>5, <1>6, <1>7, <1>8 DEF Next, Stop

LEMMA EndHolds == Spec => []EndInv
<1>1. IndInv /\ EndInv /\ [Next]_vars => EndInv'
  BY EndNext
<1> QED
  BY EndInit, Invariant, <1>1, PTL DEF Spec

\* A cancelled worker that has not ended can go on: some slot is free or held
\* by a goroutine that returns.
LEMMA WorkerGoesOn == IndInv /\ EndInv /\ cancelled /\ ~WorkerEnded => WorkerCan
<1> SUFFICES ASSUME IndInv, EndInv, cancelled, loop # "exited" \/ busy > 0 PROVE WorkerCan
  BY DEF WorkerEnded, IndInv, TypeOK
<1>1. CASE busy > 0
  BY <1>1 DEF WorkerCan
<1>2. CASE busy = 0 /\ loop \in {"check", "pop"}
  BY <1>2 DEF WorkerCan
<1>3. CASE busy = 0 /\ loop \in {"slot", "drain"} /\ drained < Slots
  BY <1>3, BoundsAssumption DEF WorkerCan, IndInv, TypeOK
<1>4. CASE busy = 0 /\ loop \in {"slot", "drain"} /\ drained >= Slots
  BY <1>4, BoundsAssumption DEF IndInv, TypeOK, DrainInv, EndInv
<1> QED
  BY <1>1, <1>2, <1>3, <1>4, BoundsAssumption DEF IndInv, TypeOK, DrainInv

\* Two goroutines of a process wait for each other only in the
\* content-fetcher, when a prestop call came before the signal
\* (runContentFetcher, runQueueProcessor, runAPI).
THEOREM NoCircularWaitCorrect == Spec => []NoCircularWait
<1>1. IndInv /\ EndInv => NoCircularWait
  <2> SUFFICES ASSUME IndInv, EndInv, signalled \/ failed \/ (Processor /\ cancelled), main # "exited",
                      ~WorkerCan, ~HandlerCan, ~WatcherCan, ~MainCan
               PROVE  Fetcher /\ main = "conns" /\ prestop = "called"
    BY DEF NoCircularWait
  <2>1. (API \/ requests = 0) /\ prestop # "reply"
    BY BoundsAssumption DEF HandlerCan, IndInv, TypeOK, MainInv, API, Fetcher, Processor
  <2>2. cancelled => WorkerEnded
    BY WorkerGoesOn
  <2>3. main \notin {"cancel", "close"}
    BY DEF MainCan, EndInv
  <2>4. ~failed
    BY <2>3 DEF IndInv, MainInv
  <2>5. CASE Processor
    <3>1. prestop # "called" /\ NoConnections
      BY <2>1, <2>5 DEF HandlerCan, NoConnections, IndInv, TypeOK, MainInv
    <3>2. watcher = "done" /\ cancelled /\ ~open
      BY <2>5, <2>4, <3>1 DEF WatcherCan, EndInv, IndInv, TypeOK
    <3>3. main \in {"serve", "wait"}
      BY <2>3, <2>5 DEF EndInv, IndInv, TypeOK
    <3> QED
      BY <2>2, <2>5, <3>2, <3>3 DEF MainCan
  <2>6. CASE ~Processor
    <3>1. main # "serve" /\ (Fetcher \/ API)
      BY <2>6, <2>4 DEF MainCan, IndInv, TypeOK, Fetcher, API, Processor
    <3>2. main # "wait"
      BY <2>2 , <2>6 DEF MainCan, EndInv, IndInv, MainInv, API
    <3>3. main = "conns" /\ ~API /\ ~NoConnections
      BY <2>3, <3>1, <3>2 DEF MainCan, IndInv, TypeOK
    <3> QED
      BY <2>1, <3>1, <3>3 DEF NoConnections, IndInv, TypeOK
  <2> QED
    BY <2>5, <2>6
<1> QED
  BY Invariant, EndHolds, <1>1, PTL

-----------------------------------------------------------------------------
(* The way to the end is finite.                                           *)

\* A process has a distance, and it is a natural number.
LEMMA DistanceType == IndInv => Distance \in Nat
<1> SUFFICES ASSUME IndInv PROVE Distance \in Nat
  OBVIOUS
<1>1. {MainSteps, WatcherSteps, PrestopSteps, LoopSteps} \subseteq Nat
  BY DEF MainSteps, WatcherSteps, PrestopSteps, LoopSteps
<1>2. \A r \in {"browser", "storage", "redis", "database"} : Left(r) \in Nat
  BY DEF Left
<1>3. requests \in Nat /\ busy \in Nat /\ Slots - drained \in Nat
  BY BoundsAssumption DEF IndInv, TypeOK
<1>4. (IF signalled THEN 0 ELSE 1) \in Nat
  OBVIOUS
<1> QED
  BY <1>1, <1>2, <1>3, <1>4 DEF Distance

Ending == ~open /\ (cancelled \/ API)

\* The worker gives back, takes its last job or drains.
LEMMA WorkerShrinks == ASSUME IndInv, Ending, Worker PROVE Distance' < Distance
<1>1. /\ UNCHANGED <<requests, signalled, MainSteps, WatcherSteps, PrestopSteps>>
      /\ \A r \in {"browser", "storage", "redis", "database"} : Left(r)' = Left(r)
  BY DEF Worker, serverVars, MainSteps, WatcherSteps, PrestopSteps, Left
<1>2. busy' + (Slots - drained') + LoopSteps' < busy + (Slots - drained) + LoopSteps
  <2> USE BoundsAssumption DEF IndInv, TypeOK, DrainInv, Ending, API, LoopSteps
  <2>1. CASE Check
    BY <2>1 DEF Check, ContextDone
  <2>2. CASE Pop
    BY <2>2 DEF Pop, ContextDone
  <2>3. CASE Dispatch
    BY <2>3 DEF Dispatch
  <2>4. CASE DrainSlot
    BY <2>4 DEF DrainSlot
  <2>5. CASE JobEnds
    BY <2>5 DEF JobEnds, Release
  <2> QED
    BY <2>1, <2>2, <2>3, <2>4, <2>5 DEF Worker
<1>3. /\ {requests, busy, drained, busy', drained', LoopSteps, LoopSteps'} \subseteq Nat
      /\ {MainSteps, WatcherSteps, PrestopSteps} \subseteq Nat
      /\ \A r : Left(r) \in Nat
  <2>1. TypeOK'
    BY WorkerTypes
  <2> QED
    BY <2>1, BoundsAssumption
    DEF IndInv, TypeOK, LoopSteps, MainSteps, WatcherSteps, PrestopSteps, Left
<1> QED
  BY <1>1, <1>2, <1>3, BoundsAssumption DEF Distance

\* The handlers that are left return, and the signal comes once.
LEMMA HandlersShrink ==
  ASSUME IndInv, Ending, RequestArrives \/ RequestEnds \/ PrestopCalled \/ Prestop \/ Signal
  PROVE  Distance' < Distance
<1>1. /\ UNCHANGED <<busy, drained, MainSteps, WatcherSteps, LoopSteps>>
      /\ \A r \in {"browser", "storage", "redis", "database"} : Left(r)' = Left(r)
  BY DEF RequestArrives, RequestEnds, PrestopCalled, Prestop, PrestopActs, PrestopReplies, Signal,
         serverVars, workerVars, MainSteps, WatcherSteps, LoopSteps, Left
<1>2. requests' + (IF signalled' THEN 0 ELSE 1) + PrestopSteps'
        < requests + (IF signalled THEN 0 ELSE 1) + PrestopSteps
  <2> USE BoundsAssumption DEF IndInv, TypeOK, Ending, PrestopSteps
  <2>1. CASE RequestEnds
    BY <2>1 DEF RequestEnds
  <2>2. CASE PrestopActs
    BY <2>2 DEF PrestopActs
  <2>3. CASE PrestopReplies
    BY <2>3 DEF PrestopReplies
  <2>4. CASE Signal
    BY <2>4 DEF Signal, serverVars
  <2> QED
    BY <2>1, <2>2, <2>3, <2>4 DEF RequestArrives, PrestopCalled, Prestop
<1>3. /\ {requests, busy, drained, requests', PrestopSteps, PrestopSteps'} \subseteq Nat
      /\ {MainSteps, WatcherSteps, LoopSteps} \subseteq Nat
      /\ \A r : Left(r) \in Nat
  <2>1. TypeOK'
    BY HandlerTypes
  <2> QED
    BY <2>1, BoundsAssumption
    DEF IndInv, TypeOK, LoopSteps, MainSteps, WatcherSteps, PrestopSteps, Left
<1> QED
  BY <1>1, <1>2, <1>3, BoundsAssumption DEF Distance

\* The main and the signal goroutine only go forward.
LEMMA StopShrinks == ASSUME IndInv, EndInv, Ending, Stop \/ Watch PROVE Distance' < Distance
<1> DEFINE lefts == Left("browser") + Left("storage") + Left("redis") + Left("database")
<1>1. UNCHANGED <<requests, signalled, busy, drained, PrestopSteps, LoopSteps>>
  BY DEF Stop, Watch, FetcherStops, FetcherCancels, APIStops, ProcessorStops, Waited, Close,
         WatcherWakes, WatcherShutsDown, serverVars, workerVars, PrestopSteps, LoopSteps
<1>2. MainSteps' + WatcherSteps' + lefts' < MainSteps + WatcherSteps + lefts
  <2>1. CASE Close
    <3>1. PICK i \in 1..Len(ToClose) :
            /\ closed = {ToClose[j] : j \in 1..(i - 1)}
            /\ closed' = closed \cup {ToClose[i]}
            /\ main' = IF i = Len(ToClose) THEN "exited" ELSE main
      BY <2>1 DEF Close
    <3>2. ToClose[i] \in {"browser", "storage", "redis", "database"} \ closed
      BY <3>1 DEF ToClose
    <3>3. lefts' < lefts
      BY <3>1, <3>2 DEF Left
    <3>4. MainSteps' <= MainSteps /\ WatcherSteps' = WatcherSteps
      BY <2>1, <3>1 DEF Close, MainSteps, WatcherSteps
    <3>5. {MainSteps, MainSteps', WatcherSteps, lefts, lefts'} \subseteq Nat
      BY DEF MainSteps, WatcherSteps, Left
    <3> QED
      BY <3>3, <3>4, <3>5
  <2>2. CASE ~Close
    <3>1. lefts' = lefts
      BY <2>2 DEF Stop, Watch, FetcherStops, FetcherCancels, APIStops, ProcessorStops, Waited,
                  WatcherWakes, WatcherShutsDown, Left
    <3>2. MainSteps' + WatcherSteps' < MainSteps + WatcherSteps
      BY <2>2 DEF Stop, Watch, FetcherStops, FetcherCancels, APIStops, ProcessorStops, Waited,
                  WatcherWakes, WatcherShutsDown, MainSteps, WatcherSteps
    <3>3. {MainSteps, WatcherSteps, MainSteps', WatcherSteps', lefts} \subseteq Nat
      BY DEF MainSteps, WatcherSteps, Left
    <3> QED
      BY <3>1, <3>2, <3>3
  <2> QED
    BY <2>1, <2>2
<1>3. /\ {requests, busy, drained} \subseteq Nat
      /\ {MainSteps, WatcherSteps, PrestopSteps, LoopSteps, lefts} \subseteq Nat
      /\ {MainSteps', WatcherSteps', lefts'} \subseteq Nat
  BY BoundsAssumption DEF IndInv, TypeOK, LoopSteps, MainSteps, WatcherSteps, PrestopSteps, Left
<1>4. /\ Distance = requests + busy + (Slots - drained) + (IF signalled THEN 0 ELSE 1)
                      + PrestopSteps + LoopSteps + (MainSteps + WatcherSteps + lefts)
      /\ Distance' = requests' + busy' + (Slots - drained') + (IF signalled' THEN 0 ELSE 1)
                      + PrestopSteps' + LoopSteps' + (MainSteps' + WatcherSteps' + lefts')
  BY <1>1, <1>3, BoundsAssumption DEF Distance, Left
<1> HIDE DEF lefts
<1> QED
  BY <1>1, <1>2, <1>3, <1>4, BoundsAssumption

\* After the listener is closed and the context is done a process takes
\* Distance steps at most, and by NoCircularWait it can take one until it has
\* exited: the part of ProcessEnds that needs no fairness.
THEOREM EndingShrinksCorrect == Spec => EndingShrinks
<1>1. IndInv /\ EndInv /\ [Next]_vars => [~open /\ (cancelled \/ API) => Distance' < Distance]_vars
  <2>1. Ending => ~ServeFails
    BY DEF Ending, ServeFails
  <2> QED
    BY <2>1, WorkerShrinks, HandlersShrink, StopShrinks DEF Next, Ending
<1> QED
  BY Invariant, EndHolds, <1>1, PTL DEF Spec, EndingShrinks

=============================================================================
