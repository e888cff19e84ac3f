-------------------------- MODULE ThreadPool_proofs --------------------------
(***************************************************************************)
(* Proofs about ThreadPool, for any number of workers, tasks and spurious  *)
(* wake-ups.  The argument: ActiveThreads counts the workers between their *)
(* announcement and their retirement, and a worker passes through          *)
(* CompletionLock after the announcement, so an owner that saw no active   *)
(* thread under CompletionLock can meet no worker at the queue; and tasks  *)
(* leave the queue in the order of their numbers.                          *)
(***************************************************************************)
EXTENDS ThreadPool, FiniteSetTheorems, TLAPS

HoldsQueueLock == {"claim", "sync", "pop"}
AnnouncedAt == {"sync", "pop", "run", "retire"}
Announced == {w \in Threads : at[w] \in AnnouncedAt}

(* TypeOK without the range of ActiveThreads, which follows from Counted.  *)
Types ==
  /\ Tasks \in Seq(1 .. pushed)
  /\ EnableFlag \in BOOLEAN
  /\ QueueLock \in SUBSET Threads
  /\ CompletionLock \in BOOLEAN
  /\ at \in [Threads -> WorkerPoints]
  /\ task \in [Threads -> 0 .. pushed]
  /\ main \in [at : MainPoints, task : 0 .. pushed]
  /\ pushed \in 0 .. MaxTasks
  /\ finished \in SUBSET (1 .. pushed)
  /\ spurious \in 0 .. MaxSpurious
  /\ \A w \in Threads : at[w] = "run" => task[w] \in 1 .. pushed

Counted == ActiveThreads = Cardinality(Announced)

(* Who holds which lock.                                                   *)
Locking ==
  /\ \A w \in Threads : w \in QueueLock <=> at[w] \in HoldsQueueLock
  /\ \A v, w \in QueueLock : v = w
  /\ CompletionLock <=> main.at \in {"test-active", "test-queue", "block"}

(* A worker that has found a task still finds it when it takes it.         *)
TaskFound == \A w \in Threads : at[w] \in HoldsQueueLock => Tasks # <<>>

(* Once the owner has seen no active thread, no worker can take a task.    *)
Quiet == main.at = "test-queue" =>
           \A w \in Threads : at[w] \notin {"pop", "run", "retire"}

IInv == Types /\ Counted /\ Locking /\ TaskFound /\ Quiet

OwnerStep == InCall \/ MakeCall
-----------------------------------------------------------------------------
(* Each conjunct is kept by every step.                                    *)
LEMMA TypesStep == Types /\ Locking /\ TaskFound /\ [Next]_vars => Types'
<1> SUFFICES ASSUME Types, Locking, TaskFound, [Next]_vars PROVE Types'
  OBVIOUS
<1> USE BoundsAssumption DEF Types
<1>1. ASSUME NEW w \in Threads, Worker(w) PROVE Types'
  <2>1. CASE Pop(w)
    <3>1. Tasks # <<>>
      BY <2>1 DEF Pop, TaskFound, HoldsQueueLock
    <3>2. Head(Tasks) \in 1 .. pushed /\ Tail(Tasks) \in Seq(1 .. pushed)
      BY <3>1
    <3>3. task' \in [Threads -> 0 .. pushed]
      BY <2>1, <3>2 DEF Pop
    <3>4. QED BY <2>1, <3>2, <3>3 DEF Pop, Go, WorkerPoints
  <2>2. CASE WaitForTask(w)
    BY <2>2 DEF WaitForTask, Go, WorkerPoints
  <2>3. CASE Claim(w) \/ Sync(w) \/ Retire(w)
    BY <2>3 DEF Claim, Sync, Retire, Go, WorkerPoints, queueVars
  <2>4. CASE Run(w)
    <3>1. task[w] \in 1 .. pushed
      BY <2>4 DEF Run
    <3>2. QED BY <2>4, <3>1 DEF Run, Go, WorkerPoints, queueVars
  <2>5. CASE NotifyCompletion(w)
    BY <2>5 DEF NotifyCompletion, Go, MainTo, WorkerPoints, MainPoints, queueVars
  <2>6. QED BY <1>1, <2>1, <2>2, <2>3, <2>4, <2>5 DEF Worker
<1>2. CASE asyncImpl
  BY <1>2 DEF asyncImpl, MainTo, MainPoints
<1>3. CASE NotifyOne
  BY <1>3 DEF NotifyOne, Go, MainTo, WorkerPoints, MainPoints, queueVars
<1>4. CASE NotifyAll
  <2>1. at' \in [Threads -> WorkerPoints]
    BY <1>4 DEF NotifyAll, WorkerPoints
  <2>2. \A w \in Threads : at'[w] = "run" => at[w] = "run"
    BY <1>4 DEF NotifyAll
  <2>3. QED BY <1>4, <2>1, <2>2 DEF NotifyAll, MainTo, MainPoints, queueVars
<1>a. ASSUME main' \in [at : MainPoints, task : 0 .. pushed],
             CompletionLock' \in BOOLEAN, EnableFlag' \in BOOLEAN,
             UNCHANGED <<Tasks, QueueLock, pushed, at, task, finished, spurious>>
      PROVE  Types'
  BY <1>a
<1>9. ASSUME NEW point \in MainPoints, MainTo(point), CompletionLock' \in BOOLEAN,
             UNCHANGED <<queueVars, at, task, finished, spurious>>
      PROVE  Types'
  <2>1. main' \in [at : MainPoints, task : 0 .. pushed]
    BY <1>9 DEF MainTo
  <2>2. QED BY <1>a, <1>9, <2>1 DEF queueVars
<1>10. CASE EndGet \/ TakeCompletionLock \/ Block \/ Join
  BY <1>9, <1>10 DEF EndGet, TakeCompletionLock, Block, Join, MainPoints
<1>11. CASE TestActive
  BY <1>9, <1>11 DEF TestActive, MainPoints
<1>12. CASE TestQueue
  BY <1>9, <1>12 DEF TestQueue, MainPoints
<1>5. CASE wait
  BY <1>5, <1>9 DEF wait, MainPoints
<1>14. CASE Disable
  <2>1. main' \in [at : MainPoints, task : 0 .. pushed]
    BY <1>14 DEF Disable, MainTo, MainPoints
  <2>2. QED BY <1>a, <1>14, <2>1 DEF Disable
<1>13. ASSUME NEW t \in 1 .. pushed, get(t)
       PROVE  Types'
  <2>1. main' \in [at : MainPoints, task : 0 .. pushed]
    BY <1>13 DEF get, MainPoints
  <2>2. QED BY <1>a, <1>13, <2>1 DEF get, queueVars
<1>6. CASE SpuriousWakeUp
  BY <1>6 DEF SpuriousWakeUp, Go, MainTo, WorkerPoints, MainPoints, queueVars
<1>7. CASE UNCHANGED vars
  BY <1>7 DEF vars, queueVars
<1>8. QED BY <1>1, <1>2, <1>3, <1>4, <1>10, <1>11, <1>12, <1>13, <1>14, <1>5, <1>6, <1>7 DEF Next, InCall, MakeCall

(* What each step of a worker does to the points of the workers.           *)
LEMMA Moves ==
  ASSUME Types, NEW w \in Threads, NEW point, Go(w, point)
  PROVE  at'[w] = point /\ \A v \in Threads \ {w} : at'[v] = at[v]
BY DEF Types, Go

(* The steps of the owner and spurious wake-ups only move workers that     *)
(* sleep, and hold nothing, to where they test the queue again.            *)
LEMMA OthersMoveSleepers ==
  ASSUME Types, OwnerStep \/ SpuriousWakeUp \/ UNCHANGED vars
  PROVE  /\ \A w \in Threads : at'[w] = at[w] \/ (at[w] = "blocked" /\ at'[w] = "loop")
         /\ QueueLock' = QueueLock /\ ActiveThreads' = ActiveThreads /\ task' = task
         /\ finished' = finished
<1>1. CASE NotifyOne
  BY <1>1 DEF NotifyOne, Go, Types, queueVars
<1>2. CASE NotifyAll
  BY <1>2 DEF NotifyAll, Types, queueVars
<1>3. CASE SpuriousWakeUp
  BY <1>3 DEF SpuriousWakeUp, Go, Types, queueVars
<1>4. CASE MakeCall
  BY <1>4 DEF MakeCall, asyncImpl, get, wait, Disable, queueVars
<1>5. CASE EndGet \/ TakeCompletionLock \/ TestActive \/ TestQueue \/ Block \/ Join
  BY <1>5 DEF EndGet, TakeCompletionLock, TestActive, TestQueue, Block, Join, queueVars
<1>6. CASE UNCHANGED vars
  BY <1>6 DEF vars, queueVars
<1>7. QED BY <1>1, <1>2, <1>3, <1>4, <1>5, <1>6 DEF OwnerStep, InCall

LEMMA LockingStep == Types /\ Locking /\ [Next]_vars => Locking'
<1> SUFFICES ASSUME Types, Locking, [Next]_vars PROVE Locking'
  OBVIOUS
<1>1. ASSUME NEW w \in Threads, Worker(w) PROVE Locking'
  <2>1. main'.at \in {"test-active", "test-queue", "block"} <=>
          main.at \in {"test-active", "test-queue", "block"}
    BY <1>1 DEF Worker, WaitForTask, Claim, Sync, Pop, Run, Retire, NotifyCompletion,
                MainTo
  <2>2. CompletionLock' = CompletionLock
    BY <1>1 DEF Worker, WaitForTask, Claim, Sync, Pop, Run, Retire, NotifyCompletion
  <2>3. /\ \A v \in Threads : v \in QueueLock' <=> at'[v] \in HoldsQueueLock
        /\ \A v, u \in QueueLock' : v = u
    <3>1. CASE WaitForTask(w)
      BY <3>1, Moves DEF WaitForTask, Locking, HoldsQueueLock
    <3>2. CASE Claim(w) \/ Sync(w)
      BY <3>2, Moves DEF Claim, Sync, Locking, HoldsQueueLock, queueVars
    <3>3. CASE Pop(w)
      <4>1. w \in QueueLock /\ QueueLock \in SUBSET Threads
        BY <3>3 DEF Pop, Locking, HoldsQueueLock, Types
      <4>2. \A v \in Threads \ {w} : at[v] \notin HoldsQueueLock
        BY <4>1 DEF Locking
      <4>3. QED BY <3>3, <4>2, Moves DEF Pop, HoldsQueueLock
    <3>4. CASE Run(w) \/ Retire(w) \/ NotifyCompletion(w)
      BY <3>4, Moves DEF Run, Retire, NotifyCompletion, Locking, HoldsQueueLock, queueVars
    <3>5. QED BY <1>1, <3>1, <3>2, <3>3, <3>4 DEF Worker
  <2>4. QED BY <2>1, <2>2, <2>3 DEF Locking
<1>2. ASSUME OwnerStep \/ SpuriousWakeUp \/ UNCHANGED vars PROVE Locking'
  <2>1. /\ \A w \in Threads : w \in QueueLock' <=> at'[w] \in HoldsQueueLock
        /\ \A v, w \in QueueLock' : v = w
    BY <1>2, OthersMoveSleepers DEF Locking, HoldsQueueLock
  <2>2. CompletionLock' <=> main'.at \in {"test-active", "test-queue", "block"}
    <3>1. CASE InCall
      BY <3>1 DEF Locking, InCall, NotifyOne, EndGet, TakeCompletionLock, TestActive,
                  TestQueue, Block, NotifyAll, Join, MainTo
    <3>2. CASE MakeCall
      BY <3>2 DEF Locking, MakeCall, asyncImpl, get, wait, Disable, MainTo
    <3>3. CASE SpuriousWakeUp \/ UNCHANGED vars
      BY <3>3 DEF Locking, SpuriousWakeUp, vars, MainTo
    <3>4. QED BY <1>2, <3>1, <3>2, <3>3 DEF OwnerStep
  <2>3. QED BY <2>1, <2>2 DEF Locking
<1>3. QED BY <1>1, <1>2 DEF Next, OwnerStep

LEMMA TaskFoundStep == Types /\ Locking /\ TaskFound /\ [Next]_vars => TaskFound'
<1> SUFFICES ASSUME Types, Locking, TaskFound, [Next]_vars PROVE TaskFound'
  OBVIOUS
<1>1. ASSUME NEW w \in Threads, Worker(w) PROVE TaskFound'
  <2>1. CASE Pop(w)
    <3>1. w \in QueueLock /\ QueueLock \in SUBSET Threads
      BY <2>1 DEF Pop, Locking, HoldsQueueLock, Types
    <3>2. \A v \in Threads \ {w} : at[v] \notin HoldsQueueLock
      BY <3>1 DEF Locking
    <3>3. QED BY <2>1, <3>2, Moves DEF Pop, TaskFound, HoldsQueueLock
  <2>2. CASE WaitForTask(w)
    BY <2>2, Moves DEF WaitForTask, TaskFound, HoldsQueueLock
  <2>3. CASE Claim(w) \/ Sync(w) \/ Run(w) \/ Retire(w) \/ NotifyCompletion(w)
    BY <2>3, Moves DEF Claim, Sync, Run, Retire, NotifyCompletion, TaskFound,
                       HoldsQueueLock, queueVars
  <2>4. QED BY <1>1, <2>1, <2>2, <2>3 DEF Worker
<1>2. ASSUME OwnerStep \/ SpuriousWakeUp \/ UNCHANGED vars PROVE TaskFound'
  <2>1. \A w \in Threads : at'[w] \in HoldsQueueLock => at[w] \in HoldsQueueLock
    BY <1>2, OthersMoveSleepers DEF HoldsQueueLock
  <2>2. CASE asyncImpl
    <3>1. Tasks' # <<>>
      BY <2>2 DEF asyncImpl, Types
    <3>2. QED BY <3>1 DEF TaskFound
  <2>3. CASE ~asyncImpl
    <3>1. Tasks' = Tasks
      BY <1>2, <2>3 DEF OwnerStep, InCall, NotifyOne, EndGet, TakeCompletionLock,
           TestActive, TestQueue, Block, NotifyAll, Join, MakeCall, get, wait, Disable,
           SpuriousWakeUp, vars, queueVars
    <3>2. QED BY <2>1, <3>1 DEF TaskFound
  <2>4. QED BY <2>2, <2>3
<1>3. QED BY <1>1, <1>2 DEF Next, OwnerStep

(* Announced has as many elements as ActiveThreads says.                   *)
LEMMA CountedStep == Types /\ Counted /\ [Next]_vars => Counted'
<1> SUFFICES ASSUME Types, Counted, [Next]_vars PROVE Counted'
  OBVIOUS
<1>0. IsFiniteSet(Announced)
  BY ThreadsAssumption, FS_Subset DEF Announced
<1>1. ASSUME NEW w \in Threads, Worker(w) PROVE Counted'
  <2>1. CASE Claim(w)
    <3>1. Announced' = Announced \cup {w} /\ w \notin Announced
      BY <2>1, Moves DEF Claim, Announced, AnnouncedAt
    <3>2. QED BY <1>0, <2>1, <3>1, FS_AddElement DEF Claim, Counted
  <2>2. CASE Retire(w)
    <3>1. Announced' = Announced \ {w} /\ w \in Announced
      BY <2>2, Moves DEF Retire, Announced, AnnouncedAt
    <3>2. QED BY <1>0, <2>2, <3>1, FS_RemoveElement DEF Retire, Counted
  <2>3. CASE WaitForTask(w) \/ Sync(w) \/ Pop(w) \/ Run(w) \/ NotifyCompletion(w)
    <3>1. Announced' = Announced
      BY <2>3, Moves DEF WaitForTask, Sync, Pop, Run, NotifyCompletion, Announced,
                         AnnouncedAt
    <3>2. ActiveThreads' = ActiveThreads
      BY <2>3 DEF WaitForTask, Sync, Pop, Run, NotifyCompletion
    <3>3. QED BY <3>1, <3>2 DEF Counted
  <2>4. QED BY <1>1, <2>1, <2>2, <2>3 DEF Worker
<1>2. ASSUME OwnerStep \/ SpuriousWakeUp \/ UNCHANGED vars PROVE Counted'
  <2>1. Announced' = Announced
    BY <1>2, OthersMoveSleepers DEF Announced, AnnouncedAt
  <2>2. QED BY <1>2, <2>1, OthersMoveSleepers DEF Counted
<1>3. QED BY <1>1, <1>2 DEF Next, OwnerStep

(* The owner enters "test-queue" when nobody is announced, and from then   *)
(* on holds the lock that an announced worker needs before it goes on.     *)
LEMMA QuietStep == Types /\ Counted /\ Locking /\ Quiet /\ [Next]_vars => Quiet'
<1> SUFFICES ASSUME Types, Counted, Locking, Quiet, [Next]_vars PROVE Quiet'
  OBVIOUS
<1>1. ASSUME NEW w \in Threads, Worker(w) PROVE Quiet'
  <2>1. main'.at = "test-queue" => main.at = "test-queue"
    BY <1>1 DEF Worker, WaitForTask, Claim, Sync, Pop, Run, Retire, NotifyCompletion,
                MainTo
  <2>2. CASE main.at = "test-queue"
    <3>1. CompletionLock
      BY <2>2 DEF Locking
    <3>2. at[w] \notin {"pop", "run", "retire"}
      BY <2>2 DEF Quiet
    <3>3. CASE WaitForTask(w)
      <4>1. at'[w] \in {"claim", "blocked", "exited"}
            /\ \A v \in Threads \ {w} : at'[v] = at[v]
        BY <3>3, Moves DEF WaitForTask
      <4>2. QED BY <2>2, <4>1 DEF Quiet
    <3>4. CASE Claim(w) \/ NotifyCompletion(w)
      <4>1. at'[w] \in {"sync", "loop"} /\ \A v \in Threads \ {w} : at'[v] = at[v]
        BY <3>4, Moves DEF Claim, NotifyCompletion
      <4>2. QED BY <2>2, <4>1 DEF Quiet
    <3>5. QED BY <1>1, <3>1, <3>2, <3>3, <3>4 DEF Worker, Sync, Pop, Run, Retire
  <2>3. QED BY <2>1, <2>2 DEF Quiet
<1>2. ASSUME OwnerStep \/ SpuriousWakeUp \/ UNCHANGED vars PROVE Quiet'
  <2>1. \A w \in Threads : at'[w] \in {"pop", "run", "retire"} =>
                             at[w] \in {"pop", "run", "retire"}
    BY <1>2, OthersMoveSleepers
  <2>2. CASE TestActive
    <3>1. ASSUME ActiveThreads = 0
          PROVE  \A w \in Threads : at[w] \notin {"pop", "run", "retire"}
      <4>1. IsFiniteSet(Announced)
        BY ThreadsAssumption, FS_Subset DEF Announced
      <4>2. Announced = {}
        BY <3>1, <4>1, FS_EmptySet DEF Counted
      <4>3. QED BY <4>2 DEF Announced, AnnouncedAt
    <3>2. main'.at = "test-queue" => ActiveThreads = 0
      BY <2>2 DEF TestActive, MainTo
    <3>3. QED BY <2>1, <3>1, <3>2 DEF Quiet
  <2>3. CASE ~TestActive
    <3>1. main'.at = "test-queue" => main.at = "test-queue"
      BY <1>2, <2>3 DEF OwnerStep, InCall, NotifyOne, EndGet, TakeCompletionLock,
           TestQueue, Block, NotifyAll, Join, MakeCall, asyncImpl, get, wait, Disable,
           SpuriousWakeUp, vars, MainTo
    <3>2. QED BY <2>1, <3>1 DEF Quiet
  <2>4. QED BY <2>2, <2>3
<1>3. QED BY <1>1, <1>2 DEF Next, OwnerStep

LEMMA InitIInv == Init => IInv
<1> SUFFICES ASSUME Init PROVE IInv
  OBVIOUS
<1>1. Types
  <2>1. main \in [at : MainPoints, task : 0 .. pushed]
    BY DEF Init, MainPoints
  <2>2. Tasks \in Seq(1 .. pushed) /\ QueueLock \in SUBSET Threads
    BY DEF Init
  <2>3. at \in [Threads -> WorkerPoints] /\ task \in [Threads -> 0 .. pushed]
    BY DEF Init, WorkerPoints
  <2>4. /\ pushed \in 0 .. MaxTasks /\ spurious \in 0 .. MaxSpurious
        /\ finished \in SUBSET (1 .. pushed)
    BY BoundsAssumption DEF Init
  <2>a. EnableFlag \in BOOLEAN /\ CompletionLock \in BOOLEAN
    BY DEF Init
  <2>5. \A w \in Threads : at[w] # "run"
    BY DEF Init
  <2>6. QED BY <2>1, <2>2, <2>3, <2>4, <2>5, <2>a DEF Types
<1>2. Announced = {}
  BY DEF Init, Announced, AnnouncedAt
<1>3. Counted
  BY <1>2, FS_EmptySet DEF Init, Counted
<1>4. Locking /\ TaskFound /\ Quiet
  BY DEF Init, Locking, TaskFound, Quiet, HoldsQueueLock
<1>5. QED BY <1>1, <1>3, <1>4 DEF IInv

LEMMA Invariance == Spec => []IInv
<1>1. IInv /\ [Next]_vars => IInv'
  BY TypesStep, CountedStep, LockingStep, TaskFoundStep, QuietStep DEF IInv
<1>2. QED BY <1>1, InitIInv, PTL DEF Spec
-----------------------------------------------------------------------------
(* ActiveThreads never leaves the range 0 .. Cardinality(Threads), and     *)
(* every other variable keeps its type, in every schedule.                 *)
THEOREM TypeCorrect == Spec => []TypeOK
<1>1. IInv => TypeOK
  <2> SUFFICES ASSUME IInv PROVE TypeOK
    OBVIOUS
  <2>1. IsFiniteSet(Announced) /\ Announced \subseteq Threads
    BY ThreadsAssumption, FS_Subset DEF Announced
  <2>2. /\ Cardinality(Announced) \in Nat /\ Cardinality(Threads) \in Nat
        /\ Cardinality(Announced) <= Cardinality(Threads)
    BY <2>1, ThreadsAssumption, FS_Subset, FS_CardinalityType
  <2>3. ActiveThreads \in 0 .. Cardinality(Threads)
    BY <2>2 DEF IInv, Counted
  <2>4. QED BY <2>3 DEF IInv, Types, TypeOK
<1>2. QED BY <1>1, Invariance, PTL

(* No schedule lets a worker pop the queue while wait reads it without     *)
(* QueueLock.                                                              *)
THEOREM QueueIsNotRaced == Spec => []NoRaceOnTasks
<1>1. IInv => NoRaceOnTasks
  BY DEF IInv, Quiet, NoRaceOnTasks
<1>2. QED BY <1>1, Invariance, PTL
-----------------------------------------------------------------------------
(* The refinement.  Tasks leave the queue in the order of their numbers,   *)
(* so no task runs twice; and a worker exits, or the owner is in its       *)
(* destructor, only after the pool is disabled.                            *)
Ordered ==
  /\ Len(Tasks) <= pushed
  /\ \A i \in 1 .. Len(Tasks) : Tasks[i] = pushed - Len(Tasks) + i
  /\ \A w \in Threads : task[w] <= pushed - Len(Tasks)
  /\ \A v, w \in Threads : v # w /\ at[v] = "run" /\ at[w] = "run" => task[v] # task[w]

Closing ==
  /\ EnableFlag <=> main.at \notin {"notify-all", "join", "gone"}
  /\ \A w \in Threads : at[w] = "exited" => ~EnableFlag /\ Tasks = <<>>
  /\ main.at # "get" => main.task = 0

LEMMA OrderedStep == Types /\ TaskFound /\ Ordered /\ [Next]_vars => Ordered'
<1> SUFFICES ASSUME Types, TaskFound, Ordered, [Next]_vars PROVE Ordered'
  OBVIOUS
<1>1. pushed \in Nat /\ Len(Tasks) \in Nat /\ Tasks \in Seq(1 .. pushed)
      /\ \A w \in Threads : task[w] \in Nat
  BY BoundsAssumption DEF Types
<1>2. ASSUME UNCHANGED <<Tasks, pushed, task>>,
             \A w \in Threads : at'[w] = "run" => at[w] = "run"
      PROVE  Ordered'
  BY <1>2 DEF Ordered
<1>3. ASSUME NEW w \in Threads, Worker(w) PROVE Ordered'
  <2>1. CASE Pop(w)
    <3>1. Tasks # <<>>
      BY <2>1 DEF Pop, TaskFound, HoldsQueueLock
    <3>2. /\ Tasks' = Tail(Tasks) /\ pushed' = pushed
          /\ task' = [task EXCEPT ![w] = Head(Tasks)]
      BY <2>1 DEF Pop
    <3>3. /\ Len(Tasks') = Len(Tasks) - 1 /\ Len(Tasks) >= 1
          /\ Head(Tasks) = Tasks[1]
          /\ \A i \in 1 .. Len(Tasks') : Tasks'[i] = Tasks[i + 1]
      BY <1>1, <3>1, <3>2
    <3>4. Head(Tasks) = pushed - Len(Tasks) + 1
      BY <1>1, <3>3 DEF Ordered
    <3>5. ASSUME NEW i \in 1 .. Len(Tasks')
          PROVE  Tasks'[i] = pushed - Len(Tasks') + i
      <4>1. i + 1 \in 1 .. Len(Tasks) /\ i \in Nat
        BY <1>1, <3>3
      <4>2. Tasks[i + 1] = pushed - Len(Tasks) + (i + 1)
        BY <4>1 DEF Ordered
      <4>3. QED BY <1>1, <3>3, <4>1, <4>2
    <3>6. task'[w] = Head(Tasks) /\ \A v \in Threads \ {w} : task'[v] = task[v]
      BY <3>2 DEF Types
    <3>a. \A v \in Threads : task[v] \in Nat /\ task[v] <= pushed - Len(Tasks)
      BY <1>1 DEF Ordered
    <3>7. \A v \in Threads : task'[v] <= pushed - Len(Tasks')
      BY <1>1, <3>3, <3>4, <3>6, <3>a
    <3>8. ASSUME NEW v \in Threads \ {w}
          PROVE  task'[v] # task'[w] /\ (at'[v] = "run" => at[v] = "run")
      <4>1. task'[v] < task'[w]
        <5>1. task'[v] = task[v] /\ task'[w] = pushed - Len(Tasks) + 1
          BY <3>4, <3>6
        <5>2. task[v] \in Nat /\ task[v] <= pushed - Len(Tasks)
          BY <3>a
        <5>3. pushed \in Nat /\ Len(Tasks) \in Nat
          BY <1>1
        <5>4. QED BY <5>1, <5>2, <5>3
      <4>2. at'[v] = at[v]
        BY <2>1, Moves DEF Pop
      <4>3. QED BY <1>1, <3>6, <4>1, <4>2
    <3>9. Len(Tasks') <= pushed'
      BY <1>1, <3>2, <3>3 DEF Ordered
    <3>b. \A u, v \in Threads : u # v /\ at'[u] = "run" /\ at'[v] = "run" =>
                                 task'[u] # task'[v]
      BY <3>6, <3>8 DEF Ordered
    <3>10. QED BY <3>2, <3>5, <3>7, <3>9, <3>b DEF Ordered
  <2>2. CASE WaitForTask(w) \/ Claim(w) \/ Sync(w) \/ Run(w) \/ Retire(w)
             \/ NotifyCompletion(w)
    <3>1. \A v \in Threads : at'[v] = "run" => at[v] = "run"
      BY <2>2, Moves DEF WaitForTask, Claim, Sync, Run, Retire, NotifyCompletion
    <3>2. UNCHANGED <<Tasks, pushed, task>>
      BY <2>2 DEF WaitForTask, Claim, Sync, Run, Retire, NotifyCompletion, queueVars
    <3>3. QED BY <1>2, <3>1, <3>2
  <2>3. QED BY <1>3, <2>1, <2>2 DEF Worker
<1>4. CASE asyncImpl
  <2>1. /\ pushed' = pushed + 1 /\ Tasks' = Append(Tasks, pushed + 1)
        /\ task' = task /\ at' = at
    BY <1>4 DEF asyncImpl
  <2>2. /\ Len(Tasks') = Len(Tasks) + 1
        /\ \A i \in 1 .. Len(Tasks) : Tasks'[i] = Tasks[i]
        /\ Tasks'[Len(Tasks) + 1] = pushed + 1
    BY <1>1, <2>1
  <2>3. \A i \in 1 .. Len(Tasks') : Tasks'[i] = pushed' - Len(Tasks') + i
    BY <1>1, <2>1, <2>2 DEF Ordered
  <2>4. QED BY <1>1, <2>1, <2>2, <2>3 DEF Ordered
<1>5. ASSUME OwnerStep \/ SpuriousWakeUp \/ UNCHANGED vars, ~asyncImpl PROVE Ordered'
  <2>1. \A w \in Threads : at'[w] = "run" => at[w] = "run"
    BY <1>5, OthersMoveSleepers
  <2>2. UNCHANGED <<Tasks, pushed, task>>
    BY <1>5 DEF OwnerStep, InCall, NotifyOne, EndGet, TakeCompletionLock,
         TestActive, TestQueue, Block, NotifyAll, Join, MakeCall, get, wait, Disable,
         SpuriousWakeUp, vars, queueVars
  <2>3. QED BY <1>2, <2>1, <2>2
<1>6. QED BY <1>3, <1>4, <1>5 DEF Next, OwnerStep

LEMMA ClosingStep == Types /\ TaskFound /\ Closing /\ [Next]_vars => Closing'
<1> SUFFICES ASSUME Types, TaskFound, Closing, [Next]_vars PROVE Closing'
  OBVIOUS
<1>1. ASSUME NEW w \in Threads, Worker(w) PROVE Closing'
  <2>1. /\ main' = main \/ (main.at = "blocked" /\ main' = [at |-> "wait", task |-> 0])
        /\ EnableFlag' = EnableFlag
    BY <1>1 DEF Worker, WaitForTask, Claim, Sync, Pop, Run, Retire, NotifyCompletion,
                MainTo, queueVars
  <2>2. \A v \in Threads : at'[v] = "exited" => ~EnableFlag /\ Tasks' = <<>>
    <3>1. CASE WaitForTask(w)
      BY <3>1, Moves DEF WaitForTask, Closing
    <3>2. CASE Pop(w)
      <4>1. \A v \in Threads : at'[v] = "exited" => at[v] = "exited"
        BY <3>2, Moves DEF Pop
      <4>2. Tasks # <<>>
        BY <3>2 DEF Pop, TaskFound, HoldsQueueLock
      <4>3. QED BY <4>1, <4>2 DEF Closing
    <3>3. CASE Claim(w) \/ Sync(w) \/ Run(w) \/ Retire(w) \/ NotifyCompletion(w)
      BY <3>3, Moves DEF Claim, Sync, Run, Retire, NotifyCompletion, Closing, queueVars
    <3>4. QED BY <1>1, <3>1, <3>2, <3>3 DEF Worker
  <2>3. QED BY <2>1, <2>2 DEF Closing
<1>2. ASSUME OwnerStep \/ SpuriousWakeUp \/ UNCHANGED vars PROVE Closing'
  <2>1. \A w \in Threads : at'[w] = "exited" => at[w] = "exited"
    BY <1>2, OthersMoveSleepers
  <2>2. CASE InCall
    BY <2>1, <2>2 DEF InCall, NotifyOne, EndGet, TakeCompletionLock, TestActive, TestQueue,
                      Block, NotifyAll, Join, MainTo, Closing, queueVars
  <2>3. CASE asyncImpl \/ wait \/ Disable
    BY <2>1, <2>3 DEF asyncImpl, wait, Disable, MainTo, Closing, queueVars
  <2>4. CASE \E t \in 1 .. pushed : get(t)
    BY <2>1, <2>4 DEF get, Closing, queueVars
  <2>5. CASE SpuriousWakeUp \/ UNCHANGED vars
    BY <2>1, <2>5 DEF SpuriousWakeUp, vars, MainTo, Closing, queueVars
  <2>6. QED BY <1>2, <2>2, <2>3, <2>4, <2>5 DEF OwnerStep, MakeCall
<1>3. QED BY <1>1, <1>2 DEF Next, OwnerStep

LEMMA InvarianceOfOrder == Spec => [](Ordered /\ Closing)
<1>1. Init => Ordered /\ Closing
  <2> SUFFICES ASSUME Init PROVE Ordered /\ Closing
    OBVIOUS
  <2>1. Ordered
    BY DEF Init, Ordered
  <2>2. Closing
    BY DEF Init, Closing
  <2>3. QED BY <2>1, <2>2
<1>2. IInv /\ Ordered /\ Closing /\ [Next]_vars => (Ordered /\ Closing)'
  BY OrderedStep, ClosingStep DEF IInv
<1>3. QED BY <1>1, <1>2, Invariance, PTL DEF Spec

(* The abstract caller, from the point the owner has reached.              *)
LEMMA CallOfPoint ==
  /\ main.at \in {"idle", "notify-one"} => CallOf = "none"
  /\ main.at = "get" => CallOf = "get"
  /\ main.at \in {"wait", "test-active", "test-queue", "block", "blocked"} => CallOf = "wait"
  /\ main.at \in {"notify-all", "join"} => CallOf = "destroy"
  /\ main.at = "gone" => CallOf = "gone"
BY DEF CallOf

LEMMA RunningAfter ==
  ASSUME Types, task' = task, \A w \in Threads : at'[w] = "run" <=> at[w] = "run"
  PROVE  Running' = Running
BY DEF Running

(* A step of a worker is a stutter, the start or the end of a task.        *)
LEMMA WorkerRefines ==
  ASSUME IInv, Ordered, Closing, NEW w \in Threads, Worker(w)
  PROVE  [Pool!Next]_(Pool!poolVars)
<1>1. Types /\ Locking /\ TaskFound
  BY DEF IInv
<1>2. CASE WaitForTask(w) \/ Claim(w) \/ Sync(w) \/ Retire(w)
  <2>1. \A v \in Threads : at'[v] = "run" <=> at[v] = "run"
    BY <1>1, <1>2, Moves DEF WaitForTask, Claim, Sync, Retire
  <2>2. UNCHANGED <<Tasks, task, finished, main>>
    BY <1>2 DEF WaitForTask, Claim, Sync, Retire, queueVars
  <2>3. Running' = Running
    BY <1>1, <2>1, <2>2, RunningAfter
  <2>4. CallOf' = CallOf
    BY <2>2 DEF CallOf
  <2>5. QED BY <2>2, <2>3, <2>4 DEF Pool!poolVars
<1>3. CASE NotifyCompletion(w)
  <2>1. \A v \in Threads : at'[v] = "run" <=> at[v] = "run"
    BY <1>1, <1>3, Moves DEF NotifyCompletion
  <2>2. UNCHANGED <<Tasks, task, finished>>
    BY <1>3 DEF NotifyCompletion, queueVars
  <2>3. Running' = Running
    BY <1>1, <2>1, <2>2, RunningAfter
  <2>4. CallOf' = CallOf /\ main'.task = main.task
    <3>1. CASE main.at = "blocked"
      BY <1>3, <3>1 DEF NotifyCompletion, MainTo, CallOf, Closing
    <3>2. CASE main.at # "blocked"
      BY <1>3, <3>2 DEF NotifyCompletion, CallOf
    <3>3. QED BY <3>1, <3>2
  <2>5. QED BY <2>2, <2>3, <2>4 DEF Pool!poolVars
<1>4. CASE Pop(w)
  <2>1. Tasks # <<>> /\ UNCHANGED <<finished, main>>
        /\ Tasks' = Tail(Tasks) /\ task' = [task EXCEPT ![w] = Head(Tasks)]
    BY <1>1, <1>4 DEF Pop, TaskFound, HoldsQueueLock
  <2>2. /\ task'[w] = Head(Tasks) /\ at'[w] = "run" /\ at[w] # "run"
        /\ \A v \in Threads \ {w} : task'[v] = task[v] /\ at'[v] = at[v]
    BY <1>1, <1>4, <2>1, Moves DEF Pop, Types
  <2>3. Running' = Running \cup {Head(Tasks)}
    BY <2>2 DEF Running
  <2>4. CallOf' = CallOf
    BY <2>1 DEF CallOf
  <2>5. Pool!Start
    BY <2>1, <2>3, <2>4 DEF Pool!Start
  <2>6. QED BY <2>5 DEF Pool!Next
<1>5. CASE Run(w)
  <2>1. /\ at[w] = "run" /\ UNCHANGED <<Tasks, task, main>>
        /\ finished' = finished \cup {task[w]}
    BY <1>5 DEF Run, queueVars
  <2>2. at'[w] = "retire" /\ \A v \in Threads \ {w} : at'[v] = at[v]
    BY <1>1, <1>5, Moves DEF Run
  <2>3. Running' = Running \ {task[w]}
    BY <2>1, <2>2 DEF Running, Ordered
  <2>4. task[w] \in Running /\ task[w] \in 1 .. MaxTasks
    BY <1>1, <2>1, BoundsAssumption DEF Running, Types
  <2>5. CallOf' = CallOf
    BY <2>1 DEF CallOf
  <2>6. Pool!Finish(task[w])
    BY <2>1, <2>3, <2>4, <2>5 DEF Pool!Finish
  <2>7. QED BY <2>4, <2>6 DEF Pool!Next
<1>6. QED BY <1>2, <1>3, <1>4, <1>5 DEF Worker

(* A step of the owner is a stutter, or a call that begins or returns.     *)
LEMMA OwnerRefines ==
  ASSUME IInv, Ordered, Closing, OwnerStep \/ SpuriousWakeUp \/ UNCHANGED vars
  PROVE  [Pool!Next]_(Pool!poolVars)
<1>1. Types /\ Quiet /\ Threads # {}
  BY ThreadsAssumption DEF IInv
<1>2. Running' = Running /\ finished' = finished
  <2>1. \A w \in Threads : at'[w] = "run" <=> at[w] = "run"
    BY <1>1, OthersMoveSleepers
  <2>2. QED BY <1>1, <2>1, OthersMoveSleepers, RunningAfter
<1>3. ASSUME UNCHANGED Tasks, CallOf' = CallOf, main'.task = main.task
      PROVE  [Pool!Next]_(Pool!poolVars)
  BY <1>2, <1>3 DEF Pool!poolVars
<1>4. CASE NotifyOne \/ TakeCompletionLock \/ TestActive \/ Block \/ NotifyAll
  BY <1>3, <1>4 DEF NotifyOne, TakeCompletionLock, TestActive, Block, NotifyAll, MainTo,
                    CallOf, Closing, queueVars
<1>5. CASE SpuriousWakeUp \/ UNCHANGED vars
  <2>1. Tasks' = Tasks
    BY <1>5 DEF SpuriousWakeUp, vars, queueVars
  <2>2. CASE main' = main
    BY <1>3, <2>1, <2>2 DEF CallOf
  <2>3. CASE main' # main
    BY <1>3, <1>5, <2>1, <2>3 DEF SpuriousWakeUp, vars, MainTo, CallOf, Closing
  <2>4. QED BY <2>2, <2>3
<1>6. CASE TestQueue
  <2>1. CASE Tasks # <<>>
    BY <1>3, <1>6, <2>1 DEF TestQueue, MainTo, CallOf, Closing, queueVars
  <2>2. CASE Tasks = <<>>
    <3>1. Running = {}
      BY <1>1, <1>6 DEF TestQueue, Quiet, Running
    <3>2. /\ CallOf = "wait" /\ CallOf' = "none" /\ main.task = 0 /\ main'.task = 0
          /\ Tasks' = Tasks
      BY <1>6, <2>2 DEF TestQueue, MainTo, CallOf, Closing, queueVars
    <3>3. Pool!EndWait
      BY <1>2, <2>2, <3>1, <3>2 DEF Pool!EndWait, Pool!Call, Pool!Free, Pool!Idle
    <3>4. QED BY <3>3 DEF Pool!Next
  <2>3. QED BY <2>1, <2>2
<1>7. CASE EndGet
  <2>1. /\ CallOf = "get" /\ CallOf' = "none" /\ main'.task = 0 /\ Tasks' = Tasks
        /\ main.task \in finished
    BY <1>7 DEF EndGet, MainTo, CallOf, queueVars
  <2>2. Pool!EndGet
    BY <1>2, <2>1 DEF Pool!EndGet, Pool!Call, Pool!Free
  <2>3. QED BY <2>2 DEF Pool!Next
<1>8. CASE Join
  <2>1. /\ CallOf = "destroy" /\ CallOf' = "gone" /\ main.task = 0 /\ main'.task = 0
        /\ Tasks' = Tasks
    BY <1>8 DEF Join, MainTo, CallOf, Closing, queueVars
  <2>2. Tasks = <<>> /\ Running = {}
    BY <1>1, <1>8 DEF Join, Closing, Running
  <2>3. Pool!EndDestroy
    BY <1>2, <2>1, <2>2 DEF Pool!EndDestroy, Pool!Call, Pool!Idle
  <2>4. QED BY <2>3 DEF Pool!Next
<1>9. CASE asyncImpl
  <2>1. /\ CallOf = "none" /\ CallOf' = "none" /\ main.task = 0 /\ main'.task = 0
        /\ Tasks' = Append(Tasks, pushed + 1) /\ pushed < MaxTasks
    BY <1>9 DEF asyncImpl, MainTo, CallOf, Closing
  <2>2. pushed + 1 \in 1 .. MaxTasks /\ pushed + 1 \notin finished
        /\ pushed + 1 \notin Running
    BY <1>1, <2>1, BoundsAssumption DEF Types, Running
  <2>3. Pool!Submit(pushed + 1)
    BY <1>2, <2>1, <2>2 DEF Pool!Submit, Pool!Call, Pool!Free
  <2>4. QED BY <2>2, <2>3 DEF Pool!Next
<1>10. ASSUME NEW t \in 1 .. pushed, get(t) PROVE [Pool!Next]_(Pool!poolVars)
  <2>1. /\ CallOf = "none" /\ CallOf' = "get" /\ main.task = 0 /\ main'.task = t
        /\ Tasks' = Tasks
    BY <1>10 DEF get, CallOf, Closing, queueVars
  <2>2. t \in 1 .. MaxTasks
    BY <1>1, BoundsAssumption DEF Types
  <2>3. Pool!Get(t)
    BY <1>2, <2>1 DEF Pool!Get, Pool!BeginCall, Pool!GetCall, Pool!Call, Pool!Free
  <2>4. QED BY <2>2, <2>3 DEF Pool!Next
<1>11. ASSUME NEW c \in {"wait", "destroy"}, CallOf = "none", CallOf' = c,
              main.task = 0, main'.task = 0, Tasks' = Tasks
       PROVE  [Pool!Next]_(Pool!poolVars)
  <2>1. Pool!BeginCall(Pool!Call(c))
    BY <1>2, <1>11 DEF Pool!BeginCall, Pool!Call, Pool!Free
  <2>2. QED BY <2>1 DEF Pool!Next
<1>12. CASE wait
  BY <1>11, <1>12 DEF wait, MainTo, CallOf, Closing, queueVars
<1>13. CASE Disable
  BY <1>11, <1>13 DEF Disable, MainTo, CallOf, Closing
<1>14. QED BY <1>4, <1>5, <1>6, <1>7, <1>8, <1>9, <1>10, <1>12, <1>13
           DEF OwnerStep, InCall, MakeCall

(* In every schedule, for any number of workers and tasks: tasks start in  *)
(* the order of submission and once each, get returns after its task, and  *)
(* wait and the destructor only when no task is queued or running.         *)
THEOREM PoolIsSafe == Spec => ImplementsTaskPool
<1>1. Init => Pool!Init
  <2> SUFFICES ASSUME Init PROVE Pool!Init
    OBVIOUS
  <2>1. Running = {} /\ CallOf = "none"
    BY DEF Init, Running, CallOf
  <2>2. QED BY <2>1 DEF Init, Pool!Init, Pool!Free, Pool!Call
<1>2. IInv /\ Ordered /\ Closing /\ [Next]_vars => [Pool!Next]_(Pool!poolVars)
  BY WorkerRefines, OwnerRefines DEF Next, OwnerStep
<1>3. QED BY <1>1, <1>2, Invariance, InvarianceOfOrder, PTL DEF Spec, ImplementsTaskPool, Pool!Safety
=============================================================================
