----------------------------- MODULE ThreadPool -----------------------------
(***************************************************************************)
(* llvm::ThreadPool with LLVM_ENABLE_THREADS: the workers of its           *)
(* constructor and the thread that owns the pool, which submits tasks      *)
(* (asyncImpl), waits for one (get on its future) or for all (wait), and   *)
(* destroys the pool.  A step is what happens between two points where     *)
(* another thread can be observed; the critical sections that only one     *)
(* thread could observe are one step.                                      *)
(*                                                                         *)
(* Condition variables: notify moves threads from "blocked" to the point   *)
(* where they take the lock again; a thread may also wake up by itself.    *)
(***************************************************************************)
EXTENDS Integers, Sequences, FiniteSets

CONSTANTS
  Threads,       (* the workers                                             *)
  MaxTasks,      (* bound: tasks submitted                                  *)
  MaxSpurious    (* bound: wake-ups without a notification                  *)

(* A pool of no threads never runs a task, and hardware_concurrency, which *)
(* the default constructor asks, may answer 0.                             *)
ASSUME ThreadsAssumption == IsFiniteSet(Threads) /\ Threads # {}
ASSUME BoundsAssumption  == MaxTasks \in Nat /\ MaxSpurious \in Nat

VARIABLES
  Tasks,           (* the queue; tasks are numbered as they are submitted   *)
  ActiveThreads,   (* workers that have announced a task                    *)
  EnableFlag,
  QueueLock,       (* the worker that holds the mutex, if any               *)
  CompletionLock,  (* whether the owner holds the mutex                     *)
  at,              (* the point each worker has reached                     *)
  task,            (* the task each worker took last                        *)
  main,            (* the point the owner has reached: [at, task]           *)
  pushed,          (* tasks submitted                                       *)
  finished,        (* tasks whose future is ready                           *)
  spurious         (* wake-ups without a notification so far                *)

queueVars == <<Tasks, QueueLock, EnableFlag, pushed>>
vars == <<queueVars, ActiveThreads, CompletionLock, at, task, main, finished, spurious>>

Go(w, point) == at' = [at EXCEPT ![w] = point]
MainTo(point) == main' = [at |-> point, task |-> 0]
-----------------------------------------------------------------------------
(* A worker.                                                               *)

WaitForTask_exitsEarly(w) ==
  /\ at[w] = "loop"
  /\ QueueLock = {}
  /\ IF EnableFlag /\ Tasks # <<>> THEN Go(w, "claim") /\ QueueLock' = {w}
     ELSE /\ Go(w, IF EnableFlag THEN "blocked" ELSE "exited")
          /\ UNCHANGED QueueLock
  /\ UNCHANGED <<Tasks, EnableFlag, pushed, ActiveThreads, CompletionLock, task, main,
                 finished, spurious>>

(* Takes QueueLock and tests the predicate of QueueCondition.              *)
WaitForTask(w) ==
  /\ at[w] = "loop"
  /\ QueueLock = {}
  /\ IF Tasks # <<>> THEN Go(w, "claim") /\ QueueLock' = {w}
     ELSE /\ Go(w, IF EnableFlag THEN "blocked" ELSE "exited")
          /\ UNCHANGED QueueLock
  /\ UNCHANGED <<Tasks, EnableFlag, pushed, ActiveThreads, CompletionLock, task, main,
                 finished, spurious>>

Claim_noIncrement(w) ==
  /\ at[w] = "claim"
  /\ Go(w, "sync")
  /\ UNCHANGED <<queueVars, ActiveThreads, CompletionLock, task, main, finished, spurious>>

(* ++ActiveThreads, before CompletionLock is taken.                        *)
Claim(w) ==
  /\ at[w] = "claim"
  /\ ActiveThreads' = ActiveThreads + 1
  /\ Go(w, "sync")
  /\ UNCHANGED <<queueVars, CompletionLock, task, main, finished, spurious>>

Sync_noLock(w) ==
  /\ at[w] = "sync"
  /\ Go(w, "pop")
  /\ UNCHANGED <<queueVars, ActiveThreads, CompletionLock, task, main, finished, spurious>>

(* Takes CompletionLock and gives it back.                                 *)
Sync(w) ==
  /\ at[w] = "sync"
  /\ ~CompletionLock
  /\ Go(w, "pop")
  /\ UNCHANGED <<queueVars, ActiveThreads, CompletionLock, task, main, finished, spurious>>

Pop(w) ==
  /\ at[w] = "pop"
  /\ task' = [task EXCEPT ![w] = Head(Tasks)]
  /\ Tasks' = Tail(Tasks)
  /\ QueueLock' = {}
  /\ Go(w, "run")
  /\ UNCHANGED <<EnableFlag, pushed, ActiveThreads, CompletionLock, main, finished, spurious>>

(* Task() returns and its future becomes ready.                            *)
Run(w) ==
  /\ at[w] = "run"
  /\ finished' = finished \cup {task[w]}
  /\ Go(w, "retire")
  /\ UNCHANGED <<queueVars, ActiveThreads, CompletionLock, task, main, spurious>>

Retire_noLock(w) ==
  /\ at[w] = "retire"
  /\ ActiveThreads' = ActiveThreads - 1
  /\ Go(w, "notify")
  /\ UNCHANGED <<queueVars, CompletionLock, task, main, finished, spurious>>

(* --ActiveThreads under CompletionLock.                                   *)
Retire(w) ==
  /\ at[w] = "retire"
  /\ ~CompletionLock
  /\ ActiveThreads' = ActiveThreads - 1
  /\ Go(w, "notify")
  /\ UNCHANGED <<queueVars, CompletionLock, task, main, finished, spurious>>

NotifyCompletion(w) ==
  /\ at[w] = "notify"
  /\ IF main.at = "blocked" THEN MainTo("wait") ELSE UNCHANGED main
  /\ Go(w, "loop")
  /\ UNCHANGED <<queueVars, ActiveThreads, CompletionLock, task, finished, spurious>>

Worker(w) ==
  \/ WaitForTask(w) \/ Claim(w) \/ Sync(w) \/ Pop(w) \/ Run(w) \/ Retire(w)
  \/ NotifyCompletion(w)
-----------------------------------------------------------------------------
(* The owner: submission and get.                                          *)

asyncImpl ==
  /\ main.at = "idle"
  /\ pushed < MaxTasks
  /\ QueueLock = {}
  /\ pushed' = pushed + 1
  /\ Tasks' = Append(Tasks, pushed')
  /\ MainTo("notify-one")
  /\ UNCHANGED <<QueueLock, EnableFlag, ActiveThreads, CompletionLock, at, task, finished,
                 spurious>>

NotifyOne ==
  /\ main.at = "notify-one"
  /\ LET blocked == {w \in Threads : at[w] = "blocked"}
     IN IF blocked = {} THEN UNCHANGED at ELSE \E w \in blocked : Go(w, "loop")
  /\ MainTo("idle")
  /\ UNCHANGED <<queueVars, ActiveThreads, CompletionLock, task, finished, spurious>>

get(t) ==
  /\ main.at = "idle"
  /\ main' = [at |-> "get", task |-> t]
  /\ UNCHANGED <<queueVars, ActiveThreads, CompletionLock, at, task, finished, spurious>>

EndGet ==
  /\ main.at = "get"
  /\ main.task \in finished
  /\ MainTo("idle")
  /\ UNCHANGED <<queueVars, ActiveThreads, CompletionLock, at, task, finished, spurious>>
-----------------------------------------------------------------------------
(* The owner: wait, which tests ActiveThreads before Tasks and holds only  *)
(* CompletionLock.                                                         *)

wait ==
  /\ main.at = "idle"
  /\ MainTo("wait")
  /\ UNCHANGED <<queueVars, ActiveThreads, CompletionLock, at, task, finished, spurious>>

TakeCompletionLock ==
  /\ main.at = "wait"
  /\ CompletionLock' = TRUE
  /\ MainTo("test-active")
  /\ UNCHANGED <<queueVars, ActiveThreads, at, task, finished, spurious>>

TestActive ==
  /\ main.at = "test-active"
  /\ MainTo(IF ActiveThreads = 0 THEN "test-queue" ELSE "block")
  /\ UNCHANGED <<queueVars, ActiveThreads, CompletionLock, at, task, finished, spurious>>

TestQueue ==
  /\ main.at = "test-queue"
  /\ IF Tasks = <<>> THEN MainTo("idle") /\ CompletionLock' = FALSE
                     ELSE MainTo("block") /\ UNCHANGED CompletionLock
  /\ UNCHANGED <<queueVars, ActiveThreads, at, task, finished, spurious>>

(* Gives CompletionLock back and blocks, in one step of the condition      *)
(* variable.                                                               *)
Block ==
  /\ main.at = "block"
  /\ CompletionLock' = FALSE
  /\ MainTo("blocked")
  /\ UNCHANGED <<queueVars, ActiveThreads, at, task, finished, spurious>>
-----------------------------------------------------------------------------
(* The owner: the destructor.                                              *)

Disable ==
  /\ main.at = "idle"
  /\ QueueLock = {}
  /\ EnableFlag' = FALSE
  /\ MainTo("notify-all")
  /\ UNCHANGED <<Tasks, QueueLock, pushed, ActiveThreads, CompletionLock, at, task, finished,
                 spurious>>

NotifyAll ==
  /\ main.at = "notify-all"
  /\ at' = [w \in Threads |-> IF at[w] = "blocked" THEN "loop" ELSE at[w]]
  /\ MainTo("join")
  /\ UNCHANGED <<queueVars, ActiveThreads, CompletionLock, task, finished, spurious>>

Join ==
  /\ main.at = "join"
  /\ \A w \in Threads : at[w] = "exited"
  /\ MainTo("gone")
  /\ UNCHANGED <<queueVars, ActiveThreads, CompletionLock, at, task, finished, spurious>>

(* What the owner does inside a call, and the calls it chooses to make.    *)
InCall ==
  \/ NotifyOne \/ EndGet \/ TakeCompletionLock \/ TestActive \/ TestQueue \/ Block
  \/ NotifyAll \/ Join

MakeCall == asyncImpl \/ (\E t \in 1 .. pushed : get(t)) \/ wait \/ Disable
-----------------------------------------------------------------------------
SpuriousWakeUp ==
  /\ spurious < MaxSpurious
  /\ spurious' = spurious + 1
  /\ \/ /\ \E w \in Threads : at[w] = "blocked" /\ Go(w, "loop")
        /\ UNCHANGED main
     \/ /\ main.at = "blocked"
        /\ MainTo("wait")
        /\ UNCHANGED at
  /\ UNCHANGED <<queueVars, ActiveThreads, CompletionLock, task, finished>>

Init ==
  /\ Tasks = <<>>
  /\ ActiveThreads = 0
  /\ EnableFlag = TRUE
  /\ QueueLock = {}
  /\ CompletionLock = FALSE
  /\ at = [w \in Threads |-> "loop"]
  /\ task = [w \in Threads |-> 0]
  /\ main = [at |-> "idle", task |-> 0]
  /\ pushed = 0
  /\ finished = {}
  /\ spurious = 0

Next ==
  \/ \E w \in Threads : Worker(w)
  \/ InCall
  \/ MakeCall
  \/ SpuriousWakeUp

(* Every thread that can run is run some time, and tasks return; nothing   *)
(* obliges the owner to make a call.                                       *)
Fairness == /\ \A w \in Threads : WF_vars(Worker(w))
            /\ WF_vars(InCall)

Spec == Init /\ [][Next]_vars /\ Fairness
-----------------------------------------------------------------------------
(* Properties.                                                             *)

WorkerPoints == {"loop", "blocked", "claim", "sync", "pop", "run", "retire", "notify",
                 "exited"}
MainPoints == {"idle", "notify-one", "get", "wait", "test-active", "test-queue", "block",
               "blocked", "notify-all", "join", "gone"}

TypeOK ==
  /\ Tasks \in Seq(1 .. pushed)
  /\ ActiveThreads \in 0 .. Cardinality(Threads)
  /\ EnableFlag \in BOOLEAN
  /\ QueueLock \in SUBSET Threads
  /\ CompletionLock \in BOOLEAN
  /\ at \in [Threads -> WorkerPoints]
  /\ task \in [Threads -> 0 .. pushed]
  /\ main \in [at : MainPoints, task : 0 .. pushed]
  /\ pushed \in 0 .. MaxTasks
  /\ finished \in SUBSET (1 .. pushed)
  /\ spurious \in 0 .. MaxSpurious

(* wait reads Tasks without QueueLock, yet never while a worker changes    *)
(* it: "The order of the checks for ActiveThreads and Tasks.empty()        *)
(* matters because any active threads might be modifying the Tasks queue,  *)
(* and this would be a race" (ThreadPool.cpp).                             *)
NoRaceOnTasks == main.at = "test-queue" => \A w \in Threads : at[w] # "pop"

(* What the pool is to its owner.                                          *)
CallOf ==
  CASE main.at \in {"idle", "notify-one"} -> "none"
    [] main.at = "get" -> "get"
    [] main.at \in {"wait", "test-active", "test-queue", "block", "blocked"} -> "wait"
    [] main.at \in {"notify-all", "join"} -> "destroy"
    [] main.at = "gone" -> "gone"

Running == {task[w] : w \in {v \in Threads : at[v] = "run"}}

Pool == INSTANCE TaskPool WITH
  TaskIds <- 1 .. MaxTasks,
  waiting <- Tasks, running <- Running, finished <- finished,
  caller <- [call |-> CallOf, task |-> main.task]

(* The pool is the abstract one, in every schedule of its threads: no task *)
(* is lost, started twice or out of order, get does not return before its  *)
(* task is done, nor wait and the destructor before the last one is.       *)
ImplementsTaskPool == Pool!Safety

(* Every task is started and every call returns, although both conditions  *)
(* are tested again only after a notification, and the predicate of wait   *)
(* depends on two variables of which only one changes under its lock.      *)
TasksRunAndCallsReturn == Pool!Liveness
=============================================================================
