------------------------------ MODULE TaskPool ------------------------------
(***************************************************************************)
(* What ThreadPool promises to the thread that uses it (ThreadPool.h):     *)
(* tasks are started in the order of submission and each runs once; get    *)
(* returns when its task is done; wait, "Blocking wait for all the threads *)
(* to complete and the queue to be empty", and the "Blocking destructor"   *)
(* return when every submitted task is.                                    *)
(***************************************************************************)
EXTENDS Integers, Sequences

CONSTANT TaskIds

VARIABLES
  waiting,    (* the tasks that have not started, in order                  *)
  running,    (* those that have                                            *)
  finished,   (* those that are done                                        *)
  caller      (* what the user's thread waits for: [call, task]             *)

poolVars == <<waiting, running, finished, caller>>

Call(name) == [call |-> name, task |-> 0]
GetCall(t) == [call |-> "get", task |-> t]

Free == Call("none")
Idle == waiting = <<>> /\ running = {}

Init ==
  /\ waiting = <<>>
  /\ running = {}
  /\ finished = {}
  /\ caller = Free

(* Only a thread that waits for nothing submits: "It is an error to try to *)
(* add new tasks while blocking on this call."                             *)
Submit(t) ==
  /\ caller = Free
  /\ t \notin running \cup finished
  /\ waiting' = Append(waiting, t)
  /\ UNCHANGED <<running, finished, caller>>

Start ==
  /\ waiting # <<>>
  /\ waiting' = Tail(waiting)
  /\ running' = running \cup {Head(waiting)}
  /\ UNCHANGED <<finished, caller>>

Finish(t) ==
  /\ t \in running
  /\ running' = running \ {t}
  /\ finished' = finished \cup {t}
  /\ UNCHANGED <<waiting, caller>>

BeginCall(c) ==
  /\ caller = Free
  /\ caller' = c
  /\ UNCHANGED <<waiting, running, finished>>

Get(t) == BeginCall(GetCall(t))

EndGet ==
  /\ caller.call = "get"
  /\ caller.task \in finished
  /\ caller' = Free
  /\ UNCHANGED <<waiting, running, finished>>

EndWait ==
  /\ caller = Call("wait")
  /\ Idle
  /\ caller' = Free
  /\ UNCHANGED <<waiting, running, finished>>

EndDestroy ==
  /\ caller = Call("destroy")
  /\ Idle
  /\ caller' = Call("gone")
  /\ UNCHANGED <<waiting, running, finished>>

Next ==
  \/ \E t \in TaskIds : Submit(t) \/ Finish(t) \/ Get(t)
  \/ Start
  \/ BeginCall(Call("wait")) \/ BeginCall(Call("destroy"))
  \/ EndGet \/ EndWait \/ EndDestroy

Safety == Init /\ [][Next]_poolVars

(* Tasks are started and finished, and calls return, without another call. *)
Liveness ==
  /\ WF_poolVars(Start) /\ \A t \in TaskIds : WF_poolVars(Finish(t))
  /\ WF_poolVars(EndGet) /\ WF_poolVars(EndWait) /\ WF_poolVars(EndDestroy)

Spec == Safety /\ Liveness
=============================================================================
