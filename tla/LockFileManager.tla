--------------------------- MODULE LockFileManager ---------------------------
(***************************************************************************)
(* llvm::LockFileManager on Unix: processes that each want to produce the  *)
(* same file once.  The lock is a symbolic link to a file that only its    *)
(* owner creates and that holds the owner's host and process id.  Every    *)
(* call to the file system is a step; a process may be killed at any step, *)
(* with (Signal) or without (Kill) its signal handlers.                    *)
(***************************************************************************)
EXTENDS Integers, FiniteSets

CONSTANTS
  Procs,         (* each makes one LockFileManager for FileName             *)
  Remote,        (* those of them that run on another host                  *)
  None,          (* no process                                              *)
  MaxPolls,      (* rounds of waitForUnlock until its interval is too long  *)
  MaxFailures,   (* bound: calls to the file system that fail               *)
  MaxDeaths      (* bound: processes killed                                 *)

ASSUME ProcsAssumption  == Remote \subseteq Procs /\ None \notin Procs
ASSUME BoundsAssumption ==
  /\ MaxPolls \in Nat \ {0}
  /\ MaxFailures \in Nat
  /\ MaxDeaths \in Nat

VARIABLES
  link,       (* LockFileName: the process whose unique file it points to   *)
  unique,     (* UniqueLockFileName of each process                         *)
  armed,      (* the processes whose handler removes their unique file      *)
  alive,      (* the processes that are executing                           *)
  at,         (* the point each process has reached                         *)
  Owner,      (* the owner each process read                                *)
  Error,      (* the processes that reported an error                       *)
  polls,      (* rounds of waitForUnlock so far                             *)
  failures,
  deaths,
  lockKept,   (* history: owners whose own remove of the lock failed         *)
  fileKept,   (* history: those whose last remove of their unique file failed *)
  robbed      (* history: owners whose lock another process removed         *)

files == <<link, unique>>
faults == <<armed, alive, failures, deaths>>
history == <<lockKept, fileKept, robbed>>
vars == <<files, faults, at, Owner, Error, polls, history>>

Go(p, point) == at' = [at EXCEPT ![p] = point]
FailUnnoticed == failures < MaxFailures /\ failures' = failures + 1
Fail(p) == FailUnnoticed /\ Error' = Error \cup {p}

Owns(p) == at[p] \in {"owned", "release"}

(* remove(LockFileName) by p, whatever lock that name stands for by then.  *)
RemoveLock(p) ==
  /\ link' = None
  /\ robbed' = (robbed \ {p}) \cup {q \in Procs \ {p} : q = link /\ Owns(q)}

(* The same where the code ignores the result.                             *)
TryToRemoveLock(p) ==
  \/ RemoveLock(p) /\ UNCHANGED failures
  \/ link # None /\ FailUnnoticed /\ UNCHANGED <<link, robbed>>

(* access and open follow the link; remove and symlink do not.             *)
LinkResolves == link # None /\ unique[link] # "none"
SetUnique(p, state) == unique' = [unique EXCEPT ![p] = state]

(* What a process knew is gone with it.                                    *)
Forget(p) ==
  /\ alive' = alive \ {p}
  /\ Owner' = [Owner EXCEPT ![p] = None]
  /\ Error' = Error \ {p}
  /\ polls' = [polls EXCEPT ![p] = 0]

processStillExecuting(p, q) == (p \in Remote <=> q \in Remote) => q \in alive
-----------------------------------------------------------------------------
(* readLockFile, called before there is a unique file and in the loop.     *)

(* A file that cannot be opened, for whatever reason, is not distinguished *)
(* from one that is not there.                                             *)
GetFile(p) ==
  /\ at[p] = "read"
  /\ \/ /\ LinkResolves /\ unique[link] = "written"
        /\ Owner' = [Owner EXCEPT ![p] = link]
        /\ Go(p, "check")
        /\ UNCHANGED failures
     \/ /\ IF LinkResolves /\ unique[link] = "written"
           THEN failures < MaxFailures /\ failures' = failures + 1
           ELSE UNCHANGED failures
        /\ Go(p, "discard")
        /\ UNCHANGED Owner
  /\ UNCHANGED <<files, armed, alive, deaths, Error, polls, history>>

CheckOwner(p) ==
  /\ at[p] = "check"
  /\ IF processStillExecuting(p, Owner[p])
     THEN /\ Go(p, IF unique[p] = "none" THEN "shared" ELSE "useless")
          /\ UNCHANGED Owner
     ELSE Go(p, "discard") /\ Owner' = [Owner EXCEPT ![p] = None]
  /\ UNCHANGED <<files, faults, Error, polls, history>>

Discard_keep(p) ==
  /\ at[p] = "discard"
  /\ Go(p, IF unique[p] = "none" THEN "create" ELSE "exists")
  /\ UNCHANGED <<files, faults, Owner, Error, polls, history>>

(* "Delete the lock file. It's invalid anyway."  Also when there was none. *)
Discard(p) ==
  /\ at[p] = "discard"
  /\ TryToRemoveLock(p)
  /\ Go(p, IF unique[p] = "none" THEN "create" ELSE "exists")
  /\ UNCHANGED <<unique, armed, alive, deaths, Owner, Error, polls,
                 lockKept, fileKept>>
-----------------------------------------------------------------------------
(* The constructor.                                                        *)

CreateUniqueFile(p) ==
  /\ at[p] = "create"
  /\ \/ SetUnique(p, "empty") /\ Go(p, "write") /\ UNCHANGED <<failures, Error>>
     \/ Fail(p) /\ Go(p, "end") /\ UNCHANGED unique
  /\ UNCHANGED <<link, armed, alive, deaths, Owner, polls, history>>

WriteOwner_later(p) ==
  /\ at[p] = "write"
  /\ Go(p, "arm")
  /\ UNCHANGED <<files, faults, Owner, Error, polls, history>>

(* The error of a failing write stays set in Out.                          *)
WriteOwner(p) ==
  /\ at[p] = "write"
  /\ \/ SetUnique(p, "written") /\ Go(p, "arm") /\ UNCHANGED <<failures, Error>>
     \/ Fail(p) /\ Go(p, "excuse") /\ UNCHANGED unique
  /\ UNCHANGED <<link, armed, alive, deaths, Owner, polls, history>>

MakeUpAnExcuse_keep(p) ==
  /\ at[p] = "excuse"
  /\ Forget(p)
  /\ Go(p, "aborted")
  /\ UNCHANGED <<files, armed, failures, deaths, history>>

(* "make up an excuse, remove the unique lock file, and fail."  Failing is *)
(* not what happens: the destructor of Out finds the error and ends the    *)
(* process (report_fatal_error).                                           *)
MakeUpAnExcuse(p) ==
  /\ at[p] = "excuse"
  /\ \/ SetUnique(p, "none") /\ UNCHANGED <<failures, fileKept>>
     \/ FailUnnoticed /\ fileKept' = fileKept \cup {p} /\ UNCHANGED unique
  /\ Forget(p)
  /\ Go(p, "aborted")
  /\ UNCHANGED <<link, armed, deaths, lockKept, robbed>>

RemoveFileOnSignal(p) ==
  /\ at[p] = "arm"
  /\ armed' = armed \cup {p}
  /\ Go(p, "link")
  /\ UNCHANGED <<files, alive, failures, deaths, Owner, Error, polls, history>>

CreateLink_overwrites(p) ==
  /\ at[p] = "link"
  /\ link' = p
  /\ Go(p, "owned")
  /\ UNCHANGED <<unique, faults, Owner, Error, polls, history>>

CreateLink(p) ==
  /\ at[p] = "link"
  /\ \/ /\ link = None
        /\ link' = p
        /\ Go(p, "owned")
        /\ UNCHANGED <<failures, Error>>
     \/ /\ link # None
        /\ Go(p, "read")
        /\ UNCHANGED <<link, failures, Error>>
     \/ Fail(p) /\ Go(p, "cleanup") /\ UNCHANGED link
  /\ UNCHANGED <<unique, armed, alive, deaths, Owner, polls, history>>

CheckLink(p) ==
  /\ at[p] = "exists"
  /\ Go(p, IF LinkResolves THEN "clean" ELSE "link")
  /\ UNCHANGED <<files, faults, Owner, Error, polls, history>>

(* "There is a lock file that nobody owns; try to clean it up."            *)
CleanLink(p) ==
  /\ at[p] = "clean"
  /\ \/ RemoveLock(p) /\ Go(p, "link") /\ UNCHANGED <<failures, Error>>
     \/ Fail(p) /\ Go(p, "cleanup") /\ UNCHANGED <<link, robbed>>
  /\ UNCHANGED <<unique, armed, alive, deaths, Owner, polls, lockKept, fileKept>>

(* "Wipe out our unique lock file (it's useless now)", and once more when  *)
(* the constructor returns.                                                *)
RemoveUseless(p) ==
  /\ at[p] = "useless"
  /\ \/ SetUnique(p, "none") /\ UNCHANGED failures
     \/ FailUnnoticed /\ UNCHANGED unique
  /\ Go(p, "cleanup")
  /\ UNCHANGED <<link, armed, alive, deaths, Owner, Error, polls, history>>

(* The unique file goes before the handler that would remove it: in the    *)
(* destructor and when the constructor returns without the lock.           *)
RemoveUnique(p) ==
  /\ at[p] = "cleanup"
  /\ \/ SetUnique(p, "none") /\ UNCHANGED <<failures, fileKept>>
     \/ /\ unique[p] # "none"
        /\ FailUnnoticed
        /\ fileKept' = fileKept \cup {p}
        /\ UNCHANGED unique
  /\ Go(p, "disarm")
  /\ UNCHANGED <<link, armed, alive, deaths, Owner, Error, polls, lockKept, robbed>>

DontRemoveFileOnSignal(p) ==
  /\ at[p] = "disarm"
  /\ armed' = armed \ {p}
  /\ Go(p, IF Owner[p] # None THEN "shared" ELSE "end")
  /\ UNCHANGED <<files, alive, failures, deaths, Owner, Error, polls, history>>
-----------------------------------------------------------------------------
(* The owner produces the file, or fails to, and destroys its manager.     *)

Produce(p) ==
  /\ at[p] = "owned"
  /\ Go(p, "release")
  /\ UNCHANGED <<files, faults, Owner, Error, polls, history>>

Release_keep(p) ==
  /\ at[p] = "release"
  /\ Go(p, "cleanup")
  /\ UNCHANGED <<files, faults, Owner, Error, polls, history>>

Release(p) ==
  /\ at[p] = "release"
  /\ TryToRemoveLock(p)
  /\ lockKept' = IF link' = p THEN lockKept \cup {p} ELSE lockKept
  /\ Go(p, "cleanup")
  /\ UNCHANGED <<unique, armed, alive, deaths, Owner, Error, polls, fileKept>>
-----------------------------------------------------------------------------
(* waitForUnlock, and what its caller may do when it gives up.             *)

Poll(p) ==
  /\ at[p] = "shared"
  /\ Go(p, IF LinkResolves THEN "probe" ELSE "look")
  /\ UNCHANGED <<files, faults, Owner, Error, polls, history>>

(* Res_Success or Res_OwnerDied, as FileName exists or not.                *)
LookForProduct(p) ==
  /\ at[p] = "look"
  /\ Go(p, "end")
  /\ UNCHANGED <<files, faults, Owner, Error, polls, history>>

ProbeOwner_oneMore(p) ==
  /\ at[p] = "probe"
  /\ IF processStillExecuting(p, Owner[p])
     THEN /\ polls' = [polls EXCEPT ![p] = @ + 1]
          /\ Go(p, IF polls[p] <= MaxPolls THEN "shared" ELSE "timeout")
     ELSE Go(p, "end") /\ UNCHANGED polls
  /\ UNCHANGED <<files, faults, Owner, Error, history>>

ProbeOwner_noLimit(p) ==
  /\ at[p] = "probe"
  /\ Go(p, IF processStillExecuting(p, Owner[p]) THEN "shared" ELSE "end")
  /\ UNCHANGED <<files, faults, Owner, Error, polls, history>>

(* Res_OwnerDied, another round, or Res_Timeout.                           *)
ProbeOwner(p) ==
  /\ at[p] = "probe"
  /\ IF processStillExecuting(p, Owner[p])
     THEN /\ polls' = [polls EXCEPT ![p] = @ + 1]
          /\ Go(p, IF polls'[p] < MaxPolls THEN "shared" ELSE "timeout")
     ELSE Go(p, "end") /\ UNCHANGED polls
  /\ UNCHANGED <<files, faults, Owner, Error, history>>

GiveUp(p) ==
  /\ at[p] = "timeout"
  /\ Go(p, "end")
  /\ UNCHANGED <<files, faults, Owner, Error, polls, history>>

unsafeRemoveLockFile(p) ==
  /\ at[p] = "timeout"
  /\ TryToRemoveLock(p)
  /\ Go(p, "end")
  /\ UNCHANGED <<unique, armed, alive, deaths, Owner, Error, polls,
                 lockKept, fileKept>>

Exit(p) ==
  /\ at[p] = "end"
  /\ Forget(p)
  /\ Go(p, "exited")
  /\ UNCHANGED <<files, armed, failures, deaths, history>>
-----------------------------------------------------------------------------
Die(p) ==
  /\ p \in alive
  /\ deaths < MaxDeaths
  /\ deaths' = deaths + 1
  /\ Forget(p)
  /\ Go(p, "dead")
  /\ armed' = armed \ {p}
  /\ robbed' = robbed \ {p}

Kill(p) == Die(p) /\ UNCHANGED <<files, failures, lockKept, fileKept>>

(* SignalHandler removes the files of FilesToRemove and raises the signal  *)
(* again.                                                                  *)
Signal(p) ==
  /\ Die(p)
  /\ IF p \in armed THEN SetUnique(p, "none") ELSE UNCHANGED unique
  /\ UNCHANGED <<link, failures, lockKept, fileKept>>

Init ==
  /\ link = None
  /\ unique = [p \in Procs |-> "none"]
  /\ armed = {}
  /\ alive = Procs
  /\ at = [p \in Procs |-> "start"]
  /\ Owner = [p \in Procs |-> None]
  /\ Error = {}
  /\ polls = [p \in Procs |-> 0]
  /\ failures = 0
  /\ deaths = 0
  /\ lockKept = {}
  /\ fileKept = {}
  /\ robbed = {}

Begin(p) ==
  /\ at[p] = "start"
  /\ Go(p, "read")
  /\ UNCHANGED <<files, faults, Owner, Error, polls, history>>

Call(p) ==
  \/ GetFile(p) \/ CheckOwner(p) \/ Discard(p)
  \/ CreateUniqueFile(p) \/ WriteOwner(p) \/ MakeUpAnExcuse(p)
  \/ RemoveFileOnSignal(p) \/ CreateLink(p) \/ CheckLink(p) \/ CleanLink(p)
  \/ RemoveUseless(p) \/ RemoveUnique(p) \/ DontRemoveFileOnSignal(p)
  \/ Produce(p) \/ Release(p)
  \/ Poll(p) \/ LookForProduct(p) \/ ProbeOwner(p) \/ GiveUp(p) \/ unsafeRemoveLockFile(p)
  \/ Exit(p)

Next == \E p \in Procs : Begin(p) \/ Call(p) \/ Kill(p) \/ Signal(p)

(* A process that lives takes its steps; it need not begin.                *)
Fairness == \A p \in Procs : WF_vars(Call(p))

Spec == Init /\ [][Next]_vars /\ Fairness
-----------------------------------------------------------------------------
(* Properties.                                                             *)

Points == {"start", "read", "check", "discard", "create", "write", "excuse", "arm", "link",
           "exists", "clean", "useless", "cleanup", "disarm", "owned", "release", "shared",
           "look", "probe", "timeout", "end", "exited", "aborted", "dead"}

TypeOK ==
  /\ link \in Procs \cup {None}
  /\ unique \in [Procs -> {"none", "empty", "written"}]
  /\ armed \in SUBSET Procs
  /\ alive \in SUBSET Procs
  /\ at \in [Procs -> Points]
  /\ Owner \in [Procs -> Procs \cup {None}]
  /\ Error \in SUBSET Procs
  /\ polls \in [Procs -> 0 .. MaxPolls]
  /\ failures \in 0 .. MaxFailures
  /\ deaths \in 0 .. MaxDeaths
  /\ lockKept \in SUBSET Procs
  /\ fileKept \in SUBSET Procs
  /\ robbed \in SUBSET Procs

(* Whoever opens the lock reads a whole owner, so a lock is never taken    *)
(* for garbage because its owner is still writing (or was killed while it  *)
(* wrote): the link is made after the unique file is closed.               *)
LockNamesItsOwner == LinkResolves => unique[link] = "written"

(* The lock points to the file of a process that owns it or was killed: it *)
(* is not left behind by one that failed, aborted or waits, whichever call *)
(* failed and whoever else removed or made a lock in between.  Only one    *)
(* that released it may leave it, when its own remove failed, for the      *)
(* destructor ignores that.                                                *)
LockIsHeld ==
  link # None => at[link] \in {"owned", "release", "dead"} \/ link \in lockKept

(* A manager that is gone, or whose process was ended by its own error,    *)
(* leaves no handler, and no unique file unless the last call that was to  *)
(* remove the file failed.                                                 *)
NothingLeftBehind ==
  \A p \in Procs :
    at[p] \in {"shared", "look", "probe", "timeout", "end", "exited", "aborted"} =>
      p \notin armed /\ (unique[p] = "none" \/ p \in fileKept)

(* "using the atomicity of the file system to ensure that only a single    *)
(* process can create that .lock file" (LockFileManager.h).                *)
SingleOwner == \A p, q \in Procs : Owns(p) /\ Owns(q) => p = q

(* What the atomicity of the symbolic link does ensure: an owner holds the *)
(* lock until it releases it, unless another process removed the lock of   *)
(* an owner at work.  So no two owners exist of whom neither was robbed,   *)
(* and the destructor removes another owner's lock only after its own was  *)
(* removed.                                                                *)
OneOwnerUnlessRobbed == \A p \in Procs : Owns(p) /\ p \notin robbed => link = p

(* Every constructor, wait and destructor returns or ends the process,     *)
(* whoever is killed where, also when the lock is held on a host whose     *)
(* processes cannot be probed, as long as calls to the file system fail    *)
(* only finitely often (MaxFailures): while the remove of a dangling lock  *)
(* fails, the constructor tries again.                                     *)
CallsReturn == \A p \in Procs : at[p] = "read" ~> at[p] \in {"exited", "aborted", "dead"}

(* A process that comes when the others are gone, on whatever host they    *)
(* were done, or killed on its own, is not kept out by what they left: it  *)
(* gets the lock, unless a call fails or it is killed.  A lock that could  *)
(* not be removed is like that of a killed process.                        *)
ComesAfterAll(p) ==
  /\ at[p] = "read" /\ unique[p] = "none"
  /\ \A q \in Procs \ {p} :
       /\ at[q] \in {"exited", "aborted", "dead"}
       /\ at[q] = "dead" \/ q \in lockKept => (p \in Remote <=> q \in Remote)
LockIsRecovered ==
  \A p \in Procs : ComesAfterAll(p) ~> Owns(p) \/ p \in Error \/ at[p] = "dead"
=============================================================================
