----------------------- MODULE LockFileManager_proofs -----------------------
(***************************************************************************)
(* Proofs about LockFileManager, for any processes and hosts and any       *)
(* number of failures, deaths and rounds of waiting.  The argument: what   *)
(* a process has on disk and in its signal handler follows from the point  *)
(* it has reached, except while it reads the lock file, where it may or    *)
(* may not have made its unique file; a step of one process changes the    *)
(* files of no other but the link, which it makes only when there is none  *)
(* and otherwise removes.                                                  *)
(***************************************************************************)
EXTENDS LockFileManager, TLAPS

Types ==
  /\ link \in Procs \cup {None}
  /\ unique \in [Procs -> {"none", "empty", "written"}]
  /\ armed \in SUBSET Procs
  /\ alive \in SUBSET Procs
  /\ at \in [Procs -> Points]
  /\ Owner \in [Procs -> Procs \cup {None}]
  /\ Error \in SUBSET Procs
  /\ polls \in [Procs -> Nat]
  /\ failures \in 0 .. MaxFailures
  /\ deaths \in 0 .. MaxDeaths
  /\ lockKept \in SUBSET Procs
  /\ fileKept \in SUBSET Procs
  /\ robbed \in SUBSET Procs

Reading == {"read", "check", "discard"}
Linking == {"arm", "link", "exists", "clean", "useless", "owned", "release"}
Gone    == {"shared", "look", "probe", "timeout", "end", "exited"}

(* The interval is checked after each round.                               *)
PollsBounded ==
  \A p \in Procs :
    /\ polls[p] <= MaxPolls
    /\ at[p] \notin {"timeout", "end"} => polls[p] < MaxPolls

(* The unique file of a process, by the point it has reached.              *)
UniqueFollows ==
  \A p \in Procs :
    /\ at[p] \in {"start", "create"} => unique[p] = "none"
    /\ at[p] \in {"disarm", "aborted"} \cup Gone => unique[p] = "none" \/ p \in fileKept
    /\ at[p] \in Linking => unique[p] = "written"
    /\ at[p] \in Reading \cup {"cleanup"} => unique[p] # "empty"

(* Its signal handler.                                                     *)
ArmedFollows ==
  \A p \in Procs :
    /\ at[p] \in {"start", "create", "write", "excuse", "arm", "aborted"} \cup Gone =>
         p \notin armed
    /\ at[p] \in Reading /\ unique[p] = "none" => p \notin armed

LinkWhole == link # None => unique[link] # "empty"

(* A lock is left behind on the way out of the destructor only.            *)
KeptFollows ==
  \A p \in lockKept : at[p] \in {"cleanup", "disarm", "dead"} \cup Gone

IInv == /\ Types /\ PollsBounded /\ UniqueFollows /\ ArmedFollows /\ LockIsHeld
        /\ LinkWhole /\ KeptFollows

(* The actions by what they write.                                         *)
LockStep(p) == Discard(p) \/ CreateLink(p) \/ CleanLink(p) \/ Release(p)
                 \/ unsafeRemoveLockFile(p)
FileStep(p) == CreateUniqueFile(p) \/ WriteOwner(p) \/ MakeUpAnExcuse(p)
                 \/ RemoveUseless(p) \/ RemoveUnique(p)
                 \/ RemoveFileOnSignal(p) \/ DontRemoveFileOnSignal(p)
LookStep(p) == Begin(p) \/ GetFile(p) \/ CheckOwner(p) \/ CheckLink(p) \/ Produce(p)
                 \/ Poll(p) \/ LookForProduct(p) \/ ProbeOwner(p) \/ GiveUp(p) \/ Exit(p)
Death(p) == Kill(p) \/ Signal(p)
-----------------------------------------------------------------------------
LEMMA Steps ==
  ASSUME Next
  PROVE  \E p \in Procs : LockStep(p) \/ FileStep(p) \/ LookStep(p) \/ Death(p)
BY DEF Next, Call, LockStep, FileStep, LookStep, Death

LEMMA InitIInv == Init => IInv
<1> SUFFICES ASSUME Init PROVE IInv
  OBVIOUS
<1> USE ProcsAssumption, BoundsAssumption DEF Init
<1>1. Types
  <2>1. unique \in [Procs -> {"none", "empty", "written"}] /\ at \in [Procs -> Points]
    BY DEF Points
  <2>2. Owner \in [Procs -> Procs \cup {None}] /\ polls \in [Procs -> Nat]
    OBVIOUS
  <2>3. failures \in 0 .. MaxFailures /\ deaths \in 0 .. MaxDeaths
    OBVIOUS
  <2>4. QED BY <2>1, <2>2, <2>3 DEF Types
<1>2. PollsBounded /\ UniqueFollows /\ ArmedFollows
  BY DEF PollsBounded, UniqueFollows, ArmedFollows, Reading, Linking, Gone
<1>3. LockIsHeld /\ LinkWhole /\ KeptFollows
  BY DEF LockIsHeld, LinkWhole, KeptFollows
<1>4. QED BY <1>1, <1>2, <1>3 DEF IInv

LEMMA LockStepIInv == ASSUME IInv, NEW p \in Procs, LockStep(p) PROVE IInv'
<1> USE ProcsAssumption, BoundsAssumption
    DEF IInv, Types, Points, PollsBounded, UniqueFollows, ArmedFollows, LockIsHeld,
        LinkWhole, KeptFollows, Reading, Linking, Gone, Go, Fail, FailUnnoticed, RemoveLock,
        TryToRemoveLock, Owns, files, faults, history
<1>1. CASE Discard(p)
  BY <1>1 DEF Discard
<1>2. CASE CreateLink(p)
  BY <1>2 DEF CreateLink
<1>3. CASE CleanLink(p)
  BY <1>3 DEF CleanLink
<1>4. CASE Release(p)
  BY <1>4 DEF Release
<1>5. CASE unsafeRemoveLockFile(p)
  BY <1>5 DEF unsafeRemoveLockFile
<1>6. QED BY <1>1, <1>2, <1>3, <1>4, <1>5 DEF LockStep

LEMMA FileStepIInv == ASSUME IInv, NEW p \in Procs, FileStep(p) PROVE IInv'
<1> USE ProcsAssumption, BoundsAssumption
    DEF IInv, Types, Points, PollsBounded, UniqueFollows, ArmedFollows, LockIsHeld,
        LinkWhole, KeptFollows, Reading, Linking, Gone, Go, Fail, FailUnnoticed, SetUnique,
        Forget, files, faults, history
<1>1. CASE CreateUniqueFile(p)
  BY <1>1 DEF CreateUniqueFile
<1>2. CASE WriteOwner(p)
  BY <1>2 DEF WriteOwner
<1>3. CASE MakeUpAnExcuse(p)
  BY <1>3 DEF MakeUpAnExcuse
<1>4. CASE RemoveUseless(p)
  BY <1>4 DEF RemoveUseless
<1>5. CASE RemoveUnique(p)
  BY <1>5 DEF RemoveUnique
<1>6. CASE RemoveFileOnSignal(p)
  BY <1>6 DEF RemoveFileOnSignal
<1>7. CASE DontRemoveFileOnSignal(p)
  BY <1>7 DEF DontRemoveFileOnSignal
<1>8. QED BY <1>1, <1>2, <1>3, <1>4, <1>5, <1>6, <1>7 DEF FileStep

LEMMA LookStepIInv == ASSUME IInv, NEW p \in Procs, LookStep(p) PROVE IInv'
<1> USE ProcsAssumption, BoundsAssumption
    DEF IInv, Types, Points, PollsBounded, UniqueFollows, ArmedFollows, LockIsHeld,
        LinkWhole, KeptFollows, Reading, Linking, Gone, Go, LinkResolves, Forget, files,
        faults, history
<1>1. CASE Begin(p) \/ Exit(p)
  BY <1>1 DEF Begin, Exit
<1>2. CASE GetFile(p)
  BY <1>2 DEF GetFile
<1>3. CASE CheckOwner(p)
  BY <1>3 DEF CheckOwner
<1>4. CASE CheckLink(p) \/ Poll(p)
  BY <1>4 DEF CheckLink, Poll
<1>5. CASE Produce(p)
  BY <1>5 DEF Produce
<1>6. CASE LookForProduct(p) \/ GiveUp(p)
  BY <1>6 DEF LookForProduct, GiveUp
<1>7. CASE ProbeOwner(p)
  BY <1>7 DEF ProbeOwner
<1>8. QED BY <1>1, <1>2, <1>3, <1>4, <1>5, <1>6, <1>7 DEF LookStep

LEMMA DeathIInv == ASSUME IInv, NEW p \in Procs, Death(p) PROVE IInv'
<1> USE ProcsAssumption, BoundsAssumption
    DEF IInv, Types, Points, PollsBounded, UniqueFollows, ArmedFollows, LockIsHeld,
        LinkWhole, KeptFollows, Reading, Linking, Gone, Go, Die, Forget, SetUnique, files
<1>1. CASE Kill(p)
  BY <1>1 DEF Kill
<1>2. CASE Signal(p)
  BY <1>2 DEF Signal
<1>3. QED BY <1>1, <1>2 DEF Death

LEMMA StutterIInv == IInv /\ UNCHANGED vars => IInv'
BY DEF IInv, Types, PollsBounded, UniqueFollows, ArmedFollows, LockIsHeld, LinkWhole,
       KeptFollows, vars, files, faults, history

LEMMA Inductive == Spec => []IInv
<1>1. IInv /\ [Next]_vars => IInv'
  BY Steps, LockStepIInv, FileStepIInv, LookStepIInv, DeathIInv, StutterIInv
<1>2. QED BY InitIInv, <1>1, PTL DEF Spec
-----------------------------------------------------------------------------
(* The variables keep their types; in particular no process waits for more *)
(* rounds than its interval allows.                                        *)
THEOREM TypeCorrect == Spec => []TypeOK
<1>1. IInv => TypeOK
  BY BoundsAssumption DEF IInv, Types, PollsBounded, TypeOK
<1>2. QED BY Inductive, <1>1, PTL

(* Whoever can open the lock reads a whole owner.                          *)
THEOREM LockAlwaysNamesItsOwner == Spec => []LockNamesItsOwner
<1>1. IInv => LockNamesItsOwner
  BY DEF IInv, Types, LinkWhole, LockNamesItsOwner, LinkResolves
<1>2. QED BY Inductive, <1>1, PTL

(* The lock, whenever there is one, is one that its owner holds, died with *)
(* or could not remove, whatever failed and whoever removed a lock in      *)
(* between.                                                                *)
THEOREM LockIsAlwaysHeld == Spec => []LockIsHeld
BY Inductive, PTL DEF IInv

(* A manager that released its lock, failed, aborted or waits has no signal *)
(* handler, and a unique file only if its last remove of it failed.        *)
THEOREM NothingIsLeftBehind == Spec => []NothingLeftBehind
<1>1. IInv => NothingLeftBehind
  BY DEF IInv, UniqueFollows, ArmedFollows, Gone, NothingLeftBehind
<1>2. QED BY Inductive, <1>1, PTL
-----------------------------------------------------------------------------
(* Mutual exclusion, which does not hold (run lock_file_race): readLockFile *)
(* removes the lock it found dead or unreadable, the constructor the one   *)
(* that nobody seems to own, unsafeRemoveLockFile the one it waited for and *)
(* the destructor its own, without a check that the lock still is that one. *)

LEMMA OneOwnerStep ==
  ASSUME Types, OneOwnerUnlessRobbed, [Next]_vars
  PROVE  OneOwnerUnlessRobbed'
<1> USE ProcsAssumption DEF Types, OneOwnerUnlessRobbed, Owns, Go, files, faults, history
<1>1. ASSUME NEW p \in Procs, LockStep(p)
      PROVE  OneOwnerUnlessRobbed'
  <2> USE DEF RemoveLock, TryToRemoveLock, Fail, FailUnnoticed
  <2>1. CASE Discard(p)
    BY <2>1 DEF Discard
  <2>2. CASE CreateLink(p)
    BY <2>2 DEF CreateLink
  <2>3. CASE CleanLink(p)
    BY <2>3 DEF CleanLink
  <2>4. CASE Release(p)
    BY <2>4 DEF Release
  <2>5. CASE unsafeRemoveLockFile(p)
    BY <2>5 DEF unsafeRemoveLockFile
  <2>6. QED BY <1>1, <2>1, <2>2, <2>3, <2>4, <2>5 DEF LockStep
<1>2. ASSUME NEW p \in Procs, FileStep(p)
      PROVE  OneOwnerUnlessRobbed'
  BY <1>2 DEF FileStep, CreateUniqueFile, WriteOwner, MakeUpAnExcuse, RemoveUseless,
              RemoveUnique, RemoveFileOnSignal, DontRemoveFileOnSignal
<1>3. ASSUME NEW p \in Procs, LookStep(p)
      PROVE  OneOwnerUnlessRobbed'
  BY <1>3 DEF LookStep, Begin, GetFile, CheckOwner, CheckLink, Produce, Poll,
              LookForProduct, ProbeOwner, GiveUp, Exit
<1>4. ASSUME NEW p \in Procs, Death(p)
      PROVE  OneOwnerUnlessRobbed'
  BY <1>4 DEF Death, Kill, Signal, Die
<1>5. CASE UNCHANGED vars
  BY <1>5 DEF vars
<1>6. QED BY Steps, <1>1, <1>2, <1>3, <1>4, <1>5

(* An owner holds the lock until it releases it, unless another process    *)
(* removed it from an owner at work: the unchecked removals are all that   *)
(* is wrong, and the symbolic link does exclude ("the atomicity of the     *)
(* file system").                                                          *)
THEOREM OwnersKeepTheLock == Spec => []OneOwnerUnlessRobbed
<1>1. Init => OneOwnerUnlessRobbed
  BY DEF Init, OneOwnerUnlessRobbed, Owns
<1>2. IInv /\ OneOwnerUnlessRobbed /\ [Next]_vars => OneOwnerUnlessRobbed'
  BY OneOwnerStep DEF IInv
<1>3. QED BY Inductive, <1>1, <1>2, PTL DEF Spec
=============================================================================
