------------------------------- MODULE IPCSem -------------------------------
(***************************************************************************)
(* The lock of the bulletin board: a System V semaphore used through       *)
(* LWPR::IPCSEM and LWPR::Synchronized by the threads of every process of  *)
(* a gate. Lock asks the kernel to record what to undo when the process    *)
(* ends, Unlock does not: the record of a process grows with every lock    *)
(* its threads take.                                                       *)
(*                                                                         *)
(* The kernel's part (semop, semadj, exit) is external: semadj[p] is the   *)
(* record, added to the semaphore when p ends; a value or a record that    *)
(* would pass its limit makes semop fail with ERANGE. The calls block:     *)
(* Synchronized is the only user, and it passes blocked = true.            *)
(***************************************************************************)
EXTENDS Integers

CONSTANTS
  Process, \* the processes that use the board
  Thread,  \* their threads
  Owner,   \* the process of each thread
  SemVMX   \* the largest value of a semaphore, and of a record: 32767 on Linux

ASSUME OwnerAssumption == Owner \in [Thread -> Process]
ASSUME SemVMXAssumption == SemVMX \in Nat \ {0}

VARIABLES
  semval, \* the semaphore
  semadj, \* what the kernel adds to it when a process ends
  at,     \* where each thread is
  intact  \* history: every process that ended gave back what it held, no more

vars == <<semval, semadj, at, intact>>

Place  == {"out", "in", "refused", "ended"}
Inside == {t \in Thread : at[t] = "in"}

(* A mistake: the value IPCSEM::Create gives a read-write lock, for a lock *)
(* that is taken one by one.                                               *)
InitialValueShared == SemVMX
(* IPCSEM::Create sets the value to 1. *)
InitialValue == 1

Init ==
  /\ semval = InitialValue
  /\ semadj = [p \in Process |-> 0]
  /\ at = [t \in Thread |-> "out"]
  /\ intact = TRUE

(* A mistake: Lock without SEM_UNDO. *)
UndoOfLockLeftOut == 0
(* What Lock adds to the record: it takes 1 with SEM_UNDO. *)
UndoOfLock == 1

(* Synchronized(id): IPCSEM::Lock waits for the semaphore and takes it. *)
Lock(t) ==
  /\ at[t] = "out"
  /\ semval >= 1 /\ semadj[Owner[t]] + UndoOfLock <= SemVMX
  /\ semval' = semval - 1
  /\ semadj' = [semadj EXCEPT ![Owner[t]] = @ + UndoOfLock]
  /\ at' = [at EXCEPT ![t] = "in"]
  /\ UNCHANGED intact

(* The record is full: semop fails, Lock throws, and Synchronized is never *)
(* built. The caller can only give the operation up.                       *)
LockRefused(t) ==
  /\ at[t] = "out"
  /\ semval >= 1 /\ semadj[Owner[t]] + UndoOfLock > SemVMX
  /\ at' = [at EXCEPT ![t] = "refused"]
  /\ UNCHANGED <<semval, semadj, intact>>

GiveUp(t) ==
  /\ at[t] = "refused"
  /\ at' = [at EXCEPT ![t] = "out"]
  /\ UNCHANGED <<semval, semadj, intact>>

(* ~Synchronized(): IPCSEM::Unlock gives it back, without SEM_UNDO. At the *)
(* largest value semop fails and Unlock throws from the destructor: the    *)
(* section is left, or (when it is noexcept) the process ends, see Exit.   *)
Unlock(t) ==
  /\ at[t] = "in"
  /\ semval' = IF semval < SemVMX THEN semval + 1 ELSE semval
  /\ at' = [at EXCEPT ![t] = "out"]
  /\ UNCHANGED <<semadj, intact>>

(* A process ends, wherever its threads are: the kernel adds its record,   *)
(* which is right only if it is what a thread still holds.                 *)
Exit(p) ==
  /\ \E t \in Thread : Owner[t] = p /\ at[t] # "ended"
  /\ semval' = IF semval + semadj[p] < SemVMX THEN semval + semadj[p] ELSE SemVMX
  /\ at' = [t \in Thread |-> IF Owner[t] = p THEN "ended" ELSE at[t]]
  /\ semadj' = [semadj EXCEPT ![p] = 0]
  /\ intact' = (intact /\ semadj[p] = IF \E t \in Inside : Owner[t] = p THEN 1 ELSE 0)

(* txgate forks another process in its place, which starts with no record. *)
Fork(p) ==
  /\ \A t \in Thread : Owner[t] = p => at[t] = "ended"
  /\ at' = [t \in Thread |-> IF Owner[t] = p THEN "out" ELSE at[t]]
  /\ UNCHANGED <<semval, semadj, intact>>

Next ==
  \/ \E t \in Thread : Lock(t) \/ LockRefused(t) \/ GiveUp(t) \/ Unlock(t)
  \/ \E p \in Process : Exit(p) \/ Fork(p)

Spec == Init /\ [][Next]_vars

(* A critical section is left in the end, and the kernel serves those that *)
(* wait in the order they came: none is passed over for ever.              *)
Fairness == \A t \in Thread : WF_vars(Unlock(t)) /\ SF_vars(Lock(t))
LiveSpec == Spec /\ Fairness

-----------------------------------------------------------------------------

TypeOK ==
  /\ semval \in 0 .. SemVMX
  /\ semadj \in [Process -> 0 .. SemVMX]
  /\ at \in [Thread -> Place]
  /\ intact \in BOOLEAN

Exclusive == \A t, u \in Inside : t = u

(* The board's operations exclude each other, ends of processes in the     *)
(* middle of one included, as long as no process ends that had finished    *)
(* an operation before.                                                    *)
ExclusiveWhileIntact == intact => Exclusive

(* The lock is never lost: when nobody can take it somebody is inside, who *)
(* will give it back or whose end will.                                    *)
NeverLost == semval = 0 => Inside # {}

(* The semaphore is a lock as long as records are true: both of these.     *)
LockKept == ExclusiveWhileIntact /\ NeverLost

(* A thread that works on the board, in a process that does not end, gets  *)
(* the lock again and again, until the record of the process is full.      *)
LockedAgain ==
  \A t \in Thread :
    (at[t] = "out") ~> (at[t] \in {"in", "ended"} \/ semadj[Owner[t]] = SemVMX)

(* BulletinBoard.h:319 calls m_nSEMID the lock that controls reading and   *)
(* writing of the shared memory: two operations never run at once.         *)
MutualExclusion == Exclusive

=============================================================================
