----------------------------- MODULE UpdateLock -----------------------------
(***************************************************************************)
(* Opening and closing a VPD database: VpdDbEnv::UpdateLock (the advisory  *)
(* lock file beside the database), VpdDbEnv::initFromLock (stat, open,     *)
(* CREATE TABLE) and the destructors.  One action per system call or       *)
(* SQLite call that another process can observe or disturb.                *)
(*                                                                         *)
(* The lock is a POSIX record lock (fcntl F_SETLK / F_SETLKW on byte 0):   *)
(* the kernel grants it to a PROCESS, not to a descriptor, and drops it    *)
(* when the process closes any descriptor of the file.                     *)
(***************************************************************************)
EXTENDS Integers

CONSTANTS
    Proc,          \* processes
    NoProc,        \* "nobody" as the owner of the kernel lock
    Env,           \* VpdDbEnv objects
    Owner,         \* the process each object lives in
    ReadOnly,      \* the objects opened with readOnly = true
    Borrowed,      \* the objects made from a caller's UpdateLock
    ClosedStdin,   \* processes started with descriptor 0 closed
    Faults         \* which failures, and C clients, this system has

ASSUME NoProcAssumption == NoProc \notin Proc
ASSUME OwnerAssumption == Owner \in [Env -> Proc]
ASSUME SubsetAssumption ==
    /\ ReadOnly \subseteq Env
    /\ Borrowed \subseteq Env
    /\ ClosedStdin \subseteq Proc
ASSUME FaultsAssumption == Faults \subseteq {"open", "wait", "init", "exit", "capi"}

VARIABLES
    pc,            \* where each object is in its life
    lockfd,        \* UpdateLock::lockfd: -1, 0, or 1 for any positive one
    klock,         \* the process that holds the record lock
    fd0,           \* processes whose next open(2) returns descriptor 0
    db,            \* the database file: absent, empty, or with its table
    found,         \* the result of initFromLock's stat (dbExists)
    orderly        \* history: every object so far was opened under the lock,
                   \* none stopped between the file and its table, and no C
                   \* client made the file

vars == <<pc, lockfd, klock, fd0, db, found, orderly>>
fileVars == <<db, found>>

\* In lockFileUpdate: "open" and "setlk" are its non-blocking call, "reopen"
\* and "setlkw" the blocking one; "getlk" asks who the holder is.
Locking == {"open", "setlk", "getlk", "reopen", "setlkw"}
\* The UpdateLock is constructed ("locked" before initFromLock starts).
Constructed == {"locked", "dbopen", "create", "ready", "closing", "failed"}
Phase == {"none"} \cup Locking \cup Constructed

Holds(e)     == pc[e] \in Constructed /\ lockfd[e] >= 0
Unlocked(e)  == pc[e] \in Constructed /\ lockfd[e] = -1

TypeOK ==
    /\ pc \in [Env -> Phase]
    /\ lockfd \in [Env -> {-1, 0, 1}]
    /\ klock \in Proc \cup {NoProc}
    /\ fd0 \subseteq Proc
    /\ db \in {"absent", "empty", "table"}
    /\ found \in [Env -> BOOLEAN]
    /\ orderly \in BOOLEAN

Init ==
    /\ pc = [e \in Env |-> "none"]
    /\ lockfd = [e \in Env |-> -1]
    /\ klock = NoProc
    /\ fd0 = ClosedStdin
    /\ db \in {"absent", "table"}
    /\ found = [e \in Env |-> FALSE]
    /\ orderly = TRUE

At(e, p) == pc[e] = p
Goto(e, p) == pc' = [pc EXCEPT ![e] = p]
SetFd(e, n) == lockfd' = [lockfd EXCEPT ![e] = n]

-----------------------------------------------------------------------------
(* The UpdateLock constructor and lockFileUpdate.                          *)

\* The constructor's stat: a reader of a missing database throws before it
\* touches the lock file, which leaves no object and no trace.
Construct(e) ==
    /\ At(e, "none")
    /\ e \in ReadOnly => db # "absent"
    /\ Goto(e, "open")
    /\ UNCHANGED <<lockfd, klock, fd0, db, found, orderly>>

\* The descriptor that open(2) returns: the lowest free one.
NewFd(p) == IF p \in fd0 THEN 0 ELSE 1

OpenLockFile(e) ==
    /\ pc[e] \in {"open", "reopen"}
    /\ SetFd(e, NewFd(Owner[e]))
    /\ fd0' = fd0 \ {Owner[e]}
    /\ Goto(e, IF At(e, "open") THEN "setlk" ELSE "setlkw")
    /\ UNCHANGED <<klock, fileVars, orderly>>

\* mutant: the error of open(2) is kept in lockfd.
KeepErrno(e) == lockfd' = [lockfd EXCEPT ![e] = -2]

\* mutant: the descriptor of the failed attempt stays in lockfd.
KeepFd(e) == SetFd(e, NewFd(Owner[e]))

\* lockFileUpdate returns an error: lockfd is -1 and the descriptor, if one
\* was opened, stays open.
GiveUp(e) == SetFd(e, -1)

\* Every negative result ends the constructor normally, without the lock.
ProceedUnlocked(e) ==
    /\ GiveUp(e)
    /\ Goto(e, "locked")
    /\ orderly' = FALSE

\* open(2) fails: an unprivileged reader, or no descriptor left.
OpenFails(e) ==
    /\ "open" \in Faults
    /\ pc[e] \in {"open", "reopen"}
    /\ ProceedUnlocked(e)
    /\ UNCHANGED <<klock, fd0, fileVars>>

\* F_WRLCK conflicts with the lock of any other process.
Compatible(p) == klock \in {NoProc, p}

Granted(e) ==
    /\ Compatible(Owner[e])
    /\ klock' = Owner[e]
    /\ Goto(e, "locked")
    /\ UNCHANGED <<lockfd, fd0, fileVars, orderly>>

SetLkGranted(e) == At(e, "setlk") /\ Granted(e)

SetLkDenied(e) ==
    /\ At(e, "setlk")
    /\ ~Compatible(Owner[e])
    /\ Goto(e, "getlk")
    /\ UNCHANGED <<lockfd, klock, fd0, fileVars, orderly>>

\* mutant: the constructor asks again and again in place of waiting.
GetLkPolls(e) ==
    /\ At(e, "getlk")
    /\ ~Compatible(Owner[e])
    /\ GiveUp(e)
    /\ Goto(e, "open")
    /\ UNCHANGED <<klock, fd0, fileVars, orderly>>

\* F_GETLK names the holder: the constructor goes on to wait for it.
GetLkHeld(e) ==
    /\ At(e, "getlk")
    /\ ~Compatible(Owner[e])
    /\ GiveUp(e)
    /\ Goto(e, "reopen")
    /\ UNCHANGED <<klock, fd0, fileVars, orderly>>

\* The holder left since F_SETLK: F_GETLK leaves l_pid = -1, which is taken
\* for an errno.
GetLkFree(e) ==
    /\ At(e, "getlk")
    /\ Compatible(Owner[e])
    /\ ProceedUnlocked(e)
    /\ UNCHANGED <<klock, fd0, fileVars>>

SetLkWGranted(e) == At(e, "setlkw") /\ Granted(e)

\* A signal interrupts the wait (EINTR).
SetLkWFails(e) ==
    /\ "wait" \in Faults
    /\ At(e, "setlkw")
    /\ ~Compatible(Owner[e])
    /\ ProceedUnlocked(e)
    /\ UNCHANGED <<klock, fd0, fileVars>>

-----------------------------------------------------------------------------
(* VpdDbEnv::initFromLock.                                                 *)

\* mutant: stat is asked about the directory, which always exists.
DirExists(e) == TRUE

DbExists(e) == db # "absent"

InitStat(e) ==
    /\ At(e, "locked")
    /\ found' = [found EXCEPT ![e] = DbExists(e)]
    /\ Goto(e, "dbopen")
    /\ UNCHANGED <<lockfd, klock, fd0, db, orderly>>

\* sqlite3_open_v2 creates the missing file, with no table in it; a reader
\* (SQLITE_OPEN_READONLY) does not.
DbOpen(e) ==
    /\ At(e, "dbopen")
    /\ e \in ReadOnly => db # "absent"
    /\ db' = IF db = "absent" THEN "empty" ELSE db
    /\ Goto(e, IF found[e] THEN "ready" ELSE "create")
    /\ UNCHANGED <<lockfd, klock, fd0, found, orderly>>

CreateTable(e) ==
    /\ At(e, "create")
    /\ db = "empty"
    /\ db' = "table"
    /\ Goto(e, "ready")
    /\ UNCHANGED <<lockfd, klock, fd0, found, orderly>>

\* The exception of initFromLock: SQLite is closed, the lock object is not
\* destroyed (the reference mUpdateLock owns nothing).
InitThrows(e) ==
    /\ Goto(e, "failed")
    /\ orderly' = (orderly /\ ~At(e, "create"))
    /\ UNCHANGED <<lockfd, klock, fd0, fileVars>>

\* Another environment made the table since the stat.
CreateFails(e) == At(e, "create") /\ db = "table" /\ InitThrows(e)

InitFails(e) ==
    /\ "init" \in Faults
    /\ pc[e] \in {"dbopen", "create"}
    /\ InitThrows(e)

-----------------------------------------------------------------------------
(* The destructors, and the end of a process.                              *)

\* ~VpdDbEnv closes SQLite, then deletes the lock.
CloseDb(e) ==
    /\ At(e, "ready")
    /\ Goto(e, "closing")
    /\ UNCHANGED <<lockfd, klock, fd0, fileVars, orderly>>

\* mutant: the object goes away with its descriptor open.
NeverCloses(n) == FALSE

\* The condition of unlockFileUpdate: descriptor 0 is not closed.
Closes(n) == n > 0

\* ~UpdateLock, called by ~VpdDbEnv, or by the caller whose lock it is
\* after initFromLock threw.
Unlock(e) ==
    /\ At(e, "closing") \/ (At(e, "failed") /\ e \in Borrowed)
    /\ klock' = IF Closes(lockfd[e]) /\ klock = Owner[e] THEN NoProc ELSE klock
    /\ SetFd(e, -1)
    /\ Goto(e, "none")
    /\ UNCHANGED <<fd0, fileVars, orderly>>

Of(p) == {e \in Env : Owner[e] = p}

\* The process ends at any point; the kernel closes its descriptors.
Exit(p) ==
    /\ "exit" \in Faults
    /\ klock = p \/ \E e \in Of(p) : pc[e] # "none"
    /\ klock' = IF klock = p THEN NoProc ELSE klock
    /\ pc' = [e \in Env |-> IF e \in Of(p) THEN "none" ELSE pc[e]]
    /\ lockfd' = [e \in Env |-> IF e \in Of(p) THEN -1 ELSE lockfd[e]]
    /\ fd0' = fd0 \cup ({p} \cap ClosedStdin)
    /\ orderly' = (orderly /\ \A e \in Of(p) : ~At(e, "create"))
    /\ UNCHANGED fileVars

\* new_vpddbenv (C) opens with sqlite3_open, which makes a missing file, and
\* knows nothing of the lock.
OpenByCApi ==
    /\ "capi" \in Faults
    /\ db = "absent"
    /\ db' = "empty"
    /\ orderly' = FALSE
    /\ UNCHANGED <<pc, lockfd, klock, fd0, found>>

-----------------------------------------------------------------------------
Progress(e) ==
    \/ OpenLockFile(e) \/ SetLkGranted(e) \/ SetLkDenied(e)
    \/ GetLkHeld(e) \/ GetLkFree(e)
    \/ InitStat(e) \/ DbOpen(e) \/ CreateTable(e) \/ CreateFails(e)
    \/ CloseDb(e) \/ Unlock(e)

Failure(e) == OpenFails(e) \/ SetLkWFails(e) \/ InitFails(e)

Next ==
    \/ \E e \in Env : Construct(e) \/ Progress(e) \/ SetLkWGranted(e) \/ Failure(e)
    \/ \E p \in Proc : Exit(p)
    \/ OpenByCApi

Spec == Init /\ [][Next]_vars

\* Every call returns, a user of an environment destroys it in the end, and
\* a waiter that the kernel could serve again and again is served.
FairSpec ==
    /\ Spec
    /\ \A e \in Env : WF_vars(Progress(e)) /\ SF_vars(SetLkWGranted(e))

-----------------------------------------------------------------------------
(* Properties.                                                             *)

\* An object that took the lock really has it in the kernel for as long as
\* it lives, whatever the other processes do: lose a race, fail, or die.
\* (It needs one object per process: see OnePerProcess.)
HolderHasKernelLock == \A e \in Env : Holds(e) => klock = Owner[e]

\* When no object slipped past the lock and none stopped half way, an open
\* environment has its table: CREATE TABLE runs for the one process that
\* made the file and for no other.
TableWhenReady == orderly => \A e \in Env : At(e, "ready") => db = "table"

\* The kernel lock does not outlive the object that took it, except in a
\* process whose lock file got descriptor 0.
LockHasHolder ==
    klock \in Proc \ ClosedStdin => \E e \in Of(klock) : Holds(e)

\* vpddbenv.hpp: "This class enforces the use of an BDB environment to give
\* us multi-process saftey": two processes never have the database open at
\* the same time.  (The F_GETLK race of GetLkFree breaks it.)
MultiProcessSafety ==
    \A e, f \in Env : At(e, "ready") /\ At(f, "ready") => Owner[e] = Owner[f]

\* The lock is held by a process that no longer has a use for it: its
\* constructor threw and kept it, or descriptor 0 was not closed.
Abandoned ==
    /\ klock # NoProc
    /\ \/ \E e \in Of(klock) : At(e, "failed") /\ e \notin Borrowed
       \/ \A e \in Of(klock) : ~Holds(e)

\* The UpdateLock constructor comes to an end whatever fails, however often
\* the other processes come before it: what a waiter waits for is a process
\* that releases the lock, or one that has thrown it away.
OpenTerminates ==
    \A e \in Env : pc[e] \in Locking ~> (pc[e] \notin Locking \/ Abandoned)

\* Each process opens at most one environment, as the tools of lsvpd do.
OnePerProcess == \A e, f \in Env : Owner[e] = Owner[f] => e = f

\* The system calls implement the lock service: at most one holder, and who
\* is not a holder came in as a guest.
Service == INSTANCE LockService WITH
    holders <- {e \in Env : Holds(e)},
    guests  <- {e \in Env : Unlocked(e)}
ImplementsService == Service!ServiceSpec

=============================================================================
