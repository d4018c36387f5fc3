-------------------------- MODULE UpdateLockProofs --------------------------
(***************************************************************************)
(* Theorems about UpdateLock for every set of processes, of objects and of *)
(* failures.  Typing and LockHasHolder hold of any assignment of objects   *)
(* to processes; the others assume one object per process, because the     *)
(* kernel's lock belongs to the process.                                   *)
(***************************************************************************)
EXTENDS UpdateLock, TLAPS

\* A descriptor is open while its lock is being asked for; descriptor 0 is
\* only ever found in a process that was started without it.
FdInv ==
    /\ \A e \in Env : pc[e] \in {"setlk", "getlk", "setlkw"} => lockfd[e] >= 0
    /\ \A e \in Env : lockfd[e] = 0 => Owner[e] \in ClosedStdin
    /\ fd0 \subseteq ClosedStdin

\* Everything that is assumed of the constants.
LEMMA Constants ==
    /\ NoProc \notin Proc /\ Owner \in [Env -> Proc]
    /\ \A e \in Env : Owner[e] # NoProc
  BY NoProcAssumption, OwnerAssumption

-----------------------------------------------------------------------------
\* Type correctness: no call of the system leaves the variables' types.
THEOREM Typing == Spec => []TypeOK
  <1>1. Init => TypeOK
    BY SubsetAssumption DEF Init, TypeOK, Phase
  <1>2. TypeOK /\ [Next]_vars => TypeOK'
    <2> SUFFICES ASSUME TypeOK, [Next]_vars PROVE TypeOK'
      OBVIOUS
    <2> USE Constants, SubsetAssumption
    <2> USE DEF TypeOK, Goto, SetFd, GiveUp, At, fileVars, Phase, Locking,
                Constructed
    <2>1. ASSUME NEW e \in Env, Construct(e) PROVE TypeOK'
      BY <2>1 DEF Construct
    <2>2. ASSUME NEW e \in Env, OpenLockFile(e) PROVE TypeOK'
      BY <2>2 DEF OpenLockFile, NewFd
    <2>3. ASSUME NEW e \in Env, SetLkGranted(e) \/ SetLkWGranted(e) PROVE TypeOK'
      BY <2>3 DEF SetLkGranted, SetLkWGranted, Granted
    <2>4. ASSUME NEW e \in Env, SetLkDenied(e) PROVE TypeOK'
      BY <2>4 DEF SetLkDenied
    <2>5. ASSUME NEW e \in Env, GetLkHeld(e) PROVE TypeOK'
      BY <2>5 DEF GetLkHeld
    <2>6. ASSUME NEW e \in Env, GetLkFree(e) \/ OpenFails(e) \/ SetLkWFails(e)
          PROVE TypeOK'
      BY <2>6 DEF GetLkFree, OpenFails, SetLkWFails, ProceedUnlocked
    <2>7. ASSUME NEW e \in Env, InitStat(e) PROVE TypeOK'
      BY <2>7 DEF InitStat, DbExists
    <2>8. ASSUME NEW e \in Env, DbOpen(e) PROVE TypeOK'
      BY <2>8 DEF DbOpen
    <2>9. ASSUME NEW e \in Env, CreateTable(e) PROVE TypeOK'
      BY <2>9 DEF CreateTable
    <2>10. ASSUME NEW e \in Env, CreateFails(e) \/ InitFails(e) PROVE TypeOK'
      BY <2>10 DEF CreateFails, InitFails, InitThrows
    <2>11. ASSUME NEW e \in Env, CloseDb(e) PROVE TypeOK'
      BY <2>11 DEF CloseDb
    <2>12. ASSUME NEW e \in Env, Unlock(e) PROVE TypeOK'
      BY <2>12 DEF Unlock
    <2>13. ASSUME NEW p \in Proc, Exit(p) PROVE TypeOK'
      BY <2>13 DEF Exit, Of
    <2>14. CASE OpenByCApi \/ UNCHANGED vars
      BY <2>14 DEF OpenByCApi, vars
    <2>15. QED
      BY <2>1, <2>2, <2>3, <2>4, <2>5, <2>6, <2>7, <2>8, <2>9, <2>10, <2>11,
         <2>12, <2>13, <2>14 DEF Next, Progress, Failure
  <1>3. QED
    BY <1>1, <1>2, PTL DEF Spec

-----------------------------------------------------------------------------
\* The descriptors: FdInv is inductive.
LEMMA Descriptors == Spec => []FdInv
  <1>1. Init => FdInv
    BY DEF Init, FdInv
  <1>2. TypeOK /\ FdInv /\ [Next]_vars => FdInv'
    <2> SUFFICES ASSUME TypeOK, FdInv, [Next]_vars PROVE FdInv'
      OBVIOUS
    <2> USE DEF TypeOK, FdInv, Goto, SetFd, GiveUp, At, fileVars
    <2>1. ASSUME NEW e \in Env, Construct(e) PROVE FdInv'
      BY <2>1 DEF Construct
    <2>2. ASSUME NEW e \in Env, OpenLockFile(e) PROVE FdInv'
      BY <2>2 DEF OpenLockFile, NewFd
    <2>3. ASSUME NEW e \in Env, SetLkGranted(e) \/ SetLkWGranted(e) PROVE FdInv'
      BY <2>3 DEF SetLkGranted, SetLkWGranted, Granted
    <2>4. ASSUME NEW e \in Env, SetLkDenied(e) PROVE FdInv'
      BY <2>4 DEF SetLkDenied
    <2>5. ASSUME NEW e \in Env, GetLkHeld(e) PROVE FdInv'
      BY <2>5 DEF GetLkHeld
    <2>6. ASSUME NEW e \in Env, GetLkFree(e) \/ OpenFails(e) \/ SetLkWFails(e)
          PROVE FdInv'
      BY <2>6 DEF GetLkFree, OpenFails, SetLkWFails, ProceedUnlocked
    <2>7. ASSUME NEW e \in Env, InitStat(e) \/ DbOpen(e) \/ CreateTable(e) \/ CloseDb(e)
          PROVE FdInv'
      BY <2>7 DEF InitStat, DbOpen, CreateTable, CloseDb
    <2>8. ASSUME NEW e \in Env, CreateFails(e) \/ InitFails(e) PROVE FdInv'
      BY <2>8 DEF CreateFails, InitFails, InitThrows
    <2>9. ASSUME NEW e \in Env, Unlock(e) PROVE FdInv'
      BY <2>9 DEF Unlock
    <2>10. ASSUME NEW p \in Proc, Exit(p) PROVE FdInv'
      BY <2>10 DEF Exit, Of
    <2>11. CASE OpenByCApi \/ UNCHANGED vars
      BY <2>11 DEF OpenByCApi, vars
    <2>12. QED
      BY <2>1, <2>2, <2>3, <2>4, <2>5, <2>6, <2>7, <2>8, <2>9, <2>10, <2>11
      DEF Next, Progress, Failure
  <1>3. QED
    BY <1>1, <1>2, Typing, PTL DEF Spec

\* The kernel lock does not outlive its holder, descriptor 0 apart.  An
\* object whose descriptor is 0 lives in a process of ClosedStdin, so when
\* any other object is destroyed its descriptor is closed.
THEOREM LockAccounted == Spec => []LockHasHolder
  <1>1. Init => LockHasHolder
    BY Constants DEF Init, LockHasHolder
  <1>2. TypeOK /\ FdInv /\ LockHasHolder /\ [Next]_vars => LockHasHolder'
    <2> SUFFICES ASSUME TypeOK, FdInv, LockHasHolder, [Next]_vars,
                        klock' \in Proc \ ClosedStdin
                 PROVE \E e \in Env : Owner[e] = klock' /\ Holds(e)'
      BY DEF LockHasHolder, Of
    <2> USE DEF Goto, SetFd, GiveUp, At, fileVars, Holds
    <2>1. ASSUME NEW e \in Env, Granted(e), pc[e] \in {"setlk", "setlkw"}
          PROVE \E f \in Env : Owner[f] = klock' /\ Holds(f)'
      <3>1. Owner[e] = klock' /\ Holds(e)'
        BY <2>1 DEF Granted, FdInv, TypeOK, Constructed
      <3>2. QED
        BY <3>1
    <2>2. CASE /\ klock' = klock
               /\ \A f \in Env : Holds(f) => Holds(f)'
      BY <2>2 DEF LockHasHolder, Of
    <2> DEFINE Kept == \A f \in Env : Holds(f) => Holds(f)'
    <2>3. ASSUME NEW e \in Env, Construct(e) PROVE klock' = klock /\ Kept
      BY <2>3 DEF Construct, TypeOK, Constructed
    <2>4. ASSUME NEW e \in Env, OpenLockFile(e) PROVE klock' = klock /\ Kept
      BY <2>4 DEF OpenLockFile, NewFd, TypeOK, Constructed
    <2>5. ASSUME NEW e \in Env, SetLkDenied(e) \/ GetLkHeld(e)
          PROVE klock' = klock /\ Kept
      BY <2>5 DEF SetLkDenied, GetLkHeld, TypeOK, Constructed
    <2>6. ASSUME NEW e \in Env, GetLkFree(e) \/ OpenFails(e) \/ SetLkWFails(e)
          PROVE klock' = klock /\ Kept
      BY <2>6 DEF GetLkFree, OpenFails, SetLkWFails, ProceedUnlocked, TypeOK,
                  Constructed
    <2>7. ASSUME NEW e \in Env, InitStat(e) \/ DbOpen(e) \/ CreateTable(e) \/ CloseDb(e)
          PROVE klock' = klock /\ Kept
      BY <2>7 DEF InitStat, DbOpen, CreateTable, CloseDb, TypeOK, Constructed
    <2>8. ASSUME NEW e \in Env, CreateFails(e) \/ InitFails(e)
          PROVE klock' = klock /\ Kept
      BY <2>8 DEF CreateFails, InitFails, InitThrows, TypeOK, Constructed
    <2>9. ASSUME NEW e \in Env, Unlock(e)
          PROVE \E f \in Env : Owner[f] = klock' /\ Holds(f)'
      <3>1. klock' = klock
        BY <2>9, Constants DEF Unlock
      <3>2. PICK f \in Env : Owner[f] = klock /\ Holds(f)
        BY <3>1 DEF LockHasHolder, Of
      <3>3. lockfd[f] > 0
        BY <3>1, <3>2 DEF FdInv, TypeOK
      <3>4. f # e
        BY <2>9, <3>1, <3>2, <3>3, Constants DEF Unlock, Closes
      <3>5. Holds(f)'
        BY <2>9, <3>2, <3>4 DEF Unlock, TypeOK
      <3>6. QED
        BY <3>1, <3>2, <3>5
    <2>10. ASSUME NEW p \in Proc, Exit(p)
           PROVE \E f \in Env : Owner[f] = klock' /\ Holds(f)'
      <3>1. klock' = klock /\ klock # p
        BY <2>10, Constants DEF Exit
      <3>2. PICK f \in Env : Owner[f] = klock /\ Holds(f)
        BY <3>1 DEF LockHasHolder, Of
      <3>3. Holds(f)'
        BY <2>10, <3>1, <3>2 DEF Exit, Of, TypeOK
      <3>4. QED
        BY <3>1, <3>2, <3>3
    <2>11. CASE OpenByCApi \/ UNCHANGED vars
      BY <2>11, <2>2 DEF OpenByCApi, vars
    <2>12. QED
      BY <2>1, <2>2, <2>3, <2>4, <2>5, <2>6, <2>7, <2>8, <2>9, <2>10, <2>11
      DEF Next, Progress, Failure, SetLkGranted, SetLkWGranted
  <1>3. QED
    BY <1>1, <1>2, Typing, Descriptors, PTL DEF Spec

-----------------------------------------------------------------------------
\* With one object per process, whoever took the lock has it: nobody else's
\* grant, error path, destructor or death takes it away.
THEOREM HolderSafe ==
  ASSUME OnePerProcess
  PROVE  Spec => []HolderHasKernelLock
  <1>1. Init => HolderHasKernelLock
    BY DEF Init, HolderHasKernelLock, Holds, Constructed
  <1>2. TypeOK /\ HolderHasKernelLock /\ [Next]_vars => HolderHasKernelLock'
    <2> SUFFICES ASSUME TypeOK, HolderHasKernelLock, [Next]_vars,
                        NEW f \in Env, Holds(f)'
                 PROVE klock' = Owner[f]
      BY DEF HolderHasKernelLock
    <2> USE DEF Goto, SetFd, GiveUp, At, fileVars, Holds
    <2>1. ASSUME NEW e \in Env, SetLkGranted(e) \/ SetLkWGranted(e)
          PROVE klock' = Owner[f]
      <3>1. CASE f = e
        BY <2>1, <3>1 DEF SetLkGranted, SetLkWGranted, Granted
      <3>2. CASE f # e
        <4>1. Holds(f)
          BY <2>1, <3>2 DEF SetLkGranted, SetLkWGranted, Granted, TypeOK
        <4>2. klock = Owner[f]
          BY <4>1 DEF HolderHasKernelLock
        <4>3. QED
          BY <2>1, <4>2, Constants
          DEF SetLkGranted, SetLkWGranted, Granted, Compatible
      <3>3. QED
        BY <3>1, <3>2
    <2>2. CASE klock' = klock /\ Holds(f)
      BY <2>2 DEF HolderHasKernelLock
    <2>3. ASSUME NEW e \in Env, Construct(e) PROVE klock' = klock /\ Holds(f)
      BY <2>3 DEF Construct, TypeOK, Constructed
    <2>4. ASSUME NEW e \in Env, OpenLockFile(e) PROVE klock' = klock /\ Holds(f)
      BY <2>4 DEF OpenLockFile, NewFd, TypeOK, Constructed
    <2>5. ASSUME NEW e \in Env, SetLkDenied(e) \/ GetLkHeld(e)
          PROVE klock' = klock /\ Holds(f)
      BY <2>5 DEF SetLkDenied, GetLkHeld, TypeOK, Constructed
    <2>6. ASSUME NEW e \in Env, GetLkFree(e) \/ OpenFails(e) \/ SetLkWFails(e)
          PROVE klock' = klock /\ Holds(f)
      BY <2>6 DEF GetLkFree, OpenFails, SetLkWFails, ProceedUnlocked, TypeOK
    <2>7. ASSUME NEW e \in Env, InitStat(e) \/ DbOpen(e) \/ CreateTable(e) \/ CloseDb(e)
          PROVE klock' = klock /\ Holds(f)
      BY <2>7 DEF InitStat, DbOpen, CreateTable, CloseDb, TypeOK, Constructed
    <2>8. ASSUME NEW e \in Env, CreateFails(e) \/ InitFails(e)
          PROVE klock' = klock /\ Holds(f)
      BY <2>8 DEF CreateFails, InitFails, InitThrows, TypeOK, Constructed
    <2>9. ASSUME NEW e \in Env, Unlock(e) PROVE klock' = Owner[f]
      <3>1. f # e /\ Holds(f)
        BY <2>9 DEF Unlock, TypeOK, Constructed
      <3>2. klock = Owner[f] /\ Owner[f] # Owner[e]
        BY <3>1, OnePerProcess DEF HolderHasKernelLock, OnePerProcess
      <3>3. QED
        BY <2>9, <3>2 DEF Unlock
    <2>10. ASSUME NEW p \in Proc, Exit(p) PROVE klock' = Owner[f]
      <3>1. Owner[f] # p /\ Holds(f)
        BY <2>10 DEF Exit, Of, TypeOK, Constructed
      <3>2. QED
        BY <2>10, <3>1 DEF Exit, HolderHasKernelLock
    <2>11. CASE OpenByCApi \/ UNCHANGED vars
      BY <2>11, <2>2 DEF OpenByCApi, vars
    <2>12. QED
      BY <2>1, <2>2, <2>3, <2>4, <2>5, <2>6, <2>7, <2>8, <2>9, <2>10, <2>11
      DEF Next, Progress, Failure
  <1>3. QED
    BY <1>1, <1>2, Typing, PTL DEF Spec

-----------------------------------------------------------------------------
\* The lock service is implemented: a granted F_SETLK(W) is Enter, a
\* constructor that proceeds without the lock EnterUnlocked, a destructor or
\* the end of a process Leave, and every other step leaves the set of holders
\* and the set of guests alone.
Inside == {e \in Env : Holds(e)}
Guests == {e \in Env : Unlocked(e)}

\* A step that keeps every object inside or outside, and its descriptor
\* while inside, is a stutter of the service.
LEMMA Stutter ==
  ASSUME \A e \in Env : (Holds(e) <=> Holds(e)') /\ (Unlocked(e) <=> Unlocked(e)')
  PROVE  Inside' = Inside /\ Guests' = Guests
  BY DEF Inside, Guests

THEOREM ServiceImplemented ==
  ASSUME OnePerProcess
  PROVE  Spec => ImplementsService
  <1>1. Init => Service!ServiceInit
    BY DEF Init, Service!ServiceInit, Holds, Unlocked, Constructed
  <1>2. TypeOK /\ FdInv /\ HolderHasKernelLock /\ [Next]_vars
          => [Service!ServiceNext]_(Service!svars)
    <2> SUFFICES ASSUME TypeOK, FdInv, HolderHasKernelLock, [Next]_vars
                 PROVE  \/ Service!ServiceNext
                        \/ Inside' = Inside /\ Guests' = Guests
      BY DEF Service!svars, Inside, Guests
    <2> USE DEF Goto, SetFd, GiveUp, At, fileVars, Holds, Unlocked
    <2>1. ASSUME NEW e \in Env, SetLkGranted(e) \/ SetLkWGranted(e)
          PROVE Service!ServiceNext
      <3>1. Granted(e) /\ pc[e] \in {"setlk", "setlkw"} /\ lockfd[e] >= 0
        BY <2>1 DEF SetLkGranted, SetLkWGranted, FdInv
      <3>2. \A f \in Env : ~Holds(f)
        <4> SUFFICES ASSUME NEW f \in Env, Holds(f) PROVE FALSE
          OBVIOUS
        <4>1. klock = Owner[f]
          BY DEF HolderHasKernelLock
        <4>2. Owner[f] = Owner[e]
          BY <3>1, <4>1, Constants DEF Granted, Compatible
        <4>3. QED
          BY <3>1, <4>2, OnePerProcess DEF OnePerProcess, Constructed
      <3>3. \A f \in Env : Holds(f)' <=> f = e
        BY <3>1, <3>2 DEF Granted, TypeOK, Constructed
      <3>4. \A f \in Env : Unlocked(f)' <=> Unlocked(f)
        BY <3>1 DEF Granted, TypeOK, Constructed
      <3>5. ~Unlocked(e)
        BY <3>1
      <3>6. Service!Enter(e)
        BY <3>2, <3>3, <3>4, <3>5 DEF Service!Enter, Service!Inside
      <3>7. QED
        BY <3>6 DEF Service!ServiceNext
    <2>2. ASSUME NEW e \in Env, GetLkFree(e) \/ OpenFails(e) \/ SetLkWFails(e)
          PROVE Service!ServiceNext
      <3>1. ProceedUnlocked(e) /\ pc[e] \notin Constructed
        BY <2>2 DEF GetLkFree, OpenFails, SetLkWFails, Constructed
      <3>2. \A f \in Env : Holds(f)' <=> Holds(f)
        BY <3>1 DEF ProceedUnlocked, TypeOK
      <3>3. \A f \in Env : Unlocked(f)' <=> (f = e \/ Unlocked(f))
        BY <3>1 DEF ProceedUnlocked, TypeOK, Constructed
      <3>4. Service!EnterUnlocked(e)
        BY <3>1, <3>2, <3>3 DEF Service!EnterUnlocked, Service!Inside
      <3>5. QED
        BY <3>4 DEF Service!ServiceNext
    <2>3. ASSUME NEW e \in Env, Unlock(e) PROVE Service!ServiceNext
      <3>1. \A f \in Env : Holds(f)' <=> (f # e /\ Holds(f))
        BY <2>3 DEF Unlock, TypeOK, Constructed
      <3>2. \A f \in Env : Unlocked(f)' <=> (f # e /\ Unlocked(f))
        BY <2>3 DEF Unlock, TypeOK, Constructed
      <3>3. Service!Leave({e})
        BY <3>1, <3>2 DEF Service!Leave
      <3>4. QED
        BY <3>3 DEF Service!ServiceNext
    <2>4. ASSUME NEW p \in Proc, Exit(p) PROVE Service!ServiceNext
      <3>1. \A f \in Env : Holds(f)' <=> (f \notin Of(p) /\ Holds(f))
        BY <2>4 DEF Exit, TypeOK, Constructed
      <3>2. \A f \in Env : Unlocked(f)' <=> (f \notin Of(p) /\ Unlocked(f))
        BY <2>4 DEF Exit, TypeOK, Constructed
      <3>3. Service!Leave(Of(p))
        BY <3>1, <3>2 DEF Service!Leave
      <3>4. QED
        BY <3>3 DEF Service!ServiceNext, Of
    <2> DEFINE Same == \A f \in Env : /\ Holds(f) <=> Holds(f)'
                                      /\ Unlocked(f) <=> Unlocked(f)'
    <2>5. ASSUME NEW e \in Env,
                 Construct(e) \/ OpenLockFile(e) \/ SetLkDenied(e) \/ GetLkHeld(e)
          PROVE Same
      BY <2>5 DEF Construct, OpenLockFile, SetLkDenied, GetLkHeld, TypeOK, Constructed
    <2>6. ASSUME NEW e \in Env,
                 InitStat(e) \/ DbOpen(e) \/ CreateTable(e) \/ CloseDb(e)
          PROVE Same
      BY <2>6 DEF InitStat, DbOpen, CreateTable, CloseDb, TypeOK, Constructed
    <2>7. ASSUME NEW e \in Env, CreateFails(e) \/ InitFails(e) PROVE Same
      BY <2>7 DEF CreateFails, InitFails, InitThrows, TypeOK, Constructed
    <2>8. CASE OpenByCApi \/ UNCHANGED vars
      BY <2>8 DEF OpenByCApi, vars, Inside, Guests
    <2>9. QED
      BY <2>1, <2>2, <2>3, <2>4, <2>5, <2>6, <2>7, <2>8, Stutter
      DEF Next, Progress, Failure
  <1>3. QED
    BY <1>1, <1>2, Typing, Descriptors, HolderSafe, PTL
    DEF Spec, ImplementsService, Service!ServiceSpec

-----------------------------------------------------------------------------
\* As long as the history is orderly, at most one object is constructed, and
\* the file and its table are in step with that object's initialisation.
OrderInv == orderly =>
    /\ \A e \in Env : ~Unlocked(e)
    /\ db = "empty" => \E e \in Env : pc[e] = "create"
    /\ \A e \in Env : pc[e] = "dbopen" => (found[e] <=> db = "table")
    /\ \A e \in Env : pc[e] = "create" => db = "empty"
    /\ \A e \in Env : pc[e] = "ready" => db = "table"

\* Two constructed objects would both hold the lock.
LEMMA OneConstructed ==
  ASSUME OnePerProcess, TypeOK, HolderHasKernelLock, OrderInv, orderly,
         NEW e \in Env, NEW f \in Env,
         pc[e] \in Constructed, pc[f] \in Constructed
  PROVE  e = f
  <1>1. lockfd[e] >= 0 /\ lockfd[f] >= 0
    BY DEF OrderInv, Unlocked, TypeOK
  <1>2. Owner[e] = Owner[f]
    BY <1>1 DEF HolderHasKernelLock, Holds
  <1>3. QED
    BY <1>2 DEF OnePerProcess

\* CREATE TABLE is run by the one object that made the file: while the
\* history is orderly, every open environment finds its table.
THEOREM TableThere ==
  ASSUME OnePerProcess
  PROVE  Spec => []TableWhenReady
  <1>1. Init => OrderInv
    BY DEF Init, OrderInv, Unlocked, Constructed
  <1>2. TypeOK /\ FdInv /\ HolderHasKernelLock /\ OrderInv /\ [Next]_vars => OrderInv'
    <2> SUFFICES ASSUME TypeOK, FdInv, HolderHasKernelLock, OrderInv, [Next]_vars
                 PROVE OrderInv'
      OBVIOUS
    <2> USE DEF Goto, SetFd, GiveUp, At, fileVars, Unlocked
    <2>1. ASSUME NEW e \in Env, Construct(e) PROVE OrderInv'
      BY <2>1 DEF Construct, TypeOK, OrderInv, Constructed
    <2>2. ASSUME NEW e \in Env, OpenLockFile(e) PROVE OrderInv'
      BY <2>2 DEF OpenLockFile, NewFd, TypeOK, OrderInv, Constructed
    <2>3. ASSUME NEW e \in Env, SetLkGranted(e) \/ SetLkWGranted(e) PROVE OrderInv'
      <3>1. Granted(e) /\ lockfd[e] >= 0 /\ pc[e] \in {"setlk", "setlkw"}
        BY <2>3 DEF SetLkGranted, SetLkWGranted, FdInv
      <3>2. \A f \in Env : Unlocked(f)' => Unlocked(f)
        BY <3>1 DEF Granted, TypeOK
      <3>3. \A f \in Env : pc'[f] = IF f = e THEN "locked" ELSE pc[f]
        BY <3>1 DEF Granted, TypeOK
      <3>4. UNCHANGED <<db, found, orderly>>
        BY <3>1 DEF Granted
      <3>5. QED
        BY <3>1, <3>2, <3>3, <3>4 DEF OrderInv
    <2>4. ASSUME NEW e \in Env, SetLkDenied(e) \/ GetLkHeld(e) PROVE OrderInv'
      BY <2>4 DEF SetLkDenied, GetLkHeld, TypeOK, OrderInv, Constructed
    <2>5. ASSUME NEW e \in Env, GetLkFree(e) \/ OpenFails(e) \/ SetLkWFails(e)
          PROVE OrderInv'
      BY <2>5 DEF GetLkFree, OpenFails, SetLkWFails, ProceedUnlocked, OrderInv
    <2>6. ASSUME NEW e \in Env, InitStat(e), orderly PROVE OrderInv'
      <3>1. \A f \in Env : f # e => pc[f] \notin Constructed
        BY <2>6, OneConstructed DEF InitStat, Constructed
      <3>2. db # "empty"
        BY <2>6, <3>1 DEF InitStat, OrderInv, Constructed
      <3>3. QED
        BY <2>6, <3>1, <3>2 DEF InitStat, DbExists, TypeOK, OrderInv, Constructed
    <2>7. ASSUME NEW e \in Env, DbOpen(e), orderly PROVE OrderInv'
      <3>1. \A f \in Env : f # e => pc[f] \notin Constructed
        BY <2>7, OneConstructed DEF DbOpen, Constructed
      <3>2. db # "empty"
        BY <2>7, <3>1 DEF DbOpen, OrderInv, Constructed
      <3>3. found[e] <=> db = "table"
        BY <2>7 DEF DbOpen, OrderInv
      <3>4. QED
        BY <2>7, <3>1, <3>2, <3>3 DEF DbOpen, TypeOK, OrderInv, Constructed
    <2>8. ASSUME NEW e \in Env, CreateTable(e), orderly PROVE OrderInv'
      <3>1. \A f \in Env : f # e => pc[f] \notin Constructed
        BY <2>8, OneConstructed DEF CreateTable, Constructed
      <3>2. QED
        BY <2>8, <3>1 DEF CreateTable, TypeOK, OrderInv, Constructed
    <2>9. ASSUME NEW e \in Env, CreateFails(e) \/ InitFails(e) PROVE OrderInv'
      BY <2>9 DEF CreateFails, InitFails, InitThrows, TypeOK, OrderInv, Constructed
    <2>10. ASSUME NEW e \in Env, CloseDb(e) PROVE OrderInv'
      BY <2>10 DEF CloseDb, TypeOK, OrderInv, Constructed
    <2>11. ASSUME NEW e \in Env, Unlock(e) PROVE OrderInv'
      BY <2>11 DEF Unlock, TypeOK, OrderInv, Constructed
    <2>12. ASSUME NEW p \in Proc, Exit(p) PROVE OrderInv'
      BY <2>12 DEF Exit, Of, TypeOK, OrderInv, Constructed
    <2>13. CASE OpenByCApi \/ UNCHANGED vars
      BY <2>13 DEF OpenByCApi, vars, OrderInv, Constructed
    <2>14. CASE ~orderly
      <3>1. ~orderly'
        BY <2>14 DEF Next, Progress, Failure, vars, Construct, OpenLockFile,
             SetLkGranted, SetLkWGranted, Granted, SetLkDenied, GetLkHeld,
             GetLkFree, OpenFails, SetLkWFails, ProceedUnlocked, InitStat,
             DbOpen, CreateTable, CreateFails, InitFails, InitThrows, CloseDb,
             Unlock, Exit, OpenByCApi
      <3>2. QED
        BY <3>1 DEF OrderInv
    <2>15. QED
      BY <2>1, <2>2, <2>3, <2>4, <2>5, <2>6, <2>7, <2>8, <2>9, <2>10, <2>11,
         <2>12, <2>13, <2>14 DEF Next, Progress, Failure
  <1>3. OrderInv => TableWhenReady
    BY DEF OrderInv, TableWhenReady, At
  <1>4. QED
    BY <1>1, <1>2, <1>3, Typing, Descriptors, HolderSafe, PTL DEF Spec
=============================================================================
