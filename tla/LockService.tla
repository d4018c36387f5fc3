---------------------------- MODULE LockService ----------------------------
(***************************************************************************)
(* What the update lock of a VPD database promises to the environments     *)
(* (VpdDbEnv objects) that are opened on it, whatever system calls it is   *)
(* made of: at most one environment is a holder.  An environment that the  *)
(* lock turns away is not stopped: it comes in as a guest, without the     *)
(* lock (the constructor logs "cannot lock" and returns).                  *)
(***************************************************************************)
EXTENDS FiniteSets

CONSTANT Env            \* the environments that processes may open

VARIABLES holders,      \* the open environments that hold the lock
          guests        \* the open environments that came in without it

svars == <<holders, guests>>

Inside(e) == e \in holders \cup guests

ServiceInit == holders = {} /\ guests = {}

\* The lock is granted: nobody else holds it.
Enter(e) ==
    /\ ~Inside(e)
    /\ holders = {}
    /\ holders' = {e}
    /\ UNCHANGED guests

\* The lock could not be taken, and the environment is opened all the same.
EnterUnlocked(e) ==
    /\ ~Inside(e)
    /\ guests' = guests \cup {e}
    /\ UNCHANGED holders

\* The environments of S are gone: one is destroyed, or its process ends.
Leave(S) ==
    /\ holders' = holders \ S
    /\ guests' = guests \ S

ServiceNext ==
    \/ \E e \in Env : Enter(e) \/ EnterUnlocked(e)
    \/ \E S \in SUBSET Env : Leave(S)

ServiceSpec == ServiceInit /\ [][ServiceNext]_svars
=============================================================================
