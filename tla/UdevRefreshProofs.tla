------------------------- MODULE UdevRefreshProofs -------------------------
(***************************************************************************)
(* Theorems about UdevRefresh for any number of clients, any bounds of the *)
(* clock and of the events, and any set of failures.                       *)
(***************************************************************************)
EXTENDS UdevRefresh, TLAPS

-----------------------------------------------------------------------------
\* Type correctness: no step leaves the variables' types.
THEOREM Typing == Spec => []TypeOK
  <1>1. Init => TypeOK
    BY BoundAssumption DEF Init, TypeOK
  <1>2. TypeOK /\ [Next]_vars => TypeOK'
    <2> SUFFICES ASSUME TypeOK, [Next]_vars PROVE TypeOK'
      OBVIOUS
    <2> USE BoundAssumption
    <2> USE DEF TypeOK, At, Goto, ChildGoto, Saw, Seen, LetOff, Release, world, file
    <2>1. CASE Tick
      BY <2>1 DEF Tick
    <2>2. CASE DeviceEvent
      <3>1. events' \in 0 .. MaxEvents /\ udevTime' \in 0 .. MaxTime
        BY <2>2 DEF DeviceEvent
      <3>2. 0 .. events \subseteq 0 .. events' /\ 1 .. events \subseteq 1 .. events'
        BY <2>2 DEF DeviceEvent
      <3>3. /\ dbEvents' \in 0 .. events'
            /\ lost' \subseteq 1 .. events' /\ torn' \subseteq 1 .. events'
        BY <2>2, <3>2 DEF DeviceEvent
      <3>4. /\ scanned' \in [Client -> 0 .. events']
            /\ need' \in [Client -> 0 .. events']
        BY <2>2, <3>2 DEF DeviceEvent
      <3>5. QED
        BY <2>2, <3>1, <3>3, <3>4 DEF DeviceEvent
    <2>3. ASSUME NEW c \in Client, StatUdev(c) PROVE TypeOK'
      BY <2>3 DEF StatUdev
    <2>4. ASSUME NEW c \in Client, StatDb(c) PROVE TypeOK'
      BY <2>4 DEF StatDb
    <2>5. ASSUME NEW c \in Client, StatDbFails(c) PROVE TypeOK'
      BY <2>5 DEF StatDbFails
    <2>6. ASSUME NEW c \in Client, Fork(c) PROVE TypeOK'
      BY <2>6 DEF Fork
    <2>7. ASSUME NEW c \in Client, ForkFails(c) PROVE TypeOK'
      BY <2>7 DEF ForkFails
    <2>8. ASSUME NEW c \in Client, Wait(c) PROVE TypeOK'
      BY <2>8 DEF Wait
    <2>9. ASSUME NEW c \in Client, WaitFails(c) PROVE TypeOK'
      BY <2>9 DEF WaitFails
    <2>10. ASSUME NEW c \in Client, Open(c) PROVE TypeOK'
      BY <2>10 DEF Open
    <2>11. ASSUME NEW c \in Client, OpenUnlocked(c) PROVE TypeOK'
      BY <2>11 DEF OpenUnlocked
    <2>12. ASSUME NEW c \in Client, OpenFails(c) PROVE TypeOK'
      BY <2>12 DEF OpenFails
    <2>13. ASSUME NEW c \in Client, InitFails(c) PROVE TypeOK'
      BY <2>13 DEF InitFails
    <2>14. ASSUME NEW c \in Client, Close(c) PROVE TypeOK'
      BY <2>14 DEF Close
    <2>15. ASSUME NEW c \in Client, Exit(c) PROVE TypeOK'
      BY <2>15 DEF Exit
    <2>16. ASSUME NEW c \in Client, ExecFails(c) PROVE TypeOK'
      BY <2>16 DEF ExecFails
    <2>17. ASSUME NEW c \in Client, UpdateLock(c) PROVE TypeOK'
      BY <2>17 DEF UpdateLock
    <2>18. ASSUME NEW c \in Client, UpdateUnlocked(c) PROVE TypeOK'
      BY <2>18 DEF UpdateUnlocked
    <2>19. ASSUME NEW c \in Client, Scan(c) PROVE TypeOK'
      BY <2>19 DEF Scan
    <2>20. ASSUME NEW c \in Client, Write(c) PROVE TypeOK'
      BY <2>20 DEF Write
    <2>21. ASSUME NEW c \in Client, Die(c) PROVE TypeOK'
      <3>1. /\ dbTime' \in 0 .. MaxTime /\ dbEvents' \in 0 .. events
            /\ torn' \subseteq 1 .. events
        BY <2>21 DEF Die
      <3>2. /\ child' \in [Client -> {"none", "started", "scan", "write", "end"}]
            /\ scanned' \in [Client -> 0 .. events]
        BY <2>21 DEF Die
      <3>3. lock' \in {lock, Free}
        BY <2>21 DEF Die
      <3>4. UNCHANGED <<now, events, udevTime, lost, pc, seen, need>>
        BY <2>21 DEF Die
      <3>5. QED
        BY <3>1, <3>2, <3>3, <3>4
    <2>22. ASSUME NEW c \in Client, Gone(c) PROVE TypeOK'
      BY <2>22 DEF Gone
    <2>23. CASE UNCHANGED vars
      BY <2>23 DEF vars
    <2>24. QED
      BY <2>1, <2>2, <2>3, <2>4, <2>5, <2>6, <2>7, <2>8, <2>9, <2>10,
         <2>11, <2>12, <2>13, <2>14, <2>15, <2>16, <2>17, <2>18,
         <2>19, <2>20, <2>21, <2>22, <2>23
      DEF Next, Construct, Vpdupdate, Failure
  <1>3. QED
    BY <1>1, <1>2, PTL DEF Spec
-----------------------------------------------------------------------------
(* Freshness.                                                              *)

\* No file is newer than the clock.
TimeInv == udevTime <= now /\ dbTime <= now

\* An event that came after an updater's look at the devices is lost while
\* that updater has still to write.
WindowInv ==
    \A c \in Client : child[c] = "write" =>
        \A n \in 1 .. events : n <= scanned[c] \/ n \in lost

\* Event n is in the database, or in one of the three windows.
Accounted(n) == n <= dbEvents \/ n \in lost \/ n \in torn

\* EventsNoticed, event by event.
NoticedInv == udevTime > dbTime \/ \A n \in 1 .. events : Accounted(n)

NoticeInv == TimeInv /\ WindowInv /\ NoticedInv

LEMMA Noticing == Spec => []NoticeInv
  <1>1. Init => NoticeInv
    BY DEF Init, NoticeInv, TimeInv, WindowInv, NoticedInv
  <1>2. TypeOK /\ NoticeInv /\ [Next]_vars => NoticeInv'
    <2> SUFFICES ASSUME TypeOK, NoticeInv, [Next]_vars PROVE NoticeInv'
      OBVIOUS
    <2> USE BoundAssumption
    <2> USE DEF TypeOK, NoticeInv, TimeInv, WindowInv, NoticedInv, Accounted,
                LostNow, At, Goto, ChildGoto, Saw, Seen, LetOff, Release,
                world, file
    <2>1. CASE Tick
      BY <2>1 DEF Tick
    <2>2. CASE DeviceEvent
      BY <2>2 DEF DeviceEvent
    <2>3. ASSUME NEW c \in Client, StatUdev(c) PROVE NoticeInv'
      BY <2>3 DEF StatUdev
    <2>4. ASSUME NEW c \in Client, StatDb(c) PROVE NoticeInv'
      BY <2>4 DEF StatDb
    <2>5. ASSUME NEW c \in Client, StatDbFails(c) PROVE NoticeInv'
      BY <2>5 DEF StatDbFails
    <2>6. ASSUME NEW c \in Client, Fork(c) PROVE NoticeInv'
      BY <2>6 DEF Fork
    <2>7. ASSUME NEW c \in Client, ForkFails(c) PROVE NoticeInv'
      BY <2>7 DEF ForkFails
    <2>8. ASSUME NEW c \in Client, Wait(c) PROVE NoticeInv'
      BY <2>8 DEF Wait
    <2>9. ASSUME NEW c \in Client, WaitFails(c) PROVE NoticeInv'
      BY <2>9 DEF WaitFails
    <2>10. ASSUME NEW c \in Client, Open(c) PROVE NoticeInv'
      BY <2>10 DEF Open
    <2>11. ASSUME NEW c \in Client, OpenUnlocked(c) PROVE NoticeInv'
      BY <2>11 DEF OpenUnlocked
    <2>12. ASSUME NEW c \in Client, OpenFails(c) PROVE NoticeInv'
      BY <2>12 DEF OpenFails
    <2>13. ASSUME NEW c \in Client, InitFails(c) PROVE NoticeInv'
      BY <2>13 DEF InitFails
    <2>14. ASSUME NEW c \in Client, Close(c) PROVE NoticeInv'
      BY <2>14 DEF Close
    <2>15. ASSUME NEW c \in Client, Exit(c) PROVE NoticeInv'
      BY <2>15 DEF Exit
    <2>16. ASSUME NEW c \in Client, ExecFails(c) PROVE NoticeInv'
      BY <2>16 DEF ExecFails
    <2>17. ASSUME NEW c \in Client, UpdateLock(c) PROVE NoticeInv'
      BY <2>17 DEF UpdateLock
    <2>18. ASSUME NEW c \in Client, UpdateUnlocked(c) PROVE NoticeInv'
      BY <2>18 DEF UpdateUnlocked
    <2>19. ASSUME NEW c \in Client, Scan(c) PROVE NoticeInv'
      BY <2>19 DEF Scan
    <2>20. ASSUME NEW c \in Client, Write(c) PROVE NoticeInv'
      BY <2>20 DEF Write
    <2>21. ASSUME NEW c \in Client, Die(c) PROVE NoticeInv'
      BY <2>21 DEF Die
    <2>22. ASSUME NEW c \in Client, Gone(c) PROVE NoticeInv'
      BY <2>22 DEF Gone
    <2>23. CASE UNCHANGED vars
      BY <2>23 DEF vars
    <2>24. QED
      BY <2>1, <2>2, <2>3, <2>4, <2>5, <2>6, <2>7, <2>8, <2>9, <2>10,
         <2>11, <2>12, <2>13, <2>14, <2>15, <2>16, <2>17, <2>18,
         <2>19, <2>20, <2>21, <2>22, <2>23
      DEF Next, Construct, Vpdupdate, Failure
  <1>3. QED
    BY <1>1, <1>2, Typing, PTL DEF Spec

\* The comparison of the two times misses the events of the three windows
\* only.
THEOREM NothingElseMissed == Spec => []EventsNoticed
  <1>1. TypeOK /\ NoticeInv => EventsNoticed
    BY DEF TypeOK, NoticeInv, NoticedInv, Accounted, EventsNoticed, Missing
  <1>2. QED
    BY <1>1, Typing, Noticing, PTL

-----------------------------------------------------------------------------
\* Every event before the client's first stat is in the database, or in one
\* of the windows.
Fresh(c) == \A n \in 1 .. need[c] : Accounted(n)

\* How the constructor gets there: either the times already show that there
\* is something to refresh, or there is nothing; and an updater that starts
\* after the stat looks at the devices after it.
FreshInv ==
    /\ udevTime = 0 => events = 0
    /\ \A c \in Client :
        /\ At(c, "statdb") => seen[c] > dbTime \/ Fresh(c)
        /\ At(c, "wait") /\ child[c] = "write" => need[c] <= scanned[c]
        /\ At(c, "wait") /\ child[c] = "end" => Fresh(c)
        /\ At(c, "wait") => child[c] # "none"
        /\ At(c, "open") \/ At(c, "ready") => Fresh(c)

LEMMA Freshness == Spec => []FreshInv
  <1>1. Init => FreshInv
    BY DEF Init, FreshInv, At
  <1>2. TypeOK /\ NoticeInv /\ FreshInv /\ [Next]_vars => FreshInv'
    <2> SUFFICES ASSUME TypeOK, NoticeInv, FreshInv, [Next]_vars PROVE FreshInv'
      OBVIOUS
    <2> USE BoundAssumption
    <2> USE DEF TypeOK, NoticeInv, TimeInv, WindowInv, NoticedInv, FreshInv,
                Fresh, Accounted, LostNow, Outdated, Reaped, At, Goto,
                ChildGoto, Saw, Seen, LetOff, Release, world, file
    <2>1. CASE Tick
      BY <2>1 DEF Tick
    <2>2. CASE DeviceEvent
      BY <2>2 DEF DeviceEvent
    <2>3. ASSUME NEW c \in Client, StatUdev(c) PROVE FreshInv'
      BY <2>3 DEF StatUdev
    <2>4. ASSUME NEW c \in Client, StatDb(c) PROVE FreshInv'
      BY <2>4 DEF StatDb
    <2>5. ASSUME NEW c \in Client, StatDbFails(c) PROVE FreshInv'
      BY <2>5 DEF StatDbFails
    <2>6. ASSUME NEW c \in Client, Fork(c) PROVE FreshInv'
      BY <2>6 DEF Fork
    <2>7. ASSUME NEW c \in Client, ForkFails(c) PROVE FreshInv'
      BY <2>7 DEF ForkFails
    <2>8. ASSUME NEW c \in Client, Wait(c) PROVE FreshInv'
      BY <2>8 DEF Wait
    <2>9. ASSUME NEW c \in Client, WaitFails(c) PROVE FreshInv'
      BY <2>9 DEF WaitFails
    <2>10. ASSUME NEW c \in Client, Open(c) PROVE FreshInv'
      BY <2>10 DEF Open
    <2>11. ASSUME NEW c \in Client, OpenUnlocked(c) PROVE FreshInv'
      BY <2>11 DEF OpenUnlocked
    <2>12. ASSUME NEW c \in Client, OpenFails(c) PROVE FreshInv'
      BY <2>12 DEF OpenFails
    <2>13. ASSUME NEW c \in Client, InitFails(c) PROVE FreshInv'
      BY <2>13 DEF InitFails
    <2>14. ASSUME NEW c \in Client, Close(c) PROVE FreshInv'
      BY <2>14 DEF Close
    <2>15. ASSUME NEW c \in Client, Exit(c) PROVE FreshInv'
      BY <2>15 DEF Exit
    <2>16. ASSUME NEW c \in Client, ExecFails(c) PROVE FreshInv'
      BY <2>16 DEF ExecFails
    <2>17. ASSUME NEW c \in Client, UpdateLock(c) PROVE FreshInv'
      BY <2>17 DEF UpdateLock
    <2>18. ASSUME NEW c \in Client, UpdateUnlocked(c) PROVE FreshInv'
      BY <2>18 DEF UpdateUnlocked
    <2>19. ASSUME NEW c \in Client, Scan(c) PROVE FreshInv'
      BY <2>19 DEF Scan
    <2>20. ASSUME NEW c \in Client, Write(c) PROVE FreshInv'
      BY <2>20 DEF Write
    <2>21. ASSUME NEW c \in Client, Die(c) PROVE FreshInv'
      <3>1. UNCHANGED <<events, udevTime, pc, seen, need>>
        BY <2>21 DEF Die
      <3>2. \A d \in Client : Fresh(d)'
        BY <2>21, <3>1 DEF Die
      <3>3. \A d \in Client : d # c => child'[d] = child[d] /\ scanned'[d] = scanned[d]
        BY <2>21 DEF Die
      <3>4. child'[c] = "end"
        BY <2>21 DEF Die
      <3>5. QED
        BY <3>1, <3>2, <3>3, <3>4
    <2>22. ASSUME NEW c \in Client, Gone(c) PROVE FreshInv'
      BY <2>22 DEF Gone
    <2>23. CASE UNCHANGED vars
      BY <2>23 DEF vars
    <2>24. QED
      BY <2>1, <2>2, <2>3, <2>4, <2>5, <2>6, <2>7, <2>8, <2>9, <2>10,
         <2>11, <2>12, <2>13, <2>14, <2>15, <2>16, <2>17, <2>18,
         <2>19, <2>20, <2>21, <2>22, <2>23
      DEF Next, Construct, Vpdupdate, Failure
  <1>3. QED
    BY <1>1, <1>2, Typing, Noticing, PTL DEF Spec

\* Whoever gets the database without a failure gets it fresh.
THEOREM OpenedFresh == Spec => []FreshWhenReady
  <1>1. TypeOK /\ FreshInv => FreshWhenReady
    BY DEF TypeOK, FreshInv, Fresh, Accounted, FreshWhenReady, At
  <1>2. QED
    BY <1>1, Typing, Freshness, PTL
=============================================================================
