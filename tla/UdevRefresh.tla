---------------------------- MODULE UdevRefresh ----------------------------
(***************************************************************************)
(* VpdRetriever::VpdRetriever() opens the default database and brings it up *)
(* to date first: udev touches a file at each device event, and when that  *)
(* file is newer than the database the constructor runs vpdupdate and waits *)
(* for it.  File times are in whole seconds.  vpdupdate is not in this      *)
(* library: here it is what the library needs of it, a program that takes  *)
(* the update lock, looks at the devices and rewrites the database.        *)
(***************************************************************************)
EXTENDS Integers, FiniteSets

CONSTANTS Client,      \* processes that construct a VpdRetriever
          MaxTime,     \* bound on the clock
          MaxEvents,   \* bound on the number of device events
          Faults       \* which failures happen, each with the client that meets it

ASSUME BoundAssumption == MaxTime \in Nat \ {0} /\ MaxEvents \in Nat
ASSUME FaultsAssumption ==
    Faults \subseteq {"stat", "fork", "exec", "wait", "die", "race", "init", "exit"} \X Client

VARIABLES
    now,           \* the clock
    events,        \* device events so far: event n is the n-th
    udevTime,      \* mtime of /run/run.vpdupdate, 0 when there is no file
    dbTime,        \* mtime of the database, 0 when there is no file
    dbEvents,      \* the database reflects the events up to this one
    lock,          \* who has the update lock: Free, a reader or an updater
    pc,            \* where each client is
    seen,          \* the client's udev_stat.st_mtime
    child,         \* where the client's vpdupdate is
    scanned,       \* the client's vpdupdate has seen the events up to this one
    lost,          \* history: events that fell into one of the windows in
                   \* which no comparison of times shows them
    torn,          \* history: events that a vpdupdate which died in the middle
                   \* of its writes has left without their rows
    need           \* history: the last event before the client's first stat,
                   \* or 0 when a failure lets the constructor off

vars == <<now, events, udevTime, dbTime, dbEvents, lock, pc, seen, child,
          scanned, lost, torn, need>>
world == <<now, events, udevTime>>
file == <<dbTime, dbEvents, lost, torn>>

Free == <<"free">>
ReaderOf(c) == <<"reader", c>>
UpdaterOf(c) == <<"updater", c>>

\* seen, scanned and need are reset where the code has no more use for them.
TypeOK ==
    /\ now \in 1 .. MaxTime /\ events \in 0 .. MaxEvents
    /\ udevTime \in 0 .. MaxTime /\ dbTime \in 0 .. MaxTime
    /\ dbEvents \in 0 .. events
    /\ lost \subseteq 1 .. events /\ torn \subseteq 1 .. events
    /\ lock \in {Free} \cup {ReaderOf(c) : c \in Client}
                       \cup {UpdaterOf(c) : c \in Client}
    /\ pc \in [Client -> {"idle", "statdb", "fork", "wait", "open", "ready"}]
    /\ seen \in [Client -> 0 .. MaxTime]
    /\ child \in [Client -> {"none", "started", "scan", "write", "end"}]
    /\ scanned \in [Client -> 0 .. events]
    /\ need \in [Client -> 0 .. events]

Init ==
    /\ now = 1 /\ events = 0 /\ udevTime = 0
    /\ dbTime = 0 /\ dbEvents = 0
    /\ lock = Free
    /\ pc = [c \in Client |-> "idle"]
    /\ seen = [c \in Client |-> 0]
    /\ child = [c \in Client |-> "none"]
    /\ scanned = [c \in Client |-> 0]
    /\ lost = {} /\ torn = {}
    /\ need = [c \in Client |-> 0]

At(c, p) == pc[c] = p
Goto(c, p) == pc' = [pc EXCEPT ![c] = p]
ChildGoto(c, p) == child' = [child EXCEPT ![c] = p]
Saw(c, n) == scanned' = [scanned EXCEPT ![c] = n]
Seen(c, t) == seen' = [seen EXCEPT ![c] = t]
LetOff(c) == need' = [need EXCEPT ![c] = 0]
Release(h) == lock' = IF lock = h THEN Free ELSE lock

-----------------------------------------------------------------------------
(* The world: a clock, and udev's rule for device events.                  *)

Tick ==
    /\ now < MaxTime
    /\ now' = now + 1
    /\ UNCHANGED <<events, udevTime, file, lock, pc, seen, child, scanned, need>>

\* An event is lost in two windows: in the second of the database's last
\* write, and between the look of an updater at the devices and its write.
LostNow == dbTime = now \/ \E c \in Client : child[c] = "write"

\* mutant: the rule makes the file and does not renew its time.
QuietEvent ==
    /\ events < MaxEvents
    /\ events' = events + 1
    /\ udevTime' = IF udevTime = 0 THEN now ELSE udevTime
    /\ lost' = IF LostNow THEN lost \cup {events + 1} ELSE lost
    /\ UNCHANGED <<now, dbTime, dbEvents, torn, lock, pc, seen, child, scanned, need>>

\* The rule touches the file.
DeviceEvent ==
    /\ events < MaxEvents
    /\ events' = events + 1
    /\ udevTime' = now
    /\ lost' = IF LostNow THEN lost \cup {events + 1} ELSE lost
    /\ UNCHANGED <<now, dbTime, dbEvents, torn, lock, pc, seen, child, scanned, need>>

-----------------------------------------------------------------------------
(* The constructor.                                                        *)

\* mutant: the result of stat is not looked at, and st_mtime is whatever was
\* on the stack.
StatIgnored(c) ==
    /\ At(c, "idle")
    /\ Seen(c, IF udevTime = 0 THEN -1 ELSE udevTime)
    /\ need' = [need EXCEPT ![c] = events]
    /\ Goto(c, "statdb")
    /\ UNCHANGED <<world, file, lock, child, scanned>>

\* stat of the udev file.  Without one there is nothing to refresh for.
StatUdev(c) ==
    /\ At(c, "idle")
    /\ Seen(c, udevTime)
    /\ need' = [need EXCEPT ![c] = events]
    /\ Goto(c, IF udevTime = 0 THEN "open" ELSE "statdb")
    /\ UNCHANGED <<world, file, lock, child, scanned>>

\* A missing database counts as older than everything (st_mtime = 0).
Outdated(c) == seen[c] > dbTime

StatDb(c) ==
    /\ At(c, "statdb")
    /\ Goto(c, IF Outdated(c) THEN "fork" ELSE "open")
    /\ Seen(c, 0)
    /\ UNCHANGED <<world, file, lock, child, scanned, need>>

\* Any other error of stat: the database is opened as it is.
StatDbFails(c) ==
    /\ <<"stat", c>> \in Faults /\ At(c, "statdb")
    /\ Goto(c, "open")
    /\ Seen(c, 0)
    /\ LetOff(c)
    /\ UNCHANGED <<world, file, lock, child, scanned>>

\* A client has one child at a time (a bound of the model).
Fork(c) ==
    /\ At(c, "fork") /\ child[c] = "none"
    /\ Goto(c, "wait")
    /\ ChildGoto(c, "started")
    /\ UNCHANGED <<world, file, lock, seen, scanned, need>>

\* The constructor throws.
ForkFails(c) ==
    /\ <<"fork", c>> \in Faults /\ At(c, "fork")
    /\ Goto(c, "idle")
    /\ UNCHANGED <<world, file, lock, seen, child, scanned, need>>

\* mutant: the parent does not wait.
NoWait(c) == TRUE

Reaped(c) == child[c] = "end"

Wait(c) ==
    /\ At(c, "wait")
    /\ Reaped(c)
    /\ Goto(c, "open")
    /\ UNCHANGED <<world, file, lock, seen, child, scanned, need>>

\* waitpid is interrupted: the constructor goes on beside its child.
WaitFails(c) ==
    /\ <<"wait", c>> \in Faults /\ At(c, "wait")
    /\ Goto(c, "open")
    /\ LetOff(c)
    /\ UNCHANGED <<world, file, lock, seen, child, scanned>>

\* The read-only VpdDbEnv takes the update lock, which a process that has it
\* already is given again.
Open(c) ==
    /\ At(c, "open") /\ dbTime > 0
    /\ lock \in {Free, ReaderOf(c)}
    /\ lock' = ReaderOf(c)
    /\ Goto(c, "ready")
    /\ UNCHANGED <<world, file, seen, child, scanned, need>>

\* It comes in without the lock (GetLkFree of UpdateLock).
OpenUnlocked(c) ==
    /\ <<"race", c>> \in Faults
    /\ At(c, "open") /\ dbTime > 0
    /\ Goto(c, "ready")
    /\ UNCHANGED <<world, file, lock, seen, child, scanned, need>>

\* There is no database: the lock is not even tried.
OpenFails(c) ==
    /\ At(c, "open") /\ dbTime = 0
    /\ Goto(c, "idle")
    /\ UNCHANGED <<world, file, lock, seen, child, scanned, need>>

\* initFromLock throws, and the lock stays with the process.
InitFails(c) ==
    /\ <<"init", c>> \in Faults
    /\ At(c, "open") /\ dbTime > 0
    /\ lock \in {Free, ReaderOf(c)}
    /\ lock' = ReaderOf(c)
    /\ Goto(c, "idle")
    /\ UNCHANGED <<world, file, seen, child, scanned, need>>

\* mutant: ~VpdRetriever leaves the database open.
KeepOpen(c) ==
    /\ At(c, "ready")
    /\ Goto(c, "idle")
    /\ UNCHANGED <<world, file, lock, seen, child, scanned, need>>

Close(c) ==
    /\ At(c, "ready")
    /\ Release(ReaderOf(c))
    /\ Goto(c, "idle")
    /\ UNCHANGED <<world, file, seen, child, scanned, need>>

\* The client dies; its child does not.
Exit(c) ==
    /\ <<"exit", c>> \in Faults
    /\ ~At(c, "idle") \/ lock = ReaderOf(c)
    /\ Release(ReaderOf(c))
    /\ Goto(c, "idle")
    /\ Seen(c, 0)
    /\ UNCHANGED <<world, file, child, scanned, need>>

-----------------------------------------------------------------------------
(* vpdupdate, run by client c (external).                                  *)

\* It cannot be run, or its output cannot be thrown away.
ExecFails(c) ==
    /\ <<"exec", c>> \in Faults /\ child[c] = "started"
    /\ ChildGoto(c, "end")
    /\ LetOff(c)
    /\ UNCHANGED <<world, file, lock, pc, seen, scanned>>

UpdateLock(c) ==
    /\ child[c] = "started"
    /\ lock = Free
    /\ lock' = UpdaterOf(c)
    /\ ChildGoto(c, "scan")
    /\ UNCHANGED <<world, file, pc, seen, scanned, need>>

UpdateUnlocked(c) ==
    /\ <<"race", c>> \in Faults /\ child[c] = "started"
    /\ ChildGoto(c, "scan")
    /\ UNCHANGED <<world, file, lock, pc, seen, scanned, need>>

Scan(c) ==
    /\ child[c] = "scan"
    /\ Saw(c, events)
    /\ ChildGoto(c, "write")
    /\ UNCHANGED <<world, file, lock, pc, seen, need>>

\* The last write gives the file its time, and the rows are complete again.
Write(c) ==
    /\ child[c] = "write"
    /\ dbTime' = now
    /\ dbEvents' = scanned[c]
    /\ torn' = {}
    /\ Release(UpdaterOf(c))
    /\ ChildGoto(c, "end")
    /\ Saw(c, 0)
    /\ UNCHANGED <<world, pc, seen, lost, need>>

\* It dies after a first write: the file is new, its content is not.
Die(c) ==
    /\ <<"die", c>> \in Faults /\ child[c] = "write"
    /\ dbTime' = now
    /\ dbEvents' = 0
    /\ torn' = 1 .. events
    /\ Release(UpdaterOf(c))
    /\ ChildGoto(c, "end")
    /\ Saw(c, 0)
    /\ UNCHANGED <<world, pc, seen, lost, need>>

-----------------------------------------------------------------------------
\* A child that has ended leaves the process table (its parent has read its
\* status, or has ended too).
Gone(c) ==
    /\ child[c] = "end" /\ ~At(c, "wait")
    /\ ChildGoto(c, "none")
    /\ UNCHANGED <<world, file, lock, pc, seen, scanned, need>>

Construct(c) == StatDb(c) \/ Fork(c) \/ Wait(c) \/ OpenFails(c)
Vpdupdate(c) == Scan(c) \/ Write(c)
Failure(c) ==
    \/ StatDbFails(c) \/ ForkFails(c) \/ WaitFails(c) \/ ExecFails(c) \/ Die(c)
    \/ OpenUnlocked(c) \/ UpdateUnlocked(c) \/ InitFails(c) \/ Exit(c)

Next ==
    \/ Tick \/ DeviceEvent
    \/ \E c \in Client : \/ StatUdev(c) \/ Construct(c) \/ Open(c) \/ Close(c)
                         \/ UpdateLock(c) \/ Vpdupdate(c) \/ Gone(c)
                         \/ Failure(c)

Spec == Init /\ [][Next]_vars

\* Calls return, a reader is destroyed in the end, and the lock is granted
\* to a waiter that could have it again and again.
FairSpec ==
    /\ Spec
    /\ \A c \in Client :
         /\ WF_vars(Construct(c)) /\ WF_vars(Close(c))
         /\ WF_vars(Vpdupdate(c)) /\ WF_vars(Gone(c))
         /\ SF_vars(Open(c)) /\ SF_vars(UpdateLock(c))

-----------------------------------------------------------------------------
(* Properties.                                                             *)

Missing == dbEvents + 1 .. events

\* The comparison of the two times (vpdretriever.cpp:87) shows every event
\* that the database does not reflect, but for three windows: those in the
\* second of the last write, those between an updater's look at the devices
\* and its write, and those before the death of an updater in the middle of
\* its writes, as long as no other has written since.
EventsNoticed == Missing \subseteq lost \cup torn \/ udevTime > dbTime

\* A client that got its database without a failure of its own finds in it
\* every event that came before it asked, those of the three windows apart,
\* however many other clients refresh the database at the same time, and
\* whether the lock holds or not.
FreshWhenReady ==
    \A c \in Client : At(c, "ready") => 1 .. need[c] \subseteq (1 .. dbEvents) \cup lost \cup torn

\* A process has the lock and no database: its initFromLock has thrown.
Abandoned ==
    \E c \in Client : /\ <<"init", c>> \in Faults
                      /\ lock = ReaderOf(c) /\ ~At(c, "ready")

\* The constructor comes to an end, although it waits for a child that waits
\* for the lock, beside the readers and updaters of others: no client keeps a
\* database open while it constructs another.  Only after InitFails a process
\* keeps the lock, and everyone waits for it, its own child as well.
ConstructorEnds ==
    \A c \in Client : pc[c] \in {"statdb", "fork", "wait", "open"}
                        ~> pc[c] \in {"idle", "ready"} \/ Abandoned
=============================================================================
