----------------------------- MODULE SubProcess -----------------------------
(***************************************************************************)
(* Running a program and reading what it prints: spopen and spclose, which *)
(* a client may have open for several programs, and execCmd, which does it *)
(* all in one call.  The process has one thread; each child it forks gets  *)
(* a copy of its descriptors, and none of them is close-on-exec.           *)
(*                                                                         *)
(* The programs (external) print so many lines and end; the pipe           *)
(* (external) holds a few lines, blocks who writes more, tells the reader  *)
(* of the end when no process has the write end open any more, and kills   *)
(* who writes when no process has the read end open.                       *)
(***************************************************************************)
EXTENDS Integers

CONSTANTS Job,      \* the programs to be run, each once
          NoJob,
          ByExecCmd,\* those run by execCmd; the others are run by a client
          Lines,    \* how many lines each of them prints
          Cap,      \* how many lines a pipe holds
          Words,    \* how many words a command of execCmd may have
          Unwritten,\* the process has output of its own in stdout's buffer
          Faults    \* the calls that may fail

MaxArgs == 32

ASSUME JobAssumption ==
    /\ NoJob \notin Job /\ ByExecCmd \subseteq Job
    /\ Lines \in [Job -> Nat] /\ Cap \in Nat \ {0} /\ Words \subseteq Nat
    /\ Unwritten \in BOOLEAN
    /\ Faults \subseteq {"access", "pipe", "fork", "fdopen", "fclose", "read", "null", "dup2",
                         "exec"}

VARIABLES
    in,        \* the job whose call the process is in, or NoJob
    at,        \* where the process is with each job
    fds,       \* the pipe ends that the process has open
    child,     \* what became of each child
    cfds,      \* the pipe ends that the child has open
    pipe,      \* lines in each pipe
    printed,   \* lines that each program has printed
    got,       \* lines of it that the caller has read
    foreign    \* jobs whose output is not (only) what the program printed

vars == <<in, at, fds, child, cfds, pipe, printed, got, foreign>>

\* "open": the client has the stream; "reading", "wait": in fgets, in
\* waitpid; "loop": execCmd's loop after an error of read; "eof": the client
\* has read all; then how it ended: "null" or "nofd" (no stream), "unclosed"
\* (spclose returned -1), "done".
Running == {"open", "reading", "eof", "loop", "wait"}
Ended == {"null", "nofd", "unclosed", "done"}
Alive == {"forked", "runs"}

End == Job \X {"r", "w"}

TypeOK ==
    /\ in \in Job \cup {NoJob}
    /\ at \in [Job -> {"idle"} \cup Running \cup Ended]
    /\ fds \subseteq End
    /\ child \in [Job -> {"none", "printed", "failed", "killed", "reaped"} \cup Alive]
    /\ cfds \in [Job -> SUBSET End]
    /\ pipe \in [Job -> 0 .. Cap]
    /\ printed \in [Job -> Nat] /\ got \in [Job -> Nat]
    /\ foreign \subseteq Job

Init ==
    /\ in = NoJob
    /\ at = [j \in Job |-> "idle"]
    /\ fds = {}
    /\ child = [j \in Job |-> "none"]
    /\ cfds = [j \in Job |-> {}]
    /\ pipe = [j \in Job |-> 0]
    /\ printed = [j \in Job |-> 0] /\ got = [j \in Job |-> 0]
    /\ foreign = {}

At(j, p) == at[j] = p
Goto(j, p) == at' = [at EXCEPT ![j] = p]
Is(j, s) == child[j] = s
Becomes(j, s) == child' = [child EXCEPT ![j] = s]

data == <<pipe, printed, got, foreign>>
kids == <<child, cfds, pipe, printed, foreign>>

-----------------------------------------------------------------------------
(* spopen.                                                                 *)

Calls(j) == in = NoJob /\ At(j, "idle")

\* mutant: execCmd reads from the stream whether there is one or not.
PopenUnchecked(j) ==
    /\ Calls(j)
    /\ Faults \cap {"access", "pipe"} # {}
    /\ Goto(j, IF j \in ByExecCmd THEN "crashed" ELSE "null")
    /\ UNCHANGED <<in, fds, kids, got>>

\* argv is NULL or not executable, execCmd counts too many words (or none),
\* or pipe fails.
PopenRefused(j) ==
    /\ Calls(j)
    /\ Faults \cap {"access", "pipe"} # {} \/ (j \in ByExecCmd /\ \E w \in Words : w \notin 1 .. MaxArgs)
    /\ Goto(j, "null")
    /\ UNCHANGED <<in, fds, kids, got>>

\* mutant: the ends of the pipe stay open when fork fails.
ForkFailsLeaks(j) ==
    /\ Calls(j) /\ "fork" \in Faults
    /\ fds' = fds \cup {<<j, "r">>, <<j, "w">>}
    /\ Goto(j, "null")
    /\ UNCHANGED <<in, kids, got>>

\* fork fails: both ends of the pipe are closed again.
ForkFails(j) ==
    /\ Calls(j) /\ "fork" \in Faults
    /\ Goto(j, "null")
    /\ UNCHANGED <<in, fds, kids, got>>

\* The child starts with what the process has open, closes its read end and
\* keeps the write end.
Born(j) ==
    /\ Becomes(j, "forked")
    /\ cfds' = [cfds EXCEPT ![j] = fds \cup {<<j, "w">>}]

\* The whole array of words is in use and there is no NULL behind them: what
\* else the program gets, if it runs, is undefined.
Overrun(j) ==
    \/ UNCHANGED foreign
    \/ j \in ByExecCmd /\ MaxArgs \in Words /\ foreign' = foreign \cup {j}

\* mutant: the parent does not close the write end.
ForkKeepsEnd(j) ==
    /\ Calls(j)
    /\ j \in ByExecCmd => \E w \in Words : w \in 1 .. MaxArgs
    /\ Born(j) /\ Overrun(j)
    /\ fds' = fds \cup {<<j, "r">>, <<j, "w">>}
    /\ Goto(j, IF j \in ByExecCmd THEN "reading" ELSE "open")
    /\ in' = IF j \in ByExecCmd THEN j ELSE NoJob
    /\ UNCHANGED <<pipe, printed, got>>

\* The parent closes the write end and has a stream; execCmd starts to read.
Fork(j) ==
    /\ Calls(j)
    /\ j \in ByExecCmd => \E w \in Words : w \in 1 .. MaxArgs
    /\ Born(j) /\ Overrun(j)
    /\ fds' = fds \cup {<<j, "r">>}
    /\ Goto(j, IF j \in ByExecCmd THEN "reading" ELSE "open")
    /\ in' = IF j \in ByExecCmd THEN j ELSE NoJob
    /\ UNCHANGED <<pipe, printed, got>>

\* fdopen fails: the read end is closed, the caller gets NULL, and the child
\* has been started all the same.
FdopenFails(j) ==
    /\ Calls(j) /\ "fdopen" \in Faults
    /\ j \in ByExecCmd => \E w \in Words : w \in 1 .. MaxArgs
    /\ Born(j) /\ Overrun(j)
    /\ Goto(j, "nofd")
    /\ UNCHANGED <<in, fds, pipe, printed, got>>

-----------------------------------------------------------------------------
(* The child.                                                              *)

\* A process ends: its descriptors are closed.
Dies(j, s) == Becomes(j, s) /\ cfds' = [cfds EXCEPT ![j] = {}]

\* mutant: stdout is not redirected to the pipe.
ExecUnredirected(j) ==
    /\ Is(j, "forked")
    /\ Becomes(j, "runs")
    /\ printed' = [printed EXCEPT ![j] = Lines[j]]
    /\ UNCHANGED <<in, at, fds, cfds, pipe, got, foreign>>

\* process_child: stdout is the pipe, stderr /dev/null, and the program runs.
Exec(j) ==
    /\ Is(j, "forked")
    /\ Becomes(j, "runs")
    /\ UNCHANGED <<in, at, fds, cfds, data>>

\* /dev/null cannot be opened, or dup2 fails for stdout: exit (with stdout
\* still that of the process).
RedirectFails(j) ==
    /\ Is(j, "forked") /\ Faults \cap {"null", "dup2"} # {}
    /\ Dies(j, "failed")
    /\ UNCHANGED <<in, at, fds, data>>

\* execve fails, or dup2 for stderr: exit writes the buffer of stdout, a copy
\* of what the parent has not yet written, to descriptor 1: the pipe.
ExecFails(j) ==
    /\ Is(j, "forked")
    /\ Faults \cap {"dup2", "exec"} # {} \/ j \in foreign
    /\ Dies(j, "failed")
    /\ pipe' = [pipe EXCEPT ![j] = IF Unwritten THEN 1 ELSE 0]
    /\ foreign' = IF Unwritten THEN foreign \cup {j} ELSE foreign
    /\ UNCHANGED <<in, at, fds, printed, got>>

HasOpen(e) == e \in fds \/ \E j \in Job : e \in cfds[j]

\* The program prints a line; it waits while the pipe is full.
PrintLine(j) ==
    /\ Is(j, "runs") /\ printed[j] < Lines[j]
    /\ HasOpen(<<j, "r">>) /\ pipe[j] < Cap
    /\ printed' = [printed EXCEPT ![j] = @ + 1]
    /\ pipe' = [pipe EXCEPT ![j] = @ + 1]
    /\ UNCHANGED <<in, at, fds, child, cfds, got, foreign>>

\* SIGPIPE.
Killed(j) ==
    /\ Is(j, "runs") /\ printed[j] < Lines[j]
    /\ ~HasOpen(<<j, "r">>)
    /\ Dies(j, "killed")
    /\ UNCHANGED <<in, at, fds, data>>

Exit(j) ==
    /\ Is(j, "runs") /\ printed[j] = Lines[j]
    /\ Dies(j, "printed")
    /\ UNCHANGED <<in, at, fds, data>>

-----------------------------------------------------------------------------
(* Reading.                                                                *)

\* The client calls fgets; execCmd is in its loop.
ReadCall(j) ==
    /\ in = NoJob /\ At(j, "open") /\ j \notin ByExecCmd
    /\ in' = j /\ Goto(j, "reading")
    /\ UNCHANGED <<fds, kids, got>>

\* One line.  execCmd goes on, the client returns.
ReadLine(j) ==
    /\ At(j, "reading") /\ pipe[j] > 0
    /\ pipe' = [pipe EXCEPT ![j] = @ - 1]
    /\ got' = [got EXCEPT ![j] = @ + 1]
    /\ IF j \in ByExecCmd THEN UNCHANGED <<in, at>> ELSE in' = NoJob /\ Goto(j, "open")
    /\ UNCHANGED <<fds, child, cfds, printed, foreign>>

\* feof: the pipe is empty and nobody can write to it.  execCmd calls
\* spclose.
ReadEnd(j) ==
    /\ At(j, "reading") /\ pipe[j] = 0 /\ ~HasOpen(<<j, "w">>)
    /\ Goto(j, "eof")
    /\ in' = IF j \in ByExecCmd THEN j ELSE NoJob
    /\ UNCHANGED <<fds, kids, got>>

\* read(2) fails for good.  fgets tells the client; execCmd asks feof only,
\* and calls fgets for ever.
ReadFails(j) ==
    /\ "read" \in Faults
    /\ At(j, "reading")
    /\ IF j \in ByExecCmd THEN Goto(j, "loop") /\ UNCHANGED in
                          ELSE Goto(j, "open") /\ in' = NoJob
    /\ UNCHANGED <<fds, kids, got>>

-----------------------------------------------------------------------------
(* spclose.                                                                *)

\* The client may close at any time, execCmd does so at the end.
Closes(j) ==
    IF j \in ByExecCmd THEN At(j, "eof") ELSE in = NoJob /\ at[j] \in {"open", "eof"}

\* fclose, which closes the read end; then waitpid.
Fclose(j) ==
    /\ Closes(j)
    /\ fds' = fds \ {<<j, "r">>}
    /\ in' = j /\ Goto(j, "wait")
    /\ UNCHANGED <<kids, got>>

\* fclose reports an error (the descriptor is gone all the same): spclose
\* returns -1 and does not wait.
FcloseFails(j) ==
    /\ Closes(j) /\ "fclose" \in Faults
    /\ fds' = fds \ {<<j, "r">>}
    /\ in' = NoJob /\ Goto(j, "unclosed")
    /\ UNCHANGED <<kids, got>>

Zombie(j) == child[j] \in {"printed", "failed", "killed"}

\* mutant: spclose waits for any child.
WaitAny(j) ==
    /\ At(j, "wait")
    /\ \E i \in Job : Zombie(i) /\ Becomes(i, "reaped")
    /\ in' = NoJob /\ Goto(j, "done")
    /\ UNCHANGED <<fds, cfds, data>>

\* waitpid, again and again while signals interrupt it.  (The status that is
\* returned is left out; a client that ignores SIGCHLD gets one that was
\* never written.)
Wait(j) ==
    /\ At(j, "wait") /\ Zombie(j)
    /\ Becomes(j, "reaped")
    /\ in' = NoJob /\ Goto(j, "done")
    /\ UNCHANGED <<fds, cfds, data>>

-----------------------------------------------------------------------------
\* What a call does once it has begun, and what a child does.
Goes(j) ==
    \/ ReadLine(j) \/ ReadEnd(j) \/ Wait(j)
    \/ (j \in ByExecCmd /\ Fclose(j))
    \/ Exec(j) \/ PrintLine(j) \/ Killed(j) \/ Exit(j)

Next ==
    \E j \in Job :
        \/ PopenRefused(j) \/ ForkFails(j) \/ Fork(j) \/ FdopenFails(j)
        \/ RedirectFails(j) \/ ExecFails(j)
        \/ ReadCall(j) \/ ReadFails(j)
        \/ Fclose(j) \/ FcloseFails(j)
        \/ Goes(j)

Spec == Init /\ [][Next]_vars

\* The kernel runs the process and its children.
FairSpec == Spec /\ \A j \in Job : WF_vars(Goes(j))

-----------------------------------------------------------------------------
(* Properties.                                                             *)

\* Only when fdopen or fclose has failed is a child left that nobody waits
\* for: every other way out of spopen, spclose and execCmd has reaped it, and
\* no child but its own.
Orphans ==
    \A j \in Job :
        /\ child[j] \notin {"none", "reaped"} => at[j] \in Running \cup {"nofd", "unclosed"}
        /\ Is(j, "reaped") <=> At(j, "done")

\* However the calls fail, the process has exactly the read ends of the
\* streams that it has not yet closed; no child has a write end but its own,
\* or a reader would wait for the end of a stranger.
NoFdLeak ==
    /\ fds = {<<j, "r">> : j \in {i \in Job : at[i] \in Running \ {"wait"}}}
    /\ \A i, j \in Job : <<j, "w">> \in cfds[i] => i = j

\* At the end of the stream the caller has every line that the program
\* printed, and nothing else, unless the child did not get as far as execve
\* or was given one word too many: then execCmd returns 0 all the same.
OutputComplete ==
    \A j \in Job : At(j, "eof") /\ j \notin foreign /\ ~Is(j, "failed") =>
        child[j] = "printed" /\ got[j] = Lines[j]

\* A call returns, unless execCmd is in its loop, or spclose waits for a
\* child whose pipe has another reader: a child that was forked later and
\* inherited the read end.  (spopen "mimics popen(3)"; popen would have closed
\* it there.)
CallsReturn ==
    \A j \in Job : in = j ~> \/ in # j \/ At(j, "loop")
                             \/ At(j, "wait") /\ \E i \in Job : <<j, "r">> \in cfds[i]
=============================================================================
