-------------------------- MODULE SubProcessProofs --------------------------
(***************************************************************************)
(* For any number of programs, lines and words, and any size of the pipe:  *)
(* who is reaped, which descriptors stay open, and what a reader has at    *)
(* the end of the stream.                                                  *)
(***************************************************************************)
EXTENDS SubProcess, TLAPS

\* A child that is alive has its write end, and a dead one nothing; with
\* NoFdLeak nobody else has it, so the end of the stream comes after the
\* child's.
ChildFds ==
    \A j \in Job : IF child[j] \in Alive THEN <<j, "w">> \in cfds[j] ELSE cfds[j] = {}

\* What the process knows of its children.
Children ==
    \A j \in Job :
        /\ at[j] \in {"idle", "null"} <=> child[j] = "none"
        /\ Is(j, "reaped") <=> At(j, "done")
        /\ Is(j, "killed") => At(j, "wait") \/ at[j] \in Ended  \* SIGPIPE comes after fclose

\* Every line printed is in the pipe or with the caller.
Conserved ==
    \A j \in Job :
        /\ child[j] \in {"none", "forked"} => printed[j] = 0 /\ pipe[j] = 0 /\ got[j] = 0
        /\ Is(j, "printed") => printed[j] = Lines[j]
        /\ j \notin foreign => got[j] + pipe[j] = printed[j]
        /\ At(j, "eof") => pipe[j] = 0 /\ child[j] \notin Alive

\* Type correctness.
THEOREM Typing == Spec => []TypeOK
  <1>1. Init => TypeOK
    BY JobAssumption DEF Init, TypeOK, Running, Ended, Alive
  <1>2. TypeOK /\ [Next]_vars => TypeOK'
    <2> SUFFICES ASSUME TypeOK, [Next]_vars PROVE TypeOK'
      OBVIOUS
    <2> USE JobAssumption
    <2> USE DEF TypeOK, At, Goto, Is, Becomes, data, kids, Calls, Running, Ended, Alive, End
    <2>1. ASSUME NEW j \in Job, PopenRefused(j) \/ ForkFails(j) PROVE TypeOK'
      BY <2>1 DEF PopenRefused, ForkFails
    <2>2. ASSUME NEW j \in Job, Fork(j) \/ FdopenFails(j) PROVE TypeOK'
      BY <2>2 DEF Fork, FdopenFails, Born, Overrun
    <2>3. ASSUME NEW j \in Job, RedirectFails(j) \/ ExecFails(j) PROVE TypeOK'
      BY <2>3 DEF RedirectFails, ExecFails, Dies
    <2>4. ASSUME NEW j \in Job, ReadCall(j) \/ ReadFails(j) PROVE TypeOK'
      BY <2>4 DEF ReadCall, ReadFails
    <2>5. ASSUME NEW j \in Job, Fclose(j) \/ FcloseFails(j) PROVE TypeOK'
      BY <2>5 DEF Fclose, FcloseFails, Closes
    <2>6. ASSUME NEW j \in Job, ReadLine(j) PROVE TypeOK'
      BY <2>6 DEF ReadLine
    <2>7. ASSUME NEW j \in Job, ReadEnd(j) PROVE TypeOK'
      BY <2>7 DEF ReadEnd, HasOpen
    <2>8. ASSUME NEW j \in Job, Wait(j) PROVE TypeOK'
      BY <2>8 DEF Wait, Zombie
    <2>9. ASSUME NEW j \in Job, Exec(j) \/ PrintLine(j) PROVE TypeOK'
      BY <2>9 DEF Exec, PrintLine
    <2>10. ASSUME NEW j \in Job, Killed(j) \/ Exit(j) PROVE TypeOK'
      BY <2>10 DEF Killed, Exit, Dies, HasOpen
    <2>11. CASE UNCHANGED vars
      BY <2>11 DEF vars
    <2>12. QED
      BY <2>1, <2>2, <2>3, <2>4, <2>5, <2>6, <2>7, <2>8, <2>9, <2>10, <2>11 DEF Next, Goes
  <1>3. QED
    BY <1>1, <1>2, PTL DEF Spec

\* However the calls fail, the process has exactly the read ends of its open
\* streams, and a child no write end but its own.
THEOREM Descriptors == Spec => []NoFdLeak
  <1>1. Init => NoFdLeak
    BY DEF Init, NoFdLeak, Running
  <1>2. TypeOK /\ NoFdLeak /\ [Next]_vars => NoFdLeak'
    <2> SUFFICES ASSUME TypeOK, NoFdLeak, [Next]_vars PROVE NoFdLeak'
      OBVIOUS
    <2> USE DEF NoFdLeak, TypeOK, At, Goto, data, kids, Calls, Running, End
    <2>1. ASSUME NEW j \in Job, PopenRefused(j) \/ ForkFails(j) PROVE NoFdLeak'
      BY <2>1 DEF PopenRefused, ForkFails
    <2>2. ASSUME NEW j \in Job, Fork(j) PROVE NoFdLeak'
      BY <2>2 DEF Fork, Born, Overrun
    <2>3. ASSUME NEW j \in Job, FdopenFails(j) PROVE NoFdLeak'
      BY <2>3 DEF FdopenFails, Born, Overrun
    <2>4. ASSUME NEW j \in Job, RedirectFails(j) \/ ExecFails(j) PROVE NoFdLeak'
      BY <2>4 DEF RedirectFails, ExecFails, Dies
    <2>5. ASSUME NEW j \in Job, ReadCall(j) \/ ReadFails(j) PROVE NoFdLeak'
      BY <2>5 DEF ReadCall, ReadFails
    <2>6. ASSUME NEW j \in Job, Fclose(j) \/ FcloseFails(j) PROVE NoFdLeak'
      BY <2>6 DEF Fclose, FcloseFails, Closes
    <2>7. ASSUME NEW j \in Job, ReadLine(j) PROVE NoFdLeak'
      BY <2>7 DEF ReadLine
    <2>8. ASSUME NEW j \in Job, ReadEnd(j) PROVE NoFdLeak'
      BY <2>8 DEF ReadEnd, HasOpen
    <2>9. ASSUME NEW j \in Job, Wait(j) PROVE NoFdLeak'
      BY <2>9 DEF Wait, Zombie
    <2>10. ASSUME NEW j \in Job, Exec(j) \/ PrintLine(j) PROVE NoFdLeak'
      BY <2>10 DEF Exec, PrintLine
    <2>11. ASSUME NEW j \in Job, Killed(j) PROVE NoFdLeak'
      BY <2>11 DEF Killed, Dies, HasOpen
    <2>12. ASSUME NEW j \in Job, Exit(j) PROVE NoFdLeak'
      BY <2>12 DEF Exit, Dies
    <2>13. CASE UNCHANGED vars
      BY <2>13 DEF vars
    <2>14. QED
      BY <2>1, <2>2, <2>3, <2>4, <2>5, <2>6, <2>7, <2>8, <2>9, <2>10, <2>11, <2>12,
         <2>13 DEF Next, Goes
  <1>3. QED
    BY <1>1, <1>2, Typing, PTL DEF Spec

\* The three together are inductive, given the types and the descriptors.
LEMMA Invariant == Spec => [](ChildFds /\ Children /\ Conserved)
  <1> DEFINE Inv == ChildFds /\ Children /\ Conserved
  <1>1. Init => Inv
    BY JobAssumption DEF Init, ChildFds, Children, Conserved, Running, Ended, Alive, Is, At
  <1>2. TypeOK /\ NoFdLeak /\ Inv /\ [Next]_vars => Inv'
    <2> SUFFICES ASSUME TypeOK, NoFdLeak, Inv, [Next]_vars PROVE Inv'
      OBVIOUS
    <2> USE JobAssumption
    <2> USE DEF TypeOK, NoFdLeak, ChildFds, Children, Conserved, At, Goto, Is,
        Becomes, data, kids, Calls, Running, Ended, Alive
    <2>1. ASSUME NEW j \in Job, PopenRefused(j) \/ ForkFails(j) PROVE Inv'
      BY <2>1 DEF PopenRefused, ForkFails
    <2>2. ASSUME NEW j \in Job, Fork(j) PROVE Inv'
      BY <2>2 DEF Fork, Born, Overrun
    <2>3. ASSUME NEW j \in Job, FdopenFails(j) PROVE Inv'
      BY <2>3 DEF FdopenFails, Born, Overrun
    <2>4. ASSUME NEW j \in Job, RedirectFails(j) \/ ExecFails(j) PROVE Inv'
      BY <2>4 DEF RedirectFails, ExecFails, Dies
    <2>5. ASSUME NEW j \in Job, ReadCall(j) \/ ReadFails(j) PROVE Inv'
      BY <2>5 DEF ReadCall, ReadFails
    <2>6. ASSUME NEW j \in Job, Fclose(j) \/ FcloseFails(j) PROVE Inv'
      BY <2>6 DEF Fclose, FcloseFails, Closes
    <2>7. ASSUME NEW j \in Job, ReadLine(j) PROVE Inv'
      BY <2>7 DEF ReadLine
    <2>8. ASSUME NEW j \in Job, ReadEnd(j) PROVE Inv'
      BY <2>8 DEF ReadEnd, HasOpen
    <2>9. ASSUME NEW j \in Job, Wait(j) PROVE Inv'
      BY <2>9 DEF Wait, Zombie
    <2>10. ASSUME NEW j \in Job, Exec(j) \/ PrintLine(j) PROVE Inv'
      BY <2>10 DEF Exec, PrintLine
    <2>11. ASSUME NEW j \in Job, Killed(j) PROVE Inv'
      BY <2>11 DEF Killed, Dies, HasOpen
    <2>12. ASSUME NEW j \in Job, Exit(j) PROVE Inv'
      BY <2>12 DEF Exit, Dies
    <2>13. CASE UNCHANGED vars
      BY <2>13 DEF vars
    <2>14. QED
      BY <2>1, <2>2, <2>3, <2>4, <2>5, <2>6, <2>7, <2>8, <2>9, <2>10, <2>11, <2>12,
         <2>13 DEF Next, Goes
  <1>3. QED
    BY <1>1, <1>2, Typing, Descriptors, PTL DEF Spec

\* Only when fdopen or fclose has failed is a child left that nobody waits
\* for, and nobody reaps a child but its own spclose.
THEOREM Reaping == Spec => []Orphans
  <1>1. TypeOK /\ Children => Orphans
    BY DEF TypeOK, Children, Orphans, Running, Ended, Is, At
  <1>2. QED
    BY <1>1, Typing, Invariant, PTL

\* At the end of the stream the caller has every line of the program.  The
\* end needs a closed write end, hence a child that is gone; it has not been
\* reaped, nor killed, because the stream is open; so it has printed
\* everything, and what it printed is not in the pipe.
THEOREM Output == Spec => []OutputComplete
  <1>1. TypeOK /\ Children /\ Conserved => OutputComplete
    BY DEF TypeOK, Children, Conserved, OutputComplete, Running, Ended, Alive, Is, At
  <1>2. QED
    BY <1>1, Typing, Invariant, PTL
=============================================================================
