------------------------ MODULE CommandRunnerProofs ------------------------
(***************************************************************************)
(* Theorems about CommandRunner, for every set of descendants, every       *)
(* deadline and every choice of failing calls.                             *)
(***************************************************************************)
EXTENDS CommandRunner, TLAPS

-----------------------------------------------------------------------------
(* The inductive invariant.                                                *)

\* Only running processes hold pipes, belong to the group or await a signal.
OnlyRunningAct ==
    /\ group \subseteq Running
    /\ doomed \subseteq Running
    /\ \A q \in Pipes : writers[q] \subseteq Running

\* After the kill the group only shrinks, and all of it is doomed.
GroupDoomed == killed => group \subseteq doomed

\* A reader that is done has seen everything and nobody can write more.
ReaderSawAll ==
    \A q \in Pipes :
        reader[q] = "done" => writers[q] = {} /\ captured[q] = written[q]

\* What is known at each place of the runner.
RunnerPlace ==
    /\ pc = "spawn" => /\ \A p \in Members : proc[p] = "unborn"
                       /\ \A q \in Pipes : reader[q] = "none"
    /\ pc \in {"spawn", "readers", "poll", "elapsed"} => ~timedOut
    /\ pc \in {"spawn", "readers", "poll", "elapsed", "kill"} => ~killed
    /\ pc \in {"poll", "elapsed", "kill"} => timeout # NoTimeout
    /\ pc \in {"readers", "poll", "elapsed", "kill"} =>
           proc[Leader] \in {"running", "ended"}
    /\ pc = "kill" => timedOut
    /\ pc = "join" => proc[Leader] = "reaped"
    /\ killed => timedOut
    /\ timedOut => timeout # NoTimeout /\ now >= timeout

ResultSettled ==
    Succeeded =>
        /\ pc = "returned"
        /\ proc[Leader] = "reaped"
        /\ \A q \in Pipes : reader[q] = "done" /\ result.output[q] = captured[q]
        /\ result.timedOut = timedOut
        /\ result.exitCode = IF timedOut THEN TIMEOUT_EXIT_CODE ELSE status

RunnerInv ==
    /\ TypeOK
    /\ OnlyRunningAct
    /\ GroupDoomed
    /\ ReaderSawAll
    /\ RunnerPlace
    /\ ResultSettled

-----------------------------------------------------------------------------
(* Type correctness.                                                       *)

USE DEF Members, Running

LEMMA TypeInit == Init => TypeOK
<1> SUFFICES ASSUME Init PROVE TypeOK
  OBVIOUS
<1> USE RunnerAssumption DEF Init
<1>1. pc \in RunnerPcs /\ now \in 0..MaxTime
  BY DEF RunnerPcs
<1>2. proc \in [Members -> {"unborn", "running", "ended", "reaped"}]
  OBVIOUS
<1>3. /\ writers \in [Pipes -> SUBSET Members]
      /\ written \in [Pipes -> Nat]
      /\ captured \in [Pipes -> Nat]
      /\ reader \in [Pipes -> {"none", "reading", "done"}]
  OBVIOUS
<1>4. timedOut \in BOOLEAN /\ killed \in BOOLEAN /\ result \in {Pending}
  OBVIOUS
<1> QED
  BY <1>1, <1>2, <1>3, <1>4 DEF TypeOK

\* The steps of the runner thread keep the types.
LEMMA TypeRunner == TypeOK /\ (Runner \/ RunnerFails) => TypeOK'
<1> SUFFICES ASSUME TypeOK, Runner \/ RunnerFails PROVE TypeOK'
  OBVIOUS
<1> USE RunnerAssumption DEF TypeOK, RunnerPcs, processVars, pipeVars
<1>1. CASE Spawn
  BY <1>1 DEF Spawn
<1>2. CASE SpawnFails
  BY <1>2 DEF SpawnFails, ReturnError
<1>3. CASE StartReaders
  BY <1>3 DEF StartReaders
<1>4. CASE Poll
  BY <1>4 DEF Poll
<1>5. CASE PollFails
  BY <1>5 DEF PollFails, ReturnError
<1>6. CASE Sleep
  BY <1>6 DEF Sleep
<1>7. CASE Expire
  BY <1>7 DEF Expire
<1>8. CASE Kill
  BY <1>8 DEF Kill
<1>9. CASE KillFails
  BY <1>9 DEF KillFails
<1>10. CASE Wait
  BY <1>10 DEF Wait
<1>11. CASE WaitFails
  BY <1>11 DEF WaitFails, ReturnError
<1>12. CASE Join
  <2>1. Output(status) \in
          [kind : {"ok"}, exitCode : ExitCodes \cup {SignalStatus, TIMEOUT_EXIT_CODE},
           output : [Pipes -> Nat], timedOut : BOOLEAN]
    BY DEF Output
  <2> QED
    BY <1>12, <2>1 DEF Join
<1> QED
  BY <1>1, <1>2, <1>3, <1>4, <1>5, <1>6, <1>7, <1>8, <1>9, <1>10, <1>11,
     <1>12 DEF Runner, RunnerFails

\* So do the readers, the program, the kernel and the clock.
LEMMA TypeOthers == TypeOK /\ (Readers \/ Program \/ Kernel \/ Tick) => TypeOK'
<1> SUFFICES ASSUME TypeOK, Readers \/ Program \/ Kernel \/ Tick PROVE TypeOK'
  OBVIOUS
<1> USE RunnerAssumption DEF TypeOK, RunnerPcs, runnerVars, processVars, pipeVars
<1>1. ASSUME NEW q \in Pipes, Read(q) PROVE TypeOK'
  BY <1>1 DEF Read
<1>2. ASSUME NEW q \in Pipes, EndOfStream(q) PROVE TypeOK'
  BY <1>2 DEF EndOfStream
<1>3. ASSUME NEW p \in Members, NEW c \in Descendants, Fork(p, c) PROVE TypeOK'
  BY <1>3 DEF Fork
<1>4. ASSUME NEW p \in Members, LeaveGroup(p) PROVE TypeOK'
  BY <1>4 DEF LeaveGroup
<1>5. ASSUME NEW p \in Members, NEW q \in Pipes, CloseEnd(p, q) PROVE TypeOK'
  BY <1>5 DEF CloseEnd
<1>6. ASSUME NEW p \in Members, NEW q \in Pipes, Write(p, q) PROVE TypeOK'
  BY <1>6 DEF Write
<1>7. ASSUME NEW p \in Members, NEW code \in ExitCodes \cup {SignalStatus},
             Ends(p, code)
      PROVE  TypeOK'
  BY <1>7 DEF Ends
<1>8. CASE Tick
  BY <1>8 DEF Tick
<1> QED
  BY <1>1, <1>2, <1>3, <1>4, <1>5, <1>6, <1>7, <1>8
     DEF Readers, Program, Kernel, Exit, Dies

LEMMA TypeStep == TypeOK /\ [Next]_vars => TypeOK'
<1>1. TypeOK /\ UNCHANGED vars => TypeOK'
  BY DEF TypeOK, vars, runnerVars, processVars, pipeVars
<1> QED
  BY <1>1, TypeRunner, TypeOthers DEF Next

\* Every reachable state of the runner and the processes is well typed.
THEOREM TypeCorrect == Spec => []TypeOK
  BY TypeInit, TypeStep, PTL DEF Spec

-----------------------------------------------------------------------------
(* The inductive invariant holds.                                          *)

LEMMA InvInit == Init => RunnerInv
<1>1. Init => TypeOK
  BY TypeInit
<1>2. Init => OnlyRunningAct /\ GroupDoomed /\ ReaderSawAll
  BY DEF Init, OnlyRunningAct, GroupDoomed, ReaderSawAll
<1>3. Init => RunnerPlace /\ ResultSettled
  BY DEF Init, RunnerPlace, ResultSettled, Succeeded, Pending
<1> QED
  BY <1>1, <1>2, <1>3 DEF RunnerInv

\* Only running processes act: every step that ends one takes it out of the
\* group, the pipes and the doomed; a fork adds a running one.
LEMMA OnlyRunningStep == RunnerInv /\ [Next]_vars => OnlyRunningAct'
<1> SUFFICES ASSUME RunnerInv, [Next]_vars PROVE OnlyRunningAct'
  OBVIOUS
<1> USE DEF OnlyRunningAct
<1>0. TypeOK /\ OnlyRunningAct /\ RunnerPlace /\ Leader \in Members
  BY DEF RunnerInv
<1>1. CASE UNCHANGED vars
  BY <1>0, <1>1 DEF vars, processVars, pipeVars
<1>2. CASE Spawn
  BY <1>0, <1>2 DEF Spawn, TypeOK
<1>3. CASE Poll \/ Wait
  BY <1>0, <1>3 DEF Poll, Wait, pipeVars, TypeOK
<1>4. CASE Kill
  BY <1>0, <1>4 DEF Kill, pipeVars
<1>5. CASE \/ SpawnFails \/ StartReaders \/ PollFails \/ Sleep \/ Expire
           \/ KillFails \/ WaitFails \/ Join \/ Readers \/ Tick
  BY <1>0, <1>5 DEF SpawnFails, StartReaders, PollFails, Sleep, Expire, KillFails,
     WaitFails, Join, ReturnError, Readers, Read, EndOfStream, Tick,
     processVars, pipeVars
<1>6. ASSUME NEW p \in Members, NEW c \in Descendants, Fork(p, c)
      PROVE  OnlyRunningAct'
  BY <1>0, <1>6 DEF Fork, TypeOK
<1>7. ASSUME NEW p \in Members, LeaveGroup(p) PROVE OnlyRunningAct'
  BY <1>0, <1>7 DEF LeaveGroup, pipeVars
<1>8. ASSUME NEW p \in Members, NEW q \in Pipes, CloseEnd(p, q) \/ Write(p, q)
      PROVE  OnlyRunningAct'
  BY <1>0, <1>8 DEF CloseEnd, Write, processVars, TypeOK
<1>9. ASSUME NEW p \in Members, NEW code, Ends(p, code) PROVE OnlyRunningAct'
  BY <1>0, <1>9 DEF Ends, TypeOK
<1> QED
  BY <1>1, <1>2, <1>3, <1>4, <1>5, <1>6, <1>7, <1>8, <1>9
     DEF Next, Runner, RunnerFails, Program, Kernel, Exit, Dies

\* The kill dooms the whole group, and nothing joins the group after it: a
\* doomed process forks no more.
LEMMA GroupDoomedStep == RunnerInv /\ [Next]_vars => GroupDoomed'
<1> SUFFICES ASSUME RunnerInv, [Next]_vars PROVE GroupDoomed'
  OBVIOUS
<1> USE DEF GroupDoomed
<1>0. TypeOK /\ OnlyRunningAct /\ GroupDoomed /\ RunnerPlace
  BY DEF RunnerInv
<1>1. CASE UNCHANGED vars
  BY <1>0, <1>1 DEF vars, runnerVars, processVars
<1>2. CASE Spawn
  BY <1>0, <1>2 DEF Spawn, RunnerPlace
<1>3. CASE Kill
  BY <1>0, <1>3 DEF Kill, OnlyRunningAct
<1>4. CASE \/ SpawnFails \/ StartReaders \/ Poll \/ PollFails \/ Sleep
           \/ Expire \/ KillFails \/ Wait \/ WaitFails \/ Join \/ Readers \/ Tick
  BY <1>0, <1>4 DEF SpawnFails, StartReaders, Poll, PollFails, Sleep, Expire,
     KillFails, Wait, WaitFails, Join, ReturnError, Readers, Read,
     EndOfStream, Tick, processVars, runnerVars
<1>5. ASSUME NEW p \in Members, NEW c \in Descendants, Fork(p, c)
      PROVE  GroupDoomed'
  BY <1>0, <1>5 DEF Fork, runnerVars
<1>6. ASSUME NEW p \in Members, LeaveGroup(p) PROVE GroupDoomed'
  BY <1>0, <1>6 DEF LeaveGroup, runnerVars
<1>7. ASSUME NEW p \in Members, NEW q \in Pipes, CloseEnd(p, q) \/ Write(p, q)
      PROVE  GroupDoomed'
  BY <1>0, <1>7 DEF CloseEnd, Write, processVars, runnerVars
<1>8. ASSUME NEW p \in Members, NEW code, Ends(p, code) PROVE GroupDoomed'
  BY <1>0, <1>8 DEF Ends, runnerVars
<1> QED
  BY <1>1, <1>2, <1>3, <1>4, <1>5, <1>6, <1>7, <1>8
     DEF Next, Runner, RunnerFails, Program, Kernel, Exit, Dies

\* A pipe without a writer gets no new one: forks copy ends, and only a
\* holder writes.
LEMMA ReaderSawAllStep == RunnerInv /\ [Next]_vars => ReaderSawAll'
<1> SUFFICES ASSUME RunnerInv, [Next]_vars PROVE ReaderSawAll'
  OBVIOUS
<1> USE DEF ReaderSawAll
<1>0. TypeOK /\ OnlyRunningAct /\ ReaderSawAll /\ RunnerPlace
  BY DEF RunnerInv
<1>1. CASE UNCHANGED vars
  BY <1>0, <1>1 DEF vars, pipeVars
<1>2. CASE Spawn
  BY <1>0, <1>2 DEF Spawn, RunnerPlace
<1>3. CASE StartReaders
  BY <1>0, <1>3 DEF StartReaders
<1>4. CASE \/ SpawnFails \/ Poll \/ PollFails \/ Sleep \/ Expire \/ Kill
           \/ KillFails \/ Wait \/ WaitFails \/ Join \/ Tick
  BY <1>0, <1>4 DEF SpawnFails, Poll, PollFails, Sleep, Expire, Kill,
     KillFails, Wait, WaitFails, Join, ReturnError, Tick, pipeVars
<1>5. ASSUME NEW q \in Pipes, Read(q) \/ EndOfStream(q) PROVE ReaderSawAll'
  BY <1>0, <1>5 DEF Read, EndOfStream, TypeOK
<1>6. ASSUME NEW p \in Members, NEW c \in Descendants, Fork(p, c)
      PROVE  ReaderSawAll'
  BY <1>0, <1>6 DEF Fork
<1>7. ASSUME NEW p \in Members, LeaveGroup(p) PROVE ReaderSawAll'
  BY <1>0, <1>7 DEF LeaveGroup, pipeVars
<1>8. ASSUME NEW p \in Members, NEW q \in Pipes, CloseEnd(p, q) \/ Write(p, q)
      PROVE  ReaderSawAll'
  BY <1>0, <1>8 DEF CloseEnd, Write, TypeOK
<1>9. ASSUME NEW p \in Members, NEW code, Ends(p, code) PROVE ReaderSawAll'
  BY <1>0, <1>9 DEF Ends
<1> QED
  BY <1>1, <1>2, <1>3, <1>4, <1>5, <1>6, <1>7, <1>8, <1>9
     DEF Next, Runner, RunnerFails, Readers, Program, Kernel, Exit, Dies

\* Each step of the runner hands the next place what it relies on; the others
\* only ever end the leader, and only the runner reaps it.
LEMMA RunnerPlaceStep == RunnerInv /\ [Next]_vars => RunnerPlace'
<1> SUFFICES ASSUME RunnerInv, [Next]_vars PROVE RunnerPlace'
  OBVIOUS
<1> USE RunnerAssumption DEF RunnerPlace
<1>0. TypeOK /\ RunnerPlace
  BY DEF RunnerInv
<1>1. CASE UNCHANGED vars
  BY <1>0, <1>1 DEF vars, runnerVars, processVars, pipeVars
<1>2. CASE Spawn
  BY <1>0, <1>2 DEF Spawn, TypeOK
<1>3. CASE SpawnFails \/ PollFails \/ WaitFails
  BY <1>0, <1>3 DEF SpawnFails, PollFails, WaitFails, ReturnError
<1>4. CASE StartReaders
  BY <1>0, <1>4 DEF StartReaders, processVars
<1>5. CASE Poll
  BY <1>0, <1>5 DEF Poll, pipeVars, TypeOK
<1>6. CASE Sleep \/ Expire
  BY <1>0, <1>6 DEF Sleep, Expire, processVars
<1>7. CASE Kill \/ KillFails
  BY <1>0, <1>7 DEF Kill, KillFails, processVars
<1>8. CASE Wait
  BY <1>0, <1>8 DEF Wait, TypeOK
<1>9. CASE Join
  BY <1>0, <1>9 DEF Join
<1>10. CASE Tick
  BY <1>0, <1>10 DEF Tick, TypeOK, runnerVars, processVars, pipeVars
<1>11. CASE Readers
  BY <1>0, <1>11 DEF Readers, Read, EndOfStream, runnerVars, processVars, TypeOK
<1>12. ASSUME NEW p \in Members, NEW c \in Descendants, Fork(p, c)
       PROVE  RunnerPlace'
  BY <1>0, <1>12 DEF Fork, runnerVars, TypeOK
<1>13. ASSUME NEW p \in Members, LeaveGroup(p) PROVE RunnerPlace'
  BY <1>0, <1>13 DEF LeaveGroup, runnerVars, pipeVars
<1>14. ASSUME NEW p \in Members, NEW q \in Pipes, CloseEnd(p, q) \/ Write(p, q)
       PROVE  RunnerPlace'
  BY <1>0, <1>14 DEF CloseEnd, Write, runnerVars, processVars
<1>15. ASSUME NEW p \in Members, NEW code, Ends(p, code) PROVE RunnerPlace'
  BY <1>0, <1>15 DEF Ends, runnerVars, TypeOK
<1> QED
  BY <1>1, <1>2, <1>3, <1>4, <1>5, <1>6, <1>7, <1>8, <1>9, <1>10, <1>11,
     <1>12, <1>13, <1>14, <1>15
     DEF Next, Runner, RunnerFails, Program, Kernel, Exit, Dies

\* Nothing that the result speaks of changes once it is returned.
LEMMA ResultSettledStep == RunnerInv /\ [Next]_vars => ResultSettled'
<1> SUFFICES ASSUME RunnerInv, [Next]_vars PROVE ResultSettled'
  OBVIOUS
<1> USE DEF ResultSettled, Succeeded
<1>0. TypeOK /\ ReaderSawAll /\ RunnerPlace /\ ResultSettled
  BY DEF RunnerInv
<1>1. CASE UNCHANGED vars
  BY <1>0, <1>1 DEF vars, runnerVars, processVars, pipeVars
<1>2. CASE \/ Spawn \/ StartReaders \/ Poll \/ Sleep \/ Expire \/ Kill
           \/ KillFails \/ Wait
  BY <1>0, <1>2 DEF Spawn, StartReaders, Poll, Sleep, Expire, Kill, KillFails,
     Wait
<1>3. CASE SpawnFails \/ PollFails \/ WaitFails
  BY <1>3 DEF SpawnFails, PollFails, WaitFails, ReturnError, IoError
<1>4. CASE Join
  BY <1>0, <1>4 DEF Join, Output, RunnerPlace, processVars, pipeVars
<1>5. CASE Readers
  BY <1>0, <1>5 DEF Readers, Read, EndOfStream, ReaderSawAll, runnerVars,
     processVars, TypeOK
<1>6. CASE Tick
  BY <1>0, <1>6 DEF Tick, runnerVars, processVars, pipeVars
<1>7. ASSUME NEW p \in Members, NEW c \in Descendants, Fork(p, c)
      PROVE  ResultSettled'
  BY <1>0, <1>7 DEF Fork, runnerVars, TypeOK
<1>8. ASSUME NEW p \in Members, LeaveGroup(p) PROVE ResultSettled'
  BY <1>0, <1>8 DEF LeaveGroup, runnerVars, pipeVars
<1>9. ASSUME NEW p \in Members, NEW q \in Pipes, CloseEnd(p, q) \/ Write(p, q)
      PROVE  ResultSettled'
  BY <1>0, <1>9 DEF CloseEnd, Write, runnerVars, processVars
<1>10. ASSUME NEW p \in Members, NEW code, Ends(p, code) PROVE ResultSettled'
  BY <1>0, <1>10 DEF Ends, runnerVars, TypeOK
<1> QED
  BY <1>1, <1>2, <1>3, <1>4, <1>5, <1>6, <1>7, <1>8, <1>9, <1>10
     DEF Next, Runner, RunnerFails, Program, Kernel, Exit, Dies

\* The invariant that the safety theorems rest on.
THEOREM RunnerInvariant == Spec => []RunnerInv
<1>1. RunnerInv /\ [Next]_vars => RunnerInv'
  BY TypeStep, OnlyRunningStep, GroupDoomedStep, ReaderSawAllStep,
     RunnerPlaceStep, ResultSettledStep DEF RunnerInv
<1> QED
  BY InvInit, <1>1, PTL DEF Spec

-----------------------------------------------------------------------------
(* What a caller may rely on.                                              *)

\* An Ok carries all that any process ever writes: no output is cut off, not
\* even when the group was killed in the middle of a write.
THEOREM OutputIsComplete == Spec => []OutputComplete
<1>1. RunnerInv => OutputComplete
  BY DEF RunnerInv, ReaderSawAll, ResultSettled, OutputComplete
<1> QED
  BY RunnerInvariant, <1>1, PTL

\* An Ok leaves no zombie, and after an effective kill no surviving group.
THEOREM TimeoutLeavesNoGroup == Spec => []TimeoutKillsGroup
<1>1. RunnerInv => TimeoutKillsGroup
  BY DEF RunnerInv, GroupDoomed, ResultSettled, TimeoutKillsGroup
<1> QED
  BY RunnerInvariant, <1>1, PTL

\* The exit code and the timed_out flag say what happened to the leader.
THEOREM VerdictIsFaithful == Spec => []VerdictMatchesLeader
<1>1. RunnerInv => VerdictMatchesLeader
  BY DEF RunnerInv, RunnerPlace, ResultSettled, VerdictMatchesLeader
<1> QED
  BY RunnerInvariant, <1>1, PTL

\* The runner signals a group whose leader it has not reaped, and only once.
THEOREM KillsOwnGroupOnly == Spec => KillOnlyOwnGroup
<1>1. RunnerInv /\ [Next]_vars =>
        [(killed' # killed) => proc[Leader] \in {"running", "ended"} /\ ~killed]_vars
  <2> SUFFICES ASSUME RunnerInv, Next, killed' # killed
               PROVE  proc[Leader] \in {"running", "ended"} /\ ~killed
    BY DEF vars, runnerVars
  <2>1. Kill
    BY DEF Next, Runner, RunnerFails, Spawn, SpawnFails, StartReaders, Poll, PollFails,
       Sleep, Expire, KillFails, Wait, WaitFails, Join, ReturnError, Readers,
       Read, EndOfStream, Program, Fork, LeaveGroup, CloseEnd, Write, Exit,
       Ends, Kernel, Dies, Tick, runnerVars
  <2> QED
    BY <2>1 DEF Kill, RunnerInv, RunnerPlace
<1> QED
  BY RunnerInvariant, <1>1, PTL DEF Spec, KillOnlyOwnGroup

-----------------------------------------------------------------------------
(* The runner implements BoundedRun.                                       *)

USE DEF Phase, LeaderState, Answer

LEMMA PromiseInit == Init => Promise!Init
  BY DEF Init, Promise!Init, Promise!None, Pending

\* Every step is a step of BoundedRun, or none.  Join is Finish: it relies on
\* the readers that are done, and on the leader that is reaped.
LEMMA PromiseStep == RunnerInv /\ [Next]_vars => [Promise!Next]_(Promise!vars)
<1> SUFFICES ASSUME RunnerInv, [Next]_vars PROVE [Promise!Next]_(Promise!vars)
  OBVIOUS
<1> USE DEF Promise!vars
<1>0. TypeOK /\ OnlyRunningAct /\ ReaderSawAll /\ RunnerPlace /\ ResultSettled
  BY DEF RunnerInv
<1>1. CASE UNCHANGED vars
  BY <1>1 DEF vars, runnerVars, processVars, pipeVars
<1>2. CASE Spawn
  <2>1. Promise!Start
    BY <1>0, <1>2 DEF Spawn, Promise!Start, TypeOK
  <2> QED
    BY <2>1 DEF Promise!Next
<1>3. CASE SpawnFails \/ PollFails \/ WaitFails
  <2>1. Promise!Fail
    BY <1>0, <1>3 DEF SpawnFails, PollFails, WaitFails, ReturnError, IoError,
       Promise!Fail, Promise!Error, processVars, pipeVars
  <2> QED
    BY <2>1 DEF Promise!Next
<1>4. CASE StartReaders \/ Sleep \/ Kill \/ KillFails \/ Tick
  BY <1>4 DEF StartReaders, Sleep, Kill, KillFails, Tick, runnerVars,
     processVars, pipeVars
<1>5. CASE Poll \/ Wait
  BY <1>0, <1>5 DEF Poll, Wait, TypeOK, pipeVars
<1>6. CASE Expire
  <2>1. Promise!Expire
    BY <1>6 DEF Expire, Promise!Expire, processVars, pipeVars
  <2> QED
    BY <2>1 DEF Promise!Next
<1>7. CASE Join
  <2>1. captured = written
    BY <1>0, <1>7 DEF Join, ReaderSawAll, TypeOK
  <2>2. Promise!Finish
    BY <1>0, <1>7, <2>1 DEF Join, Output, RunnerPlace, Promise!Finish,
       processVars, pipeVars
  <2> QED
    BY <2>2 DEF Promise!Next
<1>8. CASE Readers
  BY <1>8 DEF Readers, Read, EndOfStream, runnerVars, processVars
<1>9. ASSUME NEW p \in Members, NEW q \in Pipes, Write(p, q)
      PROVE  [Promise!Next]_(Promise!vars)
  <2>1. ~Succeeded
    BY <1>0, <1>9 DEF Write, ReaderSawAll, ResultSettled
  <2>2. result \in {Pending, IoError}
    BY <1>0, <2>1 DEF TypeOK, Succeeded
  <2>3. Answer \in {Promise!None, Promise!Error}
    BY <2>2 DEF Pending, IoError, Promise!None, Promise!Error
  <2>4. Promise!Say(q)
    BY <1>9, <2>3 DEF Write, Promise!Say, runnerVars, processVars
  <2> QED
    BY <1>9, <2>4 DEF Promise!Next
<1>10. ASSUME NEW p \in Members, NEW c \in Descendants, Fork(p, c)
       PROVE  [Promise!Next]_(Promise!vars)
  BY <1>0, <1>10, RunnerAssumption DEF Fork, TypeOK, runnerVars
<1>11. ASSUME NEW p \in Members,
              LeaveGroup(p) \/ \E q \in Pipes : CloseEnd(p, q)
       PROVE  [Promise!Next]_(Promise!vars)
  BY <1>11 DEF LeaveGroup, CloseEnd, runnerVars, processVars, pipeVars
<1>12. ASSUME NEW p \in Members, NEW code, Ends(p, code)
       PROVE  [Promise!Next]_(Promise!vars)
  <2>1. CASE p = Leader
    <3>1. Promise!End
      BY <1>0, <1>12, <2>1 DEF Ends, TypeOK, Promise!End, runnerVars
    <3> QED
      BY <3>1 DEF Promise!Next
  <2>2. CASE p # Leader
    BY <1>0, <1>12, <2>2 DEF Ends, TypeOK, runnerVars
  <2> QED
    BY <2>1, <2>2
<1> QED
  BY <1>1, <1>2, <1>3, <1>4, <1>5, <1>6, <1>7, <1>8, <1>9, <1>10, <1>11, <1>12
     DEF Next, Runner, RunnerFails, Program, Kernel, Exit, Dies

\* run_command_with_timeout does what execute promises of a run.
THEOREM RunnerKeepsPromise == Spec => KeepsPromise
  BY PromiseInit, RunnerInvariant, PromiseStep, PTL DEF Spec, KeepsPromise, Promise!Spec
=============================================================================
