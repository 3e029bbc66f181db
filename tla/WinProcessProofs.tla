-------------------------- MODULE WinProcessProofs --------------------------
(***************************************************************************)
(* Theorems about WinProcess, for any number of calls in one caller and    *)
(* any number of processes that their programs start.                      *)
(*                                                                         *)
(* WinInv is the inductive invariant; each of its parts has a lemma that   *)
(* goes through the actions.                                               *)
(***************************************************************************)
EXTENDS WinProcess, TLAPS

Early == {"pipes", "job", "attributes", "create"}
Late  == {"wait", "code", "terminate", "release", "join"}

\* The program is created at "create" and the reader is started at "started".
CallPlace ==
    \A c \in Calls :
        /\ pc[c] \in Early => proc[c] = "unborn"
        /\ pc[c] \in Late \cup {"started"} => proc[c] # "unborn"
        /\ pc[c] \in Early \cup {"started"} => reader[c] = "none"
        /\ pc[c] \in Late => reader[c] # "none"
        /\ pc[c] = "create" \/ proc[c] # "unborn" => reason[c] \/ c \in restricted
        /\ result[c] = Pending <=> pc[c] # "returned"

\* What the caller closes, it closes in time: the child's ends before the
\* reader starts, the job before the join, the read end with the reader.
HandlesPlace ==
    \A c \in Calls :
        /\ reader[c] # "none" => open[c] \subseteq {"out_r", "job", "process"}
        /\ reader[c] = "done" => "out_r" \notin open[c]
        /\ pc[c] = "join" => open[c] \subseteq {"out_r"}
        /\ pc[c] = "returned" => open[c] = {} \/ "job" \in faults[c]

\* A reader that is done has seen everything, and nobody can add to it.
ReaderSawAll ==
    \A c \in Calls :
        /\ captured[c] <= Readable(c) /\ Readable(c) <= written[c]
        /\ reader[c] = "done" =>
              /\ captured[c] = Readable(c)
              /\ emptyAt[c] = Nowhere => writers[c] = {}

\* A process is in the job of the call that it descends from.
JobOfCall ==
    \A p \in Processes, c \in Calls :
        /\ job[p] = c => proc[p] # "unborn" /\ proc[c] # "unborn"
        /\ p = c /\ proc[p] # "unborn" => job[p] = c
        /\ job[p] = c /\ c \in restricted => p = c

\* The job is closed before the join, and a process in it that is being
\* terminated starts no other.
JobDoomed ==
    \A c \in Calls :
        pc[c] = "join" \/ Succeeded(c) => InJob(c) \cap Running \subseteq doomed

\* What the locals mean for the result.
VerdictPlace ==
    \A c \in Calls :
        /\ timedOut[c] => Milliseconds(c) # INFINITE /\ waited[c] >= Milliseconds(c)
        /\ pc[c] \in Early \cup {"started", "wait", "code"} => ~timedOut[c]
        /\ pc[c] = "terminate" => timedOut[c]
        /\ pc[c] = "code" /\ "wait" \notin faults[c] => proc[c] = "ended"
        /\ (pc[c] \in {"release", "join"} \/ Succeeded(c)) /\ ~timedOut[c]
              /\ faults[c] \cap {"wait", "code"} = {}
                  => proc[c] = "ended" /\ code[c] = status[c]

\* The result is made of the locals at the join, which stay as they are.
ResultSettled ==
    \A c \in Calls :
        Succeeded(c) => result[c] = Output(c) /\ reader[c] = "done" /\ proc[c] # "unborn"

WinInv ==
    /\ TypeOK /\ CallPlace /\ HandlesPlace /\ ReaderSawAll
    /\ JobOfCall /\ JobDoomed /\ VerdictPlace /\ ResultSettled

-----------------------------------------------------------------------------
(* Initial states.                                                         *)

USE ProcessAssumption

LEMMA InitInv == Init => WinInv
<1> SUFFICES ASSUME Init PROVE WinInv
  OBVIOUS
<1> USE DEF Init, Processes, Nowhere, Running, Pending
<1>1. TypeOK
  BY DEF TypeOK
<1>2. CallPlace
  BY DEF CallPlace, Early, Late
<1>3. HandlesPlace /\ ReaderSawAll
  BY DEF HandlesPlace, ReaderSawAll, Readable
<1>4. JobOfCall /\ JobDoomed /\ ResultSettled
  BY DEF JobOfCall, JobDoomed, ResultSettled, Succeeded
<1>5. VerdictPlace
  BY DEF VerdictPlace, Early, Succeeded
<1> QED
  BY <1>1, <1>2, <1>3, <1>4, <1>5 DEF WinInv

-----------------------------------------------------------------------------
(* Types.                                                                  *)

LEMMA FaultNames ==
    ASSUME NEW c \in Calls, NEW name, Fault(c, name)
    PROVE  name \in MayFail /\ faults' = [faults EXCEPT ![c] = @ \cup {name}]
  BY DEF Fault

LEMMA ReadableType == ASSUME TypeOK, NEW c \in Calls PROVE Readable(c) \in 0..MaxWrites
  BY DEF TypeOK, Readable, Nowhere

\* Each action leaves every variable in its type.
LEMMA TypeStep == TypeOK /\ [Next]_vars => TypeOK'
<1> SUFFICES ASSUME TypeOK, [Next]_vars PROVE TypeOK'
  OBVIOUS
<1> USE DEF TypeOK, Processes, Running, Goto, At, callVars, procVars, pipeVars
<1>1. CASE UNCHANGED vars
  BY <1>1 DEF vars
<1>2. ASSUME NEW c \in Calls, Call(c) PROVE TypeOK'
  <2>1. CASE SetupPipes(c) \/ CreateJob(c) \/ Prepare(c) \/ StartReaders(c)
    BY <2>1 DEF SetupPipes, CreateJob, Prepare, StartReaders, Pipes
  <2>2. CASE CreateProcess(c)
    BY <2>2 DEF CreateProcess, Pipes
  <2>3. CASE WaitEnds(c)
    BY <2>3 DEF WaitEnds, Waited
  <2>4. CASE WaitTimesOut(c)
    BY <2>4 DEF WaitTimesOut, Waited
  <2>5. CASE Terminate(c)
    BY <2>5 DEF Terminate
  <2>6. CASE CloseJob(c)
    BY <2>6 DEF CloseJob
  <2>7. CASE GetExitCode(c)
    BY <2>7 DEF GetExitCode
  <2>8. CASE Join(c)
    BY <2>8 DEF Join, Output
  <2> QED
    BY <1>2, <2>1, <2>2, <2>3, <2>4, <2>5, <2>6, <2>7, <2>8 DEF Call
<1>3. ASSUME NEW c \in Calls, CallFails(c) PROVE TypeOK'
  <2>1. ASSUME NEW name, NEW left \in SUBSET (Pipes \cup {"job", "process"}),
               Fails(c, name, left)
        PROVE  TypeOK'
    BY <2>1, FaultNames DEF Fails
  <2>2. CASE SetupPipesFails(c) \/ CreateJobFails(c) \/ PrepareFails(c) \/ CreateProcessFails(c)
    BY <2>1, <2>2 DEF SetupPipesFails, CreateJobFails, PrepareFails, CreateProcessFails
  <2>3. CASE PrepareDegraded(c)
    BY <2>3, FaultNames DEF PrepareDegraded
  <2>4. CASE WaitFails(c) \/ TerminateFails(c) \/ GetExitCodeFails(c)
    BY <2>4, FaultNames DEF WaitFails, Waited, TerminateFails, GetExitCodeFails
  <2> QED
    BY <1>3, <2>2, <2>3, <2>4 DEF CallFails
<1>4. ASSUME NEW c \in Calls, Readers(c) \/ Tick(c) PROVE TypeOK'
  <2>1. CASE Read(c)
    BY <2>1, ReadableType DEF Read
  <2>2. CASE EndOfStream(c)
    BY <2>2 DEF EndOfStream
  <2>3. CASE Tick(c)
    BY <2>3 DEF Tick
  <2> QED
    BY <1>4, <2>1, <2>2, <2>3 DEF Readers
<1>5. ASSUME NEW p \in Running, NEW child \in Descendants, StartProcess(p, child)
      PROVE  TypeOK'
  BY <1>5 DEF StartProcess
<1>6. ASSUME NEW p \in Running, NEW c \in Calls,
             Write(p, c) \/ WriteNothing(p, c) \/ CloseEnd(p, c)
      PROVE  TypeOK'
  <2>1. CASE Write(p, c)
    BY <2>1, ProcessAssumption DEF Write
  <2>2. CASE WriteNothing(p, c)
    BY <2>2 DEF WriteNothing
  <2>3. CASE CloseEnd(p, c)
    BY <2>3 DEF CloseEnd
  <2> QED
    BY <1>6, <2>1, <2>2, <2>3
<1>7. ASSUME NEW p \in Processes, NEW e \in ExitCodes \cup {1}, Ends(p, e)
      PROVE  TypeOK'
  BY <1>7 DEF Ends
<1> QED
  BY <1>1, <1>2, <1>3, <1>4, <1>5, <1>6, <1>7 DEF Next, Program, Dies

-----------------------------------------------------------------------------
(* Where a call stands.                                                    *)

EarlyFailure(c) ==
    SetupPipesFails(c) \/ CreateJobFails(c) \/ PrepareFails(c) \/ CreateProcessFails(c)

\* An error is returned only before the program is created, and leaves handles
\* open only when the job could not be created.
LEMMA EarlyFailureIs ==
    ASSUME NEW c \in Calls, EarlyFailure(c)
    PROVE  \E name, left :
               Fails(c, name, left) /\ pc[c] \in Early /\ (left = {} \/ name = "job")
<1>1. CASE SetupPipesFails(c)
  BY <1>1 DEF SetupPipesFails, Early, At
<1>2. CASE CreateJobFails(c)
  BY <1>2 DEF CreateJobFails, Early, At
<1>3. CASE PrepareFails(c)
  BY <1>3 DEF PrepareFails, Early, At
<1>4. CASE CreateProcessFails(c)
  BY <1>4 DEF CreateProcessFails, Early, At
<1> QED
  BY <1>1, <1>2, <1>3, <1>4 DEF EarlyFailure

\* The places of a call and its program, its reader and its result go together.
LEMMA CallPlaceStep == TypeOK /\ CallPlace /\ [Next]_vars => CallPlace'
<1> SUFFICES ASSUME TypeOK, CallPlace, [Next]_vars PROVE CallPlace'
  OBVIOUS
<1> USE DEF TypeOK, CallPlace, Early, Late, Processes, Goto, At, callVars, procVars, pipeVars
<1>1. CASE UNCHANGED vars
  BY <1>1 DEF vars
<1>2. ASSUME NEW c \in Calls, Call(c) PROVE CallPlace'
  <2>1. CASE SetupPipes(c) \/ CreateJob(c) \/ Prepare(c)
    BY <2>1 DEF SetupPipes, CreateJob, Prepare
  <2>2. CASE CreateProcess(c)
    BY <2>2 DEF CreateProcess
  <2>3. CASE StartReaders(c)
    BY <2>3 DEF StartReaders
  <2>4. CASE WaitEnds(c) \/ WaitTimesOut(c)
    BY <2>4 DEF WaitEnds, WaitTimesOut, Waited
  <2>5. CASE Terminate(c) \/ CloseJob(c) \/ GetExitCode(c)
    BY <2>5 DEF Terminate, CloseJob, GetExitCode
  <2>6. CASE Join(c)
    BY <2>6 DEF Join, Output, Pending
  <2> QED
    BY <1>2, <2>1, <2>2, <2>3, <2>4, <2>5, <2>6 DEF Call
<1>3. ASSUME NEW c \in Calls, CallFails(c) PROVE CallPlace'
  <2>1. CASE EarlyFailure(c)
    BY <2>1, EarlyFailureIs DEF Fails, Pending, WindowsError
  <2>2. CASE PrepareDegraded(c)
    BY <2>2 DEF PrepareDegraded
  <2>3. CASE WaitFails(c) \/ TerminateFails(c) \/ GetExitCodeFails(c)
    BY <2>3 DEF WaitFails, Waited, TerminateFails, GetExitCodeFails
  <2> QED
    BY <1>3, <2>1, <2>2, <2>3 DEF CallFails, EarlyFailure
<1>4. ASSUME NEW c \in Calls, Readers(c) \/ Tick(c) PROVE CallPlace'
  BY <1>4 DEF Readers, Read, EndOfStream, Tick
<1>5. ASSUME NEW p \in Running, NEW child \in Descendants, StartProcess(p, child)
      PROVE  CallPlace'
  BY <1>5 DEF StartProcess
<1>6. ASSUME NEW p \in Running, NEW c \in Calls,
             Write(p, c) \/ WriteNothing(p, c) \/ CloseEnd(p, c)
      PROVE  CallPlace'
  <2>1. UNCHANGED <<callVars, procVars, reader>>
    BY <1>6 DEF Write, WriteNothing, CloseEnd
  <2> QED
    BY <2>1
<1>7. ASSUME NEW p \in Processes, NEW e, Ends(p, e) PROVE CallPlace'
  BY <1>7 DEF Ends, Running
<1> QED
  BY <1>1, <1>2, <1>3, <1>4, <1>5, <1>6, <1>7 DEF Next, Program, Dies, Running

\* Handles are closed in the order that the code closes them.
LEMMA HandlesStep == TypeOK /\ CallPlace /\ HandlesPlace /\ [Next]_vars => HandlesPlace'
<1> SUFFICES ASSUME TypeOK, CallPlace, HandlesPlace, [Next]_vars PROVE HandlesPlace'
  OBVIOUS
<1> USE DEF TypeOK, HandlesPlace, Goto, At, callVars, procVars, pipeVars
<1>1. CASE UNCHANGED vars
  BY <1>1 DEF vars
<1>2. ASSUME NEW c \in Calls, Call(c) PROVE HandlesPlace'
  <2>1. CASE SetupPipes(c) \/ CreateJob(c) \/ Prepare(c) \/ CreateProcess(c)
    <3>1. reader[c] = "none" /\ reader' = reader
      BY <2>1 DEF CallPlace, Early, SetupPipes, CreateJob, Prepare, CreateProcess
    <3> QED
      BY <2>1, <3>1 DEF SetupPipes, CreateJob, Prepare, CreateProcess
  <2>2. CASE StartReaders(c)
    BY <2>2 DEF StartReaders, Pipes
  <2>3. CASE WaitEnds(c) \/ WaitTimesOut(c)
    BY <2>3 DEF WaitEnds, WaitTimesOut, Waited
  <2>4. CASE Terminate(c) \/ GetExitCode(c)
    BY <2>4 DEF Terminate, GetExitCode
  <2>5. CASE CloseJob(c)
    BY <2>5 DEF CloseJob, CallPlace, Late
  <2>6. CASE Join(c)
    BY <2>6 DEF Join
  <2> QED
    BY <1>2, <2>1, <2>2, <2>3, <2>4, <2>5, <2>6 DEF Call
<1>3. ASSUME NEW c \in Calls, CallFails(c) PROVE HandlesPlace'
  <2>1. CASE EarlyFailure(c)
    BY <2>1, EarlyFailureIs, FaultNames DEF Fails, CallPlace
  <2>2. CASE PrepareDegraded(c)
    BY <2>2, FaultNames DEF PrepareDegraded
  <2>3. CASE WaitFails(c) \/ TerminateFails(c) \/ GetExitCodeFails(c)
    BY <2>3, FaultNames DEF WaitFails, Waited, TerminateFails, GetExitCodeFails
  <2> QED
    BY <1>3, <2>1, <2>2, <2>3 DEF CallFails, EarlyFailure
<1>4. ASSUME NEW c \in Calls, Readers(c) \/ Tick(c) PROVE HandlesPlace'
  BY <1>4 DEF Readers, Read, EndOfStream, Tick
<1>5. CASE Program \/ \E p \in Processes : Dies(p)
  BY <1>5 DEF Program, StartProcess, Write, WriteNothing, CloseEnd, Ends, Dies
<1> QED
  BY <1>1, <1>2, <1>3, <1>4, <1>5 DEF Next

\* A reader that is done stays up to date: no process can get hold of the pipe
\* any more, and none can write to it.
LEMMA ReaderStep ==
    TypeOK /\ CallPlace /\ HandlesPlace /\ ReaderSawAll /\ [Next]_vars => ReaderSawAll'
<1> SUFFICES ASSUME TypeOK, CallPlace, HandlesPlace, ReaderSawAll, [Next]_vars
             PROVE  ReaderSawAll'
  OBVIOUS
<1> USE DEF TypeOK, ReaderSawAll, Readable, Nowhere, callVars, procVars, pipeVars
<1>1. CASE UNCHANGED vars
  BY <1>1 DEF vars
<1>2. ASSUME NEW c \in Calls, Call(c) PROVE ReaderSawAll'
  <2>1. CASE CreateProcess(c)
    BY <2>1 DEF CreateProcess, HandlesPlace
  <2>2. CASE StartReaders(c)
    BY <2>2 DEF StartReaders
  <2>3. CASE ~(CreateProcess(c) \/ StartReaders(c))
    <3>1. UNCHANGED pipeVars
      BY <1>2, <2>3 DEF Call, SetupPipes, CreateJob, Prepare, WaitEnds, WaitTimesOut,
         Waited, Terminate, GetExitCode, CloseJob, Join
    <3> QED
      BY <3>1
  <2> QED
    BY <2>1, <2>2, <2>3
<1>3. ASSUME NEW c \in Calls, CallFails(c) \/ Tick(c) PROVE ReaderSawAll'
  <2>1. UNCHANGED pipeVars
    BY <1>3 DEF CallFails, SetupPipesFails, CreateJobFails, PrepareDegraded, PrepareFails,
       CreateProcessFails, Fails, WaitFails, Waited, TerminateFails, GetExitCodeFails, Tick
  <2> QED
    BY <2>1
<1>4. ASSUME NEW c \in Calls, Readers(c) PROVE ReaderSawAll'
  BY <1>4 DEF Readers, Read, EndOfStream
<1>5. ASSUME NEW p \in Running, NEW child \in Descendants, StartProcess(p, child)
      PROVE  ReaderSawAll'
  BY <1>5 DEF StartProcess
<1>6. ASSUME NEW p \in Running, NEW c \in Calls, Write(p, c)
      PROVE  ReaderSawAll'
  BY <1>6 DEF Write, CanWrite
<1>7. ASSUME NEW p \in Running, NEW c \in Calls, WriteNothing(p, c)
      PROVE  ReaderSawAll'
  BY <1>7 DEF WriteNothing, CanWrite
<1>8. ASSUME NEW p \in Running, NEW c \in Calls, CloseEnd(p, c)
      PROVE  ReaderSawAll'
  BY <1>8 DEF CloseEnd
<1>9. ASSUME NEW p \in Processes, NEW e, Ends(p, e) PROVE ReaderSawAll'
  BY <1>9 DEF Ends
<1> QED
  BY <1>1, <1>2, <1>3, <1>4, <1>5, <1>6, <1>7, <1>8, <1>9 DEF Next, Program, Dies, Running

-----------------------------------------------------------------------------
(* The job.                                                                *)

\* A process enters the job of its parent, and none is in the job of a call
\* whose program may start no process.
LEMMA JobStep == TypeOK /\ CallPlace /\ JobOfCall /\ [Next]_vars => JobOfCall'
<1> SUFFICES ASSUME TypeOK, CallPlace, JobOfCall, [Next]_vars PROVE JobOfCall'
  OBVIOUS
<1> USE DEF TypeOK, JobOfCall, Processes, callVars, procVars, pipeVars
<1>1. CASE UNCHANGED vars
  BY <1>1 DEF vars
<1>2. ASSUME NEW c \in Calls, Call(c) PROVE JobOfCall'
  <2>1. CASE CreateProcess(c)
    BY <2>1 DEF CreateProcess, CallPlace, Early, At
  <2>2. CASE Prepare(c)
    BY <2>2 DEF Prepare, CallPlace, Early, At
  <2>3. CASE ~(CreateProcess(c) \/ Prepare(c))
    <3>1. UNCHANGED <<proc, job, restricted>>
      BY <1>2, <2>3 DEF Call, SetupPipes, CreateJob, StartReaders, WaitEnds, WaitTimesOut,
         Waited, Terminate, GetExitCode, CloseJob, Join
    <3> QED
      BY <3>1
  <2> QED
    BY <2>1, <2>2, <2>3
<1>3. ASSUME NEW c \in Calls, CallFails(c) \/ Readers(c) \/ Tick(c) PROVE JobOfCall'
  <2>1. UNCHANGED procVars
    BY <1>3 DEF CallFails, SetupPipesFails, CreateJobFails, PrepareDegraded, PrepareFails,
       CreateProcessFails, Fails, WaitFails, Waited, TerminateFails, GetExitCodeFails,
       Readers, Read, EndOfStream, Tick
  <2> QED
    BY <2>1
<1>4. ASSUME NEW p \in Running, NEW child \in Descendants, StartProcess(p, child)
      PROVE  JobOfCall'
  BY <1>4 DEF StartProcess, Running
<1>5. ASSUME NEW p \in Running, NEW c \in Calls,
             Write(p, c) \/ WriteNothing(p, c) \/ CloseEnd(p, c)
      PROVE  JobOfCall'
  <2>1. UNCHANGED procVars
    BY <1>5 DEF Write, WriteNothing, CloseEnd
  <2> QED
    BY <2>1
<1>6. ASSUME NEW p \in Processes, NEW e, Ends(p, e) PROVE JobOfCall'
  BY <1>6 DEF Ends, Running
<1> QED
  BY <1>1, <1>2, <1>3, <1>4, <1>5, <1>6 DEF Next, Program, Dies, Running

\* Only the thread of a call gives it a result, at the join.
LEMMA SucceedsAtJoin ==
    ASSUME TypeOK, CallPlace, [Next]_vars, NEW d \in Calls, Succeeded(d)', ~Succeeded(d)
    PROVE  Join(d)
<1> USE DEF TypeOK, CallPlace, Succeeded, callVars, procVars, pipeVars
<1>1. CASE UNCHANGED vars
  BY <1>1 DEF vars
<1>2. ASSUME NEW c \in Calls, Call(c) PROVE Join(d)
  <2>1. CASE Join(c)
    BY <2>1 DEF Join
  <2>2. CASE ~Join(c)
    BY <1>2, <2>2 DEF Call, SetupPipes, CreateJob, Prepare, CreateProcess, StartReaders,
       WaitEnds, WaitTimesOut, Waited, Terminate, GetExitCode, CloseJob
  <2> QED
    BY <2>1, <2>2
<1>3. ASSUME NEW c \in Calls, CallFails(c) PROVE Join(d)
  <2>1. CASE EarlyFailure(c)
    BY <2>1, EarlyFailureIs DEF Fails, WindowsError
  <2>2. CASE ~EarlyFailure(c)
    BY <1>3, <2>2 DEF CallFails, EarlyFailure, PrepareDegraded, WaitFails, Waited,
       TerminateFails, GetExitCodeFails
  <2> QED
    BY <2>1, <2>2
<1>4. CASE (\E c \in Calls : Readers(c) \/ Tick(c)) \/ Program \/ \E p \in Processes : Dies(p)
  BY <1>4 DEF Readers, Read, EndOfStream, Tick, Program, StartProcess, Write, WriteNothing,
     CloseEnd, Ends, Dies
<1> QED
  BY <1>1, <1>2, <1>3, <1>4 DEF Next

\* Closing the job dooms what is in it, and what is doomed starts no other.
LEMMA DoomedStep ==
    TypeOK /\ CallPlace /\ JobOfCall /\ JobDoomed /\ [Next]_vars => JobDoomed'
<1> SUFFICES ASSUME TypeOK, CallPlace, JobOfCall, JobDoomed, [Next]_vars,
                    NEW d \in Calls, pc'[d] = "join" \/ Succeeded(d)',
                    NEW q \in Processes, job'[q] = d, proc'[q] = "running"
             PROVE  q \in doomed'
  BY DEF JobDoomed, InJob, Running
<1> DEFINE Closed == pc[d] = "join" \/ Succeeded(d)
<1> USE DEF TypeOK, Processes, Running, callVars, procVars, pipeVars
<1>0. Closed /\ job[q] = d /\ proc[q] = "running" => q \in doomed
  BY DEF JobDoomed, InJob
<1>1. CASE UNCHANGED vars
  BY <1>0, <1>1 DEF vars, Succeeded
<1>2. ASSUME NEW c \in Calls, Call(c) PROVE q \in doomed'
  <2>1. CASE CreateProcess(c)
    BY <1>0, <2>1 DEF CreateProcess, CallPlace, Goto, At, Succeeded, Pending
  <2>2. CASE CloseJob(c)
    BY <1>0, <2>2 DEF CloseJob, InJob, Goto, At, Succeeded
  <2>3. CASE Terminate(c)
    BY <1>0, <2>3 DEF Terminate, Goto, At, Succeeded
  <2>4. CASE Join(c)
    BY <1>0, <2>4 DEF Join, Goto, At, Succeeded
  <2>5. CASE ~(CreateProcess(c) \/ CloseJob(c) \/ Terminate(c) \/ Join(c))
    BY <1>0, <1>2, <2>5 DEF Call, SetupPipes, CreateJob, Prepare, StartReaders, WaitEnds,
       WaitTimesOut, Waited, GetExitCode, Goto, At, Succeeded
  <2> QED
    BY <2>1, <2>2, <2>3, <2>4, <2>5
<1>3. ASSUME NEW c \in Calls, CallFails(c) PROVE q \in doomed'
  <2>1. CASE EarlyFailure(c)
    BY <1>0, <2>1, EarlyFailureIs DEF Fails, WindowsError, Goto, Succeeded
  <2>2. CASE ~EarlyFailure(c)
    BY <1>0, <1>3, <2>2 DEF CallFails, EarlyFailure, PrepareDegraded, WaitFails, Waited,
       TerminateFails, GetExitCodeFails, Goto, At, Succeeded
  <2> QED
    BY <2>1, <2>2
<1>4. ASSUME NEW c \in Calls, Readers(c) \/ Tick(c) PROVE q \in doomed'
  BY <1>0, <1>4 DEF Readers, Read, EndOfStream, Tick, Succeeded
<1>5. ASSUME NEW p \in Running, NEW child \in Descendants, StartProcess(p, child)
      PROVE  q \in doomed'
  <2>1. Closed /\ doomed' = doomed
    BY <1>5 DEF StartProcess, Succeeded
  <2>2. q # child
    BY <1>5, <2>1 DEF StartProcess, JobDoomed, InJob
  <2> QED
    BY <1>0, <1>5, <2>1, <2>2 DEF StartProcess
<1>6. ASSUME NEW p \in Running, NEW c \in Calls,
             Write(p, c) \/ WriteNothing(p, c) \/ CloseEnd(p, c)
      PROVE  q \in doomed'
  BY <1>0, <1>6 DEF Write, WriteNothing, CloseEnd, Succeeded
<1>7. ASSUME NEW p \in Processes, NEW e, Ends(p, e) PROVE q \in doomed'
  BY <1>0, <1>7 DEF Ends, Succeeded
<1> QED
  BY <1>1, <1>2, <1>3, <1>4, <1>5, <1>6, <1>7 DEF Next, Program, Dies

-----------------------------------------------------------------------------
(* The verdict and the result.                                             *)

\* A call that has returned changes nothing any more.
Stays(d) ==
    /\ pc'[d] = pc[d] /\ result'[d] = result[d] /\ timedOut'[d] = timedOut[d]
    /\ code'[d] = code[d] /\ reason'[d] = reason[d]
    /\ reader[d] = "done" => reader'[d] = "done" /\ captured'[d] = captured[d]
    /\ proc[d] # "unborn" => proc'[d] # "unborn"

LEMMA ReturnedStays ==
    ASSUME TypeOK, CallPlace, [Next]_vars, NEW d \in Calls, pc[d] = "returned"
    PROVE  Stays(d)
<1> USE DEF TypeOK, Stays, Processes, Goto, At, callVars, procVars, pipeVars
<1>1. CASE UNCHANGED vars
  BY <1>1 DEF vars
<1>2. ASSUME NEW c \in Calls, Call(c) PROVE Stays(d)
  <2>1. CASE StartReaders(c) \/ CreateProcess(c)
    BY <2>1 DEF StartReaders, CreateProcess
  <2>2. CASE Join(c) \/ GetExitCode(c)
    BY <2>2 DEF Join, GetExitCode
  <2>3. CASE SetupPipes(c) \/ CreateJob(c) \/ Prepare(c)
    BY <2>3 DEF SetupPipes, CreateJob, Prepare
  <2>4. CASE WaitEnds(c) \/ WaitTimesOut(c) \/ Terminate(c) \/ CloseJob(c)
    BY <2>4 DEF WaitEnds, WaitTimesOut, Waited, Terminate, CloseJob
  <2> QED
    BY <1>2, <2>1, <2>2, <2>3, <2>4 DEF Call
<1>3. ASSUME NEW c \in Calls, CallFails(c) PROVE Stays(d)
  <2>1. CASE EarlyFailure(c)
    BY <2>1, EarlyFailureIs DEF Fails, Early
  <2>2. CASE ~EarlyFailure(c)
    BY <1>3, <2>2 DEF CallFails, EarlyFailure, PrepareDegraded, WaitFails, Waited,
       TerminateFails, GetExitCodeFails
  <2> QED
    BY <2>1, <2>2
<1>4. ASSUME NEW c \in Calls, Readers(c) \/ Tick(c) PROVE Stays(d)
  BY <1>4 DEF Readers, Read, EndOfStream, Tick
<1>5. CASE Program \/ \E p \in Processes : Dies(p)
  BY <1>5 DEF Program, StartProcess, Write, WriteNothing, CloseEnd, Ends, Dies
<1> QED
  BY <1>1, <1>2, <1>3, <1>4, <1>5 DEF Next

\* The result, once it is there, says what the locals say.
LEMMA ResultStep ==
    TypeOK /\ CallPlace /\ ResultSettled /\ [Next]_vars => ResultSettled'
<1> SUFFICES ASSUME TypeOK, CallPlace, ResultSettled, [Next]_vars,
                    NEW d \in Calls, Succeeded(d)'
             PROVE  (result[d] = Output(d) /\ reader[d] = "done" /\ proc[d] # "unborn")'
  BY DEF ResultSettled
<1>1. CASE ~Succeeded(d)
  <2>1. Join(d)
    BY <1>1, SucceedsAtJoin
  <2> QED
    BY <2>1 DEF Join, Output, TypeOK, CallPlace, Late, At, procVars, pipeVars
<1>2. CASE Succeeded(d)
  <2>1. /\ pc[d] = "returned" /\ reader[d] = "done" /\ proc[d] # "unborn"
        /\ result[d] = Output(d)
    BY <1>2 DEF ResultSettled, CallPlace, Succeeded, Pending
  <2> QED
    BY <2>1, ReturnedStays DEF Stays, Output
<1> QED
  BY <1>1, <1>2

\* What a call knows when it decides on the verdict stays true: a program that
\* has ended keeps its status.
LEMMA VerdictStep ==
    TypeOK /\ CallPlace /\ VerdictPlace /\ [Next]_vars => VerdictPlace'
<1> SUFFICES ASSUME TypeOK, CallPlace, VerdictPlace, [Next]_vars
             PROVE  VerdictPlace'
  OBVIOUS
<1> USE DEF TypeOK, VerdictPlace, Early, Processes, Succeeded, Goto, At,
        callVars, procVars, pipeVars
<1>1. CASE UNCHANGED vars
  BY <1>1 DEF vars, Milliseconds
<1>2. ASSUME NEW c \in Calls, Call(c) PROVE VerdictPlace'
  <2>0. \A d \in Calls : Milliseconds(d)' = Milliseconds(d)
    BY <1>2 DEF Milliseconds, Call, SetupPipes, CreateJob, Prepare, CreateProcess,
       StartReaders, WaitEnds, WaitTimesOut, Waited, Terminate, GetExitCode, CloseJob, Join
  <2>1. CASE SetupPipes(c) \/ CreateJob(c) \/ Prepare(c) \/ StartReaders(c)
    BY <2>0, <2>1 DEF SetupPipes, CreateJob, Prepare, StartReaders
  <2>2. CASE CreateProcess(c)
    BY <2>0, <2>2 DEF CreateProcess, CallPlace
  <2>3. CASE WaitEnds(c)
    BY <2>0, <2>3 DEF WaitEnds, Waited
  <2>4. CASE WaitTimesOut(c)
    BY <2>0, <2>4 DEF WaitTimesOut, Waited
  <2>5. CASE Terminate(c)
    BY <2>0, <2>5 DEF Terminate
  <2>6. CASE GetExitCode(c)
    BY <2>0, <2>6 DEF GetExitCode
  <2>7. CASE CloseJob(c)
    BY <2>0, <2>7 DEF CloseJob
  <2>8. CASE Join(c)
    BY <2>0, <2>8 DEF Join
  <2> QED
    BY <1>2, <2>1, <2>2, <2>3, <2>4, <2>5, <2>6, <2>7, <2>8 DEF Call
<1>3. ASSUME NEW c \in Calls, CallFails(c) PROVE VerdictPlace'
  <2>0. \A d \in Calls : Milliseconds(d)' = Milliseconds(d)
    BY <1>3 DEF Milliseconds, CallFails, SetupPipesFails, CreateJobFails, PrepareDegraded,
       PrepareFails, CreateProcessFails, Fails, WaitFails, Waited, TerminateFails,
       GetExitCodeFails
  <2>1. CASE EarlyFailure(c)
    BY <2>0, <2>1, EarlyFailureIs, FaultNames DEF Fails, WindowsError
  <2>2. CASE PrepareDegraded(c)
    BY <2>0, <2>2, FaultNames DEF PrepareDegraded
  <2>3. CASE WaitFails(c)
    BY <2>0, <2>3, FaultNames DEF WaitFails, Waited
  <2>4. CASE TerminateFails(c)
    BY <2>0, <2>4, FaultNames DEF TerminateFails
  <2>5. CASE GetExitCodeFails(c)
    <3>1. faults' = [faults EXCEPT ![c] = @ \cup {"code"}]
      BY <2>5, FaultNames DEF GetExitCodeFails
    <3>2. "code" \in faults'[c]
      BY <3>1
    <3> QED
      BY <2>0, <2>5, <3>1, <3>2 DEF GetExitCodeFails
  <2> QED
    BY <1>3, <2>1, <2>2, <2>3, <2>4, <2>5 DEF CallFails, EarlyFailure
<1>4. ASSUME NEW c \in Calls, Readers(c) PROVE VerdictPlace'
  BY <1>4 DEF Readers, Read, EndOfStream, Milliseconds
<1>5. ASSUME NEW c \in Calls, Tick(c) PROVE VerdictPlace'
  <2>1. \A d \in Calls : Milliseconds(d)' = Milliseconds(d)
    BY <1>5 DEF Tick, Milliseconds
  <2> QED
    BY <1>5, <2>1 DEF Tick
<1>6. CASE Program \/ \E p \in Processes : Dies(p)
  <2> DEFINE Kept == \A d \in Calls : proc[d] = "ended" =>
                        proc'[d] = "ended" /\ status'[d] = status[d]
  <2>1. UNCHANGED callVars /\ Kept
    <3>1. ASSUME NEW p \in Running, NEW child \in Descendants, StartProcess(p, child)
          PROVE  UNCHANGED callVars /\ Kept
      BY <3>1 DEF StartProcess
    <3>2. ASSUME NEW p, NEW c,
                 Write(p, c) \/ WriteNothing(p, c) \/ CloseEnd(p, c)
          PROVE  UNCHANGED callVars /\ Kept
      BY <3>2 DEF Write, WriteNothing, CloseEnd
    <3>3. ASSUME NEW p \in Processes, NEW e, Ends(p, e)
          PROVE  UNCHANGED callVars /\ Kept
      BY <3>3 DEF Ends, Running
    <3> QED
      BY <1>6, <3>1, <3>2, <3>3 DEF Program, Dies, Running
  <2>2. \A d \in Calls : Milliseconds(d)' = Milliseconds(d)
    BY <2>1 DEF Milliseconds
  <2> QED
    BY <2>1, <2>2
<1> QED
  BY <1>1, <1>2, <1>3, <1>4, <1>5, <1>6 DEF Next

-----------------------------------------------------------------------------
(* The theorems.                                                           *)

\* WinInv is inductive.
LEMMA InvStep == WinInv /\ [Next]_vars => WinInv'
  BY TypeStep, CallPlaceStep, HandlesStep, ReaderStep, JobStep, DoomedStep, VerdictStep,
     ResultStep DEF WinInv

\* Whatever the calls and programs do and whatever fails, the state stays in
\* the inductive invariant, types included.
THEOREM WinInvariant == Spec => []WinInv
  BY InitInv, InvStep, PTL DEF Spec

\* The output of a call is whole, for any number of calls that run at the same
\* time: read_pipe_to_end leaves nothing behind and join waits for it.
THEOREM OutputIsWhole == Spec => []OutputComplete
<1>1. ASSUME WinInv, NEW c \in Calls, Succeeded(c)
      PROVE  /\ result[c].output = Readable(c)
             /\ emptyAt[c] = Nowhere => result[c].output = written[c] /\ writers[c] = {}
  <2>1. result[c] = Output(c) /\ reader[c] = "done"
    BY <1>1 DEF WinInv, ResultSettled
  <2>2. result[c].output = captured[c]
    BY <2>1 DEF Output
  <2>3. /\ captured[c] = Readable(c)
        /\ emptyAt[c] = Nowhere => writers[c] = {}
    BY <1>1, <2>1 DEF WinInv, ReaderSawAll
  <2> QED
    BY <2>2, <2>3 DEF Readable
<1>2. WinInv => OutputComplete
  BY <1>1 DEF OutputComplete
<1> QED
  BY WinInvariant, <1>2, PTL

\* Once a result is returned, every process of its job is being terminated.
THEOREM JobKillsAll == Spec => []JobContains
<1>1. WinInv => JobContains
  BY DEF WinInv, JobContains, JobDoomed
<1> QED
  BY WinInvariant, <1>1, PTL

\* For a divisor of any size, as Dword is 2^32 in the code.
LEMMA SmallModulo == ASSUME NEW n \in Nat, NEW d \in Nat \ {0}, n < d PROVE n % d = n
  OBVIOUS

\* The verdict is the program's, or the time has passed.
THEOREM VerdictIsRight == Spec => []VerdictMatchesProgram
<1>1. ASSUME WinInv, NEW c \in Calls, Succeeded(c)
      PROVE  IF result[c].timedOut
               THEN /\ result[c].exitCode = 124
                    /\ timeout[c] # NoTimeout
                    /\ timeout[c] < INFINITE => waited[c] >= timeout[c]
               ELSE faults[c] \cap {"wait", "code"} = {} => result[c].exitCode = status[c]
  <2>1. result[c] = Output(c)
    BY <1>1 DEF WinInv, ResultSettled
  <2>2. CASE timedOut[c]
    <3>1. Milliseconds(c) # INFINITE /\ waited[c] >= Milliseconds(c)
      BY <1>1, <2>2 DEF WinInv, VerdictPlace
    <3>2. timeout[c] # NoTimeout
      BY <3>1 DEF Milliseconds
    <3>3. timeout[c] \in Nat
      BY <1>1, <3>2 DEF WinInv, TypeOK
    <3>4. timeout[c] < INFINITE => Milliseconds(c) = timeout[c]
      BY <3>2, <3>3, SmallModulo DEF Milliseconds, INFINITE
    <3> QED
      BY <2>1, <2>2, <3>1, <3>2, <3>4 DEF Output
  <2>3. CASE ~timedOut[c]
    BY <1>1, <2>1, <2>3 DEF WinInv, VerdictPlace, Output
  <2> QED
    BY <1>1, <2>2, <2>3 DEF WinInv, TypeOK
<1>2. WinInv => VerdictMatchesProgram
  BY <1>1 DEF VerdictMatchesProgram
<1> QED
  BY WinInvariant, <1>2, PTL

\* A program that got to start a process ran without the child-process policy,
\* and the result says so.
THEOREM DegradationIsReported == Spec => []DegradationReported
<1>1. ASSUME WinInv, NEW c \in Calls, Succeeded(c), InJob(c) # {c}
      PROVE  result[c].degraded
  <2>1. result[c] = Output(c) /\ proc[c] # "unborn"
    BY <1>1 DEF WinInv, ResultSettled
  <2>2. c \notin restricted
    BY <1>1, <2>1 DEF WinInv, JobOfCall, InJob, Processes
  <2>3. reason[c]
    BY <1>1, <2>1, <2>2 DEF WinInv, CallPlace
  <2>4. result[c].degraded = reason[c]
    BY <2>1 DEF Output
  <2> QED
    BY <2>3, <2>4
<1>2. WinInv => DegradationReported
  BY <1>1 DEF DegradationReported
<1> QED
  BY WinInvariant, <1>2, PTL

\* No way out of a call leaves a handle open, but that on which the job is
\* missing.
THEOREM HandlesAreReleased == Spec => []HandlesReleased
<1>1. WinInv => HandlesReleased
  BY DEF WinInv, HandlesPlace, HandlesReleased
<1> QED
  BY WinInvariant, <1>1, PTL

-----------------------------------------------------------------------------
(* Each call implements BoundedRun.                                        *)

LEMMA PromiseInit == Init => \A c \in Calls : Promise(c)!Init
<1> SUFFICES ASSUME Init, NEW c \in Calls PROVE Promise(c)!Init
  OBVIOUS
<1> USE DEF Init, Processes
<1>1. Phase(c) = "called"
  BY DEF Phase
<1>2. ProgramState(c) = "none"
  BY DEF ProgramState, Running
<1>3. Readable(c) = 0
  BY DEF Readable, Nowhere
<1>4. Answer(c) = Promise(c)!None
  BY DEF Answer, Promise!None, Pending
<1> QED
  BY <1>1, <1>2, <1>3, <1>4 DEF Promise!Init

\* What BoundedRun sees of a call.
Seen(c) == <<Phase(c), ProgramState(c), Readable(c), timedOut[c], Answer(c)>>

LEMMA SeenSame ==
    ASSUME NEW c \in Calls, UNCHANGED Seen(c) PROVE UNCHANGED Promise(c)!vars
  BY DEF Seen, Promise!vars

USE DEF Processes

\* The call itself: Spawn is Start, the timeout Expire, Terminate or CloseJob
\* may be End, Join is Finish, and an error is Fail.
LEMMA OwnStep ==
    ASSUME WinInv, NEW c \in Calls, Call(c) \/ CallFails(c)
    PROVE  Promise(c)!Next \/ UNCHANGED Promise(c)!vars
<1>0. TypeOK /\ CallPlace /\ JobDoomed /\ ReaderSawAll
  BY DEF WinInv
<1>1. CASE CreateProcess(c)
  <2>1. Phase(c) = "called" /\ Phase(c)' = "running"
    BY <1>0, <1>1 DEF CreateProcess, Phase, CallPlace, Early, At, Goto, TypeOK
  <2>2. ProgramState(c)' = "running"
    BY <1>0, <1>1 DEF CreateProcess, ProgramState, CallPlace, Early, At, Running, TypeOK
  <2>3. UNCHANGED <<Readable(c), timedOut[c], Answer(c)>>
    BY <1>1 DEF CreateProcess, Readable, Answer
  <2>4. Promise(c)!Start
    BY <2>1, <2>2, <2>3 DEF Promise!Start
  <2> QED
    BY <2>4 DEF Promise!Next
<1>2. CASE WaitTimesOut(c)
  <2>1. Phase(c) = "running"
    BY <1>0, <1>2 DEF WaitTimesOut, Waited, At, Phase, CallPlace, Late
  <2>2. timedOut'[c] = TRUE
    BY <1>0, <1>2 DEF WaitTimesOut, TypeOK
  <2>3. UNCHANGED <<Phase(c), ProgramState(c), Readable(c), Answer(c)>>
    BY <1>0, <1>2 DEF WaitTimesOut, Waited, At, Goto, TypeOK, Phase, ProgramState, Running,
       Readable, Answer, procVars, pipeVars
  <2>4. Promise(c)!Expire
    BY <2>1, <2>2, <2>3 DEF Promise!Expire
  <2> QED
    BY <2>4 DEF Promise!Next
<1>3. CASE Terminate(c) \/ CloseJob(c)
  <2>1. UNCHANGED <<Phase(c), Readable(c), timedOut[c], Answer(c)>>
    BY <1>0, <1>3 DEF Terminate, CloseJob, At, Goto, TypeOK, Phase, Readable, Answer, pipeVars
  <2>2. \/ UNCHANGED ProgramState(c)
        \/ ProgramState(c) = "running" /\ ProgramState(c)' = "over"
    <3>1. proc' = proc /\ doomed \subseteq doomed'
      BY <1>3 DEF Terminate, CloseJob
    <3>2. CASE proc[c] = "running" /\ c \notin doomed /\ c \in doomed'
      <4>1. ProgramState(c) = "running"
        BY <3>2 DEF ProgramState, Running
      <4>2. ProgramState(c)' = "over"
        BY <3>1, <3>2 DEF ProgramState, Running
      <4> QED
        BY <4>1, <4>2
    <3>3. CASE ~(proc[c] = "running" /\ c \notin doomed /\ c \in doomed')
      <4>1. UNCHANGED ProgramState(c)
        BY <3>1, <3>3 DEF ProgramState, Running
      <4> QED
        BY <4>1
    <3> QED
      BY <3>2, <3>3
  <2>3. CASE UNCHANGED ProgramState(c)
    BY <2>1, <2>3 DEF Promise!vars
  <2>4. CASE ProgramState(c) = "running" /\ ProgramState(c)' = "over"
    BY <2>1, <2>4 DEF Promise!End, Promise!Next
  <2> QED
    BY <2>2, <2>3, <2>4
<1>4. CASE Join(c)
  <2>1. proc[c] # "unborn" /\ pc[c] = "join"
    BY <1>0, <1>4 DEF Join, At, CallPlace, Late
  <2>2. Phase(c) = "running" /\ Phase(c)' = "returned"
    BY <1>0, <1>4, <2>1 DEF Join, Goto, TypeOK, Phase, procVars
  <2>3. job[c] = c
    BY <2>1 DEF WinInv, JobOfCall
  <2>4. ProgramState(c) = "over"
    BY <1>0, <2>1, <2>3 DEF ProgramState, JobDoomed, InJob
  <2>5. UNCHANGED <<ProgramState(c), Readable(c), timedOut[c]>>
    BY <1>4 DEF Join, ProgramState, Running, Readable, procVars, pipeVars
  <2>6. captured[c] = Readable(c)
    BY <1>0, <1>4 DEF Join, ReaderSawAll
  <2>7. result'[c] = Output(c)
    BY <1>0, <1>4 DEF Join, TypeOK
  <2>8. Answer(c)' = [kind |-> "ok", output |-> [s \in {c} |-> Readable(c)],
                      timedOut |-> timedOut[c]]
    BY <2>6, <2>7 DEF Answer, Output
  <2>9. Promise(c)!Finish
    BY <2>2, <2>4, <2>5, <2>8 DEF Promise!Finish
  <2> QED
    BY <2>9 DEF Promise!Next
<1>5. CASE EarlyFailure(c)
  <2>1. Phase(c) # "returned" /\ Phase(c)' = "returned"
    BY <1>0, <1>5, EarlyFailureIs DEF Fails, Early, Goto, TypeOK, Phase
  <2>2. UNCHANGED <<ProgramState(c), Readable(c), timedOut[c]>>
    BY <1>5, EarlyFailureIs DEF Fails, ProgramState, Running, Readable, procVars, pipeVars
  <2>3. result'[c] = WindowsError
    BY <1>0, <1>5, EarlyFailureIs DEF Fails, TypeOK
  <2>4. Answer(c)' = Promise(c)!Error
    BY <2>3 DEF Answer, WindowsError, Promise!Error
  <2>5. Promise(c)!Fail
    BY <2>1, <2>2, <2>4 DEF Promise!Fail
  <2> QED
    BY <2>5 DEF Promise!Next
<1>6. CASE SetupPipes(c) \/ CreateJob(c) \/ Prepare(c) \/ PrepareDegraded(c)
  <2>1. UNCHANGED Seen(c)
    BY <1>0, <1>6 DEF SetupPipes, CreateJob, Prepare, PrepareDegraded, At, Goto, TypeOK, Seen,
       Phase, ProgramState, Running, Readable, Answer, procVars, pipeVars
  <2> QED
    BY <2>1, SeenSame
<1>7. CASE StartReaders(c) \/ WaitEnds(c) \/ GetExitCode(c) \/ WaitFails(c)
           \/ TerminateFails(c) \/ GetExitCodeFails(c)
  <2>1. UNCHANGED Seen(c)
    BY <1>0, <1>7 DEF StartReaders, WaitEnds, GetExitCode, WaitFails, Waited, TerminateFails,
       GetExitCodeFails, At, Goto, TypeOK, Seen, Phase, ProgramState, Running, Readable,
       Answer, procVars, pipeVars
  <2> QED
    BY <2>1, SeenSame
<1> QED
  BY <1>1, <1>2, <1>3, <1>4, <1>5, <1>6, <1>7 DEF Call, CallFails, EarlyFailure

\* Another call does nothing to it.
LEMMA OtherStep ==
    ASSUME WinInv, NEW c \in Calls, NEW d \in Calls, c # d, Call(d) \/ CallFails(d)
    PROVE  UNCHANGED Promise(c)!vars
<1>0. TypeOK /\ JobOfCall
  BY DEF WinInv
<1>1. pc'[c] = pc[c] /\ result'[c] = result[c] /\ timedOut'[c] = timedOut[c] /\ proc'[c] = proc[c]
  <2>1. CASE Call(d)
    BY <1>0, <2>1 DEF Call, SetupPipes, CreateJob, Prepare, CreateProcess, StartReaders,
       WaitEnds, WaitTimesOut, Waited, Terminate, GetExitCode, CloseJob, Join, Goto, TypeOK,
       callVars, procVars, pipeVars
  <2>2. CASE CallFails(d)
    BY <1>0, <2>2 DEF CallFails, SetupPipesFails, CreateJobFails, PrepareDegraded,
       PrepareFails, CreateProcessFails, Fails, WaitFails, Waited, TerminateFails,
       GetExitCodeFails, Goto, TypeOK, callVars, procVars, pipeVars
  <2> QED
    BY <2>1, <2>2
<1>2. written' = written /\ emptyAt' = emptyAt
  BY DEF Call, SetupPipes, CreateJob, Prepare, CreateProcess, StartReaders, WaitEnds,
     WaitTimesOut, Waited, Terminate, GetExitCode, CloseJob, Join, CallFails,
     SetupPipesFails, CreateJobFails, PrepareDegraded, PrepareFails, CreateProcessFails,
     Fails, WaitFails, TerminateFails, GetExitCodeFails, pipeVars
<1>3. proc[c] = "running" => (c \in doomed' <=> c \in doomed)
  <2>1. CASE Terminate(d)
    BY <2>1 DEF Terminate
  <2>2. CASE CloseJob(d)
    BY <1>0, <2>2 DEF CloseJob, JobOfCall, InJob
  <2>3. CASE ~(Terminate(d) \/ CloseJob(d))
    BY <2>3 DEF Call, SetupPipes, CreateJob, Prepare, CreateProcess, StartReaders,
       WaitEnds, WaitTimesOut, Waited, GetExitCode, Join, CallFails, SetupPipesFails,
       CreateJobFails, PrepareDegraded, PrepareFails, CreateProcessFails, Fails, WaitFails,
       TerminateFails, GetExitCodeFails, procVars
  <2> QED
    BY <2>1, <2>2, <2>3
<1>4. UNCHANGED Seen(c)
  BY <1>0, <1>1, <1>2, <1>3 DEF TypeOK, Seen, Phase, ProgramState, Running, Readable, Answer
<1> QED
  BY <1>4, SeenSame

\* The programs: a write is Say, unless it follows one of no bytes; the end of
\* the call's own program is End, unless it is being terminated.
LEMMA ProgramStep ==
    ASSUME WinInv, NEW c \in Calls, Program \/ \E p \in Processes : Dies(p)
    PROVE  Promise(c)!Next \/ UNCHANGED Promise(c)!vars
<1>0. TypeOK /\ CallPlace /\ ResultSettled
  BY DEF WinInv
<1>1. ASSUME NEW p \in Running, NEW child \in Descendants, StartProcess(p, child)
      PROVE  UNCHANGED Promise(c)!vars
  <2>1. UNCHANGED Seen(c)
    BY <1>0, <1>1 DEF StartProcess, TypeOK, Seen, Phase, ProgramState, Running, Readable,
       Answer, callVars
  <2> QED
    BY <2>1, SeenSame
<1>2. ASSUME NEW p \in Running, NEW d \in Calls, Write(p, d)
      PROVE  Promise(c)!Next \/ UNCHANGED Promise(c)!vars
  <2>1. UNCHANGED <<Phase(c), ProgramState(c), timedOut[c], Answer(c)>>
    BY <1>2 DEF Write, Phase, ProgramState, Running, Answer, callVars, procVars
  <2>2. CASE d = c /\ emptyAt[c] = Nowhere
    <3>1. Readable(c)' = Readable(c) + 1
      BY <1>0, <1>2, <2>2 DEF Write, TypeOK, Readable
    <3>2. ~Succeeded(c)
      BY <1>0, <1>2, <2>2 DEF Write, CanWrite, ResultSettled
    <3>3. result[c] \in {Pending, WindowsError}
      BY <1>0, <3>2 DEF TypeOK, Succeeded
    <3>4. Answer(c) \in {Promise(c)!None, Promise(c)!Error}
      BY <3>3 DEF Answer, Pending, WindowsError, Promise!None, Promise!Error
    <3>5. Promise(c)!Say(c)
      BY <2>1, <3>1, <3>4 DEF Promise!Say
    <3> QED
      BY <3>5 DEF Promise!Next
  <2>3. CASE ~(d = c /\ emptyAt[c] = Nowhere)
    <3>1. Readable(c)' = Readable(c)
      BY <1>0, <1>2, <2>3 DEF Write, TypeOK, Readable
    <3> QED
      BY <2>1, <3>1 DEF Promise!vars
  <2> QED
    BY <2>2, <2>3
<1>3. ASSUME NEW p \in Running, NEW d \in Calls, WriteNothing(p, d) \/ CloseEnd(p, d)
      PROVE  UNCHANGED Promise(c)!vars
  <2>1. UNCHANGED Readable(c)
    <3>1. CASE WriteNothing(p, d)
      BY <1>0, <3>1 DEF WriteNothing, TypeOK, Readable
    <3>2. CASE CloseEnd(p, d)
      BY <3>2 DEF CloseEnd, Readable
    <3> QED
      BY <1>3, <3>1, <3>2
  <2>2. UNCHANGED Seen(c)
    BY <1>3, <2>1 DEF WriteNothing, CloseEnd, Seen, Phase, ProgramState, Running, Answer,
       callVars, procVars
  <2> QED
    BY <2>2, SeenSame
<1>4. ASSUME NEW p \in Processes, NEW e, Ends(p, e)
      PROVE  Promise(c)!Next \/ UNCHANGED Promise(c)!vars
  <2>1. UNCHANGED <<Readable(c), timedOut[c], Answer(c), Phase(c)>>
    BY <1>0, <1>4 DEF Ends, TypeOK, Readable, Answer, Phase, Running, callVars
  <2>2. CASE p = c /\ c \notin doomed
    <3>1. ProgramState(c) = "running" /\ ProgramState(c)' = "over"
      BY <1>0, <1>4, <2>2 DEF Ends, TypeOK, ProgramState, Running
    <3> QED
      BY <2>1, <3>1 DEF Promise!End, Promise!Next
  <2>3. CASE ~(p = c /\ c \notin doomed)
    <3>1. UNCHANGED ProgramState(c)
      BY <1>0, <1>4, <2>3 DEF Ends, TypeOK, ProgramState, Running
    <3> QED
      BY <2>1, <3>1 DEF Promise!vars
  <2> QED
    BY <2>2, <2>3
<1> QED
  BY <1>1, <1>2, <1>3, <1>4 DEF Program, Dies, Running

\* Each of any number of calls does what execute promises, whatever the others
\* do and whatever they inherit from each other.
THEOREM CallsKeepPromise == Spec => KeepsPromise
<1>1. WinInv /\ [Next]_vars =>
          [\A c \in Calls : Promise(c)!Next \/ UNCHANGED Promise(c)!vars]_vars
  <2> SUFFICES ASSUME WinInv, Next, NEW c \in Calls
               PROVE  Promise(c)!Next \/ UNCHANGED Promise(c)!vars
    OBVIOUS
  <2>1. ASSUME NEW d \in Calls, Call(d) \/ CallFails(d)
        PROVE  Promise(c)!Next \/ UNCHANGED Promise(c)!vars
    BY <2>1, OwnStep, OtherStep
  <2>2. ASSUME NEW d \in Calls, Readers(d) \/ Tick(d)
        PROVE  UNCHANGED Promise(c)!vars
    <3>1. UNCHANGED <<pc, proc, doomed, written, emptyAt, timedOut, result>>
      BY <2>2 DEF Readers, Read, EndOfStream, Tick, callVars, procVars, pipeVars
    <3>2. UNCHANGED Seen(c)
      BY <3>1 DEF Seen, Phase, ProgramState, Running, Readable, Answer
    <3> QED
      BY <3>2, SeenSame
  <2> QED
    BY <2>1, <2>2, ProgramStep DEF Next
<1> QED
  BY PromiseInit, WinInvariant, <1>1, PTL DEF Spec, KeepsPromise
=============================================================================
