----------------------------- MODULE WinProcess -----------------------------
(***************************************************************************)
(* run_process_in_appcontainer of src/src/platform/windows/process.rs, for *)
(* several threads of one caller that are in it at the same time: pipes, a *)
(* job that kills on close, the process, two readers, a bounded wait.      *)
(*                                                                         *)
(* CreateProcessW is asked to inherit handles, so a process gets whatever  *)
(* inheritable handle any thread has open at that moment.                  *)
(*                                                                         *)
(* stdout and stderr are treated alike; one output pipe stands for both.   *)
(* std::thread::spawn panics when there is no thread to be had, and the    *)
(* function does not return then; that way out is not modelled.            *)
(***************************************************************************)
EXTENDS Integers, FiniteSets

CONSTANTS
    Calls,        \* executions in one caller; also names of their programs
    Descendants,  \* processes that the programs may start
    Timeouts,     \* values of timeout_ms, in ticks of the clock
    NoTimeout,    \* timeout_ms is None
    Dword,        \* 2^32, or less
    ExitCodes,    \* codes that a program may end with
    MaxTime,      \* bound: the ticks that a wait is followed for
    MaxWrites,    \* bound: what is written to one pipe
    MayFail,      \* calls of the system that may fail
    MaxFaults     \* bound: how many of them fail

STILL_ACTIVE == 259
INFINITE     == Dword - 1
Nobody       == "nobody"

ASSUME ProcessAssumption ==
    /\ Calls \cap Descendants = {} /\ Nobody \notin Calls
    /\ Timeouts \subseteq Nat \cup {NoTimeout} /\ NoTimeout \notin Nat
    /\ Dword \in Nat \ {0}
    /\ MaxTime \in Nat /\ MaxWrites \in Nat /\ MaxFaults \in Nat

VARIABLES
    pc,         \* pc[c]: where the thread of call c stands
    timeout,    \* timeout[c]: its timeout_ms
    open,       \* open[c]: the handles of the call that the caller has open
    reason,     \* reason[c]: is there a degraded_mode_reason?
    waited,     \* waited[c]: the ticks for which WaitForSingleObject has waited
    timedOut,   \* timedOut[c]: the local timed_out
    code,       \* code[c]: the local exit_code_raw
    result,     \* result[c]: what the call returned
    faults,    \* faults[c]: the calls of the system that failed
    proc,       \* proc[p]: state of a process
    job,        \* job[p]: the call in whose job the process is
    restricted, \* the calls whose program may start no process
    status,     \* status[c]: what the program ended with
    doomed,     \* processes that are being terminated
    writers,    \* writers[c]: processes that hold the write end of the pipe
    written, captured,
    emptyAt,    \* emptyAt[c]: where a write of no bytes stands in the pipe
    reader      \* reader[c]: the reader thread

callVars == <<pc, timeout, open, reason, waited, timedOut, code, result, faults>>
procVars == <<proc, job, restricted, status, doomed>>
pipeVars == <<writers, written, captured, emptyAt, reader>>
vars == <<callVars, procVars, pipeVars>>

Processes == Calls \cup Descendants
Nowhere   == -1
Pipes     == {"in_r", "in_w", "out_r", "out_w"}
Pending      == [kind |-> "none"]
WindowsError == [kind |-> "windows"]
Running   == {p \in Processes : proc[p] = "running"}
InJob(c)  == {p \in Processes : job[p] = c}

Init ==
    /\ pc = [c \in Calls |-> "pipes"]
    /\ timeout \in [Calls -> Timeouts]
    /\ open = [c \in Calls |-> {}]
    /\ reason = [c \in Calls |-> FALSE]
    /\ waited = [c \in Calls |-> 0]
    /\ timedOut = [c \in Calls |-> FALSE]
    /\ code = [c \in Calls |-> 1]
    /\ result = [c \in Calls |-> Pending]
    /\ faults = [c \in Calls |-> {}]
    /\ proc = [p \in Processes |-> "unborn"]
    /\ job = [p \in Processes |-> Nobody]
    /\ restricted = {}
    /\ status = [c \in Calls |-> 0]
    /\ doomed = {}
    /\ writers = [c \in Calls |-> {}]
    /\ written = [c \in Calls |-> 0]
    /\ captured = [c \in Calls |-> 0]
    /\ emptyAt = [c \in Calls |-> Nowhere]
    /\ reader = [c \in Calls |-> "none"]

-----------------------------------------------------------------------------
(* The thread of a call.                                                   *)

At(c, place)    == pc[c] = place
Goto(c, place)  == pc' = [pc EXCEPT ![c] = place]
Fault(c, name)  ==
    /\ name \in MayFail
    /\ Cardinality(UNION {{d} \X faults[d] : d \in Calls}) < MaxFaults
    /\ faults' = [faults EXCEPT ![c] = @ \cup {name}]

\* An error is returned with these handles left open.
Fails(c, name, left) ==
    /\ Fault(c, name)
    /\ Goto(c, "returned")
    /\ open' = [open EXCEPT ![c] = left]
    /\ result' = [result EXCEPT ![c] = WindowsError]
    /\ UNCHANGED <<timeout, reason, waited, timedOut, code, procVars, pipeVars>>

\* setup_stdio_pipes: on an error it closes the ends that it has made.
SetupPipes(c) ==
    /\ At(c, "pipes")
    /\ Goto(c, "job")
    /\ open' = [open EXCEPT ![c] = Pipes]
    /\ UNCHANGED <<timeout, reason, waited, timedOut, code, result, faults,
                   procVars, pipeVars>>

SetupPipesFails(c) == At(c, "pipes") /\ Fails(c, "pipes", {})

\* create_job_kill_on_close
CreateJob(c) ==
    /\ At(c, "job")
    /\ Goto(c, "attributes")
    /\ open' = [open EXCEPT ![c] = @ \cup {"job"}]
    /\ UNCHANGED <<timeout, reason, waited, timedOut, code, result, faults,
                   procVars, pipeVars>>

\* `?` without close_many: the pipes stay open.
CreateJobFails(c) == At(c, "job") /\ Fails(c, "job", open[c])

\* prepare_appcontainer_child_job_attributes with the child-process policy.
Prepare(c) ==
    /\ At(c, "attributes")
    /\ Goto(c, "create")
    /\ restricted' = restricted \cup {c}
    /\ UNCHANGED <<timeout, open, reason, waited, timedOut, code, result, faults,
                    proc, job, status, doomed, pipeVars>>

\* Mutant: the fallback gives no reason.
PrepareSilently(c) ==
    /\ At(c, "attributes")
    /\ Fault(c, "policy")
    /\ Goto(c, "create")
    /\ UNCHANGED <<timeout, open, reason, waited, timedOut, code, result,
                   procVars, pipeVars>>

\* The policy is refused with a code that child_policy_degrade_allowed knows.
PrepareDegraded(c) ==
    /\ At(c, "attributes")
    /\ Fault(c, "policy")
    /\ Goto(c, "create")
    /\ reason' = [reason EXCEPT ![c] = TRUE]
    /\ UNCHANGED <<timeout, open, waited, timedOut, code, result, procVars,
                   pipeVars>>

PrepareFails(c) == At(c, "attributes") /\ Fails(c, "attributes", {})

\* CreateProcessW: the process is in the job from the start, and inherits the
\* write ends that any call has open.
CreateProcess(c) ==
    /\ At(c, "create")
    /\ Goto(c, "started")
    /\ open' = [open EXCEPT ![c] = @ \cup {"process"}]
    /\ proc' = [proc EXCEPT ![c] = "running"]
    /\ job' = [job EXCEPT ![c] = c]
    /\ writers' = [d \in Calls |->
                     IF "out_w" \in open[d] THEN writers[d] \cup {c} ELSE writers[d]]
    /\ UNCHANGED <<timeout, reason, waited, timedOut, code, result, faults,
                   restricted, status, doomed, written, captured, emptyAt, reader>>

\* Mutant: the job is forgotten.
CreateProcessFailsLeaky(c) == At(c, "create") /\ Fails(c, "create", {"job"})

CreateProcessFails(c) == At(c, "create") /\ Fails(c, "create", {})

\* close_many of the child's ends, then both readers, then the wait begins.
StartReaders(c) ==
    /\ At(c, "started")
    /\ Goto(c, "wait")
    /\ open' = [open EXCEPT ![c] = @ \ {"in_r", "in_w", "out_w"}]
    /\ reader' = [reader EXCEPT ![c] = "reading"]
    /\ UNCHANGED <<timeout, reason, waited, timedOut, code, result, faults, procVars,
                   writers, written, captured, emptyAt>>

\* `ms as u32`, or INFINITE
Milliseconds(c) == IF timeout[c] = NoTimeout THEN INFINITE ELSE timeout[c] % Dword

\* WaitForSingleObject returns.
Waited(c, place) ==
    /\ At(c, "wait")
    /\ Goto(c, place)
    /\ UNCHANGED <<timeout, open, reason, waited, code, result, procVars, pipeVars>>

WaitEnds(c) ==
    /\ Waited(c, "code")
    /\ proc[c] = "ended"
    /\ UNCHANGED <<timedOut, faults>>

WaitTimesOut(c) ==
    /\ Waited(c, "terminate")
    /\ proc[c] = "running"
    /\ Milliseconds(c) # INFINITE /\ waited[c] >= Milliseconds(c)
    /\ timedOut' = [timedOut EXCEPT ![c] = TRUE]
    /\ UNCHANGED faults

\* Mutant: whatever is not WAIT_OBJECT_0 is a timeout.
WaitFailsAsTimeout(c) ==
    /\ Waited(c, "terminate")
    /\ Fault(c, "wait")
    /\ timedOut' = [timedOut EXCEPT ![c] = TRUE]

WaitFails(c) ==
    /\ Waited(c, "code")
    /\ Fault(c, "wait")
    /\ UNCHANGED timedOut

\* TerminateProcess, whose failure goes unnoticed.
Terminate(c) ==
    /\ At(c, "terminate")
    /\ Goto(c, "release")
    /\ doomed' = doomed \cup ({c} \cap Running)
    /\ UNCHANGED <<timeout, open, reason, waited, timedOut, code, result, faults,
                    proc, job, restricted, status, pipeVars>>

TerminateFails(c) ==
    /\ At(c, "terminate")
    /\ Goto(c, "release")
    /\ Fault(c, "terminate")
    /\ UNCHANGED <<timeout, open, reason, waited, timedOut, code, result,
                   procVars, pipeVars>>

\* GetExitCodeProcess, of a process that may still run when the wait failed.
GetExitCode(c) ==
    /\ At(c, "code")
    /\ Goto(c, "release")
    /\ code' = [code EXCEPT ![c] = IF proc[c] = "ended" THEN status[c] ELSE STILL_ACTIVE]
    /\ UNCHANGED <<timeout, open, reason, waited, timedOut, result, faults,
                   procVars, pipeVars>>

GetExitCodeFails(c) ==
    /\ At(c, "code")
    /\ Goto(c, "release")
    /\ Fault(c, "code")
    /\ UNCHANGED <<timeout, open, reason, waited, timedOut, code, result,
                   procVars, pipeVars>>

\* Mutants: a job without its limit; a job that is closed after the joins.
CloseJobNoKill(c) ==
    /\ At(c, "release")
    /\ Goto(c, "join")
    /\ open' = [open EXCEPT ![c] = @ \ {"job", "process"}]
    /\ doomed' = doomed
    /\ UNCHANGED <<timeout, reason, waited, timedOut, code, result, faults,
                   proc, job, restricted, status, pipeVars>>

CloseJobAfterJoin(c) ==
    /\ At(c, "release")
    /\ reader[c] = "done"
    /\ Goto(c, "join")
    /\ open' = [open EXCEPT ![c] = @ \ {"job", "process"}]
    /\ doomed' = doomed \cup (InJob(c) \cap Running)
    /\ UNCHANGED <<timeout, reason, waited, timedOut, code, result, faults,
                   proc, job, restricted, status, pipeVars>>

\* The last handle of the job: every process in it is terminated.
CloseJob(c) ==
    /\ At(c, "release")
    /\ Goto(c, "join")
    /\ open' = [open EXCEPT ![c] = @ \ {"job", "process"}]
    /\ doomed' = doomed \cup (InJob(c) \cap Running)
    /\ UNCHANGED <<timeout, reason, waited, timedOut, code, result, faults,
                   proc, job, restricted, status, pipeVars>>

Output(c) ==
    [kind |-> "ok", exitCode |-> IF timedOut[c] THEN 124 ELSE code[c],
     output |-> captured[c], timedOut |-> timedOut[c], degraded |-> reason[c]]

\* Mutant: the readers are not waited for.
JoinDetached(c) ==
    /\ At(c, "join")
    /\ Goto(c, "returned")
    /\ result' = [result EXCEPT ![c] = Output(c)]
    /\ UNCHANGED <<timeout, open, reason, waited, timedOut, code, faults,
                   procVars, pipeVars>>

Join(c) ==
    /\ At(c, "join")
    /\ reader[c] = "done"
    /\ Goto(c, "returned")
    /\ result' = [result EXCEPT ![c] = Output(c)]
    /\ UNCHANGED <<timeout, open, reason, waited, timedOut, code, faults,
                   procVars, pipeVars>>

Call(c) ==
    \/ SetupPipes(c) \/ CreateJob(c) \/ Prepare(c) \/ CreateProcess(c)
    \/ StartReaders(c) \/ WaitEnds(c) \/ WaitTimesOut(c) \/ Terminate(c)
    \/ GetExitCode(c) \/ CloseJob(c) \/ Join(c)

CallFails(c) ==
    \/ SetupPipesFails(c) \/ CreateJobFails(c) \/ PrepareDegraded(c)
    \/ PrepareFails(c) \/ CreateProcessFails(c) \/ WaitFails(c)
    \/ TerminateFails(c) \/ GetExitCodeFails(c)

-----------------------------------------------------------------------------
(* read_pipe_to_end                                                        *)

\* What the reader can get before it comes to a write of no bytes.
Readable(c) == IF emptyAt[c] = Nowhere THEN written[c] ELSE emptyAt[c]

\* Mutant: the whole chunk is taken, however little was read.
ReadWholeChunk(c) ==
    /\ reader[c] = "reading"
    /\ captured[c] < Readable(c)
    /\ captured' = [captured EXCEPT ![c] = Readable(c) + 1]
    /\ UNCHANGED <<callVars, procVars, writers, written, emptyAt, reader>>

Read(c) ==
    /\ reader[c] = "reading"
    /\ captured[c] < Readable(c)
    /\ captured' = [captured EXCEPT ![c] = Readable(c)]
    /\ UNCHANGED <<callVars, procVars, writers, written, emptyAt, reader>>

\* ReadFile fails, as nobody can write any more, or it returns no bytes.
EndOfStream(c) ==
    /\ reader[c] = "reading"
    /\ captured[c] = Readable(c)
    /\ emptyAt[c] # Nowhere \/ (writers[c] = {} /\ "out_w" \notin open[c])
    /\ reader' = [reader EXCEPT ![c] = "done"]
    /\ open' = [open EXCEPT ![c] = @ \ {"out_r"}]
    /\ UNCHANGED <<pc, timeout, reason, waited, timedOut, code, result, faults,
                   procVars, writers, written, captured, emptyAt>>

Readers(c) == Read(c) \/ EndOfStream(c)

-----------------------------------------------------------------------------
(* The programs, the kernel and the clock.                                 *)

\* A new process is in its parent's job, for good, and may inherit its
\* handles.  The child-process policy forbids it.
StartProcess(p, child) ==
    /\ p \in Running \ doomed /\ job[p] \notin restricted
    /\ child \in Descendants /\ proc[child] = "unborn"
    /\ proc' = [proc EXCEPT ![child] = "running"]
    /\ job' = [job EXCEPT ![child] = job[p]]
    /\ writers' = [c \in Calls |->
                     IF p \in writers[c] THEN writers[c] \cup {child} ELSE writers[c]]
    /\ UNCHANGED <<callVars, restricted, status, doomed, written, captured,
                   emptyAt, reader>>

\* Nobody reads any more once the reader has closed its end.
CanWrite(p, c) ==
    p \in Running \cap writers[c] /\ reader[c] # "done"

Write(p, c) ==
    /\ CanWrite(p, c) /\ written[c] < MaxWrites
    /\ written' = [written EXCEPT ![c] = @ + 1]
    /\ UNCHANGED <<callVars, procVars, writers, captured, emptyAt, reader>>

\* WriteFile of no bytes
WriteNothing(p, c) ==
    /\ CanWrite(p, c) /\ emptyAt[c] = Nowhere
    /\ "empty write" \in MayFail
    /\ emptyAt' = [emptyAt EXCEPT ![c] = written[c]]
    /\ UNCHANGED <<callVars, procVars, writers, written, captured, reader>>

CloseEnd(p, c) ==
    /\ p \in Running \cap writers[c]
    /\ writers' = [writers EXCEPT ![c] = @ \ {p}]
    /\ UNCHANGED <<callVars, procVars, written, captured, emptyAt, reader>>

Ends(p, exitCode) ==
    /\ p \in Running
    /\ proc' = [proc EXCEPT ![p] = "ended"]
    /\ status' = IF p \in Calls THEN [status EXCEPT ![p] = exitCode] ELSE status
    /\ doomed' = doomed \ {p}
    /\ writers' = [c \in Calls |-> writers[c] \ {p}]
    /\ UNCHANGED <<callVars, job, restricted, written, captured, emptyAt, reader>>

Dies(p) == p \in doomed /\ Ends(p, 1)

Program ==
    \E p \in Running :
        \/ \E child \in Descendants : StartProcess(p, child)
        \/ \E c \in Calls : Write(p, c) \/ WriteNothing(p, c) \/ CloseEnd(p, c)
        \/ \E exitCode \in ExitCodes : Ends(p, exitCode)

Tick(c) ==
    /\ pc[c] = "wait" /\ waited[c] < MaxTime
    /\ waited' = [waited EXCEPT ![c] = @ + 1]
    /\ UNCHANGED <<pc, timeout, open, reason, timedOut, code, result, faults,
                   procVars, pipeVars>>

Next ==
    \/ \E c \in Calls : Call(c) \/ CallFails(c) \/ Readers(c) \/ Tick(c)
    \/ Program \/ \E p \in Processes : Dies(p)

Spec == Init /\ [][Next]_vars

\* Threads are scheduled, terminated processes end, time passes.  Nothing is
\* assumed of the programs, and no call of the system has to fail.
Fairness ==
    /\ \A c \in Calls : WF_vars(Call(c)) /\ WF_vars(Readers(c)) /\ WF_vars(Tick(c))
    /\ \A p \in Processes : WF_vars(Dies(p))

FairSpec == Spec /\ Fairness

-----------------------------------------------------------------------------
TypeOK ==
    /\ pc \in [Calls -> {"pipes", "job", "attributes", "create", "started", "wait",
                         "code", "terminate", "release", "join", "returned"}]
    /\ timeout \in [Calls -> Timeouts]
    /\ open \in [Calls -> SUBSET (Pipes \cup {"job", "process"})]
    /\ reason \in [Calls -> BOOLEAN]
    /\ waited \in [Calls -> 0..MaxTime]
    /\ timedOut \in [Calls -> BOOLEAN]
    /\ code \in [Calls -> ExitCodes \cup {0, 1, STILL_ACTIVE}]
    /\ result \in [Calls -> {Pending, WindowsError}
           \cup [kind : {"ok"}, exitCode : ExitCodes \cup {0, 1, 124, STILL_ACTIVE},
                 output : Nat, timedOut : BOOLEAN, degraded : BOOLEAN]]
    /\ faults \in [Calls -> SUBSET MayFail]
    /\ proc \in [Processes -> {"unborn", "running", "ended"}]
    /\ job \in [Processes -> Calls \cup {Nobody}]
    /\ restricted \subseteq Calls
    /\ status \in [Calls -> ExitCodes \cup {0, 1}]
    /\ doomed \subseteq Running
    /\ writers \in [Calls -> SUBSET Running]
    /\ written \in [Calls -> 0..MaxWrites]
    /\ captured \in [Calls -> 0..MaxWrites]
    /\ emptyAt \in [Calls -> {Nowhere} \cup 0..MaxWrites]
    /\ reader \in [Calls -> {"none", "reading", "done"}]

Succeeded(c) == result[c].kind = "ok"

\* README.md:83.  The output of a call is everything that was written to its
\* pipe, by whatever process, unless a program writes no bytes on purpose.
OutputComplete ==
    \A c \in Calls : Succeeded(c) =>
        /\ result[c].output = Readable(c)
        /\ emptyAt[c] = Nowhere => result[c].output = written[c] /\ writers[c] = {}

\* Job containment: no process of a call outlives its result, also when the
\* program ended by itself and left others behind, and when it could not be
\* terminated.
JobContains ==
    \A c \in Calls : Succeeded(c) => InJob(c) \cap Running \subseteq doomed

\* A timeout is reported after the time has passed and never for a program
\* that ended in time; otherwise the code is the program's own, unless the wait
\* or the query for the code failed, which the code takes for the program's end
\* and for a code of 1.  Timeouts of 2^32 - 1 ms and more are cut to 32 bits and
\* are set aside.
VerdictMatchesProgram ==
    \A c \in Calls : Succeeded(c) =>
        IF result[c].timedOut
          THEN /\ result[c].exitCode = 124
               /\ timeout[c] # NoTimeout
               /\ timeout[c] < INFINITE => waited[c] >= timeout[c]
          ELSE faults[c] \cap {"wait", "code"} = {} => result[c].exitCode = status[c]

\* README.md:93.  A program that got to start a process ran without the
\* child-process policy, and its result says so.
DegradationReported ==
    \A c \in Calls : Succeeded(c) /\ InJob(c) # {c} => result[c].degraded

\* Seen as BoundedRun: a process that is being terminated is over, and what
\* follows a write of no bytes does not count.
Phase(c) ==
    IF pc[c] = "returned" THEN "returned"
    ELSE IF proc[c] = "unborn" THEN "called" ELSE "running"

ProgramState(c) ==
    CASE proc[c] = "unborn"      -> "none"
      [] c \in Running \ doomed -> "running"
      [] OTHER                   -> "over"

Answer(c) ==
    CASE result[c].kind = "none"    -> [kind |-> "none"]
      [] result[c].kind = "windows" -> [kind |-> "error"]
      [] OTHER -> [kind |-> "ok", output |-> [s \in {c} |-> result[c].output],
                   timedOut |-> result[c].timedOut]

Promise(c) ==
    INSTANCE BoundedRun
        WITH Streams <- {c}, phase <- Phase(c), program <- ProgramState(c),
             said <- [s \in {c} |-> Readable(c)], expired <- timedOut[c], answer <- Answer(c)

\* Each call does what execute promises, whatever the others do: Promise(c)!Spec
\* for every c, written with one box.
KeepsPromise ==
    /\ \A c \in Calls : Promise(c)!Init
    /\ [][\A c \in Calls : Promise(c)!Next \/ UNCHANGED Promise(c)!vars]_vars

\* A call leaves no handle open in the caller, on whatever way it ends,
\* except when the job cannot be created: then the pipes are leaked.
HandlesReleased ==
    \A c \in Calls :
        pc[c] = "returned" => open[c] = {} \/ "job" \in faults[c]

Bounded(c) == timeout[c] # NoTimeout /\ timeout[c] < INFINITE
OwnPipe(c) == writers[c] \subseteq InJob(c)

\* A call with a timeout returns, whatever its program does, and also when that
\* cannot be terminated, if all calls in the caller have a timeout, or if at
\* least no program of another call holds on to its pipe.
Returns ==
    \A c \in Calls :
        Bounded(c) /\ ((\A d \in Calls : Bounded(d)) \/ <>[]OwnPipe(c))
            => <>(pc[c] = "returned")

\* README.md:84: "Timeout is enforced."  With calls that run at the same time.
TimeoutEnforced ==
    \A c \in Calls : Bounded(c) => <>(pc[c] = "returned")
=============================================================================
