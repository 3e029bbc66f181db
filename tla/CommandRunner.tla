--------------------------- MODULE CommandRunner ---------------------------
(***************************************************************************)
(* run_command_with_timeout of src/src/platform/command_runner.rs: the     *)
(* loop that the Linux and macOS back ends share.  The runner thread       *)
(* spawns a process group, reads both output pipes in threads of their     *)
(* own, polls the leader until it ends or the deadline passes, kills the   *)
(* group, reaps the leader, joins the readers and returns.                 *)
(*                                                                         *)
(* The sandboxed program is the environment: it forks, leaves the group,   *)
(* closes its ends of the pipes, writes and exits whenever it likes.       *)
(*                                                                         *)
(* Two things are left out.  A read of an open pipe fails only with EINTR, *)
(* which read_to_end tries again; and thread::spawn panics when there is   *)
(* no thread to be had, so that the function does not return at all.       *)
(***************************************************************************)
EXTENDS Integers, FiniteSets

CONSTANTS
    Leader,        \* the process that the runner spawns
    Descendants,   \* the processes that the program may fork
    Pipes,         \* the captured streams: stdout and stderr
    ExitCodes,     \* the codes a process may pass to exit()
    Timeouts,      \* values of timeout_ms, in units of the poll interval
    NoTimeout,     \* timeout_ms is None
    PipeCapacity,  \* what a pipe holds before a writer blocks
    MaxTime,       \* bound: the clock stops here
    MaxWrites,     \* bound: what the program writes to one pipe
    MayEscape,     \* may a descendant leave the process group (setsid)?
    MayFail        \* the system calls of the runner that may fail

ASSUME RunnerAssumption ==
    /\ Leader \notin Descendants
    /\ ExitCodes \subseteq 0..255
    /\ Timeouts \subseteq Nat \cup {NoTimeout}
    /\ NoTimeout \notin Nat
    /\ PipeCapacity \in Nat \ {0}
    /\ MaxTime \in Nat
    /\ MaxWrites \in Nat
    /\ MayEscape \in BOOLEAN
    /\ MayFail \subseteq {"spawn", "try_wait", "kill", "wait"}

VARIABLES
    timeout,   \* the timeout_ms of this call
    pc,        \* where the runner thread stands
    now,       \* start.elapsed()
    timedOut,  \* the local timed_out
    killed,    \* has killpg(SIGKILL) reached the group?
    proc,      \* proc[p]: the state of process p
    status,    \* the leader's wait status once it has ended
    group,     \* the processes in the leader's process group
    doomed,    \* the processes with SIGKILL pending
    writers,   \* writers[q]: the processes that hold the write end of q
    written,   \* written[q]: what was written to q
    captured,  \* captured[q]: what the reader thread of q has read
    reader,    \* reader[q]: the reader thread of q
    result     \* what run_command_with_timeout returned

runnerVars  == <<pc, timedOut, killed, result>>
processVars == <<proc, status, group, doomed>>
pipeVars    == <<writers, written, captured, reader>>
vars == <<timeout, runnerVars, now, processVars, pipeVars>>

Members == {Leader} \cup Descendants

SignalStatus       == -1   \* status.code() is None: ended by a signal
TIMEOUT_EXIT_CODE  == 124
Pending            == [kind |-> "none"]
IoError            == [kind |-> "io"]

Running == {p \in Members : proc[p] = "running"}
RunnerPcs == {"spawn", "readers", "poll", "elapsed", "kill", "wait", "join",
              "returned"}

Init ==
    /\ timeout \in Timeouts
    /\ pc = "spawn"
    /\ now = 0
    /\ timedOut = FALSE
    /\ killed = FALSE
    /\ proc = [p \in Members |-> "unborn"]
    /\ status = SignalStatus
    /\ group = {}
    /\ doomed = {}
    /\ writers = [q \in Pipes |-> {}]
    /\ written = [q \in Pipes |-> 0]
    /\ captured = [q \in Pipes |-> 0]
    /\ reader = [q \in Pipes |-> "none"]
    /\ result = Pending

-----------------------------------------------------------------------------
(* The runner thread.                                                      *)

\* `?` on a failing call: the function returns, whatever still runs.
ReturnError ==
    /\ pc' = "returned"
    /\ result' = IoError
    /\ UNCHANGED <<timeout, now, timedOut, killed, processVars, pipeVars>>

\* group_spawn()
Spawn ==
    /\ pc = "spawn"
    /\ pc' = "readers"
    /\ proc' = [proc EXCEPT ![Leader] = "running"]
    /\ group' = {Leader}
    /\ writers' = [q \in Pipes |-> {Leader}]
    /\ UNCHANGED <<timeout, now, timedOut, killed, status, doomed, written, captured,
                   reader, result>>

SpawnFails == pc = "spawn" /\ "spawn" \in MayFail /\ ReturnError

\* Mutant: only one of the two pipes gets its reader.
StartOneReader ==
    /\ pc = "readers"
    /\ pc' = IF timeout = NoTimeout THEN "wait" ELSE "poll"
    /\ reader' = [reader EXCEPT ![CHOOSE q \in Pipes : TRUE] = "reading"]
    /\ UNCHANGED <<timeout, now, timedOut, killed, processVars, writers, written,
                   captured, result>>

\* Both pipes get a reader thread before the first wait.
StartReaders ==
    /\ pc = "readers"
    /\ pc' = IF timeout = NoTimeout THEN "wait" ELSE "poll"
    /\ reader' = [q \in Pipes |-> "reading"]
    /\ UNCHANGED <<timeout, now, timedOut, killed, processVars, writers, written,
                   captured, result>>

\* Mutant: the status that try_wait returned is dropped.
PollIgnored ==
    /\ pc = "poll"
    /\ pc' = "elapsed"
    /\ proc' = IF proc[Leader] = "ended"
                 THEN [proc EXCEPT ![Leader] = "reaped"] ELSE proc
    /\ UNCHANGED <<timeout, now, timedOut, killed, status, group, doomed, pipeVars,
                   result>>

\* child.try_wait(): reaps a leader that has ended, never blocks.
Poll ==
    /\ pc = "poll"
    /\ IF proc[Leader] = "ended"
         THEN /\ proc' = [proc EXCEPT ![Leader] = "reaped"]
              /\ pc' = "wait"
         ELSE /\ pc' = "elapsed"
              /\ UNCHANGED proc
    /\ UNCHANGED <<timeout, now, timedOut, killed, status, group, doomed, pipeVars,
                   result>>

PollFails == pc = "poll" /\ "try_wait" \in MayFail /\ ReturnError

\* The deadline has not passed: sleep for one interval and poll again.
\* The sleep may end at any time: a superset of what thread::sleep does.
Sleep ==
    /\ pc = "elapsed"
    /\ now < timeout
    /\ pc' = "poll"
    /\ UNCHANGED <<timeout, now, timedOut, killed, processVars, pipeVars, result>>

\* Mutant: the deadline ends the loop and kills, but is not recorded.
ExpireUnrecorded ==
    /\ pc = "elapsed"
    /\ now >= timeout
    /\ pc' = "kill"
    /\ UNCHANGED <<timeout, now, timedOut, killed, processVars, pipeVars, result>>

Expire ==
    /\ pc = "elapsed"
    /\ now >= timeout
    /\ timedOut' = TRUE
    /\ pc' = "kill"
    /\ UNCHANGED <<timeout, now, killed, processVars, pipeVars, result>>

\* Mutant: kill(pid) instead of killpg(pgid).
KillLeaderOnly ==
    /\ pc = "kill"
    /\ pc' = "wait"
    /\ killed' = TRUE
    /\ doomed' = doomed \cup ({Leader} \cap Running)
    /\ UNCHANGED <<timeout, now, timedOut, proc, status, group, pipeVars, result>>

\* child.kill(): SIGKILL to every process that is in the group right now.
Kill ==
    /\ pc = "kill"
    /\ pc' = "wait"
    /\ killed' = TRUE
    /\ doomed' = doomed \cup (group \cap Running)
    /\ UNCHANGED <<timeout, now, timedOut, proc, status, group, pipeVars, result>>

\* `let _ = child.kill()`: a failure is ignored.
KillFails ==
    /\ pc = "kill"
    /\ "kill" \in MayFail
    /\ pc' = "wait"
    /\ UNCHANGED <<timeout, now, timedOut, killed, processVars, pipeVars, result>>

\* child.wait(): blocks until the leader ends; the status of a leader that
\* try_wait has reaped is remembered.
Wait ==
    /\ pc = "wait"
    /\ proc[Leader] \in {"ended", "reaped"}
    /\ proc' = [proc EXCEPT ![Leader] = "reaped"]
    /\ pc' = "join"
    /\ UNCHANGED <<timeout, now, timedOut, killed, status, group, doomed, pipeVars,
                   result>>

WaitFails ==
    /\ pc = "wait"
    /\ proc[Leader] # "reaped"
    /\ "wait" \in MayFail
    /\ ReturnError

\* Mutant: a signalled leader is reported as the shell does.
OutputShellCode(code) ==
    [kind |-> "ok",
     exitCode |-> IF timedOut THEN TIMEOUT_EXIT_CODE
                  ELSE IF code = SignalStatus THEN 137 ELSE code,
     output |-> captured, timedOut |-> timedOut]

\* from_utf8_lossy, from_text_output: a timeout has its own exit code.
Output(code) ==
    [kind |-> "ok", exitCode |-> IF timedOut THEN TIMEOUT_EXIT_CODE ELSE code,
     output |-> captured, timedOut |-> timedOut]

\* Mutant: the readers are detached instead of joined.
JoinDetached ==
    /\ pc = "join"
    /\ pc' = "returned"
    /\ result' = Output(status)
    /\ UNCHANGED <<timeout, now, timedOut, killed, processVars, pipeVars>>

\* Both joins block until their reader has seen the end of its stream.
Join ==
    /\ pc = "join"
    /\ \A q \in Pipes : reader[q] = "done"
    /\ pc' = "returned"
    /\ result' = Output(status)
    /\ UNCHANGED <<timeout, now, timedOut, killed, processVars, pipeVars>>

Runner ==
    \/ Spawn \/ StartReaders \/ Poll \/ Sleep \/ Expire
    \/ Kill \/ Wait \/ Join

RunnerFails == SpawnFails \/ PollFails \/ KillFails \/ WaitFails

-----------------------------------------------------------------------------
(* The reader threads: read_to_end until the last write end is closed.     *)

\* Mutant: the pipes are read after the wait.
ReadAfterWait(q) ==
    /\ pc \in {"join", "returned"}
    /\ reader[q] = "reading"
    /\ captured[q] < written[q]
    /\ captured' = [captured EXCEPT ![q] = written[q]]
    /\ UNCHANGED <<timeout, now, runnerVars, processVars, writers, written, reader>>

Read(q) ==
    /\ reader[q] = "reading"
    /\ captured[q] < written[q]
    /\ captured' = [captured EXCEPT ![q] = written[q]]
    /\ UNCHANGED <<timeout, now, runnerVars, processVars, writers, written, reader>>

EndOfStream(q) ==
    /\ reader[q] = "reading"
    /\ captured[q] = written[q]
    /\ writers[q] = {}
    /\ reader' = [reader EXCEPT ![q] = "done"]
    /\ UNCHANGED <<timeout, now, runnerVars, processVars, writers, written, captured>>

-----------------------------------------------------------------------------
(* The program, the kernel and the clock.                                  *)

\* A fork inherits the group and every open pipe end.  A process with
\* SIGKILL pending forks no more.
Fork(p, c) ==
    /\ proc[p] = "running" /\ p \notin doomed
    /\ c \in Descendants /\ proc[c] = "unborn"
    /\ proc' = [proc EXCEPT ![c] = "running"]
    /\ group' = IF p \in group THEN group \cup {c} ELSE group
    /\ writers' = [q \in Pipes |-> IF p \in writers[q]
                                     THEN writers[q] \cup {c} ELSE writers[q]]
    /\ UNCHANGED <<timeout, now, runnerVars, status, doomed, written, captured, reader>>

\* setsid() or setpgid(); the leader of a group stays in it.
LeaveGroup(p) ==
    /\ MayEscape
    /\ p \in (group \cap Running) \ (doomed \cup {Leader})
    /\ group' = group \ {p}
    /\ UNCHANGED <<timeout, now, runnerVars, proc, status, doomed, pipeVars>>

CloseEnd(p, q) ==
    /\ proc[p] = "running" /\ p \in writers[q]
    /\ writers' = [writers EXCEPT ![q] = @ \ {p}]
    /\ UNCHANGED <<timeout, now, runnerVars, processVars, written, captured, reader>>

\* A write blocks while the pipe is full.
Write(p, q) ==
    /\ proc[p] = "running" /\ p \in writers[q]
    /\ written[q] - captured[q] < PipeCapacity
    /\ written[q] < MaxWrites
    /\ written' = [written EXCEPT ![q] = @ + 1]
    /\ UNCHANGED <<timeout, now, runnerVars, processVars, writers, captured, reader>>

\* The end of a process closes its pipe ends; only the leader is the
\* runner's own child and leaves a status to be reaped.
Ends(p, code) ==
    /\ proc[p] = "running"
    /\ proc' = [proc EXCEPT ![p] = "ended"]
    /\ status' = IF p = Leader THEN code ELSE status
    /\ group' = group \ {p}
    /\ doomed' = doomed \ {p}
    /\ writers' = [q \in Pipes |-> writers[q] \ {p}]
    /\ UNCHANGED <<timeout, now, runnerVars, written, captured, reader>>

Exit(p)  == \E code \in ExitCodes \cup {SignalStatus} : Ends(p, code)
Dies(p)  == p \in doomed /\ Ends(p, SignalStatus)

Tick ==
    /\ now < MaxTime
    /\ now' = now + 1
    /\ UNCHANGED <<timeout, runnerVars, processVars, pipeVars>>

Program ==
    \E p \in Members :
        \/ \E c \in Descendants : Fork(p, c)
        \/ LeaveGroup(p)
        \/ \E q \in Pipes : CloseEnd(p, q) \/ Write(p, q)
        \/ Exit(p)

Readers == \E q \in Pipes : Read(q) \/ EndOfStream(q)
Kernel  == \E p \in Members : Dies(p)

Next == Runner \/ RunnerFails \/ Readers \/ Program \/ Kernel \/ Tick

Spec == Init /\ [][Next]_vars

\* The threads of the runner are scheduled, time passes and the kernel
\* delivers SIGKILL.  Nothing is assumed of the program, and no call of the
\* runner has to fail.
RunnerFairness ==
    /\ WF_vars(Runner)
    /\ \A q \in Pipes : WF_vars(Read(q) \/ EndOfStream(q))
    /\ \A p \in Members : WF_vars(Dies(p))
    /\ WF_vars(Tick)

FairSpec == Spec /\ RunnerFairness

-----------------------------------------------------------------------------
(* Type invariant: which states the runner and the processes are in.       *)
TypeOK ==
    /\ timeout \in Timeouts
    /\ pc \in RunnerPcs
    /\ now \in 0..MaxTime
    /\ timedOut \in BOOLEAN
    /\ killed \in BOOLEAN
    /\ proc \in [Members -> {"unborn", "running", "ended", "reaped"}]
    /\ status \in ExitCodes \cup {SignalStatus}
    /\ group \subseteq Members
    /\ doomed \subseteq Members
    /\ writers \in [Pipes -> SUBSET Members]
    /\ written \in [Pipes -> Nat]
    /\ captured \in [Pipes -> Nat]
    /\ reader \in [Pipes -> {"none", "reading", "done"}]
    /\ result \in {Pending, IoError}
           \cup [kind : {"ok"}, exitCode : ExitCodes \cup {SignalStatus, TIMEOUT_EXIT_CODE},
                 output : [Pipes -> Nat], timedOut : BOOLEAN]

Succeeded == result.kind = "ok"

\* A result carries everything that any process ever writes to the pipes:
\* run_command_with_timeout joins both readers, and nobody is left who could
\* still write when it returns Ok, also after a kill.
OutputComplete ==
    Succeeded => \A q \in Pipes : /\ result.output[q] = written[q]
                                  /\ writers[q] = {}

\* When Ok reports a timeout and the kill reached the group, no process of
\* the group with an open pipe survives it, and the leader is reaped: no
\* zombie is left to the caller.
TimeoutKillsGroup ==
    Succeeded => /\ proc[Leader] = "reaped"
                 /\ result.timedOut /\ killed => group \cap Running \subseteq doomed

\* The reported exit code: a run that is not reported as timed out was never
\* signalled by the runner and carries the leader's own code; a run that is
\* reported as timed out had used up its time.
VerdictMatchesLeader ==
    Succeeded =>
        IF result.timedOut
          THEN result.exitCode = TIMEOUT_EXIT_CODE /\ timeout # NoTimeout /\ now >= timeout
          ELSE result.exitCode = status /\ ~killed

\* killpg is only ever sent while the leader is not reaped, so the group id
\* cannot have been given to a stranger; and it is sent at most once.
KillOnlyOwnGroup ==
    [][(killed' # killed) => /\ proc[Leader] \in {"running", "ended"}
                             /\ ~killed]_vars

\* A program that fills a pipe is never stuck for good: the readers are
\* started before the wait and run beside it, and even a failed wait leaves
\* them draining.
FullPipeDrains ==
    \A q \in Pipes :
        (written[q] - captured[q] = PipeCapacity) ~>
            (written[q] - captured[q] < PipeCapacity)

\* The call returns once no descendant holds a pipe for good: with a deadline
\* whatever the leader does, without one or after a kill that failed when the
\* leader ends.
PipesReleased == \A q \in Pipes : writers[q] \subseteq {Leader}

Returns ==
    /\ <>[]PipesReleased
    /\ timeout = NoTimeout \/ <>(pc = "wait" /\ timedOut /\ ~killed) =>
           <>(proc[Leader] \in {"ended", "reaped"})
    => <>(pc = "returned")

\* Seen as BoundedRun: a leader that has ended is over, reaped or not.
Phase == CASE pc = "spawn" -> "called" [] pc = "returned" -> "returned" [] OTHER -> "running"

LeaderState ==
    CASE proc[Leader] = "unborn"  -> "none"
      [] proc[Leader] = "running" -> "running"
      [] OTHER                    -> "over"

Answer ==
    CASE result.kind = "none" -> [kind |-> "none"]
      [] result.kind = "io"   -> [kind |-> "error"]
      [] OTHER -> [kind |-> "ok", output |-> result.output, timedOut |-> result.timedOut]

Promise ==
    INSTANCE BoundedRun
        WITH Streams <- Pipes, phase <- Phase, program <- LeaderState,
             said <- written, expired <- timedOut, answer <- Answer

\* The runner does what execute promises: nothing is written after an Ok, which
\* comes when the leader is over and carries all output.
KeepsPromise == Promise!Spec

\* Stated by the README, section "Shared execution behavior": "Timeout is
\* enforced."  Whatever the program does, a call with a deadline returns.
TimeoutEnforced == <>(pc = "returned")
=============================================================================
