# Verification of procwarden

procwarden runs one command in a sandbox of the host (Linux: mount namespaces,
Landlock, seccomp; macOS: Seatbelt; Windows: AppContainer, ACLs, WFP) and
returns its output. This directory holds TLA+ models of that code, the TLC
configurations that check them, and TLAPS proofs. Paths such as
`linux.rs:92` are below `src/src/platform/`, unless they name another directory.

## 1. Inventory

| Component | Source | State | Operations | Talks to |
|---|---|---|---|---|
| Manager | `src/src/manager.rs`, `cap_fs.rs` | none | `validate`, `validate_policy_allow_paths`, `sanitized_for_execution`, `execute` | file system, platform dispatch |
| Policy | `src/src/policy.rs` | the policy | queries by access | read by every back end |
| Result, errors | `src/src/result.rs`, `error.rs` | the result | `from_utf8_lossy` | built by the runners |
| Command runner | `command_runner.rs` | child, deadline, two reader threads, `timed_out` | spawn, poll, kill, wait, join | kernel; Linux and macOS back ends |
| Linux back end | `linux.rs` | overlay plan; in the child: namespaces, mounts, scratch directory, Landlock, seccomp, descriptors | `execute`, the `pre_exec` closure | kernel; command runner; status pipe of `std::process` |
| macOS back end | `macos.rs` | the SBPL profile | `execute`, `build_sbpl_profile` | `sandbox-exec`; command runner |
| Elevated operations | `windows/elevated_ops.rs`, `elevation.rs` | guard: process handle, workspace; helper: entries, `$appliedPaths`, `$firewallEnabled` | `spawn`, `wait_until_initialized`, `drop`; apply, ready, stop, cleanup | three files in the workspace; host ACLs and firewall |
| AppContainer | `windows/appcontainer.rs`, `token.rs` | plan of ACEs, profile and its SID, the guards it holds | policy shape, plan, `execute`, the drops | ACL, WFP, elevated operations, process |
| ACL | `windows/acl.rs` | the paths that each rollback object holds | `apply_optional_readonly_paths`, `apply_access_plan`, rollback on drop | host ACLs |
| WFP | `windows/wfp.rs` | engine session, transaction, filters | install, abort, drop | Windows Filtering Platform |
| Windows process | `windows/process.rs` | job, pipes, readers, process | pipes, job, attributes, create, wait, terminate, join | kernel; other threads of the caller, through inherited handles |

What is hard in each, and the property that makes it correct:

- **Command runner.** The calling thread, two readers, a tree of processes and
  a clock interleave. A result must be whole, carry the leader's verdict, and
  leave nothing of the group behind after a timeout; no pipe may block the
  program; no signal may reach a reused group.
- **Linux back end.** Some fifteen system calls in a fixed order, each of which
  can fail, in a child that reports through a pipe it closes itself, over files
  that other processes may remove. A program that runs may do no more, and no
  less, than the policy grants; the host's mounts stay as they are; a failure
  reaches the caller as the right error.
- **macOS back end.** Last match wins: the order of the rules has to reproduce
  the policy for every nesting of its paths.
- **Elevated operations.** Two processes that share files, two timeouts, no
  further contact after readiness. Enforcement before the program starts and
  for as long as it runs; cleanup afterwards whatever failed.
- **Windows process.** As the command runner, with a job in place of the group,
  a fallback when the child-process policy is refused, handles to close on every
  way out, and pipes that the programs of other threads may inherit. A
  result is whole, nothing in the job outlives it, a fallback is reported, and a
  call with a timeout returns.
- **AppContainer, ACL, WFP.** Some dozen acquisitions, each of which may fail,
  two ways of doing them (natively, or through the helper), and drops in one
  order on success and in another on `?`. The ACEs at nested and equal paths have
  to add up to the policy; the network is blocked before the program starts;
  nothing stays on the host; the SID outlives what points to it.

`PROJECT.json` lists the hazards at their lines, with the properties that cover
each.

## 2. Modules

| Module | Models | Used by |
|---|---|---|
| `CommandRunner` | `run_command_with_timeout` and its environment | `CommandRunnerProofs` |
| `BoundedRun` | what `execute` promises of one run: the abstract specification | `CommandRunner` and `WinProcess` implement it |
| `CommandRunnerProofs` | theorems about `CommandRunner` | `MCCommandRunner` |
| `AccessPolicy` | `SandboxPolicy` and the meaning of a policy | `LinuxLaunch`, `MacProfile`, `AppContainer` |
| `AccessPolicyProofs` | lemmas about paths and `Granted` | `LinuxLaunchProofs`, `MacProfileProofs`, `AppContainerAccessProofs` |
| `LinuxLaunch` | `SandboxManager::execute` with the Linux back end, up to exec | `LinuxLaunchProofs` |
| `LinuxLaunchProofs` | theorems about `LinuxLaunch` | `MCLinuxLaunch` |
| `MacProfile` | the SBPL profile and its evaluation | `MacProfileProofs` |
| `MacProfileProofs` | theorems about `MacProfile` | `MCMacProfile` |
| `ElevatedOps` | `ElevatedOpsGuard` and the PowerShell helper | `ElevatedOpsProofs` |
| `HelperContract` | what `execute` gets from the elevated helper: an abstract specification | `ElevatedOps` implements it, `AppContainer` is built on it |
| `ElevatedOpsProofs` | theorems about `ElevatedOps` | `MCElevatedOps` |
| `WinProcess` | `run_process_in_appcontainer` in several threads | `WinProcessProofs` |
| `WinProcessProofs` | theorems about `WinProcess` | `MCWinProcess` |
| `NetworkBlock` | the filters of `wfp.rs` | `AppContainer` |
| `AppContainer` | `execute` of the Windows back end, its plan and its drops | `AppContainerProofs` |
| `AppContainerProofs` | theorems about `AppContainer`: resources | `AppContainerAccessProofs` |
| `AppContainerAccessProofs` | theorems about `AppContainer`: access | `MCAppContainer` |

Each module has its constants, an assumption on them, one action per
statement that can be interrupted, then the properties. Operators
marked "Mutant:" are plausible mistakes in the definition that follows them;
no specification uses them, they serve to show that each property can fail.

### CommandRunner

`pc` is the line of `run_command_with_timeout`; `timedOut` its local;
`proc`, `status`, `group`, `doomed` are the kernel's view of the process tree
(`doomed`: SIGKILL is pending); `writers`, `written`, `captured`, `reader`
describe the pipes, whose contents are counted, as only their completeness
matters. `Spawn` .. `Join` are the statements in order, each fallible call
with its failing twin (`SpawnFails`, `PollFails`, `KillFails`, `WaitFails`).
The program is the environment: it forks, leaves the group, closes and writes
pipes and exits at will. External to `src/`, and modelled from how the code
uses them: `command_group` (`kill` is `killpg(SIGKILL)`; `wait` and `try_wait`
return when the leader has ended and remember its status), processes and pipes
of the kernel. Assumed: the leader stays in its own group (POSIX forbids it
`setsid`), and the caller's process reaps only its own children.
`thread::sleep` may end at any time, a superset of what it does.

### BoundedRun

What a caller may rely on, whichever back end runs the program: `execute` returns
an error, or it returns once the program is over, with all that was ever written
to the captured streams, and says whether the time ran out; after an Ok nothing is
written any more. `CommandRunner` maps its variables to it (`Phase`,
`LeaderState`, `Answer`), `WinProcess` maps those of each call. "Over" includes a
program to which SIGKILL or a termination is pending. In `WinProcess` what
follows a write of no bytes is not counted as written. A stream can be written
before the program starts, as another thread's program may have inherited it.

### AccessPolicy

Paths are sequences of numbers, so that "below" is "has as a prefix". A policy
is a record of a set of permissions, a default and a network flag. The queries
are those of `policy.rs`. `Granted` is the reference: a deny entry at or above
a path closes it; else a read-only entry closes it for writes under the
default ReadWrite (README.md, "Linux" and "macOS" sections); else the most that
an allow entry or the default gives.

### LinuxLaunch

`parent` and `child` are the two program counters. The parent validates (`Validate`),
plans the overlays and checks their targets (`Plan`), forks, and reads the status pipe
(`ReadStatus`). The child walks through `PreExec`: `unshare` in both ways
(`UnshareBoth`, `UnshareUser`, `MapUser`, `UnshareMounts`, `MarkPrivate`), scratch
directory, one `PrepareTarget` / `Bind` / `Remount` per entry in the order of
`path_depth` and name, `RemoveScratch`, Landlock, seccomp, closing of descriptors, exec.
`Refuse` is the kernel saying no to any of them, `RefuseCall` the same where the code
ignores it and goes on: the removal of a placeholder (`RemovePlaceholder`) and of the
scratch directory. `CloseFds` closes what `/proc/self/fd` lists or, when that is out of
reach, what is below the soft limit and below `FdCap`, the 1_048_576 of
`collect_fd_range_from_rlimit`. `Vanish` is another process removing an object.
`view[p]` is what a walk from the root finds at `p` through the mounts, `cwdView[p]`
what a walk from the working directory finds, which was entered before the mounts.
`Wrapped` and `Raw` are what is left of an errno when an `io::Error` was built from a
text or from the code. `fds` includes the descriptors the caller leaked and the status
pipe. `admin` says that the child may change its mounts, as root of its user namespace
(`MapUser`) or because it was privileged before; the program inherits that, no system
call for it is in the seccomp list, and only Landlock keeps a task from mounting.
`ChangeMounts` is the program making use of it, up to the most that it can come to,
which is what the host shows; `undone` records that it has.

Assumed: policy paths are canonical (the README asks for it); "/" itself is
never an overlay; the host has no other mounts than `HostMounts`; what is at or
above a mounted overlay is not removed (the contract of the back end covers
objects that exist), nor is the directory for temporary files.

### MacProfile

`build_sbpl_profile` as a sequence of rules; a rule stands for the lines that
one loop emits. `Allows` is Seatbelt's last-match rule (external). The
behaviour is the run: the executable is missing, or the program asks for
operations on paths in any order and ends.

### ElevatedOps

`guard` is the thread in `spawn` / `wait_until_initialized` / `drop`, `helper` the place
in the script. `Spawn` goes as far as `ShellExecuteExW`, which blocks while the user
reads the prompt; `Consent` is the answer. They share `ready`, `stop` and `workspace`
(the files), and the process handle. `aces` and `netRules` are what is in force on the
host. `faults` records which calls failed and which waits ran out. The script runs with
`$ErrorActionPreference = "Stop"`, so every `Log-Progress` is a place where it may go to
`catch`; it fails by itself once the workspace is gone. Creating and filling
`ready.signal` are two steps, and either may fail on its own account. A removal of ACEs
(`RemoveAce`) or of rules (`RemoveRules`) may fail in part or as a whole, and the script
goes on as if it had not, since nobody looks at the result. Creation and removal of the
workspace may fail too. Progress lines whose failure leads to the same place as the
failure of the step beside them (the header, `begin|`) share that step's alternative.
Assumed: a failing `icacls` or `netsh` that adds something changes nothing; the ACEs of
a path go when the path is removed. A path may come back without them (`Recreate`);
`gone` remembers which paths were ever missing, as `Apply-Rule` passes over what it does
not find.

### HelperContract

What `appcontainer.rs` relies on when it calls `ElevatedOpsGuard::spawn` and drops the
guard. `phase` is "idle" until spawn returns, "ready" while the guard is held, "closing"
during the drop, "over" after it or after a spawn that failed. `Ready` needs every entry
and both rules in force, but for entries of paths that were missing at some time, and
for allow entries after a failed `icacls`; `Hold` adds nothing and loses only what is
lost with its path; after `End` nothing is in force, and nothing comes back (`Late`).
The contract is open where the code gives no guarantee: a helper that lost its log may
take back and leave what it likes, and one that was terminated, that crashed, that was
not told to stop, whose inbound rule failed, or for which removing an ACE or the rules
failed, may leave what it had done once the guard is gone. `Guesses` bounds what is in
force then.

`ElevatedOps` implements it (`KeepsContract`) with any part of what was asked for as
the guesses. `Phase` is read off the guard's place, `Trouble` off `faults`. Steps of the
helper before readiness and during the drop are `Change`, and
whatever happens to helper and paths while the program runs is `Hold` or a stutter.

### WinProcess

Every variable that is a function of `Calls` is local to one thread in
`run_process_in_appcontainer`; a call also names its program. `open` holds the
handles that the call has open, `job` the job of each process, `writers` the
processes that hold the write end of a call's pipe. `SetupPipes` .. `Join` are the
statements in order, with their failing twins; `PrepareDegraded` is the
fallback without the child-process policy. `CreateProcess` hands the new program
every inheritable handle that is open in the caller at that moment, as
`bInheritHandles` is set and no handle list is given: this is how the calls
interact. stdout and stderr are treated alike and share one pipe of the model. A
wait counts its ticks in `waited`; `Dword` is 2^32 made small, so that the cut of
the timeout to 32 bits can be seen. `emptyAt` is the place of a write of no
bytes, at which `read_pipe_to_end` stops. External: processes, jobs and pipes of
the kernel. Assumed: no process leaves its job; a terminated process ends.

### NetworkBlock, AppContainer

`NetworkBlock` is `install_block_all_network_filters` step by step: session, application
id, transaction, six filters, commit; each may fail, and the failure closes the session.
`AppContainer` extends it with the rest of `execute`. `Prepare` holds the checks before
anything is acquired (policy shape, executable, paths named by arguments). Then profile
and SID (`CreateContext`), the choice of the way (`ChooseWay`), and either the elevated
helper (`SpawnHelper`, then `HelperHolds`, then `DropHelper`) or filters, bootstrap ACEs
and the plan, one ACE at a time (`InstallFilters`, `GrantBootstrap`, `AddAce`). `drops`
is the list of guards that are still to be dropped: in the order of the explicit `drop`
calls after success, in reverse order of declaration when `?` leaves the function; each
`Drop..` action is one of them. `AclPlan` is the plan of `collect_acl_plan`, filtered
and with its conflicts resolved; `Can` is what the kernel grants (the nearest ACE about
a right decides, a deny before an allow of the same path). `NativeAce` and `Icacls` are
the two ways of setting an ACE: `SET_ACCESS` replaces what the SID has at the path,
`icacls` adds.

The helper enters as `HelperContract`: `ops` are the entries of `HelperEntries`,
`helper` the phase, `held` and `rules` what is in force of them, and every step of it
is an action of the contract, also between spawn and drop and after the drop. So
what is shown of `AppContainer` holds with any helper that keeps the contract, and
`ElevatedOpsProofs` shows that the one of `elevated_ops.rs` does. `SpawnHelper` and
`DropHelper` take spawn and the drop as one step each, as the caller's thread does
nothing else meanwhile; no path vanishes here, so the contract's `gone` is empty. Where
the contract is open, `held` and `rules` may be any guess; the properties set a lost
log, and for what is left a helper that ended uncleanly, aside.

External: ACL evaluation, the filtering platform, the profile API. Assumed: paths
are canonical (comparison without regard to case and removal of duplicates leave
nothing to model); nothing else changes the ACEs of this SID. Left open: whether
`REVOKE_ACCESS` takes deny ACEs along.

## 3. Runs

| Run | Bounds | Shows |
|---|---|---|
| `Runner` | leader and one descendant that may leave the group, two pipes of capacity 1, two writes each, deadline 1 or none, all calls may fail, fair | output complete, group killed, verdict right, no stray signal, the promise of `BoundedRun`, a full pipe drains, the call returns; and the invariant of the proofs |
| `RunnerTimeoutEnforced` | violated | see findings |
| `LinuxPolicies` | six paths; every policy over two nested ones, each with any subset of accesses; over three with the program's directory among them; over the directory for temporary files; two cwds; a host mount; all calls may be refused, the ignored ones too; two paths may vanish; descriptors above the cap and above the soft limit; 690,292 states | confinement, usability, error path, clean-up |
| `LinuxRelative` | violated | see findings |
| `MacProfile` | five paths, every policy over three of them | the profile means what the policy grants |
| `ElevatedHelper` | every spec of up to two entries, deny or allow, over two paths, with and without the network block, all calls may fail, two of them in one run, both waits may expire, one path may vanish and come back; fair guard; 995,541 states | enforcement before start, clean-up, no helper left, `HelperContract` implemented; spawn, but for the prompt, and Drop come to an end |
| `ElevatedNetwork` | violated | see findings |
| `WinProcess` | one call and one process started by its program; timeouts of 1 tick, of `Dword - 1`, of `Dword` and none; up to four failing calls; two writes | whole output, job containment, verdict, reported fallback, handles closed; and the invariant of the proofs |
| `WinReturns` | two calls, with a timeout or without, one write each, `TerminateProcess` may fail; fair | each call keeps the promise of `BoundedRun`; calls with a timeout return |
| `WinConcurrent` | violated | see findings |
| `AppContainer` | five paths; every policy over two nested ones; the upper one is the cwd; a path among the arguments that may be missing; elevated or not; any two calls fail; where the helper's contract is open, it has nothing or everything in force | confinement and usability on both ways, network blocked, nothing left, SID valid for the rollbacks; and the invariant of the proofs |
| `AppContainerOverlay` | violated | see findings |

Why the bounds are enough. Runner: one descendant can already escape, hold a pipe, be
killed or outlive the leader; capacity 1 makes every write able to block; two writes let
one arrive after the leader's end; the theorems hold for any number of all of them.
Linux: all orders of two overlays (nested, same path both ways, disjoint) occur, each
with the cwd inside and outside; mounts interact in pairs, through hiding and through
the scratch directory. Of the descriptors 4 is to be closed on either way, 5 lies at the
cap (`FdCap`), 9 above the soft limit of 7, and the status pipe (6) in between: without
the list it is left to `O_CLOEXEC`. Elevated: two entries give "one applied, the next
fails", for a deny and for an allow entry (the script treats the two deny kinds alike
but for what `icacls` is told, and the two allow kinds too), and two faults give a
failure and a failure of what follows it. Windows process: one descendant outlives its
parent, holds the pipe and is in the job; two calls inherit from each other in either
order; four faults are more than one way through the function can meet; again the
theorems have no bound. macOS: a chain of three and a sibling hold every relation two
paths can have. AppContainer: two entries at nested or equal paths, the cwd at the upper
one, and the program elsewhere: entries interact through the nearest one above, and
equal ones through the resolution of conflicts; one fault takes every way out, the
second hits the clean-up.

Deadlock checking is off where the modelled call returns, which is where these
systems stop.

**Fairness.** `RunnerFairness`: the threads of the runner are scheduled, the
kernel delivers SIGKILL, the clock advances; nothing is assumed of the program,
so `Returns` has to state what it needs of it (pipes released; without a deadline,
or when the kill has failed, the leader's end). Fairness is on the calls that
succeed: none has to fail, but one that may fail does not keep the others from
going on. `GuardFairSpec`: the guard's thread runs (`OwnStep`: not the answer to the prompt,
which is the user's, nor the end of the program), and a loop that
goes on for ever finds its time up eventually (strong fairness on the timeout
branch, since the loop passes it again and again); nothing is assumed of the
helper. `FairSpec` of `WinProcess`: threads are scheduled, the kernel ends what is
terminated, the time of a wait passes; nothing is assumed of the programs, and no
call has to fail.

### Findings

Each of these runs checks one sentence of the repository's README against the
code, and TLC shows the code doing otherwise.

- `RunnerTimeoutEnforced`: the deadline is looked at only while the leader
  runs. If it ends first and a descendant keeps a pipe, `execute` waits for the
  readers without bound.
- `LinuxRelative`: a cwd at or below an overlay is entered before the mounts
  and bypasses them.
- `ElevatedNetwork`: the outbound rule stays when the inbound one cannot be added.
- `WinConcurrent`: a program that another thread starts at the wrong moment
  inherits the pipes of a call, which then waits for it past its timeout.
- `AppContainerOverlay`: an elevated caller's read-only overlays stay writable:
  the allow ACE that follows the deny-write ACE at the same path replaces it.

More limits of the code show in the properties as named exceptions, since no document
promises otherwise: overlays that cover the directory for temporary files make a later
deny entry fail closed (`CapableHostLaunches`, `ScratchRemoved`); the scratch directory
also stays after a removal that fails unseen, and when the child fails among the
overlays (`ScratchRemoved`); under a default of ReadWrite the program is root of its
namespaces without Landlock and can undo the overlays (`ProgramConfined` holds up to
there); without `/proc/self/fd` a descriptor above 1_048_576, or above a soft limit that
was lowered, reaches the program (`NoInheritedFds`); a helper that is terminated because
it is late leaves its ACEs (`HostRestored` speaks of helpers that end by themselves),
and so does one for which `icacls /remove` or `netsh delete` fails, unseen
(`HostRestored`, and "unclean" in `HelperContract`); an exec that fails is not reported
as such, as the status pipe is closed by then (`FailureReported`); a mount of the host
below a read-only overlay stays writable (`ProgramConfined`); a helper that cannot log
after readiness cleans up while the program runs (`EnforcedWhileRunning`); the pipes are
leaked when the job cannot be created (`HandlesReleased`); a write of no bytes ends the
captured output (`OutputComplete` of `WinProcess`); timeouts of 2^32 - 1 ms and more are
cut (`VerdictMatchesProgram`), and nothing is promised of the verdict after a failed
wait or query of the exit code (the same); in `AppContainer` a read-only entry that
shares its path with a read-write one, or lies below one, is writable; and the paths
that the program needs to start are readable whatever the policy says, below a denied
root too (`ProgramConfined`).

## 4. Proofs

`CommandRunnerProofs` proves for every set of descendants, any number of pipes,
every deadline and every choice of failing calls:

| Theorem | Property |
|---|---|
| `TypeCorrect` | `TypeOK` |
| `RunnerInvariant` | `RunnerInv` |
| `OutputIsComplete` | `OutputComplete` |
| `TimeoutLeavesNoGroup` | `TimeoutKillsGroup` |
| `VerdictIsFaithful` | `VerdictMatchesLeader` |
| `KillsOwnGroupOnly` | `KillOnlyOwnGroup` |
| `RunnerKeepsPromise` | `KeepsPromise`: it implements `BoundedRun` |

The only assumption is `RunnerAssumption`. None of the properties is inductive:
that nobody can write any more when a result is returned depends on what each
reader saw earlier (`ReaderSawAll`); that the group is dead, on every later
fork and on the kill's snapshot (`GroupDoomed`: a doomed process forks no
more, and nobody joins a group from outside); that the signal goes to the right
group, on the leader not being reaped at that place (`RunnerPlace`). `RunnerInv`
is their conjunction with `OnlyRunningAct` and `ResultSettled`; each conjunct has
a lemma `..Step` with one case per action. The run `Runner` checks the same
formula with TLC. The refinement goes action by action: `Join` is `Finish`, for
which the readers have to be done and the leader reaped; a write is `Say`, which is
over once there is an Ok.

`WinProcessProofs` proves for any number of calls in one caller, any set of
processes that their programs start, every width of a DWORD and every choice of
failing calls, from `ProcessAssumption` alone:

| Theorem | Property |
|---|---|
| `WinInvariant` | `WinInv` |
| `OutputIsWhole` | `OutputComplete` |
| `JobKillsAll` | `JobContains` |
| `VerdictIsRight` | `VerdictMatchesProgram` |
| `DegradationIsReported` | `DegradationReported` |
| `HandlesAreReleased` | `HandlesReleased` |
| `CallsKeepPromise` | `KeepsPromise`: each call implements `BoundedRun` |

`WinInv` joins what the calls know of each other and of the kernel. A reader that
is done stays up to date, because the call's own write end is closed before its
reader starts (`HandlesPlace`), so that no `CreateProcess` of another thread can
hand it out any more (`ReaderSawAll`). The job is empty but for the doomed when a
result is returned, because what is doomed starts nothing and a new process is in
its parent's job (`JobOfCall`, `JobDoomed`). The verdict rests on a program that
has ended keeping its status, and on `n % d = n` below `d` (`VerdictPlace`). A
result is built from locals that no later step changes (`ResultSettled`,
`ReturnedStays`). In the refinement the steps of other calls are stutters:
`OtherStep` needs that no call's program is in another's job.

`AppContainerProofs` proves for any paths, requests, missing paths and any set and
number of failing calls, from `RequestAssumption` and `FaultAssumption`, for
every choice of `Guesses`:

| Theorem | Property |
|---|---|
| `ContainerInvariant` | `ContainerInv`, a part of `AccessInv` |
| `SidOutlivesRollbacks` | `RollbackNeedsSid` |
| `NetworkIsBlocked` | `NetworkBlocked` |
| `NothingIsLeft` | `NothingLeft` |

`ContainerInv` says of each resource who answers for it at each place. The SID is
valid until the context is dropped (`TokenPlace`), and the context comes last in
both orders (`DropOrder`): a rollback object that still holds a path therefore has a
valid SID. An allow ACE is tracked by a rollback object that is not dropped yet, or
belongs to the helper, or its revocation has failed (`AcePlace`). Of the helper `HelperPlace`
keeps what the contract gives at each place: idle before spawn and in the native way;
both rules in force while it is ready; nothing once it is over, unless it ended uncleanly;
and its ACEs are those of `held`, while the rollback objects and the filters are unused.
It is the only fact about the helper that the other proofs use, next to the contract's
actions (`ReadyIs`, `HoldIs`, `EndIs`, `LateIs`). Which filters are in
the transaction and in force follows from where the installation stands
(`NetPlace`). `Acquiring` and `DroppingHolds` are the two facts about the list of
guards that all of these use.

`AppContainerAccessProofs` proves, from the same assumptions, what the ACEs on the
paths amount to:

| Theorem | Property |
|---|---|
| `AccessInvariant` | `AccessInv` |
| `ContainerConfines` | `ProgramConfined` |
| `ContainerGrants` | `GrantsUsable` |

`AccessInv` adds to `ContainerInv` what has been applied at each place
(`AccessPlace`): no ACE says more than the plan and the bootstrap paths call for
(`NoMoreThanPlanned`), and no later entry has undone an earlier one (`AsPlanned`).
The second part needs that conflicts are resolved (`PlanParts`): only a read-only and a
deny-write entry share a path, and there `SET_ACCESS` of the native way does discard the
deny, so `AsPlanned` promises deny-write ACEs to the helper's way alone. This is the
finding `AppContainerOverlay`, and the reason why `ProgramConfined` has its exception.
Confinement then follows from the filter: an allow entry is not below a denied root, so a
denied root that covers the object is nearer to it than the allow entry
(`NotDenied`). For usability the nearest ACE has to exist (`Nearest`, from the
well-foundedness of the naturals) and to allow (`AllowedBelow`).

`ElevatedOpsProofs` proves for any paths, specs of any length, paths that vanish and
any set and number of failing calls, from `OpsAssumption`:

| Theorem | Property |
|---|---|
| `OpsInvariant` | `OpsInv` |
| `ProgramIsConfined` | `EnforcedWhileRunning` |
| `HostIsRestored` | `HostRestored` |
| `NoHelperIsLeft` | `NoHelperLeft` |
| `HelperKeepsContract` | `KeepsContract`: it implements `HelperContract` |

The handshake is the hard part: the program may only run on what the helper has
done, but guard and helper share nothing but files. `Progress` says what each place of
the helper has put in force; `Handshake`, that a `ready.signal` that reads "ok" while the
guard waits or the program runs was written by a helper that is still between its
report and the stop file, or has crashed there; `FilePlace`, that the stop file and the
end of the workspace, the only things that can make it move on, come later. `Tracked`
says that whatever is in force and not in `$appliedPaths` is owed to the log or to a
removal that failed.

The refinement takes one lemma per kind of step. `Open` is where the contract asks for
nothing; it stays open once it is, because `faults` only grows and the guard does not
come back. Elsewhere `ReadyStep` needs that a helper that has reported has every entry in
force but for `gone` paths and, after a failed `icacls`, allow entries: `Progress` had
to be strengthened to say this of allow entries too, and to speak of paths that were ever
missing rather than of those that are. `HoldStep` rests on `Handshake`: while the program
runs the helper is between its report and the stop file, where only `Vanish` changes the
host. `End` is the hardest: `HostIsClean` shows that a guard at its end without a fault
that opens the contract faces a helper that has exited, or never started. That
no helper is terminated before its time is up is part of this: a kill without an expired
wait or a failed query would leave ACEs with the contract closed.

`LinuxLaunchProofs` proves for any set of paths, any policies over them, any host
mounts, any choice of what vanishes and of what the kernel refuses, from
`LaunchAssumption`:

| Theorem | Property |
|---|---|
| `LaunchInvariant` | `LaunchInv` |
| `ProgramIsConfined` | `ProgramConfined` |
| `GrantsAreUsable` | `GrantsUsable` |
| `CapableHostsLaunch` | `CapableHostLaunches` |
| `FailuresAreReported` | `FailureReported` |
| `NoInheritedDescriptor` | `NoInheritedFds` |
| `HostTreeIsUntouched` | `HostTreeUntouched` |
| `ScratchIsRemoved` | `ScratchRemoved` |

That the program is confined joins the plan with what the child did. `Overlays` says
that each entry that is mounted is in force on both walks, and that nothing else is; a
later mount only takes more away, so it stays so. A denied path without an entry is one
that the plan leaves out because no allowed path is near it: then no Landlock rule
covers it, because two paths above the same path lie on one line (`AboveTheSame`,
`DeniedIsHidden`). `CrossedBelowCwd` is the same argument for walks from the cwd. In the
other direction, what an overlay hides is denied, so that a grant stays usable, and
Landlock can open its root (`OpenableAre`). The order of the mounts carries
`CapableHostLaunches`: what is mounted is at least as deep as what is to come (`Order`),
and therefore never above it (`TargetIsVisible`). Once the program runs nothing but
`ChangeMounts` and the host can change what it reaches, and `Undoing` says that only a
program without Landlock, hence one with the default ReadWrite, gets there: with
Landlock the confinement is for good. `ScratchRemoved` follows what is in the scratch
directory from place to place (`PlaceholderGone`, `Swept`): it is empty after the last
overlay unless a removal was refused or hidden. `HostTreeUntouched` needs that no place
with a mount is reached with a shared tree (`Places`), and `FailureReported` that the
status pipe is open up to the place where the descriptors are closed (`Descriptors`).

`MacProfileProofs` proves for any set of paths and any policies over them, from
`ProfileAssumption`:

| Theorem | Property |
|---|---|
| `ProfileInvariant` | `ProfileInv` |
| `AccessIsAsGranted` | `AccessAsGranted` |
| `GrantsAreReachable` | `GrantsReachable` |
| `NetworkIsAsGranted` | `NetworkAsGranted` |

The proof reads a profile part by part: `Says` is "allow", "deny" or "nothing", and
`ConcatSays` turns the last match of two lists into the second list's answer, if it
has one, else the first's. That there is a last match rests on the well-foundedness
of the naturals (`Greatest`). What is left is the order of the parts, a case per
default (`DefaultRulesSay`). `GrantsReachable` uses `AboveTheSame` once more.

Only model-checked: all liveness (`Returns` of both runners, `FullPipeDrains`,
`GuardReturns`). Liveness under fairness and ENABLED are out of the prover's reach, and
so are induction over data and RECURSIVE operators, which no module here uses. Every
safety property that a passing run checks is proved.

## 5. Not modelled, and why

- `sanitize_env_vars`, quoting of SBPL strings and of Windows arguments: pure
  text, with one input and no interleaving.
- Platform dispatch: a compile-time choice.
- `util.rs`: strings and defaults of environment variables.
- The network capabilities of `token.rs` and `process.rs`: a policy with network
  access is refused before, so they are never asked for.
- The seccomp filter's list of system calls and the Landlock access bits: a
  filter is installed or it is not, a rule gives reads or reads and writes.
- A panic of `std::thread::spawn` when the system has no thread left, in both
  runners: it is not a return of `execute`.
- Errors of a read from an open pipe: `EINTR`, which `read_to_end` retries, is the
  only one the kernel gives here.
- In `process.rs`: resolution of the executable, quoting, the environment block.
- In `appcontainer.rs`: how arguments are searched for paths (text); what they name
  is an input. Removal of duplicates and case: paths are canonical.
- In `acl.rs`: the ACE on the NUL device, which is set and never revoked (no policy
  speaks of it); the standard rights (`READ_CONTROL`, `SYNCHRONIZE`) and deletion
  of a path from its parent.
- In `wfp.rs`: the firewall helper. `execute` installs the filters only for an
  elevated caller, and `try_elevated_network_guard` starts the helper only for one
  that is not: its code cannot be reached, and an elevated caller whose filters
  cannot be installed gets the error.

## 6. Plan

The parts of the system that keep state are modelled, their safety properties are proved,
and `AppContainer` and `ElevatedOps` are composed through `HelperContract`. What could
follow: `BoundedRun` as the program of `AppContainer` and of `LinuxLaunch`, in the same
way; and finer models of the text passes of section 5, if one of them is to be verified,
as operators of their own against a reference definition.
