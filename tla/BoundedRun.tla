----------------------------- MODULE BoundedRun -----------------------------
(***************************************************************************)
(* What execute() promises of one run of a program, whichever back end     *)
(* runs it (README.md:78-84): it returns an error, or it returns once the  *)
(* program is over, with all that is ever written to the streams, and says *)
(* whether the time ran out.                                               *)
(*                                                                         *)
(* CommandRunner and WinProcess implement it.                              *)
(***************************************************************************)
EXTENDS Naturals

CONSTANT Streams   \* the captured streams

VARIABLES
    phase,     \* "called", "running" or "returned"
    program,   \* "none", "running", or "over": ended, or being killed
    said,      \* said[s]: what was written to stream s
    expired,   \* did the time run out?
    answer     \* what execute returned

vars == <<phase, program, said, expired, answer>>

None  == [kind |-> "none"]
Error == [kind |-> "error"]

Init ==
    /\ phase = "called" /\ program = "none"
    /\ said = [s \in Streams |-> 0]
    /\ expired = FALSE
    /\ answer = None

Start ==
    /\ phase = "called" /\ phase' = "running"
    /\ program' = "running"
    /\ UNCHANGED <<said, expired, answer>>

\* Any process that has got hold of a stream may write to it, also before the
\* program starts or when it is over or execute has given up, but never after
\* an Ok.
Say(s) ==
    /\ answer \in {None, Error}
    /\ said' = [said EXCEPT ![s] = @ + 1]
    /\ UNCHANGED <<phase, program, expired, answer>>

End ==
    /\ program = "running" /\ program' = "over"
    /\ UNCHANGED <<phase, said, expired, answer>>

Expire ==
    /\ phase = "running" /\ expired' = TRUE
    /\ UNCHANGED <<phase, program, said, answer>>

Finish ==
    /\ phase = "running" /\ phase' = "returned"
    /\ program = "over"
    /\ answer' = [kind |-> "ok", output |-> said, timedOut |-> expired]
    /\ UNCHANGED <<program, said, expired>>

Fail ==
    /\ phase # "returned" /\ phase' = "returned"
    /\ answer' = Error
    /\ UNCHANGED <<program, said, expired>>

Next == Start \/ (\E s \in Streams : Say(s)) \/ End \/ Expire \/ Finish \/ Fail

Spec == Init /\ [][Next]_vars
=============================================================================
