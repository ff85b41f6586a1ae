----------------------------- MODULE CoapService -----------------------------
(***************************************************************************)
(* What request() promises its caller: requests are issued one at a time;  *)
(* the device carries each one out at most once, with the body it was      *)
(* given; a request that succeeds has been carried out, and returns the    *)
(* device's whole answer to it.  One that fails may have been carried out, *)
(* may be carried out later, or never.                                     *)
(***************************************************************************)
EXTENDS Naturals

CONSTANT N  \* number of requests

VARIABLES
    phase,     \* phase[r]: how far request r is, for its caller
    executed   \* the requests the device has carried out

Init == /\ phase = [r \in 1 .. N |-> "new"]
        /\ executed = {}

Issue(r) ==
    /\ phase[r] = "new"
    /\ \A q \in 1 .. r - 1 : phase[q] \in {"answered", "failed"}
    /\ phase' = [phase EXCEPT ![r] = "open"]
    /\ UNCHANGED executed

Execute(r) ==
    /\ phase[r] \in {"open", "failed"} /\ r \notin executed
    /\ executed' = executed \cup {r}
    /\ UNCHANGED phase

Answer(r) ==
    /\ phase[r] = "open" /\ r \in executed
    /\ phase' = [phase EXCEPT ![r] = "answered"]
    /\ UNCHANGED executed

Fail(r) ==
    /\ phase[r] = "open"
    /\ phase' = [phase EXCEPT ![r] = "failed"]
    /\ UNCHANGED executed

Next == \E r \in 1 .. N : Issue(r) \/ Execute(r) \/ Answer(r) \/ Fail(r)

Spec == Init /\ [][Next]_<<phase, executed>>
=============================================================================
