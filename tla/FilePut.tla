------------------------------- MODULE FilePut -------------------------------
(***************************************************************************)
(* What a replacement of one file promises whoever looks at the target     *)
(* while it runs, and after a kill: the content is the one from before the *)
(* run or the new one as a whole, and a run that reports success has left  *)
(* the new one.                                                            *)
(***************************************************************************)
CONSTANT Contents   \* what a file may hold, no file included

VARIABLES
    content,  \* what is at the target
    wanted,   \* what the run is to leave there
    status    \* "running", "done", "failed"

vars == <<content, wanted, status>>

Init ==
    /\ content \in Contents
    /\ wanted \in Contents
    /\ status = "running"

Put ==
    /\ status = "running"
    /\ content' = wanted
    /\ UNCHANGED <<wanted, status>>

Succeed ==
    /\ status = "running"
    /\ content = wanted
    /\ status' = "done"
    /\ UNCHANGED <<content, wanted>>

\* An error, or a kill
Fail ==
    /\ status = "running"
    /\ status' = "failed"
    /\ UNCHANGED <<content, wanted>>

\* The next run starts from what this one has left
Rerun ==
    /\ status # "running"
    /\ status' = "running"
    /\ wanted' \in Contents
    /\ UNCHANGED content

Next == Put \/ Succeed \/ Fail \/ Rerun

Spec == Init /\ [][Next]_vars
=============================================================================
