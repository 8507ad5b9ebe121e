------------------------------ MODULE AtomicFile ------------------------------
(***************************************************************************)
(* What a writer of state.toml or compiled.md is promised: the file holds  *)
(* the whole old text or the whole new one, and it holds the new one       *)
(* exactly when the write reports success.                                 *)
(***************************************************************************)
CONSTANT Contents   \* the texts that may be written

VARIABLES
    file,      \* what a reader of the path sees
    request,   \* the text of the write in progress
    result     \* "busy", or how the last write ended

Results == {"written", "failed", "killed"}

Init ==
    /\ file \in Contents
    /\ request = file
    /\ result = "written"

Request(text) ==
    /\ result # "busy"
    /\ request' = text /\ result' = "busy"
    /\ UNCHANGED file

Commit ==
    /\ result = "busy"
    /\ file' = request /\ result' = "written"
    /\ UNCHANGED request

Abort ==
    /\ result = "busy"
    /\ result' \in {"failed", "killed"}
    /\ UNCHANGED <<file, request>>

Next == (\E text \in Contents : Request(text)) \/ Commit \/ Abort

Spec == Init /\ [][Next]_<<file, request, result>>
=============================================================================
