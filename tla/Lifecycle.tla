------------------------------- MODULE Lifecycle -------------------------------
(***************************************************************************)
(* The life of a novel as its state.toml tells it, whichever commands run  *)
(* and wherever they are killed: it begins once, is planned once, takes    *)
(* the phases one at a time and in order, is not drafted before it is      *)
(* planned, and has at most one turn open.  No single write does two of    *)
(* these things, but for the plan, which arrives with the turn that        *)
(* declares its directories.                                               *)
(***************************************************************************)
EXTENDS Integers

CONSTANT Chapters   \* the chapters a plan may have

VARIABLES
    phase,   \* the place of the phase in the order, 0 before init
    plan,    \* the planned chapters
    turn     \* the turn whose record is on disk

Drafting == 9
LastPhase == 11

Init == phase = 0 /\ plan = {} /\ turn = "none"

Begin == phase = 0 /\ phase' = 1 /\ UNCHANGED <<plan, turn>>

Plan ==
    /\ phase > 0 /\ plan = {}
    /\ plan' \in (SUBSET Chapters) \ {{}}
    /\ turn' = "set-chapters"
    /\ UNCHANGED phase

Advance ==
    /\ phase \in 1..(LastPhase - 1)
    /\ phase' = phase + 1
    /\ phase' = Drafting => plan # {}
    /\ UNCHANGED <<plan, turn>>

(* A repair takes over whatever turn is open. *)
Repair == phase > 0 /\ turn' = "reconcile" /\ UNCHANGED <<phase, plan>>

Settle == turn # "none" /\ turn' = "none" /\ UNCHANGED <<phase, plan>>

Next == Begin \/ Plan \/ Advance \/ Repair \/ Settle

Spec == Init /\ [][Next]_<<phase, plan, turn>>
=============================================================================
