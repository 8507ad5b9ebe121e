------------------------------ MODULE MCRecovery ------------------------------
(* Every small tree over two chapters, in drafting and in the final pass. *)
EXTENDS Recovery

CONSTANTS blank, short, redraft

MCTexts == {blank, short, redraft}
MCWordsOf == [t \in MCTexts |-> IF t = blank THEN 0 ELSE 1]

MCPhases == {"drafting", "final-pass"}
MCCursors == {[chapter |-> 0, scene |-> 0, beat |-> 0],
              [chapter |-> 1, scene |-> 1, beat |-> 0]}
MCBodies == {NoFile, blank, short}
=============================================================================
