------------------------------- MODULE MCHarness -------------------------------
(* Small instances of Harness: the inputs the configurations choose from. *)
EXTENDS Harness

CONSTANTS blank, short, redraft, long

(* Four bodies: nothing, two of one length, and a longer one. *)
MCTexts == {blank, short, redraft, long}
MCWordsOf == [t \in MCTexts |-> CASE t = blank -> 0 [] t = long -> 4 [] OTHER -> 1]

Entry(number, slug, target) == [number |-> number, slug |-> slug, target |-> target]

OneChapter == << Entry(1, "a", 1) >>
TwoChapters == << Entry(2, "b", 1), Entry(1, "a", 1) >>
Incoherent == { << >>, << Entry(1, "a", 1), Entry(1, "b", 1) >>,
                << Entry(2, "a", 1) >>, << Entry(1, "a", 0) >>,
                << Entry(1, "a", 1), Entry(2, "a", 1) >> }

PlansOneOrTwo == {OneChapter, TwoChapters} \cup Incoherent
PlanOne == {OneChapter}
PlanOneOrIncoherent == {OneChapter} \cup Incoherent
PlanTwo == {TwoChapters}

None == {}

At(chapter, scene, beat) == [chapter |-> chapter, scene |-> scene, beat |-> beat]
CursorsOne == {At(1, 1, 0), At(0, 1, 0), At(2, 0, 0), At(1, 0, -1)}

OneGateAtATime == UNION {[{g} -> BOOLEAN] : g \in KnittingGates}
SomeGates == OneGateAtATime \cup {[g \in {} |-> TRUE], [g \in KnittingGates |-> TRUE]}

FinalOrFirstGate == {[final_pass_complete |-> TRUE], [done_30 |-> TRUE]}

FangirlOne == {-1, 0, 2}
PassesTwo == {0, 1}

Drafting == {"drafting", "final-pass", "done"}
PlanningOrDrafting == {"chapter-planning", "drafting"}
DraftsTwo == {1, 2} \X {short, long}
DraftsTwoAndStray == {<<1, short>>, <<1, long>>, <<2, long>>, <<3, blank>>}
DraftsOne == {1} \X {blank, short, redraft, Corrupt}
=============================================================================
