------------------------------ MODULE Wordcount ------------------------------
(***************************************************************************)
(* novel wordcount (commands/_wordcount.py, _wordcount_report.py): the     *)
(* drafted words against the target, the knitting gates they trigger and   *)
(* the words still to write before the next one.  The report divides and   *)
(* multiplies floats where the validator's model (NovelState!Crossed)      *)
(* compares integers.                                                      *)
(***************************************************************************)
EXTENDS Contract, BinaryFloat

(* The target is small against the precision: less than 5 * 10^14 words, with the 53
   bits of CPython. *)
ASSUME TargetAssumption == 16 * Target <= PowerOfTwo[Precision]

(* GATE_THRESHOLDS, lowest first: the floats 0.30, 0.50 and 0.80. *)
GateOrder == << "done_30", "done_50", "done_80" >>

FloatThreshold(gate) == Quotient(GateThreshold[gate], 10)

MutantTriggered(gate, current, target) ==   \* the threshold itself does not count
    target > 0 /\ Less(FloatThreshold(gate), Quotient(current, target))

(* ratio >= threshold; a target of zero or less triggers nothing. *)
Triggered(gate, current, target) ==
    target > 0 /\ AtMost(FloatThreshold(gate), Quotient(current, target))

(* The lowest gate not reached; there is none past the last one, or without a
   target. *)
NextGate(current, target) ==
    LET ahead == {i \in 1..3 : ~Triggered(GateOrder[i], current, target)}
    IN  IF target <= 0 \/ ahead = {} THEN "none"
        ELSE GateOrder[CHOOSE i \in ahead : \A j \in ahead : i <= j]

MutantDistance(gate, current, target) ==   \* rounded down
    LET need == Times(target, FloatThreshold(gate))
    IN  (need.m * Up(need.e) - current * Down(need.e)) \div Down(need.e)

(* ceil(threshold * target - current), never negative. *)
Distance(gate, current, target) ==
    CeilingAbove(Times(target, FloatThreshold(gate)), current)

NoDistance == -1

GateGeometry(current, target) ==
    LET next == NextGate(current, target)
    IN  [triggered |-> {g \in KnittingGates : Triggered(g, current, target)},
         next      |-> next,
         distance  |-> IF next = "none" THEN NoDistance
                       ELSE Distance(next, current, target)]

MutantWordcountReport(doc) ==   \* the recorded counts, not the drafts
    [chapters |-> doc.byChapter, current |-> Total(doc.byChapter),
     gates    |-> GateGeometry(Total(doc.byChapter), Target)]

(* build_report over the fresh recount; the table of the chapters is the recount
   itself beside the targets of the manifest. *)
WordcountReport(doc) ==
    LET words == RecountWords(doc, tree)
    IN  [chapters |-> words, current |-> Total(words),
         gates    |-> GateGeometry(Total(words), Target)]

WordcountBody(doc) ==
    IF DraftsReadable(doc, tree) THEN Returned(Success, << >>) ELSE StateFault

WordcountAnswer == Run("novel wordcount", WithState(WordcountBody(toml)))

-----------------------------------------------------------------------------
(* The report foresees recount: of the drafts wordcount can read, recount accepts
   those whose triggered gates are the gates the state records, and refuses the
   others. *)
WordcountForeseesRecount ==
    WordcountAnswer.exit = Success =>
        LET triggered == WordcountReport(toml).gates.triggered
            recorded  == {g \in KnittingGates : toml.gates[g]}
        IN  ValidateState(Recounted(toml, tree)) <=>
                (Target > 0 => triggered = recorded)
=============================================================================
