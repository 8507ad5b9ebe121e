------------------------------- MODULE Recovery -------------------------------
(***************************************************************************)
(* reconcile run again and again on a tree it did not make: a table edited *)
(* by hand, a turn recorded by some other producer of [pending_turn], a    *)
(* directory lost or left behind.  Harness reaches only the trees its own  *)
(* commands make; here every small document and tree is a starting point,  *)
(* and nothing but reconcile (and its being killed) changes it.            *)
(***************************************************************************)
EXTENDS Harness

CONSTANTS StartPhases, StartCursors, StartBodies   \* what the trees range over

ASSUME StartAssumption ==
    /\ StartPhases \subseteq Phase /\ StartCursors \subseteq Cursor
    /\ StartBodies \subseteq Texts \cup {NoFile, Corrupt}

Tables == UNION {[keys -> WordCounts] : keys \in SUBSET Chapters}

(* A coherent document over the plan 1..n, in one of the phases given, that
   stays coherent when its words are counted again. *)
CoherentDocuments ==
    {doc \in [phase : StartPhases, completed : {SubSeq(PhaseOrder, 1, i) : i \in 0..10},
              manifest : {1..n : n \in 0..Cardinality(Chapters)} \cap SUBSET Chapters,
              byChapter : Tables, current : {Total(t) : t \in Tables},
              cursor : StartCursors, pass : {1},
              consecutiveClean : {0}, convergenceTarget : {1}, fangirl : {0},
              gates : {[g \in Gates |-> FALSE]}, pending : {NoTurn}] :
        ValidateState(doc)}

(* The records a killed command leaves: set-chapters', reconcile's own, and the
   turn of another producer that was writing a draft and the receipt. *)
Turns(manifest) ==
    {NoTurn, ReconcileTurn,
     [operation |-> "set-chapters", paths |-> DeclaredPaths(manifest)]}
    \cup {[operation |-> "other", paths |-> {Path("draft.md", c), Path("log.md", 0)}] :
              c \in manifest}

(* Trees whose files lie in existing directories; compiled.md is absent, current
   or the concatenation of nothing. *)
Trees ==
    UNION {{[dirs |-> dirs,
             draft |-> [c \in Chapters |-> IF c \in dirs THEN written[c] ELSE NoFile],
             flags |-> flags, scenes |-> flags, beats |-> flags,
             compiled |-> NoFile, log |-> log] :
                written \in [dirs -> StartBodies], flags \in SUBSET dirs,
                log \in {NoFile, "empty"}} : dirs \in SUBSET Chapters}

CompiledStates(doc, disk) ==
    {NoFile, Concatenation(doc, disk), [c \in doc.manifest |-> EmptyText]}

AnyTree ==
    \E doc \in CoherentDocuments : \E turn \in Turns(doc.manifest) :
        \E disk \in Trees : \E compiled \in CompiledStates(doc, disk) :
            /\ toml = [doc EXCEPT !.pending = turn]
            /\ tree = [disk EXCEPT !.compiled = compiled]
            /\ ValidateState(Recounted(doc, disk))
            /\ proc = Idle
            /\ outcome = [command |-> "none", code |-> Success]

RecoveryNext == Reconcile \/ ReconcileSteps \/ Crash

RecoverySpec ==
    AnyTree /\ [][RecoveryNext]_vars /\ WF_vars(Reconcile) /\ WF_vars(ReconcileSteps)

-----------------------------------------------------------------------------
Verdict == DeriveReconciliation(toml, tree).action

(* A tree reconcile does not refuse, whatever turn it carries, is coherent after
   finitely many runs none of which is killed, unless it is the drafting subset
   that is repaired once and refused from then on. *)
RepairableIsRepaired ==
    (proc = Idle /\ Verdict # "refuse" /\ ~DraftingSubsetCoverGap(toml, tree))
        ~> ((proc = Idle /\ Verdict = "none") \/ outcome.code = Killed)

(* However often reconcile is killed, once it no longer is it comes to rest, on a
   coherent tree or on one it refuses. *)
ComesToRest ==
    <>[][~Crash]_vars => <>[](proc = Idle /\ Verdict \in {"none", "refuse"})

(* Whatever tree it finds, a reconcile that exits 0 leaves the next one nothing to do,
   with two exceptions: the counts after a turn it completed or rolled back, and the
   directories of a drafting subset, whose counts it takes once before it refuses.
   Hence three runs that are not killed end on a tree the ladder calls coherent or
   refuses.  No run ends half-way, with exit 3 after its intent record. *)
AnyTreeSettles ==
    proc = Idle =>
        /\ outcome.code # StateError
        /\ outcome = [command |-> "reconcile", code |-> Success] =>
               \/ Verdict = "none"
               \/ /\ Verdict = "recount"
                  /\ tree.log \in {"complete-pending-turn", "rollback-pending-turn"}
               \/ /\ Verdict = "refuse" /\ tree.log = "recount"
                  /\ DraftingSubset(toml, tree)

(* Disk evidence overrides the word counts and the turn record, and nothing else
   the agent has recorded; and nothing on disk is removed. *)
JudgementKept ==
    [][/\ toml' = [toml EXCEPT !.byChapter = toml'.byChapter,
                               !.current = toml'.current, !.pending = toml'.pending]
       /\ tree' = [tree EXCEPT !.dirs = @ \cup tree'.dirs, !.log = tree'.log]
       /\ tree'.log # NoFile \/ tree.log = NoFile]_vars
=============================================================================
