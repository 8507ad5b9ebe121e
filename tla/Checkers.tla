------------------------------- MODULE Checkers -------------------------------
(***************************************************************************)
(* The read-only commands side by side over one tree: what their answers   *)
(* must have to do with each other, with the mutators that run in between  *)
(* and with the exact arithmetic their floats stand for.                   *)
(***************************************************************************)
EXTENDS Done, Wordcount, Desloppify

CONSTANTS
    Packs,       \* the files given to --pack
    Ledgers,     \* the files given to --ledger
    Scopes,      \* the values given to --chapter: {} or one chapter
    Bodies       \* critic notes the blocker scan is tried on

ASSUME BodiesAssumption == Bodies \subseteq Seq(NoteLines)

ASSUME LinesAssumption == LinesOf \in [Texts -> Seq([Patterns -> Nat])]

(* A file given is one of the four kinds, and the arrays of a TOML table are
   sequences. *)
ASSUME FilesAssumption ==
    \A file \in Packs \cup Ledgers :
        /\ file.kind \in {"absent", "not-toml", "undecodable", "toml"}
        /\ file.kind = "toml" =>
               \A key \in DOMAIN file.raw :
                   Is("array", file.raw[key]) =>
                       /\ Len(file.raw[key].array) \in Nat
                       /\ DOMAIN file.raw[key].array = 1..Len(file.raw[key].array)

(* So are the figures of a density: a threshold times the words of a novel stays
   below a quarter of the precision. *)
WordTables == UNION {[keys -> WordCounts] : keys \in SUBSET Chapters}

ASSUME DensityAssumption ==
    \A file \in Packs :
        PackVerdict(file) = "loaded" =>
            \A i \in DOMAIN Entries(file.raw, "rule") : \A table \in WordTables :
                4 * (Entries(file.raw, "rule")[i]["threshold"].integer * Total(table)) + 4
                    <= PowerOfTwo[Precision]

(* The figures the pure parts are tried on: a word-count target, the words and the
   page length a density is taken over, or the lines of a critic-notes.md.  They
   are fixed from the start, and the commands run in the states without any. *)
VARIABLE probe

NoProbe == [nothing |-> TRUE]

Probes == {NoProbe} \cup [target : -1..60] \cup [words : 1..12, pageWords : 1..15]
                    \cup [body : Bodies]

checkerVars == <<toml, tree, proc, outcome, notes, reviews, probe>>

CheckersInit == DoneInit /\ probe \in Probes

CheckersNext == probe = NoProbe /\ DoneNext /\ UNCHANGED probe

CheckersSpec == CheckersInit /\ [][CheckersNext]_checkerVars

Probing(fields) == DOMAIN probe = fields

-----------------------------------------------------------------------------
(* The blocker scan of novel done. *)

(* What the format means by an open blocker: a finding, not marked resolved, with no
   heading between it and the BLOCKER heading above it. *)
OpenBlocker(body) ==
    \E j, i \in DOMAIN body :
        /\ j < i /\ body[j] = "blocker-heading" /\ body[i] = "finding"
        /\ \A k \in (j + 1)..(i - 1) : ~Heading(body[k])

(* The line scan finds exactly the notes with an open blocker. *)
BlockerScanIsExact ==
    Probing({"body"}) => (UnresolvedBlocker(probe.body) <=> OpenBlocker(probe.body))

-----------------------------------------------------------------------------
(* novel desloppify. *)

LoadedPacks == {file \in Packs : PackVerdict(file) = "loaded"}
LoadedLedgers == {file \in Ledgers : LedgerVerdict(file) = "loaded"}

(* Expected to fail.  The comment in load_toml and the users' guide promise exit 3 for
   a pack or ledger that is absent, broken or undecodable; here for every scope, and
   over a tree that nothing else is wrong with. *)
UndecodableFileIsStateError ==
    toml # NoFile /\ DraftsReadable(toml, tree) =>
        /\ \A file \in Packs : \A scope \in Scopes :
               file.kind # "toml" => PackAnswer(scope, file).exit = StateError
        /\ \A file \in Ledgers :
               file.kind # "toml" => LedgerAnswer({}, file).exit = StateError

Violations(answer) == answer.envelope.violations

(* The violations of an answer name one broken rule or device each: no name twice,
   none without exit 4, and no exit 4 without one. *)
ViolationsNameOneRuleEach ==
    \A answer \in {PackAnswer(scope, file) : scope \in Scopes, file \in LoadedPacks}
                  \cup {LedgerAnswer({}, file) : file \in LoadedLedgers} :
        LET names == Violations(answer)
        IN  /\ \A i, j \in DOMAIN names : names[i] = names[j] => i = j
            /\ names # << >> <=> answer.exit = ActionableFinding

(* A scan of one chapter and the full scan fit together.  A rule counted over the
   manuscript that one chapter alone breaks is broken by the whole.  A density over its
   threshold on the whole is reported for some chapter too; one that is only reported
   there, since it is rounded at its threshold, is at it in a chapter with hits. *)
ScopesFitTogether ==
    toml # NoFile /\ DraftsReadable(toml, tree) =>
        LET whole   == [c \in toml.manifest |-> Body(tree, c)]
            part(c) == [d \in {c} |-> Body(tree, d)]
        IN  \A file \in LoadedPacks :
                LET rules == Entries(file.raw, "rule")
                    Breaks(bodies, i) == ~Detect(file.raw, bodies, WordsIn(bodies))[i].passed
                    Hit(bodies, i)    == Count(rules[i]["pattern"].string, bodies)
                    Spent(bodies, i)  == Hit(bodies, i) * rules[i]["page_words"].integer
                    Allowed(bodies, i) == rules[i]["threshold"].integer * WordsIn(bodies)
                IN  \A i \in DOMAIN rules :
                        IF rules[i]["basis"].string = "manuscript"
                        THEN (\E c \in toml.manifest : Breaks(part(c), i)) => Breaks(whole, i)
                        ELSE /\ Spent(whole, i) > Allowed(whole, i) =>
                                    \E c \in toml.manifest : Breaks(part(c), i)
                             /\ Breaks(whole, i) =>
                                    \E c \in toml.manifest :
                                        /\ Hit(part(c), i) > 0
                                        /\ Spent(part(c), i) >= Allowed(part(c), i)

(* The ways to write one ration agree: reserved for c is allowed in {c}, retired
   after n is allowed in 1..n, and a max_count is a manuscript rule's threshold. *)
RationsAgree ==
    toml # NoFile /\ DraftsReadable(toml, tree) =>
        LET bodies == [c \in toml.manifest |-> Body(tree, c)]
        IN  \A pattern \in Patterns : \A n \in Chapters :
                LET device == String(pattern)
                    Passes(ration) == DevicePasses(ration, bodies)
                    AllowedIn(chapters) ==
                        Passes([pattern |-> device, allowed_chapters |-> Array(chapters)])
                IN  /\ Passes([pattern |-> device, reserved_for_chapter |-> Integer(n)])
                           <=> AllowedIn(<< Integer(n) >>)
                    /\ Passes([pattern |-> device, retired_after_chapter |-> Integer(n)])
                           <=> AllowedIn([i \in 1..n |-> Integer(i)])
                    /\ Passes([pattern |-> device, max_count |-> Integer(n)])
                           <=> RulePasses([basis |-> String("manuscript"),
                                           threshold |-> Integer(n)],
                                          Count(pattern, bodies), WordsIn(bodies))

-----------------------------------------------------------------------------
(* Floats. *)

(* The float ratio the report and the validator compare with 0.30, 0.50 and 0.80
   triggers a gate exactly when the integers do, the threshold itself included:
   what Crossed says of the validator rests on this. *)
TriggersAreExact ==
    Probing({"target"}) =>
        \A current \in 0..70, gate \in KnittingGates :
            Triggered(gate, current, probe.target) <=>
                probe.target > 0 /\ 10 * current >= GateThreshold[gate] * probe.target

(* Drafting exactly the distance reported triggers the next gate, and one word
   fewer does not, however threshold * target rounds. *)
DistanceReachesNextGate ==
    Probing({"target"}) =>
        \A current \in 0..60 :
            LET gates == GateGeometry(current, probe.target)
                After(n) == Triggered(gates.next, current + n, probe.target)
            IN  gates.next # "none" => After(gates.distance) /\ ~After(gates.distance - 1)

(* The density the report divides out, rounding twice, decides as the exact ratio
   does, but at equality: a rule exactly at its threshold may be reported as over
   it.  A rule strictly over is never let through, one strictly under never
   reported. *)
DensityErrsOnlyAtThreshold ==
    Probing({"words", "pageWords"}) =>
        \A count \in 0..12, threshold \in 0..15 :
            LET passes == DensityPasses(count, probe.words, probe.pageWords, threshold)
            IN  /\ count * probe.pageWords > threshold * probe.words => ~passes
                /\ count * probe.pageWords < threshold * probe.words => passes
=============================================================================
