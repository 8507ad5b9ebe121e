---------------------------- MODULE Checkers_proofs ----------------------------
(***************************************************************************)
(* Theorems about the read-only commands, for every file, scope, draft and *)
(* critic note they may be given.                                          *)
(***************************************************************************)
EXTENDS Checkers, Done_proofs, BinaryFloat_proofs, SequenceTheorems

-----------------------------------------------------------------------------
(* The blocker scan. *)

(* Line i lies in a blocker section: the last heading up to it is BLOCKER. *)
InSection(body, i) ==
    \E j \in 1..i : body[j] = "blocker-heading" /\ \A k \in (j + 1)..i : ~Heading(body[k])

(* How a section goes on from one line to the next. *)
LEMMA SectionStep ==
    ASSUME NEW body, NEW i \in Nat, i > 0
    PROVE  InSection(body, i) <=> IF Heading(body[i]) THEN body[i] = "blocker-heading"
                                                      ELSE InSection(body, i - 1)
<1>1. ASSUME InSection(body, i), ~Heading(body[i]) PROVE InSection(body, i - 1)
  <2>1. PICK j \in 1..i : body[j] = "blocker-heading" /\ \A k \in (j + 1)..i : ~Heading(body[k])
    BY <1>1 DEF InSection
  <2>2. j # i
    BY <1>1, <2>1 DEF Heading
  <2>3. j \in 1..(i - 1) /\ \A k \in (j + 1)..(i - 1) : ~Heading(body[k])
    BY <2>1, <2>2 DEF Heading
  <2>4. QED
    BY <2>1, <2>3 DEF InSection, Heading
<1>2. ASSUME InSection(body, i - 1), ~Heading(body[i]) PROVE InSection(body, i)
  <2>1. PICK j \in 1..(i - 1) :
            body[j] = "blocker-heading" /\ \A k \in (j + 1)..(i - 1) : ~Heading(body[k])
    BY <1>2 DEF InSection
  <2>2. j \in 1..i /\ \A k \in (j + 1)..i : ~Heading(body[k])
    BY <1>2, <2>1 DEF Heading
  <2>3. QED
    BY <2>1, <2>2 DEF InSection, Heading
<1>3. ASSUME InSection(body, i), Heading(body[i]) PROVE body[i] = "blocker-heading"
  <2>1. PICK j \in 1..i : body[j] = "blocker-heading" /\ \A k \in (j + 1)..i : ~Heading(body[k])
    BY <1>3 DEF InSection
  <2>2. j = i
    BY <1>3, <2>1 DEF Heading
  <2>3. QED
    BY <2>1, <2>2
<1>4. ASSUME body[i] = "blocker-heading" PROVE InSection(body, i)
  <2>1. i \in 1..i /\ \A k \in (i + 1)..i : ~Heading(body[k])
    OBVIOUS
  <2>2. QED
    BY <1>4, <2>1 DEF InSection, Heading
<1>5. QED
  BY <1>1, <1>2, <1>3, <1>4, Zenon

(* The flag the scan carries says whether the line is in a section. *)
LEMMA ScanFlag ==
    ASSUME NEW N \in Nat, NEW body, NEW open,
           open = [i \in 0..N |-> IF i > 0 /\ Heading(body[i]) THEN body[i] = "blocker-heading"
                                                               ELSE i > 0 /\ open[i - 1]]
    PROVE  \A i \in 0..N : open[i] <=> InSection(body, i)
<1> DEFINE S == {i \in 0..N : open[i] <=> InSection(body, i)}
<1>1. \A i \in 0..N :
          open[i] <=> IF i > 0 /\ Heading(body[i]) THEN body[i] = "blocker-heading"
                                                   ELSE i > 0 /\ open[i - 1]
  BY Zenon
<1>2. 0 \in S
  <2>1. 0 \in 0..N /\ ~(0 > 0)
    OBVIOUS
  <2>2. ~open[0]
    BY <1>1, <2>1, Zenon
  <2>3. ~InSection(body, 0)
    BY DEF InSection
  <2>4. QED
    BY <2>1, <2>2, <2>3, Zenon
<1>3. ASSUME NEW n \in 1..N, n - 1 \in S PROVE n \in S
  <2>1. n \in 0..N /\ n > 0 /\ n \in Nat
    OBVIOUS
  <2>2. open[n] <=> IF Heading(body[n]) THEN body[n] = "blocker-heading" ELSE open[n - 1]
    BY <1>1, <2>1, Zenon
  <2>3. open[n - 1] <=> InSection(body, n - 1)
    BY <1>3, Zenon
  <2>4. InSection(body, n) <=> IF Heading(body[n]) THEN body[n] = "blocker-heading"
                                                   ELSE InSection(body, n - 1)
    BY <2>1, SectionStep, Zenon
  <2>5. QED
    BY <2>1, <2>2, <2>3, <2>4, Zenon
<1> HIDE DEF S
<1>4. 0..N \subseteq S
  BY <1>2, <1>3, InductionTo
<1>5. QED
  BY <1>4, Zenon DEF S

(* What the scan finds in any lines. *)
LEMMA ScanFinds ==
    ASSUME NEW body \in Seq(NoteLines)
    PROVE  UnresolvedBlocker(body) <=>
               \E i \in DOMAIN body : body[i] = "finding" /\ InSection(body, i)
<1> DEFINE N == Len(body)
           Flags(f) == [i \in 0..N |-> IF i > 0 /\ Heading(body[i])
                                       THEN body[i] = "blocker-heading"
                                       ELSE i > 0 /\ f[i - 1]]
           open == CHOOSE f : f = Flags(f)
           flag == [i \in 0..N |-> InSection(body, i)]
<1>1. flag = Flags(flag)
  <2>1. ASSUME NEW i \in 0..N
        PROVE  InSection(body, i) = IF i > 0 /\ Heading(body[i])
                                    THEN body[i] = "blocker-heading"
                                    ELSE i > 0 /\ flag[i - 1]
    <3>1. CASE i = 0
      <4>1. ~(i > 0) /\ ~InSection(body, i)
        BY <3>1 DEF InSection
      <4>2. QED
        BY <4>1, Zenon DEF InSection
    <3>2. CASE i > 0
      <4>1. i - 1 \in 0..N /\ i \in Nat
        BY <3>2
      <4>2. flag[i - 1] = InSection(body, i - 1)
        BY <4>1, Zenon
      <4>3. InSection(body, i) <=> IF Heading(body[i]) THEN body[i] = "blocker-heading"
                                                       ELSE InSection(body, i - 1)
        BY <3>2, <4>1, SectionStep, Zenon
      <4>4. InSection(body, i) \in BOOLEAN
        BY Zenon DEF InSection
      <4>5. QED
        BY <3>2, <4>2, <4>3, <4>4, Zenon
    <3>3. QED
      BY <3>1, <3>2
  <2>2. QED
    BY <2>1, Zenon
<1>2. open = Flags(open)
  BY <1>1, Zenon
<1> HIDE DEF open
<1>3. \A i \in 0..N : open[i] <=> InSection(body, i)
  <2>1. N \in Nat
    OBVIOUS
  <2> HIDE DEF N
  <2>2. QED
    BY <1>2, <2>1, ScanFlag, Zenon
<1>4. UnresolvedBlocker(body) <=>
          \E i \in DOMAIN body : body[i] = "finding" /\ open[i]
  BY Zenon DEF UnresolvedBlocker, open
<1>5. DOMAIN body \subseteq 0..N
  OBVIOUS
<1>6. QED
  BY <1>3, <1>4, <1>5, Zenon

(* The scan finds exactly the open blockers. *)
LEMMA ScanIsExact ==
    ASSUME NEW body \in Seq(NoteLines)
    PROVE  UnresolvedBlocker(body) <=> OpenBlocker(body)
<1>1. ASSUME NEW i \in DOMAIN body, body[i] = "finding", InSection(body, i)
      PROVE  OpenBlocker(body)
  <2>1. PICK j \in 1..i : body[j] = "blocker-heading" /\ \A k \in (j + 1)..i : ~Heading(body[k])
    BY <1>1 DEF InSection
  <2>2. j \in DOMAIN body /\ j < i
    BY <1>1, <2>1
  <2>3. \A k \in (j + 1)..(i - 1) : ~Heading(body[k])
    BY <2>1 DEF Heading
  <2>4. QED
    BY <1>1, <2>1, <2>2, <2>3, Zenon DEF OpenBlocker
<1>2. ASSUME NEW j \in DOMAIN body, NEW i \in DOMAIN body,
             j < i, body[j] = "blocker-heading", body[i] = "finding",
             \A k \in (j + 1)..(i - 1) : ~Heading(body[k])
      PROVE  InSection(body, i)
  <2>1. ~Heading(body[i])
    BY <1>2 DEF Heading
  <2>2. j \in 1..i /\ \A k \in (j + 1)..i : ~Heading(body[k])
    BY <1>2, <2>1 DEF Heading
  <2>3. QED
    BY <1>2, <2>2, Zenon DEF InSection
<1>3. UnresolvedBlocker(body) =>  OpenBlocker(body)
  BY <1>1, ScanFinds, Zenon
<1>4. OpenBlocker(body) => UnresolvedBlocker(body)
  BY <1>2, ScanFinds, Zenon DEF OpenBlocker
<1>5. QED
  BY <1>3, <1>4

(* The figures a behaviour is tried on are those it started with, and the commands
   run as they do without them. *)
LEMMA CheckersImplementDone == CheckersSpec => DoneSpec /\ [](probe \in Probes)
<1>1. CheckersInit => DoneInit /\ probe \in Probes
  BY DEF CheckersInit
<1>2. [CheckersNext]_checkerVars => [DoneNext]_doneVars
  BY DEF CheckersNext, checkerVars, doneVars
<1>3. probe \in Probes /\ [CheckersNext]_checkerVars => (probe \in Probes)'
  BY DEF CheckersNext, checkerVars, Probes
<1>4. QED
  BY <1>1, <1>2, <1>3, PTL DEF CheckersSpec, DoneSpec

(* For notes of any length, novel done's line scan reports a blocker exactly when the
   notes hold an open one. *)
THEOREM BlockerScanExact == CheckersSpec => []BlockerScanIsExact
<1>1. probe \in Probes => BlockerScanIsExact
  <2> SUFFICES ASSUME probe \in Probes, DOMAIN probe = {"body"}
               PROVE  UnresolvedBlocker(probe.body) <=> OpenBlocker(probe.body)
    BY DEF BlockerScanIsExact, Probing
  <2>1. probe.body \in Bodies
    <3>1. \/ probe = NoProbe \/ probe \in [target : -1..60]
          \/ probe \in [words : 1..12, pageWords : 1..15] \/ probe \in [body : Bodies]
      BY DEF Probes
    <3>2. DOMAIN NoProbe = {"nothing"}
      BY DEF NoProbe
    <3>3. QED
      BY <3>1, <3>2
  <2>2. QED
    BY <2>1, BodiesAssumption, ScanIsExact
<1>2. QED
  BY <1>1, CheckersImplementDone, PTL

(* The critic's files are files: absent, undecodable, or lines. *)
LEMMA NotesTyped == DoneSpec => [](notes \in [Chapters -> NotesFiles])
<1>1. DoneInit => notes \in [Chapters -> NotesFiles]
  BY DEF DoneInit, NotesFiles
<1>2. notes \in [Chapters -> NotesFiles] /\ [DoneNext]_doneVars
          => (notes \in [Chapters -> NotesFiles])'
  <2> SUFFICES ASSUME notes \in [Chapters -> NotesFiles],
                      NEW n \in NoteInputs, CriticWritesNotes(n[1], n[2])
               PROVE  notes' \in [Chapters -> NotesFiles]
    BY DEF DoneNext, doneVars, ReviewerWrites
  <2>1. n[1] \in Chapters /\ n[2] \in NotesFiles
    BY NotesAssumption
  <2>2. QED
    BY <2>1 DEF CriticWritesNotes
<1>3. QED
  BY <1>1, <1>2, PTL DEF DoneSpec

(* Hence in every tree the critic leaves, the clause of novel done about a chapter's
   blockers fails exactly when its notes decode and hold an open one. *)
THEOREM BlockersAreFound ==
    DoneSpec => [](\A c \in Chapters :
                       HasBlocker(c) <=> /\ notes[c] \notin {NoFile, Corrupt}
                                         /\ OpenBlocker(notes[c]))
<1>1. notes \in [Chapters -> NotesFiles]
          => \A c \in Chapters : HasBlocker(c) <=> /\ notes[c] \notin {NoFile, Corrupt}
                                                   /\ OpenBlocker(notes[c])
  <2> SUFFICES ASSUME notes \in [Chapters -> NotesFiles], NEW c \in Chapters,
                      notes[c] \notin {NoFile, Corrupt}
               PROVE  UnresolvedBlocker(notes[c]) <=> OpenBlocker(notes[c])
    BY Zenon DEF HasBlocker
  <2>1. notes[c] \in Seq(NoteLines)
    BY DEF NotesFiles
  <2>2. QED
    BY <2>1, ScanIsExact
<1>2. QED
  BY <1>1, NotesTyped, PTL

-----------------------------------------------------------------------------
(* novel desloppify. *)

(* The exit code run gives to each way a body may end. *)
LEMMA RunExit ==
    ASSUME NEW command
    PROVE  /\ Run(command, UsageFault).exit = UsageError
           /\ Run(command, StateFault).exit = StateError
           /\ Run(command, Escaped).exit = Uncaught
           /\ \A code, names : Run(command, Returned(code, names)).exit = code
           /\ \A code, names :
                  Run(command, Returned(code, names)).envelope.violations = names
           /\ \A fault \in {UsageFault, StateFault, Escaped} :
                  Run(command, fault).envelope.violations = << >>
BY DEF Run, UsageFault, StateFault, Escaped, Raised, Returned, Envelope, NoEnvelope

(* The names of the failed findings up to each one. *)
NamesUpTo(findings, n, f) ==
    f = [i \in 0..n |-> IF i = 0                   THEN << >>
                        ELSE IF findings[i].passed THEN f[i - 1]
                        ELSE Append(f[i - 1], findings[i].id)]

(* One finding further. *)
LEMMA NamesGoOn ==
    ASSUME NEW findings, NEW n \in Nat, n > 0, NEW f, NamesUpTo(findings, n - 1, f)
    PROVE  \E g : NamesUpTo(findings, n, g)
<1> DEFINE next == IF findings[n].passed THEN f[n - 1] ELSE Append(f[n - 1], findings[n].id)
           g == [i \in 0..n |-> IF i = n THEN next ELSE f[i]]
<1>1. ASSUME NEW i \in 0..n
      PROVE  g[i] = IF i = 0                   THEN << >>
                    ELSE IF findings[i].passed THEN g[i - 1]
                    ELSE Append(g[i - 1], findings[i].id)
  <2>1. CASE i = n
    <3>1. g[i] = next /\ g[i - 1] = f[i - 1] /\ i # 0
      BY <2>1
    <3>2. QED
      BY <2>1, <3>1, Zenon
  <2>2. CASE i # n /\ i # 0
    <3>1. g[i] = f[i] /\ g[i - 1] = f[i - 1] /\ i \in 0..(n - 1)
      BY <2>2
    <3>2. QED
      BY <2>2, <3>1, Zenon DEF NamesUpTo
  <2>3. CASE i # n /\ i = 0
    <3>1. g[i] = f[i] /\ i \in 0..(n - 1)
      BY <2>3
    <3>2. QED
      BY <2>3, <3>1, Zenon DEF NamesUpTo
  <2>4. QED
    BY <2>1, <2>2, <2>3
<1>2. g = [i \in 0..n |-> IF i = 0                   THEN << >>
                          ELSE IF findings[i].passed THEN g[i - 1]
                          ELSE Append(g[i - 1], findings[i].id)]
  BY <1>1, Zenon
<1>3. QED
  BY <1>2, Zenon DEF NamesUpTo

(* Hence they are defined for every list of findings. *)
LEMMA NamesExist ==
    ASSUME NEW findings, NEW n \in Nat PROVE \E f : NamesUpTo(findings, n, f)
<1> DEFINE S == {m \in 0..n : \E f : NamesUpTo(findings, m, f)}
<1>1. 0 \in S
  <2> DEFINE f == [i \in 0..0 |-> << >>]
  <2>1. \A i \in 0..0 : i = 0
    OBVIOUS
  <2>2. f = [i \in 0..0 |-> IF i = 0                   THEN << >>
                            ELSE IF findings[i].passed THEN f[i - 1]
                            ELSE Append(f[i - 1], findings[i].id)]
    BY <2>1, Zenon
  <2>3. NamesUpTo(findings, 0, f)
    BY <2>2, Zenon DEF NamesUpTo
  <2>4. QED
    BY <2>3
<1>2. ASSUME NEW m \in 1..n, m - 1 \in S PROVE m \in S
  <2>1. m \in Nat /\ m > 0 /\ m \in 0..n
    OBVIOUS
  <2>2. PICK f : NamesUpTo(findings, m - 1, f)
    BY <1>2
  <2>3. QED
    BY <2>1, <2>2, NamesGoOn
<1> HIDE DEF S
<1>3. 0..n \subseteq S
  BY <1>1, <1>2, InductionTo
<1>4. QED
  BY <1>3 DEF S

(* A name is listed for each of the findings up to i that failed, and for no other. *)
Named(findings, i, names) ==
    /\ names \in Seq({findings[j].id : j \in 1..Len(findings)})
    /\ \A k \in DOMAIN names : \E j \in 1..i : names[k] = findings[j].id
    /\ \A k, l \in DOMAIN names : names[k] = names[l] => k = l

(* Ids that differ give names that differ. *)
LEMMA NamesAreUnique ==
    ASSUME NEW findings, Len(findings) \in Nat,
           \A i, j \in 1..Len(findings) : findings[i].id = findings[j].id => i = j,
           NEW f, NamesUpTo(findings, Len(findings), f)
    PROVE  Named(findings, Len(findings), f[Len(findings)])
<1> DEFINE n == Len(findings)
           ids == {findings[j].id : j \in 1..n}
           S == {i \in 0..n : Named(findings, i, f[i])}
<1> DEFINE Name(i) == IF i = 0                   THEN << >>
                      ELSE IF findings[i].passed THEN f[i - 1]
                      ELSE Append(f[i - 1], findings[i].id)
<1>0. \A i \in 0..n : f[i] = Name(i)
  BY Zenon DEF NamesUpTo
<1>1. 0 \in S
  <2>1. f[0] = << >> /\ 0 \in 0..n
    BY <1>0
  <2>2. << >> \in Seq(ids) /\ DOMAIN << >> = {}
    OBVIOUS
  <2>3. Named(findings, 0, << >>)
    BY <2>2 DEF Named
  <2>4. QED
    BY <2>1, <2>3, Zenon
<1>2. ASSUME NEW i \in 1..n, i - 1 \in S PROVE i \in S
  <2> DEFINE names == f[i - 1]
             id == findings[i].id
  <2>0. i \in 0..n /\ i # 0
    OBVIOUS
  <2>1. f[i] = names \/ f[i] = Append(names, id)
    BY <1>0, <2>0, Zenon
  <2>2. /\ names \in Seq(ids)
        /\ \A k \in DOMAIN names : \E j \in 1..(i - 1) : names[k] = findings[j].id
        /\ \A k, l \in DOMAIN names : names[k] = names[l] => k = l
    BY <1>2 DEF Named
  <2>3. id \in ids
    OBVIOUS
  <2>4. \A k \in DOMAIN names : names[k] # id
    <3> SUFFICES ASSUME NEW k \in DOMAIN names PROVE names[k] # id
      OBVIOUS
    <3>1. PICK j \in 1..(i - 1) : names[k] = findings[j].id
      BY <2>2
    <3>2. QED
      BY <3>1
  <2> HIDE DEF names, id, ids
  <2>5. CASE f[i] = names
    <3>1. \A k \in DOMAIN names : \E j \in 1..i : names[k] = findings[j].id
      BY <2>2
    <3>2. Named(findings, i, f[i])
      BY <2>2, <2>5, <3>1 DEF Named, ids
    <3>3. QED
      BY <3>2
  <2>6. CASE f[i] = Append(names, id)
    <3> DEFINE longer == Append(names, id)
    <3>1. /\ longer \in Seq(ids)
          /\ Len(longer) = Len(names) + 1
          /\ DOMAIN longer = 1..Len(longer) /\ DOMAIN names = 1..Len(names)
          /\ \A k \in DOMAIN names : longer[k] = names[k]
          /\ longer[Len(names) + 1] = id
      BY <2>2, <2>3, AppendProperties
    <3> HIDE DEF longer
    <3>2. Len(names) \in Nat
      BY <2>2
    <3>3. \A k \in DOMAIN longer : k \in DOMAIN names \/ k = Len(names) + 1
      BY <3>1, <3>2
    <3>4. \A k \in DOMAIN longer : \E j \in 1..i : longer[k] = findings[j].id
      BY <2>2, <3>1, <3>3 DEF id
    <3>5. \A k, l \in DOMAIN longer : longer[k] = longer[l] => k = l
      BY <2>2, <2>4, <3>1, <3>3
    <3>6. Named(findings, i, longer)
      BY <3>1, <3>4, <3>5 DEF Named, ids
    <3>7. QED
      BY <2>0, <2>6, <3>6, Zenon DEF longer
  <2>7. QED
    BY <2>1, <2>5, <2>6
<1> HIDE DEF S
<1>3. 0..n \subseteq S
  BY <1>1, <1>2, InductionTo
<1>4. QED
  BY <1>3 DEF S

(* The outcome of a scan whose findings have ids that differ: the violations are
   names that differ, and exit 4 comes with one. *)
LEMMA OutcomeNames ==
    ASSUME NEW findings, Len(findings) \in Nat,
           \A i, j \in 1..Len(findings) : findings[i].id = findings[j].id => i = j
    PROVE  \E names :
               /\ FindingOutcome(findings) =
                      Returned(IF names = << >> THEN Success ELSE ActionableFinding, names)
               /\ \A k, l \in DOMAIN names : names[k] = names[l] => k = l
<1> DEFINE n == Len(findings)
           Upto(f) == [i \in 0..n |-> IF i = 0                   THEN << >>
                                      ELSE IF findings[i].passed THEN f[i - 1]
                                      ELSE Append(f[i - 1], findings[i].id)]
           failed == CHOOSE f : f = Upto(f)
<1>1. \E f : NamesUpTo(findings, n, f)
  BY NamesExist
<1>2. failed = Upto(failed)
  BY <1>1, Zenon DEF NamesUpTo
<1>3. FindingOutcome(findings) =
          Returned(IF failed[n] = << >> THEN Success ELSE ActionableFinding, failed[n])
  BY Zenon DEF FindingOutcome
<1> HIDE DEF failed
<1>4. NamesUpTo(findings, n, failed)
  BY <1>2, Zenon DEF NamesUpTo
<1>5. Named(findings, n, failed[n])
  BY <1>4, NamesAreUnique, Zenon
<1>6. \A k, l \in DOMAIN failed[n] : failed[n][k] = failed[n][l] => k = l
  BY <1>5, Zenon DEF Named
<1>7. QED
  BY <1>3, <1>6, Zenon

(* What is asked of an answer. *)
NamesEachOnce(answer) ==
    /\ \A i, j \in DOMAIN Violations(answer) :
           Violations(answer)[i] = Violations(answer)[j] => i = j
    /\ Violations(answer) # << >> <=> answer.exit = ActionableFinding

(* A scan gives such an answer, and so does a fault. *)
LEMMA AnswersNameOnce ==
    ASSUME NEW command
    PROVE  /\ \A fault \in {UsageFault, StateFault, Escaped} : NamesEachOnce(Run(command, fault))
           /\ \A findings :
                  /\ Len(findings) \in Nat
                  /\ \A i, j \in 1..Len(findings) : findings[i].id = findings[j].id => i = j
                  => NamesEachOnce(Run(command, FindingOutcome(findings)))
<1>1. ASSUME NEW fault \in {UsageFault, StateFault, Escaped}
      PROVE  NamesEachOnce(Run(command, fault))
  <2>1. Run(command, fault).envelope.violations = << >>
    BY RunExit
  <2>2. Run(command, fault).exit # ActionableFinding
    BY RunExit DEF UsageError, StateError, Uncaught, ActionableFinding
  <2>3. QED
    BY <2>1, <2>2 DEF NamesEachOnce, Violations
<1>2. ASSUME NEW findings, Len(findings) \in Nat,
             \A i, j \in 1..Len(findings) : findings[i].id = findings[j].id => i = j
      PROVE  NamesEachOnce(Run(command, FindingOutcome(findings)))
  <2> DEFINE answer == Run(command, FindingOutcome(findings))
  <2>1. PICK names :
            /\ FindingOutcome(findings) =
                   Returned(IF names = << >> THEN Success ELSE ActionableFinding, names)
            /\ \A k, l \in DOMAIN names : names[k] = names[l] => k = l
    BY <1>2, OutcomeNames
  <2> DEFINE code == IF names = << >> THEN Success ELSE ActionableFinding
  <2>2. /\ answer.exit = code
        /\ answer.envelope.violations = names
    <3>1. FindingOutcome(findings) = Returned(code, names)
      BY <2>1, Zenon
    <3> HIDE DEF code
    <3>2. /\ Run(command, Returned(code, names)).exit = code
          /\ Run(command, Returned(code, names)).envelope.violations = names
      BY RunExit
    <3>3. QED
      BY <3>1, <3>2, Zenon
  <2>3. Success # ActionableFinding
    BY DEF Success, ActionableFinding
  <2>4. QED
    BY <2>1, <2>2, <2>3, Zenon DEF NamesEachOnce, Violations
<1>3. QED
  BY <1>1, <1>2

(* The findings of a scan of the entries of an array: one of each, under its id. *)
FindingsFor(file, key, findings) ==
    /\ DOMAIN findings = DOMAIN Entries(file.raw, key)
    /\ findings = [i \in DOMAIN findings |-> findings[i]]
    /\ \A i \in DOMAIN findings : findings[i].id = Entries(file.raw, key)[i]["id"].string

(* The findings of a scan carry the ids of the entries, one each. *)
LEMMA FindingsOfEntries ==
    ASSUME NEW file \in Packs \cup Ledgers, file.kind = "toml", NEW key,
           EntriesAccepted(file.raw, key), NEW findings, FindingsFor(file, key, findings)
    PROVE  /\ Len(findings) \in Nat
           /\ \A i, j \in 1..Len(findings) : findings[i].id = findings[j].id => i = j
<1>0. /\ DOMAIN findings = DOMAIN Entries(file.raw, key)
      /\ findings = [i \in DOMAIN findings |-> findings[i]]
      /\ \A i \in DOMAIN findings : findings[i].id = Entries(file.raw, key)[i]["id"].string
  BY Zenon DEF FindingsFor
<1> DEFINE array == file.raw[key].array
<1>1. DOMAIN Entries(file.raw, key) = DOMAIN array
  BY DEF Entries
<1>2. Len(array) \in Nat /\ DOMAIN array = 1..Len(array)
  BY FilesAssumption DEF EntriesAccepted, EntriesShaped, Requires
<1>3. Len(findings) = Len(array)
  <2> DEFINE n == Len(array)
  <2>1. findings = [i \in 1..n |-> findings[i]]
    BY <1>0, <1>1, <1>2, Zenon
  <2> HIDE DEF n, array
  <2>2. n \in Nat
    BY <1>2 DEF n
  <2>3. Len([i \in 1..n |-> findings[i]]) = n
    BY <2>2
  <2>4. QED
    BY <2>1, <2>3, Zenon DEF n
<1>4. UniqueIds(Entries(file.raw, key))
  BY Zenon DEF EntriesAccepted
<1>5. \A i, j \in 1..Len(findings) : findings[i].id = findings[j].id => i = j
  BY <1>0, <1>1, <1>2, <1>3, <1>4, Zenon DEF UniqueIds
<1>6. QED
  BY <1>2, <1>3, <1>5

(* A file that loads is a TOML file its parser accepts. *)
LEMMA LoadedAccepted ==
    ASSUME NEW file \in Packs \cup Ledgers, NEW accepted \in BOOLEAN,
           LoadVerdict(file, accepted) = "loaded"
    PROVE  file.kind = "toml" /\ accepted
<1>1. file.kind \in {"absent", "not-toml", "undecodable", "toml"}
  BY FilesAssumption
<1>2. QED
  BY <1>1 DEF LoadVerdict

(* A pack that loads holds accepted rules, and a ledger accepted devices. *)
LEMMA LoadedEntries ==
    /\ \A file \in LoadedPacks :
           file \in Packs /\ file.kind = "toml" /\ EntriesAccepted(file.raw, "rule")
    /\ \A file \in LoadedLedgers :
           file \in Ledgers /\ file.kind = "toml" /\ EntriesAccepted(file.raw, "device")
<1>1. ASSUME NEW file \in LoadedPacks
      PROVE  file \in Packs /\ file.kind = "toml" /\ EntriesAccepted(file.raw, "rule")
  <2> DEFINE accepted == file.kind = "toml" /\ PackAccepted(file.raw)
  <2>1. file \in Packs /\ LoadVerdict(file, accepted) = "loaded"
    BY Zenon DEF LoadedPacks, PackVerdict
  <2>2. accepted \in BOOLEAN
    OBVIOUS
  <2> HIDE DEF accepted
  <2>3. file.kind = "toml" /\ accepted
    BY <2>1, <2>2, LoadedAccepted
  <2>4. QED
    BY <2>1, <2>3, Zenon DEF accepted, PackAccepted
<1>2. ASSUME NEW file \in LoadedLedgers
      PROVE  file \in Ledgers /\ file.kind = "toml" /\ EntriesAccepted(file.raw, "device")
  <2> DEFINE accepted == file.kind = "toml" /\ LedgerAccepted(file.raw)
  <2>1. file \in Ledgers /\ LoadVerdict(file, accepted) = "loaded"
    BY Zenon DEF LoadedLedgers, LedgerVerdict
  <2>2. accepted \in BOOLEAN
    OBVIOUS
  <2> HIDE DEF accepted
  <2>3. file.kind = "toml" /\ accepted
    BY <2>1, <2>2, LoadedAccepted
  <2>4. QED
    BY <2>1, <2>3, Zenon DEF accepted, LedgerAccepted
<1>3. QED
  BY <1>1, <1>2, Zenon

(* Whatever is scanned, desloppify names every broken rule or device once, and exits
   4 exactly when it names one. *)
THEOREM ViolationsAreNames == CheckersSpec => []ViolationsNameOneRuleEach
<1>1. ASSUME NEW file \in LoadedPacks, NEW scope
      PROVE  NamesEachOnce(PackAnswer(scope, file))
  <2> DEFINE findings == PackFindings(scope, file)
  <2>1. PackBody(scope, file) \in {UsageFault, StateFault, FindingOutcome(findings)}
    BY DEF PackBody, LoadedPacks, SourceFault
  <2>2. file \in Packs \cup Ledgers /\ file.kind = "toml" /\ EntriesAccepted(file.raw, "rule")
    BY LoadedEntries, Zenon
  <2>3. FindingsFor(file, "rule", findings)
    BY DEF FindingsFor, PackFindings, Detect
  <2> HIDE DEF findings
  <2>4. /\ Len(findings) \in Nat
        /\ \A i, j \in 1..Len(findings) : findings[i].id = findings[j].id => i = j
    BY <2>2, <2>3, FindingsOfEntries, Zenon
  <2>5. QED
    BY <2>1, <2>4, AnswersNameOnce, Zenon DEF PackAnswer
<1>2. ASSUME NEW file \in LoadedLedgers
      PROVE  NamesEachOnce(LedgerAnswer({}, file))
  <2> DEFINE findings == DetectLedger(file.raw, ScannedBodies({}))
  <2>1. LedgerBody(file) \in {UsageFault, StateFault, FindingOutcome(findings)}
    BY DEF LedgerBody, LoadedLedgers, SourceFault
  <2>2. file \in Packs \cup Ledgers /\ file.kind = "toml" /\ EntriesAccepted(file.raw, "device")
    BY LoadedEntries, Zenon
  <2>3. FindingsFor(file, "device", findings)
    BY DEF FindingsFor, DetectLedger
  <2> HIDE DEF findings
  <2>4. /\ Len(findings) \in Nat
        /\ \A i, j \in 1..Len(findings) : findings[i].id = findings[j].id => i = j
    BY <2>2, <2>3, FindingsOfEntries, Zenon
  <2>5. QED
    BY <2>1, <2>4, AnswersNameOnce, Zenon DEF LedgerAnswer
<1>3. ASSUME NEW answer,
             answer \in {PackAnswer(scope, file) : scope \in Scopes, file \in LoadedPacks}
                        \cup {LedgerAnswer({}, file) : file \in LoadedLedgers}
      PROVE  NamesEachOnce(answer)
  <2>1. CASE answer \in {PackAnswer(scope, file) : scope \in Scopes, file \in LoadedPacks}
    <3>1. PICK scope \in Scopes, file \in LoadedPacks : answer = PackAnswer(scope, file)
      BY <2>1
    <3>2. QED
      BY <3>1, <1>1, Zenon
  <2>2. CASE answer \in {LedgerAnswer({}, file) : file \in LoadedLedgers}
    <3>1. PICK file \in LoadedLedgers : answer = LedgerAnswer({}, file)
      BY <2>2
    <3>2. QED
      BY <3>1, <1>2, Zenon
  <2>3. QED
    BY <1>3, <2>1, <2>2
<1>4. ViolationsNameOneRuleEach
  BY <1>3 DEF ViolationsNameOneRuleEach, NamesEachOnce
<1>5. QED
  BY <1>4, PTL

-----------------------------------------------------------------------------
(* The device ledger. *)

(* Hits are at chapters that were scanned. *)
LEMMA HitsAreScanned ==
    ASSUME NEW pattern, NEW bodies
    PROVE  HitChapters(pattern, bodies) \subseteq DOMAIN bodies
BY DEF HitChapters, Hits, HitsIn

(* The chapters each way of writing a ration puts a device outside of. *)
LEMMA RationWindows ==
    ASSUME NEW device, NEW n \in Nat, NEW chapter \in Nat
    PROVE  /\ Outside([pattern |-> device, allowed_chapters |-> Array(<< Integer(n) >>)],
                      chapter) <=> chapter # n
           /\ Outside([pattern |-> device,
                       allowed_chapters |-> Array([i \in 1..n |-> Integer(i)])],
                      chapter) <=> chapter \notin 1..n
           /\ Outside([pattern |-> device, reserved_for_chapter |-> Integer(n)], chapter)
                  <=> chapter # n
           /\ Outside([pattern |-> device, retired_after_chapter |-> Integer(n)], chapter)
                  <=> chapter > n
           /\ ~Outside([pattern |-> device, max_count |-> Integer(n)], chapter)
<1>1. Outside([pattern |-> device, allowed_chapters |-> Array(<< Integer(n) >>)],
              chapter) <=> chapter # n
  BY DEF Outside, Array, Integer
<1>2. Outside([pattern |-> device,
               allowed_chapters |-> Array([i \in 1..n |-> Integer(i)])],
              chapter) <=> chapter \notin 1..n
  BY DEF Outside, Array, Integer
<1>3. Outside([pattern |-> device, reserved_for_chapter |-> Integer(n)], chapter)
          <=> chapter # n
  BY DEF Outside, Integer
<1>4. Outside([pattern |-> device, retired_after_chapter |-> Integer(n)], chapter)
          <=> chapter > n
  BY DEF Outside, Integer
<1>5. ~Outside([pattern |-> device, max_count |-> Integer(n)], chapter)
  BY DEF Outside
<1>6. QED
  BY <1>1, <1>2, <1>3, <1>4, <1>5

(* What a device without a cap passes by. *)
LEMMA UncappedPasses ==
    ASSUME NEW device, NEW bodies, "max_count" \notin DOMAIN device
    PROVE  DevicePasses(device, bodies)
               <=> \A chapter \in HitChapters(device["pattern"].string, bodies) :
                       ~Outside(device, chapter)
BY DEF DevicePasses

(* The ways to write one ration agree over whatever drafts are scanned. *)
LEMMA RationsAgreeOver ==
    ASSUME NEW pattern, NEW n \in Chapters, NEW bodies, DOMAIN bodies \subseteq Chapters
    PROVE  LET device == String(pattern)
               Passes(ration) == DevicePasses(ration, bodies)
               AllowedIn(chapters) ==
                   Passes([pattern |-> device, allowed_chapters |-> Array(chapters)])
           IN  /\ Passes([pattern |-> device, reserved_for_chapter |-> Integer(n)])
                      <=> AllowedIn(<< Integer(n) >>)
               /\ Passes([pattern |-> device, retired_after_chapter |-> Integer(n)])
                      <=> AllowedIn([i \in 1..n |-> Integer(i)])
               /\ Passes([pattern |-> device, max_count |-> Integer(n)])
                      <=> RulePasses([basis |-> String("manuscript"),
                                      threshold |-> Integer(n)],
                                     Count(pattern, bodies), WordsIn(bodies))
<1> DEFINE device == String(pattern)
           one    == [pattern |-> device, allowed_chapters |-> Array(<< Integer(n) >>)]
           upTo   == [pattern |-> device,
                      allowed_chapters |-> Array([i \in 1..n |-> Integer(i)])]
           reserved == [pattern |-> device, reserved_for_chapter |-> Integer(n)]
           retired  == [pattern |-> device, retired_after_chapter |-> Integer(n)]
           capped   == [pattern |-> device, max_count |-> Integer(n)]
           hits     == HitChapters(pattern, bodies)
<1>0. hits \subseteq Chapters
  BY HitsAreScanned, Zenon
<1>1. n \in Nat /\ \A chapter \in hits : chapter \in Nat /\ chapter >= 1
  <2> HIDE DEF hits
  <2>1. \A chapter \in Chapters : chapter \in Nat /\ chapter # 0
    BY ChaptersAssumption, Zenon
  <2>2. QED
    BY <1>0, <2>1
<1>2. /\ DevicePasses(one, bodies) <=> \A chapter \in hits : ~Outside(one, chapter)
      /\ DevicePasses(upTo, bodies) <=> \A chapter \in hits : ~Outside(upTo, chapter)
      /\ DevicePasses(reserved, bodies) <=> \A chapter \in hits : ~Outside(reserved, chapter)
      /\ DevicePasses(retired, bodies) <=> \A chapter \in hits : ~Outside(retired, chapter)
  BY UncappedPasses DEF String
<1>3. DevicePasses(reserved, bodies) <=> DevicePasses(one, bodies)
  BY <1>1, <1>2, RationWindows
<1>4. DevicePasses(retired, bodies) <=> DevicePasses(upTo, bodies)
  <2>1. \A chapter \in hits : /\ Outside(retired, chapter) <=> chapter > n
                              /\ Outside(upTo, chapter) <=> chapter \notin 1..n
    BY <1>1, RationWindows, Zenon
  <2> HIDE DEF hits, retired, upTo
  <2>2. \A chapter \in hits : Outside(retired, chapter) <=> Outside(upTo, chapter)
    BY <1>1, <2>1
  <2>3. QED
    BY <1>2, <2>2, Zenon
<1>5. DevicePasses(capped, bodies)
          <=> RulePasses([basis |-> String("manuscript"), threshold |-> Integer(n)],
                         Count(pattern, bodies), WordsIn(bodies))
  BY <1>1, RationWindows DEF DevicePasses, RulePasses, String, Integer
<1>6. QED
  BY <1>3, <1>4, <1>5, Zenon

(* Hence in every state the commands can bring the tree to. *)
THEOREM RationsAlwaysAgree == CheckersSpec => []RationsAgree
<1>1. TypeInv => RationsAgree
  <2> SUFFICES ASSUME TypeInv, toml # NoFile PROVE RationsAgree
    BY DEF RationsAgree
  <2>1. toml.manifest \subseteq Chapters
    BY DEF TypeInv, TypeOK, Document
  <2> DEFINE bodies == [c \in toml.manifest |-> Body(tree, c)]
  <2>2. DOMAIN bodies \subseteq Chapters
    BY <2>1
  <2> HIDE DEF bodies
  <2>3. QED
    BY <2>2, RationsAgreeOver, Zenon DEF RationsAgree, bodies
<1>2. Inv => TypeInv
  BY DEF Inv
<1>3. QED
  BY <1>1, <1>2, CheckersImplementDone, DoneInvAlways, PTL

-----------------------------------------------------------------------------
(* Floats. *)

(* A knitting gate is triggered exactly when the integers reach its threshold, however
   much is drafted and for every target in the precision: ratio >= threshold, which
   divides twice, never errs. *)
THEOREM TriggersAreCrossings ==
    ASSUME NEW gate \in KnittingGates, NEW current \in Nat, NEW target \in Int,
           16 * target <= PowerOfTwo[Precision]
    PROVE  Triggered(gate, current, target)
               <=> target > 0 /\ 10 * current >= GateThreshold[gate] * target
<1>1. CASE target > 0
  <2> DEFINE k == GateThreshold[gate]
  <2>1. k \in Nat /\ k <= 8
    BY DEF GateThreshold, KnittingGates
  <2>2. target \in Nat \ {0} /\ 10 \in Nat \ {0}
    BY <1>1
  <2> HIDE DEF k
  <2>3. 2 * (k * target) <= Full
    <3>1. k * target <= 8 * target
      BY <2>1, <2>2, ProductGrows
    <3>2. QED
      BY <2>1, <2>2, <3>1, FullHalf DEF Full
  <2>4. AtMost(Quotient(k, 10), Quotient(current, target)) <=> k * target <= current * 10
    BY <2>1, <2>2, <2>3, QuotientsCompareExactly
  <2>5. current * 10 = 10 * current /\ k * target \in Nat
    BY <2>1, <2>2
  <2>6. QED
    BY <1>1, <2>4, <2>5 DEF Triggered, FloatThreshold, k
<1>2. CASE ~(target > 0)
  BY <1>2 DEF Triggered
<1>3. QED
  BY <1>1, <1>2

THEOREM TriggersAlwaysExact == CheckersSpec => []TriggersAreExact
<1>1. probe \in Probes => TriggersAreExact
  <2> SUFFICES ASSUME probe \in Probes, Probing({"target"}),
                      NEW current \in 0..70, NEW gate \in KnittingGates
               PROVE  Triggered(gate, current, probe.target) <=>
                          /\ probe.target > 0
                          /\ 10 * current >= GateThreshold[gate] * probe.target
    BY Zenon DEF TriggersAreExact
  <2>1. probe \in [target : -1..60]
    BY DEF Probes, Probing, NoProbe
  <2>2. probe.target \in Int /\ 16 * probe.target <= PowerOfTwo[Precision]
    BY <2>1, FullHalf DEF Full
  <2>3. QED
    BY <2>2, TriggersAreCrossings
<1>2. QED
  BY <1>1, CheckersImplementDone, PTL

(* The next gate is one that is not triggered. *)
LEMMA NextGateIsAhead ==
    ASSUME NEW current, NEW target, NextGate(current, target) # "none"
    PROVE  /\ NextGate(current, target) \in KnittingGates
           /\ ~Triggered(NextGate(current, target), current, target)
           /\ ~(target <= 0)
<1> DEFINE ahead == {i \in 1..3 : ~Triggered(GateOrder[i], current, target)}
           first == CHOOSE i \in ahead : \A j \in ahead : i <= j
<1>1. /\ ~(target <= 0) /\ ahead # {}
      /\ NextGate(current, target) = GateOrder[first]
  BY Zenon DEF NextGate
<1>2. \E i \in ahead : \A j \in ahead : i <= j
  <2>1. ahead \in SUBSET Nat
    OBVIOUS
  <2> HIDE DEF ahead
  <2>2. QED
    BY <1>1, <2>1, LeastNatural
<1>3. first \in ahead
  <2> HIDE DEF ahead
  <2>1. QED
    BY <1>2, Zenon
<1> HIDE DEF first
<1>4. first \in 1..3 /\ ~Triggered(GateOrder[first], current, target)
  BY <1>3
<1>5. GateOrder[first] \in KnittingGates
  BY <1>4 DEF GateOrder, KnittingGates
<1>6. QED
  BY <1>1, <1>4, <1>5

(* The distance reported is the number of words that triggers the next gate, for every
   target in the precision: ceil(threshold * target - current) never errs, though the
   threshold, the product and the difference are each rounded. *)
THEOREM DistanceIsExact ==
    ASSUME NEW current \in Nat, NEW target \in Int, 128 * target <= PowerOfTwo[Precision]
    PROVE  LET gates == GateGeometry(current, target)
               After(n) == Triggered(gates.next, current + n, target)
           IN  gates.next # "none" => After(gates.distance) /\ ~After(gates.distance - 1)
<1> DEFINE next == NextGate(current, target)
           distance == Distance(next, current, target)
<1>1. /\ GateGeometry(current, target).next = next
      /\ next # "none" => GateGeometry(current, target).distance = distance
  BY DEF GateGeometry
<1> SUFFICES ASSUME next # "none"
             PROVE  /\ Triggered(next, current + distance, target)
                    /\ ~Triggered(next, current + (distance - 1), target)
  BY <1>1, Zenon
<1>2. next \in KnittingGates /\ ~Triggered(next, current, target) /\ target \in Nat \ {0}
  BY NextGateIsAhead
<1> DEFINE k == GateThreshold[next]
<1>3. k \in {3, 5, 8}
  BY <1>2 DEF GateThreshold, KnittingGates
<1>4. \A n \in Nat : Triggered(next, n, target) <=> 10 * n >= k * target
  <2>1. 16 * target <= PowerOfTwo[Precision] /\ target > 0
    BY <1>2, FullHalf DEF Full
  <2> HIDE DEF next
  <2>2. QED
    BY <1>2, <2>1, TriggersAreCrossings
<1>5. distance = CeilingAbove(Times(target, Quotient(k, 10)), current)
  BY Zenon DEF Distance, FloatThreshold
<1> HIDE DEF next, distance, k
<1>6. 10 * current < k * target
  BY <1>2, <1>3, <1>4
<1>7. PICK C \in Nat : /\ current < C /\ k * target <= 10 * C /\ 10 * C - 9 <= k * target
                       /\ CeilingAbove(Times(target, Quotient(k, 10)), current) = C - current
  BY <1>2, <1>3, <1>6, ProductCeilingIsExact DEF Full
<1>8. current + distance = C /\ current + (distance - 1) = C - 1 /\ C - 1 \in Nat
  <2>1. distance = C - current
    BY <1>5, <1>7, Zenon
  <2>2. QED
    BY <1>7, <2>1
<1>9. k * target \in Int
  BY <1>2, <1>3
<1>10. Triggered(next, C, target) /\ ~Triggered(next, C - 1, target)
  BY <1>4, <1>7, <1>8, <1>9
<1>11. QED
  BY <1>8, <1>10

THEOREM DistanceAlwaysReaches == CheckersSpec => []DistanceReachesNextGate
<1>1. probe \in Probes => DistanceReachesNextGate
  <2> SUFFICES ASSUME probe \in Probes, Probing({"target"}), NEW current \in 0..60
               PROVE  LET gates == GateGeometry(current, probe.target)
                          After(n) == Triggered(gates.next, current + n, probe.target)
                      IN  gates.next # "none"
                              => After(gates.distance) /\ ~After(gates.distance - 1)
    BY Zenon DEF DistanceReachesNextGate
  <2>1. probe \in [target : -1..60]
    BY DEF Probes, Probing, NoProbe
  <2>2. /\ probe.target \in Int /\ 128 * probe.target <= PowerOfTwo[Precision]
        /\ current \in Nat
    BY <2>1, FullHalf DEF Full
  <2>3. QED
    BY <2>2, DistanceIsExact, Zenon
<1>2. QED
  BY <1>1, CheckersImplementDone, PTL

(* A density strictly over its threshold is never let through, and one strictly under
   it never reported, though density = count / (words / page_words) rounds twice. *)
THEOREM DensityKeepsSide ==
    ASSUME NEW count \in Nat, NEW words \in Nat, NEW pageWords \in Nat \ {0},
           NEW threshold \in Nat, 4 * (threshold * words) + 4 <= PowerOfTwo[Precision]
    PROVE  LET passes == DensityPasses(count, words, pageWords, threshold)
           IN  /\ count * pageWords > threshold * words => ~passes
               /\ count * pageWords < threshold * words => passes
<1> DEFINE passes == DensityPasses(count, words, pageWords, threshold)
<1>1. CASE words = 0
  <2>1. threshold * words = 0
    BY <1>1
  <2>2. count <= 0 => count * pageWords = 0
    OBVIOUS
  <2>3. count * pageWords >= 0
    BY ProductGrows
  <2>4. QED
    BY <1>1, <2>1, <2>2, <2>3 DEF DensityPasses
<1>2. CASE words # 0
  <2> DEFINE density == Over(count, Quotient(words, pageWords))
             limit   == Float(threshold)
  <2>1. words \in Nat \ {0} /\ 4 * (threshold * words) + 4 <= Full
    BY <1>2 DEF Full
  <2>2. /\ threshold * words < count * pageWords => Less(limit, density)
        /\ count * pageWords < threshold * words => Less(density, limit)
    BY <2>1, OverQuotientKeepsSide
  <2>3. limit = Zero \/ Normal(limit)
    BY QuotientType DEF Float
  <2>4. density = Zero \/ Normal(density)
    <3>1. Normal(Quotient(words, pageWords))
      BY <2>1, QuotientType
    <3>2. CASE count = 0
      BY <3>2 DEF Over, Quotient, Shift
    <3>3. CASE count # 0
      BY <3>1, <3>3, OverNear
    <3>4. QED
      BY <3>2, <3>3
  <2>5. passes = AtMost(density, limit)
    BY <1>2 DEF DensityPasses, Density
  <2> HIDE DEF density, limit, passes
  <2>6. Less(limit, density) => ~passes
    BY <2>3, <2>4, <2>5, LessIsStrict
  <2>7. Less(density, limit) => passes
    BY <2>5 DEF AtMost
  <2>8. count * pageWords \in Int /\ threshold * words \in Int
    OBVIOUS
  <2>9. QED
    BY <2>2, <2>6, <2>7, <2>8 DEF passes
<1>3. QED
  BY <1>1, <1>2

THEOREM DensityAlmostExact == CheckersSpec => []DensityErrsOnlyAtThreshold
<1>1. probe \in Probes => DensityErrsOnlyAtThreshold
  <2> SUFFICES ASSUME probe \in Probes, Probing({"words", "pageWords"}),
                      NEW count \in 0..12, NEW threshold \in 0..15
               PROVE  LET passes == DensityPasses(count, probe.words, probe.pageWords,
                                                  threshold)
                      IN  /\ count * probe.pageWords > threshold * probe.words => ~passes
                          /\ count * probe.pageWords < threshold * probe.words => passes
    BY Zenon DEF DensityErrsOnlyAtThreshold
  <2>1. probe \in [words : 1..12, pageWords : 1..15]
    BY DEF Probes, Probing, NoProbe
  <2> DEFINE words == probe.words
             pageWords == probe.pageWords
  <2>2. words \in 1..12 /\ pageWords \in 1..15
    BY <2>1
  <2> HIDE DEF words, pageWords
  <2>3. threshold * words <= 15 * 12
    <3>1. threshold * words <= 15 * words
      BY <2>2, ProductGrows
    <3>2. QED
      BY <2>2, <3>1
  <2>4. threshold * words \in Nat
    BY <2>2
  <2>5. 4 * (threshold * words) + 4 <= PowerOfTwo[Precision]
    BY <2>3, <2>4, FullHalf DEF Full
  <2>6. /\ count \in Nat /\ threshold \in Nat
        /\ words \in Nat /\ pageWords \in Nat \ {0}
    BY <2>2
  <2>7. QED
    BY <2>5, <2>6, DensityKeepsSide, Zenon DEF words, pageWords
<1>2. QED
  BY <1>1, CheckersImplementDone, PTL

-----------------------------------------------------------------------------
(* Scans of one chapter against the scan of all. *)

(* What the chapters hold together. *)
Joined(H, S) == UNION {H[c] : c \in S}

(* The union over a set of chapters, with one chapter taken apart. *)
LEMMA OneChapterMore ==
    ASSUME NEW T, NEW c \in T, NEW H,
           IsFiniteSet(UNION {H[d] : d \in T \ {c}}), IsFiniteSet(H[c]),
           \A d \in T \ {c} : H[c] \cap H[d] = {}
    PROVE  /\ IsFiniteSet(UNION {H[d] : d \in T})
           /\ Cardinality(UNION {H[d] : d \in T})
                  = Cardinality(UNION {H[d] : d \in T \ {c}}) + Cardinality(H[c])
<1> DEFINE rest == UNION {H[d] : d \in T \ {c}}
<1>1. UNION {H[d] : d \in T} = rest \cup H[c]
  OBVIOUS
<1>2. rest \cap H[c] = {}
  OBVIOUS
<1> HIDE DEF rest
<1>3. IsFiniteSet(rest)
  BY DEF rest
<1>4. /\ IsFiniteSet(rest \cup H[c])
      /\ Cardinality(rest \cup H[c]) =
             Cardinality(rest) + Cardinality(H[c]) - Cardinality(rest \cap H[c])
  BY <1>3, FS_Union
<1>5. /\ Cardinality(rest \cap H[c]) = 0
      /\ Cardinality(rest) \in Nat /\ Cardinality(H[c]) \in Nat
  BY <1>2, <1>3, FS_EmptySet, FS_CardinalityType
<1>6. Cardinality(rest \cup H[c]) = Cardinality(rest) + Cardinality(H[c])
  BY <1>4, <1>5
<1>7. QED
  BY <1>1, <1>4, <1>6 DEF rest

(* What two numbers that add up over the chapters satisfy in each, and in sums, they
   satisfy over all. *)
LEMMA ChaptersAddUp ==
    ASSUME NEW S, IsFiniteSet(S), NEW H, NEW W,
           \A c \in S : IsFiniteSet(H[c]) /\ IsFiniteSet(W[c]),
           \A c, d \in S : c # d => H[c] \cap H[d] = {} /\ W[c] \cap W[d] = {},
           NEW Good, <<0, 0>> \in Good,
           \A a, b, x, y \in Nat :
               <<a, b>> \in Good /\ <<x, y>> \in Good => <<a + x, b + y>> \in Good,
           \A c \in S : <<Cardinality(H[c]), Cardinality(W[c])>> \in Good
    PROVE  <<Cardinality(Joined(H, S)), Cardinality(Joined(W, S))>> \in Good
<1> DEFINE Hit(T) == UNION {H[c] : c \in T}
           Word(T) == UNION {W[c] : c \in T}
           AddsUp(T) == /\ IsFiniteSet(Hit(T)) /\ IsFiniteSet(Word(T))
                        /\ <<Cardinality(Hit(T)), Cardinality(Word(T))>> \in Good
           N == Cardinality(S)
           K == {n \in 0..N : \A T \in SUBSET S : Cardinality(T) = n => AddsUp(T)}
<1>1. N \in Nat
  BY FS_CardinalityType
<1> HIDE DEF AddsUp, N
<1>2. 0 \in K
  <2> SUFFICES ASSUME NEW T \in SUBSET S, Cardinality(T) = 0 PROVE AddsUp(T)
    BY <1>1
  <2>1. T = {}
    BY FS_Subset, FS_EmptySet
  <2>2. Hit(T) = {} /\ Word(T) = {}
    BY <2>1
  <2>3. QED
    BY <2>2, FS_EmptySet DEF AddsUp
<1>3. ASSUME NEW n \in 1..N, n - 1 \in K PROVE n \in K
  <2> SUFFICES ASSUME NEW T \in SUBSET S, Cardinality(T) = n PROVE AddsUp(T)
    BY <1>1
  <2>1. IsFiniteSet(T)
    BY FS_Subset
  <2>2. PICK c : c \in T
    BY <2>1, FS_EmptySet
  <2> DEFINE R == T \ {c}
  <2>3. R \in SUBSET S /\ Cardinality(R) = n - 1
    BY <2>1, <2>2, FS_RemoveElement
  <2>4. AddsUp(R)
    BY <1>3, <2>3
  <2>5. /\ IsFiniteSet(Hit(T))
        /\ Cardinality(Hit(T)) = Cardinality(Hit(R)) + Cardinality(H[c])
    BY <2>2, <2>4, OneChapterMore DEF AddsUp
  <2>6. /\ IsFiniteSet(Word(T))
        /\ Cardinality(Word(T)) = Cardinality(Word(R)) + Cardinality(W[c])
    BY <2>2, <2>4, OneChapterMore DEF AddsUp
  <2>7. /\ Cardinality(Hit(R)) \in Nat /\ Cardinality(H[c]) \in Nat
        /\ Cardinality(Word(R)) \in Nat /\ Cardinality(W[c]) \in Nat
    BY <2>2, <2>4, FS_CardinalityType DEF AddsUp
  <2>8. /\ <<Cardinality(Hit(R)), Cardinality(Word(R))>> \in Good
        /\ <<Cardinality(H[c]), Cardinality(W[c])>> \in Good
    BY <2>2, <2>4 DEF AddsUp
  <2> HIDE DEF Hit, Word, R
  <2>9. <<Cardinality(Hit(R)) + Cardinality(H[c]),
          Cardinality(Word(R)) + Cardinality(W[c])>> \in Good
    BY <2>7, <2>8, Zenon
  <2>10. QED
    BY <2>5, <2>6, <2>9 DEF AddsUp
<1> HIDE DEF K
<1>4. N \in K
  BY <1>1, <1>2, <1>3, InductionTo
<1>5. AddsUp(S)
  BY <1>4 DEF K, N
<1>6. QED
  BY <1>5 DEF AddsUp, Joined

(* The scan of one chapter of those in bodies. *)
Only(bodies, c) == [d \in {c} |-> bodies[d]]

(* The hits of a chapter, and its words: as the sets the counts are taken of. *)
ChapterWords(bodies, c) == {c} \X (1..WordsOf[bodies[c]])

LEMMA ChapterIsFinite ==
    ASSUME NEW pattern \in Patterns, NEW c, NEW body \in Texts
    PROVE  IsFiniteSet(HitsIn(pattern, c, body)) /\ IsFiniteSet({c} \X (1..WordsOf[body]))
<1>1. IsFiniteSet({c} \X (1..WordsOf[body]))
  <2>1. WordsOf[body] \in Int
    <3>1. WordsOf[body] \in WordCounts
      BY TextsAssumption
    <3>2. QED
      BY <3>1, WordsAreIntegers
  <2>2. IsFiniteSet(1..WordsOf[body])
    BY <2>1, FS_Interval
  <2>3. IsFiniteSet({c})
    BY FS_Singleton
  <2>4. QED
    BY <2>2, <2>3, FS_Product
<1>2. IsFiniteSet(HitsIn(pattern, c, body))
  <2> DEFINE lines == LinesOf[body]
             On(i) == {<<c, i, k>> : k \in 1..lines[i][pattern]}
             on == [i \in DOMAIN lines |-> On(i)]
  <2>1. lines \in Seq([Patterns -> Nat])
    BY LinesAssumption
  <2>2. IsFiniteSet(DOMAIN lines)
    <3>1. DOMAIN lines = 1..Len(lines) /\ Len(lines) \in Nat
      BY <2>1
    <3>2. QED
      BY <3>1, FS_Interval
  <2>3. ASSUME NEW i \in DOMAIN lines PROVE IsFiniteSet(On(i))
    <3>1. lines[i][pattern] \in Nat
      BY <2>1
    <3> DEFINE n == lines[i][pattern]
               place == [k \in 1..n |-> <<c, i, k>>]
    <3>2. IsFiniteSet(1..n)
      BY <3>1, FS_Interval
    <3> HIDE DEF n
    <3>3. place \in Surjection(1..n, {<<c, i, k>> : k \in 1..n})
      BY DEF Surjection
    <3>4. QED
      BY <3>2, <3>3, FS_Surjection DEF n
  <2> HIDE DEF On
  <2>4. IsFiniteSet({On(i) : i \in DOMAIN lines})
    <3>1. on \in Surjection(DOMAIN lines, {On(i) : i \in DOMAIN lines})
      BY DEF Surjection
    <3>2. QED
      BY <2>2, <3>1, FS_Surjection
  <2>5. IsFiniteSet(UNION {On(i) : i \in DOMAIN lines})
    BY <2>3, <2>4, FS_UNION
  <2>6. QED
    BY <2>5 DEF HitsIn, On
<1>3. QED
  BY <1>1, <1>2

(* The counts of a scan of some chapters, and of a scan of one of them. *)
HitParts(pattern, bodies, M) == [c \in M |-> HitsIn(pattern, c, bodies[c])]
WordParts(bodies, M) == [c \in M |-> ChapterWords(bodies, c)]

LEMMA ScanCounts ==
    ASSUME NEW pattern, NEW M, NEW bodies \in [M -> Texts]
    PROVE  /\ Count(pattern, bodies) = Cardinality(Joined(HitParts(pattern, bodies, M), M))
           /\ WordsIn(bodies) = Cardinality(Joined(WordParts(bodies, M), M))
           /\ \A c \in M :
                  /\ Count(pattern, Only(bodies, c)) = Cardinality(HitParts(pattern, bodies, M)[c])
                  /\ WordsIn(Only(bodies, c)) = Cardinality(WordParts(bodies, M)[c])
<1> DEFINE H == HitParts(pattern, bodies, M)
           W == WordParts(bodies, M)
<1>1. Count(pattern, bodies) = Cardinality(Joined(H, M))
  BY DEF Count, Hits, HitParts, Joined
<1>2. WordsIn(bodies) = Cardinality(Joined(W, M))
  <2> DEFINE table == [c \in DOMAIN bodies |-> WordsOf[bodies[c]]]
  <2>1. Joined(W, M) = UNION {{c} \X (1..table[c]) : c \in DOMAIN table}
    BY DEF Joined, WordParts, ChapterWords
  <2>2. QED
    BY <2>1 DEF WordsIn, Total
<1>3. ASSUME NEW c \in M
      PROVE  /\ Count(pattern, Only(bodies, c)) = Cardinality(H[c])
             /\ WordsIn(Only(bodies, c)) = Cardinality(W[c])
  <2> DEFINE one == Only(bodies, c)
             table == [d \in DOMAIN one |-> WordsOf[one[d]]]
  <2>1. DOMAIN one = {c} /\ one[c] = bodies[c] /\ DOMAIN table = {c}
    BY DEF Only
  <2>2. Hits(pattern, one) = HitsIn(pattern, c, bodies[c])
    BY <2>1 DEF Hits
  <2>3. UNION {{d} \X (1..table[d]) : d \in DOMAIN table} = {c} \X (1..WordsOf[bodies[c]])
    BY <2>1
  <2> HIDE DEF one
  <2>4. WordsIn(one) = Cardinality(UNION {{d} \X (1..table[d]) : d \in DOMAIN table})
    BY DEF WordsIn, Total
  <2>5. QED
    BY <2>2, <2>3, <2>4 DEF Count, HitParts, WordParts, ChapterWords, one
<1>4. QED
  BY <1>1, <1>2, <1>3

(* What the scans of single chapters satisfy, and sums of such counts too, the scan of
   them all satisfies. *)
LEMMA ScansAddUp ==
    ASSUME NEW pattern \in Patterns, NEW M \in SUBSET Chapters, NEW bodies \in [M -> Texts],
           NEW Good, <<0, 0>> \in Good,
           \A a, b, x, y \in Nat :
               <<a, b>> \in Good /\ <<x, y>> \in Good => <<a + x, b + y>> \in Good,
           \A c \in M :
               <<Count(pattern, Only(bodies, c)), WordsIn(Only(bodies, c))>> \in Good
    PROVE  <<Count(pattern, bodies), WordsIn(bodies)>> \in Good
<1> DEFINE H == HitParts(pattern, bodies, M)
           W == WordParts(bodies, M)
<1>1. IsFiniteSet(M)
  BY ChaptersAssumption, FS_Subset
<1>2. \A c \in M : IsFiniteSet(H[c]) /\ IsFiniteSet(W[c])
  BY ChapterIsFinite DEF HitParts, WordParts, ChapterWords
<1>3. \A c \in M : (\A x \in H[c] : x[1] = c) /\ (\A x \in W[c] : x[1] = c)
  BY DEF HitParts, WordParts, HitsIn, ChapterWords
<1>4. \A c, d \in M : c # d => H[c] \cap H[d] = {} /\ W[c] \cap W[d] = {}
  BY <1>3
<1>5. \A c \in M : <<Cardinality(H[c]), Cardinality(W[c])>> \in Good
  BY ScanCounts
<1> HIDE DEF H, W
<1>6. <<Cardinality(Joined(H, M)), Cardinality(Joined(W, M))>> \in Good
  BY <1>1, <1>2, <1>4, <1>5, ChaptersAddUp
<1>7. QED
  BY <1>6, ScanCounts DEF H, W

(* The counts are numbers, and one chapter has no more hits than all. *)
LEMMA ScanTypes ==
    ASSUME NEW pattern \in Patterns, NEW M \in SUBSET Chapters, NEW bodies \in [M -> Texts]
    PROVE  /\ Count(pattern, bodies) \in Nat /\ WordsIn(bodies) \in Nat
           /\ \E table \in WordTables : WordsIn(bodies) = Total(table)
           /\ \A c \in M : Count(pattern, Only(bodies, c)) <= Count(pattern, bodies)
<1> DEFINE H == HitParts(pattern, bodies, M)
           table == [c \in DOMAIN bodies |-> WordsOf[bodies[c]]]
<1>1. table \in [M -> WordCounts]
  BY TextsAssumption
<1>2. WordsIn(bodies) = Total(table)
  BY DEF WordsIn
<1>3. table \in WordTables
  BY <1>1 DEF WordTables
<1>4. WordsIn(bodies) \in Nat
  BY <1>1, <1>2, TotalIsNatural
<1>5. /\ Count(pattern, bodies) = Cardinality(Joined(H, M))
      /\ \A c \in M : Count(pattern, Only(bodies, c)) = Cardinality(H[c])
  BY ScanCounts
<1>6. \A c \in M : IsFiniteSet(H[c])
  BY ChapterIsFinite DEF HitParts
<1> HIDE DEF H, table
<1>7. IsFiniteSet(Joined(H, M))
  <2> DEFINE parts == {H[c] : c \in M}
             part  == [c \in M |-> H[c]]
  <2>1. IsFiniteSet(M)
    BY ChaptersAssumption, FS_Subset
  <2>2. part \in Surjection(M, parts)
    BY DEF Surjection
  <2>3. IsFiniteSet(parts)
    BY <2>1, <2>2, FS_Surjection
  <2>4. IsFiniteSet(UNION parts)
    BY <1>6, <2>3, FS_UNION
  <2>5. QED
    BY <2>4 DEF Joined
<1>8. \A c \in M : H[c] \in SUBSET Joined(H, M)
  BY DEF Joined
<1>9. QED
  BY <1>2, <1>3, <1>4, <1>5, <1>7, <1>8, FS_CardinalityType, FS_Subset

(* The scan of one chapter is a scan of a set of chapters as well. *)
LEMMA OnlyType ==
    ASSUME NEW M \in SUBSET Chapters, NEW bodies \in [M -> Texts], NEW c \in M
    PROVE  {c} \in SUBSET Chapters /\ Only(bodies, c) \in [{c} -> Texts]
BY DEF Only

(* What the parser has made sure of in a rule of a pack that loads. *)
LEMMA LoadedRules ==
    ASSUME NEW file \in LoadedPacks, NEW i \in DOMAIN Entries(file.raw, "rule")
    PROVE  LET rule == Entries(file.raw, "rule")[i]
           IN  /\ rule["pattern"].string \in Patterns /\ rule["threshold"].integer \in Nat
               /\ \/ rule["basis"].string = "manuscript"
                  \/ /\ rule["basis"].string = "per_page"
                     /\ rule["page_words"].integer \in Nat \ {0}
<1> DEFINE accepted == file.kind = "toml" /\ PackAccepted(file.raw)
<1>1. file \in Packs /\ LoadVerdict(file, accepted) = "loaded" /\ accepted \in BOOLEAN
  BY Zenon DEF LoadedPacks, PackVerdict
<1>2. PackAccepted(file.raw)
  <2> HIDE DEF accepted
  <2>1. accepted
    BY <1>1, LoadedAccepted
  <2>2. QED
    BY <2>1 DEF accepted
<1>3. RuleAccepted(Entries(file.raw, "rule")[i])
  BY <1>2, Zenon DEF PackAccepted
<1>4. QED
  BY <1>3, Zenon DEF RuleAccepted, RequiresPattern, Requires, PositiveInteger

(* The figures of a loaded rule over any scan are inside the precision. *)
LEMMA ScanInPrecision ==
    ASSUME NEW file \in LoadedPacks, NEW i \in DOMAIN Entries(file.raw, "rule"),
           NEW M \in SUBSET Chapters, NEW bodies \in [M -> Texts]
    PROVE  4 * (Entries(file.raw, "rule")[i]["threshold"].integer * WordsIn(bodies)) + 4
               <= PowerOfTwo[Precision]
<1>1. Entries(file.raw, "rule")[i]["pattern"].string \in Patterns
  BY LoadedRules
<1>2. PICK table \in WordTables : WordsIn(bodies) = Total(table)
  BY <1>1, ScanTypes
<1>3. QED
  BY <1>2, DensityAssumption DEF LoadedPacks

(* A rule counted over the manuscript. *)
LEMMA ManuscriptScopes ==
    ASSUME NEW rule, rule["basis"].string = "manuscript", rule["threshold"].integer \in Nat,
           NEW pattern \in Patterns, NEW M \in SUBSET Chapters, NEW bodies \in [M -> Texts],
           NEW c \in M,
           ~RulePasses(rule, Count(pattern, Only(bodies, c)), WordsIn(Only(bodies, c)))
    PROVE  ~RulePasses(rule, Count(pattern, bodies), WordsIn(bodies))
<1>1. /\ Count(pattern, Only(bodies, c)) <= Count(pattern, bodies)
      /\ Count(pattern, bodies) \in Nat /\ Count(pattern, Only(bodies, c)) \in Nat
  BY OnlyType, ScanTypes
<1>2. QED
  BY <1>1 DEF RulePasses

(* A rule counted per page: words to which the density may be applied. *)
LEMMA DensityScopes ==
    ASSUME NEW p \in Nat \ {0}, NEW k \in Nat,
           NEW pattern \in Patterns, NEW M \in SUBSET Chapters, NEW bodies \in [M -> Texts],
           4 * (k * WordsIn(bodies)) + 4 <= PowerOfTwo[Precision],
           \A c \in M : 4 * (k * WordsIn(Only(bodies, c))) + 4 <= PowerOfTwo[Precision]
    PROVE  LET Hit(scan)    == Count(pattern, scan)
               Breaks(scan) == ~DensityPasses(Hit(scan), WordsIn(scan), p, k)
           IN  /\ Hit(bodies) * p > k * WordsIn(bodies) =>
                      \E c \in M : Breaks(Only(bodies, c))
               /\ Breaks(bodies) =>
                      \E c \in M :
                          /\ Hit(Only(bodies, c)) > 0
                          /\ Hit(Only(bodies, c)) * p >= k * WordsIn(Only(bodies, c))
<1> DEFINE Hit(scan)    == Count(pattern, scan)
           Breaks(scan) == ~DensityPasses(Hit(scan), WordsIn(scan), p, k)
           Within == {x \in Nat \X Nat : x[1] * p <= k * x[2]}
           Below  == {x \in Nat \X Nat : x[1] = 0 \/ x[1] * p < k * x[2]}
<1>1. /\ Hit(bodies) \in Nat /\ WordsIn(bodies) \in Nat
      /\ \A c \in M : Hit(Only(bodies, c)) \in Nat /\ WordsIn(Only(bodies, c)) \in Nat
  BY OnlyType, ScanTypes
<1>2. ASSUME \A c \in M : ~Breaks(Only(bodies, c))
      PROVE  Hit(bodies) * p <= k * WordsIn(bodies)
  <2>1. ASSUME NEW c \in M PROVE <<Hit(Only(bodies, c)), WordsIn(Only(bodies, c))>> \in Within
    <3>1. ~(Hit(Only(bodies, c)) * p > k * WordsIn(Only(bodies, c)))
      BY <1>1, <1>2, DensityKeepsSide
    <3>2. QED
      BY <1>1, <3>1
  <2>2. <<0, 0>> \in Within
    OBVIOUS
  <2> \A a, b \in Nat : <<a, b>> \in Within <=> a * p <= k * b
    OBVIOUS
  <2> HIDE DEF Within
  <2>3. \A a, b, x, y \in Nat :
            <<a, b>> \in Within /\ <<x, y>> \in Within => <<a + x, b + y>> \in Within
    <3> SUFFICES ASSUME NEW a \in Nat, NEW b \in Nat, NEW x \in Nat, NEW y \in Nat,
                        a * p <= k * b, x * p <= k * y
                 PROVE  (a + x) * p <= k * (b + y)
      OBVIOUS
    <3>1. (a + x) * p = a * p + x * p /\ k * (b + y) = k * b + k * y
      OBVIOUS
    <3>2. QED
      BY <3>1
  <2>4. <<Hit(bodies), WordsIn(bodies)>> \in Within
    BY <2>1, <2>2, <2>3, ScansAddUp
  <2>5. QED
    BY <2>4 DEF Within
<1>3. ASSUME \A c \in M : ~(/\ Hit(Only(bodies, c)) > 0
                            /\ Hit(Only(bodies, c)) * p >= k * WordsIn(Only(bodies, c)))
      PROVE  ~Breaks(bodies)
  <2>1. ASSUME NEW c \in M PROVE <<Hit(Only(bodies, c)), WordsIn(Only(bodies, c))>> \in Below
    BY <1>1, <1>3
  <2>2. <<0, 0>> \in Below
    OBVIOUS
  <2> \A a, b \in Nat : <<a, b>> \in Below <=> a = 0 \/ a * p < k * b
    OBVIOUS
  <2> HIDE DEF Below
  <2>3. \A a, b, x, y \in Nat :
            <<a, b>> \in Below /\ <<x, y>> \in Below => <<a + x, b + y>> \in Below
    <3> SUFFICES ASSUME NEW a \in Nat, NEW b \in Nat, NEW x \in Nat, NEW y \in Nat,
                        a = 0 \/ a * p < k * b, x = 0 \/ x * p < k * y
                 PROVE  a + x = 0 \/ (a + x) * p < k * (b + y)
      OBVIOUS
    <3>1. (a + x) * p = a * p + x * p /\ k * (b + y) = k * b + k * y
      OBVIOUS
    <3>2. k * b >= 0 /\ k * y >= 0 /\ 0 * p = 0
      BY ProductGrows
    <3>3. QED
      BY <3>1, <3>2
  <2>4. <<Hit(bodies), WordsIn(bodies)>> \in Below
    BY <2>1, <2>2, <2>3, ScansAddUp
  <2>5. CASE Hit(bodies) = 0
    <3>1. \A d : Quotient(0, d) = Zero
      BY DEF Quotient
    <3>2. \A x : Over(0, x) = Zero
      BY <3>1 DEF Over, Shift
    <3>3. QED
      BY <2>5, <3>2 DEF DensityPasses, Density, AtMost, Less
  <2>6. CASE Hit(bodies) * p < k * WordsIn(bodies)
    BY <1>1, <2>6, DensityKeepsSide
  <2>7. QED
    BY <2>4, <2>5, <2>6 DEF Below
<1> HIDE DEF Breaks
<1>4. Hit(bodies) * p > k * WordsIn(bodies) => \E c \in M : Breaks(Only(bodies, c))
  BY <1>1, <1>2
<1>5. Breaks(bodies) => \E c \in M :
                            /\ Hit(Only(bodies, c)) > 0
                            /\ Hit(Only(bodies, c)) * p >= k * WordsIn(Only(bodies, c))
  BY <1>3
<1>6. QED
  BY <1>4, <1>5, Zenon DEF Breaks

(* The scans of the chapters one by one and the scan of the manuscript fit together,
   for all drafts and all packs in the precision. *)
THEOREM ScopesAlwaysFit == CheckersSpec => []ScopesFitTogether
<1>1. TypeInv => ScopesFitTogether
  <2> DEFINE M == toml.manifest
             whole == [c \in M |-> Body(tree, c)]
             part(c) == [d \in {c} |-> Body(tree, d)]
  <2> SUFFICES ASSUME TypeInv, toml # NoFile,
                      NEW file \in LoadedPacks, NEW i \in DOMAIN Entries(file.raw, "rule")
               PROVE
       LET rules == Entries(file.raw, "rule")
           Breaks(bodies, j) == ~Detect(file.raw, bodies, WordsIn(bodies))[j].passed
           Hit(bodies, j)    == Count(rules[j]["pattern"].string, bodies)
           Spent(bodies, j)  == Hit(bodies, j) * rules[j]["page_words"].integer
           Allowed(bodies, j) == rules[j]["threshold"].integer * WordsIn(bodies)
       IN  IF rules[i]["basis"].string = "manuscript"
           THEN (\E c \in toml.manifest : Breaks(part(c), i)) => Breaks(whole, i)
           ELSE /\ Spent(whole, i) > Allowed(whole, i) =>
                       \E c \in toml.manifest : Breaks(part(c), i)
                /\ Breaks(whole, i) =>
                       \E c \in toml.manifest :
                           /\ Hit(part(c), i) > 0
                           /\ Spent(part(c), i) >= Allowed(part(c), i)
    BY Zenon DEF ScopesFitTogether
  <2>1. M \in SUBSET Chapters
    BY DEF TypeInv, TypeOK, Document
  <2>2. whole \in [M -> Texts]
    BY TextsAssumption DEF Body
  <2>3. \A c \in M : part(c) = Only(whole, c)
    BY DEF Only
  <2> DEFINE rule == Entries(file.raw, "rule")[i]
             pattern == rule["pattern"].string
             k == rule["threshold"].integer
             p == rule["page_words"].integer
             Breaks(bodies) == ~Detect(file.raw, bodies, WordsIn(bodies))[i].passed
  <2>4. /\ pattern \in Patterns /\ k \in Nat
        /\ \/ rule["basis"].string = "manuscript"
           \/ rule["basis"].string = "per_page" /\ p \in Nat \ {0}
    BY LoadedRules, Zenon
  <2>5. \A bodies : Breaks(bodies) <=> ~RulePasses(rule, Count(pattern, bodies), WordsIn(bodies))
    BY DEF Detect
  <2>6. /\ 4 * (k * WordsIn(whole)) + 4 <= PowerOfTwo[Precision]
        /\ \A c \in M : 4 * (k * WordsIn(Only(whole, c))) + 4 <= PowerOfTwo[Precision]
    BY <2>1, <2>2, OnlyType, ScanInPrecision
  <2> HIDE DEF M, whole, part, rule, Breaks
  <2>7. CASE rule["basis"].string = "manuscript"
    <3>1. ASSUME NEW c \in M, Breaks(part(c)) PROVE Breaks(whole)
      BY <2>1, <2>2, <2>3, <2>4, <2>5, <2>7, <3>1, ManuscriptScopes
    <3>2. QED
      BY <2>7, <3>1, Zenon DEF M, whole, part, rule, Breaks
  <2>8. CASE rule["basis"].string = "per_page" /\ p \in Nat \ {0}
    <3>1. \A bodies :
              Breaks(bodies) <=> ~DensityPasses(Count(pattern, bodies), WordsIn(bodies), p, k)
      BY <2>5, <2>8 DEF RulePasses
    <3>2. /\ Count(pattern, whole) * p > k * WordsIn(whole) => \E c \in M : Breaks(Only(whole, c))
          /\ Breaks(whole) =>
                 \E c \in M :
                     /\ Count(pattern, Only(whole, c)) > 0
                     /\ Count(pattern, Only(whole, c)) * p >= k * WordsIn(Only(whole, c))
      BY <2>1, <2>2, <2>4, <2>6, <2>8, <3>1, DensityScopes
    <3>3. /\ Count(pattern, whole) * p > k * WordsIn(whole) => \E c \in M : Breaks(part(c))
          /\ Breaks(whole) =>
                 \E c \in M : /\ Count(pattern, part(c)) > 0
                              /\ Count(pattern, part(c)) * p >= k * WordsIn(part(c))
      BY <2>3, <3>2, Zenon
    <3>4. rule["basis"].string # "manuscript"
      BY <2>8
    <3>5. QED
      BY <3>3, <3>4, Zenon DEF M, whole, part, rule, Breaks
  <2>9. QED
    BY <2>4, <2>7, <2>8
<1>2. Inv => TypeInv
  BY DEF Inv
<1>3. QED
  BY <1>1, <1>2, CheckersImplementDone, DoneInvAlways, PTL

-----------------------------------------------------------------------------
(* wordcount and recount. *)

(* The validator's verdict on a recount is its verdict on the gates. *)
LEMMA RecountTurnsOnGates ==
    ASSUME NEW doc \in Document, NEW disk \in Tree,
           ValidateState(doc), doc.consecutiveClean = 0
    PROVE  ValidateState(Recounted(doc, disk))
               <=> GateRatioConsistent(Recounted(doc, disk))
<1> DEFINE new   == Recounted(doc, disk)
           words == RecountWords(doc, disk)
           drafted == {c \in DOMAIN words : words[c] > 0}
<1>1. /\ new.byChapter = words /\ new.current = Total(words)
      /\ new.phase = doc.phase /\ new.completed = doc.completed
      /\ new.cursor = doc.cursor /\ new.manifest = doc.manifest
      /\ new.consecutiveClean = doc.consecutiveClean
      /\ new.convergenceTarget = doc.convergenceTarget
  BY DEF Recounted, Document
<1>2. 0 <= Cardinality(drafted)
  <2>1. DOMAIN words = doc.manifest /\ doc.manifest \subseteq Chapters
    BY DEF RecountWords, Document
  <2>2. IsFiniteSet(drafted)
    BY <2>1, ChaptersAssumption, FS_Subset
  <2>3. QED
    BY <2>2, FS_CardinalityType
<1>3. ConsecutiveCleanWithinDrafted(new)
  BY <1>1, <1>2 DEF ConsecutiveCleanWithinDrafted
<1> HIDE DEF new, words, drafted
<1>4. /\ new.phase \in Phase /\ CompletedPrefix(new) /\ ByChapterSum(new)
      /\ ConsecutiveCleanWithinTarget(new) /\ ConvergenceTargetAtLeastOne(new)
      /\ CursorCoherent(new)
  BY <1>1 DEF ValidateState, CompletedPrefix, ByChapterSum, ConsecutiveCleanWithinTarget,
     ConvergenceTargetAtLeastOne, CursorCoherent
<1>5. QED
  BY <1>3, <1>4, Zenon DEF ValidateState, new

(* The report foresees, in every state, whether recount will refuse. *)
THEOREM RecountIsForeseen == Spec => []WordcountForeseesRecount
<1>1. Inv /\ NoCleanPass => WordcountForeseesRecount
  <2> DEFINE words == RecountWords(toml, tree)
             triggered == {g \in KnittingGates : Triggered(g, Total(words), Target)}
             recorded  == {g \in KnittingGates : toml.gates[g]}
             new       == Recounted(toml, tree)
  <2> SUFFICES ASSUME Inv, NoCleanPass, WordcountAnswer.exit = Success
               PROVE  ValidateState(new) <=> (Target > 0 => triggered = recorded)
    BY Zenon DEF WordcountForeseesRecount, WordcountReport, GateGeometry
  <2>1. toml # NoFile
    <3>1. SUFFICES ASSUME toml = NoFile PROVE WordcountAnswer.exit = StateError
      BY DEF StateError, Success
    <3>2. WithState(WordcountBody(toml)) = StateFault
      BY <3>1, Zenon DEF WithState
    <3>3. QED
      BY <3>2, RunExit, Zenon DEF WordcountAnswer
  <2>2. toml \in Document /\ tree \in Tree /\ ValidateState(toml)
    BY <2>1 DEF Inv, TypeInv, TypeOK, DocumentsSound, Sound
  <2>3. ValidateState(new) <=> GateRatioConsistent(new)
    BY <2>1, <2>2, RecountTurnsOnGates DEF NoCleanPass
  <2>4. new.byChapter = words /\ new.gates = toml.gates
    BY <2>2 DEF Recounted, Document
  <2>5. words \in WordTables
    BY <2>2, <2>4, RecountedIsDocument DEF Document, WordTables
  <2>6. \A g \in KnittingGates :
            Triggered(g, Total(words), Target) <=> Target > 0 /\ Crossed(g, words)
    BY <2>5, TotalIsNatural, TriggersAreCrossings, TargetAssumption, WordsAssumption DEF Crossed, WordTables
  <2> HIDE DEF words, new
  <2>7. GateRatioConsistent(new)
            <=> (Target > 0 =>
                     \A g \in KnittingGates : toml.gates[g] <=> Crossed(g, words))
    BY <2>4, Zenon DEF GateRatioConsistent
  <2>8. (triggered = recorded)
            <=> \A g \in KnittingGates :
                    Triggered(g, Total(words), Target) <=> toml.gates[g]
    BY Zenon
  <2>9. QED
    BY <2>3, <2>6, <2>7, <2>8, Zenon
<1>2. QED
  BY <1>1, NoCleanPassAlways, PTL
=============================================================================
