------------------------------ MODULE MCCheckers ------------------------------
(* A finished two-chapter novel with a target of zero, the only one whose knitting
   gates can open, and the packs and ledgers it is scanned with. *)
EXTENDS MCHarness, Checkers, TLC

MCPatterns == {"tic", "dash"}

Line(tics, dashes) == [tic |-> tics, dash |-> dashes]

MCLinesOf == [t \in MCTexts |->
    CASE t = blank -> << >> [] t = short -> << Line(1, 0) >>
      [] t = redraft -> << Line(0, 0) >> [] OTHER -> << Line(1, 2), Line(0, 1) >>]

FinishedDrafts == {<<1, long>>, <<2, short>>, <<2, Corrupt>>}

AllOrOneGate == {[g \in Gates |-> TRUE], [done_30 |-> TRUE], [done_50 |-> FALSE]}

MCNotes ==
    {1} \X { << "blocker-heading", "finding", "resolved-finding" >>,
             << "blocker-heading", "text", "other-heading", "finding" >> }
    \cup {<<2, Corrupt>>}

MCBodies == UNION {[1..n -> NoteLines] : n \in 0..4}

MCReviews == {Percentages}

MCScopes == {{}, {2}, {7}}

-----------------------------------------------------------------------------
Tables(entries) == Array([i \in DOMAIN entries |-> Table(entries[i])])

Rule(id, pattern, threshold) ==
    [id |-> String(id), pattern |-> String(pattern), threshold |-> Integer(threshold),
     basis |-> String("manuscript")]

PerPage(id, pattern, threshold, words) ==
    [Rule(id, pattern, threshold) EXCEPT !.basis = String("per_page")]
        @@ [page_words |-> Integer(words)]

Without(key, table) == [k \in DOMAIN table \ {key} |-> table[k]]

PackTable(rules) ==
    [schema_version |-> Integer(1), pack |-> String("pack"), rule |-> Tables(rules)]

Plain == Rule("a", "tic", 1)

BadRules ==
    {Without("id", Plain), [Plain EXCEPT !.id = Integer(1)],
     Plain @@ [severity |-> Integer(1)], Without("pattern", Plain),
     [Plain EXCEPT !.pattern = String("(")], [Plain EXCEPT !.threshold = Bool(TRUE)],
     [Plain EXCEPT !.threshold = Integer(-1)], [Plain EXCEPT !.basis = String("chapter")],
     Plain @@ [page_words |-> Integer(2)],
     Without("page_words", PerPage("a", "tic", 1, 2)), PerPage("a", "tic", 1, 0)}

BadPacks ==
    {File(PackTable(<< rule >>)) : rule \in BadRules}
    \cup {File(raw) : raw \in
            {PackTable(<< >>), Without("pack", PackTable(<< Plain >>)),
             PackTable(<< Plain >>) @@ [extra |-> Bool(TRUE)],
             [PackTable(<< Plain >>) EXCEPT !.schema_version = Integer(2)],
             [PackTable(<< Plain >>) EXCEPT !.schema_version = Bool(TRUE)],
             [PackTable(<< Plain >>) EXCEPT !.rule = Table(Plain)],
             [PackTable(<< Plain >>) EXCEPT !.rule = Array(<< Integer(1) >>)]}}

DuplicatePack == File(PackTable(<< Rule("a", "tic", 0), Rule("a", "dash", 0) >>))

GoodPacks ==
    {File(PackTable(<< Rule("a", "tic", 1), Rule("b", "dash", 0), PerPage("c", "tic", 1, 2) >>)),
     File(PackTable(<< PerPage("a", "dash", 1, 3), Rule("b", "tic", 0) >>))}

MCPacks == {AbsentFile, NotToml, UndecodableFile, DuplicatePack} \cup BadPacks \cup GoodPacks

-----------------------------------------------------------------------------
Device(id, ration) == [id |-> String(id), pattern |-> String("tic")] @@ ration

LedgerTable(devices) == [schema_version |-> Integer(1), device |-> Tables(devices)]

Once == [max_count |-> Integer(1)]
OnlyIn(chapters) == [allowed_chapters |-> Array(chapters)]

BadLedgers ==
    {File(LedgerTable(<< Device("a", ration) >>)) : ration \in
        {[max_count |-> Integer(0)], [retired_after_chapter |-> Bool(TRUE)],
         OnlyIn(<< >>), OnlyIn(<< Integer(0) >>), OnlyIn(<< Bool(TRUE) >>),
         OnlyIn(<< Integer(1) >>) @@ [reserved_for_chapter |-> Integer(1)],
         Once @@ [cooldown |-> Integer(1)]}}
    \cup {File(LedgerTable(<< [id |-> String("a"), pattern |-> String("tic")] >>))}

GoodLedgers ==
    {File(LedgerTable(<< Device("a", Once),
                         Device("b", Once @@ [retired_after_chapter |-> Integer(1)]) >>))}

DuplicateLedger ==
    File(LedgerTable(<< Device("a", Once), Device("a", OnlyIn(<< Integer(2) >>)) >>))

MCLedgers == {AbsentFile, NotToml, UndecodableFile, DuplicateLedger} \cup BadLedgers
             \cup GoodLedgers
=============================================================================
