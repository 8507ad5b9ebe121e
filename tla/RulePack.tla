------------------------------- MODULE RulePack -------------------------------
(***************************************************************************)
(* Rule packs (rulepack/parse.py, schema.py, detect.py): which files are   *)
(* packs, and which rules a set of chapters breaks.                        *)
(***************************************************************************)
EXTENDS LoaderKit, BinaryFloat

PackKeys == {"schema_version", "pack", "rule"}

RuleKeys == {"id", "pattern", "threshold", "basis", "page_words"}

SchemaVersion == 1

(* _rule: page_words belongs to a per_page rule, and to no other. *)
RuleAccepted(rule) ==
    /\ OnlyKeys(rule, RuleKeys)
    /\ RequiresPattern(rule)
    /\ Requires(rule, "threshold", "integer") /\ rule["threshold"].integer \in Nat
    /\ Requires(rule, "basis", "string")
    /\ \/ rule["basis"].string = "manuscript" /\ "page_words" \notin DOMAIN rule
       \/ rule["basis"].string = "per_page" /\ PositiveInteger(rule, "page_words")

(* parse_rulepack. *)
PackAccepted(raw) ==
    /\ SchemaSupported(raw, PackKeys, SchemaVersion)
    /\ Requires(raw, "pack", "string")
    /\ EntriesAccepted(raw, "rule")
    /\ \A i \in DOMAIN Entries(raw, "rule") : RuleAccepted(Entries(raw, "rule")[i])

(* load_rulepack. *)
PackVerdict(file) == LoadVerdict(file, file.kind = "toml" /\ PackAccepted(file.raw))

-----------------------------------------------------------------------------
(* detect. *)

MutantDensity(count, words, pageWords) ==   \* whole pages only
    IF words \div pageWords = 0 THEN Zero ELSE Quotient(count, words \div pageWords)

(* pages = words / page_words, density = count / pages: two roundings.  Both are
   zero when there are no words. *)
Density(count, words, pageWords) ==
    IF words = 0 THEN Zero ELSE Over(count, Quotient(words, pageWords))

(* Without words there are no pages, and any hit at all is too many. *)
DensityPasses(count, words, pageWords, threshold) ==
    IF words = 0 THEN count <= 0
    ELSE AtMost(Density(count, words, pageWords), Float(threshold))

RulePasses(rule, count, words) ==
    IF rule["basis"].string = "per_page"
    THEN DensityPasses(count, words, rule["page_words"].integer, rule["threshold"].integer)
    ELSE count <= rule["threshold"].integer

(* detect: one finding per rule, in the pack's order. *)
Detect(raw, bodies, words) ==
    LET rules == Entries(raw, "rule")
    IN  [i \in DOMAIN rules |->
            [id     |-> rules[i]["id"].string,
             passed |-> RulePasses(rules[i], Count(rules[i]["pattern"].string, bodies), words)]]
=============================================================================
