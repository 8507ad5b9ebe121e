------------------------------ MODULE LoaderKit ------------------------------
(***************************************************************************)
(* What rule packs and device ledgers share (loaderkit/load.py, parse.py,  *)
(* coerce.py, scan.py): reading a TOML file, the checks on its shape and   *)
(* the scan of the chapters for a pattern.                                 *)
(*                                                                         *)
(* A TOML value carries its type as the name of its only field, so a       *)
(* boolean is no integer here: require_int refuses Python's True, which    *)
(* isinstance would take for one.  Every content error ends the command in *)
(* the same way, so the checks are a conjunction; their order only picks   *)
(* the wording.                                                            *)
(***************************************************************************)
EXTENDS Integers, Sequences, FiniteSets

CONSTANTS
    Patterns,   \* the regular expressions that compile
    LinesOf     \* per body, its lines: how often each pattern matches there

Integer(n) == [integer |-> n]
String(s)  == [string |-> s]
Bool(b)    == [boolean |-> b]
Array(s)   == [array |-> s]
Table(t)   == [table |-> t]

Is(type, value) == DOMAIN value = {type}

(* A file on disk: absent, not TOML, bytes that are not UTF-8, or a table. *)
AbsentFile      == [kind |-> "absent"]
NotToml         == [kind |-> "not-toml"]
UndecodableFile == [kind |-> "undecodable"]
File(keys)      == [kind |-> "toml", raw |-> keys]

-----------------------------------------------------------------------------
(* reject_unknown_keys, require_str and require_int on a table's keys. *)

OnlyKeys(keys, allowed) == DOMAIN keys \subseteq allowed

Requires(keys, key, type) == key \in DOMAIN keys /\ Is(type, keys[key])

PositiveInteger(keys, key) ==
    Requires(keys, key, "integer") /\ keys[key].integer \in Nat \ {0}

(* A pattern must be a string re.compile accepts. *)
RequiresPattern(keys) ==
    Requires(keys, "pattern", "string") /\ keys["pattern"].string \in Patterns

(* resolve_schema_version: the closed set of keys and the one version. *)
SchemaSupported(raw, allowed, version) ==
    /\ OnlyKeys(raw, allowed)
    /\ Requires(raw, "schema_version", "integer")
    /\ raw["schema_version"].integer = version

(* entries: a non-empty array of tables. *)
Entries(raw, key) == [i \in DOMAIN raw[key].array |-> raw[key].array[i].table]

EntriesShaped(raw, key) ==
    /\ Requires(raw, key, "array")
    /\ raw[key].array # << >>
    /\ \A i \in DOMAIN raw[key].array : Is("table", raw[key].array[i])

MutantUniqueIds(entries) == TRUE   \* ids are not compared

UniqueIds(entries) ==
    \A i, j \in DOMAIN entries :
        entries[i]["id"].string = entries[j]["id"].string => i = j

(* build_entries, but for what the entry builder itself checks. *)
EntriesAccepted(raw, key) ==
    /\ EntriesShaped(raw, key)
    /\ \A i \in DOMAIN raw[key].array : Requires(Entries(raw, key)[i], "id", "string")
    /\ UniqueIds(Entries(raw, key))

-----------------------------------------------------------------------------
(* load_toml, then the parser, which accepts the table or does not: a missing file or
   broken TOML is the loader's file error; UnicodeDecodeError is neither an OSError
   nor a TOMLDecodeError, and leaves load_toml as it is, though the comment there
   means to catch it (UndecodableFileIsStateError). *)
LoadVerdict(file, accepted) ==
    CASE file.kind \in {"absent", "not-toml"} -> "file-error"
      [] file.kind = "undecodable"            -> "escaped"
      [] file.kind = "toml"                   ->
             IF accepted THEN "loaded" ELSE "content-error"

-----------------------------------------------------------------------------
(* scan_pattern: one hit per match, each at the chapter and line it is on.  The
   third field tells the matches of one line apart. *)

HitsIn(pattern, chapter, body) ==
    UNION {{<<chapter, i, k>> : k \in 1..LinesOf[body][i][pattern]} : i \in DOMAIN LinesOf[body]}

MutantHits(pattern, bodies) ==   \* the hits start afresh in every chapter
    UNION {HitsIn(pattern, c, bodies[c]) :
              c \in {d \in DOMAIN bodies : \A b \in DOMAIN bodies : b <= d}}

Hits(pattern, bodies) == UNION {HitsIn(pattern, c, bodies[c]) : c \in DOMAIN bodies}

Count(pattern, bodies) == Cardinality(Hits(pattern, bodies))

HitChapters(pattern, bodies) == {hit[1] : hit \in Hits(pattern, bodies)}
=============================================================================
