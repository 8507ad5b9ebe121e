----------------------------- MODULE DeviceLedger -----------------------------
(***************************************************************************)
(* The device ledger (ledger/parse.py, _fields.py, detect.py, report.py):  *)
(* how often, and in which chapters, a rationed device may be spent.       *)
(***************************************************************************)
EXTENDS LoaderKit

LedgerKeys == {"schema_version", "device"}

WindowKeys == {"allowed_chapters", "retired_after_chapter", "reserved_for_chapter"}

DeviceKeys == {"id", "pattern", "max_count"} \cup WindowKeys

LedgerVersion == 1

AllowedChaptersAccepted(device) ==
    /\ Requires(device, "allowed_chapters", "array")
    /\ device["allowed_chapters"].array # << >>
    /\ \A i \in DOMAIN device["allowed_chapters"].array :
           LET chapter == device["allowed_chapters"].array[i]
           IN  Is("integer", chapter) /\ chapter.integer > 0

(* _rationing_fields: at most one window, and at least one ration in all. *)
RationAccepted(device) ==
    LET windows == WindowKeys \cap DOMAIN device
    IN  /\ Cardinality(windows) <= 1
        /\ "max_count" \in DOMAIN device \/ windows # {}
        /\ \A key \in DOMAIN device \cap (DeviceKeys \ {"id", "pattern", "allowed_chapters"}) :
               PositiveInteger(device, key)
        /\ "allowed_chapters" \in windows => AllowedChaptersAccepted(device)

(* _device and parse_ledger. *)
DeviceAccepted(device) ==
    OnlyKeys(device, DeviceKeys) /\ RequiresPattern(device) /\ RationAccepted(device)

LedgerAccepted(raw) ==
    /\ SchemaSupported(raw, LedgerKeys, LedgerVersion)
    /\ EntriesAccepted(raw, "device")
    /\ \A i \in DOMAIN Entries(raw, "device") : DeviceAccepted(Entries(raw, "device")[i])

(* load_ledger. *)
LedgerVerdict(file) == LoadVerdict(file, file.kind = "toml" /\ LedgerAccepted(file.raw))

-----------------------------------------------------------------------------
(* detect_ledger. *)

MutantOutside(device, chapter) ==   \* the retirement chapter itself is refused
    \/ /\ "allowed_chapters" \in DOMAIN device
       /\ \A i \in DOMAIN device["allowed_chapters"].array :
              device["allowed_chapters"].array[i].integer # chapter
    \/ /\ "retired_after_chapter" \in DOMAIN device
       /\ chapter >= device["retired_after_chapter"].integer
    \/ /\ "reserved_for_chapter" \in DOMAIN device
       /\ chapter # device["reserved_for_chapter"].integer

(* A chapter outside the device's window. *)
Outside(device, chapter) ==
    \/ /\ "allowed_chapters" \in DOMAIN device
       /\ \A i \in DOMAIN device["allowed_chapters"].array :
              device["allowed_chapters"].array[i].integer # chapter
    \/ /\ "retired_after_chapter" \in DOMAIN device
       /\ chapter > device["retired_after_chapter"].integer
    \/ /\ "reserved_for_chapter" \in DOMAIN device
       /\ chapter # device["reserved_for_chapter"].integer

DevicePasses(device, bodies) ==
    LET pattern == device["pattern"].string
    IN  /\ "max_count" \in DOMAIN device =>
               Count(pattern, bodies) <= device["max_count"].integer
        /\ \A chapter \in HitChapters(pattern, bodies) : ~Outside(device, chapter)

DetectLedger(raw, bodies) ==
    LET devices == Entries(raw, "device")
    IN  [i \in DOMAIN devices |->
            [id |-> devices[i]["id"].string, passed |-> DevicePasses(devices[i], bodies)]]
=============================================================================
