---------------------------- MODULE SpellingCache ----------------------------
(***************************************************************************)
(* make spelling: scripts/generate_typos_config.py refreshes an untracked  *)
(* cache of the shared dictionary (scripts/typos_rollout.py,               *)
(* typos_rollout_cache.py) and renders the tracked typos.toml from it.     *)
(*                                                                         *)
(* The dictionary is kept as the number of its publication, which also     *)
(* stands for its ETag, its Last-Modified date and a local file's mtime: a *)
(* later publication has a different tag and a later date.  The rendered   *)
(* config is kept as the number it was rendered from.                      *)
(***************************************************************************)
EXTENDS Integers

CONSTANTS
    LastVersion,   \* how often the authority publishes
    Broken,        \* publications that are no schema-1 dictionary
    Conflicting,   \* publications that contradict typos.local.toml
    NoFile, Garbled

Versions == 1..LastVersion

ASSUME SpellingAssumption ==
    /\ LastVersion \in Nat \ {0}
    /\ Broken \subseteq Versions /\ Conflicting \subseteq Versions
    /\ NoFile \notin Versions /\ Garbled \notin Versions

VARIABLES
    source,      \* "https" or "local", what main is given; fixed
    validators,  \* the headers the authority sends: "ETag", "Last-Modified"; fixed
    authority,   \* the publication at the source
    reachable,   \* the source answers
    cache,       \* .typos-oxendict-base.toml
    metadata,    \* .typos-oxendict-base.json: the publication it describes
    config,      \* typos.toml
    proc         \* the run in progress

env == <<source, validators, authority, reachable>>
files == <<cache, metadata, config>>
vars == <<source, validators, authority, reachable, cache, metadata, config, proc>>

Usable == Versions \ (Broken \cup Conflicting)

(* The run in progress: its step, the metadata it read, the publication it was
   answered with, the version it will record and the status it will report. *)
Idle == [step |-> "idle", saved |-> NoFile, served |-> NoFile,
         record |-> NoFile, status |-> "none"]

ValidCache == cache \in Versions \ Broken

At(step) == proc.step = step

-----------------------------------------------------------------------------
(* How a refresh ends. *)

(* refresh_base returned: main goes on to render the cache. *)
Report(status) ==
    /\ proc' = [proc EXCEPT !.step = "write-config", !.status = status, !.served = authority]
    /\ UNCHANGED files

(* An exception that reaches main, or main's fallback to the tracked config; either
   way nothing is written. *)
GiveUp == proc' = Idle /\ UNCHANGED files

(* _stale_cache_or_raise: without the authority a valid cache will do. *)
StaleCacheOrRaise ==
    \/ ValidCache /\ Report("stale-cache")
    \/ ~ValidCache /\ GiveUp

MutantAccept(record) ==   \* the metadata is written first
    /\ authority \notin Broken
    /\ metadata' = record
    /\ proc' = [proc EXCEPT !.step = "write-cache", !.status = "refreshed",
                            !.served = authority, !.record = record]
    /\ UNCHANGED <<cache, config>>

(* The content is validated before it replaces anything. *)
Accept(record) ==
    /\ authority \notin Broken
    /\ proc' = [proc EXCEPT !.step = "write-cache", !.status = "refreshed",
                            !.served = authority, !.record = record]
    /\ UNCHANGED files

Reject == authority \in Broken /\ GiveUp

-----------------------------------------------------------------------------
(* _refresh_http. *)

(* _read_metadata and _conditional_headers: what was saved is sent whether or not
   there is a cache. *)
StartHttps ==
    /\ At("idle") /\ source = "https"
    /\ proc' = [Idle EXCEPT !.step = "request", !.saved = metadata]
    /\ UNCHANGED <<env, files>>

(* The authority compares the validators sent with what it has: the tag if there is
   one, the date if not. *)
Conditional == validators # {} /\ proc.saved # NoFile

Unmodified ==
    IF "ETag" \in validators THEN proc.saved = authority ELSE authority <= proc.saved

(* _remote_is_not_newer: the same tag, or a date no later than the one saved. *)
RemoteIsNotNewer ==
    /\ Conditional
    /\ \/ "ETag" \in validators /\ proc.saved = authority
       \/ "Last-Modified" \in validators /\ authority <= proc.saved

MutantUnreachable ==   \* a failed request is taken for an unchanged source
    /\ At("request") /\ ~reachable
    /\ \/ ValidCache /\ Report("current")
       \/ ~ValidCache /\ GiveUp
    /\ UNCHANGED env

(* A URLError, an OSError or an HTTP error. *)
Unreachable ==
    /\ At("request") /\ ~reachable
    /\ StaleCacheOrRaise
    /\ UNCHANGED env

(* urlopen raises for a 304. *)
NotModified ==
    /\ At("request") /\ reachable /\ Conditional /\ Unmodified
    /\ \/ ValidCache /\ Report("current")
       \/ ~ValidCache /\ StaleCacheOrRaise
    /\ UNCHANGED env

(* A 200; an authority may send one whatever the request's validators say. *)
Responds ==
    /\ At("request") /\ reachable
    /\ \/ ValidCache /\ RemoteIsNotNewer /\ Report("current")
       \/ ~(ValidCache /\ RemoteIsNotNewer) /\ (Accept(authority) \/ Reject)
    /\ UNCHANGED env

-----------------------------------------------------------------------------
(* _refresh_local: stat and metadata first, the content after. *)

StartLocal ==
    /\ At("idle") /\ source = "local" /\ reachable
    /\ proc' = [Idle EXCEPT !.step = "compare", !.saved = metadata, !.record = authority]
    /\ UNCHANGED <<env, files>>

LocalIsCurrent == ValidCache /\ proc.saved # NoFile /\ proc.record <= proc.saved

CompareLocal ==
    /\ At("compare")
    /\ \/ LocalIsCurrent /\ proc' = [proc EXCEPT !.step = "write-config", !.status = "current",
                                                 !.served = proc.record]
       \/ ~LocalIsCurrent /\ proc' = [proc EXCEPT !.step = "read"]
    /\ UNCHANGED <<env, files>>

ReadLocal ==
    /\ At("read")
    /\ \/ ~reachable /\ GiveUp
       \/ reachable /\ (Accept(proc.record) \/ Reject)
    /\ UNCHANGED env

(* refresh_base with offline set. *)
RunOffline ==
    /\ At("idle") /\ ValidCache
    /\ proc' = [Idle EXCEPT !.step = "write-config", !.status = "offline-cache",
                            !.served = authority]
    /\ UNCHANGED <<env, files>>

-----------------------------------------------------------------------------
(* The three files, each replaced atomically. *)

MutantWriteCache ==   \* whatever the authority has by now is described
    /\ At("write-cache")
    /\ cache' = proc.served
    /\ proc' = [proc EXCEPT !.step = "write-metadata", !.record = authority]
    /\ UNCHANGED <<env, metadata, config>>

WriteCache ==
    /\ At("write-cache")
    /\ cache' = proc.served
    /\ proc' = [proc EXCEPT !.step = "write-metadata"]
    /\ UNCHANGED <<env, metadata, config>>

WriteMetadata ==
    /\ At("write-metadata")
    /\ metadata' = proc.record
    /\ proc' = [proc EXCEPT !.step = "write-config"]
    /\ UNCHANGED <<env, cache, config>>

MutantWriteConfig ==   \* an unchanged dictionary is not rendered again
    /\ At("write-config")
    /\ config' = IF proc.status = "current" \/ cache \in Conflicting THEN config ELSE cache
    /\ proc' = Idle
    /\ UNCHANGED <<env, cache, metadata>>

(* write_config over the cache merged with typos.local.toml; a conflict raises after
   the cache has been replaced. *)
WriteConfig ==
    /\ At("write-config")
    /\ config' = IF cache \in Conflicting THEN config ELSE cache
    /\ proc' = Idle
    /\ UNCHANGED <<env, cache, metadata>>

-----------------------------------------------------------------------------
(* What happens around the script. *)

Kill == ~At("idle") /\ proc' = [Idle EXCEPT !.status = "killed"] /\ UNCHANGED <<env, files>>

Publish ==
    /\ authority < LastVersion /\ authority' = authority + 1
    /\ UNCHANGED <<source, validators, reachable, files, proc>>

ReachabilityChanges ==
    /\ reachable' = ~reachable
    /\ UNCHANGED <<source, validators, authority, files, proc>>

MakeClean ==
    /\ At("idle")
    /\ cache' = NoFile /\ metadata' = NoFile
    /\ UNCHANGED <<env, config, proc>>

(* The two untracked files may be lost or damaged one without the other; unparsable
   metadata is read as none. *)
CacheDamaged ==
    /\ At("idle") /\ cache' \in {NoFile, Garbled}
    /\ UNCHANGED <<env, metadata, config, proc>>

MetadataDamaged ==
    /\ At("idle") /\ metadata' = NoFile
    /\ UNCHANGED <<env, cache, config, proc>>

(* Version control brings a config rendered elsewhere, or conflict markers. *)
ConfigPulled ==
    /\ At("idle") /\ config' \in {v \in Usable : v <= authority} \cup {Garbled}
    /\ UNCHANGED <<env, cache, metadata, proc>>

Init ==
    /\ source \in {"https", "local"}
    /\ validators \in SUBSET {"ETag", "Last-Modified"}
    /\ authority = 1 /\ reachable = TRUE
    /\ cache = NoFile /\ metadata = NoFile /\ config = NoFile
    /\ proc = Idle

Start == StartHttps \/ StartLocal

Steps ==
    \/ NotModified \/ Responds \/ Unreachable
    \/ CompareLocal \/ ReadLocal
    \/ WriteCache \/ WriteMetadata \/ WriteConfig

Surroundings ==
    \/ Publish \/ ReachabilityChanges
    \/ MakeClean \/ CacheDamaged \/ MetadataDamaged \/ ConfigPulled

Next == Start \/ RunOffline \/ Steps \/ Kill \/ Surroundings

(* Every change runs make spelling again with the authority asked (strong: runs that do
   not ask it may come between), and a run that started goes on. *)
Spec == Init /\ [][Next]_vars /\ SF_vars(Start) /\ WF_vars(Steps)

-----------------------------------------------------------------------------
(* The metadata never describes a later publication than the one in a valid cache:
   not after a kill between the two writes, nor when the source changes between the
   stat and the read.  This is what makes an unchanged source mean a current cache. *)
MetadataNeverAhead == metadata \in Versions /\ ValidCache => metadata <= cache

(* A run that reports current or refreshed has rendered what the authority had when
   it answered, wherever earlier runs were killed and whichever of the two untracked
   files was lost: a source that is always the same and never goes back is all it
   takes. *)
CurrentMeansCurrent ==
    [][WriteConfig /\ proc.status \in {"current", "refreshed"}
           => cache = proc.served /\ (cache \notin Conflicting => config' = proc.served)]_vars

(* A run replaces a config by an older one only when it did without the authority. *)
OlderOnlyWithoutAuthority ==
    [][WriteConfig /\ config \in Versions /\ config' < config
           => proc.status \in {"stale-cache", "offline-cache"}]_vars

(* The validators of a publication are held, but not the publication: every request
   is answered 304 and the cache never comes back, unless the authority ignores
   conditional requests. *)
Stuck == source = "https" /\ metadata = authority /\ ~ValidCache

(* While the source can be reached and runs are no longer killed, the config keeps
   coming back to what is published, unless that is unusable or the run is stuck. *)
CatchesUp ==
    <>[]reachable /\ <>[][~Kill]_vars
        => []<>(config = authority \/ authority \notin Usable \/ Stuck)
=============================================================================
