-------------------------- MODULE SpellingCache_proofs --------------------------
(***************************************************************************)
(* Theorems about SpellingCache, for any number of publications and any of *)
(* them broken or conflicting.                                             *)
(***************************************************************************)
EXTENDS SpellingCache, TLAPS

Untrusted == {"stale-cache", "offline-cache"}

TypeOK ==
    /\ authority \in Versions
    /\ cache \in Versions \cup {NoFile, Garbled}
    /\ metadata \in Versions \cup {NoFile}
    /\ config \in Versions \cup {NoFile, Garbled}
    /\ proc \in [step : {"idle", "request", "compare", "read", "write-cache",
                         "write-metadata", "write-config"},
                 saved : Versions \cup {NoFile}, served : Versions \cup {NoFile},
                 record : Versions \cup {NoFile},
                 status : {"none", "killed", "current", "refreshed"} \cup Untrusted]

(* A file that holds a publication holds none later than v. *)
NoLater(file, v) == file \in Versions => file <= v

(* What a run has read, and no other run can have changed since. *)
RunSound ==
    /\ At("request") \/ At("compare") \/ At("read") => proc.saved = metadata
    /\ At("compare") \/ At("read") => proc.record \in Versions /\ proc.record <= authority
    /\ At("compare") => NoLater(cache, proc.record) /\ NoLater(config, proc.record)
    /\ At("write-cache") \/ At("write-metadata") =>
           /\ proc.status = "refreshed"
           /\ proc.served \in Versions \ Broken /\ proc.served <= authority
           /\ proc.record \in Versions /\ proc.record <= proc.served
           /\ NoLater(metadata, proc.served) /\ NoLater(config, proc.served)
    /\ At("write-metadata") => cache = proc.served
    /\ At("write-config") =>
           /\ proc.status \in {"current", "refreshed"} \cup Untrusted
           /\ ValidCache
           /\ proc.status \notin Untrusted =>
                  cache = proc.served /\ NoLater(config, proc.served)

Inv ==
    /\ TypeOK
    /\ NoLater(cache, authority) /\ NoLater(metadata, authority) /\ NoLater(config, authority)
    /\ MetadataNeverAhead
    /\ RunSound

(* Versions are integers, and neither a lost file nor a garbled one is a version. *)
LEMMA VersionsAreIntegers ==
    /\ Versions \subseteq Int
    /\ NoFile \notin Versions /\ Garbled \notin Versions
BY SpellingAssumption DEF Versions

LEMMA InvInitially == Init => Inv
BY VersionsAreIntegers, SpellingAssumption
   DEF Init, Inv, TypeOK, NoLater, MetadataNeverAhead, RunSound, Idle, At, Versions

-----------------------------------------------------------------------------
(* The steps of a run. *)

LEMMA StartSound ==
    ASSUME Inv, Start \/ RunOffline PROVE Inv'
<1>1. /\ UNCHANGED <<authority, cache, metadata, config>>
      /\ At("request")' \/ At("compare")' \/ At("write-config")'
  BY DEF Start, StartHttps, StartLocal, RunOffline, env, files, At, Idle
<1>2. TypeOK'
  BY DEF Start, StartHttps, StartLocal, RunOffline, env, files, Inv, TypeOK, Idle, Untrusted
<1>3. MetadataNeverAhead'
  BY <1>1 DEF Inv, MetadataNeverAhead, ValidCache
<1>4. RunSound'
  <2>1. CASE StartHttps
    BY <2>1 DEF StartHttps, Idle, RunSound, At, env, files
  <2>2. CASE StartLocal
    <3>1. authority <= authority
      BY VersionsAreIntegers DEF Inv, TypeOK
    <3>2. QED
      BY <2>2, <3>1 DEF StartLocal, Idle, RunSound, At, env, files, Inv, TypeOK, NoLater
  <2>3. CASE RunOffline
    BY <2>3 DEF RunOffline, Idle, RunSound, At, env, files, Untrusted, ValidCache
  <2>4. QED
    BY <2>1, <2>2, <2>3 DEF Start
<1>5. QED
  BY <1>1, <1>2, <1>3, <1>4 DEF Inv, NoLater

(* An unmodified source is the one in the cache: the metadata sent is no later than
   the cache, and the cache no later than the source. *)
LEMMA UnmodifiedIsCached ==
    ASSUME Inv, At("request"), ValidCache, proc.saved # NoFile,
           proc.saved = authority \/ authority <= proc.saved
    PROVE  cache = authority
BY VersionsAreIntegers
   DEF Inv, TypeOK, NoLater, MetadataNeverAhead, RunSound, ValidCache

LEMMA ReportSound ==
    ASSUME Inv, NEW status \in {"current"} \cup Untrusted, ValidCache,
           status = "current" => cache = authority,
           Report(status), UNCHANGED env
    PROVE  Inv'
BY VersionsAreIntegers
   DEF Report, env, files, Inv, TypeOK, NoLater, MetadataNeverAhead, RunSound, At,
       Untrusted, ValidCache

LEMMA GiveUpSound ==
    ASSUME Inv, GiveUp, UNCHANGED env PROVE Inv'
BY VersionsAreIntegers
   DEF GiveUp, env, files, Inv, TypeOK, NoLater, MetadataNeverAhead, RunSound, Idle, At,
       ValidCache

LEMMA AcceptSound ==
    ASSUME Inv, NEW record \in Versions, record <= authority, Accept(record), UNCHANGED env
    PROVE  Inv'
<1>1. TypeOK'
  BY DEF Accept, env, files, Inv, TypeOK
<1>2. MetadataNeverAhead'
  BY DEF Accept, files, Inv, MetadataNeverAhead, ValidCache
<1>3. authority \in Versions \ Broken /\ authority <= authority
  BY VersionsAreIntegers DEF Accept, Inv, TypeOK
<1>4. RunSound'
  BY <1>3 DEF Accept, env, files, Inv, TypeOK, NoLater, RunSound, At
<1>5. QED
  BY <1>1, <1>2, <1>4 DEF Accept, env, files, Inv, NoLater

LEMMA AnswerSound ==
    ASSUME Inv, Unreachable \/ NotModified \/ Responds PROVE Inv'
<1>1. UNCHANGED env /\ At("request")
  BY DEF Unreachable, NotModified, Responds
<1>2. CASE StaleCacheOrRaise
  <2>1. CASE ValidCache /\ Report("stale-cache")
    BY <1>1, <2>1, ReportSound DEF Untrusted
  <2>2. QED
    BY <1>1, <1>2, <2>1, GiveUpSound DEF StaleCacheOrRaise
<1>3. CASE Unreachable
  BY <1>2, <1>3 DEF Unreachable
<1>4. CASE NotModified
  <2>1. CASE ValidCache /\ Report("current")
    <3>1. cache = authority
      BY <1>1, <1>4, <2>1, UnmodifiedIsCached DEF NotModified, Conditional, Unmodified
    <3>2. QED
      BY <1>1, <2>1, <3>1, ReportSound
  <2>2. QED
    BY <1>2, <1>4, <2>1 DEF NotModified
<1>5. CASE Responds
  <2>1. CASE ValidCache /\ RemoteIsNotNewer /\ Report("current")
    <3>1. cache = authority
      BY <1>1, <2>1, UnmodifiedIsCached DEF RemoteIsNotNewer, Conditional
    <3>2. QED
      BY <1>1, <2>1, <3>1, ReportSound
  <2>2. CASE Accept(authority)
    BY <1>1, <2>2, AcceptSound, VersionsAreIntegers DEF Inv, TypeOK
  <2>3. CASE Reject
    BY <1>1, <2>3, GiveUpSound DEF Reject
  <2>4. QED
    BY <1>5, <2>1, <2>2, <2>3 DEF Responds
<1>6. QED
  BY <1>3, <1>4, <1>5

LEMMA LocalSound ==
    ASSUME Inv, CompareLocal \/ ReadLocal PROVE Inv'
<1>1. CASE CompareLocal
  <2>1. CASE LocalIsCurrent
    <3>1. cache = proc.record
      <4>1. /\ cache \in Versions /\ cache <= proc.record
            /\ metadata \in Versions /\ proc.record <= metadata /\ metadata <= cache
            /\ proc.record \in Versions
        BY <1>1, <2>1 DEF CompareLocal, LocalIsCurrent, Inv, TypeOK, RunSound, NoLater, At,
                          ValidCache, MetadataNeverAhead
      <4>2. cache \in Int /\ metadata \in Int /\ proc.record \in Int
        BY <4>1, VersionsAreIntegers
      <4>3. QED
        BY <4>1, <4>2
    <3>2. /\ UNCHANGED <<env, files>> /\ NoLater(config, proc.record)
          /\ proc' = [proc EXCEPT !.step = "write-config", !.status = "current",
                                  !.served = proc.record]
          /\ proc.record \in Versions /\ ValidCache
      BY <1>1, <2>1 DEF CompareLocal, LocalIsCurrent, Inv, RunSound, At
    <3>3. QED
      BY <3>1, <3>2 DEF env, files, Inv, TypeOK, NoLater, MetadataNeverAhead, RunSound, At,
                        Untrusted, ValidCache
  <2>2. CASE proc' = [proc EXCEPT !.step = "read"]
    BY <1>1, <2>2 DEF CompareLocal, env, files, Inv, TypeOK, NoLater, MetadataNeverAhead,
                      RunSound, At, ValidCache
  <2>3. QED
    BY <1>1, <2>1, <2>2 DEF CompareLocal
<1>2. CASE ReadLocal
  <2>1. proc.record \in Versions /\ proc.record <= authority /\ UNCHANGED env
    BY <1>2 DEF ReadLocal, Inv, RunSound
  <2>2. CASE Accept(proc.record)
    BY <2>1, <2>2, AcceptSound
  <2>3. CASE GiveUp
    BY <2>1, <2>3, GiveUpSound
  <2>4. QED
    BY <1>2, <2>2, <2>3 DEF ReadLocal, Reject
<1>3. QED
  BY <1>1, <1>2

LEMMA WritesSound ==
    ASSUME Inv, WriteCache \/ WriteMetadata \/ WriteConfig PROVE Inv'
<1>1. CASE WriteCache
  BY <1>1, VersionsAreIntegers
     DEF WriteCache, env, Inv, TypeOK, NoLater, MetadataNeverAhead, RunSound, At, ValidCache
<1>2. CASE WriteMetadata
  BY <1>2, VersionsAreIntegers
     DEF WriteMetadata, env, Inv, TypeOK, NoLater, MetadataNeverAhead, RunSound, At,
         ValidCache, Untrusted
<1>3. CASE WriteConfig
  BY <1>3, VersionsAreIntegers
     DEF WriteConfig, env, Inv, TypeOK, NoLater, MetadataNeverAhead, RunSound, At, Idle,
         ValidCache
<1>4. QED
  BY <1>1, <1>2, <1>3

-----------------------------------------------------------------------------
(* A kill, a publication, a lost file or a pulled config. *)

LEMMA SurroundingsSound ==
    ASSUME Inv, Kill \/ Surroundings PROVE Inv'
<1>1. CASE Kill
  BY <1>1, VersionsAreIntegers
     DEF Kill, env, files, Inv, TypeOK, NoLater, MetadataNeverAhead, RunSound, At, Idle,
         ValidCache
<1>2. CASE Publish
  <2>1. authority' \in Versions /\ authority <= authority'
    BY <1>2, SpellingAssumption DEF Publish, Inv, TypeOK, Versions
  <2>2. \A v \in Versions : v <= authority => v <= authority'
    BY <2>1, VersionsAreIntegers DEF Inv, TypeOK
  <2>3. UNCHANGED <<files, proc>>
    BY <1>2 DEF Publish
  <2>4. QED
    BY <2>1, <2>2, <2>3
       DEF files, Inv, TypeOK, NoLater, MetadataNeverAhead, RunSound, At, ValidCache
<1>3. CASE ReachabilityChanges
  BY <1>3 DEF ReachabilityChanges, files, Inv, TypeOK, NoLater, MetadataNeverAhead,
              RunSound, At, ValidCache
<1>4. CASE MakeClean \/ CacheDamaged \/ MetadataDamaged \/ ConfigPulled
  BY <1>4, VersionsAreIntegers
     DEF MakeClean, CacheDamaged, MetadataDamaged, ConfigPulled, Usable, env, Inv, TypeOK,
         NoLater, MetadataNeverAhead, RunSound, At, ValidCache
<1>5. QED
  BY <1>1, <1>2, <1>3, <1>4 DEF Surroundings

LEMMA InvAlways == Spec => []Inv
<1>1. Inv /\ [Next]_vars => Inv'
  <2>1. CASE UNCHANGED vars
    BY <2>1 DEF vars, Inv, TypeOK, NoLater, MetadataNeverAhead, RunSound, At, ValidCache
  <2>2. QED
    BY <2>1, StartSound, AnswerSound, LocalSound, WritesSound, SurroundingsSound
       DEF Next, Steps
<1>2. QED
  BY InvInitially, <1>1, PTL DEF Spec

-----------------------------------------------------------------------------
(* However runs are killed and whatever is lost in between, the metadata never claims
   more than the cache holds. *)
THEOREM MetadataStaysBehind == Spec => []MetadataNeverAhead
<1>1. Inv => MetadataNeverAhead
  BY DEF Inv
<1>2. QED
  BY <1>1, InvAlways, PTL

(* A run that says current or refreshed rendered what the authority answered with. *)
THEOREM CurrentIsCurrent == Spec => CurrentMeansCurrent
<1>1. Inv => [WriteConfig /\ proc.status \in {"current", "refreshed"}
                  => cache = proc.served
                     /\ (cache \notin Conflicting => config' = proc.served)]_vars
  BY DEF WriteConfig, Inv, RunSound, Untrusted
<1>2. QED
  BY <1>1, InvAlways, PTL DEF CurrentMeansCurrent

(* Only a run that did without the authority can take the config back. *)
THEOREM OnlyStaleRunsGoBack == Spec => OlderOnlyWithoutAuthority
<1>1. Inv => [WriteConfig /\ config \in Versions /\ config' < config
                  => proc.status \in Untrusted]_vars
  BY VersionsAreIntegers
     DEF WriteConfig, Inv, TypeOK, RunSound, NoLater, ValidCache, Untrusted
<1>2. QED
  BY <1>1, InvAlways, PTL DEF OlderOnlyWithoutAuthority, Untrusted
=============================================================================
