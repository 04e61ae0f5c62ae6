---------------------------- MODULE CensusProofs ----------------------------
(***************************************************************************)
(* The safety of Census for every set of connections, IDs, files, handlers *)
(* and settings. A refresh is followed from the lock to the commit         *)
(* (Locked, Ordered, Faithful), a switch of the flags from the reload to   *)
(* the refresh that reads it (Switched), and a pass of the enforcer from   *)
(* the tick to its last close (Passing, Pending, Spared).                  *)
(***************************************************************************)
EXTENDS Census, TLAPS

(* The sources that refresher r has loaded.                                *)
Read(r) == (wanted[r] \ todo[r]) \ failed[r]

(* Only the holder of censusRefreshLock loads.                             *)
Locked == \A r \in Refresher : pc[r] = "loading" <=> lock = r

(* What was read is no older than the cache and no newer than the source,  *)
(* and of a file that was skipped there is nothing.                        *)
Ordered ==
  /\ \A s \in Source : cache[s].ver <= src[s].ver
  /\ \A r \in Refresher : pc[r] = "loading" => \A s \in Read(r) :
       /\ got[r][s] = None \/ cache[s].ver <= got[r][s].ver
       /\ got[r][s].ver <= src[s].ver

(* A save is on disk, and in what its refresh has read unless that skipped *)
(* the file.                                                               *)
Written ==
  \A r \in Refresher : saved[r] # NoSave =>
    /\ Shows(src[saved[r].file], saved[r].data)
    /\ pc[r] = "loading" /\ saved[r].file \in Read(r) =>
         \/ Shows(got[r][saved[r].file], saved[r].data)
         \/ saved[r].file \in Flaky /\ got[r][saved[r].file] = None

(* Listings are contents of their source, but for skipped files.           *)
Faithful ==
  /\ \A s \in Source : Contents(s, src[s].ids) /\ cache[s].ids \subseteq May[s]
  /\ \A r \in Refresher : pc[r] = "loading" => \A s \in Read(r) :
       /\ got[r][s].ids \subseteq May[s]
       /\ s \notin Flaky => Kept[s] \subseteq got[r][s].ids

(* A source that is off, or that a refresh leaves out, was switched off.   *)
Switched ==
  /\ Source \ EnabledSources(flags) \subseteq everOff
  /\ \A r \in Refresher : pc[r] = "loading" => Source \ wanted[r] \subseteq everOff

(* The sets of the enforcer.                                               *)
Passing ==
  /\ server = "booting" => epc = "absent"
  /\ epc \in {"absent", "sleep"} => toVisit = {} /\ toClose = {}
  /\ epc = "close" => toVisit = {}
  /\ toVisit \cap toClose = {}
  /\ \A c \in toClose : client[c] \in {"listed", "closed", "cut"}

(* A check that no refresh has overtaken is still true, and during a pass  *)
(* the enforcer has an uncensed connection it will not skip ahead of it or *)
(* in its list.                                                            *)
Pending ==
  /\ \A c \in Client : client[c] = "admitted" /\ check[c] = "good" => IsIDCensed(ident[c])
  /\ refreshed = "seen" => \A c \in Client :
       Uncensed(c) => check[c] # "good" \/ c \in toVisit \cup toClose

(* A connection whose ID was checked, and is named for good by sources     *)
(* that were never off.                                                    *)
Safe(c) ==
  /\ check[c] # "none" /\ Permanent(ident[c])
  /\ \A s \in everOff : ident[c] \notin Kept[s]

Spared ==
  \A c \in Client : Safe(c) =>
    /\ client[c] # "cut"
    /\ client[c] \in {"admitted", "listed"} => IsIDCensed(ident[c]) /\ c \notin toClose

CInv ==
  /\ CensusTypeOK /\ Locked /\ Ordered /\ Written /\ Faithful /\ Switched
  /\ Passing /\ Pending /\ Spared

-----------------------------------------------------------------------------
(* Type correctness.                                                       *)

(* A reloaded configuration with the overrides is a configuration.         *)
LEMMA EffectiveType ==
  ASSUME NEW k \in CensusFlags, NEW f
  PROVE  Effective(k, f) \in CensusFlags
  BY DEF Effective, CensusFlags

(* The empty listing is a listing.                                         *)
LEMMA NoneType == None \in Listing
  BY DEF None, Listing

(* So is the save that was not made.                                       *)
LEMMA NoSaveType == NoSave \in Save
  BY NoneType DEF NoSave, Save, Source

(* What a refresh commits is a listing for every source.                   *)
LEMMA MergedType ==
  ASSUME CensusTypeOK, NEW r \in Refresher
  PROVE  Merged(r) \in [Source -> Listing]
  BY NoneType DEF Merged, CensusTypeOK

(* The types hold at start-up.                                             *)
LEMMA TypeInit == CensusInit => CensusTypeOK
<1> SUFFICES ASSUME CensusInit PROVE CensusTypeOK
  OBVIOUS
<1> USE CensusBoundAssumption, SourceAssumption
<1>1. flags \in CensusFlags /\ forced \subseteq {"url", "files"}
  BY EffectiveType DEF CensusInit, Legacy
<1>2. src \in [Source -> Listing]
  BY DEF CensusInit, Listing
<1>3. NoSave \in Save
  BY NoSaveType
<1>4. everOff \subseteq Source
  BY DEF CensusInit
<1> QED
  BY <1>1, <1>2, <1>3, <1>4, NoneType DEF CensusInit, CensusTypeOK

(* The caller of a refresh goes on with its locals reset.                  *)
LEMMA ReturnType ==
  ASSUME CensusTypeOK, NEW r \in Refresher, Return(r)
  PROVE  /\ pc' \in [Refresher -> {"idle", "called", "loading"}]
         /\ wanted' \in [Refresher -> SUBSET Source] /\ todo' \in [Refresher -> SUBSET Source]
         /\ failed' \in [Refresher -> SUBSET Source]
         /\ got' \in [Refresher -> [Source -> Listing]]
         /\ saved' \in [Refresher -> Save]
         /\ server' \in {"booting", "on", "off"}
         /\ epc' \in {"absent", "sleep", "scan", "close"}
<1>1. NoSave \in Save
  BY NoSaveType
<1>2. [s \in Source |-> None] \in [Source -> Listing]
  BY NoneType
<1> QED
  BY <1>1, <1>2 DEF Return, CensusTypeOK

(* Replacing the cache keeps the types.                                    *)
LEMMA SetCacheType ==
  ASSUME CensusTypeOK, NEW g \in [Source -> Listing], SetCache(g)
  PROVE  cache' \in [Source -> Listing] /\ check' \in [Client -> {"none", "good", "overtaken", "skipped"}]
  BY DEF SetCache, CensusTypeOK

(* Reading sources keeps the types.                                        *)
LEMMA LoadedType ==
  ASSUME CensusTypeOK, NEW r \in Refresher, NEW ss, NEW g \in [Source -> Listing],
         NEW bad \in SUBSET Source, Loaded(r, ss, g, bad)
  PROVE  CensusTypeOK'
  BY DEF Loaded, CensusTypeOK, env, conn, enforcer

(* Every step keeps the types.                                             *)
LEMMA TypeStep == CensusTypeOK /\ [CensusNext]_censusVars => CensusTypeOK'
<1> SUFFICES ASSUME CensusTypeOK, [CensusNext]_censusVars PROVE CensusTypeOK'
  OBVIOUS
<1> USE DEF env, job, conn, enforcer
<1>1. CASE \E s \in Source, ids \in SUBSET ID : Edit(s, ids)
  <2>1. PICK s \in Source, ids \in SUBSET ID : Edit(s, ids)
    BY <1>1
  <2>2. [ver |-> src[s].ver + 1, ids |-> ids] \in Listing
    BY DEF CensusTypeOK, Listing
  <2>3. src' \in [Source -> Listing]
    BY <2>1, <2>2 DEF Edit, CensusTypeOK
  <2> QED
    BY <2>1, <2>3 DEF Edit, CensusTypeOK
<1>2. CASE \E k \in FlagSets : ReloadFlags(k)
  <2>1. PICK k \in FlagSets : ReloadFlags(k)
    BY <1>2
  <2>2. flags' \in CensusFlags
    BY <2>1, EffectiveType, CensusBoundAssumption DEF ReloadFlags
  <2> QED
    BY <2>1, <2>2 DEF ReloadFlags, CensusTypeOK
<1>3. CASE TickerFires
  BY <1>3 DEF TickerFires, CensusTypeOK
<1>4. CASE \E r \in Handler : HandleCensusRefresh(r)
  BY <1>4 DEF HandleCensusRefresh, CensusTypeOK, Refresher
<1>5. CASE \E r \in Handler, f \in File, ids \in SUBSET ID : HandleEditCensusFileWrite(r, f, ids)
  <2>1. PICK r \in Handler, f \in File, ids \in SUBSET ID : HandleEditCensusFileWrite(r, f, ids)
    BY <1>5
  <2>2. r \in Refresher /\ f \in Source /\ src[f].ver + 1 \in Nat
    BY DEF Refresher, Source, CensusTypeOK, Listing
  <2>3. [ver |-> src[f].ver + 1, ids |-> ids] \in Listing
    BY <2>2 DEF Listing
  <2>4. src' \in [Source -> Listing]
    BY <2>1, <2>2, <2>3 DEF HandleEditCensusFileWrite, CensusTypeOK
  <2>5. [file |-> f, data |-> src'[f]] \in Save
    BY <2>2, <2>4 DEF Save
  <2> QED
    BY <2>1, <2>2, <2>4, <2>5 DEF HandleEditCensusFileWrite, CensusTypeOK
<1>6. ASSUME NEW r \in Refresher, RefreshStep(r) PROVE CensusTypeOK'
  <2>1. CASE RefreshDisabled(r)
    <3>1. [s \in Source |-> None] \in [Source -> Listing]
      BY NoneType
    <3> QED
      BY <2>1, <3>1, ReturnType, SetCacheType DEF RefreshDisabled, CensusTypeOK
  <2>2. CASE RefreshNoSource(r)
    <3>1. [s \in Source |-> None] \in [Source -> Listing]
      BY NoneType
    <3> QED
      BY <2>2, <3>1, ReturnType, SetCacheType DEF RefreshNoSource, CensusTypeOK
  <2>3. CASE RefreshBegin(r)
    <3>1. FlaggedSources(flags) \subseteq Source
      BY DEF FlaggedSources, Source
    <3> QED
      BY <2>3, <3>1 DEF RefreshBegin, CensusTypeOK
  <2>4. CASE RefreshCommit(r)
    BY <2>4, MergedType, ReturnType, SetCacheType DEF RefreshCommit, CensusTypeOK
  <2>5. CASE LoadUrl(r)
    <3>1. [got[r] EXCEPT ![Url] = src[Url]] \in [Source -> Listing]
      BY DEF CensusTypeOK, Source
    <3> QED
      BY <2>5, <3>1, LoadedType DEF LoadUrl
  <2>6. CASE LoadUrlFail(r)
    <3>1. got[r] \in [Source -> Listing] /\ {Url} \subseteq Source
      BY DEF CensusTypeOK, Source
    <3> QED
      BY <2>6, <3>1, LoadedType DEF LoadUrlFail
  <2>7. CASE LoadDirFail(r)
    <3>1. got[r] \in [Source -> Listing] /\ File \subseteq Source
      BY DEF CensusTypeOK, Source
    <3> QED
      BY <2>7, <3>1, LoadedType DEF LoadDirFail
  <2>8. ASSUME NEW f \in File, LoadFile(r, f) \/ SkipFile(r, f) PROVE CensusTypeOK'
    <3>1. [got[r] EXCEPT ![f] = src[f]] \in [Source -> Listing]
      BY DEF CensusTypeOK, Source
    <3>2. [got[r] EXCEPT ![f] = None] \in [Source -> Listing]
      BY NoneType DEF CensusTypeOK, Source
    <3> QED
      BY <2>8, <3>1, <3>2, LoadedType DEF LoadFile, SkipFile
  <2> QED
    BY <1>6, <2>1, <2>2, <2>3, <2>4, <2>5, <2>6, <2>7, <2>8 DEF RefreshStep
<1>7. ASSUME NEW c \in Client, Admit(c) \/ Refuse(c) \/ List(c) \/ Leave(c) PROVE CensusTypeOK'
  BY <1>7 DEF Admit, Refuse, List, Leave, Gone, Others, CensusTypeOK
<1>8. ASSUME NEW c \in Client, NEW i \in ID, SetConnectionID(c, i) PROVE CensusTypeOK'
  BY <1>8 DEF SetConnectionID, Others, CensusTypeOK
<1>9. CASE EnforcerStep
  <2>1. \A c \in Client : Compared(c) \in {"none", "good", "overtaken", "skipped"}
    BY DEF Compared, CensusTypeOK
  <2>2. ASSUME NEW c \in Client, EnforcerVisit(c) PROVE CensusTypeOK'
    BY <2>1, <2>2 DEF EnforcerVisit, CensusTypeOK
  <2>3. ASSUME NEW c \in Client, EnforcerClose(c) PROVE CensusTypeOK'
    BY <2>3 DEF EnforcerClose, CensusTypeOK
  <2>4. CASE EnforcerTick \/ EnforcerDone
    BY <2>4 DEF EnforcerTick, EnforcerDone, CensusTypeOK
  <2> QED
    BY <1>9, <2>2, <2>3, <2>4 DEF EnforcerStep
<1>10. CASE UNCHANGED censusVars
  BY <1>10 DEF censusVars, CensusTypeOK
<1>11. ASSUME NEW c \in Client, NEW on \in BOOLEAN, SetLocalForward(c, on) PROVE CensusTypeOK'
  BY <1>11 DEF SetLocalForward, Others, CensusTypeOK
<1> QED
  BY <1>1, <1>2, <1>3, <1>4, <1>5, <1>6, <1>7, <1>8, <1>9, <1>10, <1>11 DEF CensusNext

-----------------------------------------------------------------------------
(* Steps of connections, of the enforcer and of the configuration leave    *)
(* the refreshes alone.                                                    *)

Refreshing == <<src, cache, lock, pc, wanted, todo, failed, got, saved>>

(* The requests and the end of a connection.                               *)
LEMMA ClientStep ==
  ASSUME NEW c \in Client, Admit(c) \/ Refuse(c) \/ List(c) \/ Leave(c)
  PROVE  UNCHANGED <<Refreshing, flags, forced, everOff, server, refreshed, epc, toVisit, toClose>>
  BY DEF Admit, Refuse, List, Leave, Gone, Others, env, job, enforcer, Refreshing

(* The enforcer.                                                           *)
LEMMA EnforcerLeaves ==
  ASSUME EnforcerStep
  PROVE  UNCHANGED <<Refreshing, flags, forced, everOff, server, ident>>
  BY DEF EnforcerStep, EnforcerTick, EnforcerDone, EnforcerVisit, EnforcerClose, env, job,
         conn, enforcer, Refreshing

(* A reload of the configuration.                                          *)
LEMMA ReloadLeaves ==
  ASSUME NEW k, ReloadFlags(k)
  PROVE  UNCHANGED <<Refreshing, server, refreshed, conn, epc, toVisit, toClose, check>>
  BY DEF ReloadFlags, job, enforcer, Refreshing

(* The steps that do not belong to a refresh.                              *)
Quiet ==
  \/ \E k \in FlagSets : ReloadFlags(k)
  \/ \E c \in Client : Admit(c) \/ Refuse(c) \/ List(c) \/ Leave(c)
  \/ \E c \in Client, i \in ID : SetConnectionID(c, i)
  \/ \E c \in Client, on \in BOOLEAN : SetLocalForward(c, on)
  \/ EnforcerStep \/ UNCHANGED censusVars

(* None of them touches a refresh.                                         *)
LEMMA QuietLeaves == Quiet => UNCHANGED Refreshing
<1>1. ASSUME NEW c \in Client, NEW i \in ID, SetConnectionID(c, i) PROVE UNCHANGED Refreshing
  BY <1>1 DEF SetConnectionID, Others, job, Refreshing
<1>2. UNCHANGED censusVars => UNCHANGED Refreshing
  BY DEF censusVars, Refreshing
<1>3. ASSUME NEW c \in Client, NEW on, SetLocalForward(c, on) PROVE UNCHANGED Refreshing
  BY <1>3 DEF SetLocalForward, Others, job, Refreshing
<1> QED
  BY <1>1, <1>2, <1>3, ClientStep, EnforcerLeaves, ReloadLeaves DEF Quiet

(* Every step, by what it does to the refreshes.                           *)
Emptied(r) == RefreshDisabled(r) \/ RefreshNoSource(r)
Read1(r, s) ==
  \/ s = Url /\ LoadUrl(r)
  \/ s \in File /\ (LoadFile(r, s) \/ SkipFile(r, s))
ReadFails(r) == LoadUrlFail(r) \/ LoadDirFail(r)

(* The cases of all proofs about refreshes.                                *)
LEMMA Steps ==
  ASSUME [CensusNext]_censusVars
  PROVE  \/ Quiet
         \/ \E s \in Source, ids \in SUBSET ID : Edit(s, ids)
         \/ TickerFires \/ \E r \in Handler : HandleCensusRefresh(r)
         \/ \E r \in Handler, f \in File, ids \in SUBSET ID : HandleEditCensusFileWrite(r, f, ids)
         \/ \E r \in Refresher : Emptied(r) \/ RefreshBegin(r) \/ RefreshCommit(r) \/ ReadFails(r)
         \/ \E r \in Refresher, s \in Source : Read1(r, s)
  BY DEF CensusNext, RefreshStep, Quiet, Emptied, Read1, ReadFails, Source

(* Reading one source.                                                     *)
LEMMA ReadFacts ==
  ASSUME CensusTypeOK, NEW r \in Refresher, NEW s \in Source, Read1(r, s)
  PROVE  /\ pc[r] = "loading" /\ todo'[r] = todo[r] \ {s}
         /\ \A q \in Refresher : q # r => todo'[q] = todo[q] /\ got'[q] = got[q]
         /\ got'[r][s] = src[s] \/ (s \in Flaky /\ got'[r][s] = None)
         /\ \A t \in Source : t # s => got'[r][t] = got[r][t]
         /\ failed' = failed
         /\ UNCHANGED <<src, cache, lock, pc, wanted, saved, flags, forced, everOff, server, refreshed,
                        conn, epc, toVisit, toClose, check>>
<1> USE DEF Loaded, CensusTypeOK, env, enforcer
<1>1. src[s] \in Listing /\ got[r] \in [Source -> Listing]
  OBVIOUS
<1>2. CASE s = Url /\ LoadUrl(r)
  <2>1. Loaded(r, {s}, [got[r] EXCEPT ![s] = src[s]], {})
    BY <1>2 DEF LoadUrl
  <2> QED
    BY <1>1, <2>1
<1>3. CASE s \in File /\ LoadFile(r, s)
  <2>1. Loaded(r, {s}, [got[r] EXCEPT ![s] = src[s]], {})
    BY <1>3 DEF LoadFile
  <2> QED
    BY <1>1, <2>1
<1>4. CASE s \in File /\ SkipFile(r, s)
  <2>1. s \in Flaky
    BY <1>4 DEF SkipFile
  <2>2. Loaded(r, {s}, [got[r] EXCEPT ![s] = None], {})
    BY <1>4 DEF SkipFile
  <2> QED
    BY <1>1, <2>1, <2>2
<1> QED
  BY <1>2, <1>3, <1>4 DEF Read1

(* A source that cannot be loaded is not among those read.                 *)
LEMMA FailFacts ==
  ASSUME CensusTypeOK, NEW r \in Refresher, ReadFails(r)
  PROVE  /\ \A q \in Refresher : Read(q)' \subseteq Read(q)
         /\ UNCHANGED <<src, cache, lock, pc, wanted, got, saved, flags, forced, everOff, server,
                        refreshed, conn, epc, toVisit, toClose, check>>
<1>1. PICK ss : Loaded(r, ss, got[r], ss)
  BY DEF ReadFails, LoadUrlFail, LoadDirFail
<1> QED
  BY <1>1 DEF Loaded, CensusTypeOK, Read, env, enforcer

(* A refresh ends: nobody loads any more.                                  *)
LEMMA EndFacts ==
  ASSUME CensusTypeOK, Locked, NEW r \in Refresher, Emptied(r) \/ RefreshCommit(r)
  PROVE  /\ lock' = NoOne /\ \A q \in Refresher : pc'[q] # "loading"
         /\ pc' = [pc EXCEPT ![r] = "idle"]
         /\ saved' = [saved EXCEPT ![r] = NoSave]
         /\ Emptied(r) => cache' = [s \in Source |-> None]
         /\ RefreshCommit(r) => cache' = Merged(r) /\ pc[r] = "loading" /\ todo[r] = {}
         /\ refreshed' \in {"zero", "new"}
         /\ check' = [x \in Client |-> IF client[x] = "admitted" /\ check[x] = "good"
                                         THEN "overtaken" ELSE check[x]]
         /\ server' = IF server = "booting" THEN "on" ELSE server
         /\ epc' = IF server = "booting" /\ flags.enabled THEN "sleep" ELSE epc
         /\ UNCHANGED <<src, flags, forced, everOff, conn, toVisit, toClose>>
<1> USE CensusActorAssumption DEF env, enforcer, Return, SetCache
<1>1. Emptied(r) => lock = NoOne /\ pc[r] = "called" /\ lock' = NoOne
  BY DEF Emptied, RefreshDisabled, RefreshNoSource
<1>2. RefreshCommit(r) => lock = r /\ lock' = NoOne
  BY DEF RefreshCommit, Locked
<1>3. pc' = [pc EXCEPT ![r] = "idle"]
  BY DEF Emptied, RefreshDisabled, RefreshNoSource, RefreshCommit
<1>4. \A q \in Refresher : q # r => pc[q] # "loading"
  BY <1>1, <1>2 DEF Locked
<1>5. lock' = NoOne /\ \A q \in Refresher : pc'[q] # "loading"
  BY <1>1, <1>2, <1>3, <1>4 DEF CensusTypeOK
<1>6. Emptied(r) => /\ cache' = [s \in Source |-> None] /\ refreshed' \in {"zero", "new"}
                    /\ SetCache([s \in Source |-> None]) /\ Return(r)
                    /\ UNCHANGED <<src, flags, forced, everOff, conn, toVisit, toClose>>
  BY DEF Emptied, RefreshDisabled, RefreshNoSource
<1>7. RefreshCommit(r) =>
        /\ cache' = Merged(r) /\ refreshed' \in {"zero", "new"}
        /\ SetCache(Merged(r)) /\ Return(r) /\ pc[r] = "loading" /\ todo[r] = {}
        /\ UNCHANGED <<src, flags, forced, everOff, conn, toVisit, toClose>>
  BY DEF RefreshCommit
<1> QED
  BY <1>3, <1>5, <1>6, <1>7

-----------------------------------------------------------------------------
(* The refreshes.                                                          *)

(* Every step keeps Locked.                                                *)
LEMMA LockedStep ==
  ASSUME CensusTypeOK, Locked, [CensusNext]_censusVars
  PROVE  Locked'
<1> USE CensusActorAssumption
<1>1. CASE Quiet
  BY <1>1, QuietLeaves DEF Locked, Refreshing
<1>2. CASE \E s \in Source, ids \in SUBSET ID : Edit(s, ids)
  BY <1>2 DEF Edit, Locked
<1>3. CASE TickerFires \/ \E r \in Handler : HandleCensusRefresh(r)
  BY <1>3 DEF TickerFires, HandleCensusRefresh, Locked, CensusTypeOK, Refresher
<1>4. CASE \E r \in Handler, f \in File, ids \in SUBSET ID : HandleEditCensusFileWrite(r, f, ids)
  BY <1>4 DEF HandleEditCensusFileWrite, Locked, CensusTypeOK, Refresher
<1>5. ASSUME NEW r \in Refresher, Emptied(r) \/ RefreshCommit(r) PROVE Locked'
  BY <1>5, EndFacts DEF Locked
<1>6. ASSUME NEW r \in Refresher, RefreshBegin(r) PROVE Locked'
  BY <1>6 DEF RefreshBegin, Locked, CensusTypeOK
<1>7. ASSUME NEW r \in Refresher, ReadFails(r) PROVE Locked'
  BY <1>7, FailFacts DEF Locked
<1>8. ASSUME NEW r \in Refresher, NEW s \in Source, Read1(r, s) PROVE Locked'
  BY <1>8, ReadFacts DEF Locked
<1> QED
  BY <1>1, <1>2, <1>3, <1>4, <1>5, <1>6, <1>7, <1>8, Steps

(* Every step keeps Ordered.                                               *)
LEMMA OrderedStep ==
  ASSUME CensusTypeOK, Locked, Ordered, [CensusNext]_censusVars
  PROVE  Ordered'
<1> USE SourceAssumption
<1>0. /\ \A s \in Source : src[s].ver \in Nat /\ cache[s].ver \in Nat
      /\ \A r \in Refresher, s \in Source : got[r][s].ver \in Nat
      /\ None.ver = 0
  BY DEF CensusTypeOK, Listing, None
<1>1. CASE Quiet
  BY <1>1, QuietLeaves DEF Ordered, Read, Refreshing
<1>2. ASSUME NEW s \in Source, NEW ids, src' = [src EXCEPT ![s] = [ver |-> @.ver + 1, ids |-> ids]],
             UNCHANGED <<cache, wanted, todo, failed, got>>,
             \A r \in Refresher : pc'[r] = "loading" => pc[r] = "loading"
      PROVE  Ordered'
  <2>1. \A t \in Source : src'[t].ver \in Nat /\ src[t].ver <= src'[t].ver
    BY <1>0, <1>2 DEF CensusTypeOK
  <2>2. \A r \in Refresher : Read(r)' = Read(r) /\ Read(r) \subseteq Source
    BY <1>2 DEF Read, CensusTypeOK
  <2> QED
    BY <1>0, <1>2, <2>1, <2>2 DEF Ordered
<1>3. CASE \E s \in Source, ids \in SUBSET ID : Edit(s, ids)
  <2>1. PICK s \in Source, ids \in SUBSET ID : Edit(s, ids)
    BY <1>3
  <2>2. src' = [src EXCEPT ![s] = [ver |-> @.ver + 1, ids |-> ids]]
    BY <2>1 DEF Edit
  <2>3. UNCHANGED <<cache, wanted, todo, failed, got, pc>>
    BY <2>1 DEF Edit, job
  <2> QED
    BY <1>2, <2>2, <2>3
<1>4. CASE TickerFires \/ \E r \in Handler : HandleCensusRefresh(r)
  <2>1. UNCHANGED <<src, cache, wanted, todo, failed, got>>
    BY <1>4 DEF TickerFires, HandleCensusRefresh, job
  <2>2. \A r \in Refresher : pc'[r] = "loading" => pc[r] = "loading"
    BY <1>4 DEF TickerFires, HandleCensusRefresh, CensusTypeOK, Refresher
  <2> QED
    BY <2>1, <2>2 DEF Ordered, Read
<1>5. CASE \E r \in Handler, f \in File, ids \in SUBSET ID : HandleEditCensusFileWrite(r, f, ids)
  <2>1. PICK r \in Handler, f \in File, ids \in SUBSET ID : HandleEditCensusFileWrite(r, f, ids)
    BY <1>5
  <2>2. f \in Source /\ \A q \in Refresher : pc'[q] = "loading" => pc[q] = "loading"
    BY <2>1 DEF HandleEditCensusFileWrite, CensusTypeOK, Refresher, Source
  <2> QED
    BY <1>2, <2>1, <2>2 DEF HandleEditCensusFileWrite
<1>6. ASSUME NEW r \in Refresher, Emptied(r) \/ RefreshCommit(r) PROVE Ordered'
  <2>1. ASSUME RefreshCommit(r), NEW s \in Source PROVE cache'[s].ver <= src[s].ver
    <3>1. cache'[s] = Merged(r)[s] /\ pc[r] = "loading" /\ todo[r] = {}
      BY <2>1, EndFacts
    <3>2. Merged(r)[s] \in {None, cache[s]} \/ (s \in Read(r) /\ Merged(r)[s] = got[r][s])
      BY <3>1 DEF Merged, Read
    <3>3. None.ver = 0
      BY DEF None
    <3> QED
      BY <1>0, <3>1, <3>2, <3>3 DEF Ordered
  <2>2. \A s \in Source : Emptied(r) => cache'[s].ver <= src[s].ver
    BY <1>0, <1>6, EndFacts DEF None
  <2> QED
    BY <1>6, <2>1, <2>2, EndFacts DEF Ordered
<1>7. ASSUME NEW r \in Refresher, RefreshBegin(r) PROVE Ordered'
  <2>1. Read(r)' = {} /\ \A q \in Refresher : q # r => Read(q)' = Read(q) /\ pc'[q] = pc[q]
    BY <1>7 DEF RefreshBegin, Read, CensusTypeOK
  <2>2. UNCHANGED <<src, cache, got>>
    BY <1>7 DEF RefreshBegin
  <2> QED
    BY <2>1, <2>2 DEF Ordered
<1>8. ASSUME NEW r \in Refresher, ReadFails(r) PROVE Ordered'
  BY <1>8, FailFacts DEF Ordered
<1>9. ASSUME NEW r \in Refresher, NEW s \in Source, Read1(r, s) PROVE Ordered'
  <2>1. \A q \in Refresher : Read(q)' \subseteq Read(q) \cup {s} /\ (q # r => Read(q)' = Read(q))
    BY <1>9, ReadFacts DEF Read, CensusTypeOK
  <2>2. \A q \in Refresher : Read(q) \subseteq Source
    BY DEF Read, CensusTypeOK
  <2> QED
    BY <1>0, <1>9, <2>1, <2>2, ReadFacts DEF Ordered
<1> QED
  BY <1>1, <1>3, <1>4, <1>5, <1>6, <1>7, <1>8, <1>9, Steps

(* A later version of a source still shows what was saved.                 *)
LEMMA ShowsLater ==
  ASSUME NEW l \in Listing, NEW d \in Listing, NEW m \in Listing, Shows(l, d), m.ver > l.ver
  PROVE  Shows(m, d)
  BY DEF Shows, Listing

(* Every step keeps Written.                                               *)
LEMMA WrittenStep ==
  ASSUME CensusTypeOK, CensusTypeOK', Locked, Written, [CensusNext]_censusVars
  PROVE  Written'
<1> USE SourceAssumption
<1>0. /\ \A s \in Source : src[s] \in Listing /\ src[s].ver \in Nat /\ src'[s] \in Listing
      /\ \A r \in Refresher : saved[r].file \in Source /\ saved[r].data \in Listing
  BY DEF CensusTypeOK, Listing, Save
<1>1. CASE Quiet
  BY <1>1, QuietLeaves DEF Written, Read, Refreshing
<1>2. CASE \E s \in Source, ids \in SUBSET ID : Edit(s, ids)
  <2>1. PICK s \in Source, ids \in SUBSET ID : Edit(s, ids)
    BY <1>2
  <2>2. \A t \in Source : src'[t] = src[t] \/ src'[t].ver > src[t].ver
    BY <1>0, <2>1 DEF Edit, CensusTypeOK
  <2>3. UNCHANGED <<saved, pc, wanted, todo, failed, got>>
    BY <2>1 DEF Edit, job
  <2>4. \A r \in Refresher : saved[r] # NoSave => Shows(src'[saved[r].file], saved[r].data)
    BY <1>0, <2>2, ShowsLater DEF Written
  <2> QED
    BY <2>3, <2>4 DEF Written, Read
<1>3. CASE TickerFires \/ \E r \in Handler : HandleCensusRefresh(r)
  <2>1. UNCHANGED <<src, wanted, todo, failed, got, saved>>
    BY <1>3 DEF TickerFires, HandleCensusRefresh, job
  <2>2. \A r \in Refresher : pc'[r] = "loading" => pc[r] = "loading"
    BY <1>3 DEF TickerFires, HandleCensusRefresh, CensusTypeOK, Refresher
  <2> QED
    BY <2>1, <2>2 DEF Written, Read
<1>4. CASE \E r \in Handler, f \in File, ids \in SUBSET ID : HandleEditCensusFileWrite(r, f, ids)
  <2>1. PICK r \in Handler, f \in File, ids \in SUBSET ID : HandleEditCensusFileWrite(r, f, ids)
    BY <1>4
  <2>2. r \in Refresher /\ f \in Source
    BY DEF Refresher, Source
  <2>3. \A t \in Source : src'[t] = src[t] \/ src'[t].ver > src[t].ver
    BY <1>0, <2>1, <2>2 DEF HandleEditCensusFileWrite, CensusTypeOK
  <2>4. saved'[r] = [file |-> f, data |-> src'[f]]
        /\ \A q \in Refresher : q # r => saved'[q] = saved[q] /\ pc'[q] = pc[q]
    BY <2>1, <2>2 DEF HandleEditCensusFileWrite, CensusTypeOK
  <2>5. pc'[r] # "loading"
    BY <2>1, <2>2 DEF HandleEditCensusFileWrite, CensusTypeOK
  <2>6. UNCHANGED <<wanted, todo, failed, got>>
    BY <2>1 DEF HandleEditCensusFileWrite
  <2>7. Shows(src'[f], src'[f])
    BY DEF Shows
  <2>8. \A q \in Refresher : saved'[q] # NoSave => Shows(src'[saved'[q].file], saved'[q].data)
    BY <1>0, <2>2, <2>3, <2>4, <2>7, ShowsLater DEF Written
  <2> QED
    BY <2>4, <2>5, <2>6, <2>8 DEF Written, Read
<1>5. ASSUME NEW r \in Refresher, Emptied(r) \/ RefreshCommit(r) PROVE Written'
  <2>1. saved'[r] = NoSave /\ \A q \in Refresher : q # r => saved'[q] = saved[q]
    BY <1>5, EndFacts DEF CensusTypeOK
  <2>2. src' = src /\ \A q \in Refresher : pc'[q] # "loading"
    BY <1>5, EndFacts
  <2> QED
    BY <2>1, <2>2 DEF Written
<1>6. ASSUME NEW r \in Refresher, RefreshBegin(r) PROVE Written'
  <2>1. Read(r)' = {} /\ \A q \in Refresher : q # r => Read(q)' = Read(q) /\ pc'[q] = pc[q]
    BY <1>6 DEF RefreshBegin, Read, CensusTypeOK
  <2>2. UNCHANGED <<src, saved, got>>
    BY <1>6 DEF RefreshBegin
  <2> QED
    BY <2>1, <2>2 DEF Written
<1>7. ASSUME NEW r \in Refresher, ReadFails(r) PROVE Written'
  BY <1>7, FailFacts DEF Written
<1>8. ASSUME NEW r \in Refresher, NEW s \in Source, Read1(r, s) PROVE Written'
  <2>1. \A q \in Refresher : Read(q)' \subseteq Read(q) \cup {s} /\ (q # r => Read(q)' = Read(q))
    BY <1>8, ReadFacts DEF Read, CensusTypeOK
  <2>2. UNCHANGED <<src, saved, pc>>
    BY <1>8, ReadFacts
  <2>3. \A q \in Refresher, t \in Source : <<q, t>> # <<r, s>> => got'[q][t] = got[q][t]
    BY <1>8, ReadFacts
  <2>4. got'[r][s] = src[s] \/ (s \in Flaky /\ got'[r][s] = None)
    BY <1>8, ReadFacts
  <2> QED
    BY <1>0, <2>1, <2>2, <2>3, <2>4 DEF Written
<1> QED
  BY <1>1, <1>2, <1>3, <1>4, <1>5, <1>6, <1>7, <1>8, Steps

(* Every step keeps Faithful.                                              *)
LEMMA FaithfulStep ==
  ASSUME CensusTypeOK, Locked, Faithful, [CensusNext]_censusVars
  PROVE  Faithful'
<1> USE SourceAssumption
<1>0. \A r \in Refresher : Read(r) \subseteq Source
  BY DEF Read, CensusTypeOK
<1>1. CASE Quiet
  BY <1>1, QuietLeaves DEF Faithful, Read, Refreshing, Contents
<1>2. CASE \E s \in Source, ids \in SUBSET ID : Edit(s, ids)
  <2>1. PICK s \in Source, ids \in SUBSET ID : Edit(s, ids)
    BY <1>2
  <2>2. \A t \in Source : Contents(t, src'[t].ids)
    BY <2>1 DEF Edit, CensusTypeOK, Faithful
  <2>3. UNCHANGED <<cache, pc, wanted, todo, failed, got>>
    BY <2>1 DEF Edit, job
  <2> QED
    BY <2>2, <2>3 DEF Faithful, Read, Contents
<1>3. CASE TickerFires \/ \E r \in Handler : HandleCensusRefresh(r)
  <2>1. UNCHANGED <<src, cache, wanted, todo, failed, got>>
    BY <1>3 DEF TickerFires, HandleCensusRefresh, job
  <2>2. \A r \in Refresher : pc'[r] = "loading" => pc[r] = "loading"
    BY <1>3 DEF TickerFires, HandleCensusRefresh, CensusTypeOK, Refresher
  <2> QED
    BY <2>1, <2>2 DEF Faithful, Read, Contents
<1>4. CASE \E r \in Handler, f \in File, ids \in SUBSET ID : HandleEditCensusFileWrite(r, f, ids)
  <2>1. PICK r \in Handler, f \in File, ids \in SUBSET ID : HandleEditCensusFileWrite(r, f, ids)
    BY <1>4
  <2>2. \A t \in Source : Contents(t, src'[t].ids)
    BY <2>1 DEF HandleEditCensusFileWrite, CensusTypeOK, Faithful
  <2>3. UNCHANGED <<cache, wanted, todo, failed, got>>
    BY <2>1 DEF HandleEditCensusFileWrite
  <2>4. \A q \in Refresher : pc'[q] = "loading" => pc[q] = "loading"
    BY <2>1 DEF HandleEditCensusFileWrite, CensusTypeOK, Refresher
  <2> QED
    BY <2>2, <2>3, <2>4 DEF Faithful, Read, Contents
<1>5. ASSUME NEW r \in Refresher, Emptied(r) \/ RefreshCommit(r) PROVE Faithful'
  <2>1. RefreshCommit(r) => \A s \in Source : cache'[s].ids \subseteq May[s]
    BY <1>5, EndFacts DEF Merged, None, Faithful, Read
  <2>2. Emptied(r) => \A s \in Source : cache'[s].ids \subseteq May[s]
    BY <1>5, EndFacts DEF None
  <2> QED
    BY <1>5, <2>1, <2>2, EndFacts DEF Faithful, Contents
<1>6. ASSUME NEW r \in Refresher, RefreshBegin(r) PROVE Faithful'
  <2>1. Read(r)' = {} /\ \A q \in Refresher : q # r => Read(q)' = Read(q) /\ pc'[q] = pc[q]
    BY <1>6 DEF RefreshBegin, Read, CensusTypeOK
  <2>2. UNCHANGED <<src, cache, got>>
    BY <1>6 DEF RefreshBegin
  <2> QED
    BY <2>1, <2>2 DEF Faithful, Contents
<1>7. ASSUME NEW r \in Refresher, ReadFails(r) PROVE Faithful'
  BY <1>7, FailFacts DEF Faithful, Contents
<1>8. ASSUME NEW r \in Refresher, NEW s \in Source, Read1(r, s) PROVE Faithful'
  <2>1. \A q \in Refresher : Read(q)' \subseteq Read(q) \cup {s} /\ (q # r => Read(q)' = Read(q))
    BY <1>8, ReadFacts DEF Read, CensusTypeOK
  <2>2. got'[r][s].ids \subseteq May[s] /\ (s \notin Flaky => Kept[s] \subseteq got'[r][s].ids)
    BY <1>8, ReadFacts DEF Faithful, Contents, None
  <2> QED
    BY <1>0, <1>8, <2>1, <2>2, ReadFacts DEF Faithful, Contents
<1> QED
  BY <1>1, <1>2, <1>3, <1>4, <1>5, <1>6, <1>7, <1>8, Steps

(* Every step keeps Switched.                                              *)
LEMMA SwitchedStep ==
  ASSUME CensusTypeOK, Locked, Switched, [CensusNext]_censusVars
  PROVE  Switched'
<1>1. CASE \E k \in FlagSets : ReloadFlags(k)
  <2>1. PICK k \in FlagSets : ReloadFlags(k)
    BY <1>1
  <2>2. UNCHANGED <<pc, wanted>>
    BY <2>1, ReloadLeaves DEF Refreshing
  <2>3. everOff \subseteq everOff' /\ Source \ EnabledSources(flags') \subseteq everOff'
    BY <2>1 DEF ReloadFlags
  <2> QED
    BY <2>2, <2>3 DEF Switched, EnabledSources, FlaggedSources
<1>2. CASE Quiet /\ ~ \E k \in FlagSets : ReloadFlags(k)
  <2>1. UNCHANGED Refreshing
    BY <1>2, QuietLeaves
  <2>2. UNCHANGED <<flags, everOff>>
    <3>1. ASSUME NEW c \in Client, NEW i \in ID, SetConnectionID(c, i)
          PROVE  UNCHANGED <<flags, everOff>>
      BY <3>1 DEF SetConnectionID, Others, env
    <3>2. UNCHANGED censusVars => UNCHANGED <<flags, everOff>>
      BY DEF censusVars
    <3>3. ASSUME NEW c \in Client, NEW on, SetLocalForward(c, on) PROVE UNCHANGED <<flags, everOff>>
      BY <3>3 DEF SetLocalForward, Others, env
    <3> QED
      BY <1>2, <3>1, <3>2, <3>3, ClientStep, EnforcerLeaves DEF Quiet
  <2> QED
    BY <2>1, <2>2 DEF Switched, Refreshing, EnabledSources, FlaggedSources
<1>3. CASE \/ \E s \in Source, ids \in SUBSET ID : Edit(s, ids)
           \/ TickerFires \/ \E r \in Handler : HandleCensusRefresh(r)
           \/ \E r \in Handler, f \in File, ids \in SUBSET ID : HandleEditCensusFileWrite(r, f, ids)
  <2>1. UNCHANGED <<flags, everOff, wanted>>
    BY <1>3 DEF Edit, TickerFires, HandleCensusRefresh, HandleEditCensusFileWrite, env, job
  <2>2. \A r \in Refresher : pc'[r] = "loading" => pc[r] = "loading"
    BY <1>3 DEF Edit, TickerFires, HandleCensusRefresh, HandleEditCensusFileWrite, CensusTypeOK, Refresher
  <2> QED
    BY <2>1, <2>2 DEF Switched, EnabledSources, FlaggedSources
<1>4. ASSUME NEW r \in Refresher, Emptied(r) \/ RefreshCommit(r) PROVE Switched'
  BY <1>4, EndFacts DEF Switched, EnabledSources, FlaggedSources
<1>5. ASSUME NEW r \in Refresher, RefreshBegin(r) PROVE Switched'
  <2>1. wanted'[r] = EnabledSources(flags)
        /\ \A q \in Refresher : q # r => wanted'[q] = wanted[q] /\ pc'[q] = pc[q]
    BY <1>5 DEF RefreshBegin, EnabledSources, CensusTypeOK
  <2>2. UNCHANGED <<flags, everOff>>
    BY <1>5 DEF RefreshBegin, env
  <2> QED
    BY <2>1, <2>2 DEF Switched, EnabledSources, FlaggedSources
<1>6. ASSUME NEW r \in Refresher, ReadFails(r) PROVE Switched'
  BY <1>6, FailFacts DEF Switched, EnabledSources, FlaggedSources
<1>7. ASSUME NEW r \in Refresher, NEW s \in Source, Read1(r, s) PROVE Switched'
  BY <1>7, ReadFacts DEF Switched, EnabledSources, FlaggedSources
<1> QED
  BY <1>1, <1>2, <1>3, <1>4, <1>5, <1>6, <1>7, Steps

-----------------------------------------------------------------------------
(* The enforcer and the connections.                                       *)

(* What the enforcer sees and does.                                        *)
Enforcing == <<cache, refreshed, client, ident, check, epc, toVisit, toClose, server>>

(* Every step, by what it does to them.                                    *)
LEMMA EnforcingSteps ==
  ASSUME CensusTypeOK, [CensusNext]_censusVars
  PROVE  \/ UNCHANGED Enforcing /\ everOff \subseteq everOff'
         \/ \E c \in Client : Admit(c) \/ List(c) \/ Gone(c)
         \/ \E c \in Client, i \in ID : SetConnectionID(c, i)
         \/ \E r \in Refresher : Emptied(r) \/ RefreshCommit(r)
         \/ EnforcerTick \/ EnforcerDone
         \/ \E c \in Client : EnforcerVisit(c) \/ EnforcerClose(c)
<1> USE DEF Enforcing
<1>1. CASE Quiet
  <2>1. ASSUME NEW k \in FlagSets, ReloadFlags(k)
        PROVE  UNCHANGED Enforcing /\ everOff \subseteq everOff'
    BY <2>1, ReloadLeaves DEF ReloadFlags, Refreshing, conn
  <2>2. UNCHANGED censusVars => UNCHANGED Enforcing /\ UNCHANGED everOff
    BY DEF censusVars
  <2>3. ASSUME NEW c \in Client, NEW on, SetLocalForward(c, on)
        PROVE  UNCHANGED Enforcing /\ UNCHANGED everOff
    BY <2>3 DEF SetLocalForward, Others, env, enforcer
  <2> QED
    BY <1>1, <2>1, <2>2, <2>3 DEF Quiet, Refuse, Leave, EnforcerStep
<1>2. CASE \/ \E s \in Source, ids \in SUBSET ID : Edit(s, ids)
           \/ TickerFires \/ \E r \in Handler : HandleCensusRefresh(r)
           \/ \E r \in Handler, f \in File, ids \in SUBSET ID : HandleEditCensusFileWrite(r, f, ids)
           \/ \E r \in Refresher : RefreshBegin(r)
  BY <1>2 DEF Edit, TickerFires, HandleCensusRefresh, HandleEditCensusFileWrite, RefreshBegin,
              env, conn, enforcer
<1>3. ASSUME NEW r \in Refresher, ReadFails(r) PROVE UNCHANGED Enforcing /\ UNCHANGED everOff
  BY <1>3, FailFacts DEF conn
<1>4. ASSUME NEW r \in Refresher, NEW s \in Source, Read1(r, s)
      PROVE  UNCHANGED Enforcing /\ UNCHANGED everOff
  BY <1>4, ReadFacts DEF conn
<1> QED
  BY <1>1, <1>2, <1>3, <1>4, Steps

(* What the steps of a connection change.                                  *)
LEMMA OwnStep ==
  ASSUME CensusTypeOK, NEW c \in Client, NEW i,
         Admit(c) \/ List(c) \/ Gone(c) \/ SetConnectionID(c, i)
  PROVE  /\ \A x \in Client : x # c =>
              client'[x] = client[x] /\ ident'[x] = ident[x] /\ check'[x] = check[x]
         /\ UNCHANGED <<cache, refreshed, epc, toVisit, toClose, server, everOff>>
         /\ client[c] \in {"idle", "admitted", "listed"}
         /\ Admit(c) => /\ client[c] = "idle" /\ client'[c] = "admitted" /\ ident' = ident
                        /\ check'[c] = "none" \/ IsIDCensed(ident[c])
         /\ List(c) => client[c] = "admitted" /\ client'[c] = "listed" /\ UNCHANGED <<ident, check>>
         /\ Gone(c) => client'[c] = "closed" /\ check'[c] = "none"
         /\ SetConnectionID(c, i) => client' = client /\ check'[c] = "none"
<1> USE DEF Others, env, job, enforcer, Connected, CensusTypeOK
<1>1. CASE Admit(c)
  BY <1>1 DEF Admit, Gone, List, SetConnectionID, Passes
<1>2. CASE List(c)
  BY <1>2 DEF Admit, Gone, List, SetConnectionID
<1>3. CASE Gone(c)
  BY <1>3 DEF Admit, Gone, List, SetConnectionID
<1>4. CASE SetConnectionID(c, i)
  BY <1>4 DEF Admit, Gone, List, SetConnectionID
<1> QED
  BY <1>1, <1>2, <1>3, <1>4

(* Every step keeps Passing.                                               *)
LEMMA PassingStep ==
  ASSUME CensusTypeOK, Locked, Passing, [CensusNext]_censusVars
  PROVE  Passing'
<1>1. CASE UNCHANGED Enforcing
  BY <1>1 DEF Enforcing, Passing
<1>2. ASSUME NEW c \in Client, NEW i,
             Admit(c) \/ List(c) \/ Gone(c) \/ SetConnectionID(c, i)
      PROVE  Passing'
  <2>1. toClose \subseteq Client
    BY DEF CensusTypeOK
  <2> QED
    BY <1>2, <2>1, OwnStep DEF Passing
<1>3. ASSUME NEW r \in Refresher, Emptied(r) \/ RefreshCommit(r) PROVE Passing'
  BY <1>3, EndFacts DEF Passing, conn
<1>4. CASE EnforcerTick
  BY <1>4 DEF EnforcerTick, Passing, conn
<1>5. CASE EnforcerDone
  BY <1>5 DEF EnforcerDone, Passing, conn, enforcer
<1>6. ASSUME NEW c \in Client, EnforcerVisit(c) PROVE Passing'
  BY <1>6 DEF EnforcerVisit, Passing, Offends, ListenerCount, conn
<1>7. ASSUME NEW c \in Client, EnforcerClose(c) PROVE Passing'
  BY <1>7 DEF EnforcerClose, Passing, CensusTypeOK
<1> QED
  BY <1>1, <1>2, <1>3, <1>4, <1>5, <1>6, <1>7, EnforcingSteps

(* Every step keeps Pending.                                               *)
LEMMA PendingStep ==
  ASSUME CensusTypeOK, Locked, Passing, Pending, [CensusNext]_censusVars
  PROVE  Pending'
<1> USE DEF HasID, IsIDCensed, Uncensed
<1>1. CASE UNCHANGED Enforcing
  BY <1>1 DEF Enforcing, Pending
<1>2. ASSUME NEW c \in Client, NEW i,
             Admit(c) \/ List(c) \/ Gone(c) \/ SetConnectionID(c, i)
      PROVE  Pending'
  <2>1. \A x \in Client \ {c} :
          /\ client'[x] = "admitted" /\ check'[x] = "good" => IsIDCensed(ident[x])'
          /\ refreshed' = "seen" /\ Uncensed(x)' => check'[x] # "good" \/ x \in (toVisit \cup toClose)'
    BY <1>2, OwnStep DEF Pending
  <2>2. /\ client'[c] = "admitted" /\ check'[c] = "good" => IsIDCensed(ident[c])'
        /\ Uncensed(c)' => check'[c] # "good"
    BY <1>2, OwnStep DEF Pending
  <2> QED
    BY <2>1, <2>2 DEF Pending
<1>3. ASSUME NEW r \in Refresher, Emptied(r) \/ RefreshCommit(r) PROVE Pending'
  BY <1>3, EndFacts DEF Pending, conn
<1>4. CASE EnforcerTick
  BY <1>4 DEF EnforcerTick, Pending, conn
<1>5. CASE EnforcerDone
  BY <1>5 DEF EnforcerDone, Pending, conn, enforcer
<1>6. ASSUME NEW c \in Client, EnforcerVisit(c) PROVE Pending'
  BY <1>6 DEF EnforcerVisit, Pending, CensusTypeOK, Compared, Offends, ListenerCount, conn
<1>7. ASSUME NEW c \in Client, EnforcerClose(c) PROVE Pending'
  BY <1>7 DEF EnforcerClose, Pending, CensusTypeOK
<1> QED
  BY <1>1, <1>2, <1>3, <1>4, <1>5, <1>6, <1>7, EnforcingSteps

(* A refresh keeps an ID that is named for good by sources never off.      *)
LEMMA PermanentKept ==
  ASSUME CensusTypeOK, Locked, Faithful, Switched,
         NEW r \in Refresher, Emptied(r) \/ RefreshCommit(r),
         NEW i, Permanent(i), \A s \in everOff : i \notin Kept[s], IsIDCensed(i)
  PROVE  IsIDCensed(i)'
<1>1. ~Emptied(r)
  <2>1. PICK s \in Source : i \in Kept[s]
    BY DEF Permanent
  <2>2. s \in EnabledSources(flags)
    BY <2>1 DEF Switched
  <2> QED
    BY <2>2 DEF Emptied, RefreshDisabled, RefreshNoSource, EnabledSources, FlaggedSources
<1>2. cache' = Merged(r) /\ pc[r] = "loading" /\ todo[r] = {}
  BY <1>1, EndFacts
<1>3. PICK s \in Source : i \in cache[s].ids
  BY DEF IsIDCensed
<1>4. i \in Kept[s] /\ s \notin Flaky
  BY <1>3 DEF Permanent, Faithful
<1>5. s \in wanted[r]
  BY <1>2, <1>4 DEF Switched
<1>6. s \in failed[r] => i \in Merged(r)[s].ids
  BY <1>3, <1>5 DEF Merged
<1>7. s \notin failed[r] => i \in Merged(r)[s].ids
  BY <1>2, <1>4, <1>5 DEF Merged, Faithful, Read
<1> QED
  BY <1>2, <1>6, <1>7 DEF IsIDCensed

(* Every step keeps Spared.                                                *)
LEMMA SparedStep ==
  ASSUME CensusTypeOK, Locked, Faithful, Switched, Passing, Spared, [CensusNext]_censusVars
  PROVE  Spared'
<1> USE DEF HasID, IsIDCensed, Safe
<1>1. CASE UNCHANGED Enforcing /\ everOff \subseteq everOff'
  BY <1>1 DEF Enforcing, Spared
<1>2. ASSUME NEW c \in Client, NEW i,
             Admit(c) \/ List(c) \/ Gone(c) \/ SetConnectionID(c, i)
      PROVE  Spared'
  <2>1. ASSUME NEW x \in Client, x # c, Safe(x)'
        PROVE  /\ client'[x] # "cut"
               /\ client'[x] \in {"admitted", "listed"} => IsIDCensed(ident[x])' /\ x \notin toClose'
    BY <1>2, <2>1, OwnStep DEF Spared
  <2>2. ASSUME Safe(c)'
        PROVE  /\ client'[c] # "cut"
               /\ client'[c] \in {"admitted", "listed"} => IsIDCensed(ident[c])' /\ c \notin toClose'
    <3>1. CASE Admit(c)
      BY <2>2, <3>1, OwnStep DEF Passing
    <3>2. CASE List(c)
      BY <2>2, <3>2, OwnStep DEF Spared
    <3>3. CASE Gone(c) \/ SetConnectionID(c, i)
      BY <2>2, <3>3, OwnStep
    <3> QED
      BY <1>2, <3>1, <3>2, <3>3
  <2> QED
    BY <2>1, <2>2 DEF Spared
<1>3. ASSUME NEW r \in Refresher, Emptied(r) \/ RefreshCommit(r) PROVE Spared'
  <2>1. UNCHANGED <<client, ident, toClose, everOff>>
    BY <1>3, EndFacts DEF conn
  <2>2. \A x \in Client : check'[x] # "none" => check[x] # "none"
    BY <1>3, EndFacts
  <2>3. \A x \in Client : Safe(x)' => Safe(x)
    BY <2>1, <2>2 DEF Permanent
  <2>4. \A x \in Client : Safe(x) /\ IsIDCensed(ident[x]) => IsIDCensed(ident[x])'
    <3> SUFFICES ASSUME NEW x \in Client, Safe(x), IsIDCensed(ident[x]) PROVE IsIDCensed(ident[x])'
      OBVIOUS
    <3>1. (\E s \in Source : ident[x] \in cache[s].ids)'
      BY <1>3, <2>1, PermanentKept
    <3> QED
      BY <3>1
  <2> QED
    BY <2>1, <2>3, <2>4 DEF Spared
<1>4. CASE EnforcerTick
  BY <1>4 DEF EnforcerTick, Spared, env, conn
<1>5. CASE EnforcerDone
  BY <1>5 DEF EnforcerDone, Spared, env, conn, enforcer
<1>6. ASSUME NEW c \in Client, EnforcerVisit(c) PROVE Spared'
  BY <1>6 DEF EnforcerVisit, Spared, Passing, Offends, ListenerCount, Compared, Uncensed, CensusTypeOK, env,
              conn
<1>7. ASSUME NEW c \in Client, EnforcerClose(c) PROVE Spared'
  BY <1>7 DEF EnforcerClose, Spared, Passing, CensusTypeOK, env
<1> QED
  BY <1>1, <1>2, <1>3, <1>4, <1>5, <1>6, <1>7, EnforcingSteps

-----------------------------------------------------------------------------
(* The theorems.                                                           *)

(* The invariant holds at start-up.                                        *)
LEMMA CInvInit == CensusInit => CInv
<1> SUFFICES ASSUME CensusInit PROVE CInv
  OBVIOUS
<1> USE SourceAssumption, CensusActorAssumption
<1>1. CensusTypeOK
  BY TypeInit
<1>2. \A s \in Source : src[s].ver = 1 /\ Contents(s, src[s].ids)
  BY DEF CensusInit
<1>3. /\ \A s \in Source : cache[s].ver = 0 /\ cache[s].ids = {}
      /\ \A r \in Refresher : pc[r] # "loading" /\ saved[r] = NoSave
      /\ lock = NoOne /\ Url \in Source
  BY DEF CensusInit, None, Source
<1>4. Locked /\ Ordered /\ Written /\ Faithful
  BY <1>2, <1>3 DEF Locked, Ordered, Written, Faithful, Contents
<1>5. Switched
  BY <1>3 DEF CensusInit, Switched
<1>6. Passing
  BY DEF CensusInit, Passing
<1>7. Pending /\ Spared
  BY DEF CensusInit, Pending, Spared
<1> QED
  BY <1>1, <1>4, <1>5, <1>6, <1>7 DEF CInv

(* Every step keeps the invariant.                                         *)
LEMMA CInvStep == CInv /\ [CensusNext]_censusVars => CInv'
  BY TypeStep, LockedStep, OrderedStep, WrittenStep, FaithfulStep, SwitchedStep, PassingStep,
     PendingStep, SparedStep DEF CInv

(* The invariant that relates refreshes, sources, enforcer and connections *)
(* holds throughout.                                                       *)
THEOREM CensusInductive == CensusSpec => []CInv
<1>1. CensusInit => CInv
  BY CInvInit
<1>2. CInv /\ [CensusNext]_censusVars => CInv'
  BY CInvStep
<1> QED
  BY <1>1, <1>2, PTL DEF CensusSpec

(* The enforcer never closes a connection, admitted with an ID its sources *)
(* have never ceased to name, because a load failed (B35).                 *)
THEOREM CensedNotCutSafe == CensusSpec => []CensedNotCut
<1>1. CInv => CensedNotCut
  BY DEF CInv, Spared, Safe, CensedNotCut
<1> QED
  BY <1>1, CensusInductive, PTL

(* After a pass of the enforcer a connection can be there without being    *)
(* censed only if no check compared its ID with the cache, or the enforcer *)
(* passed over it because of local-forward=true.                           *)
THEOREM UncensedOnlyIfOvertakenSafe == CensusSpec => []UncensedOnlyIfOvertaken
<1>1. CInv => UncensedOnlyIfOvertaken
  BY DEF CInv, Pending, Passing, UncensedOnlyIfOvertaken
<1> QED
  BY <1>1, CensusInductive, PTL

(* No refresh overwrites newer data with older, whatever overlaps (B36).   *)
THEOREM NoOlderDataSafe == CensusSpec => NoOlderData
<1> DEFINE Newer == \A s \in Source : cache'[s].ver = 0 \/ cache'[s].ver >= cache[s].ver
<1>1. ASSUME CInv, [CensusNext]_censusVars PROVE [Newer]_censusVars
  <2> USE <1>1 DEF CInv
  <2>0. \A s \in Source : cache[s].ver \in Nat
    BY DEF CensusTypeOK, Listing
  <2>1. CASE cache' = cache
    BY <2>0, <2>1
  <2>2. ASSUME NEW r \in Refresher, Emptied(r) \/ RefreshCommit(r) PROVE Newer
    <3> SUFFICES ASSUME NEW s \in Source PROVE cache'[s].ver = 0 \/ cache'[s].ver >= cache[s].ver
      OBVIOUS
    <3>1. CASE Emptied(r)
      BY <3>1, EndFacts DEF None
    <3>2. CASE RefreshCommit(r)
      <4>1. cache'[s] = Merged(r)[s] /\ pc[r] = "loading" /\ todo[r] = {}
        BY <3>2, EndFacts
      <4>2. Merged(r)[s] \in {None, cache[s]} \/ (s \in Read(r) /\ Merged(r)[s] = got[r][s])
        BY <4>1 DEF Merged, Read
      <4>3. None.ver = 0 /\ got[r][s].ver \in Nat
        BY DEF None, CensusTypeOK, Listing
      <4> QED
        BY <2>0, <4>1, <4>2, <4>3 DEF Ordered
    <3> QED
      BY <2>2, <3>1, <3>2
  <2>3. cache' = cache \/ \E r \in Refresher : Emptied(r) \/ RefreshCommit(r)
    <3>1. UNCHANGED Enforcing => cache' = cache
      BY DEF Enforcing
    <3>2. \A c \in Client, i \in ID :
            Admit(c) \/ List(c) \/ Gone(c) \/ SetConnectionID(c, i) => cache' = cache
      BY OwnStep
    <3>3. \A c \in Client : Admit(c) \/ List(c) \/ Gone(c) => cache' = cache
      BY DEF Admit, List, Gone, Others
    <3>4. EnforcerStep => cache' = cache
      BY EnforcerLeaves DEF Refreshing
    <3> QED
      BY <3>1, <3>2, <3>3, <3>4, EnforcingSteps DEF EnforcerStep
  <2> QED
    BY <2>1, <2>2, <2>3
<1> QED
  BY <1>1, CensusInductive, PTL DEF CensusSpec, NoOlderData

(* What a save wrote is in the cache when its handler answers, whatever    *)
(* other refreshes were running, unless its refresh skipped that file or   *)
(* could not read the directory, or files were switched off.               *)
THEOREM SaveTakesEffectSafe == CensusSpec => SaveTakesEffect
<1> DEFINE Effect ==
      \A r \in Handler :
        pc[r] # "idle" /\ pc'[r] = "idle" /\ saved[r] # NoSave =>
          \/ Shows(cache'[saved[r].file], saved[r].data)
          \/ saved[r].file \in failed[r] \cup Skipped(r) \cup everOff
<1>1. ASSUME CInv, [CensusNext]_censusVars PROVE [Effect]_censusVars
  <2> USE <1>1 DEF CInv
  <2> SUFFICES ASSUME NEW r \in Handler, pc[r] # "idle", pc'[r] = "idle", saved[r] # NoSave
               PROVE  \/ Shows(cache'[saved[r].file], saved[r].data)
                      \/ saved[r].file \in failed[r] \cup Skipped(r) \cup everOff
    OBVIOUS
  <2> DEFINE s == saved[r].file
  <2>0. r \in Refresher /\ s \in Source
    BY DEF Refresher, CensusTypeOK, Save
  <2>1. Emptied(r) \/ RefreshCommit(r)
    <3>1. ASSUME NEW q \in Refresher, Emptied(q) \/ RefreshCommit(q) PROVE q = r
      BY <2>0, <3>1, EndFacts DEF CensusTypeOK
    <3>2. UNCHANGED Refreshing => FALSE
      BY DEF Refreshing
    <3>3. ASSUME NEW q \in Refresher, NEW t \in Source, Read1(q, t) PROVE FALSE
      BY <3>3, ReadFacts
    <3>4. ASSUME NEW q \in Refresher, ReadFails(q) PROVE FALSE
      BY <3>4, FailFacts
    <3>5. ASSUME NEW q \in Refresher, RefreshBegin(q) PROVE FALSE
      BY <2>0, <3>5 DEF RefreshBegin, CensusTypeOK
    <3>6. ~ \E t \in Source, ids \in SUBSET ID : Edit(t, ids)
      BY DEF Edit
    <3>7. ~TickerFires /\ ~ \E q \in Handler : HandleCensusRefresh(q)
      BY <2>0 DEF TickerFires, HandleCensusRefresh, CensusTypeOK
    <3>8. ~ \E q \in Handler, f \in File, ids \in SUBSET ID : HandleEditCensusFileWrite(q, f, ids)
      BY <2>0 DEF HandleEditCensusFileWrite, CensusTypeOK
    <3> QED
      BY <3>1, <3>2, <3>3, <3>4, <3>5, <3>6, <3>7, <3>8, Steps, QuietLeaves
  <2>2. CASE Emptied(r)
    <3>1. EnabledSources(flags) = {}
      BY <2>2 DEF Emptied, RefreshDisabled, RefreshNoSource, EnabledSources, FlaggedSources
    <3> QED
      BY <2>0, <3>1 DEF Switched
  <2>3. CASE RefreshCommit(r)
    <3>1. cache'[s] = Merged(r)[s] /\ pc[r] = "loading" /\ todo[r] = {}
      BY <2>0, <2>3, EndFacts
    <3>2. CASE s \notin wanted[r]
      BY <2>0, <3>1, <3>2 DEF Switched
    <3>3. CASE s \in wanted[r] /\ s \notin failed[r]
      <4>1. s \in Read(r) /\ Merged(r)[s] = got[r][s]
        BY <2>0, <3>1, <3>3 DEF Read, Merged
      <4> QED
        BY <2>0, <3>1, <3>3, <4>1 DEF Written, Skipped
    <3> QED
      BY <3>2, <3>3
  <2> QED
    BY <2>1, <2>2, <2>3
<1> QED
  BY <1>1, CensusInductive, PTL DEF CensusSpec, SaveTakesEffect
=============================================================================
