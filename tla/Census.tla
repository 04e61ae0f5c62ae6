------------------------------- MODULE Census -------------------------------
(***************************************************************************)
(* The census of connection IDs and its enforcement: the cache and its     *)
(* refreshes, the admission check of a forward, and the enforcer that      *)
(* closes connections whose ID has left the census.                        *)
(*                                                                         *)
(* utils/census.go, sshmuxer/strict_census.go, the strict check of         *)
(* sshmuxer/requests.go, HandleCensusRefresh and HandleEditCensusFileWrite *)
(* of utils/console.go, the start-up of both loops in sshmuxer/sshmuxer.go.*)
(*                                                                         *)
(* A source is census-url or one file of census-directory; both are        *)
(* configured. Versions number the contents of a source. The notes and the *)
(* error text of the cache are left out.                                   *)
(***************************************************************************)
EXTENDS Integers

CONSTANTS
  Client,       \* SSH connections
  ID,           \* connection IDs
  NoID,         \* the ID of a connection that has provided none
  Url,          \* the source census-url
  File,         \* the files of census-directory
  Flaky,        \* files that may be unreadable or no YAML when they are read
  Kept,         \* Kept[s]: IDs that source s always lists
  May,          \* May[s]: IDs that source s may list
  Ticker,       \* the goroutine of StartCensusRefresher
  Handler,      \* console requests that refresh the cache
  NoOne,        \* nobody holds censusRefreshLock
  FlagSets,     \* settings the configuration file may have
  MaxVersion    \* bound: contents a source has in a behaviour

Source    == File \cup {Url}
Refresher == Handler \cup {Ticker}

(* The flags census-enabled, strict-id-censed, strict-id-censed-url and    *)
(* strict-id-censed-files: viper.WatchConfig rereads them at run time.     *)
CensusFlags == [enabled : BOOLEAN, strict : BOOLEAN, url : BOOLEAN, files : BOOLEAN]

ASSUME SourceAssumption ==
  /\ Url \notin File /\ Flaky \subseteq File
  /\ Kept \in [Source -> SUBSET ID] /\ May \in [Source -> SUBSET ID]
  /\ \A s \in Source : Kept[s] \subseteq May[s]
ASSUME CensusActorAssumption ==
  /\ NoID \notin ID
  /\ Ticker \notin Handler /\ NoOne \notin Refresher
ASSUME CensusBoundAssumption ==
  /\ FlagSets \subseteq CensusFlags /\ MaxVersion \in Nat \ {0}

(* What is known of a source: which of its contents, and the IDs in it.    *)
Listing == [ver : Nat, ids : SUBSET ID]
None    == [ver |-> 0, ids |-> {}]

(* What the handler of a save has written.                                 *)
Save    == [file : Source, data : Listing]
NoSave  == [file |-> Url, data |-> None]

VARIABLES
  flags,       \* the settings in force
  forced,      \* the flags that viper.Set turned on at start-up
  server,      \* "booting": before the first refresh ends; "off": no ticker
  src,         \* src[s]: the present contents of source s
  cache,       \* censusCacheHolder.IDSources, by source
  refreshed,   \* LastRefresh: zero, after lastSeenRefresh, or not
  lock,        \* the holder of censusRefreshLock
  pc,          \* pc[r]: where the refresher r is
  wanted,      \* wanted[r]: the sources its flags enable
  todo,        \* todo[r]: the sources it has not read
  failed,      \* failed[r]: the sources it could not load
  got,         \* got[r]: what it has read
  saved,       \* saved[r]: the file written by its handler, and its contents
  client,      \* client[c]: where connection c is
  ident,       \* ident[c]: the connection ID it provided
  local,       \* connections with the option local-forward=true
  epc,         \* where the enforcer is
  toVisit,     \* connections its Range has not visited
  toClose,     \* connections it will close
  check,       \* history: check[c]: the last comparison of its ID
  everOff      \* history: sources that were switched off at some time

env      == <<flags, forced, everOff>>
job      == <<wanted, todo, failed, got, saved>>
conn     == <<client, ident, local>>
enforcer == <<toVisit, toClose>>
censusVars == <<flags, forced, server, src, cache, refreshed, lock, pc, wanted, todo, failed,
          got, saved, client, ident, local, epc, toVisit, toClose, check, everOff>>

CensusTypeOK ==
  /\ flags \in CensusFlags /\ forced \subseteq {"url", "files"}
  /\ server \in {"booting", "on", "off"}
  /\ src \in [Source -> Listing] /\ cache \in [Source -> Listing]
  /\ refreshed \in {"zero", "new", "seen"}
  /\ lock \in Refresher \cup {NoOne}
  /\ pc \in [Refresher -> {"idle", "called", "loading"}]
  /\ wanted \in [Refresher -> SUBSET Source]
  /\ todo \in [Refresher -> SUBSET Source]
  /\ failed \in [Refresher -> SUBSET Source]
  /\ got \in [Refresher -> [Source -> Listing]]
  /\ saved \in [Refresher -> Save]
  /\ client \in [Client -> {"idle", "admitted", "listed", "closed", "cut"}]
  /\ ident \in [Client -> ID \cup {NoID}] /\ local \subseteq Client
  /\ epc \in {"absent", "sleep", "scan", "close"}
  /\ toVisit \subseteq Client /\ toClose \subseteq Client
  /\ check \in [Client -> {"none", "good", "overtaken", "skipped"}]
  /\ everOff \subseteq Source

-----------------------------------------------------------------------------
(* Flags.                                                                  *)

(* viper.Set overrides what the configuration file says from then on.      *)
Effective(k, f) ==
  [enabled |-> k.enabled, strict |-> k.strict,
   url |-> k.url \/ "url" \in f, files |-> k.files \/ "files" \in f]

(* At start-up the legacy flag turns the other two on.                     *)
Legacy(k) ==
  {f \in {"url", "files"} : k.strict /\ IF f = "url" THEN ~k.url ELSE ~k.files}

FlaggedSources(k) == (IF k.url THEN {Url} ELSE {}) \cup (IF k.files THEN File ELSE {})

EnabledSources(k) == IF k.enabled THEN FlaggedSources(k) ELSE {}

IsStrictIDCensedEnabled == flags.enabled /\ (flags.strict \/ flags.url \/ flags.files)

(* A set of IDs that source s may hold.                                    *)
Contents(s, ids) == Kept[s] \subseteq ids /\ ids \subseteq May[s]

IsIDCensed(i) == \E s \in Source : i \in cache[s].ids

HasID(c) == ident[c] # NoID

-----------------------------------------------------------------------------
(* The first refresh runs before the server accepts connections.           *)
CensusInit ==
  /\ \E k \in FlagSets :
       /\ forced = Legacy(k)
       /\ flags = Effective(k, Legacy(k))
  /\ server = IF flags.enabled THEN "booting" ELSE "off"
  /\ \E ids \in [Source -> SUBSET ID] :
       /\ \A s \in Source : Contents(s, ids[s])
       /\ src = [s \in Source |-> [ver |-> 1, ids |-> ids[s]]]
  /\ cache = [s \in Source |-> None]
  /\ refreshed = "zero"
  /\ lock = NoOne
  /\ pc = [r \in Refresher |-> IF r = Ticker /\ flags.enabled THEN "called" ELSE "idle"]
  /\ wanted = [r \in Refresher |-> {}]
  /\ todo = [r \in Refresher |-> {}]
  /\ failed = [r \in Refresher |-> {}]
  /\ got = [r \in Refresher |-> [s \in Source |-> None]]
  /\ saved = [r \in Refresher |-> NoSave]
  /\ client = [c \in Client |-> "idle"]
  /\ epc = "absent"
  /\ ident = [c \in Client |-> NoID] /\ local = {}
  /\ toVisit = {} /\ toClose = {}
  /\ check = [c \in Client |-> "none"]
  /\ everOff = Source \ EnabledSources(flags)

-----------------------------------------------------------------------------
(* The world: files and the document behind census-url change, and the     *)
(* configuration file is reloaded.                                         *)

Edit(s, ids) ==
  /\ src[s].ver < MaxVersion /\ Contents(s, ids) /\ ids # src[s].ids
  /\ src' = [src EXCEPT ![s] = [ver |-> @.ver + 1, ids |-> ids]]
  /\ UNCHANGED <<env, server, cache, refreshed, lock, pc, job, conn, epc, enforcer, check>>

ReloadFlags(k) ==
  /\ flags' = Effective(k, forced)
  /\ everOff' = everOff \cup (Source \ EnabledSources(flags'))
  /\ UNCHANGED <<forced, server, src, cache, refreshed, lock, pc, job, conn, epc,
                 enforcer, check>>

-----------------------------------------------------------------------------
(* The callers of RefreshCensusCache.                                      *)

(* The loop of StartCensusRefresher.                                       *)
TickerFires ==
  /\ server = "on" /\ pc[Ticker] = "idle"
  /\ pc' = [pc EXCEPT ![Ticker] = "called"]
  /\ UNCHANGED <<env, server, src, cache, refreshed, lock, job, conn, epc, enforcer, check>>

HandleCensusRefresh(r) ==
  /\ server # "booting" /\ pc[r] = "idle" /\ flags.enabled
  /\ pc' = [pc EXCEPT ![r] = "called"]
  /\ UNCHANGED <<env, server, src, cache, refreshed, lock, job, conn, epc, enforcer, check>>

(* The file is replaced by a rename before the cache is refreshed.         *)
HandleEditCensusFileWrite(r, f, ids) ==
  /\ server # "booting" /\ pc[r] = "idle"
  /\ src[f].ver < MaxVersion /\ Contents(f, ids)
  /\ src' = [src EXCEPT ![f] = [ver |-> @.ver + 1, ids |-> ids]]
  /\ saved' = [saved EXCEPT ![r] = [file |-> f, data |-> src'[f]]]
  /\ pc' = [pc EXCEPT ![r] = "called"]
  /\ UNCHANGED <<env, server, cache, refreshed, lock, wanted, todo, failed, got, conn, epc,
                 enforcer, check>>

-----------------------------------------------------------------------------
(* RefreshCensusCache.                                                     *)

(* The cache is replaced: a check that was made before says nothing now.   *)
SetCache(c) ==
  /\ cache' = c
  /\ check' = [x \in Client |-> IF client[x] = "admitted" /\ check[x] = "good"
                                  THEN "overtaken" ELSE check[x]]

(* Its caller goes on. After the first refresh the ticker starts, and the  *)
(* enforcer if the census is still enabled.                                *)
Return(r) ==
  /\ pc' = [pc EXCEPT ![r] = "idle"]
  /\ wanted' = [wanted EXCEPT ![r] = {}]
  /\ todo' = [todo EXCEPT ![r] = {}]
  /\ failed' = [failed EXCEPT ![r] = {}]
  /\ got' = [got EXCEPT ![r] = [s \in Source |-> None]]
  /\ saved' = [saved EXCEPT ![r] = NoSave]
  /\ server' = IF server = "booting" THEN "on" ELSE server
  /\ epc' = IF server = "booting" /\ flags.enabled THEN "sleep" ELSE epc

(* census-enabled is off: the cache becomes the zero value.                *)
RefreshDisabled(r) ==
  /\ pc[r] = "called" /\ lock = NoOne
  /\ ~flags.enabled
  /\ SetCache([s \in Source |-> None])
  /\ refreshed' = "zero"
  /\ Return(r)
  /\ UNCHANGED <<env, src, lock, conn, enforcer>>

(* Both sources are off: the cache is emptied and LastRefresh is set.      *)
RefreshNoSource(r) ==
  /\ pc[r] = "called" /\ lock = NoOne
  /\ flags.enabled /\ ~flags.url /\ ~flags.files
  /\ SetCache([s \in Source |-> None])
  /\ refreshed' = "new"
  /\ Return(r)
  /\ UNCHANGED <<env, src, lock, conn, enforcer>>

(* Mutant: the refresh does not take censusRefreshLock.                    *)
RefreshBeginUnlocked(r) ==
  /\ pc[r] = "called"
  /\ flags.enabled /\ (flags.url \/ flags.files)
  /\ pc' = [pc EXCEPT ![r] = "loading"]
  /\ wanted' = [wanted EXCEPT ![r] = FlaggedSources(flags)]
  /\ todo' = [todo EXCEPT ![r] = FlaggedSources(flags)]
  /\ UNCHANGED <<env, server, src, cache, refreshed, lock, failed, got, saved, conn, epc,
                 enforcer, check>>

(* Mutant: a refresh returns at once if another one is running.            *)
RefreshBeginCoalesced(r) ==
  /\ pc[r] = "called"
  /\ flags.enabled /\ (flags.url \/ flags.files)
  /\ \/ /\ lock = NoOne /\ lock' = r
        /\ pc' = [pc EXCEPT ![r] = "loading"]
        /\ wanted' = [wanted EXCEPT ![r] = FlaggedSources(flags)]
        /\ todo' = [todo EXCEPT ![r] = FlaggedSources(flags)]
        /\ UNCHANGED <<server, failed, got, saved, epc>>
     \/ lock # NoOne /\ Return(r) /\ UNCHANGED lock
  /\ UNCHANGED <<env, src, cache, refreshed, conn, enforcer, check>>

RefreshBegin(r) ==
  /\ pc[r] = "called" /\ lock = NoOne
  /\ flags.enabled /\ (flags.url \/ flags.files)
  /\ lock' = r
  /\ pc' = [pc EXCEPT ![r] = "loading"]
  /\ wanted' = [wanted EXCEPT ![r] = FlaggedSources(flags)]
  /\ todo' = [todo EXCEPT ![r] = FlaggedSources(flags)]
  /\ UNCHANGED <<env, server, src, cache, refreshed, failed, got, saved, conn, epc,
                 enforcer, check>>

(* Reading the sources in ss ends; g is what was read, bad what could not. *)
Loaded(r, ss, g, bad) ==
  /\ pc[r] = "loading" /\ ss \subseteq todo[r]
  /\ todo' = [todo EXCEPT ![r] = @ \ ss]
  /\ got' = [got EXCEPT ![r] = g]
  /\ failed' = [failed EXCEPT ![r] = @ \cup bad]
  /\ UNCHANGED <<env, server, src, cache, refreshed, lock, pc, wanted, saved, conn, epc,
                 enforcer, check>>

(* downloadCensusBody and parseCensusEntries succeed, or one fails.        *)
LoadUrl(r)     == Loaded(r, {Url}, [got[r] EXCEPT ![Url] = src[Url]], {})
LoadUrlFail(r) == Loaded(r, {Url}, got[r], {Url})

(* loadCensusDirectoryFiles, after the URL: it fails as a whole or reads   *)
(* file by file, and skips one that it cannot read or parse: no content of *)
(* that file is loaded, and the refresh does not count as failed.          *)
LoadFile(r, f) == Url \notin todo[r] /\ Loaded(r, {f}, [got[r] EXCEPT ![f] = src[f]], {})
SkipFile(r, f) ==
  /\ Url \notin todo[r] /\ f \in Flaky
  /\ Loaded(r, {f}, [got[r] EXCEPT ![f] = None], {})
LoadDirFail(r) == todo[r] = File /\ File # {} /\ Loaded(r, File, got[r], File)

(* Mutant: a refresh stores what it has loaded, the failures too.          *)
MergedLoadedOnly(r) == [s \in Source |-> IF s \in wanted[r] THEN got[r][s] ELSE None]

(* A source that failed keeps its last good IDs; one that is switched off  *)
(* loses them.                                                             *)
Merged(r) ==
  [s \in Source |-> IF s \notin wanted[r] THEN None
                   ELSE IF s \in failed[r] THEN cache[s] ELSE got[r][s]]

RefreshCommit(r) ==
  /\ pc[r] = "loading" /\ todo[r] = {}
  /\ SetCache(Merged(r))
  /\ refreshed' = "new"
  /\ lock' = NoOne
  /\ Return(r)
  /\ UNCHANGED <<env, src, conn, enforcer>>

-----------------------------------------------------------------------------
(* A connection and its forwards.                                          *)

Others == <<env, server, src, cache, refreshed, lock, pc, job, epc, enforcer>>

Connected(c) == server # "booting" /\ client[c] \in {"idle", "admitted", "listed"}

(* The session command id=...: it may come at any time, and again.         *)
SetConnectionID(c, i) ==
  /\ Connected(c)
  /\ ident' = [ident EXCEPT ![c] = i]
  /\ check' = [check EXCEPT ![c] = "none"]
  /\ UNCHANGED <<Others, client, local>>

(* The session command local-forward=..., at any time too.                 *)
SetLocalForward(c, on) ==
  /\ Connected(c)
  /\ local' = IF on THEN local \cup {c} ELSE local \ {c}
  /\ UNCHANGED <<Others, client, ident, check>>

(* The strict check at the head of the remote forward handler. It passes.  *)
Passes(c) == ~IsStrictIDCensedEnabled \/ (HasID(c) /\ IsIDCensed(ident[c]))

Admit(c) ==
  /\ Connected(c) /\ client[c] = "idle"
  /\ Passes(c)
  /\ client' = [client EXCEPT ![c] = "admitted"]
  /\ check' = [check EXCEPT ![c] = IF IsStrictIDCensedEnabled THEN "good" ELSE "none"]
  /\ UNCHANGED <<Others, ident, local>>

(* The connection is cleaned up, and its ID with it.                       *)
Gone(c) ==
  /\ Connected(c)
  /\ client' = [client EXCEPT ![c] = "closed"]
  /\ ident' = [ident EXCEPT ![c] = NoID] /\ local' = local \ {c}
  /\ check' = [check EXCEPT ![c] = "none"]
  /\ UNCHANGED Others

(* It fails, for a first or a further forward: the connection is closed.   *)
Refuse(c) == ~Passes(c) /\ Gone(c)

(* The forward is set up: the connection has a listener.                   *)
List(c) ==
  /\ client[c] = "admitted"
  /\ client' = [client EXCEPT ![c] = "listed"]
  /\ UNCHANGED <<Others, ident, local, check>>

Leave(c) == Gone(c)

-----------------------------------------------------------------------------
(* startStrictIDCensedConnectionEnforcer.                                  *)

(* A tick that finds a newer LastRefresh; every other one does nothing.    *)
EnforcerTick ==
  /\ epc = "sleep" /\ IsStrictIDCensedEnabled /\ refreshed = "new"
  /\ refreshed' = "seen"
  /\ epc' = "scan"
  /\ toVisit' = Client
  /\ UNCHANGED <<env, server, src, cache, lock, pc, job, conn, toClose, check>>

(* A connection with forwards whose ID is not in the cache.                *)
Uncensed(c) == client[c] = "listed" /\ HasID(c) /\ ~IsIDCensed(ident[c])

(* With local-forward=true ListenerCount is -1, whatever is listed.        *)
ListenerCount(c) == IF c \in local THEN -1 ELSE IF client[c] = "listed" THEN 1 ELSE 0

Offends(c) == HasID(c) /\ ListenerCount(c) > 0 /\ ~IsIDCensed(ident[c])

(* The comparison that a visit makes of an ID: none if ListenerCount() is  *)
(* not positive, and then a listed ID that has left the census is skipped. *)
Compared(c) ==
  IF HasID(c) /\ ListenerCount(c) > 0 /\ ~Offends(c) THEN "good"
  ELSE IF c \in local /\ Uncensed(c) /\ check[c] = "good" THEN "skipped"
  ELSE check[c]

(* One call of the Range callback: it asks the cache of that moment.       *)
EnforcerVisit(c) ==
  /\ epc = "scan" /\ c \in toVisit
  /\ toVisit' = toVisit \ {c}
  /\ toClose' = IF Offends(c) THEN toClose \cup {c} ELSE toClose
  /\ check' = [check EXCEPT ![c] = Compared(c)]
  /\ epc' = IF toVisit' = {} THEN "close" ELSE "scan"
  /\ UNCHANGED <<env, server, src, cache, refreshed, lock, pc, job, conn>>

EnforcerClose(c) ==
  /\ epc = "close" /\ c \in toClose
  /\ toClose' = toClose \ {c}
  /\ client' = [client EXCEPT ![c] = IF @ = "closed" THEN "closed" ELSE "cut"]
  /\ local' = local \ {c}
  /\ UNCHANGED <<env, server, src, cache, refreshed, lock, pc, job, ident, epc, toVisit, check>>

(* Mutant: lastSeenRefresh is the LastRefresh at the end of the pass.      *)
EnforcerDoneSeen ==
  /\ epc = "close" /\ toClose = {}
  /\ epc' = "sleep"
  /\ refreshed' = IF refreshed = "new" THEN "seen" ELSE refreshed
  /\ UNCHANGED <<env, server, src, cache, lock, pc, job, conn, enforcer, check>>

EnforcerDone ==
  /\ epc = "close" /\ toClose = {}
  /\ epc' = "sleep"
  /\ UNCHANGED <<env, server, src, cache, refreshed, lock, pc, job, conn, enforcer, check>>

-----------------------------------------------------------------------------
RefreshStep(r) ==
  \/ RefreshDisabled(r) \/ RefreshNoSource(r) \/ RefreshBegin(r) \/ RefreshCommit(r)
  \/ LoadUrl(r) \/ LoadUrlFail(r) \/ LoadDirFail(r)
  \/ \E f \in File : LoadFile(r, f) \/ SkipFile(r, f)

EnforcerStep ==
  \/ EnforcerTick \/ EnforcerDone
  \/ \E c \in Client : EnforcerVisit(c) \/ EnforcerClose(c)

CensusNext ==
  \/ \E s \in Source, ids \in SUBSET ID : Edit(s, ids)
  \/ \E k \in FlagSets : ReloadFlags(k)
  \/ TickerFires
  \/ \E r \in Handler : HandleCensusRefresh(r)
  \/ \E r \in Handler, f \in File, ids \in SUBSET ID : HandleEditCensusFileWrite(r, f, ids)
  \/ \E r \in Refresher : RefreshStep(r)
  \/ \E c \in Client : Admit(c) \/ Refuse(c) \/ List(c) \/ Leave(c)
  \/ \E c \in Client, i \in ID : SetConnectionID(c, i)
  \/ \E c \in Client, on \in BOOLEAN : SetLocalForward(c, on)
  \/ EnforcerStep

CensusSpec == CensusInit /\ [][CensusNext]_censusVars

-----------------------------------------------------------------------------
(* Properties.                                                             *)

(* B36: no refresh overwrites what the cache holds of a source with older  *)
(* contents of it, however the ticker, manual refreshes and saves overlap. *)
NoOlderData ==
  [][\A s \in Source : cache'[s].ver = 0 \/ cache'[s].ver >= cache[s].ver]_censusVars

(* A listing shows what was saved, or something later.                     *)
Shows(l, data) == l = data \/ l.ver > data.ver

(* The files that refresh r could not read or parse.                       *)
Skipped(r) == {f \in Flaky \cap wanted[r] : f \notin todo[r] \cup failed[r] /\ got[r][f] = None}

(* When the handler of a save answers, the cache holds the saved contents  *)
(* of the file, its IDs included, or later ones, unless its refresh could  *)
(* not read the directory, skipped that file, or files were switched off.  *)
SaveTakesEffect ==
  [][\A r \in Handler :
       pc[r] # "idle" /\ pc'[r] = "idle" /\ saved[r] # NoSave =>
         \/ Shows(cache'[saved[r].file], saved[r].data)
         \/ saved[r].file \in failed[r] \cup Skipped(r) \cup everOff]_censusVars

(* An ID that every source naming it always names, none of them a file     *)
(* that can be skipped.                                                    *)
Permanent(i) ==
  /\ \E s \in Source : i \in Kept[s]
  /\ \A s \in Source : i \in May[s] => i \in Kept[s] /\ s \notin Flaky

(* B35: whatever loads fail, the enforcer closes no connection whose ID    *)
(* has never left its sources, unless one of these was switched off or the *)
(* connection took another ID after its admission.                         *)
CensedNotCut ==
  \A c \in Client : client[c] = "cut" /\ check[c] # "none" /\ Permanent(ident[c]) =>
    \E s \in everOff : ident[c] \in Kept[s]

(* Between the passes of the enforcer a connection with forwards has an ID *)
(* in the cache, unless a refresh overtook its set-up, it changed its ID,  *)
(* it was admitted while nothing was enforced, or the enforcer passed over *)
(* it because of local-forward=true. The last exception keeps the forwards *)
(* of an ID that has left the census for as long as the connection lasts.  *)
UncensedOnlyIfOvertaken ==
  epc = "sleep" /\ refreshed = "seen" => \A c \in Client : Uncensed(c) => check[c] # "good"

(* What README_CENSUS.md says: a connection whose ID was in the census and *)
(* has left it is disconnected by the pass that follows the refresh. The   *)
(* local-forward option makes ListenerCount() negative, and the enforcer   *)
(* passes over the connection.                                             *)
RemovedIsDisconnected ==
  epc = "sleep" /\ refreshed = "seen" =>
    \A c \in Client : Uncensed(c) => check[c] \notin {"good", "skipped"}
=============================================================================
