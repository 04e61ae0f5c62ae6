---------------------------- MODULE ConfigReload ----------------------------
(***************************************************************************)
(* The directories the server reads while it runs: users (auth-users),     *)
(* public keys and header settings.  A load walks the files one after the  *)
(* other without a lock and publishes what it found; it is started by the  *)
(* watcher of the directory, by a save in the editor and by the insert API.*)
(* Files change under it: by an atomic rename of the server, or by hand.   *)
(*                                                                         *)
(* A file is a set of entries and how it reads: valid, parsed but refused  *)
(* by the validator (invalid), or not parsed at all (garbled). Files are   *)
(* numbered in the order of the walk, and FromAPI is the one the insert    *)
(* API owns. The password of a user is the one the last file gives that    *)
(* names the user; public keys add up.                                     *)
(*                                                                         *)
(* named, began, newest, overtaken, missed, blind, gaveUp and inserted     *)
(* are history variables: what edits and the start put into a file, the    *)
(* change a load began at, the youngest load that published, whether an    *)
(* older one has published since, the files a load skipped, those the      *)
(* snapshot lacks, whether a read error has ended a load that began after  *)
(* the last change, and the entries whose insertion was confirmed.         *)
(***************************************************************************)
EXTENDS Naturals, FiniteSetsExt

CONSTANTS
  Kinds,       \* which directories: "users", "keys", "headers"
  Files,       \* how many files there are
  FromAPI,     \* the file of the insert API
  Entry,       \* credentials, keys or header settings
  Password,    \* the entries that are passwords
  UserOf,      \* UserOf[e]: the user an entry names
  AtStart,     \* the files at the start
  Contents,    \* what the files may be changed to
  Inserts,     \* the entries the insert API is asked for
  Handler,     \* requests to the console, each with its handler
  MaxChanges   \* bound: changes of files

FileContent == [form : {"valid", "invalid", "garbled"}, has : SUBSET Entry]

ASSUME ReloadAssumption ==
  /\ Kinds \subseteq {"users", "keys", "headers"}
  /\ Files \in Nat \ {0} /\ FromAPI \in 1 .. Files /\ MaxChanges \in Nat
  /\ AtStart \in [1 .. Files -> SUBSET Entry] /\ Password \subseteq Entry
  /\ Inserts \subseteq Entry /\ Contents \subseteq FileContent
  /\ "watcher" \notin Handler /\ "nobody" \notin Handler

Loader == Handler \cup {"watcher"}
Nobody == "nobody"

VARIABLES
  kind,        \* the directory
  disk,        \* its files
  changes,     \* how often a file changed
  edited,      \* the files changed by someone else than the insert API
  named,       \* history variable
  noticed,     \* the change the last poll of the watcher saw
  event,       \* is the watcher's event waiting?
  insertLock,  \* insertAPIUserLock, insertAPIKeyLock
  op,          \* what a handler, or the watcher's consumer, is doing
  adding,      \* the entry a handler inserts
  content,     \* what it read of FromAPI
  todo,        \* the files a walk has not read yet
  acc,         \* what it has found
  began, missed, \* history variables
  published,   \* authUsersHolder, certHolder, headerSettingsHolder
  newest, overtaken, blind, gaveUp, \* history variables
  inserted     \* history variable

fileVars == <<disk, changes, edited, named>>
walkVars == <<todo, acc, began, missed>>
snapVars == <<published, newest, overtaken, blind>>
reloadVars == <<kind, fileVars, noticed, event, insertLock, op, adding, content,
                walkVars, snapVars, gaveUp, inserted>>

Readable(has) == [form |-> "valid", has |-> has]

(* Of the header settings one file is read, the first candidate.           *)
Walked == IF kind = "headers" THEN {1} ELSE 1 .. Files

(* The loads of users validate a file, the load of headers only parses it, *)
(* and of keys every line that is a key is taken.                          *)
Loadable(c) ==
  \/ kind = "keys" \/ c.form = "valid"
  \/ kind = "headers" /\ c.form = "invalid"

(* Entries that name the user of a password take it away: its last namer   *)
(* says what the password is.                                              *)
Displaces(has, e) ==
  kind = "users" /\ e \in Password /\ \E x \in has : UserOf[x] = UserOf[e]

Merge(found, has) == {e \in found : ~Displaces(has, e)} \cup has

(* What the files of S say together, and what all files say.               *)
View(S) ==
  {e \in Entry : \E f \in S :
     e \in disk[f].has /\ \A g \in S : g > f => ~Displaces(disk[g].has, e)}

Effective == View(Walked)

ReloadTypeOK ==
  /\ kind \in Kinds /\ disk \in [1 .. Files -> FileContent]
  /\ changes \in 0 .. MaxChanges /\ noticed \in 0 .. changes
  /\ edited \subseteq 1 .. Files /\ named \in [1 .. Files -> SUBSET Entry]
  /\ event \in BOOLEAN /\ insertLock \in Handler \cup {Nobody}
  /\ op \in [Loader -> {"idle", "lock", "list", "append", "write", "load",
                    "done"}]
  /\ adding \in [Handler -> SUBSET Entry] /\ content \in [Handler -> FileContent]
  /\ \A l \in Loader : todo[l] \subseteq 1 .. Files /\ acc[l] \subseteq Entry
  /\ published \subseteq Entry /\ inserted \subseteq Entry

(* The server has started and loaded the directory.                        *)
ReloadInit ==
  /\ kind \in Kinds
  /\ disk = [f \in 1 .. Files |-> Readable(AtStart[f])]
  /\ changes = 0 /\ edited = {} /\ named = AtStart /\ noticed = 0 /\ event = FALSE
  /\ insertLock = Nobody /\ op = [l \in Loader |-> "idle"]
  /\ adding = [h \in Handler |-> {}] /\ content = [h \in Handler |-> Readable({})]
  /\ todo = [l \in Loader |-> {}] /\ acc = [l \in Loader |-> {}]
  /\ began = [l \in Loader |-> 0] /\ missed = [l \in Loader |-> {}]
  /\ published = Effective /\ newest = 0 /\ overtaken = FALSE
  /\ blind = {} /\ gaveUp = FALSE /\ inserted = {}

-----------------------------------------------------------------------------
(* A file changes: the rename of writeFileAtomic, or by hand.              *)
Change(f, new) ==
  /\ changes < MaxChanges /\ changes' = changes + 1
  /\ disk' = [disk EXCEPT ![f] = new]
  /\ gaveUp' = FALSE

(* Somebody else than the insert API writes a file. A file of keys is a    *)
(* sequence of lines, and has no form.                                     *)
Edit(f, new) ==
  /\ kind = "keys" => new.form = "valid"
  /\ Change(f, new) /\ edited' = edited \cup {f}
  /\ named' = [named EXCEPT ![f] = @ \cup new.has]

External(f, new) ==
  /\ Edit(f, new)
  /\ UNCHANGED <<kind, noticed, event, insertLock, op, adding, content, walkVars,
                 snapVars, inserted>>

-----------------------------------------------------------------------------
(* loadAuthUsers, loadKeys, loadHeaderSettingsConfig.                      *)
BeginLoad(l, change) ==
  /\ op' = [op EXCEPT ![l] = "load"]
  /\ todo' = [todo EXCEPT ![l] = Walked] /\ acc' = [acc EXCEPT ![l] = {}]
  /\ began' = [began EXCEPT ![l] = change] /\ missed' = [missed EXCEPT ![l] = {}]

(* A load ends: a handler answers and returns, whatever came of the load;  *)
(* the watcher waits for the next event.                                   *)
Ended(l) == IF l \in Handler THEN "done" ELSE "idle"

Unlocked(l) == IF insertLock = l THEN Nobody ELSE insertLock

EndLoad(l) ==
  /\ op' = [op EXCEPT ![l] = Ended(l)] /\ insertLock' = Unlocked(l)
  /\ todo' = [todo EXCEPT ![l] = {}] /\ acc' = [acc EXCEPT ![l] = {}]
  /\ began' = [began EXCEPT ![l] = 0] /\ missed' = [missed EXCEPT ![l] = {}]
  /\ IF l \in Handler
     THEN inserted' = inserted \cup adding[l] /\ adding' = [adding EXCEPT ![l] = {}]
     ELSE UNCHANGED <<inserted, adding>>
  /\ UNCHANGED <<kind, fileVars, noticed, event, content>>

Walking(l) == op[l] = "load" /\ todo[l] # {}

(* The walk goes on after file f: it has found has, or skipped the file.   *)
Passed(l, f, has, skip) ==
  /\ todo' = [todo EXCEPT ![l] = @ \ {f}]
  /\ acc' = [acc EXCEPT ![l] = Merge(@, has)]
  /\ missed' = [missed EXCEPT ![l] = @ \cup skip]
  /\ UNCHANGED <<kind, fileVars, noticed, event, insertLock, op, adding, content,
                 began, snapVars, gaveUp, inserted>>

(* A mutant: a bad file ends the walk, and what was found is forgotten,    *)
(* but the result is published all the same.                               *)
ReadFileEmptied(l) ==
  LET f == Min(todo[l]) IN
  /\ Walking(l)
  /\ IF Loadable(disk[f]) THEN Passed(l, f, disk[f].has, {})
     ELSE /\ todo' = [todo EXCEPT ![l] = {}] /\ acc' = [acc EXCEPT ![l] = {}]
          /\ UNCHANGED <<kind, fileVars, noticed, event, insertLock, op, adding, content,
                         began, missed, snapVars, gaveUp, inserted>>

(* A bad file ends the load of users and headers, and the old snapshot     *)
(* stays.                                                                  *)
ReadFile(l) ==
  LET f == Min(todo[l]) IN
  /\ Walking(l)
  /\ IF Loadable(disk[f]) THEN Passed(l, f, disk[f].has, {})
     ELSE EndLoad(l) /\ UNCHANGED <<snapVars, gaveUp>>

(* A file that cannot be read: loadKeys goes on without it, and with it    *)
(* the files of a directory that cannot be read; loadHeaderSettingsConfig  *)
(* finds no candidate and takes the settings to be empty.                  *)
SkipUnread(l) ==
  LET f == Min(todo[l]) IN
  Walking(l) /\ kind # "users" /\ Passed(l, f, {}, {f})

(* It ends the load of users and headers; a missing directory, which the   *)
(* walk meets first, that of keys. The old snapshot stays, and no load is  *)
(* tried again before the next change.                                     *)
AbortUnread(l) ==
  /\ Walking(l) /\ (kind # "keys" \/ todo[l] = Walked)
  /\ EndLoad(l)
  /\ gaveUp' = (gaveUp \/ began[l] = changes) /\ UNCHANGED snapVars

(* The snapshot is exchanged under its lock; a handler then answers.       *)
Publish(l) ==
  /\ op[l] = "load" /\ todo[l] = {}
  /\ published' = acc[l] /\ blind' = missed[l]
  /\ overtaken' = (began[l] < newest)
  /\ newest' = Max({newest, began[l]})
  /\ EndLoad(l) /\ UNCHANGED gaveUp

-----------------------------------------------------------------------------
(* The watcher polls, and offers one event if anything has changed since   *)
(* the last poll; the consumer loads.                                      *)
Poll ==
  /\ ~event /\ noticed < changes
  /\ noticed' = changes /\ event' = TRUE
  /\ UNCHANGED <<kind, fileVars, insertLock, op, adding, content, walkVars,
                 snapVars, gaveUp, inserted>>

(* A mutant: an event is dropped while a handler loads anyway.             *)
ConsumeUnlessLoading ==
  /\ event /\ op["watcher"] = "idle" /\ event' = FALSE
  /\ IF \E h \in Handler : op[h] = "load" THEN UNCHANGED <<op, walkVars>>
     ELSE BeginLoad("watcher", changes)
  /\ UNCHANGED <<kind, fileVars, noticed, insertLock, adding, content, snapVars, gaveUp, inserted>>

Consume ==
  /\ event /\ op["watcher"] = "idle" /\ event' = FALSE
  /\ BeginLoad("watcher", changes)
  /\ UNCHANGED <<kind, fileVars, noticed, insertLock, adding, content, snapVars, gaveUp, inserted>>

-----------------------------------------------------------------------------
(* The editor: a file is replaced by what the page sends, which is         *)
(* validated unless it holds keys, and the directory is loaded. A file     *)
(* without users is no valid one.                                          *)
Validated(new) == new.form = "valid" /\ (kind = "users" => new.has # {})

Save(h, f, new) ==
  /\ op[h] = "idle" /\ Validated(new) /\ Edit(f, new)
  /\ BeginLoad(h, changes + 1)
  /\ UNCHANGED <<kind, noticed, event, insertLock, adding, content, snapVars, inserted>>

(* The insert API, one at a time: look for the entry in all files, read    *)
(* FromAPI, write it with the entry appended, load.                        *)
Insert(h, e) ==
  /\ op[h] = "idle" /\ kind # "headers"
  /\ op' = [op EXCEPT ![h] = "lock"] /\ adding' = [adding EXCEPT ![h] = {e}]
  /\ UNCHANGED <<kind, fileVars, noticed, event, insertLock, content, walkVars,
                 snapVars, gaveUp, inserted>>

Listing(h) ==
  /\ op' = [op EXCEPT ![h] = "list"]
  /\ todo' = [todo EXCEPT ![h] = Walked]
  /\ UNCHANGED <<kind, fileVars, noticed, event, adding, content, acc, began, missed,
                 snapVars, gaveUp, inserted>>

(* A mutant: inserts are not serialised.                                   *)
LockUnheld(h) == op[h] = "lock" /\ UNCHANGED insertLock /\ Listing(h)

TakeInsertLock(h) ==
  /\ op[h] = "lock" /\ insertLock = Nobody /\ insertLock' = h
  /\ Listing(h)

(* Nothing is inserted: the entry is there, a file cannot be read, the     *)
(* result is not valid or cannot be written.                               *)
InsertEnds(h) ==
  /\ op[h] \in {"list", "append", "write"}
  /\ op' = [op EXCEPT ![h] = "done"] /\ insertLock' = Unlocked(h)
  /\ adding' = [adding EXCEPT ![h] = {}]
  /\ todo' = [todo EXCEPT ![h] = {}]
  /\ content' = [content EXCEPT ![h] = Readable({})]
  /\ UNCHANGED <<kind, fileVars, noticed, event, acc, began, missed, snapVars, gaveUp, inserted>>

(* The API compares users by name, and keys as such.                       *)
Present(new, has) ==
  \E e \in new, x \in has : IF kind = "users" THEN UserOf[x] = UserOf[e] ELSE x = e

(* The listing of users parses a file and does not validate it.            *)
ListFile(h) ==
  LET f == Min(todo[h]) IN
  /\ op[h] = "list" /\ todo[h] # {}
  /\ disk[f].form # "garbled" \/ kind = "keys"
  /\ ~Present(adding[h], disk[f].has)
  /\ todo' = [todo EXCEPT ![h] = @ \ {f}]
  /\ op' = [op EXCEPT ![h] = IF todo'[h] = {} THEN "append" ELSE @]
  /\ UNCHANGED <<kind, fileVars, noticed, event, insertLock, adding, content,
                 acc, began, missed, snapVars, gaveUp, inserted>>

(* The new entry goes to the end of the file, and users are validated.     *)
AppendEntry(h) ==
  /\ op[h] = "append" /\ (disk[FromAPI].form = "valid" \/ kind = "keys")
  /\ op' = [op EXCEPT ![h] = "write"]
  /\ content' = [content EXCEPT ![h] =
                   [disk[FromAPI] EXCEPT !.has = Merge(@, adding[h])]]
  /\ UNCHANGED <<kind, fileVars, noticed, event, insertLock, adding, walkVars,
                 snapVars, gaveUp, inserted>>

WriteEntry(h) ==
  /\ op[h] = "write"
  /\ Change(FromAPI, content[h]) /\ UNCHANGED <<edited, named>>
  /\ content' = [content EXCEPT ![h] = Readable({})]
  /\ BeginLoad(h, changes + 1)
  /\ UNCHANGED <<kind, noticed, event, insertLock, adding, snapVars, inserted>>

-----------------------------------------------------------------------------
ReloadNext ==
  \/ \E f \in 1 .. Files, new \in Contents :
       \/ External(f, new)
       \/ \E h \in Handler : Save(h, f, new)
  \/ Poll \/ Consume
  \/ \E l \in Loader : ReadFile(l) \/ SkipUnread(l) \/ AbortUnread(l) \/ Publish(l)
  \/ \E h \in Handler :
       \/ \E e \in Inserts : Insert(h, e)
       \/ TakeInsertLock(h) \/ ListFile(h) \/ AppendEntry(h) \/ WriteEntry(h) \/ InsertEnds(h)

-----------------------------------------------------------------------------
(* checkAuthUserPassword, checkAuthUserPublicKey, the scan of certHolder.  *)
Accepted(e) == e \in published

(* Nothing is under way and the last change has been noticed.              *)
Quiet ==
  /\ noticed = changes /\ ~event
  /\ \A l \in Loader : op[l] # "load"

Sound == \A f \in Walked : Loadable(disk[f])

(* Of the loads that began after the last change one could not read a file *)
(* and gave up, and none has published.                                    *)
GaveUp == gaveUp /\ newest < changes

(* An entry of a file that nobody edited is accepted at all times, however *)
(* loads overlap and whatever happens to the other files: a bad file never *)
(* takes the good ones with it, and an insert no password of another file. *)
(* Two things do take it away: a later file that names its user by an edit *)
(* or from the start, and the load of keys or headers whose snapshot it is *)
(* could not read the file.                                                *)
UntouchedKeepsAccess ==
  \A f \in Walked \ (edited \cup {FromAPI} \cup blind) : \A e \in disk[f].has :
    Accepted(e) \/ \E g \in Walked : g > f /\ Displaces(named[g], e)

(* An insertion that was confirmed stays in the file, whatever the other   *)
(* inserts do, unless someone else edits the file.                         *)
InsertsKept == inserted \subseteq disk[FromAPI].has \/ FromAPI \in edited

(* When everything has come to rest and every file is good the snapshot is *)
(* what the files say, unless the last load to publish had been overtaken  *)
(* by a younger one, or a file could not be read: the load skipped it, or  *)
(* gave up and was not tried again.                                        *)
StaleOnlyIfOvertaken ==
  Quiet /\ Sound /\ ~overtaken /\ blind = {} /\ ~GaveUp =>
    {e \in Entry : Accepted(e)} = Effective
=============================================================================
