---------------------------- MODULE FilesProofs ----------------------------
(***************************************************************************)
(* Proofs about the files the server reads and writes while it runs: the   *)
(* directories of users, keys and header settings (ConfigReload), the      *)
(* forwarder logs and the audit of origin addresses (Logs), and how the    *)
(* header settings are resolved (HeaderSettings).                          *)
(***************************************************************************)
EXTENDS ConfigReload, Logs, HeaderSettings, FiniteSetTheorems, TLAPS

(* A set of naturals that is not empty has a least element, Min.           *)
LEMMA MinMember ==
  ASSUME NEW S, S \subseteq Nat, S # {}
  PROVE  Min(S) \in S /\ \A y \in S : Min(S) <= y
<1>1. PICK x \in S : \A y \in S : ~(<<y, x>> \in OpToRel(<, Nat))
  BY NatLessThanWellFounded, WFMin
<1>2. ASSUME NEW y \in S PROVE x <= y
  <2>1. x \in Nat /\ y \in Nat /\ <<y, x>> \in Nat \X Nat
    OBVIOUS
  <2>2. y < x => <<y, x>> \in OpToRel(<, Nat)
    BY <2>1, Zenon DEF OpToRel
  <2>3. ~(y < x)
    BY <1>1, <2>2, Zenon
  <2> QED
    BY <2>1, <2>3
<1> QED
  BY <1>2 DEF Min

(* The largest element of a bounded set of naturals: the distance to the   *)
(* bound has a least value.                                                *)
LEMMA MaxMember ==
  ASSUME NEW n \in Nat, NEW S, S \subseteq 0 .. n, S # {}
  PROVE  Max(S) \in S /\ \A y \in S : y <= Max(S)
<1> DEFINE T == {n - i : i \in S}
<1>1. T \subseteq Nat /\ T # {}
  <2>1. \A i \in S : n - i \in Nat
    OBVIOUS
  <2> QED
    BY <2>1
<1>2. Min(T) \in T /\ \A y \in T : Min(T) <= y
  BY <1>1, MinMember
<1>3. PICK x \in S : Min(T) = n - x
  BY <1>2
<1>4. \A y \in S : y <= x
  <2> TAKE y \in S
  <2>1. n - x <= n - y
    BY <1>2, <1>3
  <2> QED
    BY <2>1
<1> QED
  BY <1>4 DEF Max
-----------------------------------------------------------------------------
(* The directories of users, keys and header settings.                     *)
ReloadSpec == ReloadInit /\ [][ReloadNext]_reloadVars

Ops == {"idle", "lock", "list", "append", "write", "load", "done"}

RlTypes ==
  /\ kind \in Kinds /\ disk \in [1 .. Files -> FileContent]
  /\ named \in [1 .. Files -> SUBSET Entry]
  /\ changes \in Nat /\ noticed \in Nat /\ noticed <= changes
  /\ newest \in Nat /\ newest <= changes
  /\ insertLock \in Handler \cup {Nobody} /\ op \in [Loader -> Ops]
  /\ adding \in [Handler -> SUBSET Entry]
  /\ content \in [Handler -> FileContent]
  /\ todo \in [Loader -> SUBSET (1 .. Files)]
  /\ acc \in [Loader -> SUBSET Entry] /\ missed \in [Loader -> SUBSET (1 .. Files)]
  /\ began \in [Loader -> Nat] /\ \A l \in Loader : began[l] <= changes

(* The insert API holds its lock from the listing to the end of the load.  *)
Serialised ==
  \A h \in Handler :
    /\ op[h] \in {"idle", "done"} => adding[h] = {}
    /\ \/ op[h] \in {"list", "append", "write"}
       \/ op[h] = "load" /\ adding[h] # {}
       => insertLock = h

(* The files nobody has edited, but for the one of the insert API.         *)
Untouched == (Walked \ {FromAPI}) \ edited

(* What the API inserts is not in a file it has listed, unless the file    *)
(* was edited, or was written by the API itself.                           *)
Listed(h) == IF op[h] = "list" THEN Walked \ todo[h] ELSE Walked

LookedBy(h) ==
  /\ op[h] = "lock" => kind # "headers"
  /\ op[h] \in {"list", "append", "write"} =>
       /\ kind # "headers" /\ todo[h] \subseteq Walked
       /\ \A f \in Listed(h) \ edited :
            f # FromAPI \/ op[h] # "write" => ~Present(adding[h], disk[f].has)

Looked == \A h \in Handler : LookedBy(h)

(* What is about to be written keeps what the file holds, and what was     *)
(* written is there.                                                       *)
AppendedBy(h) ==
  FromAPI \notin edited =>
    /\ op[h] = "write" => disk[FromAPI].has \cup adding[h] \subseteq content[h].has
    /\ op[h] = "load" => adding[h] \subseteq disk[FromAPI].has

Appended == \A h \in Handler : AppendedBy(h)

(* The file of the API takes no password of an untouched file before it    *)
(* away, unless the user was named in it by an edit or from the start.     *)
Innocent(has) ==
  \A f \in Untouched : \A e \in disk[f].has :
    f < FromAPI /\ Displaces(has, e) => Displaces(named[FromAPI], e)

Innocents ==
  /\ \A g \in (1 .. Files) \ {FromAPI} : disk[g].has \subseteq named[g]
  /\ Innocent(disk[FromAPI].has)
  /\ \A h \in Handler : op[h] = "write" => Innocent(content[h].has)

(* A load never drops a file that nobody has edited, unless it could not   *)
(* read it or a later file names the user.                                 *)
HeldIn(f, found) ==
  \A e \in disk[f].has : e \in found \/ \E g \in Walked : g > f /\ Displaces(named[g], e)

CarriedBy(l) ==
  op[l] = "load" =>
    \A f \in Untouched : f \in todo[l] \/ f \in missed[l] \/ HeldIn(f, acc[l])

Carried == \A l \in Loader : CarriedBy(l)

(* A load that began at the last change has exactly what the files it has  *)
(* read say together.                                                      *)
Seen(l) == View((Walked \ todo[l]) \ missed[l])

ExactBy(l) ==
  op[l] = "load" =>
    /\ todo[l] \subseteq Walked /\ missed[l] \subseteq Walked \ todo[l]
    /\ \A x \in Walked \ todo[l], y \in todo[l] : x < y
    /\ began[l] = changes => acc[l] = Seen(l)

Exact == \A l \in Loader : ExactBy(l)

(* The last change is still to be noticed, being loaded, bad, given up or  *)
(* published.                                                              *)
Followed ==
  \/ noticed < changes \/ event \/ ~Sound \/ gaveUp
  \/ \E l \in Loader : op[l] = "load" /\ began[l] = changes
  \/ newest = changes

Accurate == ~overtaken /\ newest = changes => published = View(Walked \ blind)

(* The same for the snapshot as Carried says for a load.                   *)
Access == \A f \in Untouched : f \in blind \/ HeldIn(f, published)

ReloadInv ==
  /\ RlTypes /\ Serialised /\ Looked /\ Appended /\ Innocents
  /\ Carried /\ Exact /\ Followed /\ Accurate /\ InsertsKept /\ Access

(* FromAPI is one of the files.                                            *)
LEMMA FromAPIFile ==
  /\ FromAPI \in 1 .. Files /\ Walked \subseteq 1 .. Files /\ 1 .. Files \subseteq Nat
  /\ FileContent = [form : {"valid", "invalid", "garbled"}, has : SUBSET Entry]
  /\ Untouched \subseteq 1 .. Files /\ Untouched \subseteq Walked /\ FromAPI \notin Untouched
  BY ReloadAssumption DEF Walked, FileContent, Untouched

(* The watcher and the handlers are loaders, and nobody is neither.        *)
LEMMA Loaders ==
  /\ Handler \subseteq Loader /\ "watcher" \in Loader /\ Nobody \notin Handler
  /\ \A l \in Loader : l \notin Handler => l = "watcher"
  BY ReloadAssumption DEF Loader, Nobody

(* The file a walk reads next is the first it has not read.                *)
LEMMA NextFile ==
  ASSUME RlTypes, NEW l \in Loader, todo[l] # {}
  PROVE  /\ Min(todo[l]) \in todo[l] /\ Min(todo[l]) \in 1 .. Files
         /\ \A y \in todo[l] : Min(todo[l]) <= y
         /\ disk[Min(todo[l])].has \subseteq Entry
<1>1. todo[l] \subseteq Nat
  BY ReloadAssumption DEF RlTypes
<1>2. Min(todo[l]) \in todo[l] /\ \A y \in todo[l] : Min(todo[l]) <= y
  BY <1>1, MinMember
<1> QED
  BY <1>2 DEF RlTypes, FileContent

(* More entries displace more.                                             *)
LEMMA DisplacesMore ==
  ASSUME NEW S, NEW T, S \subseteq T, NEW e, Displaces(S, e)
  PROVE  Displaces(T, e)
  BY DEF Displaces

(* Reading the files in their order and letting each displace what was     *)
(* found before gives what the files say together.                         *)
LEMMA MergeView ==
  ASSUME RlTypes, NEW S \in SUBSET (1 .. Files), NEW f \in 1 .. Files,
         \A s \in S : s < f
  PROVE  View(S \cup {f}) = Merge(View(S), disk[f].has)
<1>0. /\ \A g \in 1 .. Files : disk[g].has \subseteq Entry
      /\ \A s \in S : s \in Nat /\ ~(s > f) /\ f > s /\ s # f
      /\ f \in Nat /\ ~(f > f) /\ S \subseteq 1 .. Files
  BY ReloadAssumption DEF RlTypes, FileContent
<1>1. ASSUME NEW e \in View(S \cup {f}) PROVE e \in Merge(View(S), disk[f].has)
  <2>1. PICK g \in S \cup {f} :
           e \in disk[g].has /\ \A h \in S \cup {f} : h > g => ~Displaces(disk[h].has, e)
    BY <1>1 DEF View
  <2>2. CASE g = f
    BY <2>1, <2>2 DEF Merge
  <2>3. CASE g \in S
    BY <1>0, <2>1, <2>3 DEF Merge, View
  <2> QED
    BY <2>2, <2>3
<1>2. ASSUME NEW e \in Merge(View(S), disk[f].has) PROVE e \in View(S \cup {f})
  <2>1. CASE e \in disk[f].has
    <3>1. e \in Entry /\ \A h \in S \cup {f} : ~(h > f)
      BY <1>0, <2>1
    <3> QED
      BY <2>1, <3>1 DEF View
  <2>2. CASE e \in View(S) /\ ~Displaces(disk[f].has, e)
    <3>1. PICK g \in S :
             e \in disk[g].has /\ \A h \in S : h > g => ~Displaces(disk[h].has, e)
      BY <2>2 DEF View
    <3> QED
      BY <2>2, <3>1 DEF View
  <2> QED
    BY <1>2, <2>1, <2>2 DEF Merge
<1> QED
  BY <1>1, <1>2

(* The invariant holds when the directory has been loaded at the start.    *)
LEMMA InitReloadInv == ReloadInit => ReloadInv
<1> SUFFICES ASSUME ReloadInit PROVE ReloadInv
  OBVIOUS
<1> USE ReloadAssumption, FromAPIFile, Loaders
<1>1. RlTypes
  BY DEF ReloadInit, RlTypes, Readable, Ops, FileContent
<1>2. Serialised /\ Looked /\ Appended /\ Carried /\ Exact
  BY DEF ReloadInit, Serialised, Looked, LookedBy, Appended, AppendedBy, Carried,
         CarriedBy, Exact, ExactBy
<1>3. \A f \in 1 .. Files : disk[f].has = named[f]
  BY DEF ReloadInit, Readable
<1>4. Innocents
  BY <1>3 DEF ReloadInit, Innocents, Innocent
<1>5. Walked \ blind = Walked
  BY DEF ReloadInit
<1>6. Followed /\ Accurate
  BY <1>5 DEF ReloadInit, Followed, Accurate, Effective
<1>7. InsertsKept
  BY DEF ReloadInit, InsertsKept
<1>8. Access
  <2> SUFFICES ASSUME NEW f \in Untouched, NEW e \in disk[f].has,
                      \A g \in Walked : g > f => ~Displaces(named[g], e)
               PROVE  e \in published
    BY DEF Access, HeldIn
  <2>1. e \in Entry
    BY <1>1 DEF RlTypes
  <2> QED
    BY <1>3, <2>1 DEF ReloadInit, Effective, View
<1> QED
  BY <1>1, <1>2, <1>4, <1>6, <1>7, <1>8 DEF ReloadInv

-----------------------------------------------------------------------------
(* Steps that leave the files alone. What they say together depends on the *)
(* files and the kind of the directory only.                               *)
LEMMA SameFiles ==
  ASSUME UNCHANGED <<kind, fileVars>>
  PROVE  /\ UNCHANGED <<disk, changes, edited, named>>
         /\ Walked' = Walked /\ Untouched' = Untouched /\ Sound' = Sound
  BY DEF fileVars, Walked, Untouched, Sound, Loadable

(* A loader that does not move keeps what it has.                          *)
LEMMA OtherLoader ==
  ASSUME UNCHANGED <<kind, fileVars>>, NEW l \in Loader, CarriedBy(l), ExactBy(l),
         op'[l] = op[l], todo'[l] = todo[l], acc'[l] = acc[l],
         began'[l] = began[l], missed'[l] = missed[l]
  PROVE  CarriedBy(l)' /\ ExactBy(l)'
<1>1. /\ UNCHANGED <<kind, disk, changes, edited, named>>
      /\ Walked' = Walked /\ Untouched' = Untouched
  BY SameFiles
<1>2. CarriedBy(l)'
  BY <1>1 DEF CarriedBy, HeldIn, Displaces
<1>3. Seen(l)' = Seen(l)
  BY <1>1 DEF Seen, View, Displaces
<1> QED
  BY <1>1, <1>2, <1>3 DEF ExactBy

(* A load that begins has read nothing.                                    *)
LEMMA BegunLoad ==
  ASSUME NEW l \in Loader, Walked' = Walked, Untouched' \subseteq Walked,
         op'[l] = "load", todo'[l] = Walked, acc'[l] = {}, missed'[l] = {}
  PROVE  CarriedBy(l)' /\ ExactBy(l)'
<1>1. CarriedBy(l)'
  BY DEF CarriedBy
<1>2. Seen(l)' = {}
  BY DEF Seen, View
<1> QED
  BY <1>1, <1>2 DEF ExactBy

(* What the snapshot says of the files.                                    *)
LEMMA SameSnapshot ==
  ASSUME UNCHANGED <<kind, fileVars, snapVars>>, Accurate, Access
  PROVE  Accurate' /\ Access'
<1>1. /\ UNCHANGED <<kind, disk, changes, edited, named>>
      /\ UNCHANGED <<published, newest, overtaken, blind>>
      /\ Walked' = Walked /\ Untouched' = Untouched
  BY SameFiles DEF snapVars
<1>2. View(Walked \ blind)' = View(Walked \ blind)
  BY <1>1 DEF View, Displaces
<1>3. Accurate'
  BY <1>1, <1>2 DEF Accurate
<1>4. Access'
  BY <1>1 DEF Access, HeldIn, Displaces
<1> QED
  BY <1>3, <1>4

(* A handler of the insert API that does not move, and one that is past it.*)
LEMMA OtherHandler ==
  ASSUME UNCHANGED <<kind, fileVars>>, NEW h \in Handler, LookedBy(h), AppendedBy(h),
         op'[h] = op[h], todo'[h] = todo[h], adding'[h] = adding[h],
         content'[h] = content[h]
  PROVE  LookedBy(h)' /\ AppendedBy(h)'
<1>1. UNCHANGED <<kind, disk, changes, edited, named>> /\ Walked' = Walked
  BY SameFiles
<1>2. Listed(h)' = Listed(h)
  BY <1>1 DEF Listed
<1> QED
  BY <1>1, <1>2 DEF LookedBy, AppendedBy, Present

(* What was innocent of the untouched files still is.                      *)
LEMMA SameInnocent ==
  ASSUME UNCHANGED <<kind, fileVars>>, Innocents,
         \A h \in Handler : op'[h] = "write" => Innocent(content'[h].has)
  PROVE  Innocents'
<1>1. UNCHANGED <<kind, disk, edited, named>> /\ Untouched' = Untouched
  BY SameFiles
<1>2. Innocent(disk[FromAPI].has)'
  BY <1>1 DEF Innocents, Innocent, Displaces
<1>3. ASSUME NEW h \in Handler, op'[h] = "write" PROVE Innocent(content[h].has)'
  BY <1>1, <1>3 DEF Innocent, Displaces
<1> QED
  BY <1>1, <1>2, <1>3 DEF Innocents

(* Nothing new is about to be written.                                     *)
LEMMA StillInnocent ==
  ASSUME UNCHANGED <<kind, fileVars>>, Innocents,
         \A h \in Handler : op'[h] = "write" => op[h] = "write" /\ content'[h] = content[h]
  PROVE  Innocents'
<1>1. \A h \in Handler : op'[h] = "write" => Innocent(content'[h].has)
  BY DEF Innocents
<1> QED
  BY <1>1, SameInnocent

-----------------------------------------------------------------------------
(* A change makes every load that is under way one of an older change, and *)
(* nobody has published the new one.                                       *)
LEMMA ChangeAges ==
  ASSUME RlTypes, NEW f \in 1 .. Files, NEW new \in FileContent, Change(f, new)
  PROVE  /\ changes' \in Nat /\ changes' = changes + 1 /\ newest < changes'
         /\ noticed < changes' /\ \A l \in Loader : began[l] < changes'
         /\ disk' \in [1 .. Files -> FileContent] /\ disk'[f] = new
         /\ \A g \in 1 .. Files : g # f => disk'[g] = disk[g]
  BY DEF RlTypes, Change

(* An edit, by hand or by the page, names what it writes.                  *)
LEMMA EditNames ==
  ASSUME RlTypes, NEW f \in 1 .. Files, NEW new \in FileContent, Edit(f, new)
  PROVE  /\ Change(f, new) /\ edited' = edited \cup {f}
         /\ named' \in [1 .. Files -> SUBSET Entry] /\ new.has \subseteq named'[f]
         /\ \A g \in 1 .. Files : named[g] \subseteq named'[g]
  BY DEF RlTypes, Edit, FileContent

(* What a change leaves as it was: the untouched files, and what was found *)
(* in them.                                                                *)
LEMMA ChangeLeaves ==
  ASSUME ReloadInv, NEW f \in 1 .. Files, kind' = kind, edited \subseteq edited',
         f \in edited' \cup {FromAPI},
         \A g \in 1 .. Files : g # f => disk'[g] = disk[g],
         \A g \in 1 .. Files : named[g] \subseteq named'[g]
  PROVE  /\ Walked' = Walked /\ Untouched' \subseteq Untouched
         /\ \A g \in Untouched' : disk'[g] = disk[g]
         /\ \A g \in 1 .. Files : \A e : Displaces(named[g], e) => Displaces(named[g], e)'
<1>1. Walked' = Walked /\ Untouched' \subseteq Untouched
  BY DEF Walked, Untouched
<1>2. \A g \in Untouched' : disk'[g] = disk[g]
  BY <1>1, FromAPIFile DEF Untouched
<1>3. \A g \in 1 .. Files : \A e : Displaces(named[g], e) => Displaces(named[g], e)'
  BY DEF Displaces
<1> QED
  BY <1>1, <1>2, <1>3

(* An older load after a change.                                           *)
LEMMA OlderLoad ==
  ASSUME ReloadInv, NEW f \in 1 .. Files, kind' = kind, edited \subseteq edited',
         f \in edited' \cup {FromAPI},
         \A g \in 1 .. Files : g # f => disk'[g] = disk[g],
         \A g \in 1 .. Files : named[g] \subseteq named'[g],
         NEW l \in Loader, began[l] < changes', began[l] \in Nat,
         op'[l] = op[l], todo'[l] = todo[l], acc'[l] = acc[l],
         began'[l] = began[l], missed'[l] = missed[l]
  PROVE  CarriedBy(l)' /\ ExactBy(l)'
<1>1. /\ Walked' = Walked /\ Untouched' \subseteq Untouched
      /\ \A g \in Untouched' : disk'[g] = disk[g]
      /\ \A g \in 1 .. Files : \A e : Displaces(named[g], e) => Displaces(named[g], e)'
  BY ChangeLeaves
<1>2. CarriedBy(l)'
  <2> SUFFICES ASSUME op[l] = "load", NEW g \in Untouched', g \notin todo[l],
                      g \notin missed[l], NEW e \in disk[g].has, e \notin acc[l]
               PROVE  \E k \in Walked : k > g /\ Displaces(named[k], e)'
    BY <1>1 DEF CarriedBy, HeldIn
  <2>1. PICK k \in Walked : k > g /\ Displaces(named[k], e)
    BY <1>1 DEF ReloadInv, Carried, CarriedBy, HeldIn
  <2> QED
    BY <1>1, <2>1, FromAPIFile
<1>3. ExactBy(l)'
  <2>1. began'[l] # changes'
    OBVIOUS
  <2>2. ExactBy(l)
    BY DEF ReloadInv, Exact
  <2> QED
    BY <1>1, <2>1, <2>2 DEF ExactBy
<1> QED
  BY <1>2, <1>3

(* The snapshot after a change.                                            *)
LEMMA OlderSnapshot ==
  ASSUME ReloadInv, NEW f \in 1 .. Files, kind' = kind, edited \subseteq edited',
         f \in edited' \cup {FromAPI},
         \A g \in 1 .. Files : g # f => disk'[g] = disk[g],
         \A g \in 1 .. Files : named[g] \subseteq named'[g],
         UNCHANGED snapVars, newest < changes', noticed < changes', newest \in Nat,
         noticed' = noticed
  PROVE  Followed' /\ Accurate' /\ Access'
<1>1. /\ Walked' = Walked /\ Untouched' \subseteq Untouched
      /\ \A g \in Untouched' : disk'[g] = disk[g]
      /\ \A g \in 1 .. Files : \A e : Displaces(named[g], e) => Displaces(named[g], e)'
  BY ChangeLeaves
<1>2. UNCHANGED <<published, newest, overtaken, blind>>
  BY DEF snapVars
<1>3. Followed' /\ Accurate'
  BY <1>2 DEF Followed, Accurate
<1>4. Access'
  <2> SUFFICES ASSUME NEW g \in Untouched', g \notin blind, NEW e \in disk[g].has,
                      e \notin published
               PROVE  \E k \in Walked : k > g /\ Displaces(named[k], e)'
    BY <1>1, <1>2 DEF Access, HeldIn
  <2>1. PICK k \in Walked : k > g /\ Displaces(named[k], e)
    BY <1>1 DEF ReloadInv, Access, HeldIn
  <2> QED
    BY <1>1, <2>1, FromAPIFile
<1> QED
  BY <1>3, <1>4

(* A handler of the insert API while somebody else edits a file: the file  *)
(* is an edited one from now on.                                           *)
LEMMA EditedMeanwhile ==
  ASSUME ReloadInv, NEW f \in 1 .. Files, NEW new \in FileContent, Edit(f, new),
         kind' = kind, inserted' = inserted, NEW h \in Handler,
         op'[h] = op[h], todo'[h] = todo[h], adding'[h] = adding[h],
         content'[h] = content[h]
  PROVE  LookedBy(h)' /\ AppendedBy(h)'
<1> USE FromAPIFile
<1>1. Change(f, new) /\ edited' = edited \cup {f} /\ RlTypes
  BY EditNames DEF ReloadInv
<1>2. \A g \in 1 .. Files : g # f => disk'[g] = disk[g]
  BY <1>1, ChangeAges
<1>3. Walked' = Walked
  BY DEF Walked
<1>4. Listed(h)' = Listed(h) /\ Listed(h) \subseteq 1 .. Files
  BY <1>3 DEF Listed
<1>5. LookedBy(h) /\ AppendedBy(h)
  BY DEF ReloadInv, Looked, Appended
<1>6. LookedBy(h)'
  <2> SUFFICES ASSUME op[h] \in {"list", "append", "write"}
               PROVE  /\ kind # "headers" /\ todo[h] \subseteq Walked
                      /\ \A g \in Listed(h) \ edited' : g # FromAPI \/ op[h] # "write" =>
                           ~Present(adding[h], disk[g].has)'
    BY <1>3, <1>4, <1>5 DEF LookedBy
  <2>1. \A g \in Listed(h) \ edited' : Present(adding[h], disk[g].has)' =>
                                       Present(adding[h], disk[g].has)
    BY <1>1, <1>2, <1>4 DEF Present
  <2> QED
    BY <1>1, <1>5, <2>1 DEF LookedBy
<1>7. AppendedBy(h)'
  BY <1>1, <1>2, <1>5 DEF AppendedBy
<1> QED
  BY <1>6, <1>7

(* Whom an edit takes a password from is said by what it named.            *)
LEMMA EditInnocent ==
  ASSUME ReloadInv, NEW f \in 1 .. Files, NEW new \in FileContent, Edit(f, new),
         kind' = kind,
         \A h \in Handler : op'[h] = "write" => op[h] = "write" /\ content'[h] = content[h]
  PROVE  Innocents'
<1> USE FromAPIFile
<1>1. /\ Change(f, new) /\ edited' = edited \cup {f} /\ RlTypes /\ Innocents
      /\ new.has \subseteq named'[f]
      /\ \A g \in 1 .. Files : named[g] \subseteq named'[g]
  BY EditNames DEF ReloadInv
<1>2. disk'[f] = new /\ \A g \in 1 .. Files : g # f => disk'[g] = disk[g]
  BY <1>1, ChangeAges
<1>3. /\ Walked' = Walked /\ Untouched' \subseteq Untouched
      /\ \A g \in Untouched' : disk'[g] = disk[g]
      /\ \A g \in 1 .. Files : \A e : Displaces(named[g], e) => Displaces(named[g], e)'
  BY <1>1, <1>2, ChangeLeaves
<1>4. \A g \in (1 .. Files) \ {FromAPI} : disk'[g].has \subseteq named'[g]
  BY <1>1, <1>2 DEF Innocents
<1>5. Innocent(disk[FromAPI].has)'
  <2> SUFFICES ASSUME NEW g \in Untouched', NEW e \in disk[g].has, g < FromAPI,
                      Displaces(disk[FromAPI].has, e)'
               PROVE  Displaces(named[FromAPI], e)'
    BY <1>3 DEF Innocent
  <2>1. CASE f = FromAPI
    BY <1>1, <1>2, <2>1 DEF Displaces
  <2>2. CASE f # FromAPI
    <3>1. Displaces(disk[FromAPI].has, e)
      BY <1>2, <2>2 DEF Displaces
    <3> QED
      BY <1>1, <1>3, <3>1 DEF Innocents, Innocent
  <2> QED
    BY <2>1, <2>2
<1>6. ASSUME NEW h \in Handler, op'[h] = "write" PROVE Innocent(content[h].has)'
  <2> SUFFICES ASSUME NEW g \in Untouched', NEW e \in disk[g].has, g < FromAPI,
                      Displaces(content[h].has, e)'
               PROVE  Displaces(named[FromAPI], e)'
    BY <1>3 DEF Innocent
  <2>1. Displaces(content[h].has, e) /\ op[h] = "write"
    BY <1>6 DEF Displaces
  <2> QED
    BY <1>1, <1>3, <2>1 DEF Innocents, Innocent
<1> QED
  BY <1>4, <1>5, <1>6 DEF Innocents

(* A file is edited by hand, or a certificate tool replaces it.            *)
LEMMA ExternalKeeps ==
  ASSUME ReloadInv, NEW f \in 1 .. Files, NEW new \in Contents, External(f, new)
  PROVE  ReloadInv'
<1> USE FromAPIFile, Loaders
<1>1. new \in FileContent /\ RlTypes /\ Edit(f, new)
  BY ReloadAssumption DEF ReloadInv, External
<1>2. /\ Change(f, new) /\ edited' = edited \cup {f}
      /\ named' \in [1 .. Files -> SUBSET Entry]
      /\ \A g \in 1 .. Files : named[g] \subseteq named'[g]
  BY <1>1, EditNames
<1>3. /\ changes' \in Nat /\ changes' = changes + 1 /\ newest < changes'
      /\ noticed < changes' /\ \A l \in Loader : began[l] < changes'
      /\ disk' \in [1 .. Files -> FileContent] /\ disk'[f] = new
      /\ \A g \in 1 .. Files : g # f => disk'[g] = disk[g]
  BY <1>1, <1>2, ChangeAges
<1>4. UNCHANGED <<kind, noticed, event, insertLock, op, adding, content, todo, acc,
                  began, missed, snapVars, inserted>>
  BY DEF External, walkVars
<1>5. RlTypes'
  <2>1. newest' = newest
    BY <1>4 DEF snapVars
  <2>2. /\ began' \in [Loader -> Nat] /\ kind' \in Kinds
        /\ noticed' \in Nat /\ newest' \in Nat
        /\ insertLock' \in Handler \cup {Nobody} /\ op' \in [Loader -> Ops]
        /\ adding' \in [Handler -> SUBSET Entry]
        /\ content' \in [Handler -> FileContent]
        /\ todo' \in [Loader -> SUBSET (1 .. Files)]
        /\ acc' \in [Loader -> SUBSET Entry]
        /\ missed' \in [Loader -> SUBSET (1 .. Files)]
    BY <1>1, <1>4, <2>1 DEF RlTypes
  <2>3. /\ noticed' <= changes' /\ newest' <= changes'
        /\ \A l \in Loader : began'[l] <= changes'
    <3>1. /\ noticed' < changes' /\ newest' < changes' /\ changes' \in Nat
          /\ \A l \in Loader : began'[l] < changes'
      BY <1>3, <1>4, <2>1, Zenon
    <3> HIDE FromAPIFile, Loaders
    <3> QED
      BY <2>2, <3>1
  <2> QED
    BY <1>2, <1>3, <2>2, <2>3 DEF RlTypes
<1>6. Serialised'
  BY <1>4 DEF ReloadInv, Serialised
<1>7. Looked' /\ Appended'
  BY <1>1, <1>4, EditedMeanwhile DEF Looked, Appended
<1>8. InsertsKept'
  BY <1>2, <1>3, <1>4 DEF ReloadInv, InsertsKept
<1>9. Innocents'
  BY <1>1, <1>4, EditInnocent
<1>10. ASSUME NEW l \in Loader PROVE CarriedBy(l)' /\ ExactBy(l)'
  <2>1. began[l] < changes' /\ began[l] \in Nat
    BY <1>1, <1>3 DEF RlTypes
  <2> QED
    BY <1>2, <1>3, <1>4, <2>1, OlderLoad
<1>11. Followed' /\ Accurate' /\ Access'
  <2>1. newest \in Nat
    BY <1>1 DEF RlTypes
  <2> QED
    BY <1>2, <1>3, <1>4, <2>1, OlderSnapshot
<1> QED
  BY <1>5, <1>6, <1>7, <1>8, <1>9, <1>10, <1>11 DEF ReloadInv, Carried, Exact

(* Loads that have begun by a change, and one that begins with it.         *)
LEMMA BeganBounded ==
  ASSUME NEW n \in Nat, NEW b \in [Loader -> Nat], \A l \in Loader : b[l] <= n,
         NEW h \in Loader
  PROVE  /\ [b EXCEPT ![h] = n] \in [Loader -> Nat]
         /\ \A l \in Loader : [b EXCEPT ![h] = n][l] <= n
  OBVIOUS

(* The types after a change by a handler that then loads.                  *)
LEMMA BegunTypes ==
  ASSUME RlTypes, NEW h \in Handler, NEW f \in 1 .. Files, NEW new \in FileContent,
         Change(f, new), BeginLoad(h, changes + 1),
         UNCHANGED <<kind, noticed, insertLock, adding, newest>>,
         named' \in [1 .. Files -> SUBSET Entry], content' \in [Handler -> FileContent]
  PROVE  RlTypes'
<1>1. /\ changes' \in Nat /\ changes' = changes + 1 /\ newest < changes'
      /\ noticed < changes' /\ \A l \in Loader : began[l] < changes'
      /\ disk' \in [1 .. Files -> FileContent]
  BY ChangeAges
<1>2. h \in Loader /\ Walked \subseteq 1 .. Files
  BY Loaders, FromAPIFile
<1>3. /\ op' \in [Loader -> Ops] /\ todo' \in [Loader -> SUBSET (1 .. Files)]
      /\ acc' \in [Loader -> SUBSET Entry]
      /\ missed' \in [Loader -> SUBSET (1 .. Files)]
  BY <1>2 DEF RlTypes, BeginLoad, Ops
<1>4. began' = [began EXCEPT ![h] = changes']
  BY <1>1 DEF BeginLoad
<1>5. began \in [Loader -> Nat] /\ \A l \in Loader : began[l] <= changes'
  <2>1. began \in [Loader -> Nat]
    BY DEF RlTypes
  <2> QED
    BY <1>1, <2>1
<1>6. began' \in [Loader -> Nat] /\ \A l \in Loader : began'[l] <= changes'
  BY <1>1, <1>2, <1>4, <1>5, BeganBounded
<1>7. /\ kind' \in Kinds /\ insertLock' \in Handler \cup {Nobody}
      /\ adding' \in [Handler -> SUBSET Entry]
      /\ noticed' \in Nat /\ newest' \in Nat
  BY DEF RlTypes
<1>8. noticed' <= changes' /\ newest' <= changes'
  BY <1>1, <1>7
<1> QED
  BY <1>1, <1>3, <1>6, <1>7, <1>8 DEF RlTypes

(* The editor replaces a file and loads the directory.                     *)
LEMMA SaveKeeps ==
  ASSUME ReloadInv, NEW h \in Handler, NEW f \in 1 .. Files, NEW new \in Contents,
         Save(h, f, new)
  PROVE  ReloadInv'
<1> USE FromAPIFile, Loaders
<1>1. new \in FileContent /\ RlTypes /\ Edit(f, new)
  BY ReloadAssumption DEF ReloadInv, Save
<1>2. /\ Change(f, new) /\ edited' = edited \cup {f}
      /\ named' \in [1 .. Files -> SUBSET Entry]
      /\ \A g \in 1 .. Files : named[g] \subseteq named'[g]
  BY <1>1, EditNames
<1>3. /\ changes' \in Nat /\ changes' = changes + 1 /\ newest < changes'
      /\ noticed < changes' /\ \A l \in Loader : began[l] < changes'
      /\ disk' \in [1 .. Files -> FileContent] /\ disk'[f] = new
      /\ \A g \in 1 .. Files : g # f => disk'[g] = disk[g]
  BY <1>1, <1>2, ChangeAges
<1>4. UNCHANGED <<kind, noticed, event, insertLock, adding, content, snapVars, inserted>>
      /\ BeginLoad(h, changes + 1) /\ op[h] = "idle"
  BY DEF Save
<1>5. RlTypes'
  <2>1. newest' = newest /\ content' \in [Handler -> FileContent]
    BY <1>1, <1>4 DEF RlTypes, snapVars
  <2> QED
    BY <1>1, <1>2, <1>4, <2>1, BegunTypes
<1>6. /\ op'[h] = "load" /\ todo'[h] = Walked /\ acc'[h] = {} /\ missed'[h] = {}
      /\ \A l \in Loader : l # h => op'[l] = op[l] /\ todo'[l] = todo[l]
              /\ acc'[l] = acc[l] /\ began'[l] = began[l] /\ missed'[l] = missed[l]
  BY <1>1, <1>4 DEF RlTypes, BeginLoad
<1>7. Serialised'
  BY <1>4, <1>6 DEF ReloadInv, Serialised
<1>8. adding[h] = {} /\ Walked' = Walked
  BY <1>4 DEF ReloadInv, Serialised, Walked
<1>9. ASSUME NEW k \in Handler PROVE LookedBy(k)' /\ AppendedBy(k)'
  <2>1. CASE k # h
    <3>1. /\ op'[k] = op[k] /\ todo'[k] = todo[k] /\ adding'[k] = adding[k]
          /\ content'[k] = content[k]
      BY <1>4, <1>6, <2>1
    <3> QED
      BY <1>1, <1>4, <3>1, EditedMeanwhile
  <2>2. CASE k = h
    BY <1>4, <1>6, <1>8, <2>2 DEF LookedBy, AppendedBy
  <2> QED
    BY <2>1, <2>2
<1>10. InsertsKept'
  BY <1>2, <1>3, <1>4 DEF ReloadInv, InsertsKept
<1>11. Innocents'
  <2>1. \A k \in Handler : op'[k] = "write" => op[k] = "write" /\ content'[k] = content[k]
    BY <1>4, <1>6
  <2> QED
    BY <1>1, <1>4, <2>1, EditInnocent
<1>12. ASSUME NEW l \in Loader PROVE CarriedBy(l)' /\ ExactBy(l)'
  <2>1. CASE l # h
    <3>1. began[l] < changes' /\ began[l] \in Nat
      BY <1>1, <1>3 DEF RlTypes
    <3> QED
      BY <1>2, <1>3, <1>4, <1>6, <2>1, <3>1, OlderLoad
  <2>2. CASE l = h
    <3>1. Untouched' \subseteq Walked
      BY <1>8 DEF Untouched
    <3> QED
      BY <1>6, <1>8, <2>2, <3>1, BegunLoad
  <2> QED
    BY <2>1, <2>2
<1>13. Followed' /\ Accurate' /\ Access'
  <2>1. newest \in Nat
    BY <1>1 DEF RlTypes
  <2> QED
    BY <1>2, <1>3, <1>4, <2>1, OlderSnapshot
<1> QED
  BY <1>5, <1>7, <1>9, <1>10, <1>11, <1>12, <1>13
     DEF ReloadInv, Carried, Exact, Looked, Appended

(* The insert API writes its file, alone, and loads the directory.         *)
LEMMA WriteEntryKeeps ==
  ASSUME ReloadInv, NEW h \in Handler, WriteEntry(h)
  PROVE  ReloadInv'
<1> USE FromAPIFile, Loaders
<1>1. content[h] \in FileContent /\ RlTypes /\ Change(FromAPI, content[h])
  BY DEF ReloadInv, WriteEntry, RlTypes
<1>2. UNCHANGED <<kind, edited, named, noticed, event, insertLock, adding, snapVars, inserted>>
      /\ BeginLoad(h, changes + 1) /\ op[h] = "write"
      /\ content' = [content EXCEPT ![h] = Readable({})]
  BY DEF WriteEntry
<1>3. /\ changes' \in Nat /\ changes' = changes + 1 /\ newest < changes'
      /\ noticed < changes' /\ \A l \in Loader : began[l] < changes'
      /\ disk' \in [1 .. Files -> FileContent] /\ disk'[FromAPI] = content[h]
      /\ \A g \in 1 .. Files : g # FromAPI => disk'[g] = disk[g]
  BY <1>1, ChangeAges
<1>4. RlTypes'
  <2>1. content' \in [Handler -> FileContent] /\ named' \in [1 .. Files -> SUBSET Entry]
    BY <1>1, <1>2 DEF RlTypes, Readable
  <2>2. newest' = newest
    BY <1>2 DEF snapVars
  <2> QED
    BY <1>1, <1>2, <2>1, <2>2, BegunTypes
<1>5. /\ op'[h] = "load" /\ todo'[h] = Walked /\ acc'[h] = {} /\ missed'[h] = {}
      /\ \A l \in Loader : l # h => op'[l] = op[l] /\ todo'[l] = todo[l]
              /\ acc'[l] = acc[l] /\ began'[l] = began[l] /\ missed'[l] = missed[l]
  BY <1>1, <1>2 DEF RlTypes, BeginLoad
<1>6. Serialised'
  BY <1>2, <1>5 DEF ReloadInv, Serialised
<1>7. insertLock = h /\ \A k \in Handler : k # h =>
         op[k] \notin {"list", "append", "write"} /\ (op[k] = "load" => adding[k] = {})
  BY <1>2 DEF ReloadInv, Serialised
<1>8. FromAPI \notin edited =>
        disk[FromAPI].has \subseteq disk'[FromAPI].has
        /\ adding[h] \subseteq disk'[FromAPI].has
  BY <1>2, <1>3 DEF ReloadInv, Appended, AppendedBy
<1>9. Looked' /\ Appended'
  BY <1>2, <1>5, <1>7, <1>8 DEF ReloadInv, Looked, LookedBy, Appended, AppendedBy
<1>10. InsertsKept'
  BY <1>2, <1>8 DEF ReloadInv, InsertsKept
<1>11. Walked' = Walked /\ Untouched' = Untouched
  BY <1>2 DEF Walked, Untouched
<1>12. Innocents'
  <2>1. Innocents /\ \A g \in Untouched : disk'[g] = disk[g]
    BY <1>3 DEF ReloadInv
  <2>2. Innocent(disk[FromAPI].has)'
    <3> SUFFICES ASSUME NEW g \in Untouched, NEW e \in disk[g].has, g < FromAPI,
                        Displaces(disk[FromAPI].has, e)'
                 PROVE  Displaces(named[FromAPI], e)'
      BY <1>11, <2>1 DEF Innocent
    <3>1. Displaces(content[h].has, e)
      BY <1>2, <1>3 DEF Displaces
    <3>2. Displaces(named[FromAPI], e)
      BY <1>2, <2>1, <3>1 DEF Innocents, Innocent
    <3> QED
      BY <1>2, <3>2 DEF Displaces
  <2>3. \A k \in Handler : op'[k] # "write"
    BY <1>5, <1>7
  <2> QED
    BY <1>2, <1>3, <2>1, <2>2, <2>3 DEF Innocents
<1>13. edited \subseteq edited' /\ \A g \in 1 .. Files : named[g] \subseteq named'[g]
  BY <1>2
<1>14. ASSUME NEW l \in Loader PROVE CarriedBy(l)' /\ ExactBy(l)'
  <2>1. CASE l # h
    <3>1. began[l] < changes' /\ began[l] \in Nat
      BY <1>1, <1>3 DEF RlTypes
    <3> QED
      BY <1>2, <1>3, <1>5, <1>13, <2>1, <3>1, OlderLoad
  <2>2. CASE l = h
    BY <1>5, <1>11, <2>2, BegunLoad
  <2> QED
    BY <2>1, <2>2
<1>15. Followed' /\ Accurate' /\ Access'
  <2>1. newest \in Nat
    BY <1>1 DEF RlTypes
  <2> QED
    BY <1>2, <1>3, <1>13, <2>1, OlderSnapshot
<1> QED
  BY <1>4, <1>6, <1>9, <1>10, <1>12, <1>14, <1>15 DEF ReloadInv, Carried, Exact

-----------------------------------------------------------------------------
(* Poll and Consume: the watcher.                                          *)
LEMMA PollKeeps == ASSUME ReloadInv, Poll PROVE ReloadInv'
<1>1. /\ UNCHANGED <<kind, fileVars, insertLock, op, adding, content, walkVars,
                     snapVars, gaveUp, inserted>>
      /\ event' = TRUE /\ noticed' = changes
  BY DEF Poll
<1>2. /\ UNCHANGED <<disk, changes, edited, named, todo, acc, began, missed, newest>>
      /\ Walked' = Walked /\ Untouched' = Untouched
  BY <1>1, SameFiles DEF walkVars, snapVars
<1>3. RlTypes'
  BY <1>1, <1>2 DEF ReloadInv, RlTypes
<1>4. Serialised' /\ InsertsKept'
  BY <1>1, <1>2 DEF ReloadInv, Serialised, InsertsKept
<1>5. Looked' /\ Appended'
  BY <1>1, <1>2, OtherHandler DEF ReloadInv, Looked, Appended
<1>6. Innocents'
  BY <1>1, StillInnocent DEF ReloadInv
<1>7. Carried' /\ Exact'
  BY <1>1, <1>2, OtherLoader DEF ReloadInv, Carried, Exact
<1>8. Accurate' /\ Access'
  BY <1>1, SameSnapshot DEF ReloadInv
<1>9. Followed'
  BY <1>1 DEF Followed
<1> QED
  BY <1>3, <1>4, <1>5, <1>6, <1>7, <1>8, <1>9 DEF ReloadInv

LEMMA ConsumeKeeps == ASSUME ReloadInv, Consume PROVE ReloadInv'
<1>1. /\ UNCHANGED <<kind, fileVars, noticed, insertLock, adding, content, snapVars,
                     gaveUp, inserted>>
      /\ BeginLoad("watcher", changes)
  BY DEF Consume
<1>2. /\ UNCHANGED <<disk, changes, edited, named, newest>>
      /\ Walked' = Walked /\ Untouched' = Untouched
  BY <1>1, SameFiles DEF snapVars
<1>3. Untouched \subseteq Walked /\ Walked \subseteq 1 .. Files
  BY FromAPIFile
<1>4. RlTypes'
  BY <1>1, <1>2, <1>3, Loaders DEF ReloadInv, RlTypes, BeginLoad, Ops
<1>5. /\ op'["watcher"] = "load" /\ todo'["watcher"] = Walked
      /\ acc'["watcher"] = {} /\ missed'["watcher"] = {} /\ began'["watcher"] = changes
      /\ \A l \in Loader : l # "watcher" => op'[l] = op[l] /\ todo'[l] = todo[l]
              /\ acc'[l] = acc[l] /\ began'[l] = began[l] /\ missed'[l] = missed[l]
  BY <1>1, Loaders DEF ReloadInv, RlTypes, BeginLoad
<1>6. \A h \in Handler : op'[h] = op[h] /\ todo'[h] = todo[h]
  BY <1>5, Loaders, ReloadAssumption
<1>7. Serialised' /\ InsertsKept'
  BY <1>1, <1>2, <1>6 DEF ReloadInv, Serialised, InsertsKept
<1>8. Looked' /\ Appended'
  BY <1>1, <1>6, OtherHandler DEF ReloadInv, Looked, Appended
<1>9. Innocents'
  BY <1>1, <1>6, StillInnocent DEF ReloadInv
<1>10. ASSUME NEW l \in Loader PROVE CarriedBy(l)' /\ ExactBy(l)'
  <2>1. CASE l = "watcher"
    BY <1>2, <1>3, <1>5, <2>1, BegunLoad
  <2>2. CASE l # "watcher"
    BY <1>1, <1>5, <2>2, OtherLoader DEF ReloadInv, Carried, Exact
  <2> QED
    BY <2>1, <2>2
<1>11. Accurate' /\ Access'
  BY <1>1, SameSnapshot DEF ReloadInv
<1>12. Followed'
  BY <1>2, <1>5, Loaders DEF Followed
<1> QED
  BY <1>4, <1>7, <1>8, <1>9, <1>10, <1>11, <1>12 DEF ReloadInv, Carried, Exact

-----------------------------------------------------------------------------
(* The insert API before it writes.                                        *)
InsertStep(h) ==
  \/ \E e \in Inserts : Insert(h, e)
  \/ TakeInsertLock(h) \/ ListFile(h) \/ AppendEntry(h) \/ InsertEnds(h)

(* The listing finds the entry in no file, so appending it displaces       *)
(* nothing in the file of the API, and no password of another file.        *)
LEMMA AppendIsInnocent ==
  ASSUME ReloadInv, NEW h \in Handler, AppendEntry(h)
  PROVE  /\ FromAPI \notin edited =>
              disk[FromAPI].has \cup adding[h] \subseteq content'[h].has
         /\ Innocent(content'[h].has)
<1> USE FromAPIFile
<1>1. /\ content'[h].has = Merge(disk[FromAPI].has, adding[h]) /\ op[h] = "append"
  BY DEF ReloadInv, RlTypes, AppendEntry
<1>2. kind # "headers" /\ \A f \in Walked \ edited : ~Present(adding[h], disk[f].has)
  BY <1>1 DEF ReloadInv, Looked, LookedBy, Listed
<1>3. FromAPI \in Walked
  BY <1>2 DEF Walked
<1>4. FromAPI \notin edited =>
        disk[FromAPI].has \cup adding[h] \subseteq content'[h].has
  BY <1>1, <1>2, <1>3 DEF Merge, Displaces, Present
<1>5. Innocent(content'[h].has)
  <2> SUFFICES ASSUME NEW f \in Untouched, NEW e \in disk[f].has, f < FromAPI,
                      Displaces(content'[h].has, e)
               PROVE  Displaces(named[FromAPI], e)
    BY DEF Innocent
  <2>1. ~Displaces(adding[h], e)
    BY <1>2 DEF Untouched, Displaces, Present
  <2>2. Displaces(disk[FromAPI].has, e)
    BY <1>1, <2>1 DEF Merge, Displaces
  <2> QED
    BY <2>2 DEF ReloadInv, Innocents, Innocent
<1> QED
  BY <1>4, <1>5

(* A step of the listing: what is listed now does not have the entry.      *)
LEMMA ListFileLooks ==
  ASSUME ReloadInv, NEW h \in Handler, ListFile(h)
  PROVE  /\ LookedBy(h)' /\ op'[h] \in {"list", "append"}
<1> DEFINE f == Min(todo[h])
<1>1. h \in Loader
  BY Loaders
<1>2. f \in todo[h]
  BY <1>1, NextFile DEF ReloadInv, ListFile
<1> HIDE DEF f
<1>3. /\ op[h] = "list" /\ UNCHANGED <<kind, fileVars, adding>>
      /\ ~Present(adding[h], disk[f].has) /\ todo'[h] = todo[h] \ {f}
      /\ op'[h] = IF todo'[h] = {} THEN "append" ELSE "list"
  BY <1>1 DEF ListFile, ReloadInv, RlTypes, f
<1>4. UNCHANGED <<kind, disk, edited>> /\ Walked' = Walked
  BY <1>3, SameFiles
<1>5. /\ kind # "headers" /\ todo[h] \subseteq Walked
      /\ \A g \in (Walked \ todo[h]) \ edited : ~Present(adding[h], disk[g].has)
  BY <1>3 DEF ReloadInv, Looked, LookedBy, Listed
<1>6. Listed(h)' \subseteq (Walked \ todo[h]) \cup {f}
  BY <1>3, <1>4 DEF Listed
<1>7. \A g \in Listed(h)' \ edited : ~Present(adding[h], disk[g].has)'
  BY <1>3, <1>4, <1>5, <1>6 DEF Present
<1> QED
  BY <1>3, <1>4, <1>5, <1>7 DEF LookedBy

LEMMA InsertStepKeeps ==
  ASSUME ReloadInv, NEW h \in Handler, InsertStep(h)
  PROVE  ReloadInv'
<1> USE FromAPIFile, Loaders
<1>1. /\ UNCHANGED <<kind, fileVars, noticed, event, acc, began, missed, snapVars,
                     gaveUp, inserted>>
      /\ op[h] # "load" /\ op'[h] # "load" /\ op'[h] \in Ops
      /\ op' = [op EXCEPT ![h] = op'[h]]
  BY DEF ReloadInv, RlTypes, InsertStep, Insert, TakeInsertLock, Listing, ListFile,
         AppendEntry, InsertEnds, walkVars, Ops
<1>2. todo' = [todo EXCEPT ![h] = todo'[h]] /\ todo'[h] \subseteq 1 .. Files
  <2>1. CASE TakeInsertLock(h)
    BY <2>1 DEF ReloadInv, RlTypes, TakeInsertLock, Listing
  <2>2. CASE ListFile(h)
    BY <2>2 DEF ReloadInv, RlTypes, ListFile
  <2>3. CASE InsertEnds(h)
    BY <2>3 DEF ReloadInv, RlTypes, InsertEnds
  <2>4. CASE todo' = todo
    BY <2>4 DEF ReloadInv, RlTypes
  <2> QED
    BY <2>1, <2>2, <2>3, <2>4 DEF InsertStep, Insert, AppendEntry, walkVars
<1>3. adding' = [adding EXCEPT ![h] = adding'[h]] /\ adding'[h] \subseteq Entry
  <2>1. CASE \E e \in Inserts : Insert(h, e)
    <3> HIDE FromAPIFile
    <3>1. PICK e \in Inserts : Insert(h, e)
      BY <2>1
    <3>2. {e} \subseteq Entry
      BY ReloadAssumption
    <3> QED
      BY <3>1, <3>2 DEF ReloadInv, RlTypes, Insert
  <2>2. CASE InsertEnds(h)
    BY <2>2 DEF ReloadInv, RlTypes, InsertEnds
  <2>3. CASE adding' = adding
    BY <2>3 DEF ReloadInv, RlTypes
  <2> QED
    BY <2>1, <2>2, <2>3 DEF InsertStep, TakeInsertLock, Listing, ListFile, AppendEntry
<1>4. content' = [content EXCEPT ![h] = content'[h]] /\ content'[h] \in FileContent
  <2>1. CASE AppendEntry(h)
    <3>1. disk[FromAPI] \in FileContent /\ adding[h] \subseteq Entry
      BY DEF ReloadInv, RlTypes
    <3>2. Merge(disk[FromAPI].has, adding[h]) \subseteq Entry
      BY <3>1 DEF Merge
    <3> QED
      BY <2>1, <3>1, <3>2 DEF ReloadInv, RlTypes, AppendEntry
  <2>2. CASE InsertEnds(h)
    BY <2>2 DEF ReloadInv, RlTypes, InsertEnds, Readable
  <2>3. CASE content' = content
    BY <2>3 DEF ReloadInv, RlTypes
  <2> QED
    BY <2>1, <2>2, <2>3 DEF InsertStep, Insert, TakeInsertLock, Listing, ListFile
<1>5. insertLock' \in Handler \cup {Nobody}
  BY DEF ReloadInv, RlTypes, InsertStep, Insert, TakeInsertLock, Listing, ListFile,
         AppendEntry, InsertEnds, Unlocked
<1>6. RlTypes'
  BY <1>1, <1>2, <1>3, <1>4, <1>5 DEF ReloadInv, RlTypes, fileVars, snapVars
<1>7. \A l \in Loader : l # h => op'[l] = op[l] /\ todo'[l] = todo[l]
  BY <1>1, <1>2 DEF ReloadInv, RlTypes
<1>8. \A k \in Handler : k # h => adding'[k] = adding[k] /\ content'[k] = content[k]
  BY <1>3, <1>4 DEF ReloadInv, RlTypes
<1>9. Serialised'
  <2> SUFFICES ASSUME NEW k \in Handler
               PROVE  /\ op'[k] \in {"idle", "done"} => adding'[k] = {}
                      /\ \/ op'[k] \in {"list", "append", "write"}
                         \/ op'[k] = "load" /\ adding'[k] # {}
                         => insertLock' = k
    BY DEF Serialised
  <2>1. CASE k = h
    BY <1>1, <2>1 DEF ReloadInv, RlTypes, Serialised, InsertStep, Insert,
                      TakeInsertLock, Listing, ListFile, AppendEntry, InsertEnds
  <2>2. CASE k # h
    <3>1. insertLock = k => insertLock' = k
      BY <2>2 DEF InsertStep, Insert, TakeInsertLock, Listing, ListFile,
                  AppendEntry, InsertEnds, Unlocked
    <3> QED
      BY <2>2, <3>1, <1>7, <1>8 DEF ReloadInv, Serialised
  <2> QED
    BY <2>1, <2>2
<1>10. UNCHANGED <<disk, changes, edited, named, newest>> /\ Walked' = Walked
       /\ Untouched' = Untouched /\ Sound' = Sound
  BY <1>1, SameFiles DEF snapVars
<1>11. op'[h] = "write" => AppendEntry(h)
  BY <1>1 DEF ReloadInv, RlTypes, InsertStep, Insert, TakeInsertLock, Listing,
              ListFile, InsertEnds
<1>12. AppendEntry(h) => op[h] = "append" /\ op'[h] = "write" /\ adding' = adding
                         /\ todo' = todo
  BY DEF AppendEntry, ReloadInv, RlTypes, walkVars
<1>13. LookedBy(h)'
  <2>1. CASE ListFile(h)
    BY <2>1, ListFileLooks
  <2>2. CASE TakeInsertLock(h)
    <3>1. op[h] = "lock" /\ op'[h] = "list" /\ todo'[h] = Walked /\ adding' = adding
      BY <2>2 DEF TakeInsertLock, Listing, ReloadInv, RlTypes
    <3>2. Listed(h)' = {}
      BY <1>10, <3>1 DEF Listed
    <3>3. kind # "headers"
      BY <3>1 DEF ReloadInv, Looked, LookedBy
    <3> QED
      BY <1>1, <1>10, <3>1, <3>2, <3>3 DEF LookedBy
  <2>3. CASE AppendEntry(h)
    <3>1. Listed(h)' = Listed(h)
      BY <1>10, <1>12, <2>3 DEF Listed
    <3>2. LookedBy(h)
      BY DEF ReloadInv, Looked
    <3> QED
      BY <1>1, <1>10, <1>12, <2>3, <3>1, <3>2 DEF LookedBy, Present
  <2>4. CASE (\E e \in Inserts : Insert(h, e)) \/ InsertEnds(h)
    <3>1. op'[h] \in {"lock", "done"} /\ (op'[h] = "lock" => kind # "headers")
      BY <2>4 DEF Insert, InsertEnds, ReloadInv, RlTypes
    <3> QED
      BY <1>1, <3>1 DEF LookedBy
  <2> QED
    BY <2>1, <2>2, <2>3, <2>4 DEF InsertStep
<1>14. AppendedBy(h)'
  BY <1>1, <1>10, <1>11, <1>12, AppendIsInnocent DEF AppendedBy
<1>15. ASSUME NEW k \in Handler, k # h PROVE LookedBy(k)' /\ AppendedBy(k)'
  BY <1>1, <1>7, <1>8, <1>15, OtherHandler DEF ReloadInv, Looked, Appended
<1>16. Innocents'
  <2>1. CASE AppendEntry(h)
    <3>1. Innocents /\ Innocent(content'[h].has)
      BY <2>1, AppendIsInnocent DEF ReloadInv
    <3>2. ASSUME NEW k \in Handler, op'[k] = "write" PROVE Innocent(content'[k].has)
      <4>1. CASE k = h
        BY <3>1, <4>1
      <4>2. CASE k # h
        BY <1>7, <1>8, <3>1, <3>2, <4>2 DEF Innocents
      <4> QED
        BY <4>1, <4>2
    <3> QED
      BY <1>1, <3>1, <3>2, SameInnocent
  <2>2. CASE ~AppendEntry(h)
    BY <1>1, <1>7, <1>8, <1>11, <2>2, StillInnocent DEF ReloadInv
  <2> QED
    BY <2>1, <2>2
<1>17. ASSUME NEW l \in Loader PROVE CarriedBy(l)' /\ ExactBy(l)'
  <2>1. CASE l = h
    BY <1>1, <2>1 DEF CarriedBy, ExactBy
  <2>2. CASE l # h
    BY <1>1, <1>7, <2>2, OtherLoader DEF ReloadInv, Carried, Exact
  <2> QED
    BY <2>1, <2>2
<1>18. Followed'
  BY <1>1, <1>7, <1>10 DEF ReloadInv, Followed
<1>19. Accurate' /\ Access'
  BY <1>1, SameSnapshot DEF ReloadInv
<1>20. InsertsKept'
  BY <1>1, <1>10 DEF ReloadInv, InsertsKept
<1> QED
  BY <1>6, <1>9, <1>13, <1>14, <1>15, <1>16, <1>17, <1>18, <1>19, <1>20
     DEF ReloadInv, Looked, Appended, Carried, Exact

-----------------------------------------------------------------------------
(* A load ends, and a handler answers: nothing is said of what it has      *)
(* found any more.                                                         *)
LEMMA EndLoadKeeps ==
  ASSUME ReloadInv, NEW l \in Loader, op[l] = "load", EndLoad(l),
         newest' \in Nat, newest' <= changes
  PROVE  /\ RlTypes' /\ Serialised' /\ Looked' /\ Appended' /\ Innocents'
         /\ Carried' /\ Exact' /\ InsertsKept'
         /\ \A m \in Loader : m # l => op'[m] = op[m] /\ began'[m] = began[m]
<1> USE Loaders
<1>1. /\ UNCHANGED <<kind, fileVars, noticed, event, content>>
      /\ todo' = [todo EXCEPT ![l] = {}] /\ acc' = [acc EXCEPT ![l] = {}]
      /\ began' = [began EXCEPT ![l] = 0] /\ missed' = [missed EXCEPT ![l] = {}]
      /\ op' = [op EXCEPT ![l] = Ended(l)] /\ insertLock' = Unlocked(l)
  BY DEF EndLoad
<1>2. /\ inserted' = IF l \in Handler THEN inserted \cup adding[l] ELSE inserted
      /\ adding' = IF l \in Handler THEN [adding EXCEPT ![l] = {}] ELSE adding
  BY DEF EndLoad
<1>3. Ended(l) \in {"done", "idle"}
  BY DEF Ended
<1>4. \A m \in Loader : m # l => op'[m] = op[m] /\ todo'[m] = todo[m]
         /\ acc'[m] = acc[m] /\ began'[m] = began[m] /\ missed'[m] = missed[m]
  BY <1>1 DEF ReloadInv, RlTypes
<1>5. op'[l] \in {"done", "idle"}
  BY <1>1, <1>3 DEF ReloadInv, RlTypes
<1>6. /\ \A k \in Handler : k # l => adding'[k] = adding[k]
      /\ l \in Handler => adding'[l] = {}
  BY <1>2 DEF ReloadInv, RlTypes
<1>7. UNCHANGED <<disk, changes, edited, named>> /\ Walked' = Walked
      /\ Untouched' = Untouched
  BY <1>1, SameFiles
<1>8. RlTypes'
  <2>1. insertLock' \in Handler \cup {Nobody} /\ op' \in [Loader -> Ops]
    BY <1>1, <1>3 DEF ReloadInv, RlTypes, Unlocked, Ops
  <2>2. adding' \in [Handler -> SUBSET Entry]
    BY <1>2 DEF ReloadInv, RlTypes
  <2>3. /\ todo' \in [Loader -> SUBSET (1 .. Files)] /\ acc' \in [Loader -> SUBSET Entry]
        /\ missed' \in [Loader -> SUBSET (1 .. Files)] /\ began' \in [Loader -> Nat]
        /\ \A m \in Loader : began'[m] <= changes
    BY <1>1 DEF ReloadInv, RlTypes
  <2> QED
    BY <1>1, <1>7, <2>1, <2>2, <2>3 DEF ReloadInv, RlTypes
<1>9. Serialised'
  BY <1>1, <1>4, <1>5, <1>6 DEF ReloadInv, Serialised, Unlocked
<1>10. ASSUME NEW k \in Handler PROVE LookedBy(k)' /\ AppendedBy(k)'
  <2>1. CASE k = l
    BY <1>5, <2>1 DEF LookedBy, AppendedBy
  <2>2. CASE k # l
    BY <1>1, <1>4, <1>6, <2>2, OtherHandler DEF ReloadInv, Looked, Appended
  <2> QED
    BY <2>1, <2>2
<1>11. InsertsKept'
  BY <1>2, <1>7 DEF ReloadInv, Appended, AppendedBy, InsertsKept
<1>12. Innocents'
  <2>1. \A k \in Handler : op'[k] = "write" => op[k] = "write" /\ content'[k] = content[k]
    BY <1>1, <1>4, <1>5
  <2> QED
    BY <1>1, <2>1, StillInnocent DEF ReloadInv
<1>13. ASSUME NEW m \in Loader PROVE CarriedBy(m)' /\ ExactBy(m)'
  <2>1. CASE m = l
    BY <1>5, <2>1 DEF CarriedBy, ExactBy
  <2>2. CASE m # l
    BY <1>1, <1>4, <2>2, OtherLoader DEF ReloadInv, Carried, Exact
  <2> QED
    BY <2>1, <2>2
<1> QED
  BY <1>4, <1>8, <1>9, <1>10, <1>11, <1>12, <1>13
     DEF Looked, Appended, Carried, Exact

(* A walk goes on after a file.  What it has found before stays, but for   *)
(* what the file displaces.                                                *)
LEMMA PassedKeeps ==
  ASSUME ReloadInv, NEW l \in Loader, Walking(l), NEW f, f = Min(todo[l]),
         NEW has, NEW skip, Passed(l, f, has, skip),
         \/ has = disk[f].has /\ skip = {}
         \/ has = {} /\ skip = {f}
  PROVE  ReloadInv'
<1> USE Loaders
<1>1. /\ f \in todo[l] /\ f \in 1 .. Files /\ disk[f].has \subseteq Entry
      /\ has \subseteq Entry /\ skip \subseteq {f} /\ \A y \in todo[l] : f <= y
  BY NextFile DEF Walking, ReloadInv
<1>2. /\ UNCHANGED <<kind, fileVars, noticed, event, insertLock, op, adding, content,
                     began, snapVars, gaveUp, inserted>>
      /\ op[l] = "load"
  BY DEF Passed, Walking
<1>3. /\ todo'[l] = todo[l] \ {f} /\ acc'[l] = Merge(acc[l], has)
      /\ missed'[l] = missed[l] \cup skip
      /\ \A m \in Loader : m # l => todo'[m] = todo[m] /\ acc'[m] = acc[m]
                                    /\ missed'[m] = missed[m]
  BY DEF Passed, ReloadInv, RlTypes
<1>4. UNCHANGED <<disk, changes, edited, named, newest>> /\ Walked' = Walked
      /\ Untouched' = Untouched /\ Sound' = Sound
  BY <1>2, SameFiles DEF snapVars
<1>5. RlTypes'
  <2>1. Merge(acc[l], has) \subseteq Entry
    BY <1>1 DEF Merge, ReloadInv, RlTypes
  <2>2. /\ todo' \in [Loader -> SUBSET (1 .. Files)] /\ acc' \in [Loader -> SUBSET Entry]
        /\ missed' \in [Loader -> SUBSET (1 .. Files)]
    BY <1>1, <2>1 DEF Passed, ReloadInv, RlTypes
  <2> QED
    BY <1>2, <1>4, <2>2 DEF ReloadInv, RlTypes
<1>6. Serialised' /\ InsertsKept'
  BY <1>2, <1>4 DEF ReloadInv, Serialised, InsertsKept
<1>7. ASSUME NEW k \in Handler PROVE LookedBy(k)' /\ AppendedBy(k)'
  <2>1. CASE k = l
    BY <1>2, <1>4, <2>1 DEF ReloadInv, Looked, LookedBy, Appended, AppendedBy
  <2>2. CASE k # l
    BY <1>2, <1>3, <2>2, OtherHandler DEF ReloadInv, Looked, Appended
  <2> QED
    BY <2>1, <2>2
<1>8. Innocents'
  BY <1>2, StillInnocent DEF ReloadInv
<1>9. /\ todo[l] \subseteq Walked /\ missed[l] \subseteq Walked \ todo[l]
      /\ \A x \in Walked \ todo[l], y \in todo[l] : x < y
      /\ began[l] = changes => acc[l] = Seen(l)
  BY <1>2 DEF ReloadInv, Exact, ExactBy
<1>10. CarriedBy(l)'
  <2> SUFFICES ASSUME NEW g \in Untouched, g \notin todo'[l], g \notin missed'[l],
                      NEW e \in disk[g].has, e \notin acc'[l],
                      \A k \in Walked : k > g => ~Displaces(named[k], e)
               PROVE  FALSE
    BY <1>2, <1>4 DEF CarriedBy, HeldIn, Displaces
  <2>1. CASE g \in todo[l]
    <3>1. g = f /\ skip = {} /\ has = disk[f].has
      BY <1>3, <2>1
    <3> QED
      BY <1>3, <3>1 DEF Merge
  <2>2. CASE g \notin todo[l]
    <3>1. e \in acc[l]
      BY <1>2, <1>3, <2>2 DEF ReloadInv, Carried, CarriedBy, HeldIn
    <3>2. Displaces(has, e) /\ has = disk[f].has
      BY <1>3, <3>1 DEF Merge, Displaces
    <3>3. g \in Walked /\ f \in Walked /\ g < f /\ g \in Nat /\ f \in Nat
      BY <1>1, <1>9, <2>2, FromAPIFile
    <3>4. Displaces(named[f], e)
      <4>1. CASE f = FromAPI
        BY <3>2, <3>3, <4>1 DEF ReloadInv, Innocents, Innocent
      <4>2. CASE f # FromAPI
        <5>1. disk[f].has \subseteq named[f]
          BY <1>1, <4>2 DEF ReloadInv, Innocents
        <5> QED
          BY <3>2, <5>1, DisplacesMore
      <4> QED
        BY <4>1, <4>2
    <3> QED
      BY <3>3, <3>4
  <2> QED
    BY <2>1, <2>2
<1>11. ExactBy(l)'
  <2>1. /\ todo'[l] \subseteq Walked /\ missed'[l] \subseteq Walked \ todo'[l]
        /\ \A x \in Walked \ todo'[l], y \in todo'[l] : x < y
    <3>1. \A y \in todo'[l] : f < y
      <4> TAKE y \in todo'[l]
      <4>1. y \in todo[l] /\ y # f /\ f <= y
        BY <1>1, <1>3
      <4>2. f \in Nat /\ y \in Nat
        BY <1>1, <1>9, <4>1, FromAPIFile
      <4> QED
        BY <4>1, <4>2
    <3> QED
      BY <1>1, <1>3, <1>9, <3>1
  <2>2. ASSUME began[l] = changes PROVE acc'[l] = Seen(l)'
    <3> DEFINE S == (Walked \ todo[l]) \ missed[l]
               T == (Walked \ todo'[l]) \ missed'[l]
    <3>1. Seen(l)' = View(T)
      BY <1>2, <1>3, <1>4 DEF Seen, View, Displaces
    <3>2. acc[l] = View(S)
      BY <1>9, <2>2 DEF Seen
    <3>3. CASE skip = {} /\ has = disk[f].has
      <4>1. T = S \cup {f}
        BY <1>1, <1>3, <1>9, <3>3
      <4>2. S \in SUBSET (1 .. Files) /\ \A s \in S : s < f
        BY <1>1, <1>9, FromAPIFile
      <4> HIDE DEF S, T
      <4>3. View(S \cup {f}) = Merge(View(S), disk[f].has)
        BY <1>1, <4>2, MergeView DEF ReloadInv
      <4> QED
        BY <1>3, <3>1, <3>2, <3>3, <4>1, <4>3
    <3>4. CASE skip = {f} /\ has = {}
      <4>1. T = S
        BY <1>1, <1>3, <1>9, <3>4
      <4>2. Merge(acc[l], {}) = acc[l]
        BY DEF Merge, Displaces
      <4> HIDE DEF S, T
      <4> QED
        BY <1>3, <3>1, <3>2, <3>4, <4>1, <4>2
    <3> QED
      BY <3>3, <3>4
  <2> QED
    BY <1>2, <1>4, <2>1, <2>2 DEF ExactBy
<1>12. ASSUME NEW m \in Loader, m # l PROVE CarriedBy(m)' /\ ExactBy(m)'
  BY <1>2, <1>3, <1>12, OtherLoader DEF ReloadInv, Carried, Exact
<1>13. Followed'
  BY <1>2, <1>4 DEF ReloadInv, Followed
<1>14. Accurate' /\ Access'
  BY <1>2, SameSnapshot DEF ReloadInv
<1> QED
  BY <1>5, <1>6, <1>7, <1>8, <1>10, <1>11, <1>12, <1>13, <1>14
     DEF ReloadInv, Looked, Appended, Carried, Exact

(* A walk reads a file.  A bad one ends the load, which leaves everything  *)
(* as it was published, and then the directory is not sound.               *)
LEMMA ReadFileKeeps ==
  ASSUME ReloadInv, NEW l \in Loader, ReadFile(l)
  PROVE  ReloadInv'
<1> DEFINE f == Min(todo[l])
<1>1. Walking(l) /\ op[l] = "load"
  BY DEF ReadFile, Walking
<1>2. CASE Loadable(disk[f])
  <2>1. Passed(l, f, disk[f].has, {})
    BY <1>2 DEF ReadFile
  <2> HIDE DEF f
  <2> QED
    BY <1>1, <2>1, PassedKeeps DEF f
<1>3. CASE ~Loadable(disk[f])
  <2>1. EndLoad(l) /\ UNCHANGED <<snapVars, gaveUp>>
    BY <1>3 DEF ReadFile
  <2>2. UNCHANGED <<kind, fileVars, snapVars>> /\ newest' = newest
    BY <2>1 DEF EndLoad, snapVars
  <2>3. newest' \in Nat /\ newest' <= changes
    BY <2>2 DEF ReloadInv, RlTypes
  <2>4. /\ RlTypes' /\ Serialised' /\ Looked' /\ Appended' /\ Innocents'
        /\ Carried' /\ Exact' /\ InsertsKept'
    BY <1>1, <2>1, <2>3, EndLoadKeeps
  <2>5. ~Sound
    <3>1. f \in todo[l]
      BY <1>1, NextFile DEF ReloadInv, Walking
    <3>2. todo[l] \subseteq Walked
      BY <1>1 DEF ReloadInv, Exact, ExactBy
    <3> QED
      BY <1>3, <3>1, <3>2 DEF Sound
  <2>6. Followed'
    BY <2>2, <2>5, SameFiles DEF Followed
  <2>7. Accurate' /\ Access'
    BY <2>2, SameSnapshot DEF ReloadInv
  <2> QED
    BY <2>4, <2>6, <2>7 DEF ReloadInv
<1> QED
  BY <1>2, <1>3

(* A file that cannot be read is passed over.                              *)
LEMMA SkipUnreadKeeps ==
  ASSUME ReloadInv, NEW l \in Loader, SkipUnread(l)
  PROVE  ReloadInv'
<1> DEFINE f == Min(todo[l])
<1>1. Walking(l) /\ Passed(l, f, {}, {f})
  BY DEF SkipUnread
<1> HIDE DEF f
<1> QED
  BY <1>1, PassedKeeps DEF f

(* Or it ends the load, and if the load began after the last change it has *)
(* given up on it.                                                         *)
LEMMA AbortUnreadKeeps ==
  ASSUME ReloadInv, NEW l \in Loader, AbortUnread(l)
  PROVE  ReloadInv'
<1>1. /\ op[l] = "load" /\ EndLoad(l) /\ UNCHANGED snapVars
      /\ gaveUp' = (gaveUp \/ began[l] = changes)
  BY DEF AbortUnread, Walking
<1>2. UNCHANGED <<kind, fileVars, snapVars, noticed, event>> /\ newest' = newest
  BY <1>1 DEF EndLoad, snapVars
<1>3. newest' \in Nat /\ newest' <= changes
  BY <1>2 DEF ReloadInv, RlTypes
<1>4. /\ RlTypes' /\ Serialised' /\ Looked' /\ Appended' /\ Innocents'
      /\ Carried' /\ Exact' /\ InsertsKept'
      /\ \A m \in Loader : m # l => op'[m] = op[m] /\ began'[m] = began[m]
  BY <1>1, <1>3, EndLoadKeeps
<1>5. changes' = changes /\ Sound' = Sound
  BY <1>2, SameFiles
<1>6. Followed'
  <2>1. CASE gaveUp \/ began[l] = changes
    BY <1>1, <2>1 DEF Followed
  <2>2. CASE ~(gaveUp \/ began[l] = changes)
    BY <1>2, <1>4, <1>5, <2>2 DEF ReloadInv, Followed
  <2> QED
    BY <2>1, <2>2
<1>7. Accurate' /\ Access'
  BY <1>2, SameSnapshot DEF ReloadInv
<1> QED
  BY <1>4, <1>6, <1>7 DEF ReloadInv

(* The history of what was published.                                      *)
LEMMA MaxOfTwo ==
  ASSUME NEW a \in Nat, NEW b \in Nat
  PROVE  Max({a, b}) = IF a < b THEN b ELSE a
  BY DEF Max

(* A load exchanges the snapshot.                                          *)
LEMMA PublishKeeps ==
  ASSUME ReloadInv, NEW l \in Loader, Publish(l)
  PROVE  ReloadInv'
<1>1. /\ op[l] = "load" /\ todo[l] = {} /\ published' = acc[l] /\ blind' = missed[l]
      /\ EndLoad(l) /\ gaveUp' = gaveUp /\ overtaken' = (began[l] < newest)
  BY DEF Publish
<1>2. /\ began[l] \in Nat /\ newest \in Nat /\ changes \in Nat
      /\ began[l] <= changes /\ newest <= changes
      /\ newest' = IF newest < began[l] THEN began[l] ELSE newest
  BY MaxOfTwo DEF Publish, ReloadInv, RlTypes
<1>3. newest' \in Nat /\ newest' <= changes
  BY <1>2
<1>4. /\ RlTypes' /\ Serialised' /\ Looked' /\ Appended' /\ Innocents'
      /\ Carried' /\ Exact' /\ InsertsKept'
      /\ \A m \in Loader : m # l => op'[m] = op[m] /\ began'[m] = began[m]
  BY <1>1, <1>3, EndLoadKeeps
<1>5. UNCHANGED <<kind, fileVars, noticed, event>>
  BY <1>1 DEF EndLoad
<1>6. UNCHANGED <<disk, changes, edited, named>> /\ Walked' = Walked
      /\ Untouched' = Untouched /\ Sound' = Sound
  BY <1>5, SameFiles
<1>7. Followed'
  <2>1. began[l] = changes \/ newest = changes => newest' = changes'
    BY <1>2, <1>6
  <2> QED
    BY <1>1, <1>4, <1>5, <1>6, <2>1 DEF ReloadInv, Followed
<1>8. Accurate'
  <2> SUFFICES ASSUME ~overtaken', newest' = changes'
               PROVE  acc[l] = View(Walked \ blind)'
    BY <1>1 DEF Accurate
  <2>1. began[l] = changes
    <3>1. ~(began[l] < newest)
      BY <1>1, Zenon
    <3>2. changes' = changes
      BY <1>6, Zenon
    <3>3. newest' = changes
      BY <3>2
    <3>4. newest' = began[l]
      BY <1>2, <3>1
    <3> QED
      BY <3>3, <3>4
  <2>2. acc[l] = Seen(l)
    BY <1>1, <2>1 DEF ReloadInv, Exact, ExactBy
  <2>3. Seen(l) = View(Walked \ missed[l])
    <3>1. (Walked \ todo[l]) \ missed[l] = Walked \ missed[l]
      BY <1>1
    <3> QED
      BY <3>1 DEF Seen
  <2>4. View(Walked \ blind)' = View(Walked \ missed[l])
    BY <1>1, <1>5, <1>6 DEF View, Displaces
  <2> QED
    BY <2>2, <2>3, <2>4
<1>9. Access'
  <2>1. \A g \in Untouched : g \in missed[l] \/ HeldIn(g, acc[l])
    BY <1>1 DEF ReloadInv, Carried, CarriedBy
  <2> QED
    BY <1>1, <1>5, <1>6, <2>1 DEF Access, HeldIn, Displaces
<1> QED
  BY <1>4, <1>7, <1>8, <1>9 DEF ReloadInv

LEMMA NextReloadInv == ReloadInv /\ [ReloadNext]_reloadVars => ReloadInv'
<1> SUFFICES ASSUME ReloadInv, [ReloadNext]_reloadVars PROVE ReloadInv'
  OBVIOUS
<1>1. CASE ReloadNext
  BY <1>1, ExternalKeeps, SaveKeeps, PollKeeps, ConsumeKeeps, ReadFileKeeps,
     SkipUnreadKeeps, AbortUnreadKeeps, PublishKeeps, InsertStepKeeps,
     WriteEntryKeeps DEF ReloadNext, InsertStep
<1>2. CASE UNCHANGED reloadVars
  <2>1. UNCHANGED <<kind, fileVars, noticed, event, insertLock, op, adding, content,
                    walkVars, snapVars, gaveUp, inserted>>
    BY <1>2 DEF reloadVars
  <2>2. /\ UNCHANGED <<disk, changes, edited, named, todo, acc, began, missed, newest>>
        /\ Walked' = Walked /\ Untouched' = Untouched /\ Sound' = Sound
    BY <2>1, SameFiles DEF walkVars, snapVars
  <2>3. RlTypes'
    BY <2>1, <2>2 DEF ReloadInv, RlTypes
  <2>4. Serialised' /\ InsertsKept' /\ Followed'
    BY <2>1, <2>2 DEF ReloadInv, Serialised, InsertsKept, Followed
  <2>5. Looked' /\ Appended'
    BY <2>1, <2>2, OtherHandler DEF ReloadInv, Looked, Appended
  <2>6. Innocents'
    BY <2>1, StillInnocent DEF ReloadInv
  <2>7. Carried' /\ Exact'
    BY <2>1, <2>2, OtherLoader DEF ReloadInv, Carried, Exact
  <2>8. Accurate' /\ Access'
    BY <2>1, SameSnapshot DEF ReloadInv
  <2> QED
    BY <2>3, <2>4, <2>5, <2>6, <2>7, <2>8 DEF ReloadInv
<1> QED
  BY <1>1, <1>2

(* An insertion that the API has confirmed stays in its file unless the    *)
(* file is edited: the lock of the insert handler covers the reading, the  *)
(* writing and the load.                                                   *)
THEOREM ConfirmedInsertsKept == ReloadSpec => []InsertsKept
<1>1. ReloadInv => InsertsKept
  BY DEF ReloadInv
<1> QED
  BY <1>1, InitReloadInv, NextReloadInv, PTL DEF ReloadSpec

(* An entry of a file that nobody edited is accepted at all times, unless  *)
(* a later file names its user by an edit or from the start, or the load   *)
(* that published could not read the file.                                 *)
THEOREM UntouchedAccepted == ReloadSpec => []UntouchedKeepsAccess
<1>1. ReloadInv => UntouchedKeepsAccess
  BY DEF ReloadInv, Access, HeldIn, UntouchedKeepsAccess, Accepted, Untouched
<1> QED
  BY <1>1, InitReloadInv, NextReloadInv, PTL DEF ReloadSpec

(* Once everything has come to rest the snapshot is what the files say,    *)
(* unless a load that had been overtaken published last, or one could not  *)
(* read a file and skipped it or gave up.                                  *)
THEOREM SnapshotFollows == ReloadSpec => []StaleOnlyIfOvertaken
<1>1. ASSUME ReloadInv PROVE StaleOnlyIfOvertaken
  <2> SUFFICES ASSUME Quiet, Sound, ~overtaken, blind = {}, ~GaveUp
               PROVE  {e \in Entry : Accepted(e)} = Effective
    BY DEF StaleOnlyIfOvertaken
  <2>1. newest = changes
    BY <1>1 DEF ReloadInv, RlTypes, Followed, Quiet, GaveUp
  <2>2. published = Effective
    <3>1. Walked \ blind = Walked
      OBVIOUS
    <3> QED
      BY <1>1, <2>1, <3>1 DEF ReloadInv, Accurate, Effective
  <2>3. Effective \subseteq Entry
    BY DEF Effective, View
  <2> QED
    BY <2>2, <2>3 DEF Accepted
<1> QED
  BY <1>1, InitReloadInv, NextReloadInv, PTL DEF ReloadSpec
-----------------------------------------------------------------------------
(* The logs: forwarders_log.go and the audit of origin addresses.          *)
LogSpec == LogInit /\ [][LogNext \/ AuditNext]_logVars

WriterTypes ==
  /\ writers \in [File -> Nat] /\ lastUsed \in Seq(Nat)
  /\ \A f \in File : writers[f] <= Len(lastUsed)
  /\ opened \subseteq (Nat \ {0}) \X File

Lines == [pc : {"idle", "find", "write", "make", "clean"}, file : File \cup {""},
          now : Nat, found : Nat]

LineTypes ==
  /\ clock \in Nat /\ line \in [Logger -> Lines]
  /\ \A g \in Logger : line[g].pc # "idle" => line[g].file \in File

(* Who writes a line to a writer holds the read lock, under which nobody   *)
(* replaces or evicts that writer.                                         *)
LockedWriters ==
  \A g \in Logger : line[g].pc = "write" =>
    /\ g \in readers /\ line[g].found # NoWriter
    /\ line[g].found = writers[line[g].file]

LogInv == WriterTypes /\ LineTypes /\ LockedWriters /\ OneWriterPerFile

LEMMA InitLogInv == LogInit => LogInv
<1> SUFFICES ASSUME LogInit PROVE LogInv
  OBVIOUS
<1>1. WriterTypes
  BY DEF LogInit, WriterTypes, NoWriter
<1>2. LineTypes /\ LockedWriters
  BY DEF LogInit, LineTypes, Lines, LockedWriters, Idle
<1>3. OneWriterPerFile
  BY DEF LogInit, OneWriterPerFile
<1> QED
  BY <1>1, <1>2, <1>3 DEF LogInv

(* What a step makes of the line of g; the other lines stay.               *)
LEMMA OtherLines ==
  ASSUME LineTypes, NEW g \in Logger, NEW l \in Lines,
         line' = [line EXCEPT ![g] = l], clock' \in Nat,
         l.pc # "idle" => l.file \in File
  PROVE  /\ LineTypes' /\ line'[g] = l
         /\ \A k \in Logger : k # g => line'[k] = line[k]
  BY DEF LineTypes

(* The line goes on to another place.                                      *)
LEMMA NextPlace ==
  ASSUME LineTypes, NEW g \in Logger, line[g].pc # "idle",
         NEW pc \in {"find", "write", "make", "clean"}, clock' \in Nat,
         line' = [line EXCEPT ![g].pc = pc]
  PROVE  /\ LineTypes' /\ line'[g] = [line[g] EXCEPT !.pc = pc]
         /\ \A k \in Logger : k # g => line'[k] = line[k]
<1> DEFINE l == [line[g] EXCEPT !.pc = pc]
<1>1. l \in Lines /\ l.file \in File
  BY DEF LineTypes, Lines
<1>2. line' = [line EXCEPT ![g] = l]
  BY DEF LineTypes
<1> QED
  BY <1>1, <1>2, OtherLines

LEMMA IdleLine == Idle \in Lines /\ Idle.pc = "idle"
  BY DEF Idle, Lines

(* A step that changes no writer.                                          *)
LEMMA LineStepKeeps ==
  ASSUME LogInv, NEW g \in Logger,
         (\E f \in File : WriteLine(g, f)) \/ Find(g) \/ MakeFails(g) \/ NoCleanup(g)
  PROVE  LogInv'
<1>1. UNCHANGED <<clock, writers, lastUsed, opened>> /\ clock' \in Nat
  BY DEF WriteLine, Find, MakeFails, NoCleanup, writerVars, LogInv, LineTypes
<1>2. WriterTypes' /\ OneWriterPerFile'
  BY <1>1 DEF LogInv, WriterTypes, OneWriterPerFile
<1>3. CASE \E f \in File : WriteLine(g, f)
  <2>1. PICK f \in File : WriteLine(g, f)
    BY <1>3
  <2> DEFINE l == [Idle EXCEPT !.pc = "find", !.file = f, !.now = clock]
  <2>2. l \in Lines /\ l.file = f /\ l.pc = "find"
    BY DEF Idle, Lines, LogInv, LineTypes
  <2>3. line' = [line EXCEPT ![g] = l] /\ readers' = readers
    BY <2>1 DEF WriteLine
  <2>4. LineTypes' /\ line'[g] = l /\ \A k \in Logger : k # g => line'[k] = line[k]
    BY <1>1, <2>2, <2>3, OtherLines DEF LogInv
  <2>5. LockedWriters'
    BY <1>1, <2>2, <2>3, <2>4 DEF LogInv, LockedWriters
  <2> QED
    BY <1>2, <2>4, <2>5 DEF LogInv
<1>4. CASE Find(g)
  <2> DEFINE w == writers[line[g].file]
             l == [line[g] EXCEPT !.pc = IF w = NoWriter THEN "make" ELSE "write",
                                  !.found = w]
  <2>1. line[g] \in Lines /\ line[g].file \in File /\ w \in Nat
    BY <1>4 DEF LogInv, LineTypes, WriterTypes, Find
  <2>2. l \in Lines /\ l.file = line[g].file /\ l.found = w /\ l.pc # "idle"
        /\ (l.pc = "write" => w # NoWriter)
    BY <2>1 DEF Lines
  <2>3. line' = [line EXCEPT ![g] = l]
    BY <1>4 DEF Find, LogInv, LineTypes
  <2>4. LineTypes' /\ line'[g] = l /\ \A k \in Logger : k # g => line'[k] = line[k]
    BY <1>1, <2>1, <2>2, <2>3, OtherLines DEF LogInv
  <2>5. readers \subseteq readers' /\ (w # NoWriter => g \in readers')
    BY <1>4 DEF Find
  <2> HIDE DEF l
  <2>6. LockedWriters'
    BY <1>1, <2>2, <2>4, <2>5 DEF LogInv, LockedWriters
  <2> QED
    BY <1>2, <2>4, <2>6 DEF LogInv
<1>5. CASE MakeFails(g)
  <2>1. LineTypes' /\ line'[g].pc = "clean"
        /\ \A k \in Logger : k # g => line'[k] = line[k]
    BY <1>1, <1>5, NextPlace DEF LogInv, LineTypes, Lines, MakeFails
  <2>2. LockedWriters'
    BY <1>1, <1>5, <2>1 DEF LogInv, LockedWriters, MakeFails
  <2> QED
    BY <1>2, <2>1, <2>2 DEF LogInv
<1>6. CASE NoCleanup(g)
  <2>1. LineTypes' /\ line'[g] = Idle
        /\ \A k \in Logger : k # g => line'[k] = line[k]
    BY <1>1, <1>6, IdleLine, OtherLines DEF LogInv, NoCleanup
  <2>2. LockedWriters'
    BY <1>1, <1>6, <2>1, IdleLine DEF LogInv, LockedWriters, NoCleanup
  <2> QED
    BY <1>2, <2>1, <2>2 DEF LogInv
<1> QED
  BY <1>3, <1>4, <1>5, <1>6

(* A writer that is used keeps its number.                                 *)
LEMMA UsedAgain ==
  ASSUME WriterTypes, NEW w \in 1 .. Len(lastUsed), NEW t \in Nat,
         lastUsed' = [lastUsed EXCEPT ![w] = t]
  PROVE  lastUsed' \in Seq(Nat) /\ Len(lastUsed') = Len(lastUsed)
  BY DEF WriterTypes

(* A line reaches the writer that was found.                               *)
LEMMA WriteToFileKeeps ==
  ASSUME LogInv, NEW g \in Logger, WriteToFile(g) PROVE LogInv'
<1> DEFINE w == line[g].found
<1>1. line[g] \in Lines /\ line[g].file \in File /\ line[g].now \in Nat
  BY DEF LogInv, LineTypes, Lines, WriteToFile
<1>2. w \in Nat /\ w # 0 /\ w = writers[line[g].file] /\ w \in 1 .. Len(lastUsed)
  BY <1>1 DEF LogInv, WriterTypes, LockedWriters, WriteToFile, NoWriter
<1>3. lastUsed' \in Seq(Nat) /\ Len(lastUsed') = Len(lastUsed)
  BY <1>1, <1>2, UsedAgain DEF LogInv, WriteToFile
<1>4. opened' = opened \cup {<<w, line[g].file>>} /\ writers' = writers
      /\ readers' = readers \ {g} /\ clock' = clock /\ line[g].pc = "write"
      /\ line' = [line EXCEPT ![g].pc = "clean"]
  BY DEF WriteToFile
<1>5. WriterTypes'
  BY <1>1, <1>2, <1>3, <1>4 DEF LogInv, WriterTypes
<1>6. LineTypes' /\ line'[g].pc = "clean"
      /\ \A k \in Logger : k # g => line'[k] = line[k]
  BY <1>4, <1>1, NextPlace DEF LogInv, LineTypes, Lines
<1>7. LockedWriters'
  BY <1>4, <1>6 DEF LogInv, LockedWriters
<1>8. OneWriterPerFile'
  BY <1>2, <1>4 DEF LogInv, OneWriterPerFile
<1> QED
  BY <1>5, <1>6, <1>7, <1>8 DEF LogInv

(* A writer is made only for a file that has none, which is not open.      *)
LEMMA MakeKeeps ==
  ASSUME LogInv, NEW g \in Logger, Make(g) PROVE LogInv'
<1> DEFINE f == line[g].file
           w == IF writers[f] = NoWriter THEN Len(lastUsed) + 1 ELSE writers[f]
<1>1. line[g] \in Lines /\ f \in File /\ line[g].now \in Nat
  BY DEF LogInv, LineTypes, Lines, Make
<1>2. Len(lastUsed) \in Nat /\ writers[f] \in Nat /\ writers[f] <= Len(lastUsed)
  BY <1>1 DEF LogInv, WriterTypes
<1>3. w \in Nat /\ w # 0 /\ w <= Len(lastUsed) + 1
  BY <1>2 DEF NoWriter
<1>4. /\ writers' = [writers EXCEPT ![f] = w]
      /\ lastUsed' = IF w > Len(lastUsed) THEN Append(lastUsed, line[g].now)
                     ELSE [lastUsed EXCEPT ![w] = line[g].now]
      /\ opened' = opened \cup {<<w, f>>} /\ line' = [line EXCEPT ![g].pc = "clean"]
      /\ clock' = clock /\ readers = {} /\ readers' = readers
      /\ writers[f] # NoWriter => w = writers[f]
      /\ line[g].pc = "make"
  BY DEF Make
<1> HIDE DEF w
<1>5. /\ lastUsed' \in Seq(Nat) /\ Len(lastUsed') >= Len(lastUsed)
      /\ Len(lastUsed') >= w /\ Len(lastUsed') \in Nat
  <2>1. CASE w > Len(lastUsed)
    BY <1>1, <1>2, <1>3, <1>4, <2>1 DEF LogInv, WriterTypes
  <2>2. CASE ~(w > Len(lastUsed))
    <3>1. w \in 1 .. Len(lastUsed)
      BY <1>2, <1>3, <2>2
    <3>2. lastUsed' \in Seq(Nat) /\ Len(lastUsed') = Len(lastUsed)
      BY <1>1, <1>4, <2>2, <3>1, UsedAgain DEF LogInv
    <3> QED
      BY <1>2, <1>3, <2>2, <3>1, <3>2
  <2> QED
    BY <2>1, <2>2
<1>6. \A e \in File : writers'[e] = IF e = f THEN w ELSE writers[e]
  BY <1>1, <1>4 DEF LogInv, WriterTypes
<1>7. WriterTypes'
  <2>1. writers' \in [File -> Nat] /\ opened' \subseteq (Nat \ {0}) \X File
    BY <1>1, <1>3, <1>4 DEF LogInv, WriterTypes
  <2>2. \A e \in File : writers'[e] <= Len(lastUsed')
    <3> TAKE e \in File
    <3>1. writers[e] \in Nat /\ writers[e] <= Len(lastUsed)
      BY DEF LogInv, WriterTypes
    <3> QED
      BY <1>2, <1>3, <1>5, <1>6, <3>1
  <2> QED
    BY <1>5, <2>1, <2>2 DEF WriterTypes
<1>8. LineTypes' /\ line'[g].pc = "clean"
      /\ \A k \in Logger : k # g => line'[k] = line[k]
  BY <1>1, <1>4, NextPlace DEF LogInv, LineTypes, Lines
<1>9. LockedWriters'
  BY <1>4, <1>8 DEF LogInv, LockedWriters
<1>10. OneWriterPerFile'
  <2> SUFFICES ASSUME NEW o \in opened' PROVE writers'[o[2]] = o[1]
    BY DEF OneWriterPerFile
  <2>1. CASE o = <<w, f>>
    BY <1>1, <1>6, <2>1
  <2>2. CASE o \in opened
    <3>1. o[1] # 0 /\ o[2] \in File /\ writers[o[2]] = o[1]
      BY <2>2 DEF LogInv, WriterTypes, OneWriterPerFile
    <3> QED
      BY <3>1, <1>4, <1>6 DEF NoWriter
  <2> QED
    BY <1>4, <2>1, <2>2
<1> QED
  BY <1>7, <1>8, <1>9, <1>10 DEF LogInv

(* Nobody writes while writers are evicted, and an evicted one is closed.  *)
LEMMA CleanupKeeps ==
  ASSUME LogInv, NEW g \in Logger, Cleanup(g) PROVE LogInv'
<1>1. /\ clock' = clock /\ lastUsed' = lastUsed /\ readers' = readers /\ readers = {}
      /\ line' = [line EXCEPT ![g] = Idle] /\ opened' \subseteq opened
      /\ writers' = [f \in File |-> IF Stale(g, writers[f]) THEN NoWriter ELSE writers[f]]
  BY DEF Cleanup
<1>2. WriterTypes'
  <2>1. \A f \in File : writers'[f] \in {0, writers[f]}
    BY <1>1 DEF NoWriter
  <2>2. \A f \in File : writers[f] \in Nat /\ writers[f] <= Len(lastUsed)
    BY DEF LogInv, WriterTypes
  <2>3. Len(lastUsed) \in Nat
    BY DEF LogInv, WriterTypes
  <2>4. \A f \in File : writers'[f] \in Nat /\ writers'[f] <= Len(lastUsed)
    BY <2>1, <2>2, <2>3
  <2> QED
    BY <1>1, <2>4 DEF LogInv, WriterTypes
<1>3. LineTypes' /\ line'[g] = Idle /\ \A k \in Logger : k # g => line'[k] = line[k]
  <2>1. clock' \in Nat
    BY <1>1 DEF LogInv, LineTypes
  <2> QED
    BY <1>1, <2>1, IdleLine, OtherLines DEF LogInv
<1>4. LockedWriters'
  BY <1>1, <1>3, IdleLine DEF LogInv, LockedWriters
<1>5. OneWriterPerFile'
  <2> SUFFICES ASSUME NEW o \in opened' PROVE writers'[o[2]] = o[1]
    BY DEF OneWriterPerFile
  <2>1. o \in opened /\ o[2] \in File /\ writers[o[2]] = o[1]
    BY <1>1 DEF LogInv, WriterTypes, OneWriterPerFile
  <2>2. ~Stale(g, o[1])
    BY <2>1 DEF Cleanup
  <2> QED
    BY <1>1, <2>1, <2>2
<1> QED
  BY <1>2, <1>3, <1>4, <1>5 DEF LogInv

LEMMA NextLogInv == LogInv /\ [LogNext \/ AuditNext]_logVars => LogInv'
<1> SUFFICES ASSUME LogInv, [LogNext \/ AuditNext]_logVars PROVE LogInv'
  OBVIOUS
<1>1. CASE \E g \in Logger : \/ \E f \in File : WriteLine(g, f)
                             \/ Find(g) \/ WriteToFile(g) \/ Make(g) \/ MakeFails(g)
                             \/ NoCleanup(g) \/ Cleanup(g)
  BY <1>1, LineStepKeeps, WriteToFileKeeps, MakeKeeps, CleanupKeeps
<1>2. CASE Tick \/ AuditNext \/ UNCHANGED logVars
  <2>1. clock \in Nat => clock' \in Nat
    BY <1>2 DEF Tick, AuditNext, RecordOriginIP, logVars
  <2>2. UNCHANGED <<writers, lastUsed, opened, readers, line>>
    BY <1>2 DEF Tick, AuditNext, RecordOriginIP, logVars, writerVars
  <2> QED
    BY <2>1, <2>2 DEF LogInv, WriterTypes, LineTypes, LockedWriters, OneWriterPerFile
<1> QED
  BY <1>1, <1>2 DEF LogNext

(* However lines, evictions and new writers interleave, a log file is open *)
(* in the registered writer only.                                          *)
THEOREM LogFilesHaveOneWriter == LogSpec => []OneWriterPerFile
<1>1. LogInv => OneWriterPerFile
  BY DEF LogInv
<1> QED
  BY <1>1, InitLogInv, NextLogInv, PTL DEF LogSpec

-----------------------------------------------------------------------------
(* The audit table and the order its rows were seen in.                    *)
AuditTypes ==
  /\ seen \in Seq(IP)
  /\ IsFiniteSet(ToSet(seen)) /\ IsFiniteSet(auditRows)

AuditInv == AuditTypes /\ AuditKeepsLatest

(* Where an address stands last in a sequence, and 0 if it does not.       *)
LastIn(s, ip) == Max({0} \cup {i \in DOMAIN s : s[i] = ip})

LEMMA LastSeenIn == \A ip : LastSeen(ip) = LastIn(seen, ip)
  BY DEF LastSeen, LastIn

LEMMA LastInPlace ==
  ASSUME NEW s \in Seq(IP), NEW ip
  PROVE  /\ LastIn(s, ip) \in 0 .. Len(s)
         /\ ip \in ToSet(s) => LastIn(s, ip) >= 1 /\ s[LastIn(s, ip)] = ip
         /\ ip \notin ToSet(s) => LastIn(s, ip) = 0
         /\ \A i \in DOMAIN s : s[i] = ip => i <= LastIn(s, ip)
<1> DEFINE S == {0} \cup {i \in DOMAIN s : s[i] = ip}
<1>1. Len(s) \in Nat /\ DOMAIN s = 1 .. Len(s)
  OBVIOUS
<1>2. S \subseteq 0 .. Len(s) /\ S # {}
  BY <1>1
<1>3. LastIn(s, ip) \in S /\ \A y \in S : y <= LastIn(s, ip)
  BY <1>1, <1>2, MaxMember DEF LastIn
<1>4. LastIn(s, ip) \in 0 .. Len(s)
  BY <1>2, <1>3
<1>5. \A i \in DOMAIN s : s[i] = ip => i <= LastIn(s, ip)
  BY <1>3
<1>6. ASSUME ip \in ToSet(s) PROVE LastIn(s, ip) >= 1 /\ s[LastIn(s, ip)] = ip
  <2>1. PICK i \in 1 .. Len(s) : s[i] = ip
    BY <1>1, <1>6 DEF ToSet
  <2>2. i <= LastIn(s, ip)
    BY <1>1, <2>1, <1>5
  <2>3. LastIn(s, ip) # 0
    BY <1>1, <1>4, <2>1, <2>2
  <2> QED
    BY <1>1, <1>3, <1>4, <2>3
<1>7. ASSUME ip \notin ToSet(s) PROVE LastIn(s, ip) = 0
  <2>1. {i \in DOMAIN s : s[i] = ip} = {}
    BY <1>7 DEF ToSet
  <2> QED
    BY <1>3, <2>1
<1> QED
  BY <1>4, <1>5, <1>6, <1>7

(* The address that is appended stands last, the others where they stood.  *)
LEMMA LastInAppended ==
  ASSUME NEW s \in Seq(IP), NEW ip \in IP
  PROVE  LET t == Append(s, ip) IN
         /\ t \in Seq(IP) /\ ToSet(t) = ToSet(s) \cup {ip}
         /\ LastIn(t, ip) = Len(s) + 1
         /\ \A o : o # ip => LastIn(t, o) = LastIn(s, o)
<1> DEFINE t == Append(s, ip)
<1>1. /\ Len(s) \in Nat /\ DOMAIN s = 1 .. Len(s) /\ t \in Seq(IP)
      /\ Len(t) = Len(s) + 1 /\ DOMAIN t = 1 .. (Len(s) + 1)
      /\ t[Len(s) + 1] = ip /\ \A i \in 1 .. Len(s) : t[i] = s[i]
  OBVIOUS
<1> HIDE DEF t
<1>2. ToSet(t) = ToSet(s) \cup {ip}
  <2>1. \A i \in 1 .. (Len(s) + 1) : i \in 1 .. Len(s) \/ i = Len(s) + 1
    BY <1>1
  <2>2. 1 .. Len(s) \subseteq 1 .. (Len(s) + 1) /\ Len(s) + 1 \in 1 .. (Len(s) + 1)
    BY <1>1
  <2> QED
    BY <1>1, <2>1, <2>2 DEF ToSet
<1>3. LastIn(t, ip) = Len(s) + 1
  <2>1. LastIn(t, ip) \in 0 .. (Len(s) + 1) /\ Len(s) + 1 <= LastIn(t, ip)
    <3>1. /\ LastIn(t, ip) \in 0 .. Len(t)
          /\ \A i \in DOMAIN t : t[i] = ip => i <= LastIn(t, ip)
      BY <1>1, LastInPlace, Zenon
    <3>2. Len(s) + 1 \in DOMAIN t
      BY <1>1
    <3> QED
      BY <1>1, <3>1, <3>2
  <2> QED
    BY <1>1, <2>1
<1>4. ASSUME NEW o, o # ip PROVE LastIn(t, o) = LastIn(s, o)
  <2>1. {i \in DOMAIN t : t[i] = o} = {i \in DOMAIN s : s[i] = o}
    BY <1>1, <1>4
  <2> QED
    BY <2>1 DEF LastIn
<1> QED
  BY <1>1, <1>2, <1>3, <1>4 DEF t

(* Two addresses stand in two places.                                      *)
LEMMA LastInDiffers ==
  ASSUME NEW s \in Seq(IP), NEW a \in ToSet(s), NEW b \in ToSet(s), a # b
  PROVE  LastIn(s, a) # LastIn(s, b)
  BY LastInPlace

(* There is a row that was seen longest ago.                               *)
LEMMA OldestRow ==
  ASSUME AuditTypes, auditRows # {}
  PROVE  Oldest \in auditRows /\ \A r \in auditRows : LastSeen(Oldest) <= LastSeen(r)
<1> DEFINE T == {LastIn(seen, r) : r \in auditRows}
<1>1. \A r \in auditRows : LastIn(seen, r) \in Nat
  <2>1. Len(seen) \in Nat
    BY DEF AuditTypes
  <2> QED
    BY <2>1, LastInPlace DEF AuditTypes
<1>2. T \subseteq Nat /\ T # {}
  BY <1>1
<1>3. Min(T) \in T /\ \A y \in T : Min(T) <= y
  BY <1>2, MinMember
<1>4. PICK r \in auditRows : Min(T) = LastIn(seen, r)
  BY <1>3
<1>5. \A q \in auditRows : LastIn(seen, r) <= LastIn(seen, q)
  BY <1>3, <1>4
<1> QED
  BY <1>5, LastSeenIn DEF Oldest

LEMMA MinOfTwo ==
  ASSUME NEW a \in Nat, NEW b \in Nat
  PROVE  Min({a, b}) = IF a < b THEN a ELSE b
  BY DEF Min

LEMMA InitAuditInv == LogInit => AuditInv
<1> SUFFICES ASSUME LogInit PROVE AuditInv
  OBVIOUS
<1>1. seen = <<>> /\ auditRows = {} /\ ToSet(seen) = {}
  BY DEF LogInit, ToSet
<1>2. AuditTypes
  BY <1>1, FS_EmptySet DEF AuditTypes
<1>3. Min({MaxRows, 0}) = 0
  BY LogsAssumption, MinOfTwo
<1> QED
  BY <1>1, <1>2, <1>3, FS_EmptySet DEF AuditInv, AuditKeepsLatest

LEMMA RecordKeeps ==
  ASSUME AuditInv, NEW ip \in IP, RecordOriginIP(ip) PROVE AuditInv'
<1> DEFINE all == ToSet(seen)
<1>1. /\ seen \in Seq(IP) /\ IsFiniteSet(all) /\ IsFiniteSet(auditRows)
      /\ auditRows \subseteq all
      /\ Cardinality(auditRows) = Min({MaxRows, Cardinality(all)})
      /\ \A r \in auditRows, s \in all \ auditRows : LastIn(seen, s) < LastIn(seen, r)
  BY LastSeenIn DEF AuditInv, AuditTypes, AuditKeepsLatest
<1>2. /\ Cardinality(auditRows) \in Nat /\ Cardinality(all) \in Nat
      /\ MaxRows \in Nat /\ MaxRows # 0 /\ Len(seen) \in Nat
  BY <1>1, FS_CardinalityType, LogsAssumption
<1>3. Cardinality(auditRows) = IF MaxRows < Cardinality(all) THEN MaxRows
                               ELSE Cardinality(all)
  BY <1>1, <1>2, MinOfTwo
<1>4. /\ auditRows' = getOrInit(ip) /\ seen' = Append(seen, ip)
  BY DEF RecordOriginIP
<1>5. /\ seen' \in Seq(IP) /\ ToSet(seen') = all \cup {ip}
      /\ LastIn(seen', ip) = Len(seen) + 1
      /\ \A o : o # ip => LastIn(seen', o) = LastIn(seen, o)
  BY <1>1, <1>4, LastInAppended
<1>6. /\ IsFiniteSet(all \cup {ip}) /\ Cardinality(all \cup {ip}) \in Nat
      /\ Cardinality(all \cup {ip}) = IF ip \in all THEN Cardinality(all)
                                      ELSE Cardinality(all) + 1
  BY <1>1, FS_AddElement, FS_CardinalityType
<1>7. \A o : LastIn(seen, o) \in Nat /\ LastIn(seen, o) <= Len(seen)
  BY <1>1, <1>2, LastInPlace
<1> SUFFICES /\ IsFiniteSet(auditRows') /\ auditRows' \subseteq all \cup {ip}
             /\ Cardinality(auditRows') =
                  IF MaxRows < Cardinality(all \cup {ip}) THEN MaxRows
                  ELSE Cardinality(all \cup {ip})
             /\ \A r \in auditRows', s \in (all \cup {ip}) \ auditRows' :
                  LastIn(seen', s) < LastIn(seen', r)
  <2>1. Min({MaxRows, Cardinality(all \cup {ip})}) =
          IF MaxRows < Cardinality(all \cup {ip}) THEN MaxRows
          ELSE Cardinality(all \cup {ip})
    BY <1>2, <1>6, MinOfTwo
  <2>2. \A o : LastSeen(o)' = LastIn(seen', o)
    BY DEF LastSeen, LastIn
  <2> QED
    BY <1>5, <1>6, <2>1, <2>2 DEF AuditInv, AuditTypes, AuditKeepsLatest
<1>8. CASE ip \in auditRows
  <2>1. auditRows' = auditRows /\ all \cup {ip} = all
    BY <1>1, <1>4, <1>8 DEF getOrInit
  <2>2. ASSUME NEW r \in auditRows, NEW s \in all \ auditRows
        PROVE  LastIn(seen', s) < LastIn(seen', r)
    <3>1. LastIn(seen', s) = LastIn(seen, s) /\ LastIn(seen, s) < LastIn(seen, r)
      BY <1>1, <1>5, <1>8
    <3>2. CASE r = ip
      BY <1>2, <1>5, <1>7, <3>1, <3>2
    <3>3. CASE r # ip
      BY <1>5, <3>1, <3>3
    <3> QED
      BY <3>2, <3>3
  <2> QED
    BY <1>1, <1>3, <2>1, <2>2
<1>9. CASE ip \notin auditRows /\ Cardinality(auditRows) >= MaxRows
  <2>1. Cardinality(auditRows) = MaxRows /\ MaxRows <= Cardinality(all)
    BY <1>2, <1>3, <1>9
  <2>2. auditRows # {}
    BY <1>2, <2>1, FS_EmptySet
  <2>3. /\ Oldest \in auditRows
        /\ \A r \in auditRows : LastIn(seen, Oldest) <= LastIn(seen, r)
    BY <2>2, OldestRow, LastSeenIn DEF AuditInv
  <2>4. auditRows' = (auditRows \ {Oldest}) \cup {ip}
    BY <1>4, <1>9 DEF getOrInit
  <2>5. /\ IsFiniteSet(auditRows \ {Oldest})
        /\ Cardinality(auditRows \ {Oldest}) = MaxRows - 1
    BY <1>1, <2>1, <2>3, FS_RemoveElement
  <2>6. IsFiniteSet(auditRows') /\ Cardinality(auditRows') = MaxRows
    <3>1. ip \notin auditRows \ {Oldest}
      BY <1>9
    <3>2. Cardinality((auditRows \ {Oldest}) \cup {ip}) = (MaxRows - 1) + 1
      BY <2>5, <3>1, FS_AddElement, Zenon
    <3>3. IsFiniteSet((auditRows \ {Oldest}) \cup {ip})
      BY <2>5, FS_AddElement, Zenon
    <3> QED
      BY <1>2, <2>4, <3>2, <3>3
  <2>7. MaxRows < Cardinality(all \cup {ip}) \/ MaxRows = Cardinality(all \cup {ip})
    BY <1>2, <1>6, <2>1
  <2>8. ASSUME NEW r \in auditRows', NEW s \in (all \cup {ip}) \ auditRows'
        PROVE  LastIn(seen', s) < LastIn(seen', r)
    <3>1. s # ip /\ s \in all /\ LastIn(seen', s) = LastIn(seen, s)
      BY <1>5, <2>4, <2>8
    <3>2. CASE r = ip
      BY <1>2, <1>5, <1>7, <3>1, <3>2
    <3>3. CASE r # ip
      <4>1. r \in auditRows /\ r # Oldest /\ r \in all
            /\ LastIn(seen', r) = LastIn(seen, r)
        BY <1>1, <1>5, <2>4, <2>8, <3>3
      <4>2. CASE s = Oldest
        <5>1. LastIn(seen, s) # LastIn(seen, r)
          BY <1>1, <3>1, <4>1, <4>2, LastInDiffers
        <5> QED
          BY <1>7, <2>3, <3>1, <4>1, <4>2, <5>1
      <4>3. CASE s # Oldest
        BY <1>1, <2>4, <2>8, <3>1, <4>1, <4>3
      <4> QED
        BY <4>2, <4>3
    <3> QED
      BY <3>2, <3>3
  <2> QED
    BY <1>1, <2>3, <2>4, <2>6, <2>7, <2>8
<1>10. CASE ip \notin auditRows /\ ~(Cardinality(auditRows) >= MaxRows)
  <2>1. Cardinality(auditRows) = Cardinality(all) /\ Cardinality(all) < MaxRows
    BY <1>2, <1>3, <1>10
  <2>2. auditRows = all
    BY <1>1, <2>1, FS_Subset
  <2>3. auditRows' = all \cup {ip}
    BY <1>4, <1>10, <2>2 DEF getOrInit
  <2>4. ~(MaxRows < Cardinality(all \cup {ip}))
    BY <1>2, <1>6, <2>1
  <2> QED
    BY <1>6, <2>3, <2>4
<1> QED
  BY <1>8, <1>9, <1>10

LEMMA NextAuditInv == AuditInv /\ [LogNext \/ AuditNext]_logVars => AuditInv'
<1> SUFFICES ASSUME AuditInv, [LogNext \/ AuditNext]_logVars PROVE AuditInv'
  OBVIOUS
<1>1. CASE AuditNext
  BY <1>1, RecordKeeps DEF AuditNext
<1>2. CASE LogNext \/ UNCHANGED logVars
  <2>1. auditRows' = auditRows /\ seen' = seen
    BY <1>2 DEF LogNext, Tick, WriteLine, Find, WriteToFile, Make, MakeFails,
                NoCleanup, Cleanup, logVars
  <2>2. \A o : LastSeen(o)' = LastSeen(o)
    BY <2>1 DEF LastSeen
  <2> QED
    BY <2>1, <2>2 DEF AuditInv, AuditTypes, AuditKeepsLatest
<1> QED
  BY <1>1, <1>2

(* The audit keeps the rows of the addresses seen most recently, and as    *)
(* many as its limit allows.                                               *)
THEOREM AuditRowsAreLatest == LogSpec => []AuditKeepsLatest
<1>1. AuditInv => AuditKeepsLatest
  BY DEF AuditInv
<1> QED
  BY <1>1, InitAuditInv, NextAuditInv, PTL DEF LogSpec
-----------------------------------------------------------------------------
(* The header settings (headers_settings.go).                              *)
HeaderSpec == HeaderInit /\ [][HeaderNext]_headerVars

HeaderInv == HeaderTypeOK /\ answer.sent \in BOOLEAN /\ AcceptedIsApplied

LEMMA InitHeaderInv == HeaderInit => HeaderInv
  BY DEF HeaderInit, HeaderInv, AcceptedIsApplied, Unsent

(* What an entry of a scope is, field by field.                            *)
IsEntry(s, value) ==
  \/ s = NotGiven
  \/ /\ s.given = TRUE /\ s.enabled \in Flag /\ s.value \in {value, NoValue}
     /\ s.always \in Flag

(* What merge makes of an entry d of the defaults and s of the subdomain.  *)
Ruled(r, d, s) ==
  LET decided == Active(IF Decides(s) THEN s ELSE d) IN
  /\ r.enabled /\ r.value # NoValue <=> decided
  /\ decided => /\ r.value = (IF s.value = NoValue THEN d ELSE s).value
                /\ r.always <=> (IF s.always = Absent THEN d ELSE s).always = "true"

LEMMA ResolvedFields ==
  ASSUME NEW e \in BOOLEAN, NEW a \in BOOLEAN, NEW v
  PROVE  LET r == [there |-> TRUE, enabled |-> e, value |-> v, always |-> a]
         IN (r.enabled <=> e) /\ r.value = v /\ (r.always <=> a)
  OBVIOUS

(* merge says of an entry of the defaults and one of the subdomain what    *)
(* the rules say, if the validator accepts the two.                        *)
LEMMA MergeIsTheRule ==
  ASSUME NEW d, IsEntry(d, DefaultValue), NEW s, IsEntry(s, OwnValue),
         d.enabled = "true" => d.value # NoValue,
         s.enabled = "true" => s.value # NoValue \/ d.value # NoValue
  PROVE  Ruled(merge(toResolvedHeaderSetting(d), s), d, s)
<1> DEFINE b == toResolvedHeaderSetting(d)
           r == merge(b, s)
           decided == Active(IF Decides(s) THEN s ELSE d)
           value == IF s.value = NoValue THEN b.value ELSE s.value
           on == s.enabled = "true" \/ s.value # NoValue \/ b.enabled
           always == s.always = "true" \/ (s.always = Absent /\ b.always)
<1>1. (b.enabled <=> Active(d)) /\ b.value = d.value /\ (b.always <=> d.always = "true")
  <2>1. CASE d = NotGiven
    BY <2>1 DEF NotGiven, toResolvedHeaderSetting, Gone, Active, Absent
  <2>2. CASE d # NotGiven
    <3> DEFINE o == d.enabled = "true" \/ (d.enabled = Absent /\ d.value # NoValue)
    <3>1. d.given = TRUE /\ d.enabled \in Flag
      BY <2>2 DEF IsEntry
    <3>2. (o <=> Active(d)) /\ ~(o /\ d.value = NoValue)
      BY <3>1 DEF Active, Flag, Absent
    <3> DEFINE a == d.always = "true"
    <3>3. b = [there |-> TRUE, enabled |-> o, value |-> d.value, always |-> a]
      BY <3>1, <3>2 DEF toResolvedHeaderSetting
    <3>4. o \in BOOLEAN /\ a \in BOOLEAN
      OBVIOUS
    <3> HIDE DEF o, a
    <3>5. (b.enabled <=> o) /\ b.value = d.value /\ (b.always <=> a)
      BY <3>3, <3>4, ResolvedFields
    <3> QED
      BY <3>2, <3>5 DEF a
  <2> QED
    BY <2>1, <2>2
<1> SUFFICES Ruled(r, d, s)
  OBVIOUS
<1> HIDE DEF b, r
<1>2. Active(d) => d.value # NoValue
  BY DEF Active, IsEntry, Absent
<1>3. CASE s = NotGiven
  <2>1. r = b /\ ~Decides(s) /\ s.always = Absent /\ s.value = NoValue
    BY <1>3 DEF r, merge, NotGiven, Decides, Absent
  <2> QED
    BY <2>1, <1>1, <1>2 DEF Ruled
<1>4. CASE s # NotGiven /\ s.enabled = "false"
  <2>1. r = Gone /\ ~Active(s) /\ Decides(s)
    BY <1>4 DEF r, IsEntry, merge, Active, Decides, Absent
  <2> QED
    BY <2>1 DEF Gone, Ruled
<1>5. CASE s # NotGiven /\ s.enabled # "false"
  <2>1. s.given = TRUE /\ s.enabled \in {Absent, "true"} /\ s.always \in Flag
    BY <1>5 DEF IsEntry, Flag
  <2>2. decided <=> on
    BY <2>1, <1>1 DEF Active, Decides, Absent
  <2>3. value = (IF s.value = NoValue THEN d ELSE s).value
    BY <1>1
  <2>4. always <=> (IF s.always = Absent THEN d ELSE s).always = "true"
    BY <1>1, <2>1 DEF Flag, Absent
  <2>5. decided => value # NoValue
    BY <2>1, <2>2, <1>1, <1>2 DEF Active, Absent
  <2>6. CASE on
    <3>1. r = [there |-> TRUE, enabled |-> on, value |-> value, always |-> always]
      BY <1>5, <2>1, <2>2, <2>5, <2>6 DEF r, merge
    <3>2. on \in BOOLEAN /\ always \in BOOLEAN
      OBVIOUS
    <3> HIDE DEF on, value, always
    <3>3. (r.enabled <=> on) /\ r.value = value /\ (r.always <=> always)
      BY <3>1, <3>2, ResolvedFields
    <3> QED
      BY <2>2, <2>3, <2>4, <2>5, <2>6, <3>3 DEF Ruled
  <2>7. CASE ~on
    <3>1. r = b
      BY <1>5, <2>1, <2>7 DEF r, merge
    <3>2. ~r.enabled
      BY <2>7, <3>1
    <3> QED
      BY <2>2, <2>7, <3>2 DEF Ruled
  <2> QED
    BY <2>6, <2>7
<1> QED
  BY <1>3, <1>4, <1>5

(* The entries of the state are entries, whichever scope applies.          *)
LEMMA Entries ==
  ASSUME HeaderTypeOK
  PROVE  /\ IsEntry(defaults, DefaultValue) /\ IsEntry(override, OwnValue)
         /\ Override \in {override, NotGiven} /\ IsEntry(Override, OwnValue)
  BY DEF HeaderTypeOK, Setting, IsEntry, Override

LEMMA ApplyKeeps ==
  ASSUME HeaderInv, NEW listed \in BOOLEAN, ApplyForwarderHeaders(listed)
  PROVE  HeaderInv'
<1> DEFINE r == resolveHeadersForSubdomain
           set == /\ host # "root" /\ r.enabled /\ r.value # NoValue
                  /\ r.always \/ listed
<1>1. UNCHANGED <<defaults, override, scope, host>>
      /\ answer' = [sent |-> TRUE, listed |-> listed, set |-> set,
                    value |-> IF set THEN r.value ELSE NoValue]
  BY DEF ApplyForwarderHeaders
<1>2. HeaderTypeOK' /\ answer'.sent \in BOOLEAN
  BY <1>1 DEF HeaderInv, HeaderTypeOK
<1>3. Override' = Override
  BY <1>1 DEF Override
<1>4. ASSUME ValidateHeaderSettingsConfig PROVE Ruled(r, defaults, Override)
  <2>1. /\ defaults.enabled = "true" => defaults.value # NoValue
        /\ Override.enabled = "true" =>
             Override.value # NoValue \/ defaults.value # NoValue
    BY <1>4, Entries DEF HeaderInv, ValidateHeaderSettingsConfig, NotGiven, Absent
  <2> QED
    BY <2>1, Entries, MergeIsTheRule DEF HeaderInv, resolveHeadersForSubdomain
<1> HIDE DEF r
<1>5. AcceptedIsApplied'
  <2> DEFINE decided == Active(IF Decides(Override) THEN Override ELSE defaults)
             own == (IF Override.value = NoValue THEN defaults ELSE Override).value
             rule == host # "root" /\ (Always \/ listed) /\ decided
  <2>1. /\ answer'.set = set /\ answer'.listed = listed
        /\ set => answer'.value = r.value
    BY <1>1
  <2>2. ASSUME ValidateHeaderSettingsConfig PROVE (set <=> rule) /\ (rule => r.value = own)
    BY <1>4, <2>2 DEF Ruled, Always
  <2>3. ValidateHeaderSettingsConfig' = ValidateHeaderSettingsConfig
    BY <1>1 DEF ValidateHeaderSettingsConfig
  <2>4. Always' = Always
    BY <1>1, <1>3 DEF Always
  <2>5. answer'.set \in BOOLEAN
    BY <2>1
  <2> HIDE DEF set
  <2>6. AcceptedIsApplied' = 
          (ValidateHeaderSettingsConfig /\ answer'.sent =>
             answer'.set = rule /\ (answer'.set => answer'.value = own))
    BY <1>1, <1>3, <2>1, <2>3, <2>4 DEF AcceptedIsApplied, Expected
  <2> QED
    BY <2>1, <2>2, <2>5, <2>6
<1> QED
  BY <1>2, <1>5 DEF HeaderInv

LEMMA NextHeaderInv == HeaderInv /\ [HeaderNext]_headerVars => HeaderInv'
<1> SUFFICES ASSUME HeaderInv, [HeaderNext]_headerVars PROVE HeaderInv'
  OBVIOUS
<1>1. CASE HeaderNext
  BY <1>1, ApplyKeeps DEF HeaderNext
<1>2. CASE UNCHANGED headerVars
  BY <1>2 DEF headerVars, HeaderInv, HeaderTypeOK, AcceptedIsApplied, Override,
              ValidateHeaderSettingsConfig, Expected, Always
<1> QED
  BY <1>1, <1>2

(* What ValidateHeaderSettingsConfig accepts is applied by the rules of    *)
(* the documentation, for every pair of values and every scope.            *)
THEOREM HeadersFollowTheRules == HeaderSpec => []AcceptedIsApplied
<1>1. HeaderInv => AcceptedIsApplied
  BY DEF HeaderInv
<1> QED
  BY <1>1, InitHeaderInv, NextHeaderInv, PTL DEF HeaderSpec
=============================================================================
