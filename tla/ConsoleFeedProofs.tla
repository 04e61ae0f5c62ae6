------------------------- MODULE ConsoleFeedProofs -------------------------
(***************************************************************************)
(* For any number of pages and broadcasts, any message lengths and any     *)
(* limits: a page of the service console misses nothing of what the        *)
(* history of its route holds, and that history stays within its limits.   *)
(* FeedInv is the inductive invariant.  What the history operators (trim,  *)
(* TrimEvents, WithEvent, KeepLast) do to sequences of any length is       *)
(* proved first, from what Length adds up to.                              *)
(***************************************************************************)
EXTENDS ConsoleFeed, WellFoundedInduction, TLAPS

-----------------------------------------------------------------------------
(* A set of numbers has a least member, so a counterexample has one too:   *)
(* that is how the lemmas about sequences are proved.                      *)
LEMMA MinMember ==
  ASSUME NEW S, S \subseteq Nat, S # {}
  PROVE  Min(S) \in S /\ \A y \in S : Min(S) <= y
<1>1. PICK x \in S : \A y \in S : ~(<<y, x>> \in OpToRel(<, Nat))
  BY NatLessThanWellFounded, WFMin
<1>2. ASSUME NEW y \in S PROVE x <= y
  <2>1. x \in Nat /\ y \in Nat /\ <<y, x>> \in Nat \X Nat
    OBVIOUS
  <2>2. y < x => <<y, x>> \in OpToRel(<, Nat)
    BY <2>1, Zenon DEF OpToRel
  <2>3. ~(y < x)
    BY <1>1, <2>2, Zenon
  <2> QED
    BY <2>1, <2>3
<1> QED
  BY <1>2 DEF Min

-----------------------------------------------------------------------------
(* Length adds up sizes.  The sums of the beginnings of a sequence exist   *)
(* and are unique, each by a least counterexample.                         *)
IsSum(s, n, f) ==
  f = [i \in 0 .. n |-> IF i = 0 THEN 0 ELSE f[i - 1] + s[i].size]

Sized(s) ==
  /\ \E S : s \in Seq(S)
  /\ \A i \in 1 .. Len(s) : s[i].size \in Int

(* There are such sums.                                                    *)
LEMMA SumExists ==
  ASSUME NEW s, Sized(s), NEW n \in 0 .. Len(s)
  PROVE  \E f \in [0 .. n -> Int] : IsSum(s, n, f)
<1> DEFINE Bad == {k \in Nat : k <= Len(s) /\ ~\E f \in [0 .. k -> Int] : IsSum(s, k, f)}
<1>0. Len(s) \in Nat
  BY DEF Sized
<1> SUFFICES ASSUME n \in Bad PROVE FALSE
  BY <1>0
<1>1. PICK m \in Bad : \A y \in Bad : m <= y
  BY MinMember
<1>2. m # 0
  <2>1. ASSUME m = 0 PROVE FALSE
    <3> DEFINE f == [i \in 0 .. 0 |-> 0]
    <3>1. f \in [0 .. 0 -> Int] /\ IsSum(s, 0, f)
      BY DEF IsSum
    <3> QED
      BY <2>1, <3>1
  <2> QED
    BY <2>1
<1>3. m - 1 \in Nat /\ m - 1 \notin Bad /\ m - 1 <= Len(s)
  BY <1>0, <1>1, <1>2
<1>4. PICK g \in [0 .. (m - 1) -> Int] : IsSum(s, m - 1, g)
  BY <1>3
<1> DEFINE f == [i \in 0 .. m |-> IF i = m THEN g[m - 1] + s[m].size ELSE g[i]]
<1>5. m \in 1 .. Len(s) /\ s[m].size \in Int
  BY <1>0, <1>2 DEF Sized
<1>6. f \in [0 .. m -> Int]
  BY <1>5
<1>7. \A i \in 0 .. m : f[i] = IF i = 0 THEN 0 ELSE f[i - 1] + s[i].size
  <2> TAKE i \in 0 .. m
  <2>1. CASE i = m
    BY <1>5, <2>1
  <2>2. CASE i # m
    <3>1. i \in 0 .. (m - 1) /\ f[i] = g[i] /\ (i # 0 => f[i - 1] = g[i - 1])
      BY <1>5, <2>2
    <3> QED
      BY <1>4, <3>1 DEF IsSum
  <2> QED
    BY <2>1, <2>2
<1>8. IsSum(s, m, f)
  BY <1>7 DEF IsSum
<1> QED
  BY <1>1, <1>6, <1>8

(* There is only one.                                                      *)
LEMMA SumUnique ==
  ASSUME NEW s, NEW n \in Nat, NEW f, IsSum(s, n, f), NEW g, IsSum(s, n, g)
  PROVE  f = g
<1> DEFINE Bad == {k \in Nat : k <= n /\ f[k] # g[k]}
<1>1. Bad = {}
  <2> SUFFICES ASSUME Bad # {} PROVE FALSE
    OBVIOUS
  <2>1. PICK m \in Bad : \A y \in Bad : m <= y
    BY MinMember
  <2>2. m \in 0 .. n /\ f[m] # g[m]
    BY <2>1
  <2>3. m # 0
    BY <2>2 DEF IsSum
  <2>4. m - 1 \in Nat /\ m - 1 \notin Bad /\ m - 1 <= n
    BY <2>1, <2>2, <2>3
  <2>5. f[m - 1] = g[m - 1]
    BY <2>4
  <2> QED
    BY <2>2, <2>3, <2>5 DEF IsSum
<1>2. \A k \in 0 .. n : f[k] = g[k]
  BY <1>1
<1> QED
  BY <1>2 DEF IsSum

(* Length is the last of them.                                             *)
LEMMA LengthIs ==
  ASSUME NEW s, Sized(s), NEW f, IsSum(s, Len(s), f)
  PROVE  Length(s) = f[Len(s)]
<1> DEFINE c == CHOOSE h : h = [i \in 0 .. Len(s) |-> IF i = 0 THEN 0 ELSE h[i - 1] + s[i].size]
<1>1. Length(s) = c[Len(s)]
  BY DEF Length
<1>2. IsSum(s, Len(s), c)
  BY DEF IsSum
<1>3. Len(s) \in Nat
  BY DEF Sized
<1> HIDE DEF c
<1> QED
  BY <1>1, <1>2, <1>3, SumUnique

(* The two directions of IsSum.                                            *)
LEMMA SumSteps ==
  ASSUME NEW s, NEW n \in Nat, NEW f, IsSum(s, n, f)
  PROVE  f[0] = 0 /\ \A i \in 1 .. n : f[i] = f[i - 1] + s[i].size
<1>1. ASSUME NEW i \in 0 .. n PROVE f[i] = IF i = 0 THEN 0 ELSE f[i - 1] + s[i].size
  BY DEF IsSum
<1>2. f[0] = 0
  <2>1. 0 \in 0 .. n
    OBVIOUS
  <2> QED
    BY <1>1, <2>1
<1>3. ASSUME NEW i \in 1 .. n PROVE f[i] = f[i - 1] + s[i].size
  <2>1. i \in 0 .. n /\ i # 0
    OBVIOUS
  <2> QED
    BY <1>1, <2>1
<1> QED
  BY <1>2, <1>3

(* And the other direction.                                                *)
LEMMA SumWhen ==
  ASSUME NEW s, NEW n \in Nat, NEW f \in [0 .. n -> Int], f[0] = 0,
         \A i \in 1 .. n : f[i] = f[i - 1] + s[i].size
  PROVE  IsSum(s, n, f)
<1>1. \A i \in 0 .. n : f[i] = IF i = 0 THEN 0 ELSE f[i - 1] + s[i].size
  OBVIOUS
<1> QED
  BY <1>1 DEF IsSum

(* What Length makes of the ways the history is cut and extended.          *)
LEMMA LengthFacts ==
  ASSUME NEW S, \A x \in S : x.size \in Int, NEW s \in Seq(S)
  PROVE  /\ Length(s) \in Int
         /\ s = <<>> => Length(s) = 0
         /\ \A e \in S : Length(Append(s, e)) = Length(s) + e.size
         /\ \A k \in 0 .. Len(s) :
              Length(SubSeq(s, 1, k)) + Length(SubSeq(s, k + 1, Len(s))) = Length(s)
<1> DEFINE n == Len(s)
<1>1. n \in Nat /\ Sized(s)
  BY DEF Sized
<1>2. PICK f \in [0 .. n -> Int] : IsSum(s, n, f)
  BY <1>1, SumExists
<1>3. /\ f[0] = 0 /\ \A i \in 1 .. n : f[i] = f[i - 1] + s[i].size
      /\ \A i \in 0 .. n : f[i] \in Int
  BY <1>1, <1>2, SumSteps
<1>4. Length(s) = f[n]
  BY <1>1, <1>2, LengthIs
<1>5. ASSUME NEW e \in S PROVE Length(Append(s, e)) = Length(s) + e.size
  <2> DEFINE t == Append(s, e)
             g == [i \in 0 .. (n + 1) |-> IF i = n + 1 THEN f[n] + e.size ELSE f[i]]
  <2>1. /\ t \in Seq(S) /\ Len(t) = n + 1 /\ t[n + 1] = e
        /\ \A i \in 1 .. n : t[i] = s[i]
    BY <1>1
  <2>2. Sized(t)
    BY <2>1 DEF Sized
  <2>3. \A i \in 0 .. (n + 1) : g[i] = IF i = 0 THEN 0 ELSE g[i - 1] + t[i].size
    <3> TAKE i \in 0 .. (n + 1)
    <3> HIDE DEF t
    <3>1. CASE i = n + 1
      BY <1>1, <2>1, <3>1
    <3>2. CASE i # n + 1
      BY <1>1, <1>3, <2>1, <3>2
    <3> QED
      BY <3>1, <3>2
  <2>4. IsSum(t, Len(t), g)
    BY <2>1, <2>3 DEF IsSum
  <2>5. Length(t) = g[n + 1]
    BY <2>1, <2>2, <2>4, LengthIs
  <2> QED
    BY <1>1, <1>4, <2>5
<1>6. ASSUME NEW k \in 0 .. n
      PROVE  Length(SubSeq(s, 1, k)) + Length(SubSeq(s, k + 1, n)) = Length(s)
  <2> DEFINE a == SubSeq(s, 1, k)
             b == SubSeq(s, k + 1, n)
             g == [i \in 0 .. k |-> f[i]]
             h == [i \in 0 .. (n - k) |-> f[k + i] - f[k]]
  <2>1. /\ a \in Seq(S) /\ Len(a) = k /\ \A i \in 1 .. k : a[i] = s[i]
        /\ b \in Seq(S) /\ Len(b) = n - k /\ \A i \in 1 .. (n - k) : b[i] = s[k + i]
    BY <1>1
  <2> HIDE DEF a, b
  <2>2. Sized(a) /\ Sized(b)
    <3>1. \A i \in 1 .. Len(a) : a[i] \in S
      BY <2>1
    <3>2. \A i \in 1 .. Len(b) : b[i] \in S
      BY <2>1
    <3> QED
      BY <2>1, <3>1, <3>2 DEF Sized
  <2>3. Length(a) = f[k]
    <3>1. g \in [0 .. k -> Int] /\ g[0] = 0 /\ g[k] = f[k] /\ k \in Nat
      BY <1>1, <1>3
    <3>2. \A i \in 1 .. k : g[i] = g[i - 1] + a[i].size
      BY <1>1, <1>3, <2>1
    <3> HIDE DEF g
    <3>3. IsSum(a, k, g)
      BY <3>1, <3>2, SumWhen
    <3> QED
      BY <2>1, <2>2, <3>1, <3>3, LengthIs
  <2>4. Length(b) = f[n] - f[k]
    <3>1. \A i \in 0 .. (n - k) : k + i \in 0 .. n /\ f[k + i] \in Int /\ f[k] \in Int
      BY <1>1, <1>3
    <3>2. h \in [0 .. (n - k) -> Int] /\ h[0] = 0 /\ h[n - k] = f[n] - f[k] /\ n - k \in Nat
      BY <1>1, <1>3, <3>1
    <3>3. ASSUME NEW i \in 1 .. (n - k) PROVE h[i] = h[i - 1] + b[i].size
      <4> DEFINE p == k + i
      <4>1. /\ p \in 1 .. n /\ p - 1 = k + (i - 1) /\ i - 1 \in 0 .. (n - k)
            /\ i \in 0 .. (n - k) /\ p - 1 \in 0 .. n /\ p \in 0 .. n /\ k \in 0 .. n
        BY <1>1
      <4>2. h[i] = f[p] - f[k] /\ h[i - 1] = f[p - 1] - f[k] /\ b[i] = s[p]
        BY <2>1, <4>1
      <4> HIDE DEF p, h
      <4>3. f[p] = f[p - 1] + s[p].size
        BY <1>3, <4>1
      <4>4. s[p].size \in Int /\ f[p] \in Int /\ f[p - 1] \in Int /\ f[k] \in Int
        BY <1>1, <1>3, <4>1 DEF Sized
      <4> QED
        BY <4>2, <4>3, <4>4
    <3> HIDE DEF h
    <3>4. IsSum(b, n - k, h)
      BY <3>2, <3>3, SumWhen
    <3> QED
      BY <2>1, <2>2, <3>2, <3>4, LengthIs
  <2> QED
    BY <1>1, <1>3, <1>4, <2>3, <2>4 DEF a, b
<1> QED
  BY <1>1, <1>3, <1>4, <1>5, <1>6

-----------------------------------------------------------------------------
(* A record of the history, and one that was cut down: some of its oldest  *)
(* events are gone and so is their size.                                   *)
Event == [seq : Nat, size : Nat]
Records == [id : Nat \ {0}, size : Int, events : Seq(Event)]

Base(r) == r.size - Length(r.events)

Shrunk(q, r) ==
  /\ q \in Records /\ q.id = r.id /\ Base(q) = Base(r)
  /\ ToSet(q.events) \subseteq ToSet(r.events) /\ Len(q.events) <= Len(r.events)

(* The lengths of events and of records.                                   *)
LEMMA EventLength ==
  ASSUME NEW s \in Seq(Event)
  PROVE  /\ Length(s) \in Int /\ (s = <<>> => Length(s) = 0) /\ Len(s) \in Nat
         /\ \A e \in Event : Length(Append(s, e)) = Length(s) + e.size
         /\ \A k \in 0 .. Len(s) :
              Length(SubSeq(s, 1, k)) + Length(SubSeq(s, k + 1, Len(s))) = Length(s)
<1>1. (\A x \in Event : x.size \in Int) /\ Len(s) \in Nat
  BY DEF Event
<1> QED
  BY <1>1, LengthFacts

(* A record on its own is as long as its size, and is not cut down.        *)
LEMMA RecordLength ==
  ASSUME NEW r \in Records
  PROVE  Base(r) \in Int /\ Length(<<r>>) = r.size /\ Shrunk(r, r)
<1>1. <<>> \in Seq(Records) /\ Append(<<>>, r) = <<r>> /\ \A x \in Records : x.size \in Int
  BY DEF Records
<1>2. Length(<<>>) = 0 /\ Length(Append(<<>>, r)) = Length(<<>>) + r.size
  BY <1>1, LengthFacts
<1>3. Base(r) \in Int
  BY EventLength DEF Records, Base
<1>4. Length(<<r>>) = r.size
  BY <1>1, <1>2 DEF Records
<1>5. r.events \in Seq(Event)
  BY DEF Records
<1> QED
  BY <1>3, <1>4, <1>5 DEF Shrunk

(* The end of a sequence.                                                  *)
LEMMA Suffix ==
  ASSUME NEW S, NEW s \in Seq(S), NEW k \in 0 .. Len(s)
  PROVE  LET t == SubSeq(s, k + 1, Len(s)) IN
         /\ t \in Seq(S) /\ Len(t) = Len(s) - k /\ ToSet(t) \subseteq ToSet(s)
         /\ \A i \in 1 .. Len(t) : t[i] = s[k + i]
<1> DEFINE t == SubSeq(s, k + 1, Len(s))
<1>1. t \in Seq(S) /\ Len(t) = Len(s) - k /\ Len(s) \in Nat
      /\ \A i \in 1 .. Len(t) : t[i] = s[k + i] /\ k + i \in 1 .. Len(s)
  OBVIOUS
<1>2. DOMAIN t = 1 .. Len(t) /\ DOMAIN s = 1 .. Len(s)
  BY <1>1
<1> HIDE DEF t
<1>3. ToSet(t) \subseteq ToSet(s)
  BY <1>1, <1>2 DEF ToSet
<1> QED
  BY <1>1, <1>3 DEF t

(* KeepLast leaves room for one more.                                      *)
LEMMA KeptLast ==
  ASSUME NEW S, NEW s \in Seq(S), NEW n \in Nat \ {0}
  PROVE  /\ KeepLast(s, n) \in Seq(S) /\ Len(KeepLast(s, n)) < n
         /\ ToSet(KeepLast(s, n)) \subseteq ToSet(s)
<1>1. CASE Len(s) < n
  BY <1>1 DEF KeepLast
<1>2. CASE ~(Len(s) < n)
  <2> DEFINE k == Len(s) - n + 1
  <2>1. k \in 0 .. Len(s) /\ KeepLast(s, n) = SubSeq(s, k + 1, Len(s)) /\ Len(s) \in Nat
    BY <1>2 DEF KeepLast
  <2>2. /\ KeepLast(s, n) \in Seq(S) /\ Len(KeepLast(s, n)) = Len(s) - k
        /\ ToSet(KeepLast(s, n)) \subseteq ToSet(s)
    BY <2>1, Suffix
  <2> QED
    BY <2>1, <2>2
<1> QED
  BY <1>1, <1>2

(* TrimEvents drops the oldest events of a record until it fits.           *)
LEMMA TrimmedEvents ==
  ASSUME NEW r \in Records, MaxBytes \in Nat
  PROVE  LET q == TrimEvents(r) IN
         Shrunk(q, r) /\ (q.size <= MaxBytes \/ q.size = Base(r))
<1> DEFINE n == Len(r.events)
           D == {k \in 0 .. n : k = n \/ r.size - Length(SubSeq(r.events, 1, k)) <= MaxBytes}
           drop == Min(D)
           cut == Length(SubSeq(r.events, 1, drop))
           rest == SubSeq(r.events, drop + 1, n)
           q == TrimEvents(r)
<1>1. r.events \in Seq(Event) /\ n \in Nat /\ r.size \in Int /\ r.id \in Nat \ {0}
  BY DEF Records
<1>2. n \in D /\ D \subseteq Nat
  BY <1>1
<1>3. drop \in D
  BY <1>2, MinMember
<1>4. q = [r EXCEPT !.size = @ - cut, !.events = rest]
  BY DEF TrimEvents
<1>5. /\ drop \in 0 .. n
      /\ drop = n \/ r.size - cut <= MaxBytes
  BY <1>3
<1> HIDE DEF drop, D
<1>6. rest \in Seq(Event) /\ Len(rest) = n - drop /\ ToSet(rest) \subseteq ToSet(r.events)
  BY <1>1, <1>5, Suffix
<1>7. cut \in Int /\ Length(rest) \in Int /\ cut + Length(rest) = Length(r.events)
      /\ Length(r.events) \in Int
  <2>1. SubSeq(r.events, 1, drop) \in Seq(Event)
    BY <1>1, <1>5
  <2> QED
    BY <1>1, <1>5, <1>6, <2>1, EventLength
<1> HIDE DEF cut, rest, q
<1>8. /\ q \in Records /\ q.id = r.id /\ q.size = r.size - cut /\ q.events = rest
  <2>1. q = [id |-> r.id, size |-> r.size - cut, events |-> rest]
    BY <1>4 DEF Records
  <2> QED
    BY <1>1, <1>6, <1>7, <2>1 DEF Records
<1>9. Base(q) = Base(r)
  BY <1>1, <1>7, <1>8 DEF Base
<1>10. n - drop <= n
  BY <1>1, <1>5
<1>11. drop = n => q.size = Base(r)
  <2>1. drop = n => rest = <<>>
    BY <1>1, <1>6
  <2> QED
    <3> SUFFICES ASSUME drop = n PROVE q.size = Base(r)
      OBVIOUS
    <3>1. Length(rest) = 0
      BY <1>6, <2>1, EventLength
    <3> QED
      BY <1>1, <1>7, <1>8, <3>1 DEF Base
<1> QED
  BY <1>5, <1>6, <1>8, <1>9, <1>10, <1>11 DEF Shrunk, q

(* trim drops the oldest records, and then the oldest events of the last   *)
(* one, until the history fits.                                            *)
LEMMA Trimmed ==
  ASSUME NEW h \in Seq(Records), h # <<>>, MaxBytes \in Nat
  PROVE  LET t == trim(h) IN
         /\ t \in Seq(Records) /\ Len(t) <= Len(h)
         /\ \A i \in 1 .. Len(t) : \E k \in 1 .. Len(h) : Shrunk(t[i], h[k])
         /\ \/ Length(t) <= MaxBytes
            \/ Len(t) = 1 /\ Length(t) = Base(t[1])
<1> DEFINE n == Len(h)
           D == {k \in 0 .. n - 1 :
                   k = n - 1 \/ Length(SubSeq(h, k + 1, n)) <= MaxBytes}
           drop == Min(D)
           rest == SubSeq(h, drop + 1, n)
           t == trim(h)
<1>1. n \in Nat /\ n # 0
  OBVIOUS
<1>2. n - 1 \in D /\ D \subseteq Nat
  BY <1>1
<1>3. drop \in D
  BY <1>2, MinMember
<1>4. t = IF Len(rest) = 1 THEN <<TrimEvents(rest[1])>> ELSE rest
  BY DEF trim
<1> HIDE DEF drop
<1>5. drop \in 0 .. n /\ (drop = n - 1 \/ Length(rest) <= MaxBytes)
  BY <1>1, <1>3
<1> HIDE DEF D
<1>6. /\ rest \in Seq(Records) /\ Len(rest) = n - drop
      /\ \A i \in 1 .. Len(rest) : rest[i] = h[drop + i]
  BY <1>1, <1>5, Suffix
<1> HIDE DEF rest, t
<1>7. \A i \in 1 .. Len(rest) : drop + i \in 1 .. n
  BY <1>1, <1>5, <1>6
<1>8. CASE Len(rest) = 1
  <2> DEFINE r == rest[1]
             q == TrimEvents(r)
  <2>1. r \in Records /\ r = h[drop + 1] /\ drop + 1 \in 1 .. n
    BY <1>6, <1>7, <1>8
  <2>2. Shrunk(q, r) /\ (q.size <= MaxBytes \/ q.size = Base(r))
    BY <2>1, TrimmedEvents
  <2>3. t = <<q>>
    BY <1>4, <1>8
  <2>4. q \in Records /\ Base(q) = Base(r)
    BY <2>2 DEF Shrunk
  <2> HIDE DEF q
  <2>5. Length(t) = q.size /\ Len(t) = 1 /\ t[1] = q /\ t \in Seq(Records)
    BY <2>3, <2>4, RecordLength
  <2>6. \A i \in 1 .. Len(t) : Shrunk(t[i], h[drop + 1])
    BY <2>1, <2>2, <2>5
  <2>7. Length(t) <= MaxBytes \/ Length(t) = Base(t[1])
    BY <2>2, <2>4, <2>5
  <2>8. Len(t) <= n
    BY <1>1, <2>5
  <2> QED
    BY <2>1, <2>5, <2>6, <2>7, <2>8 DEF t
<1>9. CASE Len(rest) # 1
  <2>1. t = rest /\ Length(rest) <= MaxBytes
    BY <1>1, <1>4, <1>5, <1>6, <1>9
  <2>2. \A i \in 1 .. Len(t) : Shrunk(t[i], h[drop + i])
    <3> TAKE i \in 1 .. Len(t)
    <3>1. rest[i] \in Records /\ rest[i] = h[drop + i]
      BY <1>6, <2>1
    <3> QED
      BY <2>1, <3>1, RecordLength
  <2> QED
    BY <1>1, <1>5, <1>6, <1>7, <2>1, <2>2 DEF t
<1> QED
  BY <1>8, <1>9

(* WithEvent adds an event to a record.                                    *)
LEMMA EventAdded ==
  ASSUME NEW r \in Records, NEW m \in Nat \X Nat, NEW len \in Nat,
         EventLimit \in Nat \ {0}
  PROVE  LET q == WithEvent(r, m, len) IN
         /\ q \in Records /\ q.id = r.id /\ Base(q) = Base(r)
         /\ Len(q.events) <= EventLimit
         /\ \A e \in ToSet(q.events) : e \in ToSet(r.events) \/ e.seq = m[2]
<1> DEFINE kept == KeepLast(r.events, EventLimit)
           new == [seq |-> m[2], size |-> len]
           more == Append(kept, new)
           q == WithEvent(r, m, len)
<1>1. r.events \in Seq(Event) /\ r.size \in Int /\ r.id \in Nat \ {0} /\ new \in Event
      /\ new.size = len /\ new.seq = m[2]
  BY DEF Records, Event
<1>2. kept \in Seq(Event) /\ Len(kept) < EventLimit /\ ToSet(kept) \subseteq ToSet(r.events)
  BY <1>1, KeptLast
<1>3. q = [r EXCEPT !.events = more, !.size = @ - (Length(r.events) - Length(kept)) + len]
  BY DEF WithEvent
<1> HIDE DEF kept, new, q
<1>4. more \in Seq(Event) /\ Len(more) = Len(kept) + 1 /\ Len(kept) \in Nat
      /\ Length(more) = Length(kept) + len
      /\ Length(kept) \in Int /\ Length(r.events) \in Int /\ Length(more) \in Int
  BY <1>1, <1>2, EventLength
<1>5. ToSet(more) \subseteq ToSet(kept) \cup {new}
  <2>1. /\ DOMAIN more = 1 .. (Len(kept) + 1) /\ DOMAIN kept = 1 .. Len(kept)
        /\ \A i \in 1 .. (Len(kept) + 1) :
             more[i] = IF i = Len(kept) + 1 THEN new ELSE kept[i]
    BY <1>1, <1>2
  <2>2. \A i \in 1 .. (Len(kept) + 1) : i = Len(kept) + 1 \/ i \in 1 .. Len(kept)
    BY <1>4
  <2> HIDE DEF more
  <2> QED
    BY <2>1, <2>2 DEF ToSet
<1> HIDE DEF more
<1>6. /\ q \in Records /\ q.id = r.id /\ q.events = more
      /\ q.size = r.size - (Length(r.events) - Length(kept)) + len
  <2>1. q = [id |-> r.id, size |-> r.size - (Length(r.events) - Length(kept)) + len,
             events |-> more]
    BY <1>3 DEF Records
  <2> QED
    BY <1>1, <1>4, <2>1 DEF Records
<1>7. Base(q) = Base(r)
  BY <1>1, <1>4, <1>6 DEF Base
<1> QED
  BY <1>1, <1>2, <1>4, <1>5, <1>6, <1>7 DEF q

-----------------------------------------------------------------------------
(* The history as a whole.                                                 *)
Message == Nat \X Nat

(* Which messages a record, and a history, holds.                          *)
Holds(r, m) == m = <<r.id, 0>> \/ \E e \in ToSet(r.events) : m = <<r.id, e.seq>>
Kept(h, m) == \E i \in 1 .. Len(h) : Holds(h[i], m)

RetainedOf(h) ==
  UNION {{<<h[i].id, 0>>} \cup {<<h[i].id, e.seq>> : e \in ToSet(h[i].events)}
         : i \in DOMAIN h}

(* Its messages as a set, and one by one.                                  *)
LEMMA RetainedIs ==
  ASSUME NEW h \in Seq(Records), NEW m
  PROVE  m \in RetainedOf(h) <=> Kept(h, m)
<1> DEFINE M(i) == {<<h[i].id, 0>>} \cup {<<h[i].id, e.seq>> : e \in ToSet(h[i].events)}
<1>1. DOMAIN h = 1 .. Len(h)
  OBVIOUS
<1>2. ASSUME NEW i PROVE m \in M(i) <=> Holds(h[i], m)
  BY DEF Holds
<1>3. m \in RetainedOf(h) <=> \E i \in DOMAIN h : m \in M(i)
  BY DEF RetainedOf
<1> QED
  BY <1>1, <1>2, <1>3 DEF Kept

(* Retained, before and after a step.                                      *)
LEMMA RetainedKept ==
  ASSUME history \in Seq(Records), NEW m
  PROVE  m \in Retained <=> Kept(history, m)
<1>1. Retained = RetainedOf(history)
  BY DEF Retained, RetainedOf
<1> QED
  BY <1>1, RetainedIs

(* The same after a step.                                                  *)
LEMMA RetainedKeptNext ==
  ASSUME history' \in Seq(Records), NEW m
  PROVE  m \in Retained' <=> Kept(history', m)
<1>1. Retained' = RetainedOf(history')
  BY DEF Retained, RetainedOf
<1> QED
  BY <1>1, RetainedIs

(* What recording message m makes of a record r, and its own record.       *)
Grown(q, r, m) ==
  /\ q.id = r.id /\ Base(q) = Base(r)
  /\ Len(r.events) <= EventLimit => Len(q.events) <= EventLimit
  /\ \A e \in ToSet(q.events) : e \in ToSet(r.events) \/ <<q.id, e.seq>> = m

Fresh(q, m, len) ==
  /\ q.id = m[1] /\ m[2] = 0 /\ Base(q) = len /\ len <= MaxBytes
  /\ q.events = <<>>

Recorded(g, h, m, len) ==
  /\ g \in Seq(Records)
  /\ \A i \in 1 .. Len(g) : \/ \E k \in 1 .. Len(h) : Grown(g[i], h[k], m)
                            \/ Fresh(g[i], m, len)
  /\ Len(h) <= HistoryLimit => Len(g) <= HistoryLimit
  /\ \/ g = h \/ Length(g) <= MaxBytes
     \/ Len(g) = 1 /\ Length(g) = Base(g[1])

(* Trimming alone records nothing.                                         *)
LEMMA ShrunkGrown ==
  ASSUME NEW r \in Records, NEW q, Shrunk(q, r), NEW m, EventLimit \in Nat
  PROVE  Grown(q, r, m)
<1>1. q.events \in Seq(Event) /\ r.events \in Seq(Event) /\ Len(q.events) <= Len(r.events)
  BY DEF Shrunk, Records
<1>2. Len(q.events) \in Nat /\ Len(r.events) \in Nat
  BY <1>1
<1>3. Len(r.events) <= EventLimit => Len(q.events) <= EventLimit
  BY <1>1, <1>2
<1> QED
  BY <1>3 DEF Shrunk, Grown

(* Nor does leaving the history as it is.                                  *)
LEMMA NotRecorded ==
  ASSUME NEW h \in Seq(Records), NEW m, NEW len, FeedAssumption
  PROVE  Recorded(h, h, m, len)
<1> SUFFICES ASSUME NEW i \in 1 .. Len(h) PROVE Grown(h[i], h[i], m)
  BY DEF Recorded
<1>1. h[i] \in Records
  OBVIOUS
<1>2. Shrunk(h[i], h[i])
  BY <1>1, RecordLength
<1> QED
  BY <1>1, <1>2, ShrunkGrown DEF FeedAssumption

(* addRequestHistory, where it changes the history.                        *)
LEMMA RequestRecorded ==
  ASSUME FeedAssumption, NEW h \in Seq(Records), HistoryLimit # 0,
         NEW m \in Message, m[1] # 0, m[2] = 0, NEW len \in Nat, len <= MaxBytes
  PROVE  Recorded(trim(Append(KeepLast(h, HistoryLimit),
                              [id |-> m[1], size |-> len, events |-> <<>>])), h, m, len)
<1> DEFINE new == [id |-> m[1], size |-> len, events |-> <<>>]
           kept == KeepLast(h, HistoryLimit)
           more == Append(kept, new)
           g == trim(more)
<1>0. HistoryLimit \in Nat \ {0} /\ MaxBytes \in Nat /\ EventLimit \in Nat
  BY DEF FeedAssumption
<1>1. kept \in Seq(Records) /\ Len(kept) < HistoryLimit /\ ToSet(kept) \subseteq ToSet(h)
  BY <1>0, KeptLast
<1>2. new \in Records /\ Base(new) = len /\ new.id = m[1] /\ new.events = <<>>
  <2>1. <<>> \in Seq(Event) /\ new.events = <<>> /\ new.size = len
    OBVIOUS
  <2>2. Length(<<>>) = 0
    BY <2>1, EventLength
  <2>3. new \in Records
    BY <2>1 DEF Records, Message
  <2> QED
    BY <2>1, <2>2, <2>3 DEF Base
<1> HIDE DEF new, kept
<1>3. more \in Seq(Records) /\ more # <<>> /\ Len(more) = Len(kept) + 1 /\ Len(kept) \in Nat
  BY <1>1, <1>2
<1>4. ASSUME NEW k \in 1 .. Len(more)
      PROVE  more[k] = new \/ \E i \in 1 .. Len(h) : more[k] = h[i]
  <2>1. CASE k = Len(kept) + 1
    BY <1>1, <1>2, <2>1
  <2>2. CASE k # Len(kept) + 1
    <3>1. k \in 1 .. Len(kept)
      BY <1>3, <2>2
    <3>2. more[k] = kept[k] /\ DOMAIN kept = 1 .. Len(kept) /\ DOMAIN h = 1 .. Len(h)
      BY <1>1, <1>2, <3>1
    <3>3. kept[k] \in ToSet(h)
      BY <1>1, <3>1, <3>2 DEF ToSet
    <3> QED
      BY <3>2, <3>3 DEF ToSet
  <2> QED
    BY <2>1, <2>2
<1> HIDE DEF more
<1>5. /\ g \in Seq(Records) /\ Len(g) <= Len(more)
      /\ \A i \in 1 .. Len(g) : \E k \in 1 .. Len(more) : Shrunk(g[i], more[k])
      /\ \/ Length(g) <= MaxBytes
         \/ Len(g) = 1 /\ Length(g) = Base(g[1])
  BY <1>0, <1>3, Trimmed
<1> HIDE DEF g
<1>6. ASSUME NEW i \in 1 .. Len(g)
      PROVE  (\E k \in 1 .. Len(h) : Grown(g[i], h[k], m)) \/ Fresh(g[i], m, len)
  <2>1. PICK k \in 1 .. Len(more) : Shrunk(g[i], more[k])
    BY <1>5
  <2>2. CASE more[k] = new
    <3>1. g[i].events \in Seq(Event) /\ Len(g[i].events) <= 0
      BY <1>2, <2>1, <2>2 DEF Shrunk, Records
    <3>2. g[i].events = <<>>
      BY <3>1
    <3> QED
      BY <1>2, <2>1, <2>2, <3>2 DEF Shrunk, Fresh
  <2>3. ASSUME NEW a \in 1 .. Len(h), more[k] = h[a] PROVE Grown(g[i], h[a], m)
    <3>1. h[a] \in Records /\ Shrunk(g[i], h[a])
      BY <2>1, <2>3
    <3> QED
      BY <1>0, <3>1, ShrunkGrown
  <2> QED
    BY <1>4, <2>2, <2>3
<1>7. Len(g) <= HistoryLimit
  BY <1>0, <1>1, <1>3, <1>5
<1>8. Recorded(g, h, m, len)
  BY <1>5, <1>6, <1>7 DEF Recorded
<1> QED
  BY <1>8 DEF g, more, kept, new

(* A bounded set of numbers has a greatest member.                         *)
LEMMA MaxMember ==
  ASSUME NEW S, S \subseteq Nat, S # {}, NEW n \in Nat, \A x \in S : x <= n
  PROVE  Max(S) \in S /\ \A y \in S : y <= Max(S)
<1> DEFINE D == {k \in 0 .. n : n - k \in S}
<1>1. D \subseteq Nat /\ D # {}
  <2>1. PICK x \in S : TRUE
    OBVIOUS
  <2>2. n - x \in 0 .. n /\ n - (n - x) = x
    BY <2>1
  <2> QED
    BY <2>2
<1>2. PICK d \in D : \A y \in D : d <= y
  BY <1>1, MinMember
<1>3. n - d \in S /\ d \in 0 .. n
  BY <1>2
<1>4. ASSUME NEW y \in S PROVE y <= n - d
  <2>1. n - y \in 0 .. n /\ n - (n - y) = y
    OBVIOUS
  <2>2. d <= n - y
    BY <1>2, <2>1
  <2> QED
    BY <1>3, <2>2
<1>5. \E x \in S : \A y \in S : x >= y
  BY <1>3, <1>4
<1>6. Max(S) \in S /\ \A y \in S : Max(S) >= y
  BY <1>5 DEF Max
<1> QED
  BY <1>6

(* addRequestEvent, where it changes the history.                          *)
LEMMA EventRecorded ==
  ASSUME FeedAssumption, NEW h \in Seq(Records), EventLimit # 0,
         NEW m \in Message, NEW len \in Nat,
         NEW at, at = {i \in DOMAIN h : h[i].id = m[1]}, at # {}
  PROVE  Recorded(trim([h EXCEPT ![Max(at)] = WithEvent(@, m, len)]), h, m, len)
<1> DEFINE a == Max(at)
           q == WithEvent(h[a], m, len)
           more == [h EXCEPT ![a] = q]
           g == trim(more)
<1>0. EventLimit \in Nat \ {0} /\ MaxBytes \in Nat /\ EventLimit \in Nat
  BY DEF FeedAssumption
<1>1. a \in 1 .. Len(h) /\ h[a].id = m[1] /\ h[a] \in Records
  <2>1. at \subseteq Nat /\ Len(h) \in Nat /\ \A x \in at : x <= Len(h)
    OBVIOUS
  <2>2. a \in at
    BY <2>1, MaxMember
  <2> QED
    BY <2>2
<1> HIDE DEF a
<1>2. /\ q \in Records /\ q.id = h[a].id /\ Base(q) = Base(h[a])
      /\ Len(q.events) <= EventLimit
      /\ \A e \in ToSet(q.events) : e \in ToSet(h[a].events) \/ e.seq = m[2]
  BY <1>0, <1>1, EventAdded DEF Message
<1>3. Grown(q, h[a], m)
  <2>1. m = <<m[1], m[2]>>
    BY DEF Message
  <2> QED
    BY <1>1, <1>2, <2>1 DEF Grown
<1> HIDE DEF q
<1>4. /\ more \in Seq(Records) /\ more # <<>> /\ Len(more) = Len(h)
      /\ \A i \in 1 .. Len(h) : more[i] = IF i = a THEN q ELSE h[i]
  BY <1>1, <1>2
<1> HIDE DEF more
<1>5. /\ g \in Seq(Records) /\ Len(g) <= Len(more)
      /\ \A i \in 1 .. Len(g) : \E k \in 1 .. Len(more) : Shrunk(g[i], more[k])
      /\ \/ Length(g) <= MaxBytes
         \/ Len(g) = 1 /\ Length(g) = Base(g[1])
  BY <1>0, <1>4, Trimmed
<1> HIDE DEF g
<1>6. ASSUME NEW i \in 1 .. Len(g)
      PROVE  \E k \in 1 .. Len(h) : Grown(g[i], h[k], m)
  <2>1. PICK k \in 1 .. Len(h) : Shrunk(g[i], more[k])
    BY <1>4, <1>5
  <2>2. more[k] \in Records
    BY <1>4
  <2>3. Grown(g[i], more[k], m) /\ Shrunk(g[i], more[k])
    BY <1>0, <2>1, <2>2, ShrunkGrown
  <2>4. CASE k # a
    BY <1>4, <2>3, <2>4
  <2>5. CASE k = a
    <3>1. more[k] = q
      BY <1>4, <2>5
    <3>2. g[i].id = h[a].id /\ Base(g[i]) = Base(h[a]) /\ Len(g[i].events) <= EventLimit
      BY <1>2, <2>3, <3>1 DEF Grown
    <3>3. \A e \in ToSet(g[i].events) : e \in ToSet(h[a].events) \/ <<g[i].id, e.seq>> = m
      BY <1>3, <2>3, <3>1 DEF Grown, Shrunk
    <3> QED
      BY <1>1, <3>2, <3>3 DEF Grown
  <2> QED
    BY <2>4, <2>5
<1>7. Len(h) <= HistoryLimit => Len(g) <= HistoryLimit
  <2>1. Len(h) \in Nat /\ Len(g) \in Nat /\ HistoryLimit \in Nat
    BY <1>5 DEF FeedAssumption
  <2> QED
    BY <1>4, <1>5, <2>1
<1>8. Recorded(g, h, m, len)
  BY <1>5, <1>6, <1>7 DEF Recorded
<1> QED
  BY <1>8 DEF g, more, q, a

(* What is kept afterwards was kept before, or is the message recorded.    *)
LEMMA RecordedKept ==
  ASSUME NEW h, NEW g, NEW m \in Message, NEW len, Recorded(g, h, m, len),
         NEW x, Kept(g, x)
  PROVE  Kept(h, x) \/ x = m
<1>1. PICK i \in 1 .. Len(g) : Holds(g[i], x)
  BY DEF Kept
<1>2. CASE Fresh(g[i], m, len)
  <2>1. m = <<m[1], m[2]>> /\ ToSet(<<>>) = {}
    BY DEF Message, ToSet
  <2> QED
    BY <1>1, <1>2, <2>1 DEF Fresh, Holds
<1>3. ASSUME NEW k \in 1 .. Len(h), Grown(g[i], h[k], m) PROVE Kept(h, x) \/ x = m
  BY <1>1, <1>3 DEF Grown, Holds, Kept
<1> QED
  BY <1>2, <1>3 DEF Recorded

(* The elements of a sequence that grows or shrinks by one.                *)
LEMMA ToSetAppend ==
  ASSUME NEW S, NEW s \in Seq(S), NEW e \in S
  PROVE  ToSet(Append(s, e)) = ToSet(s) \cup {e}
<1> DEFINE t == Append(s, e)
<1>1. /\ Len(s) \in Nat /\ DOMAIN t = 1 .. (Len(s) + 1) /\ DOMAIN s = 1 .. Len(s)
      /\ \A i \in 1 .. (Len(s) + 1) : t[i] = IF i = Len(s) + 1 THEN e ELSE s[i]
  OBVIOUS
<1>2. /\ \A i \in 1 .. (Len(s) + 1) : i = Len(s) + 1 \/ i \in 1 .. Len(s)
      /\ \A i \in 1 .. Len(s) : i \in 1 .. (Len(s) + 1) /\ i # Len(s) + 1
      /\ Len(s) + 1 \in 1 .. (Len(s) + 1)
  BY <1>1
<1> HIDE DEF t
<1>3. ToSet(t) = ToSet(s) \cup {e}
  BY <1>1, <1>2 DEF ToSet
<1> QED
  BY <1>3 DEF t

(* And one that loses its first.                                           *)
LEMMA ToSetTail ==
  ASSUME NEW S, NEW s \in Seq(S), s # <<>>
  PROVE  ToSet(s) = {Head(s)} \cup ToSet(Tail(s))
<1> DEFINE t == Tail(s)
<1>1. /\ Len(s) \in Nat \ {0} /\ DOMAIN t = 1 .. (Len(s) - 1) /\ DOMAIN s = 1 .. Len(s)
      /\ \A i \in 1 .. (Len(s) - 1) : t[i] = s[i + 1]
      /\ Head(s) = s[1]
  OBVIOUS
<1>2. /\ \A i \in 1 .. Len(s) : i = 1 \/ (i - 1 \in 1 .. (Len(s) - 1) /\ (i - 1) + 1 = i)
      /\ \A i \in 1 .. (Len(s) - 1) : i + 1 \in 1 .. Len(s)
      /\ 1 \in 1 .. Len(s)
  BY <1>1
<1> HIDE DEF t
<1>3. ToSet(s) = {s[1]} \cup ToSet(t)
  <2>1. ASSUME NEW i \in 1 .. Len(s) PROVE s[i] \in {s[1]} \cup ToSet(t)
    <3>1. i # 1 => t[i - 1] = s[i]
      BY <1>1, <1>2
    <3> QED
      BY <1>1, <1>2, <3>1 DEF ToSet
  <2>2. ASSUME NEW i \in 1 .. (Len(s) - 1) PROVE t[i] \in ToSet(s)
    BY <1>1, <1>2 DEF ToSet
  <2>3. ToSet(s) \subseteq {s[1]} \cup ToSet(t)
    BY <1>1, <2>1 DEF ToSet
  <2>4. ToSet(t) \subseteq ToSet(s)
    BY <1>1, <2>2 DEF ToSet
  <2>5. s[1] \in ToSet(s)
    BY <1>1, <1>2 DEF ToSet
  <2> QED
    BY <2>3, <2>4, <2>5
<1> QED
  BY <1>1, <1>3 DEF t

-----------------------------------------------------------------------------
(* The inductive invariant of the console.                                 *)
FeedSpec == FeedInit /\ [][FeedNext]_feedVars

Jobs == [pc : Steps, msg : Message, len : Nat, to : SUBSET Page, full : SUBSET Page]

BookTypes ==
  requestID \in Nat /\ job \in [Job -> Jobs] /\ history \in Seq(Records)

PageTypes ==
  /\ clients \subseteq Page /\ open \subseteq Page /\ snapped \subseteq Page
  /\ page \in [Page -> {"new", "wait", "write", "leave", "gone"}]
  /\ sender \in [Page -> SUBSET Message] /\ queue \in [Page -> Seq(SUBSET Message)]
  /\ got \in [Page -> SUBSET Message] /\ lost \in [Page -> SUBSET Message]

(* A page is listed, open or has its history read only after it connected. *)
Connected == \A p \in clients \cup open \cup snapped : page[p] # "new"

(* Every broadcast that has begun has a message of its own, and the        *)
(* sequence numbers are bounded.                                           *)
Numbered ==
  /\ \A j \in Job :
       /\ job[j].pc = "new" => job[j].msg = <<0, 0>>
       /\ job[j].pc \notin {"new", "done"} => job[j].msg[1] # 0
       /\ job[j].msg[1] <= requestID
       /\ job[j].pc = "count" => \E p \in Page : job[j].full = {p}
  /\ \A i \in Job, j \in Job :
       job[i].msg = job[j].msg /\ job[i].msg[1] # 0 => i = j
  /\ \E n \in Nat : \A j \in Job : job[j].msg[2] <= n

(* Every record comes from a broadcast of its request, whose length is     *)
(* what the record measures beyond its events.                             *)
Origin(jobs, r) ==
  \E j \in Job : /\ jobs[j].msg = <<r.id, 0>> /\ Base(r) = jobs[j].len
                 /\ jobs[j].len <= MaxBytes

Traced == \A i \in 1 .. Len(history) : Origin(job, history[i])

Limited ==
  /\ Len(history) <= HistoryLimit /\ Length(history) <= MaxBytes
  /\ \A i \in 1 .. Len(history) : Len(history[i].events) <= EventLimit

Removed == ~token /\ remover \in {"close", "idle"} => history = <<>>

(* Of a broadcast that is under way, the pages it has not come to yet.     *)
ToCome(j) == IF job[j].pc \in {"queue", "count"} THEN job[j].to ELSE {}

Reached ==
  \A p \in clients \cap open \cap snapped, j \in Job :
    job[j].pc \in {"queue", "count", "done"} /\ job[j].msg \in Retained =>
      p \in ToCome(j) \/ job[j].msg \in Shown(p)

Books == BookTypes /\ Numbered /\ Traced /\ Limited

FeedInv == Books /\ PageTypes /\ Connected /\ Removed /\ Reached

(* At first there is no history, no page and no broadcast.                 *)
LEMMA FeedInitInv ==
  ASSUME FeedAssumption, FeedInit
  PROVE  FeedInv
<1>1. BookTypes
  BY DEF FeedInit, BookTypes, Jobs, Steps, Message
<1>2. PageTypes /\ Connected /\ Removed /\ Reached
  BY DEF FeedInit, PageTypes, Connected, Removed, Reached
<1>3. Numbered
  <2>1. \A j \in Job : job[j].msg = <<0, 0>> /\ job[j].pc = "new"
    BY DEF FeedInit
  <2>2. requestID = 0
    BY DEF FeedInit
  <2> QED
    BY <2>1, <2>2 DEF Numbered
<1>4. Traced /\ Limited
  <2>1. history = <<>> /\ <<>> \in Seq(Event)
    BY DEF FeedInit
  <2>2. Length(<<>>) = 0 /\ Len(<<>>) = 0
    BY <2>1, EventLength
  <2> QED
    BY <2>1, <2>2 DEF Traced, Limited, FeedAssumption
<1> QED
  BY <1>1, <1>2, <1>3, <1>4 DEF FeedInv, Books

(* What a step leaves alone.                                               *)
LEMMA BooksKept ==
  ASSUME Books, UNCHANGED <<history, requestID, job>>
  PROVE  Books'
BY DEF Books, BookTypes, Numbered, Traced, Limited

(* Pages may leave and be shown more: what was shown stays shown.          *)
LEMMA ReachedKept ==
  ASSUME Reached, PageTypes, UNCHANGED <<history, job>>,
         clients' \cap open' \cap snapped' \subseteq clients \cap open \cap snapped,
         \A p \in open' : Shown(p) \subseteq Shown(p)'
  PROVE  Reached'
<1> SUFFICES ASSUME NEW p \in clients' \cap open' \cap snapped', NEW j \in Job,
                    job'[j].pc \in {"queue", "count", "done"}, job'[j].msg \in Retained'
             PROVE  p \in ToCome(j)' \/ job'[j].msg \in Shown(p)'
  BY DEF Reached
<1>1. job'[j] = job[j] /\ Retained' = Retained /\ ToCome(j)' = ToCome(j)
  BY DEF Retained, ToCome
<1>2. p \in ToCome(j) \/ job[j].msg \in Shown(p)
  BY <1>1 DEF Reached
<1> QED
  BY <1>1, <1>2

(* A step of one broadcast leaves the others' messages shown.              *)
LEMMA ReachedByOthers ==
  ASSUME Reached, BookTypes, UNCHANGED <<clients, open, snapped>>,
         NEW j \in Job, \A i \in Job \ {j} : job'[i] = job[i],
         \A i \in Job \ {j} : job[i].msg \in Retained' => job[i].msg \in Retained,
         \A p \in open : Shown(p) \subseteq Shown(p)',
         \A p \in clients \cap open \cap snapped :
           job'[j].pc \in {"queue", "count", "done"} /\ job'[j].msg \in Retained'
             => p \in ToCome(j)' \/ job'[j].msg \in Shown(p)'
  PROVE  Reached'
<1> SUFFICES ASSUME NEW p \in clients' \cap open' \cap snapped', NEW i \in Job,
                    job'[i].pc \in {"queue", "count", "done"}, job'[i].msg \in Retained'
             PROVE  p \in ToCome(i)' \/ job'[i].msg \in Shown(p)'
  BY DEF Reached
<1>1. CASE i = j
  BY <1>1
<1>2. CASE i # j
  <2>1. job'[i] = job[i] /\ job[i].msg \in Retained /\ ToCome(i)' = ToCome(i)
    BY <1>2 DEF ToCome
  <2>2. p \in ToCome(i) \/ job[i].msg \in Shown(p)
    BY <2>1 DEF Reached
  <2> QED
    BY <2>1, <2>2
<1> QED
  BY <1>1, <1>2

(* A broadcast under way keeps its message.                                *)
LEMMA SameMessage ==
  ASSUME BookTypes, Numbered, NEW j \in Job, job[j].pc \notin {"new", "done"},
         NEW b \in Jobs, b.msg = job[j].msg, b.len = job[j].len, b.pc # "new",
         b.pc = "count" => \E p \in Page : b.full = {p},
         job' = [job EXCEPT ![j] = b], UNCHANGED requestID
  PROVE  /\ job' \in [Job -> Jobs] /\ Numbered'
         /\ \A r : Origin(job, r) => Origin(job', r)
         /\ job'[j] = b /\ \A i \in Job \ {j} : job'[i] = job[i]
<1>1. /\ job' \in [Job -> Jobs] /\ job'[j] = b
      /\ \A i \in Job \ {j} : job'[i] = job[i]
  BY DEF BookTypes
<1>2. \A i \in Job : job'[i].msg = job[i].msg /\ job'[i].len = job[i].len
  BY <1>1
<1>3. Numbered'
  <2>1. ASSUME NEW i \in Job
        PROVE  /\ job'[i].pc = "new" => job'[i].msg = <<0, 0>>
               /\ job'[i].pc \notin {"new", "done"} => job'[i].msg[1] # 0
               /\ job'[i].msg[1] <= requestID'
               /\ job'[i].pc = "count" => \E p \in Page : job'[i].full = {p}
    <3>1. CASE i = j
      BY <1>1, <1>2, <3>1 DEF Numbered
    <3>2. CASE i # j
      BY <1>1, <3>2 DEF Numbered
    <3> QED
      BY <3>1, <3>2
  <2>2. \A i \in Job, k \in Job :
          job'[i].msg = job'[k].msg /\ job'[i].msg[1] # 0 => i = k
    BY <1>2 DEF Numbered
  <2>3. \E n \in Nat : \A i \in Job : job'[i].msg[2] <= n
    BY <1>2 DEF Numbered
  <2> QED
    BY <2>1, <2>2, <2>3 DEF Numbered
<1>4. \A r : Origin(job, r) => Origin(job', r)
  BY <1>2 DEF Origin
<1> QED
  BY <1>1, <1>3, <1>4

(* A broadcast that begins takes a message nobody has.                     *)
LEMMA NewMessage ==
  ASSUME Books, Reached, Removed, PageTypes, Connected,
         NEW j \in Job, job[j].pc = "new",
         NEW m \in Message, m[1] # 0, \A i \in Job : job[i].msg # m,
         NEW n \in Nat, m[1] <= requestID', requestID' \in Nat, requestID <= requestID',
         job' = [job EXCEPT ![j].pc = "record", ![j].len = n, ![j].msg = m],
         UNCHANGED <<routeVars, history, pageVars>>
  PROVE  FeedInv'
<1> DEFINE b == [pc |-> "record", msg |-> m, len |-> n, to |-> job[j].to,
                 full |-> job[j].full]
<1>1. /\ job' \in [Job -> Jobs] /\ job'[j] = b
      /\ \A i \in Job \ {j} : job'[i] = job[i]
  <2>1. job[j] \in Jobs /\ job \in [Job -> Jobs]
    BY DEF Books, BookTypes
  <2>2. job' = [job EXCEPT ![j] = b]
    BY <2>1 DEF Jobs
  <2>3. b \in Jobs
    BY <2>1 DEF Jobs, Steps
  <2> HIDE DEF b
  <2> QED
    BY <2>1, <2>2, <2>3
<1>2. Numbered'
  <2>1. ASSUME NEW i \in Job
        PROVE  /\ job'[i].pc = "new" => job'[i].msg = <<0, 0>>
               /\ job'[i].pc \notin {"new", "done"} => job'[i].msg[1] # 0
               /\ job'[i].msg[1] <= requestID'
               /\ job'[i].pc = "count" => \E p \in Page : job'[i].full = {p}
    <3>1. CASE i = j
      BY <1>1, <3>1
    <3>2. CASE i # j
      <4>1. job[i].msg[1] \in Nat /\ requestID \in Nat
        BY DEF Books, BookTypes, Jobs, Message
      <4> QED
        BY <1>1, <3>2, <4>1 DEF Books, Numbered
    <3> QED
      BY <3>1, <3>2
  <2>2. ASSUME NEW i \in Job, NEW k \in Job,
               job'[i].msg = job'[k].msg, job'[i].msg[1] # 0
        PROVE  i = k
    <3>1. CASE i = j \/ k = j
      BY <1>1, <2>2, <3>1
    <3>2. CASE i # j /\ k # j
      BY <1>1, <2>2, <3>2 DEF Books, Numbered
    <3> QED
      BY <3>1, <3>2
  <2>3. \E t \in Nat : \A i \in Job : job'[i].msg[2] <= t
    <3>1. PICK t \in Nat : \A i \in Job : job[i].msg[2] <= t
      BY DEF Books, Numbered
    <3>2. m[2] \in Nat /\ t + m[2] \in Nat /\ \A i \in Job : job[i].msg[2] \in Nat
      BY DEF Message, Books, BookTypes, Jobs
    <3>3. \A i \in Job : job'[i].msg[2] <= t + m[2]
      <4> TAKE i \in Job
      <4>1. CASE i = j
        BY <1>1, <3>1, <3>2, <4>1
      <4>2. CASE i # j
        BY <1>1, <3>1, <3>2, <4>2
      <4> QED
        BY <4>1, <4>2
    <3> QED
      BY <3>2, <3>3
  <2> QED
    BY <2>1, <2>2, <2>3 DEF Numbered
<1>3. Traced'
  <2> SUFFICES ASSUME NEW i \in 1 .. Len(history) PROVE Origin(job', history[i])
    BY DEF Traced, routeVars, pageVars
  <2>1. PICK k \in Job : /\ job[k].msg = <<history[i].id, 0>>
                         /\ Base(history[i]) = job[k].len /\ job[k].len <= MaxBytes
    BY DEF Books, Traced, Origin
  <2>2. history[i].id # 0
    <3>1. history[i] \in Records
      BY DEF Books, BookTypes
    <3> QED
      BY <3>1 DEF Records
  <2>3. k # j
    BY <2>1, <2>2 DEF Books, Numbered
  <2> QED
    BY <1>1, <2>1, <2>3 DEF Origin
<1>4. Books'
  BY <1>1, <1>2, <1>3 DEF Books, BookTypes, Limited
<1>5. PageTypes' /\ Connected' /\ Removed'
  BY DEF PageTypes, Connected, Removed, routeVars, pageVars
<1>6. Reached'
  <2>1. UNCHANGED <<clients, open, snapped>> /\ Retained' = Retained
        /\ \A p \in Page : Shown(p)' = Shown(p)
    BY DEF routeVars, pageVars, Retained, Shown, InQueue
  <2>2. job'[j].pc \notin {"queue", "count", "done"}
    BY <1>1
  <2>3. \A p \in open : Shown(p) \subseteq Shown(p)'
    BY <2>1 DEF PageTypes
  <2>4. BookTypes /\ \A i \in Job \ {j} : job'[i] = job[i]
    BY <1>1 DEF Books
  <2> QED
    BY <2>1, <2>2, <2>3, <2>4, ReachedByOthers
<1> QED
  BY <1>4, <1>5, <1>6 DEF FeedInv

-----------------------------------------------------------------------------
(* The route.                                                              *)
LEMMA RouteActionsInv ==
  ASSUME FeedAssumption, FeedInv, AddRoute \/ RemoveRoute \/ RouteStep
  PROVE  FeedInv'
<1>0. Books /\ PageTypes /\ Connected /\ Removed /\ Reached
  BY DEF FeedInv
<1>1. CASE AddRoute
  <2>1. UNCHANGED <<history, requestID, job, clients, open, snapped, page, sender,
                    queue, got, lost>> /\ token'
    BY <1>1, Zenon DEF AddRoute, pageVars
  <2>2. Books'
    BY <1>0, <2>1, BooksKept
  <2>3. PageTypes' /\ Connected' /\ Removed'
    BY <1>0, <2>1 DEF PageTypes, Connected, Removed
  <2>4. Reached'
    BY <1>0, <2>1, ReachedKept DEF Shown, InQueue
  <2> QED
    BY <2>2, <2>3, <2>4 DEF FeedInv
<1>2. CASE RemoveRoute
  <2>1. UNCHANGED <<history, requestID, job, open, snapped, page, sender,
                    queue, got, lost>> /\ clients' = {} /\ remover' = "token"
    BY <1>2 DEF RemoveRoute, pageVars
  <2>2. Books'
    BY <1>0, <2>1, BooksKept
  <2>3. PageTypes' /\ Connected' /\ Removed'
    BY <1>0, <2>1 DEF PageTypes, Connected, Removed
  <2>4. Reached'
    BY <1>0, <2>1, ReachedKept DEF Shown, InQueue
  <2> QED
    BY <2>2, <2>3, <2>4 DEF FeedInv
<1>3. CASE RemoveToken
  <2>1. UNCHANGED <<history, requestID, job, clients, open, snapped, page, sender,
                    queue, got, lost>> /\ remover' = "history"
    BY <1>3 DEF RemoveToken, pageVars
  <2>2. Books'
    BY <1>0, <2>1, BooksKept
  <2>3. PageTypes' /\ Connected' /\ Removed'
    BY <1>0, <2>1 DEF PageTypes, Connected, Removed
  <2>4. Reached'
    BY <1>0, <2>1, ReachedKept DEF Shown, InQueue
  <2> QED
    BY <2>2, <2>3, <2>4 DEF FeedInv
<1>4. CASE removeRequestHistory
  <2>1. UNCHANGED <<requestID, job, clients, open, snapped, page, sender,
                    queue, got, lost>> /\ history' = <<>>
    BY <1>4 DEF removeRequestHistory, pageVars
  <2>2. <<>> \in Seq(Records) /\ <<>> \in Seq(Event) /\ Len(<<>>) = 0
    OBVIOUS
  <2>3. Length(<<>>) = 0
    BY <2>2, EventLength
  <2>4. BookTypes' /\ Numbered' /\ Traced'
    BY <1>0, <2>1, <2>2 DEF Books, BookTypes, Numbered, Traced
  <2>5. Limited'
    BY <2>1, <2>2, <2>3 DEF Limited, FeedAssumption
  <2>6. PageTypes' /\ Connected' /\ Removed'
    BY <1>0, <2>1 DEF PageTypes, Connected, Removed
  <2>7. Retained' = {}
    <3>1. DOMAIN history' = {}
      BY <2>1
    <3> QED
      BY <3>1, Zenon DEF Retained
  <2>8. Reached'
    BY <2>7 DEF Reached
  <2> QED
    BY <2>4, <2>5, <2>6, <2>8 DEF FeedInv, Books
<1>5. CASE RemoverCloses
  <2>1. /\ UNCHANGED <<history, requestID, job, clients, snapped, page, sender,
                       queue, got, lost, token>>
        /\ open' \subseteq open /\ remover = "close"
    BY <1>5 DEF RemoverCloses
  <2>2. Books'
    BY <1>0, <2>1, BooksKept
  <2>3. PageTypes' /\ Connected' /\ Removed'
    <3>1. PageTypes' /\ Connected'
      BY <1>0, <2>1 DEF PageTypes, Connected
    <3>2. Removed'
      BY <1>0, <2>1, Zenon DEF Removed
    <3> QED
      BY <3>1, <3>2
  <2>4. Reached'
    BY <1>0, <2>1, ReachedKept DEF Shown, InQueue
  <2> QED
    BY <2>2, <2>3, <2>4 DEF FeedInv
<1> QED
  BY <1>1, <1>2, <1>3, <1>4, <1>5 DEF RouteStep

-----------------------------------------------------------------------------
(* The pages.                                                              *)
LEMMA PageActionsInv ==
  ASSUME FeedAssumption, FeedInv, NEW q \in Page,
         \/ ConnectPage(q) \/ sendRequestHistory(q) \/ send(q) \/ Take(q)
         \/ PageWritten(q) \/ HandleEnds(q) \/ RemoveClient(q) \/ ReadPump(q)
  PROVE  FeedInv'
<1>0. Books /\ PageTypes /\ Connected /\ Removed /\ Reached
  BY DEF FeedInv
<1>1. UNCHANGED <<history, requestID, job, token, remover>>
  BY Zenon DEF ConnectPage, sendRequestHistory, send, Take, PageWritten, HandleEnds,
         RemoveClient, ReadPump, routeVars
<1>2. Books' /\ Removed'
  <2>1. Books'
    BY <1>0, <1>1, BooksKept
  <2>2. Removed'
    BY <1>0, <1>1, Zenon DEF Removed
  <2> QED
    BY <2>1, <2>2
<1>3. CASE ConnectPage(q)
  <2>1. /\ UNCHANGED <<snapped, sender, queue, got, lost>> /\ page[q] = "new"
        /\ page' = [page EXCEPT ![q] = "wait"]
        /\ clients' \subseteq clients \cup {q} /\ open' \subseteq open \cup {q}
    BY <1>3 DEF ConnectPage
  <2>2. PageTypes' /\ Connected'
    BY <1>0, <2>1 DEF PageTypes, Connected
  <2>3. q \notin snapped
    BY <1>0, <2>1 DEF Connected
  <2>4. Reached'
    BY <1>0, <1>1, <2>1, <2>3, ReachedKept DEF Shown, InQueue
  <2> QED
    BY <1>2, <2>2, <2>4 DEF FeedInv
<1>4. CASE sendRequestHistory(q)
  <2>1. /\ UNCHANGED <<clients, open, page, queue, got, lost>>
        /\ page[q] # "new" /\ q \notin snapped /\ snapped' = snapped \cup {q}
        /\ sender' = [sender EXCEPT ![q] = Retained]
    BY <1>4 DEF sendRequestHistory, routeVars
  <2>2. Retained \subseteq Message
    <3> SUFFICES ASSUME NEW m, Kept(history, m) PROVE m \in Message
      BY <1>0, RetainedKept DEF Books, BookTypes
    <3>1. PICK i \in 1 .. Len(history) : Holds(history[i], m)
      BY DEF Kept
    <3>2. history[i] \in Records
      BY <1>0 DEF Books, BookTypes
    <3>3. history[i].id \in Nat /\ history[i].events \in Seq(Event)
      BY <3>2 DEF Records
    <3>4. ASSUME NEW e \in ToSet(history[i].events) PROVE e.seq \in Nat
      <4>1. e \in Event
        BY <3>3 DEF ToSet
      <4> QED
        BY <4>1 DEF Event
    <3> QED
      BY <3>1, <3>3, <3>4 DEF Holds, Message
  <2>3. PageTypes' /\ Connected'
    BY <1>0, <2>1, <2>2 DEF PageTypes, Connected
  <2>4. Reached'
    <3> SUFFICES ASSUME NEW p \in clients' \cap open' \cap snapped', NEW j \in Job,
                        job'[j].pc \in {"queue", "count", "done"},
                        job'[j].msg \in Retained'
                 PROVE  p \in ToCome(j)' \/ job'[j].msg \in Shown(p)'
      BY DEF Reached
    <3>1. job'[j] = job[j] /\ Retained' = Retained /\ ToCome(j)' = ToCome(j)
      BY <1>1 DEF Retained, ToCome
    <3>2. CASE p = q
      <4>1. sender'[p] = Retained
        BY <1>0, <2>1, <3>2 DEF PageTypes
      <4> QED
        BY <3>1, <4>1 DEF Shown
    <3>3. CASE p # q
      <4>1. p \in clients \cap open \cap snapped /\ sender'[p] = sender[p]
        BY <1>0, <2>1, <3>3 DEF PageTypes
      <4>2. Shown(p)' = Shown(p)
        BY <2>1, <4>1 DEF Shown, InQueue
      <4> QED
        BY <1>0, <3>1, <4>1, <4>2 DEF Reached
    <3> QED
      BY <3>2, <3>3
  <2> QED
    BY <1>2, <2>3, <2>4 DEF FeedInv
<1>5. CASE send(q)
  <2>1. /\ UNCHANGED <<clients, open, page, snapped, got, lost>>
        /\ sender' = [sender EXCEPT ![q] = {}]
        /\ \/ queue' = [queue EXCEPT ![q] = Append(@, sender[q])]
           \/ q \notin open /\ queue' = queue
    BY <1>5 DEF send, routeVars
  <2>2. queue[q] \in Seq(SUBSET Message) /\ sender[q] \in SUBSET Message
    BY <1>0 DEF PageTypes
  <2>3. Append(queue[q], sender[q]) \in Seq(SUBSET Message)
    BY <2>2
  <2>4. PageTypes' /\ Connected'
    BY <1>0, <2>1, <2>3 DEF PageTypes, Connected
  <2>5. ASSUME NEW p \in open PROVE Shown(p) \subseteq Shown(p)'
    <3>1. p \in Page
      BY <1>0 DEF PageTypes
    <3>2. CASE p # q
      BY <1>0, <2>1, <3>1, <3>2 DEF Shown, InQueue, PageTypes
    <3>3. CASE p = q
      <4>1. queue'[q] = Append(queue[q], sender[q])
        BY <1>0, <2>1, <2>5, <3>3 DEF PageTypes
      <4>2. ToSet(queue'[q]) = ToSet(queue[q]) \cup {sender[q]}
        BY <2>2, <4>1, ToSetAppend
      <4> QED
        BY <2>1, <3>3, <4>2 DEF Shown, InQueue
    <3> QED
      BY <3>2, <3>3
  <2>6. Reached'
    BY <1>0, <1>1, <2>1, <2>5, ReachedKept
  <2> QED
    BY <1>2, <2>4, <2>6 DEF FeedInv
<1>6. CASE Take(q)
  <2>1. /\ UNCHANGED <<clients, open, snapped, sender, lost>>
        /\ page' = [page EXCEPT ![q] = "write"] /\ queue[q] # <<>>
        /\ got' = [got EXCEPT ![q] = @ \cup Head(queue[q])]
        /\ queue' = [queue EXCEPT ![q] = Tail(@)]
    BY <1>6 DEF Take, routeVars
  <2>2. queue[q] \in Seq(SUBSET Message) /\ got[q] \in SUBSET Message
    BY <1>0 DEF PageTypes
  <2>3. Head(queue[q]) \in SUBSET Message /\ Tail(queue[q]) \in Seq(SUBSET Message)
    BY <2>1, <2>2
  <2>4. PageTypes' /\ Connected'
    <3>1. got' \in [Page -> SUBSET Message] /\ queue' \in [Page -> Seq(SUBSET Message)]
      BY <1>0, <2>1, <2>2, <2>3 DEF PageTypes
    <3> QED
      BY <1>0, <2>1, <3>1 DEF PageTypes, Connected
  <2>5. ASSUME NEW p \in open PROVE Shown(p) \subseteq Shown(p)'
    <3>1. p \in Page
      BY <1>0 DEF PageTypes
    <3>2. CASE p # q
      BY <1>0, <2>1, <3>1, <3>2 DEF Shown, InQueue, PageTypes
    <3>3. CASE p = q
      <4>1. queue'[q] = Tail(queue[q]) /\ got'[q] = got[q] \cup Head(queue[q])
        BY <1>0, <2>1 DEF PageTypes
      <4>2. ToSet(queue[q]) = {Head(queue[q])} \cup ToSet(Tail(queue[q]))
        BY <2>1, <2>2, ToSetTail
      <4>3. Shown(q) = got[q] \cup (UNION ToSet(queue[q])) \cup sender[q] \cup lost[q]
        BY DEF Shown, InQueue
      <4>4. Shown(q)' = (got[q] \cup Head(queue[q])) \cup (UNION ToSet(Tail(queue[q])))
                          \cup sender[q] \cup lost[q]
        BY <2>1, <4>1 DEF Shown, InQueue
      <4> QED
        BY <3>3, <4>2, <4>3, <4>4
    <3> QED
      BY <3>2, <3>3
  <2>6. Reached'
    BY <1>0, <1>1, <2>1, <2>5, ReachedKept
  <2> QED
    BY <1>2, <2>4, <2>6 DEF FeedInv
<1>7. CASE PageWritten(q) \/ HandleEnds(q) \/ RemoveClient(q) \/ ReadPump(q)
  <2>1. /\ UNCHANGED <<snapped, sender, queue, got, lost>>
        /\ clients' \subseteq clients /\ open' \subseteq open
        /\ \/ \E s \in {"wait", "leave", "gone"} : page' = [page EXCEPT ![q] = s]
           \/ page' = page
    BY <1>7 DEF PageWritten, HandleEnds, RemoveClient, ReadPump, routeVars
  <2>2. PageTypes' /\ Connected'
    BY <1>0, <2>1 DEF PageTypes, Connected
  <2>3. Reached'
    BY <1>0, <1>1, <2>1, ReachedKept DEF Shown, InQueue
  <2> QED
    BY <1>2, <2>2, <2>3 DEF FeedInv
<1> QED
  BY <1>3, <1>4, <1>5, <1>6, <1>7

-----------------------------------------------------------------------------
(* The broadcasts.                                                         *)
LEMMA NotBroadcastInv ==
  ASSUME FeedAssumption, FeedInv, NEW j \in Job, NotBroadcast(j)
  PROVE  FeedInv'
<1>0. Books /\ PageTypes /\ Connected /\ Removed /\ Reached
  BY DEF FeedInv
<1>1. /\ job[j].pc = "new" /\ job' = [job EXCEPT ![j].pc = "done"]
      /\ UNCHANGED <<routeVars, history, requestID, pageVars>>
  BY DEF NotBroadcast, Begins, JobAt
<1>2. job[j] \in Jobs /\ job \in [Job -> Jobs] /\ job[j].msg = <<0, 0>>
  BY <1>0, <1>1 DEF Books, BookTypes, Numbered
<1>3. /\ job' \in [Job -> Jobs] /\ job'[j].pc = "done" /\ job'[j].msg = <<0, 0>>
      /\ \A i \in Job \ {j} : job'[i] = job[i]
      /\ \A i \in Job : job'[i].msg = job[i].msg /\ job'[i].len = job[i].len
  BY <1>1, <1>2 DEF Jobs, Steps
<1>4. Numbered'
  <2>1. ASSUME NEW i \in Job
        PROVE  /\ job'[i].pc = "new" => job'[i].msg = <<0, 0>>
               /\ job'[i].pc \notin {"new", "done"} => job'[i].msg[1] # 0
               /\ job'[i].msg[1] <= requestID'
               /\ job'[i].pc = "count" => \E p \in Page : job'[i].full = {p}
    <3>1. CASE i = j
      BY <1>0, <1>1, <1>3, <3>1 DEF Books, Numbered
    <3>2. CASE i # j
      BY <1>0, <1>1, <1>3, <3>2 DEF Books, Numbered
    <3> QED
      BY <3>1, <3>2
  <2>2. /\ \A i \in Job, k \in Job :
             job'[i].msg = job'[k].msg /\ job'[i].msg[1] # 0 => i = k
        /\ \E n \in Nat : \A i \in Job : job'[i].msg[2] <= n
    BY <1>0, <1>3 DEF Books, Numbered
  <2> QED
    BY <2>1, <2>2 DEF Numbered
<1>5. Traced' /\ Limited'
  <2>1. \A r : Origin(job, r) => Origin(job', r)
    BY <1>3 DEF Origin
  <2>2. Traced'
    BY <1>0, <1>1, <2>1 DEF Books, Traced
  <2>3. Limited'
    BY <1>0, <1>1 DEF Books, Limited
  <2> QED
    BY <2>2, <2>3
<1>6. Books'
  BY <1>0, <1>1, <1>3, <1>4, <1>5 DEF Books, BookTypes
<1>7. PageTypes' /\ Connected' /\ Removed'
  BY <1>0, <1>1 DEF PageTypes, Connected, Removed, routeVars, pageVars
<1>8. Reached'
  <2>1. /\ UNCHANGED <<clients, open, snapped, history>> /\ Retained' = Retained
        /\ \A p \in Page : Shown(p)' = Shown(p)
    BY <1>1 DEF routeVars, pageVars, Retained, Shown, InQueue
  <2>2. \A p \in open : Shown(p) \subseteq Shown(p)'
    BY <1>0, <2>1 DEF PageTypes
  <2>3. job'[j].msg \notin Retained'
    <3> SUFFICES ASSUME Kept(history, <<0, 0>>) PROVE FALSE
      BY <1>0, <1>3, <2>1, RetainedKept DEF Books, BookTypes
    <3>1. PICK i \in 1 .. Len(history) : Holds(history[i], <<0, 0>>)
      BY DEF Kept
    <3>2. history[i] \in Records
      BY <1>0 DEF Books, BookTypes
    <3> QED
      BY <3>1, <3>2 DEF Holds, Records
  <2>4. BookTypes
    BY <1>0 DEF Books
  <2> QED
    BY <1>0, <1>3, <2>1, <2>2, <2>3, <2>4, ReachedByOthers
<1> QED
  BY <1>6, <1>7, <1>8 DEF FeedInv

(* A request takes the next id.                                            *)
LEMMA BroadcastRouteInv ==
  ASSUME FeedAssumption, FeedInv, NEW j \in Job, BroadcastRoute(j)
  PROVE  FeedInv'
<1>0. Books /\ PageTypes /\ Connected /\ Removed /\ Reached
  BY DEF FeedInv
<1> DEFINE m == <<requestID + 1, 0>>
<1>1. PICK n \in Lengths :
        job' = [job EXCEPT ![j].pc = "record", ![j].len = n, ![j].msg = m]
  BY DEF BroadcastRoute
<1>2. /\ job[j].pc = "new" /\ requestID' = requestID + 1 /\ requestID \in Nat
      /\ UNCHANGED <<routeVars, history, pageVars>>
  BY <1>0 DEF BroadcastRoute, Begins, Books, BookTypes
<1>3. m \in Message /\ m[1] = requestID + 1 /\ m[1] # 0 /\ n \in Nat
  BY <1>1, <1>2 DEF Message, FeedAssumption
<1>4. \A i \in Job : job[i].msg # m
  <2> SUFFICES ASSUME NEW i \in Job, job[i].msg = m PROVE FALSE
    OBVIOUS
  <2>1. job[i].msg[1] <= requestID
    BY <1>0 DEF Books, Numbered
  <2> QED
    BY <1>2, <1>3, <2>1
<1>5. m[1] <= requestID' /\ requestID' \in Nat /\ requestID <= requestID'
  BY <1>2, <1>3
<1> HIDE DEF m
<1> QED
  BY <1>0, <1>1, <1>2, <1>3, <1>4, <1>5, NewMessage

(* An event takes the next sequence number of its request.                 *)
LEMMA BroadcastEventInv ==
  ASSUME FeedAssumption, FeedInv, NEW j \in Job, NEW r \in Job, BroadcastEvent(j, r)
  PROVE  FeedInv'
<1>0. Books /\ PageTypes /\ Connected /\ Removed /\ Reached
  BY DEF FeedInv
<1> DEFINE id == job[r].msg[1]
           m == <<id, Max(Seqs(id)) + 1>>
<1>1. PICK n \in Lengths :
        job' = [job EXCEPT ![j].pc = "record", ![j].len = n, ![j].msg = m]
  BY DEF BroadcastEvent
<1>2. /\ job[j].pc = "new" /\ UNCHANGED <<routeVars, history, pageVars>>
      /\ requestID' = requestID /\ requestID \in Nat
      /\ job[r].msg \in Message /\ id > 0 /\ id <= requestID
  BY <1>0 DEF BroadcastEvent, Begins, Books, BookTypes, Numbered, Jobs
<1>3. \A i \in Job : job[i].msg[2] \in Nat
  BY <1>0 DEF Books, BookTypes, Jobs, Message
<1>4. /\ Max(Seqs(id)) \in Nat
      /\ \A i \in Job : job[i].msg[1] = id => job[i].msg[2] <= Max(Seqs(id))
  <2>1. PICK t \in Nat : \A i \in Job : job[i].msg[2] <= t
    BY <1>0 DEF Books, Numbered
  <2>2. /\ Seqs(id) \subseteq Nat /\ \A x \in Seqs(id) : x <= t
        /\ \A i \in Job : job[i].msg[1] = id => job[i].msg[2] \in Seqs(id)
    BY <1>3, <2>1 DEF Seqs
  <2>3. Seqs(id) # {}
    BY <2>2
  <2>4. Max(Seqs(id)) \in Seqs(id) /\ \A y \in Seqs(id) : y <= Max(Seqs(id))
    BY <2>1, <2>2, <2>3, MaxMember
  <2> QED
    BY <2>2, <2>4
<1>5. m \in Message /\ m[1] = id /\ m[1] # 0 /\ n \in Nat /\ m[2] = Max(Seqs(id)) + 1
  <2>1. id \in Nat
    BY <1>2 DEF Message
  <2> HIDE DEF id
  <2> QED
    BY <1>1, <1>2, <1>4, <2>1 DEF Message, FeedAssumption
<1>6. \A i \in Job : job[i].msg # m
  <2> SUFFICES ASSUME NEW i \in Job, job[i].msg = m PROVE FALSE
    OBVIOUS
  <2>1. job[i].msg[1] = id /\ job[i].msg[2] = Max(Seqs(id)) + 1
    BY <1>5
  <2>2. job[i].msg[2] <= Max(Seqs(id))
    BY <1>4, <2>1
  <2> QED
    BY <1>4, <2>1, <2>2
<1>7. m[1] <= requestID' /\ requestID' \in Nat /\ requestID <= requestID'
  BY <1>2, <1>5
<1> HIDE DEF m, id
<1> QED
  BY <1>0, <1>1, <1>2, <1>5, <1>6, <1>7, NewMessage

(* Recording a message may push others out of the history.                 *)
LEMMA RecordInv ==
  ASSUME FeedAssumption, FeedInv, NEW j \in Job, Record(j)
  PROVE  FeedInv'
<1>0. Books /\ PageTypes /\ Connected /\ Removed /\ Reached
  BY DEF FeedInv
<1> DEFINE m == job[j].msg
           len == job[j].len
           b == [job[j] EXCEPT !.pc = "copy"]
<1>1. /\ job[j].pc = "record" /\ job' = [job EXCEPT ![j] = b]
      /\ UNCHANGED <<routeVars, requestID, pageVars>>
  <2>1. job' = [job EXCEPT ![j].pc = "copy"] /\ job[j].pc = "record"
        /\ UNCHANGED <<routeVars, requestID, pageVars>>
    BY DEF Record, JobAt
  <2> QED
    BY <1>0, <2>1 DEF Books, BookTypes
<1>2. /\ job[j] \in Jobs /\ b \in Jobs /\ b.msg = m /\ b.len = len /\ b.pc = "copy"
      /\ history \in Seq(Records) /\ BookTypes /\ Numbered
  BY <1>0 DEF Books, BookTypes, Jobs, Steps
<1> HIDE DEF b
<1>3. /\ job' \in [Job -> Jobs] /\ Numbered'
      /\ \A r : Origin(job, r) => Origin(job', r)
      /\ job'[j] = b /\ \A i \in Job \ {j} : job'[i] = job[i]
  BY <1>1, <1>2, SameMessage
<1>4. m \in Message /\ len \in Nat /\ m[1] # 0
  BY <1>0, <1>1, <1>2 DEF Jobs, Books, Numbered
<1> HIDE DEF m, len
<1>5. Recorded(history', history, m, len) /\ (~token /\ history = <<>> => history' = <<>>)
  <2>1. CASE history' = history
    BY <1>2, <2>1, NotRecorded
  <2>2. CASE history' # history /\ m[2] = 0
    <3>1. addRequestHistory(m, len)
      BY <2>2 DEF Record, m, len
    <3>2. /\ HistoryLimit # 0 /\ ~(len > MaxBytes) /\ token
          /\ history' = trim(Append(KeepLast(history, HistoryLimit),
                                    [id |-> m[1], size |-> len, events |-> <<>>]))
      BY <2>2, <3>1 DEF addRequestHistory
    <3>3. len <= MaxBytes
      BY <1>4, <3>2 DEF FeedAssumption
    <3> QED
      BY <1>2, <1>4, <2>2, <3>2, <3>3, RequestRecorded
  <2>3. CASE history' # history /\ m[2] # 0
    <3> DEFINE at == {i \in DOMAIN history : history[i].id = m[1]}
    <3>1. addRequestEvent(m, len)
      BY <2>3 DEF Record, m, len
    <3>2. /\ EventLimit # 0 /\ at # {}
          /\ history' = trim([history EXCEPT ![Max(at)] = WithEvent(@, m, len)])
      BY <2>3, <3>1 DEF addRequestEvent
    <3>3. history # <<>>
      BY <3>2
    <3> HIDE DEF at
    <3>4. at = {i \in DOMAIN history : history[i].id = m[1]}
      BY DEF at
    <3>5. Recorded(trim([history EXCEPT ![Max(at)] = WithEvent(@, m, len)]), history, m, len)
      BY <1>2, <1>4, <3>2, <3>4, EventRecorded
    <3> QED
      BY <3>2, <3>3, <3>5
  <2> QED
    BY <2>1, <2>2, <2>3
<1>6. history' \in Seq(Records)
  BY <1>5 DEF Recorded
<1>7. Traced'
  <2> SUFFICES ASSUME NEW i \in 1 .. Len(history') PROVE Origin(job', history'[i])
    BY DEF Traced
  <2>1. CASE Fresh(history'[i], m, len)
    <3>1. m = <<m[1], m[2]>>
      BY <1>4 DEF Message
    <3>2. job'[j].msg = m /\ job'[j].len = len
      BY <1>2, <1>3
    <3> QED
      BY <2>1, <3>1, <3>2 DEF Fresh, Origin
  <2>2. ASSUME NEW k \in 1 .. Len(history), Grown(history'[i], history[k], m)
        PROVE  Origin(job', history'[i])
    <3>1. Origin(job', history[k])
      BY <1>0, <1>3 DEF Books, Traced
    <3> QED
      BY <2>2, <3>1 DEF Grown, Origin
  <2> QED
    BY <1>5, <2>1, <2>2 DEF Recorded
<1>8. Limited'
  <2>1. Len(history') <= HistoryLimit
    BY <1>0, <1>5 DEF Recorded, Books, Limited
  <2>2. ASSUME NEW i \in 1 .. Len(history') PROVE Len(history'[i].events) <= EventLimit
    <3>1. CASE Fresh(history'[i], m, len)
      BY <3>1 DEF Fresh, FeedAssumption
    <3>2. ASSUME NEW k \in 1 .. Len(history), Grown(history'[i], history[k], m)
          PROVE  Len(history'[i].events) <= EventLimit
      BY <1>0, <3>2 DEF Grown, Books, Limited
    <3> QED
      BY <1>5, <3>1, <3>2 DEF Recorded
  <2>3. Length(history') <= MaxBytes
    <3>1. CASE history' = history
      BY <1>0, <3>1 DEF Books, Limited
    <3>2. CASE Len(history') = 1 /\ Length(history') = Base(history'[1])
      <4>1. Origin(job', history'[1])
        BY <1>7, <3>2 DEF Traced
      <4> QED
        BY <3>2, <4>1 DEF Origin
    <3> QED
      BY <1>5, <3>1, <3>2 DEF Recorded
  <2> QED
    BY <2>1, <2>2, <2>3 DEF Limited
<1>9. Books'
  BY <1>0, <1>1, <1>3, <1>6, <1>7, <1>8 DEF Books, BookTypes
<1>10. PageTypes' /\ Connected' /\ Removed'
  <2>1. PageTypes' /\ Connected'
    BY <1>0, <1>1 DEF PageTypes, Connected, routeVars, pageVars
  <2>2. token' = token /\ remover' = remover
    BY <1>1 DEF routeVars
  <2>3. Removed'
    BY <1>0, <1>5, <2>2, Zenon DEF Removed
  <2> QED
    BY <2>1, <2>3
<1>11. Reached'
  <2>1. /\ UNCHANGED <<clients, open, snapped>>
        /\ \A p \in Page : Shown(p)' = Shown(p)
    BY <1>1 DEF routeVars, pageVars, Shown, InQueue
  <2>2. \A p \in open : Shown(p) \subseteq Shown(p)'
    BY <1>0, <2>1 DEF PageTypes
  <2>3. job'[j].pc \notin {"queue", "count", "done"}
    BY <1>2, <1>3
  <2>4. ASSUME NEW i \in Job \ {j}, job[i].msg \in Retained'
        PROVE  job[i].msg \in Retained
    <3>1. Kept(history', job[i].msg)
      BY <1>6, <2>4, RetainedKeptNext
    <3>2. Kept(history, job[i].msg) \/ job[i].msg = m
      BY <1>4, <1>5, <3>1, RecordedKept
    <3>3. job[i].msg # m
      BY <1>0, <1>4 DEF Books, Numbered, m
    <3> QED
      BY <1>2, <3>2, <3>3, RetainedKept
  <2> QED
    BY <1>0, <1>2, <1>3, <2>1, <2>2, <2>3, <2>4, ReachedByOthers
<1> QED
  BY <1>9, <1>10, <1>11 DEF FeedInv

(* A broadcast that turns to its next page.                                *)
LEMMA QueueingIs ==
  ASSUME NEW b \in Jobs, NEW to \in SUBSET Page
  PROVE  LET q == Queueing(b, to) IN
         /\ q \in Jobs /\ q.msg = b.msg /\ q.len = b.len /\ q.to = to
         /\ q.pc = IF to = {} THEN "done" ELSE "queue"
<1> DEFINE s == IF to = {} THEN "done" ELSE "queue"
           q == Queueing(b, to)
<1>4. q = [b EXCEPT !.to = to, !.full = {}, !.pc = s]
  BY DEF Queueing
<1>2. s \in Steps
  BY DEF Steps
<1> HIDE DEF s, q
<1>1. q = [pc |-> s, msg |-> b.msg, len |-> b.len, to |-> to, full |-> {}]
  BY <1>4 DEF Jobs
<1>3. q \in Jobs /\ q.msg = b.msg /\ q.len = b.len /\ q.to = to /\ q.pc = s
  BY <1>1, <1>2 DEF Jobs
<1> QED
  BY <1>3 DEF q, s

(* The steps in which a broadcast reaches the pages.                       *)
LEMMA DeliveryInv ==
  ASSUME FeedAssumption, FeedInv, NEW j \in Job, job[j].pc \notin {"new", "done"},
         NEW b \in Jobs, b.msg = job[j].msg, b.len = job[j].len, b.pc # "new",
         b.pc = "count" => \E p \in Page : b.full = {p},
         job' = [job EXCEPT ![j] = b],
         UNCHANGED <<routeVars, history, requestID, page, open, snapped, sender, got>>,
         queue' \in [Page -> Seq(SUBSET Message)], lost' \in [Page -> SUBSET Message],
         \A p \in open : Shown(p) \subseteq Shown(p)',
         \A p \in clients \cap open \cap snapped :
           job[j].msg \in Retained =>
             \/ b.pc \in {"queue", "count"} /\ p \in b.to
             \/ job[j].msg \in Shown(p)'
  PROVE  FeedInv'
<1>0. Books /\ PageTypes /\ Connected /\ Removed /\ Reached
  BY DEF FeedInv
<1>1. /\ job' \in [Job -> Jobs] /\ Numbered'
      /\ \A r : Origin(job, r) => Origin(job', r)
      /\ job'[j] = b /\ \A i \in Job \ {j} : job'[i] = job[i]
  BY <1>0, SameMessage DEF Books
<1>2. Traced' /\ Limited'
  <2>1. Traced'
    BY <1>0, <1>1 DEF Books, Traced
  <2>2. Limited'
    BY <1>0 DEF Books, Limited
  <2> QED
    BY <2>1, <2>2
<1>3. Books'
  BY <1>0, <1>1, <1>2 DEF Books, BookTypes
<1>4. PageTypes' /\ Connected' /\ Removed'
  BY <1>0 DEF PageTypes, Connected, Removed, routeVars
<1>5. Reached'
  <2>1. UNCHANGED <<clients, open, snapped>> /\ Retained' = Retained
    BY DEF routeVars, Retained
  <2>2. ASSUME NEW p \in clients \cap open \cap snapped, job'[j].msg \in Retained'
        PROVE  p \in ToCome(j)' \/ job'[j].msg \in Shown(p)'
    <3>1. ToCome(j)' = IF b.pc \in {"queue", "count"} THEN b.to ELSE {}
      BY <1>1 DEF ToCome
    <3> QED
      BY <1>1, <2>1, <2>2, <3>1
  <2> QED
    BY <1>0, <1>1, <2>1, <2>2, ReachedByOthers DEF Books
<1> QED
  BY <1>3, <1>4, <1>5 DEF FeedInv

(* A broadcast that is under way.                                          *)
LEMMA JobStepInv ==
  ASSUME FeedAssumption, FeedInv, NEW j \in Job, JobStep(j)
  PROVE  FeedInv'
<1>0. Books /\ PageTypes /\ Connected /\ Removed /\ Reached
  BY DEF FeedInv
<1> DEFINE m == job[j].msg
<1>1. /\ job[j] \in Jobs /\ job[j].to \in SUBSET Page /\ m \in Message
      /\ job \in [Job -> Jobs] /\ clients \in SUBSET Page /\ open \subseteq Page
  BY <1>0 DEF Books, BookTypes, PageTypes, Jobs
<1> HIDE DEF m
<1>2. /\ lost \in [Page -> SUBSET Message] /\ queue \in [Page -> Seq(SUBSET Message)]
  BY <1>0 DEF PageTypes
<1>3. ASSUME NEW p \in clients \cap open \cap snapped, m \in Retained,
             job[j].pc \in {"queue", "count"}
      PROVE  p \in job[j].to \/ m \in Shown(p)
  BY <1>0, <1>3 DEF Reached, ToCome, m
<1>4. CASE Record(j)
  BY <1>4, RecordInv
<1>5. CASE queueToRoute(j)
  <2> DEFINE b == Queueing(job[j], clients)
  <2>1. /\ job[j].pc = "copy" /\ job' = [job EXCEPT ![j] = b]
        /\ UNCHANGED <<routeVars, history, requestID, page, open, snapped, sender, got,
                       queue, lost>>
    BY <1>5 DEF queueToRoute, pageVars
  <2>2. /\ b \in Jobs /\ b.msg = m /\ b.len = job[j].len /\ b.to = clients
        /\ b.pc = IF clients = {} THEN "done" ELSE "queue"
    BY <1>1, QueueingIs DEF m
  <2> HIDE DEF b
  <2>3. \A p \in open : Shown(p) \subseteq Shown(p)'
    BY <2>1 DEF Shown, InQueue
  <2>4. \A p \in clients \cap open \cap snapped : b.pc \in {"queue", "count"} /\ p \in b.to
    BY <2>2
  <2>5. b.pc # "new" /\ b.pc # "count"
    BY <2>2
  <2> QED
    BY <1>2, <2>1, <2>2, <2>3, <2>4, <2>5, DeliveryInv DEF m
<1>6. CASE Enqueue(j)
  <2>1. PICK q \in job[j].to :
          IF q \in open /\ Len(queue[q]) = SendQueueSize
          THEN /\ job' = [job EXCEPT ![j].pc = "count", ![j].full = {q}]
               /\ UNCHANGED queue
          ELSE /\ job' = [job EXCEPT ![j] = Queueing(@, @.to \ {q})]
               /\ queue' = IF q \notin open THEN queue
                           ELSE [queue EXCEPT ![q] = Append(@, {job[j].msg})]
    BY <1>6 DEF Enqueue
  <2>2. /\ job[j].pc = "queue"
        /\ UNCHANGED <<routeVars, history, requestID, page, open, snapped, sender, got, lost>>
    BY <1>6 DEF Enqueue
  <2>3. q \in Page
    BY <1>1
  <2>4. CASE q \in open /\ Len(queue[q]) = SendQueueSize
    <3> DEFINE b == [pc |-> "count", msg |-> m, len |-> job[j].len, to |-> job[j].to,
                     full |-> {q}]
    <3>1. job' = [job EXCEPT ![j] = b] /\ queue' = queue
      BY <1>1, <2>1, <2>4 DEF Jobs, m
    <3>2. /\ b \in Jobs /\ b.msg = m /\ b.len = job[j].len /\ b.to = job[j].to
          /\ b.pc = "count" /\ b.full = {q}
      BY <1>1, <2>3 DEF Jobs, Steps
    <3> HIDE DEF b
    <3>3. \A p \in open : Shown(p) \subseteq Shown(p)' /\ Shown(p)' = Shown(p)
      BY <2>2, <3>1 DEF Shown, InQueue
    <3>4. ASSUME NEW p \in clients \cap open \cap snapped, m \in Retained
          PROVE  (b.pc \in {"queue", "count"} /\ p \in b.to) \/ m \in Shown(p)'
      BY <1>3, <2>2, <3>2, <3>3, <3>4
    <3> QED
      BY <1>2, <2>2, <2>3, <3>1, <3>2, <3>3, <3>4, DeliveryInv DEF m
  <2>5. CASE ~(q \in open /\ Len(queue[q]) = SendQueueSize)
    <3> DEFINE b == Queueing(job[j], job[j].to \ {q})
    <3>1. /\ job' = [job EXCEPT ![j] = b]
          /\ queue' = IF q \notin open THEN queue
                      ELSE [queue EXCEPT ![q] = Append(@, {m})]
      BY <1>1, <2>1, <2>5 DEF m
    <3>2. /\ b \in Jobs /\ b.msg = m /\ b.len = job[j].len /\ b.to = job[j].to \ {q}
          /\ b.pc = IF job[j].to \ {q} = {} THEN "done" ELSE "queue"
      <4>1. job[j].to \ {q} \in SUBSET Page
        BY <1>1
      <4> QED
        BY <1>1, <4>1, QueueingIs DEF m
    <3> HIDE DEF b
    <3>3. /\ queue' \in [Page -> Seq(SUBSET Message)]
          /\ \A p \in open : p # q => queue'[p] = queue[p]
          /\ q \in open => ToSet(queue'[q]) = ToSet(queue[q]) \cup {{m}}
      <4>1. queue[q] \in Seq(SUBSET Message) /\ {m} \in SUBSET Message
        BY <1>1, <1>2, <2>3
      <4>2. Append(queue[q], {m}) \in Seq(SUBSET Message)
        BY <4>1
      <4>5. ToSet(Append(queue[q], {m})) = ToSet(queue[q]) \cup {{m}}
        <5> DEFINE S == SUBSET Message
                   t == queue[q]
                   e == {m}
        <5>1. t \in Seq(S) /\ e \in S
          BY <4>1
        <5> HIDE DEF S, t, e
        <5>2. ToSet(Append(t, e)) = ToSet(t) \cup {e}
          BY <5>1, ToSetAppend
        <5> QED
          BY <5>2 DEF t, e
      <4>3. q \in open => queue'[q] = Append(queue[q], {m})
        BY <1>2, <2>3, <3>1
      <4> QED
        BY <1>1, <1>2, <2>3, <3>1, <4>2, <4>3, <4>5
    <3>4. ASSUME NEW p \in open
          PROVE  Shown(p) \subseteq Shown(p)' /\ (p = q => m \in Shown(p)')
      <4>1. Shown(p) = got[p] \cup (UNION ToSet(queue[p])) \cup sender[p] \cup lost[p]
        BY DEF Shown, InQueue
      <4>2. Shown(p)' = got[p] \cup (UNION ToSet(queue'[p])) \cup sender[p] \cup lost[p]
        BY <2>2 DEF Shown, InQueue
      <4>3. CASE p = q
        <5>1. ToSet(queue'[p]) = ToSet(queue[p]) \cup {{m}}
          BY <3>3, <3>4, <4>3
        <5> QED
          BY <4>1, <4>2, <5>1
      <4>4. CASE p # q
        BY <3>3, <3>4, <4>1, <4>2, <4>4
      <4> QED
        BY <4>3, <4>4
    <3>5. ASSUME NEW p \in clients \cap open \cap snapped, m \in Retained
          PROVE  (b.pc \in {"queue", "count"} /\ p \in b.to) \/ m \in Shown(p)'
      <4>1. p \in job[j].to \/ m \in Shown(p)
        BY <1>3, <2>2, <3>5
      <4> QED
        BY <3>2, <3>4, <4>1
    <3>6. b.pc # "new" /\ b.pc # "count"
      BY <3>2
    <3> QED
      BY <1>2, <2>2, <3>1, <3>2, <3>3, <3>4, <3>5, <3>6, DeliveryInv DEF m
  <2> QED
    BY <2>4, <2>5
<1>7. CASE CountDropped(j)
  <2>1. job[j].pc = "count"
        /\ UNCHANGED <<routeVars, history, requestID, page, open, snapped, sender, got, queue>>
    BY <1>7 DEF CountDropped
  <2>2. PICK q \in Page : job[j].full = {q}
    BY <1>0, <2>1 DEF Books, Numbered
  <2> DEFINE b == Queueing(job[j], job[j].to \ {q})
  <2>3. /\ job' = [job EXCEPT ![j] = b]
        /\ lost' = [lost EXCEPT ![q] = @ \cup {m}]
    BY <1>1, <1>7, <2>2 DEF CountDropped, m
  <2>4. /\ b \in Jobs /\ b.msg = m /\ b.len = job[j].len /\ b.to = job[j].to \ {q}
        /\ b.pc = IF job[j].to \ {q} = {} THEN "done" ELSE "queue"
    <3>1. job[j].to \ {q} \in SUBSET Page
      BY <1>1
    <3> QED
      BY <1>1, <3>1, QueueingIs DEF m
  <2> HIDE DEF b
  <2>5. /\ lost' \in [Page -> SUBSET Message] /\ lost'[q] = lost[q] \cup {m}
        /\ \A p \in Page : lost[p] \subseteq lost'[p]
    BY <1>1, <1>2, <2>3
  <2>6. ASSUME NEW p \in open
        PROVE  Shown(p) \subseteq Shown(p)' /\ (p = q => m \in Shown(p)')
    <3>1. p \in Page
      BY <1>1
    <3> QED
      BY <2>1, <2>5, <3>1 DEF Shown, InQueue
  <2>7. ASSUME NEW p \in clients \cap open \cap snapped, m \in Retained
        PROVE  (b.pc \in {"queue", "count"} /\ p \in b.to) \/ m \in Shown(p)'
    <3>1. p \in job[j].to \/ m \in Shown(p)
      BY <1>3, <2>1, <2>7
    <3> QED
      BY <2>4, <2>6, <3>1
  <2>8. b.pc # "new" /\ b.pc # "count"
    BY <2>4
  <2> QED
    BY <1>2, <2>1, <2>3, <2>4, <2>5, <2>6, <2>7, <2>8, DeliveryInv DEF m
<1> QED
  BY <1>4, <1>5, <1>6, <1>7 DEF JobStep

-----------------------------------------------------------------------------
(* Every step keeps the invariant.                                         *)
LEMMA NextFeedInv ==
  ASSUME FeedAssumption, FeedInv, [FeedNext]_feedVars
  PROVE  FeedInv'
<1>1. CASE UNCHANGED feedVars
  <2>1. /\ UNCHANGED <<history, requestID, job, clients, open, snapped, page, sender,
                       queue, got, lost, token, remover>>
    BY <1>1, Zenon DEF feedVars, routeVars, pageVars
  <2>2. Books'
    BY <2>1, BooksKept DEF FeedInv
  <2>3. PageTypes' /\ Connected' /\ Removed'
    BY <2>1 DEF FeedInv, PageTypes, Connected, Removed
  <2>4. Reached'
    BY <2>1, ReachedKept DEF FeedInv, Shown, InQueue
  <2> QED
    BY <2>2, <2>3, <2>4 DEF FeedInv
<1>2. CASE AddRoute \/ RemoveRoute \/ RouteStep
  BY <1>2, RouteActionsInv
<1>3. ASSUME NEW j \in Job,
             \/ NotBroadcast(j) \/ BroadcastRoute(j) \/ JobStep(j)
             \/ \E r \in Job : BroadcastEvent(j, r)
      PROVE  FeedInv'
  BY <1>3, NotBroadcastInv, BroadcastRouteInv, JobStepInv, BroadcastEventInv
<1>4. ASSUME NEW p \in Page,
             \/ ConnectPage(p) \/ sendRequestHistory(p) \/ send(p)
             \/ Take(p) \/ PageWritten(p) \/ HandleEnds(p)
             \/ RemoveClient(p) \/ ReadPump(p)
      PROVE  FeedInv'
  BY <1>4, PageActionsInv
<1> QED
  BY <1>1, <1>2, <1>3, <1>4 DEF FeedNext

(* The invariant holds.                                                    *)
LEMMA FeedInvariant == FeedSpec => []FeedInv
<1>1. FeedInit => FeedInv
  BY FeedAssumption, FeedInitInv
<1>2. FeedInv /\ [FeedNext]_feedVars => FeedInv'
  BY FeedAssumption, NextFeedInv
<1> QED
  BY <1>1, <1>2, PTL DEF FeedSpec

(* For any number of pages, broadcasts and messages and any limits: of     *)
(* what the history of a route holds, a page that has its history and is   *)
(* still listed misses nothing that has been broadcast to the end          *)
(* (BroadcastRoute, BroadcastEvent, sendRequestHistory, WebClient.queue).  *)
THEOREM PagesSeeTheHistory == FeedSpec => []PageMissesNothing
<1>1. FeedInv => PageMissesNothing
  BY DEF FeedInv, Reached, PageMissesNothing, ToCome
<1> QED
  BY <1>1, FeedInvariant, PTL

(* For every limit, history and order of broadcasts: the history of a      *)
(* route stays within its limits in records, events and bytes, the size    *)
(* it keeps of each record is that of what the record holds, and once the  *)
(* route is removed it is empty (addRequestHistory, addRequestEvent, trim, *)
(* removeRequestHistory).                                                  *)
THEOREM HistoryStaysBounded == FeedSpec => []HistoryBounded
<1>1. ASSUME FeedInv PROVE HistoryBounded
  <2>1. BookTypes /\ Traced /\ Limited /\ Removed
    BY <1>1 DEF FeedInv, Books
  <2>2. DOMAIN history = 1 .. Len(history)
    BY <2>1 DEF BookTypes
  <2>3. ASSUME NEW i \in 1 .. Len(history)
        PROVE  \E j \in Job : /\ job[j].msg = <<history[i].id, 0>>
                              /\ history[i].size = job[j].len + Length(history[i].events)
    <3>1. PICK j \in Job : job[j].msg = <<history[i].id, 0>> /\ Base(history[i]) = job[j].len
      BY <2>1 DEF Traced, Origin
    <3>2. history[i] \in Records /\ job[j] \in Jobs
      BY <2>1 DEF BookTypes
    <3>3. history[i].size \in Int /\ history[i].events \in Seq(Event) /\ job[j].len \in Nat
      BY <3>2 DEF Records, Jobs
    <3>4. Length(history[i].events) \in Int
      BY <3>3, EventLength
    <3> QED
      BY <3>1, <3>3, <3>4 DEF Base
  <2> QED
    BY <2>1, <2>2, <2>3 DEF HistoryBounded, Limited, Removed
<1> QED
  BY <1>1, FeedInvariant, PTL
=============================================================================
