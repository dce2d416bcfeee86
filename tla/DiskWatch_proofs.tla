--------------------------- MODULE DiskWatch_proofs ---------------------------
(***************************************************************************)
(* For any tree of directories, any changes of it and any queue of inotify *)
(* the watch thread loses no directory, and takes no event of a directory  *)
(* it does not know.                                                       *)
(***************************************************************************)
EXTENDS DiskWatch, FiniteSetTheorems, SequenceTheorems, TLAPS

\* The names on the way to a directory.
Names == Seq(STRING)

-----------------------------------------------------------------------------
(* Paths *)

\* The beginning of a path, name by name.
LEMMA Start ==
  ASSUME NEW s \in Names, NEW n \in 0..Len(s)
  PROVE  /\ SubSeq(s, 1, n) \in Names /\ Len(SubSeq(s, 1, n)) = n
         /\ \A i \in 1..n : SubSeq(s, 1, n)[i] = s[i]
<1>1. Len(s) \in Nat /\ \A i \in 1..Len(s) : s[i] \in STRING
  BY DEF Names
<1>2. \A i \in 1..n : s[i] \in STRING
  BY <1>1
<1> QED BY <1>1, <1>2, SubSeqProperties DEF Names

LEMMA PrefixIs ==
  ASSUME NEW p \in Names, NEW s \in Names
  PROVE  IsPrefix(p, s) <=> Len(p) <= Len(s) /\ \A i \in 1..Len(p) : p[i] = s[i]
<1>1. Len(p) \in Nat /\ Len(s) \in Nat
  BY DEF Names
<1>2. SubSeq(p, 1, Len(p)) = p
  BY SubSeqFull DEF Names
<1>3. ASSUME Len(p) <= Len(s)
      PROVE  SubSeq(s, 1, Len(p)) = p <=> \A i \in 1..Len(p) : p[i] = s[i]
  <2>1. Len(p) \in 0..Len(s)
    BY <1>1, <1>3
  <2>2. /\ SubSeq(s, 1, Len(p)) \in Names /\ Len(SubSeq(s, 1, Len(p))) = Len(p)
        /\ \A i \in 1..Len(p) : SubSeq(s, 1, Len(p))[i] = s[i]
    BY <2>1, Start
  <2> QED BY <2>2, SeqEqual DEF Names
<1> QED BY <1>2, <1>3 DEF IsPrefix

\* The path itself, and a longer one.
LEMMA PrefixReflexive ==
  ASSUME NEW p \in Names
  PROVE  IsPrefix(p, p)
BY DEF IsPrefix, Names

LEMMA PrefixTransitive ==
  ASSUME NEW p \in Names, NEW q \in Names, NEW s \in Names, IsPrefix(p, q), IsPrefix(q, s)
  PROVE  IsPrefix(p, s)
<1>1. Len(p) \in Nat /\ Len(q) \in Nat /\ Len(s) \in Nat
  BY DEF Names
<1>2. /\ Len(p) <= Len(q) /\ \A i \in 1..Len(p) : p[i] = q[i]
      /\ Len(q) <= Len(s) /\ \A i \in 1..Len(q) : q[i] = s[i]
  BY PrefixIs
<1>3. Len(p) <= Len(s) /\ \A i \in 1..Len(p) : p[i] = s[i]
  BY <1>1, <1>2
<1> QED BY <1>3, PrefixIs

\* A prefix is a beginning.
LEMMA PrefixIsStart ==
  ASSUME NEW p \in Names, NEW s \in Names
  PROVE  /\ IsPrefix(p, s) => Len(p) \in 0..Len(s) /\ p = SubSeq(s, 1, Len(p))
         /\ \A n \in 0..Len(s) : IsPrefix(SubSeq(s, 1, n), s)
<1>1. Len(p) \in Nat /\ Len(s) \in Nat
  BY DEF Names
<1>2. IsPrefix(p, s) => Len(p) \in 0..Len(s) /\ p = SubSeq(s, 1, Len(p))
  BY <1>1, SubSeqFull DEF IsPrefix, Names
<1>3. ASSUME NEW n \in 0..Len(s) PROVE IsPrefix(SubSeq(s, 1, n), s)
  <2> DEFINE t == SubSeq(s, 1, n)
  <2>1. t \in Names /\ Len(t) = n /\ n <= Len(s) /\ \A i \in 1..n : t[i] = s[i]
    BY <1>1, Start
  <2> HIDE DEF t
  <2>2. IsPrefix(t, s)
    BY <2>1, PrefixIs
  <2> QED BY <2>2 DEF t
<1> QED BY <1>2, <1>3

\* The parent and the name in it.
LEMMA FrontAndLast ==
  ASSUME NEW s \in Names, s # Root
  PROVE  /\ Front(s) \in Names /\ Last(s) \in STRING /\ <<Last(s)>> \in Names
         /\ Front(s) \o <<Last(s)>> = s
         /\ Len(s) \in Nat \ {0} /\ Len(Front(s)) = Len(s) - 1 /\ Front(s) = SubSeq(s, 1, Len(s) - 1)
         /\ IsPrefix(Front(s), s) /\ Front(s) # s
<1>1. Len(s) \in Nat \ {0} /\ DOMAIN s = 1..Len(s) /\ \A i \in 1..Len(s) : s[i] \in STRING
  BY DEF Names, Root
<1>2. Len(s) - 1 \in 0..Len(s) /\ Front(s) = SubSeq(s, 1, Len(s) - 1) /\ Last(s) = s[Len(s)]
  BY <1>1 DEF Front, Last
<1>3. /\ Front(s) \in Names /\ Len(Front(s)) = Len(s) - 1
      /\ \A i \in 1..Len(s) - 1 : Front(s)[i] = s[i]
  BY <1>2, Start
<1>4. Last(s) \in STRING /\ <<Last(s)>> \in Names /\ Len(<<Last(s)>>) = 1 /\ <<Last(s)>>[1] = s[Len(s)]
  BY <1>1, <1>2 DEF Names
<1>5. Front(s) \o <<Last(s)>> = s
  <2>1. /\ Front(s) \o <<Last(s)>> \in Names /\ Len(Front(s) \o <<Last(s)>>) = Len(s)
        /\ \A i \in 1..Len(s) : (Front(s) \o <<Last(s)>>)[i] = IF i <= Len(s) - 1 THEN Front(s)[i] ELSE <<Last(s)>>[i - (Len(s) - 1)]
    <3> DEFINE f == Front(s)
               l == <<Last(s)>>
    <3>1. f \in Names /\ l \in Names /\ Len(f) + Len(l) = Len(s) /\ Len(f) = Len(s) - 1
      BY <1>1, <1>3, <1>4
    <3> HIDE DEF f, l
    <3>2. /\ f \o l \in Names /\ Len(f \o l) = Len(f) + Len(l)
          /\ \A i \in 1..Len(f) + Len(l) : (f \o l)[i] = IF i <= Len(f) THEN f[i] ELSE l[i - Len(f)]
      BY <3>1, ConcatProperties DEF Names
    <3>3. /\ f \o l \in Names /\ Len(f \o l) = Len(s)
          /\ \A i \in 1..Len(s) : (f \o l)[i] = IF i <= Len(s) - 1 THEN f[i] ELSE l[i - (Len(s) - 1)]
      BY <3>1, <3>2
    <3> QED BY <3>3 DEF f, l
  <2>2. ASSUME NEW i \in 1..Len(s) PROVE (Front(s) \o <<Last(s)>>)[i] = s[i]
    <3>1. CASE i <= Len(s) - 1
      BY <1>1, <1>3, <2>1, <3>1
    <3>2. CASE i = Len(s)
      <4>1. ~(i <= Len(s) - 1) /\ i - (Len(s) - 1) = 1
        BY <1>1, <3>2
      <4>2. (Front(s) \o <<Last(s)>>)[i] = <<Last(s)>>[i - (Len(s) - 1)]
        BY <2>1, <4>1
      <4>3. <<Last(s)>>[i - (Len(s) - 1)] = s[i]
        BY <1>4, <3>2, <4>1, Zenon
      <4> QED BY <4>2, <4>3, Zenon
    <3>3. i <= Len(s) - 1 \/ i = Len(s)
      <4>1. Len(s) \in Int /\ i \in Int /\ i <= Len(s)
        BY <1>1
      <4> QED BY <4>1
    <3> QED BY <3>1, <3>2, <3>3
  <2> QED BY <2>1, <2>2, SeqEqual DEF Names
<1>6. IsPrefix(Front(s), s)
  BY <1>2, <1>3, PrefixIsStart
<1>7. Front(s) # s
  BY <1>1, <1>3
<1> QED BY <1>1, <1>2, <1>3, <1>4, <1>5, <1>6, <1>7

\* What leads to a path leads to its parent, or is the path.
LEMMA PrefixOfFront ==
  ASSUME NEW p \in Names, NEW s \in Names, IsPrefix(p, s), p # s
  PROVE  s # Root /\ IsPrefix(p, Front(s)) /\ Len(p) < Len(s)
<1>1. Len(p) \in 0..Len(s) /\ p = SubSeq(s, 1, Len(p)) /\ Len(s) \in Nat
  BY PrefixIsStart DEF Names
<1>2. Len(p) # Len(s)
  BY <1>1, SubSeqFull DEF Names
<1>3. s # Root
  BY <1>1, <1>2 DEF Root, Names
<1>4. Front(s) \in Names /\ Len(Front(s)) = Len(s) - 1 /\ IsPrefix(Front(s), s)
  BY <1>3, FrontAndLast
<1>5. Len(p) <= Len(s) - 1
  BY <1>1, <1>2
<1>6. /\ \A i \in 1..Len(p) : p[i] = s[i]
      /\ \A i \in 1..Len(s) - 1 : Front(s)[i] = s[i]
  BY <1>4, PrefixIs
<1>7. Len(p) <= Len(Front(s)) /\ \A i \in 1..Len(p) : p[i] = Front(s)[i]
  BY <1>1, <1>4, <1>5, <1>6
<1> QED BY <1>1, <1>3, <1>4, <1>5, <1>7, PrefixIs

\* The next directory on the way.
LEMMA OneOn ==
  ASSUME NEW p \in Names, NEW s \in Names, IsPrefix(p, s), p # s
  PROVE  LET next == SubSeq(s, 1, Len(p) + 1)
         IN  /\ Len(p) + 1 \in 0..Len(s)
             /\ next \in Names /\ next # Root /\ Front(next) = p /\ IsPrefix(next, s)
<1> DEFINE next == SubSeq(s, 1, Len(p) + 1)
<1>1. Len(p) \in 0..Len(s) /\ Len(s) \in Nat /\ Len(p) < Len(s)
  BY PrefixIsStart, PrefixOfFront DEF Names
<1>2. Len(p) + 1 \in 0..Len(s)
  BY <1>1
<1>3. next \in Names /\ Len(next) = Len(p) + 1 /\ \A i \in 1..Len(p) + 1 : next[i] = s[i]
  BY <1>2, Start
<1>4. IsPrefix(next, s)
  BY <1>2, PrefixIsStart
<1> HIDE DEF next
<1>5. next # Root
  BY <1>1, <1>3 DEF Root
<1>6. Front(next) \in Names /\ Len(Front(next)) = Len(p) /\ \A i \in 1..Len(p) : Front(next)[i] = next[i]
  <2>1. Front(next) \in Names /\ Len(Front(next)) = Len(next) - 1 /\ IsPrefix(Front(next), next)
    BY <1>3, <1>5, FrontAndLast
  <2>2. Len(Front(next)) = Len(p)
    BY <1>1, <1>3, <2>1
  <2> QED BY <1>3, <2>1, <2>2, PrefixIs
<1>7. \A i \in 1..Len(p) : p[i] = s[i]
  BY PrefixIs
<1>8. \A i \in 1..Len(p) : Front(next)[i] = p[i]
  BY <1>1, <1>3, <1>6, <1>7
<1>9. Front(next) = p
  BY <1>6, <1>8, SeqEqual DEF Names
<1> QED BY <1>2, <1>3, <1>4, <1>5, <1>9 DEF next

-----------------------------------------------------------------------------
(* Moving paths *)

\* The path of what is below one path, after it was renamed to another.
Move(from, to, s) == to \o SubSeq(s, Len(from) + 1, Len(s))

Moved(from, to, s, r) ==
  /\ r \in Names /\ Len(r) = Len(to) + Len(s) - Len(from) /\ Len(from) <= Len(s)
  /\ \A i \in 1..Len(to) : r[i] = to[i]
  /\ \A i \in Len(from) + 1..Len(s) : r[i - Len(from) + Len(to)] = s[i]

LEMMA MoveIs ==
  ASSUME NEW from \in Names, NEW to \in Names, NEW s \in Names, IsPrefix(from, s)
  PROVE  Moved(from, to, s, Move(from, to, s))
<1> DEFINE m == Len(from)
           n == Len(s)
           k == Len(to)
           rest == SubSeq(s, m + 1, n)
<1>1. m \in Nat /\ n \in Nat /\ k \in Nat /\ m <= n /\ \A i \in 1..n : s[i] \in STRING
  BY PrefixIs DEF Names
<1>2. rest \in Names /\ Len(rest) = n - m /\ \A i \in 1..n - m : rest[i] = s[m + i]
  <2>1. \A i \in m + 1..n : s[i] \in STRING
    BY <1>1
  <2>2. s \in Seq(STRING) /\ m + 1 \in 1..n + 1
    BY <1>1 DEF Names
  <2> HIDE DEF m, n
  <2>3. SubSeq(s, m + 1, n) \in Seq(STRING)
    BY <1>1, <2>1, <2>2, SubSeqProperties
  <2>4. Len(SubSeq(s, m + 1, n)) = n - m /\ \A i \in 1..n - m : SubSeq(s, m + 1, n)[i] = s[m + i]
    <3>1. Len(s) = n
      BY DEF n
    <3> QED BY <1>1, <2>2, <3>1
  <2> QED BY <2>3, <2>4 DEF Names
<1> HIDE DEF rest
<1>3. /\ to \o rest \in Names /\ Len(to \o rest) = k + Len(rest)
      /\ \A i \in 1..k + Len(rest) : (to \o rest)[i] = IF i <= k THEN to[i] ELSE rest[i - k]
  BY <1>2, ConcatProperties DEF Names
<1> DEFINE r == to \o rest
<1>4. Move(from, to, s) = r
  BY DEF Move, rest
<1> HIDE DEF m, n, k, r
<1>5. r \in Names /\ Len(r) = k + n - m /\ \A i \in 1..k + (n - m) : r[i] = IF i <= k THEN to[i] ELSE rest[i - k]
  <2>1. Len(rest) = n - m
    BY <1>2
  <2> QED BY <1>1, <1>3, <2>1 DEF r
<1>6. \A i \in 1..k : r[i] = to[i]
  BY <1>1, <1>5
<1>7. ASSUME NEW i \in m + 1..n PROVE r[i - m + k] = s[i]
  <2> DEFINE j == i - m
             l == j + k
  <2>1. l \in 1..k + (n - m) /\ ~(l <= k) /\ l - k = j /\ j \in 1..n - m /\ m + j = i
    BY <1>1
  <2> HIDE DEF j, l
  <2>2. r[l] = IF l <= k THEN to[l] ELSE rest[l - k]
    BY <1>5, <2>1
  <2>3. r[l] = rest[j]
    BY <2>1, <2>2
  <2>4. rest[j] = s[i]
    BY <1>2, <2>1
  <2> QED BY <2>3, <2>4 DEF j, l
<1>8. Moved(from, to, s, r)
  BY <1>1, <1>5, <1>6, <1>7 DEF m, n, k, Moved
<1> QED BY <1>4, <1>8

\* Different paths stay different.
LEMMA MoveInjective ==
  ASSUME NEW from \in Names, NEW to \in Names, NEW s \in Names, NEW t \in Names,
         IsPrefix(from, s), IsPrefix(from, t), Move(from, to, s) = Move(from, to, t)
  PROVE  s = t
<1>1. Len(from) \in Nat /\ Len(to) \in Nat /\ Len(s) \in Nat /\ Len(t) \in Nat
  BY DEF Names
<1> DEFINE r == Move(from, to, s)
<1>2. Moved(from, to, s, r) /\ Moved(from, to, t, r)
  BY MoveIs
<1> HIDE DEF r
<1>3. Len(s) = Len(t)
  <2>1. Len(to) + Len(s) - Len(from) = Len(to) + Len(t) - Len(from)
    BY <1>2, Zenon DEF Moved
  <2> QED BY <1>1, <2>1
<1>4. ASSUME NEW i \in 1..Len(s) PROVE s[i] = t[i]
  <2>1. CASE i <= Len(from)
    <3>1. i \in 1..Len(from)
      BY <1>1, <2>1
    <3> QED BY <3>1, PrefixIs
  <2>2. CASE ~(i <= Len(from))
    <3>1. i \in Len(from) + 1..Len(s) /\ i \in Len(from) + 1..Len(t)
      BY <1>1, <1>3, <2>2
    <3> QED BY <1>2, <3>1, Zenon DEF Moved
  <2> QED BY <2>1, <2>2
<1> QED BY <1>3, <1>4, SeqEqual DEF Names

\* What leads to the new path is what leads to the target, or moved too.
LEMMA MoveStart ==
  ASSUME NEW from \in Names, NEW to \in Names, NEW s \in Names, IsPrefix(from, s)
  PROVE  /\ IsPrefix(to, Move(from, to, s))
         /\ Move(from, to, from) = to
<1> DEFINE r == Move(from, to, s)
<1>0. Len(from) \in Nat /\ Len(to) \in Nat /\ Len(s) \in Nat
  BY DEF Names
<1>1. Moved(from, to, s, r)
  BY MoveIs
<1>2. Move(from, to, from) = to
  <2>1. IsPrefix(from, from)
    BY PrefixReflexive
  <2> DEFINE f == Move(from, to, from)
  <2>2. Moved(from, to, from, f)
    BY <2>1, MoveIs
  <2> HIDE DEF f
  <2>3. f \in Names /\ Len(f) = Len(to) /\ \A i \in 1..Len(to) : f[i] = to[i]
    BY <1>0, <2>2 DEF Moved
  <2>4. f = to
    BY <2>3, SeqEqual DEF Names
  <2> QED BY <2>4 DEF f
<1> HIDE DEF r
<1>3. IsPrefix(to, r)
  <2>1. r \in Names /\ Len(to) <= Len(r) /\ \A i \in 1..Len(to) : to[i] = r[i]
    BY <1>0, <1>1 DEF Moved
  <2> QED BY <2>1, PrefixIs
<1> QED BY <1>2, <1>3 DEF r

LEMMA MoveStarts ==
  ASSUME NEW from \in Names, NEW to \in Names, NEW s \in Names, IsPrefix(from, s),
         NEW n \in 0..Len(Move(from, to, s))
  PROVE  \/ n <= Len(to) /\ SubSeq(Move(from, to, s), 1, n) = SubSeq(to, 1, n)
         \/ \E k \in 0..Len(s) : /\ IsPrefix(from, SubSeq(s, 1, k))
                                 /\ SubSeq(Move(from, to, s), 1, n) = Move(from, to, SubSeq(s, 1, k))
<1> DEFINE r == Move(from, to, s)
<1>0. Len(from) \in Nat /\ Len(to) \in Nat /\ Len(s) \in Nat
  BY DEF Names
<1>1. Moved(from, to, s, r)
  BY MoveIs
<1>2. n \in 0..Len(r)
  OBVIOUS
<1> HIDE DEF r
<1>4. r \in Names /\ Len(r) = Len(to) + Len(s) - Len(from) /\ Len(from) <= Len(s)
  BY <1>1 DEF Moved
<1>3. \/ n <= Len(to) /\ SubSeq(r, 1, n) = SubSeq(to, 1, n)
      \/ \E k \in 0..Len(s) : IsPrefix(from, SubSeq(s, 1, k)) /\ SubSeq(r, 1, n) = Move(from, to, SubSeq(s, 1, k))
  <2> DEFINE t == SubSeq(r, 1, n)
  <2>1. t \in Names /\ Len(t) = n /\ \A i \in 1..n : t[i] = r[i]
    BY <1>2, <1>4, Start
  <2> HIDE DEF t
  <2>2. CASE n <= Len(to)
    <3> DEFINE u == SubSeq(to, 1, n)
    <3>1. n \in 0..Len(to)
      BY <1>0, <2>2
    <3>2. u \in Names /\ Len(u) = n /\ \A i \in 1..n : u[i] = to[i]
      BY <3>1, Start
    <3> HIDE DEF u
    <3>3. \A i \in 1..n : t[i] = u[i]
      <4> TAKE i \in 1..n
      <4>1. i \in 1..Len(to)
        BY <1>0, <3>1
      <4> QED BY <1>1, <2>1, <3>2, <4>1 DEF Moved
    <3>4. t = u
      BY <2>1, <3>2, <3>3, SeqEqual DEF Names
    <3> QED BY <2>2, <3>4 DEF t, u
  <2>3. CASE ~(n <= Len(to))
    <3> DEFINE k == n - Len(to) + Len(from)
               u == SubSeq(s, 1, k)
               v == Move(from, to, u)
    <3>1. k \in 0..Len(s) /\ Len(from) <= k /\ Len(to) + k - Len(from) = n
      BY <1>0, <1>2, <1>4, <2>3
    <3>2. u \in Names /\ Len(u) = k /\ \A i \in 1..k : u[i] = s[i]
      BY <3>1, Start
    <3>3. IsPrefix(from, u)
      <4> HIDE DEF u, k
      <4>1. \A i \in 1..Len(from) : from[i] = s[i]
        BY PrefixIs
      <4>2. Len(from) <= Len(u) /\ \A i \in 1..Len(from) : from[i] = u[i]
        BY <1>0, <3>1, <3>2, <4>1
      <4> QED BY <3>2, <4>2, PrefixIs
    <3> HIDE DEF u
    <3>4. Moved(from, to, u, v)
      BY <3>2, <3>3, MoveIs
    <3> HIDE DEF k, v
    <3>5. v \in Names /\ Len(v) = n
      BY <3>1, <3>2, <3>4 DEF Moved
    <3>6. ASSUME NEW i \in 1..n PROVE t[i] = v[i]
      <4>1. CASE i <= Len(to)
        <5>1. i \in 1..Len(to)
          BY <1>0, <4>1
        <5> QED BY <1>1, <2>1, <3>4, <5>1 DEF Moved
      <4>2. CASE ~(i <= Len(to))
        <5> DEFINE j == i - Len(to) + Len(from)
        <5>1. /\ j \in Len(from) + 1..Len(u) /\ j \in Len(from) + 1..Len(s) /\ j \in 1..k
              /\ j - Len(from) + Len(to) = i
          BY <1>0, <1>4, <3>1, <3>2, <4>2
        <5> HIDE DEF j
        <5>2. v[i] = u[j] /\ r[i] = s[j] /\ u[j] = s[j]
          BY <1>1, <3>2, <3>4, <5>1 DEF Moved
        <5> QED BY <2>1, <5>2
      <4> QED BY <4>1, <4>2
    <3>7. t = v
      BY <2>1, <3>5, <3>6, SeqEqual DEF Names
    <3> QED BY <3>1, <3>3, <3>7 DEF t, u, v
  <2> QED BY <2>2, <2>3
<1> QED BY <1>3 DEF r

-----------------------------------------------------------------------------
(* The invariant *)

Masks  == {"file", "new directory", "directory gone", "self gone", "ignored", "moved away", "self moved", "overflow"}
Events == [wd : Dirs \cup {-1}, mask : Masks, path : Names]
Tasks  == [step : {"add", "list"}, path : Names]

\* No path that is looked at is a mark.
Marks == {New, Removed}

TypeOK ==
  /\ where \in [Dirs -> Paths \cup Marks]
  /\ changes \in Nat
  /\ recursive \in BOOLEAN
  /\ kernel \in Seq(Events)
  /\ watched \subseteq Dirs
  /\ DOMAIN watches \subseteq Dirs
  /\ \A dir \in DOMAIN watches : watches[dir] \in Names
  /\ adding \in Seq(Tasks)
  /\ cause \in Masks \cup {"none", "failed", "shutdown"}
  /\ scanQ \in Seq(Names)
  /\ unseen \cup listed \cup early \cup stray \subseteq Dirs

\* A path names one directory.  What leads to a directory is a directory that was
\* not stray either, unless the first one was.
TreeInv ==
  /\ \A dir, other \in Dirs : InTree(dir) /\ where[dir] = where[other] => dir = other
  /\ \A dir \in Dirs : InTree(dir) =>
       \A n \in 0..Len(where[dir]) :
         \E above \in Dirs : /\ InTree(above) /\ where[above] = SubSeq(where[dir], 1, n)
                             /\ above \in stray => dir \in stray

\* The overflow is the last event that is queued; the last events of a directory
\* are that it is gone and, nothing else, that its watch is.
Full(events) == Len(events) <= QueueSize + 1 /\ (Len(events) > QueueSize => Overflow \in ToSet(events))
InOrder(events) ==
  \A i, j \in DOMAIN events :
    (i < j /\ events[i].mask = "self gone" /\ events[i].wd = events[j].wd) => events[j].mask = "ignored"

\* What is not there yet is not known, and what is queued is about what is known.
DirsKnown ==
  /\ watched \subseteq DOMAIN watches
  /\ \A dir \in Dirs : where[dir] = New => dir \notin unseen \cup listed \cup DOMAIN watches
  /\ \A dir \in DOMAIN watches : InTree(dir) /\ dir \notin stray => watches[dir] = where[dir]
  /\ \A dir \in DOMAIN watches : watches[dir] = Root => where[dir] = Root
EventKnown(e) ==
  /\ e = Overflow \/ e.mask = "ignored" \/ e.wd \in DOMAIN watches
  /\ e.mask = "self gone" => e.wd \in Dirs /\ e.wd \notin watched /\ where[e.wd] = Removed
KnownInv ==
  /\ DirsKnown
  /\ \A e \in ToSet(kernel) : EventKnown(e)
  /\ Full(kernel) /\ InOrder(kernel)

PathsInv ==
  /\ \A task \in ToSet(adding) : task.path \notin Marks
  /\ \A path \in ToSet(scanQ) : path \notin Marks
  /\ \A e \in ToSet(kernel) : e.mask = "new directory" => watches[e.wd] \o e.path \notin Marks

\* What will be watched, scanned or looked at.
NewPending(path) ==
  \E e \in ToSet(kernel) : e.mask = "new directory" /\ e.wd \in DOMAIN watches /\ IsPrefix(watches[e.wd] \o e.path, path)
WatchPending(path) ==
  \/ NewPending(path)
  \/ \E task \in ToSet(adding) : IsPrefix(task.path, path) /\ (task.step = "list" => task.path # path)
ScanPending(path) ==
  \/ NewPending(path)
  \/ \E start \in ToSet(scanQ) : IsPrefix(start, path)
LookPending(dir) ==
  \E e \in ToSet(kernel) :
    e.wd = dir /\ e.mask \notin {"ignored", "self gone"} /\ watches[dir] \o e.path \notin Ignored

Kept(dir) ==
  /\ dir \in watched \/ WatchPending(where[dir])
  /\ dir \in listed \cup early \/ ScanPending(where[dir])
  /\ dir \in unseen => dir \in early \/ ScanPending(where[dir]) \/ LookPending(dir)
NothingLost == \A dir \in Dirs : Covered(dir) /\ dir \notin stray => Kept(dir)

LostInv == cause # "none" \/ Overflow \in ToSet(kernel) \/ NothingLost

IInv == TypeOK /\ TreeInv /\ KnownInv /\ PathsInv /\ LostInv /\ OnlyOverflowIsUnknown

-----------------------------------------------------------------------------
(* Queues *)

LEMMA InAppend ==
  ASSUME NEW S, NEW q \in Seq(S), NEW e \in S
  PROVE  /\ Append(q, e) \in Seq(S) /\ Append(q, e) # <<>>
         /\ ToSet(Append(q, e)) = ToSet(q) \cup {e}
<1>1. /\ Len(q) \in Nat /\ DOMAIN q = 1..Len(q)
      /\ Append(q, e) \in Seq(S) /\ DOMAIN Append(q, e) = 1..Len(q) + 1
      /\ \A i \in 1..Len(q) : Append(q, e)[i] = q[i]
      /\ Append(q, e)[Len(q) + 1] = e
  OBVIOUS
<1>2. Len(q) + 1 \in DOMAIN Append(q, e) /\ \A i \in DOMAIN q : i \in DOMAIN Append(q, e)
  BY <1>1
<1>3. \A i \in DOMAIN Append(q, e) : i \in DOMAIN q \/ i = Len(q) + 1
  BY <1>1
<1>4. ToSet(Append(q, e)) = ToSet(q) \cup {e}
  BY <1>1, <1>2, <1>3 DEF ToSet
<1> QED BY <1>1, <1>4

LEMMA InTail ==
  ASSUME NEW S, NEW q \in Seq(S), q # <<>>
  PROVE  /\ Tail(q) \in Seq(S) /\ Head(q) \in S /\ ToSet(q) = {Head(q)} \cup ToSet(Tail(q))
         /\ Len(q) \in Nat \ {0} /\ DOMAIN q = 1..Len(q) /\ DOMAIN Tail(q) = 1..Len(q) - 1
         /\ Len(Tail(q)) = Len(q) - 1 /\ Head(q) = q[1]
         /\ \A i \in DOMAIN Tail(q) : i + 1 \in DOMAIN q /\ Tail(q)[i] = q[i + 1]
<1>1. /\ Len(q) \in Nat \ {0} /\ DOMAIN q = 1..Len(q)
      /\ Tail(q) \in Seq(S) /\ Head(q) \in S
      /\ Len(Tail(q)) = Len(q) - 1 /\ Head(q) = q[1]
      /\ DOMAIN Tail(q) = 1..Len(q) - 1 /\ \A i \in 1..Len(q) - 1 : Tail(q)[i] = q[i + 1]
  OBVIOUS
<1>2. \A i \in DOMAIN Tail(q) : i + 1 \in DOMAIN q /\ Tail(q)[i] = q[i + 1]
  BY <1>1
<1>3. 1 \in DOMAIN q
  BY <1>1
<1>4. \A i \in DOMAIN q : i = 1 \/ (i - 1 \in DOMAIN Tail(q) /\ Tail(q)[i - 1] = q[i])
  <2> TAKE i \in DOMAIN q
  <2>1. i = 1 \/ i - 1 \in 1..Len(q) - 1
    BY <1>1
  <2>2. i - 1 + 1 = i
    BY <1>1
  <2> QED BY <1>1, <2>1, <2>2
<1>5. \A x : x \in ToSet(q) <=> x = Head(q) \/ x \in ToSet(Tail(q))
  <2> TAKE x
  <2>1. ASSUME x \in ToSet(q) PROVE x = Head(q) \/ x \in ToSet(Tail(q))
    <3>1. PICK i \in DOMAIN q : q[i] = x
      BY <2>1 DEF ToSet
    <3>2. CASE i = 1
      BY <1>1, <3>1, <3>2
    <3>3. CASE i - 1 \in DOMAIN Tail(q) /\ Tail(q)[i - 1] = q[i]
      BY <3>1, <3>3 DEF ToSet
    <3> QED BY <1>4, <3>2, <3>3
  <2>2. x \in ToSet(Tail(q)) => x \in ToSet(q)
    BY <1>2 DEF ToSet
  <2>3. Head(q) \in ToSet(q)
    BY <1>1, <1>3 DEF ToSet
  <2> QED BY <2>1, <2>2, <2>3
<1> QED BY <1>1, <1>2, <1>5

LEMMA InConcat ==
  ASSUME NEW S, NEW p \in Seq(S), NEW q \in Seq(S)
  PROVE  p \o q \in Seq(S) /\ ToSet(p \o q) = ToSet(p) \cup ToSet(q)
<1>1. /\ Len(p) \in Nat /\ Len(q) \in Nat /\ DOMAIN p = 1..Len(p) /\ DOMAIN q = 1..Len(q)
      /\ p \o q \in Seq(S) /\ DOMAIN (p \o q) = 1..Len(p) + Len(q)
      /\ \A i \in 1..Len(p) + Len(q) : (p \o q)[i] = IF i <= Len(p) THEN p[i] ELSE q[i - Len(p)]
  OBVIOUS
<1>2. \A i \in DOMAIN p : i \in DOMAIN (p \o q) /\ (p \o q)[i] = p[i]
  BY <1>1
<1>3. \A i \in DOMAIN q : i + Len(p) \in DOMAIN (p \o q) /\ (p \o q)[i + Len(p)] = q[i]
  <2> TAKE i \in DOMAIN q
  <2>1. i + Len(p) \in 1..Len(p) + Len(q) /\ ~(i + Len(p) <= Len(p)) /\ i + Len(p) - Len(p) = i
    BY <1>1
  <2> QED BY <1>1, <2>1
<1>4. \A i \in DOMAIN (p \o q) : \/ i \in DOMAIN p /\ (p \o q)[i] = p[i]
                                 \/ i - Len(p) \in DOMAIN q /\ (p \o q)[i] = q[i - Len(p)]
  BY <1>1
<1>5. \A x : x \in ToSet(p \o q) <=> x \in ToSet(p) \/ x \in ToSet(q)
  <2> TAKE x
  <2>1. x \in ToSet(p \o q) => x \in ToSet(p) \/ x \in ToSet(q)
    BY <1>4 DEF ToSet
  <2>2. x \in ToSet(p) => x \in ToSet(p \o q)
    BY <1>2 DEF ToSet
  <2>3. x \in ToSet(q) => x \in ToSet(p \o q)
    BY <1>3 DEF ToSet
  <2> QED BY <2>1, <2>2, <2>3
<1> QED BY <1>1, <1>5

LEMMA InEmpty == ToSet(<<>>) = {}
BY DEF ToSet

LEMMA InOne == \A e : ToSet(<<e>>) = {e}
BY DEF ToSet

LEMMA OverflowType == Overflow \in Events /\ Overflow.wd \notin Dirs /\ Overflow.mask = "overflow"
<1>1. Root \in Names
  BY DEF Names, Root
<1>2. Overflow \in Events
  BY <1>1 DEF Overflow, Events, Masks
<1>3. -1 \notin Dirs
  <2>1. -1 \notin Nat
    OBVIOUS
  <2> QED BY <2>1, DirsAssumption
<1> QED BY <1>2, <1>3 DEF Overflow

\* A queue grows at its end, by an event of what is watched or by the overflow.
LEMMA QueueGrows ==
  ASSUME NEW q \in Seq(Events), NEW e \in Events
  PROVE  /\ Queue(q, e) \in Seq(Events)
         /\ ToSet(q) \subseteq ToSet(Queue(q, e))
         /\ ToSet(Queue(q, e)) \subseteq ToSet(q) \cup {e, Overflow}
         /\ e.wd \notin watched => Queue(q, e) = q
         /\ Queue(q, e) \in {q, Append(q, e), Append(q, Overflow)}
         /\ Full(q) => Full(Queue(q, e))
         /\ Full(q) /\ e.wd \in watched => {e, Overflow} \cap ToSet(Queue(q, e)) # {}
<1>1. Overflow \in Events
  BY OverflowType
<1>2. /\ Append(q, e) \in Seq(Events) /\ ToSet(Append(q, e)) = ToSet(q) \cup {e}
      /\ Append(q, Overflow) \in Seq(Events) /\ ToSet(Append(q, Overflow)) = ToSet(q) \cup {Overflow}
  BY <1>1, InAppend
<1>3. /\ Len(q) \in Nat /\ QueueSize \in Nat \ {0}
      /\ Len(Append(q, e)) = Len(q) + 1 /\ Len(Append(q, Overflow)) = Len(q) + 1
  BY BoundsAssumption
<1>4. CASE e.wd \notin watched \/ Len(q) > QueueSize
  BY <1>4 DEF Queue, Full
<1>5. CASE e.wd \in watched /\ Len(q) < QueueSize
  <2>1. Queue(q, e) = Append(q, e)
    BY <1>3, <1>5 DEF Queue
  <2>2. Full(Append(q, e))
    <3>1. Len(q) + 1 <= QueueSize /\ Len(q) + 1 <= QueueSize + 1 /\ ~(Len(q) + 1 > QueueSize)
      BY <1>3, <1>5
    <3> DEFINE r == Append(q, e)
    <3>2. Len(r) = Len(q) + 1
      BY <1>3
    <3> HIDE DEF r
    <3>3. Full(r)
      BY <3>1, <3>2 DEF Full
    <3> QED BY <3>3 DEF r
  <2> QED BY <1>2, <1>5, <2>1, <2>2
<1>6. CASE e.wd \in watched /\ Len(q) = QueueSize
  <2>1. Queue(q, e) = Append(q, Overflow)
    BY <1>3, <1>6 DEF Queue
  <2>2. Full(Append(q, Overflow))
    BY <1>2, <1>3, <1>6 DEF Full
  <2> QED BY <1>2, <1>6, <2>1, <2>2
<1> QED BY <1>3, <1>4, <1>5, <1>6

\* An event may be queued behind events, unless its directory was gone before.
Timely(events, event) ==
  event.mask = "ignored" \/ \A e \in ToSet(events) : e.mask = "self gone" => e.wd # event.wd

LEMMA AppendInOrder ==
  ASSUME NEW S, NEW q \in Seq(S), NEW g \in S, InOrder(q), Timely(q, g)
  PROVE  InOrder(Append(q, g))
<1> DEFINE r == Append(q, g)
<1>1. /\ Len(q) \in Nat /\ DOMAIN q = 1..Len(q) /\ DOMAIN r = 1..Len(q) + 1
      /\ \A i \in 1..Len(q) : r[i] = q[i]
      /\ r[Len(q) + 1] = g
  OBVIOUS
<1> HIDE DEF r
<1>2. \A i, j \in DOMAIN r : i < j => i \in DOMAIN q /\ (j \in DOMAIN q \/ j = Len(q) + 1)
  BY <1>1
<1>3. \A i \in DOMAIN q : r[i] = q[i]
  BY <1>1
<1>4. ASSUME NEW i \in DOMAIN r, NEW j \in DOMAIN r, i < j, r[i].mask = "self gone", r[i].wd = r[j].wd
      PROVE  r[j].mask = "ignored"
  <2>1. i \in DOMAIN q /\ r[i] = q[i] /\ (j \in DOMAIN q \/ j = Len(q) + 1)
    BY <1>2, <1>3, <1>4
  <2>2. CASE j \in DOMAIN q
    BY <1>3, <1>4, <2>1, <2>2 DEF InOrder
  <2>3. CASE j = Len(q) + 1
    <3>1. q[i] \in ToSet(q) /\ r[j] = g
      BY <1>1, <2>1, <2>3 DEF ToSet
    <3>2. q[i].mask = "self gone" /\ q[i].wd = g.wd
      BY <1>4, <2>1, <3>1
    <3>3. g.mask = "ignored"
      BY <3>1, <3>2, Zenon DEF Timely
    <3> QED BY <3>1, <3>3, Zenon
  <2> QED BY <2>1, <2>2, <2>3
<1>5. InOrder(r)
  BY <1>4 DEF InOrder
<1> QED BY <1>5 DEF r

LEMMA QueueInOrder ==
  ASSUME NEW q \in Seq(Events), InOrder(q), NEW e \in Events, Timely(q, e),
         \A f \in ToSet(q) : f.mask = "self gone" => f.wd \in Dirs
  PROVE  InOrder(Queue(q, e))
<1>1. Overflow \in Events /\ Timely(q, Overflow)
  BY OverflowType DEF Timely
<1>2. InOrder(Append(q, e)) /\ InOrder(Append(q, Overflow))
  BY <1>1, AppendInOrder
<1>3. Queue(q, e) \in {q, Append(q, e), Append(q, Overflow)}
  BY QueueGrows
<1> QED BY <1>2, <1>3

\* Each directory is listed.
LEMMA AllListed ==
  ASSUME NEW S, S \subseteq Dirs, NEW rows \in SetToSeqs(S)
  PROVE  rows \in Seq(S) /\ \A dir \in S : \E i \in DOMAIN rows : rows[i] = dir
<1> DEFINE n == Cardinality(S)
<1>1. IsFiniteSet(S) /\ n \in Nat
  BY DirsAssumption, FS_Subset, FS_CardinalityType
<1>2. IsFiniteSet(1..n) /\ Cardinality(1..n) = n
  BY <1>1, FS_Interval
<1>3. rows \in [1..n -> S] /\ \A i, j \in 1..n : i # j => rows[i] # rows[j]
  BY DEF SetToSeqs
<1> HIDE DEF n
<1>4. rows \in Surjection(1..n, S)
  <2>1. rows \in Injection(1..n, S)
    BY <1>3 DEF Injection, IsInjective
  <2> QED BY <1>1, <1>2, <2>1, FS_Injection DEF n
<1>5. \A dir \in S : \E i \in DOMAIN rows : rows[i] = dir
  BY <1>3, <1>4 DEF Surjection
<1>6. rows \in Seq(S)
  BY <1>1, <1>3
<1> QED BY <1>5, <1>6

-----------------------------------------------------------------------------
(* Directories *)

LEMMA PathTypes ==
  /\ Paths \subseteq Names /\ Root \in Paths /\ Marks \cap Paths = {}
  /\ Ignored \subseteq Paths /\ Root \notin Ignored
  /\ \A path \in Paths \ {Root} : Front(path) \in Paths
<1>1. Root \in Names
  BY DEF Root, Names
<1>2. Paths \subseteq Names
  <2> SUFFICES ASSUME NEW path \in Paths PROVE path \in Names
    OBVIOUS
  <2>1. path = Root \/ path \in Seq(STRING)
    BY PathsAssumption
  <2> QED BY <1>1, <2>1 DEF Names
<1> QED BY <1>1, <1>2, PathsAssumption, IgnoredAssumption DEF Marks

\* The directory of a path.
LEMMA Parents ==
  ASSUME TypeOK, TreeInv, NEW path \in Paths \ {Root}, At(Front(path)) # {}
  PROVE  /\ Parent(path) \in Dirs /\ At(Front(path)) = {Parent(path)}
         /\ InTree(Parent(path)) /\ where[Parent(path)] = Front(path)
         /\ Noted(path) \subseteq {Parent(path)}
<1>1. Front(path) \in Paths
  BY PathTypes
<1>2. Parent(path) \in At(Front(path))
  BY DEF Parent
<1>3. Parent(path) \in Dirs /\ where[Parent(path)] = Front(path) /\ InTree(Parent(path))
  BY <1>1, <1>2 DEF At, InTree
<1>4. \A dir \in At(Front(path)) : dir = Parent(path)
  BY <1>3 DEF At, TreeInv, InTree
<1> QED BY <1>2, <1>3, <1>4 DEF Noted

LEMMA ParentOfDir ==
  ASSUME TypeOK, TreeInv, NEW dir \in Dirs, InTree(dir), where[dir] # Root
  PROVE  /\ where[dir] \in Paths \ {Root} /\ At(Front(where[dir])) # {}
         /\ <<Last(where[dir])>> \in Names
<1>1. where[dir] \in Names /\ where[dir] \in Paths \ {Root}
  BY PathTypes DEF InTree
<1>2. /\ Len(where[dir]) \in Nat \ {0} /\ Front(where[dir]) = SubSeq(where[dir], 1, Len(where[dir]) - 1)
      /\ <<Last(where[dir])>> \in Names
  BY <1>1, FrontAndLast
<1>3. Len(where[dir]) - 1 \in 0..Len(where[dir])
  BY <1>2
<1>4. PICK above \in Dirs : where[above] = SubSeq(where[dir], 1, Len(where[dir]) - 1)
  BY <1>3 DEF TreeInv
<1> QED BY <1>1, <1>2, <1>4 DEF At

-----------------------------------------------------------------------------
(* What is queued *)

\* What the kernel holds after events were queued.
Posted(q, events) ==
  /\ q \in Seq(Events)
  /\ ToSet(kernel) \subseteq ToSet(q)
  /\ \A e \in ToSet(q) : e \in ToSet(kernel) \/ e = Overflow \/ (e \in events /\ e.wd \in watched)
  /\ \A e \in events : e.wd \in watched => {e, Overflow} \cap ToSet(q) # {}
  /\ Full(q) /\ InOrder(q)

LEMMA PostedNone ==
  ASSUME TypeOK, KnownInv
  PROVE  Posted(kernel, {})
BY DEF TypeOK, KnownInv, Posted

LEMMA PostedOne ==
  ASSUME KnownInv, watched \subseteq Dirs,
         NEW q, NEW events \in SUBSET Events, Posted(q, events), NEW e \in Events,
         e.mask = "ignored" \/ \A f \in events : f.mask # "self gone"
  PROVE  Posted(Queue(q, e), events \cup {e})
<1>1. q \in Seq(Events) /\ Full(q) /\ InOrder(q)
  BY DEF Posted
<1> DEFINE r == Queue(q, e)
<1>2. /\ r \in Seq(Events) /\ ToSet(q) \subseteq ToSet(r)
      /\ ToSet(r) \subseteq ToSet(q) \cup {e, Overflow}
      /\ e.wd \notin watched => r = q
      /\ Full(r)
      /\ e.wd \in watched => {e, Overflow} \cap ToSet(r) # {}
  BY <1>1, QueueGrows
<1>3. \A f \in ToSet(q) : f.mask = "self gone" => f.wd \in Dirs
  <2> SUFFICES ASSUME NEW f \in ToSet(q), f.mask = "self gone" PROVE f.wd \in Dirs
    OBVIOUS
  <2>1. f \in ToSet(kernel) \/ f = Overflow \/ (f \in events /\ f.wd \in watched)
    BY DEF Posted
  <2>2. f # Overflow
    BY OverflowType
  <2>3. f \in ToSet(kernel) => f.wd \in Dirs
    BY DEF KnownInv, EventKnown
  <2> QED BY <2>1, <2>2, <2>3
<1>4. InOrder(r)
  <2>1. CASE e.wd \notin watched
    BY <1>1, <1>2, <2>1
  <2>2. CASE e.wd \in watched
    <3>1. Timely(q, e)
      <4>1. CASE e.mask = "ignored"
        BY <4>1 DEF Timely
      <4>2. CASE \A f \in events : f.mask # "self gone"
        <5>1. \A f \in ToSet(q) : f.mask = "self gone" => f \in ToSet(kernel)
          BY <4>2, OverflowType DEF Posted
        <5>2. \A f \in ToSet(kernel) : f.mask = "self gone" => f.wd \notin watched
          BY DEF KnownInv, EventKnown
        <5> QED BY <2>2, <5>1, <5>2 DEF Timely
      <4> QED BY <4>1, <4>2
    <3> QED BY <1>1, <1>3, <3>1, QueueInOrder
  <2> QED BY <2>1, <2>2
<1>5. ToSet(kernel) \subseteq ToSet(r)
  BY <1>2 DEF Posted
<1>6. \A f \in ToSet(r) : f \in ToSet(kernel) \/ f = Overflow \/ (f \in events \cup {e} /\ f.wd \in watched)
  <2> HIDE DEF r
  <2> TAKE f \in ToSet(r)
  <2>1. CASE f \in ToSet(q)
    BY <2>1 DEF Posted
  <2>2. CASE f \notin ToSet(q)
    BY <1>2, <2>2
  <2> QED BY <2>1, <2>2
<1>7. \A f \in events \cup {e} : f.wd \in watched => {f, Overflow} \cap ToSet(r) # {}
  <2> HIDE DEF r
  <2> QED BY <1>2 DEF Posted
<1> QED BY <1>2, <1>4, <1>5, <1>6, <1>7 DEF Posted

LEMMA EventTypes ==
  ASSUME NEW dir \in Dirs, NEW mask \in Masks, NEW path \in Names
  PROVE  Event(dir, mask, path) \in Events
BY DEF Event, Events

LEMMA TouchPosts ==
  ASSUME TypeOK, KnownInv, NEW dir \in Dirs, Touch(dir)
  PROVE  Posted(kernel', {Event(dir, "file", Root)})
<1>1. Event(dir, "file", Root) \in Events
  BY EventTypes, PathTypes DEF Masks
<1>2. Posted(Queue(kernel, Event(dir, "file", Root)), {} \cup {Event(dir, "file", Root)})
  <2>1. Posted(kernel, {})
    BY PostedNone
  <2> QED BY <1>1, <2>1, PostedOne DEF TypeOK
<1> QED BY <1>2 DEF Touch

LEMMA MakeDirPosts ==
  ASSUME TypeOK, TreeInv, KnownInv, NEW dir \in Dirs, NEW path \in Paths, MakeDir(dir, path)
  PROVE  Posted(kernel', {Event(Parent(path), "new directory", <<Last(path)>>)})
<1> DEFINE e == Event(Parent(path), "new directory", <<Last(path)>>)
<1>1. path \in Names /\ path # Root /\ Parent(path) \in Dirs
  BY Parents, PathTypes DEF MakeDir, Free
<1>2. e \in Events
  <2>1. <<Last(path)>> \in Names
    BY <1>1, FrontAndLast
  <2> QED BY <1>1, <2>1, EventTypes DEF Masks
<1>3. kernel' = Queue(kernel, e)
  BY DEF MakeDir
<1> HIDE DEF e
<1>4. Posted(Queue(kernel, e), {} \cup {e})
  <2>1. Posted(kernel, {})
    BY PostedNone
  <2> QED BY <1>2, <2>1, PostedOne DEF TypeOK
<1> QED BY <1>3, <1>4 DEF e

LEMMA RemoveDirPosts ==
  ASSUME TypeOK, TreeInv, KnownInv, NEW dir \in Dirs, RemoveDir(dir)
  PROVE  Posted(kernel', {Event(Parent(where[dir]), "directory gone", <<Last(where[dir])>>)})
<1> DEFINE e == Event(Parent(where[dir]), "directory gone", <<Last(where[dir])>>)
<1>1. /\ where[dir] \in Paths \ {Root} /\ At(Front(where[dir])) # {}
      /\ <<Last(where[dir])>> \in Names
  BY ParentOfDir DEF RemoveDir
<1>2. Parent(where[dir]) \in Dirs
  BY <1>1, Parents
<1>3. e \in Events
  BY <1>1, <1>2, EventTypes DEF Masks
<1>4. kernel' = Queue(kernel, e)
  BY DEF RemoveDir
<1> HIDE DEF e
<1>5. Posted(Queue(kernel, e), {} \cup {e})
  <2>1. Posted(kernel, {})
    BY PostedNone
  <2> QED BY <1>3, <2>1, PostedOne DEF TypeOK
<1> QED BY <1>4, <1>5 DEF e

LEMMA FreeDirPosts ==
  ASSUME TypeOK, KnownInv, NEW dir \in Dirs, FreeDir(dir)
  PROVE  Posted(kernel', {Event(dir, "self gone", Root), Event(dir, "ignored", Root)})
<1> DEFINE e == Event(dir, "self gone", Root)
           f == Event(dir, "ignored", Root)
<1>1. e \in Events /\ f \in Events /\ f.mask = "ignored"
  BY EventTypes, PathTypes DEF Masks, Event
<1>2. kernel' = Queue(Queue(kernel, e), f)
  BY DEF FreeDir
<1> HIDE DEF e, f
<1>3. Posted(Queue(kernel, e), {} \cup {e})
  <2>1. Posted(kernel, {})
    BY PostedNone
  <2> QED BY <1>1, <2>1, PostedOne DEF TypeOK
<1>4. Posted(Queue(kernel, e), {e})
  BY <1>3
<1>5. Posted(Queue(Queue(kernel, e), f), {e} \cup {f})
  BY <1>1, <1>4, PostedOne DEF TypeOK
<1>6. {e} \cup {f} = {e, f}
  OBVIOUS
<1> QED BY <1>2, <1>5, <1>6 DEF e, f

\* Of a directory that is renamed its old parent, its new one and it itself tell.
LEMMA RenameDirPosts ==
  ASSUME TypeOK, TreeInv, KnownInv, NEW dir \in Dirs, NEW path \in Paths, RenameDir(dir, path)
  PROVE  Posted(kernel', {Event(Parent(where[dir]), "moved away", <<Last(where[dir])>>),
                          Event(Parent(path), "new directory", <<Last(path)>>),
                          Event(dir, "self moved", Root)})
<1> DEFINE e == Event(Parent(where[dir]), "moved away", <<Last(where[dir])>>)
           f == Event(Parent(path), "new directory", <<Last(path)>>)
           g == Event(dir, "self moved", Root)
<1>1. e \in Events
  <2>1. /\ where[dir] \in Paths \ {Root} /\ At(Front(where[dir])) # {}
        /\ <<Last(where[dir])>> \in Names
    BY ParentOfDir DEF RenameDir
  <2>2. Parent(where[dir]) \in Dirs
    BY <2>1, Parents
  <2> QED BY <2>1, <2>2, EventTypes DEF Masks
<1>2. f \in Events
  <2>1. path \in Names /\ path # Root /\ Parent(path) \in Dirs
    BY Parents, PathTypes DEF RenameDir, Free
  <2>2. <<Last(path)>> \in Names
    BY <2>1, FrontAndLast
  <2> QED BY <2>1, <2>2, EventTypes DEF Masks
<1>3. g \in Events
  BY EventTypes, PathTypes DEF Masks
<1>4. kernel' = Queue(Queue(Queue(kernel, e), f), g)
  BY DEF RenameDir
<1>5. e.mask # "self gone" /\ f.mask # "self gone"
  BY DEF Event
<1> HIDE DEF e, f, g
<1>6. Posted(Queue(kernel, e), {e})
  <2>1. Posted(kernel, {})
    BY PostedNone
  <2>2. Posted(Queue(kernel, e), {} \cup {e})
    BY <1>1, <2>1, PostedOne DEF TypeOK
  <2> QED BY <2>2
<1>7. Posted(Queue(Queue(kernel, e), f), {e, f})
  <2>1. Posted(Queue(Queue(kernel, e), f), {e} \cup {f})
    BY <1>1, <1>2, <1>5, <1>6, PostedOne DEF TypeOK
  <2>2. {e} \cup {f} = {e, f}
    OBVIOUS
  <2> QED BY <2>1, <2>2
<1>8. Posted(Queue(Queue(Queue(kernel, e), f), g), {e, f} \cup {g})
  BY <1>1, <1>2, <1>3, <1>5, <1>7, PostedOne DEF TypeOK
<1>9. {e, f} \cup {g} = {e, f, g}
  OBVIOUS
<1> QED BY <1>4, <1>8, <1>9 DEF e, f, g

-----------------------------------------------------------------------------
(* Type correctness *)

LEMMA InitType ==
  ASSUME Init
  PROVE  TypeOK
<1>1. where \in [Dirs -> Paths \cup Marks]
  BY TreesAssumption DEF Init, Marks
<1>2. kernel \in Seq(Events) /\ watched \subseteq Dirs
  BY DEF Init
<1>3. DOMAIN watches \subseteq Dirs /\ \A dir \in DOMAIN watches : watches[dir] \in Names
  BY DEF Init
<1>4. adding \in Seq(Tasks)
  <2>1. Task("add", Root) \in Tasks
    BY PathTypes DEF Task, Tasks
  <2> QED BY <2>1 DEF Init
<1>5. scanQ \in Seq(Names)
  BY PathTypes DEF Init
<1> QED BY <1>1, <1>2, <1>3, <1>4, <1>5 DEF Init, TypeOK, Masks

LEMMA WhereType ==
  ASSUME TypeOK, NEW dir \in Dirs, InTree(dir)
  PROVE  where[dir] \in Paths /\ where[dir] \in Names /\ where[dir] \notin Marks
BY PathTypes DEF InTree

\* The full path of an event.
LEMMA FullPathType ==
  ASSUME TypeOK, NEW e \in Events, e.wd \in DOMAIN watches
  PROVE  watches[e.wd] \o e.path \in Names
<1>1. watches[e.wd] \in Names /\ e.path \in Names
  BY DEF TypeOK, Events
<1> QED BY <1>1 DEF Names

LEMMA KernelHead ==
  ASSUME TypeOK, kernel # <<>>
  PROVE  /\ Head(kernel) \in Events /\ Tail(kernel) \in Seq(Events)
         /\ ToSet(kernel) = {Head(kernel)} \cup ToSet(Tail(kernel))
BY InTail DEF TypeOK

LEMMA AddingHead ==
  ASSUME TypeOK, adding # <<>>
  PROVE  /\ Head(adding) \in Tasks /\ Tail(adding) \in Seq(Tasks)
         /\ ToSet(adding) = {Head(adding)} \cup ToSet(Tail(adding))
         /\ Head(adding).path \in Names
<1>1. /\ Head(adding) \in Tasks /\ Tail(adding) \in Seq(Tasks)
      /\ ToSet(adding) = {Head(adding)} \cup ToSet(Tail(adding))
  BY InTail DEF TypeOK
<1> QED BY <1>1 DEF Tasks

LEMMA ScanHead ==
  ASSUME TypeOK, scanQ # <<>>
  PROVE  /\ Head(scanQ) \in Names /\ Tail(scanQ) \in Seq(Names)
         /\ ToSet(scanQ) = {Head(scanQ)} \cup ToSet(Tail(scanQ))
BY InTail DEF TypeOK

\* What add_watch does next.
LEMMA AddWatchTasks ==
  ASSUME TypeOK, AddWatch
  PROVE  /\ adding' \in Seq(Tasks)
         /\ ToSet(adding') = ToSet(Tail(adding)) \cup
              (IF At(Head(adding).path) # {} /\ recursive THEN {Task("list", Head(adding).path)} ELSE {})
         /\ DOMAIN watches' = DOMAIN watches \cup At(Head(adding).path)
         /\ \A dir \in DOMAIN watches : watches'[dir] = watches[dir]
         /\ \A dir \in At(Head(adding).path) : dir \notin DOMAIN watches => watches'[dir] = Head(adding).path
<1> DEFINE path == Head(adding).path
           task == Task("list", path)
<1>1. Tail(adding) \in Seq(Tasks) /\ path \in Names
  BY AddingHead DEF AddWatch, Adds
<1>2. task \in Tasks
  BY <1>1 DEF Task, Tasks
<1>3. adding' = IF At(path) # {} /\ recursive THEN <<task>> \o Tail(adding) ELSE Tail(adding)
  BY DEF AddWatch
<1>4. watches' = [dir \in DOMAIN watches \cup At(path) |-> IF dir \in DOMAIN watches THEN watches[dir] ELSE path]
  BY DEF AddWatch
<1> HIDE DEF path, task
<1> DEFINE one == <<task>>
<1>5. one \in Seq(Tasks) /\ ToSet(one) = {task}
  BY <1>2, InOne
<1>6. one \o Tail(adding) \in Seq(Tasks) /\ ToSet(one \o Tail(adding)) = {task} \cup ToSet(Tail(adding))
  <2> DEFINE rest == Tail(adding)
  <2>1. rest \in Seq(Tasks) /\ one \in Seq(Tasks)
    BY <1>1, <1>5
  <2> HIDE DEF one, rest
  <2>2. ToSet(one \o rest) = ToSet(one) \cup ToSet(rest) /\ one \o rest \in Seq(Tasks)
    BY <2>1, InConcat
  <2> QED BY <1>5, <2>2 DEF rest
<1>7. /\ adding' \in Seq(Tasks)
      /\ ToSet(adding') = ToSet(Tail(adding)) \cup (IF At(path) # {} /\ recursive THEN {task} ELSE {})
  BY <1>1, <1>3, <1>6
<1>8. /\ DOMAIN watches' = DOMAIN watches \cup At(path)
      /\ \A dir \in DOMAIN watches : watches'[dir] = watches[dir]
      /\ \A dir \in At(path) : dir \notin DOMAIN watches => watches'[dir] = path
  BY <1>4
<1> QED BY <1>7, <1>8 DEF path, task

LEMMA ListTasks ==
  ASSUME TypeOK, ListWatched
  PROVE  /\ adding' \in Seq(Tasks)
         /\ ToSet(adding') = ToSet(Tail(adding)) \cup {Task("add", where[dir]) : dir \in Children(Head(adding).path)}
<1> DEFINE S == Children(Head(adding).path)
<1>1. PICK dirs \in SetToSeqs(S) : adding' = [i \in DOMAIN dirs |-> Task("add", where[dirs[i]])] \o Tail(adding)
  BY DEF ListWatched
<1>2. S \subseteq Dirs
  BY DEF Children
<1>3. \A dir \in S : Task("add", where[dir]) \in Tasks
  BY WhereType DEF Children, Task, Tasks
<1> HIDE DEF S
<1>4. dirs \in Seq(S) /\ \A dir \in S : \E i \in DOMAIN dirs : dirs[i] = dir
  BY <1>2, AllListed
<1> DEFINE new == [i \in DOMAIN dirs |-> Task("add", where[dirs[i]])]
<1>5. Len(dirs) \in Nat /\ DOMAIN dirs = 1..Len(dirs) /\ \A i \in DOMAIN dirs : dirs[i] \in S
  BY <1>4
<1>6. DOMAIN new = DOMAIN dirs /\ \A i \in DOMAIN dirs : new[i] = Task("add", where[dirs[i]])
  OBVIOUS
<1>7. new \in Seq(Tasks)
  BY <1>3, <1>5
<1> HIDE DEF new
<1>8. ToSet(new) = {Task("add", where[dir]) : dir \in S}
  <2>1. ASSUME NEW x \in ToSet(new) PROVE x \in {Task("add", where[dir]) : dir \in S}
    <3>1. PICK i \in DOMAIN new : x = new[i]
      BY DEF ToSet
    <3> QED BY <1>5, <1>6, <3>1
  <2>2. ASSUME NEW dir \in S PROVE Task("add", where[dir]) \in ToSet(new)
    <3>1. PICK i \in DOMAIN dirs : dirs[i] = dir
      BY <1>4
    <3> QED BY <1>6, <3>1 DEF ToSet
  <2> QED BY <2>1, <2>2
<1>9. Tail(adding) \in Seq(Tasks)
  BY AddingHead DEF ListWatched, Adds
<1>10. new \o Tail(adding) \in Seq(Tasks) /\ ToSet(new \o Tail(adding)) = ToSet(new) \cup ToSet(Tail(adding))
  <2> DEFINE rest == Tail(adding)
  <2>1. rest \in Seq(Tasks)
    BY <1>9
  <2> HIDE DEF rest
  <2>2. new \o rest \in Seq(Tasks) /\ ToSet(new \o rest) = ToSet(new) \cup ToSet(rest)
    BY <1>7, <2>1, InConcat
  <2> QED BY <2>2 DEF rest
<1> QED BY <1>1, <1>8, <1>10 DEF new, S

\* What a scan goes on with.
LEMMA ScanTasks ==
  ASSUME TypeOK, scanQ # <<>>, NEW S \in SUBSET Children(Head(scanQ)), GoesOn(S)
  PROVE  scanQ' \in Seq(Names) /\ ToSet(scanQ') = ToSet(Tail(scanQ)) \cup {where[dir] : dir \in S}
<1>1. PICK dirs \in SetToSeqs(S) : scanQ' = [i \in DOMAIN dirs |-> where[dirs[i]]] \o Tail(scanQ)
  BY DEF GoesOn
<1>2. S \subseteq Dirs
  BY DEF Children
<1>3. \A dir \in S : where[dir] \in Names
  BY WhereType DEF Children
<1>4. dirs \in Seq(S) /\ \A dir \in S : \E i \in DOMAIN dirs : dirs[i] = dir
  BY <1>2, AllListed
<1> DEFINE new == [i \in DOMAIN dirs |-> where[dirs[i]]]
<1>5. Len(dirs) \in Nat /\ DOMAIN dirs = 1..Len(dirs) /\ \A i \in DOMAIN dirs : dirs[i] \in S
  BY <1>4
<1>6. DOMAIN new = DOMAIN dirs /\ \A i \in DOMAIN dirs : new[i] = where[dirs[i]]
  OBVIOUS
<1>7. new \in Seq(Names)
  BY <1>3, <1>5
<1> HIDE DEF new
<1>8. ToSet(new) = {where[dir] : dir \in S}
  <2>1. ASSUME NEW x \in ToSet(new) PROVE x \in {where[dir] : dir \in S}
    <3>1. PICK i \in DOMAIN new : x = new[i]
      BY DEF ToSet
    <3> QED BY <1>5, <1>6, <3>1
  <2>2. ASSUME NEW dir \in S PROVE where[dir] \in ToSet(new)
    <3>1. PICK i \in DOMAIN dirs : dirs[i] = dir
      BY <1>4
    <3> QED BY <1>6, <3>1 DEF ToSet
  <2> QED BY <2>1, <2>2
<1>9. Tail(scanQ) \in Seq(Names)
  BY ScanHead
<1>10. new \o Tail(scanQ) \in Seq(Names) /\ ToSet(new \o Tail(scanQ)) = ToSet(new) \cup ToSet(Tail(scanQ))
  <2> DEFINE rest == Tail(scanQ)
  <2>1. rest \in Seq(Names)
    BY <1>9
  <2> HIDE DEF rest
  <2>2. new \o rest \in Seq(Names) /\ ToSet(new \o rest) = ToSet(new) \cup ToSet(rest)
    BY <1>7, <2>1, InConcat
  <2> QED BY <2>2 DEF rest
<1> QED BY <1>1, <1>8, <1>10 DEF new

\* The directories that a scan lists, and the others.
ScanOn == IF recursive /\ At(Head(scanQ)) # {} THEN Children(Head(scanQ)) ELSE {}

LEMMA ScanListsTasks ==
  ASSUME TypeOK, ScanLists
  PROVE  /\ scanQ # <<>> /\ scanQ' \in Seq(Names)
         /\ ToSet(scanQ') = ToSet(Tail(scanQ)) \cup {where[dir] : dir \in ScanOn}
<1>1. scanQ # <<>> /\ ScanOn \in SUBSET Children(Head(scanQ)) /\ GoesOn(ScanOn)
  BY DEF ScanLists, ScanOn
<1> QED BY <1>1, ScanTasks

LEMMA ScanFailsTasks ==
  ASSUME TypeOK, ScanFails
  PROVE  /\ scanQ # <<>> /\ scanQ' \in Seq(Names)
         /\ \E dirs \in SUBSET Children(Head(scanQ)) :
              /\ ToSet(scanQ') = ToSet(Tail(scanQ)) \cup {where[dir] : dir \in dirs}
              /\ early' = early \cup At(Head(scanQ)) \cup
                            UNION {Below(where[dir]) : dir \in Children(Head(scanQ)) \ dirs}
<1>1. PICK dirs \in SUBSET Children(Head(scanQ)) :
        /\ GoesOn(dirs)
        /\ early' = early \cup At(Head(scanQ)) \cup UNION {Below(where[dir]) : dir \in Children(Head(scanQ)) \ dirs}
  BY DEF ScanFails
<1>2. scanQ # <<>>
  BY DEF ScanFails
<1> QED BY <1>1, <1>2, ScanTasks

\* Where the directories are after one was renamed.
LEMMA Renamed ==
  ASSUME TypeOK, TreeInv, NEW dir \in Dirs, NEW path \in Paths, RenameDir(dir, path)
  PROVE  /\ where[dir] \in Paths \ {Root} /\ where[dir] \in Names /\ path \in Names /\ dir \in Below(where[dir])
         /\ \A below \in Below(where[dir]) :
              /\ below \in Dirs /\ InTree(below) /\ where[below] \in Names /\ IsPrefix(where[dir], where[below])
              /\ where'[below] = Move(where[dir], path, where[below]) /\ where'[below] \in Paths
         /\ \A other \in Dirs \ Below(where[dir]) : where'[other] = where[other]
         /\ DOMAIN where' = Dirs
         /\ where'[dir] = path
<1> DEFINE from == where[dir]
           moved(below) == path \o SubSeq(where[below], Len(from) + 1, Len(where[below]))
<1>1. from \in Paths \ {Root} /\ from \in Names /\ path \in Names
  BY WhereType, PathTypes DEF RenameDir
<1>2. /\ \A below \in Below(from) : moved(below) \in Paths
      /\ where' = [below \in Dirs |-> IF below \in Below(from) THEN moved(below) ELSE where[below]]
  BY DEF RenameDir
<1>3. \A below \in Below(from) : below \in Dirs /\ InTree(below) /\ where[below] \in Names /\ IsPrefix(from, where[below])
  BY WhereType DEF Below
<1>4. \A below \in Dirs : moved(below) = Move(from, path, where[below])
  BY DEF Move
<1>5. dir \in Below(from)
  BY <1>1, PrefixReflexive DEF Below, InTree
<1>6. Move(from, path, from) = path
  BY <1>1, PrefixReflexive, MoveStart
<1> HIDE DEF moved
<1>7. \A below \in Below(from) : where'[below] = Move(from, path, where[below]) /\ where'[below] \in Paths
  BY <1>2, <1>3, <1>4
<1>8. DOMAIN where' = Dirs /\ \A other \in Dirs \ Below(from) : where'[other] = where[other]
  BY <1>2
<1> QED BY <1>1, <1>3, <1>5, <1>6, <1>7, <1>8

\* The new directory is scanned and watched.
LEMMA WatchNewTasks ==
  ASSUME TypeOK, WatchNew
  PROVE  /\ FullPath \in Names
         /\ scanQ' \in Seq(Names) /\ ToSet(scanQ') = ToSet(scanQ) \cup {FullPath}
         /\ adding' \in Seq(Tasks) /\ ToSet(adding') = {Task("add", FullPath)}
<1> DEFINE path == FullPath
           task == Task("add", FullPath)
<1>1. path \in Names
  BY KernelHead, FullPathType DEF WatchNew, Takes, Known, FullPath
<1>2. task \in Tasks
  BY <1>1 DEF Task, Tasks
<1>3. scanQ' = Append(scanQ, path) /\ adding' = <<task>> /\ scanQ \in Seq(Names)
  BY DEF WatchNew, TypeOK
<1> HIDE DEF path, task
<1>4. Append(scanQ, path) \in Seq(Names) /\ ToSet(Append(scanQ, path)) = ToSet(scanQ) \cup {path}
  BY <1>1, <1>3, InAppend
<1>5. adding' \in Seq(Tasks) /\ ToSet(adding') = {task}
  BY <1>2, <1>3, InOne
<1> QED BY <1>1, <1>3, <1>4, <1>5 DEF path, task

LEMMA TypeNext ==
  ASSUME TypeOK, TreeInv, KnownInv, [Next]_vars
  PROVE  TypeOK'
<1>1. ASSUME NEW dir \in Dirs, Touch(dir) PROVE TypeOK'
  <2>1. kernel' \in Seq(Events)
    BY <1>1, TouchPosts DEF Posted
  <2> QED BY <1>1, <2>1 DEF TypeOK, Touch, Changed, watchVars
<1>2. ASSUME NEW dir \in Dirs, NEW path \in Paths, MakeDir(dir, path) PROVE TypeOK'
  <2>1. kernel' \in Seq(Events)
    BY <1>2, MakeDirPosts DEF Posted
  <2>2. Parent(path) \in Dirs /\ Noted(path) \subseteq Dirs
    BY <1>2, Parents DEF MakeDir, Free
  <2>3. early' \subseteq Dirs
    <3>1. At(Front(path)) \subseteq Dirs
      BY DEF At
    <3> QED BY <1>2, <3>1 DEF TypeOK, MakeDir
  <2>4. where' \in [Dirs -> Paths \cup Marks]
    BY <1>2 DEF TypeOK, MakeDir
  <2>5. /\ changes' = changes + 1 /\ unseen' = unseen \cup Noted(path) /\ stray' \subseteq stray \cup {dir}
        /\ UNCHANGED <<recursive, watched, watches, adding, cause, scanQ, listed>>
    BY <1>2 DEF MakeDir, Changed, watchVars
  <2> QED BY <2>1, <2>2, <2>3, <2>4, <2>5 DEF TypeOK
<1>3. ASSUME NEW dir \in Dirs, RemoveDir(dir) PROVE TypeOK'
  <2>1. kernel' \in Seq(Events)
    BY <1>3, RemoveDirPosts DEF Posted
  <2>2. Noted(where[dir]) \subseteq Dirs
    BY <1>3, ParentOfDir, Parents DEF RemoveDir
  <2>3. early' \subseteq Dirs
    BY <1>3 DEF TypeOK, RemoveDir, At
  <2>4. where' \in [Dirs -> Paths \cup Marks]
    BY <1>3 DEF TypeOK, RemoveDir, Marks
  <2>5. /\ changes' = changes + 1 /\ unseen' = unseen \cup Noted(where[dir]) /\ stray' = stray
        /\ UNCHANGED <<recursive, watched, watches, adding, cause, scanQ, listed>>
    BY <1>3 DEF RemoveDir, Changed, watchVars
  <2> QED BY <2>1, <2>2, <2>3, <2>4, <2>5 DEF TypeOK
<1>4. ASSUME NEW dir \in Dirs, FreeDir(dir) PROVE TypeOK'
  <2>1. kernel' \in Seq(Events)
    BY <1>4, FreeDirPosts DEF Posted
  <2> QED BY <1>4, <2>1 DEF TypeOK, FreeDir, fsVars, watchVars
<1>5. ASSUME NEW dir \in Dirs, NEW path \in Paths, RenameDir(dir, path) PROVE TypeOK'
  <2>1. kernel' \in Seq(Events)
    BY <1>5, RenameDirPosts DEF Posted
  <2>2. Noted(where[dir]) \subseteq Dirs /\ Noted(path) \subseteq Dirs
    <3>1. where[dir] \in Paths \ {Root} /\ At(Front(where[dir])) # {}
      BY <1>5, ParentOfDir DEF RenameDir
    <3>2. path \in Paths \ {Root} /\ At(Front(path)) # {}
      BY <1>5 DEF RenameDir, Free
    <3> QED BY <3>1, <3>2, Parents
  <2>3. early' \subseteq Dirs /\ Below(where[dir]) \subseteq Dirs
    BY <1>5 DEF TypeOK, RenameDir, At, Below
  <2>4. where' \in [Dirs -> Paths \cup Marks]
    <3>1. \A d \in Dirs : where'[d] \in Paths \cup Marks
      BY <1>5, Renamed DEF TypeOK
    <3>2. where' = [below \in Dirs |-> where'[below]]
      BY <1>5 DEF RenameDir
    <3> QED BY <3>1, <3>2
  <2>5. /\ changes' = changes + 1 /\ unseen' = unseen \cup (Noted(where[dir]) \cup Noted(path)) /\ stray' = stray \cup Below(where[dir])
        /\ UNCHANGED <<recursive, watched, watches, adding, cause, scanQ, listed>>
    BY <1>5 DEF RenameDir, Changed, watchVars
  <2> QED BY <2>1, <2>2, <2>3, <2>4, <2>5 DEF TypeOK
<1>6. CASE AddWatch
  <2>1. adding' \in Seq(Tasks) /\ DOMAIN watches' \subseteq Dirs /\ watched' \subseteq Dirs
    BY <1>6, AddWatchTasks DEF TypeOK, At, AddWatch
  <2>2. \A dir \in DOMAIN watches' : watches'[dir] \in Names
    BY <1>6, AddWatchTasks, AddingHead DEF TypeOK, AddWatch, Adds
  <2> QED BY <1>6, <2>1, <2>2 DEF TypeOK, AddWatch, disk, fsVars
<1>7. CASE ListWatched
  BY <1>7, ListTasks DEF TypeOK, ListWatched, disk, fsVars
<1>8. CASE AddWatchFails
  <2>1. adding' \in Seq(Tasks) /\ Below(Head(adding).path) \subseteq Dirs
    BY <1>8, AddingHead DEF AddWatchFails, Adds, Below
  <2> QED BY <1>8, <2>1 DEF TypeOK, AddWatchFails
<1>9. CASE WatchSkips
  BY <1>9, KernelHead DEF TypeOK, WatchSkips, Takes, disk, fsVars, watchVars
<1>10. CASE WatchThrows
  <2>1. Head(kernel).mask \in Masks /\ Tail(kernel) \in Seq(Events)
    BY <1>10, KernelHead DEF WatchThrows, Takes, Events
  <2> QED BY <1>10, <2>1 DEF TypeOK, WatchThrows, Takes, disk, fsVars, watchVars
<1>11. CASE WatchSelfGone
  BY <1>11, KernelHead DEF TypeOK, WatchSelfGone, Takes, disk, fsVars, watchVars
<1>12. CASE WatchNew
  <2>1. Tail(kernel) \in Seq(Events)
    BY <1>12, KernelHead DEF WatchNew, Takes
  <2>2. scanQ' \in Seq(Names) /\ adding' \in Seq(Tasks)
    BY <1>12, WatchNewTasks
  <2>3. unseen' \subseteq unseen
    BY <1>12 DEF WatchNew, Seen
  <2> QED BY <1>12, <2>1, <2>2, <2>3 DEF TypeOK, WatchNew, Takes, disk, fsVars
<1>13. CASE WatchOther
  <2>1. Tail(kernel) \in Seq(Events)
    BY <1>13, KernelHead DEF WatchOther, Takes
  <2>2. unseen' \subseteq unseen
    BY <1>13 DEF WatchOther, Seen
  <2> QED BY <1>13, <2>1, <2>2 DEF TypeOK, WatchOther, Takes, disk, fsVars, watchVars
<1>14. CASE InitThrows \/ ListThrows \/ WaitThrows \/ WatchReturns
  BY <1>14 DEF TypeOK, InitThrows, ListThrows, WaitThrows, Fails, WatchReturns, disk, fsVars
<1>15. CASE ScanLists
  <2>1. scanQ' \in Seq(Names) /\ At(Head(scanQ)) \subseteq Dirs
    BY <1>15, ScanListsTasks DEF At
  <2> QED BY <1>15, <2>1 DEF TypeOK, ScanLists, fsVars, watchVars
<1>16. CASE ScanFails
  <2>1. scanQ' \in Seq(Names) /\ early' \subseteq Dirs
    BY <1>16, ScanFailsTasks DEF At, Below, TypeOK
  <2> QED BY <1>16, <2>1 DEF TypeOK, ScanFails, watchVars
<1>17. CASE UNCHANGED vars
  BY <1>17 DEF TypeOK, vars, fsVars, watchVars
<1> QED BY <1>1, <1>2, <1>3, <1>4, <1>5, <1>6, <1>7, <1>8, <1>9, <1>10, <1>11, <1>12, <1>13, <1>14, <1>15, <1>16, <1>17
        DEF Next, FileSystem, Watch

-----------------------------------------------------------------------------
(* The tree *)

LEMMA StartOfFront ==
  ASSUME NEW s \in Names, s # Root, NEW n \in 0..Len(s)
  PROVE  \/ n = Len(s) /\ SubSeq(s, 1, n) = s
         \/ n \in 0..Len(Front(s)) /\ SubSeq(s, 1, n) = SubSeq(Front(s), 1, n)
<1>1. /\ Front(s) \in Names /\ Len(s) \in Nat /\ Len(Front(s)) = Len(s) - 1
      /\ IsPrefix(Front(s), s)
  BY FrontAndLast
<1>2. CASE n = Len(s)
  BY <1>2, SubSeqFull DEF Names
<1>3. CASE n # Len(s)
  <2> DEFINE t == SubSeq(s, 1, n)
             u == SubSeq(Front(s), 1, n)
  <2>1. n \in 0..Len(Front(s))
    BY <1>1, <1>3
  <2>2. t \in Names /\ Len(t) = n /\ \A i \in 1..n : t[i] = s[i]
    BY Start
  <2>3. u \in Names /\ Len(u) = n /\ \A i \in 1..n : u[i] = Front(s)[i]
    BY <1>1, <2>1, Start
  <2> HIDE DEF t, u
  <2>4. \A i \in 1..Len(Front(s)) : Front(s)[i] = s[i]
    BY <1>1, PrefixIs
  <2>5. \A i \in 1..n : t[i] = u[i]
    <3> TAKE i \in 1..n
    <3>1. i \in 1..Len(Front(s))
      BY <1>1, <2>1
    <3> QED BY <2>2, <2>3, <2>4, <3>1
  <2>6. t = u
    BY <2>2, <2>3, <2>5, SeqEqual DEF Names
  <2> QED BY <2>1, <2>6 DEF t, u
<1> QED BY <1>2, <1>3

\* What leads to a directory are directories, the next one being in it.
LEMMA OnTheWay ==
  ASSUME TypeOK, TreeInv, NEW dir \in Dirs, InTree(dir), NEW path \in Names, IsPrefix(path, where[dir])
  PROVE  /\ At(path) # {}
         /\ path # where[dir] => \E child \in Children(path) : IsPrefix(where[child], where[dir])
<1> DEFINE s == where[dir]
<1>1. s \in Names /\ Len(path) \in 0..Len(s) /\ path = SubSeq(s, 1, Len(path))
  BY WhereType, PrefixIsStart
<1>2. \A n \in 0..Len(s) : \E above \in Dirs : InTree(above) /\ where[above] = SubSeq(s, 1, n)
  BY DEF TreeInv
<1>3. At(path) # {}
  <2>1. PICK above \in Dirs : where[above] = SubSeq(s, 1, Len(path))
    BY <1>1, <1>2
  <2>2. where[above] = path
    BY <1>1, <2>1, Zenon
  <2> QED BY <2>2 DEF At
<1>4. ASSUME path # s PROVE \E child \in Children(path) : IsPrefix(where[child], s)
  <2> DEFINE next == SubSeq(s, 1, Len(path) + 1)
  <2>1. Len(path) + 1 \in 0..Len(s) /\ next # Root /\ Front(next) = path /\ IsPrefix(next, s)
    BY <1>1, <1>4, OneOn
  <2>2. PICK child \in Dirs : InTree(child) /\ where[child] = next
    BY <1>2, <2>1
  <2> HIDE DEF next, s
  <2>3. child \in Children(path)
    BY <2>1, <2>2 DEF Children
  <2> QED BY <2>1, <2>2, <2>3
<1> QED BY <1>3, <1>4

LEMMA InitTree ==
  ASSUME Init
  PROVE  TreeInv
<1>1. where \in Trees /\ where \in [Dirs -> Paths \cup {New}]
  BY TreesAssumption DEF Init
<1>2. \A dir \in Dirs : InTree(dir) <=> where[dir] # New
  BY <1>1, PathTypes DEF InTree, Marks
<1>3. ASSUME NEW dir \in Dirs, NEW other \in Dirs, InTree(dir), where[dir] = where[other]
      PROVE  dir = other
  BY <1>1, <1>2, <1>3, TreesAssumption
<1>4. ASSUME NEW dir \in Dirs, InTree(dir), NEW n \in 0..Len(where[dir])
      PROVE  \E above \in Dirs : InTree(above) /\ where[above] = SubSeq(where[dir], 1, n) /\ (above \in stray => dir \in stray)
  <2>1. PICK above \in Dirs : where[above] # New /\ where[above] = SubSeq(where[dir], 1, n)
    BY <1>1, <1>2, <1>4, TreesAssumption
  <2> QED BY <1>2, <2>1 DEF Init
<1> QED BY <1>3, <1>4 DEF TreeInv

LEMMA TreeMakeDir ==
  ASSUME TypeOK, TreeInv, NEW dir \in Dirs, NEW path \in Paths, MakeDir(dir, path)
  PROVE  TreeInv'
<1>1. /\ where[dir] = New /\ ~InTree(dir)
      /\ path \in Names /\ path # Root /\ At(path) = {} /\ At(Front(path)) # {}
      /\ where'[dir] = path /\ \A d \in Dirs \ {dir} : where'[d] = where[d]
      /\ stray' = stray \cup {d \in {dir} : Parent(path) \in stray}
  BY PathTypes DEF MakeDir, Free, TypeOK, InTree, Marks
<1>2. \A d \in Dirs \ {dir} : InTree(d)' <=> InTree(d)
  BY <1>1 DEF InTree
<1>3. ASSUME NEW d \in Dirs, NEW other \in Dirs, InTree(d)', where'[d] = where'[other]
      PROVE  d = other
  BY <1>1, <1>2, <1>3 DEF TreeInv, At
<1>4. ASSUME NEW d \in Dirs, InTree(d)', NEW n \in 0..Len(where'[d])
      PROVE  \E above \in Dirs : InTree(above)' /\ where'[above] = SubSeq(where'[d], 1, n) /\ (above \in stray' => d \in stray')
  <2>1. CASE d # dir
    <3>1. InTree(d) /\ n \in 0..Len(where[d])
      BY <1>1, <1>2, <1>4, <2>1
    <3>2. PICK above \in Dirs : InTree(above) /\ where[above] = SubSeq(where[d], 1, n) /\ (above \in stray => d \in stray)
      BY <3>1 DEF TreeInv
    <3>3. above # dir
      BY <1>1, <3>2
    <3> QED BY <1>1, <1>2, <2>1, <3>2, <3>3
  <2>2. CASE d = dir /\ n = Len(path)
    <3>1. SubSeq(path, 1, n) = path
      BY <1>1, <2>2, SubSeqFull DEF Names
    <3> QED BY <1>1, <1>4, <2>2, <3>1
  <2>3. CASE d = dir /\ n # Len(path)
    <3> DEFINE p == Parent(path)
    <3>1. p \in Dirs /\ InTree(p) /\ where[p] = Front(path)
      BY <1>1, Parents
    <3>2. n \in 0..Len(Front(path)) /\ SubSeq(path, 1, n) = SubSeq(Front(path), 1, n)
      <4>1. n \in 0..Len(path)
        BY <1>1, <1>4, <2>3
      <4> QED BY <1>1, <2>3, <4>1, StartOfFront
    <3>3. PICK above \in Dirs : InTree(above) /\ where[above] = SubSeq(where[p], 1, n) /\ (above \in stray => p \in stray)
      BY <3>1, <3>2 DEF TreeInv
    <3>4. above # dir
      BY <1>1, <3>3
    <3>5. where'[above] = SubSeq(path, 1, n)
      BY <1>1, <3>1, <3>2, <3>3, <3>4
    <3>6. above \in stray' => dir \in stray'
      BY <1>1, <3>3, <3>4
    <3> QED BY <1>1, <1>2, <2>3, <3>3, <3>4, <3>5, <3>6
  <2> QED BY <2>1, <2>2, <2>3
<1> QED BY <1>3, <1>4 DEF TreeInv

LEMMA TreeRemoveDir ==
  ASSUME TypeOK, TreeInv, NEW dir \in Dirs, RemoveDir(dir)
  PROVE  TreeInv'
<1>1. /\ InTree(dir) /\ Children(where[dir]) = {} /\ stray' = stray
      /\ where'[dir] = Removed /\ \A d \in Dirs \ {dir} : where'[d] = where[d]
  BY DEF RemoveDir, TypeOK
<1>2. ~InTree(dir)' /\ \A d \in Dirs \ {dir} : InTree(d)' <=> InTree(d)
  BY <1>1, PathTypes DEF InTree, Marks
<1>3. ASSUME NEW d \in Dirs, NEW other \in Dirs, InTree(d)', where'[d] = where'[other]
      PROVE  d = other
  <2>1. d # dir /\ InTree(d)
    BY <1>2, <1>3
  <2>2. other # dir
    BY <1>1, <1>2, <1>3, <2>1 DEF InTree
  <2> QED BY <1>1, <1>3, <2>1, <2>2 DEF TreeInv
<1>4. ASSUME NEW d \in Dirs, InTree(d)', NEW n \in 0..Len(where'[d])
      PROVE  \E above \in Dirs : InTree(above)' /\ where'[above] = SubSeq(where'[d], 1, n) /\ (above \in stray' => d \in stray')
  <2>1. d # dir /\ InTree(d) /\ where'[d] = where[d]
    BY <1>1, <1>2, <1>4
  <2>2. PICK above \in Dirs : InTree(above) /\ where[above] = SubSeq(where[d], 1, n) /\ (above \in stray => d \in stray)
    BY <1>4, <2>1 DEF TreeInv
  <2>3. above # dir
    <3> SUFFICES ASSUME above = dir PROVE FALSE
      OBVIOUS
    <3>1. where[d] \in Names /\ where[dir] \in Names
      BY <1>1, <2>1, WhereType
    <3>2. IsPrefix(SubSeq(where[d], 1, n), where[d])
      BY <1>4, <2>1, <3>1, PrefixIsStart
    <3>3. IsPrefix(where[dir], where[d])
      BY <2>2, <3>2
    <3>4. where[dir] # where[d]
      BY <1>1, <2>1 DEF TreeInv
    <3> QED BY <1>1, <2>1, <3>1, <3>3, <3>4, OnTheWay
  <2> QED BY <1>1, <1>2, <2>1, <2>2, <2>3
<1> QED BY <1>3, <1>4 DEF TreeInv

LEMMA TreeRenameDir ==
  ASSUME TypeOK, TreeInv, NEW dir \in Dirs, NEW path \in Paths, RenameDir(dir, path)
  PROVE  TreeInv'
<1> DEFINE from == where[dir]
           S == Below(from)
<1>1. /\ from \in Paths \ {Root} /\ from \in Names /\ path \in Names /\ dir \in S
      /\ \A below \in S : /\ below \in Dirs /\ InTree(below) /\ where[below] \in Names /\ IsPrefix(from, where[below])
                          /\ where'[below] = Move(from, path, where[below]) /\ where'[below] \in Paths
      /\ \A other \in Dirs \ S : where'[other] = where[other]
      /\ where'[dir] = path
  BY Renamed
<1>2. /\ path # Root /\ At(path) = {} /\ At(Front(path)) # {} /\ ~IsPrefix(from, path)
      /\ stray' = stray \cup S
  BY DEF RenameDir, Free
<1>3. \A d \in Dirs : InTree(d) /\ IsPrefix(from, where[d]) => d \in S
  BY DEF Below
<1> HIDE DEF S, from
<1>4. /\ \A d \in S : InTree(d)'
      /\ \A d \in Dirs \ S : InTree(d)' <=> InTree(d)
  BY <1>1 DEF InTree
<1>5. ASSUME NEW d \in S, NEW other \in Dirs \ S, InTree(other) PROVE where'[d] # where'[other]
  <2> SUFFICES ASSUME where[other] = Move(from, path, where[d]) PROVE FALSE
    BY <1>1
  <2>1. IsPrefix(path, where[other])
    BY <1>1, MoveStart
  <2> QED BY <1>1, <1>2, <1>5, <2>1, OnTheWay
<1>6. ASSUME NEW d \in Dirs, NEW other \in Dirs, InTree(d)', where'[d] = where'[other]
      PROVE  d = other
  <2>0. InTree(other)'
    BY <1>6 DEF InTree
  <2>1. CASE d \in S /\ other \in S
    <3>1. where[d] \in Names /\ where[other] \in Names /\ IsPrefix(from, where[d]) /\ IsPrefix(from, where[other]) /\ InTree(d)
      BY <1>1, <2>1
    <3>2. Move(from, path, where[d]) = Move(from, path, where[other])
      BY <1>1, <1>6, <2>1
    <3>3. where[d] = where[other]
      BY <1>1, <3>1, <3>2, MoveInjective
    <3> QED BY <3>1, <3>3 DEF TreeInv
  <2>2. CASE d \notin S /\ other \notin S
    BY <1>1, <1>4, <1>6, <2>2 DEF TreeInv
  <2>3. CASE d \in S /\ other \notin S
    BY <1>4, <1>5, <1>6, <2>0, <2>3
  <2>4. CASE d \notin S /\ other \in S
    BY <1>4, <1>5, <1>6, <2>4
  <2> QED BY <2>1, <2>2, <2>3, <2>4
<1>7. ASSUME NEW d \in Dirs, InTree(d)', NEW n \in 0..Len(where'[d])
      PROVE  \E above \in Dirs : InTree(above)' /\ where'[above] = SubSeq(where'[d], 1, n) /\ (above \in stray' => d \in stray')
  <2>1. CASE d \notin S
    <3>1. InTree(d) /\ where'[d] = where[d] /\ where[d] \in Names
      BY <1>1, <1>4, <1>7, <2>1, WhereType
    <3>2. PICK above \in Dirs : InTree(above) /\ where[above] = SubSeq(where[d], 1, n) /\ (above \in stray => d \in stray)
      BY <1>7, <3>1 DEF TreeInv
    <3>3. above \notin S
      <4> SUFFICES ASSUME above \in S PROVE FALSE
        OBVIOUS
      <4>1. IsPrefix(where[above], where[d]) /\ where[above] \in Names
        <5>1. n \in 0..Len(where[d])
          BY <1>7, <3>1
        <5>2. IsPrefix(SubSeq(where[d], 1, n), where[d])
          BY <3>1, <5>1, PrefixIsStart
        <5> QED BY <3>2, <5>2, WhereType
      <4>2. IsPrefix(from, where[d])
        BY <1>1, <3>1, <4>1, PrefixTransitive
      <4> QED BY <1>3, <2>1, <3>1, <4>2
    <3> QED BY <1>1, <1>2, <1>4, <3>1, <3>2, <3>3
  <2>2. CASE d \in S
    <3> DEFINE s == where[d]
    <3>1. s \in Names /\ IsPrefix(from, s) /\ where'[d] = Move(from, path, s) /\ InTree(d) /\ d \in stray'
      BY <1>1, <1>2, <2>2
    <3>2. \/ n <= Len(path) /\ SubSeq(Move(from, path, s), 1, n) = SubSeq(path, 1, n)
          \/ \E k \in 0..Len(s) : IsPrefix(from, SubSeq(s, 1, k)) /\ SubSeq(Move(from, path, s), 1, n) = Move(from, path, SubSeq(s, 1, k))
      <4>1. n \in 0..Len(Move(from, path, s))
        BY <1>7, <3>1
      <4> HIDE DEF s
      <4>2. from \in Names /\ path \in Names /\ s \in Names /\ IsPrefix(from, s)
        BY <1>1, <3>1
      <4> QED BY <4>1, <4>2, MoveStarts, Zenon
    <3>3. CASE n <= Len(path) /\ SubSeq(Move(from, path, s), 1, n) = SubSeq(path, 1, n)
      <4>1. n \in 0..Len(path)
        <5>1. Len(path) \in Nat /\ Len(Move(from, path, s)) \in Nat
          <6>1. Move(from, path, s) \in Names
            BY <1>1, <3>1, MoveIs DEF Moved
          <6> QED BY <1>1, <6>1 DEF Names
        <5>2. n \in 0..Len(Move(from, path, s))
          BY <1>7, <3>1
        <5> HIDE DEF s
        <5> QED BY <3>3, <5>1, <5>2
      <4>2. CASE n = Len(path) /\ SubSeq(path, 1, n) = path
        BY <1>1, <1>4, <3>1, <3>3, <4>2
      <4>3. CASE n \in 0..Len(Front(path)) /\ SubSeq(path, 1, n) = SubSeq(Front(path), 1, n)
        <5> DEFINE p == Parent(path)
        <5>1. p \in Dirs /\ InTree(p) /\ where[p] = Front(path) /\ Front(path) \in Names
          BY <1>2, Parents, WhereType
        <5>2. PICK above \in Dirs : InTree(above) /\ where[above] = SubSeq(where[p], 1, n)
          BY <4>3, <5>1 DEF TreeInv
        <5>3. above \notin S
          <6> SUFFICES ASSUME above \in S PROVE FALSE
            OBVIOUS
          <6>0. where[above] = SubSeq(path, 1, n)
            BY <4>3, <5>1, <5>2, Zenon
          <6>1. where[above] \in Names /\ IsPrefix(from, where[above]) /\ where[above] = SubSeq(path, 1, n)
            BY <1>1, <6>0
          <6>2. IsPrefix(SubSeq(path, 1, n), path)
            BY <1>1, <4>1, PrefixIsStart
          <6>3. IsPrefix(from, path)
            BY <1>1, <6>1, <6>2, PrefixTransitive
          <6> QED BY <1>2, <6>3
        <5>4. where'[above] = SubSeq(where'[d], 1, n)
          BY <1>1, <3>1, <3>3, <4>3, <5>1, <5>2, <5>3
        <5> QED BY <1>4, <3>1, <5>2, <5>3, <5>4
      <4> QED BY <1>1, <1>2, <4>1, <4>2, <4>3, StartOfFront
    <3>4. CASE \E k \in 0..Len(s) : IsPrefix(from, SubSeq(s, 1, k)) /\ SubSeq(Move(from, path, s), 1, n) = Move(from, path, SubSeq(s, 1, k))
      <4>1. PICK k \in 0..Len(s) : IsPrefix(from, SubSeq(s, 1, k)) /\ SubSeq(Move(from, path, s), 1, n) = Move(from, path, SubSeq(s, 1, k))
        BY <3>4
      <4>2. PICK above \in Dirs : InTree(above) /\ where[above] = SubSeq(s, 1, k)
        BY <3>1 DEF TreeInv
      <4>3. above \in S
        BY <1>3, <4>1, <4>2
      <4>4. where'[above] = SubSeq(where'[d], 1, n)
        BY <1>1, <3>1, <4>1, <4>2, <4>3
      <4> QED BY <1>4, <3>1, <4>3, <4>4
    <3> QED BY <3>2, <3>3, <3>4
  <2> QED BY <2>1, <2>2
<1> QED BY <1>6, <1>7 DEF TreeInv

\* What is below a directory that could not be watched is stray with it.
LEMMA TreeAddWatchFails ==
  ASSUME TypeOK, TreeInv, AddWatchFails
  PROVE  TreeInv'
<1> DEFINE path == Head(adding).path
<1>1. where' = where /\ stray' = stray \cup Below(path) /\ path \in Names
  BY AddingHead DEF AddWatchFails, Adds
<1> HIDE DEF path
<1>2. ASSUME NEW dir \in Dirs, InTree(dir), NEW n \in 0..Len(where[dir])
      PROVE  \E above \in Dirs : InTree(above) /\ where[above] = SubSeq(where[dir], 1, n) /\ (above \in stray' => dir \in stray')
  <2>1. PICK above \in Dirs : InTree(above) /\ where[above] = SubSeq(where[dir], 1, n) /\ (above \in stray => dir \in stray)
    BY <1>2 DEF TreeInv
  <2>2. where[dir] \in Names /\ where[above] \in Names
    BY <1>2, <2>1, WhereType
  <2>3. IsPrefix(where[above], where[dir])
    BY <1>2, <2>1, <2>2, PrefixIsStart
  <2>4. above \in Below(path) => dir \in Below(path)
    BY <1>1, <1>2, <2>2, <2>3, PrefixTransitive DEF Below
  <2> QED BY <1>1, <2>1, <2>4
<1> QED BY <1>1, <1>2 DEF TreeInv, InTree

LEMMA TreeNext ==
  ASSUME TypeOK, TreeInv, [Next]_vars
  PROVE  TreeInv'
<1>1. CASE UNCHANGED <<where, stray>>
  BY <1>1 DEF TreeInv, InTree
<1>2. CASE \E dir \in Dirs : RemoveDir(dir) \/ \E path \in Paths : MakeDir(dir, path) \/ RenameDir(dir, path)
  BY <1>2, TreeMakeDir, TreeRemoveDir, TreeRenameDir
<1>3. CASE \E dir \in Dirs : Touch(dir) \/ FreeDir(dir)
  BY <1>1, <1>3 DEF Touch, FreeDir, fsVars
<1>4. CASE Watch \/ ScanLists \/ ScanFails \/ UNCHANGED vars
  BY <1>1, <1>4, TreeAddWatchFails DEF Watch, AddWatch, ListWatched, InitThrows, ListThrows, WaitThrows, Fails,
     WatchSkips, WatchThrows, WatchSelfGone, WatchNew, WatchOther, WatchReturns, ScanLists, ScanFails, Takes,
     disk, fsVars, vars
<1> QED BY <1>2, <1>3, <1>4 DEF Next, FileSystem

-----------------------------------------------------------------------------
(* What is known *)

LEMMA InitKnown ==
  ASSUME Init
  PROVE  KnownInv
<1>1. kernel = <<>> /\ ToSet(kernel) = {} /\ DOMAIN watches = {}
  BY InEmpty DEF Init
<1>2. Full(kernel) /\ InOrder(kernel)
  BY <1>1, BoundsAssumption DEF Full, InOrder
<1> QED BY <1>1, <1>2 DEF KnownInv, DirsKnown, Init

\* The file system queues events of what is known, and of what is gone nothing any more.
LEMMA PostedKnown ==
  ASSUME TypeOK, KnownInv, NEW events \in SUBSET Events, Posted(kernel', events),
         watches' = watches, watched' \subseteq watched,
         \A dir \in Dirs : where[dir] = Removed => where'[dir] = Removed,
         \A e \in events : e.mask = "self gone" => e.wd \notin watched' /\ where'[e.wd] = Removed
  PROVE  /\ \A e \in ToSet(kernel') : EventKnown(e)'
         /\ Full(kernel)' /\ InOrder(kernel)'
<1>1. ASSUME NEW e \in ToSet(kernel') PROVE EventKnown(e)'
  <2>1. CASE e \in ToSet(kernel)
    <3>1. EventKnown(e)
      BY <2>1 DEF KnownInv
    <3> QED BY <3>1 DEF EventKnown, Overflow
  <2>2. CASE e = Overflow
    BY <2>2, OverflowType DEF EventKnown, Overflow
  <2>3. CASE e \in events /\ e.wd \in watched
    BY <2>3 DEF EventKnown, KnownInv, DirsKnown, TypeOK
  <2> QED BY <2>1, <2>2, <2>3 DEF Posted
<1>2. Full(kernel)' /\ InOrder(kernel)'
  <2>1. Full(kernel') /\ InOrder(kernel')
    BY DEF Posted
  <2> QED BY <2>1 DEF Full, InOrder, Overflow
<1> QED BY <1>1, <1>2

LEMMA KnownTouch ==
  ASSUME TypeOK, TreeInv, KnownInv, NEW dir \in Dirs, Touch(dir)
  PROVE  KnownInv'
<1>1. UNCHANGED <<where, stray, watched, watches, listed>> /\ unseen' = unseen \cup {dir} /\ InTree(dir)
  BY DEF Touch, Changed, watchVars
<1>2. DirsKnown'
  BY <1>1, WhereType DEF KnownInv, DirsKnown, InTree, Marks
<1>3. Event(dir, "file", Root).mask # "self gone" /\ Event(dir, "file", Root) \in Events
  BY EventTypes, PathTypes DEF Event, Masks
<1>4. /\ \A e \in ToSet(kernel') : EventKnown(e)'
      /\ Full(kernel)' /\ InOrder(kernel)'
  <2> DEFINE events == {Event(dir, "file", Root)}
  <2>1. events \in SUBSET Events /\ \A e \in events : e.mask # "self gone"
    BY <1>3
  <2>2. Posted(kernel', events)
    BY TouchPosts
  <2> HIDE DEF events
  <2> QED BY <1>1, <2>1, <2>2, PostedKnown
<1> QED BY <1>2, <1>4 DEF KnownInv

LEMMA KnownMakeDir ==
  ASSUME TypeOK, TreeInv, KnownInv, NEW dir \in Dirs, NEW path \in Paths, MakeDir(dir, path)
  PROVE  KnownInv'
<1> DEFINE p == Parent(path)
           e == Event(p, "new directory", <<Last(path)>>)
<1>1. /\ where[dir] = New /\ path \in Names /\ path # Root
      /\ where'[dir] = path /\ \A d \in Dirs \ {dir} : where'[d] = where[d]
      /\ UNCHANGED <<watched, watches, listed>> /\ unseen' = unseen \cup Noted(path)
      /\ stray' = stray \cup {d \in {dir} : p \in stray}
  BY PathTypes DEF MakeDir, Free, Changed, watchVars, TypeOK
<1>2. p \in Dirs /\ InTree(p) /\ Noted(path) \subseteq {p}
  BY <1>1, Parents DEF MakeDir, Free
<1>3. path \notin Marks /\ New # Removed
  BY PathTypes DEF New, Removed
<1>4. where[p] # New /\ dir \notin unseen \cup listed \cup DOMAIN watches
  BY <1>1, <1>2, WhereType DEF KnownInv, DirsKnown, Marks
<1>5. DirsKnown'
  <2>1. \A d \in Dirs : where'[d] = New => d \notin unseen' \cup listed' \cup DOMAIN watches'
    BY <1>1, <1>2, <1>3, <1>4 DEF KnownInv, DirsKnown, Marks
  <2>2. \A d \in DOMAIN watches : d \in Dirs /\ d # dir
    BY <1>4 DEF TypeOK
  <2>3. \A d \in DOMAIN watches' : InTree(d)' /\ d \notin stray' => watches'[d] = where'[d]
    BY <1>1, <2>2 DEF KnownInv, DirsKnown, InTree
  <2>4. \A d \in DOMAIN watches' : watches'[d] = Root => where'[d] = Root
    BY <1>1, <2>2 DEF KnownInv, DirsKnown
  <2> QED BY <1>1, <2>1, <2>3, <2>4 DEF KnownInv, DirsKnown
<1>6. e.mask # "self gone" /\ e \in Events
  BY <1>1, <1>2, EventTypes, FrontAndLast DEF Event, Masks
<1>7. \A d \in Dirs : where[d] = Removed => where'[d] = Removed
  BY <1>1, <1>3
<1>8. Posted(kernel', {e})
  BY MakeDirPosts
<1> HIDE DEF e, p
<1>9. /\ \A f \in ToSet(kernel') : EventKnown(f)'
      /\ Full(kernel)' /\ InOrder(kernel)'
  <2> DEFINE events == {e}
  <2>1. events \in SUBSET Events /\ Posted(kernel', events) /\ \A f \in events : f.mask # "self gone"
    BY <1>6, <1>8
  <2> HIDE DEF events
  <2> QED BY <1>1, <1>7, <2>1, PostedKnown
<1> QED BY <1>5, <1>9 DEF KnownInv

LEMMA KnownRemoveDir ==
  ASSUME TypeOK, TreeInv, KnownInv, NEW dir \in Dirs, RemoveDir(dir)
  PROVE  KnownInv'
<1> DEFINE p == Parent(where[dir])
           e == Event(p, "directory gone", <<Last(where[dir])>>)
<1>1. /\ InTree(dir) /\ where[dir] # Root
      /\ where'[dir] = Removed /\ \A d \in Dirs \ {dir} : where'[d] = where[d]
      /\ UNCHANGED <<watched, watches, listed, stray>> /\ unseen' = unseen \cup Noted(where[dir])
  BY DEF RemoveDir, Changed, watchVars, TypeOK
<1>2. /\ p \in Dirs /\ InTree(p) /\ Noted(where[dir]) \subseteq {p}
      /\ <<Last(where[dir])>> \in Names
  BY <1>1, ParentOfDir, Parents
<1>3. New # Removed /\ Removed \notin Paths
  BY PathTypes DEF New, Removed, Marks
<1>4. where[p] # New
  BY <1>2, WhereType DEF Marks
<1>5. DirsKnown'
  <2>1. \A d \in Dirs : where'[d] = New => d \notin unseen' \cup listed' \cup DOMAIN watches'
    BY <1>1, <1>2, <1>3, <1>4 DEF KnownInv, DirsKnown
  <2>2. \A d \in DOMAIN watches : d \in Dirs
    BY DEF TypeOK
  <2>3. \A d \in DOMAIN watches' : InTree(d)' /\ d \notin stray' => watches'[d] = where'[d]
    BY <1>1, <1>3, <2>2 DEF KnownInv, DirsKnown, InTree
  <2>4. \A d \in DOMAIN watches' : watches'[d] = Root => where'[d] = Root
    BY <1>1, <2>2 DEF KnownInv, DirsKnown
  <2> QED BY <1>1, <2>1, <2>3, <2>4 DEF KnownInv, DirsKnown
<1>6. e.mask # "self gone" /\ e \in Events
  BY <1>2, EventTypes DEF Event, Masks
<1>7. \A d \in Dirs : where[d] = Removed => where'[d] = Removed
  BY <1>1
<1>8. Posted(kernel', {e})
  BY RemoveDirPosts
<1> HIDE DEF e, p
<1>9. /\ \A f \in ToSet(kernel') : EventKnown(f)'
      /\ Full(kernel)' /\ InOrder(kernel)'
  <2> DEFINE events == {e}
  <2>1. events \in SUBSET Events /\ Posted(kernel', events) /\ \A f \in events : f.mask # "self gone"
    BY <1>6, <1>8
  <2> HIDE DEF events
  <2> QED BY <1>1, <1>7, <2>1, PostedKnown
<1> QED BY <1>5, <1>9 DEF KnownInv

LEMMA KnownFreeDir ==
  ASSUME TypeOK, TreeInv, KnownInv, NEW dir \in Dirs, FreeDir(dir)
  PROVE  KnownInv'
<1> DEFINE e == Event(dir, "self gone", Root)
           f == Event(dir, "ignored", Root)
<1>1. /\ where[dir] = Removed /\ watched' = watched \ {dir}
      /\ UNCHANGED <<where, watches, listed, stray, unseen>>
  BY DEF FreeDir, fsVars, watchVars
<1>2. DirsKnown'
  BY <1>1 DEF KnownInv, DirsKnown, InTree
<1>3. e \in Events /\ f \in Events /\ e.wd = dir /\ f.mask # "self gone"
  BY EventTypes, PathTypes DEF Event, Masks
<1>4. Posted(kernel', {e, f})
  BY FreeDirPosts
<1> HIDE DEF e, f
<1>5. /\ \A g \in ToSet(kernel') : EventKnown(g)'
      /\ Full(kernel)' /\ InOrder(kernel)'
  <2> DEFINE events == {e, f}
  <2>1. /\ events \in SUBSET Events /\ Posted(kernel', events)
        /\ \A g \in events : g.mask = "self gone" => g.wd \notin watched' /\ where'[g.wd] = Removed
    BY <1>1, <1>3, <1>4
  <2> HIDE DEF events
  <2> QED BY <1>1, <2>1, PostedKnown
<1> QED BY <1>2, <1>5 DEF KnownInv

LEMMA KnownRenameDir ==
  ASSUME TypeOK, TreeInv, KnownInv, NEW dir \in Dirs, NEW path \in Paths, RenameDir(dir, path)
  PROVE  KnownInv'
<1> DEFINE from == where[dir]
           S == Below(from)
           e == Event(Parent(from), "moved away", <<Last(from)>>)
           f == Event(Parent(path), "new directory", <<Last(path)>>)
           g == Event(dir, "self moved", Root)
<1>1. /\ from \in Paths \ {Root} /\ from \in Names /\ path \in Names
      /\ \A below \in S : /\ below \in Dirs /\ InTree(below) /\ where[below] \in Names /\ IsPrefix(from, where[below])
                          /\ where'[below] \in Paths
      /\ \A other \in Dirs \ S : where'[other] = where[other]
  BY Renamed
<1>2. /\ path # Root /\ At(Front(path)) # {}
      /\ UNCHANGED <<watched, watches, listed>> /\ unseen' = unseen \cup (Noted(from) \cup Noted(path))
      /\ stray' = stray \cup S
  BY DEF RenameDir, Free, Changed, watchVars
<1>3. /\ Parent(from) \in Dirs /\ InTree(Parent(from)) /\ Noted(from) \subseteq {Parent(from)}
      /\ <<Last(from)>> \in Names
  BY <1>1, ParentOfDir, Parents DEF RenameDir
<1>4. /\ Parent(path) \in Dirs /\ InTree(Parent(path)) /\ Noted(path) \subseteq {Parent(path)}
      /\ <<Last(path)>> \in Names
  BY <1>1, <1>2, Parents, FrontAndLast
<1>5. e \in Events /\ f \in Events /\ g \in Events
      /\ e.mask # "self gone" /\ f.mask # "self gone" /\ g.mask # "self gone"
  BY <1>3, <1>4, EventTypes, PathTypes DEF Event, Masks
<1>6. Posted(kernel', {e, f, g})
  BY RenameDirPosts
<1> HIDE DEF from, S, e, f, g
<1>7. Root \notin {where[below] : below \in S}
  <2> SUFFICES ASSUME NEW below \in S, where[below] = Root PROVE FALSE
    OBVIOUS
  <2>1. Len(from) <= Len(Root)
    BY <1>1, PathTypes, PrefixIs
  <2>2. Len(from) = 0
    BY <1>1, <2>1 DEF Root, Names
  <2> QED BY <1>1, <2>2 DEF Root, Names
<1>8. DirsKnown'
  <2>1. \A d \in Dirs : where'[d] = New => d \notin unseen' \cup listed' \cup DOMAIN watches'
    <3> SUFFICES ASSUME NEW d \in Dirs, where'[d] = New PROVE d \notin unseen' \cup listed' \cup DOMAIN watches'
      OBVIOUS
    <3>1. d \notin S /\ where[d] = New
      BY <1>1, PathTypes DEF Marks
    <3>2. d # Parent(from) /\ d # Parent(path)
      BY <1>3, <1>4, <3>1, WhereType DEF Marks
    <3>3. d \notin unseen \cup listed \cup DOMAIN watches
      BY <3>1 DEF KnownInv, DirsKnown
    <3> QED BY <1>2, <1>3, <1>4, <3>2, <3>3
  <2>2. \A d \in DOMAIN watches : d \in Dirs
    BY DEF TypeOK
  <2>3. \A d \in DOMAIN watches' : InTree(d)' /\ d \notin stray' => watches'[d] = where'[d]
    BY <1>1, <1>2, <2>2 DEF KnownInv, DirsKnown, InTree
  <2>4. \A d \in DOMAIN watches' : watches'[d] = Root => where'[d] = Root
    BY <1>1, <1>2, <1>7, <2>2 DEF KnownInv, DirsKnown
  <2> QED BY <1>2, <2>1, <2>3, <2>4 DEF KnownInv, DirsKnown
<1>9. \A d \in Dirs : where[d] = Removed => where'[d] = Removed
  <2>1. \A d \in S : where[d] # Removed
    BY <1>1, WhereType DEF Marks
  <2> QED BY <1>1, <2>1
<1>10. /\ \A h \in ToSet(kernel') : EventKnown(h)'
       /\ Full(kernel)' /\ InOrder(kernel)'
  <2> DEFINE events == {e, f, g}
  <2>1. events \in SUBSET Events /\ Posted(kernel', events) /\ \A h \in events : h.mask # "self gone"
    BY <1>5, <1>6
  <2> HIDE DEF events
  <2> QED BY <1>2, <1>9, <2>1, PostedKnown
<1> QED BY <1>8, <1>10 DEF KnownInv

\* An event is taken from the queue.
LEMMA KnownTakes ==
  ASSUME TypeOK, KnownInv, Takes
  PROVE  /\ Head(kernel) \in Events /\ EventKnown(Head(kernel))
         /\ kernel' \in Seq(Events) /\ ToSet(kernel) = {Head(kernel)} \cup ToSet(kernel')
         /\ Full(kernel)' /\ InOrder(kernel)'
         /\ \A e \in ToSet(kernel') :
              (Head(kernel).mask = "self gone" /\ e.wd = Head(kernel).wd) => e.mask = "ignored"
<1> DEFINE q == kernel
           r == Tail(kernel)
<1>1. q \in Seq(Events) /\ q # <<>> /\ kernel' = r
  BY DEF TypeOK, Takes
<1>2. /\ Head(q) \in Events /\ r \in Seq(Events) /\ ToSet(q) = {Head(q)} \cup ToSet(r)
      /\ Len(q) \in Nat \ {0} /\ DOMAIN q = 1..Len(q) /\ DOMAIN r = 1..Len(q) - 1
      /\ Len(r) = Len(q) - 1 /\ Head(q) = q[1]
      /\ \A i \in DOMAIN r : i + 1 \in DOMAIN q /\ r[i] = q[i + 1]
  BY <1>1, InTail
<1>3. EventKnown(Head(q))
  BY <1>2 DEF KnownInv
<1> HIDE DEF r
<1>4. Len(r) <= QueueSize
  BY <1>2, BoundsAssumption DEF KnownInv, Full
<1>5. Full(kernel)'
  BY <1>1, <1>2, <1>4, BoundsAssumption DEF Full
<1>6. InOrder(r)
  <2>0. \A i, j \in DOMAIN r : i < j => i + 1 < j + 1
    BY <1>2
  <2> SUFFICES ASSUME NEW i \in DOMAIN r, NEW j \in DOMAIN r, i < j, r[i].mask = "self gone", r[i].wd = r[j].wd
               PROVE  r[j].mask = "ignored"
    BY DEF InOrder
  <2>1. i + 1 \in DOMAIN q /\ j + 1 \in DOMAIN q /\ r[i] = q[i + 1] /\ r[j] = q[j + 1]
    BY <1>2
  <2> QED BY <2>0, <2>1 DEF KnownInv, InOrder
<1>7. ASSUME NEW e \in ToSet(r), Head(q).mask = "self gone", e.wd = Head(q).wd
      PROVE  e.mask = "ignored"
  <2>1. PICK i \in DOMAIN r : e = r[i]
    BY DEF ToSet
  <2>2. i + 1 \in DOMAIN q /\ r[i] = q[i + 1] /\ 1 \in DOMAIN q /\ 1 < i + 1
    BY <1>2
  <2>3. q[1].mask = "self gone" /\ q[1].wd = q[i + 1].wd
    BY <1>2, <1>7, <2>1, <2>2
  <2> QED BY <2>1, <2>2, <2>3 DEF KnownInv, InOrder
<1>8. InOrder(kernel)'
  BY <1>1, <1>6 DEF InOrder
<1> QED BY <1>1, <1>2, <1>3, <1>5, <1>7, <1>8

LEMMA KnownAddWatch ==
  ASSUME TypeOK, KnownInv, PathsInv, AddWatch
  PROVE  KnownInv'
<1> DEFINE path == Head(adding).path
<1>1. /\ UNCHANGED <<where, stray, kernel, unseen, listed>>
      /\ watched' = watched \cup At(path)
      /\ DOMAIN watches' = DOMAIN watches \cup At(path)
      /\ \A dir \in DOMAIN watches : watches'[dir] = watches[dir]
      /\ \A dir \in At(path) : dir \notin DOMAIN watches => watches'[dir] = path
  BY AddWatchTasks DEF AddWatch, disk, fsVars
<1>2. path \notin Marks
  BY AddingHead DEF PathsInv, AddWatch, Adds
<1>3. \A dir \in At(path) : dir \in Dirs /\ where[dir] = path
  BY DEF At
<1> HIDE DEF path
<1>4. DirsKnown'
  <2>1. watched' \subseteq DOMAIN watches'
    BY <1>1 DEF KnownInv, DirsKnown
  <2>2. \A dir \in Dirs : where'[dir] = New => dir \notin unseen' \cup listed' \cup DOMAIN watches'
    BY <1>1, <1>2, <1>3 DEF KnownInv, DirsKnown, Marks
  <2>3. \A dir \in DOMAIN watches' : InTree(dir)' /\ dir \notin stray' => watches'[dir] = where'[dir]
    BY <1>1, <1>3 DEF KnownInv, DirsKnown, InTree
  <2>4. \A dir \in DOMAIN watches' : watches'[dir] = Root => where'[dir] = Root
    BY <1>1, <1>3 DEF KnownInv, DirsKnown
  <2> QED BY <2>1, <2>2, <2>3, <2>4 DEF DirsKnown
<1>5. ASSUME NEW e \in ToSet(kernel) PROVE EventKnown(e)'
  <2>1. EventKnown(e)
    BY <1>5 DEF KnownInv
  <2>2. e.mask = "self gone" => e.wd \notin At(path)
    BY <1>2, <1>3, <2>1 DEF EventKnown, Marks
  <2> QED BY <1>1, <2>1, <2>2 DEF EventKnown, Overflow
<1>6. Full(kernel)' /\ InOrder(kernel)'
  BY <1>1 DEF KnownInv, Full, InOrder, Overflow
<1> QED BY <1>1, <1>4, <1>5, <1>6 DEF KnownInv

\* The last event of a directory takes it out of the map, and none of it follows.
LEMMA KnownSelfGone ==
  ASSUME TypeOK, KnownInv, WatchSelfGone
  PROVE  KnownInv'
<1> DEFINE gone == Head(kernel).wd
<1>1. Takes /\ Head(kernel).mask = "self gone" /\ gone \in DOMAIN watches
  BY DEF WatchSelfGone, Known
<1>2. /\ UNCHANGED <<where, stray, watched, unseen, listed>>
      /\ DOMAIN watches' = DOMAIN watches \ {gone}
      /\ \A dir \in DOMAIN watches \ {gone} : watches'[dir] = watches[dir]
  BY DEF WatchSelfGone, Takes, disk, fsVars
<1>3. /\ EventKnown(Head(kernel)) /\ ToSet(kernel') \subseteq ToSet(kernel)
      /\ Full(kernel)' /\ InOrder(kernel)'
      /\ \A e \in ToSet(kernel') : e.wd = gone => e.mask = "ignored"
  BY <1>1, KnownTakes
<1>4. gone \notin watched
  BY <1>1, <1>3 DEF EventKnown
<1> HIDE DEF gone
<1>5. DirsKnown'
  <2>1. watched' \subseteq DOMAIN watches'
    BY <1>2, <1>4 DEF KnownInv, DirsKnown
  <2>2. \A dir \in Dirs : where'[dir] = New => dir \notin unseen' \cup listed' \cup DOMAIN watches'
    BY <1>2 DEF KnownInv, DirsKnown
  <2>3. \A dir \in DOMAIN watches' : InTree(dir)' /\ dir \notin stray' => watches'[dir] = where'[dir]
    BY <1>2 DEF KnownInv, DirsKnown, InTree
  <2>4. \A dir \in DOMAIN watches' : watches'[dir] = Root => where'[dir] = Root
    BY <1>2 DEF KnownInv, DirsKnown
  <2> QED BY <2>1, <2>2, <2>3, <2>4 DEF DirsKnown
<1>6. ASSUME NEW e \in ToSet(kernel') PROVE EventKnown(e)'
  <2>1. EventKnown(e) /\ (e.wd = gone => e.mask = "ignored")
    BY <1>3, <1>6 DEF KnownInv
  <2> QED BY <1>2, <2>1 DEF EventKnown, Overflow
<1> QED BY <1>3, <1>5, <1>6 DEF KnownInv

LEMMA KnownScanLists ==
  ASSUME TypeOK, KnownInv, PathsInv, ScanLists
  PROVE  KnownInv'
<1> DEFINE path == Head(scanQ)
<1>1. /\ UNCHANGED <<where, stray, kernel, watched, watches>>
      /\ unseen' = unseen \ At(path) /\ listed' = listed \cup At(path)
  BY DEF ScanLists, fsVars, watchVars
<1>2. path \notin Marks
  BY ScanHead DEF PathsInv, ScanLists
<1>3. \A dir \in At(path) : where[dir] # New
  BY <1>2 DEF At, Marks
<1> HIDE DEF path
<1>4. DirsKnown'
  BY <1>1, <1>3 DEF KnownInv, DirsKnown, InTree
<1>5. \A e \in ToSet(kernel') : EventKnown(e)'
  BY <1>1 DEF KnownInv, EventKnown, Overflow
<1>6. Full(kernel)' /\ InOrder(kernel)'
  BY <1>1 DEF KnownInv, Full, InOrder, Overflow
<1> QED BY <1>4, <1>5, <1>6 DEF KnownInv

\* Nothing is known that was not before.
LEMMA KnownSame ==
  ASSUME KnownInv, UNCHANGED <<where, watched, watches, listed>>, stray \subseteq stray', unseen' \subseteq unseen,
         ToSet(kernel') \subseteq ToSet(kernel), Full(kernel)', InOrder(kernel)'
  PROVE  KnownInv'
<1>1. DirsKnown'
  BY DEF KnownInv, DirsKnown, InTree
<1>2. ASSUME NEW e \in ToSet(kernel') PROVE EventKnown(e)'
  <2>1. EventKnown(e)
    BY <1>2 DEF KnownInv
  <2> QED BY <2>1 DEF EventKnown, Overflow
<1> QED BY <1>1, <1>2 DEF KnownInv

LEMMA KnownNext ==
  ASSUME TypeOK, TreeInv, KnownInv, PathsInv, [Next]_vars
  PROVE  KnownInv'
<1>1. CASE FileSystem
  BY <1>1, KnownTouch, KnownMakeDir, KnownRemoveDir, KnownFreeDir, KnownRenameDir DEF FileSystem
<1>2. CASE AddWatch \/ WatchSelfGone \/ ScanLists
  BY <1>2, KnownAddWatch, KnownSelfGone, KnownScanLists
<1>3. CASE AddWatchFails \/ ListWatched \/ InitThrows \/ ListThrows \/ WaitThrows \/ WatchReturns \/ ScanFails \/ UNCHANGED vars
  <2>1. UNCHANGED <<where, kernel, watched, watches, listed, unseen>> /\ stray \subseteq stray'
    BY <1>3 DEF AddWatchFails, ListWatched, InitThrows, ListThrows, WaitThrows, Fails, WatchReturns, ScanFails,
       vars, disk, fsVars, watchVars
  <2>2. Full(kernel)' /\ InOrder(kernel)'
    BY <2>1 DEF KnownInv, Full, InOrder, Overflow
  <2> QED BY <2>1, <2>2, KnownSame
<1>4. CASE WatchSkips \/ WatchThrows \/ WatchNew \/ WatchOther
  <2>1. Takes /\ UNCHANGED <<where, stray, watched, watches, listed>> /\ unseen' \subseteq unseen
    BY <1>4 DEF WatchSkips, WatchThrows, WatchNew, WatchOther, Takes, Seen, disk, fsVars, watchVars
  <2>2. ToSet(kernel') \subseteq ToSet(kernel) /\ Full(kernel)' /\ InOrder(kernel)'
    BY <2>1, KnownTakes
  <2> QED BY <2>1, <2>2, KnownSame
<1> QED BY <1>1, <1>2, <1>3, <1>4 DEF Next, Watch

-----------------------------------------------------------------------------
(* The paths that are looked at *)

LEMMA InitPaths ==
  ASSUME Init
  PROVE  PathsInv
<1>1. ToSet(kernel) = {} /\ ToSet(adding) = {Task("add", Root)} /\ ToSet(scanQ) = {Root}
  BY InEmpty, InOne DEF Init
<1>2. Root \notin Marks
  BY PathTypes
<1> QED BY <1>1, <1>2 DEF PathsInv, Task

\* A new directory has a path, whatever its parent is known as.
LEMMA NewDirectory ==
  ASSUME TypeOK, TreeInv, KnownInv, NEW path \in Paths \ {Root}, At(Front(path)) # {}, Parent(path) \in watched
  PROVE  watches[Parent(path)] \o <<Last(path)>> \notin Marks
<1> DEFINE p == Parent(path)
           known == watches[p]
<1>1. p \in Dirs /\ where[p] = Front(path) /\ p \in DOMAIN watches /\ known \in Names
  BY Parents DEF TypeOK, KnownInv, DirsKnown
<1>2. path \in Names /\ <<Last(path)>> \in Names /\ Front(path) \o <<Last(path)>> = path
  BY PathTypes, FrontAndLast
<1>3. CASE known = Root
  <2>1. where[p] = Root
    BY <1>1, <1>3 DEF KnownInv, DirsKnown
  <2>2. known \o <<Last(path)>> = path
    BY <1>1, <1>2, <1>3, <2>1, Zenon
  <2> QED BY <2>2, PathTypes
<1>4. CASE known # Root
  <2> HIDE DEF known
  <2>1. Len(known) \in Nat \ {0}
    BY <1>1, <1>4 DEF Names, Root
  <2>2. Len(known \o <<Last(path)>>) = Len(known) + 1
    BY <1>1, <1>2 DEF Names
  <2>3. Len(known \o <<Last(path)>>) # 1
    BY <2>1, <2>2
  <2>4. known \o <<Last(path)>> \notin Marks
    <3>1. Len(New) = 1 /\ Len(Removed) = 1
      BY DEF New, Removed
    <3> QED BY <2>3, <3>1 DEF Marks
  <2> QED BY <2>4 DEF known
<1> QED BY <1>3, <1>4

LEMMA PostedPaths ==
  ASSUME PathsInv, NEW events \in SUBSET Events, Posted(kernel', events), UNCHANGED <<watches, adding, scanQ>>,
         \A e \in events : e.mask = "new directory" /\ e.wd \in watched => watches[e.wd] \o e.path \notin Marks
  PROVE  PathsInv'
<1>1. ASSUME NEW e \in ToSet(kernel'), e.mask = "new directory" PROVE watches[e.wd] \o e.path \notin Marks
  BY <1>1, OverflowType DEF Posted, PathsInv
<1> QED BY <1>1 DEF PathsInv, Marks, New, Removed

LEMMA PathsFileSystem ==
  ASSUME TypeOK, TreeInv, KnownInv, PathsInv, FileSystem
  PROVE  PathsInv'
<1>1. ASSUME NEW dir \in Dirs, Touch(dir) PROVE PathsInv'
  <2> DEFINE e == Event(dir, "file", Root)
             events == {e}
  <2>0. e \in Events /\ e.mask # "new directory"
    BY EventTypes, PathTypes DEF Event, Masks
  <2>1. events \in SUBSET Events /\ Posted(kernel', events) /\ \A f \in events : f.mask # "new directory"
    BY <1>1, <2>0, TouchPosts
  <2>2. UNCHANGED <<watches, adding, scanQ>>
    BY <1>1 DEF Touch, Changed, watchVars
  <2> HIDE DEF events
  <2> QED BY <2>1, <2>2, PostedPaths
<1>2. ASSUME NEW dir \in Dirs, NEW path \in Paths, MakeDir(dir, path) PROVE PathsInv'
  <2> DEFINE e == Event(Parent(path), "new directory", <<Last(path)>>)
             events == {e}
  <2>1. path \in Paths \ {Root} /\ path \in Names /\ At(Front(path)) # {}
    BY <1>2, PathTypes DEF MakeDir, Free
  <2>2. e \in Events /\ e.wd = Parent(path) /\ e.path = <<Last(path)>>
    BY <2>1, Parents, FrontAndLast, EventTypes DEF Event, Masks
  <2>3. Posted(kernel', {e})
    BY <1>2, MakeDirPosts
  <2>4. e.wd \in watched => watches[e.wd] \o e.path \notin Marks
    BY <2>1, <2>2, NewDirectory
  <2>5. UNCHANGED <<watches, adding, scanQ>>
    BY <1>2 DEF MakeDir, Changed, watchVars
  <2> HIDE DEF e
  <2>6. /\ events \in SUBSET Events /\ Posted(kernel', events)
        /\ \A f \in events : f.mask = "new directory" /\ f.wd \in watched => watches[f.wd] \o f.path \notin Marks
    BY <2>2, <2>3, <2>4
  <2> HIDE DEF events
  <2> QED BY <2>5, <2>6, PostedPaths
<1>3. ASSUME NEW dir \in Dirs, RemoveDir(dir) PROVE PathsInv'
  <2> DEFINE e == Event(Parent(where[dir]), "directory gone", <<Last(where[dir])>>)
             events == {e}
  <2>1. Parent(where[dir]) \in Dirs /\ <<Last(where[dir])>> \in Names
    BY <1>3, ParentOfDir, Parents DEF RemoveDir
  <2>2. e \in Events /\ e.mask # "new directory"
    BY <2>1, EventTypes DEF Event, Masks
  <2>4. events \in SUBSET Events /\ Posted(kernel', events) /\ \A f \in events : f.mask # "new directory"
    BY <1>3, <2>2, RemoveDirPosts
  <2>3. UNCHANGED <<watches, adding, scanQ>>
    BY <1>3 DEF RemoveDir, Changed, watchVars
  <2> HIDE DEF events
  <2> QED BY <2>3, <2>4, PostedPaths
<1>4. ASSUME NEW dir \in Dirs, FreeDir(dir) PROVE PathsInv'
  <2> DEFINE e == Event(dir, "self gone", Root)
             f == Event(dir, "ignored", Root)
             events == {e, f}
  <2>0. e \in Events /\ e.mask # "new directory" /\ f \in Events /\ f.mask # "new directory"
    BY EventTypes, PathTypes DEF Event, Masks
  <2>1. events \in SUBSET Events /\ Posted(kernel', events) /\ \A g \in events : g.mask # "new directory"
    BY <1>4, <2>0, FreeDirPosts
  <2>2. UNCHANGED <<watches, adding, scanQ>>
    BY <1>4 DEF FreeDir, watchVars
  <2> HIDE DEF events
  <2> QED BY <2>1, <2>2, PostedPaths
<1>5. ASSUME NEW dir \in Dirs, NEW path \in Paths, RenameDir(dir, path) PROVE PathsInv'
  <2> DEFINE e == Event(Parent(where[dir]), "moved away", <<Last(where[dir])>>)
             f == Event(Parent(path), "new directory", <<Last(path)>>)
             g == Event(dir, "self moved", Root)
             events == {e, f, g}
  <2>1. /\ path \in Paths \ {Root} /\ path \in Names /\ At(Front(path)) # {}
        /\ where[dir] \in Paths \ {Root} /\ At(Front(where[dir])) # {} /\ <<Last(where[dir])>> \in Names
    BY <1>5, PathTypes, ParentOfDir DEF RenameDir, Free
  <2>2. f \in Events /\ f.wd = Parent(path) /\ f.path = <<Last(path)>>
    BY <2>1, Parents, FrontAndLast, EventTypes DEF Event, Masks
  <2>3. e \in Events /\ e.mask # "new directory" /\ g \in Events /\ g.mask # "new directory"
    BY <2>1, Parents, EventTypes, PathTypes DEF Event, Masks
  <2>4. Posted(kernel', {e, f, g})
    BY <1>5, RenameDirPosts
  <2>5. f.wd \in watched => watches[f.wd] \o f.path \notin Marks
    BY <2>1, <2>2, NewDirectory
  <2>6. UNCHANGED <<watches, adding, scanQ>>
    BY <1>5 DEF RenameDir, Changed, watchVars
  <2> HIDE DEF e, f, g
  <2>7. /\ events \in SUBSET Events /\ Posted(kernel', events)
        /\ \A h \in events : h.mask = "new directory" /\ h.wd \in watched => watches[h.wd] \o h.path \notin Marks
    BY <2>2, <2>3, <2>4, <2>5
  <2> HIDE DEF events
  <2> QED BY <2>6, <2>7, PostedPaths
<1> QED BY <1>1, <1>2, <1>3, <1>4, <1>5 DEF FileSystem

LEMMA PathsNext ==
  ASSUME TypeOK, TreeInv, KnownInv, PathsInv, [Next]_vars
  PROVE  PathsInv'
<1>1. Marks' = Marks
  BY DEF Marks, New, Removed
<1>2. \A e \in ToSet(kernel) : e.mask = "new directory" => e.wd \in DOMAIN watches
  BY OverflowType DEF KnownInv, EventKnown
<1>3. CASE FileSystem
  BY <1>3, PathsFileSystem
<1>4. CASE AddWatch
  <2>1. UNCHANGED <<kernel, scanQ>>
    BY <1>4 DEF AddWatch
  <2>2. \A task \in ToSet(adding') : task.path \notin Marks
    <3>1. \A task \in ToSet(adding') : task \in ToSet(Tail(adding)) \/ task = Task("list", Head(adding).path)
      BY <1>4, AddWatchTasks
    <3>2. Head(adding).path \notin Marks /\ \A task \in ToSet(Tail(adding)) : task.path \notin Marks
      BY <1>4, AddingHead DEF PathsInv, AddWatch, Adds
    <3> QED BY <3>1, <3>2 DEF Task
  <2>3. \A e \in ToSet(kernel) : e.mask = "new directory" => watches'[e.wd] = watches[e.wd]
    BY <1>2, <1>4, AddWatchTasks
  <2> QED BY <1>1, <2>1, <2>2, <2>3 DEF PathsInv
<1>5. CASE ListWatched
  <2>1. UNCHANGED <<kernel, watches, scanQ>>
    BY <1>5 DEF ListWatched
  <2>2. \A task \in ToSet(adding') : task.path \notin Marks
    <3>1. \A task \in ToSet(adding') : \/ task \in ToSet(Tail(adding))
                                       \/ \E dir \in Children(Head(adding).path) : task = Task("add", where[dir])
      BY <1>5, ListTasks
    <3>2. \A task \in ToSet(Tail(adding)) : task.path \notin Marks
      BY <1>5, AddingHead DEF PathsInv, ListWatched, Adds
    <3>3. \A dir \in Children(Head(adding).path) : where[dir] \notin Marks
      BY WhereType DEF Children
    <3> QED BY <3>1, <3>2, <3>3 DEF Task
  <2> QED BY <1>1, <2>1, <2>2 DEF PathsInv
<1>6. CASE WatchSelfGone
  <2>1. /\ Takes /\ Head(kernel).mask = "self gone" /\ UNCHANGED <<adding, scanQ>>
        /\ \A dir \in DOMAIN watches \ {Head(kernel).wd} : watches'[dir] = watches[dir]
    BY <1>6 DEF WatchSelfGone
  <2>2. /\ ToSet(kernel') \subseteq ToSet(kernel)
        /\ \A e \in ToSet(kernel') : e.wd = Head(kernel).wd => e.mask = "ignored"
    BY <2>1, KnownTakes
  <2>3. \A e \in ToSet(kernel') : e.mask = "new directory" => watches'[e.wd] = watches[e.wd]
    BY <1>2, <2>1, <2>2
  <2> QED BY <1>1, <2>1, <2>2, <2>3 DEF PathsInv
<1>7. CASE WatchNew
  <2>1. /\ Takes /\ Head(kernel).mask = "new directory" /\ watches' = watches
        /\ adding' = <<Task("add", FullPath)>> /\ scanQ' = Append(scanQ, FullPath)
        /\ Known
    BY <1>7 DEF WatchNew
  <2>2. Head(kernel) \in ToSet(kernel) /\ ToSet(kernel') \subseteq ToSet(kernel) /\ Head(kernel) \in Events
    BY <2>1, KnownTakes
  <2>3. FullPath \notin Marks /\ FullPath \in Names
    BY <2>1, <2>2, FullPathType DEF PathsInv, FullPath, Known
  <2>4. ToSet(scanQ') = ToSet(scanQ) \cup {FullPath}
    BY <1>7, WatchNewTasks
  <2>5. ToSet(adding') = {Task("add", FullPath)} /\ Task("add", FullPath).path = FullPath
    BY <1>7, WatchNewTasks DEF Task
  <2>6. \A task \in ToSet(adding') : task.path \notin Marks
    BY <2>3, <2>5
  <2> QED BY <1>1, <2>1, <2>2, <2>3, <2>4, <2>6 DEF PathsInv
<1>8. CASE WatchSkips \/ WatchThrows \/ WatchOther
  <2>1. Takes /\ UNCHANGED <<watches, adding, scanQ>>
    BY <1>8 DEF WatchSkips, WatchThrows, WatchOther, watchVars
  <2>2. ToSet(kernel') \subseteq ToSet(kernel)
    BY <2>1, KnownTakes
  <2> QED BY <1>1, <2>1, <2>2 DEF PathsInv
<1>9. CASE InitThrows \/ ListThrows \/ WaitThrows \/ WatchReturns \/ UNCHANGED vars
  BY <1>1, <1>9 DEF PathsInv, InitThrows, ListThrows, WaitThrows, Fails, WatchReturns, vars, watchVars
<1>10. CASE ScanLists \/ ScanFails
  <2>1. UNCHANGED <<kernel, watches, adding>>
    BY <1>10 DEF ScanLists, ScanFails, watchVars
  <2>2. \A path \in ToSet(scanQ') : \/ path \in ToSet(Tail(scanQ))
                                    \/ \E dir \in Children(Head(scanQ)) : path = where[dir]
    BY <1>10, ScanListsTasks, ScanFailsTasks DEF ScanOn
  <2>3. \A path \in ToSet(Tail(scanQ)) : path \notin Marks
    BY <1>10, ScanHead DEF PathsInv, ScanLists, ScanFails
  <2>4. \A dir \in Children(Head(scanQ)) : where[dir] \notin Marks
    BY WhereType DEF Children
  <2> QED BY <1>1, <2>1, <2>2, <2>3, <2>4 DEF PathsInv
<1>11. CASE AddWatchFails
  <2>1. UNCHANGED <<kernel, watches, scanQ>> /\ ToSet(adding') \subseteq ToSet(adding)
    BY <1>11, AddingHead DEF AddWatchFails, Adds
  <2> QED BY <1>1, <2>1 DEF PathsInv
<1> QED BY <1>3, <1>4, <1>5, <1>6, <1>7, <1>8, <1>9, <1>10, <1>11 DEF Next, Watch

\* An event of an unknown id is the overflow.
LEMMA EndsNext ==
  ASSUME TypeOK, KnownInv, OnlyOverflowIsUnknown, [Next]_vars
  PROVE  OnlyOverflowIsUnknown'
<1>1. CASE WatchThrows
  <2>1. EventKnown(Head(kernel))
    BY <1>1, KnownTakes DEF WatchThrows
  <2>2. Head(kernel) = Overflow
    BY <1>1, <2>1 DEF WatchThrows, Known, EventKnown
  <2> QED BY <1>1, <2>2, OverflowType DEF WatchThrows, OnlyOverflowIsUnknown
<1>2. CASE FileSystem
  BY <1>2 DEF FileSystem, Touch, MakeDir, RemoveDir, FreeDir, RenameDir, Changed, watchVars, OnlyOverflowIsUnknown
<1>3. CASE InitThrows \/ ListThrows \/ WaitThrows \/ WatchReturns
  BY <1>3 DEF InitThrows, ListThrows, WaitThrows, Fails, WatchReturns, OnlyOverflowIsUnknown
<1>4. CASE \/ AddWatch \/ AddWatchFails \/ ListWatched \/ WatchSkips \/ WatchSelfGone \/ WatchNew \/ WatchOther
           \/ ScanLists \/ ScanFails \/ UNCHANGED vars
  BY <1>4 DEF AddWatch, AddWatchFails, ListWatched, WatchSkips, WatchSelfGone, WatchNew, WatchOther, ScanLists, ScanFails,
     vars, watchVars, OnlyOverflowIsUnknown
<1> QED BY <1>1, <1>2, <1>3, <1>4 DEF Next, Watch

-----------------------------------------------------------------------------
(* Nothing is lost *)

LEMMA InitLost ==
  ASSUME Init
  PROVE  LostInv
<1>1. TypeOK
  BY InitType
<1>2. ToSet(adding) = {Task("add", Root)} /\ ToSet(scanQ) = {Root} /\ unseen = {}
  BY InOne DEF Init
<1>3. ASSUME NEW dir \in Dirs, InTree(dir) PROVE Kept(dir)
  <2>1. IsPrefix(Root, where[dir])
    <3>1. where[dir] \in Names /\ Root \in Names
      BY <1>1, <1>3, WhereType, PathTypes
    <3>2. Len(Root) = 0 /\ Len(where[dir]) \in Nat
      BY <3>1 DEF Root, Names
    <3> QED BY <3>1, <3>2, PrefixIs
  <2>2. WatchPending(where[dir]) /\ ScanPending(where[dir])
    BY <1>2, <2>1 DEF WatchPending, ScanPending, Task
  <2> QED BY <1>2, <2>2 DEF Kept
<1> QED BY <1>3 DEF LostInv, NothingLost, Covered

LEMMA InQueues ==
  ASSUME TypeOK
  PROVE  /\ \A e \in ToSet(kernel) : e \in Events
         /\ \A task \in ToSet(adding) : task \in Tasks /\ task.path \in Names
         /\ \A start \in ToSet(scanQ) : start \in Names
<1>1. ASSUME NEW S, NEW q \in Seq(S) PROVE \A x \in ToSet(q) : x \in S
  BY <1>1 DEF ToSet
<1>2. kernel \in Seq(Events) /\ adding \in Seq(Tasks) /\ scanQ \in Seq(Names)
  BY DEF TypeOK
<1>3. \A task \in Tasks : task.path \in Names
  BY DEF Tasks
<1> QED BY <1>1, <1>2, <1>3

\* What is pending stays so while the file system queues events.
LEMMA StaysPending ==
  ASSUME NEW q, Posted(kernel', q), UNCHANGED <<watches, adding, scanQ>>
  PROVE  /\ \A path : WatchPending(path) => WatchPending(path)'
         /\ \A path : ScanPending(path) => ScanPending(path)'
         /\ \A dir : LookPending(dir) => LookPending(dir)'
<1>1. ToSet(kernel) \subseteq ToSet(kernel')
  BY DEF Posted
<1>2. ASSUME NEW path, NewPending(path) PROVE NewPending(path)'
  BY <1>1, <1>2 DEF NewPending
<1>3. ASSUME NEW path, WatchPending(path) PROVE WatchPending(path)'
  BY <1>2, <1>3 DEF WatchPending
<1>4. ASSUME NEW path, ScanPending(path) PROVE ScanPending(path)'
  BY <1>2, <1>4 DEF ScanPending
<1>5. ASSUME NEW dir, LookPending(dir) PROVE LookPending(dir)'
  BY <1>1, <1>5 DEF LookPending
<1> QED BY <1>3, <1>4, <1>5

LEMMA KeptSame ==
  ASSUME NEW dir \in Dirs, Kept(dir), where'[dir] = where[dir],
         NEW events, Posted(kernel', events), UNCHANGED <<watches, adding, scanQ, listed>>,
         early \subseteq early', dir \in watched => dir \in watched',
         dir \in unseen' => dir \in unseen \/ dir \in early' \/ ScanPending(where[dir]) \/ LookPending(dir)'
  PROVE  Kept(dir)'
<1>1. /\ WatchPending(where[dir]) => WatchPending(where[dir])'
      /\ ScanPending(where[dir]) => ScanPending(where[dir])'
      /\ LookPending(dir) => LookPending(dir)'
  <2>1. /\ \A path : WatchPending(path) => WatchPending(path)'
        /\ \A path : ScanPending(path) => ScanPending(path)'
        /\ \A d : LookPending(d) => LookPending(d)'
    BY StaysPending
  <2> QED BY <2>1 DEF WatchPending, ScanPending, NewPending
<1> QED BY <1>1 DEF Kept

\* A change in a directory is told, or is found by a scan, or nobody watched yet.
LEMMA Noticed ==
  ASSUME TypeOK, KnownInv, NEW dir \in Dirs, Kept(dir), InTree(dir), dir \notin stray,
         NEW events, Posted(kernel', events), watches' = watches, Overflow \notin ToSet(kernel'),
         NEW e \in events, e.wd = dir, e.mask \notin {"ignored", "self gone"},
         where[dir] \o e.path \notin Ignored, Unwatched(dir) => dir \in early'
  PROVE  dir \in early' \/ ScanPending(where[dir]) \/ LookPending(dir)'
<1>1. CASE dir \in watched
  <2>1. watches[dir] = where[dir]
    BY <1>1 DEF KnownInv, DirsKnown
  <2>2. e \in ToSet(kernel')
    BY <1>1 DEF Posted
  <2>3. LookPending(dir)'
    BY <2>1, <2>2 DEF LookPending
  <2> QED BY <2>3
<1>2. CASE dir \notin watched
  BY <1>2 DEF Kept, Unwatched
<1> QED BY <1>1, <1>2

\* A prefix of what is covered is covered.
LEMMA CoveredAbove ==
  ASSUME TypeOK, NEW dir \in Dirs, InTree(dir), recursive, NEW path \in Paths,
         \A ignored \in Ignored : ~IsPrefix(ignored, path), IsPrefix(where[dir], path)
  PROVE  Covered(dir)
<1>1. where[dir] \in Names /\ path \in Names /\ Ignored \subseteq Names
  BY WhereType, PathTypes
<1>2. \A ignored \in Ignored : ~IsPrefix(ignored, where[dir])
  BY <1>1, PrefixTransitive
<1> QED BY <1>2 DEF Covered

LEMMA LostTouch ==
  ASSUME TypeOK, TreeInv, KnownInv, NothingLost, NEW dir \in Dirs, Touch(dir), Overflow \notin ToSet(kernel')
  PROVE  NothingLost'
<1> DEFINE e == Event(dir, "file", Root)
<1>1. /\ UNCHANGED <<where, stray, recursive, watched, watches, adding, scanQ, listed>>
      /\ unseen' = unseen \cup {dir} /\ early' = early \cup {d \in {dir} : Unwatched(d)} /\ InTree(dir)
  BY DEF Touch, Changed, watchVars
<1>2. Posted(kernel', {e})
  BY TouchPosts
<1> SUFFICES ASSUME NEW d \in Dirs, Covered(d)', d \notin stray' PROVE Kept(d)'
  BY DEF NothingLost
<1>3. Covered(d) /\ Kept(d) /\ InTree(d) /\ d \notin stray
  BY <1>1 DEF Covered, InTree, NothingLost
<1>4. d = dir => d \in early' \/ ScanPending(where[d]) \/ LookPending(d)'
  <2> SUFFICES ASSUME d = dir PROVE d \in early' \/ ScanPending(where[d]) \/ LookPending(d)'
    OBVIOUS
  <2>1. where[d] \in Names
    BY <1>3, WhereType
  <2>2. where[d] \o Root = where[d]
    BY <2>1 DEF Names, Root
  <2>3. where[d] \notin Ignored
    BY <1>3, <2>1, PrefixReflexive DEF Covered
  <2>4. e.wd = d /\ e.mask = "file" /\ e.path = Root
    BY DEF Event
  <2> HIDE DEF e
  <2> QED BY <1>1, <1>2, <1>3, <2>2, <2>3, <2>4, Noticed
<1>5. d \in unseen' => d \in unseen \/ d \in early' \/ ScanPending(where[d]) \/ LookPending(d)'
  BY <1>1, <1>4
<1> HIDE DEF e
<1> QED BY <1>1, <1>2, <1>3, <1>5, KeptSame

\* The parent of a path that is made, left or removed.
LEMMA ParentNoticed ==
  ASSUME TypeOK, TreeInv, KnownInv, NEW path \in Paths \ {Root}, At(Front(path)) # {},
         NEW dir \in Noted(path), Kept(dir), dir \notin stray,
         NEW events, Posted(kernel', events), watches' = watches, Overflow \notin ToSet(kernel'),
         NEW mask \in {"new directory", "directory gone", "moved away"},
         Event(Parent(path), mask, <<Last(path)>>) \in events, Unwatched(dir) => dir \in early'
  PROVE  dir \in early' \/ ScanPending(where[dir]) \/ LookPending(dir)'
<1> DEFINE e == Event(Parent(path), mask, <<Last(path)>>)
<1>1. dir = Parent(path) /\ dir \in Dirs /\ InTree(dir) /\ where[dir] = Front(path) /\ path \notin Ignored
  BY Parents DEF Noted
<1>2. path \in Names /\ Front(path) \o <<Last(path)>> = path
  BY PathTypes, FrontAndLast
<1>3. e.wd = dir /\ e.mask = mask /\ e.path = <<Last(path)>> /\ e \in events
  BY <1>1 DEF Event
<1> HIDE DEF e
<1>4. where[dir] \o e.path = path
  BY <1>1, <1>2, <1>3, Zenon
<1> QED BY <1>1, <1>3, <1>4, Noticed

LEMMA LostMakeDir ==
  ASSUME TypeOK, TreeInv, KnownInv, NothingLost, NEW dir \in Dirs, NEW path \in Paths, MakeDir(dir, path),
         Overflow \notin ToSet(kernel')
  PROVE  NothingLost'
<1> DEFINE p == Parent(path)
           e == Event(p, "new directory", <<Last(path)>>)
           events == {e}
<1>1. /\ where[dir] = New /\ path \in Names /\ path \in Paths \ {Root} /\ At(Front(path)) # {}
      /\ where'[dir] = path /\ \A d \in Dirs \ {dir} : where'[d] = where[d]
      /\ UNCHANGED <<recursive, watched, watches, adding, scanQ, listed>> /\ unseen' = unseen \cup Noted(path)
      /\ stray' = stray \cup {d \in {dir} : p \in stray}
  BY PathTypes DEF MakeDir, Free, Changed, watchVars, TypeOK
<1>2. /\ p \in Dirs /\ InTree(p) /\ Noted(path) \subseteq {p} /\ where[p] = Front(path) /\ At(Front(path)) = {p}
      /\ where[p] \in Names /\ where[p] \notin Marks /\ p # dir
  BY <1>1, Parents, WhereType DEF Marks
<1>3. early' = early \cup UNION {{parent, dir} : parent \in {q \in {p} : Unwatched(q)}}
  BY <1>2 DEF MakeDir
<1>4. early \subseteq early' /\ (Unwatched(p) => p \in early' /\ dir \in early')
  BY <1>3
<1>5. Posted(kernel', events) /\ e \in events
  BY MakeDirPosts
<1> SUFFICES ASSUME NEW d \in Dirs, Covered(d)', d \notin stray' PROVE Kept(d)'
  BY DEF NothingLost
<1>6. CASE d # dir
  <2>1. Covered(d) /\ Kept(d) /\ d \notin stray
    BY <1>1, <1>6 DEF Covered, InTree, NothingLost
  <2>2. d \in Noted(path) => d \in early' \/ ScanPending(where[d]) \/ LookPending(d)'
    <3> SUFFICES ASSUME d \in Noted(path) PROVE d \in early' \/ ScanPending(where[d]) \/ LookPending(d)'
      OBVIOUS
    <3>1. Unwatched(d) => d \in early'
      BY <1>2, <1>4
    <3>2. Event(Parent(path), "new directory", <<Last(path)>>) \in events
      OBVIOUS
    <3> HIDE DEF events
    <3> QED BY <1>1, <1>5, <2>1, <3>1, <3>2, ParentNoticed
  <2>3. d \in unseen' => d \in unseen \/ d \in early' \/ ScanPending(where[d]) \/ LookPending(d)'
    BY <1>1, <2>2
  <2>4. where'[d] = where[d] /\ (d \in watched => d \in watched')
    BY <1>1, <1>6
  <2> HIDE DEF events
  <2> QED BY <1>1, <1>4, <1>5, <2>1, <2>3, <2>4, KeptSame
<1>7. CASE d = dir
  <2>1. /\ recursive /\ p \notin stray /\ \A ignored \in Ignored : ~IsPrefix(ignored, path)
    BY <1>1, <1>7 DEF Covered
  <2>2. IsPrefix(where[p], path) /\ where[p] # path /\ Front(path) \o <<Last(path)>> = path
    BY <1>1, <1>2, FrontAndLast
  <2>3. Covered(p) /\ Kept(p)
    BY <1>2, <2>1, <2>2, CoveredAbove DEF NothingLost
  <2>4. \A q \in Names : IsPrefix(q, where[p]) => IsPrefix(q, path) /\ q # path
    <3> SUFFICES ASSUME NEW q \in Names, IsPrefix(q, where[p]) PROVE IsPrefix(q, path) /\ q # path
      OBVIOUS
    <3>1. IsPrefix(q, path)
      BY <1>1, <1>2, <2>2, PrefixTransitive
    <3>2. q # path
      <4>1. Len(q) <= Len(Front(path)) /\ Len(path) \in Nat /\ Len(Front(path)) = Len(path) - 1
        BY <1>1, <1>2, FrontAndLast, PrefixIs
      <4> QED BY <4>1
    <3> QED BY <3>1, <3>2
  <2>5. p \in watched => NewPending(path)'
    <3> SUFFICES ASSUME p \in watched PROVE NewPending(path)'
      OBVIOUS
    <3>1. p \in DOMAIN watches /\ watches[p] = Front(path)
      BY <1>2, <2>1 DEF KnownInv, DirsKnown
    <3>2. e.wd = p /\ e.mask = "new directory" /\ e.path = <<Last(path)>>
      BY DEF Event
    <3> HIDE DEF e
    <3>3. e \in ToSet(kernel')
      BY <1>5, <3>2 DEF Posted
    <3>4. watches[e.wd] \o e.path = path
      BY <2>2, <3>1, <3>2, Zenon
    <3>5. IsPrefix(watches[e.wd] \o e.path, path)
      BY <1>1, <3>4, PrefixReflexive
    <3> QED BY <1>1, <3>1, <3>2, <3>3, <3>5 DEF NewPending
  <2>6. NewPending(where[p]) => NewPending(path)
    <3> SUFFICES ASSUME NewPending(where[p]) PROVE NewPending(path)
      OBVIOUS
    <3>1. PICK f \in ToSet(kernel) : f.mask = "new directory" /\ f.wd \in DOMAIN watches /\ IsPrefix(watches[f.wd] \o f.path, where[p])
      BY DEF NewPending
    <3>2. f \in Events
      BY InQueues
    <3>3. watches[f.wd] \o f.path \in Names
      BY <3>1, <3>2, FullPathType
    <3> QED BY <2>4, <3>1, <3>3 DEF NewPending
  <2>7. WatchPending(where[p]) => WatchPending(path)
    <3>1. \A task \in ToSet(adding) : task.path \in Names
      BY InQueues
    <3> QED BY <2>4, <2>6, <3>1 DEF WatchPending
  <2>8. ScanPending(where[p]) => ScanPending(path)
    <3>1. \A start \in ToSet(scanQ) : start \in Names
      BY InQueues
    <3> QED BY <2>4, <2>6, <3>1 DEF ScanPending
  <2>9. WatchPending(path) => WatchPending(path)'
    BY <1>1, <1>5, StaysPending
  <2>10. ScanPending(path) => ScanPending(path)'
    BY <1>1, <1>5, StaysPending
  <2>11. WatchPending(path)'
    BY <2>3, <2>5, <2>7, <2>9 DEF Kept, WatchPending
  <2>12. dir \in early' \/ ScanPending(path)'
    BY <1>4, <2>3, <2>5, <2>8, <2>10 DEF Kept, ScanPending, Unwatched
  <2>13. dir \notin unseen'
    BY <1>1, <1>2 DEF KnownInv, DirsKnown
  <2>14. WatchPending(where[dir])' /\ (dir \in early' \/ ScanPending(where[dir])')
    <3>1. where'[dir] = path
      BY <1>1
    <3>2. WatchPending(where[dir])'
      BY <2>11, <3>1 DEF WatchPending, NewPending
    <3>3. ScanPending(path)' => ScanPending(where[dir])'
      BY <3>1 DEF ScanPending, NewPending
    <3> QED BY <2>12, <3>2, <3>3
  <2> QED BY <1>7, <2>13, <2>14 DEF Kept
<1> QED BY <1>6, <1>7

LEMMA LostRemoveDir ==
  ASSUME TypeOK, TreeInv, KnownInv, NothingLost, NEW dir \in Dirs, RemoveDir(dir), Overflow \notin ToSet(kernel')
  PROVE  NothingLost'
<1> DEFINE from == where[dir]
           e == Event(Parent(from), "directory gone", <<Last(from)>>)
           events == {e}
<1>1. /\ from \in Paths \ {Root} /\ At(Front(from)) # {}
      /\ where'[dir] = Removed /\ \A d \in Dirs \ {dir} : where'[d] = where[d]
      /\ UNCHANGED <<recursive, watched, watches, adding, scanQ, listed, stray>>
      /\ unseen' = unseen \cup Noted(from)
      /\ early' = early \cup {parent \in At(Front(from)) : Unwatched(parent)}
  BY ParentOfDir DEF RemoveDir, Changed, watchVars, TypeOK
<1>2. Posted(kernel', events) /\ e \in events
  BY RemoveDirPosts
<1>3. At(Front(from)) = {Parent(from)} /\ Noted(from) \subseteq {Parent(from)}
  BY <1>1, Parents
<1> HIDE DEF from
<1> SUFFICES ASSUME NEW d \in Dirs, Covered(d)', d \notin stray' PROVE Kept(d)'
  BY DEF NothingLost
<1>4. d # dir
  BY <1>1, PathTypes DEF Covered, InTree, Marks
<1>5. Covered(d) /\ Kept(d) /\ d \notin stray
  BY <1>1, <1>4 DEF Covered, InTree, NothingLost
<1>6. d \in Noted(from) => d \in early' \/ ScanPending(where[d]) \/ LookPending(d)'
  <2> SUFFICES ASSUME d \in Noted(from) PROVE d \in early' \/ ScanPending(where[d]) \/ LookPending(d)'
    OBVIOUS
  <2>1. Unwatched(d) => d \in early'
    BY <1>1, <1>3
  <2>2. Event(Parent(from), "directory gone", <<Last(from)>>) \in events
    OBVIOUS
  <2> HIDE DEF events
  <2> QED BY <1>1, <1>2, <1>5, <2>1, <2>2, ParentNoticed
<1>7. d \in unseen' => d \in unseen \/ d \in early' \/ ScanPending(where[d]) \/ LookPending(d)'
  BY <1>1, <1>6
<1>8. where'[d] = where[d] /\ (d \in watched => d \in watched') /\ early \subseteq early'
  BY <1>1, <1>4
<1> HIDE DEF events
<1> QED BY <1>1, <1>2, <1>5, <1>7, <1>8, KeptSame

LEMMA LostFreeDir ==
  ASSUME TypeOK, TreeInv, KnownInv, NothingLost, NEW dir \in Dirs, FreeDir(dir)
  PROVE  NothingLost'
<1> DEFINE events == {Event(dir, "self gone", Root), Event(dir, "ignored", Root)}
<1>1. /\ where[dir] = Removed /\ watched' = watched \ {dir}
      /\ UNCHANGED <<where, stray, recursive, watches, adding, scanQ, unseen, listed, early>>
  BY DEF FreeDir, watchVars, fsVars
<1>2. Posted(kernel', events)
  BY FreeDirPosts
<1> SUFFICES ASSUME NEW d \in Dirs, Covered(d)', d \notin stray' PROVE Kept(d)'
  BY DEF NothingLost
<1>3. d # dir
  BY <1>1, PathTypes DEF Covered, InTree, Marks
<1>4. Covered(d) /\ Kept(d)
  BY <1>1 DEF Covered, InTree, NothingLost
<1>5. /\ where'[d] = where[d] /\ (d \in watched => d \in watched') /\ early \subseteq early'
      /\ d \in unseen' => d \in unseen
  BY <1>1, <1>3
<1> HIDE DEF events
<1> QED BY <1>1, <1>2, <1>4, <1>5, KeptSame

LEMMA LostRenameDir ==
  ASSUME TypeOK, TreeInv, KnownInv, NothingLost, NEW dir \in Dirs, NEW path \in Paths, RenameDir(dir, path),
         Overflow \notin ToSet(kernel')
  PROVE  NothingLost'
<1> DEFINE from == where[dir]
           events == {Event(Parent(from), "moved away", <<Last(from)>>),
                      Event(Parent(path), "new directory", <<Last(path)>>),
                      Event(dir, "self moved", Root)}
<1>1. /\ from \in Paths \ {Root} /\ At(Front(from)) # {}
      /\ path \in Paths \ {Root} /\ At(Front(path)) # {}
  BY ParentOfDir DEF RenameDir, Free
<1>2. /\ stray' = stray \cup Below(from)
      /\ UNCHANGED <<recursive, watched, watches, adding, scanQ, listed>>
      /\ unseen' = unseen \cup (Noted(from) \cup Noted(path))
      /\ early' = early \cup {parent \in At(Front(from)) \cup At(Front(path)) : Unwatched(parent)}
  BY DEF RenameDir, Changed, watchVars
<1>3. \A d \in Dirs \ Below(from) : where'[d] = where[d]
  BY Renamed
<1>4. Posted(kernel', events)
  BY RenameDirPosts
<1>5. /\ At(Front(from)) = {Parent(from)} /\ Noted(from) \subseteq {Parent(from)}
      /\ At(Front(path)) = {Parent(path)} /\ Noted(path) \subseteq {Parent(path)}
  BY <1>1, Parents
<1>6. /\ Event(Parent(from), "moved away", <<Last(from)>>) \in events
      /\ Event(Parent(path), "new directory", <<Last(path)>>) \in events
  OBVIOUS
<1> HIDE DEF from, events
<1> SUFFICES ASSUME NEW d \in Dirs, Covered(d)', d \notin stray' PROVE Kept(d)'
  BY DEF NothingLost
<1>7. where'[d] = where[d] /\ d \notin stray
  BY <1>2, <1>3
<1>8. Covered(d) /\ Kept(d)
  BY <1>2, <1>7 DEF Covered, InTree, NothingLost
<1>9. ASSUME d \in Noted(from) PROVE d \in early' \/ ScanPending(where[d]) \/ LookPending(d)'
  <2>1. Unwatched(d) => d \in early'
    BY <1>2, <1>5, <1>9
  <2> QED BY <1>1, <1>2, <1>4, <1>6, <1>7, <1>8, <1>9, <2>1, ParentNoticed
<1>10. ASSUME d \in Noted(path) PROVE d \in early' \/ ScanPending(where[d]) \/ LookPending(d)'
  <2>1. Unwatched(d) => d \in early'
    BY <1>2, <1>5, <1>10
  <2> QED BY <1>1, <1>2, <1>4, <1>6, <1>7, <1>8, <1>10, <2>1, ParentNoticed
<1>11. d \in unseen' => d \in unseen \/ d \in early' \/ ScanPending(where[d]) \/ LookPending(d)'
  BY <1>2, <1>9, <1>10
<1>12. (d \in watched => d \in watched') /\ early \subseteq early'
  BY <1>2
<1> QED BY <1>2, <1>4, <1>7, <1>8, <1>11, <1>12, KeptSame

\* The way to what is covered goes on, unless the watch is of one directory.
LEMMA OnTheWayCovered ==
  ASSUME TypeOK, TreeInv, NEW dir \in Dirs, Covered(dir), NEW path \in Names, IsPrefix(path, where[dir]), path # where[dir]
  PROVE  /\ recursive /\ At(path) # {}
         /\ \E child \in Children(path) : IsPrefix(where[child], where[dir])
<1>1. InTree(dir) /\ where[dir] \in Names
  BY WhereType DEF Covered
<1>2. where[dir] # Root
  <2> SUFFICES ASSUME where[dir] = Root PROVE path = Root
    OBVIOUS
  <2>1. Root \in Names /\ Len(path) \in Nat /\ Len(Root) = 0
    BY PathTypes DEF Root, Names
  <2>2. IsPrefix(path, Root)
    OBVIOUS
  <2>3. Len(path) <= Len(Root)
    BY <2>1, <2>2, PrefixIs
  <2>4. Len(path) = 0
    BY <2>1, <2>3
  <2> QED BY <2>4 DEF Names, Root
<1> QED BY <1>1, <1>2, OnTheWay DEF Covered

LEMMA LostAddWatch ==
  ASSUME TypeOK, TreeInv, KnownInv, NothingLost, AddWatch
  PROVE  NothingLost'
<1> DEFINE path == Head(adding).path
<1>1. /\ UNCHANGED <<where, stray, recursive, listed, early, kernel, scanQ, unseen>>
      /\ watched' = watched \cup At(path)
      /\ \A dir \in DOMAIN watches : dir \in DOMAIN watches' /\ watches'[dir] = watches[dir]
      /\ ToSet(adding') = ToSet(Tail(adding)) \cup (IF At(path) # {} /\ recursive THEN {Task("list", path)} ELSE {})
  BY AddWatchTasks DEF AddWatch, disk, fsVars
<1>2. /\ path \in Names /\ ToSet(adding) = {Head(adding)} \cup ToSet(Tail(adding))
  BY AddingHead DEF AddWatch, Adds
<1> SUFFICES ASSUME NEW d \in Dirs, Covered(d)', d \notin stray' PROVE Kept(d)'
  BY DEF NothingLost
<1>3. Covered(d) /\ Kept(d)
  BY <1>1 DEF Covered, InTree, NothingLost
<1>4. NewPending(where[d]) => NewPending(where[d])'
  BY <1>1 DEF NewPending
<1>5. ScanPending(where[d]) => ScanPending(where[d])'
  BY <1>1, <1>4 DEF ScanPending
<1>6. LookPending(d) => LookPending(d)'
  <2> SUFFICES ASSUME NEW e \in ToSet(kernel), e.wd = d, e.mask \notin {"ignored", "self gone"},
                      watches[d] \o e.path \notin Ignored
               PROVE  LookPending(d)'
    BY DEF LookPending
  <2>1. d \in DOMAIN watches
    BY OverflowType DEF KnownInv, EventKnown
  <2> QED BY <1>1, <2>1 DEF LookPending
<1>7. d \in watched' \/ WatchPending(where[d])'
  <2>1. CASE d \in watched
    BY <1>1, <2>1
  <2>2. CASE NewPending(where[d])
    BY <1>4, <2>2 DEF WatchPending
  <2>3. ASSUME NEW task \in ToSet(adding), IsPrefix(task.path, where[d]), task.step = "list" => task.path # where[d]
        PROVE  d \in watched' \/ WatchPending(where[d])'
    <3>1. CASE task \in ToSet(Tail(adding))
      BY <1>1, <2>3, <3>1 DEF WatchPending
    <3>2. CASE task = Head(adding) /\ path = where[d]
      BY <1>1, <3>2 DEF At
    <3>3. CASE task = Head(adding) /\ path # where[d]
      <4>1. recursive /\ At(path) # {} /\ IsPrefix(path, where[d])
        BY <1>2, <1>3, <2>3, <3>3, OnTheWayCovered
      <4>2. Task("list", path) \in ToSet(adding') /\ Task("list", path).path = path
        BY <1>1, <4>1 DEF Task
      <4> QED BY <1>1, <3>3, <4>1, <4>2 DEF WatchPending
    <3> QED BY <1>2, <2>3, <3>1, <3>2, <3>3
  <2> QED BY <1>3, <2>1, <2>2, <2>3 DEF Kept, WatchPending
<1> QED BY <1>1, <1>3, <1>5, <1>6, <1>7 DEF Kept

LEMMA LostListWatched ==
  ASSUME TypeOK, TreeInv, KnownInv, NothingLost, ListWatched
  PROVE  NothingLost'
<1> DEFINE path == Head(adding).path
<1>1. /\ UNCHANGED <<where, stray, recursive, listed, early, kernel, watched, watches, scanQ, unseen>>
      /\ ToSet(adding') = ToSet(Tail(adding)) \cup {Task("add", where[dir]) : dir \in Children(path)}
  BY ListTasks DEF ListWatched, disk, fsVars
<1>2. /\ path \in Names /\ ToSet(adding) = {Head(adding)} \cup ToSet(Tail(adding)) /\ Head(adding).step = "list"
  BY AddingHead DEF ListWatched, Adds
<1> SUFFICES ASSUME NEW d \in Dirs, Covered(d)', d \notin stray' PROVE Kept(d)'
  BY DEF NothingLost
<1>3. Covered(d) /\ Kept(d)
  BY <1>1 DEF Covered, InTree, NothingLost
<1>4. /\ NewPending(where[d]) => NewPending(where[d])'
      /\ LookPending(d) => LookPending(d)'
  BY <1>1 DEF NewPending, LookPending
<1>5. ScanPending(where[d]) => ScanPending(where[d])'
  BY <1>1, <1>4 DEF ScanPending
<1>6. WatchPending(where[d]) => WatchPending(where[d])'
  <2>1. CASE NewPending(where[d])
    BY <1>4, <2>1 DEF WatchPending
  <2>2. ASSUME NEW task \in ToSet(adding), IsPrefix(task.path, where[d]), task.step = "list" => task.path # where[d]
        PROVE  WatchPending(where[d])'
    <3>1. CASE task \in ToSet(Tail(adding))
      BY <1>1, <2>2, <3>1 DEF WatchPending
    <3>2. CASE task = Head(adding)
      <4>1. PICK child \in Children(path) : IsPrefix(where[child], where[d])
        BY <1>2, <1>3, <2>2, <3>2, OnTheWayCovered
      <4>2. /\ Task("add", where[child]) \in ToSet(adding')
            /\ Task("add", where[child]).path = where[child] /\ Task("add", where[child]).step # "list"
        BY <1>1, <4>1 DEF Task
      <4> QED BY <1>1, <4>1, <4>2 DEF WatchPending
    <3> QED BY <1>2, <2>2, <3>1, <3>2
  <2> QED BY <2>1, <2>2 DEF WatchPending
<1> QED BY <1>1, <1>3, <1>4, <1>5, <1>6 DEF Kept

LEMMA LostScanLists ==
  ASSUME TypeOK, TreeInv, KnownInv, NothingLost, ScanLists
  PROVE  NothingLost'
<1> DEFINE path == Head(scanQ)
<1>1. /\ UNCHANGED <<where, stray, recursive, early, kernel, watched, watches, adding>>
      /\ unseen' = unseen \ At(path) /\ listed' = listed \cup At(path)
      /\ ToSet(scanQ') = ToSet(Tail(scanQ)) \cup
           {where[dir] : dir \in IF recursive /\ At(path) # {} THEN Children(path) ELSE {}}
  BY ScanListsTasks DEF ScanLists, ScanOn, fsVars, watchVars
<1>2. /\ path \in Names /\ ToSet(scanQ) = {path} \cup ToSet(Tail(scanQ))
  BY ScanHead DEF ScanLists
<1> SUFFICES ASSUME NEW d \in Dirs, Covered(d)', d \notin stray' PROVE Kept(d)'
  BY DEF NothingLost
<1>3. Covered(d) /\ Kept(d)
  BY <1>1 DEF Covered, InTree, NothingLost
<1>4. /\ NewPending(where[d]) => NewPending(where[d])'
      /\ LookPending(d) => LookPending(d)'
  BY <1>1 DEF NewPending, LookPending
<1>5. WatchPending(where[d]) => WatchPending(where[d])'
  BY <1>1, <1>4 DEF WatchPending
<1>6. ScanPending(where[d]) => ScanPending(where[d])' \/ d \in At(path)
  <2>1. CASE NewPending(where[d])
    BY <1>4, <2>1 DEF ScanPending
  <2>2. ASSUME NEW start \in ToSet(scanQ), IsPrefix(start, where[d])
        PROVE  ScanPending(where[d])' \/ d \in At(path)
    <3>1. CASE start \in ToSet(Tail(scanQ))
      BY <1>1, <2>2, <3>1 DEF ScanPending
    <3>2. CASE start = path /\ path = where[d]
      BY <3>2 DEF At
    <3>3. CASE start = path /\ path # where[d]
      <4>1. recursive /\ At(path) # {} /\ \E child \in Children(path) : IsPrefix(where[child], where[d])
        BY <1>2, <1>3, <2>2, <3>3, OnTheWayCovered
      <4>2. PICK child \in Children(path) : IsPrefix(where[child], where[d])
        BY <4>1
      <4>3. where[child] \in ToSet(scanQ')
        BY <1>1, <4>1, <4>2
      <4> QED BY <1>1, <4>2, <4>3 DEF ScanPending
    <3> QED BY <1>2, <2>2, <3>1, <3>2, <3>3
  <2> QED BY <2>1, <2>2 DEF ScanPending
<1> QED BY <1>1, <1>3, <1>4, <1>5, <1>6 DEF Kept

\* A directory that could not be watched is stray, with what is below it.
LEMMA LostAddWatchFails ==
  ASSUME TypeOK, TreeInv, KnownInv, NothingLost, AddWatchFails
  PROVE  NothingLost'
<1> DEFINE path == Head(adding).path
<1>1. /\ UNCHANGED <<where, recursive, listed, early, kernel, watched, watches, scanQ, unseen>>
      /\ adding' = Tail(adding) /\ stray' = stray \cup Below(path)
  BY DEF AddWatchFails
<1>2. ToSet(adding) = {Head(adding)} \cup ToSet(Tail(adding))
  BY AddingHead DEF AddWatchFails, Adds
<1> SUFFICES ASSUME NEW d \in Dirs, Covered(d)', d \notin stray' PROVE Kept(d)'
  BY DEF NothingLost
<1>3. Covered(d) /\ Kept(d)
  BY <1>1 DEF Covered, InTree, NothingLost
<1>4. ~IsPrefix(path, where[d])
  BY <1>1, <1>3 DEF Below, Covered
<1>5. /\ NewPending(where[d]) => NewPending(where[d])'
      /\ LookPending(d) => LookPending(d)'
  BY <1>1 DEF NewPending, LookPending
<1>6. ScanPending(where[d]) => ScanPending(where[d])'
  BY <1>1, <1>5 DEF ScanPending
<1>7. WatchPending(where[d]) => WatchPending(where[d])'
  BY <1>1, <1>2, <1>4, <1>5 DEF WatchPending
<1> QED BY <1>1, <1>3, <1>5, <1>6, <1>7 DEF Kept

\* What a scan could not list is early, the other directories will be listed.
LEMMA LostScanFails ==
  ASSUME TypeOK, TreeInv, KnownInv, NothingLost, ScanFails
  PROVE  NothingLost'
<1> DEFINE path == Head(scanQ)
<1>1. UNCHANGED <<where, stray, recursive, kernel, watched, watches, adding, unseen, listed>>
  BY DEF ScanFails, watchVars
<1>2. PICK dirs \in SUBSET Children(path) :
        /\ ToSet(scanQ') = ToSet(Tail(scanQ)) \cup {where[dir] : dir \in dirs}
        /\ early' = early \cup At(path) \cup UNION {Below(where[dir]) : dir \in Children(path) \ dirs}
  BY ScanFailsTasks
<1>3. /\ path \in Names /\ ToSet(scanQ) = {path} \cup ToSet(Tail(scanQ))
  BY ScanHead DEF ScanFails
<1> SUFFICES ASSUME NEW d \in Dirs, Covered(d)', d \notin stray' PROVE Kept(d)'
  BY DEF NothingLost
<1>4. Covered(d) /\ Kept(d)
  BY <1>1 DEF Covered, InTree, NothingLost
<1>5. /\ NewPending(where[d]) => NewPending(where[d])'
      /\ LookPending(d) => LookPending(d)'
  BY <1>1 DEF NewPending, LookPending
<1>6. WatchPending(where[d]) => WatchPending(where[d])'
  BY <1>1, <1>5 DEF WatchPending
<1>7. ScanPending(where[d]) => ScanPending(where[d])' \/ d \in early'
  <2>1. CASE NewPending(where[d])
    BY <1>5, <2>1 DEF ScanPending
  <2>2. ASSUME NEW start \in ToSet(scanQ), IsPrefix(start, where[d])
        PROVE  ScanPending(where[d])' \/ d \in early'
    <3>1. CASE start \in ToSet(Tail(scanQ))
      BY <1>1, <1>2, <2>2, <3>1 DEF ScanPending
    <3>2. CASE start = path /\ path = where[d]
      BY <1>2, <3>2 DEF At
    <3>3. CASE start = path /\ path # where[d]
      <4>1. PICK child \in Children(path) : IsPrefix(where[child], where[d])
        BY <1>3, <1>4, <2>2, <3>3, OnTheWayCovered
      <4>2. CASE child \in dirs
        <5>1. where[child] \in ToSet(scanQ')
          BY <1>2, <4>2
        <5> QED BY <1>1, <4>1, <5>1 DEF ScanPending
      <4>3. CASE child \notin dirs
        <5>1. d \in Below(where[child])
          BY <1>4, <4>1 DEF Below, Covered
        <5> QED BY <1>2, <4>1, <4>3, <5>1
      <4> QED BY <4>2, <4>3
    <3> QED BY <1>3, <2>2, <3>1, <3>2, <3>3
  <2> QED BY <2>1, <2>2 DEF ScanPending
<1>8. early \subseteq early'
  BY <1>2
<1> QED BY <1>1, <1>4, <1>5, <1>6, <1>7, <1>8 DEF Kept

\* What one event stands for goes on, or was not about what is covered.
LEMMA LostTakes ==
  ASSUME TypeOK, TreeInv, KnownInv, NothingLost, Takes, WatchSkips \/ WatchSelfGone \/ WatchNew \/ WatchOther
  PROVE  NothingLost'
<1> DEFINE h == Head(kernel)
<1>1. /\ UNCHANGED <<where, stray, recursive, listed, early, watched>> /\ adding = <<>>
      /\ ToSet(kernel) = {h} \cup ToSet(kernel') /\ h \in Events /\ h \in ToSet(kernel)
      /\ \A e \in ToSet(kernel') : (h.mask = "self gone" /\ e.wd = h.wd) => e.mask = "ignored"
  BY KnownTakes DEF Takes, disk, fsVars
<1> SUFFICES ASSUME NEW d \in Dirs, Covered(d)', d \notin stray' PROVE Kept(d)'
  BY DEF NothingLost
<1>2. Covered(d) /\ Kept(d) /\ InTree(d) /\ d \notin stray
  BY <1>1 DEF Covered, InTree, NothingLost
<1>3. \A e \in ToSet(kernel) : e.wd = d /\ e.mask \notin {"ignored", "self gone"} => d \in DOMAIN watches
  BY OverflowType DEF KnownInv, EventKnown
<1>4. ToSet(adding) = {}
  BY <1>1, InEmpty
<1>5. \/ UNCHANGED watches
      \/ /\ h.mask = "self gone"
         /\ \A dir \in DOMAIN watches \ {h.wd} : dir \in DOMAIN watches' /\ watches'[dir] = watches[dir]
  BY DEF WatchSkips, WatchSelfGone, WatchNew, WatchOther, watchVars
<1> HIDE DEF h
<1>6. ASSUME NEW e \in ToSet(kernel'), e.mask # "ignored", e.wd \in DOMAIN watches
      PROVE  e.wd \in DOMAIN watches' /\ watches'[e.wd] = watches[e.wd]
  BY <1>1, <1>5, <1>6
<1>7. ASSUME NewPending(where[d])
      PROVE  NewPending(where[d])' \/ (WatchNew /\ IsPrefix(FullPath, where[d]))
  <2>1. PICK e \in ToSet(kernel) : /\ e.mask = "new directory" /\ e.wd \in DOMAIN watches
                                   /\ IsPrefix(watches[e.wd] \o e.path, where[d])
    BY <1>7 DEF NewPending
  <2>2. CASE e \in ToSet(kernel')
    BY <1>1, <1>6, <2>1, <2>2 DEF NewPending
  <2>3. CASE e = h
    <3>1. e.wd = h.wd /\ e.path = h.path /\ watches[e.wd] \o e.path = FullPath
      BY <2>3 DEF FullPath, h
    <3>2. FullPath \notin Ignored
      BY <1>2, <2>1, <3>1 DEF Covered
    <3>3. h.mask = "new directory"
      BY <2>1, <2>3
    <3>4. WatchNew
      BY <3>2, <3>3 DEF WatchSkips, WatchSelfGone, WatchOther, h
    <3> QED BY <2>1, <3>1, <3>4
  <2> QED BY <1>1, <2>1, <2>2, <2>3
<1>8. ASSUME LookPending(d)
      PROVE  LookPending(d)' \/ d \notin unseen'
  <2>1. PICK e \in ToSet(kernel) : /\ e.wd = d /\ e.mask \notin {"ignored", "self gone"}
                                   /\ watches[d] \o e.path \notin Ignored
    BY <1>8 DEF LookPending
  <2>2. d \in DOMAIN watches /\ watches[d] = where[d]
    BY <1>2, <1>3, <2>1 DEF KnownInv, DirsKnown
  <2>3. CASE e \in ToSet(kernel')
    BY <1>6, <2>1, <2>2, <2>3 DEF LookPending
  <2>4. CASE e = h
    <3>1. h.wd = d /\ FullPath \notin Ignored /\ h.mask \notin {"ignored", "self gone"}
      BY <2>1, <2>4 DEF FullPath, h
    <3>2. Seen
      BY <3>1 DEF WatchSkips, WatchSelfGone, WatchNew, WatchOther, h
    <3> QED BY <2>2, <3>1, <3>2 DEF Seen, h
  <2> QED BY <1>1, <2>1, <2>3, <2>4
<1>9. WatchPending(where[d]) => WatchPending(where[d])'
  <2> SUFFICES ASSUME NewPending(where[d]) PROVE WatchPending(where[d])'
    BY <1>4 DEF WatchPending
  <2>1. CASE NewPending(where[d])'
    BY <2>1 DEF WatchPending
  <2>2. CASE WatchNew /\ IsPrefix(FullPath, where[d])
    <3>1. Task("add", FullPath) \in ToSet(adding')
      BY <2>2, WatchNewTasks
    <3>2. Task("add", FullPath).path = FullPath /\ Task("add", FullPath).step # "list"
      BY DEF Task
    <3> QED BY <1>1, <2>2, <3>1, <3>2 DEF WatchPending
  <2> QED BY <1>7, <2>1, <2>2
<1>10. ToSet(scanQ) \subseteq ToSet(scanQ')
  <2>1. WatchNew => ToSet(scanQ) \subseteq ToSet(scanQ')
    BY WatchNewTasks
  <2>2. ~WatchNew => scanQ' = scanQ
    BY DEF WatchSkips, WatchSelfGone, WatchOther
  <2> QED BY <2>1, <2>2
<1>11. ScanPending(where[d]) => ScanPending(where[d])'
  <2> SUFFICES ASSUME NewPending(where[d]) PROVE ScanPending(where[d])'
    BY <1>1, <1>10 DEF ScanPending
  <2>1. CASE NewPending(where[d])'
    BY <2>1 DEF ScanPending
  <2>2. CASE WatchNew /\ IsPrefix(FullPath, where[d])
    <3>1. FullPath \in ToSet(scanQ')
      BY <2>2, WatchNewTasks
    <3> QED BY <1>1, <2>2, <3>1 DEF ScanPending
  <2> QED BY <1>7, <2>1, <2>2
<1>12. unseen' \subseteq unseen
  BY DEF WatchSkips, WatchSelfGone, WatchNew, WatchOther, Seen
<1> QED BY <1>1, <1>2, <1>8, <1>9, <1>11, <1>12 DEF Kept

LEMMA LostNext ==
  ASSUME TypeOK, TreeInv, KnownInv, LostInv, [Next]_vars
  PROVE  LostInv'
<1>1. CASE UNCHANGED vars
  <2>1. /\ UNCHANGED <<where, recursive, kernel, watched, watches, adding, cause, scanQ>>
        /\ UNCHANGED <<unseen, listed, early, stray>>
    BY <1>1 DEF vars, fsVars, watchVars
  <2>2. /\ \A path : NewPending(path)' <=> NewPending(path)
        /\ \A dir : LookPending(dir)' <=> LookPending(dir)
    BY <2>1 DEF NewPending, LookPending
  <2>3. /\ \A path : WatchPending(path)' <=> WatchPending(path)
        /\ \A path : ScanPending(path)' <=> ScanPending(path)
    BY <2>1, <2>2 DEF WatchPending, ScanPending
  <2>4. \A dir \in Dirs : Kept(dir) => Kept(dir)'
    BY <2>1, <2>2, <2>3 DEF Kept, WatchPending, ScanPending, NewPending, LookPending
  <2>5. \A dir \in Dirs : Covered(dir)' <=> Covered(dir)
    BY <2>1 DEF Covered, InTree
  <2> QED BY <2>1, <2>4, <2>5 DEF LostInv, NothingLost, Overflow
<1> SUFFICES ASSUME Next, cause' = "none", Overflow \notin ToSet(kernel')
             PROVE  NothingLost'
  BY <1>1 DEF LostInv, Overflow
<1>2. cause = "none"
  BY DEF Next
<1>3. CASE FileSystem
  <2>1. \E events : Posted(kernel', events)
    BY <1>3, TouchPosts, MakeDirPosts, RemoveDirPosts, FreeDirPosts, RenameDirPosts DEF FileSystem
  <2>2. Overflow \notin ToSet(kernel)
    BY <2>1 DEF Posted
  <2>3. NothingLost
    BY <1>2, <2>2 DEF LostInv
  <2> QED BY <1>3, <2>3, LostTouch, LostMakeDir, LostRemoveDir, LostFreeDir, LostRenameDir DEF FileSystem
<1>4. CASE AddWatch \/ AddWatchFails \/ ListWatched \/ ScanLists \/ ScanFails
  <2>1. kernel' = kernel
    BY <1>4 DEF AddWatch, AddWatchFails, ListWatched, ScanLists, ScanFails
  <2>2. NothingLost
    BY <1>2, <2>1 DEF LostInv
  <2> QED BY <1>4, <2>2, LostAddWatch, LostAddWatchFails, LostListWatched, LostScanLists, LostScanFails
<1>5. CASE WatchSkips \/ WatchSelfGone \/ WatchNew \/ WatchOther
  <2>1. Takes
    BY <1>5 DEF WatchSkips, WatchSelfGone, WatchNew, WatchOther
  <2>2. Head(kernel) # Overflow
    <3>1. Head(kernel).mask = "ignored" \/ Head(kernel).wd \in Dirs
      BY <1>5 DEF WatchSkips, WatchSelfGone, WatchNew, WatchOther, Known, TypeOK
    <3> QED BY <3>1, OverflowType
  <2>3. Overflow \notin ToSet(kernel)
    BY <2>1, <2>2, KnownTakes
  <2>4. NothingLost
    BY <1>2, <2>3 DEF LostInv
  <2> QED BY <1>5, <2>1, <2>4, LostTakes
<1>6. CASE WatchThrows
  <2>1. Head(kernel).mask \in Masks
    BY <1>6, KnownTakes DEF WatchThrows, Events
  <2>2. cause' # "none"
    BY <1>6, <2>1 DEF WatchThrows, Masks
  <2> QED BY <2>2
<1>7. CASE InitThrows \/ ListThrows \/ WaitThrows \/ WatchReturns
  BY <1>7 DEF InitThrows, ListThrows, WaitThrows, Fails, WatchReturns
<1> QED BY <1>3, <1>4, <1>5, <1>6, <1>7 DEF Next, Watch

-----------------------------------------------------------------------------
(* The theorems *)

LEMMA InitInv ==
  ASSUME Init
  PROVE  IInv
<1>1. OnlyOverflowIsUnknown
  BY DEF Init, OnlyOverflowIsUnknown
<1> QED BY <1>1, InitType, InitTree, InitKnown, InitPaths, InitLost DEF IInv

LEMMA NextInv ==
  ASSUME IInv, [Next]_vars
  PROVE  IInv'
<1>1. TypeOK /\ TreeInv /\ KnownInv /\ PathsInv /\ LostInv /\ OnlyOverflowIsUnknown
  BY DEF IInv
<1>2. TypeOK'
  BY <1>1, TypeNext
<1>3. TreeInv'
  BY <1>1, TreeNext
<1>4. KnownInv'
  BY <1>1, KnownNext
<1>5. PathsInv'
  BY <1>1, PathsNext
<1>6. LostInv'
  BY <1>1, LostNext
<1>7. OnlyOverflowIsUnknown'
  BY <1>1, EndsNext
<1> QED BY <1>2, <1>3, <1>4, <1>5, <1>6, <1>7 DEF IInv

\* The watch thread (watch_task, add_watch), the scan thread and inotify agree on the
\* directories: paths are those of the directories that are not stray, an event
\* is about a directory whose watch the map of the thread still has, and what is not
\* yet watched, scanned or looked at is on the way to be.
THEOREM WatchInductive == Spec => []IInv
<1>1. Init => IInv
  BY InitInv
<1>2. IInv /\ [Next]_vars => IInv'
  BY NextInv
<1> QED BY <1>1, <1>2, PTL DEF Spec

\* watch_task's lookup of an id throws for no event but that of the overflow:
\* neither the removal of a directory nor its renaming leaves events behind of an
\* id that the map has lost.
THEOREM WatchEnds == Spec => []OnlyOverflowIsUnknown
<1>1. IInv => OnlyOverflowIsUnknown
  BY DEF IInv
<1> QED BY <1>1, WatchInductive, PTL

\* When add_watch, watch_task and the scan have nothing left to do, each directory is
\* watched under its own path, and a change in it that nobody looked at came between
\* its scan and its watch, or is in what a scan failed to list; unless it was renamed,
\* or its watch, or that of a directory above it, could not be added.
THEOREM WatchLosesNothing == Spec => []NoDirectoryIsLost
<1>1. IInv => NoDirectoryIsLost
  <2> SUFFICES ASSUME IInv, AtRest, NEW dir \in Dirs, Covered(dir), dir \notin stray
               PROVE  /\ dir \in watched /\ dir \in DOMAIN watches /\ watches[dir] = where[dir]
                      /\ dir \in unseen => dir \in early
    BY DEF NoDirectoryIsLost
  <2>1. ToSet(kernel) = {} /\ ToSet(adding) = {} /\ ToSet(scanQ) = {} /\ cause = "none"
    BY InEmpty DEF AtRest
  <2>2. Kept(dir)
    BY <2>1 DEF IInv, LostInv, NothingLost
  <2>3. dir \in watched /\ (dir \in unseen => dir \in early)
    BY <2>1, <2>2 DEF Kept, WatchPending, ScanPending, LookPending, NewPending
  <2> QED BY <2>3 DEF IInv, KnownInv, DirsKnown, Covered
<1> QED BY <1>1, WatchInductive, PTL
=============================================================================
