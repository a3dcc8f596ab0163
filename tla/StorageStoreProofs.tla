------------------------- MODULE StorageStoreProofs -------------------------
(***************************************************************************)
(* StorageFile implements StorageStore, for every set of commands and      *)
(* every file they may find, as long as one command runs at a time: what   *)
(* rewriting lines does to the records and to the logs that callers see.   *)
(* Records are a set, so replacing a line moves the set whatever its place *)
(* is; the entries of the logs are a sequence, and lemma SameLines tells   *)
(* when two sets of positions of two files hold the same one.              *)
(***************************************************************************)
EXTENDS StorageFileProofs

-----------------------------------------------------------------------------
(* The store that callers see in a file: its records as a set and, in the  *)
(* order of the file, the entries of its logs.                             *)

LEMMA InRange ==
    \A n \in Nat : \A i \in 1..n : i \in Nat /\ i \in 1..(n + 1) /\ i < n + 1 /\ ~(n + 1 <= i)
OBVIOUS

\* m takes the lines of f at S to those of g at T, in their order.
Aligns(m, f, S, g, T) ==
    /\ m \in [S -> T]
    /\ \A i \in S : f[i] = g[m[i]]
    /\ \A i, j \in S : i < j => m[i] < m[j]
    /\ \A j \in T : \E i \in S : m[i] = j

Spans(S) == \E n \in Nat : S \in SUBSET (1..n)

LEMMA SameLines ==
    ASSUME NEW S, Spans(S), NEW f, NEW T, Spans(T), NEW g, NEW m, Aligns(m, f, S, g, T)
    PROVE  At(f, S) = At(g, T)
<1> PICK n \in Nat : S \in SUBSET (1..n)
  BY DEF Spans
<1> PICK k \in Nat : T \in SUBSET (1..k)
  BY DEF Spans
<1>0. /\ m \in [S -> T]
      /\ \A i \in S : f[i] = g[m[i]]
      /\ \A i, j \in S : i < j => m[i] < m[j]
      /\ \A j \in T : \E i \in S : m[i] = j
  BY DEF Aligns
<1> USE <1>0
<1> DEFINE up(i) == {j \in S : j <= i}
           vp(i) == {j \in T : j <= i}
<1>1. IsFiniteSet(S) /\ IsFiniteSet(T)
  <2>1. 1 \in Int /\ n \in Int /\ k \in Int
    OBVIOUS
  <2>2. IsFiniteSet(1..n) /\ IsFiniteSet(1..k)
    BY <2>1, FS_Interval
  <2> QED BY <2>2, FS_Subset
<1>2. \A i \in S : i \in Nat /\ m[i] \in T /\ m[i] \in Nat
  <2>1. \A i \in S : i \in 1..n
    OBVIOUS
  <2>2. \A j \in T : j \in 1..k
    OBVIOUS
  <2>3. \A i \in S : m[i] \in T
    OBVIOUS
  <2> QED BY ONLY <2>1, <2>2, <2>3, n \in Nat, k \in Nat, InRange
<1>3. \A i, j \in S : m[i] = m[j] => i = j
  <2> SUFFICES ASSUME NEW i \in S, NEW j \in S, m[i] = m[j] PROVE i = j
    OBVIOUS
  <2>1. i \in Nat /\ j \in Nat /\ m[i] \in Nat /\ ~(m[i] < m[j]) /\ ~(m[j] < m[i])
    BY <1>2
  <2>2. ~(i < j) /\ ~(j < i)
    BY <2>1
  <2> QED BY <2>1, <2>2
<1>4. Cardinality(S) = Cardinality(T)
  <2>1. m \in Bijection(S, T)
    BY <1>3, Fun_IsBij
  <2>2. ExistsBijection(S, T)
    BY <2>1 DEF ExistsBijection
  <2> QED BY <1>1, <2>2, FS_Bijection
<1>5. \A i \in S : Cardinality(vp(m[i])) = Cardinality(up(i))
  <2> TAKE i \in S
  <2> DEFINE b == [j \in up(i) |-> m[j]]
  <2>1. \A j \in S : j <= i <=> m[j] <= m[i]
    <3> TAKE j \in S
    <3>1. i \in Nat /\ j \in Nat /\ m[i] \in Nat /\ m[j] \in Nat
      BY <1>2
    <3>2. (j < i => m[j] < m[i]) /\ (i < j => m[i] < m[j])
      OBVIOUS
    <3> QED BY <3>1, <3>2
  <2>2. \A j \in up(i) : j \in S /\ b[j] = m[j] /\ b[j] \in vp(m[i])
    BY <2>1
  <2>3. \A t \in vp(m[i]) : \E j \in up(i) : b[j] = t
    <3> TAKE t \in vp(m[i])
    <3>1. PICK j \in S : m[j] = t
      OBVIOUS
    <3>2. j \in up(i)
      BY <2>1, <3>1
    <3> QED BY <3>1, <3>2
  <2>4. b \in [up(i) -> vp(m[i])]
    BY <2>2
  <2>5. \A x, y \in up(i) : b[x] = b[y] => x = y
    BY <1>3, <2>2
  <2>6. IsFiniteSet(up(i))
    BY <1>1, FS_Subset
  <2> HIDE DEF up, vp, b
  <2>7. b \in Bijection(up(i), vp(m[i]))
    BY <2>3, <2>4, <2>5, Fun_IsBij
  <2>8. ExistsBijection(up(i), vp(m[i]))
    BY <2>7 DEF ExistsBijection
  <2> QED BY <2>6, <2>8, FS_Bijection
<1> PICK c : c = Cardinality(S)
  OBVIOUS
<1>6. c \in Nat /\ c = Cardinality(T)
  BY <1>1, <1>4, FS_CardinalityType
<1>7. PICK a : Selects(a, f, S)
  BY AtPositions
<1>8. PICK b : Selects(b, g, T)
  BY AtPositions
<1>9. ASSUME NEW x \in 1..c PROVE f[a[x]] = g[b[x]]
  <2>1. a[x] \in S /\ Cardinality(up(a[x])) = x
    BY <1>6, <1>7, <1>9 DEF Selects
  <2>2. m[a[x]] \in T /\ Cardinality(vp(m[a[x]])) = x
    BY <1>2, <1>5, <2>1
  <2>3. PICK y \in 1..c : b[y] = m[a[x]]
    <3>1. \A j \in T : \E y \in 1..c : b[y] = j
      BY <1>6, <1>8 DEF Selects
    <3> QED BY <2>2, <3>1
  <2>4. Cardinality(vp(b[y])) = y
    BY <1>6, <1>8 DEF Selects
  <2>5. b[x] = m[a[x]]
    BY <2>2, <2>3, <2>4
  <2> QED BY <2>1, <2>5
<1> HIDE DEF up, vp
<1>10. At(f, S) = [x \in 1..c |-> f[a[x]]] /\ At(g, T) = [x \in 1..c |-> g[b[x]]]
  BY <1>6, <1>7, <1>8 DEF Selects
<1> QED BY <1>9, <1>10

\* The lines at some positions make a file.
LEMMA AtIsFile ==
    ASSUME NEW n \in Nat, NEW S \in SUBSET (1..n), NEW f
    PROVE  /\ At(f, S) \in Seq(ToSet(At(f, S)))
           /\ Len(At(f, S)) = Cardinality(S) /\ DOMAIN At(f, S) = 1..Cardinality(S)
<1> PICK c, g : c = Cardinality(S) /\ g = At(f, S)
  OBVIOUS
<1>1. c \in Nat
  BY AtPositions
<1>2. PICK m : Selects(m, f, S)
  BY AtPositions
<1>3. g = [a \in 1..c |-> g[a]]
  BY <1>2 DEF Selects
<1> QED BY <1>1, <1>3, TableIsFile

\* A line added behind the others comes last.
LEMMA LineAdded ==
    ASSUME NEW f, f \in Seq(ToSet(f)), NEW S \in SUBSET (1..Len(f)), NEW l
    PROVE  At(Append(f, l), S \cup {Len(f) + 1}) = Append(At(f, S), l)
<1> PICK n \in Nat : n = Len(f)
  BY LenProperties
<1> PICK g : g = Append(f, l)
  OBVIOUS
<1> DEFINE T == S \cup {n + 1}
<1>1. \A i \in 1..n : g[i] = f[i]
  <2> DEFINE A == ToSet(f) \cup {l}
  <2>1. f \in Seq(A) /\ l \in A
    BY SeqMonotonic
  <2> QED BY <2>1, AppendProperties
<1>2. g[n + 1] = l
  <2> DEFINE A == ToSet(f) \cup {l}
  <2>1. f \in Seq(A) /\ l \in A
    BY SeqMonotonic
  <2> QED BY <2>1, AppendProperties
<1>0. \A j \in S : j \in 1..n
  OBVIOUS
<1>3. T \in SUBSET (1..(n + 1)) /\ n + 1 \in Nat /\ n + 1 \notin S
  <2>1. n + 1 \in Nat /\ n + 1 \in 1..(n + 1) /\ n + 1 \notin 1..n
    OBVIOUS
  <2> QED BY ONLY <1>0, <2>1, n \in Nat, InRange
<1> PICK c : c = Cardinality(S)
  OBVIOUS
<1>4. c \in Nat /\ IsFiniteSet(S) /\ Cardinality(T) = c + 1
  <2>1. 1 \in Int /\ n \in Int
    OBVIOUS
  <2>2. IsFiniteSet(1..n)
    BY <2>1, FS_Interval
  <2>3. IsFiniteSet(S)
    BY <2>2, FS_Subset
  <2> QED BY <1>3, <2>3, FS_CardinalityType, FS_AddElement
<1> HIDE DEF T
<1>5. PICK a : Selects(a, f, S)
  BY AtPositions
<1>6. PICK b : Selects(b, g, T)
  BY <1>3, AtPositions
<1>7. ASSUME NEW x \in 1..c PROVE g[b[x]] = f[a[x]]
  <2>1. a[x] \in S /\ Cardinality({j \in S : j <= a[x]}) = x
    BY <1>5 DEF Selects
  <2>2. {j \in T : j <= a[x]} = {j \in S : j <= a[x]}
    <3>1. a[x] \in 1..n /\ ~(n + 1 <= a[x])
      BY ONLY <1>0, <2>1, n \in Nat, InRange
    <3> QED BY <3>1 DEF T
  <2>3. PICK y \in 1..(c + 1) : b[y] = a[x]
    BY <1>4, <1>6, <2>1 DEF Selects, T
  <2>4. Cardinality({j \in T : j <= b[y]}) = y
    BY <1>4, <1>6 DEF Selects
  <2>5. b[x] = a[x]
    BY <2>1, <2>2, <2>3, <2>4
  <2> QED BY <1>1, <2>1, <2>5
<1>8. g[b[c + 1]] = l
  <2>1. PICK y \in 1..(c + 1) : b[y] = n + 1
    BY <1>4, <1>6 DEF Selects, T
  <2>2. Cardinality({j \in T : j <= b[y]}) = y
    BY <1>4, <1>6 DEF Selects
  <2>3. {j \in T : j <= n + 1} = T
    <3>1. \A j \in T : j <= n + 1
      BY <1>3
    <3> QED BY <3>1
  <2>4. y = c + 1
    BY <1>4, <2>1, <2>2, <2>3
  <2> QED BY <1>2, <2>1, <2>4
<1> PICK s, t : s = At(f, S) /\ t = At(g, T)
  OBVIOUS
<1>9. /\ s \in Seq(ToSet(s)) /\ Len(s) = c /\ DOMAIN s = 1..c
      /\ t \in Seq(ToSet(t)) /\ Len(t) = c + 1 /\ DOMAIN t = 1..(c + 1)
  BY <1>3, <1>4, AtIsFile
<1>10. /\ \A x \in 1..c : s[x] = f[a[x]]
       /\ \A x \in 1..(c + 1) : t[x] = g[b[x]]
  <2>1. s = [x \in 1..c |-> f[a[x]]]
    BY <1>5 DEF Selects
  <2>2. t = [x \in 1..(c + 1) |-> g[b[x]]]
    BY <1>4, <1>6 DEF Selects
  <2> QED BY <2>1, <2>2
<1>11. /\ Append(s, l) \in Seq(ToSet(s) \cup {l}) /\ Len(Append(s, l)) = c + 1
       /\ \A x \in 1..c : Append(s, l)[x] = s[x]
       /\ Append(s, l)[c + 1] = l
  <2> DEFINE A == ToSet(s) \cup {l}
  <2>1. s \in Seq(A) /\ l \in A
    BY <1>9, SeqMonotonic
  <2> QED BY <1>9, <2>1, AppendProperties
<1>12. \A x \in 1..(c + 1) : t[x] = Append(s, l)[x]
  <2> TAKE x \in 1..(c + 1)
  <2>1. x \in 1..c \/ x = c + 1
    BY <1>4
  <2>2. CASE x \in 1..c
    <3>1. t[x] = f[a[x]]
      BY <1>7, <1>10, <2>2
    <3> QED BY <1>10, <1>11, <2>2, <3>1
  <2>3. CASE x = c + 1
    <3>1. t[c + 1] = l
      BY <1>8, <1>10, <2>3
    <3> QED BY <1>11, <2>3, <3>1
  <2> QED BY <2>1, <2>2, <2>3
<1>13. t = Append(s, l)
  <2>1. t \in Seq(ToSet(t) \cup ToSet(s) \cup {l})
    BY <1>9, SeqMonotonic
  <2>2. Append(s, l) \in Seq(ToSet(t) \cup ToSet(s) \cup {l})
    BY <1>11, SeqMonotonic
  <2> QED BY <1>9, <1>11, <1>12, <2>1, <2>2, SeqEqual
<1> QED BY <1>13 DEF T

-----------------------------------------------------------------------------
(* What the operations do to the store that is seen.                       *)

LEMMA SamePlaces ==
    ASSUME NEW S, Spans(S), NEW f, NEW g, \A i \in S : f[i] = g[i]
    PROVE  At(f, S) = At(g, S)
<1> DEFINE m == [i \in S |-> i]
<1>1. Aligns(m, f, S, g, S)
  BY DEF Aligns
<1> HIDE DEF m
<1> QED BY <1>1, SameLines

LEMMA EntriesOf ==
    ASSUME NEW f, AllLines(f)
    PROVE  /\ Len(f) \in Nat /\ DOMAIN f = 1..Len(f) /\ f \in Seq(ToSet(f))
           /\ Entries(f) \in SUBSET (1..Len(f))
<1>1. Len(f) \in Nat /\ DOMAIN f = 1..Len(f) /\ f \in Seq(ToSet(f))
  BY FileShape DEF AllLines
<1> QED BY <1>1 DEF Entries

EditedRecords(f, g) == {g[i] : i \in {j \in DOMAIN f : f[j].kind \in Keyed}}

\* Lines edited where they stand, none of them an entry of a log.
LEMMA EditShown ==
    ASSUME NEW f, AllLines(f), NEW g, g = [i \in DOMAIN f |-> g[i]],
           \A i \in DOMAIN f : g[i].kind = f[i].kind,
           \A i \in Entries(f) : g[i] = f[i]
    PROVE  /\ LogIn(g) = LogIn(f)
           /\ RecordsIn(g) = EditedRecords(f, g)
<1>1. Entries(f) \in SUBSET (1..Len(f)) /\ Len(f) \in Nat
  BY EntriesOf
<1>2. DOMAIN g = DOMAIN f
  OBVIOUS
<1>3. Entries(g) = Entries(f)
  BY <1>2 DEF Entries
<1> PICK S, n : S = Entries(f) /\ n = Len(f)
  OBVIOUS
<1>4. Spans(S) /\ \A i \in S : f[i] = g[i]
  BY <1>1 DEF Spans
<1>5. At(f, S) = At(g, S)
  BY ONLY <1>4, SamePlaces
<1>6. LogIn(g) = LogIn(f)
  BY <1>3, <1>5 DEF LogIn
<1>7. {j \in DOMAIN g : g[j].kind \in Keyed} = {j \in DOMAIN f : f[j].kind \in Keyed}
  BY <1>2
<1> QED BY <1>6, <1>7 DEF RecordsIn, EditedRecords

\* The version stays while the first line does.
LEMMA VersionStays ==
    ASSUME NEW f, NEW g, f = <<>> <=> g = <<>>,
           f # <<>> => g[1].kind = f[1].kind,
           f # <<>> /\ f[1].kind = "schema" => g[1] = f[1]
    PROVE  Version(g) = Version(f)
BY DEF Version

\* A line added behind the others joins the records or the logs.
LEMMA AppendShown ==
    ASSUME NEW f, AllLines(f), NEW l, l.kind \in Keyed \cup Logged
    PROVE  /\ Version(Append(f, l)) = Version(f)
           /\ l.kind \in Keyed => /\ RecordsIn(Append(f, l)) = RecordsIn(f) \cup {l}
                                  /\ LogIn(Append(f, l)) = LogIn(f)
           /\ l.kind \in Logged => /\ RecordsIn(Append(f, l)) = RecordsIn(f)
                                   /\ LogIn(Append(f, l)) = Append(LogIn(f), l)
<1> PICK n, g : n = Len(f) /\ g = Append(f, l)
  OBVIOUS
<1>1. n \in Nat /\ DOMAIN f = 1..n /\ f \in Seq(ToSet(f)) /\ Entries(f) \in SUBSET (1..n)
  BY EntriesOf
<1>2. DOMAIN g = 1..(n + 1) /\ g[n + 1] = l /\ \A i \in 1..n : g[i] = f[i]
  <2> DEFINE A == ToSet(f) \cup {l}
  <2>1. f \in Seq(A) /\ l \in A
    BY <1>1, SeqMonotonic
  <2>2. /\ g \in Seq(A) /\ Len(g) = n + 1 /\ g[n + 1] = l
        /\ \A i \in 1..n : g[i] = f[i]
    BY <2>1, AppendProperties
  <2> QED BY <2>2, LenProperties
<1>3. \A i : i \in DOMAIN g <=> i \in DOMAIN f \/ i = n + 1
  <2>1. \A i : i \in 1..(n + 1) <=> i \in 1..n \/ i = n + 1
    BY <1>1
  <2> QED BY <1>1, <1>2, <2>1
<1>4. n + 1 \notin DOMAIN f /\ \A i \in DOMAIN f : g[i] = f[i]
  BY <1>1, <1>2
<1>5. Version(g) = Version(f)
  <2>1. CASE f = <<>>
    <3>1. n = 0
      BY <2>1, EmptySeq
    <3>2. g[1] = l /\ l.kind # "schema"
      BY <1>2, <3>1 DEF Keyed, Logged
    <3> QED BY <2>1, <3>2 DEF Version
  <2>2. CASE f # <<>>
    <3>1. 1 \in 1..n
      <4>1. n # 0
        BY <1>1, <2>2, EmptySeq
      <4> QED BY <1>1, <4>1
    <3>2. g[1] = f[1] /\ g # <<>>
      <4>1. g[1] = f[1] /\ 1 \in DOMAIN g
        BY <1>2, <1>3, <3>1, <1>1
      <4>2. DOMAIN <<>> = {}
        BY EmptySeq, LenProperties
      <4> QED BY <4>1, <4>2
    <3> QED BY <2>2, <3>2 DEF Version
  <2> QED BY <2>1, <2>2
<1>6. ASSUME l.kind \in Keyed
      PROVE  RecordsIn(g) = RecordsIn(f) \cup {l} /\ LogIn(g) = LogIn(f)
  <2>1. l.kind \notin Logged
    BY <1>6 DEF Keyed, Logged
  <2>2. Entries(g) = Entries(f)
    BY <1>2, <1>3, <1>4, <2>1 DEF Entries
  <2> PICK S : S = Entries(f)
    OBVIOUS
  <2>3. \A i \in S : f[i] = g[i]
    BY <1>4 DEF Entries
  <2>4. Spans(S)
    BY <1>1 DEF Spans
  <2>5. At(f, S) = At(g, S)
    BY ONLY <2>3, <2>4, SamePlaces
  <2>6. RecordsIn(g) = RecordsIn(f) \cup {l}
    BY <1>2, <1>3, <1>4, <1>6 DEF RecordsIn
  <2> QED BY <2>2, <2>5, <2>6 DEF LogIn
<1>7. ASSUME l.kind \in Logged
      PROVE  RecordsIn(g) = RecordsIn(f) /\ LogIn(g) = Append(LogIn(f), l)
  <2>1. l.kind \notin Keyed
    BY <1>7 DEF Keyed, Logged
  <2>2. RecordsIn(g) = RecordsIn(f)
    BY <1>2, <1>3, <1>4, <2>1 DEF RecordsIn
  <2>3. Entries(g) = Entries(f) \cup {n + 1}
    BY <1>2, <1>3, <1>4, <1>7 DEF Entries
  <2> PICK S : S = Entries(f)
    OBVIOUS
  <2>4. At(g, S \cup {n + 1}) = Append(At(f, S), l)
    <3>1. f \in Seq(ToSet(f)) /\ S \in SUBSET (1..Len(f))
      BY <1>1
    <3>2. At(Append(f, l), S \cup {Len(f) + 1}) = Append(At(f, S), l)
      BY ONLY <3>1, LineAdded
    <3> QED BY <3>2
  <2> QED BY <2>2, <2>3, <2>4 DEF LogIn
<1> QED BY <1>5, <1>6, <1>7

\* A header shows the same store, of a version that is not lower.
SameShown(f, g) == RecordsIn(g) = RecordsIn(f) /\ LogIn(g) = LogIn(f)

LEMMA HeaderShown ==
    ASSUME NEW f, Sound(f), Version(f) \in Nat
    PROVE  \A e \in {EnsureHeader(f), HeaderIfEmpty(f)} :
              SameShown(f, e) /\ Version(e) \in Nat /\ Version(f) <= Version(e)
<1> PICK h : h = Schema(Latest)
  OBVIOUS
<1>1. h.kind = "schema" /\ h.val = 2
  BY LineFields DEF Schema, Latest
<1> PICK n, g : n = Len(f) /\ g = <<h>> \o f
  OBVIOUS
<1>2. AllLines(f) /\ n \in Nat /\ DOMAIN f = 1..n /\ f \in Seq(ToSet(f)) /\ Entries(f) \in SUBSET (1..n)
  BY EntriesOf DEF Sound
<1>3. /\ DOMAIN g = 1..(n + 1) /\ g[1] = h
      /\ \A i \in 1..n : i + 1 \in 1..(n + 1) /\ g[i + 1] = f[i]
  <2> DEFINE A == ToSet(f) \cup {h}
  <2>1. f \in Seq(A) /\ <<h>> \in Seq(A)
    BY <1>2, SeqMonotonic
  <2> HIDE DEF A
  <2>2. Len(<<h>>) = 1 /\ <<h>>[1] = h
    OBVIOUS
  <2>3. /\ g \in Seq(A) /\ Len(g) = Len(<<h>>) + Len(f)
        /\ \A i \in 1..(Len(<<h>>) + Len(f)) :
              g[i] = IF i <= Len(<<h>>) THEN <<h>>[i] ELSE f[i - Len(<<h>>)]
    BY <2>1, ConcatProperties
  <2>4. Len(g) = n + 1 /\ \A i \in 1..(1 + n) : g[i] = IF i <= 1 THEN <<h>>[i] ELSE f[i - 1]
    BY <1>2, <2>2, <2>3
  <2>5. DOMAIN g = 1..(n + 1)
    BY <2>3, <2>4, LenProperties
  <2>6. g[1] = h
    <3>1. 1 \in 1..(1 + n) /\ 1 <= 1
      BY <1>2
    <3> QED BY <2>2, <2>4, <3>1
  <2>7. ASSUME NEW i \in 1..n PROVE i + 1 \in 1..(n + 1) /\ g[i + 1] = f[i]
    <3>1. i + 1 \in 1..(n + 1) /\ i + 1 \in 1..(1 + n) /\ ~(i + 1 <= 1) /\ (i + 1) - 1 = i
      BY <1>2
    <3> QED BY <2>4, <3>1
  <2> QED BY <2>5, <2>6, <2>7
<1>4. \A i \in 1..(n + 1) : i = 1 \/ \E j \in 1..n : i = j + 1
  <2> TAKE i \in 1..(n + 1)
  <2>1. i = 1 \/ (i - 1 \in 1..n /\ i = (i - 1) + 1)
    BY <1>2
  <2> QED BY <2>1
<1>5. RecordsIn(g) = RecordsIn(f)
  <2>1. \A i \in DOMAIN g : g[i].kind \in Keyed => \E j \in DOMAIN f : g[i] = f[j]
    BY <1>1, <1>2, <1>3, <1>4 DEF Keyed
  <2>2. \A j \in DOMAIN f : \E i \in DOMAIN g : g[i] = f[j]
    BY <1>2, <1>3
  <2>3. ASSUME NEW r \in RecordsIn(g) PROVE r \in RecordsIn(f)
    <3>1. PICK i \in DOMAIN g : r = g[i] /\ g[i].kind \in Keyed
      BY DEF RecordsIn
    <3>2. PICK j \in DOMAIN f : r = f[j]
      BY <2>1, <3>1
    <3> QED BY <3>1, <3>2 DEF RecordsIn
  <2>4. ASSUME NEW r \in RecordsIn(f) PROVE r \in RecordsIn(g)
    <3>1. PICK j \in DOMAIN f : r = f[j] /\ f[j].kind \in Keyed
      BY DEF RecordsIn
    <3>2. PICK i \in DOMAIN g : g[i] = r
      BY <2>2, <3>1
    <3> QED BY <3>1, <3>2 DEF RecordsIn
  <2> QED BY <2>3, <2>4
<1>6. LogIn(g) = LogIn(f)
  <2> PICK S, T : S = Entries(f) /\ T = Entries(g)
    OBVIOUS
  <2> DEFINE m == [i \in S |-> i + 1]
  <2>1. S \in SUBSET (1..n) /\ T \in SUBSET (1..(n + 1)) /\ n + 1 \in Nat
    BY <1>2, <1>3 DEF Entries
  <2>2. \A i \in S : i \in 1..n /\ m[i] = i + 1
    BY <2>1
  <2>3. \A i \in S : m[i] \in T /\ f[i] = g[m[i]]
    BY <1>2, <1>3, <2>2 DEF Entries
  <2>4. m \in [S -> T]
    BY <2>3
  <2>5. \A i, j \in S : i < j => m[i] < m[j]
    BY <1>2, <2>2
  <2>6. ASSUME NEW t \in T PROVE \E i \in S : m[i] = t
    <3>1. t \in 1..(n + 1) /\ g[t].kind \in Logged
      BY <1>3 DEF Entries
    <3>2. t # 1
      BY <1>1, <1>3, <3>1 DEF Logged
    <3>3. PICK j \in 1..n : t = j + 1
      BY <1>4, <3>1, <3>2
    <3>4. j \in S
      BY <1>2, <1>3, <3>1, <3>3 DEF Entries
    <3> QED BY <2>2, <3>3, <3>4
  <2>7. Aligns(m, f, S, g, T)
    BY <2>3, <2>4, <2>5, <2>6 DEF Aligns
  <2> HIDE DEF m
  <2>8. Spans(S) /\ Spans(T)
    BY <1>2, <2>1 DEF Spans
  <2>9. At(f, S) = At(g, T)
    BY ONLY <2>7, <2>8, SameLines
  <2> QED BY <2>9 DEF LogIn
<1>7. f = <<>> \/ f[1].kind # "schema" => Version(f) = 1
  BY DEF Version
<1>8. Version(g) = 2
  <2>1. 1 \in DOMAIN g
    BY <1>2, <1>3
  <2>2. DOMAIN <<>> = {}
    BY EmptySeq, LenProperties
  <2>3. g # <<>>
    BY <2>1, <2>2
  <2> QED BY <1>1, <1>3, <2>3 DEF Version
<1>9. EnsureHeader(f) = IF f = <<>> \/ f[1].kind # "schema" THEN g ELSE f
  BY DEF EnsureHeader
<1>10. HeaderIfEmpty(f) = IF f = <<>> THEN g ELSE f
  BY DEF HeaderIfEmpty, EnsureHeader
<1>11. SameShown(f, f) /\ SameShown(f, g)
  BY <1>5, <1>6 DEF SameShown
<1>12. EnsureHeader(f) = f
       \/ (EnsureHeader(f) = g /\ Version(f) = 1)
  BY <1>7, <1>9
<1>13. HeaderIfEmpty(f) = f \/ (HeaderIfEmpty(f) = g /\ Version(f) = 1)
  BY <1>7, <1>10
<1>14. Version(f) <= Version(f)
  OBVIOUS
<1>15. Version(f) = 1 => Version(f) <= Version(g) /\ Version(g) \in Nat
  BY <1>8
<1>16. \A e \in {f, g} : (e = g => Version(f) = 1)
          => SameShown(f, e) /\ Version(e) \in Nat /\ Version(f) <= Version(e)
  BY <1>11, <1>14, <1>15
<1> PICK a, b : a = EnsureHeader(f) /\ b = HeaderIfEmpty(f)
  OBVIOUS
<1>17. (a = f \/ (a = g /\ Version(f) = 1)) /\ (b = f \/ (b = g /\ Version(f) = 1))
  BY <1>12, <1>13
<1>18. \A e \in {a, b} : SameShown(f, e) /\ Version(e) \in Nat /\ Version(f) <= Version(e)
  BY ONLY <1>11, <1>14, <1>15, <1>17, Version(f) \in Nat
<1> QED BY <1>18

LEMMA MigratedShown ==
    ASSUME NEW f, Sound(f), Version(f) \in Nat, NEW target \in Nat
    PROVE  /\ SameShown(f, Migrated(f, target))
           /\ Version(Migrated(f, target)) \in Nat /\ Version(f) <= Version(Migrated(f, target))
<1> PICK e : e = EnsureHeader(f)
  OBVIOUS
<1>1. /\ SameShown(f, e) /\ Version(e) \in Nat /\ Version(f) <= Version(e)
      /\ Sound(e) /\ e # <<>> /\ e[1].kind = "schema"
  BY HeaderShown, HeaderSound
<1> PICK to : to = IF target < Latest THEN target ELSE Latest
  OBVIOUS
<1> PICK g : g = [e EXCEPT ![1] = Schema(to)]
  OBVIOUS
<1>2. CASE Version(e) < target /\ Version(e) < Latest
  <2>1. Migrated(f, target) = g
    BY <1>2 DEF Migrated
  <2>2. to \in Nat /\ Version(e) <= to
    BY <1>1, <1>2 DEF Latest
  <2>3. AllLines(e) /\ DOMAIN e = 1..Len(e) /\ Len(e) \in Nat
    BY <1>1, FileShape DEF Sound
  <2>4. Schema(to).kind = "schema" /\ Schema(to).val = to
    BY LineFields DEF Schema
  <2>5. 1 \in DOMAIN e
    <3>1. Len(e) # 0
      BY <1>1, <2>3, EmptySeq DEF AllLines
    <3> QED BY <2>3, <3>1
  <2>6. /\ g = [i \in DOMAIN e |-> g[i]] /\ g[1] = Schema(to)
        /\ \A i \in DOMAIN e : i # 1 => g[i] = e[i]
    BY <2>5
  <2>7. \A i \in DOMAIN e : g[i].kind = e[i].kind
    BY <1>1, <2>4, <2>6
  <2>8. \A i \in Entries(e) : g[i] = e[i]
    BY <1>1, <2>6 DEF Entries, Logged
  <2>9. /\ LogIn(g) = LogIn(e)
        /\ RecordsIn(g) = EditedRecords(e, g)
    <3>1. /\ AllLines(e) /\ g = [i \in DOMAIN e |-> g[i]]
          /\ \A i \in DOMAIN e : g[i].kind = e[i].kind
          /\ \A i \in Entries(e) : g[i] = e[i]
      BY <2>3, <2>6, <2>7, <2>8
    <3> QED BY ONLY <3>1, EditShown
  <2>10. RecordsIn(g) = RecordsIn(e)
    <3>1. \A i \in DOMAIN e : e[i].kind \in Keyed => g[i] = e[i]
      BY <1>1, <2>6 DEF Keyed
    <3> QED BY <2>9, <3>1 DEF RecordsIn, EditedRecords
  <2>11. Version(g) = to
    <3>1. DOMAIN g = DOMAIN e /\ DOMAIN <<>> = {}
      BY <2>6, EmptySeq, LenProperties
    <3>2. g # <<>>
      BY <2>5, <3>1
    <3> QED BY <2>4, <2>6, <3>2 DEF Version
  <2>12. Version(f) <= to
    BY <1>1, <2>2
  <2> QED BY <1>1, <2>1, <2>2, <2>9, <2>10, <2>11, <2>12 DEF SameShown
<1>3. CASE ~(Version(e) < target /\ Version(e) < Latest)
  <2>1. Migrated(f, target) = e
    BY <1>3 DEF Migrated
  <2> QED BY <1>1, <2>1
<1> QED BY <1>2, <1>3

Places(a, J) == {a[x] : x \in J}

\* Lines picked out of some that were picked out are lines picked out.
LEMMA PickedTwice ==
    ASSUME NEW S, Spans(S), NEW f, NEW a, Selects(a, f, S), NEW J \in SUBSET (1..Cardinality(S))
    PROVE  At(At(f, S), J) = At(f, Places(a, J))
<1> PICK n \in Nat : S \in SUBSET (1..n)
  BY DEF Spans
<1> PICK c, g : c = Cardinality(S) /\ g = At(f, S)
  OBVIOUS
<1>1. c \in Nat
  BY AtPositions
<1> DEFINE T == {a[x] : x \in J}
           m == [x \in J |-> a[x]]
<1>2. \A x \in J : x \in 1..c /\ a[x] \in S /\ m[x] = a[x] /\ m[x] \in T /\ g[x] = f[a[x]]
  BY DEF Selects
<1>3. m \in [J -> T] /\ \A x \in J : g[x] = f[m[x]]
  BY <1>2
<1>4. \A x, y \in J : x < y => m[x] < m[y]
  BY <1>2 DEF Selects
<1>5. \A t \in T : \E x \in J : m[x] = t
  OBVIOUS
<1>6. Spans(J)
  BY <1>1, <1>2 DEF Spans
<1>7. Spans(T)
  <2>1. T \in SUBSET (1..n)
    BY <1>2
  <2> QED BY <2>1 DEF Spans
<1> HIDE DEF T, m
<1>8. Aligns(m, g, J, f, T)
  BY <1>3, <1>4, <1>5 DEF Aligns
<1>9. At(g, J) = At(f, T)
  BY <1>6, <1>7, <1>8, SameLines
<1> QED BY <1>9 DEF T, Places

\* Dropping entries from the file drops them from the log it shows.
Without(f, D) == At(f, {i \in DOMAIN f : f[i] \notin D})

LEMMA DropShown ==
    ASSUME NEW f, AllLines(f), f # <<>>, f[1].kind = "schema",
           NEW D, \A l \in D : l.kind \in Logged
    PROVE  /\ RecordsIn(Without(f, D)) = RecordsIn(f)
           /\ LogIn(Without(f, D)) = Without(LogIn(f), D)
           /\ Version(Without(f, D)) = Version(f)
<1> PICK n : n = Len(f)
  OBVIOUS
<1>1. n \in Nat /\ DOMAIN f = 1..n /\ Entries(f) \in SUBSET (1..n)
  BY EntriesOf
<1> PICK K : K = {i \in DOMAIN f : f[i] \notin D}
  OBVIOUS
<1> PICK g : g = At(f, K)
  OBVIOUS
<1>2. K \in SUBSET (1..n) /\ Spans(K)
  BY <1>1 DEF Spans
<1> PICK c : c = Cardinality(K)
  OBVIOUS
<1>3. c \in Nat /\ DOMAIN g = 1..c
  BY <1>1, <1>2, AtPositions, AtIsFile
<1>4. PICK a : Selects(a, f, K)
  BY <1>1, <1>2, AtPositions
<1>5. \A x \in 1..c : a[x] \in K /\ a[x] \in DOMAIN f /\ f[a[x]] \notin D /\ g[x] = f[a[x]]
  BY <1>4 DEF Selects
<1>6. \A i \in K : \E x \in 1..c : a[x] = i
  BY <1>4 DEF Selects
<1>7. RecordsIn(g) = RecordsIn(f)
  <2>1. ASSUME NEW r \in RecordsIn(g) PROVE r \in RecordsIn(f)
    <3>1. PICK x \in 1..c : r = g[x] /\ g[x].kind \in Keyed
      BY <1>3 DEF RecordsIn
    <3> QED BY <1>5, <3>1 DEF RecordsIn
  <2>2. ASSUME NEW r \in RecordsIn(f) PROVE r \in RecordsIn(g)
    <3>1. PICK i \in DOMAIN f : r = f[i] /\ f[i].kind \in Keyed
      BY DEF RecordsIn
    <3>2. i \in K
      BY <3>1 DEF Keyed, Logged
    <3>3. PICK x \in 1..c : a[x] = i
      BY <1>6, <3>2
    <3> QED BY <1>3, <1>5, <3>1, <3>3 DEF RecordsIn
  <2> QED BY <2>1, <2>2
<1>8. Version(g) = Version(f)
  <2>1. 1 \in K
    <3>1. 1 \in 1..n
      <4>1. f \in Seq(ToSet(f))
        BY DEF AllLines
      <4>2. n # 0
        BY <4>1, EmptySeq
      <4> QED BY <1>1, <4>2
    <3> QED BY <1>1, <3>1 DEF Logged
  <2>2. PICK x \in 1..c : a[x] = 1
    BY <1>6, <2>1
  <2>3. 1 \in 1..c /\ (x = 1 \/ 1 < x)
    BY <1>3
  <2>4. a[1] \in 1..n
    BY <1>2, <1>5, <2>3
  <2>5. 1 < x => a[1] < a[x]
    BY <1>4, <2>3 DEF Selects
  <2>6. a[1] = 1
    BY <1>1, <2>2, <2>3, <2>4, <2>5
  <2>7. g[1] = f[1] /\ 1 \in DOMAIN g
    BY <1>3, <1>5, <2>3, <2>6
  <2>8. g # <<>>
    BY <2>7, EmptySeq, LenProperties
  <2> QED BY <2>7, <2>8 DEF Version
<1>9. LogIn(g) = Without(LogIn(f), D)
  <2> PICK J : J = Entries(g)
    OBVIOUS
  <2> PICK L : L = Entries(f)
    OBVIOUS
  <2>1. Spans(L) /\ L \in SUBSET (1..n)
    BY <1>1 DEF Spans
  <2>2. J \in SUBSET (1..c)
    BY <1>3 DEF Entries
  <2>3. At(g, J) = At(f, Places(a, J))
    BY <1>2, <1>4, <2>2, PickedTwice
  <2>4. Places(a, J) = L \cap K
    <3>1. \A x \in J : a[x] \in L \cap K
      BY <1>3, <1>5 DEF Entries
    <3>2. ASSUME NEW i \in L \cap K PROVE \E x \in J : a[x] = i
      <4>1. PICK x \in 1..c : a[x] = i
        BY <1>6
      <4>2. x \in J
        BY <1>3, <1>5, <4>1 DEF Entries
      <4> QED BY <4>1, <4>2
    <3> QED BY <3>1, <3>2 DEF Places
  <2> PICK log, k : log = At(f, L) /\ k = Cardinality(L)
    OBVIOUS
  <2>5. PICK b : Selects(b, f, L)
    BY <1>1, <2>1, AtPositions
  <2>6. k \in Nat /\ DOMAIN log = 1..k
    BY <1>1, <2>1, AtPositions, AtIsFile
  <2> PICK M : M = {x \in DOMAIN log : log[x] \notin D}
    OBVIOUS
  <2>7. \A x \in 1..k : b[x] \in L /\ log[x] = f[b[x]]
    BY <2>5 DEF Selects
  <2>8. M \in SUBSET (1..k)
    BY <2>6
  <2>9. At(log, M) = At(f, Places(b, M))
    BY <2>1, <2>5, <2>8, PickedTwice
  <2>10. Places(b, M) = L \cap K
    <3>1. \A x \in M : b[x] \in L \cap K
      BY <1>1, <2>1, <2>6, <2>7
    <3>2. ASSUME NEW i \in L \cap K PROVE \E x \in M : b[x] = i
      <4>1. PICK x \in 1..k : b[x] = i
        BY <2>5 DEF Selects
      <4>2. x \in M
        BY <2>6, <2>7, <4>1
      <4> QED BY <4>1, <4>2
    <3> QED BY <3>1, <3>2 DEF Places
  <2>11. At(g, J) = At(log, M)
    BY <2>3, <2>4, <2>9, <2>10
  <2> QED BY <2>11 DEF LogIn, Without
<1> QED BY <1>7, <1>8, <1>9 DEF Without

-----------------------------------------------------------------------------
(* The steps of the store, between two files.                              *)

Kind(R, kind) == {r \in R : r.kind = kind}
Besides(R, l) == {r \in R : ~Same(r, l)}

SessionAdded(R, Q) ==
    \E s \in Q :
        /\ s.kind = "session" /\ \A r \in Kind(R, "session") : r.key < s.key
        /\ \E d \in Q : d.kind = "detail" /\ d.key = s.key /\ Q = R \cup {s, d}

RecordPut(R, Q) ==
    \E l \in Q : l.kind \in {"device", "filter"} /\ Q = Besides(R, l) \cup {l}

WorkspacePut(R, Q) ==
    \E l \in Q :
        /\ l.kind = "workspace" /\ ~l.val /\ Q = Besides(R, l) \cup {l}
        /\ Besides(R, l) = R => \E n \in Limits : Cardinality(Kind(R, "workspace")) < n

SelectedIn(R, key) ==
    {r \in R : r.kind # "workspace"} \cup {Selected(r, key) : r \in Kind(R, "workspace")}

WorkspaceSelected(R, Q) == \E w \in Kind(R, "workspace") : Q = SelectedIn(R, w.key)

StaleHidden(R, Q) ==
    Q = {r \in R : ~(r.kind = "device" /\ r.val.stale)}
          \cup {[r EXCEPT !.val.hidden = TRUE] : r \in {d \in Kind(R, "device") : d.val.stale}}

RecordsMade(R, Q) ==
    \/ Q = R \/ SessionAdded(R, Q) \/ RecordPut(R, Q) \/ WorkspacePut(R, Q)
    \/ WorkspaceSelected(R, Q) \/ StaleHidden(R, Q)

EntryAdded(R, L, M) ==
    /\ M # <<>> /\ M = Append(L, Last(M)) /\ Dated(Last(M))
    /\ Last(M).kind = "scan" => \E w \in Kind(R, "workspace") : w.key = Last(M).key

ExpiresRollup(l, g, c) == l.kind = "rollup" /\ l.key = g /\ l.val \in 1..(c - 1)
ExpiresPresence(l, n, c) ==
    /\ l.kind = "event" /\ l.val.type \in {"join", "leave"}
    /\ n = AllNetworks \/ l.val.network = n
    /\ l.val.at \in 1..(c - 1)

EntriesExpired(L, M) ==
    \E c \in Cutoffs :
        \/ \E g \in Granularities : M = At(L, {i \in DOMAIN L : ~ExpiresRollup(L[i], g, c)})
        \/ \E n \in Networks : M = At(L, {i \in DOMAIN L : ~ExpiresPresence(L[i], n, c)})

\* Replacing the file f by the file g is one step of the store, or none.
Promises(f, g) ==
    /\ Version(f) \in Nat /\ Version(g) \in Nat /\ Version(f) <= Version(g)
    /\ \/ LogIn(g) = LogIn(f) /\ RecordsMade(RecordsIn(f), RecordsIn(g))
       \/ /\ RecordsIn(g) = RecordsIn(f)
          /\ EntryAdded(RecordsIn(f), LogIn(f), LogIn(g)) \/ EntriesExpired(LogIn(f), LogIn(g))

\* Writing the header on the way adds nothing to a step.
LEMMA BehindHeader ==
    ASSUME NEW f, Sound(f), Version(f) \in Nat, NEW e \in {EnsureHeader(f), HeaderIfEmpty(f)},
           NEW g, Promises(e, g)
    PROVE  Promises(f, g)
<1>1. SameShown(f, e) /\ Version(e) \in Nat /\ Version(f) <= Version(e)
  BY HeaderShown
<1>2. Version(g) \in Nat /\ Version(e) <= Version(g)
  BY DEF Promises
<1>3. Version(f) <= Version(g)
  BY <1>1, <1>2
<1>4. RecordsIn(e) = RecordsIn(f) /\ LogIn(e) = LogIn(f)
  BY <1>1 DEF SameShown
<1> QED BY <1>2, <1>3, <1>4 DEF Promises

LEMMA MigrationPromised ==
    ASSUME NEW f, Sound(f), Version(f) \in Nat, NEW target \in Nat
    PROVE  Promises(f, Migrated(f, target))
BY MigratedShown DEF Promises, SameShown, RecordsMade

\* Lines edited where they stand: the version is left alone.
LEMMA EditVersion ==
    ASSUME NEW f, AllLines(f), NEW g, g = [i \in DOMAIN f |-> g[i]],
           \A i \in DOMAIN f : g[i].kind = f[i].kind,
           \A i \in DOMAIN f : f[i].kind = "schema" => g[i] = f[i]
    PROVE  Version(g) = Version(f)
<1> PICK n : n = Len(f)
  OBVIOUS
<1>1. n \in Nat /\ DOMAIN f = 1..n /\ f \in Seq(ToSet(f))
  BY EntriesOf
<1>2. DOMAIN g = 1..n
  BY <1>1
<1>3. g \in Seq(ToSet(g)) /\ Len(g) = n
  BY <1>1, <1>2, TableIsFile
<1>4. (f = <<>> <=> n = 0) /\ (g = <<>> <=> n = 0)
  BY <1>1, <1>3, EmptySeq
<1>5. n # 0 => 1 \in DOMAIN f
  BY <1>1
<1>6. f # <<>> => g[1].kind = f[1].kind
  BY <1>4, <1>5
<1>7. f # <<>> /\ f[1].kind = "schema" => g[1] = f[1]
  BY <1>4, <1>5
<1>8. f = <<>> <=> g = <<>>
  BY <1>4
<1> QED BY ONLY <1>6, <1>7, <1>8, VersionStays

\* A record put into the file takes the place of the one with its key.
LEMMA PutShown ==
    ASSUME NEW f, Sound(f), NEW l, l.kind \in {"device", "filter", "workspace"}
    PROVE  /\ Version(Put(f, l)) = Version(f) /\ LogIn(Put(f, l)) = LogIn(f)
           /\ RecordsIn(Put(f, l)) = Besides(RecordsIn(f), l) \cup {l}
<1>0. AllLines(f)
  BY DEF Sound
<1>1. CASE \E i \in DOMAIN f : Same(f[i], l)
  <2> PICK g : g = Put(f, l)
    OBVIOUS
  <2>1. g = [i \in DOMAIN f |-> IF Same(f[i], l) THEN l ELSE f[i]]
    BY <1>1 DEF Put, Edit
  <2>2. g = [i \in DOMAIN f |-> g[i]]
    BY <2>1
  <2>3. \A i \in DOMAIN f : (Same(f[i], l) /\ g[i] = l) \/ (~Same(f[i], l) /\ g[i] = f[i])
    BY <2>1
  <2>4. \A i \in DOMAIN f : g[i].kind = f[i].kind
    BY <2>3 DEF Same
  <2>5. \A i \in DOMAIN f : f[i].kind = "schema" => g[i] = f[i]
    BY <2>3 DEF Same
  <2>6. \A i \in Entries(f) : g[i] = f[i]
    BY <2>3 DEF Same, Entries, Logged
  <2>7. Version(g) = Version(f)
    BY ONLY <1>0, <2>2, <2>4, <2>5, EditVersion
  <2>8. LogIn(g) = LogIn(f) /\ RecordsIn(g) = EditedRecords(f, g)
    BY ONLY <1>0, <2>2, <2>4, <2>6, EditShown
  <2>9. EditedRecords(f, g) = Besides(RecordsIn(f), l) \cup {l}
    <3>1. ASSUME NEW r \in EditedRecords(f, g) PROVE r \in Besides(RecordsIn(f), l) \cup {l}
      <4>1. PICK i \in DOMAIN f : f[i].kind \in Keyed /\ r = g[i]
        BY DEF EditedRecords
      <4>2. CASE Same(f[i], l) /\ g[i] = l
        BY <4>1, <4>2
      <4>3. CASE ~Same(f[i], l) /\ g[i] = f[i]
        <5>1. r \in RecordsIn(f)
          BY <4>1, <4>3 DEF RecordsIn
        <5> QED BY <4>1, <4>3, <5>1 DEF Besides
      <4> QED BY <2>3, <4>2, <4>3
    <3>2. ASSUME NEW r \in Besides(RecordsIn(f), l) PROVE r \in EditedRecords(f, g)
      <4>1. PICK i \in DOMAIN f : f[i].kind \in Keyed /\ r = f[i]
        BY DEF Besides, RecordsIn
      <4>2. g[i] = f[i]
        BY <2>3, <4>1 DEF Besides
      <4> QED BY <4>1, <4>2 DEF EditedRecords
    <3>3. l \in EditedRecords(f, g)
      <4>1. PICK i \in DOMAIN f : Same(f[i], l)
        BY <1>1
      <4>2. g[i] = l /\ f[i].kind \in Keyed
        BY <2>3, <4>1 DEF Same, Keyed
      <4> QED BY <4>2 DEF EditedRecords
    <3> QED BY <3>1, <3>2, <3>3
  <2> QED BY <2>7, <2>8, <2>9
<1>2. CASE ~ \E i \in DOMAIN f : Same(f[i], l)
  <2>1. Put(f, l) = Append(f, l)
    BY <1>2 DEF Put
  <2>2. l.kind \in Keyed \cup Logged /\ l.kind \in Keyed
    BY DEF Keyed
  <2>3. /\ Version(Append(f, l)) = Version(f)
        /\ RecordsIn(Append(f, l)) = RecordsIn(f) \cup {l} /\ LogIn(Append(f, l)) = LogIn(f)
    BY <1>0, <2>2, AppendShown
  <2>4. \A r \in RecordsIn(f) : ~Same(r, l)
    BY <1>2 DEF RecordsIn
  <2>5. Besides(RecordsIn(f), l) = RecordsIn(f)
    BY <2>4 DEF Besides
  <2> QED BY <2>1, <2>3, <2>5
<1> QED BY <1>1, <1>2

LEMMA PutPromised ==
    ASSUME NEW f, Sound(f), Version(f) \in Nat, NEW l, l.kind \in {"device", "filter"}
    PROVE  Promises(f, Put(f, l))
<1> PICK g : g = Put(f, l)
  OBVIOUS
<1>1. /\ Version(g) = Version(f) /\ LogIn(g) = LogIn(f)
      /\ RecordsIn(g) = Besides(RecordsIn(f), l) \cup {l}
  BY PutShown
<1>2. l \in RecordsIn(g)
  BY <1>1
<1>3. RecordPut(RecordsIn(f), RecordsIn(g))
  BY <1>1, <1>2 DEF RecordPut
<1>4. Version(f) <= Version(g) /\ Version(g) \in Nat
  BY <1>1
<1> QED BY <1>1, <1>3, <1>4 DEF Promises, RecordsMade

\* As many workspaces are seen as the file has lines of them, or fewer.
LEMMA WorkspacesShown ==
    ASSUME NEW f, Sound(f)
    PROVE  /\ Cardinality(Kind(RecordsIn(f), "workspace")) \in Nat
           /\ Cardinality(Of(f, "workspace")) \in Nat
           /\ Cardinality(Kind(RecordsIn(f), "workspace")) <= Cardinality(Of(f, "workspace"))
<1> PICK W, K : W = Of(f, "workspace") /\ K = Kind(RecordsIn(f), "workspace")
  OBVIOUS
<1>1. IsFiniteSet(W) /\ Cardinality(W) \in Nat
  BY WorkspacesFinite DEF Sound
<1> DEFINE h == [i \in W |-> f[i]]
<1>2. \A i \in W : h[i] = f[i] /\ f[i] \in K
  BY DEF Of, Kind, RecordsIn, Keyed
<1>3. \A r \in K : \E i \in W : h[i] = r
  BY DEF Of, Kind, RecordsIn
<1>4. h \in [W -> K]
  BY <1>2
<1> HIDE DEF h
<1>5. h \in Surjection(W, K)
  BY <1>3, <1>4, Fun_IsSurj
<1>6. IsFiniteSet(K) /\ Cardinality(K) <= Cardinality(W)
  BY <1>1, <1>5, FS_Surjection
<1> QED BY <1>1, <1>6, FS_CardinalityType

LEMMA WorkspacePromised ==
    ASSUME NEW f, Sound(f), Version(f) \in Nat, NEW l, l.kind = "workspace", ~l.val,
           NEW limit \in Limits,
           l.key \notin Keys(f, "workspace") => ~NoRoom(f, limit)
    PROVE  Promises(f, Put(f, l))
<1> PICK g : g = Put(f, l)
  OBVIOUS
<1>1. /\ Version(g) = Version(f) /\ LogIn(g) = LogIn(f)
      /\ RecordsIn(g) = Besides(RecordsIn(f), l) \cup {l}
  BY PutShown
<1>2. ASSUME Besides(RecordsIn(f), l) = RecordsIn(f)
      PROVE  Cardinality(Kind(RecordsIn(f), "workspace")) < limit
  <2>1. l.key \notin Keys(f, "workspace")
    <3> SUFFICES ASSUME NEW i \in Of(f, "workspace"), l.key = f[i].key PROVE FALSE
      BY DEF Keys
    <3>1. f[i] \in RecordsIn(f) /\ Same(f[i], l)
      BY DEF Of, RecordsIn, Keyed, Same
    <3> QED BY <1>2, <3>1 DEF Besides
  <2>2. limit \in Nat
    BY CommandsAssumption DEF Limits
  <2>3. ~(Cardinality(Of(f, "workspace")) >= limit)
    BY <2>1 DEF NoRoom
  <2> PICK c, k : c = Cardinality(Of(f, "workspace")) /\ k = Cardinality(Kind(RecordsIn(f), "workspace"))
    OBVIOUS
  <2>4. c \in Nat /\ k \in Nat /\ k <= c /\ ~(c >= limit)
    BY <2>3, WorkspacesShown
  <2>5. k < limit
    BY <2>2, <2>4
  <2> QED BY <2>5
<1>3. WorkspacePut(RecordsIn(f), RecordsIn(g))
  <2>1. l \in RecordsIn(g)
    BY <1>1
  <2> QED BY <1>1, <1>2, <2>1 DEF WorkspacePut
<1>4. Version(f) <= Version(g) /\ Version(g) \in Nat
  BY <1>1
<1> QED BY <1>1, <1>3, <1>4 DEF Promises, RecordsMade

\* The log of a file is a sequence of lines of the file.
LEMMA LogOf ==
    ASSUME NEW f, AllLines(f)
    PROVE  /\ LogIn(f) \in Seq(ToSet(LogIn(f)))
           /\ \A i \in DOMAIN LogIn(f) : LogIn(f)[i] \in ToSet(f)
<1> PICK n, S : n = Len(f) /\ S = Entries(f)
  OBVIOUS
<1>1. n \in Nat /\ S \in SUBSET (1..n) /\ DOMAIN f = 1..n
  BY EntriesOf
<1> PICK c, g : c = Cardinality(S) /\ g = At(f, S)
  OBVIOUS
<1>2. g \in Seq(ToSet(g)) /\ DOMAIN g = 1..c
  BY <1>1, AtIsFile
<1>3. PICK m : Selects(m, f, S)
  BY <1>1, AtPositions
<1>4. \A i \in 1..c : g[i] = f[m[i]] /\ m[i] \in S
  BY <1>3 DEF Selects
<1>5. \A i \in 1..c : g[i] \in ToSet(f)
  <2>1. \A i \in 1..c : m[i] \in DOMAIN f
    BY <1>1, <1>4
  <2> QED BY <1>4, <2>1 DEF ToSet
<1> QED BY <1>2, <1>5 DEF LogIn

LEMMA EntryPromised ==
    ASSUME NEW f, Sound(f), Version(f) \in Nat, NEW l, l.kind \in Logged, Dated(l),
           l.kind = "scan" => l.key \in Keys(f, "workspace")
    PROVE  Promises(f, Append(f, l))
<1> PICK g, L, M : g = Append(f, l) /\ L = LogIn(f) /\ M = LogIn(g)
  OBVIOUS
<1>1. Version(g) = Version(f) /\ RecordsIn(g) = RecordsIn(f) /\ M = Append(L, l)
  BY AppendShown DEF Sound
<1>2. L \in Seq(ToSet(L))
  BY LogOf DEF Sound
<1>3. M # <<>> /\ Last(M) = l
  <2> DEFINE A == ToSet(L) \cup {l}
  <2>1. L \in Seq(A) /\ l \in A
    BY <1>2, SeqMonotonic
  <2>2. Len(M) = Len(L) + 1 /\ M[Len(L) + 1] = l
    BY <1>1, <2>1, AppendProperties
  <2>3. Len(L) \in Nat
    BY <1>2, LenProperties
  <2>4. Len(M) # 0 /\ M[Len(M)] = l
    BY <2>2, <2>3
  <2>5. M # <<>>
    BY <2>4, EmptySeq
  <2> QED BY <2>4, <2>5 DEF Last
<1>4. l.kind = "scan" => \E w \in Kind(RecordsIn(f), "workspace") : w.key = l.key
  <2> SUFFICES ASSUME l.kind = "scan" PROVE \E w \in Kind(RecordsIn(f), "workspace") : w.key = l.key
    OBVIOUS
  <2>1. PICK i \in Of(f, "workspace") : f[i].key = l.key
    BY DEF Keys
  <2>2. f[i] \in Kind(RecordsIn(f), "workspace")
    BY DEF Of, Kind, RecordsIn, Keyed
  <2> QED BY <2>1, <2>2
<1>5. EntryAdded(RecordsIn(f), L, M)
  BY <1>1, <1>3, <1>4 DEF EntryAdded
<1>6. Version(f) <= Version(g) /\ Version(g) \in Nat
  BY <1>1
<1> QED BY <1>1, <1>5, <1>6 DEF Promises

\* The lines of D leave the file: entries that are older than a cutoff.
LEMMA ExpiryPromised ==
    ASSUME NEW f, Sound(f), Version(f) \in Nat, f # <<>>, f[1].kind = "schema",
           NEW D, \A l \in D : l.kind \in Logged,
           NEW c \in Cutoffs,
           \/ \E g \in Granularities : \A l \in ToSet(f) : l \in D <=> ExpiresRollup(l, g, c)
           \/ \E n \in Networks : \A l \in ToSet(f) : l \in D <=> ExpiresPresence(l, n, c)
    PROVE  Promises(f, Without(f, D))
<1> PICK h, L, M : h = Without(f, D) /\ L = LogIn(f) /\ M = LogIn(h)
  OBVIOUS
<1>1. Version(h) = Version(f) /\ RecordsIn(h) = RecordsIn(f) /\ M = Without(L, D)
  BY DropShown DEF Sound
<1>2. \A i \in DOMAIN L : L[i] \in ToSet(f)
  BY LogOf DEF Sound
<1>3. EntriesExpired(L, M)
  <2>1. ASSUME NEW g \in Granularities, \A l \in ToSet(f) : l \in D <=> ExpiresRollup(l, g, c)
        PROVE  EntriesExpired(L, M)
    <3>1. {i \in DOMAIN L : L[i] \notin D} = {i \in DOMAIN L : ~ExpiresRollup(L[i], g, c)}
      BY <1>2, <2>1
    <3> QED BY <1>1, <3>1 DEF EntriesExpired, Without
  <2>2. ASSUME NEW n \in Networks, \A l \in ToSet(f) : l \in D <=> ExpiresPresence(l, n, c)
        PROVE  EntriesExpired(L, M)
    <3>1. {i \in DOMAIN L : L[i] \notin D} = {i \in DOMAIN L : ~ExpiresPresence(L[i], n, c)}
      BY <1>2, <2>2
    <3> QED BY <1>1, <3>1 DEF EntriesExpired, Without
  <2> QED BY <2>1, <2>2
<1>4. Version(f) <= Version(h) /\ Version(h) \in Nat
  BY <1>1
<1> QED BY <1>1, <1>3, <1>4 DEF Promises

LEMMA SessionPromised ==
    ASSUME NEW f, Sound(f), Version(f) \in Nat
    PROVE  Promises(f, WithSession(f, NextSessionId(f)))
<1> PICK id, s, d : /\ id = NextSessionId(f)
                    /\ s = Line("session", id, "json") /\ d = Line("detail", id, "fields")
  OBVIOUS
<1>1. s.kind = "session" /\ s.key = id /\ d.kind = "detail" /\ d.key = id
  BY LineFields
<1>2. s = Line(s.kind, s.key, s.val)
  BY LineFields
<1>3. id \in Nat /\ id \notin Keys(f, "session")
  BY NextSessionIdFresh
<1> PICK e, g : e = Append(f, s) /\ g = Append(e, d)
  OBVIOUS
<1>4. Sound(e)
  BY <1>1, <1>2, <1>3, AppendSound
<1>5. WithSession(f, id) = g
  BY SessionAppended DEF Sound, AllLines
<1>6. Version(e) = Version(f) /\ RecordsIn(e) = RecordsIn(f) \cup {s} /\ LogIn(e) = LogIn(f)
  BY <1>1, AppendShown DEF Sound, Keyed
<1>7. Version(g) = Version(e) /\ RecordsIn(g) = RecordsIn(e) \cup {d} /\ LogIn(g) = LogIn(e)
  BY <1>1, <1>4, AppendShown DEF Sound, Keyed
<1>8. \A r \in Kind(RecordsIn(f), "session") : r.key < id
  <2> TAKE r \in Kind(RecordsIn(f), "session")
  <2>1. r.key \in Keys(f, "session")
    BY DEF Kind, RecordsIn, Keys, Of
  <2> QED BY <2>1, NextSessionIdFresh
<1>9. RecordsIn(g) = RecordsIn(f) \cup {s, d}
  BY <1>6, <1>7
<1>10. SessionAdded(RecordsIn(f), RecordsIn(g))
  <2>1. s \in RecordsIn(g) /\ d \in RecordsIn(g)
    BY <1>9
  <2> QED BY <1>1, <1>8, <1>9, <2>1 DEF SessionAdded
<1>11. Version(f) <= Version(g) /\ Version(g) \in Nat /\ LogIn(g) = LogIn(f)
  BY <1>6, <1>7
<1> QED BY <1>5, <1>10, <1>11 DEF Promises, RecordsMade

LEMMA HiddenPromised ==
    ASSUME NEW f, Sound(f), Version(f) \in Nat
    PROVE  Promises(f, Edit(f, LAMBDA l : l.kind = "device" /\ l.val.stale,
                               LAMBDA l : [l EXCEPT !.val.hidden = TRUE]))
<1> DEFINE Hidden(l) == [l EXCEPT !.val.hidden = TRUE]
           Stale(l) == l.kind = "device" /\ l.val.stale
<1> PICK g, R : /\ R = RecordsIn(f)
                /\ g = Edit(f, LAMBDA l : l.kind = "device" /\ l.val.stale,
                               LAMBDA l : [l EXCEPT !.val.hidden = TRUE])
  OBVIOUS
<1>0. AllLines(f)
  BY DEF Sound
<1>1. g = [i \in DOMAIN f |-> IF Stale(f[i]) THEN Hidden(f[i]) ELSE f[i]]
  BY DEF Edit
<1>2. g = [i \in DOMAIN f |-> g[i]]
  BY <1>1
<1>3. \A i \in DOMAIN f : (Stale(f[i]) /\ g[i] = Hidden(f[i])) \/ (~Stale(f[i]) /\ g[i] = f[i])
  BY <1>1
<1>4. \A i \in DOMAIN f : g[i].kind = f[i].kind
  <2> TAKE i \in DOMAIN f
  <2> PICK l : l = f[i]
    OBVIOUS
  <2>1. l = [kind |-> l.kind, key |-> l.key, val |-> l.val]
    BY <1>0 DEF AllLines, Line
  <2>2. Hidden(l).kind = l.kind
    <3> PICK v : v = [l.val EXCEPT !.hidden = TRUE]
      OBVIOUS
    <3> PICK u : u = l.val
      OBVIOUS
    <3>1. Hidden(l) = [l EXCEPT !.val = v]
      OBVIOUS
    <3> HIDE DEF Hidden
    <3>2. Hidden(l) = [[kind |-> l.kind, key |-> l.key, val |-> u] EXCEPT !.val = v]
      BY <2>1, <3>1, Zenon
    <3>3. [[kind |-> l.kind, key |-> l.key, val |-> u] EXCEPT !.val = v].kind = l.kind
      OBVIOUS
    <3> QED BY <3>2, <3>3
  <2> QED BY <1>3, <2>2
<1>5. /\ \A i \in DOMAIN f : f[i].kind = "schema" => g[i] = f[i]
      /\ \A i \in Entries(f) : g[i] = f[i]
  BY <1>3 DEF Entries, Logged
<1>6. Version(g) = Version(f)
  BY ONLY <1>0, <1>2, <1>4, <1>5, EditVersion
<1>7. LogIn(g) = LogIn(f) /\ RecordsIn(g) = EditedRecords(f, g)
  BY ONLY <1>0, <1>2, <1>4, <1>5, EditShown
<1> HIDE DEF Hidden, Stale
<1>8. EditedRecords(f, g) = {r \in R : ~Stale(r)} \cup {Hidden(r) : r \in {d \in R : Stale(d)}}
  <2>1. ASSUME NEW r \in EditedRecords(f, g)
        PROVE  r \in {q \in R : ~Stale(q)} \cup {Hidden(q) : q \in {d \in R : Stale(d)}}
    <3>1. PICK i \in DOMAIN f : f[i].kind \in Keyed /\ r = g[i]
      BY DEF EditedRecords
    <3>2. f[i] \in R
      BY <3>1 DEF RecordsIn
    <3> QED BY <1>3, <3>1, <3>2
  <2>2. ASSUME NEW q \in R
        PROVE  (~Stale(q) => q \in EditedRecords(f, g)) /\ (Stale(q) => Hidden(q) \in EditedRecords(f, g))
    <3>1. PICK i \in DOMAIN f : f[i].kind \in Keyed /\ q = f[i]
      BY DEF RecordsIn
    <3>2. g[i] \in EditedRecords(f, g)
      BY <3>1 DEF EditedRecords
    <3> QED BY <1>3, <3>1, <3>2
  <2> QED BY <2>1, <2>2
<1>9. StaleHidden(R, RecordsIn(g))
  <2>1. {d \in R : Stale(d)} = {d \in Kind(R, "device") : d.val.stale}
    BY DEF Stale, Kind
  <2>2. RecordsIn(g) = {r \in R : ~(r.kind = "device" /\ r.val.stale)}
                         \cup {Hidden(r) : r \in {d \in Kind(R, "device") : d.val.stale}}
    BY <1>7, <1>8, <2>1 DEF Stale
  <2> QED BY <2>2 DEF StaleHidden, Hidden
<1>10. Version(f) <= Version(g) /\ Version(g) \in Nat
  BY <1>6
<1> QED BY <1>7, <1>9, <1>10 DEF Promises, RecordsMade

LEMMA SelectionPromised ==
    ASSUME NEW f, Sound(f), Version(f) \in Nat, NEW w \in Keys(f, "workspace")
    PROVE  Promises(f, Edit(f, LAMBDA l : l.kind = "workspace", LAMBDA l : Selected(l, w)))
<1> PICK g, R : /\ R = RecordsIn(f)
                /\ g = Edit(f, LAMBDA l : l.kind = "workspace", LAMBDA l : Selected(l, w))
  OBVIOUS
<1>0. AllLines(f)
  BY DEF Sound
<1>1. g = [i \in DOMAIN f |-> IF f[i].kind = "workspace" THEN Selected(f[i], w) ELSE f[i]]
  BY DEF Edit
<1>2. g = [i \in DOMAIN f |-> g[i]]
  BY <1>1
<1>3. \A i \in DOMAIN f : \/ f[i].kind = "workspace" /\ g[i] = Selected(f[i], w)
                          \/ f[i].kind # "workspace" /\ g[i] = f[i]
  BY <1>1
<1>4. \A i \in DOMAIN f : g[i].kind = f[i].kind
  <2> TAKE i \in DOMAIN f
  <2> PICK l : l = f[i]
    OBVIOUS
  <2>1. l = [kind |-> l.kind, key |-> l.key, val |-> l.val]
    BY <1>0 DEF AllLines, Line
  <2>2. Selected(l, w).kind = l.kind
    BY <2>1 DEF Selected
  <2> QED BY <1>3, <2>2
<1>5. /\ \A i \in DOMAIN f : f[i].kind = "schema" => g[i] = f[i]
      /\ \A i \in Entries(f) : g[i] = f[i]
  BY <1>3 DEF Entries, Logged
<1>6. Version(g) = Version(f)
  BY ONLY <1>0, <1>2, <1>4, <1>5, EditVersion
<1>7. LogIn(g) = LogIn(f) /\ RecordsIn(g) = EditedRecords(f, g)
  BY ONLY <1>0, <1>2, <1>4, <1>5, EditShown
<1>8. EditedRecords(f, g) = {r \in R : r.kind # "workspace"}
                              \cup {Selected(r, w) : r \in Kind(R, "workspace")}
  <2>1. ASSUME NEW r \in EditedRecords(f, g)
        PROVE  r \in {q \in R : q.kind # "workspace"} \cup {Selected(q, w) : q \in Kind(R, "workspace")}
    <3>1. PICK i \in DOMAIN f : f[i].kind \in Keyed /\ r = g[i]
      BY DEF EditedRecords
    <3>2. f[i] \in R
      BY <3>1 DEF RecordsIn
    <3> QED BY <1>3, <3>1, <3>2 DEF Kind
  <2>2. ASSUME NEW q \in R
        PROVE  /\ q.kind # "workspace" => q \in EditedRecords(f, g)
               /\ q.kind = "workspace" => Selected(q, w) \in EditedRecords(f, g)
    <3>1. PICK i \in DOMAIN f : f[i].kind \in Keyed /\ q = f[i]
      BY DEF RecordsIn
    <3>2. g[i] \in EditedRecords(f, g)
      BY <3>1 DEF EditedRecords
    <3> QED BY <1>3, <3>1, <3>2
  <2> QED BY <2>1, <2>2 DEF Kind
<1>9. WorkspaceSelected(R, RecordsIn(g))
  <2>1. PICK i \in Of(f, "workspace") : f[i].key = w
    BY DEF Keys
  <2>2. f[i] \in Kind(R, "workspace")
    BY DEF Of, Kind, RecordsIn, Keyed
  <2> PICK v : v = f[i]
    OBVIOUS
  <2>3. RecordsIn(g) = SelectedIn(R, v.key)
    BY <1>7, <1>8, <2>1 DEF SelectedIn
  <2> QED BY <2>2, <2>3 DEF WorkspaceSelected
<1>10. Version(f) <= Version(g) /\ Version(g) \in Nat
  BY <1>6
<1> QED BY <1>7, <1>9, <1>10 DEF Promises, RecordsMade

-----------------------------------------------------------------------------
(* What callers see moves as the store does.                               *)

\* A step from one file to the next that keeps a promise is a step of the store.
LEMMA StoreMoves ==
    ASSUME NEW f, NEW g, Promises(f, g),
           ShownVersion = Version(f), ShownRecords = RecordsIn(f), ShownLog = LogIn(f),
           ShownVersion' = Version(g), ShownRecords' = RecordsIn(g), ShownLog' = LogIn(g)
    PROVE  [Store!Next]_(Store!svars)
<1> PICK R, Q, L, M : R = RecordsIn(f) /\ Q = RecordsIn(g) /\ L = LogIn(f) /\ M = LogIn(g)
  OBVIOUS
<1>1. ShownRecords = R /\ ShownRecords' = Q /\ ShownLog = L /\ ShownLog' = M
  OBVIOUS
<1>2. Store!Header
  <2>1. Version(f) \in Nat /\ Version(g) \in Nat /\ Version(f) <= Version(g)
    BY DEF Promises
  <2>2. Version(g) >= Version(f)
    BY <2>1
  <2> QED BY <2>2 DEF Store!Header
<1>3. ShownVersion' = ShownVersion \/ ShownVersion' > ShownVersion
  <2>1. Version(f) \in Nat /\ Version(g) \in Nat /\ Version(f) <= Version(g)
    BY DEF Promises
  <2>2. Version(g) = Version(f) \/ Version(g) > Version(f)
    BY <2>1
  <2> QED BY <2>2
<1>4. \A k : Store!OfKind(k) = Kind(R, k)
  BY <1>1 DEF Store!OfKind, Kind
<1>5. \A l : Store!Others(l) = Besides(R, l)
  BY <1>1 DEF Store!Others, Store!SameRecord, Besides, Same
<1>14. \A S : Store!Cardinality(S) = Cardinality(S)
  BY DEF Store!Cardinality, Cardinality
<1>15. \A s : Store!Last(s) = Last(s)
  BY DEF Store!Last, Last
<1>16. \A s, S : Store!At(s, S) = At(s, S)
  BY DEF Store!At, At, Store!Cardinality, Cardinality
<1>6. CASE Q = R /\ M = L
  BY <1>1, <1>3, <1>6 DEF Store!Next, Store!Upgrade, Store!svars
<1>7. CASE SessionAdded(R, Q) /\ M = L
  BY <1>1, <1>2, <1>4, <1>7 DEF Store!Next, Store!NewSession, SessionAdded
<1>8. CASE RecordPut(R, Q) /\ M = L
  BY <1>1, <1>2, <1>5, <1>8 DEF Store!Next, Store!PutRecord, RecordPut
<1>9. CASE WorkspacePut(R, Q) /\ M = L
  <2>1. PICK l \in Q :
        /\ l.kind = "workspace" /\ ~l.val /\ Q = Besides(R, l) \cup {l}
        /\ Besides(R, l) = R => \E n \in Limits : Cardinality(Kind(R, "workspace")) < n
    BY <1>9 DEF WorkspacePut
  <2>2. Store!PutWorkspace
    BY <1>1, <1>2, <1>4, <1>5, <1>9, <1>14, <2>1 DEF Store!PutWorkspace
  <2> QED BY <2>2 DEF Store!Next
<1>10. CASE WorkspaceSelected(R, Q) /\ M = L
  <2>1. PICK w \in Kind(R, "workspace") : Q = SelectedIn(R, w.key)
    BY <1>10 DEF WorkspaceSelected
  <2>2. Store!Select
    BY <1>1, <1>2, <1>4, <1>10, <2>1 DEF Store!Select, SelectedIn, Selected
  <2> QED BY <2>2 DEF Store!Next
<1>11. CASE StaleHidden(R, Q) /\ M = L
  <2>1. Store!HideStale
    BY <1>1, <1>2, <1>4, <1>11 DEF Store!HideStale, StaleHidden
  <2> QED BY <2>1 DEF Store!Next
<1>12. CASE Q = R /\ EntryAdded(R, L, M)
  <2>1. Store!AddEntry
    BY <1>1, <1>2, <1>4, <1>12, <1>15 DEF Store!AddEntry, EntryAdded, Store!Dated, Dated
  <2> QED BY <2>1 DEF Store!Next
<1>13. CASE Q = R /\ EntriesExpired(L, M)
  <2> PICK c \in Cutoffs :
        \/ \E e \in Granularities : M = At(L, {i \in DOMAIN L : ~ExpiresRollup(L[i], e, c)})
        \/ \E n \in Networks : M = At(L, {i \in DOMAIN L : ~ExpiresPresence(L[i], n, c)})
    BY <1>13 DEF EntriesExpired
  <2>2. \A l, e : Store!OldRollup(l, e, c) <=> ExpiresRollup(l, e, c)
    BY DEF Store!OldRollup, ExpiresRollup
  <2>3. \A l, n : Store!OldPresence(l, n, c) <=> ExpiresPresence(l, n, c)
    BY DEF Store!OldPresence, Store!AllNetworks, AllNetworks, ExpiresPresence
  <2>4. ASSUME NEW e \in Granularities, M = At(L, {i \in DOMAIN L : ~ExpiresRollup(L[i], e, c)})
        PROVE  M = Store!At(L, {i \in DOMAIN L : ~Store!OldRollup(L[i], e, c)})
    <3>1. {i \in DOMAIN L : ~ExpiresRollup(L[i], e, c)} = {i \in DOMAIN L : ~Store!OldRollup(L[i], e, c)}
      BY <2>2
    <3> QED BY <1>16, <2>4, <3>1
  <2>5. ASSUME NEW n \in Networks, M = At(L, {i \in DOMAIN L : ~ExpiresPresence(L[i], n, c)})
        PROVE  M = Store!At(L, {i \in DOMAIN L : ~Store!OldPresence(L[i], n, c)})
    <3>1. {i \in DOMAIN L : ~ExpiresPresence(L[i], n, c)}
            = {i \in DOMAIN L : ~Store!OldPresence(L[i], n, c)}
      BY <2>3
    <3> QED BY <1>16, <2>5, <3>1
  <2>6. \/ \E e \in Granularities :
             ShownLog' = Store!At(ShownLog, {i \in DOMAIN ShownLog : ~Store!OldRollup(ShownLog[i], e, c)})
        \/ \E n \in Networks :
             ShownLog' = Store!At(ShownLog, {i \in DOMAIN ShownLog : ~Store!OldPresence(ShownLog[i], n, c)})
    BY <1>1, <2>4, <2>5
  <2>1. Store!Expire
    BY <1>1, <1>2, <1>13, <2>6 DEF Store!Expire
  <2> QED BY <2>1 DEF Store!Next
<1> QED
  BY <1>6, <1>7, <1>8, <1>9, <1>10, <1>11, <1>12, <1>13 DEF Promises, RecordsMade

\* The file, and the lines about to replace it, keep what the store promises.
Kept ==
    ~faults =>
        /\ Version(file) \in Nat
        /\ \A p \in Procs : /\ pc[p] = "open" => Promises(file, out[p])
                            /\ pc[p] = "flush" => Version(out[p]) \in Nat

LEMMA InitKept == Init => Kept
BY StoredAssumption DEF Init, Kept

\* A call that leaves the file alone goes somewhere, to write what it promises.
Turns(p) ==
    /\ pc[p] \notin {"idle", "flush"} /\ UNCHANGED file
    /\ \E to \in {"idle", "migrate", "reread", "open"} : \E lines :
         /\ pc' = [pc EXCEPT ![p] = to] /\ out' = [out EXCEPT ![p] = lines]
         /\ to = "open" => Promises(file, lines)

LEMMA ReturnTurns ==
    ASSUME IInv, NEW p \in Procs, pc[p] \notin {"idle", "flush"}, UNCHANGED file, Return(p)
    PROVE  Turns(p)
<1> PICK o, to : o = out[p] /\ to = "idle"
  OBVIOUS
<1>1. out' = [out EXCEPT ![p] = o] /\ pc' = [pc EXCEPT ![p] = to]
  BY DEF Return, IInv, Tables
<1> QED BY <1>1 DEF Turns

LEMMA RewriteTurns ==
    ASSUME IInv, NEW p \in Procs, pc[p] \notin {"idle", "flush"}, UNCHANGED file,
           NEW lines, NEW then, Rewrite(p, lines, then), Promises(file, lines)
    PROVE  Turns(p)
BY DEF Rewrite, Turns

\* What a call finds without faults.
LEMMA Found ==
    ASSUME IInv, Kept, ~faults
    PROVE  Sound(file) /\ Version(file) \in Nat /\ Views = {file}
           /\ \A e \in {EnsureHeader(file), HeaderIfEmpty(file)} : Sound(e) /\ Version(e) \in Nat
BY HeaderShown, HeaderSound DEF IInv, Kept, Views

LEMMA SavesTurn ==
    ASSUME IInv, Kept, ~faults, NEW p \in Procs, pc[p] \notin {"idle", "flush"}, UNCHANGED file,
           NEW f \in {file, EnsureHeader(file)}, Saves(p, f)
    PROVE  Turns(p)
<1>1. Sound(f) /\ Version(f) \in Nat /\ Sound(file) /\ Version(file) \in Nat
  BY Found
<1> PICK lines : lines = WithSession(f, NextSessionId(f))
  OBVIOUS
<1>2. Promises(f, lines)
  BY <1>1, SessionPromised
<1>3. Promises(file, lines)
  BY <1>1, <1>2, BehindHeader
<1> QED BY <1>3, RewriteTurns DEF Saves

LEMMA SessionTurns ==
    ASSUME IInv, Kept, ~faults, NEW p \in Procs,
           SaveScanSession(p) \/ MigrateSchema(p) \/ SaveAfterMigration(p)
    PROVE  Turns(p)
<1>1. Sound(file) /\ Version(file) \in Nat /\ Views = {file}
  BY Found
<1>2. CASE SaveScanSession(p)
  <2>1. pc[p] \notin {"idle", "flush"} /\ UNCHANGED file
    BY <1>2 DEF SaveScanSession, Reads
  <2> PICK e : e = EnsureHeader(file)
    OBVIOUS
  <2>2. \/ Return(p)
        \/ pc' = [pc EXCEPT ![p] = "migrate"] /\ out' = out
        \/ Saves(p, e)
    BY <1>1, <1>2 DEF SaveScanSession
  <2>3. CASE pc' = [pc EXCEPT ![p] = "migrate"] /\ out' = out
    <3> PICK o, to : o = out[p] /\ to = "migrate"
      OBVIOUS
    <3>1. out' = [out EXCEPT ![p] = o] /\ pc' = [pc EXCEPT ![p] = to]
      BY <2>3 DEF IInv, Tables
    <3> QED BY <2>1, <3>1 DEF Turns
  <2> QED BY <2>1, <2>2, <2>3, ReturnTurns, SavesTurn
<1>3. CASE MigrateSchema(p)
  <2>1. pc[p] \notin {"idle", "flush"} /\ UNCHANGED file
    BY <1>3 DEF MigrateSchema, Reads
  <2> PICK target, then : target = cmd[p].target
                          /\ then = IF pc[p] = "migrate" THEN "reread" ELSE "idle"
    OBVIOUS
  <2>2. target \in Nat
    BY <1>3, CommandsAssumption DEF MigrateSchema, Reads, IInv, Placed
  <2> PICK lines : lines = Migrated(file, target)
    OBVIOUS
  <2>3. Return(p) \/ Rewrite(p, lines, then)
    BY <1>1, <1>3 DEF MigrateSchema
  <2>4. Promises(file, lines)
    BY <1>1, <2>2, MigrationPromised
  <2> QED BY <2>1, <2>3, <2>4, ReturnTurns, RewriteTurns
<1>4. CASE SaveAfterMigration(p)
  <2>1. pc[p] \notin {"idle", "flush"} /\ UNCHANGED file /\ Saves(p, file)
    BY <1>1, <1>4 DEF SaveAfterMigration
  <2> QED BY <2>1, SavesTurn
<1> QED BY <1>2, <1>3, <1>4

LEMMA InventoryTurns ==
    ASSUME IInv, Kept, ~faults, NEW p \in Procs,
           UpsertInventory(p) \/ PatchInventory(p) \/ HideStale(p)
    PROVE  Turns(p)
<1>1. Sound(file) /\ Version(file) \in Nat /\ Views = {file}
  BY Found
<1>2. pc[p] \notin {"idle", "flush"} /\ UNCHANGED file
  BY DEF UpsertInventory, PatchInventory, HideStale, Reads
<1>3. CASE UpsertInventory(p)
  <2> PICK l : l = IF cmd[p].op = "upsert" THEN cmd[p].line ELSE held[p]
    OBVIOUS
  <2>1. l = Line("device", l.key, l.val)
    <3>1. CASE cmd[p].op = "upsert"
      BY <1>2, <3>1, CommandsAssumption DEF IInv, Placed, Carries, Line
    <3>2. CASE cmd[p].op # "upsert"
      BY <1>3, <3>2 DEF UpsertInventory, Reads, IInv, Placed
    <3> QED BY <3>1, <3>2
  <2>2. l.kind = "device"
    BY <2>1, LineFields
  <2> PICK e, lines : e = HeaderIfEmpty(file) /\ lines = Put(e, l)
    OBVIOUS
  <2>3. Rewrite(p, lines, "idle")
    BY <1>1, <1>3 DEF UpsertInventory
  <2>4. Promises(e, lines)
    BY <2>2, Found, PutPromised
  <2>5. Promises(file, lines)
    BY <1>1, <2>4, BehindHeader
  <2> QED BY <1>2, <2>3, <2>5, RewriteTurns
<1>4. CASE PatchInventory(p)
  <2>1. Return(p) \/ (pc' = [pc EXCEPT ![p] = "reread"] /\ out' = out)
    BY <1>4 DEF PatchInventory
  <2>2. CASE pc' = [pc EXCEPT ![p] = "reread"] /\ out' = out
    <3> PICK o, to : o = out[p] /\ to = "reread"
      OBVIOUS
    <3>1. out' = [out EXCEPT ![p] = o] /\ pc' = [pc EXCEPT ![p] = to]
      BY <2>2 DEF IInv, Tables
    <3> QED BY <1>2, <3>1 DEF Turns
  <2> QED BY <1>2, <2>1, <2>2, ReturnTurns
<1>5. CASE HideStale(p)
  <2> PICK lines : lines = Edit(file, LAMBDA l : l.kind = "device" /\ l.val.stale,
                                      LAMBDA l : [l EXCEPT !.val.hidden = TRUE])
    OBVIOUS
  <2>1. Return(p) \/ Rewrite(p, lines, "idle")
    BY <1>1, <1>5 DEF HideStale, Edit
  <2>2. Promises(file, lines)
    BY <1>1, HiddenPromised DEF Edit
  <2> QED BY <1>2, <2>1, <2>2, ReturnTurns, RewriteTurns
<1> QED BY <1>3, <1>4, <1>5

LEMMA LogTurns ==
    ASSUME IInv, Kept, ~faults, NEW p \in Procs, AppendTimeline(p) \/ AppendRollup(p)
    PROVE  Turns(p)
<1>1. Sound(file) /\ Version(file) \in Nat /\ Views = {file}
  BY Found
<1>2. pc[p] \notin {"idle", "flush"} /\ UNCHANGED file /\ cmd[p] \in Commands
  BY DEF AppendTimeline, AppendRollup, Reads, IInv, Placed
<1> PICK l : l = cmd[p].line
  OBVIOUS
<1>3. l = Line("event", l.key, l.val) \/ l = Line("rollup", l.key, l.val)
  BY <1>2, CommandsAssumption DEF AppendTimeline, AppendRollup, Reads, Carries
<1>4. l.kind \in Logged /\ l.kind # "scan"
  BY <1>3, LineFields DEF Logged
<1>7. Dated(l)
  <2>1. CASE AppendTimeline(p)
    BY <1>2, <2>1, CommandsAssumption DEF AppendTimeline, Reads
  <2>2. CASE AppendRollup(p)
    <3>1. l = Line("rollup", l.key, l.val)
      BY <1>2, <2>2, CommandsAssumption DEF AppendRollup, Reads, Carries
    <3>2. l.kind = "rollup"
      BY <3>1, LineFields
    <3> QED BY <3>2 DEF Dated
  <2> QED BY <2>1, <2>2
<1> PICK e \in {EnsureHeader(file), HeaderIfEmpty(file)} : Rewrite(p, Append(e, l), "idle")
  BY <1>1 DEF AppendTimeline, AppendRollup
<1> PICK lines : lines = Append(e, l)
  OBVIOUS
<1>5. Promises(e, lines)
  BY <1>4, <1>7, Found, EntryPromised
<1>6. Promises(file, lines)
  BY <1>1, <1>5, BehindHeader
<1> QED BY <1>2, <1>6, RewriteTurns

LEMMA RetainTurns ==
    ASSUME IInv, Kept, ~faults, NEW p \in Procs, RetainRollups(p) \/ RetainPresence(p)
    PROVE  Turns(p)
<1>1. Sound(file) /\ Version(file) \in Nat /\ Views = {file}
  BY Found
<1>2. pc[p] \notin {"idle", "flush"} /\ UNCHANGED file /\ cmd[p] \in Commands
  BY DEF RetainRollups, RetainPresence, Reads, IInv, Placed
<1> PICK e, c : e = EnsureHeader(file) /\ c = cmd[p].cutoff
  OBVIOUS
<1>3. Sound(e) /\ Version(e) \in Nat /\ e # <<>> /\ e[1].kind = "schema"
  BY <1>1, Found, HeaderSound
<1>4. c \in Cutoffs
  BY <1>2 DEF RetainRollups, RetainPresence, Reads, Cutoffs
<1>5. \A i \in DOMAIN e : e[i] \in ToSet(e)
  BY DEF ToSet
<1>6. ASSUME NEW D, \A l \in D : l.kind \in Logged,
             \/ \E g \in Granularities : \A l \in ToSet(e) : l \in D <=> ExpiresRollup(l, g, c)
             \/ \E n \in Networks : \A l \in ToSet(e) : l \in D <=> ExpiresPresence(l, n, c),
             Return(p) \/ Rewrite(p, Without(e, D), "idle")
      PROVE  Turns(p)
  <2> PICK lines : lines = Without(e, D)
    OBVIOUS
  <2>1. Promises(e, lines)
    BY <1>3, <1>4, <1>6, ExpiryPromised
  <2>2. Promises(file, lines)
    BY <1>1, <2>1, BehindHeader
  <2> QED BY <1>2, <1>6, <2>2, ReturnTurns, RewriteTurns
<1>7. CASE RetainRollups(p)
  <2> PICK g : g = cmd[p].granularity
    OBVIOUS
  <2>1. g \in Granularities
    BY <1>2, <1>7 DEF RetainRollups, Reads, Granularities
  <2> PICK D : D = {l \in ToSet(e) : ExpiresRollup(l, g, c)}
    OBVIOUS
  <2>2. \A l \in D : l.kind \in Logged
    BY DEF ExpiresRollup, Logged
  <2>3. Return(p) \/ Rewrite(p, At(e, {i \in DOMAIN e : ~ExpiresRollup(e[i], g, c)}), "idle")
    BY <1>1, <1>7 DEF RetainRollups, Drop, ExpiredRollup, ExpiresRollup
  <2>4. {i \in DOMAIN e : e[i] \notin D} = {i \in DOMAIN e : ~ExpiresRollup(e[i], g, c)}
    BY <1>5
  <2>5. Return(p) \/ Rewrite(p, Without(e, D), "idle")
    BY <2>3, <2>4 DEF Without
  <2> QED BY <1>6, <2>1, <2>2, <2>5
<1>8. CASE RetainPresence(p)
  <2> PICK n : n = cmd[p].network
    OBVIOUS
  <2>1. n \in Networks
    BY <1>2, <1>8 DEF RetainPresence, Reads, Networks
  <2> PICK D : D = {l \in ToSet(e) : ExpiresPresence(l, n, c)}
    OBVIOUS
  <2>2. \A l \in D : l.kind \in Logged
    BY DEF ExpiresPresence, Logged
  <2>3. Return(p) \/ Rewrite(p, At(e, {i \in DOMAIN e : ~ExpiresPresence(e[i], n, c)}), "idle")
    <3>1. \A l : ExpiredPresence(l, cmd[p]) <=> ExpiresPresence(l, n, c)
      BY DEF ExpiredPresence, MatchesNetwork, Appears, ExpiresPresence
    <3> QED BY <1>1, <1>8, <3>1 DEF RetainPresence, Drop
  <2>4. {i \in DOMAIN e : e[i] \notin D} = {i \in DOMAIN e : ~ExpiresPresence(e[i], n, c)}
    BY <1>5
  <2>5. Return(p) \/ Rewrite(p, Without(e, D), "idle")
    BY <2>3, <2>4 DEF Without
  <2> QED BY <1>6, <2>1, <2>2, <2>5
<1> QED BY <1>7, <1>8

LEMMA WorkspaceTurns ==
    ASSUME IInv, Kept, ~faults, NEW p \in Procs,
           UpsertWorkspace(p) \/ SwitchWorkspace(p) \/ AppendHistory(p) \/ SaveFilter(p)
    PROVE  Turns(p)
<1>1. Sound(file) /\ Version(file) \in Nat /\ Views = {file}
  BY Found
<1>2. pc[p] \notin {"idle", "flush"} /\ UNCHANGED file /\ cmd[p] \in Commands
  BY DEF UpsertWorkspace, SwitchWorkspace, AppendHistory, SaveFilter, Reads, IInv, Placed
<1> PICK e, l : e = HeaderIfEmpty(file) /\ l = cmd[p].line
  OBVIOUS
<1>3. Sound(e) /\ Version(e) \in Nat
  BY Found
<1>4. CASE UpsertWorkspace(p)
  <2> PICK limit, lines : limit = cmd[p].limit /\ lines = Put(e, l)
    OBVIOUS
  <2>1. l = Line("workspace", l.key, FALSE) /\ limit \in Limits
    BY <1>2, <1>4, CommandsAssumption DEF UpsertWorkspace, Reads, Limits
  <2>2. l.kind = "workspace" /\ ~l.val
    BY <2>1 DEF Line
  <2>3. \/ Return(p)
        \/ (l.key \in Keys(e, "workspace") \/ ~NoRoom(e, limit)) /\ Rewrite(p, lines, "idle")
    BY <1>1, <1>4 DEF UpsertWorkspace
  <2>4. CASE (l.key \in Keys(e, "workspace") \/ ~NoRoom(e, limit)) /\ Rewrite(p, lines, "idle")
    <3>1. Promises(e, lines)
      BY <1>3, <2>1, <2>2, <2>4, WorkspacePromised
    <3>2. Promises(file, lines)
      BY <1>1, <3>1, BehindHeader
    <3> QED BY <1>2, <2>4, <3>2, RewriteTurns
  <2> QED BY <1>2, <2>3, <2>4, ReturnTurns
<1>5. CASE SwitchWorkspace(p)
  <2> PICK w : w = cmd[p].workspace
    OBVIOUS
  <2> PICK lines : lines = Edit(file, LAMBDA m : m.kind = "workspace", LAMBDA m : Selected(m, w))
    OBVIOUS
  <2>1. Return(p) \/ (w \in Keys(file, "workspace") /\ Rewrite(p, lines, "idle"))
    BY <1>1, <1>5 DEF SwitchWorkspace, Edit
  <2>2. w \in Keys(file, "workspace") => Promises(file, lines)
    BY <1>1, SelectionPromised DEF Edit
  <2> QED BY <1>2, <2>1, <2>2, ReturnTurns, RewriteTurns
<1>6. CASE AppendHistory(p)
  <2> PICK lines : lines = Append(e, l)
    OBVIOUS
  <2>1. l = Line("scan", l.key, l.val)
    BY <1>2, <1>6, CommandsAssumption DEF AppendHistory, Reads, Carries
  <2>2. l.kind = "scan" /\ l.kind \in Logged /\ Dated(l)
    BY <2>1, LineFields DEF Logged, Dated
  <2>3. Return(p) \/ (l.key \in Keys(e, "workspace") /\ Rewrite(p, lines, "idle"))
    BY <1>1, <1>6 DEF AppendHistory
  <2>4. CASE l.key \in Keys(e, "workspace") /\ Rewrite(p, lines, "idle")
    <3>1. Promises(e, lines)
      BY <1>3, <2>2, <2>4, EntryPromised
    <3>2. Promises(file, lines)
      BY <1>1, <3>1, BehindHeader
    <3> QED BY <1>2, <2>4, <3>2, RewriteTurns
  <2> QED BY <1>2, <2>3, <2>4, ReturnTurns
<1>7. CASE SaveFilter(p)
  <2> PICK lines : lines = Put(e, l)
    OBVIOUS
  <2>1. l = Line("filter", l.key, l.val)
    BY <1>2, <1>7, CommandsAssumption DEF SaveFilter, Reads, Carries
  <2>2. l.kind = "filter"
    BY <2>1, LineFields
  <2>3. Rewrite(p, lines, "idle")
    BY <1>1, <1>7 DEF SaveFilter
  <2>4. Promises(e, lines)
    BY <1>3, <2>2, PutPromised
  <2>5. Promises(file, lines)
    BY <1>1, <2>4, BehindHeader
  <2> QED BY <1>2, <2>3, <2>5, RewriteTurns
<1> QED BY <1>4, <1>5, <1>6, <1>7

LEMMA CallTurns ==
    ASSUME IInv, Kept, ~faults, NEW p \in Procs, Call(p)
    PROVE  Turns(p)
BY SessionTurns, InventoryTurns, LogTurns, RetainTurns, WorkspaceTurns DEF Call

\* The file is seen until it is opened, and then the lines that replace it.
LEMMA ViewIs ==
    ASSUME IInv
    PROVE  /\ (\A p \in Procs : pc[p] # "flush") => View = file
           /\ \A p \in Procs : pc[p] = "flush" => View = out[p]
<1>1. ASSUME NEW p \in Procs, pc[p] = "flush" PROVE View = out[p]
  <2>1. \A q \in Procs : pc[q] = "flush" <=> q = p
    BY <1>1 DEF IInv, Alone
  <2>2. (CHOOSE q \in Procs : pc[q] = "flush") = p
    BY <2>1
  <2> QED BY <1>1, <2>2 DEF View
<1> QED BY <1>1 DEF View

LEMMA SeenVersion ==
    ASSUME ~faults, UNCHANGED faults, NEW f, NEW g, View = f, View' = g
    PROVE  /\ ShownVersion = Version(f) /\ ShownRecords = RecordsIn(f) /\ ShownLog = LogIn(f)
           /\ ShownVersion' = Version(g) /\ ShownRecords' = RecordsIn(g) /\ ShownLog' = LogIn(g)
BY DEF ShownVersion, ShownRecords, ShownLog

LEMMA FaultsShown ==
    ASSUME Kept, faults, UNCHANGED faults
    PROVE  Kept' /\ UNCHANGED Store!svars
BY DEF Kept, Store!svars, ShownVersion, ShownRecords, ShownLog

\* Nothing changes for the callers while the file does not.
LEMMA SameView ==
    ASSUME ~faults, UNCHANGED faults, View' = View
    PROVE  UNCHANGED Store!svars
<1> PICK f : f = View
  OBVIOUS
<1>1. /\ ShownVersion = Version(f) /\ ShownRecords = RecordsIn(f) /\ ShownLog = LogIn(f)
      /\ ShownVersion' = Version(f) /\ ShownRecords' = RecordsIn(f) /\ ShownLog' = LogIn(f)
  BY SeenVersion
<1> QED BY <1>1 DEF Store!svars

LEMMA StartShown ==
    ASSUME ~Overlap, IInv, IInv', Kept, ~faults, UNCHANGED faults,
           NEW p \in Procs, NEW c \in Commands, Start(p, c)
    PROVE  Kept' /\ UNCHANGED Store!svars
<1>1. /\ \A q \in Procs : pc[q] = "idle"
      /\ \A q \in Procs : pc'[q] \in {"idle", "read"} /\ UNCHANGED <<file, out>>
  BY DEF Start, IInv, Tables
<1>2. View = file /\ View' = file'
  <2>1. (\A q \in Procs : pc'[q] # "flush") => View' = file'
    BY DEF View
  <2> QED BY <1>1, <2>1, ViewIs
<1>3. View' = View
  BY <1>1, <1>2 DEF Start
<1>4. Kept'
  BY <1>1 DEF Kept, Start
<1> QED BY <1>3, <1>4, SameView

LEMMA CallShown ==
    ASSUME IInv, Kept, ~faults, UNCHANGED faults, NEW p \in Procs, Turns(p)
    PROVE  Kept' /\ UNCHANGED Store!svars
<1> PICK to \in {"idle", "migrate", "reread", "open"}, lines \in {out'[p]} :
      /\ pc' = [pc EXCEPT ![p] = to] /\ out' = [out EXCEPT ![p] = lines]
      /\ to = "open" => Promises(file, lines)
  BY DEF Turns, IInv, Tables
<1>1. pc[p] \notin {"idle", "flush"} /\ file' = file
  BY DEF Turns
<1>2. /\ \A q \in Procs : q # p => pc[q] = "idle" /\ pc'[q] = "idle"
      /\ pc'[p] = to /\ out'[p] = lines
  BY <1>1 DEF IInv, Tables, Alone
<1>3. \A q \in Procs : pc[q] # "flush" /\ pc'[q] # "flush"
  BY <1>1, <1>2
<1>4. View' = View
  <2>1. View' = file'
    BY <1>3 DEF View
  <2> QED BY <1>1, <1>3, <2>1, ViewIs
<1>5. Kept'
  <2>1. Version(file') \in Nat
    BY <1>1 DEF Kept
  <2>2. ASSUME NEW q \in Procs, pc'[q] = "open" PROVE Promises(file', out'[q])
    BY <1>1, <1>2, <2>2
  <2> QED BY <1>3, <2>1, <2>2 DEF Kept
<1> QED BY <1>4, <1>5, SameView

LEMMA OpenShown ==
    ASSUME IInv, Kept, ~faults, UNCHANGED faults, NEW p \in Procs, OpenFile(p)
    PROVE  Kept' /\ [Store!Next]_(Store!svars)
<1> PICK f, g : f = file /\ g = out[p]
  OBVIOUS
<1>1. pc[p] = "open" /\ file' = <<>> /\ out' = out /\ pc'[p] = "flush" /\ Promises(f, g)
  BY DEF OpenFile, IInv, Tables, Kept
<1>2. \A q \in Procs : q # p => pc[q] = "idle" /\ pc'[q] = "idle"
  BY <1>1 DEF OpenFile, IInv, Tables, Alone
<1>3. View = f
  <2>1. \A q \in Procs : pc[q] # "flush"
    BY <1>1, <1>2
  <2> QED BY <2>1, ViewIs
<1>4. View' = g
  <2>1. \A q \in Procs : pc'[q] = "flush" <=> q = p
    BY <1>1, <1>2
  <2>2. (CHOOSE q \in Procs : pc'[q] = "flush") = p
    BY <2>1
  <2> QED BY <1>1, <2>2 DEF View
<1>5. Kept'
  <2>1. Version(<<>>) \in Nat
    BY DEF Version
  <2>2. Version(g) \in Nat
    BY <1>1 DEF Promises
  <2> QED BY <1>1, <1>2, <2>1, <2>2 DEF Kept
<1>6. /\ ShownVersion = Version(f) /\ ShownRecords = RecordsIn(f) /\ ShownLog = LogIn(f)
      /\ ShownVersion' = Version(g) /\ ShownRecords' = RecordsIn(g) /\ ShownLog' = LogIn(g)
  BY <1>3, <1>4, SeenVersion
<1> QED BY <1>1, <1>5, <1>6, StoreMoves

LEMMA FlushShown ==
    ASSUME IInv, Kept, ~faults, UNCHANGED faults, NEW p \in Procs, Flush(p)
    PROVE  Kept' /\ UNCHANGED Store!svars
<1> PICK lines, to : lines = out[p] /\ to = after[p]
  OBVIOUS
<1>1. /\ pc[p] = "flush" /\ pc'[p] = to /\ out' = out /\ Version(lines) \in Nat
      /\ file = <<>> /\ Sound(lines) /\ to \in {"idle", "reread"}
  BY DEF Flush, Written, IInv, Tables, Placed, Kept
<1>2. \A q \in Procs : q # p => pc[q] = "idle" /\ pc'[q] = "idle"
  BY <1>1 DEF Flush, Written, IInv, Tables, Alone
<1>3. file' = lines
  BY <1>1, OverlaySound DEF Flush
<1>4. View = lines
  BY <1>1, ViewIs
<1>5. \A q \in Procs : pc'[q] # "flush" /\ pc'[q] # "open"
  BY <1>1, <1>2
<1>6. View' = lines
  BY <1>3, <1>5 DEF View
<1>7. Kept'
  BY <1>1, <1>3, <1>5 DEF Kept
<1> QED BY <1>4, <1>6, <1>7, SameView

LEMMA NextShown ==
    ASSUME ~Overlap, IInv, IInv', Kept, [Next]_vars
    PROVE  Kept' /\ [Store!Next]_(Store!svars)
<1>1. CASE UNCHANGED vars
  <2>1. Kept'
    BY <1>1 DEF vars, Kept
  <2>2. View' = View /\ UNCHANGED faults
    BY <1>1 DEF vars, View
  <2>3. UNCHANGED Store!svars
    BY <2>2, SameView, FaultsShown
  <2> QED BY <2>1, <2>3
<1>2. CASE Next /\ faults
  BY <1>2, FaultsShown DEF Next
<1>3. CASE Next /\ ~faults
  <2>1. UNCHANGED faults
    BY <1>3 DEF Next
  <2> PICK p \in Procs : \/ \E c \in Commands : Start(p, c)
                         \/ Call(p)
                         \/ OpenFile(p) \/ OpenFails(p) \/ Flush(p) \/ Crash(p)
    BY <1>3 DEF Next
  <2>2. CASE \E c \in Commands : Start(p, c)
    BY <1>3, <2>1, <2>2, StartShown
  <2>3. CASE Call(p)
    BY <1>3, <2>1, <2>3, CallTurns, CallShown
  <2>4. CASE OpenFile(p)
    BY <1>3, <2>1, <2>4, OpenShown
  <2>5. CASE Flush(p)
    BY <1>3, <2>1, <2>5, FlushShown
  <2>6. ~OpenFails(p) /\ ~Crash(p)
    BY <1>3 DEF OpenFails, Crash
  <2> QED BY <2>2, <2>3, <2>4, <2>5, <2>6
<1> QED BY <1>1, <1>2, <1>3

LEMMA InitShown == Init => Store!Init
<1> SUFFICES ASSUME Init PROVE Store!Init
  OBVIOUS
<1>1. Sound(file) /\ Version(file) \in Nat /\ View = file
  BY StoredAssumption DEF Init, View
<1>2. CASE faults
  <2>1. ShownVersion = 2 /\ ShownRecords = {} /\ ShownLog = <<>>
    BY <1>2 DEF ShownVersion, ShownRecords, ShownLog, Latest
  <2>2. DOMAIN <<>> = {}
    BY EmptySeq, LenProperties
  <2> QED BY <2>1, <2>2 DEF Store!Init
<1>3. CASE ~faults
  <2> PICK f, L : f = file /\ L = LogIn(f)
    OBVIOUS
  <2>1. ShownVersion = Version(f) /\ ShownRecords = RecordsIn(f) /\ ShownLog = L
    BY <1>1, <1>3 DEF ShownVersion, ShownRecords, ShownLog
  <2>2. ASSUME NEW r \in RecordsIn(f), NEW s \in RecordsIn(f), Store!SameRecord(r, s), r.kind # "detail"
        PROVE  r = s
    <3>1. PICK i \in DOMAIN f : f[i].kind \in Keyed /\ r = f[i]
      BY DEF RecordsIn
    <3>2. PICK j \in DOMAIN f : f[j].kind \in Keyed /\ s = f[j]
      BY DEF RecordsIn
    <3>3. Same(f[i], f[j]) /\ f[i].kind \in {"session", "device", "workspace", "filter"}
      BY <2>2, <3>1, <3>2 DEF Store!SameRecord, Same, Keyed
    <3>4. i = j
      BY <1>1, <3>3 DEF Sound, NoneTwice
    <3> QED BY <3>1, <3>2, <3>4
  <2>3. ASSUME NEW x \in DOMAIN L, L[x].kind = "scan"
        PROVE  \E w \in RecordsIn(f) : w.kind = "workspace" /\ w.key = L[x].key
    <3>1. L[x] \in ToSet(f)
      BY <1>1, LogOf DEF Sound
    <3>2. PICK i \in Of(f, "scan") : f[i] = L[x]
      BY <2>3, <3>1 DEF ToSet, Of
    <3>3. PICK j \in 1..(i - 1) : f[j].kind = "workspace" /\ f[j].key = f[i].key
      BY <1>1 DEF Sound, Behind
    <3>4. DOMAIN f = 1..Len(f) /\ Len(f) \in Nat
      BY <1>1, FileShape DEF Sound
    <3>5. i \in 1..Len(f)
      BY <3>2, <3>4 DEF Of
    <3>6. j \in DOMAIN f
      BY <3>3, <3>4, <3>5
    <3> QED BY <3>2, <3>3, <3>6 DEF RecordsIn, Keyed
  <2>4. ASSUME NEW x \in DOMAIN L PROVE Dated(L[x])
    <3>1. L[x] \in ToSet(f)
      BY <1>1, LogOf DEF Sound
    <3> QED BY <3>1, StoredAssumption DEF ToSet, Init
  <2> QED BY <1>1, <2>1, <2>2, <2>3, <2>4 DEF Store!Init, Store!OfKind, Store!Dated, Dated
<1> QED BY <1>2, <1>3

\* One command at a time, every write of the file is one step of the store of
\* StorageStore, taken when the file is opened: new sessions get larger ids,
\* records are replaced by key, entries expire in their order, and nothing
\* else changes.
THEOREM StoreImplemented == ASSUME ~Overlap PROVE Spec => ImplementsStore
<1>1. IInv /\ Kept /\ [Next]_vars => IInv' /\ Kept' /\ [Store!Next]_(Store!svars)
  BY NextInv, NextShown
<1> QED BY <1>1, InitInv, InitKept, InitShown, PTL DEF Spec, ImplementsStore, Store!Spec

-----------------------------------------------------------------------------
(* What the presence history tells of a log.  A log changes by an entry    *)
(* that is added or by entries that expire, and all its events have times; *)
(* what expires is older than what stays, so a device that keeps an event  *)
(* keeps its latest, and between two events that stay nothing is missing.  *)

LogMoved(L, M) ==
    \/ M = L
    \/ M # <<>> /\ M = Append(L, Last(M)) /\ Dated(Last(M))
    \/ EntriesExpired(L, M)

LogDated(L) == L \in Seq(ToSet(L)) /\ \A l \in ToSet(L) : Dated(l)

\* No step of the store does anything else to the log.
LEMMA LogMoves ==
    ASSUME [Store!Next]_(Store!svars)
    PROVE  LogMoved(ShownLog, ShownLog')
<1> PICK L, M : L = ShownLog /\ M = ShownLog'
  OBVIOUS
<1>1. CASE M = L
  BY <1>1 DEF LogMoved
<1>2. CASE Store!AddEntry
  <2>1. Store!Last(M) = Last(M)
    BY DEF Store!Last, Last
  <2>2. M # <<>> /\ M = Append(L, Last(M)) /\ Dated(Last(M))
    BY <1>2, <2>1 DEF Store!AddEntry, Store!Dated, Dated
  <2> QED BY <2>2 DEF LogMoved
<1>3. CASE Store!Expire
  <2> PICK c \in Cutoffs :
        \/ \E g \in Granularities : M = Store!At(L, {i \in DOMAIN L : ~Store!OldRollup(L[i], g, c)})
        \/ \E n \in Networks : M = Store!At(L, {i \in DOMAIN L : ~Store!OldPresence(L[i], n, c)})
    BY <1>3 DEF Store!Expire
  <2>1. \A S : Store!At(L, S) = At(L, S)
    BY DEF Store!At, At, Store!Cardinality, Cardinality
  <2>2. ASSUME NEW g \in Granularities, M = Store!At(L, {i \in DOMAIN L : ~Store!OldRollup(L[i], g, c)})
        PROVE  M = At(L, {i \in DOMAIN L : ~ExpiresRollup(L[i], g, c)})
    BY <2>1, <2>2 DEF Store!OldRollup, ExpiresRollup
  <2>3. ASSUME NEW n \in Networks, M = Store!At(L, {i \in DOMAIN L : ~Store!OldPresence(L[i], n, c)})
        PROVE  M = At(L, {i \in DOMAIN L : ~ExpiresPresence(L[i], n, c)})
    BY <2>1, <2>3 DEF Store!OldPresence, Store!AllNetworks, AllNetworks, ExpiresPresence
  <2>4. EntriesExpired(L, M)
    BY <2>2, <2>3 DEF EntriesExpired
  <2> QED BY <2>4 DEF LogMoved
<1>4. M = L \/ Store!AddEntry \/ Store!Expire
  BY DEF Store!Next, Store!svars, Store!NewSession, Store!PutRecord, Store!PutWorkspace,
         Store!Select, Store!HideStale, Store!Upgrade
<1> QED BY <1>1, <1>2, <1>3, <1>4

\* The entries at some positions of a log.
LEMMA EntriesAt ==
    ASSUME NEW L, L \in Seq(ToSet(L)), NEW S \in SUBSET DOMAIN L
    PROVE  At(L, S) \in Seq(ToSet(At(L, S))) /\ ToSet(At(L, S)) = {L[i] : i \in S}
<1> PICK n, c, M : n = Len(L) /\ c = Cardinality(S) /\ M = At(L, S)
  OBVIOUS
<1>1. n \in Nat /\ S \in SUBSET (1..n)
  BY LenProperties
<1>2. M \in Seq(ToSet(M)) /\ DOMAIN M = 1..c
  BY <1>1, AtIsFile
<1>3. PICK m : Selects(m, L, S)
  BY <1>1, AtPositions
<1>4. \A x \in 1..c : m[x] \in S /\ M[x] = L[m[x]]
  BY <1>3 DEF Selects
<1>5. \A i \in S : \E x \in 1..c : m[x] = i
  BY <1>3 DEF Selects
<1>6. ToSet(M) = {L[i] : i \in S}
  BY <1>2, <1>4, <1>5 DEF ToSet
<1> QED BY <1>2, <1>6

\* The entries of a log that are not dropped.
LEMMA EntriesLeft ==
    ASSUME NEW L, L \in Seq(ToSet(L)), NEW D
    PROVE  Without(L, D) \in Seq(ToSet(Without(L, D))) /\ ToSet(Without(L, D)) = ToSet(L) \ D
<1> PICK S : S = {i \in DOMAIN L : L[i] \notin D}
  OBVIOUS
<1>1. S \in SUBSET DOMAIN L
  OBVIOUS
<1>2. {L[i] : i \in S} = ToSet(L) \ D
  BY DEF ToSet
<1>3. Without(L, D) = At(L, S)
  BY DEF Without
<1> QED BY <1>1, <1>2, <1>3, EntriesAt

\* M is L without entries of another kind, or without the joins and leaves of
\* a network before a time.
Dropped(L, M) ==
    \E D, r, c : /\ c \in Cutoffs
                 /\ ToSet(M) = ToSet(L) \ D
                 /\ \/ \A l \in D : l.kind # "event"
                    \/ \A l \in ToSet(L) : l \in D <=> ExpiresPresence(l, r, c)

LEMMA EntriesExpire ==
    ASSUME NEW L, NEW M, L \in Seq(ToSet(L)), EntriesExpired(L, M)
    PROVE  M \in Seq(ToSet(M)) /\ Dropped(L, M)
<1> PICK c \in Cutoffs :
      \/ \E g \in Granularities : M = At(L, {i \in DOMAIN L : ~ExpiresRollup(L[i], g, c)})
      \/ \E n \in Networks : M = At(L, {i \in DOMAIN L : ~ExpiresPresence(L[i], n, c)})
  BY DEF EntriesExpired
<1>1. \A i \in DOMAIN L : L[i] \in ToSet(L)
  BY DEF ToSet
<1>2. ASSUME NEW g \in Granularities, M = At(L, {i \in DOMAIN L : ~ExpiresRollup(L[i], g, c)})
      PROVE  M \in Seq(ToSet(M)) /\ \E D : ToSet(M) = ToSet(L) \ D /\ \A l \in D : l.kind # "event"
  <2> PICK D : D = {l \in ToSet(L) : ExpiresRollup(l, g, c)}
    OBVIOUS
  <2>1. {i \in DOMAIN L : ~ExpiresRollup(L[i], g, c)} = {i \in DOMAIN L : L[i] \notin D}
    BY <1>1
  <2>2. M = Without(L, D)
    BY <1>2, <2>1 DEF Without
  <2>3. \A l \in D : l.kind # "event"
    BY DEF ExpiresRollup
  <2> QED BY <2>2, <2>3, EntriesLeft
<1>3. ASSUME NEW n \in Networks, M = At(L, {i \in DOMAIN L : ~ExpiresPresence(L[i], n, c)})
      PROVE  /\ M \in Seq(ToSet(M))
             /\ \E D : /\ ToSet(M) = ToSet(L) \ D
                       /\ \A l \in ToSet(L) : l \in D <=> ExpiresPresence(l, n, c)
  <2> PICK D : D = {l \in ToSet(L) : ExpiresPresence(l, n, c)}
    OBVIOUS
  <2>1. {i \in DOMAIN L : ~ExpiresPresence(L[i], n, c)} = {i \in DOMAIN L : L[i] \notin D}
    BY <1>1
  <2>2. M = Without(L, D)
    BY <1>3, <2>1 DEF Without
  <2>3. M \in Seq(ToSet(M)) /\ ToSet(M) = ToSet(L) \ D
    BY <2>2, EntriesLeft
  <2>4. \A l \in ToSet(L) : l \in D <=> ExpiresPresence(l, n, c)
    OBVIOUS
  <2> QED BY <2>3, <2>4
<1> QED BY <1>2, <1>3 DEF Dropped

LEMMA MovedDated ==
    ASSUME NEW L, NEW M, LogDated(L), LogMoved(L, M)
    PROVE  LogDated(M)
<1>1. CASE M = L
  BY <1>1
<1>2. CASE M # <<>> /\ M = Append(L, Last(M)) /\ Dated(Last(M))
  <2> PICK e : e = Last(M)
    OBVIOUS
  <2>1. M \in Seq(ToSet(L) \cup {e}) /\ Len(M) = Len(L) + 1 /\ M[Len(L) + 1] = e
    BY <1>2, AppendProperties, SeqMonotonic DEF LogDated
  <2>2. ToSet(M) \in SUBSET (ToSet(L) \cup {e})
    BY <2>1 DEF ToSet
  <2>3. M \in Seq(ToSet(M))
    BY <2>1 DEF ToSet
  <2> QED BY <1>2, <2>2, <2>3 DEF LogDated
<1>3. CASE EntriesExpired(L, M)
  BY <1>3, EntriesExpire DEF LogDated, Dropped
<1> QED BY <1>1, <1>2, <1>3 DEF LogMoved

\* A history of a device is read off its joins and leaves, and off no more.
LEMMA SameSightings ==
    ASSUME NEW L, NEW M, NEW n, NEW d, Sightings(M, n, d) = Sightings(L, n, d)
    PROVE  Stays(M, n, d) = Stays(L, n, d) /\ PresenceTold(M, n, d) = PresenceTold(L, n, d)
BY DEF Stays, PresenceTold

Tells(L, M, n, d) ==
    /\ Stays(M, n, d) \subseteq Stays(L, n, d)
    /\ \/ PresenceTold(M, n, d) = PresenceTold(L, n, d)
       \/ /\ PresenceTold(M, n, d) = {}
          /\ \E c \in Cutoffs : \A l \in Sightings(L, n, d) : l.val.at < c

\* What makes the history of all networks turn round.
Turned(L, M, d) ==
    \E l \in Sightings(M, AllNetworks, d), m \in Sightings(L, AllNetworks, d) \ Sightings(M, AllNetworks, d) :
        l.val.network # m.val.network /\ l.val.at <= m.val.at

\* If what leaves a history is older than a time and than what stays, the
\* history tells the same, or nothing any more.
LEMMA OlderLeave ==
    ASSUME NEW L, NEW M, NEW c \in Cutoffs, c \in Nat, NEW n, NEW d,
           \A l \in ToSet(L) : Dated(l),
           Sightings(M, n, d) \subseteq Sightings(L, n, d),
           \A m \in Sightings(L, n, d) \ Sightings(M, n, d) :
              m.val.at < c /\ \A l \in Sightings(M, n, d) : m.val.at < l.val.at
    PROVE  Tells(L, M, n, d)
<1> PICK seen, left : seen = Sightings(L, n, d) /\ left = Sightings(M, n, d)
  OBVIOUS
<1>1. \A l \in seen : l.val.at \in Nat \ {0}
  BY DEF Sightings, Appears, Dated
<1>2. /\ left \subseteq seen
      /\ \A m \in seen \ left : m.val.at < c /\ \A l \in left : m.val.at < l.val.at
  OBVIOUS
<1>3. Stays(M, n, d) \subseteq Stays(L, n, d)
  <2> DEFINE Stay(S, s) ==
          /\ s[1].val.type = "join" /\ s[2].val.type = "leave"
          /\ s[1].val.at <= s[2].val.at
          /\ \A m \in S : ~(s[1].val.at < m.val.at /\ m.val.at < s[2].val.at)
  <2>1. ASSUME NEW s \in left \X left, Stay(left, s) PROVE s \in seen \X seen /\ Stay(seen, s)
    <3> PICK a, b : a = s[1].val.at /\ b = s[2].val.at
      OBVIOUS
    <3>1. s[1] \in left /\ s[2] \in left
      OBVIOUS
    <3>2. s \in seen \X seen
      BY <1>2
    <3>3. a \in Nat
      BY <1>1, <1>2, <3>1
    <3>4. ASSUME NEW m \in seen, a < m.val.at, m.val.at < b PROVE FALSE
      <4>1. m.val.at \in Nat
        BY <1>1
      <4>2. CASE m \in left
        BY <2>1, <3>4, <4>2
      <4>3. CASE m \notin left
        <5>1. m.val.at < a
          BY <1>2, <3>1, <4>3
        <5> QED BY <3>3, <3>4, <4>1, <5>1
      <4> QED BY <4>2, <4>3
    <3> QED BY <2>1, <3>2, <3>4
  <2>2. Stays(L, n, d) = {<<e[1].val.at, e[2].val.at>> : e \in {s \in seen \X seen : Stay(seen, s)}}
    BY DEF Stays
  <2>3. Stays(M, n, d) = {<<e[1].val.at, e[2].val.at>> : e \in {s \in left \X left : Stay(left, s)}}
    BY DEF Stays
  <2> HIDE DEF Stay
  <2> QED BY <2>1, <2>2, <2>3
<1> DEFINE latest(S) == {l \in S : \A m \in S : m.val.at <= l.val.at}
<1>4. PresenceTold(L, n, d) = {l.val.type : l \in latest(seen)}
      /\ PresenceTold(M, n, d) = {l.val.type : l \in latest(left)}
  BY DEF PresenceTold
<1>5. CASE left = {}
  <2>1. PresenceTold(M, n, d) = {}
    BY <1>4, <1>5
  <2>2. \A l \in Sightings(L, n, d) : l.val.at < c
    BY <1>2, <1>5
  <2> QED BY <1>3, <2>1, <2>2 DEF Tells
<1>6. CASE left # {}
  <2> PICK k : k \in left
    BY <1>6
  <2>1. k \in seen /\ k.val.at \in Nat
    BY <1>1, <1>2
  <2>2. ASSUME NEW l \in latest(seen) PROVE l \in latest(left)
    <3>1. l \in seen /\ l.val.at \in Nat /\ k.val.at <= l.val.at
      BY <1>1, <2>1
    <3>2. l \in left
      BY <1>2, <2>1, <3>1
    <3> QED BY <1>2, <3>2
  <2>3. ASSUME NEW l \in latest(left) PROVE l \in latest(seen)
    <3>1. l \in left /\ l \in seen /\ l.val.at \in Nat
      BY <1>1, <1>2
    <3>2. ASSUME NEW m \in seen PROVE m.val.at <= l.val.at
      <4>1. m.val.at \in Nat
        BY <1>1
      <4>2. CASE m \in left
        BY <4>2
      <4>3. CASE m \notin left
        <5>1. m.val.at < l.val.at
          BY <1>2, <3>1, <4>3
        <5> QED BY <3>1, <4>1, <5>1
      <4> QED BY <4>2, <4>3
    <3> QED BY <3>1, <3>2
  <2>4. latest(seen) = latest(left)
    BY <2>2, <2>3
  <2>5. PresenceTold(M, n, d) = PresenceTold(L, n, d)
    BY <1>4, <2>4
  <2> QED BY <1>3, <2>5 DEF Tells
<1> QED BY <1>5, <1>6

\* Without the joins and leaves of one network, or of all, before a time, each
\* history tells the same of a device that still is in it, unless the history
\* of all networks is turned round.
LEMMA RetentionTells ==
    ASSUME NEW L, NEW M, NEW D, NEW r, NEW c \in Cutoffs, c \in Nat, NEW n, NEW d,
           \A l \in ToSet(L) : Dated(l),
           ToSet(M) = ToSet(L) \ D,
           \A l \in ToSet(L) : l \in D <=> ExpiresPresence(l, r, c),
           ~(n = AllNetworks /\ Turned(L, M, d))
    PROVE  Tells(L, M, n, d)
<1> PICK seen, left : seen = Sightings(L, n, d) /\ left = Sightings(M, n, d)
  OBVIOUS
<1> PICK R : R = {l \in seen : r = AllNetworks \/ l.val.network = r}
  OBVIOUS
<1>1. \A l \in seen : l.val.at \in Nat \ {0}
  BY DEF Sightings, Appears, Dated
<1>2. \A l : l \in left <=> l \in seen /\ ~(l \in R /\ l.val.at < c)
  <2>1. ASSUME NEW l \in seen PROVE l \in D <=> l \in R /\ l.val.at < c
    <3>1. l \in D <=> l \in R /\ l.val.at \in 1..(c - 1)
      BY DEF Sightings, Appears, ExpiresPresence
    <3>2. l.val.at \in 1..(c - 1) <=> l.val.at < c
      BY <1>1
    <3> QED BY <3>1, <3>2
  <2>2. \A l : l \in left <=> l \in seen /\ l \notin D
    BY DEF Sightings
  <2> QED BY <2>1, <2>2
<1>3. ASSUME NEW m \in seen \ left, NEW l \in left PROVE m.val.at < c /\ m.val.at < l.val.at
  <2>1. m.val.at < c /\ m \in R /\ l \in seen
    BY <1>2
  <2>2. m.val.at \in Nat /\ l.val.at \in Nat
    BY <1>1, <2>1
  <2>3. CASE l \in R
    <3>1. ~(l.val.at < c)
      BY <1>2, <2>3
    <3> QED BY <2>1, <2>2, <3>1
  <2>4. CASE l \notin R
    <3>1. l.val.network # m.val.network /\ r # AllNetworks
      BY <2>1, <2>4
    <3>2. n = AllNetworks
      BY <2>1, <3>1 DEF Sightings, MatchesNetwork
    <3>3. ~(l.val.at <= m.val.at)
      BY <3>1, <3>2 DEF Turned
    <3> QED BY <2>1, <2>2, <3>3
  <2> QED BY <2>3, <2>4
<1>4. \A m \in seen \ left : m.val.at < c
  BY <1>2
<1>5. left \subseteq seen
  BY <1>2
<1> QED BY <1>3, <1>4, <1>5, OlderLeave

\* A log that moves tells the same of a device, unless the entry added is an
\* event of that device, or the history of all networks is turned round.
LEMMA MovedTells ==
    ASSUME NEW L, NEW M, LogDated(L), LogMoved(L, M), NEW n, NEW d
    PROVE  \/ /\ M # <<>> /\ M = Append(L, Last(M))
              /\ Last(M).kind = "event" /\ Last(M).key = d
           \/ n = AllNetworks /\ Turned(L, M, d)
           \/ Tells(L, M, n, d)
<1>1. Sightings(M, n, d) = Sightings(L, n, d) => Tells(L, M, n, d)
  BY SameSightings DEF Tells
<1>2. CASE M = L
  BY <1>1, <1>2
<1>3. CASE /\ M # <<>> /\ M = Append(L, Last(M))
           /\ ~(Last(M).kind = "event" /\ Last(M).key = d)
  <2> PICK e : e = Last(M)
    OBVIOUS
  <2>1. /\ Len(L) \in Nat /\ DOMAIN L = 1..Len(L) /\ DOMAIN M = 1..(Len(L) + 1)
        /\ \A i \in 1..Len(L) : M[i] = L[i]
        /\ M[Len(L) + 1] = e
    <3>1. L \in Seq(ToSet(L) \cup {e}) /\ e \in ToSet(L) \cup {e}
      BY SeqMonotonic DEF LogDated
    <3> QED BY <1>3, <3>1, AppendProperties, LenProperties
  <2>2. ToSet(M) = ToSet(L) \cup {e}
    BY <2>1 DEF ToSet
  <2>3. ~(Appears(e) /\ e.key = d)
    BY <1>3 DEF Appears
  <2>4. Sightings(M, n, d) = Sightings(L, n, d)
    BY <2>2, <2>3 DEF Sightings
  <2> QED BY <1>1, <2>4
<1>4. CASE EntriesExpired(L, M)
  <2>1. L \in Seq(ToSet(L))
    BY DEF LogDated
  <2>2. Dropped(L, M)
    BY <1>4, <2>1, EntriesExpire
  <2> PICK D, r, c : /\ c \in Cutoffs /\ ToSet(M) = ToSet(L) \ D
                     /\ \/ \A l \in D : l.kind # "event"
                        \/ \A l \in ToSet(L) : l \in D <=> ExpiresPresence(l, r, c)
    BY <2>2 DEF Dropped
  <2>3. CASE \A l \in D : l.kind # "event"
    <3>1. Sightings(M, n, d) = Sightings(L, n, d)
      BY <2>3 DEF Sightings, Appears
    <3> QED BY <1>1, <3>1
  <2>4. CASE \A l \in ToSet(L) : l \in D <=> ExpiresPresence(l, r, c)
    <3>1. c \in Nat
      BY CommandsAssumption DEF Cutoffs
    <3> QED BY <2>4, <3>1, RetentionTells DEF LogDated
  <2> QED BY <2>3, <2>4
<1> QED BY <1>2, <1>3, <1>4 DEF LogMoved

LEMMA InitDated == Init => LogDated(ShownLog)
<1> SUFFICES ASSUME Init PROVE LogDated(ShownLog)
  OBVIOUS
<1> PICK L : L = ShownLog
  OBVIOUS
<1>1. \A i \in DOMAIN L : Dated(L[i])
  BY InitShown DEF Store!Init, Store!Dated, Dated
<1>2. L \in Seq(ToSet(L))
  <2>1. CASE faults
    BY <2>1 DEF ShownLog
  <2>2. CASE ~faults
    <3>1. View = file /\ Sound(file)
      BY StoredAssumption DEF Init, View
    <3> QED BY <2>2, <3>1, LogOf DEF ShownLog, Sound
  <2> QED BY <2>1, <2>2
<1> QED BY <1>1, <1>2 DEF LogDated, ToSet

\* Whatever commands run, one at a time, and whenever retention drops joins
\* and leaves of one network or of all: what the history of a network tells of
\* a device stays as it was until an event of the device is added, and no stay
\* gets longer; a device leaves the history only when all its events are older
\* than the cutoff.  So does the history of all networks, unless retention has
\* left an event of another network that is older than one it dropped.
THEOREM PresenceHistoryKept == ASSUME ~Overlap PROVE Spec => PresenceKept
<1> DEFINE Step == \A d \in Keys(ShownLog, "event") : \A n \in Histories(d) :
             \/ EventAdded(d)
             \/ n = AllNetworks /\ OtherNetworkOlder(d)
             \/ /\ Stays(ShownLog', n, d) \subseteq Stays(ShownLog, n, d)
                /\ \/ PresenceTold(ShownLog', n, d) = PresenceTold(ShownLog, n, d)
                   \/ /\ PresenceTold(ShownLog', n, d) = {}
                      /\ \E c \in Cutoffs : \A l \in Sightings(ShownLog, n, d) : l.val.at < c
<1>1. IInv /\ Kept /\ LogDated(ShownLog) /\ [Next]_vars
        => IInv' /\ Kept' /\ LogDated(ShownLog)' /\ Step
  <2> SUFFICES ASSUME IInv, Kept, LogDated(ShownLog), [Next]_vars
               PROVE  IInv' /\ Kept' /\ LogDated(ShownLog)' /\ Step
    OBVIOUS
  <2>1. IInv' /\ Kept' /\ [Store!Next]_(Store!svars)
    BY NextInv, NextShown
  <2>2. LogMoved(ShownLog, ShownLog')
    BY <2>1, LogMoves
  <2>3. LogDated(ShownLog')
    BY <2>2, MovedDated
  <2>4. \A d : Turned(ShownLog, ShownLog', d) <=> OtherNetworkOlder(d)
    BY DEF Turned, OtherNetworkOlder
  <2>5. ASSUME NEW d, NEW n
        PROVE  \/ EventAdded(d)
               \/ n = AllNetworks /\ OtherNetworkOlder(d)
               \/ Tells(ShownLog, ShownLog', n, d)
    <3> PICK L, M : L = ShownLog /\ M = ShownLog'
      OBVIOUS
    <3>1. \/ M # <<>> /\ M = Append(L, Last(M)) /\ Last(M).kind = "event" /\ Last(M).key = d
          \/ n = AllNetworks /\ Turned(L, M, d)
          \/ Tells(L, M, n, d)
      BY <2>2, MovedTells
    <3> QED BY <2>4, <3>1 DEF EventAdded
  <2>6. Step
    BY <2>5 DEF Tells
  <2> QED BY <2>1, <2>3, <2>6
<1>2. Spec => [][Step]_vars
  BY <1>1, InitInv, InitKept, InitDated, PTL DEF Spec
<1> QED BY <1>2 DEF PresenceKept
=============================================================================
