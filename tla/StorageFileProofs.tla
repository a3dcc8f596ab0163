------------------------- MODULE StorageFileProofs -------------------------
(***************************************************************************)
(* Theorems about StorageFile, for every set of commands, every file they  *)
(* may find and every pattern of crashes and files that cannot be opened,  *)
(* as long as one command runs at a time.  A crash may leave any number of *)
(* the lines that were being written, so the invariant Sound is one that   *)
(* every prefix of a file inherits: it says of each line what must stand   *)
(* before it.  Most operations only edit lines in place, drop some or cut  *)
(* the file: lemma Embedding covers all of them.                           *)
(***************************************************************************)
EXTENDS StorageFile, FunctionTheorems, FiniteSetTheorems, SequenceTheorems,
        WellFoundedInduction, TLAPS

-----------------------------------------------------------------------------
(* Files as sequences of lines.                                            *)

LEMMA LineFields ==
    ASSUME NEW k, NEW key, NEW v
    PROVE  /\ Line(k, key, v).kind = k /\ Line(k, key, v).key = key /\ Line(k, key, v).val = v
           /\ Line(k, key, v) = Line(Line(k, key, v).kind, Line(k, key, v).key, Line(k, key, v).val)
BY DEF Line

\* Whatever a sequence is made of, it is made of its elements.
LEMMA OfItsElements ==
    ASSUME NEW S, NEW f \in Seq(S)
    PROVE  f \in Seq(ToSet(f)) /\ Len(f) \in Nat /\ DOMAIN f = 1..Len(f)
<1>1. Len(f) \in Nat /\ DOMAIN f = 1..Len(f) /\ f \in [1..Len(f) -> S]
  BY LenProperties
<1>2. \A i \in 1..Len(f) : f[i] \in ToSet(f)
  BY <1>1 DEF ToSet
<1>3. f \in [1..Len(f) -> ToSet(f)]
  BY <1>1, <1>2
<1>4. f \in Seq(ToSet(f))
  BY <1>1, <1>3, SeqDef
<1> QED BY <1>1, <1>4

LEMMA FileShape ==
    ASSUME NEW f, AllLines(f)
    PROVE  Len(f) \in Nat /\ DOMAIN f = 1..Len(f)
BY OfItsElements DEF AllLines

\* A table of n lines is a file.
LEMMA TableIsFile ==
    ASSUME NEW n \in Nat, NEW g, g = [i \in 1..n |-> g[i]]
    PROVE  g \in Seq(ToSet(g)) /\ Len(g) = n /\ DOMAIN g = 1..n
<1> DEFINE S == {g[i] : i \in 1..n}
<1>1. g \in [1..n -> S]
  OBVIOUS
<1>2. g \in Seq(S)
  BY <1>1, SeqDef
<1>3. DOMAIN g = 1..n
  BY <1>1
<1>4. Len(g) = n
  BY <1>2, <1>3, LenProperties
<1> QED BY <1>2, <1>3, <1>4, OfItsElements

-----------------------------------------------------------------------------
(* A file whose records are some of those of another file, in the same     *)
(* order, with everything they stand behind.                               *)

Records == {"session", "detail", "device", "workspace", "filter", "scan"}
RecordsOf(f) == {i \in DOMAIN f : f[i].kind \in Records}

\* m tells where each record of g stands in f.
Embeds(g, f, m) ==
    /\ \A i \in RecordsOf(g) :
         m[i] \in DOMAIN f /\ g[i].kind = f[m[i]].kind /\ g[i].key = f[m[i]].key
    /\ \A i, j \in RecordsOf(g) : i < j => m[i] < m[j]
    /\ \A i \in RecordsOf(g) : \A j \in 1..(m[i] - 1) :
         f[j].kind \in {"session", "workspace"} => \E k \in RecordsOf(g) : k < i /\ m[k] = j

LEMMA WorkspacesFinite ==
    ASSUME NEW f, AllLines(f)
    PROVE  IsFiniteSet(Of(f, "workspace")) /\ Cardinality(Of(f, "workspace")) \in Nat
<1>1. DOMAIN f = 1..Len(f) /\ Len(f) \in Nat
  BY FileShape
<1>2. IsFiniteSet(1..Len(f)) /\ Of(f, "workspace") \in SUBSET (1..Len(f))
  BY <1>1, FS_Interval DEF Of
<1> QED BY <1>2, FS_Subset, FS_CardinalityType

LEMMA Embedding ==
    ASSUME NEW f, NEW g, NEW m, Sound(f), AllLines(g), Embeds(g, f, m)
    PROVE  /\ NoneTwice(g)
           /\ Behind(g, "detail", "session") /\ Behind(g, "scan", "workspace")
           /\ WithinLimit(g)
<1>1. Len(f) \in Nat /\ DOMAIN f = 1..Len(f) /\ Len(g) \in Nat /\ DOMAIN g = 1..Len(g)
  BY FileShape DEF Sound
<1>2. \A i \in RecordsOf(g) : i \in Nat /\ m[i] \in Nat
  BY <1>1 DEF Embeds, RecordsOf
<1>3. ASSUME NEW i \in RecordsOf(g), NEW j \in RecordsOf(g), m[i] = m[j] PROVE i = j
  <2>1. i \in Nat /\ j \in Nat /\ m[i] \in Nat /\ m[j] \in Nat
    BY <1>2
  <2>2. ~(i < j) /\ ~(j < i)
    BY <1>3, <2>1 DEF Embeds
  <2> QED BY <2>1, <2>2
<1>4. NoneTwice(g)
  <2> SUFFICES ASSUME NEW i \in DOMAIN g, NEW j \in DOMAIN g,
                      g[i].kind \in {"session", "device", "workspace", "filter"},
                      Same(g[i], g[j])
               PROVE  i = j
    BY DEF NoneTwice
  <2>1. i \in RecordsOf(g) /\ j \in RecordsOf(g)
    BY DEF RecordsOf, Records, Same
  <2>2. m[i] = m[j]
    BY <2>1 DEF Embeds, Sound, NoneTwice, Same
  <2> QED BY <1>3, <2>1, <2>2
<1>5. ASSUME NEW kind \in {"detail", "scan"}, NEW owner \in {"session", "workspace"},
             Behind(f, kind, owner)
      PROVE  Behind(g, kind, owner)
  <2> SUFFICES ASSUME NEW i \in Of(g, kind)
               PROVE  \E j \in 1..(i - 1) : g[j].kind = owner /\ g[j].key = g[i].key
    BY DEF Behind
  <2>1. i \in RecordsOf(g)
    BY DEF RecordsOf, Records, Of
  <2>2. m[i] \in Of(f, kind) /\ f[m[i]].key = g[i].key
    BY <2>1 DEF Embeds, Of
  <2>3. PICK j \in 1..(m[i] - 1) : f[j].kind = owner /\ f[j].key = g[i].key
    BY <1>5, <2>2 DEF Behind
  <2>4. PICK k \in RecordsOf(g) : k < i /\ m[k] = j
    BY <2>1, <2>3 DEF Embeds
  <2>5. g[k].kind = owner /\ g[k].key = g[i].key
    BY <2>3, <2>4 DEF Embeds
  <2>6. k \in 1..(i - 1)
    <3>1. k \in 1..Len(g) /\ i \in 1..Len(g)
      BY <1>1, <2>1, <2>4 DEF RecordsOf
    <3> QED BY <1>1, <2>4, <3>1
  <2> QED BY <2>5, <2>6
<1>6. WithinLimit(g)
  <2> SUFFICES ASSUME Of(g, "workspace") # {}
               PROVE  \E n \in Limits : Cardinality(Of(g, "workspace")) <= n
    BY DEF WithinLimit
  <2> DEFINE h == [i \in Of(g, "workspace") |-> m[i]]
  <2>1. \A i \in Of(g, "workspace") : i \in RecordsOf(g) /\ m[i] \in Of(f, "workspace")
    BY DEF Embeds, RecordsOf, Records, Of
  <2>2. h \in Injection(Of(g, "workspace"), Of(f, "workspace"))
    BY <1>3, <2>1, Fun_IsInj
  <2>3. Cardinality(Of(g, "workspace")) <= Cardinality(Of(f, "workspace"))
    BY <2>2, WorkspacesFinite, FS_Injection DEF Sound
  <2>4. PICK n \in Limits : Cardinality(Of(f, "workspace")) <= n
    BY <2>1 DEF Sound, WithinLimit
  <2>5. n \in Nat
    BY CommandsAssumption DEF Limits
  <2>6. Cardinality(Of(g, "workspace")) \in Nat /\ Cardinality(Of(f, "workspace")) \in Nat
    BY WorkspacesFinite DEF Sound
  <2> QED BY <2>3, <2>4, <2>5, <2>6
<1> QED BY <1>4, <1>5, <1>6 DEF Sound

-----------------------------------------------------------------------------
(* Keeping the lines at some positions.                                    *)

\* m lists the positions in S in their order.
Selects(m, f, S) ==
    /\ m \in [1..Cardinality(S) -> S]
    /\ At(f, S) = [a \in 1..Cardinality(S) |-> f[m[a]]]
    /\ \A a, b \in 1..Cardinality(S) : a < b => m[a] < m[b]
    /\ \A i \in S : \E a \in 1..Cardinality(S) : m[a] = i
    /\ \A a \in 1..Cardinality(S) : Cardinality({j \in S : j <= m[a]}) = a

LEMMA AtPositions ==
    ASSUME NEW n \in Nat, NEW f, NEW S \in SUBSET (1..n)
    PROVE  Cardinality(S) \in Nat /\ \E m : Selects(m, f, S)
<1> DEFINE c == Cardinality(S)
           up(i) == {j \in S : j <= i}
           rank == [i \in S |-> Cardinality(up(i))]
<1> HIDE DEF c
<1>0. \A i \in S : i \in Nat
  OBVIOUS
<1>1. IsFiniteSet(S) /\ c \in Nat
  <2>1. 1 \in Int /\ n \in Int
    OBVIOUS
  <2>2. IsFiniteSet(1..n)
    BY <2>1, FS_Interval
  <2>3. IsFiniteSet(S)
    BY <2>2, FS_Subset
  <2> QED BY <2>3, FS_CardinalityType DEF c
<1>2. \A i \in S : IsFiniteSet(up(i)) /\ Cardinality(up(i)) \in Nat /\ Cardinality(up(i)) <= c
  BY <1>1, FS_Subset, FS_CardinalityType DEF c
<1>3. \A i \in S : rank[i] \in 1..c
  <2> TAKE i \in S
  <2>1. i \in up(i)
    OBVIOUS
  <2>2. up(i) # {}
    BY <2>1
  <2>3. Cardinality(up(i)) # 0
    BY <1>2, <2>2, FS_EmptySet
  <2> QED BY <1>1, <1>2, <2>3
<1>4. \A i, k \in S : i < k => rank[i] < rank[k]
  <2> SUFFICES ASSUME NEW i \in S, NEW k \in S, i < k PROVE Cardinality(up(i)) < Cardinality(up(k))
    OBVIOUS
  <2>4. i \in Nat /\ k \in Nat
    BY <1>0
  <2>5. \A j \in Nat : j <= i => j <= k
    BY <2>4
  <2>6. k <= k /\ ~(k <= i)
    BY <2>4
  <2>1. up(i) \in SUBSET up(k) /\ k \in up(k) /\ k \notin up(i)
    BY <1>0, <2>5, <2>6
  <2>2. up(i) # up(k)
    BY <2>1
  <2> HIDE DEF up
  <2>3. Cardinality(up(i)) <= Cardinality(up(k)) /\ Cardinality(up(i)) # Cardinality(up(k))
    BY <1>2, <2>1, <2>2, FS_Subset
  <2> QED BY <1>2, <2>3
<1>5. rank \in [S -> 1..c]
  BY <1>3
<1> HIDE DEF rank
<1>6. \A i, k \in S : rank[i] = rank[k] => i = k
  <2> SUFFICES ASSUME NEW i \in S, NEW k \in S, rank[i] = rank[k] PROVE i = k
    OBVIOUS
  <2>1. ~(i < k) /\ ~(k < i)
    BY <1>1, <1>4, <1>5
  <2> QED BY <2>1
<1>7. rank \in Surjection(S, 1..c)
  <2>1. rank \in Injection(S, 1..c)
    BY <1>5, <1>6, Fun_IsInj
  <2>2. IsFiniteSet(1..c) /\ Cardinality(1..c) = c
    BY <1>1, FS_Interval
  <2>3. c = Cardinality(S)
    BY DEF c
  <2> QED BY <2>1, <2>2, <2>3, FS_Injection
<1>8. \A a \in 1..c : \E i \in S : rank[i] = a
  BY <1>7 DEF Surjection
<1> DEFINE m == [a \in 1..c |-> CHOOSE i \in S : rank[i] = a]
<1>9. \A a \in 1..c : m[a] \in S /\ rank[m[a]] = a
  BY <1>8
<1>10. m \in [1..c -> S]
  BY <1>9
<1>11. \A i \in S : \E a \in 1..c : m[a] = i
  BY <1>5, <1>6, <1>9
<1>12. At(f, S) = [a \in 1..c |-> f[m[a]]]
  <2>1. \A a \in 1..c : (CHOOSE i \in S : rank[i] = a)
                          = (CHOOSE i \in S : Cardinality({j \in S : j <= i}) = a)
    BY DEF rank
  <2>2. \A a \in 1..c : f[m[a]] = f[CHOOSE i \in S : Cardinality({j \in S : j <= i}) = a]
    BY <2>1
  <2> HIDE DEF m
  <2> QED BY <2>2 DEF At, c
<1> HIDE DEF m
<1>13. \A a, b \in 1..c : a < b => m[a] < m[b]
  <2> SUFFICES ASSUME NEW a \in 1..c, NEW b \in 1..c, a < b PROVE m[a] < m[b]
    OBVIOUS
  <2>1. m[a] \in S /\ m[b] \in S /\ rank[m[a]] = a /\ rank[m[b]] = b
    BY <1>9
  <2>2. m[a] # m[b]
    BY <2>1
  <2>3. m[b] < m[a] => b < a
    BY <1>4, <2>1
  <2>4. m[a] \in Nat /\ m[b] \in Nat
    BY <1>0, <2>1
  <2>5. a \in Nat /\ b \in Nat
    BY <1>1
  <2> QED BY <2>2, <2>3, <2>4, <2>5
<1>14. \A a \in 1..c : Cardinality({j \in S : j <= m[a]}) = a
  BY <1>9 DEF rank
<1>15. Selects(m, f, S)
  BY <1>10, <1>11, <1>12, <1>13, <1>14 DEF Selects, c
<1> QED BY <1>1, <1>15 DEF c

-----------------------------------------------------------------------------
(* What the operations do to a file, each of which leaves it Sound.        *)

\* An embedding that makes no workspace active.
LEMMA EmbeddingSound ==
    ASSUME NEW f, NEW g, NEW m, Sound(f), AllLines(g), Embeds(g, f, m),
           \A i \in Of(g, "workspace") : g[i].val => f[m[i]].val
    PROVE  Sound(g)
<1>1. /\ NoneTwice(g)
      /\ Behind(g, "detail", "session") /\ Behind(g, "scan", "workspace")
      /\ WithinLimit(g)
  BY Embedding
<1>2. OneActive(g)
  <2> SUFFICES ASSUME NEW i \in Of(g, "workspace"), NEW j \in Of(g, "workspace"),
                      g[i].val, g[j].val
               PROVE  i = j
    BY DEF OneActive
  <2>1. i \in RecordsOf(g) /\ j \in RecordsOf(g)
    BY DEF Of, RecordsOf, Records
  <2>2. m[i] \in Of(f, "workspace") /\ m[j] \in Of(f, "workspace")
    BY <2>1 DEF Embeds, Of
  <2>3. m[i] = m[j]
    BY <2>2 DEF Sound, OneActive
  <2>4. i \in Nat /\ j \in Nat /\ ~(m[i] < m[j]) /\ ~(m[j] < m[i])
    <3>1. m[i] \in Nat /\ i \in Nat /\ j \in Nat
      BY <2>2, FileShape DEF Of, Sound
    <3> QED BY <2>3, <3>1
  <2>5. ~(i < j) /\ ~(j < i)
    BY <2>1, <2>4 DEF Embeds
  <2> QED BY <2>4, <2>5
<1> QED BY <1>1, <1>2 DEF Sound

LEMMA EmptySound == Sound(<<>>)
<1>1. <<>> \in Seq({}) /\ DOMAIN <<>> = {}
  BY EmptySeq, LenProperties
<1>2. <<>> \in Seq(ToSet(<<>>))
  BY <1>1, OfItsElements
<1>3. \A k : Of(<<>>, k) = {}
  BY <1>1 DEF Of
<1> QED
  BY <1>1, <1>2, <1>3 DEF Sound, AllLines, NoneTwice, Behind, OneActive, WithinLimit

\* Lines edited where they stand.
LEMMA InPlace ==
    ASSUME NEW f, NEW g, Sound(f), g = [i \in DOMAIN f |-> g[i]],
           \A i \in DOMAIN f :
               /\ g[i] = Line(g[i].kind, g[i].key, g[i].val) /\ g[i].kind = f[i].kind
               /\ f[i].kind \in Records => g[i].key = f[i].key
               /\ f[i].kind = "workspace" => g[i].val \in BOOLEAN
    PROVE  /\ AllLines(g) /\ NoneTwice(g)
           /\ Behind(g, "detail", "session") /\ Behind(g, "scan", "workspace")
           /\ WithinLimit(g)
           /\ (\A i \in Of(g, "workspace") : g[i].val => f[i].val) => Sound(g)
<1> DEFINE m == [i \in DOMAIN f |-> i]
<1>1. Len(f) \in Nat /\ DOMAIN f = 1..Len(f)
  BY FileShape DEF Sound
<1>2. g \in Seq(ToSet(g)) /\ Len(g) = Len(f) /\ DOMAIN g = DOMAIN f
  BY <1>1, TableIsFile
<1>3. AllLines(g)
  <2>1. \A i \in Of(g, "session") : g[i].key \in Nat
    BY <1>2 DEF Of, Records, Sound, AllLines
  <2>2. \A i \in Of(g, "workspace") : g[i].val \in BOOLEAN
    BY <1>2 DEF Of
  <2> QED BY <1>2, <2>1, <2>2 DEF AllLines
<1>4. \A i \in RecordsOf(g) : i \in DOMAIN f /\ f[i].kind \in Records /\ m[i] = i
  BY <1>2 DEF RecordsOf
<1>5. Embeds(g, f, m)
  <2>1. \A i \in RecordsOf(g) :
          m[i] \in DOMAIN f /\ g[i].kind = f[m[i]].kind /\ g[i].key = f[m[i]].key
    BY <1>4
  <2>2. \A i, j \in RecordsOf(g) : i < j => m[i] < m[j]
    BY <1>4
  <2>3. ASSUME NEW i \in RecordsOf(g), NEW j \in 1..(m[i] - 1), f[j].kind \in {"session", "workspace"}
        PROVE  \E k \in RecordsOf(g) : k < i /\ m[k] = j
    <3>1. i \in 1..Len(f) /\ m[i] = i
      BY <1>1, <1>4
    <3>2. j \in 1..Len(f) /\ j < i
      BY <1>1, <2>3, <3>1
    <3>3. j \in RecordsOf(g) /\ m[j] = j
      BY <1>1, <1>2, <2>3, <3>2 DEF RecordsOf, Records
    <3> QED BY <3>2, <3>3
  <2> HIDE DEF m
  <2> QED BY <2>1, <2>2, <2>3 DEF Embeds
<1>6. \A i \in Of(g, "workspace") : m[i] = i
  BY <1>2 DEF Of
<1> HIDE DEF m
<1>7. (\A i \in Of(g, "workspace") : g[i].val => f[i].val) => Sound(g)
  BY <1>3, <1>5, <1>6, EmbeddingSound
<1> QED BY <1>3, <1>5, <1>7, Embedding

\* A file cut short.
LEMMA PrefixSound ==
    ASSUME NEW f, Sound(f), NEW n \in 0..Len(f)
    PROVE  Sound(SubSeq(f, 1, n))
<1> DEFINE m == [i \in 1..n |-> i]
<1>1. Len(f) \in Nat /\ DOMAIN f = 1..Len(f) /\ AllLines(f) /\ f \in Seq(ToSet(f))
  BY FileShape DEF Sound, AllLines
<1>2. n \in Nat /\ \A i \in 1..n : i \in DOMAIN f /\ 1 + i - 1 = i
  BY <1>1
<1> PICK g : g = SubSeq(f, 1, n)
  OBVIOUS
<1>3. g \in Seq(ToSet(g)) /\ DOMAIN g = 1..n /\ \A i \in 1..n : g[i] = f[i]
  <2>1. \A i \in 1..n : f[i] \in ToSet(f)
    BY <1>2 DEF ToSet
  <2>2. /\ SubSeq(f, 1, n) \in Seq(ToSet(f))
        /\ Len(SubSeq(f, 1, n)) = IF 1 <= n THEN n - 1 + 1 ELSE 0
        /\ \A i \in 1..(n - 1 + 1) : SubSeq(f, 1, n)[i] = f[1 + i - 1]
    BY <1>2, <2>1, SubSeqProperties
  <2>3. Len(g) = n
    BY <1>2, <2>2
  <2>4. n - 1 + 1 = n
    BY <1>2
  <2>5. \A i \in 1..n : g[i] = f[i]
    BY <1>2, <2>2, <2>4
  <2> QED BY <2>2, <2>3, <2>5, OfItsElements
<1>4. \A k : \A i \in Of(g, k) : i \in Of(f, k)
  BY <1>2, <1>3 DEF Of
<1>5. AllLines(g)
  <2>1. \A i \in DOMAIN g : g[i] = Line(g[i].kind, g[i].key, g[i].val)
    BY <1>1, <1>2, <1>3 DEF AllLines
  <2>2. \A i \in Of(g, "session") : g[i].key \in Nat
    BY <1>1, <1>3, <1>4 DEF AllLines, Of
  <2>3. \A i \in Of(g, "workspace") : g[i].val \in BOOLEAN
    BY <1>1, <1>3, <1>4 DEF AllLines, Of
  <2> QED BY <1>3, <2>1, <2>2, <2>3 DEF AllLines
<1>6. \A i \in RecordsOf(g) : i \in 1..n /\ m[i] = i /\ g[i] = f[i]
  BY <1>3 DEF RecordsOf
<1>7. Embeds(g, f, m)
  <2>1. \A i \in RecordsOf(g) :
          m[i] \in DOMAIN f /\ g[i].kind = f[m[i]].kind /\ g[i].key = f[m[i]].key
    BY <1>2, <1>6
  <2>2. \A i, j \in RecordsOf(g) : i < j => m[i] < m[j]
    BY <1>6
  <2>3. ASSUME NEW i \in RecordsOf(g), NEW j \in 1..(m[i] - 1), f[j].kind \in {"session", "workspace"}
        PROVE  \E k \in RecordsOf(g) : k < i /\ m[k] = j
    <3>1. i \in 1..n /\ m[i] = i
      BY <1>6
    <3>2. j \in 1..n /\ j < i
      BY <1>2, <2>3, <3>1
    <3>3. j \in RecordsOf(g) /\ m[j] = j
      BY <1>3, <2>3, <3>2 DEF RecordsOf, Records
    <3> QED BY <3>2, <3>3
  <2> HIDE DEF m
  <2> QED BY <2>1, <2>2, <2>3 DEF Embeds
<1>8. \A i \in Of(g, "workspace") : g[i].val => f[m[i]].val
  BY <1>6 DEF Of, RecordsOf, Records
<1> HIDE DEF m
<1> QED BY <1>5, <1>7, <1>8, EmbeddingSound

\* Lines that are no records may be dropped.
LEMMA AtSound ==
    ASSUME NEW f, Sound(f), NEW S \in SUBSET DOMAIN f, \A i \in DOMAIN f \ S : f[i].kind \notin Records
    PROVE  Sound(At(f, S))
<1>1. Len(f) \in Nat /\ DOMAIN f = 1..Len(f) /\ AllLines(f)
  BY FileShape DEF Sound
<1>2. PICK c : c = Cardinality(S)
  OBVIOUS
<1>3. S \in SUBSET (1..Len(f))
  BY <1>1
<1>4. c \in Nat /\ \E m : Selects(m, f, S)
  BY <1>1, <1>2, <1>3, AtPositions
<1>5. PICK m : Selects(m, f, S)
  BY <1>4
<1>6. PICK g : g = At(f, S)
  OBVIOUS
<1>7. g \in Seq(ToSet(g)) /\ DOMAIN g = 1..c /\ \A a \in 1..c : g[a] = f[m[a]] /\ m[a] \in DOMAIN f
  <2>1. g = [a \in 1..c |-> g[a]] /\ \A a \in 1..c : g[a] = f[m[a]] /\ m[a] \in DOMAIN f
    BY <1>2, <1>5, <1>6 DEF Selects
  <2> QED BY <1>4, <2>1, TableIsFile
<1>8. \A k : \A a \in Of(g, k) : a \in 1..c /\ m[a] \in Of(f, k) /\ g[a] = f[m[a]]
  BY <1>7 DEF Of
<1>9. AllLines(g)
  <2>1. \A i \in DOMAIN g : g[i] = Line(g[i].kind, g[i].key, g[i].val)
    BY <1>1, <1>7 DEF AllLines
  <2>2. \A i \in Of(g, "session") : g[i].key \in Nat
    BY <1>1, <1>8 DEF AllLines
  <2>3. \A i \in Of(g, "workspace") : g[i].val \in BOOLEAN
    BY <1>1, <1>8 DEF AllLines
  <2> QED BY <1>7, <2>1, <2>2, <2>3 DEF AllLines
<1>10. \A a \in RecordsOf(g) : a \in 1..c /\ m[a] \in DOMAIN f /\ g[a] = f[m[a]]
  BY <1>7 DEF RecordsOf
<1>11. Embeds(g, f, m)
  <2>1. \A i \in RecordsOf(g) :
          m[i] \in DOMAIN f /\ g[i].kind = f[m[i]].kind /\ g[i].key = f[m[i]].key
    BY <1>10
  <2>2. \A i, j \in RecordsOf(g) : i < j => m[i] < m[j]
    BY <1>2, <1>5, <1>10 DEF Selects
  <2>3. ASSUME NEW i \in RecordsOf(g), NEW j \in 1..(m[i] - 1), f[j].kind \in {"session", "workspace"}
        PROVE  \E k \in RecordsOf(g) : k < i /\ m[k] = j
    <3>1. i \in 1..c /\ m[i] \in 1..Len(f)
      BY <1>1, <1>10
    <3>2. j \in DOMAIN f /\ j < m[i]
      BY <1>1, <2>3, <3>1
    <3>3. j \in S
      BY <2>3, <3>2 DEF Records
    <3>4. PICK k \in 1..c : m[k] = j
      BY <1>2, <1>5, <3>3 DEF Selects
    <3>5. k \in RecordsOf(g)
      BY <1>7, <2>3, <3>4 DEF RecordsOf, Records
    <3>6. i < k => m[i] < m[k]
      BY <1>2, <1>5, <3>1 DEF Selects
    <3>7. k # i /\ ~(m[i] < m[k])
      BY <3>1, <3>2, <3>4
    <3>8. k < i
      BY <1>4, <3>1, <3>6, <3>7
    <3> QED BY <3>4, <3>5, <3>8
  <2> QED BY <2>1, <2>2, <2>3 DEF Embeds
<1>12. \A i \in Of(g, "workspace") : g[i].val => f[m[i]].val
  BY <1>8
<1> QED BY <1>6, <1>9, <1>11, <1>12, EmbeddingSound

\* Adding the header moves every line one place down.
LEMMA HeaderSound ==
    ASSUME NEW f, Sound(f)
    PROVE  Sound(EnsureHeader(f)) /\ Sound(HeaderIfEmpty(f))
           /\ EnsureHeader(f) # <<>> /\ EnsureHeader(f)[1].kind = "schema"
<1> PICK h : h = Schema(Latest)
  OBVIOUS
<1>0. h.kind = "schema" /\ h = Line(h.kind, h.key, h.val)
  BY LineFields DEF Schema
<1>1. Len(f) \in Nat /\ DOMAIN f = 1..Len(f) /\ AllLines(f) /\ f \in Seq(ToSet(f))
  BY FileShape DEF Sound, AllLines
<1> DEFINE S == ToSet(f) \cup {h}
<1>2. f \in Seq(S) /\ <<h>> \in Seq(S)
  BY <1>1, SeqMonotonic
<1> PICK n : n = Len(f)
  OBVIOUS
<1> PICK g : g = <<h>> \o f
  OBVIOUS
<1>3. /\ g \in Seq(ToSet(g)) /\ DOMAIN g = 1..(n + 1) /\ Len(g) = n + 1 /\ n \in Nat
      /\ g[1] = h /\ \A i \in 2..(n + 1) : g[i] = f[i - 1] /\ i - 1 \in DOMAIN f
  <2>1. /\ g \in Seq(S) /\ Len(g) = Len(<<h>>) + Len(f)
        /\ \A i \in 1..(Len(<<h>>) + Len(f)) :
              g[i] = IF i <= Len(<<h>>) THEN <<h>>[i] ELSE f[i - Len(<<h>>)]
    BY <1>2, ConcatProperties
  <2>2. Len(<<h>>) = 1 /\ <<h>>[1] = h
    OBVIOUS
  <2> HIDE DEF S
  <2>3. Len(g) = n + 1 /\ \A i \in 1..(1 + n) : g[i] = IF i <= 1 THEN <<h>>[i] ELSE f[i - 1]
    BY <1>1, <2>1, <2>2
  <2>4. g[1] = h /\ \A i \in 2..(n + 1) : g[i] = f[i - 1] /\ i - 1 \in DOMAIN f
    BY <1>1, <2>2, <2>3
  <2> QED BY <1>1, <2>1, <2>3, <2>4, OfItsElements
<1> DEFINE m == [i \in 1..(n + 1) |-> i - 1]
<1>4. \A i \in DOMAIN g : g[i].kind # "schema" => i \in 2..(n + 1) /\ m[i] = i - 1 /\ g[i] = f[i - 1] /\ i - 1 \in DOMAIN f
  BY <1>0, <1>3
<1>5. AllLines(g)
  <2>1. \A i \in DOMAIN g : i = 1 \/ i \in 2..(n + 1)
    BY <1>3
  <2>2. \A i \in DOMAIN g : g[i] = Line(g[i].kind, g[i].key, g[i].val)
    BY <1>0, <1>1, <1>3, <2>1 DEF AllLines
  <2>3. \A k : k # "schema" => \A i \in Of(g, k) : g[i] = f[i - 1] /\ i - 1 \in Of(f, k)
    BY <1>4 DEF Of
  <2>4. \A i \in Of(g, "session") : g[i].key \in Nat
    BY <1>1, <2>3 DEF AllLines
  <2>5. \A i \in Of(g, "workspace") : g[i].val \in BOOLEAN
    BY <1>1, <2>3 DEF AllLines
  <2> QED BY <1>3, <2>2, <2>4, <2>5 DEF AllLines
<1>6. \A i \in RecordsOf(g) : i \in 2..(n + 1) /\ m[i] = i - 1 /\ g[i] = f[i - 1] /\ i - 1 \in DOMAIN f
  BY <1>4 DEF RecordsOf, Records
<1>7. Embeds(g, f, m)
  <2>1. \A i \in RecordsOf(g) :
          m[i] \in DOMAIN f /\ g[i].kind = f[m[i]].kind /\ g[i].key = f[m[i]].key
    BY <1>6
  <2>2. \A i, j \in RecordsOf(g) : i < j => m[i] < m[j]
    BY <1>6
  <2>3. ASSUME NEW i \in RecordsOf(g), NEW j \in 1..(m[i] - 1), f[j].kind \in {"session", "workspace"}
        PROVE  \E k \in RecordsOf(g) : k < i /\ m[k] = j
    <3>1. i \in 2..(n + 1) /\ m[i] = i - 1
      BY <1>6
    <3>2. j + 1 \in 1..(n + 1) /\ j + 1 \in 2..(n + 1) /\ j + 1 < i /\ (j + 1) - 1 = j
      BY <1>3, <2>3, <3>1
    <3>3. m[j + 1] = j /\ g[j + 1] = f[j]
      BY <1>3, <3>2
    <3>4. j + 1 \in RecordsOf(g)
      BY <1>3, <2>3, <3>2, <3>3 DEF RecordsOf, Records
    <3> QED BY <3>2, <3>3, <3>4
  <2> HIDE DEF m
  <2> QED BY <2>1, <2>2, <2>3 DEF Embeds
<1>8. \A i \in Of(g, "workspace") : g[i].val => f[m[i]].val
  BY <1>6 DEF Of, RecordsOf, Records
<1> HIDE DEF m
<1>9. Sound(g)
  BY <1>5, <1>7, <1>8, EmbeddingSound
<1>10. EnsureHeader(f) = IF f = <<>> \/ f[1].kind # "schema" THEN g ELSE f
  BY DEF EnsureHeader
<1>11. g # <<>> /\ g[1].kind = "schema"
  BY <1>0, <1>3, EmptySeq
<1>12. Sound(EnsureHeader(f)) /\ EnsureHeader(f) # <<>> /\ EnsureHeader(f)[1].kind = "schema"
  BY <1>9, <1>10, <1>11
<1> QED BY <1>12 DEF HeaderIfEmpty

\* A line added at the end, when what it needs is there.
LEMMA AppendSound ==
    ASSUME NEW f, Sound(f), NEW l, l = Line(l.kind, l.key, l.val),
           l.kind \in {"session", "device", "workspace", "filter"} => l.key \notin Keys(f, l.kind),
           l.kind = "session" => l.key \in Nat,
           l.kind = "detail" => l.key \in Keys(f, "session"),
           l.kind = "scan" => l.key \in Keys(f, "workspace"),
           l.kind = "workspace" =>
               l.val = FALSE /\ \E c \in Limits : ~NoRoom(f, c)
    PROVE  Sound(Append(f, l))
<1>1. Len(f) \in Nat /\ DOMAIN f = 1..Len(f) /\ AllLines(f) /\ f \in Seq(ToSet(f))
  BY FileShape DEF Sound, AllLines
<1> PICK n : n = Len(f)
  OBVIOUS
<1> PICK g : g = Append(f, l)
  OBVIOUS
<1> DEFINE S == ToSet(f) \cup {l}
<1>2. f \in Seq(S) /\ l \in S
  BY <1>1, SeqMonotonic
<1>3. /\ n \in Nat /\ DOMAIN f = 1..n /\ g \in Seq(ToSet(g)) /\ DOMAIN g = 1..(n + 1)
      /\ g[n + 1] = l /\ \A i \in 1..n : g[i] = f[i]
  <2>1. /\ g \in Seq(S) /\ Len(g) = Len(f) + 1
        /\ \A i \in 1..Len(f) : g[i] = f[i]
        /\ g[Len(f) + 1] = l
    BY <1>2, AppendProperties
  <2> QED BY <1>1, <2>1, OfItsElements
<1>4. \A i \in DOMAIN g : (i \in DOMAIN f /\ g[i] = f[i]) \/ (i = n + 1 /\ g[i] = l)
  BY <1>3
<1>5. \A i \in DOMAIN f : i \in DOMAIN g /\ g[i] = f[i] /\ i \in 1..n
  BY <1>3
<1>6. AllLines(g)
  <2>1. \A i \in DOMAIN g : g[i] = Line(g[i].kind, g[i].key, g[i].val)
    BY <1>1, <1>4 DEF AllLines
  <2>2. \A i \in Of(g, "session") : g[i].key \in Nat
    BY <1>1, <1>4 DEF AllLines, Of
  <2>3. \A i \in Of(g, "workspace") : g[i].val \in BOOLEAN
    BY <1>1, <1>4 DEF AllLines, Of
  <2> QED BY <1>3, <2>1, <2>2, <2>3 DEF AllLines
<1>7. NoneTwice(g)
  <2> SUFFICES ASSUME NEW i \in DOMAIN g, NEW j \in DOMAIN g,
                      g[i].kind \in {"session", "device", "workspace", "filter"},
                      Same(g[i], g[j])
               PROVE  i = j
    BY DEF NoneTwice
  <2>1. CASE i \in DOMAIN f /\ g[i] = f[i] /\ j \in DOMAIN f /\ g[j] = f[j]
    BY <2>1 DEF Sound, NoneTwice
  <2>2. CASE i \in DOMAIN f /\ g[i] = f[i] /\ g[j] = l
    BY <2>2 DEF Same, Keys, Of
  <2>3. CASE j \in DOMAIN f /\ g[j] = f[j] /\ g[i] = l
    BY <2>3 DEF Same, Keys, Of
  <2> QED BY <1>4, <2>1, <2>2, <2>3
<1>8. ASSUME NEW kind, NEW owner, Behind(f, kind, owner),
             l.kind = kind => l.key \in Keys(f, owner)
      PROVE  Behind(g, kind, owner)
  <2> SUFFICES ASSUME NEW i \in Of(g, kind)
               PROVE  \E j \in 1..(i - 1) : g[j].kind = owner /\ g[j].key = g[i].key
    BY DEF Behind
  <2>1. CASE i \in DOMAIN f /\ g[i] = f[i]
    <3>1. PICK j \in 1..(i - 1) : f[j].kind = owner /\ f[j].key = f[i].key
      BY <1>8, <2>1 DEF Behind, Of
    <3>2. j \in 1..n
      BY <1>3, <2>1
    <3> QED BY <1>3, <2>1, <3>1, <3>2
  <2>2. CASE i = n + 1 /\ g[i] = l
    <3>1. PICK j \in DOMAIN f : f[j].kind = owner /\ f[j].key = l.key
      BY <1>8, <2>2 DEF Keys, Of
    <3>2. j \in 1..n /\ j \in 1..(i - 1)
      BY <1>3, <2>2
    <3> QED BY <1>3, <2>2, <3>1, <3>2
  <2> QED BY <1>4, <2>1, <2>2 DEF Of
<1>9. Behind(g, "detail", "session") /\ Behind(g, "scan", "workspace")
  BY <1>8 DEF Sound
<1>10. OneActive(g)
  <2> SUFFICES ASSUME NEW i \in Of(g, "workspace"), NEW j \in Of(g, "workspace"),
                      g[i].val, g[j].val
               PROVE  i = j
    BY DEF OneActive
  <2>1. i \in DOMAIN f /\ g[i] = f[i] /\ j \in DOMAIN f /\ g[j] = f[j]
    BY <1>4 DEF Of
  <2> QED BY <2>1 DEF Sound, OneActive, Of
<1>11. WithinLimit(g)
  <2> DEFINE W == Of(f, "workspace")
  <2>1. CASE l.kind = "workspace"
    <3>1. PICK c \in Limits : ~NoRoom(f, c)
      BY <2>1
    <3>2. c \in Nat
      BY CommandsAssumption DEF Limits
    <3>3. IsFiniteSet(W) /\ Cardinality(W) \in Nat
      BY <1>1, WorkspacesFinite
    <3>4. n + 1 \notin W
      BY <1>3 DEF Of
    <3>5. Of(g, "workspace") = W \cup {n + 1}
      <4>1. \A i \in Of(g, "workspace") : i \in W \cup {n + 1}
        BY <1>4 DEF Of
      <4>2. \A i \in W : i \in Of(g, "workspace")
        BY <1>5 DEF Of
      <4>3. n + 1 \in Of(g, "workspace")
        BY <1>3, <2>1 DEF Of
      <4> QED BY <4>1, <4>2, <4>3
    <3>6. Cardinality(Of(g, "workspace")) = Cardinality(W) + 1
      BY <3>3, <3>4, <3>5, FS_AddElement
    <3>7. Cardinality(Of(g, "workspace")) <= c
      BY <3>1, <3>2, <3>3, <3>6 DEF NoRoom
    <3> QED BY <3>7 DEF WithinLimit
  <2>2. CASE l.kind # "workspace"
    <3>1. Of(g, "workspace") = W
      BY <1>4, <1>5, <2>2 DEF Of
    <3> QED BY <3>1 DEF Sound, WithinLimit
  <2> QED BY <2>1, <2>2
<1> QED BY <1>6, <1>7, <1>9, <1>10, <1>11 DEF Sound

\* A line with a key of its own kind replaces the one there or is added.
LEMMA PutSound ==
    ASSUME NEW f, Sound(f), NEW l, l = Line(l.kind, l.key, l.val),
           l.kind \in {"device", "workspace", "filter"},
           l.kind = "workspace" =>
               /\ l.val = FALSE
               /\ l.key \notin Keys(f, "workspace") => \E c \in Limits : ~NoRoom(f, c)
    PROVE  Sound(Put(f, l))
<1>1. CASE \E i \in DOMAIN f : Same(f[i], l)
  <2> PICK g : g = Put(f, l)
    OBVIOUS
  <2>1. g = [i \in DOMAIN f |-> IF Same(f[i], l) THEN l ELSE f[i]]
    BY <1>1 DEF Put, Edit
  <2>2. \A i \in DOMAIN f : (Same(f[i], l) /\ g[i] = l) \/ g[i] = f[i]
    BY <2>1
  <2>3. g = [i \in DOMAIN f |-> g[i]] /\ DOMAIN g = DOMAIN f
    BY <2>1
  <2>4. \A i \in DOMAIN f : g[i] = Line(g[i].kind, g[i].key, g[i].val)
    BY <2>2 DEF Sound, AllLines
  <2>5. \A i \in DOMAIN f : g[i].kind = f[i].kind /\ g[i].key = f[i].key
    BY <2>2 DEF Same
  <2>6. \A i \in DOMAIN f : f[i].kind = "workspace" => g[i].val \in BOOLEAN
    BY <2>2 DEF Same, Sound, AllLines, Of
  <2>7. \A i \in Of(g, "workspace") : g[i].val => f[i].val
    BY <2>2, <2>3 DEF Same, Of
  <2>8. Sound(g)
    BY <2>3, <2>4, <2>5, <2>6, <2>7, InPlace
  <2> QED BY <2>8
<1>2. CASE ~ \E i \in DOMAIN f : Same(f[i], l)
  <2>1. l.key \notin Keys(f, l.kind)
    BY <1>2 DEF Keys, Of, Same
  <2>2. Sound(Append(f, l))
    BY <2>1, AppendSound
  <2> QED BY <1>2, <2>2 DEF Put
<1> QED BY <1>1, <1>2

\* A migration rewrites the header line alone.
LEMMA MigratedSound ==
    ASSUME NEW f, Sound(f), NEW target
    PROVE  Sound(Migrated(f, target))
<1> PICK e : e = EnsureHeader(f)
  OBVIOUS
<1>1. Sound(e) /\ e # <<>> /\ e[1].kind = "schema"
  BY HeaderSound
<1>2. ASSUME NEW v PROVE Sound([e EXCEPT ![1] = Schema(v)])
  <2> PICK l : l = Schema(v)
    OBVIOUS
  <2>1. l = Line(l.kind, l.key, l.val) /\ l.kind = "schema"
    BY LineFields DEF Schema
  <2> PICK g : g = [e EXCEPT ![1] = l]
    OBVIOUS
  <2>2. g = [i \in DOMAIN e |-> g[i]] /\ DOMAIN g = DOMAIN e
    OBVIOUS
  <2>3. \A i \in DOMAIN e : (i = 1 /\ g[i] = l) \/ g[i] = e[i]
    OBVIOUS
  <2>4. \A i \in DOMAIN e : e[i] = Line(e[i].kind, e[i].key, e[i].val)
    BY <1>1 DEF Sound, AllLines
  <2>5. \A i \in DOMAIN e : g[i] = Line(g[i].kind, g[i].key, g[i].val) /\ g[i].kind = e[i].kind
    BY <1>1, <2>1, <2>3, <2>4
  <2>6. \A i \in DOMAIN e : e[i].kind # "schema" => g[i] = e[i]
    BY <1>1, <2>3
  <2>7. \A i \in DOMAIN e : e[i].kind = "workspace" => g[i].val \in BOOLEAN
    BY <1>1, <2>6 DEF Sound, AllLines, Of
  <2>8. \A i \in Of(g, "workspace") : g[i].val => e[i].val
    BY <2>2, <2>5, <2>6 DEF Of
  <2>9. \A i \in DOMAIN e : e[i].kind \in Records => g[i].key = e[i].key
    BY <2>6 DEF Records
  <2>10. \A i \in DOMAIN e :
            /\ g[i] = Line(g[i].kind, g[i].key, g[i].val) /\ g[i].kind = e[i].kind
            /\ e[i].kind \in Records => g[i].key = e[i].key
            /\ e[i].kind = "workspace" => g[i].val \in BOOLEAN
    BY <2>5, <2>7, <2>9
  <2>11. g = [i \in DOMAIN e |-> g[i]] /\ Sound(e)
    BY <1>1, <2>2
  <2>12. Sound(g)
    BY ONLY <2>8, <2>10, <2>11, InPlace
  <2> QED BY <2>12
<1> QED BY <1>1, <1>2 DEF Migrated

\* Among finitely many numbers one is the largest.
LEMMA Largest ==
    ASSUME NEW I, IsFiniteSet(I), I # {}, NEW k \in [I -> Nat]
    PROVE  \E i \in I : \A j \in I : k[j] <= k[i]
<1> DEFINE Tops(B) == {i \in B : \A j \in B : k[j] <= k[i]}
           Bad == {B \in SUBSET I : B # {} /\ Tops(B) = {}}
<1> SUFFICES ASSUME Tops(I) = {} PROVE FALSE
  OBVIOUS
<1>1. Bad \subseteq SUBSET I /\ Bad # {}
  <2>1. I \in Bad
    OBVIOUS
  <2> QED BY <2>1
<1>2. IsWellFoundedOn(StrictSubsetOrdering(I), SUBSET I)
  BY FS_StrictSubsetOrderingWellFounded, FS_FiniteSubsetsOfFinite
<1>3. PICK B \in Bad : \A C \in Bad : ~(<<C, B>> \in StrictSubsetOrdering(I))
  <2> HIDE DEF Bad
  <2> QED BY <1>1, <1>2, WFMin
<1>4. PICK x \in B : TRUE
  OBVIOUS
<1>5. B \ {x} \notin Bad
  <2>1. <<B \ {x}, B>> \in StrictSubsetOrdering(I)
    BY <1>4 DEF StrictSubsetOrdering
  <2> QED BY <1>3, <2>1
<1>6. \A i \in B : k[i] \in Nat
  OBVIOUS
<1>7. CASE B \ {x} = {}
  <2>1. x \in Tops(B)
    BY <1>4, <1>6, <1>7
  <2> QED BY <2>1
<1>8. CASE B \ {x} # {}
  <2>1. PICK y \in B \ {x} : \A j \in B \ {x} : k[j] <= k[y]
    BY <1>5, <1>8
  <2>2. y \in Tops(B) \/ x \in Tops(B)
    BY <1>4, <1>6, <2>1
  <2> QED BY <2>2
<1> QED BY <1>7, <1>8

\* The next session id is larger than that of every session.
LEMMA NextSessionIdFresh ==
    ASSUME NEW f, Sound(f)
    PROVE  /\ NextSessionId(f) \in Nat /\ NextSessionId(f) \notin Keys(f, "session")
           /\ \A m \in Keys(f, "session") : m < NextSessionId(f)
<1> DEFINE I == Of(f, "session")
           k == [i \in I |-> f[i].key]
           top(n) == n \in Keys(f, "session") /\ \A m \in Keys(f, "session") : m <= n
<1>1. \A n \in Keys(f, "session") : n \in Nat
  BY DEF Keys, Sound, AllLines
<1>2. CASE I = {}
  BY <1>2 DEF NextSessionId, Keys
<1>3. CASE I # {}
  <2>1. IsFiniteSet(I)
    <3>1. DOMAIN f = 1..Len(f) /\ Len(f) \in Nat
      BY FileShape DEF Sound
    <3>2. IsFiniteSet(1..Len(f)) /\ I \in SUBSET (1..Len(f))
      BY <3>1, FS_Interval DEF Of
    <3> QED BY <3>2, FS_Subset
  <2>2. k \in [I -> Nat]
    BY DEF Sound, AllLines
  <2>3. PICK i \in I : \A j \in I : k[j] <= k[i]
    <3> HIDE DEF I, k
    <3> QED BY <1>3, <2>1, <2>2, Largest
  <2>4. top(f[i].key)
    BY <2>3 DEF Keys
  <2> PICK n : n = CHOOSE a \in Keys(f, "session") : \A m \in Keys(f, "session") : m <= a
    OBVIOUS
  <2>5. n \in Keys(f, "session") /\ \A m \in Keys(f, "session") : m <= n
    BY <2>4
  <2>6. NextSessionId(f) = 1 + n
    BY <1>3 DEF NextSessionId
  <2>7. n \in Nat /\ ~(1 + n <= n)
    BY <1>1, <2>5
  <2>8. \A m \in Keys(f, "session") : m < 1 + n
    BY <1>1, <2>5, <2>7
  <2> QED BY <2>5, <2>6, <2>7, <2>8
<1> QED BY <1>2, <1>3

\* The two lines of a session go to the end, one behind the other.
LEMMA SessionAppended ==
    ASSUME NEW f, f \in Seq(ToSet(f)), NEW id
    PROVE  WithSession(f, id) = Append(Append(f, Line("session", id, "json")),
                                       Line("detail", id, "fields"))
<1> PICK a : a = Line("session", id, "json")
  OBVIOUS
<1> PICK b : b = Line("detail", id, "fields")
  OBVIOUS
<1> PICK g : g = Append(f, a)
  OBVIOUS
<1> DEFINE S == ToSet(f) \cup {a, b}
<1>1. f \in Seq(S) /\ a \in S /\ b \in S
  BY SeqMonotonic
<1>2. g = f \o <<a>> /\ g \in Seq(S)
  BY <1>1, AppendProperties, AppendIsConcat
<1>3. Append(g, b) = g \o <<b>>
  BY <1>1, <1>2, AppendIsConcat
<1>4. <<a>> \o <<b>> = <<a, b>>
  <2>1. <<a>> \in Seq(S) /\ <<a, b>> \in Seq(S)
    BY <1>1
  <2>2. Len(<<a>>) = 1 /\ <<a>>[1] = a /\ Len(<<a, b>>) = 2 /\ <<a, b>>[1] = a /\ <<a, b>>[2] = b
    OBVIOUS
  <2> HIDE DEF S
  <2> PICK t : t = <<a, b>>
    OBVIOUS
  <2> PICK u : u = <<a>>
    OBVIOUS
  <2> PICK s : s = Append(u, b)
    OBVIOUS
  <2>3. s \in Seq(S) /\ Len(s) = 2 /\ s[1] = a /\ s[2] = b
    <3>1. /\ s \in Seq(S) /\ Len(s) = Len(u) + 1
          /\ \A i \in 1..Len(u) : s[i] = u[i]
          /\ s[Len(u) + 1] = b
      BY <1>1, <2>1, AppendProperties
    <3> QED BY <2>2, <3>1
  <2>4. t \in Seq(S) /\ Len(t) = 2 /\ t[1] = a /\ t[2] = b
    BY <2>1, <2>2
  <2>5. \A i \in 1..2 : i = 1 \/ i = 2
    OBVIOUS
  <2>6. Len(s) = Len(t) /\ \A i \in 1..Len(s) : s[i] = t[i]
    BY <2>3, <2>4, <2>5
  <2>7. s = t
    BY ONLY <2>3, <2>4, <2>6, SeqEqual
  <2> QED BY <1>1, <2>1, <2>7, AppendIsConcat
<1>5. (f \o <<a>>) \o <<b>> = f \o (<<a>> \o <<b>>)
  <2>1. <<a>> \in Seq(S) /\ <<b>> \in Seq(S)
    BY <1>1
  <2> HIDE DEF S
  <2> QED BY <1>1, <2>1, ConcatAssociative
<1> QED BY <1>2, <1>3, <1>4, <1>5 DEF WithSession

\* A new session and its details go to the end.
LEMMA WithSessionSound ==
    ASSUME NEW f, Sound(f)
    PROVE  Sound(WithSession(f, NextSessionId(f)))
<1> PICK id : id = NextSessionId(f)
  OBVIOUS
<1> PICK a : a = Line("session", id, "json")
  OBVIOUS
<1> PICK b : b = Line("detail", id, "fields")
  OBVIOUS
<1>1. /\ a.kind = "session" /\ a.key = id /\ a = Line(a.kind, a.key, a.val)
      /\ b.kind = "detail" /\ b.key = id /\ b = Line(b.kind, b.key, b.val)
  BY LineFields
<1>2. id \in Nat /\ id \notin Keys(f, "session")
  BY NextSessionIdFresh
<1> PICK g : g = Append(f, a)
  OBVIOUS
<1>3. Sound(g)
  BY <1>1, <1>2, AppendSound
<1>4. id \in Keys(g, "session")
  <2>1. f \in Seq(ToSet(f) \cup {a}) /\ a \in ToSet(f) \cup {a}
    BY SeqMonotonic DEF Sound, AllLines
  <2>2. g[Len(f) + 1] = a /\ Len(g) = Len(f) + 1
    BY <2>1, AppendProperties
  <2>3. DOMAIN g = 1..Len(g) /\ Len(f) \in Nat
    BY <1>3, FileShape DEF Sound
  <2>4. Len(f) + 1 \in Of(g, "session")
    BY <1>1, <2>2, <2>3 DEF Of
  <2> QED BY <1>1, <2>2, <2>4 DEF Keys
<1>5. Sound(Append(g, b))
  BY <1>1, <1>3, <1>4, AppendSound
<1>6. WithSession(f, id) = Append(g, b)
  BY <1>3, SessionAppended DEF Sound, AllLines
<1> QED BY <1>5, <1>6

\* Hiding stale devices changes no record's key.
LEMMA HiddenSound ==
    ASSUME NEW f, Sound(f)
    PROVE  Sound(Edit(f, LAMBDA l : l.kind = "device" /\ l.val.stale,
                         LAMBDA l : [l EXCEPT !.val.hidden = TRUE]))
<1> PICK g : g = Edit(f, LAMBDA l : l.kind = "device" /\ l.val.stale,
                         LAMBDA l : [l EXCEPT !.val.hidden = TRUE])
  OBVIOUS
<1>1. g = [i \in DOMAIN f |-> IF f[i].kind = "device" /\ f[i].val.stale
                              THEN [f[i] EXCEPT !.val.hidden = TRUE] ELSE f[i]]
  BY DEF Edit
<1>2. g = [i \in DOMAIN f |-> g[i]] /\ DOMAIN g = DOMAIN f
  BY <1>1
<1>3. ASSUME NEW i \in DOMAIN f
      PROVE  /\ g[i] = Line(g[i].kind, g[i].key, g[i].val)
             /\ g[i].kind = f[i].kind /\ g[i].key = f[i].key
             /\ f[i].kind = "workspace" => g[i].val = f[i].val
  <2>1. f[i] = [kind |-> f[i].kind, key |-> f[i].key, val |-> f[i].val]
    BY DEF Sound, AllLines, Line
  <2>2. CASE f[i].kind = "device" /\ f[i].val.stale
    <3> PICK v : v = [f[i].val EXCEPT !.hidden = TRUE]
      OBVIOUS
    <3>1. g[i] = [f[i] EXCEPT !.val = v]
      BY <1>1, <2>2
    <3>2. g[i] = [kind |-> f[i].kind, key |-> f[i].key, val |-> v]
      BY <2>1, <3>1
    <3> QED BY <2>2, <3>2 DEF Line
  <2>3. CASE ~ (f[i].kind = "device" /\ f[i].val.stale)
    BY <1>1, <2>1, <2>3 DEF Line
  <2> QED BY <2>2, <2>3
<1>4. \A i \in DOMAIN f : f[i].kind = "workspace" => g[i].val \in BOOLEAN
  BY <1>3 DEF Sound, AllLines, Of
<1>5. \A i \in Of(g, "workspace") : g[i].val => f[i].val
  BY <1>2, <1>3 DEF Of
<1>6. Sound(g)
  BY <1>2, <1>3, <1>4, <1>5, InPlace
<1> QED BY <1>6

\* Switching: keys are unique, so one workspace is active at most.
LEMMA SwitchedSound ==
    ASSUME NEW f, Sound(f), NEW w
    PROVE  Sound(Edit(f, LAMBDA l : l.kind = "workspace", LAMBDA l : Selected(l, w)))
<1> PICK g : g = Edit(f, LAMBDA l : l.kind = "workspace", LAMBDA l : Selected(l, w))
  OBVIOUS
<1>1. g = [i \in DOMAIN f |-> IF f[i].kind = "workspace" THEN Selected(f[i], w) ELSE f[i]]
  BY DEF Edit
<1>2. g = [i \in DOMAIN f |-> g[i]] /\ DOMAIN g = DOMAIN f
  BY <1>1
<1>3. ASSUME NEW i \in DOMAIN f
      PROVE  /\ g[i] = Line(g[i].kind, g[i].key, g[i].val)
             /\ g[i].kind = f[i].kind /\ g[i].key = f[i].key
             /\ f[i].kind = "workspace" => g[i].val = (f[i].key = w)
  <2>1. f[i] = [kind |-> f[i].kind, key |-> f[i].key, val |-> f[i].val]
    BY DEF Sound, AllLines, Line
  <2>2. CASE f[i].kind = "workspace"
    <3>1. g[i] = [kind |-> f[i].kind, key |-> f[i].key, val |-> (f[i].key = w)]
      BY <1>1, <2>1, <2>2 DEF Selected
    <3> QED BY <2>2, <3>1 DEF Line
  <2>3. CASE f[i].kind # "workspace"
    BY <1>1, <2>1, <2>3 DEF Line
  <2> QED BY <2>2, <2>3
<1>4. \A i \in DOMAIN f : f[i].kind = "workspace" => g[i].val \in BOOLEAN
  BY <1>3
<1>5. /\ AllLines(g) /\ NoneTwice(g)
      /\ Behind(g, "detail", "session") /\ Behind(g, "scan", "workspace") /\ WithinLimit(g)
  BY <1>2, <1>3, <1>4, InPlace
<1>6. OneActive(g)
  <2> SUFFICES ASSUME NEW i \in Of(g, "workspace"), NEW j \in Of(g, "workspace"),
                      g[i].val, g[j].val
               PROVE  i = j
    BY DEF OneActive
  <2>1. i \in DOMAIN g /\ j \in DOMAIN g /\ g[i].kind = "workspace" /\ g[j].kind = "workspace"
    BY DEF Of
  <2>2. f[i].kind = "workspace" /\ f[j].kind = "workspace"
    BY <1>2, <1>3, <2>1
  <2>3. f[i].key = w /\ f[j].key = w
    BY <1>2, <1>3, <2>1, <2>2
  <2>4. Same(g[i], g[j])
    BY <1>2, <1>3, <2>1, <2>3 DEF Same
  <2> QED BY <1>5, <2>1, <2>4 DEF NoneTwice
<1>7. Sound(g)
  BY <1>5, <1>6 DEF Sound
<1> QED BY <1>7

\* A file that cannot be opened is read as an empty one.
LEMMA ViewsSound ==
    ASSUME Sound(file), NEW f \in Views
    PROVE  Sound(f)
BY EmptySound DEF Views

-----------------------------------------------------------------------------
(* The invariant: one command at a time, and both the file and the lines   *)
(* about to replace it are Sound.                                          *)

Tables ==
    /\ pc = [p \in Procs |-> pc[p]] /\ cmd = [p \in Procs |-> cmd[p]]
    /\ held = [p \in Procs |-> held[p]] /\ out = [p \in Procs |-> out[p]]
    /\ after = [p \in Procs |-> after[p]]

Alone == \A p, q \in Procs : pc[p] # "idle" /\ pc[q] # "idle" => p = q

\* What the place of a process says of its call and of the lines it carries.
Placed(p) ==
    /\ pc[p] # "idle" => cmd[p] \in Commands
    /\ pc[p] \in {"open", "flush"} => Sound(out[p])
    /\ pc[p] \in {"open", "flush"} /\ after[p] # "idle"
         => after[p] = "reread" /\ cmd[p].op = "save"
    /\ pc[p] = "migrate" => cmd[p].op = "save"
    /\ pc[p] = "reread" /\ cmd[p].op = "patch"
         => held[p] = Line("device", held[p].key, held[p].val)
    /\ pc[p] = "flush" => file = <<>>

IInv == Tables /\ Alone /\ Sound(file) /\ \A p \in Procs : Placed(p)

LEMMA InitInv == Init => IInv
BY StoredAssumption DEF Init, IInv, Tables, Alone, Placed

\* A running process goes somewhere, with lines to write and a record to carry.
LEMMA Moves ==
    ASSUME IInv, NEW p \in Procs, pc[p] # "idle", NEW to, NEW lines, NEW then, NEW h,
           pc' = [pc EXCEPT ![p] = to], out' = [out EXCEPT ![p] = lines],
           after' = [after EXCEPT ![p] = then], held' = [held EXCEPT ![p] = h],
           UNCHANGED <<file, cmd>>,
           to # "flush",
           to = "open" => Sound(lines) /\ (then # "idle" => then = "reread" /\ cmd[p].op = "save"),
           to = "migrate" => cmd[p].op = "save",
           to = "reread" /\ cmd[p].op = "patch" => h = Line("device", h.key, h.val)
    PROVE  IInv'
<1>1. Tables'
  BY DEF IInv, Tables
<1>2. \A q \in Procs : q # p => /\ pc'[q] = pc[q] /\ out'[q] = out[q]
                                /\ after'[q] = after[q] /\ held'[q] = held[q]
  BY DEF IInv, Tables
<1>3. pc'[p] = to /\ out'[p] = lines /\ after'[p] = then /\ held'[p] = h
  BY DEF IInv, Tables
<1>4. Alone'
  <2> SUFFICES ASSUME NEW q \in Procs, NEW r \in Procs, pc'[q] # "idle", pc'[r] # "idle"
               PROVE  q = r
    BY DEF Alone
  <2>1. pc[q] # "idle" /\ pc[r] # "idle"
    BY <1>2
  <2> QED BY <2>1 DEF IInv, Alone
<1>5. Sound(file)'
  BY DEF IInv
<1>6. ASSUME NEW q \in Procs PROVE Placed(q)'
  <2>1. CASE q = p
    <3>1. cmd[p] \in Commands
      BY DEF IInv, Placed
    <3> QED BY <1>3, <2>1, <3>1 DEF Placed
  <2>2. CASE q # p
    <3>1. Placed(q)
      BY DEF IInv
    <3> QED BY <1>2, <2>2, <3>1 DEF Placed
  <2> QED BY <2>1, <2>2
<1> QED BY <1>1, <1>4, <1>5, <1>6 DEF IInv

LEMMA Returns ==
    ASSUME IInv, NEW p \in Procs, pc[p] # "idle", Return(p), UNCHANGED <<file, cmd, held>>
    PROVE  IInv'
<1>1. out' = [out EXCEPT ![p] = out[p]] /\ after' = [after EXCEPT ![p] = after[p]]
      /\ held' = [held EXCEPT ![p] = held[p]] /\ pc' = [pc EXCEPT ![p] = "idle"]
      /\ UNCHANGED <<file, cmd>>
  BY DEF Return, IInv, Tables
<1> PICK o, a, h : o = out[p] /\ a = after[p] /\ h = held[p]
  OBVIOUS
<1> QED BY <1>1, Moves

LEMMA Rewrites ==
    ASSUME IInv, NEW p \in Procs, pc[p] # "idle", NEW lines, NEW then,
           Rewrite(p, lines, then), UNCHANGED <<file, cmd, held>>, Sound(lines),
           then # "idle" => then = "reread" /\ cmd[p].op = "save"
    PROVE  IInv'
<1> PICK h : h = held[p]
  OBVIOUS
<1>1. held' = [held EXCEPT ![p] = h]
  BY DEF IInv, Tables
<1> QED BY <1>1, Moves DEF Rewrite

LEMMA SavesKept ==
    ASSUME IInv, NEW p \in Procs, pc[p] # "idle", NEW f, Sound(f),
           Saves(p, f), UNCHANGED <<file, cmd>>
    PROVE  IInv'
<1> PICK lines, h : lines = WithSession(f, NextSessionId(f)) /\ h = Line("session", NextSessionId(f), "json")
  OBVIOUS
<1>1. Sound(lines)
  BY WithSessionSound
<1>2. /\ out' = [out EXCEPT ![p] = lines] /\ after' = [after EXCEPT ![p] = "idle"]
      /\ pc' = [pc EXCEPT ![p] = "open"] /\ held' = [held EXCEPT ![p] = h]
  BY DEF Saves, Rewrite
<1> QED BY <1>1, <1>2, Moves

LEMMA SaveScanSessionStep ==
    ASSUME IInv, NEW p \in Procs, SaveScanSession(p)
    PROVE  IInv'
<1>1. pc[p] # "idle" /\ cmd[p].op = "save" /\ Sound(file) /\ UNCHANGED <<file, cmd>>
  BY DEF SaveScanSession, Reads, IInv
<1> PICK f \in Views :
       LET lines == EnsureHeader(f)  target == cmd[p].target IN
         \/ /\ target \notin 1..Latest \/ Version(lines) > target
            /\ Return(p) /\ UNCHANGED held
         \/ /\ target \in 1..Latest /\ Version(lines) < target
            /\ pc' = [pc EXCEPT ![p] = "migrate"]
            /\ UNCHANGED <<held, out, after>>
         \/ Version(lines) = target /\ Saves(p, lines)
  BY DEF SaveScanSession
<1> PICK lines : lines = EnsureHeader(f)
  OBVIOUS
<1>2. Sound(lines)
  BY <1>1, ViewsSound, HeaderSound
<1>3. CASE Return(p) /\ UNCHANGED held
  BY <1>1, <1>3, Returns
<1>4. CASE pc' = [pc EXCEPT ![p] = "migrate"] /\ UNCHANGED <<held, out, after>>
  <2> PICK to, o, a, h : to = "migrate" /\ o = out[p] /\ a = after[p] /\ h = held[p]
    OBVIOUS
  <2>1. /\ pc' = [pc EXCEPT ![p] = to] /\ out' = [out EXCEPT ![p] = o]
        /\ after' = [after EXCEPT ![p] = a] /\ held' = [held EXCEPT ![p] = h]
    BY <1>4 DEF IInv, Tables
  <2>2. to # "flush" /\ to # "open" /\ to # "reread"
    OBVIOUS
  <2> QED BY <1>1, <2>1, <2>2, Moves
<1>5. CASE Saves(p, lines)
  BY <1>1, <1>2, <1>5, SavesKept
<1> QED BY <1>3, <1>4, <1>5

LEMMA MigrateSchemaStep ==
    ASSUME IInv, NEW p \in Procs, MigrateSchema(p)
    PROVE  IInv'
<1>1. pc[p] # "idle" /\ Sound(file) /\ UNCHANGED <<file, cmd, held>>
  BY DEF MigrateSchema, Reads, IInv
<1>2. pc[p] = "migrate" => cmd[p].op = "save"
  BY DEF IInv, Placed
<1> PICK f \in Views :
      IF Version(f) = 0 THEN Return(p)
      ELSE Rewrite(p, Migrated(f, cmd[p].target), IF pc[p] = "migrate" THEN "reread" ELSE "idle")
  BY DEF MigrateSchema
<1> PICK lines, then : lines = Migrated(f, cmd[p].target)
                       /\ then = IF pc[p] = "migrate" THEN "reread" ELSE "idle"
  OBVIOUS
<1>3. Sound(lines)
  <2> PICK target : target = cmd[p].target
    OBVIOUS
  <2> QED BY <1>1, ViewsSound, MigratedSound
<1>4. Return(p) \/ Rewrite(p, lines, then)
  OBVIOUS
<1> QED BY <1>1, <1>2, <1>3, <1>4, Returns, Rewrites

LEMMA SaveAfterMigrationStep ==
    ASSUME IInv, NEW p \in Procs, SaveAfterMigration(p)
    PROVE  IInv'
<1>1. pc[p] # "idle" /\ Sound(file) /\ UNCHANGED <<file, cmd>>
  BY DEF SaveAfterMigration, IInv
<1> PICK f \in Views : Saves(p, f)
  BY DEF SaveAfterMigration
<1> QED BY <1>1, ViewsSound, SavesKept

LEMMA UpsertInventoryStep ==
    ASSUME IInv, NEW p \in Procs, UpsertInventory(p)
    PROVE  IInv'
<1>1. pc[p] # "idle" /\ Sound(file) /\ UNCHANGED <<file, cmd, held>> /\ cmd[p] \in Commands
  BY DEF UpsertInventory, Reads, IInv, Placed
<1> PICK l : l = IF cmd[p].op = "upsert" THEN cmd[p].line ELSE held[p]
  OBVIOUS
<1>2. l = Line("device", l.key, l.val)
  <2>1. CASE cmd[p].op = "upsert"
    BY <1>1, <2>1, CommandsAssumption DEF Carries, Line
  <2>2. CASE cmd[p].op # "upsert"
    BY <2>2 DEF UpsertInventory, Reads, IInv, Placed
  <2> QED BY <2>1, <2>2
<1>3. l.kind = "device"
  BY <1>2, LineFields
<1> PICK f \in Views : Rewrite(p, Put(HeaderIfEmpty(f), l), "idle")
  BY DEF UpsertInventory
<1> PICK g, lines : g = HeaderIfEmpty(f) /\ lines = Put(g, l)
  OBVIOUS
<1>4. Sound(g)
  BY <1>1, ViewsSound, HeaderSound
<1>5. Sound(lines)
  BY <1>2, <1>3, <1>4, PutSound
<1> QED BY <1>1, <1>5, Rewrites

LEMMA PatchInventoryStep ==
    ASSUME IInv, NEW p \in Procs, PatchInventory(p)
    PROVE  IInv'
<1>1. pc[p] # "idle" /\ UNCHANGED <<file, cmd>>
  BY DEF PatchInventory, Reads
<1>2. CASE Return(p) /\ UNCHANGED held
  BY <1>1, <1>2, Returns
<1>3. CASE /\ pc' = [pc EXCEPT ![p] = "reread"]
           /\ \E key, val : held' = [held EXCEPT ![p] = Line("device", key, val)]
           /\ UNCHANGED <<out, after>>
  <2> PICK key, val : held' = [held EXCEPT ![p] = Line("device", key, val)]
    BY <1>3
  <2> PICK to, o, a, h : to = "reread" /\ o = out[p] /\ a = after[p] /\ h = Line("device", key, val)
    OBVIOUS
  <2>1. /\ pc' = [pc EXCEPT ![p] = to] /\ out' = [out EXCEPT ![p] = o]
        /\ after' = [after EXCEPT ![p] = a] /\ held' = [held EXCEPT ![p] = h]
    BY <1>3 DEF IInv, Tables
  <2>2. to # "flush" /\ to # "open" /\ to # "migrate" /\ h = Line("device", h.key, h.val)
    BY LineFields
  <2> QED BY <1>1, <2>1, <2>2, Moves
<1> QED BY <1>2, <1>3 DEF PatchInventory

LEMMA HideStaleStep ==
    ASSUME IInv, NEW p \in Procs, HideStale(p)
    PROVE  IInv'
<1>1. pc[p] # "idle" /\ Sound(file) /\ UNCHANGED <<file, cmd, held>>
  BY DEF HideStale, Reads, IInv
<1> PICK f \in Views :
      IF f = <<>> THEN Return(p)
      ELSE Rewrite(p, Edit(f, LAMBDA l : l.kind = "device" /\ l.val.stale,
                              LAMBDA l : [l EXCEPT !.val.hidden = TRUE]), "idle")
  BY DEF HideStale
<1> PICK lines : lines = Edit(f, LAMBDA l : l.kind = "device" /\ l.val.stale,
                                 LAMBDA l : [l EXCEPT !.val.hidden = TRUE])
  OBVIOUS
<1>2. Sound(lines)
  BY <1>1, ViewsSound, HiddenSound
<1>3. Return(p) \/ Rewrite(p, lines, "idle")
  OBVIOUS
<1> QED BY <1>1, <1>2, <1>3, Returns, Rewrites

\* Events and rollups are no records.
LEMMA AppendLogStep ==
    ASSUME IInv, NEW p \in Procs, AppendTimeline(p) \/ AppendRollup(p)
    PROVE  IInv'
<1>1. pc[p] # "idle" /\ Sound(file) /\ UNCHANGED <<file, cmd, held>> /\ cmd[p] \in Commands
  BY DEF AppendTimeline, AppendRollup, Reads, IInv, Placed
<1> PICK l : l = cmd[p].line
  OBVIOUS
<1>2. l = Line("event", l.key, l.val) \/ l = Line("rollup", l.key, l.val)
  BY <1>1, CommandsAssumption DEF AppendTimeline, AppendRollup, Reads, Carries
<1>3. l.kind \in {"event", "rollup"} /\ l = Line(l.kind, l.key, l.val)
  BY <1>2, LineFields
<1> PICK f \in Views : \/ Rewrite(p, Append(HeaderIfEmpty(f), l), "idle")
                       \/ Rewrite(p, Append(EnsureHeader(f), l), "idle")
  BY DEF AppendTimeline, AppendRollup
<1>4. \A g : Sound(g) => Sound(Append(g, l))
  BY <1>3, AppendSound
<1> PICK a, b : a = Append(HeaderIfEmpty(f), l) /\ b = Append(EnsureHeader(f), l)
  OBVIOUS
<1>5. Sound(a) /\ Sound(b)
  BY <1>1, <1>4, ViewsSound, HeaderSound
<1>6. Rewrite(p, a, "idle") \/ Rewrite(p, b, "idle")
  OBVIOUS
<1> QED BY <1>1, <1>5, <1>6, Rewrites

\* What expires is no record.
LEMMA RetainStep ==
    ASSUME IInv, NEW p \in Procs, RetainRollups(p) \/ RetainPresence(p)
    PROVE  IInv'
<1>1. pc[p] # "idle" /\ Sound(file) /\ UNCHANGED <<file, cmd, held>>
  BY DEF RetainRollups, RetainPresence, Reads, IInv
<1> DEFINE Keeps(e, S) == S \in SUBSET DOMAIN e /\ \A i \in DOMAIN e \ S : e[i].kind \notin Records
<1>2. \E f \in Views : \E S : /\ Keeps(EnsureHeader(f), S)
                              /\ Return(p) \/ Rewrite(p, At(EnsureHeader(f), S), "idle")
  <2>1. CASE RetainRollups(p)
    <3> PICK c : c = cmd[p]
      OBVIOUS
    <3> PICK f \in Views :
          \/ Return(p)
          \/ Rewrite(p, At(EnsureHeader(f), {i \in DOMAIN EnsureHeader(f) :
                                                ~ExpiredRollup(EnsureHeader(f)[i], c)}), "idle")
      BY <2>1 DEF RetainRollups, Drop
    <3> PICK S : S = {i \in DOMAIN EnsureHeader(f) : ~ExpiredRollup(EnsureHeader(f)[i], c)}
      OBVIOUS
    <3>1. Keeps(EnsureHeader(f), S)
      BY DEF ExpiredRollup, Records
    <3> QED BY <3>1
  <2>2. CASE RetainPresence(p)
    <3> PICK c : c = cmd[p]
      OBVIOUS
    <3> PICK f \in Views :
          \/ Return(p)
          \/ Rewrite(p, At(EnsureHeader(f), {i \in DOMAIN EnsureHeader(f) :
                                                ~ExpiredPresence(EnsureHeader(f)[i], c)}), "idle")
      BY <2>2 DEF RetainPresence, Drop
    <3> PICK S : S = {i \in DOMAIN EnsureHeader(f) : ~ExpiredPresence(EnsureHeader(f)[i], c)}
      OBVIOUS
    <3>1. Keeps(EnsureHeader(f), S)
      BY DEF ExpiredPresence, Appears, Records
    <3> QED BY <3>1
  <2> QED BY <2>1, <2>2
<1> PICK f \in Views : \E S : /\ Keeps(EnsureHeader(f), S)
                              /\ Return(p) \/ Rewrite(p, At(EnsureHeader(f), S), "idle")
  BY <1>2
<1> PICK S : /\ Keeps(EnsureHeader(f), S)
             /\ Return(p) \/ Rewrite(p, At(EnsureHeader(f), S), "idle")
  OBVIOUS
<1> PICK e, lines : e = EnsureHeader(f) /\ lines = At(e, S)
  OBVIOUS
<1>3. Sound(e)
  BY <1>1, ViewsSound, HeaderSound
<1>4. Sound(lines)
  BY <1>3, AtSound
<1>5. Return(p) \/ Rewrite(p, lines, "idle")
  OBVIOUS
<1> QED BY <1>1, <1>4, <1>5, Returns, Rewrites

LEMMA UpsertWorkspaceStep ==
    ASSUME IInv, NEW p \in Procs, UpsertWorkspace(p)
    PROVE  IInv'
<1>1. /\ pc[p] # "idle" /\ Sound(file) /\ UNCHANGED <<file, cmd, held>>
      /\ cmd[p] \in Commands /\ cmd[p].op = "workspace"
  BY DEF UpsertWorkspace, Reads, IInv, Placed
<1> PICK l, limit : l = cmd[p].line /\ limit = cmd[p].limit
  OBVIOUS
<1>2. l = Line("workspace", l.key, FALSE) /\ limit \in Limits
  BY <1>1, CommandsAssumption DEF Limits
<1> PICK f \in Views :
      IF l.key \notin Keys(HeaderIfEmpty(f), "workspace") /\ NoRoom(HeaderIfEmpty(f), limit)
      THEN Return(p)
      ELSE Rewrite(p, Put(HeaderIfEmpty(f), l), "idle")
  BY DEF UpsertWorkspace
<1> PICK g, lines : g = HeaderIfEmpty(f) /\ lines = Put(g, l)
  OBVIOUS
<1>3. Sound(g)
  BY <1>1, ViewsSound, HeaderSound
<1>4. CASE Return(p)
  BY <1>1, <1>4, Returns
<1>5. CASE (l.key \in Keys(g, "workspace") \/ ~NoRoom(g, limit)) /\ Rewrite(p, lines, "idle")
  <2>1. l = Line(l.kind, l.key, l.val) /\ l.kind = "workspace" /\ l.val = FALSE
    BY <1>2 DEF Line
  <2>2. l.key \notin Keys(g, "workspace") => \E c \in Limits : ~NoRoom(g, c)
    BY <1>2, <1>5
  <2>3. Sound(lines)
    BY <1>2, <1>3, <2>1, <2>2, PutSound
  <2> QED BY <1>1, <1>5, <2>3, Rewrites
<1> QED BY <1>4, <1>5

LEMMA SwitchWorkspaceStep ==
    ASSUME IInv, NEW p \in Procs, SwitchWorkspace(p)
    PROVE  IInv'
<1>1. pc[p] # "idle" /\ Sound(file) /\ UNCHANGED <<file, cmd, held>>
  BY DEF SwitchWorkspace, Reads, IInv
<1> PICK w : w = cmd[p].workspace
  OBVIOUS
<1> PICK lines, f :
      /\ f \in Views
      /\ lines = Edit(f, LAMBDA l : l.kind = "workspace", LAMBDA l : Selected(l, w))
      /\ Return(p) \/ Rewrite(p, lines, "idle")
  BY DEF SwitchWorkspace, Edit
<1>2. Sound(lines)
  BY <1>1, ViewsSound, SwitchedSound DEF Edit
<1> QED BY <1>1, <1>2, Returns, Rewrites

LEMMA AppendHistoryStep ==
    ASSUME IInv, NEW p \in Procs, AppendHistory(p)
    PROVE  IInv'
<1>1. /\ pc[p] # "idle" /\ Sound(file) /\ UNCHANGED <<file, cmd, held>>
      /\ cmd[p] \in Commands /\ cmd[p].op = "history"
  BY DEF AppendHistory, Reads, IInv, Placed
<1> PICK l : l = cmd[p].line
  OBVIOUS
<1>2. l = Line("scan", l.key, l.val)
  BY <1>1, CommandsAssumption DEF Carries
<1>3. l = Line(l.kind, l.key, l.val) /\ l.kind = "scan"
  BY <1>2, LineFields
<1> PICK f \in Views :
      IF l.key \notin Keys(HeaderIfEmpty(f), "workspace") THEN Return(p)
      ELSE Rewrite(p, Append(HeaderIfEmpty(f), l), "idle")
  BY DEF AppendHistory
<1> PICK g, lines : g = HeaderIfEmpty(f) /\ lines = Append(g, l)
  OBVIOUS
<1>4. Sound(g)
  BY <1>1, ViewsSound, HeaderSound
<1>5. CASE Return(p)
  BY <1>1, <1>5, Returns
<1>6. CASE l.key \in Keys(g, "workspace") /\ Rewrite(p, lines, "idle")
  <2>1. Sound(lines)
    BY <1>3, <1>4, <1>6, AppendSound
  <2> QED BY <1>1, <1>6, <2>1, Rewrites
<1> QED BY <1>5, <1>6

LEMMA SaveFilterStep ==
    ASSUME IInv, NEW p \in Procs, SaveFilter(p)
    PROVE  IInv'
<1>1. /\ pc[p] # "idle" /\ Sound(file) /\ UNCHANGED <<file, cmd, held>>
      /\ cmd[p] \in Commands /\ cmd[p].op = "filter"
  BY DEF SaveFilter, Reads, IInv, Placed
<1> PICK l : l = cmd[p].line
  OBVIOUS
<1>2. l = Line("filter", l.key, l.val)
  BY <1>1, CommandsAssumption DEF Carries
<1>3. l = Line(l.kind, l.key, l.val) /\ l.kind = "filter"
  BY <1>2, LineFields
<1> PICK f \in Views : Rewrite(p, Put(HeaderIfEmpty(f), l), "idle")
  BY DEF SaveFilter
<1> PICK g, lines : g = HeaderIfEmpty(f) /\ lines = Put(g, l)
  OBVIOUS
<1>4. Sound(g)
  BY <1>1, ViewsSound, HeaderSound
<1>5. Sound(lines)
  BY <1>3, <1>4, PutSound
<1> QED BY <1>1, <1>5, Rewrites

LEMMA StartStep ==
    ASSUME ~Overlap, IInv, NEW p \in Procs, NEW c \in Commands, Start(p, c)
    PROVE  IInv'
<1>1. Tables'
  BY DEF Start, IInv, Tables
<1>2. /\ \A q \in Procs : pc[q] = "idle"
      /\ \A q \in Procs : q # p => pc'[q] = "idle"
      /\ pc'[p] = "read" /\ cmd'[p] = c /\ UNCHANGED <<file, held, out, after>>
  BY DEF Start, IInv, Tables
<1>3. Alone'
  BY <1>2 DEF Alone
<1>4. \A q \in Procs : Placed(q)'
  BY <1>2 DEF Placed
<1> QED BY <1>1, <1>2, <1>3, <1>4 DEF IInv

\* The file changes hands or a process ends: the others are idle.
LEMMA EndsAlone ==
    ASSUME IInv, NEW p \in Procs, pc[p] # "idle", NEW to,
           pc' = [pc EXCEPT ![p] = to], UNCHANGED <<cmd, held, out, after>>,
           Sound(file'), to # "open",
           to = "flush" => file' = <<>> /\ pc[p] = "open",
           to = "migrate" => cmd[p].op = "save",
           to = "reread" => cmd[p].op # "patch"
    PROVE  IInv'
<1>1. Tables'
  BY DEF IInv, Tables
<1>2. \A q \in Procs : q # p => pc[q] = "idle" /\ pc'[q] = "idle"
  BY DEF IInv, Tables, Alone
<1>3. pc'[p] = to
  BY DEF IInv, Tables
<1>4. Alone'
  BY <1>2 DEF Alone
<1>5. ASSUME NEW q \in Procs PROVE Placed(q)'
  <2>1. CASE q = p
    <3>1. Placed(p)
      BY DEF IInv
    <3> QED BY <1>3, <2>1, <3>1 DEF Placed
  <2>2. CASE q # p
    BY <1>2, <2>2 DEF Placed
  <2> QED BY <2>1, <2>2
<1> QED BY <1>1, <1>4, <1>5 DEF IInv

\* Lines flushed into the empty file are the file.
LEMMA OverlaySound ==
    ASSUME file = <<>>, NEW lines, Sound(lines)
    PROVE  /\ Overlay(lines) = lines
           /\ \A n \in 0..Len(lines) : Sound(Overlay(SubSeq(lines, 1, n)))
<1>1. ASSUME NEW l, Sound(l) PROVE Overlay(l) = l
  <2>1. l \in Seq(ToSet(l)) /\ Len(l) \in Nat
    BY <1>1, FileShape DEF Sound, AllLines
  <2>2. Len(file) = 0
    BY EmptySeq
  <2> PICK m, n : m = Len(l) + 1 /\ n = Len(file)
    OBVIOUS
  <2>3. m \in Int /\ n \in Int /\ n < m
    BY <2>1, <2>2
  <2>4. SubSeq(file, m, n) = <<>>
    BY <2>3, SubSeqEmpty
  <2>5. l \o <<>> = l
    BY <2>1, ConcatEmptySeq
  <2> QED BY <2>4, <2>5 DEF Overlay
<1>2. ASSUME NEW n \in 0..Len(lines) PROVE Sound(Overlay(SubSeq(lines, 1, n)))
  <2> PICK l : l = SubSeq(lines, 1, n)
    OBVIOUS
  <2>1. Sound(l)
    BY PrefixSound
  <2> QED BY <1>1, <2>1
<1> QED BY <1>1, <1>2

LEMMA FileStep ==
    ASSUME IInv, NEW p \in Procs, OpenFile(p) \/ OpenFails(p) \/ Flush(p) \/ Crash(p)
    PROVE  IInv'
<1>1. Placed(p) /\ Sound(file)
  BY DEF IInv
<1>2. CASE OpenFile(p)
  <2> PICK to : to = "flush"
    OBVIOUS
  <2>1. /\ pc[p] = "open" /\ pc' = [pc EXCEPT ![p] = to] /\ UNCHANGED <<cmd, held, out, after>>
        /\ file' = <<>> /\ Sound(file')
    BY <1>2, EmptySound DEF OpenFile
  <2>2. to # "open" /\ to # "migrate" /\ to # "reread" /\ pc[p] # "idle"
    BY <2>1
  <2> QED BY <2>1, <2>2, EndsAlone
<1>3. ASSUME pc[p] \in {"open", "flush"}, Written(p), UNCHANGED <<cmd, held, out, after>>, Sound(file')
      PROVE  IInv'
  <2> PICK to : to = after[p]
    OBVIOUS
  <2>1. pc' = [pc EXCEPT ![p] = to] /\ pc[p] # "idle"
    BY <1>3 DEF Written
  <2>2. to = "idle" \/ (to = "reread" /\ cmd[p].op = "save")
    BY <1>1, <1>3 DEF Placed
  <2>3. /\ to # "open" /\ to # "flush" /\ to # "migrate"
        /\ to = "reread" => cmd[p].op # "patch"
    BY <2>2
  <2> QED BY <1>3, <2>1, <2>3, EndsAlone
<1>4. CASE OpenFails(p)
  BY <1>1, <1>3, <1>4 DEF OpenFails
<1>5. CASE Flush(p)
  <2> PICK lines : lines = out[p]
    OBVIOUS
  <2>1. pc[p] = "flush" /\ Sound(lines) /\ file = <<>>
    BY <1>1, <1>5 DEF Flush, Placed
  <2>2. file' = lines
    BY <1>5, <2>1, OverlaySound DEF Flush
  <2> QED BY <1>3, <1>5, <2>1, <2>2 DEF Flush
<1>6. CASE Crash(p)
  <2> PICK to : to = "idle"
    OBVIOUS
  <2>1. pc[p] # "idle" /\ pc' = [pc EXCEPT ![p] = to] /\ UNCHANGED <<cmd, held, out, after>>
    BY <1>6 DEF Crash
  <2>2. Sound(file')
    <3>1. CASE pc[p] = "flush"
      <4> PICK lines : lines = out[p]
        OBVIOUS
      <4>1. Sound(lines) /\ file = <<>>
        BY <1>1, <3>1 DEF Placed
      <4> PICK n \in 0..Len(lines) : file' = Overlay(SubSeq(lines, 1, n))
        BY <1>6, <3>1 DEF Crash
      <4> QED BY <4>1, OverlaySound
    <3>2. CASE pc[p] # "flush"
      BY <1>1, <1>6, <3>2 DEF Crash
    <3> QED BY <3>1, <3>2
  <2>3. to # "open" /\ to # "flush" /\ to # "migrate" /\ to # "reread"
    OBVIOUS
  <2> QED BY <2>1, <2>2, <2>3, EndsAlone
<1> QED BY <1>2, <1>4, <1>5, <1>6

LEMMA NextInv == ASSUME ~Overlap, IInv, [Next]_vars PROVE IInv'
<1>1. CASE UNCHANGED vars
  BY <1>1 DEF vars, IInv, Tables, Alone, Placed
<1>2. CASE Next
  <2> PICK p \in Procs : \/ \E c \in Commands : Start(p, c)
                         \/ Call(p)
                         \/ OpenFile(p) \/ OpenFails(p) \/ Flush(p) \/ Crash(p)
    BY <1>2 DEF Next
  <2>1. CASE \E c \in Commands : Start(p, c)
    BY <2>1, StartStep
  <2>2. CASE Call(p)
    <3> USE <2>2
    <3>1. CASE SaveScanSession(p) \/ MigrateSchema(p) \/ SaveAfterMigration(p)
      BY <3>1, SaveScanSessionStep, MigrateSchemaStep, SaveAfterMigrationStep
    <3>2. CASE UpsertInventory(p) \/ PatchInventory(p) \/ HideStale(p)
      BY <3>2, UpsertInventoryStep, PatchInventoryStep, HideStaleStep
    <3>3. CASE AppendTimeline(p) \/ AppendRollup(p) \/ RetainRollups(p) \/ RetainPresence(p)
      BY <3>3, AppendLogStep, RetainStep
    <3>4. CASE UpsertWorkspace(p) \/ SwitchWorkspace(p) \/ AppendHistory(p) \/ SaveFilter(p)
      BY <3>4, UpsertWorkspaceStep, SwitchWorkspaceStep, AppendHistoryStep, SaveFilterStep
    <3> QED BY <3>1, <3>2, <3>3, <3>4 DEF Call
  <2>3. CASE OpenFile(p) \/ OpenFails(p) \/ Flush(p) \/ Crash(p)
    BY <2>3, FileStep
  <2> QED BY <2>1, <2>2, <2>3
<1> QED BY <1>1, <1>2

-----------------------------------------------------------------------------
(* The theorems.  They hold of one command at a time; the run of           *)
(* StorageOverlap.cfg shows that two at a time lose a session.             *)

\* Whatever the crashes and the files that could not be opened, the file is
\* always one whose lines stand behind what they belong to, each record once.
THEOREM StorageInv == ASSUME ~Overlap PROVE Spec => []IInv
BY InitInv, NextInv, PTL DEF Spec

\* No two sessions get the same id, no device, workspace or filter is listed
\* twice: storage.cpp's next id and its replace-or-append loops.
THEOREM RecordsStayUnique == ASSUME ~Overlap PROVE Spec => []RecordsUnique
<1>1. IInv => RecordsUnique
  BY DEF IInv, Sound, RecordsUnique
<1> QED BY <1>1, StorageInv, PTL

\* A file cut short anywhere still has the session of every probe line in it.
THEOREM DetailsHaveSessions == ASSUME ~Overlap PROVE Spec => []DetailsFollowSession
<1>1. IInv => DetailsFollowSession
  BY DEF IInv, Sound, DetailsFollowSession
<1> QED BY <1>1, StorageInv, PTL

\* The history of a workspace never outlives it.
THEOREM HistoryStaysOwned == ASSUME ~Overlap PROVE Spec => []HistoryHasWorkspace
<1>1. IInv => HistoryHasWorkspace
  <2> SUFFICES ASSUME IInv, NEW i \in Of(file, "scan")
               PROVE  file[i].key \in Keys(file, "workspace")
    BY DEF HistoryHasWorkspace, Keys
  <2>1. DOMAIN file = 1..Len(file) /\ Len(file) \in Nat
    BY FileShape DEF IInv, Sound
  <2>2. PICK j \in 1..(i - 1) : file[j].kind = "workspace" /\ file[j].key = file[i].key
    BY DEF IInv, Sound, Behind
  <2>3. j \in DOMAIN file
    BY <2>1, <2>2 DEF Of
  <2> QED BY <2>2, <2>3 DEF Keys, Of
<1> QED BY <1>1, StorageInv, PTL

\* One workspace is active at most, whatever is switched and cut.
THEOREM OneWorkspaceActive == ASSUME ~Overlap PROVE Spec => []OneActiveWorkspace
<1>1. IInv => OneActiveWorkspace
  BY DEF IInv, Sound, OneActiveWorkspace
<1> QED BY <1>1, StorageInv, PTL

\* The number of workspaces stays within the largest limit in use.
THEOREM WorkspacesWithinLimit == ASSUME ~Overlap PROVE Spec => []WorkspaceLimitKept
<1>1. IInv => WorkspaceLimitKept
  BY DEF IInv, Sound, WorkspaceLimitKept
<1> QED BY <1>1, StorageInv, PTL

=============================================================================
