--------------------------- MODULE FatVolumeProofs ---------------------------
(***************************************************************************)
(* TLAPS proofs about FatVolume, where MCFatFile composes it with FatFile, *)
(* for every number of clusters, every size of the sectors of the FAT and  *)
(* of directories, and any number of calls.                                *)
(***************************************************************************)
EXTENDS MCFatFile, FiniteSetTheorems, WellFoundedInduction, TLAPS

-----------------------------------------------------------------------------
(* Sequences of accesses.                                                  *)

\* A set of numbers has a least one.
LEMMA LeastNumber ==
  ASSUME NEW T \in SUBSET Nat, T # {}
  PROVE  \E p \in T : \A q \in T : p <= q
<1> DEFINE R == {ss \in Nat \X Nat : ss[1] < ss[2]}
<1>1. IsWellFoundedOn(R, Nat)
  BY NatLessThanWellFounded, Zenon DEF OpToRel
<1> HIDE DEF R
<1>2. PICK p \in T : \A q \in T : ~ (<<q, p>> \in R)
  BY <1>1, WFMin, Zenon
<1>3. ASSUME NEW q \in T PROVE p <= q
  <2>1. <<q, p>> \notin R /\ p \in Nat /\ q \in Nat
    BY <1>2
  <2>2. ~ (q < p)
    BY <2>1 DEF R
  <2> QED
    BY <2>1, <2>2
<1> QED
  BY <1>3, Zenon

\* The sizes.
LEMMA VolumeConstants ==
  /\ Entries \in Nat /\ Entries > 2 /\ PerFat \in Nat /\ PerFat > 0 /\ PerDir \in Nat /\ PerDir > 0
  /\ Volume!Clusters = 2 .. Entries - 1 /\ Volume!EOC = Entries /\ Volume!EOC \notin Volume!Clusters
  /\ Volume!EOC \in Nat /\ Volume!EOC # 0 /\ Volume!dirbase \in Volume!Clusters
  /\ 0 \notin Volume!Clusters /\ Volume!Clusters \subseteq Nat
BY VolumeAssumption DEF Volume!ConstantsOK, Volume!Clusters, Volume!EOC, Volume!dirbase

\* A sequence.
IsSeq(s) == \E S : s \in Seq(S)

\* What two sequences make.
LEMMA Joined ==
  ASSUME NEW s, NEW t, IsSeq(s), IsSeq(t)
  PROVE  /\ IsSeq(s \o t) /\ Len(s) \in Nat /\ Len(t) \in Nat /\ Len(s \o t) = Len(s) + Len(t)
         /\ DOMAIN s = 1 .. Len(s) /\ DOMAIN t = 1 .. Len(t)
         /\ DOMAIN (s \o t) = 1 .. Len(s) + Len(t)
         /\ \A i \in 1 .. Len(s) : (s \o t)[i] = s[i]
         /\ \A i \in 1 .. Len(t) : (s \o t)[Len(s) + i] = t[i]
<1>1. PICK S : s \in Seq(S)
  BY DEF IsSeq
<1>2. PICK T : t \in Seq(T)
  BY DEF IsSeq
<1> DEFINE U == S \cup T
<1>3. s \in Seq(U) /\ t \in Seq(U)
  BY <1>1, <1>2
<1>4. s \o t \in Seq(U)
  BY <1>3
<1> QED
  BY <1>3, <1>4 DEF IsSeq

\* A function on 1 .. n is a sequence.
LEMMA Listed ==
  ASSUME NEW n \in Nat, NEW s, s = [i \in 1 .. n |-> s[i]]
  PROVE  IsSeq(s) /\ Len(s) = n
<1> DEFINE S == {s[i] : i \in 1 .. n}
<1>1. s \in [1 .. n -> S]
  OBVIOUS
<1>2. s \in Seq(S) /\ Len(s) = n
  BY <1>1
<1> QED
  BY <1>2 DEF IsSeq

\* The first position.
LEMMA FirstIs ==
  ASSUME NEW n \in Nat, NEW S \in SUBSET (1 .. n)
  PROVE  /\ Volume!First(S) \in 0 .. n
         /\ Volume!First(S) # 0 => Volume!First(S) \in S /\ \A i \in S : Volume!First(S) <= i
         /\ Volume!First(S) = 0 <=> S = {}
<1>1. CASE S = {}
  BY <1>1 DEF Volume!First
<1>2. CASE S # {}
  <2>1. S \in SUBSET Nat
    OBVIOUS
  <2>2. PICK k \in S : \A j \in S : k <= j
    BY <1>2, <2>1, LeastNumber
  <2>3. Volume!Min(S) \in S /\ \A j \in S : Volume!Min(S) <= j
    BY <2>2 DEF Volume!Min
  <2>4. PICK m \in S : m = Volume!Min(S) /\ \A j \in S : m <= j
    BY <2>3
  <2>5. Volume!First(S) = m
    BY <1>2, <2>4 DEF Volume!First
  <2>6. m \in 1 .. n /\ m # 0
    BY <2>4
  <2> QED
    BY <1>2, <2>4, <2>5, <2>6
<1> QED
  BY <1>1, <1>2

\* The clusters create_chain looks at.
LEMMA Scanned ==
  ASSUME NEW v, NEW c, NEW last, c = 0 \/ c \in Volume!Clusters
  PROVE  LET r == Volume!create_chain(v, c, last)
         IN r.new = 0 \/ r.new \in Volume!Clusters
<1> DEFINE from == IF c # 0 THEN c ELSE IF last \in Volume!Clusters THEN last ELSE 1
           scan == Volume!ScanFrom(from)
           k == Volume!First({i \in DOMAIN scan : Volume!get_fat(v, scan[i]) = 0})
<1>1. from \in Nat /\ from >= 1 /\ from < Entries
  BY VolumeConstants
<1>2. /\ scan = [i \in 1 .. Entries - 2 |-> scan[i]] /\ Entries - 2 \in Nat
      /\ \A i \in 1 .. Entries - 2 : scan[i] \in Volume!Clusters
  BY <1>1, VolumeConstants DEF Volume!ScanFrom
<1>3. IsSeq(scan) /\ Len(scan) = Entries - 2
  BY <1>2, Listed
<1>4. k \in 0 .. Entries - 2
  <2>1. {i \in DOMAIN scan : Volume!get_fat(v, scan[i]) = 0} \in SUBSET (1 .. Entries - 2)
    BY <1>2
  <2> QED
    BY <1>2, <2>1, FirstIs
<1>5. Volume!create_chain(v, c, last).new = IF k = 0 THEN 0 ELSE scan[k]
  BY DEF Volume!create_chain
<1> QED
  BY <1>2, <1>4, <1>5

-----------------------------------------------------------------------------
(* Chains.                                                                 *)

\* A chain or the beginning of one: used clusters, none twice, each but the first the link of
\* the one before.
IsChain(v, c, s) ==
  /\ s \in Seq(Volume!Clusters)
  /\ \A i \in 1 .. Len(s) : Volume!get_fat(v, s[i]) # 0
  /\ \A i, j \in 1 .. Len(s) : s[i] = s[j] => i = j
  /\ \A i \in 1 .. Len(s) : s[i] = IF i = 1 THEN c ELSE Volume!get_fat(v, s[i - 1])

\* The first pieces of a chain, as a function.
PiecesTo(f, v, c, k) ==
  /\ DOMAIN f = 0 .. k
  /\ f = [i \in 0 .. k |-> IF i = 0 THEN <<>> ELSE Volume!Longer(v, c, f[i - 1])]

\* The recursion defines a function.
LEMMA PiecesExist ==
  ASSUME NEW v, NEW c, NEW n \in Nat PROVE \E f : PiecesTo(f, v, c, n)
<1> SUFFICES ASSUME ~ \E f : PiecesTo(f, v, c, n) PROVE FALSE
  OBVIOUS
<1> DEFINE T == {k \in Nat : ~ \E f : PiecesTo(f, v, c, k)}
<1>1. T \in SUBSET Nat /\ T # {}
  OBVIOUS
<1>2. PICK k \in T : \A q \in T : k <= q
  BY <1>1, LeastNumber
<1>3. CASE k = 0
  <2> DEFINE g == [i \in 0 .. 0 |-> <<>>]
  <2>1. g = [i \in 0 .. 0 |-> IF i = 0 THEN <<>> ELSE Volume!Longer(v, c, g[i - 1])]
    OBVIOUS
  <2>2. PiecesTo(g, v, c, 0)
    BY <2>1 DEF PiecesTo
  <2> QED
    BY <1>2, <1>3, <2>2
<1>4. CASE k # 0
  <2>1. k \in Nat /\ k - 1 \in Nat /\ k - 1 \notin T
    BY <1>2, <1>4
  <2>2. PICK f : PiecesTo(f, v, c, k - 1)
    BY <2>1
  <2> DEFINE g == [i \in 0 .. k |-> IF i = k THEN Volume!Longer(v, c, f[k - 1]) ELSE f[i]]
  <2>3. ASSUME NEW i \in 0 .. k
        PROVE  g[i] = IF i = 0 THEN <<>> ELSE Volume!Longer(v, c, g[i - 1])
    <3>1. CASE i = k
      BY <1>4, <2>1, <3>1
    <3>2. CASE i # k
      <4>1. i \in 0 .. k - 1
        BY <2>1, <3>2
      <4>2. f[i] = IF i = 0 THEN <<>> ELSE Volume!Longer(v, c, f[i - 1])
        BY <2>2, <4>1 DEF PiecesTo
      <4>3. i # 0 => g[i - 1] = f[i - 1]
        BY <2>1, <4>1
      <4> QED
        BY <3>2, <4>2, <4>3
    <3> QED
      BY <3>1, <3>2
  <2>4. g = [i \in 0 .. k |-> g[i]] /\ DOMAIN g = 0 .. k
    OBVIOUS
  <2> HIDE DEF g
  <2>5. PiecesTo(g, v, c, k)
    BY <2>3, <2>4 DEF PiecesTo
  <2> QED
    BY <1>2, <2>5
<1> QED
  BY <1>3, <1>4

\* One more cluster keeps a chain a chain.
LEMMA LongerChain ==
  ASSUME NEW v, NEW c, NEW s, IsChain(v, c, s)
  PROVE  IsChain(v, c, Volume!Longer(v, c, s))
<1> DEFINE next == IF s = <<>> THEN c ELSE Volume!get_fat(v, s[Len(s)])
<1>1. s \in Seq(Volume!Clusters) /\ Len(s) \in Nat
  BY DEF IsChain
<1>2. CASE /\ next \in Volume!Clusters /\ Volume!get_fat(v, next) # 0
           /\ next \notin Volume!Range(s)
  <2>0. next \in Volume!Clusters /\ Append(s, next) \in Seq(Volume!Clusters)
    <3> HIDE DEF next
    <3> QED
      BY <1>1, <1>2
  <2>1. PICK t \in Seq(Volume!Clusters) : t = Append(s, next)
    BY <2>0
  <2>2. Volume!Longer(v, c, s) = t
    BY <1>2, <2>1 DEF Volume!Longer, Volume!LongerBy, Volume!Behind
  <2>3. /\ Len(t) = Len(s) + 1 /\ t[Len(s) + 1] = next
        /\ \A i \in 1 .. Len(s) : t[i] = s[i]
    BY <1>1, <1>2, <2>1
  <2>4. \A i \in 1 .. Len(s) : s[i] # next
    BY <1>1, <1>2 DEF Volume!Range
  <2>5. next = IF Len(s) + 1 = 1 THEN c ELSE Volume!get_fat(v, s[Len(s)])
    BY <1>1
  <2> HIDE DEF next
  <2>6. \A i \in 1 .. Len(t) : Volume!get_fat(v, t[i]) # 0
    BY <1>1, <1>2, <2>3 DEF IsChain
  <2>7. ASSUME NEW i \in 1 .. Len(t), NEW j \in 1 .. Len(t), t[i] = t[j] PROVE i = j
    <3>1. /\ (i \in 1 .. Len(s) /\ t[i] = s[i]) \/ (i = Len(s) + 1 /\ t[i] = next)
          /\ (j \in 1 .. Len(s) /\ t[j] = s[j]) \/ (j = Len(s) + 1 /\ t[j] = next)
      BY <1>1, <2>3
    <3> QED
      BY <2>4, <2>7, <3>1 DEF IsChain
  <2>8. ASSUME NEW i \in 1 .. Len(t)
        PROVE  t[i] = IF i = 1 THEN c ELSE Volume!get_fat(v, t[i - 1])
    <3>1. CASE i = Len(s) + 1
      BY <1>1, <2>3, <2>5, <3>1
    <3>2. CASE i # Len(s) + 1
      <4>1. i \in 1 .. Len(s) /\ (i # 1 => i - 1 \in 1 .. Len(s))
        BY <1>1, <2>3, <3>2
      <4> QED
        BY <2>3, <4>1 DEF IsChain
    <3> QED
      BY <3>1, <3>2
  <2> QED
    BY <2>1, <2>2, <2>6, <2>7, <2>8 DEF IsChain
<1>3. CASE ~ (/\ next \in Volume!Clusters /\ Volume!get_fat(v, next) # 0
              /\ next \notin Volume!Range(s))
  BY <1>3 DEF Volume!Longer, Volume!LongerBy, Volume!Behind
<1> QED
  BY <1>2, <1>3

\* What Chain finds is a chain.
LEMMA ChainIs ==
  ASSUME NEW v, NEW c PROVE IsChain(v, c, Volume!Chain(v, c))
<1> DEFINE n == Entries - 2
<1>1. n \in Nat
  BY VolumeConstants
<1>2. PICK f : PiecesTo(f, v, c, n)
  BY <1>1, PiecesExist
<1> DEFINE g == CHOOSE g :
             g = [i \in 0 .. n |-> IF i = 0 THEN <<>> ELSE Volume!Longer(v, c, g[i - 1])]
<1>3. Volume!Chain(v, c) = g[n]
  BY DEF Volume!Chain
<1>4. g = [i \in 0 .. n |-> IF i = 0 THEN <<>> ELSE Volume!Longer(v, c, g[i - 1])]
  BY <1>2 DEF PiecesTo
<1> HIDE DEF g
<1>5. \A i \in 0 .. n : g[i] = IF i = 0 THEN <<>> ELSE Volume!Longer(v, c, g[i - 1])
  BY <1>4
<1>6. ASSUME ~ IsChain(v, c, g[n]) PROVE FALSE
  <2> DEFINE T == {i \in 0 .. n : ~ IsChain(v, c, g[i])}
  <2>1. T \in SUBSET Nat /\ T # {}
    BY <1>1, <1>6
  <2>2. PICK k \in T : \A j \in T : k <= j
    BY <2>1, LeastNumber
  <2>3. k \in 0 .. n /\ ~ IsChain(v, c, g[k])
    BY <2>2
  <2>4. CASE k = 0
    <3>1. g[k] = <<>>
      BY <1>5, <2>3, <2>4
    <3> QED
      BY <2>3, <3>1 DEF IsChain
  <2>5. CASE k # 0
    <3>1. k - 1 \in 0 .. n /\ k - 1 \notin T
      BY <1>1, <2>2, <2>3, <2>5
    <3>2. IsChain(v, c, g[k - 1])
      BY <3>1
    <3>3. g[k] = Volume!Longer(v, c, g[k - 1])
      BY <1>5, <2>3, <2>5
    <3> QED
      BY <2>3, <3>2, <3>3, LongerChain
  <2> QED
    BY <2>4, <2>5
<1> QED
  BY <1>3, <1>6

-----------------------------------------------------------------------------
(* Accesses.                                                               *)

\* Accesses that change nothing but the window and what is counted; that set a FAT entry; that
\* set or fill a sector of a cluster.
Harmless(a) == a.do \in {"read", "flush", "fsinfo", "last"}
OnFat(a) ==
  /\ a.do = "set" /\ a.cell \in Volume!Clusters /\ a.val \in Nat
  /\ a.at = Volume!FatSect(a.cell)
OnTable(a) == a.do \in {"set", "new", "data"} /\ \E x : a.at = Volume!ClustSect(x)
Frees(a) == OnFat(a) /\ a.val = 0
Uses(a) == OnFat(a) /\ a.val # 0

\* A sequence of accesses in which the window is flushed before it is used for another sector
\* without reading that.
Orderly(s) ==
  /\ IsSeq(s)
  /\ \A i \in 1 .. Len(s) :
       /\ Harmless(s[i]) \/ OnFat(s[i]) \/ OnTable(s[i])
       /\ s[i].do \in {"new", "fsinfo"} => i > 1 /\ s[i - 1].do = "flush"

\* One that frees no cluster.
Keeps(s) == Orderly(s) /\ \A i \in 1 .. Len(s) : ~ Frees(s[i])

\* One that frees clusters which are in use in v or by then, each once.
FreesOnce(s, v) ==
  \A i \in 1 .. Len(s) : Frees(s[i]) =>
    /\ \A j \in 1 .. Len(s) : Frees(s[j]) /\ s[j].cell = s[i].cell => i = j
    /\ \/ Volume!get_fat(v, s[i].cell) # 0
       \/ \E j \in 1 .. i - 1 : Uses(s[j]) /\ s[j].cell = s[i].cell
Plan(s, v) == Orderly(s) /\ FreesOnce(s, v)

\* An element of two sequences in a row is one of either.
LEMMA InJoined ==
  ASSUME NEW s, NEW t, IsSeq(s), IsSeq(t), NEW i \in 1 .. Len(s \o t)
  PROVE  \/ i \in 1 .. Len(s) /\ (s \o t)[i] = s[i]
         \/ \E k \in 1 .. Len(t) : i = Len(s) + k /\ (s \o t)[i] = t[k]
<1>1. /\ Len(s) \in Nat /\ Len(t) \in Nat /\ Len(s \o t) = Len(s) + Len(t)
      /\ \A k \in 1 .. Len(s) : (s \o t)[k] = s[k]
      /\ \A k \in 1 .. Len(t) : (s \o t)[Len(s) + k] = t[k]
  BY Joined
<1>2. CASE i <= Len(s)
  BY <1>1, <1>2
<1>3. CASE i > Len(s)
  <2>1. i - Len(s) \in 1 .. Len(t) /\ i = Len(s) + (i - Len(s))
    BY <1>1, <1>3
  <2> QED
    BY <1>1, <2>1
<1> QED
  BY <1>1, <1>2, <1>3

\* Orderly sequences in a row are orderly.
LEMMA OrderlyJoined ==
  ASSUME NEW s, NEW t, Orderly(s), Orderly(t)
  PROVE  Orderly(s \o t)
<1>1. /\ IsSeq(s) /\ IsSeq(t) /\ IsSeq(s \o t) /\ Len(s) \in Nat /\ Len(t) \in Nat
      /\ \A k \in 1 .. Len(s) : (s \o t)[k] = s[k]
      /\ \A k \in 1 .. Len(t) : (s \o t)[Len(s) + k] = t[k]
  BY Joined DEF Orderly
<1>2. ASSUME NEW i \in 1 .. Len(s \o t)
      PROVE  /\ Harmless((s \o t)[i]) \/ OnFat((s \o t)[i]) \/ OnTable((s \o t)[i])
             /\ (s \o t)[i].do \in {"new", "fsinfo"} => i > 1 /\ (s \o t)[i - 1].do = "flush"
  <2>1. CASE i \in 1 .. Len(s) /\ (s \o t)[i] = s[i]
    <3>1. i > 1 => (s \o t)[i - 1] = s[i - 1]
      BY <1>1, <2>1
    <3> QED
      BY <2>1, <3>1 DEF Orderly
  <2>2. CASE \E k \in 1 .. Len(t) : i = Len(s) + k /\ (s \o t)[i] = t[k]
    <3>0. PICK k \in 1 .. Len(t) : i = Len(s) + k /\ (s \o t)[i] = t[k]
      BY <2>2
    <3>1. k > 1 => k - 1 \in 1 .. Len(t) /\ i - 1 = Len(s) + (k - 1) /\ i > 1
      BY <1>1, <3>0
    <3>2. k > 1 => (s \o t)[i - 1] = t[k - 1] /\ i > 1
      BY <1>1, <3>1
    <3> QED
      BY <3>0, <3>2 DEF Orderly
  <2>3. \/ i \in 1 .. Len(s) /\ (s \o t)[i] = s[i]
        \/ \E k \in 1 .. Len(t) : i = Len(s) + k /\ (s \o t)[i] = t[k]
    BY <1>1, InJoined
  <2> QED
    BY <2>1, <2>2, <2>3
<1> QED
  BY <1>1, <1>2 DEF Orderly

\* Sequences that free nothing.
LEMMA KeepsJoined ==
  ASSUME NEW s, NEW t, Keeps(s), Keeps(t)
  PROVE  Keeps(s \o t)
<1>1. Orderly(s \o t) /\ IsSeq(s) /\ IsSeq(t)
  BY OrderlyJoined DEF Keeps, Orderly
<1> QED
  BY <1>1, InJoined DEF Keeps

\* Accesses that free nothing are a plan.
LEMMA KeepsIsPlan ==
  ASSUME NEW s, NEW v, Keeps(s) PROVE Plan(s, v)
BY DEF Keeps, Plan, FreesOnce

\* A plan may follow anything that frees nothing.
LEMMA PlanBehind ==
  ASSUME NEW s, NEW t, NEW v, Keeps(s), Plan(t, v)
  PROVE  Plan(s \o t, v)
<1>1. /\ IsSeq(s) /\ IsSeq(t) /\ Orderly(s \o t) /\ Len(s) \in Nat /\ Len(t) \in Nat
      /\ \A k \in 1 .. Len(t) : (s \o t)[Len(s) + k] = t[k]
  BY Joined, OrderlyJoined DEF Plan, Keeps, Orderly
<1>2. ASSUME NEW i \in 1 .. Len(s \o t), Frees((s \o t)[i])
      PROVE  \E k \in 1 .. Len(t) : i = Len(s) + k /\ (s \o t)[i] = t[k]
  BY <1>1, <1>2, InJoined DEF Keeps
<1>3. ASSUME NEW i \in 1 .. Len(s \o t), Frees((s \o t)[i])
      PROVE  /\ \A j \in 1 .. Len(s \o t) :
                  Frees((s \o t)[j]) /\ (s \o t)[j].cell = (s \o t)[i].cell => i = j
             /\ \/ Volume!get_fat(v, (s \o t)[i].cell) # 0
                \/ \E j \in 1 .. i - 1 : Uses((s \o t)[j]) /\ (s \o t)[j].cell = (s \o t)[i].cell
  <2>1. PICK k \in 1 .. Len(t) : i = Len(s) + k /\ (s \o t)[i] = t[k]
    BY <1>2, <1>3
  <2>2. ASSUME NEW j \in 1 .. Len(s \o t), Frees((s \o t)[j]), (s \o t)[j].cell = (s \o t)[i].cell
        PROVE  i = j
    <3>1. PICK q \in 1 .. Len(t) : j = Len(s) + q /\ (s \o t)[j] = t[q]
      BY <1>2, <2>2
    <3>2. k = q
      BY <1>3, <2>1, <2>2, <3>1 DEF Plan, FreesOnce
    <3> QED
      BY <2>1, <3>1, <3>2
  <2>3. ASSUME NEW q \in 1 .. k - 1
        PROVE  Len(s) + q \in 1 .. i - 1 /\ (s \o t)[Len(s) + q] = t[q]
    BY <1>1, <2>1
  <2>4. \/ Volume!get_fat(v, t[k].cell) # 0
        \/ \E q \in 1 .. k - 1 : Uses(t[q]) /\ t[q].cell = t[k].cell
    BY <1>3, <2>1 DEF Plan, FreesOnce
  <2> QED
    BY <2>1, <2>2, <2>3, <2>4
<1> QED
  BY <1>1, <1>3 DEF Plan, FreesOnce

\* Anything that frees nothing may follow a plan.
LEMMA PlanBefore ==
  ASSUME NEW s, NEW t, NEW v, Plan(s, v), Keeps(t)
  PROVE  Plan(s \o t, v)
<1>1. /\ IsSeq(s) /\ IsSeq(t) /\ Orderly(s \o t) /\ Len(s) \in Nat /\ Len(t) \in Nat
      /\ \A k \in 1 .. Len(s) : (s \o t)[k] = s[k]
  BY Joined, OrderlyJoined DEF Plan, Keeps, Orderly
<1>2. ASSUME NEW i \in 1 .. Len(s \o t), Frees((s \o t)[i])
      PROVE  i \in 1 .. Len(s) /\ (s \o t)[i] = s[i]
  BY <1>1, <1>2, InJoined DEF Keeps
<1>3. ASSUME NEW i \in 1 .. Len(s \o t), Frees((s \o t)[i])
      PROVE  /\ \A j \in 1 .. Len(s \o t) :
                  Frees((s \o t)[j]) /\ (s \o t)[j].cell = (s \o t)[i].cell => i = j
             /\ \/ Volume!get_fat(v, (s \o t)[i].cell) # 0
                \/ \E j \in 1 .. i - 1 : Uses((s \o t)[j]) /\ (s \o t)[j].cell = (s \o t)[i].cell
  <2>1. i \in 1 .. Len(s) /\ (s \o t)[i] = s[i] /\ Frees(s[i])
    BY <1>2, <1>3
  <2>2. ASSUME NEW j \in 1 .. Len(s \o t), Frees((s \o t)[j]), (s \o t)[j].cell = (s \o t)[i].cell
        PROVE  i = j
    <3>1. j \in 1 .. Len(s) /\ (s \o t)[j] = s[j]
      BY <1>2, <2>2
    <3> QED
      BY <2>1, <2>2, <3>1 DEF Plan, FreesOnce
  <2>3. \A q \in 1 .. i - 1 : (s \o t)[q] = s[q]
    BY <1>1, <2>1
  <2>4. \/ Volume!get_fat(v, s[i].cell) # 0
        \/ \E q \in 1 .. i - 1 : Uses(s[q]) /\ s[q].cell = s[i].cell
    BY <2>1 DEF Plan, FreesOnce
  <2> QED
    BY <2>1, <2>2, <2>3, <2>4
<1> QED
  BY <1>1, <1>3 DEF Plan, FreesOnce

\* Reads, one after the other.
LEMMA ReadsKeep ==
  ASSUME NEW n \in Nat, NEW s, s = [i \in 1 .. n |-> s[i]], \A i \in 1 .. n : s[i].do = "read"
  PROVE  Keeps(s)
<1>1. IsSeq(s) /\ Len(s) = n
  BY Listed
<1> QED
  BY <1>1 DEF Keeps, Orderly, Harmless, Frees, OnFat

\* Short sequences.
LEMMA NoneKeeps == Keeps(<<>>)
<1>1. IsSeq(<<>>) /\ Len(<<>>) = 0
  <2>1. <<>> \in Seq({})
    OBVIOUS
  <2> QED
    BY <2>1 DEF IsSeq
<1> QED
  BY <1>1 DEF Keeps, Orderly

\* One access.
LEMMA OneKeeps ==
  ASSUME NEW a, Harmless(a) \/ OnFat(a) \/ OnTable(a), a.do \notin {"new", "fsinfo"}, ~ Frees(a)
  PROVE  Keeps(<<a>>)
<1>1. <<a>> \in Seq({a}) /\ Len(<<a>>) = 1 /\ <<a>>[1] = a
  OBVIOUS
<1>2. IsSeq(<<a>>)
  BY <1>1 DEF IsSeq
<1> QED
  BY <1>1, <1>2 DEF Keeps, Orderly

\* And back.
LEMMA OneOnly ==
  ASSUME NEW a, Keeps(<<a>>)
  PROVE  (Harmless(a) \/ OnFat(a) \/ OnTable(a)) /\ a.do \notin {"new", "fsinfo"} /\ ~ Frees(a)
<1>1. Len(<<a>>) = 1 /\ <<a>>[1] = a
  OBVIOUS
<1>2. 1 \in 1 .. Len(<<a>>) /\ ~ (1 > 1)
  BY <1>1
<1> QED
  BY <1>1, <1>2, Zenon DEF Keeps, Orderly

\* Two accesses.
LEMMA TwoKeep ==
  ASSUME NEW a, NEW b, Keeps(<<a>>), Keeps(<<b>>)
  PROVE  Keeps(<<a, b>>)
<1>1. /\ <<a, b>> \in Seq({a, b}) /\ Len(<<a, b>>) = 2 /\ <<a, b>>[1] = a /\ <<a, b>>[2] = b
  OBVIOUS
<1>2. /\ (Harmless(a) \/ OnFat(a) \/ OnTable(a)) /\ a.do \notin {"new", "fsinfo"} /\ ~ Frees(a)
      /\ (Harmless(b) \/ OnFat(b) \/ OnTable(b)) /\ b.do \notin {"new", "fsinfo"} /\ ~ Frees(b)
  BY OneOnly
<1>3. IsSeq(<<a, b>>)
  BY <1>1 DEF IsSeq
<1> QED
  BY <1>1, <1>2, <1>3 DEF Keeps, Orderly

\* What the accesses are.
LEMMA AccessFields ==
  ASSUME NEW do, NEW at, NEW cell, NEW val
  PROVE  /\ Volume!Access(do, at, cell, val).do = do /\ Volume!Access(do, at, cell, val).at = at
         /\ Volume!Access(do, at, cell, val).cell = cell
         /\ Volume!Access(do, at, cell, val).val = val
BY DEF Volume!Access

\* move_window alone.
LEMMA ReadOne ==
  ASSUME NEW x PROVE Volume!Read(x).do = "read" /\ Keeps(<<Volume!Read(x)>>)
<1>1. Volume!Read(x).do = "read"
  BY AccessFields DEF Volume!Read
<1> QED
  BY <1>1, OneKeeps DEF Harmless, Frees, OnFat

\* put_fat.
LEMMA LinkOne ==
  ASSUME NEW c \in Volume!Clusters, NEW x \in Nat
  PROVE  /\ OnFat(Volume!put_fat(c, x)) /\ Volume!put_fat(c, x).cell = c
         /\ Volume!put_fat(c, x).val = x
         /\ x # 0 => Keeps(<<Volume!put_fat(c, x)>>) /\ Uses(Volume!put_fat(c, x))
<1>1. /\ Volume!put_fat(c, x).do = "set" /\ Volume!put_fat(c, x).cell = c
      /\ Volume!put_fat(c, x).val = x /\ Volume!put_fat(c, x).at = Volume!FatSect(c)
  BY AccessFields DEF Volume!put_fat
<1>2. OnFat(Volume!put_fat(c, x))
  BY <1>1 DEF OnFat
<1> QED
  BY <1>1, <1>2, OneKeeps DEF Frees, Uses

\* put_fat that frees.
LEMMA FreeOne ==
  ASSUME NEW c \in Volume!Clusters
  PROVE  OnFat(Volume!put_fat(c, 0)) /\ Volume!put_fat(c, 0).cell = c
<1>1. /\ Volume!put_fat(c, 0).do = "set" /\ Volume!put_fat(c, 0).cell = c
      /\ Volume!put_fat(c, 0).val = 0 /\ Volume!put_fat(c, 0).at = Volume!FatSect(c)
  BY AccessFields DEF Volume!put_fat
<1> QED
  BY <1>1 DEF OnFat

\* A change of a directory entry.
LEMMA EntryOne ==
  ASSUME NEW p, NEW e PROVE Keeps(<<Volume!SetEntry(p, e)>>)
<1>1. /\ Volume!SetEntry(p, e).do = "set"
      /\ Volume!SetEntry(p, e).at = Volume!ClustSect(p[1])
  BY AccessFields DEF Volume!SetEntry
<1>2. OnTable(Volume!SetEntry(p, e))
  BY <1>1 DEF OnTable
<1>3. ~ Frees(Volume!SetEntry(p, e))
  BY <1>1 DEF Frees, OnFat, Volume!FatSect, Volume!ClustSect
<1> QED
  BY <1>1, <1>2, <1>3, OneKeeps

\* What fills the window comes behind a flush.
LEMMA FlushedKeeps ==
  ASSUME NEW a, Harmless(a) \/ OnTable(a), a.do # "set"
  PROVE  Keeps(<<Volume!Flush, a>>) /\ Keeps(<<Volume!Flush>>)
<1>1. Volume!Flush.do = "flush"
  BY AccessFields DEF Volume!Flush
<1>2. /\ <<Volume!Flush, a>> \in Seq({Volume!Flush, a}) /\ Len(<<Volume!Flush, a>>) = 2
      /\ <<Volume!Flush, a>>[1] = Volume!Flush /\ <<Volume!Flush, a>>[2] = a
  OBVIOUS
<1>3. IsSeq(<<Volume!Flush, a>>)
  BY <1>2 DEF IsSeq
<1>4. ~ Frees(a) /\ ~ Frees(Volume!Flush) /\ Harmless(Volume!Flush)
  BY <1>1 DEF Frees, OnFat, Harmless
<1>5. Keeps(<<Volume!Flush, a>>)
  BY <1>1, <1>2, <1>3, <1>4 DEF Keeps, Orderly
<1> QED
  BY <1>1, <1>4, <1>5, OneKeeps

\* sync_fs.
LEMMA SyncKeeps == Keeps(Volume!sync_fs)
<1>1. Volume!Access("fsinfo", <<>>, 0, 0).do = "fsinfo"
  BY AccessFields
<1> QED
  BY <1>1, FlushedKeeps DEF Volume!sync_fs, Harmless

\* remove_chain frees each cluster of the chain once.
LEMMA RemovesOnce ==
  ASSUME NEW v, NEW c PROVE Plan(Volume!remove_chain(v, c), v)
<1> DEFINE cs == Volume!Chain(v, c)
           s == Volume!remove_chain(v, c)
<1>1. IsChain(v, c, cs)
  BY ChainIs
<1> HIDE DEF cs
<1>2. cs \in Seq(Volume!Clusters) /\ Len(cs) \in Nat /\ DOMAIN cs = 1 .. Len(cs)
  BY <1>1 DEF IsChain
<1>3. s = [i \in 1 .. Len(cs) |-> Volume!put_fat(cs[i], 0)]
  BY <1>2 DEF Volume!remove_chain, cs
<1> HIDE DEF s
<1>4. IsSeq(s) /\ Len(s) = Len(cs)
  BY <1>2, <1>3, Listed
<1>5. ASSUME NEW i \in 1 .. Len(s)
      PROVE  OnFat(s[i]) /\ s[i].cell = cs[i] /\ cs[i] \in Volume!Clusters
  <2>1. s[i] = Volume!put_fat(cs[i], 0) /\ cs[i] \in Volume!Clusters
    BY <1>2, <1>3, <1>4
  <2> QED
    BY <2>1, FreeOne
<1>6. Orderly(s)
  BY <1>4, <1>5 DEF Orderly, OnFat
<1>7. FreesOnce(s, v)
  BY <1>1, <1>4, <1>5 DEF FreesOnce, IsChain
<1> QED
  BY <1>6, <1>7 DEF Plan, s

\* create_chain frees nothing and, if it finds a cluster, marks that.
LEMMA CreateKeeps ==
  ASSUME NEW v, NEW c, NEW last, c = 0 \/ c \in Volume!Clusters,
         Volume!create_chain(v, c, last).new # 0
  PROVE  LET r == Volume!create_chain(v, c, last)
         IN /\ r.new \in Volume!Clusters /\ Keeps(r.accesses)
            /\ \E i \in 1 .. Len(r.accesses) :
                 Uses(r.accesses[i]) /\ r.accesses[i].cell = r.new
<1> DEFINE from == IF c # 0 THEN c ELSE IF last \in Volume!Clusters THEN last ELSE 1
           scan == Volume!ScanFrom(from)
           k == Volume!First({i \in DOMAIN scan : Volume!get_fat(v, scan[i]) = 0})
           new == scan[k]
           r == Volume!create_chain(v, c, last)
           look == IF c = 0 THEN <<>> ELSE <<Volume!Read(Volume!FatSect(c))>>
           reads == [i \in 1 .. k |-> Volume!Read(Volume!FatSect(scan[i]))]
           link == IF c = 0 THEN <<>> ELSE <<Volume!put_fat(c, new)>>
           mark == <<Volume!put_fat(new, Volume!EOC)>>
<1>1. r.new \in Volume!Clusters
  BY Scanned
<1>2. k # 0 /\ r.new = new /\ r.accesses = ((look \o reads) \o mark) \o link
  <2>1. r = IF k = 0 THEN [new |-> 0, accesses |-> <<>>]
            ELSE [new |-> new, accesses |-> ((look \o reads) \o mark) \o link]
    BY DEF Volume!create_chain
  <2>2. r.new # 0
    OBVIOUS
  <2> HIDE DEF r, k, new, look, reads, mark, link
  <2> QED
    BY <2>1, <2>2
<1>3. k \in Nat
  <2>1. DOMAIN scan = 1 .. Entries - 2 /\ Entries - 2 \in Nat
    BY VolumeConstants DEF Volume!ScanFrom
  <2>2. {i \in DOMAIN scan : Volume!get_fat(v, scan[i]) = 0} \in SUBSET (1 .. Entries - 2)
    BY <2>1
  <2>3. k \in 0 .. Entries - 2
    BY <2>1, <2>2, FirstIs
  <2> QED
    BY <2>1, <2>3
<1> HIDE DEF scan, k
<1>4. Keeps(look)
  BY NoneKeeps, ReadOne
<1>5. Keeps(reads)
  <2>1. reads = [i \in 1 .. k |-> reads[i]] /\ \A i \in 1 .. k : reads[i].do = "read"
    BY ReadOne
  <2> HIDE DEF reads
  <2> QED
    BY <1>3, <2>1, ReadsKeep
<1>6. new \in Volume!Clusters /\ new \in Nat /\ new # 0
  BY <1>1, <1>2, VolumeConstants
<1> HIDE DEF new
<1>7. /\ Keeps(mark) /\ Uses(Volume!put_fat(new, Volume!EOC))
      /\ Volume!put_fat(new, Volume!EOC).cell = new
  BY <1>6, LinkOne, VolumeConstants
<1>8. Keeps(link)
  BY <1>6, NoneKeeps, LinkOne
<1> HIDE DEF look, reads, link
<1>9. Keeps(look \o reads) /\ Keeps((look \o reads) \o mark)
  BY <1>4, <1>5, <1>7, KeepsJoined
<1>10. Keeps(((look \o reads) \o mark) \o link)
  BY <1>8, <1>9, KeepsJoined
<1>11. \E i \in 1 .. Len(((look \o reads) \o mark) \o link) :
         (((look \o reads) \o mark) \o link)[i] = Volume!put_fat(new, Volume!EOC)
  <2> DEFINE a == look \o reads
             b == a \o mark
  <2>1. IsSeq(a) /\ IsSeq(mark) /\ IsSeq(b) /\ IsSeq(link)
    BY <1>7, <1>8, <1>9 DEF Keeps, Orderly
  <2>2. Len(mark) = 1 /\ mark[1] = Volume!put_fat(new, Volume!EOC)
    OBVIOUS
  <2> HIDE DEF a, mark
  <2>3. Len(a) \in Nat /\ Len(b) = Len(a) + 1 /\ b[Len(a) + 1] = mark[1]
    BY <2>1, <2>2, Joined, SMTT(30)
  <2> HIDE DEF b
  <2>4. /\ Len(link) \in Nat /\ Len(b \o link) = Len(b) + Len(link)
        /\ (b \o link)[Len(a) + 1] = b[Len(a) + 1]
    BY <2>1, <2>3, Joined
  <2>5. Len(a) + 1 \in 1 .. Len(b \o link)
    BY <2>3, <2>4
  <2>6. b \o link = ((look \o reads) \o mark) \o link
    BY DEF a, b
  <2> QED
    BY <2>2, <2>3, <2>4, <2>5, <2>6
<1> HIDE DEF mark, r
<1> QED
  BY <1>1, <1>2, <1>7, <1>10, <1>11 DEF r

\* The clusters of the root directory.
LEMMA RootIs ==
  ASSUME NEW v
  PROVE  /\ Volume!Root(v) \in Seq(Volume!Clusters) /\ Len(Volume!Root(v)) \in Nat
         /\ Len(Volume!Root(v)) >= 1
<1> DEFINE cs == Volume!Chain(v, Volume!get_fat(v, Volume!dirbase))
<1>1. cs \in Seq(Volume!Clusters)
  BY ChainIs DEF IsChain
<1>2. Volume!Root(v) = <<Volume!dirbase>> \o cs
  BY DEF Volume!Root
<1> HIDE DEF cs
<1> QED
  BY <1>1, <1>2, VolumeConstants

\* The entries of the root directory: there is one, and each is in a cluster.
LEMMA PlacesAre ==
  ASSUME NEW v
  PROVE  /\ IsSeq(Volume!Places(v)) /\ DOMAIN Volume!Places(v) = 1 .. Len(Volume!Places(v))
         /\ Len(Volume!Places(v)) \in Nat /\ Len(Volume!Places(v)) >= 1
         /\ \A k \in 1 .. Len(Volume!Places(v)) : Volume!Places(v)[k][1] \in Volume!Clusters
<1> DEFINE cs == Volume!Root(v)
           ps == Volume!Places(v)
<1>1. cs \in Seq(Volume!Clusters) /\ Len(cs) \in Nat /\ Len(cs) >= 1
  BY RootIs
<1>2. ps = [k \in 1 .. Len(cs) * PerDir |->
              <<cs[((k - 1) \div PerDir) + 1], ((k - 1) % PerDir) + 1>>]
  BY DEF Volume!Places, Volume!PlacesIn
<1> HIDE DEF cs, ps
<1>3. PICK n \in Nat : n = Len(cs) * PerDir /\ n >= 1
  BY <1>1, VolumeConstants, SMTT(20)
<1>4. IsSeq(ps) /\ Len(ps) = n /\ DOMAIN ps = 1 .. n
  BY <1>2, <1>3, Listed
<1>5. ASSUME NEW k \in 1 .. n PROVE ((k - 1) \div PerDir) + 1 \in 1 .. Len(cs)
  BY <1>1, <1>3, VolumeConstants, SMTT(20)
<1>6. \A k \in 1 .. n : ps[k][1] \in Volume!Clusters
  BY <1>1, <1>2, <1>3, <1>5
<1> QED
  BY <1>3, <1>4, <1>6 DEF ps

\* Finding an entry frees nothing.
LEMMA WayKeeps ==
  ASSUME NEW v, NEW k \in Nat, k >= 1
  PROVE  Keeps(Volume!WayTo(v, k))
<1> DEFINE cs == Volume!Root(v)
           s == Volume!WayTo(v, k)
<1>1. PICK u \in Nat : u = ((k - 1) \div PerDir) + 1 /\ u >= 1
  BY VolumeConstants
<1>2. PICK n \in Nat : n = 2 * u - 1
  BY <1>1
<1>3. s = [i \in 1 .. n |-> IF i % 2 = 1 THEN Volume!Read(Volume!ClustSect(cs[(i + 1) \div 2]))
                            ELSE Volume!Read(Volume!FatSect(cs[i \div 2]))]
  BY <1>1, <1>2 DEF Volume!WayTo
<1> HIDE DEF s, cs
<1>4. s = [i \in 1 .. n |-> s[i]] /\ \A i \in 1 .. n : s[i].do = "read"
  BY <1>3, ReadOne
<1>5. Keeps(s)
  BY <1>2, <1>4, ReadsKeep
<1> QED
  BY <1>5 DEF s

\* follow_path.
LEMMA FollowKeeps ==
  ASSUME NEW v, NEW n PROVE Keeps(Volume!follow_path(v, n))
<1> DEFINE ps == Volume!Places(v)
           S == {i \in DOMAIN ps : Volume!At(v, ps[i]).name = n \/ Volume!At(v, ps[i]) = Volume!End}
           k == Volume!First(S)
<1>1. Len(ps) \in Nat /\ Len(ps) >= 1 /\ DOMAIN ps = 1 .. Len(ps)
  BY PlacesAre
<1>2. Volume!follow_path(v, n) = Volume!WayTo(v, IF k = 0 THEN Len(ps) ELSE k)
  BY DEF Volume!follow_path
<1>3. k \in 0 .. Len(ps)
  <2>1. S \in SUBSET (1 .. Len(ps))
    BY <1>1
  <2> HIDE DEF S
  <2> QED
    BY <1>1, <2>1, FirstIs
<1> HIDE DEF ps, k
<1>4. CASE k = 0
  BY <1>1, <1>2, <1>4, WayKeeps
<1>5. CASE k # 0
  <2>1. k \in Nat /\ k >= 1
    BY <1>1, <1>3, <1>5
  <2> QED
    BY <1>2, <1>5, <2>1, WayKeeps
<1> QED
  BY <1>4, <1>5

\* Taking away an entry frees nothing.
LEMMA RemoveKeeps ==
  ASSUME NEW v, NEW n, Volume!dir_find(v, n) # 0
  PROVE  Keeps(Volume!dir_remove(v, Volume!dir_find(v, n)))
<1> DEFINE ps == Volume!Places(v)
           cs == Volume!Root(v)
           S == {i \in DOMAIN ps : Volume!At(v, ps[i]).name = n \/ Volume!At(v, ps[i]) = Volume!End}
           k == Volume!dir_find(v, n)
           s == Volume!dir_sdi(v, k)
           gone == <<Volume!SetEntry(ps[k], Volume!Deleted)>>
<1>1. k \in Nat /\ k >= 1
  <2>1. k \in {0, Volume!First(S)}
    BY DEF Volume!dir_find
  <2>2. S \in SUBSET (1 .. Len(ps)) /\ Len(ps) \in Nat
    BY PlacesAre
  <2> HIDE DEF S, ps
  <2>3. Volume!First(S) \in 0 .. Len(ps)
    BY <2>2, FirstIs
  <2>4. k # 0
    OBVIOUS
  <2> HIDE DEF k
  <2> QED
    BY <2>1, <2>2, <2>3, <2>4
<1>2. PICK u \in Nat : u = (k - 1) \div PerDir
  BY <1>1, VolumeConstants
<1>3. s = [i \in 1 .. u |-> Volume!Read(Volume!FatSect(cs[i]))]
  BY <1>2 DEF Volume!dir_sdi
<1> HIDE DEF s, cs
<1>4. s = [i \in 1 .. u |-> s[i]] /\ \A i \in 1 .. u : s[i].do = "read"
  BY <1>3, ReadOne
<1>5. Keeps(s)
  BY <1>2, <1>4, ReadsKeep
<1>6. Keeps(gone)
  BY EntryOne
<1> HIDE DEF gone
<1>7. Keeps(s \o gone)
  BY <1>5, <1>6, KeepsJoined
<1> QED
  BY <1>7 DEF Volume!dir_remove, s, gone

\* A sector is filled between two flushes, and then changed.
LEMMA FilledKeeps ==
  ASSUME NEW a, NEW b, OnTable(a), a.do = "new", Keeps(<<b>>)
  PROVE  /\ Keeps(<<Volume!Flush, a, Volume!Flush>>)
         /\ Keeps(<<Volume!Flush, a, Volume!Flush, b>>)
<1> DEFINE f == Volume!Flush
           s == <<f, a, f>>
           t == <<f, a, f, b>>
<1>1. f.do = "flush" /\ Harmless(f) /\ ~ Frees(f)
  BY AccessFields DEF Volume!Flush, Harmless, Frees, OnFat
<1>2. ~ Frees(a)
  BY DEF Frees, OnFat
<1>3. (Harmless(b) \/ OnFat(b) \/ OnTable(b)) /\ b.do \notin {"new", "fsinfo"} /\ ~ Frees(b)
  BY OneOnly
<1> HIDE DEF f
<1>4. /\ s \in Seq({f, a, b}) /\ Len(s) = 3 /\ s[1] = f /\ s[2] = a /\ s[3] = f
      /\ t \in Seq({f, a, b}) /\ Len(t) = 4 /\ t[1] = f /\ t[2] = a /\ t[3] = f /\ t[4] = b
  OBVIOUS
<1>5. IsSeq(s) /\ IsSeq(t)
  BY <1>4 DEF IsSeq
<1> HIDE DEF s, t
<1>6. ASSUME NEW i \in 1 .. 3
      PROVE  /\ Harmless(s[i]) \/ OnFat(s[i]) \/ OnTable(s[i])
             /\ s[i].do \in {"new", "fsinfo"} => i > 1 /\ s[i - 1].do = "flush"
             /\ ~ Frees(s[i])
  <2>1. i = 1 \/ (i = 2 /\ i > 1 /\ i - 1 = 1) \/ i = 3
    OBVIOUS
  <2> QED
    BY <1>1, <1>2, <1>4, <2>1
<1>7. ASSUME NEW i \in 1 .. 4
      PROVE  /\ Harmless(t[i]) \/ OnFat(t[i]) \/ OnTable(t[i])
             /\ t[i].do \in {"new", "fsinfo"} => i > 1 /\ t[i - 1].do = "flush"
             /\ ~ Frees(t[i])
  <2>1. i = 1 \/ (i = 2 /\ i > 1 /\ i - 1 = 1) \/ i = 3 \/ i = 4
    OBVIOUS
  <2> QED
    BY <1>1, <1>2, <1>3, <1>4, <2>1
<1>8. Keeps(s) /\ Keeps(t)
  BY <1>4, <1>5, <1>6, <1>7 DEF Keeps, Orderly
<1> QED
  BY <1>8 DEF s, t, f

\* Registering an entry frees nothing, also when the directory grows.
LEMMA RegisterKeeps ==
  ASSUME NEW v, NEW e, NEW last, Volume!dir_register(v, e, last).ok
  PROVE  Keeps(Volume!dir_register(v, e, last).accesses)
<1> DEFINE ps == Volume!Places(v)
           S == {i \in DOMAIN ps : Volume!At(v, ps[i]) \in {Volume!End, Volume!Deleted}}
           k == Volume!First(S)
           way == Volume!WayTo(v, IF k = 0 THEN Len(ps) ELSE k)
           stretch == Volume!create_chain(v, ps[Len(ps)][1], last)
           place == IF k # 0 THEN ps[k] ELSE <<stretch.new, 1>>
           fill == Volume!Access("new", Volume!ClustSect(stretch.new), 0, Volume!Table(Volume!End))
           tail == <<Volume!Flush, fill, Volume!Flush, Volume!SetEntry(place, e)>>
           r == Volume!dir_register(v, e, last)
<1>1. /\ Len(ps) \in Nat /\ Len(ps) >= 1 /\ DOMAIN ps = 1 .. Len(ps)
      /\ ps[Len(ps)][1] \in Volume!Clusters
  <2>1. /\ Len(ps) \in Nat /\ Len(ps) >= 1 /\ DOMAIN ps = 1 .. Len(ps)
        /\ \A i \in 1 .. Len(ps) : ps[i][1] \in Volume!Clusters
    BY PlacesAre
  <2> HIDE DEF ps
  <2>2. Len(ps) \in 1 .. Len(ps)
    BY <2>1
  <2> QED
    BY <2>1, <2>2
<1>2. /\ r.ok = (k # 0 \/ stretch.new # 0)
      /\ r.accesses = IF k # 0 THEN way \o <<Volume!SetEntry(place, e)>>
                      ELSE way \o stretch.accesses \o tail
  BY DEF Volume!dir_register
<1>3. k \in 0 .. Len(ps)
  <2>1. S \in SUBSET (1 .. Len(ps))
    BY <1>1
  <2> HIDE DEF S
  <2> QED
    BY <1>1, <2>1, FirstIs
<1>4. Keeps(way)
  <2> HIDE DEF ps, k
  <2>1. CASE k = 0
    BY <1>1, <2>1, WayKeeps
  <2>2. CASE k # 0
    <3>1. k \in Nat /\ k >= 1
      BY <1>1, <1>3, <2>2
    <3> QED
      BY <2>2, <3>1, WayKeeps
  <2> QED
    BY <2>1, <2>2
<1>5. Keeps(<<Volume!SetEntry(place, e)>>)
  BY EntryOne
<1>6. CASE k # 0
  BY <1>2, <1>4, <1>5, <1>6, KeepsJoined
<1>7. CASE k = 0
  <2>1. stretch.new # 0
    BY <1>2, <1>7
  <2>2. Keeps(stretch.accesses)
    BY <1>1, <2>1, CreateKeeps
  <2>3. fill.do = "new" /\ fill.at = Volume!ClustSect(stretch.new)
    BY AccessFields
  <2> HIDE DEF way, stretch, fill, place, r
  <2>4. OnTable(fill)
    BY <2>3 DEF OnTable
  <2>7. Keeps(tail)
    BY <1>5, <2>3, <2>4, FilledKeeps
  <2> HIDE DEF tail
  <2>8. Keeps(way \o stretch.accesses)
    BY <1>4, <2>2, KeepsJoined
  <2>9. Keeps((way \o stretch.accesses) \o tail)
    BY <2>7, <2>8, KeepsJoined
  <2>10. r.accesses = (way \o stretch.accesses) \o tail
    BY <1>2, <1>7
  <2> QED
    BY <2>9, <2>10 DEF r
<1> QED
  BY <1>6, <1>7

-----------------------------------------------------------------------------
(* One access.                                                             *)

\* The FAT entries in the sector of one of them.
FatCells(c) == {x \in Volume!Clusters : Volume!FatSect(x) = Volume!FatSect(c)}

\* Card d and window w: a clean window is what the card has.
FatState(d, w) ==
  /\ d = [s \in Volume!Sectors |-> d[s]]
  /\ DOMAIN w = {"sect", "data", "dirty"}
  /\ \A c \in Volume!Clusters :
       /\ d[Volume!FatSect(c)] \in [FatCells(c) -> Nat]
       /\ w.sect = Volume!FatSect(c) =>
            w.data \in [FatCells(c) -> Nat] /\ (~ w.dirty => w.data = d[Volume!FatSect(c)])

\* A sector of the FAT as FatFs sees it.
Seen(d, w, c) == IF w.sect = Volume!FatSect(c) THEN w.data ELSE d[Volume!FatSect(c)]

\* Sectors of the FAT are no others.
LEMMA FatSectors ==
  ASSUME NEW c \in Volume!Clusters
  PROVE  /\ Volume!FatSect(c) \in Volume!Sectors /\ c \in FatCells(c)
         /\ Volume!FatSect(c) # <<>> /\ Volume!FatSect(c) # Volume!FsInfo
         /\ \A x : Volume!FatSect(c) # Volume!ClustSect(x)
         /\ Volume!FatSect(c)[1] = "fat"
BY DEF Volume!FatSect, Volume!Sectors, FatCells, Volume!FsInfo, Volume!ClustSect

\* get_fat reads the window or the card.
LEMMA GetFat ==
  FatState(card, win) =>
    \A c \in Volume!Clusters :
      /\ Volume!get_fat(Volume!View, c) = Seen(card, win, c)[c]
      /\ Seen(card, win, c)[c] \in Nat /\ Seen(card, win, c) \in [FatCells(c) -> Nat]
<1> SUFFICES ASSUME FatState(card, win), NEW c \in Volume!Clusters
             PROVE  /\ Volume!get_fat(Volume!View, c) = Seen(card, win, c)[c]
                    /\ Seen(card, win, c)[c] \in Nat /\ Seen(card, win, c) \in [FatCells(c) -> Nat]
  OBVIOUS
<1> DEFINE f == Volume!FatSect(c)
<1>1. f \in Volume!Sectors /\ c \in FatCells(c) /\ f # <<>>
  BY FatSectors
<1>2. Seen(card, win, c) \in [FatCells(c) -> Nat]
  BY DEF Seen, FatState
<1>3. Volume!View[f] = Seen(card, win, c)
  <2>1. DOMAIN card = Volume!Sectors
    BY DEF FatState
  <2>2. Volume!View = IF win.sect = <<>> THEN card ELSE [card EXCEPT ![win.sect] = win.data]
    BY DEF Volume!View
  <2> HIDE DEF f
  <2> QED
    BY <1>1, <2>1, <2>2 DEF Seen, f
<1>4. Volume!get_fat(Volume!View, c) = Seen(card, win, c)[c]
  BY <1>3 DEF Volume!get_fat
<1> QED
  BY <1>1, <1>2, <1>4

\* sync_window.
LEMMA FlushedIs ==
  ASSUME FatState(card, win)
  PROVE  /\ Volume!Flushed = [s \in Volume!Sectors |-> Volume!Flushed[s]]
         /\ \A c \in Volume!Clusters :
              /\ Volume!Flushed[Volume!FatSect(c)] = Seen(card, win, c)
              /\ Volume!Flushed[Volume!FatSect(c)] \in [FatCells(c) -> Nat]
<1> DEFINE g == Volume!Flushed
<1>1. g = IF win.dirty THEN [card EXCEPT ![win.sect] = win.data] ELSE card
  BY DEF Volume!Flushed
<1>2. DOMAIN card = Volume!Sectors /\ card = [s \in Volume!Sectors |-> card[s]]
  BY DEF FatState
<1> HIDE DEF g
<1>3. g = [s \in Volume!Sectors |-> g[s]]
  BY <1>1, <1>2
<1>4. ASSUME NEW c \in Volume!Clusters
      PROVE  /\ g[Volume!FatSect(c)] = Seen(card, win, c)
             /\ g[Volume!FatSect(c)] \in [FatCells(c) -> Nat]
  <2>1. Volume!FatSect(c) \in Volume!Sectors
    BY FatSectors
  <2>2. g[Volume!FatSect(c)] = Seen(card, win, c)
    BY <1>1, <1>2, <2>1 DEF Seen, FatState
  <2> QED
    BY <2>2, GetFat
<1> QED
  BY <1>3, <1>4 DEF g

\* move_window: FatFs sees the same.
LEMMA Moved ==
  ASSUME FatState(card, win), NEW at
  PROVE  LET m == Volume!move_window(at)
         IN /\ FatState(m.disk, m.win) /\ m.win.sect = at
            /\ \A c \in Volume!Clusters : Seen(m.disk, m.win, c) = Seen(card, win, c)
<1> DEFINE m == Volume!move_window(at)
           g == Volume!Flushed
<1>1. CASE win.sect = at
  <2>1. m.disk = card /\ m.win = win
    BY <1>1 DEF Volume!move_window
  <2> QED
    BY <1>1, <2>1
<1>2. CASE win.sect # at
  <2>1. m.disk = g /\ m.win = [sect |-> at, data |-> g[at], dirty |-> FALSE]
    BY <1>2 DEF Volume!move_window
  <2>2. /\ g = [s \in Volume!Sectors |-> g[s]]
        /\ \A c \in Volume!Clusters : /\ g[Volume!FatSect(c)] = Seen(card, win, c)
                                      /\ g[Volume!FatSect(c)] \in [FatCells(c) -> Nat]
    BY FlushedIs
  <2> HIDE DEF m, g
  <2>3. m.win.sect = at /\ m.win.data = g[at] /\ m.win.dirty = FALSE
    BY <2>1
  <2>4. DOMAIN m.win = {"sect", "data", "dirty"}
    BY <2>1, <2>3
  <2>5. FatState(m.disk, m.win)
    BY <2>1, <2>2, <2>3, <2>4 DEF FatState
  <2>6. \A c \in Volume!Clusters : Seen(m.disk, m.win, c) = Seen(card, win, c)
    BY <2>1, <2>2, <2>3 DEF Seen
  <2> QED
    BY <2>3, <2>5, <2>6 DEF m
<1> QED
  BY <1>1, <1>2

\* What an access that is no setting of a FAT entry does: FatFs sees the same FAT and counts
\* the same.
Unseen ==
  /\ FatState(card', win')
  /\ \A c \in Volume!Clusters : Seen(card', win', c) = Seen(card, win, c)
  /\ DOMAIN filesys' = {"free", "last", "flag"} /\ filesys'.free = filesys.free

\* A read.
LEMMA ReadStep ==
  ASSUME FatState(card, win), DOMAIN filesys = {"free", "last", "flag"}, NEW a, a.do = "read",
         Volume!Perform(a)
  PROVE  Unseen
<1> DEFINE m == Volume!move_window(a.at)
<1>1. card' = m.disk /\ win' = m.win /\ filesys' = filesys
  BY DEF Volume!Perform
<1>2. /\ FatState(m.disk, m.win)
      /\ \A c \in Volume!Clusters : Seen(m.disk, m.win, c) = Seen(card, win, c)
  BY Moved
<1> HIDE DEF m
<1>3. DOMAIN filesys' = {"free", "last", "flag"} /\ filesys'.free = filesys.free
  BY <1>1
<1> QED
  BY <1>1, <1>2, <1>3 DEF Unseen

\* An entry of a directory is set.
LEMMA TableStep ==
  ASSUME FatState(card, win), DOMAIN filesys = {"free", "last", "flag"}, NEW a, a.do = "set",
         OnTable(a), Volume!Perform(a)
  PROVE  Unseen
<1> DEFINE m == Volume!move_window(a.at)
           q == [m.win.data EXCEPT ![a.cell] = a.val]
<1>1. PICK x : a.at = Volume!ClustSect(x)
  BY DEF OnTable
<1>2. a.at[1] = "cluster" /\ \A c \in Volume!Clusters : Volume!FatSect(c) # a.at
  BY <1>1, FatSectors DEF Volume!ClustSect
<1>3. card' = m.disk /\ win' = [sect |-> a.at, data |-> q, dirty |-> TRUE]
  BY DEF Volume!Perform
<1>4. filesys' = filesys
  BY <1>2 DEF Volume!Perform
<1>5. /\ FatState(m.disk, m.win) /\ m.win.sect = a.at
      /\ \A c \in Volume!Clusters : Seen(m.disk, m.win, c) = Seen(card, win, c)
  BY Moved
<1> HIDE DEF m, q
<1>6. win'.sect = a.at /\ win'.data = q /\ win'.dirty = TRUE
  BY <1>3
<1>7. DOMAIN win' = {"sect", "data", "dirty"}
  BY <1>3, <1>6
<1>8. FatState(card', win')
  BY <1>2, <1>3, <1>5, <1>6, <1>7 DEF FatState
<1>9. \A c \in Volume!Clusters : Seen(card', win', c) = Seen(card, win, c)
  BY <1>2, <1>3, <1>5, <1>6 DEF Seen
<1>10. DOMAIN filesys' = {"free", "last", "flag"} /\ filesys'.free = filesys.free
  BY <1>4
<1> QED
  BY <1>8, <1>9, <1>10 DEF Unseen

\* put_fat: one entry changes, and is counted.
LEMMA PutStep ==
  ASSUME FatState(card, win), NEW a, OnFat(a), Volume!Perform(a)
  PROVE  /\ FatState(card', win')
         /\ \A c \in Volume!Clusters :
              Seen(card', win', c)[c] = IF c = a.cell THEN a.val ELSE Seen(card, win, c)[c]
         /\ filesys' = Volume!Counted(a.cell, Seen(card, win, a.cell)[a.cell], a.val)
<1> DEFINE m == Volume!move_window(a.at)
           d == m.win.data
           q == [d EXCEPT ![a.cell] = a.val]
           f == Volume!FatSect(a.cell)
<1>1. /\ a.do = "set" /\ a.cell \in Volume!Clusters /\ a.val \in Nat /\ a.at = f
      /\ f[1] = "fat" /\ f \in Volume!Sectors /\ a.cell \in FatCells(a.cell)
  BY FatSectors DEF OnFat
<1>2. /\ card' = m.disk /\ win' = [sect |-> a.at, data |-> q, dirty |-> TRUE]
      /\ filesys' = IF a.at[1] = "fat" THEN Volume!Counted(a.cell, d[a.cell], a.val) ELSE filesys
  BY <1>1 DEF Volume!Perform
<1>3. filesys' = Volume!Counted(a.cell, d[a.cell], a.val)
  BY <1>1, <1>2
<1>4. /\ FatState(m.disk, m.win) /\ m.win.sect = a.at
      /\ \A c \in Volume!Clusters : Seen(m.disk, m.win, c) = Seen(card, win, c)
  BY Moved
<1> HIDE DEF m
<1>5. d \in [FatCells(a.cell) -> Nat]
  BY <1>1, <1>4 DEF FatState
<1>6. \A c \in Volume!Clusters : a.at = Volume!FatSect(c) =>
        FatCells(c) = FatCells(a.cell) /\ Seen(card, win, c) = d /\ c \in FatCells(a.cell)
  BY <1>1, <1>4 DEF FatCells, Seen
<1> HIDE DEF d
<1>7. q \in [FatCells(a.cell) -> Nat]
  BY <1>1, <1>5
<1>8. /\ q[a.cell] = a.val
      /\ \A c \in FatCells(a.cell) : c # a.cell => q[c] = d[c]
  BY <1>1, <1>5
<1> HIDE DEF q, f
<1>9. win'.sect = a.at /\ win'.data = q /\ win'.dirty = TRUE
  BY <1>2
<1>10. DOMAIN win' = {"sect", "data", "dirty"}
  BY <1>2, <1>9
<1>11. FatState(card', win')
  BY <1>2, <1>4, <1>6, <1>7, <1>9, <1>10 DEF FatState
<1>12. ASSUME NEW c \in Volume!Clusters
       PROVE  Seen(card', win', c)[c] = IF c = a.cell THEN a.val ELSE Seen(card, win, c)[c]
  <2>1. CASE a.at = Volume!FatSect(c)
    <3>1. Seen(card', win', c) = q /\ Seen(card, win, c) = d /\ c \in FatCells(a.cell)
      BY <1>6, <1>9, <2>1 DEF Seen
    <3> QED
      BY <1>8, <3>1
  <2>2. CASE a.at # Volume!FatSect(c)
    <3>1. Seen(card', win', c) = m.disk[Volume!FatSect(c)]
      BY <1>2, <1>9, <2>2 DEF Seen
    <3>2. Seen(card, win, c) = m.disk[Volume!FatSect(c)]
      BY <1>4, <2>2 DEF Seen
    <3>3. c # a.cell
      BY <1>1, <2>2 DEF f
    <3> QED
      BY <3>1, <3>2, <3>3
  <2> QED
    BY <2>1, <2>2
<1>13. d[a.cell] = Seen(card, win, a.cell)[a.cell]
  BY <1>1, <1>6 DEF f
<1> QED
  BY <1>3, <1>11, <1>12, <1>13

\* The window is filled without a read, it is clean before.
LEMMA NewStep ==
  ASSUME FatState(card, win), DOMAIN filesys = {"free", "last", "flag"}, NEW a, a.do = "new",
         OnTable(a), ~ win.dirty, Volume!Perform(a)
  PROVE  Unseen
<1>1. PICK x : a.at = Volume!ClustSect(x)
  BY DEF OnTable
<1>2. \A c \in Volume!Clusters : Volume!FatSect(c) # a.at
  BY <1>1, FatSectors
<1>3. /\ win' = [sect |-> a.at, data |-> a.val, dirty |-> TRUE]
      /\ card' = card /\ filesys' = filesys
  BY DEF Volume!Perform
<1>4. win'.sect = a.at /\ win'.data = a.val /\ win'.dirty = TRUE
  BY <1>3
<1>5. DOMAIN win' = {"sect", "data", "dirty"}
  BY <1>3, <1>4
<1>6. FatState(card', win')
  BY <1>2, <1>3, <1>4, <1>5 DEF FatState
<1>7. \A c \in Volume!Clusters : Seen(card', win', c) = Seen(card, win, c)
  BY <1>2, <1>3, <1>4 DEF Seen, FatState
<1> QED
  BY <1>3, <1>6, <1>7 DEF Unseen

\* sync_window, which leaves the window clean.
LEMMA FlushStep ==
  ASSUME FatState(card, win), DOMAIN filesys = {"free", "last", "flag"}, NEW a, a.do = "flush",
         Volume!Perform(a)
  PROVE  Unseen /\ ~ win'.dirty
<1> DEFINE g == Volume!Flushed
<1>1. card' = g /\ win' = [win EXCEPT !.dirty = FALSE] /\ filesys' = filesys
  BY DEF Volume!Perform
<1>2. /\ g = [s \in Volume!Sectors |-> g[s]]
      /\ \A c \in Volume!Clusters : /\ g[Volume!FatSect(c)] = Seen(card, win, c)
                                    /\ g[Volume!FatSect(c)] \in [FatCells(c) -> Nat]
  BY FlushedIs
<1> HIDE DEF g
<1>3. DOMAIN win = {"sect", "data", "dirty"}
  BY DEF FatState
<1>4. win'.sect = win.sect /\ win'.data = win.data /\ win'.dirty = FALSE
  BY <1>1, <1>3
<1>5. DOMAIN win' = {"sect", "data", "dirty"}
  BY <1>1, <1>3
<1>6. ASSUME NEW c \in Volume!Clusters, win.sect = Volume!FatSect(c)
      PROVE  win.data = g[Volume!FatSect(c)]
  BY <1>2, <1>6 DEF Seen
<1>7. FatState(card', win')
  BY <1>1, <1>2, <1>4, <1>5, <1>6 DEF FatState
<1>8. \A c \in Volume!Clusters : Seen(card', win', c) = Seen(card, win, c)
  BY <1>1, <1>2, <1>4, <1>6 DEF Seen
<1> QED
  BY <1>1, <1>4, <1>7, <1>8 DEF Unseen

\* A cluster of a file is written past the window.
LEMMA DataStep ==
  ASSUME FatState(card, win), DOMAIN filesys = {"free", "last", "flag"}, NEW a, a.do = "data",
         OnTable(a), Volume!Perform(a)
  PROVE  Unseen
<1>1. PICK x : a.at = Volume!ClustSect(x)
  BY DEF OnTable
<1>2. \A c \in Volume!Clusters : Volume!FatSect(c) # a.at /\ Volume!FatSect(c) \in Volume!Sectors
  BY <1>1, FatSectors
<1>3. card' = [card EXCEPT ![a.at] = a.val] /\ win' = win /\ filesys' = filesys
  BY DEF Volume!Perform
<1>4. DOMAIN card = Volume!Sectors
  BY DEF FatState
<1>5. /\ card' = [s \in Volume!Sectors |-> card'[s]]
      /\ \A c \in Volume!Clusters : card'[Volume!FatSect(c)] = card[Volume!FatSect(c)]
  BY <1>2, <1>3, <1>4
<1>6. FatState(card', win')
  BY <1>3, <1>5 DEF FatState
<1>7. \A c \in Volume!Clusters : Seen(card', win', c) = Seen(card, win, c)
  BY <1>3, <1>5 DEF Seen
<1> QED
  BY <1>3, <1>6, <1>7 DEF Unseen

\* f_open sets last_clust.
LEMMA LastStep ==
  ASSUME FatState(card, win), DOMAIN filesys = {"free", "last", "flag"}, NEW a, a.do = "last",
         Volume!Perform(a)
  PROVE  Unseen
<1>1. card' = card /\ win' = win /\ filesys' = [filesys EXCEPT !.last = a.val]
  BY DEF Volume!Perform
<1>2. DOMAIN filesys' = {"free", "last", "flag"} /\ filesys'.free = filesys.free
  BY <1>1
<1> QED
  BY <1>1, <1>2 DEF Unseen

\* sync_fs writes FSINFO through the window, which is clean before.
LEMMA InfoStep ==
  ASSUME FatState(card, win), DOMAIN filesys = {"free", "last", "flag"}, NEW a, a.do = "fsinfo",
         ~ win.dirty, Volume!Perform(a)
  PROVE  Unseen
<1> DEFINE info == [free |-> filesys.free, last |-> filesys.last]
<1>1. CASE filesys.flag
  <2>1. /\ card' = [card EXCEPT ![Volume!FsInfo] = info]
        /\ win' = [sect |-> Volume!FsInfo, data |-> info, dirty |-> FALSE]
        /\ filesys' = [filesys EXCEPT !.flag = FALSE]
    BY <1>1 DEF Volume!Perform
  <2> HIDE DEF info
  <2>2. \A c \in Volume!Clusters :
          Volume!FatSect(c) # Volume!FsInfo /\ Volume!FatSect(c) \in Volume!Sectors
    BY FatSectors
  <2>3. DOMAIN card = Volume!Sectors
    BY DEF FatState
  <2>4. /\ card' = [s \in Volume!Sectors |-> card'[s]]
        /\ \A c \in Volume!Clusters : card'[Volume!FatSect(c)] = card[Volume!FatSect(c)]
    BY <2>1, <2>2, <2>3
  <2>5. win'.sect = Volume!FsInfo /\ win'.data = info /\ win'.dirty = FALSE
    BY <2>1
  <2>6. DOMAIN win' = {"sect", "data", "dirty"}
    BY <2>1, <2>5
  <2>7. FatState(card', win')
    BY <2>2, <2>4, <2>5, <2>6 DEF FatState
  <2>8. \A c \in Volume!Clusters : Seen(card', win', c) = Seen(card, win, c)
    BY <2>2, <2>4, <2>5 DEF Seen, FatState
  <2>9. DOMAIN filesys' = {"free", "last", "flag"} /\ filesys'.free = filesys.free
    BY <2>1
  <2> QED
    BY <2>7, <2>8, <2>9 DEF Unseen
<1>2. CASE ~ filesys.flag
  <2>1. card' = card /\ win' = win /\ filesys' = filesys
    BY <1>2 DEF Volume!Perform
  <2> QED
    BY <2>1 DEF Unseen
<1> QED
  BY <1>1, <1>2

\* An access that is in order: only put_fat changes the FAT.
LEMMA AccessStep ==
  ASSUME FatState(card, win), DOMAIN filesys = {"free", "last", "flag"}, NEW a, Volume!Perform(a),
         Harmless(a) \/ OnTable(a), a.do \in {"new", "fsinfo"} => ~ win.dirty
  PROVE  Unseen
<1>1. CASE Harmless(a)
  BY <1>1, ReadStep, FlushStep, InfoStep, LastStep DEF Harmless
<1>2. CASE OnTable(a)
  BY <1>2, TableStep, NewStep, DataStep DEF OnTable
<1> QED
  BY <1>1, <1>2

-----------------------------------------------------------------------------
(* The number of free clusters.                                            *)

\* The free clusters as FatFs sees them, and free_clust.
FreeSeen(d, w) == {c \in Volume!Clusters : Seen(d, w, c)[c] = 0}
CountOK(d, w, f) ==
  /\ DOMAIN f = {"free", "last", "flag"} /\ f.free \in Nat
  /\ f.free # Volume!Unknown => f.free = Cardinality(FreeSeen(d, w))

\* The accesses that are left of a call: as in a plan, but its flush may be behind it.
QueueOK ==
  /\ IsSeq(todo)
  /\ \A i \in 1 .. Len(todo) :
       /\ Harmless(todo[i]) \/ OnFat(todo[i]) \/ OnTable(todo[i])
       /\ todo[i].do \in {"new", "fsinfo"} =>
            IF i = 1 THEN ~ win.dirty ELSE todo[i - 1].do = "flush"
  /\ FreesOnce(todo, Volume!View)

\* The inductive invariant, up to the first power loss.
CountInv ==
  /\ crashes \in Nat
  /\ crashes = 0 => FatState(card, win) /\ CountOK(card, win, filesys) /\ QueueOK

\* A number of clusters.
LEMMA FreeFinite ==
  ASSUME NEW d, NEW w
  PROVE  IsFiniteSet(FreeSeen(d, w)) /\ Cardinality(FreeSeen(d, w)) \in Nat
<1>1. IsFiniteSet(Volume!Clusters)
  BY FS_Interval, VolumeConstants
<1>2. FreeSeen(d, w) \subseteq Volume!Clusters
  BY DEF FreeSeen
<1>3. IsFiniteSet(FreeSeen(d, w))
  BY <1>1, <1>2, FS_Subset
<1> QED
  BY <1>3, FS_CardinalityType

\* A call that puts a plan in the queue.
LEMMA PlanQueued ==
  ASSUME NEW s, todo' = s, Plan(s, Volume!View), card' = card, win' = win
  PROVE  QueueOK'
<1>1. Volume!View' = Volume!View
  BY DEF Volume!View
<1>2. IsSeq(s) /\ \A i \in 1 .. Len(s) :
                    /\ Harmless(s[i]) \/ OnFat(s[i]) \/ OnTable(s[i])
                    /\ s[i].do \in {"new", "fsinfo"} => i > 1 /\ s[i - 1].do = "flush"
  BY DEF Plan, Orderly
<1>3. FreesOnce(todo', Volume!View')
  BY <1>1 DEF Plan
<1>4. \A i \in 1 .. Len(s) : i > 1 => i # 1
  OBVIOUS
<1>5. \A i \in 1 .. Len(s) : s[i].do \in {"new", "fsinfo"} =>
        IF i = 1 THEN ~ win'.dirty ELSE s[i - 1].do = "flush"
  BY <1>2, <1>4
<1> QED
  BY <1>2, <1>3, <1>5 DEF QueueOK

\* What the first access of the queue does to the FAT that FatFs sees.
LEMMA HeadStep ==
  ASSUME FatState(card, win), CountOK(card, win, filesys), QueueOK,
         Len(todo) \in Nat, Len(todo) >= 1,
         NEW a, a = todo[1], Volume!Perform(a)
  PROVE  /\ FatState(card', win')
         /\ \A c \in Volume!Clusters :
              Seen(card', win', c)[c] =
                IF OnFat(a) /\ c = a.cell THEN a.val ELSE Seen(card, win, c)[c]
         /\ IF OnFat(a)
            THEN filesys' = Volume!Counted(a.cell, Seen(card, win, a.cell)[a.cell], a.val)
            ELSE DOMAIN filesys' = {"free", "last", "flag"} /\ filesys'.free = filesys.free
         /\ a.do = "flush" => ~ win'.dirty
<1>1. 1 \in 1 .. Len(todo) /\ DOMAIN filesys = {"free", "last", "flag"}
  BY DEF CountOK
<1>2. /\ Harmless(a) \/ OnFat(a) \/ OnTable(a)
      /\ a.do \in {"new", "fsinfo"} => ~ win.dirty
  BY <1>1 DEF QueueOK
<1>3. a.do = "flush" => ~ win'.dirty
  BY <1>1, FlushStep
<1>4. CASE OnFat(a)
  BY <1>3, <1>4, PutStep
<1>5. CASE ~ OnFat(a)
  <2>1. Unseen
    BY <1>1, <1>2, <1>5, AccessStep
  <2> QED
    BY <1>3, <1>5, <2>1 DEF Unseen
<1> QED
  BY <1>4, <1>5

\* A cluster that is freed is in use then.
LEMMA FreedUsed ==
  ASSUME FatState(card, win), QueueOK, Len(todo) \in Nat, Len(todo) >= 1, Frees(todo[1])
  PROVE  Seen(card, win, todo[1].cell)[todo[1].cell] # 0
<1>1. 1 \in 1 .. Len(todo) /\ ~ \E j \in 1 .. 1 - 1 : TRUE
  OBVIOUS
<1>2. Volume!get_fat(Volume!View, todo[1].cell) # 0
  BY <1>1 DEF QueueOK, FreesOnce
<1>3. todo[1].cell \in Volume!Clusters
  BY DEF Frees, OnFat
<1> QED
  BY <1>2, <1>3, GetFat

\* The count follows the FAT.
LEMMA CountStep ==
  ASSUME FatState(card, win), CountOK(card, win, filesys), QueueOK,
         Len(todo) \in Nat, Len(todo) >= 1,
         NEW a, a = todo[1], Volume!Perform(a)
  PROVE  CountOK(card', win', filesys')
<1> DEFINE F == FreeSeen(card, win)
           G == FreeSeen(card', win')
           n == filesys.free
<1>1. /\ \A c \in Volume!Clusters :
           Seen(card', win', c)[c] = IF OnFat(a) /\ c = a.cell THEN a.val ELSE Seen(card, win, c)[c]
      /\ IF OnFat(a) THEN filesys' = Volume!Counted(a.cell, Seen(card, win, a.cell)[a.cell], a.val)
         ELSE DOMAIN filesys' = {"free", "last", "flag"} /\ filesys'.free = filesys.free
  BY HeadStep
<1>2. /\ DOMAIN filesys = {"free", "last", "flag"} /\ n \in Nat
      /\ n # Volume!Unknown => n = Cardinality(F)
  BY DEF CountOK
<1>3. IsFiniteSet(F) /\ Cardinality(F) \in Nat /\ Volume!Unknown \in Nat
  BY FreeFinite, VolumeConstants DEF Volume!Unknown
<1>4. CASE ~ OnFat(a)
  <2>1. G = F
    BY <1>1, <1>4 DEF FreeSeen
  <2> QED
    BY <1>1, <1>2, <1>4, <2>1 DEF CountOK
<1>5. CASE OnFat(a)
  <2> DEFINE c == a.cell
             old == Seen(card, win, c)[c]
  <2>1. c \in Volume!Clusters /\ a.val \in Nat /\ filesys' = Volume!Counted(c, old, a.val)
    BY <1>1, <1>5 DEF OnFat
  <2>2. \A x \in Volume!Clusters : x \in G <=> (IF x = c THEN a.val = 0 ELSE x \in F)
    BY <1>1, <1>5 DEF FreeSeen
  <2>3. G \subseteq Volume!Clusters /\ F \subseteq Volume!Clusters /\ (c \in F <=> old = 0)
    BY <2>1 DEF FreeSeen
  <2> HIDE DEF F, G, n, c, old
  <2>4. CASE old = 0 /\ a.val # 0
    <3>1. G = F \ {c} /\ c \in F
      BY <2>1, <2>2, <2>3, <2>4
    <3>2. Cardinality(G) = Cardinality(F) - 1
      BY <1>3, <3>1, FS_RemoveElement
    <3>3. filesys' = [free |-> Volume!Less(n), last |-> c, flag |-> Volume!Flagged]
      BY <2>1, <2>4 DEF Volume!Counted, n
    <3>4. DOMAIN filesys' = {"free", "last", "flag"} /\ filesys'.free = Volume!Less(n)
      BY <3>3
    <3>5. Cardinality(F) # 0
      BY <1>3, <3>1, FS_EmptySet
    <3>6. Volume!Less(n) = IF n \in {0, Volume!Unknown} THEN Volume!Unknown ELSE n - 1
      BY DEF Volume!Less
    <3>7. /\ filesys'.free \in Nat
          /\ filesys'.free # Volume!Unknown => filesys'.free = Cardinality(G)
      BY <1>2, <1>3, <3>2, <3>4, <3>5, <3>6
    <3> QED
      BY <3>4, <3>7 DEF CountOK, G
  <2>5. CASE a.val = 0
    <3>1. old # 0
      BY <1>5, <2>5, FreedUsed DEF Frees, old, c
    <3>2. G = F \cup {c} /\ c \notin F
      BY <2>1, <2>2, <2>3, <2>5, <3>1
    <3>3. Cardinality(G) = Cardinality(F) + 1
      BY <1>3, <3>2, FS_AddElement
    <3>4. filesys' = [filesys EXCEPT !.free = Volume!More(@), !.flag = Volume!Flagged]
      BY <2>1, <2>5, <3>1 DEF Volume!Counted
    <3>5. DOMAIN filesys' = {"free", "last", "flag"} /\ filesys'.free = Volume!More(n)
      BY <1>2, <3>4 DEF n
    <3>6. Volume!More(n) = IF n = Volume!Unknown THEN Volume!Unknown ELSE n + 1
      BY DEF Volume!More
    <3>7. /\ filesys'.free \in Nat
          /\ filesys'.free # Volume!Unknown => filesys'.free = Cardinality(G)
      BY <1>2, <1>3, <3>3, <3>5, <3>6
    <3> QED
      BY <3>5, <3>7 DEF CountOK, G
  <2>6. CASE old # 0 /\ a.val # 0
    <3>1. G = F
      BY <2>1, <2>2, <2>3, <2>6
    <3>2. filesys' = filesys
      BY <2>1, <2>6 DEF Volume!Counted
    <3> QED
      BY <3>1, <3>2 DEF CountOK, F, G
  <2> QED
    BY <2>4, <2>5, <2>6
<1> QED
  BY <1>4, <1>5

\* The queue after its first access.
LEMMA QueueStep ==
  ASSUME FatState(card, win), CountOK(card, win, filesys), QueueOK,
         Len(todo) \in Nat, Len(todo) >= 1,
         todo' = Tail(todo), NEW a, a = todo[1], Volume!Perform(a)
  PROVE  QueueOK'
<1> DEFINE t == Tail(todo)
<1>1. /\ FatState(card', win')
      /\ \A c \in Volume!Clusters :
           Seen(card', win', c)[c] = IF OnFat(a) /\ c = a.cell THEN a.val ELSE Seen(card, win, c)[c]
      /\ a.do = "flush" => ~ win'.dirty
  BY HeadStep
<1>2. PICK S : todo \in Seq(S)
  BY DEF QueueOK, IsSeq
<1>3. /\ t \in Seq(S) /\ Len(t) = Len(todo) - 1
      /\ \A i \in 1 .. Len(t) : t[i] = todo[i + 1] /\ i + 1 \in 1 .. Len(todo)
  BY <1>2
<1>4. IsSeq(t)
  BY <1>3 DEF IsSeq
<1>5. 1 \in 1 .. Len(todo)
  OBVIOUS
<1> HIDE DEF t
<1>6. ASSUME NEW i \in 1 .. Len(t)
      PROVE  /\ Harmless(t[i]) \/ OnFat(t[i]) \/ OnTable(t[i])
             /\ t[i].do \in {"new", "fsinfo"} =>
                  IF i = 1 THEN ~ win'.dirty ELSE t[i - 1].do = "flush"
  <2>1. /\ t[i] = todo[i + 1] /\ i + 1 \in 1 .. Len(todo) /\ i + 1 # 1 /\ (i + 1) - 1 = i
    BY <1>3
  <2>2. /\ Harmless(t[i]) \/ OnFat(t[i]) \/ OnTable(t[i])
        /\ t[i].do \in {"new", "fsinfo"} => todo[i].do = "flush"
    BY <2>1 DEF QueueOK
  <2>3. i # 1 => t[i - 1] = todo[i]
    <3> SUFFICES ASSUME i # 1 PROVE t[i - 1] = todo[i]
      OBVIOUS
    <3>1. i - 1 \in 1 .. Len(t) /\ (i - 1) + 1 = i
      BY <1>3
    <3> QED
      BY <1>3, <3>1
  <2> QED
    BY <1>1, <2>2, <2>3
<1>7. \A c \in Volume!Clusters : /\ Volume!get_fat(Volume!View, c) = Seen(card, win, c)[c]
                                 /\ Volume!get_fat(Volume!View', c) = Seen(card', win', c)[c]
  <2>1. \A c \in Volume!Clusters : Volume!get_fat(Volume!View, c) = Seen(card, win, c)[c]
    BY GetFat
  <2>2. (FatState(card, win) =>
           \A c \in Volume!Clusters :
             /\ Volume!get_fat(Volume!View, c) = Seen(card, win, c)[c]
             /\ Seen(card, win, c)[c] \in Nat /\ Seen(card, win, c) \in [FatCells(c) -> Nat])'
    BY GetFat, PTL
  <2>3. \A c \in Volume!Clusters : Volume!get_fat(Volume!View', c) = Seen(card', win', c)[c]
    BY <1>1, <2>2
  <2> QED
    BY <2>1, <2>3
<1>8. \A c \in Volume!Clusters :
        Volume!get_fat(Volume!View', c) = IF OnFat(a) /\ c = a.cell THEN a.val
                                          ELSE Volume!get_fat(Volume!View, c)
  BY <1>1, <1>7
<1>9. ASSUME NEW i \in 1 .. Len(t), Frees(t[i])
      PROVE  /\ \A j \in 1 .. Len(t) : Frees(t[j]) /\ t[j].cell = t[i].cell => i = j
             /\ \/ Volume!get_fat(Volume!View', t[i].cell) # 0
                \/ \E j \in 1 .. i - 1 : Uses(t[j]) /\ t[j].cell = t[i].cell
  <2>1. /\ t[i] = todo[i + 1] /\ i + 1 \in 1 .. Len(todo) /\ i + 1 # 1
        /\ t[i].cell \in Volume!Clusters
    BY <1>3, <1>9 DEF Frees, OnFat
  <2>2. /\ \A j \in 1 .. Len(todo) : Frees(todo[j]) /\ todo[j].cell = t[i].cell => i + 1 = j
        /\ \/ Volume!get_fat(Volume!View, t[i].cell) # 0
           \/ \E j \in 1 .. (i + 1) - 1 : Uses(todo[j]) /\ todo[j].cell = t[i].cell
    BY <1>9, <2>1 DEF QueueOK, FreesOnce
  <2>3. ASSUME NEW j \in 1 .. Len(t), Frees(t[j]), t[j].cell = t[i].cell PROVE i = j
    <3>1. t[j] = todo[j + 1] /\ j + 1 \in 1 .. Len(todo)
      BY <1>3
    <3>2. i + 1 = j + 1
      BY <2>2, <2>3, <3>1
    <3> QED
      BY <3>2
  <2>4. ~ (Frees(a) /\ a.cell = t[i].cell)
    BY <1>5, <2>1, <2>2
  <2>5. CASE OnFat(a) /\ a.cell = t[i].cell
    <3>1. a.val # 0
      BY <2>4, <2>5 DEF Frees
    <3>2. Volume!get_fat(Volume!View', t[i].cell) # 0
      BY <1>8, <2>1, <2>5, <3>1
    <3> QED
      BY <2>3, <3>2
  <2>6. CASE ~ (OnFat(a) /\ a.cell = t[i].cell)
    <3>1. Volume!get_fat(Volume!View', t[i].cell) = Volume!get_fat(Volume!View, t[i].cell)
      BY <1>8, <2>1, <2>6
    <3>2. ASSUME NEW j \in 1 .. (i + 1) - 1, Uses(todo[j]), todo[j].cell = t[i].cell
          PROVE  \E k \in 1 .. i - 1 : Uses(t[k]) /\ t[k].cell = t[i].cell
      <4>1. j # 1
        BY <2>6, <3>2 DEF Uses
      <4>2. j - 1 \in 1 .. i - 1 /\ j - 1 \in 1 .. Len(t) /\ (j - 1) + 1 = j
        BY <1>3, <4>1
      <4>3. t[j - 1] = todo[j]
        BY <1>3, <4>2
      <4> QED
        BY <3>2, <4>2, <4>3
    <3> QED
      BY <2>2, <2>3, <3>1, <3>2
  <2> QED
    BY <2>5, <2>6
<1>10. FreesOnce(t, Volume!View')
  BY <1>9 DEF FreesOnce
<1>11. todo' = t
  BY DEF t
<1> QED
  BY <1>4, <1>6, <1>10, <1>11 DEF QueueOK

\* One access keeps the invariant.
LEMMA StepCounts ==
  ASSUME CountInv, Volume!Step
  PROVE  CountInv'
<1>1. /\ todo # <<>> /\ todo' = Tail(todo) /\ Volume!Perform(Head(todo)) /\ crashes' = crashes
  BY DEF Volume!Step
<1> SUFFICES ASSUME crashes = 0
             PROVE  (FatState(card, win) /\ CountOK(card, win, filesys) /\ QueueOK)'
  BY <1>1 DEF CountInv
<1>2. FatState(card, win) /\ CountOK(card, win, filesys) /\ QueueOK
  BY DEF CountInv
<1>3. PICK S : todo \in Seq(S)
  BY <1>2 DEF QueueOK, IsSeq
<1>4. Len(todo) \in Nat /\ Len(todo) >= 1 /\ Head(todo) = todo[1]
  BY <1>1, <1>3
<1>5. Volume!Perform(todo[1])
  BY <1>1, <1>4
<1>6. FatState(card', win')
  BY <1>2, <1>4, <1>5, HeadStep
<1>7. CountOK(card', win', filesys')
  BY <1>2, <1>4, <1>5, CountStep
<1>8. QueueOK'
  BY <1>1, <1>2, <1>4, <1>5, QueueStep
<1> QED
  BY <1>6, <1>7, <1>8

\* A call keeps the invariant if its accesses are a plan.
LEMMA CallCounts ==
  ASSUME CountInv, NEW s, NEW final, NEW also, Volume!Call(s, final, also), filesys' = filesys,
         crashes = 0 => Plan(s, Volume!View)
  PROVE  CountInv'
<1>1. todo' = s /\ card' = card /\ win' = win /\ crashes' = crashes
  BY DEF Volume!Call
<1>2. CASE crashes = 0
  BY <1>1, <1>2, PlanQueued DEF CountInv
<1>3. CASE crashes # 0
  BY <1>1, <1>3 DEF CountInv
<1> QED
  BY <1>2, <1>3

-----------------------------------------------------------------------------
(* The calls.                                                              *)

\* f_open of a new file.
LEMMA OpenNewCounts ==
  ASSUME CountInv, NEW n, Volume!f_open_new(n)
  PROVE  CountInv'
<1> DEFINE r == Volume!dir_register(Volume!View, Volume!Entry(n, 0, 0), filesys.last)
<1>1. /\ r.ok /\ filesys' = filesys
      /\ Volume!Call(Volume!follow_path(Volume!View, n) \o r.accesses, Volume!None, (n :> {<<>>}))
  BY DEF Volume!f_open_new
<1>2. Keeps(r.accesses) /\ Keeps(Volume!follow_path(Volume!View, n))
  BY <1>1, RegisterKeeps, FollowKeeps
<1> HIDE DEF r
<1>3. Plan(Volume!follow_path(Volume!View, n) \o r.accesses, Volume!View)
  BY <1>2, KeepsJoined, KeepsIsPlan
<1> QED
  BY <1>1, <1>3, CallCounts

\* f_open that empties a file.
LEMMA OverwriteCounts ==
  ASSUME CountInv, NEW n, Volume!f_open_overwrite(n)
  PROVE  CountInv'
<1> DEFINE p == Volume!Place(n)
           cl == Volume!At(Volume!View, p).clust
           way == Volume!follow_path(Volume!View, n)
           set == <<Volume!SetEntry(p, Volume!Entry(n, 0, 0))>>
           last == Volume!Access("last", <<>>, 0, cl - 1)
           back == <<last, Volume!Read(Volume!ClustSect(p[1]))>>
           rest == IF cl = 0 THEN <<>> ELSE Volume!remove_chain(Volume!View, cl) \o back
<1>1. /\ Volume!Call((way \o set) \o rest, Volume!None, (n :> {<<>>}))
      /\ filesys' = filesys
  BY DEF Volume!f_open_overwrite
<1>2. Keeps(way) /\ Keeps(set)
  BY FollowKeeps, EntryOne
<1>3. Keeps(back)
  <2>1. last.do = "last"
    BY AccessFields
  <2> HIDE DEF last
  <2>2. Keeps(<<last>>)
    BY <2>1, OneKeeps DEF Harmless, Frees, OnFat
  <2>3. Keeps(<<Volume!Read(Volume!ClustSect(p[1]))>>)
    BY ReadOne
  <2> QED
    BY <2>2, <2>3, TwoKeep
<1>4. Plan(Volume!remove_chain(Volume!View, cl), Volume!View)
  BY RemovesOnce
<1> HIDE DEF p, cl, way, set, back
<1>5. Plan(rest, Volume!View)
  BY <1>3, <1>4, PlanBefore, NoneKeeps, KeepsIsPlan
<1> HIDE DEF rest
<1>6. Plan((way \o set) \o rest, Volume!View)
  BY <1>2, <1>5, KeepsJoined, PlanBehind
<1> QED
  BY <1>1, <1>6, CallCounts

\* f_open of a file as it is.
LEMMA OpenCounts ==
  ASSUME CountInv, NEW n, Volume!f_open_existing(n)
  PROVE  CountInv'
<1>1. /\ Volume!Call(Volume!follow_path(Volume!View, n), Volume!None, Volume!None)
      /\ filesys' = filesys
  BY DEF Volume!f_open_existing
<1>2. Plan(Volume!follow_path(Volume!View, n), Volume!View)
  BY FollowKeeps, KeepsIsPlan
<1> QED
  BY <1>1, <1>2, CallCounts

\* f_write.
LEMMA WriteCounts ==
  ASSUME CountInv, Volume!f_write
  PROVE  CountInv'
<1> DEFINE cs == Volume!Chain(Volume!View, file.sclust)
           from == IF cs = <<>> THEN 0 ELSE cs[Len(cs)]
           r == Volume!create_chain(Volume!View, from, filesys.last)
           new == IF file.size < Len(cs) THEN cs[file.size + 1] ELSE r.new
           look == IF file.size = 0 THEN <<>> ELSE <<Volume!Read(Volume!FatSect(cs[file.size]))>>
           first == IF file.size < Len(cs) THEN look ELSE r.accesses
           put == Volume!Access("data", Volume!ClustSect(new), 0, Volume!Data(file.name))
<1>1. /\ new # 0 /\ filesys' = filesys
      /\ Volume!Call(first \o <<put>>, Volume!None, Volume!None)
  BY DEF Volume!f_write
<1>2. from = 0 \/ from \in Volume!Clusters
  <2>1. cs \in Seq(Volume!Clusters)
    BY ChainIs DEF IsChain
  <2> HIDE DEF cs
  <2> QED
    BY <2>1
<1>3. Keeps(<<put>>)
  <2>1. put.do = "data" /\ put.at = Volume!ClustSect(new)
    BY AccessFields
  <2> HIDE DEF put, new
  <2>2. OnTable(put) /\ ~ Frees(put)
    BY <2>1 DEF OnTable, Frees, OnFat
  <2> QED
    BY <2>1, <2>2, OneKeeps
<1>4. Keeps(first)
  <2>1. Keeps(look)
    BY NoneKeeps, ReadOne
  <2> HIDE DEF look, from, cs
  <2>2. CASE file.size < Len(cs)
    BY <2>1, <2>2
  <2>3. CASE ~ (file.size < Len(cs))
    <3>1. r.new # 0
      BY <1>1, <2>3
    <3>2. Keeps(r.accesses)
      BY <1>2, <3>1, CreateKeeps
    <3> QED
      BY <2>3, <3>2
  <2> QED
    BY <2>2, <2>3
<1> HIDE DEF first, put
<1>5. Plan(first \o <<put>>, Volume!View)
  BY <1>3, <1>4, KeepsJoined, KeepsIsPlan
<1> QED
  BY <1>1, <1>5, CallCounts

\* f_truncate.
LEMMA TruncateCounts ==
  ASSUME CountInv, NEW k \in Nat, Volume!f_truncate(k)
  PROVE  CountInv'
<1> DEFINE cs == Volume!Chain(Volume!View, file.sclust)
           read == Volume!Read(Volume!FatSect(cs[k]))
           end == Volume!put_fat(cs[k], Volume!EOC)
           all == Volume!remove_chain(Volume!View, file.sclust)
           rest == Volume!remove_chain(Volume!View, cs[k + 1])
           s == IF k = 0 THEN all
                ELSE IF Len(cs) = k THEN <<read>> ELSE <<read, end>> \o rest
<1>1. /\ k <= Len(cs) /\ filesys' = filesys
      /\ Volume!Call(s, Volume!None, Volume!None)
  BY DEF Volume!f_truncate
<1>2. cs \in Seq(Volume!Clusters)
  BY ChainIs DEF IsChain
<1>3. Plan(all, Volume!View) /\ Plan(rest, Volume!View) /\ Keeps(<<read>>)
  BY RemovesOnce, ReadOne
<1> HIDE DEF cs, all, rest, read
<1>4. CASE k = 0
  BY <1>1, <1>3, <1>4, CallCounts
<1>5. CASE k # 0
  <2>1. cs[k] \in Volume!Clusters
    BY <1>1, <1>2, <1>5
  <2>2. Keeps(<<end>>)
    BY <2>1, LinkOne, VolumeConstants
  <2> HIDE DEF end
  <2>3. Keeps(<<read, end>>)
    BY <1>3, <2>2, TwoKeep
  <2>4. Plan(<<read, end>> \o rest, Volume!View)
    BY <1>3, <2>3, PlanBehind
  <2>5. Plan(<<read>>, Volume!View)
    BY <1>3, KeepsIsPlan
  <2>6. Plan(s, Volume!View)
    BY <1>5, <2>4, <2>5
  <2> HIDE DEF s
  <2> QED
    BY <1>1, <2>6, CallCounts
<1> QED
  BY <1>4, <1>5

\* What f_sync does when the file was written.
LEMMA SyncedPlan == Plan(Volume!Synced, Volume!View)
<1> DEFINE set == <<Volume!SetEntry(file.place, Volume!Entry(file.name, file.sclust, file.size))>>
<1>1. Keeps(set)
  BY EntryOne
<1> HIDE DEF set
<1>2. Volume!Synced = set \o Volume!sync_fs
  BY DEF Volume!Synced, set
<1> QED
  BY <1>1, <1>2, SyncKeeps, KeepsJoined, KeepsIsPlan

\* f_sync and f_close.
LEMMA CloseCounts ==
  ASSUME CountInv, Volume!f_sync \/ Volume!f_close
  PROVE  CountInv'
<1>1. /\ filesys' = filesys
      /\ \/ Volume!Call(Volume!Synced, (file.name :> Volume!OpenData),
                        (file.name :> {Volume!OpenData}))
         \/ Volume!Call(<<>>, Volume!None, Volume!None)
  BY DEF Volume!f_sync, Volume!f_close
<1>2. Plan(<<>>, Volume!View)
  BY NoneKeeps, KeepsIsPlan
<1> QED
  BY <1>1, <1>2, SyncedPlan, CallCounts

\* f_unlink.
LEMMA UnlinkCounts ==
  ASSUME CountInv, NEW n, Volume!f_unlink(n)
  PROVE  CountInv'
<1> DEFINE p == Volume!Place(n)
           c == Volume!At(Volume!View, p).clust
           way == Volume!follow_path(Volume!View, n)
           one == <<Volume!Read(Volume!ClustSect(c))>>
           two == <<Volume!Read(Volume!ClustSect(p[1]))>>
           look == IF n \in Dirs THEN one \o two ELSE <<>>
           gone == Volume!dir_remove(Volume!View, Volume!dir_find(Volume!View, n))
           free == Volume!remove_chain(Volume!View, c)
<1>1. /\ Volume!Call((way \o look) \o ((gone \o free) \o Volume!sync_fs),
                     (n :> Volume!Absent), (n :> {Volume!Absent}))
      /\ filesys' = filesys
  BY DEF Volume!f_unlink, Volume!Unlinked
<1>2. Keeps(way) /\ Keeps(one) /\ Keeps(two)
  BY FollowKeeps, ReadOne
<1>3. Keeps(gone)
  BY RemoveKeeps DEF Volume!f_unlink, Volume!Here
<1>4. Plan(free, Volume!View)
  BY RemovesOnce
<1> HIDE DEF p, c, way, one, two, gone, free
<1>5. Keeps(look)
  BY <1>2, NoneKeeps, KeepsJoined
<1> HIDE DEF look
<1>6. Plan((gone \o free) \o Volume!sync_fs, Volume!View)
  BY <1>3, <1>4, SyncKeeps, PlanBehind, PlanBefore
<1>7. Plan((way \o look) \o ((gone \o free) \o Volume!sync_fs), Volume!View)
  BY <1>2, <1>5, <1>6, KeepsJoined, PlanBehind
<1> QED
  BY <1>1, <1>7, CallCounts

\* f_rename.
LEMMA RenameCounts ==
  ASSUME CountInv, NEW n, NEW m, Volume!f_rename(n, m)
  PROVE  CountInv'
<1> DEFINE p == Volume!Place(n)
           e == Volume!At(Volume!View, p)
           r == Volume!dir_register(Volume!View, Volume!Entry(m, e.clust, e.size), filesys.last)
           now == Volume!Content(Volume!View, n)
           way == Volume!follow_path(Volume!View, n)
           way2 == Volume!follow_path(Volume!View, m)
           gone == Volume!dir_remove(Volume!View, Volume!dir_find(Volume!View, n))
           s == (((way \o way2) \o r.accesses) \o gone) \o Volume!sync_fs
<1>1. /\ r.ok /\ filesys' = filesys
      /\ Volume!Call(s, (n :> Volume!Absent @@ m :> now), (n :> {Volume!Absent} @@ m :> {now}))
  BY DEF Volume!f_rename
<1>2. Keeps(r.accesses)
  BY <1>1, RegisterKeeps
<1>3. Keeps(way) /\ Keeps(way2) /\ Keeps(gone)
  BY FollowKeeps, RemoveKeeps DEF Volume!f_rename, Volume!Here
<1> HIDE DEF p, e, r, now, way, way2, gone
<1>4. Keeps((way \o way2) \o r.accesses)
  BY <1>2, <1>3, KeepsJoined
<1>5. Keeps(s)
  BY <1>3, <1>4, SyncKeeps, KeepsJoined
<1> HIDE DEF s
<1> QED
  BY <1>1, <1>5, KeepsIsPlan, CallCounts

\* A sequence of accesses that marks a cluster.
Marks(s, c) == \E i \in 1 .. Len(s) : Uses(s[i]) /\ s[i].cell = c

\* It may be part of a longer one.
LEMMA MarksJoined ==
  ASSUME NEW s, NEW t, NEW c, IsSeq(s), IsSeq(t), Marks(s, c) \/ Marks(t, c)
  PROVE  Marks(s \o t, c)
<1>1. /\ Len(s) \in Nat /\ Len(t) \in Nat /\ Len(s \o t) = Len(s) + Len(t)
      /\ \A i \in 1 .. Len(s) : (s \o t)[i] = s[i]
      /\ \A i \in 1 .. Len(t) : (s \o t)[Len(s) + i] = t[i]
  BY Joined
<1>2. CASE Marks(s, c)
  <2>1. PICK i \in 1 .. Len(s) : Uses(s[i]) /\ s[i].cell = c
    BY <1>2 DEF Marks
  <2>2. i \in 1 .. Len(s \o t)
    BY <1>1
  <2> QED
    BY <1>1, <2>1, <2>2 DEF Marks
<1>3. CASE Marks(t, c)
  <2>1. PICK i \in 1 .. Len(t) : Uses(t[i]) /\ t[i].cell = c
    BY <1>3 DEF Marks
  <2>2. Len(s) + i \in 1 .. Len(s \o t)
    BY <1>1
  <2> QED
    BY <1>1, <2>1, <2>2 DEF Marks
<1> QED
  BY <1>2, <1>3

\* A cluster may be freed in the call that marked it.
LEMMA PlanUndone ==
  ASSUME NEW s, NEW t, NEW c, NEW v, Keeps(s), Marks(s, c), Orderly(t), Len(t) <= 1,
         \A i \in 1 .. Len(t) : t[i].cell = c
  PROVE  Plan(s \o t, v)
<1>1. /\ IsSeq(s) /\ IsSeq(t) /\ Orderly(s \o t) /\ Len(s) \in Nat /\ Len(t) \in Nat
      /\ \A k \in 1 .. Len(s) : (s \o t)[k] = s[k]
  BY Joined, OrderlyJoined DEF Keeps, Orderly
<1>2. ASSUME NEW i \in 1 .. Len(s \o t), Frees((s \o t)[i])
      PROVE  i = Len(s) + 1 /\ (s \o t)[i].cell = c
  <2>1. PICK k \in 1 .. Len(t) : i = Len(s) + k /\ (s \o t)[i] = t[k]
    BY <1>1, <1>2, InJoined DEF Keeps
  <2>2. k = 1
    BY <1>1
  <2> QED
    BY <2>1, <2>2
<1>3. PICK m \in 1 .. Len(s) : Uses(s[m]) /\ s[m].cell = c
  BY DEF Marks
<1>4. ASSUME NEW i \in 1 .. Len(s \o t), Frees((s \o t)[i])
      PROVE  \E j \in 1 .. i - 1 : Uses((s \o t)[j]) /\ (s \o t)[j].cell = (s \o t)[i].cell
  <2>1. m \in 1 .. i - 1 /\ (s \o t)[m] = s[m]
    BY <1>1, <1>2, <1>4
  <2> QED
    BY <1>2, <1>3, <1>4, <2>1
<1> QED
  BY <1>1, <1>2, <1>4 DEF Plan, FreesOnce

\* The chain of a new directory is its one cluster.
LEMMA MadeChain ==
  ASSUME FatState(card, win), NEW c \in Volume!Clusters
  PROVE  LET t == Volume!remove_chain(Volume!Made(Volume!View, c), c)
         IN Orderly(t) /\ Len(t) <= 1 /\ \A i \in 1 .. Len(t) : t[i].cell = c
<1> DEFINE v == Volume!View
           f == Volume!FatSect(c)
           m == Volume!Made(v, c)
           cs == Volume!Chain(m, c)
           t == Volume!remove_chain(m, c)
<1>1. DOMAIN v = Volume!Sectors /\ c \in DOMAIN v[f]
  <2>1. DOMAIN card = Volume!Sectors /\ f \in Volume!Sectors /\ c \in FatCells(c) /\ f # <<>>
    BY FatSectors DEF FatState
  <2>2. v = IF win.sect = <<>> THEN card ELSE [card EXCEPT ![win.sect] = win.data]
    BY DEF Volume!View
  <2>3. /\ card[f] \in [FatCells(c) -> Nat]
        /\ win.sect = f => win.data \in [FatCells(c) -> Nat]
    BY DEF FatState
  <2> HIDE DEF v, f
  <2>4. v[f] = IF win.sect = f THEN win.data ELSE card[f]
    BY <2>1, <2>2
  <2> QED
    BY <2>1, <2>2, <2>3, <2>4
<1>2. f \in Volume!Sectors /\ f # Volume!ClustSect(c)
  BY FatSectors
<1>3. m = [v EXCEPT ![f][c] = Volume!EOC,
                    ![Volume!ClustSect(c)] = Volume!Table(Volume!Entry(".", c, 0))]
  BY DEF Volume!Made
<1>4. Volume!get_fat(m, c) = m[f][c]
  BY DEF Volume!get_fat
<1> HIDE DEF v, f, m
<1>5. m[f][c] = Volume!EOC
  BY <1>1, <1>2, <1>3
<1>6. IsChain(m, c, cs)
  BY ChainIs
<1>7. cs \in Seq(Volume!Clusters) /\ Len(cs) \in Nat /\ DOMAIN cs = 1 .. Len(cs)
  BY <1>6 DEF IsChain
<1>8. t = [i \in 1 .. Len(cs) |-> Volume!put_fat(cs[i], 0)]
  BY <1>7 DEF Volume!remove_chain
<1>9. Orderly(t)
  BY RemovesOnce DEF Plan
<1> HIDE DEF cs, t
<1>10. Len(t) = Len(cs)
  BY <1>7, <1>8, Listed
<1>11. Len(cs) >= 1 => cs[1] = c
  BY <1>6, <1>7 DEF IsChain
<1>12. Len(cs) <= 1
  <2> SUFFICES ASSUME Len(cs) >= 2 PROVE FALSE
    BY <1>7
  <2>1. 2 \in 1 .. Len(cs) /\ 2 # 1 /\ 2 - 1 = 1
    BY <1>7
  <2>2. cs[2] = Volume!get_fat(m, cs[2 - 1])
    BY <1>6, <2>1 DEF IsChain
  <2>3. cs[2] = Volume!EOC
    BY <1>4, <1>5, <1>11, <2>1, <2>2
  <2> QED
    BY <1>7, <2>1, <2>3, VolumeConstants
<1>13. ASSUME NEW i \in 1 .. Len(t) PROVE t[i].cell = c
  <2>1. t[i] = Volume!put_fat(c, 0)
    BY <1>7, <1>8, <1>10, <1>11, <1>12
  <2> QED
    BY <2>1, FreeOne
<1> QED
  BY <1>9, <1>10, <1>12, <1>13 DEF t, m, v

\* f_mkdir.
LEMMA MkdirCounts ==
  ASSUME CountInv, NEW n, Volume!f_mkdir(n)
  PROVE  CountInv'
<1> DEFINE look == Volume!follow_path(Volume!View, n)
           c == Volume!create_chain(Volume!View, 0, filesys.last)
           fill == Volume!Access("new", Volume!ClustSect(c.new), 0,
                                 Volume!Table(Volume!Entry(".", c.new, 0)))
           table == <<Volume!Flush, fill, Volume!Flush>>
           first == (look \o c.accesses) \o table
           r == Volume!dir_register(Volume!Made(Volume!View, c.new),
                                    Volume!Entry(n, c.new, 0), c.new)
           undo == Volume!remove_chain(Volume!Made(Volume!View, c.new), c.new)
<1>1. /\ c.new # 0 /\ filesys' = filesys
      /\ IF r.ok THEN Volume!Call((first \o r.accesses) \o Volume!sync_fs,
                                  (n :> Volume!Directory), (n :> {Volume!Directory}))
         ELSE Volume!Call(first \o undo, Volume!None, Volume!None)
  BY DEF Volume!f_mkdir
<1>2. c.new \in Volume!Clusters /\ Keeps(c.accesses) /\ Marks(c.accesses, c.new)
  BY <1>1, CreateKeeps DEF Marks
<1>3. Keeps(look)
  BY FollowKeeps
<1>4. Keeps(table)
  <2>1. fill.do = "new" /\ fill.at = Volume!ClustSect(c.new)
    BY AccessFields
  <2> HIDE DEF fill, c
  <2>2. OnTable(fill)
    BY <2>1 DEF OnTable
  <2>3. Keeps(<<Volume!Read(<<>>)>>)
    BY ReadOne
  <2> QED
    BY <2>1, <2>2, <2>3, FilledKeeps
<1>5. r.ok => Keeps(r.accesses)
  BY RegisterKeeps
<1>6. crashes = 0 =>
        /\ Orderly(undo) /\ Len(undo) <= 1
        /\ \A i \in 1 .. Len(undo) : undo[i].cell = c.new
  <2> SUFFICES ASSUME crashes = 0
               PROVE  /\ Orderly(undo) /\ Len(undo) <= 1
                      /\ \A i \in 1 .. Len(undo) : undo[i].cell = c.new
    OBVIOUS
  <2>1. FatState(card, win)
    BY DEF CountInv
  <2> QED
    BY <1>2, <2>1, MadeChain
<1> HIDE DEF look, c, table, r, undo
<1>7. Keeps(look \o c.accesses)
  BY <1>2, <1>3, KeepsJoined
<1>8. Keeps(first)
  BY <1>4, <1>7, KeepsJoined
<1>9. Marks(look \o c.accesses, c.new)
  BY <1>2, <1>3, MarksJoined DEF Keeps, Orderly
<1>10. Marks(first, c.new)
  BY <1>4, <1>7, <1>9, MarksJoined DEF Keeps, Orderly
<1> HIDE DEF first
<1>11. CASE r.ok
  <2>1. Plan((first \o r.accesses) \o Volume!sync_fs, Volume!View)
    BY <1>5, <1>8, <1>11, SyncKeeps, KeepsJoined, KeepsIsPlan
  <2> QED
    BY <1>1, <1>11, <2>1, CallCounts
<1>12. CASE ~ r.ok
  <2>1. crashes = 0 => Plan(first \o undo, Volume!View)
    BY <1>6, <1>8, <1>10, PlanUndone
  <2> QED
    BY <1>1, <1>12, <2>1, CallCounts
<1> QED
  BY <1>11, <1>12

\* FatVolume counts as the lemmas about finite sets do.
LEMMA SameCount == ASSUME NEW S PROVE Volume!Cardinality(S) = Cardinality(S)
BY DEF Volume!Cardinality, Cardinality

\* f_getfree counts what there is.
LEMMA GetFreeCounts ==
  ASSUME CountInv, Volume!f_getfree
  PROVE  CountInv'
<1> DEFINE s == [i \in 1 .. Entries - 2 |-> Volume!Read(Volume!FatSect(i + 1))]
<1>1. /\ filesys' = [filesys EXCEPT !.free = Volume!Cardinality(Volume!FreeClusters(Volume!View)),
                                   !.flag = TRUE]
      /\ todo' = s /\ card' = card /\ win' = win /\ crashes' = crashes
  BY Zenon DEF Volume!f_getfree
<1> SUFFICES ASSUME crashes = 0
             PROVE  (FatState(card, win) /\ CountOK(card, win, filesys) /\ QueueOK)'
  BY <1>1 DEF CountInv
<1>2. FatState(card, win) /\ CountOK(card, win, filesys)
  BY DEF CountInv
<1>3. Keeps(s)
  <2>1. s = [i \in 1 .. Entries - 2 |-> s[i]] /\ \A i \in 1 .. Entries - 2 : s[i].do = "read"
    BY ReadOne
  <2>2. Entries - 2 \in Nat
    BY VolumeConstants
  <2> HIDE DEF s
  <2> QED
    BY <2>1, <2>2, ReadsKeep
<1> HIDE DEF s
<1>4. QueueOK'
  BY <1>1, <1>3, KeepsIsPlan, PlanQueued
<1>5. Volume!FreeClusters(Volume!View) = FreeSeen(card, win)
  BY <1>2, GetFat DEF Volume!FreeClusters, FreeSeen
<1>6. Cardinality(FreeSeen(card, win)) \in Nat
  BY FreeFinite
<1>7. DOMAIN filesys' = {"free", "last", "flag"} /\ filesys'.free = Cardinality(FreeSeen(card, win))
  BY <1>1, <1>2, <1>5, SameCount DEF CountOK
<1>8. CountOK(card', win', filesys')
  BY <1>1, <1>6, <1>7 DEF CountOK
<1> QED
  BY <1>1, <1>2, <1>4, <1>8

\* A card as it is at first.
LEMMA InitCounts == Volume!Init => CountInv
<1> SUFFICES ASSUME Volume!Init PROVE CountInv
  OBVIOUS
<1>1. PICK free \in {Entries - 3, Volume!Unknown} :
        /\ card = [s \in Volume!Sectors |->
             IF s = Volume!FsInfo THEN [free |-> free, last |-> Volume!dirbase]
             ELSE IF s = Volume!ClustSect(Volume!dirbase) THEN Volume!Table(Volume!End)
             ELSE IF s[1] = "cluster" THEN Volume!Data("old")
             ELSE [c \in {d \in Volume!Clusters : Volume!FatSect(d) = s} |->
                     IF c = Volume!dirbase THEN Volume!EOC ELSE 0]]
        /\ filesys = [free |-> free, last |-> Volume!dirbase, flag |-> FALSE]
  BY DEF Volume!Init
<1>2. /\ win = [sect |-> <<>>, data |-> <<>>, dirty |-> FALSE] /\ todo = <<>> /\ crashes = 0
  BY DEF Volume!Init
<1>3. ASSUME NEW c \in Volume!Clusters
      PROVE  /\ card[Volume!FatSect(c)] =
                  [x \in FatCells(c) |-> IF x = Volume!dirbase THEN Volume!EOC ELSE 0]
             /\ win.sect # Volume!FatSect(c)
  <2>1. /\ Volume!FatSect(c) \in Volume!Sectors /\ Volume!FatSect(c) # Volume!FsInfo
        /\ Volume!FatSect(c) # Volume!ClustSect(Volume!dirbase)
        /\ Volume!FatSect(c)[1] # "cluster" /\ Volume!FatSect(c) # <<>>
    BY FatSectors
  <2>2. card[Volume!FatSect(c)] =
          [x \in {d \in Volume!Clusters : Volume!FatSect(d) = Volume!FatSect(c)} |->
             IF x = Volume!dirbase THEN Volume!EOC ELSE 0]
    BY <1>1, <2>1
  <2> QED
    BY <1>2, <2>1, <2>2 DEF FatCells
<1>4. FatState(card, win)
  <2>1. card = [s \in Volume!Sectors |-> card[s]]
    BY <1>1
  <2>2. DOMAIN win = {"sect", "data", "dirty"}
    BY <1>2
  <2>3. \A c \in Volume!Clusters : card[Volume!FatSect(c)] \in [FatCells(c) -> Nat]
    <3> SUFFICES ASSUME NEW c \in Volume!Clusters
                 PROVE  card[Volume!FatSect(c)] \in [FatCells(c) -> Nat]
      OBVIOUS
    <3>1. card[Volume!FatSect(c)] =
            [x \in FatCells(c) |-> IF x = Volume!dirbase THEN Volume!EOC ELSE 0]
      BY <1>3
    <3> QED
      BY <3>1, VolumeConstants
  <2>4. \A c \in Volume!Clusters : win.sect # Volume!FatSect(c)
    BY <1>3
  <2> QED
    BY <2>1, <2>2, <2>3, <2>4, Zenon DEF FatState
<1>5. FreeSeen(card, win) = Volume!Clusters \ {Volume!dirbase}
  <2>1. ASSUME NEW c \in Volume!Clusters PROVE Seen(card, win, c)[c] = 0 <=> c # Volume!dirbase
    <3>1. Seen(card, win, c) = [x \in FatCells(c) |-> IF x = Volume!dirbase THEN Volume!EOC ELSE 0]
      BY <1>3 DEF Seen
    <3>2. c \in FatCells(c)
      BY FatSectors
    <3>3. Seen(card, win, c)[c] = IF c = Volume!dirbase THEN Volume!EOC ELSE 0
      BY <3>1, <3>2
    <3> QED
      BY <3>3, VolumeConstants
  <2>2. Volume!dirbase \in Volume!Clusters
    BY VolumeConstants
  <2> QED
    BY <2>1, <2>2 DEF FreeSeen
<1>6. Cardinality(FreeSeen(card, win)) = Entries - 3
  <2>1. IsFiniteSet(Volume!Clusters) /\ Cardinality(Volume!Clusters) = Entries - 2
    BY FS_Interval, VolumeConstants
  <2>2. Cardinality(Volume!Clusters \ {Volume!dirbase}) = Cardinality(Volume!Clusters) - 1
    BY <2>1, FS_RemoveElement, VolumeConstants, Zenon
  <2> QED
    BY <1>5, <2>1, <2>2, VolumeConstants
<1>7. CountOK(card, win, filesys)
  <2>1. DOMAIN filesys = {"free", "last", "flag"} /\ filesys.free = free
    BY <1>1
  <2>2. free \in Nat /\ (free # Volume!Unknown => free = Entries - 3)
    BY <1>1, VolumeConstants DEF Volume!Unknown
  <2> QED
    BY <1>6, <2>1, <2>2 DEF CountOK
<1>8. QueueOK
  <2>1. Keeps(<<>>) /\ Len(<<>>) = 0
    BY NoneKeeps
  <2> QED
    BY <1>2, <2>1 DEF QueueOK, Keeps, Orderly, FreesOnce
<1> QED
  BY <1>2, <1>4, <1>7, <1>8 DEF CountInv

\* Every step keeps the invariant.
LEMMA NextCounts == CountInv /\ [FatNext]_<<part, vars, volvars>> => CountInv'
<1> SUFFICES ASSUME CountInv, [FatNext]_<<part, vars, volvars>> PROVE CountInv'
  OBVIOUS
<1>1. CASE UNCHANGED volvars
  <2>1. card' = card /\ win' = win /\ filesys' = filesys /\ todo' = todo /\ crashes' = crashes
    BY <1>1 DEF volvars
  <2>2. Volume!View' = Volume!View
    BY <2>1 DEF Volume!View
  <2> QED
    BY <2>1, <2>2 DEF CountInv, QueueOK
<1>2. CASE Volume!Next
  <2>1. ASSUME NEW n, Volume!f_open_new(n) \/ Volume!f_open_overwrite(n) \/ Volume!f_open_existing(n)
        PROVE  CountInv'
    BY <2>1, OpenNewCounts, OverwriteCounts, OpenCounts
  <2>2. ASSUME Volume!f_write \/ Volume!f_sync \/ Volume!f_close \/ Volume!f_getfree \/ Volume!Step
        PROVE  CountInv'
    BY <2>2, WriteCounts, CloseCounts, GetFreeCounts, StepCounts
  <2>3. ASSUME NEW k \in 0 .. MaxSize, Volume!f_truncate(k) PROVE CountInv'
    <3>1. k \in Nat
      OBVIOUS
    <3> QED
      BY <2>3, <3>1, TruncateCounts
  <2>4. ASSUME NEW n, Volume!f_unlink(n) \/ Volume!f_mkdir(n) PROVE CountInv'
    BY <2>4, UnlinkCounts, MkdirCounts
  <2>5. ASSUME NEW n, NEW m, Volume!f_rename(n, m) PROVE CountInv'
    BY <2>5, RenameCounts
  <2>6. ASSUME Volume!Crash PROVE CountInv'
    <3>1. crashes' = crashes + 1 /\ crashes \in Nat
      BY <2>6 DEF Volume!Crash, CountInv
    <3>2. crashes' \in Nat /\ crashes' # 0
      BY <3>1
    <3> QED
      BY <3>2 DEF CountInv
  <2> QED
    BY <1>2, <2>1, <2>2, <2>3, <2>4, <2>5, <2>6, Zenon DEF Volume!Next
<1> QED
  BY <1>1, <1>2 DEF FatNext, volvars

\* The number that f_getfree returns is the number of free entries of the FAT between two calls,
\* up to the first power loss, for every size of the volume and any number of calls.
THEOREM FreeCountExact == FatSpec => []FreeExact
<1>1. FatInit => CountInv
  BY InitCounts DEF FatInit
<1>2. CountInv => FreeExact
  <2> SUFFICES ASSUME CountInv, crashes = 0, filesys.free # Volume!Unknown
               PROVE  filesys.free = Volume!Cardinality(Volume!FreeClusters(Volume!View))
    BY Zenon DEF FreeExact, Volume!FreeExact
  <2>1. FatState(card, win) /\ filesys.free = Cardinality(FreeSeen(card, win))
    BY DEF CountInv, CountOK
  <2>2. Volume!FreeClusters(Volume!View) = FreeSeen(card, win)
    BY <2>1, GetFat DEF Volume!FreeClusters, FreeSeen
  <2> QED
    BY <2>1, <2>2, SameCount
<1> QED
  BY <1>1, <1>2, NextCounts, PTL DEF FatSpec

==============================================================================
