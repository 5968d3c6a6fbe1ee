---------------------------- MODULE FatFileProofs ----------------------------
(***************************************************************************)
(* TLAPS proofs about FatFile, for every size of sectors, clusters, FAT    *)
(* and files, every set of clusters that belong to other files, and any    *)
(* number of calls and failing disk accesses.                              *)
(***************************************************************************)
EXTENDS FatFile, FiniteSetTheorems, WellFoundedInduction, TLAPS

-----------------------------------------------------------------------------
(* Arithmetic of sectors and clusters.                                     *)

\* The clusters are numbered from 2, no cluster has the number of the end mark, and a
\* cluster has at least one byte.
LEMMA Constants ==
  /\ SS \in Nat /\ SS > 0 /\ csize \in Nat /\ csize > 0 /\ n_fatent \in Nat
  /\ bcs \in Nat /\ bcs > 0 /\ bcs = csize * SS
  /\ Taken \subseteq Clusters /\ EOC \notin Clusters /\ EOC \in Nat
  /\ Clusters \subseteq Nat /\ 0 \notin Clusters
<1>1. /\ SS \in Nat /\ SS > 0 /\ csize \in Nat /\ csize > 0 /\ n_fatent \in Nat
      /\ Taken \subseteq Clusters /\ EOC \notin Clusters /\ EOC \in Nat
      /\ Clusters \subseteq Nat /\ 0 \notin Clusters
  BY FatFileAssumption DEF Clusters, EOC
<1>2. csize * SS \in Nat /\ csize * SS > 0
  BY <1>1
<1> QED
  BY <1>1, <1>2 DEF bcs

\* The start of a sector is at offset 0 of it.
LEMMA MultMod ==
  ASSUME NEW a \in Nat PROVE (a * SS) % SS = 0
BY Constants

\* An offset in a cluster is in one of its csize sectors.
LEMMA DivBound ==
  ASSUME NEW x \in Nat, x < bcs PROVE x \div SS \in Nat /\ x \div SS < csize
BY Constants

\* The start of the cluster that holds a byte is not past it.
LEMMA DivBelow ==
  ASSUME NEW x \in Nat
  PROVE  x \div bcs \in Nat /\ (x \div bcs) * bcs \in Nat /\ (x \div bcs) * bcs <= x
BY Constants

\* Multiplication by a natural number keeps the order.
LEMMA MultMono ==
  ASSUME NEW a \in Nat, NEW b \in Nat, NEW c \in Nat, a <= b
  PROVE  a * c \in Nat /\ b * c \in Nat /\ a * c <= b * c
OBVIOUS

\* The sectors of a cluster are on the disk.
Disk == 1 .. (n_fatent - 2) * csize

\* Where a cluster starts; all its sectors are on the disk.
LEMMA SectorsOnDisk ==
  ASSUME NEW c \in Clusters
  PROVE  /\ clust2sect(c) = (c - 2) * csize + 1 /\ clust2sect(c) \in Nat /\ clust2sect(c) > 0
         /\ SectorsOf(c) \subseteq Disk
         /\ \A j \in Nat : j < csize => clust2sect(c) + j \in SectorsOf(c)
<1>1. c - 2 \in Nat /\ c - 2 + 1 <= n_fatent - 2 /\ n_fatent - 2 \in Nat
  BY Constants DEF Clusters
<1>2. (c - 2) * csize \in Nat
  BY <1>1, Constants
<1>3. (c - 2 + 1) * csize <= (n_fatent - 2) * csize /\ (n_fatent - 2) * csize \in Nat
  BY <1>1, Constants, MultMono
<1>4. (c - 2 + 1) * csize = (c - 2) * csize + csize
  BY <1>1, Constants
<1>5. clust2sect(c) = (c - 2) * csize + 1
  BY DEF clust2sect
<1> QED
  BY <1>2, <1>3, <1>4, <1>5, Constants DEF SectorsOf, Disk

\* Two clusters share no sector.
LEMMA SectorsDisjoint ==
  ASSUME NEW c \in Clusters, NEW d \in Clusters, c # d
  PROVE  SectorsOf(c) \cap SectorsOf(d) = {}
<1>1. ASSUME NEW x \in Clusters, NEW y \in Clusters, x < y
      PROVE  SectorsOf(x) \cap SectorsOf(y) = {}
  <2>1. x - 2 \in Nat /\ y - 2 \in Nat /\ x - 2 + 1 <= y - 2
    BY <1>1, Constants DEF Clusters
  <2>2. (x - 2 + 1) * csize <= (y - 2) * csize /\ (y - 2) * csize \in Nat /\ (x - 2) * csize \in Nat
    BY <2>1, Constants, MultMono
  <2>3. (x - 2 + 1) * csize = (x - 2) * csize + csize
    BY <2>1, Constants
  <2> QED
    BY <2>2, <2>3, Constants DEF SectorsOf, clust2sect
<1> QED
  BY <1>1, Constants DEF Clusters

-----------------------------------------------------------------------------
(* The invariant.                                                          *)

\* The clusters that are free or may be the file's; the sectors the file's buffer may hold.
Owned == Clusters \ Taken
TakenSectors == UNION {SectorsOf(c) : c \in Taken}
CacheSectors == (Disk \cup {0}) \ TakenSectors
Sector == [1 .. SS -> Bytes]
FileObject ==
  [fptr : Nat, fsize : Nat, clust : Owned \cup {0, EOC}, sclust : Owned \cup {0},
   dsect : CacheSectors, buf : Sector, dirty : BOOLEAN, written : BOOLEAN,
   err : BOOLEAN, write : BOOLEAN]
Requests == [op : {"none", "read", "write", "seek"}, left : Int, val : Bytes, ofs : Nat]

Types ==
  /\ dir \in [size : Nat, sclust : Owned \cup {0}]
  /\ fp \in FileObject
  /\ req \in Requests
  /\ clst \in Owned \cup {0, EOC}
  /\ ops \in Nat

\* The FAT entries of other files are as they were, and no entry links to them.
Apart(f) == f \in [Clusters -> Owned \cup {0, EOC}] /\ \A t \in Taken : f[t] = EOC

\* So are their sectors.
DiskApart ==
  /\ disk \in [Disk -> Sector]
  /\ \A s \in TakenSectors : disk[s] = Filled(0)

\* The file's cluster is one of its own whenever the pointer is not at the start, and
\* the transfers and the seek use it only then.
ClusterKnown ==
  /\ pc # "idle" => ~ fp.err
  /\ pc \in {"idle", "read", "write", "seek", "sfill", "remove"} =>
       fp.err \/ fp.fptr = 0 \/ fp.clust \in Owned
  /\ pc \in {"rcopy", "wflush", "wsect", "wcopy"} => fp.clust \in Owned
  /\ pc \in {"rsect", "rcopy", "wflush", "wsect", "wcopy"} => req.left > 0
  /\ pc = "sloop" => /\ clst \in Owned /\ fp.clust = clst /\ req.left \in Nat
                     /\ \E k \in Nat : fp.fptr = k * bcs
  /\ pc = "sfill" /\ ~ OnSector => clst \in Owned /\ req.left \in Nat /\ req.left < bcs
  /\ pc \in {"idle", "read", "rsect", "rcopy", "write", "wflush", "wsect", "wcopy",
             "seek", "sloop", "sfill", "remove"}

\* What keeps the file and its neighbours apart.
ApartInv == Types /\ Apart(fat) /\ DiskApart /\ ClusterKnown

-----------------------------------------------------------------------------
(* Operators of the model.                                                 *)

\* A sector of one of the file's or the free clusters belongs to no other file.
LEMMA NotTaken ==
  ASSUME NEW c \in Owned
  PROVE  /\ c \in Clusters /\ c \in Nat /\ c # 0
         /\ SectorsOf(c) \subseteq Disk /\ SectorsOf(c) \cap TakenSectors = {}
<1>1. c \in Clusters /\ c \in Nat /\ c # 0
  BY Constants DEF Owned
<1>2. ASSUME NEW s \in SectorsOf(c), s \in TakenSectors PROVE FALSE
  <2>1. PICK d \in Taken : s \in SectorsOf(d)
    BY <1>2 DEF TakenSectors
  <2>2. d \in Clusters /\ d # c
    BY <2>1, Constants DEF Owned
  <2> QED
    BY <1>1, <1>2, <2>1, <2>2, SectorsDisjoint
<1> QED
  BY <1>1, <1>2, SectorsOnDisk

\* The file's sector is one of its cluster.
LEMMA SectorOwned ==
  ASSUME Types, fp.clust \in Owned
  PROVE  /\ sect \in Nat /\ sect # 0 /\ csect \in Nat /\ csect < csize
         /\ sect \in Disk /\ sect \notin TakenSectors /\ sect \in CacheSectors
         /\ \A n \in Int : n <= csize - csect => sect .. sect + n - 1 \subseteq SectorsOf(fp.clust)
<1>1. fp.clust \in Clusters
  BY NotTaken
<1>2. csect \in Nat /\ csect < csize
  <2>1. fp.fptr \in Nat
    BY DEF Types, FileObject
  <2>2. fp.fptr \div SS \in Nat
    BY <2>1, Constants
  <2> QED
    BY <2>2, Constants DEF csect
<1>3. sect = clust2sect(fp.clust) + csect /\ sect \in SectorsOf(fp.clust)
  BY <1>1, <1>2, SectorsOnDisk DEF sect
<1>4. sect \in Disk /\ sect \notin TakenSectors /\ sect \in Nat /\ sect # 0
  BY <1>1, <1>2, <1>3, NotTaken, SectorsOnDisk
<1>5. ASSUME NEW n \in Int, n <= csize - csect
      PROVE  sect .. sect + n - 1 \subseteq SectorsOf(fp.clust)
  <2>1. clust2sect(fp.clust) \in Nat
    BY <1>1, SectorsOnDisk
  <2> QED
    BY <1>2, <1>3, <1>5, <2>1, Constants DEF SectorsOf
<1> QED
  BY <1>2, <1>4, <1>5 DEF CacheSectors

\* Only a cluster of the file or a free one has a sector number in a read.
LEMMA SectorFound ==
  ASSUME Types, sect # 0 PROVE fp.clust \in Owned
<1>1. fp.clust \in Owned \cup {0, EOC}
  BY DEF Types, FileObject
<1>2. fp.clust \in Clusters
  BY DEF sect, clust2sect
<1> QED
  BY <1>1, <1>2, Constants

\* A set of natural numbers has a least element.
LEMMA LeastNumber ==
  ASSUME NEW T \in SUBSET Nat, T # {}
  PROVE  \E p \in T : \A q \in T : p <= q
<1> DEFINE R == {ss \in Nat \X Nat : ss[1] < ss[2]}
<1>1. IsWellFoundedOn(R, Nat)
  BY NatLessThanWellFounded, Zenon DEF OpToRel
<1> HIDE DEF R
<1>2. PICK p \in T : \A q \in T : ~ (<<q, p>> \in R)
  BY <1>1, WFMin, Zenon
<1>3. ASSUME NEW q \in T PROVE p <= q
  <2>1. <<q, p>> \notin R /\ p \in Nat /\ q \in Nat
    BY <1>2
  <2>2. ~ (q < p)
    BY <2>1 DEF R
  <2> QED
    BY <2>1, <2>2
<1> QED
  BY <1>3, Zenon

\* The search of create_chain ends at a free cluster.
LEMMA FirstFreeIsFree ==
  ASSUME NEW f, NEW scl
  PROVE  FirstFree(f, scl) = 0 \/ FirstFree(f, scl) \in Free(f)
<1> SUFFICES ASSUME Free(f) # {} PROVE FirstFree(f, scl) \in Free(f)
  BY DEF FirstFree
<1> DEFINE T == {Turn(scl, c) : c \in Free(f)}
<1>1. T \in SUBSET Nat /\ T # {}
  <2>1. ASSUME NEW c \in Free(f) PROVE Turn(scl, c) \in Nat
    <3>1. c \in Nat /\ c + n_fatent \in Nat
      BY Constants DEF Free
    <3> QED
      BY <3>1, Zenon DEF Turn
  <2> QED
    BY <2>1
<1> HIDE DEF T
<1>2. PICK m \in T : \A q \in T : m <= q
  BY <1>1, LeastNumber
<1>3. PICK c \in Free(f) : m = Turn(scl, c)
  BY <1>2 DEF T
<1>4. \A d \in Free(f) : Turn(scl, c) <= Turn(scl, d)
  BY <1>2, <1>3 DEF T
<1>5. \E x \in Free(f) : \A d \in Free(f) : Turn(scl, x) <= Turn(scl, d)
  BY <1>4
<1> QED
  BY <1>5, Zenon DEF FirstFree

\* create_chain returns a cluster of the file, a free one, or 0, and changes the entries
\* of those only.
LEMMA ChainApart ==
  ASSUME Apart(fat), NEW c \in Owned \cup {0}
  PROVE  /\ create_chain(c).ncl \in Nat
         /\ create_chain(c).ncl >= 2 => create_chain(c).ncl \in Owned
         /\ create_chain(c).ncl \in Owned \cup {0}
         /\ Apart(create_chain(c).fat)
         /\ \A f \in BrokenChains(c) : Apart(f)
<1>1. ASSUME NEW x \in Free(fat)
      PROVE  x \in Owned /\ Apart([fat EXCEPT ![x] = EOC])
  <2>1. x \in Clusters /\ fat[x] = 0
    BY <1>1 DEF Free
  <2>2. EOC # 0
    BY <2>1, Constants DEF Clusters, EOC
  <2>3. x \in Owned
    BY <2>1, <2>2 DEF Apart, Owned
  <2> QED
    BY <2>1, <2>3, Constants DEF Apart
<1>2. ASSUME NEW x \in Free(fat), c # 0
      PROVE  Apart([fat EXCEPT ![x] = EOC, ![c] = x])
  <2>1. c \in Owned /\ x \in Owned /\ Apart([fat EXCEPT ![x] = EOC])
    BY <1>1, <1>2
  <2> QED
    BY <2>1, Constants DEF Apart, Owned
<1>3. CASE c # 0 /\ fat[c] < n_fatent
  <2>1. create_chain(c) = [ncl |-> fat[c], fat |-> fat, fs |-> fs]
    BY <1>3 DEF create_chain
  <2>2. BrokenChains(c) = {fat}
    BY <2>1 DEF BrokenChains
  <2>3. fat[c] \in Owned \cup {0}
    BY <1>3, Constants DEF Apart, Owned, EOC
  <2> QED
    BY <2>1, <2>2, <2>3, NotTaken
<1>4. CASE ~ (c # 0 /\ fat[c] < n_fatent)
  <2> DEFINE scl == IF c # 0 THEN c ELSE IF fs.last \in Clusters THEN fs.last ELSE 1
             x == FirstFree(fat, scl)
  <2>1. x = 0 \/ x \in Free(fat)
    BY FirstFreeIsFree
  <2>2. create_chain(c) =
          IF x = 0 THEN [ncl |-> 0, fat |-> fat, fs |-> fs]
          ELSE [ncl |-> x,
                fat |-> IF c = 0 THEN [fat EXCEPT ![x] = EOC]
                        ELSE [fat EXCEPT ![x] = EOC, ![c] = x],
                fs |-> [last |-> x, free |-> fs.free - 1]]
    BY <1>4 DEF create_chain
  <2> HIDE DEF x
  <2>3. CASE x = 0
    <3>1. create_chain(c) = [ncl |-> 0, fat |-> fat, fs |-> fs]
      BY <2>2, <2>3
    <3>2. BrokenChains(c) = {fat}
      BY <3>1 DEF BrokenChains
    <3> QED
      BY <3>1, <3>2
  <2>4. CASE x # 0
    <3>1. x \in Free(fat) /\ x \in Owned
      BY <1>1, <2>1, <2>4
    <3>2. /\ create_chain(c).ncl = x
          /\ create_chain(c).fat = IF c = 0 THEN [fat EXCEPT ![x] = EOC]
                                   ELSE [fat EXCEPT ![x] = EOC, ![c] = x]
      BY <2>2, <2>4
    <3>3. BrokenChains(c) \subseteq {fat, [fat EXCEPT ![x] = EOC]}
      BY <3>2 DEF BrokenChains
    <3> QED
      BY <1>1, <1>2, <3>1, <3>2, <3>3, NotTaken
  <2> QED
    BY <2>3, <2>4
<1> QED
  BY <1>3, <1>4

\* The write back of the cache goes to a sector of the file.
LEMMA FlushApart ==
  ASSUME Types, DiskApart
  PROVE  /\ Flushed \in [Disk -> Sector]
         /\ \A s \in TakenSectors : Flushed[s] = Filled(0)
<1>1. /\ fp.buf \in Sector /\ fp.dsect \notin TakenSectors
      /\ disk \in [Disk -> Sector] /\ \A s \in TakenSectors : disk[s] = Filled(0)
  BY DEF Types, FileObject, DiskApart, CacheSectors
<1>2. TakenSectors \subseteq Disk
  BY Constants, SectorsOnDisk DEF TakenSectors
<1> QED
  BY <1>1, <1>2 DEF Flushed

-----------------------------------------------------------------------------
(* Every step keeps the invariant.                                         *)

\* The parts of the invariant, with the types of the file object and of the call.
LEMMA Facts ==
  ASSUME ApartInv
  PROVE  /\ fp \in FileObject /\ fp.fptr \in Nat /\ fp.fsize \in Nat /\ fp.buf \in Sector
         /\ fp.clust \in Owned \cup {0, EOC} /\ fp.sclust \in Owned \cup {0}
         /\ fp.dsect \in CacheSectors
         /\ req \in Requests /\ req.left \in Int /\ req.val \in Bytes /\ req.ofs \in Nat
         /\ clst \in Owned \cup {0, EOC} /\ ops \in Nat
         /\ dir \in [size : Nat, sclust : Owned \cup {0}]
         /\ Apart(fat) /\ DiskApart /\ Types
         /\ NoReq \in Requests
BY DEF ApartInv, Types, FileObject, Requests, NoReq, Bytes

\* The start of a call.
LEMMA BeginApart ==
  ASSUME ApartInv, NEW op \in {"read", "write", "seek"}, NEW n \in Int, NEW v \in Bytes,
         NEW ofs \in Nat, Begin(op, op, n, v, ofs)
  PROVE  ApartInv'
<1>1. /\ pc = "idle" /\ ~ fp.err /\ pc' = op /\ ops' = ops + 1
      /\ req' = [op |-> op, left |-> n, val |-> v, ofs |-> ofs]
      /\ UNCHANGED <<fat, disk, dir, fs, fp, clst, ifptr, out, faults>>
  BY DEF Begin
<1>2. Types' /\ Apart(fat') /\ DiskApart'
  BY <1>1, Facts DEF Types, Requests, DiskApart
<1>3. ClusterKnown'
  BY <1>1 DEF ApartInv, ClusterKnown
<1> QED
  BY <1>2, <1>3 DEF ApartInv

\* The end of a call.
LEMMA EndApart ==
  ASSUME Types', Apart(fat'), DiskApart', pc' = "idle",
         fp'.err \/ fp'.fptr = 0 \/ fp'.clust \in Owned
  PROVE  ApartInv'
BY DEF ApartInv, ClusterKnown

\* An error in a call that changed nothing on the disk.
LEMMA AbortApart ==
  ASSUME ApartInv, Abort, Apart(fat'), UNCHANGED <<disk, dir, ops>>, clst' = clst
  PROVE  ApartInv'
<1>1. pc' = "idle" /\ req' = NoReq /\ fp' = [fp EXCEPT !.err = TRUE]
  BY DEF Abort
<1>2. fp' \in FileObject /\ fp'.err
  BY <1>1, Facts DEF FileObject
<1>3. Types' /\ DiskApart'
  BY <1>1, <1>2, Facts DEF Types, DiskApart
<1> QED
  BY <1>1, <1>2, <1>3, EndApart

\* Moving the file pointer keeps the types.
LEMMA AdvanceOK ==
  ASSUME ApartInv, NEW n \in Nat
  PROVE  /\ Advance(n) \in FileObject /\ Advance(n).err = fp.err
         /\ Advance(n).clust = fp.clust /\ Advance(n).fptr = fp.fptr + n
BY Facts DEF Advance, FileObject

\* A piece of a sector, and a number of whole sectors up to the end of the cluster.
LEMMA PieceOK ==
  ASSUME ApartInv, req.left > 0
  PROVE  Piece \in Nat
<1>1. fp.fptr % SS \in Nat /\ fp.fptr % SS < SS
  BY Facts, Constants
<1> QED
  BY <1>1, Facts, Constants DEF Piece, Smaller

\* The whole sectors transferred at once stay within the cluster.
LEMMA WholeOK ==
  ASSUME ApartInv, fp.clust \in Owned, Rest > 0
  PROVE  cc \in Nat /\ cc <= csize - csect /\ cc * SS \in Nat
<1>1. csect \in Nat /\ csect < csize
  BY Facts, SectorOwned
<1>2. Rest \in Int
  BY Facts, Constants DEF Rest
<1>3. cc \in Nat /\ cc <= csize - csect
  BY <1>1, <1>2, Constants DEF cc, Smaller
<1> QED
  BY <1>3, Constants

\* f_read.
LEMMA ReadApart ==
  ASSUME ApartInv, read_return \/ read_cluster \/ read_direct \/ read_fill \/ read_copy
  PROVE  ApartInv'
<1>1. CASE read_return
  <2>1. /\ pc = "read" /\ pc' = "idle" /\ req' = NoReq
        /\ UNCHANGED <<disk, fp, fat, clst, dir, ops>>
    BY <1>1 DEF read_return, End, Quiet, Calm
  <2>2. Types' /\ DiskApart' /\ Apart(fat')
    BY <2>1, Facts DEF Types, DiskApart
  <2> QED
    BY <2>1, <2>2, EndApart DEF ApartInv, ClusterKnown
<1>2. CASE read_cluster
  <2> DEFINE next == IF fp.fptr = 0 THEN fp.sclust ELSE fat[fp.clust]
  <2>1. pc = "read" /\ req.left > 0 /\ UNCHANGED <<fat, disk, dir, clst, ops>>
    BY <1>2 DEF read_cluster
  <2>2. ~ fp.err /\ (fp.fptr = 0 \/ fp.clust \in Owned)
    BY <2>1 DEF ApartInv, ClusterKnown
  <2>3. CASE Abort
    BY <2>1, <2>3, Facts, AbortApart
  <2>4. CASE /\ OnCluster /\ next >= 2
             /\ fp' = [fp EXCEPT !.clust = next] /\ pc' = "rsect" /\ req' = req
    <3>1. next \in Owned \cup {0, EOC}
      BY <2>2, Facts, NotTaken DEF Apart
    <3> HIDE DEF next
    <3>2. fp' \in FileObject /\ fp'.err = fp.err
      BY <2>4, <3>1, Facts DEF FileObject
    <3>3. Types' /\ DiskApart' /\ Apart(fat')
      BY <2>1, <2>4, <3>2, Facts DEF Types, DiskApart
    <3>4. ClusterKnown'
      BY <2>1, <2>2, <2>4, <3>2 DEF ClusterKnown
    <3> QED
      BY <3>3, <3>4 DEF ApartInv
  <2>5. CASE ~ OnCluster /\ pc' = (IF OnSector THEN "rsect" ELSE "rcopy") /\ UNCHANGED <<fp, req>>
    <3>1. Types' /\ DiskApart' /\ Apart(fat')
      BY <2>1, <2>5, Facts DEF Types, DiskApart
    <3>2. pc' = "rcopy" => fp.fptr # 0
      BY <2>5, Constants, Facts DEF OnSector
    <3>3. ClusterKnown'
      BY <2>1, <2>2, <2>5, <3>2 DEF ApartInv, ClusterKnown
    <3> QED
      BY <3>1, <3>3 DEF ApartInv
  <2> QED
    BY <1>2, <2>3, <2>4, <2>5 DEF read_cluster
<1>3. CASE read_direct
  <2>1. pc = "rsect" /\ Rest > 0 /\ UNCHANGED <<fat, disk, dir, clst, ops>>
    BY <1>3 DEF read_direct
  <2>2. CASE Abort
    BY <2>1, <2>2, Facts, AbortApart
  <2>3. CASE /\ sect # 0 /\ fp' = Advance(cc * SS)
             /\ req' = [req EXCEPT !.left = @ - cc * SS] /\ pc' = "read"
    <3>1. fp.clust \in Owned
      BY <2>3, Facts, SectorFound
    <3>2. cc * SS \in Nat
      BY <2>1, <3>1, WholeOK
    <3>3. fp' \in FileObject /\ fp'.err = fp.err /\ fp'.clust = fp.clust
      BY <2>3, <3>2, AdvanceOK
    <3>4. req' \in Requests
      BY <2>3, <3>2, Facts DEF Requests
    <3>5. Types' /\ DiskApart' /\ Apart(fat')
      BY <2>1, <3>3, <3>4, Facts DEF Types, DiskApart
    <3>6. ClusterKnown'
      BY <2>1, <2>3, <3>1, <3>3 DEF ApartInv, ClusterKnown
    <3> QED
      BY <3>5, <3>6 DEF ApartInv
  <2> QED
    BY <1>3, <2>2, <2>3 DEF read_direct
<1>4. CASE read_fill
  <2>1. pc = "rsect" /\ UNCHANGED <<fat, dir, clst, ops>> /\ ~ fp.err /\ req.left > 0
    BY <1>4 DEF read_fill, ApartInv, ClusterKnown
  <2>2. CASE Abort /\ disk' = disk
    BY <2>1, <2>2, Facts, AbortApart
  <2>3. CASE /\ sect # 0 /\ disk' = Flushed
             /\ fp' = [fp EXCEPT !.buf = disk'[sect], !.dsect = sect, !.dirty = FALSE]
             /\ pc' = "rcopy" /\ req' = req
    <3>1. fp.clust \in Owned
      BY <2>3, Facts, SectorFound
    <3>2. sect \in Disk /\ sect \in CacheSectors
      BY <3>1, Facts, SectorOwned
    <3>3. DiskApart'
      BY <2>3, Facts, FlushApart DEF DiskApart
    <3>4. disk'[sect] \in Sector
      BY <3>2, <3>3 DEF DiskApart
    <3>5. fp' \in FileObject /\ fp'.err = fp.err /\ fp'.clust = fp.clust
      BY <2>3, <3>2, <3>4, Facts DEF FileObject
    <3>6. Types' /\ Apart(fat')
      BY <2>1, <2>3, <3>5, Facts DEF Types
    <3>7. ClusterKnown'
      BY <2>1, <2>3, <3>1, <3>5 DEF ClusterKnown
    <3> QED
      BY <3>3, <3>6, <3>7 DEF ApartInv
  <2>4. CASE sect # 0 /\ pc' = "rcopy" /\ UNCHANGED <<disk, fp, req>>
    <3>1. fp.clust \in Owned
      BY <2>4, Facts, SectorFound
    <3>2. Types' /\ DiskApart' /\ Apart(fat')
      BY <2>1, <2>4, Facts DEF Types, DiskApart
    <3>3. ClusterKnown'
      BY <2>1, <2>4, <3>1 DEF ClusterKnown
    <3> QED
      BY <3>2, <3>3 DEF ApartInv
  <2>5. CASE /\ pc' = "idle" /\ req' = NoReq
             /\ \/ UNCHANGED disk /\ fp' = [fp EXCEPT !.err = TRUE]
                \/ disk' = Flushed /\ fp' = [fp EXCEPT !.err = TRUE, !.dirty = FALSE]
    <3>1. DiskApart'
      BY <2>5, Facts, FlushApart DEF DiskApart
    <3>2. fp' \in FileObject /\ fp'.err
      BY <2>5, Facts DEF FileObject
    <3>3. Types' /\ Apart(fat')
      BY <2>1, <2>5, <3>2, Facts DEF Types
    <3> QED
      BY <2>5, <3>1, <3>2, <3>3, EndApart
  <2> QED
    BY <1>4, <2>2, <2>3, <2>4, <2>5 DEF read_fill
<1>5. CASE read_copy
  <2>1. /\ pc = "rcopy" /\ fp' = Advance(Piece) /\ req' = [req EXCEPT !.left = @ - Piece]
        /\ pc' = "read" /\ UNCHANGED <<disk, fat, clst, dir, ops>>
    BY <1>5 DEF read_copy, Quiet, Calm
  <2>2. fp.clust \in Owned /\ req.left > 0 /\ ~ fp.err
    BY <2>1 DEF ApartInv, ClusterKnown
  <2>3. Piece \in Nat
    BY <2>2, PieceOK
  <2>4. fp' \in FileObject /\ fp'.err = fp.err /\ fp'.clust = fp.clust
    BY <2>1, <2>3, AdvanceOK
  <2>5. req' \in Requests
    BY <2>1, <2>3, Facts DEF Requests
  <2>6. Types' /\ DiskApart' /\ Apart(fat')
    BY <2>1, <2>4, <2>5, Facts DEF Types, DiskApart
  <2>7. ClusterKnown'
    BY <2>1, <2>2, <2>4 DEF ClusterKnown
  <2> QED
    BY <2>6, <2>7 DEF ApartInv
<1> QED
  BY <1>1, <1>2, <1>3, <1>4, <1>5

\* f_write.
LEMMA WriteApart ==
  ASSUME ApartInv, write_cluster \/ write_flush \/ write_direct \/ write_fill \/ write_copy
  PROVE  ApartInv'
<1>1. CASE write_cluster
  <2> DEFINE start == IF fp.fptr = 0 THEN 0 ELSE fp.clust
             r == IF fp.fptr = 0 /\ fp.sclust # 0
                  THEN [ncl |-> fp.sclust, fat |-> fat, fs |-> fs]
                  ELSE create_chain(start)
  <2>1. pc = "write" /\ UNCHANGED <<disk, dir, clst, ops>>
    BY <1>1 DEF write_cluster
  <2>2. ~ fp.err /\ (fp.fptr = 0 \/ fp.clust \in Owned)
    BY <2>1 DEF ApartInv, ClusterKnown
  <2>3. start \in Owned \cup {0}
    BY <2>2
  <2>4. /\ r.ncl >= 2 => r.ncl \in Owned
        /\ Apart(r.fat) /\ \A f \in BrokenChains(start) : Apart(f)
    <3> HIDE DEF start
    <3>1. /\ create_chain(start).ncl >= 2 => create_chain(start).ncl \in Owned
          /\ Apart(create_chain(start).fat) /\ \A f \in BrokenChains(start) : Apart(f)
      BY <2>3, Facts, ChainApart
    <3>2. CASE fp.fptr = 0 /\ fp.sclust # 0
      BY <3>1, <3>2, Facts
    <3>3. CASE ~ (fp.fptr = 0 /\ fp.sclust # 0)
      BY <3>1, <3>3
    <3> QED
      BY <3>2, <3>3
  <2>5. \/ WriteReturns /\ UNCHANGED fat
        \/ /\ req.left > 0 /\ r.ncl >= 2 /\ fat' = r.fat
           /\ fp' = [fp EXCEPT !.clust = r.ncl, !.sclust = IF @ = 0 THEN r.ncl ELSE @]
           /\ pc' = "wflush" /\ UNCHANGED req
        \/ Abort /\ fat' \in BrokenChains(start)
        \/ /\ req.left > 0 /\ ~ OnCluster /\ pc' = (IF OnSector THEN "wflush" ELSE "wcopy")
           /\ UNCHANGED <<fat, fp, req>>
    BY <1>1 DEF write_cluster
  <2> HIDE DEF start, r
  <2>6. CASE WriteReturns /\ UNCHANGED fat
    <3>1. /\ fp' = [fp EXCEPT !.fsize = IF fp.fptr > @ THEN fp.fptr ELSE @, !.written = TRUE]
          /\ pc' = "idle" /\ req' = NoReq
      BY <2>6 DEF WriteReturns, End
    <3>2. fp' \in FileObject /\ fp'.clust = fp.clust /\ fp'.fptr = fp.fptr
      BY <3>1, Facts DEF FileObject
    <3>3. Types' /\ DiskApart' /\ Apart(fat')
      BY <2>1, <2>6, <3>1, <3>2, Facts DEF Types, DiskApart
    <3> QED
      BY <2>2, <3>1, <3>2, <3>3, EndApart
  <2>7. CASE /\ req.left > 0 /\ r.ncl >= 2 /\ fat' = r.fat
             /\ fp' = [fp EXCEPT !.clust = r.ncl, !.sclust = IF @ = 0 THEN r.ncl ELSE @]
             /\ pc' = "wflush" /\ UNCHANGED req
    <3>1. fp' \in FileObject /\ fp'.clust = r.ncl /\ fp'.err = fp.err
      BY <2>4, <2>7, Facts DEF FileObject
    <3>2. Types' /\ DiskApart' /\ Apart(fat')
      BY <2>1, <2>4, <2>7, <3>1, Facts DEF Types, DiskApart
    <3>3. ClusterKnown'
      BY <2>2, <2>4, <2>7, <3>1 DEF ClusterKnown
    <3> QED
      BY <3>2, <3>3 DEF ApartInv
  <2>8. CASE Abort /\ fat' \in BrokenChains(start)
    BY <2>1, <2>4, <2>8, AbortApart
  <2>9. CASE /\ req.left > 0 /\ ~ OnCluster /\ pc' = (IF OnSector THEN "wflush" ELSE "wcopy")
             /\ UNCHANGED <<fat, fp, req>>
    <3>1. Types' /\ DiskApart' /\ Apart(fat')
      BY <2>1, <2>9, Facts DEF Types, DiskApart
    <3>2. fp.fptr # 0
      <4>1. ASSUME fp.fptr = 0 PROVE OnCluster
        <5>1. 0 % SS = 0 /\ (0 \div SS) % csize = 0
          BY Constants
        <5> QED
          BY <4>1, <5>1 DEF OnCluster, OnSector, csect
      <4> QED
        BY <2>9, <4>1
    <3>3. ClusterKnown'
      BY <2>1, <2>2, <2>9, <3>2 DEF ClusterKnown
    <3> QED
      BY <3>1, <3>3 DEF ApartInv
  <2> QED
    BY <2>5, <2>6, <2>7, <2>8, <2>9
<1>2. CASE write_flush
  <2>1. pc = "wflush" /\ UNCHANGED <<fat, dir, clst, ops>>
    BY <1>2 DEF write_flush
  <2>2. fp.clust \in Owned /\ req.left > 0 /\ ~ fp.err
    BY <2>1 DEF ApartInv, ClusterKnown
  <2>3. CASE Abort /\ disk' = disk
    BY <2>1, <2>3, Facts, AbortApart
  <2>4. CASE /\ disk' = Flushed /\ fp' = [fp EXCEPT !.dirty = FALSE]
             /\ pc' = "wsect" /\ req' = req
    <3>1. DiskApart'
      BY <2>4, Facts, FlushApart DEF DiskApart
    <3>2. fp' \in FileObject /\ fp'.clust = fp.clust /\ fp'.err = fp.err
      BY <2>4, Facts DEF FileObject
    <3>3. Types' /\ Apart(fat')
      BY <2>1, <2>4, <3>2, Facts DEF Types
    <3>4. ClusterKnown'
      BY <2>2, <2>4, <3>2 DEF ClusterKnown
    <3> QED
      BY <3>1, <3>3, <3>4 DEF ApartInv
  <2> QED
    BY <1>2, <2>3, <2>4 DEF write_flush
<1>3. CASE write_direct
  <2>1. pc = "wsect" /\ Rest > 0 /\ UNCHANGED <<fat, dir, clst, ops>>
    BY <1>3 DEF write_direct
  <2>2. fp.clust \in Owned /\ req.left > 0 /\ ~ fp.err
    BY <2>1 DEF ApartInv, ClusterKnown
  <2>3. CASE Abort /\ disk' = disk
    BY <2>1, <2>3, Facts, AbortApart
  <2>4. CASE /\ disk' = [s \in DOMAIN disk |->
                           IF s \in sect .. sect + cc - 1 THEN Filled(req.val) ELSE disk[s]]
             /\ fp' = [Advance(cc * SS) EXCEPT !.buf = Refill(sect, cc)]
             /\ req' = [req EXCEPT !.left = @ - cc * SS] /\ pc' = "write"
    <3>1. cc \in Nat /\ cc <= csize - csect /\ cc * SS \in Nat
      BY <2>1, <2>2, WholeOK
    <3>2. sect .. sect + cc - 1 \subseteq SectorsOf(fp.clust)
      BY <2>2, <3>1, Facts, SectorOwned
    <3>3. (sect .. sect + cc - 1) \cap TakenSectors = {}
      BY <2>2, <3>2, NotTaken
    <3>4. Filled(req.val) \in Sector
      BY Facts DEF Filled, Sector
    <3>5. TakenSectors \subseteq Disk
      BY Constants, SectorsOnDisk DEF TakenSectors
    <3>6. DiskApart'
      BY <2>4, <3>3, <3>4, <3>5, Facts DEF DiskApart
    <3>7. Refill(sect, cc) \in Sector
      BY <3>4, Facts DEF Refill
    <3>8. /\ Advance(cc * SS) \in FileObject /\ Advance(cc * SS).err = fp.err
          /\ Advance(cc * SS).clust = fp.clust
      BY <3>1, AdvanceOK
    <3>9. fp' \in FileObject /\ fp'.clust = fp.clust /\ fp'.err = fp.err
      BY <2>4, <3>7, <3>8 DEF FileObject
    <3>10. req' \in Requests
      BY <2>4, <3>1, Facts DEF Requests
    <3>11. Types' /\ Apart(fat')
      BY <2>1, <3>9, <3>10, Facts DEF Types
    <3>12. ClusterKnown'
      BY <2>2, <2>4, <3>9 DEF ClusterKnown
    <3> QED
      BY <3>6, <3>11, <3>12 DEF ApartInv
  <2> QED
    BY <1>3, <2>3, <2>4 DEF write_direct
<1>4. CASE write_fill
  <2>1. pc = "wsect" /\ UNCHANGED <<fat, disk, dir, clst, ops>>
    BY <1>4 DEF write_fill
  <2>2. fp.clust \in Owned /\ req.left > 0 /\ ~ fp.err
    BY <2>1 DEF ApartInv, ClusterKnown
  <2>3. CASE Abort
    BY <2>1, <2>3, Facts, AbortApart
  <2>4. CASE /\ fp' = [fp EXCEPT !.dsect = sect,
                                 !.buf = IF fp.dsect # sect /\ fp.fptr < fp.fsize
                                         THEN disk[sect] ELSE @]
             /\ pc' = "wcopy" /\ req' = req
    <3>1. sect \in Disk /\ sect \in CacheSectors
      BY <2>2, Facts, SectorOwned
    <3>2. disk[sect] \in Sector
      BY <3>1, Facts DEF DiskApart
    <3>3. fp' \in FileObject /\ fp'.clust = fp.clust /\ fp'.err = fp.err
      BY <2>4, <3>1, <3>2, Facts DEF FileObject
    <3>4. Types' /\ Apart(fat') /\ DiskApart'
      BY <2>1, <2>4, <3>3, Facts DEF Types, DiskApart
    <3>5. ClusterKnown'
      BY <2>2, <2>4, <3>3 DEF ClusterKnown
    <3> QED
      BY <3>4, <3>5 DEF ApartInv
  <2> QED
    BY <1>4, <2>3, <2>4 DEF write_fill
<1>5. CASE write_copy
  <2> DEFINE at == fp.fptr % SS
             b == [i \in 1 .. SS |-> IF i \in at + 1 .. at + Piece THEN req.val ELSE fp.buf[i]]
  <2>1. /\ pc = "wcopy" /\ fp' = [Advance(Piece) EXCEPT !.dirty = TRUE, !.buf = b]
        /\ req' = [req EXCEPT !.left = @ - Piece]
        /\ pc' = "write" /\ UNCHANGED <<disk, fat, clst, dir, ops>>
    BY <1>5 DEF write_copy, Quiet, Calm
  <2>2. fp.clust \in Owned /\ req.left > 0 /\ ~ fp.err
    BY <2>1 DEF ApartInv, ClusterKnown
  <2>3. Piece \in Nat
    BY <2>2, PieceOK
  <2>4. b \in Sector
    BY Facts DEF Sector
  <2>5. /\ Advance(Piece) \in FileObject /\ Advance(Piece).err = fp.err
        /\ Advance(Piece).clust = fp.clust
    BY <2>3, AdvanceOK
  <2> HIDE DEF b
  <2>6. fp' \in FileObject /\ fp'.err = fp.err /\ fp'.clust = fp.clust
    BY <2>1, <2>4, <2>5 DEF FileObject
  <2>7. req' \in Requests
    BY <2>1, <2>3, Facts DEF Requests
  <2>8. Types' /\ DiskApart' /\ Apart(fat')
    BY <2>1, <2>6, <2>7, Facts DEF Types, DiskApart
  <2>9. ClusterKnown'
    BY <2>1, <2>2, <2>6 DEF ClusterKnown
  <2> QED
    BY <2>8, <2>9 DEF ApartInv
<1> QED
  BY <1>1, <1>2, <1>3, <1>4, <1>5

\* Where a seek starts: at the start of the current cluster, which is not past the goal.
LEMMA SeekBase ==
  ASSUME NEW p \in Nat, p > 0, NEW goal \in Nat, goal > 0,
         (goal - 1) \div bcs >= (p - 1) \div bcs
  PROVE  LET base == ((p - 1) \div bcs) * bcs
         IN  base \in Nat /\ goal - base \in Nat /\ \E k \in Nat : base = k * bcs
<1> DEFINE k == (p - 1) \div bcs
           j == (goal - 1) \div bcs
<1>1. p - 1 \in Nat /\ goal - 1 \in Nat
  OBVIOUS
<1>2. k \in Nat /\ k * bcs \in Nat
  BY <1>1, DivBelow
<1>3. j \in Nat /\ j * bcs \in Nat /\ j * bcs <= goal - 1
  BY <1>1, DivBelow
<1> HIDE DEF k, j
<1>4. k <= j
  BY <1>2, <1>3 DEF k, j
<1>5. k * bcs <= j * bcs
  BY <1>2, <1>3, <1>4, Constants, MultMono
<1>6. goal - k * bcs \in Nat
  BY <1>2, <1>3, <1>5
<1> QED
  BY <1>2, <1>6 DEF k

\* Where a seek ends: on a sector boundary when it goes to the end of a cluster.
LEMMA SeekEnd ==
  ASSUME NEW k \in Nat, NEW x \in Nat, x <= bcs, (k * bcs + x) % SS # 0
  PROVE  x < bcs
<1> SUFFICES ASSUME x = bcs PROVE FALSE
  BY Constants
<1>1. k * bcs + bcs = ((k + 1) * csize) * SS
  BY Constants
<1>2. (k + 1) * csize \in Nat
  BY Constants
<1> QED
  BY <1>1, <1>2, MultMod

\* f_lseek.
LEMMA SeekApart ==
  ASSUME ApartInv, seek_start \/ seek_loop \/ seek_arrive \/ seek_fill
  PROVE  ApartInv'
<1>1. CASE seek_start
  <2> DEFINE base == ((fp.fptr - 1) \div bcs) * bcs
             r == create_chain(0)
  <2>1. pc = "seek" /\ UNCHANGED <<disk, dir, ops>>
    BY <1>1 DEF seek_start
  <2>2. ~ fp.err /\ (fp.fptr = 0 \/ fp.clust \in Owned)
    BY <2>1 DEF ApartInv, ClusterKnown
  <2>3. /\ r.ncl \in Owned \cup {0} /\ Apart(r.fat)
        /\ \A f \in BrokenChains(0) : Apart(f)
    BY Facts, ChainApart
  <2>4. Clipped \in Nat
    BY Facts DEF Clipped
  <2>5. \/ /\ fp' = [fp EXCEPT !.fptr = 0]
           /\ clst' = 0 /\ pc' = "sfill" /\ UNCHANGED <<fat, req>>
        \/ /\ Clipped # 0 /\ SameOrLater
           /\ fp' = [fp EXCEPT !.fptr = base]
           /\ req' = [req EXCEPT !.left = Clipped - base]
           /\ clst' = fp.clust /\ pc' = "sloop" /\ UNCHANGED fat
        \/ /\ fp.sclust # 0
           /\ fp' = [fp EXCEPT !.fptr = 0, !.clust = fp.sclust]
           /\ req' = [req EXCEPT !.left = Clipped]
           /\ clst' = fp.sclust /\ pc' = "sloop" /\ UNCHANGED fat
        \/ /\ fat' = r.fat
           /\ fp' = [fp EXCEPT !.fptr = 0, !.clust = r.ncl, !.sclust = r.ncl]
           /\ req' = [req EXCEPT !.left = Clipped]
           /\ clst' = r.ncl /\ pc' = (IF r.ncl = 0 THEN "sfill" ELSE "sloop")
        \/ /\ fat' \in BrokenChains(0) /\ clst' = clst
           /\ fp' = [fp EXCEPT !.fptr = 0, !.err = TRUE] /\ pc' = "idle" /\ req' = NoReq
    BY <1>1 DEF seek_start
  <2>6. 0 % SS = 0 /\ 0 = 0 * bcs
    BY Constants
  <2> HIDE DEF r
  <2>7. CASE /\ fp' = [fp EXCEPT !.fptr = 0]
             /\ clst' = 0 /\ pc' = "sfill" /\ UNCHANGED <<fat, req>>
    <3>1. fp' \in FileObject /\ fp'.err = fp.err /\ fp'.fptr = 0
      BY <2>7, Facts DEF FileObject
    <3>2. Types' /\ DiskApart' /\ Apart(fat')
      BY <2>1, <2>7, <3>1, Facts DEF Types, DiskApart
    <3>3. ClusterKnown'
      BY <2>2, <2>6, <2>7, <3>1 DEF ClusterKnown, OnSector
    <3> QED
      BY <3>2, <3>3 DEF ApartInv
  <2>8. CASE /\ Clipped # 0 /\ SameOrLater
             /\ fp' = [fp EXCEPT !.fptr = base]
             /\ req' = [req EXCEPT !.left = Clipped - base]
             /\ clst' = fp.clust /\ pc' = "sloop" /\ UNCHANGED fat
    <3>1. fp.fptr > 0 /\ (Clipped - 1) \div bcs >= (fp.fptr - 1) \div bcs /\ Clipped > 0
      BY <2>4, <2>8 DEF SameOrLater
    <3>2. base \in Nat /\ Clipped - base \in Nat /\ \E k \in Nat : base = k * bcs
      BY <2>4, <3>1, Facts, SeekBase
    <3> HIDE DEF base
    <3>3. /\ fp' \in FileObject /\ fp'.err = fp.err /\ fp'.fptr = base /\ fp'.clust = fp.clust
          /\ fp.clust \in Owned
      BY <2>2, <2>8, <3>1, <3>2, Facts DEF FileObject
    <3>4. req' \in Requests /\ req'.left \in Nat
      BY <2>8, <3>2, Facts DEF Requests
    <3>5. Types' /\ DiskApart' /\ Apart(fat')
      BY <2>1, <2>8, <3>3, <3>4, Facts DEF Types, DiskApart
    <3>6. ClusterKnown'
      BY <2>2, <2>8, <3>2, <3>3, <3>4 DEF ClusterKnown
    <3> QED
      BY <3>5, <3>6 DEF ApartInv
  <2>9. CASE /\ fp.sclust # 0
             /\ fp' = [fp EXCEPT !.fptr = 0, !.clust = fp.sclust]
             /\ req' = [req EXCEPT !.left = Clipped]
             /\ clst' = fp.sclust /\ pc' = "sloop" /\ UNCHANGED fat
    <3>1. /\ fp' \in FileObject /\ fp'.err = fp.err /\ fp'.fptr = 0 /\ fp'.clust = fp.sclust
          /\ fp.sclust \in Owned
      BY <2>9, Facts DEF FileObject
    <3>2. req' \in Requests /\ req'.left \in Nat
      BY <2>4, <2>9, Facts DEF Requests
    <3>3. Types' /\ DiskApart' /\ Apart(fat')
      BY <2>1, <2>9, <3>1, <3>2, Facts DEF Types, DiskApart
    <3>4. ClusterKnown'
      BY <2>2, <2>6, <2>9, <3>1, <3>2 DEF ClusterKnown
    <3> QED
      BY <3>3, <3>4 DEF ApartInv
  <2>10. CASE /\ fat' = r.fat
              /\ fp' = [fp EXCEPT !.fptr = 0, !.clust = r.ncl, !.sclust = r.ncl]
              /\ req' = [req EXCEPT !.left = Clipped]
              /\ clst' = r.ncl /\ pc' = (IF r.ncl = 0 THEN "sfill" ELSE "sloop")
    <3>1. /\ fp' \in FileObject /\ fp'.err = fp.err /\ fp'.fptr = 0 /\ fp'.clust = r.ncl
      BY <2>3, <2>10, Facts DEF FileObject
    <3>2. req' \in Requests /\ req'.left \in Nat
      BY <2>4, <2>10, Facts DEF Requests
    <3>3. Types' /\ DiskApart' /\ Apart(fat')
      BY <2>1, <2>3, <2>10, <3>1, <3>2, Facts DEF Types, DiskApart
    <3>4. ClusterKnown'
      BY <2>2, <2>3, <2>6, <2>10, <3>1, <3>2 DEF ClusterKnown, OnSector
    <3> QED
      BY <3>3, <3>4 DEF ApartInv
  <2>11. CASE /\ fat' \in BrokenChains(0) /\ clst' = clst
              /\ fp' = [fp EXCEPT !.fptr = 0, !.err = TRUE] /\ pc' = "idle" /\ req' = NoReq
    <3>1. fp' \in FileObject /\ fp'.err
      BY <2>11, Facts DEF FileObject
    <3>2. Types' /\ DiskApart' /\ Apart(fat')
      BY <2>1, <2>3, <2>11, <3>1, Facts DEF Types, DiskApart
    <3> QED
      BY <2>11, <3>1, <3>2, EndApart
  <2> QED
    BY <2>5, <2>7, <2>8, <2>9, <2>10, <2>11
<1>2. CASE seek_loop
  <2> DEFINE r == IF fp.write THEN create_chain(clst)
                  ELSE [ncl |-> fat[clst], fat |-> fat, fs |-> fs]
  <2>1. pc = "sloop" /\ TooFar /\ UNCHANGED <<disk, dir, ops>>
    BY <1>2 DEF seek_loop
  <2>2. /\ ~ fp.err /\ clst \in Owned /\ fp.clust = clst /\ req.left \in Nat
        /\ \E k \in Nat : fp.fptr = k * bcs
    BY <2>1 DEF ApartInv, ClusterKnown
  <2>3. /\ r.ncl \in Clusters => r.ncl \in Owned
        /\ Apart(r.fat) /\ \A f \in BrokenChains(clst) : Apart(f)
    <3>1. CASE fp.write
      BY <2>2, <3>1, Facts, ChainApart, Constants
    <3>2. CASE ~ fp.write
      <4>1. fat[clst] \in Owned \cup {0, EOC}
        BY <2>2, Facts, NotTaken DEF Apart
      <4>2. \A f \in BrokenChains(clst) : Apart(f)
        BY <2>2, Facts, ChainApart
      <4> QED
        BY <3>2, <4>1, <4>2, Facts, Constants
    <3> QED
      BY <3>1, <3>2
  <2>4. \/ /\ r.ncl \in Clusters /\ fat' = r.fat /\ clst' = r.ncl
           /\ fp' = [fp EXCEPT !.clust = r.ncl, !.fptr = @ + bcs]
           /\ req' = [req EXCEPT !.left = @ - bcs] /\ pc' = pc
        \/ req' = [req EXCEPT !.left = bcs] /\ UNCHANGED <<fat, clst, fp, pc>>
        \/ Abort /\ UNCHANGED clst /\ (fat' = fat \/ fat' \in BrokenChains(clst))
    BY <1>2 DEF seek_loop
  <2> HIDE DEF r
  <2>5. CASE /\ r.ncl \in Clusters /\ fat' = r.fat /\ clst' = r.ncl
             /\ fp' = [fp EXCEPT !.clust = r.ncl, !.fptr = @ + bcs]
             /\ req' = [req EXCEPT !.left = @ - bcs] /\ pc' = pc
    <3>1. /\ fp' \in FileObject /\ fp'.err = fp.err /\ fp'.fptr = fp.fptr + bcs
          /\ fp'.clust = r.ncl
      <4>1. fp.fptr + bcs \in Nat /\ r.ncl \in Owned
        BY <2>3, <2>5, Facts, Constants
      <4> QED
        BY <2>5, <4>1, Facts DEF FileObject
    <3>2. req' \in Requests /\ req'.left \in Nat
      BY <2>1, <2>2, <2>5, Facts, Constants DEF Requests, TooFar
    <3>3. \E k \in Nat : fp'.fptr = k * bcs
      <4>1. PICK k \in Nat : fp.fptr = k * bcs
        BY <2>2
      <4>2. k * bcs + bcs = (k + 1) * bcs /\ k + 1 \in Nat
        BY Constants
      <4> QED
        BY <3>1, <4>1, <4>2
    <3>4. Types' /\ DiskApart' /\ Apart(fat')
      BY <2>1, <2>3, <2>5, <3>1, <3>2, Facts DEF Types, DiskApart
    <3>5. ClusterKnown'
      BY <2>1, <2>2, <2>3, <2>5, <3>1, <3>2, <3>3 DEF ClusterKnown
    <3> QED
      BY <3>4, <3>5 DEF ApartInv
  <2>6. CASE req' = [req EXCEPT !.left = bcs] /\ UNCHANGED <<fat, clst, fp, pc>>
    <3>1. req' \in Requests /\ req'.left \in Nat
      BY <2>6, Facts, Constants DEF Requests
    <3>2. Types' /\ DiskApart' /\ Apart(fat')
      BY <2>1, <2>6, <3>1, Facts DEF Types, DiskApart
    <3>3. ClusterKnown'
      BY <2>1, <2>2, <2>6, <3>1 DEF ClusterKnown
    <3> QED
      BY <3>2, <3>3 DEF ApartInv
  <2>7. CASE Abort /\ UNCHANGED clst /\ (fat' = fat \/ fat' \in BrokenChains(clst))
    BY <2>1, <2>3, <2>7, Facts, AbortApart
  <2> QED
    BY <2>4, <2>5, <2>6, <2>7
<1>3. CASE seek_arrive
  <2>1. /\ pc = "sloop" /\ ~ TooFar /\ fp' = [fp EXCEPT !.fptr = @ + req.left] /\ pc' = "sfill"
        /\ UNCHANGED <<disk, req, fat, clst, dir, ops>>
    BY <1>3 DEF seek_arrive, Quiet, Calm
  <2>2. /\ ~ fp.err /\ clst \in Owned /\ fp.clust = clst /\ req.left \in Nat
        /\ \E k \in Nat : fp.fptr = k * bcs
    BY <2>1 DEF ApartInv, ClusterKnown
  <2>3. /\ fp' \in FileObject /\ fp'.err = fp.err /\ fp'.fptr = fp.fptr + req.left
        /\ fp'.clust = fp.clust
    BY <2>1, <2>2, Facts DEF FileObject
  <2>4. ASSUME fp'.fptr % SS # 0 PROVE req.left < bcs
    <3>1. PICK k \in Nat : fp.fptr = k * bcs
      BY <2>2
    <3>2. req.left <= bcs
      BY <2>1, <2>2, Constants DEF TooFar
    <3> QED
      BY <2>2, <2>3, <2>4, <3>1, <3>2, SeekEnd
  <2>5. Types' /\ DiskApart' /\ Apart(fat')
    BY <2>1, <2>3, Facts DEF Types, DiskApart
  <2>6. ClusterKnown'
    BY <2>1, <2>2, <2>3, <2>4 DEF ClusterKnown, OnSector
  <2> QED
    BY <2>5, <2>6 DEF ApartInv
<1>4. CASE seek_fill
  <2> DEFINE nsect == clust2sect(clst) + (req.left \div SS)
             fill == ~ OnSector /\ nsect # fp.dsect
             sized(f) == [f EXCEPT !.fsize = IF f.fptr > @ THEN f.fptr ELSE @,
                                   !.written = @ \/ f.fptr > f.fsize]
             full == [fp EXCEPT !.buf = disk'[nsect], !.dsect = nsect, !.dirty = FALSE]
  <2>1. pc = "sfill" /\ pc' = "idle" /\ req' = NoReq /\ UNCHANGED <<fat, dir, clst, ops>>
    BY <1>4 DEF seek_fill, End
  <2>2. ~ fp.err /\ (fp.fptr = 0 \/ fp.clust \in Owned)
    BY <2>1 DEF ApartInv, ClusterKnown
  <2>3. \/ fill /\ disk' = Flushed /\ fp' = sized(full)
        \/ fp' = sized(fp) /\ UNCHANGED disk
        \/ UNCHANGED disk /\ fp' = [fp EXCEPT !.err = TRUE]
        \/ disk' = Flushed /\ fp' = [fp EXCEPT !.err = TRUE, !.dirty = FALSE]
    BY <1>4 DEF seek_fill
  <2>4. ASSUME NEW f \in FileObject
        PROVE  sized(f) \in FileObject /\ sized(f).clust = f.clust /\ sized(f).fptr = f.fptr
    <3>1. /\ (f.written \/ f.fptr > f.fsize) \in BOOLEAN
          /\ (IF f.fptr > f.fsize THEN f.fptr ELSE f.fsize) \in Nat
      BY DEF FileObject
    <3> QED
      BY <3>1 DEF FileObject
  <2>5. CASE fill /\ disk' = Flushed /\ fp' = sized(full)
    <3>1. clst \in Owned /\ req.left \in Nat /\ req.left < bcs
      BY <2>1, <2>5 DEF ApartInv, ClusterKnown
    <3>2. req.left \div SS \in Nat /\ req.left \div SS < csize
      BY <3>1, DivBound
    <3>3. nsect \in SectorsOf(clst)
      BY <3>1, <3>2, NotTaken, SectorsOnDisk
    <3>4. nsect \in Disk /\ nsect \in CacheSectors
      BY <3>1, <3>3, NotTaken, Constants DEF Disk, CacheSectors
    <3> HIDE DEF nsect
    <3>5. DiskApart'
      BY <2>5, Facts, FlushApart DEF DiskApart
    <3>6. disk'[nsect] \in Sector
      BY <3>4, <3>5 DEF DiskApart
    <3>7. full \in FileObject /\ full.clust = fp.clust /\ full.fptr = fp.fptr
      BY <3>4, <3>6, Facts DEF FileObject
    <3> HIDE DEF full, sized
    <3>8. fp' \in FileObject /\ fp'.clust = fp.clust /\ fp'.fptr = fp.fptr
      BY <2>4, <2>5, <3>7
    <3>9. Types' /\ Apart(fat')
      BY <2>1, <3>8, Facts DEF Types
    <3> QED
      BY <2>1, <2>2, <3>5, <3>8, <3>9, EndApart
  <2>6. CASE fp' = sized(fp) /\ UNCHANGED disk
    <3> HIDE DEF sized
    <3>1. fp' \in FileObject /\ fp'.clust = fp.clust /\ fp'.fptr = fp.fptr
      BY <2>4, <2>6, Facts
    <3>2. Types' /\ Apart(fat') /\ DiskApart'
      BY <2>1, <2>6, <3>1, Facts DEF Types, DiskApart
    <3> QED
      BY <2>1, <2>2, <3>1, <3>2, EndApart
  <2>7. CASE \/ UNCHANGED disk /\ fp' = [fp EXCEPT !.err = TRUE]
             \/ disk' = Flushed /\ fp' = [fp EXCEPT !.err = TRUE, !.dirty = FALSE]
    <3>1. DiskApart'
      BY <2>7, Facts, FlushApart DEF DiskApart
    <3>2. fp' \in FileObject /\ fp'.err
      BY <2>7, Facts DEF FileObject
    <3>3. Types' /\ Apart(fat')
      BY <2>1, <3>2, Facts DEF Types
    <3> QED
      BY <2>1, <3>1, <3>2, <3>3, EndApart
  <2> QED
    BY <2>3, <2>5, <2>6, <2>7
<1> QED
  BY <1>1, <1>2, <1>3, <1>4

\* f_truncate and remove_chain.
LEMMA TruncateApart ==
  ASSUME ApartInv, f_truncate \/ remove_chain
  PROVE  ApartInv'
<1>1. CASE f_truncate
  <2> DEFINE cut == [fp EXCEPT !.fsize = fp.fptr, !.written = TRUE]
  <2>1. pc = "idle" /\ ~ fp.err /\ ops' = ops + 1 /\ UNCHANGED <<disk, dir, req>>
    BY <1>1 DEF f_truncate
  <2>2. \/ /\ fp.fptr = 0 /\ clst' = fp.sclust /\ fp' = [cut EXCEPT !.sclust = 0] /\ UNCHANGED fat
           /\ pc' = "remove"
        \/ /\ fp.fptr # 0 /\ clst' = fat[fp.clust] /\ fp' = cut
           /\ fat' = [fat EXCEPT ![fp.clust] = EOC] /\ pc' = "remove"
        \/ fp' = [cut EXCEPT !.err = TRUE] /\ UNCHANGED <<fat, clst, pc>>
    BY <1>1 DEF f_truncate
  <2>3. cut \in FileObject /\ cut.err = fp.err /\ cut.fptr = fp.fptr /\ cut.clust = fp.clust
    BY Facts DEF FileObject
  <2>4. /\ fp' \in FileObject /\ fp'.fptr = fp.fptr /\ fp'.clust = fp.clust
        /\ pc' = "remove" => fp'.err = fp.err
    <3> HIDE DEF cut
    <3> QED
      BY <2>1, <2>2, <2>3 DEF FileObject
  <2>5. clst' \in Owned \cup {0, EOC} /\ Apart(fat')
    <3>1. CASE fp.fptr = 0 \/ UNCHANGED <<fat, clst>>
      BY <2>2, <3>1, Facts
    <3>2. CASE fp.fptr # 0 /\ pc' = "remove"
      <4>1. fp.clust \in Owned
        BY <2>1, <3>2 DEF ApartInv, ClusterKnown
      <4>2. fat[fp.clust] \in Owned \cup {0, EOC}
        BY <4>1, Facts DEF Apart, Owned
      <4>3. Apart([fat EXCEPT ![fp.clust] = EOC])
        BY <4>1, Facts DEF Apart, Owned
      <4> QED
        BY <2>1, <2>2, <3>2, <4>2, <4>3
    <3> QED
      BY <2>2, <3>1, <3>2
  <2>6. Types' /\ DiskApart'
    BY <2>1, <2>4, <2>5, Facts DEF Types, DiskApart
  <2>7. CASE pc' = "remove"
    <3>1. ClusterKnown'
      BY <2>1, <2>4, <2>7 DEF ApartInv, ClusterKnown
    <3> QED
      BY <2>5, <2>6, <3>1 DEF ApartInv
  <2>8. CASE pc' = "idle"
    <3>1. fp.fptr = 0 \/ fp.clust \in Owned
      BY <2>1 DEF ApartInv, ClusterKnown
    <3> QED
      BY <2>4, <2>5, <2>6, <2>8, <3>1, EndApart
  <2> QED
    BY <2>1, <2>2, <2>7, <2>8
<1>2. CASE remove_chain
  <2>1. pc = "remove" /\ UNCHANGED <<dir, ops>> /\ ~ fp.err
    BY <1>2 DEF remove_chain, ApartInv, ClusterKnown
  <2>2. CASE /\ clst \in Clusters /\ fat' = [fat EXCEPT ![clst] = 0] /\ clst' = fat[clst]
             /\ UNCHANGED <<disk, fp, req, pc>>
    <3>1. clst \in Owned
      BY <2>2, Facts, Constants
    <3>2. Apart(fat') /\ clst' \in Owned \cup {0, EOC}
      BY <2>2, <3>1, Facts DEF Apart, Owned
    <3>3. Types' /\ DiskApart'
      BY <2>1, <2>2, <3>2, Facts DEF Types, DiskApart
    <3>4. ClusterKnown'
      BY <2>1, <2>2 DEF ApartInv, ClusterKnown
    <3> QED
      BY <3>2, <3>3, <3>4 DEF ApartInv
  <2>3. CASE /\ disk' = Flushed /\ fp' = [fp EXCEPT !.dirty = FALSE]
             /\ pc' = "idle" /\ req' = NoReq /\ UNCHANGED <<fat, clst>>
    <3>1. DiskApart'
      BY <2>3, Facts, FlushApart DEF DiskApart
    <3>2. fp' \in FileObject /\ fp'.fptr = fp.fptr /\ fp'.clust = fp.clust
      BY <2>3, Facts DEF FileObject
    <3>3. Types' /\ Apart(fat')
      BY <2>1, <2>3, <3>2, Facts DEF Types
    <3>4. fp.fptr = 0 \/ fp.clust \in Owned
      BY <2>1 DEF ApartInv, ClusterKnown
    <3> QED
      BY <2>3, <3>1, <3>2, <3>3, <3>4, EndApart
  <2>4. CASE Abort /\ UNCHANGED <<fat, clst, disk>>
    BY <2>1, <2>4, Facts, AbortApart
  <2> QED
    BY <1>2, <2>2, <2>3, <2>4 DEF remove_chain, End
<1> QED
  BY <1>1, <1>2

\* f_sync, f_close and f_open.
LEMMA SyncApart ==
  ASSUME ApartInv, f_sync \/ \E w \in BOOLEAN : f_close_open(w)
  PROVE  ApartInv'
<1>1. Synced \in [size : Nat, sclust : Owned \cup {0}]
  BY Facts DEF Synced
<1>2. ASSUME SyncSucceeds \/ SyncFails, pc = "idle", ops' = ops + 1,
             UNCHANGED <<pc, fat, req, clst>>
      PROVE  ApartInv'
  <2>1. /\ disk' \in {disk, Flushed} /\ dir' \in {dir, Synced}
        /\ \/ fp' = fp
           \/ fp' = [fp EXCEPT !.dirty = FALSE]
           \/ fp' = [fp EXCEPT !.dirty = FALSE, !.written = FALSE]
    BY <1>2 DEF SyncSucceeds, SyncFails
  <2>2. DiskApart'
    BY <2>1, Facts, FlushApart DEF DiskApart
  <2>3. fp' \in FileObject /\ fp'.fptr = fp.fptr /\ fp'.clust = fp.clust /\ fp'.err = fp.err
    BY <2>1, Facts DEF FileObject
  <2>4. Types' /\ Apart(fat')
    BY <1>1, <1>2, <2>1, <2>3, Facts DEF Types
  <2>5. fp.err \/ fp.fptr = 0 \/ fp.clust \in Owned
    BY <1>2 DEF ApartInv, ClusterKnown
  <2> QED
    BY <1>2, <2>2, <2>3, <2>4, <2>5, EndApart
<1>3. ASSUME NEW w \in BOOLEAN, pc = "idle", ops' = ops + 1, fp' = Reopened(dir', w),
             (disk' = Flushed /\ dir' = Synced) \/ UNCHANGED <<disk, dir>>,
             UNCHANGED <<pc, fat, req, clst>>
      PROVE  ApartInv'
  <2>1. /\ pc = "idle" /\ pc' = pc /\ ops' = ops + 1
        /\ fp' = Reopened(dir', w)
        /\ UNCHANGED <<fat, req, clst>>
        /\ (disk' = Flushed /\ dir' = Synced) \/ UNCHANGED <<disk, dir>>
    BY <1>3
  <2>2. DiskApart'
    BY <2>1, Facts, FlushApart DEF DiskApart
  <2>3. dir' \in [size : Nat, sclust : Owned \cup {0}]
    BY <1>1, <2>1, Facts
  <2>4. dir'.size \in Nat /\ dir'.sclust \in Owned \cup {0} /\ 0 \in CacheSectors
    <3>1. 0 \notin TakenSectors
      BY Constants, SectorsOnDisk DEF TakenSectors, Disk
    <3> QED
      BY <2>3, <3>1 DEF CacheSectors
  <2>5. fp' \in FileObject /\ fp'.fptr = 0
    BY <2>1, <2>4, Facts DEF FileObject, Reopened
  <2>6. Types' /\ Apart(fat')
    BY <2>1, <2>3, <2>5, Facts DEF Types
  <2> QED
    BY <2>1, <2>2, <2>5, <2>6, EndApart
<1>4. CASE f_sync
  BY <1>2, <1>4 DEF f_sync
<1>5. ASSUME NEW w \in BOOLEAN, f_close_open(w) PROVE ApartInv'
  <2>1. /\ pc = "idle" /\ ops' = ops + 1 /\ UNCHANGED <<pc, fat, req, clst>>
        /\ \/ /\ (disk' = Flushed /\ dir' = Synced) \/ UNCHANGED <<disk, dir>>
              /\ fp' = Reopened(dir', w)
           \/ SyncFails
    BY <1>5 DEF f_close_open
  <2> QED
    BY <1>2, <1>3, <2>1
<1> QED
  BY <1>4, <1>5

\* Every step of every call keeps the invariant.
LEMMA ApartStep == ApartInv /\ [Next]_vars => ApartInv'
<1> SUFFICES ASSUME ApartInv, [Next]_vars PROVE ApartInv'
  OBVIOUS
<1>1. ASSUME NEW n \in Lengths, f_read(n) PROVE ApartInv'
  <2>1. Smaller(n, fp.fsize - fp.fptr) \in Int
    BY Facts, FatFileAssumption DEF Smaller
  <2> QED
    BY <1>1, <2>1, BeginApart DEF f_read, Bytes
<1>2. ASSUME NEW n \in Lengths, f_write(n, 1 + (ops % 2)) PROVE ApartInv'
  <2>1. n \in Int /\ 1 + (ops % 2) \in Bytes
    BY Facts, FatFileAssumption DEF Bytes
  <2> QED
    BY <1>2, <2>1, BeginApart DEF f_write
<1>3. ASSUME NEW ofs \in Offsets, f_lseek(ofs) PROVE ApartInv'
  BY <1>3, FatFileAssumption, BeginApart DEF f_lseek, Bytes
<1>4. CASE Steps
  BY <1>4, ReadApart, WriteApart, SeekApart, TruncateApart DEF Steps
<1>5. CASE f_truncate
  BY <1>5, TruncateApart
<1>6. CASE f_sync \/ \E w \in BOOLEAN : f_close_open(w)
  BY <1>6, SyncApart
<1>7. CASE UNCHANGED vars
  <2>1. UNCHANGED <<fat, disk, dir, fp, req, pc, clst, ops>>
    BY <1>7 DEF vars
  <2> QED
    BY <2>1 DEF ApartInv, Types, DiskApart, ClusterKnown, OnSector
<1> QED
  BY <1>1, <1>2, <1>3, <1>4, <1>5, <1>6, <1>7 DEF Next, Calls

\* The initial file's clusters are its own.
LEMMA ApartInit == Init => ApartInv
<1> SUFFICES ASSUME Init PROVE ApartInv
  OBVIOUS
<1>1. PICK n \in Sizes, w \in BOOLEAN : \E own \in FirstChains(n) :
        LET start == IF DOMAIN own = {} THEN 0 ELSE own[1]
        IN  /\ fat = [c \in Clusters |->
                        CASE c \in Taken -> EOC
                          [] c \in Range(own) -> LinkIn(own, c)
                          [] OTHER -> 0]
            /\ dir = [size |-> n, sclust |-> start]
            /\ fp = [fptr |-> 0, fsize |-> n, clust |-> 0, sclust |-> start, dsect |-> 0,
                     buf |-> Filled(0), dirty |-> FALSE, written |-> FALSE,
                     err |-> FALSE, write |-> w]
  BY DEF Init
<1>2. PICK own \in FirstChains(n) :
        LET start == IF DOMAIN own = {} THEN 0 ELSE own[1]
        IN  /\ fat = [c \in Clusters |->
                        CASE c \in Taken -> EOC
                          [] c \in Range(own) -> LinkIn(own, c)
                          [] OTHER -> 0]
            /\ dir = [size |-> n, sclust |-> start]
            /\ fp = [fptr |-> 0, fsize |-> n, clust |-> 0, sclust |-> start, dsect |-> 0,
                     buf |-> Filled(0), dirty |-> FALSE, written |-> FALSE,
                     err |-> FALSE, write |-> w]
  BY <1>1
<1> DEFINE start == IF DOMAIN own = {} THEN 0 ELSE own[1]
           m == (n + bcs - 1) \div bcs
<1>3. own \in [1 .. m -> Owned] /\ m \in Int
  <2>1. n \in Nat
    BY FatFileAssumption
  <2>2. n + bcs - 1 \in Nat
    BY <2>1, Constants
  <2> QED
    BY <2>2, Constants DEF FirstChains, Owned
<1> HIDE DEF m
<1>4. start \in Owned \cup {0}
  <2>1. DOMAIN own # {} => 1 \in DOMAIN own
    BY <1>3
  <2> QED
    BY <1>3, <2>1
<1>5. \A c \in Range(own) : LinkIn(own, c) \in Owned \cup {EOC}
  BY <1>3 DEF LinkIn
<1>6. Apart(fat)
  <2>1. ASSUME NEW c \in Clusters
        PROVE  fat[c] \in Owned \cup {0, EOC} /\ (c \in Taken => fat[c] = EOC)
    <3>1. /\ c \in Taken => fat[c] = EOC
          /\ c \notin Taken /\ c \in Range(own) => fat[c] = LinkIn(own, c)
          /\ c \notin Taken /\ c \notin Range(own) => fat[c] = 0
      <4>1. fat[c] = CASE c \in Taken -> EOC
                       [] c \in Range(own) -> LinkIn(own, c)
                       [] OTHER -> 0
        BY <1>2
      <4>2. c \in Range(own) => c \notin Taken
        BY <1>3 DEF Range, Owned
      <4> QED
        BY <4>1, <4>2
    <3> QED
      BY <3>1, <1>5
  <2> QED
    BY <1>2, <2>1, Constants DEF Apart
<1>7. Filled(0) \in Sector
  BY DEF Filled, Sector, Bytes
<1>8. DiskApart
  <2>1. disk = [s \in Disk |-> Filled(0)]
    BY DEF Init, Disk
  <2>2. TakenSectors \subseteq Disk
    BY Constants, SectorsOnDisk DEF TakenSectors
  <2> QED
    BY <1>7, <2>1, <2>2 DEF DiskApart
<1>9. 0 \in CacheSectors /\ n \in Nat
  BY Constants, SectorsOnDisk, FatFileAssumption DEF TakenSectors, Disk, CacheSectors
<1> HIDE DEF start
<1>10. /\ dir = [size |-> n, sclust |-> start]
       /\ fp = [fptr |-> 0, fsize |-> n, clust |-> 0, sclust |-> start, dsect |-> 0,
                buf |-> Filled(0), dirty |-> FALSE, written |-> FALSE,
                err |-> FALSE, write |-> w]
  BY <1>2 DEF start
<1>11. fp \in FileObject /\ fp.fptr = 0 /\ dir \in [size : Nat, sclust : Owned \cup {0}]
  BY <1>4, <1>7, <1>9, <1>10 DEF FileObject
<1>12. req = NoReq /\ pc = "idle" /\ clst = 0 /\ ops = 0
  BY DEF Init
<1>13. Types
  BY <1>11, <1>12 DEF Types, Requests, NoReq, Bytes
<1>14. ClusterKnown
  BY <1>11, <1>12 DEF ClusterKnown
<1> QED
  BY <1>6, <1>8, <1>13, <1>14 DEF ApartInv

-----------------------------------------------------------------------------
(* The chain of the file.                                                  *)

\* What a FAT entry holds.
Values == Owned \cup {0, EOC}

\* The first clusters of the chain, as a function.
ChainTo(f, k) ==
  /\ DOMAIN f = 0 .. k
  /\ f = [i \in 0 .. k |-> IF i = 0 THEN fp.sclust ELSE Link(f[i - 1])]

\* The recursive definition of the file's chain defines a function: the least index at
\* which no initial piece of it exists would be reached from the piece before.
LEMMA ChainExists ==
  ASSUME NEW n \in Nat PROVE \E f : ChainTo(f, n)
<1> SUFFICES ASSUME ~ \E f : ChainTo(f, n) PROVE FALSE
  OBVIOUS
<1> DEFINE T == {k \in Nat : ~ \E f : ChainTo(f, k)}
<1>1. T \in SUBSET Nat /\ T # {}
  OBVIOUS
<1>2. PICK k \in T : \A q \in T : k <= q
  BY <1>1, LeastNumber
<1>3. CASE k = 0
  <2> DEFINE g == [i \in 0 .. 0 |-> fp.sclust]
  <2>1. g = [i \in 0 .. 0 |-> IF i = 0 THEN fp.sclust ELSE Link(g[i - 1])]
    OBVIOUS
  <2>2. ChainTo(g, 0)
    BY <2>1 DEF ChainTo
  <2> QED
    BY <1>2, <1>3, <2>2
<1>4. CASE k # 0
  <2>1. k \in Nat /\ k - 1 \in Nat /\ k - 1 \notin T
    BY <1>2, <1>4
  <2>2. PICK f : ChainTo(f, k - 1)
    BY <2>1
  <2> DEFINE g == [i \in 0 .. k |-> IF i = k THEN Link(f[k - 1]) ELSE f[i]]
  <2>3. ASSUME NEW i \in 0 .. k
        PROVE  g[i] = IF i = 0 THEN fp.sclust ELSE Link(g[i - 1])
    <3>1. CASE i = k
      BY <1>4, <2>1, <3>1
    <3>2. CASE i # k
      <4>1. i \in 0 .. k - 1
        BY <2>1, <3>2
      <4>2. f[i] = IF i = 0 THEN fp.sclust ELSE Link(f[i - 1])
        BY <2>2, <4>1 DEF ChainTo
      <4>3. i # 0 => g[i - 1] = f[i - 1]
        BY <2>1, <4>1
      <4> QED
        BY <3>2, <4>2, <4>3
    <3> QED
      BY <3>1, <3>2
  <2>4. g = [i \in 0 .. k |-> g[i]] /\ DOMAIN g = 0 .. k
    OBVIOUS
  <2> HIDE DEF g
  <2>5. ChainTo(g, k)
    BY <2>3, <2>4 DEF ChainTo
  <2> QED
    BY <1>2, <2>5
<1> QED
  BY <1>3, <1>4

\* Each cluster of the chain is the link of the one before.
LEMMA ChainUnfolds ==
  \A i \in 0 .. n_fatent : Chain[i] = IF i = 0 THEN fp.sclust ELSE Link(Chain[i - 1])
<1>1. PICK f : ChainTo(f, n_fatent)
  BY ChainExists, Constants
<1>2. \E nth : nth = [i \in 0 .. n_fatent |-> IF i = 0 THEN fp.sclust ELSE Link(nth[i - 1])]
  BY <1>1 DEF ChainTo
<1>3. Chain = CHOOSE nth :
                nth = [i \in 0 .. n_fatent |-> IF i = 0 THEN fp.sclust ELSE Link(nth[i - 1])]
  BY DEF Chain
<1>4. Chain = [i \in 0 .. n_fatent |-> IF i = 0 THEN fp.sclust ELSE Link(Chain[i - 1])]
  BY <1>2, <1>3
<1> HIDE DEF Chain
<1> QED
  BY <1>4

\* The clusters of the file are its own.
LEMMA ChainOwned ==
  ASSUME ApartInv
  PROVE  ChainClusters \cap Taken = {}
<1>1. ASSUME NEW i \in 0 .. n_fatent PROVE Chain[i] \in Values
  <2> SUFFICES ASSUME Chain[i] \notin Values PROVE FALSE
    OBVIOUS
  <2> DEFINE T == {j \in 0 .. n_fatent : Chain[j] \notin Values}
  <2>1. T \in SUBSET Nat /\ T # {}
    BY Constants
  <2>2. PICK j \in T : \A q \in T : j <= q
    BY <2>1, LeastNumber
  <2>3. j \in 0 .. n_fatent /\ Chain[j] \notin Values
    BY <2>2
  <2>4. CASE j = 0
    BY <2>3, <2>4, ChainUnfolds, Facts DEF Values
  <2>5. CASE j # 0
    <3>1. j - 1 \in 0 .. n_fatent /\ j - 1 \notin T
      BY <2>2, <2>3, <2>5, Constants
    <3>2. Chain[j - 1] \in Values
      BY <3>1
    <3>3. Link(Chain[j - 1]) \in Values
      BY <3>2, Facts DEF Link, Values, Apart
    <3> QED
      BY <2>3, <2>5, <3>3, ChainUnfolds
  <2> QED
    BY <2>4, <2>5
<1> QED
  BY <1>1, Constants DEF ChainClusters, Values, Owned

\* Whatever calls are made on a file, with reads, writes, seeks and truncations of any
\* length, and whatever disk accesses of them fail, until a failed one tears the window over
\* the FAT and the directory, the FAT entries and the sectors of other files stay as they
\* were and the file's chain never enters them (create_chain, remove_chain, f_read,
\* f_write, f_lseek, f_truncate, f_sync, f_close, f_open).
THEOREM OtherFilesUntouched == Spec => [](~ torn => OthersUntouched)
<1>1. ApartInv => OthersUntouched
  <2> SUFFICES ASSUME ApartInv PROVE OthersUntouched
    OBVIOUS
  <2>1. \A c \in Taken : fat[c] = EOC
    BY Facts DEF Apart
  <2>2. \A c \in Taken : \A s \in SectorsOf(c) : disk[s] = Filled(0)
    BY Facts DEF DiskApart, TakenSectors
  <2> QED
    BY <2>1, <2>2, ChainOwned DEF OthersUntouched
<1> QED
  BY <1>1, ApartInit, ApartStep, PTL DEF Spec

-----------------------------------------------------------------------------
(* Positions in a chain.                                                   *)

\* The end of the k-th cluster of a file, from its start.
LEMMA ClusterEnd ==
  ASSUME NEW k \in Nat, k > 0
  PROVE  /\ (k - 1) * bcs \in Nat /\ k * bcs \in Nat /\ k * bcs = (k - 1) * bcs + bcs
         /\ k * bcs = (k * csize) * SS /\ k * csize \in Nat /\ (k - 1) * csize \in Nat
         /\ k * csize = (k - 1) * csize + csize
         /\ (k - 1) * bcs = ((k - 1) * csize) * SS
BY Constants

\* A multiple of the cluster size between two others.
LEMMA MultBetween ==
  ASSUME NEW k \in Nat, NEW r \in Nat, NEW b \in Nat, k > 0, (k - 1) * b < r * b
  PROVE  r >= k
<1> SUFFICES ASSUME r <= k - 1 PROVE FALSE
  OBVIOUS
<1>1. k - 1 \in Nat
  OBVIOUS
<1>2. r * b \in Nat /\ (k - 1) * b \in Nat /\ r * b <= (k - 1) * b
  BY <1>1, MultMono
<1> QED
  BY <1>2

\* The sector and the offset in it that a position falls on.
LEMMA SectorSplit ==
  ASSUME NEW p \in Nat
  PROVE  \E q \in Nat, o \in Nat :
            o < SS /\ q * SS \in Nat /\ p = q * SS + o /\ p \div SS = q /\ p % SS = o
<1> DEFINE q == p \div SS
           o == p - q * SS
<1>1. q \in Nat /\ q * SS \in Nat /\ q * SS <= p /\ p < q * SS + SS
  BY Constants
<1> HIDE DEF q
<1>2. o \in Nat /\ o < SS /\ p = q * SS + o
  BY <1>1, Constants
<1> HIDE DEF o
<1>3. (q * SS + o) % SS = o
  BY <1>1, <1>2, Constants
<1>4. p \div SS = q /\ p % SS = o
  BY <1>2, <1>3 DEF q
<1> QED
  BY <1>1, <1>2, <1>4

\* A position on a cluster boundary is the end of the cluster it was reached in.
LEMMA OnBoundary ==
  ASSUME NEW p \in Nat, NEW k \in Nat, k > 0, (k - 1) * bcs < p, p <= k * bcs
  PROVE  (p % SS = 0 /\ (p \div SS) % csize = 0) <=> p = k * bcs
<1>1. ASSUME p % SS = 0, (p \div SS) % csize = 0 PROVE p = k * bcs
  <2>1. PICK q \in Nat : p = q * SS /\ p \div SS = q
    <3>1. PICK q \in Nat, o \in Nat :
             q * SS \in Nat /\ p = q * SS + o /\ p \div SS = q /\ p % SS = o
      BY SectorSplit
    <3> QED
      BY <1>1, <3>1
  <2> DEFINE r == q \div csize
  <2>2. r \in Nat /\ q = r * csize
    <3>1. q % csize = 0
      BY <1>1, <2>1
    <3> QED
      BY <3>1, Constants
  <2> HIDE DEF r
  <2>3. p = r * bcs
    BY <2>1, <2>2, Constants
  <2>4. r >= k
    BY <2>2, <2>3, MultBetween, Constants
  <2>5. k * bcs <= r * bcs
    BY <2>2, <2>4, MultMono, Constants
  <2> QED
    BY <2>2, <2>3, <2>5, ClusterEnd
<1>2. ASSUME p = k * bcs PROVE p % SS = 0 /\ (p \div SS) % csize = 0
  <2>1. k * csize \in Nat /\ p = (k * csize) * SS
    BY <1>2, ClusterEnd
  <2> DEFINE q == k * csize
  <2>2. q % csize = 0
    BY Constants
  <2> HIDE DEF q
  <2>3. p % SS = 0 /\ p \div SS = q
    BY <2>1, Constants DEF q
  <2> QED
    BY <2>2, <2>3
<1> QED
  BY <1>1, <1>2

\* The index of the cluster that ends the bytes before a position.
LEMMA IndexOf ==
  ASSUME NEW p \in Nat, NEW k \in Nat, k > 0, (k - 1) * bcs < p, p <= k * bcs
  PROVE  (p - 1) \div bcs = k - 1
<1> DEFINE j == (p - 1) \div bcs
<1>1. p - 1 \in Nat
  BY ClusterEnd
<1>2. j \in Nat /\ j * bcs <= p - 1 /\ p - 1 < j * bcs + bcs /\ j * bcs \in Nat
  BY <1>1, Constants
<1> HIDE DEF j
<1>3. (j + 1) * bcs = j * bcs + bcs
  BY <1>2, Constants
<1>4. j + 1 >= k
  BY <1>2, <1>3, MultBetween, ClusterEnd, Constants
<1>5. j < k
  <2> SUFFICES ASSUME j >= k PROVE FALSE
    BY <1>2
  <2>1. k * bcs <= j * bcs
    BY <1>2, MultMono, Constants
  <2> QED
    BY <1>2, <2>1, ClusterEnd
<1> QED
  BY <1>2, <1>4, <1>5 DEF j

\* A piece of a sector ends within the cluster.
LEMMA PieceInside ==
  ASSUME NEW p \in Nat, NEW k \in Nat, k > 0, p < k * bcs,
         NEW x \in Nat, x <= SS - (p % SS)
  PROVE  p + x <= k * bcs
<1>1. PICK q \in Nat, o \in Nat : o < SS /\ q * SS \in Nat /\ p = q * SS + o /\ p % SS = o
  BY SectorSplit
<1>2. k * csize \in Nat /\ k * bcs = (k * csize) * SS
  BY ClusterEnd
<1>3. q < k * csize
  <2> SUFFICES ASSUME q >= k * csize PROVE FALSE
    BY <1>1, <1>2
  <2>1. (k * csize) * SS <= q * SS
    BY <1>1, <1>2, MultMono, Constants
  <2> QED
    BY <1>1, <1>2, <2>1, Constants
<1>4. (q + 1) * SS <= (k * csize) * SS
  BY <1>1, <1>2, <1>3, MultMono, Constants
<1>5. (q + 1) * SS = q * SS + SS
  BY <1>1, Constants
<1> QED
  BY <1>1, <1>2, <1>4, <1>5, Constants

\* So do the whole sectors of a direct transfer.
LEMMA WholeInside ==
  ASSUME NEW p \in Nat, NEW k \in Nat, k > 0, (k - 1) * bcs <= p, p < k * bcs, p % SS = 0,
         NEW x \in Nat, x <= csize - ((p \div SS) % csize)
  PROVE  p + x * SS <= k * bcs /\ x * SS \in Nat
<1> DEFINE b == k - 1
<1>1. PICK q \in Nat : q * SS \in Nat /\ p = q * SS /\ p \div SS = q
  <2>1. PICK q \in Nat, o \in Nat : q * SS \in Nat /\ p = q * SS + o /\ p \div SS = q /\ p % SS = o
    BY SectorSplit
  <2> QED
    BY <2>1
<1>2. b \in Nat /\ k = b + 1
  OBVIOUS
<1> HIDE DEF b
<1>3. /\ b * csize \in Nat /\ (b + 1) * csize = b * csize + csize
      /\ b * bcs = (b * csize) * SS /\ (b + 1) * bcs = ((b + 1) * csize) * SS
  BY <1>2, Constants
<1>4. b * csize <= q
  <2> SUFFICES ASSUME q + 1 <= b * csize PROVE FALSE
    BY <1>1, <1>3
  <2>1. (q + 1) * SS <= (b * csize) * SS
    BY <1>1, <1>3, MultMono, Constants
  <2>2. (q + 1) * SS = q * SS + SS
    BY <1>1, Constants
  <2> QED
    BY <1>1, <1>3, <2>1, <2>2, Constants DEF b
<1>5. q < b * csize + csize
  <2> SUFFICES ASSUME q >= b * csize + csize PROVE FALSE
    BY <1>1, <1>3, Constants
  <2>1. (b + 1) * csize \in Nat /\ (b + 1) * csize <= q
    BY <1>1, <1>3, Constants
  <2>2. ((b + 1) * csize) * SS <= q * SS
    BY <1>1, <2>1, MultMono, Constants
  <2> QED
    BY <1>1, <1>2, <1>3, <2>2, Constants DEF b
<1>6. q % csize = q - b * csize
  <2> DEFINE r == q - b * csize
  <2>1. r \in Nat /\ r < csize /\ q = b * csize + r
    BY <1>1, <1>3, <1>4, <1>5, Constants
  <2> HIDE DEF r
  <2>2. (b * csize + r) % csize = r
    BY <1>2, <2>1, Constants
  <2> QED
    BY <2>1, <2>2 DEF r
<1>7. q + x <= (b + 1) * csize /\ q + x \in Nat /\ (b + 1) * csize \in Nat
  BY <1>1, <1>3, <1>6, Constants
<1>8. (q + x) * SS <= ((b + 1) * csize) * SS
  BY <1>7, MultMono, Constants
<1>9. (q + x) * SS = q * SS + x * SS /\ x * SS \in Nat
  BY <1>1, Constants
<1> QED
  BY <1>1, <1>2, <1>3, <1>8, <1>9

-----------------------------------------------------------------------------
(* The chain of the file as a sequence of different clusters.              *)

\* From a, the links of f run through ch and end there.
Run(f, a, n, ch) ==
  /\ n \in Nat /\ ch \in [1 .. n -> Owned]
  /\ \A i, j \in 1 .. n : ch[i] = ch[j] => i = j
  /\ \A i \in 1 .. n : f[ch[i]] = IF i = n THEN EOC ELSE ch[i + 1]
  /\ IF n = 0 THEN a \notin Clusters ELSE a = ch[1]

\* The cluster of the file object is the one that holds the pointer: the bytes before it
\* between two calls, the byte at it in a transfer; a seek counts whole clusters.
Pointer(n, ch) ==
  /\ pc \in {"idle", "read", "write", "seek", "sfill", "remove"} /\ ~ fp.err /\ fp.fptr > 0 =>
       \E k \in 1 .. n : fp.clust = ch[k] /\ (k - 1) * bcs < fp.fptr /\ fp.fptr <= k * bcs
  /\ pc \in {"rsect", "rcopy", "wflush", "wsect", "wcopy"} /\ fp.clust \in Owned =>
       \E k \in 1 .. n : fp.clust = ch[k] /\ (k - 1) * bcs <= fp.fptr /\ fp.fptr < k * bcs
  /\ pc \in {"rsect", "wflush", "wsect"} => OnSector
  /\ pc = "sloop" =>
       /\ req.left > 0
       /\ \E k \in 1 .. n : clst = ch[k] /\ fp.fptr = (k - 1) * bcs

\* free_clust never counts less than what is free, nor more than what the file leaves;
\* as long as no disk access failed it is exact and every cluster in use is the file's.
Counted(n, ch, m, rest) ==
  /\ fs.free \in Nat /\ Cardinality(Free(fat)) <= fs.free /\ fs.free + n + m <= n_fatent
  /\ faults = 0 =>
       /\ fs.free = Cardinality(Free(fat))
       /\ \A c \in Owned : fat[c] # 0 =>
            (\E i \in 1 .. n : ch[i] = c) \/ (\E j \in 1 .. m : rest[j] = c)

\* ch is the file, rest what remove_chain has still to free.
Chained(n, ch, m, rest) ==
  /\ Run(fat, fp.sclust, n, ch)
  /\ m \in Nat /\ rest \in [1 .. m -> Owned]
  /\ IF pc = "remove" THEN Run(fat, clst, m, rest) ELSE m = 0
  /\ \A i \in 1 .. n, j \in 1 .. m : ch[i] # rest[j]
  /\ Counted(n, ch, m, rest)

\* The file has as many clusters as its size needs, and its pointer is in the right one.
Kept(n, ch, m, rest) ==
  Chained(n, ch, m, rest) /\ fp.fsize <= n * bcs /\ Pointer(n, ch)

\* The directory entry is that of the file, unless the file object says so; or the file's
\* first cluster is new and its call did not end.
DirKnown ==
  ~ fp.written =>
    /\ dir.size = fp.fsize
    /\ \/ dir.sclust = fp.sclust
       \/ /\ dir.sclust = 0 /\ dir.size = 0
          /\ \/ faults > 0 \/ pc \in {"write", "wflush", "wsect", "wcopy"}
             \/ (pc = "sloop" /\ fp.write) \/ (pc = "sfill" /\ fp.fptr > 0)

\* The inductive invariant: some chain is the file's.
KeptInv ==
  /\ \E n, m \in 0 .. n_fatent :
       \E ch \in [1 .. n -> Owned], rest \in [1 .. m -> Owned] : Kept(n, ch, m, rest)
  /\ DirKnown /\ faults \in Nat

\* The number of free clusters is a natural number, and changes with each of them.
LEMMA FreeCount ==
  ASSUME NEW f \in [Clusters -> Values]
  PROVE  /\ IsFiniteSet(Free(f)) /\ Cardinality(Free(f)) \in Nat
         /\ Free(f) # {} => Cardinality(Free(f)) > 0
<1>1. IsFiniteSet(Clusters)
  BY FS_Interval, Constants DEF Clusters
<1>2. Free(f) \in SUBSET Clusters
  BY DEF Free
<1>3. IsFiniteSet(Free(f))
  BY <1>1, <1>2, FS_Subset
<1> QED
  BY <1>3, FS_CardinalityType, FS_EmptySet

\* Marking a free cluster takes one from their number, wherever it is linked.
LEMMA FreeLess ==
  ASSUME NEW f \in [Clusters -> Values], NEW g \in [Clusters -> Values], NEW x \in Free(f),
         \A c \in Clusters : g[c] = 0 <=> f[c] = 0 /\ c # x
  PROVE  Cardinality(Free(g)) = Cardinality(Free(f)) - 1
<1>1. Free(g) = Free(f) \ {x}
  BY DEF Free
<1> QED
  BY <1>1, FreeCount, FS_RemoveElement

\* Freeing a cluster adds one to it.
LEMMA FreeMore ==
  ASSUME NEW f \in [Clusters -> Values], NEW g \in [Clusters -> Values], NEW x \in Clusters,
         f[x] # 0, \A c \in Clusters : g[c] = 0 <=> f[c] = 0 \/ c = x
  PROVE  Cardinality(Free(g)) = Cardinality(Free(f)) + 1
<1>1. Free(g) = Free(f) \cup {x} /\ x \notin Free(f)
  BY DEF Free
<1> QED
  BY <1>1, FreeCount, FS_AddElement

\* A chain does not depend on the entries of clusters outside it.
LEMMA RunSame ==
  ASSUME NEW f, NEW g, NEW a, NEW n, NEW ch, Run(f, a, n, ch),
         \A i \in 1 .. n : g[ch[i]] = f[ch[i]]
  PROVE  Run(g, a, n, ch)
BY DEF Run

\* No cluster of a chain is free.
LEMMA RunUsed ==
  ASSUME NEW f, NEW a, NEW n, NEW ch, Run(f, a, n, ch), NEW i \in 1 .. n
  PROVE  ch[i] \in Owned /\ ch[i] \in Clusters /\ f[ch[i]] # 0
<1>1. ch[i] \in Owned /\ ch[i] \in Clusters
  BY NotTaken DEF Run
<1>2. EOC # 0
  BY <1>1, Constants DEF Clusters, EOC
<1>3. i # n => ch[i + 1] \in Owned
  BY DEF Run
<1> QED
  BY <1>1, <1>2, <1>3, NotTaken DEF Run

\* A free cluster linked behind the last one makes the chain longer by it.
LEMMA RunStretch ==
  ASSUME NEW f \in [Clusters -> Values], NEW a, NEW n, NEW ch, Run(f, a, n, ch), n > 0,
         NEW x \in Free(f), x \in Owned,
         NEW d, d = [i \in 1 .. n + 1 |-> IF i = n + 1 THEN x ELSE ch[i]]
  PROVE  Run([f EXCEPT ![x] = EOC, ![ch[n]] = x], a, n + 1, d)
<1> DEFINE g == [f EXCEPT ![x] = EOC, ![ch[n]] = x]
<1>1. n \in Nat /\ n \in 1 .. n /\ ch \in [1 .. n -> Owned]
  BY DEF Run
<1>2. \A i \in 1 .. n : ch[i] # x /\ ch[i] \in Clusters
  BY RunUsed DEF Free
<1>3. d \in [1 .. n + 1 -> Owned] /\ d[n + 1] = x /\ \A i \in 1 .. n : d[i] = ch[i]
  BY <1>1
<1>4. g[x] = EOC /\ g[ch[n]] = x /\ \A i \in 1 .. n - 1 : g[ch[i]] = f[ch[i]]
  <2>1. x \in Clusters /\ ch[n] \in Clusters /\ ch[n] # x
    BY <1>1, <1>2 DEF Free
  <2>2. \A i \in 1 .. n - 1 : ch[i] # ch[n] /\ ch[i] # x /\ ch[i] \in Clusters
    BY <1>1, <1>2 DEF Run
  <2> QED
    BY <2>1, <2>2
<1> HIDE DEF g
<1>5. \A i, j \in 1 .. n + 1 : d[i] = d[j] => i = j
  BY <1>1, <1>2, <1>3 DEF Run
<1>6. ASSUME NEW i \in 1 .. n + 1
      PROVE  g[d[i]] = IF i = n + 1 THEN EOC ELSE d[i + 1]
  <2>1. CASE i = n + 1
    BY <1>3, <1>4, <2>1
  <2>2. CASE i = n
    BY <1>1, <1>3, <1>4, <2>2
  <2>3. CASE i \in 1 .. n - 1
    <3>1. i \in 1 .. n /\ i + 1 \in 1 .. n /\ i # n /\ i # n + 1
      BY <1>1, <2>3
    <3>2. g[d[i]] = f[ch[i]] /\ d[i + 1] = ch[i + 1]
      BY <1>3, <1>4, <2>3, <3>1
    <3> QED
      BY <3>1, <3>2 DEF Run
  <2> QED
    BY <1>1, <2>1, <2>2, <2>3
<1>7. a = d[1]
  BY <1>1, <1>3 DEF Run
<1>8. Run(g, a, n + 1, d)
  BY <1>1, <1>3, <1>5, <1>6, <1>7 DEF Run
<1> QED
  BY <1>8 DEF g

\* A new file's chain is its first cluster.
LEMMA RunFirst ==
  ASSUME NEW f \in [Clusters -> Values], NEW x \in Free(f), x \in Owned
  PROVE  Run([f EXCEPT ![x] = EOC], x, 1, [i \in 1 .. 1 |-> x])
BY DEF Run, Free

\* create_chain follows a link, finds the volume full, or takes a free cluster.
LEMMA ChainCases ==
  ASSUME NEW c
  PROVE  /\ \/ /\ c # 0 /\ fat[c] < n_fatent
               /\ create_chain(c) = [ncl |-> fat[c], fat |-> fat, fs |-> fs]
            \/ create_chain(c) = [ncl |-> 0, fat |-> fat, fs |-> fs]
            \/ \E x \in Free(fat) :
                 /\ c = 0 \/ ~ (fat[c] < n_fatent)
                 /\ create_chain(c).ncl = x
                 /\ create_chain(c).fs.free = fs.free - 1
                 /\ create_chain(c).fat = IF c = 0 THEN [fat EXCEPT ![x] = EOC]
                                          ELSE [fat EXCEPT ![x] = EOC, ![c] = x]
         /\ \A f \in BrokenChains(c) : f = fat \/ \E x \in Free(fat) : f = [fat EXCEPT ![x] = EOC]
<1>1. CASE c # 0 /\ fat[c] < n_fatent
  <2>1. create_chain(c) = [ncl |-> fat[c], fat |-> fat, fs |-> fs]
    BY <1>1 DEF create_chain
  <2>2. BrokenChains(c) = {fat}
    BY <2>1 DEF BrokenChains
  <2> QED
    BY <1>1, <2>1, <2>2
<1>2. CASE ~ (c # 0 /\ fat[c] < n_fatent)
  <2> DEFINE scl == IF c # 0 THEN c ELSE IF fs.last \in Clusters THEN fs.last ELSE 1
             x == FirstFree(fat, scl)
  <2>1. x = 0 \/ x \in Free(fat)
    BY FirstFreeIsFree
  <2>2. create_chain(c) =
          IF x = 0 THEN [ncl |-> 0, fat |-> fat, fs |-> fs]
          ELSE [ncl |-> x,
                fat |-> IF c = 0 THEN [fat EXCEPT ![x] = EOC]
                        ELSE [fat EXCEPT ![x] = EOC, ![c] = x],
                fs |-> [last |-> x, free |-> fs.free - 1]]
    BY <1>2 DEF create_chain
  <2> HIDE DEF x
  <2>3. CASE x = 0
    <3>1. create_chain(c) = [ncl |-> 0, fat |-> fat, fs |-> fs]
      BY <2>2, <2>3
    <3>2. BrokenChains(c) = {fat}
      BY <3>1 DEF BrokenChains
    <3> QED
      BY <3>1, <3>2
  <2>4. CASE x # 0
    <3>1. x \in Free(fat)
      BY <2>1, <2>4
    <3>2. /\ create_chain(c).ncl = x
          /\ create_chain(c).fs.free = fs.free - 1
          /\ create_chain(c).fat = IF c = 0 THEN [fat EXCEPT ![x] = EOC]
                                   ELSE [fat EXCEPT ![x] = EOC, ![c] = x]
      BY <2>2, <2>4
    <3>3. BrokenChains(c) \subseteq {fat, [fat EXCEPT ![x] = EOC]}
      BY <3>2 DEF BrokenChains
    <3> QED
      BY <1>2, <3>1, <3>2, <3>3
  <2> QED
    BY <2>3, <2>4
<1> QED
  BY <1>1, <1>2

-----------------------------------------------------------------------------
(* Steps that keep, stretch or break the chain.                            *)

\* The entries are a function, and a free cluster belongs to no other file.
LEMMA FatFacts ==
  ASSUME ApartInv
  PROVE  /\ fat \in [Clusters -> Values]
         /\ \A x \in Free(fat) : x \in Owned /\ x \in Clusters /\ fat[x] = 0 /\ x # 0 /\ EOC # 0
<1>1. Apart(fat)
  BY Facts
<1>2. ASSUME NEW x \in Free(fat)
      PROVE  x \in Owned /\ x \in Clusters /\ fat[x] = 0 /\ x # 0 /\ EOC # 0
  <2>1. x \in Clusters /\ fat[x] = 0
    BY DEF Free
  <2>2. EOC # 0
    BY <2>1, Constants DEF Clusters, EOC
  <2> QED
    BY <1>1, <2>1, <2>2, Constants DEF Apart, Owned
<1> QED
  BY <1>1, <1>2 DEF Apart, Values

\* A step that leaves the FAT, the count and the start of the file alone.
LEMMA ChainedSame ==
  ASSUME NEW n, NEW ch, NEW rest, Chained(n, ch, 0, rest), faults \in Nat,
         pc' # "remove", UNCHANGED <<fat, fs>>, fp'.sclust = fp.sclust,
         faults' = faults \/ faults' = faults + 1
  PROVE  Chained(n, ch, 0, rest)' /\ faults' \in Nat
<1>1. faults' = 0 => faults = 0
  OBVIOUS
<1>2. Counted(n, ch, 0, rest)'
  BY <1>1 DEF Chained, Counted, Free
<1> QED
  BY <1>2 DEF Chained

\* A step that marks a free cluster and fails before the cluster is linked.
LEMMA ChainedBroken ==
  ASSUME ApartInv, NEW n, NEW ch, NEW rest, Chained(n, ch, 0, rest), faults \in Nat,
         NEW c, fat' \in BrokenChains(c),
         pc' # "remove", fs' = fs, fp'.sclust = fp.sclust, faults' = faults + 1
  PROVE  Chained(n, ch, 0, rest)' /\ faults' \in Nat
<1>1. CASE fat' = fat
  BY <1>1, ChainedSame
<1>2. CASE \E x \in Free(fat) : fat' = [fat EXCEPT ![x] = EOC]
  <2>1. PICK x \in Free(fat) : fat' = [fat EXCEPT ![x] = EOC]
    BY <1>2
  <2>2. x \in Owned /\ x \in Clusters /\ fat[x] = 0 /\ EOC # 0 /\ fat \in [Clusters -> Values]
    BY FatFacts
  <2>3. Run(fat, fp.sclust, n, ch)
    BY DEF Chained
  <2>4. \A i \in 1 .. n : ch[i] # x /\ ch[i] \in Clusters
    BY <2>2, <2>3, RunUsed
  <2>5. \A i \in 1 .. n : fat'[ch[i]] = fat[ch[i]]
    BY <2>1, <2>2, <2>4
  <2>6. Run(fat', fp.sclust, n, ch)
    BY <2>3, <2>5, RunSame
  <2>7. fat' \in [Clusters -> Values] /\ \A d \in Clusters : fat'[d] = 0 <=> fat[d] = 0 /\ d # x
    BY <2>1, <2>2 DEF Values
  <2>8. Cardinality(Free(fat')) = Cardinality(Free(fat)) - 1
    BY <2>2, <2>7, FreeLess
  <2>9. Cardinality(Free(fat)) \in Nat
    BY <2>2, FreeCount
  <2>10. Counted(n, ch, 0, rest)'
    BY <2>8, <2>9 DEF Chained, Counted
  <2> QED
    BY <2>6, <2>10 DEF Chained
<1> QED
  BY <1>1, <1>2, ChainCases

\* create_chain behind the k-th cluster of the file, or of a file that has none: the
\* cluster it returns is the next one, and the ones before stay.
LEMMA ChainedCreate ==
  ASSUME ApartInv, NEW n, NEW ch, NEW rest, Chained(n, ch, 0, rest), faults \in Nat,
         NEW k \in 0 .. n, NEW c, k = 0 => c = 0 /\ n = 0, k > 0 => c = ch[k],
         create_chain(c).ncl \in Owned,
         pc' # "remove", fat' = create_chain(c).fat, fs' = create_chain(c).fs, faults' = faults,
         fp'.sclust = IF n = 0 THEN create_chain(c).ncl ELSE fp.sclust
  PROVE  \E n2, ch2 :
            /\ n2 \in Nat /\ n <= n2 /\ k + 1 \in 1 .. n2
            /\ \A i \in 1 .. n : ch2[i] = ch[i]
            /\ ch2[k + 1] = create_chain(c).ncl
            /\ Chained(n2, ch2, 0, rest)'
<1> DEFINE r == create_chain(c)
<1>1. /\ n \in Nat /\ k \in Nat /\ Run(fat, fp.sclust, n, ch) /\ ch \in [1 .. n -> Owned]
      /\ fat \in [Clusters -> Values] /\ Counted(n, ch, 0, rest) /\ rest \in [1 .. 0 -> Owned]
  BY FatFacts DEF Chained, Run
<1>2. r.ncl \in Owned /\ r.ncl # 0
  BY NotTaken
<1>3. CASE c # 0 /\ fat[c] < n_fatent /\ r = [ncl |-> fat[c], fat |-> fat, fs |-> fs]
  <2>1. k \in 1 .. n /\ c = ch[k]
    BY <1>1, <1>3
  <2>2. k # n
    BY <1>1, <1>3, <2>1, Constants DEF Run, EOC
  <2>3. k + 1 \in 1 .. n /\ fat[c] = ch[k + 1]
    BY <1>1, <2>1, <2>2 DEF Run
  <2>4. fat' = fat /\ fs' = fs /\ r.ncl = fat[c] /\ n # 0
    BY <1>3, <2>1
  <2>5. Chained(n, ch, 0, rest)'
    BY <2>4, ChainedSame
  <2> QED
    BY <1>1, <2>3, <2>4, <2>5
<1>4. CASE \E x \in Free(fat) :
                 /\ c = 0 \/ ~ (fat[c] < n_fatent)
                 /\ r.ncl = x
                 /\ r.fs.free = fs.free - 1
                 /\ r.fat = IF c = 0 THEN [fat EXCEPT ![x] = EOC]
                            ELSE [fat EXCEPT ![x] = EOC, ![c] = x]
  <2>1. PICK x \in Free(fat) :
                 /\ c = 0 \/ ~ (fat[c] < n_fatent)
                 /\ r.ncl = x
                 /\ r.fs.free = fs.free - 1
                 /\ r.fat = IF c = 0 THEN [fat EXCEPT ![x] = EOC]
                            ELSE [fat EXCEPT ![x] = EOC, ![c] = x]
    BY <1>4
  <2> HIDE DEF r
  <2>2. x \in Owned /\ x \in Clusters /\ fat[x] = 0 /\ x # 0 /\ EOC # 0
    BY FatFacts
  <2>3. k = n
    <3> SUFFICES ASSUME k # n PROVE FALSE
      OBVIOUS
    <3>1. k \in 1 .. n /\ k + 1 \in 1 .. n
      BY <1>1
    <3>2. c = ch[k] /\ c # 0
      BY <1>1, <3>1, RunUsed, NotTaken
    <3>3. fat[c] = ch[k + 1] /\ ch[k + 1] \in Clusters
      BY <1>1, <3>1, <3>2, RunUsed DEF Run
    <3> QED
      BY <2>1, <3>2, <3>3, Constants DEF Clusters
  <2> DEFINE ch2 == [i \in 1 .. n + 1 |-> IF i = n + 1 THEN x ELSE ch[i]]
  <2>4. /\ ch2[n + 1] = x /\ \A i \in 1 .. n : ch2[i] = ch[i]
    BY <1>1
  <2>5. /\ fat' \in [Clusters -> Values]
        /\ \A d \in Clusters : fat'[d] = 0 <=> fat[d] = 0 /\ d # x
        /\ Run(fat', fp'.sclust, n + 1, ch2)
        /\ \A d \in Owned : fat'[d] # 0 => d = x \/ fat[d] # 0
    <3>1. CASE n = 0
      <4>1. c = 0 /\ fat' = [fat EXCEPT ![x] = EOC] /\ fp'.sclust = x
        BY <2>1, <2>3, <3>1 DEF r
      <4>2. ch2 = [i \in 1 .. 1 |-> x] /\ n + 1 = 1
        BY <3>1
      <4> HIDE DEF ch2
      <4>3. Run(fat', fp'.sclust, n + 1, ch2)
        <5>1. Run([fat EXCEPT ![x] = EOC], x, 1, [i \in 1 .. 1 |-> x])
          BY <1>1, <2>2, RunFirst
        <5> QED
          BY <4>1, <4>2, <5>1, Zenon
      <4> QED
        BY <1>1, <2>2, <4>1, <4>3 DEF Values, Owned
    <3>2. CASE n # 0
      <4>1. n \in 1 .. n /\ c = ch[n] /\ c # 0 /\ c \in Clusters /\ fat[c] # 0 /\ c \in Owned
        BY <1>1, <2>3, <3>2, RunUsed, NotTaken
      <4>2. fat' = [fat EXCEPT ![x] = EOC, ![ch[n]] = x] /\ fp'.sclust = fp.sclust
        BY <2>1, <3>2, <4>1 DEF r
      <4>3. Run(fat', fp'.sclust, n + 1, ch2)
        <5>1. n > 0
          BY <1>1, <3>2
        <5>2. ch2 = [i \in 1 .. n + 1 |-> IF i = n + 1 THEN x ELSE ch[i]]
          OBVIOUS
        <5> HIDE DEF ch2
        <5>3. Run([fat EXCEPT ![x] = EOC, ![ch[n]] = x], fp.sclust, n + 1, ch2)
          BY <1>1, <2>2, <5>1, <5>2, RunStretch
        <5> QED
          BY <4>2, <5>3, Zenon
      <4> HIDE DEF ch2
      <4> QED
        BY <1>1, <2>2, <4>1, <4>2, <4>3 DEF Values, Owned
    <3> QED
      BY <3>1, <3>2
  <2> HIDE DEF ch2
  <2>6. Cardinality(Free(fat')) = Cardinality(Free(fat)) - 1
    BY <1>1, <2>5, FreeLess
  <2>7. Cardinality(Free(fat)) \in Nat /\ Cardinality(Free(fat)) > 0
    BY <1>1, FreeCount
  <2>8. fs'.free = fs.free - 1
    BY <2>1 DEF r
  <2>9. Counted(n + 1, ch2, 0, rest)'
    <3>1. /\ fs.free \in Nat /\ Cardinality(Free(fat)) <= fs.free /\ fs.free + n + 0 <= n_fatent
          /\ faults = 0 => fs.free = Cardinality(Free(fat))
      BY <1>1 DEF Counted
    <3>2. /\ fs'.free \in Nat /\ Cardinality(Free(fat')) <= fs'.free
          /\ fs'.free + (n + 1) + 0 <= n_fatent
          /\ faults' = 0 => fs'.free = Cardinality(Free(fat'))
      BY <1>1, <2>6, <2>7, <2>8, <3>1, Constants
    <3>3. ASSUME faults' = 0, NEW d \in Owned, fat'[d] # 0
          PROVE  \E i \in 1 .. n + 1 : ch2[i] = d
      <4>1. CASE d = x
        BY <1>1, <2>4, <4>1
      <4>2. CASE fat[d] # 0
        <5>1. PICK i \in 1 .. n : ch[i] = d
          BY <1>1, <3>3, <4>2 DEF Counted
        <5> QED
          BY <1>1, <2>4, <5>1
      <4> QED
        BY <2>5, <3>3, <4>1, <4>2
    <3> QED
      BY <3>2, <3>3 DEF Counted
  <2>10. Chained(n + 1, ch2, 0, rest)'
    BY <1>1, <2>5, <2>9 DEF Chained
  <2>11. n + 1 \in Nat /\ n <= n + 1 /\ k + 1 \in 1 .. n + 1 /\ ch2[k + 1] = create_chain(c).ncl
    BY <1>1, <2>1, <2>3, <2>4 DEF r
  <2> QED
    BY <2>4, <2>10, <2>11
<1> HIDE DEF r
<1>5. r # [ncl |-> 0, fat |-> fat, fs |-> fs]
  BY <1>2
<1> QED
  BY <1>3, <1>4, <1>5, ChainCases DEF r

\* The invariant in the next state, from a chain.
LEMMA KeptIntro ==
  ASSUME NEW n, NEW ch, NEW m, NEW rest, Kept(n, ch, m, rest)', DirKnown', faults' \in Nat
  PROVE  KeptInv'
<1>1. Kept(n, ch, m, rest)'
  OBVIOUS
<1>2. /\ n \in Nat /\ m \in Nat /\ ch \in [1 .. n -> Owned] /\ rest \in [1 .. m -> Owned]
      /\ fs'.free \in Nat /\ fs'.free + n + m <= n_fatent
  BY <1>1 DEF Kept, Chained, Counted, Run
<1>3. n \in 0 .. n_fatent /\ m \in 0 .. n_fatent
  BY <1>2, Constants
<1>4. KeptInv' <=> /\ \E x, y \in 0 .. n_fatent :
                        \E c \in [1 .. x -> Owned], d \in [1 .. y -> Owned] : Kept(x, c, y, d)'
                   /\ DirKnown' /\ faults' \in Nat
  BY DEF KeptInv
<1> QED
  BY <1>1, <1>2, <1>3, <1>4, Zenon

\* A chain in this state, outside remove_chain.
LEMMA KeptElim ==
  ASSUME KeptInv, pc # "remove"
  PROVE  /\ \E n \in Nat : \E ch, rest : Kept(n, ch, 0, rest)
         /\ faults \in Nat /\ DirKnown
<1>1. PICK n \in 0 .. n_fatent, m \in 0 .. n_fatent :
        \E ch \in [1 .. n -> Owned], rest \in [1 .. m -> Owned] : Kept(n, ch, m, rest)
  BY DEF KeptInv
<1>2. PICK ch \in [1 .. n -> Owned], rest \in [1 .. m -> Owned] : Kept(n, ch, m, rest)
  BY <1>1
<1>3. m = 0 /\ n \in Nat
  BY <1>2 DEF Kept, Chained
<1> QED
  BY <1>2, <1>3 DEF KeptInv

\* A failed disk access, with or without a cluster marked and not linked.
LEMMA FaultKept ==
  ASSUME ApartInv, KeptInv, pc # "remove", pc' = "idle", fp'.err, dir' = dir,
         fp'.sclust = fp.sclust, fp'.fsize = fp.fsize, fp'.written <=> fp.written,
         NEW c, fat' \in BrokenChains(c), fs' = fs, faults' = faults + 1
  PROVE  KeptInv'
<1>n. PICK n \in Nat : \E ch, rest : Kept(n, ch, 0, rest)
  BY KeptElim
<1>1. PICK ch, rest : Kept(n, ch, 0, rest)
  BY <1>n
<1>2. Chained(n, ch, 0, rest)' /\ faults' \in Nat
  BY <1>1, ChainedBroken, KeptElim DEF Kept
<1>3. Pointer(n, ch)'
  BY DEF Pointer
<1>4. DirKnown'
  BY KeptElim DEF DirKnown
<1>5. Kept(n, ch, 0, rest)'
  BY <1>1, <1>2, <1>3 DEF Kept
<1> QED
  BY <1>2, <1>4, <1>5, KeptIntro

\* The FAT as it is, among the outcomes of a failed create_chain.
LEMMA NotBroken == \A c : fat \in BrokenChains(c)
BY DEF BrokenChains

\* A call that gives up without a failed disk access.
LEMMA AbortKept ==
  ASSUME ApartInv, KeptInv, pc \in {"read", "rsect", "sloop"}, pc = "sloop" => ~ fp.write,
         Abort, UNCHANGED <<dir, fat, fs, faults>>
  PROVE  KeptInv'
<1>n. PICK n \in Nat : \E ch, rest : Kept(n, ch, 0, rest)
  BY KeptElim
<1>1. PICK ch, rest : Kept(n, ch, 0, rest)
  BY <1>n
<1>2. /\ fp' = [fp EXCEPT !.err = TRUE] /\ pc' = "idle" /\ fp \in FileObject
  BY Facts DEF Abort
<1>3. fp'.err /\ fp'.sclust = fp.sclust /\ fp'.fsize = fp.fsize /\ fp'.written = fp.written
  BY <1>2 DEF FileObject
<1>4. Chained(n, ch, 0, rest)' /\ faults' \in Nat
  BY <1>1, <1>2, <1>3, ChainedSame, KeptElim DEF Kept
<1>5. Pointer(n, ch)'
  BY <1>2, <1>3 DEF Pointer
<1>6. DirKnown'
  BY <1>2, <1>3, KeptElim DEF DirKnown
<1>7. Kept(n, ch, 0, rest)'
  BY <1>1, <1>3, <1>4, <1>5 DEF Kept
<1> QED
  BY <1>4, <1>6, <1>7, KeptIntro

\* A step that leaves the FAT and the size alone, when the pointer stays in the chain.
LEMMA QuietKept ==
  ASSUME ApartInv, NEW n \in Nat, NEW ch, NEW rest, Kept(n, ch, 0, rest), faults \in Nat,
         pc' # "remove", UNCHANGED <<fat, fs, faults>>, fp'.sclust = fp.sclust,
         fp'.fsize <= n * bcs, Pointer(n, ch)', DirKnown'
  PROVE  KeptInv'
<1>1. Chained(n, ch, 0, rest)' /\ faults' \in Nat
  BY ChainedSame DEF Kept
<1>2. Kept(n, ch, 0, rest)'
  BY <1>1 DEF Kept
<1> QED
  BY <1>1, <1>2, KeptIntro

\* The transfers move the pointer within the cluster.
LEMMA MoveInside ==
  ASSUME NEW p \in Nat, NEW x \in Nat, NEW n \in Nat, NEW ch, NEW k \in 1 .. n, x > 0,
         NEW c, c = ch[k], (k - 1) * bcs <= p, p + x <= k * bcs
  PROVE  \E j \in 1 .. n : c = ch[j] /\ (j - 1) * bcs < p + x /\ p + x <= j * bcs
<1>1. (k - 1) * bcs < p + x
  BY ClusterEnd
<1> QED
  BY <1>1

\* A piece, and the whole sectors, that a transfer moves.
LEMMA PieceMoves ==
  ASSUME ApartInv, NEW n \in Nat, NEW ch, Pointer(n, ch), pc \in {"rcopy", "wcopy"}
  PROVE  /\ Piece \in Nat
         /\ \E k \in 1 .. n : /\ fp.clust = ch[k] /\ (k - 1) * bcs < fp.fptr + Piece
                              /\ fp.fptr + Piece <= k * bcs
<1>1. fp.clust \in Owned /\ req.left > 0 /\ fp.fptr \in Nat /\ req.left \in Int
  BY Facts DEF ApartInv, ClusterKnown
<1>2. PICK k \in 1 .. n : fp.clust = ch[k] /\ (k - 1) * bcs <= fp.fptr /\ fp.fptr < k * bcs
  BY <1>1 DEF Pointer
<1>3. fp.fptr % SS \in Nat /\ fp.fptr % SS < SS
  BY <1>1, Constants
<1>4. Piece \in Nat /\ Piece > 0 /\ Piece <= SS - (fp.fptr % SS)
  BY <1>1, <1>3, Constants DEF Piece, Smaller
<1>5. fp.fptr + Piece <= k * bcs
  BY <1>1, <1>2, <1>4, PieceInside
<1> QED
  BY <1>1, <1>2, <1>4, <1>5, MoveInside

\* Moving the pointer by whole sectors stays in its cluster.
LEMMA WholeMoves ==
  ASSUME ApartInv, NEW n \in Nat, NEW ch, Pointer(n, ch), pc \in {"rsect", "wsect"},
         fp.clust \in Owned, Rest > 0
  PROVE  /\ cc * SS \in Nat
         /\ \E k \in 1 .. n : /\ fp.clust = ch[k] /\ (k - 1) * bcs < fp.fptr + cc * SS
                              /\ fp.fptr + cc * SS <= k * bcs
<1>1. fp.fptr \in Nat /\ OnSector /\ fp.fptr % SS = 0
  BY Facts DEF Pointer, OnSector
<1>2. PICK k \in 1 .. n : fp.clust = ch[k] /\ (k - 1) * bcs <= fp.fptr /\ fp.fptr < k * bcs
  BY DEF Pointer
<1>3. cc \in Nat /\ cc <= csize - csect
  BY WholeOK
<1>4. cc > 0
  <2>1. csect \in Nat /\ csect < csize
    BY Facts, SectorOwned
  <2>2. Rest \in Int
    BY Facts, Constants DEF Rest
  <2> QED
    BY <2>1, <2>2, Constants DEF cc, Smaller
<1>5. fp.fptr + cc * SS <= k * bcs /\ cc * SS \in Nat
  <2>1. cc <= csize - ((fp.fptr \div SS) % csize) /\ k \in Nat /\ k > 0
    BY <1>3 DEF csect
  <2> QED
    BY <1>1, <1>2, <1>3, <2>1, WholeInside
<1>6. cc * SS > 0
  BY <1>3, <1>4, Constants
<1> QED
  BY <1>1, <1>2, <1>5, <1>6, MoveInside

\* At a cluster boundary the pointer is behind its cluster, elsewhere it is in it.
LEMMA PointerAt ==
  ASSUME ApartInv, NEW n \in Nat, NEW ch, Pointer(n, ch), pc \in {"read", "write"}, fp.fptr > 0
  PROVE  \E k \in 1 .. n : /\ fp.clust = ch[k] /\ (k - 1) * bcs < fp.fptr
                           /\ IF OnCluster THEN fp.fptr = k * bcs ELSE fp.fptr < k * bcs
<1>1. ~ fp.err /\ fp.fptr \in Nat
  BY Facts DEF ApartInv, ClusterKnown
<1>2. PICK k \in 1 .. n : fp.clust = ch[k] /\ (k - 1) * bcs < fp.fptr /\ fp.fptr <= k * bcs
  BY <1>1 DEF Pointer
<1>3. OnCluster <=> fp.fptr = k * bcs
  BY <1>1, <1>2, OnBoundary DEF OnCluster, OnSector, csect
<1>4. k * bcs \in Nat
  BY ClusterEnd
<1> QED
  BY <1>1, <1>2, <1>3, <1>4

-----------------------------------------------------------------------------
(* Every step keeps the chain.                                             *)

\* The start of a call.
LEMMA BeginKept ==
  ASSUME ApartInv, KeptInv, NEW op \in {"read", "write", "seek"}, NEW x, NEW v, NEW ofs,
         Begin(op, op, x, v, ofs)
  PROVE  KeptInv'
<1>1. /\ pc = "idle" /\ ~ fp.err /\ pc' = op /\ UNCHANGED <<fat, dir, fs, fp, faults>>
  BY DEF Begin
<1>n. PICK n \in Nat : \E ch, rest : Kept(n, ch, 0, rest)
  BY <1>1, KeptElim
<1>2. PICK ch, rest : Kept(n, ch, 0, rest)
  BY <1>n
<1>3. Pointer(n, ch)'
  BY <1>1, <1>2 DEF Kept, Pointer
<1>4. DirKnown'
  BY <1>1, KeptElim DEF DirKnown
<1> QED
  BY <1>1, <1>2, <1>3, <1>4, KeptElim, QuietKept DEF Kept

\* The directory entry after a step of a read, which changes neither the size, the first
\* cluster nor the mark.
LEMMA ReadDir ==
  ASSUME KeptInv, pc \in {"read", "rsect", "rcopy"}, UNCHANGED <<dir, faults>>,
         fp'.written <=> fp.written, fp'.sclust = fp.sclust, fp'.fsize = fp.fsize
  PROVE  DirKnown'
BY KeptElim DEF DirKnown

\* f_read.
LEMMA ReadKept ==
  ASSUME ApartInv, KeptInv,
         read_return \/ read_cluster \/ read_direct \/ read_fill \/ read_copy
  PROVE  KeptInv'
<1>0. pc \in {"read", "rsect", "rcopy"} /\ UNCHANGED <<fat, fs, dir>> /\ fp \in FileObject
  BY Facts DEF read_return, read_cluster, Fault, WindowFault, read_direct, read_fill, read_copy,
       Quiet, Calm
<1>n. PICK n \in Nat : \E ch, rest : Kept(n, ch, 0, rest)
  BY <1>0, KeptElim
<1>1. PICK ch, rest : Kept(n, ch, 0, rest)
  BY <1>n
<1>2. Pointer(n, ch) /\ Run(fat, fp.sclust, n, ch) /\ fp.fsize <= n * bcs
  BY <1>1 DEF Kept, Chained
<1>3. ASSUME pc' # "remove", faults' = faults, Pointer(n, ch)',
             fp'.sclust = fp.sclust, fp'.fsize = fp.fsize, fp'.written <=> fp.written
      PROVE  KeptInv'
  BY <1>0, <1>1, <1>2, <1>3, KeptElim, ReadDir, QuietKept
<1>4. ASSUME Fails, pc' = "idle", fp'.err,
             fp'.sclust = fp.sclust, fp'.fsize = fp.fsize, fp'.written <=> fp.written
      PROVE  KeptInv'
  BY <1>0, <1>4, NotBroken, FaultKept DEF Fails
<1>5. ASSUME Fails, Abort PROVE KeptInv'
  <2>1. /\ pc' = "idle" /\ fp'.err /\ fp'.sclust = fp.sclust /\ fp'.fsize = fp.fsize
        /\ fp'.written = fp.written
    BY <1>0, <1>5 DEF Abort, FileObject
  <2> QED
    BY <1>4, <1>5, <2>1
<1>6. CASE read_return
  <2>1. /\ pc = "read" /\ pc' = "idle" /\ UNCHANGED <<fp, faults>>
    BY <1>6 DEF read_return, End, Quiet, Calm
  <2>2. Pointer(n, ch)'
    BY <1>2, <2>1 DEF Pointer
  <2> QED
    BY <1>3, <2>1, <2>2
<1>7. CASE read_cluster
  <2> DEFINE next == IF fp.fptr = 0 THEN fp.sclust ELSE fat[fp.clust]
  <2>1. pc = "read" /\ req.left > 0
    BY <1>7 DEF read_cluster, Fault, WindowFault
  <2>2. CASE Abort /\ UNCHANGED faults
    BY <1>0, <2>1, <2>2, AbortKept
  <2>3. CASE Fails /\ Abort
    BY <1>5, <2>3
  <2>4. CASE /\ OnCluster /\ next >= 2
             /\ fp' = [fp EXCEPT !.clust = next] /\ pc' = "rsect" /\ UNCHANGED <<req, faults>>
    <3>1. next \in Owned =>
            \E k \in 1 .. n : next = ch[k] /\ (k - 1) * bcs <= fp.fptr /\ fp.fptr < k * bcs
      <4>1. CASE fp.fptr = 0
        <5>1. next \in Owned => 1 \in 1 .. n /\ next = ch[1]
          BY <1>2, <4>1, NotTaken DEF Run
        <5>2. (1 - 1) * bcs = 0 /\ 1 * bcs = bcs /\ bcs > 0
          BY Constants
        <5> QED
          BY <4>1, <5>1, <5>2
      <4>2. CASE fp.fptr # 0
        <5>1. PICK k \in 1 .. n : fp.clust = ch[k] /\ fp.fptr = k * bcs
          BY <1>2, <2>1, <2>4, <4>2, Facts, PointerAt
        <5>2. next = IF k = n THEN EOC ELSE ch[k + 1]
          BY <1>2, <4>2, <5>1 DEF Run
        <5>3. next \in Owned => k + 1 \in 1 .. n /\ next = ch[k + 1]
          BY <5>2, NotTaken, Constants
        <5>4. (k + 1 - 1) * bcs = k * bcs /\ k * bcs < (k + 1) * bcs
          BY Constants
        <5>5. (k + 1 - 1) * bcs <= fp.fptr /\ fp.fptr < (k + 1) * bcs
          BY <5>1, <5>4, Facts
        <5> DEFINE j == k + 1
        <5>6. /\ (j - 1) * bcs <= fp.fptr /\ fp.fptr < j * bcs
              /\ next \in Owned => j \in 1 .. n /\ next = ch[j]
          BY <5>3, <5>5
        <5> HIDE DEF j, next
        <5> QED
          BY <5>6
      <4> QED
        BY <4>1, <4>2
    <3> HIDE DEF next
    <3>2. /\ fp'.clust = next /\ fp'.fptr = fp.fptr /\ fp'.sclust = fp.sclust
          /\ fp'.fsize = fp.fsize /\ fp'.written = fp.written
      BY <1>0, <2>4 DEF FileObject
    <3>3. OnSector'
      BY <2>4, <3>2 DEF OnCluster, OnSector
    <3>4. Pointer(n, ch)'
      BY <2>4, <3>1, <3>2, <3>3 DEF Pointer
    <3> QED
      BY <1>3, <2>4, <3>2, <3>4
  <2>5. CASE /\ ~ OnCluster /\ pc' = (IF OnSector THEN "rsect" ELSE "rcopy")
             /\ UNCHANGED <<fp, req, faults>>
    <3>1. fp.fptr > 0
      <4>1. ASSUME fp.fptr = 0 PROVE OnCluster
        <5>1. 0 % SS = 0 /\ (0 \div SS) % csize = 0
          BY Constants
        <5> QED
          BY <4>1, <5>1 DEF OnCluster, OnSector, csect
      <4> QED
        BY <2>5, <4>1, Facts
    <3>2. PICK k \in 1 .. n : /\ fp.clust = ch[k] /\ (k - 1) * bcs < fp.fptr
                              /\ fp.fptr < k * bcs
      BY <1>2, <2>1, <2>5, <3>1, PointerAt
    <3>3. (k - 1) * bcs <= fp.fptr
      BY <3>2, ClusterEnd, Facts
    <3>4. Pointer(n, ch)'
      BY <2>5, <3>2, <3>3 DEF Pointer, OnSector
    <3> QED
      BY <1>3, <2>5, <3>4
  <2> QED
    BY <1>7, <2>2, <2>3, <2>4, <2>5 DEF read_cluster, Fault, WindowFault
<1>8. CASE read_direct
  <2>1. pc = "rsect" /\ Rest > 0
    BY <1>8 DEF read_direct, Fault, WindowFault
  <2>2. CASE Abort /\ UNCHANGED faults
    BY <1>0, <2>1, <2>2, AbortKept
  <2>3. CASE Fails /\ Abort
    BY <1>5, <2>3
  <2>4. CASE sect # 0 /\ fp' = Advance(cc * SS) /\ pc' = "read" /\ UNCHANGED faults
    <3>1. fp.clust \in Owned
      BY <2>4, Facts, SectorFound
    <3>2. /\ cc * SS \in Nat
          /\ \E k \in 1 .. n : /\ fp.clust = ch[k] /\ (k - 1) * bcs < fp.fptr + cc * SS
                               /\ fp.fptr + cc * SS <= k * bcs
      BY <1>2, <2>1, <3>1, WholeMoves
    <3>3. /\ fp'.clust = fp.clust /\ fp'.fptr = fp.fptr + cc * SS /\ fp'.sclust = fp.sclust
          /\ fp'.fsize = fp.fsize /\ fp'.written = fp.written
      BY <1>0, <2>4 DEF FileObject, Advance
    <3>4. Pointer(n, ch)'
      BY <2>4, <3>2, <3>3 DEF Pointer
    <3> QED
      BY <1>3, <2>4, <3>3, <3>4
  <2> QED
    BY <1>8, <2>2, <2>3, <2>4 DEF read_direct, Fault, WindowFault
<1>9. CASE read_fill
  <2>1. pc = "rsect"
    BY <1>9 DEF read_fill, Fault, WindowFault
  <2>2. CASE Abort /\ UNCHANGED faults
    BY <1>0, <2>1, <2>2, AbortKept
  <2>3. CASE /\ fp' = [fp EXCEPT !.buf = disk'[sect], !.dsect = sect, !.dirty = FALSE] \/ fp' = fp
             /\ pc' = "rcopy" /\ UNCHANGED faults
    <3>1. /\ fp'.clust = fp.clust /\ fp'.fptr = fp.fptr /\ fp'.sclust = fp.sclust
          /\ fp'.fsize = fp.fsize /\ fp'.written = fp.written
      BY <1>0, <2>3 DEF FileObject
    <3>2. Pointer(n, ch)'
      BY <1>2, <2>1, <2>3, <3>1 DEF Pointer
    <3> QED
      BY <1>3, <2>3, <3>1, <3>2
  <2>4. CASE /\ Fails /\ pc' = "idle"
             /\ fp' = [fp EXCEPT !.err = TRUE] \/ fp' = [fp EXCEPT !.err = TRUE, !.dirty = FALSE]
    <3>1. fp'.err /\ fp'.sclust = fp.sclust /\ fp'.fsize = fp.fsize /\ fp'.written = fp.written
      BY <1>0, <2>4 DEF FileObject
    <3> QED
      BY <1>4, <2>4, <3>1
  <2> QED
    BY <1>9, <2>2, <2>3, <2>4 DEF read_fill, Fault, WindowFault
<1>10. CASE read_copy
  <2>1. pc = "rcopy" /\ fp' = Advance(Piece) /\ pc' = "read" /\ UNCHANGED faults
    BY <1>10 DEF read_copy, Quiet, Calm
  <2>2. /\ Piece \in Nat
        /\ \E k \in 1 .. n : /\ fp.clust = ch[k] /\ (k - 1) * bcs < fp.fptr + Piece
                             /\ fp.fptr + Piece <= k * bcs
    BY <1>2, <2>1, PieceMoves
  <2>3. /\ fp'.clust = fp.clust /\ fp'.fptr = fp.fptr + Piece /\ fp'.sclust = fp.sclust
        /\ fp'.fsize = fp.fsize /\ fp'.written = fp.written
    BY <1>0, <2>1 DEF FileObject, Advance
  <2>4. Pointer(n, ch)'
    BY <2>1, <2>2, <2>3 DEF Pointer
  <2> QED
    BY <1>3, <2>1, <2>3, <2>4
<1> QED
  BY <1>6, <1>7, <1>8, <1>9, <1>10

\* f_write.
LEMMA WriteKept ==
  ASSUME ApartInv, KeptInv,
         write_cluster \/ write_flush \/ write_direct \/ write_fill \/ write_copy
  PROVE  KeptInv'
<1>0. /\ pc \in {"write", "wflush", "wsect", "wcopy"} /\ dir' = dir /\ fp \in FileObject
      /\ pc \in {"wflush", "wsect", "wcopy"} => fp.clust \in Owned
  BY Facts DEF write_cluster, Fault, WindowFault, write_flush, write_direct, write_fill,
       write_copy, Quiet, Calm,
               ApartInv, ClusterKnown
<1>n. PICK n \in Nat : \E ch, rest : Kept(n, ch, 0, rest)
  BY <1>0, KeptElim
<1>1. PICK ch, rest : Kept(n, ch, 0, rest)
  BY <1>n
<1>2. /\ Pointer(n, ch) /\ Run(fat, fp.sclust, n, ch) /\ fp.fsize <= n * bcs
      /\ Chained(n, ch, 0, rest) /\ faults \in Nat /\ DirKnown
  BY <1>0, <1>1, KeptElim DEF Kept, Chained
<1>3. ASSUME pc' \in {"write", "wflush", "wsect", "wcopy"}, UNCHANGED <<fat, fs, faults>>,
             Pointer(n, ch)',
             fp'.sclust = fp.sclust, fp'.fsize = fp.fsize, fp'.written <=> fp.written
      PROVE  KeptInv'
  <2>1. DirKnown'
    BY <1>0, <1>2, <1>3 DEF DirKnown
  <2> QED
    BY <1>1, <1>2, <1>3, <2>1, QuietKept
<1>4. ASSUME Fails, Abort, NEW c, fat' \in BrokenChains(c), fs' = fs PROVE KeptInv'
  <2>1. /\ pc' = "idle" /\ fp'.err /\ fp'.sclust = fp.sclust /\ fp'.fsize = fp.fsize
        /\ fp'.written = fp.written
    BY <1>0, <1>4 DEF Abort, FileObject
  <2> QED
    BY <1>0, <1>4, <2>1, FaultKept DEF Fails
<1>5. ASSUME Fails, Abort, UNCHANGED <<fat, fs>> PROVE KeptInv'
  BY <1>4, <1>5, NotBroken
<1>6. CASE write_cluster
  <2> DEFINE start == IF fp.fptr = 0 THEN 0 ELSE fp.clust
             r == IF fp.fptr = 0 /\ fp.sclust # 0
                  THEN [ncl |-> fp.sclust, fat |-> fat, fs |-> fs]
                  ELSE create_chain(start)
  <2>1. pc = "write"
    BY <1>6 DEF write_cluster, Fault, WindowFault
  <2>2. ~ fp.err /\ fp.fptr \in Nat /\ fp.fsize \in Nat
    BY <2>1, Facts DEF ApartInv, ClusterKnown
  <2>3. \/ WriteReturns /\ UNCHANGED <<fat, fs, faults>>
        \/ /\ req.left > 0 /\ OnCluster /\ r.ncl >= 2 /\ fat' = r.fat /\ fs' = r.fs
           /\ fp' = [fp EXCEPT !.clust = r.ncl, !.sclust = IF @ = 0 THEN r.ncl ELSE @]
           /\ pc' = "wflush" /\ UNCHANGED <<req, faults>>
        \/ Fails /\ Abort /\ fat' \in BrokenChains(start) /\ UNCHANGED fs
        \/ /\ ~ OnCluster /\ pc' = (IF OnSector THEN "wflush" ELSE "wcopy")
           /\ UNCHANGED <<fat, fs, fp, req, faults>>
    BY <1>6 DEF write_cluster, Fault, WindowFault
  <2>4. CASE WriteReturns /\ UNCHANGED <<fat, fs, faults>>
    <3>1. /\ fp' = [fp EXCEPT !.fsize = IF fp.fptr > @ THEN fp.fptr ELSE @, !.written = TRUE]
          /\ pc' = "idle"
      BY <2>4 DEF WriteReturns, End
    <3>2. /\ fp'.clust = fp.clust /\ fp'.fptr = fp.fptr /\ fp'.written /\ fp'.sclust = fp.sclust
          /\ fp'.fsize = (IF fp.fptr > fp.fsize THEN fp.fptr ELSE fp.fsize) /\ fp'.err = fp.err
      BY <1>0, <3>1 DEF FileObject
    <3>3. fp.fptr <= n * bcs
      <4>1. CASE fp.fptr = 0
        BY <4>1, Constants
      <4>2. CASE fp.fptr # 0
        <5>1. PICK k \in 1 .. n : fp.fptr <= k * bcs
          BY <1>2, <2>1, <2>2, <4>2 DEF Pointer
        <5>2. k * bcs \in Nat /\ n * bcs \in Nat /\ k * bcs <= n * bcs
          BY MultMono, Constants
        <5> QED
          BY <2>2, <5>1, <5>2
      <4> QED
        BY <4>1, <4>2
    <3>4. Pointer(n, ch)'
      BY <1>2, <2>1, <3>1, <3>2 DEF Pointer
    <3>5. DirKnown'
      BY <3>2 DEF DirKnown
    <3> QED
      BY <1>1, <1>2, <2>4, <3>1, <3>2, <3>3, <3>4, <3>5, QuietKept
  <2>5. CASE /\ req.left > 0 /\ OnCluster /\ r.ncl >= 2 /\ fat' = r.fat /\ fs' = r.fs
             /\ fp' = [fp EXCEPT !.clust = r.ncl, !.sclust = IF @ = 0 THEN r.ncl ELSE @]
             /\ pc' = "wflush" /\ UNCHANGED <<req, faults>>
    <3> HIDE DEF r
    <3>1. /\ fp'.clust = r.ncl /\ fp'.fptr = fp.fptr /\ fp'.fsize = fp.fsize
          /\ fp'.written = fp.written /\ fp'.sclust = (IF fp.sclust = 0 THEN r.ncl ELSE fp.sclust)
      BY <1>0, <2>5 DEF FileObject
    <3>2. fp.sclust = 0 <=> n = 0
      <4>1. n # 0 => 1 \in 1 .. n /\ fp.sclust = ch[1]
        BY <1>2 DEF Run
      <4>2. n # 0 => fp.sclust # 0
        BY <1>2, <4>1, RunUsed, Constants
      <4>3. n = 0 => fp.sclust \notin Clusters
        BY <1>2 DEF Run
      <4> QED
        BY <4>2, <4>3, Facts, NotTaken
    <3>3. OnSector'
      BY <2>5, <3>1 DEF OnCluster, OnSector
    <3>4. ASSUME NEW n2 \in Nat, NEW ch2, n <= n2, Chained(n2, ch2, 0, rest)',
                 NEW k \in 1 .. n2, ch2[k] = r.ncl,
                 fp.fptr = (k - 1) * bcs
          PROVE  KeptInv'
      <4>1. fp.fptr < k * bcs /\ (k - 1) * bcs <= fp.fptr
        BY <2>2, <3>4, ClusterEnd, Constants
      <4>2. Pointer(n2, ch2)'
        BY <2>5, <3>1, <3>3, <3>4, <4>1 DEF Pointer
      <4>3. fp'.fsize <= n2 * bcs
        <5>1. n * bcs \in Nat /\ n2 * bcs \in Nat /\ n * bcs <= n2 * bcs
          BY <3>4, MultMono, Constants
        <5> QED
          BY <1>2, <2>2, <3>1, <5>1
      <4>4. Kept(n2, ch2, 0, rest)'
        BY <3>4, <4>2, <4>3 DEF Kept
      <4>5. DirKnown'
        <5>1. fp.sclust # 0 => fp'.sclust = fp.sclust
          BY <3>1
        <5>2. fp.sclust = 0 /\ dir.size = fp.fsize => dir.size = 0
          <6>1. fp.sclust = 0 => n = 0 /\ n * bcs = 0
            BY <3>2, Constants
          <6> QED
            BY <1>2, <2>2, <6>1
        <5>3. fp.sclust = 0 /\ dir.sclust = fp.sclust => dir.sclust = 0
          OBVIOUS
        <5> QED
          BY <1>0, <1>2, <2>1, <2>5, <3>1, <5>1, <5>2, <5>3 DEF DirKnown
      <4> QED
        BY <1>2, <2>5, <4>4, <4>5, KeptIntro
    <3>5. CASE fp.fptr = 0 /\ fp.sclust # 0
      <4>1. r = [ncl |-> fp.sclust, fat |-> fat, fs |-> fs]
        BY <3>5 DEF r
      <4>2. r.ncl = fp.sclust /\ fat' = fat /\ fs' = fs /\ fp'.sclust = fp.sclust
        BY <2>5, <3>1, <3>5, <4>1
      <4>3. Chained(n, ch, 0, rest)'
        BY <1>2, <2>5, <4>2, ChainedSame
      <4>4. 1 \in 1 .. n /\ ch[1] = r.ncl /\ fp.fptr = (1 - 1) * bcs
        BY <1>2, <3>2, <3>5, <4>2, Constants DEF Run
      <4> QED
        BY <3>4, <4>3, <4>4
    <3>6. CASE ~ (fp.fptr = 0 /\ fp.sclust # 0)
      <4>1. r = create_chain(start)
        BY <3>6 DEF r
      <4>2. PICK k \in 0 .. n : /\ k = 0 => start = 0 /\ n = 0
                                /\ k > 0 => start = ch[k]
                                /\ fp.fptr = k * bcs
        <5>1. CASE fp.fptr = 0
          <6>1. 0 \in 0 .. n /\ start = 0 /\ n = 0 /\ fp.fptr = 0 * bcs
            BY <3>2, <3>6, <5>1, Constants
          <6> QED
            BY <6>1
        <5>2. CASE fp.fptr # 0
          <6>1. PICK k \in 1 .. n : fp.clust = ch[k] /\ fp.fptr = k * bcs
            BY <1>2, <2>1, <2>2, <2>5, <5>2, PointerAt
          <6>2. k \in 0 .. n /\ k > 0 /\ start = ch[k]
            BY <5>2, <6>1
          <6> QED
            BY <6>1, <6>2
        <5> QED
          BY <5>1, <5>2
      <4>3. start \in Owned \cup {0}
        <5>1. k > 0 => ch[k] \in Owned
          BY <1>2, RunUsed
        <5> QED
          BY <4>2, <5>1
      <4> HIDE DEF start
      <4>4. create_chain(start).ncl \in Owned
        BY <2>5, <4>1, <4>3, Facts, ChainApart
      <4>5. PICK n2, ch2 :
              /\ n2 \in Nat /\ n <= n2 /\ k + 1 \in 1 .. n2
              /\ ch2[k + 1] = create_chain(start).ncl
              /\ Chained(n2, ch2, 0, rest)'
        <5>1. /\ fat' = create_chain(start).fat /\ fs' = create_chain(start).fs
              /\ fp'.sclust = IF n = 0 THEN create_chain(start).ncl ELSE fp.sclust
              /\ faults' = faults /\ pc' # "remove"
          BY <2>5, <3>1, <3>2, <4>1
        <5> QED
          BY <1>2, <4>2, <4>4, <5>1, ChainedCreate
      <4>6. fp.fptr = (k + 1 - 1) * bcs
        BY <4>2
      <4> QED
        BY <3>4, <4>1, <4>5, <4>6
    <3> QED
      BY <3>5, <3>6
  <2>6. CASE Fails /\ Abort /\ fat' \in BrokenChains(start) /\ UNCHANGED fs
    BY <1>4, <2>6
  <2>7. CASE /\ ~ OnCluster /\ pc' = (IF OnSector THEN "wflush" ELSE "wcopy")
             /\ UNCHANGED <<fat, fs, fp, req, faults>>
    <3>1. fp.fptr > 0
      <4>1. ASSUME fp.fptr = 0 PROVE OnCluster
        <5>1. 0 % SS = 0 /\ (0 \div SS) % csize = 0
          BY Constants
        <5> QED
          BY <4>1, <5>1 DEF OnCluster, OnSector, csect
      <4> QED
        BY <2>2, <2>7, <4>1
    <3>2. PICK k \in 1 .. n : /\ fp.clust = ch[k] /\ (k - 1) * bcs < fp.fptr
                              /\ fp.fptr < k * bcs
      BY <1>2, <2>1, <2>7, <3>1, PointerAt
    <3>3. (k - 1) * bcs <= fp.fptr
      BY <3>2, ClusterEnd, Facts
    <3>4. Pointer(n, ch)'
      BY <2>7, <3>2, <3>3 DEF Pointer, OnSector
    <3> QED
      BY <1>3, <2>7, <3>4
  <2> QED
    BY <2>3, <2>4, <2>5, <2>6, <2>7
<1>7. CASE write_flush
  <2>1. pc = "wflush" /\ UNCHANGED <<fat, fs>>
    BY <1>7 DEF write_flush, Fault, WindowFault
  <2>2. CASE Fails /\ Abort
    BY <1>5, <2>1, <2>2
  <2>3. CASE fp' = [fp EXCEPT !.dirty = FALSE] /\ pc' = "wsect" /\ UNCHANGED faults
    <3>1. /\ fp'.clust = fp.clust /\ fp'.fptr = fp.fptr /\ fp'.sclust = fp.sclust
          /\ fp'.fsize = fp.fsize /\ fp'.written = fp.written
      BY <1>0, <2>3 DEF FileObject
    <3>2. Pointer(n, ch)'
      BY <1>2, <2>1, <2>3, <3>1 DEF Pointer, OnSector
    <3> QED
      BY <1>3, <2>1, <2>3, <3>1, <3>2
  <2> QED
    BY <1>7, <2>2, <2>3 DEF write_flush, Fault, WindowFault
<1>8. CASE write_direct
  <2>1. pc = "wsect" /\ Rest > 0 /\ UNCHANGED <<fat, fs>>
    BY <1>8 DEF write_direct, Fault, WindowFault
  <2>2. CASE Fails /\ Abort
    BY <1>5, <2>1, <2>2
  <2>3. CASE /\ fp' = [Advance(cc * SS) EXCEPT !.buf = Refill(sect, cc)]
             /\ pc' = "write" /\ UNCHANGED faults
    <3>1. /\ cc * SS \in Nat
          /\ \E k \in 1 .. n : /\ fp.clust = ch[k] /\ (k - 1) * bcs < fp.fptr + cc * SS
                               /\ fp.fptr + cc * SS <= k * bcs
      BY <1>0, <1>2, <2>1, WholeMoves
    <3>2. /\ fp'.clust = fp.clust /\ fp'.fptr = fp.fptr + cc * SS /\ fp'.sclust = fp.sclust
          /\ fp'.fsize = fp.fsize /\ fp'.written = fp.written
      BY <1>0, <2>3 DEF FileObject, Advance
    <3>3. Pointer(n, ch)'
      BY <2>3, <3>1, <3>2 DEF Pointer
    <3> QED
      BY <1>3, <2>1, <2>3, <3>2, <3>3
  <2> QED
    BY <1>8, <2>2, <2>3 DEF write_direct, Fault, WindowFault
<1>9. CASE write_fill
  <2>1. pc = "wsect" /\ UNCHANGED <<fat, fs>>
    BY <1>9 DEF write_fill, Fault, WindowFault
  <2>2. CASE Fails /\ Abort
    BY <1>5, <2>1, <2>2
  <2>3. CASE /\ fp' = [fp EXCEPT !.dsect = sect,
                                 !.buf = IF fp.dsect # sect /\ fp.fptr < fp.fsize
                                         THEN disk[sect] ELSE @]
             /\ pc' = "wcopy" /\ UNCHANGED faults
    <3>1. /\ fp'.clust = fp.clust /\ fp'.fptr = fp.fptr /\ fp'.sclust = fp.sclust
          /\ fp'.fsize = fp.fsize /\ fp'.written = fp.written
      BY <1>0, <2>3 DEF FileObject
    <3>2. Pointer(n, ch)'
      BY <1>2, <2>1, <2>3, <3>1 DEF Pointer
    <3> QED
      BY <1>3, <2>1, <2>3, <3>1, <3>2
  <2> QED
    BY <1>9, <2>2, <2>3 DEF write_fill, Fault, WindowFault
<1>10. CASE write_copy
  <2> DEFINE b == [i \in 1 .. SS |-> IF i \in (fp.fptr % SS) + 1 .. (fp.fptr % SS) + Piece
                                     THEN req.val ELSE fp.buf[i]]
  <2>1. /\ pc = "wcopy" /\ fp' = [Advance(Piece) EXCEPT !.dirty = TRUE, !.buf = b]
        /\ pc' = "write" /\ UNCHANGED <<fat, fs, faults>>
    BY <1>10 DEF write_copy, Quiet, Calm
  <2> HIDE DEF b
  <2>2. /\ Piece \in Nat
        /\ \E k \in 1 .. n : /\ fp.clust = ch[k] /\ (k - 1) * bcs < fp.fptr + Piece
                             /\ fp.fptr + Piece <= k * bcs
    BY <1>2, <2>1, PieceMoves
  <2>3. /\ fp'.clust = fp.clust /\ fp'.fptr = fp.fptr + Piece /\ fp'.sclust = fp.sclust
        /\ fp'.fsize = fp.fsize /\ fp'.written = fp.written
    BY <1>0, <2>1 DEF FileObject, Advance
  <2>4. Pointer(n, ch)'
    BY <2>1, <2>2, <2>3 DEF Pointer
  <2> QED
    BY <1>3, <2>1, <2>3, <2>4
<1> QED
  BY <1>6, <1>7, <1>8, <1>9, <1>10

\* f_lseek.
LEMMA SeekKept ==
  ASSUME ApartInv, KeptInv, seek_start \/ seek_loop \/ seek_arrive \/ seek_fill
  PROVE  KeptInv'
<1>0. /\ pc \in {"seek", "sloop", "sfill"} /\ dir' = dir /\ fp \in FileObject /\ ~ fp.err
      /\ fp.fptr \in Nat /\ fp.fsize \in Nat /\ req \in Requests /\ req.left \in Int
  BY Facts DEF seek_start, Fault, WindowFault, seek_loop, seek_arrive, seek_fill, Quiet, Calm,
       ApartInv, ClusterKnown
<1>n. PICK n \in Nat : \E ch, rest : Kept(n, ch, 0, rest)
  BY <1>0, KeptElim
<1>1. PICK ch, rest : Kept(n, ch, 0, rest)
  BY <1>n
<1>2. /\ Pointer(n, ch) /\ Run(fat, fp.sclust, n, ch) /\ fp.fsize <= n * bcs
      /\ Chained(n, ch, 0, rest) /\ faults \in Nat /\ DirKnown
  BY <1>0, <1>1, KeptElim DEF Kept, Chained
<1>3. fp.sclust = 0 <=> n = 0
  <2>1. n # 0 => 1 \in 1 .. n /\ fp.sclust = ch[1]
    BY <1>2 DEF Run
  <2>2. n # 0 => fp.sclust # 0
    BY <1>2, <2>1, RunUsed, Constants
  <2>3. n = 0 => fp.sclust \notin Clusters
    BY <1>2 DEF Run
  <2> QED
    BY <2>2, <2>3, Facts, NotTaken
<1>4. n = 0 => fp.fsize = 0
  <2>1. n = 0 => n * bcs = 0
    BY Constants
  <2> QED
    BY <1>0, <1>2, <2>1
<1>5. ASSUME Fails, Abort, NEW c, fat' \in BrokenChains(c), fs' = fs PROVE KeptInv'
  <2>1. /\ pc' = "idle" /\ fp'.err /\ fp'.sclust = fp.sclust /\ fp'.fsize = fp.fsize
        /\ fp'.written = fp.written
    BY <1>0, <1>5 DEF Abort, FileObject
  <2> QED
    BY <1>0, <1>5, <2>1, FaultKept DEF Fails
<1>6. CASE seek_start
  <2> DEFINE base == ((fp.fptr - 1) \div bcs) * bcs
             r == create_chain(0)
  <2>1. pc = "seek"
    BY <1>6 DEF seek_start, Fault, WindowFault
  <2>2. Clipped \in Nat /\ (Clipped > fp.fsize => fp.write)
    BY <1>0, Facts DEF Clipped
  <2>3. \/ /\ fp' = [fp EXCEPT !.fptr = 0] /\ pc' = "sfill" /\ UNCHANGED <<fat, fs, faults>>
        \/ /\ Clipped # 0 /\ SameOrLater
           /\ fp' = [fp EXCEPT !.fptr = base]
           /\ req' = [req EXCEPT !.left = Clipped - base]
           /\ clst' = fp.clust /\ pc' = "sloop" /\ UNCHANGED <<fat, fs, faults>>
        \/ /\ Clipped # 0 /\ fp.sclust # 0
           /\ fp' = [fp EXCEPT !.fptr = 0, !.clust = fp.sclust]
           /\ req' = [req EXCEPT !.left = Clipped]
           /\ clst' = fp.sclust /\ pc' = "sloop" /\ UNCHANGED <<fat, fs, faults>>
        \/ /\ Clipped # 0 /\ fp.sclust = 0 /\ fat' = r.fat /\ fs' = r.fs
           /\ fp' = [fp EXCEPT !.fptr = 0, !.clust = r.ncl, !.sclust = r.ncl]
           /\ req' = [req EXCEPT !.left = Clipped]
           /\ clst' = r.ncl /\ pc' = (IF r.ncl = 0 THEN "sfill" ELSE "sloop")
           /\ UNCHANGED faults
        \/ /\ Fails /\ fat' \in BrokenChains(0) /\ fs' = fs
           /\ fp' = [fp EXCEPT !.fptr = 0, !.err = TRUE] /\ pc' = "idle"
    BY <1>6 DEF seek_start, Fault, WindowFault
  <2> HIDE DEF r
  <2>4. CASE fp' = [fp EXCEPT !.fptr = 0] /\ pc' = "sfill" /\ UNCHANGED <<fat, fs, faults>>
    <3>1. /\ fp'.fptr = 0 /\ fp'.sclust = fp.sclust /\ fp'.fsize = fp.fsize
          /\ fp'.written = fp.written
      BY <1>0, <2>4 DEF FileObject
    <3>2. Pointer(n, ch)'
      BY <2>4, <3>1 DEF Pointer
    <3>3. DirKnown'
      BY <1>0, <1>2, <2>1, <2>4, <3>1 DEF DirKnown
    <3> QED
      BY <1>1, <1>2, <2>4, <3>1, <3>2, <3>3, QuietKept
  <2>5. CASE /\ Clipped # 0 /\ SameOrLater
             /\ fp' = [fp EXCEPT !.fptr = base]
             /\ req' = [req EXCEPT !.left = Clipped - base]
             /\ clst' = fp.clust /\ pc' = "sloop" /\ UNCHANGED <<fat, fs, faults>>
    <3>1. fp.fptr > 0 /\ (Clipped - 1) \div bcs >= (fp.fptr - 1) \div bcs /\ Clipped > 0
      BY <2>2, <2>5 DEF SameOrLater
    <3>2. PICK k \in 1 .. n : fp.clust = ch[k] /\ (k - 1) * bcs < fp.fptr /\ fp.fptr <= k * bcs
      BY <1>0, <1>2, <2>1, <3>1 DEF Pointer
    <3>3. (fp.fptr - 1) \div bcs = k - 1
      BY <1>0, <3>2, IndexOf
    <3>4. base = (k - 1) * bcs /\ base \in Nat
      BY <3>3, ClusterEnd
    <3>5. Clipped - base > 0
      <4> DEFINE q == (Clipped - 1) \div bcs
      <4>1. q \in Nat /\ q * bcs \in Nat /\ q * bcs <= Clipped - 1
        BY <2>2, <3>1, DivBelow
      <4>2. k - 1 <= q
        BY <3>1, <3>3
      <4> HIDE DEF q
      <4>3. (k - 1) * bcs <= q * bcs
        BY <4>1, <4>2, MultMono, Constants
      <4> QED
        BY <2>2, <3>4, <4>1, <4>3
    <3> HIDE DEF base
    <3>6. /\ fp'.fptr = base /\ fp'.sclust = fp.sclust /\ fp'.fsize = fp.fsize
          /\ fp'.written = fp.written /\ fp'.clust = fp.clust /\ req'.left = Clipped - base
      BY <1>0, <2>5 DEF FileObject, Requests
    <3>7. Pointer(n, ch)'
      BY <2>5, <3>2, <3>4, <3>5, <3>6 DEF Pointer
    <3>8. DirKnown'
      BY <1>0, <1>2, <2>1, <2>5, <3>6 DEF DirKnown
    <3> QED
      BY <1>1, <1>2, <2>5, <3>6, <3>7, <3>8, QuietKept
  <2>6. CASE /\ Clipped # 0 /\ fp.sclust # 0
             /\ fp' = [fp EXCEPT !.fptr = 0, !.clust = fp.sclust]
             /\ req' = [req EXCEPT !.left = Clipped]
             /\ clst' = fp.sclust /\ pc' = "sloop" /\ UNCHANGED <<fat, fs, faults>>
    <3>1. /\ fp'.fptr = 0 /\ fp'.sclust = fp.sclust /\ fp'.fsize = fp.fsize
          /\ fp'.written = fp.written /\ req'.left = Clipped /\ Clipped > 0
      BY <1>0, <2>2, <2>6 DEF FileObject, Requests
    <3>2. 1 \in 1 .. n /\ fp.sclust = ch[1] /\ (1 - 1) * bcs = 0
      BY <1>2, <1>3, <2>6, Constants DEF Run
    <3>3. Pointer(n, ch)'
      BY <2>6, <3>1, <3>2 DEF Pointer
    <3>4. DirKnown'
      BY <1>0, <1>2, <2>1, <2>6, <3>1 DEF DirKnown
    <3> QED
      BY <1>1, <1>2, <2>6, <3>1, <3>3, <3>4, QuietKept
  <2>7. CASE /\ Clipped # 0 /\ fp.sclust = 0 /\ fat' = r.fat /\ fs' = r.fs
             /\ fp' = [fp EXCEPT !.fptr = 0, !.clust = r.ncl, !.sclust = r.ncl]
             /\ req' = [req EXCEPT !.left = Clipped]
             /\ clst' = r.ncl /\ pc' = (IF r.ncl = 0 THEN "sfill" ELSE "sloop")
             /\ UNCHANGED faults
    <3>1. /\ fp'.fptr = 0 /\ fp'.sclust = r.ncl /\ fp'.fsize = fp.fsize /\ fp'.write = fp.write
          /\ fp'.written = fp.written /\ req'.left = Clipped /\ Clipped > 0
      BY <1>0, <2>2, <2>7 DEF FileObject, Requests
    <3>2. fp.write /\ n = 0 /\ fp.fsize = 0
      BY <1>0, <1>3, <1>4, <2>2, <2>7, <3>1
    <3>3. r.ncl \in Owned \cup {0}
      BY Facts, ChainApart DEF r
    <3>4. CASE r.ncl = 0
      <4>1. fat' = fat /\ fs' = fs
        <5>1. r = [ncl |-> 0, fat |-> fat, fs |-> fs]
          BY <3>4, ChainCases, FatFacts DEF r
        <5> QED
          BY <2>7, <5>1
      <4>2. fp'.sclust = fp.sclust /\ pc' = "sfill"
        BY <2>7, <3>1, <3>4
      <4>3. Pointer(n, ch)'
        BY <3>1, <4>2 DEF Pointer
      <4>4. DirKnown'
        BY <1>0, <1>2, <2>1, <2>7, <3>1, <4>2 DEF DirKnown
      <4> QED
        BY <1>1, <1>2, <2>7, <3>1, <4>1, <4>2, <4>3, <4>4, QuietKept
    <3>5. CASE r.ncl # 0
      <4>1. r.ncl \in Owned /\ pc' = "sloop" /\ pc' # "remove"
        BY <2>7, <3>3, <3>5
      <4>2. PICK n2, ch2 :
              /\ n2 \in Nat /\ n <= n2 /\ 0 + 1 \in 1 .. n2
              /\ ch2[0 + 1] = create_chain(0).ncl
              /\ Chained(n2, ch2, 0, rest)'
        <5>1. /\ fat' = create_chain(0).fat /\ fs' = create_chain(0).fs /\ 0 \in 0 .. n
              /\ fp'.sclust = IF n = 0 THEN create_chain(0).ncl ELSE fp.sclust
              /\ faults' = faults /\ create_chain(0).ncl \in Owned
          BY <2>7, <3>1, <3>2, <4>1 DEF r
        <5> QED
          BY <1>2, <3>2, <4>1, <5>1, ChainedCreate
      <4>3. 1 \in 1 .. n2 /\ ch2[1] = r.ncl /\ (1 - 1) * bcs = 0
        BY <4>2, Constants DEF r
      <4>4. Pointer(n2, ch2)'
        BY <2>7, <3>1, <4>1, <4>3 DEF Pointer
      <4>5. DirKnown'
        BY <1>0, <1>2, <2>1, <2>7, <3>1, <3>2, <4>1 DEF DirKnown
      <4>6. fp'.fsize <= n2 * bcs
        BY <3>1, <3>2, <4>2, Constants
      <4>7. Kept(n2, ch2, 0, rest)'
        BY <4>2, <4>4, <4>6 DEF Kept
      <4> QED
        BY <1>2, <2>7, <4>5, <4>7, KeptIntro
    <3> QED
      BY <3>4, <3>5
  <2>8. CASE /\ Fails /\ fat' \in BrokenChains(0) /\ fs' = fs
             /\ fp' = [fp EXCEPT !.fptr = 0, !.err = TRUE] /\ pc' = "idle"
    <3>1. fp'.err /\ fp'.sclust = fp.sclust /\ fp'.fsize = fp.fsize /\ fp'.written = fp.written
      BY <1>0, <2>8 DEF FileObject
    <3> QED
      BY <1>0, <2>8, <3>1, FaultKept DEF Fails
  <2> QED
    BY <2>3, <2>4, <2>5, <2>6, <2>7, <2>8
<1>7. CASE seek_loop
  <2> DEFINE r == IF fp.write THEN create_chain(clst)
                  ELSE [ncl |-> fat[clst], fat |-> fat, fs |-> fs]
  <2>1. pc = "sloop" /\ req.left > bcs
    BY <1>7 DEF seek_loop, Fault, WindowFault, TooFar
  <2>2. PICK k \in 1 .. n : clst = ch[k] /\ fp.fptr = (k - 1) * bcs
    BY <1>2, <2>1 DEF Pointer
  <2>3. clst \in Owned /\ clst # 0 /\ k \in 0 .. n /\ k > 0 /\ n # 0
    BY <1>2, <2>2, RunUsed, NotTaken
  <2>4. \/ /\ r.ncl \in Clusters /\ fat' = r.fat /\ fs' = r.fs /\ clst' = r.ncl
           /\ fp' = [fp EXCEPT !.clust = r.ncl, !.fptr = @ + bcs]
           /\ req' = [req EXCEPT !.left = @ - bcs] /\ UNCHANGED <<pc, faults>>
        \/ req' = [req EXCEPT !.left = bcs] /\ UNCHANGED <<fat, fs, clst, fp, pc, faults>>
        \/ /\ ~ (r.ncl \in Clusters \/ (fp.write /\ r.ncl = 0))
           /\ Abort /\ UNCHANGED <<fat, fs, clst, faults>>
        \/ Fails /\ Abort /\ fs' = fs /\ fat' \in (IF fp.write THEN BrokenChains(clst) ELSE {fat})
    BY <1>7 DEF seek_loop, Fault, WindowFault
  <2> HIDE DEF r
  <2>5. CASE /\ r.ncl \in Clusters /\ fat' = r.fat /\ fs' = r.fs /\ clst' = r.ncl
             /\ fp' = [fp EXCEPT !.clust = r.ncl, !.fptr = @ + bcs]
             /\ req' = [req EXCEPT !.left = @ - bcs] /\ UNCHANGED <<pc, faults>>
    <3>1. /\ fp'.fptr = fp.fptr + bcs /\ fp'.sclust = fp.sclust /\ fp'.fsize = fp.fsize
          /\ fp'.write = fp.write /\ fp'.written = fp.written /\ req'.left = req.left - bcs
      BY <1>0, <2>5 DEF FileObject, Requests
    <3>2. req'.left > 0
      BY <1>0, <2>1, <3>1, Constants
    <3>3. fp'.fptr = (k + 1 - 1) * bcs
      BY <2>2, <3>1, ClusterEnd
    <3>4. \E n2, ch2 : /\ n2 \in Nat /\ n <= n2 /\ k + 1 \in 1 .. n2 /\ ch2[k + 1] = r.ncl
                       /\ Chained(n2, ch2, 0, rest)'
      <4>1. CASE fp.write
        <5>1. r = create_chain(clst)
          BY <4>1 DEF r
        <5>2. r.ncl \in Owned
          BY <2>3, <2>5, <5>1, Facts, ChainApart, Constants
        <5>3. /\ fat' = create_chain(clst).fat /\ fs' = create_chain(clst).fs
              /\ fp'.sclust = IF n = 0 THEN create_chain(clst).ncl ELSE fp.sclust
              /\ faults' = faults /\ create_chain(clst).ncl \in Owned /\ pc' # "remove"
          BY <2>1, <2>3, <2>5, <3>1, <5>1, <5>2
        <5>4. \E n2, ch2 :
                /\ n2 \in Nat /\ n <= n2 /\ k + 1 \in 1 .. n2
                /\ \A i \in 1 .. n : ch2[i] = ch[i]
                /\ ch2[k + 1] = create_chain(clst).ncl
                /\ Chained(n2, ch2, 0, rest)'
          BY <1>2, <2>2, <2>3, <5>3, ChainedCreate
        <5> QED
          BY <5>1, <5>4
      <4>2. CASE ~ fp.write
        <5>1. r = [ncl |-> fat[clst], fat |-> fat, fs |-> fs]
          BY <4>2 DEF r
        <5>2. r.ncl = fat[clst] /\ fat' = fat /\ fs' = fs
          BY <2>5, <5>1
        <5>3. k # n
          BY <1>2, <2>2, <2>5, <5>2, Constants DEF Run
        <5>4. k + 1 \in 1 .. n /\ ch[k + 1] = r.ncl
          BY <1>2, <2>2, <5>2, <5>3 DEF Run
        <5>5. Chained(n, ch, 0, rest)'
          BY <1>2, <2>1, <2>5, <3>1, <5>2, ChainedSame
        <5> QED
          BY <5>4, <5>5
      <4> QED
        BY <4>1, <4>2
    <3>5. PICK n2, ch2 : /\ n2 \in Nat /\ n <= n2 /\ k + 1 \in 1 .. n2 /\ ch2[k + 1] = r.ncl
                         /\ Chained(n2, ch2, 0, rest)'
      BY <3>4
    <3>6. Pointer(n2, ch2)'
      BY <2>1, <2>5, <3>2, <3>3, <3>5 DEF Pointer
    <3>7. fp'.fsize <= n2 * bcs
      <4>1. n * bcs \in Nat /\ n2 * bcs \in Nat /\ n * bcs <= n2 * bcs
        BY <3>5, MultMono, Constants
      <4> QED
        BY <1>0, <1>2, <3>1, <4>1
    <3>8. Kept(n2, ch2, 0, rest)'
      BY <3>5, <3>6, <3>7 DEF Kept
    <3>9. DirKnown'
      BY <1>0, <1>2, <2>1, <2>5, <3>1 DEF DirKnown
    <3> QED
      BY <1>2, <2>5, <3>8, <3>9, KeptIntro
  <2>6. CASE req' = [req EXCEPT !.left = bcs] /\ UNCHANGED <<fat, fs, clst, fp, pc, faults>>
    <3>1. req'.left > 0
      BY <1>0, <2>6, Constants DEF Requests
    <3>2. Pointer(n, ch)'
      BY <1>2, <2>1, <2>6, <3>1 DEF Pointer
    <3>3. DirKnown'
      BY <1>0, <1>2, <2>6 DEF DirKnown
    <3> QED
      BY <1>1, <1>2, <2>1, <2>6, <3>2, <3>3, QuietKept
  <2>7. CASE /\ ~ (r.ncl \in Clusters \/ (fp.write /\ r.ncl = 0))
             /\ Abort /\ UNCHANGED <<fat, fs, clst, faults>>
    <3>1. ~ fp.write
      <4> SUFFICES ASSUME fp.write PROVE FALSE
        OBVIOUS
      <4>1. r = create_chain(clst)
        BY DEF r
      <4>2. r.ncl \in Owned \cup {0}
        BY <2>3, <4>1, Facts, ChainApart
      <4> QED
        BY <2>7, <4>2, NotTaken
    <3> QED
      BY <1>0, <2>1, <2>7, <3>1, AbortKept
  <2>8. CASE Fails /\ Abort /\ fs' = fs /\ fat' \in (IF fp.write THEN BrokenChains(clst) ELSE {fat})
    <3>1. fat' \in BrokenChains(clst)
      BY <2>8, NotBroken
    <3> QED
      BY <1>5, <2>8, <3>1
  <2> QED
    BY <2>4, <2>5, <2>6, <2>7, <2>8
<1>8. CASE seek_arrive
  <2>1. /\ pc = "sloop" /\ req.left <= bcs /\ fp' = [fp EXCEPT !.fptr = @ + req.left]
        /\ pc' = "sfill" /\ UNCHANGED <<fat, fs, faults>>
    BY <1>0, <1>8, Constants DEF seek_arrive, TooFar, Quiet, Calm
  <2>2. PICK k \in 1 .. n : clst = ch[k] /\ fp.fptr = (k - 1) * bcs
    BY <1>2, <2>1 DEF Pointer
  <2>3. fp.clust = clst /\ req.left > 0 /\ req.left \in Nat
    BY <1>2, <2>1 DEF Pointer, ApartInv, ClusterKnown
  <2>4. /\ fp'.fptr = fp.fptr + req.left /\ fp'.sclust = fp.sclust /\ fp'.fsize = fp.fsize
        /\ fp'.written = fp.written /\ fp'.clust = fp.clust
    BY <1>0, <2>1 DEF FileObject
  <2>5. (k - 1) * bcs < fp'.fptr /\ fp'.fptr <= k * bcs /\ fp'.fptr > 0
    BY <2>1, <2>2, <2>3, <2>4, ClusterEnd, Constants
  <2>6. Pointer(n, ch)'
    BY <2>1, <2>2, <2>3, <2>4, <2>5 DEF Pointer
  <2>7. DirKnown'
    BY <1>0, <1>2, <2>1, <2>4, <2>5 DEF DirKnown
  <2> QED
    BY <1>1, <1>2, <2>1, <2>4, <2>6, <2>7, QuietKept
<1>9. CASE seek_fill
  <2> DEFINE nsect == clust2sect(clst) + (req.left \div SS)
             full == [fp EXCEPT !.buf = disk'[nsect], !.dsect = nsect, !.dirty = FALSE]
             sized(f) == [f EXCEPT !.fsize = IF f.fptr > @ THEN f.fptr ELSE @,
                                   !.written = @ \/ f.fptr > f.fsize]
  <2>1. pc = "sfill" /\ pc' = "idle" /\ UNCHANGED <<fat, fs>>
    BY <1>9 DEF seek_fill, Fault, WindowFault, End
  <2>2. \/ (fp' = sized(full) \/ fp' = sized(fp)) /\ UNCHANGED faults
        \/ /\ Fails
           /\ fp' = [fp EXCEPT !.err = TRUE] \/ fp' = [fp EXCEPT !.err = TRUE, !.dirty = FALSE]
    BY <1>9 DEF seek_fill, Fault, WindowFault
  <2>3. CASE (fp' = sized(full) \/ fp' = sized(fp)) /\ UNCHANGED faults
    <3>1. /\ full.fptr = fp.fptr /\ full.fsize = fp.fsize /\ full.clust = fp.clust
          /\ full.sclust = fp.sclust /\ full.written = fp.written /\ full.err = fp.err
          /\ DOMAIN full = DOMAIN fp
      BY <1>0 DEF FileObject
    <3> HIDE DEF full
    <3>2. /\ fp'.fptr = fp.fptr /\ fp'.clust = fp.clust /\ fp'.sclust = fp.sclust
          /\ fp'.fsize = (IF fp.fptr > fp.fsize THEN fp.fptr ELSE fp.fsize)
          /\ fp'.written = (fp.written \/ fp.fptr > fp.fsize) /\ fp'.err = fp.err
      BY <1>0, <2>3, <3>1 DEF FileObject
    <3>3. fp.fptr <= n * bcs
      <4>1. CASE fp.fptr = 0
        BY <4>1, Constants
      <4>2. CASE fp.fptr # 0
        <5>1. PICK k \in 1 .. n : fp.fptr <= k * bcs
          BY <1>0, <1>2, <2>1, <4>2 DEF Pointer
        <5>2. k * bcs \in Nat /\ n * bcs \in Nat /\ k * bcs <= n * bcs
          BY MultMono, Constants
        <5> QED
          BY <1>0, <5>1, <5>2
      <4> QED
        BY <4>1, <4>2
    <3>4. Pointer(n, ch)'
      BY <1>2, <2>1, <3>2 DEF Pointer
    <3>5. DirKnown'
      <4> SUFFICES ASSUME ~ fp'.written PROVE DirKnown'
        BY DEF DirKnown
      <4>1. ~ fp.written /\ ~ (fp.fptr > fp.fsize) /\ fp'.fsize = fp.fsize
        BY <3>2
      <4> QED
        BY <1>0, <1>2, <2>1, <2>3, <3>2, <4>1 DEF DirKnown
    <3> QED
      BY <1>1, <1>2, <2>1, <2>3, <3>2, <3>3, <3>4, <3>5, QuietKept
  <2>4. CASE /\ Fails
             /\ fp' = [fp EXCEPT !.err = TRUE] \/ fp' = [fp EXCEPT !.err = TRUE, !.dirty = FALSE]
    <3>1. fp'.err /\ fp'.sclust = fp.sclust /\ fp'.fsize = fp.fsize /\ fp'.written = fp.written
      BY <1>0, <2>4 DEF FileObject
    <3> QED
      BY <1>0, <2>1, <2>4, <3>1, NotBroken, FaultKept DEF Fails
  <2> QED
    BY <2>2, <2>3, <2>4
<1> QED
  BY <1>6, <1>7, <1>8, <1>9

\* The first k clusters of a chain, and the ones behind them.
UpTo(ch, k) == [i \in 1 .. k |-> ch[i]]
Behind(ch, n, k) == [i \in 1 .. n - k |-> ch[k + i]]

\* A chain cut behind its k-th cluster: the first part ends there, the rest is a chain from
\* the link that was cut.
LEMMA RunCut ==
  ASSUME NEW f \in [Clusters -> Values], NEW a, NEW n, NEW ch, Run(f, a, n, ch), NEW k \in 1 .. n
  PROVE  /\ Run([f EXCEPT ![ch[k]] = EOC], a, k, UpTo(ch, k))
         /\ Run([f EXCEPT ![ch[k]] = EOC], f[ch[k]], n - k, Behind(ch, n, k))
         /\ \A i \in 1 .. k, j \in 1 .. n - k : UpTo(ch, k)[i] # Behind(ch, n, k)[j]
<1> DEFINE g == [f EXCEPT ![ch[k]] = EOC]
           first == UpTo(ch, k)
           rest == Behind(ch, n, k)
<1>1. /\ n \in Nat /\ k \in Nat /\ k > 0 /\ k <= n /\ n - k \in Nat
      /\ ch \in [1 .. n -> Owned] /\ \A i, j \in 1 .. n : ch[i] = ch[j] => i = j
      /\ \A i \in 1 .. n : f[ch[i]] = IF i = n THEN EOC ELSE ch[i + 1]
      /\ a = ch[1]
  BY DEF Run
<1>2. \A i \in 1 .. n : ch[i] \in Clusters
  BY RunUsed
<1>3. g[ch[k]] = EOC /\ \A i \in 1 .. n : i # k => g[ch[i]] = f[ch[i]]
  BY <1>1, <1>2
<1>4. /\ first \in [1 .. k -> Owned] /\ \A i \in 1 .. k : first[i] = ch[i] /\ i \in 1 .. n
  BY <1>1 DEF UpTo
<1>5. /\ rest \in [1 .. n - k -> Owned]
      /\ \A j \in 1 .. n - k : rest[j] = ch[k + j] /\ k + j \in 1 .. n /\ k + j # k
  BY <1>1 DEF Behind
<1> HIDE DEF g, first, rest
<1>6. Run(g, a, k, first)
  <2>1. \A i, j \in 1 .. k : first[i] = first[j] => i = j
    BY <1>1, <1>4
  <2>2. ASSUME NEW i \in 1 .. k PROVE g[first[i]] = IF i = k THEN EOC ELSE first[i + 1]
    <3>1. CASE i = k
      BY <1>3, <1>4, <3>1
    <3>2. CASE i # k
      <4>1. i + 1 \in 1 .. k /\ i \in 1 .. n /\ i # n
        BY <1>1, <3>2
      <4> QED
        BY <1>1, <1>3, <1>4, <3>2, <4>1
    <3> QED
      BY <3>1, <3>2
  <2>3. k \in Nat /\ k # 0 /\ a = first[1] /\ first \in [1 .. k -> Owned]
    BY <1>1, <1>4
  <2> QED
    BY <2>1, <2>2, <2>3 DEF Run
<1>7. Run(g, f[ch[k]], n - k, rest)
  <2>1. ASSUME NEW i \in 1 .. n - k, NEW j \in 1 .. n - k, rest[i] = rest[j] PROVE i = j
    <3>1. k + i = k + j
      BY <1>1, <1>5, <2>1
    <3> QED
      BY <1>1, <3>1
  <2>2. ASSUME NEW j \in 1 .. n - k PROVE g[rest[j]] = IF j = n - k THEN EOC ELSE rest[j + 1]
    <3>1. g[rest[j]] = IF k + j = n THEN EOC ELSE ch[k + j + 1]
      BY <1>1, <1>3, <1>5
    <3>2. CASE j = n - k
      BY <1>1, <3>1, <3>2
    <3>3. CASE j # n - k
      <4>1. j + 1 \in 1 .. n - k /\ k + j # n /\ k + (j + 1) = k + j + 1
        BY <1>1, <3>3
      <4>2. rest[j + 1] = ch[k + (j + 1)]
        BY <1>5, <4>1
      <4> QED
        BY <3>1, <3>3, <4>1, <4>2
    <3> QED
      BY <3>2, <3>3
  <2>3. IF n - k = 0 THEN f[ch[k]] \notin Clusters ELSE f[ch[k]] = rest[1]
    <3>1. CASE n = k
      BY <1>1, <3>1, Constants
    <3>2. CASE n # k
      <4>1. 1 \in 1 .. n - k /\ n - k # 0
        BY <1>1, <3>2
      <4> QED
        BY <1>1, <1>5, <3>2, <4>1
    <3> QED
      BY <1>1, <3>1, <3>2
  <2> QED
    BY <1>1, <1>5, <2>1, <2>2, <2>3 DEF Run
<1>8. ASSUME NEW i \in 1 .. k, NEW j \in 1 .. n - k, first[i] = rest[j] PROVE FALSE
  <2>1. i = k + j
    BY <1>1, <1>4, <1>5, <1>8
  <2> QED
    BY <1>1, <2>1
<1> QED
  BY <1>6, <1>7, <1>8 DEF g, first, rest

\* What is left of a chain when its first cluster is freed.
LEMMA RunTail ==
  ASSUME NEW f \in [Clusters -> Values], NEW a, NEW m, NEW rest, Run(f, a, m, rest), m > 0,
         NEW g, g = [f EXCEPT ![a] = 0], NEW tail, tail = [j \in 1 .. m - 1 |-> rest[j + 1]]
  PROVE  Run(g, f[a], m - 1, tail)
<1>1. /\ m \in Nat /\ m - 1 \in Nat /\ 1 \in 1 .. m /\ a = rest[1]
      /\ rest \in [1 .. m -> Owned] /\ \A i, j \in 1 .. m : rest[i] = rest[j] => i = j
      /\ \A i \in 1 .. m : f[rest[i]] = IF i = m THEN EOC ELSE rest[i + 1]
  BY DEF Run
<1>2. \A i \in 1 .. m : rest[i] \in Clusters
  BY RunUsed
<1>3. /\ tail \in [1 .. m - 1 -> Owned]
      /\ \A j \in 1 .. m - 1 : tail[j] = rest[j + 1] /\ j + 1 \in 1 .. m /\ j + 1 # 1
  BY <1>1
<1>4. \A i \in 1 .. m : i # 1 => g[rest[i]] = f[rest[i]]
  BY <1>1, <1>2
<1>5. ASSUME NEW i \in 1 .. m - 1, NEW j \in 1 .. m - 1, tail[i] = tail[j] PROVE i = j
  <2>1. i + 1 = j + 1
    BY <1>1, <1>3, <1>5
  <2> QED
    BY <1>1, <2>1
<1>6. ASSUME NEW j \in 1 .. m - 1 PROVE g[tail[j]] = IF j = m - 1 THEN EOC ELSE tail[j + 1]
  <2>1. g[tail[j]] = IF j + 1 = m THEN EOC ELSE rest[j + 1 + 1]
    BY <1>1, <1>3, <1>4
  <2>2. CASE j = m - 1
    BY <1>1, <2>1, <2>2
  <2>3. CASE j # m - 1
    <3>1. j + 1 \in 1 .. m - 1 /\ j + 1 # m
      BY <1>1, <2>3
    <3> QED
      BY <1>3, <2>1, <2>3, <3>1
  <2> QED
    BY <2>2, <2>3
<1>7. IF m - 1 = 0 THEN f[a] \notin Clusters ELSE f[a] = tail[1]
  <2>1. CASE m = 1
    BY <1>1, <2>1, Constants
  <2>2. CASE m # 1
    <3>1. 1 \in 1 .. m - 1 /\ m - 1 # 0
      BY <1>1, <2>2
    <3> QED
      BY <1>1, <1>3, <2>2, <3>1
  <2> QED
    BY <1>1, <2>1, <2>2
<1> QED
  BY <1>1, <1>3, <1>5, <1>6, <1>7 DEF Run

\* f_truncate.
LEMMA TruncateKept ==
  ASSUME ApartInv, KeptInv, f_truncate
  PROVE  KeptInv'
<1> DEFINE cut == [fp EXCEPT !.fsize = fp.fptr, !.written = TRUE]
<1>0. pc = "idle" /\ ~ fp.err /\ fs' = fs /\ dir' = dir /\ fp.fsize > fp.fptr
  BY DEF f_truncate
<1>1. /\ pc = "idle" /\ ~ fp.err /\ fs' = fs
      /\ fp \in FileObject /\ fp.fptr \in Nat /\ fp.fsize \in Nat
  BY <1>0, Facts
<1>n. PICK n \in Nat : \E ch, rest : Kept(n, ch, 0, rest)
  BY <1>1, KeptElim
<1>2. PICK ch, rest : Kept(n, ch, 0, rest)
  BY <1>n
<1>3. /\ Pointer(n, ch) /\ Run(fat, fp.sclust, n, ch) /\ ch \in [1 .. n -> Owned]
      /\ Counted(n, ch, 0, rest) /\ faults \in Nat /\ fat \in [Clusters -> Values]
  BY <1>1, <1>2, KeptElim, FatFacts DEF Kept, Chained, Run
<1>4. \/ /\ fp.fptr = 0 /\ clst' = fp.sclust /\ fp' = [cut EXCEPT !.sclust = 0] /\ fat' = fat
         /\ pc' = "remove" /\ faults' = faults
      \/ /\ fp.fptr # 0 /\ clst' = fat[fp.clust] /\ fp' = cut
         /\ fat' = [fat EXCEPT ![fp.clust] = EOC] /\ pc' = "remove" /\ faults' = faults
      \/ /\ fp' = [cut EXCEPT !.err = TRUE] /\ fat' = fat /\ pc' = "idle"
         /\ faults' = faults + 1
  BY <1>0 DEF f_truncate, WindowFault, Fails
<1>7. CASE /\ fp' = [cut EXCEPT !.err = TRUE] /\ fat' = fat /\ pc' = "idle"
           /\ faults' = faults + 1
  <2>1. fp'.fsize = fp.fptr /\ fp'.written /\ fp'.sclust = fp.sclust /\ fp'.err
    BY <1>1, <1>7 DEF FileObject
  <2>2. Chained(n, ch, 0, rest)' /\ faults' \in Nat
    BY <1>1, <1>2, <1>3, <1>7, <2>1, ChainedSame DEF Kept
  <2>3. Pointer(n, ch)' /\ DirKnown'
    BY <1>7, <2>1 DEF Pointer, DirKnown
  <2>4. fp'.fsize <= n * bcs
    <3>1. fp.fsize <= n * bcs /\ n * bcs \in Nat
      BY <1>2, Constants DEF Kept
    <3> QED
      BY <1>0, <1>1, <2>1, <3>1
  <2>5. Kept(n, ch, 0, rest)'
    BY <2>2, <2>3, <2>4 DEF Kept
  <2> QED
    BY <2>2, <2>3, <2>5, KeptIntro
<1>5. CASE /\ fp.fptr = 0 /\ clst' = fp.sclust /\ fp' = [cut EXCEPT !.sclust = 0] /\ fat' = fat
           /\ pc' = "remove" /\ faults' = faults
  <2>1. fp'.fptr = 0 /\ fp'.fsize = 0 /\ fp'.written /\ fp'.sclust = 0
    BY <1>1, <1>5 DEF FileObject
  <2> DEFINE none == [i \in 1 .. 0 |-> 0]
  <2>2. none \in [1 .. 0 -> Owned]
    OBVIOUS
  <2> HIDE DEF none
  <2>3. Run(fat', fp'.sclust, 0, none)
    BY <2>1, <2>2, Constants DEF Run
  <2>4. Run(fat', clst', n, ch)
    BY <1>3, <1>5
  <2>5. Counted(0, none, n, ch)'
    <3>1. fs'.free + 0 + n = fs.free + n + 0 /\ Free(fat') = Free(fat)
      BY <1>1, <1>3, <1>5 DEF Counted
    <3> QED
      BY <1>1, <1>3, <1>5, <3>1 DEF Counted
  <2>6. Chained(0, none, n, ch)'
    BY <1>1, <1>5, <1>3, <2>3, <2>4, <2>5 DEF Chained
  <2>7. Pointer(0, none)'
    BY <1>1, <1>5, <2>1 DEF Pointer
  <2>8. fp'.fsize <= 0 * bcs
    BY <2>1, Constants
  <2>9. DirKnown'
    BY <2>1 DEF DirKnown
  <2>10. Kept(0, none, n, ch)'
    BY <2>6, <2>7, <2>8 DEF Kept
  <2> QED
    BY <1>1, <1>5, <1>3, <2>9, <2>10, KeptIntro
<1>6. CASE /\ fp.fptr # 0 /\ clst' = fat[fp.clust] /\ fp' = cut
           /\ fat' = [fat EXCEPT ![fp.clust] = EOC] /\ pc' = "remove" /\ faults' = faults
  <2>1. /\ fp'.fptr = fp.fptr /\ fp'.fsize = fp.fptr /\ fp'.written /\ fp'.sclust = fp.sclust
        /\ fp'.clust = fp.clust /\ fp'.err = fp.err
    BY <1>1, <1>6 DEF FileObject
  <2>2. PICK k \in 1 .. n : fp.clust = ch[k] /\ (k - 1) * bcs < fp.fptr /\ fp.fptr <= k * bcs
    BY <1>1, <1>3, <1>6 DEF Pointer
  <2> DEFINE first == UpTo(ch, k)
             cutoff == Behind(ch, n, k)
  <2>3. /\ Run(fat', fp.sclust, k, first) /\ Run(fat', fat[ch[k]], n - k, cutoff)
        /\ \A i \in 1 .. k, j \in 1 .. n - k : first[i] # cutoff[j]
    <3>1. fat' = [fat EXCEPT ![ch[k]] = EOC]
      BY <1>6, <2>2
    <3>2. /\ Run([fat EXCEPT ![ch[k]] = EOC], fp.sclust, k, first)
          /\ Run([fat EXCEPT ![ch[k]] = EOC], fat[ch[k]], n - k, cutoff)
          /\ \A i \in 1 .. k, j \in 1 .. n - k : first[i] # cutoff[j]
      BY <1>3, RunCut
    <3> HIDE DEF first, cutoff
    <3> QED
      BY <3>1, <3>2, Zenon
  <2>4. /\ first[k] = ch[k] /\ n - k \in Nat /\ cutoff \in [1 .. n - k -> Owned]
        /\ \A i \in 1 .. n : \/ i \in 1 .. k /\ first[i] = ch[i]
                             \/ i - k \in 1 .. n - k /\ cutoff[i - k] = ch[i]
    BY <1>3 DEF UpTo, Behind
  <2> HIDE DEF first, cutoff
  <2>5. fat' \in [Clusters -> Values] /\ \A c \in Clusters : fat'[c] = 0 <=> fat[c] = 0
    <3>1. ch[k] \in Clusters /\ fat[ch[k]] # 0
      BY <1>3, RunUsed
    <3>2. EOC # 0
      BY <3>1, Constants DEF Clusters, EOC
    <3> QED
      BY <1>3, <1>6, <2>2, <3>1, <3>2 DEF Values
  <2>6. Free(fat') = Free(fat)
    BY <2>5 DEF Free
  <2>7. Counted(k, first, n - k, cutoff)'
    <3>1. /\ fs'.free \in Nat /\ Cardinality(Free(fat')) <= fs'.free
          /\ faults' = 0 => fs'.free = Cardinality(Free(fat'))
      BY <1>1, <1>6, <1>3, <2>6 DEF Counted
    <3>2. fs'.free + k + (n - k) <= n_fatent
      BY <1>1, <1>6, <1>3, Constants DEF Counted
    <3>3. ASSUME faults' = 0, NEW c \in Owned, fat'[c] # 0
          PROVE  (\E i \in 1 .. k : first[i] = c) \/ (\E j \in 1 .. n - k : cutoff[j] = c)
      <4>1. fat[c] # 0 /\ faults = 0
        BY <1>1, <1>6, <2>5, <3>3 DEF Owned
      <4>2. PICK i \in 1 .. n : ch[i] = c
        BY <1>3, <4>1 DEF Counted
      <4> QED
        BY <2>4, <4>2
    <3> QED
      BY <3>1, <3>2, <3>3 DEF Counted
  <2>8. Chained(k, first, n - k, cutoff)'
    <3>1. Run(fat', fp'.sclust, k, first) /\ Run(fat', clst', n - k, cutoff)
      BY <1>6, <2>1, <2>2, <2>3
    <3> QED
      BY <1>1, <1>6, <2>3, <2>4, <2>7, <3>1 DEF Chained
  <2>9. Pointer(k, first)'
    <3>1. k \in 1 .. k
      OBVIOUS
    <3> QED
      BY <1>1, <1>6, <2>1, <2>2, <2>4, <3>1 DEF Pointer
  <2>10. DirKnown'
    BY <2>1 DEF DirKnown
  <2>11. Kept(k, first, n - k, cutoff)'
    BY <2>1, <2>2, <2>8, <2>9 DEF Kept
  <2> QED
    BY <1>1, <1>6, <1>3, <2>10, <2>11, KeptIntro
<1> QED
  BY <1>4, <1>5, <1>6, <1>7

\* remove_chain.
LEMMA RemoveKept ==
  ASSUME ApartInv, KeptInv, remove_chain
  PROVE  KeptInv'
<1>1. /\ pc = "remove" /\ dir' = dir /\ fp \in FileObject /\ ~ fp.err
      /\ faults \in Nat /\ DirKnown /\ fat \in [Clusters -> Values]
  BY Facts, FatFacts DEF remove_chain, Fault, WindowFault, KeptInv, ApartInv, ClusterKnown
<1>2. PICK n \in 0 .. n_fatent, m \in 0 .. n_fatent :
        \E ch \in [1 .. n -> Owned], rest \in [1 .. m -> Owned] : Kept(n, ch, m, rest)
  BY DEF KeptInv
<1>3. PICK ch \in [1 .. n -> Owned], rest \in [1 .. m -> Owned] : Kept(n, ch, m, rest)
  BY <1>2
<1>4. /\ Pointer(n, ch) /\ Run(fat, fp.sclust, n, ch) /\ Run(fat, clst, m, rest)
      /\ \A i \in 1 .. n, j \in 1 .. m : ch[i] # rest[j]
      /\ Counted(n, ch, m, rest) /\ fp.fsize <= n * bcs
  BY <1>1, <1>3 DEF Kept, Chained
<1>5. n \in Nat /\ m \in Nat /\ (m > 0 => 1 \in 1 .. m /\ clst = rest[1])
  BY <1>4 DEF Run
<1>6. m > 0 <=> clst \in Clusters /\ fat[clst] # 0
  <2>1. m > 0 => clst \in Clusters /\ fat[clst] # 0
    BY <1>4, <1>5, RunUsed
  <2>2. m = 0 => clst \notin Clusters
    BY <1>4 DEF Run
  <2> QED
    BY <1>5, <2>1, <2>2
<1>7. ASSUME pc' = "idle", UNCHANGED <<fat, fs>>, fp'.sclust = fp.sclust, fp'.fsize = fp.fsize,
             (m = 0 /\ faults' = faults) \/ faults' = faults + 1, fp'.written <=> fp.written,
             fp'.err \/ (fp'.fptr = fp.fptr /\ fp'.clust = fp.clust)
      PROVE  KeptInv'
  <2> DEFINE none == [i \in 1 .. 0 |-> 0]
  <2>1. none \in [1 .. 0 -> Owned]
    OBVIOUS
  <2> HIDE DEF none
  <2>2. Counted(n, ch, 0, none)'
    <3>1. /\ fs'.free \in Nat /\ Cardinality(Free(fat')) <= fs'.free /\ fs'.free + n + 0 <= n_fatent
      BY <1>4, <1>5, <1>7, Constants DEF Counted
    <3>2. faults' = 0 => m = 0 /\ faults = 0
      BY <1>1, <1>7
    <3> QED
      BY <1>4, <1>7, <3>1, <3>2 DEF Counted
  <2>3. Chained(n, ch, 0, none)'
    BY <1>4, <1>7, <2>1, <2>2 DEF Chained
  <2>4. Pointer(n, ch)'
    BY <1>1, <1>4, <1>7 DEF Pointer
  <2>5. Kept(n, ch, 0, none)'
    BY <1>4, <1>7, <2>3, <2>4 DEF Kept
  <2>6. DirKnown' /\ faults' \in Nat
    BY <1>1, <1>7 DEF DirKnown
  <2> QED
    BY <2>5, <2>6, KeptIntro
<1>8. CASE /\ clst \in Clusters /\ fat[clst] # 0
           /\ fat' = [fat EXCEPT ![clst] = 0] /\ clst' = fat[clst]
           /\ fs' = [fs EXCEPT !.free = @ + 1] /\ UNCHANGED <<fp, pc, faults>>
  <2> DEFINE tail == [j \in 1 .. m - 1 |-> rest[j + 1]]
  <2>1. m > 0 /\ m - 1 \in Nat /\ clst = rest[1] /\ 1 \in 1 .. m
    BY <1>5, <1>6, <1>8
  <2>2. Run(fat', clst', m - 1, tail)
    <3>1. tail = [j \in 1 .. m - 1 |-> rest[j + 1]]
      OBVIOUS
    <3> HIDE DEF tail
    <3> QED
      BY <1>1, <1>4, <1>8, <2>1, <3>1, RunTail
  <2>3. /\ tail \in [1 .. m - 1 -> Owned]
        /\ \A j \in 1 .. m - 1 : j + 1 \in 1 .. m /\ tail[j] = rest[j + 1]
        /\ \A j \in 1 .. m : j # 1 => j - 1 \in 1 .. m - 1 /\ tail[j - 1] = rest[j]
    BY <1>5, <2>1
  <2> HIDE DEF tail
  <2>4. Run(fat', fp'.sclust, n, ch)
    <3>1. \A i \in 1 .. n : ch[i] # clst /\ ch[i] \in Clusters
      BY <1>4, <2>1, RunUsed
    <3>2. \A i \in 1 .. n : fat'[ch[i]] = fat[ch[i]]
      BY <1>1, <1>8, <3>1
    <3> QED
      BY <1>4, <1>8, <3>2, RunSame
  <2>5. /\ fat' \in [Clusters -> Values]
        /\ \A c \in Clusters : fat'[c] = 0 <=> fat[c] = 0 \/ c = clst
    BY <1>1, <1>8 DEF Values
  <2>6. Cardinality(Free(fat')) = Cardinality(Free(fat)) + 1
    BY <1>1, <1>8, <2>5, FreeMore
  <2>7. Cardinality(Free(fat)) \in Nat
    BY <1>1, FreeCount
  <2>8. fs'.free = fs.free + 1
    BY <1>8, <1>4 DEF Counted
  <2>9. Counted(n, ch, m - 1, tail)'
    <3>1. /\ fs'.free \in Nat /\ Cardinality(Free(fat')) <= fs'.free
          /\ fs'.free + n + (m - 1) <= n_fatent
          /\ faults' = 0 => fs'.free = Cardinality(Free(fat'))
      <4>1. /\ fs.free \in Nat /\ Cardinality(Free(fat)) <= fs.free /\ fs.free + n + m <= n_fatent
            /\ faults = 0 => fs.free = Cardinality(Free(fat))
        BY <1>4 DEF Counted
      <4>2. faults' = faults
        BY <1>8
      <4> QED
        BY <1>5, <2>6, <2>7, <2>8, <4>1, <4>2, Constants
    <3>2. ASSUME faults' = 0, NEW c \in Owned, fat'[c] # 0
          PROVE  (\E i \in 1 .. n : ch[i] = c) \/ (\E j \in 1 .. m - 1 : tail[j] = c)
      <4>1. fat[c] # 0 /\ c # clst /\ faults = 0
        BY <1>8, <2>5, <3>2 DEF Owned
      <4>2. (\E i \in 1 .. n : ch[i] = c) \/ (\E j \in 1 .. m : rest[j] = c)
        BY <1>4, <4>1 DEF Counted
      <4> QED
        BY <2>1, <2>3, <4>1, <4>2
    <3> QED
      BY <3>1, <3>2 DEF Counted
  <2>10. Chained(n, ch, m - 1, tail)'
    BY <1>1, <1>4, <1>8, <2>1, <2>2, <2>3, <2>4, <2>9 DEF Chained
  <2>11. Pointer(n, ch)'
    BY <1>1, <1>4, <1>8 DEF Pointer
  <2>12. DirKnown'
    BY <1>1, <1>8 DEF DirKnown
  <2>13. Kept(n, ch, m - 1, tail)'
    BY <1>4, <1>8, <2>10, <2>11 DEF Kept
  <2> QED
    BY <1>1, <1>8, <2>12, <2>13, KeptIntro
<1>9. CASE /\ ~ (clst \in Clusters /\ fat[clst] # 0)
           /\ fp' = [fp EXCEPT !.dirty = FALSE] /\ pc' = "idle" /\ UNCHANGED <<fat, fs, faults>>
  <2>1. /\ fp'.sclust = fp.sclust /\ fp'.fsize = fp.fsize /\ fp'.written = fp.written
        /\ fp'.fptr = fp.fptr /\ fp'.clust = fp.clust
    BY <1>1, <1>9 DEF FileObject
  <2>2. m = 0
    BY <1>5, <1>6, <1>9
  <2> QED
    BY <1>7, <1>9, <2>1, <2>2
<1>10. CASE Fails /\ Abort /\ UNCHANGED <<fat, fs>>
  <2>1. /\ fp'.sclust = fp.sclust /\ fp'.fsize = fp.fsize /\ fp'.written = fp.written /\ fp'.err
        /\ pc' = "idle" /\ faults' = faults + 1
    BY <1>1, <1>10 DEF FileObject, Abort, Fails
  <2> QED
    BY <1>7, <1>10, <2>1
<1> QED
  BY <1>8, <1>9, <1>10 DEF remove_chain, Fault, WindowFault, End

\* f_sync, f_close and f_open.
LEMMA SyncKept ==
  ASSUME ApartInv, KeptInv, f_sync \/ \E w \in BOOLEAN : f_close_open(w)
  PROVE  KeptInv'
<1>0. /\ pc = "idle" /\ pc' = "idle" /\ UNCHANGED <<fat, fs>> /\ fp \in FileObject
      /\ faults' = faults \/ faults' = faults + 1
  BY Facts DEF f_sync, f_close_open, SyncFails, Fault, WindowFault, Fails
<1>n. PICK n \in Nat : \E ch, rest : Kept(n, ch, 0, rest)
  BY <1>0, KeptElim
<1>1. PICK ch, rest : Kept(n, ch, 0, rest)
  BY <1>n
<1>2. /\ Pointer(n, ch) /\ Run(fat, fp.sclust, n, ch) /\ fp.fsize <= n * bcs
      /\ Chained(n, ch, 0, rest) /\ faults \in Nat /\ DirKnown
  BY <1>0, <1>1, KeptElim DEF Kept, Chained
<1>9. ASSUME fp'.fsize <= n * bcs, fp'.sclust = fp.sclust, Pointer(n, ch)', DirKnown'
      PROVE  KeptInv'
  <2>1. Chained(n, ch, 0, rest)' /\ faults' \in Nat
    BY <1>0, <1>2, <1>9, ChainedSame
  <2>2. Kept(n, ch, 0, rest)'
    BY <1>9, <2>1 DEF Kept
  <2> QED
    BY <1>9, <2>1, <2>2, KeptIntro
<1>3. CASE SyncSucceeds \/ SyncFails
  <2>1. \/ fp' = fp /\ dir' = dir
        \/ fp' = [fp EXCEPT !.dirty = FALSE] /\ dir' = dir
        \/ fp' = [fp EXCEPT !.dirty = FALSE, !.written = FALSE] /\ dir' = Synced
    BY <1>3 DEF SyncSucceeds, SyncFails
  <2>2. /\ fp'.sclust = fp.sclust /\ fp'.fsize = fp.fsize /\ fp'.fptr = fp.fptr
        /\ fp'.clust = fp.clust /\ fp'.err = fp.err
        /\ \/ dir' = dir /\ fp'.written = fp.written
           \/ dir'.size = fp.fsize /\ dir'.sclust = fp.sclust
    <3>1. CASE fp' = fp /\ dir' = dir
      BY <3>1
    <3>2. CASE fp' = [fp EXCEPT !.dirty = FALSE] /\ dir' = dir
      BY <1>0, <3>2 DEF FileObject
    <3>3. CASE fp' = [fp EXCEPT !.dirty = FALSE, !.written = FALSE] /\ dir' = Synced
      BY <1>0, <3>3 DEF FileObject, Synced
    <3> QED
      BY <2>1, <3>1, <3>2, <3>3
  <2>3. Pointer(n, ch)'
    BY <1>0, <1>2, <2>2 DEF Pointer
  <2>4. DirKnown'
    BY <1>0, <1>2, <2>2 DEF DirKnown
  <2> QED
    BY <1>2, <1>9, <2>2, <2>3, <2>4
<1>4. ASSUME NEW w \in BOOLEAN, fp' = Reopened(dir', w),
             IF fp.written THEN dir' = Synced ELSE dir' = dir
      PROVE  KeptInv'
  <2>1. /\ fp' = Reopened(dir', w)
        /\ IF fp.written THEN dir' = Synced ELSE dir' = dir
    BY <1>4
  <2>2. /\ fp'.sclust = dir'.sclust /\ fp'.fsize = dir'.size /\ fp'.fptr = 0
    BY <1>0, <2>1 DEF FileObject, Reopened
  <2>3. DirKnown'
    BY <2>2 DEF DirKnown
  <2>4. CASE dir'.sclust = fp.sclust /\ dir'.size = fp.fsize
    <3>1. Pointer(n, ch)'
      BY <1>0, <2>2 DEF Pointer
    <3> QED
      BY <1>2, <1>9, <2>2, <2>3, <2>4, <3>1
  <2>5. CASE dir'.sclust = 0 /\ dir'.size = 0 /\ faults > 0
    <3> DEFINE none == [i \in 1 .. 0 |-> 0]
    <3>1. none \in [1 .. 0 -> Owned]
      OBVIOUS
    <3> HIDE DEF none
    <3>2. Run(fat', fp'.sclust, 0, none)
      BY <2>2, <2>5, <3>1, Constants DEF Run
    <3>3. Counted(0, none, 0, rest)'
      <4>1. Counted(n, ch, 0, rest)
        BY <1>2 DEF Chained
      <4>2. fs'.free \in Nat /\ Cardinality(Free(fat')) <= fs'.free /\ fs'.free + 0 + 0 <= n_fatent
        BY <1>0, <4>1, Constants DEF Counted
      <4>3. faults' # 0
        BY <1>0, <1>2, <2>5
      <4> QED
        BY <4>2, <4>3 DEF Counted
    <3>4. Chained(0, none, 0, rest)'
      BY <1>0, <1>2, <3>2, <3>3 DEF Chained
    <3>5. Pointer(0, none)'
      BY <1>0, <2>2 DEF Pointer
    <3>6. fp'.fsize <= 0 * bcs
      BY <2>2, <2>5, Constants
    <3>7. Kept(0, none, 0, rest)'
      BY <3>4, <3>5, <3>6 DEF Kept
    <3> QED
      BY <1>0, <1>2, <2>3, <3>7, KeptIntro
  <2>6. \/ dir'.sclust = fp.sclust /\ dir'.size = fp.fsize
        \/ dir'.sclust = 0 /\ dir'.size = 0 /\ faults > 0
    <3>1. CASE fp.written
      BY <2>1, <3>1 DEF Synced
    <3>2. CASE ~ fp.written
      BY <1>0, <1>2, <2>1, <3>2 DEF DirKnown
    <3> QED
      BY <3>1, <3>2
  <2> QED
    BY <2>4, <2>5, <2>6
<1>5. CASE f_sync
  BY <1>3, <1>5 DEF f_sync
<1>6. ASSUME NEW w \in BOOLEAN, f_close_open(w) PROVE KeptInv'
  <2>1. \/ /\ fp' = Reopened(dir', w)
           /\ IF fp.written THEN dir' = Synced ELSE dir' = dir
        \/ SyncFails
    BY <1>6 DEF f_close_open
  <2> QED
    BY <1>3, <1>4, <2>1
<1> QED
  BY <1>5, <1>6

\* Every step of every call keeps the chain.
LEMMA KeptStep == ApartInv /\ KeptInv /\ [Next]_vars => KeptInv'
<1> SUFFICES ASSUME ApartInv, KeptInv, [Next]_vars PROVE KeptInv'
  OBVIOUS
<1>1. ASSUME NEW n \in Lengths, f_read(n) PROVE KeptInv'
  BY <1>1, BeginKept DEF f_read
<1>2. ASSUME NEW n \in Lengths, f_write(n, 1 + (ops % 2)) PROVE KeptInv'
  BY <1>2, BeginKept DEF f_write
<1>3. ASSUME NEW ofs \in Offsets, f_lseek(ofs) PROVE KeptInv'
  BY <1>3, BeginKept DEF f_lseek
<1>4. CASE Steps
  BY <1>4, ReadKept, WriteKept, SeekKept, RemoveKept DEF Steps
<1>5. CASE f_truncate
  BY <1>5, TruncateKept
<1>6. CASE f_sync \/ \E w \in BOOLEAN : f_close_open(w)
  BY <1>6, SyncKept
<1>7. CASE UNCHANGED vars
  <2>1. UNCHANGED <<fat, fs, dir, fp, req, pc, clst, faults>>
    BY <1>7 DEF vars
  <2>2. PICK n \in 0 .. n_fatent, m \in 0 .. n_fatent :
          \E ch \in [1 .. n -> Owned], rest \in [1 .. m -> Owned] : Kept(n, ch, m, rest)
    BY DEF KeptInv
  <2>3. PICK ch, rest : Kept(n, ch, m, rest)
    BY <2>2
  <2>4. Kept(n, ch, m, rest)'
    BY <2>1, <2>3 DEF Kept, Chained, Counted, Pointer, OnSector
  <2>5. DirKnown' /\ faults' \in Nat
    BY <2>1 DEF KeptInv, DirKnown
  <2> QED
    BY <2>4, <2>5, KeptIntro
<1> QED
  BY <1>1, <1>2, <1>3, <1>4, <1>5, <1>6, <1>7 DEF Next, Calls

\* The clusters of a chain and the free ones are not more than the FAT has.
LEMMA RunCounts ==
  ASSUME NEW f \in [Clusters -> Values], NEW a, NEW n, NEW ch, Run(f, a, n, ch)
  PROVE  Cardinality(Free(f)) + n <= n_fatent
<1> DEFINE used == Clusters \ Free(f)
<1>1. IsFiniteSet(Clusters) /\ Cardinality(Clusters) <= n_fatent /\ Cardinality(Clusters) \in Nat
  <2>1. 2 \in Int /\ n_fatent - 1 \in Int
    BY Constants
  <2>2. /\ IsFiniteSet(2 .. n_fatent - 1)
        /\ Cardinality(2 .. n_fatent - 1) = IF 2 > n_fatent - 1 THEN 0 ELSE n_fatent - 1 - 2 + 1
    BY <2>1, FS_Interval
  <2>3. IsFiniteSet(Clusters) /\ Cardinality(Clusters) = IF n_fatent < 3 THEN 0 ELSE n_fatent - 2
    BY <2>2, Constants DEF Clusters
  <2> QED
    BY <2>3, Constants
<1>2. used \in SUBSET Clusters /\ Free(f) \in SUBSET Clusters /\ used \cap Free(f) = {}
  BY DEF Free
<1>3. IsFiniteSet(used) /\ Cardinality(used) \in Nat
  BY <1>1, <1>2, FS_Subset, FS_CardinalityType
<1>4. n \in Nat /\ IsFiniteSet(1 .. n) /\ Cardinality(1 .. n) = n
  <2>1. n \in Nat /\ 1 \in Int /\ n \in Int
    BY DEF Run
  <2> QED
    BY <2>1, FS_Interval
<1>5. ch \in Injection(1 .. n, used)
  <2>1. \A i \in 1 .. n : ch[i] \in used
    BY RunUsed DEF Free
  <2>2. ch \in [1 .. n -> used]
    <3> HIDE DEF used
    <3> QED
      BY <2>1 DEF Run
  <2>3. IsInjective(ch)
    BY DEF Run, IsInjective
  <2> QED
    BY <2>2, <2>3 DEF Injection
<1> HIDE DEF used
<1>6. n <= Cardinality(used)
  BY <1>3, <1>4, <1>5, FS_Injection
<1>7. ~ (Cardinality(used) + Cardinality(Free(f)) > Cardinality(Clusters))
  BY <1>1, <1>2, FS_MajoritiesIntersect
<1>8. Cardinality(Free(f)) \in Nat
  BY FreeCount
<1> QED
  BY <1>1, <1>3, <1>4, <1>6, <1>7, <1>8, Constants

\* The first state: the file's clusters are linked in order, and the rest is free.
LEMMA KeptInit == Init => KeptInv
<1> SUFFICES ASSUME Init PROVE KeptInv
  OBVIOUS
<1>0. PICK size \in Sizes, w \in BOOLEAN : \E own \in FirstChains(size) :
        LET start == IF DOMAIN own = {} THEN 0 ELSE own[1]
        IN  /\ fat = [c \in Clusters |->
                        CASE c \in Taken -> EOC
                          [] c \in Range(own) -> LinkIn(own, c)
                          [] OTHER -> 0]
            /\ dir = [size |-> size, sclust |-> start]
            /\ fs = [last |-> 0, free |-> Cardinality(Free(fat))]
            /\ fp = [fptr |-> 0, fsize |-> size, clust |-> 0, sclust |-> start, dsect |-> 0,
                     buf |-> Filled(0), dirty |-> FALSE, written |-> FALSE,
                     err |-> FALSE, write |-> w]
  BY DEF Init
<1>1. PICK own \in FirstChains(size) :
        LET start == IF DOMAIN own = {} THEN 0 ELSE own[1]
        IN  /\ fat = [c \in Clusters |->
                        CASE c \in Taken -> EOC
                          [] c \in Range(own) -> LinkIn(own, c)
                          [] OTHER -> 0]
            /\ dir = [size |-> size, sclust |-> start]
            /\ fs = [last |-> 0, free |-> Cardinality(Free(fat))]
            /\ fp = [fptr |-> 0, fsize |-> size, clust |-> 0, sclust |-> start, dsect |-> 0,
                     buf |-> Filled(0), dirty |-> FALSE, written |-> FALSE,
                     err |-> FALSE, write |-> w]
  BY <1>0
<1> DEFINE n == (size + bcs - 1) \div bcs
<1>2. size \in Nat
  BY FatFileAssumption
<1>3. n \in Nat /\ size <= n * bcs
  <2>1. size + bcs - 1 \in Nat
    BY <1>2, Constants
  <2>2. n \in Nat /\ size + bcs - 1 < n * bcs + bcs /\ n * bcs \in Nat
    BY <2>1, Constants
  <2> HIDE DEF n
  <2> QED
    BY <1>2, <2>2, Constants
<1>4. /\ own \in [1 .. n -> Owned]
      /\ \A i, j \in 1 .. n : i < j => own[i] < own[j]
  BY DEF FirstChains, Owned
<1> HIDE DEF n
<1>5. fat \in [Clusters -> Values] /\ pc = "idle" /\ faults = 0
  BY ApartInit, FatFacts DEF Init
<1>6. \A i, j \in 1 .. n : own[i] = own[j] => i = j
  <2> SUFFICES ASSUME NEW i \in 1 .. n, NEW j \in 1 .. n, own[i] = own[j], i # j PROVE FALSE
    OBVIOUS
  <2>1. own[i] \in Nat /\ own[j] \in Nat
    BY <1>4, NotTaken
  <2>2. i < j \/ j < i
    BY <1>3
  <2> QED
    BY <1>4, <2>1, <2>2
<1>7. ASSUME NEW i \in 1 .. n PROVE LinkIn(own, own[i]) = IF i = n THEN EOC ELSE own[i + 1]
  <2> DEFINE at == CHOOSE x \in DOMAIN own : own[x] = own[i]
  <2>1. at \in DOMAIN own /\ own[at] = own[i]
    BY <1>4, Zenon
  <2>2. at = i
    BY <1>4, <1>6, <2>1
  <2>3. LinkIn(own, own[i]) = IF at + 1 \in DOMAIN own THEN own[at + 1] ELSE EOC
    BY DEF LinkIn
  <2> HIDE DEF at
  <2>4. i + 1 \in DOMAIN own <=> i # n
    BY <1>3, <1>4
  <2> QED
    BY <2>2, <2>3, <2>4
<1>8. ASSUME NEW c \in Clusters
      PROVE  /\ c \notin Taken /\ c \in Range(own) => fat[c] = LinkIn(own, c)
             /\ c \notin Taken /\ c \notin Range(own) => fat[c] = 0
  <2>1. fat[c] = CASE c \in Taken -> EOC
                   [] c \in Range(own) -> LinkIn(own, c)
                   [] OTHER -> 0
    BY <1>1
  <2>2. c \in Range(own) => c \notin Taken
    BY <1>4 DEF Range, Owned
  <2> QED
    BY <2>1, <2>2
<1>9. \A i \in 1 .. n : /\ own[i] \in Clusters /\ own[i] \notin Taken /\ own[i] \in Range(own)
  BY <1>4 DEF Range, Owned
<1>10. \A i \in 1 .. n : fat[own[i]] = IF i = n THEN EOC ELSE own[i + 1]
  BY <1>7, <1>8, <1>9
<1>11. /\ fp.fptr = 0 /\ fp.fsize = size /\ ~ fp.err /\ ~ fp.written
       /\ fp.sclust = IF n = 0 THEN 0 ELSE own[1]
       /\ dir.size = size /\ dir.sclust = fp.sclust /\ fs.free = Cardinality(Free(fat))
  <2>1. DOMAIN own = {} <=> n = 0
    BY <1>3, <1>4
  <2> QED
    BY <1>1, <2>1
<1>12. Run(fat, fp.sclust, n, own)
  <2>1. IF n = 0 THEN fp.sclust \notin Clusters ELSE fp.sclust = own[1]
    BY <1>11, Constants
  <2> QED
    BY <1>3, <1>4, <1>6, <1>10, <2>1 DEF Run
<1>13. Cardinality(Free(fat)) \in Nat /\ Cardinality(Free(fat)) + n <= n_fatent
  BY <1>5, <1>12, FreeCount, RunCounts
<1> DEFINE none == [i \in 1 .. 0 |-> 0]
<1>14. none \in [1 .. 0 -> Owned]
  OBVIOUS
<1> HIDE DEF none
<1>15. Counted(n, own, 0, none)
  <2>1. fs.free + n + 0 <= n_fatent
    BY <1>3, <1>11, <1>13, Constants
  <2>2. \A c \in Owned : fat[c] # 0 => \E i \in 1 .. n : own[i] = c
    BY <1>4, <1>8 DEF Owned, Range
  <2> QED
    BY <1>11, <1>13, <2>1, <2>2 DEF Counted
<1>16. Kept(n, own, 0, none)
  <2>1. Chained(n, own, 0, none)
    BY <1>5, <1>12, <1>14, <1>15 DEF Chained
  <2>2. Pointer(n, own)
    BY <1>5, <1>11 DEF Pointer
  <2> QED
    BY <1>3, <1>11, <2>1, <2>2 DEF Kept
<1>17. n \in 0 .. n_fatent /\ 0 \in 0 .. n_fatent
  BY <1>3, <1>13, Constants
<1>18. DirKnown
  BY <1>11 DEF DirKnown
<1> QED
  BY <1>4, <1>5, <1>14, <1>16, <1>17, <1>18 DEF KeptInv

\* The recursive chain of the model runs through the same clusters.
LEMMA ChainIsRun ==
  ASSUME ApartInv, NEW n \in 0 .. n_fatent, NEW ch, Run(fat, fp.sclust, n, ch)
  PROVE  ChainClusters = {ch[i] : i \in 1 .. n}
<1>1. /\ n \in Nat /\ ch \in [1 .. n -> Owned]
      /\ \A i \in 1 .. n : ch[i] \in Clusters
      /\ \A i \in 1 .. n : fat[ch[i]] = IF i = n THEN EOC ELSE ch[i + 1]
  BY RunUsed DEF Run
<1>2. ASSUME NEW i \in 1 .. n PROVE Chain[i - 1] = ch[i]
  <2> SUFFICES ASSUME Chain[i - 1] # ch[i] PROVE FALSE
    OBVIOUS
  <2> DEFINE T == {j \in 1 .. n : Chain[j - 1] # ch[j]}
  <2>1. T \in SUBSET Nat /\ T # {}
    OBVIOUS
  <2>2. PICK j \in T : \A q \in T : j <= q
    BY <2>1, LeastNumber
  <2>3. j \in 1 .. n /\ Chain[j - 1] # ch[j] /\ j - 1 \in 0 .. n_fatent
    BY <2>2, Constants
  <2>4. CASE j = 1
    BY <2>3, <2>4, ChainUnfolds DEF Run
  <2>5. CASE j # 1
    <3>1. j - 1 \in 1 .. n /\ j - 1 \notin T /\ j - 1 # n /\ j - 1 # 0
      BY <2>2, <2>3, <2>5
    <3>2. Chain[j - 1 - 1] = ch[j - 1]
      BY <3>1
    <3>3. Link(ch[j - 1]) = ch[j - 1 + 1] /\ j - 1 + 1 = j
      BY <1>1, <2>3, <3>1 DEF Link
    <3>4. Chain[j - 1] = Link(Chain[j - 1 - 1])
      BY <2>3, <3>1, ChainUnfolds
    <3> QED
      BY <2>3, <3>2, <3>3, <3>4
  <2> QED
    BY <2>4, <2>5
<1>3. ASSUME NEW i \in 0 .. n_fatent, Chain[i] \in Clusters
      PROVE  \E j \in 1 .. n : Chain[i] = ch[j]
  <2> DEFINE T == {q \in 0 .. n_fatent :
                     Chain[q] \in Clusters /\ ~ \E j \in 1 .. n : Chain[q] = ch[j]}
  <2> SUFFICES ASSUME i \in T PROVE FALSE
    BY <1>3
  <2>1. T \in SUBSET Nat /\ T # {}
    BY Constants
  <2>2. PICK p \in T : \A q \in T : p <= q
    BY <2>1, LeastNumber
  <2>3. p \in 0 .. n_fatent /\ Chain[p] \in Clusters /\ ~ \E j \in 1 .. n : Chain[p] = ch[j]
    BY <2>2
  <2>4. CASE p = 0
    <3>1. Chain[0] = fp.sclust
      BY <2>3, <2>4, ChainUnfolds
    <3>2. n # 0 /\ fp.sclust = ch[1]
      BY <2>3, <2>4, <3>1 DEF Run
    <3> QED
      BY <1>1, <2>3, <2>4, <3>1, <3>2
  <2>5. CASE p # 0
    <3>1. p - 1 \in 0 .. n_fatent /\ p - 1 \notin T
      BY <2>2, <2>3, <2>5, Constants
    <3>2. Chain[p] = Link(Chain[p - 1])
      BY <2>3, <2>5, ChainUnfolds
    <3>3. Chain[p - 1] \in Clusters
      BY <2>3, <3>2, Constants DEF Link
    <3>4. PICK j \in 1 .. n : Chain[p - 1] = ch[j]
      BY <3>1, <3>3
    <3>5. Chain[p] = IF j = n THEN EOC ELSE ch[j + 1]
      BY <1>1, <3>2, <3>4 DEF Link
    <3>6. j # n
      BY <2>3, <3>5, Constants
    <3>7. j + 1 \in 1 .. n
      BY <1>1, <3>6
    <3> QED
      BY <2>3, <3>5, <3>6, <3>7
  <2> QED
    BY <2>4, <2>5
<1>4. \A i \in 1 .. n : i - 1 \in 0 .. n_fatent
  BY Constants
<1> QED
  BY <1>1, <1>2, <1>3, <1>4 DEF ChainClusters

\* Whatever calls are made, and whatever disk accesses of them fail, the chain of the file is
\* finite and without a loop, the size is within it, and the clusters and sectors of other
\* files stay as they are, until a failed access tears the window; and as long as no disk
\* access failed, between two calls every cluster is free, in the file or in another one, and
\* free_clust is the number of free ones
\* (create_chain, remove_chain, f_write, f_lseek, f_truncate, f_close, f_open).
THEOREM NoClusterLost == Spec => []ClustersKept
<1>1. ApartInv /\ KeptInv => ClustersKept
  <2> SUFFICES ASSUME ApartInv, KeptInv PROVE ClustersKept
    OBVIOUS
  <2>1. PICK n \in 0 .. n_fatent, m \in 0 .. n_fatent :
          \E ch \in [1 .. n -> Owned], rest \in [1 .. m -> Owned] : Kept(n, ch, m, rest)
    BY DEF KeptInv
  <2>2. PICK ch \in [1 .. n -> Owned], rest \in [1 .. m -> Owned] : Kept(n, ch, m, rest)
    BY <2>1
  <2>3. /\ Run(fat, fp.sclust, n, ch) /\ fp.fsize <= n * bcs /\ Counted(n, ch, m, rest)
        /\ pc # "remove" => m = 0
    BY <2>2 DEF Kept, Chained
  <2>4. TypeOK
    <3>1. n * bcs \in Nat /\ n_fatent * bcs \in Nat /\ n * bcs <= n_fatent * bcs
      BY MultMono, Constants
    <3>2. fp.fptr \in Nat /\ fp.fsize \in 0 .. n_fatent * bcs
      BY <2>3, <3>1, Facts
    <3>3. fat \in [Clusters -> {0} \cup Clusters \cup {EOC}] /\ fp.sclust \in {0} \cup Clusters
      BY Facts, FatFacts DEF Values, Owned
    <3>4. fp.dsect \in {0} \cup DOMAIN disk
      BY Facts DEF CacheSectors, DiskApart
    <3>5. fs.free \in 0 .. n_fatent
      BY <2>3, Constants DEF Counted
    <3>6. pc \in {"idle", "read", "rsect", "rcopy", "write", "wflush", "wsect", "wcopy",
                  "seek", "sloop", "sfill", "remove"}
      BY DEF ApartInv, ClusterKnown
    <3> QED
      BY <3>2, <3>3, <3>4, <3>5, <3>6 DEF TypeOK
  <2>5. OthersUntouched
    <3>1. \A c \in Taken : fat[c] = EOC
      BY Facts DEF Apart
    <3>2. \A c \in Taken : \A s \in SectorsOf(c) : disk[s] = Filled(0)
      BY Facts DEF DiskApart, TakenSectors
    <3> QED
      BY <3>1, <3>2, ChainOwned DEF OthersUntouched
  <2>6. ASSUME faults = 0, pc = "idle" PROVE NoneLost
    <3>1. ChainClusters = {ch[i] : i \in 1 .. n}
      BY <2>3, ChainIsRun
    <3>2. m = 0 /\ fs.free = Cardinality(Free(fat))
      BY <2>3, <2>6 DEF Counted
    <3>3. ASSUME NEW c \in Clusters
          PROVE  fat[c] = 0 <=> c \notin Taken /\ c \notin ChainClusters
      <4>1. CASE c \in Taken
        <5>1. fat[c] = EOC /\ EOC # 0
          BY <4>1, Facts, Constants DEF Apart, Clusters, EOC
        <5> QED
          BY <4>1, <5>1
      <4>2. CASE c \notin Taken
        <5>1. c \in Owned
          BY <4>2 DEF Owned
        <5>2. c \in ChainClusters => fat[c] # 0
          BY <2>3, <3>1, RunUsed
        <5>3. fat[c] # 0 => c \in ChainClusters
          BY <2>3, <2>6, <3>1, <3>2, <5>1 DEF Counted
        <5> QED
          BY <4>2, <5>2, <5>3
      <4> QED
        BY <4>1, <4>2
    <3>4. Free(fat) = Clusters \ (Taken \cup ChainClusters)
      BY <3>3 DEF Free
    <3> QED
      BY <3>2, <3>4 DEF NoneLost
  <2> QED
    BY <2>4, <2>5, <2>6 DEF ClustersKept
<1> QED
  BY <1>1, ApartInit, ApartStep, KeptInit, KeptStep, PTL DEF Spec

-----------------------------------------------------------------------------
(* The sectors of a file, counted from its start.                          *)

\* A quotient and a remainder are the only ones.
LEMMA DivOf ==
  ASSUME NEW m \in Nat, m > 0, NEW q \in Nat, NEW r \in Nat, r < m
  PROVE  q * m \in Nat /\ (q * m + r) \div m = q /\ (q * m + r) % m = r
<1>1. q * m \in Nat
  OBVIOUS
<1>2. (q * m + r) % m = r
  BY <1>1
<1> DEFINE j == (q * m + r) \div m
<1>3. j \in Nat /\ j * m \in Nat /\ j * m <= q * m + r /\ q * m + r < j * m + m
  BY <1>1
<1> HIDE DEF j
<1>4. ~ (j >= q + 1)
  <2> SUFFICES ASSUME j >= q + 1 PROVE FALSE
    OBVIOUS
  <2>1. (q + 1) * m <= j * m
    BY <1>3, MultMono
  <2>2. (q + 1) * m = q * m + m
    OBVIOUS
  <2> QED
    BY <1>1, <1>3, <2>1, <2>2
<1>5. ~ (q >= j + 1)
  <2> SUFFICES ASSUME q >= j + 1 PROVE FALSE
    OBVIOUS
  <2>1. (j + 1) * m <= q * m
    BY <1>3, MultMono
  <2>2. (j + 1) * m = j * m + m
    BY <1>3
  <2> QED
    BY <1>1, <1>3, <2>1, <2>2
<1> QED
  BY <1>1, <1>2, <1>3, <1>4, <1>5 DEF j

\* Every number has them.
LEMMA Split ==
  ASSUME NEW m \in Nat, m > 0, NEW p \in Nat
  PROVE  \E q \in Nat, r \in Nat :
            r < m /\ q * m \in Nat /\ p = q * m + r /\ p \div m = q /\ p % m = r
<1> DEFINE q == p \div m
           r == p - q * m
<1>1. q \in Nat /\ q * m \in Nat /\ q * m <= p /\ p < q * m + m
  OBVIOUS
<1> HIDE DEF q
<1>2. r \in Nat /\ r < m /\ p = q * m + r
  BY <1>1
<1> HIDE DEF r
<1>3. p \div m = q /\ p % m = r
  BY <1>1, <1>2, DivOf
<1> QED
  BY <1>1, <1>2, <1>3

\* The cluster and the sector in it that a byte is in, by its sector in the file.
LEMMA PositionSplit ==
  ASSUME NEW i \in Nat
  PROVE  /\ i \div SS \in Nat /\ i % SS \in Nat /\ i % SS < SS
         /\ i \div bcs = (i \div SS) \div csize /\ (i % bcs) \div SS = (i \div SS) % csize
         /\ i \div bcs \in Nat /\ (i \div SS) % csize \in Nat /\ (i \div SS) % csize < csize
<1>1. PICK q \in Nat, o \in Nat :
        o < SS /\ q * SS \in Nat /\ i = q * SS + o /\ i \div SS = q /\ i % SS = o
  BY SectorSplit
<1>2. PICK k \in Nat, r \in Nat :
        r < csize /\ k * csize \in Nat /\ q = k * csize + r /\ q \div csize = k /\ q % csize = r
  BY <1>1, Split, Constants
<1>3. r * SS \in Nat /\ (r + 1) * SS <= csize * SS /\ (r + 1) * SS = r * SS + SS
  BY <1>2, MultMono, Constants
<1>4. PICK x \in Nat : x = r * SS + o
  BY <1>1, <1>3
<1>5. x < bcs
  BY <1>1, <1>3, <1>4, Constants
<1>6. i = k * bcs + x /\ k * bcs \in Nat
  <2>1. q * SS = (k * csize) * SS + r * SS
    BY <1>1, <1>2, <1>3, Constants
  <2>2. (k * csize) * SS = k * bcs /\ k * bcs \in Nat
    BY <1>2, Constants
  <2> QED
    BY <1>1, <1>3, <1>4, <2>1, <2>2
<1>7. i \div bcs = k /\ i % bcs = x
  BY <1>2, <1>5, <1>6, DivOf, Constants
<1>8. x \div SS = r
  BY <1>1, <1>2, <1>4, DivOf, Constants
<1> QED
  BY <1>1, <1>2, <1>7, <1>8

\* The sector of the disk that holds the q-th sector of a file whose chain is ch.
FileSector(ch, q) == clust2sect(ch[(q \div csize) + 1]) + (q % csize)

\* A byte in the first n clusters is in one of their sectors.
LEMMA InChain ==
  ASSUME NEW i \in Nat, NEW n \in Nat, i < n * bcs
  PROVE  i \div bcs < n /\ (i \div SS) \div csize < n /\ i \div SS < n * csize
<1>1. PICK k \in Nat, x \in Nat : x < bcs /\ k * bcs \in Nat /\ i = k * bcs + x /\ i \div bcs = k
  BY Split, Constants
<1>2. k < n
  <2> SUFFICES ASSUME k >= n PROVE FALSE
    BY <1>1
  <2>1. n * bcs <= k * bcs /\ n * bcs \in Nat
    BY <1>1, MultMono, Constants
  <2> QED
    BY <1>1, <2>1
<1>3. PICK q \in Nat, o \in Nat : q * SS \in Nat /\ i = q * SS + o /\ i \div SS = q
  BY SectorSplit
<1>4. q < n * csize
  <2>1. n * csize \in Nat /\ n * bcs = (n * csize) * SS
    BY Constants
  <2> SUFFICES ASSUME q >= n * csize PROVE FALSE
    BY <1>3, <2>1
  <2>2. (n * csize) * SS <= q * SS /\ (n * csize) * SS \in Nat
    BY <1>3, <2>1, MultMono, Constants
  <2> QED
    BY <1>3, <2>1, <2>2
<1> QED
  BY <1>1, <1>2, <1>3, <1>4, PositionSplit

\* Different sectors of a file are different sectors of the disk, all its own.
LEMMA SectorsApart ==
  ASSUME NEW f, NEW a, NEW n, NEW ch, Run(f, a, n, ch),
         NEW q \in Nat, q < n * csize
  PROVE  /\ FileSector(ch, q) \in Disk /\ FileSector(ch, q) \notin TakenSectors
         /\ FileSector(ch, q) \in Nat /\ FileSector(ch, q) # 0
         /\ \A p \in Nat : p < n * csize /\ FileSector(ch, p) = FileSector(ch, q) => p = q
<1>1. n \in Nat /\ ch \in [1 .. n -> Owned] /\ \A i, j \in 1 .. n : ch[i] = ch[j] => i = j
  BY DEF Run
<1>2. ASSUME NEW p \in Nat, p < n * csize
      PROVE  \E k \in 1 .. n, r \in Nat :
               /\ r < csize /\ p = (k - 1) * csize + r /\ (k - 1) * csize \in Nat
               /\ FileSector(ch, p) = clust2sect(ch[k]) + r
               /\ FileSector(ch, p) \in SectorsOf(ch[k]) /\ ch[k] \in Owned
  <2>1. PICK j \in Nat, r \in Nat :
          r < csize /\ j * csize \in Nat /\ p = j * csize + r /\ p \div csize = j /\ p % csize = r
    BY Split, Constants
  <2>2. j < n
    <3> SUFFICES ASSUME j >= n PROVE FALSE
      BY <1>1, <2>1
    <3>1. n * csize <= j * csize /\ n * csize \in Nat
      BY <1>1, <2>1, MultMono, Constants
    <3> QED
      BY <1>2, <2>1, <3>1
  <2>3. PICK k \in 1 .. n : k = j + 1 /\ k - 1 = j
    BY <1>1, <2>1, <2>2
  <2>4. FileSector(ch, p) = clust2sect(ch[k]) + r
    BY <2>1, <2>3 DEF FileSector
  <2>5. ch[k] \in Owned /\ ch[k] \in Clusters
    BY <1>1, <2>3 DEF Owned
  <2>6. clust2sect(ch[k]) + r \in SectorsOf(ch[k])
    BY <2>1, <2>5, SectorsOnDisk
  <2> QED
    BY <2>1, <2>3, <2>4, <2>5, <2>6
<1>3. PICK k \in 1 .. n, r \in Nat :
         /\ r < csize /\ q = (k - 1) * csize + r /\ (k - 1) * csize \in Nat
         /\ FileSector(ch, q) = clust2sect(ch[k]) + r
         /\ FileSector(ch, q) \in SectorsOf(ch[k]) /\ ch[k] \in Owned
  BY <1>2
<1>4. FileSector(ch, q) \in Disk /\ FileSector(ch, q) \notin TakenSectors
  BY <1>3, NotTaken
<1>5. clust2sect(ch[k]) \in Nat /\ clust2sect(ch[k]) > 0
  BY <1>3, NotTaken, SectorsOnDisk
<1>6. ASSUME NEW p \in Nat, p < n * csize, FileSector(ch, p) = FileSector(ch, q)
      PROVE  p = q
  <2>1. PICK j \in 1 .. n, s \in Nat :
           /\ s < csize /\ p = (j - 1) * csize + s /\ (j - 1) * csize \in Nat
           /\ FileSector(ch, p) = clust2sect(ch[j]) + s
           /\ FileSector(ch, p) \in SectorsOf(ch[j]) /\ ch[j] \in Owned
    BY <1>2, <1>6
  <2>2. ch[j] = ch[k]
    BY <1>3, <1>6, <2>1, SectorsDisjoint, NotTaken
  <2>3. j = k
    BY <1>1, <2>2
  <2> QED
    BY <1>3, <1>5, <1>6, <2>1, <2>3
<1> QED
  BY <1>3, <1>4, <1>5, <1>6

\* Sectors of one cluster follow each other on the disk.
LEMMA SectorsFollow ==
  ASSUME NEW ch, NEW q \in Nat, NEW y \in Nat, (q % csize) + y < csize, 
         clust2sect(ch[(q \div csize) + 1]) \in Nat
  PROVE  FileSector(ch, q + y) = FileSector(ch, q) + y
<1>1. PICK k \in Nat, r \in Nat :
        r < csize /\ k * csize \in Nat /\ q = k * csize + r /\ q \div csize = k /\ q % csize = r
  BY Split, Constants
<1>2. r + y \in Nat /\ r + y < csize /\ q + y = k * csize + (r + y)
  BY <1>1
<1>3. (q + y) \div csize = k /\ (q + y) % csize = r + y
  BY <1>1, <1>2, DivOf, Constants
<1> QED
  BY <1>1, <1>3 DEF FileSector
\* The recursive chain of the model runs through the clusters of the file.
LEMMA ChainNth ==
  ASSUME NEW n \in 0 .. n_fatent, NEW ch, Run(fat, fp.sclust, n, ch), NEW i \in 1 .. n
  PROVE  Chain[i - 1] = ch[i]
<1>1. /\ n \in Nat /\ ch \in [1 .. n -> Owned]
      /\ \A j \in 1 .. n : ch[j] \in Clusters
      /\ \A j \in 1 .. n : fat[ch[j]] = IF j = n THEN EOC ELSE ch[j + 1]
  BY RunUsed DEF Run
<1> SUFFICES ASSUME Chain[i - 1] # ch[i] PROVE FALSE
  OBVIOUS
<1> DEFINE T == {j \in 1 .. n : Chain[j - 1] # ch[j]}
<1>2. T \in SUBSET Nat /\ T # {}
  OBVIOUS
<1>3. PICK j \in T : \A q \in T : j <= q
  BY <1>2, LeastNumber
<1>4. j \in 1 .. n /\ Chain[j - 1] # ch[j] /\ j - 1 \in 0 .. n_fatent
  BY <1>3, Constants
<1>5. CASE j = 1
  BY <1>4, <1>5, ChainUnfolds DEF Run
<1>6. CASE j # 1
  <2>1. j - 1 \in 1 .. n /\ j - 1 \notin T /\ j - 1 # n /\ j - 1 # 0
    BY <1>3, <1>4, <1>6
  <2>2. Chain[j - 1 - 1] = ch[j - 1]
    BY <2>1
  <2>3. Link(ch[j - 1]) = ch[j - 1 + 1] /\ j - 1 + 1 = j
    BY <1>1, <1>4, <2>1 DEF Link
  <2>4. Chain[j - 1] = Link(Chain[j - 1 - 1])
    BY <1>4, <2>1, ChainUnfolds
  <2> QED
    BY <1>4, <2>2, <2>3, <2>4
<1> QED
  BY <1>5, <1>6

\* The bytes of a file are those of the sectors of its chain, in the cache or on the disk.
BytesOfChain ==
  \A n \in 0 .. n_fatent : \A ch :
    Run(fat, fp.sclust, n, ch) =>
      \A i \in Nat : i < n * bcs =>
         ByteAt(i) = SectorNow(FileSector(ch, i \div SS))[(i % SS) + 1]

\* They are, in every state.
LEMMA BytesAre == BytesOfChain
<1> SUFFICES ASSUME NEW n \in 0 .. n_fatent, NEW ch, Run(fat, fp.sclust, n, ch),
                    NEW i \in Nat, i < n * bcs
             PROVE  ByteAt(i) = SectorNow(FileSector(ch, i \div SS))[(i % SS) + 1]
  BY DEF BytesOfChain
<1>1. PICK k \in Nat : k = i \div bcs /\ k < n /\ k + 1 \in 1 .. n
  BY InChain, PositionSplit, Constants
<1>2. Chain[k] = ch[k + 1]
  <2>1. Chain[k + 1 - 1] = ch[k + 1] /\ k + 1 - 1 = k
    BY <1>1, ChainNth
  <2> QED
    BY <2>1
<1>3. k = (i \div SS) \div csize /\ (i % bcs) \div SS = (i \div SS) % csize
  BY <1>1, PositionSplit
<1> QED
  BY <1>1, <1>2, <1>3 DEF ByteAt, FileSector

\* They are, in the state after a step.
LEMMA BytesAreNext == BytesOfChain'
BY BytesAre, PTL

-----------------------------------------------------------------------------
(* The bytes of the file.                                                  *)

\* The call that runs is the one the file object is used for.
CallAgrees ==
  /\ pc \in {"idle", "remove"} => req = NoReq
  /\ pc \in {"read", "rsect", "rcopy"} => req.op = "read"
  /\ pc \in {"write", "wflush", "wsect", "wcopy"} => req.op = "write"
  /\ pc \in {"seek", "sloop", "sfill"} => req.op = "seek"

\* The pointer is in the file between two calls, and a read ends in the file.
Within ==
  /\ pc \in {"idle", "remove", "seek"} => fp.fptr <= fp.fsize
  /\ pc \in {"read", "rsect", "rcopy"} => req.left >= 0 /\ fp.fptr + req.left <= fp.fsize
  /\ pc = "rsect" => fp.clust \in Owned

\* Bytes that are only in the cache are the file's and will be written back; a clean cache
\* holds what is on the disk, except for a new sector whose bytes are not in the file yet;
\* and the cache has the pointer's sector whenever a part of that sector is used.
Cached ==
  /\ fp.dirty => fp.dsect # 0 /\ (fp.written \/ req.op = "write")
  /\ pc = "wsect" => ~ fp.dirty
  /\ ~ fp.dirty /\ fp.dsect # 0 /\ ~ (pc = "wcopy" /\ OnSector /\ fp.fptr >= fp.fsize) =>
       fp.buf = disk[fp.dsect]
  /\ pc \in {"idle", "read", "write", "seek", "remove"} /\ ~ OnSector => fp.dsect = sect
  /\ pc \in {"rcopy", "wcopy"} => fp.dsect = sect

\* A seek arrives at its goal, or stops before one past the end on a full disk.
Seeks ==
  /\ pc = "sloop" =>
       \/ fp.fptr + req.left = Clipped
       \/ /\ req.left <= bcs /\ fp.write /\ fp.fptr + req.left <= Clipped
          /\ Clipped > fp.fsize
  /\ pc = "sfill" => \/ fp.fptr = Clipped
                     \/ fp.write /\ fp.fptr <= Clipped /\ Clipped > fp.fsize
  /\ pc = "sfill" /\ ~ OnSector => clust2sect(clst) + (req.left \div SS) = sect

\* What the bytes of the file depend on, as long as no disk access failed.
ByteInv == faults = 0 => ~ fp.err /\ CallAgrees /\ Within /\ Cached /\ Seeks

\* All that is invariant.
FileInv == ApartInv /\ KeptInv /\ ByteInv

\* Every byte of the file is in its chain.
LEMMA FileFits ==
  ASSUME ApartInv, ByteInv, faults = 0, NEW n \in Nat, NEW ch, NEW m, NEW rest,
         Kept(n, ch, m, rest)
  PROVE  /\ n \in 0 .. n_fatent /\ Run(fat, fp.sclust, n, ch)
         /\ Size \in Nat /\ Size <= n * bcs /\ n * bcs \in Nat
<1>1. Run(fat, fp.sclust, n, ch) /\ fp.fsize <= n * bcs /\ Pointer(n, ch)
  BY DEF Kept, Chained
<1>2. n \in 0 .. n_fatent
  <2>1. m \in Nat /\ fs.free \in Nat /\ fs.free + n + m <= n_fatent
    BY DEF Kept, Chained, Counted
  <2> QED
    BY <2>1, Constants
<1>3. fp.fptr \in Nat /\ fp.fsize \in Nat /\ n * bcs \in Nat /\ Size \in Nat
  BY Facts, Constants DEF Size
<1>4. ASSUME Writing, fp.fptr > fp.fsize PROVE fp.fptr <= n * bcs
  <2>1. pc \in {"write", "wflush", "wsect", "wcopy"}
    BY <1>4 DEF ByteInv, CallAgrees, Writing, ApartInv, ClusterKnown, NoReq
  <2>2. PICK k \in 1 .. n : fp.fptr <= k * bcs
    <3>1. CASE pc = "write"
      BY <1>1, <1>3, <1>4, <3>1 DEF Pointer, ByteInv
    <3>2. CASE pc # "write"
      <4>1. fp.clust \in Owned
        BY <2>1, <3>2 DEF ApartInv, ClusterKnown
      <4>2. PICK k \in 1 .. n : fp.fptr < k * bcs
        BY <1>1, <2>1, <3>2, <4>1 DEF Pointer
      <4>3. k * bcs \in Nat
        BY Constants
      <4> QED
        BY <1>3, <4>2, <4>3
    <3> QED
      BY <3>1, <3>2
  <2>3. k * bcs <= n * bcs /\ k * bcs \in Nat
    BY MultMono, Constants
  <2> QED
    BY <1>3, <2>2, <2>3
<1> QED
  BY <1>1, <1>2, <1>3, <1>4 DEF Size

\* What is in the cache or on the disk is a sector.
LEMMA SectorNowIs ==
  ASSUME ApartInv, NEW s \in Disk PROVE SectorNow(s) \in Sector
BY Facts DEF SectorNow, DiskApart

\* The content is a sequence of bytes.
ContentIs ==
  FileInv /\ faults = 0 =>
    /\ Size \in Nat /\ Content \in Seq(Bytes) /\ Len(Content) = Size
    /\ \A i \in 1 .. Size : Content[i] = ByteAt(i - 1)

\* It is, in every state.
LEMMA ContentTyped == ContentIs
<1> SUFFICES ASSUME FileInv, faults = 0
             PROVE  /\ Size \in Nat /\ Content \in Seq(Bytes) /\ Len(Content) = Size
                    /\ \A i \in 1 .. Size : Content[i] = ByteAt(i - 1)
  BY DEF ContentIs
<1>1. PICK n \in 0 .. n_fatent, m \in 0 .. n_fatent :
        \E ch \in [1 .. n -> Owned], rest \in [1 .. m -> Owned] : Kept(n, ch, m, rest)
  BY DEF FileInv, KeptInv
<1>2. PICK ch, rest : Kept(n, ch, m, rest)
  BY <1>1
<1>3. /\ Run(fat, fp.sclust, n, ch) /\ Size \in Nat /\ Size <= n * bcs /\ n * bcs \in Nat
      /\ n \in Nat
  BY <1>1, <1>2, FileFits, Constants DEF FileInv
<1>4. ASSUME NEW i \in 1 .. Size PROVE ByteAt(i - 1) \in Bytes
  <2>1. PICK j \in Nat : j = i - 1 /\ j < n * bcs
    BY <1>3
  <2>2. ByteAt(j) = SectorNow(FileSector(ch, j \div SS))[(j % SS) + 1]
    BY <1>1, <1>3, <2>1, BytesAre DEF BytesOfChain
  <2>3. FileSector(ch, j \div SS) \in Disk
    BY <1>3, <2>1, InChain, PositionSplit, SectorsApart
  <2>4. SectorNow(FileSector(ch, j \div SS)) \in Sector /\ (j % SS) + 1 \in 1 .. SS
    BY <2>1, <2>3, SectorNowIs, PositionSplit, Constants DEF FileInv
  <2> QED
    BY <2>1, <2>2, <2>4 DEF Sector
<1>5. Content = [i \in 1 .. Size |-> ByteAt(i - 1)]
  BY DEF Content
<1>6. Content \in Seq(Bytes) /\ Len(Content) = Size
  <2>1. Content \in [1 .. Size -> Bytes]
    BY <1>4, <1>5
  <2> QED
    BY <1>3, <2>1
<1> QED
  BY <1>3, <1>5, <1>6

\* It is, after a step.
LEMMA ContentTypedNext == ContentIs'
BY ContentTyped, PTL

\* A byte in both chains, where they agree, is the same if the sectors are.
LEMMA BytesKept ==
  ASSUME NEW n \in 0 .. n_fatent, NEW ch, Run(fat, fp.sclust, n, ch),
         NEW n2 \in 0 .. n_fatent, NEW ch2, Run(fat', fp'.sclust, n2, ch2),
         \A j \in 1 .. n : j <= n2 => ch2[j] = ch[j],
         \A s \in Disk : SectorNow(s)' = SectorNow(s),
         NEW i \in Nat, i < n * bcs, i < n2 * bcs
  PROVE  ByteAt(i)' = ByteAt(i)
<1>1. ByteAt(i) = SectorNow(FileSector(ch, i \div SS))[(i % SS) + 1]
  BY BytesAre DEF BytesOfChain
<1>2. ByteAt(i)' = SectorNow(FileSector(ch2, i \div SS))'[(i % SS) + 1]
  BY BytesAreNext DEF BytesOfChain
<1>3. FileSector(ch2, i \div SS) = FileSector(ch, i \div SS)
  <2>1. n \in Nat /\ n2 \in Nat
    BY Constants
  <2>2. PICK k \in Nat : k = (i \div SS) \div csize /\ k < n /\ k < n2
    BY <2>1, InChain, PositionSplit
  <2>3. k + 1 \in 1 .. n /\ k + 1 <= n2
    BY <2>1, <2>2
  <2>4. ch2[k + 1] = ch[k + 1]
    BY <2>3
  <2> QED
    BY <2>2, <2>4 DEF FileSector
<1>4. FileSector(ch, i \div SS) \in Disk
  BY InChain, PositionSplit, SectorsApart, Constants
<1>5. SectorNow(FileSector(ch, i \div SS))' = SectorNow(FileSector(ch, i \div SS))
  BY <1>4
<1> QED
  BY <1>1, <1>2, <1>3, <1>5

\* The content is the same if the sectors are and the chain is not cut.
LEMMA ContentKept ==
  ASSUME NEW n \in 0 .. n_fatent, NEW ch, Run(fat, fp.sclust, n, ch),
         NEW n2 \in 0 .. n_fatent, NEW ch2, Run(fat', fp'.sclust, n2, ch2),
         \A j \in 1 .. n : j <= n2 => ch2[j] = ch[j],
         \A s \in Disk : SectorNow(s)' = SectorNow(s),
         Size \in Nat, Size <= n * bcs, Size <= n2 * bcs, Size' = Size
  PROVE  Content' = Content
<1>1. n * bcs \in Nat /\ n2 * bcs \in Nat
  BY Constants
<1>2. ASSUME NEW i \in 1 .. Size PROVE ByteAt(i - 1)' = ByteAt(i - 1)
  <2>1. PICK j \in Nat : j = i - 1 /\ j < n * bcs /\ j < n2 * bcs
    BY <1>1
  <2>2. ByteAt(j)' = ByteAt(j)
    BY <2>1, BytesKept
  <2> QED
    BY <2>1, <2>2
<1> QED
  BY <1>2 DEF Content

\* A chain of this state, whatever runs.
LEMMA SomeChain ==
  ASSUME FileInv, faults = 0
  PROVE  \E n \in 0 .. n_fatent : \E ch, m, rest :
           /\ n \in Nat /\ Kept(n, ch, m, rest) /\ Run(fat, fp.sclust, n, ch)
           /\ Size \in Nat /\ Size <= n * bcs /\ n * bcs \in Nat
<1>1. PICK n \in 0 .. n_fatent, m \in 0 .. n_fatent :
        \E ch \in [1 .. n -> Owned], rest \in [1 .. m -> Owned] : Kept(n, ch, m, rest)
  BY DEF FileInv, KeptInv
<1>2. PICK ch, rest : Kept(n, ch, m, rest)
  BY <1>1
<1> QED
  BY <1>1, <1>2, FileFits, Constants DEF FileInv

\* A step that leaves the FAT, the size and every sector alone.
LEMMA SameContent ==
  ASSUME FileInv, faults = 0, fat' = fat, fp'.sclust = fp.sclust, Size' = Size,
         \A s \in Disk : SectorNow(s)' = SectorNow(s)
  PROVE  Content' = Content
<1>1. PICK n \in 0 .. n_fatent : \E ch, m, rest :
           /\ Run(fat, fp.sclust, n, ch) /\ Size \in Nat /\ Size <= n * bcs
  BY SomeChain
<1>2. PICK ch : Run(fat, fp.sclust, n, ch) /\ Size \in Nat /\ Size <= n * bcs
  BY <1>1
<1>3. Run(fat', fp'.sclust, n, ch)
  BY <1>2
<1> QED
  BY <1>2, <1>3, ContentKept

\* The write back of the cache changes no sector.
LEMMA FlushSame ==
  ASSUME ApartInv, ByteInv, faults = 0, disk' = Flushed, ~ fp'.dirty
  PROVE  \A s \in Disk : SectorNow(s)' = SectorNow(s) /\ disk'[s] = SectorNow(s)
<1>1. disk \in [Disk -> Sector] /\ fp.dsect \in Disk \cup {0}
  BY Facts DEF DiskApart, CacheSectors
<1>2. fp.dirty => fp.dsect \in Disk
  BY <1>1 DEF ByteInv, Cached
<1>3. ASSUME NEW s \in Disk PROVE disk'[s] = SectorNow(s)
  BY <1>1, <1>2 DEF Flushed, SectorNow
<1> QED
  BY <1>3 DEF SectorNow

\* Nor does a step that leaves the disk and the cache alone.
LEMMA CacheSame ==
  ASSUME disk' = disk, fp'.dirty <=> fp.dirty, fp'.dsect = fp.dsect, fp'.buf = fp.buf
  PROVE  \A s \in Disk : SectorNow(s)' = SectorNow(s)
BY DEF SectorNow

\* A step that the file of bytes does not see.
LEMMA Unseen ==
  ASSUME Content' = Content, Position' = Position, Request' = Request, out' = out,
         fp'.write = fp.write, faults = 0, faults' = 0
  PROVE  [File!Next]_(File!vars)
BY DEF File!vars

\* The types of the file object, the call and the disk.
LEMMA Objects ==
  ASSUME ApartInv
  PROVE  /\ fp.fptr \in Nat /\ fp.fsize \in Nat /\ fp.buf \in Sector
         /\ fp.dsect \in Disk \cup {0}
         /\ req.left \in Int /\ req.ofs \in Nat /\ Request.op = req.op /\ Request.ofs = req.ofs
         /\ Request.val = req.val
         /\ req.op # "seek" => Request = req
         /\ disk \in [Disk -> Sector]
<1>1. req \in Requests /\ fp \in FileObject
  BY Facts
<1> QED
  BY <1>1, Facts DEF Requests, FileObject, Request, DiskApart, CacheSectors

-----------------------------------------------------------------------------
(* Pieces of a transfer.                                                   *)

\* A sequence with the elements of a part of another is that part.
LEMMA PartIs ==
  ASSUME NEW S, NEW s \in Seq(S), NEW p \in Nat, NEW x \in Nat, p + x <= Len(s),
         NEW t, t = [i \in 1 .. x |-> s[p + i]]
  PROVE  t = SubSeq(s, p + 1, p + x)
OBVIOUS

\* Where the pointer is, on the disk.
LEMMA SectHere ==
  ASSUME ApartInv, NEW n \in Nat, NEW ch, NEW k \in 1 .. n, fp.clust = ch[k], ch[k] \in Owned,
         (k - 1) * bcs <= fp.fptr, fp.fptr < k * bcs
  PROVE  sect = FileSector(ch, fp.fptr \div SS)
<1>1. fp.fptr \in Nat /\ k \in Nat /\ k > 0 /\ k - 1 \in Nat
  BY Objects
<1>2. PICK x \in Nat : x = fp.fptr - (k - 1) * bcs
  BY <1>1, ClusterEnd
<1>3. x < bcs /\ fp.fptr = (k - 1) * bcs + x
  <2>1. PICK b \in Nat : b = (k - 1) * bcs /\ k * bcs = b + bcs
    BY <1>1, ClusterEnd
  <2> QED
    BY <1>1, <1>2, <2>1, Constants
<1>4. fp.fptr \div bcs = k - 1
  BY <1>1, <1>3, DivOf, Constants
<1>5. (fp.fptr \div SS) \div csize = k - 1
  BY <1>1, <1>4, PositionSplit
<1>6. clust2sect(fp.clust) \in Nat /\ clust2sect(fp.clust) > 0
  BY NotTaken, SectorsOnDisk
<1>7. (k - 1) + 1 = k
  BY <1>1
<1> QED
  BY <1>5, <1>6, <1>7 DEF sect, csect, FileSector

\* A piece of a sector.
LEMMA PieceBounds ==
  ASSUME ApartInv, req.left > 0
  PROVE  /\ Piece \in Nat /\ Piece >= 1 /\ Piece <= req.left /\ (fp.fptr % SS) + Piece <= SS
         /\ fp.fptr % SS \in Nat
         /\ \A x \in Nat : x < Piece =>
              /\ (fp.fptr + x) \div SS = fp.fptr \div SS
              /\ (fp.fptr + x) % SS = (fp.fptr % SS) + x
         /\ \/ (fp.fptr + Piece) % SS = 0
            \/ (fp.fptr + Piece) \div SS = fp.fptr \div SS
<1>1. fp.fptr \in Nat /\ req.left \in Int
  BY Objects
<1>2. PICK q \in Nat, o \in Nat : /\ o < SS /\ q * SS \in Nat /\ fp.fptr = q * SS + o
                                  /\ fp.fptr \div SS = q /\ fp.fptr % SS = o
  BY <1>1, SectorSplit
<1>3. PICK y \in Nat : y = Piece /\ y >= 1 /\ y <= req.left /\ o + y <= SS
  <2>1. Piece = IF SS - o < req.left THEN SS - o ELSE req.left
    BY <1>2 DEF Piece, Smaller
  <2>2. Piece \in Nat /\ Piece >= 1 /\ Piece <= req.left /\ o + Piece <= SS
    BY <1>1, <1>2, <2>1, Constants
  <2> QED
    BY <2>2
<1>4. ASSUME NEW x \in Nat, o + x < SS
      PROVE  (fp.fptr + x) \div SS = q /\ (fp.fptr + x) % SS = o + x
  <2>1. o + x \in Nat /\ fp.fptr + x = q * SS + (o + x)
    BY <1>2
  <2> QED
    BY <1>2, <1>4, <2>1, DivOf, Constants
<1>5. \A x \in Nat : x < y => o + x < SS
  BY <1>2, <1>3, Constants
<1>6. (fp.fptr + y) % SS = 0 \/ (fp.fptr + y) \div SS = q
  <2>1. CASE o + y = SS
    <3>1. fp.fptr + y = (q + 1) * SS + 0
      BY <1>2, <1>3, <2>1, Constants
    <3> QED
      BY <1>2, <3>1, DivOf, Constants
  <2>2. CASE o + y # SS
    BY <1>2, <1>3, <1>4, <2>2, Constants
  <2> QED
    BY <2>1, <2>2
<1> QED
  BY <1>2, <1>3, <1>4, <1>5, <1>6

\* Whole sectors, up to the end of the cluster.
LEMMA WholeBounds ==
  ASSUME ApartInv, fp.clust \in Owned, OnSector, Rest > 0
  PROVE  /\ cc \in Nat /\ cc >= 1 /\ cc * SS \in Nat /\ cc * SS >= 1 /\ cc * SS <= req.left
         /\ (fp.fptr + cc * SS) % SS = 0
         /\ fp.fptr \div SS \in Nat /\ csect \in Nat /\ csect + cc <= csize
         /\ (fp.fptr \div SS) % csize = csect
         /\ \A x \in Nat : x < cc * SS =>
              /\ (fp.fptr + x) \div SS = (fp.fptr \div SS) + (x \div SS)
              /\ x \div SS \in Nat /\ x \div SS < cc
              /\ (fp.fptr + x) % SS = x % SS
<1>1. fp.fptr \in Nat /\ req.left \in Int /\ fp.fptr % SS = 0
  BY Objects DEF OnSector
<1>2. PICK q \in Nat : q * SS \in Nat /\ fp.fptr = q * SS /\ fp.fptr \div SS = q
  <2>1. PICK q \in Nat, o \in Nat :
          q * SS \in Nat /\ fp.fptr = q * SS + o /\ fp.fptr \div SS = q /\ fp.fptr % SS = o
    BY <1>1, SectorSplit
  <2> QED
    BY <1>1, <2>1
<1>3. req.left \in Nat
  <2> SUFFICES ASSUME req.left < 0 PROVE FALSE
    BY <1>1
  <2>1. req.left \div SS < 1
    BY <1>1, Constants
  <2> QED
    BY <1>1, <2>1, Constants DEF Rest
<1>4. Rest \in Nat /\ Rest * SS \in Nat /\ Rest * SS <= req.left
  BY <1>3, Constants DEF Rest
<1>5. csect \in Nat /\ csect < csize /\ q % csize = csect
  BY <1>2, SectorOwned DEF csect, ApartInv
<1>6. PICK z \in Nat : z = cc /\ z >= 1 /\ z <= Rest /\ csect + z <= csize
  <2>1. cc = IF Rest < csize - csect THEN Rest ELSE csize - csect
    BY DEF cc, Smaller
  <2>2. cc \in Nat /\ cc >= 1 /\ cc <= Rest /\ csect + cc <= csize
    BY <1>4, <1>5, <2>1, Constants
  <2> QED
    BY <2>2
<1>7. z * SS <= Rest * SS /\ z * SS \in Nat /\ z * SS >= 1
  BY <1>4, <1>6, MultMono, Constants
<1>8. (fp.fptr + z * SS) % SS = 0
  <2>1. fp.fptr + z * SS = (q + z) * SS + 0 /\ q + z \in Nat
    BY <1>2, <1>6, Constants
  <2> QED
    BY <2>1, DivOf, Constants
<1>9. ASSUME NEW x \in Nat, x < z * SS
      PROVE  /\ (fp.fptr + x) \div SS = q + (x \div SS)
             /\ x \div SS \in Nat /\ x \div SS < z
             /\ (fp.fptr + x) % SS = x % SS
  <2>1. PICK y \in Nat, o \in Nat :
          o < SS /\ y * SS \in Nat /\ x = y * SS + o /\ x \div SS = y /\ x % SS = o
    BY SectorSplit
  <2>2. y < z
    <3> SUFFICES ASSUME y >= z PROVE FALSE
      BY <2>1
    <3>1. z * SS <= y * SS
      BY <2>1, MultMono, Constants
    <3> QED
      BY <1>7, <1>9, <2>1, <3>1
  <2>3. fp.fptr + x = (q + y) * SS + o /\ q + y \in Nat
    BY <1>2, <2>1, Constants
  <2>4. (fp.fptr + x) \div SS = q + y /\ (fp.fptr + x) % SS = o
    BY <2>1, <2>3, DivOf, Constants
  <2> QED
    BY <2>1, <2>2, <2>4
<1>10. cc * SS <= req.left /\ cc * SS = z * SS
  BY <1>3, <1>4, <1>6, <1>7
<1>11. /\ cc \in Nat /\ cc >= 1 /\ cc * SS \in Nat /\ cc * SS >= 1 /\ cc * SS <= req.left
       /\ (fp.fptr + cc * SS) % SS = 0
  BY <1>6, <1>7, <1>8, <1>10
<1>12. /\ fp.fptr \div SS \in Nat /\ csect \in Nat /\ csect + cc <= csize
       /\ (fp.fptr \div SS) % csize = csect
  BY <1>2, <1>5, <1>6
<1>13. \A x \in Nat : x < cc * SS =>
              /\ (fp.fptr + x) \div SS = (fp.fptr \div SS) + (x \div SS)
              /\ x \div SS \in Nat /\ x \div SS < cc
              /\ (fp.fptr + x) % SS = x % SS
  BY <1>2, <1>6, <1>9, <1>10
<1> QED
  BY <1>11, <1>12, <1>13

-----------------------------------------------------------------------------
(* Every step that meets no disk error is one of the file of bytes.        *)

\* What a transfer moves is a part of the content.
LEMMA PartOfContent ==
  ASSUME FileInv, faults = 0, NEW p \in Nat, NEW x \in Nat, p + x <= Size,
         NEW t, t = [i \in 1 .. x |-> ByteAt(p + (i - 1))]
  PROVE  t = SubSeq(Content, p + 1, p + x)
<1>1. /\ Size \in Nat /\ Content \in Seq(Bytes) /\ Len(Content) = Size
      /\ \A i \in 1 .. Size : Content[i] = ByteAt(i - 1)
  BY ContentTyped DEF ContentIs
<1>2. ASSUME NEW i \in 1 .. x PROVE Content[p + i] = ByteAt(p + (i - 1))
  <2>1. p + i \in 1 .. Size /\ p + i - 1 = p + (i - 1)
    BY <1>1
  <2> QED
    BY <1>1, <2>1
<1>3. t = [i \in 1 .. x |-> Content[p + i]]
  BY <1>2
<1> QED
  BY <1>1, <1>3, PartIs

\* f_read, f_write and f_lseek are called.
LEMMA BeginBytes ==
  ASSUME FileInv, ApartInv', KeptInv', faults = 0,
         NEW op \in {"read", "write", "seek"}, NEW x, NEW v, NEW ofs,
         op = "read" => x \in Nat /\ fp.fptr + x <= fp.fsize,
         Begin(op, op, x, v, ofs)
  PROVE  ByteInv' /\ [File!Next]_(File!vars)
<1>1. /\ pc = "idle" /\ req = NoReq /\ ~ fp.err /\ fp.fptr <= fp.fsize
      /\ CallAgrees /\ Within /\ Cached
  BY DEF FileInv, ByteInv, Begin, CallAgrees, Within
<1>2. /\ req' = [op |-> op, left |-> x, val |-> v, ofs |-> ofs] /\ pc' = op
      /\ UNCHANGED <<fat, disk, dir, fs, fp, clst, ifptr, out, faults>>
  BY DEF Begin
<1>3. fp.fptr \in Nat /\ fp.fsize \in Nat
  BY Objects DEF FileInv
<1>4. ByteInv'
  <2>1. CallAgrees'
    BY <1>2 DEF CallAgrees
  <2>2. Within'
    BY <1>1, <1>2, <1>3 DEF Within
  <2>3. Cached'
    BY <1>1, <1>2 DEF Cached, OnSector, sect, csect, NoReq
  <2>4. Seeks'
    BY <1>2 DEF Seeks
  <2> QED
    BY <1>1, <1>2, <2>1, <2>2, <2>3, <2>4 DEF ByteInv
<1>5. Size = fp.fsize /\ Size' = Size
  BY <1>1, <1>2, <1>3 DEF Size, Writing, NoReq
<1>6. Content' = Content
  BY <1>2, <1>5, CacheSame, SameContent
<1>7. Len(Content) = fp.fsize
  BY <1>5, ContentTyped DEF ContentIs
<1>8. Position = fp.fptr /\ Position' = Position
  BY <1>1, <1>2 DEF Position
<1>9. /\ Request.op = "none" /\ Request'.op = op
      /\ op = "read" => Request'.left = x
  BY <1>1, <1>2 DEF Request, NoReq
<1>10. File!Call
  BY <1>2, <1>3, <1>6, <1>7, <1>8, <1>9 DEF File!Call, File!Idle
<1> QED
  BY <1>4, <1>10 DEF File!Next

\* A call begins only between two others, with a count that a read finds in the file.
LEMMA CallBytes ==
  ASSUME FileInv, ApartInv', KeptInv', faults = 0,
         \/ \E n \in Lengths : f_read(n) \/ f_write(n, 1 + (ops % 2))
         \/ \E ofs \in Offsets : f_lseek(ofs)
  PROVE  ByteInv' /\ [File!Next]_(File!vars)
<1>1. CASE \E n \in Lengths : f_read(n)
  <2>1. PICK n \in Lengths : f_read(n)
    BY <1>1
  <2>2. pc = "idle" /\ fp.fptr <= fp.fsize /\ fp.fptr \in Nat /\ fp.fsize \in Nat /\ n \in Nat
    BY <2>1, Objects, FatFileAssumption DEF f_read, Begin, FileInv, ByteInv, Within
  <2>3. PICK x \in Nat : x = Smaller(n, fp.fsize - fp.fptr) /\ fp.fptr + x <= fp.fsize
    BY <2>2 DEF Smaller
  <2>4. Begin("read", "read", x, 0, 0)
    BY <2>1, <2>3 DEF f_read
  <2> QED
    BY <2>3, <2>4, BeginBytes
<1>2. CASE \E n \in Lengths : f_write(n, 1 + (ops % 2))
  <2>1. PICK n \in Lengths : Begin("write", "write", n, 1 + (ops % 2), 0)
    BY <1>2 DEF f_write
  <2> QED
    BY <2>1, BeginBytes
<1>3. CASE \E ofs \in Offsets : f_lseek(ofs)
  <2>1. PICK ofs \in Offsets : Begin("seek", "seek", 0, 0, ofs)
    BY <1>3 DEF f_lseek
  <2> QED
    BY <2>1, BeginBytes
<1> QED
  BY <1>1, <1>2, <1>3

\* The end of f_read: all that was asked for has been delivered.
LEMMA ReadReturnBytes ==
  ASSUME FileInv, ApartInv', KeptInv', faults = 0, read_return
  PROVE  ByteInv' /\ [File!Next]_(File!vars)
<1>1. /\ pc = "read" /\ req.left = 0 /\ pc' = "idle" /\ req' = NoReq
      /\ UNCHANGED <<fat, fs, clst, ifptr, dir, ops, faults, disk, fp, out>>
  BY DEF read_return, End, Quiet, Calm
<1>2. /\ ~ fp.err /\ CallAgrees /\ Within /\ Cached /\ req.op = "read"
  BY <1>1 DEF FileInv, ByteInv, CallAgrees
<1>3. fp.fptr \in Nat /\ fp.fsize \in Nat /\ Request = req
  BY <1>2, Objects DEF FileInv
<1>4. ByteInv'
  <2>1. CallAgrees' /\ Seeks'
    BY <1>1 DEF CallAgrees, Seeks
  <2>2. Within'
    BY <1>1, <1>2, <1>3 DEF Within
  <2>3. Cached'
    BY <1>1, <1>2 DEF Cached, OnSector, sect, csect, NoReq
  <2> QED
    BY <1>1, <1>2, <2>1, <2>2, <2>3 DEF ByteInv
<1>5. Size' = Size
  BY <1>1, <1>2 DEF Size, Writing, NoReq
<1>6. Content' = Content
  BY <1>1, <1>5, CacheSame, SameContent
<1>7. Position' = Position
  BY <1>1 DEF Position
<1>8. Request'.op = "none"
  BY <1>1 DEF Request, NoReq
<1>9. File!Return
  BY <1>1, <1>2, <1>3, <1>6, <1>7, <1>8 DEF File!Return
<1> QED
  BY <1>4, <1>9 DEF File!Next

\* A read before the end of the file has a cluster to go to.
LEMMA ReadNext ==
  ASSUME FileInv, faults = 0, pc = "read", req.left > 0
  PROVE  /\ OnCluster => (IF fp.fptr = 0 THEN fp.sclust ELSE fat[fp.clust]) \in Owned
         /\ ~ OnCluster => fp.clust \in Owned
<1>1. ApartInv /\ KeptInv /\ ByteInv /\ ~ fp.err /\ Within
  BY DEF FileInv, ByteInv
<1>2. fp.fptr \in Nat /\ fp.fsize \in Nat /\ req.left \in Int /\ fp.fptr < fp.fsize
  <2>1. fp.fptr \in Nat /\ fp.fsize \in Nat /\ req.left \in Int /\ fp.fptr + req.left <= fp.fsize
    BY <1>1, Objects DEF Within
  <2> QED
    BY <2>1
<1>3. PICK n \in Nat : \E ch, rest : Kept(n, ch, 0, rest)
  BY <1>1, KeptElim
<1>4. PICK ch, rest : Kept(n, ch, 0, rest)
  BY <1>3
<1>5. Run(fat, fp.sclust, n, ch) /\ fp.fsize <= n * bcs /\ Pointer(n, ch) /\ n * bcs \in Nat
  BY <1>4, Constants DEF Kept, Chained
<1>6. CASE fp.fptr = 0
  <2>1. n # 0
    BY <1>2, <1>5, Constants
  <2>2. fp.sclust \in Owned
    BY <1>3, <1>5, <2>1 DEF Run
  <2>3. OnCluster
    BY <1>6, Constants DEF OnCluster, OnSector, csect
  <2> QED
    BY <1>6, <2>2, <2>3
<1>7. CASE fp.fptr > 0
  <2>1. PICK k \in 1 .. n :
           /\ fp.clust = ch[k] /\ (k - 1) * bcs < fp.fptr
           /\ IF OnCluster THEN fp.fptr = k * bcs ELSE fp.fptr < k * bcs
    BY <1>1, <1>5, <1>7, PointerAt
  <2>2. ch[k] \in Owned
    BY <1>5, RunUsed
  <2>3. ASSUME OnCluster PROVE fat[fp.clust] \in Owned
    <3>1. k * bcs < n * bcs
      BY <1>2, <1>5, <2>1, <2>3, Constants
    <3>2. k # n
      BY <3>1, <1>5
    <3>3. k + 1 \in 1 .. n /\ fat[ch[k]] = ch[k + 1]
      BY <1>5, <2>1, <3>2 DEF Run
    <3> QED
      BY <1>5, <2>1, <3>3, RunUsed
  <2> QED
    BY <1>7, <2>1, <2>2, <2>3
<1> QED
  BY <1>2, <1>6, <1>7

\* f_read finds the cluster and the sector of the pointer.
LEMMA ReadClusterBytes ==
  ASSUME FileInv, ApartInv', KeptInv', faults = 0, faults' = 0, read_cluster
  PROVE  ByteInv' /\ [File!Next]_(File!vars)
<1> DEFINE next == IF fp.fptr = 0 THEN fp.sclust ELSE fat[fp.clust]
<1>1. /\ pc = "read" /\ req.left > 0 /\ UNCHANGED <<fat, disk, dir, fs, clst, ifptr, out, ops>>
  BY DEF read_cluster, Fault, WindowFault
<1>2. /\ ApartInv /\ ~ fp.err /\ CallAgrees /\ Within /\ Cached /\ req.op = "read"
      /\ fp \in FileObject
  BY <1>1, Facts DEF FileInv, ByteInv, CallAgrees
<1>3. /\ OnCluster => next \in Owned /\ next >= 2
      /\ ~ OnCluster => fp.clust \in Owned
  <2>1. \A c \in Owned : c >= 2
    BY Constants DEF Owned, Clusters
  <2> QED
    BY <1>1, <2>1, ReadNext
<1>4. /\ req' = req
      /\ \/ OnCluster /\ fp' = [fp EXCEPT !.clust = next] /\ pc' = "rsect"
         \/ ~ OnCluster /\ fp' = fp /\ pc' = IF OnSector THEN "rsect" ELSE "rcopy"
  <2>1. next \in Owned => ~ (next < 2)
    BY Constants DEF Owned, Clusters
  <2>2. ~ Fails
    BY DEF Fails
  <2> QED
    BY <1>3, <2>1, <2>2 DEF read_cluster, Fault, WindowFault
<1> HIDE DEF next
<1>5. /\ fp'.fptr = fp.fptr /\ fp'.fsize = fp.fsize /\ fp'.sclust = fp.sclust
      /\ fp'.dsect = fp.dsect /\ fp'.buf = fp.buf /\ (fp'.dirty <=> fp.dirty)
      /\ (fp'.written <=> fp.written) /\ ~ fp'.err /\ fp'.write = fp.write
      /\ fp'.clust \in Owned
      /\ pc' = "rcopy" => fp' = fp /\ ~ OnSector
      /\ pc' \in {"rsect", "rcopy"}
  BY <1>2, <1>3, <1>4 DEF FileObject
<1>6. ByteInv'
  <2>1. CallAgrees' /\ Seeks'
    BY <1>2, <1>4, <1>5 DEF CallAgrees, Seeks
  <2>2. Within'
    BY <1>1, <1>2, <1>4, <1>5 DEF Within
  <2>3. Cached'
    BY <1>1, <1>2, <1>4, <1>5 DEF Cached, OnSector, sect, csect
  <2> QED
    BY <1>5, <2>1, <2>2, <2>3 DEF ByteInv
<1>7. Size' = Size
  BY <1>2, <1>4, <1>5 DEF Size, Writing
<1>8. Content' = Content
  BY <1>1, <1>5, <1>7, CacheSame, SameContent
<1>9. Position' = Position /\ Request' = Request
  BY <1>1, <1>4, <1>5 DEF Position, Request
<1> QED
  BY <1>1, <1>5, <1>6, <1>8, <1>9, Unseen

\* The sectors behind the pointer's one, up to the end of the cluster.
LEMMA SectAfter ==
  ASSUME ApartInv, NEW n \in Nat, NEW ch, NEW k \in 1 .. n, fp.clust = ch[k], ch[k] \in Owned,
         (k - 1) * bcs <= fp.fptr, fp.fptr < k * bcs, NEW y \in Nat, csect + y < csize
  PROVE  FileSector(ch, (fp.fptr \div SS) + y) = sect + y
<1>1. fp.fptr \in Nat /\ k \in Nat /\ k > 0 /\ k - 1 \in Nat
  BY Objects
<1>2. PICK x \in Nat : x = fp.fptr - (k - 1) * bcs
  BY <1>1, ClusterEnd
<1>3. x < bcs /\ fp.fptr = (k - 1) * bcs + x
  <2>1. PICK b \in Nat : b = (k - 1) * bcs /\ k * bcs = b + bcs
    BY <1>1, ClusterEnd
  <2> QED
    BY <1>1, <1>2, <2>1, Constants
<1>4. fp.fptr \div bcs = k - 1
  BY <1>1, <1>3, DivOf, Constants
<1>5. PICK q \in Nat : q = fp.fptr \div SS /\ q \div csize = k - 1 /\ q % csize = csect
  BY <1>1, <1>4, PositionSplit DEF csect
<1>6. clust2sect(ch[(q \div csize) + 1]) \in Nat
  <2>1. (q \div csize) + 1 = k
    BY <1>1, <1>5
  <2> QED
    BY <2>1, NotTaken, SectorsOnDisk
<1>7. FileSector(ch, q + y) = FileSector(ch, q) + y
  BY <1>5, <1>6, SectorsFollow
<1> QED
  BY <1>5, <1>7, SectHere

\* In a transfer the pointer is in a cluster of the file's chain.
LEMMA Transfer ==
  ASSUME FileInv, faults = 0, pc \in {"rsect", "rcopy", "wflush", "wsect", "wcopy"}
  PROVE  \E n \in 0 .. n_fatent : \E ch, rest : \E k \in 1 .. n :
           /\ n \in Nat /\ Kept(n, ch, 0, rest) /\ Run(fat, fp.sclust, n, ch)
           /\ Size \in Nat /\ Size <= n * bcs /\ n * bcs \in Nat
           /\ fp.clust = ch[k] /\ ch[k] \in Owned /\ fp.clust \in Owned
           /\ (k - 1) * bcs <= fp.fptr /\ fp.fptr < k * bcs
           /\ k * bcs \in Nat /\ k * bcs <= n * bcs
<1>1. ApartInv /\ KeptInv /\ ByteInv /\ Within
  BY DEF FileInv, ByteInv
<1>2. fp.clust \in Owned
  BY <1>1 DEF ApartInv, ClusterKnown, Within
<1>3. PICK n \in Nat : \E ch, rest : Kept(n, ch, 0, rest)
  BY <1>1, KeptElim
<1>4. PICK ch, rest : Kept(n, ch, 0, rest)
  BY <1>3
<1>5. /\ n \in 0 .. n_fatent /\ Run(fat, fp.sclust, n, ch)
      /\ Size \in Nat /\ Size <= n * bcs /\ n * bcs \in Nat
  BY <1>1, <1>4, FileFits
<1>6. PICK k \in 1 .. n : fp.clust = ch[k] /\ (k - 1) * bcs <= fp.fptr /\ fp.fptr < k * bcs
  BY <1>2, <1>4 DEF Kept, Pointer
<1>7. k * bcs \in Nat /\ k * bcs <= n * bcs
  BY MultMono, Constants
<1> QED
  BY <1>2, <1>4, <1>5, <1>6, <1>7

\* The bytes from the pointer on are in the sectors from the pointer's one on.
LEMMA BytesHere ==
  ASSUME FileInv, faults = 0, pc \in {"rsect", "rcopy"}, OnSector \/ pc = "rcopy",
         NEW x \in Nat, fp.fptr + x < fp.fsize, NEW y \in Nat, csect + y < csize,
         (fp.fptr + x) \div SS = (fp.fptr \div SS) + y
  PROVE  ByteAt(fp.fptr + x) = SectorNow(sect + y)[((fp.fptr + x) % SS) + 1]
<1>1. PICK n \in 0 .. n_fatent : \E ch, rest : \E k \in 1 .. n :
           /\ n \in Nat /\ Run(fat, fp.sclust, n, ch) /\ Kept(n, ch, 0, rest)
           /\ n * bcs \in Nat
           /\ fp.clust = ch[k] /\ ch[k] \in Owned
           /\ (k - 1) * bcs <= fp.fptr /\ fp.fptr < k * bcs
  BY Transfer
<1>2a. PICK ch, rest : \E k \in 1 .. n :
           /\ n \in Nat /\ Run(fat, fp.sclust, n, ch) /\ Kept(n, ch, 0, rest)
           /\ n * bcs \in Nat
           /\ fp.clust = ch[k] /\ ch[k] \in Owned
           /\ (k - 1) * bcs <= fp.fptr /\ fp.fptr < k * bcs
  BY <1>1
<1>2. PICK k \in 1 .. n :
           /\ n \in Nat /\ Run(fat, fp.sclust, n, ch) /\ Kept(n, ch, 0, rest)
           /\ n * bcs \in Nat
           /\ fp.clust = ch[k] /\ ch[k] \in Owned
           /\ (k - 1) * bcs <= fp.fptr /\ fp.fptr < k * bcs
  BY <1>2a
<1>3. fp.fptr \in Nat /\ fp.fsize \in Nat /\ ApartInv
  BY Objects DEF FileInv
<1>4. PICK i \in Nat : i = fp.fptr + x /\ i < n * bcs
  BY <1>2, <1>3 DEF Kept
<1>5. ByteAt(i) = SectorNow(FileSector(ch, i \div SS))[(i % SS) + 1]
  BY <1>2, <1>4, BytesAre DEF BytesOfChain
<1>6. FileSector(ch, i \div SS) = sect + y
  BY <1>2, <1>3, <1>4, SectAfter
<1> QED
  BY <1>4, <1>5, <1>6

\* A piece of a read, of whole sectors or of a part of one.
LEMMA ReadPieceBytes ==
  ASSUME FileInv, faults = 0, faults' = 0, req.op = "read", pc' = "read",
         pc \in {"rsect", "rcopy"},
         NEW x \in Nat, x >= 1, x <= req.left, fp' = Advance(x),
         req' = [req EXCEPT !.left = @ - x],
         out' = [i \in 1 .. x |-> ByteAt(fp.fptr + (i - 1))],
         UNCHANGED <<disk, fat>>,
         OnSector' \/ (fp.dsect = sect /\ sect' = sect)
  PROVE  ByteInv' /\ [File!Next]_(File!vars)
<1>1. /\ ApartInv /\ ~ fp.err /\ CallAgrees /\ Within /\ Cached /\ fp \in FileObject
      /\ req \in Requests
  BY Facts DEF FileInv, ByteInv
<1>2. fp.fptr \in Nat /\ fp.fsize \in Nat /\ req.left \in Int /\ fp.fptr + req.left <= fp.fsize
  BY <1>1, Objects DEF Within
<1>3. /\ fp'.fptr = fp.fptr + x /\ fp'.fsize = fp.fsize /\ fp'.sclust = fp.sclust
      /\ fp'.dsect = fp.dsect /\ fp'.buf = fp.buf /\ (fp'.dirty <=> fp.dirty)
      /\ (fp'.written <=> fp.written) /\ ~ fp'.err /\ fp'.write = fp.write
      /\ req'.op = "read" /\ req'.left = req.left - x
  BY <1>1 DEF FileObject, Requests, Advance
<1>4. ByteInv'
  <2>1. CallAgrees' /\ Seeks'
    BY <1>3 DEF CallAgrees, Seeks
  <2>2. Within'
    BY <1>2, <1>3 DEF Within
  <2>3. Cached'
    BY <1>1, <1>3 DEF Cached
  <2> QED
    BY <1>3, <2>1, <2>2, <2>3 DEF ByteInv
<1>5. Size = fp.fsize /\ Size' = Size
  BY <1>3 DEF Size, Writing
<1>6. Content' = Content
  BY <1>3, <1>5, CacheSame, SameContent
<1>7. out' = SubSeq(Content, fp.fptr + 1, fp.fptr + x)
  <2>1. fp.fptr + x <= Size
    BY <1>2, <1>5
  <2> QED
    BY <1>2, <2>1, PartOfContent
<1>8. Position = fp.fptr /\ Position' = fp.fptr + x
  BY <1>3 DEF Position
<1>9. Request = req /\ Request' = [req EXCEPT !.left = @ - x]
  BY <1>1, <1>3 DEF Request, Requests
<1>10. x \in 1 .. req.left
  BY <1>2
<1>11. File!ReadPiece
  BY <1>3, <1>6, <1>7, <1>8, <1>9, <1>10 DEF File!ReadPiece
<1> QED
  BY <1>4, <1>11 DEF File!Next

\* f_read delivers whole sectors from the disk, and a dirty one from the cache.
LEMMA ReadDirectBytes ==
  ASSUME FileInv, ApartInv', KeptInv', faults = 0, faults' = 0, read_direct
  PROVE  ByteInv' /\ [File!Next]_(File!vars)
<1>1. /\ pc = "rsect" /\ Rest > 0 /\ ApartInv /\ UNCHANGED <<fat, disk>>
      /\ fp.clust \in Owned /\ req.op = "read" /\ req.left > 0
  BY DEF read_direct, Fault, WindowFault, FileInv, ByteInv, Within, CallAgrees, ApartInv,
       ClusterKnown
<1>2. sect # 0
  BY <1>1, SectorOwned DEF ApartInv
<1>3. ~ Fails
  BY DEF Fails
<1>4. /\ out' = [i \in 1 .. cc * SS |-> SectorNow(sect + ((i - 1) \div SS))[((i - 1) % SS) + 1]]
      /\ fp' = Advance(cc * SS) /\ req' = [req EXCEPT !.left = @ - cc * SS] /\ pc' = "read"
  BY <1>2, <1>3 DEF read_direct, Fault, WindowFault
<1>5. OnSector
  <2>1. PICK n \in 0 .. n_fatent : \E ch, rest : Kept(n, ch, 0, rest)
    BY <1>1, Transfer
  <2> QED
    BY <1>1, <2>1 DEF Kept, Pointer
<1>6. PICK z \in Nat :
         /\ z = cc * SS /\ z >= 1 /\ z <= req.left /\ (fp.fptr + z) % SS = 0
         /\ csect \in Nat /\ cc \in Nat /\ csect + cc <= csize
         /\ \A x \in Nat : x < z =>
              /\ (fp.fptr + x) \div SS = (fp.fptr \div SS) + (x \div SS)
              /\ x \div SS \in Nat /\ x \div SS < cc
              /\ (fp.fptr + x) % SS = x % SS
  BY <1>1, <1>5, WholeBounds
<1>7. fp.fptr \in Nat /\ fp.fsize \in Nat /\ req.left \in Int /\ fp.fptr + req.left <= fp.fsize
  BY <1>1, Objects DEF FileInv, ByteInv, Within
<1>8. ASSUME NEW i \in 1 .. z
      PROVE  SectorNow(sect + ((i - 1) \div SS))[((i - 1) % SS) + 1] = ByteAt(fp.fptr + (i - 1))
  <2>1. PICK x \in Nat : x = i - 1 /\ x < z
    BY <1>6
  <2>20. x \div SS \in Nat /\ x \div SS < cc
    BY <1>6, <2>1
  <2>21. csect \in Nat /\ cc \in Nat /\ csect + cc <= csize /\ csize \in Nat
    BY <1>6, Constants
  <2>2. PICK y \in Nat : y = x \div SS /\ csect + y < csize
    BY <2>20, <2>21
  <2>3. fp.fptr + x < fp.fsize
    BY <1>6, <1>7, <2>1
  <2>4. (fp.fptr + x) \div SS = (fp.fptr \div SS) + y /\ (fp.fptr + x) % SS = x % SS
    BY <1>6, <2>1, <2>2
  <2>5. ByteAt(fp.fptr + x) = SectorNow(sect + y)[((fp.fptr + x) % SS) + 1]
    BY <1>1, <1>5, <2>2, <2>3, <2>4, BytesHere
  <2> QED
    BY <2>1, <2>2, <2>4, <2>5
<1>9. out' = [i \in 1 .. z |-> ByteAt(fp.fptr + (i - 1))]
  BY <1>4, <1>6, <1>8
<1>10. OnSector'
  <2>1. fp'.fptr = fp.fptr + z
    BY <1>1, <1>4, <1>6, AdvanceOK
  <2> QED
    BY <1>6, <2>1 DEF OnSector
<1>11. fp' = Advance(z) /\ req' = [req EXCEPT !.left = @ - z]
  BY <1>4, <1>6
<1> QED
  BY <1>1, <1>4, <1>6, <1>9, <1>10, <1>11, ReadPieceBytes

\* f_read fills the cache, once what it holds is written back.
LEMMA ReadFillBytes ==
  ASSUME FileInv, ApartInv', KeptInv', faults = 0, faults' = 0, read_fill
  PROVE  ByteInv' /\ [File!Next]_(File!vars)
<1>1. /\ pc = "rsect" /\ ApartInv /\ UNCHANGED <<fat, ifptr, out>>
      /\ fp.clust \in Owned /\ req.op = "read" /\ req.left > 0
      /\ ~ fp.err /\ CallAgrees /\ Within /\ Cached /\ fp \in FileObject /\ ByteInv
  BY Facts DEF read_fill, Fault, WindowFault, FileInv, ByteInv, Within, CallAgrees, ApartInv,
       ClusterKnown
<1>2. sect \in Disk /\ sect # 0
  BY <1>1, SectorOwned DEF ApartInv
<1>3. ~ Fails
  BY DEF Fails
<1>4. /\ pc' = "rcopy" /\ req' = req
      /\ \/ /\ disk' = Flushed
            /\ fp' = [fp EXCEPT !.buf = disk'[sect], !.dsect = sect, !.dirty = FALSE]
         \/ fp.dsect = sect /\ UNCHANGED <<disk, fp>>
  BY <1>2, <1>3 DEF read_fill, Fault, WindowFault
<1>5. /\ fp'.fptr = fp.fptr /\ fp'.fsize = fp.fsize /\ fp'.sclust = fp.sclust
      /\ fp'.clust = fp.clust /\ fp'.dsect = sect /\ (fp'.written <=> fp.written) /\ ~ fp'.err
      /\ fp'.write = fp.write
      /\ \/ ~ fp'.dirty /\ fp'.buf = disk'[sect] /\ disk' = Flushed
         \/ UNCHANGED <<disk, fp>>
  BY <1>1, <1>4 DEF FileObject
<1>6. sect' = sect
  BY <1>5 DEF sect, csect
<1>7. ByteInv'
  <2>1. CallAgrees' /\ Seeks'
    BY <1>1, <1>4 DEF CallAgrees, Seeks
  <2>2. Within'
    BY <1>1, <1>4, <1>5 DEF Within
  <2>3. Cached'
    BY <1>1, <1>4, <1>5, <1>6 DEF Cached
  <2> QED
    BY <1>5, <2>1, <2>2, <2>3 DEF ByteInv
<1>8. \A s \in Disk : SectorNow(s)' = SectorNow(s)
  BY <1>1, <1>5, CacheSame, FlushSame
<1>9. Size' = Size
  BY <1>1, <1>4, <1>5 DEF Size, Writing
<1>10. Content' = Content
  BY <1>1, <1>5, <1>8, <1>9, SameContent
<1>11. Position' = Position /\ Request' = Request
  BY <1>1, <1>4, <1>5 DEF Position, Request
<1> QED
  BY <1>1, <1>5, <1>7, <1>10, <1>11, Unseen

\* f_read copies a part of the cached sector.
LEMMA ReadCopyBytes ==
  ASSUME FileInv, ApartInv', KeptInv', faults = 0, read_copy
  PROVE  ByteInv' /\ [File!Next]_(File!vars)
<1>1. /\ pc = "rcopy" /\ ApartInv /\ UNCHANGED <<fat, disk, faults>> /\ pc' = "read"
      /\ fp.clust \in Owned /\ req.op = "read" /\ req.left > 0 /\ Cached /\ fp.dsect = sect
      /\ out' = SubSeq(fp.buf, (fp.fptr % SS) + 1, (fp.fptr % SS) + Piece)
      /\ fp' = Advance(Piece) /\ req' = [req EXCEPT !.left = @ - Piece]
  BY DEF read_copy, FileInv, ByteInv, Within, CallAgrees, Cached, ApartInv, ClusterKnown, Quiet,
       Calm
<1>2. sect \in Disk /\ sect # 0 /\ csect \in Nat /\ csect < csize
  BY <1>1, SectorOwned DEF ApartInv
<1>3. fp.buf = SectorNow(sect) /\ fp.buf \in Sector
  BY <1>1, <1>2, Objects DEF Cached, SectorNow
<1>4. PICK z \in Nat :
         /\ z = Piece /\ z >= 1 /\ z <= req.left /\ (fp.fptr % SS) + z <= SS
         /\ fp.fptr % SS \in Nat
         /\ \A x \in Nat : x < z =>
              /\ (fp.fptr + x) \div SS = fp.fptr \div SS
              /\ (fp.fptr + x) % SS = (fp.fptr % SS) + x
         /\ \/ (fp.fptr + z) % SS = 0
            \/ (fp.fptr + z) \div SS = fp.fptr \div SS
  BY <1>1, PieceBounds
<1>5. PICK o \in Nat : o = fp.fptr % SS
  BY <1>4
<1>6. fp.fptr \in Nat /\ fp.fsize \in Nat /\ req.left \in Int /\ fp.fptr + req.left <= fp.fsize
  BY <1>1, Objects DEF FileInv, ByteInv, Within
<1>7. ASSUME NEW i \in 1 .. z PROVE fp.buf[o + i] = ByteAt(fp.fptr + (i - 1))
  <2>1. PICK x \in Nat : x = i - 1 /\ x < z
    BY <1>4
  <2>2. fp.fptr + x < fp.fsize
    BY <1>4, <1>6, <2>1
  <2>3. fp.fptr \div SS \in Nat
    BY <1>6, PositionSplit
  <2>4. (fp.fptr + x) \div SS = (fp.fptr \div SS) + 0 /\ (fp.fptr + x) % SS = o + x
    BY <1>4, <1>5, <2>1, <2>3
  <2>5. ByteAt(fp.fptr + x) = SectorNow(sect + 0)[((fp.fptr + x) % SS) + 1]
    BY <1>1, <1>2, <2>2, <2>4, BytesHere
  <2>6. sect + 0 = sect /\ (o + x) + 1 = o + i
    BY <1>1, <1>2, <1>5, <2>1, SectorOwned DEF ApartInv
  <2> QED
    BY <1>3, <2>1, <2>4, <2>5, <2>6
<1>8. out' = [i \in 1 .. z |-> ByteAt(fp.fptr + (i - 1))]
  <2>1. fp.buf \in Seq(Bytes) /\ Len(fp.buf) = SS
    BY <1>3, Constants DEF Sector
  <2>2. z \in Nat /\ o \in Nat /\ o + z <= Len(fp.buf)
    BY <1>4, <1>5, <2>1
  <2>3. [i \in 1 .. z |-> fp.buf[o + i]] = SubSeq(fp.buf, o + 1, o + z)
    BY <2>1, <2>2, PartIs
  <2>4. out' = SubSeq(fp.buf, o + 1, o + z)
    BY <1>1, <1>4, <1>5
  <2> QED
    BY <1>7, <2>3, <2>4
<1>9. OnSector' \/ (fp.dsect = sect /\ sect' = sect)
  <2>1. fp'.fptr = fp.fptr + z /\ fp'.clust = fp.clust
    BY <1>1, <1>4, AdvanceOK
  <2> QED
    BY <1>1, <1>4, <2>1 DEF OnSector, sect, csect
<1>10. fp' = Advance(z) /\ req' = [req EXCEPT !.left = @ - z]
  BY <1>1, <1>4
<1> QED
  BY <1>1, <1>4, <1>8, <1>9, <1>10, ReadPieceBytes

\* create_chain leaves the content alone.
LEMMA Stretched ==
  ASSUME FileInv, faults = 0, faults' = 0, NEW n \in Nat, NEW ch, NEW rest,
         Kept(n, ch, 0, rest),
         NEW k \in 0 .. n, NEW c, k = 0 => c = 0 /\ n = 0, k > 0 => c = ch[k],
         create_chain(c).ncl \in Owned,
         pc' # "remove", fat' = create_chain(c).fat, fs' = create_chain(c).fs,
         fp'.sclust = IF n = 0 THEN create_chain(c).ncl ELSE fp.sclust,
         Size' = Size, \A s \in Disk : SectorNow(s)' = SectorNow(s)
  PROVE  Content' = Content
<1>1. ApartInv /\ ByteInv /\ faults \in Nat /\ Chained(n, ch, 0, rest)
  BY DEF FileInv, Kept
<1>2. \E n2, ch2 :
            /\ n2 \in Nat /\ n <= n2 /\ k + 1 \in 1 .. n2
            /\ \A i \in 1 .. n : ch2[i] = ch[i]
            /\ Chained(n2, ch2, 0, rest)'
  BY <1>1, ChainedCreate
<1>3. PICK n2, ch2 :
            /\ n2 \in Nat /\ n <= n2
            /\ \A i \in 1 .. n : ch2[i] = ch[i]
            /\ Chained(n2, ch2, 0, rest)'
  BY <1>2
<1>4. Run(fat', fp'.sclust, n2, ch2) /\ n2 \in 0 .. n_fatent
  <2>1. fs'.free \in Nat /\ fs'.free + n2 + 0 <= n_fatent /\ Run(fat', fp'.sclust, n2, ch2)
    BY <1>3 DEF Chained, Counted
  <2> QED
    BY <1>3, <2>1, Constants
<1>5. /\ n \in 0 .. n_fatent /\ Run(fat, fp.sclust, n, ch)
      /\ Size \in Nat /\ Size <= n * bcs /\ n * bcs \in Nat
  BY <1>1, FileFits
<1>6. n * bcs <= n2 * bcs /\ n2 * bcs \in Nat
  BY <1>3, MultMono, Constants
<1>7. Size <= n2 * bcs
  BY <1>5, <1>6
<1> QED
  BY <1>3, <1>4, <1>5, <1>7, ContentKept

\* The end of f_write, at the end of its data or on a full disk.
LEMMA WriteReturnsBytes ==
  ASSUME FileInv, faults = 0, pc = "write", WriteReturns,
         UNCHANGED <<fat, fs, faults, disk, out>>
  PROVE  ByteInv' /\ [File!Next]_(File!vars)
<1>1. /\ ApartInv /\ ~ fp.err /\ CallAgrees /\ Within /\ Cached /\ fp \in FileObject
      /\ req.op = "write"
  BY Facts DEF FileInv, ByteInv, CallAgrees
<1>2. fp.fptr \in Nat /\ fp.fsize \in Nat /\ Request = req
  BY <1>1, Objects
<1>3. /\ fp'.fptr = fp.fptr /\ fp'.sclust = fp.sclust /\ fp'.clust = fp.clust
      /\ fp'.fsize = IF fp.fptr > fp.fsize THEN fp.fptr ELSE fp.fsize
      /\ fp'.dsect = fp.dsect /\ fp'.buf = fp.buf /\ (fp'.dirty <=> fp.dirty)
      /\ fp'.written /\ ~ fp'.err /\ fp'.write = fp.write
      /\ pc' = "idle" /\ req' = NoReq
  BY <1>1 DEF WriteReturns, End, FileObject
<1>4. ByteInv'
  <2>1. CallAgrees' /\ Seeks'
    BY <1>3 DEF CallAgrees, Seeks
  <2>2. Within'
    BY <1>2, <1>3 DEF Within
  <2>3. Cached'
    BY <1>1, <1>3 DEF Cached, OnSector, sect, csect
  <2> QED
    BY <1>3, <2>1, <2>2, <2>3 DEF ByteInv
<1>5. Size' = Size
  BY <1>1, <1>3 DEF Size, Writing, NoReq
<1>6. Content' = Content
  BY <1>3, <1>5, CacheSame, SameContent
<1>7. Position' = Position
  BY <1>3 DEF Position
<1>8. Request'.op = "none"
  BY <1>3 DEF Request, NoReq
<1>9. File!Return
  BY <1>1, <1>2, <1>3, <1>6, <1>7, <1>8 DEF File!Return
<1> QED
  BY <1>4, <1>9 DEF File!Next

\* A step of f_write that moves no byte.
LEMMA WriteUnseen ==
  ASSUME FileInv, faults = 0, faults' = 0, pc = "write", pc' \in {"wflush", "wcopy"},
         pc' = "wcopy" => ~ OnSector /\ fp'.clust = fp.clust, req' = req,
         fp'.fptr = fp.fptr, fp'.fsize = fp.fsize,
         fp'.dsect = fp.dsect, fp'.buf = fp.buf, fp'.dirty <=> fp.dirty,
         fp'.written <=> fp.written, ~ fp'.err, fp'.write = fp.write, out' = out, disk' = disk,
         Content' = Content
  PROVE  ByteInv' /\ [File!Next]_(File!vars)
<1>1. CallAgrees /\ Within /\ Cached /\ req.op = "write"
  BY DEF FileInv, ByteInv, CallAgrees
<1>2. ByteInv'
  <2>1. CallAgrees' /\ Seeks'
    BY <1>1 DEF CallAgrees, Seeks
  <2>2. Within'
    BY <1>1 DEF Within
  <2>3. Cached'
    BY <1>1 DEF Cached, OnSector, sect, csect
  <2> QED
    BY <2>1, <2>2, <2>3 DEF ByteInv
<1>3. Position' = Position /\ Request' = Request
  BY DEF Position, Request
<1> QED
  BY <1>2, <1>3, Unseen

\* f_write finds the cluster and the sector of the pointer, and stretches the chain.
LEMMA WriteClusterBytes ==
  ASSUME FileInv, ApartInv', KeptInv', faults = 0, faults' = 0, write_cluster
  PROVE  ByteInv' /\ [File!Next]_(File!vars)
<1> DEFINE start == IF fp.fptr = 0 THEN 0 ELSE fp.clust
           r == IF fp.fptr = 0 /\ fp.sclust # 0
                THEN [ncl |-> fp.sclust, fat |-> fat, fs |-> fs]
                ELSE create_chain(start)
<1>1. pc = "write" /\ UNCHANGED <<disk, dir, clst, ifptr, out, ops>>
  BY DEF write_cluster, Fault, WindowFault
<1>2. /\ ApartInv /\ KeptInv /\ ByteInv /\ ~ fp.err /\ CallAgrees /\ Within /\ Cached
      /\ req.op = "write" /\ fp \in FileObject
  BY <1>1, Facts DEF FileInv, ByteInv, CallAgrees
<1>3. ~ Fails
  BY DEF Fails
<1>4. \/ WriteReturns /\ UNCHANGED <<fat, fs, faults>>
      \/ /\ OnCluster /\ r.ncl >= 2
         /\ fat' = r.fat /\ fs' = r.fs
         /\ fp' = [fp EXCEPT !.clust = r.ncl, !.sclust = IF @ = 0 THEN r.ncl ELSE @]
         /\ pc' = "wflush" /\ req' = req
      \/ /\ ~ OnCluster /\ pc' = IF OnSector THEN "wflush" ELSE "wcopy"
         /\ UNCHANGED <<fat, fs, fp, req>>
  BY <1>3 DEF write_cluster, Fault, WindowFault
<1>5. CASE WriteReturns /\ UNCHANGED <<fat, fs, faults>>
  BY <1>1, <1>5, WriteReturnsBytes
<1>6. CASE /\ ~ OnCluster /\ pc' = IF OnSector THEN "wflush" ELSE "wcopy"
           /\ UNCHANGED <<fat, fs, fp, req>>
  <2>1. Size' = Size
    BY <1>6 DEF Size, Writing
  <2>2. Content' = Content
    BY <1>1, <1>6, <2>1, CacheSame, SameContent
  <2> QED
    BY <1>1, <1>2, <1>6, <2>2, WriteUnseen
<1>7. CASE /\ OnCluster /\ r.ncl >= 2
           /\ fat' = r.fat /\ fs' = r.fs
           /\ fp' = [fp EXCEPT !.clust = r.ncl, !.sclust = IF @ = 0 THEN r.ncl ELSE @]
           /\ pc' = "wflush" /\ req' = req
  <2>1. /\ fp'.fptr = fp.fptr /\ fp'.fsize = fp.fsize
        /\ fp'.dsect = fp.dsect /\ fp'.buf = fp.buf /\ (fp'.dirty <=> fp.dirty)
        /\ (fp'.written <=> fp.written) /\ ~ fp'.err /\ fp'.write = fp.write
        /\ fp'.sclust = IF fp.sclust = 0 THEN r.ncl ELSE fp.sclust
    BY <1>2, <1>7 DEF FileObject
  <2>2. Size' = Size
    BY <1>7, <2>1 DEF Size, Writing
  <2>3. \A s \in Disk : SectorNow(s)' = SectorNow(s)
    BY <1>1, <2>1, CacheSame
  <2>4. Content' = Content
    <3>1. CASE fp.fptr = 0 /\ fp.sclust # 0
      <4>1. fat' = fat /\ fp'.sclust = fp.sclust
        BY <1>7, <2>1, <3>1
      <4> QED
        BY <2>2, <2>3, <4>1, SameContent
    <3>2. CASE ~ (fp.fptr = 0 /\ fp.sclust # 0)
      <4>1. r = create_chain(start)
        BY <3>2
      <4>2. PICK n \in Nat : \E ch, rest : Kept(n, ch, 0, rest)
        BY <1>1, <1>2, KeptElim
      <4>3. PICK ch, rest : Kept(n, ch, 0, rest)
        BY <4>2
      <4>4. Run(fat, fp.sclust, n, ch) /\ Pointer(n, ch)
        BY <4>3 DEF Kept, Chained
      <4>5. fp.sclust = 0 <=> n = 0
        <5>1. fp.sclust \in Owned \cup {0}
          BY <1>2, Facts
        <5>2. n # 0 => fp.sclust \in Owned
          BY <4>2, <4>4 DEF Run
        <5>3. n = 0 => fp.sclust \notin Clusters
          BY <4>4 DEF Run
        <5> QED
          BY <5>1, <5>2, <5>3, Constants DEF Owned
      <4>6. PICK k \in 0 .. n : (k = 0 => start = 0 /\ n = 0) /\ (k > 0 => start = ch[k])
        <5>1. CASE fp.fptr = 0
          <6>1. 0 \in 0 .. n
            BY <4>2
          <6> QED
            BY <3>2, <4>5, <5>1, <6>1
        <5>2. CASE fp.fptr # 0
          <6>1. fp.fptr > 0
            BY <1>2, <5>2, Objects
          <6>2. PICK k \in 1 .. n : fp.clust = ch[k]
            BY <1>1, <1>2, <4>2, <4>4, <6>1, PointerAt
          <6>3. k \in 0 .. n /\ k > 0 /\ start = ch[k]
            BY <5>2, <6>2
          <6> QED
            BY <6>3
        <5> QED
          BY <5>1, <5>2
      <4>7. start \in Owned \cup {0}
        <5>1. k > 0 => ch[k] \in Owned
          BY <4>2, <4>4 DEF Run
        <5> QED
          BY <4>6, <5>1, <4>2
      <4> HIDE DEF start
      <4>8. create_chain(start).ncl \in Owned
        BY <1>2, <1>7, <4>1, <4>7, ChainApart, Facts
      <4>9. fp'.sclust = IF n = 0 THEN create_chain(start).ncl ELSE fp.sclust
        BY <2>1, <4>1, <4>5
      <4>10. fat' = create_chain(start).fat /\ fs' = create_chain(start).fs /\ pc' # "remove"
        BY <1>7, <4>1
      <4> QED
        BY <2>2, <2>3, <4>2, <4>3, <4>6, <4>8, <4>9, <4>10, Stretched
    <3> QED
      BY <3>1, <3>2
  <2> QED
    BY <1>1, <1>7, <2>1, <2>4, WriteUnseen
<1> QED
  BY <1>4, <1>5, <1>6, <1>7

\* f_write writes the cache back before it uses another sector.
LEMMA WriteFlushBytes ==
  ASSUME FileInv, ApartInv', KeptInv', faults = 0, faults' = 0, write_flush
  PROVE  ByteInv' /\ [File!Next]_(File!vars)
<1>1. pc = "wflush" /\ UNCHANGED <<fat, dir, fs, clst, ifptr, out, ops>>
  BY DEF write_flush, Fault, WindowFault
<1>2. /\ ApartInv /\ ByteInv /\ ~ fp.err /\ CallAgrees /\ Within /\ Cached /\ req.op = "write"
      /\ fp \in FileObject
  BY <1>1, Facts DEF FileInv, ByteInv, CallAgrees
<1>3. ~ Fails
  BY DEF Fails
<1>4. disk' = Flushed /\ fp' = [fp EXCEPT !.dirty = FALSE] /\ pc' = "wsect" /\ req' = req
  BY <1>3 DEF write_flush, Fault, WindowFault
<1>5. /\ fp'.fptr = fp.fptr /\ fp'.fsize = fp.fsize /\ fp'.sclust = fp.sclust
      /\ fp'.clust = fp.clust /\ fp'.dsect = fp.dsect /\ fp'.buf = fp.buf /\ ~ fp'.dirty
      /\ (fp'.written <=> fp.written) /\ ~ fp'.err /\ fp'.write = fp.write
  BY <1>2, <1>4 DEF FileObject
<1>6. \A s \in Disk : SectorNow(s)' = SectorNow(s) /\ disk'[s] = SectorNow(s)
  BY <1>2, <1>4, <1>5, FlushSame
<1>7. ByteInv'
  <2>1. CallAgrees' /\ Seeks'
    BY <1>2, <1>4 DEF CallAgrees, Seeks
  <2>2. Within'
    BY <1>2, <1>4, <1>5 DEF Within
  <2>3. fp.dsect # 0 => fp.buf = disk'[fp.dsect]
    <3>1. fp.dsect \in Disk \cup {0}
      BY <1>2, Objects
    <3>2. fp.dsect # 0 => fp.buf = SectorNow(fp.dsect)
      BY <1>1, <1>2 DEF Cached, SectorNow
    <3> QED
      BY <1>6, <3>1, <3>2
  <2>4. Cached'
    BY <1>4, <1>5, <2>3 DEF Cached
  <2> QED
    BY <1>5, <2>1, <2>2, <2>4 DEF ByteInv
<1>8. Size' = Size
  BY <1>2, <1>4, <1>5 DEF Size, Writing
<1>9. Content' = Content
  BY <1>1, <1>5, <1>6, <1>8, SameContent
<1>10. Position' = Position /\ Request' = Request
  BY <1>1, <1>4, <1>5 DEF Position, Request
<1> QED
  BY <1>1, <1>5, <1>7, <1>9, <1>10, Unseen

\* f_write fills the cache, unless the sector is new.
LEMMA WriteFillBytes ==
  ASSUME FileInv, ApartInv', KeptInv', faults = 0, faults' = 0, write_fill
  PROVE  ByteInv' /\ [File!Next]_(File!vars)
<1>1. pc = "wsect" /\ UNCHANGED <<fat, disk, dir, fs, clst, ifptr, out, ops>>
  BY DEF write_fill, Fault, WindowFault
<1>2. /\ ApartInv /\ ByteInv /\ ~ fp.err /\ CallAgrees /\ Within /\ Cached /\ req.op = "write"
      /\ fp \in FileObject /\ ~ fp.dirty /\ fp.fptr \in Nat /\ fp.fsize \in Nat
  BY <1>1, Facts DEF FileInv, ByteInv, CallAgrees, Cached
<1>3. ~ Fails
  BY DEF Fails
<1>4. /\ fp' = [fp EXCEPT !.dsect = sect,
                          !.buf = IF fp.dsect # sect /\ fp.fptr < fp.fsize
                                  THEN disk[sect] ELSE @]
      /\ pc' = "wcopy" /\ req' = req
  BY <1>3 DEF write_fill, Fault, WindowFault
<1>5. /\ fp'.fptr = fp.fptr /\ fp'.fsize = fp.fsize /\ fp'.sclust = fp.sclust
      /\ fp'.clust = fp.clust /\ fp'.dsect = sect /\ ~ fp'.dirty
      /\ fp'.buf = IF fp.dsect # sect /\ fp.fptr < fp.fsize THEN disk[sect] ELSE fp.buf
      /\ (fp'.written <=> fp.written) /\ ~ fp'.err /\ fp'.write = fp.write
  BY <1>2, <1>4 DEF FileObject
<1>6. sect' = sect /\ (OnSector' <=> OnSector)
  BY <1>5 DEF sect, csect, OnSector
<1>7. OnSector
  <2>1. PICK n \in 0 .. n_fatent : \E ch, rest : Kept(n, ch, 0, rest)
    BY <1>1, Transfer
  <2> QED
    BY <1>1, <2>1 DEF Kept, Pointer
<1>8. ByteInv'
  <2>1. CallAgrees' /\ Seeks'
    BY <1>2, <1>4 DEF CallAgrees, Seeks
  <2>2. Within'
    BY <1>2, <1>4, <1>5 DEF Within
  <2>3. Cached'
    BY <1>1, <1>2, <1>4, <1>5, <1>6, <1>7 DEF Cached
  <2> QED
    BY <1>5, <2>1, <2>2, <2>3 DEF ByteInv
<1>9. Size' = Size
  BY <1>2, <1>4, <1>5 DEF Size, Writing
<1>10. \A s \in Disk : SectorNow(s)' = SectorNow(s)
  BY <1>1, <1>2, <1>5 DEF SectorNow
<1>11. Content' = Content
  BY <1>1, <1>5, <1>9, <1>10, SameContent
<1>12. Position' = Position /\ Request' = Request
  BY <1>1, <1>4, <1>5 DEF Position, Request
<1> QED
  BY <1>1, <1>5, <1>8, <1>11, <1>12, Unseen

\* A piece of a write: the bytes of the piece change, and no other byte of the file.
LEMMA WritePieceIs ==
  ASSUME FileInv, faults = 0, faults' = 0, req.op = "write",
         pc \in {"wsect", "wcopy"}, pc' = "write",
         NEW x \in Nat, x >= 1, x <= req.left,
         fp'.fptr = fp.fptr + x, fp'.fsize = fp.fsize, fp'.write = fp.write, out' = out,
         req' = [req EXCEPT !.left = @ - x],
         \A j \in Nat : j < Size' =>
            ByteAt(j)' = IF fp.fptr <= j /\ j < fp.fptr + x THEN req.val ELSE ByteAt(j)
  PROVE  [File!Next]_(File!vars)
<1>1. /\ ApartInv /\ req \in Requests /\ fp.fptr \in Nat /\ fp.fsize \in Nat /\ req.left \in Int
      /\ Request = req
  BY Facts, Objects DEF FileInv
<1>2. Request' = [req EXCEPT !.left = @ - x] /\ req'.op = "write"
  BY <1>1 DEF Request, Requests
<1>3. Size' = IF fp.fptr + x > fp.fsize THEN fp.fptr + x ELSE fp.fsize
  BY <1>2 DEF Size, Writing
<1>4. Size = IF fp.fptr > fp.fsize THEN fp.fptr ELSE fp.fsize
  BY DEF Size, Writing
<1>5. /\ Size \in Nat /\ Len(Content) = Size
      /\ \A i \in 1 .. Size : Content[i] = ByteAt(i - 1)
  BY ContentTyped DEF ContentIs
<1>6. Size' = File!Larger(Len(Content), fp.fptr + x)
  <2>1. fp.fptr \in Nat /\ fp.fsize \in Nat
    BY <1>1
  <2>2. Size' = IF Size > fp.fptr + x THEN Size ELSE fp.fptr + x
    BY <1>3, <1>4, <2>1
  <2> QED
    BY <1>5, <2>2 DEF File!Larger
<1>7. ASSUME NEW i \in 1 .. Size'
      PROVE  ByteAt(i - 1)' = IF i \in fp.fptr + 1 .. fp.fptr + x THEN req.val ELSE Content[i]
  <2>1. Size' \in Nat
    BY <1>1, <1>3
  <2>2. PICK j \in Nat : j = i - 1 /\ j < Size'
    BY <2>1
  <2>3. i \in fp.fptr + 1 .. fp.fptr + x <=> fp.fptr <= j /\ j < fp.fptr + x
    BY <1>1, <2>2
  <2>4. ~ (fp.fptr <= j /\ j < fp.fptr + x) => i \in 1 .. Size
    BY <1>1, <1>3, <1>4, <2>1, <2>2
  <2>5. ByteAt(j)' = IF fp.fptr <= j /\ j < fp.fptr + x THEN req.val ELSE ByteAt(j)
    BY <2>2
  <2> QED
    BY <1>5, <2>2, <2>3, <2>4, <2>5
<1>8. Content' = [i \in 1 .. File!Larger(Len(Content), fp.fptr + x) |->
                    IF i \in fp.fptr + 1 .. fp.fptr + x THEN req.val ELSE Content[i]]
  BY <1>6, <1>7 DEF Content
<1>9. Position = fp.fptr /\ Position' = fp.fptr + x
  BY DEF Position
<1>10. x \in 1 .. req.left
  BY <1>1
<1>11. File!WritePiece
  BY <1>1, <1>2, <1>8, <1>9, <1>10 DEF File!WritePiece
<1> QED
  BY <1>11 DEF File!Next

\* f_write writes whole sectors to the disk.
LEMMA WriteDirectBytes ==
  ASSUME FileInv, ApartInv', KeptInv', faults = 0, faults' = 0, write_direct
  PROVE  ByteInv' /\ [File!Next]_(File!vars)
<1>1. /\ pc = "wsect" /\ Rest > 0 /\ UNCHANGED <<fat, dir, fs, clst, ifptr, out, ops>>
  BY DEF write_direct, Fault, WindowFault
<1>2. /\ ApartInv /\ ByteInv /\ ~ fp.err /\ CallAgrees /\ Within /\ Cached /\ req.op = "write"
      /\ fp \in FileObject /\ ~ fp.dirty /\ fp.fptr \in Nat /\ fp.fsize \in Nat
      /\ fp.clust \in Owned /\ req \in Requests
  BY <1>1, Facts DEF FileInv, ByteInv, CallAgrees, Cached, ApartInv, ClusterKnown
<1>3. ~ Fails
  BY DEF Fails
<1>4. /\ disk' = [s \in DOMAIN disk |->
                     IF s \in sect .. sect + cc - 1 THEN Filled(req.val) ELSE disk[s]]
      /\ fp' = [Advance(cc * SS) EXCEPT !.buf = Refill(sect, cc)]
      /\ req' = [req EXCEPT !.left = @ - cc * SS] /\ pc' = "write"
  BY <1>3 DEF write_direct, Fault, WindowFault
<1>5. PICK n \in 0 .. n_fatent : \E ch, rest : \E k \in 1 .. n :
           /\ n \in Nat /\ Run(fat, fp.sclust, n, ch) /\ Kept(n, ch, 0, rest)
           /\ n * bcs \in Nat
           /\ fp.clust = ch[k] /\ ch[k] \in Owned
           /\ (k - 1) * bcs <= fp.fptr /\ fp.fptr < k * bcs
           /\ k * bcs \in Nat /\ k * bcs <= n * bcs
  BY <1>1, Transfer
<1>6. PICK ch, rest : \E k \in 1 .. n :
           /\ n \in Nat /\ Run(fat, fp.sclust, n, ch) /\ Kept(n, ch, 0, rest)
           /\ n * bcs \in Nat
           /\ fp.clust = ch[k] /\ ch[k] \in Owned
           /\ (k - 1) * bcs <= fp.fptr /\ fp.fptr < k * bcs
           /\ k * bcs \in Nat /\ k * bcs <= n * bcs
  BY <1>5
<1>7. PICK k \in 1 .. n :
           /\ n \in Nat /\ Run(fat, fp.sclust, n, ch) /\ Kept(n, ch, 0, rest)
           /\ n * bcs \in Nat
           /\ fp.clust = ch[k] /\ ch[k] \in Owned
           /\ (k - 1) * bcs <= fp.fptr /\ fp.fptr < k * bcs
           /\ k * bcs \in Nat /\ k * bcs <= n * bcs
  BY <1>6
<1>8. OnSector /\ fp.fsize <= n * bcs /\ Pointer(n, ch)
  BY <1>1, <1>7 DEF Kept, Pointer
<1>9. PICK z \in Nat :
         /\ z = cc * SS /\ z >= 1 /\ z <= req.left /\ (fp.fptr + z) % SS = 0
         /\ csect \in Nat /\ cc \in Nat /\ csect + cc <= csize
         /\ \A x \in Nat : x < z =>
              /\ (fp.fptr + x) \div SS = (fp.fptr \div SS) + (x \div SS)
              /\ x \div SS \in Nat /\ x \div SS < cc
              /\ (fp.fptr + x) % SS = x % SS
  BY <1>1, <1>2, <1>8, WholeBounds
<1>10. fp.fptr + z <= n * bcs
  <2>1. \E j \in 1 .. n : fp.fptr + cc * SS <= j * bcs
    BY <1>1, <1>2, <1>7, <1>8, WholeMoves
  <2>2. PICK j \in 1 .. n : fp.fptr + z <= j * bcs
    BY <1>9, <2>1
  <2>3. j * bcs <= n * bcs /\ j * bcs \in Nat
    BY <1>7, MultMono, Constants
  <2> QED
    BY <1>2, <1>7, <2>2, <2>3
<1>11. /\ fp'.fptr = fp.fptr + z /\ fp'.fsize = fp.fsize /\ fp'.sclust = fp.sclust
       /\ fp'.dsect = fp.dsect /\ fp'.buf = Refill(sect, cc) /\ ~ fp'.dirty
       /\ (fp'.written <=> fp.written) /\ ~ fp'.err /\ fp'.write = fp.write
       /\ req'.op = "write" /\ req' = [req EXCEPT !.left = @ - z]
  BY <1>2, <1>4, <1>9 DEF Advance, FileObject, Requests
<1>12. disk \in [Disk -> Sector] /\ fp.dsect \in Disk \cup {0}
  BY <1>2, Objects
<1>13. /\ sect \in Nat
       /\ \A s \in Disk :
             disk'[s] = IF s \in sect .. sect + cc - 1 THEN Filled(req.val) ELSE disk[s]
  BY <1>2, <1>4, <1>12, SectorOwned DEF ApartInv
<1>14. ByteInv'
  <2>1. CallAgrees' /\ Seeks' /\ Within'
    BY <1>4, <1>11 DEF CallAgrees, Seeks, Within
  <2>2. OnSector'
    BY <1>9, <1>11 DEF OnSector
  <2>3. fp.dsect # 0 => Refill(sect, cc) = disk'[fp.dsect]
    BY <1>1, <1>2, <1>12, <1>13 DEF Refill, Cached
  <2>4. Cached'
    BY <1>4, <1>11, <2>2, <2>3 DEF Cached
  <2> QED
    BY <1>11, <2>1, <2>4 DEF ByteInv
<1>15. ASSUME NEW j \in Nat, j < n * bcs
       PROVE  ByteAt(j)' = IF fp.fptr <= j /\ j < fp.fptr + z THEN req.val ELSE ByteAt(j)
  <2>1. ByteAt(j) = SectorNow(FileSector(ch, j \div SS))[(j % SS) + 1]
    BY <1>7, <1>15, BytesAre DEF BytesOfChain
  <2>2. ByteAt(j)' = SectorNow(FileSector(ch, j \div SS))'[(j % SS) + 1]
    <3>1. Run(fat', fp'.sclust, n, ch)
      BY <1>1, <1>7, <1>11
    <3> QED
      BY <1>15, <3>1, BytesAreNext DEF BytesOfChain
  <2>3. PICK q \in Nat, o \in Nat :
          o < SS /\ q * SS \in Nat /\ j = q * SS + o /\ j \div SS = q /\ j % SS = o
    BY SectorSplit
  <2>4. q < n * csize
    BY <1>7, <1>15, <2>3, InChain
  <2>5. PICK s \in Disk : s = FileSector(ch, q)
    BY <1>7, <2>4, SectorsApart
  <2>6. SectorNow(s) = disk[s] /\ SectorNow(s)' = disk'[s]
    BY <1>2, <1>11 DEF SectorNow
  <2>7. CASE fp.fptr <= j /\ j < fp.fptr + z
    <3>1. PICK x \in Nat : x = j - fp.fptr /\ x < z /\ fp.fptr + x = j
      BY <1>2, <1>9, <2>7
    <3>2. PICK y \in Nat : y = x \div SS /\ y < cc /\ q = (fp.fptr \div SS) + y /\ csect + y < csize
      BY <1>9, <2>3, <3>1, Constants
    <3>3. s = sect + y
      BY <1>2, <1>7, <2>5, <3>2, SectAfter
    <3>4. s \in sect .. sect + cc - 1
      BY <1>9, <1>13, <3>2, <3>3
    <3>5. Filled(req.val)[o + 1] = req.val
      BY <2>3, Constants DEF Filled
    <3> QED
      BY <1>13, <2>2, <2>3, <2>5, <2>6, <2>7, <3>4, <3>5
  <2>8. CASE ~ (fp.fptr <= j /\ j < fp.fptr + z)
    <3>1. s \notin sect .. sect + cc - 1
      <4> SUFFICES ASSUME s \in sect .. sect + cc - 1 PROVE FALSE
        OBVIOUS
      <4>1. PICK y \in Nat : s = sect + y /\ y < cc /\ csect + y < csize
        <5>1. s - sect \in Nat /\ s = sect + (s - sect) /\ s - sect < cc
          BY <1>9, <1>13
        <5> QED
          BY <1>9, <5>1, Constants
      <4>2. FileSector(ch, (fp.fptr \div SS) + y) = s
        BY <1>2, <1>7, <4>1, SectAfter
      <4>3. PICK p \in Nat : fp.fptr = p * SS /\ p = fp.fptr \div SS /\ p * SS \in Nat
        <5>1. PICK p \in Nat, e \in Nat :
                p * SS \in Nat /\ fp.fptr = p * SS + e /\ fp.fptr \div SS = p /\ fp.fptr % SS = e
          BY <1>2, SectorSplit
        <5> QED
          BY <1>8, <5>1 DEF OnSector
      <4>4. (p + y) * SS = p * SS + y * SS /\ y * SS \in Nat /\ (y + 1) * SS <= cc * SS
            /\ (y + 1) * SS = y * SS + SS
        BY <1>9, <4>1, <4>3, MultMono, Constants
      <4>5. p + y < n * csize
        <5>1. fp.fptr + y * SS < n * bcs
          BY <1>2, <1>7, <1>9, <1>10, <4>3, <4>4, Constants
        <5>2. PICK i \in Nat : i = fp.fptr + y * SS /\ i = (p + y) * SS + 0
          BY <1>2, <4>3, <4>4
        <5>3. i \div SS = p + y
          BY <4>1, <4>3, <5>2, DivOf, Constants
        <5> QED
          BY <1>7, <5>1, <5>2, <5>3, InChain
      <4>6. q = p + y
        BY <1>7, <2>4, <2>5, <4>2, <4>3, <4>5, SectorsApart
      <4>7. fp.fptr <= j /\ j < fp.fptr + z
        <5>1. q * SS = fp.fptr + y * SS
          BY <4>3, <4>4, <4>6
        <5> QED
          BY <1>2, <1>9, <2>3, <4>3, <4>4, <5>1, Constants
      <4> QED
        BY <2>8, <4>7
    <3> QED
      BY <1>13, <2>1, <2>2, <2>3, <2>5, <2>6, <2>8, <3>1
  <2> QED
    BY <2>7, <2>8
<1>16. ASSUME NEW j \in Nat, j < Size' PROVE j < n * bcs
  <2>1. Size' = IF fp.fptr + z > fp.fsize THEN fp.fptr + z ELSE fp.fsize
    BY <1>11 DEF Size, Writing
  <2> QED
    BY <1>2, <1>7, <1>8, <1>9, <1>10, <1>16, <2>1
<1>17. [File!Next]_(File!vars)
  BY <1>1, <1>2, <1>4, <1>9, <1>11, <1>15, <1>16, WritePieceIs
<1> QED
  BY <1>14, <1>17

\* f_write copies a part of a sector into the cache.
LEMMA WriteCopyBytes ==
  ASSUME FileInv, ApartInv', KeptInv', faults = 0, write_copy
  PROVE  ByteInv' /\ [File!Next]_(File!vars)
<1>1. /\ pc = "wcopy" /\ pc' = "write"
      /\ UNCHANGED <<fat, fs, clst, ifptr, dir, ops, faults, disk, out>>
      /\ req' = [req EXCEPT !.left = @ - Piece]
      /\ fp' = [Advance(Piece) EXCEPT !.dirty = TRUE,
                  !.buf = [i \in 1 .. SS |-> IF i \in (fp.fptr % SS) + 1 .. (fp.fptr % SS) + Piece
                                             THEN req.val ELSE fp.buf[i]]]
  BY DEF write_copy, Quiet, Calm
<1>2. /\ ApartInv /\ ByteInv /\ ~ fp.err /\ CallAgrees /\ Within /\ Cached /\ req.op = "write"
      /\ fp \in FileObject /\ fp.fptr \in Nat /\ fp.fsize \in Nat
      /\ fp.clust \in Owned /\ req \in Requests /\ fp.dsect = sect /\ req.left > 0
  BY <1>1, Facts DEF FileInv, ByteInv, CallAgrees, Cached, ApartInv, ClusterKnown
<1>3. sect \in Disk /\ sect # 0
  BY <1>2, SectorOwned DEF ApartInv
<1>4. PICK n \in 0 .. n_fatent : \E ch, rest : \E k \in 1 .. n :
           /\ n \in Nat /\ Run(fat, fp.sclust, n, ch) /\ Kept(n, ch, 0, rest)
           /\ n * bcs \in Nat
           /\ fp.clust = ch[k] /\ ch[k] \in Owned
           /\ (k - 1) * bcs <= fp.fptr /\ fp.fptr < k * bcs
           /\ k * bcs \in Nat /\ k * bcs <= n * bcs
  BY <1>1, Transfer
<1>5. PICK ch, rest : \E k \in 1 .. n :
           /\ n \in Nat /\ Run(fat, fp.sclust, n, ch) /\ Kept(n, ch, 0, rest)
           /\ n * bcs \in Nat
           /\ fp.clust = ch[k] /\ ch[k] \in Owned
           /\ (k - 1) * bcs <= fp.fptr /\ fp.fptr < k * bcs
           /\ k * bcs \in Nat /\ k * bcs <= n * bcs
  BY <1>4
<1>6. PICK k \in 1 .. n :
           /\ n \in Nat /\ Run(fat, fp.sclust, n, ch) /\ Kept(n, ch, 0, rest)
           /\ n * bcs \in Nat
           /\ fp.clust = ch[k] /\ ch[k] \in Owned
           /\ (k - 1) * bcs <= fp.fptr /\ fp.fptr < k * bcs
           /\ k * bcs \in Nat /\ k * bcs <= n * bcs
  BY <1>5
<1>7. fp.fsize <= n * bcs /\ Pointer(n, ch)
  BY <1>6 DEF Kept
<1>8. PICK z \in Nat :
         /\ z = Piece /\ z >= 1 /\ z <= req.left /\ (fp.fptr % SS) + z <= SS
         /\ fp.fptr % SS \in Nat
         /\ \A x \in Nat : x < z =>
              /\ (fp.fptr + x) \div SS = fp.fptr \div SS
              /\ (fp.fptr + x) % SS = (fp.fptr % SS) + x
         /\ \/ (fp.fptr + z) % SS = 0
            \/ (fp.fptr + z) \div SS = fp.fptr \div SS
  BY <1>2, PieceBounds
<1>9. PICK Q \in Nat, at \in Nat :
         /\ at < SS /\ Q * SS \in Nat /\ fp.fptr = Q * SS + at
         /\ fp.fptr \div SS = Q /\ fp.fptr % SS = at
  BY <1>2, SectorSplit
<1>10. fp.fptr + z <= n * bcs
  <2>1. \E j \in 1 .. n : fp.fptr + Piece <= j * bcs
    BY <1>1, <1>2, <1>6, <1>7, PieceMoves
  <2>2. PICK j \in 1 .. n : fp.fptr + z <= j * bcs
    BY <1>8, <2>1
  <2>3. j * bcs <= n * bcs /\ j * bcs \in Nat
    BY <1>6, MultMono, Constants
  <2> QED
    BY <1>2, <1>6, <2>2, <2>3
<1>11. /\ fp'.fptr = fp.fptr + z /\ fp'.fsize = fp.fsize /\ fp'.sclust = fp.sclust
       /\ fp'.clust = fp.clust /\ fp'.dsect = sect /\ fp'.dirty
       /\ fp'.buf = [i \in 1 .. SS |-> IF i \in at + 1 .. at + z THEN req.val ELSE fp.buf[i]]
       /\ (fp'.written <=> fp.written) /\ ~ fp'.err /\ fp'.write = fp.write
       /\ req'.op = "write" /\ req' = [req EXCEPT !.left = @ - z]
  BY <1>1, <1>2, <1>8, <1>9 DEF Advance, FileObject, Requests
<1>12. ByteInv'
  <2>1. CallAgrees' /\ Seeks' /\ Within'
    BY <1>1, <1>11 DEF CallAgrees, Seeks, Within
  <2>2. OnSector' \/ sect' = sect
    BY <1>8, <1>11 DEF OnSector, sect, csect
  <2>3. Cached'
    BY <1>1, <1>3, <1>11, <2>2 DEF Cached
  <2> QED
    BY <1>11, <2>1, <2>3 DEF ByteInv
<1>13. sect = FileSector(ch, Q) /\ Q < n * csize
  <2>1. sect = FileSector(ch, Q)
    BY <1>2, <1>6, <1>9, SectHere
  <2>2. fp.fptr < n * bcs
    BY <1>2, <1>6
  <2> QED
    BY <1>2, <1>6, <1>9, <2>1, <2>2, InChain
<1>14. fp.buf = SectorNow(sect) \/ (at = 0 /\ fp.fptr >= fp.fsize)
  BY <1>1, <1>2, <1>3, <1>9 DEF Cached, SectorNow, OnSector
<1>15. Size' = IF fp.fptr + z > fp.fsize THEN fp.fptr + z ELSE fp.fsize
  BY <1>11 DEF Size, Writing
<1>16. ASSUME NEW j \in Nat, j < Size'
       PROVE  ByteAt(j)' = IF fp.fptr <= j /\ j < fp.fptr + z THEN req.val ELSE ByteAt(j)
  <2>1. j < n * bcs
    BY <1>2, <1>6, <1>7, <1>10, <1>15, <1>16
  <2>2. ByteAt(j) = SectorNow(FileSector(ch, j \div SS))[(j % SS) + 1]
    BY <1>6, <2>1, BytesAre DEF BytesOfChain
  <2>3. ByteAt(j)' = SectorNow(FileSector(ch, j \div SS))'[(j % SS) + 1]
    <3>1. Run(fat', fp'.sclust, n, ch)
      BY <1>1, <1>6, <1>11
    <3> QED
      BY <2>1, <3>1, BytesAreNext DEF BytesOfChain
  <2>4. PICK q \in Nat, o \in Nat :
          o < SS /\ q * SS \in Nat /\ j = q * SS + o /\ j \div SS = q /\ j % SS = o
    BY SectorSplit
  <2>5. q < n * csize
    BY <1>6, <2>1, <2>4, InChain
  <2>6. PICK s \in Disk : s = FileSector(ch, q)
    BY <1>6, <2>5, SectorsApart
  <2>7. s = sect <=> q = Q
    BY <1>6, <1>9, <1>13, <2>4, <2>5, <2>6, SectorsApart
  <2>8. SectorNow(s)' = IF s = sect THEN fp'.buf ELSE disk[s]
    BY <1>1, <1>11 DEF SectorNow
  <2>9. CASE q # Q
    <3>1. SectorNow(s) = disk[s] /\ SectorNow(s)' = disk[s]
      BY <1>2, <2>7, <2>8, <2>9 DEF SectorNow
    <3>2. ~ (fp.fptr <= j /\ j < fp.fptr + z)
      <4> SUFFICES ASSUME fp.fptr <= j, j < fp.fptr + z PROVE FALSE
        OBVIOUS
      <4>1. PICK x \in Nat : fp.fptr + x = j /\ x < z
        <5>1. j - fp.fptr \in Nat /\ fp.fptr + (j - fp.fptr) = j /\ j - fp.fptr < z
          BY <1>2, <1>8
        <5> QED
          BY <5>1
      <4> QED
        BY <1>8, <1>9, <2>4, <2>9, <4>1
    <3> QED
      BY <2>2, <2>3, <2>4, <2>6, <3>1, <3>2
  <2>10. CASE q = Q
    <3>1. o + 1 \in 1 .. SS
      BY <2>4, Constants
    <3>2. fp'.buf[o + 1] = IF o + 1 \in at + 1 .. at + z THEN req.val ELSE fp.buf[o + 1]
      BY <1>11, <3>1
    <3>3. o + 1 \in at + 1 .. at + z <=> fp.fptr <= j /\ j < fp.fptr + z
      BY <1>8, <1>9, <2>4, <2>10
    <3>4. ByteAt(j)' = fp'.buf[o + 1]
      BY <2>3, <2>4, <2>6, <2>7, <2>8, <2>10
    <3>5. CASE fp.fptr <= j /\ j < fp.fptr + z
      BY <3>2, <3>3, <3>4, <3>5
    <3>6. CASE ~ (fp.fptr <= j /\ j < fp.fptr + z)
      <4>1. ~ (at = 0 /\ fp.fptr >= fp.fsize)
        BY <1>2, <1>8, <1>9, <1>15, <1>16, <2>4, <2>10, <3>6
      <4>2. fp.buf = SectorNow(sect)
        BY <1>14, <4>1
      <4> QED
        BY <2>2, <2>4, <2>6, <2>7, <2>10, <3>2, <3>3, <3>4, <3>6, <4>2
    <3> QED
      BY <3>5, <3>6
  <2> QED
    BY <2>9, <2>10
<1>17. [File!Next]_(File!vars)
  BY <1>1, <1>2, <1>8, <1>11, <1>16, WritePieceIs
<1> QED
  BY <1>12, <1>17

\* A step of f_lseek on the way to its goal.
LEMMA SeekUnseen ==
  ASSUME FileInv, faults = 0, faults' = 0, pc \in {"seek", "sloop"}, pc' \in {"sloop", "sfill"},
         fp'.fsize = fp.fsize, fp'.dsect = fp.dsect, fp'.buf = fp.buf, fp'.dirty <=> fp.dirty,
         fp'.written <=> fp.written, ~ fp'.err, fp'.write = fp.write, out' = out, disk' = disk,
         NEW l, req' = [req EXCEPT !.left = l], ifptr' = Position, Content' = Content, Seeks'
  PROVE  ByteInv' /\ [File!Next]_(File!vars)
<1>1. CallAgrees /\ Within /\ Cached /\ req.op = "seek" /\ req \in Requests
  BY Facts DEF FileInv, ByteInv, CallAgrees
<1>2. req'.op = "seek"
  BY <1>1 DEF Requests
<1>3. ByteInv'
  <2>1. CallAgrees' /\ Within'
    BY <1>2 DEF CallAgrees, Within
  <2>2. Cached'
    BY <1>1 DEF Cached
  <2> QED
    BY <2>1, <2>2 DEF ByteInv
<1>4. Position' = Position
  BY DEF Position
<1>5. Request' = Request
  BY <1>1, <1>2 DEF Request, Requests
<1> QED
  BY <1>3, <1>4, <1>5, Unseen

\* The goal of a seek does not move.
LEMMA GoalStays ==
  ASSUME req'.ofs = req.ofs, fp'.fsize = fp.fsize, fp'.write = fp.write
  PROVE  Clipped' = Clipped
BY DEF Clipped

\* f_lseek starts from the current cluster or from the first one.
LEMMA SeekStartBytes ==
  ASSUME FileInv, ApartInv', KeptInv', faults = 0, faults' = 0, seek_start
  PROVE  ByteInv' /\ [File!Next]_(File!vars)
<1> DEFINE base == ((fp.fptr - 1) \div bcs) * bcs
           r == create_chain(0)
<1>1. pc = "seek" /\ ifptr' = fp.fptr /\ UNCHANGED <<disk, dir, out, ops>>
  BY DEF seek_start, Fault, WindowFault
<1>2. /\ ApartInv /\ KeptInv /\ ByteInv /\ ~ fp.err /\ CallAgrees /\ Within /\ Cached
      /\ req.op = "seek" /\ fp \in FileObject /\ fp.fptr \in Nat /\ fp.fsize \in Nat
      /\ req \in Requests /\ req.ofs \in Nat
  BY <1>1, Facts DEF FileInv, ByteInv, CallAgrees
<1>3. ~ Fails
  BY DEF Fails
<1>4. Clipped \in Nat
  BY <1>2 DEF Clipped
<1>5. Position = fp.fptr
  BY <1>1 DEF Position
<1>6. \/ /\ Clipped = 0
         /\ fp' = [fp EXCEPT !.fptr = 0]
         /\ pc' = "sfill" /\ UNCHANGED <<fat, fs, req>>
      \/ /\ Clipped # 0 /\ SameOrLater
         /\ fp' = [fp EXCEPT !.fptr = base]
         /\ req' = [req EXCEPT !.left = Clipped - base]
         /\ pc' = "sloop" /\ UNCHANGED <<fat, fs>>
      \/ /\ Clipped # 0 /\ ~ SameOrLater /\ fp.sclust # 0
         /\ fp' = [fp EXCEPT !.fptr = 0, !.clust = fp.sclust]
         /\ req' = [req EXCEPT !.left = Clipped]
         /\ pc' = "sloop" /\ UNCHANGED <<fat, fs>>
      \/ /\ Clipped # 0 /\ ~ SameOrLater /\ fp.sclust = 0
         /\ fp' = [fp EXCEPT !.fptr = 0, !.clust = r.ncl, !.sclust = r.ncl]
         /\ req' = [req EXCEPT !.left = Clipped]
         /\ pc' = (IF r.ncl = 0 THEN "sfill" ELSE "sloop")
  BY <1>3, ZenonT(60) DEF seek_start, Fault, WindowFault
<1>7. PICK c, d, p, g :
        /\ fp' = [fp EXCEPT !.fptr = p, !.clust = c, !.sclust = d]
        /\ req' = [req EXCEPT !.left = g]
        /\ \/ p = 0 /\ Clipped = 0 /\ pc' = "sfill"
           \/ p = base /\ SameOrLater /\ Clipped # 0 /\ g = Clipped - base /\ pc' = "sloop"
           \/ p = 0 /\ g = Clipped /\ pc' = "sloop"
           \/ p = 0 /\ Clipped # 0 /\ fp.sclust = 0 /\ pc' = "sfill"
        /\ (d = fp.sclust /\ fat' = fat) \/ fp.sclust = 0
  <2>1. fp = [fp EXCEPT !.clust = fp.clust] /\ fp = [fp EXCEPT !.sclust = fp.sclust]
    BY <1>2 DEF FileObject
  <2>2. req = [req EXCEPT !.left = req.left]
    BY <1>2 DEF Requests
  <2>3. CASE /\ Clipped = 0
             /\ fp' = [fp EXCEPT !.fptr = 0]
             /\ pc' = "sfill" /\ UNCHANGED <<fat, fs, req>>
    <3>1. fp' = [fp EXCEPT !.fptr = 0, !.clust = fp.clust, !.sclust = fp.sclust]
      BY <1>2, <2>3 DEF FileObject
    <3>2. req' = [req EXCEPT !.left = req.left]
      BY <2>2, <2>3
    <3> QED
      BY <2>3, <3>1, <3>2
  <2>4. CASE /\ Clipped # 0 /\ SameOrLater
             /\ fp' = [fp EXCEPT !.fptr = base]
             /\ req' = [req EXCEPT !.left = Clipped - base]
             /\ pc' = "sloop" /\ UNCHANGED <<fat, fs>>
    <3> HIDE DEF base
    <3>1. fp' = [fp EXCEPT !.fptr = base, !.clust = fp.clust, !.sclust = fp.sclust]
      BY <1>2, <2>4 DEF FileObject
    <3> QED
      BY <2>4, <3>1
  <2>5. CASE /\ Clipped # 0 /\ ~ SameOrLater /\ fp.sclust # 0
             /\ fp' = [fp EXCEPT !.fptr = 0, !.clust = fp.sclust]
             /\ req' = [req EXCEPT !.left = Clipped]
             /\ pc' = "sloop" /\ UNCHANGED <<fat, fs>>
    <3>1. fp' = [fp EXCEPT !.fptr = 0, !.clust = fp.sclust, !.sclust = fp.sclust]
      BY <1>2, <2>5 DEF FileObject
    <3> QED
      BY <2>5, <3>1
  <2>6. CASE /\ Clipped # 0 /\ ~ SameOrLater /\ fp.sclust = 0
             /\ fp' = [fp EXCEPT !.fptr = 0, !.clust = r.ncl, !.sclust = r.ncl]
             /\ req' = [req EXCEPT !.left = Clipped]
             /\ pc' = (IF r.ncl = 0 THEN "sfill" ELSE "sloop")
    <3> HIDE DEF r
    <3> QED
      BY <2>6
  <2> QED
    BY <1>6, <2>3, <2>4, <2>5, <2>6
<1>8. /\ fp'.fptr = p /\ fp'.fsize = fp.fsize /\ fp'.sclust = d
      /\ fp'.dsect = fp.dsect /\ fp'.buf = fp.buf /\ (fp'.dirty <=> fp.dirty)
      /\ (fp'.written <=> fp.written) /\ ~ fp'.err /\ fp'.write = fp.write
      /\ req'.ofs = req.ofs /\ req'.left = g /\ req'.op = "seek"
  BY <1>2, <1>7 DEF FileObject, Requests
<1>9. fp.sclust = 0 => fp.fsize = 0
  <2>1. PICK n \in Nat : \E ch, rest : Kept(n, ch, 0, rest)
    BY <1>1, <1>2, KeptElim
  <2>2. PICK ch, rest : Run(fat, fp.sclust, n, ch) /\ fp.fsize <= n * bcs
    BY <2>1 DEF Kept, Chained
  <2>3. n # 0 => fp.sclust \in Owned
    BY <2>1, <2>2 DEF Run
  <2>4. n = 0 => n * bcs = 0
    BY Constants
  <2> QED
    BY <1>2, <2>2, <2>3, <2>4, Constants DEF Owned
<1>10. Clipped' = Clipped
  BY <1>8, GoalStays
<1>11. Seeks'
  <2>1. CASE p = 0 /\ Clipped = 0 /\ pc' = "sfill"
    <3>1. OnSector'
      BY <1>8, <2>1, Constants DEF OnSector
    <3> QED
      BY <1>8, <1>10, <2>1, <3>1 DEF Seeks
  <2>2. CASE p = base /\ SameOrLater /\ Clipped # 0 /\ g = Clipped - base /\ pc' = "sloop"
    <3>1. base \in Nat
      BY <1>2, <1>4, <2>2, SeekBase DEF SameOrLater
    <3> HIDE DEF base
    <3>2. p + g = Clipped
      BY <1>4, <2>2, <3>1
    <3> QED
      BY <1>8, <1>10, <2>2, <3>2 DEF Seeks
  <2>3. CASE p = 0 /\ g = Clipped /\ pc' = "sloop"
    BY <1>4, <1>8, <1>10, <2>3 DEF Seeks
  <2>4. CASE p = 0 /\ Clipped # 0 /\ fp.sclust = 0 /\ pc' = "sfill"
    <3>1. OnSector'
      BY <1>8, <2>4, Constants DEF OnSector
    <3>2. fp.write /\ Clipped > fp.fsize
      BY <1>2, <1>4, <1>9, <2>4 DEF Clipped
    <3> QED
      BY <1>4, <1>8, <1>10, <2>4, <3>1, <3>2 DEF Seeks
  <2> QED
    BY <1>7, <2>1, <2>2, <2>3, <2>4
<1>12. Content' = Content
  <2>1. Size = fp.fsize /\ Size' = fp.fsize
    BY <1>2, <1>8 DEF Size, Writing
  <2>2. CASE d = fp.sclust /\ fat' = fat
    BY <1>1, <1>8, <2>1, <2>2, CacheSame, SameContent
  <2>3. CASE fp.sclust = 0
    BY <1>9, <2>1, <2>3 DEF Content
  <2> QED
    BY <1>7, <2>2, <2>3
<1>13. pc' \in {"sloop", "sfill"}
  BY <1>7
<1> QED
  BY <1>1, <1>5, <1>7, <1>8, <1>11, <1>12, <1>13, SeekUnseen

\* f_lseek arrives in the cluster of its goal.
LEMMA SeekArriveBytes ==
  ASSUME FileInv, ApartInv', KeptInv', faults = 0, seek_arrive
  PROVE  ByteInv' /\ [File!Next]_(File!vars)
<1>1. /\ pc = "sloop" /\ pc' = "sfill"
      /\ UNCHANGED <<fat, fs, clst, ifptr, dir, ops, faults, disk, out, req>>
      /\ ~ TooFar /\ fp' = [fp EXCEPT !.fptr = @ + req.left]
  BY DEF seek_arrive, Quiet, Calm
<1>2. /\ ApartInv /\ KeptInv /\ ByteInv /\ ~ fp.err /\ CallAgrees /\ Within /\ Cached /\ Seeks
      /\ req.op = "seek" /\ fp \in FileObject /\ fp.fptr \in Nat /\ fp.fsize \in Nat
      /\ req \in Requests /\ req.ofs \in Nat
      /\ clst \in Owned /\ fp.clust = clst /\ req.left \in Nat
  BY <1>1, Facts DEF FileInv, ByteInv, CallAgrees, ApartInv, ClusterKnown
<1>3. /\ fp'.fptr = fp.fptr + req.left /\ fp'.fsize = fp.fsize /\ fp'.sclust = fp.sclust
      /\ fp'.clust = fp.clust
      /\ fp'.dsect = fp.dsect /\ fp'.buf = fp.buf /\ (fp'.dirty <=> fp.dirty)
      /\ (fp'.written <=> fp.written) /\ ~ fp'.err /\ fp'.write = fp.write
  BY <1>1, <1>2 DEF FileObject
<1>4. Clipped' = Clipped /\ Clipped \in Nat
  BY <1>1, <1>2, <1>3, GoalStays DEF Clipped
<1>5. ASSUME ~ OnSector' PROVE clust2sect(clst') + (req'.left \div SS) = sect'
  <2>1. PICK k \in Nat : fp.fptr = k * bcs
    BY <1>1, <1>2 DEF ApartInv, ClusterKnown
  <2>2. PICK x \in Nat : x = req.left /\ x <= bcs
    BY <1>1, <1>2, Constants DEF TooFar
  <2>3. x < bcs
    <3>1. (k * bcs + x) % SS # 0
      BY <1>3, <1>5, <2>1, <2>2 DEF OnSector
    <3> QED
      BY <2>1, <2>2, <3>1, SeekEnd
  <2>4. PICK j \in Nat : j = k * bcs + x /\ fp'.fptr = j
    BY <1>3, <2>1, <2>2, Constants
  <2>5. j % bcs = x
    <3>1. bcs \in Nat /\ bcs > 0
      BY Constants
    <3>2. (k * bcs + x) % bcs = x
      BY <2>3, <3>1, DivOf
    <3> QED
      BY <2>4, <3>2
  <2>6. (j \div SS) % csize = x \div SS
    BY <2>4, <2>5, PositionSplit
  <2>7. clust2sect(clst) # 0
    BY <1>2, NotTaken, SectorsOnDisk
  <2> QED
    BY <1>1, <1>2, <1>3, <2>2, <2>4, <2>6, <2>7 DEF sect, csect
<1>6. Seeks'
  BY <1>1, <1>2, <1>3, <1>4, <1>5 DEF Seeks
<1>7. Content' = Content
  <2>1. Size = fp.fsize /\ Size' = fp.fsize
    BY <1>1, <1>2, <1>3 DEF Size, Writing
  <2> QED
    BY <1>1, <1>3, <2>1, CacheSame, SameContent
<1>8. req' = [req EXCEPT !.left = req.left] /\ ifptr' = Position
  BY <1>1, <1>2 DEF Requests, Position
<1> QED
  BY <1>1, <1>3, <1>6, <1>7, <1>8, SeekUnseen

\* Where create_chain cannot go on, the chain ends.
LEMMA NoNext ==
  ASSUME NEW a, NEW n \in Nat, NEW ch, Run(fat, a, n, ch), NEW k \in 1 .. n,
         \/ create_chain(ch[k]).ncl = 0
         \/ fat[ch[k]] \notin Clusters
  PROVE  k = n
<1>1. fat[ch[k]] = (IF k = n THEN EOC ELSE ch[k + 1]) /\ ch[k] # 0
  BY NotTaken DEF Run
<1> SUFFICES ASSUME k # n PROVE FALSE
  OBVIOUS
<1>2. k + 1 \in 1 .. n /\ fat[ch[k]] = ch[k + 1]
  BY <1>1
<1>3. ch[k + 1] \in Owned /\ ch[k + 1] \in Clusters
  BY <1>2, RunUsed
<1>4. ch[k + 1] < n_fatent /\ ch[k + 1] # 0
  BY <1>3, Constants DEF Clusters
<1>5. create_chain(ch[k]) = [ncl |-> fat[ch[k]], fat |-> fat, fs |-> fs]
  BY <1>1, <1>2, <1>4 DEF create_chain
<1> QED
  BY <1>2, <1>3, <1>4, <1>5

\* f_lseek goes from cluster to cluster.
LEMMA SeekLoopBytes ==
  ASSUME FileInv, ApartInv', KeptInv', faults = 0, faults' = 0, seek_loop
  PROVE  ByteInv' /\ [File!Next]_(File!vars)
<1> DEFINE r == IF fp.write THEN create_chain(clst)
                ELSE [ncl |-> fat[clst], fat |-> fat, fs |-> fs]
<1>1. pc = "sloop" /\ TooFar /\ UNCHANGED <<disk, dir, ifptr, out, ops>>
  BY DEF seek_loop, Fault, WindowFault
<1>2. /\ ApartInv /\ KeptInv /\ ByteInv /\ ~ fp.err /\ CallAgrees /\ Within /\ Cached /\ Seeks
      /\ req.op = "seek" /\ fp \in FileObject /\ fp.fptr \in Nat /\ fp.fsize \in Nat
      /\ req \in Requests /\ req.ofs \in Nat
      /\ clst \in Owned /\ fp.clust = clst /\ req.left \in Nat
  BY <1>1, Facts DEF FileInv, ByteInv, CallAgrees, ApartInv, ClusterKnown
<1>3. ~ Fails
  BY DEF Fails
<1>4. req.left > bcs /\ fp.fptr + req.left = Clipped /\ Clipped \in Nat
  <2>1. req.left > bcs /\ Clipped \in Nat
    BY <1>1, <1>2 DEF TooFar, Clipped
  <2> QED
    BY <1>1, <1>2, <2>1, Constants DEF Seeks
<1>5. PICK n \in Nat : \E ch, rest : Kept(n, ch, 0, rest)
  BY <1>1, <1>2, KeptElim
<1>6. PICK ch, rest : Kept(n, ch, 0, rest)
  BY <1>5
<1>7. Run(fat, fp.sclust, n, ch) /\ fp.fsize <= n * bcs /\ Pointer(n, ch) /\ n * bcs \in Nat
  BY <1>6, Constants DEF Kept, Chained
<1>8. PICK k \in 1 .. n : clst = ch[k] /\ fp.fptr = (k - 1) * bcs
  BY <1>1, <1>7 DEF Pointer
<1>9. k = n => fp.fptr + bcs = n * bcs /\ Clipped > fp.fsize /\ fp.fptr + bcs <= Clipped
  <2>1. k \in Nat /\ k > 0
    OBVIOUS
  <2>2. k * bcs = (k - 1) * bcs + bcs
    BY <2>1, ClusterEnd
  <2> QED
    BY <1>2, <1>4, <1>7, <1>8, <2>2, Constants
<1>10. /\ r.ncl = 0 => k = n
       /\ ~ fp.write /\ r.ncl \notin Clusters => k = n
       /\ fp.write => r.ncl \in Owned \cup {0}
  <2>1. ~ fp.write => r.ncl = fat[ch[k]]
    BY <1>8
  <2>2. fp.write => r.ncl = create_chain(ch[k]).ncl
    BY <1>8
  <2>3. create_chain(ch[k]).ncl \in Owned \cup {0}
    BY <1>2, <1>8, Facts, ChainApart
  <2> HIDE DEF r
  <2>4. (create_chain(ch[k]).ncl = 0 \/ fat[ch[k]] \notin Clusters) => k = n
    BY <1>5, <1>7, <1>8, NoNext
  <2> QED
    BY <2>1, <2>2, <2>3, <2>4, Constants
<1>11. \/ /\ r.ncl \in Clusters
          /\ fat' = r.fat /\ fs' = r.fs
          /\ fp' = [fp EXCEPT !.clust = r.ncl, !.fptr = @ + bcs]
          /\ req' = [req EXCEPT !.left = @ - bcs] /\ pc' = pc
       \/ /\ fp.write /\ r.ncl = 0
          /\ req' = [req EXCEPT !.left = bcs] /\ UNCHANGED <<fat, fs, clst, fp, pc>>
  <2>1. r.ncl \in Clusters \/ (fp.write /\ r.ncl = 0)
    <3> SUFFICES ASSUME ~ (r.ncl \in Clusters \/ (fp.write /\ r.ncl = 0)) PROVE FALSE
      OBVIOUS
    <3>1. ~ fp.write /\ k = n
      BY <1>10, NotTaken
    <3>2. Clipped > fp.fsize
      BY <1>9, <3>1
    <3> QED
      BY <1>2, <3>1, <3>2 DEF Clipped
  <2> QED
    BY <1>3, <2>1 DEF seek_loop, Fault, WindowFault
<1>12. ifptr' = Position
  BY <1>1 DEF Position
<1>13. CASE /\ r.ncl \in Clusters
            /\ fat' = r.fat /\ fs' = r.fs
            /\ fp' = [fp EXCEPT !.clust = r.ncl, !.fptr = @ + bcs]
            /\ req' = [req EXCEPT !.left = @ - bcs] /\ pc' = pc
  <2>1. /\ fp'.fptr = fp.fptr + bcs /\ fp'.fsize = fp.fsize /\ fp'.sclust = fp.sclust
        /\ fp'.dsect = fp.dsect /\ fp'.buf = fp.buf /\ (fp'.dirty <=> fp.dirty)
        /\ (fp'.written <=> fp.written) /\ ~ fp'.err /\ fp'.write = fp.write
        /\ req'.ofs = req.ofs /\ req'.left = req.left - bcs /\ req'.op = "seek"
        /\ req' = [req EXCEPT !.left = req.left - bcs]
    BY <1>2, <1>13 DEF FileObject, Requests
  <2>2. Clipped' = Clipped
    BY <2>1, GoalStays
  <2>3. Seeks'
    <3>1. fp'.fptr + req'.left = Clipped'
      BY <1>2, <1>4, <2>1, <2>2, Constants
    <3> QED
      BY <1>1, <1>13, <3>1 DEF Seeks
  <2>4. Size = fp.fsize /\ Size' = fp.fsize
    BY <1>2, <2>1 DEF Size, Writing
  <2>5. \A s \in Disk : SectorNow(s)' = SectorNow(s)
    BY <1>1, <2>1, CacheSame
  <2>6. Content' = Content
    <3>1. CASE fp.write
      <4>1. r = create_chain(clst) /\ r.ncl \in Owned
        <5>1. r.ncl \in Owned \cup {0}
          BY <1>10, <3>1
        <5> QED
          BY <1>13, <3>1, <5>1, Constants
      <4>2. k \in 0 .. n /\ k > 0 /\ n # 0 /\ k # 0
        OBVIOUS
      <4>3. create_chain(clst).ncl \in Owned
        BY <4>1
      <4>4. fat' = create_chain(clst).fat /\ fs' = create_chain(clst).fs /\ pc' # "remove"
        BY <1>1, <1>13, <4>1
      <4>5. fp'.sclust = IF n = 0 THEN create_chain(clst).ncl ELSE fp.sclust
        BY <2>1, <4>2
      <4>6. Size' = Size
        BY <2>4
      <4> HIDE DEF r
      <4> QED
        BY <1>5, <1>6, <1>8, <2>5, <4>2, <4>3, <4>4, <4>5, <4>6, Stretched
    <3>2. CASE ~ fp.write
      <4>1. fat' = fat
        BY <1>13, <3>2
      <4> QED
        BY <2>1, <2>4, <2>5, <4>1, SameContent
    <3> QED
      BY <3>1, <3>2
  <2> QED
    BY <1>1, <1>12, <1>13, <2>1, <2>3, <2>6, SeekUnseen
<1>14. CASE /\ fp.write /\ r.ncl = 0
            /\ req' = [req EXCEPT !.left = bcs] /\ UNCHANGED <<fat, fs, clst, fp, pc>>
  <2>1. req'.ofs = req.ofs /\ req'.left = bcs /\ req'.op = "seek"
    BY <1>2, <1>14 DEF Requests
  <2>2. Clipped' = Clipped
    BY <1>14, <2>1, GoalStays
  <2>3. Clipped > fp.fsize /\ fp.fptr + bcs <= Clipped
    BY <1>9, <1>10, <1>14
  <2>4. Seeks'
    BY <1>1, <1>14, <2>1, <2>2, <2>3, Constants DEF Seeks
  <2>5. Size' = Size
    BY <1>2, <1>14, <2>1 DEF Size, Writing
  <2>6. Content' = Content
    BY <1>1, <1>14, <2>5, CacheSame, SameContent
  <2> QED
    BY <1>1, <1>2, <1>12, <1>14, <2>4, <2>6, SeekUnseen
<1> QED
  BY <1>11, <1>13, <1>14

\* f_lseek fills the cache and ends; the size follows the pointer.
LEMMA SeekFillBytes ==
  ASSUME FileInv, ApartInv', KeptInv', faults = 0, faults' = 0, seek_fill
  PROVE  ByteInv' /\ [File!Next]_(File!vars)
<1> DEFINE nsect == clust2sect(clst) + (req.left \div SS)
           fill == ~ OnSector /\ nsect # fp.dsect
           full == [fp EXCEPT !.buf = disk'[nsect], !.dsect = nsect, !.dirty = FALSE]
           sized(f) == [f EXCEPT !.fsize = IF f.fptr > @ THEN f.fptr ELSE @,
                                 !.written = @ \/ f.fptr > f.fsize]
<1>1. pc = "sfill" /\ UNCHANGED <<fat, dir, fs, clst, ifptr, out, ops>>
  BY DEF seek_fill, Fault, WindowFault
<1>2. /\ ApartInv /\ KeptInv /\ ByteInv /\ ~ fp.err /\ CallAgrees /\ Within /\ Cached /\ Seeks
      /\ req.op = "seek" /\ fp \in FileObject /\ fp.fptr \in Nat /\ fp.fsize \in Nat
      /\ req \in Requests /\ req.ofs \in Nat
  BY <1>1, Facts DEF FileInv, ByteInv, CallAgrees
<1>3. ~ Fails
  BY DEF Fails
<1>4. /\ pc' = "idle" /\ req' = NoReq
      /\ \/ fill /\ disk' = Flushed /\ fp' = sized(full)
         \/ ~ fill /\ disk' = disk /\ fp' = sized(fp)
  BY <1>3 DEF seek_fill, Fault, WindowFault, End
<1>5. ~ OnSector => nsect = sect
  BY <1>1, <1>2 DEF Seeks
<1> HIDE DEF nsect
<1>6. /\ fp'.fptr = fp.fptr /\ fp'.sclust = fp.sclust /\ fp'.clust = fp.clust
      /\ fp'.fsize = IF fp.fptr > fp.fsize THEN fp.fptr ELSE fp.fsize
      /\ (fp.written => fp'.written) /\ ~ fp'.err /\ fp'.write = fp.write
      /\ \/ /\ fill /\ disk' = Flushed /\ ~ fp'.dirty /\ fp'.dsect = nsect
            /\ fp'.buf = disk'[nsect]
         \/ /\ ~ fill /\ disk' = disk /\ (fp'.dirty <=> fp.dirty) /\ fp'.dsect = fp.dsect
            /\ fp'.buf = fp.buf
  <2>1. CASE fill /\ disk' = Flushed /\ fp' = sized(full)
    <3> HIDE DEF fill
    <3>1. /\ full.fptr = fp.fptr /\ full.fsize = fp.fsize /\ full.clust = fp.clust
          /\ full.sclust = fp.sclust /\ full.written = fp.written /\ full.err = fp.err
          /\ full.write = fp.write /\ full.dsect = nsect /\ full.buf = disk'[nsect]
          /\ ~ full.dirty /\ DOMAIN full = DOMAIN fp
      BY <1>2 DEF FileObject
    <3> HIDE DEF full
    <3>2. DOMAIN full = {"fptr", "fsize", "clust", "sclust", "dsect", "buf", "dirty",
                         "written", "err", "write"}
      BY <1>2, <3>1 DEF FileObject
    <3> QED
      BY <1>2, <2>1, <3>1, <3>2
  <2>2. CASE ~ fill /\ disk' = disk /\ fp' = sized(fp)
    <3> HIDE DEF fill
    <3> QED
      BY <1>2, <2>2 DEF FileObject
  <2> QED
    BY <1>4, <2>1, <2>2
<1>7. sect' = sect /\ (OnSector' <=> OnSector)
  BY <1>6 DEF sect, csect, OnSector
<1>8. ByteInv'
  <2>1. CallAgrees' /\ Seeks'
    BY <1>4 DEF CallAgrees, Seeks
  <2>2. Within'
    BY <1>2, <1>4, <1>6 DEF Within
  <2>3. Cached'
    BY <1>1, <1>2, <1>4, <1>5, <1>6, <1>7 DEF Cached
  <2> QED
    BY <1>6, <2>1, <2>2, <2>3 DEF ByteInv
<1>9. \A s \in Disk : SectorNow(s)' = SectorNow(s)
  BY <1>2, <1>6, CacheSame, FlushSame
<1>10. Size = fp.fsize /\ Size' = fp'.fsize
  BY <1>2, <1>4, <1>6 DEF Size, Writing, NoReq
<1>11. /\ Content \in Seq(Bytes) /\ Len(Content) = fp.fsize
       /\ \A i \in 1 .. fp.fsize : Content[i] = ByteAt(i - 1)
       /\ Content = [i \in 1 .. fp.fsize |-> ByteAt(i - 1)]
  BY <1>10, ContentTyped DEF ContentIs, Content
<1>12. /\ Content' \in Seq(Bytes) /\ Len(Content') = fp'.fsize
       /\ \A i \in 1 .. fp'.fsize : Content'[i] = ByteAt(i - 1)'
  <2>1. FileInv'
    BY <1>8 DEF FileInv
  <2> QED
    BY <1>10, <2>1, ContentTypedNext DEF ContentIs
<1>13. PICK n \in 0 .. n_fatent : \E ch, m, rest :
           Run(fat, fp.sclust, n, ch) /\ Size \in Nat /\ Size <= n * bcs /\ n * bcs \in Nat
  BY SomeChain
<1>14. PICK ch : Run(fat, fp.sclust, n, ch) /\ Size \in Nat /\ Size <= n * bcs /\ n * bcs \in Nat
  BY <1>13
<1>15. ASSUME NEW i \in 1 .. fp.fsize PROVE Content'[0 + i] = ByteAt(i - 1)
  <2>1. PICK j \in Nat : j = i - 1 /\ j < n * bcs
    BY <1>2, <1>10, <1>14
  <2>2. Run(fat', fp'.sclust, n, ch)
    BY <1>1, <1>6, <1>14
  <2>3. ByteAt(j)' = ByteAt(j)
    BY <1>9, <1>14, <2>1, <2>2, BytesKept
  <2>4. i \in 1 .. fp'.fsize /\ 0 + i = i
    BY <1>2, <1>6
  <2> QED
    BY <1>12, <2>1, <2>3, <2>4
<1>16. SubSeq(Content', 1, Len(Content)) = Content
  <2>1. Content = [i \in 1 .. fp.fsize |-> Content'[0 + i]]
    BY <1>11, <1>15
  <2>2. 0 + fp.fsize <= Len(Content')
    BY <1>2, <1>6, <1>12
  <2>3. Content = SubSeq(Content', 0 + 1, 0 + fp.fsize)
    BY <1>2, <1>12, <2>1, <2>2, PartIs
  <2> QED
    BY <1>2, <1>11, <2>3
<1>17. Position' = fp.fptr
  BY <1>4, <1>6 DEF Position
<1>18. Request.op = "seek" /\ Request.ofs = req.ofs /\ Request'.op = "none"
  BY <1>2, <1>4, Objects DEF Request, NoReq
<1>19. Len(Content') = File!Larger(Len(Content), Position')
  BY <1>2, <1>6, <1>11, <1>12, <1>17 DEF File!Larger
<1>20. \/ req.ofs <= fp.fsize /\ fp.fptr = req.ofs
       \/ req.ofs > fp.fsize /\ ~ fp.write /\ fp.fptr = fp.fsize
       \/ req.ofs > fp.fsize /\ fp.write /\ fp.fptr \in 0 .. req.ofs
  BY <1>1, <1>2 DEF Seeks, Clipped
<1>21. File!Seek
  BY <1>1, <1>6, <1>11, <1>16, <1>17, <1>18, <1>19, <1>20 DEF File!Seek
<1> QED
  BY <1>8, <1>21 DEF File!Next

\* f_truncate cuts the content at the pointer.
LEMMA TruncateBytes ==
  ASSUME FileInv, ApartInv', KeptInv', faults = 0, faults' = 0, f_truncate
  PROVE  ByteInv' /\ [File!Next]_(File!vars)
<1> DEFINE cutoff == [fp EXCEPT !.fsize = fp.fptr, !.written = TRUE]
<1>1. /\ pc = "idle" /\ ~ fp.err /\ fp.write /\ fp.fsize > fp.fptr /\ pc' = "remove"
      /\ UNCHANGED <<disk, dir, fs, req, ifptr, out, faults>>
  BY DEF f_truncate, WindowFault, Fails
<1>2. \/ fp.fptr = 0 /\ fp' = [cutoff EXCEPT !.sclust = 0] /\ fat' = fat
      \/ fp.fptr # 0 /\ fp' = cutoff /\ fat' = [fat EXCEPT ![fp.clust] = EOC]
  BY <1>1 DEF f_truncate
<1>3. /\ ApartInv /\ KeptInv /\ ByteInv /\ CallAgrees /\ Within /\ Cached /\ req = NoReq
      /\ fp \in FileObject /\ fp.fptr \in Nat /\ fp.fsize \in Nat
  BY <1>1, Facts DEF FileInv, ByteInv, CallAgrees
<1>4. /\ fp'.fptr = fp.fptr /\ fp'.fsize = fp.fptr /\ fp'.clust = fp.clust
      /\ fp'.dsect = fp.dsect /\ fp'.buf = fp.buf /\ (fp'.dirty <=> fp.dirty)
      /\ fp'.written /\ ~ fp'.err /\ fp'.write = fp.write
      /\ fp.fptr # 0 => fp'.sclust = fp.sclust
  BY <1>1, <1>2, <1>3 DEF FileObject
<1>5. ByteInv'
  <2>1. CallAgrees' /\ Seeks'
    BY <1>1, <1>3 DEF CallAgrees, Seeks
  <2>2. Within'
    BY <1>1, <1>3, <1>4 DEF Within
  <2>3. Cached'
    BY <1>1, <1>3, <1>4 DEF Cached, OnSector, sect, csect
  <2> QED
    BY <1>4, <2>1, <2>2, <2>3 DEF ByteInv
<1>6. Size = fp.fsize /\ Size' = fp.fptr
  BY <1>1, <1>3, <1>4 DEF Size, Writing, NoReq
<1>7. /\ Content \in Seq(Bytes) /\ Len(Content) = fp.fsize
      /\ \A i \in 1 .. fp.fsize : Content[i] = ByteAt(i - 1)
  BY <1>6, ContentTyped DEF ContentIs
<1>8. \A s \in Disk : SectorNow(s)' = SectorNow(s)
  BY <1>1, <1>4, CacheSame
<1>9. ASSUME NEW i \in 1 .. fp.fptr PROVE ByteAt(i - 1)' = Content[0 + i]
  <2>1. fp.fptr > 0 /\ fp.fptr # 0
    BY <1>3
  <2>2. PICK n \in Nat : \E ch, rest : Kept(n, ch, 0, rest)
    BY <1>1, <1>3, KeptElim
  <2>3. PICK ch, rest : Kept(n, ch, 0, rest)
    BY <2>2
  <2>4. Run(fat, fp.sclust, n, ch) /\ n \in 0 .. n_fatent
    BY <1>3, <2>3, FileFits
  <2>5. PICK k \in 1 .. n : fp.clust = ch[k] /\ fp.fptr <= k * bcs
    BY <1>1, <2>1, <2>3 DEF Kept, Pointer
  <2>6. k \in 0 .. n_fatent /\ k * bcs \in Nat /\ k * bcs <= n * bcs /\ n * bcs \in Nat
    BY <2>4, MultMono, Constants
  <2>7. Run(fat', fp'.sclust, k, UpTo(ch, k))
    BY <1>2, <1>3, <1>4, <2>1, <2>4, <2>5, FatFacts, RunCut
  <2>8. \A j \in 1 .. n : j <= k => UpTo(ch, k)[j] = ch[j]
    BY DEF UpTo
  <2>9. PICK j \in Nat : j = i - 1 /\ j < k * bcs /\ j < n * bcs
    BY <1>3, <2>5, <2>6
  <2>10. ByteAt(j)' = ByteAt(j)
    BY <1>8, <2>4, <2>6, <2>7, <2>8, <2>9, BytesKept
  <2>11. i \in 1 .. fp.fsize /\ 0 + i = i
    BY <1>1, <1>3
  <2> QED
    BY <1>7, <2>9, <2>10, <2>11
<1>10. Content' = SubSeq(Content, 1, fp.fptr)
  <2>1. Content' = [i \in 1 .. fp.fptr |-> Content[0 + i]]
    BY <1>6, <1>9 DEF Content
  <2>2. 0 + fp.fptr <= Len(Content)
    BY <1>1, <1>3, <1>7
  <2>3. Content' = SubSeq(Content, 0 + 1, 0 + fp.fptr)
    BY <1>3, <1>7, <2>1, <2>2, PartIs
  <2> QED
    BY <1>3, <2>3
<1>11. Position = fp.fptr /\ Position' = fp.fptr
  BY <1>1, <1>4 DEF Position
<1>12. Request' = Request /\ Request.op = "none"
  BY <1>1, <1>3 DEF Request, NoReq
<1>13. File!Truncate
  BY <1>1, <1>4, <1>10, <1>11, <1>12 DEF File!Truncate, File!Idle
<1> QED
  BY <1>5, <1>13 DEF File!Next

\* remove_chain frees clusters that are not the file's any more.
LEMMA RemoveBytes ==
  ASSUME FileInv, ApartInv', KeptInv', faults = 0, faults' = 0, remove_chain
  PROVE  ByteInv' /\ [File!Next]_(File!vars)
<1>1. pc = "remove" /\ UNCHANGED <<dir, ifptr, out, ops>>
  BY DEF remove_chain, Fault, WindowFault
<1>2. /\ ApartInv /\ KeptInv /\ ByteInv /\ ~ fp.err /\ CallAgrees /\ Within /\ Cached
      /\ req = NoReq /\ fp \in FileObject /\ fp.fptr \in Nat /\ fp.fsize \in Nat
  BY <1>1, Facts DEF FileInv, ByteInv, CallAgrees
<1>3. ~ Fails
  BY DEF Fails
<1>4. \/ /\ clst \in Clusters
         /\ fat' = [fat EXCEPT ![clst] = 0]
         /\ UNCHANGED <<disk, fp, req, pc>>
      \/ /\ disk' = Flushed /\ fp' = [fp EXCEPT !.dirty = FALSE]
         /\ pc' = "idle" /\ req' = NoReq /\ fat' = fat
  BY <1>3 DEF remove_chain, Fault, WindowFault, End
<1>5. CASE /\ clst \in Clusters
           /\ fat' = [fat EXCEPT ![clst] = 0]
           /\ UNCHANGED <<disk, fp, req, pc>>
  <2>1. ByteInv'
    <3>1. CallAgrees' /\ Within' /\ Seeks'
      BY <1>1, <1>2, <1>5 DEF CallAgrees, Within, Seeks
    <3>2. Cached'
      BY <1>1, <1>2, <1>5 DEF Cached, OnSector, sect, csect
    <3> QED
      BY <1>2, <1>5, <3>1, <3>2 DEF ByteInv
  <2>2. Size' = Size
    BY <1>5 DEF Size, Writing
  <2>3. PICK n \in 0 .. n_fatent : \E ch, m, rest :
           /\ n \in Nat /\ Kept(n, ch, m, rest) /\ Run(fat, fp.sclust, n, ch)
           /\ Size \in Nat /\ Size <= n * bcs
    BY SomeChain
  <2>4. PICK ch, m, rest :
           /\ n \in Nat /\ Kept(n, ch, m, rest) /\ Run(fat, fp.sclust, n, ch)
           /\ Size \in Nat /\ Size <= n * bcs
    BY <2>3
  <2>5. ASSUME NEW i \in 1 .. n PROVE fat'[ch[i]] = fat[ch[i]]
    <3>1. Run(fat, clst, m, rest) /\ (\A j \in 1 .. m : ch[i] # rest[j])
      BY <1>1, <2>4 DEF Kept, Chained
    <3>2. m \in Nat /\ m # 0 /\ clst = rest[1]
      BY <1>5, <3>1 DEF Run
    <3>3. ch[i] # clst
      BY <3>1, <3>2
    <3>4. ch[i] \in Clusters /\ fat \in [Clusters -> Values]
      BY <1>2, <2>4, RunUsed, FatFacts
    <3> QED
      BY <1>5, <3>3, <3>4
  <2>6. Run(fat', fp'.sclust, n, ch)
    BY <1>5, <2>4, <2>5, RunSame
  <2>7. Content' = Content
    BY <1>5, <2>2, <2>3, <2>4, <2>6, CacheSame, ContentKept
  <2>8. Position' = Position /\ Request' = Request
    BY <1>1, <1>5 DEF Position, Request
  <2> QED
    BY <1>1, <1>5, <2>1, <2>7, <2>8, Unseen
<1>6. CASE /\ disk' = Flushed /\ fp' = [fp EXCEPT !.dirty = FALSE]
           /\ pc' = "idle" /\ req' = NoReq /\ fat' = fat
  <2>1. /\ fp'.fptr = fp.fptr /\ fp'.fsize = fp.fsize /\ fp'.sclust = fp.sclust
        /\ fp'.clust = fp.clust /\ fp'.dsect = fp.dsect /\ fp'.buf = fp.buf /\ ~ fp'.dirty
        /\ (fp'.written <=> fp.written) /\ ~ fp'.err /\ fp'.write = fp.write
    BY <1>2, <1>6 DEF FileObject
  <2>2. \A s \in Disk : SectorNow(s)' = SectorNow(s) /\ disk'[s] = SectorNow(s)
    BY <1>2, <1>6, <2>1, FlushSame
  <2>3. fp.dsect # 0 => fp.buf = disk'[fp.dsect]
    <3>1. fp.dsect \in Disk \cup {0}
      BY <1>2, Objects
    <3>2. fp.dsect # 0 => fp.buf = SectorNow(fp.dsect)
      BY <1>1, <1>2 DEF Cached, SectorNow
    <3> QED
      BY <2>2, <3>1, <3>2
  <2>4. ByteInv'
    <3>1. CallAgrees' /\ Seeks'
      BY <1>6 DEF CallAgrees, Seeks
    <3>2. Within'
      BY <1>1, <1>2, <1>6, <2>1 DEF Within
    <3>3. Cached'
      BY <1>1, <1>2, <1>6, <2>1, <2>3 DEF Cached, OnSector, sect, csect
    <3> QED
      BY <2>1, <3>1, <3>2, <3>3 DEF ByteInv
  <2>5. Size' = Size
    BY <1>2, <1>6, <2>1 DEF Size, Writing
  <2>6. Content' = Content
    BY <1>6, <2>1, <2>2, <2>5, SameContent
  <2>7. Position' = Position /\ Request' = Request
    BY <1>1, <1>2, <1>6, <2>1 DEF Position, Request
  <2> QED
    BY <1>1, <2>1, <2>4, <2>6, <2>7, Unseen
<1> QED
  BY <1>4, <1>5, <1>6

\* f_sync writes the cache back.
LEMMA SyncBytes ==
  ASSUME FileInv, ApartInv', KeptInv', faults = 0, faults' = 0, f_sync
  PROVE  ByteInv' /\ [File!Next]_(File!vars)
<1>1. /\ pc = "idle" /\ disk' = Flushed /\ fp' = [fp EXCEPT !.dirty = FALSE, !.written = FALSE]
      /\ UNCHANGED <<fat, fs, req, pc, clst, ifptr, out, faults>>
  BY DEF f_sync, SyncSucceeds, SyncFails, Fault, WindowFault, Fails
<1>2. /\ ApartInv /\ KeptInv /\ ByteInv /\ ~ fp.err /\ CallAgrees /\ Within /\ Cached
      /\ req = NoReq /\ fp \in FileObject /\ fp.fptr \in Nat /\ fp.fsize \in Nat
  BY <1>1, Facts DEF FileInv, ByteInv, CallAgrees
<1>3. /\ fp'.fptr = fp.fptr /\ fp'.fsize = fp.fsize /\ fp'.sclust = fp.sclust
      /\ fp'.clust = fp.clust /\ fp'.dsect = fp.dsect /\ fp'.buf = fp.buf /\ ~ fp'.dirty
      /\ ~ fp'.err /\ fp'.write = fp.write
  BY <1>1, <1>2 DEF FileObject
<1>4. \A s \in Disk : SectorNow(s)' = SectorNow(s) /\ disk'[s] = SectorNow(s)
  BY <1>1, <1>2, <1>3, FlushSame
<1>5. fp.dsect # 0 => fp.buf = disk'[fp.dsect]
  <2>1. fp.dsect \in Disk \cup {0}
    BY <1>2, Objects
  <2>2. fp.dsect # 0 => fp.buf = SectorNow(fp.dsect)
    BY <1>1, <1>2 DEF Cached, SectorNow
  <2> QED
    BY <1>4, <2>1, <2>2
<1>6. ByteInv'
  <2>1. CallAgrees' /\ Seeks'
    BY <1>1, <1>2 DEF CallAgrees, Seeks
  <2>2. Within'
    BY <1>1, <1>2, <1>3 DEF Within
  <2>3. Cached'
    BY <1>1, <1>2, <1>3, <1>5 DEF Cached, OnSector, sect, csect
  <2> QED
    BY <1>3, <2>1, <2>2, <2>3 DEF ByteInv
<1>7. Size' = Size
  BY <1>1, <1>3 DEF Size, Writing
<1>8. Content' = Content
  BY <1>1, <1>3, <1>4, <1>7, SameContent
<1>9. Position' = Position /\ Request' = Request
  BY <1>1, <1>3 DEF Position, Request
<1> QED
  BY <1>1, <1>3, <1>6, <1>8, <1>9, Unseen

\* f_close and f_open find the same bytes.
LEMMA ReopenBytes ==
  ASSUME FileInv, ApartInv', KeptInv', faults = 0, faults' = 0, NEW w \in BOOLEAN, f_close_open(w)
  PROVE  ByteInv' /\ [File!Next]_(File!vars)
<1>1. /\ pc = "idle" /\ fp' = Reopened(dir', w)
      /\ (IF fp.written THEN disk' = Flushed /\ dir' = Synced ELSE UNCHANGED <<disk, dir>>)
      /\ UNCHANGED <<fat, fs, req, pc, clst, ifptr, out, faults>>
  BY DEF f_close_open, SyncFails, Fault, WindowFault, Fails
<1>2. /\ ApartInv /\ KeptInv /\ ByteInv /\ ~ fp.err /\ CallAgrees /\ Within /\ Cached
      /\ req = NoReq /\ fp \in FileObject /\ fp.fptr \in Nat /\ fp.fsize \in Nat
  BY <1>1, Facts DEF FileInv, ByteInv, CallAgrees
<1>3. dir'.size = fp.fsize /\ dir'.sclust = fp.sclust
  <2>1. CASE fp.written
    BY <1>1, <2>1 DEF Synced
  <2>2. CASE ~ fp.written
    <3>1. dir.size = fp.fsize /\ dir.sclust = fp.sclust
      BY <1>1, <1>2, <2>2 DEF KeptInv, DirKnown
    <3> QED
      BY <1>1, <2>2, <3>1
  <2> QED
    BY <2>1, <2>2
<1>4. /\ fp'.fptr = 0 /\ fp'.fsize = fp.fsize /\ fp'.sclust = fp.sclust
      /\ fp'.dsect = 0 /\ ~ fp'.dirty /\ ~ fp'.err /\ fp'.write = w
  BY <1>1, <1>2, <1>3 DEF Reopened, FileObject
<1>5. \A s \in Disk : SectorNow(s)' = SectorNow(s)
  <2>1. CASE fp.written
    BY <1>1, <1>2, <1>4, <2>1, FlushSame
  <2>2. CASE ~ fp.written
    <3>1. ~ fp.dirty
      BY <1>2, <2>2 DEF Cached, NoReq
    <3> QED
      BY <1>1, <1>4, <2>2, <3>1 DEF SectorNow
  <2> QED
    BY <2>1, <2>2
<1>6. ByteInv'
  <2>1. CallAgrees' /\ Seeks'
    BY <1>1, <1>2 DEF CallAgrees, Seeks
  <2>2. Within'
    BY <1>1, <1>2, <1>4 DEF Within
  <2>3. OnSector'
    BY <1>4, Constants DEF OnSector
  <2>4. Cached'
    BY <1>1, <1>4, <2>3 DEF Cached
  <2> QED
    BY <1>4, <2>1, <2>2, <2>4 DEF ByteInv
<1>7. Size' = Size
  BY <1>1, <1>2, <1>4 DEF Size, Writing, NoReq
<1>8. Content' = Content
  BY <1>1, <1>4, <1>5, <1>7, SameContent
<1>9. Position' = 0 /\ Request' = Request /\ Request.op = "none"
  BY <1>1, <1>2, <1>4 DEF Position, Request, NoReq
<1>10. File!Reopen
  BY <1>1, <1>4, <1>8, <1>9 DEF File!Reopen, File!Idle
<1> QED
  BY <1>6, <1>10 DEF File!Next

\* A disk error does not go away.
LEMMA FaultsStay ==
  ASSUME faults \in Nat, Next, faults' = 0 PROVE faults = 0
<1>1. Fails => faults' = faults + 1
  BY DEF Fails
<1>2. faults' = faults \/ Fails
  <2>1. CASE Calls
    BY <2>1 DEF Calls, f_read, f_write, f_lseek, Begin, f_truncate, f_sync, f_close_open, SyncFails,
                Fault, WindowFault
  <2>2. CASE read_return \/ read_cluster \/ read_direct \/ read_fill \/ read_copy
    BY <2>2 DEF read_return, read_cluster, Fault, WindowFault, read_direct, read_fill, read_copy,
         Quiet, Calm
  <2>3. CASE write_cluster \/ write_flush \/ write_direct \/ write_fill \/ write_copy
    BY <2>3 DEF write_cluster, Fault, WindowFault, write_flush, write_direct, write_fill,
         write_copy, Quiet, Calm
  <2>4. CASE seek_start \/ seek_loop \/ seek_arrive \/ seek_fill \/ remove_chain
    BY <2>4 DEF seek_start, Fault, WindowFault, seek_loop, seek_arrive, seek_fill, remove_chain,
         Quiet, Calm
  <2> QED
    BY <2>1, <2>2, <2>3, <2>4 DEF Next, Steps
<1> QED
  BY <1>1, <1>2

\* Every step keeps the invariant and is a step of the file of bytes, or changes nothing of it.
LEMMA ByteStep ==
  FileInv /\ [Next]_vars => FileInv' /\ [File!Next]_(File!vars)
<1> SUFFICES ASSUME FileInv, [Next]_vars PROVE FileInv' /\ [File!Next]_(File!vars)
  OBVIOUS
<1>1. ApartInv' /\ KeptInv' /\ faults' \in Nat /\ faults \in Nat
  BY ApartStep, KeptStep DEF FileInv, KeptInv
<1>2. CASE faults' # 0
  <2>1. ByteInv'
    BY <1>2 DEF ByteInv
  <2>2. faults' > 0
    BY <1>1, <1>2
  <2>3. File!Next
    BY <2>2 DEF File!Next
  <2> QED
    BY <1>1, <2>1, <2>3 DEF FileInv
<1>3. CASE faults' = 0 /\ Next
  <2>1. faults = 0
    BY <1>1, <1>3, FaultsStay
  <2>2. CASE Calls
    <3>1. CASE \/ \E n \in Lengths : f_read(n) \/ f_write(n, 1 + (ops % 2))
               \/ \E ofs \in Offsets : f_lseek(ofs)
      BY <1>1, <2>1, <3>1, CallBytes DEF FileInv
    <3>2. CASE f_truncate
      BY <1>1, <1>3, <2>1, <3>2, TruncateBytes DEF FileInv
    <3>3. CASE f_sync
      BY <1>1, <1>3, <2>1, <3>3, SyncBytes DEF FileInv
    <3>4. CASE \E w \in BOOLEAN : f_close_open(w)
      BY <1>1, <1>3, <2>1, <3>4, ReopenBytes DEF FileInv
    <3> QED
      BY <2>2, <3>1, <3>2, <3>3, <3>4 DEF Calls
  <2>3. CASE Steps
    <3> HIDE DEF FileInv
    <3>0. ByteInv' /\ [File!Next]_(File!vars) => FileInv' /\ [File!Next]_(File!vars)
      BY <1>1 DEF FileInv
    <3>1. CASE read_return \/ read_cluster \/ read_direct \/ read_fill \/ read_copy
      BY <1>1, <1>3, <2>1, <3>0, <3>1, ReadReturnBytes, ReadClusterBytes, ReadDirectBytes,
         ReadFillBytes, ReadCopyBytes
    <3>2. CASE write_cluster \/ write_flush \/ write_direct \/ write_fill \/ write_copy
      BY <1>1, <1>3, <2>1, <3>0, <3>2, WriteClusterBytes, WriteFlushBytes, WriteDirectBytes,
         WriteFillBytes, WriteCopyBytes
    <3>3. CASE seek_start \/ seek_loop \/ seek_arrive \/ seek_fill \/ remove_chain
      BY <1>1, <1>3, <2>1, <3>0, <3>3, SeekStartBytes, SeekLoopBytes, SeekArriveBytes,
         SeekFillBytes, RemoveBytes
    <3> QED
      BY <2>3, <3>1, <3>2, <3>3 DEF Steps
  <2> QED
    BY <1>3, <2>2, <2>3 DEF Next
<1>4. CASE faults' = 0 /\ UNCHANGED vars
  <2>1. UNCHANGED <<fat, disk, fp, req, pc, clst, ifptr, out, faults>> /\ faults = 0
    BY <1>4 DEF vars
  <2>2. ByteInv'
    BY <2>1 DEF FileInv, ByteInv, CallAgrees, Within, Cached, Seeks, OnSector, sect, csect, Clipped
  <2>3. Content' = Content
    <3>1. Size' = Size
      BY <2>1 DEF Size, Writing
    <3> QED
      BY <2>1, <3>1, CacheSame, SameContent
  <2>4. Position' = Position /\ Request' = Request
    BY <2>1 DEF Position, Request
  <2>5. [File!Next]_(File!vars)
    BY <2>1, <2>3, <2>4, Unseen
  <2> QED
    BY <1>1, <2>2, <2>5 DEF FileInv
<1> QED
  BY <1>2, <1>3, <1>4

\* The first state is one of the file of bytes.
LEMMA ByteInit == Init => FileInv /\ File!Init
<1> SUFFICES ASSUME Init PROVE FileInv /\ File!Init
  OBVIOUS
<1>1. /\ fp.fptr = 0 /\ fp.fsize \in Nat /\ fp.dsect = 0 /\ ~ fp.dirty /\ ~ fp.err
      /\ fp.write \in BOOLEAN /\ req = NoReq /\ pc = "idle" /\ out = <<>> /\ faults = 0
  BY FatFileAssumption DEF Init
<1>2. OnSector
  BY <1>1, Constants DEF OnSector
<1>3. ByteInv
  BY <1>1, <1>2 DEF ByteInv, CallAgrees, Within, Cached, Seeks
<1>4. FileInv
  BY <1>3, ApartInit, KeptInit DEF FileInv
<1>5. Content \in Seq(Bytes)
  BY <1>1, <1>4, ContentTyped DEF ContentIs
<1>6. Position = 0 /\ Request.op = "none"
  BY <1>1 DEF Position, Request, NoReq
<1>7. File!Init
  BY <1>1, <1>5, <1>6 DEF File!Init, File!Idle
<1> QED
  BY <1>4, <1>7

\* The file is a sequence of bytes with a position (IsByteFile): whatever is read, written,
\* sought, cut, synced and opened again, in pieces of whole sectors, of parts of one and
\* across clusters, the bytes a read delivers are the ones last written there, a write
\* changes no other byte, a seek and a reopening change none, and a cut keeps the bytes
\* before the pointer, up to the first disk error (f_read, f_write, f_lseek, f_truncate,
\* f_sync, f_close, f_open).
THEOREM ImplementsByteFile == Spec => IsByteFile
<1>1. Init => FileInv /\ File!Init
  BY ByteInit
<1>2. FileInv /\ [Next]_vars => FileInv' /\ [File!Next]_(File!vars)
  BY ByteStep
<1> QED
  BY <1>1, <1>2, PTL DEF Spec, IsByteFile, File!Spec

=============================================================================
