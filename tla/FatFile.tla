------------------------------- MODULE FatFile -------------------------------
(***************************************************************************)
(* The data path of FatFs (ff.c): f_read, f_write, f_lseek, f_truncate,    *)
(* f_sync, f_close and f_open of one file over the cluster chains of the   *)
(* FAT, the file's one-sector cache and direct transfers of whole sectors. *)
(* Every disk access may fail.  The sector window over the FAT and the     *)
(* directory is in FatVolume; here an entry is read and written in place.  *)
(* But move_window keeps the window and its sector number when a read      *)
(* fails, although the transfer may have stored data (ff.c:1083): from     *)
(* then on the window is torn, and what FatFs makes of it is not modelled. *)
(***************************************************************************)
EXTENDS Naturals, Sequences, FiniteSets, SequencesExt

CONSTANTS
    SS,         \* bytes in a sector
    csize,      \* sectors in a cluster
    n_fatent,   \* number of FAT entries; clusters are 2 .. n_fatent - 1
    Taken,      \* clusters of other files
    Sizes,      \* size of the file at first
    Lengths,    \* bytes that are read or written
    Offsets,    \* offsets that are sought
    MaxOps,     \* number of calls
    MaxFaults   \* number of disk accesses that fail

ASSUME FatFileAssumption ==
    /\ SS \in Nat \ {0} /\ csize \in Nat \ {0} /\ n_fatent \in Nat
    /\ Taken \subseteq 2 .. n_fatent - 1
    /\ Lengths \subseteq Nat \ {0} /\ Offsets \subseteq Nat /\ Sizes \subseteq Nat

VARIABLES
    fat,        \* the FAT
    disk,       \* the data sectors
    dir,        \* directory entry of the file: size, start cluster
    fs,         \* last_clust, free_clust
    fp,         \* the file object
    req,        \* the call under way: op, bytes left, byte to write, offset
    pc,         \* where it is
    clst,       \* local cluster of f_lseek and remove_chain
    ifptr,      \* f_lseek: where the pointer was
    out,        \* bytes delivered by the last piece of a read
    ops,        \* calls so far
    faults,     \* failed disk accesses so far
    torn        \* a failed access left foreign data in the window

vars == <<fat, disk, dir, fs, fp, req, pc, clst, ifptr, out, ops, faults, torn>>

Clusters == 2 .. n_fatent - 1
EOC == n_fatent                    \* "last link": any value past the FAT
Bytes == {0, 1, 2}                 \* 0 is what the disk holds at first
bcs == csize * SS
NoReq == [op |-> "none", left |-> 0, val |-> 0, ofs |-> 0]
Smaller(a, b) == IF a < b THEN a ELSE b

(* Sector numbers start at 1: clust2sect gives 0 for an invalid cluster.   *)
clust2sect(c) == IF c \in Clusters THEN (c - 2) * csize + 1 ELSE 0
SectorsOf(c) == clust2sect(c) .. clust2sect(c) + csize - 1

-----------------------------------------------------------------------------
(* create_chain: the cluster after c, or a new one behind c (0: a new      *)
(* chain).  The search goes once around the FAT.                           *)

Free(f) == {c \in Clusters : f[c] = 0}

Turn(scl, c) == IF c > scl THEN c ELSE c + n_fatent
FirstFree(f, scl) ==
    IF Free(f) = {} THEN 0
    ELSE CHOOSE c \in Free(f) : \A d \in Free(f) : Turn(scl, c) <= Turn(scl, d)

create_chain(c) ==
    IF c # 0 /\ fat[c] < n_fatent
    THEN [ncl |-> fat[c], fat |-> fat, fs |-> fs]
    ELSE LET scl == IF c # 0 THEN c
                    ELSE IF fs.last \in Clusters THEN fs.last ELSE 1
             ncl == FirstFree(fat, scl)
         IN  IF ncl = 0 THEN [ncl |-> 0, fat |-> fat, fs |-> fs]
             ELSE [ncl |-> ncl,
                   fat |-> IF c = 0 THEN [fat EXCEPT ![ncl] = EOC]
                           ELSE [fat EXCEPT ![ncl] = EOC, ![c] = ncl],
                   fs |-> [last |-> ncl, free |-> fs.free - 1]]

(* A disk error in create_chain: nothing happened, or the new cluster is   *)
(* marked and not linked.                                                  *)
BrokenChains(c) ==
    LET r == create_chain(c)
    IN  {fat} \cup (IF r.fat = fat THEN {} ELSE {[fat EXCEPT ![r.ncl] = EOC]})

-----------------------------------------------------------------------------
(* Calls *)

Calm == UNCHANGED <<dir, ops, faults, torn>>
Quiet == UNCHANGED <<fat, fs, clst, ifptr>> /\ Calm

(* ABORT: the error sticks to the file object. *)
Abort == /\ fp' = [fp EXCEPT !.err = TRUE] /\ pc' = "idle" /\ req' = NoReq

(* An access to the data of the file fails, or one that moves the window.  *)
Fails == faults < MaxFaults /\ faults' = faults + 1
Fault == Fails /\ UNCHANGED torn
WindowFault == Fails /\ torn' \in BOOLEAN

Begin(op, at, n, val, ofs) ==
    /\ pc = "idle" /\ ~torn /\ ~fp.err /\ ops < MaxOps /\ ops' = ops + 1
    /\ req' = [op |-> op, left |-> n, val |-> val, ofs |-> ofs] /\ pc' = at
    /\ UNCHANGED <<fat, disk, dir, fs, fp, clst, ifptr, out, faults, torn>>

End == pc' = "idle" /\ req' = NoReq

csect == (fp.fptr \div SS) % csize
OnSector == fp.fptr % SS = 0
OnCluster == OnSector /\ csect = 0
sect == IF clust2sect(fp.clust) = 0 THEN 0 ELSE clust2sect(fp.clust) + csect
Rest == req.left \div SS
cc == Smaller(Rest, csize - csect)          \* clipped at the cluster
Piece == Smaller(SS - (fp.fptr % SS), req.left)
Flushed == IF fp.dirty THEN [disk EXCEPT ![fp.dsect] = fp.buf] ELSE disk

(* f_read: the count is cut at the end of the file. *)
f_read(n) == Begin("read", "read", Smaller(n, fp.fsize - fp.fptr), 0, 0)

read_return ==
    /\ pc = "read" /\ req.left = 0 /\ End
    /\ UNCHANGED <<disk, fp, out>> /\ Quiet

(* On a cluster boundary the chain is followed. *)
read_cluster ==
    /\ pc = "read" /\ req.left > 0
    /\ LET next == IF fp.fptr = 0 THEN fp.sclust ELSE fat[fp.clust]
       IN  \/ /\ OnCluster /\ next >= 2
              /\ fp' = [fp EXCEPT !.clust = next] /\ pc' = "rsect" /\ UNCHANGED <<req, faults, torn>>
           \/ OnCluster /\ next < 2 /\ Abort /\ UNCHANGED <<faults, torn>>
           \/ OnCluster /\ fp.fptr # 0 /\ WindowFault /\ Abort
           \/ /\ ~OnCluster /\ pc' = IF OnSector THEN "rsect" ELSE "rcopy"
              /\ UNCHANGED <<fp, req, faults, torn>>
    /\ UNCHANGED <<fat, disk, dir, fs, clst, ifptr, out, ops>>

(* Whole sectors go to the caller's buffer; a dirty one among them comes   *)
(* from the cache.                                                         *)
SectorNow(s) == IF fp.dirty /\ s = fp.dsect THEN fp.buf ELSE disk[s]

Advance(n) == [fp EXCEPT !.fptr = @ + n]

read_direct ==
    /\ pc = "rsect" /\ Rest > 0
    /\ \/ /\ sect # 0
          /\ out' = [i \in 1 .. cc * SS |->
                        SectorNow(sect + ((i - 1) \div SS))[((i - 1) % SS) + 1]]
          /\ fp' = Advance(cc * SS)
          /\ req' = [req EXCEPT !.left = @ - cc * SS] /\ pc' = "read" /\ UNCHANGED <<faults, torn>>
       \/ sect = 0 /\ Abort /\ UNCHANGED <<out, faults, torn>>
       \/ Fault /\ Abort /\ UNCHANGED out
    /\ UNCHANGED <<fat, disk, dir, fs, clst, ifptr, ops>>

(* A part of a sector: the cache is written back if it is dirty, filled.   *)
read_fill ==
    /\ pc = "rsect" /\ Rest = 0
    /\ \/ /\ sect # 0 /\ fp.dsect # sect
          /\ disk' = Flushed
          /\ fp' = [fp EXCEPT !.buf = disk'[sect], !.dsect = sect, !.dirty = FALSE]
          /\ pc' = "rcopy" /\ UNCHANGED <<req, faults, torn>>
       \/ sect # 0 /\ fp.dsect = sect /\ pc' = "rcopy" /\ UNCHANGED <<disk, fp, req, faults, torn>>
       \/ sect = 0 /\ Abort /\ UNCHANGED <<disk, faults, torn>>
       \/ /\ sect # 0 /\ fp.dsect # sect /\ Fault /\ pc' = "idle" /\ req' = NoReq
          /\ \/ UNCHANGED disk /\ fp' = [fp EXCEPT !.err = TRUE]
             \/ disk' = Flushed /\ fp' = [fp EXCEPT !.err = TRUE, !.dirty = FALSE]
    /\ UNCHANGED <<fat, dir, fs, clst, ifptr, out, ops>>

read_copy ==
    /\ pc = "rcopy"
    /\ out' = SubSeq(fp.buf, (fp.fptr % SS) + 1, (fp.fptr % SS) + Piece)
    /\ fp' = Advance(Piece)
    /\ req' = [req EXCEPT !.left = @ - Piece] /\ pc' = "read"
    /\ UNCHANGED disk /\ Quiet

f_write(n, v) == fp.write /\ Begin("write", "write", n, v, 0)

(* The end of a write, or a full disk: the size follows the pointer.       *)
WriteReturns ==
    /\ fp' = [fp EXCEPT !.fsize = IF fp.fptr > @ THEN fp.fptr ELSE @, !.written = TRUE]
    /\ End

(* On a cluster boundary the chain is followed or stretched. *)
write_cluster ==
    /\ pc = "write"
    /\ LET start == IF fp.fptr = 0 THEN 0 ELSE fp.clust
           r == IF fp.fptr = 0 /\ fp.sclust # 0
                THEN [ncl |-> fp.sclust, fat |-> fat, fs |-> fs]
                ELSE create_chain(start)
       IN  \/ /\ req.left = 0 /\ WriteReturns /\ UNCHANGED <<fat, fs, faults, torn>>
           \/ /\ req.left > 0 /\ OnCluster /\ r.ncl = 0
              /\ WriteReturns /\ UNCHANGED <<fat, fs, faults, torn>>
           \/ /\ req.left > 0 /\ OnCluster /\ r.ncl >= 2
              /\ fat' = r.fat /\ fs' = r.fs
              /\ fp' = [fp EXCEPT !.clust = r.ncl,
                                  !.sclust = IF @ = 0 THEN r.ncl ELSE @]
              /\ pc' = "wflush" /\ UNCHANGED <<req, faults, torn>>
           \/ /\ req.left > 0 /\ OnCluster /\ ~(fp.fptr = 0 /\ fp.sclust # 0)
              /\ WindowFault /\ Abort /\ fat' \in BrokenChains(start) /\ UNCHANGED fs
           \/ /\ req.left > 0 /\ ~OnCluster
              /\ pc' = IF OnSector THEN "wflush" ELSE "wcopy"
              /\ UNCHANGED <<fat, fs, fp, req, faults, torn>>
    /\ UNCHANGED <<disk, dir, clst, ifptr, out, ops>>

(* The cache is written back before another sector is used. *)
write_flush ==
    /\ pc = "wflush"
    /\ \/ /\ disk' = Flushed /\ fp' = [fp EXCEPT !.dirty = FALSE]
          /\ pc' = "wsect" /\ UNCHANGED <<req, faults, torn>>
       \/ fp.dirty /\ Fault /\ Abort /\ UNCHANGED disk
    /\ UNCHANGED <<fat, dir, fs, clst, ifptr, out, ops>>

Filled(v) == [i \in 1 .. SS |-> v]

(* Whole sectors are written directly; the cache is refilled if its sector *)
(* is one of them.                                                         *)
Refill(s, n) == IF fp.dsect \in s .. s + n - 1 THEN Filled(req.val) ELSE fp.buf

write_direct ==
    /\ pc = "wsect" /\ Rest > 0
    /\ \/ /\ disk' = [s \in DOMAIN disk |->
                         IF s \in sect .. sect + cc - 1 THEN Filled(req.val) ELSE disk[s]]
          /\ fp' = [Advance(cc * SS) EXCEPT !.buf = Refill(sect, cc)]
          /\ req' = [req EXCEPT !.left = @ - cc * SS] /\ pc' = "write" /\ UNCHANGED <<faults, torn>>
       \/ Fault /\ Abort /\ UNCHANGED disk
    /\ UNCHANGED <<fat, dir, fs, clst, ifptr, out, ops>>

(* A part of a sector: the cache is filled unless the file ends here.      *)
write_fill ==
    /\ pc = "wsect" /\ Rest = 0
    /\ \/ /\ fp' = [fp EXCEPT !.dsect = sect,
                              !.buf = IF fp.dsect # sect /\ fp.fptr < fp.fsize
                                      THEN disk[sect] ELSE @]
          /\ pc' = "wcopy" /\ UNCHANGED <<req, faults, torn>>
       \/ fp.dsect # sect /\ fp.fptr < fp.fsize /\ Fault /\ Abort
    /\ UNCHANGED <<fat, disk, dir, fs, clst, ifptr, out, ops>>

write_copy ==
    /\ pc = "wcopy"
    /\ LET at == fp.fptr % SS
       IN  fp' = [Advance(Piece) EXCEPT !.dirty = TRUE,
                     !.buf = [i \in 1 .. SS |-> IF i \in at + 1 .. at + Piece
                                                THEN req.val ELSE fp.buf[i]]]
    /\ req' = [req EXCEPT !.left = @ - Piece] /\ pc' = "write"
    /\ UNCHANGED <<disk, out>> /\ Quiet

-----------------------------------------------------------------------------
(* f_lseek.  left is the distance from the start of the current cluster.   *)

f_lseek(ofs) == Begin("seek", "seek", 0, 0, ofs)

Clipped == IF req.ofs > fp.fsize /\ ~fp.write THEN fp.fsize ELSE req.ofs

(* Start from the current cluster, or from the first one, which is created *)
(* if the file has none.                                                   *)
MutSameOrLater == fp.fptr > 0 /\ Clipped \div bcs >= fp.fptr \div bcs
SameOrLater == fp.fptr > 0 /\ (Clipped - 1) \div bcs >= (fp.fptr - 1) \div bcs

seek_start ==
    /\ pc = "seek"
    /\ ifptr' = fp.fptr
    /\ LET base == ((fp.fptr - 1) \div bcs) * bcs
           r == create_chain(0)
       IN  \/ /\ Clipped = 0
              /\ fp' = [fp EXCEPT !.fptr = 0]
              /\ clst' = 0 /\ pc' = "sfill" /\ UNCHANGED <<fat, fs, req, faults, torn>>
           \/ /\ Clipped # 0 /\ SameOrLater
              /\ fp' = [fp EXCEPT !.fptr = base]
              /\ req' = [req EXCEPT !.left = Clipped - base]
              /\ clst' = fp.clust /\ pc' = "sloop" /\ UNCHANGED <<fat, fs, faults, torn>>
           \/ /\ Clipped # 0 /\ ~SameOrLater /\ fp.sclust # 0
              /\ fp' = [fp EXCEPT !.fptr = 0, !.clust = fp.sclust]
              /\ req' = [req EXCEPT !.left = Clipped]
              /\ clst' = fp.sclust /\ pc' = "sloop" /\ UNCHANGED <<fat, fs, faults, torn>>
           \/ /\ Clipped # 0 /\ ~SameOrLater /\ fp.sclust = 0
              /\ fat' = r.fat /\ fs' = r.fs
              /\ fp' = [fp EXCEPT !.fptr = 0, !.clust = r.ncl, !.sclust = r.ncl]
              /\ req' = [req EXCEPT !.left = Clipped]
              /\ clst' = r.ncl /\ pc' = (IF r.ncl = 0 THEN "sfill" ELSE "sloop")
              /\ UNCHANGED <<faults, torn>>
           \/ /\ Clipped # 0 /\ ~SameOrLater /\ fp.sclust = 0
              /\ WindowFault /\ fat' \in BrokenChains(0) /\ UNCHANGED <<fs, clst>>
              /\ fp' = [fp EXCEPT !.fptr = 0, !.err = TRUE] /\ pc' = "idle" /\ req' = NoReq
    /\ UNCHANGED <<disk, dir, out, ops>>

(* One more cluster; in write mode the chain is stretched, a full disk     *)
(* stops the seek at the end of the cluster.                               *)
TooFar == req.left > bcs

seek_loop ==
    /\ pc = "sloop" /\ TooFar
    /\ LET r == IF fp.write THEN create_chain(clst) ELSE [ncl |-> fat[clst], fat |-> fat, fs |-> fs]
       IN  \/ /\ r.ncl \in Clusters
              /\ fat' = r.fat /\ fs' = r.fs /\ clst' = r.ncl
              /\ fp' = [fp EXCEPT !.clust = r.ncl, !.fptr = @ + bcs]
              /\ req' = [req EXCEPT !.left = @ - bcs] /\ UNCHANGED <<pc, faults, torn>>
           \/ /\ fp.write /\ r.ncl = 0
              /\ req' = [req EXCEPT !.left = bcs]
              /\ UNCHANGED <<fat, fs, clst, fp, pc, faults, torn>>
           \/ /\ ~(r.ncl \in Clusters \/ (fp.write /\ r.ncl = 0))
              /\ Abort /\ UNCHANGED <<fat, fs, clst, faults, torn>>
           \/ /\ WindowFault /\ Abort /\ UNCHANGED <<fs, clst>>
              /\ fat' \in (IF fp.write THEN BrokenChains(clst) ELSE {fat})
    /\ UNCHANGED <<disk, dir, ifptr, out, ops>>

seek_arrive ==
    /\ pc = "sloop" /\ ~TooFar
    /\ fp' = [fp EXCEPT !.fptr = @ + req.left]
    /\ pc' = "sfill"
    /\ UNCHANGED <<disk, req, out>> /\ Quiet

(* The cache is filled with the new sector and the size follows.           *)
seek_fill ==
    /\ pc = "sfill"
    /\ LET nsect == clust2sect(clst) + (req.left \div SS)
           fill == ~OnSector /\ nsect # fp.dsect
           sized(f) == [f EXCEPT !.fsize = IF f.fptr > @ THEN f.fptr ELSE @,
                                 !.written = @ \/ f.fptr > f.fsize]
       IN  \/ /\ fill /\ disk' = Flushed
              /\ fp' = sized([fp EXCEPT !.buf = disk'[nsect], !.dsect = nsect, !.dirty = FALSE])
              /\ End /\ UNCHANGED <<faults, torn>>
           \/ ~fill /\ fp' = sized(fp) /\ End /\ UNCHANGED <<disk, faults, torn>>
           \/ /\ fill /\ Fault /\ pc' = "idle" /\ req' = NoReq
              /\ \/ UNCHANGED disk /\ fp' = [fp EXCEPT !.err = TRUE]
                 \/ disk' = Flushed /\ fp' = [fp EXCEPT !.err = TRUE, !.dirty = FALSE]
    /\ UNCHANGED <<fat, dir, fs, clst, ifptr, out, ops>>

-----------------------------------------------------------------------------
(* f_truncate at the pointer: the rest of the chain goes to remove_chain.  *)

Mutf_truncate ==
    /\ pc = "idle" /\ ~torn /\ ~fp.err /\ fp.write /\ fp.fsize > fp.fptr
    /\ ops < MaxOps /\ ops' = ops + 1
    /\ pc' = "remove"
    /\ clst' = (IF fp.fptr = 0 THEN fp.sclust ELSE fat[fp.clust])
    /\ fp' = [fp EXCEPT !.fsize = fp.fptr, !.written = TRUE]
    /\ UNCHANGED <<fat, disk, dir, fs, req, ifptr, out, faults, torn>>

f_truncate ==
    /\ pc = "idle" /\ ~torn /\ ~fp.err /\ fp.write /\ fp.fsize > fp.fptr
    /\ ops < MaxOps /\ ops' = ops + 1
    /\ LET cut == [fp EXCEPT !.fsize = fp.fptr, !.written = TRUE]
       IN  \/ /\ fp.fptr = 0
              /\ clst' = fp.sclust /\ fp' = [cut EXCEPT !.sclust = 0] /\ pc' = "remove"
              /\ UNCHANGED <<fat, faults, torn>>
           \/ /\ fp.fptr # 0
              /\ clst' = fat[fp.clust] /\ fp' = cut /\ pc' = "remove"
              /\ fat' = [fat EXCEPT ![fp.clust] = EOC] /\ UNCHANGED <<faults, torn>>
           \/ /\ fp.fptr # 0 /\ WindowFault
              /\ fp' = [cut EXCEPT !.err = TRUE] /\ UNCHANGED <<fat, clst, pc>>
    /\ UNCHANGED <<disk, dir, fs, req, ifptr, out>>

(* One cluster of remove_chain, then the cache is written back.            *)
remove_chain ==
    /\ pc = "remove"
    /\ \/ /\ clst \in Clusters /\ fat[clst] # 0
          /\ fat' = [fat EXCEPT ![clst] = 0] /\ clst' = fat[clst]
          /\ fs' = [fs EXCEPT !.free = @ + 1]
          /\ UNCHANGED <<disk, fp, req, pc, faults, torn>>
       \/ /\ ~(clst \in Clusters /\ fat[clst] # 0)
          /\ disk' = Flushed /\ fp' = [fp EXCEPT !.dirty = FALSE] /\ End
          /\ UNCHANGED <<fat, clst, fs, faults, torn>>
       \/ clst \in Clusters /\ WindowFault /\ Abort /\ UNCHANGED <<fat, clst, fs, disk>>
       \/ /\ ~(clst \in Clusters /\ fat[clst] # 0) /\ fp.dirty
          /\ Fault /\ Abort /\ UNCHANGED <<fat, clst, fs, disk>>
    /\ UNCHANGED <<dir, ifptr, out, ops>>

(* f_sync: the cache and the directory entry are written, unless the write *)
(* of the cache fails, the entry cannot be read, or its write fails, which *)
(* leaves it in the window.  The error does not stick to the file object.  *)
Synced == [size |-> fp.fsize, sclust |-> fp.sclust]

SyncSucceeds ==
    /\ disk' = Flushed /\ dir' = Synced
    /\ fp' = [fp EXCEPT !.dirty = FALSE, !.written = FALSE]

SyncFails ==
    \/ fp.dirty /\ Fault /\ UNCHANGED <<disk, dir, fp>>
    \/ WindowFault /\ disk' = Flushed /\ fp' = [fp EXCEPT !.dirty = FALSE] /\ UNCHANGED dir
    \/ Fault /\ SyncSucceeds

f_sync ==
    /\ pc = "idle" /\ ~torn /\ ops < MaxOps /\ ops' = ops + 1 /\ fp.written
    /\ (SyncSucceeds /\ UNCHANGED <<faults, torn>>) \/ SyncFails
    /\ UNCHANGED <<fat, fs, req, pc, clst, ifptr, out>>

(* f_close (which syncs, and leaves the file open if that fails) and       *)
(* f_open in any mode, which is tried again if it fails.  f_open does not  *)
(* touch clust or the cache's bytes.                                       *)
Reopened(d, w) ==
    [fp EXCEPT !.fptr = 0, !.fsize = d.size, !.sclust = d.sclust, !.dsect = 0,
               !.dirty = FALSE, !.written = FALSE, !.err = FALSE, !.write = w]

f_close_open(w) ==
    /\ pc = "idle" /\ ~torn /\ ops < MaxOps /\ ops' = ops + 1
    /\ \/ /\ IF fp.written THEN disk' = Flushed /\ dir' = Synced ELSE UNCHANGED <<disk, dir>>
          /\ fp' = Reopened(dir', w)
          /\ UNCHANGED <<faults, torn>> \/ WindowFault
       \/ fp.written /\ SyncFails
    /\ UNCHANGED <<fat, fs, req, pc, clst, ifptr, out>>

-----------------------------------------------------------------------------
(* A file of some size in the first free clusters, opened in any mode. *)
FirstChains(n) ==
    {own \in [1 .. (n + bcs - 1) \div bcs -> Clusters \ Taken] :
        /\ \A i, j \in DOMAIN own : i < j => own[i] < own[j]
        /\ \A c \in (Clusters \ Taken) \ Range(own) : \A i \in DOMAIN own : own[i] < c}

LinkIn(own, c) ==
    LET i == CHOOSE i \in DOMAIN own : own[i] = c
    IN  IF i + 1 \in DOMAIN own THEN own[i + 1] ELSE EOC

Init ==
    /\ \E n \in Sizes, w \in BOOLEAN : \E own \in FirstChains(n) :
          LET start == IF DOMAIN own = {} THEN 0 ELSE own[1]
          IN  /\ fat = [c \in Clusters |->
                          CASE c \in Taken -> EOC
                            [] c \in Range(own) -> LinkIn(own, c)
                            [] OTHER -> 0]
              /\ dir = [size |-> n, sclust |-> start]
              /\ fs = [last |-> 0, free |-> Cardinality(Free(fat))]
              /\ fp = [fptr |-> 0, fsize |-> n, clust |-> 0, sclust |-> start, dsect |-> 0,
                       buf |-> Filled(0), dirty |-> FALSE, written |-> FALSE,
                       err |-> FALSE, write |-> w]
    /\ disk = [s \in 1 .. (n_fatent - 2) * csize |-> Filled(0)]
    /\ req = NoReq /\ pc = "idle" /\ clst = 0 /\ ifptr = 0 /\ out = <<>>
    /\ ops = 0 /\ faults = 0 /\ torn = FALSE

Calls ==
    \/ \E n \in Lengths : f_read(n) \/ f_write(n, 1 + (ops % 2))
    \/ \E ofs \in Offsets : f_lseek(ofs)
    \/ f_truncate \/ f_sync
    \/ \E w \in BOOLEAN : f_close_open(w)

Steps ==
    \/ read_return \/ read_cluster \/ read_direct \/ read_fill \/ read_copy
    \/ write_cluster \/ write_flush \/ write_direct \/ write_fill \/ write_copy
    \/ seek_start \/ seek_loop \/ seek_arrive \/ seek_fill \/ remove_chain

Next == Calls \/ Steps

Spec == Init /\ [][Next]_vars

-----------------------------------------------------------------------------
(* The file that the FAT, the disk and the cache hold together. *)

Link(c) == IF c \in Clusters THEN fat[c] ELSE 0
Chain == LET nth[i \in 0 .. n_fatent] == IF i = 0 THEN fp.sclust ELSE Link(nth[i - 1])
         IN  nth
ChainClusters == {Chain[i] : i \in 0 .. n_fatent} \cap Clusters

ByteAt(i) ==
    LET s == clust2sect(Chain[i \div bcs]) + ((i % bcs) \div SS)
    IN  SectorNow(s)[(i % SS) + 1]

Writing == req.op = "write"
Size == IF Writing /\ fp.fptr > fp.fsize THEN fp.fptr ELSE fp.fsize
Content == [i \in 1 .. Size |-> ByteAt(i - 1)]
Position == IF pc \in {"sloop", "sfill"} THEN ifptr ELSE fp.fptr
Request == [req EXCEPT !.left = IF req.op = "seek" THEN 0 ELSE @]

(* What the FAT, the file object and the volume range over. *)
TypeOK ==
    /\ fat \in [Clusters -> {0} \cup Clusters \cup {EOC}]
    /\ fp.fptr \in Nat /\ fp.fsize \in 0 .. n_fatent * bcs
    /\ fp.sclust \in {0} \cup Clusters /\ fp.dsect \in {0} \cup DOMAIN disk
    /\ fs.free \in 0 .. n_fatent
    /\ pc \in {"idle", "read", "rsect", "rcopy", "write", "wflush", "wsect", "wcopy",
               "seek", "sloop", "sfill", "remove"}

(* No call touches the clusters of other files, on the FAT or on the disk, *)
(* whatever accesses fail, f_sync's too, after which the calls go on,      *)
(* until a failed one tears the window; and without a disk error every     *)
(* cluster is free, in the file or in another, and free_clust counts the   *)
(* free ones.                                                              *)
OthersUntouched ==
    /\ \A c \in Taken : fat[c] = EOC /\ \A s \in SectorsOf(c) : disk[s] = Filled(0)
    /\ ChainClusters \cap Taken = {}
NoneLost ==
    /\ Free(fat) = Clusters \ (Taken \cup ChainClusters)
    /\ fs.free = Cardinality(Free(fat))
ClustersKept ==
    TypeOK /\ (~torn => OthersUntouched) /\ (faults = 0 /\ pc = "idle" => NoneLost)

(* f_read, f_write, f_lseek, f_truncate, f_close and f_open implement a    *)
(* sequence of bytes with a position.                                      *)
File == INSTANCE ByteFile WITH
    Byte <- Bytes, content <- Content, pos <- Position, req <- Request,
    writable <- fp.write, broken <- faults > 0
IsByteFile == File!Spec
=============================================================================
