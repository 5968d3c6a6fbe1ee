------------------------------- MODULE FatVolume -------------------------------
(***************************************************************************)
(* The structure of a FAT32 volume under FatFs (fatfs/src/ff.c): root      *)
(* directory, FAT, FSINFO, and the order in which the calls that change    *)
(* them reach the card through the one-sector window of the file system    *)
(* object.  Power may fail between any two accesses; what is in RAM is     *)
(* lost then, and the card is mounted again.                               *)
(*                                                                         *)
(* A call is the sequence of its accesses to sectors, `todo`, worked off   *)
(* one by one.  A cluster has one sector, a file is written in whole       *)
(* clusters, disk errors are left to FatFile.  A call that finds no room   *)
(* writes nothing new and is not an action, except for f_mkdir.            *)
(***************************************************************************)
EXTENDS Naturals, Sequences, FiniteSets, SequencesExt

CONSTANTS
  n_fatent,    \* clusters are 2 .. n_fatent - 1
  PerFat,      \* FAT entries in a sector
  PerDir,      \* directory entries in a sector
  Files, Dirs, \* names of files and of directories
  MaxSize,     \* bound: clusters of a file
  MaxOps,      \* bound: calls that change the volume
  MaxCrash     \* bound: power losses

ConstantsOK ==
  /\ n_fatent \in Nat /\ n_fatent > 2 /\ PerFat \in Nat \ {0} /\ PerDir \in Nat \ {0}
  /\ Files \cap Dirs = {} /\ {MaxSize, MaxOps, MaxCrash} \subseteq Nat

VARIABLES
  disk,        \* content of each sector of the card
  win,         \* fs->winsect, fs->win, fs->wflag
  fs,          \* free_clust, last_clust, fsi_flag
  fp,          \* the open file, or NoFile
  todo,        \* accesses that are left of the call under way
  done,        \* what each name that the call is about stands for in the end
  may,         \* history: what each name may stand for when power fails now
  renaming,    \* history: names of a f_rename under way
  cut,         \* history: names that were truncated and not synced
  broken,      \* history: power failed then, or between linking and clearing a directory cluster
  ops, crashes

vars == <<disk, win, fs, fp, todo, done, may, renaming, cut, broken, ops, crashes>>

Names == Files \cup Dirs
Clusters == 2 .. n_fatent - 1
dirbase == 2
EOC == n_fatent              \* 0x0FFFFFFF and everything else from n_fatent on
Unknown == n_fatent          \* 0xFFFFFFFF in free_clust

\* Sectors.  The content of a sector is a function on its entries.
FatSect(c) == <<"fat", c \div PerFat>>
ClustSect(c) == <<"cluster", c>>
FsInfo == <<"fsinfo", 0>>
Sectors == {FatSect(c) : c \in Clusters} \cup {ClustSect(c) : c \in Clusters} \cup {FsInfo}

\* Directory entries; names that are not: End and Deleted mark blank entries, and "data" is
\* what part of a file looks like when it is taken for a directory.
Entry(n, c, size) == [name |-> n, clust |-> c, size |-> size, of |-> "none"]
End == Entry("end", 0, 0)
Deleted == Entry("deleted", 0, 0)
Table(first) == [i \in 1 .. PerDir |-> IF i = 1 THEN first ELSE End]
Data(n) == [i \in 1 .. PerDir |-> [name |-> "data", clust |-> 0, size |-> 0, of |-> n]]

-----------------------------------------------------------------------------
(* Reading a volume v: the card, or what FatFs sees of it.                 *)

\* The first of some positions, 0 if there are none.
First(S) == IF S = {} THEN 0 ELSE Min(S)

View == IF win.sect = <<>> THEN disk ELSE [disk EXCEPT ![win.sect] = win.data]

get_fat(v, c) == v[FatSect(c)][c]

\* One more cluster behind the clusters s of a chain: the first, c, or the one that the last of
\* them links to, unless that is the end.
Behind(v, c, s) == IF s = <<>> THEN c ELSE get_fat(v, s[Len(s)])
LongerBy(v, s, next) ==
  IF next \in Clusters /\ get_fat(v, next) # 0 /\ next \notin Range(s) THEN Append(s, next) ELSE s
Longer(v, c, s) == LongerBy(v, s, Behind(v, c, s))

\* The clusters from c on, up to the end mark.  remove_chain, which frees them as it goes, also
\* stops at a free one, so where it comes back to itself.
Chain(v, c) ==
  LET upto[i \in 0 .. n_fatent - 2] == IF i = 0 THEN <<>> ELSE Longer(v, c, upto[i - 1])
  IN upto[n_fatent - 2]

\* The clusters of the root directory; dir_sdi does not look up the first one in the FAT.
Root(v) == <<dirbase>> \o Chain(v, get_fat(v, dirbase))

\* The entries of a directory with clusters cs, and of the root directory, in order.
PlacesIn(cs) ==
  [k \in 1 .. Len(cs) * PerDir |-> <<cs[((k - 1) \div PerDir) + 1], ((k - 1) % PerDir) + 1>>]
Places(v) == PlacesIn(Root(v))
At(v, p) == v[ClustSect(p[1])][p[2]]

\* dir_find: the place of a name, 0 if there is none; the search ends at a blank entry that
\* was never used.
dir_find(v, n) ==
  LET ps == Places(v)
      k == First({i \in DOMAIN ps : At(v, ps[i]).name = n \/ At(v, ps[i]) = End})
  IN IF k # 0 /\ At(v, ps[k]).name = n THEN k ELSE 0

Absent == <<"absent">>
Directory == <<"directory">>
Wrong == <<"wrong">>

\* What a name stands for: the data of a file, a directory, nothing.
Content(v, n) ==
  LET k == dir_find(v, n)
  IN IF k = 0 THEN Absent
  ELSE LET e == At(v, Places(v)[k])
           cs == Chain(v, e.clust)
       IN IF n \in Dirs
          THEN IF cs # <<>> /\ v[ClustSect(cs[1])] = Table(Entry(".", cs[1], 0)) THEN Directory ELSE Wrong
          ELSE IF Len(cs) < e.size THEN Wrong
          ELSE [i \in 1 .. e.size |-> v[ClustSect(cs[i])][1].of]

FreeClusters(v) == {c \in Clusters : get_fat(v, c) = 0}

-----------------------------------------------------------------------------
(* Accesses: "read" is move_window alone, "set" changes an entry of the    *)
(* sector that it moved to, "new" fills the window for a sector without    *)
(* reading it, "flush" is sync_window, "data" writes a cluster of a file,  *)
(* "fsinfo" and "last" belong to sync_fs and f_open.                       *)

Access(do, at, cell, val) == [do |-> do, at |-> at, cell |-> cell, val |-> val]
Read(s) == Access("read", s, 0, 0)
Flush == Access("flush", <<>>, 0, 0)
put_fat(c, val) == Access("set", FatSect(c), c, val)
SetEntry(p, e) == Access("set", ClustSect(p[1]), p[2], e)

sync_fs == <<Flush, Access("fsinfo", <<>>, 0, 0)>>

\* remove_chain.
remove_chain(v, c) == [i \in DOMAIN Chain(v, c) |-> put_fat(Chain(v, c)[i], 0)]

\* create_chain: the clusters it looks at, the new cluster or 0, the accesses.
ScanFrom(scl) ==
  [i \in 1 .. n_fatent - 2 |-> LET c == scl + i IN IF c < n_fatent THEN c ELSE c - (n_fatent - 2)]

\* Mutant: the chain is linked to the new cluster before that is marked.
Mutcreate_chain(v, clst, last) ==
  LET scan == ScanFrom(IF clst # 0 THEN clst ELSE IF last \in Clusters THEN last ELSE 1)
      k == First({i \in DOMAIN scan : get_fat(v, scan[i]) = 0})
      new == scan[k]
  IN IF k = 0 THEN [new |-> 0, accesses |-> <<>>]
     ELSE [new |-> new, accesses |->
             (IF clst = 0 THEN <<>> ELSE <<put_fat(clst, new)>>)
             \o [i \in 1 .. k |-> Read(FatSect(scan[i]))] \o <<put_fat(new, EOC)>>]

create_chain(v, clst, last) ==
  LET scan == ScanFrom(IF clst # 0 THEN clst ELSE IF last \in Clusters THEN last ELSE 1)
      k == First({i \in DOMAIN scan : get_fat(v, scan[i]) = 0})
      new == scan[k]
  IN IF k = 0 THEN [new |-> 0, accesses |-> <<>>]
     ELSE [new |-> new, accesses |->
             (IF clst = 0 THEN <<>> ELSE <<Read(FatSect(clst))>>)
             \o [i \in 1 .. k |-> Read(FatSect(scan[i]))] \o <<put_fat(new, EOC)>>
             \o (IF clst = 0 THEN <<>> ELSE <<put_fat(clst, new)>>)]

-----------------------------------------------------------------------------
(* Directories.                                                            *)

\* dir_sdi and dir_next: the sectors that are read on the way to the k-th entry.
WayTo(v, k) ==
  LET cs == Root(v)
      upto == ((k - 1) \div PerDir) + 1
  IN [i \in 1 .. 2 * upto - 1 |->
        IF i % 2 = 1 THEN Read(ClustSect(cs[(i + 1) \div 2])) ELSE Read(FatSect(cs[i \div 2]))]

\* follow_path for a name in the root directory.
follow_path(v, n) ==
  LET ps == Places(v)
      k == First({i \in DOMAIN ps : At(v, ps[i]).name = n \/ At(v, ps[i]) = End})
  IN WayTo(v, IF k = 0 THEN Len(ps) ELSE k)

\* dir_alloc and dir_register: the first blank entry, if need be in a new cluster of the table,
\* which is linked, then cleared.
dir_register(v, e, last) ==
  LET ps == Places(v)
      k == First({i \in DOMAIN ps : At(v, ps[i]) \in {End, Deleted}})
      way == WayTo(v, IF k = 0 THEN Len(ps) ELSE k)
      stretch == create_chain(v, ps[Len(ps)][1], last)
      place == IF k # 0 THEN ps[k] ELSE <<stretch.new, 1>>
  IN [ok |-> k # 0 \/ stretch.new # 0, place |-> place,
      accesses |->
        IF k # 0 THEN way \o <<SetEntry(place, e)>>
        ELSE way \o stretch.accesses
             \o <<Flush, Access("new", ClustSect(stretch.new), 0, Table(End)), Flush, SetEntry(place, e)>>]

\* dir_sdi: the links that are followed to the cluster of the k-th entry.
dir_sdi(v, k) == [i \in 1 .. (k - 1) \div PerDir |-> Read(FatSect(Root(v)[i]))]

dir_remove(v, k) == dir_sdi(v, k) \o <<SetEntry(Places(v)[k], Deleted)>>

-----------------------------------------------------------------------------
(* Calls.  Each starts when the one before has returned.                   *)

NoFile == [name |-> "none", place |-> <<0, 0>>, sclust |-> 0, size |-> 0, written |-> FALSE]

Idle == todo = <<>> /\ ~ broken
Place(n) == Places(View)[dir_find(View, n)]
Here(n) == dir_find(View, n) # 0

\* What the open file contains, as far as FatFs knows.
OpenData == [i \in 1 .. fp.size |-> View[ClustSect(Chain(View, fp.sclust)[i])][1].of]

\* A call about names N: its accesses; what each of them stands for when it is done (none: decided
\* later); what else may be found if power fails before.
Call(accesses, final, also) ==
  /\ Idle /\ ops < MaxOps /\ ops' = ops + 1
  /\ todo' = accesses /\ done' = final
  /\ may' = [n \in Names |-> IF n \in DOMAIN also THEN may[n] \cup also[n] ELSE may[n]]
  /\ UNCHANGED <<disk, win, broken, crashes>>

None == [n \in {} |-> {}]

\* f_open with FA_CREATE_ALWAYS or FA_OPEN_ALWAYS, no such file.
f_open_new(n) ==
  /\ fp = NoFile /\ ~ Here(n)
  /\ LET r == dir_register(View, Entry(n, 0, 0), fs.last)
     IN /\ r.ok
        /\ Call(follow_path(View, n) \o r.accesses, None, (n :> {<<>>}))
        /\ fp' = [NoFile EXCEPT !.name = n, !.place = r.place, !.written = TRUE]
  /\ UNCHANGED <<fs, renaming, cut>>

\* f_open with FA_CREATE_ALWAYS: the entry is emptied, its clusters are freed.
f_open_overwrite(n) ==
  /\ fp = NoFile /\ Here(n)
  /\ LET p == Place(n)
         cl == At(View, p).clust
     IN /\ Call(follow_path(View, n) \o <<SetEntry(p, Entry(n, 0, 0))>>
                \o (IF cl = 0 THEN <<>>
                    ELSE remove_chain(View, cl)
                         \o <<Access("last", <<>>, 0, cl - 1), Read(ClustSect(p[1]))>>),
                None, (n :> {<<>>}))
        /\ fp' = [NoFile EXCEPT !.name = n, !.place = p, !.written = TRUE]
  /\ UNCHANGED <<fs, renaming, cut>>

\* f_open of an existing file, then f_lseek to its end.
f_open_existing(n) ==
  /\ fp = NoFile /\ Here(n)
  /\ Call(follow_path(View, n), None, None)
  /\ fp' = LET e == At(View, Place(n))
           IN [name |-> n, place |-> Place(n), sclust |-> e.clust, size |-> e.size, written |-> FALSE]
  /\ UNCHANGED <<fs, renaming, cut>>

\* f_write at the end of the file: one more cluster.
f_write ==
  /\ fp # NoFile /\ fp.size < MaxSize
  /\ LET cs == Chain(View, fp.sclust)
         r == create_chain(View, IF cs = <<>> THEN 0 ELSE cs[Len(cs)], fs.last)
         new == IF fp.size < Len(cs) THEN cs[fp.size + 1] ELSE r.new
     IN /\ new # 0
        /\ Call((IF fp.size < Len(cs)
                 THEN (IF fp.size = 0 THEN <<>> ELSE <<Read(FatSect(cs[fp.size]))>>)
                 ELSE r.accesses)
                \o <<Access("data", ClustSect(new), 0, Data(fp.name))>>, None, None)
        /\ fp' = [fp EXCEPT !.size = @ + 1, !.written = TRUE,
                            !.sclust = IF @ = 0 THEN new ELSE @]
  /\ UNCHANGED <<fs, renaming, cut>>

\* f_lseek, which needs the clusters, and f_truncate to k of them: the clusters behind are freed,
\* the entry is left as it is.
f_truncate(k) ==
  /\ fp # NoFile /\ k < fp.size /\ k <= Len(Chain(View, fp.sclust))
  /\ LET cs == Chain(View, fp.sclust)
     IN Call(IF k = 0 THEN remove_chain(View, fp.sclust)
             ELSE IF Len(cs) = k THEN <<Read(FatSect(cs[k]))>>
             ELSE <<Read(FatSect(cs[k])), put_fat(cs[k], EOC)>> \o remove_chain(View, cs[k + 1]),
             None, None)
  /\ fp' = [fp EXCEPT !.size = k, !.written = TRUE, !.sclust = IF k = 0 THEN 0 ELSE @]
  /\ cut' = cut \cup {fp.name}
  /\ UNCHANGED <<fs, renaming>>

\* The accesses of f_sync.
Synced == <<SetEntry(fp.place, Entry(fp.name, fp.sclust, fp.size))>> \o sync_fs

f_sync ==
  /\ fp # NoFile /\ fp.written
  /\ Call(Synced, (fp.name :> OpenData), (fp.name :> {OpenData}))
  /\ fp' = [fp EXCEPT !.written = FALSE]
  /\ UNCHANGED <<fs, renaming, cut>>

\* f_close: f_sync, unless the file is as it was.
f_close ==
  /\ fp # NoFile /\ fp' = NoFile
  /\ IF fp.written THEN Call(Synced, (fp.name :> OpenData), (fp.name :> {OpenData}))
     ELSE Call(<<>>, None, None)
  /\ UNCHANGED <<fs, renaming, cut>>

\* Mutant: the clusters are freed first.
MutUnlinked(k, c) == remove_chain(View, c) \o dir_remove(View, k) \o sync_fs
\* The entry, then the clusters.
Unlinked(k, c) == dir_remove(View, k) \o remove_chain(View, c) \o sync_fs

\* f_unlink; a directory is empty.
f_unlink(n) ==
  /\ n # fp.name /\ Here(n)
  /\ LET p == Place(n)
         c == At(View, p).clust
     IN Call(follow_path(View, n)
             \o (IF n \in Dirs THEN <<Read(ClustSect(c))>> \o <<Read(ClustSect(p[1]))>> ELSE <<>>)
             \o Unlinked(dir_find(View, n), c),
             (n :> Absent), (n :> {Absent}))
  /\ UNCHANGED <<fs, fp, renaming, cut>>

\* What FatFs sees once the cluster of a new directory is marked and its table filled.
Made(v, c) == [v EXCEPT ![FatSect(c)][c] = EOC, ![ClustSect(c)] = Table(Entry(".", c, 0))]

\* f_mkdir: a cluster, its table, then the entry.  Without room for the entry the cluster is freed.
f_mkdir(n) ==
  /\ ~ Here(n)
  /\ LET look == follow_path(View, n)
         c == create_chain(View, 0, fs.last)
         table == <<Flush, Access("new", ClustSect(c.new), 0, Table(Entry(".", c.new, 0))), Flush>>
         first == look \o c.accesses \o table
         r == dir_register(Made(View, c.new), Entry(n, c.new, 0), c.new)
     IN /\ c.new # 0
        /\ IF r.ok THEN Call(first \o r.accesses \o sync_fs, (n :> Directory), (n :> {Directory}))
           ELSE Call(first \o remove_chain(Made(View, c.new), c.new), None, None)
  /\ UNCHANGED <<fs, fp, renaming, cut>>

\* f_rename: the new entry, then the old one goes.
f_rename(n, m) ==
  /\ n # fp.name /\ Here(n) /\ ~ Here(m) /\ (n \in Dirs <=> m \in Dirs)
  /\ LET p == Place(n)
         e == At(View, p)
         r == dir_register(View, Entry(m, e.clust, e.size), fs.last)
         now == Content(View, n)
     IN /\ r.ok
        /\ Call(follow_path(View, n) \o follow_path(View, m) \o r.accesses
                \o dir_remove(View, dir_find(View, n)) \o sync_fs,
                (n :> Absent @@ m :> now), (n :> {Absent} @@ m :> {now}))
  /\ renaming' = {n, m}
  /\ UNCHANGED <<fs, fp, cut>>

\* f_getfree: counts if the number is not known.
f_getfree ==
  /\ Idle /\ fs.free = Unknown
  /\ fs' = [fs EXCEPT !.free = Cardinality(FreeClusters(View)), !.flag = TRUE]
  /\ todo' = [i \in 1 .. n_fatent - 2 |-> Read(FatSect(i + 1))] /\ done' = None
  /\ UNCHANGED <<disk, win, fp, may, renaming, cut, broken, ops, crashes>>

-----------------------------------------------------------------------------
(* One access.                                                             *)

\* sync_window.
Flushed == IF win.dirty THEN [disk EXCEPT ![win.sect] = win.data] ELSE disk

\* Mutant: a changed window is not written before another sector is read.
Mutmove_window(s) ==
  IF win.sect = s THEN [disk |-> disk, win |-> win]
  ELSE [disk |-> disk, win |-> [sect |-> s, data |-> disk[s], dirty |-> FALSE]]

move_window(s) ==
  IF win.sect = s THEN [disk |-> disk, win |-> win]
  ELSE [disk |-> Flushed, win |-> [sect |-> s, data |-> Flushed[s], dirty |-> FALSE]]

\* fs->free_clust wraps from 0 to 0xFFFFFFFF, which stands for unknown.
Less(free) == IF free \in {0, Unknown} THEN Unknown ELSE free - 1
More(free) == IF free = Unknown THEN Unknown ELSE free + 1
Flagged == fs.flag \/ fs.free # Unknown

\* Mutant: a freed cluster is not counted.
MutCounted(c, old, new) ==
  IF old = 0 /\ new # 0 THEN [free |-> Less(fs.free), last |-> c, flag |-> Flagged] ELSE fs

\* A FAT entry goes from old to new: the counting in create_chain and remove_chain.
Counted(c, old, new) ==
  IF old = 0 /\ new # 0 THEN [free |-> Less(fs.free), last |-> c, flag |-> Flagged]
  ELSE IF new = 0 THEN [fs EXCEPT !.free = More(@), !.flag = Flagged]
  ELSE fs

Perform(a) ==
  CASE a.do = "read" -> disk' = move_window(a.at).disk /\ win' = move_window(a.at).win /\ UNCHANGED fs
    [] a.do = "set" ->
         LET now == move_window(a.at).win.data
         IN /\ disk' = move_window(a.at).disk
            /\ win' = [sect |-> a.at, data |-> [now EXCEPT ![a.cell] = a.val], dirty |-> TRUE]
            /\ fs' = IF a.at[1] = "fat" THEN Counted(a.cell, now[a.cell], a.val) ELSE fs
    [] a.do = "new" -> win' = [sect |-> a.at, data |-> a.val, dirty |-> TRUE] /\ UNCHANGED <<disk, fs>>
    [] a.do = "flush" -> disk' = Flushed /\ win' = [win EXCEPT !.dirty = FALSE] /\ UNCHANGED fs
    [] a.do = "data" -> disk' = [disk EXCEPT ![a.at] = a.val] /\ UNCHANGED <<win, fs>>
    [] a.do = "last" -> fs' = [fs EXCEPT !.last = a.val] /\ UNCHANGED <<disk, win>>
    [] a.do = "fsinfo" ->
         IF fs.flag
         THEN LET info == [free |-> fs.free, last |-> fs.last]
              IN /\ disk' = [disk EXCEPT ![FsInfo] = info]
                 /\ win' = [sect |-> FsInfo, data |-> info, dirty |-> FALSE]
                 /\ fs' = [fs EXCEPT !.flag = FALSE]
         ELSE UNCHANGED <<disk, win, fs>>

Step ==
  /\ todo # <<>> /\ todo' = Tail(todo)
  /\ Perform(Head(todo))
  /\ IF Len(todo) = 1
     THEN /\ may' = [n \in Names |-> IF n \in DOMAIN done THEN {done[n]} ELSE may[n]]
          /\ renaming' = {} /\ cut' = cut \ DOMAIN done /\ done' = None
     ELSE UNCHANGED <<may, renaming, cut, done>>
  /\ UNCHANGED <<fp, broken, ops, crashes>>

\* The table of the root directory on the card has a cluster that was linked and not cleared.
Uncleared == \E c \in ToSet(Root(disk)) : \E i \in 1 .. PerDir :
               disk[ClustSect(c)][i].name \in {"data", "."}

\* find_volume after a power loss: FSINFO is read, the rest of RAM is new.
Crash ==
  /\ crashes < MaxCrash /\ crashes' = crashes + 1 /\ ~ broken
  /\ broken' = (renaming # {} \/ cut # {} \/ Uncleared)
  /\ win' = [sect |-> <<>>, data |-> <<>>, dirty |-> FALSE]
  /\ fs' = [free |-> disk[FsInfo].free, last |-> disk[FsInfo].last, flag |-> FALSE]
  /\ fp' = NoFile /\ todo' = <<>> /\ done' = None
  /\ may' = [n \in Names |-> IF Content(disk, n) \in may[n] THEN {Content(disk, n)} ELSE may[n]]
  /\ UNCHANGED <<disk, renaming, cut, ops>>

\* A formatted card that was used before: clusters hold old data, and other software may have
\* left the number of free clusters open.
Init ==
  /\ \E free \in {n_fatent - 3, Unknown} :
       /\ disk = [s \in Sectors |->
            IF s = FsInfo THEN [free |-> free, last |-> dirbase]
            ELSE IF s = ClustSect(dirbase) THEN Table(End)
            ELSE IF s[1] = "cluster" THEN Data("old")
            ELSE [c \in {d \in Clusters : FatSect(d) = s} |-> IF c = dirbase THEN EOC ELSE 0]]
       /\ fs = [free |-> free, last |-> dirbase, flag |-> FALSE]
  /\ win = [sect |-> <<>>, data |-> <<>>, dirty |-> FALSE]
  /\ fp = NoFile /\ todo = <<>> /\ done = None
  /\ may = [n \in Names |-> {Absent}] /\ renaming = {} /\ cut = {} /\ broken = FALSE
  /\ ops = 0 /\ crashes = 0

Next ==
  \/ \E n \in Files : f_open_new(n) \/ f_open_overwrite(n) \/ f_open_existing(n)
  \/ f_write \/ (\E k \in 0 .. MaxSize : f_truncate(k)) \/ f_sync \/ f_close
  \/ \E n \in Names : f_unlink(n)
  \/ \E n \in Dirs : f_mkdir(n)
  \/ \E n, m \in Names : f_rename(n, m)
  \/ f_getfree \/ Step \/ Crash

Spec == Init /\ [][Next]_vars

-----------------------------------------------------------------------------

\* Whenever power fails, and whatever other files are open or being changed: a name that no
\* unfinished call is about still stands for what it stood for, and one that a call is about
\* stands for what it was or what it becomes, or is an empty file on the way ("the file being
\* appended returns initial state", "the file created as new is gone", ... "remains but no
\* content").  Only a file that was truncated and not synced is excepted.
Found ==
  \A n \in Names : n \in cut \/ Content(disk, n) \in may[n]

\* A power loss costs lost clusters and nothing else: on the card, the chains of two entries
\* never meet, and none is shorter than its file or has a cluster that counts as free; except
\* in f_rename, and for a file that was truncated and not synced.
NoCrossLinks ==
  LET ps == Places(disk)
      e(k) == At(disk, ps[k])
      live == {k \in DOMAIN ps : e(k).name \in Names}
      chain(k) == ToSet(Chain(disk, e(k).clust))
  IN \A k \in live : e(k).name \notin renaming \cup cut =>
       /\ Cardinality(chain(k)) >= e(k).size
       /\ e(k).clust # 0 => e(k).clust \in chain(k)
       /\ chain(k) \cap ToSet(Root(disk)) = {}
       /\ \A j \in live \ {k} : e(j).name \notin renaming \cup cut => chain(j) \cap chain(k) = {}

\* Between calls, and until power fails, the number of free clusters that f_getfree returns is
\* exact, however clusters were allocated and freed.
FreeExact ==
  todo = <<>> /\ crashes = 0 /\ fs.free # Unknown => fs.free = Cardinality(FreeClusters(View))
================================================================================
