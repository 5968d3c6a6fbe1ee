----------------------------- MODULE SdCardProofs -----------------------------
(***************************************************************************)
(* Proofs about the SD card, for every set of cards, every file and        *)
(* cluster size and any number of mount ids.                               *)
(***************************************************************************)
EXTENDS SdCard, FiniteSetTheorems, TLAPS

\* Where the audio thread waits for a transfer, and where it works with a volume that
\* find_volume found.
Transfers == {"boot", "part", "fsinfo", "dir", "fat", "data"}
OnVolume == {"fsinfo", "follow", "dir", "next", "fat", "data"}
WithFile == OnVolume \cup {"validate", "converting", "close"}

\* The types, which transfer the audio thread waits for and what the transfer, the window and
\* the file system object hold.
SdTypes ==
    /\ TypeOK
    /\ io.stage = "idle" <=> audio \notin Transfers
    /\ audio \in {"boot", "part", "data"} => io.sector = audio
    /\ audio \in {"fsinfo", "dir", "fat"} =>
         io.sector = audio \/ (io.sector = NoSector /\ io.stage = "ok" /\ win.sect # NoSector)
    /\ io.stage \in {"ok", "torn"} /\ io.sector # NoSector => io.card \in Cards
    /\ io.sector = NoSector => io.stage \in {"idle", "ok"}
    /\ win.sect # NoSector => win.card # None
    /\ audio \in {"boot", "part", "fsinfo"} => ~ fs.type
    /\ fs.type \/ audio \in WithFile => fs.card \in Cards
    /\ fil.pos < FileSectors \/ audio \notin {"next", "fat", "data", "converting", "validate"}

\* The main thread, the driver and the card; a driver that stopped the system may be in any state.
SdDriver ==
    /\ linked => slot \in Cards /\ sdcard_mounted /\ FatFs /\ main = "sleep"
    /\ FatFs => sdcard_mounted /\ main = "sleep"
    /\ main = "sleep" /\ sdcard_mounted => FatFs
    /\ main = "connect" => ~ sdcard_mounted
    /\ halted => ~ linked /\ InFatFs
    /\ ~ halted => /\ drv = "connecting" => main = "connect"
                   /\ drv = "disconnecting" => main = "disconnect"
                   /\ drv = "reading" => io.stage = "reading"
                   /\ linked => drv \in {"ready", "reading"}

\* All that a sound uses is from the card of the volume its file is on.
SameCard ==
    /\ linked /\ io.stage = "ok" /\ io.sector # NoSector => slot = io.card
    /\ linked /\ (fs.type \/ audio \in OnVolume) => slot = fs.card
    /\ fs.type \/ audio \in OnVolume => win.sect = NoSector \/ win.card = fs.card
    /\ audio \in {"fsinfo", "dir", "fat", "data"} /\ io.stage \in {"reading", "ok", "torn"}
       /\ io.sector # NoSector /\ io.card # None => io.card = fs.card
    /\ audio \in WithFile => used \subseteq {fs.card}

\* Before a volume is found nothing is used.
NothingUsed == audio \in {"find", "status", "boot", "part"} => used = {}

\* The inductive invariant.
SdInv == SdTypes /\ SdDriver /\ NothingUsed /\ (~ late => SameCard)

\* The fields of the records.
LEMMA SdShapes ==
    ASSUME TypeOK
    PROVE  /\ fs.type \in BOOLEAN /\ fs.id \in 0 .. IdMod - 1 /\ fs.card \in Cards \cup {None}
           /\ win.sect \in Sectors \cup {NoSector} /\ win.card \in Cards \cup {None}
           /\ win.torn \in BOOLEAN
           /\ fil.fs \in BOOLEAN /\ fil.id \in 0 .. IdMod - 1 /\ fil.err \in BOOLEAN
           /\ fil.pos \in 0 .. FileSectors
           /\ io.stage \in Stages /\ io.sector \in Sectors \cup {NoSector, "data"}
           /\ io.card \in Cards \cup {None}
BY DEF TypeOK

\* What a change of one field does to the records.
FsRecord == [type : BOOLEAN, id : 0 .. IdMod - 1, card : Cards \cup {None}]
WinRecord == [sect : Sectors \cup {NoSector}, card : Cards \cup {None}, torn : BOOLEAN]
FilRecord == [fs : BOOLEAN, id : 0 .. IdMod - 1, err : BOOLEAN, pos : 0 .. FileSectors]
IoRecord == [stage : Stages, sector : Sectors \cup {NoSector, "data"}, card : Cards \cup {None}]

\* Mounting and unmounting keep the rest of the volume record.
LEMMA FsChange ==
    ASSUME NEW r \in FsRecord, NEW t \in BOOLEAN, NEW q, q = [r EXCEPT !.type = t]
    PROVE  q \in FsRecord /\ q.type = t /\ q.id = r.id /\ q.card = r.card
<1>1. q \in FsRecord
  BY Zenon DEF FsRecord
<1> QED BY <1>1 DEF FsRecord

\* A mount sets the type and the number in the volume record, not its card.
LEMMA FsMounted ==
    ASSUME NEW r \in FsRecord, NEW i \in 0 .. IdMod - 1, NEW q,
           q = [r EXCEPT !.type = TRUE, !.id = i]
    PROVE  q \in FsRecord /\ q.card = r.card
<1>1. q \in FsRecord
  BY Zenon DEF FsRecord
<1> QED BY <1>1 DEF FsRecord

\* An error or a close keeps the position of the file.
LEMMA FilChange ==
    ASSUME NEW r \in FilRecord, NEW q, q \in {[r EXCEPT !.err = TRUE], [r EXCEPT !.fs = FALSE]}
    PROVE  q \in FilRecord /\ q.pos = r.pos
<1>1. q \in FilRecord
  BY Zenon DEF FilRecord
<1> QED BY <1>1 DEF FilRecord

\* A transfer that goes on keeps its sector and card.
LEMMA IoChange ==
    ASSUME NEW r \in IoRecord, NEW s \in Stages, NEW q, q = [r EXCEPT !.stage = s]
    PROVE  q \in IoRecord /\ q.stage = s /\ q.sector = r.sector /\ q.card = r.card
BY DEF IoRecord

\* What a new mount does to the window.
LEMMA WinChange ==
    ASSUME NEW r \in WinRecord, NEW q, q = [r EXCEPT !.sect = NoSector]
    PROVE  q \in WinRecord /\ q.sect = NoSector /\ q.card = r.card
BY DEF WinRecord

\* What the end of an access leaves in the window: the sector and the card of the transfer, or
\* the old sector's number over data of the card, or what was there.
LEMMA WindowEnds ==
    ASSUME SdTypes, Loaded \/ Failed, audio \in Transfers \ {"data"}
    PROVE  /\ WindowAfter \in WinRecord
           /\ WindowAfter.sect # NoSector => WindowAfter.card \in Cards
           /\ \/ WindowAfter = win /\ (Loaded => io.sector = NoSector)
              \/ /\ io.stage \in {"ok", "torn"} /\ io.sector # NoSector
                 /\ WindowAfter.card = io.card /\ io.card \in Cards
<1> USE DEF SdTypes
<1>a. win \in WinRecord /\ io \in IoRecord /\ None \notin Cards
  BY CardsAssumption DEF TypeOK, WinRecord, IoRecord
<1>1. CASE Loaded /\ io.sector # NoSector
  <2>1. WindowAfter = [sect |-> io.sector, card |-> io.card, torn |-> FALSE]
    BY <1>1 DEF WindowAfter, Loaded
  <2>2. io.sector \in Sectors
    <3>1. audio \in {"boot", "part", "fsinfo", "dir", "fat"}
      BY DEF Transfers
    <3>2. io.sector = audio
      BY <1>1, <3>1
    <3> QED BY <3>1, <3>2 DEF Sectors
  <2> QED BY <1>1, <1>a, <2>1, <2>2 DEF WinRecord, Loaded
<1>2. CASE io.stage = "torn"
  <2>1. WindowAfter = [win EXCEPT !.card = io.card, !.torn = TRUE]
    BY <1>2 DEF WindowAfter, Loaded
  <2>2. io.sector # NoSector /\ io.card \in Cards
    BY <1>2
  <2> QED BY <1>2, <1>a, <2>1, <2>2 DEF WinRecord
<1>3. CASE ~ (Loaded /\ io.sector # NoSector) /\ io.stage # "torn"
  <2>1. WindowAfter = win
    BY <1>3 DEF WindowAfter
  <2> QED BY <1>3, <1>a, <2>1 DEF WinRecord
<1> QED BY <1>1, <1>2, <1>3

\* How a transfer begins and ends.
LEMMA ReadBegins ==
    ASSUME slot \in Cards \cup {None}, io \in IoRecord, sdcReadBegins
    PROVE  /\ io' \in IoRecord /\ io'.stage = "reading" /\ io'.sector = io.sector
           /\ io'.card = IF linked THEN slot ELSE None
<1>1. "reading" \in Stages
  BY DEF Stages
<1> QED BY <1>1 DEF sdcReadBegins, IoRecord

\* A transfer ends with the data of the card, or fails and may have torn the buffer.
LEMMA ReadEnds ==
    ASSUME slot \in Cards \cup {None}, io \in IoRecord, sdcReadEnds
    PROVE  /\ io' \in IoRecord /\ io'.stage \in {"ok", "fail", "torn"} /\ io'.sector = io.sector
           /\ io'.stage = "ok" => linked /\ io'.card = slot
           /\ io'.stage = "torn" => io'.card = io.card /\ io.card # None
<1>1. CASE io' = [io EXCEPT !.stage = "fail"]
  <2>1. "fail" \in Stages
    BY DEF Stages
  <2>2. io' \in IoRecord /\ io'.stage = "fail" /\ io'.sector = io.sector
    BY <1>1, <2>1, IoChange, Zenon
  <2> QED BY <2>2
<1>2. CASE io.card # None /\ io' = [io EXCEPT !.stage = "torn"]
  <2>1. "torn" \in Stages
    BY DEF Stages
  <2>2. io' \in IoRecord /\ io'.stage = "torn" /\ io'.sector = io.sector /\ io'.card = io.card
    BY <1>2, <2>1, IoChange, Zenon
  <2> QED BY <1>2, <2>2
<1>3. CASE linked /\ io' = [io EXCEPT !.stage = "ok", !.card = slot]
  <2>1. "ok" \in Stages /\ slot \in Cards \cup {None}
    BY DEF Stages
  <2>2. io' \in IoRecord /\ io'.stage = "ok" /\ io'.sector = io.sector /\ io'.card = slot
    BY <1>3, <2>1 DEF IoRecord
  <2> QED BY <1>3, <2>2
<1> QED BY <1>1, <1>2, <1>3 DEF sdcReadEnds

\* The variables that are Booleans.
Flags == {linked, halted, late, sdcard_mounted, FatFs} \subseteq BOOLEAN

\* They stay Booleans.
LEMMA FlagsStep == Flags /\ [Next]_vars => Flags'
<1> SUFFICES ASSUME Flags, [Next]_vars PROVE Flags'
  OBVIOUS
<1> USE DEF Flags, mainVars, ffVars, Quiet
<1>1. ASSUME NEW c \in Cards, Insert(c) PROVE Flags'
  BY <1>1, Zenon DEF Insert
<1>2. CASE Remove
  BY <1>2, Zenon DEF Remove
<1>3. CASE sdcRead
  BY <1>3, Zenon DEF sdcRead
<1>4. CASE sdcReadEnds
  BY <1>4, Zenon DEF sdcReadEnds
<1>5. CASE sdcard_automount
  BY <1>5, Zenon DEF sdcard_automount, Driver, f_mount
<1>6. CASE Connected
  BY <1>6, Zenon DEF Connected, f_mount
<1>7. CASE NotConnected
  BY <1>7, Zenon DEF NotConnected
<1>8. CASE Disconnected
  BY <1>8, Zenon DEF Disconnected
<1>9. CASE f_open
  BY <1>9, Zenon DEF f_open
<1>10. CASE find_volume
  BY <1>10, Zenon DEF find_volume
<1>11. CASE check_status
  BY <1>11, Zenon DEF check_status
<1>12. CASE check_fs
  BY <1>12, Zenon DEF check_fs
<1>13. CASE mounted_volume
  BY <1>13, Zenon DEF mounted_volume
<1>14. CASE follow_path
  BY <1>14, Zenon DEF follow_path
<1>15. CASE dir_find
  BY <1>15, Zenon DEF dir_find
<1>16. CASE f_read
  BY <1>16, Zenon DEF f_read
<1>17. CASE next_sector
  BY <1>17, Zenon DEF next_sector
<1>18. CASE get_fat
  BY <1>18, Zenon DEF get_fat
<1>19. CASE read_sector
  BY <1>19, Zenon DEF read_sector
<1>20. CASE wav_read_cb
  BY <1>20, Zenon DEF wav_read_cb
<1>21. CASE f_close
  BY <1>21, Zenon DEF f_close
<1>22. CASE disk_read
  BY <1>22, Zenon DEF disk_read
<1>24. CASE sdcReadBegins
  BY <1>24, Zenon DEF sdcReadBegins
<1>23. CASE UNCHANGED vars
  BY <1>23, Zenon DEF vars
<1> QED
  BY <1>1, <1>2, <1>3, <1>4, <1>5, <1>6, <1>7, <1>8, <1>9, <1>10, <1>11, <1>12, <1>13, <1>14,
       <1>15, <1>16, <1>17, <1>18, <1>19, <1>20, <1>21, <1>22, <1>23, <1>24
     DEF Next, main_loop, audio_thd_main

\* Each part of the invariant is kept by every action.
LEMMA SdTypesStep ==
    SdTypes /\ SdDriver /\ [Next]_vars => SdTypes'
<1> SUFFICES ASSUME SdTypes, SdDriver, [Next]_vars PROVE SdTypes'
  OBVIOUS
<1>a. fs \in FsRecord /\ win \in WinRecord /\ fil \in FilRecord /\ io \in IoRecord
  BY DEF SdTypes, TypeOK, FsRecord, WinRecord, FilRecord, IoRecord
<1>b. Flags'
  <2>1. Flags
    BY Zenon DEF SdTypes, TypeOK, Flags
  <2> QED BY <2>1, FlagsStep
<1> USE CardsAssumption, SdShapes DEF SdTypes, TypeOK, SdDriver, Transfers, OnVolume, WithFile,
     mainVars, ffVars, Quiet, Ready, Running, InFatFs, NoTransfer, NoSector, Sectors, Stages
<1>1. ASSUME NEW c \in Cards, Insert(c) PROVE SdTypes'
  BY <1>1 DEF Insert
<1>2. CASE Remove
  <2> QED BY <1>2, <1>a, <1>b
          DEF Remove, Flags, FsRecord, WinRecord, FilRecord, IoRecord
<1>3. CASE sdcRead
  <2>1. \/ io' = io
        \/ /\ io' \in IoRecord /\ io'.stage = "asserted" /\ io'.sector = io.sector
           /\ io'.card = io.card
    BY <1>3, <1>a, IoChange DEF sdcRead
  <2> QED BY <1>3, <1>a, <1>b, <2>1
          DEF sdcRead, Flags, FsRecord, WinRecord, FilRecord, IoRecord
<1>4. CASE sdcReadEnds
  <2>1. /\ io' \in IoRecord /\ io'.stage \in {"ok", "fail", "torn"} /\ io'.sector = io.sector
        /\ io'.stage = "ok" => linked /\ io'.card = slot
        /\ io'.stage = "torn" => io'.card = io.card /\ io.card # None
    BY <1>4, <1>a, ReadEnds
  <2> QED BY <1>4, <1>a, <1>b, <2>1
          DEF sdcReadEnds, Flags, FsRecord, WinRecord, FilRecord, IoRecord
<1>5. CASE sdcard_automount
  <2>1. fs' = fs \/ fs' = [fs EXCEPT !.type = FALSE]
    BY <1>5, Zenon DEF sdcard_automount, f_mount
  <2>2. fs' \in FsRecord /\ fs'.card = fs.card /\ (fs'.type => fs.type)
    <3>1. CASE fs' = fs
      BY <1>a, <3>1
    <3>2. CASE fs' = [fs EXCEPT !.type = FALSE]
      <4>1. fs' \in FsRecord /\ fs'.type = FALSE /\ fs'.card = fs.card
        BY <1>a, <3>2, FsChange, Zenon
      <4> QED BY <4>1
    <3> QED BY <2>1, <3>1, <3>2
  <2> QED BY <1>5, <1>a, <1>b, <2>1, <2>2
          DEF sdcard_automount, Driver, f_mount, Flags, FsRecord, WinRecord, FilRecord, IoRecord
<1>6. CASE Connected
  <2>1. fs' \in FsRecord /\ fs'.card = fs.card /\ (fs'.type => fs.type)
    BY <1>6, <1>a, FsChange DEF Connected, f_mount
  <2> QED BY <1>6, <1>a, <1>b, <2>1
          DEF Connected, f_mount, Flags, FsRecord, WinRecord, FilRecord, IoRecord
<1>7. CASE NotConnected
  BY <1>7 DEF NotConnected
<1>8. CASE Disconnected
  <2> QED BY <1>8, <1>a, <1>b
          DEF Disconnected, Flags, FsRecord, WinRecord, FilRecord, IoRecord
<1>9. CASE f_open
  BY <1>9 DEF f_open, Goto
<1>10. CASE find_volume
  BY <1>10 DEF find_volume, Goto
<1>11. CASE check_status
  <2>1. fs' = fs \/ fs' = [fs EXCEPT !.type = FALSE]
    BY <1>11, Zenon DEF check_status
  <2>2. fs' \in FsRecord /\ fs'.card = fs.card /\ (fs'.type => fs.type)
    <3>1. CASE fs' = fs
      BY <1>a, <3>1
    <3>2. CASE fs' = [fs EXCEPT !.type = FALSE]
      <4>1. fs' \in FsRecord /\ fs'.type = FALSE /\ fs'.card = fs.card
        BY <1>a, <3>2, FsChange, Zenon
      <4> QED BY <4>1
    <3> QED BY <2>1, <3>1, <3>2
  <2>3. win' = win \/ (win' \in WinRecord /\ win'.sect = NoSector)
    BY <1>11, <1>a, WinChange DEF check_status
  <2> QED BY <1>11, <1>a, <1>b, <2>1, <2>2, <2>3
          DEF check_status, Goto, Ask, Initialised, Flags, FsRecord, WinRecord, FilRecord, IoRecord
<1>12. CASE check_fs
  <2>1. /\ win' \in WinRecord /\ (win'.sect # NoSector => win'.card \in Cards)
        /\ \/ win' = win /\ (Loaded => io.sector = NoSector)
           \/ /\ io.stage \in {"ok", "torn"} /\ io.sector # NoSector
              /\ win'.card = io.card /\ io.card \in Cards
    BY <1>12, WindowEnds DEF check_fs
  <2>2. Loaded => win'.card = io.card /\ io.card \in Cards /\ win'.sect = io.sector
    BY <1>12 DEF check_fs, WindowAfter, Loaded
  <2>3. fs' = fs \/ (Loaded /\ fs' = [fs EXCEPT !.card = win'.card])
    BY <1>12 DEF check_fs
  <2>4. /\ fs' \in FsRecord /\ fs'.type = fs.type
        /\ fs'.card = fs.card \/ (Loaded /\ fs'.card = win'.card)
    BY <1>a, <2>2, <2>3 DEF FsRecord
  <2> QED BY <1>12, <1>a, <1>b, <2>1, <2>2, <2>3, <2>4
          DEF check_fs, Goto, Ask, Hit, Idle, Loaded, Failed, Flags, FsRecord, WinRecord,
              FilRecord, IoRecord
<1>13. CASE mounted_volume
  <2>1. /\ win' \in WinRecord /\ (win'.sect # NoSector => win'.card \in Cards)
        /\ \/ win' = win /\ (Loaded => io.sector = NoSector)
           \/ /\ io.stage \in {"ok", "torn"} /\ io.sector # NoSector
              /\ win'.card = io.card /\ io.card \in Cards
    BY <1>13, WindowEnds DEF mounted_volume
  <2>2. fs' \in FsRecord /\ fs'.card = fs.card
    <3>1. Fsid' \in 0 .. IdMod - 1
      BY <1>13 DEF mounted_volume
    <3>2. fs' = [fs EXCEPT !.type = TRUE, !.id = Fsid']
      BY <1>13, Zenon DEF mounted_volume
    <3> QED BY <1>a, <3>1, <3>2, FsMounted
  <2> QED BY <1>13, <1>a, <1>b, <2>1, <2>2
          DEF mounted_volume, Goto, Idle, Loaded, Failed, Flags, FsRecord,
              WinRecord, FilRecord, IoRecord
<1>14. CASE follow_path
  BY <1>14 DEF follow_path, Goto, move_window, Hit, Ask
<1>15. CASE dir_find
  <2>1. /\ win' \in WinRecord /\ (win'.sect # NoSector => win'.card \in Cards)
        /\ \/ win' = win /\ (Loaded => io.sector = NoSector)
           \/ /\ io.stage \in {"ok", "torn"} /\ io.sector # NoSector
              /\ win'.card = io.card /\ io.card \in Cards
    BY <1>15, WindowEnds DEF dir_find
  <2>2. fil' = fil \/ (fil' \in FilRecord /\ fil'.pos = 0)
    <3>1. [fs |-> TRUE, id |-> fs.id, err |-> FALSE, pos |-> 0] \in FilRecord
      BY <1>a DEF FilRecord
    <3>2. [fs |-> TRUE, id |-> fs.id, err |-> FALSE, pos |-> 0].pos = 0
      OBVIOUS
    <3> QED BY <1>15, <3>1, <3>2, Zenon DEF dir_find
  <2> QED BY <1>15, <1>a, <1>b, <2>1, <2>2
          DEF dir_find, Goto, Idle, Loaded, Failed, Flags, FsRecord, WinRecord,
              FilRecord, IoRecord
<1>16. CASE f_read
  BY <1>16 DEF f_read, Goto, Valid
<1>17. CASE next_sector
  <2>1. fil' \in FilRecord /\ fil'.pos = fil.pos
    BY <1>17, <1>a, FilChange DEF next_sector
  <2> QED BY <1>17, <1>a, <1>b, <2>1
          DEF next_sector, Goto, Ask, move_window, Hit, Flags, FsRecord, WinRecord, FilRecord,
              IoRecord
<1>18. CASE get_fat
  <2>1. /\ win' \in WinRecord /\ (win'.sect # NoSector => win'.card \in Cards)
        /\ \/ win' = win /\ (Loaded => io.sector = NoSector)
           \/ /\ io.stage \in {"ok", "torn"} /\ io.sector # NoSector
              /\ win'.card = io.card /\ io.card \in Cards
    BY <1>18, WindowEnds DEF get_fat
  <2>2. fil' \in FilRecord /\ fil'.pos = fil.pos
    BY <1>18, <1>a, FilChange DEF get_fat
  <2> QED BY <1>18, <1>a, <1>b, <2>1, <2>2
          DEF get_fat, Goto, Ask, Idle, Loaded, Failed, Flags, FsRecord, WinRecord,
              FilRecord, IoRecord
<1>19. CASE read_sector
  <2>1. (Loaded => fil' \in FilRecord /\ fil'.pos = fil.pos + 1) /\ (~ Loaded => fil' \in FilRecord)
    BY <1>19, <1>a, FilChange DEF read_sector, FilRecord
  <2> QED BY <1>19, <1>a, <1>b, <2>1
          DEF read_sector, Goto, Idle, Loaded, Failed, Flags, FsRecord, WinRecord, FilRecord,
              IoRecord
<1>20. CASE wav_read_cb
  BY <1>20 DEF wav_read_cb, Goto
<1>21. CASE f_close
  <2>1. fil' \in FilRecord /\ fil'.pos = fil.pos
    BY <1>21, <1>a, FilChange DEF f_close
  <2> QED BY <1>21, <1>a, <1>b, <2>1
          DEF f_close, Goto, Valid, Flags, FsRecord, WinRecord, FilRecord, IoRecord
<1>22. CASE disk_read
  BY <1>22 DEF disk_read
<1>24. CASE sdcReadBegins
  <2>1. /\ io' \in IoRecord /\ io'.stage = "reading" /\ io'.sector = io.sector
        /\ io'.card = IF linked THEN slot ELSE None
    BY <1>24, <1>a, ReadBegins
  <2> QED BY <1>24, <1>a, <1>b, <2>1
          DEF sdcReadBegins, Flags, FsRecord, WinRecord, FilRecord, IoRecord
<1>23. CASE UNCHANGED vars
  BY <1>23 DEF vars
<1> QED
  BY <1>1, <1>2, <1>3, <1>4, <1>5, <1>6, <1>7, <1>8, <1>9, <1>10, <1>11, <1>12, <1>13, <1>14,
       <1>15, <1>16, <1>17, <1>18, <1>19, <1>20, <1>21, <1>22, <1>23, <1>24
     DEF Next, main_loop, audio_thd_main

\* Driver, mount flag and main thread stay in step with each other.
LEMMA SdDriverStep ==
    SdTypes /\ SdDriver /\ [Next]_vars => SdDriver'
<1> SUFFICES ASSUME SdTypes, SdDriver, [Next]_vars PROVE SdDriver'
  OBVIOUS
<1> USE CardsAssumption, SdShapes DEF SdTypes, TypeOK, SdDriver, Transfers, OnVolume, WithFile,
     mainVars, ffVars, Quiet, Ready, Running, InFatFs, NoTransfer, NoSector, Sectors, Stages
<1>1. ASSUME NEW c \in Cards, Insert(c) PROVE SdDriver'
  BY <1>1 DEF Insert
<1>2. CASE Remove
  BY <1>2 DEF Remove
<1>3. CASE sdcRead
  BY <1>3 DEF sdcRead
<1>4. CASE sdcReadEnds
  BY <1>4 DEF sdcReadEnds
<1>5. CASE sdcard_automount
  BY <1>5 DEF sdcard_automount, Driver, f_mount
<1>6. CASE Connected
  BY <1>6 DEF Connected, f_mount
<1>7. CASE NotConnected
  BY <1>7 DEF NotConnected
<1>8. CASE Disconnected
  BY <1>8 DEF Disconnected
<1>9. CASE f_open
  BY <1>9 DEF f_open, Goto
<1>10. CASE find_volume
  BY <1>10 DEF find_volume, Goto
<1>11. CASE check_status
  BY <1>11 DEF check_status, Goto, Ask, Initialised
<1>12. CASE check_fs
  BY <1>12 DEF check_fs, Goto, Ask, Hit, Idle, WindowAfter, Loaded, Failed
<1>13. CASE mounted_volume
  BY <1>13 DEF mounted_volume, Goto, Idle, WindowAfter, Loaded, Failed
<1>14. CASE follow_path
  BY <1>14 DEF follow_path, Goto, move_window, Hit, Ask
<1>15. CASE dir_find
  BY <1>15 DEF dir_find, Goto, Idle, WindowAfter, Loaded, Failed
<1>16. CASE f_read
  BY <1>16 DEF f_read, Goto, Valid
<1>17. CASE next_sector
  BY <1>17 DEF next_sector, Goto, Ask, move_window, Hit
<1>18. CASE get_fat
  BY <1>18 DEF get_fat, Goto, Ask, Idle, WindowAfter, Loaded, Failed
<1>19. CASE read_sector
  BY <1>19 DEF read_sector, Goto, Idle, Loaded, Failed
<1>20. CASE wav_read_cb
  BY <1>20 DEF wav_read_cb, Goto
<1>21. CASE f_close
  BY <1>21 DEF f_close, Goto, Valid
<1>22. CASE disk_read
  BY <1>22 DEF disk_read
<1>24. CASE sdcReadBegins
  BY <1>24 DEF sdcReadBegins
<1>23. CASE UNCHANGED vars
  BY <1>23 DEF vars
<1> QED
  BY <1>1, <1>2, <1>3, <1>4, <1>5, <1>6, <1>7, <1>8, <1>9, <1>10, <1>11, <1>12, <1>13, <1>14,
       <1>15, <1>16, <1>17, <1>18, <1>19, <1>20, <1>21, <1>22, <1>23, <1>24
     DEF Next, main_loop, audio_thd_main

\* Until the volume is found, a sound has used nothing of a card.
LEMMA NothingUsedStep ==
    NothingUsed /\ [Next]_vars => NothingUsed'
<1> SUFFICES ASSUME NothingUsed, [Next]_vars PROVE NothingUsed'
  OBVIOUS
<1> USE DEF NothingUsed, mainVars, ffVars, Quiet, Ready
<1>1. ASSUME NEW c \in Cards, Insert(c) PROVE NothingUsed'
  BY <1>1 DEF Insert
<1>2. CASE Remove
  BY <1>2 DEF Remove
<1>3. CASE sdcRead
  BY <1>3 DEF sdcRead
<1>4. CASE sdcReadEnds
  BY <1>4 DEF sdcReadEnds
<1>5. CASE sdcard_automount
  BY <1>5 DEF sdcard_automount, Driver, f_mount
<1>6. CASE Connected
  BY <1>6 DEF Connected, f_mount
<1>7. CASE NotConnected
  BY <1>7 DEF NotConnected
<1>8. CASE Disconnected
  BY <1>8 DEF Disconnected
<1>9. CASE f_open
  BY <1>9 DEF f_open, Goto
<1>10. CASE find_volume
  BY <1>10 DEF find_volume, Goto
<1>11. CASE check_status
  BY <1>11 DEF check_status, Goto, Ask, Initialised
<1>12. CASE check_fs
  BY <1>12 DEF check_fs, Goto, Ask, Hit, Idle, WindowAfter, Loaded, Failed
<1>13. CASE mounted_volume
  BY <1>13 DEF mounted_volume, Goto, Idle, WindowAfter, Loaded, Failed
<1>14. CASE follow_path
  BY <1>14 DEF follow_path, Goto, move_window, Hit, Ask
<1>15. CASE dir_find
  BY <1>15 DEF dir_find, Goto, Idle, WindowAfter, Loaded, Failed
<1>16. CASE f_read
  BY <1>16 DEF f_read, Goto, Valid
<1>17. CASE next_sector
  BY <1>17 DEF next_sector, Goto, Ask, move_window, Hit
<1>18. CASE get_fat
  BY <1>18 DEF get_fat, Goto, Ask, Idle, WindowAfter, Loaded, Failed
<1>19. CASE read_sector
  BY <1>19 DEF read_sector, Goto, Idle, Loaded, Failed
<1>20. CASE wav_read_cb
  BY <1>20 DEF wav_read_cb, Goto
<1>21. CASE f_close
  BY <1>21 DEF f_close, Goto, Valid
<1>22. CASE disk_read
  BY <1>22 DEF disk_read
<1>24. CASE sdcReadBegins
  BY <1>24 DEF sdcReadBegins
<1>23. CASE UNCHANGED vars
  BY <1>23 DEF vars
<1> QED
  BY <1>1, <1>2, <1>3, <1>4, <1>5, <1>6, <1>7, <1>8, <1>9, <1>10, <1>11, <1>12, <1>13, <1>14,
       <1>15, <1>16, <1>17, <1>18, <1>19, <1>20, <1>21, <1>22, <1>23, <1>24
     DEF Next, main_loop, audio_thd_main

\* As long as no call outlasts a mount, everything belongs to the card of the volume.
LEMMA SameCardStep ==
    SdTypes /\ SdDriver /\ NothingUsed /\ (~ late => SameCard) /\ [Next]_vars =>
      (~ late => SameCard)'
<1> SUFFICES ASSUME SdTypes, SdDriver, NothingUsed, ~ late => SameCard, [Next]_vars, ~ late'
             PROVE  SameCard'
  OBVIOUS
<1>a. fs \in FsRecord /\ win \in WinRecord /\ fil \in FilRecord /\ io \in IoRecord
  BY DEF SdTypes, TypeOK, FsRecord, WinRecord, FilRecord, IoRecord
<1>b. Flags'
  <2>1. Flags
    BY Zenon DEF SdTypes, TypeOK, Flags
  <2> QED BY <2>1, FlagsStep
<1> USE CardsAssumption, SdShapes DEF SdTypes, TypeOK, SdDriver, SameCard, NothingUsed,
     Transfers, OnVolume, WithFile, mainVars, ffVars, Quiet, Ready, Running, InFatFs, NoTransfer,
     NoSector, Sectors, Stages
<1>1. ASSUME NEW c \in Cards, Insert(c) PROVE SameCard'
  BY <1>1 DEF Insert
<1>2. CASE Remove
  <2> QED BY <1>2, <1>a, <1>b
          DEF Remove, Flags, FsRecord, WinRecord, FilRecord, IoRecord
<1>3. CASE sdcRead
  <2>1. \/ io' = io
        \/ /\ io' \in IoRecord /\ io'.stage = "asserted" /\ io'.sector = io.sector
           /\ io'.card = io.card
    BY <1>3, <1>a, IoChange DEF sdcRead
  <2> QED BY <1>3, <1>a, <1>b, <2>1
          DEF sdcRead, Flags, FsRecord, WinRecord, FilRecord, IoRecord
<1>4. CASE sdcReadEnds
  <2>1. /\ io' \in IoRecord /\ io'.stage \in {"ok", "fail", "torn"} /\ io'.sector = io.sector
        /\ io'.stage = "ok" => linked /\ io'.card = slot
        /\ io'.stage = "torn" => io'.card = io.card /\ io.card # None
    BY <1>4, <1>a, ReadEnds
  <2> QED BY <1>4, <1>a, <1>b, <2>1
          DEF sdcReadEnds, Flags, FsRecord, WinRecord, FilRecord, IoRecord
<1>5. CASE sdcard_automount
  <2>1. fs' = fs \/ fs' = [fs EXCEPT !.type = FALSE]
    BY <1>5, Zenon DEF sdcard_automount, f_mount
  <2>2. fs' \in FsRecord /\ fs'.card = fs.card /\ (fs'.type => fs.type)
    <3>1. CASE fs' = fs
      BY <1>a, <3>1
    <3>2. CASE fs' = [fs EXCEPT !.type = FALSE]
      <4>1. fs' \in FsRecord /\ fs'.type = FALSE /\ fs'.card = fs.card
        BY <1>a, <3>2, FsChange, Zenon
      <4> QED BY <4>1
    <3> QED BY <2>1, <3>1, <3>2
  <2> QED BY <1>5, <1>a, <1>b, <2>1, <2>2
          DEF sdcard_automount, Driver, f_mount, Flags, FsRecord, WinRecord, FilRecord, IoRecord
<1>6. CASE Connected
  <2>1. fs' \in FsRecord /\ fs'.card = fs.card /\ (fs'.type => fs.type)
    BY <1>6, <1>a, FsChange DEF Connected, f_mount
  <2> QED BY <1>6, <1>a, <1>b, <2>1
          DEF Connected, f_mount, Flags, FsRecord, WinRecord, FilRecord, IoRecord
<1>7. CASE NotConnected
  BY <1>7 DEF NotConnected
<1>8. CASE Disconnected
  <2> QED BY <1>8, <1>a, <1>b
          DEF Disconnected, Flags, FsRecord, WinRecord, FilRecord, IoRecord
<1>9. CASE f_open
  BY <1>9 DEF f_open, Goto
<1>10. CASE find_volume
  BY <1>10 DEF find_volume, Goto
<1>11. CASE check_status
  <2>1. fs' = fs \/ fs' = [fs EXCEPT !.type = FALSE]
    BY <1>11, Zenon DEF check_status
  <2>2. fs' \in FsRecord /\ fs'.card = fs.card /\ (fs'.type => fs.type)
    <3>1. CASE fs' = fs
      BY <1>a, <3>1
    <3>2. CASE fs' = [fs EXCEPT !.type = FALSE]
      <4>1. fs' \in FsRecord /\ fs'.type = FALSE /\ fs'.card = fs.card
        BY <1>a, <3>2, FsChange, Zenon
      <4> QED BY <4>1
    <3> QED BY <2>1, <3>1, <3>2
  <2>3. win' = win \/ (win' \in WinRecord /\ win'.sect = NoSector)
    BY <1>11, <1>a, WinChange DEF check_status
  <2> QED BY <1>11, <1>a, <1>b, <2>1, <2>2, <2>3
          DEF check_status, Goto, Ask, Initialised, Flags, FsRecord, WinRecord, FilRecord, IoRecord
<1>12. CASE check_fs
  <2>1. io.sector # NoSector
    BY <1>12 DEF check_fs
  <2>2. Loaded => win' = [sect |-> io.sector, card |-> io.card, torn |-> FALSE]
    BY <1>12, <2>1 DEF check_fs, WindowAfter, Loaded
  <2>3. Failed => ~ Loaded
    BY DEF Loaded, Failed
  <2>4. fs' = fs \/ (Loaded /\ fs' = [fs EXCEPT !.card = io.card] /\ used' = {io.card})
    BY <1>12, <2>2 DEF check_fs, Loaded
  <2>5. Loaded => win'.card = io.card /\ win'.sect = io.sector
    BY <2>2
  <2>6. fs' = fs \/ (Loaded /\ fs'.card = io.card /\ used' = {io.card} /\ fs'.type = fs.type)
    BY <1>a, <2>4 DEF FsRecord
  <2> QED BY <1>12, <1>a, <1>b, <2>1, <2>2, <2>3, <2>4, <2>5, <2>6
          DEF check_fs, Goto, Ask, Hit, Idle, WindowAfter, Loaded, Failed, Flags, FsRecord,
              WinRecord, FilRecord, IoRecord
<1>13. CASE mounted_volume
  <2>1. /\ win' \in WinRecord /\ (win'.sect # NoSector => win'.card \in Cards)
        /\ \/ win' = win /\ (Loaded => io.sector = NoSector)
           \/ /\ io.stage \in {"ok", "torn"} /\ io.sector # NoSector
              /\ win'.card = io.card /\ io.card \in Cards
    BY <1>13, WindowEnds DEF mounted_volume
  <2>2. fs' \in FsRecord /\ fs'.card = fs.card
    <3>1. Fsid' \in 0 .. IdMod - 1
      BY <1>13 DEF mounted_volume
    <3>2. fs' = [fs EXCEPT !.type = TRUE, !.id = Fsid']
      BY <1>13, Zenon DEF mounted_volume
    <3> QED BY <1>a, <3>1, <3>2, FsMounted
  <2> QED BY <1>13, <1>a, <1>b, <2>1, <2>2
          DEF mounted_volume, Goto, Idle, Loaded, Failed, Flags, FsRecord,
              WinRecord, FilRecord, IoRecord
<1>14. CASE follow_path
  BY <1>14 DEF follow_path, Goto, move_window, Hit, Ask
<1>15. CASE dir_find
  <2>1. /\ win' \in WinRecord /\ (win'.sect # NoSector => win'.card \in Cards)
        /\ \/ win' = win /\ (Loaded => io.sector = NoSector)
           \/ /\ io.stage \in {"ok", "torn"} /\ io.sector # NoSector
              /\ win'.card = io.card /\ io.card \in Cards
    BY <1>15, WindowEnds DEF dir_find
  <2>2. fil' = fil \/ (fil' \in FilRecord /\ fil'.pos = 0)
    <3>1. [fs |-> TRUE, id |-> fs.id, err |-> FALSE, pos |-> 0] \in FilRecord
      BY <1>a DEF FilRecord
    <3>2. [fs |-> TRUE, id |-> fs.id, err |-> FALSE, pos |-> 0].pos = 0
      OBVIOUS
    <3> QED BY <1>15, <3>1, <3>2, Zenon DEF dir_find
  <2> QED BY <1>15, <1>a, <1>b, <2>1, <2>2
          DEF dir_find, Goto, Idle, Loaded, Failed, Flags, FsRecord, WinRecord,
              FilRecord, IoRecord
<1>16. CASE f_read
  BY <1>16 DEF f_read, Goto, Valid
<1>17. CASE next_sector
  <2>1. fil' \in FilRecord /\ fil'.pos = fil.pos
    BY <1>17, <1>a, FilChange DEF next_sector
  <2> QED BY <1>17, <1>a, <1>b, <2>1
          DEF next_sector, Goto, Ask, move_window, Hit, Flags, FsRecord, WinRecord, FilRecord,
              IoRecord
<1>18. CASE get_fat
  <2>1. /\ win' \in WinRecord /\ (win'.sect # NoSector => win'.card \in Cards)
        /\ \/ win' = win /\ (Loaded => io.sector = NoSector)
           \/ /\ io.stage \in {"ok", "torn"} /\ io.sector # NoSector
              /\ win'.card = io.card /\ io.card \in Cards
    BY <1>18, WindowEnds DEF get_fat
  <2>2. fil' \in FilRecord /\ fil'.pos = fil.pos
    BY <1>18, <1>a, FilChange DEF get_fat
  <2> QED BY <1>18, <1>a, <1>b, <2>1, <2>2
          DEF get_fat, Goto, Ask, Idle, Loaded, Failed, Flags, FsRecord, WinRecord,
              FilRecord, IoRecord
<1>19. CASE read_sector
  <2>1. (Loaded => fil' \in FilRecord /\ fil'.pos = fil.pos + 1) /\ (~ Loaded => fil' \in FilRecord)
    BY <1>19, <1>a, FilChange DEF read_sector, FilRecord
  <2> QED BY <1>19, <1>a, <1>b, <2>1
          DEF read_sector, Goto, Idle, Loaded, Failed, Flags, FsRecord, WinRecord, FilRecord,
              IoRecord
<1>20. CASE wav_read_cb
  BY <1>20 DEF wav_read_cb, Goto
<1>21. CASE f_close
  <2>1. fil' \in FilRecord /\ fil'.pos = fil.pos
    BY <1>21, <1>a, FilChange DEF f_close
  <2> QED BY <1>21, <1>a, <1>b, <2>1
          DEF f_close, Goto, Valid, Flags, FsRecord, WinRecord, FilRecord, IoRecord
<1>22. CASE disk_read
  BY <1>22 DEF disk_read
<1>24. CASE sdcReadBegins
  <2>1. /\ io' \in IoRecord /\ io'.stage = "reading" /\ io'.sector = io.sector
        /\ io'.card = IF linked THEN slot ELSE None
    BY <1>24, <1>a, ReadBegins
  <2> QED BY <1>24, <1>a, <1>b, <2>1
          DEF sdcReadBegins, Flags, FsRecord, WinRecord, FilRecord, IoRecord
<1>23. CASE UNCHANGED vars
  BY <1>23 DEF vars
<1> QED
  BY <1>1, <1>2, <1>3, <1>4, <1>5, <1>6, <1>7, <1>8, <1>9, <1>10, <1>11, <1>12, <1>13, <1>14,
       <1>15, <1>16, <1>17, <1>18, <1>19, <1>20, <1>21, <1>22, <1>23, <1>24
     DEF Next, main_loop, audio_thd_main

\* The invariant holds before the first poll.
LEMMA SdInit == Init => SdInv
<1> SUFFICES ASSUME Init PROVE SdInv
  OBVIOUS
<1>1. Flags
  BY Zenon DEF Init, Flags
<1>2. /\ fs \in FsRecord /\ win \in WinRecord /\ fil \in FilRecord /\ io \in IoRecord
      /\ ~ fs.type /\ fs.card = None /\ io.stage = "idle" /\ win.sect = NoSector /\ fil.pos = 0
  BY CardsAssumption DEF Init, FsRecord, WinRecord, FilRecord, IoRecord, NoTransfer, Stages
<1>3. TypeOK
  BY <1>1, <1>2, CardsAssumption DEF Init, TypeOK, Flags, FsRecord, WinRecord, FilRecord, IoRecord
<1> QED BY <1>2, <1>3 DEF Init, SdInv, SdTypes, SdDriver, NothingUsed, SameCard, Transfers,
                          OnVolume, WithFile

\* Whatever a failed read leaves behind, and whenever cards are exchanged: a driver
\* assertion stops the robot only when a card was pulled out while FatFs was at work.
THEOREM HaltsOnlyOnRemoval == Spec => []HaltsOnRemoval
<1>1. Init => SdTypes /\ SdDriver
  BY SdInit DEF SdInv
<1>2. SdTypes /\ SdDriver /\ [Next]_vars => (SdTypes /\ SdDriver)'
  BY SdTypesStep, SdDriverStep
<1>3. SdDriver => HaltsOnRemoval
  BY DEF SdDriver, HaltsOnRemoval
<1> QED BY <1>1, <1>2, <1>3, PTL DEF Spec

\* For every set of cards and any number of exchanges, and whatever failed reads leave in the
\* window: all that a sound uses comes from the card its file was opened on, unless a FatFs
\* call lasts from one mount into the next.
THEOREM SoundsFromOneCard == Spec => []OneCard
<1>1. Init => SdInv
  BY SdInit
<1>2. SdInv /\ [Next]_vars => SdInv'
  BY SdTypesStep, SdDriverStep, NothingUsedStep, SameCardStep DEF SdInv
<1>3. SdInv => OneCard
  <2> SUFFICES ASSUME SdInv, ~ late, audio # "wait" PROVE Cardinality(used) <= 1
    BY DEF SdInv, SdTypes, OneCard
  <2>1. used \subseteq {fs.card}
    BY DEF SdInv, SdTypes, TypeOK, NothingUsed, SameCard, WithFile, OnVolume
  <2>2. used = {} \/ used = {fs.card}
    BY <2>1
  <2>3. Cardinality({}) = 0 /\ Cardinality({fs.card}) = 1
    BY FS_EmptySet, FS_Singleton, Zenon
  <2>4. Cardinality(used) \in {0, 1}
    BY <2>2, <2>3, Zenon
  <2> QED BY <2>4
<1> QED BY <1>1, <1>2, <1>3, PTL DEF Spec
===============================================================================
