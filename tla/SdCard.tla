------------------------------- MODULE SdCard -------------------------------
(***************************************************************************)
(* The SD card: the main thread polls the slot once a second, connects and *)
(* mounts a card or unmounts it (sdcard.c); the audio thread, of lower     *)
(* priority, opens and reads files of it through FatFs (ff.c) and the disk *)
(* layer (fatfs_diskio.c).  FatFs is built without its volume lock, so the *)
(* main thread may unmount between any two steps of the audio thread.      *)
(*                                                                         *)
(* A sector is named by its role and its content by the card it was read   *)
(* from.  A sound is a file of FileSectors sectors; the FAT is looked up   *)
(* where a cluster of ClusterSectors sectors ends.                         *)
(***************************************************************************)
EXTENDS Naturals, FiniteSets

CONSTANTS
    Cards,           \* SD cards
    Layout,          \* what is in sector 0: a volume, a partition table, neither
    None,            \* no card
    FileSectors,     \* sectors of a sound file, the header's included
    ClusterSectors,  \* fs->csize
    IdMod,           \* number of values of Fsid, a WORD
    TornReads        \* whether a failed read may already have stored data

ASSUME CardsAssumption ==
    /\ Layout \in [Cards -> {"fat", "mbr", "blank"}]
    /\ None \notin Cards
    /\ FileSectors \in Nat \ {0} /\ ClusterSectors \in Nat \ {0}
    /\ IdMod \in Nat \ {0, 1}
    /\ TornReads \in BOOLEAN

VARIABLES
    slot,            \* the card in the slot
    linked,          \* it is the one the driver connected to, not touched since
    drv,             \* state of the SDC driver
    halted,          \* a driver assertion stopped the system
    sdcard_mounted,  \* flag of sdcard.c
    main,            \* where the main thread is in sdcard_automount
    FatFs,           \* the file system object is registered
    fs,              \* SDC_FS: fs_type, id, the card its geometry is from
    win,             \* its sector window: the sector it is said to hold, the card
                     \* its data is from, whether a failed read changed it
    Fsid,            \* last mount id
    fil,             \* the open file: fs, id, err, sectors read
    audio,           \* where the audio thread is
    io,              \* its disk_read: stage, sector, card it reads from
    used,            \* cards whose sectors this sound used
    late             \* a mount fell into a FatFs call of the audio thread

mainVars == <<sdcard_mounted, main, FatFs>>
ffVars == <<fs, win, Fsid, fil, audio, used>>
vars == <<slot, linked, drv, halted, mainVars, ffVars, io, late>>

Sectors == {"boot", "part", "fsinfo", "dir", "fat"}
NoSector == "none"
NoTransfer == [stage |-> "idle", sector |-> NoSector, card |-> None]

InFatFs == audio \notin {"wait", "converting"}
Running == ~halted

-----------------------------------------------------------------------------
(* The user, and the SDC driver (external). *)

Insert(c) ==
    /\ Running /\ slot = None
    /\ slot' = c
    /\ UNCHANGED <<linked, drv, halted, mainVars, ffVars, io, late>>

Remove ==
    /\ Running /\ slot # None
    /\ slot' = None /\ linked' = FALSE
    /\ UNCHANGED <<drv, halted, mainVars, ffVars, io, late>>

(* sdcRead asserts that the driver is ready, then takes it, both without   *)
(* the lock.                                                               *)
sdcRead ==
    /\ Running /\ io.stage = "checked"
    /\ IF drv = "ready"
       THEN io' = [io EXCEPT !.stage = "asserted"] /\ UNCHANGED halted
       ELSE halted' = TRUE /\ UNCHANGED io
    /\ UNCHANGED <<slot, linked, drv, mainVars, ffVars, late>>

sdcReadBegins ==
    /\ Running /\ io.stage = "asserted"
    /\ drv' = "reading"
    /\ io' = [io EXCEPT !.stage = "reading", !.card = IF linked THEN slot ELSE None]
    /\ UNCHANGED <<slot, linked, halted, mainVars, ffVars, late>>

(* The transfer ends.  Only the connected card answers; any transfer may   *)
(* fail, and may have stored data of the card by then.                     *)
sdcReadEnds ==
    /\ Running /\ io.stage = "reading"
    /\ drv' = "ready"
    /\ \/ io' = [io EXCEPT !.stage = "fail"]
       \/ TornReads /\ io.card # None /\ io' = [io EXCEPT !.stage = "torn"]
       \/ linked /\ io' = [io EXCEPT !.stage = "ok", !.card = slot]
    /\ UNCHANGED <<slot, linked, halted, mainVars, ffVars, late>>

-----------------------------------------------------------------------------
(* The main thread. *)

Mutf_mount(register) ==
    /\ fs' = fs
    /\ FatFs' = register

(* f_mount(&SDC_FS, "", 0) and f_mount(NULL, "", 0): the volume is only    *)
(* analysed when a file is opened.                                         *)
f_mount(register) ==
    /\ fs' = IF FatFs \/ register THEN [fs EXCEPT !.type = FALSE] ELSE fs
    /\ FatFs' = register

(* sdcConnect and sdcDisconnect assert the state they may be called in.    *)
Driver(allowed, next) ==
    IF drv \in allowed
    THEN drv' = next /\ UNCHANGED halted
    ELSE halted' = TRUE /\ UNCHANGED drv

Mutsdcard_automount ==
    /\ Running /\ main = "sleep"
    /\ \/ /\ slot # None       \* sdcard_mount
          /\ sdcard_mounted' = FALSE
          /\ main' = "connect" /\ Driver({"active", "ready"}, "connecting")
          /\ UNCHANGED <<FatFs, fs, late>>
       \/ /\ slot = None /\ sdcard_mounted        \* sdcard_unmount
          /\ f_mount(FALSE)
          /\ late' = (late /\ audio # "wait")
          /\ main' = "disconnect" /\ Driver({"active", "ready"}, "disconnecting")
          /\ UNCHANGED sdcard_mounted
    /\ UNCHANGED <<slot, linked, win, Fsid, fil, audio, used, io>>

(* One poll; a second passes before the next. *)
sdcard_automount ==
    /\ Running /\ main = "sleep"
    /\ \/ /\ slot # None /\ ~sdcard_mounted       \* sdcard_mount
          /\ sdcard_mounted' = FALSE
          /\ main' = "connect" /\ Driver({"active", "ready"}, "connecting")
          /\ UNCHANGED <<FatFs, fs, late>>
       \/ /\ slot = None /\ sdcard_mounted        \* sdcard_unmount
          /\ f_mount(FALSE)
          /\ late' = (late /\ audio # "wait")
          /\ main' = "disconnect" /\ Driver({"active", "ready"}, "disconnecting")
          /\ UNCHANGED sdcard_mounted
    /\ UNCHANGED <<slot, linked, win, Fsid, fil, audio, used, io>>

(* sdcConnect succeeded. *)
Connected ==
    /\ Running /\ main = "connect" /\ slot # None
    /\ drv' = "ready" /\ linked' = TRUE
    /\ f_mount(TRUE)
    /\ sdcard_mounted' = TRUE /\ main' = "sleep"
    /\ late' = (late \/ InFatFs)
    /\ UNCHANGED <<slot, halted, win, Fsid, fil, audio, used, io>>

(* sdcConnect failed: the next poll tries again. *)
NotConnected ==
    /\ Running /\ main = "connect"
    /\ drv' = "active" /\ main' = "sleep"
    /\ UNCHANGED <<slot, linked, halted, sdcard_mounted, FatFs, ffVars, io, late>>

MutDisconnected ==
    /\ Running /\ main = "disconnect"
    /\ drv' = "active" /\ linked' = FALSE /\ main' = "sleep"
    /\ UNCHANGED <<slot, halted, sdcard_mounted, FatFs, ffVars, io, late>>

Disconnected ==
    /\ Running /\ main = "disconnect"
    /\ drv' = "active" /\ linked' = FALSE
    /\ sdcard_mounted' = FALSE /\ main' = "sleep"
    /\ UNCHANGED <<slot, halted, FatFs, ffVars, io, late>>

-----------------------------------------------------------------------------
(* The audio thread. *)

Goto(pc) == audio' = pc
Ask(sector) == io' = [stage |-> "ask", sector |-> sector, card |-> None]
Hit == io' = [stage |-> "ok", sector |-> NoSector, card |-> None]
Idle == io' = NoTransfer

(* disk_status and disk_initialize: STA_NOINIT unless the driver is ready. *)
Initialised == drv = "ready"

(* disk_read looks at the state of the driver before it calls sdcRead. *)
disk_read ==
    /\ Running /\ io.stage = "ask"
    /\ io' = [io EXCEPT !.stage = IF drv = "ready" THEN "checked" ELSE "fail"]
    /\ UNCHANGED <<slot, linked, drv, halted, mainVars, ffVars, late>>

(* move_window to a sector, then go on at pc; a hit needs no transfer. *)
move_window(sector, pc) ==
    /\ Goto(pc)
    /\ IF win.sect = sector THEN Hit ELSE Ask(sector)

(* The end of move_window: the window's number changes only on success.    *)
Loaded == io.stage = "ok"
Failed == io.stage \in {"fail", "torn"}
WindowAfter ==
    CASE Loaded /\ io.sector # NoSector -> [sect |-> io.sector, card |-> io.card, torn |-> FALSE]
      [] io.stage = "torn" -> [win EXCEPT !.card = io.card, !.torn = TRUE]
      [] OTHER -> win

Quiet == UNCHANGED <<slot, linked, drv, halted, mainVars, late>>
Ready(pc) == Running /\ audio = pc

(* A request arrives; f_open clears the file object. *)
f_open ==
    /\ Ready("wait") /\ Goto("find")
    /\ fil' = [fs |-> FALSE, id |-> 0, err |-> FALSE, pos |-> 0]
    /\ used' = {}
    /\ UNCHANGED <<fs, win, Fsid, io>> /\ Quiet

(* find_volume: is a file system object registered? *)
find_volume ==
    /\ Ready("find")
    /\ Goto(IF FatFs THEN "status" ELSE "wait")
    /\ UNCHANGED <<fs, win, Fsid, fil, used, io>> /\ Quiet

(* find_volume: a valid object is used as it is, else it is mounted. *)
check_status ==
    /\ Ready("status")
    /\ \/ /\ fs.type /\ Initialised
          /\ used' = {fs.card} /\ Goto("follow")
          /\ UNCHANGED <<fs, win, io>>
       \/ /\ ~(fs.type /\ Initialised)
          /\ fs' = [fs EXCEPT !.type = FALSE]
          /\ IF Initialised
             THEN /\ win' = [win EXCEPT !.sect = NoSector]   \* check_fs(fs, 0)
                  /\ Ask("boot") /\ Goto("boot")
             ELSE Goto("wait") /\ UNCHANGED <<win, io>>
          /\ UNCHANGED used
    /\ UNCHANGED <<Fsid, fil>> /\ Quiet

(* find_volume: sector 0 or the first sector of the partition is loaded.   *)
(* On a volume the geometry is taken over.                                 *)
check_fs ==
    /\ Running /\ audio \in {"boot", "part"} /\ (Loaded \/ Failed)
    /\ win' = WindowAfter
    /\ LET volume == Loaded /\ (audio = "part" \/ Layout[win'.card] = "fat")
           table == Loaded /\ audio = "boot" /\ Layout[win'.card] = "mbr"
       IN  \/ /\ volume
              /\ fs' = [fs EXCEPT !.card = win'.card]
              /\ used' = {win'.card}
              /\ Goto("fsinfo") /\ (Ask("fsinfo") \/ Hit)   \* FAT32 or not
           \/ /\ table
              /\ Ask("part") /\ Goto("part")
              /\ UNCHANGED <<fs, used>>
           \/ /\ ~(volume \/ table)
              /\ Idle /\ Goto("wait")
              /\ UNCHANGED <<fs, used>>
    /\ UNCHANGED <<Fsid, fil>> /\ Quiet

(* find_volume: the FSINFO sector may fail to load; the object is valid.   *)
mounted_volume ==
    /\ Ready("fsinfo") /\ (Loaded \/ Failed)
    /\ win' = WindowAfter
    /\ used' = used \cup (IF Loaded THEN {win'.card} ELSE {})
    /\ Fsid' = (Fsid + 1) % IdMod
    /\ fs' = [fs EXCEPT !.type = TRUE, !.id = Fsid']
    /\ Idle /\ Goto("follow")
    /\ UNCHANGED fil /\ Quiet

(* follow_path: dir_sdi on a FAT32 volume fails if fs_type is 0 by now.    *)
follow_path ==
    /\ Ready("follow")
    /\ \/ move_window("dir", "dir")
       \/ ~fs.type /\ Goto("wait") /\ UNCHANGED io
    /\ UNCHANGED <<fs, win, Fsid, fil, used>> /\ Quiet

(* dir_find: the entry is found, or not; f_open fills in the file object.  *)
dir_find ==
    /\ Ready("dir") /\ (Loaded \/ Failed)
    /\ win' = WindowAfter /\ Idle
    /\ \/ /\ Loaded /\ Goto("validate")
          /\ used' = used \cup {win'.card}
          /\ fil' = [fs |-> TRUE, id |-> fs.id, err |-> FALSE, pos |-> 0]
       \/ Goto("wait") /\ UNCHANGED <<used, fil>>
    /\ UNCHANGED <<fs, Fsid>> /\ Quiet

(* validate: the object must belong to the current mount.                  *)
Valid == fil.fs /\ fs.type /\ fs.id = fil.id /\ Initialised

Mutf_read ==
    /\ Ready("validate")
    /\ \/ /\ Valid /\ ~fil.err /\ Goto("next")
       \/ /\ ~Valid \/ fil.err
          /\ Goto("converting")
    /\ UNCHANGED <<fs, win, Fsid, fil, used, io>> /\ Quiet

(* f_read of the header (wav_read_header) or of the next samples           *)
(* (wav_read_cb).  On an error the conversion ends.                        *)
f_read ==
    /\ Ready("validate")
    /\ \/ /\ Valid /\ ~fil.err /\ Goto("next")
       \/ /\ ~Valid \/ fil.err
          /\ Goto("close")
    /\ UNCHANGED <<fs, win, Fsid, fil, used, io>> /\ Quiet

(* One turn of f_read's loop: the cluster chain is followed where a        *)
(* cluster ends; get_fat fails on an object whose fs_type is 0.            *)
next_sector ==
    /\ Ready("next")
    /\ \/ /\ fil.pos = 0 \/ fil.pos % ClusterSectors # 0
          /\ Ask("data") /\ Goto("data") /\ UNCHANGED fil
       \/ /\ fil.pos # 0 /\ fil.pos % ClusterSectors = 0
          /\ IF fs.type
             THEN move_window("fat", "fat") /\ UNCHANGED fil
             ELSE fil' = [fil EXCEPT !.err = TRUE] /\ Goto("close") /\ UNCHANGED io
    /\ UNCHANGED <<fs, win, Fsid, used>> /\ Quiet

get_fat ==
    /\ Ready("fat") /\ (Loaded \/ Failed)
    /\ win' = WindowAfter
    /\ used' = used \cup (IF Loaded THEN {win'.card} ELSE {})
    /\ \/ Loaded /\ Ask("data") /\ Goto("data") /\ UNCHANGED fil
       \/ /\ Failed \/ win'.torn         \* no link, or not one of a chain
          /\ Idle /\ Goto("close") /\ fil' = [fil EXCEPT !.err = TRUE]
    /\ UNCHANGED <<fs, Fsid>> /\ Quiet

(* A sector of the file arrived, in the file's buffer or the caller's; the *)
(* call goes on with another one or returns.                               *)
read_sector ==
    /\ Ready("data") /\ (Loaded \/ Failed)
    /\ IF Loaded
       THEN /\ used' = used \cup {io.card}
            /\ fil' = [fil EXCEPT !.pos = @ + 1]
            /\ \/ fil'.pos < FileSectors /\ Goto("next")
               \/ fil'.pos < FileSectors /\ Goto("converting")
               \/ fil'.pos \in {1, FileSectors} /\ Goto("close")   \* bad header or the end
       ELSE Goto("close") /\ fil' = [fil EXCEPT !.err = TRUE] /\ UNCHANGED used
    /\ Idle
    /\ UNCHANGED <<fs, win, Fsid>> /\ Quiet

(* audio_dac_convert asks for the next samples. *)
wav_read_cb ==
    /\ Ready("converting") /\ Goto("validate")
    /\ UNCHANGED <<fs, win, Fsid, fil, used, io>> /\ Quiet

(* f_close: f_sync has nothing to write; the result is published.          *)
f_close ==
    /\ Ready("close")
    /\ fil' = IF Valid THEN [fil EXCEPT !.fs = FALSE] ELSE fil
    /\ Goto("wait")
    /\ UNCHANGED <<fs, win, Fsid, used, io>> /\ Quiet

-----------------------------------------------------------------------------
Init ==
    /\ slot \in Cards \cup {None} /\ linked = FALSE
    /\ drv = "active" /\ halted = FALSE
    /\ sdcard_mounted = FALSE /\ main = "sleep" /\ FatFs = FALSE
    /\ fs = [type |-> FALSE, id |-> 0, card |-> None]
    /\ win = [sect |-> NoSector, card |-> None, torn |-> FALSE]
    /\ Fsid = 0
    /\ fil = [fs |-> FALSE, id |-> 0, err |-> FALSE, pos |-> 0]
    /\ audio = "wait" /\ io = NoTransfer
    /\ used = {} /\ late = FALSE

audio_thd_main ==
    \/ find_volume \/ check_status \/ check_fs \/ mounted_volume \/ follow_path
    \/ dir_find \/ f_read \/ next_sector \/ get_fat \/ read_sector
    \/ wav_read_cb \/ f_close \/ disk_read \/ sdcRead \/ sdcReadBegins \/ sdcReadEnds

main_loop == sdcard_automount \/ Connected \/ NotConnected \/ Disconnected

Next ==
    \/ \E c \in Cards : Insert(c)
    \/ Remove \/ main_loop \/ f_open \/ audio_thd_main

(* Polls come every second, transfers end, the audio thread is not starved *)
(* for ever; a card that is asked again and again to connect does it once. *)
Fairness ==
    /\ WF_vars(main_loop) /\ SF_vars(Connected)
    /\ WF_vars(audio_thd_main)

Spec == Init /\ [][Next]_vars /\ Fairness

-----------------------------------------------------------------------------
Stages == {"idle", "ask", "checked", "asserted", "reading", "ok", "fail", "torn"}

(* What each part of the state ranges over; OneCard includes it. *)
TypeOK ==
    /\ slot \in Cards \cup {None} /\ linked \in BOOLEAN
    /\ drv \in {"active", "connecting", "ready", "reading", "disconnecting"}
    /\ halted \in BOOLEAN /\ late \in BOOLEAN
    /\ sdcard_mounted \in BOOLEAN /\ FatFs \in BOOLEAN
    /\ main \in {"sleep", "connect", "disconnect"}
    /\ fs \in [type : BOOLEAN, id : 0 .. IdMod - 1, card : Cards \cup {None}]
    /\ win \in [sect : Sectors \cup {NoSector}, card : Cards \cup {None}, torn : BOOLEAN]
    /\ Fsid \in 0 .. IdMod - 1
    /\ fil \in [fs : BOOLEAN, id : 0 .. IdMod - 1, err : BOOLEAN, pos : 0 .. FileSectors]
    /\ audio \in {"wait", "find", "status", "boot", "part", "fsinfo", "follow", "dir",
                  "validate", "next", "fat", "data", "converting", "close"}
    /\ io \in [stage : Stages, sector : Sectors \cup {NoSector, "data"}, card : Cards \cup {None}]
    /\ used \subseteq Cards

(* A sound is made from one card: the geometry, the directory, the FAT and *)
(* the data all come from the card its file was opened on, whenever cards  *)
(* are exchanged, as long as no FatFs call lasts from one mount into the   *)
(* next (more than a second).  That is so also when a failed read left     *)
(* another sector's data in the window: it is from the same card.          *)
OneCard == TypeOK /\ (late \/ audio = "wait" \/ Cardinality(used) <= 1)

(* What FatFs takes from win[] is the sector that winsect names ("Current  *)
(* sector appearing in the win[]", ff.h), never the remains of a transfer  *)
(* that failed.                                                            *)
WindowIsSector == Loaded /\ io.sector = NoSector => ~win.torn

(* A driver assertion only stops the robot when a card was pulled out      *)
(* while a sound was being read from it.                                   *)
HaltsOnRemoval == halted => ~linked /\ InFatFs

(* A card that stays in the slot after the driver was disconnected gets    *)
(* connected and mounted, however often sdcConnect fails.                  *)
GetsMounted ==
    \A c \in Cards : (drv = "active" /\ slot = c) ~> (linked /\ FatFs) \/ slot # c \/ halted

(* Every request ends, whatever happens to the card.                       *)
RequestEnds == (audio # "wait") ~> (audio = "wait" \/ halted)
=============================================================================
