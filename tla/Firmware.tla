------------------------------ MODULE Firmware ------------------------------
(***************************************************************************)
(* Loading a UF2 firmware from the card and starting it at the next boot:  *)
(* load_firmware and flash_block of app.c on core 0, render_core on core 1, *)
(* and the boot sequence of main.cpp.  The marker file on the card says at  *)
(* boot that the flash holds a firmware.  The power may fail at any step,   *)
(* the watchdog fires when it is armed, and meanwhile another task of core  *)
(* 0 loads programs into flash with the same flash_block and cleans up      *)
(* after them: the scheduler changes tasks wherever interrupts are on.      *)
(*                                                                         *)
(* Flash is addressed in pages; a firmware file is the sequence of the      *)
(* pages its blocks are for.                                                *)
(***************************************************************************)
EXTENDS Naturals, Sequences, FiniteSets

CONSTANTS
    NPages,          \* pages of the flash below M-OS itself
    PagesPerSector,
    Files,           \* the firmware files: sequences of pages, a subset of Seq(Nat)
    MaxLoad,         \* the longest file that is not too large
    E10,             \* the page 0xFFFF00, which is never flashed
    MaxSections,     \* bound on the sections of a program, a sector each
    MaxEvents        \* bound on the loads, programs, reboot_me calls and power failures

Sector(p) == p..(p + PagesPerSector - 1)
Start(p) == p % PagesPerSector = 0

(* Blocks come in the order of their pages, the one at E10 first or last,   *)
(* and every run of pages starts a sector, as elf2uf2 makes them.           *)
ASSUME FirmwareAssumption ==
    /\ PagesPerSector \in Nat \ {0} /\ NPages \in Nat /\ MaxLoad \in Nat /\ MaxSections \in Nat /\ MaxEvents \in Nat
    /\ NPages >= PagesPerSector /\ Start(NPages)
    /\ E10 \in Nat /\ E10 >= NPages /\ Start(E10)
    /\ \A f \in Files :
         /\ f \in Seq(0..(NPages - 1) \cup {E10}) /\ Len(f) > 0
         /\ \A j, k \in 1..Len(f) : j < k => f[j] # f[k] /\ (f[j] < f[k] \/ (f[j] = E10 /\ j = 1))
         /\ \A k \in 1..Len(f) : Start(f[k]) \/ (k > 1 /\ f[k - 1] = f[k] - 1)

Pages == 0..(NPages - 1)
Boot2 == <<"boot2">>    \* the loader of M-OS in the first page
Blank == <<"blank">>
Prog == <<"program">>   \* some program's section
Content == {Boot2, Blank, Prog} \cup (Files \X Pages)
NoFile == <<>>

VARIABLES
    flash, marker,             \* what a reset keeps
    pc, key,                   \* where core 0 is; the key held at boot
    file, pos, offset, buffer, replaced, block,   \* load_firmware_sram
    flash_list, flash_addr,    \* the statics of app.c
    app, sections, addr, loaded,   \* the other task; the programs it has loaded
    core1, locked, reboot_is_requested, watchdog,
    linked, troubles, events   \* the file marked last; what went wrong in its load

LoadVars == <<file, pos, offset, buffer, replaced, block>>
ListVars == <<flash_list, flash_addr>>
AppVars == <<app, sections, addr, loaded>>
CoreVars == <<core1, locked, reboot_is_requested, watchdog>>
Ghosts == <<linked, troubles, events>>
vars == <<flash, marker, pc, key, LoadVars, ListVars, AppVars, CoreVars, Ghosts>>

NoBuffer == [k \in 1..PagesPerSector |-> Blank]
Freed == pos' = 1 /\ offset' = 0 /\ buffer' = NoBuffer /\ replaced' = FALSE /\ block' = 0
Event == events < MaxEvents /\ events' = events + 1
EmptyList == [mem |-> "none", recs |-> {}]

Init ==
    /\ flash = [p \in Pages |-> IF p = 0 THEN Boot2 ELSE Blank] /\ marker = "none"
    /\ pc = "keys" /\ key = "none"
    /\ file = NoFile /\ pos = 1 /\ offset = 0 /\ buffer = NoBuffer /\ replaced = FALSE /\ block = 0
    /\ flash_list = EmptyList /\ flash_addr = PagesPerSector
    /\ app = "idle" /\ sections = {} /\ addr = 0 /\ loaded = {}
    /\ core1 = "off" /\ locked = FALSE /\ reboot_is_requested = FALSE /\ watchdog = FALSE
    /\ linked = NoFile /\ troubles = {} /\ events = 0

-----------------------------------------------------------------------------
(* The boot sequence.  process_input_on_boot: no key, or one of those that  *)
(* concern the firmware.  A card that does not answer leaves the marker.    *)
keyNone ==
    /\ key' = "none" /\ pc' = "mount"
    /\ UNCHANGED <<marker, watchdog, linked>>
caseF10 ==
    /\ key' = "F10" /\ pc' = "reboot" /\ watchdog' = TRUE
    /\ \/ marker = "none" /\ marker' = "user"
       \/ UNCHANGED marker
    /\ UNCHANGED linked
caseF12 ==
    /\ key' = "F12" /\ pc' = "usb"
    /\ \/ marker' = "none"
       \/ UNCHANGED marker
    /\ UNCHANGED <<watchdog, linked>>
unlink_firmware ==
    /\ key' = "F11" /\ pc' = "mount"
    /\ \/ marker' = "none"
       \/ UNCHANGED marker
    /\ UNCHANGED <<watchdog, linked>>
usb_on_boot ==
    /\ key' = "HOME" /\ pc' = "usb"
    /\ UNCHANGED <<marker, watchdog, linked>>
process_input_on_boot ==
    /\ pc = "keys"
    /\ keyNone \/ caseF10 \/ caseF12 \/ unlink_firmware \/ usb_on_boot
    /\ UNCHANGED <<flash, LoadVars, ListVars, AppVars, core1, locked, reboot_is_requested, troubles,
                   events>>

mount_os ==
    /\ pc = "mount"
    /\ pc' \in {"check", "nomount"}
    /\ UNCHANGED <<flash, marker, key, LoadVars, ListVars, AppVars, CoreVars, Ghosts>>

(* check_firmware: the application of the flash if f_open finds the marker, *)
(* else M-OS and its core 1: also over a marker that the card did not let   *)
(* it open.  The key is let go by then.                                     *)
Unopened == IF marker = "none" THEN {} ELSE {"unopened"}
check_firmware ==
    /\ pc = "check"
    /\ \/ marker # "none" /\ pc' = "app" /\ UNCHANGED <<core1, troubles>>
       \/ pc' = "os" /\ core1' = "play" /\ troubles' = troubles \cup Unopened
    /\ key' = "none"
    /\ UNCHANGED <<flash, marker, LoadVars, ListVars, AppVars, locked, reboot_is_requested, watchdog,
                   linked, events>>
Boot == process_input_on_boot \/ mount_os \/ check_firmware

(* A reset: everything but the flash and the card is lost.  The entry of a  *)
(* marker file being written may be on the card or not.  Without boot2 the  *)
(* chip cannot start M-OS any more.                                         *)
Restart ==
    /\ pc' = IF flash[0] = Boot2 THEN "keys" ELSE "dead"
    /\ marker' \in IF pc = "sync" THEN {"none", "loader"} ELSE {marker}
    /\ linked' = IF marker' # marker THEN file ELSE linked
    /\ key' = "none"
    /\ file' = NoFile /\ Freed
    /\ flash_list' = EmptyList /\ flash_addr' = PagesPerSector
    /\ app' = "idle" /\ sections' = {} /\ addr' = 0 /\ loaded' = {}
    /\ core1' = "off" /\ locked' = FALSE /\ reboot_is_requested' = FALSE /\ watchdog' = FALSE
    /\ UNCHANGED <<flash, troubles>>
PowerFails ==
    /\ pc # "dead" /\ Event
    /\ Restart
WatchdogFires == watchdog /\ Restart /\ UNCHANGED events

-----------------------------------------------------------------------------
(* Core 1: render_core draws and plays until a reboot is requested. *)
NeverSeen == FALSE
RebootSeen == reboot_is_requested
render_core ==
    /\ core1 = "play" /\ ~locked /\ RebootSeen
    /\ core1' = "spin" /\ watchdog' = TRUE
    /\ UNCHANGED <<flash, marker, pc, key, LoadVars, ListVars, AppVars, locked, reboot_is_requested, Ghosts>>

(* The two tasks of core 0 that write flash.  Each goes through flash_block *)
(* with a sector and what is to be in it; "program" is the stretch with     *)
(* interrupts off, when no other task runs.                                 *)
Tasks == {"loader", "app"}
Other(t) == IF t = "loader" THEN "app" ELSE "loader"
At(t) == IF t = "loader" THEN pc ELSE app
Goes(t, place) ==
    IF t = "loader" THEN pc' = place /\ UNCHANGED app ELSE app' = place /\ UNCHANGED pc
Target(t) == IF t = "loader" THEN block ELSE addr
Data(t, k) == IF t = "loader" THEN buffer[k] ELSE Prog
Kind(t) == IF t = "loader" THEN "firmware" ELSE "program"
Faults == pc' = "fault" /\ UNCHANGED app

Held == {"erase", "program", "unlock"}            \* core 1 is locked out
Pending == {"list", "record", "push", "lockout", "erase", "program"}
Writing == Pending \cup {"unlock"}
Preemptive == Writing \cup {"os", "read", "close", "link", "sync", "reboot"}
Running == pc \in Preemptive /\ core1 # "off"
Scheduled(t) == Running /\ At(Other(t)) # "program"

(* A program asks for a reboot: reboot_me. *)
reboot_me ==
    /\ Scheduled("loader") /\ Scheduled("app") /\ ~reboot_is_requested /\ Event
    /\ reboot_is_requested' = TRUE
    /\ UNCHANGED <<flash, marker, pc, key, LoadVars, ListVars, AppVars, core1, locked, watchdog, linked,
                   troubles>>

-----------------------------------------------------------------------------
(* flash_block, of either task.  flash_list has no lock: an operation on it *)
(* is torn when the other task is in the middle of one, but for looking     *)
(* through it, or through it and adding to its end.  A torn list, like one  *)
(* that has been deleted, may be anything at each use: it has no records.   *)
InList == {"list", "push", "clean"}
Raced(t) ==
    LET two == {At(t), At(Other(t))} IN
    /\ two \subseteq InList
    /\ "clean" \in two \/ two = {"push"} \/ (two = {"list"} /\ flash_list.mem = "none")
MemUsed(t) == IF Raced(t) \/ flash_list.mem = "torn" THEN "torn" ELSE "live"
List(t, recs) ==
    IF MemUsed(t) = "torn" THEN [mem |-> "torn", recs |-> {}] ELSE [mem |-> "live", recs |-> recs]
RaceNoted(t) == IF Raced(t) THEN {"raced"} ELSE {}
Recorded(p) == \E r \in flash_list.recs : p \in Sector(r.at)

(* The list is made if there is none, and searched for the sector. *)
Accept(t) == Goes(t, "record") /\ troubles' = troubles \cup RaceNoted(t)
Reject(t) ==
    /\ Goes(t, "read")
    /\ troubles' = troubles \cup RaceNoted(t) \cup (IF t = "loader" THEN {"rejected"} ELSE {})
flash_block(t) ==
    /\ At(t) = "list" /\ Scheduled(t)
    /\ flash_list' = List(t, flash_list.recs)
    /\ \/ (~Recorded(Target(t)) \/ MemUsed(t) = "torn") /\ Accept(t)
       \/ (Recorded(Target(t)) \/ MemUsed(t) = "torn") /\ Reject(t)
       \/ MemUsed(t) = "torn" /\ Faults /\ troubles' = troubles \cup RaceNoted(t)
    /\ UNCHANGED <<flash, marker, key, LoadVars, flash_addr, sections, addr, loaded, CoreVars, linked, events>>

(* The sector is recorded, though it may have been by the other task since, *)
(* and is done if the flash is the same.                                    *)
record(t) ==
    /\ At(t) = "record" /\ Scheduled(t)
    /\ flash_addr' = Target(t) + PagesPerSector /\ Goes(t, "push")
    /\ UNCHANGED <<flash, marker, key, LoadVars, flash_list, sections, addr, loaded, CoreVars, Ghosts>>
SameStart(t) == flash[Target(t)] = Data(t, 1)
Same(t) == \A k \in 1..PagesPerSector : flash[Target(t) + k - 1] = Data(t, k)
list_push_back(t) ==
    /\ At(t) = "push" /\ Scheduled(t)
    /\ flash_list' = List(t, flash_list.recs \cup {[at |-> Target(t), of |-> Kind(t)]})
    /\ Goes(t, IF Same(t) THEN "read" ELSE "lockout")
    /\ troubles' = troubles \cup RaceNoted(t) \cup (IF Recorded(Target(t)) THEN {"overlap"} ELSE {})
    /\ UNCHANGED <<flash, marker, key, LoadVars, flash_addr, sections, addr, loaded, CoreVars, linked, events>>

(* multicore_lockout_start_blocking: core 1 answers from its interrupt.  It *)
(* panics when core 1 is locked out already.                                *)
lockout_request(t) ==
    /\ At(t) = "lockout" /\ Scheduled(t) /\ Goes(t, "erase")
    /\ UNCHANGED <<flash, marker, key, LoadVars, ListVars, sections, addr, loaded, CoreVars, Ghosts>>
lockout_start(t) ==
    /\ At(t) = "lockout" /\ Scheduled(t)
    /\ locked' = TRUE
    /\ IF locked THEN Faults ELSE Goes(t, "erase")
    /\ UNCHANGED <<flash, marker, key, LoadVars, ListVars, sections, addr, loaded, core1,
                   reboot_is_requested, watchdog, Ghosts>>

(* save_and_disable_interrupts and flash_range_erase. *)
flash_range_erase(t) ==
    /\ At(t) = "erase" /\ Scheduled(t)
    /\ flash' = [q \in Pages |-> IF q \in Sector(Target(t)) THEN Blank ELSE flash[q]]
    /\ Goes(t, "program")
    /\ UNCHANGED <<marker, key, LoadVars, ListVars, sections, addr, loaded, CoreVars, Ghosts>>

(* flash_range_program, page by page, and restore_interrupts. *)
Unwritten(t) == {q \in Sector(Target(t)) : flash[q] # Data(t, q - Target(t) + 1)}
flash_range_program(t) ==
    /\ At(t) = "program" /\ Scheduled(t)
    /\ IF Unwritten(t) = {} THEN Goes(t, "unlock") /\ UNCHANGED flash
       ELSE \E q \in Unwritten(t) :
              /\ \A r \in Unwritten(t) : q <= r
              /\ flash' = [flash EXCEPT ![q] = Data(t, q - Target(t) + 1)]
              /\ UNCHANGED <<pc, app>>
    /\ UNCHANGED <<marker, key, LoadVars, ListVars, sections, addr, loaded, CoreVars, Ghosts>>

lockout_end(t) ==
    /\ At(t) = "unlock" /\ Scheduled(t)
    /\ locked' = FALSE /\ Goes(t, "read")
    /\ UNCHANGED <<flash, marker, key, LoadVars, ListVars, sections, addr, loaded, core1,
                   reboot_is_requested, watchdog, Ghosts>>

FlashBlock(t) ==
    \/ flash_block(t) \/ record(t) \/ list_push_back(t) \/ lockout_start(t) \/ flash_range_erase(t)
    \/ flash_range_program(t) \/ lockout_end(t)

-----------------------------------------------------------------------------
(* The other task.  load_app places the sections of a program at flash_addr *)
(* and takes every sector from the first to the last of them to flash_block, *)
(* or gives up on the way; the program runs all the same.                   *)
load_sec2mem ==
    /\ app \in {"idle", "place"} /\ Scheduled("app")
    /\ Cardinality(sections) < MaxSections /\ flash_addr < NPages
    /\ IF app = "idle" THEN Event ELSE UNCHANGED events
    /\ app' = "place" /\ sections' = sections \cup {flash_addr}
    /\ flash_addr' = flash_addr + PagesPerSector
    /\ UNCHANGED <<flash, marker, pc, key, LoadVars, flash_list, addr, loaded, CoreVars, linked, troubles>>
NextAddr ==
    \/ app = "place" /\ addr' \in {p \in sections : \A q \in sections : p <= q}
    \/ app = "read" /\ addr' = addr + PagesPerSector /\ \E q \in sections : addr' <= q
load_app ==
    /\ app \in {"place", "read"} /\ Scheduled("app")
    /\ \/ NextAddr /\ app' = "list" /\ UNCHANGED <<sections, loaded>>
       \/ app' = "idle" /\ sections' = {} /\ loaded' = loaded \cup {sections} /\ addr' = 0
    /\ UNCHANGED <<flash, marker, pc, key, LoadVars, ListVars, CoreVars, Ghosts>>

(* cleanup_bootb_ctx: flash_addr goes back to the base, and every record    *)
(* between the first and the last section goes, whoever made it; flash_addr *)
(* ends after those that stay.                                              *)
cleanup_bootb_ctx ==
    /\ app = "idle" /\ Scheduled("app")
    /\ \E s \in loaded :
         /\ loaded' = loaded \ {s}
         /\ IF flash_list.mem = "none" THEN UNCHANGED <<app, sections, flash_addr>>
            ELSE app' = "clean" /\ sections' = s /\ flash_addr' = PagesPerSector
    /\ UNCHANGED <<flash, marker, pc, key, LoadVars, flash_list, addr, CoreVars, Ghosts>>
Within(r) == (\E p \in sections : p <= r.at) /\ (\E q \in sections : r.at <= q)
Ends(recs) == {PagesPerSector} \cup {r.at + PagesPerSector : r \in recs}
FlashEnd(recs) == {e \in Ends(recs) : \A x \in Ends(recs) : x <= e}
Gone == {r \in flash_list.recs : Within(r)}
AnyEnd == {p + PagesPerSector : p \in {q \in Pages : Start(q)}}
list_erase_node ==
    /\ app = "clean" /\ Scheduled("app")
    /\ sections' = {} /\ flash_list' = List("app", flash_list.recs \ Gone)
    /\ troubles' = troubles \cup RaceNoted("app")
                   \cup (IF \E r \in Gone : r.of = "firmware" THEN {"unrecorded"} ELSE {})
    /\ \/ /\ app' = "idle" /\ UNCHANGED pc
          /\ flash_addr' \in IF MemUsed("app") = "torn" THEN AnyEnd ELSE FlashEnd(flash_list.recs \ Gone)
       \/ MemUsed("app") = "torn" /\ Faults /\ UNCHANGED flash_addr
    /\ UNCHANGED <<flash, marker, key, LoadVars, addr, loaded, CoreVars, linked, events>>

App == load_sec2mem \/ load_app \/ cleanup_bootb_ctx \/ list_erase_node

-----------------------------------------------------------------------------
(* load_firmware: the list is deleted, and load_firmware_sram cleans up the *)
(* deleted list if there was one.  The file cannot be opened, is too large, *)
(* or is read from its first block.                                         *)
Opened(f) ==
    /\ pc' = "read"
    /\ file' = f /\ Freed
load_firmware(f) ==
    LET stale == flash_list.mem # "none" IN
    /\ pc = "os" /\ Scheduled("loader") /\ Event
    /\ flash_list' = [mem |-> IF stale THEN "torn" ELSE "none", recs |-> {}]
    /\ troubles' = Unopened \cup (IF stale THEN {"stale"} ELSE {})
    /\ \/ pc' = "os" /\ UNCHANGED LoadVars
       \/ stale /\ pc' = "fault" /\ UNCHANGED LoadVars
       \/ Len(f) <= MaxLoad /\ Opened(f)
    /\ UNCHANGED <<flash, marker, key, flash_addr, AppVars, CoreVars, linked>>

(* read_flash_block: the pages that follow on, up to a sector.  A read that *)
(* fails counts as the end of the file, and so does every later one.        *)
Follow(n) == pos + n - 1 <= Len(file) /\ \A k \in 1..n : file[pos + k - 1] = offset + k - 1
Run == {n \in 0..PagesPerSector : Follow(n)}
Readable == IF "unread" \in troubles THEN {0} ELSE Run
Cut(n) == \E m \in Run : n < m
NextOffset(n) ==
    IF ~Cut(n) /\ n < PagesPerSector /\ pos + n <= Len(file) /\ "unread" \notin troubles
    THEN file[pos + n] ELSE offset + n

Unexpected == offset = E10

(* The first page of the sector is the boot2 that is there already. *)
PageAsRead(k) == <<file, offset + k - 1>>
PageRead(k) == IF offset = 0 /\ k = 1 THEN flash[0] ELSE <<file, offset + k - 1>>
Buffered(n) == [k \in 1..PagesPerSector |-> IF k <= n THEN PageRead(k) ELSE buffer[k]]

read_flash_block ==
    /\ pc = "read" /\ Scheduled("loader")
    /\ \E n \in Readable :
         LET next == NextOffset(n) IN
         /\ troubles' = IF Cut(n) THEN troubles \cup {"unread"} ELSE troubles
         /\ offset' = next /\ pos' = pos + n /\ block' = offset
         /\ IF next = offset THEN pc' = "close" /\ UNCHANGED <<buffer, replaced>>
            ELSE IF n = 0 THEN UNCHANGED <<pc, buffer, replaced>>
            ELSE IF Unexpected THEN pc' = "close" /\ UNCHANGED <<buffer, replaced>>
            ELSE /\ buffer' = Buffered(n)
                 /\ replaced' = (replaced \/ offset = 0)
                 /\ pc' = "list"
    /\ UNCHANGED <<flash, marker, key, file, ListVars, AppVars, CoreVars, linked, events>>

(* The end of load_firmware_sram.  A file without the first sector is a     *)
(* program, which M-OS calls.                                               *)
LoadEnds ==
    /\ pc = "close" /\ Scheduled("loader")
    /\ Freed
    /\ IF replaced THEN pc' = "link" /\ UNCHANGED file ELSE pc' = "os" /\ file' = NoFile
    /\ UNCHANGED <<flash, marker, key, ListVars, AppVars, CoreVars, Ghosts>>

(* link_firmware: the marker file is created, unless it exists or the card  *)
(* fails, and closed; then the reboot is requested and core 0 spins.        *)
RequestedOnly == pc' = "os" /\ reboot_is_requested' = TRUE
Requested == pc' = "reboot" /\ reboot_is_requested' = TRUE
f_open ==
    /\ pc = "link" /\ Scheduled("loader")
    /\ \/ marker = "none" /\ pc' = "sync" /\ UNCHANGED reboot_is_requested
       \/ Requested
    /\ UNCHANGED <<flash, marker, key, LoadVars, ListVars, AppVars, core1, locked, watchdog, Ghosts>>
f_close ==
    /\ pc = "sync" /\ Scheduled("loader")
    /\ \/ marker' = "loader" /\ linked' = file
       \/ UNCHANGED <<marker, linked>>
    /\ Requested
    /\ UNCHANGED <<flash, key, LoadVars, ListVars, AppVars, core1, locked, watchdog, troubles, events>>

Load == read_flash_block \/ FlashBlock("loader") \/ LoadEnds \/ f_open \/ f_close

Next ==
    \/ Boot \/ Load \/ render_core \/ WatchdogFires
    \/ \E f \in Files : load_firmware(f)
    \/ App \/ FlashBlock("app")
    \/ reboot_me \/ PowerFails

(* Core 0 goes through its boot, each task is scheduled, core 1 runs and    *)
(* the watchdog fires.  No one need load, press a key or pull the plug.     *)
Spec == Init /\ [][Next]_vars
Fairness ==
    /\ WF_vars(Boot) /\ WF_vars(Load) /\ WF_vars(FlashBlock("app"))
    /\ WF_vars(render_core) /\ WF_vars(WatchdogFires)
LiveSpec == Spec /\ Fairness

-----------------------------------------------------------------------------
(* Each variable keeps the shape the code gives it; a block being written   *)
(* is a sector of the flash.                                                *)
Loading == Writing \cup {"read"}
Rec == [at : {p \in Pages : Start(p)}, of : {"firmware", "program"}]
Troubles == {"stale", "unread", "rejected", "raced", "overlap", "unrecorded", "unopened"}
AppSectors == {p \in Pages : Start(p) /\ p > 0}
FirmwareTypeOK ==
    /\ flash \in [Pages -> Content] /\ marker \in {"none", "user", "loader"}
    /\ pc \in Preemptive \cup {"keys", "mount", "check", "nomount", "usb", "app", "dead", "fault"}
    /\ file \in Files \cup {NoFile} /\ (pc \in Loading \cup {"close", "link", "sync"} => file \in Files)
    /\ pos \in 1..(Len(file) + 1) /\ offset \in Nat /\ replaced \in BOOLEAN
    /\ buffer \in [1..PagesPerSector -> Content]
    /\ pc \in Writing => block \in Pages /\ Start(block)
    /\ flash_list \in [mem : {"none", "live", "torn"}, recs : SUBSET Rec]
    /\ flash_addr \in Nat /\ Start(flash_addr) /\ flash_addr > 0
    /\ app \in Loading \cup {"idle", "place", "clean"}
    /\ sections \subseteq AppSectors /\ loaded \subseteq SUBSET AppSectors
    /\ app \in Loading => addr \in AppSectors
    /\ linked \in Files \cup {NoFile} /\ troubles \subseteq Troubles

(* M-OS's own loader survives every firmware: only a reset between the      *)
(* erasing and the programming of the first sector loses it.                *)
BootloaderKept == flash[0] # Boot2 => pc = "dead" \/ (pc = "program" /\ block = 0)

(* M-OS is up over a marker only when f_open failed on it at the boot (or   *)
(* the loader has just written it): no other order of loads, resets and     *)
(* keys lets it load programs over a marked firmware.                       *)
UpMeansUnmarked == pc \in Preemptive \ {"reboot"} /\ "unopened" \notin troubles => marker = "none"

(* Core 1, which runs from flash, stands still while a sector is erased,    *)
(* whichever task does it: no lock-out ends inside another's.               *)
CoreOneStill ==
    /\ \A t \in Tasks : At(t) \in Held => locked
    /\ ~(pc \in Held /\ app \in Held)

(* What keeps the three: boot2 is in the buffer that goes to the first      *)
(* sector.                                                                  *)
FirmwareInv ==
    /\ FirmwareTypeOK /\ BootloaderKept /\ UpMeansUnmarked /\ CoreOneStill
    /\ pc \in Writing /\ block = 0 => buffer[1] = Boot2

(* The pages of a file as they are after loading it. *)
Image(f, p) == IF p = 0 THEN Boot2 ELSE <<f, p>>
Holds(f) == \A k \in 1..Len(f) : f[k] # E10 => flash[f[k]] = Image(f, f[k])

(* A marker the loader wrote vouches for a whole firmware, whenever the     *)
(* power failed or the watchdog fired and wherever the other task was.  Not *)
(* so if the load or what followed met a trouble: a block that could not be *)
(* read or was rejected, a list that was stale or torn by both tasks, a     *)
(* sector that both had found free, a clean-up that took the firmware's     *)
(* records, M-OS started over the marker.                                   *)
MarkedIsWhole == marker = "loader" /\ troubles = {} => Holds(linked)

(* The reason.  What has been read is in flash and recorded, so that the    *)
(* other task leaves it alone, or it is in the buffer; the offset is that   *)
(* of the next block, the start of a sector.                                *)
Kept(p) == \E r \in flash_list.recs : r.of = "firmware" /\ p \in Sector(r.at)
KeptAll(f) == \A k \in 1..Len(f) : f[k] # E10 => Kept(f[k])
InStep ==
    /\ pos <= Len(file) => Start(offset)
    /\ pos = 1 \/ offset = file[pos - 1] + 1 \/ (pos <= Len(file) /\ offset = file[pos])
Stored(k) ==
    IF pc \in Pending /\ file[k] \in Sector(block) THEN buffer[file[k] - block + 1] = Image(file, file[k])
    ELSE flash[file[k]] = Image(file, file[k]) /\ Kept(file[k])
FramedBlocks ==
    pc \in Loading =>
        /\ "unread" \notin troubles => InStep
        /\ replaced => pos > 1
        /\ \A k \in 1..(pos - 1) : file[k] # E10
AllStored == pc \in Loading /\ troubles = {} => \A k \in 1..(pos - 1) : Stored(k)
BlockKept == pc \in Writing \ {"list", "record", "push"} /\ troubles = {} => Kept(block)
WholeLoaded ==
    (pc \in {"link", "sync"} \/ (pc = "close" /\ replaced)) /\ troubles = {} => Holds(file) /\ KeptAll(file)
WholeMarked ==
    marker = "loader" /\ troubles = {} =>
        /\ Holds(linked)
        /\ core1 = "off" \/ pc = "fault" \/ (pc = "reboot" /\ KeptAll(linked))

(* And the other task: what it writes it has recorded, as nobody else has.  *)
ListTracked ==
    /\ flash_list.mem = "none" => flash_list.recs = {} /\ app \notin Writing \ {"list"}
    /\ flash_list.mem = "torn" => troubles # {}
    /\ troubles = {} =>
         /\ \A r1, r2 \in flash_list.recs : r1.at = r2.at => r1 = r2
         /\ app \in {"lockout", "erase", "program"} =>
              [at |-> addr, of |-> "program"] \in flash_list.recs
WholeInv == FramedBlocks /\ AllStored /\ BlockKept /\ WholeLoaded /\ WholeMarked /\ ListTracked

(* A firmware that has been marked is started: core 1 sees the request,     *)
(* the watchdog resets both cores and the boot goes to the firmware, unless *)
(* a key is held, the card has gone or does not let the marker be opened.   *)
MarkedIsStarted ==
    (pc = "reboot" /\ marker = "loader") ~>
        (pc \in {"app", "nomount"} \/ key # "none" \/ (pc = "os" /\ "unopened" \in troubles))
=============================================================================
