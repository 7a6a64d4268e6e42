--------------------------- MODULE Firmware_proofs ---------------------------
(***************************************************************************)
(* For any flash, any sector size, any set of firmware files and any number *)
(* of resets, loads and clean-ups of two tasks that change anywhere: a      *)
(* marker vouches for a whole firmware and the boot loader is kept.         *)
(***************************************************************************)
EXTENDS Firmware, SequenceTheorems, TLAPS

LInv == FirmwareInv /\ WholeInv

-----------------------------------------------------------------------------
(* Sectors. *)
LEMMA DivMod ==
    ASSUME NEW a \in Nat, NEW d \in Nat \ {0}
    PROVE  a \div d \in Nat /\ a % d \in 0..(d - 1) /\ a = d * (a \div d) + (a % d)
BY SMT

(* Two starts of sectors are a sector apart. *)
LEMMA StartsApart ==
    ASSUME NEW p \in Nat, NEW q \in Nat, Start(p), Start(q), p < q
    PROVE  p + PagesPerSector <= q
<1> DEFINE d == PagesPerSector
           a == p \div d
           b == q \div d
<1>1. d \in Nat \ {0}
  BY FirmwareAssumption
<1>2. a \in Nat /\ p = d * a
  BY <1>1, DivMod DEF Start
<1>3. b \in Nat /\ q = d * b
  BY <1>1, DivMod DEF Start
<1> HIDE DEF d, a, b
<1>4. a < b
  <2>1. SUFFICES ASSUME a >= b PROVE FALSE
    BY <1>2, <1>3
  <2>2. d * a >= d * b
    BY <1>1, <1>2, <1>3, <2>1, SMT
  <2> QED BY <1>2, <1>3, <2>2
<1>5. d * (b - a) >= d
  BY <1>1, <1>2, <1>3, <1>4, SMT
<1>6. d * b - d * a >= d
  BY <1>1, <1>2, <1>3, <1>5, SMT
<1>7. p + d <= q
  BY <1>1, <1>2, <1>3, <1>6, SMT
<1> QED BY <1>7 DEF d

(* The end of a sector is the start of the next. *)
LEMMA NextStarts ==
    ASSUME NEW p \in Nat, Start(p)
    PROVE  p + PagesPerSector \in Nat /\ Start(p + PagesPerSector)
<1> DEFINE d == PagesPerSector
           a == p \div d
           q == p + d
           b == q \div d
           r == q % d
<1>1. d \in Nat \ {0}
  BY FirmwareAssumption
<1>2. a \in Nat /\ p = d * a
  BY <1>1, DivMod DEF Start
<1>3. q \in Nat
  BY <1>1
<1>4. b \in Nat /\ r \in 0..(d - 1) /\ q = d * b + r
  <2> HIDE DEF q
  <2> QED BY <1>1, <1>3, DivMod
<1>5. q = p + d
  OBVIOUS
<1> HIDE DEF d, a, b, q, r
<1>6. d * (a + 1 - b) = r
  BY <1>1, <1>2, <1>4, <1>5, SMT
<1>7. a + 1 = b
  <2>1. CASE a + 1 > b
    <3>1. d * (a + 1 - b) >= d
      BY <1>1, <1>2, <1>4, <2>1, SMT
    <3> QED BY <1>1, <1>4, <1>6, <3>1
  <2>2. CASE a + 1 < b
    <3>1. d * (b - (a + 1)) >= d
      BY <1>1, <1>2, <1>4, <2>2, SMT
    <3>2. d * (b - (a + 1)) = 0 - r
      BY <1>1, <1>2, <1>4, <1>6, SMT
    <3> QED BY <1>1, <1>4, <3>1, <3>2
  <2> QED BY <1>2, <1>4, <2>1, <2>2
<1>8. r = 0
  BY <1>1, <1>2, <1>6, <1>7, SMT
<1> QED BY <1>3, <1>5, <1>8 DEF d, r, q, Start

(* A page lies in one sector. *)
LEMMA OneSector ==
    ASSUME NEW a \in Nat, NEW b \in Nat, Start(a), Start(b), NEW q \in Sector(a), q \in Sector(b)
    PROVE  a = b
<1>1. PagesPerSector \in Nat \ {0} /\ a <= q /\ q < a + PagesPerSector /\ b <= q /\ q < b + PagesPerSector
      /\ q \in Int
  BY FirmwareAssumption DEF Sector
<1>2. ~(a < b)
  BY <1>1, StartsApart
<1>3. ~(b < a)
  BY <1>1, StartsApart
<1> QED BY <1>2, <1>3

(* Files. *)
LEMMA FileFacts ==
    ASSUME NEW f \in Files
    PROVE  /\ Len(f) \in Nat \ {0}
           /\ \A k \in 1..Len(f) : f[k] \in Nat /\ f[k] \in Pages \cup {E10} /\ (f[k] # E10 => f[k] \in Pages)
           /\ \A j, k \in 1..Len(f) : j < k => f[j] # f[k] /\ (f[j] < f[k] \/ (f[j] = E10 /\ j = 1))
           /\ \A k \in 1..Len(f) : Start(f[k]) \/ (k > 1 /\ f[k - 1] = f[k] - 1)
<1>1. f \in Seq(Pages \cup {E10}) /\ Len(f) > 0
  BY FirmwareAssumption DEF Pages
<1>2. Len(f) \in Nat /\ \A k \in 1..Len(f) : f[k] \in Pages \cup {E10}
  BY <1>1, LenProperties, ElementOfSeq
<1>3. Pages \subseteq Nat /\ E10 \in Nat /\ E10 \notin Pages
  BY FirmwareAssumption DEF Pages
<1> QED BY <1>1, <1>2, <1>3, FirmwareAssumption

LEMMA RunStarts ==
    ASSUME NEW f \in Files, NEW m \in 1..Len(f), ~(m > 1 /\ f[m - 1] = f[m] - 1)
    PROVE  Start(f[m])
BY FileFacts

(* What a step of either task does to the list. *)
LEMMA FirstStart == Start(PagesPerSector) /\ PagesPerSector \in Nat /\ PagesPerSector > 0
<1>1. Start(0) /\ 0 + PagesPerSector = PagesPerSector
  BY FirmwareAssumption DEF Start
<1> QED BY <1>1, NextStarts, FirmwareAssumption

LEMMA ListFacts ==
    ASSUME FirmwareTypeOK, ListTracked, NEW t \in Tasks, NEW recs \in SUBSET Rec
    PROVE  /\ List(t, recs) \in [mem : {"none", "live", "torn"}, recs : SUBSET Rec]
           /\ List(t, recs).mem # "none"
           /\ List(t, recs).mem = "torn" => troubles \cup RaceNoted(t) # {}
           /\ troubles \cup RaceNoted(t) = {} => troubles = {} /\ List(t, recs).recs = recs
           /\ RaceNoted(t) \subseteq Troubles
<1>1. MemUsed(t) = "torn" \/ MemUsed(t) = "live"
  BY DEF MemUsed
<1>2. List(t, recs) \in [mem : {"none", "live", "torn"}, recs : SUBSET Rec] /\ List(t, recs).mem = MemUsed(t)
      /\ (MemUsed(t) = "live" => List(t, recs).recs = recs)
  BY <1>1 DEF List
<1>3. MemUsed(t) = "torn" => troubles \cup RaceNoted(t) # {}
  BY DEF MemUsed, RaceNoted, ListTracked
<1> QED BY <1>1, <1>2, <1>3 DEF RaceNoted, Troubles

-----------------------------------------------------------------------------
LEMMA InitInv == Init => LInv
<1> SUFFICES ASSUME Init PROVE LInv
  OBVIOUS
<1> USE FirmwareAssumption
<1>1. Len(NoFile) = 0
  BY DEF NoFile
<1>2. flash \in [Pages -> Content] /\ buffer \in [1..PagesPerSector -> Content] /\ flash[0] = Boot2
  BY DEF Init, NoBuffer, Content, Pages
<1>3. flash_list = EmptyList /\ flash_list \in [mem : {"none", "live", "torn"}, recs : SUBSET Rec]
  BY DEF Init, EmptyList
<1>4. pc = "keys" /\ marker = "none" /\ file = NoFile /\ linked = NoFile /\ troubles = {} /\ app = "idle"
      /\ sections = {} /\ loaded = {} /\ core1 = "off"
  BY DEF Init
<1>5. FirmwareTypeOK
  <2>1. pos \in 1..(Len(file) + 1) /\ offset \in Nat /\ replaced \in BOOLEAN
    <3>1. file = NoFile /\ pos = 1 /\ offset = 0 /\ replaced = FALSE
      BY DEF Init
    <3>2. Len(file) = 0
      BY <1>1, <3>1
    <3>3. 1 \in 1..1 /\ Len(file) + 1 = 1
      BY <3>2
    <3>4. pos \in 1..(Len(file) + 1)
      BY <3>1, <3>3
    <3> QED BY <3>1, <3>4
  <2>2. flash_addr \in Nat /\ Start(flash_addr) /\ flash_addr > 0
    BY FirstStart DEF Init
  <2> QED BY <1>2, <1>3, <1>4, <2>1, <2>2 DEF FirmwareTypeOK, Loading, Writing, Pending
<1>6. ListTracked
  BY <1>3, <1>4 DEF ListTracked, EmptyList, Writing, Pending
<1>7. FirmwareInv
  BY <1>2, <1>4, <1>5 DEF FirmwareInv, BootloaderKept, UpMeansUnmarked, CoreOneStill, Tasks, At, Held, Writing,
     Pending, Preemptive
<1>8. FramedBlocks /\ AllStored /\ BlockKept /\ WholeLoaded /\ WholeMarked
  BY <1>4 DEF FramedBlocks, AllStored, BlockKept, WholeLoaded, WholeMarked, Loading, Writing, Pending
<1> QED BY <1>6, <1>7, <1>8 DEF LInv, WholeInv

-----------------------------------------------------------------------------
(* Steps that leave the flash, its records and the load alone. *)
LEMMA StoredSame ==
    ASSUME UNCHANGED <<flash, LoadVars, flash_list>>, pc' \in Pending <=> pc \in Pending
    PROVE  \A k : Stored(k)' <=> Stored(k)
BY DEF Stored, Kept, Image, LoadVars

LEMMA HoldsSame ==
    ASSUME UNCHANGED <<flash, flash_list>>
    PROVE  /\ UNCHANGED file => (Holds(file)' <=> Holds(file)) /\ (KeptAll(file)' <=> KeptAll(file))
           /\ UNCHANGED linked => (Holds(linked)' <=> Holds(linked)) /\ (KeptAll(linked)' <=> KeptAll(linked))
           /\ UNCHANGED block => (Kept(block)' <=> Kept(block))
BY DEF Holds, KeptAll, Kept, Image

LEMMA TrackedSame ==
    ASSUME ListTracked, UNCHANGED <<flash_list, app, addr>>, troubles \subseteq troubles'
    PROVE  ListTracked'
BY DEF ListTracked

(* A step of the boot, of core 1 or of a program that asks for a reboot. *)
StillStep ==
    /\ UNCHANGED <<flash, LoadVars, ListVars, AppVars, linked, locked>>
    /\ troubles \subseteq troubles' /\ troubles' \subseteq Troubles
    /\ \/ UNCHANGED <<pc, marker>>
       \/ pc \in {"keys", "mount", "check"}
          /\ pc' \in {"mount", "check", "nomount", "app", "usb", "reboot", "os"}
    /\ marker' \in {"none", "user"} \/ UNCHANGED marker
    /\ pc' \in Preemptive \ {"reboot"} /\ "unopened" \notin troubles' => marker' = "none"
    /\ marker' = "loader" /\ troubles' = {} => core1' = "off" \/ (core1 # "off" /\ pc' = pc)
LEMMA StillKeeps ==
    ASSUME LInv, StillStep
    PROVE  LInv'
<1> USE DEF StillStep, LoadVars, ListVars, AppVars
<1>0. FirmwareInv /\ WholeInv /\ FirmwareTypeOK /\ ListTracked
  BY DEF LInv, FirmwareInv, WholeInv
<1>1. FirmwareTypeOK'
  <2>1. marker' \in {"none", "user", "loader"} /\ troubles' \subseteq Troubles
    BY <1>0 DEF FirmwareTypeOK
  <2>2. CASE pc' = pc
    BY <1>0, <2>1, <2>2 DEF FirmwareTypeOK
  <2>3. CASE pc' \in {"mount", "check", "nomount", "app", "usb", "reboot", "os"}
    BY <1>0, <2>1, <2>3 DEF FirmwareTypeOK, Loading, Writing, Pending, Preemptive
  <2> QED BY <2>2, <2>3
<1>2. FirmwareInv'
  <2>1. CASE pc' = pc
    BY <1>0, <1>1, <2>1 DEF FirmwareInv, BootloaderKept, UpMeansUnmarked, CoreOneStill, At, Tasks
  <2>2. CASE pc \in {"keys", "mount", "check"} /\ pc' \in {"mount", "check", "nomount", "app", "usb", "reboot", "os"}
    BY <1>0, <1>1, <2>2
       DEF FirmwareInv, BootloaderKept, UpMeansUnmarked, CoreOneStill, At, Tasks, Held, Writing, Pending
  <2> QED BY <2>1, <2>2
<1>3. FramedBlocks' /\ AllStored' /\ BlockKept' /\ WholeLoaded'
  <2>1. CASE pc' = pc
    <3>1. \A k : Stored(k)' <=> Stored(k)
      BY <2>1, StoredSame
    <3>2. troubles' = {} => troubles = {}
      OBVIOUS
    <3> QED BY <1>0, <2>1, <3>1, <3>2, HoldsSame
            DEF WholeInv, FramedBlocks, InStep, AllStored, BlockKept, WholeLoaded
  <2>2. CASE pc' \in {"mount", "check", "nomount", "app", "usb", "reboot", "os"}
    BY <2>2 DEF FramedBlocks, AllStored, BlockKept, WholeLoaded, Loading, Writing, Pending
  <2> QED BY <2>1, <2>2
<1>4. WholeMarked'
  <2>1. SUFFICES ASSUME marker' = "loader", troubles' = {}
                 PROVE (Holds(linked) /\ (core1 = "off" \/ pc = "fault" \/ (pc = "reboot" /\ KeptAll(linked))))'
    BY DEF WholeMarked
  <2>2. marker = "loader" /\ troubles = {} /\ linked' = linked
    BY <2>1
  <2> QED BY <1>0, <2>1, <2>2, HoldsSame DEF WholeInv, WholeMarked
<1>5. ListTracked'
  BY <1>0, TrackedSame
<1> QED BY <1>2, <1>3, <1>4, <1>5 DEF LInv, WholeInv

LEMMA BootKeeps ==
    ASSUME LInv, Boot
    PROVE  LInv'
<1>0. /\ marker \in {"none", "user", "loader"}
      /\ marker = "loader" /\ troubles = {} => core1 = "off" \/ pc \in {"reboot", "fault"}
      /\ troubles \subseteq Troubles
  BY DEF LInv, FirmwareInv, FirmwareTypeOK, WholeInv, WholeMarked
<1>1. CASE process_input_on_boot
  <2>1. /\ pc = "keys" /\ pc' \in {"mount", "usb", "reboot"} /\ UNCHANGED <<core1, locked, troubles>>
        /\ UNCHANGED <<flash, LoadVars, ListVars, AppVars, linked>>
        /\ marker' \in {"none", "user"} \/ UNCHANGED marker
    BY <1>1 DEF process_input_on_boot, keyNone, caseF10, caseF12, unlink_firmware, usb_on_boot
  <2>2. StillStep
    BY <1>0, <2>1 DEF StillStep, Writing, Pending, Preemptive
  <2> QED BY <2>2, StillKeeps
<1>2. CASE mount_os
  <2>1. pc = "mount" /\ pc' \in {"check", "nomount"} /\ UNCHANGED <<flash, marker, LoadVars, ListVars, AppVars>>
        /\ UNCHANGED <<linked, troubles, core1, locked>>
    BY <1>2 DEF mount_os, CoreVars, Ghosts
  <2>2. StillStep
    BY <1>0, <2>1 DEF StillStep, Writing, Pending, Preemptive
  <2> QED BY <2>2, StillKeeps
<1>3. CASE check_firmware
  <2>1. /\ pc = "check" /\ UNCHANGED <<flash, marker, LoadVars, ListVars, AppVars>> /\ UNCHANGED <<linked, locked>>
        /\ \/ pc' = "app" /\ UNCHANGED <<core1, troubles>>
           \/ pc' = "os" /\ troubles' = troubles \cup Unopened
    BY <1>3 DEF check_firmware
  <2>2. Unopened \subseteq Troubles /\ ("unopened" \notin Unopened => marker = "none")
    BY DEF Unopened, Troubles
  <2>3. StillStep
    BY <1>0, <2>1, <2>2 DEF StillStep, Writing, Pending, Preemptive
  <2> QED BY <2>3, StillKeeps
<1> QED BY <1>1, <1>2, <1>3 DEF Boot

LEMMA RequestKeeps ==
    ASSUME LInv, render_core \/ reboot_me \/ UNCHANGED vars
    PROVE  LInv'
<1>1. UNCHANGED <<pc, marker, locked, flash, linked, troubles>> /\ UNCHANGED <<LoadVars, ListVars, AppVars>>
  BY DEF render_core, reboot_me, vars, CoreVars, Ghosts
<1>2. core1' = core1 \/ core1 # "off"
  BY DEF render_core, reboot_me, vars, CoreVars
<1>3. UpMeansUnmarked /\ troubles \subseteq Troubles
  BY DEF LInv, FirmwareInv, FirmwareTypeOK
<1>4. StillStep
  BY <1>1, <1>2, <1>3 DEF StillStep, UpMeansUnmarked
<1> QED BY <1>4, StillKeeps

-----------------------------------------------------------------------------
(* A reset forgets the load; a marker that got to the card vouches for the  *)
(* file that was being marked.                                              *)
LEMMA RestartKeeps ==
    ASSUME LInv, Restart
    PROVE  LInv'
<1> USE FirmwareAssumption
<1>0. FirmwareTypeOK /\ UpMeansUnmarked /\ WholeLoaded /\ WholeMarked
  BY DEF LInv, FirmwareInv, WholeInv
<1>1. /\ pc' = (IF flash[0] = Boot2 THEN "keys" ELSE "dead") /\ core1' = "off" /\ UNCHANGED <<flash, troubles>>
      /\ file' = NoFile /\ pos' = 1 /\ offset' = 0 /\ buffer' = NoBuffer /\ replaced' = FALSE
      /\ flash_list' = EmptyList /\ flash_addr' = PagesPerSector
      /\ app' = "idle" /\ sections' = {} /\ loaded' = {}
  BY DEF Restart, Freed
<1>2. marker' \in {"none", "user", "loader"} /\ linked' \in Files \cup {NoFile}
  BY <1>0 DEF Restart, FirmwareTypeOK
<1>3. FirmwareTypeOK'
  <2>1. Len(NoFile) = 0
    BY DEF NoFile
  <2>2. 1 \in 1..1 /\ Len(NoFile) + 1 = 1
    BY <2>1
  <2>3. pos' \in 1..(Len(file') + 1)
    BY <1>1, <2>2
  <2>5. flash_addr' \in Nat /\ Start(flash_addr') /\ flash_addr' > 0
    BY <1>1, FirstStart
  <2>6. buffer' \in [1..PagesPerSector -> Content] /\ flash_list' \in [mem : {"none", "live", "torn"}, recs : SUBSET Rec]
    BY <1>1 DEF NoBuffer, EmptyList, Content
  <2>7. flash' \in [Pages -> Content] /\ troubles' \subseteq Troubles
    BY <1>0, <1>1 DEF FirmwareTypeOK
  <2> QED BY <1>1, <1>2, <2>3, <2>5, <2>6, <2>7 DEF FirmwareTypeOK, Start, Loading, Writing, Pending, Preemptive
<1>4. FirmwareInv'
  BY <1>1, <1>3 DEF FirmwareInv, BootloaderKept, UpMeansUnmarked, CoreOneStill, At, Tasks, Held, Writing, Pending, Preemptive
<1>5. WholeMarked'
  <2>1. CASE marker' = marker
    <3>1. linked' = linked
      BY <2>1 DEF Restart
    <3> QED BY <1>0, <1>1, <2>1, <3>1 DEF WholeMarked, Holds, Image
  <2>2. CASE marker' # marker
    <3>1. pc = "sync" /\ linked' = file
      BY <2>2 DEF Restart
    <3>2. troubles = {} => Holds(file)
      BY <1>0, <3>1 DEF WholeLoaded
    <3> QED BY <1>1, <3>1, <3>2 DEF WholeMarked, Holds, Image
  <2> QED BY <2>1, <2>2
<1>6. FramedBlocks' /\ AllStored' /\ BlockKept' /\ WholeLoaded'
  BY <1>1 DEF FramedBlocks, AllStored, BlockKept, WholeLoaded, Loading, Writing, Pending
<1>7. ListTracked'
  BY <1>1 DEF ListTracked, EmptyList, Writing, Pending
<1> QED BY <1>4, <1>5, <1>6, <1>7 DEF LInv, WholeInv

-----------------------------------------------------------------------------
(* What the steps of both tasks leave alone. *)
Moves(t) == (\E place \in Loading : Goes(t, place)) \/ Faults \/ UNCHANGED <<pc, app>>
LEMMA BlockTyped ==
    ASSUME FirmwareTypeOK, NEW t \in Tasks, At(t) \in Writing, Moves(t), Running,
           UNCHANGED <<marker, LoadVars, sections, addr, loaded, linked>>,
           flash' \in [Pages -> Content], flash_list' \in [mem : {"none", "live", "torn"}, recs : SUBSET Rec],
           flash_addr' \in Nat /\ Start(flash_addr') /\ flash_addr' > 0, troubles' \subseteq Troubles
    PROVE  FirmwareTypeOK'
<1> USE DEF LoadVars
<1>1. CASE t = "loader" /\ (\E place \in Loading : Goes(t, place))
  <2>1. pc \in Writing /\ pc' \in Loading /\ app' = app
    BY <1>1 DEF At, Goes
  <2> QED BY <2>1 DEF FirmwareTypeOK, Loading, Writing, Preemptive, Pending, Start
<1>2. CASE t = "app" /\ (\E place \in Loading : Goes(t, place))
  <2>1. app \in Writing /\ app' \in Loading /\ pc' = pc
    BY <1>2 DEF At, Goes
  <2> QED BY <2>1 DEF FirmwareTypeOK, Loading
<1>3. CASE Faults \/ UNCHANGED <<pc, app>>
  <2>1. app' = app /\ (pc' = pc \/ pc' = "fault")
    BY <1>3 DEF Faults
  <2> QED BY <2>1 DEF FirmwareTypeOK, Loading, Writing, Preemptive, Pending
<1> QED BY <1>1, <1>2, <1>3 DEF Moves, Tasks

LEMMA TrackedFrame ==
    ASSUME ListTracked, UNCHANGED <<flash_list, addr>>, troubles \subseteq troubles',
           app' \in Writing \ {"list"} => app \in Writing \ {"list"},
           app' \in {"lockout", "erase", "program"} => app \in {"lockout", "erase", "program"}
    PROVE  ListTracked'
BY DEF ListTracked

LEMMA StillFrame ==
    ASSUME CoreOneStill, UNCHANGED locked, pc' \in Held => pc \in Held, app' \in Held => app \in Held
    PROVE  CoreOneStill'
BY DEF CoreOneStill, Tasks, At

(* A step of the other task that leaves the kept sectors alone. *)
KeptStay == troubles' = {} => \A q \in Pages : Kept(q) => flash'[q] = flash[q] /\ Kept(q)'
AppFrame ==
    /\ Running /\ UNCHANGED <<marker, LoadVars, linked, core1>>
    /\ UNCHANGED pc \/ (pc' = "fault" /\ pc # "program")
    /\ FirmwareTypeOK' /\ CoreOneStill' /\ ListTracked'
    /\ flash'[0] = flash[0] /\ troubles \subseteq troubles'
    /\ KeptStay
LEMMA AppKeeps ==
    ASSUME LInv, AppFrame
    PROVE  LInv'
<1> USE DEF AppFrame, LoadVars
<1>0. FirmwareTypeOK /\ FirmwareInv /\ WholeInv
  BY DEF LInv, FirmwareInv
<1>1. pc' = pc \/ pc' = "fault"
  OBVIOUS
<1>2. FirmwareInv'
  <2>1. BootloaderKept'
    BY <1>0 DEF FirmwareInv, BootloaderKept, Running, Preemptive, Writing, Pending
  <2>2. UpMeansUnmarked'
    BY <1>0 DEF FirmwareInv, UpMeansUnmarked, Preemptive, Writing, Pending
  <2>3. pc' \in Writing /\ block' = 0 => buffer'[1] = Boot2
    BY <1>0 DEF FirmwareInv, Writing, Pending
  <2> QED BY <2>1, <2>2, <2>3 DEF FirmwareInv
<1>3. troubles' = {} => troubles = {} /\ \A q \in Pages : Kept(q) => flash'[q] = flash[q] /\ Kept(q)'
  BY DEF KeptStay
<1>4. ASSUME NEW f \in Files \cup {NoFile}, troubles' = {}
      PROVE  /\ Holds(f) /\ KeptAll(f) => \A k \in 1..Len(f) : f[k] # E10 => flash'[f[k]] = Image(f, f[k])
             /\ KeptAll(f) => \A k \in 1..Len(f) : f[k] # E10 => Kept(f[k])'
  <2>1. CASE f \in Files
    BY <1>3, <1>4, <2>1, FileFacts DEF Holds, KeptAll
  <2>2. CASE f = NoFile
    <3>1. Len(f) = 0
      BY <2>2 DEF NoFile
    <3> QED BY <3>1
  <2> QED BY <2>1, <2>2
<1>5. FramedBlocks'
  BY <1>0 DEF WholeInv, FramedBlocks, InStep, Start, Loading, Writing, Pending
<1>6. BlockKept'
  <2>1. SUFFICES ASSUME pc \in Writing \ {"list", "record", "push"}, troubles' = {} PROVE Kept(block)'
    BY DEF BlockKept, Writing, Pending
  <2>2. block \in Pages /\ Kept(block)
    BY <1>0, <1>3, <2>1 DEF FirmwareTypeOK, WholeInv, BlockKept
  <2>3. \E r \in flash_list'.recs : r.of = "firmware" /\ block \in Sector(r.at)
    BY <1>3, <2>1, <2>2 DEF Kept
  <2> QED BY <2>3 DEF Kept
<1>7. AllStored'
  <2>1. SUFFICES ASSUME pc \in Loading, pc' = pc, troubles' = {} PROVE (\A k \in 1..(pos - 1) : Stored(k))'
    BY DEF AllStored, Loading, Writing, Pending
  <2>2. file \in Files /\ pos \in 1..(Len(file) + 1)
    BY <1>0, <2>1 DEF FirmwareTypeOK
  <2>3. \A k \in 1..(pos - 1) : file[k] \in Pages
    BY <1>0, <2>1, <2>2, FileFacts DEF WholeInv, FramedBlocks
  <2>4. \A k \in 1..(pos - 1) : Stored(k)
    BY <1>0, <1>3, <2>1 DEF WholeInv, AllStored
  <2>6. ASSUME NEW k \in 1..(pos - 1) PROVE Stored(k)'
    <3>1. CASE pc \in Pending /\ file[k] \in Sector(block)
      BY <2>1, <2>4, <3>1 DEF Stored, Image
    <3>2. CASE ~(pc \in Pending /\ file[k] \in Sector(block))
      <4>1. flash[file[k]] = Image(file, file[k]) /\ Kept(file[k])
        BY <2>4, <3>2 DEF Stored
      <4>2. flash'[file[k]] = Image(file, file[k]) /\ Kept(file[k])'
        BY <1>3, <2>1, <2>3, <4>1
      <4> QED BY <2>1, <3>2, <4>2 DEF Stored, Image, Kept
    <3> QED BY <3>1, <3>2
  <2> QED BY <2>6
<1>8. WholeLoaded'
  <2>1. SUFFICES ASSUME pc \in {"link", "sync"} \/ (pc = "close" /\ replaced), troubles' = {}
                 PROVE (Holds(file) /\ KeptAll(file))'
    BY DEF WholeLoaded
  <2>2. file \in Files \cup {NoFile} /\ Holds(file) /\ KeptAll(file)
    BY <1>0, <1>3, <2>1 DEF FirmwareTypeOK, WholeInv, WholeLoaded
  <2>4. \A k \in 1..Len(file) : file[k] # E10 => flash'[file[k]] = Image(file, file[k])
    BY <1>4, <2>1, <2>2
  <2>5. \A k \in 1..Len(file) : file[k] # E10 => Kept(file[k])'
    BY <1>4, <2>1, <2>2
  <2>6. \A k \in 1..Len(file) : file[k] # E10 => \E r \in flash_list'.recs : r.of = "firmware" /\ file[k] \in Sector(r.at)
    BY <2>5 DEF Kept
  <2> QED BY <2>4, <2>6 DEF Holds, KeptAll, Kept, Image
<1>9. WholeMarked'
  <2>1. SUFFICES ASSUME marker = "loader", troubles' = {}
                 PROVE (Holds(linked) /\ (core1 = "off" \/ pc = "fault" \/ (pc = "reboot" /\ KeptAll(linked))))'
    BY DEF WholeMarked
  <2>2. Holds(linked) /\ KeptAll(linked) /\ pc = "reboot" /\ linked \in Files \cup {NoFile} /\ linked' = linked
    BY <1>0, <1>3, <2>1 DEF FirmwareTypeOK, WholeInv, WholeMarked, Running, Preemptive, Writing, Pending
  <2>4. \A k \in 1..Len(linked) : linked[k] # E10 => flash'[linked[k]] = Image(linked, linked[k])
    BY <1>4, <2>1, <2>2
  <2>5. \A k \in 1..Len(linked) : linked[k] # E10 => Kept(linked[k])'
    BY <1>4, <2>1, <2>2
  <2>6. \A k \in 1..Len(linked) : linked[k] # E10 => \E r \in flash_list'.recs : r.of = "firmware" /\ linked[k] \in Sector(r.at)
    BY <2>5 DEF Kept
  <2>7. (Holds(linked) /\ KeptAll(linked))'
    BY <2>2, <2>4, <2>6 DEF Holds, KeptAll, Kept, Image
  <2> QED BY <1>1, <2>2, <2>7
<1> QED BY <1>2, <1>5, <1>6, <1>7, <1>8, <1>9 DEF LInv, WholeInv

(* The steps of flash_block that do not touch the flash: the sector is      *)
(* searched for and added to the list, core 1 is stopped and let go.        *)
BlockFrame ==
    /\ Running /\ UNCHANGED <<flash, marker, LoadVars, linked, core1>>
    /\ FirmwareTypeOK' /\ CoreOneStill' /\ ListTracked'
    /\ troubles \subseteq troubles'
    /\ troubles' = {} => \A q \in Pages : Kept(q) => Kept(q)'
LEMMA TargetFacts ==
    ASSUME FirmwareTypeOK, NEW t \in Tasks, At(t) \in Writing
    PROVE  /\ Target(t) \in Pages /\ Start(Target(t)) /\ Target(t) \in Nat
           /\ Target(t) \in Sector(Target(t))
           /\ [at |-> Target(t), of |-> Kind(t)] \in Rec
           /\ Start(Target(t) + PagesPerSector) /\ Target(t) + PagesPerSector \in Nat
           /\ Target(t) + PagesPerSector > 0
<1>1. Target(t) \in Pages /\ Start(Target(t))
  BY DEF FirmwareTypeOK, Tasks, At, Target, AppSectors, Loading
<1>2. Target(t) \in Nat
  BY <1>1 DEF Pages
<1>3. Kind(t) \in {"firmware", "program"}
  BY DEF Kind
<1>4. PagesPerSector \in Nat \ {0}
  BY FirmwareAssumption
<1>5. Target(t) \in Sector(Target(t))
  BY <1>2, <1>4 DEF Sector
<1> QED BY <1>1, <1>2, <1>3, <1>4, <1>5, NextStarts DEF Rec

LEMMA SearchFacts ==
    ASSUME LInv, NEW t \in Tasks, flash_block(t)
    PROVE  BlockFrame
<1>0. FirmwareTypeOK /\ CoreOneStill /\ ListTracked
  BY DEF LInv, FirmwareInv, WholeInv
<1>1. /\ At(t) = "list" /\ Running
      /\ UNCHANGED <<flash, marker, LoadVars, flash_addr, sections, addr, loaded, linked, core1, locked>>
      /\ flash_list' = List(t, flash_list.recs)
  BY DEF flash_block, Scheduled, CoreVars
<1>2. /\ troubles \cup RaceNoted(t) \subseteq troubles' /\ troubles' \subseteq troubles \cup RaceNoted(t) \cup {"rejected"}
      /\ Goes(t, "record") \/ Goes(t, "read") \/ Faults
  BY DEF flash_block, Accept, Reject
<1>3. Moves(t)
  BY <1>2 DEF Moves, Loading, Writing, Pending
<1>4. /\ flash_list' \in [mem : {"none", "live", "torn"}, recs : SUBSET Rec] /\ flash_list'.mem # "none"
      /\ flash_list'.mem = "torn" => troubles' # {}
      /\ troubles' = {} => troubles = {} /\ flash_list'.recs = flash_list.recs
      /\ troubles' \subseteq Troubles
  <2>1. flash_list.recs \in SUBSET Rec /\ troubles \subseteq Troubles
    BY <1>0 DEF FirmwareTypeOK
  <2>2. "rejected" \in Troubles
    BY DEF Troubles
  <2> QED BY <1>0, <1>1, <1>2, <2>1, <2>2, ListFacts
<1>5. FirmwareTypeOK'
  <2>1. flash' \in [Pages -> Content] /\ flash_addr' \in Nat /\ Start(flash_addr') /\ flash_addr' > 0
    BY <1>0, <1>1 DEF FirmwareTypeOK
  <2>2. At(t) \in Writing
    BY <1>1 DEF Writing, Pending
  <2> QED BY <1>0, <1>1, <1>3, <1>4, <2>1, <2>2, BlockTyped
<1>6. app' \in {app, "record", "read"} /\ pc' \in {pc, "record", "read", "fault"}
  BY <1>2 DEF Goes, Faults
<1>7. CoreOneStill'
  BY <1>0, <1>1, <1>6, StillFrame DEF Held
<1>8. ListTracked'
  BY <1>0, <1>1, <1>4, <1>6 DEF ListTracked
<1> QED BY <1>1, <1>2, <1>4, <1>5, <1>7, <1>8 DEF BlockFrame, Kept

LEMMA PushFacts ==
    ASSUME LInv, NEW t \in Tasks, list_push_back(t)
    PROVE  BlockFrame
<1> DEFINE new == [at |-> Target(t), of |-> Kind(t)]
           recs == flash_list.recs \cup {new}
<1>0. FirmwareTypeOK /\ CoreOneStill /\ ListTracked
  BY DEF LInv, FirmwareInv, WholeInv
<1>1. /\ At(t) = "push" /\ Running
      /\ UNCHANGED <<flash, marker, LoadVars, flash_addr, sections, addr, loaded, linked, core1, locked>>
      /\ flash_list' = List(t, recs)
      /\ Goes(t, "read") \/ Goes(t, "lockout")
  BY DEF list_push_back, Scheduled, CoreVars
<1>2. /\ troubles \cup RaceNoted(t) \subseteq troubles' /\ troubles' \subseteq troubles \cup RaceNoted(t) \cup {"overlap"}
      /\ troubles' = {} => ~Recorded(Target(t))
  BY DEF list_push_back
<1>3. Moves(t)
  BY <1>1 DEF Moves, Loading, Writing, Pending
<1>4. new \in Rec /\ Target(t) \in Sector(Target(t)) /\ At(t) \in Writing
  BY <1>0, <1>1, TargetFacts DEF Writing, Pending
<1>5. /\ flash_list' \in [mem : {"none", "live", "torn"}, recs : SUBSET Rec] /\ flash_list'.mem # "none"
      /\ flash_list'.mem = "torn" => troubles' # {}
      /\ troubles' = {} => troubles = {} /\ flash_list'.recs = recs
      /\ troubles' \subseteq Troubles
  <2>1. recs \in SUBSET Rec /\ troubles \subseteq Troubles
    BY <1>0, <1>4 DEF FirmwareTypeOK
  <2>2. "overlap" \in Troubles
    BY DEF Troubles
  <2> HIDE DEF recs
  <2> QED BY <1>0, <1>1, <1>2, <2>1, <2>2, ListFacts
<1>6. FirmwareTypeOK'
  <2>1. flash' \in [Pages -> Content] /\ flash_addr' \in Nat /\ Start(flash_addr') /\ flash_addr' > 0
    BY <1>0, <1>1 DEF FirmwareTypeOK
  <2> QED BY <1>0, <1>1, <1>3, <1>4, <1>5, <2>1, BlockTyped
<1>7. app' \in {app, "lockout", "read"} /\ pc' \in {pc, "lockout", "read"}
      /\ (app' # app => t = "app")
  BY <1>1 DEF Goes, Tasks
<1>8. CoreOneStill'
  BY <1>0, <1>1, <1>7, StillFrame DEF Held
<1>9. ListTracked'
  <2>1. SUFFICES ASSUME troubles' = {}
                 PROVE  /\ \A r1, r2 \in recs : r1.at = r2.at => r1 = r2
                        /\ app' \in {"lockout", "erase", "program"} =>
                             [at |-> addr, of |-> "program"] \in recs
    BY <1>1, <1>5 DEF ListTracked
  <2>2. \A r \in flash_list.recs : r.at # Target(t)
    BY <1>2, <1>4, <2>1 DEF Recorded
  <2>3. \A r1, r2 \in recs : r1.at = r2.at => r1 = r2
    BY <1>0, <1>5, <2>1, <2>2 DEF ListTracked
  <2>4. CASE t = "app"
    <3>1. new = [at |-> addr, of |-> "program"]
      BY <2>4 DEF Target, Kind
    <3> QED BY <2>3, <3>1
  <2>5. CASE t # "app"
    <3>1. app' = app /\ (app \in {"lockout", "erase", "program"} => [at |-> addr, of |-> "program"] \in flash_list.recs)
      BY <1>0, <1>5, <1>7, <2>1, <2>5 DEF ListTracked
    <3> QED BY <2>3, <3>1
  <2> QED BY <2>4, <2>5
<1> QED BY <1>1, <1>2, <1>5, <1>6, <1>8, <1>9 DEF BlockFrame, Kept

LEMMA RecordFacts ==
    ASSUME LInv, NEW t \in Tasks, record(t)
    PROVE  BlockFrame
<1>0. FirmwareTypeOK /\ CoreOneStill /\ ListTracked
  BY DEF LInv, FirmwareInv, WholeInv
<1>1. /\ At(t) = "record" /\ Running /\ flash_addr' = Target(t) + PagesPerSector
      /\ UNCHANGED <<flash, marker, LoadVars, flash_list, sections, addr, loaded, linked, troubles, core1, locked>>
      /\ Goes(t, "push")
  BY DEF record, Scheduled, CoreVars, Ghosts
<1>2. Moves(t) /\ At(t) \in Writing
  BY <1>1 DEF Moves, Loading, Writing, Pending
<1>3. flash_addr' \in Nat /\ Start(flash_addr') /\ flash_addr' > 0
  BY <1>0, <1>1, <1>2, TargetFacts
<1>4. FirmwareTypeOK'
  <2>1. flash' \in [Pages -> Content] /\ flash_list' \in [mem : {"none", "live", "torn"}, recs : SUBSET Rec]
        /\ troubles' \subseteq Troubles
    BY <1>0, <1>1 DEF FirmwareTypeOK
  <2> QED BY <1>0, <1>1, <1>2, <1>3, <2>1, BlockTyped
<1>5. (app' = app \/ (app' = "push" /\ app = "record")) /\ pc' \in {pc, "push"}
  BY <1>1 DEF Goes, At, Tasks
<1>6. CoreOneStill'
  BY <1>0, <1>1, <1>5, StillFrame DEF Held
<1>7. ListTracked'
  BY <1>0, <1>1, <1>5, TrackedFrame DEF Writing, Pending
<1> QED BY <1>1, <1>4, <1>6, <1>7 DEF BlockFrame, Kept

LEMMA LockFacts ==
    ASSUME LInv, NEW t \in Tasks, lockout_start(t) \/ lockout_end(t)
    PROVE  BlockFrame
<1>0. FirmwareTypeOK /\ CoreOneStill /\ ListTracked
  BY DEF LInv, FirmwareInv, WholeInv
<1>1. /\ Running
      /\ UNCHANGED <<flash, marker, LoadVars, flash_list, flash_addr, sections, addr, loaded, linked, troubles, core1>>
      /\ \/ At(t) = "lockout" /\ locked' = TRUE /\ (IF locked THEN Faults ELSE Goes(t, "erase"))
         \/ At(t) = "unlock" /\ locked' = FALSE /\ Goes(t, "read")
  BY DEF lockout_start, lockout_end, Scheduled, ListVars, Ghosts
<1>2. Moves(t) /\ At(t) \in Writing
  BY <1>1 DEF Moves, Loading, Writing, Pending
<1>3. FirmwareTypeOK'
  <2>1. flash' \in [Pages -> Content] /\ flash_list' \in [mem : {"none", "live", "torn"}, recs : SUBSET Rec]
        /\ troubles' \subseteq Troubles /\ flash_addr' \in Nat /\ Start(flash_addr') /\ flash_addr' > 0
    BY <1>0, <1>1 DEF FirmwareTypeOK
  <2> QED BY <1>0, <1>1, <1>2, <2>1, BlockTyped
<1>4. CASE At(t) = "lockout" /\ locked
  <2>1. locked' = TRUE /\ app' = app /\ pc' = "fault"
    BY <1>1, <1>4 DEF Faults
  <2>2. CoreOneStill'
    BY <2>1 DEF CoreOneStill, Tasks, At, Held
  <2>3. ListTracked'
    BY <1>0, <1>1, <2>1, TrackedFrame
  <2> QED BY <1>1, <1>3, <2>2, <2>3 DEF BlockFrame, Kept
<1>5. CASE At(t) = "lockout" /\ ~locked
  <2>1. locked' = TRUE /\ Goes(t, "erase") /\ pc \notin Held /\ app \notin Held
    BY <1>0, <1>1, <1>5 DEF CoreOneStill, Tasks, At
  <2>2. (pc' = pc /\ app = "lockout" /\ app' = "erase") \/ (app' = app /\ pc' = "erase")
    BY <1>5, <2>1 DEF Goes, Tasks, At
  <2>3. CoreOneStill'
    BY <2>1, <2>2 DEF CoreOneStill, Tasks, At
  <2>4. ListTracked'
    BY <1>0, <1>1, <2>2, TrackedFrame DEF Writing, Pending
  <2> QED BY <1>1, <1>3, <2>3, <2>4 DEF BlockFrame, Kept
<1>6. CASE At(t) = "unlock"
  <2>1. Goes(t, "read")
    BY <1>1, <1>6
  <2>2. (pc' = pc /\ app = "unlock" /\ app' = "read" /\ pc \notin Held) \/ (app' = app /\ pc' = "read" /\ app \notin Held)
    BY <1>0, <1>6, <2>1 DEF Goes, Tasks, At, CoreOneStill, Held
  <2>3. CoreOneStill'
    BY <2>2 DEF CoreOneStill, Tasks, At, Held
  <2>4. ListTracked'
    BY <1>0, <1>1, <2>2, TrackedFrame DEF Writing, Pending
  <2> QED BY <1>1, <1>3, <2>3, <2>4 DEF BlockFrame, Kept
<1> QED BY <1>1, <1>4, <1>5, <1>6

-----------------------------------------------------------------------------
(* The other task: the sector it writes is recorded as its own, and by no   *)
(* one else, so that it is none of the firmware's.                          *)
LEMMA NotMine ==
    ASSUME FirmwareTypeOK, ListTracked, troubles = {}, app \in {"erase", "program"}, NEW q \in Pages, Kept(q)
    PROVE  q \notin Sector(addr)
<1>1. SUFFICES ASSUME q \in Sector(addr) PROVE FALSE
  OBVIOUS
<1>2. PICK r \in flash_list.recs : r.of = "firmware" /\ q \in Sector(r.at)
  BY DEF Kept
<1>3. r.at \in Nat /\ Start(r.at) /\ addr \in Nat /\ Start(addr)
  BY DEF FirmwareTypeOK, Rec, Pages, AppSectors, Loading, Writing, Pending
<1>4. r.at = addr
  BY <1>1, <1>2, <1>3, OneSector
<1>5. r = [at |-> addr, of |-> "program"]
  BY <1>2, <1>4 DEF ListTracked
<1> QED BY <1>2, <1>5

LEMMA AppBlockKeeps ==
    ASSUME LInv, FlashBlock("app")
    PROVE  LInv'
<1> USE FirmwareAssumption
<1>0. FirmwareTypeOK /\ CoreOneStill /\ ListTracked /\ "app" \in Tasks /\ At("app") = app
  BY DEF LInv, FirmwareInv, WholeInv, Tasks, At
<1>1. CASE flash_block("app") \/ record("app") \/ list_push_back("app") \/ lockout_start("app") \/ lockout_end("app")
  <2>1. BlockFrame
    BY <1>0, <1>1, SearchFacts, RecordFacts, PushFacts, LockFacts
  <2>2. Scheduled("app") /\ (pc' = pc \/ pc' = "fault")
    BY <1>1 DEF flash_block, Accept, Reject, record, list_push_back, lockout_start, lockout_end, Goes, Faults
  <2>3. pc # "program"
    BY <2>2 DEF Scheduled, At, Other
  <2>4. AppFrame
    BY <2>1, <2>2, <2>3 DEF AppFrame, BlockFrame, KeptStay
  <2> QED BY <2>4, AppKeeps
<1>2. ASSUME /\ app \in {"erase", "program"} /\ app' \in {"program", "unlock"} /\ Running
             /\ UNCHANGED <<pc, marker, LoadVars, flash_list, flash_addr, sections, addr, loaded, linked, troubles>>
             /\ UNCHANGED <<core1, locked>>
             /\ flash' \in [Pages -> Content]
             /\ \A q \in Pages : q \notin Sector(addr) => flash'[q] = flash[q]
      PROVE  LInv'
  <2>1. 0 \in Pages /\ 0 \notin Sector(addr)
    <3>1. addr \in AppSectors
      BY <1>0, <1>2 DEF FirmwareTypeOK, Loading, Writing, Pending
    <3> QED BY <3>1 DEF AppSectors, Sector, Pages
  <2>2. KeptStay
    <3>1. SUFFICES ASSUME troubles = {}, NEW q \in Pages, Kept(q) PROVE flash'[q] = flash[q] /\ Kept(q)'
      BY <1>2 DEF KeptStay
    <3>2. q \notin Sector(addr)
      BY <1>0, <1>2, <3>1, NotMine
    <3> QED BY <1>2, <3>1, <3>2 DEF Kept
  <2>3. FirmwareTypeOK'
    BY <1>0, <1>2 DEF FirmwareTypeOK, LoadVars, Loading, Writing, Pending
  <2>4. CoreOneStill'
    BY <1>0, <1>2, StillFrame DEF Held
  <2>5. ListTracked'
    BY <1>0, <1>2, TrackedFrame DEF Writing, Pending
  <2>6. AppFrame
    BY <1>2, <2>1, <2>2, <2>3, <2>4, <2>5 DEF AppFrame
  <2> QED BY <2>6, AppKeeps
<1>3. Target("app") = addr /\ \A k : Data("app", k) = Prog
  BY DEF Target, Data
<1>4. CASE flash_range_erase("app")
  <2>1. flash' = [q \in Pages |-> IF q \in Sector(addr) THEN Blank ELSE flash[q]] /\ app = "erase" /\ app' = "program"
        /\ pc' = pc /\ Running
    BY <1>0, <1>3, <1>4 DEF flash_range_erase, Goes, Scheduled
  <2>2. flash' \in [Pages -> Content]
    BY <1>0, <2>1 DEF FirmwareTypeOK, Content
  <2> QED BY <1>2, <1>4, <2>1, <2>2 DEF flash_range_erase, ListVars, CoreVars, Ghosts
<1>5. CASE flash_range_program("app")
  <2>1. /\ app = "program" /\ Running /\ pc' = pc /\ app' \in {"program", "unlock"}
        /\ UNCHANGED flash \/ \E q \in Sector(addr) : flash' = [flash EXCEPT ![q] = Prog]
    BY <1>0, <1>3, <1>5 DEF flash_range_program, Goes, Scheduled, Unwritten
  <2>2. flash \in [Pages -> Content] /\ Prog \in Content
    BY <1>0 DEF FirmwareTypeOK, Content
  <2>3. flash' \in [Pages -> Content] /\ \A q \in Pages : q \notin Sector(addr) => flash'[q] = flash[q]
    BY <2>1, <2>2
  <2> QED BY <1>2, <1>5, <2>1, <2>3 DEF flash_range_program, ListVars, CoreVars, Ghosts
<1> QED BY <1>1, <1>4, <1>5 DEF FlashBlock

LEMMA PlacesKeep ==
    ASSUME LInv, load_sec2mem \/ load_app \/ cleanup_bootb_ctx
    PROVE  LInv'
<1> USE FirmwareAssumption
<1>0. FirmwareTypeOK /\ CoreOneStill /\ ListTracked
  BY DEF LInv, FirmwareInv, WholeInv
<1>1. /\ Running /\ UNCHANGED <<flash, marker, pc, LoadVars, flash_list, linked, troubles, core1, locked>>
      /\ app' \in {"place", "list", "idle", "clean"}
  BY DEF load_sec2mem, load_app, cleanup_bootb_ctx, Scheduled, ListVars, CoreVars, Ghosts
<1>2. /\ sections' \subseteq AppSectors /\ loaded' \subseteq SUBSET AppSectors
      /\ app' = "list" => addr' \in AppSectors
      /\ flash_addr' \in Nat /\ Start(flash_addr') /\ flash_addr' > 0
  <2>0. /\ flash_addr \in Nat /\ Start(flash_addr) /\ flash_addr > 0
        /\ sections \subseteq AppSectors /\ loaded \subseteq SUBSET AppSectors
        /\ app = "read" => addr \in AppSectors
    BY <1>0 DEF FirmwareTypeOK, Loading
  <2>1. CASE load_sec2mem
    <3>1. flash_addr < NPages /\ sections' = sections \cup {flash_addr} /\ flash_addr' = flash_addr + PagesPerSector
          /\ app' = "place" /\ loaded' = loaded
      BY <2>1 DEF load_sec2mem
    <3>2. flash_addr \in AppSectors
      BY <2>0, <3>1 DEF AppSectors, Pages
    <3>3. flash_addr + PagesPerSector \in Nat /\ Start(flash_addr + PagesPerSector) /\ flash_addr + PagesPerSector > 0
      BY <2>0, NextStarts
    <3> QED BY <2>0, <3>1, <3>2, <3>3
  <2>2. CASE load_app
    <3>1. flash_addr' = flash_addr /\ (sections' = sections \/ sections' = {})
          /\ (loaded' = loaded \/ loaded' = loaded \cup {sections})
      BY <2>2 DEF load_app, ListVars
    <3>2. app' = "list" => addr' \in AppSectors
      <4>1. SUFFICES ASSUME NextAddr PROVE addr' \in AppSectors
        BY <2>2 DEF load_app
      <4>2. CASE app = "place" /\ addr' \in {p \in sections : \A q \in sections : p <= q}
        BY <2>0, <4>2
      <4>3. CASE app = "read" /\ addr' = addr + PagesPerSector /\ \E q \in sections : addr' <= q
        <5>1. addr \in Nat /\ Start(addr) /\ addr > 0
          BY <2>0, <4>3 DEF AppSectors, Pages
        <5>2. addr' \in Nat /\ Start(addr + PagesPerSector) /\ addr' > 0
          BY <4>3, <5>1, NextStarts
        <5>3. PICK q \in Pages : addr' <= q
          BY <2>0, <4>3 DEF AppSectors
        <5>4. addr' \in Pages
          BY <5>2, <5>3 DEF Pages
        <5> QED BY <4>3, <5>2, <5>4 DEF AppSectors
      <4> QED BY <4>1, <4>2, <4>3 DEF NextAddr
    <3> QED BY <2>0, <3>1, <3>2
  <2>3. CASE cleanup_bootb_ctx
    <3>1. PICK s \in loaded : loaded' = loaded \ {s} /\ (sections' = sections \/ sections' = s)
                              /\ (flash_addr' = flash_addr \/ flash_addr' = PagesPerSector)
      BY <2>3 DEF cleanup_bootb_ctx
    <3>2. app' # "list"
      BY <2>3 DEF cleanup_bootb_ctx
    <3> QED BY <2>0, <3>1, <3>2, FirstStart
  <2> QED BY <2>1, <2>2, <2>3
<1>3. FirmwareTypeOK'
  <2>1. app' \in Loading \cup {"idle", "place", "clean"} /\ (app' \in Loading => app' = "list")
    BY <1>1 DEF Loading, Writing, Pending
  <2> QED BY <1>0, <1>1, <1>2, <2>1 DEF FirmwareTypeOK, LoadVars
<1>4. CoreOneStill'
  BY <1>0, <1>1, StillFrame DEF Held
<1>5. ListTracked'
  BY <1>0, <1>1 DEF ListTracked, Writing, Pending
<1>6. AppFrame
  BY <1>1, <1>3, <1>4, <1>5 DEF AppFrame, KeptStay, Kept
<1> QED BY <1>6, AppKeeps

(* A clean-up that met no trouble took no record of the firmware's. *)
LEMMA EndFacts ==
    ASSUME NEW recs \in SUBSET Rec, NEW e, e \in AnyEnd \/ e \in FlashEnd(recs)
    PROVE  e \in Nat /\ Start(e) /\ e > 0
<1> USE FirmwareAssumption
<1>1. \A p \in Pages : Start(p) => p + PagesPerSector \in Nat /\ Start(p + PagesPerSector) /\ p + PagesPerSector > 0
  BY NextStarts DEF Pages
<1>2. CASE e \in AnyEnd
  BY <1>1, <1>2 DEF AnyEnd
<1>3. CASE e \in FlashEnd(recs)
  <2>1. e = PagesPerSector \/ \E r \in recs : e = r.at + PagesPerSector
    BY <1>3 DEF FlashEnd, Ends
  <2>2. \A r \in recs : r.at \in Pages /\ Start(r.at)
    BY DEF Rec
  <2> QED BY <1>1, <2>1, <2>2, FirstStart
<1> QED BY <1>2, <1>3

LEMMA CleanKeeps ==
    ASSUME LInv, list_erase_node
    PROVE  LInv'
<1> USE FirmwareAssumption
<1> DEFINE recs == flash_list.recs \ Gone
<1>0. FirmwareTypeOK /\ CoreOneStill /\ ListTracked /\ "app" \in Tasks
  BY DEF LInv, FirmwareInv, WholeInv, Tasks
<1>1. /\ Running /\ pc # "program" /\ app = "clean"
      /\ UNCHANGED <<flash, marker, LoadVars, addr, loaded, linked, core1, locked>>
      /\ sections' = {} /\ flash_list' = List("app", recs)
      /\ \/ app' = "idle" /\ UNCHANGED pc /\ (flash_addr' \in AnyEnd \/ flash_addr' \in FlashEnd(recs))
         \/ pc' = "fault" /\ UNCHANGED <<app, flash_addr>>
  BY DEF list_erase_node, Scheduled, CoreVars, Faults, At, Other
<1>2. /\ troubles \cup RaceNoted("app") \subseteq troubles'
      /\ troubles' \subseteq troubles \cup RaceNoted("app") \cup {"unrecorded"}
      /\ troubles' = {} => \A r \in Gone : r.of # "firmware"
  BY DEF list_erase_node
<1>3. recs \in SUBSET Rec /\ troubles \subseteq Troubles /\ "unrecorded" \in Troubles
  BY <1>0 DEF FirmwareTypeOK, Troubles
<1>4. /\ flash_list' \in [mem : {"none", "live", "torn"}, recs : SUBSET Rec] /\ flash_list'.mem # "none"
      /\ flash_list'.mem = "torn" => troubles' # {}
      /\ troubles' = {} => troubles = {} /\ flash_list'.recs = recs
      /\ troubles' \subseteq Troubles
  <2> HIDE DEF recs
  <2> QED BY <1>0, <1>1, <1>2, <1>3, ListFacts
<1>5. flash_addr' \in Nat /\ Start(flash_addr') /\ flash_addr' > 0
  <2>1. CASE flash_addr' = flash_addr
    BY <1>0, <2>1 DEF FirmwareTypeOK
  <2>2. CASE flash_addr' \in AnyEnd \/ flash_addr' \in FlashEnd(recs)
    <3> HIDE DEF recs
    <3>1. PICK e : e = flash_addr'
      OBVIOUS
    <3>2. e \in AnyEnd \/ e \in FlashEnd(recs)
      BY <2>2, <3>1
    <3>3. e \in Nat /\ Start(e) /\ e > 0
      BY <1>3, <3>2, EndFacts
    <3> QED BY <3>1, <3>3 DEF Start
  <2> QED BY <1>1, <2>1, <2>2
<1>6. FirmwareTypeOK'
  <2>1. app' \in {"idle", "clean"} /\ (pc' = pc \/ pc' = "fault")
    BY <1>1
  <2> QED BY <1>0, <1>1, <1>4, <1>5, <2>1 DEF FirmwareTypeOK, LoadVars, Loading, Writing, Pending, Preemptive
<1>7. CoreOneStill'
  BY <1>0, <1>1, StillFrame DEF Held
<1>8. ListTracked'
  BY <1>0, <1>1, <1>4 DEF ListTracked
<1>9. KeptStay
  <2>1. SUFFICES ASSUME troubles' = {}, NEW q \in Pages, Kept(q) PROVE Kept(q)'
    BY <1>1 DEF KeptStay
  <2>2. flash_list'.recs = recs /\ \A r \in Gone : r.of # "firmware"
    BY <1>2, <1>4, <2>1
  <2> QED BY <2>1, <2>2 DEF Kept
<1>10. AppFrame
  BY <1>0, <1>1, <1>2, <1>6, <1>7, <1>8, <1>9 DEF AppFrame
<1> QED BY <1>10, AppKeeps

-----------------------------------------------------------------------------
(* The loader in flash_block.  A sector leaves it in the flash, recorded.   *)
LoaderFrame ==
    /\ BlockFrame
    /\ pc \in Writing \ {"program"} /\ pc' \in (Writing \ {"program"}) \cup {"read", "fault"}
    /\ pc' \in Pending => pc \in Pending
    /\ troubles' = {} /\ pc \in Pending /\ pc' \notin Pending \cup {"fault"} => Same("loader") /\ Kept(block)'
    /\ troubles' = {} /\ pc' \in Writing \ {"list", "record", "push"} => Kept(block)'
LEMMA LoaderKeeps ==
    ASSUME LInv, LoaderFrame
    PROVE  LInv'
<1> USE FirmwareAssumption DEF LoaderFrame, BlockFrame, LoadVars
<1>0. FirmwareTypeOK /\ FirmwareInv /\ WholeInv
  BY DEF LInv, FirmwareInv
<1>1. block \in Nat /\ block \in Pages /\ Start(block) /\ file \in Files /\ pos \in 1..(Len(file) + 1)
  BY <1>0 DEF FirmwareTypeOK, Loading, Pages
<1>2. FirmwareInv'
  <2>1. BootloaderKept'
    BY <1>0 DEF FirmwareInv, BootloaderKept, Writing, Pending
  <2>2. UpMeansUnmarked'
    BY <1>0 DEF FirmwareInv, UpMeansUnmarked, Preemptive, Writing, Pending
  <2>3. pc' \in Writing /\ block' = 0 => buffer'[1] = Boot2
    BY <1>0 DEF FirmwareInv
  <2> QED BY <2>1, <2>2, <2>3 DEF FirmwareInv
<1>3. FramedBlocks'
  BY <1>0 DEF WholeInv, FramedBlocks, InStep, Start, Loading, Writing, Pending
<1>4. AllStored'
  <2>1. SUFFICES ASSUME troubles' = {}, pc' \in Loading, NEW k \in 1..(pos - 1) PROVE Stored(k)'
    BY DEF AllStored
  <2>2. troubles = {} /\ Stored(k) /\ pc' # "fault"
    BY <1>0, <2>1 DEF WholeInv, AllStored, Loading, Writing, Pending
  <2>3. file[k] \in Pages /\ file[k] \in Int
    <3>1. k \in 1..Len(file) /\ file[k] # E10
      BY <1>0, <1>1, FileFacts DEF WholeInv, FramedBlocks, Loading
    <3> QED BY <1>1, <3>1, FileFacts DEF Pages
  <2>4. CASE pc \in Pending /\ file[k] \in Sector(block) /\ pc' \in Pending
    BY <2>2, <2>4 DEF Stored, Image
  <2>5. CASE pc \in Pending /\ file[k] \in Sector(block) /\ pc' \notin Pending
    <3>1. Same("loader") /\ Kept(block)'
      BY <2>1, <2>2, <2>5
    <3>2. PICK r \in flash_list'.recs : r.of = "firmware" /\ block \in Sector(r.at)
      BY <3>1 DEF Kept
    <3>3. r.at \in Nat /\ Start(r.at)
      BY DEF FirmwareTypeOK, Rec, Pages
    <3>4. block \in Sector(block)
      BY <1>1 DEF Sector
    <3>5. r.at = block
      BY <1>1, <3>2, <3>3, <3>4, OneSector
    <3>6. file[k] - block + 1 \in 1..PagesPerSector /\ block + (file[k] - block + 1) - 1 = file[k]
      BY <1>1, <2>3, <2>5 DEF Sector
    <3>7. flash[file[k]] = buffer[file[k] - block + 1]
      BY <3>1, <3>6 DEF Same, Target, Data
    <3>8. buffer[file[k] - block + 1] = Image(file, file[k])
      BY <2>2, <2>5 DEF Stored
    <3>9. flash'[file'[k]] = Image(file', file'[k])
      BY <3>7, <3>8
    <3>10. Kept(file[k])'
      BY <2>5, <3>2, <3>5 DEF Kept
    <3> QED BY <2>5, <3>9, <3>10 DEF Stored, Image
  <2>6. CASE ~(pc \in Pending /\ file[k] \in Sector(block))
    <3>1. flash[file[k]] = Image(file, file[k]) /\ Kept(file[k])
      BY <2>2, <2>6 DEF Stored
    <3>2. Kept(file[k])'
      <4>1. \E r \in flash_list'.recs : r.of = "firmware" /\ file[k] \in Sector(r.at)
        BY <2>1, <2>3, <3>1 DEF Kept
      <4> QED BY <4>1 DEF Kept
    <3> QED BY <2>6, <3>1, <3>2 DEF Stored, Image
  <2> QED BY <2>4, <2>5, <2>6
<1>5. BlockKept'
  BY DEF BlockKept
<1>6. WholeLoaded'
  BY DEF WholeLoaded, Writing, Pending
<1>7. WholeMarked'
  <2>1. SUFFICES ASSUME marker = "loader", troubles = {} PROVE FALSE
    BY DEF WholeMarked
  <2> QED BY <1>0, <2>1 DEF WholeInv, WholeMarked, Running, Writing, Pending
<1> QED BY <1>2, <1>3, <1>4, <1>5, <1>6, <1>7 DEF LInv, WholeInv

LEMMA LoaderBlockKeeps ==
    ASSUME LInv, flash_block("loader") \/ record("loader") \/ list_push_back("loader") \/ lockout_start("loader")
                 \/ lockout_end("loader")
    PROVE  LInv'
<1>0. FirmwareTypeOK /\ BlockKept /\ ListTracked /\ "loader" \in Tasks
  BY DEF LInv, FirmwareInv, WholeInv, Tasks
<1>1. BlockFrame
  BY <1>0, SearchFacts, RecordFacts, PushFacts, LockFacts
<1>2. At("loader") = pc /\ Target("loader") = block /\ Kind("loader") = "firmware"
  BY DEF At, Target, Kind
<1>3. CASE flash_block("loader")
  <2>1. pc = "list" /\ pc' \in {"record", "read", "fault"} /\ (pc' = "read" => "rejected" \in troubles')
    BY <1>2, <1>3 DEF flash_block, Accept, Reject, Goes, Faults
  <2>2. LoaderFrame
    BY <1>1, <2>1 DEF LoaderFrame, Writing, Pending
  <2> QED BY <2>2, LoaderKeeps
<1>4. CASE record("loader")
  <2>1. pc = "record" /\ pc' = "push"
    BY <1>2, <1>4 DEF record, Goes
  <2>2. LoaderFrame
    BY <1>1, <2>1 DEF LoaderFrame, Writing, Pending
  <2> QED BY <2>2, LoaderKeeps
<1>5. CASE list_push_back("loader")
  <2>1. pc = "push" /\ pc' = (IF Same("loader") THEN "read" ELSE "lockout") /\ block' = block
        /\ flash_list' = List("loader", flash_list.recs \cup {[at |-> block, of |-> "firmware"]})
        /\ troubles \cup RaceNoted("loader") \subseteq troubles'
    BY <1>2, <1>5 DEF list_push_back, Goes, LoadVars
  <2>2. [at |-> block, of |-> "firmware"] \in Rec /\ block \in Sector(block)
    BY <1>0, <1>2, <2>1, TargetFacts DEF Writing, Pending
  <2>3. troubles' = {} => Kept(block)'
    <3> DEFINE recs == flash_list.recs \cup {[at |-> block, of |-> "firmware"]}
    <3>1. SUFFICES ASSUME troubles' = {} PROVE Kept(block)'
      OBVIOUS
    <3>2. recs \in SUBSET Rec /\ [at |-> block, of |-> "firmware"] \in recs
      BY <1>0, <2>2 DEF FirmwareTypeOK
    <3>3. flash_list' = List("loader", recs)
      BY <2>1
    <3>4. flash_list'.recs = recs
      <4> HIDE DEF recs
      <4> QED BY <1>0, <2>1, <3>1, <3>2, <3>3, ListFacts
    <3>5. \E r \in flash_list'.recs : r.of = "firmware" /\ block \in Sector(r.at)
      BY <2>2, <3>2, <3>4
    <3> QED BY <2>1, <3>5 DEF Kept
  <2>4. LoaderFrame
    BY <1>1, <2>1, <2>3 DEF LoaderFrame, Writing, Pending
  <2> QED BY <2>4, LoaderKeeps
<1>6. CASE lockout_start("loader")
  <2>1. pc = "lockout" /\ pc' \in {"erase", "fault"} /\ block' = block
    BY <1>2, <1>6 DEF lockout_start, Goes, Faults, LoadVars
  <2>2. block \in Pages
    BY <1>0, <2>1 DEF FirmwareTypeOK, Writing, Pending
  <2>3. troubles' = {} => Kept(block)'
    <3>1. SUFFICES ASSUME troubles' = {} PROVE Kept(block)'
      OBVIOUS
    <3>2. Kept(block)
      BY <1>0, <1>1, <2>1, <3>1 DEF BlockKept, BlockFrame, Writing, Pending
    <3>3. \E r \in flash_list'.recs : r.of = "firmware" /\ block \in Sector(r.at)
      BY <1>1, <2>2, <3>1, <3>2 DEF BlockFrame, Kept
    <3> QED BY <2>1, <3>3 DEF Kept
  <2>4. LoaderFrame
    BY <1>1, <2>1, <2>3 DEF LoaderFrame, Writing, Pending
  <2> QED BY <2>4, LoaderKeeps
<1>7. CASE lockout_end("loader")
  <2>1. pc = "unlock" /\ pc' = "read"
    BY <1>2, <1>7 DEF lockout_end, Goes
  <2>2. LoaderFrame
    BY <1>1, <2>1 DEF LoaderFrame, Writing, Pending
  <2> QED BY <2>2, LoaderKeeps
<1> QED BY <1>3, <1>4, <1>5, <1>6, <1>7

(* No firmware is marked while another is loaded, unless M-OS was started   *)
(* over it.                                                                 *)
LEMMA NotMarked ==
    ASSUME LInv, Running, pc # "reboot", troubles = {}
    PROVE  marker # "loader"
BY DEF LInv, WholeInv, WholeMarked, Running, Preemptive, Writing, Pending

(* Erasing the sector of the block: the others are as they were. *)
LEMMA EraseKeeps ==
    ASSUME LInv, flash_range_erase("loader")
    PROVE  LInv'
<1> USE FirmwareAssumption DEF LoadVars, ListVars
<1>0. FirmwareTypeOK /\ FirmwareInv /\ WholeInv /\ CoreOneStill /\ ListTracked
  BY DEF LInv, FirmwareInv, WholeInv
<1>1. /\ pc = "erase" /\ pc' = "program" /\ app' = app /\ Running
      /\ UNCHANGED <<marker, LoadVars, ListVars, sections, addr, loaded, core1, locked, linked, troubles>>
      /\ flash' = [q \in Pages |-> IF q \in Sector(block) THEN Blank ELSE flash[q]]
      /\ flash' \in [Pages -> Content]
  BY <1>0 DEF flash_range_erase, FirmwareTypeOK, Content, Ghosts, CoreVars, At, Goes, Target, Scheduled
<1>2. block \in Pages /\ Start(block) /\ file \in Files /\ pos \in 1..(Len(file) + 1)
  BY <1>0, <1>1 DEF FirmwareTypeOK, Loading, Writing, Pending
<1>3. FirmwareTypeOK'
  BY <1>0, <1>1 DEF FirmwareTypeOK, Start, Loading, Writing, Pending, Preemptive
<1>4. FirmwareInv'
  <2>1. flash'[0] # Boot2 => block = 0
    <3>1. 0 \in Pages
      BY DEF Pages
    <3>2. block # 0 => 0 \notin Sector(block)
      BY <1>2 DEF Sector, Pages
    <3> QED BY <1>0, <1>1, <3>1, <3>2 DEF FirmwareInv, BootloaderKept
  <2>2. CoreOneStill'
    BY <1>0, <1>1, StillFrame DEF Held
  <2> QED BY <1>0, <1>1, <1>3, <2>1, <2>2
          DEF FirmwareInv, BootloaderKept, UpMeansUnmarked, Writing, Pending, Preemptive
<1>5. FramedBlocks' /\ BlockKept'
  BY <1>0, <1>1 DEF WholeInv, FramedBlocks, BlockKept, Kept, InStep, Start, Loading, Writing, Pending
<1>6. AllStored'
  <2>1. SUFFICES ASSUME troubles = {} PROVE (\A k \in 1..(pos - 1) : Stored(k))'
    BY <1>1 DEF AllStored
  <2>2. ASSUME NEW k \in 1..(pos - 1) PROVE Stored(k)'
    <3>1. Stored(k)
      BY <1>0, <1>1, <2>1 DEF WholeInv, AllStored, Loading, Writing, Pending
    <3>2. file[k] \in Pages
      BY <1>0, <1>1, <1>2, FileFacts DEF WholeInv, FramedBlocks, Loading, Writing, Pending
    <3> QED BY <1>1, <3>1, <3>2 DEF Stored, Image, Kept, Pending
  <2> QED BY <1>1, <2>2
<1>7. WholeLoaded' /\ WholeMarked'
  BY <1>1, NotMarked DEF WholeLoaded, WholeMarked
<1>8. ListTracked'
  BY <1>0, <1>1, TrackedSame
<1> QED BY <1>4, <1>5, <1>6, <1>7, <1>8 DEF LInv, WholeInv

(* Programming it: a page of it, or the end, when it is as the buffer is.   *)
LEMMA ProgramKeeps ==
    ASSUME LInv, flash_range_program("loader")
    PROVE  LInv'
<1> USE FirmwareAssumption DEF LoadVars, ListVars
<1>0. FirmwareTypeOK /\ FirmwareInv /\ WholeInv /\ CoreOneStill /\ ListTracked
  BY DEF LInv, FirmwareInv, WholeInv
<1> DEFINE unwritten == {q \in Sector(block) : flash[q] # buffer[q - block + 1]}
<1>1. /\ pc = "program" /\ app' = app /\ Running
      /\ UNCHANGED <<marker, LoadVars, ListVars, sections, addr, loaded, core1, locked, linked, troubles>>
      /\ \/ unwritten = {} /\ pc' = "unlock" /\ UNCHANGED flash
         \/ \E q \in unwritten : /\ flash' = [flash EXCEPT ![q] = buffer[q - block + 1]]
                                /\ UNCHANGED pc
  BY DEF flash_range_program, Unwritten, Ghosts, CoreVars, At, Goes, Target, Data, Scheduled
<1>2. block \in Nat /\ block \in Pages /\ Start(block) /\ file \in Files
      /\ pos \in 1..(Len(file) + 1) /\ buffer \in [1..PagesPerSector -> Content]
  BY <1>0, <1>1 DEF FirmwareTypeOK, Loading, Writing, Pending, Pages
<1>3. \A k \in 1..(pos - 1) : file[k] \in Pages
  BY <1>0, <1>1, <1>2, FileFacts DEF WholeInv, FramedBlocks, Loading, Writing, Pending
<1>4. troubles = {} => (\A k \in 1..(pos - 1) : Stored(k)) /\ Kept(block)
  BY <1>0, <1>1 DEF WholeInv, AllStored, BlockKept, Loading, Writing, Pending
<1>5. ListTracked' /\ CoreOneStill'
  <2>1. pc' \in Held => pc \in Held
    BY <1>1 DEF Held
  <2> QED BY <1>0, <1>1, <2>1, TrackedSame, StillFrame
<1>6. WholeLoaded' /\ WholeMarked'
  BY <1>1, NotMarked DEF WholeLoaded, WholeMarked
<1>7. CASE unwritten = {} /\ pc' = "unlock" /\ UNCHANGED flash
  <2>1. \A q \in Sector(block) : flash[q] = buffer[q - block + 1]
    BY <1>7
  <2>2. FirmwareTypeOK'
    BY <1>0, <1>1, <1>7 DEF FirmwareTypeOK, Start, Loading, Writing, Pending, Preemptive
  <2>3. flash[0] = Boot2
    <3>1. CASE block = 0
      <4>1. 0 \in Sector(block) /\ 0 - block + 1 = 1
        BY <3>1 DEF Sector
      <4>2. buffer[1] = Boot2
        BY <1>0, <1>1, <3>1 DEF FirmwareInv, Writing, Pending
      <4> QED BY <2>1, <4>1, <4>2
    <3>2. CASE block # 0
      BY <1>0, <1>1, <3>2 DEF FirmwareInv, BootloaderKept
    <3> QED BY <3>1, <3>2
  <2>4. FirmwareInv'
    BY <1>0, <1>1, <1>5, <1>7, <2>2, <2>3
       DEF FirmwareInv, BootloaderKept, UpMeansUnmarked, Writing, Pending, Preemptive
  <2>5. FramedBlocks' /\ BlockKept'
    BY <1>0, <1>1, <1>7 DEF WholeInv, FramedBlocks, BlockKept, Kept, InStep, Start, Loading, Writing, Pending
  <2>6. ASSUME troubles = {}, NEW k \in 1..(pos - 1)
        PROVE  flash[file[k]] = Image(file, file[k]) /\ Kept(file[k])
    <3>1. CASE file[k] \in Sector(block)
      <4>1. buffer[file[k] - block + 1] = Image(file, file[k])
        BY <1>1, <1>4, <2>6, <3>1 DEF Stored, Pending
      <4>2. PICK r \in flash_list.recs : r.of = "firmware" /\ block \in Sector(r.at)
        BY <1>4, <2>6 DEF Kept
      <4>3. r.at \in Nat /\ Start(r.at)
        BY <1>0 DEF FirmwareTypeOK, Rec, Pages
      <4>4. block \in Sector(block)
        BY <1>2 DEF Sector
      <4>5. r.at = block
        BY <1>2, <4>2, <4>3, <4>4, OneSector
      <4> QED BY <2>1, <3>1, <4>1, <4>2, <4>5 DEF Kept
    <3>2. CASE file[k] \notin Sector(block)
      BY <1>4, <2>6, <3>2 DEF Stored
    <3> QED BY <3>1, <3>2
  <2>7. AllStored'
    BY <1>1, <1>7, <2>6 DEF AllStored, Stored, Kept, Image, Pending
  <2> QED BY <1>5, <1>6, <2>4, <2>5, <2>7 DEF LInv, WholeInv
<1>8. CASE \E q \in unwritten : flash' = [flash EXCEPT ![q] = buffer[q - block + 1]] /\ UNCHANGED pc
  <2>1. PICK q \in Sector(block) : flash' = [flash EXCEPT ![q] = buffer[q - block + 1]] /\ UNCHANGED pc
    BY <1>8
  <2>2. q - block + 1 \in 1..PagesPerSector
    BY <1>2 DEF Sector
  <2>3. flash' \in [Pages -> Content]
    BY <1>0, <1>2, <2>1, <2>2 DEF FirmwareTypeOK
  <2>4. FirmwareTypeOK'
    BY <1>0, <1>1, <2>1, <2>3 DEF FirmwareTypeOK, Start, Loading, Writing, Pending, Preemptive
  <2>5. block # 0 => flash'[0] = flash[0]
    BY <1>2, <2>1 DEF Sector
  <2>6. FirmwareInv'
    BY <1>0, <1>1, <1>5, <2>1, <2>4, <2>5 DEF FirmwareInv, BootloaderKept, UpMeansUnmarked
  <2>7. FramedBlocks' /\ BlockKept'
    BY <1>0, <1>1, <2>1 DEF WholeInv, FramedBlocks, BlockKept, Kept, InStep, Start, Loading, Writing, Pending
  <2>8. AllStored'
    <3>1. SUFFICES ASSUME troubles = {} PROVE (\A k \in 1..(pos - 1) : Stored(k))'
      BY <1>1 DEF AllStored
    <3>2. ASSUME NEW k \in 1..(pos - 1) PROVE Stored(k)'
      BY <1>1, <1>3, <1>4, <2>1, <3>1 DEF Stored, Image, Kept, Pending
    <3> QED BY <1>1, <3>2
  <2> QED BY <1>5, <1>6, <2>6, <2>7, <2>8 DEF LInv, WholeInv
<1> QED BY <1>1, <1>7, <1>8

(* The beginning of the load. *)
LEMMA BeginKeeps ==
    ASSUME LInv, NEW f \in Files, load_firmware(f)
    PROVE  LInv'
<1> USE FirmwareAssumption
<1>0. FirmwareTypeOK /\ FirmwareInv /\ WholeInv /\ CoreOneStill /\ ListTracked
  BY DEF LInv, FirmwareInv, WholeInv
<1>1. /\ pc = "os" /\ Running /\ UNCHANGED <<flash, marker, flash_addr, AppVars, core1, locked, linked>>
      /\ flash_list' = [mem |-> IF flash_list.mem # "none" THEN "torn" ELSE "none", recs |-> {}]
      /\ troubles' = Unopened \cup (IF flash_list.mem # "none" THEN {"stale"} ELSE {})
  BY DEF load_firmware, CoreVars, Scheduled
<1>2. \/ pc' \in {"os", "fault"} /\ UNCHANGED LoadVars
      \/ pc' = "read" /\ Opened(f)
  BY DEF load_firmware, Opened
<1>3. f \in Files /\ Len(f) \in Nat
  BY FileFacts
<1>4. /\ file' \in Files \cup {NoFile} /\ (pc' \in Loading \cup {"close", "link", "sync"} => file' \in Files)
      /\ pos' \in 1..(Len(file') + 1) /\ offset' \in Nat /\ replaced' \in BOOLEAN
      /\ buffer' \in [1..PagesPerSector -> Content]
  <2>1. CASE pc' \in {"os", "fault"} /\ UNCHANGED LoadVars
    BY <1>0, <2>1 DEF FirmwareTypeOK, LoadVars, Loading, Writing, Pending
  <2>2. CASE pc' = "read" /\ Opened(f)
    <3>1. buffer' \in [1..PagesPerSector -> Content]
      BY <2>2 DEF Opened, Freed, NoBuffer, Content
    <3>2. file' = f /\ pos' = 1 /\ offset' = 0 /\ replaced' = FALSE
      BY <2>2 DEF Opened, Freed
    <3>3. 1 \in 1..(Len(f) + 1)
      BY <1>3
    <3>4. pos' \in 1..(Len(file') + 1)
      BY <3>2, <3>3
    <3> QED BY <1>3, <3>1, <3>2, <3>4
  <2> QED BY <1>2, <2>1, <2>2
<1>5. /\ flash_list' \in [mem : {"none", "live", "torn"}, recs : SUBSET Rec] /\ troubles' \subseteq Troubles
      /\ "unopened" \notin troubles' => marker = "none"
      /\ flash_list'.mem = "torn" => troubles' # {}
      /\ flash_list'.recs = {} /\ (flash_list'.mem = "none" => flash_list.mem = "none" /\ troubles' = Unopened)
  BY <1>1 DEF Troubles, Unopened
<1>6. FirmwareTypeOK'
  BY <1>0, <1>1, <1>2, <1>4, <1>5 DEF FirmwareTypeOK, Start, Writing, Pending, Preemptive, AppVars
<1>7. FirmwareInv'
  <2>1. CoreOneStill'
    <3>1. pc' \notin Held /\ app' = app /\ locked' = locked
      BY <1>1, <1>2 DEF Held, AppVars
    <3> QED BY <1>0, <3>1, StillFrame
  <2> QED BY <1>0, <1>1, <1>2, <1>5, <1>6, <2>1
          DEF FirmwareInv, BootloaderKept, UpMeansUnmarked, Writing, Pending, Preemptive
<1>8. FramedBlocks'
  <2>1. CASE pc' = "read" /\ Opened(f)
    <3>1. pos' = 1 /\ offset' = 0 /\ replaced' = FALSE
      BY <2>1 DEF Opened, Freed
    <3> QED BY <3>1 DEF FramedBlocks, InStep, Start
  <2> QED BY <1>2, <2>1 DEF FramedBlocks, Loading, Writing, Pending
<1>9. AllStored' /\ BlockKept' /\ WholeLoaded'
  <2>1. CASE pc' = "read" /\ Opened(f)
    <3>1. pos' = 1
      BY <2>1 DEF Opened, Freed
    <3> QED BY <2>1, <3>1 DEF AllStored, BlockKept, WholeLoaded, Writing, Pending
  <2> QED BY <1>2, <2>1 DEF AllStored, BlockKept, WholeLoaded, Loading, Writing, Pending
<1>10. WholeMarked'
  BY <1>1, <1>5 DEF WholeMarked
<1>11. ListTracked'
  <2>1. flash_list'.mem = "none" => app' \notin Writing \ {"list"}
    BY <1>0, <1>1, <1>5 DEF ListTracked, AppVars
  <2>2. troubles' = {} => app' \notin {"lockout", "erase", "program"}
    <3>1. troubles' = {} => flash_list.mem = "none"
      BY <1>1
    <3> QED BY <1>0, <1>1, <3>1 DEF ListTracked, AppVars, Writing, Pending
  <2> QED BY <1>5, <2>1, <2>2 DEF ListTracked
<1> QED BY <1>7, <1>8, <1>9, <1>10, <1>11 DEF LInv, WholeInv

(* Its end, and the marking. *)
LEMMA ControlKeeps ==
    ASSUME LInv, LoadEnds \/ f_open \/ f_close
    PROVE  LInv'
<1> USE FirmwareAssumption DEF ListVars, AppVars
<1>0. FirmwareTypeOK /\ FirmwareInv /\ WholeInv /\ CoreOneStill /\ ListTracked
  BY DEF LInv, FirmwareInv, WholeInv
<1>1. /\ UNCHANGED <<flash, ListVars, AppVars, troubles, core1, locked>> /\ Running
      /\ linked' \in Files \cup {NoFile} /\ marker' \in {"none", "user", "loader"}
      /\ pc = "close" => pc' = IF replaced THEN "link" ELSE "os"
      /\ pc = "link" => pc' \in {"sync", "reboot"}
      /\ pc = "sync" => pc' = "reboot"
      /\ pc \in {"close", "link", "sync"}
      /\ pc # "sync" => UNCHANGED <<marker, linked>>
      /\ UNCHANGED <<marker, linked>> \/ (pc = "sync" /\ marker' = "loader" /\ linked' = file)
      /\ file' = file \/ (file' = NoFile /\ pc' = "os")
      /\ UNCHANGED LoadVars \/ Freed
  BY <1>0 DEF LoadEnds, f_open, f_close, Requested, FirmwareTypeOK, Ghosts, CoreVars, Scheduled, LoadVars
<1>2. pc' \in {"link", "sync", "reboot", "os"}
  BY <1>1
<1>3. FirmwareTypeOK'
  <2>1. /\ pos' \in 1..(Len(file') + 1) /\ offset' \in Nat /\ replaced' \in BOOLEAN
        /\ buffer' \in [1..PagesPerSector -> Content]
    <3>1. CASE UNCHANGED LoadVars
      BY <1>0, <3>1 DEF FirmwareTypeOK, LoadVars
    <3>2. CASE Freed
      <4>1. /\ pos' = 1 /\ offset' = 0 /\ replaced' = FALSE
            /\ buffer' \in [1..PagesPerSector -> Content]
        BY <3>2 DEF Freed, NoBuffer, Content
      <4>2. Len(file') \in Nat
        <5>1. Len(NoFile) = 0
          BY DEF NoFile
        <5> QED BY <1>0, <1>1, <5>1, FileFacts DEF FirmwareTypeOK
      <4>3. 1 \in 1..(Len(file') + 1)
        BY <4>2
      <4> QED BY <4>1, <4>3
    <3> QED BY <1>1, <3>1, <3>2
  <2>2. file' \in Files \cup {NoFile} /\ (pc' \in {"link", "sync"} => file' \in Files)
    BY <1>0, <1>1, <1>2 DEF FirmwareTypeOK
  <2> QED BY <1>0, <1>1, <1>2, <2>1, <2>2 DEF FirmwareTypeOK, Start, Loading, Writing, Pending, Preemptive
<1>4. FirmwareInv'
  <2>1. CoreOneStill'
    <3>1. pc' \notin Held /\ app' = app /\ locked' = locked
      BY <1>1, <1>2 DEF Held
    <3> QED BY <1>0, <3>1, StillFrame
  <2>2. UpMeansUnmarked'
    <3>1. "unopened" \notin troubles => marker = "none"
      BY <1>0, <1>1 DEF FirmwareInv, UpMeansUnmarked, Preemptive
    <3> QED BY <1>1, <3>1 DEF UpMeansUnmarked
  <2> QED BY <1>0, <1>1, <1>2, <1>3, <2>1, <2>2 DEF FirmwareInv, BootloaderKept, Writing, Pending
<1>5. FramedBlocks' /\ AllStored' /\ BlockKept'
  BY <1>2 DEF FramedBlocks, AllStored, BlockKept, Loading, Writing, Pending
<1>6. troubles = {} /\ pc' \in {"link", "sync", "reboot"} => file' = file /\ Holds(file) /\ KeptAll(file)
  BY <1>0, <1>1, <1>2 DEF WholeInv, WholeLoaded
<1>7. WholeLoaded'
  BY <1>1, <1>2, <1>6, HoldsSame DEF WholeLoaded
<1>8. WholeMarked'
  <2>1. SUFFICES ASSUME marker' = "loader", troubles = {} PROVE (Holds(linked) /\ pc = "reboot" /\ KeptAll(linked))'
    BY <1>1 DEF WholeMarked
  <2>2. pc = "sync" /\ linked' = file /\ pc' = "reboot"
    <3>1. marker # "loader"
      BY <1>1, <2>1, NotMarked
    <3> QED BY <1>1, <2>1, <3>1
  <2>3. Holds(file) /\ KeptAll(file)
    BY <1>6, <2>1, <2>2
  <2> QED BY <1>1, <2>2, <2>3 DEF Holds, KeptAll, Kept, Image
<1>9. ListTracked'
  BY <1>0, <1>1, TrackedSame
<1> QED BY <1>4, <1>5, <1>7, <1>8, <1>9 DEF LInv, WholeInv

-----------------------------------------------------------------------------
(* What read_flash_block finds: the n pages that follow the position are    *)
(* those at the offset, and if no read failed there is not one more.        *)
LEMMA RunFacts ==
    ASSUME FirmwareTypeOK, file \in Files, NEW n \in Readable
    PROVE  /\ n \in 0..PagesPerSector /\ pos + n - 1 <= Len(file)
           /\ \A k \in 1..n : file[pos + k - 1] = offset + k - 1
           /\ n > 0 => "unread" \notin troubles
           /\ ~Cut(n) /\ n < PagesPerSector /\ pos + n <= Len(file) => file[pos + n] # offset + n
<1> USE FirmwareAssumption
<1>0. pos \in 1..(Len(file) + 1) /\ Len(file) \in Nat \ {0} /\ offset \in Nat
  BY FileFacts DEF FirmwareTypeOK
<1>1. 0 \in Run
  <2>1. pos + 0 - 1 <= Len(file)
    BY <1>0
  <2>2. 0 \in 0..PagesPerSector /\ 1..0 = {}
    OBVIOUS
  <2> QED BY <2>1, <2>2 DEF Run, Follow
<1>2. n \in Run /\ (n > 0 => "unread" \notin troubles)
  BY <1>1 DEF Readable
<1>3. n \in 0..PagesPerSector /\ pos + n - 1 <= Len(file) /\ \A k \in 1..n : file[pos + k - 1] = offset + k - 1
  BY <1>2 DEF Run, Follow
<1>4. ASSUME ~Cut(n), n < PagesPerSector, pos + n <= Len(file), file[pos + n] = offset + n PROVE FALSE
  <2>1. \A k \in 1..(n + 1) : file[pos + k - 1] = offset + k - 1
    <3>1. TAKE k \in 1..(n + 1)
    <3>2. CASE k \in 1..n
      BY <1>3, <3>2
    <3>3. CASE k = n + 1
      <4>1. pos + k - 1 = pos + n /\ offset + k - 1 = offset + n
        BY <1>0, <1>3, <3>3
      <4> QED BY <1>4, <4>1
    <3> QED BY <1>3, <3>2, <3>3
  <2>2. pos + (n + 1) - 1 <= Len(file) /\ n + 1 \in 0..PagesPerSector /\ n < n + 1
    BY <1>0, <1>3, <1>4
  <2>3. n + 1 \in Run
    BY <2>1, <2>2 DEF Run, Follow
  <2> QED BY <1>4, <2>2, <2>3 DEF Cut
<1> QED BY <1>2, <1>3, <1>4

LEMMA ReadKeeps ==
    ASSUME LInv, read_flash_block
    PROVE  LInv'
<1> USE FirmwareAssumption
<1>0. FirmwareTypeOK /\ FirmwareInv /\ WholeInv /\ CoreOneStill /\ ListTracked
  BY DEF LInv, FirmwareInv, WholeInv
<1>1. /\ pc = "read" /\ UNCHANGED <<flash, marker, file, ListVars, AppVars, core1, locked, linked>>
      /\ file \in Files /\ flash[0] = Boot2 /\ Running
      /\ "unopened" \notin troubles => marker = "none"
  BY <1>0 DEF read_flash_block, FirmwareTypeOK, FirmwareInv, UpMeansUnmarked, BootloaderKept, Loading, Preemptive,
     Scheduled, CoreVars
<1>2. PICK n \in Readable :
         LET next == NextOffset(n) IN
         /\ troubles' = IF Cut(n) THEN troubles \cup {"unread"} ELSE troubles
         /\ offset' = next /\ pos' = pos + n /\ block' = offset
         /\ IF next = offset THEN pc' = "close" /\ UNCHANGED <<buffer, replaced>>
            ELSE IF n = 0 THEN UNCHANGED <<pc, buffer, replaced>>
            ELSE IF Unexpected THEN pc' = "close" /\ UNCHANGED <<buffer, replaced>>
            ELSE /\ buffer' = Buffered(n)
                 /\ replaced' = (replaced \/ offset = 0)
                 /\ pc' = "list"
  BY DEF read_flash_block
<1>3. /\ n \in 0..PagesPerSector /\ pos + n - 1 <= Len(file)
      /\ \A k \in 1..n : file[pos + k - 1] = offset + k - 1
      /\ n > 0 => "unread" \notin troubles
      /\ ~Cut(n) /\ n < PagesPerSector /\ pos + n <= Len(file) => file[pos + n] # offset + n
  BY <1>0, <1>1, RunFacts
<1>4. Len(file) \in Nat \ {0} /\ pos \in 1..(Len(file) + 1) /\ offset \in Nat /\ flash \in [Pages -> Content]
  BY <1>0, <1>1, FileFacts DEF FirmwareTypeOK
<1>5. n > 0 => file[pos] = offset /\ pos \in 1..Len(file) /\ Start(offset)
  <2>1. SUFFICES ASSUME n > 0 PROVE file[pos] = offset /\ pos \in 1..Len(file) /\ Start(offset)
    OBVIOUS
  <2>2. 1 \in 1..n /\ pos + 1 - 1 = pos /\ offset + 1 - 1 = offset
    BY <1>3, <1>4, <2>1
  <2>3. file[pos] = offset /\ pos \in 1..Len(file)
    <3>1. file[pos + 1 - 1] = offset + 1 - 1
      BY <1>3, <2>2
    <3>2. file[pos] = offset
      BY <2>2, <3>1
    <3>3. pos \in 1..Len(file)
      BY <1>3, <1>4, <2>1
    <3> QED BY <3>2, <3>3
  <2>4. InStep
    BY <1>0, <1>1, <1>3, <2>1 DEF WholeInv, FramedBlocks, Loading
  <2> QED BY <2>3, <2>4 DEF InStep
<1>6. n > 0 => file[pos + n - 1] = offset + n - 1 /\ pos + n - 1 \in 1..Len(file)
  BY <1>3, <1>4
<1>7. NextOffset(n) \in Nat /\ pos' \in 1..(Len(file) + 1) /\ pos' = pos + n /\ offset' = NextOffset(n)
  <2>1. pos + n <= Len(file) => file[pos + n] \in Nat
    BY <1>1, <1>3, <1>4, FileFacts
  <2> QED BY <1>2, <1>3, <1>4, <2>1 DEF NextOffset
<1>8. troubles' \subseteq Troubles /\ troubles \subseteq troubles'
      /\ ("unread" \notin troubles' => ~Cut(n) /\ "unread" \notin troubles)
      /\ (troubles' = {} => ~Cut(n) /\ troubles = {})
  BY <1>0, <1>2 DEF FirmwareTypeOK, Troubles
(* Four outcomes. *)
<1>9. \/ pc' = "close" /\ NextOffset(n) = offset /\ UNCHANGED <<buffer, replaced>>
      \/ pc' = "read" /\ n = 0 /\ NextOffset(n) # offset /\ UNCHANGED <<buffer, replaced>>
      \/ pc' = "close" /\ n > 0 /\ offset = E10 /\ UNCHANGED <<buffer, replaced>>
      \/ /\ pc' = "list" /\ n > 0 /\ offset # E10 /\ NextOffset(n) # offset
         /\ buffer' = Buffered(n) /\ replaced' = (replaced \/ offset = 0)
  BY <1>1, <1>2, <1>3 DEF Unexpected
(* A sector that is going to be written lies in the flash. *)
<1>10. pc' = "list" => /\ n > 0 /\ offset \in Pages /\ Start(offset) /\ offset + PagesPerSector <= NPages
                       /\ \A k \in 1..n : offset + k - 1 \in Pages
  <2>1. SUFFICES ASSUME pc' = "list" PROVE /\ n > 0 /\ offset \in Pages /\ Start(offset)
                                           /\ offset + PagesPerSector <= NPages
                                           /\ \A k \in 1..n : offset + k - 1 \in Pages
    OBVIOUS
  <2>2. n > 0 /\ offset # E10
    BY <1>9, <2>1
  <2>3. offset \in Pages /\ Start(offset)
    BY <1>1, <1>5, <2>2, FileFacts
  <2>4. offset + PagesPerSector <= NPages
    BY <1>4, <2>3, StartsApart DEF Pages
  <2>5. \A k \in 1..n : offset + k - 1 \in Pages
    BY <1>3, <1>4, <2>4 DEF Pages
  <2> QED BY <2>2, <2>3, <2>4, <2>5
<1>11. pc' = "list" => buffer' \in [1..PagesPerSector -> Content]
                       /\ \A k \in 1..n : buffer'[k] = Image(file, offset + k - 1)
  <2>1. SUFFICES ASSUME pc' = "list" PROVE /\ buffer' \in [1..PagesPerSector -> Content]
                                           /\ \A k \in 1..n : buffer'[k] = Image(file, offset + k - 1)
    OBVIOUS
  <2>2. buffer' = Buffered(n) /\ buffer \in [1..PagesPerSector -> Content]
    BY <1>0, <1>9, <2>1 DEF FirmwareTypeOK
  <2>3. \A k \in 1..n : PageRead(k) = Image(file, offset + k - 1)
    BY <1>1, <1>3, <1>4 DEF PageRead, Image
  <2>4. \A k \in 1..n : Image(file, offset + k - 1) \in Content
    BY <1>1, <1>10, <2>1 DEF Image, Content
  <2>5. \A k \in 1..PagesPerSector : Buffered(n)[k] \in Content
    <3>1. TAKE k \in 1..PagesPerSector
    <3>2. CASE k <= n
      BY <1>3, <2>3, <2>4, <3>2 DEF Buffered
    <3>3. CASE ~(k <= n)
      BY <2>2, <3>3 DEF Buffered
    <3> QED BY <3>2, <3>3
  <2>6. Buffered(n) \in [1..PagesPerSector -> Content]
    BY <2>5 DEF Buffered
  <2>7. \A k \in 1..n : Buffered(n)[k] = PageRead(k)
    BY <1>3 DEF Buffered
  <2> QED BY <2>2, <2>3, <2>6, <2>7
<1>12. FirmwareTypeOK'
  <2>1. buffer' \in [1..PagesPerSector -> Content] /\ replaced' \in BOOLEAN
    BY <1>0, <1>9, <1>11 DEF FirmwareTypeOK
  <2>2. pc' = "list" => block' \in Pages /\ Start(block')
    BY <1>2, <1>10 DEF Start
  <2>3. pos' \in 1..(Len(file') + 1) /\ offset' \in Nat
    BY <1>1, <1>7
  <2>4. pc' \in {"close", "read", "list"}
    BY <1>9
  <2> QED BY <1>0, <1>1, <1>8, <2>1, <2>2, <2>3, <2>4
          DEF FirmwareTypeOK, Start, Loading, Writing, Pending, Preemptive, ListVars, AppVars
<1>13. FirmwareInv'
  <2>1. ASSUME pc' = "list", block' = 0 PROVE buffer'[1] = Boot2
    <3>1. offset = 0 /\ n > 0
      BY <1>2, <1>10, <2>1
    <3>2. 1 \in 1..n /\ offset + 1 - 1 = 0
      BY <1>3, <3>1
    <3>3. buffer'[1] = Image(file, 0)
      BY <1>11, <2>1, <3>2
    <3> QED BY <3>3 DEF Image
  <2>2. CoreOneStill'
    <3>1. pc' \notin Held /\ app' = app /\ locked' = locked
      BY <1>1, <1>9 DEF Held, AppVars
    <3> QED BY <1>0, <3>1, StillFrame
  <2>3. UpMeansUnmarked'
    BY <1>1, <1>8 DEF UpMeansUnmarked
  <2>4. pc' \in Writing => pc' = "list"
    BY <1>9 DEF Writing, Pending
  <2>5. BootloaderKept'
    BY <1>1 DEF BootloaderKept
  <2> QED BY <1>12, <2>1, <2>2, <2>3, <2>4, <2>5 DEF FirmwareInv
<1>14. FramedBlocks'
  <2>1. SUFFICES ASSUME pc' \in {"read", "list"} PROVE FramedBlocks'
    <3>1. CASE pc' = "close"
      BY <3>1 DEF FramedBlocks, Loading, Writing, Pending
    <3> QED BY <1>9, <3>1
  <2>2. NextOffset(n) # offset
    BY <1>9, <2>1
  <2>3. FramedBlocks /\ file' = file
    BY <1>0, <1>1 DEF WholeInv
  <2>4. ASSUME "unread" \notin troubles' PROVE InStep'
    <3>1. ~Cut(n) /\ "unread" \notin troubles /\ InStep
      BY <1>1, <1>8, <2>3, <2>4 DEF FramedBlocks, Loading
    <3>2. CASE pos + n <= Len(file) /\ n < PagesPerSector
      <4>1. offset' = file[pos + n]
        BY <1>7, <3>1, <3>2 DEF NextOffset
      <4>2. pos + n \in 1..Len(file)
        BY <1>3, <1>4, <3>2
      <4>3. file[pos + n] # offset + n /\ file[pos + n] \in Nat
        BY <1>1, <1>3, <3>1, <3>2, <4>2, FileFacts
      <4>4. Start(file[pos + n])
        <5>1. CASE n > 0
          <6>1. file[pos + n - 1] # file[pos + n] - 1
            BY <1>3, <1>4, <1>6, <4>3, <5>1
          <6>2. PICK m \in 1..Len(file) : m = pos + n
            BY <4>2
          <6>3. m - 1 = pos + n - 1
            BY <1>3, <1>4, <6>2
          <6>4. ~(m > 1 /\ file[m - 1] = file[m] - 1)
            BY <6>1, <6>2, <6>3
          <6> QED BY <1>1, <6>2, <6>4, RunStarts
        <5>2. CASE n = 0
          <6>1. pos + n = pos /\ pos \in 1..Len(file) /\ file[pos] # offset /\ file[pos] \in Nat
            BY <1>4, <4>2, <4>3, <5>2
          <6>2. pos = 1 \/ offset = file[pos - 1] + 1
            BY <3>1, <6>1 DEF InStep
          <6>3. pos > 1 => pos - 1 \in 1..Len(file) /\ file[pos - 1] \in Nat
            BY <1>1, <1>4, <6>1, FileFacts
          <6>4. ~(pos > 1 /\ file[pos - 1] = file[pos] - 1)
            BY <1>4, <6>1, <6>2, <6>3
          <6> QED BY <1>1, <6>1, <6>4, RunStarts
        <5> QED BY <1>3, <5>1, <5>2
      <4> QED BY <1>7, <2>3, <3>2, <4>1, <4>4 DEF InStep, Start
    <3>3. CASE pos + n <= Len(file) /\ n = PagesPerSector
      <4>1. offset' = offset + n /\ n > 0
        BY <1>7, <3>3 DEF NextOffset
      <4>2. Start(offset + PagesPerSector)
        BY <1>4, <1>5, <4>1, NextStarts
      <4>3. offset' = file[pos' - 1] + 1
        BY <1>3, <1>4, <1>6, <1>7, <4>1
      <4> QED BY <2>3, <3>3, <4>1, <4>2, <4>3 DEF InStep, Start
    <3>4. CASE ~(pos + n <= Len(file))
      <4>1. offset' = offset + n /\ n > 0
        BY <1>3, <1>4, <1>7, <2>2, <3>4 DEF NextOffset
      <4>2. offset' = file[pos' - 1] + 1
        BY <1>3, <1>4, <1>6, <1>7, <4>1
      <4>3. ~(pos' <= Len(file'))
        BY <1>7, <2>3, <3>4
      <4> QED BY <2>3, <4>2, <4>3 DEF InStep
    <3> QED BY <1>3, <3>2, <3>3, <3>4
  <2>5. replaced' => pos' > 1
    <3>1. CASE n > 0
      BY <1>3, <1>4, <1>7, <3>1
    <3>2. CASE n = 0
      <4>1. replaced' = replaced /\ pos' = pos
        BY <1>4, <1>7, <1>9, <2>1, <3>2
      <4>2. replaced => pos > 1
        BY <1>1, <2>3 DEF FramedBlocks, Loading
      <4> QED BY <4>1, <4>2
    <3> QED BY <1>3, <3>1, <3>2
  <2>6. \A k \in 1..(pos' - 1) : file[k] # E10
    <3>1. TAKE k \in 1..(pos' - 1)
    <3>2. CASE k \in 1..(pos - 1)
      BY <1>1, <2>3, <3>2 DEF FramedBlocks, Loading
    <3>3. CASE k \notin 1..(pos - 1)
      <4> DEFINE i == k - pos + 1
      <4>1. i \in 1..n /\ k = pos + i - 1 /\ pc' = "list"
        BY <1>3, <1>4, <1>7, <1>9, <2>1, <3>3
      <4>2. file[k] = offset + i - 1
        BY <1>3, <4>1
      <4>3. offset + i - 1 \in Pages
        BY <1>10, <4>1
      <4> QED BY <4>2, <4>3 DEF Pages
    <3> QED BY <3>2, <3>3
  <2> QED BY <2>3, <2>4, <2>5, <2>6 DEF FramedBlocks
(* With no trouble, what was read before is in flash. *)
<1>15. ASSUME troubles = {}, NEW k \in 1..(pos - 1)
       PROVE  flash[file[k]] = Image(file, file[k]) /\ Kept(file[k])
  BY <1>0, <1>1, <1>15 DEF WholeInv, AllStored, Stored, Loading, Writing, Pending
<1>16. AllStored'
  <2>1. SUFFICES ASSUME troubles' = {}, pc' \in {"read", "list"}, NEW k \in 1..(pos' - 1) PROVE Stored(k)'
    <3>1. CASE pc' = "close"
      BY <3>1 DEF AllStored, Loading, Writing, Pending
    <3>2. CASE pc' \in {"read", "list"}
      BY <3>2 DEF AllStored
    <3> QED BY <1>9, <3>1, <3>2
  <2>2. CASE k \in 1..(pos - 1)
    <3>1. flash[file[k]] = Image(file, file[k]) /\ Kept(file[k])
      BY <1>8, <1>15, <2>1, <2>2
    <3>2. pc' = "list" => file[k] \notin Sector(offset)
      <4>1. SUFFICES ASSUME pc' = "list" PROVE file[k] \notin Sector(offset)
        OBVIOUS
      <4>2. pos \in 1..Len(file) /\ file[pos] = offset /\ k \in 1..Len(file) /\ k < pos
        BY <1>4, <1>5, <1>10, <2>2, <4>1
      <4>3. file[k] # E10 /\ file[k] \in Nat
        BY <1>0, <1>1, <2>2, <4>2, FileFacts DEF WholeInv, FramedBlocks, Loading
      <4>4. file[k] < offset
        BY <1>1, <4>2, <4>3, FileFacts
      <4> QED BY <1>4, <4>3, <4>4 DEF Sector
    <3> QED BY <1>1, <1>2, <2>1, <3>1, <3>2 DEF Stored, Image, Kept, Writing, Pending, ListVars
  <2>3. CASE k \notin 1..(pos - 1)
    <3> DEFINE i == k - pos + 1
    <3>1. i \in 1..n /\ k = pos + i - 1 /\ pc' = "list"
      BY <1>3, <1>4, <1>7, <1>9, <2>1, <2>3
    <3>2. file[k] = offset + i - 1
      BY <1>3, <3>1
    <3>3. file[k] \in Sector(offset) /\ file[k] - offset + 1 = i
      BY <1>3, <1>4, <3>1, <3>2 DEF Sector
    <3>4. buffer'[i] = Image(file, file[k])
      BY <1>11, <3>1, <3>2
    <3>5. block' = offset /\ file' = file
      BY <1>1, <1>2
    <3> QED BY <3>1, <3>3, <3>4, <3>5 DEF Stored, Image, Writing, Pending
  <2> QED BY <2>2, <2>3
<1>17. BlockKept' /\ WholeMarked' /\ ListTracked'
  <2>1. BlockKept'
    BY <1>9 DEF BlockKept, Writing, Pending
  <2>2. WholeMarked'
    BY <1>1, <1>8, NotMarked DEF WholeMarked
  <2>3. ListTracked'
    BY <1>0, <1>1, <1>8, TrackedSame DEF ListVars, AppVars
  <2> QED BY <2>1, <2>2, <2>3
<1>18. WholeLoaded'
  <2>1. SUFFICES ASSUME pc' = "close", replaced', troubles' = {} PROVE (Holds(file) /\ KeptAll(file))'
    BY <1>9 DEF WholeLoaded
  <2>2. troubles = {} /\ ~Cut(n) /\ replaced /\ pos > 1
    <3>1. troubles = {} /\ ~Cut(n) /\ replaced
      BY <1>8, <1>9, <2>1
    <3> QED BY <1>0, <1>1, <3>1 DEF WholeInv, FramedBlocks, Loading
  <2>3. \A k \in 1..Len(file) : file[k] # E10 => k \in 1..(pos - 1)
    <3>1. CASE NextOffset(n) = offset
      <4>1. SUFFICES ASSUME pos <= Len(file) PROVE FALSE
        BY <1>4
      <4>2. CASE pos + n <= Len(file) /\ n < PagesPerSector
        <5>1. file[pos + n] = offset
          BY <2>2, <3>1, <4>2 DEF NextOffset
        <5>2. n > 0
          BY <1>3, <1>4, <2>2, <4>2, <5>1
        <5>3. pos \in 1..Len(file) /\ pos + n \in 1..Len(file) /\ pos < pos + n /\ file[pos] = offset
          BY <1>3, <1>4, <1>5, <4>2, <5>2
        <5> QED BY <1>1, <5>1, <5>3, FileFacts
      <4>3. CASE ~(pos + n <= Len(file) /\ n < PagesPerSector)
        BY <1>3, <1>4, <3>1, <4>1, <4>3 DEF NextOffset
      <4> QED BY <4>2, <4>3
    <3>2. CASE n > 0 /\ offset = E10
      <4>1. pos \in 1..Len(file) /\ file[pos] = E10
        BY <1>5, <3>2
      <4>2. ASSUME NEW k \in 1..Len(file), file[k] # E10, k > pos PROVE FALSE
        <5>1. file[pos] < file[k]
          BY <1>1, <2>2, <4>1, <4>2, FileFacts
        <5>2. file[k] \in Pages
          BY <1>1, <4>2, FileFacts
        <5> QED BY <4>1, <5>1, <5>2 DEF Pages
      <4> QED BY <1>4, <4>1, <4>2
    <3> QED BY <1>9, <2>1, <3>1, <3>2
  <2>4. \A k \in 1..Len(file) : file[k] # E10 => flash[file[k]] = Image(file, file[k]) /\ Kept(file[k])
    BY <1>15, <2>2, <2>3
  <2> QED BY <1>1, <2>4 DEF Holds, KeptAll, Kept, Image, ListVars
<1> QED BY <1>13, <1>14, <1>16, <1>17, <1>18 DEF LInv, WholeInv

-----------------------------------------------------------------------------
LEMMA NextInv ==
    ASSUME LInv, [Next]_vars
    PROVE  LInv'
<1>1. CASE Boot
  BY <1>1, BootKeeps
<1>2. CASE Load
  BY <1>2, ReadKeeps, LoaderBlockKeeps, ControlKeeps, EraseKeeps, ProgramKeeps DEF Load, FlashBlock
<1>3. CASE render_core \/ reboot_me \/ UNCHANGED vars
  BY <1>3, RequestKeeps
<1>4. CASE WatchdogFires \/ PowerFails
  BY <1>4, RestartKeeps DEF WatchdogFires, PowerFails
<1>5. CASE \E f \in Files : load_firmware(f)
  BY <1>5, BeginKeeps
<1>6. CASE App \/ FlashBlock("app")
  BY <1>6, PlacesKeep, CleanKeeps, AppBlockKeeps DEF App
<1> QED BY <1>1, <1>2, <1>3, <1>4, <1>5, <1>6 DEF Next

(* The whole inductive invariant. *)
THEOREM LoadInvariant == Spec => []LInv
<1>1. Init => LInv
  BY InitInv
<1>2. LInv /\ [Next]_vars => LInv'
  BY NextInv
<1> QED BY <1>1, <1>2, PTL DEF Spec

(* FirmwareInv holds always: types, boot2, the marker, and core 1 locked    *)
(* out while either of the two tasks erases and programs flash, and until   *)
(* that task lets it go.                                                    *)
THEOREM FirmwareInvariant == Spec => []FirmwareInv
<1>1. LInv => FirmwareInv
  BY DEF LInv
<1> QED BY <1>1, LoadInvariant, PTL

(* A marker of the loader vouches for a whole firmware, whenever the power  *)
(* failed and wherever between its check, record and write of a sector the  *)
(* other task was: but for the troubles, which the code neither prevents    *)
(* nor reports.                                                             *)
THEOREM MarkedWhole == Spec => []MarkedIsWhole
<1>1. LInv => MarkedIsWhole
  BY DEF LInv, WholeInv, WholeMarked, MarkedIsWhole
<1> QED BY <1>1, LoadInvariant, PTL

(* boot2 is in the first page whenever M-OS has to start from it, but for a *)
(* reset in the middle of writing the first sector.                         *)
THEOREM BootloaderSafe == Spec => []BootloaderKept
<1>1. FirmwareInv => BootloaderKept
  BY DEF FirmwareInv
<1> QED BY <1>1, FirmwareInvariant, PTL

(* M-OS runs over a marker only if f_open failed on it at the boot. *)
THEOREM MarkedMeansDown == Spec => []UpMeansUnmarked
<1>1. FirmwareInv => UpMeansUnmarked
  BY DEF FirmwareInv
<1> QED BY <1>1, FirmwareInvariant, PTL

=============================================================================
