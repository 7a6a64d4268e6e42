----------------------------- MODULE AppLoader -----------------------------
(***************************************************************************)
(* The ELF loader of app.c: load_app takes the entry points of a file one  *)
(* by one, load_sec2mem places the section of each and, through its        *)
(* relocations, every section it refers to, in RAM or in the flash above   *)
(* flash_addr, and flash_block programs the flash sectors.  Several        *)
(* programs are resident at once, and a detached one may be cleaned up     *)
(* while another is being loaded.                                          *)
(*                                                                         *)
(* Flash is addressed in units, half a sector each.  A section's RAM copy  *)
(* has one address and one heap block of its own.                          *)
(***************************************************************************)
EXTENDS Naturals, Sequences, FiniteSets, FiniteSetsExt

CONSTANTS
    MaxApps,    \* bound on the programs loaded
    Sections,   \* section numbers, 1..n
    Images,     \* the ELF files
    FlashTop,   \* bound on flash addresses; the code has none
    MaxHazards  \* bound on the failures of a run

(* An image: the sections each section's relocations name, the sections    *)
(* without the write flag, sizes, alignments, and the sections of _init,    *)
(* main and signal, 0 where the symbol is missing.                          *)
ImageType == [refs : [Sections -> SUBSET Sections], ro : SUBSET Sections,
              size : [Sections -> Nat \ {0}], align : [Sections -> {1, 2}],
              roots : [1..3 -> Sections \cup {0}]]

ASSUME LoaderAssumption ==
    /\ MaxApps \in Nat \ {0} /\ FlashTop \in Nat /\ MaxHazards \in Nat
    /\ IsFiniteSet(Sections) /\ Sections = 1..Cardinality(Sections)
    /\ \A i \in Images : i \in ImageType

Apps == 1..MaxApps
Sector == 2
Base == Sector
RamStart == FlashTop + 1
Ram(a, s) == RamStart + (a - 1) * Cardinality(Sections) + s
Main == 2
Blank == <<0, 0>>
Junk == <<0, 1>>

VARIABLES
    app,        \* programs: stage, image, sections_lst, the relocations resolved, bootb
    heap,       \* the block of each RAM copy
    faults,     \* rules of the heap that have been broken
    flash_addr, flash_list, lst,    \* the statics of app.c
    file,       \* the flash_me file
    flash,      \* contents of the flash, per unit
    pc, cur, useFlash, stack, ret,  \* load_app and load_sec2mem
    addr, top, buffer,              \* the programming loop
    hazards     \* what went wrong so far: a load or the card failed, a clean-up overlapped a load

image == app[cur].image
LoaderVars == <<pc, cur, useFlash, stack, ret>>
FlashVars == <<flash_list, flash, file, addr, top, buffer>>
HeapVars == <<heap, faults>>
vars == <<app, HeapVars, flash_addr, lst, FlashVars, LoaderVars, hazards>>

NoApp == [stage |-> "none", entries |-> <<>>, links |-> {}, boot |-> <<>>]
NoFile == [app |-> 0, sec |-> 0, from |-> 0, to |-> 0, data |-> 0]

Init ==
    /\ app = [a \in Apps |-> NoApp]
    /\ heap = [b \in Apps \X Sections |-> "none"] /\ faults = {}
    /\ flash_addr = Base
    /\ flash_list = [made |-> FALSE, recs |-> {}]
    /\ lst = {} /\ file = NoFile
    /\ flash = [u \in 0..FlashTop |-> Blank]
    /\ pc = "idle" /\ cur = 0 /\ useFlash = FALSE /\ stack = <<>> /\ ret = 0
    /\ addr = 0 /\ top = 0 /\ buffer = <<Blank, Blank>>
    /\ hazards = {}

-----------------------------------------------------------------------------
(* Freeing blocks: a block is "none", "live" or "freed". *)
Free(blocks) ==
    /\ heap' = [b \in DOMAIN heap |-> IF b \in blocks THEN "freed" ELSE heap[b]]
    /\ faults' = IF \E b \in blocks : heap[b] # "live" THEN faults \cup {"double free"} ELSE faults

(* The flash a program's sections span, as cleanup_bootb_ctx sees it. *)
InFlash(a) == {e \in {app[a].entries[k] : k \in DOMAIN app[a].entries} : e.prg <= RamStart}
FlashStarts(a) == {e.prg : e \in InFlash(a)}
HeldBelow(a) == {r \in flash_list.recs : InFlash(a) # {} /\ r <= Max(FlashStarts(a))}
HeldAbove(a) == {r \in flash_list.recs : InFlash(a) # {} /\ r >= Min(FlashStarts(a))}
Held(a) == HeldBelow(a) \cap HeldAbove(a)

(* What is freed with the list of sections, and where flash_addr goes. *)
DeletableInFlash(a) == {<<a, e.sec>> : e \in InFlash(a)}
Deletable(a) == {<<a, app[a].entries[k].sec>> : k \in DOMAIN app[a].entries}
FlashStart(kept) == Max({Base} \cup kept)
FlashEnd(kept) == Max({Base} \cup {r + Sector : r \in kept})

(* The program's record afterwards; its context no longer points to it. *)
StillThere(r) == [r EXCEPT !.stage = "failed"]
Unloaded(r) == [r EXCEPT !.stage = "gone", !.entries = <<>>]

(* cleanup_bootb_ctx: the records of the span go, flash_addr falls back to  *)
(* the end of those that stay, and every entry's del_addr is freed.         *)
cleanup_bootb_ctx(a) ==
    LET kept == flash_list.recs \ Held(a)
    IN  /\ flash_list' = [flash_list EXCEPT !.recs = kept]
        /\ flash_addr' = IF flash_list.made THEN FlashEnd(kept) ELSE flash_addr
        /\ Free(Deletable(a))

(* A program ends.  A detached one does so at any time, load or not. *)
End(a) ==
    /\ app[a].stage = "ready"
    /\ cleanup_bootb_ctx(a)
    /\ app' = [app EXCEPT ![a] = Unloaded(@)]
    /\ hazards' = IF pc # "idle" THEN hazards \cup {"overlap"} ELSE hazards
    /\ UNCHANGED <<lst, file, flash, LoaderVars, addr, top, buffer>>

-----------------------------------------------------------------------------
(* load_app up to its first entry point.  The context may still hold the    *)
(* program whose load failed; it is cleaned up first.                       *)
load_app(a, i, byFlash) ==
    LET left == {b \in Apps : app[b].stage = "failed"}
    IN  /\ pc = "idle"
        /\ app[a].stage = "none" /\ \A b \in 1..(a - 1) : app[b].stage # "none"
        /\ IF left = {} THEN UNCHANGED <<flash_list, flash_addr, HeapVars>>
           ELSE \E b \in left : cleanup_bootb_ctx(b)
        /\ app' = [b \in Apps |->
                     IF b = a THEN [stage |-> "loading", image |-> i, entries |-> <<>>,
                                    links |-> {}, boot |-> <<>>]
                     ELSE IF b \in left THEN Unloaded(app[b])
                     ELSE app[b]]
        /\ pc' = "roots" /\ cur' = a /\ useFlash' = byFlash
        /\ UNCHANGED <<lst, file, flash, stack, ret, addr, top, buffer, hazards>>

(* sec_prg_addr: the address of a section that has an entry, or 0. *)
sec_prg_addr(s) ==
    LET at == {k \in DOMAIN app[cur].entries : app[cur].entries[k].sec = s}
    IN  IF at = {} THEN 0 ELSE app[cur].entries[Min(at)].prg

(* Entering load_sec2mem for a section that has no entry yet. *)
FreshFrame(s) == [sec |-> s, prev |-> flash_addr, new |-> flash_addr, prg |-> 0,
                  todo |-> {r \in image.refs[s] : sec_prg_addr(r) = 0}, ref |-> 0]
Frame(s) == [sec |-> s, prev |-> flash_addr, new |-> flash_addr, prg |-> 0,
             todo |-> image.refs[s], ref |-> 0]
Enter(s) ==
    IF sec_prg_addr(s) # 0 THEN pc' = "ret" /\ ret' = sec_prg_addr(s) /\ UNCHANGED stack
    ELSE pc' = "place" /\ stack' = <<Frame(s)>> \o stack /\ UNCHANGED ret

(* load_sec2mem_wrapper for the next entry point. *)
load_sec2mem_wrapper ==
    LET k == Len(app[cur].boot) + 1
    IN  /\ pc = "roots" /\ k <= 3
        /\ IF image.roots[k] = 0 THEN pc' = "ret" /\ ret' = 0 /\ UNCHANGED stack
           ELSE Enter(image.roots[k])
        /\ UNCHANGED <<app, HeapVars, flash_addr, lst, FlashVars, cur, useFlash, hazards>>

(* sec_align: where the section goes, and flash_addr after it. *)
InRam(s) == ~useFlash \/ s \notin image.ro
Misaligned(s) == flash_addr % image.align[s] # 0
Aligned(s) == IF Misaligned(s) THEN flash_addr + 1 ELSE flash_addr
AfterAlign(s) == flash_addr + image.size[s] + (IF Misaligned(s) THEN image.align[s] - 1 ELSE 0)

(* sec_align, the section's bytes read, and add_sec before its relocations. *)
Place ==
    LET s == Head(stack).sec
        prg == IF InRam(s) THEN Ram(cur, s) ELSE Aligned(s)
        new == IF InRam(s) THEN flash_addr ELSE AfterAlign(s)
    IN  /\ pc = "place"
        /\ InRam(s) \/ new <= FlashTop
        /\ heap' = [heap EXCEPT ![<<cur, s>>] = "live"]
        /\ flash_addr' = new
        /\ app' = [app EXCEPT ![cur].entries = Append(@, [sec |-> s, prg |-> prg])]
        /\ stack' = [stack EXCEPT ![1].prg = prg, ![1].new = new]
        /\ pc' = "link"
        /\ UNCHANGED <<faults, lst, FlashVars, cur, useFlash, ret, hazards>>

(* Going on to the next record of the relocation section. *)
SameRecord(todo, s) == todo
NextRecord(todo, s) == todo \ {s}

(* The next relocation, in whatever order the file has them. *)
Relocate ==
    LET f == Head(stack) IN
    /\ pc = "link"
    /\ \E s \in f.todo :
         IF s = f.sec
         THEN /\ app' = [app EXCEPT ![cur].links = @ \cup {<<f.sec, s, f.prg>>}]
              /\ stack' = [stack EXCEPT ![1].todo = NextRecord(@, s)]
              /\ UNCHANGED <<pc, ret>>
         ELSE /\ IF sec_prg_addr(s) # 0
                 THEN /\ pc' = "ret" /\ ret' = sec_prg_addr(s)
                      /\ stack' = [stack EXCEPT ![1].ref = s]
                 ELSE /\ pc' = "place" /\ UNCHANGED ret
                      /\ stack' = <<Frame(s)>> \o [stack EXCEPT ![1].ref = s]
              /\ UNCHANGED app
    /\ UNCHANGED <<HeapVars, flash_addr, lst, FlashVars, cur, useFlash, hazards>>

(* The call returns: the relocation is resolved against the address, or the *)
(* entry point is recorded.                                                 *)
Returned ==
    /\ pc = "ret"
    /\ \/ /\ stack # <<>> /\ ret # 0
          /\ LET f == Head(stack) IN
             /\ app' = [app EXCEPT ![cur].links = @ \cup {<<f.sec, f.ref, ret>>}]
             /\ stack' = [stack EXCEPT ![1].todo = NextRecord(@, f.ref)]
             /\ pc' = "link"
       \/ /\ stack = <<>>
          /\ app' = [app EXCEPT ![cur].boot = Append(@, ret)]
          /\ pc' = "roots" /\ UNCHANGED stack
    /\ ret' = 0
    /\ UNCHANGED <<HeapVars, flash_addr, lst, FlashVars, cur, useFlash, hazards>>

(* flash_me as a section leaves it, up to its end, which FA_CREATE_ALWAYS    *)
(* empties first.  When it cannot be opened, sought in or written it stays   *)
(* as it was or ends too early, and the code goes on all the same.           *)
FlashMe(f, end) ==
    [app |-> cur, sec |-> f.sec, from |-> f.prg, to |-> end, data |-> f.prg + image.size[f.sec]]
Unwritten(f, end) ==
    /\ Cardinality(hazards) < MaxHazards /\ hazards' = hazards \cup {"unwritten"}
    /\ file' = file \/ \E e \in 0..(end - 1) : file' = FlashMe(f, e)
WriteFlashMe(f, end) ==
    \/ file' = FlashMe(f, end) /\ UNCHANGED hazards
    \/ Unwritten(f, end)

(* A section completed.  One placed in flash is noted in lst and goes to     *)
(* flash_me; its RAM copy is freed.                                         *)
RoundUp(n) == Sector * ((n + Sector - 1) \div Sector)
Complete ==
    LET f == Head(stack)
        sz == f.new - f.prev
    IN  /\ pc = "link" /\ f.todo = {} /\ f.new >= f.prev
        /\ IF sz = 0 THEN UNCHANGED <<HeapVars, flash_addr, lst, file, hazards>>
           ELSE /\ lst' = lst \cup {[offset |-> f.prg, size |-> sz]}
                /\ WriteFlashMe(f, f.prg + sz)
                /\ Free({<<cur, f.sec>>})
                /\ flash_addr' = RoundUp(flash_addr)
        /\ pc' = "ret" /\ ret' = f.prg /\ stack' = Tail(stack)
        /\ UNCHANGED <<app, flash_list, flash, addr, top, buffer, cur, useFlash>>

(* A clean-up brought flash_addr below f.prev before sec_align read it: the *)
(* size_t difference wraps, a section in RAM counts as one in flash, with   *)
(* lst possibly NULL.  What the code does next is not followed.             *)
Wrapped ==
    /\ pc = "link" /\ Head(stack).todo = {} /\ Head(stack).new < Head(stack).prev
    /\ pc' = "undefined"
    /\ UNCHANGED <<app, HeapVars, flash_addr, lst, FlashVars, cur, useFlash, stack, ret, hazards>>

(* e1: flash_addr goes back, the RAM copy is freed, the entry stays.  The   *)
(* section cannot be placed or read, one of its relocations cannot be read  *)
(* or is of a kind the loader does not know, or a section it needs failed.  *)
Fail ==
    LET f == Head(stack) IN
    /\ flash_addr' = f.prev
    /\ IF f.prg = 0 THEN UNCHANGED HeapVars ELSE Free({<<cur, f.sec>>})
    /\ pc' = "ret" /\ ret' = 0 /\ stack' = Tail(stack)
    /\ hazards' = hazards \cup {"failed"}
    /\ UNCHANGED <<app, lst, FlashVars, cur, useFlash>>
FailOwn ==
    /\ pc = "place" \/ (pc = "link" /\ Head(stack).todo # {})
    /\ Cardinality(hazards) < MaxHazards
    /\ Fail
FailNested ==
    /\ pc = "ret" /\ stack # <<>> /\ ret = 0
    /\ Fail

-----------------------------------------------------------------------------
(* The sections are loaded: the range of lst is programmed sector by sector. *)
Starts == {o.offset : o \in lst}
EndsAtStart == {o.offset : o \in lst}
Ends == {o.offset + o.size : o \in lst}
StartFlash ==
    /\ pc = "roots" /\ Len(app[cur].boot) = 3 /\ useFlash
    /\ addr' = IF lst = {} THEN 0 ELSE Min(Starts)
    /\ top' = IF lst = {} THEN 0 ELSE Max(Ends)
    /\ buffer' = <<Blank, Blank>>
    /\ lst' = {} /\ pc' = "flash"
    /\ UNCHANGED <<app, HeapVars, flash_addr, flash_list, flash, file, cur, useFlash, stack, ret,
                   hazards>>

(* A unit of flash_me: what lies before the last section written there is   *)
(* whatever the clusters held, what lies behind its data is over-read.      *)
FileUnit(u) == IF u >= file.from /\ u < file.data THEN <<file.app, file.sec>> ELSE Junk
Read == [k \in 1..Sector |-> IF addr + k - 1 < file.to THEN FileUnit(addr + k - 1) ELSE buffer[k]]

(* Programming clears no bit that is set: it needs the sector erased. *)
Erased(u) == flash[u] = Blank \/ u \div Sector = addr \div Sector
Programmed(u, data) ==
    IF u \in addr..(addr + Sector - 1)
    THEN IF Erased(u) THEN data[u - addr + 1] ELSE Junk
    ELSE IF u \div Sector = addr \div Sector THEN Blank ELSE flash[u]

flash_block(data) ==
    IF \E r \in flash_list.recs : addr >= r /\ addr < r + Sector
    THEN UNCHANGED <<flash_list, flash_addr, flash>>
    ELSE /\ flash_list' = [made |-> TRUE, recs |-> flash_list.recs \cup {addr}]
         /\ flash_addr' = addr + Sector
         /\ flash' = [u \in 0..FlashTop |-> Programmed(u, data)]

Program ==
    /\ pc = "flash" /\ addr < top
    /\ flash_block(Read)
    /\ buffer' = Read
    /\ addr' = addr + Sector
    /\ UNCHANGED <<app, HeapVars, lst, file, top, LoaderVars, hazards>>

(* A read that fails after some bytes is flashed all the same, with part of  *)
(* a unit or the stale rest of the buffer; f_lseek then fails for good.      *)
PartRead(n, torn) ==
    [k \in 1..Sector |-> IF k <= n THEN Read[k] ELSE IF k = n + 1 /\ torn THEN Junk ELSE buffer[k]]
ProgramPart ==
    /\ pc = "flash" /\ addr < top
    /\ Cardinality(hazards) < MaxHazards
    /\ \E n \in 0..(Sector - 1), torn \in BOOLEAN :
         /\ n > 0 \/ torn
         /\ addr + n < file.to
         /\ flash_block(PartRead(n, torn)) /\ buffer' = PartRead(n, torn)
    /\ addr' = addr + Sector /\ top' = addr
    /\ hazards' = hazards \cup {"unread"}
    /\ UNCHANGED <<app, HeapVars, lst, file, LoaderVars>>

(* The loop is given up, e8, e5 or e4: no memory, no flash_me, no reading. *)
GiveUp ==
    /\ pc = "flash" /\ addr < top
    /\ Cardinality(hazards) < MaxHazards
    /\ top' = addr
    /\ hazards' = hazards \cup {"unflashed"}
    /\ UNCHANGED <<app, HeapVars, flash_addr, lst, flash_list, flash, file, addr, buffer, LoaderVars>>

(* load_app returns: TRUE when main has an address. *)
LoadEnds ==
    /\ \/ pc = "roots" /\ Len(app[cur].boot) = 3 /\ ~useFlash
       \/ pc = "flash" /\ addr >= top
    /\ app' = [app EXCEPT ![cur].stage = IF app[cur].boot[Main] = 0 THEN "failed" ELSE "ready"]
    /\ pc' = "idle"
    /\ UNCHANGED <<HeapVars, flash_addr, lst, FlashVars, cur, useFlash, stack, ret, hazards>>

Loader ==
    \/ load_sec2mem_wrapper \/ Place \/ Relocate \/ Returned \/ Complete \/ Wrapped
    \/ FailOwn \/ FailNested \/ StartFlash \/ Program \/ ProgramPart \/ GiveUp \/ LoadEnds

Next ==
    \/ \E a \in Apps, i \in Images, byFlash \in BOOLEAN : load_app(a, i, byFlash)
    \/ Loader
    \/ \E a \in Apps : End(a)

(* The loading task runs to the end of load_app unless a program is asked   *)
(* for, which nothing forces.                                               *)
Spec == Init /\ [][Next]_vars
LiveSpec == Spec /\ WF_vars(Loader)

-----------------------------------------------------------------------------
(* Each variable keeps the shape the code gives it, and load_sec2mem never   *)
(* calls itself more deeply than there are sections.                         *)
EntryType == [sec : Sections, prg : Nat \ {0}]
AppType == [stage : {"loading", "failed", "ready", "gone"}, image : Images,
            entries : Seq(EntryType),
            links : SUBSET (Sections \X Sections \X Nat), boot : Seq(Nat)]
FrameType == [sec : Sections, prev : Nat, new : Nat, prg : Nat, todo : SUBSET Sections,
              ref : Sections \cup {0}]
Content == Nat \X Nat
LoaderTypeOK ==
    /\ app \in [Apps -> {NoApp} \cup AppType]
    /\ heap \in [Apps \X Sections -> {"none", "live", "freed"}]
    /\ faults \subseteq {"double free"}
    /\ flash_addr \in Nat /\ flash_list \in [made : BOOLEAN, recs : SUBSET Nat]
    /\ lst \subseteq [offset : Nat, size : Nat \ {0}]
    /\ file \in [app : 0..MaxApps, sec : Sections \cup {0}, from : Nat, to : Nat, data : Nat]
    /\ flash \in [0..FlashTop -> Content] /\ buffer \in [1..Sector -> Content]
    /\ pc \in {"idle", "roots", "place", "link", "ret", "flash", "undefined"}
    /\ cur \in 0..MaxApps /\ useFlash \in BOOLEAN
    /\ stack \in Seq(FrameType) /\ Len(stack) <= Cardinality(Sections)
    /\ ret \in Nat /\ addr \in Nat /\ top \in Nat
    /\ hazards \subseteq {"failed", "overlap", "unwritten", "unread", "unflashed"}

(* What follows holds of loads that met no failure, did not overlap the     *)
(* clean-up of another program, and whose flash_me the card took and gave   *)
(* back: the code goes on after an error of the card, and load_app's result *)
(* does not tell.                                                           *)
Calm == hazards = {}
Ready == {a \in Apps : app[a].stage = "ready"}
Entry(a) == {app[a].entries[k] : k \in DOMAIN app[a].entries}
Units(a, e) == e.prg..(e.prg + app[a].image.size[e.sec] - 1)
AllUnits(a) == UNION {Units(a, e) : e \in InFlash(a)}

(* No two sections, of one program or of two, share flash: sec_align never   *)
(* hands out what another section still uses.                               *)
SectionsDisjoint ==
    Calm => \A a, b \in Apps : \A e \in InFlash(a), g \in InFlash(b) :
              (a # b \/ e # g) => Units(a, e) \cap Units(b, g) = {}

(* load_app's success means a closed image: each entry point is the address *)
(* of its section, and every relocation of every section loaded was resolved *)
(* against the one address its target has, also where references are cyclic. *)
LoadComplete ==
    Calm => \A a \in Ready :
      LET at(s) == {e \in Entry(a) : e.sec = s}
          i == app[a].image
      IN  /\ Cardinality({e.sec : e \in Entry(a)}) = Len(app[a].entries)
          /\ \A k \in 1..3 : i.roots[k] # 0 => \E e \in at(i.roots[k]) : e.prg = app[a].boot[k]
          /\ \A e \in Entry(a) : \A s \in i.refs[e.sec] :
               \E g \in at(s) : <<e.sec, s, g.prg>> \in app[a].links
          /\ \A e \in Entry(a) : e.prg > RamStart => heap[<<a, e.sec>>] = "live"

(* vPortFree never gets a block that is not allocated. *)
NoDoubleFree == faults = {}

(* Programs kept in RAM are freed once, at their clean-up. *)
RamFreedOnce == Calm /\ file = NoFile => faults = {}

(* Whatever failed while it was loaded, a program that has been cleaned up  *)
(* leaves nothing in the heap.                                              *)
NothingLeaks == \A a \in Apps, s \in Sections : app[a].stage = "gone" => heap[<<a, s>>] # "live"

(* The flash a program runs from is recorded in flash_list and lies below   *)
(* flash_addr, so that the next load goes elsewhere.                        *)
SectorsRecorded ==
    Calm => \A a \in Ready : \A u \in AllUnits(a) :
              /\ \E r \in flash_list.recs : u \in r..(r + Sector - 1)
              /\ pc # "flash" => u < flash_addr

LoaderInv == LoaderTypeOK /\ SectorsRecorded

(* A program with one section in flash finds that section there. *)
FlashHolds ==
    Calm => \A a \in Ready : \A e \in InFlash(a) :
              InFlash(a) = {e} => \A u \in Units(a, e) : flash[u] = <<a, e.sec>>

(* A program that runs from flash finds each of its sections there. *)
FlashHoldsAll ==
    Calm => \A a \in Ready : \A e \in InFlash(a) : \A u \in Units(a, e) : flash[u] = <<a, e.sec>>

(* Nothing that is loaded later changes the flash a program runs from. *)
FlashKept ==
    [][\A a \in Ready : Calm' => \A u \in AllUnits(a) : flash'[u] = flash[u]]_vars

(* load_app returns, whatever the references between sections. *)
LoadReturns == (pc # "idle") ~> (pc \in {"idle", "undefined"})
=============================================================================
