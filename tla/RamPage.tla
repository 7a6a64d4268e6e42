------------------------------- MODULE RamPage -------------------------------
(***************************************************************************)
(* The demand pager of src/src/ram_page.c as one task drives it: a few RAM *)
(* frames cache the pages of a swap file.  A page in use is found through  *)
(* the one-entry cache last_lba_page/last_ram_page or by scanning          *)
(* RAM_PAGES; a miss evicts the frame at oldest_ram_page, writing it back  *)
(* first when it is dirty.  Both transfers go through the file system and  *)
(* may fail at any time, with any damage to the block being transferred;   *)
(* vram_seek's reopen-and-retry is part of one such attempt.               *)
(***************************************************************************)
EXTENDS VramCalls

CONSTANT NFrames    \* _swap_pages: frames of RAM, frame 0 being reserved

ASSUME FramesAssumption == NFrames \in Nat /\ NFrames >= 2

Frames == 1..(NFrames - 1)
Descs == [lba : 0..NPages, dirty : BOOLEAN]
Unused == [lba |-> 0, dirty |-> FALSE]

VARIABLES
    up,             \* RAM # 0: init_vram has succeeded
    RAM,            \* contents of the frames
    RAM_PAGES,      \* per frame: the page it holds (0: none), and bit 15
    oldest_ram_page, last_ram_page, last_lba_page,
    file,           \* blocks of the swap file
    pc,             \* what the running call does next
    call, pos, res, \* the running request, bytes served, word read so far
    ram_page        \* frame the running lookup is about

vars == <<up, RAM, RAM_PAGES, oldest_ram_page, last_ram_page, last_lba_page,
          file, pc, call, pos, res, ram_page>>
table == <<RAM_PAGES, oldest_ram_page, last_ram_page, last_lba_page>>
request == <<call, pos, res>>

NoCall == [op |-> "none", addr |-> 0, width |-> 0, word |-> Zeros(0)]
lba_page == PageOf(call.addr + pos)

Init ==
    /\ up = FALSE
    /\ RAM = [f \in Frames |-> [o \in Offsets |-> 0]]
    /\ RAM_PAGES = [f \in Frames |-> Unused]
    /\ oldest_ram_page = 1 /\ last_ram_page = 0 /\ last_lba_page = 0
    /\ file = [p \in Pages |-> [o \in Offsets |-> 0]]
    /\ pc = "idle" /\ call = NoCall /\ pos = 0 /\ res = Zeros(0)
    /\ ram_page = 0

-----------------------------------------------------------------------------
(* init_vram, also used to move the swap while the system runs. *)

ResetTable ==
    /\ RAM' = [f \in Frames |-> [o \in Offsets |-> 0]]
    /\ RAM_PAGES' = [f \in Frames |-> Unused]
    /\ oldest_ram_page' = 1 /\ last_ram_page' = 0 /\ last_lba_page' = 0

(* f_lseek extends the new file without writing it: only its last byte, the *)
(* zero written explicitly, is known.                                       *)
FreshFile == {fl \in [Pages -> Block] : fl[NPages][PageSize - 1] = 0}

init_vram ==
    /\ pc = "idle"
    /\ up' = TRUE
    /\ ResetTable
    /\ file' \in FreshFile
    /\ UNCHANGED <<pc, request, ram_page>>

(* Refused sizes or no memory (e_cfg:), or the file could not be made (e:,  *)
(* the frames having been cleared): everything is released.                 *)
init_vram_fail ==
    /\ pc = "idle"
    /\ up' = FALSE
    /\ ResetTable \/ UNCHANGED <<RAM, table>>
    /\ UNCHANGED <<file, pc, request, ram_page>>

-----------------------------------------------------------------------------
(* ram_page_read/read16/read32 and ram_page_write/write16/write32. *)

Call(c) ==
    /\ pc = "idle"
    /\ call' = c
    /\ res' = Zeros(c.width)
    /\ IF up /\ InRange(c)
       THEN pc' = "lookup" /\ pos' = 0
       ELSE pc' = "return" /\ pos' = c.width
    /\ UNCHANGED <<up, RAM, table, file, ram_page>>

(* The bytes served by this lookup are done with, for better or worse. *)
Advance ==
    /\ pos' = pos + Span(call)
    /\ pc' = IF pos + Span(call) = call.width THEN "return" ELSE "lookup"

(* get_ram_page_for returned 0: the access is abandoned, never retried. *)
GiveUpRetries == pos' = pos /\ pc' = "lookup"
GiveUp == Advance

LastMatchesAny == last_ram_page # 0
LastMatches == last_lba_page = lba_page /\ last_ram_page # 0

FastHit ==
    /\ pc = "lookup"
    /\ LastMatches
    /\ ram_page' = last_ram_page
    /\ pc' = "access"
    /\ UNCHANGED <<up, RAM, table, file, request>>

Holders(p) == {f \in Frames : RAM_PAGES[f].lba = p}

ScanHit ==
    /\ pc = "lookup"
    /\ ~LastMatches
    /\ \E f \in Holders(lba_page) :
        /\ \A g \in Holders(lba_page) : f <= g
        /\ ram_page' = f
        /\ last_ram_page' = f
    /\ last_lba_page' = lba_page
    /\ pc' = "access"
    /\ UNCHANGED <<up, RAM, RAM_PAGES, oldest_ram_page, file, request>>

AfterMissNoFlush == "load"
AfterMiss == IF RAM_PAGES[oldest_ram_page].dirty THEN "flush" ELSE "load"

Miss ==
    /\ pc = "lookup"
    /\ ~LastMatches
    /\ Holders(lba_page) = {}
    /\ ram_page' = oldest_ram_page
    /\ pc' = AfterMiss
    /\ UNCHANGED <<up, RAM, table, file, request>>

FlushOk ==
    /\ pc = "flush"
    /\ file' = [file EXCEPT ![RAM_PAGES[ram_page].lba] = RAM[ram_page]]
    /\ pc' = "load"
    /\ UNCHANGED <<up, RAM, table, request, ram_page>>

(* flush_vram_block failed: the block in the file may be torn; the page     *)
(* stays in its frame, dirty, and get_ram_page_for returns 0.               *)
FlushFail ==
    /\ pc = "flush"
    /\ \E b \in Block : file' = [file EXCEPT ![RAM_PAGES[ram_page].lba] = b]
    /\ GiveUp
    /\ UNCHANGED <<up, RAM, table, call, res, ram_page>>

(* Frame 0 is reserved, so the rolling index wraps to 1. *)
NextOldest == IF oldest_ram_page + 1 >= NFrames THEN 1 ELSE oldest_ram_page + 1

LoadOk ==
    /\ pc = "load"
    /\ RAM' = [RAM EXCEPT ![ram_page] = file[lba_page]]
    /\ RAM_PAGES' = [RAM_PAGES EXCEPT ![ram_page] = [lba |-> lba_page, dirty |-> FALSE]]
    /\ oldest_ram_page' = NextOldest
    /\ last_lba_page' = lba_page /\ last_ram_page' = ram_page
    /\ pc' = "access"
    /\ UNCHANGED <<up, file, request, ram_page>>

(* The page table once the load into ram_page has failed. *)
EmptiedKept == RAM_PAGES
Emptied == [RAM_PAGES EXCEPT ![ram_page] = Unused]

(* The lookup cache is dropped before its frame is loaded over. *)
ForgetLast ==
    IF ram_page = last_ram_page
    THEN last_ram_page' = 0 /\ last_lba_page' = 0
    ELSE UNCHANGED <<last_ram_page, last_lba_page>>

(* read_vram_block failed half-way: the frame holds rubbish and no page. *)
LoadFail ==
    /\ pc = "load"
    /\ \E b \in Block : RAM' = [RAM EXCEPT ![ram_page] = b]
    /\ RAM_PAGES' = Emptied
    /\ ForgetLast
    /\ GiveUp
    /\ UNCHANGED <<up, oldest_ram_page, file, call, res, ram_page>>

(* addr_in_page of byte i of the word, when it is served by this lookup. *)
InPage(i) == OffsetOf(call.addr + pos) + (i - pos)

ReadBytes ==
    /\ pc = "access" /\ call.op = "read"
    /\ res' = [i \in DOMAIN res |->
                 IF i \in Served(call, pos) THEN RAM[ram_page][InPage(i)] ELSE res[i]]
    /\ Advance
    /\ UNCHANGED <<up, RAM, table, file, call, ram_page>>

(* mark_ram_page_dirty *)
MarkedNot == RAM_PAGES
Marked == [RAM_PAGES EXCEPT ![ram_page].dirty = TRUE]

WriteBytes ==
    /\ pc = "access" /\ call.op = "write"
    /\ RAM' = [RAM EXCEPT ![ram_page] = [o \in Offsets |->
                 LET i == o - OffsetOf(call.addr + pos) + pos
                 IN  IF i \in Served(call, pos) THEN call.word[i] ELSE @[o]]]
    /\ RAM_PAGES' = Marked
    /\ Advance
    /\ UNCHANGED <<up, oldest_ram_page, last_ram_page, last_lba_page,
                   file, call, res, ram_page>>

Return ==
    /\ pc = "return"
    /\ pc' = "idle" /\ call' = NoCall /\ pos' = 0 /\ res' = Zeros(0)
    /\ ram_page' = 0
    /\ UNCHANGED <<up, RAM, table, file>>

Step ==
    \/ FastHit \/ ScanHit \/ Miss \/ FlushOk \/ FlushFail
    \/ LoadOk \/ LoadFail \/ ReadBytes \/ WriteBytes \/ Return

Next ==
    \/ init_vram \/ init_vram_fail
    \/ \E c \in ClientRequests : Call(c)
    \/ Step

(* The task that called runs on: the scheduler gives every ready task of    *)
(* the top priority its time slice.                                         *)
Spec == Init /\ [][Next]_vars /\ WF_vars(Step)

-----------------------------------------------------------------------------
PCs == {"idle", "lookup", "flush", "load", "access", "return"}

(* Type correctness of the pager's state and of the running call. *)
TypeOK ==
    /\ up \in BOOLEAN
    /\ RAM \in [Frames -> Block]
    /\ RAM_PAGES \in [Frames -> Descs]
    /\ oldest_ram_page \in Frames
    /\ last_ram_page \in Frames \cup {0}
    /\ last_lba_page \in 0..NPages
    /\ file \in [Pages -> Block]
    /\ pc \in PCs
    /\ ram_page \in Frames \cup {0}
    /\ IF pc = "idle"
       THEN call = NoCall /\ pos = 0 /\ res = Zeros(0)
       ELSE /\ call \in ClientRequests
            /\ pos \in 0..call.width
            /\ res \in Words(call.width)

(* Frames whose contents count: not the one being loaded over. *)
Live(f) == ~(pc = "load" /\ f = ram_page)

(* A page is cached in at most one frame, or a write to one copy would be   *)
(* lost when the other is evicted.                                          *)
OneFramePerPage ==
    \A f, g \in Frames : RAM_PAGES[f].lba # 0 /\ RAM_PAGES[f].lba = RAM_PAGES[g].lba => f = g

(* A live frame whose bit 15 is clear holds what the file holds, so it can  *)
(* be dropped without a write, even after torn writes and failed reads.     *)
CleanMatchesFile ==
    \A f \in Frames :
        up /\ Live(f) /\ RAM_PAGES[f].lba # 0 /\ ~RAM_PAGES[f].dirty
            => RAM[f] = file[RAM_PAGES[f].lba]

(* The one-entry lookup cache never names a frame that has since been given *)
(* to another page or has lost its page in a failed read.                   *)
LastAgrees ==
    last_ram_page # 0 /\ Live(last_ram_page)
        => RAM_PAGES[last_ram_page].lba = last_lba_page

(* Once a lookup has answered, the frame it answered with holds the page of *)
(* the byte being accessed.                                                 *)
RightFrame == pc = "access" => RAM_PAGES[ram_page].lba = lba_page

(* What else a running call relies on: it is mounted and inside the swap,   *)
(* the victim is the oldest frame and no frame holds the page wanted, and   *)
(* a dirty victim is in the file before it is loaded over.                  *)
CallInProgress ==
    /\ pc \in {"lookup", "flush", "load", "access"} =>
         up /\ InRange(call) /\ pos + Span(call) <= call.width
    /\ pos = 0 \/ Straddles(call) \/ pc \in {"idle", "return"}
    /\ pc \in {"flush", "load"} => ram_page = oldest_ram_page /\ Holders(lba_page) = {}
    /\ pc = "flush" => RAM_PAGES[ram_page].dirty
    /\ pc = "access" => ram_page # 0
    /\ pc = "return" => pos = call.width
    /\ pc = "load" /\ RAM_PAGES[ram_page].lba # 0
         => file[RAM_PAGES[ram_page].lba] = RAM[ram_page]
    /\ \A f \in Frames : RAM_PAGES[f].dirty => RAM_PAGES[f].lba # 0

(* The inductive invariant of the pager. *)
PagerInv ==
    /\ TypeOK /\ OneFramePerPage /\ CleanMatchesFile /\ LastAgrees /\ RightFrame
    /\ CallInProgress

(* A step that takes a frame away from a dirty page leaves the page's bytes *)
(* in the file, unless init_vram throws the whole swap away.                *)
NoDirtyPageDropped ==
    [][\A f \in Frames :
          pc # "idle" /\ RAM_PAGES[f].dirty /\ RAM_PAGES'[f].lba # RAM_PAGES[f].lba
              => file'[RAM_PAGES[f].lba] = RAM[f]]_vars

(* Every call returns, also when each transfer it makes fails. *)
CallReturns == pc # "idle" ~> pc = "idle"

-----------------------------------------------------------------------------
(* The memory the clients see: a page's bytes are in its frame if it has    *)
(* one and in the file otherwise.                                           *)
PageBytes(p) ==
    IF \E f \in Frames : Live(f) /\ RAM_PAGES[f].lba = p
    THEN RAM[CHOOSE f \in Frames : Live(f) /\ RAM_PAGES[f].lba = p]
    ELSE file[p]

FlatMem == IF up THEN [a \in Addresses |-> PageBytes(PageOf(a))[OffsetOf(a)]]
                 ELSE [a \in Addresses |-> 0]

FM == INSTANCE FlatMemory WITH
        mounted <- up, mem <- FlatMem, busy <- (pc # "idle")

(* The pager implements the flat memory. *)
ImplementsFlatMemory == FM!FMSpec
=============================================================================
