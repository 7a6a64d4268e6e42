--------------------------- MODULE RamPage_proofs ---------------------------
(***************************************************************************)
(* Proofs about the pager: its inductive invariant PagerInv, the safety    *)
(* invariants that follow, that no dirty page is dropped, and that the     *)
(* pager implements the flat memory, for any geometry of the swap.         *)
(***************************************************************************)
EXTENDS RamPage, TLAPS

-----------------------------------------------------------------------------
(* Address arithmetic: how a byte address splits into a page and an offset, *)
(* for any page size.                                                       *)
(* Division with remainder. *)
LEMMA DivMod ==
    ASSUME NEW a \in Nat, NEW d \in Nat \ {0}
    PROVE  a \div d \in Nat /\ a % d \in 0..(d - 1) /\ a = d * (a \div d) + (a % d)
  BY SMT

(* The quotient of a number below n * d is below n. *)
LEMMA DivBound ==
    ASSUME NEW a \in Nat, NEW d \in Nat \ {0}, NEW n \in Nat \ {0}, a < n * d
    PROVE  a \div d <= n - 1
  <1> DEFINE q == a \div d
             r == a % d
  <1>1. q \in Nat /\ r \in Nat /\ r < d /\ a = d * q + r
    BY DivMod
  <1>2. SUFFICES ASSUME q >= n PROVE FALSE
    BY <1>1
  <1> HIDE DEF q, r
  <1>3. d * q >= d * n
    BY <1>1, <1>2, SMT
  <1> QED BY <1>1, <1>2, <1>3, SMT

(* Quotient and remainder determine the number. *)
LEMMA DivModInjective ==
    ASSUME NEW a \in Nat, NEW b \in Nat, NEW d \in Nat \ {0},
           a \div d = b \div d, a % d = b % d
    PROVE  a = b
  BY DivMod

(* Adding less than what is left of the divisor changes the remainder only. *)
LEMMA DivModShift ==
    ASSUME NEW a \in Nat, NEW i \in Nat, NEW d \in Nat \ {0}, (a % d) + i < d
    PROVE  (a + i) \div d = a \div d /\ (a + i) % d = (a % d) + i
  <1> DEFINE q == a \div d
             r == a % d
             b == a + i
             q2 == b \div d
             r2 == b % d
  <1>1. q \in Nat /\ r \in Nat /\ r < d /\ a = d * q + r
    BY DivMod
  <1>2. q2 \in Nat /\ r2 \in Nat /\ r2 < d /\ b = d * q2 + r2
    <2>1. b \in Nat OBVIOUS
    <2> HIDE DEF b
    <2> QED BY <2>1, DivMod
  <1>3. r + i < d OBVIOUS
  <1>4. b = a + i OBVIOUS
  <1> HIDE DEF q, r, q2, r2, b
  <1>5. d * (q2 - q) = r + i - r2
    BY <1>1, <1>2, <1>4, SMT
  <1>6. q2 = q
    <2>1. CASE q2 > q
      <3>1. d * (q2 - q) >= d BY <2>1, <1>1, <1>2, SMT
      <3> QED BY <3>1, <1>5, <1>1, <1>2, <1>3, SMT
    <2>2. CASE q2 < q
      <3>1. d * (q - q2) >= d BY <2>2, <1>1, <1>2, SMT
      <3> QED BY <3>1, <1>5, <1>1, <1>2, <1>3, SMT
    <2> QED BY <2>1, <2>2, <1>1, <1>2
  <1>7. r2 = r + i BY <1>1, <1>2, <1>4, <1>6
  <1> QED BY <1>6, <1>7 DEF q, r, q2, r2, b

(* Every address of the swap has a page and an offset in it. *)
LEMMA AddressSplit ==
    ASSUME NEW a \in Addresses
    PROVE  PageOf(a) \in Pages /\ OffsetOf(a) \in Offsets
  <1>1. a \in Nat /\ a < NPages * PageSize
    BY VramAssumption DEF Addresses, SwapSize
  <1>2. a \div PageSize <= NPages - 1
    BY <1>1, DivBound, VramAssumption
  <1>3. a \div PageSize \in Nat /\ a % PageSize \in 0..(PageSize - 1)
    BY <1>1, DivMod, VramAssumption
  <1> DEFINE q == a \div PageSize
  <1>4. q \in Nat /\ q <= NPages - 1
    BY <1>2, <1>3
  <1> HIDE DEF q
  <1>5. q + 1 \in 1..NPages
    BY <1>4, VramAssumption
  <1> QED BY <1>3, <1>5 DEF PageOf, OffsetOf, Pages, Offsets, q

(* Page and offset identify the address. *)
LEMMA AddressInjective ==
    ASSUME NEW a \in Addresses, NEW b \in Addresses,
           PageOf(a) = PageOf(b), OffsetOf(a) = OffsetOf(b)
    PROVE  a = b
  <1>1. a \in Nat /\ b \in Nat
    BY VramAssumption DEF Addresses, SwapSize
  <1>2. a \div PageSize \in Nat /\ b \div PageSize \in Nat
    BY <1>1, DivMod, VramAssumption
  <1> DEFINE q == a \div PageSize
             r == b \div PageSize
  <1>3. q \in Nat /\ r \in Nat /\ q + 1 = r + 1
    BY <1>2 DEF PageOf
  <1> HIDE DEF q, r
  <1>4. q = r
    BY <1>3
  <1>5. a \div PageSize = b \div PageSize
    BY <1>4 DEF q, r
  <1>6. a % PageSize = b % PageSize
    BY DEF OffsetOf
  <1> QED BY <1>1, <1>5, <1>6, DivModInjective, VramAssumption

(* Bytes further on in the same page keep the page. *)
LEMMA SamePage ==
    ASSUME NEW a \in Nat, NEW i \in Nat, OffsetOf(a) + i < PageSize
    PROVE  PageOf(a + i) = PageOf(a) /\ OffsetOf(a + i) = OffsetOf(a) + i
  BY DivModShift, VramAssumption DEF PageOf, OffsetOf

(* The bytes one lookup serves lie in one page and inside the swap. *)
LEMMA ServedInPage ==
    ASSUME NEW c \in ClientRequests, InRange(c),
           NEW p \in Nat, p + Span(c) <= c.width, p = 0 \/ Straddles(c),
           NEW i \in Served(c, p)
    PROVE  /\ i \in 0..(c.width - 1)
           /\ c.addr + i \in Addresses /\ c.addr + p \in Addresses
           /\ PageOf(c.addr + i) = PageOf(c.addr + p)
           /\ OffsetOf(c.addr + i) = OffsetOf(c.addr + p) + (i - p)
  <1>1. c.width \in 1..PageSize /\ c.addr \in Nat /\ PageSize \in Nat \ {0}
    BY VramAssumption DEF ClientRequests, Requests
  <1>2. Span(c) \in 1..PageSize
    BY <1>1 DEF Span
  <1>3. i \in p..(p + Span(c) - 1)
    BY DEF Served
  <1>4. i \in 0..(c.width - 1) /\ p \in 0..(c.width - 1)
    BY <1>1, <1>2, <1>3
  <1>5. c.addr + i \in Addresses /\ c.addr + p \in Addresses
    BY <1>1, <1>4, VramAssumption DEF InRange, Addresses, SwapSize
  <1>6. CASE Straddles(c)
    <2>1. Span(c) = 1 /\ i = p
      BY <1>6, <1>3 DEF Span
    <2>2. OffsetOf(c.addr + p) \in Int
      BY <1>5, AddressSplit, VramAssumption DEF Offsets
    <2> QED BY <1>4, <1>5, <2>1, <2>2
  <1>7. CASE ~Straddles(c)
    <2>1. p = 0 /\ Span(c) = c.width
      BY <1>7 DEF Span
    <2>2. OffsetOf(c.addr) \in Int /\ OffsetOf(c.addr) <= PageSize - c.width
      <3>1. OffsetOf(c.addr) \in 0..(PageSize - 1)
        BY <1>1, DivMod DEF OffsetOf
      <3> QED BY <1>7, <1>1, <3>1 DEF Straddles
    <2>3. c.addr + p = c.addr
      BY <2>1, <1>1
    <2>4. OffsetOf(c.addr) + i < PageSize /\ i \in Nat
      BY <2>2, <1>4, <1>1
    <2>5. PageOf(c.addr + i) = PageOf(c.addr) /\ OffsetOf(c.addr + i) = OffsetOf(c.addr) + i
      BY <2>4, <1>1, SamePage
    <2> QED BY <1>4, <1>5, <2>1, <2>3, <2>5, <2>2
  <1> QED BY <1>6, <1>7

-----------------------------------------------------------------------------
(* The pager.                                                               *)
(* What the type of a request says of its parts. *)
LEMMA RequestFacts ==
    ASSUME NEW c \in ClientRequests
    PROVE  /\ c.op \in Ops /\ c.addr \in Nat
           /\ c.width \in Nat \ {0} /\ c.width <= PageSize
           /\ c.word \in Words(c.width)
           /\ Zeros(c.width) \in Words(c.width)
           /\ Span(c) \in 1..c.width
           /\ ~Straddles(c) => Span(c) = c.width
  BY VramAssumption DEF ClientRequests, Requests, Words, Zeros, Span, Ops

(* The current byte of a running call is in the swap. *)
LEMMA CurrentByte ==
    ASSUME PagerInv, pc \in {"lookup", "flush", "load", "access"}
    PROVE  /\ call \in ClientRequests /\ pos \in Nat
           /\ pos + Span(call) <= call.width
           /\ call.addr + pos \in Addresses
           /\ lba_page \in Pages /\ OffsetOf(call.addr + pos) \in Offsets
  <1>1. call \in ClientRequests /\ pos \in Nat /\ InRange(call)
        /\ pos + Span(call) <= call.width
    BY RequestFacts DEF PagerInv, TypeOK, CallInProgress
  <1>2. call.addr + pos \in Addresses
    BY <1>1, RequestFacts, VramAssumption DEF InRange, Addresses, SwapSize
  <1> QED BY <1>1, <1>2, AddressSplit DEF lba_page

(* Advance keeps the part of the invariant about the call. *)
LEMMA AdvanceFacts ==
    ASSUME PagerInv, pc \in {"flush", "load", "access"}, Advance, call' = call,
           res' \in Words(call.width)
    PROVE  /\ pc' \in {"lookup", "return"}
           /\ call' \in ClientRequests /\ pos' \in 0..call'.width
           /\ res' \in Words(call'.width)
           /\ pc' = "return" => pos' = call'.width
           /\ pc' = "lookup" =>
                up /\ InRange(call') /\ pos' + Span(call') <= call'.width /\ Straddles(call')
  <1>1. call \in ClientRequests /\ pos \in Nat /\ InRange(call) /\ up
        /\ pos + Span(call) <= call.width
    BY CurrentByte DEF PagerInv, CallInProgress
  <1>2. /\ Span(call) \in 1..call.width /\ call.width \in Nat
        /\ ~Straddles(call) => Span(call) = call.width
    BY <1>1, RequestFacts
  <1>3. pos = 0 \/ Straddles(call)
    BY DEF PagerInv, CallInProgress
  <1>4. pc' = "lookup" => pos + Span(call) < call.width
    BY <1>1, <1>2 DEF Advance
  <1>5. pc' = "lookup" => Straddles(call) /\ Span(call) = 1
    BY <1>1, <1>2, <1>3, <1>4 DEF Span
  <1> QED BY <1>1, <1>2, <1>4, <1>5 DEF Advance

(* The initial state satisfies the invariant. *)
LEMMA InitInv == Init => PagerInv
  <1> SUFFICES ASSUME Init PROVE PagerInv
    OBVIOUS
  <1> USE VramAssumption, FramesAssumption
  <1>1. TypeOK
    <2>1. /\ RAM \in [Frames -> Block] /\ RAM_PAGES \in [Frames -> Descs]
          /\ oldest_ram_page \in Frames /\ last_ram_page = 0 /\ last_lba_page = 0
      BY DEF Init, Frames, Descs, Unused, Block
    <2>2. file \in [Pages -> Block]
      BY DEF Init, Block
    <2>3. up \in BOOLEAN
      BY DEF Init
    <2>4. last_lba_page \in 0..NPages
      BY <2>1
    <2>5. /\ pc = "idle" /\ call = NoCall /\ pos = 0 /\ res = Zeros(0) /\ ram_page = 0
      BY DEF Init
    <2> QED BY <2>1, <2>2, <2>3, <2>4, <2>5 DEF TypeOK, PCs
  <1> QED BY <1>1 DEF Init, PagerInv, OneFramePerPage, CleanMatchesFile, LastAgrees,
                      RightFrame, CallInProgress, Unused, Live

(* Every step keeps the invariant. *)
LEMMA StepInv == PagerInv /\ [Next]_vars => PagerInv'
  <1> SUFFICES ASSUME PagerInv, [Next]_vars PROVE PagerInv'
    OBVIOUS
  <1> USE VramAssumption, FramesAssumption
  <1>t. TypeOK
    BY DEF PagerInv
  <1>1. CASE init_vram
    <2>1. TypeOK'
      <3>1. file' \in [Pages -> Block]
        BY <1>1 DEF init_vram, FreshFile
      <3>2. /\ RAM' \in [Frames -> Block] /\ RAM_PAGES' \in [Frames -> Descs]
            /\ oldest_ram_page' \in Frames /\ last_ram_page' = 0 /\ last_lba_page' = 0
        BY <1>1 DEF init_vram, ResetTable, Frames, Descs, Unused, Block
      <3> QED BY <1>1, <1>t, <3>1, <3>2 DEF init_vram, TypeOK, request
    <2> QED BY <1>1, <2>1 DEF init_vram, ResetTable, PagerInv, OneFramePerPage,
                  CleanMatchesFile, LastAgrees, RightFrame, CallInProgress, Unused, Live
  <1>2. CASE init_vram_fail
    <2>1. CASE ResetTable
      <3>1. TypeOK'
        <4>1. /\ RAM' \in [Frames -> Block] /\ RAM_PAGES' \in [Frames -> Descs]
              /\ oldest_ram_page' \in Frames /\ last_ram_page' = 0 /\ last_lba_page' = 0
          BY <2>1 DEF ResetTable, Frames, Descs, Unused, Block
        <4>2. up' \in BOOLEAN
          BY <1>2 DEF init_vram_fail
        <4>3. UNCHANGED <<file, pc, call, pos, res, ram_page>> /\ pc = "idle"
          BY <1>2 DEF init_vram_fail, request
        <4> QED BY <1>t, <4>1, <4>2, <4>3 DEF TypeOK
      <3> QED BY <1>2, <2>1, <3>1 DEF init_vram_fail, ResetTable, PagerInv, OneFramePerPage,
                  CleanMatchesFile, LastAgrees, RightFrame, CallInProgress, Unused, Live
    <2>2. CASE UNCHANGED <<RAM, table>>
      <3>1. TypeOK'
        BY <1>2, <2>2, <1>t DEF init_vram_fail, TypeOK, table, request
      <3> QED BY <1>2, <2>2, <3>1 DEF init_vram_fail, PagerInv, OneFramePerPage, table, request,
                  CleanMatchesFile, LastAgrees, RightFrame, CallInProgress, Live
    <2> QED BY <1>2, <2>1, <2>2 DEF init_vram_fail
  <1>3. ASSUME NEW c \in ClientRequests, Call(c) PROVE PagerInv'
    <2>0. pc = "idle"
      BY <1>3 DEF Call
    <2>1. TypeOK'
      <3>1. /\ call' \in ClientRequests /\ pos' \in 0..call'.width
            /\ res' \in Words(call'.width) /\ pc' \in {"lookup", "return"}
        BY <1>3, RequestFacts DEF Call
      <3> QED BY <1>3, <1>t, <3>1 DEF Call, TypeOK, table, PCs
    <2>2. CallInProgress'
      BY <1>3, <2>0, RequestFacts DEF Call, PagerInv, CallInProgress, table
    <2> QED BY <1>3, <2>0, <2>1, <2>2 DEF Call, PagerInv, OneFramePerPage, table,
                  CleanMatchesFile, LastAgrees, RightFrame, Live
  <1>4. CASE FastHit
    <2>1. TypeOK'
      BY <1>4, <1>t DEF FastHit, LastMatches, TypeOK, table, request, PCs
    <2>2. RightFrame'
      BY <1>4 DEF FastHit, LastMatches, PagerInv, LastAgrees, Live, RightFrame, lba_page, table, request
    <2> QED BY <1>4, <2>1, <2>2 DEF FastHit, LastMatches, PagerInv, OneFramePerPage, table, request,
                  CleanMatchesFile, LastAgrees, Live, CallInProgress
  <1>5. CASE ScanHit
    <2>0. lba_page \in Pages
      BY <1>5, CurrentByte DEF ScanHit, LastMatches
    <2>1. TypeOK'
      BY <1>5, <1>t, <2>0 DEF ScanHit, LastMatches, TypeOK, request, PCs, Holders, Pages
    <2>2. RightFrame' /\ LastAgrees'
      BY <1>5, <2>0 DEF ScanHit, LastMatches, PagerInv, LastAgrees, Live, RightFrame, lba_page, request, Holders
    <2>3. ram_page' # 0
      BY <1>5 DEF ScanHit, LastMatches, Holders, Frames
    <2> QED BY <1>5, <2>1, <2>2, <2>3 DEF ScanHit, LastMatches, PagerInv, OneFramePerPage, request,
                  CleanMatchesFile, Live, CallInProgress
  <1>6. CASE Miss
    <2>1. TypeOK'
      BY <1>6, <1>t DEF Miss, AfterMiss, TypeOK, table, request, PCs
    <2>2. CallInProgress'
      BY <1>6, <1>t DEF Miss, AfterMiss, PagerInv, CallInProgress, table, request, lba_page, Holders,
                  CleanMatchesFile, Live, TypeOK
    <2> QED BY <1>6, <2>1, <2>2 DEF Miss, AfterMiss, PagerInv, OneFramePerPage, table, request,
                  CleanMatchesFile, LastAgrees, Live, RightFrame
  <1>7. CASE FlushOk
    <2>0. /\ pc = "flush" /\ ram_page = oldest_ram_page /\ ram_page \in Frames
          /\ RAM_PAGES[ram_page].lba \in Pages
      BY <1>7, <1>t DEF FlushOk, PagerInv, CallInProgress, TypeOK, Descs, Pages
    <2>1. TypeOK'
      BY <1>7, <1>t, <2>0 DEF FlushOk, TypeOK, table, request, PCs
    <2>2. CallInProgress'
      BY <1>7, <1>t, <2>0 DEF FlushOk, PagerInv, CallInProgress, table, request, lba_page, Holders,
                  TypeOK
    <2>3. CleanMatchesFile'
      BY <1>7, <1>t, <2>0 DEF FlushOk, PagerInv, CleanMatchesFile, OneFramePerPage, Live, TypeOK,
                  table, request
    <2> QED BY <1>7, <2>1, <2>2, <2>3 DEF FlushOk, PagerInv, OneFramePerPage, table, request,
                  LastAgrees, Live, RightFrame
  <1>8. CASE FlushFail
    <2>0. /\ pc = "flush" /\ ram_page \in Frames /\ RAM_PAGES[ram_page].lba \in Pages
          /\ RAM_PAGES[ram_page].dirty /\ res \in Words(call.width)
      BY <1>8, <1>t DEF FlushFail, GiveUp, PagerInv, CallInProgress, TypeOK, Descs, Pages
    <2>1. PICK b \in Block : file' = [file EXCEPT ![RAM_PAGES[ram_page].lba] = b]
      BY <1>8 DEF FlushFail, GiveUp
    <2>2. /\ pc' \in {"lookup", "return"}
          /\ call' \in ClientRequests /\ pos' \in 0..call'.width
          /\ res' \in Words(call'.width)
          /\ pc' = "return" => pos' = call'.width
          /\ pc' = "lookup" =>
                up /\ InRange(call') /\ pos' + Span(call') <= call'.width /\ Straddles(call')
      BY <1>8, <2>0, AdvanceFacts DEF FlushFail, GiveUp
    <2>3. TypeOK'
      BY <1>8, <1>t, <2>0, <2>1, <2>2 DEF FlushFail, GiveUp, TypeOK, table, PCs
    <2>4. CallInProgress'
      BY <1>8, <1>t, <2>0, <2>2 DEF FlushFail, GiveUp, PagerInv, CallInProgress, table
    <2>5. CleanMatchesFile'
      BY <1>8, <1>t, <2>0, <2>1, <2>2 DEF FlushFail, GiveUp, PagerInv, CleanMatchesFile, OneFramePerPage,
                  Live, TypeOK, table
    <2> QED BY <1>8, <2>0, <2>2, <2>3, <2>4, <2>5 DEF FlushFail, GiveUp, PagerInv, OneFramePerPage, table,
                  LastAgrees, Live, RightFrame
  <1>9. CASE LoadOk
    <2>0. /\ pc = "load" /\ ram_page = oldest_ram_page /\ ram_page \in Frames
          /\ lba_page \in Pages /\ Holders(lba_page) = {}
      BY <1>9, <1>t, CurrentByte DEF LoadOk, NextOldest, PagerInv, CallInProgress, TypeOK
    <2>1. TypeOK'
      BY <1>9, <1>t, <2>0 DEF LoadOk, NextOldest, TypeOK, request, PCs, Frames, Descs, Pages
    <2>2. CallInProgress'
      <3>1. ram_page # 0
        BY <2>0 DEF Frames
      <3>2. \A f \in Frames : RAM_PAGES'[f].dirty => RAM_PAGES'[f].lba # 0
        BY <1>9, <1>t, <2>0 DEF LoadOk, NextOldest, PagerInv, CallInProgress, TypeOK
      <3> QED BY <1>9, <2>0, <3>1, <3>2 DEF LoadOk, NextOldest, PagerInv, CallInProgress, request
    <2>3. OneFramePerPage'
      BY <1>9, <1>t, <2>0 DEF LoadOk, NextOldest, PagerInv, OneFramePerPage, Holders, TypeOK
    <2>4. CleanMatchesFile'
      BY <1>9, <1>t, <2>0 DEF LoadOk, NextOldest, PagerInv, CleanMatchesFile, Live, TypeOK
    <2>5. LastAgrees' /\ RightFrame'
      BY <1>9, <1>t, <2>0 DEF LoadOk, NextOldest, LastAgrees, RightFrame, TypeOK, request, lba_page
    <2> QED BY <2>1, <2>2, <2>3, <2>4, <2>5 DEF PagerInv
  <1>10. CASE LoadFail
    <2>0. /\ pc = "load" /\ ram_page \in Frames /\ res \in Words(call.width)
      BY <1>10, <1>t DEF LoadFail, Emptied, ForgetLast, GiveUp, PagerInv, CallInProgress, TypeOK
    <2>1. PICK b \in Block : RAM' = [RAM EXCEPT ![ram_page] = b]
      BY <1>10 DEF LoadFail, Emptied, ForgetLast, GiveUp
    <2>2. /\ pc' \in {"lookup", "return"}
          /\ call' \in ClientRequests /\ pos' \in 0..call'.width
          /\ res' \in Words(call'.width)
          /\ pc' = "return" => pos' = call'.width
          /\ pc' = "lookup" =>
                up /\ InRange(call') /\ pos' + Span(call') <= call'.width /\ Straddles(call')
      BY <1>10, <2>0, AdvanceFacts DEF LoadFail, Emptied, ForgetLast, GiveUp
    <2>3. TypeOK'
      BY <1>10, <1>t, <2>0, <2>1, <2>2 DEF LoadFail, Emptied, ForgetLast, GiveUp, TypeOK, PCs, Descs, Unused
    <2>4. CallInProgress'
      BY <1>10, <1>t, <2>0, <2>2 DEF LoadFail, Emptied, ForgetLast, GiveUp, PagerInv, CallInProgress, TypeOK, Unused
    <2>5. OneFramePerPage'
      BY <1>10, <1>t, <2>0 DEF LoadFail, Emptied, ForgetLast, GiveUp, PagerInv, OneFramePerPage, TypeOK, Unused
    <2>6. CleanMatchesFile'
      <3> SUFFICES ASSUME NEW f \in Frames, up', RAM_PAGES'[f].lba # 0, ~RAM_PAGES'[f].dirty
                   PROVE  RAM'[f] = file'[RAM_PAGES'[f].lba]
        BY DEF CleanMatchesFile
      <3>1. f # ram_page
        BY <1>10, <1>t, <2>0 DEF LoadFail, Emptied, ForgetLast, GiveUp, TypeOK, Unused
      <3>2. RAM'[f] = RAM[f] /\ RAM_PAGES'[f] = RAM_PAGES[f] /\ up /\ file' = file
        BY <1>10, <1>t, <2>0, <2>1, <3>1 DEF LoadFail, Emptied, ForgetLast, GiveUp, TypeOK
      <3> QED BY <3>1, <3>2 DEF PagerInv, CleanMatchesFile, Live
    <2>7. LastAgrees'
      BY <1>10, <1>t, <2>0, <2>2 DEF LoadFail, Emptied, ForgetLast, GiveUp, PagerInv, LastAgrees, Live, TypeOK, Unused
    <2> QED BY <2>2, <2>3, <2>4, <2>5, <2>6, <2>7 DEF PagerInv, RightFrame
  <1>11. CASE ReadBytes
    <2>0. /\ pc = "access" /\ call \in ClientRequests /\ res \in Words(call.width)
          /\ ram_page \in Frames
      BY <1>11, <1>t, CurrentByte DEF ReadBytes, TypeOK, PagerInv, RightFrame, CallInProgress
    <2>1. res' \in Words(call.width)
      <3>1. RAM[ram_page] \in Block
        BY <2>0, <1>t DEF TypeOK
      <3>2. \A i \in Served(call, pos) : InPage(i) \in Offsets
        <4> SUFFICES ASSUME NEW i \in Served(call, pos) PROVE InPage(i) \in Offsets
          OBVIOUS
        <4>1. /\ InRange(call) /\ pos \in Nat /\ pos + Span(call) <= call.width
              /\ pos = 0 \/ Straddles(call)
          BY <2>0, CurrentByte DEF PagerInv, CallInProgress
        <4>2. call.addr + i \in Addresses /\ OffsetOf(call.addr + i) = InPage(i)
          BY <2>0, <4>1, ServedInPage DEF InPage
        <4> QED BY <4>2, AddressSplit
      <3> QED BY <1>11, <2>0, <3>1, <3>2 DEF ReadBytes, Words, Block
    <2>2. /\ pc' \in {"lookup", "return"}
          /\ call' \in ClientRequests /\ pos' \in 0..call'.width
          /\ res' \in Words(call'.width)
          /\ pc' = "return" => pos' = call'.width
          /\ pc' = "lookup" =>
                up /\ InRange(call') /\ pos' + Span(call') <= call'.width /\ Straddles(call')
      BY <1>11, <2>0, <2>1, AdvanceFacts DEF ReadBytes
    <2>3. TypeOK'
      BY <1>11, <1>t, <2>2 DEF ReadBytes, TypeOK, table, PCs
    <2> QED BY <1>11, <2>0, <2>2, <2>3 DEF ReadBytes, PagerInv, OneFramePerPage, table, Live,
                  LastAgrees, RightFrame, CleanMatchesFile, CallInProgress
  <1>12. CASE WriteBytes
    <2>0. /\ pc = "access" /\ call \in ClientRequests /\ res \in Words(call.width)
          /\ ram_page \in Frames /\ RAM_PAGES[ram_page].lba \in Pages
      BY <1>12, <1>t, CurrentByte DEF WriteBytes, Marked, TypeOK, PagerInv, RightFrame, CallInProgress
    <2>1. \A i \in Served(call, pos) : call.word[i] \in Byte
      <3>1. /\ InRange(call) /\ pos \in Nat /\ pos + Span(call) <= call.width
            /\ pos = 0 \/ Straddles(call)
        BY <2>0, CurrentByte DEF PagerInv, CallInProgress
      <3>2. \A i \in Served(call, pos) : i \in 0..(call.width - 1)
        BY <2>0, <3>1, ServedInPage
      <3> QED BY <2>0, <3>2, RequestFacts DEF Words
    <2>2. /\ pc' \in {"lookup", "return"}
          /\ call' \in ClientRequests /\ pos' \in 0..call'.width
          /\ res' \in Words(call'.width)
          /\ pc' = "return" => pos' = call'.width
          /\ pc' = "lookup" =>
                up /\ InRange(call') /\ pos' + Span(call') <= call'.width /\ Straddles(call')
      BY <1>12, <2>0, AdvanceFacts DEF WriteBytes, Marked
    <2>3. RAM' \in [Frames -> Block]
      <3> DEFINE blk == [o \in Offsets |->
                           LET i == o - OffsetOf(call.addr + pos) + pos
                           IN  IF i \in Served(call, pos) THEN call.word[i]
                                                          ELSE RAM[ram_page][o]]
      <3>1. blk \in Block
        BY <1>t, <2>0, <2>1 DEF TypeOK, Block
      <3>2. RAM' = [RAM EXCEPT ![ram_page] = blk]
        BY <1>12 DEF WriteBytes, Marked
      <3> HIDE DEF blk
      <3> QED BY <1>t, <3>1, <3>2 DEF TypeOK
    <2>4. /\ RAM_PAGES' \in [Frames -> Descs]
          /\ \A f \in Frames : RAM_PAGES'[f].lba = RAM_PAGES[f].lba
          /\ \A f \in Frames : f # ram_page => RAM_PAGES'[f] = RAM_PAGES[f]
          /\ RAM_PAGES'[ram_page].dirty
      BY <1>12, <1>t, <2>0 DEF WriteBytes, Marked, TypeOK, Descs
    <2>5. TypeOK'
      BY <1>12, <1>t, <2>2, <2>3, <2>4 DEF WriteBytes, Marked, TypeOK, PCs
    <2>6. CallInProgress'
      <3>1. \A f \in Frames : RAM_PAGES'[f].dirty => RAM_PAGES'[f].lba # 0
        BY <2>0, <2>4, VramAssumption DEF PagerInv, CallInProgress, Pages
      <3>2. up' = up
        BY <1>12 DEF WriteBytes, Marked
      <3> QED BY <2>2, <3>1, <3>2 DEF CallInProgress
    <2>7. CleanMatchesFile'
      <3> SUFFICES ASSUME NEW f \in Frames, up', RAM_PAGES'[f].lba # 0, ~RAM_PAGES'[f].dirty
                   PROVE  RAM'[f] = file'[RAM_PAGES'[f].lba]
        BY DEF CleanMatchesFile
      <3>1. f # ram_page
        BY <2>4
      <3>2. RAM'[f] = RAM[f] /\ RAM_PAGES'[f] = RAM_PAGES[f] /\ up /\ file' = file
        BY <1>12, <1>t, <2>4, <3>1 DEF WriteBytes, Marked, TypeOK
      <3> QED BY <2>0, <3>1, <3>2 DEF PagerInv, CleanMatchesFile, Live
    <2> QED BY <1>12, <1>t, <2>0, <2>2, <2>4, <2>5, <2>6, <2>7
            DEF WriteBytes, Marked, PagerInv, OneFramePerPage, LastAgrees, RightFrame, Live, TypeOK
  <1>13. CASE Return
    <2>1. TypeOK'
      BY <1>13, <1>t DEF Return, TypeOK, table, PCs
    <2> QED BY <1>13, <2>1 DEF Return, PagerInv, OneFramePerPage, table, Live,
                  LastAgrees, RightFrame, CleanMatchesFile, CallInProgress
  <1>14. CASE UNCHANGED vars
    BY <1>14 DEF vars, table, request, PagerInv, TypeOK, OneFramePerPage, CleanMatchesFile, LastAgrees,
                 RightFrame, CallInProgress, Live, Holders, lba_page
  <1> QED BY <1>1, <1>2, <1>3, <1>4, <1>5, <1>6, <1>7, <1>8, <1>9, <1>10, <1>11, <1>12, <1>13,
             <1>14 DEF Next, Step

(* PagerInv is an invariant of the pager. *)
THEOREM PagerInvariant == Spec => []PagerInv
  <1>1. Init => PagerInv
    BY InitInv
  <1>2. PagerInv /\ [Next]_vars => PagerInv'
    BY StepInv
  <1> QED BY <1>1, <1>2, PTL DEF Spec

(* Type correctness, for every geometry of the swap. *)
THEOREM TypeCorrect == Spec => []TypeOK
  <1>1. PagerInv => TypeOK
    BY DEF PagerInv
  <1> QED BY <1>1, PagerInvariant, PTL

(* No page is ever in two frames. *)
THEOREM SingleCopy == Spec => []OneFramePerPage
  <1>1. PagerInv => OneFramePerPage
    BY DEF PagerInv
  <1> QED BY <1>1, PagerInvariant, PTL

(* A clean frame may be dropped: the file has its bytes. *)
THEOREM CleanFramesAreInFile == Spec => []CleanMatchesFile
  <1>1. PagerInv => CleanMatchesFile
    BY DEF PagerInv
  <1> QED BY <1>1, PagerInvariant, PTL

(* The lookup cache and the answer of a lookup name the right frame. *)
THEOREM LookupsAreRight == Spec => [](LastAgrees /\ RightFrame)
  <1>1. PagerInv => LastAgrees /\ RightFrame
    BY DEF PagerInv
  <1> QED BY <1>1, PagerInvariant, PTL

(* A step of a call that takes a frame from a dirty page leaves its bytes  *)
(* in the file.                                                             *)
THEOREM DirtyPagesReachTheFile == Spec => NoDirtyPageDropped
  <1> DEFINE Safe == \A f \in Frames :
          pc # "idle" /\ RAM_PAGES[f].dirty /\ RAM_PAGES'[f].lba # RAM_PAGES[f].lba
              => file'[RAM_PAGES[f].lba] = RAM[f]
  <1>1. PagerInv /\ [Next]_vars => [Safe]_vars
    <2> SUFFICES ASSUME PagerInv, [Next]_vars, NEW f \in Frames,
                        pc # "idle", RAM_PAGES[f].dirty,
                        RAM_PAGES'[f].lba # RAM_PAGES[f].lba
                 PROVE  file'[RAM_PAGES[f].lba] = RAM[f]
      BY DEF Safe
    <2>1. RAM_PAGES[f].lba # 0
      BY DEF PagerInv, CallInProgress
    <2>2. CASE LoadOk
      <3>1. f = ram_page
        BY <2>2 DEF LoadOk, NextOldest, PagerInv, TypeOK
      <3> QED BY <2>1, <2>2, <3>1 DEF LoadOk, NextOldest, PagerInv, CallInProgress
    <2>3. CASE LoadFail
      <3>1. f = ram_page
        BY <2>3 DEF LoadFail, Emptied, ForgetLast, GiveUp, PagerInv, TypeOK
      <3> QED BY <2>1, <2>3, <3>1 DEF LoadFail, Emptied, ForgetLast, GiveUp, PagerInv, CallInProgress
    <2>4. CASE WriteBytes
      <3>1. RAM_PAGES'[f].lba = RAM_PAGES[f].lba
        BY <2>4 DEF WriteBytes, Marked, PagerInv, TypeOK, Descs
      <3> QED BY <3>1
    <2>5. RAM_PAGES' # RAM_PAGES
      OBVIOUS
    <2> QED BY <2>2, <2>3, <2>4, <2>5 DEF Next, Step, init_vram, init_vram_fail, Call, FastHit, LastMatches,
                  ScanHit, LastMatches, Miss, AfterMiss, FlushOk, FlushFail, GiveUp, ReadBytes, Return, table, vars
  <1>2. NoDirtyPageDropped <=> [][Safe]_vars
    BY DEF NoDirtyPageDropped, Safe
  <1> QED BY <1>1, <1>2, PagerInvariant, PTL DEF Spec

-----------------------------------------------------------------------------
(* The refinement: every step of a call is a step of FlatMemory on the     *)
(* memory the clients see, or leaves that memory alone.                    *)
(* The bytes of a page are those of the live frame that holds it, or the   *)
(* file's when none does.                                                  *)
PageBytesFact ==
    \A p \in Pages :
        /\ \A f \in Frames : Live(f) /\ RAM_PAGES[f].lba = p => PageBytes(p) = RAM[f]
        /\ (\A f \in Frames : ~(Live(f) /\ RAM_PAGES[f].lba = p)) => PageBytes(p) = file[p]

(* OneFramePerPage makes PageBytes independent of the frame CHOOSE takes.  *)
LEMMA PageBytesWhere == PagerInv => PageBytesFact
  <1> SUFFICES ASSUME PagerInv, NEW p \in Pages
               PROVE  /\ \A f \in Frames : Live(f) /\ RAM_PAGES[f].lba = p
                                              => PageBytes(p) = RAM[f]
                      /\ (\A f \in Frames : ~(Live(f) /\ RAM_PAGES[f].lba = p))
                                              => PageBytes(p) = file[p]
    BY DEF PageBytesFact
  <1>1. ASSUME NEW f \in Frames, Live(f), RAM_PAGES[f].lba = p
        PROVE  PageBytes(p) = RAM[f]
    <2> DEFINE g == CHOOSE g \in Frames : Live(g) /\ RAM_PAGES[g].lba = p
    <2>1. g \in Frames /\ RAM_PAGES[g].lba = p
      BY <1>1
    <2>2. g = f
      BY <1>1, <2>1, VramAssumption DEF PagerInv, OneFramePerPage, Pages
    <2>3. PageBytes(p) = RAM[g]
      BY <1>1 DEF PageBytes
    <2> QED BY <2>2, <2>3
  <1>2. ASSUME \A f \in Frames : ~(Live(f) /\ RAM_PAGES[f].lba = p)
        PROVE  PageBytes(p) = file[p]
    BY <1>2 DEF PageBytes
  <1> QED BY <1>1, <1>2

(* Every page has a block of bytes. *)
LEMMA PageBytesType ==
    ASSUME PagerInv, NEW p \in Pages PROVE PageBytes(p) \in Block
  <1>1. CASE \E f \in Frames : Live(f) /\ RAM_PAGES[f].lba = p
    BY <1>1, PageBytesWhere DEF PageBytesFact, PagerInv, TypeOK
  <1>2. CASE ~ \E f \in Frames : Live(f) /\ RAM_PAGES[f].lba = p
    BY <1>2, PageBytesWhere DEF PageBytesFact, PagerInv, TypeOK
  <1> QED BY <1>1, <1>2

(* If no page's bytes change, neither does the memory the clients see. *)
LEMMA MemoryUnchanged ==
    ASSUME up' = up, \A p \in Pages : PageBytes(p)' = PageBytes(p)
    PROVE  FlatMem' = FlatMem
  <1>1. \A a \in Addresses : PageOf(a) \in Pages
    BY AddressSplit
  <1> QED BY <1>1 DEF FlatMem

(* The last byte of the swap is the last byte of its last page. *)
LEMMA LastByte ==
    /\ SwapSize - 1 \in Addresses
    /\ PageOf(SwapSize - 1) = NPages /\ OffsetOf(SwapSize - 1) = PageSize - 1
  <1> DEFINE a == SwapSize - 1
             q == a \div PageSize
             r == a % PageSize
  <1>1. NPages * PageSize >= 1
    BY VramAssumption, SMT
  <1>2. a \in Addresses /\ a \in Nat
    BY <1>1, VramAssumption DEF Addresses, SwapSize
  <1>3. q \in Nat /\ r \in 0..(PageSize - 1) /\ a = PageSize * q + r
    BY <1>2, DivMod, VramAssumption
  <1>4. a = NPages * PageSize - 1
    BY DEF SwapSize
  <1> HIDE DEF a, q, r
  <1>5. q = NPages - 1
    <2>1. PageSize * (NPages - q) = r + 1
      BY <1>3, <1>4, VramAssumption, SMT
    <2>2. CASE q < NPages - 1
      <3>1. PageSize * (NPages - q) >= PageSize * 2
        BY <2>2, <1>3, VramAssumption, SMT
      <3> QED BY <2>1, <3>1, <1>3, VramAssumption, SMT
    <2>3. CASE q > NPages - 1
      <3>1. PageSize * (NPages - q) <= 0
        BY <2>3, <1>3, VramAssumption, SMT
      <3> QED BY <2>1, <3>1, <1>3, VramAssumption, SMT
    <2> QED BY <2>2, <2>3, <1>3, VramAssumption
  <1>6. r = PageSize - 1
    <2>1. PageSize * q = NPages * PageSize - PageSize
      BY <1>5, VramAssumption, SMT
    <2> DEFINE pq == PageSize * q
               np == NPages * PageSize
    <2>2. a = pq + r /\ pq = np - PageSize /\ a = np - 1 /\ pq \in Int /\ np \in Int
      BY <2>1, <1>3, <1>4, VramAssumption
    <2> HIDE DEF pq, np
    <2> QED BY <2>2, <1>3, VramAssumption
  <1> QED BY <1>2, <1>5, <1>6, VramAssumption DEF PageOf, OffsetOf, a, q, r

(* A word's bytes and the way it splits mean the same to both modules.     *)
LEMMA SameVocabulary ==
    /\ FM!NoCall = NoCall
    /\ \A w : FM!Zeros(w) = Zeros(w)
    /\ \A c : FM!Span(c) = Span(c) /\ (FM!InRange(c) <=> InRange(c))
    /\ \A c, p : FM!Served(c, p) = Served(c, p)
    /\ FM!ClientRequests = ClientRequests /\ FM!Addresses = Addresses
    /\ FM!Blank = [a \in Addresses |-> 0] /\ FM!SwapSize = SwapSize
  BY DEF FM!NoCall, NoCall, FM!Zeros, Zeros, FM!Span, Span, FM!Straddles, Straddles, FM!OffsetOf,
         OffsetOf, FM!InRange, InRange, FM!SwapSize, SwapSize, FM!Served, Served,
         FM!ClientRequests, ClientRequests, FM!Requests, Requests, FM!Ops, Ops, FM!Words, Words,
         FM!Addresses, Addresses, FM!Blank

(* Every step of the pager is a step of the flat memory or changes nothing *)
(* a client of it sees.                                                    *)
LEMMA StepRefines == PagerInv /\ PagerInv' /\ [Next]_vars => [FM!FMNext]_(FM!fmVars)
  <1> SUFFICES ASSUME PagerInv, PagerInv', [Next]_vars PROVE [FM!FMNext]_(FM!fmVars)
    OBVIOUS
  <1> USE VramAssumption, FramesAssumption
  <1>t. TypeOK /\ TypeOK'
    BY DEF PagerInv
  <1>b. PageBytesFact
    BY PageBytesWhere
  <1>c. PageBytesFact'
    BY PageBytesWhere, PTL
  <1>s. UNCHANGED <<FlatMem, up, pc, call, pos, res>> => UNCHANGED FM!fmVars
    BY DEF FM!fmVars
  <1>l. pc \in {"lookup", "flush", "load", "access"} => pos < call.width
    BY CurrentByte, RequestFacts
  <1>1. CASE init_vram
    <2>1. FlatMem' \in [Addresses -> Byte]
      <3>1. \A a \in Addresses : PageOf(a) \in Pages /\ OffsetOf(a) \in Offsets
        BY AddressSplit
      <3>2. \A p \in Pages : PageBytes(p)' = file'[p]
        BY <1>1, <1>c DEF init_vram, ResetTable, PageBytesFact, Unused, Pages
      <3>3. \A p \in Pages : file'[p] \in [Offsets -> Byte]
        BY <1>t DEF TypeOK, Block
      <3> QED BY <1>1, <3>1, <3>2, <3>3 DEF init_vram, FlatMem
    <2>2. FlatMem'[SwapSize - 1] = 0
      <3>1. NPages \in Pages
        BY DEF Pages
      <3>2. PageBytes(NPages)' = file'[NPages]
        BY <1>1, <1>c, <3>1 DEF init_vram, ResetTable, PageBytesFact, Unused
      <3> QED BY <1>1, <3>2, LastByte DEF init_vram, FreshFile, FlatMem
    <2> QED BY <1>1, <2>1, <2>2, SameVocabulary DEF init_vram, FM!FMNext, FM!Mount, request
  <1>2. CASE init_vram_fail
    <2>1. FlatMem' = [a \in Addresses |-> 0]
      BY <1>2 DEF init_vram_fail, FlatMem
    <2> QED BY <1>2, <2>1, SameVocabulary DEF init_vram_fail, FM!FMNext, FM!Unmount, request
  <1>3. ASSUME NEW c \in ClientRequests, Call(c) PROVE [FM!FMNext]_(FM!fmVars)
    <2>1. \A p \in Pages : PageBytes(p)' = PageBytes(p)
      BY <1>3, <1>b, <1>c DEF Call, PageBytesFact, Live, table
    <2>2. FlatMem' = FlatMem
      BY <1>3, <2>1, MemoryUnchanged DEF Call
    <2>3. FM!Request(c)
      BY <1>3, <2>2, SameVocabulary DEF Call, FM!Request
    <2> QED BY <2>3, SameVocabulary DEF FM!FMNext
  <1>4. CASE FastHit
    <2>1. \A p \in Pages : PageBytes(p)' = PageBytes(p)
      BY <1>4, <1>b, <1>c DEF FastHit, LastMatches, PageBytesFact, Live, table
    <2> QED BY <1>4, <2>1, MemoryUnchanged DEF FastHit, LastMatches, FM!fmVars, request
  <1>5. CASE ScanHit
    <2>1. \A p \in Pages : PageBytes(p)' = PageBytes(p)
      BY <1>5, <1>b, <1>c DEF ScanHit, LastMatches, PageBytesFact, Live
    <2> QED BY <1>5, <2>1, MemoryUnchanged DEF ScanHit, LastMatches, FM!fmVars, request
  <1>6. CASE Miss
    <2>1. \A p \in Pages : PageBytes(p)' = PageBytes(p)
      <3> SUFFICES ASSUME NEW p \in Pages PROVE PageBytes(p)' = PageBytes(p)
        OBVIOUS
      <3>1. CASE \E f \in Frames : Live(f)' /\ RAM_PAGES[f].lba = p
        BY <1>6, <3>1, <1>b, <1>c DEF Miss, AfterMiss, PageBytesFact, Live, table
      <3>2. CASE ~ \E f \in Frames : Live(f)' /\ RAM_PAGES[f].lba = p
        <4>1. PageBytes(p)' = file[p]
          BY <1>6, <3>2, <1>c DEF Miss, AfterMiss, PageBytesFact, table
        <4>2. CASE RAM_PAGES[oldest_ram_page].lba = p /\ pc' = "load"
          <5>1. RAM[oldest_ram_page] = file[p]
            BY <1>6, <1>t, <4>2 DEF Miss, AfterMiss, PagerInv, CallInProgress, TypeOK, table, Pages
          <5>2. PageBytes(p) = RAM[oldest_ram_page]
            BY <1>6, <1>t, <1>b, <4>2 DEF Miss, AfterMiss, PageBytesFact, TypeOK, Live
          <5> QED BY <4>1, <5>1, <5>2
        <4>3. CASE ~(RAM_PAGES[oldest_ram_page].lba = p /\ pc' = "load")
          <5>1. \A f \in Frames : ~(Live(f) /\ RAM_PAGES[f].lba = p)
            BY <1>6, <3>2, <4>3 DEF Miss, AfterMiss, Live, table
          <5> QED BY <4>1, <5>1, <1>b DEF PageBytesFact
        <4> QED BY <4>2, <4>3
      <3> QED BY <3>1, <3>2
    <2> QED BY <1>6, <2>1, MemoryUnchanged DEF Miss, AfterMiss, FM!fmVars, request
  <1>7. CASE FlushOk
    <2>0. /\ ram_page \in Frames /\ RAM_PAGES[ram_page].lba \in Pages
          /\ pc = "flush" /\ pc' = "load" /\ ram_page' = ram_page
      BY <1>7, <1>t DEF FlushOk, PagerInv, CallInProgress, TypeOK, Descs, Pages
    <2>1. \A p \in Pages : PageBytes(p)' = PageBytes(p)
      <3> SUFFICES ASSUME NEW p \in Pages PROVE PageBytes(p)' = PageBytes(p)
        OBVIOUS
      <3>1. CASE p = RAM_PAGES[ram_page].lba
        <4>1. PageBytes(p) = RAM[ram_page]
          BY <1>b, <2>0, <3>1 DEF PageBytesFact, Live
        <4>2. \A f \in Frames : ~(Live(f)' /\ RAM_PAGES'[f].lba = p)
          BY <1>7, <2>0, <3>1 DEF FlushOk, Live, table, PagerInv, OneFramePerPage, Pages
        <4>3. file'[p] = RAM[ram_page]
          BY <1>7, <1>t, <3>1 DEF FlushOk, TypeOK
        <4> QED BY <4>1, <4>2, <4>3, <1>c DEF PageBytesFact
      <3>2. CASE p # RAM_PAGES[ram_page].lba
        <4>1. file'[p] = file[p]
          BY <1>7, <1>t, <3>2 DEF FlushOk, TypeOK
        <4>2. \A f \in Frames : Live(f)' /\ RAM_PAGES'[f].lba = p
                                  <=> Live(f) /\ RAM_PAGES[f].lba = p
          BY <1>7, <2>0, <3>2 DEF FlushOk, Live, table
        <4> QED BY <1>7, <4>1, <4>2, <1>b, <1>c DEF FlushOk, PageBytesFact
      <3> QED BY <3>1, <3>2
    <2> QED BY <1>7, <2>1, MemoryUnchanged DEF FlushOk, FM!fmVars, request
  <1>8. CASE FlushFail
    <2>0. /\ ram_page \in Frames /\ RAM_PAGES[ram_page].lba \in Pages
          /\ pc = "flush" /\ pc' # "load" /\ pc' # "idle" /\ ram_page' = ram_page
      BY <1>8, <1>t DEF FlushFail, GiveUp, PagerInv, CallInProgress, TypeOK, Descs, Pages, Advance
    <2>1. \A p \in Pages : PageBytes(p)' = PageBytes(p)
      <3> SUFFICES ASSUME NEW p \in Pages PROVE PageBytes(p)' = PageBytes(p)
        OBVIOUS
      <3>1. CASE \E f \in Frames : RAM_PAGES[f].lba = p
        BY <1>8, <2>0, <3>1, <1>b, <1>c DEF FlushFail, GiveUp, PageBytesFact, Live, table
      <3>2. CASE ~ \E f \in Frames : RAM_PAGES[f].lba = p
        <4>1. file'[p] = file[p]
          BY <1>8, <1>t, <2>0, <3>2 DEF FlushFail, GiveUp, TypeOK
        <4> QED BY <1>8, <3>2, <4>1, <1>b, <1>c DEF FlushFail, GiveUp, PageBytesFact, table
      <3> QED BY <3>1, <3>2
    <2>2. FlatMem' = FlatMem
      BY <1>8, <2>1, MemoryUnchanged DEF FlushFail, GiveUp
    <2>3. FM!Lose
      BY <1>8, <1>l, <2>0, <2>2, SameVocabulary DEF FlushFail, GiveUp, FM!Lose, Advance
    <2> QED BY <2>3 DEF FM!FMNext
  <1>9. CASE LoadOk
    <2>0. /\ ram_page \in Frames /\ lba_page \in Pages /\ Holders(lba_page) = {}
          /\ pc = "load" /\ pc' = "access" /\ ram_page' = ram_page
          /\ lba_page' = lba_page
      BY <1>9, <1>t, CurrentByte
         DEF LoadOk, NextOldest, PagerInv, CallInProgress, TypeOK, lba_page, request
    <2>1. \A p \in Pages : PageBytes(p)' = PageBytes(p)
      <3> SUFFICES ASSUME NEW p \in Pages PROVE PageBytes(p)' = PageBytes(p)
        OBVIOUS
      <3>1. CASE p = lba_page
        <4>1. PageBytes(p) = file[p]
          BY <1>b, <2>0, <3>1 DEF PageBytesFact, Holders
        <4>2. RAM'[ram_page] = file[p] /\ RAM_PAGES'[ram_page].lba = p
          BY <1>9, <1>t, <2>0, <3>1 DEF LoadOk, NextOldest, TypeOK
        <4> QED BY <4>1, <4>2, <1>c, <2>0 DEF PageBytesFact, Live
      <3>2. CASE p # lba_page
        <4>1. \A f \in Frames : Live(f)' /\ RAM_PAGES'[f].lba = p
                                  <=> Live(f) /\ RAM_PAGES[f].lba = p
          BY <1>9, <1>t, <2>0, <3>2 DEF LoadOk, NextOldest, Live, TypeOK
        <4>2. \A f \in Frames : Live(f) => RAM'[f] = RAM[f]
          BY <1>9, <1>t, <2>0 DEF LoadOk, NextOldest, Live, TypeOK
        <4> QED BY <1>9, <4>1, <4>2, <1>b, <1>c DEF LoadOk, NextOldest, PageBytesFact
      <3> QED BY <3>1, <3>2
    <2> QED BY <1>9, <2>1, MemoryUnchanged DEF LoadOk, NextOldest, FM!fmVars, request
  <1>10. CASE LoadFail
    <2>0. /\ ram_page \in Frames /\ pc = "load" /\ pc' # "load" /\ pc' # "idle"
      BY <1>10, <1>t DEF LoadFail, Emptied, ForgetLast, GiveUp, PagerInv, CallInProgress, TypeOK, Advance
    <2>1. \A p \in Pages : PageBytes(p)' = PageBytes(p)
      <3> SUFFICES ASSUME NEW p \in Pages PROVE PageBytes(p)' = PageBytes(p)
        OBVIOUS
      <3>1. \A f \in Frames : Live(f)' /\ RAM_PAGES'[f].lba = p
                                <=> Live(f) /\ RAM_PAGES[f].lba = p
        BY <1>10, <1>t, <2>0 DEF LoadFail, Emptied, ForgetLast, GiveUp, Live, TypeOK, Unused, Pages
      <3>2. \A f \in Frames : Live(f) => RAM'[f] = RAM[f]
        BY <1>10, <1>t, <2>0 DEF LoadFail, Emptied, ForgetLast, GiveUp, Live, TypeOK
      <3> QED BY <1>10, <3>1, <3>2, <1>b, <1>c DEF LoadFail, Emptied, ForgetLast, GiveUp, PageBytesFact
    <2>2. FlatMem' = FlatMem
      BY <1>10, <2>1, MemoryUnchanged DEF LoadFail, Emptied, ForgetLast, GiveUp
    <2>3. FM!Lose
      BY <1>10, <1>l, <2>0, <2>2, SameVocabulary DEF LoadFail, Emptied, ForgetLast, GiveUp, FM!Lose, Advance
    <2> QED BY <2>3 DEF FM!FMNext
  <1>11. CASE ReadBytes
    <2>0. /\ pc = "access" /\ pc' # "load" /\ pc' # "idle" /\ up
          /\ call \in ClientRequests /\ InRange(call) /\ pos \in Nat
          /\ pos + Span(call) <= call.width /\ (pos = 0 \/ Straddles(call))
          /\ ram_page \in Frames /\ RAM_PAGES[ram_page].lba = lba_page /\ lba_page \in Pages
      BY <1>11, <1>t, CurrentByte
         DEF ReadBytes, PagerInv, CallInProgress, TypeOK, Advance, RightFrame
    <2>1. \A p \in Pages : PageBytes(p)' = PageBytes(p)
      BY <1>11, <2>0, <1>b, <1>c DEF ReadBytes, PageBytesFact, Live, table
    <2>2. FlatMem' = FlatMem
      BY <1>11, <2>1, MemoryUnchanged DEF ReadBytes
    <2>3. \A i \in Served(call, pos) : FlatMem[call.addr + i] = RAM[ram_page][InPage(i)]
      <3> SUFFICES ASSUME NEW i \in Served(call, pos)
                   PROVE  FlatMem[call.addr + i] = RAM[ram_page][InPage(i)]
        OBVIOUS
      <3>1. /\ call.addr + i \in Addresses
            /\ PageOf(call.addr + i) = lba_page /\ OffsetOf(call.addr + i) = InPage(i)
        BY <2>0, ServedInPage DEF InPage, lba_page
      <3>2. PageBytes(lba_page) = RAM[ram_page]
        BY <2>0, <1>b DEF PageBytesFact, Live
      <3> QED BY <2>0, <3>1, <3>2 DEF FlatMem
    <2>4. FM!Transfer
      BY <1>11, <1>l, <2>0, <2>2, <2>3, SameVocabulary DEF ReadBytes, FM!Transfer, Advance
    <2> QED BY <2>4 DEF FM!FMNext
  <1>12. CASE WriteBytes
    <2>0. /\ pc = "access" /\ pc' # "load" /\ pc' # "idle" /\ up /\ call' = call
          /\ call \in ClientRequests /\ InRange(call) /\ pos \in Nat
          /\ pos + Span(call) <= call.width /\ (pos = 0 \/ Straddles(call))
          /\ ram_page \in Frames /\ RAM_PAGES[ram_page].lba = lba_page /\ lba_page \in Pages
          /\ call.addr \in Nat /\ call.width \in Nat
      BY <1>12, <1>t, CurrentByte, RequestFacts
         DEF WriteBytes, Marked, PagerInv, CallInProgress, TypeOK, Advance, RightFrame
    <2> DEFINE newByte(o, old) ==
                 LET i == o - OffsetOf(call.addr + pos) + pos
                 IN  IF i \in Served(call, pos) THEN call.word[i] ELSE old
    <2>1. /\ \A o \in Offsets : RAM'[ram_page][o] = newByte(o, RAM[ram_page][o])
          /\ \A f \in Frames : f # ram_page => RAM'[f] = RAM[f]
      BY <1>12, <1>t, <2>0 DEF WriteBytes, Marked, TypeOK
    <2>2. \A f \in Frames : RAM_PAGES'[f].lba = RAM_PAGES[f].lba
      BY <1>12, <1>t, <2>0 DEF WriteBytes, Marked, TypeOK, Descs
    <2>3. /\ PageBytes(lba_page) = RAM[ram_page]
          /\ \A p \in Pages : p = lba_page => PageBytes(p)' = RAM'[ram_page]
      <3>1. \A p \in Pages : p = lba_page => RAM_PAGES'[ram_page].lba = p
        BY <2>0, <2>2
      <3> QED BY <2>0, <3>1, <1>b, <1>c DEF PageBytesFact, Live
    <2>4. \A p \in Pages : p # lba_page => PageBytes(p)' = PageBytes(p)
      <3> SUFFICES ASSUME NEW p \in Pages, p # lba_page PROVE PageBytes(p)' = PageBytes(p)
        OBVIOUS
      <3>1. \A f \in Frames : Live(f)' /\ RAM_PAGES'[f].lba = p
                                <=> Live(f) /\ RAM_PAGES[f].lba = p
        BY <2>0, <2>2 DEF Live
      <3>2. \A f \in Frames : RAM_PAGES[f].lba = p => RAM'[f] = RAM[f]
        BY <2>0, <2>1
      <3> QED BY <1>12, <3>1, <3>2, <1>b, <1>c DEF WriteBytes, Marked, PageBytesFact
    <2>5. ASSUME NEW a \in Addresses
          PROVE  FlatMem'[a] = IF a - call.addr \in Served(call, pos)
                               THEN call.word[a - call.addr] ELSE FlatMem[a]
      <3> DEFINE i == a - call.addr
                 b == call.addr + pos
      <3>0. /\ PageOf(a) \in Pages /\ OffsetOf(a) \in Offsets /\ a \in Nat
            /\ b \in Addresses /\ OffsetOf(b) \in Offsets /\ i \in Int /\ a = call.addr + i
        BY <2>0, AddressSplit, CurrentByte DEF Addresses, SwapSize
      <3>1. /\ FlatMem[a] = PageBytes(PageOf(a))[OffsetOf(a)]
            /\ FlatMem'[a] = PageBytes(PageOf(a))'[OffsetOf(a)]
        BY <1>12, <2>0 DEF FlatMem, WriteBytes, Marked
      <3>2. CASE i \in Served(call, pos)
        <4>1. PageOf(a) = lba_page /\ OffsetOf(a) = OffsetOf(b) + (i - pos)
          BY <2>0, <3>0, <3>2, ServedInPage DEF lba_page
        <4>2. OffsetOf(a) - OffsetOf(b) + pos = i
          BY <2>0, <3>0, <4>1 DEF Offsets
        <4>3. RAM'[ram_page][OffsetOf(a)] = call.word[i]
          BY <2>1, <3>0, <3>2, <4>2
        <4> QED BY <2>3, <3>0, <3>1, <3>2, <4>1, <4>3
      <3>3. CASE i \notin Served(call, pos) /\ PageOf(a) = lba_page
        <4> DEFINE j == OffsetOf(a) - OffsetOf(b) + pos
        <4>1. j \notin Served(call, pos)
          <5> SUFFICES ASSUME j \in Served(call, pos) PROVE FALSE
            OBVIOUS
          <5>1. /\ call.addr + j \in Addresses /\ PageOf(call.addr + j) = lba_page
                /\ OffsetOf(call.addr + j) = OffsetOf(b) + (j - pos)
            BY <2>0, ServedInPage DEF lba_page
          <5>2. OffsetOf(call.addr + j) = OffsetOf(a) /\ j \in Int
            BY <2>0, <3>0, <5>1 DEF Offsets
          <5>3. a = call.addr + j
            BY <3>3, <5>1, <5>2, AddressInjective
          <5>4. i = j
            BY <2>0, <3>0, <5>2, <5>3
          <5> QED BY <3>3, <5>4
        <4>2. RAM'[ram_page][OffsetOf(a)] = RAM[ram_page][OffsetOf(a)]
          BY <2>1, <3>0, <4>1
        <4> QED BY <2>3, <3>0, <3>1, <3>3, <4>2
      <3>4. CASE i \notin Served(call, pos) /\ PageOf(a) # lba_page
        BY <2>4, <3>0, <3>1, <3>4
      <3> QED BY <3>2, <3>3, <3>4
    <2>6. FM!Transfer
      <3>1. FlatMem' = [a \in Addresses |-> IF a - call.addr \in Served(call, pos)
                               THEN call.word[a - call.addr] ELSE FlatMem[a]]
        <4>1. FlatMem' = [a \in Addresses |-> FlatMem'[a]]
          BY <1>12, <2>0 DEF FlatMem, WriteBytes, Marked
        <4> QED BY <2>5, <4>1
      <3> QED BY <1>12, <1>l, <2>0, <3>1, SameVocabulary DEF WriteBytes, Marked, FM!Transfer, Advance
    <2> QED BY <2>6 DEF FM!FMNext
  <1>13. CASE Return
    <2>1. \A p \in Pages : PageBytes(p)' = PageBytes(p)
      BY <1>13, <1>b, <1>c DEF Return, PageBytesFact, Live, table
    <2>2. FlatMem' = FlatMem
      BY <1>13, <2>1, MemoryUnchanged DEF Return
    <2>3. FM!Answer
      BY <1>13, <2>2, SameVocabulary DEF Return, FM!Answer, PagerInv, CallInProgress
    <2> QED BY <2>3 DEF FM!FMNext
  <1>14. CASE UNCHANGED vars
    <2>1. \A p \in Pages : PageBytes(p)' = PageBytes(p)
      BY <1>14, <1>b, <1>c DEF vars, PageBytesFact, Live
    <2> QED BY <1>14, <2>1, MemoryUnchanged DEF vars, FM!fmVars
  <1> QED BY <1>1, <1>2, <1>3, <1>4, <1>5, <1>6, <1>7, <1>8, <1>9, <1>10, <1>11, <1>12, <1>13,
             <1>14 DEF Next, Step

(* The pager implements the flat memory: whatever is evicted, written back *)
(* or torn, clients see one array of bytes in which only the bytes of a    *)
(* failed transfer are lost.                                               *)
THEOREM PagerImplementsFlatMemory == Spec => ImplementsFlatMemory
  <1>1. Init => FM!FMInit
    BY SameVocabulary DEF Init, FM!FMInit, FlatMem
  <1>2. PagerInv /\ PagerInv' /\ [Next]_vars => [FM!FMNext]_(FM!fmVars)
    BY StepRefines
  <1> QED BY <1>1, <1>2, PagerInvariant, PTL DEF Spec, ImplementsFlatMemory, FM!FMSpec
=============================================================================
