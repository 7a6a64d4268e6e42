--------------------------- MODULE Storage_proofs ---------------------------
(***************************************************************************)
(* However many exchanges of a start-up are lost, late or refused, and      *)
(* whatever cards come and go, the driver never takes a card that counts    *)
(* sectors for one that counts bytes (StorageInv); it leaves no transfer    *)
(* open behind it, and it implements the block device (CallInv).            *)
(***************************************************************************)
EXTENDS Storage, SequenceTheorems, TLAPS

St == {"off", "idle", "tran"} \cup Transferring
Bringing == {"ACMD41", "ACMD41HCS", "CMD1"}
Resting == {"off", "idle"}

(* What no exchange does: it does not turn a card into one of another kind, *)
(* and only the commands of the start-up bring one up.                      *)
Kept(c, d, cmd) ==
    /\ d \in Card /\ d.kind = c.kind
    /\ c.st \in Resting /\ cmd \notin Bringing => d.st \in Resting
    /\ c.st \in Resting /\ c.kind = "SDHC" /\ cmd # "ACMD41HCS" => d.st \in Resting

LEMMA OpenedKeeps ==
    ASSUME NEW c \in Card, NEW st \in Transferring, NEW arg, NEW a \in Opened(c, st, arg)
    PROVE  a[2] \in Card /\ a[2].kind = c.kind /\ (a[2] = c \/ a[2].st = st)
<1> USE StorageAssumption
<1>1. CASE Addressed(c, arg) = {}
  BY <1>1 DEF Opened
<1>2. CASE Addressed(c, arg) # {}
  <2>1. PICK s \in Addressed(c, arg) : a = <<"ok", [c EXCEPT !.st = st, !.at = s]>>
    BY <1>2 DEF Opened
  <2>2. s \in Sectors
    BY <2>1 DEF Addressed
  <2>3. s \in 0..NSectors
    BY <2>2 DEF Sectors
  <2>4. a[2] = [c EXCEPT !.st = st, !.at = s]
    BY <2>1
  <2> QED BY <2>4, <2>3 DEF Card, St
<1> QED BY <1>1, <1>2

LEMMA TakesKeeps ==
    ASSUME NEW c \in Card, NEW cmd, NEW arg, NEW a \in Takes(c, cmd, arg)
    PROVE  Kept(c, a[2], cmd) /\ (cmd = "CMD0" /\ a[1] = "idle" => a[2].st = "idle")
                              /\ (cmd \in {"CMD58", "CMD16"} /\ a[1] = "ok" => c.st = "tran" /\ a[2] = c)
<1>1. CASE c.st = "off"
  <2>1. CASE cmd = "CMD0"
    <3>1. a[2] = [c EXCEPT !.st = "idle"] /\ a[1] = "idle"
      BY <1>1, <2>1 DEF Takes
    <3> QED BY <1>1, <2>1, <3>1 DEF Card, St, Kept, Bringing, Resting
  <2>2. CASE cmd # "CMD0"
    <3>1. a = <<"none", c>>
      BY <1>1, <2>2 DEF Takes
    <3> QED BY <1>1, <2>2, <3>1 DEF Kept, Resting
  <2> QED BY <2>1, <2>2
<1>2. CASE c.st = "idle"
  <2>1. a \in Idle(c, cmd)
    BY <1>2 DEF Takes
  <2>2. a[2] = c \/ (cmd \in Bringing /\ a[2] = [c EXCEPT !.st = "tran"] /\ (c.kind = "SDHC" => cmd = "ACMD41HCS"))
    BY <2>1 DEF Idle, Initialising, Bringing
  <2>3. cmd \in {"CMD58", "CMD16"} => a[1] = "bad"
    <3>1. cmd \in {"CMD58", "CMD16"} => a = <<"bad", c>>
      BY <2>1 DEF Idle
    <3> QED BY <3>1
  <2>4. [c EXCEPT !.st = "tran"] \in Card /\ [c EXCEPT !.st = "tran"].kind = c.kind /\ [c EXCEPT !.st = "tran"].st = "tran"
    BY DEF Card, St
  <2> QED BY <1>2, <2>2, <2>3, <2>4 DEF Kept, Bringing, Resting
<1>3. CASE c.st = "tran"
  <2>1. a \in Tran(c, cmd, arg)
    BY <1>3 DEF Takes
  <2>2. CASE cmd = "CMD0"
    <3>1. a = <<"idle", [c EXCEPT !.st = "idle"]>>
      BY <2>1, <2>2 DEF Tran
    <3> QED BY <1>3, <2>2, <3>1 DEF Kept, Card, St, Bringing, Resting
  <2>3. CASE cmd \in {"CMD17", "CMD18", "CMD24", "CMD25"}
    <3>1. \E st \in Transferring : a \in Opened(c, st, arg)
      BY <2>1, <2>3 DEF Tran, Transferring, Reading, Writing
    <3> QED BY <1>3, <2>3, <3>1, OpenedKeeps DEF Kept, Bringing, Resting
  <2>4. CASE cmd = "CMD9"
    <3>1. a = <<"ok", [c EXCEPT !.st = "read1"]>>
      BY <2>1, <2>4 DEF Tran
    <3> QED BY <1>3, <2>4, <3>1 DEF Kept, Card, St, Transferring, Reading, Bringing, Resting
  <2>5. CASE cmd \notin {"CMD0", "CMD17", "CMD18", "CMD24", "CMD25", "CMD9"}
    <3>1. a[2] = c
      BY <2>1, <2>5 DEF Tran
    <3> QED BY <1>3, <2>5, <3>1 DEF Kept, Bringing, Resting
  <2> QED BY <2>2, <2>3, <2>4, <2>5
<1>4. CASE c.st \in Transferring
  <2>1. c.st \notin {"off", "idle", "tran"}
    BY <1>4 DEF Transferring, Reading, Writing
  <2>2. a = <<"none", c>> \/ (cmd = "CMD12" /\ a = <<"ok", [c EXCEPT !.st = "tran"]>>)
    BY <2>1 DEF Takes
  <2> QED BY <2>1, <2>2 DEF Kept, Card, St, Bringing, Resting
<1> QED BY <1>1, <1>2, <1>3, <1>4 DEF Card, St

(* send_cmd as a whole, with the deselection before it and what may be lost. *)
LEMMA SendKeeps ==
    ASSUME card \in Card, NEW cmd, NEW arg, NEW r, send_cmd(cmd, arg, r)
    PROVE  /\ Kept(card, card', cmd)
           /\ cmd = "CMD0" /\ r = "idle" => card'.st = "idle"
           /\ cmd \in {"CMD58", "CMD16"} /\ r = "ok" => card.st \notin Resting
<1>1. CASE ~Ready /\ r = "none" /\ UNCHANGED card
  BY <1>1 DEF Kept
<1>2. CASE \E c \in Deselected(card) : \E a \in Takes(c, cmd, arg) :
             (r = a[1] /\ card' = a[2]) \/ (r = "none" /\ card' \in {c, a[2]})
  <2>0. PICK c \in Deselected(card) : \E a \in Takes(c, cmd, arg) :
             (r = a[1] /\ card' = a[2]) \/ (r = "none" /\ card' \in {c, a[2]})
    BY <1>2
  <2>1. PICK a \in Takes(c, cmd, arg) :
             (r = a[1] /\ card' = a[2]) \/ (r = "none" /\ card' \in {c, a[2]})
    BY <2>0
  <2>2. c = card \/ (card.st \in Transferring /\ c = [card EXCEPT !.st = "tran"])
    BY DEF Deselected
  <2>3. c \in Card /\ c.kind = card.kind /\ (card.st \in Resting => c = card)
        /\ (c.st \in Resting => c = card)
    BY <2>2 DEF Card, St, Resting, Transferring, Reading, Writing
  <2>4. /\ Kept(c, a[2], cmd) /\ (cmd = "CMD0" /\ a[1] = "idle" => a[2].st = "idle")
        /\ cmd \in {"CMD58", "CMD16"} /\ a[1] = "ok" => c.st = "tran" /\ a[2] = c
    BY <2>3, TakesKeeps
  <2>5. Kept(c, c, cmd)
    BY <2>3 DEF Kept
  <2>6. Kept(c, card', cmd)
    BY <2>1, <2>4, <2>5
  <2>7. Kept(card, card', cmd)
    BY <2>3, <2>6 DEF Kept
  <2>8. cmd \in {"CMD58", "CMD16"} /\ r = "ok" => card.st \notin Resting
    BY <2>1, <2>3, <2>4 DEF Resting
  <2> QED BY <2>1, <2>4, <2>7, <2>8
<1>3. card \in Deselected(card)
  BY DEF Deselected
<1> QED BY <1>1, <1>2, <1>3 DEF send_cmd, CardIs, Lose

(* rcvr_datablock and xmit_datablock leave a card up or down as it was. *)
LEMMA BlocksKeep ==
    ASSUME card \in Card, NEW ok, rcvr_datablock(ok) \/ xmit_datablock(ok)
    PROVE  Kept(card, card', "none")
<1> USE StorageAssumption
<1>1. CASE UNCHANGED card
  BY <1>1 DEF Kept
<1>2. CASE card' = AfterBlock /\ Sends
  <2>1. card.at + 1 \in 0..NSectors \/ card.st = "read1"
    BY <1>2 DEF Sends, Sectors, Card
  <2> QED BY <1>2, <2>1 DEF AfterBlock, Sends, Kept, Card, Resting
<1>3. CASE card' = AfterTake /\ Takers
  <2>1. card.at + 1 \in 0..NSectors
    BY <1>3 DEF Takers, Sectors
  <2> QED BY <1>3, <2>1 DEF AfterTake, Takers, Kept, Card, Resting, Writing
<1>4. CASE card' = AfterRefusal /\ Takers
  BY <1>4 DEF AfterRefusal, Takers, Kept, Card, Resting, Writing
<1> QED BY <1>1, <1>2, <1>3, <1>4 DEF rcvr_datablock, xmit_datablock, CardIs, Lose

-----------------------------------------------------------------------------
LEMMA InitInv == Init => StorageInv
<1> SUFFICES ASSUME Init PROVE StorageInv
  OBVIOUS
<1> USE StorageAssumption
<1>1. card \in Card /\ Down
  <2>1. PICK k \in Kinds : card = NewCard(k)
    BY DEF Init
  <2> QED BY <2>1 DEF NewCard, Card, Down
<1> QED BY <1>1 DEF Init, StorageInv, StorageTypeOK, StartUp, AddressingAgrees

(* A step of a call that reads, writes or asks, and is not the start-up.    *)
Serve ==
    \/ ReadCommand \/ ReadBlock \/ StopRead \/ ReadEnd
    \/ Select \/ PreErase \/ WriteCommand \/ WriteBlock \/ StopWrite \/ WriteEnd
    \/ SyncSelect \/ CountCommand \/ CountBlock
StartStep == ResetCommand \/ VoltageCommand \/ HighCapacity \/ ReadOCR \/ Probe \/ Start \/ SetBlockLength

LEMMA ServeKeeps ==
    ASSUME StorageTypeOK, Serve
    PROVE  /\ UNCHANGED <<Stat, CardType, ty, late>> /\ res' \in {"ok", "error"}
           /\ pc \notin Starting /\ pc' \notin Starting
           /\ card' \in Card /\ card'.kind = card.kind /\ (Down => Down')
<1> USE StorageAssumption DEF StorageTypeOK, Return, Unsaid, InitVars
<1>0. \A cmd : Kept(card, card', cmd) /\ cmd \notin Bringing =>
        card' \in Card /\ card'.kind = card.kind /\ (Down => Down')
  BY DEF Kept, Down, Resting
<1>00. ASSUME UNCHANGED card PROVE card' \in Card /\ card'.kind = card.kind /\ (Down => Down')
  BY <1>00 DEF Down
<1>1. CASE ReadCommand
  BY <1>1, <1>0, SendKeeps DEF ReadCommand, Starting, Bringing
<1>2. CASE ReadBlock
  BY <1>2, <1>0, BlocksKeep DEF ReadBlock, ReadEnds, Starting, Bringing
<1>3. CASE StopRead
  BY <1>3, <1>0, SendKeeps DEF StopRead, Starting, Bringing
<1>4. CASE ReadEnd \/ Select \/ WriteEnd \/ SyncSelect
  BY <1>4, <1>00 DEF ReadEnd, Select, WriteEnd, SyncSelect, Starting
<1>5. CASE PreErase
  BY <1>5, <1>0, <1>00, SendKeeps DEF PreErase, Starting, Bringing
<1>6. CASE WriteCommand
  BY <1>6, <1>0, SendKeeps DEF WriteCommand, Starting, Bringing
<1>7. CASE WriteBlock
  BY <1>7, <1>0, BlocksKeep DEF WriteBlock, Starting, Bringing
<1>8. CASE StopWrite
  <2>1. card' = card \/ card' = [card EXCEPT !.st = IF @ = "writeN" THEN "tran" ELSE @]
    BY <1>8 DEF StopWrite, Stop, StopToken, CardIs, Lose
  <2>2. card' \in Card /\ card'.kind = card.kind /\ (Down => Down')
    BY <2>1 DEF Card, Down
  <2> QED BY <1>8, <2>2 DEF StopWrite, Starting
<1>9. CASE CountCommand
  BY <1>9, <1>0, SendKeeps DEF CountCommand, Starting, Bringing
<1>10. CASE CountBlock
  BY <1>10, <1>0, BlocksKeep DEF CountBlock, Starting, Bringing
<1> QED BY <1>1, <1>2, <1>3, <1>4, <1>5, <1>6, <1>7, <1>8, <1>9, <1>10 DEF Serve

LEMMA InitialisedKeeps ==
    ASSUME NEW t \in {"none", "MMC", "SD1", "SD2", "SD2BLOCK"}, Initialised(t), card' \in Card,
           t # "none" /\ ~(card'.st \in Resting) => (t = "SD2BLOCK" <=> card'.kind = "SDHC")
    PROVE  StorageInv'
<1>1. pc' = "ready" /\ CardType' = t /\ Stat' = (t # "none") /\ ty' = "none" /\ late' = FALSE
      /\ res' \in {"ok", "error"}
  BY DEF Initialised, Return
<1>2. StorageTypeOK'
  BY <1>1 DEF StorageTypeOK
<1>3. StartUp' /\ AddressingAgrees'
  BY <1>1 DEF StartUp, AddressingAgrees, BlockAddressing, Down, Starting, Resting
<1> QED BY <1>2, <1>3 DEF StorageInv

(* A step of the start-up that goes on. *)
LEMMA GoesOnKeeps ==
    ASSUME StorageInv, UNCHANGED <<CardType, Stat, res, late>>, pc' \in Starting, card' \in Card,
           ty' \in {"none", "SD1", "MMC"},
           pc' = "cmd8" => Down',
           pc' \in {"probe", "start", "cmd16"} => Down' \/ card'.kind # "SDHC"
    PROVE  StorageInv'
BY DEF StorageInv, StorageTypeOK, StartUp, AddressingAgrees

LEMMA StartKeeps ==
    ASSUME StorageInv, StartStep
    PROVE  StorageInv'
<1>0. /\ card \in Card /\ ty \in {"none", "SD1", "MMC"} /\ StartUp
  BY DEF StorageInv, StorageTypeOK
<1>1. CASE late /\ Initialised("none") /\ UNCHANGED card
  BY <1>0, <1>1, InitialisedKeeps
<1>2. CASE ResetCommand
  <2>1. PICK r : send_cmd("CMD0", 0, r) /\ IF r = "idle" THEN Goto("cmd8") ELSE Initialised("none")
    BY <1>2 DEF ResetCommand
  <2>2. card' \in Card /\ (r = "idle" => Down')
    BY <1>0, <2>1, SendKeeps DEF Kept, Down
  <2> QED BY <1>0, <2>1, <2>2, InitialisedKeeps, GoesOnKeeps DEF Goto, Starting
<1>3. CASE VoltageCommand
  <2>1. PICK r : /\ send_cmd("CMD8", 0, r)
                 /\ IF r # "idle" THEN Goto("probe") ELSE Goto("acmd41") \/ Initialised("none")
    BY <1>3 DEF VoltageCommand
  <2>2. card' \in Card /\ Down'
    BY <1>0, <1>3, <2>1, SendKeeps DEF Kept, Down, StartUp, VoltageCommand, Resting, Bringing
  <2> QED BY <1>0, <2>1, <2>2, InitialisedKeeps, GoesOnKeeps DEF Goto, Starting
<1>4. CASE HighCapacity /\ ~late
  <2>1. PICK r : send_cmd("ACMD41HCS", 0, r) /\ LoopEnds(r, "cmd58")
    BY <1>4 DEF HighCapacity
  <2>2. card' \in Card
    BY <1>0, <2>1, SendKeeps DEF Kept
  <2>3. pc' \in {"acmd41", "cmd58"} /\ UNCHANGED <<CardType, Stat, res, late, ty>>
    BY <1>4, <2>1 DEF LoopEnds, Goto, HighCapacity
  <2> QED BY <1>0, <2>2, <2>3, GoesOnKeeps DEF Starting
<1>5. CASE ReadOCR /\ ~late
  <2>1. PICK r : send_cmd("CMD58", 0, r) /\ Initialised(TypeOf(r))
    BY <1>5 DEF ReadOCR
  <2>2. card' \in Card /\ card'.kind = card.kind
    BY <1>0, <2>1, SendKeeps DEF Kept
  <2> QED BY <2>1, <2>2, InitialisedKeeps DEF TypeOf
<1>6. CASE Probe
  <2>1. PICK r : send_cmd(OldProbe, 0, r) /\ ty' = IF r \in {"ok", "idle"} THEN "SD1" ELSE "MMC"
    BY <1>6 DEF Probe
  <2>2. card' \in Card /\ (Down' \/ card'.kind # "SDHC")
    BY <1>0, <1>6, <2>1, SendKeeps DEF Kept, Down, StartUp, Probe, Resting, OldProbe
  <2>3. pc' = "start" /\ UNCHANGED <<CardType, Stat, res, late>> /\ ty' \in {"SD1", "MMC"}
    BY <1>6, <2>1 DEF Probe
  <2> QED BY <2>2, <2>3, GoesOnKeeps DEF Starting
<1>7. CASE Start /\ ~late
  <2>1. PICK r : send_cmd(IF ty = "SD1" THEN OldProbe ELSE "CMD1", 0, r) /\ LoopEnds(r, "cmd16")
    BY <1>7 DEF Start
  <2>2. card' \in Card /\ (Down' \/ card'.kind # "SDHC")
    BY <1>0, <1>7, <2>1, SendKeeps DEF Kept, Down, StartUp, Start, Resting, OldProbe
  <2>3. pc' \in {"start", "cmd16"} /\ UNCHANGED <<CardType, Stat, res, late, ty>>
    BY <1>7, <2>1 DEF LoopEnds, Goto, Start
  <2> QED BY <1>0, <2>2, <2>3, GoesOnKeeps DEF Starting
<1>8. CASE SetBlockLength /\ ~late
  <2>1. PICK r : send_cmd("CMD16", BlockLen, r) /\ Initialised(IF r = "ok" THEN ty ELSE "none")
    BY <1>8 DEF SetBlockLength
  <2>2. card' \in Card /\ card'.kind = card.kind /\ (r = "ok" => card.st \notin Resting)
    BY <1>0, <2>1, SendKeeps DEF Kept
  <2>3. r = "ok" => card'.kind # "SDHC" /\ ty # "SD2BLOCK"
    BY <1>0, <1>8, <2>2 DEF StartUp, SetBlockLength, Down, Resting
  <2> QED BY <1>0, <2>1, <2>2, <2>3, InitialisedKeeps
<1>9. late \/ ~late
  OBVIOUS
<1> QED BY <1>1, <1>2, <1>3, <1>4, <1>5, <1>6, <1>7, <1>8
        DEF StartStep, HighCapacity, ReadOCR, Start, SetBlockLength

LEMMA NextInv ==
    ASSUME StorageInv, [Next]_vars
    PROVE  StorageInv'
<1> USE StorageAssumption
<1>1. CASE Serve
  <2>1. StorageTypeOK /\ AddressingAgrees
    BY DEF StorageInv
  <2>2. /\ UNCHANGED <<Stat, CardType, ty, late>> /\ res' \in {"ok", "error"}
        /\ pc \notin Starting /\ pc' \notin Starting
        /\ card' \in Card /\ card'.kind = card.kind /\ (Down => Down')
    BY <1>1, <2>1, ServeKeeps
  <2>3. StorageTypeOK'
    BY <2>1, <2>2 DEF StorageTypeOK
  <2>4. StartUp' /\ AddressingAgrees'
    BY <2>1, <2>2 DEF StartUp, AddressingAgrees, BlockAddressing, Starting
  <2> QED BY <2>3, <2>4 DEF StorageInv
<1>2. CASE StartStep
  BY <1>2, StartKeeps
<1>3. CASE Callers
  <2>1. PICK op, at, n, data, first :
          Calling(op, at, n, data, first) /\ (first \in {"readcmd", "select", "sync", "countcmd"}
                                              \/ (op = "init" /\ first = "cmd0"))
    BY <1>3 DEF Callers, disk_read, disk_write, CTRL_SYNC, GET_SECTOR_COUNT, disk_initialize
  <2>2. /\ UNCHANGED <<card, Stat, CardType, ty, late>> /\ res' \in {res, "error"}
        /\ pc = "ready" /\ pc' \in {"ready", "readcmd", "select", "sync", "countcmd", "cmd0"}
    BY <2>1 DEF Calling, InitVars
  <2> QED BY <2>2 DEF StorageInv, StorageTypeOK, StartUp, AddressingAgrees, BlockAddressing, Down, Starting
<1>4. CASE Clock
  BY <1>4 DEF Clock, StorageInv, StorageTypeOK, StartUp, AddressingAgrees, BlockAddressing, Down, Starting
<1>5. CASE Programmed
  <2>1. card' \in Card /\ card'.kind = card.kind /\ card'.st = card.st
    BY <1>5 DEF Programmed, StorageInv, StorageTypeOK, Card
  <2> QED BY <1>5, <2>1 DEF Programmed, InitVars, StorageInv, StorageTypeOK, StartUp, AddressingAgrees,
                            BlockAddressing, Down
<1>6. CASE Swap
  <2>1. card' \in Card /\ Down'
    <3>1. PICK k \in Kinds : card' = NewCard(k)
      BY <1>6 DEF Swap
    <3> QED BY <3>1 DEF NewCard, Card, Down
  <2> QED BY <1>6, <2>1 DEF Swap, InitVars, StorageInv, StorageTypeOK, StartUp, AddressingAgrees
<1>7. CASE PowerFails
  <2>1. card' \in Card /\ Down'
    BY <1>7 DEF PowerFails, NewCard, Card, Down, StorageInv, StorageTypeOK
  <2> QED BY <1>7, <2>1 DEF PowerFails, StorageInv, StorageTypeOK, StartUp, AddressingAgrees
<1>8. CASE UNCHANGED vars
  BY <1>8 DEF vars, InitVars, StorageInv, StorageTypeOK, StartUp, AddressingAgrees, BlockAddressing, Down
<1> QED BY <1>1, <1>2, <1>3, <1>4, <1>5, <1>6, <1>7, <1>8 DEF Next, Driver, Serve, StartStep

(* StorageInv holds always, of any number of sectors, lost exchanges and    *)
(* exchanged cards: disk_initialize decides on an addressing that is right. *)
THEOREM StorageInvariant == Spec => []StorageInv
<1>1. Init => StorageInv
  BY InitInv
<1>2. StorageInv /\ [Next]_vars => StorageInv'
  BY NextInv
<1> QED BY <1>1, <1>2, PTL DEF Spec

(* The driver and the card agree on what an address means, in every call    *)
(* that gives one.                                                          *)
THEOREM AddressingCorrect == Spec => []AddressingAgrees
<1>1. StorageInv => AddressingAgrees
  BY DEF StorageInv
<1> QED BY <1>1, StorageInvariant, PTL

-----------------------------------------------------------------------------
(* Where a call stands: how much of it is done, and where the card is.      *)
(* While no transfer of the call is open, a transfer the card is still in   *)
(* was lost at a step that may lose one (Left).                             *)
Left ==
    /\ card.st = "read1" => lost \in {"readcmd", "readblock", "countcmd", "countblock"}
    /\ card.st = "readN" => lost \in {"readcmd", "stopread"}
    /\ card.st = "write1" => lost \in {"writecmd", "writeblock"}
    /\ card.st = "writeN" => lost \in {"writecmd", "stopwrite"}

ReadPcs == {"readcmd", "readblock", "stopread", "readend"}
WritePcs == {"select", "preerase", "writecmd", "writeblock", "stopwrite", "writeend"}
ReadStands ==
    /\ call.op = "read" /\ call.n > 0 /\ call.at + call.n <= NSectors
    /\ count + Len(call.got) = call.n
    /\ pc = "readcmd" => call.got = <<>>
    /\ pc = "readblock" =>
         /\ count > 0
         /\ card.st \in {"off", IF call.n = 1 THEN "read1" ELSE "readN"}
         /\ card.st \in Reading => card.at = call.at + Len(call.got) /\ card.pend = {}
    /\ pc = "stopread" => card.st \in {"off", "readN"} /\ (card.st = "readN" => card.pend = {})
WriteStands ==
    /\ call.op = "write" /\ call.n > 0 /\ call.at + call.n <= NSectors
    /\ call.data \in [1..call.n -> Data]
    /\ pc \in {"select", "preerase", "writecmd"} => count = call.n /\ call.done = 0
    /\ pc = "writeblock" =>
         /\ count > 0 /\ call.done + count = call.n
         /\ card.st \in {"off", IF call.n = 1 THEN "write1" ELSE "writeN"}
         /\ card.st \in Writing => card.at = call.at + call.done
    /\ pc \in {"stopwrite", "writeend"} => call.done <= call.n /\ (count = 0 => call.done = call.n)
    /\ pc = "stopwrite" => card.st \in {"off", "writeN"}
OtherStands ==
    /\ pc = "ready" => call = NoCall
    /\ pc = "sync" => call.op = "sync"
    /\ pc \in {"countcmd", "countblock"} => call.op = "count"
    /\ pc \in Starting => call.op = "init"
    /\ pc = "countblock" => card.st \in {"off", "read1"}
Called ==
    [op : {"none", "read", "write", "sync", "count", "init"}, at : Sectors, n : Nat,
     data : Seq(Data), got : Seq(Content), done : Nat]
CallInv ==
    /\ disk \in [Sectors -> Content] /\ call \in Called /\ count \in Nat
    /\ pc \in {"ready", "sync", "countcmd", "countblock"} \cup ReadPcs \cup WritePcs \cup Starting
    /\ pc \in ReadPcs => Stat /\ ReadStands
    /\ pc \in WritePcs => Stat /\ WriteStands
    /\ OtherStands
    /\ pc \notin Serving => Left

(* What the commands that open a transfer open, and which do.               *)
Opens(cmd) ==
    CASE cmd \in {"CMD17", "CMD9"} -> "read1"
      [] cmd = "CMD18" -> "readN"
      [] cmd = "CMD24" -> "write1"
      [] cmd = "CMD25" -> "writeN"
      [] OTHER -> "none"
Openers == {"CMD17", "CMD18", "CMD24", "CMD25"}

(* A card is transferring after a command because it was, and did not       *)
(* answer, or because the command opened a transfer.                        *)
Opened1(c, d, cmd, arg) ==
    /\ c.st = "tran" /\ d.st = Opens(cmd)
    /\ cmd \in Openers => d.at \in Addressed(c, arg)

LEMMA TakesOpens ==
    ASSUME NEW c \in Card, NEW cmd, NEW arg, NEW a \in Takes(c, cmd, arg)
    PROVE  /\ a[2].pend = c.pend
           /\ a[2].st \in Transferring =>
                \/ a[1] = "none" /\ a[2] = c
                \/ a[1] = "ok" /\ Opened1(c, a[2], cmd, arg)
           /\ a[1] = "ok" /\ cmd \in Openers \cup {"CMD9"} => Opened1(c, a[2], cmd, arg)
<1> USE DEF Transferring, Reading, Writing
<1>1. CASE c.st = "off"
  <2>1. a = <<"none", c>> \/ (cmd = "CMD0" /\ a = <<"idle", [c EXCEPT !.st = "idle"]>>)
    BY <1>1 DEF Takes
  <2> QED BY <1>1, <2>1 DEF Card
<1>2. CASE c.st = "idle"
  <2>1. a \in Idle(c, cmd)
    BY <1>2 DEF Takes
  <2>2. a[2] = c \/ a[2] = [c EXCEPT !.st = "tran"]
    BY <2>1 DEF Idle, Initialising
  <2>3. a[1] = "ok" => cmd \in {"ACMD41", "ACMD41HCS", "CMD1"}
    <3>1. CASE cmd \in {"ACMD41", "ACMD41HCS", "CMD1"}
      BY <3>1
    <3>2. CASE cmd = "CMD8"
      <4>1. a = <<IF c.kind \in {"SD2", "SDHC"} THEN "idle" ELSE "bad", c>>
        BY <2>1, <3>2 DEF Idle
      <4> QED BY <4>1
    <3>3. CASE cmd \notin {"ACMD41", "ACMD41HCS", "CMD1", "CMD8"}
      <4>1. a = <<"idle", c>> \/ a = <<"bad", c>>
        BY <2>1, <3>3 DEF Idle
      <4> QED BY <4>1
    <3> QED BY <3>1, <3>2, <3>3
  <2> QED BY <1>2, <2>2, <2>3 DEF Card, Openers
<1>3. CASE c.st = "tran"
  <2>1. a \in Tran(c, cmd, arg)
    BY <1>3 DEF Takes
  <2>2. CASE cmd \in Openers
    <3>1. a \in Opened(c, Opens(cmd), arg) /\ Opens(cmd) \in Transferring
      BY <2>1, <2>2 DEF Tran, Opens, Openers
    <3>2. CASE a = <<"bad", c>>
      <4>1. a[1] = "bad" /\ a[2] = c
        BY <3>2
      <4> QED BY <1>3, <4>1
    <3>3. CASE \E s \in Addressed(c, arg) : a = <<"ok", [c EXCEPT !.st = Opens(cmd), !.at = s]>>
      <4>1. PICK s \in Addressed(c, arg) : a = <<"ok", [c EXCEPT !.st = Opens(cmd), !.at = s]>>
        BY <3>3
      <4>2. a[1] = "ok" /\ a[2] = [c EXCEPT !.st = Opens(cmd), !.at = s]
        BY <4>1
      <4>3. a[2].st = Opens(cmd) /\ a[2].at = s /\ a[2].pend = c.pend
        BY <4>2 DEF Card
      <4> QED BY <1>3, <4>1, <4>2, <4>3 DEF Opened1
    <3> QED BY <3>1, <3>2, <3>3 DEF Opened
  <2>3. CASE cmd = "CMD9"
    <3>1. a = <<"ok", [c EXCEPT !.st = "read1"]>>
      BY <2>1, <2>3 DEF Tran
    <3> QED BY <1>3, <2>3, <3>1 DEF Card, Opened1, Opens, Openers
  <2>4. CASE cmd \notin Openers \cup {"CMD9"}
    <3>1. a[2] = c \/ a[2] = [c EXCEPT !.st = "idle"]
      BY <2>1, <2>4 DEF Tran, Openers
    <3> QED BY <1>3, <2>4, <3>1 DEF Card
  <2> QED BY <2>2, <2>3, <2>4
<1>4. CASE c.st \in Transferring
  <2>1. a = <<"none", c>> \/ (cmd = "CMD12" /\ a = <<"ok", [c EXCEPT !.st = "tran"]>>)
    BY <1>4 DEF Takes
  <2> QED BY <1>4, <2>1 DEF Card, Openers
<1> QED BY <1>1, <1>2, <1>3, <1>4 DEF Card

(* A command sent while no transfer of this call is open: what is open      *)
(* after it was lost by an earlier call, or by this very exchange.          *)
LEMMA SendOpens ==
    ASSUME card \in Card, NEW cmd, cmd # "CMD12", NEW arg, NEW r, send_cmd(cmd, arg, r), pc \notin Serving
    PROVE  /\ card'.pend = card.pend
           /\ r # "ok" /\ card'.st \in Transferring =>
                \/ card'.st = card.st /\ lost' = lost
                \/ card'.st = Opens(cmd) /\ lost' = pc
           /\ r = "ok" /\ card'.st \in Transferring => card'.st = Opens(cmd)
           /\ r = "ok" /\ cmd \in Openers \cup {"CMD9"} =>
                card.pend = {} /\ card'.st = Opens(cmd) /\ (cmd \in Openers => card'.at \in Addressed(card, arg))
<1> USE DEF Transferring, Reading, Writing
<1>1. CASE ~Ready /\ r = "none" /\ UNCHANGED <<card, faults, lost>>
  BY <1>1
<1>2. CASE /\ Ready
           /\ \E c \in Deselected(card) : \E a \in Takes(c, cmd, arg) :
                \/ r = a[1] /\ CardIs(a[2])
                \/ r = "none" /\ (Lose(c, c) \/ Lose(c, a[2]))
  <2>1. PICK c \in Deselected(card) : \E a \in Takes(c, cmd, arg) :
                \/ r = a[1] /\ CardIs(a[2])
                \/ r = "none" /\ (Lose(c, c) \/ Lose(c, a[2]))
    BY <1>2
  <2>2. PICK a \in Takes(c, cmd, arg) :
                \/ r = a[1] /\ CardIs(a[2])
                \/ r = "none" /\ (Lose(c, c) \/ Lose(c, a[2]))
    BY <2>1
  <2>3. c = card \/ c = [card EXCEPT !.st = "tran"]
    BY DEF Deselected
  <2>4. /\ c \in Card /\ c.pend = card.pend /\ card.pend = {} /\ c.kind = card.kind
        /\ c.st \in Transferring => c = card
    BY <1>2, <2>3 DEF Card, Ready
  <2>5. /\ a[2].pend = c.pend
        /\ a[2].st \in Transferring =>
                \/ a[1] = "none" /\ a[2] = c
                \/ a[1] = "ok" /\ Opened1(c, a[2], cmd, arg)
        /\ a[1] = "ok" /\ cmd \in Openers \cup {"CMD9"} => Opened1(c, a[2], cmd, arg)
    BY <2>4, TakesOpens
  <2>6. Addressed(c, arg) = Addressed(card, arg)
    BY <2>4 DEF Addressed
  <2>7. CASE r = a[1] /\ CardIs(a[2])
    BY <2>4, <2>5, <2>6, <2>7 DEF CardIs, Opened1
  <2>8. CASE r = "none" /\ Lose(c, c)
    BY <2>4, <2>8 DEF Lose, Deaf
  <2>9. CASE r = "none" /\ Lose(c, a[2])
    <3>1. CASE a[2] = c
      BY <2>8, <2>9, <3>1
    <3>2. CASE a[1] = "ok" /\ Opened1(c, a[2], cmd, arg)
      BY <2>4, <2>5, <2>9, <3>2 DEF Lose, Deaf, Opened1
    <3> QED BY <2>4, <2>5, <2>9, <3>1, <3>2 DEF Lose
  <2> QED BY <2>2, <2>7, <2>8, <2>9
<1> QED BY <1>1, <1>2 DEF send_cmd

LEMMA Cancel ==
    ASSUME NEW a \in Nat, NEW b \in Nat, NEW k \in Nat \ {0}, a * k = b * k
    PROVE  a = b
<1>1. CASE a < b
  <2>1. PICK d \in Nat \ {0} : b = a + d
    BY <1>1
  <2>2. b * k = a * k + d * k
    BY <2>1
  <2>3. d * k > 0
    OBVIOUS
  <2> QED BY <2>2, <2>3
<1>2. CASE b < a
  <2>1. PICK d \in Nat \ {0} : a = b + d
    BY <1>2
  <2>2. a * k = b * k + d * k
    BY <2>1
  <2>3. d * k > 0
    OBVIOUS
  <2> QED BY <2>2, <2>3
<1> QED BY <1>1, <1>2

(* The address of a command is that of the sector asked for.                *)
LEMMA AddressRight ==
    ASSUME StorageInv, CallInv, Stat, pc \notin Starting, ~Down, NEW s \in Addressed(card, Address)
    PROVE  s = call.at
<1> USE StorageAssumption
<1>1. BlockAddressing <=> card.kind = "SDHC"
  BY DEF StorageInv, AddressingAgrees
<1>2. call.at \in Nat
  BY DEF CallInv, Called, Sectors
<1>3. CASE card.kind = "SDHC"
  BY <1>1, <1>3 DEF Addressed, Address
<1>4. CASE card.kind # "SDHC"
  <2>1. s \in Sectors /\ call.at * BlockLen = s * BlockLen
    BY <1>1, <1>4 DEF Addressed, Address
  <2>2. s \in Nat
    BY <2>1 DEF Sectors
  <2> QED BY <1>2, <2>1, <2>2, Cancel
<1> QED BY <1>3, <1>4

-----------------------------------------------------------------------------
(* A step of the card or of the driver, seen as one of the block device. *)
Implements == Device!Next \/ UNCHANGED Device!vars

LEMMA ReturnImplements ==
    ASSUME NEW r, Return(r), disk' = disk, card'.pend = card.pend,
           r = "error" \/ (r = "ok" /\ call # NoCall /\ Device!Fulfilled)
    PROVE  Implements
BY DEF Implements, Device!Next, Device!Return, Return, NoCall, Device!NoCall, Device!Request

LEMMA StutterImplements ==
    ASSUME UNCHANGED <<disk, call, res>>, card'.pend = card.pend
    PROVE  Implements
BY DEF Implements, Device!vars

LEMMA ReturnStands ==
    ASSUME CallInv, NEW r, Return(r), disk' = disk, Left'
    PROVE  CallInv'
<1> USE StorageAssumption
<1>1. pc' = "ready" /\ call' = NoCall /\ count' = 0
  BY DEF Return
<1>2. NoCall \in Called
  <2>1. <<>> \in Seq(Data) /\ <<>> \in Seq(Content) /\ 0 \in Sectors
    BY EmptySeq DEF Sectors
  <2> QED BY <2>1 DEF NoCall, Called
<1> QED BY <1>1, <1>2 DEF CallInv, ReadPcs, WritePcs, OtherStands, Starting

(* A command that fails has left no transfer open but its own, lost here.   *)
LEMMA FailedCommand ==
    ASSUME card \in Card, Left, NEW cmd, cmd # "CMD12", NEW arg, NEW r, r # "ok", send_cmd(cmd, arg, r),
           pc \notin Serving,
           Opens(cmd) = "none" \/ (pc = "readcmd" /\ cmd \in {"CMD17", "CMD18"})
             \/ (pc = "writecmd" /\ cmd \in {"CMD24", "CMD25"}) \/ (pc = "countcmd" /\ cmd = "CMD9")
    PROVE  Left'
<1>1. card'.st \in Transferring =>
        (card'.st = card.st /\ lost' = lost) \/ (card'.st = Opens(cmd) /\ lost' = pc)
  BY SendOpens
<1>2. "none" \notin Transferring
  BY DEF Transferring, Reading, Writing
<1>3. ASSUME card'.st \notin Transferring PROVE Left'
  BY <1>3 DEF Left, Transferring, Reading, Writing
<1>4. ASSUME card'.st = card.st, lost' = lost PROVE Left'
  BY <1>4 DEF Left
<1>5. ASSUME card'.st = Opens(cmd), lost' = pc, Opens(cmd) # "none" PROVE Left'
  BY <1>5 DEF Left, Opens
<1> QED BY <1>1, <1>2, <1>3, <1>4, <1>5

(* Whatever an answer, an exchange of no transfer keeps what is left open.  *)
LEMMA HarmlessCommand ==
    ASSUME card \in Card, Left, NEW cmd, cmd \notin Openers \cup {"CMD12", "CMD9"}, NEW arg, NEW r,
           send_cmd(cmd, arg, r), pc \notin Serving
    PROVE  Left'
<1>1. Opens(cmd) = "none"
  BY DEF Opens, Openers
<1>2. CASE r # "ok"
  BY <1>1, <1>2, FailedCommand
<1>3. CASE r = "ok"
  <2>1. card'.st \notin Transferring
    BY <1>1, <1>3, SendOpens DEF Transferring, Reading, Writing
  <2> QED BY <2>1 DEF Left, Transferring, Reading, Writing
<1> QED BY <1>2, <1>3

LEMMA ReadCommandStep ==
    ASSUME StorageInv, CallInv, ReadCommand
    PROVE  CallInv' /\ Implements
<1> USE StorageAssumption
<1> DEFINE cmd == IF call.n = 1 THEN "CMD17" ELSE "CMD18"
<1>1. PICK r \in Answers : /\ send_cmd(cmd, Address, r)
         /\ IF r = "ok" THEN pc' = "readblock" /\ UNCHANGED <<call, count, res>> ELSE Return("error")
  BY DEF ReadCommand
<1>2. /\ pc = "readcmd" /\ disk' = disk /\ Stat' = Stat
      /\ pc \notin Serving /\ Left /\ Stat /\ ReadStands /\ card \in Card
  BY DEF ReadCommand, Unsaid, Serving, CallInv, ReadPcs, StorageInv, StorageTypeOK
<1>3. card'.pend = card.pend
  BY <1>1, <1>2, SendOpens
<1>4. CASE r # "ok"
  <2>1. Left'
    BY <1>1, <1>2, <1>4, FailedCommand
  <2> QED BY <1>1, <1>2, <1>3, <1>4, <2>1, ReturnStands, ReturnImplements
<1>5. CASE r = "ok"
  <2>1. cmd \in Openers /\ cmd \notin Bringing /\ cmd # "CMD12"
    BY DEF Openers, Bringing
  <2>2. card'.st = Opens(cmd) /\ card.pend = {} /\ card'.at \in Addressed(card, Address)
    BY <1>1, <1>2, <1>5, <2>1, SendOpens
  <2>3. Opens(cmd) = IF call.n = 1 THEN "read1" ELSE "readN"
    BY DEF Opens
  <2>4. ~Down
    <3>1. card.st \in Resting => card'.st \in Resting
      BY <1>1, <1>2, <2>1, SendKeeps DEF Kept
    <3> QED BY <2>2, <2>3, <3>1 DEF Down, Resting
  <2>5. card'.at = call.at
    BY <1>2, <2>2, <2>4, AddressRight DEF Starting
  <2>6. pc' = "readblock" /\ UNCHANGED <<call, count, res>>
    BY <1>1, <1>5
  <2>7. call.got = <<>> /\ Len(call.got) = 0 /\ call.at \in Nat /\ call.n \in Nat /\ count \in Nat
    BY <1>2, EmptySeq DEF ReadStands, CallInv, Called, Sectors
  <2>8. ReadStands'
    BY <1>2, <1>3, <2>2, <2>3, <2>5, <2>6, <2>7 DEF ReadStands
  <2>9. CallInv'
    BY <1>2, <2>6, <2>8 DEF CallInv, ReadPcs, WritePcs, OtherStands, Starting, Serving
  <2> QED BY <1>2, <1>3, <2>6, <2>9, StutterImplements
<1> QED BY <1>4, <1>5

LEMMA ReadBlockStep ==
    ASSUME StorageInv, CallInv, ReadBlock
    PROVE  CallInv' /\ Implements
<1> USE StorageAssumption
<1>1. PICK ok \in BOOLEAN :
         /\ rcvr_datablock(ok)
         /\ IF ok THEN call' = [call EXCEPT !.got = Append(@, disk[card.at])] /\ count' = count - 1
            ELSE UNCHANGED <<call, count>>
         /\ ReadEnds(ok)
  BY DEF ReadBlock
<1>2. /\ pc = "readblock" /\ disk' = disk /\ Stat' = Stat /\ res' = res
      /\ Stat /\ ReadStands /\ card \in Card /\ call \in Called /\ disk \in [Sectors -> Content]
  BY <1>1 DEF ReadBlock, Unsaid, CallInv, ReadPcs, StorageInv, StorageTypeOK, ReadEnds
<1>3. /\ call.at \in Nat /\ call.n \in Nat /\ count \in Nat /\ call.got \in Seq(Content)
      /\ Len(call.got) \in Nat /\ NSectors \in Nat
  BY <1>2 DEF CallInv, Called, Sectors
<1>4. /\ count > 0 /\ call.at + call.n <= NSectors /\ call.op = "read" /\ call.n > 0
      /\ count + Len(call.got) = call.n
      /\ card.st \in {"off", IF call.n = 1 THEN "read1" ELSE "readN"}
      /\ card.st \in Reading => card.at = call.at + Len(call.got) /\ card.pend = {}
  BY <1>2 DEF ReadStands
<1>5. card.st \in Transferring => card.st \in Reading
  BY <1>4 DEF Reading, Writing, Transferring
<1>6. CASE ok
  <2>1. Sends /\ card' = AfterBlock /\ lost' = IF AfterBlock.st \in Transferring THEN lost ELSE "nowhere"
    BY <1>1, <1>6 DEF rcvr_datablock, CardIs
  <2>2. card.st \in Reading /\ card.at = call.at + Len(call.got) /\ card.pend = {} /\ card.st # "off"
    BY <1>4, <2>1 DEF Sends, Reading
  <2>3. card.at \in Sectors /\ Len(call.got) < call.n
    BY <1>3, <1>4, <2>2 DEF Sectors
  <2>4. /\ call' = [call EXCEPT !.got = Append(@, disk[card.at])] /\ count' = count - 1
        /\ IF count' > 0 THEN pc' = pc ELSE pc' = (IF call.n = 1 THEN "readend" ELSE "stopread")
    BY <1>1, <1>6 DEF ReadEnds
  <2>5. disk[card.at] \in Content
    BY <1>2, <2>3
  <2>6. Append(call.got, disk[card.at]) \in Seq(Content) /\ Len(Append(call.got, disk[card.at])) = Len(call.got) + 1
    BY <1>3, <2>5, AppendProperties
  <2>7. /\ call' \in Called /\ call'.got = Append(call.got, disk[card.at]) /\ Len(call'.got) = Len(call.got) + 1
        /\ call'.op = "read" /\ call'.at = call.at /\ call'.n = call.n
    BY <1>2, <1>4, <2>4, <2>6 DEF Called
  <2>8. ASSUME card.st = "read1" PROVE CallInv'
    <3>1. call.n = 1 /\ card'.st = "tran" /\ count' = 0 /\ pc' = "readend" /\ card'.pend = card.pend
      BY <1>2, <1>3, <1>4, <2>1, <2>4, <2>8 DEF AfterBlock, Card
    <3>2. ReadStands' /\ Left'
      BY <1>3, <1>4, <2>7, <3>1 DEF ReadStands, Left
    <3> QED BY <1>2, <2>7, <3>1, <3>2 DEF CallInv, ReadPcs, WritePcs, OtherStands, Starting
  <2>9. ASSUME card.st = "readN" PROVE CallInv'
    <3>1. card'.st = "readN" /\ card'.at = card.at + 1 /\ card'.pend = card.pend /\ call.n # 1
      BY <1>2, <1>4, <2>1, <2>9 DEF AfterBlock, Card
    <3>2. pc' \in {"readblock", "stopread"} /\ count' \in Nat /\ (pc' = "readblock" => count' > 0)
      BY <1>2, <1>3, <1>4, <2>4, <3>1
    <3>3. count' + Len(call'.got) = call'.n /\ card'.at = call'.at + Len(call'.got)
      <4>1. PICK l \in Nat : l = Len(call.got)
        BY <1>3
      <4>2. count' = count - 1 /\ Len(call'.got) = l + 1 /\ call'.n = call.n /\ call'.at = call.at
        BY <2>4, <2>7, <4>1
      <4>3. card'.at = card.at + 1 /\ card.at = call.at + l /\ count + l = call.n
        BY <1>4, <2>2, <3>1, <4>1
      <4> QED BY <1>3, <4>2, <4>3
    <3>4. ReadStands'
      BY <1>4, <2>2, <2>7, <3>1, <3>2, <3>3 DEF ReadStands, Reading
    <3> QED BY <1>2, <2>7, <3>1, <3>2, <3>4 DEF CallInv, ReadPcs, WritePcs, OtherStands, Starting, Serving
  <2>10. CallInv'
    BY <2>2, <2>8, <2>9 DEF Reading
  <2>11. card'.pend = card.pend
    BY <1>2, <2>1 DEF AfterBlock, Card
  <2>12. Device!ReadSector
    BY <1>2, <1>4, <2>2, <2>3, <2>4, <2>11 DEF Device!ReadSector
  <2> QED BY <2>10, <2>12 DEF Implements, Device!Next
<1>7. CASE ~ok
  <2>1. /\ card' = card \/ card' = AfterBlock
        /\ card'.st \notin Transferring \/ lost' = pc \/ ~Sends
    BY <1>1, <1>2, <1>7 DEF rcvr_datablock, Lose, Deaf, Serving
  <2>2. /\ UNCHANGED <<call, count>> /\ card'.pend = card.pend
        /\ pc' = IF call.n = 1 THEN "readend" ELSE "stopread"
    BY <1>1, <1>2, <1>7, <2>1 DEF ReadEnds, AfterBlock, Card
  <2>3. ~Sends => card' = card /\ card.st # "read1"
    BY <1>1, <1>7 DEF rcvr_datablock, Sends
  <2>4. card'.st \in {"off", card.st} \/ (card.st = "read1" /\ card'.st = "tran")
    BY <1>2, <2>1 DEF AfterBlock, Card
  <2>5. CASE call.n = 1
    <3>1. Left'
      BY <1>2, <1>4, <2>1, <2>3, <2>4, <2>5 DEF Left, Transferring, Reading, Writing
    <3>2. ReadStands'
      BY <1>4, <2>2, <2>5 DEF ReadStands
    <3> QED BY <1>2, <2>2, <2>5, <3>1, <3>2, StutterImplements DEF CallInv, ReadPcs, WritePcs, OtherStands, Starting
  <2>6. CASE call.n # 1
    <3>1. ReadStands'
      BY <1>4, <2>2, <2>4, <2>6 DEF ReadStands, Reading
    <3> QED BY <1>2, <2>2, <2>6, <3>1, StutterImplements
            DEF CallInv, ReadPcs, WritePcs, OtherStands, Starting, Serving
  <2> QED BY <2>5, <2>6
<1> QED BY <1>6, <1>7

LEMMA StopReadStep ==
    ASSUME StorageInv, CallInv, StopRead
    PROVE  CallInv' /\ Implements
<1>1. PICK r \in Answers : send_cmd("CMD12", 0, r)
  BY DEF StopRead
<1>2. /\ pc = "stopread" /\ pc' = "readend" /\ UNCHANGED <<call, count, res, disk, Stat>> /\ Stat /\ ReadStands
      /\ card \in Card /\ card.st \in {"off", "readN"} /\ (card.st = "readN" => Ready)
  BY DEF StopRead, Unsaid, CallInv, ReadPcs, ReadStands, StorageInv, StorageTypeOK, Ready
<1>3. card'.pend = card.pend /\ Left'
  <2>1. CASE UNCHANGED card /\ ~Ready
    BY <1>2, <2>1 DEF Left
  <2>2. CASE \E a \in Takes(card, "CMD12", 0) :
              \/ r = a[1] /\ CardIs(a[2])
              \/ r = "none" /\ (Lose(card, card) \/ Lose(card, a[2]))
    <3>1. PICK a \in Takes(card, "CMD12", 0) :
              \/ r = a[1] /\ CardIs(a[2])
              \/ r = "none" /\ (Lose(card, card) \/ Lose(card, a[2]))
      BY <2>2
    <3>2. CASE card.st = "off"
      <4>1. a = <<"none", card>>
        BY <3>2 DEF Takes
      <4>2. card' = card
        BY <3>1, <4>1 DEF CardIs, Lose
      <4> QED BY <3>2, <4>2 DEF Left
    <3>3. CASE card.st = "readN"
      <4>1. a = <<"ok", [card EXCEPT !.st = "tran"]>>
        BY <3>3 DEF Takes
      <4>2. a[2] = [card EXCEPT !.st = "tran"] /\ a[2].st = "tran" /\ a[2].pend = card.pend
        BY <1>2, <4>1 DEF Card
      <4>3. card' = a[2] \/ (card' = card /\ lost' = "stopread")
        BY <1>2, <3>1, <3>3 DEF CardIs, Lose, Deaf, Serving, Transferring, Reading
      <4> QED BY <3>3, <4>2, <4>3 DEF Left
    <3> QED BY <1>2, <3>2, <3>3
  <2> QED BY <1>1, <2>1, <2>2 DEF send_cmd
<1>4. ReadStands'
  BY <1>2 DEF ReadStands
<1> QED BY <1>2, <1>3, <1>4, StutterImplements DEF CallInv, ReadPcs, WritePcs, OtherStands, Starting, Called

LEMMA ReadEndStep ==
    ASSUME StorageInv, CallInv, ReadEnd
    PROVE  CallInv' /\ Implements
<1>1. /\ pc = "readend" /\ Return(IF count = 0 THEN "ok" ELSE "error") /\ UNCHANGED <<card, lost, disk>>
      /\ ReadStands /\ Left /\ call \in Called
  BY DEF ReadEnd, Unsaid, CallInv, ReadPcs, Serving
<1>2. CallInv'
  BY <1>1, ReturnStands DEF Left
<1>3. count = 0 => call # NoCall /\ Device!Fulfilled
  <2>1. Len(call.got) \in Nat /\ call.n \in Nat
    BY <1>1 DEF Called
  <2> QED BY <1>1, <2>1 DEF ReadStands, NoCall, Device!Fulfilled
<1> QED BY <1>1, <1>2, <1>3, ReturnImplements

-----------------------------------------------------------------------------
LEMMA SelectStep ==
    ASSUME StorageInv, CallInv, Select
    PROVE  CallInv' /\ Implements
<1>1. pc = "select" /\ UNCHANGED <<card, lost, disk, Stat>> /\ WriteStands /\ Left /\ Stat
  BY DEF Select, Unsaid, CallInv, WritePcs, Serving
<1>2. CASE pc' = "preerase" /\ UNCHANGED <<call, count, res>>
  <2>1. WriteStands' /\ Left'
    BY <1>1, <1>2 DEF WriteStands, Left
  <2> QED BY <1>1, <1>2, <2>1, StutterImplements DEF CallInv, ReadPcs, WritePcs, OtherStands, Starting
<1>3. CASE Return("error")
  <2>1. CallInv'
    BY <1>1, <1>3, ReturnStands DEF Left
  <2> QED BY <1>1, <1>3, <2>1, ReturnImplements
<1> QED BY <1>2, <1>3 DEF Select

LEMMA PreEraseStep ==
    ASSUME StorageInv, CallInv, PreErase
    PROVE  CallInv' /\ Implements
<1>1. /\ pc = "preerase" /\ pc' = "writecmd" /\ UNCHANGED <<disk, Stat, call, count, res>>
      /\ WriteStands /\ Left /\ Stat /\ card \in Card /\ pc \notin Serving
  BY DEF PreErase, Unsaid, CallInv, WritePcs, Serving, StorageInv, StorageTypeOK
<1>2. card'.pend = card.pend /\ Left'
  <2>1. CASE UNCHANGED <<card, faults, lost>>
    BY <1>1, <2>1 DEF Left
  <2>2. CASE \E r \in Answers : send_cmd("ACMD23", call.n, r)
    <3>1. PICK r \in Answers : send_cmd("ACMD23", call.n, r)
      BY <2>2
    <3> QED BY <1>1, <3>1, SendOpens, HarmlessCommand DEF Openers
  <2> QED BY <2>1, <2>2 DEF PreErase
<1>3. WriteStands'
  BY <1>1 DEF WriteStands
<1> QED BY <1>1, <1>2, <1>3, StutterImplements DEF CallInv, ReadPcs, WritePcs, OtherStands, Starting

LEMMA WriteCommandStep ==
    ASSUME StorageInv, CallInv, WriteCommand
    PROVE  CallInv' /\ Implements
<1> USE StorageAssumption
<1> DEFINE cmd == IF call.n = 1 THEN "CMD24" ELSE "CMD25"
<1>1. PICK r \in Answers : /\ send_cmd(cmd, Address, r)
         /\ IF r = "ok" THEN pc' = "writeblock" /\ UNCHANGED <<call, count, res>> ELSE Return("error")
  BY DEF WriteCommand
<1>2. /\ pc = "writecmd" /\ disk' = disk /\ Stat' = Stat
      /\ pc \notin Serving /\ Left /\ Stat /\ WriteStands /\ card \in Card
  BY DEF WriteCommand, Unsaid, Serving, CallInv, WritePcs, StorageInv, StorageTypeOK
<1>3. card'.pend = card.pend
  BY <1>1, <1>2, SendOpens
<1>4. CASE r # "ok"
  <2>1. Left'
    BY <1>1, <1>2, <1>4, FailedCommand
  <2> QED BY <1>1, <1>2, <1>3, <1>4, <2>1, ReturnStands, ReturnImplements
<1>5. CASE r = "ok"
  <2>1. cmd \in Openers /\ cmd \notin Bringing /\ cmd # "CMD12"
    BY DEF Openers, Bringing
  <2>2. card'.st = Opens(cmd) /\ card'.at \in Addressed(card, Address)
    BY <1>1, <1>2, <1>5, <2>1, SendOpens
  <2>3. Opens(cmd) = IF call.n = 1 THEN "write1" ELSE "writeN"
    BY DEF Opens
  <2>4. ~Down
    <3>1. card.st \in Resting => card'.st \in Resting
      BY <1>1, <1>2, <2>1, SendKeeps DEF Kept
    <3> QED BY <2>2, <2>3, <3>1 DEF Down, Resting
  <2>5. card'.at = call.at
    BY <1>2, <2>2, <2>4, AddressRight DEF Starting
  <2>6. pc' = "writeblock" /\ UNCHANGED <<call, count, res>>
    BY <1>1, <1>5
  <2>7. call.at \in Nat /\ call.n \in Nat /\ count \in Nat
    BY <1>2 DEF CallInv, Called, Sectors
  <2>8. WriteStands'
    BY <1>2, <2>2, <2>3, <2>5, <2>6, <2>7 DEF WriteStands
  <2>9. CallInv'
    BY <1>2, <2>6, <2>8 DEF CallInv, ReadPcs, WritePcs, OtherStands, Starting, Serving
  <2> QED BY <1>2, <1>3, <2>6, <2>9, StutterImplements
<1> QED BY <1>4, <1>5

(* A block the card has taken is the sector asked for, and the block that   *)
(* is due of the data.                                                      *)
LEMMA TakenImplements ==
    ASSUME StorageInv, CallInv, WriteBlock, Takers, Taken, card' = AfterTake, Ready
    PROVE  Device!WriteSector /\ disk' \in [Sectors -> Content] /\ call' \in Called
           /\ call' = [call EXCEPT !.done = call.done + 1]
<1> USE StorageAssumption
<1>1. /\ pc = "writeblock" /\ res' = res /\ WriteStands /\ card \in Card /\ call \in Called
      /\ disk \in [Sectors -> Content]
  BY DEF WriteBlock, CallInv, WritePcs, StorageInv, StorageTypeOK
<1>2. /\ call.n \in Nat /\ call.done \in Nat /\ count \in Nat /\ count > 0 /\ call.done + count = call.n
      /\ card.at = call.at + call.done /\ card.at \in Sectors /\ call.data \in [1..call.n -> Data]
  BY <1>1 DEF Takers, WriteStands, CallInv, Called
<1>3. call.n - count + 1 = call.done + 1 /\ call.done + 1 \in 1..call.n
  BY <1>2
<1>4. /\ disk' = [disk EXCEPT ![card.at] = call.data[call.done + 1]]
      /\ call' = [call EXCEPT !.done = call.done + 1]
  BY <1>3 DEF Taken
<1>5. call.data[call.done + 1] \in Content
  BY <1>2, <1>3 DEF Content
<1>6. disk' \in [Sectors -> Content] /\ call' \in Called
  BY <1>1, <1>2, <1>4, <1>5 DEF Called
<1>7. card'.pend = card.pend \cup {card.at}
  BY <1>1 DEF AfterTake, Card, Ready
<1>8. call.op = "write" /\ call.done < call.n
  BY <1>1, <1>2 DEF WriteStands
<1> QED BY <1>1, <1>2, <1>4, <1>6, <1>7, <1>8 DEF Device!WriteSector

LEMMA WriteBlockStep ==
    ASSUME StorageInv, CallInv, WriteBlock
    PROVE  CallInv' /\ Implements
<1> USE StorageAssumption
<1>1. PICK ok \in BOOLEAN :
         /\ xmit_datablock(ok)
         /\ count' = IF ok THEN count - 1 ELSE count
         /\ IF count' > 0 /\ ok THEN UNCHANGED pc
            ELSE pc' = IF call.n = 1 THEN "writeend" ELSE "stopwrite"
  BY DEF WriteBlock
<1>2. /\ pc = "writeblock" /\ UNCHANGED <<res, Stat>> /\ Stat /\ WriteStands /\ card \in Card /\ call \in Called
      /\ disk \in [Sectors -> Content]
  BY DEF WriteBlock, CallInv, WritePcs, StorageInv, StorageTypeOK
<1>3. /\ call.n \in Nat /\ call.at \in Nat /\ call.done \in Nat /\ count \in Nat /\ count > 0 /\ call.n > 0
      /\ call.done + count = call.n /\ call.at + call.n <= NSectors /\ call.op = "write"
      /\ call.data \in [1..call.n -> Data]
      /\ card.st \in {"off", IF call.n = 1 THEN "write1" ELSE "writeN"}
      /\ card.st \in Writing => card.at = call.at + call.done
  BY <1>2 DEF WriteStands, CallInv, Called, Sectors
<1>4. card.st \in Writing => Takers
  BY <1>3 DEF Takers, Sectors
<1>5. ASSUME Left', pc' = "writeend", disk' \in [Sectors -> Content], call' \in Called, count' \in Nat,
             \E d \in Nat : call' = [call EXCEPT !.done = d] /\ d <= call.n /\ (count' = 0 => d = call.n)
      PROVE  CallInv'
  <2>1. WriteStands'
    BY <1>2, <1>3, <1>5 DEF WriteStands, Called
  <2> QED BY <1>2, <1>5, <2>1 DEF CallInv, ReadPcs, WritePcs, OtherStands, Starting
<1>6. ASSUME card'.st \in {"off", "writeN"}, pc' = "stopwrite", disk' \in [Sectors -> Content], call' \in Called,
             count' \in Nat,
             \E d \in Nat : call' = [call EXCEPT !.done = d] /\ d <= call.n /\ (count' = 0 => d = call.n)
      PROVE  CallInv'
  <2>1. WriteStands'
    BY <1>2, <1>3, <1>6 DEF WriteStands, Called
  <2> QED BY <1>2, <1>6, <2>1 DEF CallInv, ReadPcs, WritePcs, OtherStands, Starting, Serving
<1>7. ASSUME Ready, Takers, Taken, card' = AfterTake
      PROVE  Implements /\ disk' \in [Sectors -> Content] /\ call' \in Called
             /\ call' = [call EXCEPT !.done = call.done + 1]
  BY <1>7, TakenImplements DEF Implements, Device!Next
<1>8. CASE Ready /\ Takers /\ ok /\ CardIs(AfterTake) /\ Taken
  <2>1. /\ Implements /\ disk' \in [Sectors -> Content] /\ call' \in Called /\ card' = AfterTake
        /\ call' = [call EXCEPT !.done = call.done + 1]
    BY <1>7, <1>8 DEF CardIs
  <2>2. /\ count' = count - 1 /\ count' \in Nat /\ call.done + 1 \in Nat /\ call.done + 1 <= call.n
        /\ (call.done + 1) + count' = call.n
        /\ count' = 0 => call.done + 1 = call.n
    BY <1>1, <1>3, <1>8
  <2>a. \E d \in Nat : call' = [call EXCEPT !.done = d] /\ d <= call.n /\ (count' = 0 => d = call.n)
    BY <2>1, <2>2
  <2>3. ASSUME card.st = "write1" PROVE CallInv'
    <3>1. card'.st = "tran" /\ call.n = 1 /\ pc' = "writeend"
      BY <1>1, <1>2, <1>3, <2>1, <2>2, <2>3 DEF AfterTake, Card
    <3>2. Left'
      BY <3>1 DEF Left
    <3> QED BY <1>5, <2>1, <2>2, <2>a, <3>1, <3>2
  <2>4. ASSUME card.st = "writeN" PROVE CallInv'
    <3>1. card'.st = "writeN" /\ card'.at = card.at + 1 /\ call.n # 1
      BY <1>2, <1>3, <2>1, <2>4 DEF AfterTake, Card
    <3>2. CASE count' = 0
      BY <1>1, <1>3, <1>6, <1>8, <2>1, <2>2, <2>a, <3>1, <3>2
    <3>3. CASE count' > 0
      <4>1. pc' = "writeblock" /\ call'.done = call.done + 1 /\ call'.n = call.n /\ call'.at = call.at
            /\ call'.op = "write" /\ call'.data = call.data
        BY <1>1, <1>2, <1>3, <1>8, <2>1, <3>3 DEF Called
      <4>2. card'.at = call'.at + call'.done /\ call'.done + count' = call'.n
        BY <1>3, <2>2, <2>4, <3>1, <4>1 DEF Writing
      <4>3. WriteStands'
        BY <1>3, <3>1, <3>3, <4>1, <4>2 DEF WriteStands
      <4>5. Stat' /\ disk' \in [Sectors -> Content] /\ call' \in Called /\ count' \in Nat
        BY <1>2, <2>1, <2>2
      <4>4. pc' \notin ReadPcs /\ pc' \in WritePcs /\ pc' \in Serving /\ OtherStands'
            /\ pc' \in {"ready", "sync", "countcmd", "countblock"} \cup ReadPcs \cup WritePcs \cup Starting
        BY <4>1 DEF ReadPcs, WritePcs, Serving, OtherStands, Starting
      <4> QED BY <4>3, <4>4, <4>5 DEF CallInv
    <3>4. count' = 0 \/ count' > 0
      BY <1>3, <2>2
    <3> QED BY <3>2, <3>3, <3>4
  <2> QED BY <1>8, <2>1, <2>3, <2>4 DEF Takers, Writing
<1>9. CASE ~ok
  <2>0. count' = count /\ pc' = IF call.n = 1 THEN "writeend" ELSE "stopwrite"
    BY <1>1, <1>9
  <2>1. CASE Ready /\ Takers /\ Lose(card, AfterTake) /\ Taken
    <3>1. /\ Implements /\ disk' \in [Sectors -> Content] /\ call' \in Called /\ card' = AfterTake
          /\ call' = [call EXCEPT !.done = call.done + 1]
      BY <1>7, <2>1 DEF Lose
    <3>2. call.done + 1 \in Nat /\ call.done + 1 <= call.n /\ count' # 0
      BY <1>3, <2>0
    <3>3. card'.st = IF call.n = 1 THEN "tran" ELSE "writeN"
      BY <1>2, <1>3, <2>1, <3>1 DEF AfterTake, Card, Takers, Writing
    <3>4. CASE call.n = 1
      BY <1>3, <1>5, <2>0, <3>1, <3>2, <3>3, <3>4 DEF Left
    <3>5. CASE call.n # 1
      BY <1>3, <1>6, <2>0, <3>1, <3>2, <3>3, <3>5
    <3> QED BY <3>4, <3>5
  <2>2. CASE Untaken /\ card'.pend = card.pend /\ card'.st \in {card.st, "tran"} /\ (call.n # 1 => card'.st = card.st)
             /\ (card'.st \in Writing => lost' = pc)
    <3>1. /\ Implements /\ disk' \in [Sectors -> Content] /\ call' \in Called
          /\ call' = [call EXCEPT !.done = call.done] /\ count' # 0 /\ call.done <= call.n
      BY <1>2, <1>3, <2>0, <2>2, StutterImplements DEF Untaken, Called
    <3>2. CASE call.n = 1
      <4>1. Left'
        BY <1>2, <1>3, <2>2, <3>2 DEF Left, Writing
      <4> QED BY <1>3, <1>5, <2>0, <3>1, <3>2, <4>1
    <3>3. CASE call.n # 1
      BY <1>3, <1>6, <2>0, <2>2, <3>1, <3>3
    <3> QED BY <3>2, <3>3
  <2>3. ASSUME Ready, Takers, Lose(card, AfterRefusal) \/ Lose(card, card), Untaken PROVE CallInv' /\ Implements
    <3>1. card' = AfterRefusal \/ card' = card
      BY <2>3 DEF Lose
    <3>2. card'.st \in {card.st, "tran"} /\ card'.pend = card.pend /\ (call.n # 1 => card'.st = card.st)
      BY <1>2, <1>3, <3>1 DEF AfterRefusal, Card
    <3>3. card'.st \in Writing => lost' = pc
      BY <1>2, <2>3, <3>1 DEF Lose, Deaf, Serving, Writing, Transferring
    <3> QED BY <2>2, <2>3, <3>2, <3>3
  <2>4. ASSUME Ready, ~Takers, UNCHANGED <<card, faults, lost>>, Untaken PROVE CallInv' /\ Implements
    BY <1>4, <2>2, <2>4
  <2>5. ASSUME card' = card, lost' = pc, Untaken PROVE CallInv' /\ Implements
    BY <2>2, <2>5
  <2> QED BY <1>1, <1>9, <2>1, <2>3, <2>4, <2>5 DEF xmit_datablock
<1> QED BY <1>1, <1>8, <1>9 DEF xmit_datablock

LEMMA StopWriteStep ==
    ASSUME StorageInv, CallInv, StopWrite
    PROVE  CallInv' /\ Implements
<1>1. /\ pc = "stopwrite" /\ pc' = "writeend" /\ UNCHANGED <<disk, Stat, call, res>> /\ Stop
      /\ WriteStands /\ Stat /\ card \in Card /\ card.st \in {"off", "writeN"} /\ count \in Nat
  BY DEF StopWrite, Unsaid, CallInv, WritePcs, WriteStands, StorageInv, StorageTypeOK
<1>2. /\ count' \in Nat /\ (count' = 0 => count = 0) /\ card'.pend = card.pend /\ Left'
  <2>1. CASE UNCHANGED <<card, faults>> /\ count' = 1 /\ lost' = pc
    BY <1>1, <2>1 DEF Left
  <2>2. CASE UNCHANGED count /\ CardIs([card EXCEPT !.st = IF @ = "writeN" THEN "tran" ELSE @])
    <3>1. card' = [card EXCEPT !.st = IF @ = "writeN" THEN "tran" ELSE @]
      BY <2>2 DEF CardIs
    <3>2. card'.st \in {"off", "tran"} /\ card'.pend = card.pend
      BY <1>1, <3>1 DEF Card
    <3> QED BY <1>1, <2>2, <3>2 DEF Left
  <2>3. CASE UNCHANGED count /\ Lose(card, card)
    <3>1. card' = card /\ (card.st = "writeN" => lost' = "stopwrite")
      BY <1>1, <2>3 DEF Lose, Deaf, Serving, Transferring, Writing
    <3> QED BY <1>1, <2>3, <3>1 DEF Left
  <2> QED BY <1>1, <2>1, <2>2, <2>3 DEF Stop, StopToken
<1>3. WriteStands'
  BY <1>1, <1>2 DEF WriteStands
<1> QED BY <1>1, <1>2, <1>3, StutterImplements DEF CallInv, ReadPcs, WritePcs, OtherStands, Starting

LEMMA WriteEndStep ==
    ASSUME StorageInv, CallInv, WriteEnd
    PROVE  CallInv' /\ Implements
<1>1. /\ pc = "writeend" /\ Return(IF count = 0 THEN "ok" ELSE "error") /\ UNCHANGED <<card, lost, disk>>
      /\ WriteStands /\ Left
  BY DEF WriteEnd, Unsaid, CallInv, WritePcs, Serving
<1>2. CallInv'
  BY <1>1, ReturnStands DEF Left
<1>3. count = 0 => call # NoCall /\ Device!Fulfilled
  BY <1>1 DEF WriteStands, NoCall, Device!Fulfilled
<1> QED BY <1>1, <1>2, <1>3, ReturnImplements

-----------------------------------------------------------------------------
LEMMA SyncStep ==
    ASSUME StorageInv, CallInv, SyncSelect
    PROVE  CallInv' /\ Implements
<1>1. /\ pc = "sync" /\ Return(IF Ready THEN "ok" ELSE "error") /\ UNCHANGED <<card, lost, disk>>
      /\ call.op = "sync" /\ Left
  BY DEF SyncSelect, Unsaid, CallInv, OtherStands, Serving
<1>2. CallInv'
  BY <1>1, ReturnStands DEF Left
<1>3. Ready => call # NoCall /\ Device!Fulfilled
  BY <1>1 DEF Ready, NoCall, Device!Fulfilled
<1> QED BY <1>1, <1>2, <1>3, ReturnImplements

LEMMA CountCommandStep ==
    ASSUME StorageInv, CallInv, CountCommand
    PROVE  CallInv' /\ Implements
<1>1. PICK r \in Answers : /\ send_cmd("CMD9", 0, r)
         /\ IF r = "ok" THEN pc' = "countblock" /\ UNCHANGED <<call, count, res>> ELSE Return("error")
  BY DEF CountCommand
<1>2. /\ pc = "countcmd" /\ UNCHANGED <<disk, Stat>> /\ call.op = "count" /\ Left /\ card \in Card /\ pc \notin Serving
  BY DEF CountCommand, Unsaid, CallInv, OtherStands, Serving, StorageInv, StorageTypeOK
<1>3. card'.pend = card.pend
  BY <1>1, <1>2, SendOpens
<1>4. CASE r # "ok"
  <2>1. Left'
    BY <1>1, <1>2, <1>4, FailedCommand
  <2> QED BY <1>1, <1>2, <1>3, <1>4, <2>1, ReturnStands, ReturnImplements
<1>5. CASE r = "ok"
  <2>1. card'.st = "read1"
    BY <1>1, <1>2, <1>5, SendOpens DEF Opens
  <2>2. pc' = "countblock" /\ UNCHANGED <<call, count, res>>
    BY <1>1, <1>5
  <2> QED BY <1>2, <1>3, <2>1, <2>2, StutterImplements
          DEF CallInv, ReadPcs, WritePcs, OtherStands, Starting, Serving
<1> QED BY <1>4, <1>5

LEMMA CountBlockStep ==
    ASSUME StorageInv, CallInv, CountBlock
    PROVE  CallInv' /\ Implements
<1>1. PICK ok \in BOOLEAN : rcvr_datablock(ok) /\ Return(IF ok THEN "ok" ELSE "error")
  BY DEF CountBlock
<1>2. /\ pc = "countblock" /\ UNCHANGED <<disk, Stat>> /\ call.op = "count" /\ card \in Card
      /\ card.st \in {"off", "read1"}
  BY DEF CountBlock, Unsaid, CallInv, OtherStands, StorageInv, StorageTypeOK
<1>3. card'.pend = card.pend /\ Left'
  <2>1. CASE ok
    <3>1. card' = [card EXCEPT !.st = "tran"]
      BY <1>1, <1>2, <2>1 DEF rcvr_datablock, Sends, CardIs, AfterBlock
    <3>2. card'.st = "tran" /\ card'.pend = card.pend
      BY <1>2, <3>1 DEF Card
    <3> QED BY <3>2 DEF Left
  <2>2. CASE ~ok /\ card.st = "read1"
    <3>1. (card' = card \/ card' = [card EXCEPT !.st = "tran"]) /\ (card'.st \in Transferring => lost' = "countblock")
      BY <1>1, <1>2, <2>2 DEF rcvr_datablock, Sends, Lose, Deaf, Serving, AfterBlock
    <3>2. card'.pend = card.pend /\ card'.st \in {"read1", "tran"}
      BY <1>2, <2>2, <3>1 DEF Card
    <3> QED BY <3>1, <3>2 DEF Left, Transferring, Reading
  <2>3. CASE ~ok /\ card.st = "off"
    <3>1. card' = card
      BY <1>1, <2>3 DEF rcvr_datablock, Sends
    <3> QED BY <2>3, <3>1 DEF Left
  <2> QED BY <1>2, <2>1, <2>2, <2>3
<1>4. CallInv'
  BY <1>1, <1>2, <1>3, ReturnStands
<1>5. call # NoCall /\ Device!Fulfilled
  BY <1>2 DEF NoCall, Device!Fulfilled
<1> QED BY <1>1, <1>2, <1>3, <1>4, <1>5, ReturnImplements

(* The start-up opens no transfer and touches no sector. *)
LEMMA StartUpStep ==
    ASSUME StorageInv, CallInv, StartStep
    PROVE  CallInv' /\ Implements
<1>1. pc \in Starting /\ pc \notin Serving /\ UNCHANGED disk /\ Left /\ card \in Card /\ call.op = "init"
  BY DEF StartStep, ResetCommand, VoltageCommand, HighCapacity, ReadOCR, Probe, Start, SetBlockLength, Starting,
         Serving, CallInv, OtherStands, StorageInv, StorageTypeOK
<1>2. ASSUME NEW cmd \in {"CMD0", "CMD8", "ACMD41HCS", "ACMD41", "CMD1", "CMD58", "CMD16"}, NEW arg, NEW r,
             send_cmd(cmd, arg, r)
      PROVE  card'.pend = card.pend /\ Left'
  BY <1>1, <1>2, SendOpens, HarmlessCommand DEF Openers
<1>3. card'.pend = card.pend /\ Left'
  <2>1. CASE UNCHANGED <<card, faults, lost>>
    BY <1>1, <2>1 DEF Left
  <2>2. CASE \E cmd \in {"CMD0", "CMD8", "ACMD41HCS", "ACMD41", "CMD1", "CMD58", "CMD16"} :
               \E arg, r : send_cmd(cmd, arg, r)
    BY <1>2, <2>2
  <2>3. CASE ResetCommand
    BY <2>2, <2>3 DEF ResetCommand
  <2>4. CASE VoltageCommand
    BY <2>2, <2>4 DEF VoltageCommand
  <2>5. CASE HighCapacity
    BY <2>1, <2>2, <2>5 DEF HighCapacity
  <2>6. CASE ReadOCR
    BY <2>1, <2>2, <2>6 DEF ReadOCR
  <2>7. CASE Probe
    BY <2>2, <2>7 DEF Probe, OldProbe
  <2>8. CASE Start
    BY <2>1, <2>2, <2>8 DEF Start, OldProbe
  <2>9. CASE SetBlockLength
    BY <2>1, <2>2, <2>9 DEF SetBlockLength
  <2> QED BY <2>3, <2>4, <2>5, <2>6, <2>7, <2>8, <2>9 DEF StartStep
<1>4. \/ pc' \in Starting /\ UNCHANGED <<call, count, res, Stat>>
      \/ \E r \in {"ok", "error"} : Return(r)
  <2>1. \A t : Initialised(t) => \E r \in {"ok", "error"} : Return(r)
    BY DEF Initialised
  <2>2. \A p \in Starting : Goto(p) => pc' \in Starting /\ UNCHANGED <<call, count, res, Stat>>
    BY DEF Goto
  <2>3. \A p \in Starting : \A r : LoopEnds(r, p) => pc' \in Starting /\ UNCHANGED <<call, count, res, Stat>>
    BY <1>1, <2>2 DEF LoopEnds
  <2>4. {"cmd8", "probe", "acmd41", "cmd58", "start", "cmd16"} \subseteq Starting
    BY DEF Starting
  <2>5. CASE ResetCommand
    BY <2>1, <2>2, <2>4, <2>5 DEF ResetCommand
  <2>6. CASE VoltageCommand
    BY <2>1, <2>2, <2>4, <2>6 DEF VoltageCommand
  <2>7. CASE HighCapacity
    BY <2>1, <2>3, <2>4, <2>7 DEF HighCapacity
  <2>8. CASE ReadOCR
    BY <2>1, <2>8 DEF ReadOCR
  <2>9. CASE Probe
    BY <2>4, <2>9 DEF Probe
  <2>10. CASE Start
    BY <2>1, <2>3, <2>4, <2>10 DEF Start
  <2>11. CASE SetBlockLength
    BY <2>1, <2>11 DEF SetBlockLength
  <2> QED BY <2>5, <2>6, <2>7, <2>8, <2>9, <2>10, <2>11 DEF StartStep
<1>5. ASSUME pc' \in Starting, UNCHANGED <<call, count, res, Stat>>
      PROVE  CallInv' /\ Implements
  <2>1. pc' \notin ReadPcs \cup WritePcs \cup {"ready", "sync", "countcmd", "countblock"}
    BY <1>5 DEF ReadPcs, WritePcs, Starting
  <2> QED BY <1>1, <1>3, <1>5, <2>1, StutterImplements DEF CallInv, OtherStands
<1>6. ASSUME NEW r \in {"ok", "error"}, Return(r)
      PROVE  CallInv' /\ Implements
  <2>1. call # NoCall /\ Device!Fulfilled
    BY <1>1 DEF NoCall, Device!Fulfilled
  <2> QED BY <1>1, <1>3, <1>6, <2>1, ReturnStands, ReturnImplements
<1> QED BY <1>4, <1>5, <1>6

LEMMA CalledStep ==
    ASSUME StorageInv, CallInv, Callers
    PROVE  CallInv' /\ Implements
<1> USE StorageAssumption
<1>1. PICK op, at, n, data, first :
        /\ Calling(op, at, n, data, first)
        /\ \/ op = "read" /\ first = "readcmd" /\ data = <<>> /\ at \in Sectors /\ n \in 1..MaxCount /\ at + n <= NSectors
           \/ op = "write" /\ first = "select" /\ at \in Sectors /\ n \in 1..MaxCount /\ at + n <= NSectors
              /\ data \in [1..n -> Data]
           \/ at = 0 /\ n = 0 /\ data = <<>>
              /\ <<op, first>> \in {<<"sync", "sync">>, <<"count", "countcmd">>, <<"init", "cmd0">>}
  <2>1. CASE \E s \in Sectors, n \in 1..MaxCount : s + n <= NSectors /\ disk_read(s, n)
    BY <2>1 DEF disk_read
  <2>2. CASE \E s \in Sectors, n \in 1..MaxCount : s + n <= NSectors /\ \E data \in [1..n -> Data] : disk_write(s, data)
    <3>1. PICK s \in Sectors, n \in 1..MaxCount : s + n <= NSectors /\ \E data \in [1..n -> Data] : disk_write(s, data)
      BY <2>2
    <3>2. PICK data \in [1..n -> Data] : disk_write(s, data)
      BY <3>1
    <3>3. Len(data) = n
      OBVIOUS
    <3> QED BY <3>1, <3>2, <3>3 DEF disk_write
  <2>3. CASE CTRL_SYNC \/ GET_SECTOR_COUNT \/ disk_initialize
    BY <2>3 DEF CTRL_SYNC, GET_SECTOR_COUNT, disk_initialize
  <2> QED BY <2>1, <2>2, <2>3 DEF Callers
<1>2. /\ pc = "ready" /\ UNCHANGED <<disk, card, Stat, lost>> /\ call = NoCall /\ Left
      /\ disk \in [Sectors -> Content] /\ call \in Called /\ count \in Nat
  BY <1>1 DEF Calling, CallInv, OtherStands, Serving
<1>3. CASE ~(Stat \/ op = "init")
  <2>1. res' = "error" /\ UNCHANGED <<call, pc, count>>
    BY <1>1, <1>3 DEF Calling
  <2>2. CallInv'
    BY <1>2, <2>1 DEF CallInv, ReadPcs, WritePcs, OtherStands, Starting, Left, Called
  <2>3. Device!Return
    BY <1>2, <2>1 DEF Device!Return, NoCall, Device!NoCall, Device!Request
  <2> QED BY <2>2, <2>3 DEF Implements, Device!Next
<1>4. CASE Stat \/ op = "init"
  <2>1. /\ call' = [NoCall EXCEPT !.op = op, !.at = at, !.n = n, !.data = data]
        /\ pc' = first /\ count' = n /\ UNCHANGED res
    BY <1>1, <1>4 DEF Calling
  <2>2. /\ call'.op = op /\ call'.at = at /\ call'.n = n /\ call'.data = data
        /\ call'.got = <<>> /\ call'.done = 0 /\ Len(call'.got) = 0
    BY <2>1, EmptySeq DEF NoCall
  <2>3. n \in Nat /\ at \in Sectors /\ at + n <= NSectors
    BY <1>1 DEF Sectors
  <2>4. data \in Seq(Data) /\ <<>> \in Seq(Content) /\ 0 \in Nat
    <3>1. \A k \in Nat : [1..k -> Data] \subseteq Seq(Data)
      OBVIOUS
    <3> QED BY <1>1, <2>3, <3>1, EmptySeq
  <2>5. op \in {"read", "write", "sync", "count", "init"}
    BY <1>1
  <2>0. call' = [op |-> op, at |-> at, n |-> n, data |-> data, got |-> <<>>, done |-> 0]
    BY <2>1 DEF NoCall
  <2>6. call' \in Called
    BY <2>0, <2>3, <2>4, <2>5 DEF Called
  <2>7. CallInv'
    <3>1. CASE op = "read"
      <4>1. first = "readcmd" /\ n > 0 /\ Stat
        BY <1>1, <1>4, <3>1
      <4>2. ReadStands'
        BY <2>1, <2>2, <2>3, <3>1, <4>1 DEF ReadStands
      <4> QED BY <1>2, <2>1, <2>3, <2>6, <4>1, <4>2 DEF CallInv, ReadPcs, WritePcs, OtherStands, Starting, Left
    <3>2. CASE op = "write"
      <4>1. first = "select" /\ n > 0 /\ Stat /\ data \in [1..n -> Data]
        BY <1>1, <1>4, <3>2
      <4>2. WriteStands'
        BY <2>1, <2>2, <2>3, <3>2, <4>1 DEF WriteStands
      <4> QED BY <1>2, <2>1, <2>3, <2>6, <4>1, <4>2 DEF CallInv, ReadPcs, WritePcs, OtherStands, Starting, Left
    <3>3. CASE op \notin {"read", "write"}
      <4>1. <<op, first>> \in {<<"sync", "sync">>, <<"count", "countcmd">>, <<"init", "cmd0">>}
        BY <1>1, <3>3
      <4>2. (op = "sync" /\ first = "sync") \/ (op = "count" /\ first = "countcmd") \/ (op = "init" /\ first = "cmd0")
        BY <4>1
      <4> QED BY <1>2, <2>1, <2>2, <2>3, <2>6, <4>2 DEF CallInv, ReadPcs, WritePcs, OtherStands, Starting, Left
    <3> QED BY <3>1, <3>2, <3>3
  <2>8. Device!Begin
    <3>0. 1..NSectors \subseteq Nat /\ (n > 0 => n \in 1..NSectors)
      BY <2>3 DEF Sectors
    <3>1. call' = Device!Request(op, at, n, data)
      BY <2>0 DEF Device!Request
    <3>2. Device!Sectors = Sectors /\ call = Device!NoCall /\ UNCHANGED <<disk, card.pend, res>>
      BY <1>2, <2>1 DEF Device!Sectors, Sectors, NoCall, Device!NoCall, Device!Request
    <3>3. CASE op = "read"
      <4>1. data = <<>> /\ n \in 1..NSectors
        BY <1>1, <3>0, <3>3
      <4> QED BY <2>3, <3>1, <3>2, <3>3, <4>1 DEF Device!Begin
    <3>4. CASE op = "write"
      <4>1. data \in [1..n -> Data] /\ n \in 1..NSectors
        BY <1>1, <3>0, <3>4
      <4> QED BY <2>3, <3>1, <3>2, <3>4, <4>1 DEF Device!Begin
    <3>5. CASE op \notin {"read", "write"}
      <4>1. at = 0 /\ n = 0 /\ data = <<>> /\ <<op, first>> \in {<<"sync", "sync">>, <<"count", "countcmd">>, <<"init", "cmd0">>}
        BY <1>1, <3>5
      <4>2. op \in {"sync", "count", "init"}
        BY <4>1
      <4> QED BY <3>1, <3>2, <4>1, <4>2 DEF Device!Begin
    <3> QED BY <3>3, <3>4, <3>5
  <2> QED BY <2>7, <2>8 DEF Implements, Device!Next
<1> QED BY <1>3, <1>4

LEMMA SwapStep ==
    ASSUME StorageInv, CallInv, Swap
    PROVE  CallInv' /\ Implements
<1>1. PICK k \in Kinds : card' = NewCard(k)
  BY DEF Swap
<1>2. card'.st = "off" /\ card'.pend = {} /\ UNCHANGED <<Stat, pc, call, count, res>>
  BY <1>1 DEF NewCard, Swap
<1>3. disk' \in [Sectors -> Content]
  BY DEF Swap, Content
<1>4. card'.st \notin Reading \cup Writing
  BY <1>2 DEF Reading, Writing
<1>5. ReadStands => ReadStands'
  BY <1>2, <1>4 DEF ReadStands
<1>6. WriteStands => WriteStands'
  BY <1>2, <1>4 DEF WriteStands
<1>7. OtherStands => OtherStands'
  BY <1>2 DEF OtherStands
<1>8. Left'
  BY <1>2 DEF Left
<1>9. CallInv'
  BY <1>2, <1>3, <1>5, <1>6, <1>7, <1>8 DEF CallInv, ReadPcs, WritePcs
<1>10. Device!Swap
  BY <1>2, <1>3 DEF Device!Swap, Device!Content, Device!Sectors, Sectors, Content
<1> QED BY <1>9, <1>10 DEF Implements, Device!Next

LEMMA PowerFailsStep ==
    ASSUME StorageInv, CallInv, PowerFails
    PROVE  CallInv' /\ Implements
<1> USE StorageAssumption
<1>1. card' = NewCard(card.kind) /\ pc' = "ready" /\ call' = NoCall /\ count' = 0 /\ res' = res
  BY DEF PowerFails
<1>2. card'.st = "off" /\ card'.pend = {}
  BY <1>1 DEF NewCard
<1>3. disk \in [Sectors -> Content] /\ card.pend \in SUBSET Sectors
  BY DEF CallInv, StorageInv, StorageTypeOK, Card
<1>4. PICK v \in Content : disk' = [s \in Sectors |-> IF s \in card.pend THEN v ELSE disk[s]]
  BY DEF PowerFails
<1>5. disk' \in [Sectors -> Content] /\ \A s \in Sectors \ card.pend : disk'[s] = disk[s]
  BY <1>3, <1>4
<1>6. Left'
  BY <1>2 DEF Left
<1>7. NoCall \in Called
  <2>1. <<>> \in Seq(Data) /\ <<>> \in Seq(Content) /\ 0 \in Sectors
    BY EmptySeq DEF Sectors
  <2> QED BY <2>1 DEF NoCall, Called
<1>8. CallInv'
  BY <1>1, <1>5, <1>6, <1>7 DEF CallInv, ReadPcs, WritePcs, OtherStands, Starting
<1>9. Device!PowerFails
  BY <1>1, <1>2, <1>5 DEF Device!PowerFails, Device!Content, Device!Sectors, Sectors, Content, NoCall, Device!NoCall,
                          Device!Request
<1> QED BY <1>8, <1>9 DEF Implements, Device!Next

LEMMA ProgrammedStep ==
    ASSUME StorageInv, CallInv, Programmed
    PROVE  CallInv' /\ Implements
<1>1. /\ card \in Card /\ card.pend # {} /\ card' = [card EXCEPT !.pend = {}]
      /\ UNCHANGED <<disk, Stat, pc, call, count, res, lost>>
  BY DEF Programmed, StorageInv, StorageTypeOK
<1>2. card'.st = card.st /\ card'.at = card.at /\ card'.pend = {}
  BY <1>1 DEF Card
<1>3. ReadStands => ReadStands'
  BY <1>1, <1>2 DEF ReadStands
<1>4. WriteStands => WriteStands'
  BY <1>1, <1>2 DEF WriteStands
<1>5. (OtherStands => OtherStands') /\ (Left => Left')
  BY <1>1, <1>2 DEF OtherStands, Left
<1>6. CallInv'
  BY <1>1, <1>3, <1>4, <1>5 DEF CallInv
<1>7. Device!Settle
  BY <1>1, <1>2 DEF Device!Settle
<1> QED BY <1>6, <1>7 DEF Implements, Device!Next

LEMMA IdleStep ==
    ASSUME StorageInv, CallInv, Clock \/ UNCHANGED vars
    PROVE  CallInv' /\ Implements
<1>1. UNCHANGED <<disk, card, Stat, pc, call, count, res, lost>>
  BY DEF Clock, vars
<1>2. (ReadStands => ReadStands') /\ (WriteStands => WriteStands') /\ (OtherStands => OtherStands') /\ (Left => Left')
  BY <1>1 DEF ReadStands, WriteStands, OtherStands, Left
<1> QED BY <1>1, <1>2, StutterImplements DEF CallInv

LEMMA StorageStep ==
    ASSUME StorageInv, CallInv, [Next]_vars
    PROVE  CallInv' /\ Implements
BY ReadCommandStep, ReadBlockStep, StopReadStep, ReadEndStep, SelectStep, PreEraseStep, WriteCommandStep,
   WriteBlockStep, StopWriteStep, WriteEndStep, SyncStep, CountCommandStep, CountBlockStep, StartUpStep,
   CalledStep, SwapStep, PowerFailsStep, ProgrammedStep, IdleStep, Zenon
DEF Next, Driver, StartStep

LEMMA InitStands == Init => CallInv /\ Device!Init
<1> SUFFICES ASSUME Init PROVE CallInv /\ Device!Init
  OBVIOUS
<1> USE StorageAssumption
<1>1. PICK k \in Kinds : card = NewCard(k)
  BY DEF Init
<1>2. card.st = "off" /\ card.pend = {} /\ call = NoCall /\ pc = "ready" /\ count = 0 /\ res = "ok"
  BY <1>1 DEF NewCard, Init
<1>3. disk \in [Sectors -> Content]
  BY DEF Init, Content
<1>4. NoCall \in Called
  <2>1. <<>> \in Seq(Data) /\ <<>> \in Seq(Content) /\ 0 \in Sectors
    BY EmptySeq DEF Sectors
  <2> QED BY <2>1 DEF NoCall, Called
<1>5. CallInv
  BY <1>2, <1>3, <1>4 DEF CallInv, ReadPcs, WritePcs, OtherStands, Starting, Left
<1>6. Device!Init
  BY <1>2, <1>3 DEF Device!Init, Device!Content, Device!Sectors, Sectors, Content, NoCall, Device!NoCall, Device!Request
<1> QED BY <1>5, <1>6

LEMMA CallInvariant == Spec => [](StorageInv /\ CallInv)
<1>1. Init => CallInv
  BY InitStands
<1>2. StorageInv /\ CallInv /\ [Next]_vars => CallInv'
  BY StorageStep
<1> QED BY <1>1, <1>2, StorageInvariant, PTL DEF Spec

(* A call that has returned, with whatever result, has left no transfer     *)
(* open on the card, but for one whose opening or end was itself lost.      *)
THEOREM TransfersClosed == Spec => []TransferClosed
<1>1. CallInv => TransferClosed
  BY DEF CallInv, TransferClosed, Left, Serving
<1> QED BY <1>1, CallInvariant, PTL

(* The driver implements the block device: RES_OK means that each sector    *)
(* asked for, and no other, was read or written, whatever was lost, torn or *)
(* exchanged on the way.                                                    *)
THEOREM DriverImplementsBlockDevice == Spec => ImplementsBlockDevice
<1>1. Init => Device!Init
  BY InitStands
<1>2. StorageInv /\ CallInv /\ [Next]_vars => [Device!Next]_(Device!vars)
  BY StorageStep DEF Implements
<1> QED BY <1>1, <1>2, CallInvariant, PTL DEF Spec, ImplementsBlockDevice, Device!Spec
=============================================================================
