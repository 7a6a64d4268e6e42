------------------------------- MODULE Storage -------------------------------
(***************************************************************************)
(* The SD card driver, sdcard.c: the start-up of the card and its type, the *)
(* reading and writing of one or several sectors, CTRL_SYNC and the sector  *)
(* count, one card exchange per step.                                       *)
(*                                                                         *)
(* The card is external.  It may lose a command or its answer, take longer  *)
(* than any time-out to program a sector, be exchanged for another, and     *)
(* lose its power together with the processor.                              *)
(***************************************************************************)
EXTENDS Naturals, Sequences

CONSTANTS
    NSectors, Data, Torn,   \* as in BlockDevice
    BlockLen,               \* the bytes of a sector, 512
    MaxCount,               \* sectors in one call
    MaxFaults               \* bound on lost exchanges and exchanged cards

ASSUME StorageAssumption ==
    /\ NSectors \in Nat \ {0} /\ BlockLen \in Nat \ {0} /\ MaxCount \in Nat /\ MaxFaults \in Nat
    /\ Torn \notin Data

Sectors == 0..(NSectors - 1)
Content == Data \cup {Torn}
Kinds == {"MMC", "SD1", "SD2", "SDHC"}
Reading == {"read1", "readN"}
Writing == {"write1", "writeN"}
Transferring == Reading \cup Writing

VARIABLES
    disk,             \* what the sectors hold, including one being programmed
    card,             \* [kind, st, at, pend]: pend is the sector being programmed
    Stat, CardType,   \* the driver's statics; Stat is TRUE when STA_NOINIT is clear
    pc, call, count,  \* the call being served, and the sectors it has left
    ty, late,         \* disk_initialize: its ty; its second has passed
    res,              \* how the last call ended
    faults, lost      \* what was lost; at which step the open transfer lost its driver

InitVars == <<ty, late>>
vars == <<disk, card, Stat, CardType, pc, call, count, InitVars, res, faults, lost>>

NoCall == [op |-> "none", at |-> 0, n |-> 0, data |-> <<>>, got |-> <<>>, done |-> 0]
NewCard(k) == [kind |-> k, st |-> "off", at |-> 0, pend |-> {}]

Init ==
    /\ disk \in {[s \in Sectors |-> d] : d \in Data}
    /\ \E k \in Kinds : card = NewCard(k)
    /\ Stat = FALSE /\ CardType = "none"
    /\ pc = "ready" /\ call = NoCall /\ count = 0
    /\ ty = "none" /\ late = FALSE /\ res = "ok"
    /\ faults = 0 /\ lost = "nowhere"

-----------------------------------------------------------------------------
(* The card: the sector an address means to it, and what a command does to  *)
(* it and answers.  R1 is "ok" (0), "idle" (1) or "bad" (an error); "none"  *)
(* is the 0xFF of a card that does not answer.  A card that is sending or   *)
(* receiving data knows no command but the end of its transfer.             *)
Addressed(c, arg) ==
    IF c.kind = "SDHC" THEN {arg} \cap Sectors ELSE {s \in Sectors : arg = s * BlockLen}
Opened(c, st, arg) ==
    IF Addressed(c, arg) = {} THEN {<<"bad", c>>}
    ELSE {<<"ok", [c EXCEPT !.st = st, !.at = s]>> : s \in Addressed(c, arg)}
(* An initialisation may take any time; a high-capacity card waits for a    *)
(* host that knows it (HCS).                                                *)
Initialising(c, hcs) ==
    {<<"idle", c>>} \cup (IF c.kind = "SDHC" /\ ~hcs THEN {} ELSE {<<"ok", [c EXCEPT !.st = "tran"]>>})

Idle(c, cmd) ==
    CASE cmd = "CMD0" -> {<<"idle", c>>}
      [] cmd = "CMD8" -> {<<IF c.kind \in {"SD2", "SDHC"} THEN "idle" ELSE "bad", c>>}
      [] cmd = "ACMD41" -> IF c.kind = "MMC" THEN {<<"bad", c>>} ELSE Initialising(c, FALSE)
      [] cmd = "ACMD41HCS" -> IF c.kind = "MMC" THEN {<<"bad", c>>} ELSE Initialising(c, TRUE)
      [] cmd = "CMD1" -> Initialising(c, FALSE)
      [] OTHER -> {<<"bad", c>>}
Tran(c, cmd, arg) ==
    CASE cmd = "CMD0" -> {<<"idle", [c EXCEPT !.st = "idle"]>>}
      [] cmd = "CMD17" -> Opened(c, "read1", arg)
      [] cmd = "CMD18" -> Opened(c, "readN", arg)
      [] cmd = "CMD24" -> Opened(c, "write1", arg)
      [] cmd = "CMD25" -> Opened(c, "writeN", arg)
      [] cmd = "CMD9" -> {<<"ok", [c EXCEPT !.st = "read1"]>>}
      [] cmd \in {"ACMD41", "ACMD41HCS", "ACMD23"} -> {<<IF c.kind = "MMC" THEN "bad" ELSE "ok", c>>}
      [] cmd \in {"CMD1", "CMD16", "CMD58"} -> {<<"ok", c>>}
      [] OTHER -> {<<"bad", c>>}
Takes(c, cmd, arg) ==
    CASE c.st = "off" -> IF cmd = "CMD0" THEN {<<"idle", [c EXCEPT !.st = "idle"]>>} ELSE {<<"none", c>>}
      [] c.st = "idle" -> Idle(c, cmd)
      [] c.st = "tran" -> Tran(c, cmd, arg)
      [] c.st = "readN" /\ cmd = "CMD12" -> {<<"ok", [c EXCEPT !.st = "tran"]>>}
      [] OTHER -> {<<"none", c>>}

(* Deselecting a card may end a transfer that was left open, or not. *)
Deselected(c) == {c} \cup (IF c.st \in Transferring THEN {[c EXCEPT !.st = "tran"]} ELSE {})
Ready == card.pend = {}

(* A transfer left open by an earlier call does not hear the commands of    *)
(* this one.                                                                *)
Serving == {"readblock", "stopread", "writeblock", "stopwrite", "countblock"}
Deaf(c) == c.st \in Transferring /\ pc \notin Serving

CardIs(c) == card' = c /\ lost' = IF c.st \in Transferring THEN lost ELSE "nowhere"
Lose(before, c) ==
    /\ faults < MaxFaults /\ faults' = faults + 1
    /\ card' = c
    /\ lost' = IF c.st \notin Transferring THEN "nowhere" ELSE IF Deaf(before) THEN lost ELSE pc

(* send_cmd: wait until the card is ready (not so for CMD12), send, and get *)
(* the answer.  An ACMD is preceded by CMD55: if that is lost, or refused,  *)
(* so is the command.                                                       *)
send_cmd(cmd, arg, r) ==
    \/ /\ Ready
       /\ \E c \in IF cmd = "CMD12" THEN {card} ELSE Deselected(card) :
            \E a \in Takes(c, cmd, arg) :
              \/ r = a[1] /\ CardIs(a[2]) /\ UNCHANGED faults
              \/ r = "none" /\ (Lose(c, c) \/ Lose(c, a[2]))
    \/ ~Ready /\ r = "none" /\ UNCHANGED <<card, faults, lost>>

Answers == {"ok", "idle", "bad", "none"}

-----------------------------------------------------------------------------
(* Calls. *)
Return(r) == pc' = "ready" /\ call' = NoCall /\ count' = 0 /\ res' = r
Calling(op, at, n, data, first) ==
    /\ pc = "ready"
    /\ IF Stat \/ op = "init"
       THEN /\ call' = [NoCall EXCEPT !.op = op, !.at = at, !.n = n, !.data = data]
            /\ pc' = first /\ count' = n /\ UNCHANGED res
       ELSE res' = "error" /\ UNCHANGED <<call, pc, count>>
    /\ UNCHANGED <<disk, card, Stat, CardType, InitVars, faults, lost>>

disk_read(s, n) == Calling("read", s, n, <<>>, "readcmd")
disk_write(s, data) == Calling("write", s, Len(data), data, "select")
CTRL_SYNC == Calling("sync", 0, 0, <<>>, "sync")
GET_SECTOR_COUNT == Calling("count", 0, 0, <<>>, "countcmd")
disk_initialize == Calling("init", 0, 0, <<>>, "cmd0")

(* LBA or byte address. *)
BlockAddressing == CardType = "SD2BLOCK"
Address == IF BlockAddressing THEN call.at ELSE call.at * BlockLen

Unsaid == UNCHANGED <<disk, Stat, CardType, InitVars>>

ReadCommand ==
    /\ pc = "readcmd"
    /\ \E r \in Answers :
         /\ send_cmd(IF call.n = 1 THEN "CMD17" ELSE "CMD18", Address, r)
         /\ IF r = "ok" THEN pc' = "readblock" /\ UNCHANGED <<call, count, res>> ELSE Return("error")
    /\ Unsaid

(* rcvr_datablock: the next block the card sends, or no valid token. *)
AfterBlock == IF card.st = "read1" THEN [card EXCEPT !.st = "tran"] ELSE [card EXCEPT !.at = @ + 1]
Sends == card.st = "read1" \/ (card.st = "readN" /\ card.at \in Sectors)
rcvr_datablock(ok) ==
    \/ ok /\ Sends /\ CardIs(AfterBlock) /\ UNCHANGED faults
    \/ ~ok /\ Sends /\ (Lose(card, card) \/ Lose(card, AfterBlock))
    \/ ~ok /\ ~Sends /\ UNCHANGED <<card, faults, lost>>

(* The loop of disk_read, and how it is left. *)
ReadEndsUnstopped(ok) ==
    IF count' > 0 /\ ok THEN UNCHANGED <<pc, res>>
    ELSE pc' = (IF call.n = 1 \/ ~ok THEN "readend" ELSE "stopread") /\ UNCHANGED res
ReadEnds(ok) ==
    IF count' > 0 /\ ok THEN UNCHANGED <<pc, res>>
    ELSE pc' = (IF call.n = 1 THEN "readend" ELSE "stopread") /\ UNCHANGED res
ReadBlock ==
    /\ pc = "readblock"
    /\ \E ok \in BOOLEAN :
         /\ rcvr_datablock(ok)
         /\ IF ok THEN call' = [call EXCEPT !.got = Append(@, disk[card.at])] /\ count' = count - 1
            ELSE UNCHANGED <<call, count>>
         /\ ReadEnds(ok)
    /\ Unsaid
StopRead ==
    /\ pc = "stopread"
    /\ \E r \in Answers : send_cmd("CMD12", 0, r)
    /\ pc' = "readend" /\ UNCHANGED <<call, count, res>> /\ Unsaid
ReadEnd ==
    /\ pc = "readend"
    /\ Return(IF count = 0 THEN "ok" ELSE "error")
    /\ UNCHANGED <<card, faults, lost>> /\ Unsaid

-----------------------------------------------------------------------------
(* disk_write *)
Select ==
    /\ pc = "select"
    /\ \/ Ready /\ pc' = "preerase" /\ UNCHANGED <<call, count, res>>
       \/ ~Ready /\ Return("error")
    /\ UNCHANGED <<card, faults, lost>> /\ Unsaid
PreErase ==
    /\ pc = "preerase"
    /\ IF call.n > 1 /\ CardType \in {"SD1", "SD2", "SD2BLOCK"}
       THEN \E r \in Answers : send_cmd("ACMD23", call.n, r)
       ELSE UNCHANGED <<card, faults, lost>>
    /\ pc' = "writecmd" /\ UNCHANGED <<call, count, res>> /\ Unsaid
WriteCommand ==
    /\ pc = "writecmd"
    /\ \E r \in Answers :
         /\ send_cmd(IF call.n = 1 THEN "CMD24" ELSE "CMD25", Address, r)
         /\ IF r = "ok" THEN pc' = "writeblock" /\ UNCHANGED <<call, count, res>> ELSE Return("error")
    /\ Unsaid

(* xmit_datablock of a data block: the card is not ready in time, or it     *)
(* takes the block, or refuses it, or the block or the response is lost.    *)
Takers == card.st \in Writing /\ card.at \in Sectors
AfterTake ==
    [card EXCEPT !.pend = {card.at}, !.st = IF @ = "write1" THEN "tran" ELSE @,
                 !.at = IF card.st = "writeN" THEN @ + 1 ELSE @]
AfterRefusal == IF card.st = "write1" THEN [card EXCEPT !.st = "tran"] ELSE card
Taken ==
    /\ disk' = [disk EXCEPT ![card.at] = call.data[call.n - count + 1]]
    /\ call' = [call EXCEPT !.done = @ + 1]
Untaken == UNCHANGED <<disk, call>>
xmit_datablock(ok) ==
    \/ Ready /\ Takers /\ ok /\ CardIs(AfterTake) /\ Taken /\ UNCHANGED faults
    \/ Ready /\ Takers /\ ~ok /\ Lose(card, AfterTake) /\ Taken
    \/ Ready /\ Takers /\ ~ok /\ (Lose(card, AfterRefusal) \/ Lose(card, card)) /\ Untaken
    \/ Ready /\ ~Takers /\ ~ok /\ UNCHANGED <<card, faults, lost>> /\ Untaken
    \/ ~Ready /\ ~ok /\ card' = card /\ lost' = pc /\ UNCHANGED faults /\ Untaken

WriteBlock ==
    /\ pc = "writeblock"
    /\ \E ok \in BOOLEAN :
         /\ xmit_datablock(ok)
         /\ count' = IF ok THEN count - 1 ELSE count
         /\ IF count' > 0 /\ ok THEN UNCHANGED pc
            ELSE pc' = IF call.n = 1 THEN "writeend" ELSE "stopwrite"
    /\ UNCHANGED <<res, Stat, CardType, InitVars>>

(* The stop token, which nothing answers. *)
StopToken ==
    \/ CardIs([card EXCEPT !.st = IF @ = "writeN" THEN "tran" ELSE @]) /\ UNCHANGED faults
    \/ Lose(card, card)
Stop ==
    IF Ready THEN StopToken /\ UNCHANGED count
    ELSE count' = 1 /\ lost' = pc /\ UNCHANGED <<card, faults>>
StopWrite ==
    /\ pc = "stopwrite" /\ Stop
    /\ pc' = "writeend" /\ UNCHANGED <<call, res>> /\ Unsaid
WriteEnd ==
    /\ pc = "writeend"
    /\ Return(IF count = 0 THEN "ok" ELSE "error")
    /\ UNCHANGED <<card, faults, lost>> /\ Unsaid

-----------------------------------------------------------------------------
(* disk_ioctl *)
SyncAtOnce ==
    /\ pc = "sync" /\ Return("ok")
    /\ UNCHANGED <<card, faults, lost>> /\ Unsaid
SyncSelect ==
    /\ pc = "sync"
    /\ Return(IF Ready THEN "ok" ELSE "error")
    /\ UNCHANGED <<card, faults, lost>> /\ Unsaid
CountCommand ==
    /\ pc = "countcmd"
    /\ \E r \in Answers :
         /\ send_cmd("CMD9", 0, r)
         /\ IF r = "ok" THEN pc' = "countblock" /\ UNCHANGED <<call, count, res>> ELSE Return("error")
    /\ Unsaid
CountBlock ==
    /\ pc = "countblock"
    /\ \E ok \in BOOLEAN : rcvr_datablock(ok) /\ Return(IF ok THEN "ok" ELSE "error")
    /\ Unsaid

-----------------------------------------------------------------------------
(* disk_initialize: the type of the card. *)
Initialised(t) ==
    /\ CardType' = t /\ Stat' = (t # "none")
    /\ Return(IF t = "none" THEN "error" ELSE "ok")
    /\ ty' = "none" /\ late' = FALSE
Goto(p) == pc' = p /\ UNCHANGED <<ty, late, CardType, Stat, call, count, res>>

ResetCommand ==
    /\ pc = "cmd0"
    /\ \E r \in Answers : send_cmd("CMD0", 0, r) /\ IF r = "idle" THEN Goto("cmd8") ELSE Initialised("none")
    /\ UNCHANGED disk
(* The card may say that it does not support the voltage. *)
VoltageCommand ==
    /\ pc = "cmd8"
    /\ \E r \in Answers :
         /\ send_cmd("CMD8", 0, r)
         /\ IF r # "idle" THEN Goto("probe") ELSE Goto("acmd41") \/ Initialised("none")
    /\ UNCHANGED disk

(* A loop ends when the card is up or the second has passed; whatever ended *)
(* it, the time decides.                                                    *)
LoopEnds(r, next) == IF r = "ok" THEN Goto(next) ELSE UNCHANGED <<pc, ty, late, CardType, Stat, call, count, res>>
HighCapacity ==
    /\ pc = "acmd41"
    /\ IF late THEN Initialised("none") /\ UNCHANGED <<card, faults, lost>>
       ELSE \E r \in Answers : send_cmd("ACMD41HCS", 0, r) /\ LoopEnds(r, "cmd58")
    /\ UNCHANGED disk
TypeOf(r) == IF r # "ok" THEN "none" ELSE IF card.kind = "SDHC" THEN "SD2BLOCK" ELSE "SD2"
ReadOCR ==
    /\ pc = "cmd58"
    /\ IF late THEN Initialised("none") /\ UNCHANGED <<card, faults, lost>>
       ELSE \E r \in Answers : send_cmd("CMD58", 0, r) /\ Initialised(TypeOf(r))
    /\ UNCHANGED disk
OldProbeHCS == "ACMD41HCS"
OldProbe == "ACMD41"
Probe ==
    /\ pc = "probe"
    /\ \E r \in Answers :
         /\ send_cmd(OldProbe, 0, r)
         /\ ty' = IF r \in {"ok", "idle"} THEN "SD1" ELSE "MMC"
    /\ pc' = "start" /\ UNCHANGED <<disk, late, CardType, Stat, call, count, res>>
StartUntimed ==
    /\ pc = "start"
    /\ \E r \in Answers :
              send_cmd(IF ty = "SD1" THEN OldProbe ELSE "CMD1", 0, r) /\ LoopEnds(r, "cmd16")
    /\ UNCHANGED disk
Start ==
    /\ pc = "start"
    /\ IF late THEN Initialised("none") /\ UNCHANGED <<card, faults, lost>>
       ELSE \E r \in Answers :
              send_cmd(IF ty = "SD1" THEN OldProbe ELSE "CMD1", 0, r) /\ LoopEnds(r, "cmd16")
    /\ UNCHANGED disk
SetBlockLength ==
    /\ pc = "cmd16"
    /\ IF late THEN Initialised("none") /\ UNCHANGED <<card, faults, lost>>
       ELSE \E r \in Answers : send_cmd("CMD16", BlockLen, r) /\ Initialised(IF r = "ok" THEN ty ELSE "none")
    /\ UNCHANGED disk
Clock ==
    /\ pc \in {"cmd8", "acmd41", "cmd58", "probe", "start", "cmd16"} /\ ~late /\ late' = TRUE
    /\ UNCHANGED <<disk, card, Stat, CardType, pc, call, count, ty, res, faults, lost>>

-----------------------------------------------------------------------------
(* The card ends its programming; it is taken out and another put in; the   *)
(* power fails.                                                             *)
Programmed ==
    /\ card.pend # {} /\ card' = [card EXCEPT !.pend = {}]
    /\ UNCHANGED <<disk, Stat, CardType, pc, call, count, InitVars, res, faults, lost>>
Swap ==
    /\ faults < MaxFaults /\ faults' = faults + 1
    /\ \E k \in Kinds : card' = NewCard(k)
    /\ disk' \in {[s \in Sectors |-> d] : d \in Data} /\ lost' = "nowhere"
    /\ UNCHANGED <<Stat, CardType, pc, call, count, InitVars, res>>
PowerFails ==
    /\ faults < MaxFaults /\ faults' = faults + 1
    /\ card' = NewCard(card.kind)
    /\ disk' \in {[s \in Sectors |-> IF s \in card.pend THEN v ELSE disk[s]] : v \in Content}
    /\ Stat' = FALSE /\ CardType' = "none"
    /\ pc' = "ready" /\ call' = NoCall /\ count' = 0
    /\ ty' = "none" /\ late' = FALSE /\ lost' = "nowhere"
    /\ UNCHANGED res

Driver ==
    \/ ReadCommand \/ ReadBlock \/ StopRead \/ ReadEnd
    \/ Select \/ PreErase \/ WriteCommand \/ WriteBlock \/ StopWrite \/ WriteEnd
    \/ SyncSelect \/ CountCommand \/ CountBlock
    \/ ResetCommand \/ VoltageCommand \/ HighCapacity \/ ReadOCR \/ Probe \/ Start \/ SetBlockLength
Callers ==
    \/ \E s \in Sectors, n \in 1..MaxCount :
         /\ s + n <= NSectors
         /\ disk_read(s, n) \/ \E data \in [1..n -> Data] : disk_write(s, data)
    \/ CTRL_SYNC \/ GET_SECTOR_COUNT \/ disk_initialize
Next == Driver \/ Callers \/ Clock \/ Programmed \/ Swap \/ PowerFails

(* The driver runs on and the time passes; the card promises nothing. *)
Spec == Init /\ [][Next]_vars /\ WF_vars(Driver) /\ WF_vars(Clock)

-----------------------------------------------------------------------------
Card == [kind : Kinds, st : {"off", "idle", "tran"} \cup Transferring, at : 0..NSectors, pend : SUBSET Sectors]
StorageTypeOK ==
    /\ card \in Card
    /\ Stat \in BOOLEAN /\ CardType \in {"none", "MMC", "SD1", "SD2", "SD2BLOCK"}
    /\ Stat <=> CardType # "none"
    /\ ty \in {"none", "SD1", "MMC"} /\ late \in BOOLEAN /\ res \in {"ok", "error"}

(* The driver and the card agree on what an address is, whichever answers   *)
(* of the start-up were lost or late: a card that counts sectors is never   *)
(* taken for one that counts bytes, nor the reverse.                        *)
Starting == {"cmd0", "cmd8", "acmd41", "cmd58", "probe", "start", "cmd16"}
Down == card.st \in {"off", "idle"}
AddressingAgrees ==
    Stat /\ pc \notin Starting /\ ~Down => (BlockAddressing <=> card.kind = "SDHC")

(* The reason: the type is decided from a card that CMD0 has just reset and *)
(* that, if it counts sectors, does not come up without HCS.                *)
StartUp ==
    /\ pc = "cmd8" => Down
    /\ pc \in {"probe", "start", "cmd16"} => Down \/ card.kind # "SDHC"
StorageInv == StorageTypeOK /\ StartUp /\ AddressingAgrees

(* Every transfer that is opened is closed before the call returns, also    *)
(* when it fails half-way, unless the very exchange that opens or ends it   *)
(* was lost.                                                                *)
TransferClosed ==
    pc = "ready" =>
        /\ card.st = "read1" => lost \in {"readcmd", "readblock", "countcmd", "countblock"}
        /\ card.st = "readN" => lost \in {"readcmd", "stopread"}
        /\ card.st = "write1" => lost \in {"writecmd", "writeblock"}
        /\ card.st = "writeN" => lost \in {"writecmd", "stopwrite"}

(* No call hangs, whatever the card does or does not answer. *)
CallReturns == pc # "ready" ~> pc = "ready"

(* The driver implements the block device: RES_OK means that every sector   *)
(* asked for, and no other, was read or written, and a CTRL_SYNC that       *)
(* succeeds that nothing is left to be programmed.                          *)
Device == INSTANCE BlockDevice WITH unsafe <- card.pend
ImplementsBlockDevice == Device!Spec
=============================================================================
