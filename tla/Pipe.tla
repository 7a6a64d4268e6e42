-------------------------------- MODULE Pipe --------------------------------
(***************************************************************************)
(* A pipe between two programs (drivers/fatfs/ff.c): f_open_pipe links the *)
(* FIL the writer calls std_out (`to`) and the FIL the reader calls std_in *)
(* (`from`) through a FreeRTOS queue.  Each program runs in a task of its  *)
(* own; it uses its end and, when it is done, its context is cleaned up,   *)
(* which closes the end and frees its FIL.  The queue itself is FreeRTOS's *)
(* and is modelled by what its calls do: a send waits for room, a receive  *)
(* for data, and neither is woken when the queue is deleted.               *)
(***************************************************************************)
EXTENDS Naturals, FiniteSets

CONSTANTS
    Capacity,   \* characters the queue holds (512 in the code)
    Total,      \* bound on the bytes the writer program writes
    MaxWrite,   \* bound on the bytes of one f_write
    MaxRead     \* bound on the bytes one f_read asks for; 0: f_getc only

ASSUME PipeAssumption ==
    /\ Capacity \in Nat \ {0} /\ Total \in Nat /\ MaxWrite \in Nat \ {0}
    /\ MaxRead \in Nat

VARIABLES
    queue,      \* the queue: "none", "live" or "deleted"
    waiting,    \* characters in it
    to_fptr,    \* to->fptr: names the "queue" or is "null"
    from_fptr,  \* from->fptr
    from_sect,  \* from->sect: 1 once "notify chained" has reached the reader
    to, from,   \* the two FILs: "allocated" or "freed"
    suspended,  \* uxSchedulerSuspended outside the file calls
    wpc, left, written,   \* writer: what it does, bytes left, bytes sent
    rpc, taken, \* reader: what it does, bytes received
    quit,       \* 1 once the reader has stopped before the end
    faults      \* rules of FreeRTOS and of the heap that have been broken

vars == <<queue, waiting, to_fptr, from_fptr, from_sect, to, from,
          suspended, wpc, left, written, rpc, taken, quit, faults>>
ends == <<to_fptr, from_fptr, from_sect, to, from>>
writer == <<wpc, left, written>>
reader == <<rpc, taken, quit>>

(* f_open_pipe, which reports FR_OK also when xQueueCreate found no memory. *)
Init ==
    /\ queue \in {"none", "live"} /\ waiting = 0
    /\ to_fptr = IF queue = "live" THEN "queue" ELSE "null"
    /\ from_fptr = to_fptr
    /\ from_sect = 0
    /\ to = "allocated" /\ from = "allocated"
    /\ suspended = 0
    /\ wpc = "ready" /\ left = 0 /\ written = 0
    /\ rpc = "ready" /\ taken = 0 /\ quit = 0
    /\ faults = {}

Fault(f, broken) == faults' = IF broken THEN faults \cup {f} ELSE faults

-----------------------------------------------------------------------------
(* The writer: f_write and f_close of `to`.  It does not run while the      *)
(* reader's task holds the scheduler.                                       *)

(* f_write of n bytes on a pipe; FR_DENIED when there is no queue. *)
f_write(n) ==
    /\ suspended = 0 /\ wpc = "ready" /\ written + n <= Total
    /\ IF to_fptr # "null" THEN wpc' = "send" /\ left' = n ELSE UNCHANGED <<wpc, left>>
    /\ UNCHANGED <<queue, waiting, ends, suspended, written, reader, faults>>

(* xQueueSend(fp->fptr, buff + off, portMAX_DELAY) of the next byte.  In a  *)
(* deleted queue it works on freed memory and never comes back.             *)
SendByte ==
    /\ suspended = 0 /\ wpc = "send"
    /\ \/ /\ queue = "live" /\ waiting < Capacity
          /\ waiting' = waiting + 1 /\ written' = written + 1
          /\ left' = left - 1
          /\ wpc' = IF left = 1 THEN "ready" ELSE "send"
          /\ UNCHANGED faults
       \/ /\ queue = "deleted"
          /\ wpc' = "lost"
          /\ Fault("deleted queue used", TRUE)
          /\ UNCHANGED <<waiting, written, left>>
    /\ UNCHANGED <<queue, ends, suspended, reader>>

(* f_close(to): marks the peer's end, keeps the queue. *)
CloseTo ==
    /\ suspended = 0 /\ wpc = "ready"
    /\ from_sect' = 1
    /\ Fault("freed peer written", from = "freed")
    /\ to_fptr' = "null"
    /\ wpc' = "closed"
    /\ UNCHANGED <<queue, waiting, from_fptr, to, from, suspended,
                   left, written, reader>>

(* cleanup_ctx/remove_ctx: vPortFree(src->std_out) after its f_close. *)
FreeTo ==
    /\ suspended = 0 /\ wpc = "closed"
    /\ to' = "freed"
    /\ wpc' = "done"
    /\ UNCHANGED <<queue, waiting, to_fptr, from_fptr, from_sect, from,
                   suspended, left, written, reader, faults>>

Writer == (\E n \in 1..MaxWrite : f_write(n)) \/ SendByte \/ CloseTo \/ FreeTo

-----------------------------------------------------------------------------
(* The reader: f_getc, f_read and f_close of `from`. *)

(* "already closed or chained closed and empty queue" *)
AtEndEarly == from_fptr = "null" \/ waiting = 0
AtEndLossy == from_fptr = "null" \/ from_sect = 1
AtEnd == from_fptr = "null" \/ (from_sect = 1 /\ waiting = 0)

(* f_getc up to its return of -1 or its call of xQueueReceive. *)
f_getc ==
    /\ rpc = "ready"
    /\ rpc' = IF AtEnd THEN "eof" ELSE "receive"
    /\ UNCHANGED <<queue, waiting, ends, suspended, writer, taken, quit, faults>>

(* xQueueReceive(fp->fptr, &c, portMAX_DELAY) *)
ReceiveByte ==
    /\ rpc = "receive"
    /\ waiting > 0
    /\ waiting' = waiting - 1 /\ taken' = taken + 1
    /\ rpc' = "ready"
    /\ UNCHANGED <<queue, ends, suspended, writer, quit, faults>>

Least(a, b) == IF a < b THEN a ELSE b

(* f_read of at most n bytes, all of it inside vTaskSuspendAll; at the end  *)
(* of the pipe it returns without xTaskResumeAll.                           *)
f_read(n) ==
    /\ rpc = "ready"
    /\ LET sz == Least(waiting, n) IN
       IF AtEnd
       THEN /\ rpc' = "eof" /\ suspended' = suspended + 1
            /\ Fault("no queue asked", from_fptr = "null")
            /\ UNCHANGED <<waiting, taken>>
       ELSE /\ waiting' = waiting - sz /\ taken' = taken + sz
            /\ Fault("receive while suspended", sz > 0)
            /\ UNCHANGED <<rpc, suspended>>
    /\ UNCHANGED <<queue, ends, writer, quit>>

(* The program stops before the end, as less does on Ctrl+C. *)
Quit ==
    /\ rpc = "ready"
    /\ rpc' = "quit" /\ quit' = 1
    /\ UNCHANGED <<queue, waiting, ends, suspended, writer, taken, faults>>

(* What f_close leaves of the queue: "remove queue only on from close". *)
QueueKept == queue
QueueLeft == IF from_fptr = "queue" THEN "deleted" ELSE queue

(* f_close(from): marks the peer's FIL and deletes the queue. *)
CloseFrom ==
    /\ rpc \in {"eof", "quit"}
    /\ Fault("freed peer written", to = "freed")
    /\ queue' = QueueLeft
    /\ from_fptr' = "null"
    /\ rpc' = "closed"
    /\ UNCHANGED <<waiting, to_fptr, from_sect, to, from, suspended,
                   writer, taken, quit>>

FreeFrom ==
    /\ rpc = "closed"
    /\ from' = "freed"
    /\ rpc' = "done"
    /\ UNCHANGED <<queue, waiting, to_fptr, from_fptr, from_sect, to,
                   suspended, writer, taken, quit, faults>>

(* A detached reader ends with vTaskDelete(NULL), which must be able to     *)
(* yield.                                                                   *)
DeleteReader ==
    /\ rpc = "done"
    /\ rpc' = "gone"
    /\ Fault("task deleted while suspended", suspended > 0)
    /\ UNCHANGED <<queue, waiting, ends, suspended, writer, taken, quit>>

Reader ==
    \/ f_getc \/ ReceiveByte \/ Quit \/ CloseFrom \/ FreeFrom \/ DeleteReader
    \/ \E n \in 1..MaxRead : f_read(n)

Next == Writer \/ Reader

(* Both tasks have the top priority and time slices, so each runs whenever  *)
(* the queue lets it, and the writer program closes its end at last.        *)
Spec == Init /\ [][Next]_vars /\ WF_vars(Writer) /\ WF_vars(Reader)

-----------------------------------------------------------------------------
(* Types of the pipe's state. *)
PipeTypeOK ==
    /\ queue \in {"none", "live", "deleted"}
    /\ waiting \in 0..Capacity
    /\ to_fptr \in {"queue", "null"} /\ from_fptr \in {"queue", "null"}
    /\ from_sect \in {0, 1} /\ suspended \in {0, 1} /\ quit \in {0, 1}
    /\ to \in {"allocated", "freed"} /\ from \in {"allocated", "freed"}
    /\ wpc \in {"ready", "send", "closed", "done", "lost"}
    /\ left \in Nat /\ written \in 0..Total
    /\ rpc \in {"ready", "receive", "eof", "quit", "closed", "done", "gone"}
    /\ taken \in Nat

(* A reader that reads to the end deletes the queue only when its writer    *)
(* has finished with it, though f_close never asks the writer.              *)
QueueOutlivesWriter == quit = 0 => "deleted queue used" \notin faults

(* The pipe delivers every byte once, and -1 only after the last one.       *)
WriterEnded == wpc \in {"closed", "done"} \/ queue = "none"
SawEnd == quit = 0 /\ rpc \notin {"ready", "receive"}
Stream == INSTANCE ByteStream WITH
            sent <- written, got <- taken, ended <- WriterEnded, eof <- SawEnd
ImplementsByteStream == Stream!BSSpec

(* A writer on a full queue is woken by the reader: unless the reader stops *)
(* early, every f_write returns.                                            *)
WriteReturns == wpc = "send" ~> wpc = "ready" \/ quit = 1

(* Every byte sent is in the queue or has been received. *)
PipeCount == written = taken + waiting

(* How the ends and the queue follow the two programs. *)
PipeEnds ==
    /\ from_fptr = "queue" <=> queue = "live"
    /\ queue = "none" => waiting = 0
    /\ to_fptr = "queue" => queue # "none"
    /\ from_sect = 1 <=> wpc \in {"closed", "done"}
    /\ wpc = "send" => left > 0 /\ written + left <= Total /\ queue # "none"
    /\ rpc = "receive" => queue = "live"
    /\ queue = "deleted" => rpc \in {"closed", "done", "gone"}
    /\ suspended = 1 => rpc \in {"eof", "closed", "done", "gone"}

(* Why a reader that saw the end may delete the queue. *)
PipeEnd ==
    /\ rpc \in {"ready", "receive", "eof"} => quit = 0
    /\ rpc = "quit" => quit = 1
    /\ SawEnd => WriterEnded /\ waiting = 0
    /\ quit = 0 => wpc # "lost"
    /\ QueueOutlivesWriter

(* The inductive invariant of the pipe. *)
PipeInv == PipeTypeOK /\ PipeCount /\ PipeEnds /\ PipeEnd

(* "already closed or chained closed and empty queue": once the writer has  *)
(* closed its end, its "notify chained" ends the reader's program.          *)
ClosingEndsReader == wpc = "closed" ~> rpc \notin {"ready", "receive"}

(* "notify chained": a reader that closes first stops its writer before the *)
(* queue goes.                                                              *)
NoUseAfterDelete == "deleted queue used" \notin faults

(* configASSERT( uxSchedulerSuspended == 0 ) of vTaskDelete.                *)
NoExitWhileSuspended == "task deleted while suspended" \notin faults
=============================================================================
