----------------------------- MODULE Pipe_proofs -----------------------------
(***************************************************************************)
(* Proofs about pipes, for every capacity, length and sizes of transfers.  *)
(***************************************************************************)
EXTENDS Pipe, TLAPS

(* The pipe starts in the invariant. *)
LEMMA InitInv == Init => PipeInv
  <1> SUFFICES ASSUME Init PROVE PipeInv
    OBVIOUS
  <1>1. PipeTypeOK /\ PipeCount
    BY PipeAssumption DEF Init, PipeTypeOK, PipeCount
  <1>2. PipeEnds /\ PipeEnd
    BY DEF Init, PipeEnds, PipeEnd, QueueOutlivesWriter, SawEnd, WriterEnded
  <1> QED BY <1>1, <1>2 DEF PipeInv

(* What SendByte changes. *)
LEMMA SendShape ==
    ASSUME PipeInv, SendByte
    PROVE  /\ UNCHANGED <<queue, to_fptr, from_fptr, from_sect, to, from, suspended,
                          rpc, taken, quit>>
           /\ wpc = "send"
           /\ \/ /\ queue = "live" /\ waiting' = waiting + 1 /\ waiting' \in 0..Capacity
                 /\ written' = written + 1 /\ written' \in 0..Total
                 /\ left' = left - 1 /\ left' \in Nat
                 /\ wpc' \in {"ready", "send"} /\ (wpc' = "send" => left' > 0)
                 /\ faults' = faults
              \/ /\ queue = "deleted" /\ wpc' = "lost"
                 /\ UNCHANGED <<waiting, written, left>>
  <1> USE PipeAssumption DEF PipeInv, PipeTypeOK, PipeEnds
  <1>1. UNCHANGED <<queue, to_fptr, from_fptr, from_sect, to, from, suspended, rpc, taken, quit>>
    BY DEF SendByte, ends, reader
  <1>2. wpc = "send" /\ left \in Nat /\ left > 0 /\ written + left <= Total
    BY DEF SendByte
  <1>3. \/ /\ queue = "live" /\ waiting < Capacity /\ waiting' = waiting + 1
           /\ written' = written + 1 /\ left' = left - 1 /\ faults' = faults
           /\ wpc' = IF left = 1 THEN "ready" ELSE "send"
        \/ /\ queue = "deleted" /\ wpc' = "lost"
           /\ UNCHANGED <<waiting, written, left>>
    BY DEF SendByte
  <1>4. waiting \in 0..Capacity /\ written \in 0..Total /\ Capacity \in Nat /\ Total \in Nat
    OBVIOUS
  <1> HIDE PipeAssumption DEF PipeInv
  <1> QED BY <1>1, <1>2, <1>3, <1>4

(* What f_read changes. *)
LEMMA ReadShape ==
    ASSUME PipeInv, NEW n \in 1..MaxRead, f_read(n)
    PROVE  /\ UNCHANGED <<queue, to_fptr, from_fptr, from_sect, to, from,
                          wpc, left, written, quit>>
           /\ rpc = "ready"
           /\ faults' \subseteq faults \cup {"no queue asked", "receive while suspended"}
           /\ \/ /\ AtEnd /\ rpc' = "eof" /\ suspended' = suspended + 1
                 /\ UNCHANGED <<waiting, taken>>
              \/ /\ ~AtEnd /\ UNCHANGED <<rpc, suspended>>
                 /\ \E k \in 0..waiting : waiting' = waiting - k /\ taken' = taken + k
  <1>1. UNCHANGED <<queue, to_fptr, from_fptr, from_sect, to, from, wpc, left, written, quit>>
    BY DEF f_read, ends, writer
  <1>2. CASE AtEnd
    BY <1>1, <1>2 DEF f_read, Fault
  <1>3. CASE ~AtEnd
    <2>1. Least(waiting, n) \in 0..waiting
      BY PipeAssumption DEF Least, PipeInv, PipeTypeOK
    <2>2. /\ waiting' = waiting - Least(waiting, n) /\ taken' = taken + Least(waiting, n)
          /\ UNCHANGED <<rpc, suspended>> /\ rpc = "ready"
      BY <1>3 DEF f_read
    <2>3. faults' \subseteq faults \cup {"no queue asked", "receive while suspended"}
      BY <1>3 DEF f_read, Fault
    <2> QED BY <1>1, <1>3, <2>1, <2>2, <2>3
  <1> QED BY <1>2, <1>3

(* What a reader at the end of its pipe knows. *)
LEMMA Drained ==
    ASSUME PipeInv, rpc = "ready", AtEnd
    PROVE  WriterEnded /\ waiting = 0
  <1>1. CASE from_fptr = "null"
    BY <1>1 DEF PipeInv, PipeTypeOK, PipeEnds, WriterEnded
  <1>2. CASE from_sect = 1 /\ waiting = 0
    BY <1>2 DEF PipeInv, PipeEnds, WriterEnded
  <1> QED BY <1>1, <1>2 DEF AtEnd

(* What is in the queue is what was sent and not received. *)
LEMMA Arrived ==
    ASSUME PipeInv
    PROVE  /\ written \in Nat /\ taken \in Nat /\ waiting \in Nat
           /\ written - taken = waiting
  BY PipeAssumption DEF PipeInv, PipeTypeOK, PipeCount

(* Every step keeps the types. *)
LEMMA TypeStep == PipeInv /\ [Next]_vars => PipeTypeOK'
  <1> SUFFICES ASSUME PipeInv, [Next]_vars PROVE PipeTypeOK'
    OBVIOUS
  <1> USE PipeAssumption DEF PipeInv, PipeTypeOK, PipeEnds
  <1>1. ASSUME NEW n \in 1..MaxWrite, f_write(n) PROVE PipeTypeOK'
    BY <1>1 DEF f_write, ends, reader
  <1>2. CASE SendByte
    BY <1>2, SendShape
  <1>3. CASE CloseTo
    BY <1>3 DEF CloseTo, reader, Fault
  <1>4. CASE FreeTo
    BY <1>4 DEF FreeTo, reader
  <1>5. CASE f_getc
    BY <1>5 DEF f_getc, AtEnd, ends, writer
  <1>6. CASE ReceiveByte
    BY <1>6 DEF ReceiveByte, ends, writer
  <1>7. CASE Quit
    BY <1>7 DEF Quit, ends, writer
  <1>8. CASE CloseFrom
    BY <1>8 DEF CloseFrom, QueueLeft, writer, Fault
  <1>9. CASE FreeFrom
    BY <1>9 DEF FreeFrom, writer
  <1>10. CASE DeleteReader
    BY <1>10 DEF DeleteReader, ends, writer, Fault
  <1>11. ASSUME NEW n \in 1..MaxRead, f_read(n) PROVE PipeTypeOK'
    <2>1. CASE AtEnd
      <3>1. suspended = 0
        BY <1>11, ReadShape
      <3>2. /\ UNCHANGED <<queue, to_fptr, from_fptr, from_sect, to, from,
                          wpc, left, written, waiting, taken, quit>>
            /\ rpc' = "eof" /\ suspended' = suspended + 1
        BY <1>11, <2>1, ReadShape
      <3> QED BY <3>1, <3>2
    <2>2. CASE ~AtEnd
      <3>1. PICK k \in 0..waiting : waiting' = waiting - k /\ taken' = taken + k
        BY <1>11, <2>2, ReadShape
      <3>2. UNCHANGED <<queue, to_fptr, from_fptr, from_sect, to, from,
                        wpc, left, written, rpc, suspended, quit>>
        BY <1>11, <2>2, ReadShape
      <3>3. waiting' \in 0..Capacity /\ taken' \in Nat
        BY <3>1
      <3> QED BY <3>1, <3>2, <3>3
    <2> QED BY <2>1, <2>2
  <1>12. CASE UNCHANGED vars
    BY <1>12 DEF vars
  <1> QED BY <1>1, <1>2, <1>3, <1>4, <1>5, <1>6, <1>7, <1>8, <1>9, <1>10, <1>11, <1>12
          DEF Next, Writer, Reader

(* Every step keeps the count of the bytes. *)
LEMMA CountStep == PipeInv /\ [Next]_vars => PipeCount'
  <1> SUFFICES ASSUME PipeInv, [Next]_vars PROVE PipeCount'
    OBVIOUS
  <1> USE PipeAssumption DEF PipeInv, PipeTypeOK, PipeCount
  <1>1. ASSUME NEW n \in 1..MaxWrite, f_write(n) PROVE PipeCount'
    BY <1>1 DEF f_write, ends, reader
  <1>2. CASE SendByte
    BY <1>2, SendShape
  <1>3. CASE CloseTo
    BY <1>3 DEF CloseTo, reader, Fault
  <1>4. CASE FreeTo
    BY <1>4 DEF FreeTo, reader
  <1>5. CASE f_getc
    BY <1>5 DEF f_getc, AtEnd, ends, writer
  <1>6. CASE ReceiveByte
    BY <1>6 DEF ReceiveByte, ends, writer
  <1>7. CASE Quit
    BY <1>7 DEF Quit, ends, writer
  <1>8. CASE CloseFrom
    BY <1>8 DEF CloseFrom, QueueLeft, writer, Fault
  <1>9. CASE FreeFrom
    BY <1>9 DEF FreeFrom, writer
  <1>10. CASE DeleteReader
    BY <1>10 DEF DeleteReader, ends, writer, Fault
  <1>11. ASSUME NEW n \in 1..MaxRead, f_read(n) PROVE PipeCount'
    <2>1. CASE AtEnd
      BY <1>11, <2>1, ReadShape DEF AtEnd
    <2>2. CASE ~AtEnd
      <3>1. PICK k \in 0..waiting : waiting' = waiting - k /\ taken' = taken + k
        BY <1>11, <2>2, ReadShape
      <3>2. UNCHANGED <<queue, to_fptr, from_fptr, from_sect, to, from,
                        wpc, left, written, rpc, suspended, quit>>
        BY <1>11, <2>2, ReadShape
      <3>3. waiting' \in 0..Capacity /\ taken' \in Nat
        BY <3>1
      <3> QED BY <3>1, <3>2, <3>3
    <2> QED BY <2>1, <2>2
  <1>12. CASE UNCHANGED vars
    BY <1>12 DEF vars
  <1> QED BY <1>1, <1>2, <1>3, <1>4, <1>5, <1>6, <1>7, <1>8, <1>9, <1>10, <1>11, <1>12
          DEF Next, Writer, Reader

(* Every step keeps the ends in line with the programs. *)
LEMMA EndsStep == PipeInv /\ [Next]_vars => PipeEnds'
  <1> SUFFICES ASSUME PipeInv, [Next]_vars PROVE PipeEnds'
    OBVIOUS
  <1> USE PipeAssumption DEF PipeInv, PipeTypeOK, PipeEnds
  <1>1. ASSUME NEW n \in 1..MaxWrite, f_write(n) PROVE PipeEnds'
    BY <1>1 DEF f_write, ends, reader
  <1>2. CASE SendByte
    BY <1>2, SendShape
  <1>3. CASE CloseTo
    BY <1>3 DEF CloseTo, reader, Fault
  <1>4. CASE FreeTo
    BY <1>4 DEF FreeTo, reader
  <1>5. CASE f_getc
    BY <1>5 DEF f_getc, AtEnd, ends, writer
  <1>6. CASE ReceiveByte
    BY <1>6 DEF ReceiveByte, ends, writer
  <1>7. CASE Quit
    BY <1>7 DEF Quit, ends, writer
  <1>8. CASE CloseFrom
    BY <1>8 DEF CloseFrom, QueueLeft, writer, Fault
  <1>9. CASE FreeFrom
    BY <1>9 DEF FreeFrom, writer
  <1>10. CASE DeleteReader
    BY <1>10 DEF DeleteReader, ends, writer, Fault
  <1>11. ASSUME NEW n \in 1..MaxRead, f_read(n) PROVE PipeEnds'
    BY <1>11, ReadShape DEF AtEnd
  <1>12. CASE UNCHANGED vars
    BY <1>12 DEF vars
  <1> QED BY <1>1, <1>2, <1>3, <1>4, <1>5, <1>6, <1>7, <1>8, <1>9, <1>10, <1>11, <1>12
          DEF Next, Writer, Reader

(* Every step keeps the end of the stream final. *)
LEMMA EndStep == PipeInv /\ [Next]_vars => PipeEnd'
  <1> SUFFICES ASSUME PipeInv, [Next]_vars PROVE PipeEnd'
    OBVIOUS
  <1> USE PipeAssumption DEF PipeInv, PipeTypeOK, PipeEnds, PipeEnd, QueueOutlivesWriter, SawEnd, WriterEnded
  <1>1. ASSUME NEW n \in 1..MaxWrite, f_write(n) PROVE PipeEnd'
    BY <1>1 DEF f_write, ends, reader
  <1>2. CASE SendByte
    BY <1>2, SendShape
  <1>3. CASE CloseTo
    BY <1>3 DEF CloseTo, reader, Fault
  <1>4. CASE FreeTo
    BY <1>4 DEF FreeTo, reader
  <1>5. CASE f_getc
    <2>1. rpc' = "eof" => WriterEnded /\ waiting = 0
      BY <1>5, Drained DEF f_getc
    <2>2. rpc' \in {"eof", "receive"} /\ UNCHANGED <<queue, waiting, wpc, faults, quit>>
          /\ rpc = "ready"
      BY <1>5 DEF f_getc, writer
    <2> QED BY <2>1, <2>2
  <1>6. CASE ReceiveByte
    BY <1>6 DEF ReceiveByte, ends, writer
  <1>7. CASE Quit
    BY <1>7 DEF Quit, ends, writer
  <1>8. CASE CloseFrom
    BY <1>8 DEF CloseFrom, QueueLeft, writer, Fault
  <1>9. CASE FreeFrom
    BY <1>9 DEF FreeFrom, writer
  <1>10. CASE DeleteReader
    BY <1>10 DEF DeleteReader, ends, writer, Fault
  <1>11. ASSUME NEW n \in 1..MaxRead, f_read(n) PROVE PipeEnd'
    <2>1. "deleted queue used" \notin faults => "deleted queue used" \notin faults'
      BY <1>11, ReadShape
    <2>2. UNCHANGED <<queue, wpc, quit>> /\ rpc = "ready" /\ rpc' \in {"ready", "eof"}
      BY <1>11, ReadShape
    <2>3. rpc' = "eof" => WriterEnded /\ waiting = 0 /\ waiting' = waiting
      BY <1>11, ReadShape, Drained DEF AtEnd
    <2> QED BY <2>1, <2>2, <2>3
  <1>12. CASE UNCHANGED vars
    BY <1>12 DEF vars
  <1> QED BY <1>1, <1>2, <1>3, <1>4, <1>5, <1>6, <1>7, <1>8, <1>9, <1>10, <1>11, <1>12
          DEF Next, Writer, Reader

(* Every step keeps the invariant. *)
LEMMA StepInv == PipeInv /\ [Next]_vars => PipeInv'
  BY TypeStep, CountStep, EndsStep, EndStep DEF PipeInv

(* The invariant of the pipe. *)
THEOREM PipeInvariant == Spec => []PipeInv
  BY InitInv, StepInv, PTL DEF Spec

(* Type correctness; in particular the queue never overflows. *)
THEOREM PipeTypeCorrect == Spec => []PipeTypeOK
  <1>1. PipeInv => PipeTypeOK
    BY DEF PipeInv
  <1> QED BY <1>1, PipeInvariant, PTL

(* With a reader that reads to the end, the queue outlives its writer.     *)
THEOREM QueueIsSafe == Spec => []QueueOutlivesWriter
  <1>1. PipeInv => QueueOutlivesWriter
    BY DEF PipeInv, PipeEnd
  <1> QED BY <1>1, PipeInvariant, PTL

(* A step of the pipe is a step of the byte stream.  f_read takes several  *)
(* bytes at once.                                                          *)
LEMMA StepRefines ==
    PipeInv /\ PipeInv' /\ [Next]_vars => [Stream!BSNext]_(Stream!bsVars)
  <1> SUFFICES ASSUME PipeInv, PipeInv', [Next]_vars
               PROVE  [Stream!BSNext]_(Stream!bsVars)
    OBVIOUS
  <1>0. rpc = "ready" => quit = 0
    BY DEF PipeInv, PipeEnd
  <1>1. ASSUME NEW n \in 1..MaxWrite, f_write(n) PROVE UNCHANGED Stream!bsVars
    <2>1. wpc = "ready" /\ wpc' \in {"ready", "send"}
          /\ UNCHANGED <<queue, written, rpc, taken, quit>>
      BY <1>1 DEF f_write, reader
    <2> QED BY <2>1 DEF Stream!bsVars, WriterEnded, SawEnd
  <1>2. CASE SendByte
    <2>1. /\ wpc = "send" /\ UNCHANGED <<queue, rpc, taken, quit>>
          /\ \/ wpc' \in {"ready", "send"} /\ queue = "live" /\ written' = written + 1
             \/ wpc' = "lost" /\ queue = "deleted" /\ written' = written
      BY <1>2, SendShape
    <2> QED BY <2>1 DEF WriterEnded, SawEnd, Stream!bsVars, Stream!BSNext, Stream!Send
  <1>3. CASE CloseTo
    <2>1. wpc' = "closed" /\ UNCHANGED <<queue, written, rpc, taken, quit>>
      BY <1>3 DEF CloseTo, reader
    <2> QED BY <2>1 DEF WriterEnded, SawEnd, Stream!BSNext, Stream!End
  <1>4. CASE FreeTo
    <2>1. /\ wpc = "closed" /\ wpc' = "done" /\ UNCHANGED <<queue, written, rpc, taken, quit>>
      BY <1>4 DEF FreeTo, reader
    <2> QED BY <2>1 DEF Stream!bsVars, WriterEnded, SawEnd
  <1>5. CASE f_getc
    <2>1. rpc = "ready" /\ UNCHANGED <<queue, waiting, wpc, written, taken, quit>>
      BY <1>5 DEF f_getc, writer
    <2>2. CASE AtEnd
      <3>1. rpc' = "eof" /\ WriterEnded /\ waiting = 0
        BY <1>5, <2>1, <2>2, Drained DEF f_getc
      <3> QED BY <1>0, <2>1, <3>1, Arrived DEF WriterEnded, SawEnd, Stream!BSNext, Stream!SeeEnd
    <2>3. CASE ~AtEnd
      BY <1>5, <2>1, <2>3 DEF f_getc, Stream!bsVars, WriterEnded, SawEnd
    <2> QED BY <2>2, <2>3
  <1>6. CASE ReceiveByte
    <2>1. /\ rpc = "receive" /\ rpc' = "ready" /\ waiting > 0 /\ taken' = taken + 1
          /\ UNCHANGED <<queue, wpc, written, quit>>
      BY <1>6 DEF ReceiveByte, writer
    <2>2. 1 \in 1..(written - taken)
      BY <2>1, Arrived
    <2> QED BY <2>1, <2>2 DEF WriterEnded, SawEnd, Stream!BSNext, Stream!Receive
  <1>7. CASE Quit
    <2>1. /\ rpc = "ready" /\ quit' = 1 /\ UNCHANGED <<queue, wpc, written, taken>>
      BY <1>7 DEF Quit, writer
    <2> QED BY <2>1 DEF Stream!bsVars, WriterEnded, SawEnd
  <1>8. CASE CloseFrom
    <2>1. /\ rpc \in {"eof", "quit"} /\ rpc' = "closed"
          /\ UNCHANGED <<wpc, written, taken, quit>>
      BY <1>8 DEF CloseFrom, writer
    <2>2. queue' = "none" <=> queue = "none"
      BY <1>8 DEF CloseFrom, QueueLeft, PipeInv, PipeEnds
    <2> QED BY <2>1, <2>2 DEF Stream!bsVars, SawEnd, WriterEnded
  <1>9. CASE FreeFrom
    <2>1. /\ rpc = "closed" /\ rpc' = "done" /\ UNCHANGED <<queue, wpc, written, taken, quit>>
      BY <1>9 DEF FreeFrom, writer
    <2> QED BY <2>1 DEF Stream!bsVars, WriterEnded, SawEnd
  <1>10. CASE DeleteReader
    <2>1. /\ rpc = "done" /\ rpc' = "gone" /\ UNCHANGED <<queue, wpc, written, taken, quit>>
      BY <1>10 DEF DeleteReader, writer
    <2> QED BY <2>1 DEF Stream!bsVars, WriterEnded, SawEnd
  <1>11. ASSUME NEW n \in 1..MaxRead, f_read(n) PROVE [Stream!BSNext]_(Stream!bsVars)
    <2>1. CASE AtEnd
      <3>1. /\ rpc = "ready" /\ rpc' = "eof" /\ UNCHANGED <<queue, waiting, wpc, written, taken, quit>>
        BY <1>11, <2>1, ReadShape
      <3>2. WriterEnded /\ waiting = 0
        BY <2>1, <3>1, Drained
      <3> QED BY <1>0, <3>1, <3>2, Arrived DEF WriterEnded, SawEnd, Stream!BSNext, Stream!SeeEnd
    <2>2. CASE ~AtEnd
      <3>1. PICK k \in 0..waiting : taken' = taken + k
        BY <1>11, <2>2, ReadShape
      <3>2. rpc = "ready" /\ rpc' = rpc /\ UNCHANGED <<written, wpc, queue, quit>>
        BY <1>11, <2>2, ReadShape
      <3>3. CASE k = 0
        BY <3>1, <3>2, <3>3, Arrived DEF Stream!bsVars, WriterEnded, SawEnd
      <3>4. CASE k # 0
        <4>1. k \in 1..(written - taken)
          BY <3>1, <3>4, Arrived
        <4> QED BY <3>1, <3>2, <4>1 DEF WriterEnded, SawEnd, Stream!BSNext, Stream!Receive
      <3> QED BY <3>3, <3>4
    <2> QED BY <2>1, <2>2
  <1>12. CASE UNCHANGED vars
    BY <1>12 DEF vars, Stream!bsVars, WriterEnded, SawEnd
  <1> QED BY <1>1, <1>2, <1>3, <1>4, <1>5, <1>6, <1>7, <1>8, <1>9, <1>10, <1>11, <1>12
          DEF Next, Writer, Reader

(* The pipe delivers every byte sent, once, and -1 only after the last.    *)
THEOREM PipeImplementsByteStream == Spec => ImplementsByteStream
  <1>1. Init => Stream!BSInit
    BY DEF Init, Stream!BSInit, WriterEnded, SawEnd
  <1>2. PipeInv /\ PipeInv' /\ [Next]_vars => [Stream!BSNext]_(Stream!bsVars)
    BY StepRefines
  <1> QED BY <1>1, <1>2, PipeInvariant, PTL DEF Spec, ImplementsByteStream, Stream!BSSpec
=============================================================================
