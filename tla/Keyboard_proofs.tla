--------------------------- MODULE Keyboard_proofs --------------------------
(***************************************************************************)
(* Whatever bytes arrive, the keyboard buffer never holds more than the     *)
(* start of one code, the state keeps its types, and an Alt code has at     *)
(* most three digits and is under way only while Alt is held.  A modifier   *)
(* follows its keys while the line is clean, the reset needs its three      *)
(* keys, and a program reads no key twice.                                  *)
(***************************************************************************)
EXTENDS Keyboard, SequenceTheorems, TLAPS

Framed == {<<>>, <<Break>>, <<Ext>>, <<Pause>>, <<Ext, Break>>}

LEMMA FramedIsSeq == Framed \subseteq Seq(Int)
<1>1. <<>> \in Seq(Int)
  OBVIOUS
<1>2. \A x \in Int : <<x>> \in Seq(Int)
  OBVIOUS
<1>3. \A x, y \in Int : <<x, y>> \in Seq(Int)
  OBVIOUS
<1>4. Break \in Int /\ Ext \in Int /\ Pause \in Int
  BY DEF Break, Ext, Pause
<1> QED BY <1>1, <1>2, <1>3, <1>4 DEF Framed

(* A complete code is taken off whole: nothing is left of the buffer. *)
LEMMA CodeTakesAll ==
    ASSUME NEW buf \in Framed, NEW b \in Byte, Complete(Append(buf, b))
    PROVE  Rest(Append(buf, b)) = <<>>
<1> DEFINE r == Append(buf, b)
           rest == SubSeq(r, Length(r) + 1, Len(r))
<1>1. r \in Seq(Int) /\ Len(r) = Len(buf) + 1
  <2>1. buf \in Seq(Int)
    BY FramedIsSeq
  <2>2. b \in Int
    BY DEF Byte
  <2> QED BY <2>1, <2>2, AppendProperties
<1>2. Length(r) \in Nat /\ Length(r) = Len(r)
  <2>1. CASE buf = <<>>
    BY <2>1, <1>1 DEF Complete, Length, Byte, Break, Ext, Pause
  <2>2. CASE buf = <<Break>>
    BY <2>2, <1>1 DEF Complete, Length, Byte, Break, Ext, Pause
  <2>3. CASE buf = <<Ext>>
    BY <2>3, <1>1 DEF Complete, Length, Byte, Break, Ext, Pause
  <2>4. CASE buf = <<Pause>>
    BY <2>4, <1>1 DEF Complete, Length, Byte, Break, Ext, Pause
  <2>5. CASE buf = <<Ext, Break>>
    BY <2>5, <1>1 DEF Complete, Length, Byte, Break, Ext, Pause
  <2> QED BY <2>1, <2>2, <2>3, <2>4, <2>5 DEF Framed
<1>3. rest = <<>>
  BY <1>1, <1>2
<1>4. [i \in DOMAIN rest |-> 0] = <<>>
  <2> DEFINE z == [i \in 1..0 |-> 0]
  <2>1. z \in Seq(Int) /\ Len(z) = 0
    OBVIOUS
  <2>2. z = <<>>
    BY <2>1, EmptySeq
  <2>3. DOMAIN rest = 1..0
    <3>1. rest \in Seq(Int) /\ Len(rest) = 0
      BY <1>3, EmptySeq
    <3> QED BY <3>1, LenProperties
  <2> QED BY <2>2, <2>3
<1> QED BY <1>3, <1>4 DEF Rest

(* A byte that does not complete a code leaves the start of one. *)
LEMMA IncompleteIsFramed ==
    ASSUME NEW buf \in Framed, NEW b \in Byte, ~Complete(Append(buf, b))
    PROVE  Append(buf, b) \in Framed
<1>1. CASE buf = <<>>
  <2>1. Append(buf, b) = <<b>>
    BY <1>1
  <2> QED BY <2>1 DEF Framed, Complete, Length, Byte, Break, Ext, Pause
<1>2. CASE buf = <<Break>>
  BY <1>2 DEF Framed, Complete, Length, Byte, Break, Ext, Pause
<1>3. CASE buf = <<Ext>>
  <2>1. Append(buf, b) = <<Ext, b>>
    <3>1. <<Ext>> \in Seq(Int) /\ b \in Int /\ <<Ext, b>> \in Seq(Int)
      BY DEF Byte, Ext
    <3>2. Append(<<Ext>>, b) \in Seq(Int) /\ Len(Append(<<Ext>>, b)) = 2
          /\ Append(<<Ext>>, b)[1] = Ext /\ Append(<<Ext>>, b)[2] = b
      BY <3>1, AppendProperties
    <3>3. Len(<<Ext, b>>) = 2 /\ \A i \in 1..2 : Append(<<Ext>>, b)[i] = <<Ext, b>>[i]
      BY <3>2
    <3>4. Append(<<Ext>>, b) = <<Ext, b>>
      BY <3>1, <3>2, <3>3, SeqEqual
    <3> QED BY <1>3, <3>4
  <2>2. b = Break
    BY <2>1 DEF Complete, Length, Byte, Break, Ext, Pause
  <2> QED BY <2>1, <2>2 DEF Framed
<1>4. CASE buf = <<Pause>>
  BY <1>4 DEF Framed, Complete, Length, Byte, Break, Ext, Pause
<1>5. CASE buf = <<Ext, Break>>
  BY <1>5 DEF Framed, Complete, Length, Byte, Break, Ext, Pause
<1> QED BY <1>1, <1>2, <1>3, <1>4, <1>5 DEF Framed

LEMMA ShortCodes ==
    /\ \A x \in Byte : <<x>> \in Seq(Byte)
    /\ \A x, y \in Byte : <<x, y>> \in Seq(Byte)
    /\ \A x, y, z \in Byte : <<x, y, z>> \in Seq(Byte)
OBVIOUS

LEMMA CodesAreBytes ==
    ASSUME NEW k
    PROVE  Make(k) \in Seq(Byte) /\ BreakOf(k) \in Seq(Byte)
<1>1. \A c \in DOMAIN Plain : Plain[c] \in Byte
  BY DEF Plain, Byte
<1>2. \A c \in DOMAIN Extended : Extended[c] \in Byte
  BY DEF Extended, Byte
<1>3. Ext \in Byte /\ Break \in Byte
  BY DEF Ext, Break, Byte
<1>4. PauseCode \in Seq(Byte)
  BY DEF PauseCode, Byte, Pause, Break
<1>5. Make(k) \in Seq(Byte)
  BY <1>1, <1>2, <1>3, <1>4, ShortCodes DEF Make
<1>6. <<>> \in Seq(Byte)
  OBVIOUS
<1>7. BreakOf(k) \in Seq(Byte)
  BY <1>1, <1>2, <1>3, <1>6, ShortCodes DEF BreakOf
<1> QED BY <1>5, <1>7

-----------------------------------------------------------------------------
(* The interrupt handler, whatever byte it gets. *)
LEMMA HandlerKeepsFramed ==
    ASSUME BufferFramed, NEW b \in Byte, KeyboardHandler(b)
    PROVE  BufferFramed'
<1>1. ps2buffer \in Framed
  BY DEF BufferFramed, Framed
<1>2. CASE Len(ps2buffer) < BufferSize /\ Complete(Append(ps2buffer, b))
  <2>1. ps2buffer' = Rest(Append(ps2buffer, b))
    BY <1>2 DEF KeyboardHandler, ps2poll
  <2> QED BY <1>1, <1>2, <2>1, CodeTakesAll DEF BufferFramed
<1>3. CASE Len(ps2buffer) < BufferSize /\ ~Complete(Append(ps2buffer, b))
  <2>1. ps2buffer' = Append(ps2buffer, b)
    BY <1>3 DEF KeyboardHandler, ps2poll
  <2> QED BY <1>1, <1>3, <2>1, IncompleteIsFramed DEF BufferFramed, Framed
<1>4. CASE ~(Len(ps2buffer) < BufferSize)
  BY <1>4 DEF KeyboardHandler, BufferFramed
<1> QED BY <1>2, <1>3, <1>4

(* What keyboard.c keeps: the modifiers, the Alt code and the mailbox. *)
KeyState ==
    [ctrl : BOOLEAN, alt : BOOLEAN, del : BOOLEAN, shift : BOOLEAN, tab : BOOLEAN,
     plus : BOOLEAN, rus : BOOLEAN, caps : BOOLEAN]
Decoded ==
    /\ ks \in KeyState /\ tricode \in Seq(Digits) /\ Len(tricode) <= 3
    /\ (tricode # <<>> => ks.alt)
    /\ box \in [c : -1..255, n : 0..typed] /\ typed \in Nat

LEMMA ModifierIsKeyState ==
    ASSUME NEW k \in KeyState, NEW code
    PROVE  Modifier(code, k) \in KeyState
BY DEF Modifier, KeyState

LEMMA CharacterIsChar ==
    ASSUME NEW code, NEW k
    PROVE  Character(code, k) \in 0..255
BY DEF Character, Glyph

LEMMA TricodeIsChar ==
    ASSUME NEW t \in Seq(Digits), Len(t) \in 1..3
    PROVE  tricode2c(t) \in 0..255
<1> DEFINE v(i) == (t[i] - 48) * Weight[i + 3 - Len(t)]
           x == v(Len(t)) + (IF Len(t) > 1 THEN v(Len(t) - 1) ELSE 0)
                          + (IF Len(t) > 2 THEN v(Len(t) - 2) ELSE 0)
<1>1. \A j \in 1..3 : Weight[j] \in Int
  BY DEF Weight
<1>2. \A i \in 1..Len(t) : t[i] - 48 \in Int
  BY ElementOfSeq DEF Digits
<1>3. \A i \in 1..Len(t) : v(i) \in Int
  <2>1. TAKE i \in 1..Len(t)
  <2>2. i + 3 - Len(t) \in 1..3
    <3>1. Len(t) \in Int /\ Len(t) <= 3
      OBVIOUS
    <3>2. i \in Int /\ 1 <= i /\ i <= Len(t)
      BY <3>1
    <3> QED BY <3>1, <3>2
  <2>3. Weight[i + 3 - Len(t)] \in Int
    BY <1>1, <2>2
  <2>4. t[i] - 48 \in Int
    BY <1>2
  <2> QED BY <2>3, <2>4
<1> HIDE DEF v
<1>4. x \in Int
  <2>1. Len(t) \in 1..Len(t) /\ (Len(t) > 1 => Len(t) - 1 \in 1..Len(t))
        /\ (Len(t) > 2 => Len(t) - 2 \in 1..Len(t))
    OBVIOUS
  <2>2. v(Len(t)) \in Int /\ (Len(t) > 1 => v(Len(t) - 1) \in Int)
    BY <1>3, <2>1
  <2>3. Len(t) > 2 => v(Len(t) - 2) \in Int
    BY <1>3, <2>1
  <2> QED BY <2>2, <2>3
<1> HIDE DEF x
<1>5. x % 256 \in 0..255
  BY <1>4
<1> QED BY <1>5 DEF tricode2c, x, v

LEMMA PutKeepsDecoded ==
    ASSUME typed \in Nat, NEW c \in -1..255, Put(c)
    PROVE  box' \in [c : -1..255, n : 0..typed'] /\ typed' \in Nat
BY DEF Put

(* handleScancode keeps an Alt code only while it takes Alt to be held. *)
LEMMA ActKeepsDecoded ==
    ASSUME Decoded, NEW code, ks' \in KeyState, tricode # <<>> => ks'.alt, Act(code, ks')
    PROVE  Decoded'
<1> DEFINE c == Character(code, ks')
<1>1. c \in 0..255 /\ c \in -1..255 /\ EOF \in -1..255
  BY CharacterIsChar DEF EOF
<1>2. CASE UNCHANGED <<tricode, box, typed>>
  BY <1>2 DEF Decoded
<1>3. CASE ks'.alt /\ c \in Digits /\ ~TricodeFull(tricode) /\ tricode' = Append(tricode, c) /\ UNCHANGED <<box, typed>>
  <2>1. c \in Digits /\ tricode \in Seq(Digits) /\ Len(tricode) <= 3 /\ Len(tricode) # 3
    BY <1>3 DEF Decoded, TricodeFull
  <2>2. tricode' \in Seq(Digits) /\ Len(tricode') = Len(tricode) + 1
    BY <1>3, <2>1, AppendProperties
  <2>3. Len(tricode') <= 3
    <3>1. PICK n \in Nat : n = Len(tricode)
      BY <2>1, LenProperties
    <3> QED BY <2>1, <2>2, <3>1
  <2> QED BY <1>3, <2>2, <2>3 DEF Decoded
<1>4. CASE TricodeFull(tricode) /\ Put(tricode2c(tricode)) /\ tricode' = <<>>
  <2>1. tricode2c(tricode) \in -1..255
    BY <1>4, TricodeIsChar DEF Decoded, TricodeFull
  <2>2. box' \in [c : -1..255, n : 0..typed'] /\ typed' \in Nat
    BY <1>4, <2>1, PutKeepsDecoded DEF Decoded
  <2> QED BY <1>4, <2>2, EmptySeq DEF Decoded
<1>5. CASE tricode' = tricode /\ (Put(EOF) \/ Put(c))
  BY <1>1, <1>5, PutKeepsDecoded DEF Decoded
<1>6. \/ UNCHANGED <<tricode, box, typed>>
      \/ ks'.alt /\ c \in Digits /\ ~TricodeFull(tricode) /\ tricode' = Append(tricode, c) /\ UNCHANGED <<box, typed>>
      \/ TricodeFull(tricode) /\ Put(tricode2c(tricode)) /\ tricode' = <<>>
      \/ tricode' = tricode /\ (Put(EOF) \/ Put(c))
  BY Zenon DEF Act
<1> QED BY <1>2, <1>3, <1>4, <1>5, <1>6

LEMMA ScancodeKeepsDecoded ==
    ASSUME Decoded, NEW code, NEW numlock, handleScancode(code, numlock)
    PROVE  Decoded'
<1>1. CASE Immediate(code, numlock) # 0
  <2>1. Immediate(code, numlock) \in -1..255
    BY DEF Immediate
  <2> QED BY <1>1, <2>1, PutKeepsDecoded DEF handleScancode, Decoded
<1>2. CASE Immediate(code, numlock) = 0 /\ AltCodeEnds(code)
  <2>1. ks' \in KeyState /\ Put(tricode2c(tricode)) /\ tricode' = <<>>
    BY <1>2, ModifierIsKeyState DEF handleScancode, Decoded
  <2>2. Len(tricode) \in 1..3
    <3>1. tricode \in Seq(Digits) /\ tricode # <<>>
      BY <1>2 DEF AltCodeEnds, Decoded
    <3>2. Len(tricode) # 0 /\ Len(tricode) <= 3
      BY <3>1, EmptySeq DEF Decoded
    <3>3. PICK n \in Nat : n = Len(tricode)
      BY <3>1, LenProperties
    <3> QED BY <3>2, <3>3
  <2>3. tricode2c(tricode) \in -1..255
    BY <2>2, TricodeIsChar DEF Decoded
  <2>4. box' \in [c : -1..255, n : 0..typed'] /\ typed' \in Nat
    BY <2>1, <2>3, PutKeepsDecoded DEF Decoded
  <2> QED BY <2>1, <2>4, EmptySeq DEF Decoded
<1>3. CASE Immediate(code, numlock) = 0 /\ ~AltCodeEnds(code)
  <2>1. ks' = Modifier(code, ks) /\ Act(code, ks')
    BY <1>3 DEF handleScancode
  <2>2. ks' \in KeyState
    BY <2>1, ModifierIsKeyState DEF Decoded
  <2>3. tricode # <<>> => Low(code) # 56 + XtBreak /\ ks.alt
    BY <1>3 DEF AltCodeEnds, Decoded
  <2>4. tricode # <<>> => ks'.alt
    BY <2>1, <2>3 DEF Modifier
  <2> QED BY <2>1, <2>2, <2>4, ActKeepsDecoded
<1> QED BY <1>1, <1>2, <1>3

LEMMA HandlerKeepsDecoded ==
    ASSUME Decoded, led \in BOOLEAN, NEW b, KeyboardHandler(b)
    PROVE  Decoded' /\ led' \in BOOLEAN
<1>1. led' \in BOOLEAN
  BY DEF KeyboardHandler, ps2poll
<1> DEFINE Idle == UNCHANGED <<ks, tricode, box, typed>>
           Decodes == \E code, light : handleScancode(code, light)
<1>2. Idle => Decoded'
  BY DEF Decoded
<1>3. ASSUME NEW code, NEW light, handleScancode(code, light) PROVE Decoded'
  BY <1>3, ScancodeKeepsDecoded
<1>4. Decodes => Decoded'
  BY <1>3
<1>5. Idle \/ Decodes
  BY Zenon DEF KeyboardHandler, ps2poll
<1> QED BY ONLY <1>1, <1>2, <1>4, <1>5

-----------------------------------------------------------------------------
LEMMA KeyboardInitially == Init => KeyboardInv
<1> SUFFICES ASSUME Init PROVE KeyboardInv
  OBVIOUS
<1>1. <<>> \in Seq(Byte) /\ <<>> \in Seq(Digits) /\ Len(<<>>) = 0
  OBVIOUS
<1>2. ks = Released /\ box = Empty /\ typed = 0 /\ tricode = <<>> /\ ps2buffer = <<>> /\ wire = <<>>
      /\ down = {} /\ last = "none" /\ led = FALSE /\ reader = "wait"
  BY DEF Init
<1>3. box \in [c : -1..255, n : 0..typed] /\ typed \in Nat
  BY <1>2 DEF Empty
<1>4. KbdTypeOK
  BY <1>1, <1>2, <1>3 DEF KbdTypeOK, Released
<1> QED BY <1>1, <1>2, <1>4 DEF KeyboardInv, BufferFramed, NoStaleTricode

LEMMA DeviceKeeps ==
    ASSUME KeyboardInv, \/ \E k \in Keys : Press(k) \/ Release(k)
                        \/ Repeat \/ Lose \/ UNCHANGED vars
    PROVE  KeyboardInv'
<1>1. UNCHANGED <<ps2buffer, led, ks, tricode, box, typed, reader>>
  BY DEF Press, Release, Repeat, Send, Lose, vars, task
<1> DEFINE Fits == wire' \in Seq(Byte) /\ last' \in Keys \cup {"none"} /\ down' \subseteq Keys
<1>2. Fits
  <2>1. wire \in Seq(Byte) /\ last \in Keys \cup {"none"} /\ down \subseteq Keys
    BY DEF KeyboardInv, KbdTypeOK
  <2>2. ASSUME NEW k \in Keys, Press(k) PROVE Fits
    BY <2>1, <2>2, CodesAreBytes, ConcatProperties DEF Press, Send
  <2>3. ASSUME NEW k \in Keys, Release(k) PROVE Fits
    BY <2>1, <2>3, CodesAreBytes, ConcatProperties DEF Release, Send
  <2>4. CASE Repeat
    BY <2>1, <2>4, CodesAreBytes, ConcatProperties DEF Repeat, Send
  <2>5. CASE Lose
    BY <2>1, <2>5, HeadTailProperties DEF Lose
  <2>6. CASE UNCHANGED vars
    BY <2>1, <2>6 DEF vars, device
  <2> QED BY <2>2, <2>3, <2>4, <2>5, <2>6
<1> QED BY <1>1, <1>2 DEF KeyboardInv, KbdTypeOK, BufferFramed, NoStaleTricode

LEMMA InterruptKeeps ==
    ASSUME KeyboardInv, NEW b \in Byte, KeyboardHandler(b),
           wire # <<>>, wire' = Tail(wire), UNCHANGED <<down, last, reader>>
    PROVE  KeyboardInv'
<1>1. BufferFramed'
  BY HandlerKeepsFramed DEF KeyboardInv
<1>2. Decoded /\ led \in BOOLEAN
  BY DEF KeyboardInv, KbdTypeOK, NoStaleTricode, Decoded, KeyState
<1>3. Decoded' /\ led' \in BOOLEAN
  BY <1>2, HandlerKeepsDecoded
<1>4. wire' \in Seq(Byte)
  BY HeadTailProperties DEF KeyboardInv, KbdTypeOK
<1> QED BY <1>1, <1>3, <1>4 DEF KeyboardInv, KbdTypeOK, NoStaleTricode, Decoded, KeyState

LEMMA ReaderKeeps ==
    ASSUME KeyboardInv, Reader
    PROVE  KeyboardInv'
<1>1. UNCHANGED <<down, last, wire, ps2buffer, led, ks, tricode, typed>>
  BY DEF Reader, device
<1>2. box' \in [c : -1..255, n : 0..typed'] /\ reader' \in {"wait", "take", "clear"}
  BY <1>1 DEF Reader, Look, Now, Take, Clear, EmptyBox, KeyboardInv, KbdTypeOK
<1> QED BY <1>1, <1>2 DEF KeyboardInv, KbdTypeOK, BufferFramed, NoStaleTricode

LEMMA NextKeeps ==
    ASSUME KeyboardInv, [Next]_vars
    PROVE  KeyboardInv'
<1>1. CASE Receive
  <2>1. Head(wire) \in Byte
    BY <1>1, HeadTailProperties DEF Receive, KeyboardInv, KbdTypeOK
  <2>2. KeyboardHandler(Head(wire)) /\ wire # <<>> /\ wire' = Tail(wire) /\ UNCHANGED <<down, last, reader>>
    BY <1>1 DEF Receive, task
  <2> QED BY <2>1, <2>2, InterruptKeeps
<1>2. CASE Misread
  <2>1. PICK b \in Noise : KeyboardHandler(b)
    BY <1>2 DEF Misread
  <2>2. b \in Byte /\ wire # <<>> /\ wire' = Tail(wire) /\ UNCHANGED <<down, last, reader>>
    BY <1>2, KeyboardAssumption DEF Misread, task
  <2> QED BY <2>1, <2>2, InterruptKeeps
<1>3. CASE Reader
  BY <1>3, ReaderKeeps
<1>4. CASE ~(Receive \/ Misread \/ Reader)
  BY <1>4, DeviceKeeps DEF Next
<1> QED BY <1>1, <1>2, <1>3, <1>4

(* For every set of keys, every sequence of presses and every loss and      *)
(* corruption of frames: after each interrupt of KeyboardHandler the buffer *)
(* holds at most the start of one code, so it never fills; the character    *)
(* handed to __getch is one; and an Alt code under way has at most three    *)
(* digits and means that handleScancode takes Alt to be held.               *)
THEOREM KeyboardInvariant == Spec => []KeyboardInv
<1>1. KeyboardInv /\ [Next]_vars => KeyboardInv'
  BY NextKeeps
<1> QED BY <1>1, KeyboardInitially, PTL DEF Spec

(* In particular the 16-byte buffer never fills. *)
THEOREM BufferNeverFills == Spec => []BufferFramed
<1>1. KeyboardInv => BufferFramed
  BY DEF KeyboardInv
<1> QED BY <1>1, KeyboardInvariant, PTL

(* And no digit of an Alt code is left for the next one. *)
THEOREM TricodeIsFresh == Spec => []NoStaleTricode
<1>1. KeyboardInv => NoStaleTricode
  BY DEF KeyboardInv
<1> QED BY <1>1, KeyboardInvariant, PTL

-----------------------------------------------------------------------------
(* The mailbox: what has been read is older than what it holds.             *)
ReadInv ==
    /\ got \in Nat /\ got <= box.n /\ taken.n \in Nat /\ taken.n <= box.n
    /\ taken.c # 0 => taken.n > got
    /\ box.c # 0 /\ reader # "clear" => box.n > got
    /\ reader # "clear" => taken = Empty

(* The interrupt leaves the mailbox or puts the next character in it.       *)
LEMMA HandlerPuts ==
    ASSUME NEW b, KeyboardHandler(b)
    PROVE  UNCHANGED <<box, typed>> \/ \E c : Put(c)
<1> DEFINE Idle == UNCHANGED <<box, typed>>
           Puts == \E c : Put(c)
           Decodes == \E code, light : handleScancode(code, light)
<1>1. ASSUME NEW code, NEW k, Act(code, k) PROVE Idle \/ Puts
  BY <1>1, Zenon DEF Act
<1>2. ASSUME NEW code, NEW light, handleScancode(code, light) PROVE Idle \/ Puts
  BY <1>1, <1>2, Zenon DEF handleScancode
<1>3. UNCHANGED <<ks, tricode, box, typed>> \/ Decodes
  BY Zenon DEF KeyboardHandler, ps2poll
<1>4. UNCHANGED <<ks, tricode, box, typed>> => Idle
  OBVIOUS
<1> HIDE DEF Idle, Puts
<1>5. Decodes => Idle \/ Puts
  BY <1>2
<1> QED BY <1>3, <1>4, <1>5 DEF Idle, Puts

LEMMA ReadKept ==
    ASSUME KeyboardInv, ReadInv, [Next]_vars
    PROVE  ReadInv'
<1>0. PICK nb \in Nat : box.n = nb /\ nb <= typed /\ typed \in Nat
  BY DEF KeyboardInv, KbdTypeOK
<1>1. CASE Reader
  <2>1. CASE Look \/ Now
    BY <2>1 DEF Look, Now, ReadInv
  <2>2. CASE Take
    BY <1>0, <2>2 DEF Take, ReadInv
  <2>3. CASE Clear
    <3>1. reader' = "wait" /\ box'.c = 0 /\ box'.n = box.n /\ taken' = Empty
      BY <2>3 DEF Clear, EmptyBox, KeyboardInv, KbdTypeOK
    <3>2. got' = IF taken.c # 0 THEN taken.n ELSE got
      BY <2>3 DEF Clear
    <3> QED BY <1>0, <3>1, <3>2 DEF ReadInv, Empty
  <2> QED BY <1>1, <2>1, <2>2, <2>3 DEF Reader
<1>2. CASE Receive \/ Misread
  <2>1. UNCHANGED <<reader, taken, got>> /\ \E b : KeyboardHandler(b)
    BY <1>2 DEF Receive, Misread, task
  <2>2. UNCHANGED box \/ box' = [c |-> box'.c, n |-> typed + 1]
    <3>1. UNCHANGED <<box, typed>> \/ \E c : Put(c)
      BY <2>1, HandlerPuts
    <3> QED BY <3>1 DEF Put
  <2>3. PICK x \in Nat : box'.n = x /\ x >= nb /\ (box' = box \/ x > nb)
    BY <1>0, <2>2
  <2> QED BY <1>0, <2>1, <2>3 DEF ReadInv
<1>3. CASE ~(Reader \/ Receive \/ Misread)
  <2>1. UNCHANGED <<box, reader, taken, got>>
    BY <1>3 DEF Next, Press, Release, Repeat, Send, Lose, vars, task
  <2> QED BY <2>1 DEF ReadInv
<1> QED BY <1>1, <1>2, <1>3

(* Each key is read at most once, and in the order of typing, wherever the  *)
(* interrupt comes between the steps of __getch.                            *)
THEOREM KeysReadOnce == Spec => ReadOnce
<1>1. Init => KeyboardInv /\ ReadInv
  BY KeyboardInitially DEF Init, ReadInv, Empty
<1>2. KeyboardInv /\ [Next]_vars => KeyboardInv'
  BY NextKeeps
<1>3. KeyboardInv /\ ReadInv /\ [Next]_vars => ReadInv'
  BY ReadKept
<1>4. ReadInv => [reader = "clear" /\ taken.c # 0 /\ reader' = "wait" => taken.n > got]_vars
  BY DEF ReadInv
<1> QED BY <1>1, <1>2, <1>3, <1>4, PTL DEF Spec, ReadOnce

-----------------------------------------------------------------------------
(* The modifiers follow the keys.  The bytes collected and those still to   *)
(* come are one stream of whole codes; a modifier is thought to be held     *)
(* only while a key of it is down or a code that ends it is on its way, and *)
(* no code that starts it comes after the last one that ends it.            *)
KeyBytes == {Plain[k] : k \in DOMAIN Plain} \cup {Extended[k] : k \in DOMAIN Extended}
ExtBytes == {Extended[k] : k \in DOMAIN Extended}
Codes(s) ==
    \A i \in 1..Len(s) :
      /\ s[i] \in KeyBytes \cup {Break, Ext}
      /\ s[i] = Break => i < Len(s) /\ s[i + 1] \in KeyBytes
      /\ s[i] = Ext => i < Len(s) /\ s[i + 1] \in ExtBytes \cup {Break}
                       /\ (s[i + 1] = Break => s[i + 2] \in ExtBytes)

Modifiers == {"ctrl", "alt", "del", "shift", "tab", "plus"}
ByteOf == [ctrl |-> 20, alt |-> 17, del |-> 113, shift |-> 18, tab |-> 13, plus |-> 85]
XtOf == [ctrl |-> 29, alt |-> 56, del |-> 83, shift |-> 42, tab |-> 15, plus |-> 13]
KeysOf == [ctrl |-> {"ctrl", "rctrl"}, alt |-> {"alt"}, del |-> {"del"},
           shift |-> {"shift"}, tab |-> {"tab"}, plus |-> {"plus"}]
Ends(s, i, m) == s[i] = ByteOf[m] /\ i > 1 /\ s[i - 1] = Break
Starts(s, i, m) == s[i] = ByteOf[m] /\ (i > 1 => s[i - 1] # Break)
Held(m) == KeysOf[m] \cap down # {}
EndPending(s, m) == \E i \in 1..Len(s) : Ends(s, i, m)
EndedAfter(s, i, m) == \E j \in 1..Len(s) : i < j /\ Ends(s, j, m)
Stream == ps2buffer \o wire
Followed(m) ==
    /\ ks[m] => Held(m) \/ EndPending(Stream, m)
    /\ \A i \in 1..Len(Stream) : Starts(Stream, i, m) => Held(m) \/ EndedAfter(Stream, i, m)
Following == Codes(Stream) /\ \A m \in Modifiers : Followed(m)
Follows ==
    /\ noise \in Nat /\ resets \in Nat
    /\ "pause" \notin Keys /\ noise = 0 => Following /\ last \in down \cup {"none"}

(* The tables of ps2.c and the switch of handleScancode.                    *)
LEMMA FoundOne ==
    ASSUME NEW G, NEW b, NEW x, <<b, x>> \in G, \A q \in G : q[1] = b => q = <<b, x>>
    PROVE  Found(G, b) = {x}
<1>1. {q \in G : q[1] = b} = {<<b, x>>}
  OBVIOUS
<1> QED BY <1>1 DEF Found

LEMMA ChosenOne == ASSUME NEW x PROVE (CHOOSE y \in {x} : TRUE) = x
OBVIOUS

Xt1 == [ b \in KeyBytes |->
    CASE b = 28 -> 30 [] b = 33 -> 46 [] b = 22 -> 2 [] b = 117 -> 72 [] b = 118 -> 1 [] b = 102 -> 14
      [] b = 90 -> 28 [] b = 20 -> 29 [] b = 17 -> 56 [] b = 18 -> 42 [] b = 113 -> 83 [] b = 13 -> 15
      [] b = 85 -> 13 [] b = 119 -> NumLock [] OTHER -> CapsLock ]

LEMMA KeyBytesAre ==
    /\ KeyBytes = {28, 33, 22, 117, 118, 102, 90, 20, 17, 18, 13, 85, 119, 88, 113}
    /\ ExtBytes = {117, 90, 20, 113}
BY DEF KeyBytes, ExtBytes, Plain, Extended

LEMMA NotPrefix == \A b \in KeyBytes : b # Break /\ b # Ext /\ b # Pause
BY KeyBytesAre DEF Break, Ext, Pause

LEMMA Table1 == \A b \in KeyBytes : ps2_to_xt_1(b) = Xt1[b] /\ Xt1[b] \in 1..88
<1> TAKE b \in KeyBytes
<1>1. <<b, Xt1[b]>> \in Group1 /\ Xt1[b] \in 1..88
  BY KeyBytesAre DEF Group1, Xt1, NumLock, CapsLock
<1>2. \A q \in Group1 : q[1] = b => q = <<b, Xt1[b]>>
  BY KeyBytesAre DEF Group1, Xt1, NumLock, CapsLock
<1>3. Found(Group1, b) = {Xt1[b]}
  BY <1>1, <1>2, FoundOne
<1> QED BY <1>1, <1>3, ChosenOne DEF ps2_to_xt_1

LEMMA Table2 == \A b \in ExtBytes : ps2_to_xt_2(b) = XtExt + Xt1[b]
<1> TAKE b \in ExtBytes
<1>1. <<b, Xt1[b]>> \in Group2
  BY KeyBytesAre DEF Group2, Xt1, NumLock, CapsLock
<1>2. \A q \in Group2 : q[1] = b => q = <<b, Xt1[b]>>
  BY KeyBytesAre DEF Group2, Xt1, NumLock, CapsLock
<1>3. Found(Group2, b) = {Xt1[b]}
  BY <1>1, <1>2, FoundOne
<1> QED BY <1>3, ChosenOne DEF ps2_to_xt_2

LEMMA Tables ==
    ASSUME NEW m \in Modifiers, NEW b \in KeyBytes
    PROVE  /\ Xt1[b] = XtOf[m] <=> b = ByteOf[m]
           /\ Xt1[b] # XtOf[m] + XtBreak /\ Xt1[b] + XtBreak # XtOf[m]
           /\ XtOf[m] \in 1..83 /\ ByteOf[m] \notin {Break, Ext}
BY KeyBytesAre DEF Modifiers, XtOf, ByteOf, Xt1, NumLock, CapsLock, XtBreak, Break, Ext

LEMMA ModifierSets ==
    ASSUME NEW k \in KeyState, NEW code, NEW m \in Modifiers
    PROVE  Modifier(code, k)[m] = IF Low(code) = XtOf[m] THEN TRUE
                                  ELSE IF Low(code) = XtOf[m] + XtBreak THEN FALSE ELSE k[m]
<1> DEFINE set(old, make) == IF Low(code) = make THEN TRUE ELSE IF Low(code) = make + 128 THEN FALSE ELSE old
           r == Modifier(code, k)
<1>1. r.ctrl = set(k.ctrl, 29) /\ r.alt = set(k.alt, 56) /\ r.del = set(k.del, 83)
      /\ r.tab = set(k.tab, 15) /\ r.plus = set(k.plus, 13)
  BY Zenon DEF Modifier, XtBreak
<1>2. r.shift = set(k.shift, 42)
  BY Zenon DEF Modifier, XtBreak
<1> HIDE DEF r
<1>3. /\ r["ctrl"] = r.ctrl /\ r["alt"] = r.alt /\ r["del"] = r.del
      /\ r["shift"] = r.shift /\ r["tab"] = r.tab /\ r["plus"] = r.plus
  OBVIOUS
<1>4. r[m] = set(k[m], XtOf[m])
  <2>1. CASE m = "ctrl"
    BY <1>1, <1>3, <2>1 DEF XtOf
  <2>2. CASE m = "alt"
    BY <1>1, <1>3, <2>2 DEF XtOf
  <2>3. CASE m = "del"
    BY <1>1, <1>3, <2>3 DEF XtOf
  <2>4. CASE m = "shift"
    BY <1>2, <1>3, <2>4 DEF XtOf
  <2>5. CASE m = "tab"
    BY <1>1, <1>3, <2>5 DEF XtOf
  <2>6. CASE m = "plus"
    BY <1>1, <1>3, <2>6 DEF XtOf
  <2> QED BY <2>1, <2>2, <2>3, <2>4, <2>5, <2>6 DEF Modifiers
<1> QED BY <1>4 DEF r, XtBreak

LEMMA ScancodeSets ==
    ASSUME ks \in KeyState, NEW code \in Nat, NEW light, handleScancode(code, light), NEW m \in Modifiers
    PROVE  ks'[m] = IF Low(code) = XtOf[m] THEN TRUE
                    ELSE IF Low(code) = XtOf[m] + XtBreak THEN FALSE ELSE ks[m]
<1>1. CASE Immediate(code, light) # 0
  <2>1. Low(code) \in {72, 156, 129, 14}
    <3>1. \/ code = XtExt + 72 \/ code = 72 \/ code = XtExt + 28 + XtBreak
          \/ Low(code) = 1 + XtBreak \/ Low(code) = 14
      BY <1>1 DEF Immediate, ArrowUp
    <3>2. Low(XtExt + 72) = 72 /\ Low(72) = 72 /\ Low(XtExt + 28 + XtBreak) = 156 /\ 1 + XtBreak = 129
      BY DEF Low, XtExt, XtBreak
    <3> QED BY <3>1, <3>2
  <2>2. Low(code) # XtOf[m] /\ Low(code) # XtOf[m] + XtBreak
    BY <2>1 DEF Modifiers, XtOf, XtBreak
  <2>3. ks' = ks
    BY <1>1 DEF handleScancode
  <2> QED BY <2>2, <2>3
<1>2. CASE Immediate(code, light) = 0
  <2>1. ks' = Modifier(code, ks)
    BY <1>2 DEF handleScancode
  <2> QED BY <2>1, ModifierSets
<1> QED BY <1>1, <1>2

-----------------------------------------------------------------------------
(* Streams: the front goes when a code is complete, the end grows.          *)
LEMMA Shifted ==
    ASSUME NEW s \in Seq(Byte), NEW t \in Seq(Byte), NEW p \in Nat, p > 0, Len(s) = Len(t) + p,
           \A i \in 1..Len(t) : t[i] = s[i + p], Codes(s), s[p] \in KeyBytes
    PROVE  /\ Codes(t)
           /\ \A m \in Modifiers : \A i \in 1..Len(t) :
                (Ends(t, i, m) <=> Ends(s, i + p, m)) /\ (Starts(t, i, m) <=> Starts(s, i + p, m))
           /\ \A m \in Modifiers : ~Ends(s, p + 1, m)
<1>0. PICK l \in Nat : l = Len(t) /\ Len(s) = l + p
  BY LenProperties
<1>1. s[p] # Break /\ s[p] # Ext
  BY NotPrefix
<1>2. Codes(t)
  <2> SUFFICES ASSUME NEW i \in 1..Len(t)
               PROVE  /\ t[i] \in KeyBytes \cup {Break, Ext}
                      /\ t[i] = Break => i < Len(t) /\ t[i + 1] \in KeyBytes
                      /\ t[i] = Ext => i < Len(t) /\ t[i + 1] \in ExtBytes \cup {Break}
                                       /\ (t[i + 1] = Break => t[i + 2] \in ExtBytes)
    BY DEF Codes
  <2>1. i + p \in 1..Len(s) /\ t[i] = s[i + p]
    BY <1>0
  <2>2. /\ s[i + p] \in KeyBytes \cup {Break, Ext}
        /\ s[i + p] = Break => i + p < Len(s) /\ s[(i + p) + 1] \in KeyBytes
        /\ s[i + p] = Ext => i + p < Len(s) /\ s[(i + p) + 1] \in ExtBytes \cup {Break}
                         /\ (s[(i + p) + 1] = Break => s[(i + p) + 2] \in ExtBytes)
    BY <2>1 DEF Codes
  <2>3. i < Len(t) => t[i + 1] = s[(i + p) + 1]
    <3>1. i < Len(t) => i + 1 \in 1..Len(t) /\ (i + 1) + p = (i + p) + 1
      BY <1>0
    <3> QED BY <3>1
  <2>4. i + p < Len(s) => i < Len(t)
    BY <1>0
  <2>5. i < Len(t) /\ t[i + 1] = Break => t[i + 2] = s[(i + p) + 2]
    <3>1. SUFFICES ASSUME i < Len(t), t[i + 1] = Break PROVE t[i + 2] = s[(i + p) + 2]
      OBVIOUS
    <3>2. (i + p) + 1 \in 1..Len(s) /\ s[(i + p) + 1] = Break
      BY <1>0, <2>3, <3>1
    <3>3. (i + p) + 1 < Len(s)
      BY <3>2 DEF Codes
    <3>4. i + 2 \in 1..Len(t) /\ (i + 2) + p = (i + p) + 2
      <4>1. i \in 1..l /\ (i + p) + 1 < l + p
        BY <1>0, <3>3
      <4>2. i + 1 < l
        BY <4>1
      <4> QED BY <1>0, <4>1, <4>2
    <3> QED BY <3>4
  <2> QED BY <2>1, <2>2, <2>3, <2>4, <2>5
<1>3. ASSUME NEW m \in Modifiers, NEW i \in 1..Len(t)
      PROVE  (Ends(t, i, m) <=> Ends(s, i + p, m)) /\ (Starts(t, i, m) <=> Starts(s, i + p, m))
  <2>1. t[i] = s[i + p] /\ i + p > 1 /\ i \in Nat
    BY <1>0
  <2>2. CASE i = 1
    <3>1. (i + p) - 1 = p
      BY <1>0, <2>2
    <3> QED BY <1>1, <2>1, <2>2, <3>1 DEF Ends, Starts
  <2>3. CASE i > 1
    <3>1. i - 1 \in 1..Len(t) /\ (i - 1) + p = (i + p) - 1
      BY <1>0, <2>3
    <3>2. t[i - 1] = s[(i + p) - 1]
      BY <3>1
    <3> QED BY <2>1, <2>3, <3>2 DEF Ends, Starts
  <2> QED BY <2>1, <2>2, <2>3
<1>4. (p + 1) - 1 = p
  OBVIOUS
<1> QED BY <1>1, <1>2, <1>3, <1>4 DEF Ends

LEMMA Grown ==
    ASSUME NEW s \in Seq(Byte), NEW c \in Seq(Byte), Codes(s), Codes(c)
    PROVE  /\ Codes(s \o c) /\ Len(s \o c) = Len(s) + Len(c)
           /\ \A m \in Modifiers : \A i \in 1..Len(s) :
                (Ends(s \o c, i, m) <=> Ends(s, i, m)) /\ (Starts(s \o c, i, m) <=> Starts(s, i, m))
           /\ \A m \in Modifiers : \A i \in 1..Len(c) :
                (Ends(s \o c, Len(s) + i, m) <=> Ends(c, i, m))
                /\ (Starts(s \o c, Len(s) + i, m) <=> Starts(c, i, m))
<1> DEFINE t == s \o c
<1>0. PICK l \in Nat, k \in Nat : l = Len(s) /\ k = Len(c)
  BY LenProperties
<1>1. t \in Seq(Byte) /\ Len(t) = l + k /\ (\A i \in 1..l : t[i] = s[i]) /\ \A i \in 1..k : t[l + i] = c[i]
  <2>1. t \in Seq(Byte) /\ Len(t) = l + k /\ \A i \in 1..(l + k) : t[i] = IF i <= l THEN s[i] ELSE c[i - l]
    BY <1>0, ConcatProperties
  <2>2. ASSUME NEW i \in 1..k PROVE t[l + i] = c[i]
    <3>1. l + i \in 1..(l + k) /\ ~(l + i <= l) /\ (l + i) - l = i
      BY <1>0
    <3> QED BY <2>1, <3>1
  <2> QED BY <1>0, <2>1, <2>2
<1> HIDE DEF t
<1>2. l > 0 => s[l] \in KeyBytes
  <2>1. l > 0 => l \in 1..Len(s) /\ ~(l < Len(s))
    BY <1>0
  <2> QED BY <2>1 DEF Codes
<1>3. l > 0 => s[l] # Break /\ s[l] # Ext
  BY <1>2, NotPrefix
<1>4. Codes(t)
  <2> SUFFICES ASSUME NEW i \in 1..Len(t)
               PROVE  /\ t[i] \in KeyBytes \cup {Break, Ext}
                      /\ t[i] = Break => i < Len(t) /\ t[i + 1] \in KeyBytes
                      /\ t[i] = Ext => i < Len(t) /\ t[i + 1] \in ExtBytes \cup {Break}
                                       /\ (t[i + 1] = Break => t[i + 2] \in ExtBytes)
    BY DEF Codes
  <2>1. CASE i <= l
    <3>1. i \in 1..Len(s) /\ t[i] = s[i] /\ i <= Len(t)
      BY <1>0, <1>1, <2>1
    <3>2. /\ s[i] \in KeyBytes \cup {Break, Ext}
          /\ s[i] = Break => i < Len(s) /\ s[i + 1] \in KeyBytes
          /\ s[i] = Ext => i < Len(s) /\ s[i + 1] \in ExtBytes \cup {Break}
                           /\ (s[i + 1] = Break => s[i + 2] \in ExtBytes)
      BY <3>1 DEF Codes
    <3>3. i < Len(s) => i < Len(t) /\ t[i + 1] = s[i + 1] /\ i + 1 \in 1..Len(s)
      BY <1>0, <1>1, <2>1
    <3>4. i < Len(s) /\ s[i + 1] = Break => t[i + 2] = s[i + 2]
      <4>1. SUFFICES ASSUME i < Len(s), s[i + 1] = Break PROVE t[i + 2] = s[i + 2]
        OBVIOUS
      <4>2. i + 1 < Len(s)
        BY <3>3, <4>1 DEF Codes
      <4>3. i + 2 \in 1..l
        BY <1>0, <4>2
      <4> QED BY <1>1, <4>3
    <3> QED BY <3>1, <3>2, <3>3, <3>4
  <2>2. CASE i > l
    <3>1. PICK j \in 1..k : i = l + j
      <4>1. i - l \in 1..k /\ i = l + (i - l)
        BY <1>0, <1>1, <2>2
      <4> QED BY <4>1
    <3>2. /\ c[j] \in KeyBytes \cup {Break, Ext}
          /\ c[j] = Break => j < Len(c) /\ c[j + 1] \in KeyBytes
          /\ c[j] = Ext => j < Len(c) /\ c[j + 1] \in ExtBytes \cup {Break}
                           /\ (c[j + 1] = Break => c[j + 2] \in ExtBytes)
      BY <1>0 DEF Codes
    <3>3. t[i] = c[j]
      BY <1>1, <3>1
    <3>4. j < Len(c) => i < Len(t) /\ t[i + 1] = c[j + 1] /\ j + 1 \in 1..Len(c)
      <4>1. j < k => j + 1 \in 1..k /\ l + (j + 1) = i + 1 /\ l + j < l + k
        BY <1>0, <3>1
      <4> QED BY <1>0, <1>1, <3>1, <4>1
    <3>5. j < Len(c) /\ c[j + 1] = Break => t[i + 2] = c[j + 2]
      <4>1. SUFFICES ASSUME j < Len(c), c[j + 1] = Break PROVE t[i + 2] = c[j + 2]
        OBVIOUS
      <4>2. j + 1 < Len(c)
        BY <3>4, <4>1 DEF Codes
      <4>3. j + 2 \in 1..k /\ l + (j + 2) = i + 2
        BY <1>0, <3>1, <4>2
      <4> QED BY <1>1, <4>3
    <3> QED BY <3>2, <3>3, <3>4, <3>5
  <2> QED BY <1>0, <1>1, <2>1, <2>2
<1>5. ASSUME NEW m \in Modifiers, NEW i \in 1..l
      PROVE  (Ends(t, i, m) <=> Ends(s, i, m)) /\ (Starts(t, i, m) <=> Starts(s, i, m))
  <2>1. t[i] = s[i] /\ (i > 1 => t[i - 1] = s[i - 1])
    <3>1. i > 1 => i - 1 \in 1..l
      BY <1>0
    <3> QED BY <1>1, <3>1
  <2> QED BY <2>1 DEF Ends, Starts
<1>6. ASSUME NEW m \in Modifiers, NEW i \in 1..k
      PROVE  (Ends(t, l + i, m) <=> Ends(c, i, m)) /\ (Starts(t, l + i, m) <=> Starts(c, i, m))
  <2>1. t[l + i] = c[i] /\ i \in Nat
    BY <1>1
  <2>2. CASE i = 1
    <3>1. l = 0 \/ (l + i > 1 /\ (l + i) - 1 = l /\ t[l] = s[l] /\ s[l] # Break)
      BY <1>0, <1>1, <1>3, <2>2
    <3>2. l = 0 => ~(l + i > 1)
      BY <2>2
    <3> QED BY <2>1, <2>2, <3>1, <3>2 DEF Ends, Starts
  <2>3. CASE i > 1
    <3>1. i - 1 \in 1..k /\ l + (i - 1) = (l + i) - 1 /\ l + i > 1
      BY <1>0, <2>3
    <3>2. t[(l + i) - 1] = c[i - 1]
      BY <1>1, <3>1
    <3> QED BY <2>1, <2>3, <3>1, <3>2 DEF Ends, Starts
  <2> QED BY <2>1, <2>2, <2>3
<1> QED BY <1>0, <1>1, <1>4, <1>5, <1>6 DEF t

-----------------------------------------------------------------------------
Next0 == Append(ps2buffer, Head(wire))    \* the buffer with the byte that comes
At == Len(ps2buffer) + 1                  \* its place in the stream

LEMMA FramedIsBytes == Framed \subseteq Seq(Byte)
<1>1. Ext \in Byte /\ Break \in Byte /\ Pause \in Byte
  BY DEF Ext, Break, Pause, Byte
<1>2. <<>> \in Seq(Byte)
  OBVIOUS
<1> QED BY <1>1, <1>2, ShortCodes DEF Framed

LEMMA Appended ==
    ASSUME NEW x \in Byte, NEW y \in Byte, NEW b \in Byte
    PROVE  /\ Append(<<>>, b) = <<b>>
           /\ Append(<<x>>, b) = <<x, b>>
           /\ Append(<<x, y>>, b) = <<x, y, b>>
<1>1. Append(<<>>, b) = <<b>>
  OBVIOUS
<1>2. Append(<<x>>, b) = <<x, b>>
  <2>1. <<x>> \in Seq(Byte) /\ <<x, b>> \in Seq(Byte)
    BY ShortCodes
  <2>2. Append(<<x>>, b) \in Seq(Byte) /\ Len(Append(<<x>>, b)) = 2
        /\ Append(<<x>>, b)[1] = x /\ Append(<<x>>, b)[2] = b
    BY <2>1, AppendProperties
  <2>3. Len(<<x, b>>) = 2 /\ \A i \in 1..2 : Append(<<x>>, b)[i] = <<x, b>>[i]
    BY <2>2
  <2> QED BY <2>1, <2>2, <2>3, SeqEqual
<1>3. Append(<<x, y>>, b) = <<x, y, b>>
  <2>1. <<x, y>> \in Seq(Byte) /\ <<x, y, b>> \in Seq(Byte)
    BY ShortCodes
  <2>2. Append(<<x, y>>, b) \in Seq(Byte) /\ Len(Append(<<x, y>>, b)) = 3
        /\ Append(<<x, y>>, b)[1] = x /\ Append(<<x, y>>, b)[2] = y /\ Append(<<x, y>>, b)[3] = b
    BY <2>1, AppendProperties
  <2>3. Len(<<x, y, b>>) = 3 /\ \A i \in 1..3 : Append(<<x, y>>, b)[i] = <<x, y, b>>[i]
    BY <2>2
  <2> QED BY <2>1, <2>2, <2>3, SeqEqual
<1> QED BY <1>1, <1>2, <1>3

LEMMA LowOf ==
    /\ \A y \in 1..88 : Low(y) = y
    /\ \A y \in 1..88 : Low(y + XtBreak) = y + XtBreak
    /\ \A y \in 1..88 : Low(XtExt + y) = y
    /\ \A y \in 1..88 : Low(XtExt + y + XtBreak) = y + XtBreak
<1>1. \A y \in 1..88 : Low(y) = y
  BY DEF Low
<1>2. \A y \in 1..88 : Low(y + XtBreak) = y + XtBreak
  BY DEF Low, XtBreak
<1>3. \A y \in 1..88 : Low(XtExt + y) = y
  BY DEF Low, XtExt
<1>4. \A y \in 1..88 : Low(XtExt + y + XtBreak) = y + XtBreak
  BY DEF Low, XtExt, XtBreak
<1> QED BY <1>1, <1>2, <1>3, <1>4

LEMMA Joined ==
    ASSUME NEW s \in Seq(Byte), NEW c \in Seq(Byte)
    PROVE  /\ s \o c \in Seq(Byte) /\ Len(s \o c) = Len(s) + Len(c)
           /\ \A i \in 1..Len(s) : (s \o c)[i] = s[i]
           /\ \A i \in 1..Len(c) : (s \o c)[Len(s) + i] = c[i]
<1>0. PICK l \in Nat, k \in Nat : l = Len(s) /\ k = Len(c)
  BY LenProperties
<1>1. s \o c \in Seq(Byte) /\ Len(s \o c) = l + k
      /\ \A i \in 1..(l + k) : (s \o c)[i] = IF i <= l THEN s[i] ELSE c[i - l]
  BY <1>0, ConcatProperties
<1>2. ASSUME NEW i \in 1..k PROVE (s \o c)[l + i] = c[i]
  <2>1. l + i \in 1..(l + k) /\ ~(l + i <= l) /\ (l + i) - l = i
    OBVIOUS
  <2> QED BY <1>1, <2>1
<1>3. ASSUME NEW i \in 1..l PROVE (s \o c)[i] = s[i]
  <2>1. i \in 1..(l + k) /\ i <= l
    OBVIOUS
  <2> QED BY <1>1, <2>1
<1> QED BY <1>0, <1>1, <1>2, <1>3

LEMMA StreamIs ==
    ASSUME KeyboardInv, wire # <<>>
    PROVE  /\ At \in 1..3 /\ At \in 1..Len(Stream) /\ Stream \in Seq(Byte) /\ Head(wire) \in Byte
           /\ Len(Stream) = Len(Tail(wire)) + At /\ Tail(wire) \in Seq(Byte)
           /\ \A i \in 1..Len(Tail(wire)) : Tail(wire)[i] = Stream[i + At]
           /\ Stream[At] = Head(wire) /\ \A i \in 1..(At - 1) : Stream[i] = ps2buffer[i]
           /\ Next0 \o Tail(wire) = Stream
<1>1. ps2buffer \in Framed /\ ps2buffer \in Seq(Byte) /\ wire \in Seq(Byte)
  BY FramedIsBytes DEF KeyboardInv, BufferFramed, KbdTypeOK, Framed
<1>2. Tail(wire) \in Seq(Byte) /\ Head(wire) \in Byte /\ Head(wire) = wire[1]
      /\ Len(Tail(wire)) = Len(wire) - 1 /\ \A i \in 1..Len(Tail(wire)) : Tail(wire)[i] = wire[i + 1]
  BY <1>1, HeadTailProperties
<1>3. PICK l \in Nat : l = Len(ps2buffer)
  BY <1>1, LenProperties
<1>4. PICK w \in Nat : w = Len(Tail(wire))
  BY <1>2, LenProperties
<1>5. Len(wire) = w + 1
  <2>1. PICK x \in Nat : x = Len(wire)
    BY <1>1, LenProperties
  <2> QED BY <1>2, <1>4, <2>1
<1>6. l \in 0..2
  BY <1>1, <1>3 DEF Framed
<1>7. Stream \in Seq(Byte) /\ Len(Stream) = l + (w + 1)
      /\ (\A i \in 1..l : Stream[i] = ps2buffer[i]) /\ \A i \in 1..(w + 1) : Stream[l + i] = wire[i]
  <2> DEFINE t == ps2buffer \o wire
  <2>1. t \in Seq(Byte) /\ Len(t) = l + (w + 1)
        /\ (\A i \in 1..l : t[i] = ps2buffer[i]) /\ \A i \in 1..(w + 1) : t[l + i] = wire[i]
    <3>1. PICK k \in Nat : k = Len(wire) /\ k = w + 1
      BY <1>5
    <3>2. t \in Seq(Byte) /\ Len(t) = l + k
          /\ (\A i \in 1..l : t[i] = ps2buffer[i]) /\ \A i \in 1..k : t[l + i] = wire[i]
      <4>1. t \in Seq(Byte) /\ Len(t) = Len(ps2buffer) + Len(wire)
            /\ (\A i \in 1..Len(ps2buffer) : t[i] = ps2buffer[i])
            /\ \A i \in 1..Len(wire) : t[Len(ps2buffer) + i] = wire[i]
        BY <1>1, Joined
      <4> QED BY <1>3, <3>1, <4>1
    <3> HIDE DEF t
    <3> QED BY <3>1, <3>2
  <2>2. Stream = t
    BY DEF Stream
  <2> HIDE DEF t
  <2> QED BY <2>1, <2>2
<1>8. ASSUME NEW i \in 1..w PROVE Tail(wire)[i] = Stream[i + (l + 1)]
  <2>1. i + 1 \in 1..(w + 1) /\ l + (i + 1) = i + (l + 1)
    OBVIOUS
  <2> QED BY <1>2, <1>4, <1>7, <2>1
<1>9. Stream[l + 1] = Head(wire)
  <2>1. 1 \in 1..(w + 1)
    OBVIOUS
  <2> QED BY <1>2, <1>7, <2>1
<1>10. Next0 \o Tail(wire) = Stream
  <2> DEFINE t == Next0 \o Tail(wire)
  <2>1. Next0 \in Seq(Byte) /\ Len(Next0) = l + 1 /\ (\A i \in 1..l : Next0[i] = ps2buffer[i]) /\ Next0[l + 1] = Head(wire)
    BY <1>1, <1>2, <1>3, AppendProperties DEF Next0
  <2>2. t \in Seq(Byte) /\ Len(t) = (l + 1) + w
        /\ (\A i \in 1..(l + 1) : t[i] = Next0[i]) /\ \A i \in 1..w : t[(l + 1) + i] = Tail(wire)[i]
    <3>1. t \in Seq(Byte) /\ Len(t) = Len(Next0) + Len(Tail(wire))
          /\ (\A i \in 1..Len(Next0) : t[i] = Next0[i])
          /\ \A i \in 1..Len(Tail(wire)) : t[Len(Next0) + i] = Tail(wire)[i]
      BY <1>2, <2>1, Joined
    <3> HIDE DEF t
    <3> QED BY <1>4, <2>1, <3>1
  <2> HIDE DEF t
  <2>3. ASSUME NEW i \in 1..((l + 1) + w) PROVE t[i] = Stream[i]
    <3>1. CASE i \in 1..l
      <4>1. i \in 1..(l + 1)
        BY <3>1
      <4> QED BY <1>7, <2>1, <2>2, <3>1, <4>1
    <3>2. CASE i = l + 1
      <4>1. i \in 1..(l + 1)
        BY <3>2
      <4> QED BY <1>9, <2>1, <2>2, <3>2, <4>1
    <3>3. CASE i > l + 1
      <4>1. PICK j \in 1..w : i = (l + 1) + j /\ j + (l + 1) = i
        <5>1. i - (l + 1) \in 1..w /\ i = (l + 1) + (i - (l + 1)) /\ (i - (l + 1)) + (l + 1) = i
          BY <3>3
        <5> QED BY <5>1
      <4> QED BY <1>8, <2>2, <4>1
    <3> QED BY <3>1, <3>2, <3>3
  <2>4. Len(Stream) = (l + 1) + w
    BY <1>7
  <2> QED BY <1>7, <2>2, <2>3, <2>4, SeqEqual DEF t
<1>11. l + 1 \in 1..3 /\ l + 1 \in 1..(l + (w + 1)) /\ l + (w + 1) = w + (l + 1) /\ (l + 1) - 1 = l
  BY <1>6
<1> QED BY <1>2, <1>3, <1>4, <1>7, <1>8, <1>9, <1>10, <1>11 DEF At

LEMMA CodeRead ==
    ASSUME KeyboardInv, wire # <<>>, Codes(Stream), Complete(Next0)
    PROVE  /\ Stream[At] \in KeyBytes /\ \A i \in 1..(At - 1) : Stream[i] \notin KeyBytes
           /\ Code(Next0) \in Nat \ {0}
           /\ Low(Code(Next0)) = Xt1[Stream[At]] + IF At > 1 /\ Stream[At - 1] = Break THEN XtBreak ELSE 0
<1> DEFINE b == Head(wire)
<1>0. Ext \in Byte /\ Break \in Byte
  BY DEF Ext, Break, Byte
<1>1. ps2buffer \in Framed /\ Stream[At] = b /\ (\A i \in 1..(At - 1) : Stream[i] = ps2buffer[i])
      /\ At \in 1..Len(Stream) /\ At \in 1..3 /\ Stream \in Seq(Byte) /\ b \in Byte
  <2> QED BY StreamIs DEF KeyboardInv, BufferFramed, Framed
<1>2. \A i \in 1..Len(Stream) :
        /\ Stream[i] \in KeyBytes \cup {Break, Ext}
        /\ Stream[i] = Break => Stream[i + 1] \in KeyBytes
        /\ Stream[i] = Ext => Stream[i + 1] \in ExtBytes \cup {Break}
                              /\ (Stream[i + 1] = Break => Stream[i + 2] \in ExtBytes)
  BY <1>1 DEF Codes
<1>3. ExtBytes \subseteq KeyBytes
  BY KeyBytesAre
<1>4. 1 \in 1..Len(Stream)
  BY <1>1, LenProperties
<1>5. \A x \in KeyBytes : Xt1[x] \in 1..88 /\ Low(Xt1[x]) = Xt1[x] /\ Low(Xt1[x] + XtBreak) = Xt1[x] + XtBreak
                          /\ Low(XtExt + Xt1[x]) = Xt1[x] /\ Low(XtExt + Xt1[x] + XtBreak) = Xt1[x] + XtBreak
  <2> TAKE x \in KeyBytes
  <2>1. PICK y \in 1..88 : y = Xt1[x]
    BY Table1
  <2> QED BY <2>1, LowOf
<1> HIDE DEF b
<1>6. CASE ps2buffer = <<>>
  <2>1. At = 1 /\ Next0 = <<b>>
    BY <1>6 DEF At, Next0, b
  <2>2. b \notin {Break, Ext}
    BY <2>1 DEF Complete, Length, Break, Ext, Pause
  <2>3. b \in KeyBytes
    BY <1>1, <1>2, <1>4, <2>1, <2>2
  <2>4. Length(Next0) = 1 /\ Code(Next0) = Xt1[b]
    BY <2>1, <2>3, NotPrefix, Table1 DEF Length, Code
  <2>5. PICK y \in 1..88 : y = Xt1[b] /\ Low(y) = y
    BY <1>5, <2>3
  <2>6. Code(Next0) \in Nat \ {0} /\ Low(Code(Next0)) = Xt1[b] + 0
    <3>1. \A z \in 1..88 : z + 0 = z /\ z \in Nat \ {0}
      OBVIOUS
    <3>2. Xt1[b] + 0 = Xt1[b]
      BY <2>5, <3>1
    <3> QED BY <2>4, <2>5, <3>1, <3>2
  <2>7. ~(At > 1) /\ \A i \in 1..(At - 1) : FALSE
    BY <2>1
  <2> QED BY <1>1, <2>1, <2>3, <2>6, <2>7
<1>7. CASE ps2buffer = <<Break>>
  <2>1. At = 2 /\ Next0 = <<Break, b>> /\ Stream[1] = Break /\ Stream[2] = b
    <3>1. At = 2 /\ 1 \in 1..(At - 1) /\ ps2buffer[1] = Break
      BY <1>7 DEF At
    <3>2. Next0 = <<Break, b>>
      BY <1>0, <1>1, <1>7, Appended DEF Next0, b
    <3> QED BY <1>1, <3>1, <3>2
  <2>2. b \in KeyBytes
    BY <1>2, <1>4, <2>1
  <2>3. Length(Next0) = 2 /\ Code(Next0) = Xt1[b] + XtBreak
    BY <2>1, <2>2, Table1 DEF Length, Code, Break, Ext, Pause
  <2>4. Code(Next0) \in Nat \ {0} /\ Low(Code(Next0)) = Xt1[b] + XtBreak
    <3>1. PICK y \in 1..88 : y = Xt1[b] /\ Low(y + XtBreak) = y + XtBreak
      BY <1>5, <2>2
    <3>2. y + XtBreak \in Nat \ {0}
      BY DEF XtBreak
    <3> QED BY <2>3, <3>1, <3>2
  <2> QED BY <1>1, <2>1, <2>2, <2>4, NotPrefix
<1>8. CASE ps2buffer = <<Ext>>
  <2>1. At = 2 /\ Next0 = <<Ext, b>> /\ Stream[1] = Ext /\ Stream[2] = b
    <3>1. At = 2 /\ 1 \in 1..(At - 1) /\ ps2buffer[1] = Ext
      BY <1>8 DEF At
    <3>2. Next0 = <<Ext, b>>
      BY <1>0, <1>1, <1>8, Appended DEF Next0, b
    <3> QED BY <1>1, <3>1, <3>2
  <2>2. b # Break
    BY <2>1 DEF Complete, Length, Break, Ext, Pause
  <2>3. b \in ExtBytes
    BY <1>2, <1>4, <2>1, <2>2
  <2>4. Length(Next0) = 2 /\ Code(Next0) = XtExt + Xt1[b]
    BY <2>1, <2>2, <2>3, Table2 DEF Length, Code, Break, Ext, Pause
  <2>5. Code(Next0) \in Nat \ {0} /\ Low(Code(Next0)) = Xt1[b]
    <3>1. PICK y \in 1..88 : y = Xt1[b] /\ Low(XtExt + y) = y
      BY <1>3, <1>5, <2>3
    <3>2. XtExt + y \in Nat \ {0}
      BY DEF XtExt
    <3> QED BY <2>4, <3>1, <3>2
  <2>6. Stream[At - 1] # Break
    BY <2>1 DEF Break, Ext
  <2>7. Xt1[b] + 0 = Xt1[b] /\ b \in KeyBytes
    <3>1. \A z \in 1..88 : z + 0 = z
      OBVIOUS
    <3> QED BY <1>3, <1>5, <2>3, <3>1
  <2> QED BY <1>1, <2>1, <2>5, <2>6, <2>7, NotPrefix
<1>9. CASE ps2buffer = <<Ext, Break>>
  <2>1. At = 3 /\ Next0 = <<Ext, Break, b>> /\ Stream[1] = Ext /\ Stream[2] = Break /\ Stream[3] = b
    <3>1. At = 3 /\ 1 \in 1..(At - 1) /\ 2 \in 1..(At - 1) /\ ps2buffer[1] = Ext /\ ps2buffer[2] = Break
      BY <1>9 DEF At
    <3>2. Next0 = <<Ext, Break, b>>
      BY <1>0, <1>1, <1>9, Appended DEF Next0, b
    <3> QED BY <1>1, <3>1, <3>2
  <2>2. b \in ExtBytes
    BY <1>2, <1>4, <2>1
  <2>3. Length(Next0) = 3
    BY <2>1 DEF Length, Break, Ext, Pause
  <2>4. Code(Next0) = XtExt + Xt1[b] + XtBreak
    BY <2>1, <2>2, <2>3, Table2 DEF Code, Break, Ext, Pause
  <2>5. Code(Next0) \in Nat \ {0} /\ Low(Code(Next0)) = Xt1[b] + XtBreak
    <3>1. PICK y \in 1..88 : y = Xt1[b] /\ Low(XtExt + y + XtBreak) = y + XtBreak
      BY <1>3, <1>5, <2>2
    <3>2. XtExt + y + XtBreak \in Nat \ {0}
      BY DEF XtExt, XtBreak
    <3> QED BY <2>4, <3>1, <3>2
  <2> QED BY <1>1, <1>3, <2>1, <2>2, <2>5, NotPrefix
<1>10. ps2buffer # <<Pause>>
  <2> SUFFICES ASSUME ps2buffer = <<Pause>> PROVE FALSE
    OBVIOUS
  <2>1. Stream[1] = Pause
    BY <1>1 DEF At
  <2> QED BY <1>2, <1>4, <2>1, NotPrefix DEF Pause, Break, Ext
<1> QED BY <1>1, <1>6, <1>7, <1>8, <1>9, <1>10 DEF Framed

-----------------------------------------------------------------------------
(* The interrupt: a code that is complete leaves the stream and sets its    *)
(* modifier; any other byte only moves from the wire to the buffer.         *)
LEMMA BufferHasRoom == ASSUME KeyboardInv PROVE Len(ps2buffer) < BufferSize
<1>1. PICK l \in 0..2 : l = Len(ps2buffer)
  <2>1. ps2buffer \in Framed /\ ps2buffer \in Seq(Byte)
    BY FramedIsBytes DEF KeyboardInv, BufferFramed, Framed
  <2>2. PICK l \in Nat : l = Len(ps2buffer)
    BY <2>1, LenProperties
  <2>3. l \in 0..2
    BY <2>1, <2>2 DEF Framed
  <2> QED BY <2>2, <2>3
<1> QED BY <1>1, KeyboardAssumption

LEMMA CodeConsumed ==
    ASSUME KeyboardInv, Following, wire # <<>>, Complete(Next0),
           KeyboardHandler(Head(wire)), wire' = Tail(wire), UNCHANGED down
    PROVE  Following' /\ ps2buffer' = <<>>
<1> DEFINE t == Tail(wire)
           x == Stream[At]
           broken == At > 1 /\ Stream[At - 1] = Break
<1>1. At \in 1..3 /\ At \in 1..Len(Stream) /\ Stream \in Seq(Byte) /\ t \in Seq(Byte) /\ Head(wire) \in Byte
      /\ Len(Stream) = Len(t) + At /\ \A i \in 1..Len(t) : t[i] = Stream[i + At]
  BY StreamIs
<1>2. x \in KeyBytes /\ (\A i \in 1..(At - 1) : Stream[i] \notin KeyBytes)
      /\ Code(Next0) \in Nat \ {0} /\ Low(Code(Next0)) = Xt1[x] + IF broken THEN XtBreak ELSE 0
  BY CodeRead DEF Following
<1>3. ps2buffer' = Rest(Next0) /\ \E light : handleScancode(Code(Next0), light)
  <2>1. Len(ps2buffer) < BufferSize
    BY BufferHasRoom
  <2>2. ps2poll(Next0)
    BY <2>1 DEF KeyboardHandler, Next0
  <2> QED BY <1>2, <2>2 DEF ps2poll
<1>4. ps2buffer' = <<>>
  <2>1. ps2buffer \in Framed
    BY DEF KeyboardInv, BufferFramed, Framed
  <2> QED BY <1>1, <1>3, <2>1, CodeTakesAll DEF Next0
<1>5. Stream' = t
  BY <1>1, <1>4, ConcatEmptySeq DEF Stream
<1> HIDE DEF t, x, broken
<1>6. ASSUME NEW m \in Modifiers
      PROVE  ks'[m] = IF x = ByteOf[m] THEN ~broken ELSE ks[m]
  <2>1. ks \in KeyState /\ ks[m] \in BOOLEAN
    BY DEF KeyboardInv, KbdTypeOK, KeyState, Modifiers
  <2>2. PICK light : handleScancode(Code(Next0), light)
    BY <1>3
  <2>3. ks'[m] = IF Low(Code(Next0)) = XtOf[m] THEN TRUE
                 ELSE IF Low(Code(Next0)) = XtOf[m] + XtBreak THEN FALSE ELSE ks[m]
    BY <1>2, <2>1, <2>2, ScancodeSets
  <2>4. PICK y \in 1..88 : y = Xt1[x]
    BY <1>2, Table1
  <2>5. PICK z \in 1..83 : z = XtOf[m]
    <3>1. XtOf[m] \in 1..83
      BY <1>2, Tables
    <3> QED BY <3>1
  <2>6. y = z <=> x = ByteOf[m]
    BY <1>2, <2>4, <2>5, Tables
  <2>7. y # z + 128 /\ y + 128 # z /\ (y + 128 = z + 128 <=> y = z)
    OBVIOUS
  <2>8. Low(Code(Next0)) = IF broken THEN y + 128 ELSE y
    <3>1. y + 0 = y
      OBVIOUS
    <3> QED BY <1>2, <2>4, <3>1 DEF XtBreak
  <2>9. ks'[m] = IF Low(Code(Next0)) = z THEN TRUE ELSE IF Low(Code(Next0)) = z + 128 THEN FALSE ELSE ks[m]
    BY <2>3, <2>5 DEF XtBreak
  <2> HIDE DEF broken
  <2>10. CASE broken
    BY <2>6, <2>7, <2>8, <2>9, <2>10
  <2>11. CASE ~broken
    BY <2>6, <2>7, <2>8, <2>9, <2>11
  <2> QED BY <2>10, <2>11
<1>7. /\ Codes(t)
      /\ \A m \in Modifiers : \A i \in 1..Len(t) :
           (Ends(t, i, m) <=> Ends(Stream, i + At, m)) /\ (Starts(t, i, m) <=> Starts(Stream, i + At, m))
      /\ \A m \in Modifiers : ~Ends(Stream, At + 1, m)
  <2>1. At \in Nat /\ At > 0 /\ Codes(Stream) /\ Stream[At] \in KeyBytes
    BY <1>1, <1>2 DEF Following, x
  <2> QED BY <1>1, <2>1, Shifted
<1>8. PICK l \in Nat : l = Len(t) /\ Len(Stream) = l + At
  BY <1>1, LenProperties
(* What ends a modifier after the code read is still to come.               *)
<1>9. ASSUME NEW m \in Modifiers, NEW j \in 1..Len(Stream), Ends(Stream, j, m), j > At
      PROVE  j - At \in 1..Len(t) /\ Ends(t, j - At, m)
  <2>1. j - At \in 1..Len(t) /\ (j - At) + At = j
    BY <1>1, <1>8, <1>9
  <2> QED BY <1>7, <1>9, <2>1
<1>10. ASSUME NEW m \in Modifiers
       PROVE  Followed(m)'
  <2>1. Held(m)' = Held(m)
    BY DEF Held
  <2>2. ks'[m] => Held(m) \/ EndPending(t, m)
    <3>1. CASE x = ByteOf[m]
      <4> SUFFICES ASSUME ~broken PROVE Held(m) \/ EndPending(t, m)
        BY <1>6, <3>1
      <4>1. Starts(Stream, At, m)
        BY <1>1, <3>1 DEF Starts, x, broken
      <4>2. Held(m) \/ \E j \in 1..Len(Stream) : At < j /\ Ends(Stream, j, m)
        BY <1>1, <4>1 DEF Following, Followed, EndedAfter
      <4>3. ASSUME NEW j \in 1..Len(Stream), At < j, Ends(Stream, j, m) PROVE EndPending(t, m)
        <5>1. j > At
          BY <1>1, <1>8, <4>3
        <5>2. j - At \in 1..Len(t) /\ Ends(t, j - At, m)
          BY <1>9, <4>3, <5>1
        <5> QED BY <5>2 DEF EndPending
      <4> QED BY <4>2, <4>3
    <3>2. CASE x # ByteOf[m]
      <4> SUFFICES ASSUME ks[m] PROVE Held(m) \/ EndPending(t, m)
        BY <1>6, <3>2
      <4>1. Held(m) \/ \E j \in 1..Len(Stream) : Ends(Stream, j, m)
        BY DEF Following, Followed, EndPending
      <4>2. ASSUME NEW j \in 1..Len(Stream), Ends(Stream, j, m) PROVE EndPending(t, m)
        <5>1. Stream[j] = ByteOf[m] /\ ByteOf[m] \in KeyBytes
          BY <4>2, KeyBytesAre DEF Ends, Modifiers, ByteOf
        <5>2. j # At
          BY <3>2, <5>1 DEF x
        <5>3. ~(j \in 1..(At - 1))
          BY <1>2, <5>1
        <5>4. j > At
          BY <1>1, <1>8, <5>2, <5>3
        <5>5. j - At \in 1..Len(t) /\ Ends(t, j - At, m)
          BY <1>9, <4>2, <5>4
        <5> QED BY <5>5 DEF EndPending
      <4> QED BY <4>1, <4>2
    <3> QED BY <3>1, <3>2
  <2>3. ASSUME NEW i \in 1..Len(t), Starts(t, i, m) PROVE Held(m) \/ EndedAfter(t, i, m)
    <3>1. i + At \in 1..Len(Stream) /\ Starts(Stream, i + At, m)
      BY <1>1, <1>7, <1>8, <2>3
    <3>2. Held(m) \/ \E j \in 1..Len(Stream) : i + At < j /\ Ends(Stream, j, m)
      BY <3>1 DEF Following, Followed, EndedAfter
    <3>3. ASSUME NEW j \in 1..Len(Stream), i + At < j, Ends(Stream, j, m) PROVE EndedAfter(t, i, m)
      <4>1. j > At /\ i < j - At
        BY <1>1, <1>8, <3>3
      <4>2. j - At \in 1..Len(t) /\ Ends(t, j - At, m)
        BY <1>9, <3>3, <4>1
      <4> QED BY <4>1, <4>2 DEF EndedAfter
    <3> QED BY <3>2, <3>3
  <2> QED BY <1>5, <2>1, <2>2, <2>3 DEF Followed, EndPending, EndedAfter, Ends, Starts
<1>11. Codes(Stream)'
  BY <1>5, <1>7 DEF Codes
<1> QED BY <1>4, <1>10, <1>11 DEF Following

LEMMA ByteCollected ==
    ASSUME KeyboardInv, Following, wire # <<>>, ~Complete(Next0),
           KeyboardHandler(Head(wire)), wire' = Tail(wire), UNCHANGED down
    PROVE  Following' /\ resets' = resets
<1>1. Len(ps2buffer) < BufferSize
  BY BufferHasRoom
<1>2. ps2poll(Next0)
  BY <1>1 DEF KeyboardHandler, Next0
<1>3. ps2buffer' = Next0 /\ ks' = ks /\ resets' = resets
  BY <1>2 DEF ps2poll, effects
<1>4. Stream' = Stream
  BY <1>3, StreamIs DEF Stream
<1> QED BY <1>3, <1>4 DEF Following, Codes, Followed, Held, EndPending, EndedAfter, Ends, Starts

-----------------------------------------------------------------------------
(* The device: what the code of a key starts and ends.                      *)
LEMMA PlainIs ==
    \A k \in DOMAIN Plain :
      Plain[k] \in KeyBytes
      /\ \A m \in Modifiers : Plain[k] = ByteOf[m] <=> k \in KeysOf[m] \ DOMAIN Extended
BY DEF Plain, Extended, KeyBytes, Modifiers, ByteOf, KeysOf

LEMMA ExtendedIs ==
    \A k \in DOMAIN Extended :
      Extended[k] \in ExtBytes /\ Extended[k] \in KeyBytes /\ k \notin DOMAIN Plain
      /\ \A m \in Modifiers : Extended[k] = ByteOf[m] <=> k \in KeysOf[m] \ DOMAIN Plain
BY DEF Plain, Extended, KeyBytes, ExtBytes, Modifiers, ByteOf, KeysOf

LEMMA PrefixesDiffer == Ext # Break /\ \A m \in Modifiers : ByteOf[m] # Break /\ ByteOf[m] # Ext
BY DEF Ext, Break, Modifiers, ByteOf

LEMMA MakeStarts ==
    ASSUME NEW k \in AllKeys, k # "pause"
    PROVE  /\ Codes(Make(k))
           /\ \A m \in Modifiers : \A i \in 1..Len(Make(k)) : Starts(Make(k), i, m) => k \in KeysOf[m]
<1>1. CASE k \in DOMAIN Plain
  <2>1. Make(k) = <<Plain[k]>>
    BY <1>1 DEF Make
  <2>2. Plain[k] # Break /\ Plain[k] # Ext
    BY <1>1, PlainIs, NotPrefix
  <2> QED BY <1>1, <2>1, <2>2, PlainIs DEF Codes, Starts
<1>2. CASE k \in DOMAIN Extended
  <2>1. Make(k) = <<Ext, Extended[k]>>
    BY <1>2, ExtendedIs DEF Make
  <2>2. Extended[k] # Break /\ Extended[k] # Ext
    BY <1>2, ExtendedIs, NotPrefix
  <2>3. Codes(Make(k))
    BY <1>2, <2>1, <2>2, ExtendedIs, PrefixesDiffer DEF Codes
  <2> QED BY <1>2, <2>1, <2>2, <2>3, ExtendedIs, PrefixesDiffer DEF Starts
<1> QED BY <1>1, <1>2 DEF AllKeys

LEMMA BreakEnds ==
    ASSUME NEW k \in AllKeys, k # "pause"
    PROVE  /\ Codes(BreakOf(k))
           /\ \A m \in Modifiers : /\ \A i \in 1..Len(BreakOf(k)) : ~Starts(BreakOf(k), i, m)
                                   /\ k \in KeysOf[m] => \E i \in 1..Len(BreakOf(k)) : Ends(BreakOf(k), i, m)
<1>1. CASE k \in DOMAIN Plain
  <2>1. BreakOf(k) = <<Break, Plain[k]>>
    BY <1>1 DEF BreakOf
  <2>2. Plain[k] # Break /\ Plain[k] # Ext
    BY <1>1, PlainIs, NotPrefix
  <2>3. k \notin DOMAIN Extended
    BY <1>1, ExtendedIs
  <2>4. Codes(BreakOf(k))
    BY <1>1, <2>1, <2>2, PlainIs, PrefixesDiffer DEF Codes
  <2>5. ASSUME NEW m \in Modifiers
        PROVE  /\ \A i \in 1..Len(BreakOf(k)) : ~Starts(BreakOf(k), i, m)
               /\ k \in KeysOf[m] => Ends(BreakOf(k), 2, m)
    BY <1>1, <2>1, <2>2, <2>3, PlainIs, PrefixesDiffer DEF Starts, Ends
  <2>6. 2 \in 1..Len(BreakOf(k))
    BY <2>1
  <2> QED BY <2>4, <2>5, <2>6
<1>2. CASE k \in DOMAIN Extended
  <2>1. BreakOf(k) = <<Ext, Break, Extended[k]>>
    BY <1>2, ExtendedIs DEF BreakOf
  <2>2. Extended[k] # Break /\ Extended[k] # Ext
    BY <1>2, ExtendedIs, NotPrefix
  <2>3. Codes(BreakOf(k))
    BY <1>2, <2>1, <2>2, ExtendedIs, PrefixesDiffer DEF Codes
  <2>4. ASSUME NEW m \in Modifiers
        PROVE  /\ \A i \in 1..Len(BreakOf(k)) : ~Starts(BreakOf(k), i, m)
               /\ k \in KeysOf[m] => Ends(BreakOf(k), 3, m)
    BY <1>2, <2>1, <2>2, ExtendedIs, PrefixesDiffer DEF Starts, Ends
  <2>5. 3 \in 1..Len(BreakOf(k))
    BY <2>1
  <2> QED BY <2>3, <2>4, <2>5
<1> QED BY <1>1, <1>2 DEF AllKeys

LEMMA CodeSent ==
    ASSUME KeyboardInv, Following, NEW c \in Seq(Byte), Codes(c), wire' = wire \o c,
           UNCHANGED <<ps2buffer, ks>>,
           \A m \in Modifiers :
             \/ (Held(m) => Held(m)') /\ \A i \in 1..Len(c) : Starts(c, i, m) => Held(m)'
             \/ (\E i \in 1..Len(c) : Ends(c, i, m)) /\ \A i \in 1..Len(c) : ~Starts(c, i, m)
    PROVE  Following'
<1> DEFINE s == Stream
           t == s \o c
<1>1. ps2buffer \in Seq(Byte) /\ wire \in Seq(Byte) /\ s \in Seq(Byte)
  <2>1. ps2buffer \in Seq(Byte) /\ wire \in Seq(Byte)
    BY FramedIsBytes DEF KeyboardInv, BufferFramed, KbdTypeOK, Framed
  <2> QED BY <2>1, Joined DEF Stream
<1>2. Stream' = t
  BY <1>1, ConcatAssociative DEF Stream
<1>3. PICK l \in Nat : l = Len(s)
  BY <1>1, LenProperties
<1>4. PICK n \in Nat : n = Len(c)
  BY LenProperties
<1>5. Codes(s) /\ \A m \in Modifiers : /\ ks[m] => Held(m) \/ EndPending(s, m)
                                       /\ \A i \in 1..Len(s) : Starts(s, i, m) => Held(m) \/ EndedAfter(s, i, m)
  BY DEF Following, Followed
<1> HIDE DEF s
<1>6. /\ Codes(t) /\ Len(t) = Len(s) + Len(c)
      /\ \A m \in Modifiers : \A i \in 1..Len(s) :
           (Ends(t, i, m) <=> Ends(s, i, m)) /\ (Starts(t, i, m) <=> Starts(s, i, m))
      /\ \A m \in Modifiers : \A i \in 1..Len(c) :
           (Ends(t, Len(s) + i, m) <=> Ends(c, i, m)) /\ (Starts(t, Len(s) + i, m) <=> Starts(c, i, m))
  BY <1>1, <1>5, Grown
<1> HIDE DEF t
<1>7. Len(t) = l + n
  BY <1>3, <1>4, <1>6
<1>8. ASSUME NEW m \in Modifiers PROVE Followed(m)'
  <2>1. ASSUME NEW i \in 1..l, Ends(s, i, m) PROVE i \in 1..Len(t) /\ Ends(t, i, m)
    <3>1. i \in 1..Len(s) /\ i \in 1..Len(t)
      BY <1>3, <1>7
    <3> QED BY <1>6, <2>1, <3>1
  <2>2. ASSUME NEW i \in 1..n, Ends(c, i, m) PROVE l + i \in 1..Len(t) /\ Ends(t, l + i, m)
    <3>1. i \in 1..Len(c) /\ l + i \in 1..Len(t)
      BY <1>4, <1>7
    <3> QED BY <1>3, <1>6, <2>2, <3>1
  <2>3. EndPending(s, m) => EndPending(t, m)
    BY <1>3, <2>1 DEF EndPending
  <2>4. ASSUME NEW i \in 1..l, EndedAfter(s, i, m) PROVE EndedAfter(t, i, m)
    BY <1>3, <2>1, <2>4 DEF EndedAfter
  <2>5. CASE (Held(m) => Held(m)') /\ \A i \in 1..Len(c) : Starts(c, i, m) => Held(m)'
    <3>1. ks[m] => Held(m)' \/ EndPending(t, m)
      BY <1>5, <2>3, <2>5
    <3>2. ASSUME NEW i \in 1..Len(t), Starts(t, i, m) PROVE Held(m)' \/ EndedAfter(t, i, m)
      <4>1. CASE i <= l
        <5>1. i \in 1..l /\ i \in 1..Len(s)
          BY <1>3, <1>7, <4>1
        <5>2. Starts(s, i, m)
          BY <1>6, <3>2, <5>1
        <5> QED BY <1>5, <2>4, <2>5, <5>1, <5>2
      <4>2. CASE i > l
        <5>1. PICK j \in 1..n : i = l + j
          <6>1. i - l \in 1..n /\ i = l + (i - l)
            BY <1>7, <4>2
          <6> QED BY <6>1
        <5>2. j \in 1..Len(c) /\ Starts(t, Len(s) + j, m)
          BY <1>3, <1>4, <3>2, <5>1
        <5> QED BY <1>6, <2>5, <5>2
      <4> QED BY <1>7, <4>1, <4>2
    <3> QED BY <1>2, <3>1, <3>2 DEF Followed, EndPending, EndedAfter, Ends, Starts
  <2>6. CASE (\E i \in 1..Len(c) : Ends(c, i, m)) /\ \A i \in 1..Len(c) : ~Starts(c, i, m)
    <3>1. PICK e \in 1..n : Ends(c, e, m)
      BY <1>4, <2>6
    <3>2. l + e \in 1..Len(t) /\ Ends(t, l + e, m)
      BY <2>2, <3>1
    <3>3. EndPending(t, m)
      BY <3>2 DEF EndPending
    <3>4. ASSUME NEW i \in 1..Len(t), Starts(t, i, m) PROVE EndedAfter(t, i, m)
      <4>1. CASE i <= l
        <5>1. i < l + e
          BY <1>7, <4>1
        <5> QED BY <3>2, <5>1 DEF EndedAfter
      <4>2. CASE i > l
        <5>1. PICK j \in 1..n : i = l + j
          <6>1. i - l \in 1..n /\ i = l + (i - l)
            BY <1>7, <4>2
          <6> QED BY <6>1
        <5>2. j \in 1..Len(c) /\ Starts(t, Len(s) + j, m)
          BY <1>3, <1>4, <3>4, <5>1
        <5> QED BY <1>6, <2>6, <5>2
      <4> QED BY <1>7, <4>1, <4>2
    <3> QED BY <1>2, <3>3, <3>4 DEF Followed, EndPending, EndedAfter, Ends, Starts
  <2> QED BY <2>5, <2>6
<1>9. Codes(Stream)'
  BY <1>2, <1>6 DEF Codes
<1> QED BY <1>8, <1>9 DEF Following

-----------------------------------------------------------------------------
(* Every step.                                                              *)
LEMMA ResetAsks ==
    ASSUME NEW code, NEW light, handleScancode(code, light), resets \in Nat
    PROVE  resets' \in Nat /\ (resets' # resets => ks'["ctrl"] /\ ks'["alt"] /\ ks'["del"])
<1>1. CASE Immediate(code, light) # 0 \/ AltCodeEnds(code)
  BY <1>1 DEF handleScancode, effects
<1>2. CASE ~(Immediate(code, light) # 0 \/ AltCodeEnds(code))
  <2>1. resets' = resets + (IF ResetAsked(ks') THEN 1 ELSE 0)
    BY <1>2 DEF handleScancode, Act
  <2> QED BY <2>1 DEF ResetAsked
<1> QED BY <1>1, <1>2

LEMMA HandlerResets ==
    ASSUME NEW b, KeyboardHandler(b), resets \in Nat
    PROVE  resets' \in Nat
<1>1. \/ UNCHANGED effects
      \/ \E code : \E light : handleScancode(code, light)
  BY DEF KeyboardHandler, ps2poll
<1> QED BY <1>1, ResetAsks DEF effects

LEMMA InterruptFollows ==
    ASSUME KeyboardInv, Following, wire # <<>>, KeyboardHandler(Head(wire)), wire' = Tail(wire),
           UNCHANGED down, resets \in Nat
    PROVE  /\ Following'
           /\ resets' # resets /\ wire' = <<>> => Held("ctrl") /\ Held("alt") /\ Held("del")
<1>1. CASE ~Complete(Next0)
  BY <1>1, ByteCollected
<1>2. CASE Complete(Next0)
  <2>1. Following' /\ ps2buffer' = <<>>
    BY <1>2, CodeConsumed
  <2>2. \/ UNCHANGED effects
        \/ \E code : \E light : handleScancode(code, light)
    BY DEF KeyboardHandler, ps2poll
  <2>3. ASSUME resets' # resets, wire' = <<>>, NEW m \in {"ctrl", "alt", "del"}
        PROVE  Held(m)
    <3>1. ks'[m]
      BY <2>2, <2>3, ResetAsks DEF effects
    <3>2. Stream' = <<>>
      BY <2>1, <2>3, ConcatEmptySeq DEF Stream
    <3>3. Len(Stream') = 0
      BY <3>2
    <3>4. Followed(m)'
      BY <2>1 DEF Following, Modifiers
    <3>5. Held(m)' \/ EndPending(Stream', m)
      BY <3>1, <3>4 DEF Followed, EndPending, Ends
    <3>6. ~EndPending(Stream', m)
      BY <3>3 DEF EndPending
    <3> QED BY <3>5, <3>6 DEF Held
  <2> QED BY <2>1, <2>3
<1> QED BY <1>1, <1>2

LEMMA ModifiersInitially == Init => Follows
<1> SUFFICES ASSUME Init PROVE Follows
  OBVIOUS
<1>1. Stream = <<>> /\ Len(Stream) = 0
  BY ConcatEmptySeq DEF Init, Stream
<1>2. ASSUME NEW m \in Modifiers PROVE ~ks[m]
  BY DEF Init, Released, Modifiers
<1> QED BY <1>1, <1>2 DEF Follows, Following, Followed, Codes, Init

LEMMA SentFollows ==
    ASSUME KeyboardInv, Follows, \/ \E k \in Keys : Press(k) \/ Release(k)
                                 \/ Repeat
    PROVE  Follows'
<1>1. UNCHANGED <<noise, ps2buffer, ks, resets>>
  BY DEF Press, Release, Repeat, Send, effects
<1> SUFFICES ASSUME "pause" \notin Keys, noise = 0
             PROVE  Following' /\ last' \in down' \cup {"none"}
  BY <1>1 DEF Follows
<1>2. Following /\ last \in down \cup {"none"} /\ down \subseteq Keys
  BY DEF Follows, KeyboardInv, KbdTypeOK
<1>3. ASSUME NEW k \in Keys PROVE k \in AllKeys /\ k # "pause"
  BY KeyboardAssumption
<1>4. ASSUME NEW k \in Keys, Press(k) PROVE Following' /\ last' \in down' \cup {"none"}
  <2>1. down' = down \cup {k} /\ last' = k /\ wire' = wire \o Make(k)
    BY <1>3, <1>4 DEF Press, Send
  <2>2. ASSUME NEW m \in Modifiers
        PROVE  (Held(m) => Held(m)') /\ (k \in KeysOf[m] => Held(m)')
    BY <2>1 DEF Held
  <2> QED BY <1>1, <1>2, <1>3, <2>1, <2>2, CodesAreBytes, MakeStarts, CodeSent
<1>5. ASSUME NEW k \in Keys, Release(k) PROVE Following' /\ last' \in down' \cup {"none"}
  <2>1. down' = down \ {k} /\ last' = (IF last = k THEN "none" ELSE last) /\ wire' = wire \o BreakOf(k)
    BY <1>5 DEF Release, Send
  <2>2. ASSUME NEW m \in Modifiers, k \notin KeysOf[m] PROVE Held(m) => Held(m)'
    BY <2>1, <2>2 DEF Held
  <2> QED BY <1>1, <1>2, <1>3, <2>1, <2>2, CodesAreBytes, BreakEnds, CodeSent
<1>6. CASE Repeat
  <2>1. down' = down /\ last' = last /\ last \in down /\ wire' = wire \o Make(last)
    BY <1>2, <1>6 DEF Repeat, Send
  <2>2. last \in AllKeys /\ last # "pause"
    BY <1>2, <1>3, <2>1
  <2>3. ASSUME NEW m \in Modifiers
        PROVE  (Held(m) => Held(m)') /\ (last \in KeysOf[m] => Held(m)')
    BY <2>1 DEF Held
  <2> QED BY <1>1, <1>2, <2>1, <2>2, <2>3, CodesAreBytes, MakeStarts, CodeSent
<1> QED BY <1>4, <1>5, <1>6

LEMMA NextFollows ==
    ASSUME KeyboardInv, Follows, [Next]_vars
    PROVE  Follows'
<1>1. CASE (\E k \in Keys : Press(k) \/ Release(k)) \/ Repeat
  BY <1>1, SentFollows
<1>2. CASE Receive
  <2>1. UNCHANGED <<down, last, noise>> /\ resets' \in Nat
    BY <1>2, HandlerResets DEF Receive, Follows
  <2>2. Following => Following'
    BY <1>2, InterruptFollows DEF Receive, Follows
  <2> QED BY <2>1, <2>2 DEF Follows
<1>3. CASE Lose
  <2>1. noise' = noise + 1 /\ resets' = resets
    BY <1>3 DEF Lose, effects
  <2> QED BY <2>1 DEF Follows
<1>4. CASE Misread
  <2>1. noise' = noise + 1 /\ resets' \in Nat
    BY <1>4, HandlerResets DEF Misread, Follows
  <2> QED BY <2>1 DEF Follows
<1>5. CASE Reader \/ UNCHANGED vars
  <2>1. UNCHANGED <<down, last, noise, wire, ps2buffer, ks, resets>>
    BY <1>5 DEF Reader, vars, device, effects
  <2>2. Following' <=> Following
    BY <2>1 DEF Following, Followed, Codes, Stream, Held, EndPending, EndedAfter, Ends, Starts
  <2> QED BY <2>1, <2>2 DEF Follows
<1> QED BY <1>1, <1>2, <1>3, <1>4, <1>5 DEF Next

LEMMA NothingStuck ==
    ASSUME KeyboardInv, Follows
    PROVE  NoStuckModifier
<1> SUFFICES ASSUME noise = 0, wire = <<>>, down = {}, "pause" \notin Keys
             PROVE  \A m \in Modifiers : ~ks[m]
  BY DEF NoStuckModifier, Modifiers
<1> SUFFICES ASSUME NEW m \in Modifiers, ks[m] PROVE FALSE
  OBVIOUS
<1>1. ps2buffer \in Framed /\ ps2buffer \in Seq(Byte)
  BY FramedIsBytes DEF KeyboardInv, BufferFramed, Framed
<1>2. Stream = ps2buffer
  BY <1>1, ConcatEmptySeq DEF Stream
<1>3. EndPending(ps2buffer, m)
  BY <1>2 DEF Follows, Following, Followed, Held
<1>4. PICK i \in 1..Len(ps2buffer) : ps2buffer[i] = ByteOf[m]
  BY <1>3 DEF EndPending, Ends
<1>5. ps2buffer[i] \in {Break, Ext, Pause}
  BY <1>1, <1>4 DEF Framed
<1> QED BY <1>4, <1>5 DEF Modifiers, ByteOf, Break, Ext, Pause

(* As long as every frame arrives: when all keys are up and the device has  *)
(* sent all, handleScancode takes no modifier to be held, for every set of  *)
(* keys without Pause and every number of presses, repeats and releases.    *)
THEOREM ModifiersFollowKeys == Spec => []NoStuckModifier
<1>1. KeyboardInv /\ Follows /\ [Next]_vars => Follows'
  BY NextFollows
<1>2. KeyboardInv /\ Follows => NoStuckModifier
  BY NothingStuck
<1> QED BY <1>1, <1>2, ModifiersInitially, KeyboardInvariant, PTL DEF Spec

(* The watchdog is started by Ctrl, Alt and Del only: when the code that    *)
(* starts it was the last on the wire and no frame was lost, the three are  *)
(* down.  Without Pause, whose bytes read as a press of Ctrl.               *)
THEOREM ResetsNeedKeys == ASSUME "pause" \notin Keys PROVE Spec => ResetNeedsKeys
<1>1. KeyboardInv /\ Follows /\ [Next]_vars => Follows'
  BY NextFollows
<1>2. ASSUME KeyboardInv, Follows, Next, resets' > resets, noise' = 0, wire' = <<>>
      PROVE  {"ctrl", "rctrl"} \cap down # {} /\ "alt" \in down /\ "del" \in down
  <2>1. resets \in Nat /\ resets' \in Nat /\ noise \in Nat
    BY <1>1, <1>2 DEF Follows
  <2>2. resets' # resets
    BY <1>2, <2>1
  <2>3. Receive
    BY <1>2, <2>1, <2>2 DEF Next, Press, Release, Repeat, Send, Lose, Misread, Reader, effects
  <2>4. Held("ctrl") /\ Held("alt") /\ Held("del")
    BY <1>2, <2>1, <2>2, <2>3, InterruptFollows DEF Receive, Follows
  <2> QED BY <2>4 DEF Held, KeysOf
<1>3. KeyboardInv /\ Follows /\ [Next]_vars =>
        [resets' > resets /\ noise' = 0 /\ wire' = <<>> =>
           {"ctrl", "rctrl"} \cap down # {} /\ "alt" \in down /\ "del" \in down]_vars
  BY <1>2
<1> QED BY <1>1, <1>3, ModifiersInitially, KeyboardInvariant, PTL DEF Spec, ResetNeedsKeys
=============================================================================
