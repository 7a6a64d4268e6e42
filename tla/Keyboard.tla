------------------------------ MODULE Keyboard ------------------------------
(***************************************************************************)
(* The keyboard: a PS/2 device that sends key codes byte by byte, the      *)
(* interrupt handler that collects and translates them (ps2.c), the state  *)
(* of the modifier keys and the one-character mailbox __c (keyboard.c),    *)
(* and the task that takes characters from it.                             *)
(*                                                                         *)
(* A byte reaches ps2buffer in one step: the eleven clock edges of its     *)
(* frame are not told apart.  A frame that is cut short or misread is a    *)
(* byte lost or changed; the parity bit is not looked at.                  *)
(***************************************************************************)
EXTENDS Integers, Sequences, FiniteSets

CONSTANTS
    Keys,       \* the keys in use
    MaxEvents,  \* bound on the presses, repeats and releases
    MaxWire,    \* bound on the bytes the device has not sent yet when a key moves
    MaxNoise,   \* bound on the frames lost or misread
    Noise,      \* the bytes a misread frame may give
    BufferSize  \* KBD_BUFFER_SIZE

(* Key codes, as a PS/2 keyboard sends them and as the system names them. *)
Ext == 224
Pause == 225
Break == 240
XtExt == 57344          \* 0xE000
XtBreak == 128
NumLock == 69
CapsLock == 58

(* Make codes of the keys modelled, those with the prefix apart; Pause has  *)
(* no break code.                                                           *)
Plain == [ a |-> 28, c |-> 33, one |-> 22, pad8 |-> 117, esc |-> 118, back |-> 102, enter |-> 90,
           ctrl |-> 20, alt |-> 17, shift |-> 18, tab |-> 13, plus |-> 85, num |-> 119, caps |-> 88 ]
Extended == [ up |-> 117, padenter |-> 90, rctrl |-> 20, del |-> 113 ]
PauseCode == <<Pause, 20, 119, Pause, Break, 20, Break, 119>>
AllKeys == DOMAIN Plain \cup DOMAIN Extended \cup {"pause"}
Make(k) == IF k \in DOMAIN Plain THEN <<Plain[k]>>
           ELSE IF k \in DOMAIN Extended THEN <<Ext, Extended[k]>> ELSE PauseCode
BreakOf(k) == IF k \in DOMAIN Plain THEN <<Break, Plain[k]>>
              ELSE IF k \in DOMAIN Extended THEN <<Ext, Break, Extended[k]>> ELSE <<>>

Byte == 0..255
ASSUME KeyboardAssumption ==
    /\ Keys \subseteq AllKeys /\ MaxEvents \in Nat /\ MaxWire \in Nat /\ MaxNoise \in Nat
    /\ Noise \subseteq Byte /\ BufferSize \in Nat /\ BufferSize >= 3

VARIABLES
    down, last, wire, events, noise,    \* the device: keys held, bytes not sent yet
    ps2buffer, led,                     \* ps2.c: bytes collected, NumLock light
    ks, tricode,                        \* keyboard.c: modifiers, Alt code being typed
    box, typed,                         \* __c with the number of the key that set it
    signals, resets, clock,             \* app_signal, watchdog and overclocking calls
    reader, taken, got                  \* the task in __getch

device == <<down, last, wire, events, noise>>
effects == <<signals, resets, clock>>
task == <<reader, taken, got>>
vars == <<device, ps2buffer, led, ks, tricode, box, typed, effects, task>>

Released == [ctrl |-> FALSE, alt |-> FALSE, del |-> FALSE, shift |-> FALSE, tab |-> FALSE,
             plus |-> FALSE, rus |-> FALSE, caps |-> FALSE]
Empty == [c |-> 0, n |-> 0]

Init ==
    /\ down = {} /\ last = "none" /\ wire = <<>> /\ events = 0 /\ noise = 0
    /\ ps2buffer = <<>> /\ led = FALSE
    /\ ks = Released /\ tricode = <<>>
    /\ box = Empty /\ typed = 0
    /\ signals = 0 /\ resets = 0 /\ clock = 0
    /\ reader = "wait" /\ taken = Empty /\ got = 0

-----------------------------------------------------------------------------
(* The device sends a key's code when it is pressed, again while it is the  *)
(* last one pressed, and the break code when it is released.                *)
Send(codes) ==
    /\ events < MaxEvents /\ events' = events + 1 /\ Len(wire) <= MaxWire
    /\ wire' = wire \o codes
    /\ UNCHANGED <<noise, ps2buffer, led, ks, tricode, box, typed, effects, task>>
Press(k) ==
    /\ k \in Keys \ down
    /\ down' = IF k = "pause" THEN down ELSE down \cup {k}
    /\ last' = IF k = "pause" THEN last ELSE k
    /\ Send(Make(k))
Repeat == last # "none" /\ Send(Make(last)) /\ UNCHANGED <<down, last>>
Release(k) ==
    /\ k \in down
    /\ down' = down \ {k}
    /\ last' = IF last = k THEN "none" ELSE last
    /\ Send(BreakOf(k))

-----------------------------------------------------------------------------
(* ps2.c: translation of a complete code; 0 for one that is not known. *)
Group1 == { <<28, 30>>, <<33, 46>>, <<22, 2>>, <<117, 72>>, <<118, 1>>, <<102, 14>>, <<90, 28>>,
            <<20, 29>>, <<17, 56>>, <<18, 42>>, <<113, 83>>, <<13, 15>>, <<85, 13>>,
            <<119, NumLock>>, <<88, CapsLock>> }
Group2 == { <<117, 72>>, <<90, 28>>, <<20, 29>>, <<17, 56>>, <<113, 83>> }
Found(group, b) == {p[2] : p \in {q \in group : q[1] = b}}
ps2_to_xt_1(b) == IF Found(Group1, b) = {} THEN 0 ELSE CHOOSE x \in Found(Group1, b) : TRUE
ps2_to_xt_2(b) == IF Found(Group2, b) = {} THEN 0
                  ELSE XtExt + (CHOOSE x \in Found(Group2, b) : TRUE)

(* How many bytes the code at the front of the buffer takes. *)
LengthTwo(buf) == IF buf[1] \in {Break, Ext, Pause} THEN 2 ELSE 1
Length(buf) ==
    IF buf[1] \notin {Break, Ext, Pause} THEN 1
    ELSE IF Len(buf) >= 2 /\ buf[1] = Ext /\ buf[2] = Break THEN 3 ELSE 2
Complete(buf) == Len(buf) >= Length(buf)

(* ps2getcode: the code, and what is left; a lock key's light is set by     *)
(* keyboard_send, which clears the buffer but not its size.                 *)
Code(buf) ==
    CASE Length(buf) = 1 -> ps2_to_xt_1(buf[1])
      [] buf[1] = Break -> ps2_to_xt_1(buf[2]) + XtBreak
      [] buf[1] = Ext /\ Length(buf) = 2 -> ps2_to_xt_2(buf[2])
      [] buf[1] = Ext /\ Length(buf) = 3 -> ps2_to_xt_2(buf[3]) + XtBreak
      [] OTHER -> 0
SetsLight(code) == code \in {NumLock, CapsLock}
Rest(buf) ==
    LET rest == SubSeq(buf, Length(buf) + 1, Len(buf))
    IN  IF SetsLight(Code(buf)) THEN [i \in DOMAIN rest |-> 0] ELSE rest

-----------------------------------------------------------------------------
(* keyboard.c.  Characters: digits are told apart, 97 is any other one. *)
Digits == 48..57
Glyph == 97
EOF == -1
Low(code) == code % 256

(* The switch of handleScancode on the low byte. *)
Modifier(code, k) ==
    LET x == Low(code)
        s == IF x = 42 THEN TRUE ELSE IF x = 42 + XtBreak THEN FALSE ELSE k.shift
        turns == (x = 29 /\ k.shift) \/ (x = 42 /\ k.ctrl)
        set(old, make) == IF x = make THEN TRUE ELSE IF x = make + XtBreak THEN FALSE ELSE old
    IN  [ctrl |-> set(k.ctrl, 29), alt |-> set(k.alt, 56), del |-> set(k.del, 83), shift |-> s,
         tab |-> set(k.tab, 15), plus |-> set(k.plus, 13),
         rus |-> k.rus # turns, caps |-> k.caps # (x = CapsLock)]

(* scan_code_2_cp866: the character of a make code, 0 for none. *)
Character(code, k) ==
    CASE code = 2 -> IF k.shift THEN Glyph ELSE 49
      [] code = 72 -> 56
      [] code \in {13, 15, 28, 30, 46} -> Glyph
      [] OTHER -> 0

(* tricode2c: up to three digits, modulo the size of a char. *)
Weight == <<100, 10, 1>>
tricode2c(t) ==
    LET v(i) == (t[i] - 48) * Weight[i + 3 - Len(t)]
    IN  (v(Len(t)) + (IF Len(t) > 1 THEN v(Len(t) - 1) ELSE 0)
                   + (IF Len(t) > 2 THEN v(Len(t) - 2) ELSE 0)) % 256

Put(c) == box' = [c |-> c, n |-> typed + 1] /\ typed' = typed + 1

(* Keys that deliver their character before or within the switch. *)
ArrowUp(code, numlock) == code = XtExt + 72 \/ (code = 72 /\ ~numlock)
Immediate(code, numlock) ==
    IF ArrowUp(code, numlock) THEN 17
    ELSE IF code = XtExt + 28 + XtBreak THEN 10
    ELSE IF Low(code) = 1 + XtBreak THEN 27
    ELSE IF Low(code) = 14 THEN 8
    ELSE 0

AltCodeNeverEnds(code) == FALSE
AltCodeEnds(code) == Low(code) = 56 + XtBreak /\ tricode # <<>>
TricodeFull(t) == Len(t) = 3
ResetAskedAny(k) == k.alt /\ k.del
ResetAsked(k) == k.ctrl /\ k.alt /\ k.del

(* The three-key reset and the clock (Tab, Ctrl and plus; minus works alike  *)
(* and is left out), then the character.                                    *)
Act(code, k) ==
    LET c == Character(code, k)
        asksReset == ResetAsked(k)
        digit == k.alt /\ c \in Digits
    IN  /\ resets' = resets + (IF asksReset THEN 1 ELSE 0)
        /\ clock' = clock + (IF ~asksReset /\ k.tab /\ k.ctrl /\ k.plus THEN 1 ELSE 0)
        /\ IF asksReset \/ code >= 86
           THEN UNCHANGED <<tricode, box, typed, signals>>
           ELSE IF digit /\ ~TricodeFull(tricode)
           THEN tricode' = Append(tricode, c) /\ UNCHANGED <<box, typed, signals>>
           ELSE IF digit
           THEN Put(tricode2c(tricode)) /\ tricode' = <<>> /\ UNCHANGED signals
           ELSE /\ UNCHANGED tricode
                /\ IF k.ctrl /\ code = 46 THEN Put(EOF) /\ signals' = signals + 1
                   ELSE Put(c) /\ UNCHANGED signals

handleScancode(code, numlock) ==
    IF Immediate(code, numlock) # 0
    THEN Put(Immediate(code, numlock)) /\ UNCHANGED <<ks, tricode, effects>>
    ELSE /\ ks' = Modifier(code, ks)
         /\ IF AltCodeEnds(code)
            THEN Put(tricode2c(tricode)) /\ tricode' = <<>> /\ UNCHANGED effects
            ELSE Act(code, ks')

-----------------------------------------------------------------------------
(* KeyboardHandler at the last edge of a frame, and ps2poll. *)
ps2poll(buf) ==
    IF ~Complete(buf)
    THEN ps2buffer' = buf /\ UNCHANGED <<led, ks, tricode, box, typed, effects>>
    ELSE LET code == Code(buf)
             light == IF code = NumLock THEN ~led ELSE led
         IN  /\ ps2buffer' = Rest(buf)
             /\ led' = light
             /\ IF code = 0 THEN UNCHANGED <<ks, tricode, box, typed, effects>>
                ELSE handleScancode(code, light)

KeyboardHandler(b) ==
    IF Len(ps2buffer) < BufferSize THEN ps2poll(Append(ps2buffer, b))
    ELSE UNCHANGED <<ps2buffer, led, ks, tricode, box, typed, effects>>

Receive ==
    /\ wire # <<>> /\ wire' = Tail(wire)
    /\ KeyboardHandler(Head(wire))
    /\ UNCHANGED <<down, last, events, noise, task>>

(* A frame is cut short by the 250 us limit, or misread. *)
Lose ==
    /\ wire # <<>> /\ noise < MaxNoise
    /\ wire' = Tail(wire) /\ noise' = noise + 1
    /\ UNCHANGED <<down, last, events, ps2buffer, led, ks, tricode, box, typed, effects, task>>
Misread ==
    /\ wire # <<>> /\ noise < MaxNoise
    /\ wire' = Tail(wire) /\ noise' = noise + 1
    /\ \E b \in Noise : KeyboardHandler(b)
    /\ UNCHANGED <<down, last, events, task>>

-----------------------------------------------------------------------------
(* __getch: look until there is a character, take it, clear the mailbox.    *)
(* The interrupt may come between any two of these.  getch_now does not look. *)
Look == reader = "wait" /\ box.c # 0 /\ reader' = "take" /\ UNCHANGED <<taken, got, box>>
Now == reader = "wait" /\ reader' = "take" /\ UNCHANGED <<taken, got, box>>
Take == reader = "take" /\ taken' = box /\ reader' = "clear" /\ UNCHANGED <<got, box>>
FullBox(b) == b
EmptyBox(b) == [b EXCEPT !.c = 0]
Clear ==
    /\ reader = "clear" /\ reader' = "wait"
    /\ box' = EmptyBox(box)
    /\ got' = IF taken.c # 0 THEN taken.n ELSE got
    /\ taken' = Empty
Reader == (Look \/ Now \/ Take \/ Clear)
          /\ UNCHANGED <<device, ps2buffer, led, ks, tricode, typed, effects>>

Next ==
    \/ \E k \in Keys : Press(k) \/ Release(k)
    \/ Repeat \/ Receive \/ Lose \/ Misread
    \/ Reader

Spec == Init /\ [][Next]_vars
-----------------------------------------------------------------------------
(* Each variable keeps the shape the code gives it. *)
KbdTypeOK ==
    /\ down \subseteq Keys /\ last \in Keys \cup {"none"} /\ wire \in Seq(Byte)
    /\ led \in BOOLEAN
    /\ ks \in [ctrl : BOOLEAN, alt : BOOLEAN, del : BOOLEAN, shift : BOOLEAN, tab : BOOLEAN,
               plus : BOOLEAN, rus : BOOLEAN, caps : BOOLEAN]
    /\ tricode \in Seq(Digits)
    /\ box \in [c : -1..255, n : 0..typed] /\ typed \in Nat
    /\ reader \in {"wait", "take", "clear"}

(* After every interrupt the buffer holds at most the start of one code,    *)
(* whatever bytes came in: it never fills, and keyboard_send, which clears  *)
(* it when a lock key is pressed, has nothing to lose.                      *)
BufferFramed == ps2buffer \in {<<>>, <<Break>>, <<Ext>>, <<Pause>>, <<Ext, Break>>}

(* When every frame arrived and all keys are up, no modifier is thought to  *)
(* be held: make and break codes find each other whatever the order.  Pause *)
(* is excepted: its bytes read as a press of Ctrl, see ResetNeedsKeys.       *)
NoStuckModifier ==
    noise = 0 /\ wire = <<>> /\ down = {} /\ Keys \cap {"pause"} = {} =>
      ~ks.ctrl /\ ~ks.alt /\ ~ks.del /\ ~ks.shift /\ ~ks.tab /\ ~ks.plus

(* An Alt code is only under way while Alt is held: digits typed in one go  *)
(* are never continued in the next.  And tricode[4] keeps room for the end  *)
(* of its string.                                                           *)
NoStaleTricode == Len(tricode) <= 3 /\ (tricode # <<>> => ks.alt)

(* What holds after every interrupt, whatever bytes came in. *)
KeyboardInv == KbdTypeOK /\ BufferFramed /\ NoStaleTricode

(* The watchdog is started only by Ctrl, Alt and Del held together: once the *)
(* device has nothing more to send, what started it shows in the keys held.  *)
ResetNeedsKeys ==
    [][resets' > resets /\ noise' = 0 /\ wire' = <<>> =>
         {"ctrl", "rctrl"} \cap down # {} /\ "alt" \in down /\ "del" \in down]_vars

(* A task that reads characters gets each key at most once, in the order of *)
(* typing, although the interrupt changes the mailbox while it reads.       *)
ReadOnce == [][reader = "clear" /\ taken.c # 0 /\ reader' = "wait" => taken.n > got]_vars
=============================================================================
