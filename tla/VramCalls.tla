------------------------------ MODULE VramCalls ------------------------------
(***************************************************************************)
(* The vocabulary of the paged virtual RAM (src/src/ram_page.c) shared by  *)
(* the flat memory it promises (FlatMemory) and by the demand pager that   *)
(* keeps the promise (RamPage): addresses, pages, and the requests a       *)
(* client makes with ram_page_read*/ram_page_write*.                       *)
(*                                                                         *)
(* A machine word is the function from its byte index to the byte, index 0 *)
(* being the least significant one: the code splits and joins words with   *)
(* `value >> (i << 3)`, so only the order of the bytes matters.            *)
(***************************************************************************)
EXTENDS Integers

CONSTANTS
    PageSize,   \* _swap_page_size, in bytes
    NPages,     \* _swap_size / _swap_page_size, pages of the swap file
    Byte,       \* the values a byte takes
    Widths,     \* the access widths in use, in bytes (1, 2 and 4 in the code)
    MaxAddr     \* bound on the addresses a client passes, valid or not

ASSUME VramAssumption ==
    /\ PageSize \in Nat \ {0}
    /\ NPages \in Nat \ {0}
    /\ Byte \subseteq Nat /\ 0 \in Byte
    /\ Widths \subseteq 1..PageSize
    /\ MaxAddr \in Nat

SwapSize == NPages * PageSize
Addresses == 0..(SwapSize - 1)
Offsets == 0..(PageSize - 1)
Pages == 1..NPages
Block == [Offsets -> Byte]

(* lba_page: page ids are one-based, 0 marks an unused frame. *)
PageOf(a) == (a \div PageSize) + 1
OffsetOf(a) == a % PageSize

Ops == {"read", "write"}
Words(w) == [0..(w - 1) -> Byte]

(* What a client asks for; a read carries the word 0. *)
Requests == UNION {[op : Ops, addr : 0..MaxAddr, width : {w}, word : Words(w)]
                   : w \in Widths}

Zeros(w) == [i \in 0..(w - 1) |-> 0]

(* The requests clients make: a read has no word to pass. *)
ClientRequests == {c \in Requests : c.op = "read" => c.word = Zeros(c.width)}

(* swap_range_valid, without its test of RAM: the word lies in the swap. *)
InRange(c) == c.width <= SwapSize /\ c.addr <= SwapSize - c.width

(* The word does not fit in the page its first byte is in. *)
Straddles(c) == OffsetOf(c.addr) > PageSize - c.width

(* Bytes of the request served by one page lookup: a straddling word is     *)
(* read and written byte by byte, each byte with a lookup of its own.       *)
Span(c) == IF Straddles(c) THEN 1 ELSE c.width

(* The byte indices served by the lookup made at byte p of the word. *)
Served(c, p) == p .. (p + Span(c) - 1)
=============================================================================
