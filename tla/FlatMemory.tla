----------------------------- MODULE FlatMemory -----------------------------
(***************************************************************************)
(* What the virtual RAM promises to its clients: one flat array of bytes   *)
(* that lives from one successful init_vram to the next, whatever the      *)
(* pager moves between RAM and the swap file.  The storage may fail: then  *)
(* the bytes being served are lost (a read of them gives 0, a write of     *)
(* them has no effect) and nothing else in the memory changes.  A word     *)
(* inside one page is transferred or lost as a whole; a word that straddles*)
(* two pages is transferred or lost byte by byte.                          *)
(***************************************************************************)
EXTENDS VramCalls

VARIABLES
    mounted,    \* a swap file is in use
    mem,        \* the contents of the memory
    busy,       \* a request is being served
    call,       \* the request
    pos,        \* bytes of it served so far
    res         \* the word read so far, zero where bytes are missing

fmVars == <<mounted, mem, busy, call, pos, res>>

NoCall == [op |-> "none", addr |-> 0, width |-> 0, word |-> Zeros(0)]
Blank == [a \in Addresses |-> 0]

FMInit ==
    /\ mounted = FALSE
    /\ mem = Blank
    /\ busy = FALSE /\ call = NoCall /\ pos = 0 /\ res = Zeros(0)

(* A fresh swap file: its bytes are whatever the card held, the last is 0. *)
Mount ==
    /\ ~busy
    /\ mounted' = TRUE
    /\ \E m \in [Addresses -> Byte] : m[SwapSize - 1] = 0 /\ mem' = m
    /\ UNCHANGED <<busy, call, pos, res>>

Unmount ==
    /\ ~busy
    /\ mounted' = FALSE
    /\ mem' = Blank
    /\ UNCHANGED <<busy, call, pos, res>>

Request(c) ==
    /\ ~busy
    /\ busy' = TRUE
    /\ call' = c
    /\ pos' = IF mounted /\ InRange(c) THEN 0 ELSE c.width
    /\ res' = Zeros(c.width)
    /\ UNCHANGED <<mounted, mem>>

Transfer ==
    /\ busy /\ pos < call.width
    /\ pos' = pos + Span(call)
    /\ \/ /\ call.op = "read"
          /\ res' = [i \in DOMAIN res |->
                        IF i \in Served(call, pos) THEN mem[call.addr + i] ELSE res[i]]
          /\ UNCHANGED mem
       \/ /\ call.op = "write"
          /\ mem' = [a \in Addresses |->
                        IF a - call.addr \in Served(call, pos)
                        THEN call.word[a - call.addr] ELSE mem[a]]
          /\ UNCHANGED res
    /\ UNCHANGED <<mounted, busy, call>>

Lose ==
    /\ busy /\ pos < call.width
    /\ pos' = pos + Span(call)
    /\ UNCHANGED <<mounted, mem, busy, call, res>>

Answer ==
    /\ busy /\ pos = call.width
    /\ busy' = FALSE /\ call' = NoCall /\ pos' = 0 /\ res' = Zeros(0)
    /\ UNCHANGED <<mounted, mem>>

FMNext ==
    \/ Mount \/ Unmount
    \/ \E c \in ClientRequests : Request(c)
    \/ Transfer \/ Lose \/ Answer

FMSpec == FMInit /\ [][FMNext]_fmVars
=============================================================================
