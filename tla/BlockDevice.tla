----------------------------- MODULE BlockDevice -----------------------------
(***************************************************************************)
(* What the sectors of the card are to FatFs and to the USB call-backs: a   *)
(* call reads or writes sectors one after another, at the sectors asked     *)
(* for; it may fail at any point, but when it says RES_OK all of it has     *)
(* been done, and after a CTRL_SYNC that says so a power failure loses      *)
(* nothing.                                                                *)
(***************************************************************************)
EXTENDS Naturals, Sequences

CONSTANTS NSectors, Data, Torn

Sectors == 0..(NSectors - 1)
Content == Data \cup {Torn}

VARIABLES
    disk,     \* [Sectors -> Content]
    unsafe,   \* the sectors a power failure may still spoil
    call,     \* the request being served and what has been done of it
    res       \* how the last call ended
vars == <<disk, unsafe, call, res>>

Request(op, s, n, d) == [op |-> op, at |-> s, n |-> n, data |-> d, got |-> <<>>, done |-> 0]
NoCall == Request("none", 0, 0, <<>>)

Init == disk \in [Sectors -> Content] /\ unsafe = {} /\ call = NoCall /\ res = "ok"

Begin ==
    /\ call = NoCall
    /\ \/ \E s \in Sectors, n \in 1..NSectors :
           /\ s + n <= NSectors
           /\ \/ call' = Request("read", s, n, <<>>)
              \/ \E d \in [1..n -> Data] : call' = Request("write", s, n, d)
       \/ \E op \in {"sync", "count", "init"} : call' = Request(op, 0, 0, <<>>)
    /\ UNCHANGED <<disk, unsafe, res>>

ReadSector ==
    /\ call.op = "read" /\ Len(call.got) < call.n
    /\ call' = [call EXCEPT !.got = Append(@, disk[call.at + Len(call.got)])]
    /\ UNCHANGED <<disk, unsafe, res>>

WriteSector ==
    LET s == call.at + call.done IN
    /\ call.op = "write" /\ call.done < call.n
    /\ disk' = [disk EXCEPT ![s] = call.data[call.done + 1]]
    /\ unsafe' = unsafe \cup {s}
    /\ call' = [call EXCEPT !.done = @ + 1]
    /\ UNCHANGED res

Settle == unsafe # {} /\ unsafe' \in SUBSET unsafe /\ UNCHANGED <<disk, call, res>>

Fulfilled ==
    /\ call.op = "read" => Len(call.got) = call.n
    /\ call.op = "write" => call.done = call.n
    /\ call.op = "sync" => unsafe = {}
Return ==
    /\ call' = NoCall
    /\ res' = "error" \/ (res' = "ok" /\ call # NoCall /\ Fulfilled)
    /\ UNCHANGED <<disk, unsafe>>

PowerFails ==
    /\ call' = NoCall /\ unsafe' = {}
    /\ disk' \in {d \in [Sectors -> Content] : \A s \in Sectors \ unsafe : d[s] = disk[s]}
    /\ UNCHANGED res
Swap ==
    /\ disk' \in [Sectors -> Content] /\ unsafe' = {}
    /\ UNCHANGED <<call, res>>

Next == Begin \/ ReadSector \/ WriteSector \/ Settle \/ Return \/ PowerFails \/ Swap
Spec == Init /\ [][Next]_vars
=============================================================================
