----------------------------- MODULE ByteStream -----------------------------
(***************************************************************************)
(* What a pipe between two programs promises: the reader receives the      *)
(* bytes the writer sent, each once and none invented, and is told the     *)
(* stream has ended only when the writer has closed its end and every byte *)
(* sent has been received.  The bytes keep their order because they pass   *)
(* through one queue, so counting them is enough.                          *)
(***************************************************************************)
EXTENDS Naturals

VARIABLES
    sent,       \* bytes the writer has put in
    got,        \* bytes the reader has taken out
    ended,      \* the writer's end is closed, or was never opened
    eof         \* the reader has been told that there is no more

bsVars == <<sent, got, ended, eof>>

BSInit == sent = 0 /\ got = 0 /\ ended \in BOOLEAN /\ eof = FALSE

Send == ~ended /\ sent' = sent + 1 /\ UNCHANGED <<got, ended, eof>>
Receive ==
    /\ ~eof
    /\ \E n \in 1..(sent - got) : got' = got + n
    /\ UNCHANGED <<sent, ended, eof>>
End == ended' = TRUE /\ UNCHANGED <<sent, got, eof>>
SeeEnd == ended /\ got = sent /\ eof' = TRUE /\ UNCHANGED <<sent, got, ended>>

BSNext == Send \/ Receive \/ End \/ SeeEnd

BSSpec == BSInit /\ [][BSNext]_bsVars
=============================================================================
