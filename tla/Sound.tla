-------------------------------- MODULE Sound --------------------------------
(***************************************************************************)
(* PCM sound in the I2S build: a player (wav.c; MOSAudio.c of ay is the     *)
(* same) fills chunks on core 0 and links them into a list, pcm_call of     *)
(* sound.c takes the samples on core 1 and asks the player's call-back for  *)
(* the next chunk.  The cores share plain volatile variables and no lock:   *)
(* each step is one access of one core to what they share.                  *)
(***************************************************************************)
EXTENDS Naturals, Sequences, FiniteSets

CONSTANTS
    MaxChunks,     \* bound on the chunks allocated for a file
    ChunkLen,      \* frames of a chunk
    MaxLive        \* chunks that fit in memory
ASSUME SoundAssumption ==
    /\ MaxChunks \in Nat \ {0} /\ ChunkLen \in Nat \ {0}
    /\ MaxLive \in Nat /\ MaxLive > 2

Ids == 1..MaxChunks
NULL == 0
Old == MaxChunks + 1     \* the buffer a former player left in m_buff
OldLen == ChunkLen + 1   \* and its frames
Buffers == Ids \cup {Old}
Unused == [state |-> "EMPTY", next |-> NULL, freed |-> TRUE]

VARIABLES
    eight,                  \* the file has 8 bits per sample: two chunks come of each read
    nodes, made,            \* the list's nodes with their chunks; how many were allocated
    pipe, pipe2cleanup, last_created,                        \* statics of the player
    m_cb, m_buff, m_channels, m_off, m_size, m_let, timer,   \* statics of sound.c
    pc0, n, back, head,     \* the player: its new node, try_cleanup_it's return and next
    pc1, off, base, cur, ret,   \* pcm_call and the call-back, and their locals
    begun                   \* the chunks core 1 was given

ListVars == <<eight, nodes, made, pipe, pipe2cleanup, last_created>>
PcmVars == <<m_cb, m_buff, m_channels, m_off, m_size, m_let, timer>>
Core0 == <<pc0, n, back, head>>
Core1 == <<pc1, off, base, cur, ret>>
vars == <<ListVars, PcmVars, Core0, Core1, begun>>

(* Whatever a former player left; its pcm_cleanup has cleared m_channels. *)
Init ==
    /\ eight \in BOOLEAN
    /\ nodes = [i \in Ids |-> Unused] /\ made = 0
    /\ pipe = NULL /\ pipe2cleanup = NULL /\ last_created = NULL
    /\ m_cb \in BOOLEAN /\ m_channels = FALSE /\ m_let = FALSE /\ timer = FALSE
    /\ m_buff \in {NULL, Old} /\ m_off \in 0..OldLen /\ m_size \in {0, OldLen}
    /\ pc0 = "setup" /\ n = NULL /\ back = "loop" /\ head = NULL
    /\ pc1 = "wait" /\ off = 0 /\ base = NULL /\ cur = NULL /\ ret = NULL
    /\ begun = <<>>

Live == {i \in Ids : i <= made /\ ~nodes[i].freed}
NoRoom == Cardinality(Live) >= MaxLive
Go0(p) == pc0' = p
Go1(p) == pc1' = p

-----------------------------------------------------------------------------
(* Core 0, the player. *)
pcm_setup ==
    /\ pc0 = "setup" /\ Go0("loop")
    /\ timer' = TRUE /\ m_let' = FALSE
    /\ UNCHANGED <<ListVars, m_cb, m_buff, m_channels, m_off, m_size, n, back, head, Core1, begun>>

(* The loop goes on until Escape or a signal. *)
Turn ==
    /\ pc0 = "loop" /\ pc0' \in {"memory", "final"}
    /\ UNCHANGED <<ListVars, PcmVars, n, back, head, Core1, begun>>

(* A chunk is allocated when there is memory, after cleaning up; it is read *)
(* from the file, which may end.                                            *)
Allocated(i, s) == nodes' = [nodes EXCEPT ![i] = [state |-> s, next |-> NULL, freed |-> FALSE]]
Cleaning(p) == back' = p /\ Go0("state")
Allocate ==
    /\ pc0 = "memory"
    /\ IF NoRoom THEN Cleaning("memory") /\ UNCHANGED <<nodes, made, n>>
       ELSE /\ made < MaxChunks /\ made' = made + 1 /\ n' = made + 1
            /\ Allocated(made + 1, "LOADING_STARTED")
            /\ Go0("read") /\ UNCHANGED back
    /\ UNCHANGED <<eight, pipe, pipe2cleanup, last_created, PcmVars, head, Core1, begun>>
SetState(i, s) == nodes' = [nodes EXCEPT ![i].state = s]
f_read ==
    /\ pc0 = "read"
    /\ \/ SetState(n, "EMPTY") /\ Go0("final")
       \/ eight /\ Go0("second") /\ UNCHANGED nodes
       \/ ~eight /\ SetState(n, "FILLED") /\ Go0("publish")
    /\ UNCHANGED <<eight, made, pipe, pipe2cleanup, last_created, PcmVars, n, back, head, Core1, begun>>

(* The second chunk of 8-bit samples, convert2int16buff. *)
ConvertedLeftLoading(i) ==
    nodes' = [nodes EXCEPT ![n] = [@ EXCEPT !.state = "FILLED", !.next = i],
                           ![i] = [state |-> "LOADING_STARTED", next |-> NULL, freed |-> FALSE]]
Converted(i) ==
    nodes' = [nodes EXCEPT ![n] = [@ EXCEPT !.state = "FILLED", !.next = i],
                           ![i] = [state |-> "FILLED", next |-> NULL, freed |-> FALSE]]
convert2int16buff ==
    /\ pc0 = "second"
    /\ IF NoRoom THEN Cleaning("second") /\ UNCHANGED <<nodes, made>>
       ELSE /\ made < MaxChunks /\ made' = made + 1
            /\ Converted(made + 1)
            /\ Go0("publish") /\ UNCHANGED back
    /\ UNCHANGED <<eight, pipe, pipe2cleanup, last_created, PcmVars, n, head, Core1, begun>>

(* The first chunk, or the first after the list has run dry, is published   *)
(* with pcm_set_buffer, assignment by assignment.                           *)
Publish ==
    /\ pc0 = "publish"
    /\ IF pipe = NULL THEN pipe' = n /\ pipe2cleanup' = n /\ Go0("cb")
       ELSE Go0("link") /\ UNCHANGED <<pipe, pipe2cleanup>>
    /\ UNCHANGED <<eight, nodes, made, last_created, PcmVars, n, back, head, Core1, begun>>
SetNoSize == m_size' = m_size /\ UNCHANGED <<m_cb, m_buff, m_channels, m_off, begun>>
SetSizeZero == m_size' = 0 /\ UNCHANGED <<m_cb, m_buff, m_channels, m_off, begun>>
Assignment ==
    \/ pc0 = "cb" /\ m_cb' = TRUE /\ Go0("size0") /\ UNCHANGED <<m_buff, m_channels, m_off, m_size, begun>>
    \/ pc0 = "size0" /\ SetSizeZero /\ Go0("buff")
    \/ pc0 = "buff" /\ m_buff' = n /\ begun' = Append(begun, n) /\ Go0("channels")
       /\ UNCHANGED <<m_cb, m_channels, m_off, m_size>>
    \/ pc0 = "channels" /\ m_channels' = TRUE /\ Go0("off") /\ UNCHANGED <<m_cb, m_buff, m_off, m_size, begun>>
    \/ pc0 = "off" /\ m_off' = 0 /\ Go0("size") /\ UNCHANGED <<m_cb, m_buff, m_channels, m_size, begun>>
    \/ pc0 = "size" /\ m_size' = ChunkLen /\ Go0("link") /\ UNCHANGED <<m_cb, m_buff, m_channels, m_off, begun>>
pcm_set_buffer ==
    Assignment /\ UNCHANGED <<ListVars, m_let, timer, n, back, head, Core1>>

Link ==
    /\ pc0 = "link" /\ Cleaning("loop")
    /\ nodes' = IF last_created = NULL THEN nodes ELSE [nodes EXCEPT ![last_created].next = n]
    /\ last_created' = IF eight THEN n + 1 ELSE n
    /\ UNCHANGED <<eight, made, pipe, pipe2cleanup, PcmVars, n, head, Core1, begun>>

(* try_cleanup_it: played chunks go, but for the last one. *)
PlayedOrLocked == nodes[pipe2cleanup].state \in {"LOCKED", "PROCESSED"}
Played == nodes[pipe2cleanup].state = "PROCESSED"
try_cleanup_it ==
    \/ /\ pc0 = "state" /\ Go0(IF Played THEN "next" ELSE back)
       /\ UNCHANGED <<nodes, pipe2cleanup, head>>
    \/ /\ pc0 = "next"
       /\ head' = nodes[pipe2cleanup].next
       /\ Go0(IF head' = NULL THEN back ELSE "free")
       /\ UNCHANGED <<nodes, pipe2cleanup>>
    \/ /\ pc0 = "free"
       /\ nodes' = [nodes EXCEPT ![pipe2cleanup].freed = TRUE]
       /\ pipe2cleanup' = head /\ Go0("state")
       /\ UNCHANGED head
Cleanup ==
    /\ try_cleanup_it
    /\ UNCHANGED <<eight, made, pipe, last_created, PcmVars, n, back, Core1, begun>>

(* The end of the player: each chunk is freed once it is the one played,    *)
(* and it spins until then.  Then pcm_cleanup.                              *)
Final ==
    /\ pc0 = "final"
    /\ IF pipe2cleanup = NULL THEN Go0("cleanup") /\ UNCHANGED <<nodes, pipe2cleanup>>
       ELSE /\ nodes[pipe2cleanup].state = "LOCKED"
            /\ nodes' = [nodes EXCEPT ![pipe2cleanup].freed = TRUE]
            /\ pipe2cleanup' = nodes[pipe2cleanup].next
            /\ UNCHANGED pc0
    /\ UNCHANGED <<eight, made, pipe, last_created, PcmVars, n, back, head, Core1, begun>>
pcm_cleanup ==
    /\ pc0 = "cleanup" /\ Go0("done")
    /\ timer' = FALSE /\ m_channels' = FALSE /\ m_let' = FALSE
    /\ UNCHANGED <<ListVars, m_cb, m_buff, m_off, m_size, n, back, head, Core1, begun>>

Player ==
    \/ pcm_setup \/ Turn \/ Allocate \/ f_read \/ convert2int16buff \/ Publish
    \/ pcm_set_buffer \/ Link \/ Cleanup \/ Final \/ pcm_cleanup

-----------------------------------------------------------------------------
(* Core 1: pcm_call takes one frame each time the timer lets it. *)
timer_callback ==
    /\ timer /\ ~m_let /\ m_let' = TRUE
    /\ UNCHANGED <<ListVars, m_cb, m_buff, m_channels, m_off, m_size, timer, Core0, Core1, begun>>

Frame ==
    \/ pc1 = "wait" /\ m_channels /\ m_let /\ Go1("buff") /\ UNCHANGED <<m_off, m_let, off, base>>
    \/ pc1 = "buff" /\ Go1(IF m_buff = NULL THEN "end" ELSE "off") /\ UNCHANGED <<m_off, m_let, off, base>>
    \/ pc1 = "off" /\ off' = m_off /\ Go1("size") /\ UNCHANGED <<m_off, m_let, base>>
    \/ pc1 = "size" /\ Go1(IF off < m_size THEN "base" ELSE "end") /\ UNCHANGED <<m_off, m_let, off, base>>
    \/ pc1 = "base" /\ base' = m_buff /\ Go1("sample") /\ UNCHANGED <<m_off, m_let, off>>
    \/ pc1 = "sample" /\ m_off' = m_off + 1 /\ Go1("over") /\ UNCHANGED <<m_let, off, base>>
    \/ pc1 = "over" /\ Go1(IF m_cb /\ m_off >= m_size THEN "pipe" ELSE "end")
       /\ UNCHANGED <<m_off, m_let, off, base>>
    \/ pc1 = "end" /\ m_let' = FALSE /\ Go1("wait") /\ off' = 0 /\ base' = NULL /\ UNCHANGED m_off
pcm_call ==
    /\ Frame
    /\ UNCHANGED <<ListVars, m_cb, m_buff, m_channels, m_size, timer, Core0, cur, ret, begun>>

(* pcm_end_callback: the played chunk is marked, the next one awaited.      *)
(* What it reads of a node that has been freed is what was there, or zero   *)
(* when the memory is in use again, or a wild pointer.                      *)
NextOf(i) == IF nodes[i].freed THEN {nodes[i].next, NULL, Old} ELSE {nodes[i].next}
Size == ChunkLen
PipeCleared == pipe' = NULL
PipeKept == UNCHANGED pipe
pcm_end_callback ==
    \/ /\ pc1 = "pipe" /\ cur' = pipe
       /\ Go1(IF pipe = NULL THEN "zero" ELSE "processed")
       /\ UNCHANGED <<nodes, pipe, m_size, ret>>
    \/ /\ pc1 = "processed"
       /\ nodes' = IF nodes[cur].freed THEN nodes ELSE [nodes EXCEPT ![cur].state = "PROCESSED"]
       /\ PipeKept /\ Go1("next") /\ UNCHANGED <<m_size, cur, ret>>
    \/ /\ pc1 = "next"
       /\ \E x \in NextOf(cur) :
            CASE x = NULL -> Go1("dry") /\ UNCHANGED <<pipe, cur>>
              [] x = Old  -> Go1("fault") /\ UNCHANGED <<pipe, cur>>
              [] OTHER    -> pipe' = x /\ cur' = x /\ Go1("filled")
       /\ UNCHANGED <<nodes, m_size, ret>>
    \/ pc1 = "dry" /\ pipe' = NULL /\ Go1("zero") /\ UNCHANGED <<nodes, m_size, cur, ret>>
    \/ pc1 = "zero" /\ m_size' = 0 /\ ret' = NULL /\ Go1("set") /\ UNCHANGED <<nodes, pipe, cur>>
    \/ /\ pc1 = "filled" /\ nodes[cur].state = "FILLED"
       /\ m_size' = Size /\ Go1("lock") /\ UNCHANGED <<nodes, pipe, cur, ret>>
    \/ pc1 = "lock" /\ SetState(cur, "LOCKED") /\ ret' = cur /\ Go1("set") /\ UNCHANGED <<pipe, m_size, cur>>
CallBack ==
    /\ pcm_end_callback
    /\ UNCHANGED <<eight, made, pipe2cleanup, last_created, m_cb, m_buff, m_channels, m_off, m_let, timer,
                   Core0, off, base, begun>>

(* Back in pcm_call. *)
Switch ==
    /\ \/ /\ pc1 = "set" /\ m_buff' = ret /\ Go1("rewind") /\ UNCHANGED m_off
          /\ begun' = IF ret = NULL THEN begun ELSE Append(begun, ret)
       \/ pc1 = "rewind" /\ m_off' = 0 /\ Go1("end") /\ UNCHANGED <<m_buff, begun>>
    /\ cur' = NULL /\ ret' = NULL
    /\ UNCHANGED <<ListVars, m_cb, m_channels, m_size, m_let, timer, Core0, off, base>>

Output == pcm_call \/ CallBack \/ Switch
Next == Player \/ timer_callback \/ Output

(* Core 1 runs and its timer fires; the player need not go on. *)
Spec == Init /\ [][Next]_vars
LiveSpec == Spec /\ WF_vars(Output)

-----------------------------------------------------------------------------
States == {"EMPTY", "LOADING_STARTED", "FILLED", "LOCKED", "PROCESSED"}
Node == [state : States, next : Ids \cup {NULL}, freed : BOOLEAN]
SoundTypeOK ==
    /\ nodes \in [Ids -> Node] /\ made \in 0..MaxChunks
    /\ pipe \in Ids \cup {NULL} /\ n \in Ids \cup {NULL} /\ cur \in Ids \cup {NULL} /\ ret \in Ids \cup {NULL}
    /\ m_buff \in Buffers \cup {NULL} /\ m_off \in 0..OldLen /\ m_size \in {0, ChunkLen, OldLen}
    /\ m_channels \in BOOLEAN /\ off \in 0..OldLen /\ base \in Buffers \cup {NULL}
    /\ back \in {"loop", "memory", "second"}

(* Core 1 never reads past a chunk, whatever offset and size the last one   *)
(* left: pcm_set_buffer takes the size away first and gives it back last.   *)
ReadsInBounds == pc1 = "sample" => base \in Ids /\ m_off < ChunkLen

(* The reason: core 1 stands still until there are channels, by then what a *)
(* former player left has gone, and the offset it compared with the size is *)
(* still the one it reads at, unless it has become 0 meanwhile.             *)
OldGone ==
    /\ ~m_channels /\ pc0 # "done" => pc1 = "wait"
    /\ m_channels \/ pc1 # "wait" \/ pc0 = "channels" => m_size # OldLen /\ m_buff # Old
    /\ pc0 = "buff" => m_size # OldLen
HasNode ==
    \/ pc0 \in {"read", "second", "publish", "cb", "size0", "buff", "channels", "off", "size", "link"}
    \/ pc0 \in {"state", "next", "free"} /\ back = "second"
Compared ==
    /\ HasNode => n \in Ids
    /\ pc1 \in {"processed", "next", "filled", "lock"} => cur \in Ids
    /\ pc1 \in {"off", "size", "base"} => m_buff \in Ids
    /\ pc1 \in {"size", "base", "sample"} => m_off \in {0, off}
    /\ pc1 \in {"base", "sample"} => off < ChunkLen
SoundInv == SoundTypeOK /\ OldGone /\ Compared /\ ReadsInBounds

(* While the file is read no chunk is freed that core 1 may read. *)
ReadsLive == pc1 = "sample" /\ pc0 \notin {"final", "cleanup", "done"} => base \in Live

(* The chunks are played in the order of the file and none twice, whether   *)
(* the list ran dry in between, or a node was freed under the call-back.    *)
InOrder == \A i, j \in 1..Len(begun) : i < j => begun[i] < begun[j]

(* Core 1, which also draws the screen, never waits for core 0 in the       *)
(* call-back: what is linked is filled.                                     *)
CallBackReturns == pc1 # "wait" ~> pc1 \in {"wait", "fault"}
=============================================================================
