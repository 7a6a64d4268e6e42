---------------------------- MODULE Sound_proofs ----------------------------
(***************************************************************************)
(* Core 1 never reads past a chunk, plays the chunks in their order, none   *)
(* twice, and while the file is read takes samples of none that has been    *)
(* freed, however many chunks there are, however long they are and whatever *)
(* the two cores' accesses interleave to.                                   *)
(***************************************************************************)
EXTENDS Sound, FiniteSetTheorems, SequenceTheorems, TLAPS

LEMMA InitInv == Init => SoundInv
<1> SUFFICES ASSUME Init PROVE SoundInv
  OBVIOUS
<1> USE SoundAssumption
<1>1. nodes \in [Ids -> Node]
  BY DEF Init, Unused, Node, States, NULL
<1>2. SoundTypeOK
  <2>1. OldLen \in Nat /\ 0 \in 0..OldLen /\ 0 \in 0..MaxChunks
    BY DEF OldLen
  <2>2. m_buff \in Buffers \cup {NULL} /\ m_off \in 0..OldLen /\ m_size \in {0, ChunkLen, OldLen} /\ made = 0
    BY DEF Init, Buffers
  <2>3. m_channels = FALSE /\ off = 0 /\ back = "loop" /\ {pipe, n, cur, ret, base} = {NULL}
    BY DEF Init
  <2> QED BY <1>1, <2>1, <2>2, <2>3 DEF SoundTypeOK
<1>3. OldGone /\ Compared /\ ReadsInBounds
  BY DEF Init, OldGone, Compared, HasNode, ReadsInBounds
<1> QED BY <1>2, <1>3 DEF SoundInv

-----------------------------------------------------------------------------
(* Most of the player's steps touch neither sound.c's variables nor core 1. *)
LEMMA PlayerKeeps ==
    ASSUME SoundInv, UNCHANGED <<pipe, m_buff, m_off, m_size, m_channels, Core1>>,
           nodes' \in [Ids -> Node], made' \in 0..MaxChunks, n' \in Ids \cup {NULL},
           back' \in {"loop", "memory", "second"},
           pc0' \notin {"buff", "channels"}, pc0 # "done", HasNode' => n' \in Ids
    PROVE  SoundInv'
BY DEF SoundInv, SoundTypeOK, OldGone, Compared, ReadsInBounds, Core1

LEMMA NodesTyped ==
    ASSUME nodes \in [Ids -> Node]
    PROVE  /\ \A i, s : s \in States /\ SetState(i, s) => nodes' \in [Ids -> Node]
           /\ \A i, s : s \in States /\ Allocated(i, s) => nodes' \in [Ids -> Node]
           /\ \A i \in Ids : Converted(i) => nodes' \in [Ids -> Node]
           /\ \A i, v : v \in Ids \cup {NULL} => [nodes EXCEPT ![i].next = v] \in [Ids -> Node]
           /\ \A i : [nodes EXCEPT ![i].freed = TRUE] \in [Ids -> Node]
<1>1. \A i, s : s \in States /\ SetState(i, s) => nodes' \in [Ids -> Node]
  BY DEF SetState, Node
<1>2. \A i, s : s \in States /\ Allocated(i, s) => nodes' \in [Ids -> Node]
  <2>1. \A s \in States : [state |-> s, next |-> NULL, freed |-> FALSE] \in Node
    BY DEF Node
  <2> QED BY <2>1 DEF Allocated
<1>3. \A i \in Ids : Converted(i) => nodes' \in [Ids -> Node]
  <2> TAKE i \in Ids
  <2> HAVE Converted(i)
  <2> DEFINE r == [nodes[n] EXCEPT !.state = "FILLED", !.next = i]
             q == [state |-> "FILLED", next |-> NULL, freed |-> FALSE]
             m == [nodes EXCEPT ![n] = r]
  <2>1. nodes' = [m EXCEPT ![i] = q]
    BY DEF Converted
  <2>2. q \in Node
    BY DEF Node, States
  <2>3. m \in [Ids -> Node]
    <3>1. CASE n \in Ids
      <4>1. nodes[n] \in Node
        BY <3>1
      <4>2. r \in Node
        BY <4>1 DEF Node, States
      <4> QED BY <4>2
    <3>2. CASE n \notin Ids
      BY <3>2
    <3> QED BY <3>1, <3>2
  <2> HIDE DEF m, q
  <2> QED BY <2>1, <2>2, <2>3
<1>4. \A i, v : v \in Ids \cup {NULL} => [nodes EXCEPT ![i].next = v] \in [Ids -> Node]
  BY DEF Node
<1>5. \A i : [nodes EXCEPT ![i].freed = TRUE] \in [Ids -> Node]
  BY DEF Node
<1> QED BY <1>1, <1>2, <1>3, <1>4, <1>5

LEMMA PlayerInv ==
    ASSUME SoundInv, Player
    PROVE  SoundInv'
<1> USE SoundAssumption DEF Go0, ListVars, PcmVars
<1>0. SoundTypeOK /\ OldGone /\ Compared /\ nodes \in [Ids -> Node] /\ made \in 0..MaxChunks
      /\ n \in Ids \cup {NULL} /\ back \in {"loop", "memory", "second"}
  BY DEF SoundInv, SoundTypeOK
<1>1. CASE pcm_setup \/ Turn
  BY <1>0, <1>1, PlayerKeeps DEF pcm_setup, Turn, HasNode
<1>2. CASE Allocate
  <2>1. CASE NoRoom
    BY <1>0, <1>2, <2>1, PlayerKeeps DEF Allocate, Cleaning, HasNode
  <2>2. CASE ~NoRoom
    <3>1. made + 1 \in Ids /\ made' = made + 1 /\ n' = made + 1 /\ pc0' = "read" /\ pc0 = "memory" /\ back' = back
          /\ Allocated(made + 1, "LOADING_STARTED") /\ UNCHANGED <<pipe, m_buff, m_off, m_size, m_channels, Core1>>
      BY <1>0, <1>2, <2>2 DEF Allocate, Ids
    <3>2. nodes' \in [Ids -> Node] /\ made' \in 0..MaxChunks
      BY <1>0, <3>1, NodesTyped DEF States, Ids
    <3> QED BY <1>0, <3>1, <3>2, PlayerKeeps
  <2> QED BY <2>1, <2>2
<1>3. CASE f_read
  <2>1. nodes' \in [Ids -> Node]
    BY <1>0, <1>3, NodesTyped DEF f_read, States
  <2>2. pc0' \in {"final", "second", "publish"} /\ pc0 = "read" /\ UNCHANGED <<made, n, back>>
        /\ UNCHANGED <<pipe, m_buff, m_off, m_size, m_channels, Core1>>
    BY <1>3 DEF f_read
  <2>3. n \in Ids
    BY <1>0, <2>2 DEF Compared, HasNode
  <2> QED BY <1>0, <2>1, <2>2, <2>3, PlayerKeeps
<1>4. CASE convert2int16buff
  <2>1. n \in Ids
    BY <1>0, <1>4 DEF Compared, HasNode, convert2int16buff
  <2>2. nodes' \in [Ids -> Node] /\ made' \in 0..MaxChunks
    <3>1. CASE NoRoom
      BY <1>0, <1>4, <3>1 DEF convert2int16buff
    <3>2. CASE ~NoRoom
      <4>1. made + 1 \in Ids /\ Converted(made + 1) /\ made' = made + 1
        BY <1>0, <1>4, <3>2 DEF convert2int16buff, Ids
      <4> QED BY <1>0, <4>1, NodesTyped DEF Ids
    <3> QED BY <3>1, <3>2
  <2>3. pc0' \in {"state", "publish"} /\ pc0 = "second" /\ n' = n /\ back' \in {"second", back}
        /\ UNCHANGED <<pipe, m_buff, m_off, m_size, m_channels, Core1>>
    BY <1>4 DEF convert2int16buff, Cleaning
  <2> QED BY <1>0, <2>1, <2>2, <2>3, PlayerKeeps
<1>5. CASE Publish
  <2>1. n \in Ids
    BY <1>0, <1>5 DEF Compared, HasNode, Publish
  <2>2. pc0' \in {"cb", "link"} /\ pc0 = "publish" /\ pipe' \in {pipe, n}
        /\ UNCHANGED <<nodes, made, n, back, m_buff, m_off, m_size, m_channels, Core1>>
    BY <1>5 DEF Publish
  <2> QED BY <1>0, <2>1, <2>2 DEF SoundInv, SoundTypeOK, OldGone, Compared, HasNode, ReadsInBounds, Core1
<1>6. CASE pcm_set_buffer
  <2>1. n \in Ids
    BY <1>0, <1>6 DEF Compared, HasNode, pcm_set_buffer, Assignment
  <2>2. UNCHANGED <<nodes, made, pipe, n, back, Core1>>
    BY <1>6 DEF pcm_set_buffer
  <2>3. CASE pc0 = "cb" /\ pc0' = "size0" /\ UNCHANGED <<m_buff, m_off, m_size, m_channels>>
    BY <1>0, <2>1, <2>2, <2>3, PlayerKeeps
  <2>4. CASE pc0 = "size0" /\ pc0' = "buff" /\ m_size' = 0 /\ UNCHANGED <<m_buff, m_off, m_channels>>
    BY <1>0, <2>1, <2>2, <2>4 DEF SoundInv, SoundTypeOK, OldGone, Compared, ReadsInBounds, Core1, OldLen
  <2>5. CASE pc0 = "buff" /\ pc0' = "channels" /\ m_buff' = n /\ UNCHANGED <<m_size, m_off, m_channels>>
    BY <1>0, <2>1, <2>2, <2>5 DEF SoundInv, SoundTypeOK, OldGone, Compared, ReadsInBounds, Core1, Old, Ids, Buffers
  <2>6. CASE pc0 = "channels" /\ pc0' = "off" /\ m_channels' = TRUE /\ UNCHANGED <<m_buff, m_size, m_off>>
    BY <1>0, <2>1, <2>2, <2>6 DEF SoundInv, SoundTypeOK, OldGone, Compared, ReadsInBounds, Core1
  <2>7. CASE pc0 = "off" /\ pc0' = "size" /\ m_off' = 0 /\ UNCHANGED <<m_buff, m_size, m_channels>>
    BY <1>0, <2>1, <2>2, <2>7 DEF SoundInv, SoundTypeOK, OldGone, Compared, ReadsInBounds, Core1, OldLen
  <2>8. CASE pc0 = "size" /\ pc0' = "link" /\ m_size' = ChunkLen /\ UNCHANGED <<m_buff, m_off, m_channels>>
    BY <1>0, <2>1, <2>2, <2>8 DEF SoundInv, SoundTypeOK, OldGone, Compared, ReadsInBounds, Core1, OldLen
  <2> QED BY <1>6, <2>3, <2>4, <2>5, <2>6, <2>7, <2>8 DEF pcm_set_buffer, Assignment, SetSizeZero
<1>7. CASE Link
  <2>1. pc0' = "state" /\ pc0 = "link" /\ back' = "loop" /\ UNCHANGED <<made, n>>
        /\ UNCHANGED <<pipe, m_buff, m_off, m_size, m_channels, Core1>>
    BY <1>7 DEF Link, Cleaning
  <2>2. nodes' \in [Ids -> Node]
    BY <1>0, <1>7, NodesTyped DEF Link
  <2> QED BY <1>0, <2>1, <2>2, PlayerKeeps DEF HasNode
<1>8. CASE Cleanup
  <2>1. nodes' \in [Ids -> Node]
    BY <1>0, <1>8, NodesTyped DEF Cleanup, try_cleanup_it
  <2>2. pc0 \in {"state", "next", "free"} /\ pc0' \in {"state", "next", "free", back} /\ UNCHANGED <<made, n, back>>
        /\ UNCHANGED <<pipe, m_buff, m_off, m_size, m_channels, Core1>>
    BY <1>8 DEF Cleanup, try_cleanup_it
  <2>3. HasNode' => n' \in Ids
    BY <1>0, <2>2 DEF HasNode, Compared
  <2> QED BY <1>0, <2>1, <2>2, <2>3, PlayerKeeps
<1>9. CASE Final
  <2>1. nodes' \in [Ids -> Node]
    BY <1>0, <1>9, NodesTyped DEF Final
  <2>2. pc0 = "final" /\ pc0' \in {"final", "cleanup"} /\ UNCHANGED <<made, n, back>>
        /\ UNCHANGED <<pipe, m_buff, m_off, m_size, m_channels, Core1>>
    BY <1>9 DEF Final
  <2> QED BY <1>0, <2>1, <2>2, PlayerKeeps DEF HasNode
<1>10. CASE pcm_cleanup
  <2>1. UNCHANGED <<nodes, made, pipe, n, back, pc1, cur, ret, off, base, m_buff, m_off, m_size>>
        /\ m_channels' = FALSE /\ pc0' = "done"
    BY <1>10 DEF pcm_cleanup, Core1
  <2>2. SoundTypeOK'
    BY <1>0, <2>1 DEF SoundTypeOK
  <2>3. OldGone'
    BY <1>0, <2>1 DEF OldGone
  <2>4. ~HasNode' /\ Compared' /\ ReadsInBounds'
    BY <2>1 DEF SoundInv, HasNode, Compared, ReadsInBounds
  <2> QED BY <2>2, <2>3, <2>4 DEF SoundInv
<1> QED BY <1>1, <1>2, <1>3, <1>4, <1>5, <1>6, <1>7, <1>8, <1>9, <1>10 DEF Player

-----------------------------------------------------------------------------
LEMMA OutputInv ==
    ASSUME SoundInv, Output
    PROVE  SoundInv'
<1> USE SoundAssumption DEF Go1, ListVars, PcmVars, Core0
<1>0. SoundTypeOK /\ OldGone /\ Compared /\ ReadsInBounds /\ nodes \in [Ids -> Node]
  BY DEF SoundInv, SoundTypeOK
<1>1. CASE pcm_call
  <2>1. UNCHANGED <<nodes, made, pipe, n, back, pc0, cur, ret, m_buff, m_size, m_channels>>
    BY <1>1 DEF pcm_call
  <2>2. CASE pc1 = "wait" /\ m_channels /\ pc1' = "buff" /\ UNCHANGED <<m_off, off, base>>
    BY <1>0, <2>1, <2>2 DEF SoundInv, SoundTypeOK, OldGone, Compared, HasNode, ReadsInBounds
  <2>3. CASE pc1 = "buff" /\ pc1' = (IF m_buff = NULL THEN "end" ELSE "off") /\ UNCHANGED <<m_off, off, base>>
    BY <1>0, <2>1, <2>3 DEF SoundInv, SoundTypeOK, OldGone, Compared, HasNode, ReadsInBounds, Buffers
  <2>4. CASE pc1 = "off" /\ off' = m_off /\ pc1' = "size" /\ UNCHANGED <<m_off, base>>
    BY <1>0, <2>1, <2>4 DEF SoundInv, SoundTypeOK, OldGone, Compared, HasNode, ReadsInBounds
  <2>5. CASE pc1 = "size" /\ pc1' = (IF off < m_size THEN "base" ELSE "end") /\ UNCHANGED <<m_off, off, base>>
    BY <1>0, <2>1, <2>5 DEF SoundInv, SoundTypeOK, OldGone, Compared, HasNode, ReadsInBounds, OldLen
  <2>6. CASE pc1 = "base" /\ base' = m_buff /\ pc1' = "sample" /\ UNCHANGED <<m_off, off>>
    BY <1>0, <2>1, <2>6 DEF SoundInv, SoundTypeOK, OldGone, Compared, HasNode, ReadsInBounds
  <2>7. CASE pc1 = "sample" /\ m_off' = m_off + 1 /\ pc1' = "over" /\ UNCHANGED <<off, base>>
    <3>1. m_off' \in 0..OldLen
      BY <1>0, <2>7 DEF ReadsInBounds, SoundTypeOK, OldLen
    <3> QED BY <1>0, <2>1, <2>7, <3>1 DEF SoundInv, SoundTypeOK, OldGone, Compared, HasNode, ReadsInBounds
  <2>8. CASE pc1 = "over" /\ pc1' \in {"pipe", "end"} /\ UNCHANGED <<m_off, off, base>>
    BY <1>0, <2>1, <2>8 DEF SoundInv, SoundTypeOK, OldGone, Compared, HasNode, ReadsInBounds
  <2>9. CASE pc1 = "end" /\ pc1' = "wait" /\ off' = 0 /\ base' = NULL /\ UNCHANGED m_off
    BY <1>0, <2>1, <2>9 DEF SoundInv, SoundTypeOK, OldGone, Compared, HasNode, ReadsInBounds, OldLen
  <2> QED BY <1>1, <2>2, <2>3, <2>4, <2>5, <2>6, <2>7, <2>8, <2>9 DEF pcm_call, Frame
<1>2. CASE CallBack
  <2>1. UNCHANGED <<made, n, back, pc0, m_buff, m_channels, m_off, off, base>>
    BY <1>2 DEF CallBack
  <2>2. nodes' \in [Ids -> Node]
    BY <1>0, <1>2, NodesTyped DEF CallBack, pcm_end_callback, Node, States
  <2>3. pc1 \in {"pipe", "processed", "next", "dry", "zero", "filled", "lock"}
        /\ pc1' \in {"zero", "processed", "next", "dry", "fault", "filled", "set", "lock"}
        /\ m_size' \in {m_size, 0, ChunkLen}
    BY <1>2 DEF CallBack, pcm_end_callback, Size, NextOf
  <2>4. /\ pipe' \in Ids \cup {NULL} /\ cur' \in Ids \cup {NULL} /\ ret' \in Ids \cup {NULL}
        /\ pc1' \in {"processed", "next", "filled", "lock"} => cur' \in Ids
    <3>1. CASE pc1 = "pipe" \/ pc1 = "processed"
      BY <1>0, <1>2, <3>1 DEF CallBack, pcm_end_callback, SoundTypeOK, Compared, PipeKept
    <3>2. CASE pc1 = "next"
      <4>1. cur \in Ids /\ nodes[cur].next \in Ids \cup {NULL}
        BY <1>0, <3>2 DEF Compared, Node
      <4>2. PICK x \in NextOf(cur) :
              CASE x = NULL -> pc1' = "dry" /\ UNCHANGED <<pipe, cur>>
                [] x = Old  -> pc1' = "fault" /\ UNCHANGED <<pipe, cur>>
                [] OTHER    -> pipe' = x /\ cur' = x /\ pc1' = "filled"
        BY <1>2, <3>2 DEF CallBack, pcm_end_callback
      <4>3. x \in Ids \cup {NULL, Old} /\ ret' = ret
        BY <1>2, <3>2, <4>1 DEF NextOf, CallBack, pcm_end_callback
      <4>4. CASE x = NULL \/ x = Old
        BY <1>0, <4>1, <4>2, <4>3, <4>4 DEF SoundTypeOK
      <4>5. CASE x # NULL /\ x # Old
        BY <1>0, <4>2, <4>3, <4>5 DEF SoundTypeOK
      <4> QED BY <4>4, <4>5
    <3>3. CASE pc1 \in {"dry", "zero", "filled", "lock"}
      BY <1>0, <1>2, <3>3 DEF CallBack, pcm_end_callback, SoundTypeOK, Compared
    <3> QED BY <2>3, <3>1, <3>2, <3>3
  <2> QED BY <1>0, <2>1, <2>2, <2>3, <2>4
          DEF SoundInv, SoundTypeOK, OldGone, Compared, HasNode, ReadsInBounds, OldLen
<1>3. CASE Switch
  <2>1. UNCHANGED <<nodes, made, pipe, n, back, pc0, m_size, m_channels, off, base>> /\ cur' = NULL /\ ret' = NULL
    BY <1>3 DEF Switch
  <2>2. CASE pc1 = "set" /\ m_buff' = ret /\ pc1' = "rewind" /\ UNCHANGED m_off
    <3>1. ret # Old /\ ret \in Buffers \cup {NULL}
      BY <1>0 DEF SoundTypeOK, Old, Ids, NULL, Buffers
    <3> QED BY <1>0, <2>1, <2>2, <3>1 DEF SoundInv, SoundTypeOK, OldGone, Compared, HasNode, ReadsInBounds
  <2>3. CASE pc1 = "rewind" /\ m_off' = 0 /\ pc1' = "end" /\ UNCHANGED m_buff
    BY <1>0, <2>1, <2>3 DEF SoundInv, SoundTypeOK, OldGone, Compared, HasNode, ReadsInBounds, OldLen
  <2> QED BY <1>3, <2>2, <2>3 DEF Switch
<1> QED BY <1>1, <1>2, <1>3 DEF Output

LEMMA NextInv ==
    ASSUME SoundInv, [Next]_vars
    PROVE  SoundInv'
<1>1. CASE Player
  BY <1>1, PlayerInv
<1>2. CASE Output
  BY <1>2, OutputInv
<1>3. CASE timer_callback \/ UNCHANGED vars
  <2>1. UNCHANGED <<nodes, made, pipe, n, back, pc0, pc1, cur, ret, off, base, m_buff, m_off, m_size, m_channels>>
    BY <1>3 DEF timer_callback, vars, ListVars, PcmVars, Core0, Core1
  <2> QED BY <2>1 DEF SoundInv, SoundTypeOK, OldGone, Compared, HasNode, ReadsInBounds
<1> QED BY <1>1, <1>2, <1>3 DEF Next

(* SoundInv holds always, for any number and length of chunks. *)
THEOREM SoundInvariant == Spec => []SoundInv
<1>1. Init => SoundInv
  BY InitInv
<1>2. SoundInv /\ [Next]_vars => SoundInv'
  BY NextInv
<1> QED BY <1>1, <1>2, PTL DEF Spec

(* Core 1 reads only within the chunks of the file being played. *)
THEOREM BoundsKept == Spec => []ReadsInBounds
<1>1. SoundInv => ReadsInBounds
  BY DEF SoundInv
<1> QED BY <1>1, SoundInvariant, PTL

-----------------------------------------------------------------------------
(* The order of the chunks.  Core 0 makes them one after another and links  *)
(* each to the one before it (Built); core 1 knows only those below Top.    *)
Fresh ==
    \/ pc0 \in {"read", "second", "publish"}
    \/ pc0 \in {"state", "next", "free"} /\ back = "second"
Setting == {"cb", "size0", "buff"}
Sized == {"channels", "off", "size"}
Linking == Setting \cup Sized \cup {"link"}
Ending == {"final", "cleanup", "done"}
Top == IF Fresh THEN n - 1 ELSE made

Built ==
    /\ Fresh \/ pc0 \in Linking =>
         n \in Ids /\ last_created = n - 1 /\ made = IF eight /\ pc0 \in Linking \cup {"publish"} THEN n + 1 ELSE n
    /\ ~Fresh /\ pc0 \notin Linking \cup Ending => last_created = made
    /\ last_created \in 0..made
    /\ pc0 = "second" \/ back = "second" => eight
    /\ \A i \in Ids : nodes[i].next \in {NULL, i + 1} /\ (i >= made => nodes[i].next = NULL)
    /\ Fresh => \A i \in Ids : i = n - 1 => nodes[i].next = NULL

(* Core 1 with nothing to play: it takes the buffer away, or finds none. *)
Quiet ==
    \/ pc1 = "zero" \/ (pc1 = "set" /\ ret = NULL)
    \/ pc1 \in {"rewind", "end", "wait", "buff"} /\ m_buff = NULL
    \/ pc1 = "wait" /\ ~m_channels
Phases ==
    /\ pipe = NULL \/ pc0 \in Setting => Quiet
    /\ pc0 \in Sized =>
         pc1 \in {"zero", "set", "rewind", "end", "wait", "buff", "off", "size"} /\ (pc1 = "set" => ret = NULL)
    /\ pc0 \in {"buff"} \cup Sized => m_size = 0

(* What core 1 was given so far lies before what it is given next. *)
Before(x) == \A i \in 1..Len(begun) : begun[i] < x
UpTo(x) == \A i \in 1..Len(begun) : begun[i] <= x
Taking == pc1 \in {"filled", "lock"} \/ (pc1 = "set" /\ ret # NULL)
Ordered ==
    /\ begun \in Seq(Ids) /\ InOrder /\ UpTo(Top) /\ pipe <= Top
    /\ pc0 \in Setting => Before(n)
    /\ pc0 \in Setting \cup Sized => pipe = n
    /\ pipe # NULL /\ pc0 \notin Setting => UpTo(pipe)
    /\ Taking => Before(pipe)
    /\ pc1 \in {"processed", "next", "dry", "filled", "lock"} => cur = pipe /\ pipe # NULL
    /\ pc1 = "set" /\ ret # NULL => ret = pipe
OrderInv == Built /\ Phases /\ Ordered

(* What has been freed has been played, and what is being played has not.   *)
Playing == {"wait", "buff", "off", "size", "base", "sample", "over", "pipe", "end", "rewind"}
Kept ==
    /\ \A i \in 1..made : nodes[i].freed => nodes[i].state = "PROCESSED"
    /\ pc0 \in {"read", "second"} \/ (pc0 \in {"state", "next", "free"} /\ back = "second") =>
         nodes[n].state = "LOADING_STARTED"
    /\ pc0 \in {"publish"} \cup Setting => nodes[n].state = "FILLED"
    /\ pipe # NULL \/ last_created # NULL \/ pc0 \in {"state", "next", "free"} \cup Linking => pipe2cleanup \in Ids
    /\ pc0 \in {"next", "free"} => nodes[pipe2cleanup].state = "PROCESSED"
    /\ pc0 = "free" => head \in Ids
    /\ pc1 \in Playing /\ m_buff \in Ids => m_buff <= Top /\ nodes[m_buff].state # "PROCESSED"
    /\ pc1 = "sample" => base = m_buff
    /\ pc1 = "lock" => nodes[cur].state = "FILLED"
    /\ pc1 = "set" /\ ret # NULL => nodes[ret].state = "LOCKED"
KeptInv == pc0 \notin Ending => Kept

LEMMA NodeFields ==
    ASSUME nodes \in [Ids -> Node], NEW i
    PROVE  /\ \A s : SetState(i, s) => \A j \in Ids :
                nodes'[j].next = nodes[j].next /\ nodes'[j].freed = nodes[j].freed
                /\ nodes'[j].state = IF j = i THEN s ELSE nodes[j].state
           /\ nodes' = [nodes EXCEPT ![i].freed = TRUE] => \A j \in Ids :
                nodes'[j].next = nodes[j].next /\ nodes'[j].state = nodes[j].state
                /\ nodes'[j].freed = IF j = i THEN TRUE ELSE nodes[j].freed
           /\ \A x : nodes' = [nodes EXCEPT ![i].next = x] => \A j \in Ids :
                nodes'[j].freed = nodes[j].freed /\ nodes'[j].state = nodes[j].state
                /\ nodes'[j].next = IF j = i THEN x ELSE nodes[j].next
           /\ \A s : i \in Ids /\ Allocated(i, s) =>
                /\ \A j \in Ids \ {i} : nodes'[j] = nodes[j]
                /\ nodes'[i].state = s /\ nodes'[i].next = NULL /\ ~nodes'[i].freed
           /\ i \in Ids /\ n \in Ids /\ i # n /\ Converted(i) =>
                /\ \A j \in Ids \ {i, n} : nodes'[j] = nodes[j]
                /\ nodes'[n].state = "FILLED" /\ nodes'[n].next = i /\ nodes'[n].freed = nodes[n].freed
                /\ nodes'[i].state = "FILLED" /\ nodes'[i].next = NULL /\ ~nodes'[i].freed
<1>0. \A j \in Ids : nodes[j] \in Node
  OBVIOUS
<1>1. ASSUME NEW s, SetState(i, s), NEW j \in Ids
      PROVE  nodes'[j].next = nodes[j].next /\ nodes'[j].freed = nodes[j].freed
             /\ nodes'[j].state = IF j = i THEN s ELSE nodes[j].state
  BY <1>0, <1>1 DEF SetState, Node
<1>2. ASSUME nodes' = [nodes EXCEPT ![i].freed = TRUE], NEW j \in Ids
      PROVE  nodes'[j].next = nodes[j].next /\ nodes'[j].state = nodes[j].state
             /\ nodes'[j].freed = IF j = i THEN TRUE ELSE nodes[j].freed
  BY <1>0, <1>2 DEF Node
<1>3. ASSUME NEW x, nodes' = [nodes EXCEPT ![i].next = x], NEW j \in Ids
      PROVE  nodes'[j].freed = nodes[j].freed /\ nodes'[j].state = nodes[j].state
             /\ nodes'[j].next = IF j = i THEN x ELSE nodes[j].next
  BY <1>0, <1>3 DEF Node
<1>4. ASSUME NEW s, i \in Ids, Allocated(i, s)
      PROVE  /\ \A j \in Ids \ {i} : nodes'[j] = nodes[j]
             /\ nodes'[i].state = s /\ nodes'[i].next = NULL /\ ~nodes'[i].freed
  BY <1>4 DEF Allocated
<1>5. ASSUME i \in Ids, n \in Ids, i # n, Converted(i)
      PROVE  /\ \A j \in Ids \ {i, n} : nodes'[j] = nodes[j]
             /\ nodes'[n].state = "FILLED" /\ nodes'[n].next = i /\ nodes'[n].freed = nodes[n].freed
             /\ nodes'[i].state = "FILLED" /\ nodes'[i].next = NULL /\ ~nodes'[i].freed
  <2> DEFINE r == [nodes[n] EXCEPT !.state = "FILLED", !.next = i]
             q == [state |-> "FILLED", next |-> NULL, freed |-> FALSE]
             m == [nodes EXCEPT ![n] = r]
  <2>1. nodes' = [m EXCEPT ![i] = q]
    BY <1>5 DEF Converted
  <2>2. r.state = "FILLED" /\ r.next = i /\ r.freed = nodes[n].freed
    BY <1>0, <1>5 DEF Node
  <2>3. q.state = "FILLED" /\ q.next = NULL /\ q.freed = FALSE
    OBVIOUS
  <2> HIDE DEF r, q
  <2>4. m[n] = r /\ DOMAIN m = Ids /\ \A j \in Ids \ {n} : m[j] = nodes[j]
    BY <1>5
  <2> HIDE DEF m
  <2>5. nodes'[n] = r /\ nodes'[i] = q /\ \A j \in Ids \ {i, n} : nodes'[j] = nodes[j]
    BY <1>5, <2>1, <2>4
  <2> QED BY <2>2, <2>3, <2>5
<1> QED BY <1>1, <1>2, <1>3, <1>4, <1>5

LEMMA StateFields ==
    ASSUME nodes \in [Ids -> Node], NEW i \in Ids, NEW s, SetState(i, s)
    PROVE  /\ nodes'[i].state = s
           /\ \A j \in Ids : nodes'[j].next = nodes[j].next /\ nodes'[j].freed = nodes[j].freed
                              /\ (j # i => nodes'[j].state = nodes[j].state)
<1>1. \A j \in Ids : nodes[j] \in Node
  OBVIOUS
<1> QED BY <1>1 DEF SetState, Node

LEMMA NewFields ==
    ASSUME nodes \in [Ids -> Node], NEW i \in Ids, NEW s, Allocated(i, s)
    PROVE  /\ nodes'[i].state = s /\ nodes'[i].next = NULL /\ ~nodes'[i].freed
           /\ \A j \in Ids \ {i} : nodes'[j] = nodes[j]
BY DEF Allocated

-----------------------------------------------------------------------------
SameLinks == \A i \in Ids : nodes'[i].next = nodes[i].next

LEMMA Typed ==
    ASSUME SoundInv, Built
    PROVE  /\ made \in Nat /\ n \in Nat /\ pipe \in Nat /\ cur \in Nat /\ ret \in Nat /\ last_created \in Nat
           /\ Top \in Nat /\ Top <= made
           /\ eight => (IF eight THEN n + 1 ELSE n) = n + 1
           /\ ~eight => (IF eight THEN n + 1 ELSE n) = n
           /\ nodes \in [Ids -> Node]
<1>1. made \in Nat /\ n \in Nat /\ pipe \in Nat /\ cur \in Nat /\ ret \in Nat /\ nodes \in [Ids -> Node]
  BY SoundAssumption DEF SoundInv, SoundTypeOK, Ids, NULL
<1>2. last_created \in Nat
  BY <1>1 DEF Built
<1>3. Top \in Nat /\ Top <= made
  <2>1. CASE Fresh
    <3>1. n \in Ids /\ (made = n \/ made = n + 1)
      BY <2>1 DEF Built
    <3> QED BY <1>1, <2>1, <3>1 DEF Top, Ids
  <2>2. CASE ~Fresh
    BY <1>1, <2>2 DEF Top
  <2> QED BY <2>1, <2>2
<1> QED BY <1>1, <1>2, <1>3

LEMMA TopTyped ==
    ASSUME SoundInv', Built'
    PROVE  Top' \in Nat
<1>1. made' \in Nat /\ n' \in Nat
  BY SoundAssumption DEF SoundInv, SoundTypeOK, Ids, NULL
<1>2. Fresh' => n' \in Ids
  BY DEF Built
<1>3. ASSUME Fresh' PROVE n' - 1 \in Nat
  <2>1. n' \in Ids
    BY <1>2, <1>3
  <2>2. PICK x \in Nat : x = n'
    BY <1>1
  <2>3. x >= 1
    BY <2>1, <2>2, SoundAssumption DEF Ids
  <2>4. x - 1 \in Nat
    BY <2>3
  <2> QED BY <2>2, <2>4
<1> QED BY <1>1, <1>3 DEF Top

(* What core 0 has built is not touched by core 1. *)
LEMMA BuiltKeeps ==
    ASSUME Built, SameLinks, UNCHANGED <<eight, made, last_created, n, back, pc0>>
    PROVE  Built' /\ Top' = Top
BY DEF Built, SameLinks, Fresh, Top

LEMMA Given ==
    ASSUME begun \in Seq(Ids), InOrder, NEW x \in Ids, Before(x), begun' = Append(begun, x)
    PROVE  /\ begun' \in Seq(Ids) /\ InOrder'
           /\ \A y \in Nat : x <= y => \A i \in 1..Len(begun') : begun'[i] <= y
<1>1. PICK l \in Nat : l = Len(begun)
  BY LenProperties
<1>2. begun' \in Seq(Ids) /\ Len(begun') = l + 1 /\ begun'[l + 1] = x /\ \A i \in 1..l : begun'[i] = begun[i]
  BY <1>1, AppendProperties
<1>3. \A i \in 1..l : begun[i] \in Ids /\ begun[i] < x
  BY <1>1, ElementOfSeq DEF Before
<1>4. Ids \subseteq Nat
  BY DEF Ids
<1>5. \A i \in 1..(l + 1) : i \in 1..l \/ i = l + 1
  BY <1>1
<1>6. ASSUME NEW i \in 1..(l + 1), NEW j \in 1..(l + 1), i < j PROVE begun'[i] < begun'[j]
  <2>1. i \in 1..l
    BY <1>1, <1>6
  <2>2. CASE j \in 1..l
    BY <1>1, <1>2, <1>6, <2>1, <2>2 DEF InOrder
  <2>3. CASE j = l + 1
    BY <1>2, <1>3, <2>1, <2>3
  <2> QED BY <1>5, <2>2, <2>3
<1>7. ASSUME NEW y \in Nat, x <= y, NEW i \in 1..(l + 1) PROVE begun'[i] <= y
  <2>1. CASE i \in 1..l
    <3>1. begun'[i] = begun[i] /\ begun[i] \in Nat /\ x \in Nat /\ begun[i] < x
      BY <1>2, <1>3, <1>4, <2>1
    <3> QED BY <1>7, <3>1
  <2>2. CASE i = l + 1
    BY <1>2, <1>7, <2>2
  <2> QED BY <1>5, <2>1, <2>2
<1> QED BY <1>2, <1>6, <1>7 DEF InOrder

(* Core 1 takes the next chunk only when it is linked: it lies below Top.   *)
LEMMA NextLinked ==
    ASSUME SoundInv, Built, pipe \in Ids, pipe <= Top, NEW x \in NextOf(pipe), x # NULL, x # Old
    PROVE  x = pipe + 1 /\ x <= Top /\ x \in Ids
<1>1. x = nodes[pipe].next /\ nodes[pipe].next \in {NULL, pipe + 1}
  BY DEF NextOf, Built
<1>2. x = pipe + 1 /\ pipe < made /\ (Fresh => pipe # n - 1)
  BY <1>1, Typed DEF Built
<1>3. x <= Top
  BY <1>2, Typed DEF Top
<1>4. made \in 0..MaxChunks /\ pipe \in Nat
  BY Typed DEF SoundInv, SoundTypeOK
<1> QED BY <1>1, <1>2, <1>3, <1>4, SoundAssumption DEF Ids

LEMMA FrameOrder ==
    ASSUME SoundInv, OrderInv, pcm_call
    PROVE  OrderInv'
<1> USE DEF Go1
<1>1. UNCHANGED <<nodes, made, eight, pipe, last_created, n, back, pc0, cur, ret, m_buff, m_size, m_channels, begun>>
  BY DEF pcm_call, ListVars, Core0
<1>2. Built' /\ Top' = Top
  BY <1>1, BuiltKeeps DEF OrderInv, SameLinks
<1>3. \/ pc1 = "wait" /\ m_channels /\ pc1' = "buff"
      \/ pc1 = "buff" /\ pc1' = (IF m_buff = NULL THEN "end" ELSE "off")
      \/ pc1 = "off" /\ pc1' = "size"
      \/ pc1 = "size" /\ pc1' = (IF off < m_size THEN "base" ELSE "end")
      \/ pc1 = "base" /\ pc1' = "sample"
      \/ pc1 = "sample" /\ pc1' = "over"
      \/ pc1 = "over" /\ pc1' \in {"pipe", "end"}
      \/ pc1 = "end" /\ pc1' = "wait"
  BY DEF pcm_call, Frame
<1>4. off \in Nat /\ (m_size = 0 => ~(off < m_size))
  BY DEF SoundInv, SoundTypeOK, OldLen
<1>5. Phases'
  BY <1>1, <1>3, <1>4 DEF OrderInv, Phases, Quiet, Setting, Sized
<1>6. Ordered'
  BY <1>1, <1>2, <1>3 DEF OrderInv, Ordered, InOrder, UpTo, Before, Taking
<1> QED BY <1>2, <1>5, <1>6 DEF OrderInv

LEMMA CallBackOrder ==
    ASSUME SoundInv, OrderInv, CallBack
    PROVE  OrderInv'
<1> USE DEF Go1
<1>1. UNCHANGED <<eight, made, last_created, n, back, pc0, m_buff, m_channels, begun>>
  BY DEF CallBack, Core0
<1>2. SameLinks
  <2>1. nodes' = nodes \/ SetState(cur, "PROCESSED") \/ SetState(cur, "LOCKED")
    BY DEF CallBack, pcm_end_callback, SetState
  <2>2. nodes \in [Ids -> Node]
    BY DEF SoundInv, SoundTypeOK
  <2>3. \A s : SetState(cur, s) => SameLinks
    BY <2>2, NodeFields DEF SameLinks
  <2>4. nodes' = nodes => SameLinks
    BY DEF SameLinks
  <2> QED BY <2>1, <2>3, <2>4
<1>3. Built' /\ Top' = Top
  BY <1>1, <1>2, BuiltKeeps DEF OrderInv
<1>4. pipe \in Nat /\ Top \in Nat /\ (pipe # NULL => pipe \in Ids)
  BY Typed DEF OrderInv, SoundInv, SoundTypeOK
<1>5. CASE pc1 = "pipe"
  <2>1. pipe # NULL /\ pc0 \notin Setting \cup Sized
    BY <1>5 DEF OrderInv, Phases, Quiet
  <2>2. cur' = pipe /\ pc1' = "processed" /\ UNCHANGED <<pipe, m_size, ret>>
    BY <1>5, <2>1 DEF CallBack, pcm_end_callback
  <2> QED BY <1>1, <1>3, <1>5, <2>1, <2>2 DEF OrderInv, Phases, Ordered, InOrder, UpTo, Before, Taking, Quiet
<1>6. CASE pc1 = "processed"
  <2>1. pipe # NULL /\ pc0 \notin Setting \cup Sized
    BY <1>6 DEF OrderInv, Phases, Quiet
  <2>2. pc1' = "next" /\ UNCHANGED <<pipe, m_size, cur, ret>>
    BY <1>6 DEF CallBack, pcm_end_callback, PipeKept
  <2> QED BY <1>1, <1>3, <1>6, <2>1, <2>2 DEF OrderInv, Phases, Ordered, InOrder, UpTo, Before, Taking, Quiet
<1>7. CASE pc1 = "next"
  <2>1. pipe # NULL /\ pc0 \notin Setting \cup Sized /\ cur = pipe /\ pipe <= Top /\ UpTo(pipe)
    BY <1>7 DEF OrderInv, Phases, Quiet, Ordered
  <2>2. PICK x \in NextOf(pipe) :
          CASE x = NULL -> pc1' = "dry" /\ UNCHANGED <<pipe, cur>>
            [] x = Old  -> pc1' = "fault" /\ UNCHANGED <<pipe, cur>>
            [] OTHER    -> pipe' = x /\ cur' = x /\ pc1' = "filled"
    BY <1>7, <2>1 DEF CallBack, pcm_end_callback
  <2>3. UNCHANGED <<m_size, ret>>
    BY <1>7 DEF CallBack, pcm_end_callback
  <2>4. CASE x = NULL \/ x = Old
    <3>1. pc1' \in {"dry", "fault"} /\ UNCHANGED <<pipe, cur>>
      BY <2>2, <2>4
    <3> QED BY <1>1, <1>3, <1>7, <2>1, <2>3, <3>1 DEF OrderInv, Phases, Ordered, InOrder, UpTo, Before, Taking, Quiet
  <2>5. CASE x # NULL /\ x # Old
    <3>1. pipe' = x /\ cur' = x /\ pc1' = "filled"
      BY <2>2, <2>5
    <3>2. x = pipe + 1 /\ x <= Top
      BY <1>4, <2>1, <2>5, NextLinked DEF OrderInv
    <3>3. \A i \in 1..Len(begun) : begun[i] \in Nat /\ begun[i] <= pipe
      <4>1. begun \in Seq(Ids) /\ Ids \subseteq Nat
        BY DEF OrderInv, Ordered, Ids
      <4>2. \A i \in 1..Len(begun) : begun[i] \in Ids
        BY <4>1, ElementOfSeq
      <4> QED BY <2>1, <4>1, <4>2 DEF UpTo
    <3>4. \A i \in 1..Len(begun) : begun[i] < x /\ begun[i] <= x
      BY <1>4, <3>2, <3>3
    <3>5. Ordered'
      BY <1>1, <1>3, <1>7, <2>1, <2>3, <3>1, <3>2, <3>4, <2>5
         DEF OrderInv, Ordered, InOrder, UpTo, Before, Taking
    <3> QED BY <1>1, <1>3, <2>1, <2>5, <3>1, <3>2, <3>5 DEF OrderInv, Phases, Setting, NULL
  <2> QED BY <2>4, <2>5
<1>8. CASE pc1 = "dry"
  <2>1. pc0 \notin Setting \cup Sized
    BY <1>8 DEF OrderInv, Phases, Quiet
  <2>2. pipe' = NULL /\ pc1' = "zero" /\ UNCHANGED <<m_size, cur, ret>>
    BY <1>8 DEF CallBack, pcm_end_callback
  <2> QED BY <1>1, <1>3, <1>4, <1>8, <2>1, <2>2
          DEF OrderInv, Phases, Ordered, InOrder, UpTo, Before, Taking, Quiet, NULL, Setting, Sized
<1>9. CASE pc1 = "zero"
  <2>1. m_size' = 0 /\ ret' = NULL /\ pc1' = "set" /\ UNCHANGED <<pipe, cur>>
    BY <1>9 DEF CallBack, pcm_end_callback
  <2> QED BY <1>1, <1>3, <1>9, <2>1 DEF OrderInv, Phases, Ordered, InOrder, UpTo, Before, Taking, Quiet
<1>10. CASE pc1 \in {"filled", "lock"}
  <2>1. pipe # NULL /\ pc0 \notin Setting \cup Sized
    BY <1>10 DEF OrderInv, Phases, Quiet
  <2>2. \/ pc1' = "lock" /\ ret' = ret /\ pc1 = "filled"
        \/ pc1' = "set" /\ ret' = cur /\ pc1 = "lock"
    BY <1>10 DEF CallBack, pcm_end_callback
  <2>3. UNCHANGED <<pipe, cur>>
    BY <1>10 DEF CallBack, pcm_end_callback
  <2> QED BY <1>1, <1>3, <1>10, <2>1, <2>2, <2>3
          DEF OrderInv, Phases, Ordered, InOrder, UpTo, Before, Taking, Quiet, Setting, Sized
<1> QED BY <1>5, <1>6, <1>7, <1>8, <1>9, <1>10 DEF CallBack, pcm_end_callback

LEMMA SwitchOrder ==
    ASSUME SoundInv, OrderInv, Switch
    PROVE  OrderInv'
<1> USE DEF Go1
<1>1. UNCHANGED <<nodes, made, eight, pipe, last_created, n, back, pc0, m_size, m_channels>>
      /\ cur' = NULL /\ ret' = NULL
  BY DEF Switch, ListVars, Core0
<1>2. Built' /\ Top' = Top
  BY <1>1, BuiltKeeps DEF OrderInv, SameLinks
<1>3. pipe \in Nat /\ Top \in Nat /\ (pipe # NULL => pipe \in Ids)
  BY Typed DEF OrderInv, SoundInv, SoundTypeOK
<1>4. CASE pc1 = "set" /\ ret = NULL
  <2>1. m_buff' = NULL /\ pc1' = "rewind" /\ begun' = begun
    BY <1>4 DEF Switch
  <2> QED BY <1>1, <1>2, <1>4, <2>1 DEF OrderInv, Phases, Ordered, InOrder, UpTo, Before, Taking, Quiet
<1>5. CASE pc1 = "set" /\ ret # NULL
  <2>1. pc0 \notin Setting \cup Sized /\ pipe # NULL /\ ret = pipe /\ Before(pipe) /\ pipe <= Top
    BY <1>5 DEF OrderInv, Phases, Quiet, Ordered, Taking
  <2>2. pc1' = "rewind" /\ begun' = Append(begun, pipe)
    BY <1>5, <2>1 DEF Switch
  <2>3. /\ begun' \in Seq(Ids) /\ InOrder'
        /\ \A y \in Nat : pipe <= y => \A i \in 1..Len(begun') : begun'[i] <= y
    BY <1>3, <2>1, <2>2, Given DEF OrderInv, Ordered
  <2> HIDE DEF InOrder
  <2>4. Ordered'
    BY <1>1, <1>2, <1>3, <2>1, <2>2, <2>3 DEF Ordered, UpTo, Taking
  <2> QED BY <1>1, <1>2, <2>1, <2>2, <2>4 DEF OrderInv, Phases
<1>6. CASE pc1 = "rewind"
  <2>1. m_buff' = m_buff /\ pc1' = "end" /\ begun' = begun
    BY <1>6 DEF Switch
  <2> QED BY <1>1, <1>2, <1>6, <2>1 DEF OrderInv, Phases, Ordered, InOrder, UpTo, Before, Taking, Quiet
<1> QED BY <1>4, <1>5, <1>6 DEF Switch

(* Steps of core 0 outside pcm_set_buffer give core 1 nothing: what is new  *)
(* to show is that Built holds and Top has not sunk.                        *)
LEMMA PlayerOrder ==
    ASSUME SoundInv, OrderInv, Built', Top' \in Nat, Top <= Top',
           UNCHANGED <<m_buff, m_size, Core1, begun, pipe>>, m_channels' => m_channels,
           pc0' \notin Setting \cup Sized
    PROVE  OrderInv'
<1>1. Phases'
  BY DEF OrderInv, Phases, Quiet, Core1, Setting, Sized
<1>2. pipe <= Top' /\ \A i \in 1..Len(begun) : begun[i] <= Top'
  <2>1. begun \in Seq(Ids) /\ Ids \subseteq Nat
    BY DEF OrderInv, Ordered, Ids
  <2>2. \A i \in 1..Len(begun) : begun[i] \in Nat
    BY <2>1, ElementOfSeq
  <2> QED BY <2>2, Typed DEF OrderInv, Ordered, UpTo
<1>3. pc0 \in Setting => UpTo(pipe)
  <2> SUFFICES ASSUME pc0 \in Setting PROVE UpTo(pipe)
    OBVIOUS
  <2>1. begun \in Seq(Ids) /\ Ids \subseteq Nat /\ Before(pipe) /\ pipe \in Nat
    BY Typed DEF OrderInv, Ordered, Ids
  <2>2. \A i \in 1..Len(begun) : begun[i] \in Nat
    BY <2>1, ElementOfSeq
  <2> QED BY <2>1, <2>2 DEF UpTo, Before
<1>4. Ordered'
  BY <1>2, <1>3 DEF OrderInv, Ordered, InOrder, UpTo, Before, Taking, Core1
<1> QED BY <1>1, <1>4 DEF OrderInv

LEMMA ReadingOrder ==
    ASSUME SoundInv, OrderInv, pcm_setup \/ Turn \/ Allocate \/ f_read \/ convert2int16buff
    PROVE  OrderInv'
<1> USE DEF Go0, ListVars, PcmVars, Ending, Linking, Setting, Sized
<1>0. Built /\ n \in Nat /\ made \in Nat /\ last_created \in Nat /\ nodes \in [Ids -> Node] /\ Top \in Nat
  BY Typed DEF OrderInv
<1>1. CASE pcm_setup \/ Turn
  <2>1. UNCHANGED <<nodes, made, eight, pipe, last_created, n, back, m_buff, m_size, m_channels, Core1, begun>>
        /\ pc0 \in {"setup", "loop"} /\ pc0' \in {"loop", "memory", "final"}
    BY <1>1 DEF pcm_setup, Turn
  <2>2. Built' /\ Top' = Top
    BY <1>0, <2>1 DEF Built, Top, Fresh
  <2> QED BY <1>0, <2>1, <2>2, PlayerOrder
<1>2. CASE Allocate /\ NoRoom
  <2>1. UNCHANGED <<nodes, made, eight, pipe, last_created, n, m_buff, m_size, m_channels, Core1, begun>>
        /\ pc0 = "memory" /\ pc0' = "state" /\ back' = "memory"
    BY <1>2 DEF Allocate, Cleaning
  <2>2. Built' /\ Top' = Top
    BY <1>0, <2>1 DEF Built, Top, Fresh
  <2> QED BY <1>0, <2>1, <2>2, PlayerOrder
<1>3. CASE Allocate /\ ~NoRoom
  <2>1. UNCHANGED <<eight, pipe, last_created, m_buff, m_size, m_channels, Core1, begun>>
        /\ pc0 = "memory" /\ pc0' = "read" /\ back' = back /\ made' = made + 1 /\ n' = made + 1
        /\ Allocated(made + 1, "LOADING_STARTED") /\ made + 1 \in Ids
    BY <1>0, <1>3, SoundAssumption DEF Allocate, SoundInv, SoundTypeOK, Ids
  <2>2. \A i \in Ids : nodes'[i].next = IF i = made + 1 THEN NULL ELSE nodes[i].next
    <3>1. nodes'[made + 1].next = NULL /\ \A j \in Ids \ {made + 1} : nodes'[j] = nodes[j]
      BY <1>0, <2>1, NodeFields
    <3> QED BY <3>1
  <2>3. last_created = made
    BY <1>0, <2>1 DEF Built, Fresh
  <2>4. \A i \in Ids : nodes'[i].next \in {NULL, i + 1} /\ (i >= made => nodes'[i].next = NULL)
    BY <1>0, <2>2 DEF Built
  <2>5. Built' /\ Top' = Top
    BY <1>0, <2>1, <2>3, <2>4 DEF Built, Top, Fresh, Ids
  <2> QED BY <1>0, <2>1, <2>5, PlayerOrder
<1>4. CASE f_read
  <2>1. UNCHANGED <<made, eight, pipe, last_created, n, back, m_buff, m_size, m_channels, Core1, begun>>
        /\ pc0 = "read"
    BY <1>4 DEF f_read
  <2>2. \/ pc0' = "final"
        \/ eight /\ pc0' = "second"
        \/ ~eight /\ pc0' = "publish"
    BY <1>4 DEF f_read
  <2>3. SameLinks
    <3>1. \A s : SetState(n, s) => SameLinks
      BY <1>0, NodeFields DEF SameLinks
    <3>2. nodes' = nodes => SameLinks
      BY DEF SameLinks
    <3> QED BY <1>4, <3>1, <3>2 DEF f_read
  <2>4. Built' /\ Top' \in Nat /\ Top <= Top'
    BY <1>0, <2>1, <2>2, <2>3 DEF Built, Top, Fresh, SameLinks
  <2> QED BY <1>0, <2>1, <2>2, <2>4, PlayerOrder
<1>5. CASE convert2int16buff /\ NoRoom
  <2>1. UNCHANGED <<nodes, made, eight, pipe, last_created, n, m_buff, m_size, m_channels, Core1, begun>>
        /\ pc0 = "second" /\ pc0' = "state" /\ back' = "second"
    BY <1>5 DEF convert2int16buff, Cleaning
  <2>2. Built' /\ Top' = Top
    BY <1>0, <2>1 DEF Built, Top, Fresh
  <2> QED BY <1>0, <2>1, <2>2, PlayerOrder
<1>6. CASE convert2int16buff /\ ~NoRoom
  <2>1. UNCHANGED <<eight, pipe, last_created, n, m_buff, m_size, m_channels, Core1, begun>>
        /\ pc0 = "second" /\ pc0' = "publish" /\ back' = back /\ made' = made + 1
        /\ Converted(made + 1) /\ made + 1 \in Ids
    BY <1>0, <1>6, SoundAssumption DEF convert2int16buff, SoundInv, SoundTypeOK, Ids
  <2>2. made = n /\ n \in Ids /\ eight /\ last_created = n - 1
    BY <1>0, <2>1 DEF Built, Fresh
  <2>3. \A i \in Ids : nodes'[i].next = IF i = n THEN n + 1 ELSE IF i = n + 1 THEN NULL ELSE nodes[i].next
    <3>1. n # made + 1
      BY <1>0, <2>2
    <3>2. \A j \in Ids \ {made + 1, n} : nodes'[j] = nodes[j]
      BY <1>0, <2>1, <2>2, <3>1, NodeFields
    <3>3. nodes'[n].next = made + 1 /\ nodes'[made + 1].next = NULL
      BY <1>0, <2>1, <2>2, <3>1, NodeFields
    <3> QED BY <2>2, <3>2, <3>3
  <2>4. \A i \in Ids : nodes'[i].next \in {NULL, i + 1} /\ (i >= n + 1 => nodes'[i].next = NULL)
                        /\ (i = n - 1 => nodes'[i].next = NULL)
    BY <1>0, <2>1, <2>2, <2>3 DEF Built, Ids, Fresh
  <2>5. Built' /\ Top' = Top
    BY <1>0, <2>1, <2>2, <2>4 DEF Built, Top, Fresh
  <2> QED BY <1>0, <2>1, <2>5, PlayerOrder
<1> QED BY <1>1, <1>2, <1>3, <1>4, <1>5, <1>6

LEMMA PublishOrder ==
    ASSUME SoundInv, OrderInv, Publish
    PROVE  OrderInv'
<1> USE DEF Go0, ListVars, PcmVars
<1>0. Built /\ n \in Nat /\ made \in Nat /\ pipe \in Nat /\ last_created \in Nat /\ nodes \in [Ids -> Node]
      /\ Top \in Nat
  BY Typed DEF OrderInv
<1>1. UNCHANGED <<nodes, made, eight, last_created, n, back, m_buff, m_size, m_channels, Core1, begun>>
      /\ pc0 = "publish" /\ pc0' \in {"cb", "link"}
  BY DEF Publish
<1>2. n \in Ids /\ last_created = n - 1 /\ (made = n \/ made = n + 1) /\ Top = n - 1
  BY <1>0, <1>1 DEF Built, Top, Fresh
<1>3. Built' /\ Top' = made
  BY <1>0, <1>1, <1>2 DEF Built, Top, Fresh, Linking, Setting, Sized
<1>4. CASE pipe # NULL
  <2>1. pipe' = pipe /\ pc0' = "link"
    BY <1>4 DEF Publish
  <2> QED BY <1>0, <1>1, <1>2, <1>3, <2>1, PlayerOrder DEF Setting, Sized
<1>5. CASE pipe = NULL
  <2>1. pipe' = n /\ pc0' = "cb"
    BY <1>5 DEF Publish
  <2>2. Quiet
    BY <1>5 DEF OrderInv, Phases
  <2>3. \A i \in 1..Len(begun) : begun[i] \in Nat /\ begun[i] <= n - 1
    <3>1. begun \in Seq(Ids) /\ Ids \subseteq Nat
      BY DEF OrderInv, Ordered, Ids
    <3>2. \A i \in 1..Len(begun) : begun[i] \in Ids
      BY <3>1, ElementOfSeq
    <3> QED BY <1>2, <3>1, <3>2 DEF OrderInv, Ordered, UpTo
  <2>4. \A i \in 1..Len(begun) : begun[i] < n /\ begun[i] <= made
    BY <1>0, <1>2, <2>3
  <2>5. n <= made /\ n # NULL
    BY <1>0, <1>2 DEF Ids, NULL
  <2>6. Quiet' /\ Phases'
    BY <1>1, <2>1, <2>2, <2>5 DEF Phases, Quiet, Core1, Setting, Sized
  <2>7. Ordered'
    BY <1>1, <1>3, <1>5, <2>1, <2>2, <2>4, <2>5
       DEF OrderInv, Ordered, InOrder, UpTo, Before, Taking, Core1, Setting, Sized, Quiet
  <2> QED BY <1>3, <2>6, <2>7 DEF OrderInv
<1> QED BY <1>4, <1>5

LEMMA SetBufferOrder ==
    ASSUME SoundInv, OrderInv, pcm_set_buffer
    PROVE  OrderInv'
<1> USE DEF Go0, ListVars, PcmVars
<1>0. Built /\ n \in Nat /\ pipe \in Nat /\ Top \in Nat
  BY Typed DEF OrderInv
<1>1. UNCHANGED <<nodes, made, eight, pipe, last_created, n, back, Core1>> /\ m_buff' \in {m_buff, n}
      /\ pc0 \in Setting \cup Sized /\ pc0' \in {"size0", "buff", "channels", "off", "size", "link"}
  BY DEF pcm_set_buffer, Assignment, SetSizeZero, Setting, Sized
<1>2. Built' /\ Top' = Top
  BY <1>0, <1>1 DEF Built, Top, Fresh, Linking, Setting, Sized
<1>3. n \in Ids /\ n # NULL /\ pipe = n /\ n <= Top
  BY <1>0, <1>1 DEF Built, Linking, Ids, NULL, OrderInv, Ordered
<1>4. CASE pc0 \in {"cb", "size0"}
  <2>1. \/ pc0' = "size0" /\ m_size' = m_size
        \/ pc0' = "buff" /\ m_size' = 0
    BY <1>4 DEF pcm_set_buffer, Assignment, SetSizeZero
  <2>2. UNCHANGED <<m_buff, m_channels, begun>>
    BY <1>4 DEF pcm_set_buffer, Assignment, SetSizeZero
  <2>3. Phases'
    BY <1>1, <1>4, <2>1, <2>2 DEF OrderInv, Phases, Quiet, Core1, Setting, Sized
  <2>4. Ordered'
    BY <1>1, <1>2, <1>4, <2>1, <2>2 DEF OrderInv, Ordered, InOrder, UpTo, Before, Taking, Core1, Setting, Sized
  <2> QED BY <1>2, <2>3, <2>4 DEF OrderInv
<1>5. CASE pc0 = "buff"
  <2>1. pc0' = "channels" /\ m_buff' = n /\ begun' = Append(begun, n) /\ UNCHANGED <<m_size, m_channels>>
    BY <1>5 DEF pcm_set_buffer, Assignment
  <2>2. Quiet /\ m_size = 0 /\ Before(n)
    BY <1>5 DEF OrderInv, Phases, Ordered, Setting
  <2>3. Phases'
    BY <1>1, <1>3, <2>1, <2>2 DEF Phases, Quiet, Core1, Setting, Sized
  <2>4. /\ begun' \in Seq(Ids) /\ InOrder'
        /\ \A y \in Nat : n <= y => \A i \in 1..Len(begun') : begun'[i] <= y
    BY <1>3, <2>1, <2>2, Given DEF OrderInv, Ordered
  <2> HIDE DEF InOrder
  <2>5. Ordered'
    BY <1>0, <1>1, <1>2, <1>3, <2>1, <2>2, <2>4 DEF Ordered, UpTo, Taking, Core1, Setting, Sized, Quiet
  <2> QED BY <1>2, <2>3, <2>5 DEF OrderInv
<1>6. CASE pc0 \in Sized
  <2>1. UNCHANGED <<m_buff, begun>> /\ (m_channels => m_channels')
    BY <1>6 DEF pcm_set_buffer, Assignment, Sized
  <2>2. (pc0' \in {"off", "size"} /\ m_size' = m_size) \/ pc0' = "link"
    BY <1>6 DEF pcm_set_buffer, Assignment, Sized
  <2>3. Phases'
    BY <1>1, <1>3, <1>6, <2>1, <2>2 DEF OrderInv, Phases, Core1, Setting, Sized
  <2>4. Ordered'
    BY <1>1, <1>2, <1>6, <2>1, <2>2 DEF OrderInv, Ordered, InOrder, UpTo, Before, Taking, Core1, Setting, Sized
  <2> QED BY <1>2, <2>3, <2>4 DEF OrderInv
<1> QED BY <1>1, <1>4, <1>5, <1>6 DEF Setting

LEMMA LinkOrder ==
    ASSUME SoundInv, OrderInv, Link
    PROVE  OrderInv'
<1> USE DEF Go0, ListVars, PcmVars
<1>0. Built /\ n \in Nat /\ made \in Nat /\ pipe \in Nat /\ last_created \in Nat /\ nodes \in [Ids -> Node]
      /\ Top \in Nat
  BY Typed DEF OrderInv
<1>1. UNCHANGED <<made, eight, pipe, n, m_buff, m_size, m_channels, Core1, begun>>
      /\ pc0 = "link" /\ pc0' = "state" /\ back' = "loop"
  BY DEF Link, Cleaning
<1>2. n \in Ids /\ last_created = n - 1 /\ made = (IF eight THEN n + 1 ELSE n) /\ Top = made
  BY <1>0, <1>1 DEF Built, Top, Fresh, Linking
<1>3. last_created' = made
  BY <1>2 DEF Link
<1>4. \A i \in Ids : nodes'[i].next \in {NULL, i + 1} /\ (i >= made => nodes'[i].next = NULL)
  <2>1. CASE last_created = NULL
    BY <1>0, <2>1 DEF Link, Built
  <2>2. CASE last_created # NULL
    <3>1. nodes' = [nodes EXCEPT ![last_created].next = n]
      BY <2>2 DEF Link
    <3>2. \A i \in Ids : nodes'[i].next = IF i = last_created THEN n ELSE nodes[i].next
      BY <1>0, <3>1, NodeFields
    <3>3. last_created + 1 = n /\ last_created < made
      BY <1>0, <1>2
    <3> QED BY <1>0, <3>2, <3>3 DEF Built, Ids
  <2> QED BY <2>1, <2>2
<1>5. Built' /\ Top' = Top
  BY <1>0, <1>1, <1>2, <1>3, <1>4 DEF Built, Top, Fresh, Linking, Setting, Sized
<1> QED BY <1>0, <1>1, <1>5, PlayerOrder DEF Setting, Sized

LEMMA FreeingOrder ==
    ASSUME SoundInv, OrderInv, Cleanup \/ Final \/ pcm_cleanup
    PROVE  OrderInv'
<1> USE DEF Go0, ListVars, PcmVars
<1>0. Built /\ n \in Nat /\ made \in Nat /\ nodes \in [Ids -> Node] /\ Top \in Nat
  BY Typed DEF OrderInv
<1>1. UNCHANGED <<made, eight, pipe, last_created, n, back, m_buff, m_size, Core1, begun>>
      /\ (m_channels' => m_channels)
  BY DEF Cleanup, Final, pcm_cleanup
<1>2. SameLinks
  <2>1. nodes' = nodes \/ nodes' = [nodes EXCEPT ![pipe2cleanup].freed = TRUE]
    BY DEF Cleanup, try_cleanup_it, Final, pcm_cleanup
  <2>2. nodes' = nodes => SameLinks
    BY DEF SameLinks
  <2>3. nodes' = [nodes EXCEPT ![pipe2cleanup].freed = TRUE] => SameLinks
    BY <1>0, NodeFields DEF SameLinks
  <2> QED BY <2>1, <2>2, <2>3
<1>3. \/ pc0 \in {"state", "next", "free"} /\ pc0' \in {"state", "next", "free", back} /\ back \in {"loop", "memory", "second"}
      \/ pc0 \in Ending /\ pc0' \in Ending
  BY DEF Cleanup, try_cleanup_it, Final, pcm_cleanup, Ending, SoundInv, SoundTypeOK
<1>4. Built' /\ Top' = Top
  BY <1>0, <1>1, <1>2, <1>3 DEF Built, Top, Fresh, SameLinks, Linking, Setting, Sized, Ending
<1> QED BY <1>0, <1>1, <1>3, <1>4, PlayerOrder DEF Setting, Sized, Ending

LEMMA NextOrder ==
    ASSUME SoundInv, OrderInv, [Next]_vars
    PROVE  OrderInv'
<1>1. CASE Player
  BY <1>1, ReadingOrder, PublishOrder, SetBufferOrder, LinkOrder, FreeingOrder DEF Player
<1>2. CASE Output
  BY <1>2, FrameOrder, CallBackOrder, SwitchOrder DEF Output
<1>3. CASE timer_callback \/ UNCHANGED vars
  <2>1. UNCHANGED <<nodes, made, eight, pipe, last_created, n, back, pc0, m_buff, m_size, m_channels, Core1, begun>>
    BY <1>3 DEF timer_callback, vars, ListVars, PcmVars, Core0
  <2>2. Built' /\ Top' = Top
    BY <2>1, BuiltKeeps DEF OrderInv, SameLinks
  <2>3. Phases' /\ Ordered'
    BY <2>1, <2>2 DEF OrderInv, Phases, Quiet, Ordered, InOrder, UpTo, Before, Taking, Core1
  <2> QED BY <2>2, <2>3 DEF OrderInv
<1> QED BY <1>1, <1>2, <1>3 DEF Next

LEMMA InitOrder == Init => OrderInv
<1> SUFFICES ASSUME Init PROVE OrderInv
  OBVIOUS
<1>1. pc0 = "setup" /\ made = 0 /\ last_created = NULL /\ back = "loop" /\ pipe = NULL /\ begun = <<>> /\ pc1 = "wait"
      /\ ~m_channels /\ ret = NULL /\ cur = NULL
  BY DEF Init
<1>2. \A i \in Ids : nodes[i].next = NULL
  BY DEF Init, Unused
<1>3. Built /\ Top = 0
  BY <1>1, <1>2 DEF Built, Top, Fresh, Linking, Setting, Sized, Ending, NULL
<1>4. Len(begun) = 0 /\ begun \in Seq(Ids)
  BY <1>1, EmptySeq
<1>5. Phases /\ Ordered
  BY <1>1, <1>3, <1>4 DEF Phases, Quiet, Ordered, InOrder, UpTo, Before, Taking, Setting, Sized, NULL
<1> QED BY <1>3, <1>5 DEF OrderInv

LEMMA OrderInvariant == Spec => [](SoundInv /\ OrderInv)
<1>1. Init => SoundInv /\ OrderInv
  BY InitInv, InitOrder
<1>2. SoundInv /\ OrderInv /\ [Next]_vars => SoundInv' /\ OrderInv'
  BY NextInv, NextOrder
<1> QED BY <1>1, <1>2, PTL DEF Spec

(* The chunks are given to core 1 in the order of the file, none twice.     *)
THEOREM PlayedInOrder == Spec => []InOrder
<1>1. OrderInv => InOrder
  BY DEF OrderInv, Ordered
<1> QED BY <1>1, OrderInvariant, PTL

-----------------------------------------------------------------------------
(* What is played is still there.  A chunk is cleaned up only when there    *)
(* is one to clean up: memory that is full holds linked chunks.             *)
LEMMA RoomForTwo ==
    ASSUME SoundInv, OrderInv, Kept, NoRoom, pc0 \in {"memory", "second"}
    PROVE  pipe2cleanup \in Ids
<1> SUFFICES ASSUME pipe2cleanup \notin Ids PROVE FALSE
  OBVIOUS
<1>1. last_created = NULL /\ made \in Nat /\ n \in Nat /\ Built
  BY Typed DEF Kept, OrderInv
<1>2. made <= 1
  <2>1. CASE pc0 = "memory"
    BY <1>1, <2>1 DEF Built, Fresh, Linking, Setting, Sized, Ending, NULL
  <2>2. CASE pc0 = "second"
    BY <1>1, <2>2 DEF Built, Fresh, Linking, Setting, Sized, Ending, NULL
  <2> QED BY <2>1, <2>2
<1>3. Live \subseteq {1}
  BY <1>1, <1>2 DEF Live, Ids
<1>4. IsFiniteSet({1}) /\ Cardinality({1}) = 1
  BY FS_Singleton
<1>5. Cardinality(Live) <= 1 /\ Cardinality(Live) \in Nat
  BY <1>3, <1>4, FS_Subset, FS_CardinalityType
<1> QED BY <1>5, SoundAssumption DEF NoRoom

LEMMA FrameKept ==
    ASSUME SoundInv, OrderInv, Kept, pcm_call \/ Switch
    PROVE  Kept'
<1> USE DEF Go1
<1>1. UNCHANGED <<nodes, made, pipe, pipe2cleanup, last_created, n, back, head, pc0>>
  BY DEF pcm_call, Switch, ListVars, Core0
<1>2. Top' = Top /\ pipe <= Top
  BY <1>1 DEF Top, Fresh, OrderInv, Ordered
<1>3. /\ pc1' \in Playing /\ m_buff' \in Ids => m_buff' <= Top /\ nodes[m_buff'].state # "PROCESSED"
      /\ pc1' = "sample" => base' = m_buff'
      /\ pc1' \notin {"lock", "set"}
  <2>1. CASE pcm_call
    <3>1. m_buff' = m_buff /\ pc1 \in Playing /\ pc1' \in Playing
      BY <2>1 DEF pcm_call, Frame, Playing
    <3>2. pc1' = "sample" => base' = m_buff'
      BY <2>1 DEF pcm_call, Frame
    <3> QED BY <3>1, <3>2 DEF Kept, Playing
  <2>2. CASE Switch /\ pc1 = "set"
    <3>1. m_buff' = ret /\ pc1' = "rewind"
      BY <2>2 DEF Switch
    <3>2. ret # NULL => ret = pipe /\ nodes[ret].state = "LOCKED"
      BY <2>2 DEF Kept, OrderInv, Ordered
    <3>3. NULL \notin Ids
      BY DEF Ids, NULL
    <3> QED BY <1>2, <3>1, <3>2, <3>3
  <2>3. CASE Switch /\ pc1 = "rewind"
    <3>1. m_buff' = m_buff /\ pc1' = "end"
      BY <2>3 DEF Switch
    <3> QED BY <2>3, <3>1 DEF Kept, Playing
  <2> QED BY <2>1, <2>2, <2>3 DEF Switch
<1> QED BY <1>1, <1>2, <1>3 DEF Kept

LEMMA CallBackKept ==
    ASSUME SoundInv, OrderInv, Kept, CallBack
    PROVE  Kept'
<1> USE DEF Go1
<1>0. nodes \in [Ids -> Node] /\ Top \in Nat /\ Top <= made /\ made \in Nat /\ n \in Nat /\ cur \in Nat
  BY Typed DEF OrderInv
<1>1. UNCHANGED <<made, pipe2cleanup, last_created, n, back, head, pc0, m_buff>>
      /\ pc1' \notin Playing
  BY DEF CallBack, pcm_end_callback, Core0, Playing
<1>2. pc1 = "pipe" \/ pipe # NULL \/ pipe' = NULL
  BY DEF CallBack, pcm_end_callback, OrderInv, Ordered
<1>3. pipe' # NULL => pipe # NULL
  BY <1>2 DEF CallBack, pcm_end_callback
<1>4. CASE nodes' = nodes
  <2>1. pc1' = "lock" => nodes[cur].state = "FILLED" /\ cur' = cur
    BY DEF CallBack, pcm_end_callback
  <2>2. pc1' = "set" => ret' = NULL \/ pc1 = "lock"
    BY DEF CallBack, pcm_end_callback
  <2>3. pc1 = "lock" => nodes'[cur].state = "LOCKED" /\ ret' = cur
    <3>1. pc1 = "lock" => SetState(cur, "LOCKED") /\ ret' = cur /\ cur \in Ids
      BY DEF CallBack, pcm_end_callback, SoundInv, Compared
    <3> QED BY <1>0, <3>1, StateFields
  <2> QED BY <1>1, <1>3, <1>4, <2>1, <2>2, <2>3 DEF Kept, Playing
<1>5. CASE nodes' # nodes
  <2>1. \/ pc1 = "processed" /\ pc1' = "next" /\ SetState(cur, "PROCESSED") /\ ~nodes[cur].freed
        \/ pc1 = "lock" /\ pc1' = "set" /\ SetState(cur, "LOCKED") /\ ret' = cur
    BY <1>5 DEF CallBack, pcm_end_callback, SetState
  <2>2. cur \in Ids /\ cur <= Top /\ (Fresh => cur # n) /\ pc0 \notin Setting
    <3>1. cur \in Ids /\ cur = pipe /\ cur <= Top
      BY <2>1 DEF SoundInv, Compared, OrderInv, Ordered
    <3>2. Fresh => cur # n
      BY <1>0, <3>1 DEF Top
    <3>3. pc0 \notin Setting
      BY <2>1 DEF OrderInv, Phases, Quiet
    <3> QED BY <3>1, <3>2, <3>3
  <2>3. \A i \in Ids : nodes'[i].freed = nodes[i].freed /\ (i # cur => nodes'[i].state = nodes[i].state)
    BY <1>0, <2>1, <2>2, StateFields
  <2>4. nodes'[cur].state = IF pc1 = "lock" THEN "LOCKED" ELSE "PROCESSED"
    BY <1>0, <2>1, <2>2, StateFields
  <2>5. pc1 = "lock" => nodes[cur].state = "FILLED"
    BY DEF Kept
  <2>6. \A i \in 1..made : i \in Ids /\ (nodes'[i].freed => nodes'[i].state = "PROCESSED")
    <3>1. \A i \in 1..made : i \in Ids
      BY <1>0, SoundAssumption DEF SoundInv, SoundTypeOK, Ids
    <3>2. cur \in 1..made
      BY <1>0, <2>2 DEF Ids
    <3> QED BY <2>1, <2>3, <2>4, <2>5, <3>1, <3>2 DEF Kept
  <2>7. Fresh \/ pc0 \in Setting => n \in Ids
    BY DEF OrderInv, Built, Linking
  <2>8. /\ pc0 \in {"read", "second"} \/ (pc0 \in {"state", "next", "free"} /\ back = "second") =>
             nodes'[n].state = "LOADING_STARTED"
        /\ pc0 \in {"publish"} \cup Setting => nodes'[n].state = "FILLED"
    BY <2>2, <2>3, <2>7 DEF Kept, Fresh
  <2>9. pc0 \in {"next", "free"} => nodes'[pipe2cleanup].state = "PROCESSED"
    BY <2>1, <2>3, <2>4, <2>5 DEF Kept
  <2>10. pc1' = "set" => nodes'[ret'].state = "LOCKED"
    BY <2>1, <2>4
  <2> QED BY <1>1, <1>3, <2>1, <2>6, <2>8, <2>9, <2>10 DEF Kept, Playing
<1> QED BY <1>4, <1>5

(* Core 0 leaves what core 1 plays as it is.                                *)
LEMMA PlayerKept ==
    ASSUME SoundInv, OrderInv, Kept, UNCHANGED <<m_buff, Core1>>, Top \in Nat, Top' \in Nat, Top <= Top',
           \A i \in Ids : i <= Top => nodes'[i].state = nodes[i].state,
           \A i \in 1..made' : nodes'[i].freed => nodes'[i].state = "PROCESSED"
    PROVE  /\ \A i \in 1..made' : nodes'[i].freed => nodes'[i].state = "PROCESSED"
           /\ pc1' \in Playing /\ m_buff' \in Ids => m_buff' <= Top' /\ nodes'[m_buff'].state # "PROCESSED"
           /\ pc1' = "sample" => base' = m_buff'
           /\ pc1' = "lock" => nodes'[cur'].state = "FILLED"
           /\ pc1' = "set" /\ ret' # NULL => nodes'[ret'].state = "LOCKED"
<1>1. Ids \subseteq Nat
  BY DEF Ids
<1>2. pc1 = "lock" => cur \in Ids /\ cur <= Top
  BY DEF SoundInv, Compared, OrderInv, Ordered
<1>3. pc1 = "set" /\ ret # NULL => ret \in Ids /\ ret <= Top
  BY DEF SoundInv, SoundTypeOK, OrderInv, Ordered
<1>4. pc1 \in Playing /\ m_buff \in Ids =>
        m_buff <= Top /\ m_buff <= Top' /\ nodes'[m_buff].state # "PROCESSED"
  BY <1>1 DEF Kept
<1> QED BY <1>2, <1>3, <1>4 DEF Kept, Core1

LEMMA ReadingKept ==
    ASSUME SoundInv, OrderInv, KeptInv, pcm_setup \/ Turn \/ Allocate \/ f_read \/ convert2int16buff
    PROVE  KeptInv'
<1> USE DEF Go0, ListVars, PcmVars
<1>0. Built /\ n \in Nat /\ made \in Nat /\ last_created \in Nat /\ nodes \in [Ids -> Node] /\ Top \in Nat
      /\ OrderInv' /\ SoundInv'
  BY Typed, ReadingOrder, PlayerInv DEF OrderInv, Player
<1>1. pc0 \notin Ending /\ Kept /\ UNCHANGED <<m_buff, Core1, pipe, pipe2cleanup, last_created, head>>
  BY DEF pcm_setup, Turn, Allocate, f_read, convert2int16buff, Ending, KeptInv
<1>2. Top' \in Nat
  BY <1>0, TopTyped DEF OrderInv
<1>3. CASE pcm_setup \/ Turn
  <2>1. UNCHANGED <<nodes, made, n, back>>
        /\ pc0 \in {"setup", "loop"} /\ pc0' \in {"loop", "memory", "final"}
    BY <1>3 DEF pcm_setup, Turn
  <2>2. Top' = Top
    BY <2>1 DEF Top, Fresh
  <2> QED BY <1>1, <2>1, <2>2 DEF KeptInv, Kept, Core1, Setting, Sized, Linking, Ending
<1>4. CASE (Allocate \/ convert2int16buff) /\ NoRoom
  <2>1. UNCHANGED <<nodes, made, n>>
        /\ pc0 \in {"memory", "second"} /\ back' = pc0 /\ pc0' = "state"
    BY <1>4 DEF Allocate, convert2int16buff, Cleaning
  <2>2. Top' = Top
    BY <2>1 DEF Top, Fresh
  <2>3. pipe2cleanup \in Ids
    BY <1>1, <1>4, <2>1, RoomForTwo
  <2> QED BY <1>1, <2>1, <2>2, <2>3 DEF KeptInv, Kept, Core1, Setting, Sized, Linking, Ending
<1>5. CASE Allocate /\ ~NoRoom
  <2>1. pc0 = "memory" /\ pc0' = "read" /\ back' = back /\ made' = made + 1 /\ n' = made + 1
        /\ Allocated(made + 1, "LOADING_STARTED") /\ made + 1 \in Ids
    BY <1>0, <1>5, SoundAssumption DEF Allocate, SoundInv, SoundTypeOK, Ids
  <2>2. Top = made /\ Top' = made
    BY <1>0, <2>1 DEF Top, Fresh
  <2>3. /\ nodes'[made + 1].state = "LOADING_STARTED" /\ ~nodes'[made + 1].freed
        /\ \A j \in Ids \ {made + 1} : nodes'[j] = nodes[j]
    BY <1>0, <2>1, NewFields
  <2>4. /\ \A i \in Ids : i <= Top => nodes'[i].state = nodes[i].state
        /\ \A i \in 1..made' : nodes'[i].freed => nodes'[i].state = "PROCESSED"
    <3>1. \A i \in 1..made' : i = made + 1 \/ (i \in 1..made /\ i \in Ids \ {made + 1})
      BY <1>0, <2>1, SoundAssumption DEF Ids
    <3>2. \A i \in Ids : i <= Top => i \in Ids \ {made + 1}
      BY <1>0, <2>2 DEF Ids
    <3> QED BY <1>1, <2>3, <3>1, <3>2 DEF Kept
  <2> QED BY <1>0, <1>1, <1>2, <2>1, <2>2, <2>3, <2>4, PlayerKept DEF KeptInv, Kept, Setting, Sized, Linking
<1>6. CASE f_read
  <2>1. UNCHANGED <<made, n, back>> /\ pc0 = "read" /\ n \in Ids /\ Top = n - 1
    <3>1. pc0 = "read"
      BY <1>6 DEF f_read
    <3> QED BY <1>0, <1>6, <3>1 DEF f_read, Built, Top, Fresh
  <2>2. CASE pc0' \in Ending
    BY <2>2 DEF KeptInv
  <2>3. CASE pc0' = "second" /\ nodes' = nodes
    <3>1. Top' = Top
      BY <2>1, <2>3 DEF Top, Fresh
    <3> QED BY <1>1, <2>1, <2>3, <3>1 DEF KeptInv, Kept, Core1, Setting, Sized, Linking, Ending
  <2>4. CASE pc0' = "publish" /\ SetState(n, "FILLED")
    <3>1. Top' = Top
      BY <2>1, <2>4 DEF Top, Fresh
    <3>2. nodes'[n].state = "FILLED" /\ nodes[n].state = "LOADING_STARTED"
      BY <1>0, <1>1, <2>1, <2>4, StateFields DEF Kept
    <3>3. \A j \in Ids : nodes'[j].freed = nodes[j].freed /\ (j # n => nodes'[j].state = nodes[j].state)
      BY <1>0, <2>1, <2>4, StateFields
    <3>4. \A i \in Ids : i <= Top => nodes'[i].state = nodes[i].state
      BY <1>0, <2>1, <3>3 DEF Ids
    <3>5. \A i \in 1..made' : nodes'[i].freed => nodes'[i].state = "PROCESSED"
      <4>1. \A i \in 1..made : i \in Ids
        BY <1>0, SoundAssumption DEF SoundInv, SoundTypeOK, Ids
      <4>2. n \in 1..made
        BY <1>0, <2>1 DEF Built, Ids, Fresh
      <4> QED BY <1>1, <2>1, <3>2, <3>3, <4>1, <4>2 DEF Kept
    <3> QED BY <1>0, <1>1, <1>2, <2>1, <2>4, <3>1, <3>2, <3>4, <3>5, PlayerKept
            DEF KeptInv, Kept, Setting, Sized, Linking
  <2> QED BY <1>6, <2>2, <2>3, <2>4 DEF f_read, Ending
<1>7. CASE convert2int16buff /\ ~NoRoom
  <2>1. UNCHANGED <<n, back>> /\ pc0 = "second" /\ pc0' = "publish" /\ made' = made + 1
        /\ Converted(made + 1) /\ made + 1 \in Ids
    BY <1>0, <1>7, SoundAssumption DEF convert2int16buff, SoundInv, SoundTypeOK, Ids
  <2>2. made = n /\ n \in Ids /\ Top = n - 1 /\ Top' = n - 1
    BY <1>0, <2>1 DEF Built, Fresh, Top, Linking, Setting, Sized
  <2>3. /\ \A j \in Ids \ {made + 1, n} : nodes'[j] = nodes[j]
        /\ nodes'[n].state = "FILLED" /\ nodes'[n].freed = nodes[n].freed
        /\ nodes'[made + 1].state = "FILLED" /\ ~nodes'[made + 1].freed
    <3>1. n # made + 1
      BY <1>0, <2>2
    <3> QED BY <1>0, <2>1, <2>2, <3>1, NodeFields
  <2>4. nodes[n].state = "LOADING_STARTED"
    BY <1>1, <2>1 DEF Kept
  <2>5. \A i \in Ids : i <= Top => nodes'[i].state = nodes[i].state
    <3>1. \A i \in Ids : i <= Top => i \in Ids \ {made + 1, n}
      BY <1>0, <2>2 DEF Ids
    <3> QED BY <2>3, <3>1
  <2>6. \A i \in 1..made' : nodes'[i].freed => nodes'[i].state = "PROCESSED"
    <3>1. \A i \in 1..made' : i = made + 1 \/ i = n \/ (i \in 1..made /\ i \in Ids \ {made + 1, n})
      BY <1>0, <2>1, <2>2, SoundAssumption DEF Ids
    <3>2. n \in 1..made
      BY <1>0, <2>2 DEF Ids
    <3>3. ~nodes[n].freed
      BY <1>1, <2>4, <3>2 DEF Kept
    <3> QED BY <1>1, <2>3, <3>1, <3>3 DEF Kept
  <2> QED BY <1>0, <1>1, <1>2, <2>1, <2>2, <2>3, <2>5, <2>6, PlayerKept DEF KeptInv, Kept, Setting, Sized, Linking
<1> QED BY <1>3, <1>4, <1>5, <1>6, <1>7

LEMMA SharingKept ==
    ASSUME SoundInv, OrderInv, KeptInv, Publish \/ pcm_set_buffer \/ Link
    PROVE  KeptInv'
<1> USE DEF Go0, ListVars, PcmVars
<1>0. Built /\ n \in Nat /\ made \in Nat /\ last_created \in Nat /\ nodes \in [Ids -> Node] /\ Top \in Nat
      /\ OrderInv' /\ SoundInv'
  BY Typed, PublishOrder, SetBufferOrder, LinkOrder, PlayerInv DEF OrderInv, Player
<1>1. UNCHANGED <<made, n, head, Core1>> /\ pc0 \in {"publish"} \cup Linking
  BY DEF Publish, pcm_set_buffer, Assignment, SetSizeZero, Link, Linking, Setting, Sized
<1>2. n \in Ids /\ n <= made /\ Kept /\ Top' \in Nat
  <2>1. n \in Ids /\ (made = n \/ made = n + 1)
    BY <1>0, <1>1 DEF Built, Fresh
  <2>2. Kept
    BY <1>1 DEF KeptInv, Ending, Linking, Setting, Sized
  <2> QED BY <1>0, <2>1, <2>2, TopTyped DEF OrderInv
<1>3. CASE Publish
  <2>1. UNCHANGED <<nodes, last_created, back, m_buff>> /\ pc0 = "publish"
    BY <1>3 DEF Publish
  <2>2. Top <= Top'
    BY <1>0, <1>1, <1>3, <2>1 DEF Publish, Top, Fresh, Built
  <2>3. \/ pipe = NULL /\ pipe' = n /\ pipe2cleanup' = n /\ pc0' = "cb"
        \/ pipe # NULL /\ pipe' = pipe /\ pipe2cleanup' = pipe2cleanup /\ pc0' = "link"
    BY <1>3 DEF Publish
  <2> QED BY <1>0, <1>1, <1>2, <2>1, <2>2, <2>3, PlayerKept DEF KeptInv, Kept, Setting, Sized, Linking
<1>4. CASE pcm_set_buffer
  <2>1. UNCHANGED <<nodes, pipe, pipe2cleanup, last_created, back>> /\ pc0 \in Setting \cup Sized
        /\ \/ pc0 # "buff" /\ m_buff' = m_buff
           \/ pc0 = "buff" /\ m_buff' = n
        /\ pc0' \in {"size0", "buff", "channels", "off", "size", "link"}
        /\ (pc0' \in Setting => pc0 \in Setting)
    BY <1>4 DEF pcm_set_buffer, Assignment, SetSizeZero, Setting, Sized
  <2>2. Top' = made /\ Top = made
    BY <1>1, <2>1 DEF Top, Fresh, Setting, Sized
  <2>3. CASE m_buff' = m_buff
    BY <1>0, <1>1, <1>2, <2>1, <2>2, <2>3, PlayerKept DEF KeptInv, Kept, Setting, Sized, Linking
  <2>4. CASE pc0 = "buff" /\ m_buff' = n
    <3>1. nodes[n].state = "FILLED" /\ pc1 # "sample"
      BY <1>2, <2>4 DEF Kept, OrderInv, Phases, Quiet, Setting
    <3>2. pc0' \in Linking \ Setting
      BY <1>4, <2>4 DEF pcm_set_buffer, Assignment, Linking, Setting, Sized
    <3> QED BY <1>0, <1>1, <1>2, <2>1, <2>2, <2>4, <3>1, <3>2 DEF KeptInv, Kept, Core1, Linking, Sized, Setting
  <2> QED BY <2>1, <2>3, <2>4
<1>5. CASE Link
  <2>1. UNCHANGED <<pipe, pipe2cleanup, m_buff>> /\ pc0 = "link" /\ pc0' = "state" /\ back' = "loop"
    BY <1>5 DEF Link, Cleaning
  <2>2. Top' = Top
    BY <1>1, <2>1 DEF Top, Fresh
  <2>3. \A i \in Ids : nodes'[i].state = nodes[i].state /\ nodes'[i].freed = nodes[i].freed
    <3>1. nodes' = nodes \/ nodes' = [nodes EXCEPT ![last_created].next = n]
      BY <1>5 DEF Link
    <3>2. nodes' = [nodes EXCEPT ![last_created].next = n] =>
            \A i \in Ids : nodes'[i].freed = nodes[i].freed /\ nodes'[i].state = nodes[i].state
      BY <1>0, NodeFields
    <3> QED BY <3>1, <3>2
  <2>4. \A i \in 1..made : i \in Ids
    BY <1>0, SoundAssumption DEF SoundInv, SoundTypeOK, Ids
  <2>5. \A i \in 1..made' : nodes'[i].freed => nodes'[i].state = "PROCESSED"
    BY <1>1, <1>2, <2>3, <2>4 DEF Kept
  <2>6. pipe2cleanup \in Ids
    BY <1>2, <2>1 DEF Kept, Linking
  <2> QED BY <1>0, <1>1, <1>2, <2>1, <2>2, <2>3, <2>5, <2>6, PlayerKept DEF KeptInv, Kept, Setting
<1> QED BY <1>3, <1>4, <1>5

LEMMA CleanupKept ==
    ASSUME SoundInv, OrderInv, KeptInv, Cleanup
    PROVE  KeptInv'
<1> USE DEF Go0, ListVars, PcmVars
<1>0. Built /\ n \in Nat /\ made \in Nat /\ nodes \in [Ids -> Node] /\ Top \in Nat /\ back \in {"loop", "memory", "second"}
  BY Typed DEF OrderInv, SoundInv, SoundTypeOK
<1>1. UNCHANGED <<made, pipe, last_created, n, back, m_buff, Core1>> /\ pc0 \in {"state", "next", "free"}
      /\ pc0' \in {"state", "next", "free", back}
  BY DEF Cleanup, try_cleanup_it
<1>2. Kept /\ Top' = Top /\ pipe2cleanup \in Ids
  BY <1>0, <1>1 DEF KeptInv, Kept, Ending, Top, Fresh
<1>3. \A i \in Ids : nodes'[i].state = nodes[i].state
                      /\ (nodes'[i].freed => nodes[i].freed \/ nodes[i].state = "PROCESSED")
  <2>1. CASE nodes' = nodes
    BY <2>1
  <2>2. CASE pc0 = "free" /\ nodes' = [nodes EXCEPT ![pipe2cleanup].freed = TRUE]
    BY <1>0, <1>2, <2>2, NodeFields DEF Kept
  <2> QED BY <2>1, <2>2 DEF Cleanup, try_cleanup_it
<1>4. \A i \in 1..made' : nodes'[i].freed => nodes'[i].state = "PROCESSED"
  <2>1. \A i \in 1..made : i \in Ids
    BY <1>0, SoundAssumption DEF SoundInv, SoundTypeOK, Ids
  <2> QED BY <1>1, <1>2, <1>3, <2>1 DEF Kept
<1>5. /\ pipe2cleanup' \in Ids
      /\ pc0' \in {"next", "free"} => nodes'[pipe2cleanup'].state = "PROCESSED"
      /\ pc0' = "free" => head' \in Ids
  <2>1. CASE pc0 = "state"
    <3>1. pipe2cleanup' = pipe2cleanup /\ nodes' = nodes /\ pc0' = IF Played THEN "next" ELSE back
      BY <2>1 DEF Cleanup, try_cleanup_it
    <3> QED BY <1>0, <1>2, <3>1 DEF Played
  <2>2. CASE pc0 = "next"
    <3>1. pipe2cleanup' = pipe2cleanup /\ nodes' = nodes /\ head' = nodes[pipe2cleanup].next
          /\ pc0' = IF head' = NULL THEN back ELSE "free"
      BY <2>2 DEF Cleanup, try_cleanup_it
    <3>2. nodes[pipe2cleanup].next \in Ids \cup {NULL}
      BY <1>0, <1>2 DEF Node
    <3> QED BY <1>0, <1>2, <2>2, <3>1, <3>2 DEF Kept
  <2>3. CASE pc0 = "free"
    <3>1. pipe2cleanup' = head /\ pc0' = "state"
      BY <2>3 DEF Cleanup, try_cleanup_it
    <3> QED BY <1>2, <2>3, <3>1 DEF Kept
  <2> QED BY <1>1, <2>1, <2>2, <2>3
<1>6. Fresh => n \in Ids
  BY <1>0 DEF Built
<1>7. pc0' = "second" \/ (pc0' \in {"state", "next", "free"} /\ back = "second") => nodes'[n].state = "LOADING_STARTED"
  BY <1>0, <1>1, <1>2, <1>3, <1>6 DEF Kept, Fresh
<1> QED BY <1>0, <1>1, <1>2, <1>3, <1>4, <1>5, <1>7, PlayerKept DEF KeptInv, Kept, Setting, Sized, Linking

LEMMA NextKept ==
    ASSUME SoundInv, OrderInv, KeptInv, [Next]_vars
    PROVE  KeptInv'
<1>1. CASE pcm_setup \/ Turn \/ Allocate \/ f_read \/ convert2int16buff
  BY <1>1, ReadingKept
<1>2. CASE Publish \/ pcm_set_buffer \/ Link
  BY <1>2, SharingKept
<1>3. CASE Cleanup
  BY <1>3, CleanupKept
<1>4. CASE Final \/ pcm_cleanup
  BY <1>4 DEF Final, pcm_cleanup, KeptInv, Ending, Go0
<1>5. CASE Output
  <2>1. pc0' = pc0
    BY <1>5 DEF Output, pcm_call, CallBack, Switch, Core0
  <2> QED BY <1>5, <2>1, FrameKept, CallBackKept DEF Output, KeptInv
<1>6. CASE timer_callback \/ UNCHANGED vars
  <2>1. UNCHANGED <<nodes, made, pipe, pipe2cleanup, last_created, n, back, head, pc0, m_buff, Core1>>
    BY <1>6 DEF timer_callback, vars, ListVars, PcmVars, Core0
  <2>2. Top' = Top
    BY <2>1 DEF Top, Fresh
  <2> QED BY <2>1, <2>2 DEF KeptInv, Kept, Core1
<1> QED BY <1>1, <1>2, <1>3, <1>4, <1>5, <1>6 DEF Next, Player

LEMMA InitKept == Init => KeptInv
<1> SUFFICES ASSUME Init PROVE Kept
  BY DEF KeptInv
<1>1. pc0 = "setup" /\ made = 0 /\ last_created = NULL /\ pipe = NULL /\ pc1 = "wait" /\ back = "loop"
      /\ m_buff \in {NULL, Old}
  BY DEF Init
<1>2. m_buff \notin Ids
  BY <1>1, SoundAssumption DEF Ids, NULL, Old
<1> QED BY <1>1, <1>2 DEF Kept, Setting, Sized, Linking

(* While the file is read, the chunk core 1 takes a sample of is allocated. *)
THEOREM ReadsFromLive == Spec => []ReadsLive
<1>1. Init => SoundInv /\ OrderInv /\ KeptInv
  BY InitInv, InitOrder, InitKept
<1>2. SoundInv /\ OrderInv /\ KeptInv /\ [Next]_vars => SoundInv' /\ OrderInv' /\ KeptInv'
  BY NextInv, NextOrder, NextKept
<1>3. SoundInv /\ OrderInv /\ KeptInv => ReadsLive
  <2> SUFFICES ASSUME SoundInv, OrderInv, KeptInv, pc1 = "sample", pc0 \notin Ending PROVE base \in Live
    BY DEF ReadsLive, Ending
  <2>1. base \in Ids /\ base = m_buff /\ base <= Top /\ nodes[base].state # "PROCESSED"
    BY DEF SoundInv, ReadsInBounds, KeptInv, Kept, Playing
  <2>2. base \in 1..made /\ base <= made
    BY <2>1, Typed DEF OrderInv, Ids
  <2> QED BY <2>1, <2>2 DEF Live, KeptInv, Kept
<1> QED BY <1>1, <1>2, <1>3, PTL DEF Spec
=============================================================================
