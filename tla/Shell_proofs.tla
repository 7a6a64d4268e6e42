---------------------------- MODULE Shell_proofs ----------------------------
(***************************************************************************)
(* Proofs about the contexts: whatever lines are entered and however the   *)
(* programs end or are killed, every FIL has one owner, nothing is freed   *)
(* twice, the prompt is clean, pipelines stay joined and the Ctrl+C        *)
(* handler is that of a program still loaded.                              *)
(***************************************************************************)
EXTENDS Shell, FiniteSetTheorems, SequenceTheorems, TLAPS

CtxType == [live : {"none", "live", "freed"}, cmd : Nat \X Nat,
            argv : {"none", "held", "freed"}, in : {0} \cup Fils,
            out : {0} \cup Fils, err : {0} \cup Fils, next : Contexts,
            boot : BOOLEAN, stage : {"INITIAL", "PREPARED", "LOAD", "SIGTERM"},
            detached : BOOLEAN]

(* A context that owns nothing.                                             *)
CleanCtx(r) == /\ r.in = 0 /\ r.out = 0 /\ r.err = 0 /\ r.next = 0 /\ r.argv = "none"
               /\ r.stage = "INITIAL" /\ r.detached = FALSE /\ r.cmd = NoCmd

(* The contexts vCmdTask may run: neither a clone nor freed; those among    *)
(* them whose program is loaded, and those that wait to be run.             *)
Own(c) == task[c] = "none" /\ ctx[c].live = "live"
Loaded(c) == Own(c) /\ ctx[c].stage = "LOAD"
Waiting == {c \in Contexts : Own(c) /\ ctx[c].stage \in {"PREPARED", "LOAD"} /\ ctx[c].cmd # Comspec}

(* Identities are taken in order, and there are enough of them.             *)
Fresh ==
    /\ \A c \in Contexts : c > nctx => ctx[c].live = "none" /\ task[c] = "none"
    /\ \A f \in Fils : f > nfil => fil[f] = "none"
    /\ \A c \in Contexts : (\A f \in Files(ctx[c]) : f <= nfil) /\ ctx[c].cmd[1] <= lines
    /\ task[0] = "none" /\ ctx[0].live = "live"
Bounds == nfil <= (3 * MaxCmds) * lines /\ nctx + Cardinality(Waiting) <= (2 * MaxCmds) * lines

(* What the command, the arguments and the stage of a context say of each   *)
(* other.                                                                   *)
Arguments ==
    \A c \in Contexts :
      /\ ctx[c].cmd = Comspec => c = 0 /\ ctx[c].next = 0 /\ ctx[c].detached = FALSE /\ ctx[c].stage = "LOAD"
      /\ task[c] = "none" => ctx[c].argv # "freed"
      /\ Own(c) /\ ctx[c].argv = "held" => ctx[c].stage \in {"PREPARED", "LOAD"}
      /\ Own(c) /\ ctx[c].stage = "PREPARED" => ctx[c].argv = "held"

(* A chain is made of contexts vCmdTask runs, each in one chain, all but    *)
(* the last detached; what follows a loaded one is loaded.                  *)
Links ==
    /\ \A c \in Contexts : Own(c) /\ ctx[c].next # 0 => Own(ctx[c].next) /\ ctx[c].detached = TRUE
    /\ \A c, d \in Contexts : Own(c) /\ Own(d) /\ ctx[c].next = ctx[d].next /\ ctx[c].next # 0 => c = d
    /\ \A c \in Contexts : Loaded(c) => /\ ctx[c].boot = TRUE /\ ctx[c].argv = "held"
                                        /\ ctx[c].next # 0 => Loaded(ctx[c].next)

(* The context of a detached task.                                          *)
Detached ==
    \A c \in Contexts :
      /\ task[c] \in {"created", "main", "ended"} =>
           ctx[c].live = "live" /\ ctx[c].boot = TRUE /\ ctx[c].argv = "held"
      /\ task[c] = "closed" => ctx[c].live = "live"
      /\ task[c] = "removed" => ctx[c].live = "freed"

(* Each FIL has one owner, and is allocated unless the owner just freed it. *)
Owned ==
    /\ \A c, d \in Contexts : ctx[c].live = "live" /\ ctx[d].live = "live" /\ c # d =>
         Files(ctx[c]) \cap Files(ctx[d]) = {}
    /\ \A c \in Contexts : ctx[c].live = "live" /\ task[c] # "closed" =>
         \A f \in Files(ctx[c]) : fil[f] \in {"unopened", "open"}

Types ==
    /\ ctx \in [Contexts -> CtxType]
    /\ fil \in [Fils -> {"none", "unopened", "open", "freed"}] /\ peer \in [Fils -> {0} \cup Fils]
    /\ nctx \in Contexts /\ nfil \in Nat /\ lines \in 0..MaxLines
    /\ task \in [Contexts -> {"none", "created", "main", "ended", "closed", "removed", "gone"}]
CtxInv == Types /\ Fresh /\ Bounds /\ Arguments /\ Links /\ Detached /\ Owned /\ Joined

(* Where vCmdTask is.                                                       *)
Control ==
    /\ pc \in {"top", "exec", "main", "prompt", "after"}
    /\ cur \in Contexts /\ follow \in Contexts /\ signal \subseteq Contexts
    /\ Own(cur)
    /\ pc = "top" => cur = 0 /\ ctx[0].stage # "LOAD" /\ (ctx[0].argv = "none" => CleanCtx(ctx[0]))
    /\ pc = "prompt" => cur = 0 /\ CleanCtx(ctx[0])
    /\ pc \in {"exec", "main", "after"} /\ cur # 0 => CleanCtx(ctx[0])
    /\ pc \in {"exec", "main"} \/ (pc = "after" /\ cur # 0) => Loaded(cur)
    /\ pc \in {"main", "after"} => ctx[cur].cmd # Comspec
    /\ pc \in {"main", "prompt", "after"} => follow = 0
    /\ pc # "top" /\ cur # 0 => \A c \in Contexts : Loaded(c) => ctx[c].next # cur

(* Whose handler bootb_sync_signal may be.                                  *)
Handler ==
    \A c \in signal : /\ ctx[c].boot = TRUE
                      /\ \/ task[c] \in {"main", "gone"}
                         \/ task[c] = "none" /\ c = cur /\ pc \in {"main", "prompt"}

ContextInv == CtxInv /\ Control /\ Handler /\ NoDoubleFree

-----------------------------------------------------------------------------
(* Records.                                                                 *)
LEMMA Products == ASSUME NEW a \in Nat, NEW b \in Nat PROVE a * b \in Nat
OBVIOUS

LEMMA Numbers ==
    /\ 0 \in Contexts /\ Contexts \subseteq Nat /\ Fils \subseteq Nat \ {0}
    /\ \A n \in Nat : n <= 2 * MaxLines * MaxCmds <=> n \in Contexts
    /\ \A n \in Nat \ {0} : n <= 3 * MaxLines * MaxCmds <=> n \in Fils
<1>0. 2 * MaxLines \in Nat /\ 3 * MaxLines \in Nat /\ MaxCmds \in Nat
  <2>1. 2 \in Nat /\ 3 \in Nat /\ MaxLines \in Nat /\ MaxCmds \in Nat
    BY ShellAssumption
  <2> QED BY <2>1, Products
<1>1. PICK m \in Nat : m = 2 * MaxLines * MaxCmds
  BY <1>0, Products
<1>2. PICK n \in Nat : n = 3 * MaxLines * MaxCmds
  BY <1>0, Products
<1>3. Contexts = 0..m /\ Fils = 1..n
  BY <1>1, <1>2 DEF Contexts, Fils
<1> QED BY <1>1, <1>2, <1>3

LEMMA ClearedIs ==
    ASSUME NEW r
    PROVE  /\ Cleared(r).live = r.live /\ Cleared(r).boot = r.boot /\ CleanCtx(Cleared(r))
           /\ (r.live \in {"none", "live", "freed"} /\ r.boot \in BOOLEAN => Cleared(r) \in CtxType)
<1>1. NoCmd \in Nat \X Nat /\ 0 \in Contexts
  BY Numbers DEF NoCmd
<1>2. CleanCtx(Cleared(r)) /\ Cleared(r).live = r.live /\ Cleared(r).boot = r.boot
  BY DEF CleanCtx, Cleared
<1>3. r.live \in {"none", "live", "freed"} /\ r.boot \in BOOLEAN => Cleared(r) \in CtxType
  BY <1>1 DEF CtxType, Cleared
<1> QED BY <1>2, <1>3

(* clone_ctx leaves a context with nothing but its argv.                    *)
LEMMA LeftBehindIs ==
    ASSUME NEW r \in CtxType
    PROVE  /\ Files(LeftBehind(r)) = {}
           /\ Cleared(LeftBehind(r)).live = r.live /\ Cleared(LeftBehind(r)).boot = FALSE
           /\ CleanCtx(Cleared(LeftBehind(r))) /\ Cleared(LeftBehind(r)) \in CtxType
<1> DEFINE a == [r EXCEPT !.in = 0]
           b == [a EXCEPT !.out = 0]
           c == [b EXCEPT !.err = 0]
           d == [c EXCEPT !.next = 0]
           e == [d EXCEPT !.boot = FALSE]
<1>1. LeftBehind(r) = e
  BY DEF LeftBehind
<1>2. a \in CtxType /\ a.in = 0 /\ a.live = r.live
  BY DEF CtxType
<1> HIDE DEF a
<1>3. b \in CtxType /\ b.in = 0 /\ b.out = 0 /\ b.live = r.live
  BY <1>2 DEF CtxType
<1> HIDE DEF b
<1>4. c \in CtxType /\ c.in = 0 /\ c.out = 0 /\ c.err = 0 /\ c.live = r.live
  BY <1>3 DEF CtxType
<1> HIDE DEF c
<1>5. d \in CtxType /\ d.in = 0 /\ d.out = 0 /\ d.err = 0 /\ d.live = r.live
  BY <1>4, Numbers DEF CtxType
<1> HIDE DEF d
<1>6. e \in CtxType /\ e.in = 0 /\ e.out = 0 /\ e.err = 0 /\ e.live = r.live /\ e.boot = FALSE
  BY <1>5 DEF CtxType
<1> HIDE DEF e
<1>7. r.live \in {"none", "live", "freed"}
  BY DEF CtxType
<1> QED BY <1>1, <1>6, <1>7, ClearedIs DEF Files

(* Counting contexts.                                                       *)
LEMMA CountOf ==
    ASSUME NEW S, S \subseteq Contexts, NEW T, T \subseteq S
    PROVE  /\ IsFiniteSet(S) /\ Cardinality(S) \in Nat
           /\ IsFiniteSet(T) /\ Cardinality(T) \in Nat /\ Cardinality(T) <= Cardinality(S)
<1>1. IsFiniteSet(Contexts)
  <2>1. 2 * MaxLines \in Nat /\ MaxCmds \in Nat
    <3>1. 2 \in Nat /\ MaxLines \in Nat /\ MaxCmds \in Nat
      BY ShellAssumption
    <3> QED BY <3>1, Products
  <2>2. PICK m \in Nat : m = 2 * MaxLines * MaxCmds
    BY <2>1, Products
  <2>3. IsFiniteSet(0..m)
    BY FS_Interval
  <2> QED BY <2>2, <2>3 DEF Contexts
<1>2. IsFiniteSet(S)
  BY <1>1, FS_Subset
<1>3. IsFiniteSet(T) /\ Cardinality(T) <= Cardinality(S)
  BY <1>2, FS_Subset
<1> QED BY <1>2, <1>3, FS_CardinalityType

LEMMA LinesAre ==
    ASSUME CtxInv
    PROVE  /\ lines \in Nat /\ 2 * MaxCmds \in Nat /\ 3 * MaxCmds \in Nat
           /\ (2 * MaxCmds) * lines \in Nat /\ (3 * MaxCmds) * lines \in Nat
<1>1. MaxLines \in Nat /\ MaxCmds \in Nat /\ 2 \in Nat /\ 3 \in Nat
  BY ShellAssumption
<1>2. lines \in Nat
  BY <1>1 DEF CtxInv, Types
<1>3. 2 * MaxCmds \in Nat /\ 3 * MaxCmds \in Nat
  BY <1>1, Products
<1> QED BY <1>2, <1>3, Products

LEMMA WaitingTypes == Waiting \subseteq Contexts
BY DEF Waiting

-----------------------------------------------------------------------------
(* cleanup_ctx: one context is emptied, and what it owned is freed.         *)
LEMMA ClearKeeps ==
    ASSUME CtxInv, NEW c \in Contexts, NEW r \in CtxType, r.live = ctx[c].live, CleanCtx(r),
           ctx' = [ctx EXCEPT ![c] = r], UNCHANGED <<peer, nctx, nfil, lines>>,
           \/ task' = task /\ task[c] = "none" /\ \A d \in Contexts : Loaded(d) => ctx[d].next # c \/ c = 0
           \/ task' = [task EXCEPT ![c] = "gone"] /\ task[c] # "none",
           fil' \in [Fils -> {"none", "unopened", "open", "freed"}],
           \/ fil' = fil
           \/ ctx[c].live = "live" /\ \A f \in Fils : f \notin Files(ctx[c]) => fil'[f] = fil[f]
    PROVE  CtxInv'
<1>1. /\ ctx'[c] = r /\ \A d \in Contexts : d # c => ctx'[d] = ctx[d] /\ task'[d] = task[d]
      /\ task'[c] \in {task[c], "gone"} /\ (task'[c] = "none" <=> task[c] = "none")
      /\ task' \in [Contexts -> {"none", "created", "main", "ended", "closed", "removed", "gone"}]
  BY DEF CtxInv, Types
<1>2. Files(r) = {} /\ r.next = 0 /\ r.argv = "none" /\ r.stage = "INITIAL" /\ r.cmd = NoCmd /\ r.cmd # Comspec
  BY DEF CleanCtx, Files, NoCmd, Comspec
<1>3. Types'
  BY <1>1 DEF CtxInv, Types
<1>4. \A d \in Contexts : Own(d)' <=> (d # c /\ Own(d)) \/ (d = c /\ Own(c) /\ task'[c] = "none")
  BY <1>1 DEF Own
<1>5. Fresh'
  <2>1. \A d \in Contexts : d > nctx => ctx'[d].live = "none" /\ task'[d] = "none"
    BY <1>1 DEF CtxInv, Fresh
  <2>2. \A f \in Fils : f > nfil => fil'[f] = "none"
    <3> SUFFICES ASSUME NEW f \in Fils, f > nfil PROVE fil'[f] = "none"
      OBVIOUS
    <3>1. f \notin Files(ctx[c])
      BY Numbers DEF CtxInv, Fresh, Types
    <3> QED BY <3>1 DEF CtxInv, Fresh
  <2>3. ASSUME NEW d \in Contexts
        PROVE  (\A f \in Files(ctx'[d]) : f <= nfil) /\ ctx'[d].cmd[1] <= lines
    <3>1. lines \in Nat /\ r.cmd[1] = 0
      BY <1>2, LinesAre DEF NoCmd
    <3> QED BY <1>1, <1>2, <3>1 DEF CtxInv, Fresh
  <2>4. task'[0] = "none" /\ ctx'[0].live = "live"
    BY <1>1, Numbers DEF CtxInv, Fresh
  <2> QED BY <2>1, <2>2, <2>3, <2>4 DEF Fresh, Files
<1>6. Bounds'
  <2>1. Waiting' \subseteq Waiting
    BY <1>1, <1>2, <1>4 DEF Waiting
  <2>2. PICK w \in Nat, v \in Nat : w = Cardinality(Waiting) /\ v = Cardinality(Waiting') /\ v <= w
    BY <2>1, WaitingTypes, CountOf
  <2>3. nctx \in Nat /\ nctx + w <= (2 * MaxCmds) * lines /\ (2 * MaxCmds) * lines \in Nat
    <3> QED BY <2>2, LinesAre, Numbers DEF CtxInv, Types, Bounds
  <2>4. nctx + v <= (2 * MaxCmds) * lines
    BY <2>2, <2>3
  <2> QED BY <2>2, <2>4 DEF CtxInv, Bounds
<1>7. Arguments'
  BY <1>1, <1>2, <1>4 DEF CtxInv, Arguments
<1>8. Links'
  <2>1. \A d \in Contexts : Own(d) /\ ctx[d].next # 0 => Own(ctx[d].next) /\ ctx[d].next \in Contexts
    BY DEF CtxInv, Links, Types, CtxType
  <2>2. ASSUME NEW d \in Contexts, Loaded(d), d # c PROVE ctx[d].next # 0 => ctx[d].next # c
    BY <1>1, <2>1, <2>2 DEF Own, Loaded
  <2>3. \A d \in Contexts : Loaded(d)' <=> d # c /\ Loaded(d)
    BY <1>1, <1>2, <1>4 DEF Loaded
  <2>4. \A d \in Contexts : Own(d)' /\ ctx'[d].next # 0 => Own(ctx[d].next)' /\ ctx'[d].detached = TRUE
    <3>1. ASSUME NEW d \in Contexts, d # c, Own(d), ctx[d].next # 0
          PROVE  Own(ctx[d].next)' /\ ctx[d].detached = TRUE
      <4>1. Own(ctx[d].next) /\ ctx[d].detached = TRUE
        BY <3>1 DEF CtxInv, Links
      <4>2. Own(ctx[d].next)'
        BY <1>1, <1>4, <2>1, <3>1, <4>1 DEF Own
      <4> QED BY <4>1, <4>2
    <3> QED BY <1>1, <1>2, <1>4, <3>1
  <2>5. \A d, e \in Contexts : Own(d)' /\ Own(e)' /\ ctx'[d].next = ctx'[e].next /\ ctx'[d].next # 0 => d = e
    BY <1>1, <1>2, <1>4 DEF CtxInv, Links
  <2>6. \A d \in Contexts : Loaded(d)' => /\ ctx'[d].boot = TRUE /\ ctx'[d].argv = "held"
                                          /\ ctx'[d].next # 0 => Loaded(ctx[d].next)'
    <3>1. ASSUME NEW d \in Contexts, d # c, Loaded(d), ctx[d].next # 0
          PROVE  Loaded(ctx[d].next)'
      <4>1. ctx[d].next \in Contexts /\ ctx[d].next # c /\ Loaded(ctx[d].next)
        BY <2>1, <2>2, <3>1 DEF CtxInv, Links, Loaded
      <4>2. ctx'[d] = ctx[d]
        BY <1>1, <3>1
      <4> QED BY <1>1, <4>1, <4>2 DEF Loaded, Own
    <3>2. ASSUME NEW d \in Contexts, d # c, Loaded(d)
          PROVE  ctx'[d].boot = TRUE /\ ctx'[d].argv = "held"
      BY <1>1, <3>2 DEF CtxInv, Links
    <3> QED BY <1>1, <2>3, <3>1, <3>2
  <2> QED BY <2>4, <2>5, <2>6 DEF Links, Own, Loaded
<1>9. Detached'
  BY <1>1, <1>2 DEF CtxInv, Detached, Types
<1>10. Owned'
  <2>1. \A d, e \in Contexts : ctx'[d].live = "live" /\ ctx'[e].live = "live" /\ d # e =>
          Files(ctx'[d]) \cap Files(ctx'[e]) = {}
    BY <1>1, <1>2 DEF CtxInv, Owned
  <2>2. ASSUME NEW d \in Contexts, ctx'[d].live = "live", task'[d] # "closed", NEW f \in Files(ctx'[d])
        PROVE  fil'[f] \in {"unopened", "open"}
    <3>1. d # c
      BY <1>1, <1>2, <2>2
    <3>2. f \in Files(ctx[d]) /\ ctx[d].live = "live" /\ task[d] # "closed" /\ f \in Fils
      BY <1>1, <2>2, <3>1 DEF CtxInv, Types, CtxType, Files
    <3>3. fil[f] \in {"unopened", "open"}
      BY <3>2 DEF CtxInv, Owned
    <3>4. ctx[c].live = "live" => f \notin Files(ctx[c])
      BY <3>1, <3>2 DEF CtxInv, Owned
    <3> QED BY <3>2, <3>3, <3>4
  <2> QED BY <2>1, <2>2 DEF Owned, Files
<1>11. Joined'
  <2> SUFFICES ASSUME NEW d \in Contexts, NEW e \in Contexts,
                      ctx'[d].live = "live", ctx'[d].argv = "held", ctx'[d].cmd[1] > 0,
                      ctx'[e].live = "live", ctx'[e].argv = "held",
                      ctx'[e].cmd = <<ctx'[d].cmd[1], ctx'[d].cmd[2] + 1>>
               PROVE  ctx'[d].out # 0 /\ ctx'[e].in = peer[ctx'[d].out] /\ ctx'[d].err = ctx'[d].out
    BY DEF Joined
  <2>1. d # c /\ e # c
    BY <1>1, <1>2
  <2> QED BY <1>1, <2>1 DEF CtxInv, Joined
<1> QED BY <1>3, <1>5, <1>6, <1>7, <1>8, <1>9, <1>10, <1>11 DEF CtxInv

(* The task of a detached program moves on; its context loses what it loses. *)
LEMMA TaskKeeps ==
    ASSUME CtxInv, NEW c \in Contexts, NEW r \in CtxType, NEW t,
           ctx' = [ctx EXCEPT ![c] = r], task' = [task EXCEPT ![c] = t], UNCHANGED <<peer, nctx, nfil, lines>>,
           task[c] # "none", t \in {"created", "main", "ended", "closed", "removed", "gone"},
           r.cmd = ctx[c].cmd, r.in = ctx[c].in, r.out = ctx[c].out, r.err = ctx[c].err,
           r.live = "live" => ctx[c].live = "live",
           r.live = "live" /\ r.argv = "held" => ctx[c].argv = "held",
           t \in {"created", "main", "ended"} => r.live = "live" /\ r.boot = TRUE /\ r.argv = "held",
           t = "closed" => r.live = "live",
           t = "removed" => r.live = "freed",
           fil' \in [Fils -> {"none", "unopened", "open", "freed"}],
           \/ fil' = fil /\ (r.live = "live" /\ t # "closed" => task[c] # "closed")
           \/ /\ ctx[c].live = "live" /\ t = "closed"
              /\ \A f \in Fils : f \notin Files(ctx[c]) => fil'[f] = fil[f]
    PROVE  CtxInv'
<1>1. /\ ctx'[c] = r /\ \A d \in Contexts : d # c => ctx'[d] = ctx[d] /\ task'[d] = task[d]
      /\ task'[c] = t /\ t # "none" /\ c # 0
      /\ task' \in [Contexts -> {"none", "created", "main", "ended", "closed", "removed", "gone"}]
  BY DEF CtxInv, Types, Fresh
<1>2. Files(r) = Files(ctx[c]) /\ r.cmd # Comspec
  BY <1>1 DEF Files, CtxInv, Arguments
<1>3. Types'
  BY <1>1 DEF CtxInv, Types
<1>4. \A d \in Contexts : Own(d)' <=> d # c /\ Own(d)
  BY <1>1 DEF Own
<1>5. Fresh'
  <2>1. \A d \in Contexts : d > nctx => ctx'[d].live = "none" /\ task'[d] = "none"
    BY <1>1 DEF CtxInv, Fresh
  <2>2. \A f \in Fils : f > nfil => fil'[f] = "none"
    <3> SUFFICES ASSUME NEW f \in Fils, f > nfil PROVE fil'[f] = "none"
      OBVIOUS
    <3>1. f \notin Files(ctx[c])
      BY Numbers DEF CtxInv, Fresh, Types
    <3> QED BY <3>1 DEF CtxInv, Fresh
  <2>3. ASSUME NEW d \in Contexts
        PROVE  (\A f \in Files(ctx'[d]) : f <= nfil) /\ ctx'[d].cmd[1] <= lines
    BY <1>1, <1>2 DEF CtxInv, Fresh
  <2>4. task'[0] = "none" /\ ctx'[0].live = "live"
    BY <1>1, Numbers DEF CtxInv, Fresh
  <2> QED BY <2>1, <2>2, <2>3, <2>4 DEF Fresh, Files
<1>6. Bounds'
  <2>1. Waiting' = Waiting
    BY <1>1, <1>4 DEF Waiting, Own
  <2> QED BY <2>1 DEF CtxInv, Bounds
<1>7. Arguments'
  BY <1>1, <1>2, <1>4 DEF CtxInv, Arguments
<1>8. Links'
  <2>1. \A d \in Contexts : Own(d) /\ ctx[d].next # 0 =>
          Own(ctx[d].next) /\ ctx[d].next \in Contexts /\ ctx[d].next # c /\ ctx[d].detached = TRUE
    BY <1>1 DEF CtxInv, Links, Types, CtxType, Own
  <2>2. \A d \in Contexts : Loaded(d)' <=> d # c /\ Loaded(d)
    BY <1>1, <1>4 DEF Loaded, Own
  <2>3. ASSUME NEW d \in Contexts, d # c, Own(d), ctx[d].next # 0
        PROVE  Own(ctx[d].next)' /\ ctx'[d].detached = TRUE
    <3>1. ctx'[d] = ctx[d]
      BY <1>1, <2>3
    <3> QED BY <1>1, <2>1, <2>3, <3>1 DEF Own
  <2>4. ASSUME NEW d \in Contexts, d # c, Loaded(d)
        PROVE  ctx'[d].boot = TRUE /\ ctx'[d].argv = "held" /\ (ctx'[d].next # 0 => Loaded(ctx[d].next)')
    <3>1. ctx'[d] = ctx[d] /\ ctx[d].boot = TRUE /\ ctx[d].argv = "held" /\ Own(d)
          /\ (ctx[d].next # 0 => Loaded(ctx[d].next))
      BY <1>1, <2>4 DEF CtxInv, Links, Loaded
    <3>2. ctx[d].next # 0 => Loaded(ctx[d].next)'
      BY <1>1, <2>1, <3>1 DEF Loaded, Own
    <3> QED BY <3>1, <3>2
  <2>5. \A d, e \in Contexts : Own(d)' /\ Own(e)' /\ ctx'[d].next = ctx'[e].next /\ ctx'[d].next # 0 => d = e
    BY <1>1, <1>4 DEF CtxInv, Links
  <2>6. \A d \in Contexts : Own(d)' /\ ctx'[d].next # 0 => Own(ctx[d].next)' /\ ctx'[d].detached = TRUE
    BY <1>1, <1>4, <2>3
  <2>7. \A d \in Contexts : Loaded(d)' => /\ ctx'[d].boot = TRUE /\ ctx'[d].argv = "held"
                                          /\ ctx'[d].next # 0 => Loaded(ctx[d].next)'
    BY <2>2, <2>4
  <2> QED BY <2>5, <2>6, <2>7 DEF Links, Own, Loaded
<1>9. Detached'
  BY <1>1 DEF CtxInv, Detached, Types
<1>10. Owned'
  <2>1. \A d, e \in Contexts : ctx'[d].live = "live" /\ ctx'[e].live = "live" /\ d # e =>
          Files(ctx'[d]) \cap Files(ctx'[e]) = {}
    <3>1. ASSUME NEW d \in Contexts
          PROVE  Files(ctx'[d]) = Files(ctx[d]) /\ (ctx'[d].live = "live" => ctx[d].live = "live")
      BY <1>1, <1>2
    <3> QED BY <3>1 DEF CtxInv, Owned
  <2>2. ASSUME NEW d \in Contexts, ctx'[d].live = "live", task'[d] # "closed", NEW f \in Files(ctx'[d])
        PROVE  fil'[f] \in {"unopened", "open"}
    <3>1. CASE d = c
      <4>1. fil' = fil /\ task[c] # "closed" /\ ctx[c].live = "live"
        BY <1>1, <2>2, <3>1
      <4> QED BY <1>1, <1>2, <2>2, <3>1, <4>1 DEF CtxInv, Owned
    <3>2. CASE d # c
      <4>1. f \in Files(ctx[d]) /\ ctx[d].live = "live" /\ task[d] # "closed" /\ f \in Fils
        BY <1>1, <2>2, <3>2 DEF CtxInv, Types, CtxType, Files
      <4>2. fil[f] \in {"unopened", "open"}
        BY <4>1 DEF CtxInv, Owned
      <4>3. ctx[c].live = "live" => f \notin Files(ctx[c])
        BY <3>2, <4>1 DEF CtxInv, Owned
      <4> QED BY <4>1, <4>2, <4>3
    <3> QED BY <3>1, <3>2
  <2> QED BY <2>1, <2>2 DEF Owned, Files
<1>11. Joined'
  <2> SUFFICES ASSUME NEW d \in Contexts, NEW e \in Contexts,
                      ctx'[d].live = "live", ctx'[d].argv = "held", ctx'[d].cmd[1] > 0,
                      ctx'[e].live = "live", ctx'[e].argv = "held",
                      ctx'[e].cmd = <<ctx'[d].cmd[1], ctx'[d].cmd[2] + 1>>
               PROVE  ctx'[d].out # 0 /\ ctx'[e].in = peer[ctx'[d].out] /\ ctx'[d].err = ctx'[d].out
    BY DEF Joined
  <2> DEFINE Same(x) == /\ ctx[x].live = "live" /\ ctx[x].argv = "held" /\ ctx'[x].cmd = ctx[x].cmd
                        /\ ctx'[x].in = ctx[x].in /\ ctx'[x].out = ctx[x].out /\ ctx'[x].err = ctx[x].err
  <2>1. Same(d)
    BY <1>1
  <2>2. Same(e)
    BY <1>1
  <2> QED BY <2>1, <2>2 DEF CtxInv, Joined
<1> QED BY <1>3, <1>5, <1>6, <1>7, <1>8, <1>9, <1>10, <1>11 DEF CtxInv

LEMMA FilesAreFils == ASSUME CtxInv, NEW c \in Contexts PROVE Files(ctx[c]) \subseteq Fils
<1>1. ctx[c] \in CtxType
  BY DEF CtxInv, Types
<1> QED BY <1>1 DEF CtxType, Files

(* What is released was owned by a live context: no fault.                  *)
LEMMA ReleaseKeeps ==
    ASSUME CtxInv, NoDoubleFree, NEW c \in Contexts, ctx[c].live = "live", task[c] # "closed",
           NEW F, F \subseteq Files(ctx[c]), NEW a, a # "freed", Release(F, a)
    PROVE  /\ fil' \in [Fils -> {"none", "unopened", "open", "freed"}]
           /\ \A f \in Fils : f \notin Files(ctx[c]) => fil'[f] = fil[f]
           /\ (F = {} => fil' = fil)
           /\ NoDoubleFree'
<1>1. fil' = [f \in Fils |-> IF f \in F THEN "freed" ELSE fil[f]] /\ F \subseteq Fils
  BY FilesAreFils DEF Release
<1>2. \A f \in F : fil[f] \in {"unopened", "open"}
  BY DEF CtxInv, Owned
<1>3. faults' = faults
  BY <1>2 DEF Release
<1>4. fil \in [Fils -> {"none", "unopened", "open", "freed"}]
  BY DEF CtxInv, Types
<1> QED BY <1>1, <1>3, <1>4 DEF NoDoubleFree

LEMMA SameKeeps ==
    ASSUME CtxInv, UNCHANGED <<ctx, fil, peer, nctx, nfil, lines, task>>
    PROVE  CtxInv'
<1>1. Waiting' = Waiting
  BY DEF Waiting, Own
<1>2. Links'
  BY DEF CtxInv, Links, Own, Loaded
<1>3. Bounds'
  BY <1>1 DEF CtxInv, Bounds
<1>4. Fresh'
  BY DEF CtxInv, Fresh, Files
<1>5. Arguments'
  BY DEF CtxInv, Arguments, Own
<1>6. Owned'
  BY DEF CtxInv, Owned, Files
<1> QED BY <1>2, <1>3, <1>4, <1>5, <1>6 DEF CtxInv, Types, Detached, Joined

LEMMA BootGoes ==
    ASSUME CtxInv, NEW c \in Contexts, ~Loaded(c), task[c] = "none",
           ctx' = [ctx EXCEPT ![c].boot = FALSE], UNCHANGED <<fil, peer, nctx, nfil, lines, task>>
    PROVE  CtxInv'
<1> DEFINE Same(d) == /\ ctx'[d].live = ctx[d].live /\ ctx'[d].cmd = ctx[d].cmd /\ ctx'[d].argv = ctx[d].argv
                      /\ ctx'[d].in = ctx[d].in /\ ctx'[d].out = ctx[d].out /\ ctx'[d].err = ctx[d].err
                      /\ ctx'[d].next = ctx[d].next /\ ctx'[d].stage = ctx[d].stage
                      /\ ctx'[d].detached = ctx[d].detached /\ (d # c => ctx'[d].boot = ctx[d].boot)
<1>1. ctx' \in [Contexts -> CtxType] /\ \A d \in Contexts : Same(d)
  <2> DEFINE r == [ctx[c] EXCEPT !.boot = FALSE]
  <2>1. ctx[c] \in CtxType
    BY DEF CtxInv, Types
  <2>2. /\ r \in CtxType /\ r.live = ctx[c].live /\ r.cmd = ctx[c].cmd /\ r.argv = ctx[c].argv
        /\ r.in = ctx[c].in /\ r.out = ctx[c].out /\ r.err = ctx[c].err
        /\ r.next = ctx[c].next /\ r.stage = ctx[c].stage /\ r.detached = ctx[c].detached
    BY <2>1 DEF CtxType
  <2>3. ctx' = [ctx EXCEPT ![c] = r]
    OBVIOUS
  <2> HIDE DEF r
  <2> QED BY <2>2, <2>3 DEF CtxInv, Types
<1>2. \A d \in Contexts : Files(ctx'[d]) = Files(ctx[d])
  BY <1>1 DEF Files
<1>3. \A d \in Contexts : (Own(d)' <=> Own(d)) /\ (Loaded(d)' <=> Loaded(d))
  BY <1>1 DEF Own, Loaded
<1>4. Waiting' = Waiting
  BY <1>1, <1>3 DEF Waiting
<1>5. \A d \in Contexts : ctx[d].next \in Contexts
  BY DEF CtxInv, Types, CtxType
<1>6. Links'
  <2>1. \A d \in Contexts : Own(d)' /\ ctx'[d].next # 0 => Own(ctx[d].next)' /\ ctx'[d].detached = TRUE
    BY <1>1, <1>3, <1>5 DEF CtxInv, Links, Own
  <2>2. \A d, e \in Contexts : Own(d)' /\ Own(e)' /\ ctx'[d].next = ctx'[e].next /\ ctx'[d].next # 0 => d = e
    BY <1>1, <1>3 DEF CtxInv, Links
  <2>3. \A d \in Contexts : Loaded(d)' => /\ ctx'[d].boot = TRUE /\ ctx'[d].argv = "held"
                                          /\ ctx'[d].next # 0 => Loaded(ctx[d].next)'
    BY <1>1, <1>3, <1>5 DEF CtxInv, Links, Loaded, Own
  <2> QED BY <2>1, <2>2, <2>3 DEF Links, Own, Loaded
<1>7. Bounds'
  BY <1>4 DEF CtxInv, Bounds
<1>8. Fresh'
  BY <1>1, <1>2, Numbers DEF CtxInv, Fresh
<1>9. Arguments'
  BY <1>1, <1>3 DEF CtxInv, Arguments
<1>10. Detached'
  BY <1>1 DEF CtxInv, Detached
<1>11. Owned'
  <2>1. \A d, e \in Contexts : ctx'[d].live = "live" /\ ctx'[e].live = "live" /\ d # e =>
          Files(ctx'[d]) \cap Files(ctx'[e]) = {}
    <3> SUFFICES ASSUME NEW d \in Contexts, NEW e \in Contexts,
                        ctx'[d].live = "live", ctx'[e].live = "live", d # e
                 PROVE  Files(ctx'[d]) \cap Files(ctx'[e]) = {}
      OBVIOUS
    <3>1. ctx[d].live = "live" /\ ctx[e].live = "live"
      BY <1>1
    <3>2. Files(ctx[d]) \cap Files(ctx[e]) = {}
      BY <3>1 DEF CtxInv, Owned
    <3> QED BY <1>2, <3>2
  <2>2. \A d \in Contexts : ctx'[d].live = "live" /\ task[d] # "closed" =>
          \A f \in Files(ctx'[d]) : fil[f] \in {"unopened", "open"}
    BY <1>1, <1>2 DEF CtxInv, Owned
  <2> QED BY <2>1, <2>2 DEF Owned, Files
<1>12. Joined'
  BY <1>1 DEF CtxInv, Joined
<1> QED BY <1>1, <1>6, <1>7, <1>8, <1>9, <1>10, <1>11, <1>12 DEF CtxInv, Types

-----------------------------------------------------------------------------
(* vCmdTask, one action after the other.                                    *)
LEMMA LoadFailsKeeps == ASSUME ContextInv, LoadFails PROVE ContextInv'
<1>1. CtxInv /\ NoDoubleFree /\ pc = "top" /\ 0 \in Contexts /\ Own(0) /\ ctx[0] \in CtxType /\ cur = 0
      /\ ctx[0].argv # "freed"
  BY Numbers DEF ContextInv, LoadFails, Control, CtxInv, Types, Fresh, Own, Arguments
<1>2. PICK loaded \in BOOLEAN : ctx' = [ctx EXCEPT ![0] = [Cleared(Invalidated(ctx[0])) EXCEPT !.boot = loaded]]
  BY DEF LoadFails
<1>3. Release(Files(ctx[0]), ctx[0].argv) /\ UNCHANGED <<peer, nctx, nfil, lines, pc, cur, follow, task, signal>>
  BY DEF LoadFails
<1> DEFINE i == Invalidated(ctx[0])
           b == Cleared(i)
           r == [b EXCEPT !.boot = loaded]
<1>4. i.live = "live" /\ i.boot \in BOOLEAN
  BY <1>1 DEF CtxType, Own, Invalidated
<1> HIDE DEF i
<1>5. b \in CtxType /\ b.live = "live" /\ CleanCtx(b)
  BY <1>4, ClearedIs
<1> HIDE DEF b
<1>6. r \in CtxType /\ r.live = "live" /\ CleanCtx(r)
  BY <1>5 DEF CtxType, CleanCtx
<1>7. ctx' = [ctx EXCEPT ![0] = r]
  BY <1>2 DEF b, i
<1> HIDE DEF r
<1>8. /\ fil' \in [Fils -> {"none", "unopened", "open", "freed"}]
      /\ \A f \in Fils : f \notin Files(ctx[0]) => fil'[f] = fil[f]
      /\ NoDoubleFree'
  BY <1>1, <1>3, ReleaseKeeps DEF Own
<1>9. CtxInv'
  BY <1>1, <1>3, <1>6, <1>7, <1>8, ClearKeeps DEF Own
<1>10. ctx'[0] = r /\ \A c \in Contexts : c # 0 => ctx'[c] = ctx[c]
  BY <1>1, <1>7 DEF CtxInv, Types
<1>11. Control'
  BY <1>1, <1>3, <1>6, <1>10 DEF ContextInv, Control, Own, CleanCtx
<1>12. Handler'
  <2>1. 0 \notin signal
    BY <1>1 DEF ContextInv, Handler, Own
  <2> QED BY <1>1, <1>3, <1>10, <2>1 DEF ContextInv, Control, Handler
<1> QED BY <1>8, <1>9, <1>11, <1>12 DEF ContextInv

LEMMA RefuseKeeps == ASSUME ContextInv, Refuse PROVE ContextInv'
<1>1. UNCHANGED <<ctx, fil, peer, nctx, nfil, lines, cur, task, signal, faults>> /\ pc = "exec" /\ pc' = "after"
      /\ follow' = ctx[cur].next /\ ctx[cur].detached = FALSE /\ ctx[cur].cmd # Comspec
  BY DEF Refuse, ContextInv, Control, CtxInv, Types, CtxType
<1>2. CtxInv'
  BY <1>1, SameKeeps DEF ContextInv
<1>3. ctx[cur].next = 0
  BY <1>1, Numbers DEF ContextInv, Control, CtxInv, Links
<1>4. Control'
  BY <1>1, <1>3, Numbers DEF ContextInv, Control, Own, Loaded, CleanCtx
<1>5. Handler'
  BY <1>1 DEF ContextInv, Handler
<1> QED BY <1>1, <1>2, <1>4, <1>5 DEF ContextInv, NoDoubleFree

LEMMA EndKeeps == ASSUME ContextInv, End PROVE ContextInv'
<1>1. UNCHANGED <<ctx, fil, peer, nctx, nfil, lines, cur, follow, task, faults>> /\ pc = "main" /\ pc' = "after"
      /\ signal' = {}
  BY DEF End
<1>2. CtxInv'
  BY <1>1, SameKeeps DEF ContextInv
<1>3. Control'
  BY <1>1 DEF ContextInv, Control, Own, Loaded, CleanCtx
<1> QED BY <1>1, <1>2, <1>3 DEF ContextInv, NoDoubleFree, Handler

LEMMA StartKeeps == ASSUME ContextInv, Start PROVE ContextInv'
<1>1. /\ pc = "exec" /\ cur \in Contexts /\ ctx[cur].detached = FALSE /\ Loaded(cur) /\ ctx[cur] \in CtxType
      /\ follow' = ctx[cur].next /\ signal' \in {{cur}, {}} /\ UNCHANGED <<peer, nctx, nfil, lines, cur, task>>
      /\ CtxInv /\ NoDoubleFree
  BY DEF Start, ContextInv, Control, CtxInv, Types, CtxType
<1>2. ctx[cur].next = 0 /\ ctx[cur].boot = TRUE /\ ctx[cur].argv = "held"
  BY <1>1 DEF CtxInv, Links, Loaded
<1>3. CASE ctx[cur].cmd = Comspec
  <2>1. /\ cur = 0 /\ pc' = "prompt" /\ ctx' = [ctx EXCEPT ![cur] = Cleared(ctx[cur])]
        /\ Release(Files(ctx[cur]), ctx[cur].argv)
    BY <1>1, <1>3 DEF Start, CtxInv, Arguments
  <2> DEFINE r == Cleared(ctx[cur])
  <2>2. r \in CtxType /\ r.live = ctx[cur].live /\ r.boot = TRUE /\ CleanCtx(r)
    BY <1>1, <1>2, ClearedIs DEF CtxType
  <2> HIDE DEF r
  <2>3. ctx' = [ctx EXCEPT ![cur] = r] /\ ctx'[cur] = r
    BY <1>1, <2>1 DEF r, CtxInv, Types
  <2>4. /\ fil' \in [Fils -> {"none", "unopened", "open", "freed"}]
        /\ \A f \in Fils : f \notin Files(ctx[cur]) => fil'[f] = fil[f]
        /\ NoDoubleFree'
    BY <1>1, <1>2, <2>1, ReleaseKeeps DEF Loaded, Own
  <2>5. CtxInv'
    BY <1>1, <2>1, <2>2, <2>3, <2>4, ClearKeeps DEF Loaded, Own
  <2>6. Control'
    BY <1>1, <1>2, <2>1, <2>2, <2>3, Numbers DEF Control, Own, Loaded
  <2>7. Handler'
    BY <1>1, <2>1, <2>2, <2>3 DEF Handler, Loaded, Own
  <2> QED BY <2>4, <2>5, <2>6, <2>7 DEF ContextInv
<1>4. CASE ctx[cur].cmd # Comspec
  <2>1. pc' = "main" /\ UNCHANGED <<ctx, fil, faults>>
    BY <1>4 DEF Start
  <2>2. CtxInv'
    BY <1>1, <2>1, SameKeeps
  <2>3. Control'
    BY <1>1, <1>2, <1>4, <2>1, Numbers DEF ContextInv, Control, Own, Loaded, CleanCtx
  <2>4. Handler'
    BY <1>1, <1>2, <2>1 DEF Handler, Loaded, Own
  <2> QED BY <1>1, <2>1, <2>2, <2>3, <2>4 DEF ContextInv, NoDoubleFree
<1> QED BY <1>3, <1>4

LEMMA FinishKeeps == ASSUME ContextInv, Finish PROVE ContextInv'
<1>1. /\ pc = "after" /\ cur \in Contexts /\ Own(cur) /\ ctx[cur] \in CtxType /\ ctx[cur].argv # "freed"
      /\ follow = 0 /\ cur' = 0 /\ pc' = "top" /\ UNCHANGED <<peer, nctx, nfil, lines, follow, task, signal>>
      /\ CtxInv /\ NoDoubleFree /\ Own(0) /\ 0 \in Contexts
  BY Numbers DEF Finish, After, ContextInv, Control, CtxInv, Types, CtxType, Fresh, Own, Arguments
<1>2. cur \notin signal
  BY <1>1 DEF ContextInv, Handler, Own
<1>3. CASE KeepsPrepared(ctx[cur])
  <2>1. ctx[cur].stage = "PREPARED" /\ ctx' = [ctx EXCEPT ![cur].boot = FALSE] /\ UNCHANGED <<fil, faults>>
    BY <1>3 DEF Finish, KeepsPrepared
  <2>2. cur = 0 /\ ~Loaded(cur) /\ ctx[cur].argv = "held"
    BY <1>1, <2>1 DEF ContextInv, Control, Loaded, CtxInv, Arguments
  <2>3. CtxInv'
    BY <1>1, <2>1, <2>2, BootGoes DEF Own
  <2>4. /\ \A c \in Contexts : c # cur => ctx'[c] = ctx[c]
        /\ ctx'[cur].live = ctx[cur].live /\ ctx'[cur].stage = "PREPARED" /\ ctx'[cur].argv = "held"
    BY <1>1, <2>1, <2>2 DEF CtxInv, Types, CtxType
  <2>5. Control'
    BY <1>1, <2>2, <2>4 DEF ContextInv, Control, Own
  <2>6. Handler'
    BY <1>1, <1>2, <2>4 DEF ContextInv, Control, Handler
  <2> QED BY <1>1, <2>1, <2>3, <2>5, <2>6 DEF ContextInv, NoDoubleFree
<1>4. CASE ~KeepsPrepared(ctx[cur])
  <2> DEFINE b == Cleared(ctx[cur])
             r == [b EXCEPT !.boot = FALSE]
  <2>1. ctx' = [ctx EXCEPT ![cur] = r] /\ Release(Files(ctx[cur]), ctx[cur].argv)
    BY <1>4 DEF Finish
  <2>2. b \in CtxType /\ b.live = "live" /\ CleanCtx(b)
    BY <1>1, ClearedIs DEF CtxType, Own
  <2> HIDE DEF b
  <2>3. r \in CtxType /\ r.live = "live" /\ CleanCtx(r)
    BY <2>2 DEF CtxType, CleanCtx
  <2> HIDE DEF r
  <2>4. ctx'[cur] = r /\ \A c \in Contexts : c # cur => ctx'[c] = ctx[c]
    BY <1>1, <2>1 DEF CtxInv, Types
  <2>5. /\ fil' \in [Fils -> {"none", "unopened", "open", "freed"}]
        /\ \A f \in Fils : f \notin Files(ctx[cur]) => fil'[f] = fil[f]
        /\ NoDoubleFree'
    BY <1>1, <2>1, ReleaseKeeps DEF Own
  <2>6. \A d \in Contexts : Loaded(d) => ctx[d].next # cur \/ cur = 0
    BY <1>1 DEF ContextInv, Control
  <2>7. CtxInv'
    BY <1>1, <2>1, <2>3, <2>5, <2>6, ClearKeeps DEF Own
  <2>8. CleanCtx(ctx'[0]) /\ Own(0)'
    BY <1>1, <2>3, <2>4 DEF ContextInv, Control, Own
  <2>9. Control'
    BY <1>1, <2>8 DEF ContextInv, Control, Own, CleanCtx
  <2>10. Handler'
    BY <1>1, <1>2, <2>4 DEF ContextInv, Control, Handler
  <2> QED BY <2>5, <2>7, <2>9, <2>10 DEF ContextInv
<1> QED BY <1>3, <1>4

-----------------------------------------------------------------------------
(* kill, and the task of a detached program.                                *)
LEMMA TaskFacts ==
    ASSUME ContextInv, NEW c \in Contexts, task[c] # "none"
    PROVE  /\ CtxInv /\ ctx[c] \in CtxType /\ c # 0 /\ c # cur
           /\ task[c] \in {"created", "main", "ended", "closed", "removed", "gone"}
           /\ \A d \in Contexts : Own(d) => d # c
BY DEF ContextInv, Control, CtxInv, Types, Fresh, Own

(* The rest of the state when only the context and the task of c change.    *)
LEMMA OtherKeeps ==
    ASSUME ContextInv, NEW c \in Contexts, task[c] # "none",
           \A d \in Contexts : d # c => ctx'[d] = ctx[d] /\ task'[d] = task[d],
           task'[c] # "none", UNCHANGED <<pc, cur, follow>>, signal' \subseteq Contexts,
           \A d \in signal' : d = c => ctx'[d].boot = TRUE /\ task'[d] \in {"main", "gone"},
           \A d \in signal' : d # c => d \in signal
    PROVE  Control' /\ Handler'
<1>1. c # 0 /\ c # cur /\ cur \in Contexts /\ 0 \in Contexts
  BY TaskFacts, Numbers DEF ContextInv, Control
<1>2. ctx'[0] = ctx[0] /\ ctx'[cur] = ctx[cur] /\ (Own(cur)' <=> Own(cur)) /\ (Loaded(cur)' <=> Loaded(cur))
  BY <1>1 DEF Own, Loaded
<1>3. \A d \in Contexts : Loaded(d)' => Loaded(d) /\ ctx'[d].next = ctx[d].next
  BY DEF Own, Loaded
<1>4. Control'
  BY <1>2, <1>3 DEF ContextInv, Control
<1>5. Handler'
  BY DEF ContextInv, Handler, Control
<1> QED BY <1>4, <1>5

LEMMA KillKeeps == ASSUME ContextInv, NEW c \in Contexts, NEW sig, kill(c, sig) PROVE ContextInv'
<1>1. /\ task[c] \in {"created", "main", "ended", "closed", "removed"} /\ UNCHANGED <<peer, nctx, nfil, lines, pc, cur, follow, signal>>
      /\ CtxInv /\ ctx[c] \in CtxType /\ NoDoubleFree /\ signal \subseteq Contexts
      /\ fil \in [Fils -> {"none", "unopened", "open", "freed"}]
  BY TaskFacts DEF kill, Tasks, ContextInv, Control, CtxInv, Types
<1>2. CASE sig = "kill"
  <2>0. /\ faults' = IF ctx[c].live = "live" THEN faults ELSE faults \cup {"freed context written"}
        /\ ctx' = IF ctx[c].live = "live" THEN [ctx EXCEPT ![c].stage = "SIGTERM"] ELSE ctx
        /\ UNCHANGED <<fil, task>>
    BY <1>2, Zenon DEF kill
  <2>1. UNCHANGED <<fil, task>> /\ NoDoubleFree'
    BY <1>1, <2>0 DEF NoDoubleFree
  <2> DEFINE r == IF ctx[c].live = "live" THEN [ctx[c] EXCEPT !.stage = "SIGTERM"] ELSE ctx[c]
  <2>2. ctx' = [ctx EXCEPT ![c] = r]
    BY <1>1, <2>0 DEF CtxInv, Types
  <2>3. /\ r \in CtxType /\ r.cmd = ctx[c].cmd /\ r.in = ctx[c].in /\ r.out = ctx[c].out /\ r.err = ctx[c].err
        /\ r.live = ctx[c].live /\ r.argv = ctx[c].argv /\ r.boot = ctx[c].boot
    BY <1>1 DEF CtxType
  <2> HIDE DEF r
  <2>4. task' = [task EXCEPT ![c] = task[c]]
    BY <1>1, <2>1 DEF CtxInv, Types
  <2>5. CtxInv'
    <3>1. /\ task[c] \in {"created", "main", "ended"} => r.live = "live" /\ r.boot = TRUE /\ r.argv = "held"
          /\ task[c] = "closed" => r.live = "live"
          /\ task[c] = "removed" => r.live = "freed"
      BY <1>1, <2>3 DEF CtxInv, Detached
    <3>2. CASE r.live = "live" /\ task[c] = "closed"
      <4>1. ctx[c].live = "live" /\ (\A f \in Fils : f \notin Files(ctx[c]) => fil'[f] = fil[f])
            /\ fil' \in [Fils -> {"none", "unopened", "open", "freed"}]
        BY <1>1, <2>1, <2>3, <3>2
      <4> DEFINE k == "closed"
      <4>2. task' = [task EXCEPT ![c] = k] /\ task[c] # "none"
            /\ (r.live = "live" /\ r.argv = "held" => ctx[c].argv = "held")
        BY <2>3, <2>4, <3>2
      <4> QED BY <1>1, <2>2, <2>3, <3>2, <4>1, <4>2, TaskKeeps
    <3>3. CASE ~(r.live = "live" /\ task[c] = "closed")
      <4>1. fil' = fil /\ (r.live = "live" => task[c] # "closed") /\ fil' \in [Fils -> {"none", "unopened", "open", "freed"}]
        BY <1>1, <2>1, <3>3
      <4>2. task[c] # "none" /\ task[c] \in {"created", "main", "ended", "closed", "removed", "gone"}
            /\ (r.live = "live" => ctx[c].live = "live")
            /\ (r.live = "live" /\ r.argv = "held" => ctx[c].argv = "held")
        BY <1>1, <2>3
      <4> QED BY <1>1, <2>2, <2>3, <2>4, <3>1, <4>1, <4>2, TaskKeeps
    <3> QED BY <3>2, <3>3
  <2>6. ctx'[c] = r /\ \A d \in Contexts : d # c => ctx'[d] = ctx[d]
    BY <1>1, <2>2 DEF CtxInv, Types
  <2>7. \A d \in signal : d = c => r.boot = TRUE /\ task[d] \in {"main", "gone"}
    BY <1>1, <2>3 DEF ContextInv, Handler
  <2>8. Control' /\ Handler'
    BY <1>1, <2>1, <2>6, <2>7, OtherKeeps
  <2> QED BY <2>1, <2>5, <2>8 DEF ContextInv
<1>3. CASE sig # "kill"
  <2>1. task' = [task EXCEPT ![c] = "gone"] /\ ctx' = [ctx EXCEPT ![c] = Cleared(ctx[c])]
    BY <1>3 DEF kill
  <2> DEFINE r == Cleared(ctx[c])
  <2>2. r \in CtxType /\ r.live = ctx[c].live /\ r.boot = ctx[c].boot /\ CleanCtx(r)
    BY <1>1, ClearedIs DEF CtxType
  <2> HIDE DEF r
  <2>3. /\ NoDoubleFree' /\ fil' \in [Fils -> {"none", "unopened", "open", "freed"}]
        /\ \/ fil' = fil
           \/ ctx[c].live = "live" /\ \A f \in Fils : f \notin Files(ctx[c]) => fil'[f] = fil[f]
    <3>1. CASE task[c] \in {"closed", "removed"}
      <4>1. faults' = faults \cup {"killed while releasing"} /\ UNCHANGED fil
        BY <1>3, <3>1, Zenon DEF kill
      <4> QED BY <1>1, <4>1 DEF NoDoubleFree
    <3>2. CASE task[c] \notin {"closed", "removed"}
      <4>1. Release(Files(ctx[c]), ctx[c].argv)
        BY <1>3, <3>2 DEF kill
      <4>2. ctx[c].live = "live" /\ ctx[c].argv # "freed" /\ task[c] # "closed"
        BY <1>1, <3>2 DEF CtxInv, Detached
      <4> QED BY <1>1, <4>1, <4>2, ReleaseKeeps
    <3> QED BY <3>1, <3>2
  <2>4. ctx' = [ctx EXCEPT ![c] = r] /\ task[c] # "none"
    BY <1>1, <2>1 DEF r
  <2>5. CtxInv'
    BY <1>1, <2>1, <2>2, <2>3, <2>4, ClearKeeps
  <2>6. ctx'[c] = r /\ task'[c] = "gone" /\ \A d \in Contexts : d # c => ctx'[d] = ctx[d] /\ task'[d] = task[d]
    BY <2>1, <2>4 DEF ContextInv, CtxInv, Types
  <2>7. \A d \in signal : d = c => r.boot = TRUE
    BY <2>2 DEF ContextInv, Handler
  <2>8. Control' /\ Handler'
    BY <1>1, <2>4, <2>6, <2>7, OtherKeeps
  <2> QED BY <2>3, <2>5, <2>8 DEF ContextInv
<1> QED BY <1>2, <1>3

LEMMA TaskMoves ==
    ASSUME ContextInv, NEW c \in Contexts, TaskStart(c) \/ TaskRefused(c) \/ TaskEnd(c) \/ TaskDelete(c)
    PROVE  ContextInv'
<1>1. UNCHANGED <<ctx, fil, peer, nctx, nfil, lines, pc, cur, follow, faults>> /\ task[c] # "none"
  BY DEF TaskStart, TaskRefused, TaskEnd, TaskDelete
<1>2. CtxInv /\ ctx[c] \in CtxType /\ signal \subseteq Contexts /\ fil \in [Fils -> {"none", "unopened", "open", "freed"}]
  BY <1>1, TaskFacts DEF ContextInv, Control, CtxInv, Types
<1>3. PICK t \in {"main", "ended", "gone"} :
        /\ task' = [task EXCEPT ![c] = t]
        /\ t \in {"main", "ended"} => task[c] \in {"created", "main"}
        /\ t = "gone" => task[c] = "removed"
        /\ \/ signal' = {}
           \/ t = "main" /\ signal' \in {{c}, {}}
           \/ signal' = signal /\ task[c] \in {"created", "removed"}
  BY Zenon DEF TaskStart, TaskRefused, TaskEnd, TaskDelete
<1>4. /\ t \in {"main", "ended"} => ctx[c].live = "live" /\ ctx[c].boot = TRUE /\ ctx[c].argv = "held"
      /\ t = "gone" => ctx[c].live = "freed"
  BY <1>2, <1>3 DEF CtxInv, Detached
<1>5. CtxInv'
  <2>1. ctx' = [ctx EXCEPT ![c] = ctx[c]]
    BY <1>1 DEF ContextInv, CtxInv, Types
  <2>2. ctx[c].live = "live" => task[c] # "closed"
    BY <1>3, <1>4
  <2> QED BY <1>1, <1>2, <1>3, <1>4, <2>1, <2>2, TaskKeeps
<1>6. task'[c] = t /\ \A d \in Contexts : d # c => task'[d] = task[d]
  BY <1>3 DEF ContextInv, CtxInv, Types
<1>7. signal' \subseteq Contexts /\ (\A d \in signal' : d # c => d \in signal)
      /\ \A d \in signal' : d = c => ctx[d].boot = TRUE /\ t \in {"main", "gone"}
  BY <1>2, <1>3, <1>4 DEF ContextInv, Handler
<1>8. Control' /\ Handler'
  BY <1>1, <1>3, <1>6, <1>7, OtherKeeps
<1> QED BY <1>1, <1>5, <1>8 DEF ContextInv, NoDoubleFree

LEMMA RemoveStreamsKeeps == ASSUME ContextInv, NEW c \in Contexts, RemoveStreams(c) PROVE ContextInv'
<1>1. /\ task[c] = "ended" /\ task' = [task EXCEPT ![c] = "closed"] /\ UNCHANGED <<peer, nctx, nfil, lines, pc, cur, follow, signal>>
      /\ Release(Files(ctx[c]), ctx[c].argv) /\ ctx' = [ctx EXCEPT ![c].argv = "freed"]
  BY DEF RemoveStreams
<1>2. CtxInv /\ ctx[c] \in CtxType /\ NoDoubleFree /\ signal \subseteq Contexts
  BY <1>1, TaskFacts DEF ContextInv, Control
<1>3. ctx[c].live = "live" /\ ctx[c].argv = "held"
  BY <1>1, <1>2 DEF CtxInv, Detached
<1> DEFINE r == [ctx[c] EXCEPT !.argv = "freed"]
<1>4. /\ r \in CtxType /\ r.cmd = ctx[c].cmd /\ r.in = ctx[c].in /\ r.out = ctx[c].out /\ r.err = ctx[c].err
      /\ r.live = "live" /\ r.argv = "freed"
  BY <1>2, <1>3 DEF CtxType
<1>5. ctx' = [ctx EXCEPT ![c] = r]
  BY <1>1
<1> HIDE DEF r
<1>6. /\ fil' \in [Fils -> {"none", "unopened", "open", "freed"}]
      /\ \A f \in Fils : f \notin Files(ctx[c]) => fil'[f] = fil[f]
      /\ NoDoubleFree'
  BY <1>1, <1>2, <1>3, ReleaseKeeps
<1>7. CtxInv'
  BY <1>1, <1>2, <1>3, <1>4, <1>5, <1>6, TaskKeeps
<1>8. task'[c] = "closed" /\ \A d \in Contexts : d # c => ctx'[d] = ctx[d] /\ task'[d] = task[d]
  BY <1>1, <1>5 DEF ContextInv, CtxInv, Types
<1>9. c \notin signal
  BY <1>1 DEF ContextInv, Handler
<1>10. Control' /\ Handler'
  BY <1>1, <1>2, <1>8, <1>9, OtherKeeps
<1> QED BY <1>6, <1>7, <1>10 DEF ContextInv

LEMMA RemoveContextKeeps == ASSUME ContextInv, NEW c \in Contexts, RemoveContext(c) PROVE ContextInv'
<1>1. /\ task[c] = "closed" /\ task' = [task EXCEPT ![c] = "removed"]
      /\ UNCHANGED <<fil, peer, nctx, nfil, lines, pc, cur, follow, signal, faults>>
      /\ ctx' = [ctx EXCEPT ![c].live = "freed", ![c].boot = FALSE, ![c].next = 0]
  BY DEF RemoveContext
<1>2. CtxInv /\ ctx[c] \in CtxType /\ signal \subseteq Contexts /\ fil \in [Fils -> {"none", "unopened", "open", "freed"}]
  BY <1>1, TaskFacts DEF ContextInv, Control, CtxInv, Types
<1> DEFINE a == [ctx[c] EXCEPT !.live = "freed"]
           b == [a EXCEPT !.boot = FALSE]
           r == [b EXCEPT !.next = 0]
<1>3. ctx' = [ctx EXCEPT ![c] = r]
  BY <1>1, <1>2 DEF CtxInv, Types
<1>4. /\ a \in CtxType /\ a.cmd = ctx[c].cmd /\ a.in = ctx[c].in /\ a.out = ctx[c].out /\ a.err = ctx[c].err
      /\ a.live = "freed"
  BY <1>2 DEF CtxType
<1> HIDE DEF a
<1>5. /\ b \in CtxType /\ b.cmd = ctx[c].cmd /\ b.in = ctx[c].in /\ b.out = ctx[c].out /\ b.err = ctx[c].err
      /\ b.live = "freed"
  BY <1>4 DEF CtxType
<1> HIDE DEF b
<1>6. /\ r \in CtxType /\ r.cmd = ctx[c].cmd /\ r.in = ctx[c].in /\ r.out = ctx[c].out /\ r.err = ctx[c].err
      /\ r.live = "freed"
  BY <1>5, Numbers DEF CtxType
<1> HIDE DEF r
<1>7. CtxInv'
  BY <1>1, <1>2, <1>3, <1>6, TaskKeeps
<1>8. task'[c] = "removed" /\ \A d \in Contexts : d # c => ctx'[d] = ctx[d] /\ task'[d] = task[d]
  BY <1>1, <1>3 DEF ContextInv, CtxInv, Types
<1>9. c \notin signal
  BY <1>1 DEF ContextInv, Handler
<1>10. Control' /\ Handler'
  BY <1>1, <1>2, <1>8, <1>9, OtherKeeps
<1> QED BY <1>1, <1>7, <1>10 DEF ContextInv, NoDoubleFree

-----------------------------------------------------------------------------
(* The chain of context 0: vCmdTask runs all of it.                         *)
LEMMA ChainIs ==
    ASSUME CtxInv
    PROVE  /\ 0 \in Chain /\ Chain \subseteq Contexts
           /\ \A c \in Chain : Own(c) /\ ctx[c].next \in Chain
           /\ (ctx[0].next = 0 => Chain = {0})
<1>1. 0 \in Contexts /\ Own(0) /\ \A c \in Contexts : ctx[c].next \in Contexts
  BY Numbers DEF CtxInv, Fresh, Own, Types, CtxType
<1>2. 0 \in Chain /\ Chain \subseteq Contexts
  BY <1>1 DEF Chain
<1>3. \A c \in Chain : ctx[c].next \in Chain
  BY <1>1 DEF Chain, FollowsNext
<1> DEFINE S == {c \in Contexts : Own(c)}
<1>4. S \in SUBSET Contexts /\ 0 \in S /\ FollowsNext(S)
  BY <1>1 DEF FollowsNext, CtxInv, Links
<1>5. \A c \in Chain : Own(c)
  <2> HIDE DEF S
  <2>1. \A c \in Chain : c \in S
    BY <1>4 DEF Chain
  <2> QED BY <2>1 DEF S
<1>6. ctx[0].next = 0 => Chain = {0}
  BY <1>1, <1>2 DEF Chain, FollowsNext
<1> QED BY <1>2, <1>3, <1>5, <1>6

LEMMA LoadKeeps == ASSUME ContextInv, Load PROVE ContextInv'
<1>1. /\ pc = "top" /\ pc' = "exec" /\ cur' = 0 /\ cur = 0
      /\ UNCHANGED <<fil, peer, nctx, nfil, lines, follow, task, signal, faults>>
      /\ CtxInv /\ ctx \in [Contexts -> CtxType] /\ 0 \in Contexts /\ Own(0)
      /\ ctx[0].stage # "LOAD" /\ ctx[0].argv # "freed" /\ (ctx[0].argv = "none" => CleanCtx(ctx[0]))
      /\ signal \subseteq Contexts
  BY Numbers DEF Load, ContextInv, Control, CtxInv, Types, Fresh, Own, Arguments
<1>2. /\ 0 \in Chain /\ Chain \subseteq Contexts
      /\ \A c \in Chain : Own(c) /\ ctx[c].next \in Chain
  BY <1>1, ChainIs
<1> DEFINE Empty == ctx[0].argv = "none"
           a == [ctx[0] EXCEPT !.argv = "held"]
           b == [a EXCEPT !.cmd = Comspec]
           W == WithComspec
<1>3. W = IF Empty THEN [ctx EXCEPT ![0] = b] ELSE ctx
  BY <1>1 DEF WithComspec
<1>4. /\ a \in CtxType /\ a.live = ctx[0].live /\ a.in = ctx[0].in /\ a.out = ctx[0].out /\ a.err = ctx[0].err
      /\ a.next = ctx[0].next /\ a.detached = ctx[0].detached /\ a.argv = "held"
  BY <1>1 DEF CtxType
<1> HIDE DEF a
<1>5. /\ b \in CtxType /\ b.live = ctx[0].live /\ b.in = ctx[0].in /\ b.out = ctx[0].out /\ b.err = ctx[0].err
      /\ b.next = ctx[0].next /\ b.detached = ctx[0].detached /\ b.argv = "held" /\ b.cmd = Comspec
  BY <1>4 DEF CtxType, Comspec
<1> HIDE DEF b
<1>6. \A c \in Chain : W[c].argv = "held"
  BY DEF Load
<1>7. /\ W \in [Contexts -> CtxType]
      /\ \A c \in Contexts : /\ W[c].live = ctx[c].live /\ W[c].in = ctx[c].in /\ W[c].out = ctx[c].out
                             /\ W[c].err = ctx[c].err /\ W[c].next = ctx[c].next
                             /\ W[c].detached = ctx[c].detached
                             /\ W[c].cmd = IF Empty /\ c = 0 THEN Comspec ELSE ctx[c].cmd
                             /\ (c # 0 \/ ~Empty => W[c].argv = ctx[c].argv)
  BY <1>1, <1>3, <1>5
<1>8. ctx' = [c \in Contexts |-> IF c \in Chain THEN [W[c] EXCEPT !.boot = TRUE, !.stage = "LOAD"] ELSE ctx[c]]
  BY DEF Load
<1> HIDE DEF W
<1> DEFINE N(c) == /\ ctx'[c] \in CtxType
                   /\ ctx'[c].live = ctx[c].live /\ ctx'[c].in = ctx[c].in /\ ctx'[c].out = ctx[c].out
                   /\ ctx'[c].err = ctx[c].err /\ ctx'[c].next = ctx[c].next
                   /\ ctx'[c].detached = ctx[c].detached
                   /\ ctx'[c].cmd = IF Empty /\ c = 0 THEN Comspec ELSE ctx[c].cmd
                   /\ c \in Chain => /\ ctx'[c].argv = "held" /\ ctx'[c].boot = TRUE /\ ctx'[c].stage = "LOAD"
                                     /\ (c # 0 \/ ~Empty => ctx[c].argv = "held")
                   /\ c \notin Chain => ctx'[c] = ctx[c]
<1>9. ASSUME NEW c \in Contexts PROVE N(c)
  <2>1. CASE c \in Chain
    <3> DEFINE w == W[c]
               u == [w EXCEPT !.boot = TRUE]
               v == [u EXCEPT !.stage = "LOAD"]
    <3>1. ctx'[c] = v
      BY <1>8, <2>1
    <3>2. w \in CtxType /\ w.argv = "held"
      BY <1>6, <1>7, <2>1
    <3>3. /\ w.live = ctx[c].live /\ w.in = ctx[c].in /\ w.out = ctx[c].out
          /\ w.err = ctx[c].err /\ w.next = ctx[c].next
          /\ w.detached = ctx[c].detached
          /\ w.cmd = IF Empty /\ c = 0 THEN Comspec ELSE ctx[c].cmd
          /\ (c # 0 \/ ~Empty => w.argv = ctx[c].argv)
      BY <1>7
    <3> HIDE DEF w, Empty
    <3>4. /\ u \in CtxType /\ u.live = w.live /\ u.in = w.in /\ u.out = w.out /\ u.err = w.err /\ u.next = w.next
          /\ u.detached = w.detached /\ u.cmd = w.cmd /\ u.argv = w.argv /\ u.boot = TRUE
      BY <3>2 DEF CtxType
    <3> HIDE DEF u
    <3>5. /\ v \in CtxType /\ v.live = w.live /\ v.in = w.in /\ v.out = w.out /\ v.err = w.err /\ v.next = w.next
          /\ v.detached = w.detached /\ v.cmd = w.cmd /\ v.argv = w.argv /\ v.boot = TRUE /\ v.stage = "LOAD"
      BY <3>4 DEF CtxType
    <3> HIDE DEF v
    <3> QED BY <2>1, <3>1, <3>2, <3>3, <3>5
  <2>2. CASE c \notin Chain
    BY <1>1, <1>2, <1>8, <2>2
  <2> QED BY <2>1, <2>2
<1>10. ctx' \in [Contexts -> CtxType]
  BY <1>8, <1>9
<1> HIDE DEF N
<1>11. \A c \in Contexts : Own(c)' <=> Own(c)
  BY <1>1, <1>9 DEF N, Own
<1>12. \A c \in Contexts : Loaded(c)' <=> Loaded(c) \/ c \in Chain
  BY <1>2, <1>9, <1>11 DEF N, Loaded
<1>13. \A c \in Contexts : Files(ctx'[c]) = Files(ctx[c])
  BY <1>9 DEF N, Files
<1>14. Empty => ctx[0].next = 0 /\ ctx[0].detached = FALSE
  BY <1>1 DEF CleanCtx
<1>15. Types' /\ Control'
  BY <1>1, <1>2, <1>9, <1>10, <1>11, <1>12 DEF N, CtxInv, Types, ContextInv, Control
<1> HIDE DEF Empty
<1>16. \A c \in Chain : c # 0 \/ ~Empty => ctx[c].stage \in {"PREPARED", "LOAD"}
  BY <1>1, <1>2, <1>9 DEF N, CtxInv, Arguments
<1>17. Fresh'
  <2>1. \A c \in Contexts : ctx'[c].cmd[1] <= lines
    <3> SUFFICES ASSUME NEW c \in Contexts PROVE ctx'[c].cmd[1] <= lines
      OBVIOUS
    <3>1. ctx'[c].cmd = Comspec \/ ctx'[c].cmd = ctx[c].cmd
      BY <1>9 DEF N
    <3>2. lines \in Nat /\ Comspec[1] = 0
      BY <1>1, LinesAre DEF Comspec
    <3> QED BY <1>1, <3>1, <3>2 DEF CtxInv, Fresh
  <2>2. \A c \in Contexts : ctx'[c].live = ctx[c].live
    BY <1>9 DEF N
  <2> QED BY <1>1, <1>13, <2>1, <2>2 DEF CtxInv, Fresh
<1>18. Bounds'
  <2>1. Waiting' \subseteq Waiting
    <3> SUFFICES ASSUME NEW c \in Waiting' PROVE c \in Waiting
      OBVIOUS
    <3>1. c \in Contexts /\ Own(c) /\ ctx'[c].stage \in {"PREPARED", "LOAD"} /\ ctx'[c].cmd # Comspec
      BY <1>11 DEF Waiting
    <3>2. ctx'[c].cmd = ctx[c].cmd /\ ~(Empty /\ c = 0)
      BY <1>9, <3>1 DEF N
    <3>3. ctx[c].stage \in {"PREPARED", "LOAD"}
      BY <1>9, <1>16, <3>1, <3>2 DEF N
    <3> QED BY <3>1, <3>2, <3>3 DEF Waiting
  <2>2. PICK w \in Nat, v \in Nat : w = Cardinality(Waiting) /\ v = Cardinality(Waiting') /\ v <= w
    BY <2>1, WaitingTypes, CountOf
  <2>3. nctx \in Nat /\ nctx + w <= (2 * MaxCmds) * lines /\ (2 * MaxCmds) * lines \in Nat
    BY <1>1, <2>2, LinesAre, Numbers DEF CtxInv, Types, Bounds
  <2>4. nctx + v <= (2 * MaxCmds) * lines
    BY <2>2, <2>3
  <2> QED BY <1>1, <2>2, <2>4 DEF CtxInv, Bounds
<1>19. Arguments'
  <2> SUFFICES ASSUME NEW c \in Contexts
               PROVE  /\ ctx'[c].cmd = Comspec => c = 0 /\ ctx'[c].next = 0 /\ ctx'[c].detached = FALSE /\ ctx'[c].stage = "LOAD"
                      /\ task[c] = "none" => ctx'[c].argv # "freed"
                      /\ Own(c) /\ ctx'[c].argv = "held" => ctx'[c].stage \in {"PREPARED", "LOAD"}
                      /\ Own(c) /\ ctx'[c].stage = "PREPARED" => ctx'[c].argv = "held"
    BY <1>1, <1>11 DEF Arguments
  <2>1. ctx[c].cmd = Comspec => c = 0 /\ ctx[c].next = 0 /\ ctx[c].detached = FALSE
    BY <1>1 DEF CtxInv, Arguments
  <2>2. ctx'[c].cmd = Comspec => c = 0 /\ ctx'[c].next = 0 /\ ctx'[c].detached = FALSE /\ ctx'[c].stage = "LOAD"
    BY <1>2, <1>9, <1>14, <2>1 DEF N
  <2>3. CASE c \in Chain
    <3>1. ctx'[c].argv = "held" /\ ctx'[c].stage = "LOAD"
      BY <1>9, <2>3 DEF N
    <3> QED BY <2>2, <3>1
  <2>4. CASE c \notin Chain
    <3>1. ctx'[c] = ctx[c]
      BY <1>9, <2>4 DEF N
    <3> QED BY <1>1, <2>2, <3>1 DEF CtxInv, Arguments
  <2> QED BY <2>3, <2>4
<1>20. Links'
  <2>0. \A c \in Contexts : ctx'[c].next = ctx[c].next /\ ctx'[c].detached = ctx[c].detached /\ ctx[c].next \in Contexts
    BY <1>1, <1>9 DEF N, CtxType
  <2>1. ASSUME NEW c \in Contexts, Own(c)', ctx'[c].next # 0 PROVE Own(ctx[c].next)' /\ ctx'[c].detached = TRUE
    BY <1>1, <1>11, <2>0, <2>1 DEF CtxInv, Links
  <2>2. \A c, d \in Contexts : Own(c)' /\ Own(d)' /\ ctx'[c].next = ctx'[d].next /\ ctx'[c].next # 0 => c = d
    BY <1>1, <1>11, <2>0 DEF CtxInv, Links
  <2>3. ASSUME NEW c \in Contexts, Loaded(c)' PROVE ctx'[c].next # 0 => Loaded(ctx[c].next)'
    BY <1>1, <1>2, <1>12, <2>0, <2>3 DEF CtxInv, Links
  <2>4. ASSUME NEW c \in Contexts, Loaded(c)' PROVE ctx'[c].boot = TRUE /\ ctx'[c].argv = "held"
    <3>1. CASE c \in Chain
      BY <1>9, <3>1 DEF N
    <3>2. CASE c \notin Chain
      <4>1. ctx'[c] = ctx[c] /\ Loaded(c)
        BY <1>9, <1>12, <2>4, <3>2 DEF N
      <4> QED BY <1>1, <4>1 DEF CtxInv, Links
    <3> QED BY <3>1, <3>2
  <2>5. \A c \in Contexts : Own(c)' /\ ctx'[c].next # 0 => Own(ctx[c].next)' /\ ctx'[c].detached = TRUE
    BY <2>1
  <2>6. \A c \in Contexts : Loaded(c)' => /\ ctx'[c].boot = TRUE /\ ctx'[c].argv = "held"
                                          /\ ctx'[c].next # 0 => Loaded(ctx[c].next)'
    BY <2>3, <2>4
  <2> QED BY <2>2, <2>5, <2>6 DEF Links, Own, Loaded
<1>21. \A c \in Contexts : ~Own(c) => ctx'[c] = ctx[c]
  BY <1>2, <1>9 DEF N
<1>22. Detached'
  <2> SUFFICES ASSUME NEW c \in Contexts, task[c] # "none"
               PROVE  /\ task[c] \in {"created", "main", "ended"} =>
                           ctx'[c].live = "live" /\ ctx'[c].boot = TRUE /\ ctx'[c].argv = "held"
                      /\ task[c] = "closed" => ctx'[c].live = "live"
                      /\ task[c] = "removed" => ctx'[c].live = "freed"
    BY <1>1 DEF Detached
  <2>1. ctx'[c] = ctx[c]
    BY <1>21 DEF Own
  <2> QED BY <1>1, <2>1 DEF CtxInv, Detached
<1>23. Owned'
  <2>1. \A c \in Contexts : ctx'[c].live = ctx[c].live
    BY <1>9 DEF N
  <2> QED BY <1>1, <1>13, <2>1 DEF CtxInv, Owned, Files
<1>24. Joined'
  <2> SUFFICES ASSUME NEW d \in Contexts, NEW e \in Contexts,
                      ctx'[d].live = "live", ctx'[d].argv = "held", ctx'[d].cmd[1] > 0,
                      ctx'[e].live = "live", ctx'[e].argv = "held",
                      ctx'[e].cmd = <<ctx'[d].cmd[1], ctx'[d].cmd[2] + 1>>
               PROVE  ctx'[d].out # 0 /\ ctx'[e].in = peer[ctx'[d].out] /\ ctx'[d].err = ctx'[d].out
    BY <1>1 DEF Joined
  <2>1. ctx'[d].cmd # Comspec /\ ctx'[e].cmd # Comspec
    BY DEF Comspec
  <2>2. ASSUME NEW x \in Contexts, ctx'[x].cmd # Comspec, ctx'[x].live = "live", ctx'[x].argv = "held"
        PROVE  /\ ctx[x].live = "live" /\ ctx[x].argv = "held" /\ ctx'[x].cmd = ctx[x].cmd
               /\ ctx'[x].in = ctx[x].in /\ ctx'[x].out = ctx[x].out /\ ctx'[x].err = ctx[x].err
    <3>1. CASE x \in Chain
      BY <1>9, <2>2, <3>1 DEF N
    <3>2. CASE x \notin Chain
      BY <1>9, <2>2, <3>2 DEF N
    <3> QED BY <3>1, <3>2
  <2> QED BY <1>1, <2>1, <2>2 DEF CtxInv, Joined
<1>25. Handler'
  <2> SUFFICES ASSUME NEW c \in signal
               PROVE  /\ ctx'[c].boot = TRUE /\ task[c] \in {"main", "gone"}
    BY <1>1 DEF Handler
  <2>1. ctx[c].boot = TRUE /\ task[c] \in {"main", "gone"}
    BY <1>1 DEF ContextInv, Handler
  <2> QED BY <1>1, <1>21, <2>1 DEF Own
<1> QED BY <1>1, <1>15, <1>17, <1>18, <1>19, <1>20, <1>22, <1>23, <1>24, <1>25 DEF ContextInv, CtxInv, NoDoubleFree

-----------------------------------------------------------------------------
(* exec moves a detached context to a clone.                                *)
LEMMA Monotone == ASSUME NEW a \in Nat, NEW l \in Nat, NEW m \in Nat, l <= m PROVE a * l <= a * m
<1>1. PICK d \in Nat : m = l + d
  <2>1. m - l \in Nat /\ m = l + (m - l)
    OBVIOUS
  <2> QED BY <2>1
<1>2. a * m = a * l + a * d
  BY <1>1
<1>3. a * l \in Nat /\ a * d \in Nat
  BY <1>1, Products
<1> QED BY <1>2, <1>3

LEMMA BoundsAre ==
    ASSUME NEW l \in 0..MaxLines
    PROVE  /\ (2 * MaxCmds) * l \in Nat /\ (3 * MaxCmds) * l \in Nat
           /\ \A n \in Nat : n <= (2 * MaxCmds) * l => n \in Contexts
           /\ \A n \in Nat \ {0} : n <= (3 * MaxCmds) * l => n \in Fils
<1>0. MaxLines \in Nat /\ MaxCmds \in Nat /\ 2 \in Nat /\ 3 \in Nat
  BY ShellAssumption
<1>1. l \in Nat /\ l <= MaxLines
  BY <1>0
<1>2. 2 * MaxCmds \in Nat /\ 3 * MaxCmds \in Nat
  BY <1>0, Products
<1>3. /\ (2 * MaxCmds) * l <= (2 * MaxCmds) * MaxLines
      /\ (3 * MaxCmds) * l <= (3 * MaxCmds) * MaxLines
  BY <1>0, <1>1, <1>2, Monotone
<1>4. /\ (2 * MaxCmds) * MaxLines = 2 * MaxLines * MaxCmds
      /\ (3 * MaxCmds) * MaxLines = 3 * MaxLines * MaxCmds
  BY <1>0
<1>5. /\ (2 * MaxCmds) * l \in Nat /\ (2 * MaxCmds) * MaxLines \in Nat
      /\ (3 * MaxCmds) * l \in Nat /\ (3 * MaxCmds) * MaxLines \in Nat
  BY <1>0, <1>1, <1>2, Products
<1>6. \A n \in Nat : n <= (2 * MaxCmds) * l => n \in Contexts
  <2> SUFFICES ASSUME NEW n \in Nat, n <= (2 * MaxCmds) * l PROVE n \in Contexts
    OBVIOUS
  <2>1. n <= (2 * MaxCmds) * MaxLines
    BY <1>3, <1>5
  <2> QED BY <1>4, <2>1, Numbers
<1>7. \A n \in Nat \ {0} : n <= (3 * MaxCmds) * l => n \in Fils
  <2> SUFFICES ASSUME NEW n \in Nat \ {0}, n <= (3 * MaxCmds) * l PROVE n \in Fils
    OBVIOUS
  <2>1. n <= (3 * MaxCmds) * MaxLines
    BY <1>3, <1>5
  <2> QED BY <1>4, <2>1, Numbers
<1> QED BY <1>5, <1>6, <1>7

LEMMA DetachKeeps == ASSUME ContextInv, Detach PROVE ContextInv'
<1> DEFINE n == nctx + 1
           r == ctx[cur]
           z == Cleared(LeftBehind(r))
<1>0. PICK x \in Contexts : x = r.next
  BY DEF ContextInv, Control, CtxInv, Types, CtxType
<1>1. /\ pc = "exec" /\ cur \in Contexts /\ r.detached = TRUE /\ Loaded(cur) /\ Own(cur) /\ r \in CtxType
      /\ UNCHANGED <<peer, nfil, lines, follow, signal>> /\ nctx' = n
      /\ CtxInv /\ NoDoubleFree /\ 0 \in Contexts /\ Own(0) /\ nctx \in Nat /\ x = ctx[cur].next
      /\ follow \in Contexts /\ signal \subseteq Contexts
  BY <1>0, Numbers DEF Detach, ContextInv, Control, CtxInv, Types, CtxType, Fresh, Loaded, Own
<1>2. /\ r.argv = "held" /\ r.boot = TRUE /\ r.stage = "LOAD" /\ r.live = "live" /\ task[cur] = "none"
      /\ r.cmd # Comspec
      /\ x # 0 => Loaded(x)
  BY <1>1 DEF CtxInv, Links, Loaded, Own, Arguments
<1>3. PICK w \in Nat : w = Cardinality(Waiting) /\ Cardinality(Waiting \ {cur}) = w - 1 /\ w >= 1
  <2>1. cur \in Waiting
    BY <1>1, <1>2 DEF Waiting
  <2>2. IsFiniteSet(Waiting) /\ Cardinality(Waiting) \in Nat
    BY WaitingTypes, CountOf
  <2>3. Cardinality(Waiting \ {cur}) = Cardinality(Waiting) - 1
    BY <2>1, <2>2, FS_RemoveElement
  <2>4. Cardinality(Waiting) # 0
    BY <2>1, <2>2, FS_EmptySet
  <2> QED BY <2>2, <2>3, <2>4
<1>4. n \in Contexts /\ n + (w - 1) <= (2 * MaxCmds) * lines /\ n \in Nat
  <2>1. PICK u \in Nat : u = (2 * MaxCmds) * lines
    BY <1>1, LinesAre
  <2>2. nctx + w <= u
    BY <1>1, <1>3, <2>1 DEF CtxInv, Bounds
  <2>3. lines \in 0..MaxLines
    BY <1>1 DEF CtxInv, Types
  <2> QED BY <1>1, <1>3, <2>1, <2>2, <2>3, BoundsAre
<1>5. /\ ctx[n].live = "none" /\ task[n] = "none" /\ n # cur /\ n # 0 /\ n # x
      /\ \A c \in Contexts : c > n => c > nctx
  BY <1>1, <1>2, <1>4, Numbers DEF CtxInv, Fresh, Loaded, Own
<1>6. /\ Files(z) = {} /\ z.live = "live" /\ z.boot = FALSE /\ CleanCtx(z) /\ z \in CtxType
      /\ z.next = 0 /\ z.argv = "none" /\ z.stage = "INITIAL" /\ z.cmd = NoCmd /\ z.cmd # Comspec
  <2>1. /\ z.live = r.live /\ z.boot = FALSE /\ CleanCtx(z) /\ z \in CtxType
    BY <1>1, LeftBehindIs
  <2> HIDE DEF z
  <2> QED BY <1>2, <2>1 DEF CleanCtx, Files, NoCmd, Comspec
<1>7. ctx' = [ctx EXCEPT ![n] = r, ![cur] = z]
  BY <1>1 DEF Detach, Moved
<1>8. PICK t \in {"created", "gone"} : task' = [task EXCEPT ![n] = t]
  BY <1>1 DEF Detach
<1>9. fil' = fil /\ NoDoubleFree'
  <2>1. Release(Files(LeftBehind(r)), r.argv)
    BY DEF Detach
  <2>2. Files(LeftBehind(r)) = {}
    BY <1>1, LeftBehindIs
  <2>3. r.argv # "freed" /\ task[cur] # "closed"
    BY <1>2
  <2> QED BY <1>1, <1>2, <2>1, <2>2, <2>3, ReleaseKeeps
<1>10. cur' = x /\ pc' = IF x = 0 THEN "top" ELSE "exec"
  BY <1>0 DEF Detach, After
<1> HIDE DEF z
<1>11. /\ ctx'[n] = r /\ ctx'[cur] = z /\ (\A c \in Contexts : c # n /\ c # cur => ctx'[c] = ctx[c])
       /\ task'[n] = t /\ (\A c \in Contexts : c # n => task'[c] = task[c])
       /\ ctx' \in [Contexts -> CtxType]
       /\ task' \in [Contexts -> {"none", "created", "main", "ended", "closed", "removed", "gone"}]
  BY <1>1, <1>4, <1>5, <1>6, <1>7, <1>8 DEF CtxInv, Types
<1> HIDE DEF n, r
<1>12. \A c \in Contexts : Own(c)' <=> Own(c)
  BY <1>1, <1>2, <1>5, <1>6, <1>8, <1>11 DEF Own
<1>13. \A c \in Contexts : Loaded(c)' <=> c # cur /\ Loaded(c)
  BY <1>1, <1>5, <1>6, <1>11, <1>12 DEF Loaded, Own
<1>14. \A c \in Contexts : Own(c) => c # n
  BY <1>5 DEF Own
<1>15. \A c \in Contexts : Loaded(c) => ctx[c].next # cur \/ cur = 0
  BY <1>1 DEF ContextInv, Control
<1>16. x # 0 => x # cur /\ Loaded(x)'
  BY <1>1, <1>2, <1>13, <1>15 DEF r
<1>17. Types'
  BY <1>1, <1>4, <1>9, <1>11 DEF CtxInv, Types
<1>18. Fresh'
  <2>1. \A c \in Contexts : c > n => ctx'[c].live = "none" /\ task'[c] = "none"
    BY <1>1, <1>2, <1>4, <1>5, <1>11, Numbers DEF CtxInv, Fresh, r
  <2>2. \A c \in Contexts : (\A f \in Files(ctx'[c]) : f <= nfil) /\ ctx'[c].cmd[1] <= lines
    <3>1. lines \in Nat /\ z.cmd[1] = 0
      BY <1>1, <1>6, LinesAre DEF NoCmd
    <3>2. (\A f \in Files(r) : f <= nfil) /\ r.cmd[1] <= lines
      BY <1>1 DEF CtxInv, Fresh, r
    <3> QED BY <1>1, <1>6, <1>11, <3>1, <3>2 DEF CtxInv, Fresh
  <2>3. task'[0] = "none" /\ ctx'[0].live = "live"
    BY <1>1, <1>5, <1>6, <1>11 DEF CtxInv, Fresh
  <2> QED BY <1>1, <1>9, <2>1, <2>2, <2>3 DEF CtxInv, Fresh, Files
<1>19. Bounds'
  <2>1. Waiting' = Waiting \ {cur}
    <3>1. \A c \in Contexts : c # cur /\ Own(c) => ctx'[c] = ctx[c]
      BY <1>11, <1>14
    <3> QED BY <1>6, <1>11, <1>12, <3>1 DEF Waiting
  <2> QED BY <1>1, <1>3, <1>4, <2>1 DEF CtxInv, Bounds
<1>20. Arguments'
  <2> SUFFICES ASSUME NEW c \in Contexts
               PROVE  /\ ctx'[c].cmd = Comspec => c = 0 /\ ctx'[c].next = 0 /\ ctx'[c].detached = FALSE /\ ctx'[c].stage = "LOAD"
                      /\ task'[c] = "none" => ctx'[c].argv # "freed"
                      /\ Own(c) /\ ctx'[c].argv = "held" => ctx'[c].stage \in {"PREPARED", "LOAD"}
                      /\ Own(c) /\ ctx'[c].stage = "PREPARED" => ctx'[c].argv = "held"
    BY <1>12 DEF Arguments
  <2>1. CASE c = n
    BY <1>2, <1>8, <1>11, <1>14, <2>1
  <2>2. CASE c = cur
    BY <1>6, <1>11, <2>2
  <2>3. CASE c # n /\ c # cur
    <3>1. ctx'[c] = ctx[c] /\ task'[c] = task[c]
      BY <1>11, <2>3
    <3> QED BY <1>1, <3>1 DEF CtxInv, Arguments
  <2> QED BY <2>1, <2>2, <2>3
<1>21. Links'
  <2>0. \A c \in Contexts : ctx[c].next \in Contexts
    BY <1>1 DEF CtxInv, Types, CtxType
  <2>1. ASSUME NEW c \in Contexts, Own(c), ctx'[c].next # 0
        PROVE  c # cur /\ ctx'[c] = ctx[c] /\ Own(ctx[c].next)' /\ ctx'[c].detached = TRUE
    <3>1. c # cur /\ ctx'[c] = ctx[c]
      BY <1>6, <1>11, <1>14, <2>1
    <3> QED BY <1>1, <1>12, <2>0, <2>1, <3>1 DEF CtxInv, Links
  <2>2. \A c \in Contexts : Own(c)' /\ ctx'[c].next # 0 => Own(ctx[c].next)' /\ ctx'[c].detached = TRUE
    BY <1>12, <2>1
  <2>3. \A c, d \in Contexts : Own(c)' /\ Own(d)' /\ ctx'[c].next = ctx'[d].next /\ ctx'[c].next # 0 => c = d
    <3> SUFFICES ASSUME NEW c \in Contexts, NEW d \in Contexts, Own(c), Own(d),
                        ctx'[c].next = ctx'[d].next, ctx'[c].next # 0
                 PROVE  c = d
      BY <1>12
    <3>1. ctx'[c] = ctx[c] /\ ctx'[d] = ctx[d]
      BY <2>1
    <3> QED BY <1>1, <3>1 DEF CtxInv, Links
  <2>4. ASSUME NEW c \in Contexts, Loaded(c)'
        PROVE  /\ ctx'[c] = ctx[c] /\ ctx'[c].boot = TRUE /\ ctx'[c].argv = "held"
               /\ ctx'[c].next # 0 => Loaded(ctx[c].next)'
    <3>1. c # cur /\ Loaded(c) /\ Own(c)
      BY <1>13, <2>4 DEF Loaded
    <3>2. ctx'[c] = ctx[c]
      BY <1>11, <1>14, <3>1
    <3>3. ctx[c].boot = TRUE /\ ctx[c].argv = "held" /\ (ctx[c].next # 0 => Loaded(ctx[c].next))
      BY <1>1, <3>1 DEF CtxInv, Links
    <3>4. ctx[c].next # 0 => Loaded(ctx[c].next)'
      <4>1. PICK m \in Contexts : m = ctx[c].next
        BY <2>0
      <4>2. m # 0 => m # cur /\ Loaded(m)
        BY <1>15, <3>1, <3>3, <4>1
      <4>3. m # 0 => Loaded(m)'
        BY <1>13, <4>2
      <4>4. ctx'[c].next = m
        BY <3>2, <4>1
      <4> QED BY <4>1, <4>3, <4>4
    <3> QED BY <3>2, <3>3, <3>4
  <2>5. \A c \in Contexts : Loaded(c)' => /\ ctx'[c].boot = TRUE /\ ctx'[c].argv = "held"
                                          /\ ctx'[c].next # 0 => Loaded(ctx[c].next)'
    BY <2>4
  <2>6. \A c \in Contexts : (Own(c)' /\ ctx'[c].next # 0) \/ Loaded(c)' => ctx'[c] = ctx[c]
    BY <1>12, <2>1, <2>4
  <2> QED BY <2>2, <2>3, <2>5, <2>6 DEF Links, Own, Loaded
<1>22. Detached'
  <2> SUFFICES ASSUME NEW c \in Contexts
               PROVE  /\ task'[c] \in {"created", "main", "ended"} =>
                           ctx'[c].live = "live" /\ ctx'[c].boot = TRUE /\ ctx'[c].argv = "held"
                      /\ task'[c] = "closed" => ctx'[c].live = "live"
                      /\ task'[c] = "removed" => ctx'[c].live = "freed"
    BY DEF Detached
  <2>1. CASE c = n
    BY <1>2, <1>8, <1>11, <2>1
  <2>2. CASE c = cur
    BY <1>2, <1>5, <1>11, <2>2
  <2>3. CASE c # n /\ c # cur
    <3>1. ctx'[c] = ctx[c] /\ task'[c] = task[c]
      BY <1>11, <2>3
    <3> QED BY <1>1, <3>1 DEF CtxInv, Detached
  <2> QED BY <2>1, <2>2, <2>3
<1> DEFINE o(c) == IF c = n THEN cur ELSE c
<1>23. ASSUME NEW c \in Contexts, c # cur, ctx'[c].live = "live"
       PROVE  /\ o(c) \in Contexts /\ ctx'[c] = ctx[o(c)] /\ (task[o(c)] = "closed" => task'[c] = "closed")
  BY <1>1, <1>2, <1>11, <1>23 DEF r
<1>24. Owned'
  <2>1. ASSUME NEW c \in Contexts, NEW d \in Contexts, ctx'[c].live = "live", ctx'[d].live = "live", c # d
        PROVE  Files(ctx'[c]) \cap Files(ctx'[d]) = {}
    <3>1. CASE c = cur \/ d = cur
      BY <1>6, <1>11, <3>1
    <3>2. CASE c # cur /\ d # cur
      <4>1. o(c) # o(d)
        BY <2>1, <3>2
      <4>2. o(c) \in Contexts /\ o(d) \in Contexts /\ ctx'[c] = ctx[o(c)] /\ ctx'[d] = ctx[o(d)]
        BY <1>23, <2>1, <3>2
      <4>3. Files(ctx[o(c)]) \cap Files(ctx[o(d)]) = {}
        <5> HIDE DEF o
        <5> QED BY <1>1, <2>1, <4>1, <4>2 DEF CtxInv, Owned
      <4> QED BY <4>2, <4>3
    <3> QED BY <3>1, <3>2
  <2>2. ASSUME NEW c \in Contexts, ctx'[c].live = "live", task'[c] # "closed", NEW f \in Files(ctx'[c])
        PROVE  fil[f] \in {"unopened", "open"}
    <3>1. c # cur
      BY <1>6, <1>11, <2>2
    <3>2. o(c) \in Contexts /\ ctx'[c] = ctx[o(c)] /\ task[o(c)] # "closed"
      BY <1>23, <2>2, <3>1
    <3> HIDE DEF o
    <3> QED BY <1>1, <2>2, <3>2 DEF CtxInv, Owned
  <2> QED BY <1>9, <2>1, <2>2 DEF Owned, Files
<1>25. Joined'
  <2> SUFFICES ASSUME NEW d \in Contexts, NEW e \in Contexts,
                      ctx'[d].live = "live", ctx'[d].argv = "held", ctx'[d].cmd[1] > 0,
                      ctx'[e].live = "live", ctx'[e].argv = "held",
                      ctx'[e].cmd = <<ctx'[d].cmd[1], ctx'[d].cmd[2] + 1>>
               PROVE  ctx'[d].out # 0 /\ ctx'[e].in = peer[ctx'[d].out] /\ ctx'[d].err = ctx'[d].out
    BY <1>1 DEF Joined
  <2>1. d # cur /\ e # cur
    BY <1>6, <1>11
  <2>2. o(d) \in Contexts /\ o(e) \in Contexts /\ ctx'[d] = ctx[o(d)] /\ ctx'[e] = ctx[o(e)]
    BY <1>23, <2>1
  <2> HIDE DEF o
  <2> QED BY <1>1, <2>2 DEF CtxInv, Joined
<1>26. CleanCtx(ctx'[0])
  <2>1. CASE cur = 0
    BY <1>6, <1>11, <2>1
  <2>2. CASE cur # 0
    BY <1>1, <1>5, <1>11, <2>2 DEF ContextInv, Control
  <2> QED BY <2>1, <2>2
<1>27. Control'
  <2>1. Own(x)'
    BY <1>1, <1>12, <1>16 DEF Loaded
  <2>2. ASSUME x # 0, NEW c \in Contexts, Loaded(c)' PROVE ctx'[c].next # x
    <3>1. c # cur /\ Loaded(c) /\ Own(c)
      BY <1>13, <2>2 DEF Loaded
    <3>2. ctx'[c] = ctx[c]
      BY <1>11, <1>14, <3>1
    <3> QED BY <1>1, <2>2, <3>1, <3>2 DEF CtxInv, Links
  <2>3. pc' \in {"top", "exec"} /\ (x # 0 => pc' # "top") /\ (x = 0 => pc' = "top")
    BY <1>10
  <2>4. ctx'[0].stage # "LOAD"
    BY <1>26 DEF CleanCtx
  <2>5. Own(cur)' /\ (x # 0 => Loaded(cur)') /\ cur' = x
    <3>1. cur' = x
      BY <1>10
    <3> QED BY <1>16, <2>1, <3>1 DEF Own, Loaded
  <2> QED BY <1>1, <1>26, <2>2, <2>3, <2>4, <2>5 DEF Control
<1>28. Handler'
  <2> SUFFICES ASSUME NEW c \in signal
               PROVE  ctx'[c].boot = TRUE /\ task'[c] \in {"main", "gone"}
    BY <1>1 DEF Handler
  <2>1. ctx[c].boot = TRUE /\ task[c] \in {"main", "gone"} /\ c \in Contexts
    BY <1>1 DEF ContextInv, Handler
  <2>2. c # n /\ c # cur
    BY <1>2, <1>5, <2>1
  <2> QED BY <1>11, <2>1, <2>2
<1> QED BY <1>9, <1>17, <1>18, <1>19, <1>20, <1>21, <1>22, <1>24, <1>25, <1>27, <1>28 DEF ContextInv, CtxInv

-----------------------------------------------------------------------------
(* What a line of k commands may do, whether it is refused or not: context  *)
(* 0 and k - 1 fresh ones are written, and fresh FILs only.                 *)
Taken(k, c) == c = 0 \/ (nctx < c /\ c < nctx + k)
NewOnes(f, k) == nfil < f /\ f <= nfil + 3 * k

LineCounts(k) ==
    /\ lines < MaxLines /\ lines' = lines + 1 /\ nctx' = nctx + k - 1 /\ nfil' = nfil + 3 * k /\ task' = task
    /\ ctx' \in [Contexts -> CtxType] /\ \A c \in Contexts : ~Taken(k, c) => ctx'[c] = ctx[c]
    /\ fil' \in [Fils -> {"none", "unopened", "open", "freed"}] /\ peer' \in [Fils -> {0} \cup Fils]
    /\ \A f \in Fils : ~NewOnes(f, k) => fil'[f] = fil[f] /\ peer'[f] = peer[f]

LineContexts(k) ==
    /\ ctx'[0].live = "live"
    /\ \A c \in Contexts : Taken(k, c) =>
         /\ ctx'[c].cmd # Comspec /\ (ctx'[c].cmd[1] = 0 \/ ctx'[c].cmd[1] = lines + 1)
         /\ ctx'[c].argv # "freed" /\ ctx'[c].stage # "LOAD"
         /\ (ctx'[c].argv = "held" => ctx'[c].stage = "PREPARED") /\ (ctx'[c].stage = "PREPARED" => ctx'[c].argv = "held")
         /\ ctx'[c].next # 0 => Taken(k, ctx'[c].next) /\ ctx'[ctx'[c].next].live = "live" /\ ctx'[c].detached = TRUE
         /\ \A f \in Files(ctx'[c]) : NewOnes(f, k)
         /\ ctx'[c].live = "live" => \A f \in Files(ctx'[c]) : fil'[f] \in {"unopened", "open"}

LinePairs(k) ==
    \A c, d \in Contexts : Taken(k, c) /\ Taken(k, d) /\ ctx'[c].live = "live" /\ ctx'[d].live = "live" =>
      /\ ctx'[c].next # 0 /\ ctx'[c].next = ctx'[d].next => c = d
      /\ c # d => Files(ctx'[c]) \cap Files(ctx'[d]) = {}
      /\ ctx'[c].argv = "held" /\ ctx'[c].cmd[1] > 0 /\ ctx'[d].argv = "held"
         /\ ctx'[d].cmd = <<ctx'[c].cmd[1], ctx'[c].cmd[2] + 1>>
         => ctx'[c].out # 0 /\ ctx'[d].in = peer'[ctx'[c].out] /\ ctx'[c].err = ctx'[c].out

LEMMA LineBounds ==
    ASSUME CtxInv, NEW k \in 1..MaxCmds, lines < MaxLines
    PROVE  /\ nctx + k - 1 \in Contexts /\ nctx \in Nat /\ nfil \in Nat /\ k \in Nat
           /\ lines + 1 \in 0..MaxLines /\ lines \in Nat
           /\ \A f \in Nat : NewOnes(f, k) => f \in Fils
           /\ \A c \in Nat : nctx < c /\ c < nctx + k => c \in Contexts
           /\ nfil + 3 * k <= (3 * MaxCmds) * (lines + 1)
           /\ \A v \in Nat : v <= Cardinality(Waiting) + k => (nctx + k - 1) + v <= (2 * MaxCmds) * (lines + 1)
<1>0. MaxCmds \in Nat /\ MaxLines \in Nat
  BY ShellAssumption
<1>1. MaxCmds \in Nat /\ k \in Nat /\ k >= 1 /\ k <= MaxCmds /\ MaxLines \in Nat
  BY <1>0
<1>2. lines \in Nat /\ lines + 1 \in 0..MaxLines
  BY <1>1 DEF CtxInv, Types
<1>3. nctx \in Nat /\ nfil \in Nat
  BY Numbers DEF CtxInv, Types
<1>4. PICK w \in Nat : w = Cardinality(Waiting)
  BY WaitingTypes, CountOf
<1>5. PICK u \in Nat : u = (2 * MaxCmds) * lines
  BY LinesAre
<1>6. PICK t \in Nat : t = (3 * MaxCmds) * lines
  BY LinesAre
<1>7. nctx + w <= u /\ nfil <= t
  BY <1>4, <1>5, <1>6 DEF CtxInv, Bounds
<1>8. (2 * MaxCmds) * (lines + 1) = u + 2 * MaxCmds /\ (3 * MaxCmds) * (lines + 1) = t + 3 * MaxCmds
  BY <1>1, <1>2, <1>5, <1>6
<1>9. nfil + 3 * k <= (3 * MaxCmds) * (lines + 1)
  BY <1>1, <1>3, <1>7, <1>8
<1>10. \A v \in Nat : v <= w + k => (nctx + k - 1) + v <= (2 * MaxCmds) * (lines + 1)
  BY <1>1, <1>3, <1>7, <1>8
<1>11. nctx + k - 1 \in Nat /\ nctx + k - 1 <= (2 * MaxCmds) * (lines + 1)
  BY <1>1, <1>3, <1>7, <1>8
<1>12. nctx + k - 1 \in Contexts
  BY <1>2, <1>11, BoundsAre
<1>13. ASSUME NEW f \in Nat, NewOnes(f, k) PROVE f \in Fils
  <2>1. f \in Nat \ {0} /\ f <= (3 * MaxCmds) * (lines + 1)
    BY <1>1, <1>3, <1>7, <1>8, <1>13 DEF NewOnes
  <2> QED BY <1>2, <2>1, BoundsAre
<1>14. ASSUME NEW c \in Nat, nctx < c, c < nctx + k PROVE c \in Contexts
  <2>1. c <= (2 * MaxCmds) * (lines + 1)
    BY <1>1, <1>3, <1>7, <1>8, <1>14
  <2> QED BY <1>2, <2>1, BoundsAre
<1> QED BY <1>1, <1>2, <1>3, <1>4, <1>9, <1>10, <1>12, <1>13, <1>14

LEMMA LineKeeps ==
    ASSUME CtxInv, CleanCtx(ctx[0]), NEW k \in 1..MaxCmds, LineCounts(k), LineContexts(k), LinePairs(k)
    PROVE  CtxInv'
<1>1. /\ nctx + k - 1 \in Contexts /\ nctx \in Nat /\ nfil \in Nat /\ k \in Nat /\ k >= 1
      /\ lines + 1 \in 0..MaxLines /\ lines \in Nat /\ 0 \in Contexts /\ Contexts \subseteq Nat /\ Fils \subseteq Nat
      /\ lines' = lines + 1 /\ nctx' = nctx + k - 1 /\ nfil' = nfil + 3 * k /\ task' = task
  BY LineBounds, Numbers DEF LineCounts
<1>2. \A c \in Contexts : ~Taken(k, c) => ctx'[c] = ctx[c]
  BY DEF LineCounts
<1>3. \A c \in Contexts : Taken(k, c) => task[c] = "none" /\ (c # 0 => ctx[c].live = "none")
  BY <1>1 DEF Taken, CtxInv, Fresh
<1>4. \A c \in Contexts : ctx[c].live = "live" => ~Taken(k, c) \/ c = 0
  BY <1>3
<1>5. Taken(k, 0) /\ Own(0) /\ ctx[0].next = 0 /\ ctx[0].stage = "INITIAL"
  BY <1>1 DEF Taken, CtxInv, Fresh, Own, CleanCtx
<1>6. \A c \in Contexts : Files(ctx[c]) \subseteq Fils /\ \A f \in Files(ctx[c]) : ~NewOnes(f, k)
  <2> SUFFICES ASSUME NEW c \in Contexts
               PROVE  Files(ctx[c]) \subseteq Fils /\ \A f \in Files(ctx[c]) : ~NewOnes(f, k)
    OBVIOUS
  <2>1. Files(ctx[c]) \subseteq Fils
    BY FilesAreFils
  <2>2. ASSUME NEW f \in Files(ctx[c]) PROVE ~NewOnes(f, k)
    <3>1. f <= nfil /\ f \in Nat
      BY <1>1, <2>1 DEF CtxInv, Fresh
    <3> QED BY <1>1, <3>1 DEF NewOnes
  <2> QED BY <2>1, <2>2
<1>7. \A f \in Fils : ~NewOnes(f, k) => fil'[f] = fil[f] /\ peer'[f] = peer[f]
  BY DEF LineCounts
<1>8. \A c \in Contexts : Own(c) /\ c # 0 => Own(c)' /\ ~Taken(k, c) /\ ctx'[c] = ctx[c]
  BY <1>1, <1>2, <1>4 DEF Own
<1>9. \A c \in Contexts : Own(c)' /\ ~Taken(k, c) => Own(c)
  BY <1>1, <1>2 DEF Own
<1>10. \A c \in Contexts : Loaded(c)' => Loaded(c) /\ c # 0 /\ ~Taken(k, c)
  BY <1>1, <1>2, <1>5, <1>9 DEF Loaded, LineContexts
<1>11. Types'
  BY <1>1 DEF LineCounts, CtxInv, Types
<1>12. Fresh'
  <2>1. ASSUME NEW c \in Contexts, c > nctx + k - 1 PROVE ctx'[c].live = "none" /\ task'[c] = "none"
    <3>1. ~Taken(k, c) /\ c > nctx
      BY <1>1, <2>1 DEF Taken
    <3> QED BY <1>1, <1>2, <3>1 DEF CtxInv, Fresh
  <2>2. ASSUME NEW f \in Fils, f > nfil + 3 * k PROVE fil'[f] = "none"
    <3>1. ~NewOnes(f, k) /\ f > nfil
      BY <1>1, <2>2 DEF NewOnes
    <3> QED BY <1>7, <3>1 DEF CtxInv, Fresh
  <2>3. ASSUME NEW c \in Contexts
        PROVE  (\A f \in Files(ctx'[c]) : f <= nfil + 3 * k) /\ ctx'[c].cmd[1] <= lines + 1
    <3>1. CASE Taken(k, c)
      BY <1>1, <3>1 DEF LineContexts, NewOnes
    <3>2. CASE ~Taken(k, c)
      <4>1. ctx'[c] = ctx[c] /\ Files(ctx[c]) \subseteq Nat /\ ctx[c].cmd[1] \in Nat
        BY <1>1, <1>2, <1>6, <3>2 DEF CtxInv, Types, CtxType
      <4>2. (\A f \in Files(ctx[c]) : f <= nfil) /\ ctx[c].cmd[1] <= lines
        BY DEF CtxInv, Fresh
      <4>3. \A f \in Files(ctx[c]) : f <= nfil + 3 * k
        BY <1>1, <4>1, <4>2
      <4>4. ctx[c].cmd[1] <= lines + 1
        BY <1>1, <4>1, <4>2
      <4> QED BY <4>1, <4>3, <4>4
    <3> QED BY <3>1, <3>2
  <2>4. task'[0] = "none" /\ ctx'[0].live = "live"
    BY <1>1 DEF LineContexts, CtxInv, Fresh
  <2> QED BY <1>1, <2>1, <2>2, <2>3, <2>4 DEF Fresh, Files
<1>13. Bounds'
  <2> DEFINE T == {0} \cup (nctx + 1)..(nctx + k - 1)
  <2>1. Waiting' \subseteq Waiting \cup T
    <3>0. \A c \in Contexts : Taken(k, c) => c \in T
      BY <1>1 DEF Taken
    <3> SUFFICES ASSUME NEW c \in Waiting', ~Taken(k, c) PROVE c \in Waiting
      BY <3>0 DEF Waiting
    <3>1. c \in Contexts /\ ctx'[c] = ctx[c] /\ Own(c)
      BY <1>2, <1>9 DEF Waiting
    <3> QED BY <3>1 DEF Waiting
  <2>2. IsFiniteSet(T) /\ Cardinality(T) = k
    <3>1. IsFiniteSet((nctx + 1)..(nctx + k - 1)) /\ Cardinality((nctx + 1)..(nctx + k - 1)) = k - 1
      <4>1. nctx + 1 \in Int /\ nctx + k - 1 \in Int
        BY <1>1
      <4>2. (nctx + 1 > nctx + k - 1 => k - 1 = 0) /\ (nctx + k - 1) - (nctx + 1) + 1 = k - 1
        BY <1>1
      <4> QED BY <4>1, <4>2, FS_Interval
    <3>2. 0 \notin (nctx + 1)..(nctx + k - 1)
      BY <1>1
    <3>3. T = ((nctx + 1)..(nctx + k - 1)) \cup {0}
      OBVIOUS
    <3> DEFINE R == (nctx + 1)..(nctx + k - 1)
    <3> HIDE DEF R, T
    <3>4. IsFiniteSet(R \cup {0}) /\ Cardinality(R \cup {0}) = Cardinality(R) + 1
      BY <3>1, <3>2, FS_AddElement DEF R
    <3>5. T = R \cup {0} /\ Cardinality(R) = k - 1
      BY <3>1, <3>3 DEF R
    <3>6. Cardinality(T) = k
      BY <1>1, <3>4, <3>5
    <3> QED BY <3>4, <3>5, <3>6
  <2> HIDE DEF T
  <2>3. IsFiniteSet(Waiting) /\ Cardinality(Waiting) \in Nat
    BY WaitingTypes, CountOf
  <2>4. IsFiniteSet(Waiting \cup T) /\ Cardinality(Waiting \cup T) <= Cardinality(Waiting) + k
        /\ Cardinality(Waiting \cup T) \in Nat
    <3>1. IsFiniteSet(Waiting \cap T) /\ Cardinality(Waiting \cap T) \in Nat
      BY <2>3, FS_Subset, FS_CardinalityType
    <3>2. IsFiniteSet(Waiting \cup T)
          /\ Cardinality(Waiting \cup T) = Cardinality(Waiting) + Cardinality(T) - Cardinality(Waiting \cap T)
      BY <2>2, <2>3, FS_Union
    <3> QED BY <1>1, <2>2, <2>3, <3>1, <3>2, FS_CardinalityType
  <2>5. Cardinality(Waiting') \in Nat /\ Cardinality(Waiting') <= Cardinality(Waiting \cup T)
    BY <2>1, <2>4, FS_Subset, FS_CardinalityType
  <2>6. Cardinality(Waiting') <= Cardinality(Waiting) + k
    BY <1>1, <2>3, <2>4, <2>5
  <2>7. lines < MaxLines
    BY DEF LineCounts
  <2>8. (nctx + k - 1) + Cardinality(Waiting') <= (2 * MaxCmds) * (lines + 1)
        /\ nfil + 3 * k <= (3 * MaxCmds) * (lines + 1)
    BY <2>5, <2>6, <2>7, LineBounds
  <2> QED BY <1>1, <2>8 DEF Bounds
<1>14. Arguments'
  <2> SUFFICES ASSUME NEW c \in Contexts
               PROVE  /\ ctx'[c].cmd = Comspec => c = 0 /\ ctx'[c].next = 0 /\ ctx'[c].detached = FALSE /\ ctx'[c].stage = "LOAD"
                      /\ task'[c] = "none" => ctx'[c].argv # "freed"
                      /\ Own(c)' /\ ctx'[c].argv = "held" => ctx'[c].stage \in {"PREPARED", "LOAD"}
                      /\ Own(c)' /\ ctx'[c].stage = "PREPARED" => ctx'[c].argv = "held"
    BY DEF Arguments
  <2>1. CASE Taken(k, c)
    BY <2>1 DEF LineContexts
  <2>2. CASE ~Taken(k, c)
    <3>1. ctx'[c] = ctx[c] /\ (Own(c)' => Own(c))
      BY <1>2, <1>9, <2>2
    <3> QED BY <1>1, <3>1 DEF CtxInv, Arguments
  <2> QED BY <2>1, <2>2
<1>15. Links'
  <2>0. \A c \in Contexts : ctx[c].next \in Contexts
    BY DEF CtxInv, Types, CtxType
  <2>1. ASSUME NEW c \in Contexts, Own(c)', ctx'[c].next # 0, ~Taken(k, c)
        PROVE  /\ Own(c) /\ ctx'[c] = ctx[c] /\ Own(ctx[c].next) /\ ctx[c].detached = TRUE
               /\ Own(ctx[c].next)' /\ ~Taken(k, ctx[c].next)
    <3>1. Own(c) /\ ctx'[c] = ctx[c]
      BY <1>2, <1>9, <2>1
    <3>2. Own(ctx[c].next) /\ ctx[c].detached = TRUE
      BY <2>1, <3>1 DEF CtxInv, Links
    <3>3. PICK m \in Contexts : m = ctx[c].next
      BY <2>0
    <3>4. Own(m)' /\ ~Taken(k, m)
      BY <1>8, <2>1, <3>1, <3>2, <3>3
    <3> QED BY <3>1, <3>2, <3>3, <3>4
  <2>2. ASSUME NEW c \in Contexts, Own(c)', ctx'[c].next # 0
        PROVE  Own(ctx[c].next)' /\ ctx'[c].detached = TRUE
    <3>1. CASE Taken(k, c)
      <4>1. PICK m \in Contexts : m = ctx'[c].next
        BY <1>11 DEF Types, CtxType
      <4>2. Taken(k, m) /\ ctx'[m].live = "live" /\ ctx'[c].detached = TRUE
        BY <2>2, <3>1, <4>1 DEF LineContexts
      <4>3. Own(m)'
        BY <1>1, <1>3, <4>2 DEF Own
      <4> QED BY <4>1, <4>2, <4>3
    <3>2. CASE ~Taken(k, c)
      BY <2>1, <2>2, <3>2
    <3> QED BY <3>1, <3>2
  <2>3. ASSUME NEW c \in Contexts, NEW d \in Contexts, Own(c)', Own(d)', ctx'[c].next = ctx'[d].next, ctx'[c].next # 0
        PROVE  c = d
    <3>1. CASE Taken(k, c) /\ Taken(k, d)
      BY <2>3, <3>1 DEF LinePairs, Own
    <3>2. CASE ~Taken(k, c) /\ ~Taken(k, d)
      <4>1. Own(c) /\ Own(d) /\ ctx'[c] = ctx[c] /\ ctx'[d] = ctx[d]
        BY <1>2, <1>9, <2>3, <3>2
      <4> QED BY <2>3, <4>1 DEF CtxInv, Links
    <3>3. ASSUME NEW a \in Contexts, NEW b \in Contexts, Own(a)', Own(b)', ctx'[a].next # 0, Taken(k, a), ~Taken(k, b)
          PROVE  ctx'[a].next # ctx'[b].next
      <4>1. Taken(k, ctx'[a].next)
        BY <3>3 DEF LineContexts
      <4>2. ctx'[b].next # 0 => ~Taken(k, ctx'[b].next)
        BY <2>1, <3>3
      <4> QED BY <3>3, <4>1, <4>2
    <3> QED BY <2>3, <3>1, <3>2, <3>3
  <2>4. ASSUME NEW c \in Contexts, Loaded(c)'
        PROVE  /\ ctx'[c].boot = TRUE /\ ctx'[c].argv = "held"
               /\ ctx'[c].next # 0 => Loaded(ctx[c].next)'
    <3>1. Loaded(c) /\ ctx'[c] = ctx[c] /\ ~Taken(k, c)
      BY <1>2, <1>10, <2>4
    <3>2. ctx[c].boot = TRUE /\ ctx[c].argv = "held" /\ (ctx[c].next # 0 => Loaded(ctx[c].next))
      BY <3>1 DEF CtxInv, Links
    <3>3. PICK m \in Contexts : m = ctx[c].next
      BY <2>0
    <3>4. m # 0 => Loaded(m)'
      BY <1>8, <3>2, <3>3 DEF Loaded
    <3> QED BY <3>1, <3>2, <3>3, <3>4
  <2> QED BY <2>2, <2>3, <2>4 DEF Links, Own, Loaded
<1>16. Detached'
  <2> SUFFICES ASSUME NEW c \in Contexts, task[c] # "none"
               PROVE  /\ task[c] \in {"created", "main", "ended"} =>
                           ctx'[c].live = "live" /\ ctx'[c].boot = TRUE /\ ctx'[c].argv = "held"
                      /\ task[c] = "closed" => ctx'[c].live = "live"
                      /\ task[c] = "removed" => ctx'[c].live = "freed"
    BY <1>1 DEF Detached
  <2>1. ctx'[c] = ctx[c]
    BY <1>2, <1>3
  <2> QED BY <2>1 DEF CtxInv, Detached
<1>17. Owned'
  <2>1. ASSUME NEW c \in Contexts, NEW d \in Contexts, ctx'[c].live = "live", ctx'[d].live = "live", c # d
        PROVE  Files(ctx'[c]) \cap Files(ctx'[d]) = {}
    <3>1. CASE Taken(k, c) /\ Taken(k, d)
      BY <2>1, <3>1 DEF LinePairs
    <3>2. CASE ~Taken(k, c) /\ ~Taken(k, d)
      <4>1. ctx'[c] = ctx[c] /\ ctx'[d] = ctx[d]
        BY <1>2, <3>2
      <4> QED BY <2>1, <4>1 DEF CtxInv, Owned
    <3>3. ASSUME NEW a \in Contexts, NEW b \in Contexts, Taken(k, a), ~Taken(k, b)
          PROVE  Files(ctx'[a]) \cap Files(ctx'[b]) = {}
      <4>1. \A f \in Files(ctx'[a]) : NewOnes(f, k)
        BY <3>3 DEF LineContexts
      <4>2. \A f \in Files(ctx'[b]) : ~NewOnes(f, k)
        BY <1>2, <1>6, <3>3
      <4> QED BY <4>1, <4>2
    <3> QED BY <3>1, <3>2, <3>3
  <2>2. ASSUME NEW c \in Contexts, ctx'[c].live = "live", task'[c] # "closed", NEW f \in Files(ctx'[c])
        PROVE  fil'[f] \in {"unopened", "open"}
    <3>1. CASE Taken(k, c)
      BY <2>2, <3>1 DEF LineContexts
    <3>2. CASE ~Taken(k, c)
      <4>1. ctx'[c] = ctx[c] /\ f \in Fils /\ ~NewOnes(f, k)
        BY <1>2, <1>6, <2>2, <3>2
      <4>2. fil[f] \in {"unopened", "open"}
        BY <1>1, <2>2, <4>1 DEF CtxInv, Owned
      <4> QED BY <1>7, <4>1, <4>2
    <3> QED BY <3>1, <3>2
  <2> QED BY <2>1, <2>2 DEF Owned, Files
<1>18. Joined'
  <2> SUFFICES ASSUME NEW c \in Contexts, NEW d \in Contexts,
                      ctx'[c].live = "live", ctx'[c].argv = "held", ctx'[c].cmd[1] > 0,
                      ctx'[d].live = "live", ctx'[d].argv = "held",
                      ctx'[d].cmd = <<ctx'[c].cmd[1], ctx'[c].cmd[2] + 1>>
               PROVE  ctx'[c].out # 0 /\ ctx'[d].in = peer'[ctx'[c].out] /\ ctx'[c].err = ctx'[c].out
    BY DEF Joined
  <2>1. CASE Taken(k, c) /\ Taken(k, d)
    BY <2>1 DEF LinePairs
  <2>2. CASE ~Taken(k, c) /\ ~Taken(k, d)
    <3>1. ctx'[c] = ctx[c] /\ ctx'[d] = ctx[d]
      BY <1>2, <2>2
    <3>2. ctx[c].out # 0 /\ ctx[d].in = peer[ctx[c].out] /\ ctx[c].err = ctx[c].out
      BY <3>1 DEF CtxInv, Joined
    <3>3. ctx[c].out \in Fils /\ ~NewOnes(ctx[c].out, k)
      BY <1>6, <3>2 DEF Files
    <3> QED BY <1>7, <3>1, <3>2, <3>3
  <2>3. ASSUME NEW a \in Contexts, NEW b \in Contexts, Taken(k, a), ~Taken(k, b), ctx'[a].cmd[1] = ctx'[b].cmd[1]
        PROVE  ctx'[a].cmd[1] = 0
    <3>1. ctx'[a].cmd[1] = 0 \/ ctx'[a].cmd[1] = lines + 1
      BY <2>3 DEF LineContexts
    <3>2. ctx'[b].cmd[1] \in Nat /\ ctx'[b].cmd[1] <= lines
      BY <1>2, <2>3 DEF CtxInv, Types, CtxType, Fresh
    <3> QED BY <1>1, <2>3, <3>1, <3>2
  <2>4. ctx'[d].cmd[1] = ctx'[c].cmd[1]
    OBVIOUS
  <2> QED BY <2>1, <2>2, <2>3, <2>4
<1> QED BY <1>11, <1>12, <1>13, <1>14, <1>15, <1>16, <1>17, <1>18 DEF CtxInv

(* The contexts a line takes, one for each of its commands.                 *)
LEMMA LineIs ==
    ASSUME NEW line \in Lines
    PROVE  /\ Len(line) \in 1..MaxCmds /\ Len(line) \in Nat
           /\ \A i \in 1..Len(line) : line[i] \in Commands
<1>1. PICK k \in 1..MaxCmds : line \in [1..k -> Commands]
  BY DEF Lines
<1>2. k \in Nat
  <2>1. MaxCmds \in Nat
    BY ShellAssumption
  <2> QED BY <2>1
<1>3. line \in Seq(Commands)
  BY <1>1, <1>2, SeqDef
<1>4. Len(line) = k
  BY <1>1, <1>2, <1>3, LenProperties
<1> QED BY <1>1, <1>2, <1>4

Index(c) == IF c = 0 THEN 1 ELSE c - nctx + 1

LEMMA Places ==
    ASSUME CtxInv, NEW k \in 1..MaxCmds, lines < MaxLines
    PROVE  /\ \A i \in 1..k : Place(i) \in Contexts /\ Taken(k, Place(i)) /\ Index(Place(i)) = i
           /\ \A c \in Contexts : Taken(k, c) =>
                /\ Index(c) \in 1..k /\ Place(Index(c)) = c
                /\ (CHOOSE i \in 1..k : Place(i) = c) = Index(c)
           /\ \A i, j \in 1..k : Place(i) = Place(j) => i = j
           /\ \A c \in Contexts : c \in {Place(i) : i \in 1..k} <=> Taken(k, c)
<1>1. nctx \in Nat /\ k \in Nat /\ 0 \in Contexts /\ k >= 1 /\ Contexts \subseteq Nat
      /\ \A c \in Nat : nctx < c /\ c < nctx + k => c \in Contexts
  BY LineBounds, Numbers
<1>2. ASSUME NEW i \in 1..k
      PROVE  Place(i) \in Contexts /\ Taken(k, Place(i)) /\ Index(Place(i)) = i
  <2>1. CASE i = 1
    BY <1>1, <2>1 DEF Place, Taken, Index
  <2>2. CASE i # 1
    <3>1. nctx + i - 1 \in Nat /\ nctx < nctx + i - 1 /\ nctx + i - 1 < nctx + k
          /\ nctx + i - 1 # 0 /\ (nctx + i - 1) - nctx + 1 = i
      BY <1>1, <2>2
    <3>2. Place(i) = nctx + i - 1
      BY <2>2 DEF Place
    <3> QED BY <1>1, <3>1, <3>2 DEF Taken, Index
  <2> QED BY <2>1, <2>2
<1>3. ASSUME NEW c \in Contexts, Taken(k, c) PROVE Index(c) \in 1..k /\ Place(Index(c)) = c
  BY <1>1, <1>3 DEF Taken, Index, Place
<1>4. \A i, j \in 1..k : Place(i) = Place(j) => i = j
  BY <1>2
<1>5. \A c \in Contexts : Taken(k, c) => (CHOOSE i \in 1..k : Place(i) = c) = Index(c)
  BY <1>3, <1>4
<1>6. \A c \in Contexts : c \in {Place(i) : i \in 1..k} <=> Taken(k, c)
  BY <1>2, <1>3
<1> QED BY <1>2, <1>3, <1>4, <1>5, <1>6

(* What prepare_ctx makes of the context of command i.                      *)
MadeFor(line, i, r) ==
    LET k == Len(line) IN
    /\ r \in CtxType /\ r.live = "live" /\ r.boot = ctx[Place(i)].boot
    /\ \/ r.cmd = <<lines + 1, i>> /\ r.argv = "held" /\ r.stage = "PREPARED"
       \/ r.cmd = NoCmd /\ r.argv = "none" /\ r.stage = "INITIAL"
    /\ r.in = (IF i > 1 THEN nfil + 2 * k + (i - 1) ELSE 0)
    /\ \/ i < k /\ r.out = nfil + k + i /\ r.err = r.out /\ r.next = Place(i + 1) /\ r.detached = TRUE
       \/ i = k /\ r.out \in {0, nfil + i} /\ r.err = 0 /\ r.next = 0
    /\ Files(r) \subseteq Allocated(line) /\ \A f \in Files(r) : NewOnes(f, k)

LEMMA PreparedIs ==
    ASSUME CtxInv, CleanCtx(ctx[0]), NEW line \in Lines, NEW background, lines < MaxLines, NEW i \in 1..Len(line)
    PROVE  MadeFor(line, i, Prepared(line, background, i))
<1> DEFINE r == Prepared(line, background, i)
<1>0. PICK k \in 1..MaxCmds : k = Len(line) /\ i \in 1..k
  BY LineIs
<1>1. /\ nctx \in Nat /\ nfil \in Nat /\ k \in Nat /\ lines + 1 \in Nat /\ 0 \in Contexts /\ i \in Nat /\ i >= 1 /\ i <= k
      /\ \A f \in Nat : NewOnes(f, k) => f \in Fils
  BY <1>0, LineBounds, Numbers
<1>2. /\ Place(i) \in Contexts /\ (i < k => i + 1 \in 1..k /\ Place(i + 1) \in Contexts)
  BY <1>1, Places
<1>3. ctx[Place(i)].boot \in BOOLEAN /\ ctx[0].stage = "INITIAL"
  BY <1>2 DEF CtxInv, Types, CtxType, CleanCtx
<1> DEFINE ok == prepare_ctx(line[i])
<1>4. /\ r.live = "live" /\ r.boot = ctx[Place(i)].boot
      /\ r.cmd = (IF ok THEN <<lines + 1, i>> ELSE NoCmd)
      /\ r.argv = (IF ok THEN "held" ELSE "none")
      /\ r.in = (IF i > 1 THEN PipeFrom(line, i - 1) ELSE 0)
      /\ r.out = (IF i < k THEN PipeTo(line, i) ELSE IF line[i].redir # "none" THEN Redirect(i) ELSE 0)
      /\ r.err = (IF i < k THEN PipeTo(line, i) ELSE 0)
      /\ r.next = (IF i < k THEN Place(i + 1) ELSE 0)
      /\ r.stage = (IF ok THEN "PREPARED" ELSE ctx[0].stage)
      /\ r.detached = (i < k \/ background)
  BY <1>0 DEF Prepared
<1>5. r = [live |-> r.live, cmd |-> r.cmd, argv |-> r.argv, in |-> r.in, out |-> r.out, err |-> r.err,
           next |-> r.next, boot |-> r.boot, stage |-> r.stage, detached |-> r.detached]
  BY DEF Prepared
<1> HIDE DEF ok, r
<1>6. /\ \/ r.cmd = <<lines + 1, i>> /\ r.argv = "held" /\ r.stage = "PREPARED"
         \/ r.cmd = NoCmd /\ r.argv = "none" /\ r.stage = "INITIAL"
      /\ r.cmd \in Nat \X Nat /\ r.argv \in {"none", "held", "freed"}
      /\ r.stage \in {"INITIAL", "PREPARED", "LOAD", "SIGTERM"}
  BY <1>1, <1>3, <1>4 DEF NoCmd
<1>7. r.in = (IF i > 1 THEN nfil + 2 * k + (i - 1) ELSE 0)
  BY <1>0, <1>4 DEF PipeFrom
<1>8. \/ i < k /\ r.out = nfil + k + i /\ r.err = r.out /\ r.next = Place(i + 1) /\ r.detached = TRUE
      \/ i = k /\ r.out \in {0, nfil + i} /\ r.err = 0 /\ r.next = 0
  <2>1. CASE i < k
    <3>1. r.out = PipeTo(line, i) /\ r.err = PipeTo(line, i) /\ r.next = Place(i + 1) /\ r.detached = TRUE
      BY <1>4, <2>1
    <3> QED BY <1>0, <2>1, <3>1 DEF PipeTo
  <2>2. CASE i = k
    <3>1. r.out \in {0, Redirect(i)} /\ r.err = 0 /\ r.next = 0
      BY <1>1, <1>4, <2>2
    <3> QED BY <2>2, <3>1 DEF Redirect
  <2>3. i < k \/ i = k
    BY <1>1
  <2> QED BY <2>1, <2>2, <2>3, Zenon
<1>9. ASSUME NEW f \in Files(r) PROVE f \in Allocated(line) /\ f \in Fils /\ NewOnes(f, k)
  <2>1. CASE f = r.in
    <3>1. i > 1 /\ f = PipeFrom(line, i - 1) /\ i - 1 \in 1..(k - 1)
      BY <1>1, <1>4, <1>9, <2>1 DEF Files
    <3>2. f \in Allocated(line)
      BY <1>0, <3>1 DEF Allocated
    <3>3. f \in Nat /\ NewOnes(f, k)
      BY <1>1, <1>7, <2>1, <3>1 DEF NewOnes
    <3> QED BY <1>1, <3>2, <3>3
  <2>2. CASE f \in {r.out, r.err} /\ i < k
    <3>1. f = PipeTo(line, i) /\ i \in 1..(k - 1) /\ f = nfil + k + i
      BY <1>1, <1>4, <1>8, <2>2
    <3>2. f \in Allocated(line)
      BY <1>0, <3>1 DEF Allocated
    <3>3. f \in Nat /\ NewOnes(f, k)
      BY <1>1, <2>2, <3>1 DEF NewOnes
    <3> QED BY <1>1, <3>2, <3>3
  <2>3. CASE f \in {r.out, r.err} /\ ~(i < k)
    <3>1. f = Redirect(i) /\ line[i].redir # "none"
      BY <1>4, <1>9, <2>3 DEF Files
    <3>2. f \in Allocated(line)
      BY <1>0, <3>1 DEF Allocated
    <3>3. f \in Nat /\ NewOnes(f, k)
      BY <1>1, <3>1 DEF NewOnes, Redirect
    <3> QED BY <1>1, <3>2, <3>3
  <2> QED BY <1>9, <2>1, <2>2, <2>3 DEF Files
<1>10. /\ r.in \in {0} \cup Fils /\ r.out \in {0} \cup Fils /\ r.err \in {0} \cup Fils
  BY <1>9 DEF Files
<1>11. r.next \in Contexts /\ r.detached \in BOOLEAN /\ r.boot \in BOOLEAN /\ r.live = "live"
  BY <1>1, <1>2, <1>3, <1>4
<1>12. r \in CtxType
  BY <1>5, <1>6, <1>10, <1>11 DEF CtxType
<1>13. Files(r) \subseteq Allocated(line) /\ \A f \in Files(r) : NewOnes(f, k)
  BY <1>9
<1>14. MadeFor(line, i, r)
  BY <1>0, <1>4, <1>6, <1>7, <1>8, <1>12, <1>13 DEF MadeFor
<1> QED BY <1>14 DEF r

(* The FILs a line takes, and the pipes it makes of them.                   *)
LEMMA StreamsAre ==
    ASSUME CtxInv, NEW line \in Lines, lines < MaxLines, NEW k \in 1..MaxCmds, k = Len(line)
    PROVE  /\ \A f \in Allocated(line) : NewOnes(f, k)
           /\ \A f \in Fils : ~NewOnes(f, k) => Connected(line, f) = peer[f]
           /\ \A f \in Fils : Connected(line, f) \in {0} \cup Fils
           /\ \A i \in 1..(k - 1) : nfil + k + i \in Fils /\ Connected(line, nfil + k + i) = nfil + 2 * k + i
<1>1. /\ nfil \in Nat /\ k \in Nat /\ k >= 1 /\ Fils \subseteq Nat \ {0}
      /\ \A f \in Nat : NewOnes(f, k) => f \in Fils
      /\ peer \in [Fils -> {0} \cup Fils]
  BY LineBounds, Numbers DEF CtxInv, Types
<1>2. \A i \in 1..(k - 1) : /\ PipeTo(line, i) = nfil + k + i /\ PipeTo(line, i) \in Nat /\ NewOnes(PipeTo(line, i), k)
                            /\ PipeFrom(line, i) = nfil + 2 * k + i /\ PipeFrom(line, i) \in Nat
                            /\ NewOnes(PipeFrom(line, i), k)
  BY <1>1 DEF PipeTo, PipeFrom, NewOnes
<1>3. \A i \in 1..k : NewOnes(Redirect(i), k)
  BY <1>1 DEF Redirect, NewOnes
<1>4. \A f \in Allocated(line) : NewOnes(f, k)
  BY <1>2, <1>3 DEF Allocated
<1>5. ASSUME NEW f \in Fils, ~NewOnes(f, k) PROVE Connected(line, f) = peer[f]
  <2>1. ~(\E i \in 1..(k - 1) : f = PipeTo(line, i)) /\ ~(\E i \in 1..(k - 1) : f = PipeFrom(line, i))
    BY <1>2, <1>5
  <2> QED BY <2>1 DEF Connected
<1>6. ASSUME NEW f \in Fils PROVE Connected(line, f) \in {0} \cup Fils
  <2>1. CASE \E i \in 1..(k - 1) : f = PipeTo(line, i)
    <3>1. PICK i \in 1..(k - 1) : f = PipeTo(line, i)
      BY <2>1
    <3>2. Connected(line, f) = f + k
      BY <2>1 DEF Connected
    <3>3. f = nfil + k + i /\ i \in Nat
      BY <1>1, <1>2, <3>1
    <3>4. f + k = nfil + 2 * k + i
      BY <1>1, <3>3
    <3>5. nfil + 2 * k + i \in Fils
      BY <1>1, <1>2
    <3> QED BY <3>2, <3>4, <3>5
  <2>2. CASE ~(\E i \in 1..(k - 1) : f = PipeTo(line, i)) /\ \E i \in 1..(k - 1) : f = PipeFrom(line, i)
    <3>1. PICK i \in 1..(k - 1) : f = PipeFrom(line, i)
      BY <2>2
    <3>2. Connected(line, f) = f - k
      BY <2>2 DEF Connected
    <3>3. f = nfil + 2 * k + i /\ i \in Nat
      BY <1>1, <1>2, <3>1
    <3>4. f - k = nfil + k + i
      BY <1>1, <3>3
    <3>5. nfil + k + i \in Fils
      BY <1>1, <1>2
    <3> QED BY <3>2, <3>4, <3>5
  <2>3. CASE ~(\E i \in 1..(k - 1) : f = PipeTo(line, i)) /\ ~(\E i \in 1..(k - 1) : f = PipeFrom(line, i))
    <3>1. Connected(line, f) = peer[f]
      BY <2>3 DEF Connected
    <3> QED BY <1>1, <3>1
  <2> QED BY <2>1, <2>2, <2>3
<1>7. ASSUME NEW i \in 1..(k - 1)
      PROVE  nfil + k + i \in Fils /\ Connected(line, nfil + k + i) = nfil + 2 * k + i
  <2>1. Connected(line, PipeTo(line, i)) = PipeTo(line, i) + k
    BY DEF Connected
  <2>2. PipeTo(line, i) = nfil + k + i /\ nfil + k + i \in Fils /\ i \in Nat
    <3>1. PipeTo(line, i) = nfil + k + i /\ PipeTo(line, i) \in Nat /\ NewOnes(PipeTo(line, i), k)
      BY <1>2
    <3>2. nfil + k + i \in Fils
      BY <1>1, <3>1
    <3> QED BY <1>1, <3>1, <3>2
  <2>3. (nfil + k + i) + k = nfil + 2 * k + i
    BY <1>1, <2>2
  <2> QED BY <2>1, <2>2, <2>3
<1> QED BY <1>4, <1>5, <1>6, <1>7

(* A line that is run.                                                      *)
LEMMA AcceptedKeeps ==
    ASSUME CtxInv, CleanCtx(ctx[0]), NEW line \in Lines, NEW background, lines < MaxLines,
           NEW k \in 1..MaxCmds, k = Len(line),
           lines' = lines + 1, nctx' = nctx + k - 1, nfil' = nfil + 3 * k, task' = task,
           peer' = [f \in Fils |-> Connected(line, f)],
           ctx' = [c \in Contexts |-> IF c \in {Place(i) : i \in 1..k}
                                      THEN Prepared(line, background, CHOOSE i \in 1..k : Place(i) = c)
                                      ELSE ctx[c]],
           fil' \in [Fils -> {"none", "unopened", "open", "freed"}],
           \A f \in Fils : fil'[f] = fil[f] \/ f \in Allocated(line),
           \A f \in Fils : f \in Allocated(line) => fil'[f] \in {"unopened", "open"}
    PROVE  CtxInv' /\ ctx'[0].cmd # Comspec /\ ctx'[0].live = "live"
<1>1. /\ nctx \in Nat /\ nfil \in Nat /\ k \in Nat /\ k >= 1 /\ lines \in Nat /\ 0 \in Contexts
      /\ \A f \in Nat : NewOnes(f, k) => f \in Fils
  BY LineBounds, Numbers
<1>2. /\ \A i \in 1..k : Place(i) \in Contexts /\ Taken(k, Place(i)) /\ Index(Place(i)) = i
      /\ \A c \in Contexts : Taken(k, c) => Index(c) \in 1..k /\ Place(Index(c)) = c
      /\ \A i, j \in 1..k : Place(i) = Place(j) => i = j
  BY Places
<1>3. /\ \A f \in Allocated(line) : NewOnes(f, k)
      /\ \A f \in Fils : ~NewOnes(f, k) => Connected(line, f) = peer[f]
      /\ \A f \in Fils : Connected(line, f) \in {0} \cup Fils
      /\ \A i \in 1..(k - 1) : nfil + k + i \in Fils /\ Connected(line, nfil + k + i) = nfil + 2 * k + i
  BY StreamsAre
<1> DEFINE P(i) == Prepared(line, background, i)
           Made(i, r) == MadeFor(line, i, r)
<1>4. \A i \in 1..k : Made(i, P(i))
  BY PreparedIs
<1>5. ASSUME NEW c \in Contexts
      PROVE  /\ Taken(k, c) => ctx'[c] = P(Index(c))
             /\ ~Taken(k, c) => ctx'[c] = ctx[c]
  BY Places
<1> HIDE DEF P
<1>6. ASSUME NEW c \in Contexts, Taken(k, c) PROVE Made(Index(c), ctx'[c]) /\ Index(c) \in 1..k /\ ctx'[c] \in CtxType
  <2> HIDE DEF Made
  <2>1. Index(c) \in 1..k
    BY <1>2, <1>6
  <2>2. Made(Index(c), P(Index(c)))
    BY <1>4, <2>1
  <2>3. ctx'[c] = P(Index(c))
    BY <1>5, <1>6
  <2>4. ctx'[c] \in CtxType
    BY <2>2, <2>3 DEF Made, MadeFor
  <2> QED BY <2>1, <2>2, <2>3, <2>4
<1>7. LineCounts(k)
  <2>1. ctx' \in [Contexts -> CtxType]
    <3>1. \A c \in Contexts : ctx[c] \in CtxType
      BY DEF CtxInv, Types
    <3>2. \A c \in Contexts : ctx'[c] \in CtxType
      BY <1>5, <1>6, <3>1 DEF MadeFor
    <3> QED BY <3>2
  <2>2. peer' \in [Fils -> {0} \cup Fils]
    BY <1>3
  <2>3. \A f \in Fils : ~NewOnes(f, k) => fil'[f] = fil[f] /\ peer'[f] = peer[f]
    BY <1>3
  <2> QED BY <1>5, <2>1, <2>2, <2>3 DEF LineCounts
<1>8. LineContexts(k)
  <2> SUFFICES ASSUME NEW c \in Contexts, Taken(k, c)
               PROVE  /\ ctx'[c].cmd # Comspec /\ (ctx'[c].cmd[1] = 0 \/ ctx'[c].cmd[1] = lines + 1)
                      /\ ctx'[c].argv # "freed" /\ ctx'[c].stage # "LOAD"
                      /\ (ctx'[c].argv = "held" => ctx'[c].stage = "PREPARED")
                      /\ (ctx'[c].stage = "PREPARED" => ctx'[c].argv = "held")
                      /\ ctx'[c].next # 0 => Taken(k, ctx'[c].next) /\ ctx'[ctx'[c].next].live = "live" /\ ctx'[c].detached = TRUE
                      /\ \A f \in Files(ctx'[c]) : NewOnes(f, k)
                      /\ ctx'[c].live = "live" => \A f \in Files(ctx'[c]) : fil'[f] \in {"unopened", "open"}
    <3>1. Taken(k, 0)
      BY DEF Taken
    <3>2. ctx'[0].live = "live"
      BY <1>1, <1>6, <3>1 DEF MadeFor
    <3> QED BY <3>2 DEF LineContexts
  <2>1. PICK i \in 1..k, x \in CtxType : x = ctx'[c] /\ i = Index(c) /\ Made(i, x)
    <3> HIDE DEF Made
    <3> QED BY <1>6, Zenon
  <2>2. /\ x.cmd # Comspec /\ (x.cmd[1] = 0 \/ x.cmd[1] = lines + 1)
        /\ x.argv # "freed" /\ x.stage # "LOAD"
        /\ (x.argv = "held" => x.stage = "PREPARED")
        /\ (x.stage = "PREPARED" => x.argv = "held")
    <3>1. CASE x.cmd = <<lines + 1, i>> /\ x.argv = "held" /\ x.stage = "PREPARED"
      <4>1. x.cmd[1] = lines + 1 /\ lines + 1 # 0 /\ Comspec[1] = 0
        BY <1>1, <3>1 DEF Comspec
      <4> QED BY <3>1, <4>1
    <3>2. CASE x.cmd = NoCmd /\ x.argv = "none" /\ x.stage = "INITIAL"
      <4>1. x.cmd[1] = 0 /\ x.cmd[2] = 0 /\ Comspec[2] = 1
        BY <3>2 DEF Comspec, NoCmd
      <4> QED BY <3>2, <4>1
    <3> QED BY <2>1, <3>1, <3>2 DEF MadeFor
  <2>3. ASSUME x.next # 0
        PROVE  Taken(k, x.next) /\ ctx'[x.next].live = "live" /\ x.detached = TRUE
    <3>1. x.next = Place(i + 1) /\ i < k /\ x.detached = TRUE
      BY <2>1, <2>3 DEF MadeFor
    <3>2. i + 1 \in 1..k
      BY <1>1, <3>1
    <3>3. PICK d \in Contexts : d = x.next /\ Taken(k, d)
      BY <1>2, <3>1, <3>2
    <3>4. ctx'[d].live = "live"
      BY <1>6, <3>3 DEF MadeFor
    <3> QED BY <3>1, <3>3, <3>4
  <2>4. \A f \in Files(x) : NewOnes(f, k) /\ f \in Allocated(line) /\ f \in Fils
    <3>1. Files(x) \subseteq Fils
      BY DEF CtxType, Files
    <3> QED BY <2>1, <3>1 DEF MadeFor
  <2>5. x = ctx'[c]
    BY <2>1
  <2> HIDE DEF Made
  <2> QED BY <2>2, <2>3, <2>4, <2>5
<1>9. LinePairs(k)
  <2> SUFFICES ASSUME NEW c \in Contexts, NEW d \in Contexts, Taken(k, c), Taken(k, d)
               PROVE  /\ ctx'[c].next # 0 /\ ctx'[c].next = ctx'[d].next => c = d
                      /\ c # d => Files(ctx'[c]) \cap Files(ctx'[d]) = {}
                      /\ ctx'[c].argv = "held" /\ ctx'[c].cmd[1] > 0 /\ ctx'[d].argv = "held"
                         /\ ctx'[d].cmd = <<ctx'[c].cmd[1], ctx'[c].cmd[2] + 1>>
                         => ctx'[c].out # 0 /\ ctx'[d].in = peer'[ctx'[c].out] /\ ctx'[c].err = ctx'[c].out
    BY DEF LinePairs
  <2>1. PICK i \in 1..k, x \in CtxType : x = ctx'[c] /\ i = Index(c) /\ Made(i, x)
    <3> HIDE DEF Made
    <3> QED BY <1>6, Zenon
  <2>2. PICK j \in 1..k, y \in CtxType : y = ctx'[d] /\ j = Index(d) /\ Made(j, y)
    <3> HIDE DEF Made
    <3> QED BY <1>6, Zenon
  <2>3. c = Place(i) /\ d = Place(j)
    BY <1>2, <2>1, <2>2
  <2>4. ASSUME x.next # 0, x.next = y.next PROVE c = d
    <3>1. x.next = Place(i + 1) /\ i < k
      BY <2>1, <2>4 DEF MadeFor
    <3>2. y.next = Place(j + 1) /\ j < k
      BY <2>2, <2>4 DEF MadeFor
    <3>3. i + 1 \in 1..k /\ j + 1 \in 1..k
      BY <1>1, <3>1, <3>2
    <3>4. i + 1 = j + 1
      BY <1>2, <2>4, <3>1, <3>2, <3>3
    <3>5. i = j
      BY <1>1, <3>4
    <3> QED BY <2>3, <3>5
  <2>5. ASSUME c # d PROVE Files(x) \cap Files(y) = {}
    <3>1. i # j
      BY <2>3, <2>5
    <3>2. ASSUME NEW f \in Files(x)
          PROVE  \/ f = nfil + 2 * k + (i - 1) /\ i > 1
                 \/ f = nfil + k + i /\ i < k
                 \/ f = nfil + i /\ i = k
      BY <2>1, <3>2 DEF Files, MadeFor
    <3>3. ASSUME NEW f \in Files(y)
          PROVE  \/ f = nfil + 2 * k + (j - 1) /\ j > 1
                 \/ f = nfil + k + j /\ j < k
                 \/ f = nfil + j /\ j = k
      BY <2>2, <3>3 DEF Files, MadeFor
    <3> HIDE DEF Made
    <3> SUFFICES ASSUME NEW f, f \in Files(x), f \in Files(y) PROVE FALSE
      OBVIOUS
    <3>4. i \in Nat /\ j \in Nat /\ i <= k /\ j <= k /\ i >= 1 /\ j >= 1
      BY <1>1
    <3> QED BY <1>1, <3>1, <3>2, <3>3, <3>4
  <2>6. ASSUME x.argv = "held", x.cmd[1] > 0, y.argv = "held", y.cmd = <<x.cmd[1], x.cmd[2] + 1>>
        PROVE  x.out # 0 /\ y.in = peer'[x.out] /\ x.err = x.out
    <3>1. x.cmd = <<lines + 1, i>> /\ y.cmd = <<lines + 1, j>>
      BY <2>1, <2>2, <2>6 DEF MadeFor
    <3>2. j = i + 1
      <4>1. x.cmd[2] = i /\ y.cmd[2] = j /\ y.cmd[2] = x.cmd[2] + 1
        BY <2>6, <3>1
      <4> QED BY <4>1
    <3>3. i \in 1..(k - 1) /\ i < k /\ j > 1 /\ i \in Nat
      BY <1>1, <3>2
    <3>4. x.out = nfil + k + i /\ x.err = x.out
      BY <1>1, <2>1, <3>3 DEF MadeFor
    <3>5. y.in = nfil + 2 * k + i
      <4>1. y.in = nfil + 2 * k + (j - 1)
        BY <2>2, <3>3 DEF MadeFor
      <4> QED BY <1>1, <3>2, <3>3, <4>1
    <3>6. peer'[nfil + k + i] = nfil + 2 * k + i
      BY <1>3, <3>3
    <3>7. nfil + k + i # 0
      BY <1>1, <3>3
    <3> QED BY <3>4, <3>5, <3>6, <3>7
  <2>7. x = ctx'[c] /\ y = ctx'[d]
    BY <2>1, <2>2
  <2> HIDE DEF Made
  <2> QED BY <2>4, <2>5, <2>6, <2>7
<1>10. CtxInv'
  BY <1>7, <1>8, <1>9, LineKeeps
<1>11. ctx'[0].cmd # Comspec /\ ctx'[0].live = "live"
  BY <1>1, <1>8 DEF LineContexts, Taken
<1> QED BY <1>10, <1>11

(* A line that is refused: its chain is removed, context 0 is cleaned.      *)
LEMMA RefusedKeeps ==
    ASSUME CtxInv, CleanCtx(ctx[0]), NEW line \in Lines, NEW background, lines < MaxLines,
           NEW k \in 1..MaxCmds, k = Len(line),
           lines' = lines + 1, nctx' = nctx + k - 1, nfil' = nfil + 3 * k, task' = task,
           peer' = [f \in Fils |-> Connected(line, f)],
           ctx' \in [Contexts -> CtxType], CleanCtx(ctx'[0]), ctx'[0].live = "live",
           \A c \in Contexts : c # 0 => \/ ~Taken(k, c) /\ ctx'[c] = ctx[c]
                                        \/ Taken(k, c) /\ ctx'[c] = [Absent EXCEPT !.live = "freed"],
           fil' \in [Fils -> {"none", "unopened", "open", "freed"}],
           \A f \in Fils : fil'[f] = fil[f] \/ f \in Allocated(line)
    PROVE  CtxInv'
<1>1. /\ 0 \in Contexts /\ Taken(k, 0) /\ lines \in Nat
  BY LineBounds, Numbers DEF Taken
<1>2. /\ \A f \in Allocated(line) : NewOnes(f, k)
      /\ \A f \in Fils : ~NewOnes(f, k) => Connected(line, f) = peer[f]
      /\ \A f \in Fils : Connected(line, f) \in {0} \cup Fils
  BY StreamsAre
<1> DEFINE Gone(r) == /\ r.cmd = NoCmd /\ r.argv = "none" /\ r.stage = "INITIAL" /\ r.next = 0
                      /\ r.in = 0 /\ r.out = 0 /\ r.err = 0
<1>3. \A c \in Contexts : Taken(k, c) => Gone(ctx'[c])
  BY <1>1 DEF CleanCtx, Absent
<1>4. LineCounts(k)
  <2>1. peer' \in [Fils -> {0} \cup Fils]
    BY <1>2
  <2>2. \A f \in Fils : ~NewOnes(f, k) => fil'[f] = fil[f] /\ peer'[f] = peer[f]
    BY <1>2
  <2>3. \A c \in Contexts : ~Taken(k, c) => ctx'[c] = ctx[c]
    BY <1>1
  <2> QED BY <2>1, <2>2, <2>3 DEF LineCounts
<1>5. \A c \in Contexts : Taken(k, c) => Files(ctx'[c]) = {}
  BY <1>3 DEF Files
<1>6. NoCmd # Comspec /\ NoCmd[1] = 0
  BY DEF NoCmd, Comspec
<1>7. LineContexts(k)
  BY <1>1, <1>3, <1>5, <1>6 DEF LineContexts
<1>8. LinePairs(k)
  BY <1>1, <1>3, <1>5, <1>6 DEF LinePairs
<1> QED BY <1>4, <1>7, <1>8, LineKeeps

LEMMA EnterKeeps ==
    ASSUME ContextInv, NEW line \in Lines, NEW background, cmd_enter_helper(line, background)
    PROVE  ContextInv'
<1>1. PICK k \in 1..MaxCmds : k = Len(line)
  BY LineIs
<1>2. /\ pc = "prompt" /\ lines < MaxLines /\ lines' = lines + 1 /\ nctx' = nctx + k - 1 /\ nfil' = nfil + 3 * k
      /\ peer' = [f \in Fils |-> Connected(line, f)] /\ UNCHANGED <<cur, follow, task, faults>>
  BY <1>1 DEF cmd_enter_helper
<1>3. /\ CtxInv /\ NoDoubleFree /\ cur = 0 /\ follow = 0 /\ CleanCtx(ctx[0]) /\ 0 \in Contexts
      /\ Own(0) /\ signal \subseteq Contexts
  BY <1>2, Numbers DEF ContextInv, Control
<1>4. /\ \A i \in 1..k : Place(i) \in Contexts /\ Taken(k, Place(i))
      /\ \A c \in Contexts : c \in {Place(i) : i \in 1..k} <=> Taken(k, c)
      /\ \A c \in Contexts : Taken(k, c) => (CHOOSE i \in 1..k : Place(i) = c) \in 1..k
  BY <1>2, <1>3, Places
<1>5. /\ Taken(k, 0) /\ \A c \in Contexts : task[c] # "none" => ~Taken(k, c)
  BY <1>2, <1>3, LineBounds DEF Taken, CtxInv, Fresh
<1> DEFINE P(i) == Prepared(line, background, i)
           I(c) == CHOOSE i \in 1..k : Place(i) = c
           chain == {Place(i) : i \in 1..k}
           made == [c \in Contexts |-> IF c \in chain THEN P(I(c)) ELSE ctx[c]]
           bad == {Redirect(i) : i \in {j \in 1..k : line[j].redir = "bad"}}
           opened == [f \in Fils |-> IF f \notin Allocated(line) THEN fil[f]
                                     ELSE IF f \in bad THEN "unopened" ELSE "open"]
           owned == UNION {Files(P(i)) : i \in 1..k}
<1>6. /\ opened \in [Fils -> {"none", "unopened", "open", "freed"}]
      /\ \A f \in Fils : opened[f] = fil[f] \/ f \in Allocated(line)
      /\ \A f \in Fils : f \in Allocated(line) => opened[f] \in {"unopened", "open"}
  BY <1>3 DEF CtxInv, Types
<1>7. \A i \in 1..k : MadeFor(line, i, P(i))
  BY <1>1, <1>2, <1>3, PreparedIs
<1>8. CASE Accepted(line)
  <2>1. ctx' = made /\ fil' = opened /\ pc' = "after" /\ signal' = {}
    BY <1>1, <1>8 DEF cmd_enter_helper
  <2>2. CtxInv' /\ ctx'[0].cmd # Comspec /\ ctx'[0].live = "live"
    <3> HIDE DEF opened
    <3> QED BY <1>1, <1>2, <1>3, <1>6, <2>1, AcceptedKeeps
  <2>3. Control'
    BY <1>2, <1>3, <2>1, <2>2 DEF Control, Own
  <2>4. Handler'
    BY <2>1 DEF Handler
  <2> QED BY <1>2, <1>3, <2>2, <2>3, <2>4 DEF ContextInv, NoDoubleFree
<1>9. CASE ~Accepted(line)
  <2>1. /\ ctx' = [c \in Contexts |-> IF c = 0 THEN Cleared(made[0])
                                      ELSE IF c \in chain THEN [Absent EXCEPT !.live = "freed"]
                                      ELSE ctx[c]]
        /\ fil' = [f \in Fils |-> IF f \in owned THEN "freed" ELSE opened[f]]
        /\ UNCHANGED <<pc, signal>>
    BY <1>1, <1>9 DEF cmd_enter_helper
  <2>2. /\ fil' \in [Fils -> {"none", "unopened", "open", "freed"}]
        /\ \A f \in Fils : fil'[f] = fil[f] \/ f \in Allocated(line)
    <3>1. \A f \in owned : f \in Allocated(line)
      <4> HIDE DEF P
      <4> QED BY <1>7 DEF MadeFor
    <3> HIDE DEF owned, opened
    <3> QED BY <1>6, <2>1, <3>1
  <2> DEFINE m == made[0]
             z == Cleared(m)
  <2>3. m \in CtxType /\ m.live = "live" /\ m.boot = ctx[0].boot
    <3>1. PICK i \in 1..k : i = I(0) /\ Place(i) = 0
      BY <1>3, <1>4, <1>5
    <3>2. m = P(i)
      BY <1>3, <1>4, <1>5, <3>1
    <3> HIDE DEF P
    <3> QED BY <1>7, <3>1, <3>2 DEF MadeFor
  <2>4. ctx'[0] = z
    BY <1>3, <2>1
  <2> HIDE DEF m
  <2>5. z \in CtxType /\ z.live = "live" /\ z.boot = ctx[0].boot /\ CleanCtx(z)
    BY <2>3, ClearedIs DEF CtxType
  <2> HIDE DEF z
  <2>6. \A c \in Contexts : c # 0 => \/ ~Taken(k, c) /\ ctx'[c] = ctx[c]
                                     \/ Taken(k, c) /\ ctx'[c] = [Absent EXCEPT !.live = "freed"]
    BY <1>4, <2>1
  <2>7. ctx' \in [Contexts -> CtxType]
    <3>1. [Absent EXCEPT !.live = "freed"] \in CtxType
      BY Numbers DEF Absent, CtxType, NoCmd
    <3>2. \A c \in Contexts : ctx'[c] \in CtxType
      BY <1>3, <2>4, <2>5, <2>6, <3>1 DEF CtxInv, Types
    <3> QED BY <2>1, <3>2
  <2>8. CtxInv'
    BY <1>1, <1>2, <1>3, <2>2, <2>4, <2>5, <2>6, <2>7, RefusedKeeps
  <2>9. Control'
    BY <1>2, <1>3, <2>1, <2>4, <2>5 DEF Control, Own
  <2>10. Handler'
    <3> SUFFICES ASSUME NEW c \in signal
                 PROVE  /\ ctx'[c].boot = TRUE
                        /\ \/ task[c] \in {"main", "gone"}
                           \/ task[c] = "none" /\ c = 0
      BY <1>2, <1>3, <2>1 DEF Handler
    <3>1. /\ ctx[c].boot = TRUE /\ c \in Contexts
          /\ \/ task[c] \in {"main", "gone"}
             \/ task[c] = "none" /\ c = 0
      BY <1>3 DEF ContextInv, Handler
    <3>2. CASE c = 0
      BY <2>4, <2>5, <3>1, <3>2
    <3>3. CASE c # 0
      <4>1. ~Taken(k, c)
        BY <1>5, <3>1, <3>3
      <4> QED BY <2>6, <3>1, <3>3, <4>1
    <3> QED BY <3>2, <3>3
  <2> QED BY <1>2, <1>3, <2>8, <2>9, <2>10 DEF ContextInv, NoDoubleFree
<1> QED BY <1>8, <1>9

-----------------------------------------------------------------------------
LEMMA InitContexts == Init => ContextInv
<1> SUFFICES ASSUME Init PROVE ContextInv
  OBVIOUS
<1>1. /\ ctx = [c \in Contexts |-> IF c = 0 THEN [Absent EXCEPT !.live = "live"] ELSE Absent]
      /\ fil = [f \in Fils |-> "none"] /\ peer = [f \in Fils |-> 0]
      /\ nctx = 0 /\ nfil = 0 /\ lines = 0
      /\ pc = "top" /\ cur = 0 /\ follow = 0
      /\ task = [c \in Contexts |-> "none"]
      /\ signal = {} /\ faults = {}
  BY DEF Init
<1>2. /\ 0 \in Contexts /\ Contexts \subseteq Nat
      /\ \A c \in Contexts : /\ ctx[c] \in CtxType /\ CleanCtx(ctx[c]) /\ task[c] = "none"
                             /\ ctx[c].live = (IF c = 0 THEN "live" ELSE "none")
  BY <1>1, Numbers DEF CtxType, CleanCtx, Absent, NoCmd
<1>3. \A c \in Contexts : Files(ctx[c]) = {} /\ ctx[c].cmd[1] = 0 /\ ctx[c].cmd # Comspec /\ ctx[c].next = 0
                          /\ ctx[c].argv = "none" /\ ctx[c].stage = "INITIAL"
  BY <1>2 DEF CleanCtx, Files, NoCmd, Comspec
<1>4. lines \in 0..MaxLines
  <2>1. MaxLines \in Nat
    BY ShellAssumption
  <2> QED BY <1>1, <2>1
<1>5. Types
  <2>1. ctx \in [Contexts -> CtxType]
    BY <1>1, <1>2
  <2> QED BY <1>1, <1>2, <1>4, <2>1 DEF Types
<1>6. Fresh
  <2>1. \A c \in Contexts : c > nctx => ctx[c].live = "none" /\ task[c] = "none"
    BY <1>1, <1>2
  <2>2. \A f \in Fils : f > nfil => fil[f] = "none"
    BY <1>1
  <2>3. \A c \in Contexts : (\A f \in Files(ctx[c]) : f <= nfil) /\ ctx[c].cmd[1] <= lines
    BY <1>1, <1>3
  <2>4. task[0] = "none" /\ ctx[0].live = "live"
    BY <1>2
  <2> QED BY <2>1, <2>2, <2>3, <2>4 DEF Fresh
<1>7. Bounds
  <2>1. Waiting = {}
    BY <1>3 DEF Waiting
  <2>2. 2 * MaxCmds \in Nat /\ 3 * MaxCmds \in Nat
    <3>1. MaxCmds \in Nat /\ 2 \in Nat /\ 3 \in Nat
      BY ShellAssumption
    <3> QED BY <3>1, Products
  <2>3. (2 * MaxCmds) * 0 = 0 /\ (3 * MaxCmds) * 0 = 0
    BY <2>2
  <2> QED BY <1>1, <2>1, <2>3, FS_EmptySet DEF Bounds
<1>8. Arguments /\ Links /\ Detached /\ Owned /\ Joined
  BY <1>2, <1>3 DEF Arguments, Links, Detached, Owned, Joined, Own, Loaded
<1>9. Control
  BY <1>1, <1>2, <1>3 DEF Control, Own
<1>10. Handler /\ NoDoubleFree
  BY <1>1 DEF Handler, NoDoubleFree
<1> QED BY <1>5, <1>6, <1>7, <1>8, <1>9, <1>10 DEF ContextInv, CtxInv

LEMMA NextKeeps == ContextInv /\ [Next]_vars => ContextInv'
<1> SUFFICES ASSUME ContextInv, [Next]_vars PROVE ContextInv'
  OBVIOUS
<1>1. CASE UNCHANGED vars
  <2>1. UNCHANGED <<ctx, fil, peer, nctx, nfil, lines, pc, cur, follow, task, signal, faults>>
    BY <1>1 DEF vars
  <2>2. CtxInv'
    BY <2>1, SameKeeps DEF ContextInv
  <2>3. Control'
    BY <2>1 DEF ContextInv, Control, Own, Loaded, CleanCtx
  <2>4. Handler' /\ NoDoubleFree'
    BY <2>1 DEF ContextInv, Handler, NoDoubleFree
  <2> QED BY <2>2, <2>3, <2>4 DEF ContextInv
<1>2. CASE Load
  BY <1>2, LoadKeeps
<1>3. CASE LoadFails
  BY <1>3, LoadFailsKeeps
<1>4. CASE Detach
  BY <1>4, DetachKeeps
<1>5. CASE Start
  BY <1>5, StartKeeps
<1>6. CASE Refuse
  BY <1>6, RefuseKeeps
<1>7. CASE End
  BY <1>7, EndKeeps
<1>8. CASE Finish
  BY <1>8, FinishKeeps
<1>9. CASE \E line \in Lines, background \in BOOLEAN : cmd_enter_helper(line, background)
  <2>1. PICK line \in Lines, background \in BOOLEAN : cmd_enter_helper(line, background)
    BY <1>9
  <2> QED BY <2>1, EnterKeeps
<1>10. CASE \E c \in Contexts, sig \in Signals : kill(c, sig)
  <2>1. PICK c \in Contexts, sig \in Signals : kill(c, sig)
    BY <1>10
  <2> QED BY <2>1, KillKeeps
<1>11. CASE \E c \in Contexts : Task(c)
  <2>1. PICK c \in Contexts : Task(c)
    BY <1>11
  <2> QED BY <2>1, TaskMoves, RemoveStreamsKeeps, RemoveContextKeeps DEF Task
<1> QED BY <1>1, <1>2, <1>3, <1>4, <1>5, <1>6, <1>7, <1>8, <1>9, <1>10, <1>11 DEF Next, Shell

(* In every reachable state the contexts, their chains, their streams and   *)
(* the place of vCmdTask agree.                                             *)
THEOREM ContextInvariant == Spec => []ContextInv
<1> QED BY InitContexts, NextKeeps, PTL DEF Spec

(* cleanup_ctx, clone_ctx and remove_ctx: each FIL has one owner at a time, *)
(* whatever the interleaving of vCmdTask, the detached tasks and kill.      *)
THEOREM FilsOwnedOnce == Spec => []ShellInv
<1>1. ContextInv => ShellInv
  <2> SUFFICES ASSUME ContextInv PROVE ShellInv
    OBVIOUS
  <2>1. ShellTypeOK
    BY DEF ContextInv, CtxInv, Types, Control, CtxType, ShellTypeOK
  <2>2. OwnedOnce
    <3> SUFFICES ASSUME NEW f \in Fils, NEW c \in Owners(f), NEW d \in Owners(f)
                 PROVE  c = d /\ (fil[f] \in {"unopened", "open"} \/ task[c] = "closed")
      BY DEF OwnedOnce
    <3>1. c \in Contexts /\ d \in Contexts /\ ctx[c].live = "live" /\ ctx[d].live = "live"
          /\ f \in Files(ctx[c]) /\ f \in Files(ctx[d])
      BY DEF Owners
    <3> QED BY <3>1 DEF ContextInv, CtxInv, Owned
  <2> QED BY <2>1, <2>2 DEF ShellInv
<1> QED BY <1>1, ContextInvariant, PTL

(* vPortFree is never given what is free already, but for a kill -9 that    *)
(* reaches a task in its own remove_ctx.                                    *)
THEOREM NothingFreedTwice == Spec => []NoDoubleFree
<1>1. ContextInv => NoDoubleFree
  BY DEF ContextInv
<1> QED BY <1>1, ContextInvariant, PTL

(* The interpreter prompts in a context that owns nothing, so that what     *)
(* cmd_enter_helper writes over it is not lost.                             *)
THEOREM PromptIsClean == Spec => []PromptClean
<1>1. ContextInv => PromptClean
  <2> SUFFICES ASSUME ContextInv, pc = "prompt"
               PROVE  Files(ctx[0]) = {} /\ ctx[0].next = 0 /\ ctx[0].argv = "none"
    BY DEF PromptClean
  <2>1. CleanCtx(ctx[0])
    BY DEF ContextInv, Control
  <2> QED BY <2>1 DEF CleanCtx, Files
<1> QED BY <1>1, ContextInvariant, PTL

(* Each command of a pipeline reads what the one before it writes, wherever *)
(* clone_ctx has moved their contexts.                                      *)
THEOREM PipelinesJoined == Spec => []Joined
<1>1. ContextInv => Joined
  BY DEF ContextInv, CtxInv
<1> QED BY <1>1, ContextInvariant, PTL

(* Ctrl+C never calls the handler of a program that has been unloaded.      *)
THEOREM HandlerIsLoaded == Spec => []HandlerLoaded
<1>1. ContextInv => HandlerLoaded
  BY DEF ContextInv, Handler, HandlerLoaded
<1> QED BY <1>1, ContextInvariant, PTL
=============================================================================
