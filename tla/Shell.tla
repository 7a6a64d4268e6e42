------------------------------- MODULE Shell -------------------------------
(***************************************************************************)
(* Command contexts and the programs run from them: the command line       *)
(* (cmd_enter_helper), the loop of vCmdTask, exec with its foreground and   *)
(* detached programs, the clean-up of a context, kill and Ctrl+C.          *)
(*                                                                         *)
(* A context owns the FILs it names.  A pipeline is a chain of contexts    *)
(* that starts at the start-up context 0; exec moves each detached         *)
(* context to a clone that a task of its own runs and removes.             *)
(***************************************************************************)
EXTENDS Naturals, Sequences, FiniteSets

CONSTANTS
    MaxLines,   \* bound on the command lines entered
    MaxCmds,    \* bound on the commands of one line
    Signals     \* what the kill command may be asked: "kill", "kill -9"

ASSUME ShellAssumption ==
    /\ MaxLines \in Nat /\ MaxCmds \in Nat \ {0}
    /\ Signals \subseteq {"kill", "kill -9"}

(* The heap hands out fresh identities; a line takes MaxCmds - 1 contexts   *)
(* for its chain and a clone for each command, and three FILs a command.    *)
Contexts == 0..(2 * MaxLines * MaxCmds)
Fils == 1..(3 * MaxLines * MaxCmds)

VARIABLES
    ctx,        \* cmd_ctx_t of each identity
    fil,        \* the FILs: "none", "unopened", "open" or "freed"
    peer,       \* FIL -> the other end of its pipe, or 0
    nctx, nfil, \* identities used
    lines,      \* command lines entered
    pc,         \* vCmdTask: "top", "exec", "main", "prompt" or "after"
    cur, follow,\* exec's ctx and pipe_ctx
    task,       \* the detached task of a context
    signal,     \* bootb_sync_signal: the context whose handler it is, if any
    faults      \* rules of the heap that have been broken

vars == <<ctx, fil, peer, nctx, nfil, lines, pc, cur, follow, task, signal, faults>>

NoCmd == <<0, 0>>
Comspec == <<0, 1>>
Absent == [live |-> "none", cmd |-> NoCmd, argv |-> "none", in |-> 0, out |-> 0,
           err |-> 0, next |-> 0, boot |-> FALSE, stage |-> "INITIAL",
           detached |-> FALSE]

Files(r) == {r.in, r.out, r.err} \ {0}

(* What cleanup_ctx leaves of a context. *)
ClearedNext(r) == [live |-> r.live, cmd |-> NoCmd, argv |-> "none", in |-> 0, out |-> 0, err |-> 0,
                   next |-> r.next, boot |-> r.boot, stage |-> "INITIAL", detached |-> FALSE]
Cleared(r) == [live |-> r.live, cmd |-> NoCmd, argv |-> "none", in |-> 0, out |-> 0, err |-> 0,
               next |-> 0, boot |-> r.boot, stage |-> "INITIAL", detached |-> FALSE]

(* f_close and vPortFree of each FIL of F, and vPortFree of argv. *)
Release(F, argv) ==
    /\ fil' = [f \in Fils |-> IF f \in F THEN "freed" ELSE fil[f]]
    /\ faults' = IF argv = "freed" \/ \E f \in F : fil[f] \in {"none", "freed"}
                 THEN faults \cup {"double free"} ELSE faults

Init ==
    /\ ctx = [c \in Contexts |-> IF c = 0 THEN [Absent EXCEPT !.live = "live"] ELSE Absent]
    /\ fil = [f \in Fils |-> "none"] /\ peer = [f \in Fils |-> 0]
    /\ nctx = 0 /\ nfil = 0 /\ lines = 0
    /\ pc = "top" /\ cur = 0 /\ follow = 0
    /\ task = [c \in Contexts |-> "none"]
    /\ signal = {}
    /\ faults = {}

-----------------------------------------------------------------------------
(* The command line.  A command is [words, redir]: whether it has words and *)
(* whether its `>` is absent, opens its file or fails to.                   *)
Commands == [words : BOOLEAN, redir : {"none", "ok", "bad"}]
Lines == UNION {[1..k -> Commands] : k \in 1..MaxCmds}

(* prepare_ctx: the redirection first, then the words. *)
prepare_ctx(cmd) == cmd.redir # "bad" /\ cmd.words

(* The identities cmd_enter_helper takes for command i of a line. *)
Place(i) == IF i = 1 THEN 0 ELSE nctx + i - 1
Redirect(i) == nfil + i
PipeTo(line, i) == nfil + Len(line) + i
PipeFrom(line, i) == nfil + 2 * Len(line) + i

(* The context of command i: a pipe's FIL replaces a redirection's. *)
Prepared(line, background, i) ==
    LET k == Len(line)
        ok == prepare_ctx(line[i])
    IN  [live |-> "live",
         cmd |-> IF ok THEN <<lines + 1, i>> ELSE NoCmd,
         argv |-> IF ok THEN "held" ELSE "none",
         in |-> IF i > 1 THEN PipeFrom(line, i - 1) ELSE 0,
         out |-> IF i < k THEN PipeTo(line, i)
                 ELSE IF line[i].redir # "none" THEN Redirect(i) ELSE 0,
         err |-> IF i < k THEN PipeTo(line, i) ELSE 0,
         next |-> IF i < k THEN Place(i + 1) ELSE 0,
         boot |-> ctx[Place(i)].boot,
         stage |-> IF ok THEN "PREPARED" ELSE ctx[0].stage,
         detached |-> i < k \/ background]

(* The FILs a line allocates, and the pipes among them. *)
Allocated(line) ==
    {Redirect(i) : i \in {j \in 1..Len(line) : line[j].redir # "none"}}
    \cup {PipeTo(line, i) : i \in 1..(Len(line) - 1)}
    \cup {PipeFrom(line, i) : i \in 1..(Len(line) - 1)}
Connected(line, f) ==
    LET k == Len(line) IN
    IF \E i \in 1..(k - 1) : f = PipeTo(line, i) THEN f + k
    ELSE IF \E i \in 1..(k - 1) : f = PipeFrom(line, i) THEN f - k
    ELSE peer[f]

(* Whether the line is run: only its last prepare_ctx counts. *)
Accepted(line) == prepare_ctx(line[Len(line)])

(* cmd_enter_helper in the interpreter's main, which runs in context 0.     *)
(* When the line is refused the chain is removed and context 0 cleaned.     *)
cmd_enter_helper(line, background) ==
    LET k == Len(line)
        chain == {Place(i) : i \in 1..k}
        owned == UNION {Files(Prepared(line, background, i)) : i \in 1..k}
        made == [c \in Contexts |->
                   IF c \in chain
                   THEN Prepared(line, background, CHOOSE i \in 1..k : Place(i) = c)
                   ELSE ctx[c]]
        opened == [f \in Fils |->
                     IF f \notin Allocated(line) THEN fil[f]
                     ELSE IF f \in {Redirect(i) : i \in {j \in 1..k : line[j].redir = "bad"}}
                     THEN "unopened" ELSE "open"]
    IN
    /\ pc = "prompt" /\ lines < MaxLines
    /\ lines' = lines + 1
    /\ nctx' = nctx + k - 1 /\ nfil' = nfil + 3 * k
    /\ peer' = [f \in Fils |-> Connected(line, f)]
    /\ IF Accepted(line)
       THEN /\ ctx' = made
            /\ fil' = opened
            /\ pc' = "after" /\ signal' = {}
       ELSE /\ ctx' = [c \in Contexts |->
                         IF c = 0 THEN Cleared(made[0])
                         ELSE IF c \in chain THEN [Absent EXCEPT !.live = "freed"]
                         ELSE ctx[c]]
            /\ fil' = [f \in Fils |-> IF f \in owned THEN "freed" ELSE opened[f]]
            /\ UNCHANGED <<pc, signal>>
    /\ UNCHANGED <<cur, follow, task, faults>>

-----------------------------------------------------------------------------
(* vCmdTask and exec. *)

(* The chain that starts at context 0. *)
FollowsNext(S) == \A c \in S : ctx[c].next \in S
Chain == {c \in Contexts : \A S \in SUBSET Contexts : 0 \in S /\ FollowsNext(S) => c \in S}

(* Without arguments context 0 gets those of COMSPEC. *)
WithComspec == IF ctx[0].argv = "none"
               THEN [ctx EXCEPT ![0].argv = "held", ![0].cmd = Comspec] ELSE ctx

(* exists, is_new_app and load_app of the whole chain succeed. *)
Load ==
    /\ pc = "top"
    /\ \A c \in Chain : WithComspec[c].argv = "held"
    /\ ctx' = [c \in Contexts |->
                 IF c \in Chain THEN [WithComspec[c] EXCEPT !.boot = TRUE, !.stage = "LOAD"]
                 ELSE ctx[c]]
    /\ pc' = "exec" /\ cur' = 0
    /\ UNCHANGED <<fil, peer, nctx, nfil, lines, follow, task, signal, faults>>

Invalidated(r) == [r EXCEPT !.stage = "INVALIDATED"]

(* One of them fails for a command of the chain; load_app may have loaded   *)
(* those before it.  vCmdTask cleans context 0 only.                        *)
LoadFails ==
    /\ pc = "top"
    /\ WithComspec[0].cmd # Comspec
    /\ \E loaded \in BOOLEAN :
         ctx' = [ctx EXCEPT ![0] = [Cleared(Invalidated(ctx[0])) EXCEPT !.boot = loaded]]
    /\ Release(Files(ctx[0]), ctx[0].argv)
    /\ UNCHANGED <<peer, nctx, nfil, lines, pc, cur, follow, task, signal>>

(* What clone_ctx leaves of its source: the streams, the program and the    *)
(* links change owner.                                                      *)
LeftBehindErr(r) == [r EXCEPT !.in = 0, !.out = 0, !.next = 0, !.boot = FALSE]
LeftBehind(r) == [r EXCEPT !.in = 0, !.out = 0, !.err = 0, !.next = 0, !.boot = FALSE]

(* ... and what it gives the clone. *)
MovedInput(r) == [r EXCEPT !.out = 0, !.err = 0]
Moved(r) == r

(* The next context of the chain, read before the program runs. *)
After(c) == cur' = c /\ pc' = IF c = 0 THEN "top" ELSE "exec"

(* exec of a detached context: clone_ctx, xTaskCreate, cleanup_ctx.  If     *)
(* there is no memory for the task, nobody looks: the clone stays.          *)
Detach ==
    /\ pc = "exec" /\ ctx[cur].detached
    /\ nctx' = nctx + 1
    /\ \E t \in {"created", "gone"} : task' = [task EXCEPT ![nctx'] = t]
    /\ ctx' = [ctx EXCEPT ![nctx'] = Moved(ctx[cur]), ![cur] = Cleared(LeftBehind(ctx[cur]))]
    /\ Release(Files(LeftBehind(ctx[cur])), ctx[cur].argv)
    /\ After(ctx[cur].next)
    /\ UNCHANGED <<peer, nfil, lines, follow, signal>>

(* exec_sync of a context that is not detached, up to the call of main.     *)
(* The interpreter begins with cleanup_ctx of its context.                  *)
Start ==
    /\ pc = "exec" /\ ~ctx[cur].detached
    /\ follow' = ctx[cur].next
    /\ signal' \in {{cur}, {}}
    /\ IF ctx[cur].cmd = Comspec
       THEN /\ pc' = "prompt"
            /\ ctx' = [ctx EXCEPT ![cur] = Cleared(ctx[cur])]
            /\ Release(Files(ctx[cur]), ctx[cur].argv)
       ELSE pc' = "main" /\ UNCHANGED <<ctx, fil, faults>>
    /\ UNCHANGED <<peer, nctx, nfil, lines, cur, task>>

(* exec_sync refuses a program made for another version of the API. *)
Refuse ==
    /\ pc = "exec" /\ ~ctx[cur].detached /\ ctx[cur].cmd # Comspec
    /\ follow' = ctx[cur].next
    /\ pc' = "after"
    /\ UNCHANGED <<ctx, fil, peer, nctx, nfil, lines, cur, task, signal, faults>>

(* The program's main returns. *)
End ==
    /\ pc = "main"
    /\ pc' = "after" /\ signal' = {}
    /\ UNCHANGED <<ctx, fil, peer, nctx, nfil, lines, cur, follow, task, faults>>

(* exec after exec_sync: a context the interpreter prepared is kept for the *)
(* next round of vCmdTask, any other is cleaned.                            *)
KeepsLoaded(r) == r.stage # "INITIAL"
KeepsPrepared(r) == r.stage = "PREPARED"
Finish ==
    /\ pc = "after"
    /\ IF KeepsPrepared(ctx[cur])
       THEN ctx' = [ctx EXCEPT ![cur].boot = FALSE] /\ UNCHANGED <<fil, faults>>
       ELSE /\ ctx' = [ctx EXCEPT ![cur] = [Cleared(ctx[cur]) EXCEPT !.boot = FALSE]]
            /\ Release(Files(ctx[cur]), ctx[cur].argv)
    /\ After(follow)
    /\ UNCHANGED <<peer, nctx, nfil, lines, follow, task, signal>>

(* kill, run in the foreground, of the task of context c; cleanup_ctx after *)
(* vTaskDelete with -9.  The task still names its context once remove_ctx   *)
(* has freed it, so a kill -9 that comes then frees what is freed already:   *)
(* a fault of its own, since any line with a detached program can meet it.  *)
Tasks == {c \in Contexts : task[c] \in {"created", "main", "ended", "closed", "removed"}}
kill(c, sig) ==
    /\ pc = "main" /\ c \in Tasks
    /\ IF sig = "kill"
       THEN /\ ctx' = IF ctx[c].live = "live" THEN [ctx EXCEPT ![c].stage = "SIGTERM"] ELSE ctx
            /\ faults' = IF ctx[c].live = "live" THEN faults
                         ELSE faults \cup {"freed context written"}
            /\ UNCHANGED <<fil, task>>
       ELSE /\ task' = [task EXCEPT ![c] = "gone"]
            /\ ctx' = [ctx EXCEPT ![c] = Cleared(ctx[c])]
            /\ IF task[c] \in {"closed", "removed"}
               THEN faults' = faults \cup {"killed while releasing"} /\ UNCHANGED fil
               ELSE Release(Files(ctx[c]), ctx[c].argv)
    /\ UNCHANGED <<peer, nctx, nfil, lines, pc, cur, follow, signal>>

Shell == Load \/ LoadFails \/ Detach \/ Start \/ Refuse \/ End \/ Finish

-----------------------------------------------------------------------------
(* vAppDetachedTask of context c: exec_sync, then remove_ctx piece by piece *)
(* (it may be preempted between its calls), then vTaskDelete.               *)

TaskStart(c) ==
    /\ task[c] = "created"
    /\ task' = [task EXCEPT ![c] = "main"]
    /\ signal' \in {{c}, {}}
    /\ UNCHANGED <<ctx, fil, peer, nctx, nfil, lines, pc, cur, follow, faults>>

TaskRefused(c) ==
    /\ task[c] = "created"
    /\ task' = [task EXCEPT ![c] = "ended"]
    /\ UNCHANGED <<ctx, fil, peer, nctx, nfil, lines, pc, cur, follow, signal, faults>>

TaskEndKeeps(c) ==
    /\ task[c] = "main"
    /\ task' = [task EXCEPT ![c] = "ended"]
    /\ UNCHANGED <<ctx, fil, peer, nctx, nfil, lines, pc, cur, follow, signal, faults>>
TaskEnd(c) ==
    /\ task[c] = "main"
    /\ task' = [task EXCEPT ![c] = "ended"]
    /\ signal' = {}
    /\ UNCHANGED <<ctx, fil, peer, nctx, nfil, lines, pc, cur, follow, faults>>

(* remove_ctx frees argv and closes the streams, without forgetting them. *)
RemoveStreams(c) ==
    /\ task[c] = "ended"
    /\ task' = [task EXCEPT ![c] = "closed"]
    /\ Release(Files(ctx[c]), ctx[c].argv)
    /\ ctx' = [ctx EXCEPT ![c].argv = "freed"]
    /\ UNCHANGED <<peer, nctx, nfil, lines, pc, cur, follow, signal>>

(* ... and frees the program and the context. *)
RemoveContext(c) ==
    /\ task[c] = "closed"
    /\ task' = [task EXCEPT ![c] = "removed"]
    /\ ctx' = [ctx EXCEPT ![c].live = "freed", ![c].boot = FALSE, ![c].next = 0]
    /\ UNCHANGED <<fil, peer, nctx, nfil, lines, pc, cur, follow, signal, faults>>

TaskDelete(c) ==
    /\ task[c] = "removed"
    /\ task' = [task EXCEPT ![c] = "gone"]
    /\ UNCHANGED <<ctx, fil, peer, nctx, nfil, lines, pc, cur, follow, signal, faults>>

Task(c) == TaskStart(c) \/ TaskRefused(c) \/ TaskEnd(c) \/ RemoveStreams(c)
           \/ RemoveContext(c) \/ TaskDelete(c)

Next ==
    \/ Shell
    \/ \E line \in Lines, background \in BOOLEAN : cmd_enter_helper(line, background)
    \/ \E c \in Contexts, sig \in Signals : kill(c, sig)
    \/ \E c \in Contexts : Task(c)

(* Tasks have the same priority and time slices, and programs end. *)
Spec == Init /\ [][Next]_vars /\ WF_vars(Shell) /\ \A c \in Contexts : WF_vars(Task(c))

-----------------------------------------------------------------------------
(* Types of the shell's state. *)
ShellTypeOK ==
    /\ ctx \in [Contexts -> [live : {"none", "live", "freed"}, cmd : Nat \X Nat,
                             argv : {"none", "held", "freed"}, in : {0} \cup Fils,
                             out : {0} \cup Fils, err : {0} \cup Fils, next : Contexts,
                             boot : BOOLEAN,
                             stage : {"INITIAL", "PREPARED", "LOAD", "SIGTERM"},
                             detached : BOOLEAN]]
    /\ fil \in [Fils -> {"none", "unopened", "open", "freed"}] /\ peer \in [Fils -> {0} \cup Fils]
    /\ nctx \in Contexts /\ nfil \in Nat /\ lines \in 0..MaxLines
    /\ pc \in {"top", "exec", "main", "prompt", "after"}
    /\ cur \in Contexts /\ follow \in Contexts
    /\ task \in [Contexts -> {"none", "created", "main", "ended", "closed", "removed", "gone"}]
    /\ signal \subseteq Contexts

(* clone_ctx, cleanup_ctx and remove_ctx hand each FIL from owner to owner: *)
(* no two contexts name it, and one that a context names is allocated.      *)
Owners(f) == {c \in Contexts : ctx[c].live = "live" /\ f \in Files(ctx[c])}
OwnedOnce ==
    \A f \in Fils : \A c, d \in Owners(f) :
        c = d /\ (fil[f] \in {"unopened", "open"} \/ task[c] = "closed")
ShellInv == ShellTypeOK /\ OwnedOnce

(* configASSERT( heapBLOCK_IS_ALLOCATED( pxLink ) != 0 ) of vPortFree, but  *)
(* for a kill -9 that reaches a task in its own remove_ctx.                 *)
NoDoubleFree == "double free" \notin faults

(* The interpreter prompts in a context that owns nothing, so what          *)
(* prepare_ctx overwrites is not lost, and no old chain hangs on it.        *)
PromptClean ==
    pc = "prompt" => Files(ctx[0]) = {} /\ ctx[0].next = 0 /\ ctx[0].argv = "none"

(* Each command of a pipeline reads what the one before it writes, wherever *)
(* clone_ctx has moved them and whichever of them already runs.             *)
Joined ==
    \A c, d \in Contexts :
        /\ ctx[c].live = "live" /\ ctx[c].argv = "held" /\ ctx[c].cmd[1] > 0
        /\ ctx[d].live = "live" /\ ctx[d].argv = "held"
        /\ ctx[d].cmd = <<ctx[c].cmd[1], ctx[c].cmd[2] + 1>>
        => ctx[c].out # 0 /\ ctx[d].in = peer[ctx[c].out] /\ ctx[c].err = ctx[c].out

(* Whatever is entered, found or not, the interpreter prompts again.        *)
PromptReturns == pc # "prompt" ~> pc = "prompt"

(* "each pipe should remove it by self": when the interpreter prompts, the  *)
(* contexts of pipelines that are left are those of tasks still running.    *)
PipesRemoved ==
    pc = "prompt" => \A c \in Contexts \ {0} : ctx[c].live = "live" => c \in Tasks

(* "[cmd] > [file] - output redirection to file": a redirection's file is   *)
(* the output of a program.                                                 *)
RedirectionHasWriter ==
    \A f \in Fils : fil[f] = "open" /\ peer[f] = 0
        => \E c \in Contexts : ctx[c].live = "live" /\ ctx[c].out = f

(* The Ctrl+C handler is never that of a program that has been unloaded,    *)
(* however the foreground and the detached programs that share it begin and *)
(* end, or are killed.                                                      *)
HandlerLoaded == \A c \in signal : ctx[c].boot

(* "support sygnal for current "sync_ctx" context only": Ctrl+C reaches the *)
(* program vCmdTask runs.                                                   *)
SignalIsForeground == signal \subseteq (IF pc \in {"main", "prompt"} THEN {cur} ELSE {})
=============================================================================
