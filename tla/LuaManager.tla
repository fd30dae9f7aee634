------------------------------ MODULE LuaManager ------------------------------
(***************************************************************************)
(* The Lua virtual machine, its lock, and the stopping of scripts          *)
(* (src/src/lua_manager.c, with the sleeping of src/src/lua_gpio.c).       *)
(*                                                                         *)
(* One thread, the executor (the Lua worker), runs scripts and resets the  *)
(* VM under lua_lock.  Stoppers call lua_manager_interrupt, which takes no *)
(* lock: it sets s_interrupted, reads L, arms a count hook on the VM it    *)
(* has read, and wakes the executor.  Readers call                         *)
(* lua_manager_get_memory_kb.  A VM is named by its generation, so that a  *)
(* pointer to a closed VM can be told from the current one.                *)
(*                                                                         *)
(* Scripts are abstracted to what a stop can tell apart: computing (every  *)
(* instruction lets an armed hook fire), sleeping in sys.sleep, ending and *)
(* failing by themselves, and what they do with errors (ScriptKinds).      *)
(***************************************************************************)
EXTENDS Naturals, FiniteSets

CONSTANTS
    Stoppers,     \* threads that may call lua_manager_interrupt
    Readers,      \* threads that may call lua_manager_get_memory_kb
    Urgent,       \* stoppers that run before the executor whenever they can
    Lazy,         \* stoppers that run only while the executor is blocked
    ScriptKinds,  \* subset of {"plain", "guarded", "coroutine"}
    MaxGen        \* bound on the VMs created

ASSUME ThreadAssumption == Urgent \subseteq Stoppers /\ Lazy \subseteq Stoppers
ASSUME KindAssumption == ScriptKinds \subseteq {"plain", "guarded", "coroutine"}
ASSUME MaxGenAssumption == MaxGen \in Nat \ {0}

NoVM == 0
Executor == "executor"
Free == "free"

ASSUME ReaderAssumption == Executor \notin Readers /\ Free \notin Readers

VARIABLES
    vm,      \* the global L: the generation it points to, or NoVM
    live,    \* the generations that are neither being closed nor freed
    gen,     \* how many VMs were created
    hook,    \* the stop hook is armed on the current VM
    flag,    \* s_interrupted
    owner,   \* holder of lua_lock
    mpc,     \* where the executor is
    op,      \* what the executor was called for: "eval" or "reset"
    kind,    \* how the script treats errors
    ret,     \* what the executor's call returns
    status,  \* telemetry status: "INTERRUPTED" or anything else
    spc,     \* where each stopper is in lua_manager_interrupt
    ptr,     \* the L that each stopper has read
    reached, \* (history) a stop overlapped this job after it cleared the flag
    cut      \* (history) a stop ended the script

vm_state == <<vm, live, gen>>
vars == <<vm, live, gen, hook, flag, owner, mpc, op, kind, ret, status, spc, ptr,
          reached, cut>>

Touching == {"clearHook", "run", "calling", "asleep", "roused", "unhook", "report"}
Closing == {"close", "closing", "new"}

TypeOK ==
    /\ vm \in 0 .. MaxGen /\ gen \in 0 .. MaxGen /\ live \subseteq 1 .. MaxGen
    /\ hook \in BOOLEAN /\ flag \in {0, 1}
    /\ owner \in {Free, Executor} \cup Readers
    /\ mpc \in {"idle", "enter", "look", "clearFlag", "leave", "done"}
               \cup Touching \cup Closing
    /\ op \in {"eval", "reset"}
    /\ kind \in {"plain", "guarded", "coroutine"}
    /\ ret \in {"0", "-ENOMEM", "-EFAULT", "-EINTR", "-ENODEV"}
    /\ status \in {"INTERRUPTED", "other"}
    /\ spc \in [Stoppers -> {"idle", "read", "arm", "wake"}]
    /\ ptr \in [Stoppers -> 0 .. MaxGen]
    /\ reached \in BOOLEAN /\ cut \in BOOLEAN

\* After lua_manager_init, which may have found no memory for the VM.
Init ==
    /\ \/ vm = 1 /\ gen = 1 /\ live = {1}
       \/ vm = NoVM /\ gen = 0 /\ live = {}
    /\ hook = FALSE /\ flag = 0 /\ owner = Free
    /\ mpc = "idle" /\ op = "eval" /\ kind \in ScriptKinds /\ ret = "0"
    /\ status = "other"
    /\ spc = [s \in Stoppers |-> "idle"]
    /\ ptr = [s \in Stoppers |-> NoVM]
    /\ reached = FALSE /\ cut = FALSE

-----------------------------------------------------------------------------
(* Scheduling.  With Urgent = Lazy = {} every interleaving is possible. *)

UrgentIdle == \A s \in Urgent : spc[s] = "idle"
StopperMay(s) == s \in Lazy => UrgentIdle /\ mpc \in {"idle", "asleep"}

\* One step of the executor from one place in the code to another.
At(from, to) == UrgentIdle /\ mpc = from /\ mpc' = to

-----------------------------------------------------------------------------
(* lua_manager_eval, lua_manager_eval_file, lua_manager_reset. *)

Call(o) ==
    /\ At("idle", "enter")
    /\ op' = o /\ ret' = "0" /\ cut' = FALSE /\ reached' = FALSE
    /\ kind' \in ScriptKinds
    /\ UNCHANGED <<vm_state, hook, flag, owner, status, spc, ptr>>

Lock ==
    /\ At("enter", "look")
    /\ owner = Free /\ owner' = Executor
    /\ UNCHANGED <<vm_state, hook, flag, op, kind, ret, status, spc, ptr, reached, cut>>

\* if (!L) return -ENODEV; a reset goes on without a VM.
Look ==
    /\ \/ /\ At("look", "leave")
          /\ op = "eval" /\ vm = NoVM
          /\ ret' = "-ENODEV"
       \/ /\ At("look", "clearFlag")
          /\ op = "eval" => vm # NoVM
          /\ UNCHANGED ret
    /\ UNCHANGED <<vm_state, hook, flag, owner, op, kind, status, spc, ptr, reached, cut>>

\* (mutant of ClearFlag: the flag is left as it was)
ClearFlagForgotten ==
    /\ At("clearFlag", IF op = "eval" THEN "clearHook" ELSE "close")
    /\ reached' = \E s \in Stoppers : spc[s] # "idle"
    /\ UNCHANGED <<vm_state, flag, hook, owner, op, kind, ret, status, spc, ptr, cut>>

\* atomic_set(&s_interrupted, 0): from here on a stop is meant for this job.
ClearFlag ==
    /\ At("clearFlag", IF op = "eval" THEN "clearHook" ELSE "close")
    /\ flag' = 0
    /\ reached' = \E s \in Stoppers : spc[s] # "idle"
    /\ UNCHANGED <<vm_state, hook, owner, op, kind, ret, status, spc, ptr, cut>>

\* (mutant of ClearHook: a hook armed between two jobs stays)
ClearHookForgotten ==
    /\ At("clearHook", "run")
    /\ UNCHANGED <<vm_state, hook, flag, owner, op, kind, ret, status, spc, ptr, reached, cut>>

ClearHook ==
    /\ At("clearHook", "run")
    /\ hook' = FALSE
    /\ UNCHANGED <<vm_state, flag, owner, op, kind, ret, status, spc, ptr, reached, cut>>

\* The script ends, and so does lua_pcall.
Finish(r) ==
    /\ mpc' = "unhook"
    /\ ret' = r

\* An error raised in the script ends it, unless a guarded script catches it
\* (pcall) and carries on; in a coroutine it ends the coroutine only, and the
\* rest of the script is plain.
Raise ==
    \/ kind # "coroutine" /\ Finish("-EFAULT") /\ cut' = TRUE /\ UNCHANGED kind
    \/ kind = "guarded" /\ mpc' = "run" /\ UNCHANGED <<kind, ret, cut>>
    \/ kind = "coroutine" /\ mpc' = "run" /\ kind' = "plain" /\ UNCHANGED <<ret, cut>>

\* The hook belongs to the main thread of the VM (lua_sethook(L, ...)): a
\* coroutine that was there before the stop runs without it.
HookFires == hook /\ kind # "coroutine"

\* (mutant of StopHook: disarms, and forgets luaL_error)
StopHookNoError ==
    /\ UrgentIdle /\ mpc = "run" /\ HookFires
    /\ hook' = FALSE
    /\ UNCHANGED <<vm_state, flag, owner, mpc, op, kind, ret, status, spc, ptr, reached, cut>>

\* lua_stop_hook, before the next instruction: disarm, then raise.
StopHook ==
    /\ UrgentIdle /\ mpc = "run" /\ HookFires
    /\ hook' = FALSE
    /\ Raise
    /\ UNCHANGED <<vm_state, flag, owner, op, status, spc, ptr, reached>>

\* The script reaches its end, or fails by itself.
ScriptEnds ==
    /\ UrgentIdle /\ mpc = "run" /\ ~HookFires
    /\ \E r \in {"0", "-EFAULT"} : Finish(r)
    /\ UNCHANGED <<vm_state, hook, flag, owner, op, kind, status, spc, ptr, reached, cut>>

\* The script calls l_sys_sleep or l_sys_usleep.  From the last look at the hook
\* to the first look at the flag there is room for a stop.
Sleep ==
    /\ At("run", "calling") /\ ~HookFires
    /\ UNCHANGED <<vm_state, hook, flag, owner, op, kind, ret, status, spc, ptr, reached, cut>>

\* There is something (more) to sleep: the flag, then a chunk of at most 50 ms.
Chunk ==
    /\ UrgentIdle /\ mpc = "calling"
    /\ IF flag = 1 THEN Raise ELSE mpc' = "asleep" /\ UNCHANGED <<kind, ret, cut>>
    /\ UNCHANGED <<vm_state, hook, flag, owner, op, status, spc, ptr, reached>>

\* The chunk has passed: the flag again, then the rest of the sleep.
ChunkEnds ==
    /\ UrgentIdle /\ mpc \in {"asleep", "roused"}
    /\ IF flag = 1 THEN Raise ELSE mpc' = "calling" /\ UNCHANGED <<kind, ret, cut>>
    /\ UNCHANGED <<vm_state, hook, flag, owner, op, status, spc, ptr, reached>>

\* Nothing (more) to sleep, or a busy wait is over: back to the script.
SleepEnds ==
    /\ At("calling", "run")
    /\ UNCHANGED <<vm_state, hook, flag, owner, op, kind, ret, status, spc, ptr, reached, cut>>

\* k_wakeup cut the chunk short (rem > 0): an error whatever the flag says.
SleepCut ==
    /\ UrgentIdle /\ mpc = "roused"
    /\ Raise
    /\ UNCHANGED <<vm_state, hook, flag, owner, op, status, spc, ptr, reached>>

Unhook ==
    /\ At("unhook", IF ret = "0" THEN "leave" ELSE "report")
    /\ hook' = FALSE
    /\ UNCHANGED <<vm_state, flag, owner, op, kind, ret, status, spc, ptr, reached, cut>>

\* was_interrupted decides on the status and on what the caller is told.
Report ==
    /\ At("report", "leave")
    /\ ret' = IF flag = 1 THEN "-EINTR" ELSE "-EFAULT"
    /\ status' = IF flag = 1 THEN "INTERRUPTED" ELSE status
    /\ UNCHANGED <<vm_state, hook, flag, owner, op, kind, spc, ptr, reached, cut>>

\* lua_close begins: from here on the VM's memory is being freed, L still
\* points to it.
CloseBegins ==
    /\ At("close", IF vm = NoVM THEN "new" ELSE "closing")
    /\ live' = live \ {vm}
    /\ UNCHANGED <<vm, gen, hook, flag, owner, op, kind, ret, status, spc, ptr, reached, cut>>

\* lua_close has returned: L = NULL.
CloseEnds ==
    /\ At("closing", "new")
    /\ vm' = NoVM
    /\ UNCHANGED <<live, gen, hook, flag, owner, op, kind, ret, status, spc, ptr, reached, cut>>

\* lua_init_internal: a new VM, without a hook, or -ENOMEM.
NewVM ==
    /\ At("new", "leave")
    /\ \/ /\ gen < MaxGen
          /\ gen' = gen + 1 /\ vm' = gen + 1 /\ live' = live \cup {gen + 1}
          /\ hook' = FALSE
          /\ UNCHANGED ret
       \/ /\ ret' = "-ENOMEM"
          /\ UNCHANGED <<vm_state, hook>>
    /\ UNCHANGED <<flag, owner, op, kind, status, spc, ptr, reached, cut>>

Leave ==
    /\ At("leave", "done")
    /\ owner' = Free
    /\ UNCHANGED <<vm_state, hook, flag, op, kind, ret, status, spc, ptr, reached, cut>>

Return ==
    /\ At("done", "idle")
    /\ UNCHANGED <<vm_state, hook, flag, owner, op, kind, ret, status, spc, ptr, reached, cut>>

\* What the executor's code does next; the other steps are the script's choice.
Forced == \/ Lock \/ Look \/ ClearFlag \/ ClearHook \/ StopHook
          \/ Chunk \/ ChunkEnds \/ SleepCut \/ SleepEnds \/ Unhook \/ Report \/ CloseBegins \/ CloseEnds \/ NewVM \/ Leave
Exec == Forced \/ ScriptEnds \/ Sleep

-----------------------------------------------------------------------------
(* lua_manager_interrupt. *)

executor_state == <<vm_state, owner, op, kind, ret, status, cut>>

\* A stop counts for a job that has cleared the flag and still runs.
ReachesNow == reached' = (reached \/ mpc \in Touching)

\* (mutant of StopFlag: atomic_inc for atomic_set)
StopFlagCounts(s) ==
    /\ spc[s] = "idle" /\ StopperMay(s)
    /\ flag' = flag + 1
    /\ spc' = [spc EXCEPT ![s] = "read"]
    /\ ReachesNow
    /\ UNCHANGED <<executor_state, mpc, hook, ptr>>

StopFlag(s) ==
    /\ spc[s] = "idle" /\ StopperMay(s)
    /\ flag' = 1
    /\ spc' = [spc EXCEPT ![s] = "read"]
    /\ ReachesNow
    /\ UNCHANGED <<executor_state, mpc, hook, ptr>>

\* if (L): the pointer that lua_sethook will use.
StopRead(s) ==
    /\ spc[s] = "read" /\ StopperMay(s)
    /\ ptr' = [ptr EXCEPT ![s] = vm]
    /\ spc' = [spc EXCEPT ![s] = IF vm = NoVM THEN "wake" ELSE "arm"]
    /\ UNCHANGED <<executor_state, mpc, hook, flag, reached>>

\* lua_sethook(L, lua_stop_hook, LUA_MASKCOUNT, 1).  It writes function, count and
\* mask without a lock, and so does ClearHook; one step stands for them, because a
\* hook fires only with function and mask both set: writes of the two that mix
\* leave a hook that never fires, as arming before ClearHook does.  What it does to
\* a VM that is no longer there is not modelled (HooksOnlyLiveVM is about it).
StopArm(s) ==
    /\ spc[s] = "arm" /\ StopperMay(s)
    /\ hook' = (hook \/ ptr[s] \in live)
    /\ spc' = [spc EXCEPT ![s] = "wake"]
    /\ UNCHANGED <<executor_state, mpc, flag, ptr, reached>>

\* lua_worker_interrupt: k_wakeup ends a k_msleep of the executor, nothing else.
StopWake(s) ==
    /\ spc[s] = "wake" /\ StopperMay(s)
    /\ mpc' = IF mpc = "asleep" THEN "roused" ELSE mpc
    /\ spc' = [spc EXCEPT ![s] = "idle"]
    /\ UNCHANGED <<executor_state, hook, flag, ptr, reached>>

Stop(s) == StopFlag(s) \/ StopRead(s) \/ StopArm(s) \/ StopWake(s)
StopProceeds(s) == StopRead(s) \/ StopArm(s) \/ StopWake(s)

-----------------------------------------------------------------------------
(* lua_manager_get_memory_kb: a lock that gives up after 10 ms (then nothing *)
(* is read), lua_gc, unlock.                                                 *)

reader_unchanged == <<vm_state, hook, flag, mpc, op, kind, ret, status, spc, ptr, reached, cut>>

\* (mutant of ReadLock: the result of k_mutex_lock is ignored)
ReadLockIgnored(r) == owner' = r /\ UNCHANGED reader_unchanged

ReadLock(r) == owner = Free /\ owner' = r /\ UNCHANGED reader_unchanged
ReadDone(r) == owner = r /\ owner' = Free /\ UNCHANGED reader_unchanged

-----------------------------------------------------------------------------

Next ==
    \/ \E o \in {"eval", "reset"} : Call(o)
    \/ Exec
    \/ Return
    \/ \E s \in Stoppers : Stop(s)
    \/ \E r \in Readers : ReadLock(r) \/ ReadDone(r)

\* The executor goes on where the code does, a stop once begun is carried out,
\* and lua_gc returns.  A sleep is over some time; nothing else is assumed of
\* scripts: they may run for ever.
\* The lock is fair to the executor: k_mutex_unlock hands it to the thread that
\* waits for it.
Fairness ==
    /\ WF_vars(Forced) /\ SF_vars(Lock) /\ SF_vars(SleepEnds)
    /\ \A s \in Stoppers : WF_vars(StopProceeds(s))
    /\ \A r \in Readers : WF_vars(ReadDone(r))

Spec == Init /\ [][Next]_vars
FairSpec == Spec /\ Fairness

-----------------------------------------------------------------------------
(* Properties. *)

\* Whoever works on the VM holds lua_lock, and the VM is there: a script runs,
\* sleeps and is cleaned up on a live VM, and lua_gc of another thread never
\* meets a VM that is being run, closed or made.
VMExclusive ==
    /\ mpc \in Touching => owner = Executor /\ vm \in live
    /\ mpc \in Closing => owner = Executor
    /\ owner \in Readers /\ vm # NoVM => vm \in live

\* A script is ended by a stop only if a stop overlapped it: a stop that came and
\* went before the job cleared the flag and the hook never hurts the next job.
NoStaleStop == cut => reached

\* A caller is told -EINTR only for such a script.
InterruptedMeansStopped ==
    mpc = "done" /\ ret = "-EINTR" => reached

\* A script that lets errors pass does not outlive a hook armed on it, not even
\* an endless one, and whether it computes or sleeps.  (One that catches errors does: the hook
\* disarms itself before it raises the one error there is.)
Running == mpc \in {"run", "calling", "asleep", "roused"}
StopEndsScript == (Running /\ kind = "plain" /\ hook) ~> ~Running

\* doc/howto.md promises that a stop never corrupts the memory of the VM: the
\* hook is armed only on a VM that is there.
HooksOnlyLiveVM == [][\A s \in Stoppers : StopArm(s) => ptr[s] \in live]_vars

-----------------------------------------------------------------------------
(* The inductive invariant behind the safety properties. *)

Locked == Touching \cup Closing \cup {"look", "clearFlag", "leave"}

LockHeld == (owner = Executor) <=> (mpc \in Locked)

\* L is NULL or points to the one VM there is, but while lua_close runs.
VMKnown ==
    /\ live = IF vm = NoVM \/ mpc = "closing" THEN {} ELSE {vm}
    /\ mpc = "new" => vm = NoVM
    /\ mpc \in Touching \cup {"closing"} => vm # NoVM
    /\ mpc = "clearFlag" /\ op = "eval" => vm # NoVM

\* Whatever can end the script of a job comes from a stop that overlaps it.
StopsCount ==
    /\ mpc \in Touching =>
          /\ flag = 1 => reached
          /\ \A s \in Stoppers : spc[s] # "idle" => reached
          /\ hook /\ mpc # "clearHook" => reached
          /\ mpc = "roused" => reached
    /\ mpc \in {"enter", "look", "clearFlag"} => ~cut
    /\ NoStaleStop

\* -EINTR is the last thing a job comes to.
ToldLast == ret = "-EINTR" => reached /\ mpc \in {"leave", "done", "idle"}

IInv == TypeOK /\ LockHeld /\ VMKnown /\ StopsCount /\ ToldLast

=============================================================================
