-------------------------- MODULE LuaRuntime_proofs --------------------------
(***************************************************************************)
(* The composition of worker and manager keeps to the worker: every step   *)
(* of it is a step of the worker, or none.  What is to show is that the    *)
(* two are in step: the worker is in the switch over job.type exactly as   *)
(* long as the manager is in a call, for what the job asks for, and the    *)
(* manager's answer is one the worker may pass on.                         *)
(*                                                                         *)
(* So the worker's invariant, which LuaWorker_proofs has for any outcome   *)
(* of a job, holds here, and with it an -EINTR can be followed from the    *)
(* stop through the manager, the worker and the frame to the caller.       *)
(***************************************************************************)
EXTENDS LuaRuntime, TLAPS

WP == INSTANCE LuaWorker_proofs WITH ret <- back

-----------------------------------------------------------------------------
(* The inductive invariant. *)

\* The worker runs a job while the manager is called for it, and is busy then.
InStep ==
    /\ wpc = "run" <=> mpc # "idle"
    /\ busy = 1 <=> wpc \in {"run", "ran"}
    /\ wpc = "run" => op = IF job.type = "reset" THEN "reset" ELSE "eval"

\* Each call of the manager stays on its side of the code, and returns what is
\* returned there.
Sided ==
    /\ op = "eval" => /\ mpc \in {"idle", "enter", "look", "clearFlag", "leave", "done"} \cup M!Touching
                      /\ mret \in {"0", "-EFAULT", "-EINTR", "-ENODEV"}
    /\ op = "reset" => /\ mpc \in {"idle", "enter", "look", "clearFlag", "leave", "done"} \cup M!Closing
                       /\ mret \in {"0", "-ENOMEM"}
    /\ op \in {"eval", "reset"}

IInv == InStep /\ Sided

LEMMA Initially == Init => IInv
BY DEF Init, W!Init, M!Init, IInv, InStep, Sided

-----------------------------------------------------------------------------
(* The manager's steps. *)

\* A call starts on the side it is for.
LEMMA CallSided == ASSUME NEW o \in {"eval", "reset"}, M!Call(o) PROVE Sided' /\ mpc = "idle" /\ mpc' = "enter" /\ op' = o
BY DEF M!Call, M!At, Sided

\* A call that goes on stays on its side, and does not return by itself.
LEMMA ForcedSided ==
    ASSUME Sided, M!Exec PROVE Sided' /\ op' = op /\ mpc # "idle" /\ mpc' # "idle"
<1> USE DEF Sided, M!Touching, M!Closing, M!At
<1>1. CASE M!Lock
  BY <1>1 DEF M!Lock
<1>2. CASE M!Look
  BY <1>2 DEF M!Look
<1>3. CASE M!ClearFlag
  BY <1>3 DEF M!ClearFlag
<1>4. CASE M!ClearHook
  BY <1>4 DEF M!ClearHook
<1>5. CASE M!StopHook
  BY <1>5 DEF M!StopHook, M!Raise, M!Finish
<1>6. CASE M!Chunk
  BY <1>6 DEF M!Chunk, M!Raise, M!Finish
<1>7. CASE M!ChunkEnds
  BY <1>7 DEF M!ChunkEnds, M!Raise, M!Finish
<1>8. CASE M!SleepCut
  BY <1>8 DEF M!SleepCut, M!Raise, M!Finish
<1>9. CASE M!SleepEnds
  BY <1>9 DEF M!SleepEnds
<1>10. CASE M!Unhook
  BY <1>10 DEF M!Unhook
<1>11. CASE M!Report
  BY <1>11 DEF M!Report
<1>12. CASE M!CloseBegins
  BY <1>12 DEF M!CloseBegins
<1>13. CASE M!CloseEnds
  BY <1>13 DEF M!CloseEnds
<1>14. CASE M!NewVM
  BY <1>14 DEF M!NewVM
<1>15. CASE M!Leave
  BY <1>15 DEF M!Leave
<1>16. CASE M!ScriptEnds
  BY <1>16 DEF M!ScriptEnds, M!Finish
<1>17. CASE M!Sleep
  BY <1>17 DEF M!Sleep
<1> QED
  BY <1>1, <1>2, <1>3, <1>4, <1>5, <1>6, <1>7, <1>8, <1>9, <1>10, <1>11, <1>12, <1>13, <1>14, <1>15, <1>16, <1>17
     DEF M!Exec, M!Forced

\* A stop wakes the executor, and nothing else.
LEMMA StopSided ==
    ASSUME Sided, NEW s, M!Stop(s) PROVE Sided' /\ op' = op /\ (mpc = "idle" <=> mpc' = "idle")
BY DEF M!Stop, M!StopFlag, M!StopRead, M!StopArm, M!StopWake, M!executor_state, Sided, M!Touching, M!Closing

-----------------------------------------------------------------------------
(* What each step is to the components. *)

WNext == W!Next \/ UNCHANGED wvars

\* The clients' calls are the worker's, and nothing to the manager.
LEMMA CallSteps ==
    ASSUME NEW c \in Clients, ShellCall(c) \/ WebCall(c) \/ PutTimeout(c) \/ Take(c)
    PROVE  /\ W!Client(c) /\ UNCHANGED mvars
           /\ busy' = busy /\ ((wpc' = wpc /\ job' = job) \/ (wpc = "blocked" /\ wpc' = "got"))
<1>1. W!Client(c) /\ UNCHANGED mvars
  BY DEF ShellCall, WebCall, PutTimeout, Take, W!Client, W!JobTypes, W!Scripts
<1>2. busy' = busy /\ ((wpc' = wpc /\ job' = job) \/ (wpc = "blocked" /\ wpc' = "got"))
  BY <1>1 DEF W!Client, W!Request, W!WebRun, W!Background, W!PutTimeout, W!TakeDone, W!Accept, W!EnterFrame, W!worker
<1> QED BY <1>1, <1>2

\* The stops are the manager's, and nothing to the worker.
LEMMA StopSteps ==
    ASSUME NEW c \in Clients, ShellStops(c) \/ CtrlC(c) \/ WebStops(c) \/ StopProceeds(c)
    PROVE  M!Stop(c) /\ UNCHANGED wvars
BY DEF ShellStops, CtrlC, WebStops, StopProceeds, M!Stop, M!StopProceeds

\* Looking, typing, waiting and nested connections are nothing to either.
LEMMA OtherSteps ==
    ASSUME NEW c \in Clients,
           TimePasses \/ ShellChecks(c) \/ KeyPress(c) \/ NestedBegins(c) \/ NestedEnds(c)
    PROVE  UNCHANGED <<wvars, mvars>>
BY DEF TimePasses, ShellChecks, KeyPress, NestedBegins, NestedEnds

\* The worker thread's own steps; a job begins and ends in both at once.
LEMMA WorkerSteps ==
    ASSUME IInv, WorkerAlone \/ Begin \/ Execute \/ SleepEnds \/ Script \/ End
    PROVE  IInv' /\ WNext
<1>1. CASE WorkerAlone
  <2>1. UNCHANGED mvars /\ W!Worker
    BY <1>1 DEF WorkerAlone, W!Worker
  <2>2. \/ UNCHANGED <<wpc, busy, job>>
        \/ wpc \notin {"got", "run"} /\ wpc' \notin {"run", "ran"} /\ busy' = (IF wpc = "ran" THEN 0 ELSE busy)
    BY <1>1 DEF WorkerAlone, W!GetBlocks, W!GetJob, W!ClearBusy, W!WriteResult, W!GiveSem
  <2>3. InStep'
    BY <2>1, <2>2 DEF IInv, InStep, mvars
  <2>4. Sided'
    BY <2>1 DEF IInv, Sided, mvars
  <2> QED BY <2>1, <2>3, <2>4 DEF IInv, WNext, W!Next
<1>2. CASE Begin
  <2> DEFINE o == IF job.type = "reset" THEN "reset" ELSE "eval"
  <2>1. W!SetBusy /\ M!Call(o) /\ o \in {"eval", "reset"}
    BY <1>2 DEF Begin
  <2>2. wpc' = "run" /\ busy' = 1 /\ job' = job
    BY <2>1 DEF W!SetBusy
  <2>3. Sided' /\ mpc' = "enter" /\ op' = o
    BY <2>1, CallSided
  <2>4. InStep'
    BY <2>2, <2>3 DEF InStep
  <2> QED BY <2>1, <2>3, <2>4 DEF IInv, WNext, W!Next, W!Worker
<1>3. CASE Execute \/ SleepEnds \/ Script
  <2>1. M!Exec /\ UNCHANGED wvars
    BY <1>3 DEF Execute, SleepEnds, Script, M!Exec, M!Forced
  <2>2. Sided' /\ op' = op /\ mpc # "idle" /\ mpc' # "idle"
    BY <2>1, ForcedSided DEF IInv
  <2>3. InStep'
    BY <2>1, <2>2 DEF IInv, InStep, wvars
  <2> QED BY <2>1, <2>2, <2>3 DEF IInv, WNext
<1>4. CASE End
  <2>1. /\ M!Return /\ mpc = "done" /\ mpc' = "idle" /\ wpc = "run" /\ wpc' = "ran" /\ res' = mret
        /\ op' = op /\ mret' = mret /\ UNCHANGED <<queue, job, busy, pc, msg, call, sem, result, back>>
    BY <1>4 DEF End, M!Return, M!At
  <2>2. mret \in W!Outcome(job.type)
    BY <2>1 DEF IInv, InStep, Sided, W!Outcome
  <2>3. W!Run
    BY <2>1, <2>2 DEF W!Run, W!client
  <2>4. InStep' /\ Sided'
    BY <2>1 DEF IInv, InStep, Sided
  <2> QED BY <2>1, <2>3, <2>4 DEF IInv, WNext, W!Next, W!Worker
<1> QED BY <1>1, <1>2, <1>3, <1>4

\* Every step of the composition is a step of the worker, or none to it.
LEMMA StepOfWorker == ASSUME IInv, [Next]_vars PROVE IInv' /\ WNext
<1>1. ASSUME UNCHANGED <<wvars, mvars>> PROVE IInv' /\ WNext
  BY <1>1 DEF IInv, InStep, Sided, wvars, mvars, WNext
<1>2. CASE UNCHANGED vars
  BY <1>1, <1>2 DEF vars
<1>3. ASSUME NEW c \in Clients, ShellCall(c) \/ WebCall(c) \/ PutTimeout(c) \/ Take(c)
      PROVE  IInv' /\ WNext
  <2>1. /\ W!Client(c) /\ UNCHANGED mvars
        /\ busy' = busy /\ ((wpc' = wpc /\ job' = job) \/ (wpc = "blocked" /\ wpc' = "got"))
    BY <1>3, CallSteps
  <2>2. InStep' /\ Sided'
    BY <2>1 DEF IInv, InStep, Sided, mvars
  <2> QED BY <2>1, <2>2 DEF IInv, WNext, W!Next
<1>4. ASSUME NEW c \in Clients, ShellStops(c) \/ CtrlC(c) \/ WebStops(c) \/ StopProceeds(c)
      PROVE  IInv' /\ WNext
  <2>1. M!Stop(c) /\ UNCHANGED wvars
    BY <1>4, StopSteps
  <2>2. Sided' /\ op' = op /\ (mpc = "idle" <=> mpc' = "idle")
    BY <2>1, StopSided DEF IInv
  <2>3. InStep'
    BY <2>1, <2>2 DEF IInv, InStep, wvars
  <2> QED BY <2>1, <2>2, <2>3 DEF IInv, WNext
<1>5. ASSUME NEW c \in Clients, ShellChecks(c) \/ KeyPress(c) \/ NestedBegins(c) \/ NestedEnds(c)
      PROVE  IInv' /\ WNext
  BY <1>1, <1>5, OtherSteps
<1>6. CASE TimePasses
  BY <1>1, <1>6 DEF TimePasses
<1>7. CASE WorkerForced \/ Script
  BY <1>7, WorkerSteps DEF WorkerForced
<1> QED BY <1>2, <1>3, <1>4, <1>5, <1>6, <1>7 DEF Next, Shell, Web, Clients

-----------------------------------------------------------------------------
(* The theorems. *)

\* The inductive invariant, of every behaviour of the composition.
THEOREM Inductive == Spec => []IInv
BY Initially, StepOfWorker, PTL DEF Spec

\* "lua stop" is refused only when no script can run: worker_busy is 1 for as long
\* as the manager may touch the VM, whatever clients and web servers do meanwhile.
THEOREM BusyProved == Spec => []BusyCoversVM
<1>1. IInv => BusyCoversVM
  BY DEF IInv, InStep, BusyCoversVM
<1> QED BY <1>1, Inductive, PTL

\* The composition keeps to the worker: what is said of LuaWorker for any outcome
\* of a job holds with the manager as it is.
THEOREM RuntimeImplementsWorker == Spec => ImplementsWorker
<1>1. Init => W!Init
  BY DEF Init
<1>2. IInv /\ [Next]_vars => [W!Next]_(W!vars)
  BY StepOfWorker DEF WNext, wvars, W!vars, W!worker, W!client
<1> QED BY <1>1, <1>2, Inductive, PTL DEF Spec, W!Spec, ImplementsWorker

-----------------------------------------------------------------------------
(* The worker's own invariant, in the composition. *)

\* The worker's next-state relation is the same through both instances.
LEMMA SameNext == WP!Next <=> W!Next
BY Zenon DEF WP!Next, W!Next, WP!Worker, W!Worker, WP!Client, W!Client,
      WP!GetBlocks, W!GetBlocks, WP!GetJob, W!GetJob, WP!SetBusy, W!SetBusy, WP!Run, W!Run,
      WP!ClearBusy, W!ClearBusy, WP!WriteResult, W!WriteResult, WP!GiveSem, W!GiveSem,
      WP!Request, W!Request, WP!WebRun, W!WebRun, WP!Background, W!Background,
      WP!PutTimeout, W!PutTimeout, WP!TakeDone, W!TakeDone,
      WP!EnterFrame, W!EnterFrame, WP!Accept, W!Accept, WP!HasRoom, W!HasRoom,
      WP!OwnJob, W!OwnJob, WP!FreeJob, W!FreeJob, WP!Outcome, W!Outcome,
      WP!JobTypes, W!JobTypes, WP!Scripts, W!Scripts,
      WP!vars, W!vars, WP!worker, W!worker, WP!client, W!client

\* What LuaWorker_proofs has shown holds of the worker that drives the manager.
THEOREM WorkerInvariant == Spec => []WP!IInv
<1>1. [W!Next]_(W!vars) => [WP!Next]_(WP!vars)
  BY SameNext DEF WP!vars, W!vars, WP!worker, W!worker, WP!client, W!client
<1>2. W!Init => WP!Init
  BY DEF WP!Init, W!Init, WP!NoJob, W!NoJob
<1>3. W!Spec => WP!Spec
  BY <1>1, <1>2, PTL DEF W!Spec, WP!Spec
<1>4. Spec => W!Spec
  BY RuntimeImplementsWorker DEF ImplementsWorker
<1>5. WP!Spec => []WP!IInv
  BY WP!Inductive, NobodyAssumption, QueueLenAssumption, MaxCallsAssumption
<1> QED BY <1>3, <1>4, <1>5, PTL

InHand == wpc \in {"got", "run", "ran", "write", "give"}

\* What is needed of it: the frame of the job in hand, and of a semaphore given.
Framed ==
    /\ pc \in [Clients -> {"idle", "putting", "waiting"}]
    /\ sem \in [Clients -> {0, 1}]
    /\ result \in [Clients -> W!Results]
    /\ back \in [Clients -> W!Results \cup W!Refusals]
    /\ \A c \in Clients :
          /\ InHand /\ job.owner = c => pc[c] = "waiting" /\ sem[c] = 0
          /\ wpc = "give" /\ job.owner = c => result[c] = res
          /\ sem[c] = 1 => pc[c] = "waiting"

\* The worker's invariant has these parts.
LEMMA WorkerFrames == WP!IInv => Framed
<1> SUFFICES ASSUME WP!IInv PROVE Framed
  OBVIOUS
<1>1. /\ pc \in [Clients -> {"idle", "putting", "waiting"}]
      /\ sem \in [Clients -> {0, 1}]
      /\ result \in [Clients -> W!Results]
      /\ back \in [Clients -> W!Results \cup W!Refusals]
  BY DEF WP!IInv, WP!TypeOK, WP!Results, WP!Refusals, W!Results, W!Refusals
<1>2. ASSUME NEW c \in Clients
      PROVE  /\ InHand /\ job.owner = c => pc[c] = "waiting" /\ sem[c] = 0
             /\ wpc = "give" /\ job.owner = c => result[c] = res
             /\ sem[c] = 1 => pc[c] = "waiting"
  <2>1. c # Nobody
    BY NobodyAssumption
  <2>2. InHand /\ job.owner = c => pc[c] = "waiting"
    BY <2>1 DEF WP!IInv, WP!JobsMine, WP!Mine, WP!InHand, InHand
  <2>3. sem[c] = 1 => pc[c] = "waiting" /\ ~(InHand /\ job.owner = c)
    BY DEF WP!IInv, WP!SemLast, WP!InHandFor, WP!InHand, InHand
  <2>4. wpc = "give" /\ job.owner = c => result[c] = res
    BY <2>1 DEF WP!IInv, WP!ResultsFit
  <2> QED BY <1>1, <2>2, <2>3, <2>4
<1> QED BY <1>1, <1>2 DEF Framed

-----------------------------------------------------------------------------
(* The way of an -EINTR. *)

\* In the manager: the flag is up, or -EINTR decided on, for a job that a stop
\* overlapped.
Told ==
    /\ mpc \in M!Touching /\ flag = 1 => reached
    /\ mret = "-EINTR" => reached /\ mpc \in {"leave", "done", "idle"}

\* From the worker's copy of the result into the frame and to the caller.
Carried ==
    \A c \in Clients :
        /\ wpc \in {"ran", "write", "give"} /\ job.owner = c /\ res = "-EINTR" => c \in hit
        /\ sem[c] = 1 /\ result[c] = "-EINTR" => c \in hit
        /\ pc[c] = "idle" /\ back[c] = "-EINTR" => c \in hit

\* At boot nothing has been told or carried.
LEMMA InitCarried == Init => Told /\ Carried
BY DEF Init, W!Init, M!Init, Told, Carried, M!Touching

\* The manager comes to -EINTR only for a job that a stop overlapped.
LEMMA ToldStep == ASSUME IInv, Told, [Next]_vars PROVE Told'
<1> USE DEF Told, M!Touching, M!At
<1>1. ASSUME UNCHANGED mvars PROVE Told'
  BY <1>1 DEF mvars
<1>2. ASSUME NEW s, M!Stop(s) PROVE Told'
  BY <1>2 DEF M!Stop, M!StopFlag, M!StopRead, M!StopArm, M!StopWake, M!executor_state, M!ReachesNow
<1>3. ASSUME NEW o, M!Call(o) PROVE Told'
  BY <1>3 DEF M!Call
<1>4. ASSUME M!Exec PROVE Told'
  <2>1. CASE M!Lock \/ M!Look \/ M!ClearHook \/ M!SleepEnds
    BY <2>1 DEF M!Lock, M!Look, M!ClearHook, M!SleepEnds
  <2>2. CASE M!ClearFlag
    <3>1. /\ mpc = "clearFlag" /\ mpc' \in {"clearHook", "close"} /\ flag' = 0 /\ mret' = mret
      BY <2>2 DEF M!ClearFlag
    <3> QED BY <3>1
  <2>3. CASE M!StopHook \/ M!Chunk \/ M!ChunkEnds \/ M!SleepCut \/ M!ScriptEnds \/ M!Sleep
    BY <2>3 DEF M!StopHook, M!Chunk, M!ChunkEnds, M!SleepCut, M!ScriptEnds, M!Sleep, M!Raise, M!Finish
  <2>4. CASE M!Unhook \/ M!Report \/ M!CloseBegins \/ M!CloseEnds \/ M!NewVM \/ M!Leave
    BY <2>4 DEF M!Unhook, M!Report, M!CloseBegins, M!CloseEnds, M!NewVM, M!Leave
  <2> QED BY <1>4, <2>1, <2>2, <2>3, <2>4 DEF M!Exec, M!Forced
<1>5. CASE End
  BY <1>5 DEF End, M!Return
<1>6. ASSUME NEW c \in Clients, ShellCall(c) \/ WebCall(c) \/ PutTimeout(c) \/ Take(c) PROVE Told'
  BY <1>1, <1>6, CallSteps
<1>7. ASSUME NEW c \in Clients, ShellStops(c) \/ CtrlC(c) \/ WebStops(c) \/ StopProceeds(c) PROVE Told'
  BY <1>2, <1>7, StopSteps
<1>8. ASSUME NEW c \in Clients,
             TimePasses \/ ShellChecks(c) \/ KeyPress(c) \/ NestedBegins(c) \/ NestedEnds(c)
      PROVE  Told'
  BY <1>1, <1>8, OtherSteps
<1>9. CASE WorkerAlone \/ TimePasses \/ UNCHANGED vars
  BY <1>1, <1>9 DEF WorkerAlone, TimePasses, vars
<1>10. CASE Begin \/ Execute \/ Script
  BY <1>3, <1>4, <1>10 DEF Begin, Execute, Script, M!Exec
<1> QED BY <1>5, <1>6, <1>7, <1>8, <1>9, <1>10 DEF Next, WorkerForced, Shell, Web, Clients

\* A call that begins starts with a clean frame; no job of its client is in hand.
LEMMA CallCarried ==
    ASSUME Framed, Framed', Carried, NEW c \in Clients, ShellCall(c) \/ WebCall(c)
    PROVE  Carried'
<1>1. hit' = hit \ {c}
  BY DEF ShellCall, WebCall
<1>2. PICK m : W!EnterFrame(c, m)
  BY DEF ShellCall, WebCall, W!Request, W!WebRun, W!Background
<1>3. /\ pc[c] = "idle" /\ sem'[c] = 0 /\ res' = res
      /\ \A d \in Clients \ {c} : sem'[d] = sem[d] /\ result'[d] = result[d]
  BY <1>2 DEF W!EnterFrame, ShellCall, WebCall, W!Request, W!WebRun, W!Background, Framed
<1>4. (wpc' = wpc /\ job' = job) \/ wpc' = "got"
  BY CallSteps
<1>5. /\ \A d \in Clients \ {c} : pc'[d] = pc[d] /\ back'[d] = back[d]
      /\ pc'[c] = "idle" => back'[c] # "-EINTR"
  <2>1. ASSUME NEW t, W!Request(c, t) PROVE <1>5!:
    BY <2>1 DEF W!Request, Framed
  <2>2. ASSUME NEW t, W!WebRun(c, t) PROVE <1>5!:
    BY <2>2 DEF W!WebRun, Framed
  <2>3. ASSUME NEW t, W!Background(c, t) PROVE <1>5!:
    BY <2>3 DEF W!Background, Framed
  <2> QED BY <2>1, <2>2, <2>3 DEF ShellCall, WebCall
<1>6. InHand => job.owner # c
  BY <1>3 DEF Framed
<1> QED BY <1>1, <1>3, <1>4, <1>5, <1>6 DEF Carried, InHand

\* The worker's steps carry an -EINTR on, and only to the client whose job it was.
LEMMA WorkerCarried ==
    ASSUME IInv, Framed, Framed', Told, Carried, WorkerAlone \/ End PROVE Carried'
<1>1. CASE WorkerAlone
  <2>1. UNCHANGED <<hit, back>>
    BY <1>1 DEF WorkerAlone, cvars, W!GetBlocks, W!GetJob, W!ClearBusy, W!WriteResult, W!GiveSem, W!client
  <2>2. CASE W!GetBlocks \/ W!ClearBusy
    BY <2>1, <2>2 DEF W!GetBlocks, W!ClearBusy, W!client, Carried
  <2>3. CASE W!GetJob
    <3>1. \A c \in Clients : pc'[c] = "idle" => pc[c] = "idle"
      BY <2>3 DEF W!GetJob, Framed
    <3> QED BY <2>1, <2>3, <3>1 DEF W!GetJob, Carried
  <2>4. CASE W!WriteResult
    <3>1. \A c \in Clients : result'[c] = IF c = job.owner THEN res ELSE result[c]
      BY <2>4 DEF W!WriteResult
    <3>2. \A c \in Clients : c = job.owner => sem[c] = 0
      BY <2>4 DEF W!WriteResult, Framed, InHand
    <3> QED BY <2>1, <2>4, <3>1, <3>2 DEF W!WriteResult, Carried
  <2>5. CASE W!GiveSem
    <3>1. \A c \in Clients : sem'[c] = IF c = job.owner THEN 1 ELSE sem[c]
      BY <2>5 DEF W!GiveSem
    <3>2. \A c \in Clients : c = job.owner => result[c] = res
      BY <2>5 DEF W!GiveSem, Framed
    <3> QED BY <2>1, <2>5, <3>1, <3>2 DEF W!GiveSem, Carried
  <2> QED BY <1>1, <2>2, <2>3, <2>4, <2>5 DEF WorkerAlone
<1>2. CASE End
  <2>1. /\ JobHit /\ wpc = "run" /\ res' = mret
        /\ UNCHANGED <<job, pc, sem, result, back>>
    BY <1>2 DEF End
  <2>2. mret = "-EINTR" => reached
    BY DEF Told
  <2>3. hit \subseteq hit'
    BY <2>1 DEF JobHit
  <2>4. \A c \in Clients : job.owner = c /\ reached => c \in hit'
    BY <2>1 DEF JobHit
  <2> QED BY <2>1, <2>2, <2>3, <2>4 DEF Carried
<1> QED BY <1>1, <1>2

\* No step brings an -EINTR to a client whose job no stop overlapped.
LEMMA CarriedStep ==
    ASSUME IInv, Framed, Framed', Told, Carried, [Next]_vars PROVE Carried'
<1>1. ASSUME UNCHANGED <<wvars, hit>> PROVE Carried'
  BY <1>1 DEF wvars, Carried
<1>2. ASSUME NEW c \in Clients, ShellCall(c) \/ WebCall(c) PROVE Carried'
  BY <1>2, CallCarried
<1>3. ASSUME NEW c \in Clients, PutTimeout(c) PROVE Carried'
  <2>1. W!PutTimeout(c) /\ hit' = hit
    BY <1>3 DEF PutTimeout, cvars
  <2>2. /\ back'[c] = "-EAGAIN"
        /\ \A d \in Clients \ {c} : pc'[d] = pc[d] /\ back'[d] = back[d]
        /\ UNCHANGED <<wpc, job, res, sem, result>>
    BY <2>1 DEF W!PutTimeout, W!worker, Framed
  <2> QED BY <2>1, <2>2 DEF Carried
<1>4. ASSUME NEW c \in Clients, Take(c) PROVE Carried'
  <2>1. W!TakeDone(c) /\ hit' = hit
    BY <1>4 DEF Take
  <2>2. /\ sem[c] = 1 /\ back'[c] = result[c] /\ sem'[c] = 0
        /\ \A d \in Clients \ {c} : pc'[d] = pc[d] /\ back'[d] = back[d] /\ sem'[d] = sem[d]
        /\ UNCHANGED <<wpc, job, res, result>>
    BY <2>1 DEF W!TakeDone, W!worker, Framed
  <2> QED BY <2>1, <2>2 DEF Carried
<1>5. ASSUME NEW c \in Clients,
             \/ ShellStops(c) \/ CtrlC(c) \/ WebStops(c) \/ StopProceeds(c)
             \/ ShellChecks(c) \/ KeyPress(c) \/ NestedBegins(c) \/ NestedEnds(c)
      PROVE  Carried'
  BY <1>1, <1>5 DEF ShellStops, CtrlC, WebStops, StopProceeds, ShellChecks, KeyPress, NestedBegins,
                    NestedEnds, cvars
<1>6. CASE TimePasses \/ Execute \/ Script \/ UNCHANGED vars
  BY <1>1, <1>6 DEF TimePasses, Execute, Script, vars, cvars
<1>7. CASE Begin
  <2>1. W!SetBusy /\ hit' = hit
    BY <1>7 DEF Begin, cvars
  <2> QED BY <2>1 DEF W!SetBusy, W!client, Carried
<1>8. CASE WorkerAlone \/ End
  BY <1>8, WorkerCarried
<1> QED BY <1>2, <1>3, <1>4, <1>5, <1>6, <1>7, <1>8 DEF Next, WorkerForced, Shell, Web, Clients

\* A call returns -EINTR only if a stop overlapped its own job, for any shells, web
\* servers and number of calls and stops: no stop is reported to another client,
\* or to the same client's next call.
THEOREM InterruptedCallsProved == Spec => []InterruptedCallsStopped
<1>1. Spec => []Framed
  BY WorkerInvariant, WorkerFrames, PTL
<1>2. IInv /\ Framed /\ Framed' /\ Told /\ Carried /\ [Next]_vars => Told' /\ Carried'
  BY ToldStep, CarriedStep
<1>3. Spec => [](Told /\ Carried)
  BY <1>1, <1>2, InitCarried, Inductive, PTL DEF Spec
<1>4. Told /\ Carried => InterruptedCallsStopped
  BY DEF Carried, InterruptedCallsStopped
<1> QED BY <1>3, <1>4, PTL

=============================================================================
