------------------------------ MODULE LuaRuntime ------------------------------
(***************************************************************************)
(* The worker and its queue (LuaWorker) put together with the virtual      *)
(* machine it drives (LuaManager), and with the two kinds of threads that  *)
(* submit and stop scripts: the shell (src/src/shell_commands.c) and the   *)
(* web server (src/src/web_server.c).                                      *)
(*                                                                         *)
(* The executor of LuaManager is the worker thread, between SetBusy and    *)
(* Run of LuaWorker.  The stoppers of LuaManager are the clients of        *)
(* LuaWorker: an idle shell looks at worker_busy before it stops, a shell  *)
(* that waits for a script polls for Ctrl+C, an idle web server stops      *)
(* unconditionally, and one that waits for a script serves nested          *)
(* connections, which may ask for a stop.                                  *)
(***************************************************************************)
EXTENDS Naturals, Sequences, FiniteSets

CONSTANTS
    Shells, Webs,   \* the client threads
    Nobody, QueueLen, MaxCalls, ScriptKinds, MaxGen   \* as in the components

Clients == Shells \cup Webs

ASSUME NobodyAssumption == Nobody \notin Clients
ASSUME QueueLenAssumption == QueueLen \in Nat \ {0}
ASSUME MaxCallsAssumption == MaxCalls \in Nat

VARIABLES
    queue, wpc, job, res, busy, pc, msg, call, sem, result, back,  \* LuaWorker
    vm, live, gen, hook, flag, owner, mpc, op, kind, mret, status,
    spc, ptr, reached, cut,                                        \* LuaManager
    checked,   \* shells that have found the worker busy and are about to stop it
    away,      \* web servers blocked on a nested connection
    late,      \* clients whose wait for a script has reached its 50 ms
    keys,      \* shells with a Ctrl+C typed and not yet read
    hit        \* (history) clients whose latest job a stop overlapped

W == INSTANCE LuaWorker WITH ret <- back
M == INSTANCE LuaManager
     WITH ret <- mret, Stoppers <- Clients, Readers <- {},
          Urgent <- Webs, Lazy <- Shells

wvars == <<queue, wpc, job, res, busy, pc, msg, call, sem, result, back>>
mvars == <<vm, live, gen, hook, flag, owner, mpc, op, kind, mret, status,
           spc, ptr, reached, cut>>
cvars == <<checked, away, late, keys, hit>>
vars == <<wvars, mvars, cvars>>

TypeOK ==
    /\ W!TypeOK /\ M!TypeOK
    /\ checked \subseteq Shells /\ away \subseteq Webs
    /\ late \cup keys \subseteq {c \in Clients : pc[c] = "waiting"}
    /\ keys \subseteq Shells /\ hit \subseteq Clients

Init ==
    /\ W!Init /\ M!Init
    /\ checked = {} /\ away = {} /\ late = {}
    /\ keys = {} /\ hit = {}

-----------------------------------------------------------------------------
(* Scheduling on one processor: web server (priority 6) before worker (7)    *)
(* before shell (14).                                                        *)

\* Client c is not in the middle of something else.
Free(c) == spc[c] = "idle" /\ c \notin checked \cup away

AwaitsScript(c) == pc[c] = "waiting" /\ msg[c].type # "reset"

WebReady(c) ==
    \/ spc[c] # "idle"
    \/ pc[c] = "waiting" /\ sem[c] = 1 /\ c \notin away
WorkerMay == \A c \in Webs : ~WebReady(c)
\* The worker sleeps in a script, or pends on its empty queue.
ShellMay == WorkerMay /\ (mpc = "asleep" \/ wpc = "blocked")

-----------------------------------------------------------------------------
(* Calls. *)

\* lua "...", lua run, lua reset, lua bg
ShellCall(c) ==
    /\ Free(c) /\ ShellMay
    /\ \/ \E t \in W!JobTypes : W!Request(c, t)
       \/ \E t \in W!Scripts : W!Background(c, t)
    /\ hit' = hit \ {c}
    /\ UNCHANGED <<mvars, checked, away, late, keys>>

\* POST /api/run with and without bg, POST /api/reset
WebCall(c) ==
    /\ Free(c)
    /\ \/ \E t \in W!Scripts : W!WebRun(c, t) \/ W!Background(c, t)
       \/ W!Request(c, "reset")
    /\ hit' = hit \ {c}
    /\ UNCHANGED <<mvars, checked, away, late, keys>>

PutTimeout(c) ==
    /\ W!PutTimeout(c)
    /\ UNCHANGED <<mvars, cvars>>

\* (mutant of Take: a key typed too late is kept for the next script)
TakeKeepsKeys(c) ==
    /\ Free(c)
    /\ c \in Shells => ShellMay
    /\ W!TakeDone(c)
    /\ late' = late \ {c}
    /\ UNCHANGED <<mvars, checked, away, keys, hit>>

\* The semaphore is taken and the call returns; a key typed too late is not read.
Take(c) ==
    /\ Free(c)
    /\ c \in Shells => ShellMay
    /\ W!TakeDone(c)
    /\ keys' = keys \ {c} /\ late' = late \ {c}
    /\ UNCHANGED <<mvars, checked, away, hit>>

\* k_sem_take(&done_sem, K_MSEC(50)) times out.  That takes longer than anything
\* but a script or the making of a VM.
TimePasses ==
    /\ M!Running \/ mpc \in {"closing", "new"}
    /\ late' = late \cup {c \in Clients \ away : AwaitsScript(c)}
    /\ UNCHANGED <<wvars, mvars, checked, away, keys, hit>>

\* The wait loop of handle_api_run accepts a connection and blocks in zsock_recv
\* on it; then it has its one request and serves it (WebStops is one of them).
NestedBegins(c) ==
    /\ Free(c) /\ c \in late /\ sem[c] = 0
    /\ away' = away \cup {c} /\ late' = late \ {c}
    /\ UNCHANGED <<wvars, mvars, checked, keys, hit>>

NestedEnds(c) ==
    /\ c \in away
    /\ away' = away \ {c}
    /\ UNCHANGED <<wvars, mvars, checked, late, keys, hit>>

-----------------------------------------------------------------------------
(* Stops. *)

\* "lua stop": only if the worker is busy.
ShellChecks(c) ==
    /\ Free(c) /\ pc[c] = "idle" /\ ShellMay
    /\ busy = 1
    /\ checked' = checked \cup {c}
    /\ UNCHANGED <<wvars, mvars, away, late, keys, hit>>

ShellStops(c) ==
    /\ c \in checked /\ ShellMay /\ M!StopFlag(c)
    /\ checked' = checked \ {c}
    /\ UNCHANGED <<wvars, away, late, keys, hit>>

\* The user types Ctrl+C while the shell waits for a script.
KeyPress(c) ==
    /\ AwaitsScript(c) /\ c \notin keys
    /\ keys' = keys \cup {c}
    /\ UNCHANGED <<wvars, mvars, checked, away, late, hit>>

\* lua_worker_wait_job reads it (the wait for a reset never looks).
CtrlC(c) ==
    /\ c \in keys \cap late /\ Free(c) /\ ShellMay
    /\ M!StopFlag(c)
    /\ keys' = keys \ {c} /\ late' = late \ {c}
    /\ UNCHANGED <<wvars, checked, away, hit>>

\* POST /api/lua/stop: to the idle server, or nested in the wait for a script.
WebStops(c) ==
    /\ \/ Free(c) /\ pc[c] = "idle" /\ UNCHANGED away
       \/ c \in away /\ away' = away \ {c}
    /\ M!StopFlag(c)
    /\ UNCHANGED <<wvars, checked, late, keys, hit>>

StopProceeds(c) ==
    /\ c \in Shells => ShellMay
    /\ M!StopProceeds(c)
    /\ UNCHANGED <<wvars, cvars>>

-----------------------------------------------------------------------------
(* The worker thread. *)

\* Taking a job and answering it, without the manager.
WorkerAlone ==
    /\ WorkerMay
    /\ W!GetBlocks \/ W!GetJob \/ W!ClearBusy \/ W!WriteResult \/ W!GiveSem
    /\ UNCHANGED <<mvars, cvars>>

\* (mutant of Begin: worker_busy is not set)
BeginNotBusy ==
    /\ WorkerMay
    /\ wpc = "got" /\ wpc' = "run"
    /\ M!Call(IF job.type = "reset" THEN "reset" ELSE "eval")
    /\ UNCHANGED <<queue, job, res, busy, pc, msg, call, sem, result, back, cvars>>

\* The job is under way: from worker_busy = 1 into lua_manager_eval or _reset.
Begin ==
    /\ WorkerMay
    /\ W!SetBusy
    /\ M!Call(IF job.type = "reset" THEN "reset" ELSE "eval")
    /\ UNCHANGED <<cvars>>

Execute ==
    /\ WorkerMay
    /\ M!Forced
    /\ UNCHANGED <<wvars, cvars>>

\* Of these: a sleep is over.
SleepEnds ==
    /\ WorkerMay
    /\ M!SleepEnds
    /\ UNCHANGED <<wvars, cvars>>

\* The script's own choices: to end, to fail, to sleep.
Script ==
    /\ WorkerMay
    /\ M!ScriptEnds \/ M!Sleep
    /\ UNCHANGED <<wvars, cvars>>

\* What is remembered of the job that ends: whether a stop overlapped it.
JobHit == hit' = IF reached THEN hit \cup ({job.owner} \cap Clients) ELSE hit

\* (mutant of End: the worker itself looks whether there was a stop)
EndLooksAtFlag ==
    /\ WorkerMay
    /\ M!Return
    /\ wpc = "run" /\ wpc' = "ran" /\ res' = IF flag = 1 THEN "-EINTR" ELSE mret
    /\ JobHit
    /\ UNCHANGED <<queue, job, busy, pc, msg, call, sem, result, back, checked, away, late, keys>>

\* job.result = what the manager returned.
End ==
    /\ WorkerMay
    /\ M!Return
    /\ wpc = "run" /\ wpc' = "ran" /\ res' = mret
    /\ JobHit
    /\ UNCHANGED <<queue, job, busy, pc, msg, call, sem, result, back, checked, away, late, keys>>

-----------------------------------------------------------------------------

WorkerForced == WorkerAlone \/ Begin \/ Execute \/ End

Shell(c) == \/ ShellCall(c) \/ ShellChecks(c) \/ ShellStops(c)
            \/ KeyPress(c) \/ CtrlC(c)
Web(c) == \/ WebCall(c) \/ WebStops(c)
          \/ NestedBegins(c) \/ NestedEnds(c)

Next ==
    \/ WorkerForced \/ Script \/ TimePasses
    \/ \E c \in Shells : Shell(c)
    \/ \E c \in Webs : Web(c)
    \/ \E c \in Clients : PutTimeout(c) \/ Take(c) \/ StopProceeds(c)

\* The worker gets the processor again and again (the web server blocks between
\* two requests), the shell whenever the others leave it to it; a stop once begun
\* is carried out, a nested connection sends its request, a blocked put times
\* out, a sleep is over some time.  Scripts may run for ever.
Fairness ==
    /\ SF_vars(WorkerForced) /\ SF_vars(SleepEnds) /\ WF_vars(TimePasses)
    /\ \A c \in Clients : SF_vars(Take(c)) /\ WF_vars(PutTimeout(c))
                          /\ SF_vars(StopProceeds(c))
    /\ \A c \in Shells : SF_vars(CtrlC(c))
    /\ \A c \in Webs : WF_vars(NestedEnds(c))

Spec == Init /\ [][Next]_vars
FairSpec == Spec /\ Fairness

-----------------------------------------------------------------------------
(* Properties. *)

\* The composition keeps to the worker: what the manager comes to is an outcome
\* the worker may answer, when the worker is in the switch over job.type.
ImplementsWorker == W!Spec

\* A stop names no job and several clients send them: nevertheless a call is told
\* -EINTR only when a stop overlapped the run of its own job.  A stop for another
\* client's job, or one that was over before, never comes to a call through the
\* flag, the worker's copy of the result or the frames.
InterruptedCallsStopped ==
    \A c \in Clients : pc[c] = "idle" /\ back[c] = "-EINTR" => c \in hit

\* "lua stop" is never refused while a script is being run: worker_busy covers
\* all of the time in which the VM may be touched.
BusyCoversVM == mpc # "idle" => busy = 1

\* A plain script on which a stop hook is armed releases the web request that
\* waits for it, however long it would have run.
StopFreesCaller ==
    \A c \in Webs : (M!Running /\ hook /\ job.owner = c) ~> (pc[c] = "idle")

\* The web server is never kept for good from accepting connections.
Unresponsive(c) ==
    pc[c] = "putting" \/ (pc[c] = "waiting" /\ msg[c].type = "reset")
ServerComesBack == \A c \in Webs : Unresponsive(c) ~> ~Unresponsive(c)

=============================================================================
