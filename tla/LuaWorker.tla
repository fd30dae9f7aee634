------------------------------ MODULE LuaWorker ------------------------------
(***************************************************************************)
(* The job queue in front of the Lua virtual machine                       *)
(* (src/src/lua_worker.c): one worker thread takes jobs from a Zephyr      *)
(* message queue, runs them, and answers the thread that asked through a   *)
(* semaphore and a result slot that both live in the STACK FRAME of the    *)
(* asking call.                                                            *)
(*                                                                         *)
(* A frame is named by the client and the number of its call.  The kernel  *)
(* objects behave as Zephyr implements them: k_msgq_put hands a message    *)
(* straight to a reader that is blocked on the empty queue, and k_msgq_get *)
(* moves the message of a writer blocked on the full queue into the slot   *)
(* it has freed, so that nobody can overtake a blocked writer.             *)
(***************************************************************************)
EXTENDS Naturals, Sequences

CONSTANTS
    Clients,    \* threads that submit jobs: the shell and the web server
    Nobody,     \* owner of a background job: done_sem and result_out are NULL
    QueueLen,   \* slots of lua_worker_msgq (8 in the source)
    MaxCalls    \* bound on the calls of one client

ASSUME NobodyAssumption == Nobody \notin Clients
ASSUME QueueLenAssumption == QueueLen \in Nat \ {0}
ASSUME MaxCallsAssumption == MaxCalls \in Nat

VARIABLES
    queue,   \* lua_worker_msgq
    wpc,     \* where the worker thread is in its loop
    job,     \* the worker's local copy of the job it has taken
    res,     \* job.result
    busy,    \* worker_busy
    pc,      \* what each client is doing
    msg,     \* the job the client's current (or last) call built
    call,    \* number of the client's current (or last) call
    sem,     \* done_sem in the client's frame: 0 or 1
    result,  \* result in the client's frame
    ret      \* what the client's last call returned

worker == <<wpc, job, res, busy>>
client == <<pc, msg, call, sem, result, ret>>
vars == <<queue, worker, client>>

JobTypes == {"eval", "file", "reset"}
Scripts == {"eval", "file"}

Jobs == [type : JobTypes, owner : Clients \cup {Nobody}, call : 0 .. MaxCalls]

\* What lua_manager_eval, lua_manager_eval_file and lua_manager_reset return.
Outcome(t) == IF t = "reset" THEN {"0", "-ENOMEM"}
                             ELSE {"0", "-EFAULT", "-EINTR", "-ENODEV"}
Results == {"0", "-ENOMEM", "-EFAULT", "-EINTR", "-ENODEV"}
\* What a k_msgq_put that finds no room returns, after 1 s and at once.
Refusals == {"-EAGAIN", "-ENOMSG"}

NoJob == [type |-> "eval", owner |-> Nobody, call |-> 0]

TypeOK ==
    /\ queue \in Seq(Jobs) /\ Len(queue) <= QueueLen
    /\ wpc \in {"next", "blocked", "got", "run", "ran", "write", "give"}
    /\ job \in Jobs
    /\ res \in Results
    /\ busy \in {0, 1}
    /\ pc \in [Clients -> {"idle", "putting", "waiting"}]
    /\ msg \in [Clients -> Jobs]
    /\ call \in [Clients -> 0 .. MaxCalls]
    /\ sem \in [Clients -> {0, 1}]
    /\ result \in [Clients -> Results]
    /\ ret \in [Clients -> Results \cup Refusals]

Init ==
    /\ queue = <<>>
    /\ wpc = "next" /\ job = NoJob /\ res = "0" /\ busy = 0
    /\ pc = [c \in Clients |-> "idle"]
    /\ msg = [c \in Clients |-> NoJob]
    /\ call = [c \in Clients |-> 0]
    /\ sem = [c \in Clients |-> 0]
    /\ result = [c \in Clients |-> "0"]
    /\ ret = [c \in Clients |-> "0"]

-----------------------------------------------------------------------------
(* The message queue. *)

HasRoom == wpc = "blocked" \/ Len(queue) < QueueLen

\* (mutant of Accept: one slot too many)
AcceptOffByOne(m) ==
    \/ /\ wpc = "blocked"
       /\ wpc' = "got" /\ job' = m
       /\ UNCHANGED queue
    \/ /\ wpc # "blocked" /\ Len(queue) <= QueueLen
       /\ queue' = Append(queue, m)
       /\ UNCHANGED <<wpc, job>>

\* k_msgq_put with room: to the blocked reader, else to the end of the queue.
Accept(m) ==
    \/ /\ wpc = "blocked"
       /\ wpc' = "got" /\ job' = m
       /\ UNCHANGED queue
    \/ /\ wpc # "blocked" /\ Len(queue) < QueueLen
       /\ queue' = Append(queue, m)
       /\ UNCHANGED <<wpc, job>>

-----------------------------------------------------------------------------
(* Clients. *)

\* A call enters its frame: k_sem_init(&done_sem, 0, 1); result = 0; job = {...}
EnterFrame(c, m) ==
    /\ pc[c] = "idle" /\ call[c] < MaxCalls
    /\ call' = [call EXCEPT ![c] = @ + 1]
    /\ msg' = [msg EXCEPT ![c] = m]
    /\ sem' = [sem EXCEPT ![c] = 0]
    /\ result' = [result EXCEPT ![c] = "0"]

OwnJob(c, t) == [type |-> t, owner |-> c, call |-> call[c] + 1]
FreeJob(c, t) == [type |-> t, owner |-> Nobody, call |-> call[c] + 1]

\* lua_worker_eval, lua_worker_eval_file, lua_worker_reset: the put may block
\* for 1 s.
Request(c, t) ==
    LET m == OwnJob(c, t) IN
    /\ EnterFrame(c, m)
    /\ \/ Accept(m) /\ pc' = [pc EXCEPT ![c] = "waiting"]
       \/ /\ ~HasRoom
          /\ pc' = [pc EXCEPT ![c] = "putting"]
          /\ UNCHANGED <<queue, wpc, job>>
    /\ UNCHANGED <<res, busy, ret>>

\* The synchronous branch of handle_api_run: the same frame, put with K_NO_WAIT.
WebRun(c, t) ==
    LET m == OwnJob(c, t) IN
    /\ EnterFrame(c, m)
    /\ \/ /\ Accept(m)
          /\ pc' = [pc EXCEPT ![c] = "waiting"]
          /\ UNCHANGED ret
       \/ /\ ~HasRoom
          /\ ret' = [ret EXCEPT ![c] = "-ENOMSG"]
          /\ UNCHANGED <<queue, wpc, job, pc>>
    /\ UNCHANGED <<res, busy>>

\* A background job ("lua bg", bg:true in /api/run) through
\* lua_worker_submit_async: nobody waits for it.
Background(c, t) ==
    LET m == FreeJob(c, t) IN
    /\ EnterFrame(c, m)
    /\ \/ Accept(m) /\ ret' = [ret EXCEPT ![c] = "0"]
       \/ /\ ~HasRoom
          /\ ret' = [ret EXCEPT ![c] = "-ENOMSG"]
          /\ UNCHANGED <<queue, wpc, job>>
    /\ UNCHANGED <<res, busy, pc>>

\* The second is over and the queue is still full.
PutTimeout(c) ==
    /\ pc[c] = "putting"
    /\ pc' = [pc EXCEPT ![c] = "idle"]
    /\ ret' = [ret EXCEPT ![c] = "-EAGAIN"]
    /\ UNCHANGED <<queue, worker, msg, call, sem, result>>

\* (mutant of TakeDone: the call gives up when the 50 ms are over)
TakeDoneGivesUp(c) ==
    /\ pc[c] = "waiting"
    /\ sem' = [sem EXCEPT ![c] = 0]
    /\ pc' = [pc EXCEPT ![c] = "idle"]
    /\ ret' = [ret EXCEPT ![c] = result[c]]
    /\ UNCHANGED <<queue, worker, msg, call, result>>

\* k_sem_take succeeds and the call returns what its frame holds.  The 50 ms
\* timeouts of lua_worker_wait_job only poll the terminal and wait again.
TakeDone(c) ==
    /\ pc[c] = "waiting" /\ sem[c] = 1
    /\ sem' = [sem EXCEPT ![c] = 0]
    /\ pc' = [pc EXCEPT ![c] = "idle"]
    /\ ret' = [ret EXCEPT ![c] = result[c]]
    /\ UNCHANGED <<queue, worker, msg, call, result>>

-----------------------------------------------------------------------------
(* The worker thread. *)

\* k_msgq_get finds nothing: the worker blocks in it.
GetBlocks ==
    /\ wpc = "next" /\ queue = <<>>
    /\ wpc' = "blocked"
    /\ UNCHANGED <<queue, job, res, busy, client>>

\* (mutant of GetJob: the blocked writer is woken, its message is dropped)
GetJobDropsWriter ==
    /\ wpc = "next" /\ queue # <<>>
    /\ wpc' = "got" /\ job' = Head(queue)
    /\ queue' = Tail(queue)
    /\ pc' = [c \in Clients |-> IF pc[c] = "putting" THEN "waiting" ELSE pc[c]]
    /\ UNCHANGED <<res, busy, msg, call, sem, result, ret>>

\* (mutant of GetJob: the blocked writer is left blocked)
GetJobLeavesWriter ==
    /\ wpc = "next" /\ queue # <<>>
    /\ wpc' = "got" /\ job' = Head(queue) /\ queue' = Tail(queue)
    /\ UNCHANGED <<res, busy, client>>

\* k_msgq_get takes the head; the freed slot goes to a blocked writer if there
\* is one.  Which one depends on thread priorities: any.
GetJob ==
    /\ wpc = "next" /\ queue # <<>>
    /\ wpc' = "got" /\ job' = Head(queue)
    /\ \/ /\ \A c \in Clients : pc[c] # "putting"
          /\ queue' = Tail(queue)
          /\ UNCHANGED pc
       \/ \E c \in Clients :
             /\ pc[c] = "putting"
             /\ queue' = Append(Tail(queue), msg[c])
             /\ pc' = [pc EXCEPT ![c] = "waiting"]
    /\ UNCHANGED <<res, busy, msg, call, sem, result, ret>>

SetBusy ==
    /\ wpc = "got"
    /\ wpc' = "run" /\ busy' = 1
    /\ UNCHANGED <<queue, job, res, client>>

\* (mutant of Run: the case of a reset falls through to the scripts)
RunFallsThrough ==
    /\ wpc = "run"
    /\ wpc' = "ran"
    /\ res' \in Outcome(job.type) \cup Outcome("eval")
    /\ UNCHANGED <<queue, job, busy, client>>

\* The switch over job.type: the manager runs the job to its end.
Run ==
    /\ wpc = "run"
    /\ wpc' = "ran"
    /\ res' \in Outcome(job.type)
    /\ UNCHANGED <<queue, job, busy, client>>

ClearBusy ==
    /\ wpc = "ran"
    /\ wpc' = "write" /\ busy' = 0
    /\ UNCHANGED <<queue, job, res, client>>

\* (mutant of WriteResult: the semaphore is given first)
WriteResultSemFirst ==
    /\ wpc = "write"
    /\ wpc' = "give"
    /\ sem' = [c \in Clients |-> IF c = job.owner THEN 1 ELSE sem[c]]
    /\ UNCHANGED <<queue, job, res, busy, pc, msg, call, result, ret>>

\* *job.result_out = job.result, into whatever frame of the owner is there.
WriteResult ==
    /\ wpc = "write"
    /\ wpc' = "give"
    /\ result' = [c \in Clients |-> IF c = job.owner THEN res ELSE result[c]]
    /\ UNCHANGED <<queue, job, res, busy, pc, msg, call, sem, ret>>

\* (mutant of GiveSem: only a success is signalled)
GiveSemIfOk ==
    /\ wpc = "give"
    /\ wpc' = "next"
    /\ sem' = [c \in Clients |-> IF c = job.owner /\ res = "0" THEN 1 ELSE sem[c]]
    /\ UNCHANGED <<queue, job, res, busy, pc, msg, call, result, ret>>

GiveSem ==
    /\ wpc = "give"
    /\ wpc' = "next"
    /\ sem' = [c \in Clients |-> IF c = job.owner THEN 1 ELSE sem[c]]
    /\ UNCHANGED <<queue, job, res, busy, pc, msg, call, result, ret>>

-----------------------------------------------------------------------------

Worker == \/ GetBlocks \/ GetJob \/ SetBusy \/ Run
          \/ ClearBusy \/ WriteResult \/ GiveSem

Client(c) == \/ \E t \in JobTypes : Request(c, t)
             \/ \E t \in Scripts : WebRun(c, t) \/ Background(c, t)
             \/ PutTimeout(c)
             \/ TakeDone(c)

Next == Worker \/ \E c \in Clients : Client(c)

\* The scheduler runs a ready thread in the end, the kernel's timer wakes a
\* blocked put, and Run fair means that every script comes to its end (the
\* scripts that do not are the subject of LuaRuntime).
Fairness == /\ WF_vars(Worker)
            /\ \A c \in Clients : WF_vars(PutTimeout(c)) /\ WF_vars(TakeDone(c))

Spec == Init /\ [][Next]_vars
FairSpec == Spec /\ Fairness

-----------------------------------------------------------------------------
(* Properties. *)

\* The worker holds a job that it has not answered yet.
InHand == wpc \in {"got", "run", "ran", "write", "give"}

\* The stack frame named by job m is still there and its call still waits.
LiveFrame(m) == pc[m.owner] = "waiting" /\ call[m.owner] = m.call

\* Every frame the worker could still write to (a result through result_out, a
\* semaphore through done_sem) belongs to a call that has not returned: neither
\* the job in hand nor any queued job holds a dangling pointer.
NoDanglingFrame ==
    /\ InHand /\ job.owner # Nobody => LiveFrame(job)
    /\ \A i \in 1 .. Len(queue) : queue[i].owner # Nobody => LiveFrame(queue[i])

\* The places from which client c can still be answered.
QueuedFor(c) == {i \in 1 .. Len(queue) : queue[i].owner = c}
InHandFor(c) == InHand /\ job.owner = c

\* No lost wake-up, no second answer and none for a call that is over: a call
\* waits exactly when there is a queued job, a job in hand or a semaphore given
\* for it, and there is never more than one of these.
OneAnswerComing ==
    \A c \in Clients :
        /\ pc[c] = "waiting" <=> QueuedFor(c) # {} \/ InHandFor(c) \/ sem[c] = 1
        /\ InHandFor(c) => QueuedFor(c) = {} /\ sem[c] = 0
        /\ sem[c] = 1 => QueuedFor(c) = {}
        /\ \A i, j \in QueuedFor(c) : i = j

\* A call is answered with an outcome of the kind of job it asked for (a reset
\* never returns a script's -EINTR), or refused for want of room.
AnswerFitsCall ==
    \A c \in Clients :
        pc[c] = "idle" => ret[c] \in Outcome(msg[c].type) \cup Refusals

\* A writer is blocked only in front of a full queue and a busy worker, so the
\* time-out of a put really means that there was no room.
BlockedOnlyWhenFull ==
    \A c \in Clients :
        pc[c] = "putting" => Len(queue) = QueueLen /\ wpc # "blocked"

\* Every call on the worker returns in the end: it is refused or answered.
EveryCallReturns ==
    \A c \in Clients : (pc[c] # "idle") ~> (pc[c] = "idle")

-----------------------------------------------------------------------------
(* The inductive invariant behind the safety properties. *)

\* Job m is the one its owner's current call built, and that call waits.
Mine(m) == m.owner # Nobody => pc[m.owner] = "waiting" /\ m = msg[m.owner]

\* A call under way is described by the job in its frame.
FramesBuilt ==
    \A c \in Clients : pc[c] # "idle" => msg[c].owner = c /\ msg[c].call = call[c]

JobsMine ==
    /\ InHand => Mine(job)
    /\ \A i \in 1 .. Len(queue) : Mine(queue[i])

\* No client's job is in two places.
JobsApart ==
    /\ \A i, j \in 1 .. Len(queue) :
          queue[i].owner # Nobody /\ queue[i].owner = queue[j].owner => i = j
    /\ \A i \in 1 .. Len(queue) :
          InHand /\ queue[i].owner # Nobody => queue[i].owner # job.owner

\* A semaphore given to a call is the last thing that is done for it.
SemLast ==
    \A c \in Clients : sem[c] = 1 =>
        /\ pc[c] = "waiting"
        /\ ~InHandFor(c)
        /\ \A i \in 1 .. Len(queue) : queue[i].owner # c

AnswerComing ==
    \A c \in Clients : pc[c] = "waiting" =>
        \/ \E i \in 1 .. Len(queue) : queue[i].owner = c
        \/ InHandFor(c)
        \/ sem[c] = 1

QueueBlocks ==
    /\ wpc = "blocked" => queue = <<>>
    /\ BlockedOnlyWhenFull

ResultsFit ==
    /\ wpc \in {"ran", "write", "give"} => res \in Outcome(job.type)
    /\ wpc = "give" /\ job.owner # Nobody => result[job.owner] = res
    /\ \A c \in Clients : sem[c] = 1 => result[c] \in Outcome(msg[c].type)
    /\ AnswerFitsCall

IInv == /\ TypeOK /\ FramesBuilt /\ JobsMine /\ JobsApart
        /\ SemLast /\ AnswerComing /\ QueueBlocks /\ ResultsFit

-----------------------------------------------------------------------------
(* The worker implements the service of JobService. *)

\* Accepted requests that have not run yet: the job in hand, then the queue.
Line == IF wpc \in {"got", "run"} THEN <<job>> \o queue ELSE queue

\* The outcome a client has coming: on its way in the worker, or in its frame.
Answer ==
    [c \in Clients |->
        IF pc[c] # "waiting" THEN "none"
        ELSE IF job.owner = c /\ wpc \in {"ran", "write", "give"} THEN res
        ELSE IF sem[c] = 1 THEN result[c]
        ELSE "pending"]

Service == INSTANCE JobService
    WITH Requests <- Jobs, RefuseFrom <- QueueLen, Capacity <- QueueLen + 1,
         line <- Line, answer <- Answer, got <- ret

\* Seen through Line and Answer, every step of the worker and of its callers is
\* a step of the service: jobs run in the order in which they were accepted,
\* each once, and every call returns the outcome of its own job, although
\* results travel through stack frames of other threads.
ImplementsService == Service!Spec

=============================================================================
